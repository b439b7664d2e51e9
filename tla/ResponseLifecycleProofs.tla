----------------------- MODULE ResponseLifecycleProofs ---------------------
(***************************************************************************)
(* For every number of commands, actions, sessions and faults: commands    *)
(* keep the promises of CommandDelivery inside the lifecycle of response   *)
(* actions, the two columns of the agent row stay consistent as long as no *)
(* outdated copy is written back, and an action follows the command it is  *)
(* linked to.                                                              *)
(***************************************************************************)
EXTENDS ResponseLifecycle, TLAPS

P == INSTANCE CommandDeliveryProofs

-----------------------------------------------------------------------------
(* The commands *)

\* D and P are two instances of one module.
LEMMA SameInit == D!Init <=> P!Init
  BY DEF D!Init, P!Init

\* So their steps are the same ...
LEMMA SameNext == D!Next <=> P!Next
  BY DEF D!Next, D!IssueCommand, D!Pull, D!PullPending, D!Pending, D!Acknowledge,
     D!VerifyExecution, D!CanRetry, D!RejectReport, D!Run, D!Results, D!Lose,
     D!Without, D!RunUnreported,
     P!Next, P!IssueCommand, P!Pull, P!PullPending, P!Pending, P!Acknowledge,
     P!VerifyExecution, P!CanRetry, P!RejectReport, P!Run, P!Results, P!Lose,
     P!Without, P!RunUnreported

\* ... and their types.
LEMMA SameTypeOK == D!TypeOK <=> P!TypeOK
  BY DEF D!TypeOK, P!TypeOK, D!Statuses, P!Statuses, D!Hops, P!Hops, D!Results, P!Results

\* Inserting a command is a step of CommandDelivery.
LEMMA NewCommandDelivers ==
  ASSUME NEW c \in Cmds, NEW k, NEW a, NewCommand(c, k, a)
  PROVE  D!Next
  BY DEF NewCommand, D!Next

\* So is an undo's compensation, or it leaves the commands alone.
LEMMA CompensateDelivers ==
  ASSUME NEW t, NEW copy, Compensate(t, copy)
  PROVE  D!Next \/ UNCHANGED delivery
<1>1. CASE Compensation(t) = "none"
  BY <1>1 DEF Compensate
<1>2. CASE Compensation(t) # "none"
  BY <1>2, NewCommandDelivers DEF Compensate
<1> QED BY <1>1, <1>2

\* An undo, completed or failed, through some copy of the agent row.
Undo(a) == \E copy, done : Revert(a, copy) \/ RevertFails(a, copy, done)

\* What UndoAction and UndoSelected do to everything but the sessions.
LEMMA UndoActions ==
  ASSUME NEW a \in Acts, UndoAction(a) \/ (\E s \in Sessions : UndoSelected(s, a))
  PROVE  Undo(a)
  BY DEF UndoAction, UndoSelected, Undo

\* It inserts at most its compensation.
LEMMA UndoDelivers ==
  ASSUME NEW a, Undo(a)
  PROVE  D!Next \/ UNCHANGED delivery
  BY CompensateDelivers DEF Undo, Revert, RevertFails

\* Every step of the lifecycle is a step of CommandDelivery or leaves the
\* commands as they are.
LEMMA NextDelivers ==
  ASSUME D!TypeOK, [Next]_vars
  PROVE  D!Next \/ UNCHANGED delivery
<1>1. ASSUME NEW a \in Acts, NEW c \in Cmds, NEW t \in Types, CreateAction(a, c, t)
      PROVE  D!Next
  BY <1>1, NewCommandDelivers DEF CreateAction
<1>2. ASSUME NEW c \in Cmds, NEW k \in RawKinds \union PostKinds, RawCommand(c, k) \/ PostCommand(c, k)
      PROVE  D!Next
  BY <1>2, NewCommandDelivers DEF RawCommand, PostCommand
<1>3. ASSUME HeartbeatAnswered
      PROVE  D!Next \/ UNCHANGED delivery
  <2>1. CASE D!Pending = {}
    BY <1>3, <2>1 DEF HeartbeatAnswered, D!PullPending, D!TypeOK, delivery
  <2>2. CASE D!Pending # {}
    BY <1>3, <2>2 DEF HeartbeatAnswered, D!Pull, D!Next
  <2> QED BY <2>1, <2>2
<1>4. ASSUME HeartbeatAnswerLost
      PROVE  D!Next
  BY <1>4 DEF HeartbeatAnswerLost, D!Pull, D!Next
<1>5. ASSUME NEW c \in Cmds, NEW result \in D!Results, RunCommand(c, result)
      PROVE  D!Next
  BY <1>5 DEF RunCommand, D!Next
<1>6. ASSUME NEW S \in SUBSET Cmds, NEW c \in S, RunUnreported(c, S)
      PROVE  D!Next
  BY <1>6 DEF RunUnreported, D!Next
<1>7. ASSUME NEW S \in SUBSET Cmds, S # {}, LoseFrames(S)
      PROVE  D!Next
  BY <1>7 DEF LoseFrames, D!Next
<1>8. ASSUME NEW c \in Cmds, HandleReport(c) \/ RefuseReport(c)
      PROVE  D!Next
  BY <1>8 DEF HandleReport, RefuseReport, D!Next
<1>9. ASSUME NEW a \in Acts, UndoAction(a) \/ (\E s \in Sessions : UndoSelected(s, a))
      PROVE  D!Next \/ UNCHANGED delivery
  BY <1>9, UndoDelivers, UndoActions
<1>10. ASSUME \/ \E a \in Acts : CooldownLapses(a)
              \/ SweepDeadAgent
              \/ \E s \in Sessions : HoldAgents(s) \/ SelectForUndo(s)
              \/ RestartManager
       PROVE  UNCHANGED delivery
  BY <1>10 DEF CooldownLapses, SweepDeadAgent, HoldAgents, SelectForUndo, RestartManager
<1>11. CASE UNCHANGED vars
  BY <1>11 DEF vars
<1> QED BY <1>1, <1>2, <1>3, <1>4, <1>5, <1>6, <1>7, <1>8, <1>9, <1>10, <1>11 DEF Next

\* The inductive invariant of CommandDelivery holds here, too.
LEMMA DeliveryStep == P!IInv /\ [Next]_vars => P!IInv'
<1> SUFFICES ASSUME P!IInv, [Next]_vars
             PROVE  P!IInv'
  OBVIOUS
<1>1. D!TypeOK
  BY SameTypeOK DEF P!IInv
<1>2. P!Next \/ UNCHANGED delivery
  BY <1>1, NextDelivers, SameNext
<1>3. P!IInv /\ [P!Next]_(P!delivery) => P!IInv'
  BY LifecycleAssumption, P!NextKeepsIInv DEF P!MaxRetriesAssumption
<1> QED BY <1>2, <1>3 DEF delivery, P!delivery

\* The first part of every inductive invariant below.
LEMMA DeliveryHolds == Spec => []P!IInv
<1>1. Init => P!IInv
  <2>1. P!Init => P!IInv
    BY LifecycleAssumption, P!InitEstablishesIInv DEF P!MaxRetriesAssumption
  <2> QED BY <2>1, SameInit DEF Init
<1> QED BY <1>1, DeliveryStep, PTL DEF Spec

-----------------------------------------------------------------------------
(* The agent row *)

RowInv ==
    /\ agentStatus \in AgentStatuses
    /\ isIsolated \in BOOLEAN
    /\ unreleased \in BOOLEAN
    /\ ~unreleased => /\ agentStatus = "active" => ~isIsolated
                      /\ agentStatus = "isolated" => isIsolated

\* The pairs the code writes as a whole.
LEMMA PairsKeepRow ==
  ASSUME RowInv,
         \/ UNCHANGED agentRow
         \/ WriteRow("isolated", TRUE)
         \/ WriteRow("active", FALSE)
         \/ WriteRow("quarantine", TRUE)
  PROVE  RowInv'
<1> USE DEF RowInv, AgentStatuses
<1>1. CASE UNCHANGED agentRow
  BY <1>1 DEF agentRow
<1>2. CASE WriteRow("isolated", TRUE)
  BY <1>2 DEF WriteRow
<1>3. CASE WriteRow("active", FALSE)
  BY <1>3 DEF WriteRow
<1>4. CASE WriteRow("quarantine", TRUE)
  BY <1>4 DEF WriteRow
<1> QED BY <1>1, <1>2, <1>3, <1>4

\* A confirmed command writes the columns that belong together, and a confirmed
\* quarantine a status that goes with either flag.
LEMMA ConfirmKeepsRow ==
  ASSUME RowInv, NEW k, ConfirmAgentRow(k)
  PROVE  RowInv'
<1>1. CASE k \in {"isolate", "unisolate"}
  BY <1>1, PairsKeepRow DEF ConfirmAgentRow
<1>2. CASE k = "quarantine"
  BY <1>2 DEF ConfirmAgentRow, RowInv, AgentStatuses
<1>3. CASE k \notin {"isolate", "unisolate", "quarantine"}
  BY <1>3, PairsKeepRow DEF ConfirmAgentRow
<1> QED BY <1>1, <1>2, <1>3

\* An undo leaves the row alone, released, or marked as not released.
LEMMA UndoKeepsRow ==
  ASSUME RowInv, NEW a, Undo(a)
  PROVE  RowInv'
<1>1. UNCHANGED agentRow \/ \E copy : ReleaseThrough(copy)
  BY DEF Undo, Revert, RevertFails, Compensate
<1>2. ASSUME NEW copy, ReleaseThrough(copy)
      PROVE  RowInv'
  <2>1. /\ agentStatus' \in {"active", agentStatus}
        /\ isIsolated' \in {FALSE, isIsolated}
        /\ unreleased' \in BOOLEAN
        /\ ~unreleased' => agentStatus' = "active" /\ ~isIsolated'
    BY <1>2 DEF ReleaseThrough
  <2> QED BY <2>1 DEF RowInv, AgentStatuses
<1> QED BY <1>1, <1>2, PairsKeepRow

\* Nothing else tears the two columns apart.
LEMMA RowStep == RowInv /\ [Next]_vars => RowInv'
<1> SUFFICES ASSUME RowInv, [Next]_vars
             PROVE  RowInv'
  OBVIOUS
<1>1. ASSUME NEW c \in Cmds, NEW k \in RawKinds, RawCommand(c, k)
      PROVE  RowInv'
  <2>1. \/ WriteRow("isolated", TRUE)
        \/ WriteRow("active", FALSE)
        \/ WriteRow("quarantine", TRUE)
    BY <1>1 DEF RawCommand
  <2> QED BY <2>1, PairsKeepRow
<1>2. ASSUME HeartbeatRow
      PROVE  RowInv'
  BY <1>2 DEF HeartbeatRow, RowInv, AgentStatuses
<1>3. ASSUME SweepDeadAgent
      PROVE  RowInv'
  BY <1>3 DEF SweepDeadAgent, RowInv, AgentStatuses
<1>4. ASSUME UNCHANGED agentRow
      PROVE  RowInv'
  BY <1>4 DEF agentRow, RowInv
<1>5. ASSUME NEW c \in Cmds, HandleReport(c)
      PROVE  RowInv'
  BY <1>4, <1>5, ConfirmKeepsRow DEF HandleReport
<1>6. ASSUME NEW a \in Acts, UndoAction(a) \/ (\E s \in Sessions : UndoSelected(s, a))
      PROVE  RowInv'
  BY <1>6, UndoKeepsRow, UndoActions
<1>7. ASSUME HeartbeatAnswered \/ HeartbeatAnswerLost
      PROVE  RowInv'
  BY <1>2, <1>7 DEF HeartbeatAnswered, HeartbeatAnswerLost
<1>8. ASSUME \/ \E a \in Acts, c \in Cmds, t \in Types : CreateAction(a, c, t)
             \/ \E c \in Cmds, k \in PostKinds : PostCommand(c, k)
             \/ \E a \in Acts : CooldownLapses(a)
             \/ \E c \in Cmds, result \in D!Results : RunCommand(c, result)
             \/ \E S \in SUBSET Cmds : \E c \in S : RunUnreported(c, S)
             \/ \E S \in SUBSET Cmds : LoseFrames(S)
             \/ \E c \in Cmds : RefuseReport(c)
             \/ \E s \in Sessions : HoldAgents(s) \/ SelectForUndo(s)
             \/ RestartManager
      PROVE  UNCHANGED agentRow
  BY <1>8 DEF CreateAction, PostCommand, CooldownLapses, RunCommand, RunUnreported, LoseFrames,
     RefuseReport, HoldAgents, SelectForUndo, RestartManager
<1>9. CASE UNCHANGED vars
  BY <1>4, <1>9 DEF vars
<1> QED BY <1>1, <1>3, <1>4, <1>5, <1>6, <1>7, <1>8, <1>9 DEF Next

-----------------------------------------------------------------------------
(* Actions and the commands linked to them *)

\* Why ActionFollowsCommand is inductive: a command names an action only once
\* it is inserted, the action exists by then, and no other command names it.
Links ==
    /\ \A c \in Cmds : status[c] = "absent" => link[c] = NoAct
    /\ \A c \in Cmds : link[c] # NoAct => act[link[c]] # "absent"
    /\ \A c, d \in Cmds : link[c] # NoAct /\ link[c] = link[d] => c = d

LinkInv ==
    /\ link \in [Cmds -> Acts \union {NoAct}]
    /\ act \in [Acts -> ActStatuses]
    /\ Links
    /\ ActionFollowsCommand

\* What LinkInv needs to know about the commands.
LEMMA DeliveryFacts ==
  ASSUME P!IInv
  PROVE  /\ status \in [Cmds -> {"absent", "pending", "sent", "success", "failed"}]
         /\ \A c \in Cmds : hop[c] # "none" => status[c] = "sent"
  BY DEF P!IInv, P!TypeOK, P!Statuses, P!OneAttempt

\* A command without an action, and an action made applied or reverted,
\* break no link.
LEMMA UndoKeepsLinks ==
  ASSUME P!IInv, LinkInv, NEW a \in Acts, Undo(a)
  PROVE  LinkInv'
<1> USE DEF LinkInv, Links, ActionFollowsCommand, ActStatuses
<1>1. PICK x \in {"reverted", "applied"} : act' = [act EXCEPT ![a] = x]
  BY DEF Undo, Revert, RevertFails
<1>2. \/ status' = status /\ link' = link
      \/ \E c \in Cmds : /\ status[c] = "absent"
                         /\ status' = [status EXCEPT ![c] = "pending"]
                         /\ link' = [link EXCEPT ![c] = NoAct]
  BY DEF Undo, Revert, RevertFails, Compensate, NewCommand, D!IssueCommand, delivery
<1>3. CASE status' = status /\ link' = link
  BY <1>1, <1>3
<1>4. ASSUME NEW c \in Cmds, status[c] = "absent",
             status' = [status EXCEPT ![c] = "pending"],
             link' = [link EXCEPT ![c] = NoAct]
      PROVE  LinkInv'
  BY <1>1, <1>4, DeliveryFacts
<1> QED BY <1>2, <1>3, <1>4

\* A report settles the action its command names, or a pending action that
\* some command still to report names.
LEMMA ReportKeepsLinks ==
  ASSUME P!IInv, LinkInv, NEW c \in Cmds, HandleReport(c)
  PROVE  LinkInv'
<1> USE DEF LinkInv, Links, ActionFollowsCommand, ActStatuses
<1>1. status[c] = "sent" /\ link' = link
  BY DeliveryFacts DEF HandleReport, D!Acknowledge
<1>2. PICK verdict \in {"applied", "failed"} :
        /\ verdict = "applied" <=> hop[c] = "success"
        /\ act' = [b \in Acts |-> IF b \in ActionOf(c) THEN verdict ELSE act[b]]
  BY DEF HandleReport
<1>3. /\ status'[c] # "absent"
      /\ status'[c] = "success" => verdict = "applied"
      /\ status'[c] = "failed" => verdict = "failed"
      /\ \A d \in Cmds : d # c => status'[d] = status[d]
  BY <1>1, <1>2, DeliveryFacts DEF HandleReport, D!Acknowledge, D!VerifyExecution
<1>4. CASE link[c] # NoAct
  <2>1. act' = [act EXCEPT ![link[c]] = verdict]
    BY <1>2, <1>4 DEF ActionOf
  <2>2. link[c] \in Acts
    BY <1>4
  <2>3. \A d \in Cmds : d # c => link[d] # link[c]
    BY <1>4
  <2>4. act' \in [Acts -> ActStatuses] /\ act'[link[c]] = verdict
    BY <2>1, <2>2
  <2>5. \A d \in Cmds : d # c /\ link[d] # NoAct => act'[link[d]] = act[link[d]]
    BY <2>1, <2>3
  <2>6. Links'
    BY <1>1, <1>3, <1>4, <2>4, <2>5
  <2>7. ActionFollowsCommand'
    BY <1>1, <1>3, <2>4, <2>5
  <2> QED BY <1>1, <2>4, <2>6, <2>7
<1>5. CASE link[c] = NoAct
  <2>1. \A b \in ActionOf(c) : act[b] = "pending"
    BY <1>5 DEF ActionOf, LatestPending
  <2> QED BY <1>1, <1>2, <1>3, <1>5, <2>1
<1> QED BY <1>4, <1>5

\* Every step keeps links and action statuses together.
LEMMA LinkStep == P!IInv /\ LinkInv /\ [Next]_vars => LinkInv'
<1> SUFFICES ASSUME P!IInv, LinkInv, [Next]_vars
             PROVE  LinkInv'
  OBVIOUS
<1>1. ASSUME NEW a \in Acts, NEW c \in Cmds, NEW t \in Types, CreateAction(a, c, t)
      PROVE  LinkInv'
  <2>1. /\ act[a] = "absent" /\ act' = [act EXCEPT ![a] = "pending"]
        /\ status[c] = "absent" /\ status' = [status EXCEPT ![c] = "pending"]
        /\ link' = [link EXCEPT ![c] = a]
    BY <1>1 DEF CreateAction, NewCommand, D!IssueCommand
  <2>2. \A d \in Cmds : link[d] # a
    BY <2>1, LifecycleAssumption DEF LinkInv, Links
  <2> QED BY <2>1, <2>2, DeliveryFacts DEF LinkInv, Links, ActionFollowsCommand, ActStatuses
<1>2. ASSUME NEW c \in Cmds, NEW k \in RawKinds \union PostKinds, RawCommand(c, k) \/ PostCommand(c, k)
      PROVE  LinkInv'
  <2>1. /\ act' = act
        /\ status[c] = "absent" /\ status' = [status EXCEPT ![c] = "pending"]
        /\ link' = [link EXCEPT ![c] = NoAct]
    BY <1>2 DEF RawCommand, PostCommand, NewCommand, D!IssueCommand, actions
  <2> QED BY <2>1, DeliveryFacts DEF LinkInv, Links, ActionFollowsCommand, ActStatuses
<1>3. ASSUME act' = act, link' = link,
             \A c \in Cmds : \/ status'[c] = status[c]
                             \/ status[c] = "pending" /\ status'[c] = "sent"
      PROVE  LinkInv'
  BY <1>3, DeliveryFacts DEF LinkInv, Links, ActionFollowsCommand
<1>4. ASSUME HeartbeatAnswered \/ HeartbeatAnswerLost
      PROVE  LinkInv'
  <2>1. act' = act /\ link' = link
    BY <1>4 DEF HeartbeatAnswered, HeartbeatAnswerLost, actions
  <2>2. \A c \in Cmds : \/ status'[c] = status[c]
                        \/ status[c] = "pending" /\ status'[c] = "sent"
    BY <1>4 DEF HeartbeatAnswered, HeartbeatAnswerLost, D!PullPending, D!Pending
  <2> QED BY <1>3, <2>1, <2>2
<1>5. ASSUME NEW c \in Cmds, HandleReport(c)
      PROVE  LinkInv'
  BY <1>5, ReportKeepsLinks
<1>6. ASSUME NEW a \in Acts, UndoAction(a) \/ (\E s \in Sessions : UndoSelected(s, a))
      PROVE  LinkInv'
  BY <1>6, UndoKeepsLinks, UndoActions
<1>7. ASSUME \/ \E c \in Cmds, result \in D!Results : RunCommand(c, result)
             \/ \E S \in SUBSET Cmds : \E c \in S : RunUnreported(c, S)
             \/ \E S \in SUBSET Cmds : LoseFrames(S)
             \/ \E c \in Cmds : RefuseReport(c)
      PROVE  act' = act /\ link' = link /\ status' = status
  BY <1>7 DEF RunCommand, RunUnreported, LoseFrames, RefuseReport, D!Run,
     D!RunUnreported, D!Lose, D!RejectReport, actions
<1>8. ASSUME \/ \E a \in Acts : CooldownLapses(a)
             \/ SweepDeadAgent
             \/ \E s \in Sessions : HoldAgents(s) \/ SelectForUndo(s)
             \/ RestartManager
      PROVE  act' = act /\ link' = link /\ status' = status
  BY <1>8 DEF CooldownLapses, SweepDeadAgent, HoldAgents, SelectForUndo, RestartManager,
     actions, delivery
<1>9. CASE UNCHANGED vars
  BY <1>3, <1>9 DEF vars, actions, delivery
<1> QED BY <1>1, <1>2, <1>3, <1>4, <1>5, <1>6, <1>7, <1>8, <1>9 DEF Next

\* _handle_command_ack keeps an action in step with its own command through
\* retries, unlinked commands that settle it by kind, and undos.
THEOREM ActionsFollowCommands == Spec => []ActionFollowsCommand
<1>1. Init => LinkInv
  BY DEF Init, D!Init, LinkInv, Links, ActionFollowsCommand, ActStatuses
<1>2. LinkInv => ActionFollowsCommand
  BY DEF LinkInv
<1> QED BY <1>1, <1>2, DeliveryHolds, LinkStep, PTL DEF Spec

-----------------------------------------------------------------------------
(* Types *)

\* What TypeOK says beyond the commands, the row, links and action statuses.
RestTypes ==
    /\ kind \in [Cmds -> Kinds \union {"none"}]
    /\ type \in [Acts -> ActionTypes \union {"none"}]
    /\ auto \in [Acts -> BOOLEAN]
    /\ cooling \in [Acts -> BOOLEAN]
    /\ hostIsolated \in BOOLEAN
    /\ loaded \in [Sessions -> SUBSET Acts]
    /\ held \in [Sessions -> Copies \union {NoCopy}]
    /\ undone \in [Acts -> Nat]
    /\ faults \in 0..MaxFaults

\* The packet filter drops traffic or it does not.
LEMMA HostAfterType ==
  ASSUME NEW k, NEW result, hostIsolated \in BOOLEAN
  PROVE  HostAfter(k, result) \subseteq BOOLEAN
<1>1. CASE k = "isolate"
  BY <1>1 DEF HostAfter
<1>2. CASE k = "unisolate"
  BY <1>2 DEF HostAfter
<1>3. CASE k \notin {"isolate", "unisolate"}
  BY <1>3 DEF HostAfter
<1> QED BY <1>1, <1>2, <1>3

\* A new command of a known kind.
LEMMA NewKind ==
  ASSUME RestTypes, NEW c \in Cmds, NEW k \in Kinds, NEW a, NewCommand(c, k, a)
  PROVE  kind' \in [Cmds -> Kinds \union {"none"}]
  BY DEF RestTypes, NewCommand

\* The bound on faults.
LEMMA FaultType ==
  ASSUME RestTypes, Fault
  PROVE  faults' \in 0..MaxFaults
  BY LifecycleAssumption DEF RestTypes, Fault

\* An undo keeps the remaining types, whichever session it runs in.
LEMMA UndoKeepsTypes ==
  ASSUME RestTypes, NEW a \in Acts, Undo(a),
         loaded' \in [Sessions -> SUBSET Acts],
         held' \in [Sessions -> Copies \union {NoCopy}]
  PROVE  RestTypes'
<1>1. kind' \in [Cmds -> Kinds \union {"none"}]
  <2>1. kind' = kind \/ \E c \in Cmds : NewCommand(c, Compensation(type[a]), NoAct)
                                       /\ Compensation(type[a]) # "none"
    BY DEF Undo, Revert, RevertFails, Compensate
  <2>2. Compensation(type[a]) \in Kinds \union {"none"}
    BY DEF Compensation, Kinds
  <2> QED BY <2>1, <2>2, NewKind DEF RestTypes
<1>2. cooling' \in [Acts -> BOOLEAN]
  <2>1. (type[a] # "kill_process") \in BOOLEAN
    OBVIOUS
  <2> QED BY <2>1 DEF Undo, Revert, RevertFails, RestTypes
<1>3. undone' \in [Acts -> Nat]
  BY DEF Undo, Revert, RevertFails, RestTypes
<1>4. faults' \in 0..MaxFaults
  BY FaultType DEF Undo, Revert, RevertFails, RestTypes
<1>5. type' = type /\ auto' = auto /\ hostIsolated' = hostIsolated
  BY DEF Undo, Revert, RevertFails
<1> QED BY <1>1, <1>2, <1>3, <1>4, <1>5 DEF RestTypes

\* Every step keeps the remaining types.
LEMMA RestStep == RowInv /\ RestTypes /\ [Next]_vars => RestTypes'
<1> SUFFICES ASSUME RowInv, RestTypes, [Next]_vars
             PROVE  RestTypes'
  OBVIOUS
<1>1. ASSUME NEW a \in Acts, NEW c \in Cmds, NEW t \in Types, CreateAction(a, c, t)
      PROVE  RestTypes'
  <2>1. t \in ActionTypes /\ CommandOf(t) \in Kinds
    BY LifecycleAssumption DEF ActionTypes, CommandOf, Kinds
  <2>2. kind' \in [Cmds -> Kinds \union {"none"}]
    BY <1>1, <2>1, NewKind DEF CreateAction
  <2>3. /\ type' \in [Acts -> ActionTypes \union {"none"}]
        /\ cooling' \in [Acts -> BOOLEAN]
    BY <1>1, <2>1 DEF CreateAction, RestTypes
  <2>4. auto' \in [Acts -> BOOLEAN]
    BY <1>1 DEF CreateAction, RestTypes
  <2>5. UNCHANGED <<hostIsolated, sessions, undone, faults>>
    BY <1>1 DEF CreateAction
  <2> QED BY <2>2, <2>3, <2>4, <2>5 DEF RestTypes, sessions
<1>2. ASSUME NEW c \in Cmds, NEW k \in RawKinds \union PostKinds, RawCommand(c, k) \/ PostCommand(c, k)
      PROVE  RestTypes'
  <2>1. kind' \in [Cmds -> Kinds \union {"none"}]
    BY <1>2, NewKind, LifecycleAssumption DEF RawCommand, PostCommand
  <2> QED BY <1>2, <2>1 DEF RawCommand, PostCommand, RestTypes, actions, sessions
<1>3. ASSUME NEW a \in Acts, CooldownLapses(a)
      PROVE  RestTypes'
  BY <1>3 DEF CooldownLapses, RestTypes, sessions
<1>4. ASSUME kind' = kind, UNCHANGED actions, hostIsolated' \in BOOLEAN,
             loaded' \in [Sessions -> SUBSET Acts],
             held' \in [Sessions -> Copies \union {NoCopy}], faults' = faults \/ Fault
      PROVE  RestTypes'
  BY <1>4, FaultType DEF RestTypes, actions
<1>5. ASSUME HeartbeatAnswered \/ HeartbeatAnswerLost \/ SweepDeadAgent
      PROVE  RestTypes'
  BY <1>4, <1>5 DEF HeartbeatAnswered, HeartbeatAnswerLost, SweepDeadAgent, RestTypes, sessions
<1>6. ASSUME NEW c \in Cmds, NEW result, RunCommand(c, result)
      PROVE  RestTypes'
  BY <1>4, <1>6, HostAfterType DEF RunCommand, RestTypes, sessions
<1>7. ASSUME NEW S \in SUBSET Cmds, LoseFrames(S) \/ (\E c \in S : RunUnreported(c, S))
      PROVE  RestTypes'
  BY <1>4, <1>7, HostAfterType DEF LoseFrames, RunUnreported, RestTypes, sessions
<1>8. ASSUME NEW c \in Cmds, HandleReport(c) \/ RefuseReport(c)
      PROVE  RestTypes'
  BY <1>8 DEF HandleReport, RefuseReport, RestTypes, actions, sessions
<1>9. ASSUME NEW a \in Acts, UndoAction(a)
      PROVE  RestTypes'
  BY <1>9, UndoKeepsTypes, UndoActions DEF UndoAction, RestTypes, sessions
<1>10. ASSUME NEW s \in Sessions, NEW a \in Acts, UndoSelected(s, a)
       PROVE  RestTypes'
  <2>1. loaded' \in [Sessions -> SUBSET Acts]
    BY <1>10 DEF UndoSelected, RestTypes
  <2>2. PICK copy \in {NoCopy, Released, held[s]} : held' = [held EXCEPT ![s] = copy]
    BY <1>10 DEF UndoSelected, RestTypes
  <2>3. Released \in Copies
    BY DEF Released, Copies, AgentStatuses
  <2>4. held' \in [Sessions -> Copies \union {NoCopy}]
    BY <2>2, <2>3 DEF RestTypes
  <2> QED BY <1>10, <2>1, <2>4, UndoKeepsTypes, UndoActions
<1>11. ASSUME NEW s \in Sessions, HoldAgents(s)
       PROVE  RestTypes'
  <2>1. CurrentRow \in Copies
    BY DEF CurrentRow, Copies, RowInv
  <2> QED BY <1>4, <1>11, <2>1 DEF HoldAgents, RestTypes
<1>12. ASSUME NEW s \in Sessions, SelectForUndo(s)
       PROVE  RestTypes'
  <2>1. PICK copy \in {NoCopy, held[s]} : held' = [held EXCEPT ![s] = copy]
    BY <1>12 DEF SelectForUndo, RestTypes
  <2>2. loaded' \in [Sessions -> SUBSET Acts]
    BY <1>12 DEF SelectForUndo, Selectable, RestTypes
  <2> QED BY <1>4, <1>12, <2>1, <2>2 DEF SelectForUndo, RestTypes
<1>14. ASSUME RestartManager
       PROVE  RestTypes'
  BY <1>4, <1>14 DEF RestartManager, RestTypes
<1>13. CASE UNCHANGED vars
  BY <1>4, <1>13 DEF vars, RestTypes, sessions
<1> QED BY <1>1, <1>2, <1>3, <1>5, <1>6, <1>7, <1>8, <1>9, <1>10, <1>11, <1>12, <1>13, <1>14
        DEF Next

\* Everything starts empty.
LEMMA InitTypes == Init => RowInv /\ LinkInv /\ RestTypes
<1>1. Init => RowInv
  BY DEF Init, RowInv, AgentStatuses
<1>2. Init => LinkInv
  BY DEF Init, D!Init, LinkInv, Links, ActionFollowsCommand, ActStatuses
<1>3. ASSUME Init
      PROVE  RestTypes
  <2>1. faults \in 0..MaxFaults /\ undone \in [Acts -> Nat]
    BY <1>3, LifecycleAssumption DEF Init
  <2>2. auto \in [Acts -> BOOLEAN] /\ cooling \in [Acts -> BOOLEAN]
    BY <1>3 DEF Init
  <2>3. /\ kind \in [Cmds -> Kinds \union {"none"}]
        /\ type \in [Acts -> ActionTypes \union {"none"}]
        /\ loaded \in [Sessions -> SUBSET Acts]
        /\ held \in [Sessions -> Copies \union {NoCopy}]
    BY <1>3 DEF Init
  <2>4. hostIsolated \in BOOLEAN
    BY <1>3 DEF Init
  <2> QED BY <2>1, <2>2, <2>3, <2>4 DEF RestTypes
<1> QED BY <1>1, <1>2, <1>3

\* Types of the whole lifecycle; above all no action is ever left in a status
\* outside the five, "reverting" among them.
THEOREM TypesHold == Spec => []TypeOK
<1>1. Init => RowInv /\ LinkInv /\ RestTypes
  BY InitTypes
<1>2. P!IInv /\ RowInv /\ LinkInv /\ RestTypes => TypeOK
  BY SameTypeOK DEF P!IInv, RowInv, LinkInv, RestTypes, TypeOK
<1> QED BY <1>1, <1>2, DeliveryHolds, RowStep, LinkStep, RestStep, PTL DEF Spec

\* What CommandDelivery promises, its retry bound and its verdicts, survives
\* everything the lifecycle adds around it.
THEOREM CommandsKeepPromises ==
  Spec => [](D!OneAttempt /\ D!RunsAreBounded /\ D!VerdictIsEarned)
<1>1. P!IInv => D!OneAttempt /\ D!RunsAreBounded /\ D!VerdictIsEarned
  BY DEF P!IInv, P!OneAttempt, P!RunsAreBounded, P!VerdictIsEarned,
     D!OneAttempt, D!RunsAreBounded, D!VerdictIsEarned
<1> QED BY <1>1, DeliveryHolds, PTL

-----------------------------------------------------------------------------
(* Applied actions were carried out *)

Evidence(a) ==
    \E c \in Cmds : kind[c] = CommandOf(type[a]) /\ status[c] = "success"

\* AppliedWasReported is not inductive by itself: a session may undo an action
\* whose row has changed since it was selected, so what counts is that there
\* was evidence when it was selected, and that evidence stays.
EvidenceInv ==
    /\ \A c \in Cmds : link[c] # NoAct => kind[c] = CommandOf(type[link[c]])
    /\ \A a \in Acts : act[a] \in {"applied", "reverted"} => Evidence(a)
    /\ \A s \in Sessions : \A a \in loaded[s] : act[a] # "absent" /\ Evidence(a)

Known == P!IInv /\ RowInv /\ LinkInv /\ RestTypes

\* Rows that only ever change in one way.
LEMMA NewCommandIsStable ==
  ASSUME Known, NEW c \in Cmds, NEW k, NEW a, NewCommand(c, k, a)
  PROVE  /\ status' = [status EXCEPT ![c] = "pending"] /\ status[c] = "absent"
         /\ \A d \in Cmds : status[d] # "absent" =>
                kind'[d] = kind[d] /\ link'[d] = link[d] /\ status'[d] = status[d]
         /\ \A d \in Cmds : d # c => kind'[d] = kind[d] /\ link'[d] = link[d]
         /\ kind'[c] = k /\ link'[c] = a
  BY DeliveryFacts DEF Known, LinkInv, RestTypes, NewCommand, D!IssueCommand

\* A step that inserts at most an unlinked command, and changes no type, keeps
\* the links between kinds and types, and all evidence.
Unlinked ==
    \/ status' = status /\ kind' = kind /\ link' = link
    \/ \E c \in Cmds, k \in Kinds : NewCommand(c, k, NoAct)

\* Such a step loses nothing.
LEMMA UnlinkedKeepsEvidence ==
  ASSUME Known, EvidenceInv, Unlinked, type' = type
  PROVE  /\ (\A c \in Cmds : link[c] # NoAct => kind[c] = CommandOf(type[link[c]]))'
         /\ \A a \in Acts : Evidence(a) => Evidence(a)'
<1>1. CASE status' = status /\ kind' = kind /\ link' = link
  BY <1>1 DEF EvidenceInv, Evidence
<1>2. ASSUME NEW c \in Cmds, NEW k \in Kinds, NewCommand(c, k, NoAct)
      PROVE  /\ \A d \in Cmds : link'[d] # NoAct => kind'[d] = CommandOf(type[link'[d]])
             /\ \A a \in Acts : Evidence(a) => Evidence(a)'
  <2>1. \A d \in Cmds : link'[d] # NoAct => kind'[d] = CommandOf(type[link'[d]])
    BY <1>2, NewCommandIsStable DEF EvidenceInv
  <2>2. \A a \in Acts : Evidence(a) => Evidence(a)'
    BY <1>2, NewCommandIsStable DEF Evidence
  <2> QED BY <2>1, <2>2
<1> QED BY <1>1, <1>2 DEF Unlinked

\* An undo of an action for which there is evidence, even if its row has
\* changed since.
LEMMA UndoKeepsEvidence ==
  ASSUME Known, EvidenceInv, NEW a \in Acts, Evidence(a), Undo(a),
         \A s \in Sessions : loaded'[s] \subseteq loaded[s]
  PROVE  EvidenceInv'
<1>1. type' = type
  BY DEF Undo, Revert, RevertFails
<1>2. Unlinked
  <2>1. Compensation(type[a]) # "none" => Compensation(type[a]) \in Kinds
    BY DEF Compensation, Kinds
  <2> QED BY <2>1 DEF Undo, Revert, RevertFails, Compensate, Unlinked, delivery
<1>3. \A b \in Acts : b # a => act'[b] = act[b]
  BY DEF Undo, Revert, RevertFails, Known, LinkInv
<1>4. act'[a] # "absent"
  BY DEF Undo, Revert, RevertFails, Known, LinkInv
<1>5. \A b \in Acts : act'[b] \in {"applied", "reverted"} => Evidence(b)
  BY <1>3 DEF EvidenceInv
<1>6. \A s \in Sessions : \A b \in loaded'[s] : act'[b] # "absent" /\ Evidence(b)
  BY <1>3, <1>4 DEF EvidenceInv, Known, RestTypes
<1>7. \A s \in Sessions : loaded'[s] \subseteq Acts
  BY DEF Known, RestTypes
<1> QED BY <1>1, <1>2, <1>5, <1>6, <1>7, UnlinkedKeepsEvidence DEF EvidenceInv

\* The report of a success is the evidence for the action it settles.
LEMMA ReportKeepsEvidence ==
  ASSUME Known, EvidenceInv, NEW c \in Cmds, HandleReport(c)
  PROVE  EvidenceInv'
<1>1. UNCHANGED <<kind, link, type, loaded>>
  BY DEF HandleReport, sessions
<1>2. /\ status[c] = "sent"
      /\ \A d \in Cmds : d # c => status'[d] = status[d]
      /\ hop[c] = "success" => status'[c] = "success"
  BY DeliveryFacts DEF Known, HandleReport, D!Acknowledge, D!VerifyExecution
<1>3. \A a \in Acts : Evidence(a) => Evidence(a)'
  BY <1>1, <1>2 DEF Evidence
<1>4. PICK verdict \in {"applied", "failed"} :
        /\ verdict = "applied" <=> hop[c] = "success"
        /\ act' = [b \in Acts |-> IF b \in ActionOf(c) THEN verdict ELSE act[b]]
  BY DEF HandleReport
<1>5. \A a \in ActionOf(c) \intersect Acts : kind[c] = CommandOf(type[a])
  <2>1. CASE link[c] # NoAct
    BY <2>1 DEF ActionOf, EvidenceInv
  <2>2. CASE link[c] = NoAct
    <3>1. kind[c] # "auto_isolate"
      BY DEF Known, RestTypes, Kinds
    <3> QED BY <2>2, <3>1 DEF ActionOf, LatestPending, CommandOf
  <2> QED BY <2>1, <2>2
<1>6. \A a \in Acts : act'[a] \in {"applied", "reverted"} => Evidence(a)'
  <2> SUFFICES ASSUME NEW a \in Acts, act'[a] \in {"applied", "reverted"}
               PROVE  Evidence(a)'
    OBVIOUS
  <2>1. CASE a \in ActionOf(c)
    BY <1>1, <1>2, <1>4, <1>5, <2>1 DEF Evidence
  <2>2. CASE a \notin ActionOf(c)
    BY <1>3, <1>4, <2>2 DEF EvidenceInv
  <2> QED BY <2>1, <2>2
<1>7. \A s \in Sessions : \A a \in loaded[s] : act'[a] # "absent" /\ Evidence(a)'
  BY <1>3, <1>4 DEF EvidenceInv, Known, RestTypes
<1> QED BY <1>1, <1>6, <1>7 DEF EvidenceInv

\* Every step keeps the evidence for applied, reverted and selected actions.
LEMMA EvidenceStep == Known /\ EvidenceInv /\ [Next]_vars => EvidenceInv'
<1> SUFFICES ASSUME Known, EvidenceInv, [Next]_vars
             PROVE  EvidenceInv'
  OBVIOUS
<1>1. ASSUME NEW a \in Acts, NEW c \in Cmds, NEW t \in Types, CreateAction(a, c, t)
      PROVE  EvidenceInv'
  <2>1. /\ act[a] = "absent" /\ act' = [act EXCEPT ![a] = "pending"]
        /\ type' = [type EXCEPT ![a] = t] /\ loaded' = loaded
        /\ NewCommand(c, CommandOf(t), a)
    BY <1>1 DEF CreateAction, sessions
  <2>2. /\ act'[a] = "pending" /\ type'[a] = t
        /\ \A b \in Acts : b # a => act'[b] = act[b] /\ type'[b] = type[b]
    BY <2>1 DEF Known, LinkInv, RestTypes
  <2>3. \A d \in Cmds : link[d] # a
    BY <2>1, LifecycleAssumption DEF Known, LinkInv, Links
  <2>4. \A d \in Cmds : link'[d] # NoAct => kind'[d] = CommandOf(type'[link'[d]])
    BY <2>1, <2>2, <2>3, NewCommandIsStable DEF EvidenceInv, Known, LinkInv
  <2>5. \A b \in Acts : b # a /\ Evidence(b) => Evidence(b)'
    BY <2>1, <2>2, NewCommandIsStable DEF Evidence
  <2>6. \A b \in Acts : act'[b] \in {"applied", "reverted"} => Evidence(b)'
    BY <2>2, <2>5 DEF EvidenceInv
  <2>7. \A s \in Sessions : \A b \in loaded'[s] : act'[b] # "absent" /\ Evidence(b)'
    BY <2>1, <2>2, <2>5 DEF EvidenceInv, Known, RestTypes
  <2> QED BY <2>4, <2>6, <2>7 DEF EvidenceInv
<1>2. ASSUME Unlinked, type' = type, act' = act, loaded' = loaded
      PROVE  EvidenceInv'
  <2>1. \A s \in Sessions : loaded[s] \subseteq Acts
    BY DEF Known, RestTypes
  <2> QED BY <1>2, <2>1, UnlinkedKeepsEvidence DEF EvidenceInv
<1>3. ASSUME NEW c \in Cmds, NEW k \in RawKinds \union PostKinds, RawCommand(c, k) \/ PostCommand(c, k)
      PROVE  EvidenceInv'
  <2>1. Unlinked
    BY <1>3, LifecycleAssumption DEF RawCommand, PostCommand, Unlinked
  <2> QED BY <1>2, <1>3, <2>1 DEF RawCommand, PostCommand, actions, sessions
<1>4. ASSUME UNCHANGED <<kind, link, type, act, loaded>>,
             \A c \in Cmds : status[c] = "success" => status'[c] = "success"
      PROVE  EvidenceInv'
  BY <1>4 DEF EvidenceInv, Evidence
<1>5. ASSUME HeartbeatAnswered \/ HeartbeatAnswerLost
      PROVE  EvidenceInv'
  <2>1. \A c \in Cmds : status[c] = "success" => status'[c] = "success"
    BY <1>5 DEF HeartbeatAnswered, HeartbeatAnswerLost, D!PullPending, D!Pending
  <2> QED BY <1>4, <1>5, <2>1 DEF HeartbeatAnswered, HeartbeatAnswerLost, actions, sessions
<1>6. ASSUME \/ \E c \in Cmds, result \in D!Results : RunCommand(c, result)
             \/ \E S \in SUBSET Cmds : \E c \in S : RunUnreported(c, S)
             \/ \E S \in SUBSET Cmds : LoseFrames(S)
             \/ \E c \in Cmds : RefuseReport(c)
      PROVE  EvidenceInv'
  <2>1. UNCHANGED <<kind, link, type, act, loaded, status>>
    BY <1>6 DEF RunCommand, RunUnreported, LoseFrames, RefuseReport, D!Run,
       D!RunUnreported, D!Lose, D!RejectReport, actions, sessions
  <2> QED BY <1>4, <2>1
<1>7. ASSUME \/ \E a \in Acts : CooldownLapses(a)
             \/ SweepDeadAgent
             \/ \E s \in Sessions : HoldAgents(s)
             \/ UNCHANGED vars
      PROVE  EvidenceInv'
  <2>1. UNCHANGED <<kind, link, type, act, loaded, status>>
    BY <1>7 DEF CooldownLapses, SweepDeadAgent, HoldAgents, vars, delivery, actions, sessions
  <2> QED BY <1>4, <2>1
<1>8. ASSUME NEW c \in Cmds, HandleReport(c)
      PROVE  EvidenceInv'
  BY <1>8, ReportKeepsEvidence
<1>9. ASSUME NEW a \in Acts, UndoAction(a)
      PROVE  EvidenceInv'
  BY <1>9, UndoKeepsEvidence, UndoActions DEF UndoAction, EvidenceInv, sessions
<1>10. ASSUME NEW s \in Sessions, NEW a \in Acts, UndoSelected(s, a)
       PROVE  EvidenceInv'
  <2>1. Evidence(a)
    BY <1>10 DEF UndoSelected, EvidenceInv
  <2>2. \A r \in Sessions : loaded'[r] \subseteq loaded[r]
    BY <1>10 DEF UndoSelected, Known, RestTypes
  <2> QED BY <1>10, <2>1, <2>2, UndoKeepsEvidence, UndoActions
<1>11. ASSUME NEW s \in Sessions, SelectForUndo(s)
       PROVE  EvidenceInv'
  <2>1. UNCHANGED <<kind, link, type, act, status>>
    BY <1>11 DEF SelectForUndo, delivery, actions
  <2>2. \A r \in Sessions : \A a \in loaded'[r] :
            a \in loaded[r] \/ (a \in Acts /\ act[a] = "applied")
    <3>1. PICK S \in SUBSET Selectable(s) : loaded' = [loaded EXCEPT ![s] = S]
      BY <1>11 DEF SelectForUndo
    <3>2. \A a \in S : a \in Acts /\ act[a] = "applied"
      BY DEF Selectable
    <3> QED BY <3>1, <3>2 DEF Known, RestTypes
  <2> QED BY <2>1, <2>2 DEF EvidenceInv, Evidence
<1>12. ASSUME RestartManager
       PROVE  EvidenceInv'
  <2>1. UNCHANGED <<kind, link, type, act, status>> /\ loaded' = [r \in Sessions |-> {}]
    BY <1>12 DEF RestartManager, delivery, actions
  <2> QED BY <2>1 DEF EvidenceInv, Evidence
<1> QED BY <1>1, <1>3, <1>5, <1>6, <1>7, <1>8, <1>9, <1>10, <1>11, <1>12 DEF Next

\* An action that counts as applied or reverted was carried out by a command
\* of its kind, stale sessions and reports matched by kind included.
THEOREM AppliedActionsWereReported == Spec => []AppliedWasReported
<1>1. Init => EvidenceInv
  BY LifecycleAssumption DEF Init, EvidenceInv
<1>2. P!IInv /\ EvidenceInv => AppliedWasReported
  BY DEF P!IInv, P!VerdictIsEarned, EvidenceInv, Evidence, AppliedWasReported
<1>3. Init => RowInv /\ LinkInv /\ RestTypes
  BY InitTypes
<1> QED BY <1>1, <1>2, <1>3, DeliveryHolds, RowStep, LinkStep, RestStep, EvidenceStep, PTL
        DEF Spec, Known

-----------------------------------------------------------------------------
(* The agent row and the host *)

\* The kinds that change the packet filter, and the filter after them.
Isolating == {"isolate", "unisolate"}

\* A command that will still write the agent row when its report is handled.
UnderWay(c) == kind[c] \in Isolating /\ (status[c] = "pending" \/ hop[c] # "none")

\* Without faults the agent reports one command at a time, and only what it did.
OneReport ==
    \A c \in Cmds : hop[c] \in D!Results =>
        /\ hop[c] # "error"
        /\ kind[c] \in Isolating => hop[c] = "success" /\ (hostIsolated <=> kind[c] = "isolate")
        /\ \A d \in Cmds : hop[d] \in D!Results => d = c

\* Row and filter agree unless a command under way will settle them.
SettledAgree == isIsolated = hostIsolated \/ \E c \in Cmds : UnderWay(c)

\* A row that an undo left unreleased is released when the command the undo has
\* sent is confirmed.
Healing == unreleased => \E c \in Cmds : kind[c] = "unisolate" /\ UnderWay(c)

\* A kind is written when the command is inserted, and never again.
NewHasNoKind == \A c \in Cmds : status[c] = "absent" => kind[c] = "none"

\* Why RowAgreesWithHost is inductive: nothing guarantees that the row is written
\* in the order in which the host ran the commands, except that the agent waits
\* for each report to be handled.
HostInv ==
    /\ NewHasNoKind
    /\ faults = 0 /\ NoQuarantine => OneReport /\ SettledAgree /\ Healing

QuarantineKinds == {"quarantine", "release_quarantine"}

\* A step in which nothing goes wrong and no quarantine is issued, or one of
\* which HostInv says nothing.
LEMMA FaultlessStep ==
  ASSUME Known, HostInv, faults' = faults \/ Fault,
         NewHasNoKind',
         \A c \in Cmds : kind[c] = kind'[c] \/ kind[c] = "none",
         faults' = faults /\ faults = 0 /\ NoQuarantine /\ NoQuarantine' =>
             OneReport' /\ SettledAgree' /\ Healing'
  PROVE  HostInv'
<1>1. ASSUME faults' = 0 PROVE faults = 0 /\ faults' = faults
  BY <1>1 DEF Known, RestTypes, Fault
<1>2. ASSUME NoQuarantine' PROVE NoQuarantine
  BY <1>2 DEF NoQuarantine
<1> QED BY <1>1, <1>2 DEF HostInv

\* A new command.  An isolating one is under way from now on; any other leaves
\* the row alone.  Only an unisolate may come with a row left unreleased.
LEMMA IssueKeepsHost ==
  ASSUME Known, HostInv, NEW c \in Cmds, NEW k \in Kinds, NEW a, NewCommand(c, k, a),
         UNCHANGED hostIsolated, faults' = faults \/ Fault,
         k \in Isolating \union QuarantineKinds \/ UNCHANGED isIsolated,
         k \in {"unisolate"} \union QuarantineKinds \/ (unreleased' => unreleased)
  PROVE  HostInv'
<1>1. /\ status' = [status EXCEPT ![c] = "pending"] /\ status[c] = "absent"
      /\ \A d \in Cmds : d # c => kind'[d] = kind[d]
      /\ kind'[c] = k /\ UNCHANGED hop
  BY NewCommandIsStable DEF NewCommand, D!IssueCommand
<1>2. kind[c] = "none" /\ hop[c] = "none"
  BY <1>1, DeliveryFacts DEF HostInv, NewHasNoKind, Known
<1>3. \A d \in Cmds : d # c => status'[d] = status[d]
  BY <1>1, DeliveryFacts DEF Known
<1>4. status'[c] = "pending"
  BY <1>1, DeliveryFacts DEF Known
<1>5. NewHasNoKind'
  BY <1>1, <1>3, <1>4 DEF HostInv, NewHasNoKind
<1>6. \A d \in Cmds : kind[d] = kind'[d] \/ kind[d] = "none"
  BY <1>1, <1>2
<1>7. ASSUME OneReport PROVE OneReport'
  <2>1. \A d \in Cmds : hop[d] \in D!Results => d # c
    BY <1>2 DEF D!Results
  <2> QED BY <1>1, <1>7, <2>1 DEF OneReport, D!Results
<1>8. \A d \in Cmds : UnderWay(d) => UnderWay(d)' /\ kind'[d] = kind[d]
  BY <1>1, <1>2, <1>3 DEF UnderWay, Isolating
<1>9. ASSUME NoQuarantine' PROVE k \notin QuarantineKinds
  BY <1>1, <1>9 DEF NoQuarantine, QuarantineKinds
<1>10. ASSUME SettledAgree, NoQuarantine' PROVE SettledAgree'
  <2>1. CASE k \in Isolating
    BY <1>1, <1>4, <2>1 DEF SettledAgree, UnderWay
  <2>2. CASE k \notin Isolating
    BY <1>8, <1>9, <1>10, <2>2 DEF SettledAgree
  <2> QED BY <2>1, <2>2
<1>11. ASSUME Healing, NoQuarantine' PROVE Healing'
  <2>1. CASE k = "unisolate"
    BY <1>1, <1>4, <2>1 DEF Healing, UnderWay, Isolating
  <2>2. CASE k # "unisolate"
    BY <1>8, <1>9, <1>11, <2>2 DEF Healing
  <2> QED BY <2>1, <2>2
<1> QED BY <1>5, <1>6, <1>7, <1>10, <1>11, FaultlessStep DEF HostInv

\* Commands, row and filter stay as they are.
LEMMA StillKeepsHost ==
  ASSUME Known, HostInv,
         UNCHANGED <<status, hop, kind, isIsolated, unreleased, hostIsolated>>,
         faults' = faults \/ Fault
  PROVE  HostInv'
<1>1. NewHasNoKind'
  BY DEF HostInv, NewHasNoKind
<1>2. OneReport => OneReport'
  BY DEF OneReport, D!Results
<1>3. SettledAgree /\ Healing => SettledAgree' /\ Healing'
  BY DEF SettledAgree, Healing, UnderWay
<1> QED BY <1>1, <1>2, <1>3, FaultlessStep DEF HostInv

\* Commands, row and filter in a step that went wrong.
LEMMA FaultKeepsHost ==
  ASSUME Known, HostInv, Fault, UNCHANGED kind,
         \A c \in Cmds : status'[c] = "absent" => status[c] = "absent"
  PROVE  HostInv'
<1>1. faults' # 0 /\ faults' # faults
  BY DEF Known, RestTypes, Fault
<1> QED BY <1>1, FaultlessStep DEF HostInv, NewHasNoKind

\* The compensation of an undo is under way when the row is written, or left
\* as it is.
LEMMA UndoKeepsHost ==
  ASSUME Known, HostInv, NEW a \in Acts, Undo(a)
  PROVE  HostInv'
<1>1. UNCHANGED hostIsolated /\ (faults' = faults \/ Fault)
  BY DEF Undo, Revert, RevertFails
<1>2. CASE UNCHANGED <<delivery, kind, link, agentRow>>
  BY <1>1, <1>2, StillKeepsHost DEF delivery, agentRow
<1>3. CASE ~UNCHANGED <<delivery, kind, link, agentRow>>
  <2>1. PICK copy : Compensate(type[a], copy) /\ Compensation(type[a]) # "none"
    BY <1>3 DEF Undo, Revert, RevertFails, Compensate
  <2>2. /\ \E c \in Cmds : NewCommand(c, Compensation(type[a]), NoAct)
        /\ ~WritesRow(type[a]) => UNCHANGED agentRow
    BY <2>1 DEF Compensate
  <2>3. /\ Compensation(type[a]) \in Kinds
        /\ \/ Compensation(type[a]) \in {"unisolate"} \union QuarantineKinds
           \/ ~WritesRow(type[a])
    BY <2>1 DEF Compensation, Kinds, QuarantineKinds, WritesRow
  <2>4. \/ Compensation(type[a]) \in Isolating \union QuarantineKinds
        \/ ~WritesRow(type[a])
    BY <2>3 DEF Isolating
  <2> QED BY <1>1, <2>2, <2>3, <2>4, IssueKeepsHost DEF agentRow
<1> QED BY <1>2, <1>3

\* A pull changes who has the command, not that it is under way.
LEMMA PullKeepsHost ==
  ASSUME Known, HostInv, HeartbeatAnswered
  PROVE  HostInv'
<1>1. /\ UNCHANGED <<kind, isIsolated, unreleased, hostIsolated, faults>>
      /\ status' = [c \in Cmds |-> IF c \in D!Pending THEN "sent" ELSE status[c]]
      /\ hop' = [c \in Cmds |-> IF c \in D!Pending \ {} THEN "carried" ELSE hop[c]]
  BY DEF HeartbeatAnswered, HeartbeatRow, D!PullPending
<1>2. \A c \in Cmds : IF status[c] = "pending" THEN status'[c] = "sent" /\ hop'[c] = "carried"
                      ELSE status'[c] = status[c] /\ hop'[c] = hop[c]
  BY <1>1 DEF D!Pending
<1>3. \A c \in Cmds : hop'[c] \in D!Results => hop[c] = hop'[c]
  BY <1>2 DEF D!Results
<1>4. OneReport => OneReport'
  BY <1>1, <1>3 DEF OneReport, D!Results
<1>5. SettledAgree /\ Healing => SettledAgree' /\ Healing'
  BY <1>1, <1>2 DEF SettledAgree, Healing, UnderWay
<1>6. NewHasNoKind'
  BY <1>1, <1>2 DEF HostInv, NewHasNoKind
<1> QED BY <1>1, <1>4, <1>5, <1>6, FaultlessStep DEF HostInv

\* Without a fault the agent runs a command only when no report is out, and its
\* own report is the only one then.
LEMMA RunKeepsHost ==
  ASSUME Known, HostInv, NEW c \in Cmds, NEW result \in D!Results, RunCommand(c, result)
  PROVE  HostInv'
<1>1. /\ UNCHANGED <<status, kind, isIsolated, unreleased>>
      /\ hop' = [hop EXCEPT ![c] = result] /\ hop[c] = "carried"
      /\ hop \in [Cmds -> D!Hops]
  BY SameTypeOK DEF RunCommand, D!Run, agentRow, Known, P!IInv, D!TypeOK
<1>2. hop'[c] = result /\ \A d \in Cmds : d # c => hop'[d] = hop[d]
  BY <1>1
<1>3. faults' = faults \/ Fault
  BY DEF RunCommand
<1>4. ASSUME faults' = faults, NoQuarantine, SettledAgree, Healing
      PROVE  OneReport' /\ SettledAgree' /\ Healing'
  <2>1. result # "error" /\ \A d \in Cmds : hop[d] \notin D!Results
    BY <1>4 DEF RunCommand, Fault, Reporting, Known, RestTypes
  <2>2. /\ result \in ResultsOf(kind[c]) /\ hostIsolated' \in HostAfter(kind[c], result)
    BY DEF RunCommand
  <2>3. kind[c] \in Isolating => result = "success" /\ (hostIsolated' <=> kind[c] = "isolate")
    BY <2>1, <2>2 DEF Isolating, ResultsOf, HostAfter
  <2>4. kind[c] \notin Isolating => hostIsolated' = hostIsolated
    BY <2>2 DEF Isolating, HostAfter
  <2>5. OneReport'
    BY <1>1, <1>2, <2>1, <2>3 DEF OneReport, D!Results
  <2>7. \A d \in Cmds : UnderWay(d) => UnderWay(d)'
    <3>1. result # "none"
      BY DEF D!Results
    <3> QED BY <1>1, <1>2, <3>1 DEF UnderWay
  <2>6. SettledAgree'
    <3>1. CASE kind[c] \in Isolating
      <4>1. result # "none"
        BY DEF D!Results
      <4> QED BY <1>1, <1>2, <3>1, <4>1 DEF SettledAgree, UnderWay
    <3>2. CASE kind[c] \notin Isolating
      BY <1>1, <1>4, <2>4, <2>7, <3>2 DEF SettledAgree
    <3> QED BY <3>1, <3>2
  <2> QED BY <1>1, <1>4, <2>5, <2>6, <2>7 DEF Healing
<1>5. NewHasNoKind'
  BY <1>1 DEF HostInv, NewHasNoKind
<1> QED BY <1>1, <1>3, <1>4, <1>5, FaultlessStep DEF HostInv

\* The report of the last isolating command brings the row to what the host
\* already is.
LEMMA ReportKeepsHost ==
  ASSUME Known, HostInv, NEW c \in Cmds, HandleReport(c)
  PROVE  HostInv'
<1>1. /\ UNCHANGED <<kind, hostIsolated, faults>>
      /\ hop[c] \in {"success", "failed"} /\ hop' = [hop EXCEPT ![c] = "none"]
      /\ hop \in [Cmds -> D!Hops]
  BY SameTypeOK DEF HandleReport, D!Acknowledge, Known, P!IInv, D!TypeOK
<1>2. hop'[c] = "none" /\ \A d \in Cmds : d # c => hop'[d] = hop[d]
  BY <1>1
<1>3. /\ \A d \in Cmds : d # c => status'[d] = status[d]
      /\ status[c] = "sent" /\ status'[c] \in {"pending", "success", "failed"}
  BY DeliveryFacts DEF Known, HandleReport, D!Acknowledge, D!VerifyExecution
<1>4. ASSUME NoQuarantine, OneReport, SettledAgree, Healing
      PROVE  OneReport' /\ SettledAgree' /\ Healing'
  <2>1. OneReport'
    BY <1>1, <1>2, <1>4 DEF OneReport, D!Results
  <2>2. CASE kind[c] \in Isolating
    <3>1. hop[c] = "success" /\ (hostIsolated <=> kind[c] = "isolate")
      BY <1>1, <1>4, <2>2 DEF OneReport, D!Results
    <3>2. isIsolated' = (kind[c] = "isolate") /\ unreleased' = FALSE
      BY <2>2, <3>1 DEF HandleReport, ConfirmAgentRow, WriteRow, Isolating
    <3>3. hostIsolated \in BOOLEAN
      BY DEF Known, RestTypes
    <3> QED BY <1>1, <2>1, <3>1, <3>2, <3>3 DEF SettledAgree, Healing
  <2>3. CASE kind[c] \notin Isolating
    <3>1. UNCHANGED <<isIsolated, unreleased>>
      BY <1>4, <2>3 DEF HandleReport, ConfirmAgentRow, Isolating, NoQuarantine, agentRow
    <3>2. \A d \in Cmds : UnderWay(d) => UnderWay(d)'
      BY <1>1, <1>2, <1>3, <2>3 DEF UnderWay
    <3> QED BY <1>1, <1>4, <2>1, <3>1, <3>2 DEF SettledAgree, Healing
  <2> QED BY <2>2, <2>3
<1>5. NewHasNoKind'
  BY <1>1, <1>3 DEF HostInv, NewHasNoKind
<1> QED BY <1>1, <1>4, <1>5, FaultlessStep DEF HostInv

\* A refused report is one of a command that went wrong before.
LEMMA RefusalKeepsHost ==
  ASSUME Known, HostInv, NEW c \in Cmds, RefuseReport(c)
  PROVE  HostInv'
<1>1. UNCHANGED <<status, kind, faults>> /\ hop[c] = "error"
  BY DEF RefuseReport, D!RejectReport
<1>2. ~OneReport
  BY <1>1 DEF OneReport, D!Results
<1>3. NewHasNoKind'
  BY <1>1 DEF HostInv, NewHasNoKind
<1> QED BY <1>1, <1>2, <1>3, FaultlessStep DEF HostInv

\* Every step keeps row and host together.
LEMMA HostStep == Known /\ HostInv /\ [Next]_vars => HostInv'
<1> SUFFICES ASSUME Known, HostInv, [Next]_vars
             PROVE  HostInv'
  OBVIOUS
<1>1. ASSUME NEW a \in Acts, NEW c \in Cmds, NEW t \in Types, CreateAction(a, c, t)
      PROVE  HostInv'
  <2>1. CommandOf(t) \in Kinds
    BY LifecycleAssumption DEF ActionTypes, CommandOf, Kinds
  <2> QED BY <1>1, <2>1, IssueKeepsHost DEF CreateAction, agentRow
<1>2. ASSUME NEW c \in Cmds, NEW k \in RawKinds, RawCommand(c, k)
      PROVE  HostInv'
  <2>1. k \in Kinds /\ k \in Isolating \union QuarantineKinds
    BY <1>2, LifecycleAssumption DEF RawCommand, Isolating, QuarantineKinds
  <2>2. unreleased' => unreleased
    BY <1>2 DEF RawCommand, WriteRow
  <2> QED BY <1>2, <2>1, <2>2, IssueKeepsHost DEF RawCommand
<1>3. ASSUME NEW c \in Cmds, NEW k \in PostKinds, PostCommand(c, k)
      PROVE  HostInv'
  <2>1. k \in Kinds
    BY LifecycleAssumption
  <2> QED BY <1>3, <2>1, IssueKeepsHost DEF PostCommand, agentRow
<1>4. ASSUME \/ \E a \in Acts : CooldownLapses(a)
             \/ SweepDeadAgent
             \/ \E s \in Sessions : HoldAgents(s) \/ SelectForUndo(s)
             \/ RestartManager
             \/ UNCHANGED vars
      PROVE  HostInv'
  <2>1. /\ UNCHANGED <<status, hop, kind, isIsolated, unreleased, hostIsolated>>
        /\ faults' = faults \/ Fault
    BY <1>4 DEF CooldownLapses, SweepDeadAgent, HoldAgents, SelectForUndo, RestartManager, vars,
                delivery, agentRow
  <2> QED BY <2>1, StillKeepsHost
<1>5. ASSUME \/ HeartbeatAnswerLost
             \/ \E S \in SUBSET Cmds : LoseFrames(S) \/ \E c \in S : RunUnreported(c, S)
      PROVE  HostInv'
  <2>1. Fault /\ UNCHANGED kind /\ \A c \in Cmds : status'[c] = "absent" => status[c] = "absent"
    BY <1>5 DEF HeartbeatAnswerLost, LoseFrames, RunUnreported, D!PullPending, D!Lose,
                D!RunUnreported
  <2> QED BY <2>1, FaultKeepsHost
<1>6. ASSUME NEW a \in Acts, UndoAction(a) \/ \E s \in Sessions : UndoSelected(s, a)
      PROVE  HostInv'
  BY <1>6, UndoKeepsHost, UndoActions
<1> QED BY <1>1, <1>2, <1>3, <1>4, <1>5, <1>6, PullKeepsHost, RunKeepsHost, ReportKeepsHost,
           RefusalKeepsHost DEF Next

\* So they are together in every state.
LEMMA HostHolds == Spec => []HostInv
<1>1. Init => HostInv
  BY DEF Init, D!Init, HostInv, NewHasNoKind, OneReport, D!Results, SettledAgree, Healing
<1>2. Init => RowInv /\ LinkInv /\ RestTypes
  BY InitTypes
<1> QED BY <1>1, <1>2, DeliveryHolds, RowStep, LinkStep, RestStep, HostStep, PTL DEF Spec, Known

\* When nothing goes wrong and nobody uses the quarantine, the agent row and the
\* packet filter agree whenever no command is under way, whatever analysts, the
\* scheduler and the risk engine did in whatever order.
THEOREM RowsAgreeWithHosts == Spec => []RowAgreesWithHost
<1>1. HostInv => RowAgreesWithHost
  BY DEF HostInv, SettledAgree, UnderWay, RowAgreesWithHost, Quiet
<1> QED BY <1>1, HostHolds, PTL

\* Whatever sweep, heartbeat, routes, reports and undos do to the two columns,
\* an active agent is not flagged and an isolated one is, unless a group undo
\* has written the row through a copy that others had overtaken; and without
\* faults and quarantine the release that undo has sent repairs the row.
THEOREM RowsAreConsistent == Spec => []RowIsConsistent
<1>1. Init => RowInv
  BY InitTypes
<1>2. RowInv /\ HostInv => RowIsConsistent
  BY DEF RowInv, HostInv, Healing, UnderWay, Quiet, RowIsConsistent
<1> QED BY <1>1, <1>2, RowStep, HostHolds, PTL DEF Spec
=============================================================================
