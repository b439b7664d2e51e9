------------------------- MODULE ResponseLifecycle -------------------------
(***************************************************************************)
(* A response action from its creation to its undo: the action row, the    *)
(* command that carries it, the agent row and the host itself.             *)
(*                                                                         *)
(* Commands travel as in CommandDelivery.  Each manager transaction is one *)
(* step, with one exception: the scheduler and the batch undos select the  *)
(* actions first and then undo them one commit at a time in the same       *)
(* SQLAlchemy session (expire_on_commit=False).  `loaded` holds what such  *)
(* a session still has to undo; its copies of those rows say "applied"     *)
(* whatever the table says by then, because get_for_update locks the row   *)
(* but does not refresh an object the session already has.  A group undo   *)
(* also keeps the Agent objects it has read first: `held` is that copy of  *)
(* the agent row, and an undo emits only the columns that differ from it.  *)
(*                                                                         *)
(* Deadlines are not counted: a cooldown may lapse and a rollback deadline *)
(* may pass at any moment after it was set.                                *)
(***************************************************************************)
EXTENDS Integers, FiniteSets

CONSTANTS
    Cmds,           \* commands
    MaxRetries,     \* commands.max_retries
    Acts,           \* response actions, numbered in order of creation
    Types,          \* action types analysts, policies and the AI may choose
    RawKinds,       \* kinds issued without a response action by callers that
                    \* write the agent row as well
    PostKinds,      \* kinds issued by callers that only insert the command
    Sessions,       \* batch undos, the scheduler's among them
    Scheduler,      \* the session of periodic_auto_rollback
    MaxFaults       \* bound: losses, raising handlers, refused reports,
                    \* failed undos and restarts together

Kinds == {"isolate", "unisolate", "quarantine", "release_quarantine",
          "kill_process", "block_ip", "unblock_ip"}
ActionTypes == {"isolate", "auto_isolate", "unisolate", "quarantine",
                "kill_process", "block_ip"}
ActStatuses == {"absent", "pending", "applied", "reverted", "failed"}
AgentStatuses == {"active", "isolated", "quarantine", "dead"}

NoAct == 0

ASSUME LifecycleAssumption ==
    /\ MaxRetries \in Nat /\ MaxFaults \in Nat
    /\ Acts \subseteq Nat \ {NoAct}
    /\ Types \subseteq ActionTypes
    /\ RawKinds \subseteq Kinds /\ PostKinds \subseteq Kinds
    /\ Scheduler \in Sessions

VARIABLES
    status, retries, hop, runs,     \* the commands, see CommandDelivery
    kind, link,     \* commands.action; payload.action_id, or NoAct
    act, type,      \* response_actions.status and .action_type
    auto,           \* response_actions.auto_rollback_at is set
    cooling,        \* response_actions.cooldown_until lies ahead
    agentStatus, isIsolated,        \* the agent's row
    unreleased,     \* history: an undo was to release the row, but left it
                    \* otherwise, and nobody has written it whole since
    hostIsolated,   \* the packet filter of the host drops traffic
    loaded,         \* per session: actions it has selected and not yet undone
    held,           \* per session: the copy of the agent row it undoes through
    undone,         \* history: undos committed per action
    faults          \* history: faults so far

delivery == <<status, retries, hop, runs>>
actions == <<act, type, auto, cooling, undone>>
agentRow == <<agentStatus, isIsolated, unreleased>>
sessions == <<loaded, held>>
vars == <<delivery, kind, link, actions, agentRow, hostIsolated, sessions, faults>>

Copies == [status: AgentStatuses, isIsolated: BOOLEAN]
NoCopy == [status |-> "none", isIsolated |-> FALSE]

D == INSTANCE CommandDelivery

TypeOK ==
    /\ D!TypeOK
    /\ kind \in [Cmds -> Kinds \union {"none"}]
    /\ link \in [Cmds -> Acts \union {NoAct}]
    /\ act \in [Acts -> ActStatuses]
    /\ type \in [Acts -> ActionTypes \union {"none"}]
    /\ auto \in [Acts -> BOOLEAN]
    /\ cooling \in [Acts -> BOOLEAN]
    /\ agentStatus \in AgentStatuses
    /\ isIsolated \in BOOLEAN
    /\ unreleased \in BOOLEAN
    /\ hostIsolated \in BOOLEAN
    /\ loaded \in [Sessions -> SUBSET Acts]
    /\ held \in [Sessions -> Copies \union {NoCopy}]
    /\ undone \in [Acts -> Nat]
    /\ faults \in 0..MaxFaults

Init ==
    /\ D!Init
    /\ kind = [c \in Cmds |-> "none"]
    /\ link = [c \in Cmds |-> NoAct]
    /\ act = [a \in Acts |-> "absent"]
    /\ type = [a \in Acts |-> "none"]
    /\ auto = [a \in Acts |-> FALSE]
    /\ cooling = [a \in Acts |-> FALSE]
    /\ agentStatus = "active"
    /\ isIsolated = FALSE
    /\ unreleased = FALSE
    /\ hostIsolated = FALSE
    /\ loaded = [s \in Sessions |-> {}]
    /\ held = [s \in Sessions |-> NoCopy]
    /\ undone = [a \in Acts |-> 0]
    /\ faults = 0

Fault == faults < MaxFaults /\ faults' = faults + 1

-----------------------------------------------------------------------------
(* The agent row *)

\* A transaction that reads the row afresh and sets both columns.
WriteRow(st, flag) == agentStatus' = st /\ isIsolated' = flag /\ unreleased' = FALSE

Released == [status |-> "active", isIsolated |-> FALSE]

\* Setting ACTIVE and False on an Agent object: the session emits the columns
\* that differ from what the object was loaded with.
ReleaseThrough(copy) ==
    /\ agentStatus' = IF copy.status # "active" THEN "active" ELSE agentStatus
    /\ isIsolated' = IF copy.isIsolated THEN FALSE ELSE isIsolated
    /\ unreleased' = (agentStatus' # "active" \/ isIsolated')

-----------------------------------------------------------------------------
(* Creating actions and commands *)

CooldownActions == {"isolate", "unisolate", "quarantine"}
NoRollbackActions == {"kill_process", "block_ip"}

CommandOf(t) == IF t = "auto_isolate" THEN "isolate" ELSE t

\* get_active_cooldown: pending and failed actions do not count.
CoolingDown(t) ==
    \E a \in Acts : type[a] = t /\ act[a] \in {"applied", "reverted"} /\ cooling[a]

\* Insert a command, linked to an action or not.
NewCommand(c, k, a) ==
    /\ D!IssueCommand(c)
    /\ kind' = [kind EXCEPT ![c] = k]
    /\ link' = [link EXCEPT ![c] = a]

\* create_and_apply_action: the row is pending until the agent reports.
CreateAction(a, c, t) ==
    /\ act[a] = "absent" /\ \A b \in Acts : b < a => act[b] # "absent"
    /\ t \in CooldownActions => ~CoolingDown(t)
    /\ NewCommand(c, CommandOf(t), a)
    /\ act' = [act EXCEPT ![a] = "pending"]
    /\ type' = [type EXCEPT ![a] = t]
    /\ \E timed \in IF t \in NoRollbackActions THEN {FALSE} ELSE BOOLEAN :
            auto' = [auto EXCEPT ![a] = timed]
    /\ cooling' = [cooling EXCEPT ![a] = t \notin NoRollbackActions]
    /\ UNCHANGED <<agentRow, hostIsolated, sessions, undone, faults>>

\* Commands issued past the action table.  Four callers write the agent row at
\* once: the risk engine's fallback when an isolation is cooling down, the
\* incident board's release, and the two quarantine routes.
RawCommand(c, k) ==
    /\ NewCommand(c, k, NoAct)
    /\ \/ k = "isolate" /\ CoolingDown("isolate")
          /\ WriteRow("isolated", TRUE)
       \/ k \in {"unisolate", "release_quarantine"} /\ WriteRow("active", FALSE)
       \/ k = "quarantine" /\ WriteRow("quarantine", TRUE)
    /\ UNCHANGED <<actions, hostIsolated, sessions, faults>>

\* POST /commands, the process tree, the attack lab and the incident board's
\* kill only insert the command.
PostCommand(c, k) ==
    /\ NewCommand(c, k, NoAct)
    /\ UNCHANGED <<actions, agentRow, hostIsolated, sessions, faults>>

CooldownLapses(a) ==
    /\ cooling[a]
    /\ cooling' = [cooling EXCEPT ![a] = FALSE]
    /\ UNCHANGED <<delivery, kind, link, act, type, auto, undone, agentRow,
                   hostIsolated, sessions, faults>>

-----------------------------------------------------------------------------
(* The agent's side *)

\* (mutant) update_heartbeat without its look at is_isolated
HeartbeatRowUnchecked ==
    /\ agentStatus' = IF agentStatus = "dead" THEN "active" ELSE agentStatus
    /\ UNCHANGED <<isIsolated, unreleased>>

\* A heartbeat revives a dead agent, unless its row says isolated.
HeartbeatRow ==
    /\ agentStatus' = IF agentStatus = "dead" /\ ~isIsolated THEN "active" ELSE agentStatus
    /\ UNCHANGED <<isIsolated, unreleased>>

\* HEARTBEAT whose answer arrives.
HeartbeatAnswered ==
    /\ HeartbeatRow
    /\ D!PullPending({})
    /\ UNCHANGED <<kind, link, actions, hostIsolated, sessions, faults>>

\* HEARTBEAT whose answer, with the commands in it, is lost.
HeartbeatAnswerLost ==
    /\ Fault
    /\ D!Pending # {}
    /\ HeartbeatRow
    /\ D!PullPending(D!Pending)
    /\ UNCHANGED <<kind, link, actions, hostIsolated, sessions>>

SweepDeadAgent ==
    /\ agentStatus \in {"active", "isolated"}
    /\ agentStatus' = "dead"
    /\ UNCHANGED <<delivery, kind, link, actions, isIsolated, unreleased, hostIsolated,
                   sessions, faults>>

\* What the handlers of agent/commands return; a kind without a handler is an
\* error as well.
ResultsOf(k) ==
    CASE k \in {"isolate", "unisolate"} -> {"success", "error"}
      [] k = "kill_process" -> {"success", "failed"}
      [] k \in {"quarantine", "release_quarantine"} -> {"success"}
      [] OTHER -> {"error"}

\* The packet filter after a run.  A run that ends in an error may have
\* changed the filter before it failed, or not.
HostAfter(k, result) ==
    LET target == CASE k = "isolate" -> TRUE
                    [] k = "unisolate" -> FALSE
                    [] OTHER -> hostIsolated
    IN IF result = "success" THEN {target} ELSE {hostIsolated, target}

\* send_stats runs one command, sends the report and waits for the answer
\* before it takes the next one.
Reporting == \E d \in Cmds : hop[d] \in D!Results

\* After 5 s without an answer it goes on all the same (a fault, as is a
\* command that ends in an error).
RunCommand(c, result) ==
    /\ result \in ResultsOf(kind[c])
    /\ D!Run(c, result)
    /\ hostIsolated' \in HostAfter(kind[c], result)
    /\ IF result = "error" \/ Reporting THEN Fault ELSE UNCHANGED faults
    /\ UNCHANGED <<kind, link, actions, agentRow, sessions>>

RunUnreported(c, S) ==
    /\ Fault
    /\ D!RunUnreported(c, S)
    /\ hostIsolated' \in HostAfter(kind[c], "error")
    /\ UNCHANGED <<kind, link, actions, agentRow, sessions>>

LoseFrames(S) ==
    /\ Fault
    /\ D!Lose(S)
    /\ UNCHANGED <<kind, link, actions, agentRow, hostIsolated, sessions>>

-----------------------------------------------------------------------------
(* Reports *)

\* The action a report speaks of: the one its command names, else the latest
\* pending action whose type is the command's kind.
LatestPending(k) ==
    {a \in Acts : /\ act[a] = "pending" /\ type[a] = k
                  /\ \A b \in Acts : act[b] = "pending" /\ type[b] = k => b <= a}

\* (mutant) the link in the payload is ignored
ActionOfPendingOnly(c) == LatestPending(kind[c])

\* (mutant) any pending action will do
ActionOfAnyPending(c) ==
    {a \in Acts : /\ act[a] = "pending"
                  /\ \A b \in Acts : act[b] = "pending" => b <= a}

ActionOf(c) == IF link[c] # NoAct THEN {link[c]} ELSE LatestPending(kind[c])

\* (mutant) a confirmed release leaves the row alone
ConfirmAgentRowNoRelease(k) ==
    CASE k = "isolate" -> WriteRow("isolated", TRUE)
      [] k = "quarantine" -> agentStatus' = "quarantine" /\ UNCHANGED <<isIsolated, unreleased>>
      [] OTHER -> UNCHANGED agentRow

\* The agent row once a command of kind k is confirmed.
ConfirmAgentRow(k) ==
    CASE k = "isolate" -> WriteRow("isolated", TRUE)
      [] k = "unisolate" -> WriteRow("active", FALSE)
      [] k = "quarantine" -> agentStatus' = "quarantine" /\ UNCHANGED <<isIsolated, unreleased>>
      [] OTHER -> UNCHANGED agentRow

\* _handle_command_ack.  A failure marks the action failed at once, although
\* its command may be retried.
HandleReport(c) ==
    /\ D!Acknowledge(c)
    /\ LET verdict == IF hop[c] = "success" THEN "applied" ELSE "failed"
       IN act' = [a \in Acts |-> IF a \in ActionOf(c) THEN verdict ELSE act[a]]
    /\ IF hop[c] = "success" THEN ConfirmAgentRow(kind[c]) ELSE UNCHANGED agentRow
    /\ UNCHANGED <<kind, link, type, auto, cooling, undone, hostIsolated, sessions, faults>>

RefuseReport(c) ==
    /\ D!RejectReport(c)
    /\ UNCHANGED <<kind, link, actions, agentRow, hostIsolated, sessions, faults>>

-----------------------------------------------------------------------------
(* Undo *)

\* get_compensation_action; "none" for kills and everything else.
Compensation(t) ==
    CASE t \in {"isolate", "auto_isolate"} -> "unisolate"
      [] t = "quarantine" -> "release_quarantine"
      [] t = "block_ip" -> "unblock_ip"
      [] OTHER -> "none"

\* The compensations that come with a change of the agent row.
WritesRow(t) == Compensation(t) \in {"unisolate", "release_quarantine"}

\* Steps 5 and 6 of rollback_action: the compensating command, linked to no
\* action, and the agent row, released before the agent has done a thing,
\* through the copy of it that the session has.
Compensate(t, copy) ==
    IF Compensation(t) = "none"
    THEN UNCHANGED <<delivery, kind, link, agentRow>>
    ELSE /\ \E c \in Cmds : NewCommand(c, Compensation(t), NoAct)
         /\ IF WritesRow(t) THEN ReleaseThrough(copy) ELSE UNCHANGED agentRow

\* rollback_action from the checks on: it commits the undo ...
Revert(a, copy) ==
    /\ Compensate(type[a], copy)
    /\ act' = [act EXCEPT ![a] = "reverted"]
    /\ cooling' = [cooling EXCEPT ![a] = type[a] # "kill_process"]
    /\ undone' = [undone EXCEPT ![a] = @ + 1]
    /\ UNCHANGED <<type, auto, hostIsolated, faults>>

\* (mutant) a failed undo leaves "reverting" in the row
RevertFailsReverting(a, copy, compensated) ==
    /\ Fault
    /\ IF compensated THEN Compensate(type[a], copy)
                      ELSE UNCHANGED <<delivery, kind, link, agentRow>>
    /\ act' = [act EXCEPT ![a] = "reverting"]
    /\ UNCHANGED <<type, auto, cooling, undone, hostIsolated>>

\* ... or something raises on the way (steps 4 to 7): the action is written
\* back as applied, and what was done so far is committed with it.
RevertFails(a, copy, compensated) ==
    /\ Fault
    /\ IF compensated THEN Compensate(type[a], copy)
                      ELSE UNCHANGED <<delivery, kind, link, agentRow>>
    /\ act' = [act EXCEPT ![a] = "applied"]
    /\ UNCHANGED <<type, auto, cooling, undone, hostIsolated>>

CurrentRow == [status |-> agentStatus, isIsolated |-> isIsolated]

\* The undo of one action: a fresh session reads the row under its lock and
\* answers 409 or 400 unless it is applied; it has no copy of the agent yet.
UndoAction(a) ==
    /\ act[a] = "applied"
    /\ Revert(a, CurrentRow) \/ \E done \in BOOLEAN : RevertFails(a, CurrentRow, done)
    /\ UNCHANGED sessions

\* rollback_group_actions reads the agents of the group, and keeps them, before
\* it selects their actions.
HoldAgents(s) ==
    /\ s # Scheduler /\ loaded[s] = {} /\ held[s] = NoCopy
    /\ held' = [held EXCEPT ![s] = CurrentRow]
    /\ UNCHANGED <<delivery, kind, link, actions, agentRow, hostIsolated, loaded, faults>>

\* undo-all of an agent, a group or an incident selects applied actions; the
\* scheduler those whose deadline has passed.
Selectable(s) == {a \in Acts : act[a] = "applied" /\ (s = Scheduler => auto[a])}

\* A group undo takes all there are, and ends when there are none.
SelectForUndo(s) ==
    /\ loaded[s] = {}
    /\ \E S \in SUBSET Selectable(s) :
        /\ held[s] # NoCopy => S = Selectable(s)
        /\ loaded' = [loaded EXCEPT ![s] = S]
        /\ held' = [held EXCEPT ![s] = IF S = {} THEN NoCopy ELSE @]
    /\ UNCHANGED <<delivery, kind, link, actions, agentRow, hostIsolated, faults>>

\* The agent row as session s sees it: only a group undo has a copy.
CopyOf(s) == IF held[s] = NoCopy THEN CurrentRow ELSE held[s]

\* The next action of the list; its copy in the session still says applied.
\* The group's copy of the agent is up to date with what the session wrote.
UndoSelected(s, a) ==
    /\ a \in loaded[s]
    /\ \E done \in BOOLEAN :
        /\ (done /\ Revert(a, CopyOf(s))) \/ RevertFails(a, CopyOf(s), done)
        /\ held' = [held EXCEPT ![s] =
                        IF @ = NoCopy \/ loaded[s] = {a} THEN NoCopy
                        ELSE IF done /\ WritesRow(type[a]) THEN Released ELSE @]
    /\ loaded' = [loaded EXCEPT ![s] = @ \ {a}]

\* The manager's process restarts: its sessions are gone, its tables are not.
RestartManager ==
    /\ Fault
    /\ loaded' = [s \in Sessions |-> {}]
    /\ held' = [s \in Sessions |-> NoCopy]
    /\ UNCHANGED <<delivery, kind, link, actions, agentRow, hostIsolated>>

-----------------------------------------------------------------------------

Next ==
    \/ \E a \in Acts, c \in Cmds, t \in Types : CreateAction(a, c, t)
    \/ \E c \in Cmds, k \in RawKinds : RawCommand(c, k)
    \/ \E c \in Cmds, k \in PostKinds : PostCommand(c, k)
    \/ \E a \in Acts : CooldownLapses(a)
    \/ HeartbeatAnswered
    \/ HeartbeatAnswerLost
    \/ SweepDeadAgent
    \/ \E c \in Cmds, result \in D!Results : RunCommand(c, result)
    \/ \E S \in SUBSET Cmds : \E c \in S : RunUnreported(c, S)
    \/ \E S \in SUBSET Cmds : S # {} /\ LoseFrames(S)
    \/ \E c \in Cmds : HandleReport(c)
    \/ \E c \in Cmds : RefuseReport(c)
    \/ \E a \in Acts : UndoAction(a)
    \/ \E s \in Sessions : HoldAgents(s)
    \/ \E s \in Sessions : SelectForUndo(s)
    \/ \E s \in Sessions, a \in Acts : UndoSelected(s, a)
    \/ RestartManager

Spec == Init /\ [][Next]_vars

-----------------------------------------------------------------------------
(* Properties *)

\* No command of the agent is on its way, running or reporting.
Quiet == \A c \in Cmds : status[c] # "pending" /\ hop[c] = "none"

\* An action that counts as applied or undone was really carried out: some
\* command of its kind has a SUCCESS report.
AppliedWasReported ==
    \A a \in Acts : act[a] \in {"applied", "reverted"} =>
        \E c \in Cmds : /\ kind[c] = CommandOf(type[a])
                        /\ status[c] = "success" /\ runs[c] > 0

\* An action follows its own command: a success leaves it applied or undone,
\* a final failure never leaves it pending, and while it is pending its command
\* can still report.
ActionFollowsCommand ==
    \A c \in Cmds : link[c] # NoAct =>
        /\ status[c] = "success" => act[link[c]] \in {"applied", "reverted"}
        /\ status[c] = "failed" => act[link[c]] # "pending"
        /\ act[link[c]] = "pending" => status[c] \in {"pending", "sent"}

\* Kinds a host knows nothing of, but the agent row does.
NoQuarantine == \A c \in Cmds : kind[c] \notin {"quarantine", "release_quarantine"}

\* isolate, unisolate, activate, the routes, the sweep, the heartbeat and the
\* undos write the two columns of the agent row in different places, some one of
\* them alone.  Only a group undo that writes through an outdated copy tears
\* them apart, and when nothing goes wrong and nobody uses the quarantine, this
\* lasts no longer than the release it has sent is under way.
RowIsConsistent ==
    /\ ~unreleased => /\ agentStatus = "active" => ~isIsolated
                      /\ agentStatus = "isolated" => isIsolated
    /\ faults = 0 /\ NoQuarantine /\ Quiet => ~unreleased

\* As long as nothing went wrong and nobody used the quarantine, the agent row
\* and the packet filter agree whenever no command is under way, whatever
\* analysts, the scheduler and the risk engine did in whatever order.
RowAgreesWithHost == faults = 0 /\ NoQuarantine /\ Quiet => isIsolated = hostIsolated

\* test_rollback_concurrency_conflict and the docstring of rollback_action: a
\* second undo of an action is refused, so no action is ever undone twice.
NoSecondRollback == \A a \in Acts : undone[a] <= 1

\* "Update Agent state ONLY when agent successfully confirms"
\* (_handle_command_ack): with every isolation confirmed and nothing under
\* way, a row that says "not isolated" can be believed.
ReleasedMeansReleased ==
    /\ Quiet /\ ~isIsolated
    /\ \A c \in Cmds : kind[c] = "isolate" => status[c] = "success"
    => ~hostIsolated

\* "Release agent from quarantine mode back to active state." (the release
\* route): when nobody else quarantines, a release has reached the host and all
\* is quiet, the row says QUARANTINE only if a later quarantine has set the flag
\* again.
ReleaseEndsQuarantine ==
    /\ Quiet /\ agentStatus = "quarantine"
    /\ \E c \in Cmds : kind[c] = "release_quarantine" /\ status[c] = "success"
    => isIsolated

\* "Khôi phục đồng thời các máy trong nhóm về trạng thái an toàn" (docstring of
\* rollback_group_actions: it puts the machines of the group back into a safe
\* state): once the commands of an undo are through, the row it was to release
\* is released or written anew.
UndoneGroupIsReleased == Quiet => ~unreleased
=============================================================================
