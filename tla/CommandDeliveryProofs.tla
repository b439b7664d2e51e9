----------------------- MODULE CommandDeliveryProofs -----------------------
(***************************************************************************)
(* For every set of commands and every max_retries: the types, the single  *)
(* attempt, the bound on runs, and the finality of a verdict.              *)
(***************************************************************************)
EXTENDS CommandDelivery, TLAPS

(***************************************************************************)
(* The counting behind RunsAreBounded and VerdictIsEarned.  Each retry on  *)
(* the row was paid for by a run; a command that may still be run on this  *)
(* attempt (it is pending, or its copy travels) has none to spare, and one *)
(* whose result is in flight has just used the run of this attempt.        *)
(***************************************************************************)
Accounted(c) ==
    /\ status[c] = "absent" => retries[c] = 0 /\ runs[c] = 0
    /\ status[c] = "pending" \/ hop[c] = "carried" => runs[c] <= retries[c]
    /\ retries[c] <= runs[c]
    /\ hop[c] \in {"success", "failed"} => runs[c] > retries[c]

IInv ==
    /\ TypeOK
    /\ OneAttempt
    /\ RunsAreBounded
    /\ VerdictIsEarned
    /\ \A c \in Cmds : Accounted(c)

\* No row exists at the start, nothing has run.
LEMMA InitEstablishesIInv == Init => IInv
  BY MaxRetriesAssumption DEF Init, IInv, TypeOK, OneAttempt, RunsAreBounded,
     VerdictIsEarned, Accounted, Statuses, Hops

\* A report is digested by verify_execution and leaves the channel: a failure
\* that may be retried turns the row back to pending with one more retry,
\* anything else is stored.
LEMMA AcknowledgeKeepsIInv ==
  ASSUME IInv, NEW c \in Cmds, Acknowledge(c)
  PROVE  IInv'
<1> USE MaxRetriesAssumption DEF IInv, TypeOK, Statuses, Hops, Results
<1>1. hop[c] \in {"success", "failed"} /\ status[c] = "sent"
  BY DEF Acknowledge, OneAttempt
<1>2. hop' = [hop EXCEPT ![c] = "none"] /\ runs' = runs
  BY DEF Acknowledge
<1>3. runs[c] = retries[c] + 1
  BY <1>1 DEF RunsAreBounded, Accounted
<1>4. CASE hop[c] = "failed" /\ CanRetry(c)
  <2>1. status' = [status EXCEPT ![c] = "pending"] /\ retries' = [retries EXCEPT ![c] = @ + 1]
    BY <1>4 DEF Acknowledge, VerifyExecution
  <2>2. TypeOK'
    BY <1>2, <1>4, <2>1 DEF CanRetry
  <2>3. OneAttempt'
    BY <1>2, <2>1 DEF OneAttempt
  <2>4. RunsAreBounded' /\ VerdictIsEarned'
    BY <1>2, <1>3, <2>1 DEF RunsAreBounded, VerdictIsEarned
  <2>5. (\A d \in Cmds : Accounted(d))'
    BY <1>2, <1>3, <2>1 DEF Accounted
  <2> QED BY <2>2, <2>3, <2>4, <2>5
<1>5. CASE ~(hop[c] = "failed" /\ CanRetry(c))
  <2>1. status' = [status EXCEPT ![c] = hop[c]] /\ retries' = retries
    BY <1>5 DEF Acknowledge, VerifyExecution
  <2>2. TypeOK'
    BY <1>1, <1>2, <2>1
  <2>3. OneAttempt'
    BY <1>2, <2>1 DEF OneAttempt
  <2>4. RunsAreBounded' /\ VerdictIsEarned'
    BY <1>1, <1>2, <1>3, <1>5, <2>1 DEF RunsAreBounded, VerdictIsEarned, CanRetry
  <2>5. (\A d \in Cmds : Accounted(d))'
    BY <1>1, <1>2, <2>1 DEF Accounted
  <2> QED BY <2>2, <2>3, <2>4, <2>5
<1> QED BY <1>4, <1>5

\* Every step of Next keeps the invariant, one case per action.
LEMMA NextKeepsIInv == IInv /\ [Next]_delivery => IInv'
<1> USE MaxRetriesAssumption DEF IInv, TypeOK, Statuses, Hops, Results,
        OneAttempt, RunsAreBounded, VerdictIsEarned, Accounted
<1>1. ASSUME IInv, NEW c \in Cmds, IssueCommand(c)
      PROVE  IInv'
  BY <1>1 DEF IssueCommand
<1>2. ASSUME IInv, NEW lost \in SUBSET Pending, PullPending(lost)
      PROVE  IInv'
  BY <1>2 DEF PullPending, Pending
<1>3. ASSUME IInv, NEW c \in Cmds, Acknowledge(c)
      PROVE  IInv'
  BY <1>3, AcknowledgeKeepsIInv
<1>4. ASSUME IInv, NEW c \in Cmds, RejectReport(c)
      PROVE  IInv'
  BY <1>4 DEF RejectReport
<1>5. ASSUME IInv, NEW c \in Cmds, NEW result \in Results, Run(c, result)
      PROVE  IInv'
  BY <1>5 DEF Run
<1>6. ASSUME IInv, NEW S \in SUBSET Cmds, Lose(S)
      PROVE  IInv'
  BY <1>6 DEF Lose, Without
<1>7. ASSUME IInv, NEW S \in SUBSET Cmds, NEW c \in S, RunUnreported(c, S)
      PROVE  IInv'
  BY <1>7 DEF RunUnreported, Without
<1>8. ASSUME IInv, UNCHANGED delivery
      PROVE  IInv'
  BY <1>8 DEF delivery
<1> QED BY <1>1, <1>2, <1>3, <1>4, <1>5, <1>6, <1>7, <1>8 DEF Next, Pull

\* The inductive invariant holds in every state of every behaviour.
THEOREM IInvHolds == Spec => []IInv
  BY InitEstablishesIInv, NextKeepsIInv, PTL DEF Spec

\* Types: the row's status and counter stay in their columns' ranges; above
\* all retry_count never passes max_retries (Command.retry).
THEOREM TypesHold == Spec => []TypeOK
<1>1. IInv => TypeOK
  BY DEF IInv
<1> QED BY <1>1, IInvHolds, PTL

\* pull_pending_commands and verify_execution between them never let two
\* attempts of one command be under way.
THEOREM SingleAttempt == Spec => []OneAttempt
<1>1. IInv => OneAttempt
  BY DEF IInv
<1> QED BY <1>1, IInvHolds, PTL

\* The agent runs a command at most retry_count + 1 times.
THEOREM BoundedRuns == Spec => []RunsAreBounded
<1>1. IInv => RunsAreBounded
  BY DEF IInv
<1> QED BY <1>1, IInvHolds, PTL

\* SUCCESS was run, FAILED has used every retry.
THEOREM EarnedVerdicts == Spec => []VerdictIsEarned
<1>1. IInv => VerdictIsEarned
  BY DEF IInv
<1> QED BY <1>1, IInvHolds, PTL

\* verify_execution never overwrites a verdict: by OneAttempt no report can
\* arrive for a row that is not SENT, and only a pending row is pulled.
THEOREM FinalVerdicts == Spec => VerdictIsFinal
<1> DEFINE Final == \A c \in Cmds : status[c] \in {"success", "failed"} => status'[c] = status[c]
<1>1. ASSUME IInv, [Next]_delivery
      PROVE  [Final]_delivery
  <2> SUFFICES ASSUME NEW d \in Cmds, status[d] \in {"success", "failed"}
               PROVE  status'[d] = status[d]
    BY <1>1 DEF delivery
  <2> USE DEF IInv, TypeOK
  <2>1. hop[d] = "none"
    BY <1>1 DEF OneAttempt
  <2>2. ASSUME NEW c \in Cmds, IssueCommand(c)
        PROVE  status'[d] = status[d]
    BY <1>1, <2>2 DEF IssueCommand
  <2>3. ASSUME Pull
        PROVE  status'[d] = status[d]
    BY <1>1, <2>3 DEF Pull, PullPending, Pending
  <2>4. ASSUME NEW c \in Cmds, Acknowledge(c)
        PROVE  status'[d] = status[d]
    BY <1>1, <2>1, <2>4 DEF Acknowledge, VerifyExecution
  <2>5. ASSUME NEW c \in Cmds, RejectReport(c)
        PROVE  status'[d] = status[d]
    BY <2>5 DEF RejectReport
  <2>6. ASSUME NEW c \in Cmds, NEW result \in Results, Run(c, result)
        PROVE  status'[d] = status[d]
    BY <2>6 DEF Run
  <2>7. ASSUME NEW S \in SUBSET Cmds, Lose(S) \/ (\E c \in S : RunUnreported(c, S))
        PROVE  status'[d] = status[d]
    BY <2>7 DEF Lose, RunUnreported
  <2>8. ASSUME UNCHANGED delivery
        PROVE  status'[d] = status[d]
    BY <2>8 DEF delivery
  <2> QED BY <1>1, <2>2, <2>3, <2>4, <2>5, <2>6, <2>7, <2>8 DEF Next
<1> QED BY <1>1, IInvHolds, PTL DEF Spec, VerdictIsFinal
=============================================================================
