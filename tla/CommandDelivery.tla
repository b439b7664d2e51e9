-------------------------- MODULE CommandDelivery --------------------------
(***************************************************************************)
(* What the manager and one agent promise about a command, end to end: the *)
(* row of table `commands` (models/command.py), the dispatcher that moves  *)
(* it (services/core/command_dispatcher.py) and the agent that runs it.    *)
(*                                                                         *)
(* The transport is abstracted to the place of the attempt under way:      *)
(* `hop`.  AgentSession gives it sockets, replies and timeouts and is      *)
(* shown to implement this module; ResponseLifecycle builds on it.  Every  *)
(* query of the dispatcher filters on one agent_id and every report names  *)
(* one command, so a single agent stands for all.                          *)
(***************************************************************************)
EXTENDS Integers, FiniteSets

CONSTANTS
    Cmds,           \* identifiers of commands that may be inserted
    MaxRetries      \* commands.max_retries (the code's default is 3)

ASSUME MaxRetriesAssumption == MaxRetries \in Nat

VARIABLES
    status,         \* commands.status; "absent" before the row is inserted
    retries,        \* commands.retry_count
    hop,            \* the attempt under way: on its way to the agent
                    \* ("carried"), or a result reported and not yet handled
    runs            \* history: how often the agent has run the command

delivery == <<status, retries, hop, runs>>

Statuses == {"absent", "pending", "sent", "success", "failed"}

\* What a command handler of the agent returns in its "status" field.
Results == {"success", "failed", "error"}

Hops == {"none", "carried"} \union Results

TypeOK ==
    /\ status \in [Cmds -> Statuses]
    /\ retries \in [Cmds -> 0..MaxRetries]
    /\ hop \in [Cmds -> Hops]
    /\ runs \in [Cmds -> Nat]

Init ==
    /\ status = [c \in Cmds |-> "absent"]
    /\ retries = [c \in Cmds |-> 0]
    /\ hop = [c \in Cmds |-> "none"]
    /\ runs = [c \in Cmds |-> 0]

-----------------------------------------------------------------------------
(* The manager *)

\* (mutant) the query without its filter on PENDING
PendingUnfiltered == {c \in Cmds : status[c] # "absent" /\ hop[c] = "none"}

\* (mutant) only commands never tried before are handed out
PendingFirstAttempts == {c \in Cmds : status[c] = "pending" /\ retries[c] = 0}

\* get_pending_by_agent.
Pending == {c \in Cmds : status[c] = "pending"}

\* A service inserts the row as PENDING and pushes its id to the dispatcher.
IssueCommand(c) ==
    /\ status[c] = "absent"
    /\ status' = [status EXCEPT ![c] = "pending"]
    /\ UNCHANGED <<retries, hop, runs>>

\* (mutant) the row is not marked SENT
PullKeepingPending(lost) ==
    /\ hop' = [c \in Cmds |-> IF c \in Pending \ lost THEN "carried" ELSE hop[c]]
    /\ UNCHANGED <<status, retries, runs>>

\* A heartbeat takes every pending command of the agent.  They are SENT from
\* the commit on, whether or not the reply that carries them gets through.
PullPending(lost) ==
    /\ status' = [c \in Cmds |-> IF c \in Pending THEN "sent" ELSE status[c]]
    /\ hop' = [c \in Cmds |-> IF c \in Pending \ lost THEN "carried" ELSE hop[c]]
    /\ UNCHANGED <<retries, runs>>

\* (mutants) off by one on either side
CanRetryOnceMore(c) == retries[c] <= MaxRetries
CanRetryOnceLess(c) == retries[c] + 1 < MaxRetries

\* Command.retry.
CanRetry(c) == retries[c] < MaxRetries

\* The dispatcher looks at the reported result only, never at the status the
\* row already has.
VerifyExecution(c, result) ==
    IF result = "failed" /\ CanRetry(c)
    THEN /\ status' = [status EXCEPT ![c] = "pending"]
         /\ retries' = [retries EXCEPT ![c] = @ + 1]
    ELSE /\ status' = [status EXCEPT ![c] = result]
         /\ UNCHANGED retries

\* "error" is no member of CommandStatus: CommandAckDTO refuses the report,
\* the transaction is rolled back and the row keeps its status.
RejectReport(c) ==
    /\ hop[c] = "error"
    /\ hop' = [hop EXCEPT ![c] = "none"]
    /\ UNCHANGED <<status, retries, runs>>

Acknowledge(c) ==
    /\ hop[c] \in {"success", "failed"}
    /\ VerifyExecution(c, hop[c])
    /\ hop' = [hop EXCEPT ![c] = "none"]
    /\ UNCHANGED runs

-----------------------------------------------------------------------------
(* The agent and the connection *)

\* (mutant) the copy stays in the list after it ran
RunKeepingCopy(c, result) ==
    /\ hop[c] = "carried"
    /\ runs' = [runs EXCEPT ![c] = @ + 1]
    /\ hop' \in {hop, [hop EXCEPT ![c] = result]}
    /\ UNCHANGED <<status, retries>>

\* send_stats takes the next command of its list, runs the handler and sends
\* the COMMAND_ACK.
Run(c, result) ==
    /\ hop[c] = "carried"
    /\ runs' = [runs EXCEPT ![c] = @ + 1]
    /\ hop' = [hop EXCEPT ![c] = result]
    /\ UNCHANGED <<status, retries>>

Without(S) == [c \in Cmds |-> IF c \in S THEN "none" ELSE hop[c]]

\* Copies and reports vanish with a connection, with the process of the agent
\* or in a reply nobody was waiting for.  No sweep sends them again.
Lose(S) ==
    /\ \A c \in S : hop[c] # "none"
    /\ hop' = Without(S)
    /\ UNCHANGED <<status, retries, runs>>

\* The handler of c raises: it may have acted, nothing is reported, and the
\* exception takes the rest of the list with it.
RunUnreported(c, S) ==
    /\ c \in S
    /\ \A d \in S : hop[d] = "carried"
    /\ runs' = [runs EXCEPT ![c] = @ + 1]
    /\ hop' = Without(S)
    /\ UNCHANGED <<status, retries>>

Pull == Pending # {} /\ \E lost \in SUBSET Pending : PullPending(lost)

Next ==
    \/ \E c \in Cmds : IssueCommand(c)
    \/ Pull
    \/ \E c \in Cmds : Acknowledge(c)
    \/ \E c \in Cmds : RejectReport(c)
    \/ \E c \in Cmds, result \in Results : Run(c, result)
    \/ \E S \in SUBSET Cmds : S # {} /\ Lose(S)
    \/ \E S \in SUBSET Cmds : \E c \in S : RunUnreported(c, S)

Spec == Init /\ [][Next]_delivery

\* The agent heartbeats every 5 s for as long as it lives, runs its list in a
\* loop and the manager answers every message: send_stats and
\* agent_websocket_endpoint have no other way on.  Issuing and losing are
\* never forced.
Fairness ==
    /\ WF_delivery(Pull)
    /\ \A c \in Cmds :
        /\ WF_delivery(\E result \in Results : Run(c, result))
        /\ WF_delivery(Acknowledge(c))
        /\ WF_delivery(RejectReport(c))

FairSpec == Spec /\ Fairness

-----------------------------------------------------------------------------
(* Properties *)

\* At most one attempt of a command is under way, and only while the row is
\* SENT: no copy travels while the row waits for a pull or holds a verdict.
\* Nothing in verify_execution checks this; it rests on pull_pending_commands
\* marking SENT in the transaction that hands the command out.
OneAttempt == \A c \in Cmds : hop[c] # "none" => status[c] = "sent"

\* However often commands are retried, lost or rejected, the agent never runs
\* one more often than the retries on its row plus one (Command.retry).
RunsAreBounded == \A c \in Cmds : runs[c] <= retries[c] + 1

\* A verdict on the row was earned: SUCCESS by a run, FAILED by using up
\* every retry (Command.acknowledge would store FAILED at the first report;
\* schedule_retry takes it back).
VerdictIsEarned ==
    \A c \in Cmds :
        /\ status[c] = "success" => runs[c] > 0
        /\ status[c] = "failed" => retries[c] = MaxRetries /\ runs[c] > MaxRetries

\* Once a row says SUCCESS or FAILED it says so for ever, although
\* verify_execution overwrites whatever status it finds.
VerdictIsFinal ==
    [][\A c \in Cmds : status[c] \in {"success", "failed"} => status'[c] = status[c]]_delivery

\* A row is done with: a verdict, or SENT with nothing under way any more
\* (the attempt was lost or its report rejected).
Settled(c) ==
    \/ status[c] \in {"success", "failed"}
    \/ status[c] = "sent" /\ hop[c] = "none"

\* The retry loop ends: a pending command gets its verdict or is lost.
PendingSettles == \A c \in Cmds : (status[c] = "pending") ~> Settled(c)
=============================================================================
