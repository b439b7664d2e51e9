---------------------------- MODULE AgentSession ---------------------------
(***************************************************************************)
(* How commands really travel: one agent (agent/agent.py), its WebSocket   *)
(* and the manager's loop on the other end (websocket/agent_ws.py).        *)
(*                                                                         *)
(* The agent sends HEARTBEAT and COMMAND_ACK as requests: it writes a      *)
(* message and takes the next frame that arrives within 5 s as the answer. *)
(* Nothing in a frame says which request it answers.  The manager reads a  *)
(* socket in order, commits, then answers on the same socket.              *)
(*                                                                         *)
(* Fire-and-forget messages (telemetry, process lists, flows, FIM) carry   *)
(* no command; all that is left of them is the error frame the manager     *)
(* answers when the handler of one raises, wait_ack or not.                *)
(***************************************************************************)
EXTENDS Integers, FiniteSets, Sequences, SequencesExt

CONSTANTS
    Cmds,           \* commands of this agent
    MaxRetries,     \* commands.max_retries
    MaxSurplus,     \* bound: surplus answers on one connection
    MaxFaults       \* bound: lost connections, agent restarts, failed
                    \* transactions

ASSUME BoundsAssumption ==
    /\ IsFiniteSet(Cmds)
    /\ MaxRetries \in Nat /\ MaxSurplus \in Nat /\ MaxFaults \in Nat

VARIABLES
    status, retries,    \* columns of table commands, as in CommandDelivery
    runs,               \* history: executions by the agent
    phase,              \* of the send_stats coroutine
    todo,               \* pending_commands it has still to run, in order
    up, down,           \* frames in flight on the current socket
    stale,              \* frames the manager has yet to read from the socket
                        \* before this one
    surplus,            \* history: answers on the current socket that nobody
                        \* waits for
    faults              \* history: connections lost and transactions failed

rows == <<status, retries>>
vars == <<status, retries, runs, phase, todo, up, down, stale, surplus, faults>>

Statuses == {"absent", "pending", "sent", "success", "failed"}
Results == {"success", "failed", "error"}
Phases == {"closed", "idle", "heartbeat", "report"}
Waiting == phase \in {"heartbeat", "report"}

\* Frames.  A heartbeat is answered with the list of commands, a report with
\* an acknowledgement or, when its payload is refused, with an error.
Heartbeat == [type |-> "HEARTBEAT"]
Report(c, result) == [type |-> "COMMAND_ACK", cmd |-> c, result |-> result]
Requests == {Heartbeat} \union {Report(c, result) : c \in Cmds, result \in Results}

Frames == [type : {"ack", "error"}, pending_commands : Seq(Cmds)]
CommandList(list) == [type |-> "ack", pending_commands |-> list]
Recorded == [type |-> "ack", pending_commands |-> <<>>]
Refused == [type |-> "error", pending_commands |-> <<>>]

TypeOK ==
    /\ status \in [Cmds -> Statuses]
    /\ retries \in [Cmds -> 0..MaxRetries]
    /\ runs \in [Cmds -> Nat]
    /\ phase \in Phases
    /\ todo \in Seq(Cmds)
    /\ up \in Seq(Requests) /\ stale \in Seq(Requests) /\ down \in Seq(Frames)
    /\ surplus \in 0..MaxSurplus /\ faults \in 0..MaxFaults

Init ==
    /\ status = [c \in Cmds |-> "absent"]
    /\ retries = [c \in Cmds |-> 0]
    /\ runs = [c \in Cmds |-> 0]
    /\ phase = "closed"
    /\ todo = <<>> /\ up = <<>> /\ down = <<>> /\ stale = <<>>
    /\ surplus = 0 /\ faults = 0

-----------------------------------------------------------------------------
(* The manager *)

IssueCommand(c) ==
    /\ status[c] = "absent"
    /\ status' = [status EXCEPT ![c] = "pending"]
    /\ UNCHANGED <<retries, runs, phase, todo, up, down, stale, surplus, faults>>

Pending == {c \in Cmds : status[c] = "pending"}

\* (mutant) the rows stay PENDING until they are acknowledged
PullKeepingPending(list) ==
    /\ list \in SetToSeqs(Pending)
    /\ UNCHANGED rows

\* _handle_heartbeat: the rows are marked SENT; the SELECT has no ORDER BY.
PullPending(list) ==
    /\ list \in SetToSeqs(Pending)
    /\ status' = [c \in Cmds |-> IF c \in Pending THEN "sent" ELSE status[c]]
    /\ UNCHANGED retries

\* (mutant) the retry without its limit
RecordReportUnlimited(c, result) ==
    CASE result = "error" -> UNCHANGED rows
      [] result = "failed" ->
            /\ status' = [status EXCEPT ![c] = "pending"]
            /\ retries' = [retries EXCEPT ![c] = @ + 1]
      [] OTHER ->
            /\ status' = [status EXCEPT ![c] = result]
            /\ UNCHANGED retries

\* _handle_command_ack as far as the row of the command goes.
RecordReport(c, result) ==
    CASE result = "error" -> UNCHANGED rows
      [] result = "failed" /\ retries[c] < MaxRetries ->
            /\ status' = [status EXCEPT ![c] = "pending"]
            /\ retries' = [retries EXCEPT ![c] = @ + 1]
      [] OTHER ->
            /\ status' = [status EXCEPT ![c] = result]
            /\ UNCHANGED retries

\* (mutant) the answer to a report hands out commands, too
HandleEager(m, answer) ==
    /\ \E list \in SetToSeqs(Pending) : answer = CommandList(list)
    /\ IF m.type = "HEARTBEAT"
       THEN PullPending(answer.pending_commands)
       ELSE RecordReport(m.cmd, m.result)

\* One message handled in a transaction, with the answer it produces.
Handle(m, answer) ==
    \/ /\ m.type = "HEARTBEAT"
       /\ \E list \in SetToSeqs(Pending) :
            PullPending(list) /\ answer = CommandList(list)
    \/ /\ m.type = "COMMAND_ACK"
       /\ RecordReport(m.cmd, m.result)
       /\ answer = IF m.result = "error" THEN Refused ELSE Recorded

Answers ==
    {Recorded, Refused} \union {CommandList(list) : list \in SetToSeqs(Pending)}

\* (mutant) a refused report is not answered
HandleMessageDroppingErrors ==
    /\ up # <<>>
    /\ \E answer \in Answers :
        /\ Handle(Head(up), answer)
        /\ down' = IF answer = Refused THEN down ELSE Append(down, answer)
    /\ up' = Tail(up)
    /\ UNCHANGED <<runs, phase, todo, stale, surplus, faults>>

HandleMessage ==
    /\ up # <<>>
    /\ \E answer \in Answers :
        /\ Handle(Head(up), answer)
        /\ down' = Append(down, answer)
    /\ up' = Tail(up)
    /\ UNCHANGED <<runs, phase, todo, stale, surplus, faults>>

\* A handler raises: the transaction is rolled back, the answer is an error.
FailMessage ==
    /\ up # <<>>
    /\ faults < MaxFaults
    /\ faults' = faults + 1
    /\ up' = Tail(up)
    /\ down' = Append(down, Refused)
    /\ UNCHANGED <<status, retries, runs, phase, todo, stale, surplus>>

\* The same for a fire-and-forget message: nobody waits for this answer.
FailTelemetry ==
    /\ phase # "closed"
    /\ surplus < MaxSurplus
    /\ surplus' = surplus + 1
    /\ down' = Append(down, Refused)
    /\ UNCHANGED <<status, retries, runs, phase, todo, up, stale, faults>>

\* The manager may read on from a socket the agent has given up: the message
\* is handled and committed, the answer goes nowhere.
HandleStaleMessage ==
    /\ stale # <<>>
    /\ \E answer \in Answers : Handle(Head(stale), answer)
    /\ stale' = Tail(stale)
    /\ UNCHANGED <<runs, phase, todo, up, down, surplus, faults>>

\* A send or a receive on that socket fails and ends its loop.
ForgetStale ==
    /\ stale # <<>>
    /\ stale' = <<>>
    /\ UNCHANGED <<status, retries, runs, phase, todo, up, down, surplus, faults>>

-----------------------------------------------------------------------------
(* The agent *)

\* (mutant) the agent does not come back after a lost connection
ConnectOnce ==
    /\ phase = "closed" /\ faults = 0
    /\ phase' = "idle"
    /\ surplus' = 0
    /\ UNCHANGED <<status, retries, runs, todo, up, down, stale, faults>>

\* main_agent opens a socket and starts send_stats on it.
Connect ==
    /\ phase = "closed"
    /\ phase' = "idle"
    /\ surplus' = 0
    /\ UNCHANGED <<status, retries, runs, todo, up, down, stale, faults>>

SendHeartbeat ==
    /\ phase = "idle" /\ todo = <<>>
    /\ phase' = "heartbeat"
    /\ up' = Append(up, Heartbeat)
    /\ UNCHANGED <<status, retries, runs, todo, down, stale, surplus, faults>>

\* send_ws_json_and_wait returns the next frame.  The heartbeat takes its
\* pending_commands; the caller that sent a report drops it unread.
ReceiveAnswer ==
    /\ Waiting /\ down # <<>>
    /\ phase' = "idle"
    /\ todo' = IF phase = "heartbeat" THEN Head(down).pending_commands ELSE todo
    /\ down' = Tail(down)
    /\ UNCHANGED <<status, retries, runs, up, stale, surplus, faults>>

\* wait_for gives up after 5 s; the answer is still to come.
GiveUpWaiting ==
    /\ Waiting /\ down = <<>>
    /\ surplus < MaxSurplus
    /\ phase' = "idle"
    /\ surplus' = surplus + 1
    /\ UNCHANGED <<status, retries, runs, todo, up, down, stale, faults>>

\* execute_command, then the COMMAND_ACK with the handler's status.
RunCommand(result) ==
    /\ phase = "idle" /\ todo # <<>>
    /\ runs' = [runs EXCEPT ![Head(todo)] = @ + 1]
    /\ todo' = Tail(todo)
    /\ up' = Append(up, Report(Head(todo), result))
    /\ phase' = "report"
    /\ UNCHANGED <<status, retries, down, stale, surplus, faults>>

\* A handler raises: send_stats catches it outside the loop over the list,
\* so neither this command nor the rest of the list is reported.
HandlerRaises ==
    /\ phase = "idle" /\ todo # <<>>
    /\ runs' = [runs EXCEPT ![Head(todo)] = @ + 1]
    /\ todo' = <<>>
    /\ UNCHANGED <<status, retries, phase, up, down, stale, surplus, faults>>

\* The connection breaks, or the agent dies: killed from outside or by its own
\* watchdog_task.  The manager keeps some of the frames sent so far.
\* Bound: one old socket at a time has unread frames.
LoseConnection ==
    /\ phase # "closed" /\ stale = <<>>
    /\ faults < MaxFaults
    /\ phase' = "closed"
    /\ todo' = <<>> /\ up' = <<>> /\ down' = <<>>
    /\ \E n \in 0..Len(up) : stale' = SubSeq(up, 1, n)
    /\ faults' = faults + 1
    /\ UNCHANGED <<status, retries, runs, surplus>>

Manager ==
    \/ \E c \in Cmds : IssueCommand(c)
    \/ HandleMessage
    \/ FailMessage
    \/ FailTelemetry
    \/ HandleStaleMessage
    \/ ForgetStale

Agent ==
    \/ Connect
    \/ SendHeartbeat
    \/ ReceiveAnswer
    \/ GiveUpWaiting
    \/ \E result \in Results : RunCommand(result)
    \/ HandlerRaises

Next == Manager \/ Agent \/ LoseConnection

Spec == Init /\ [][Next]_vars

\* The two loops and the reconnect loop never stop by themselves.  Losing
\* connections, timeouts and raising handlers are possible, never forced.
Fairness ==
    /\ WF_vars(HandleMessage)
    /\ WF_vars(HandleStaleMessage \/ ForgetStale)
    /\ WF_vars(Connect)
    /\ WF_vars(SendHeartbeat)
    /\ WF_vars(ReceiveAnswer)
    /\ WF_vars(\E result \in Results : RunCommand(result))

FairSpec == Spec /\ Fairness

-----------------------------------------------------------------------------
(* Refinement of CommandDelivery *)

Carried ==
    Range(todo) \union UNION {Range(down[i].pending_commands) : i \in DOMAIN down}

Reported(c) ==
    {m.result : m \in {n \in Range(up) \union Range(stale) :
                            n.type = "COMMAND_ACK" /\ n.cmd = c}}

Places(c) == (IF c \in Carried THEN {"carried"} ELSE {}) \union Reported(c)

\* Where the attempt of c is, read off the frames; no value of Hops when it is
\* at two places at once.
hopBar ==
    [c \in Cmds |->
        IF Places(c) = {} THEN "none"
        ELSE IF Cardinality(Places(c)) = 1 THEN CHOOSE p \in Places(c) : TRUE
        ELSE "two places"]

Delivery == INSTANCE CommandDelivery WITH hop <- hopBar

\* The sockets, with every loss, late answer and reconnect, do what
\* CommandDelivery says: a command is never handed out twice for one attempt.
ImplementsDelivery == Delivery!Spec

-----------------------------------------------------------------------------
(* Properties *)

\* Every request gets exactly one answer, errors included: what is in flight on
\* the socket is the request waited for plus one frame per surplus answer.  So
\* after one timeout, or one failed fire-and-forget message, the socket never
\* catches up again.
OneAnswerPerRequest ==
    phase # "closed" => Len(up) + Len(down) = surplus + (IF Waiting THEN 1 ELSE 0)

\* As long as no answer on this socket was surplus, a request is answered by its
\* own answer: a list of commands never reaches the sender of a report.
PairedWithoutSurplus ==
    (surplus = 0 /\ Waiting /\ down # <<>>)
        => (phase = "report" => Head(down).pending_commands = <<>>)

\* send_ws_json_and_wait is documented to protect request and answer by
\* ws_request_lock: an answer with commands must never be taken by the sender of
\* a report, which drops it.
AnswersMatchRequests ==
    [][phase = "report" /\ down # <<>> /\ phase' = "idle" /\ down' = Tail(down)
            => Head(down).pending_commands = <<>>]_vars

\* With finitely many lost connections, a pending command is handed out and
\* gets a verdict, or its attempt is lost on the way.
PendingSettles == Delivery!PendingSettles
=============================================================================
