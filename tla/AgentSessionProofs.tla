------------------------- MODULE AgentSessionProofs -------------------------
(***************************************************************************)
(* For any number of commands, retries, surplus answers and faults: every   *)
(* request on the agent's socket gets one answer, requests and answers stay *)
(* paired as long as none was surplus, and the sockets implement            *)
(* CommandDelivery.                                                         *)
(***************************************************************************)
EXTENDS AgentSession, TLAPS, FiniteSetTheorems, SequenceTheorems

-----------------------------------------------------------------------------
(* Types *)

LEMMA FrameTypes ==
    /\ Heartbeat \in Requests
    /\ \A c \in Cmds, r \in Results : Report(c, r) \in Requests
    /\ Recorded \in Frames /\ Refused \in Frames
    /\ \A list \in Seq(Cmds) : CommandList(list) \in Frames
BY EmptySeq DEF Requests, Frames, Recorded, Refused, CommandList, Heartbeat

\* What a request can be.
LEMMA RequestCases ==
    ASSUME NEW m \in Requests
    PROVE  \/ m = Heartbeat
           \/ \E c \in Cmds, r \in Results : m = Report(c, r)
BY DEF Requests

\* A list of the pending commands names each of them once at most.
LEMMA ListOfPending ==
    ASSUME NEW list \in SetToSeqs(Pending)
    PROVE  /\ list \in Seq(Cmds)
           /\ \A i \in DOMAIN list : list[i] \in Pending
           /\ \A i, j \in DOMAIN list : list[i] = list[j] => i = j
<1>1. Pending \subseteq Cmds
  BY DEF Pending
<1>2. Cardinality(Pending) \in Nat
  BY <1>1, BoundsAssumption, FS_Subset, FS_CardinalityType
<1>3. /\ list \in [1 .. Cardinality(Pending) -> Pending]
      /\ \A i, j \in 1 .. Cardinality(Pending) : i # j => list[i] # list[j]
  BY DEF SetToSeqs
<1>4. list \in Seq(Pending)
  BY <1>2, <1>3
<1> QED
  BY <1>1, <1>3, <1>4, SeqMonotonic

\* What handling one request does to the rows, and the answer it produces: only
\* a heartbeat is answered with commands.
LEMMA HandleFacts ==
    ASSUME TypeOK, NEW m \in Requests, NEW answer, Handle(m, answer)
    PROVE  /\ status' \in [Cmds -> Statuses]
           /\ retries' \in [Cmds -> 0..MaxRetries]
           /\ answer \in Frames
           /\ m.type = "COMMAND_ACK" => answer.pending_commands = <<>>
<1>1. CASE m = Heartbeat
  <2>1. m.type = "HEARTBEAT"
    BY <1>1 DEF Heartbeat
  <2>2. PICK list \in SetToSeqs(Pending) :
            PullPending(list) /\ answer = CommandList(list)
    BY <2>1 DEF Handle
  <2>3. answer \in Frames
    BY <2>2, ListOfPending, FrameTypes
  <2>4. status' \in [Cmds -> Statuses] /\ retries' = retries
    BY <2>2 DEF PullPending, TypeOK, Statuses
  <2> QED
    BY <2>1, <2>3, <2>4 DEF TypeOK
<1>2. ASSUME NEW c \in Cmds, NEW r \in Results, m = Report(c, r)
      PROVE  /\ status' \in [Cmds -> Statuses]
             /\ retries' \in [Cmds -> 0..MaxRetries]
             /\ answer \in Frames
             /\ answer.pending_commands = <<>>
  <2>1. m.type = "COMMAND_ACK" /\ m.cmd = c /\ m.result = r
    BY <1>2 DEF Report
  <2>2. /\ RecordReport(c, r)
        /\ answer = Recorded \/ answer = Refused
    BY <2>1 DEF Handle
  <2>3. answer \in Frames /\ answer.pending_commands = <<>>
    BY <2>2, FrameTypes DEF Recorded, Refused
  <2>4. CASE r = "error"
    BY <2>2, <2>3, <2>4 DEF RecordReport, rows, TypeOK
  <2>5. CASE r = "failed" /\ retries[c] < MaxRetries
    <3>1. /\ status' = [status EXCEPT ![c] = "pending"]
          /\ retries' = [retries EXCEPT ![c] = @ + 1]
      BY <2>2, <2>5 DEF RecordReport
    <3>2. retries[c] + 1 \in 0..MaxRetries
      BY <2>5, BoundsAssumption DEF TypeOK
    <3> QED
      BY <2>3, <3>1, <3>2 DEF TypeOK, Statuses
  <2>6. CASE r # "error" /\ ~(r = "failed" /\ retries[c] < MaxRetries)
    <3>1. status' = [status EXCEPT ![c] = r] /\ retries' = retries
      BY <2>2, <2>6 DEF RecordReport
    <3>2. r \in {"success", "failed"}
      BY <2>6 DEF Results
    <3> QED
      BY <2>3, <3>1, <3>2 DEF TypeOK, Statuses
  <2> QED
    BY <2>4, <2>5, <2>6
<1> QED
  BY <1>1, <1>2, RequestCases

-----------------------------------------------------------------------------
(* Requests and answers *)

\* Nothing is in flight on a socket that does not exist.
ClosedIsEmpty == phase = "closed" => up = <<>> /\ down = <<>>

\* PairedWithoutSurplus says what is read next; this is what keeps it so: while a
\* report waits, neither side of the socket holds a heartbeat or its answer.
ReportAlone ==
    (surplus = 0 /\ phase = "report") =>
        /\ \A i \in DOMAIN up : up[i].type = "COMMAND_ACK"
        /\ \A i \in DOMAIN down : down[i].pending_commands = <<>>

IInv == TypeOK /\ OneAnswerPerRequest /\ ClosedIsEmpty /\ ReportAlone

LEMMA InitIInv == Init => IInv
<1> SUFFICES ASSUME Init PROVE IInv
  OBVIOUS
<1>1. TypeOK
  BY EmptySeq, BoundsAssumption DEF Init, TypeOK, Statuses, Phases
<1>2. OneAnswerPerRequest /\ ClosedIsEmpty /\ ReportAlone
  BY DEF Init, OneAnswerPerRequest, ClosedIsEmpty, ReportAlone
<1> QED
  BY <1>1, <1>2 DEF IInv

\* The manager takes the first request and appends an answer; a report is
\* answered without commands.
LEMMA AnswerKeepsIInv ==
    ASSUME IInv, up # <<>>, NEW answer \in Frames,
           up' = Tail(up), down' = Append(down, answer),
           Head(up).type = "COMMAND_ACK" => answer.pending_commands = <<>>,
           status' \in [Cmds -> Statuses], retries' \in [Cmds -> 0..MaxRetries],
           faults' \in 0..MaxFaults, UNCHANGED <<runs, phase, todo, stale, surplus>>
    PROVE  IInv'
<1> USE DEF IInv
<1>1. up \in Seq(Requests) /\ down \in Seq(Frames)
  BY DEF TypeOK
<1>2. /\ Len(up') = Len(up) - 1 /\ up' \in Seq(Requests)
      /\ \A i \in DOMAIN up' : i + 1 \in DOMAIN up /\ up'[i] = up[i + 1]
  BY <1>1, HeadTailProperties
<1>3. /\ Len(down') = Len(down) + 1 /\ down' \in Seq(Frames)
      /\ \A i \in DOMAIN down' : down'[i] = IF i = Len(down) + 1 THEN answer ELSE down[i]
      /\ \A i \in DOMAIN down' : i = Len(down) + 1 \/ i \in DOMAIN down
  BY <1>1, AppendProperties
<1>4. TypeOK'
  BY <1>2, <1>3 DEF TypeOK
<1>5. OneAnswerPerRequest'
  BY <1>1, <1>2, <1>3, LenProperties DEF OneAnswerPerRequest, Waiting
<1>6. ClosedIsEmpty'
  BY DEF ClosedIsEmpty
<1>7. ReportAlone'
  <2> SUFFICES ASSUME surplus = 0, phase = "report"
               PROVE  /\ \A i \in DOMAIN up' : up'[i].type = "COMMAND_ACK"
                      /\ \A i \in DOMAIN down' : down'[i].pending_commands = <<>>
    BY DEF ReportAlone
  <2>1. 1 \in DOMAIN up /\ Head(up) = up[1]
    BY <1>1, EmptySeq, LenProperties
  <2>2. Head(up).type = "COMMAND_ACK"
    BY <2>1 DEF ReportAlone
  <2>3. answer.pending_commands = <<>>
    BY <2>2
  <2> QED
    BY <1>2, <1>3, <2>3 DEF ReportAlone
<1> QED
  BY <1>4, <1>5, <1>6, <1>7

LEMMA HandleKeepsIInv ==
    ASSUME IInv, HandleMessage
    PROVE  IInv'
<1>1. PICK answer \in Answers : /\ Handle(Head(up), answer)
                                /\ down' = Append(down, answer)
  BY DEF HandleMessage
<1>2. Head(up) \in Requests
  BY HeadTailProperties DEF HandleMessage, IInv, TypeOK
<1>3. /\ status' \in [Cmds -> Statuses] /\ retries' \in [Cmds -> 0..MaxRetries]
      /\ answer \in Frames
      /\ Head(up).type = "COMMAND_ACK" => answer.pending_commands = <<>>
  BY <1>1, <1>2, HandleFacts DEF IInv
<1>4. faults' \in 0..MaxFaults
  BY DEF HandleMessage, IInv, TypeOK
<1> QED
  BY <1>1, <1>3, <1>4, AnswerKeepsIInv DEF HandleMessage

LEMMA FailKeepsIInv ==
    ASSUME IInv, FailMessage
    PROVE  IInv'
<1>1. Refused \in Frames /\ Refused.pending_commands = <<>>
  BY FrameTypes DEF Refused
<1>2. faults' \in 0..MaxFaults
  BY BoundsAssumption DEF FailMessage, IInv, TypeOK
<1>3. status' \in [Cmds -> Statuses] /\ retries' \in [Cmds -> 0..MaxRetries]
  BY DEF FailMessage, IInv, TypeOK
<1> QED
  BY <1>1, <1>2, <1>3, AnswerKeepsIInv DEF FailMessage

\* A request starts: nothing was in flight unless an answer was surplus.
LEMMA RequestKeepsIInv ==
    ASSUME IInv, phase = "idle", NEW m \in Requests, up' = Append(up, m),
           \/ phase' = "heartbeat"
           \/ phase' = "report" /\ m.type = "COMMAND_ACK",
           runs' \in [Cmds -> Nat], todo' \in Seq(Cmds),
           UNCHANGED <<status, retries, down, stale, surplus, faults>>
    PROVE  IInv'
<1> USE DEF IInv
<1>1. /\ up \in Seq(Requests) /\ down \in Seq(Frames)
      /\ Len(up) \in Nat /\ Len(down) \in Nat /\ surplus \in Nat
  BY LenProperties, BoundsAssumption DEF TypeOK
<1>2. /\ Len(up') = Len(up) + 1 /\ up' \in Seq(Requests)
      /\ up'[Len(up) + 1] = m
  BY <1>1, AppendProperties
<1>3. TypeOK'
  BY <1>2 DEF TypeOK, Phases
<1>4. OneAnswerPerRequest'
  <2>1. Len(up) + Len(down) = surplus
    BY <1>1 DEF OneAnswerPerRequest, Waiting
  <2>2. phase' \in {"heartbeat", "report"} /\ down' = down /\ surplus' = surplus
    OBVIOUS
  <2>3. \A n, k, t \in Nat : n + k = t => (n + 1) + k = t + 1
    OBVIOUS
  <2>4. (Len(up) + 1) + Len(down) = surplus + 1
    BY <1>1, <2>1, <2>3
  <2>5. Len(up') + Len(down') = surplus' + 1
    BY <1>2, <2>2, <2>4
  <2> QED
    BY <2>2, <2>5 DEF OneAnswerPerRequest, Waiting
<1>5. ClosedIsEmpty'
  BY DEF ClosedIsEmpty
<1>6. ReportAlone'
  <2> SUFFICES ASSUME surplus = 0, phase' = "report"
               PROVE  /\ \A i \in DOMAIN up' : up'[i].type = "COMMAND_ACK"
                      /\ \A i \in DOMAIN down' : down'[i].pending_commands = <<>>
    BY DEF ReportAlone
  <2>1. Len(up) = 0 /\ Len(down) = 0
    BY <1>1 DEF OneAnswerPerRequest, Waiting
  <2>2. DOMAIN up' = 1..1 /\ DOMAIN down' = {} /\ up'[1] = m
    BY <1>1, <1>2, <2>1, LenProperties
  <2> QED
    BY <2>2
<1> QED
  BY <1>3, <1>4, <1>5, <1>6

LEMMA ReceiveKeepsIInv ==
    ASSUME IInv, ReceiveAnswer
    PROVE  IInv'
<1> USE DEF IInv, ReceiveAnswer
<1>1. /\ up \in Seq(Requests) /\ down \in Seq(Frames) /\ down # <<>>
      /\ Len(up) \in Nat /\ Len(down) \in Nat /\ surplus \in Nat
  BY LenProperties, BoundsAssumption DEF TypeOK
<1>2. /\ Len(down') = Len(down) - 1 /\ down' \in Seq(Frames)
      /\ Head(down) \in Frames
  BY <1>1, HeadTailProperties
<1>3. TypeOK'
  BY <1>2 DEF TypeOK, Phases, Frames
<1>4. OneAnswerPerRequest'
  BY <1>1, <1>2 DEF OneAnswerPerRequest, Waiting
<1>5. ClosedIsEmpty' /\ ReportAlone'
  BY DEF ClosedIsEmpty, ReportAlone
<1> QED
  BY <1>3, <1>4, <1>5

LEMMA LossKeepsIInv ==
    ASSUME IInv, LoseConnection
    PROVE  IInv'
<1> USE DEF IInv, LoseConnection
<1>1. PICK n \in 0..Len(up) : stale' = SubSeq(up, 1, n)
  OBVIOUS
<1>2. up \in Seq(Requests) /\ Len(up) \in Nat
  BY LenProperties DEF TypeOK
<1>3. stale' \in Seq(Requests)
  BY <1>1, <1>2, SubSeqProperties
<1>4. TypeOK'
  BY <1>3, EmptySeq, BoundsAssumption DEF TypeOK, Phases
<1>5. OneAnswerPerRequest' /\ ClosedIsEmpty' /\ ReportAlone'
  BY DEF OneAnswerPerRequest, ClosedIsEmpty, ReportAlone
<1> QED
  BY <1>4, <1>5

LEMMA NextIInv == IInv /\ [Next]_vars => IInv'
<1> SUFFICES ASSUME IInv, [Next]_vars PROVE IInv'
  OBVIOUS
<1> USE DEF IInv
<1>1. ASSUME NEW c \in Cmds, IssueCommand(c) PROVE IInv'
  <2>1. TypeOK'
    BY <1>1 DEF IssueCommand, TypeOK, Statuses
  <2> QED
    BY <1>1, <2>1 DEF IssueCommand, OneAnswerPerRequest, ClosedIsEmpty, ReportAlone, Waiting
<1>2. CASE HandleMessage
  BY <1>2, HandleKeepsIInv
<1>3. CASE FailMessage
  BY <1>3, FailKeepsIInv
<1>4. CASE FailTelemetry
  <2>1. down \in Seq(Frames) /\ up \in Seq(Requests) /\ Refused \in Frames
    BY FrameTypes DEF TypeOK
  <2>2. down' \in Seq(Frames) /\ Len(down') = Len(down) + 1
    BY <1>4, <2>1, AppendProperties DEF FailTelemetry
  <2>3. TypeOK'
    BY <1>4, <2>2, BoundsAssumption DEF FailTelemetry, TypeOK
  <2>4. OneAnswerPerRequest'
    BY <1>4, <2>1, <2>2, LenProperties
       DEF FailTelemetry, OneAnswerPerRequest, Waiting, TypeOK
  <2>5. ClosedIsEmpty' /\ ReportAlone'
    BY <1>4, BoundsAssumption DEF FailTelemetry, ClosedIsEmpty, ReportAlone, TypeOK
  <2> QED
    BY <2>3, <2>4, <2>5
<1>5. CASE HandleStaleMessage
  <2>1. stale \in Seq(Requests) /\ stale # <<>>
    BY <1>5 DEF HandleStaleMessage, TypeOK
  <2>2. Head(stale) \in Requests /\ stale' \in Seq(Requests)
    BY <1>5, <2>1, HeadTailProperties DEF HandleStaleMessage
  <2>3. status' \in [Cmds -> Statuses] /\ retries' \in [Cmds -> 0..MaxRetries]
    BY <1>5, <2>2, HandleFacts DEF HandleStaleMessage
  <2>4. TypeOK'
    BY <1>5, <2>2, <2>3 DEF HandleStaleMessage, TypeOK
  <2> QED
    BY <1>5, <2>4
       DEF HandleStaleMessage, OneAnswerPerRequest, ClosedIsEmpty, ReportAlone, Waiting
<1>6. CASE ForgetStale
  <2>1. TypeOK'
    BY <1>6, EmptySeq DEF ForgetStale, TypeOK
  <2> QED
    BY <1>6, <2>1 DEF ForgetStale, OneAnswerPerRequest, ClosedIsEmpty, ReportAlone, Waiting
<1>7. CASE Connect
  <2>1. up = <<>> /\ down = <<>>
    BY <1>7 DEF Connect, ClosedIsEmpty
  <2>2. TypeOK'
    BY <1>7, BoundsAssumption DEF Connect, TypeOK, Phases
  <2> QED
    BY <1>7, <2>1, <2>2
       DEF Connect, OneAnswerPerRequest, ClosedIsEmpty, ReportAlone, Waiting
<1>8. CASE SendHeartbeat
  <2>1. todo' \in Seq(Cmds) /\ runs' \in [Cmds -> Nat]
    BY <1>8 DEF SendHeartbeat, TypeOK
  <2> QED
    BY <1>8, <2>1, FrameTypes, RequestKeepsIInv DEF SendHeartbeat
<1>9. CASE ReceiveAnswer
  BY <1>9, ReceiveKeepsIInv
<1>10. CASE GiveUpWaiting
  <2>1. TypeOK'
    BY <1>10, BoundsAssumption DEF GiveUpWaiting, TypeOK, Phases
  <2>2. Len(up) \in Nat /\ Len(down) \in Nat /\ surplus \in Nat
    BY LenProperties, BoundsAssumption DEF TypeOK
  <2>3. OneAnswerPerRequest'
    BY <1>10, <2>2 DEF GiveUpWaiting, OneAnswerPerRequest, Waiting
  <2>4. ClosedIsEmpty' /\ ReportAlone'
    BY <1>10 DEF GiveUpWaiting, ClosedIsEmpty, ReportAlone
  <2> QED
    BY <2>1, <2>3, <2>4
<1>11. ASSUME NEW r \in Results, RunCommand(r) PROVE IInv'
  <2>1. Head(todo) \in Cmds /\ todo' \in Seq(Cmds)
    BY <1>11, HeadTailProperties DEF RunCommand, TypeOK
  <2>2. Report(Head(todo), r) \in Requests
    BY <2>1, FrameTypes
  <2>3. Report(Head(todo), r).type = "COMMAND_ACK"
    BY DEF Report
  <2>4. runs' \in [Cmds -> Nat]
    BY <1>11, <2>1 DEF RunCommand, TypeOK
  <2> QED
    BY <1>11, <2>1, <2>2, <2>3, <2>4, RequestKeepsIInv DEF RunCommand
<1>12. CASE HandlerRaises
  <2>1. Head(todo) \in Cmds
    BY <1>12, HeadTailProperties DEF HandlerRaises, TypeOK
  <2>2. TypeOK'
    BY <1>12, <2>1, EmptySeq DEF HandlerRaises, TypeOK
  <2> QED
    BY <1>12, <2>2 DEF HandlerRaises, OneAnswerPerRequest, ClosedIsEmpty, ReportAlone, Waiting
<1>13. CASE LoseConnection
  BY <1>13, LossKeepsIInv
<1>14. CASE UNCHANGED vars
  BY <1>14 DEF vars, TypeOK, OneAnswerPerRequest, ClosedIsEmpty, ReportAlone, Waiting
<1> QED
  BY <1>1, <1>2, <1>3, <1>4, <1>5, <1>6, <1>7, <1>8, <1>9, <1>10, <1>11, <1>12,
     <1>13, <1>14 DEF Next, Manager, Agent

-----------------------------------------------------------------------------
(* Theorems *)

\* The strengthened invariant holds in every reachable state.
THEOREM SocketInvariant == Spec => []IInv
BY InitIInv, NextIInv, PTL DEF Spec

\* Rows, lists and frames keep their types; in particular retries stay within
\* the limit _handle_command_ack applies.
THEOREM TypeCorrect == Spec => []TypeOK
<1>1. IInv => TypeOK
  BY DEF IInv
<1> QED
  BY <1>1, SocketInvariant, PTL

\* agent_ws.py answers every request once, errors included.
THEOREM RequestsAnsweredOnce == Spec => []OneAnswerPerRequest
<1>1. IInv => OneAnswerPerRequest
  BY DEF IInv
<1> QED
  BY <1>1, SocketInvariant, PTL

\* As long as no answer was surplus, send_ws_json_and_wait hands the answer to
\* the coroutine that asked.
THEOREM AnswersPaired == Spec => []PairedWithoutSurplus
<1>1. IInv => PairedWithoutSurplus
  <2> SUFFICES ASSUME IInv, surplus = 0, phase = "report", down # <<>>
               PROVE  Head(down).pending_commands = <<>>
    BY DEF PairedWithoutSurplus
  <2>1. 1 \in DOMAIN down /\ Head(down) = down[1]
    BY EmptySeq, LenProperties DEF IInv, TypeOK
  <2> QED
    BY <2>1 DEF IInv, ReportAlone
<1> QED
  BY <1>1, SocketInvariant, PTL

-----------------------------------------------------------------------------
(***************************************************************************)
(* The sockets implement CommandDelivery: whatever is lost, late or read    *)
(* from an old socket, a command has one attempt under way at most, and     *)
(* every step is one of CommandDelivery's or leaves the delivery as it is.  *)
(***************************************************************************)

-----------------------------------------------------------------------------
(* Commands and reports in sequences of frames *)

\* Command c is in list s; it is offered in a frame of d; q reports it with r.
InList(s, c) == \E i \in DOMAIN s : s[i] = c
Offered(d, c) == \E i \in DOMAIN d : InList(d[i].pending_commands, c)
ReportIn(q, c, r) == \E i \in DOMAIN q : q[i] = Report(c, r)

\* At one position at most.
ListedOnce(s) == \A i, j \in DOMAIN s : s[i] = s[j] => i = j
OfferedOnce(d) ==
    /\ \A i \in DOMAIN d : ListedOnce(d[i].pending_commands)
    /\ \A i, j \in DOMAIN d, c \in Cmds :
        InList(d[i].pending_commands, c) /\ InList(d[j].pending_commands, c) => i = j
ReportedOnce(q) ==
    \A i, j \in DOMAIN q, c \in Cmds, r, s \in Results :
        q[i] = Report(c, r) /\ q[j] = Report(c, s) => i = j

LEMMA ReportInjective ==
    ASSUME NEW c, NEW d, NEW r, NEW s, Report(c, r) = Report(d, s)
    PROVE  c = d /\ r = s
<1>1. Report(c, r).cmd = c /\ Report(c, r).result = r
  BY DEF Report
<1>2. Report(d, s).cmd = d /\ Report(d, s).result = s
  BY DEF Report
<1> QED
  BY <1>1, <1>2

LEMMA HeartbeatNoReport ==
    ASSUME NEW c, NEW r
    PROVE  Heartbeat # Report(c, r)
<1>1. Heartbeat.type = "HEARTBEAT" /\ Report(c, r).type = "COMMAND_ACK"
  BY DEF Heartbeat, Report
<1> QED
  BY <1>1

\* The head and the tail of a sequence, position by position.
LEMMA TailPositions ==
    ASSUME NEW S, NEW s \in Seq(S), s # <<>>
    PROVE  /\ 1 \in DOMAIN s /\ Head(s) = s[1] /\ Head(s) \in S
           /\ Tail(s) \in Seq(S)
           /\ \A i \in DOMAIN Tail(s) :
                i + 1 \in DOMAIN s /\ i + 1 # 1 /\ Tail(s)[i] = s[i + 1]
           /\ \A i \in DOMAIN s : i # 1 => i - 1 \in DOMAIN Tail(s) /\ s[i] = Tail(s)[i - 1]
<1>1. Len(s) \in Nat \ {0} /\ DOMAIN s = 1..Len(s)
  BY EmptySeq, LenProperties
<1>2. /\ Head(s) \in S /\ Tail(s) \in Seq(S) /\ Len(Tail(s)) = Len(s) - 1
      /\ \A i \in 1..Len(Tail(s)) : Tail(s)[i] = s[i + 1]
  BY HeadTailProperties
<1>3. DOMAIN Tail(s) = 1..(Len(s) - 1)
  BY <1>2, LenProperties
<1>4. Head(s) = s[1]
  OBVIOUS
<1>5. \A i \in 1..(Len(s) - 1) : i + 1 \in 1..Len(s) /\ i + 1 # 1
  BY <1>1
<1>6. \A i \in 1..Len(s) : i # 1 => i - 1 \in 1..(Len(s) - 1) /\ (i - 1) + 1 = i
  BY <1>1
<1>7. \A i \in 1..(Len(s) - 1) : Tail(s)[i] = s[i + 1]
  BY <1>2
<1>8. \A i \in 1..Len(s) : i # 1 => i - 1 \in 1..(Len(s) - 1) /\ s[i] = Tail(s)[i - 1]
  BY <1>6, <1>7
<1> QED
  BY <1>1, <1>2, <1>3, <1>4, <1>5, <1>7, <1>8

LEMMA AppendPositions ==
    ASSUME NEW S, NEW s \in Seq(S), NEW x \in S
    PROVE  /\ Append(s, x) \in Seq(S)
           /\ DOMAIN Append(s, x) = DOMAIN s \union {Len(s) + 1}
           /\ Len(s) + 1 \notin DOMAIN s
           /\ \A i \in DOMAIN s : Append(s, x)[i] = s[i]
           /\ Append(s, x)[Len(s) + 1] = x
<1>1. Len(s) \in Nat /\ DOMAIN s = 1..Len(s)
  BY LenProperties
<1>2. /\ Append(s, x) \in Seq(S) /\ Len(Append(s, x)) = Len(s) + 1
      /\ \A i \in 1..Len(s) : Append(s, x)[i] = s[i]
      /\ Append(s, x)[Len(s) + 1] = x
  BY AppendProperties
<1>3. DOMAIN Append(s, x) = 1..(Len(s) + 1)
  BY <1>2, LenProperties
<1>4. 1..(Len(s) + 1) = (1..Len(s)) \union {Len(s) + 1} /\ Len(s) + 1 \notin 1..Len(s)
  BY <1>1
<1> QED
  BY <1>1, <1>2, <1>3, <1>4

-----------------------------------------------------------------------------
(* What taking the first element and adding a last one does to them *)

LEMMA TailOfList ==
    ASSUME NEW s \in Seq(Cmds), s # <<>>, ListedOnce(s)
    PROVE  /\ ListedOnce(Tail(s))
           /\ InList(s, Head(s)) /\ Head(s) \in Cmds
           /\ \A c \in Cmds : InList(Tail(s), c) <=> InList(s, c) /\ c # Head(s)
<1> USE TailPositions DEF ListedOnce, InList
<1>1. ListedOnce(Tail(s))
  <2> SUFFICES ASSUME NEW i \in DOMAIN Tail(s), NEW j \in DOMAIN Tail(s),
                      Tail(s)[i] = Tail(s)[j]
               PROVE  i = j
    OBVIOUS
  <2>1. i + 1 = j + 1
    OBVIOUS
  <2>2. DOMAIN Tail(s) \subseteq Nat
    BY LenProperties
  <2> QED
    BY <2>1, <2>2
<1>2. ASSUME NEW c \in Cmds, InList(Tail(s), c) PROVE InList(s, c) /\ c # Head(s)
  BY <1>2
<1>3. ASSUME NEW c \in Cmds, InList(s, c), c # Head(s) PROVE InList(Tail(s), c)
  <2>1. PICK i \in DOMAIN s : s[i] = c
    BY <1>3
  <2>2. i # 1
    BY <1>3, <2>1
  <2>3. i - 1 \in DOMAIN Tail(s) /\ Tail(s)[i - 1] = c
    BY <2>1, <2>2
  <2> QED
    BY <2>3
<1> QED
  BY <1>1, <1>2, <1>3

LEMMA TailOfOffers ==
    ASSUME NEW d \in Seq(Frames), d # <<>>, OfferedOnce(d)
    PROVE  /\ OfferedOnce(Tail(d))
           /\ Head(d) \in Frames /\ ListedOnce(Head(d).pending_commands)
           /\ \A c \in Cmds :
                InList(Head(d).pending_commands, c) => Offered(d, c) /\ ~Offered(Tail(d), c)
           /\ \A c \in Cmds :
                Offered(Tail(d), c)
                    <=> Offered(d, c) /\ ~InList(Head(d).pending_commands, c)
<1> USE TailPositions DEF OfferedOnce, Offered
<1>1. OfferedOnce(Tail(d))
  <2>1. \A i \in DOMAIN Tail(d) : ListedOnce(Tail(d)[i].pending_commands)
    OBVIOUS
  <2>2. ASSUME NEW i \in DOMAIN Tail(d), NEW j \in DOMAIN Tail(d), NEW c \in Cmds,
               InList(Tail(d)[i].pending_commands, c), InList(Tail(d)[j].pending_commands, c)
        PROVE  i = j
    <3>1. i + 1 = j + 1
      BY <2>2
    <3>2. DOMAIN Tail(d) \subseteq Nat
      BY LenProperties
    <3> QED
      BY <3>1, <3>2
  <2> QED
    BY <2>1, <2>2
<1>2. Head(d) \in Frames /\ ListedOnce(Head(d).pending_commands)
  OBVIOUS
<1>3. ASSUME NEW c \in Cmds, InList(Head(d).pending_commands, c)
      PROVE  Offered(d, c) /\ ~Offered(Tail(d), c)
  BY <1>3
<1>4. ASSUME NEW c \in Cmds, Offered(Tail(d), c) PROVE Offered(d, c)
  BY <1>4
<1>5. ASSUME NEW c \in Cmds, Offered(d, c), ~InList(Head(d).pending_commands, c)
      PROVE  Offered(Tail(d), c)
  BY <1>5
<1> QED
  BY <1>1, <1>2, <1>3, <1>4, <1>5

LEMMA OffersWithOneMore ==
    ASSUME NEW d \in Seq(Frames), OfferedOnce(d), NEW f \in Frames,
           ListedOnce(f.pending_commands),
           \A c \in Cmds : ~(InList(f.pending_commands, c) /\ Offered(d, c))
    PROVE  /\ OfferedOnce(Append(d, f))
           /\ \A c \in Cmds : Offered(Append(d, f), c)
                <=> Offered(d, c) \/ InList(f.pending_commands, c)
<1> USE AppendPositions DEF OfferedOnce, Offered
<1>1. \A i \in DOMAIN Append(d, f) : ListedOnce(Append(d, f)[i].pending_commands)
  OBVIOUS
<1>2. ASSUME NEW i \in DOMAIN Append(d, f), NEW j \in DOMAIN Append(d, f), NEW c \in Cmds,
             InList(Append(d, f)[i].pending_commands, c),
             InList(Append(d, f)[j].pending_commands, c)
      PROVE  i = j
  BY <1>2
<1>3. ASSUME NEW c \in Cmds
      PROVE  Offered(Append(d, f), c) <=> Offered(d, c) \/ InList(f.pending_commands, c)
  OBVIOUS
<1> QED
  BY <1>1, <1>2, <1>3

LEMMA TailOfReports ==
    ASSUME NEW q \in Seq(Requests), q # <<>>, ReportedOnce(q)
    PROVE  /\ ReportedOnce(Tail(q)) /\ Head(q) \in Requests
           /\ \A c \in Cmds, r \in Results :
                ReportIn(Tail(q), c, r) <=> ReportIn(q, c, r) /\ Head(q) # Report(c, r)
           /\ \A c \in Cmds, r, s \in Results :
                Head(q) = Report(c, r) => ReportIn(q, c, r) /\ ~ReportIn(Tail(q), c, s)
<1> USE TailPositions DEF ReportIn
<1>1. ReportedOnce(Tail(q))
  <2> SUFFICES ASSUME NEW i \in DOMAIN Tail(q), NEW j \in DOMAIN Tail(q), NEW c \in Cmds,
                      NEW r \in Results, NEW s \in Results,
                      Tail(q)[i] = Report(c, r), Tail(q)[j] = Report(c, s)
               PROVE  i = j
    BY DEF ReportedOnce
  <2>1. i + 1 = j + 1
    BY DEF ReportedOnce
  <2>2. DOMAIN Tail(q) \subseteq Nat
    BY LenProperties
  <2> QED
    BY <2>1, <2>2
<1>2. ASSUME NEW c \in Cmds, NEW r \in Results, ReportIn(Tail(q), c, r)
      PROVE  ReportIn(q, c, r)
  BY <1>2
<1>3. ASSUME NEW c \in Cmds, NEW r \in Results, ReportIn(q, c, r), Head(q) # Report(c, r)
      PROVE  ReportIn(Tail(q), c, r)
  <2>1. PICK i \in DOMAIN q : q[i] = Report(c, r)
    BY <1>3
  <2>2. i # 1
    BY <1>3, <2>1
  <2>3. i - 1 \in DOMAIN Tail(q) /\ Tail(q)[i - 1] = Report(c, r)
    BY <2>1, <2>2
  <2> QED
    BY <2>3
<1>4. ASSUME NEW c \in Cmds, NEW r \in Results, NEW s \in Results, Head(q) = Report(c, r)
      PROVE  ReportIn(q, c, r) /\ ~ReportIn(Tail(q), c, s)
  BY <1>4 DEF ReportedOnce
<1> QED
  BY <1>1, <1>2, <1>3, <1>4

LEMMA ReportsWithOneMore ==
    ASSUME NEW q \in Seq(Requests), ReportedOnce(q), NEW m \in Requests,
           \A c \in Cmds, r, s \in Results : m = Report(c, r) => ~ReportIn(q, c, s)
    PROVE  /\ ReportedOnce(Append(q, m))
           /\ \A c \in Cmds, r \in Results :
                ReportIn(Append(q, m), c, r) <=> ReportIn(q, c, r) \/ m = Report(c, r)
<1> USE AppendPositions DEF ReportIn
<1>1. ReportedOnce(Append(q, m))
  <2> SUFFICES ASSUME NEW i \in DOMAIN Append(q, m), NEW j \in DOMAIN Append(q, m),
                      NEW c \in Cmds, NEW r \in Results, NEW s \in Results,
                      Append(q, m)[i] = Report(c, r), Append(q, m)[j] = Report(c, s)
               PROVE  i = j
    BY DEF ReportedOnce
  <2> QED
    BY DEF ReportedOnce
<1>2. ASSUME NEW c \in Cmds, NEW r \in Results
      PROVE  ReportIn(Append(q, m), c, r) <=> ReportIn(q, c, r) \/ m = Report(c, r)
  OBVIOUS
<1> QED
  BY <1>1, <1>2

\* The frames the manager still reads after a connection broke are the first
\* ones of those sent.
LEMMA FirstReports ==
    ASSUME NEW q \in Seq(Requests), ReportedOnce(q), NEW n \in 0..Len(q)
    PROVE  /\ ReportedOnce(SubSeq(q, 1, n))
           /\ \A c \in Cmds, r \in Results :
                ReportIn(SubSeq(q, 1, n), c, r) => ReportIn(q, c, r)
<1> DEFINE p == SubSeq(q, 1, n)
<1>1. Len(q) \in Nat /\ DOMAIN q = 1..Len(q)
  BY LenProperties
<1>2. \A i \in 1..n : q[i] \in Requests
  BY <1>1, LenProperties
<1>3. /\ p \in Seq(Requests) /\ Len(p) = IF 1 <= n THEN n - 1 + 1 ELSE 0
      /\ \A i \in 1..(n - 1 + 1) : p[i] = q[1 + i - 1]
  BY <1>1, <1>2, SubSeqProperties
<1>4. DOMAIN p = 1..n
  BY <1>1, <1>3, LenProperties
<1>5. \A i \in DOMAIN p : i \in DOMAIN q /\ p[i] = q[i]
  BY <1>1, <1>3, <1>4
<1> HIDE DEF p
<1>6. ReportedOnce(p)
  BY <1>5 DEF ReportedOnce
<1>7. \A c \in Cmds, r \in Results : ReportIn(p, c, r) => ReportIn(q, c, r)
  BY <1>5 DEF ReportIn
<1> QED
  BY <1>6, <1>7 DEF p

LEMMA EmptyOnce ==
    /\ ListedOnce(<<>>) /\ OfferedOnce(<<>>) /\ ReportedOnce(<<>>)
    /\ \A c : ~InList(<<>>, c) /\ ~Offered(<<>>, c)
    /\ \A c, r : ~ReportIn(<<>>, c, r)
BY DEF ListedOnce, OfferedOnce, ReportedOnce, InList, Offered, ReportIn

-----------------------------------------------------------------------------
(* One attempt per command *)

CarriedAt(c) == InList(todo, c) \/ Offered(down, c)
ReportedAt(c, r) == ReportIn(up, c, r) \/ ReportIn(stale, c, r)

\* A command is at one position of one sequence at most, and only while its row
\* says SENT; the agent asks for more only when its list is used up.
OnePlace ==
    /\ ListedOnce(todo) /\ OfferedOnce(down) /\ ReportedOnce(up) /\ ReportedOnce(stale)
    /\ \A c \in Cmds : ~(InList(todo, c) /\ Offered(down, c))
    /\ \A c \in Cmds, r \in Results : ~(CarriedAt(c) /\ ReportedAt(c, r))
    /\ \A c \in Cmds, r, s \in Results : ~(ReportIn(up, c, r) /\ ReportIn(stale, c, s))
    /\ \A c \in Cmds : CarriedAt(c) => status[c] = "sent"
    /\ \A c \in Cmds, r \in Results : ReportedAt(c, r) => status[c] = "sent"
    /\ phase \in {"closed", "heartbeat"} => todo = <<>>

DInv == IInv /\ OnePlace

\* Positions only become fewer, and a row leaves SENT with its last one.
LEMMA Shrinks ==
    ASSUME OnePlace,
           ListedOnce(todo'), OfferedOnce(down'), ReportedOnce(up'), ReportedOnce(stale'),
           \A c \in Cmds : InList(todo', c) => InList(todo, c),
           \A c \in Cmds : Offered(down', c) => Offered(down, c),
           \A c \in Cmds, r \in Results : ReportIn(up', c, r) => ReportIn(up, c, r),
           \A c \in Cmds, r \in Results : ReportIn(stale', c, r) => ReportIn(stale, c, r),
           \A c \in Cmds : status[c] = "sent" =>
                \/ status'[c] = "sent"
                \/ ~CarriedAt(c)' /\ \A r \in Results : ~ReportedAt(c, r)',
           phase' \in {"closed", "heartbeat"} => todo' = <<>>
    PROVE  OnePlace'
<1>1. \A c \in Cmds : CarriedAt(c)' => CarriedAt(c)
  BY DEF CarriedAt
<1>2. \A c \in Cmds, r \in Results : ReportedAt(c, r)' => ReportedAt(c, r)
  BY DEF ReportedAt
<1>3. \A c \in Cmds : ~(InList(todo', c) /\ Offered(down', c))
  BY DEF OnePlace
<1>4. \A c \in Cmds, r \in Results : ~(CarriedAt(c)' /\ ReportedAt(c, r)')
  BY <1>1, <1>2 DEF OnePlace
<1>5. \A c \in Cmds, r, t \in Results : ~(ReportIn(up', c, r) /\ ReportIn(stale', c, t))
  BY DEF OnePlace
<1>6. \A c \in Cmds : CarriedAt(c)' => status'[c] = "sent"
  BY <1>1 DEF OnePlace
<1>7. \A c \in Cmds, r \in Results : ReportedAt(c, r)' => status'[c] = "sent"
  BY <1>2 DEF OnePlace
<1> QED
  BY <1>3, <1>4, <1>5, <1>6, <1>7 DEF OnePlace

-----------------------------------------------------------------------------
(* The mapping: what hopBar says of a command *)

LEMMA ReportedResults ==
    ASSUME TypeOK, NEW c \in Cmds
    PROVE  Reported(c) = {r \in Results : ReportedAt(c, r)}
<1>1. /\ \A m \in Range(up) : m \in Requests /\ \E i \in DOMAIN up : up[i] = m
      /\ \A m \in Range(stale) : m \in Requests /\ \E i \in DOMAIN stale : stale[i] = m
      /\ \A i \in DOMAIN up : up[i] \in Range(up)
      /\ \A i \in DOMAIN stale : stale[i] \in Range(stale)
  BY LenProperties DEF TypeOK, Range
<1>2. ASSUME NEW r \in Reported(c)
      PROVE  r \in Results /\ ReportedAt(c, r)
  <2>1. PICK m \in Range(up) \union Range(stale) :
            m.type = "COMMAND_ACK" /\ m.cmd = c /\ m.result = r
    BY DEF Reported
  <2>2. m \in Requests /\ m # Heartbeat
    BY <1>1, <2>1 DEF Heartbeat
  <2>3. PICK d \in Cmds, t \in Results : m = Report(d, t)
    BY <2>2, RequestCases
  <2>4. d = c /\ t = r
    BY <2>1, <2>3 DEF Report
  <2> QED
    BY <1>1, <2>3, <2>4 DEF ReportedAt, ReportIn
<1>3. ASSUME NEW r \in Results, ReportedAt(c, r)
      PROVE  r \in Reported(c)
  <2>1. Report(c, r) \in Range(up) \union Range(stale)
    BY <1>1, <1>3 DEF ReportedAt, ReportIn
  <2>2. /\ Report(c, r).type = "COMMAND_ACK"
        /\ Report(c, r).cmd = c /\ Report(c, r).result = r
    BY DEF Report
  <2> QED
    BY <2>1, <2>2 DEF Reported
<1> QED
  BY <1>2, <1>3

\* One report under way has one result.
LEMMA OneResult ==
    ASSUME OnePlace, NEW c \in Cmds, NEW r \in Results, NEW t \in Results,
           ReportedAt(c, r), ReportedAt(c, t)
    PROVE  r = t
<1>1. ASSUME NEW q, ReportedOnce(q), ReportIn(q, c, r), ReportIn(q, c, t)
      PROVE  r = t
  <2>1. PICK i \in DOMAIN q : q[i] = Report(c, r)
    BY <1>1 DEF ReportIn
  <2>2. PICK j \in DOMAIN q : q[j] = Report(c, t)
    BY <1>1 DEF ReportIn
  <2>3. i = j
    BY <1>1, <2>1, <2>2 DEF ReportedOnce
  <2> QED
    BY <2>1, <2>2, <2>3, ReportInjective
<1>2. CASE ReportIn(up, c, r) /\ ReportIn(up, c, t)
  BY <1>1, <1>2 DEF OnePlace
<1>3. CASE ReportIn(stale, c, r) /\ ReportIn(stale, c, t)
  BY <1>1, <1>3 DEF OnePlace
<1> QED
  BY <1>2, <1>3 DEF OnePlace, ReportedAt

HopIsRight ==
    \A c \in Cmds :
        /\ CarriedAt(c) => hopBar[c] = "carried"
        /\ \A r \in Results : ReportedAt(c, r) => hopBar[c] = r
        /\ (~CarriedAt(c) /\ \A r \in Results : ~ReportedAt(c, r)) => hopBar[c] = "none"

LEMMA HopIs == TypeOK /\ OnePlace => HopIsRight
<1> SUFFICES ASSUME TypeOK, OnePlace, NEW c \in Cmds
             PROVE  /\ CarriedAt(c) => hopBar[c] = "carried"
                    /\ \A r \in Results : ReportedAt(c, r) => hopBar[c] = r
                    /\ (~CarriedAt(c) /\ \A r \in Results : ~ReportedAt(c, r))
                            => hopBar[c] = "none"
  BY DEF HopIsRight
<1>1. c \in Carried <=> CarriedAt(c)
  BY DEF Carried, CarriedAt, InList, Offered, Range
<1>2. Places(c) = (IF CarriedAt(c) THEN {"carried"} ELSE {})
                        \union {r \in Results : ReportedAt(c, r)}
  BY <1>1, ReportedResults DEF Places
<1>3. ASSUME NEW x, Places(c) = {x} PROVE hopBar[c] = x
  <2>1. Cardinality(Places(c)) = 1 /\ Places(c) # {}
    BY <1>3, FS_Singleton
  <2>2. (CHOOSE p \in Places(c) : TRUE) = x
    BY <1>3
  <2> QED
    BY <2>1, <2>2 DEF hopBar
<1>4. CASE CarriedAt(c)
  <2>1. Places(c) = {"carried"}
    BY <1>2, <1>4 DEF OnePlace
  <2> QED
    BY <1>3, <1>4, <2>1 DEF OnePlace
<1>5. ASSUME NEW r \in Results, ReportedAt(c, r) PROVE hopBar[c] = r
  <2>1. Places(c) = {r}
    BY <1>2, <1>5, OneResult DEF OnePlace
  <2> QED
    BY <1>3, <2>1
<1>6. CASE ~CarriedAt(c) /\ \A r \in Results : ~ReportedAt(c, r)
  <2>1. Places(c) = {}
    BY <1>2, <1>6
  <2> QED
    BY <1>6, <2>1 DEF hopBar
<1> QED
  BY <1>4, <1>5, <1>6

\* A step that only drops attempts is a loss, or nothing, to CommandDelivery.
Simulated == Delivery!Next \/ UNCHANGED Delivery!delivery

LEMMA HopFunction ==
    /\ hopBar = [c \in Cmds |-> hopBar[c]]
    /\ hopBar' = [c \in Cmds |-> hopBar'[c]]
BY DEF hopBar

LEMMA Dropping ==
    ASSUME HopIsRight, HopIsRight',
           \A c \in Cmds : CarriedAt(c)' => CarriedAt(c),
           \A c \in Cmds, r \in Results : ReportedAt(c, r)' => ReportedAt(c, r),
           UNCHANGED <<status, retries, runs>>
    PROVE  Simulated
<1> DEFINE S == {c \in Cmds : hopBar[c] # "none" /\ hopBar'[c] = "none"}
<1>1. \A c \in Cmds : hopBar'[c] = hopBar[c] \/ hopBar'[c] = "none"
  BY DEF HopIsRight
<1>2. CASE S = {}
  <2>1. \A c \in Cmds : hopBar'[c] = hopBar[c]
    BY <1>1, <1>2
  <2>2. hopBar' = hopBar
    BY <2>1, HopFunction
  <2> QED
    BY <2>2 DEF Simulated, Delivery!delivery
<1>3. CASE S # {}
  <2>1. hopBar' = [c \in Cmds |-> IF c \in S THEN "none" ELSE hopBar[c]]
    <3>1. \A c \in Cmds : hopBar'[c] = IF c \in S THEN "none" ELSE hopBar[c]
      BY <1>1
    <3> QED
      BY <3>1, HopFunction
  <2>2. Delivery!Lose(S)
    BY <2>1 DEF Delivery!Lose, Delivery!Without
  <2>3. S \in SUBSET Cmds
    OBVIOUS
  <2> QED
    BY <1>3, <2>2, <2>3 DEF Simulated, Delivery!Next
<1> QED
  BY <1>2, <1>3

-----------------------------------------------------------------------------
(* The steps that only drop attempts *)

\* A frame without commands offers nothing.
LEMMA EmptyAnswer ==
    ASSUME OfferedOnce(down), down \in Seq(Frames), NEW f \in Frames,
           f.pending_commands = <<>>
    PROVE  /\ OfferedOnce(Append(down, f))
           /\ \A c \in Cmds : Offered(Append(down, f), c) => Offered(down, c)
<1>1. ListedOnce(f.pending_commands) /\ \A c \in Cmds : ~InList(f.pending_commands, c)
  BY EmptyOnce
<1> QED
  BY <1>1, OffersWithOneMore

LEMMA FailMessageDrops ==
    ASSUME IInv, OnePlace, FailMessage
    PROVE  /\ OnePlace'
           /\ \A c \in Cmds : CarriedAt(c)' => CarriedAt(c)
           /\ \A c \in Cmds, r \in Results : ReportedAt(c, r)' => ReportedAt(c, r)
<1> USE DEF FailMessage
<1>1. /\ up \in Seq(Requests) /\ down \in Seq(Frames)
      /\ OfferedOnce(down) /\ ReportedOnce(up)
  BY DEF IInv, TypeOK, OnePlace
<1>2. /\ OfferedOnce(down')
      /\ \A c \in Cmds : Offered(down', c) => Offered(down, c)
  BY <1>1, EmptyAnswer, FrameTypes DEF Refused
<1>3. /\ ReportedOnce(up')
      /\ \A c \in Cmds, r \in Results : ReportIn(up', c, r) => ReportIn(up, c, r)
  BY <1>1, TailOfReports
<1>4. OnePlace'
  <2>1. /\ ListedOnce(todo') /\ ReportedOnce(stale')
        /\ phase' \in {"closed", "heartbeat"} => todo' = <<>>
    BY DEF OnePlace
  <2> QED
    BY <1>2, <1>3, <2>1, Shrinks
<1> QED
  BY <1>2, <1>3, <1>4 DEF CarriedAt, ReportedAt

LEMMA FailTelemetryDrops ==
    ASSUME IInv, OnePlace, FailTelemetry
    PROVE  /\ OnePlace'
           /\ \A c \in Cmds : CarriedAt(c)' => CarriedAt(c)
           /\ \A c \in Cmds, r \in Results : ReportedAt(c, r)' => ReportedAt(c, r)
<1> USE DEF FailTelemetry
<1>1. down \in Seq(Frames) /\ OfferedOnce(down)
  BY DEF IInv, TypeOK, OnePlace
<1>2. /\ OfferedOnce(down')
      /\ \A c \in Cmds : Offered(down', c) => Offered(down, c)
  BY <1>1, EmptyAnswer, FrameTypes DEF Refused
<1>3. OnePlace'
  <2>1. /\ ListedOnce(todo') /\ ReportedOnce(up') /\ ReportedOnce(stale')
        /\ phase' \in {"closed", "heartbeat"} => todo' = <<>>
    BY DEF OnePlace
  <2> QED
    BY <1>2, <2>1, Shrinks
<1> QED
  BY <1>2, <1>3 DEF CarriedAt, ReportedAt

LEMMA ForgetStaleDrops ==
    ASSUME IInv, OnePlace, ForgetStale
    PROVE  /\ OnePlace'
           /\ \A c \in Cmds : CarriedAt(c)' => CarriedAt(c)
           /\ \A c \in Cmds, r \in Results : ReportedAt(c, r)' => ReportedAt(c, r)
<1> USE DEF ForgetStale
<1>1. ReportedOnce(stale') /\ \A c, r : ~ReportIn(stale', c, r)
  BY EmptyOnce
<1>2. OnePlace'
  <2>1. /\ ListedOnce(todo') /\ OfferedOnce(down') /\ ReportedOnce(up')
        /\ phase' \in {"closed", "heartbeat"} => todo' = <<>>
    BY DEF OnePlace
  <2> QED
    BY <1>1, <2>1, Shrinks
<1> QED
  BY <1>1, <1>2 DEF CarriedAt, ReportedAt

\* Connecting and giving up change nothing that is in flight.
LEMMA ConnectDrops ==
    ASSUME OnePlace, Connect \/ GiveUpWaiting
    PROVE  /\ OnePlace'
           /\ \A c \in Cmds : CarriedAt(c)' => CarriedAt(c)
           /\ \A c \in Cmds, r \in Results : ReportedAt(c, r)' => ReportedAt(c, r)
<1> USE DEF Connect, GiveUpWaiting
<1>1. /\ ListedOnce(todo') /\ OfferedOnce(down') /\ ReportedOnce(up')
      /\ ReportedOnce(stale') /\ phase' \notin {"closed", "heartbeat"}
  BY DEF OnePlace
<1>2. OnePlace'
  BY <1>1, Shrinks
<1> QED
  BY <1>2 DEF CarriedAt, ReportedAt

LEMMA SendHeartbeatDrops ==
    ASSUME IInv, OnePlace, SendHeartbeat
    PROVE  /\ OnePlace'
           /\ \A c \in Cmds : CarriedAt(c)' => CarriedAt(c)
           /\ \A c \in Cmds, r \in Results : ReportedAt(c, r)' => ReportedAt(c, r)
<1> USE DEF SendHeartbeat
<1>1. up \in Seq(Requests) /\ ReportedOnce(up)
  BY DEF IInv, TypeOK, OnePlace
<1>2. /\ ReportedOnce(up')
      /\ \A c \in Cmds, r \in Results : ReportIn(up', c, r) => ReportIn(up, c, r)
  BY <1>1, FrameTypes, HeartbeatNoReport, ReportsWithOneMore
<1>3. OnePlace'
  <2>1. /\ ListedOnce(todo') /\ OfferedOnce(down') /\ ReportedOnce(stale')
        /\ phase' \in {"closed", "heartbeat"} => todo' = <<>>
    BY DEF OnePlace
  <2> QED
    BY <1>2, <2>1, Shrinks
<1> QED
  BY <1>2, <1>3 DEF CarriedAt, ReportedAt

\* The heartbeat's answer becomes the list; the answer a report takes is lost
\* with what it offers.
LEMMA ReceiveDrops ==
    ASSUME IInv, OnePlace, ReceiveAnswer
    PROVE  /\ OnePlace'
           /\ \A c \in Cmds : CarriedAt(c)' => CarriedAt(c)
           /\ \A c \in Cmds, r \in Results : ReportedAt(c, r)' => ReportedAt(c, r)
<1> USE DEF ReceiveAnswer
<1> DEFINE list == Head(down).pending_commands
<1>1. down \in Seq(Frames) /\ down # <<>> /\ OfferedOnce(down)
  BY DEF IInv, TypeOK, OnePlace
<1>2. /\ OfferedOnce(down') /\ ListedOnce(list)
      /\ \A c \in Cmds : InList(list, c) => Offered(down, c) /\ ~Offered(down', c)
      /\ \A c \in Cmds : Offered(down', c) => Offered(down, c)
  BY <1>1, TailOfOffers
<1> HIDE DEF list
<1>3. CASE phase = "report"
  <2>1. /\ ListedOnce(todo') /\ ReportedOnce(up') /\ ReportedOnce(stale')
        /\ todo' = todo /\ phase' \notin {"closed", "heartbeat"}
    BY <1>3 DEF OnePlace
  <2>2. OnePlace'
    BY <1>2, <2>1, Shrinks
  <2> QED
    BY <1>2, <2>1, <2>2 DEF CarriedAt, ReportedAt
<1>4. CASE phase = "heartbeat"
  <2>1. todo = <<>> /\ \A c \in Cmds : ~InList(todo, c)
    BY <1>4, EmptyOnce DEF OnePlace
  <2>2. todo' = list
    BY <1>4 DEF list
  <2>3. \A c \in Cmds : CarriedAt(c)' => CarriedAt(c)
    BY <1>2, <2>2 DEF CarriedAt
  <2>4. \A c \in Cmds, r \in Results : ReportedAt(c, r)' <=> ReportedAt(c, r)
    BY DEF ReportedAt
  <2>5. OnePlace'
    <3>1. ListedOnce(todo') /\ ReportedOnce(up') /\ ReportedOnce(stale')
      BY <1>2, <2>2 DEF OnePlace
    <3>2. \A c \in Cmds : ~(InList(todo', c) /\ Offered(down', c))
      BY <1>2, <2>2
    <3>3. /\ \A c \in Cmds, r \in Results : ~(CarriedAt(c)' /\ ReportedAt(c, r)')
          /\ \A c \in Cmds : CarriedAt(c)' => status'[c] = "sent"
          /\ \A c \in Cmds, r \in Results : ReportedAt(c, r)' => status'[c] = "sent"
      BY <2>3, <2>4 DEF OnePlace
    <3>4. \A c \in Cmds, r, t \in Results : ~(ReportIn(up', c, r) /\ ReportIn(stale', c, t))
      BY DEF OnePlace
    <3> QED
      BY <1>2, <3>1, <3>2, <3>3, <3>4 DEF OnePlace
  <2> QED
    BY <2>3, <2>4, <2>5
<1> QED
  BY <1>3, <1>4 DEF Waiting

\* What the manager still reads was sent, once; the rest is gone.
LEMMA LossDrops ==
    ASSUME IInv, OnePlace, LoseConnection
    PROVE  /\ OnePlace'
           /\ \A c \in Cmds : CarriedAt(c)' => CarriedAt(c)
           /\ \A c \in Cmds, r \in Results : ReportedAt(c, r)' => ReportedAt(c, r)
<1> USE DEF LoseConnection
<1>1. PICK n \in 0..Len(up) : stale' = SubSeq(up, 1, n)
  OBVIOUS
<1>2. /\ ReportedOnce(stale')
      /\ \A c \in Cmds, r \in Results : ReportIn(stale', c, r) => ReportIn(up, c, r)
  BY <1>1, FirstReports DEF IInv, TypeOK, OnePlace
<1>3. /\ ListedOnce(todo') /\ OfferedOnce(down') /\ ReportedOnce(up')
      /\ \A c : ~InList(todo', c) /\ ~Offered(down', c)
      /\ \A c, r : ~ReportIn(up', c, r)
  BY EmptyOnce
<1>4. /\ \A c \in Cmds : ~CarriedAt(c)'
      /\ \A c \in Cmds, r \in Results : ReportedAt(c, r)' => ReportedAt(c, r)
  BY <1>2, <1>3 DEF CarriedAt, ReportedAt
<1>5. OnePlace'
  <2>1. \A c \in Cmds, r \in Results : ReportedAt(c, r)' => status'[c] = "sent"
    BY <1>4 DEF OnePlace
  <2> QED
    BY <1>2, <1>3, <1>4, <2>1 DEF OnePlace
<1> QED
  BY <1>4, <1>5

-----------------------------------------------------------------------------
(* The steps that are CommandDelivery's own *)

LEMMA IssueKeepsPlaces ==
    ASSUME OnePlace, NEW c \in Cmds, IssueCommand(c), status \in [Cmds -> Statuses]
    PROVE  /\ OnePlace'
           /\ \A d \in Cmds : CarriedAt(d)' <=> CarriedAt(d)
           /\ \A d \in Cmds, r \in Results : ReportedAt(d, r)' <=> ReportedAt(d, r)
<1>1. /\ \A d \in Cmds : status[d] = "sent" => status'[d] = "sent"
      /\ UNCHANGED <<phase, todo, up, down, stale>>
  BY DEF IssueCommand
<1>2. /\ ListedOnce(todo') /\ OfferedOnce(down') /\ ReportedOnce(up')
      /\ ReportedOnce(stale')
      /\ phase' \in {"closed", "heartbeat"} => todo' = <<>>
  BY <1>1 DEF OnePlace
<1>3. OnePlace'
  BY <1>1, <1>2, Shrinks
<1> QED
  BY <1>1, <1>3 DEF CarriedAt, ReportedAt

\* Nothing changes place: CommandDelivery sees the same hops.
LEMMA SameHops ==
    ASSUME HopIsRight, HopIsRight',
           \A c \in Cmds : CarriedAt(c)' <=> CarriedAt(c),
           \A c \in Cmds, r \in Results : ReportedAt(c, r)' <=> ReportedAt(c, r)
    PROVE  hopBar' = hopBar
<1>1. \A c \in Cmds : hopBar'[c] = hopBar[c]
  BY DEF HopIsRight
<1> QED
  BY <1>1, HopFunction

\* A heartbeat handled, its list offered or, on an old socket, lost.
LEMMA PullSimulates ==
    ASSUME HopIsRight, HopIsRight', status \in [Cmds -> Statuses],
           NEW list \in SetToSeqs(Pending), PullPending(list), NEW L,
           L = {} \/ L = {c \in Cmds : InList(list, c)},
           \A c \in Cmds : CarriedAt(c)' <=> CarriedAt(c) \/ c \in L,
           \A c \in Cmds, r \in Results : ReportedAt(c, r)' <=> ReportedAt(c, r),
           UNCHANGED runs
    PROVE  Simulated
<1>1. L \subseteq Pending
  BY ListOfPending DEF InList
<1>2. \A c \in Cmds : hopBar'[c] = IF c \in L THEN "carried" ELSE hopBar[c]
  BY DEF HopIsRight
<1>3. hopBar' = [c \in Cmds |-> IF c \in L THEN "carried" ELSE hopBar[c]]
  BY <1>2, HopFunction
<1>4. Delivery!Pending = Pending
  BY DEF Delivery!Pending, Pending
<1>5. CASE Pending = {}
  <2>1. status' = status
    BY <1>5 DEF PullPending
  <2>2. hopBar' = hopBar
    BY <1>1, <1>3, <1>5, HopFunction
  <2> QED
    BY <2>1, <2>2 DEF Simulated, Delivery!delivery, PullPending
<1>6. CASE Pending # {}
  <2> DEFINE lost == Pending \ L
  <2>1. Pending \ lost = L
    BY <1>1
  <2>2. Delivery!PullPending(lost)
    BY <1>3, <1>4, <2>1 DEF Delivery!PullPending, PullPending
  <2>3. Delivery!Pull
    BY <1>4, <1>6, <2>2 DEF Delivery!Pull
  <2> QED
    BY <2>3 DEF Simulated, Delivery!Next
<1> QED
  BY <1>5, <1>6

\* A report handled: its command leaves the way, its row gets the verdict.
LEMMA ReportSimulates ==
    ASSUME HopIsRight, HopIsRight', NEW c \in Cmds, NEW r \in Results,
           RecordReport(c, r), ReportedAt(c, r),
           ~CarriedAt(c)', \A t \in Results : ~ReportedAt(c, t)',
           \A d \in Cmds \ {c} : CarriedAt(d)' <=> CarriedAt(d),
           \A d \in Cmds \ {c}, t \in Results : ReportedAt(d, t)' <=> ReportedAt(d, t),
           UNCHANGED runs
    PROVE  Simulated
<1>1. hopBar[c] = r /\ hopBar'[c] = "none"
  BY DEF HopIsRight
<1>2. \A d \in Cmds \ {c} : hopBar'[d] = hopBar[d]
  BY DEF HopIsRight
<1>3. hopBar' = [hopBar EXCEPT ![c] = "none"]
  BY <1>1, <1>2, HopFunction
<1>4. CASE r = "error"
  <2>1. UNCHANGED <<status, retries>>
    BY <1>4 DEF RecordReport, rows
  <2>2. Delivery!RejectReport(c)
    BY <1>1, <1>3, <1>4, <2>1 DEF Delivery!RejectReport
  <2> QED
    BY <2>2 DEF Simulated, Delivery!Next
<1>5. CASE r # "error"
  <2>1. r \in {"success", "failed"}
    BY <1>5 DEF Results
  <2>2. Delivery!VerifyExecution(c, r)
    BY <1>5 DEF RecordReport, Delivery!VerifyExecution, Delivery!CanRetry
  <2>3. Delivery!Acknowledge(c)
    BY <1>1, <1>3, <2>1, <2>2 DEF Delivery!Acknowledge
  <2> QED
    BY <2>3 DEF Simulated, Delivery!Next
<1> QED
  BY <1>4, <1>5

\* The command at the head of the list becomes a report.
LEMMA RunMoves ==
    ASSUME IInv, OnePlace, NEW r \in Results, RunCommand(r),
           NEW c \in Cmds, c = Head(todo)
    PROVE  /\ OnePlace'
           /\ CarriedAt(c) /\ ReportedAt(c, r)'
           /\ \A d \in Cmds \ {c} : CarriedAt(d)' <=> CarriedAt(d)
           /\ \A d \in Cmds \ {c}, t \in Results : ReportedAt(d, t)' <=> ReportedAt(d, t)
<1> USE DEF RunCommand
<1>1. todo \in Seq(Cmds) /\ todo # <<>> /\ up \in Seq(Requests)
  BY DEF IInv, TypeOK
<1>2. /\ ListedOnce(todo') /\ InList(todo, c)
      /\ \A d \in Cmds : InList(todo', d) <=> InList(todo, d) /\ d # c
  BY <1>1, TailOfList DEF OnePlace
<1>3. CarriedAt(c)
  BY <1>2 DEF CarriedAt
<1>4. \A t \in Results : ~ReportedAt(c, t)
  BY <1>2, <1>3 DEF OnePlace
<1>5. Report(c, r) \in Requests
  BY <1>2, FrameTypes
<1>6. \A d \in Cmds, t, u \in Results : Report(c, r) = Report(d, t) => ~ReportIn(up, d, u)
  BY <1>4, ReportInjective DEF ReportedAt
<1>7. /\ ReportedOnce(up')
      /\ \A d \in Cmds, t \in Results :
            ReportIn(up', d, t) <=> ReportIn(up, d, t) \/ Report(c, r) = Report(d, t)
  BY <1>1, <1>5, <1>6, ReportsWithOneMore DEF OnePlace
<1>8. ~Offered(down', c)
  BY <1>2 DEF OnePlace
<1>9. \A d \in Cmds : CarriedAt(d)' <=> CarriedAt(d) /\ d # c
  BY <1>2, <1>8 DEF CarriedAt
<1>10. ReportIn(up', c, r)
  BY <1>2, <1>7
<1>11. \A d \in Cmds \ {c}, t \in Results : ReportIn(up', d, t) <=> ReportIn(up, d, t)
  BY <1>2, <1>7, ReportInjective
<1>12. OnePlace'
  <2>1. ReportedOnce(stale') /\ OfferedOnce(down') /\ phase' \notin {"closed", "heartbeat"}
    BY DEF OnePlace
  <2>2. \A d \in Cmds : ~(InList(todo', d) /\ Offered(down', d))
    BY <1>2 DEF OnePlace
  <2>3. \A d \in Cmds, t \in Results : ~(CarriedAt(d)' /\ ReportedAt(d, t)')
    BY <1>9, <1>11 DEF OnePlace, ReportedAt
  <2>4. \A d \in Cmds, t, u \in Results : ~(ReportIn(up', d, t) /\ ReportIn(stale', d, u))
    BY <1>4, <1>11 DEF OnePlace, ReportedAt
  <2>5. \A d \in Cmds : CarriedAt(d)' => status'[d] = "sent"
    BY <1>9 DEF OnePlace
  <2>6. \A d \in Cmds, t \in Results : ReportedAt(d, t)' => status'[d] = "sent"
    BY <1>2, <1>3, <1>11 DEF OnePlace, ReportedAt
  <2> QED
    BY <1>2, <1>7, <2>1, <2>2, <2>3, <2>4, <2>5, <2>6 DEF OnePlace
<1> QED
  BY <1>2, <1>3, <1>9, <1>10, <1>11, <1>12 DEF ReportedAt

\* A raising handler: the whole list is gone with the command that ran.
LEMMA RaiseDrops ==
    ASSUME IInv, OnePlace, HandlerRaises
    PROVE  /\ OnePlace'
           /\ Head(todo) \in Cmds /\ InList(todo, Head(todo))
           /\ \A d \in Cmds : CarriedAt(d)' <=> CarriedAt(d) /\ ~InList(todo, d)
           /\ \A d \in Cmds, t \in Results : ReportedAt(d, t)' <=> ReportedAt(d, t)
<1> USE DEF HandlerRaises
<1>1. Head(todo) \in Cmds /\ InList(todo, Head(todo))
  BY TailOfList DEF OnePlace, IInv, TypeOK
<1>2. ListedOnce(todo') /\ \A d : ~InList(todo', d)
  BY EmptyOnce
<1>3. OnePlace'
  <2>1. OfferedOnce(down') /\ ReportedOnce(up') /\ ReportedOnce(stale')
    BY DEF OnePlace
  <2> QED
    BY <1>2, <2>1, Shrinks
<1>4. \A d \in Cmds : ~(InList(todo, d) /\ Offered(down, d))
  BY DEF OnePlace
<1> QED
  BY <1>1, <1>2, <1>3, <1>4 DEF CarriedAt, ReportedAt

-----------------------------------------------------------------------------
(* Handling a request *)

LEMMA HopIsNext == TypeOK' /\ OnePlace' => HopIsRight'
BY HopIs, PTL

\* A handled request is a heartbeat answered with the pending commands, or a
\* report recorded and answered without any.
LEMMA HandleCases ==
    ASSUME NEW m \in Requests, NEW answer, Handle(m, answer)
    PROVE  \/ /\ m = Heartbeat
              /\ \E list \in SetToSeqs(Pending) :
                    PullPending(list) /\ answer = CommandList(list)
           \/ /\ \E c \in Cmds, r \in Results : m = Report(c, r) /\ RecordReport(c, r)
              /\ answer \in Frames /\ answer.pending_commands = <<>>
<1>1. CASE m = Heartbeat
  <2>1. m.type = "HEARTBEAT"
    BY <1>1 DEF Heartbeat
  <2> QED
    BY <1>1, <2>1 DEF Handle
<1>2. ASSUME NEW c \in Cmds, NEW r \in Results, m = Report(c, r)
      PROVE  RecordReport(c, r) /\ answer \in Frames /\ answer.pending_commands = <<>>
  <2>1. m.type = "COMMAND_ACK" /\ m.cmd = c /\ m.result = r
    BY <1>2 DEF Report
  <2>2. RecordReport(c, r) /\ answer \in {Recorded, Refused}
    BY <2>1 DEF Handle
  <2> QED
    BY <2>2, FrameTypes DEF Recorded, Refused
<1> QED
  BY <1>1, <1>2, RequestCases

\* A list of pending commands offers each once, and none of them is under way.
LEMMA FreshList ==
    ASSUME OnePlace, NEW list \in SetToSeqs(Pending)
    PROVE  /\ list \in Seq(Cmds) /\ ListedOnce(list)
           /\ \A c : InList(list, c) => c \in Pending
           /\ \A c \in Pending : ~CarriedAt(c) /\ \A r \in Results : ~ReportedAt(c, r)
<1>1. \A c \in Pending : c \in Cmds /\ status[c] # "sent"
  BY DEF Pending
<1> QED
  BY <1>1, ListOfPending DEF ListedOnce, InList, OnePlace

\* Only the row of the reported command changes.
LEMMA OtherRows ==
    ASSUME TypeOK, NEW c \in Cmds, NEW r \in Results, RecordReport(c, r)
    PROVE  \A d \in Cmds \ {c} : status'[d] = status[d]
<1>1. CASE r = "error"
  BY <1>1 DEF RecordReport, rows
<1>2. CASE r # "error"
  <2>1. status' = [status EXCEPT ![c] = "pending"] \/ status' = [status EXCEPT ![c] = r]
    BY <1>2 DEF RecordReport
  <2> QED
    BY <2>1 DEF TypeOK
<1> QED
  BY <1>1, <1>2

LEMMA HandleSimulates ==
    ASSUME IInv, IInv', OnePlace, HandleMessage
    PROVE  OnePlace' /\ Simulated
<1>1. PICK answer \in Answers : Handle(Head(up), answer) /\ down' = Append(down, answer)
  BY DEF HandleMessage
<1>2. /\ up' = Tail(up) /\ up # <<>> /\ UNCHANGED <<runs, phase, todo, stale>>
      /\ TypeOK /\ TypeOK' /\ up \in Seq(Requests) /\ down \in Seq(Frames)
      /\ status \in [Cmds -> Statuses] /\ HopIsRight
  BY HopIs DEF HandleMessage, IInv, TypeOK
<1>3. /\ ReportedOnce(up') /\ Head(up) \in Requests
      /\ \A c \in Cmds, r \in Results :
            ReportIn(up', c, r) <=> ReportIn(up, c, r) /\ Head(up) # Report(c, r)
      /\ \A c \in Cmds, r, t \in Results :
            Head(up) = Report(c, r) => ReportIn(up, c, r) /\ ~ReportIn(up', c, t)
  BY <1>2, TailOfReports DEF OnePlace
<1>4. ASSUME NEW list \in SetToSeqs(Pending), Head(up) = Heartbeat,
             PullPending(list), answer = CommandList(list)
      PROVE  OnePlace' /\ Simulated
  <2>1. /\ list \in Seq(Cmds) /\ ListedOnce(list)
        /\ \A c : InList(list, c) => c \in Pending
        /\ \A c \in Pending : ~CarriedAt(c) /\ \A r \in Results : ~ReportedAt(c, r)
    BY FreshList
  <2>2. answer \in Frames /\ answer.pending_commands = list
    BY <1>4, <2>1, FrameTypes DEF CommandList
  <2>3. \A c \in Cmds : ~(InList(list, c) /\ Offered(down, c))
    BY <2>1 DEF CarriedAt
  <2>4. /\ OfferedOnce(down')
        /\ \A c \in Cmds : Offered(down', c) <=> Offered(down, c) \/ InList(list, c)
    BY <1>1, <1>2, <2>1, <2>2, <2>3, OffersWithOneMore DEF OnePlace
  <2>5. \A c \in Cmds : CarriedAt(c)' <=> CarriedAt(c) \/ InList(list, c)
    BY <1>2, <2>4 DEF CarriedAt
  <2>6. \A c \in Cmds, r \in Results : ReportIn(up', c, r) <=> ReportIn(up, c, r)
    BY <1>3, <1>4, HeartbeatNoReport
  <2>7. \A c \in Cmds, r \in Results : ReportedAt(c, r)' <=> ReportedAt(c, r)
    BY <1>2, <2>6 DEF ReportedAt
  <2>8. \A c \in Cmds : InList(list, c) \/ status[c] = "sent" => status'[c] = "sent"
    BY <1>4, <2>1 DEF PullPending
  <2>9. OnePlace'
    <3>1. /\ ListedOnce(todo') /\ ReportedOnce(stale')
          /\ phase' \in {"closed", "heartbeat"} => todo' = <<>>
      BY <1>2 DEF OnePlace
    <3>2. \A c \in Cmds : ~(InList(todo', c) /\ Offered(down', c))
      BY <1>2, <2>1, <2>4 DEF OnePlace, CarriedAt
    <3>3. \A c \in Cmds, r \in Results : ~(CarriedAt(c)' /\ ReportedAt(c, r)')
      BY <2>1, <2>5, <2>7 DEF OnePlace
    <3>4. \A c \in Cmds, r, t \in Results : ~(ReportIn(up', c, r) /\ ReportIn(stale', c, t))
      BY <1>2, <2>6 DEF OnePlace
    <3>5. /\ \A c \in Cmds : CarriedAt(c)' => status'[c] = "sent"
          /\ \A c \in Cmds, r \in Results : ReportedAt(c, r)' => status'[c] = "sent"
      BY <2>5, <2>7, <2>8 DEF OnePlace
    <3> QED
      BY <1>3, <2>4, <3>1, <3>2, <3>3, <3>4, <3>5 DEF OnePlace
  <2>10. Simulated
    <3> DEFINE L == {c \in Cmds : InList(list, c)}
    <3>1. HopIsRight'
      BY <1>2, <2>9, HopIsNext
    <3>2. \A c \in Cmds : CarriedAt(c)' <=> CarriedAt(c) \/ c \in L
      BY <2>5
    <3>3. UNCHANGED runs
      BY <1>2
    <3> HIDE DEF L
    <3>4. L = {c \in Cmds : InList(list, c)}
      BY DEF L
    <3> QED
      BY <1>2, <1>4, <2>7, <3>1, <3>2, <3>3, <3>4, PullSimulates
  <2> QED
    BY <2>9, <2>10
<1>5. ASSUME NEW c \in Cmds, NEW r \in Results, Head(up) = Report(c, r),
             RecordReport(c, r), answer \in Frames, answer.pending_commands = <<>>
      PROVE  OnePlace' /\ Simulated
  <2>1. /\ OfferedOnce(down')
        /\ \A d \in Cmds : Offered(down', d) <=> Offered(down, d)
    <3>1. /\ ListedOnce(answer.pending_commands)
          /\ \A d \in Cmds : ~InList(answer.pending_commands, d)
      BY <1>5, EmptyOnce
    <3> QED
      BY <1>1, <1>2, <1>5, <3>1, OffersWithOneMore DEF OnePlace
  <2>2. /\ ReportedAt(c, r) /\ ~CarriedAt(c)
        /\ \A t \in Results : ~ReportedAt(c, t)'
    BY <1>2, <1>3, <1>5 DEF ReportedAt, OnePlace
  <2>3. \A d \in Cmds : CarriedAt(d)' <=> CarriedAt(d)
    BY <1>2, <2>1 DEF CarriedAt
  <2>4. \A d \in Cmds \ {c}, t \in Results : ReportedAt(d, t)' <=> ReportedAt(d, t)
    BY <1>2, <1>3, <1>5, ReportInjective DEF ReportedAt
  <2>5. OnePlace'
    <3>1. \A d \in Cmds : status[d] = "sent" =>
            \/ status'[d] = "sent"
            \/ ~CarriedAt(d)' /\ \A t \in Results : ~ReportedAt(d, t)'
      BY <1>2, <1>5, <2>2, <2>3, OtherRows
    <3>2. /\ ListedOnce(todo') /\ ReportedOnce(stale')
          /\ todo' = todo /\ stale' = stale
          /\ phase' \in {"closed", "heartbeat"} => todo' = <<>>
      BY <1>2 DEF OnePlace
    <3> QED
      BY <1>3, <2>1, <3>1, <3>2, Shrinks
  <2>6. HopIsRight' /\ UNCHANGED runs /\ ~CarriedAt(c)'
    BY <1>2, <2>2, <2>3, <2>5, HopIsNext
  <2> QED
    BY <1>2, <1>5, <2>2, <2>3, <2>4, <2>5, <2>6, ReportSimulates
<1> QED
  BY <1>1, <1>3, <1>4, <1>5, HandleCases

\* The same from the socket before: the list goes nowhere.
LEMMA HandleStaleSimulates ==
    ASSUME IInv, IInv', OnePlace, HandleStaleMessage
    PROVE  OnePlace' /\ Simulated
<1>1. PICK answer \in Answers : Handle(Head(stale), answer)
  BY DEF HandleStaleMessage
<1>2. /\ stale' = Tail(stale) /\ stale # <<>> /\ UNCHANGED <<runs, phase, todo, up, down>>
      /\ TypeOK /\ TypeOK' /\ stale \in Seq(Requests)
      /\ status \in [Cmds -> Statuses] /\ HopIsRight
  BY HopIs DEF HandleStaleMessage, IInv, TypeOK
<1>3. /\ ReportedOnce(stale') /\ Head(stale) \in Requests
      /\ \A c \in Cmds, r \in Results :
            ReportIn(stale', c, r) <=> ReportIn(stale, c, r) /\ Head(stale) # Report(c, r)
      /\ \A c \in Cmds, r, t \in Results :
            Head(stale) = Report(c, r) => ReportIn(stale, c, r) /\ ~ReportIn(stale', c, t)
  BY <1>2, TailOfReports DEF OnePlace
<1>4. \A c \in Cmds : CarriedAt(c)' <=> CarriedAt(c)
  BY <1>2 DEF CarriedAt
<1>5. /\ ListedOnce(todo') /\ OfferedOnce(down') /\ ReportedOnce(up')
      /\ todo' = todo /\ down' = down /\ up' = up
      /\ phase' \in {"closed", "heartbeat"} => todo' = <<>>
  BY <1>2 DEF OnePlace
<1>6. ASSUME NEW list \in SetToSeqs(Pending), Head(stale) = Heartbeat, PullPending(list)
      PROVE  OnePlace' /\ Simulated
  <2>1. \A c \in Cmds, r \in Results : ReportIn(stale', c, r) <=> ReportIn(stale, c, r)
    BY <1>3, <1>6, HeartbeatNoReport
  <2>2. \A c \in Cmds, r \in Results : ReportedAt(c, r)' <=> ReportedAt(c, r)
    BY <1>2, <2>1 DEF ReportedAt
  <2>3. \A c \in Cmds : status[c] = "sent" => status'[c] = "sent"
    BY <1>6 DEF PullPending
  <2>4. OnePlace'
    BY <1>3, <1>5, <2>1, <2>3, Shrinks
  <2>5. HopIsRight' /\ UNCHANGED runs
    BY <1>2, <2>4, HopIsNext
  <2> DEFINE L == {}
  <2>6. \A c \in Cmds : CarriedAt(c)' <=> CarriedAt(c) \/ c \in L
    BY <1>4
  <2> HIDE DEF L
  <2>7. L = {}
    BY DEF L
  <2> QED
    BY <1>2, <1>6, <2>2, <2>4, <2>5, <2>6, <2>7, PullSimulates
<1>7. ASSUME NEW c \in Cmds, NEW r \in Results, Head(stale) = Report(c, r), RecordReport(c, r)
      PROVE  OnePlace' /\ Simulated
  <2>1. /\ ReportedAt(c, r) /\ ~CarriedAt(c)
        /\ \A t \in Results : ~ReportedAt(c, t)'
    BY <1>2, <1>3, <1>7 DEF ReportedAt, OnePlace
  <2>2. \A d \in Cmds \ {c}, t \in Results : ReportedAt(d, t)' <=> ReportedAt(d, t)
    BY <1>2, <1>3, <1>7, ReportInjective DEF ReportedAt
  <2>3. OnePlace'
    <3>1. \A d \in Cmds : status[d] = "sent" =>
            \/ status'[d] = "sent"
            \/ ~CarriedAt(d)' /\ \A t \in Results : ~ReportedAt(d, t)'
      BY <1>2, <1>4, <1>7, <2>1, OtherRows
    <3> QED
      BY <1>3, <1>5, <3>1, Shrinks
  <2>4. HopIsRight' /\ UNCHANGED runs /\ ~CarriedAt(c)'
    BY <1>2, <1>4, <2>1, <2>3, HopIsNext
  <2> QED
    BY <1>2, <1>4, <1>7, <2>1, <2>2, <2>3, <2>4, ReportSimulates
<1> QED
  BY <1>1, <1>3, <1>6, <1>7, HandleCases

-----------------------------------------------------------------------------
(* Theorems *)

LEMMA InitRefines == Init => OnePlace /\ Delivery!Init
<1> SUFFICES ASSUME Init PROVE OnePlace /\ Delivery!Init
  OBVIOUS
<1>1. /\ \A c \in Cmds : ~CarriedAt(c)
      /\ \A c \in Cmds, r \in Results : ~ReportedAt(c, r)
  BY EmptyOnce DEF Init, CarriedAt, ReportedAt
<1>2. OnePlace
  BY <1>1, EmptyOnce DEF Init, OnePlace
<1>3. \A c \in Cmds : hopBar[c] = "none"
  BY <1>1, <1>2, HopIs, InitIInv DEF HopIsRight, IInv
<1>4. hopBar = [c \in Cmds |-> "none"]
  BY <1>3, HopFunction
<1> QED
  BY <1>2, <1>4 DEF Init, Delivery!Init

LEMMA NextRefines == IInv /\ IInv' /\ OnePlace /\ [Next]_vars => OnePlace' /\ Simulated
<1> SUFFICES ASSUME IInv, IInv', OnePlace, [Next]_vars PROVE OnePlace' /\ Simulated
  OBVIOUS
<1>1. TypeOK /\ TypeOK' /\ status \in [Cmds -> Statuses] /\ HopIsRight
  BY HopIs DEF IInv, TypeOK
<1>2. OnePlace' => HopIsRight'
  BY <1>1, HopIsNext
<1>3. ASSUME NEW c \in Cmds, IssueCommand(c) PROVE OnePlace' /\ Simulated
  <2>1. OnePlace' /\ hopBar' = hopBar
    BY <1>1, <1>2, <1>3, IssueKeepsPlaces, SameHops
  <2>2. Delivery!IssueCommand(c)
    BY <1>3, <2>1 DEF IssueCommand, Delivery!IssueCommand
  <2> QED
    BY <2>1, <2>2 DEF Simulated, Delivery!Next
<1>4. CASE HandleMessage
  BY <1>4, HandleSimulates
<1>5. CASE HandleStaleMessage
  BY <1>5, HandleStaleSimulates
<1>6. CASE FailMessage
  BY <1>1, <1>2, <1>6, FailMessageDrops, Dropping DEF FailMessage
<1>7. CASE FailTelemetry
  BY <1>1, <1>2, <1>7, FailTelemetryDrops, Dropping DEF FailTelemetry
<1>8. CASE ForgetStale
  BY <1>1, <1>2, <1>8, ForgetStaleDrops, Dropping DEF ForgetStale
<1>9. CASE Connect \/ GiveUpWaiting
  BY <1>1, <1>2, <1>9, ConnectDrops, Dropping DEF Connect, GiveUpWaiting
<1>10. CASE SendHeartbeat
  BY <1>1, <1>2, <1>10, SendHeartbeatDrops, Dropping DEF SendHeartbeat
<1>11. CASE ReceiveAnswer
  BY <1>1, <1>2, <1>11, ReceiveDrops, Dropping DEF ReceiveAnswer
<1>12. ASSUME NEW r \in Results, RunCommand(r) PROVE OnePlace' /\ Simulated
  <2>1. PICK c \in Cmds : c = Head(todo)
    BY <1>12, HeadTailProperties DEF RunCommand, IInv, TypeOK
  <2>2. /\ OnePlace' /\ CarriedAt(c) /\ ReportedAt(c, r)'
        /\ \A d \in Cmds \ {c} : CarriedAt(d)' <=> CarriedAt(d)
        /\ \A d \in Cmds \ {c}, t \in Results : ReportedAt(d, t)' <=> ReportedAt(d, t)
    BY <1>12, <2>1, RunMoves
  <2>3. hopBar[c] = "carried" /\ hopBar'[c] = r
    BY <1>1, <1>2, <2>2 DEF HopIsRight
  <2>4. \A d \in Cmds \ {c} : hopBar'[d] = hopBar[d]
    BY <1>1, <1>2, <2>2 DEF HopIsRight
  <2>5. hopBar' = [hopBar EXCEPT ![c] = r]
    BY <2>3, <2>4, HopFunction
  <2>6. Delivery!Run(c, r)
    BY <1>12, <2>1, <2>3, <2>5 DEF RunCommand, Delivery!Run
  <2> QED
    BY <2>2, <2>6 DEF Simulated, Delivery!Next, Delivery!Results, Results
<1>13. CASE HandlerRaises
  <2>1. /\ OnePlace' /\ Head(todo) \in Cmds /\ InList(todo, Head(todo))
        /\ \A d \in Cmds : CarriedAt(d)' <=> CarriedAt(d) /\ ~InList(todo, d)
        /\ \A d \in Cmds, t \in Results : ReportedAt(d, t)' <=> ReportedAt(d, t)
    BY <1>13, RaiseDrops
  <2> DEFINE S == {d \in Cmds : InList(todo, d)}
  <2>2. \A d \in S : CarriedAt(d) /\ \A t \in Results : ~ReportedAt(d, t)
    BY DEF OnePlace, CarriedAt
  <2>3. \A d \in S : hopBar[d] = "carried"
    BY <1>1, <2>2 DEF HopIsRight
  <2>4. \A d \in Cmds : hopBar'[d] = IF d \in S THEN "none" ELSE hopBar[d]
    BY <1>1, <1>2, <2>1, <2>2 DEF HopIsRight
  <2>5. hopBar' = [d \in Cmds |-> IF d \in S THEN "none" ELSE hopBar[d]]
    BY <2>4, HopFunction
  <2>6. Head(todo) \in S /\ S \in SUBSET Cmds
    BY <2>1
  <2>7. Delivery!RunUnreported(Head(todo), S)
    BY <1>13, <2>3, <2>5, <2>6 DEF HandlerRaises, Delivery!RunUnreported, Delivery!Without
  <2> QED
    BY <2>1, <2>6, <2>7 DEF Simulated, Delivery!Next
<1>14. CASE LoseConnection
  BY <1>1, <1>2, <1>14, LossDrops, Dropping DEF LoseConnection
<1>15. CASE UNCHANGED vars
  <2>1. OnePlace'
    BY <1>15 DEF vars, OnePlace, CarriedAt, ReportedAt
  <2>2. /\ \A c \in Cmds : CarriedAt(c)' => CarriedAt(c)
        /\ \A c \in Cmds, r \in Results : ReportedAt(c, r)' => ReportedAt(c, r)
    BY <1>15 DEF vars, CarriedAt, ReportedAt
  <2> QED
    BY <1>1, <1>2, <1>15, <2>1, <2>2, Dropping DEF vars
<1> QED
  BY <1>3, <1>4, <1>5, <1>6, <1>7, <1>8, <1>9, <1>10, <1>11, <1>12, <1>13, <1>14,
     <1>15 DEF Next, Manager, Agent

\* A command is in one list, one answer or one report at a time, and only while
\* its row is SENT, through every loss, retry and late answer.
THEOREM OnePlaceAlways == Spec => []OnePlace
<1>1. Init => IInv /\ OnePlace
  BY InitIInv, InitRefines
<1>2. IInv /\ OnePlace /\ [Next]_vars => (IInv /\ OnePlace)'
  BY NextIInv, NextRefines
<1> QED
  BY <1>1, <1>2, PTL DEF Spec

\* The sockets implement CommandDelivery: what is proved there of runs, retries
\* and verdicts holds of the agent's loop and the manager's endpoint.
THEOREM SocketsImplementDelivery == Spec => ImplementsDelivery
<1>1. Init => Delivery!Init
  BY InitRefines
<1>2. IInv /\ IInv' /\ OnePlace /\ [Next]_vars => [Delivery!Next]_(Delivery!delivery)
  BY NextRefines DEF Simulated
<1> QED
  BY <1>1, <1>2, SocketInvariant, OnePlaceAlways, PTL
     DEF Spec, ImplementsDelivery, Delivery!Spec
=============================================================================
