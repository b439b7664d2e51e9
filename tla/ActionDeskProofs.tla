--------------------------- MODULE ActionDeskProofs ---------------------------
(***************************************************************************)
(* Proofs about the console's views of the response actions (ActionDesk):   *)
(* for any number of actions, handlers, listings under way and failures,    *)
(* what is shown, ticked and undone agrees with what happened to the rows,  *)
(* and the buttons are disabled exactly as long as something is running.    *)
(***************************************************************************)
EXTENDS ActionDesk, FiniteSetTheorems, TLAPS

-----------------------------------------------------------------------------
(* The inductive invariant *)

\* A handler of the page on the screen.
Runs(s) == job[s] # Idle /\ job[s].live

\* A list that claims nothing that did not happen.
Truthful(l, was, und) ==
    \A a \in Actions : /\ l[a] = "applied" => a \in was
                       /\ l[a] = "reverted" => a \in und

\* The rows and every copy of them, shown or on its way.
CopiesAreTrue ==
    /\ Truthful(row, wasApplied, undone)
    /\ Truthful(list, wasApplied, undone)
    /\ \A r \in reads : Truthful(r.data, wasApplied, undone)

\* What a handler will act on: an undo reported as done was done, a session of
\* undo-all only holds actions it found applied, a bulk rollback only asks for
\* actions that were shown applied.
JobIsTrue(j, was, und) ==
    /\ j.op = "undo" /\ j.stage = "ok" => j.cur \in und
    /\ j.op = "all" /\ j.stage = "serving" => j.todo \subseteq was
    /\ j.op = "bulk" => j.todo \cup {j.cur} \subseteq was

JobsAreTrue == \A s \in Slots : JobIsTrue(job[s], wasApplied, undone)

TrueInv ==
    /\ CopiesAreTrue
    /\ JobsAreTrue
    /\ selected \subseteq wasApplied
    /\ UndoneWereApplied

\* Which page has which dialogs; ticks belong to the history page.
DialogsFitPage ==
    /\ dialog # NoDialog => page # "none" /\ dialog.kind # "none"
    /\ dialog.kind \in {"bulk", "stray"} \/ selected # {} => page = "history"
    /\ dialog.kind = "all" => dialog.of = NoAct

\* A page that was left has no handlers; only its own handlers fetch.
HandlersFitPage ==
    \A s \in Slots :
        /\ Runs(s) => page # "none"
        /\ job[s].op \in {"undo", "bulk", "all"} /\ job[s].stage = "fetching" => Runs(s)

\* While a handler of a timeline runs, its buttons are disabled, there is no
\* second handler, and the dialog, if open, is the one that started it.
TimelineIsBusy ==
    page = "timeline" =>
        \A s \in Slots : Runs(s) =>
            /\ actionLoading
            /\ job[s].op # "bulk"
            /\ dialog = NoDialog \/ (dialog.kind = job[s].op /\ dialog.of = job[s].cur)
            /\ \A t \in Slots : Runs(t) => t = s

DeskInv == DialogsFitPage /\ HandlersFitPage /\ TimelineIsBusy /\ BusyMeansWorking

-----------------------------------------------------------------------------
(* Handlers *)

\* A slot whose handler has an operation is a running one, with all its fields.
LEMMA JobType ==
    ASSUME TypeOK, NEW s \in Slots, job[s].op \in {"undo", "bulk", "all"}
    PROVE  job[s] \in Jobs /\ job[s] # Idle
BY DEF TypeOK, Idle

LEMMA BusyType ==
    ASSUME TypeOK, NEW s \in Slots, job[s] # Idle
    PROVE  job[s] \in Jobs /\ job[s].op \in {"undo", "bulk", "all"}
BY DEF TypeOK, Jobs

LEMMA NotIdle ==
    ASSUME NEW j \in Jobs
    PROVE  j # Idle
BY DEF Jobs, Idle

\* A step of one handler: its stage changes and nothing else.
LEMMA StepEffect ==
    ASSUME TypeOK, NEW s \in Slots, job[s].op \in {"undo", "bulk", "all"},
           NEW stage \in {"sent", "serving", "ok", "err", "fetching"}, Step(s, stage)
    PROVE  /\ job' \in [Slots -> Jobs \cup {Idle}]
           /\ job'[s] \in Jobs
           /\ job'[s].live = job[s].live /\ job'[s].op = job[s].op
           /\ job'[s].todo = job[s].todo /\ job'[s].cur = job[s].cur
           /\ job'[s].stage = stage
           /\ \A t \in Slots \ {s} : job'[t] = job[t]
<1>1. job[s] \in Jobs
  BY JobType
<1> QED
  BY <1>1 DEF Step, TypeOK, Jobs

\* A handler that starts.
LEMMA StartEffect ==
    ASSUME TypeOK, NEW s \in Slots, NEW op \in {"undo", "bulk", "all"},
           NEW a \in Actions \cup {NoAct}, NEW todo \in SUBSET Actions, Start(s, op, a, todo)
    PROVE  /\ job[s] = Idle
           /\ job' \in [Slots -> Jobs \cup {Idle}]
           /\ job'[s] \in Jobs
           /\ job'[s].live /\ job'[s].op = op /\ job'[s].todo = todo /\ job'[s].cur = a
           /\ job'[s].stage = "sent"
           /\ \A t \in Slots \ {s} : job'[t] = job[t]
           /\ actionLoading' = TRUE
           /\ UNCHANGED <<server, page, list, loading, dialog, selected, reads, faults>>
BY DEF Start, TypeOK, Jobs

\* A handler that ends.
LEMMA EndEffect ==
    ASSUME TypeOK, NEW s \in Slots, job' = [job EXCEPT ![s] = Idle]
    PROVE  /\ job' \in [Slots -> Jobs \cup {Idle}]
           /\ job'[s] = Idle
           /\ \A t \in Slots \ {s} : job'[t] = job[t]
BY DEF TypeOK

\* Leaving the page: no handler is live any more.
LEMMA UnmountEffect ==
    ASSUME TypeOK, Unmount
    PROVE  /\ job' \in [Slots -> Jobs \cup {Idle}]
           /\ \A s \in Slots :
                \/ job'[s] = Idle
                \/ /\ job[s] \in Jobs /\ job'[s] \in Jobs
                   /\ ~job'[s].live /\ job'[s].op = job[s].op
                   /\ job'[s].todo = job[s].todo /\ job'[s].cur = job[s].cur
                   /\ job'[s].stage = job[s].stage /\ job[s].stage # "fetching"
<1> DEFINE Left(s) == [job[s] EXCEPT !.live = FALSE]
<1>1. \A s \in Slots : job[s] # Idle =>
          /\ job[s] \in Jobs /\ Left(s) \in Jobs
          /\ ~Left(s).live /\ Left(s).op = job[s].op /\ Left(s).todo = job[s].todo
          /\ Left(s).cur = job[s].cur /\ Left(s).stage = job[s].stage
  BY DEF TypeOK, Jobs
<1>2. job' = [s \in Slots |-> IF job[s] = Idle \/ job[s].stage = "fetching" THEN Idle
                              ELSE Left(s)]
  BY DEF Unmount
<1> HIDE DEF Left
<1>3. \A s \in Slots : \/ job'[s] = Idle
                       \/ job[s] # Idle /\ job[s].stage # "fetching" /\ job'[s] = Left(s)
  BY <1>2
<1> QED
  BY <1>1, <1>2, <1>3

LEMMA ReadType ==
    ASSUME TypeOK, NEW by \in {ByTimer, ByPage} \cup Slots, NEW p
    PROVE  /\ Listing(p) \in Lists
           /\ Read(by, p) \in [by : {ByTimer, ByPage} \cup Slots, data : Lists]
           /\ Read(by, p).by = by /\ Read(by, p).data = Listing(p)
<1>1. Listing(p) \in Lists
  BY DEF Listing, Lists, TypeOK
<1> QED
  BY <1>1 DEF Read

\* The end of an operation: a live handler fetches, another one ends.
LEMMA FetchEffect ==
    ASSUME TypeOK, NEW s \in Slots, job[s].op \in {"undo", "bulk", "all"}, FetchAfter(s)
    PROVE  /\ job' \in [Slots -> Jobs \cup {Idle}]
           /\ \A t \in Slots \ {s} : job'[t] = job[t]
           /\ job[s].live =>
                /\ job'[s] \in Jobs /\ job'[s].live /\ job'[s].op = job[s].op
                /\ job'[s].todo = job[s].todo /\ job'[s].cur = job[s].cur
                /\ job'[s].stage = "fetching"
                /\ reads' = reads \cup {Read(s, page)} /\ loading' = TRUE
           /\ ~job[s].live => job'[s] = Idle /\ UNCHANGED <<reads, loading, dialog>>
           /\ dialog' \in {dialog, NoDialog}
<1>1. CASE job[s].live
  BY <1>1, StepEffect DEF FetchAfter
<1>2. CASE ~job[s].live
  BY <1>2, EndEffect DEF FetchAfter
<1> QED
  BY <1>1, <1>2

-----------------------------------------------------------------------------
(* Types *)

LEMMA TypeInit == Init => TypeOK
<1>1. Empty \in Lists
  BY DEF Empty, Lists
<1>2. 0 \in 0 .. MaxFaults
  BY FaultsAssumption
<1>3. NoDialog \in [kind : {"none", "undo", "all", "bulk", "stray"}, of : Actions \cup {NoAct}]
  BY DEF NoDialog
<1> QED
  BY <1>1, <1>2, <1>3 DEF Init, TypeOK

LEMMA RowType ==
    ASSUME TypeOK, NEW a \in Actions, NEW st \in Status, row' = [row EXCEPT ![a] = st]
    PROVE  row' \in Lists
BY DEF TypeOK, Lists

LEMMA FaultType ==
    ASSUME TypeOK, Fault
    PROVE  faults' \in 0 .. MaxFaults
BY FaultsAssumption DEF TypeOK, Fault

\* Undoing a row, or failing to, keeps the types of the manager's part.
LEMMA RevertsType ==
    ASSUME TypeOK, NEW a \in Actions, Reverts(a) \/ RevertRaises(a)
    PROVE  row' \in Lists /\ undone' \subseteq Actions /\ wasApplied' \subseteq Actions
<1>1. CASE Reverts(a)
  BY <1>1, RowType DEF Reverts, TypeOK, Status
<1>2. CASE RevertRaises(a)
  BY <1>2, RowType DEF RevertRaises, TypeOK, Status
<1> QED
  BY <1>1, <1>2

LEMMA TypeManager ==
    ASSUME TypeOK, Manager
    PROVE  TypeOK'
<1> USE DEF server, screen
<1>1. ASSUME NEW a \in Actions, Create(a) PROVE TypeOK'
  BY <1>1, RowType DEF Create, TypeOK, Status
<1>2. ASSUME NEW a \in Actions, AutoRollback(a) PROVE TypeOK'
  BY <1>2, RevertsType DEF AutoRollback, TypeOK
<1>3. ASSUME NEW a \in Actions, NEW v \in {"applied", "failed"}, Report(a, v) PROVE TypeOK'
  BY <1>3, RowType DEF Report, TypeOK, Status
<1>4. ASSUME NEW s \in Slots, ServeUndo(s) PROVE TypeOK'
  <2>1. job' \in [Slots -> Jobs \cup {Idle}]
    BY <1>4, StepEffect DEF ServeUndo
  <2>2. faults' \in 0 .. MaxFaults
    BY <1>4, FaultType DEF ServeUndo, TypeOK, RevertRaises
  <2>3. row' \in Lists /\ undone' \subseteq Actions /\ wasApplied' \subseteq Actions
    BY <1>4, RevertsType DEF ServeUndo, TypeOK, Applied
  <2> QED
    BY <1>4, <2>1, <2>2, <2>3 DEF ServeUndo, TypeOK
<1>5. ASSUME NEW s \in Slots, SelectAllOfHost(s) PROVE TypeOK'
  <2>1. job[s] \in Jobs
    BY <1>5, JobType DEF SelectAllOfHost
  <2>2. job' \in [Slots -> Jobs \cup {Idle}]
    BY <1>5, <2>1 DEF SelectAllOfHost, TypeOK, Jobs, Applied
  <2> QED
    BY <1>5, <2>2 DEF SelectAllOfHost, TypeOK
<1>6. ASSUME NEW s \in Slots, AnswerAll(s) PROVE TypeOK'
  <2>1. job' \in [Slots -> Jobs \cup {Idle}]
    BY <1>6, StepEffect DEF AnswerAll
  <2>2. faults' \in 0 .. MaxFaults
    BY <1>6, FaultType DEF AnswerAll, TypeOK
  <2> QED
    BY <1>6, <2>1, <2>2 DEF AnswerAll, TypeOK
<1>7. ASSUME NEW s \in Slots, NEW a \in Actions, ServeNextOfHost(s, a) PROVE TypeOK'
  <2>1. job[s] \in Jobs
    BY <1>7, JobType DEF ServeNextOfHost
  <2>2. job' \in [Slots -> Jobs \cup {Idle}]
    BY <1>7, <2>1 DEF ServeNextOfHost, TypeOK, Jobs
  <2>3. faults' \in 0 .. MaxFaults
    BY <1>7, FaultType DEF ServeNextOfHost, TypeOK, RevertRaises
  <2>4. row' \in Lists /\ undone' \subseteq Actions /\ wasApplied' \subseteq Actions
    BY <1>7, RevertsType DEF ServeNextOfHost
  <2> QED
    BY <1>7, <2>2, <2>3, <2>4 DEF ServeNextOfHost, TypeOK
<1> QED
  BY <1>1, <1>2, <1>3, <1>4, <1>5, <1>6, <1>7 DEF Manager

LEMMA TypeScreen ==
    ASSUME TypeOK,
           \/ \E p \in Pages : Mount(p)
           \/ Unmount \/ Refresh \/ Poll \/ OpenUndoAll \/ OpenBulk \/ Cancel \/ ClearSelection
           \/ ConfirmUndoOnHistory
           \/ \E a \in Actions : OpenUndo(a) \/ ToggleSelect(a)
           \/ \E F \in Narrowings : SelectAll(F)
    PROVE  TypeOK'
<1> USE DEF server, screen, StillScreen, Open
<1>r. \A p \in Pages : \A by \in {ByPage, ByTimer} :
          Read(by, p) \in [by : {ByTimer, ByPage} \cup Slots, data : Lists]
  BY ReadType
<1>e. Empty \in Lists
  BY DEF Empty, Lists
<1>d. NoDialog \in [kind : {"none", "undo", "all", "bulk", "stray"}, of : Actions \cup {NoAct}]
  BY DEF NoDialog
<1>1. ASSUME NEW p \in Pages, Mount(p) PROVE TypeOK'
  BY <1>1, <1>r DEF Mount, TypeOK
<1>2. ASSUME Unmount PROVE TypeOK'
  <2>1. job' \in [Slots -> Jobs \cup {Idle}]
    BY <1>2, UnmountEffect
  <2> QED
    BY <1>2, <2>1, <1>e, <1>d DEF Unmount, TypeOK
<1>3. ASSUME Refresh \/ Poll PROVE TypeOK'
  BY <1>3, <1>r DEF Refresh, Poll, TypeOK, Pages
<1>4. ASSUME OpenUndoAll \/ OpenBulk \/ Cancel \/ ClearSelection \/ ConfirmUndoOnHistory
      PROVE  TypeOK'
  BY <1>4, <1>d DEF OpenUndoAll, OpenBulk, Cancel, ClearSelection, ConfirmUndoOnHistory, TypeOK
<1>5. ASSUME NEW a \in Actions, OpenUndo(a) \/ ToggleSelect(a) PROVE TypeOK'
  BY <1>5 DEF OpenUndo, ToggleSelect, TypeOK
<1>6. ASSUME NEW F \in Narrowings, SelectAll(F) PROVE TypeOK'
  BY <1>6 DEF SelectAll, Narrowings, TypeOK
<1> QED
  BY <1>1, <1>2, <1>3, <1>4, <1>5, <1>6

\* What a confirmation starts.
LEMMA ConfirmStarts ==
    ASSUME TypeOK, NEW s \in Slots,
           ConfirmUndo(s) \/ ConfirmStray(s) \/ ConfirmUndoAll(s) \/ ConfirmBulk(s)
    PROVE  \E op \in {"undo", "bulk", "all"}, a \in Actions \cup {NoAct}, todo \in SUBSET Actions :
               /\ Start(s, op, a, todo)
               /\ op = "bulk" => dialog.kind = "bulk" /\ todo \cup {a} \subseteq selected
               /\ op # "bulk" => ~Submitting(op, a)
               /\ op = "all" => dialog.kind = "all" /\ a = NoAct
               /\ op = "undo" => \/ dialog.kind = "undo" /\ dialog.of = a
                                 \/ dialog.kind = "stray"
<1>1. CASE ConfirmUndo(s)
  <2>1. dialog.of \in Actions \cup {NoAct}
    BY DEF TypeOK
  <2> QED
    BY <1>1, <2>1 DEF ConfirmUndo
<1>2. CASE ConfirmStray(s) \/ ConfirmUndoAll(s)
  BY <1>2 DEF ConfirmStray, ConfirmUndoAll
<1>3. CASE ConfirmBulk(s)
  <2>1. PICK a \in selected : Start(s, "bulk", a, selected \ {a})
    BY <1>3 DEF ConfirmBulk
  <2> QED
    BY <1>3, <2>1 DEF ConfirmBulk, TypeOK
<1> QED
  BY <1>1, <1>2, <1>3

LEMMA TypeConfirm ==
    ASSUME TypeOK, NEW s \in Slots,
           ConfirmUndo(s) \/ ConfirmStray(s) \/ ConfirmUndoAll(s) \/ ConfirmBulk(s)
    PROVE  TypeOK'
<1>1. PICK op \in {"undo", "bulk", "all"}, a \in Actions \cup {NoAct}, todo \in SUBSET Actions :
          Start(s, op, a, todo)
  BY ConfirmStarts
<1>2. /\ job' \in [Slots -> Jobs \cup {Idle}] /\ actionLoading' = TRUE
      /\ UNCHANGED <<server, page, list, loading, dialog, selected, reads, faults>>
  BY <1>1, StartEffect
<1> QED
  BY <1>2 DEF server, TypeOK

LEMMA TypeAnswers ==
    ASSUME TypeOK, NEW s \in Slots,
           \/ UndoAnswered(s) \/ UndoAllAnswered(s) \/ BulkAnswered(s) \/ OperationFailed(s)
           \/ \E r \in reads : OperationEnds(s, r)
    PROVE  TypeOK'
<1> USE DEF server
<1>d. NoDialog \in [kind : {"none", "undo", "all", "bulk", "stray"}, of : Actions \cup {NoAct}]
  BY DEF NoDialog
<1>f. ASSUME job[s].op \in {"undo", "bulk", "all"}, FetchAfter(s)
      PROVE  /\ job' \in [Slots -> Jobs \cup {Idle}]
             /\ dialog' \in [kind : {"none", "undo", "all", "bulk", "stray"},
                             of : Actions \cup {NoAct}]
             /\ loading' \in BOOLEAN
             /\ reads' \subseteq [by : {ByTimer, ByPage} \cup Slots, data : Lists]
  <2>1. job[s].live \in BOOLEAN
    BY <1>f, JobType DEF Jobs
  <2>2. Read(s, page) \in [by : {ByTimer, ByPage} \cup Slots, data : Lists]
    BY ReadType
  <2>3. /\ job' \in [Slots -> Jobs \cup {Idle}]
        /\ dialog' \in {dialog, NoDialog}
        /\ \/ reads' = reads \cup {Read(s, page)} /\ loading' = TRUE
           \/ UNCHANGED <<reads, loading>>
    BY <1>f, <2>1, FetchEffect
  <2> QED
    BY <1>d, <2>2, <2>3 DEF TypeOK
<1>1. CASE UndoAnswered(s)
  <2>1. list' \in Lists
    BY <1>1 DEF UndoAnswered, ShowReverted, TypeOK, Lists, Status
  <2> QED
    BY <1>1, <2>1, <1>f DEF UndoAnswered, TypeOK
<1>2. CASE UndoAllAnswered(s)
  BY <1>2, <1>f DEF UndoAllAnswered, TypeOK
<1>3. CASE BulkAnswered(s)
  <2>1. CASE FetchAfter(s)
    BY <1>3, <2>1, <1>f DEF BulkAnswered, TypeOK
  <2>2. CASE \E a \in job[s].todo :
               job' = [job EXCEPT ![s].cur = a, ![s].todo = @ \ {a}, ![s].stage = "sent"]
    <3>1. job[s] \in Jobs
      BY <1>3, JobType DEF BulkAnswered
    <3>2. job' \in [Slots -> Jobs \cup {Idle}]
      BY <2>2, <3>1 DEF TypeOK, Jobs
    <3>3. UNCHANGED <<loading, dialog, reads>> \/ FetchAfter(s)
      BY <1>3 DEF BulkAnswered
    <3> QED
      BY <1>3, <3>2, <3>3, <2>1 DEF BulkAnswered, TypeOK
  <2> QED
    BY <1>3, <2>1, <2>2 DEF BulkAnswered
<1>4. CASE OperationFailed(s)
  BY <1>4, <1>d, EndEffect DEF OperationFailed, TypeOK
<1>5. ASSUME NEW r \in reads, OperationEnds(s, r) PROVE TypeOK'
  <2>1. job' \in [Slots -> Jobs \cup {Idle}]
    BY <1>5, EndEffect DEF OperationEnds
  <2>2. faults' \in 0 .. MaxFaults
    BY <1>5, FaultType DEF OperationEnds, TypeOK
  <2>3. list' \in Lists /\ reads' \subseteq reads
    BY <1>5 DEF OperationEnds, TypeOK
  <2>4. selected' \subseteq Actions /\ dialog' \in {dialog, NoDialog}
    BY <1>5 DEF OperationEnds, TypeOK
  <2>5. UNCHANGED <<server, page>> /\ loading' = FALSE /\ actionLoading' = FALSE
    BY <1>5 DEF OperationEnds
  <2> QED
    BY <1>d, <2>1, <2>2, <2>3, <2>4, <2>5 DEF TypeOK
<1> QED
  BY <1>1, <1>2, <1>3, <1>4, <1>5

\* Every step keeps the types.
LEMMA TypeStep ==
    ASSUME TypeOK, [Next]_vars
    PROVE  TypeOK'
<1>1. ASSUME NEW r \in reads, Deliver(r) \/ LoseRead(r) PROVE TypeOK'
  BY <1>1, FaultType DEF Deliver, LoseRead, TypeOK, server, screen
<1>2. CASE UNCHANGED vars
  BY <1>2 DEF vars, server, screen, TypeOK
<1> QED
  BY <1>1, <1>2, TypeManager, TypeScreen, TypeConfirm, TypeAnswers DEF Next, Staff, Browser

-----------------------------------------------------------------------------
(* What is shown, ticked and undone *)

LEMMA TrueInit == TypeOK /\ Init => TrueInv
<1>1. Truthful(Empty, {}, {})
  BY DEF Truthful, Empty, Absent
<1>2. JobIsTrue(Idle, {}, {})
  BY DEF JobIsTrue, Idle
<1> QED
  BY <1>1, <1>2 DEF Init, TrueInv, CopiesAreTrue, JobsAreTrue, UndoneWereApplied

\* What happened stays happened.
Grows == undone \subseteq undone' /\ wasApplied \subseteq wasApplied'

LEMMA StaysTruthful ==
    ASSUME NEW l, Truthful(l, wasApplied, undone), Grows
    PROVE  Truthful(l, wasApplied', undone')
BY DEF Truthful, Grows

LEMMA JobStaysTrue ==
    ASSUME NEW j, JobIsTrue(j, wasApplied, undone), Grows
    PROVE  JobIsTrue(j, wasApplied', undone')
BY DEF JobIsTrue, Grows

\* A step of the manager: the rows agree with what has happened, before and
\* after, and the handlers other than s are left alone.
RowsStayTrue == Grows /\ Truthful(row', wasApplied', undone') /\ undone' \subseteq wasApplied'

LEMMA ManagerKeepsTrue ==
    ASSUME TrueInv, RowsStayTrue, UNCHANGED <<screen, reads>>,
           \A s \in Slots : job'[s] = job[s] \/ JobIsTrue(job'[s], wasApplied', undone')
    PROVE  TrueInv'
<1>1. JobsAreTrue'
  BY JobStaysTrue DEF TrueInv, JobsAreTrue, RowsStayTrue
<1>2. CopiesAreTrue'
  <2>1. Truthful(list, wasApplied', undone')
    BY StaysTruthful DEF TrueInv, CopiesAreTrue, RowsStayTrue
  <2>2. \A r \in reads : Truthful(r.data, wasApplied', undone')
    BY StaysTruthful DEF TrueInv, CopiesAreTrue, RowsStayTrue
  <2> QED
    BY <2>1, <2>2 DEF CopiesAreTrue, RowsStayTrue, screen
<1> QED
  BY <1>1, <1>2 DEF TrueInv, RowsStayTrue, Grows, UndoneWereApplied, screen

\* Undoing an action that was applied, and an undo that raises.
LEMMA RevertsTrue ==
    ASSUME TypeOK, TrueInv, NEW a \in wasApplied, Reverts(a) \/ RevertRaises(a)
    PROVE  RowsStayTrue
<1>1. a \in Actions /\ row \in Lists
  BY DEF TypeOK
<1>2. Truthful(row, wasApplied, undone) /\ undone \subseteq wasApplied
  BY DEF TrueInv, CopiesAreTrue, UndoneWereApplied
<1>3. CASE Reverts(a)
  BY <1>1, <1>2, <1>3 DEF Reverts, RowsStayTrue, Grows, Truthful, Lists
<1>4. CASE RevertRaises(a)
  BY <1>1, <1>2, <1>4 DEF RevertRaises, RowsStayTrue, Grows, Truthful, Lists
<1> QED
  BY <1>3, <1>4

LEMMA AppliedTrue ==
    ASSUME TrueInv
    PROVE  Applied \subseteq wasApplied
BY DEF Applied, TrueInv, CopiesAreTrue, Truthful

LEMMA SameRows ==
    ASSUME TrueInv, UNCHANGED server
    PROVE  RowsStayTrue
BY DEF TrueInv, CopiesAreTrue, UndoneWereApplied, RowsStayTrue, Grows, server

LEMMA TrueManager ==
    ASSUME TypeOK, TrueInv, Manager
    PROVE  TrueInv'
<1> USE DEF server
<1>1. ASSUME NEW a \in Actions, Create(a) PROVE TrueInv'
  <2>1. RowsStayTrue
    BY <1>1 DEF Create, TypeOK, Lists, TrueInv, CopiesAreTrue, UndoneWereApplied,
                RowsStayTrue, Grows, Truthful
  <2> QED
    BY <1>1, <2>1, ManagerKeepsTrue DEF Create
<1>2. ASSUME NEW a \in Actions, AutoRollback(a) PROVE TrueInv'
  <2>1. RowsStayTrue
    BY <1>2, AppliedTrue, RevertsTrue DEF AutoRollback
  <2> QED
    BY <1>2, <2>1, ManagerKeepsTrue DEF AutoRollback
<1>3. ASSUME NEW a \in Actions, NEW v \in {"applied", "failed"}, Report(a, v) PROVE TrueInv'
  <2>1. RowsStayTrue
    BY <1>3 DEF Report, TypeOK, Lists, TrueInv, CopiesAreTrue, UndoneWereApplied,
                RowsStayTrue, Grows, Truthful
  <2> QED
    BY <1>3, <2>1, ManagerKeepsTrue DEF Report
<1>4. ASSUME NEW s \in Slots, ServeUndo(s) PROVE TrueInv'
  <2>1. RowsStayTrue
    BY <1>4, AppliedTrue, RevertsTrue, SameRows DEF ServeUndo
  <2>2. PICK stage \in {"ok", "err"} :
           /\ Step(s, stage)
           /\ stage = "ok" => job[s].cur \in undone'
    BY <1>4 DEF ServeUndo, Reverts
  <2>3. /\ \A t \in Slots \ {s} : job'[t] = job[t]
        /\ job'[s].op = job[s].op /\ job'[s].todo = job[s].todo
        /\ job'[s].cur = job[s].cur /\ job'[s].stage = stage
    BY <1>4, <2>2, StepEffect DEF ServeUndo
  <2>4. JobIsTrue(job[s], wasApplied', undone')
    BY <2>1, JobStaysTrue DEF TrueInv, JobsAreTrue, RowsStayTrue
  <2>5. JobIsTrue(job'[s], wasApplied', undone')
    BY <1>4, <2>2, <2>3, <2>4 DEF JobIsTrue, ServeUndo
  <2> QED
    BY <1>4, <2>1, <2>3, <2>5, ManagerKeepsTrue DEF ServeUndo
<1>5. ASSUME NEW s \in Slots, SelectAllOfHost(s) PROVE TrueInv'
  <2>1. job[s] \in Jobs
    BY <1>5, JobType DEF SelectAllOfHost
  <2>2. /\ \A t \in Slots \ {s} : job'[t] = job[t]
        /\ job'[s].op = "all" /\ job'[s].todo = Applied \cap OnHost
    BY <1>5, <2>1 DEF SelectAllOfHost, TypeOK, Jobs
  <2>3. JobIsTrue(job'[s], wasApplied', undone')
    BY <1>5, <2>2, AppliedTrue DEF JobIsTrue, SelectAllOfHost
  <2> QED
    BY <1>5, <2>2, <2>3, SameRows, ManagerKeepsTrue DEF SelectAllOfHost
<1>6. ASSUME NEW s \in Slots, AnswerAll(s) PROVE TrueInv'
  <2>1. /\ \A t \in Slots \ {s} : job'[t] = job[t]
        /\ job'[s].op = "all" /\ job'[s].stage \in {"ok", "err"}
    BY <1>6, StepEffect DEF AnswerAll
  <2>2. JobIsTrue(job'[s], wasApplied', undone')
    BY <2>1 DEF JobIsTrue
  <2> QED
    BY <1>6, <2>1, <2>2, SameRows, ManagerKeepsTrue DEF AnswerAll
<1>7. ASSUME NEW s \in Slots, NEW a \in Actions, ServeNextOfHost(s, a) PROVE TrueInv'
  <2>1. job[s] \in Jobs
    BY <1>7, JobType DEF ServeNextOfHost
  <2>2. /\ \A t \in Slots \ {s} : job'[t] = job[t]
        /\ job'[s].op = "all" /\ job'[s].todo = job[s].todo \ {a}
    BY <1>7, <2>1 DEF ServeNextOfHost, TypeOK, Jobs
  <2>3. job[s].todo \subseteq wasApplied
    BY <1>7 DEF ServeNextOfHost, TrueInv, JobsAreTrue, JobIsTrue
  <2>4. RowsStayTrue
    BY <1>7, <2>3, RevertsTrue DEF ServeNextOfHost
  <2>5. JobIsTrue(job'[s], wasApplied', undone')
    BY <2>2, <2>3, <2>4 DEF JobIsTrue, RowsStayTrue, Grows
  <2> QED
    BY <1>7, <2>2, <2>4, <2>5, ManagerKeepsTrue DEF ServeNextOfHost
<1> QED
  BY <1>1, <1>2, <1>3, <1>4, <1>5, <1>6, <1>7 DEF Manager

\* A step of the browser: what is shown and ticked afterwards was shown and
\* ticked before, or comes from a listing.
LEMMA ScreenKeepsTrue ==
    ASSUME TrueInv, UNCHANGED server,
           Truthful(list', wasApplied, undone),
           \A r \in reads' : r \in reads \/ Truthful(r.data, wasApplied, undone),
           selected' \subseteq wasApplied,
           \A s \in Slots : job'[s] = job[s] \/ JobIsTrue(job'[s], wasApplied, undone)
    PROVE  TrueInv'
BY DEF TrueInv, CopiesAreTrue, JobsAreTrue, UndoneWereApplied, server

\* A listing claims nothing but what the rows say.
LEMMA ReadTrue ==
    ASSUME TypeOK, TrueInv, NEW by \in {ByTimer, ByPage} \cup Slots, NEW p
    PROVE  Truthful(Read(by, p).data, wasApplied, undone)
<1>1. Read(by, p).data = Listing(p)
  BY ReadType
<1>2. \A a \in Actions : Listing(p)[a] \in {row[a], Absent}
  BY DEF Listing
<1> QED
  BY <1>1, <1>2 DEF TrueInv, CopiesAreTrue, Truthful, Absent

LEMMA TrueScreen ==
    ASSUME TypeOK, TrueInv,
           \/ \E p \in Pages : Mount(p)
           \/ Unmount \/ Refresh \/ Poll \/ OpenUndoAll \/ OpenBulk \/ Cancel \/ ClearSelection
           \/ ConfirmUndoOnHistory
           \/ \E a \in Actions : OpenUndo(a) \/ ToggleSelect(a)
           \/ \E F \in Narrowings : SelectAll(F)
    PROVE  TrueInv'
<1> USE DEF screen, StillScreen
<1>l. Truthful(list, wasApplied, undone) /\ selected \subseteq wasApplied
  BY DEF TrueInv, CopiesAreTrue
<1>a. \A a \in Actions : Selectable(a) => a \in wasApplied
  BY <1>l DEF Selectable, Truthful
<1>1. ASSUME NEW p \in Pages, Mount(p) PROVE TrueInv'
  <2>1. Truthful(Read(ByPage, p).data, wasApplied, undone)
    BY ReadTrue
  <2> QED
    BY <1>1, <1>l, <2>1, ScreenKeepsTrue DEF Mount
<1>2. ASSUME Unmount PROVE TrueInv'
  <2>1. Truthful(Empty, wasApplied, undone)
    BY DEF Truthful, Empty, Absent
  <2>2. ASSUME NEW s \in Slots PROVE JobIsTrue(job'[s], wasApplied, undone)
    <3>1. JobIsTrue(job[s], wasApplied, undone)
      BY DEF TrueInv, JobsAreTrue
    <3>2. CASE job'[s] = Idle
      BY <3>2 DEF JobIsTrue, Idle
    <3>3. CASE job'[s] # Idle
      <4>1. /\ job'[s].op = job[s].op /\ job'[s].todo = job[s].todo
            /\ job'[s].cur = job[s].cur /\ job'[s].stage = job[s].stage
        BY <1>2, <3>3, UnmountEffect
      <4> QED
        BY <3>1, <4>1 DEF JobIsTrue
    <3> QED
      BY <3>2, <3>3
  <2> QED
    BY <1>2, <2>1, <2>2, ScreenKeepsTrue DEF Unmount
<1>3. ASSUME Refresh \/ Poll PROVE TrueInv'
  <2>1. \A by \in {ByPage, ByTimer} : Truthful(Read(by, "history").data, wasApplied, undone)
    BY ReadTrue
  <2> QED
    BY <1>3, <1>l, <2>1, ScreenKeepsTrue DEF Refresh, Poll
<1>4. ASSUME OpenUndoAll \/ OpenBulk \/ Cancel \/ ClearSelection \/ ConfirmUndoOnHistory
      PROVE  TrueInv'
  BY <1>4, <1>l, ScreenKeepsTrue
  DEF OpenUndoAll, OpenBulk, Cancel, ClearSelection, ConfirmUndoOnHistory
<1>5. ASSUME NEW a \in Actions, OpenUndo(a) \/ ToggleSelect(a) PROVE TrueInv'
  <2>1. selected' \subseteq wasApplied
    BY <1>5, <1>l, <1>a DEF OpenUndo, ToggleSelect
  <2> QED
    BY <1>5, <1>l, <2>1, ScreenKeepsTrue DEF OpenUndo, ToggleSelect
<1>6. ASSUME NEW F \in Narrowings, SelectAll(F) PROVE TrueInv'
  <2>1. selected' \subseteq wasApplied
    BY <1>6, <1>a DEF SelectAll, Narrowings
  <2> QED
    BY <1>6, <1>l, <2>1, ScreenKeepsTrue DEF SelectAll
<1> QED
  BY <1>1, <1>2, <1>3, <1>4, <1>5, <1>6

LEMMA TrueConfirm ==
    ASSUME TypeOK, TrueInv, NEW s \in Slots,
           ConfirmUndo(s) \/ ConfirmStray(s) \/ ConfirmUndoAll(s) \/ ConfirmBulk(s)
    PROVE  TrueInv'
<1>1. PICK op \in {"undo", "bulk", "all"}, a \in Actions \cup {NoAct}, todo \in SUBSET Actions :
          Start(s, op, a, todo) /\ (op = "bulk" => todo \cup {a} \subseteq selected)
  BY ConfirmStarts
<1>2. /\ \A t \in Slots \ {s} : job'[t] = job[t]
      /\ job'[s].op = op /\ job'[s].todo = todo /\ job'[s].cur = a /\ job'[s].stage = "sent"
      /\ UNCHANGED <<server, page, list, loading, dialog, selected, reads, faults>>
  <2>1. Start(s, op, a, todo)
    BY <1>1
  <2> QED
    BY <2>1 DEF Start, TypeOK
<1>3. JobIsTrue(job'[s], wasApplied, undone)
  BY <1>1, <1>2 DEF JobIsTrue, TrueInv
<1> QED
  BY <1>2, <1>3, ScreenKeepsTrue DEF TrueInv, CopiesAreTrue

LEMMA TrueAnswers ==
    ASSUME TypeOK, TrueInv, NEW s \in Slots,
           \/ UndoAnswered(s) \/ UndoAllAnswered(s) \/ BulkAnswered(s) \/ OperationFailed(s)
           \/ \E r \in reads : OperationEnds(s, r)
    PROVE  TrueInv'
<1>l. Truthful(list, wasApplied, undone) /\ selected \subseteq wasApplied
  BY DEF TrueInv, CopiesAreTrue
<1>j. JobIsTrue(job[s], wasApplied, undone)
  BY DEF TrueInv, JobsAreTrue
<1>i. JobIsTrue(Idle, wasApplied, undone)
  BY DEF JobIsTrue, Idle
<1>f. ASSUME job[s].op \in {"undo", "bulk", "all"}, FetchAfter(s)
      PROVE  /\ \A t \in Slots : job'[t] = job[t] \/ JobIsTrue(job'[t], wasApplied, undone)
             /\ \A r \in reads' : r \in reads \/ Truthful(r.data, wasApplied, undone)
  <2>1. Truthful(Read(s, page).data, wasApplied, undone)
    BY ReadTrue
  <2>2. CASE job[s].live
    <3>1. /\ \A t \in Slots \ {s} : job'[t] = job[t]
          /\ job'[s].op = job[s].op /\ job'[s].todo = job[s].todo
          /\ job'[s].cur = job[s].cur /\ job'[s].stage = "fetching"
          /\ reads' = reads \cup {Read(s, page)}
      BY <1>f, <2>2, FetchEffect
    <3>2. JobIsTrue(job'[s], wasApplied, undone)
      BY <1>j, <3>1 DEF JobIsTrue
    <3> QED
      BY <2>1, <3>1, <3>2
  <2>3. CASE ~job[s].live
    BY <1>f, <1>i, <2>3, FetchEffect
  <2> QED
    BY <2>2, <2>3
<1>1. CASE UndoAnswered(s)
  <2>1. job[s].cur \in undone
    BY <1>1, <1>j DEF UndoAnswered, JobIsTrue
  <2>2. Truthful(list', wasApplied, undone)
    BY <1>1, <1>l, <2>1 DEF UndoAnswered, ShowReverted, Truthful, TypeOK, Lists
  <2> QED
    BY <1>1, <1>f, <1>l, <2>2, ScreenKeepsTrue DEF UndoAnswered
<1>2. CASE UndoAllAnswered(s)
  BY <1>2, <1>f, <1>l, ScreenKeepsTrue DEF UndoAllAnswered
<1>3. CASE BulkAnswered(s)
  <2>1. CASE FetchAfter(s)
    BY <1>3, <2>1, <1>f, <1>l, ScreenKeepsTrue DEF BulkAnswered
  <2>2. CASE ~FetchAfter(s)
    <3>1. /\ UNCHANGED reads
          /\ \E a \in job[s].todo :
               job' = [job EXCEPT ![s].cur = a, ![s].todo = @ \ {a}, ![s].stage = "sent"]
      BY <1>3, <2>2 DEF BulkAnswered
    <3>2. job[s] \in Jobs
      BY <1>3, JobType DEF BulkAnswered
    <3>3. PICK a \in job[s].todo :
              job' = [job EXCEPT ![s].cur = a, ![s].todo = @ \ {a}, ![s].stage = "sent"]
      BY <3>1
    <3>5. /\ \A t \in Slots \ {s} : job'[t] = job[t]
          /\ job'[s].op = "bulk" /\ job'[s].cur = a /\ job'[s].todo = job[s].todo \ {a}
      BY <1>3, <3>2, <3>3 DEF BulkAnswered, TypeOK, Jobs
    <3>4. JobIsTrue(job'[s], wasApplied, undone)
      BY <1>3, <1>j, <3>5 DEF BulkAnswered, JobIsTrue
    <3> QED
      BY <1>3, <1>l, <3>1, <3>4, <3>5, ScreenKeepsTrue DEF BulkAnswered
  <2> QED
    BY <2>1, <2>2
<1>4. CASE OperationFailed(s)
  <2>1. \A t \in Slots \ {s} : job'[t] = job[t]
    BY <1>4, EndEffect DEF OperationFailed
  <2>2. job'[s] = Idle
    BY <1>4, EndEffect DEF OperationFailed
  <2> QED
    BY <1>4, <1>l, <1>i, <2>1, <2>2, ScreenKeepsTrue DEF OperationFailed
<1>5. ASSUME NEW r \in reads, OperationEnds(s, r) PROVE TrueInv'
  <2>1. job'[s] = Idle /\ \A t \in Slots \ {s} : job'[t] = job[t]
    BY <1>5, EndEffect DEF OperationEnds
  <2>2. Truthful(list', wasApplied, undone)
    BY <1>5, <1>l DEF OperationEnds, TrueInv, CopiesAreTrue
  <2>3. selected' \subseteq wasApplied /\ reads' \subseteq reads /\ UNCHANGED server
    BY <1>5, <1>l DEF OperationEnds
  <2> QED
    BY <1>i, <2>1, <2>2, <2>3, ScreenKeepsTrue
<1> QED
  BY <1>1, <1>2, <1>3, <1>4, <1>5

LEMMA TrueStep ==
    ASSUME TypeOK, TrueInv, [Next]_vars
    PROVE  TrueInv'
<1>1. ASSUME NEW r \in reads, Deliver(r) \/ LoseRead(r) PROVE TrueInv'
  <2>1. Truthful(list', wasApplied, undone)
    BY <1>1 DEF Deliver, LoseRead, TrueInv, CopiesAreTrue
  <2> QED
    BY <1>1, <2>1, ScreenKeepsTrue DEF Deliver, LoseRead, TrueInv
<1>2. CASE UNCHANGED vars
  BY <1>2, ScreenKeepsTrue DEF vars, screen, TrueInv, CopiesAreTrue
<1> QED
  BY <1>1, <1>2, TrueManager, TrueScreen, TrueConfirm, TrueAnswers DEF Next, Staff, Browser

-----------------------------------------------------------------------------
(* Pages, dialogs and handlers *)

LEMMA DeskInit == Init => DeskInv
BY DEF Init, DeskInv, DialogsFitPage, HandlersFitPage, TimelineIsBusy, BusyMeansWorking,
       Runs, NoDialog, Idle, Pages

LEMMA IdleDoesNotRun ==
    ASSUME NEW s \in Slots, job'[s] = Idle
    PROVE  ~Runs(s)' /\ job'[s].op \notin {"undo", "bulk", "all"}
BY DEF Runs, Idle

LEMMA JobRuns ==
    ASSUME NEW s \in Slots, job'[s] \in Jobs
    PROVE  Runs(s)' <=> job'[s].live
BY NotIdle DEF Runs

\* The handlers are the same as before, only their requests get on.
SameHandlers ==
    \A s \in Slots :
        \/ job'[s] = job[s]
        \/ /\ job[s] \in Jobs /\ job'[s] \in Jobs
           /\ job'[s].live = job[s].live /\ job'[s].op = job[s].op
           /\ job'[s].cur = job[s].cur /\ job'[s].stage # "fetching"

LEMMA SameRuns ==
    ASSUME SameHandlers, NEW s \in Slots
    PROVE  /\ Runs(s)' <=> Runs(s)
           /\ Runs(s) => job'[s].op = job[s].op /\ job'[s].cur = job[s].cur
           /\ job'[s].stage = "fetching" /\ job'[s].op \in {"undo", "bulk", "all"} =>
                job[s].stage = "fetching" /\ job[s].op \in {"undo", "bulk", "all"}
BY NotIdle DEF SameHandlers, Runs

LEMMA HandlersKeepDesk ==
    ASSUME DeskInv, SameHandlers,
           UNCHANGED <<page, loading, actionLoading, dialog, selected, reads>>
    PROVE  DeskInv'
<1>1. DialogsFitPage'
  BY DEF DeskInv, DialogsFitPage
<1>2. HandlersFitPage'
  BY SameRuns DEF DeskInv, HandlersFitPage
<1>3. TimelineIsBusy'
  BY SameRuns DEF DeskInv, TimelineIsBusy
<1>4. BusyMeansWorking'
  BY SameRuns DEF DeskInv, BusyMeansWorking, Runs
<1> QED
  BY <1>1, <1>2, <1>3, <1>4 DEF DeskInv

LEMMA DeskManager ==
    ASSUME TypeOK, DeskInv, Manager
    PROVE  DeskInv'
<1> USE DEF screen
<1>1. ASSUME NEW a \in Actions,
             \/ Create(a) \/ AutoRollback(a)
             \/ \E v \in {"applied", "failed"} : Report(a, v)
      PROVE  DeskInv'
  BY <1>1, HandlersKeepDesk DEF Create, AutoRollback, Report, SameHandlers
<1>2. ASSUME NEW s \in Slots, ServeUndo(s) \/ AnswerAll(s) PROVE DeskInv'
  <2>1. PICK stage \in {"ok", "err"} : Step(s, stage)
    BY <1>2 DEF ServeUndo, AnswerAll
  <2>2. job[s].op \in {"undo", "bulk", "all"}
    BY <1>2 DEF ServeUndo, AnswerAll
  <2>3. SameHandlers
    BY <2>1, <2>2, StepEffect, JobType DEF SameHandlers
  <2> QED
    BY <1>2, <2>3, HandlersKeepDesk DEF ServeUndo, AnswerAll
<1>3. ASSUME NEW s \in Slots,
             SelectAllOfHost(s) \/ \E a \in Actions : ServeNextOfHost(s, a)
      PROVE  DeskInv'
  <2>1. job[s] \in Jobs
    BY <1>3, JobType DEF SelectAllOfHost, ServeNextOfHost
  <2>2. CASE SelectAllOfHost(s)
    <3>1. SameHandlers
      BY <2>1, <2>2 DEF SelectAllOfHost, SameHandlers, TypeOK, Jobs, Applied
    <3> QED
      BY <2>2, <3>1, HandlersKeepDesk DEF SelectAllOfHost
  <2>3. ASSUME NEW a \in Actions, ServeNextOfHost(s, a) PROVE DeskInv'
    <3>1. SameHandlers
      BY <2>1, <2>3 DEF ServeNextOfHost, SameHandlers, TypeOK, Jobs
    <3> QED
      BY <2>3, <3>1, HandlersKeepDesk DEF ServeNextOfHost
  <2> QED
    BY <1>3, <2>2, <2>3
<1> QED
  BY <1>1, <1>2, <1>3 DEF Manager

\* The handlers are untouched.
LEMMA SameJobs ==
    ASSUME UNCHANGED job
    PROVE  SameHandlers /\ \A s \in Slots : Runs(s)' <=> Runs(s)
BY DEF SameHandlers, Runs

\* No dialog of a timeline can be opened while one of its handlers runs.
LEMMA TimelineQuiet ==
    ASSUME DeskInv, page = "timeline", ~actionLoading, NEW s \in Slots
    PROVE  ~Runs(s)
BY DEF DeskInv, TimelineIsBusy

LEMMA DeskScreen ==
    ASSUME TypeOK, DeskInv,
           \/ \E p \in Pages : Mount(p)
           \/ Unmount \/ Refresh \/ Poll \/ OpenUndoAll \/ OpenBulk \/ Cancel \/ ClearSelection
           \/ ConfirmUndoOnHistory
           \/ \E a \in Actions : OpenUndo(a) \/ ToggleSelect(a)
           \/ \E F \in Narrowings : SelectAll(F)
    PROVE  DeskInv'
<1> USE DEF screen
<1>b. ByPage # ByTimer
  BY DEF ByPage, ByTimer
<1>1. ASSUME NEW p \in Pages, Mount(p) PROVE DeskInv'
  <2>1. UNCHANGED <<job, dialog, selected, actionLoading>> /\ page' = p /\ page = "none"
    BY <1>1 DEF Mount
  <2>2. \A s \in Slots : ~Runs(s) /\ ~Runs(s)'
    BY <2>1, SameJobs DEF DeskInv, HandlersFitPage
  <2>3. DialogsFitPage'
    BY <2>1 DEF DeskInv, DialogsFitPage
  <2>4. HandlersFitPage' /\ TimelineIsBusy'
    BY <2>1, <2>2 DEF DeskInv, HandlersFitPage, TimelineIsBusy
  <2>5. BusyMeansWorking'
    <3>1. Read(ByPage, p) \in reads' /\ Read(ByPage, p).by = ByPage
      BY <1>1, ReadType DEF Mount
    <3> QED
      BY <1>b, <2>1, <3>1 DEF DeskInv, BusyMeansWorking
  <2> QED
    BY <2>3, <2>4, <2>5 DEF DeskInv
<1>2. ASSUME Unmount PROVE DeskInv'
  <2>1. \A s \in Slots : ~Runs(s)'
    BY <1>2, UnmountEffect, IdleDoesNotRun, JobRuns
  <2>2. \A s \in Slots : job'[s].op \in {"undo", "bulk", "all"} => job'[s].stage # "fetching"
    BY <1>2, UnmountEffect, IdleDoesNotRun
  <2>3. HandlersFitPage' /\ TimelineIsBusy'
    BY <2>1, <2>2 DEF HandlersFitPage, TimelineIsBusy
  <2>4. DialogsFitPage' /\ BusyMeansWorking'
    BY <1>2 DEF Unmount, DialogsFitPage, BusyMeansWorking, NoDialog
  <2> QED
    BY <2>3, <2>4 DEF DeskInv
<1>3. ASSUME Refresh \/ Poll PROVE DeskInv'
  <2>1. UNCHANGED <<job, page, dialog, selected, actionLoading>>
    BY <1>3 DEF Refresh, Poll
  <2>2. DialogsFitPage' /\ HandlersFitPage' /\ TimelineIsBusy'
    BY <2>1 DEF DeskInv, DialogsFitPage, HandlersFitPage, TimelineIsBusy, Runs
  <2>3. CASE Refresh
    <3>1. Read(ByPage, "history") \in reads' /\ Read(ByPage, "history").by = ByPage
      BY <2>3, ReadType DEF Refresh
    <3> QED
      BY <1>b, <2>1, <2>2, <3>1 DEF DeskInv, BusyMeansWorking
  <2>4. CASE Poll
    <3>1. reads \subseteq reads' /\ UNCHANGED loading
      BY <2>4 DEF Poll
    <3> QED
      BY <2>1, <2>2, <3>1 DEF DeskInv, BusyMeansWorking
  <2> QED
    BY <1>3, <2>3, <2>4
\* The remaining steps only touch the dialog and the ticks.
<1>k. ASSUME StillScreen, DialogsFitPage', TimelineIsBusy' PROVE DeskInv'
  BY <1>k DEF DeskInv, StillScreen, HandlersFitPage, BusyMeansWorking, Runs
<1>t. ASSUME StillScreen, dialog' \in {dialog, NoDialog} \/ page # "timeline" PROVE TimelineIsBusy'
  BY <1>t DEF DeskInv, StillScreen, TimelineIsBusy, Runs
<1>q. ASSUME StillScreen, ~actionLoading PROVE TimelineIsBusy'
  BY <1>q, TimelineQuiet DEF StillScreen, TimelineIsBusy, Runs
<1>4. ASSUME OpenUndoAll PROVE DeskInv'
  <2>1. DialogsFitPage' /\ TimelineIsBusy'
    BY <1>4, <1>q DEF OpenUndoAll, CanUndoAll, Open, StillScreen, DeskInv, DialogsFitPage
  <2> QED
    BY <1>4, <1>k, <2>1 DEF OpenUndoAll
<1>5. ASSUME OpenBulk PROVE DeskInv'
  <2>1. DialogsFitPage' /\ TimelineIsBusy'
    BY <1>5, <1>t DEF OpenBulk, Open, StillScreen, DeskInv, DialogsFitPage
  <2> QED
    BY <1>5, <1>k, <2>1 DEF OpenBulk
<1>6. ASSUME Cancel \/ ClearSelection PROVE DeskInv'
  <2>1. DialogsFitPage' /\ TimelineIsBusy'
    BY <1>6, <1>t DEF Cancel, ClearSelection, StillScreen, DeskInv, DialogsFitPage, NoDialog
  <2> QED
    BY <1>6, <1>k, <2>1 DEF Cancel, ClearSelection
<1>7. ASSUME ConfirmUndoOnHistory PROVE DeskInv'
  <2>1. DialogsFitPage' /\ TimelineIsBusy'
    BY <1>7, <1>t DEF ConfirmUndoOnHistory, Open, StillScreen, DeskInv, DialogsFitPage
  <2> QED
    BY <1>7, <1>k, <2>1 DEF ConfirmUndoOnHistory
<1>8. ASSUME NEW a \in Actions, OpenUndo(a) PROVE DeskInv'
  <2>1. DialogsFitPage'
    BY <1>8 DEF OpenUndo, Open, StillScreen, DeskInv, DialogsFitPage
  <2>2. TimelineIsBusy'
    BY <1>8, <1>q, <1>t DEF OpenUndo, CanUndo
  <2> QED
    BY <1>8, <1>k, <2>1, <2>2 DEF OpenUndo
<1>9. ASSUME \/ \E a \in Actions : ToggleSelect(a)
             \/ \E F \in Narrowings : SelectAll(F)
      PROVE  DeskInv'
  <2>1. page = "history" /\ StillScreen /\ UNCHANGED dialog
    BY <1>9 DEF ToggleSelect, SelectAll
  <2>2. DialogsFitPage' /\ TimelineIsBusy'
    BY <2>1, <1>t DEF StillScreen, DeskInv, DialogsFitPage
  <2> QED
    BY <1>k, <2>1, <2>2
<1> QED
  BY <1>1, <1>2, <1>3, <1>4, <1>5, <1>6, <1>7, <1>8, <1>9

\* A confirmation on a timeline finds no handler running: it would be the one
\* the open dialog has started, whose confirmation is still submitting.
LEMMA NothingElseRuns ==
    ASSUME TypeOK, DeskInv, page = "timeline",
           NEW op \in {"undo", "bulk", "all"}, NEW a \in Actions \cup {NoAct},
           op = "bulk" => dialog.kind = "bulk",
           op # "bulk" => ~Submitting(op, a),
           op = "all" => dialog.kind = "all" /\ a = NoAct,
           op = "undo" => \/ dialog.kind = "undo" /\ dialog.of = a
                          \/ dialog.kind = "stray",
           NEW t \in Slots
    PROVE  ~Runs(t)
<1> SUFFICES ASSUME Runs(t) PROVE FALSE
  OBVIOUS
<1>1. dialog.kind \notin {"bulk", "stray"}
  BY DEF DeskInv, DialogsFitPage
<1>2. dialog.kind = op /\ dialog.of = a
  BY <1>1 DEF DeskInv, DialogsFitPage
<1>3. dialog # NoDialog
  BY <1>2 DEF NoDialog
<1>4. job[t].op = op /\ job[t].cur = a
  BY <1>2, <1>3 DEF DeskInv, TimelineIsBusy
<1> QED
  BY <1>1, <1>2, <1>4 DEF Submitting, Runs

LEMMA DeskConfirm ==
    ASSUME TypeOK, DeskInv, NEW s \in Slots,
           ConfirmUndo(s) \/ ConfirmStray(s) \/ ConfirmUndoAll(s) \/ ConfirmBulk(s)
    PROVE  DeskInv'
<1>1. PICK op \in {"undo", "bulk", "all"}, a \in Actions \cup {NoAct}, todo \in SUBSET Actions :
          /\ Start(s, op, a, todo)
          /\ op = "bulk" => dialog.kind = "bulk" /\ todo \cup {a} \subseteq selected
          /\ op # "bulk" => ~Submitting(op, a)
          /\ op = "all" => dialog.kind = "all" /\ a = NoAct
          /\ op = "undo" => \/ dialog.kind = "undo" /\ dialog.of = a
                            \/ dialog.kind = "stray"
  BY ConfirmStarts
<1>2. /\ job'[s] = [live |-> TRUE, op |-> op, todo |-> todo, cur |-> a, stage |-> "sent"]
      /\ \A t \in Slots \ {s} : job'[t] = job[t]
      /\ actionLoading' = TRUE
      /\ UNCHANGED <<page, loading, dialog, selected, reads>>
  BY <1>1 DEF Start, TypeOK
<1>3. Runs(s)' /\ job'[s].op = op /\ job'[s].cur = a /\ job'[s].stage = "sent"
  BY <1>2 DEF Runs, Idle
<1>4. \A t \in Slots \ {s} : Runs(t)' <=> Runs(t)
  BY <1>2 DEF Runs
<1>5. dialog # NoDialog
  BY <1>1 DEF NoDialog
<1>6. DialogsFitPage'
  BY <1>2 DEF DeskInv, DialogsFitPage
<1>7. HandlersFitPage'
  BY <1>2, <1>3, <1>4, <1>5 DEF DeskInv, HandlersFitPage, DialogsFitPage
<1>8. TimelineIsBusy'
  <2> SUFFICES ASSUME page = "timeline" PROVE TimelineIsBusy'
    BY <1>2 DEF TimelineIsBusy
  <2>1. \A t \in Slots : ~Runs(t)
    BY <1>1, NothingElseRuns
  <2>2. dialog.kind \notin {"bulk", "stray"} /\ (dialog.kind = "all" => dialog.of = NoAct)
    BY DEF DeskInv, DialogsFitPage
  <2>3. op # "bulk" /\ dialog.kind = op /\ dialog.of = a
    BY <1>1, <2>2
  <2> QED
    BY <1>2, <1>3, <1>4, <2>1, <2>3 DEF TimelineIsBusy
<1>9. BusyMeansWorking'
  BY <1>2, <1>3 DEF DeskInv, BusyMeansWorking, Runs
<1> QED
  BY <1>6, <1>7, <1>8, <1>9 DEF DeskInv

\* After the last answer of an operation.
LEMMA DeskFetch ==
    ASSUME TypeOK, DeskInv, NEW s \in Slots, job[s].op \in {"undo", "bulk", "all"},
           FetchAfter(s), UNCHANGED <<page, actionLoading, selected>>
    PROVE  DeskInv'
<1>0. job[s] \in Jobs /\ job[s] # Idle /\ (Runs(s) <=> job[s].live)
  BY JobType DEF Runs
<1>1. /\ \A t \in Slots \ {s} : job'[t] = job[t]
      /\ dialog' \in {dialog, NoDialog}
  BY FetchEffect
<1>2. \A t \in Slots \ {s} : Runs(t)' <=> Runs(t)
  BY <1>1 DEF Runs
<1>3. Runs(s)' <=> Runs(s)
  BY <1>0, FetchEffect, JobRuns, IdleDoesNotRun DEF Jobs
<1>4. Runs(s)' => job'[s].op = job[s].op /\ job'[s].cur = job[s].cur
  BY <1>0, <1>3, FetchEffect
<1>5. ~Runs(s) => job'[s].op \notin {"undo", "bulk", "all"}
  BY <1>0, FetchEffect, IdleDoesNotRun
<1>6. DialogsFitPage'
  BY <1>1 DEF DeskInv, DialogsFitPage, NoDialog
<1>7. HandlersFitPage'
  BY <1>1, <1>2, <1>3, <1>5 DEF DeskInv, HandlersFitPage
<1>8. TimelineIsBusy'
  BY <1>1, <1>2, <1>3, <1>4 DEF DeskInv, TimelineIsBusy
<1>9. BusyMeansWorking'
  <2>1. actionLoading' => \E t \in Slots : Runs(t)'
    BY <1>2, <1>3 DEF DeskInv, BusyMeansWorking, Runs
  <2>2. CASE job[s].live
    <3>1. Read(s, page) \in reads' /\ Read(s, page).by = s
      BY <2>2, FetchEffect, ReadType
    <3>2. s # ByTimer
      BY SlotsAssumption DEF ByTimer
    <3> QED
      BY <2>1, <3>1, <3>2 DEF BusyMeansWorking, Runs
  <2>3. CASE ~job[s].live
    <3>1. UNCHANGED <<reads, loading>>
      BY <2>3, FetchEffect
    <3> QED
      BY <2>1, <3>1 DEF DeskInv, BusyMeansWorking, Runs
  <2> QED
    BY <2>2, <2>3
<1> QED
  BY <1>6, <1>7, <1>8, <1>9 DEF DeskInv

\* The next request of a bulk rollback; it can only be one of the history page.
LEMMA DeskNextOfBulk ==
    ASSUME TypeOK, DeskInv, NEW s \in Slots, job[s].op = "bulk", NEW a \in job[s].todo,
           job' = [job EXCEPT ![s].cur = a, ![s].todo = @ \ {a}, ![s].stage = "sent"],
           UNCHANGED <<page, list, actionLoading, selected, loading, dialog, reads>>
    PROVE  DeskInv'
<1>1. job[s] \in Jobs
  BY JobType
<1>2. /\ \A t \in Slots \ {s} : job'[t] = job[t]
      /\ job'[s] \in Jobs /\ job'[s].live = job[s].live
      /\ job'[s].op = "bulk" /\ job'[s].stage = "sent"
  BY <1>1 DEF TypeOK, Jobs
<1>3. \A t \in Slots : Runs(t)' <=> Runs(t)
  BY <1>1, <1>2, NotIdle DEF Runs
<1>4. DialogsFitPage' /\ HandlersFitPage'
  BY <1>2, <1>3 DEF DeskInv, DialogsFitPage, HandlersFitPage
<1>5. TimelineIsBusy'
  BY <1>2, <1>3 DEF DeskInv, TimelineIsBusy
<1>6. BusyMeansWorking'
  BY <1>3 DEF DeskInv, BusyMeansWorking, Runs
<1> QED
  BY <1>4, <1>5, <1>6 DEF DeskInv

\* The end of a handler.  A running one takes the busy state with it: on a
\* timeline there is no other.
LEMMA DeskEnd ==
    ASSUME TypeOK, DeskInv, NEW s \in Slots, job[s] # Idle, job' = [job EXCEPT ![s] = Idle],
           actionLoading' \in {FALSE, actionLoading /\ ~job[s].live},
           Runs(s) \/ UNCHANGED actionLoading,
           dialog' \in {dialog, NoDialog},
           loading' => loading /\ UNCHANGED reads,
           selected' \in {selected, {}}, UNCHANGED page
    PROVE  DeskInv'
<1>0. Runs(s) <=> job[s].live
  BY DEF Runs
<1>1. /\ ~Runs(s)' /\ job'[s].op \notin {"undo", "bulk", "all"}
      /\ \A t \in Slots \ {s} : job'[t] = job[t]
  BY EndEffect, IdleDoesNotRun
<1>2. \A t \in Slots \ {s} : Runs(t)' <=> Runs(t)
  BY <1>1 DEF Runs
<1>3. DialogsFitPage'
  BY DEF DeskInv, DialogsFitPage, NoDialog
<1>4. HandlersFitPage'
  BY <1>1, <1>2 DEF DeskInv, HandlersFitPage
<1>5. TimelineIsBusy'
  BY <1>1, <1>2 DEF DeskInv, TimelineIsBusy
<1>6. BusyMeansWorking'
  <2>1. actionLoading' => \E t \in Slots : Runs(t)'
    BY <1>0, <1>2 DEF DeskInv, BusyMeansWorking, Runs
  <2>2. loading' => \E r \in reads' : r.by # ByTimer
    BY DEF DeskInv, BusyMeansWorking
  <2> QED
    BY <2>1, <2>2 DEF BusyMeansWorking, Runs
<1> QED
  BY <1>3, <1>4, <1>5, <1>6 DEF DeskInv

LEMMA DeskAnswers ==
    ASSUME TypeOK, DeskInv, NEW s \in Slots,
           \/ UndoAnswered(s) \/ UndoAllAnswered(s) \/ BulkAnswered(s) \/ OperationFailed(s)
           \/ \E r \in reads : OperationEnds(s, r)
    PROVE  DeskInv'
<1>1. CASE UndoAnswered(s) \/ UndoAllAnswered(s)
  BY <1>1, DeskFetch DEF UndoAnswered, UndoAllAnswered
<1>2. CASE BulkAnswered(s)
  <2>1. CASE FetchAfter(s)
    BY <1>2, <2>1, DeskFetch DEF BulkAnswered
  <2>2. CASE ~FetchAfter(s)
    BY <1>2, <2>2, DeskNextOfBulk DEF BulkAnswered
  <2> QED
    BY <2>1, <2>2
<1>3. CASE OperationFailed(s)
  <2>1. job[s] \in Jobs /\ job[s] # Idle
    BY <1>3, JobType DEF OperationFailed
  <2>2. actionLoading \in BOOLEAN /\ job[s].live \in BOOLEAN
    BY <2>1 DEF TypeOK, Jobs
  <2>3. Runs(s) \/ UNCHANGED actionLoading
    BY <1>3, <2>1, <2>2 DEF OperationFailed, Runs
  <2> QED
    BY <1>3, <2>1, <2>3, DeskEnd DEF OperationFailed
<1>4. ASSUME NEW r \in reads, OperationEnds(s, r) PROVE DeskInv'
  <2>1. job[s] # Idle /\ job[s].op \in {"undo", "bulk", "all"}
    BY <1>4, BusyType DEF OperationEnds
  <2>2. Runs(s)
    BY <1>4, <2>1 DEF OperationEnds, DeskInv, HandlersFitPage
  <2> QED
    BY <1>4, <2>1, <2>2, DeskEnd DEF OperationEnds
<1> QED
  BY <1>1, <1>2, <1>3, <1>4

LEMMA DeskStep ==
    ASSUME TypeOK, DeskInv, [Next]_vars
    PROVE  DeskInv'
<1>1. ASSUME NEW r \in reads, Deliver(r) \/ LoseRead(r) PROVE DeskInv'
  <2>1. UNCHANGED <<page, actionLoading, dialog, selected, job>>
    BY <1>1 DEF Deliver, LoseRead
  <2>2. DialogsFitPage' /\ HandlersFitPage' /\ TimelineIsBusy'
    BY <2>1 DEF DeskInv, DialogsFitPage, HandlersFitPage, TimelineIsBusy, Runs
  <2>3. BusyMeansWorking'
    BY <1>1, <2>1 DEF Deliver, LoseRead, DeskInv, BusyMeansWorking
  <2> QED
    BY <2>2, <2>3 DEF DeskInv
<1>2. CASE UNCHANGED vars
  BY <1>2, HandlersKeepDesk DEF vars, screen, SameHandlers
<1> QED
  BY <1>1, <1>2, DeskManager, DeskScreen, DeskConfirm, DeskAnswers DEF Next, Staff, Browser

-----------------------------------------------------------------------------
(* Theorems *)

LEMMA Invariance == Spec => [](TypeOK /\ TrueInv /\ DeskInv)
<1>1. Init => TypeOK /\ TrueInv /\ DeskInv
  BY TypeInit, TrueInit, DeskInit
<1>2. TypeOK /\ TrueInv /\ DeskInv /\ [Next]_vars => (TypeOK /\ TrueInv /\ DeskInv)'
  BY TypeStep, TrueStep, DeskStep
<1> QED
  BY <1>1, <1>2, PTL DEF Spec

\* Lists, dialogs, handlers and listings keep their types; in particular a row
\* never has another status than the four the pages know (a report is
\* translated before it is written).
THEOREM TypeCorrect == Spec => []TypeOK
BY Invariance, PTL

\* Nothing but an action that was applied is ever rolled back, however stale
\* the list the undo was confirmed on and however old the session of undo-all.
THEOREM OnlyAppliedUndone == Spec => []UndoneWereApplied
<1>1. TrueInv => UndoneWereApplied
  BY DEF TrueInv
<1> QED
  BY <1>1, Invariance, PTL

\* A row shown as reverted has been undone by the manager.
THEOREM RevertedIsNoPromise == Spec => []ShownRevertedWasUndone
<1>1. TrueInv => ShownRevertedWasUndone
  BY DEF TrueInv, CopiesAreTrue, Truthful, ShownRevertedWasUndone
<1> QED
  BY <1>1, Invariance, PTL

\* Ticks, and what a bulk rollback still has to ask for, are actions that were
\* applied.
THEOREM TicksWereApplied == Spec => []TickedWereApplied
<1>1. TrueInv => TickedWereApplied
  BY DEF TrueInv, JobsAreTrue, JobIsTrue, TickedWereApplied
<1> QED
  BY <1>1, Invariance, PTL

\* A timeline never runs two operations at a time.
THEOREM OneOperation == Spec => []TimelineOneAtATime
<1>1. ASSUME DeskInv PROVE TimelineOneAtATime
  <2> DEFINE R == {s \in Slots : job[s] # Idle /\ job[s].live}
  <2> SUFFICES ASSUME page = "timeline" PROVE Cardinality(R) <= 1
    BY DEF TimelineOneAtATime
  <2>1. CASE R = {}
    BY <2>1, FS_EmptySet
  <2>2. CASE R # {}
    <3>1. PICK s \in R : R = {s}
      BY <1>1, <2>2 DEF DeskInv, TimelineIsBusy, Runs
    <3>2. Cardinality({s}) = 1
      BY FS_Singleton
    <3> HIDE DEF R
    <3> QED
      BY <3>1, <3>2
  <2> QED
    BY <2>1, <2>2
<1> QED
  BY <1>1, Invariance, PTL

\* While the page is busy, a handler of its own is running that will end it;
\* while it shows that it is loading, a listing is on its way.
THEOREM NeverStuckBusy == Spec => []BusyMeansWorking
<1>1. DeskInv => BusyMeansWorking
  BY DEF DeskInv
<1> QED
  BY <1>1, Invariance, PTL
=============================================================================
