----------------------------- MODULE ActionDesk -----------------------------
(***************************************************************************)
(* The web console's views of the response actions: the hook useActions     *)
(* with the pages built on it, next to the manager's rows.                  *)
(*                                                                          *)
(* One browser tab shows one page at a time.  "history" is                  *)
(* ActionsHistory.jsx: all actions, polled every five seconds, checkboxes   *)
(* and the bulk rollback.  "timeline" is ActionTimeline.jsx in the agent or *)
(* incident dialog: the actions of one host, loaded once and after each     *)
(* operation, with Undo and Rollback All.  No request is ever cancelled and *)
(* answers carry no version: whatever arrives last is what is shown.  The   *)
(* rows also change behind the desks: reports of the agents, the            *)
(* auto-rollback, other staff.                                              *)
(***************************************************************************)
EXTENDS Integers, FiniteSets

CONSTANTS
    Actions,    \* ids of response actions; a later one is newer
    OnHost,     \* the actions of the host (incident) the timeline is about
    ListLimit,  \* rows one listing returns, the newest first (50 in the code)
    Slots,      \* handlers running at once (bound)
    MaxReads,   \* listings in flight at once (bound)
    MaxFaults   \* failed requests and failed rollbacks (bound)

ASSUME ActionsAssumption == Actions \subseteq Nat \ {0}
ASSUME SlotsAssumption == Slots \subseteq Nat \ {0}
ASSUME FaultsAssumption == MaxFaults \in Nat

ByTimer == 0                    \* who waits for a listing: the interval timer,
ByPage == -1                    \* the page itself, or the handler in a slot
NoAct == 0                      \* the id "undefined" in a request's path
Absent == "absent"              \* not in a list, or not created yet

VARIABLES
    row,            \* status of each action in the manager's table
    undone,         \* actions rollback_action has undone (history variable)
    wasApplied,     \* actions that have been applied (history variable)
    page,           \* the page on the screen
    list,           \* useActions' actions: id -> status shown
    loading,        \* ... its loading
    actionLoading,  \* ... its actionLoading
    dialog,         \* the open confirmation dialog: kind and action
    selected,       \* selectedIds of the history page
    job,            \* the handlers that are running, by slot
    reads,          \* listings on their way: for whom, and the rows
    faults

server == <<row, undone, wasApplied>>
screen == <<page, list, loading, actionLoading, dialog, selected>>
vars == <<server, screen, job, reads, faults>>

Pages == {"history", "timeline"}
Status == {"pending", "applied", "failed", "reverted"}
Lists == [Actions -> Status \cup {Absent}]
NoDialog == [kind |-> "none", of |-> NoAct]
Idle == [op |-> "idle"]
Jobs == [live : BOOLEAN, op : {"undo", "bulk", "all"},
         todo : SUBSET Actions, cur : Actions \cup {NoAct},
         stage : {"sent", "serving", "ok", "err", "fetching"}]

TypeOK ==
    /\ row \in Lists
    /\ undone \subseteq Actions
    /\ wasApplied \subseteq Actions
    /\ page \in Pages \cup {"none"}
    /\ list \in Lists
    /\ loading \in BOOLEAN
    /\ actionLoading \in BOOLEAN
    /\ dialog \in [kind : {"none", "undo", "all", "bulk", "stray"},
                   of : Actions \cup {NoAct}]
    /\ selected \subseteq Actions
    /\ job \in [Slots -> Jobs \cup {Idle}]
    /\ reads \subseteq [by : {ByTimer, ByPage} \cup Slots, data : Lists]
    /\ faults \in 0 .. MaxFaults

Empty == [a \in Actions |-> Absent]

Init ==
    /\ row = Empty
    /\ undone = {}
    /\ wasApplied = {}
    /\ page = "none"
    /\ list = Empty
    /\ loading = FALSE
    /\ actionLoading = FALSE
    /\ dialog = NoDialog
    /\ selected = {}
    /\ job = [s \in Slots |-> Idle]
    /\ reads = {}
    /\ faults = 0

-----------------------------------------------------------------------------
(* The manager *)

\* A request fails, or its answer is lost.
Fault == faults < MaxFaults /\ faults' = faults + 1

\* POST /actions of anyone: the row is inserted as pending.
Create(a) ==
    /\ row[a] = Absent
    /\ \A b \in Actions : b < a => row[b] # Absent
    /\ row' = [row EXCEPT ![a] = "pending"]
    /\ UNCHANGED <<undone, wasApplied, screen, job, reads, faults>>

\* (mutant) the agent's own word is written into the row
ReportRaw(a, verdict) ==
    /\ row[a] \in {"pending", "failed"}
    /\ row' = [row EXCEPT ![a] = IF verdict = "applied" THEN "success" ELSE verdict]
    /\ UNCHANGED <<undone, wasApplied, screen, job, reads, faults>>

\* _handle_command_ack: the agent reports on the command of an action, maybe once
\* more, as a failed command is retried.
Report(a, verdict) ==
    /\ row[a] \in {"pending", "failed"}
    /\ row' = [row EXCEPT ![a] = verdict]
    /\ wasApplied' = IF verdict = "applied" THEN wasApplied \cup {a} ELSE wasApplied
    /\ UNCHANGED <<undone, screen, job, reads, faults>>

Applied == {a \in Actions : row[a] = "applied"}

\* rollback_action from its status check on: committed ...
Reverts(a) ==
    /\ row' = [row EXCEPT ![a] = "reverted"]
    /\ undone' = undone \cup {a}
    /\ UNCHANGED wasApplied

\* ... or something raises: the row is written back as applied.
RevertRaises(a) ==
    /\ Fault
    /\ row' = [row EXCEPT ![a] = "applied"]
    /\ UNCHANGED <<undone, wasApplied>>

\* The scheduler undoes an expired action.
AutoRollback(a) ==
    /\ a \in Applied
    /\ Reverts(a)
    /\ UNCHANGED <<screen, job, reads, faults>>

Step(s, stage) == job' = [job EXCEPT ![s].stage = stage]

\* (mutant) the status check of rollback_action is gone
ServeUndoUnchecked(s) ==
    /\ job[s].op \in {"undo", "bulk"} /\ job[s].stage = "sent"
    /\ job[s].cur # NoAct
    /\ Reverts(job[s].cur) /\ Step(s, "ok") /\ UNCHANGED faults
    /\ UNCHANGED <<screen, reads>>

\* POST /actions/{id}/undo in a session of its own: 404 for an unknown id, 409
\* or 400 unless applied, 500 when the rollback raises.  The answer may be lost
\* after the undo has been committed.
ServeUndo(s) ==
    /\ job[s].op \in {"undo", "bulk"} /\ job[s].stage = "sent"
    /\ LET a == job[s].cur
       IN \/ /\ a \in Applied
             /\ \/ Reverts(a) /\ Step(s, "ok") /\ UNCHANGED faults
                \/ Reverts(a) /\ Step(s, "err") /\ Fault
                \/ RevertRaises(a) /\ Step(s, "err")
          \/ /\ a \notin Applied
             /\ Step(s, "err")
             /\ UNCHANGED <<server, faults>>
    /\ UNCHANGED <<screen, reads>>

\* POST .../undo-all: the session selects the applied actions of the host ...
SelectAllOfHost(s) ==
    /\ job[s].op = "all" /\ job[s].stage = "sent"
    /\ job' = [job EXCEPT ![s].stage = "serving",
                          ![s].todo = Applied \cap OnHost]
    /\ UNCHANGED <<server, screen, reads, faults>>

\* ... undoes them one by one, each committed on its own and checked against
\* the copy the session loaded, in which it is still applied ...
ServeNextOfHost(s, a) ==
    /\ job[s].op = "all" /\ job[s].stage = "serving"
    /\ a \in job[s].todo
    /\ job' = [job EXCEPT ![s].todo = @ \ {a}]
    /\ (Reverts(a) /\ UNCHANGED faults) \/ RevertRaises(a)
    /\ UNCHANGED <<screen, reads>>

\* ... and answers with the counts; the answer may be lost.
AnswerAll(s) ==
    /\ job[s].op = "all" /\ job[s].stage = "serving"
    /\ job[s].todo = {}
    /\ (Step(s, "ok") /\ UNCHANGED faults) \/ (Step(s, "err") /\ Fault)
    /\ UNCHANGED <<server, screen, reads>>

\* The rows the listing of page p returns now.
Scope(p) == IF p = "history" THEN Actions ELSE OnHost
Listed(p) == {a \in Scope(p) : row[a] # Absent
                /\ Cardinality({b \in Scope(p) : row[b] # Absent /\ b > a}) < ListLimit}
Listing(p) == [a \in Actions |-> IF a \in Listed(p) THEN row[a] ELSE Absent]

-----------------------------------------------------------------------------
(* useActions: listings *)

\* A listing is served when it is asked for; how long it takes to come back
\* decides how old it is by then.
Read(by, p) == [by |-> by, data |-> Listing(p)]
RoomToRead == Cardinality({r \in reads : r.by \notin Slots}) < MaxReads

\* The effect of mounting: fetchActions.
Mount(p) ==
    /\ page = "none"
    /\ RoomToRead
    /\ page' = p
    /\ loading' = TRUE
    /\ reads' = reads \cup {Read(ByPage, p)}
    /\ UNCHANGED <<server, list, actionLoading, dialog, selected, job, faults>>

\* The refresh button of the history page, disabled while loading.
Refresh ==
    /\ page = "history" /\ ~loading /\ dialog = NoDialog
    /\ RoomToRead
    /\ loading' = TRUE
    /\ reads' = reads \cup {Read(ByPage, "history")}
    /\ UNCHANGED <<server, page, list, actionLoading, dialog, selected, job, faults>>

\* The interval timer: a quiet listing.
Poll ==
    /\ page = "history"
    /\ RoomToRead
    /\ reads' = reads \cup {Read(ByTimer, "history")}
    /\ UNCHANGED <<server, screen, job, faults>>

\* Leaving the page.  Its handlers run on with their requests; what they and
\* its listings would still set is dropped.
Unmount ==
    /\ page # "none"
    /\ page' = "none"
    /\ list' = Empty
    /\ loading' = FALSE /\ actionLoading' = FALSE
    /\ dialog' = NoDialog /\ selected' = {}
    /\ job' = [s \in Slots |-> IF job[s] = Idle \/ job[s].stage = "fetching" THEN Idle
                               ELSE [job[s] EXCEPT !.live = FALSE]]
    /\ reads' = {}
    /\ UNCHANGED <<server, faults>>

\* (mutant) the quiet listing never replaces the list
DeliverNoPoll(r) ==
    /\ r.by \notin Slots
    /\ reads' = reads \ {r}
    /\ list' = IF r.by = ByTimer THEN list ELSE r.data
    /\ loading' = (loading /\ r.by = ByTimer)
    /\ UNCHANGED <<server, page, actionLoading, dialog, selected, job, faults>>

\* A listing arrives, in any order: it replaces the list; fetchActions also
\* clears loading.
Deliver(r) ==
    /\ r.by \notin Slots
    /\ reads' = reads \ {r}
    /\ list' = r.data
    /\ loading' = (loading /\ r.by = ByTimer)
    /\ UNCHANGED <<server, page, actionLoading, dialog, selected, job, faults>>

\* A listing fails: error is set, the list stays.
LoseRead(r) ==
    /\ r.by \notin Slots
    /\ Fault
    /\ reads' = reads \ {r}
    /\ loading' = (loading /\ r.by = ByTimer)
    /\ UNCHANGED <<server, page, list, actionLoading, dialog, selected, job>>

-----------------------------------------------------------------------------
(* Dialogs and selection *)

Open(kind, a) == dialog' = [kind |-> kind, of |-> a]
StillScreen == UNCHANGED <<server, page, loading, actionLoading, list, job, reads, faults>>

\* UndoButton: not offered for a reverted action; a timeline hides it while
\* loading and disables it while busy, the history table does neither.
CanUndo(a) ==
    /\ list[a] \notin {Absent, "reverted"}
    /\ page = "timeline" => ~loading /\ ~actionLoading

OpenUndo(a) ==
    /\ page # "none" /\ dialog = NoDialog
    /\ CanUndo(a)
    /\ Open("undo", a)
    /\ UNCHANGED selected /\ StillScreen

\* (mutant) Rollback All is offered while an operation is running
CanUndoAllAnyTime == \E a \in Actions : list[a] = "applied"

\* "Rollback All (n)" of the timeline.
CanUndoAll ==
    /\ \E a \in Actions : list[a] = "applied"
    /\ ~actionLoading /\ ~loading

OpenUndoAll ==
    /\ page = "timeline" /\ dialog = NoDialog
    /\ CanUndoAll
    /\ Open("all", NoAct)
    /\ UNCHANGED selected /\ StillScreen

\* (mutant) any row can be ticked
SelectableAnyRow(a) == list[a] # Absent

\* The checkbox of a row is disabled unless the row shows applied.
Selectable(a) == list[a] = "applied"

ToggleSelect(a) ==
    /\ page = "history" /\ dialog = NoDialog
    /\ Selectable(a)
    /\ selected' = IF a \in selected THEN selected \ {a} ELSE selected \cup {a}
    /\ UNCHANGED dialog /\ StillScreen

\* Tabs, dropdowns and the search box may narrow the list to any part of it.
Narrowings == SUBSET Actions

\* handleSelectAll: the applied rows that pass the filters.
SelectAll(F) ==
    /\ page = "history" /\ dialog = NoDialog
    /\ \E a \in F : Selectable(a)
    /\ selected' = {a \in F : Selectable(a)}
    /\ UNCHANGED dialog /\ StillScreen

ClearSelection ==
    /\ selected # {} /\ dialog = NoDialog
    /\ selected' = {}
    /\ UNCHANGED dialog /\ StillScreen

\* The toolbar under the table counts selectedIds, whatever the table shows.
OpenBulk ==
    /\ selected # {} /\ dialog = NoDialog
    /\ Open("bulk", NoAct)
    /\ UNCHANGED selected /\ StillScreen

\* Cancel or Escape.  The bulk dialog cannot be closed while it is loading.
Cancel ==
    /\ dialog # NoDialog
    /\ dialog.kind = "bulk" => ~actionLoading
    /\ dialog' = NoDialog
    /\ UNCHANGED selected /\ StillScreen

-----------------------------------------------------------------------------
(* Operations *)

Start(s, op, a, todo) ==
    /\ job[s] = Idle
    /\ \A t \in Slots : t < s => job[t] # Idle
    /\ job' = [job EXCEPT ![s] = [live |-> TRUE, op |-> op, todo |-> todo,
                                  cur |-> a, stage |-> "sent"]]
    /\ actionLoading' = TRUE
    /\ UNCHANGED <<server, page, list, loading, dialog, selected, reads, faults>>

\* submitting of a RollbackConfirmModal: its own confirmation is still running.
Submitting(op, a) ==
    \E s \in Slots : job[s] # Idle /\ job[s].live /\ job[s].op = op /\ job[s].cur = a

\* Confirm of a timeline's UndoButton: handleUndo.
ConfirmUndo(s) ==
    /\ page = "timeline" /\ dialog.kind = "undo"
    /\ ~Submitting("undo", dialog.of)
    /\ Start(s, "undo", dialog.of, {})

\* On the history page the button's onUndo(id, reason) is setSingleUndoAction:
\* it stores the id where an action is expected and a second dialog opens ...
ConfirmUndoOnHistory ==
    /\ page = "history" /\ dialog.kind = "undo"
    /\ Open("stray", NoAct)
    /\ UNCHANGED selected /\ StillScreen

\* ... whose confirmation undoes the action with the id of that string.
ConfirmStray(s) ==
    /\ dialog.kind = "stray"
    /\ ~Submitting("undo", NoAct)
    /\ Start(s, "undo", NoAct, {})

ConfirmUndoAll(s) ==
    /\ dialog.kind = "all"
    /\ ~Submitting("all", NoAct)
    /\ Start(s, "all", NoAct, {})

\* The dialog lists what the current list still holds of the selection, and can
\* be confirmed if that is something.
BulkOffered == ~actionLoading /\ \E a \in selected : list[a] # Absent

\* handleConfirmBulkUndo asks for all of selectedIds, listed or not;
\* handleBulkUndo does so one at a time.
ConfirmBulk(s) ==
    /\ dialog.kind = "bulk" /\ BulkOffered
    /\ \E a \in selected : Start(s, "bulk", a, selected \ {a})

\* After the last answer: fetchActions.  It hides the rows of a timeline, and
\* with them the dialog of an UndoButton.  A page that was left has no more use
\* for the answer: its handler is as good as done.
FetchAfter(s) ==
    IF job[s].live
    THEN /\ Step(s, "fetching")
         /\ reads' = reads \cup {Read(s, page)}
         /\ loading' = TRUE
         /\ dialog' = IF page = "timeline" /\ dialog.kind = "undo" THEN NoDialog ELSE dialog
    ELSE /\ job' = [job EXCEPT ![s] = Idle]
         /\ UNCHANGED <<reads, loading, dialog>>

ShowReverted(a) ==
    list' = IF list[a] # Absent THEN [list EXCEPT ![a] = "reverted"] ELSE list

\* (mutant) the row is shown reverted before the answer is looked at
UndoAnsweredEarly(s) ==
    /\ job[s].op = "undo" /\ job[s].stage \in {"ok", "err"}
    /\ job[s].cur # NoAct
    /\ FetchAfter(s)
    /\ IF job[s].live THEN ShowReverted(job[s].cur) ELSE UNCHANGED list
    /\ UNCHANGED <<server, page, actionLoading, selected, faults>>

\* handleUndo: on success the row is shown reverted at once.
UndoAnswered(s) ==
    /\ job[s].op = "undo" /\ job[s].stage = "ok"
    /\ FetchAfter(s)
    /\ IF job[s].live THEN ShowReverted(job[s].cur) ELSE UNCHANGED list
    /\ UNCHANGED <<server, page, actionLoading, selected, faults>>

\* handleUndoAll: only the listing is fetched anew.
UndoAllAnswered(s) ==
    /\ job[s].op = "all" /\ job[s].stage = "ok"
    /\ FetchAfter(s)
    /\ UNCHANGED <<server, page, list, actionLoading, selected, faults>>

\* handleBulkUndo: success or failure is counted, then the next id, if any.
BulkAnswered(s) ==
    /\ job[s].op = "bulk" /\ job[s].stage \in {"ok", "err"}
    /\ \/ /\ \E a \in job[s].todo :
                job' = [job EXCEPT ![s].cur = a, ![s].todo = @ \ {a}, ![s].stage = "sent"]
          /\ UNCHANGED <<loading, dialog, reads>>
       \/ job[s].todo = {} /\ FetchAfter(s)
    /\ UNCHANGED <<server, page, list, actionLoading, selected, faults>>

\* (mutant) a failed request leaves actionLoading set
OperationFailedStuck(s) ==
    /\ job[s].op \in {"undo", "all"} /\ job[s].stage = "err"
    /\ job' = [job EXCEPT ![s] = Idle]
    /\ UNCHANGED <<server, page, list, loading, actionLoading, dialog, selected, reads, faults>>

\* The catch and finally of handleUndo and handleUndoAll: nothing is fetched,
\* the dialog stays open; the history page reports the error and closes it.
OperationFailed(s) ==
    /\ job[s].op \in {"undo", "all"} /\ job[s].stage = "err"
    /\ job' = [job EXCEPT ![s] = Idle]
    /\ actionLoading' = (actionLoading /\ ~job[s].live)
    /\ dialog' = IF job[s].live /\ dialog.kind = "stray" THEN NoDialog ELSE dialog
    /\ UNCHANGED <<server, page, list, loading, selected, reads, faults>>

\* The listing of a handler arrives or fails, and the handler ends: loading and
\* actionLoading are cleared, its dialog closes, and the bulk rollback empties
\* the selection.
OperationEnds(s, r) ==
    /\ r.by = s /\ job[s] # Idle /\ job[s].stage = "fetching"
    /\ \/ list' = r.data /\ UNCHANGED faults
       \/ Fault /\ UNCHANGED list
    /\ reads' = reads \ {r}
    /\ job' = [job EXCEPT ![s] = Idle]
    /\ loading' = FALSE /\ actionLoading' = FALSE
    /\ dialog' = IF dialog.kind = job[s].op THEN NoDialog ELSE dialog
    /\ selected' = IF job[s].op = "bulk" THEN {} ELSE selected
    /\ UNCHANGED <<server, page>>

-----------------------------------------------------------------------------
Manager ==
    \/ \E a \in Actions : \/ Create(a) \/ AutoRollback(a)
                          \/ \E v \in {"applied", "failed"} : Report(a, v)
    \/ \E s \in Slots : \/ ServeUndo(s) \/ SelectAllOfHost(s) \/ AnswerAll(s)
                        \/ \E a \in Actions : ServeNextOfHost(s, a)

Staff ==
    \/ \E p \in Pages : Mount(p)
    \/ Unmount \/ Refresh \/ OpenUndoAll \/ OpenBulk \/ Cancel \/ ClearSelection
    \/ ConfirmUndoOnHistory
    \/ \E a \in Actions : OpenUndo(a) \/ ToggleSelect(a)
    \/ \E F \in Narrowings : SelectAll(F)
    \/ \E s \in Slots : ConfirmUndo(s) \/ ConfirmStray(s) \/ ConfirmUndoAll(s) \/ ConfirmBulk(s)

Browser ==
    \/ Poll
    \/ \E r \in reads : Deliver(r) \/ LoseRead(r)
    \/ \E s \in Slots : \/ UndoAnswered(s) \/ UndoAllAnswered(s) \/ BulkAnswered(s)
                        \/ OperationFailed(s)
                        \/ \E r \in reads : OperationEnds(s, r)

Next == Manager \/ Staff \/ Browser

Spec == Init /\ [][Next]_vars

\* The interval timer ticks while the page is open, and a listing that is on its
\* way arrives.  Nothing is assumed of the staff, the agents, the scheduler, or
\* of the operations that are running.
Fairness == WF_vars(Poll) /\ WF_vars(\E r \in reads : Deliver(r))

FairSpec == Spec /\ Fairness

-----------------------------------------------------------------------------
(* Properties *)

\* A timeline runs one operation at a time: its buttons are disabled by
\* actionLoading and by loading, and no dialog survives into the next one.
TimelineOneAtATime ==
    page = "timeline" => Cardinality({s \in Slots : job[s] # Idle /\ job[s].live}) <= 1

\* A row shown as reverted has been undone: the optimistic update never runs
\* ahead of the manager, whatever older listings arrive around it.
ShownRevertedWasUndone == \A a \in Actions : list[a] = "reverted" => a \in undone

\* Whatever is ticked, and whatever a bulk rollback still has to ask for, has
\* been applied once, although the ticks outlive polls, filters and pages.
TickedWereApplied ==
    /\ selected \subseteq wasApplied
    /\ \A s \in Slots : job[s] # Idle /\ job[s].op = "bulk" =>
            job[s].todo \cup {job[s].cur} \subseteq wasApplied

\* Undo is offered on pending and failed rows too; nothing but an action that
\* was applied is ever rolled back.
UndoneWereApplied == undone \subseteq wasApplied

\* The buttons are never left disabled: while the page is busy an operation of
\* its own is still running, which ends the state of being busy, and while it
\* shows "loading" a listing is on its way.
BusyMeansWorking ==
    /\ actionLoading => \E s \in Slots : job[s] # Idle /\ job[s].live
    /\ loading => \E r \in reads : r.by # ByTimer

\* A history page that stays open ends up showing the manager's rows: the rows
\* come to rest, and the last poll is served after that.
HistoryCatchesUp == <>[](page = "history") => <>[](list = Listing("history"))
=============================================================================
