------------------------------- MODULE RuleDesk -------------------------------
(***************************************************************************)
(* The console's tables of detection rules (useDetectionRules, on           *)
(* DetectionRules.jsx) and of process chain rules (useProcessChainRules, on *)
(* ProcessChainRulesTab.jsx), which work alike.                             *)
(*                                                                          *)
(* A switch or a weight is changed on the screen first and put back if the  *)
(* manager refuses; a row is taken off first, and if the manager refuses,   *)
(* the whole list as it was is put back.  Nothing is fetched after an       *)
(* operation.  What is put back was captured when the user clicked.         *)
(*                                                                          *)
(* Chain rules share their page with the process groups: each has a tab     *)
(* with its form, and the lists belong to the page (ProcessChainManager).   *)
(***************************************************************************)
EXTENDS Naturals, FiniteSets

CONSTANTS
    Rules,        \* ids of the rules; all but the last are there from the start
    Fields,       \* what a rule has
    Switches,     \* what of it is changed in place: "enabled", or also "weight"
    Tabbed,       \* in a tab, with a form that is disabled while it is saved
    Slots,        \* handlers running at once (bound)
    MaxReads,     \* listings in flight at once (bound)
    MaxRequests,  \* requests of the user and colleagues (bound)
    MaxFaults     \* failed requests (bound)

VARIABLES
    srv,     \* the manager's rules
    hist,    \* fields that more than one request was about (history variable)
    page,    \* the hook: rules, loading, and whether they are a listing's
    dialog,  \* the form: open, the rule it edits or None, saving; the tab is here
    job,     \* the handlers that are running, by slot
    reads,   \* listings on their way
    asked,   \* requests so far
    faults

vars == <<srv, hist, page, dialog, job, reads, asked, faults>>

None == 0
Values == 0 .. 1
Rows == [there : BOOLEAN, val : [Fields -> Values]]
Lists == [Rules -> Rows]
NoRow == [there |-> FALSE, val |-> [f \in Fields |-> 0]]
NoRows == [i \in Rules |-> NoRow]

Idle == [op |-> "idle"]
InPlace == {"field"}
Saves == {"create", "update"}

\* "field" changes one field (set), "update" all; "was" is what is put back: the
\* row, or for a deletion the list, as it was shown when the handler started.  Not
\* "live": the tab it was started in has been left.
Jobs == [op : InPlace \cup Saves \cup {"delete"}, on : Rules, set : SUBSET Fields,
         row : Rows, was : Lists, live : BOOLEAN, stage : {"sent", "ok", "err"}]

TypeOK ==
    /\ srv \in Lists
    /\ hist \subseteq Rules \X Fields
    /\ page \in [list : Lists, loading : BOOLEAN, loaded : BOOLEAN]
    /\ dialog \in [open : BOOLEAN, of : Rules \cup {None}, saving : BOOLEAN,
                   here : BOOLEAN]
    /\ \A s \in Slots : job[s] = Idle \/ job[s] \in Jobs
    /\ reads \subseteq Lists
    /\ asked \in 0 .. MaxRequests /\ faults \in 0 .. MaxFaults

Last == CHOOSE i \in Rules : \A j \in Rules : j <= i

Init ==
    /\ srv = [i \in Rules |-> [NoRow EXCEPT !.there = (i # Last)]]
    /\ hist = {}
    /\ page = [list |-> NoRows, loading |-> TRUE, loaded |-> FALSE]
    /\ dialog = [open |-> FALSE, of |-> None, saving |-> FALSE, here |-> TRUE]
    /\ job = [s \in Slots |-> Idle]
    /\ reads = {srv}
    /\ asked = 0 /\ faults = 0

-----------------------------------------------------------------------------
(* Contested fields: what one request does can hide what another did *)

Running(i, f) == {s \in Slots : job[s] # Idle /\ job[s].on = i /\ f \in job[s].set}
Deleting == \E s \in Slots : job[s] # Idle /\ job[s].op = "delete"
Touched == {x \in Rules \X Fields : Running(x[1], x[2]) # {}}

\* An operation starts on fields g of rule i: next to another one on them, next to
\* a listing that may be from before it, or next to a deletion, which puts the
\* whole list back if it fails.
ContestedByStart(i, g) ==
    LET own == {i} \X g
    IN (IF reads # {} \/ Deleting THEN own ELSE own \cap Touched)
ContestedByDelete(i) ==
    IF reads # {} THEN Rules \X Fields ELSE Touched \cup ContestedByStart(i, Fields)

\* A listing is asked for while an operation may still be unserved, or while a
\* deletion may put back the list of before.
ContestedByRead ==
    IF Deleting THEN Rules \X Fields
    ELSE {x \in Rules \X Fields : \E s \in Running(x[1], x[2]) : job[s].stage = "sent"}

Contest(xs) == hist' = hist \cup xs

-----------------------------------------------------------------------------
(* The manager *)

Fault == faults < MaxFaults /\ faults' = faults + 1
Step(s, stage) == job' = [job EXCEPT ![s].stage = stage]

\* Row r with the fields g of v.
With(r, g, v) == [r EXCEPT !.val = [f \in Fields |-> IF f \in g THEN v[f] ELSE @[f]]]

\* Somebody else changes a field.
Colleague(i, f) ==
    /\ srv[i].there
    /\ srv' = [srv EXCEPT ![i].val[f] = 1 - @]
    /\ Contest({<<i, f>>})
    /\ UNCHANGED <<page, dialog, job, reads, faults>>

\* POST, PUT or DELETE: one transaction.  A new rule whose id is taken, or a
\* rule that is gone, is refused.  The answer may be lost.
Serve(s) ==
    /\ job[s] # Idle /\ job[s].stage = "sent"
    /\ LET i == job[s].on
           fits == (job[s].op = "create") = ~srv[i].there
           row == IF job[s].op = "delete" THEN NoRow
                  ELSE IF job[s].op = "create" THEN job[s].row
                  ELSE With(srv[i], job[s].set, job[s].row.val)
       IN \/ /\ fits
             /\ srv' = [srv EXCEPT ![i] = row]
             /\ \/ Step(s, "ok") /\ UNCHANGED <<hist, faults>>
                \/ Step(s, "err") /\ Fault /\ Contest({i} \X job[s].set)
          \/ /\ Step(s, "err")
             /\ IF fits THEN Fault ELSE UNCHANGED faults
             /\ UNCHANGED <<srv, hist>>
    /\ UNCHANGED <<page, dialog, reads>>

-----------------------------------------------------------------------------
(* The table *)

\* loadRules; if it fails, the list is emptied.
PageLoaded(l) ==
    /\ \/ page' = [list |-> l, loading |-> FALSE, loaded |-> TRUE] /\ UNCHANGED faults
       \/ page' = [list |-> NoRows, loading |-> FALSE, loaded |-> FALSE] /\ Fault
    /\ reads' = reads \ {l}
    /\ UNCHANGED <<srv, hist, dialog, job>>

\* The rows are not there while a listing is.
OnPage == dialog.here /\ ~dialog.open /\ ~page.loading

\* The buttons above the rows are not disabled while loading, but the detection
\* rules' page does not show them then.
HeaderShown == dialog.here /\ ~dialog.open /\ (page.loading => Tabbed)

Refresh ==
    /\ HeaderShown /\ Cardinality(reads) < MaxReads
    /\ page' = [page EXCEPT !.loading = TRUE]
    /\ reads' = reads \cup {srv}
    /\ Contest(ContestedByRead)
    /\ UNCHANGED <<srv, dialog, job, faults>>

Start(s, op, i, g, row, was) ==
    /\ job[s] = Idle /\ \A t \in Slots : t < s => job[t] # Idle
    /\ job' = [job EXCEPT ![s] = [op |-> op, on |-> i, set |-> g, row |-> row,
                                  was |-> was, live |-> TRUE, stage |-> "sent"]]

\* handleToggleRule, handleUpdateWeight, handleUpdateBaseScore, handleToggleActive
ChangeField(s, i, f) ==
    /\ f \in Switches /\ OnPage /\ page.list[i].there
    /\ LET row == [page.list[i] EXCEPT !.val[f] = 1 - @]
       IN /\ Start(s, "field", i, {f}, row, [NoRows EXCEPT ![i] = page.list[i]])
          /\ page' = [page EXCEPT !.list[i] = row]
    /\ Contest(ContestedByStart(i, {f}))
    /\ UNCHANGED <<srv, dialog, reads, faults>>

\* handleDeleteRule, handleDeleteChainRule, after window.confirm()
Delete(s, i) ==
    /\ OnPage /\ page.list[i].there
    /\ Start(s, "delete", i, Fields, NoRow, page.list)
    /\ page' = [page EXCEPT !.list[i] = NoRow]
    /\ Contest(ContestedByDelete(i))
    /\ UNCHANGED <<srv, dialog, reads, faults>>

Patch(i, g, v) ==
    [page.list EXCEPT ![i] = IF @.there THEN With(@, g, v) ELSE @]
Ends(s) == job' = [job EXCEPT ![s] = Idle]
Answered(s, ops, stage) == job[s] # Idle /\ job[s].op \in ops /\ job[s].stage = stage

\* Success leaves the screen as it is.
Confirmed(s) ==
    /\ Answered(s, InPlace \cup {"delete"}, "ok")
    /\ Ends(s)
    /\ UNCHANGED <<srv, hist, page, dialog, reads, faults>>

\* (mutant) what is put back is read from the list as it is now
TakenBackFromList(s) ==
    /\ Answered(s, InPlace \cup {"delete"}, "err")
    /\ UNCHANGED page
    /\ Ends(s)
    /\ UNCHANGED <<srv, hist, dialog, reads, faults>>

\* Failure puts the captured value back into the row, or the captured list.
TakenBack(s) ==
    /\ Answered(s, InPlace \cup {"delete"}, "err")
    /\ page' = [page EXCEPT !.list =
                  IF job[s].op = "delete" THEN job[s].was
                  ELSE Patch(job[s].on, job[s].set, job[s].was[job[s].on].val)]
    /\ Ends(s)
    /\ UNCHANGED <<srv, hist, dialog, reads, faults>>

-----------------------------------------------------------------------------
(* The form *)

OpenForm(i) ==
    /\ IF i = None THEN HeaderShown ELSE OnPage /\ page.list[i].there
    /\ dialog' = [dialog EXCEPT !.open = TRUE, !.of = i]
    /\ UNCHANGED <<srv, hist, page, job, reads, faults>>

\* Escape closes the form, also while it is being saved.
CloseForm ==
    /\ dialog.open
    /\ dialog' = [dialog EXCEPT !.open = FALSE, !.of = None]
    /\ UNCHANGED <<srv, hist, page, job, reads, faults>>

\* The other tab is chosen, or this one again: the form is a new one, and a handler
\* that saves the form of before does not touch it.
SwitchTab ==
    /\ Tabbed /\ ~dialog.open
    /\ dialog' = [dialog EXCEPT !.here = ~@, !.saving = FALSE]
    /\ job' = [s \in Slots |-> IF job[s] = Idle THEN Idle ELSE [job[s] EXCEPT !.live = FALSE]]
    /\ UNCHANGED <<srv, hist, page, reads, faults>>

\* The detection rules' form can be submitted again while it is being saved.
FormEnabled == Tabbed => ~dialog.saving

\* handleFormSubmit, handleSubmit, with the values v.
Submit(s, i, v) ==
    /\ dialog.open /\ FormEnabled
    /\ IF dialog.of = None THEN ~page.list[i].there ELSE i = dialog.of
    /\ Start(s, IF dialog.of = None THEN "create" ELSE "update", i, Fields,
             [there |-> TRUE, val |-> v], NoRows)
    /\ dialog' = [dialog EXCEPT !.saving = Tabbed]
    /\ Contest(ContestedByStart(i, Fields))
    /\ UNCHANGED <<srv, page, reads, faults>>

\* Success: the row is added or patched, and the form, if it is still that of the
\* handler, closes.
Saved(s) ==
    /\ Answered(s, Saves, "ok")
    /\ page' = [page EXCEPT !.list =
                  IF job[s].op = "create" THEN [@ EXCEPT ![job[s].on] = job[s].row]
                  ELSE Patch(job[s].on, Fields, job[s].row.val)]
    /\ dialog' = IF job[s].live
                 THEN [dialog EXCEPT !.open = FALSE, !.of = None, !.saving = FALSE]
                 ELSE dialog
    /\ Ends(s)
    /\ UNCHANGED <<srv, hist, reads, faults>>

\* (mutant) an error in the form keeps it disabled
SaveFailedStuck(s) ==
    /\ Answered(s, Saves, "err")
    /\ Ends(s)
    /\ UNCHANGED <<srv, hist, page, dialog, reads, faults>>

\* Failure: the error is shown in the form.
SaveFailed(s) ==
    /\ Answered(s, Saves, "err")
    /\ dialog' = [dialog EXCEPT !.saving = @ /\ ~job[s].live]
    /\ Ends(s)
    /\ UNCHANGED <<srv, hist, page, reads, faults>>

-----------------------------------------------------------------------------
Requests ==
    \/ \E i \in Rules :
          \/ \E f \in Fields : Colleague(i, f) \/ \E s \in Slots : ChangeField(s, i, f)
          \/ \E s \in Slots : Delete(s, i) \/ \E v \in [Fields -> Values] : Submit(s, i, v)
    \/ Refresh

Clicks == CloseForm \/ SwitchTab \/ \E i \in Rules \cup {None} : OpenForm(i)

Answers ==
    \/ \E s \in Slots : Serve(s) \/ Confirmed(s) \/ TakenBack(s) \/ Saved(s) \/ SaveFailed(s)
    \/ \E l \in reads : PageLoaded(l)

Next ==
    \/ Requests /\ asked < MaxRequests /\ asked' = asked + 1
    \/ (Clicks \/ Answers) /\ UNCHANGED asked

Spec == Init /\ [][Next]_vars

-----------------------------------------------------------------------------
(* Properties *)

\* A field shows what the manager has once its operations are over, unless two
\* requests, or a request and a listing or a deletion, were about it at once:
\* changes in place are taken back, and do not spill over to other fields or rows.
UncontestedFieldIsExact ==
    page.loaded =>
      \A x \in (Rules \X Fields) \ hist :
         LET i == x[1]
             f == x[2]
         IN Running(i, f) = {} => /\ page.list[i].there = srv[i].there
                                  /\ page.list[i].val[f] = srv[i].val[f]

\* The skeleton is shown only while a listing is on its way, and a form disabled
\* only while it is being saved.
BusyMeansWorking ==
    /\ page.loading => reads # {}
    /\ dialog.saving => \E s \in Slots : job[s] # Idle /\ job[s].live /\ job[s].op \in Saves
=============================================================================
