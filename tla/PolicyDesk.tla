------------------------------ MODULE PolicyDesk ------------------------------
(***************************************************************************)
(* The policy page of the console: the table with its optimistic toggle,    *)
(* the form that creates or edits a policy, and the simulator, whose        *)
(* "Apply Now (Live)" has the manager execute what it evaluates.            *)
(*                                                                          *)
(* Every operation patches the list where it stands when the answer comes;  *)
(* creating and editing also fetch it anew.  Rows change behind the page as *)
(* well.  The simulator evaluates by itself shortly after an input changes. *)
(***************************************************************************)
EXTENDS Naturals, FiniteSets

CONSTANTS
    Policies,     \* ids of the policies, 1 is there from the start
    Slots,        \* handlers running at once (bound)
    MaxReads,     \* listings the user has asked for, in flight at once (bound)
    MaxRequests,  \* requests of the user and colleagues (bound)
    MaxFaults     \* failed requests (bound)

VARIABLES
    srv,     \* the manager's policies: id -> is_active
    hist,    \* contested rows, live executions, their confirmations (history)
    page,    \* usePolicies: policies, loading, and whether a listing has arrived
    dialog,  \* PolicyFormModal or PolicyDryRunPanel
    job,     \* the handlers that are running, by slot
    reads,   \* listings on their way: for the page (0) or a handler
    asked,   \* requests so far
    faults

vars == <<srv, hist, page, dialog, job, reads, asked, faults>>

None == 0
Absent == "absent"
Lists == [Policies -> {"on", "off", Absent}]
Flip(v) == IF v = "on" THEN "off" ELSE "on"

Idle == [op |-> "idle"]
Saves == {"create", "update"}
Evaluations == {"dry", "live"}

\* "was" is the value the toggle restores; "executed" is what the answer to an
\* evaluation says.
Jobs == [op : Saves \cup {"delete", "toggle"} \cup Evaluations,
         on : Policies \cup {None}, arg : {"on", "off", Absent},
         was : {"on", "off", Absent}, executed : BOOLEAN,
         stage : {"sent", "ok", "err", "fetching"}]

Dialogs == [kind : {"none", "form", "panel"}, of : Policies \cup {None},
            submitting : BOOLEAN, timer : BOOLEAN, evaluating : BOOLEAN,
            result : BOOLEAN, live : BOOLEAN, confirm : BOOLEAN, executing : BOOLEAN]

TypeOK ==
    /\ srv \in Lists
    /\ hist \in [contested : SUBSET Policies, executed : 0 .. MaxRequests,
                 confirmed : 0 .. MaxRequests]
    /\ page \in [list : Lists, loading : BOOLEAN, loaded : BOOLEAN]
    /\ dialog \in Dialogs
    /\ job \in [Slots -> Jobs \cup {Idle}]
    /\ reads \subseteq [by : Slots \cup {0}, list : Lists]
    /\ asked \in 0 .. MaxRequests /\ faults \in 0 .. MaxFaults

PageRead == [by |-> 0, list |-> srv]

Init ==
    /\ srv = [p \in Policies |-> IF p = 1 THEN "on" ELSE Absent]
    /\ hist = [contested |-> {}, executed |-> 0, confirmed |-> 0]
    /\ page = [list |-> [p \in Policies |-> Absent], loading |-> TRUE, loaded |-> FALSE]
    /\ dialog = [kind |-> "none", of |-> None, submitting |-> FALSE, timer |-> FALSE,
                 evaluating |-> FALSE, result |-> FALSE, live |-> FALSE,
                 confirm |-> FALSE, executing |-> FALSE]
    /\ job = [s \in Slots |-> Idle]
    /\ reads = {PageRead}
    /\ asked = 0 /\ faults = 0

-----------------------------------------------------------------------------
(* Contested rows: what one request does to them can hide what another did *)

Running(p) == {s \in Slots : job[s] # Idle /\ job[s].op \notin Evaluations
                             /\ job[s].on = p /\ job[s].stage # "fetching"}

\* An operation on p starts: next to another one on p, or to a listing that may
\* be from before it.
ContestedByStart(p) == IF Running(p) # {} \/ reads # {} THEN {p} ELSE {}

\* A listing is asked for while an operation may still be unserved.
ContestedByRead == {p \in Policies : \E s \in Running(p) : job[s].stage = "sent"}

Contest(ps) == hist' = [hist EXCEPT !.contested = @ \cup ps]

-----------------------------------------------------------------------------
(* The manager *)

Fault == faults < MaxFaults /\ faults' = faults + 1
Step(s, stage) == job' = [job EXCEPT ![s].stage = stage]
Sent(s, ops) == job[s] # Idle /\ job[s].op \in ops /\ job[s].stage = "sent"

\* Somebody else switches a policy.
Colleague(p) ==
    /\ srv[p] # Absent
    /\ srv' = [srv EXCEPT ![p] = Flip(@)]
    /\ Contest({p})
    /\ UNCHANGED <<page, dialog, job, reads, faults>>

\* POST, PUT or DELETE /policies: one transaction; a policy that is gone is
\* refused with 404.  The answer may be lost: then the handler takes what was
\* done for a failure.
ServeWrite(s) ==
    /\ Sent(s, Saves \cup {"delete", "toggle"})
    /\ LET p == job[s].on
           found == job[s].op = "create" \/ srv[p] # Absent
       IN \/ /\ found
             /\ srv' = [srv EXCEPT ![p] = job[s].arg]
             /\ \/ Step(s, "ok") /\ UNCHANGED <<hist, faults>>
                \/ Step(s, "err") /\ Fault /\ Contest({p})
          \/ /\ Step(s, "err")
             /\ IF found THEN Fault ELSE UNCHANGED faults
             /\ UNCHANGED <<srv, hist>>
    /\ UNCHANGED <<page, dialog, reads>>

\* POST /policies/evaluate: evaluate_and_execute.  Scores, bands and scopes are
\* left out, so any policy may match, or none; then the graduated response takes
\* over, which four of its five levels carry out at once, while the fifth only
\* raises an alert.  Every answer names a policy, if only "Graduated ...".
ServeEvaluation(s) ==
    /\ Sent(s, Evaluations)
    /\ \E executed \in IF job[s].op = "live" THEN BOOLEAN ELSE {FALSE} :
        /\ hist' = IF executed THEN [hist EXCEPT !.executed = @ + 1] ELSE hist
        /\ \/ /\ job' = [job EXCEPT ![s].stage = "ok", ![s].executed = executed]
              /\ UNCHANGED faults
           \/ Step(s, "err") /\ Fault
    /\ UNCHANGED <<srv, page, dialog, reads>>

-----------------------------------------------------------------------------
(* The table: usePolicies *)

\* (mutant) what a failed request left is taken for a list
PageLoadedUnchecked(r) ==
    /\ r.by = 0
    /\ \/ page' = [list |-> r.list, loading |-> FALSE, loaded |-> TRUE] /\ UNCHANGED faults
       \/ page' = [page EXCEPT !.list = << >>, !.loading = FALSE] /\ Fault
    /\ reads' = reads \ {r}
    /\ UNCHANGED <<srv, hist, dialog, job>>

\* fetchPolicies succeeds or fails: the list it had stays then.
PageLoaded(r) ==
    /\ r.by = 0
    /\ \/ page' = [list |-> r.list, loading |-> FALSE, loaded |-> TRUE] /\ UNCHANGED faults
       \/ page' = [page EXCEPT !.loading = FALSE] /\ Fault
    /\ reads' = reads \ {r}
    /\ UNCHANGED <<srv, hist, dialog, job>>

RoomToRead == Cardinality({r \in reads : r.by = 0}) < MaxReads
OnPage == dialog.kind = "none"

\* The refresh button, disabled while loading, and Retry.
Refresh ==
    /\ OnPage /\ ~page.loading /\ RoomToRead
    /\ page' = [page EXCEPT !.loading = TRUE]
    /\ reads' = reads \cup {PageRead}
    /\ Contest(ContestedByRead)
    /\ UNCHANGED <<srv, dialog, job, faults>>

Start(s, op, p, arg, was) ==
    /\ job[s] = Idle /\ \A t \in Slots : t < s => job[t] # Idle
    /\ job' = [job EXCEPT ![s] = [op |-> op, on |-> p, arg |-> arg, was |-> was,
                                  executed |-> FALSE, stage |-> "sent"]]

Shown(p) == page.list[p] # Absent

\* handleToggleActive: the row is switched before the request is answered.
Toggle(s, p) ==
    /\ OnPage /\ Shown(p)
    /\ Start(s, "toggle", p, Flip(page.list[p]), page.list[p])
    /\ page' = [page EXCEPT !.list[p] = Flip(@)]
    /\ Contest(ContestedByStart(p))
    /\ UNCHANGED <<srv, dialog, reads, faults>>

\* handleDeletePolicy, after confirm(): the row goes when the answer is there.
Delete(s, p) ==
    /\ OnPage /\ Shown(p)
    /\ Start(s, "delete", p, Absent, Absent)
    /\ Contest(ContestedByStart(p))
    /\ UNCHANGED <<srv, page, dialog, reads, faults>>

Patch(p, v) == [page.list EXCEPT ![p] = IF @ = Absent THEN Absent ELSE v]
Ends(s) == job' = [job EXCEPT ![s] = Idle]
Answered(s, ops, stage) == job[s] # Idle /\ job[s].op \in ops /\ job[s].stage = stage

\* (mutant) a failed toggle leaves the row switched
RowAnsweredNoRestore(s) ==
    /\ \/ Answered(s, {"toggle", "delete"}, "ok")
          /\ page' = [page EXCEPT !.list = Patch(job[s].on, job[s].arg)]
       \/ Answered(s, {"toggle", "delete"}, "err") /\ UNCHANGED page
    /\ Ends(s)
    /\ UNCHANGED <<srv, hist, dialog, reads, faults>>

\* The answer is merged into the row, or the row removed; a failed toggle puts
\* the value back that it was started on.
RowAnswered(s) ==
    /\ \/ Answered(s, {"toggle", "delete"}, "ok")
          /\ page' = [page EXCEPT !.list = Patch(job[s].on, job[s].arg)]
       \/ Answered(s, {"toggle"}, "err")
          /\ page' = [page EXCEPT !.list = Patch(job[s].on, job[s].was)]
       \/ Answered(s, {"delete"}, "err") /\ UNCHANGED page
    /\ Ends(s)
    /\ UNCHANGED <<srv, hist, dialog, reads, faults>>

-----------------------------------------------------------------------------
(* The form *)

\* "Create Policy" (None) or the edit button of a row.
OpenForm(p) ==
    /\ OnPage /\ (p # None => Shown(p))
    /\ dialog' = [dialog EXCEPT !.kind = "form", !.of = p]
    /\ UNCHANGED <<srv, hist, page, job, reads, faults>>

\* Cancel or Escape, neither while the form is being submitted.
CloseForm ==
    /\ dialog.kind = "form" /\ ~dialog.submitting
    /\ dialog' = [dialog EXCEPT !.kind = "none"]
    /\ UNCHANGED <<srv, hist, page, job, reads, faults>>

Creating(p) == \E s \in Slots : job[s] # Idle /\ job[s].op = "create" /\ job[s].on = p

\* handleSubmit with the active box as v: canSubmit excludes a second one.  The
\* manager gives a new policy an id of its own.
Submit(s, p, v) ==
    /\ dialog.kind = "form" /\ ~dialog.submitting
    /\ IF dialog.of = None THEN srv[p] = Absent /\ ~Creating(p) ELSE p = dialog.of
    /\ Start(s, IF dialog.of = None THEN "create" ELSE "update", p, v, Absent)
    /\ dialog' = [dialog EXCEPT !.submitting = TRUE]
    /\ Contest(ContestedByStart(p))
    /\ UNCHANGED <<srv, page, reads, faults>>

\* Success: the row is appended or patched, and the list is fetched anew.
Saved(s) ==
    /\ Answered(s, Saves, "ok")
    /\ LET p == job[s].on
       IN page' = [page EXCEPT !.loading = TRUE,
                     !.list = IF job[s].op = "create" THEN [@ EXCEPT ![p] = job[s].arg]
                              ELSE Patch(p, job[s].arg)]
    /\ Step(s, "fetching")
    /\ reads' = reads \cup {[PageRead EXCEPT !.by = s]}
    /\ Contest(ContestedByRead)
    /\ UNCHANGED <<srv, dialog, faults>>

\* ... the form closes when that is over, whether it came or failed.
SaveEnds(r) ==
    LET s == r.by
    IN /\ s # 0
       /\ \/ page' = [list |-> r.list, loading |-> FALSE, loaded |-> TRUE] /\ UNCHANGED faults
          \/ page' = [page EXCEPT !.loading = FALSE] /\ Fault
       /\ Ends(s)
       /\ reads' = reads \ {r}
       /\ dialog' = [dialog EXCEPT !.kind = "none", !.submitting = FALSE]
       /\ UNCHANGED <<srv, hist>>

\* Failure: the form stays open with the error.
SaveFailed(s) ==
    /\ Answered(s, Saves, "err")
    /\ Ends(s)
    /\ dialog' = [dialog EXCEPT !.submitting = FALSE]
    /\ UNCHANGED <<srv, hist, page, reads, faults>>

-----------------------------------------------------------------------------
(* The simulator *)

InPanel == dialog.kind = "panel" /\ ~dialog.confirm

\* The test button of a row.  The inputs and the result are reset, which starts
\* the timer of the automatic evaluation; "loading" is not: the panel is never
\* unmounted, and what it asked for when it was open before may still come.
OpenPanel(p) ==
    /\ OnPage /\ Shown(p)
    /\ dialog' = [dialog EXCEPT !.kind = "panel", !.of = p, !.timer = TRUE,
                                !.result = FALSE, !.live = FALSE, !.confirm = FALSE]
    /\ UNCHANGED <<srv, hist, page, job, reads, faults>>

\* The window, or Escape, which closes the confirmation over it as well.
ClosePanel ==
    /\ dialog.kind = "panel"
    /\ dialog' = [dialog EXCEPT !.kind = "none", !.timer = FALSE, !.confirm = FALSE]
    /\ UNCHANGED <<srv, hist, page, job, reads, faults>>

\* The agent or the score is changed: the result stays until the timer fires.
ChangeInput ==
    /\ InPanel /\ ~dialog.timer
    /\ dialog' = [dialog EXCEPT !.timer = TRUE]
    /\ UNCHANGED <<srv, hist, page, job, reads, faults>>

SetMode(live) ==
    /\ InPanel /\ dialog.live # live
    /\ dialog' = [dialog EXCEPT !.live = live]
    /\ UNCHANGED <<srv, hist, page, job, reads, faults>>

\* runEvaluation
Evaluate(s, op, d) ==
    /\ Start(s, op, None, Absent, Absent)
    /\ dialog' = [d EXCEPT !.evaluating = TRUE]
    /\ UNCHANGED <<srv, page, reads, faults>>

\* (mutant) the automatic evaluation follows the mode
TimerFiresInMode(s) ==
    /\ dialog.timer
    /\ Evaluate(s, IF dialog.live THEN "live" ELSE "dry", [dialog EXCEPT !.timer = FALSE])
    /\ UNCHANGED hist

\* The timer evaluates without executing, in either mode.
TimerFires(s) ==
    /\ dialog.timer
    /\ Evaluate(s, "dry", [dialog EXCEPT !.timer = FALSE])
    /\ UNCHANGED hist

ReEvaluate(s) ==
    /\ InPanel /\ ~dialog.evaluating
    /\ Evaluate(s, "dry", dialog)
    /\ UNCHANGED hist

\* "Apply Now (Live)" is there once a result is; it asks for a confirmation.
OpenConfirm ==
    /\ InPanel /\ dialog.live /\ dialog.result /\ ~dialog.evaluating
    /\ dialog' = [dialog EXCEPT !.confirm = TRUE]
    /\ UNCHANGED <<srv, hist, page, job, reads, faults>>

CancelConfirm ==
    /\ dialog.kind = "panel" /\ dialog.confirm
    /\ dialog' = [dialog EXCEPT !.confirm = FALSE]
    /\ UNCHANGED <<srv, hist, page, job, reads, faults>>

\* handleExecuteLive.  The button is never disabled: its "loading" is no
\* property of Button.
ConfirmLive(s) ==
    /\ dialog.kind = "panel" /\ dialog.confirm
    /\ Evaluate(s, "live", [dialog EXCEPT !.executing = TRUE])
    /\ hist' = [hist EXCEPT !.confirmed = @ + 1]

\* (mutant) a failed evaluation leaves the panel loading
EvaluationEndsStuck(s) ==
    /\ Answered(s, Evaluations, "ok") \/ Answered(s, Evaluations, "err")
    /\ Ends(s)
    /\ LET ok == job[s].stage = "ok"
       IN dialog' = [dialog EXCEPT !.evaluating = @ /\ ~ok,
                                   !.result = @ \/ ok,
                                   !.confirm = @ /\ job[s].op = "dry",
                                   !.executing = @ /\ job[s].op = "dry"]
    /\ UNCHANGED <<srv, hist, page, reads, faults>>

\* The answer: the last one is shown.  A live evaluation closes the confirmation
\* either way; one that has executed has the list fetched anew.
EvaluationEnds(s) ==
    /\ Answered(s, Evaluations, "ok") \/ Answered(s, Evaluations, "err")
    /\ Ends(s)
    /\ LET ok == job[s].stage = "ok"
           executed == ok /\ job[s].executed
       IN /\ dialog' = [dialog EXCEPT !.evaluating = FALSE,
                                      !.result = @ \/ ok,
                                      !.confirm = @ /\ job[s].op = "dry",
                                      !.executing = @ /\ job[s].op = "dry"]
          /\ page' = IF executed THEN [page EXCEPT !.loading = TRUE] ELSE page
          /\ reads' = IF executed THEN reads \cup {PageRead} ELSE reads
          /\ Contest(IF executed THEN ContestedByRead ELSE {})
    /\ UNCHANGED <<srv, faults>>

-----------------------------------------------------------------------------
Requests ==
    \/ \E p \in Policies : \/ Colleague(p)
                           \/ \E s \in Slots : \/ Toggle(s, p) \/ Delete(s, p)
                                               \/ \E v \in {"on", "off"} : Submit(s, p, v)
    \/ \E s \in Slots : TimerFires(s) \/ ReEvaluate(s) \/ ConfirmLive(s)
    \/ Refresh

Clicks ==
    \/ \E p \in Policies \cup {None} : OpenForm(p)
    \/ \E p \in Policies : OpenPanel(p)
    \/ \E live \in BOOLEAN : SetMode(live)
    \/ CloseForm \/ ClosePanel \/ ChangeInput \/ OpenConfirm \/ CancelConfirm

Answers ==
    \/ \E s \in Slots : \/ ServeWrite(s) \/ ServeEvaluation(s) \/ RowAnswered(s)
                        \/ Saved(s) \/ SaveFailed(s) \/ EvaluationEnds(s)
    \/ \E r \in reads : PageLoaded(r) \/ SaveEnds(r)

Next ==
    \/ Requests /\ asked < MaxRequests /\ asked' = asked + 1
    \/ (Clicks \/ Answers) /\ UNCHANGED asked

Spec == Init /\ [][Next]_vars

-----------------------------------------------------------------------------
(* Properties *)

\* A row shows what the manager has once its operation is over, if no other
\* request got in its way: optimistic switches are taken back, merged answers and
\* fetched lists agree, also with operations on other rows in between.
UncontestedRowIsExact ==
    page.loaded => \A p \in Policies \ hist.contested :
                      Running(p) = {} => page.list[p] = srv[p]

\* The simulator has nothing executed that was not confirmed, neither a policy nor
\* the graduated response, whatever the mode is, whenever its timer fires and
\* however late an answer comes.
NothingRunsUnconfirmed == hist.executed <= hist.confirmed

\* What disables buttons is being worked on: the table's loading, the form's
\* submitting, the simulator's loading and its live execution.
BusyMeansWorking ==
    /\ page.loading => reads # {}
    /\ dialog.submitting => \E s \in Slots : job[s] # Idle /\ job[s].op \in Saves
    /\ dialog.evaluating => \E s \in Slots : job[s] # Idle /\ job[s].op \in Evaluations
    /\ dialog.executing => \E s \in Slots : job[s] # Idle /\ job[s].op = "live"
=============================================================================
