--------------------------- MODULE ProcessGroupDesk ---------------------------
(***************************************************************************)
(* The console's table of process groups (ProcessGroupsTab.jsx with the     *)
(* hook useProcessGroups), the other tab of the chain rules' page.  It      *)
(* works like the tables of rules (RuleDesk), but nothing in it is changed  *)
(* in place, a new row is appended, and the manager does not delete a group *)
(* that a chain rule refers to.                                             *)
(***************************************************************************)
EXTENDS Naturals, FiniteSets

CONSTANTS
    Groups,       \* ids of the groups; all but the last are there from the start
    Slots,        \* handlers running at once (bound)
    MaxReads,     \* listings in flight at once (bound)
    MaxRequests,  \* requests of the user and colleagues (bound)
    MaxFaults     \* failed requests (bound)

VARIABLES
    srv,     \* the manager's groups
    hist,    \* patterns that more than one request was about (history variable)
    page,    \* useProcessGroups: groups, loading, and whether they are a listing's
    dialog,  \* the form of ProcessGroupsTab
    job,     \* the handlers that are running, by slot
    reads,   \* listings on their way
    asked,   \* requests so far
    faults

vars == <<srv, hist, page, dialog, job, reads, asked, faults>>

\* The patterns stand for all that the form holds.
Table == INSTANCE RuleDesk
         WITH Rules <- Groups, Fields <- {"patterns"}, Switches <- {}, Tabbed <- TRUE

Init == Table!Init

-----------------------------------------------------------------------------
(* The manager *)

\* The requests of api/processGroups.js.
Serve(s) == Table!Serve(s)

\* 409: a chain rule refers to the group.
RefuseToDelete(s) ==
    /\ Table!Answered(s, {"delete"}, "sent")
    /\ Table!Step(s, "err")
    /\ UNCHANGED <<srv, hist, page, dialog, reads, faults>>

-----------------------------------------------------------------------------
(* ProcessChainManager and useProcessGroups *)

SwitchTab == Table!SwitchTab

\* loadGroups
GroupsLoaded(l) == Table!PageLoaded(l)

\* handleCreateGroup, handleUpdateGroup: the answer is added or merged.
Saved(s) == Table!Saved(s)

\* handleDeleteGroup: nothing more, or the whole list as it was.
DeletedOrPutBack(s) == Table!Confirmed(s) \/ Table!TakenBack(s)

-----------------------------------------------------------------------------
(* ProcessGroupsTab *)

\* Refresh and Add are shown at any time, the rows not while a listing is awaited.
Header == Table!HeaderShown
GroupShown(g) == Table!OnPage /\ page.list[g].there

Refresh == Header /\ Table!Refresh

\* openCreateModal, openEditModal
OpenForm(g) ==
    /\ IF g = Table!None THEN Header ELSE GroupShown(g)
    /\ Table!OpenForm(g)

\* Also while it is being saved: only Cancel and the submit button are disabled.
CloseForm == Table!CloseForm

\* handleSubmit, with the patterns p.
Submit(s, g, p) == Table!Submit(s, g, [f \in {"patterns"} |-> p])

\* ... its catch and finally
SaveFailed(s) == Table!SaveFailed(s)

\* onDelete, after window.confirm()
Delete(s, g) == GroupShown(g) /\ Table!Delete(s, g)

-----------------------------------------------------------------------------
Requests ==
    \/ \E g \in Groups :
          \/ Table!Colleague(g, "patterns")
          \/ \E s \in Slots : Delete(s, g) \/ \E p \in Table!Values : Submit(s, g, p)
    \/ Refresh

Clicks == CloseForm \/ SwitchTab \/ \E g \in Groups \cup {Table!None} : OpenForm(g)

Answers ==
    \/ \E s \in Slots : \/ Serve(s) \/ RefuseToDelete(s)
                        \/ Saved(s) \/ SaveFailed(s) \/ DeletedOrPutBack(s)
    \/ \E l \in reads : GroupsLoaded(l)

Next ==
    \/ Requests /\ asked < MaxRequests /\ asked' = asked + 1
    \/ (Clicks \/ Answers) /\ UNCHANGED asked

Spec == Init /\ [][Next]_vars

-----------------------------------------------------------------------------
(* Properties *)

\* The variables keep the types they have in RuleDesk.
TypeOK == Table!TypeOK

\* A refused deletion puts the groups back as the manager has them, unless something
\* else was under way; like every row of RuleDesk's tables.
UncontestedGroupIsExact == Table!UncontestedFieldIsExact

\* The skeleton and the disabled form end.
BusyMeansWorking == Table!BusyMeansWorking
=============================================================================
