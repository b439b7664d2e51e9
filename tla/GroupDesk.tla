------------------------------ MODULE GroupDesk ------------------------------
(***************************************************************************)
(* The console's host groups: the cards of Agents.jsx with useGroups, and   *)
(* GroupDetailModal with its members tab and its two batch operations.      *)
(*                                                                          *)
(* Two requests ask for the details of a group that is opened: the page's,  *)
(* whose answer says which group is selected, and the dialog's, whose       *)
(* answer is what the dialog shows and acts on.  Neither is cancelled, and  *)
(* the dialog is never unmounted, so what was asked for one group can come  *)
(* when another one is open.                                                *)
(***************************************************************************)
EXTENDS Naturals, FiniteSets

CONSTANTS
    Groups,       \* ids of the groups
    Hosts,        \* the agents
    Slots,        \* handlers running at once (bound)
    MaxReads,     \* listings the user has asked for, in flight at once (bound)
    MaxRequests,  \* groups opened, requests of the user and colleagues (bound)
    MaxFaults     \* failed requests (bound)

VARIABLES
    srv,     \* the manager: members by group, pending and confirmed isolations
    hist,    \* contested groups, isolations and undos asked for (history)
    page,    \* useGroups: groups, loading, selectedGroup
    dialog,  \* GroupDetailModal and its confirmations
    job,     \* the handlers that are running, by slot
    reads,   \* GETs on their way
    asked,   \* requests so far
    faults

vars == <<srv, hist, page, dialog, job, reads, asked, faults>>

None == 0
GroupIds == Groups \cup {None}

\* What the console knows of a group: its members and the isolated ones.
Details == [of : Groups, members : SUBSET Hosts, isolated : SUBSET Hosts]
Nothing == [of |-> None]
Known == Details \cup {Nothing}

Idle == [op |-> "idle"]
Batches == {"isolate", "undo"}
MemberOps == {"add", "remove"}

\* "then" is the group the handler asks for afterwards, "live" whether the members
\* tab is still the one it was started from.  An isolation is "acting" while the
\* manager goes through the members "left", "acted" once it has isolated one.
Jobs == [op : Batches \cup MemberOps \cup {"delete"}, on : Groups, host : Hosts \cup {None},
         then : GroupIds, live : BOOLEAN, left : SUBSET Hosts,
         stage : {"sent", "acting", "acted", "ok", "err", "fetching"}]

\* By the page's list, the page's selection, the dialog or a handler of it.
Reads == [by : {"list", "select", "dialog", "handler"}, slot : Slots \cup {0},
          of : GroupIds, cards : SUBSET Details]

TypeOK ==
    /\ srv \in [members : [Groups -> SUBSET Hosts], gone : SUBSET Groups,
                pending : SUBSET Hosts, isolated : SUBSET Hosts]
    /\ hist \in [contested : SUBSET Groups,
                 isolations : SUBSET [on : Groups, named : GroupIds],
                 undos : SUBSET [on : Groups, of : Groups, moved : BOOLEAN]]
    /\ page \in [cards : SUBSET Details, loading : BOOLEAN, selected : Known]
    /\ dialog \in [open : BOOLEAN, shown : Known, loading : BOOLEAN, busy : BOOLEAN,
                   confirm : Batches \cup {"none"}, named : GroupIds, of : GroupIds,
                   adding : BOOLEAN, removing : Hosts \cup {None}, moved : BOOLEAN]
    /\ job \in [Slots -> Jobs \cup {Idle}]
    /\ reads \subseteq Reads
    /\ asked \in 0 .. MaxRequests /\ faults \in 0 .. MaxFaults

Closed == [open |-> FALSE, shown |-> Nothing, loading |-> FALSE, busy |-> FALSE,
           confirm |-> "none", named |-> None, of |-> None,
           adding |-> FALSE, removing |-> None, moved |-> FALSE]

\* GET /groups/{id}
Detail(g) == [of |-> g, members |-> srv.members[g],
              isolated |-> srv.members[g] \cap srv.isolated]

\* fetchGroups: the list, and the details of every group in it.
ListRead == [by |-> "list", slot |-> 0, of |-> None,
             cards |-> {Detail(g) : g \in Groups \ srv.gone}]
DetailRead(by, g, s) == [by |-> by, slot |-> s, of |-> g,
                         cards |-> IF g \in srv.gone THEN {} ELSE {Detail(g)}]

Init ==
    /\ srv = [members |-> [g \in Groups |-> {h \in Hosts : h >= g}], gone |-> {},
              pending |-> {}, isolated |-> {h \in Hosts : \A i \in Hosts : i <= h}]
    /\ hist = [contested |-> {}, isolations |-> {}, undos |-> {}]
    /\ page = [cards |-> {}, loading |-> TRUE, selected |-> Nothing]
    /\ dialog = Closed
    /\ job = [s \in Slots |-> Idle]
    /\ reads = {ListRead}
    /\ asked = 0 /\ faults = 0

-----------------------------------------------------------------------------
(* Contested groups: what one request does can hide what another did *)

Dialogs == {r \in reads : r.by \in {"dialog", "handler"}}
Running(g) == {s \in Slots : job[s] # Idle /\ job[s].on = g}
ContestedByStart(g) == IF Running(g) # {} \/ Dialogs # {} THEN {g} ELSE {}
ContestedByRead(g) ==
    IF \E s \in Running(g) : job[s].stage = "sent" THEN {g} ELSE {}

Contest(gs) == hist' = [hist EXCEPT !.contested = @ \cup gs]

-----------------------------------------------------------------------------
(* The manager *)

Fault == faults < MaxFaults /\ faults' = faults + 1
Step(s, stage) == job' = [job EXCEPT ![s].stage = stage]
Sent(s, ops) == job[s] # Idle /\ job[s].op \in ops /\ job[s].stage = "sent"
There(g) == g \notin srv.gone
Acting(s) == job[s] # Idle /\ job[s].stage \in {"acting", "acted"}

\* Somebody else adds or removes a member.
Colleague(g, h) ==
    /\ There(g)
    /\ srv' = [srv EXCEPT !.members[g] = IF h \in @ THEN @ \ {h} ELSE @ \cup {h}]
    /\ Contest({g})
    /\ UNCHANGED <<page, dialog, job, reads, faults>>

\* The answer of what was done, or of what was not; it may be lost, and then the
\* page takes what was done for a failure.
Answer(s) ==
    \/ Step(s, "ok") /\ UNCHANGED <<hist, faults>>
    \/ Step(s, "err") /\ Fault /\ Contest({job[s].on})
Refuse(s) == Step(s, "err") /\ UNCHANGED <<srv, hist>>

\* add_agents_to_group, remove_agent_from_group: each one transaction.
ServeMember(s) ==
    /\ Sent(s, MemberOps)
    /\ LET g == job[s].on
           h == job[s].host
       IN \/ /\ There(g)
             /\ srv' = [srv EXCEPT !.members[g] = IF job[s].op = "add" THEN @ \cup {h}
                                                  ELSE @ \ {h}]
             /\ Answer(s)
          \/ Refuse(s) /\ IF There(g) THEN Fault ELSE UNCHANGED faults
    /\ UNCHANGED <<page, dialog, reads>>

\* delete_group, with its memberships.
ServeDelete(s) ==
    /\ Sent(s, {"delete"})
    /\ LET g == job[s].on
       IN \/ /\ There(g)
             /\ srv' = [srv EXCEPT !.gone = @ \cup {g}, !.members[g] = {}]
             /\ Answer(s)
          \/ Refuse(s) /\ IF There(g) THEN Fault ELSE UNCHANGED faults
    /\ UNCHANGED <<page, dialog, reads>>

\* execute_group_action reads the members ...
ServeIsolate(s) ==
    /\ Sent(s, {"isolate"})
    /\ IF There(job[s].on)
       THEN job' = [job EXCEPT ![s].stage = "acting", ![s].left = srv.members[job[s].on]]
       ELSE Step(s, "err")
    /\ UNCHANGED <<srv, hist, page, dialog, reads, faults>>

\* ... and creates an action of its own for each, in a transaction of its own.  The
\* isolation is pending until the agent reports.
IsolateMember(s, h) ==
    /\ Acting(s) /\ h \in job[s].left
    /\ srv' = [srv EXCEPT !.pending = @ \cup {h}]
    /\ job' = [job EXCEPT ![s].stage = "acted", ![s].left = @ \ {h}]
    /\ UNCHANGED <<hist, page, dialog, reads, faults>>

\* The members that are left have failed, as one that cools down does.  The answer
\* is a success even so, unless none was isolated and one did cool down.
IsolateAnswers(s) ==
    /\ Acting(s)
    /\ \/ Answer(s)
       \/ /\ job[s].stage = "acting" /\ job[s].left # {}
          /\ Step(s, "err") /\ UNCHANGED <<hist, faults>>
    /\ UNCHANGED <<srv, page, dialog, reads>>

\* rollback_group_actions: what is applied on the members is undone; pending
\* isolations are not applied yet.
ServeUndo(s) ==
    /\ Sent(s, {"undo"})
    /\ \/ /\ There(job[s].on)
          /\ srv' = [srv EXCEPT !.isolated = @ \ srv.members[job[s].on]]
          /\ Answer(s)
       \/ Refuse(s) /\ IF There(job[s].on) THEN Fault ELSE UNCHANGED faults
    /\ UNCHANGED <<page, dialog, reads>>

Report(h) ==
    /\ h \in srv.pending
    /\ srv' = [srv EXCEPT !.pending = @ \ {h}, !.isolated = @ \cup {h}]
    /\ UNCHANGED <<hist, page, dialog, job, reads, faults>>

-----------------------------------------------------------------------------
(* The page *)

Visible == dialog.open /\ page.selected # Nothing
OnCards == ~Visible
Card(g) == {c \in page.cards : c.of = g}
RoomToRead == Cardinality({r \in reads : r.by = "list"}) < MaxReads

\* fetchGroups ends.  A card whose details failed gets no members, and says
\* "Normal"; if the list failed, the cards stay as they are.
ListArrives(r) ==
    /\ r.by = "list"
    /\ \/ page' = [page EXCEPT !.cards = r.cards, !.loading = FALSE] /\ UNCHANGED faults
       \/ /\ \E c \in r.cards :
                page' = [page EXCEPT !.loading = FALSE,
                           !.cards = (r.cards \ {c})
                                     \cup {[c EXCEPT !.members = {}, !.isolated = {}]}]
          /\ Fault
       \/ page' = [page EXCEPT !.loading = FALSE] /\ Fault
    /\ reads' = reads \ {r}
    /\ UNCHANGED <<srv, hist, dialog, job>>

Refresh ==
    /\ OnCards /\ RoomToRead
    /\ page' = [page EXCEPT !.loading = TRUE]
    /\ reads' = reads \cup {ListRead}
    /\ UNCHANGED <<srv, hist, dialog, job, faults>>

\* handleOpenDetail: the card is selected, the page and the dialog ask for its
\* details.  Requests for another group may still come, or the confirmation
\* of a group that was deleted under it.
Open(g) ==
    /\ OnCards /\ Card(g) # {}
    /\ page' = [page EXCEPT !.selected = CHOOSE c \in Card(g) : TRUE]
    /\ LET late == {r \in reads : r.by # "list" /\ r.of # g} # {} \/ \E s \in Slots : job[s] # Idle
       IN dialog' = [dialog EXCEPT !.open = TRUE, !.loading = TRUE,
                                   !.moved = late \/ dialog.confirm # "none"]
    /\ reads' = reads \cup {DetailRead("select", g, 0), DetailRead("dialog", g, 0)}
    /\ Contest(ContestedByRead(g))
    /\ UNCHANGED <<srv, job, faults>>

\* fetchGroupDetail of the page ends: its group is the selected one, which the
\* dialog looks up if it is open with another one.
SelectArrives(r) ==
    /\ r.by = "select"
    /\ \/ /\ r.cards # {}
          /\ \E c \in r.cards :
                /\ page' = [page EXCEPT !.selected = c]
                /\ IF dialog.open /\ page.selected.of # c.of
                   THEN /\ dialog' = [dialog EXCEPT !.loading = TRUE]
                        /\ reads' = (reads \ {r}) \cup {DetailRead("dialog", c.of, 0)}
                        /\ Contest(ContestedByRead(c.of))
                   ELSE UNCHANGED <<dialog, hist>> /\ reads' = reads \ {r}
          /\ UNCHANGED faults
       \/ /\ IF r.cards # {} THEN Fault ELSE UNCHANGED faults
          /\ reads' = reads \ {r}
          /\ UNCHANGED <<page, dialog, hist>>
    /\ UNCHANGED <<srv, job>>

Start(s, op, g, h) ==
    /\ job[s] = Idle /\ \A t \in Slots : t < s => job[t] # Idle
    /\ job' = [job EXCEPT ![s] = [op |-> op, on |-> g, host |-> h, then |-> page.selected.of,
                                  live |-> TRUE, left |-> {}, stage |-> "sent"]]

\* handleDeleteGroup, after confirm()
Delete(s, g) ==
    /\ OnCards /\ Card(g) # {}
    /\ Start(s, "delete", g, None)
    /\ Contest({g})
    /\ UNCHANGED <<srv, page, dialog, reads, faults>>

Ends(s) == job' = [job EXCEPT ![s] = Idle]
Answered(s, ops, stage) == job[s] # Idle /\ job[s].op \in ops /\ job[s].stage = stage

\* What is unmounted with the dialog: the members tab, and the name typed.
Unmounted(d) == [d EXCEPT !.named = None, !.adding = FALSE, !.removing = None]
Outlived(j) == IF j = Idle THEN Idle ELSE [j EXCEPT !.live = FALSE]

\* The card goes; the dialog goes with it if it was selected when the handler
\* started, but stays open, and with it a confirmation of the undo.
Deleted(s) ==
    /\ Answered(s, {"delete"}, "ok")
    /\ page' = [page EXCEPT !.cards = @ \ Card(job[s].on),
                            !.selected = IF job[s].then = job[s].on THEN Nothing ELSE @]
    /\ IF job[s].then = job[s].on
       THEN /\ dialog' = Unmounted(dialog)
            /\ job' = [t \in Slots |-> IF t = s THEN Idle ELSE Outlived(job[t])]
       ELSE UNCHANGED dialog /\ Ends(s)
    /\ UNCHANGED <<srv, hist, reads, faults>>

NotDeleted(s) ==
    /\ Answered(s, {"delete"}, "err")
    /\ Ends(s)
    /\ UNCHANGED <<srv, hist, page, dialog, reads, faults>>

-----------------------------------------------------------------------------
(* The dialog *)

\* currentGroup: what the dialog shows is not always the group that is selected.
Current == IF dialog.shown # Nothing THEN dialog.shown ELSE page.selected

\* What was typed, or asked for, goes with the confirmation.
Unconfirmed(d) == [d EXCEPT !.confirm = "none", !.named = None, !.of = None]

\* Not while a batch is running.  Escape closes a confirmation along with it; the
\* members tab is unmounted.
Close ==
    /\ Visible /\ ~dialog.busy
    /\ dialog' = [Unmounted(Unconfirmed(dialog)) EXCEPT !.open = FALSE, !.moved = FALSE]
    /\ job' = [s \in Slots |-> Outlived(job[s])]
    /\ UNCHANGED <<srv, hist, page, reads, faults>>

\* setGroupDetail: a new copy clears the typed name.
Shows(d, c) == [d EXCEPT !.shown = c, !.loading = FALSE, !.named = None,
                         !.moved = @ \/ (d.open /\ d.shown.of \notin {None, c.of})]

\* fetchDetail ends; a failure leaves what is shown.
DialogArrives(r) ==
    /\ r.by = "dialog"
    /\ \/ /\ \E c \in r.cards : dialog' = Shows(dialog, c)
          /\ UNCHANGED <<hist, faults>>
       \/ /\ dialog' = [dialog EXCEPT !.loading = FALSE]
          /\ IF r.cards # {} THEN Fault ELSE UNCHANGED faults
          /\ Contest({r.of})
    /\ reads' = reads \ {r}
    /\ UNCHANGED <<srv, page, job>>

InDialog == Visible /\ dialog.confirm = "none"

\* AddAgentDropdown: one host at a time, of those the group shown does not have.
Available(h) == h \notin Current.members
AddEnabled == InDialog /\ ~dialog.adding

Add(s, h) ==
    /\ AddEnabled /\ Available(h)
    /\ Start(s, "add", Current.of, h)
    /\ dialog' = [dialog EXCEPT !.adding = TRUE]
    /\ Contest(ContestedByStart(Current.of))
    /\ UNCHANGED <<srv, page, reads, faults>>

\* GroupMembersTab: the row is disabled, until another one is removed.
RowEnabled(h) == InDialog /\ h \in Current.members /\ dialog.removing # h

Remove(s, h) ==
    /\ RowEnabled(h)
    /\ Start(s, "remove", Current.of, h)
    /\ dialog' = [dialog EXCEPT !.removing = h]
    /\ Contest(ContestedByStart(Current.of))
    /\ UNCHANGED <<srv, page, reads, faults>>

Footer == InDialog /\ ~dialog.busy /\ ~dialog.loading

OpenIsolate ==
    /\ Footer /\ Current.members # {} /\ Current.isolated = {}
    /\ dialog' = [dialog EXCEPT !.confirm = "isolate", !.named = None]
    /\ UNCHANGED <<srv, hist, page, job, reads, faults>>

OpenUndo ==
    /\ Footer /\ Current.isolated # {}
    /\ dialog' = [dialog EXCEPT !.confirm = "undo", !.of = Current.of]
    /\ UNCHANGED <<srv, hist, page, job, reads, faults>>

\* The analyst types the name of a group, the right one or not.
TypeName(g) ==
    /\ Visible /\ dialog.confirm = "isolate" /\ ~dialog.busy /\ dialog.named = None
    /\ dialog' = [dialog EXCEPT !.named = g]
    /\ UNCHANGED <<srv, hist, page, job, reads, faults>>

\* The isolation cannot be cancelled while it is sent; the undo can be hidden.
CancelConfirm ==
    /\ Visible /\ dialog.confirm # "none" /\ (dialog.confirm = "isolate" => ~dialog.busy)
    /\ dialog' = Unconfirmed(dialog)
    /\ UNCHANGED <<srv, hist, page, job, reads, faults>>

\* (mutant) a name is enough, whosever it is
CanSubmitAnyName == dialog.named # None /\ ~dialog.busy

\* canSubmit
CanSubmit == dialog.named = Current.of /\ Current.members # {} /\ ~dialog.busy

\* handleConfirmIsolate
ConfirmIsolate(s) ==
    /\ Visible /\ dialog.confirm = "isolate" /\ CanSubmit
    /\ Start(s, "isolate", Current.of, None)
    /\ dialog' = [dialog EXCEPT !.busy = TRUE]
    /\ hist' = [hist EXCEPT !.contested = @ \cup ContestedByStart(Current.of),
                            !.isolations = @ \cup {[on |-> Current.of, named |-> dialog.named]}]
    /\ UNCHANGED <<srv, page, reads, faults>>

\* (mutant) the group is that of the page's selection
ConfirmUndoOfSelected(s) ==
    /\ Visible /\ dialog.confirm = "undo" /\ ~dialog.busy
    /\ Start(s, "undo", page.selected.of, None)
    /\ dialog' = [dialog EXCEPT !.busy = TRUE]
    /\ hist' = [hist EXCEPT !.contested = @ \cup ContestedByStart(Current.of),
                            !.undos = @ \cup {[on |-> page.selected.of, of |-> dialog.of,
                                               moved |-> dialog.moved]}]
    /\ UNCHANGED <<srv, page, reads, faults>>

\* handleConfirmRollback: the group shown by now.
ConfirmUndo(s) ==
    /\ Visible /\ dialog.confirm = "undo" /\ ~dialog.busy
    /\ Start(s, "undo", Current.of, None)
    /\ dialog' = [dialog EXCEPT !.busy = TRUE]
    /\ hist' = [hist EXCEPT !.contested = @ \cup ContestedByStart(Current.of),
                            !.undos = @ \cup {[on |-> Current.of, of |-> dialog.of,
                                               moved |-> dialog.moved]}]
    /\ UNCHANGED <<srv, page, reads, faults>>

\* finally: what the handler had disabled is enabled.
Done(d, j) ==
    IF j.op \in Batches
    THEN [IF j.op = "undo" THEN Unconfirmed(d) ELSE d EXCEPT !.busy = FALSE]
    ELSE IF ~j.live THEN d
    ELSE IF j.op = "add" THEN [d EXCEPT !.adding = FALSE] ELSE [d EXCEPT !.removing = None]

\* Success: fetchDetail, of the group that was selected when the handler started.
Succeeded(s) ==
    /\ Answered(s, Batches \cup MemberOps, "ok")
    /\ Step(s, "fetching")
    /\ reads' = reads \cup {DetailRead("handler", job[s].then, s)}
    /\ dialog' = [IF job[s].op \in Batches THEN Unconfirmed(dialog) ELSE dialog
                  EXCEPT !.loading = TRUE]
    /\ Contest(ContestedByRead(job[s].then)
               \cup (IF job[s].then # job[s].on THEN {job[s].on} ELSE {}))
    /\ UNCHANGED <<srv, page, faults>>

\* (mutant) a refused batch leaves the dialog busy
FailedStuck(s) ==
    /\ Answered(s, Batches \cup MemberOps, "err")
    /\ Ends(s)
    /\ dialog' = IF job[s].op \in MemberOps THEN Done(dialog, job[s]) ELSE dialog
    /\ UNCHANGED <<srv, hist, page, reads, faults>>

\* Failure: a message, and nothing is asked for.
Failed(s) ==
    /\ Answered(s, Batches \cup MemberOps, "err")
    /\ Ends(s)
    /\ dialog' = Done(dialog, job[s])
    /\ UNCHANGED <<srv, hist, page, reads, faults>>

\* (mutant) the answer is dropped
FetchedUnshown(r) ==
    /\ r.by = "handler"
    /\ dialog' = Done([dialog EXCEPT !.loading = FALSE], job[r.slot])
    /\ page' = [page EXCEPT !.loading = TRUE]
    /\ reads' = (reads \ {r}) \cup {ListRead}
    /\ Ends(r.slot)
    /\ UNCHANGED <<srv, hist, faults>>

\* fetchDetail of a handler ends, and the page is told to list the groups anew.
Fetched(r) ==
    /\ r.by = "handler"
    /\ \/ /\ \E c \in r.cards : dialog' = Done(Shows(dialog, c), job[r.slot])
          /\ UNCHANGED <<hist, faults>>
       \/ /\ dialog' = Done([dialog EXCEPT !.loading = FALSE], job[r.slot])
          /\ IF r.cards # {} THEN Fault ELSE UNCHANGED faults
          /\ Contest({r.of})
    /\ page' = [page EXCEPT !.loading = TRUE]
    /\ reads' = (reads \ {r}) \cup {ListRead}
    /\ Ends(r.slot)
    /\ UNCHANGED srv

-----------------------------------------------------------------------------
Requests ==
    \/ \E g \in Groups : \/ Open(g) \/ \E h \in Hosts : Colleague(g, h)
                         \/ \E s \in Slots : Delete(s, g)
    \/ \E s \in Slots : \/ ConfirmIsolate(s) \/ ConfirmUndo(s)
                        \/ \E h \in Hosts : Add(s, h) \/ Remove(s, h)
    \/ Refresh

Clicks ==
    \/ Close \/ OpenIsolate \/ OpenUndo \/ CancelConfirm
    \/ \E g \in Groups : TypeName(g)

Answers ==
    \/ \E h \in Hosts : Report(h)
    \/ \E s \in Slots : \/ ServeMember(s) \/ ServeDelete(s) \/ ServeIsolate(s)
                        \/ \E h \in Hosts : IsolateMember(s, h)
                        \/ IsolateAnswers(s) \/ ServeUndo(s)
                        \/ Deleted(s) \/ NotDeleted(s) \/ Succeeded(s) \/ Failed(s)
    \/ \E r \in reads : \/ ListArrives(r) \/ SelectArrives(r) \/ DialogArrives(r) \/ Fetched(r)

Next ==
    \/ Requests /\ asked < MaxRequests /\ asked' = asked + 1
    \/ (Clicks \/ Answers) /\ UNCHANGED asked

Spec == Init /\ [][Next]_vars

-----------------------------------------------------------------------------
(* Properties *)

\* Hosts are cut off in batches only for a group whose name was typed while the
\* dialog showed it, and an undo, which asks for no name, is that of the group it
\* was asked for, unless answers for another group have moved the dialog, or its
\* group was deleted under the confirmation and another one opened.
BatchNamesItsGroup ==
    /\ \A i \in hist.isolations : i.named = i.on
    /\ \A u \in hist.undos : u.on = u.of \/ u.moved

\* Once nothing of a group is on its way, the dialog shows the members it has,
\* unless requests about it crossed or failed.
SettledMembersAreExact ==
    LET g == dialog.shown.of
    IN /\ Visible /\ dialog.shown # Nothing /\ g \notin hist.contested
       /\ Running(g) = {} /\ Dialogs = {}
       => dialog.shown.members = srv.members[g]

\* What disables buttons is being worked on.
BusyMeansWorking ==
    /\ page.loading => \E r \in reads : r.by = "list"
    /\ dialog.loading => Dialogs # {}
    /\ dialog.busy => \E s \in Slots : job[s] # Idle /\ job[s].op \in Batches
    /\ dialog.adding => \E s \in Slots : job[s] # Idle /\ job[s].op = "add"
    /\ dialog.removing # None => \E s \in Slots : job[s] # Idle /\ job[s].op = "remove"
=============================================================================
