----------------------------- MODULE IncidentDesk -----------------------------
(***************************************************************************)
(* The incident page of the console: the list with its quick buttons, and   *)
(* the dialog of one incident with its tabs, next to the manager's rows.    *)
(*                                                                          *)
(* The list is loaded once and after each operation of this page; nothing   *)
(* polls it.  The dialog keeps a copy of its own of the incident, and the   *)
(* tab in it a copy of the telemetry.  A deep link selects its incident     *)
(* anew whenever the list changes, also while the dialog shows another one. *)
(* No request is ever cancelled: the dialog shows whatever arrives last.    *)
(***************************************************************************)
EXTENDS Naturals, FiniteSets

CONSTANTS
    Incidents,    \* ids of the incidents
    Bare,         \* incidents without a known process: the manager makes one up
    Target,       \* the incident the deep link names, or None
    Tabs,         \* tabs of the dialog: "story", "process", "network", "notes"
    OthersSet,    \* the statuses colleagues set (bound)
    Slots,        \* handlers running at once (bound)
    MaxReads,     \* listings the user has asked for, in flight at once (bound)
    MaxRequests,  \* dialogs opened, requests of the analyst and colleagues (bound)
    MaxFaults     \* failed requests (bound)

VARIABLES
    srv,     \* the manager's rows: the status of each incident
    hist,    \* statuses each incident had, results made up by api/incidents.js,
             \* processes killed (history variable)
    page,    \* useIncidents and Incidents.jsx: list, loading, busy, assignModalInc
    dialog,  \* IncidentDetailModal and its tab
    job,     \* the handlers that are running, by slot
    reads,   \* GETs on their way
    asked,   \* requests so far
    faults

vars == <<srv, hist, page, dialog, job, reads, asked, faults>>

None == 0
Absent == "absent"
Status == {"open", "investigating", "contained", "resolved", "false_positive", "closed"}
Workflow == {"contained", "resolved", "false_positive"}
Lists == [Incidents -> Status \cup {Absent}]
Ids == Incidents \cup {None}

Idle == [op |-> "idle"]
PageOps == {"status", "assign"}
DialogOps == {"isolate", "mitigate", "kill", "workflow", "close"}
Jobs == [op : PageOps \cup DialogOps, on : Incidents, arg : Status \cup {Absent},
         live : BOOLEAN, stage : {"sent", "acting", "ok", "err", "fetching"}]

\* "of" is the incident a detail or tab listing is about, "slot" the handler
\* that waits for it.
Reads == [by : {"page", "detail", "tab", "handler"}, of : Ids, slot : Slots \cup {0},
          list : Lists]

\* "facts" is the incident whose telemetry the tab shows, "moved" once another
\* incident has been shown.
Dialogs == [sel : Ids, shown : Ids, status : Status \cup {Absent},
            busy : BOOLEAN, closing : BOOLEAN, closeOpen : BOOLEAN,
            tab : Tabs, facts : Ids, tabLoading : BOOLEAN, moved : BOOLEAN]

TypeOK ==
    /\ srv \in [Incidents -> Status]
    /\ hist \in [had : [Incidents -> SUBSET Status], madeUp : SUBSET (Incidents \X Status),
                 kills : SUBSET [on : Incidents, of : Ids, moved : BOOLEAN]]
    /\ page \in [list : Lists, loading : BOOLEAN, busy : BOOLEAN, assign : Ids]
    /\ dialog \in Dialogs
    /\ job \in [Slots -> Jobs \cup {Idle}]
    /\ reads \subseteq Reads
    /\ asked \in 0 .. MaxRequests /\ faults \in 0 .. MaxFaults

NoDialog == [sel |-> None, shown |-> None, status |-> Absent,
             busy |-> FALSE, closing |-> FALSE, closeOpen |-> FALSE,
             tab |-> "story", facts |-> None, tabLoading |-> FALSE, moved |-> FALSE]

PageRead == [by |-> "page", of |-> None, slot |-> 0, list |-> srv]

\* The page is opened: the effect of useIncidents asks for the list.
Init ==
    /\ srv = [i \in Incidents |-> "open"]
    /\ hist = [had |-> [i \in Incidents |-> {"open"}], madeUp |-> {}, kills |-> {}]
    /\ page = [list |-> [i \in Incidents |-> Absent], loading |-> TRUE,
               busy |-> FALSE, assign |-> None]
    /\ dialog = NoDialog
    /\ job = [s \in Slots |-> Idle]
    /\ reads = {PageRead}
    /\ asked = 0 /\ faults = 0

-----------------------------------------------------------------------------
(* The manager *)

Fault == faults < MaxFaults /\ faults' = faults + 1
Step(s, stage) == job' = [job EXCEPT ![s].stage = stage]
Sent(s, ops) == job[s] # Idle /\ job[s].op \in ops /\ job[s].stage = "sent"

\* A row is written; no status is out of reach from any other.
Write(i, st) ==
    /\ srv' = [srv EXCEPT ![i] = st]
    /\ hist' = [hist EXCEPT !.had[i] = @ \cup {st}]

\* Somebody else's status change.
Colleague(i, st) ==
    /\ st # srv[i]
    /\ Write(i, st)
    /\ UNCHANGED <<page, dialog, job, reads, faults>>

\* POST .../contain, /resolve, /false-positive and /assign.  When the request
\* fails, updateIncidentStatus and assignIncident make up the result it would
\* have had and hide the failure.
ServeStatus(s) ==
    /\ Sent(s, {"status", "assign", "workflow"})
    /\ \/ Write(job[s].on, job[s].arg) /\ UNCHANGED faults
       \/ /\ Fault
          /\ hist' = [hist EXCEPT !.madeUp = @ \cup {<<job[s].on, job[s].arg>>}]
          /\ UNCHANGED srv
    /\ Step(s, "ok")
    /\ UNCHANGED <<page, dialog, reads>>

\* PATCH with status and label: one transaction.
ServeClose(s) ==
    /\ Sent(s, {"close"})
    /\ \/ /\ Write(job[s].on, "closed")
          /\ (Step(s, "ok") /\ UNCHANGED faults) \/ (Step(s, "err") /\ Fault)
       \/ Step(s, "err") /\ Fault /\ UNCHANGED <<srv, hist>>
    /\ UNCHANGED <<page, dialog, reads>>

\* execute_action, isolate: create_and_apply_action commits the response action,
\* unless the agent cools down ...
ServeIsolate(s) ==
    /\ Sent(s, {"isolate"})
    /\ Step(s, "acting") \/ Step(s, "err")
    /\ UNCHANGED <<srv, hist, page, dialog, reads, faults>>

\* ... and only then the incident is contained, in a second transaction.
ContainIsolated(s) ==
    /\ job[s] # Idle /\ job[s].stage = "acting"
    /\ \/ /\ Write(job[s].on, "contained")
          /\ (Step(s, "ok") /\ UNCHANGED faults) \/ (Step(s, "err") /\ Fault)
       \/ Step(s, "err") /\ Fault /\ UNCHANGED <<srv, hist>>
    /\ UNCHANGED <<page, dialog, reads>>

\* execute_action, unisolate, kill_process_tree and block_ip: the incident's row
\* does not change.  The manager refuses what it cannot do, "refresh" always.
ServeOther(s) ==
    /\ Sent(s, {"mitigate", "kill"})
    /\ Step(s, "ok") \/ Step(s, "err")
    /\ UNCHANGED <<srv, hist, page, dialog, reads, faults>>

-----------------------------------------------------------------------------
(* The dialog's copies *)

Only(i) == [j \in Incidents |-> IF j = i THEN srv[i] ELSE Absent]
DetailRead(by, i, s) ==
    [by |-> by, of |-> i, slot |-> s, list |-> Only(i)]
TabRead(i) == [by |-> "tab", of |-> i, slot |-> 0,
               list |-> [j \in Incidents |-> Absent]]

\* The incident whose process is named as the culprit of i, in the rows of the list
\* as in the details; without one, _enrich_incident makes a process up.
Culprit(i) == IF i \in Bare THEN None ELSE i

\* Story and notes ask the manager for their incident; the process tab would for
\* one without culprit, which the manager never sends, and shows what the dialog
\* holds, like the network tab.
Fetches(d) == d.tab \in {"story", "notes"}
TabOf(d) == IF Fetches(d) THEN [d EXCEPT !.tabLoading = TRUE]
            ELSE [d EXCEPT !.facts = d.shown]
TabReads(d) == IF Fetches(d) THEN {TabRead(d.shown)} ELSE {}

\* setDetailedIncident: the dialog d shows incident i.  The process tab looks
\* again at each new copy, the others when it is another incident's.
Shows(d, i, st) ==
    [d EXCEPT !.shown = i, !.status = st,
              !.moved = @ \/ d.shown \notin {None, i}]
Looks(d, i) == d.tab = "process" \/ d.shown # i
Turn(d, i, st) ==
    LET e == Shows(d, i, st) IN IF Looks(d, i) THEN TabOf(e) ELSE e
TurnReads(d, i, st) ==
    IF Looks(d, i) THEN TabReads(Shows(d, i, st)) ELSE {}

\* setSelectedIncident(i), with the row as the list l has it: the dialog is
\* mounted with that row, or told of another one, and asks for the details.
Select(d, i, l) ==
    IF d.sel = None
    THEN Turn([NoDialog EXCEPT !.sel = i], i, l[i])
    ELSE [d EXCEPT !.sel = i]
SelectReads(d, i) ==
    IF d.sel = i THEN {}
    ELSE {DetailRead("detail", i, 0)}
         \cup (IF d.sel = None THEN {TabRead(i)} ELSE {})

\* setIncidents(l): the list changes, and the deep link selects its incident.
SetIncidents(p, l, d, rs) ==
    /\ page' = [p EXCEPT !.list = l]
    /\ IF Target # None /\ Target \in Incidents /\ l[Target] # Absent
       THEN dialog' = Select(d, Target, l) /\ reads' = rs \cup SelectReads(d, Target)
       ELSE dialog' = d /\ reads' = rs

-----------------------------------------------------------------------------
(* The page *)

RoomToRead == Cardinality({r \in reads : r.by = "page"}) < MaxReads
OnPage == dialog.sel = None /\ page.assign = None
Listed(i) == page.list[i] # Absent

\* The listing of the page comes back or fails; the list it had stays then.
PageLoaded(r) ==
    /\ r.by = "page"
    /\ \/ SetIncidents([page EXCEPT !.loading = FALSE], r.list, dialog, reads \ {r})
          /\ UNCHANGED faults
       \/ /\ Fault
          /\ page' = [page EXCEPT !.loading = FALSE]
          /\ reads' = reads \ {r}
          /\ UNCHANGED dialog
    /\ UNCHANGED <<srv, hist, job>>

\* The refresh button, and Retry where the first listing failed.
Refresh ==
    /\ OnPage /\ ~page.loading /\ RoomToRead
    /\ page' = [page EXCEPT !.loading = TRUE]
    /\ reads' = reads \cup {PageRead}
    /\ UNCHANGED <<srv, hist, dialog, job, faults>>

Start(s, op, i, arg) ==
    /\ job[s] = Idle /\ \A t \in Slots : t < s => job[t] # Idle
    /\ job' = [job EXCEPT ![s] = [op |-> op, on |-> i, arg |-> arg,
                                  live |-> TRUE, stage |-> "sent"]]

\* The Contain and Resolve buttons of a row: handleUpdateStatus, even while
\* another one is running.
QuickStatus(s, i, st) ==
    /\ OnPage /\ ~page.loading /\ Listed(i)
    /\ \/ st = "contained" /\ page.list[i] \notin {"contained", "resolved"}
       \/ st = "resolved" /\ page.list[i] # "resolved"
    /\ Start(s, "status", i, st)
    /\ page' = [page EXCEPT !.busy = TRUE]
    /\ UNCHANGED <<srv, hist, dialog, reads, faults>>

OpenAssign(i) ==
    /\ OnPage /\ ~page.loading /\ Listed(i)
    /\ page' = [page EXCEPT !.assign = i]
    /\ UNCHANGED <<srv, hist, dialog, job, reads, faults>>

CancelAssign ==
    /\ page.assign # None
    /\ page' = [page EXCEPT !.assign = None]
    /\ UNCHANGED <<srv, hist, dialog, job, reads, faults>>

\* submitAssign, disabled while the page is busy.
SubmitAssign(s) ==
    /\ dialog.sel = None /\ page.assign # None /\ ~page.busy
    /\ Start(s, "assign", page.assign, "investigating")
    /\ page' = [page EXCEPT !.busy = TRUE]
    /\ UNCHANGED <<srv, hist, dialog, reads, faults>>

HandlerRead(s) == [PageRead EXCEPT !.by = "handler", !.slot = s]

\* (mutant) the row is patched when the request is sent
StatusAnsweredEarly(s) ==
    /\ job[s] # Idle /\ job[s].op \in PageOps /\ job[s].stage \in {"sent", "ok"}
    /\ LET i == job[s].on
           l == IF Listed(i) THEN [page.list EXCEPT ![i] = job[s].arg] ELSE page.list
       IN SetIncidents(page, l, dialog, reads \cup {HandlerRead(s)})
    /\ Step(s, "fetching")
    /\ UNCHANGED <<srv, hist, faults>>

\* The answer, or what was made up for it: the row is patched and the list is
\* fetched anew.
StatusAnswered(s) ==
    /\ job[s] # Idle /\ job[s].op \in PageOps /\ job[s].stage = "ok"
    /\ LET i == job[s].on
           l == IF Listed(i) THEN [page.list EXCEPT ![i] = job[s].arg] ELSE page.list
       IN SetIncidents(page, l, dialog, reads \cup {HandlerRead(s)})
    /\ Step(s, "fetching")
    /\ UNCHANGED <<srv, hist, faults>>

\* ... and the handler ends; a failed listing is not its failure.
StatusFetched(r) ==
    LET s == r.slot
        p == [page EXCEPT !.busy = FALSE,
                          !.assign = IF job[s].op = "assign" THEN None ELSE @]
    IN /\ r.by = "handler" /\ job[s].op \in PageOps
       /\ \/ SetIncidents(p, r.list, dialog, reads \ {r}) /\ UNCHANGED faults
          \/ Fault /\ page' = p /\ reads' = reads \ {r} /\ UNCHANGED dialog
       /\ job' = [job EXCEPT ![s] = Idle]
       /\ UNCHANGED <<srv, hist>>

-----------------------------------------------------------------------------
(* The dialog *)

\* A row is clicked.
Open(i) ==
    /\ OnPage /\ ~page.loading /\ Listed(i)
    /\ dialog' = Select(dialog, i, page.list)
    /\ reads' = reads \cup SelectReads(dialog, i)
    /\ UNCHANGED <<srv, hist, page, job, faults>>

OfDialog(r) == r.by \in {"detail", "tab"} \/ (r.by = "handler" /\ job[r.slot].op \in DialogOps)

\* (mutant) what was asked for the closed window is still delivered
CloseWindowKeepsReads ==
    /\ dialog.sel # None
    /\ dialog' = NoDialog
    /\ UNCHANGED <<srv, hist, page, job, reads, faults>>

\* The dialog is unmounted: its handlers run on with their requests, what they
\* and its listings would still set is dropped.
CloseWindow ==
    /\ dialog.sel # None
    /\ dialog' = NoDialog
    /\ job' = [s \in Slots |->
                  IF job[s] = Idle \/ job[s].op \in PageOps THEN job[s]
                  ELSE IF job[s].stage = "fetching" THEN Idle
                  ELSE [job[s] EXCEPT !.live = FALSE]]
    /\ reads' = {r \in reads : ~OfDialog(r)}
    /\ UNCHANGED <<srv, hist, page, faults>>

\* The details arrive, or fail: then the row of the list is shown.
DetailArrives(r) ==
    /\ r.by = "detail" /\ dialog.sel # None
    /\ LET i == r.of
       IN \/ /\ dialog' = Turn(dialog, i, r.list[i])
             /\ reads' = (reads \ {r}) \cup TurnReads(dialog, i, r.list[i])
             /\ UNCHANGED faults
          \/ /\ Fault
             /\ dialog' = Turn(dialog, i, page.list[i])
             /\ reads' = (reads \ {r}) \cup TurnReads(dialog, i, page.list[i])
    /\ UNCHANGED <<srv, hist, page, job>>

\* The listing of a tab arrives or fails: the tab is empty then.
TabArrives(r) ==
    /\ r.by = "tab" /\ dialog.sel # None
    /\ \/ /\ dialog' = [dialog EXCEPT !.tabLoading = FALSE, !.facts = r.of]
          /\ UNCHANGED faults
       \/ /\ Fault
          /\ dialog' = [dialog EXCEPT !.tabLoading = FALSE, !.facts = None]
    /\ reads' = reads \ {r}
    /\ UNCHANGED <<srv, hist, page, job>>

InDialog == dialog.sel # None /\ ~dialog.closeOpen

\* Each tab is a component of its own, mounted anew.
SwitchTab(t) ==
    /\ InDialog /\ dialog.tab # t
    /\ LET d == [dialog EXCEPT !.tab = t, !.facts = None, !.tabLoading = FALSE]
       IN /\ dialog' = TabOf(d)
          /\ reads' = {r \in reads : r.by # "tab"} \cup TabReads(d)
    /\ UNCHANGED <<srv, hist, page, job, faults>>

\* (mutant) the buttons of the dialog stay enabled
ReadyAnyTime == InDialog

\* Operations wait for each other: their buttons are disabled by busy.
Ready == InDialog /\ ~dialog.busy

Act(s, op) ==
    /\ Ready
    /\ Start(s, op, dialog.shown, Absent)
    /\ dialog' = [dialog EXCEPT !.busy = TRUE]
    /\ UNCHANGED <<srv, page, reads, faults>>

Isolate(s) == Act(s, "isolate") /\ UNCHANGED hist

\* Releasing the host, blocking an address, "refresh".
Mitigate(s) == Act(s, "mitigate") /\ UNCHANGED hist

\* The incident whose process a kill button names.  The banner's is the culprit of
\* the incident shown; a tab's that of the incident whose telemetry it shows.
BannerKills == {Culprit(dialog.shown)}
Facts(t) == IF dialog.tab = t THEN {dialog.facts} \ {None} ELSE {}
StoryKills == IF dialog.tabLoading THEN {} ELSE Facts("story")
ProcessKills == {Culprit(i) : i \in Facts("process")}

Kill(s) ==
    /\ Act(s, "kill")
    /\ \E p \in BannerKills \cup StoryKills \cup ProcessKills :
          hist' = [hist EXCEPT !.kills = @ \cup {[on |-> dialog.shown, of |-> p,
                                                  moved |-> dialog.moved]}]

\* The lifecycle buttons of the footer: handleStatusChange.
ChangeStatus(s, st) ==
    /\ Ready /\ st \in Workflow
    /\ Start(s, "workflow", dialog.shown, st)
    /\ dialog' = [dialog EXCEPT !.busy = TRUE]
    /\ UNCHANGED <<srv, hist, page, reads, faults>>

\* "Close Incident" asks for a label and a reason.
OpenClose ==
    /\ Ready /\ ~dialog.closing
    /\ dialog' = [dialog EXCEPT !.closeOpen = TRUE]
    /\ UNCHANGED <<srv, hist, page, job, reads, faults>>

CancelClose ==
    /\ dialog.closeOpen /\ ~dialog.closing
    /\ dialog' = [dialog EXCEPT !.closeOpen = FALSE]
    /\ UNCHANGED <<srv, hist, page, job, reads, faults>>

\* handleConfirmClose, once both are filled in (isCloseValid).
ConfirmClose(s) ==
    /\ dialog.closeOpen /\ ~dialog.closing
    /\ Start(s, "close", dialog.shown, "closed")
    /\ dialog' = [dialog EXCEPT !.closing = TRUE]
    /\ UNCHANGED <<srv, hist, page, reads, faults>>

Done(d, op) == IF op = "close" THEN [d EXCEPT !.closing = FALSE] ELSE [d EXCEPT !.busy = FALSE]
Answered(s, stages) == job[s] # Idle /\ job[s].op \in DialogOps /\ job[s].stage \in stages

\* (mutant) a refused operation leaves the dialog busy
DialogRefusedStuck(s) ==
    /\ Answered(s, {"err"})
    /\ job' = [job EXCEPT ![s] = Idle]
    /\ UNCHANGED <<srv, hist, page, dialog, reads, faults>>

\* catch and finally of the dialog's handlers: nothing is fetched.
DialogRefused(s) ==
    /\ Answered(s, {"err"})
    /\ job' = [job EXCEPT ![s] = Idle]
    /\ dialog' = IF job[s].live THEN Done(dialog, job[s].op) ELSE dialog
    /\ UNCHANGED <<srv, hist, page, reads, faults>>

\* Success: the page is told to refresh and the details are asked for, of the
\* incident the handler was started on.
DialogAnswered(s) ==
    /\ Answered(s, {"ok"})
    /\ page' = [page EXCEPT !.loading = TRUE]
    /\ IF job[s].live
       THEN /\ Step(s, "fetching")
            /\ reads' = reads \cup {PageRead, DetailRead("handler", job[s].on, s)}
            /\ dialog' = IF job[s].op = "close" THEN [dialog EXCEPT !.closeOpen = FALSE]
                         ELSE dialog
       ELSE /\ job' = [job EXCEPT ![s] = Idle]
            /\ reads' = reads \cup {PageRead}
            /\ UNCHANGED dialog
    /\ UNCHANGED <<srv, hist, faults>>

DialogFetched(r) ==
    LET s == r.slot
        i == r.of
        d == Done(dialog, job[s].op)
    IN /\ r.by = "handler" /\ job[s].op \in DialogOps
       /\ \/ /\ dialog' = Turn(d, i, r.list[i])
             /\ reads' = (reads \ {r}) \cup TurnReads(d, i, r.list[i])
             /\ UNCHANGED faults
          \/ Fault /\ dialog' = d /\ reads' = reads \ {r}
       /\ job' = [job EXCEPT ![s] = Idle]
       /\ UNCHANGED <<srv, hist, page>>

-----------------------------------------------------------------------------
Requests ==
    \/ \E i \in Incidents : \/ \E st \in OthersSet : Colleague(i, st)
                            \/ Open(i) \/ OpenAssign(i)
                            \/ \E s \in Slots, st \in Status : QuickStatus(s, i, st)
    \/ \E s \in Slots : \/ SubmitAssign(s) \/ Kill(s) \/ ConfirmClose(s)
                        \/ Isolate(s) \/ Mitigate(s)
                        \/ \E st \in Status : ChangeStatus(s, st)
    \/ Refresh

Clicks ==
    \/ CancelAssign \/ CloseWindow \/ OpenClose \/ CancelClose
    \/ \E t \in Tabs : SwitchTab(t)

Answers ==
    \/ \E s \in Slots : \/ ServeStatus(s) \/ ServeClose(s) \/ ServeIsolate(s)
                        \/ ContainIsolated(s) \/ ServeOther(s)
                        \/ StatusAnswered(s) \/ DialogRefused(s) \/ DialogAnswered(s)
    \/ \E r \in reads : \/ PageLoaded(r) \/ StatusFetched(r) \/ DetailArrives(r)
                        \/ TabArrives(r) \/ DialogFetched(r)

Next ==
    \/ Requests /\ asked < MaxRequests /\ asked' = asked + 1
    \/ (Clicks \/ Answers) /\ UNCHANGED asked

Spec == Init /\ [][Next]_vars

-----------------------------------------------------------------------------
(* Properties *)

\* A status on the screen is one the incident has had, or one that api/incidents.js
\* made up for a request that failed: rows are patched after the answer only.
ShownWasTrueOrMadeUp ==
    /\ \A i \in Incidents : page.list[i] \in hist.had[i] \cup {Absent}
                                \/ <<i, page.list[i]>> \in hist.madeUp
    /\ dialog.shown # None =>
          \/ dialog.status \in hist.had[dialog.shown]
          \/ <<dialog.shown, dialog.status>> \in hist.madeUp

\* What disables buttons is being worked on: a handler that was not forgotten, or
\* a listing on its way, will enable them again.
BusyMeansWorking ==
    /\ page.loading => \E r \in reads : r.by = "page"
    /\ page.busy => \E s \in Slots : job[s] # Idle /\ job[s].op \in PageOps
    /\ dialog.busy => \E s \in Slots : job[s] # Idle /\ job[s].live
                                         /\ job[s].op \in DialogOps \ {"close"}
    /\ dialog.closing => \E s \in Slots : job[s] # Idle /\ job[s].live /\ job[s].op = "close"
    /\ dialog.tabLoading => \E r \in reads : r.by = "tab"

\* The dialog has one operation at the manager at a time, whichever of its two
\* busy flags guards it: actions, status changes and the closing of the incident.
OneWriteAtATime ==
    Cardinality({s \in Slots : /\ job[s] # Idle /\ job[s].live /\ job[s].op \in DialogOps
                               /\ job[s].stage \in {"sent", "acting"}}) <= 1

\* A process is killed on behalf of the incident it was seen in, unless the name
\* is a made-up one, or the deep link has moved the dialog from
\* one incident to another under the analyst's hands.
KillNamesOwnProcess ==
    \A k \in hist.kills : k.of \in {k.on, None} \/ k.moved
=============================================================================
