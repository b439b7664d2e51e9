----------------------------- MODULE ProcessDesk -----------------------------
(***************************************************************************)
(* The console's process tree of one host: ProcessTree.jsx with the hook    *)
(* useProcessTree and KillProcessModal.                                     *)
(*                                                                          *)
(* The host is chosen by the user, by the address of the page or by the     *)
(* page itself when the list of agents changes.  Each choice asks for the   *)
(* host's processes; until they come the flagged ones of the host before    *)
(* stay on the screen.  No listing is cancelled, and none is checked for    *)
(* whose it is.  A pid names a process on one host only.                    *)
(***************************************************************************)
EXTENDS Naturals, FiniteSets

CONSTANTS
    Agents,       \* the hosts
    MaxReads,     \* listings in flight at once (bound)
    MaxRequests,  \* kills confirmed and hosts chosen (bound)
    MaxFaults     \* failed requests (bound)

VARIABLES
    srv,     \* kill commands the manager has accepted, by host (history): two
             \* for a confirmation, and the first request chose a host
    hist,    \* kills confirmed: the host named, the pid's host, was it unsettled
    page,    \* selectedAgentId, processTree, loading, killing, tab, timers
    dialog,  \* KillProcessModal: the host of the process in it, loading
    job,     \* handleKill
    reads,   \* listings on their way, by host
    asked,   \* requests so far
    faults

vars == <<srv, hist, page, dialog, job, reads, asked, faults>>

None == 0
HostIds == Agents \cup {None}
Views == {"priority", "all"}
Idle == [op |-> "idle"]

\* "on" is the host the handler names; "stage": the page's own request, the
\* hook's request, the timer of 1.5 s, the listing after it.
Jobs == [op : {"kill"}, on : Agents,
         stage : {"first", "firstOk", "firstErr", "second", "secondOk", "secondErr",
                  "timer", "fetching"}]

TypeOK ==
    /\ srv \in [Agents -> 0 .. 2 * (MaxRequests - 1)]
    /\ hist \subseteq [on : Agents, of : Agents, unsettled : BOOLEAN]
    /\ page \in [agent : HostIds, tree : HostIds, tab : Views, loading : BOOLEAN,
                 killing : BOOLEAN, refresh : HostIds, unsettled : BOOLEAN]
    /\ dialog \in [of : HostIds, loading : BOOLEAN, unsettled : BOOLEAN]
    /\ job \in Jobs \cup {Idle}
    /\ reads \subseteq [of : Agents, quiet : BOOLEAN, after : BOOLEAN]
    /\ asked \in 0 .. MaxRequests /\ faults \in 0 .. MaxFaults

NoDialog == [of |-> None, loading |-> FALSE, unsettled |-> FALSE]

Init ==
    /\ srv = [a \in Agents |-> 0]
    /\ hist = {}
    /\ page = [agent |-> None, tree |-> None, tab |-> "all", loading |-> FALSE,
               killing |-> FALSE, refresh |-> None, unsettled |-> FALSE]
    /\ dialog = NoDialog
    /\ job = Idle
    /\ reads = {}
    /\ asked = 0 /\ faults = 0

-----------------------------------------------------------------------------
(* The manager *)

Fault == faults < MaxFaults /\ faults' = faults + 1
Step(stage) == job' = [job EXCEPT !.stage = stage]
At(stage) == job # Idle /\ job.stage = stage

\* POST /process/{agent}/process/{pid}/kill: create_and_apply_action makes a
\* response action of it, or refuses it, for the cooldown of the agent for one.
\* The answer may be lost.
ServeKill ==
    /\ \E n \in {"first", "second"} :
          /\ At(n)
          /\ \/ /\ srv' = [srv EXCEPT ![job.on] = @ + 1]
                /\ \/ Step(IF n = "first" THEN "firstOk" ELSE "secondOk") /\ UNCHANGED faults
                   \/ Step(IF n = "first" THEN "firstErr" ELSE "secondErr") /\ Fault
             \/ /\ Step(IF n = "first" THEN "firstErr" ELSE "secondErr")
                /\ UNCHANGED <<srv, faults>>
    /\ UNCHANGED <<hist, page, dialog, reads>>

-----------------------------------------------------------------------------
(* useProcessTree *)

\* (mutant) the host is changed without asking for its processes
ChooseQuietly(a) ==
    /\ a # page.agent
    /\ page' = [page EXCEPT !.agent = a,
                            !.unsettled = reads # {} \/ page.killing]
    /\ reads' = reads
    /\ dialog' = [dialog EXCEPT !.unsettled = dialog.of # None]
    /\ UNCHANGED <<srv, hist, job, faults>>

\* The host changes: the effect asks for its processes.  If listings or a kill
\* of the host before are still on their way, they can come after its own.
Choose(a) ==
    /\ a # page.agent
    /\ page' = [page EXCEPT !.agent = a, !.loading = TRUE,
                            !.unsettled = reads # {} \/ page.killing
                                          \/ page.refresh # None \/ job # Idle]
    /\ reads' = reads \cup {[of |-> a, quiet |-> FALSE, after |-> FALSE]}
    /\ dialog' = [dialog EXCEPT !.unsettled = dialog.of # None]
    /\ UNCHANGED <<srv, hist, job, faults>>

\* The dropdown, disabled while killing.
ChooseHost(a) == page.agent # None /\ ~page.killing /\ dialog = NoDialog /\ Choose(a)

\* The effects of the address and of the agents' list: at any time.
HostChosen(a) == Choose(a)

Reads(a) == Cardinality({r \in reads : r.of = a}) < MaxReads

\* Every 30 seconds, quietly.
Poll ==
    /\ page.agent # None /\ Reads(page.agent)
    /\ reads' = reads \cup {[of |-> page.agent, quiet |-> TRUE, after |-> FALSE]}
    /\ UNCHANGED <<srv, hist, page, dialog, job, faults>>

\* The refresh button, disabled while killing.
Refresh ==
    /\ page.agent # None /\ ~page.killing /\ dialog = NoDialog /\ Reads(page.agent)
    /\ page' = [page EXCEPT !.loading = TRUE]
    /\ reads' = reads \cup {[of |-> page.agent, quiet |-> FALSE, after |-> FALSE]}
    /\ UNCHANGED <<srv, hist, dialog, job, faults>>

\* fetchData: what arrives is shown, whosever it is; a failure shows nothing.
\* The listing after a kill ends "killing" as well, if no later kill has begun.
Arrives(r) ==
    /\ \/ page' = [page EXCEPT !.tree = r.of, !.loading = @ /\ r.quiet,
                               !.killing = @ /\ ~r.after]
          /\ UNCHANGED faults
       \/ page' = [page EXCEPT !.tree = None, !.loading = @ /\ r.quiet,
                               !.killing = @ /\ ~r.after]
          /\ Fault
    /\ reads' = reads \ {r}
    /\ job' = IF r.after THEN Idle ELSE job
    /\ UNCHANGED <<srv, hist, dialog>>

SwitchTab(t) ==
    /\ page.tab # t /\ dialog = NoDialog
    /\ page' = [page EXCEPT !.tab = t]
    /\ UNCHANGED <<srv, hist, dialog, job, reads, faults>>

-----------------------------------------------------------------------------
(* Killing *)

\* "loading" hides the full tree, not the flagged processes.
FlaggedShown == page.tab = "priority"
TreeShown == page.tab = "all" /\ ~page.loading
Listed == page.tree # None /\ (FlaggedShown \/ TreeShown)

\* Kill buttons: disabled={killing}
CanKill == Listed /\ ~page.killing

\* openKillModal
OpenKill ==
    /\ CanKill /\ dialog = NoDialog
    /\ dialog' = [of |-> page.tree, loading |-> FALSE,
                  unsettled |-> page.unsettled \/ reads # {}]
    /\ UNCHANGED <<srv, hist, page, job, reads, faults>>

\* Cancel, Escape: not while loading.
CancelKill ==
    /\ dialog.of # None /\ ~dialog.loading
    /\ dialog' = NoDialog
    /\ UNCHANGED <<srv, hist, page, job, reads, faults>>

\* handleConfirm and handleKill: the process in the dialog, on the host selected
\* now.  The page sends the kill itself ...
ConfirmKill ==
    /\ dialog.of # None /\ ~dialog.loading /\ page.agent # None /\ job = Idle
    /\ job' = [op |-> "kill", on |-> page.agent, stage |-> "first"]
    /\ dialog' = [dialog EXCEPT !.loading = TRUE]
    /\ hist' = hist \cup {[on |-> page.agent, of |-> dialog.of,
                           unsettled |-> dialog.unsettled]}
    /\ UNCHANGED <<srv, page, reads, faults>>

\* ... and has the hook send it once more.
HookKills ==
    /\ At("firstOk")
    /\ Step("second")
    /\ page' = [page EXCEPT !.killing = TRUE]
    /\ UNCHANGED <<srv, hist, dialog, reads, faults>>

\* The hook takes the process off the tree and sets its timer; the page sets
\* another one, and the modal closes.
KillSent ==
    /\ At("secondOk")
    /\ Step("timer")
    /\ page' = [page EXCEPT !.refresh = job.on]
    /\ dialog' = NoDialog
    /\ UNCHANGED <<srv, hist, reads, faults>>

\* (mutant) the hook's catch forgets setKilling(false)
KillFailedStuck ==
    /\ At("firstErr") \/ At("secondErr")
    /\ job' = Idle
    /\ dialog' = [dialog EXCEPT !.loading = FALSE]
    /\ UNCHANGED <<srv, hist, page, reads, faults>>

\* The modal stays open with the error, also when only the second request failed.
KillFailed ==
    /\ At("firstErr") \/ At("secondErr")
    /\ job' = Idle
    /\ page' = [page EXCEPT !.killing = @ /\ At("firstErr")]
    /\ dialog' = [dialog EXCEPT !.loading = FALSE]
    /\ UNCHANGED <<srv, hist, reads, faults>>

\* The timers: each lists the host of the kill, whichever is selected by now.
TimerFires ==
    /\ At("timer")
    /\ Step("fetching")
    /\ reads' = reads \cup {[of |-> job.on, quiet |-> TRUE, after |-> TRUE]}
    /\ UNCHANGED <<srv, hist, page, dialog, faults>>

RefreshFires ==
    /\ page.refresh # None
    /\ reads' = reads \cup {[of |-> page.refresh, quiet |-> FALSE, after |-> FALSE]}
    /\ page' = [page EXCEPT !.refresh = None, !.loading = TRUE]
    /\ UNCHANGED <<srv, hist, dialog, job, faults>>

-----------------------------------------------------------------------------
Requests == ConfirmKill \/ \E a \in Agents : ChooseHost(a) \/ HostChosen(a)
Clicks == OpenKill \/ CancelKill \/ Refresh \/ \E t \in Views : SwitchTab(t)
Browser == \/ Poll \/ HookKills \/ KillSent \/ KillFailed \/ TimerFires \/ RefreshFires
           \/ ServeKill
           \/ \E r \in reads : Arrives(r)

Next ==
    \/ Requests /\ asked < MaxRequests /\ asked' = asked + 1
    \/ (Clicks \/ Browser) /\ UNCHANGED asked

Spec == Init /\ [][Next]_vars

-----------------------------------------------------------------------------
(* Properties *)

\* Once the processes of the selected host have come, with nothing of the host
\* before on its way, a kill names a pid of the host it is sent to.
SettledKillNamesOwnPid == \A k \in hist : k.of = k.on \/ k.unsettled

\* "Dispatching Kill", and with it every disabled button, ends: a request, a
\* timer or a listing is still to come that ends it.
KillingMeansWorking ==
    /\ page.killing => job # Idle
    /\ At("fetching") => \E r \in reads : r.after
    /\ page.loading => \E r \in reads : ~r.quiet
=============================================================================
