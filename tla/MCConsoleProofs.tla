-------------------------- MODULE MCConsoleProofs --------------------------
(***************************************************************************)
(* Proofs about the console's pages (MCConsole), one part per desk: for any *)
(* number of rows, requests, handlers, listings and failures.               *)
(***************************************************************************)
EXTENDS MCConsole, TLAPS, FiniteSetTheorems

-----------------------------------------------------------------------------
(* The process tree *)

\* The types of its state and of its listings.
ProcessPages == [agent : K!HostIds, tree : K!HostIds, tab : K!Views, loading : BOOLEAN,
                 killing : BOOLEAN, refresh : K!HostIds, unsettled : BOOLEAN]
ProcessDialogs == [of : K!HostIds, loading : BOOLEAN, unsettled : BOOLEAN]
ProcessListings == [of : Agents, quiet : BOOLEAN, after : BOOLEAN]

\* Of two requests that a confirmed kill sends, so many may still be served.
KillsLeft(j) ==
    IF j = K!Idle THEN 0
    ELSE IF j.stage = "first" THEN 2
    ELSE IF j.stage \in {"firstOk", "second"} THEN 1
    ELSE 0

\* The first request chose a host, and a confirmed kill is served twice at most.
KillsAreCounted ==
    /\ page.agent # K!None => asked > 0
    /\ \A a \in Agents : \/ srv[a] = 0 /\ KillsLeft(job) = 0
                         \/ srv[a] + KillsLeft(job) <= 2 * (asked - 1)

\* All that is shown, asked for or will be asked for is the selected host's,
\* unless "unsettled" says that it may be another one's.
OfSelectedHost(a) == a = page.agent \/ page.unsettled
SettledIsSelected ==
    /\ page.tree # K!None => OfSelectedHost(page.tree) \/ reads # {}
    /\ page.refresh # K!None => OfSelectedHost(page.refresh)
    /\ \A r \in reads : OfSelectedHost(r.of)
    /\ job # K!Idle => OfSelectedHost(job.on)
    /\ dialog.of # K!None => dialog.of = page.agent \/ dialog.unsettled

\* "killing" begins with the hook's request.
KillingIsHooks == page.killing => job # K!Idle /\ job.stage \notin {"first", "firstOk", "firstErr"}

ProcessInv ==
    /\ K!TypeOK /\ KillsAreCounted
    /\ SettledIsSelected /\ K!SettledKillNamesOwnPid
    /\ K!KillingMeansWorking /\ KillingIsHooks

\* The parts of a record keep their kinds when one of them changes.
LEMMA ProcessFields ==
    ASSUME K!TypeOK
    PROVE  /\ page.agent \in K!HostIds /\ page.tree \in K!HostIds /\ page.refresh \in K!HostIds
           /\ page.tab \in K!Views /\ page.loading \in BOOLEAN /\ page.killing \in BOOLEAN
           /\ page.unsettled \in BOOLEAN
           /\ dialog.of \in K!HostIds /\ dialog.loading \in BOOLEAN /\ dialog.unsettled \in BOOLEAN
           /\ \A r \in reads : r.of \in Agents /\ r.quiet \in BOOLEAN /\ r.after \in BOOLEAN
           /\ job # K!Idle => job \in K!Jobs /\ job.on \in Agents
           /\ asked \in Nat /\ faults \in Nat
           /\ \A a \in Agents : srv[a] \in Nat
BY BoundsAssumption DEF K!TypeOK, K!Jobs

LEMMA ProcessInit ==
    ASSUME K!Init
    PROVE  ProcessInv
<1>1. K!TypeOK
  BY BoundsAssumption DEF K!Init, K!TypeOK, K!NoDialog, K!HostIds, K!Views, K!None
<1>2. KillsAreCounted
  BY DEF K!Init, KillsAreCounted, KillsLeft
<1> QED
  BY <1>1, <1>2 DEF K!Init, K!NoDialog, ProcessInv, SettledIsSelected, K!SettledKillNamesOwnPid,
     K!KillingMeansWorking, KillingIsHooks, K!At, K!None, K!Idle

\* What a new stage of the handler leaves of it.
LEMMA ProcessJobStep ==
    ASSUME K!TypeOK, job # K!Idle,
           NEW stage \in {"first", "firstOk", "firstErr", "second", "secondOk", "secondErr",
                          "timer", "fetching"},
           K!Step(stage)
    PROVE  /\ job' \in K!Jobs /\ job' # K!Idle
           /\ job'.on = job.on /\ job'.stage = stage
<1>1. job \in K!Jobs
  BY DEF K!TypeOK
<1>2. job' \in K!Jobs /\ job'.on = job.on /\ job'.stage = stage /\ job'.op = "kill"
  BY <1>1 DEF K!Step, K!Jobs
<1> QED
  BY <1>2 DEF K!Idle

LEMMA ServeKillKeeps ==
    ASSUME ProcessInv, K!ServeKill, UNCHANGED asked
    PROVE  ProcessInv'
<1>1. PICK n \in {"first", "second"} :
        /\ K!At(n)
        /\ \/ /\ srv' = [srv EXCEPT ![job.on] = @ + 1]
              /\ \/ K!Step(IF n = "first" THEN "firstOk" ELSE "secondOk") /\ UNCHANGED faults
                 \/ K!Step(IF n = "first" THEN "firstErr" ELSE "secondErr") /\ K!Fault
           \/ /\ K!Step(IF n = "first" THEN "firstErr" ELSE "secondErr")
              /\ UNCHANGED <<srv, faults>>
  BY DEF K!ServeKill
<1>2. UNCHANGED <<hist, page, dialog, reads, asked>>
  BY DEF K!ServeKill
<1>3. K!TypeOK /\ job # K!Idle /\ job.stage = n
  BY <1>1 DEF ProcessInv, K!At
<1>4. PICK stage \in {"firstOk", "firstErr", "secondOk", "secondErr"} :
        K!Step(stage) /\ (n = "second" => stage \in {"secondOk", "secondErr"})
  BY <1>1
<1>5. job' \in K!Jobs /\ job' # K!Idle /\ job'.on = job.on /\ job'.stage = stage
  BY <1>3, <1>4, ProcessJobStep
<1>6. KillsLeft(job') + 1 <= KillsLeft(job) /\ KillsLeft(job') \in Nat /\ KillsLeft(job) \in Nat
  BY <1>3, <1>4, <1>5 DEF KillsLeft
<1>7. srv' \in [Agents -> Nat] /\ \A a \in Agents : srv'[a] \in {srv[a], srv[a] + 1}
  BY <1>1, <1>3, ProcessFields DEF K!TypeOK
<1>8. KillsAreCounted'
  <2>1. ASSUME NEW a \in Agents PROVE srv'[a] + KillsLeft(job') <= 2 * (asked - 1)
    <3>1. srv[a] + KillsLeft(job) <= 2 * (asked - 1)
      BY <1>6 DEF ProcessInv, KillsAreCounted
    <3>2. srv[a] \in Nat /\ srv'[a] \in {srv[a], srv[a] + 1} /\ asked \in Nat
      BY <1>3, <1>7, ProcessFields
    <3> QED
      BY <1>6, <3>1, <3>2
  <2> QED
    BY <2>1, <1>2 DEF ProcessInv, KillsAreCounted
<1>9. K!TypeOK'
  <2>1. \A a \in Agents : srv'[a] \in 0 .. 2 * (MaxProcessRequests - 1)
    BY <1>8, <1>2, <1>3, <1>6, <1>7, BoundsAssumption DEF KillsAreCounted, K!TypeOK
  <2>2. faults' \in 0 .. MaxFaults
    BY <1>1, <1>3, BoundsAssumption DEF K!TypeOK, K!Fault
  <2> QED
    BY <1>2, <1>3, <1>5, <1>7, <2>1, <2>2 DEF K!TypeOK
<1>10. SettledIsSelected' /\ K!SettledKillNamesOwnPid'
  BY <1>2, <1>3, <1>5 DEF ProcessInv, SettledIsSelected, OfSelectedHost, K!SettledKillNamesOwnPid
<1>11. K!KillingMeansWorking' /\ KillingIsHooks'
  BY <1>2, <1>3, <1>4, <1>5 DEF ProcessInv, K!KillingMeansWorking, KillingIsHooks, K!At
<1> QED
  BY <1>8, <1>9, <1>10, <1>11 DEF ProcessInv

\* Steps that change neither the handler nor what it has done.
LEMMA KillsStayCounted ==
    ASSUME ProcessInv, UNCHANGED <<srv, job>>, asked' \in Nat, asked' >= asked,
           page'.agent = page.agent \/ asked' > 0
    PROVE  KillsAreCounted'
<1>1. KillsLeft(job') = KillsLeft(job) /\ KillsLeft(job) \in Nat
  BY DEF KillsLeft
<1>2. asked \in Nat /\ \A a \in Agents : srv[a] \in Nat
  BY ProcessFields DEF ProcessInv
<1>3. ASSUME NEW a \in Agents
      PROVE  \/ srv[a] = 0 /\ KillsLeft(job) = 0
             \/ srv[a] + KillsLeft(job) <= 2 * (asked' - 1)
  BY <1>1, <1>2 DEF ProcessInv, KillsAreCounted
<1> QED
  BY <1>1, <1>2, <1>3 DEF ProcessInv, KillsAreCounted

LEMMA ChooseKeeps ==
    ASSUME ProcessInv, NEW a \in Agents, K!Choose(a), asked < MaxProcessRequests, asked' = asked + 1
    PROVE  ProcessInv'
<1> DEFINE new == [of |-> a, quiet |-> FALSE, after |-> FALSE]
<1>1. /\ reads' = reads \cup {new} /\ dialog' = [dialog EXCEPT !.unsettled = dialog.of # K!None]
      /\ UNCHANGED <<srv, hist, job, faults>>
  BY DEF K!Choose
<1>2. K!TypeOK /\ new \in ProcessListings /\ new.of = a /\ ~new.quiet
  BY DEF ProcessInv, ProcessListings
<1> HIDE DEF new
<1>3. page' \in ProcessPages /\ dialog' \in ProcessDialogs
  BY <1>1, <1>2 DEF K!Choose, K!TypeOK, K!HostIds, ProcessPages, ProcessDialogs
<1>4. /\ page'.agent = a /\ page'.tree = page.tree /\ page'.refresh = page.refresh
      /\ page'.killing = page.killing
  BY <1>2 DEF K!Choose, K!TypeOK
<1>5. /\ dialog'.of = dialog.of /\ (dialog.of # K!None => dialog'.unsettled)
      /\ (reads # {} \/ page.refresh # K!None \/ job # K!Idle => page'.unsettled)
  BY <1>1, <1>2 DEF K!Choose, K!TypeOK
<1>6. asked \in Nat
  BY <1>2, ProcessFields
<1>7. KillsAreCounted'
  BY <1>1, <1>6, KillsStayCounted
<1>8. K!TypeOK'
  BY <1>1, <1>2, <1>3, <1>6, BoundsAssumption
     DEF K!TypeOK, ProcessPages, ProcessDialogs, ProcessListings
<1>9. SettledIsSelected' /\ K!SettledKillNamesOwnPid'
  BY <1>1, <1>2, <1>4, <1>5 DEF ProcessInv, SettledIsSelected, OfSelectedHost, K!SettledKillNamesOwnPid
<1>10. K!KillingMeansWorking' /\ KillingIsHooks'
  BY <1>1, <1>2, <1>4 DEF ProcessInv, K!KillingMeansWorking, KillingIsHooks, K!At
<1> QED
  BY <1>7, <1>8, <1>9, <1>10 DEF ProcessInv

\* A listing is asked for, of the selected host or of one that may be another one.
LEMMA ListingAskedKeeps ==
    ASSUME ProcessInv, UNCHANGED <<srv, hist, dialog, job, faults, asked>>,
           NEW r \in ProcessListings, OfSelectedHost(r.of), reads' = reads \cup {r},
           page' \in ProcessPages, page'.agent = page.agent, page'.tree = page.tree,
           page'.killing = page.killing, page'.unsettled = page.unsettled,
           page'.refresh \in {page.refresh, K!None}, page'.loading => page.loading \/ ~r.quiet
    PROVE  ProcessInv'
<1>1. KillsAreCounted'
  BY ProcessFields, KillsStayCounted DEF ProcessInv
<1>2. K!TypeOK'
  BY DEF ProcessInv, K!TypeOK, ProcessPages, ProcessListings
<1>3. SettledIsSelected' /\ K!SettledKillNamesOwnPid'
  BY DEF ProcessInv, SettledIsSelected, OfSelectedHost, K!SettledKillNamesOwnPid
<1>4. K!KillingMeansWorking' /\ KillingIsHooks'
  BY DEF ProcessInv, K!KillingMeansWorking, KillingIsHooks, K!At
<1> QED
  BY <1>1, <1>2, <1>3, <1>4 DEF ProcessInv

LEMMA PollKeeps ==
    ASSUME ProcessInv, K!Poll, UNCHANGED asked
    PROVE  ProcessInv'
<1> DEFINE new == [of |-> page.agent, quiet |-> TRUE, after |-> FALSE]
<1>1. K!TypeOK /\ page \in ProcessPages /\ page.agent \in Agents
  BY ProcessFields DEF ProcessInv, K!HostIds, K!Poll, K!TypeOK, ProcessPages
<1>2. reads' = reads \cup {new} /\ UNCHANGED <<srv, hist, page, dialog, job, faults, asked>>
  BY DEF K!Poll
<1>3. new \in ProcessListings /\ OfSelectedHost(new.of)
  BY <1>1 DEF ProcessListings, OfSelectedHost
<1> HIDE DEF new
<1> QED
  BY <1>1, <1>2, <1>3, ListingAskedKeeps

LEMMA RefreshKeeps ==
    ASSUME ProcessInv, K!Refresh, UNCHANGED asked
    PROVE  ProcessInv'
<1> DEFINE new == [of |-> page.agent, quiet |-> FALSE, after |-> FALSE]
<1>1. K!TypeOK /\ page.agent \in Agents
  BY ProcessFields DEF ProcessInv, K!HostIds, K!Refresh
<1>2. page' = [page EXCEPT !.loading = TRUE] /\ reads' = reads \cup {new}
  BY DEF K!Refresh
<1>3. /\ page' \in ProcessPages
      /\ page'.agent = page.agent /\ page'.tree = page.tree /\ page'.killing = page.killing
      /\ page'.unsettled = page.unsettled /\ page'.refresh = page.refresh
  BY <1>1, <1>2 DEF K!TypeOK, ProcessPages
<1>4. new \in ProcessListings /\ OfSelectedHost(new.of) /\ ~new.quiet
  BY <1>1 DEF ProcessListings, OfSelectedHost
<1> HIDE DEF new
<1> QED
  BY <1>2, <1>3, <1>4, ListingAskedKeeps DEF K!Refresh

LEMMA RefreshFiresKeeps ==
    ASSUME ProcessInv, K!RefreshFires, UNCHANGED asked
    PROVE  ProcessInv'
<1> DEFINE new == [of |-> page.refresh, quiet |-> FALSE, after |-> FALSE]
<1>1. K!TypeOK /\ page.refresh \in Agents /\ OfSelectedHost(page.refresh)
  BY ProcessFields DEF ProcessInv, K!HostIds, K!RefreshFires, SettledIsSelected
<1>2. page' = [page EXCEPT !.refresh = K!None, !.loading = TRUE] /\ reads' = reads \cup {new}
  BY DEF K!RefreshFires
<1>3. page' \in ProcessPages
  BY <1>1, <1>2 DEF K!TypeOK, K!HostIds, ProcessPages
<1>4. /\ page'.agent = page.agent /\ page'.tree = page.tree /\ page'.killing = page.killing
      /\ page'.unsettled = page.unsettled /\ page'.refresh = K!None
  BY <1>1, <1>2 DEF K!TypeOK
<1>5. new \in ProcessListings /\ OfSelectedHost(new.of) /\ ~new.quiet
  BY <1>1 DEF ProcessListings
<1> HIDE DEF new
<1> QED
  BY <1>2, <1>3, <1>4, <1>5, ListingAskedKeeps DEF K!RefreshFires

LEMMA ArrivesKeeps ==
    ASSUME ProcessInv, NEW r \in reads, K!Arrives(r), UNCHANGED asked
    PROVE  ProcessInv'
<1>1. K!TypeOK
  BY DEF ProcessInv
<1> DEFINE loud == page.loading /\ r.quiet
           on == page.killing /\ ~r.after
<1>2. loud \in BOOLEAN /\ on \in BOOLEAN /\ r.of \in Agents
  BY <1>1, ProcessFields
<1>3. PICK t \in {r.of, K!None} :
        page' = [page EXCEPT !.tree = t, !.loading = loud, !.killing = on]
  BY DEF K!Arrives
<1> HIDE DEF loud, on
<1>4. page' \in ProcessPages
  BY <1>1, <1>2, <1>3 DEF K!TypeOK, K!HostIds, ProcessPages
<1>5. /\ page'.agent = page.agent /\ page'.tree = t /\ page'.refresh = page.refresh
      /\ page'.unsettled = page.unsettled /\ page'.loading = loud /\ page'.killing = on
  BY <1>1, <1>3 DEF K!TypeOK
<1>6. /\ reads' = reads \ {r} /\ UNCHANGED <<srv, hist, dialog, asked>>
      /\ job' = IF r.after THEN K!Idle ELSE job
  BY DEF K!Arrives
<1>7. faults' \in 0 .. MaxFaults
  BY <1>1, BoundsAssumption DEF K!Arrives, K!TypeOK, K!Fault
<1>8. K!TypeOK'
  BY <1>1, <1>4, <1>6, <1>7 DEF K!TypeOK, ProcessPages
<1>9. KillsAreCounted'
  <2>1. KillsLeft(job') <= KillsLeft(job) /\ KillsLeft(job') \in Nat /\ KillsLeft(job) \in Nat
    BY <1>6 DEF KillsLeft
  <2>2. asked \in Nat /\ \A a \in Agents : srv[a] \in Nat
    BY <1>1, ProcessFields
  <2>3. ASSUME NEW a \in Agents
        PROVE  \/ srv[a] = 0 /\ KillsLeft(job') = 0
               \/ srv[a] + KillsLeft(job') <= 2 * (asked - 1)
    BY <2>1, <2>2 DEF ProcessInv, KillsAreCounted
  <2> QED
    BY <1>5, <1>6, <2>3 DEF ProcessInv, KillsAreCounted
<1>10. SettledIsSelected' /\ K!SettledKillNamesOwnPid'
  BY <1>3, <1>5, <1>6 DEF ProcessInv, SettledIsSelected, OfSelectedHost, K!SettledKillNamesOwnPid
<1>11. K!KillingMeansWorking' /\ KillingIsHooks'
  BY <1>2, <1>5, <1>6
     DEF ProcessInv, K!KillingMeansWorking, KillingIsHooks, K!At, loud, on
<1> QED
  BY <1>8, <1>9, <1>10, <1>11 DEF ProcessInv

LEMMA SwitchTabKeeps ==
    ASSUME ProcessInv, NEW t \in K!Views, K!SwitchTab(t), UNCHANGED asked
    PROVE  ProcessInv'
<1>1. K!TypeOK /\ page' = [page EXCEPT !.tab = t]
  BY DEF ProcessInv, K!SwitchTab
<1>2. UNCHANGED <<srv, hist, dialog, job, reads, faults, asked>>
  BY DEF K!SwitchTab
<1>3. /\ page' \in ProcessPages
      /\ page'.agent = page.agent /\ page'.tree = page.tree /\ page'.refresh = page.refresh
      /\ page'.unsettled = page.unsettled /\ page'.loading = page.loading
      /\ page'.killing = page.killing
  BY <1>1 DEF K!TypeOK, ProcessPages
<1>4. KillsAreCounted'
  BY <1>1, <1>2, <1>3, ProcessFields, KillsStayCounted
<1>5. K!TypeOK'
  BY <1>1, <1>2, <1>3 DEF K!TypeOK, ProcessPages
<1>6. SettledIsSelected' /\ K!SettledKillNamesOwnPid'
  BY <1>2, <1>3 DEF ProcessInv, SettledIsSelected, OfSelectedHost, K!SettledKillNamesOwnPid
<1>7. K!KillingMeansWorking' /\ KillingIsHooks'
  BY <1>2, <1>3 DEF ProcessInv, K!KillingMeansWorking, KillingIsHooks, K!At
<1> QED
  BY <1>4, <1>5, <1>6, <1>7 DEF ProcessInv

\* The modal opens on a process of the tree, or closes.
LEMMA KillDialogKeeps ==
    ASSUME ProcessInv, UNCHANGED <<srv, hist, page, job, reads, faults, asked>>,
           dialog' \in ProcessDialogs,
           dialog'.of # K!None => OfSelectedHost(dialog'.of) \/ dialog'.unsettled,
           page.unsettled => dialog'.unsettled \/ dialog'.of = K!None
    PROVE  ProcessInv'
<1>1. KillsAreCounted'
  BY ProcessFields, KillsStayCounted DEF ProcessInv
<1>2. K!TypeOK'
  BY DEF ProcessInv, K!TypeOK, ProcessDialogs
<1>3. SettledIsSelected' /\ K!SettledKillNamesOwnPid'
  BY DEF ProcessInv, SettledIsSelected, OfSelectedHost, K!SettledKillNamesOwnPid
<1>4. K!KillingMeansWorking' /\ KillingIsHooks'
  BY DEF ProcessInv, K!KillingMeansWorking, KillingIsHooks, K!At
<1> QED
  BY <1>1, <1>2, <1>3, <1>4 DEF ProcessInv

LEMMA OpenKillKeeps ==
    ASSUME ProcessInv, K!OpenKill, UNCHANGED asked
    PROVE  ProcessInv'
<1> DEFINE u == page.unsettled \/ reads # {}
<1>1. dialog' = [of |-> page.tree, loading |-> FALSE, unsettled |-> u] /\ u \in BOOLEAN
  BY DEF K!OpenKill
<1>2. page.tree \in K!HostIds /\ (page.tree # K!None => OfSelectedHost(page.tree) \/ u)
  BY ProcessFields DEF ProcessInv, SettledIsSelected
<1>3. page.unsettled => u
  OBVIOUS
<1> HIDE DEF u
<1>4. dialog' \in ProcessDialogs /\ dialog'.of = page.tree /\ dialog'.unsettled = u
  BY <1>1, <1>2 DEF ProcessDialogs
<1> QED
  BY <1>2, <1>3, <1>4, KillDialogKeeps DEF K!OpenKill

LEMMA CancelKillKeeps ==
    ASSUME ProcessInv, K!CancelKill, UNCHANGED asked
    PROVE  ProcessInv'
<1>1. dialog' \in ProcessDialogs /\ dialog'.of = K!None
  BY DEF K!CancelKill, K!NoDialog, ProcessDialogs, K!HostIds
<1> QED
  BY <1>1, KillDialogKeeps DEF K!CancelKill

\* The only step that adds a kill: it is the dialog's process, on the selected host.
LEMMA ConfirmKillKeeps ==
    ASSUME ProcessInv, K!ConfirmKill, asked < MaxProcessRequests, asked' = asked + 1
    PROVE  ProcessInv'
<1> DEFINE new == [op |-> "kill", on |-> page.agent, stage |-> "first"]
           kill == [on |-> page.agent, of |-> dialog.of, unsettled |-> dialog.unsettled]
<1>1. /\ job = K!Idle /\ job' = new /\ hist' = hist \cup {kill}
      /\ dialog' = [dialog EXCEPT !.loading = TRUE]
      /\ UNCHANGED <<srv, page, reads, faults>>
  BY DEF K!ConfirmKill
<1>2. K!TypeOK /\ page.agent \in Agents /\ dialog.of \in Agents /\ dialog.unsettled \in BOOLEAN
  BY ProcessFields DEF ProcessInv, K!HostIds, K!ConfirmKill
<1>3. new \in K!Jobs /\ new # K!Idle /\ new.on = page.agent /\ new.stage = "first"
  BY <1>2 DEF K!Jobs, K!Idle
<1>4. kill \in [on : Agents, of : Agents, unsettled : BOOLEAN]
  BY <1>2
<1>5. kill.of = kill.on \/ kill.unsettled
  BY <1>2 DEF ProcessInv, SettledIsSelected, K!ConfirmKill
<1> HIDE DEF new, kill
<1>6. dialog' \in ProcessDialogs /\ dialog'.of = dialog.of /\ dialog'.unsettled = dialog.unsettled
  BY <1>1, <1>2 DEF K!TypeOK, ProcessDialogs
<1>7. asked \in Nat /\ asked > 0
  BY <1>2, ProcessFields DEF ProcessInv, KillsAreCounted, K!ConfirmKill
<1>8. KillsAreCounted'
  <2>1. KillsLeft(job) = 0 /\ KillsLeft(job') = 2
    BY <1>1, <1>3 DEF KillsLeft
  <2>2. ASSUME NEW a \in Agents PROVE srv[a] + KillsLeft(job') <= 2 * (asked' - 1)
    BY <1>7, <2>1, <1>2, ProcessFields DEF ProcessInv, KillsAreCounted
  <2> QED
    BY <1>1, <1>7, <2>2 DEF KillsAreCounted
<1>9. K!TypeOK'
  BY <1>1, <1>2, <1>3, <1>4, <1>6, <1>7, BoundsAssumption DEF K!TypeOK, ProcessDialogs
<1>10. K!SettledKillNamesOwnPid'
  BY <1>1, <1>5 DEF ProcessInv, K!SettledKillNamesOwnPid
<1>11. SettledIsSelected'
  BY <1>1, <1>3, <1>6 DEF ProcessInv, SettledIsSelected, OfSelectedHost
<1>12. K!KillingMeansWorking' /\ KillingIsHooks'
  BY <1>1, <1>3 DEF ProcessInv, K!KillingMeansWorking, KillingIsHooks, K!At
<1> QED
  BY <1>8, <1>9, <1>10, <1>11, <1>12 DEF ProcessInv

\* The handler of a kill goes on without a request being served.
LEMMA KillGoesOn ==
    ASSUME ProcessInv, job # K!Idle,
           NEW stage \in {"second", "timer", "fetching"}, K!Step(stage),
           job.stage = "firstOk" \/ stage # "second", UNCHANGED <<srv, asked>>,
           page'.agent = page.agent
    PROVE  /\ job' \in K!Jobs /\ job' # K!Idle /\ job'.on = job.on /\ job'.stage = stage
           /\ KillsAreCounted'
<1>1. K!TypeOK
  BY DEF ProcessInv
<1>2. job' \in K!Jobs /\ job' # K!Idle /\ job'.on = job.on /\ job'.stage = stage
  BY <1>1, ProcessJobStep
<1>3. KillsLeft(job') <= KillsLeft(job) /\ KillsLeft(job') \in Nat /\ KillsLeft(job) \in Nat
  BY <1>2 DEF KillsLeft
<1>4. asked \in Nat /\ \A a \in Agents : srv[a] \in Nat
  BY <1>1, ProcessFields
<1>5. ASSUME NEW a \in Agents
      PROVE  \/ srv[a] = 0 /\ KillsLeft(job') = 0
             \/ srv[a] + KillsLeft(job') <= 2 * (asked - 1)
  BY <1>3, <1>4 DEF ProcessInv, KillsAreCounted
<1> QED
  BY <1>2, <1>5 DEF ProcessInv, KillsAreCounted

LEMMA HookKillsKeeps ==
    ASSUME ProcessInv, K!HookKills, UNCHANGED asked
    PROVE  ProcessInv'
<1>1. /\ K!TypeOK /\ job # K!Idle /\ job.stage = "firstOk" /\ K!Step("second")
      /\ page' = [page EXCEPT !.killing = TRUE]
      /\ UNCHANGED <<srv, hist, dialog, reads, faults, asked>>
  BY DEF ProcessInv, K!HookKills, K!At
<1>2. /\ page' \in ProcessPages
      /\ page'.agent = page.agent /\ page'.tree = page.tree /\ page'.refresh = page.refresh
      /\ page'.unsettled = page.unsettled /\ page'.loading = page.loading
  BY <1>1 DEF K!TypeOK, ProcessPages
<1>3. /\ job' \in K!Jobs /\ job' # K!Idle /\ job'.on = job.on /\ job'.stage = "second"
      /\ KillsAreCounted'
  BY <1>1, <1>2, KillGoesOn
<1>4. K!TypeOK'
  BY <1>1, <1>2, <1>3 DEF K!TypeOK, ProcessPages
<1>5. SettledIsSelected' /\ K!SettledKillNamesOwnPid'
  BY <1>1, <1>2, <1>3 DEF ProcessInv, SettledIsSelected, OfSelectedHost, K!SettledKillNamesOwnPid
<1>6. K!KillingMeansWorking' /\ KillingIsHooks'
  BY <1>1, <1>2, <1>3 DEF ProcessInv, K!KillingMeansWorking, KillingIsHooks, K!At
<1> QED
  BY <1>3, <1>4, <1>5, <1>6 DEF ProcessInv

LEMMA KillSentKeeps ==
    ASSUME ProcessInv, K!KillSent, UNCHANGED asked
    PROVE  ProcessInv'
<1>1. /\ K!TypeOK /\ job # K!Idle /\ job.stage = "secondOk" /\ K!Step("timer")
      /\ page' = [page EXCEPT !.refresh = job.on] /\ dialog' = K!NoDialog
      /\ UNCHANGED <<srv, hist, reads, faults, asked>>
  BY DEF ProcessInv, K!KillSent, K!At
<1>2. job.on \in K!HostIds
  BY <1>1, ProcessFields DEF K!HostIds
<1>3. /\ page' \in ProcessPages
      /\ page'.agent = page.agent /\ page'.tree = page.tree /\ page'.refresh = job.on
      /\ page'.unsettled = page.unsettled /\ page'.loading = page.loading
      /\ page'.killing = page.killing
  BY <1>1, <1>2 DEF K!TypeOK, ProcessPages
<1>4. dialog' \in ProcessDialogs /\ dialog'.of = K!None
  BY <1>1 DEF K!NoDialog, ProcessDialogs, K!HostIds
<1>5. /\ job' \in K!Jobs /\ job' # K!Idle /\ job'.on = job.on /\ job'.stage = "timer"
      /\ KillsAreCounted'
  BY <1>1, <1>3, KillGoesOn
<1>6. K!TypeOK'
  BY <1>1, <1>3, <1>4, <1>5 DEF K!TypeOK, ProcessPages, ProcessDialogs
<1>7. SettledIsSelected' /\ K!SettledKillNamesOwnPid'
  BY <1>1, <1>3, <1>4, <1>5
     DEF ProcessInv, SettledIsSelected, OfSelectedHost, K!SettledKillNamesOwnPid
<1>8. K!KillingMeansWorking' /\ KillingIsHooks'
  BY <1>1, <1>3, <1>5 DEF ProcessInv, K!KillingMeansWorking, KillingIsHooks, K!At
<1> QED
  BY <1>5, <1>6, <1>7, <1>8 DEF ProcessInv

LEMMA TimerFiresKeeps ==
    ASSUME ProcessInv, K!TimerFires, UNCHANGED asked
    PROVE  ProcessInv'
<1> DEFINE new == [of |-> job.on, quiet |-> TRUE, after |-> TRUE]
<1>1. /\ K!TypeOK /\ job # K!Idle /\ job.stage = "timer" /\ K!Step("fetching")
      /\ reads' = reads \cup {new} /\ UNCHANGED <<srv, hist, page, dialog, faults, asked>>
  BY DEF ProcessInv, K!TimerFires, K!At
<1>2. job.on \in Agents
  BY <1>1, ProcessFields
<1>3. new \in ProcessListings /\ new.of = job.on /\ new.after
  BY <1>2 DEF ProcessListings
<1> HIDE DEF new
<1>4. /\ job' \in K!Jobs /\ job' # K!Idle /\ job'.on = job.on /\ job'.stage = "fetching"
      /\ KillsAreCounted'
  BY <1>1, KillGoesOn
<1>5. K!TypeOK'
  BY <1>1, <1>3, <1>4 DEF K!TypeOK, ProcessListings
<1>6. SettledIsSelected' /\ K!SettledKillNamesOwnPid'
  BY <1>1, <1>3, <1>4 DEF ProcessInv, SettledIsSelected, OfSelectedHost, K!SettledKillNamesOwnPid
<1>7. K!KillingMeansWorking' /\ KillingIsHooks'
  BY <1>1, <1>3, <1>4 DEF ProcessInv, K!KillingMeansWorking, KillingIsHooks, K!At
<1> QED
  BY <1>4, <1>5, <1>6, <1>7 DEF ProcessInv

LEMMA KillFailedKeeps ==
    ASSUME ProcessInv, K!KillFailed, UNCHANGED asked
    PROVE  ProcessInv'
<1> DEFINE on == page.killing /\ K!At("firstErr")
<1>1. /\ K!TypeOK /\ job # K!Idle /\ job.stage \in {"firstErr", "secondErr"} /\ job' = K!Idle
      /\ page' = [page EXCEPT !.killing = on] /\ dialog' = [dialog EXCEPT !.loading = FALSE]
      /\ UNCHANGED <<srv, hist, reads, faults, asked>>
  BY DEF ProcessInv, K!KillFailed, K!At
<1>2. on = FALSE
  BY <1>1 DEF ProcessInv, KillingIsHooks, K!At
<1> HIDE DEF on
<1>3. /\ page' \in ProcessPages
      /\ page'.agent = page.agent /\ page'.tree = page.tree /\ page'.refresh = page.refresh
      /\ page'.unsettled = page.unsettled /\ page'.loading = page.loading
      /\ page'.killing = FALSE
  BY <1>1, <1>2 DEF K!TypeOK, ProcessPages
<1>4. dialog' \in ProcessDialogs /\ dialog'.of = dialog.of /\ dialog'.unsettled = dialog.unsettled
  BY <1>1 DEF K!TypeOK, ProcessDialogs
<1>5. KillsAreCounted'
  <2>1. KillsLeft(job) = 0 /\ KillsLeft(job') = 0
    BY <1>1 DEF KillsLeft
  <2> QED
    BY <1>1, <1>3, <2>1 DEF ProcessInv, KillsAreCounted
<1>6. K!TypeOK'
  BY <1>1, <1>3, <1>4 DEF K!TypeOK, ProcessPages, ProcessDialogs
<1>7. SettledIsSelected' /\ K!SettledKillNamesOwnPid'
  BY <1>1, <1>3, <1>4 DEF ProcessInv, SettledIsSelected, OfSelectedHost, K!SettledKillNamesOwnPid
<1>8. K!KillingMeansWorking' /\ KillingIsHooks'
  BY <1>1, <1>3 DEF ProcessInv, K!KillingMeansWorking, KillingIsHooks, K!At
<1> QED
  BY <1>5, <1>6, <1>7, <1>8 DEF ProcessInv

LEMMA ProcessNext ==
    ASSUME ProcessInv, K!Next
    PROVE  ProcessInv'
<1>1. CASE K!Requests /\ asked < MaxProcessRequests /\ asked' = asked + 1
  BY <1>1, ChooseKeeps, ConfirmKillKeeps DEF K!Requests, K!ChooseHost, K!HostChosen
<1>2. CASE K!Clicks /\ UNCHANGED asked
  BY <1>2, OpenKillKeeps, CancelKillKeeps, RefreshKeeps, SwitchTabKeeps DEF K!Clicks
<1>3. CASE K!Browser /\ UNCHANGED asked
  BY <1>3, PollKeeps, HookKillsKeeps, KillSentKeeps, KillFailedKeeps, TimerFiresKeeps,
     RefreshFiresKeeps, ServeKillKeeps, ArrivesKeeps DEF K!Browser
<1> QED
  BY <1>1, <1>2, <1>3 DEF K!Next

LEMMA ProcessStutter ==
    ASSUME ProcessInv, UNCHANGED vars
    PROVE  ProcessInv'
BY DEF ProcessInv, vars, K!TypeOK, KillsAreCounted, SettledIsSelected, OfSelectedHost,
   K!SettledKillNamesOwnPid, K!KillingMeansWorking, KillingIsHooks, K!At

-----------------------------------------------------------------------------
(* The policies *)

PolicyPages == [list : P!Lists, loading : BOOLEAN, loaded : BOOLEAN]
PolicyHistories == [contested : SUBSET Policies, executed : 0 .. MaxRequests,
                    confirmed : 0 .. MaxRequests]

\* Confirmed executions that the manager has not served.
LiveSent(jobs) == {s \in Slots : /\ jobs[s] # P!Idle
                                 /\ jobs[s].op = "live" /\ jobs[s].stage = "sent"}

ExecutionsAreCounted ==
    /\ IsFiniteSet(LiveSent(job))
    /\ hist.executed + Cardinality(LiveSent(job)) <= hist.confirmed
    /\ hist.confirmed <= asked

\* An operation is on a row.  A toggle and a form have a value to set, a toggle one to
\* restore, a deletion none.
HandlerIsWhole(j) ==
    j # P!Idle =>
      /\ j.op \notin P!Evaluations => j.on \in Policies
      /\ j.op = "toggle" => j.was # P!Absent /\ j.arg # P!Absent
      /\ j.op \in P!Saves => j.arg # P!Absent
      /\ j.op = "delete" => j.arg = P!Absent

\* A listing for a handler is the only one, and the handler is a form's that waits for it.
ListingsHaveHandlers ==
    \A r \in reads : r.by # 0 =>
      /\ job[r.by] # P!Idle /\ job[r.by].op \in P!Saves /\ job[r.by].stage = "fetching"
      /\ \A q \in reads : q.by = r.by => q = r

\* The handler is an operation on row p that is not over.
Writes(j, p) == j # P!Idle /\ j.op \notin P!Evaluations /\ j.on = p /\ j.stage # "fetching"

\* What the manager has while j is under way on p: it is served or not, and no
\* listing is from before.
ManagerAgrees(p, j) ==
    /\ j.stage = "sent" => reads = {}
    /\ j.stage = "ok" => srv[p] = j.arg
    /\ j.op = "toggle" /\ j.stage # "ok" => srv[p] = j.was

\* What the list shows meanwhile, from which the answer will make the right row.
ListAgrees(p, j) ==
    /\ j.op = "toggle" \/ (j.op = "update" /\ j.stage = "ok") => page.list[p] # P!Absent
    /\ j.op # "toggle" /\ j.stage # "ok" => page.list[p] = srv[p]

\* The list says something of p: also before the first listing a row can be saved.
KnownRow(p) == page.loaded \/ page.list[p] # P!Absent

RowAgrees(p) ==
    /\ \A r \in reads : r.list[p] = srv[p]
    /\ \A s, t \in Slots : Writes(job[s], p) /\ Writes(job[t], p) => s = t
    /\ \A s \in Slots : Writes(job[s], p) => ManagerAgrees(p, job[s])
    /\ KnownRow(p) => \A s \in Slots : Writes(job[s], p) => ListAgrees(p, job[s])
    /\ KnownRow(p) => page.list[p] = srv[p] \/ \E s \in Slots : Writes(job[s], p)

PolicyInv ==
    /\ P!TypeOK /\ ExecutionsAreCounted
    /\ \A s \in Slots : HandlerIsWhole(job[s])
    /\ ListingsHaveHandlers
    /\ \A p \in Policies \ hist.contested : RowAgrees(p)
    /\ P!BusyMeansWorking

LEMMA PolicyInit ==
    ASSUME P!Init
    PROVE  PolicyInv
<1>1. P!TypeOK
  <2>1. /\ srv \in P!Lists /\ page \in PolicyPages
        /\ reads \subseteq [by : Slots \cup {0}, list : P!Lists]
    BY DEF P!Init, P!PageRead, P!Lists, PolicyPages, P!Absent
  <2>2. dialog \in P!Dialogs /\ job \in [Slots -> P!Jobs \cup {P!Idle}]
    BY DEF P!Init, P!Dialogs
  <2>3. hist \in PolicyHistories /\ asked \in 0 .. MaxRequests /\ faults \in 0 .. MaxFaults
    BY BoundsAssumption DEF P!Init, PolicyHistories
  <2> QED
    BY <2>1, <2>2, <2>3 DEF P!TypeOK, PolicyPages, PolicyHistories
<1>2. ExecutionsAreCounted
  <2>1. LiveSent(job) = {}
    BY DEF P!Init, LiveSent
  <2>2. IsFiniteSet(LiveSent(job)) /\ Cardinality(LiveSent(job)) = 0
    BY <2>1, FS_EmptySet
  <2> QED
    BY <2>2, BoundsAssumption DEF P!Init, ExecutionsAreCounted
<1>3. ListingsHaveHandlers /\ \A s \in Slots : HandlerIsWhole(job[s])
  BY DEF P!Init, P!PageRead, ListingsHaveHandlers, HandlerIsWhole
<1>4. ASSUME NEW p \in Policies PROVE RowAgrees(p)
  BY DEF P!Init, P!PageRead, RowAgrees, Writes, KnownRow
<1> QED
  BY <1>1, <1>2, <1>3, <1>4 DEF P!Init, PolicyInv, P!BusyMeansWorking

-----------------------------------------------------------------------------
(* The handlers of the policies *)

\* At most the handler s moves.
PolicySlot(s) ==
    /\ job' \in [Slots -> P!Jobs \cup {P!Idle}]
    /\ \A t \in Slots \ {s} : job'[t] = job[t]

LEMMA PolicyFields ==
    ASSUME P!TypeOK
    PROVE  /\ page.list \in P!Lists /\ page.loading \in BOOLEAN /\ page.loaded \in BOOLEAN
           /\ dialog.of \in Policies \cup {P!None} /\ dialog.submitting \in BOOLEAN
           /\ dialog.evaluating \in BOOLEAN /\ dialog.executing \in BOOLEAN
           /\ dialog.result \in BOOLEAN /\ dialog.confirm \in BOOLEAN
           /\ hist.contested \subseteq Policies
           /\ hist.executed \in Nat /\ hist.confirmed \in Nat /\ asked \in Nat /\ faults \in Nat
           /\ \A r \in reads : r.by \in Slots \cup {0} /\ r.list \in P!Lists
           /\ \A s \in Slots : job[s] = P!Idle \/ job[s] \in P!Jobs
BY BoundsAssumption DEF P!TypeOK, P!Dialogs

LEMMA PolicyStart ==
    ASSUME P!TypeOK, NEW s \in Slots,
           NEW op \in P!Saves \cup {"delete", "toggle"} \cup P!Evaluations,
           NEW p \in Policies \cup {P!None}, NEW arg \in {"on", "off", P!Absent},
           NEW was \in {"on", "off", P!Absent}, P!Start(s, op, p, arg, was)
    PROVE  /\ job[s] = P!Idle /\ PolicySlot(s) /\ job'[s] # P!Idle
           /\ job'[s].op = op /\ job'[s].on = p /\ job'[s].arg = arg /\ job'[s].was = was
           /\ job'[s].stage = "sent"
<1> DEFINE new == [op |-> op, on |-> p, arg |-> arg, was |-> was, executed |-> FALSE,
                   stage |-> "sent"]
<1>1. new \in P!Jobs /\ new # P!Idle
  BY DEF P!Jobs, P!Idle
<1>2. /\ new.op = op /\ new.on = p /\ new.arg = arg /\ new.was = was /\ new.stage = "sent"
      /\ job[s] = P!Idle /\ job' = [job EXCEPT ![s] = new]
  BY DEF P!Start
<1> HIDE DEF new
<1> QED
  BY <1>1, <1>2 DEF P!TypeOK, PolicySlot

LEMMA PolicyStage ==
    ASSUME P!TypeOK, NEW s \in Slots, job[s] # P!Idle, NEW stage \in {"ok", "err", "fetching"},
           P!Step(s, stage)
    PROVE  /\ PolicySlot(s) /\ job'[s] # P!Idle
           /\ job'[s].op = job[s].op /\ job'[s].on = job[s].on /\ job'[s].arg = job[s].arg
           /\ job'[s].was = job[s].was /\ job'[s].stage = stage
<1> DEFINE new == [job[s] EXCEPT !.stage = stage]
<1>1. job[s] \in P!Jobs
  BY PolicyFields
<1>2. new \in P!Jobs /\ new.op = job[s].op /\ new.on = job[s].on /\ new.arg = job[s].arg
      /\ new.was = job[s].was /\ new.stage = stage
  BY <1>1 DEF P!Jobs
<1>3. job' = [job EXCEPT ![s] = new]
  BY DEF P!Step
<1>4. new # P!Idle
  BY <1>2 DEF P!Jobs, P!Saves, P!Evaluations, P!Idle
<1> HIDE DEF new
<1> QED
  BY <1>2, <1>3, <1>4 DEF P!TypeOK, PolicySlot

LEMMA PolicyEnds ==
    ASSUME P!TypeOK, NEW s \in Slots, P!Ends(s)
    PROVE  PolicySlot(s) /\ job'[s] = P!Idle
BY DEF P!TypeOK, P!Ends, PolicySlot

-----------------------------------------------------------------------------
(* What a step leaves as it is *)

LEMMA PolicyCountFrame ==
    ASSUME PolicyInv, NEW s \in Slots, PolicySlot(s),
           job[s] = P!Idle \/ job[s].op # "live" \/ job[s].stage # "sent",
           job'[s] = P!Idle \/ job'[s].op # "live" \/ job'[s].stage # "sent",
           hist'.executed = hist.executed, hist'.confirmed = hist.confirmed,
           asked' \in {asked, asked + 1}
    PROVE  ExecutionsAreCounted'
<1>1. LiveSent(job') = LiveSent(job)
  BY DEF LiveSent, PolicySlot
<1>2. asked \in Nat /\ hist.confirmed \in Nat
  BY PolicyFields DEF PolicyInv
<1> QED
  BY <1>1, <1>2 DEF PolicyInv, ExecutionsAreCounted

LEMMA PolicyListingFrame ==
    ASSUME PolicyInv, NEW s \in Slots, PolicySlot(s), job[s] = P!Idle \/ job[s].stage # "fetching",
           \A r \in reads' : r \in reads \/ r.by = 0
    PROVE  ListingsHaveHandlers'
<1>1. ASSUME NEW r \in reads', r.by # 0
      PROVE  r \in reads /\ r.by \in Slots /\ r.by # s
  BY <1>1, PolicyFields DEF PolicyInv, ListingsHaveHandlers
<1> QED
  BY <1>1 DEF PolicyInv, ListingsHaveHandlers, PolicySlot

\* A row with which a step has nothing to do.
LEMMA PolicyRowFrame ==
    ASSUME PolicyInv, NEW p \in Policies, RowAgrees(p),
           srv'[p] = srv[p], page'.list[p] = page.list[p], page'.loaded = page.loaded,
           \A s \in Slots : /\ Writes(job'[s], p) <=> Writes(job[s], p)
                            /\ Writes(job[s], p) => job'[s] = job[s],
           \A r \in reads' : \/ r \in reads
                             \/ /\ r.list[p] = srv[p]
                                /\ \A s \in Slots : Writes(job[s], p) => job[s].stage # "sent"
    PROVE  RowAgrees(p)'
<1>1. \A r \in reads' : r.list[p] = srv'[p]
  BY DEF RowAgrees
<1>2. \A s, t \in Slots : Writes(job'[s], p) /\ Writes(job'[t], p) => s = t
  BY DEF RowAgrees
<1>3. \A s \in Slots : Writes(job'[s], p) => ManagerAgrees(p, job[s])'
  BY DEF RowAgrees, ManagerAgrees
<1>4. KnownRow(p)' => KnownRow(p)
  BY DEF KnownRow
<1>5. KnownRow(p)' => \A s \in Slots : Writes(job'[s], p) => ListAgrees(p, job[s])'
  BY <1>4 DEF RowAgrees, ListAgrees
<1>6. KnownRow(p)' => page'.list[p] = srv'[p] \/ \E s \in Slots : Writes(job'[s], p)
  BY <1>4 DEF RowAgrees
<1> QED
  BY <1>1, <1>2, <1>3, <1>5, <1>6 DEF RowAgrees

\* Clicks that change the dialog only, and none of what it waits for.
LEMMA PolicyDialogKeeps ==
    ASSUME PolicyInv, UNCHANGED <<srv, hist, page, job, reads, faults, asked>>,
           dialog' \in P!Dialogs, dialog'.submitting = dialog.submitting,
           dialog'.evaluating = dialog.evaluating, dialog'.executing = dialog.executing
    PROVE  PolicyInv'
<1>1. P!TypeOK' /\ P!BusyMeansWorking'
  BY DEF PolicyInv, P!TypeOK, P!BusyMeansWorking
<1>2. ExecutionsAreCounted' /\ ListingsHaveHandlers' /\ \A s \in Slots : HandlerIsWhole(job'[s])
  BY DEF PolicyInv, ExecutionsAreCounted, ListingsHaveHandlers
<1>3. \A p \in Policies \ hist'.contested : RowAgrees(p)'
  BY PolicyRowFrame DEF PolicyInv
<1> QED
  BY <1>1, <1>2, <1>3 DEF PolicyInv

LEMMA PolicyClicksKeep ==
    ASSUME PolicyInv, P!Clicks, UNCHANGED asked
    PROVE  PolicyInv'
<1>1. P!TypeOK
  BY DEF PolicyInv
<1>2. ASSUME NEW p \in Policies \cup {P!None}, P!OpenForm(p) PROVE PolicyInv'
  <2>1. /\ dialog' \in P!Dialogs /\ dialog'.submitting = dialog.submitting
        /\ dialog'.evaluating = dialog.evaluating /\ dialog'.executing = dialog.executing
    BY <1>1, <1>2 DEF P!OpenForm, P!TypeOK, P!Dialogs
  <2> QED
    BY <1>2, <2>1, PolicyDialogKeeps DEF P!OpenForm
<1>3. ASSUME NEW p \in Policies, P!OpenPanel(p) PROVE PolicyInv'
  <2>1. /\ dialog' \in P!Dialogs /\ dialog'.submitting = dialog.submitting
        /\ dialog'.evaluating = dialog.evaluating /\ dialog'.executing = dialog.executing
    BY <1>1, <1>3 DEF P!OpenPanel, P!TypeOK, P!Dialogs
  <2> QED
    BY <1>3, <2>1, PolicyDialogKeeps DEF P!OpenPanel
<1>4. ASSUME NEW live \in BOOLEAN, P!SetMode(live) PROVE PolicyInv'
  <2>1. /\ dialog' \in P!Dialogs /\ dialog'.submitting = dialog.submitting
        /\ dialog'.evaluating = dialog.evaluating /\ dialog'.executing = dialog.executing
    BY <1>1, <1>4 DEF P!SetMode, P!TypeOK, P!Dialogs
  <2> QED
    BY <1>4, <2>1, PolicyDialogKeeps DEF P!SetMode
<1>5. ASSUME P!CloseForm \/ P!ClosePanel \/ P!ChangeInput \/ P!OpenConfirm \/ P!CancelConfirm
      PROVE  PolicyInv'
  <2> DEFINE Fits == /\ dialog' \in P!Dialogs /\ dialog'.submitting = dialog.submitting
                     /\ dialog'.evaluating = dialog.evaluating
                     /\ dialog'.executing = dialog.executing
  <2>1. Fits
    <3>1. CASE P!CloseForm
      BY <1>1, <3>1 DEF P!CloseForm, P!TypeOK, P!Dialogs
    <3>2. CASE P!ClosePanel
      BY <1>1, <3>2 DEF P!ClosePanel, P!TypeOK, P!Dialogs
    <3>3. CASE P!ChangeInput
      BY <1>1, <3>3 DEF P!ChangeInput, P!TypeOK, P!Dialogs
    <3>4. CASE P!OpenConfirm
      BY <1>1, <3>4 DEF P!OpenConfirm, P!TypeOK, P!Dialogs
    <3>5. CASE P!CancelConfirm
      BY <1>1, <3>5 DEF P!CancelConfirm, P!TypeOK, P!Dialogs
    <3> QED
      BY <1>5, <3>1, <3>2, <3>3, <3>4, <3>5
  <2>2. UNCHANGED <<srv, hist, page, job, reads, faults, asked>>
    BY <1>5 DEF P!CloseForm, P!ClosePanel, P!ChangeInput, P!OpenConfirm, P!CancelConfirm
  <2> QED
    BY <2>1, <2>2, PolicyDialogKeeps
<1> QED
  BY <1>2, <1>3, <1>4, <1>5 DEF P!Clicks

-----------------------------------------------------------------------------
(* The simulator: it concerns no row *)

\* Handler s is an evaluation, or becomes one; listings of now may be asked for.
LEMMA EvaluationRows ==
    ASSUME PolicyInv, NEW s \in Slots, PolicySlot(s), UNCHANGED srv,
           job[s] = P!Idle \/ job[s].op \in P!Evaluations,
           job'[s] = P!Idle \/ job'[s].op \in P!Evaluations,
           page'.list = page.list, page'.loaded = page.loaded,
           hist.contested \subseteq hist'.contested,
           \/ reads' \subseteq reads
           \/ reads' \subseteq reads \cup {P!PageRead} /\ P!ContestedByRead \subseteq hist'.contested
    PROVE  \A p \in Policies \ hist'.contested : RowAgrees(p)'
<1> SUFFICES ASSUME NEW p \in Policies, p \notin hist'.contested
             PROVE  RowAgrees(p)'
  OBVIOUS
<1>1. RowAgrees(p)
  BY DEF PolicyInv
<1>2. \A t \in Slots : /\ Writes(job'[t], p) <=> Writes(job[t], p)
                       /\ Writes(job[t], p) => job'[t] = job[t]
  BY DEF PolicySlot, Writes
<1>3. ASSUME p \notin P!ContestedByRead, NEW t \in Slots, Writes(job[t], p)
      PROVE  job[t].stage # "sent"
  BY <1>3 DEF P!ContestedByRead, P!Running, Writes
<1>4. \A r \in reads' : \/ r \in reads
                        \/ /\ r.list[p] = srv[p]
                           /\ \A t \in Slots : Writes(job[t], p) => job[t].stage # "sent"
  BY <1>3 DEF P!PageRead
<1> QED
  BY <1>1, <1>2, <1>4, PolicyRowFrame

\* An evaluation starts.  A live one is counted before, as a confirmation.
LEMMA EvaluateKeeps ==
    ASSUME PolicyInv, NEW s \in Slots, NEW op \in P!Evaluations, NEW d \in P!Dialogs,
           P!Evaluate(s, op, d), d.submitting = dialog.submitting,
           d.executing => dialog.executing \/ op = "live",
           asked < MaxRequests, asked' = asked + 1, hist' \in PolicyHistories,
           hist'.contested = hist.contested, hist'.executed = hist.executed,
           hist'.confirmed = IF op = "live" THEN hist.confirmed + 1 ELSE hist.confirmed
    PROVE  PolicyInv'
<1>1. P!TypeOK /\ asked \in Nat
  BY PolicyFields DEF PolicyInv
<1>2. /\ job[s] = P!Idle /\ PolicySlot(s) /\ job'[s] # P!Idle
      /\ job'[s].op = op /\ job'[s].stage = "sent"
  BY <1>1, PolicyStart DEF P!Evaluate
<1>3. /\ dialog' \in P!Dialogs /\ dialog'.submitting = dialog.submitting
      /\ dialog'.executing = d.executing
  BY DEF P!Evaluate, P!Dialogs
<1>4. UNCHANGED <<srv, page, reads, faults>>
  BY DEF P!Evaluate
<1>5. P!TypeOK'
  BY <1>1, <1>2, <1>3, <1>4, BoundsAssumption DEF P!TypeOK, PolicyHistories, PolicySlot
<1>6. ExecutionsAreCounted'
  <2>1. CASE op = "dry"
    BY <1>2, <2>1, PolicyCountFrame
  <2>2. CASE op = "live"
    <3>1. LiveSent(job') = LiveSent(job) \cup {s} /\ s \notin LiveSent(job)
      BY <1>2, <2>2 DEF LiveSent, PolicySlot
    <3>2. /\ IsFiniteSet(LiveSent(job'))
          /\ Cardinality(LiveSent(job')) = Cardinality(LiveSent(job)) + 1
      BY <3>1, FS_AddElement DEF PolicyInv, ExecutionsAreCounted
    <3>3. Cardinality(LiveSent(job)) \in Nat
      BY FS_CardinalityType DEF PolicyInv, ExecutionsAreCounted
    <3>4. /\ hist.executed + Cardinality(LiveSent(job)) <= hist.confirmed
          /\ hist.confirmed <= asked
          /\ hist.executed \in Nat /\ hist.confirmed \in Nat
      BY <1>1, PolicyFields DEF PolicyInv, ExecutionsAreCounted
    <3> QED
      BY <1>1, <2>2, <3>2, <3>3, <3>4 DEF ExecutionsAreCounted
  <2> QED
    BY <2>1, <2>2 DEF P!Evaluations
<1>7. \A t \in Slots : HandlerIsWhole(job'[t])
  BY <1>2 DEF PolicyInv, HandlerIsWhole, PolicySlot, P!Saves, P!Evaluations
<1>8. ListingsHaveHandlers'
  BY <1>2, <1>4, PolicyListingFrame
<1>9. \A p \in Policies \ hist'.contested : RowAgrees(p)'
  BY <1>2, <1>4, EvaluationRows
<1>10. P!BusyMeansWorking'
  <2>1. \A t \in Slots : job[t] # P!Idle => job'[t] = job[t]
    BY <1>2 DEF PolicySlot
  <2> QED
    BY <1>2, <1>3, <1>4, <2>1 DEF PolicyInv, P!BusyMeansWorking
<1> QED
  BY <1>5, <1>6, <1>7, <1>8, <1>9, <1>10 DEF PolicyInv

LEMMA TimerFiresEvaluates ==
    ASSUME PolicyInv, NEW s \in Slots, P!TimerFires(s), asked < MaxRequests, asked' = asked + 1
    PROVE  PolicyInv'
<1> DEFINE d == [dialog EXCEPT !.timer = FALSE]
<1>1. P!TypeOK
  BY DEF PolicyInv
<1>2. d \in P!Dialogs /\ d.submitting = dialog.submitting /\ d.executing = dialog.executing
  BY <1>1 DEF P!TypeOK, P!Dialogs
<1>3. P!Evaluate(s, "dry", d) /\ UNCHANGED hist
  BY DEF P!TimerFires
<1> HIDE DEF d
<1>4. hist' \in PolicyHistories
  BY <1>1, <1>3 DEF P!TypeOK, PolicyHistories
<1>5. "dry" \in P!Evaluations
  BY DEF P!Evaluations
<1> QED
  BY <1>2, <1>3, <1>4, <1>5, EvaluateKeeps

LEMMA ReEvaluateKeeps ==
    ASSUME PolicyInv, NEW s \in Slots, P!ReEvaluate(s), asked < MaxRequests, asked' = asked + 1
    PROVE  PolicyInv'
<1>1. dialog \in P!Dialogs /\ hist \in PolicyHistories /\ "dry" \in P!Evaluations
  BY DEF PolicyInv, P!TypeOK, PolicyHistories, P!Evaluations
<1> QED
  BY <1>1, EvaluateKeeps DEF P!ReEvaluate

LEMMA ConfirmLiveKeeps ==
    ASSUME PolicyInv, NEW s \in Slots, P!ConfirmLive(s), asked < MaxRequests, asked' = asked + 1
    PROVE  PolicyInv'
<1> DEFINE d == [dialog EXCEPT !.executing = TRUE]
<1>1. P!TypeOK /\ asked \in Nat
  BY PolicyFields DEF PolicyInv
<1>2. d \in P!Dialogs /\ d.submitting = dialog.submitting
  BY <1>1 DEF P!TypeOK, P!Dialogs
<1>3. P!Evaluate(s, "live", d) /\ hist' = [hist EXCEPT !.confirmed = @ + 1]
  BY DEF P!ConfirmLive
<1> HIDE DEF d
<1>4. hist.confirmed \in Nat /\ hist.confirmed <= asked
  BY <1>1, PolicyFields DEF PolicyInv, ExecutionsAreCounted
<1>5. hist.confirmed + 1 \in 0 .. MaxRequests
  BY <1>1, <1>4, BoundsAssumption
<1>6. /\ hist' \in PolicyHistories /\ hist'.contested = hist.contested
      /\ hist'.executed = hist.executed /\ hist'.confirmed = hist.confirmed + 1
  BY <1>1, <1>3, <1>5 DEF P!TypeOK, PolicyHistories
<1>7. "live" \in P!Evaluations
  BY DEF P!Evaluations
<1> QED
  BY <1>2, <1>3, <1>6, <1>7, EvaluateKeeps

\* The only step that has a policy or the graduated response carried out: a confirmed request is on its way and no longer is.
LEMMA ServeEvaluationKeeps ==
    ASSUME PolicyInv, NEW s \in Slots, P!ServeEvaluation(s), UNCHANGED asked
    PROVE  PolicyInv'
<1>1. P!TypeOK /\ asked \in Nat /\ job[s] # P!Idle /\ job[s].op \in P!Evaluations
      /\ job[s].stage = "sent" /\ job[s] \in P!Jobs
  BY PolicyFields DEF PolicyInv, P!ServeEvaluation, P!Sent
<1>2. PICK executed \in BOOLEAN :
        /\ \/ job' = [job EXCEPT ![s].stage = "ok", ![s].executed = executed]
           \/ P!Step(s, "err")
        /\ executed => job[s].op = "live"
        /\ hist' = IF executed THEN [hist EXCEPT !.executed = @ + 1] ELSE hist
  BY DEF P!ServeEvaluation
<1>3. /\ hist' = hist \/ (job[s].op = "live" /\ hist' = [hist EXCEPT !.executed = @ + 1])
      /\ UNCHANGED faults \/ P!Fault
      /\ UNCHANGED <<srv, page, dialog, reads, asked>>
  BY <1>2 DEF P!ServeEvaluation
<1>4. /\ PolicySlot(s) /\ job'[s] # P!Idle /\ job'[s].op = job[s].op
      /\ job'[s].stage \in {"ok", "err"}
  <2>1. CASE P!Step(s, "err")
    BY <1>1, <2>1, PolicyStage
  <2>2. CASE job' = [job EXCEPT ![s].stage = "ok", ![s].executed = executed]
    <3> DEFINE new == [job[s] EXCEPT !.stage = "ok", !.executed = executed]
    <3>1. new \in P!Jobs /\ new.op = job[s].op /\ new.stage = "ok"
      BY <1>1 DEF P!Jobs
    <3>2. new # P!Idle
      BY <3>1 DEF P!Jobs, P!Saves, P!Evaluations, P!Idle
    <3>3. job' = [job EXCEPT ![s] = new]
      BY <2>2
    <3> HIDE DEF new
    <3> QED
      BY <1>1, <3>1, <3>2, <3>3 DEF P!TypeOK, PolicySlot
  <2> QED
    BY <1>2, <2>1, <2>2
<1>5. /\ hist.executed \in Nat /\ hist.confirmed \in Nat /\ hist.confirmed <= asked
      /\ Cardinality(LiveSent(job)) \in Nat /\ IsFiniteSet(LiveSent(job))
      /\ hist.executed + Cardinality(LiveSent(job)) <= hist.confirmed
  BY <1>1, PolicyFields, FS_CardinalityType DEF PolicyInv, ExecutionsAreCounted
<1>6. /\ hist'.confirmed = hist.confirmed /\ hist'.contested = hist.contested
      /\ \/ hist'.executed = hist.executed
         \/ job[s].op = "live" /\ hist'.executed = hist.executed + 1
  <2>1. CASE hist' = hist
    BY <2>1
  <2>2. CASE job[s].op = "live" /\ hist' = [hist EXCEPT !.executed = @ + 1]
    BY <1>1, <2>2 DEF P!TypeOK
  <2> QED
    BY <1>3, <2>1, <2>2
<1>7. ExecutionsAreCounted'
  <2>1. CASE job[s].op # "live"
    BY <1>3, <1>4, <1>6, <2>1, PolicyCountFrame
  <2>2. CASE job[s].op = "live"
    <3>1. LiveSent(job') = LiveSent(job) \ {s} /\ s \in LiveSent(job)
      BY <1>1, <1>4, <2>2 DEF LiveSent, PolicySlot
    <3>2. /\ IsFiniteSet(LiveSent(job'))
          /\ Cardinality(LiveSent(job')) = Cardinality(LiveSent(job)) - 1
      BY <1>5, <3>1, FS_RemoveElement
    <3> QED
      BY <1>3, <1>5, <1>6, <3>2 DEF ExecutionsAreCounted
  <2> QED
    BY <2>1, <2>2
<1>8. hist' \in PolicyHistories
  <2>1. hist.executed + 1 \in 0 .. MaxRequests \/ hist'.executed = hist.executed
    <3>1. SUFFICES ASSUME hist'.executed # hist.executed
                   PROVE  hist.executed + 1 \in 0 .. MaxRequests
      OBVIOUS
    <3>2. hist.executed + 1 <= asked
      <4>1. IsFiniteSet(LiveSent(job')) /\ hist'.executed = hist.executed + 1
        BY <1>6, <1>7, <3>1 DEF ExecutionsAreCounted
      <4>2. Cardinality(LiveSent(job')) \in Nat
        BY <4>1, FS_CardinalityType
      <4>3. hist'.executed + Cardinality(LiveSent(job')) <= hist.confirmed
        BY <1>6, <1>7 DEF ExecutionsAreCounted
      <4> QED
        BY <1>1, <1>5, <4>1, <4>2, <4>3
    <3> QED
      BY <1>1, <1>5, <3>2, BoundsAssumption DEF P!TypeOK
  <2>2. CASE hist' = hist
    BY <1>1, <2>2 DEF P!TypeOK, PolicyHistories
  <2>3. CASE hist' = [hist EXCEPT !.executed = @ + 1]
    <3>1. hist'.executed = hist.executed + 1
      BY <1>1, <2>3 DEF P!TypeOK
    <3>2. hist.executed + 1 \in 0 .. MaxRequests
      BY <1>5, <2>1, <3>1
    <3> QED
      BY <1>1, <2>3, <3>2 DEF P!TypeOK, PolicyHistories
  <2> QED
    BY <1>3, <2>2, <2>3
<1>9. P!TypeOK'
  <2>1. faults' \in 0 .. MaxFaults
    BY <1>1, <1>3, BoundsAssumption DEF P!TypeOK, P!Fault
  <2> QED
    BY <1>1, <1>3, <1>4, <1>8, <2>1 DEF P!TypeOK, PolicyHistories, PolicySlot
<1>10. \A t \in Slots : HandlerIsWhole(job'[t])
  BY <1>1, <1>4 DEF PolicyInv, HandlerIsWhole, PolicySlot, P!Saves, P!Evaluations
<1>11. ListingsHaveHandlers'
  BY <1>1, <1>3, <1>4, PolicyListingFrame
<1>12. \A p \in Policies \ hist'.contested : RowAgrees(p)'
  BY <1>1, <1>3, <1>4, <1>6, EvaluationRows
<1>13. P!BusyMeansWorking'
  <2>1. \A t \in Slots : job[t] # P!Idle => job'[t] # P!Idle /\ job'[t].op = job[t].op
    BY <1>4 DEF PolicySlot
  <2> QED
    BY <1>3, <2>1 DEF PolicyInv, P!BusyMeansWorking
<1> QED
  BY <1>7, <1>9, <1>10, <1>11, <1>12, <1>13 DEF PolicyInv

LEMMA ContestedPolicies ==
    ASSUME P!TypeOK, NEW ps \in SUBSET Policies, P!Contest(ps)
    PROVE  /\ hist' \in PolicyHistories /\ hist'.contested = hist.contested \cup ps
           /\ hist'.executed = hist.executed /\ hist'.confirmed = hist.confirmed
BY DEF P!TypeOK, P!Contest, PolicyHistories

LEMMA PageReadType ==
    ASSUME P!TypeOK
    PROVE  /\ P!PageRead \in [by : Slots \cup {0}, list : P!Lists]
           /\ P!PageRead.by = 0 /\ P!PageRead.list = srv
BY DEF P!TypeOK, P!PageRead

LEMMA EvaluationEndsKeeps ==
    ASSUME PolicyInv, NEW s \in Slots, P!EvaluationEnds(s), UNCHANGED asked
    PROVE  PolicyInv'
<1> DEFINE ok == job[s].stage = "ok"
           executed == ok /\ job[s].executed
           result == dialog.result \/ ok
           confirm == dialog.confirm /\ job[s].op = "dry"
           executing == dialog.executing /\ job[s].op = "dry"
           xs == IF executed THEN P!ContestedByRead ELSE {}
<1>1. /\ P!TypeOK /\ job[s] # P!Idle /\ job[s].op \in P!Evaluations /\ job[s] \in P!Jobs
      /\ job[s].stage \in {"ok", "err"}
  BY PolicyFields DEF PolicyInv, P!EvaluationEnds, P!Answered
<1>2. result \in BOOLEAN /\ confirm \in BOOLEAN /\ executing \in BOOLEAN /\ executed \in BOOLEAN
  BY <1>1, PolicyFields DEF P!Jobs
<1>3. executing => dialog.executing /\ job[s].op = "dry"
  OBVIOUS
<1>4. xs \subseteq Policies /\ (executed => xs = P!ContestedByRead)
  BY DEF P!ContestedByRead
<1>5. /\ dialog' = [dialog EXCEPT !.evaluating = FALSE, !.result = result, !.confirm = confirm,
                                  !.executing = executing]
      /\ page' = IF executed THEN [page EXCEPT !.loading = TRUE] ELSE page
      /\ reads' = IF executed THEN reads \cup {P!PageRead} ELSE reads
      /\ P!Contest(xs) /\ P!Ends(s) /\ UNCHANGED <<srv, faults, asked>>
  BY DEF P!EvaluationEnds
<1> HIDE DEF result, confirm, executing, executed, xs
<1>6. /\ hist' \in PolicyHistories /\ hist'.contested = hist.contested \cup xs
      /\ hist'.executed = hist.executed /\ hist'.confirmed = hist.confirmed
  BY <1>1, <1>4, <1>5, ContestedPolicies
<1>7. PolicySlot(s) /\ job'[s] = P!Idle
  BY <1>1, <1>5, PolicyEnds
<1>8. /\ dialog' \in P!Dialogs /\ dialog'.submitting = dialog.submitting
      /\ dialog'.evaluating = FALSE /\ dialog'.executing = executing
  <2>1. dialog \in P!Dialogs
    BY <1>1 DEF P!TypeOK
  <2>2. dialog' = [dialog EXCEPT !.evaluating = FALSE, !.result = result, !.confirm = confirm,
                                 !.executing = executing]
    BY <1>5
  <2>3. /\ result \in BOOLEAN /\ confirm \in BOOLEAN /\ executing \in BOOLEAN
        /\ FALSE \in BOOLEAN
    BY <1>2
  <2>4. dialog' \in P!Dialogs
    BY ONLY <2>1, <2>2, <2>3, ZenonT(40) DEF P!Dialogs
  <2>5. /\ dialog'.submitting = dialog.submitting /\ dialog'.evaluating = FALSE
        /\ dialog'.executing = executing
    BY ONLY <2>1, <2>2 DEF P!Dialogs
  <2> QED
    BY <2>4, <2>5
<1>9. /\ page' \in PolicyPages /\ page'.list = page.list /\ page'.loaded = page.loaded
      /\ page'.loading => page.loading \/ reads' # {}
  BY <1>1, <1>2, <1>5 DEF P!TypeOK, PolicyPages
<1>10. P!TypeOK'
  BY <1>1, <1>5, <1>6, <1>7, <1>8, <1>9, PageReadType
     DEF P!TypeOK, PolicyHistories, PolicyPages, PolicySlot
<1>11. ExecutionsAreCounted'
  BY <1>1, <1>5, <1>6, <1>7, PolicyCountFrame
<1>12. \A t \in Slots : HandlerIsWhole(job'[t])
  BY <1>7 DEF PolicyInv, HandlerIsWhole, PolicySlot
<1>13. ListingsHaveHandlers'
  BY <1>1, <1>5, <1>7, PageReadType, PolicyListingFrame
<1>14. \A p \in Policies \ hist'.contested : RowAgrees(p)'
  BY <1>1, <1>2, <1>4, <1>5, <1>6, <1>7, <1>9, EvaluationRows
<1>15. P!BusyMeansWorking'
  <2>1. page'.loading => reads' # {}
    BY <1>5, <1>9 DEF PolicyInv, P!BusyMeansWorking
  <2>2. dialog'.submitting => \E t \in Slots : job'[t] # P!Idle /\ job'[t].op \in P!Saves
    BY <1>1, <1>7, <1>8 DEF PolicyInv, P!BusyMeansWorking, PolicySlot, P!Saves, P!Evaluations
  <2>3. dialog'.executing => \E t \in Slots : job'[t] # P!Idle /\ job'[t].op = "live"
    BY <1>3, <1>7, <1>8 DEF PolicyInv, P!BusyMeansWorking, PolicySlot
  <2> QED
    BY <1>8, <2>1, <2>2, <2>3 DEF P!BusyMeansWorking
<1> QED
  BY <1>10, <1>11, <1>12, <1>13, <1>14, <1>15 DEF PolicyInv

-----------------------------------------------------------------------------
(* Colleagues, and listings *)

LEMMA ColleagueSwitchKeeps ==
    ASSUME PolicyInv, NEW q \in Policies, P!Colleague(q), asked < MaxRequests, asked' = asked + 1
    PROVE  PolicyInv'
<1>1. /\ P!TypeOK /\ asked \in Nat /\ P!Contest({q}) /\ srv' = [srv EXCEPT ![q] = P!Flip(@)]
      /\ UNCHANGED <<page, dialog, job, reads, faults>>
  BY PolicyFields DEF PolicyInv, P!Colleague
<1>2. /\ hist' \in PolicyHistories /\ hist'.contested = hist.contested \cup {q}
      /\ hist'.executed = hist.executed /\ hist'.confirmed = hist.confirmed
  BY <1>1, ContestedPolicies
<1>3. srv' \in P!Lists /\ \A p \in Policies \ {q} : srv'[p] = srv[p]
  BY <1>1 DEF P!TypeOK, P!Lists, P!Flip, P!Absent
<1>4. P!TypeOK' /\ P!BusyMeansWorking'
  BY <1>1, <1>2, <1>3, BoundsAssumption
     DEF PolicyInv, P!TypeOK, PolicyHistories, P!BusyMeansWorking
<1>5. ExecutionsAreCounted' /\ ListingsHaveHandlers' /\ \A s \in Slots : HandlerIsWhole(job'[s])
  BY <1>1, <1>2, PolicyFields
     DEF PolicyInv, ExecutionsAreCounted, ListingsHaveHandlers
<1>6. \A p \in Policies \ hist'.contested : RowAgrees(p)'
  BY <1>1, <1>2, <1>3, PolicyRowFrame DEF PolicyInv
<1> QED
  BY <1>4, <1>5, <1>6 DEF PolicyInv

LEMMA PolicyRefreshKeeps ==
    ASSUME PolicyInv, P!Refresh, asked < MaxRequests, asked' = asked + 1
    PROVE  PolicyInv'
<1>1. /\ P!TypeOK /\ asked \in Nat /\ P!Contest(P!ContestedByRead)
      /\ page' = [page EXCEPT !.loading = TRUE] /\ reads' = reads \cup {P!PageRead}
      /\ UNCHANGED <<srv, dialog, job, faults>>
  BY PolicyFields DEF PolicyInv, P!Refresh
<1>2. /\ hist' \in PolicyHistories /\ hist'.contested = hist.contested \cup P!ContestedByRead
      /\ hist'.executed = hist.executed /\ hist'.confirmed = hist.confirmed
  BY <1>1, ContestedPolicies DEF P!ContestedByRead
<1>3. page' \in PolicyPages /\ page'.list = page.list /\ page'.loaded = page.loaded
  BY <1>1 DEF P!TypeOK, PolicyPages
<1>4. P!TypeOK' /\ P!BusyMeansWorking'
  BY <1>1, <1>2, <1>3, PageReadType, BoundsAssumption
     DEF PolicyInv, P!TypeOK, PolicyPages, PolicyHistories, P!BusyMeansWorking
<1>5. ExecutionsAreCounted' /\ ListingsHaveHandlers' /\ \A s \in Slots : HandlerIsWhole(job'[s])
  <2>1. ListingsHaveHandlers'
    BY <1>1, PageReadType DEF PolicyInv, ListingsHaveHandlers
  <2> QED
    BY <1>1, <1>2, <2>1, PolicyFields DEF PolicyInv, ExecutionsAreCounted
<1>6. ASSUME NEW p \in Policies \ hist'.contested PROVE RowAgrees(p)'
  <2>1. RowAgrees(p) /\ p \notin P!ContestedByRead
    BY <1>2 DEF PolicyInv
  <2>2. \A s \in Slots : Writes(job[s], p) => job[s].stage # "sent"
    BY <2>1 DEF P!ContestedByRead, P!Running, Writes
  <2> QED
    BY <1>1, <1>3, <2>1, <2>2, PageReadType, PolicyRowFrame
<1> QED
  BY <1>4, <1>5, <1>6 DEF PolicyInv

\* A listing replaces the list.  For the rows it says something of, it is true, and
\* the answers still to come will make the same rows of it.
LEMMA PolicyRowFetched ==
    ASSUME PolicyInv, NEW p \in Policies, RowAgrees(p), NEW r \in reads, UNCHANGED srv,
           page'.list = r.list, reads' \subseteq reads,
           \A s \in Slots : /\ Writes(job'[s], p) <=> Writes(job[s], p)
                            /\ Writes(job[s], p) => job'[s] = job[s]
    PROVE  RowAgrees(p)'
<1>1. page'.list[p] = srv[p]
  BY DEF RowAgrees
<1>2. ASSUME NEW s \in Slots, Writes(job[s], p) PROVE ListAgrees(p, job[s])'
  <2>1. ManagerAgrees(p, job[s]) /\ HandlerIsWhole(job[s]) /\ job[s] # P!Idle /\ job'[s] = job[s]
    BY <1>2 DEF RowAgrees, PolicyInv, Writes
  <2>2. job[s].stage # "sent"
    BY <2>1 DEF ManagerAgrees
  <2> QED
    BY <1>1, <2>1, <2>2 DEF ManagerAgrees, HandlerIsWhole, ListAgrees, P!Saves
<1>3. \A s \in Slots : Writes(job'[s], p) => ManagerAgrees(p, job[s])'
  BY DEF RowAgrees, ManagerAgrees
<1> QED
  BY <1>1, <1>2, <1>3 DEF RowAgrees

LEMMA PageLoadedKeeps ==
    ASSUME PolicyInv, NEW r \in reads, P!PageLoaded(r), UNCHANGED asked
    PROVE  PolicyInv'
<1>1. /\ P!TypeOK /\ reads' = reads \ {r} /\ UNCHANGED <<srv, hist, dialog, job, asked>>
      /\ UNCHANGED faults \/ P!Fault
      /\ \/ page' = [list |-> r.list, loading |-> FALSE, loaded |-> TRUE]
         \/ page' = [page EXCEPT !.loading = FALSE]
  BY DEF PolicyInv, P!PageLoaded
<1>2. /\ page' \in PolicyPages /\ ~page'.loading
      /\ page'.list = r.list \/ (page'.list = page.list /\ page'.loaded = page.loaded)
  <2>1. CASE page' = [list |-> r.list, loading |-> FALSE, loaded |-> TRUE]
    BY <1>1, <2>1, PolicyFields DEF PolicyPages
  <2>2. CASE page' = [page EXCEPT !.loading = FALSE]
    BY <1>1, <2>2 DEF P!TypeOK, PolicyPages
  <2> QED
    BY <1>1, <2>1, <2>2
<1>3. P!TypeOK'
  <2>1. faults' \in 0 .. MaxFaults
    BY <1>1, BoundsAssumption DEF P!TypeOK, P!Fault
  <2> QED
    BY <1>1, <1>2, <2>1 DEF P!TypeOK, PolicyPages
<1>4. P!BusyMeansWorking'
  BY <1>1, <1>2 DEF PolicyInv, P!BusyMeansWorking
<1>5. ExecutionsAreCounted' /\ ListingsHaveHandlers' /\ \A s \in Slots : HandlerIsWhole(job'[s])
  BY <1>1 DEF PolicyInv, ExecutionsAreCounted, ListingsHaveHandlers
<1>6. ASSUME NEW p \in Policies \ hist'.contested PROVE RowAgrees(p)'
  <2>1. RowAgrees(p)
    BY <1>1 DEF PolicyInv
  <2> QED
    BY <1>1, <1>2, <2>1, PolicyRowFrame, PolicyRowFetched
<1> QED
  BY <1>3, <1>4, <1>5, <1>6 DEF PolicyInv

LEMMA SaveEndsKeeps ==
    ASSUME PolicyInv, NEW r \in reads, P!SaveEnds(r), UNCHANGED asked
    PROVE  PolicyInv'
<1> DEFINE s == r.by
<1>1. /\ P!TypeOK /\ s # 0 /\ reads' = reads \ {r} /\ P!Ends(s) /\ UNCHANGED <<srv, hist, asked>>
      /\ UNCHANGED faults \/ P!Fault
      /\ dialog' = [dialog EXCEPT !.kind = "none", !.submitting = FALSE]
      /\ \/ page' = [list |-> r.list, loading |-> FALSE, loaded |-> TRUE]
         \/ page' = [page EXCEPT !.loading = FALSE]
  BY DEF PolicyInv, P!SaveEnds
<1>2. /\ s \in Slots /\ job[s] # P!Idle /\ job[s].op \in P!Saves /\ job[s].stage = "fetching"
      /\ \A q \in reads : q.by = s => q = r
  BY <1>1, PolicyFields DEF PolicyInv, ListingsHaveHandlers
<1> HIDE DEF s
<1>3. PolicySlot(s) /\ job'[s] = P!Idle
  BY <1>1, <1>2, PolicyEnds
<1>4. /\ page' \in PolicyPages /\ ~page'.loading
      /\ page'.list = r.list \/ (page'.list = page.list /\ page'.loaded = page.loaded)
  <2>1. CASE page' = [list |-> r.list, loading |-> FALSE, loaded |-> TRUE]
    BY <1>1, <2>1, PolicyFields DEF PolicyPages
  <2>2. CASE page' = [page EXCEPT !.loading = FALSE]
    BY <1>1, <2>2 DEF P!TypeOK, PolicyPages
  <2> QED
    BY <1>1, <2>1, <2>2
<1>5. /\ dialog' \in P!Dialogs /\ ~dialog'.submitting
      /\ dialog'.evaluating = dialog.evaluating /\ dialog'.executing = dialog.executing
  BY <1>1 DEF P!TypeOK, P!Dialogs
<1>6. P!TypeOK'
  <2>1. faults' \in 0 .. MaxFaults
    BY <1>1, BoundsAssumption DEF P!TypeOK, P!Fault
  <2> QED
    BY <1>1, <1>3, <1>4, <1>5, <2>1 DEF P!TypeOK, PolicyPages, PolicySlot
<1>7. P!BusyMeansWorking'
  BY <1>2, <1>3, <1>4, <1>5
     DEF PolicyInv, P!BusyMeansWorking, PolicySlot, P!Saves, P!Evaluations
<1>8. ExecutionsAreCounted'
  BY <1>1, <1>2, <1>3, PolicyCountFrame
<1>9. ListingsHaveHandlers'
  BY <1>1, <1>2, <1>3, PolicyFields DEF PolicyInv, ListingsHaveHandlers, PolicySlot
<1>10. \A t \in Slots : HandlerIsWhole(job'[t])
  BY <1>3 DEF PolicyInv, HandlerIsWhole, PolicySlot
<1>11. ASSUME NEW p \in Policies \ hist'.contested PROVE RowAgrees(p)'
  <2>1. RowAgrees(p)
    BY <1>1 DEF PolicyInv
  <2>2. \A t \in Slots : /\ Writes(job'[t], p) <=> Writes(job[t], p)
                         /\ Writes(job[t], p) => job'[t] = job[t]
    BY <1>2, <1>3 DEF PolicySlot, Writes
  <2> QED
    BY <1>1, <1>4, <2>1, <2>2, PolicyRowFrame, PolicyRowFetched
<1> QED
  BY <1>6, <1>7, <1>8, <1>9, <1>10, <1>11 DEF PolicyInv

-----------------------------------------------------------------------------
(* Operations on rows *)

\* A row next to the one that handler s writes.
LEMMA PolicyOtherRow ==
    ASSUME PolicyInv, NEW s \in Slots, PolicySlot(s), NEW p \in Policies, RowAgrees(p),
           ~Writes(job[s], p), ~Writes(job'[s], p),
           srv'[p] = srv[p], page'.list[p] = page.list[p], page'.loaded = page.loaded,
           reads' \subseteq reads
    PROVE  RowAgrees(p)'
<1>1. \A t \in Slots : /\ Writes(job'[t], p) <=> Writes(job[t], p)
                       /\ Writes(job[t], p) => job'[t] = job[t]
  BY DEF PolicySlot
<1> QED
  BY <1>1, PolicyRowFrame

\* An operation starts on row p, which no other one writes and no listing is about.
LEMMA PolicyRowStarts ==
    ASSUME PolicyInv, NEW s \in Slots, PolicySlot(s), NEW p \in Policies, RowAgrees(p),
           job[s] = P!Idle, job'[s] # P!Idle, job'[s].on = p, job'[s].stage = "sent",
           job'[s].op \notin P!Evaluations, P!Running(p) = {}, reads = {},
           UNCHANGED <<srv, reads>>, page'.loaded = page.loaded,
           \/ job'[s].op # "toggle" /\ page'.list[p] = page.list[p]
           \/ /\ job'[s].op = "toggle" /\ page.list[p] # P!Absent /\ page'.list[p] # P!Absent
              /\ job'[s].was = page.list[p]
    PROVE  RowAgrees(p)'
<1>1. /\ \A t \in Slots : ~Writes(job[t], p)
      /\ \A t \in Slots : Writes(job'[t], p) <=> t = s
  BY DEF P!Running, Writes, PolicySlot
<1>2. KnownRow(p)' => KnownRow(p)
  BY DEF KnownRow
<1>3. KnownRow(p) => page.list[p] = srv[p]
  BY <1>1 DEF RowAgrees
<1>4. ManagerAgrees(p, job[s])'
  BY <1>3 DEF ManagerAgrees, KnownRow
<1>5. KnownRow(p)' => ListAgrees(p, job[s])'
  BY <1>2, <1>3 DEF ListAgrees
<1> QED
  BY <1>1, <1>4, <1>5 DEF RowAgrees

\* What a request that starts an operation on row q leaves of the rest.
LEMMA PolicyWriteStarts ==
    ASSUME PolicyInv, NEW s \in Slots, NEW q \in Policies,
           NEW op \in P!Saves \cup {"delete", "toggle"},
           NEW arg \in {"on", "off", P!Absent}, NEW was \in {"on", "off", P!Absent},
           P!Start(s, op, q, arg, was), P!Contest(P!ContestedByStart(q)),
           op = "toggle" => was # P!Absent /\ arg # P!Absent,
           op \in P!Saves => arg # P!Absent, op = "delete" => arg = P!Absent,
           asked < MaxRequests, asked' = asked + 1, UNCHANGED <<srv, reads, faults>>,
           page' \in PolicyPages, page'.loading = page.loading, page'.loaded = page.loaded,
           \A p \in Policies \ {q} : page'.list[p] = page.list[p],
           \/ op # "toggle" /\ page'.list[q] = page.list[q]
           \/ /\ op = "toggle" /\ page.list[q] # P!Absent /\ page'.list[q] # P!Absent
              /\ was = page.list[q],
           dialog' \in P!Dialogs, dialog'.submitting => dialog.submitting \/ op \in P!Saves,
           dialog'.evaluating = dialog.evaluating, dialog'.executing = dialog.executing
    PROVE  PolicyInv'
<1>1. P!TypeOK /\ asked \in Nat
  BY PolicyFields DEF PolicyInv
<1>2. /\ job[s] = P!Idle /\ PolicySlot(s) /\ job'[s] # P!Idle
      /\ job'[s].op = op /\ job'[s].on = q /\ job'[s].arg = arg /\ job'[s].was = was
      /\ job'[s].stage = "sent"
  BY <1>1, PolicyStart
<1>3. op \notin P!Evaluations
  BY DEF P!Saves, P!Evaluations
<1>4. /\ hist' \in PolicyHistories
      /\ hist'.contested = hist.contested \cup P!ContestedByStart(q)
      /\ hist'.executed = hist.executed /\ hist'.confirmed = hist.confirmed
  BY <1>1, ContestedPolicies DEF P!ContestedByStart
<1>5. P!TypeOK'
  BY <1>1, <1>2, <1>4, BoundsAssumption DEF P!TypeOK, PolicySlot, PolicyPages, PolicyHistories
<1>6. ExecutionsAreCounted'
  BY <1>2, <1>3, <1>4, PolicyCountFrame DEF P!Evaluations
<1>7. \A t \in Slots : HandlerIsWhole(job'[t])
  BY <1>2 DEF PolicyInv, HandlerIsWhole, PolicySlot
<1>8. ListingsHaveHandlers'
  BY <1>2, PolicyListingFrame
<1>9. ASSUME NEW p \in Policies \ hist'.contested PROVE RowAgrees(p)'
  <2>1. RowAgrees(p)
    BY <1>4 DEF PolicyInv
  <2>2. CASE p = q
    <3>1. P!Running(q) = {} /\ reads = {}
      BY <1>4, <2>2 DEF P!ContestedByStart
    <3> QED
      BY <1>2, <1>3, <2>1, <2>2, <3>1, PolicyRowStarts
  <2>3. CASE p # q
    <3>1. ~Writes(job[s], p) /\ ~Writes(job'[s], p)
      BY <1>2, <2>3 DEF Writes
    <3> QED
      BY <1>2, <2>1, <2>3, <3>1, PolicyOtherRow
  <2> QED
    BY <2>2, <2>3
<1>10. P!BusyMeansWorking'
  <2>1. \A t \in Slots : job[t] # P!Idle => job'[t] = job[t]
    BY <1>2 DEF PolicySlot
  <2> QED
    BY <1>2, <2>1 DEF PolicyInv, P!BusyMeansWorking
<1> QED
  BY <1>5, <1>6, <1>7, <1>8, <1>9, <1>10 DEF PolicyInv

LEMMA ToggleKeeps ==
    ASSUME PolicyInv, NEW s \in Slots, NEW q \in Policies, P!Toggle(s, q),
           asked < MaxRequests, asked' = asked + 1
    PROVE  PolicyInv'
<1>1. /\ P!TypeOK /\ page.list[q] \in {"on", "off"} /\ page.list \in P!Lists
      /\ dialog \in P!Dialogs
  BY PolicyFields DEF PolicyInv, P!Toggle, P!Shown, P!Lists, P!TypeOK
<1>2. P!Flip(page.list[q]) \in {"on", "off"}
  BY DEF P!Flip
<1>3. /\ page' = [page EXCEPT !.list = [page.list EXCEPT ![q] = P!Flip(page.list[q])]]
      /\ P!Start(s, "toggle", q, P!Flip(page.list[q]), page.list[q])
      /\ P!Contest(P!ContestedByStart(q)) /\ UNCHANGED <<srv, dialog, reads, faults>>
  BY DEF P!Toggle
<1>4. /\ page' \in PolicyPages /\ page'.loading = page.loading /\ page'.loaded = page.loaded
      /\ page'.list = [page.list EXCEPT ![q] = P!Flip(page.list[q])]
  BY <1>1, <1>2, <1>3 DEF P!TypeOK, PolicyPages, P!Lists
<1>5. /\ \A p \in Policies \ {q} : page'.list[p] = page.list[p]
      /\ page'.list[q] = P!Flip(page.list[q])
  BY <1>1, <1>4 DEF P!Lists
<1>6. \A v \in {"on", "off"} : v # P!Absent
  BY DEF P!Absent
<1>7. "toggle" \notin P!Saves
  BY DEF P!Saves
<1> QED
  BY <1>1, <1>2, <1>3, <1>4, <1>5, <1>6, <1>7, PolicyWriteStarts

LEMMA PolicyDeleteKeeps ==
    ASSUME PolicyInv, NEW s \in Slots, NEW q \in Policies, P!Delete(s, q),
           asked < MaxRequests, asked' = asked + 1
    PROVE  PolicyInv'
<1>1. page \in PolicyPages /\ dialog \in P!Dialogs /\ "delete" \notin P!Saves
  BY DEF PolicyInv, P!TypeOK, PolicyPages, P!Saves
<1> QED
  BY <1>1, PolicyWriteStarts DEF P!Delete

LEMMA PolicySubmitKeeps ==
    ASSUME PolicyInv, NEW s \in Slots, NEW q \in Policies, NEW v \in {"on", "off"},
           P!Submit(s, q, v), asked < MaxRequests, asked' = asked + 1
    PROVE  PolicyInv'
<1>1. P!TypeOK /\ page \in PolicyPages /\ v # P!Absent
  BY DEF PolicyInv, P!TypeOK, PolicyPages, P!Absent
<1>2. PICK op \in P!Saves : P!Start(s, op, q, v, P!Absent)
  BY DEF P!Submit, P!Saves
<1>3. op # "toggle" /\ op # "delete"
  BY DEF P!Saves
<1>4. /\ dialog' \in P!Dialogs /\ dialog'.evaluating = dialog.evaluating
      /\ dialog'.executing = dialog.executing
  BY <1>1 DEF P!Submit, P!TypeOK, P!Dialogs
<1>5. P!Contest(P!ContestedByStart(q)) /\ UNCHANGED <<srv, page, reads, faults>>
  BY DEF P!Submit
<1> QED
  BY <1>1, <1>2, <1>3, <1>4, <1>5, PolicyWriteStarts

\* Handler s, an operation on row q, goes on or ends: what does not concern the row.
LEMMA PolicyWriteGoesOn ==
    ASSUME PolicyInv, NEW s \in Slots, NEW q \in Policies, Writes(job[s], q), PolicySlot(s),
           \/ job'[s] = P!Idle
           \/ /\ job'[s].op = job[s].op /\ job'[s].on = q
              /\ job'[s].arg = job[s].arg /\ job'[s].was = job[s].was,
           srv' \in P!Lists, \A p \in Policies \ {q} : srv'[p] = srv[p],
           page' \in PolicyPages, page'.loaded = page.loaded,
           \A p \in Policies \ {q} : page'.list[p] = page.list[p],
           dialog' \in P!Dialogs, hist' \in PolicyHistories,
           hist.contested \subseteq hist'.contested,
           hist'.executed = hist.executed, hist'.confirmed = hist.confirmed,
           NEW new \in [by : Slots \cup {0}, list : P!Lists], new.list = srv,
           \/ reads' = reads
           \/ reads' = reads \cup {new} /\ P!ContestedByRead \subseteq hist'.contested,
           UNCHANGED faults \/ P!Fault, UNCHANGED asked
    PROVE  /\ P!TypeOK' /\ ExecutionsAreCounted' /\ \A t \in Slots : HandlerIsWhole(job'[t])
           /\ \A p \in Policies \ hist'.contested : p # q => RowAgrees(p)'
<1>1. P!TypeOK /\ job[s] # P!Idle /\ job[s].op \notin P!Evaluations /\ HandlerIsWhole(job[s])
  BY DEF PolicyInv, Writes
<1>2. faults' \in 0 .. MaxFaults
  BY <1>1, BoundsAssumption DEF P!TypeOK, P!Fault
<1>3. P!TypeOK'
  BY <1>1, <1>2 DEF P!TypeOK, PolicySlot, PolicyPages, PolicyHistories
<1>4. ExecutionsAreCounted'
  BY <1>1, PolicyCountFrame DEF P!Evaluations
<1>5. \A t \in Slots : HandlerIsWhole(job'[t])
  BY <1>1 DEF PolicyInv, HandlerIsWhole, PolicySlot
<1>6. ASSUME NEW p \in Policies \ hist'.contested, p # q PROVE RowAgrees(p)'
  <2>1. RowAgrees(p)
    BY DEF PolicyInv
  <2>2. \A t \in Slots : /\ Writes(job'[t], p) <=> Writes(job[t], p)
                         /\ Writes(job[t], p) => job'[t] = job[t]
    BY <1>6 DEF PolicySlot, Writes
  <2>3. ASSUME P!ContestedByRead \subseteq hist'.contested, NEW t \in Slots, Writes(job[t], p)
        PROVE  job[t].stage # "sent"
    BY <2>3 DEF P!ContestedByRead, P!Running, Writes
  <2>4. \A r \in reads' : \/ r \in reads
                          \/ /\ r.list[p] = srv[p]
                             /\ \A t \in Slots : Writes(job[t], p) => job[t].stage # "sent"
    BY <2>3
  <2> QED
    BY <1>6, <2>1, <2>2, <2>4, PolicyRowFrame
<1> QED
  BY <1>3, <1>4, <1>5, <1>6

\* The operation on row q is over.
LEMMA PolicyRowEnds ==
    ASSUME NEW s \in Slots, NEW q \in Policies, RowAgrees(q), Writes(job[s], q), PolicySlot(s),
           ~Writes(job'[s], q), UNCHANGED srv, \A r \in reads' : r \in reads \/ r.list = srv,
           KnownRow(q)' => page'.list[q] = srv[q]
    PROVE  RowAgrees(q)'
<1>1. \A t \in Slots : ~Writes(job'[t], q)
  BY DEF RowAgrees, PolicySlot
<1> QED
  BY <1>1 DEF RowAgrees

LEMMA ServeWriteKeeps ==
    ASSUME PolicyInv, NEW s \in Slots, P!ServeWrite(s), UNCHANGED asked
    PROVE  PolicyInv'
<1>q. PICK q \in Policies : job[s].on = q
  BY DEF PolicyInv, P!ServeWrite, P!Sent, P!Saves, P!Evaluations, HandlerIsWhole
<1> DEFINE found == job[s].op = "create" \/ srv[q] # P!Absent
<1>1. /\ P!TypeOK /\ job[s] # P!Idle /\ job[s].stage = "sent" /\ job[s].op \notin P!Evaluations
      /\ job[s].arg \in {"on", "off", P!Absent}
      /\ UNCHANGED <<page, dialog, reads, asked>>
  BY PolicyFields
     DEF PolicyInv, P!ServeWrite, P!Sent, P!Saves, P!Evaluations, P!Jobs
<1>2. \/ /\ found /\ srv' = [srv EXCEPT ![q] = job[s].arg]
         /\ \/ P!Step(s, "ok") /\ UNCHANGED <<hist, faults>>
            \/ P!Step(s, "err") /\ P!Fault /\ P!Contest({q})
      \/ P!Step(s, "err") /\ (UNCHANGED faults \/ P!Fault) /\ UNCHANGED <<srv, hist>>
  BY <1>q DEF P!ServeWrite
<1>3. PICK stage \in {"ok", "err"} : P!Step(s, stage)
  BY <1>2
<1>4. /\ PolicySlot(s) /\ job'[s] # P!Idle /\ job'[s].op = job[s].op /\ job'[s].on = q
      /\ job'[s].arg = job[s].arg /\ job'[s].was = job[s].was /\ job'[s].stage = stage
  BY <1>q, <1>1, <1>3, PolicyStage
<1>5. Writes(job[s], q) /\ Writes(job'[s], q)
  BY <1>q, <1>1, <1>4 DEF Writes
<1>6. /\ srv' \in P!Lists /\ \A p \in Policies \ {q} : srv'[p] = srv[p]
      /\ srv'[q] = job[s].arg \/ srv' = srv
  BY <1>1, <1>2 DEF P!TypeOK, P!Lists
<1>7. /\ hist' \in PolicyHistories /\ hist.contested \subseteq hist'.contested
      /\ hist'.executed = hist.executed /\ hist'.confirmed = hist.confirmed
  <2>1. CASE P!Contest({q})
    BY <1>1, <2>1, ContestedPolicies
  <2>2. CASE UNCHANGED hist
    BY <1>1, <2>2 DEF P!TypeOK, PolicyHistories
  <2> QED
    BY <1>2, <2>1, <2>2
<1>8. page' \in PolicyPages /\ dialog' \in P!Dialogs
  BY <1>1 DEF P!TypeOK, PolicyPages
<1>9. /\ P!TypeOK' /\ ExecutionsAreCounted' /\ \A t \in Slots : HandlerIsWhole(job'[t])
      /\ \A p \in Policies \ hist'.contested : p # q => RowAgrees(p)'
  BY <1>1, <1>2, <1>4, <1>5, <1>6, <1>7, <1>8, PageReadType, PolicyWriteGoesOn
<1>10. ASSUME q \notin hist'.contested PROVE RowAgrees(q)'
  <2>1. RowAgrees(q)
    BY <1>1, <1>7, <1>10 DEF PolicyInv
  <2>2. /\ reads = {} /\ ManagerAgrees(q, job[s])
        /\ KnownRow(q) => ListAgrees(q, job[s])
    BY <1>1, <1>5, <2>1 DEF RowAgrees, ManagerAgrees
  <2>3. \A t \in Slots : Writes(job'[t], q) => t = s
    BY <1>4, <1>5, <2>1 DEF RowAgrees, PolicySlot
  <2>4. \/ found /\ stage = "ok" /\ srv'[q] = job[s].arg
        \/ stage = "err" /\ srv' = srv
    <3>1. ~P!Contest({q})
      BY <1>1, <1>10, ContestedPolicies
    <3>2. P!Step(s, "ok") => stage = "ok"
      BY <1>1, <1>4, PolicyStage
    <3>3. P!Step(s, "err") => stage = "err"
      BY <1>1, <1>4, PolicyStage
    <3> QED
      BY <1>1, <1>2, <3>1, <3>2, <3>3 DEF P!TypeOK, P!Lists
  <2>5. KnownRow(q)' <=> KnownRow(q)
    BY <1>1 DEF KnownRow
  <2>6. ManagerAgrees(q, job[s])'
    BY <1>1, <1>4, <2>2, <2>4 DEF ManagerAgrees
  <2>7. KnownRow(q)' => ListAgrees(q, job[s])'
    BY <1>1, <1>4, <2>2, <2>4, <2>5 DEF ListAgrees
  <2> QED
    BY <1>1, <1>5, <2>2, <2>3, <2>6, <2>7 DEF RowAgrees
<1>11. ListingsHaveHandlers'
  BY <1>1, <1>4, PolicyListingFrame
<1>12. P!BusyMeansWorking'
  <2>1. \A t \in Slots : job[t] # P!Idle => job'[t] # P!Idle /\ job'[t].op = job[t].op
    BY <1>4 DEF PolicySlot
  <2> QED
    BY <1>1, <2>1 DEF PolicyInv, P!BusyMeansWorking
<1> QED
  BY <1>9, <1>10, <1>11, <1>12 DEF PolicyInv

\* A row and what Patch makes of it.
LEMMA PatchRow ==
    ASSUME page \in PolicyPages, NEW q \in Policies, NEW v \in {"on", "off", P!Absent}
    PROVE  /\ P!Patch(q, v) \in P!Lists
           /\ P!Patch(q, v)[q] = IF page.list[q] = P!Absent THEN P!Absent ELSE v
           /\ \A p \in Policies \ {q} : P!Patch(q, v)[p] = page.list[p]
BY DEF PolicyPages, P!Lists, P!Patch

\* The list changes in one row at most.
LEMMA PageListed ==
    ASSUME page \in PolicyPages, NEW l \in P!Lists, page' = [page EXCEPT !.list = l]
    PROVE  /\ page' \in PolicyPages /\ page'.list = l /\ page'.loading = page.loading
           /\ page'.loaded = page.loaded
BY DEF PolicyPages

LEMMA RowAnsweredKeeps ==
    ASSUME PolicyInv, NEW s \in Slots, P!RowAnswered(s), UNCHANGED asked
    PROVE  PolicyInv'
<1>1. PICK q \in Policies : job[s].on = q
  BY DEF PolicyInv, P!RowAnswered, P!Answered, P!Evaluations, HandlerIsWhole
<1>2. /\ P!TypeOK /\ page \in PolicyPages /\ job[s] # P!Idle /\ job[s] \in P!Jobs
      /\ job[s].op \in {"toggle", "delete"} /\ job[s].stage \in {"ok", "err"}
      /\ P!Ends(s) /\ UNCHANGED <<srv, hist, dialog, reads, faults, asked>>
  BY PolicyFields DEF PolicyInv, P!RowAnswered, P!Answered, P!TypeOK, PolicyPages
<1>3. job[s].arg \in {"on", "off", P!Absent} /\ job[s].was \in {"on", "off", P!Absent}
  BY <1>2 DEF P!Jobs
<1>4. PolicySlot(s) /\ job'[s] = P!Idle
  BY <1>2, PolicyEnds
<1>5. Writes(job[s], q) /\ ~Writes(job'[s], q)
  BY <1>1, <1>2, <1>4 DEF Writes, P!Evaluations
<1>6. \/ job[s].stage = "ok" /\ page' = [page EXCEPT !.list = P!Patch(q, job[s].arg)]
      \/ /\ job[s].op = "toggle" /\ job[s].stage = "err"
         /\ page' = [page EXCEPT !.list = P!Patch(q, job[s].was)]
      \/ job[s].op = "delete" /\ job[s].stage = "err" /\ page' = page
  BY <1>1 DEF P!RowAnswered, P!Answered
<1>7. /\ page' \in PolicyPages /\ page'.loading = page.loading /\ page'.loaded = page.loaded
      /\ \A p \in Policies \ {q} : page'.list[p] = page.list[p]
      /\ \/ /\ job[s].stage = "ok"
            /\ page'.list[q] = IF page.list[q] = P!Absent THEN P!Absent ELSE job[s].arg
         \/ /\ job[s].op = "toggle" /\ job[s].stage = "err"
            /\ page'.list[q] = IF page.list[q] = P!Absent THEN P!Absent ELSE job[s].was
         \/ job[s].op = "delete" /\ job[s].stage = "err" /\ page'.list[q] = page.list[q]
  BY <1>2, <1>3, <1>6, PatchRow, PageListed
<1>8. /\ P!TypeOK' /\ ExecutionsAreCounted' /\ \A t \in Slots : HandlerIsWhole(job'[t])
      /\ \A p \in Policies \ hist'.contested : p # q => RowAgrees(p)'
  <2>1. dialog' \in P!Dialogs /\ hist' \in PolicyHistories /\ srv' \in P!Lists
    BY <1>2 DEF P!TypeOK, PolicyHistories
  <2> QED
    BY <1>2, <1>4, <1>5, <1>7, <2>1, PageReadType, PolicyWriteGoesOn
<1>9. ASSUME q \notin hist'.contested PROVE RowAgrees(q)'
  <2>1. RowAgrees(q)
    BY <1>2, <1>9 DEF PolicyInv
  <2>2. ManagerAgrees(q, job[s]) /\ (KnownRow(q) => ListAgrees(q, job[s])) /\ HandlerIsWhole(job[s])
    BY <1>5, <2>1 DEF RowAgrees, PolicyInv
  <2>3. KnownRow(q)' => KnownRow(q)
    BY <1>7 DEF KnownRow
  <2>4. KnownRow(q)' => page'.list[q] = srv[q]
    BY <1>2, <1>7, <2>2, <2>3 DEF ManagerAgrees, ListAgrees, HandlerIsWhole
  <2> QED
    BY <1>2, <1>4, <1>5, <2>1, <2>4, PolicyRowEnds
<1>10. ListingsHaveHandlers'
  BY <1>2, <1>4, PolicyListingFrame
<1>11. P!BusyMeansWorking'
  BY <1>2, <1>4, <1>7 DEF PolicyInv, P!BusyMeansWorking, PolicySlot, P!Saves, P!Evaluations
<1> QED
  BY <1>8, <1>9, <1>10, <1>11 DEF PolicyInv

LEMMA SaveFailedKeeps ==
    ASSUME PolicyInv, NEW s \in Slots, P!SaveFailed(s), UNCHANGED asked
    PROVE  PolicyInv'
<1>1. PICK q \in Policies : job[s].on = q
  BY DEF PolicyInv, P!SaveFailed, P!Answered, P!Saves, P!Evaluations, HandlerIsWhole
<1>2. /\ P!TypeOK /\ page \in PolicyPages /\ job[s] # P!Idle /\ job[s].op \in P!Saves
      /\ job[s].stage = "err" /\ P!Ends(s) /\ dialog' = [dialog EXCEPT !.submitting = FALSE]
      /\ UNCHANGED <<srv, hist, page, reads, faults, asked>>
  BY DEF PolicyInv, P!SaveFailed, P!Answered, P!TypeOK, PolicyPages
<1>3. PolicySlot(s) /\ job'[s] = P!Idle
  BY <1>2, PolicyEnds
<1>4. Writes(job[s], q) /\ ~Writes(job'[s], q)
  BY <1>1, <1>2, <1>3 DEF Writes, P!Evaluations, P!Saves
<1>5. /\ dialog' \in P!Dialogs /\ ~dialog'.submitting
      /\ dialog'.evaluating = dialog.evaluating /\ dialog'.executing = dialog.executing
  BY <1>2 DEF P!TypeOK, P!Dialogs
<1>6. /\ P!TypeOK' /\ ExecutionsAreCounted' /\ \A t \in Slots : HandlerIsWhole(job'[t])
      /\ \A p \in Policies \ hist'.contested : p # q => RowAgrees(p)'
  <2>1. hist' \in PolicyHistories /\ srv' \in P!Lists
    BY <1>2 DEF P!TypeOK, PolicyHistories
  <2> QED
    BY <1>2, <1>3, <1>4, <1>5, <2>1, PageReadType, PolicyWriteGoesOn
<1>7. ASSUME q \notin hist'.contested PROVE RowAgrees(q)'
  <2>1. RowAgrees(q)
    BY <1>2, <1>7 DEF PolicyInv
  <2>2. KnownRow(q) => page.list[q] = srv[q]
    BY <1>2, <1>4, <2>1 DEF RowAgrees, ListAgrees, P!Saves
  <2> QED
    BY <1>2, <1>3, <1>4, <2>1, <2>2, PolicyRowEnds DEF KnownRow
<1>8. ListingsHaveHandlers'
  BY <1>2, <1>3, PolicyListingFrame
<1>9. P!BusyMeansWorking'
  BY <1>2, <1>3, <1>5 DEF PolicyInv, P!BusyMeansWorking, PolicySlot, P!Saves, P!Evaluations
<1> QED
  BY <1>6, <1>7, <1>8, <1>9 DEF PolicyInv

LEMMA SavedKeeps ==
    ASSUME PolicyInv, NEW s \in Slots, P!Saved(s), UNCHANGED asked
    PROVE  PolicyInv'
<1>1. PICK q \in Policies : job[s].on = q
  BY DEF PolicyInv, P!Saved, P!Answered, P!Saves, P!Evaluations, HandlerIsWhole
<1> DEFINE new == [P!PageRead EXCEPT !.by = s]
           l == IF job[s].op = "create" THEN [page.list EXCEPT ![q] = job[s].arg]
                ELSE P!Patch(q, job[s].arg)
<1>2. /\ P!TypeOK /\ page \in PolicyPages /\ job[s] # P!Idle /\ job[s] \in P!Jobs
      /\ job[s].op \in P!Saves /\ job[s].stage = "ok" /\ P!Step(s, "fetching")
      /\ reads' = reads \cup {new} /\ P!Contest(P!ContestedByRead)
      /\ UNCHANGED <<srv, dialog, faults, asked>>
  BY PolicyFields DEF PolicyInv, P!Saved, P!Answered, P!TypeOK, PolicyPages
<1>3. page' = [page EXCEPT !.loading = TRUE, !.list = l]
  BY <1>1 DEF P!Saved
<1>4. job[s].arg \in {"on", "off", P!Absent} /\ job[s].arg # P!Absent
  BY <1>2 DEF P!Jobs, PolicyInv, HandlerIsWhole
<1>5. /\ l \in P!Lists /\ \A p \in Policies \ {q} : l[p] = page.list[p]
      /\ \/ l[q] = job[s].arg
         \/ job[s].op = "update" /\ page.list[q] = P!Absent /\ l[q] = P!Absent
  BY <1>2, <1>4, PatchRow DEF PolicyPages, P!Lists, P!Saves
<1>6. /\ new \in [by : Slots \cup {0}, list : P!Lists] /\ new.by = s /\ new.list = srv
  BY <1>2, PageReadType DEF P!PageRead
<1> HIDE DEF new, l
<1>7. /\ page' \in PolicyPages /\ page'.list = l /\ page'.loaded = page.loaded
  BY <1>2, <1>3, <1>5 DEF PolicyPages
<1>8. /\ PolicySlot(s) /\ job'[s] # P!Idle /\ job'[s].op = job[s].op /\ job'[s].on = q
      /\ job'[s].arg = job[s].arg /\ job'[s].was = job[s].was /\ job'[s].stage = "fetching"
  BY <1>1, <1>2, PolicyStage
<1>9. Writes(job[s], q) /\ ~Writes(job'[s], q)
  BY <1>1, <1>2, <1>8 DEF Writes, P!Evaluations, P!Saves
<1>10. /\ hist' \in PolicyHistories
       /\ hist'.contested = hist.contested \cup P!ContestedByRead
       /\ hist'.executed = hist.executed /\ hist'.confirmed = hist.confirmed
  BY <1>2, ContestedPolicies DEF P!ContestedByRead
<1>11. /\ P!TypeOK' /\ ExecutionsAreCounted' /\ \A t \in Slots : HandlerIsWhole(job'[t])
       /\ \A p \in Policies \ hist'.contested : p # q => RowAgrees(p)'
  <2>1. dialog' \in P!Dialogs /\ srv' \in P!Lists
    BY <1>2 DEF P!TypeOK
  <2> QED
    BY <1>2, <1>5, <1>6, <1>7, <1>8, <1>9, <1>10, <2>1, PolicyWriteGoesOn
<1>12. ASSUME q \notin hist'.contested PROVE RowAgrees(q)'
  <2>1. RowAgrees(q)
    BY <1>10, <1>12 DEF PolicyInv
  <2>2. srv[q] = job[s].arg /\ (KnownRow(q) => ListAgrees(q, job[s]))
    BY <1>2, <1>9, <2>1 DEF RowAgrees, ManagerAgrees
  <2>3. KnownRow(q)' => page'.list[q] = srv[q]
    BY <1>2, <1>4, <1>5, <1>7, <2>2 DEF KnownRow, ListAgrees
  <2> QED
    BY <1>2, <1>6, <1>8, <1>9, <2>1, <2>3, PolicyRowEnds
<1>13. ListingsHaveHandlers'
  <2>1. \A r \in reads : r.by # 0 => r.by # s
    BY <1>2 DEF PolicyInv, ListingsHaveHandlers
  <2>2. \A r \in reads : r.by # 0 => job'[r.by] = job[r.by]
    BY <1>2, <1>8, <2>1, PolicyFields DEF PolicySlot
  <2> QED
    BY <1>2, <1>6, <1>8, <2>1, <2>2 DEF PolicyInv, ListingsHaveHandlers
<1>14. P!BusyMeansWorking'
  <2>1. \A t \in Slots : job[t] # P!Idle => job'[t] # P!Idle /\ job'[t].op = job[t].op
    BY <1>8 DEF PolicySlot
  <2> QED
    BY <1>2, <2>1 DEF PolicyInv, P!BusyMeansWorking
<1> QED
  BY <1>11, <1>12, <1>13, <1>14 DEF PolicyInv

LEMMA PolicyNext ==
    ASSUME PolicyInv, P!Next
    PROVE  PolicyInv'
<1>1. CASE P!Requests /\ asked < MaxRequests /\ asked' = asked + 1
  BY <1>1, ColleagueSwitchKeeps, ToggleKeeps, PolicyDeleteKeeps, PolicySubmitKeeps,
     TimerFiresEvaluates, ReEvaluateKeeps, ConfirmLiveKeeps, PolicyRefreshKeeps DEF P!Requests
<1>2. CASE P!Clicks /\ UNCHANGED asked
  BY <1>2, PolicyClicksKeep
<1>3. CASE P!Answers /\ UNCHANGED asked
  BY <1>3, ServeWriteKeeps, ServeEvaluationKeeps, RowAnsweredKeeps, SavedKeeps, SaveFailedKeeps,
     EvaluationEndsKeeps, PageLoadedKeeps, SaveEndsKeeps DEF P!Answers
<1> QED
  BY <1>1, <1>2, <1>3 DEF P!Next

LEMMA PolicyStutter ==
    ASSUME PolicyInv, UNCHANGED vars
    PROVE  PolicyInv'
<1>1. UNCHANGED <<srv, hist, page, dialog, job, reads, faults, asked>>
  BY DEF vars
<1>2. dialog' \in P!Dialogs
  BY <1>1 DEF PolicyInv, P!TypeOK
<1> QED
  BY <1>1, <1>2, PolicyDialogKeeps

\* A row that no operation is under way on is right.
LEMMA PolicyRowsExact ==
    ASSUME PolicyInv
    PROVE  P!UncontestedRowIsExact /\ P!NothingRunsUnconfirmed
<1>1. P!UncontestedRowIsExact
  <2> SUFFICES ASSUME page.loaded, NEW p \in Policies \ hist.contested, P!Running(p) = {}
               PROVE  page.list[p] = srv[p]
    BY DEF P!UncontestedRowIsExact
  <2>1. RowAgrees(p) /\ \A s \in Slots : ~Writes(job[s], p)
    BY DEF PolicyInv, P!Running, Writes
  <2> QED
    BY <2>1 DEF RowAgrees, KnownRow
<1>2. P!NothingRunsUnconfirmed
  <2>1. Cardinality(LiveSent(job)) \in Nat
    BY FS_CardinalityType DEF PolicyInv, ExecutionsAreCounted
  <2>2. hist.executed \in Nat /\ hist.confirmed \in Nat
    BY PolicyFields DEF PolicyInv
  <2> QED
    BY <2>1, <2>2 DEF PolicyInv, ExecutionsAreCounted, P!NothingRunsUnconfirmed
<1> QED
  BY <1>1, <1>2

-----------------------------------------------------------------------------
(* The incidents *)

\* The rows that updateIncidentStatus and assignIncident change carry their new status.
Sets == {"status", "assign", "workflow"}

\* The status is one the incident has had, or one that was made up for it.
TrueOrMadeUp(i, st) == st \in hist.had[i] \/ <<i, st>> \in hist.madeUp

HandlersCarryTruth ==
    \A s \in Slots : job[s] # I!Idle =>
      /\ job[s].op \in Sets => job[s].arg \in I!Status
      /\ job[s].op \in I!PageOps /\ job[s].stage = "ok" => TrueOrMadeUp(job[s].on, job[s].arg)
      /\ job[s].stage = "acting" => job[s].op \in I!DialogOps

RowsAreTrue ==
    \A i \in Incidents : /\ srv[i] \in hist.had[i]
                         /\ page.list[i] = I!Absent \/ TrueOrMadeUp(i, page.list[i])

\* The dialog that is open shows an incident, by a status it has had.  As long as it has
\* shown one only, so does its tab.
DialogIsTrue ==
    /\ dialog.sel = I!None => dialog = I!NoDialog
    /\ dialog.sel # I!None => /\ dialog.shown \in Incidents
                              /\ TrueOrMadeUp(dialog.shown, dialog.status)
    /\ ~dialog.moved => dialog.facts \in {I!None, dialog.shown}
    /\ dialog.closeOpen => ~dialog.busy

\* A listing of all incidents, and one of the incident it is of, were true.
WholeList(r) == \A i \in Incidents : r.list[i] \in hist.had[i]
DetailList(r) == r.of \in Incidents /\ r.list[r.of] \in hist.had[r.of]

\* A listing for a handler is the only one; a handler of the dialog has not been
\* forgotten then.
HandlerListing(r) ==
    /\ r.slot \in Slots /\ job[r.slot] # I!Idle /\ job[r.slot].stage = "fetching"
    /\ job[r.slot].op \in I!PageOps => WholeList(r)
    /\ job[r.slot].op \in I!DialogOps => DetailList(r) /\ job[r.slot].live
    /\ \A q \in reads : q.by = "handler" /\ q.slot = r.slot => q = r

ListingsFit ==
    \A r \in reads :
      /\ r.by = "page" => WholeList(r)
      /\ r.by = "detail" => DetailList(r) /\ page.list[r.of] # I!Absent
      /\ r.by = "tab" => /\ dialog.sel # I!None
                         /\ dialog.moved \/ r.of = dialog.shown
      /\ r.by = "handler" => HandlerListing(r)

\* The handlers of the dialog that are on the screen, each behind the flag that
\* disables its buttons.
Acts(j) == j # I!Idle /\ j.op \in I!DialogOps \ {"close"} /\ j.live
Closes(j) == j # I!Idle /\ j.op = "close" /\ j.live
FlagsGuard ==
    /\ \A s \in Slots : Acts(job[s]) => dialog.busy /\ \A t \in Slots : Acts(job[t]) => t = s
    /\ \A s \in Slots : Closes(job[s]) =>
         /\ dialog.closing /\ \A t \in Slots : Closes(job[t]) => t = s
         /\ job[s].stage # "fetching" => dialog.closeOpen

IncidentInv ==
    /\ I!TypeOK /\ HandlersCarryTruth /\ RowsAreTrue /\ DialogIsTrue /\ ListingsFit
    /\ FlagsGuard /\ I!BusyMeansWorking /\ I!KillNamesOwnProcess

-----------------------------------------------------------------------------
(* Types of the incidents' state *)

IncidentHistories == [had : [Incidents -> SUBSET I!Status],
                      madeUp : SUBSET (Incidents \X I!Status),
                      kills : SUBSET [on : Incidents, of : I!Ids, moved : BOOLEAN]]
IncidentPages == [list : I!Lists, loading : BOOLEAN, busy : BOOLEAN, assign : I!Ids]
IncidentHandlers == I!Jobs \cup {I!Idle}

LEMMA IncidentTypes ==
    ASSUME I!TypeOK
    PROVE  /\ srv \in [Incidents -> I!Status] /\ hist \in IncidentHistories
           /\ page \in IncidentPages /\ page.list \in I!Lists /\ dialog \in I!Dialogs
           /\ job \in [Slots -> IncidentHandlers] /\ reads \subseteq I!Reads
           /\ asked \in Nat /\ faults \in Nat
BY DEF I!TypeOK, IncidentHistories, IncidentPages, IncidentHandlers

LEMMA IncidentFaults ==
    ASSUME I!TypeOK, UNCHANGED faults \/ I!Fault
    PROVE  faults' \in 0 .. MaxFaults
BY BoundsAssumption DEF I!TypeOK, I!Fault

LEMMA IncidentAsked ==
    ASSUME I!TypeOK, asked < MaxIncidentRequests, asked' = asked + 1
    PROVE  asked' \in 0 .. MaxIncidentRequests
BY BoundsAssumption DEF I!TypeOK

\* A handler that runs has the fields of one.
LEMMA IncidentHandler ==
    ASSUME NEW j \in IncidentHandlers, j # I!Idle
    PROVE  /\ j \in I!Jobs /\ j.op \in I!PageOps \cup I!DialogOps /\ j.on \in Incidents
           /\ j.arg \in I!Status \cup {I!Absent} /\ j.live \in BOOLEAN
           /\ j.stage \in {"sent", "acting", "ok", "err", "fetching"}
BY DEF IncidentHandlers, I!Jobs

LEMMA IncidentJobsRun ==
    ASSUME NEW j \in I!Jobs
    PROVE  j # I!Idle /\ j \in IncidentHandlers
BY DEF I!Jobs, I!Idle, I!PageOps, I!DialogOps, IncidentHandlers

LEMMA IncidentStarted ==
    ASSUME I!TypeOK, NEW s \in Slots, NEW op \in I!PageOps \cup I!DialogOps,
           NEW i \in Incidents, NEW arg \in I!Status \cup {I!Absent}, I!Start(s, op, i, arg)
    PROVE  /\ job' \in [Slots -> IncidentHandlers] /\ \A t \in Slots \ {s} : job'[t] = job[t]
           /\ job[s] = I!Idle /\ job'[s] # I!Idle /\ job'[s].op = op /\ job'[s].on = i
           /\ job'[s].arg = arg /\ job'[s].live /\ job'[s].stage = "sent"
<1> DEFINE new == [op |-> op, on |-> i, arg |-> arg, live |-> TRUE, stage |-> "sent"]
<1>1. job[s] = I!Idle /\ job' = [job EXCEPT ![s] = new]
  BY DEF I!Start
<1>2. /\ new \in I!Jobs /\ new.op = op /\ new.on = i /\ new.arg = arg /\ new.live
      /\ new.stage = "sent"
  BY DEF I!Jobs
<1> HIDE DEF new
<1>3. new # I!Idle /\ new \in IncidentHandlers
  BY <1>2, IncidentJobsRun
<1> QED
  BY <1>1, <1>2, <1>3, IncidentTypes

LEMMA IncidentStepped ==
    ASSUME I!TypeOK, NEW s \in Slots, job[s] # I!Idle,
           NEW stage \in {"acting", "ok", "err", "fetching"}, I!Step(s, stage)
    PROVE  /\ job' \in [Slots -> IncidentHandlers] /\ \A t \in Slots \ {s} : job'[t] = job[t]
           /\ job'[s] # I!Idle /\ job'[s].op = job[s].op /\ job'[s].on = job[s].on
           /\ job'[s].arg = job[s].arg /\ job'[s].live = job[s].live /\ job'[s].stage = stage
<1> DEFINE new == [job[s] EXCEPT !.stage = stage]
<1>1. job' = [job EXCEPT ![s] = new]
  BY DEF I!Step
<1>2. job \in [Slots -> IncidentHandlers] /\ job[s] \in I!Jobs
  BY IncidentTypes, IncidentHandler
<1>3. new \in I!Jobs
  BY <1>2 DEF I!Jobs
<1>4. /\ new.op = job[s].op /\ new.on = job[s].on /\ new.arg = job[s].arg
      /\ new.live = job[s].live /\ new.stage = stage
  BY <1>2 DEF I!Jobs
<1> HIDE DEF new
<1>5. new # I!Idle /\ new \in IncidentHandlers
  BY <1>3, IncidentJobsRun
<1> QED
  BY <1>1, <1>2, <1>4, <1>5

LEMMA IncidentEnded ==
    ASSUME I!TypeOK, NEW s \in Slots, job' = [job EXCEPT ![s] = I!Idle]
    PROVE  /\ job' \in [Slots -> IncidentHandlers] /\ \A t \in Slots \ {s} : job'[t] = job[t]
           /\ job'[s] = I!Idle
BY IncidentTypes DEF IncidentHandlers

-----------------------------------------------------------------------------
(* The manager of the incidents *)

\* hist has grown: what was true or made up still is.
IncidentHistoryGrows ==
    /\ hist' \in IncidentHistories /\ hist'.kills = hist.kills
    /\ \A i \in Incidents : hist.had[i] \subseteq hist'.had[i]
    /\ hist.madeUp \subseteq hist'.madeUp

LEMMA IncidentWrite ==
    ASSUME I!TypeOK, NEW i \in Incidents, NEW st \in I!Status, I!Write(i, st),
           \A k \in Incidents : srv[k] \in hist.had[k]
    PROVE  /\ srv' \in [Incidents -> I!Status] /\ IncidentHistoryGrows
           /\ st \in hist'.had[i] /\ \A k \in Incidents : srv'[k] \in hist'.had[k]
<1> DEFINE had == [hist.had EXCEPT ![i] = @ \cup {st}]
<1>1. srv' = [srv EXCEPT ![i] = st] /\ hist' = [hist EXCEPT !.had = had]
  BY DEF I!Write
<1>2. hist \in IncidentHistories /\ srv \in [Incidents -> I!Status]
  BY IncidentTypes
<1>3. /\ had \in [Incidents -> SUBSET I!Status] /\ st \in had[i]
      /\ \A k \in Incidents : hist.had[k] \subseteq had[k]
  BY <1>2 DEF IncidentHistories
<1> HIDE DEF had
<1>4. hist' \in IncidentHistories
  BY <1>1, <1>2, <1>3 DEF IncidentHistories
<1>5. hist'.had = had /\ hist'.madeUp = hist.madeUp /\ hist'.kills = hist.kills
  BY <1>1, <1>2 DEF IncidentHistories
<1> QED
  BY <1>1, <1>2, <1>3, <1>4, <1>5 DEF IncidentHistoryGrows

LEMMA IncidentMadeUp ==
    ASSUME I!TypeOK, NEW i \in Incidents, NEW st \in I!Status,
           hist' = [hist EXCEPT !.madeUp = @ \cup {<<i, st>>}]
    PROVE  IncidentHistoryGrows /\ <<i, st>> \in hist'.madeUp /\ hist'.had = hist.had
<1>1. hist \in IncidentHistories
  BY IncidentTypes
<1>2. /\ hist'.madeUp = hist.madeUp \cup {<<i, st>>} /\ hist'.had = hist.had
      /\ hist'.kills = hist.kills
  BY <1>1 DEF IncidentHistories
<1>3. hist' \in IncidentHistories
  BY <1>1 DEF IncidentHistories
<1> QED
  BY <1>1, <1>2, <1>3 DEF IncidentHistoryGrows

LEMMA IncidentHistoryStays ==
    ASSUME I!TypeOK, UNCHANGED hist
    PROVE  IncidentHistoryGrows
BY IncidentTypes DEF IncidentHistoryGrows

LEMMA TruthStays ==
    ASSUME IncidentHistoryGrows, NEW i \in Incidents, NEW st, TrueOrMadeUp(i, st)
    PROVE  st \in hist'.had[i] \/ <<i, st>> \in hist'.madeUp
BY DEF TrueOrMadeUp, IncidentHistoryGrows

\* A step of the manager: of the handlers, those it serves are answered.
LEMMA ManagerKeepsIncidents ==
    ASSUME IncidentInv, srv' \in [Incidents -> I!Status], IncidentHistoryGrows,
           \A i \in Incidents : srv'[i] \in hist'.had[i],
           job' \in [Slots -> IncidentHandlers],
           \A s \in Slots :
             \/ job'[s] = job[s]
             \/ /\ job[s] # I!Idle /\ job'[s] # I!Idle /\ job'[s].op = job[s].op
                /\ job'[s].on = job[s].on /\ job'[s].arg = job[s].arg
                /\ job'[s].live = job[s].live
                /\ job[s].stage # "fetching" /\ job'[s].stage # "fetching"
                /\ job'[s].stage = "acting" => job[s].op \in I!DialogOps
                /\ job[s].op \in I!PageOps =>
                     \/ job[s].arg \in hist'.had[job[s].on]
                     \/ <<job[s].on, job[s].arg>> \in hist'.madeUp,
           faults' \in 0 .. MaxFaults, asked' \in 0 .. MaxIncidentRequests,
           UNCHANGED <<page, dialog, reads>>
    PROVE  IncidentInv'
<1>1. I!TypeOK /\ job \in [Slots -> IncidentHandlers]
  BY IncidentTypes DEF IncidentInv
<1>2. I!TypeOK'
  BY <1>1 DEF I!TypeOK, IncidentHandlers, IncidentHistories, IncidentHistoryGrows
<1>3. HandlersCarryTruth'
  <2> SUFFICES ASSUME NEW s \in Slots, job'[s] # I!Idle
               PROVE  /\ job'[s].op \in Sets => job'[s].arg \in I!Status
                      /\ job'[s].op \in I!PageOps /\ job'[s].stage = "ok" =>
                           TrueOrMadeUp(job[s].on, job[s].arg)'
                      /\ job'[s].stage = "acting" => job'[s].op \in I!DialogOps
    BY DEF HandlersCarryTruth
  <2>1. CASE job'[s] = job[s]
    BY <1>1, <2>1, TruthStays, IncidentHandler DEF IncidentInv, HandlersCarryTruth, TrueOrMadeUp
  <2>2. CASE job'[s] # job[s]
    BY <2>2 DEF IncidentInv, HandlersCarryTruth, TrueOrMadeUp
  <2> QED
    BY <2>1, <2>2
<1>4. RowsAreTrue'
  BY TruthStays DEF IncidentInv, RowsAreTrue, TrueOrMadeUp
<1>5. DialogIsTrue'
  BY TruthStays DEF IncidentInv, DialogIsTrue, TrueOrMadeUp
<1>6. ListingsFit'
  <2> SUFFICES ASSUME NEW r \in reads
               PROVE  /\ r.by = "page" => WholeList(r)'
                      /\ r.by = "detail" => DetailList(r)' /\ page.list[r.of] # I!Absent
                      /\ r.by = "tab" => /\ dialog.sel # I!None
                                         /\ dialog.moved \/ r.of = dialog.shown
                      /\ r.by = "handler" => HandlerListing(r)'
    BY DEF ListingsFit
  <2>1. (WholeList(r) => WholeList(r)') /\ (DetailList(r) => DetailList(r)')
    BY DEF WholeList, DetailList, IncidentHistoryGrows
  <2>2. ASSUME r.by = "handler" PROVE HandlerListing(r)'
    <3>1. HandlerListing(r) /\ r.slot \in Slots /\ job[r.slot].stage = "fetching"
      BY <2>2 DEF IncidentInv, ListingsFit, HandlerListing
    <3>2. job'[r.slot] = job[r.slot]
      BY <3>1
    <3> QED
      BY <2>1, <3>1, <3>2 DEF HandlerListing
  <2> QED
    BY <2>1, <2>2 DEF IncidentInv, ListingsFit
<1>7. FlagsGuard'
  <2>1. \A s \in Slots : /\ Acts(job'[s]) <=> Acts(job[s])
                         /\ Closes(job'[s]) <=> Closes(job[s])
                         /\ Closes(job[s]) /\ job'[s].stage # "fetching" =>
                              job[s].stage # "fetching"
    BY DEF Acts, Closes
  <2> QED
    BY <2>1 DEF IncidentInv, FlagsGuard
<1>8. I!BusyMeansWorking'
  <2>1. \A s \in Slots : job[s] # I!Idle =>
          job'[s] # I!Idle /\ job'[s].op = job[s].op /\ job'[s].live = job[s].live
    OBVIOUS
  <2> QED
    BY <2>1 DEF IncidentInv, I!BusyMeansWorking
<1>9. I!KillNamesOwnProcess'
  BY DEF IncidentInv, I!KillNamesOwnProcess, IncidentHistoryGrows
<1> QED
  BY <1>2, <1>3, <1>4, <1>5, <1>6, <1>7, <1>8, <1>9 DEF IncidentInv

LEMMA ColleagueKeepsIncidents ==
    ASSUME IncidentInv, NEW i \in Incidents, NEW st \in OthersSet, I!Colleague(i, st),
           asked < MaxIncidentRequests, asked' = asked + 1
    PROVE  IncidentInv'
<1>1. I!TypeOK /\ st \in I!Status /\ \A k \in Incidents : srv[k] \in hist.had[k]
  BY IncidentAssumption DEF IncidentInv, RowsAreTrue
<1>2. I!Write(i, st) /\ UNCHANGED <<page, dialog, job, reads, faults>>
  BY DEF I!Colleague
<1>3. /\ srv' \in [Incidents -> I!Status] /\ IncidentHistoryGrows
      /\ \A k \in Incidents : srv'[k] \in hist'.had[k]
  BY <1>1, <1>2, IncidentWrite
<1>4. /\ asked' \in 0 .. MaxIncidentRequests /\ faults' \in 0 .. MaxFaults
      /\ job' \in [Slots -> IncidentHandlers]
  BY <1>1, <1>2, IncidentAsked, IncidentFaults, IncidentTypes
<1> QED
  BY <1>2, <1>3, <1>4, ManagerKeepsIncidents

\* Handler s is served: it is answered, or goes on at the manager.
LEMMA ServedKeepsIncidents ==
    ASSUME IncidentInv, NEW s \in Slots, job[s] # I!Idle, job[s].stage # "fetching",
           NEW stage \in {"acting", "ok", "err"}, I!Step(s, stage),
           stage = "acting" => job[s].op \in I!DialogOps,
           srv' \in [Incidents -> I!Status], IncidentHistoryGrows,
           \A i \in Incidents : srv'[i] \in hist'.had[i],
           job[s].op \in I!PageOps =>
             job[s].arg \in hist'.had[job[s].on] \/ <<job[s].on, job[s].arg>> \in hist'.madeUp,
           UNCHANGED faults \/ I!Fault, UNCHANGED <<page, dialog, reads, asked>>
    PROVE  IncidentInv'
<1>1. I!TypeOK
  BY DEF IncidentInv
<1>2. /\ job' \in [Slots -> IncidentHandlers] /\ \A t \in Slots \ {s} : job'[t] = job[t]
      /\ job'[s] # I!Idle /\ job'[s].op = job[s].op /\ job'[s].on = job[s].on
      /\ job'[s].arg = job[s].arg /\ job'[s].live = job[s].live /\ job'[s].stage = stage
  BY <1>1, IncidentStepped
<1>3. faults' \in 0 .. MaxFaults /\ asked' \in 0 .. MaxIncidentRequests
  BY <1>1, IncidentFaults DEF I!TypeOK
<1> QED
  BY <1>2, <1>3, ManagerKeepsIncidents

LEMMA ServeStatusKeeps ==
    ASSUME IncidentInv, NEW s \in Slots, I!ServeStatus(s), UNCHANGED asked
    PROVE  IncidentInv'
<1>1. /\ I!TypeOK /\ job[s] # I!Idle /\ job[s].op \in Sets /\ job[s].stage = "sent"
      /\ I!Step(s, "ok") /\ UNCHANGED <<page, dialog, reads>>
      /\ \A k \in Incidents : srv[k] \in hist.had[k]
  BY DEF I!ServeStatus, I!Sent, Sets, IncidentInv, RowsAreTrue
<1>2. job[s].on \in Incidents /\ job[s].arg \in I!Status
  BY <1>1, IncidentTypes, IncidentHandler DEF IncidentInv, HandlersCarryTruth
<1>3. CASE I!Write(job[s].on, job[s].arg) /\ UNCHANGED faults
  <2>1. /\ srv' \in [Incidents -> I!Status] /\ IncidentHistoryGrows
        /\ job[s].arg \in hist'.had[job[s].on]
        /\ \A k \in Incidents : srv'[k] \in hist'.had[k]
    BY <1>1, <1>2, <1>3, IncidentWrite
  <2> QED
    BY <1>1, <1>3, <2>1, ServedKeepsIncidents
<1>4. CASE /\ I!Fault
           /\ hist' = [hist EXCEPT !.madeUp = @ \cup {<<job[s].on, job[s].arg>>}]
           /\ UNCHANGED srv
  <2>1. /\ IncidentHistoryGrows /\ <<job[s].on, job[s].arg>> \in hist'.madeUp
        /\ hist'.had = hist.had
    BY <1>1, <1>2, <1>4, IncidentMadeUp
  <2>2. /\ srv' \in [Incidents -> I!Status]
        /\ \A k \in Incidents : srv'[k] \in hist'.had[k]
    BY <1>1, <1>4, <2>1, IncidentTypes
  <2> QED
    BY <1>1, <1>4, <2>1, <2>2, ServedKeepsIncidents
<1> QED
  BY <1>3, <1>4 DEF I!ServeStatus

\* The manager writes status st for handler s, and its answer arrives or not; or fails.
LEMMA ServeWrittenKeeps ==
    ASSUME IncidentInv, NEW s \in Slots, job[s] # I!Idle, job[s].stage # "fetching",
           job[s].op \in I!DialogOps, NEW st \in I!Status,
           \/ /\ I!Write(job[s].on, st)
              /\ (I!Step(s, "ok") /\ UNCHANGED faults) \/ (I!Step(s, "err") /\ I!Fault)
           \/ I!Step(s, "err") /\ I!Fault /\ UNCHANGED <<srv, hist>>,
           UNCHANGED <<page, dialog, reads, asked>>
    PROVE  IncidentInv'
<1>1. /\ I!TypeOK /\ \A k \in Incidents : srv[k] \in hist.had[k]
      /\ job[s].op \notin I!PageOps /\ job[s].on \in Incidents
      /\ srv \in [Incidents -> I!Status]
  BY IncidentTypes, IncidentHandler DEF IncidentInv, RowsAreTrue, I!DialogOps, I!PageOps
<1>2. CASE I!Write(job[s].on, st)
  <2>1. /\ srv' \in [Incidents -> I!Status] /\ IncidentHistoryGrows
        /\ \A k \in Incidents : srv'[k] \in hist'.had[k]
    BY <1>1, <1>2, IncidentWrite
  <2>2. PICK stage \in {"ok", "err"} : I!Step(s, stage)
    OBVIOUS
  <2> QED
    BY <1>1, <2>1, <2>2, ServedKeepsIncidents
<1>3. CASE UNCHANGED <<srv, hist>> /\ I!Step(s, "err")
  <2>1. IncidentHistoryGrows
    BY <1>1, <1>3, IncidentHistoryStays
  <2> QED
    BY <1>1, <1>3, <2>1, ServedKeepsIncidents
<1> QED
  BY <1>2, <1>3

LEMMA ServeCloseKeeps ==
    ASSUME IncidentInv, NEW s \in Slots, I!ServeClose(s), UNCHANGED asked
    PROVE  IncidentInv'
<1>1. job[s] # I!Idle /\ job[s].stage = "sent" /\ job[s].op \in I!DialogOps
  BY DEF I!ServeClose, I!Sent, I!DialogOps
<1>2. "closed" \in I!Status
  BY DEF I!Status
<1> QED
  BY <1>1, <1>2, ServeWrittenKeeps DEF I!ServeClose

LEMMA ContainIsolatedKeeps ==
    ASSUME IncidentInv, NEW s \in Slots, I!ContainIsolated(s), UNCHANGED asked
    PROVE  IncidentInv'
<1>1. job[s] # I!Idle /\ job[s].stage = "acting" /\ "contained" \in I!Status
  BY DEF I!ContainIsolated, I!Status
<1>2. job[s].op \in I!DialogOps
  BY <1>1 DEF IncidentInv, HandlersCarryTruth
<1> QED
  BY <1>1, <1>2, ServeWrittenKeeps DEF I!ContainIsolated

\* Isolating a host and other mitigation leave the incident's row alone.
LEMMA ServeMitigationKeeps ==
    ASSUME IncidentInv, NEW s \in Slots, I!ServeIsolate(s) \/ I!ServeOther(s), UNCHANGED asked
    PROVE  IncidentInv'
<1>1. /\ I!TypeOK /\ job[s] # I!Idle /\ job[s].stage = "sent" /\ job[s].op \notin I!PageOps
      /\ job[s].op \in I!DialogOps
      /\ UNCHANGED <<srv, hist, page, dialog, reads, faults>>
      /\ \A k \in Incidents : srv[k] \in hist.had[k]
  BY DEF I!ServeIsolate, I!ServeOther, I!Sent, I!PageOps, I!DialogOps, IncidentInv, RowsAreTrue
<1>2. PICK stage \in {"acting", "ok", "err"} : I!Step(s, stage)
  BY DEF I!ServeIsolate, I!ServeOther
<1>3. IncidentHistoryGrows /\ srv' \in [Incidents -> I!Status]
  BY <1>1, IncidentHistoryStays, IncidentTypes
<1> QED
  BY <1>1, <1>2, <1>3, ServedKeepsIncidents

-----------------------------------------------------------------------------
(* Operations on incidents are begun *)

\* What was true or made up, still is, and nothing else; of killed processes this says nothing.
SameTruth == hist'.had = hist.had /\ hist'.madeUp = hist.madeUp

LEMMA IncidentStartKeepsHandlers ==
    ASSUME IncidentInv, NEW s \in Slots, NEW op \in I!PageOps \cup I!DialogOps,
           NEW i \in Incidents, NEW arg \in I!Status \cup {I!Absent},
           op \in Sets => arg \in I!Status,
           I!Start(s, op, i, arg), SameTruth, UNCHANGED reads
    PROVE  /\ HandlersCarryTruth'
           /\ \A r \in reads : r.by = "handler" => HandlerListing(r)'
<1>1. I!TypeOK /\ job \in [Slots -> IncidentHandlers]
  BY IncidentTypes DEF IncidentInv
<1>2. /\ job' \in [Slots -> IncidentHandlers] /\ \A t \in Slots \ {s} : job'[t] = job[t]
      /\ job[s] = I!Idle /\ job'[s] # I!Idle /\ job'[s].op = op /\ job'[s].on = i
      /\ job'[s].arg = arg /\ job'[s].live /\ job'[s].stage = "sent"
  BY <1>1, IncidentStarted
<1>3. HandlersCarryTruth'
  BY <1>2 DEF IncidentInv, HandlersCarryTruth, TrueOrMadeUp, SameTruth
<1>4. ASSUME NEW r \in reads, r.by = "handler" PROVE HandlerListing(r)'
  <2>1. HandlerListing(r) /\ r.slot \in Slots /\ job[r.slot] # I!Idle
    BY <1>4 DEF IncidentInv, ListingsFit, HandlerListing
  <2>2. job'[r.slot] = job[r.slot]
    BY <1>2, <2>1
  <2> QED
    BY <2>1, <2>2 DEF HandlerListing, WholeList, DetailList, SameTruth
<1> QED
  BY <1>3, <1>4

\* An operation of the page.
LEMMA PageOperationKeeps ==
    ASSUME IncidentInv, NEW s \in Slots, NEW op \in I!PageOps, NEW i \in Incidents,
           NEW arg \in I!Status, I!Start(s, op, i, arg),
           page' = [page EXCEPT !.busy = TRUE],
           UNCHANGED <<srv, hist, dialog, reads, faults>>,
           asked < MaxIncidentRequests, asked' = asked + 1
    PROVE  IncidentInv'
<1>1. /\ I!TypeOK /\ job \in [Slots -> IncidentHandlers] /\ page \in IncidentPages
      /\ op \notin I!DialogOps /\ SameTruth
  BY IncidentTypes DEF IncidentInv, SameTruth, I!PageOps, I!DialogOps
<1>2. /\ job' \in [Slots -> IncidentHandlers] /\ \A t \in Slots \ {s} : job'[t] = job[t]
      /\ job[s] = I!Idle /\ job'[s] # I!Idle /\ job'[s].op = op
  BY <1>1, IncidentStarted
<1>3. /\ page' \in IncidentPages /\ page'.list = page.list /\ page'.loading = page.loading
      /\ asked' \in 0 .. MaxIncidentRequests
  BY <1>1, IncidentAsked DEF IncidentPages
<1>4. I!TypeOK'
  BY <1>1, <1>2, <1>3 DEF I!TypeOK, IncidentHandlers, IncidentPages
<1>5. HandlersCarryTruth' /\ \A r \in reads : r.by = "handler" => HandlerListing(r)'
  BY <1>1, IncidentStartKeepsHandlers
<1>6. RowsAreTrue' /\ DialogIsTrue'
  BY <1>3 DEF IncidentInv, RowsAreTrue, DialogIsTrue, TrueOrMadeUp
<1>7. ListingsFit'
  BY <1>3, <1>5 DEF IncidentInv, ListingsFit, WholeList, DetailList
<1>8. FlagsGuard'
  <2>1. \A t \in Slots : /\ Acts(job'[t]) <=> Acts(job[t])
                         /\ Closes(job'[t]) <=> Closes(job[t])
                         /\ Closes(job[t]) => job'[t].stage = job[t].stage
    BY <1>1, <1>2 DEF Acts, Closes, I!DialogOps
  <2> QED
    BY <2>1 DEF IncidentInv, FlagsGuard
<1>9. I!BusyMeansWorking'
  <2>1. \A t \in Slots : job[t] # I!Idle => job'[t] = job[t]
    BY <1>2
  <2> QED
    BY <1>2, <1>3, <2>1 DEF IncidentInv, I!BusyMeansWorking
<1>10. I!KillNamesOwnProcess'
  BY DEF IncidentInv, I!KillNamesOwnProcess
<1> QED
  BY <1>4, <1>5, <1>6, <1>7, <1>8, <1>9, <1>10 DEF IncidentInv

LEMMA QuickStatusKeeps ==
    ASSUME IncidentInv, NEW s \in Slots, NEW i \in Incidents, NEW st \in I!Status,
           I!QuickStatus(s, i, st), asked < MaxIncidentRequests, asked' = asked + 1
    PROVE  IncidentInv'
BY PageOperationKeeps DEF I!QuickStatus, I!PageOps

LEMMA SubmitAssignKeeps ==
    ASSUME IncidentInv, NEW s \in Slots, I!SubmitAssign(s),
           asked < MaxIncidentRequests, asked' = asked + 1
    PROVE  IncidentInv'
<1>1. page.assign \in Incidents
  BY IncidentTypes DEF IncidentInv, I!SubmitAssign, IncidentPages, I!Ids
<1>2. "investigating" \in I!Status /\ "assign" \in I!PageOps
  BY DEF I!Status, I!PageOps
<1> QED
  BY <1>1, <1>2, PageOperationKeeps DEF I!SubmitAssign

\* The dialog has lost nothing but the freedom to begin an operation.
LEMMA IncidentDialogFlag ==
    ASSUME I!TypeOK,
           \/ dialog' = [dialog EXCEPT !.busy = TRUE]
           \/ dialog' = [dialog EXCEPT !.closing = TRUE]
    PROVE  /\ dialog' \in I!Dialogs /\ dialog'.sel = dialog.sel /\ dialog'.shown = dialog.shown
           /\ dialog'.status = dialog.status /\ dialog'.facts = dialog.facts
           /\ dialog'.moved = dialog.moved /\ dialog'.closeOpen = dialog.closeOpen
           /\ dialog'.tabLoading = dialog.tabLoading
BY IncidentTypes DEF I!Dialogs

\* The dialog as long as it is open shows an incident.
LEMMA IncidentShown ==
    ASSUME IncidentInv, dialog.sel # I!None
    PROVE  dialog.shown \in Incidents
BY DEF IncidentInv, DialogIsTrue

\* An operation of the dialog, but the closing of the incident.
LEMMA DialogOperationKeeps ==
    ASSUME IncidentInv, NEW s \in Slots, NEW op \in I!DialogOps \ {"close"},
           NEW arg \in I!Status \cup {I!Absent}, op \in Sets => arg \in I!Status,
           I!Ready, I!Start(s, op, dialog.shown, arg),
           dialog' = [dialog EXCEPT !.busy = TRUE],
           SameTruth, hist' \in IncidentHistories, I!KillNamesOwnProcess',
           UNCHANGED <<srv, page, reads, faults>>,
           asked < MaxIncidentRequests, asked' = asked + 1
    PROVE  IncidentInv'
<1>1. /\ I!TypeOK /\ job \in [Slots -> IncidentHandlers] /\ dialog \in I!Dialogs
      /\ op \notin I!PageOps /\ dialog.sel # I!None /\ ~dialog.busy /\ ~dialog.closeOpen
      /\ dialog.shown \in Incidents
  BY IncidentTypes, IncidentShown DEF IncidentInv, I!PageOps, I!DialogOps, I!Ready, I!InDialog
<1>2. /\ job' \in [Slots -> IncidentHandlers] /\ \A t \in Slots \ {s} : job'[t] = job[t]
      /\ job[s] = I!Idle /\ job'[s] # I!Idle /\ job'[s].op = op /\ job'[s].live
  BY <1>1, IncidentStarted
<1>3. /\ dialog' \in I!Dialogs /\ dialog'.sel = dialog.sel /\ dialog'.shown = dialog.shown
      /\ dialog'.status = dialog.status /\ dialog'.facts = dialog.facts
      /\ dialog'.moved = dialog.moved /\ dialog'.closeOpen = dialog.closeOpen
      /\ dialog'.tabLoading = dialog.tabLoading
  BY <1>1, IncidentDialogFlag
<1>4. dialog'.busy /\ dialog'.closing = dialog.closing
  BY <1>1 DEF I!Dialogs
<1>5. I!TypeOK'
  BY <1>1, <1>2, <1>3, IncidentAsked DEF I!TypeOK, IncidentHandlers, IncidentHistories
<1>6. HandlersCarryTruth' /\ \A r \in reads : r.by = "handler" => HandlerListing(r)'
  BY <1>1, IncidentStartKeepsHandlers
<1>7. RowsAreTrue' /\ DialogIsTrue'
  BY <1>1, <1>3 DEF IncidentInv, RowsAreTrue, DialogIsTrue, TrueOrMadeUp, SameTruth
<1>8. ListingsFit'
  BY <1>3, <1>6 DEF IncidentInv, ListingsFit, WholeList, DetailList, SameTruth
<1>9. FlagsGuard'
  <2>1. \A t \in Slots : ~Acts(job[t])
    BY <1>1 DEF IncidentInv, FlagsGuard
  <2>2. \A t \in Slots : /\ Acts(job'[t]) => t = s
                         /\ Closes(job'[t]) => Closes(job[t]) /\ job'[t] = job[t]
    BY <1>2, <2>1 DEF Acts, Closes
  <2> QED
    BY <1>3, <1>4, <2>2 DEF IncidentInv, FlagsGuard
<1>10. I!BusyMeansWorking'
  <2>1. \A t \in Slots : job[t] # I!Idle => job'[t] = job[t]
    BY <1>2
  <2> QED
    BY <1>2, <1>3, <1>4, <2>1 DEF IncidentInv, I!BusyMeansWorking
<1> QED
  BY <1>5, <1>6, <1>7, <1>8, <1>9, <1>10 DEF IncidentInv

LEMMA MitigateKeeps ==
    ASSUME IncidentInv, NEW s \in Slots, I!Isolate(s) \/ I!Mitigate(s),
           asked < MaxIncidentRequests, asked' = asked + 1
    PROVE  IncidentInv'
<1>1. PICK op \in {"isolate", "mitigate"} : I!Act(s, op) /\ UNCHANGED hist
  BY DEF I!Isolate, I!Mitigate
<1>2. op \in I!DialogOps \ {"close"} /\ op \notin Sets
  BY DEF I!DialogOps, Sets
<1>3. SameTruth /\ hist' \in IncidentHistories /\ I!KillNamesOwnProcess'
  BY <1>1, IncidentTypes DEF IncidentInv, SameTruth, I!KillNamesOwnProcess
<1> QED
  BY <1>1, <1>2, <1>3, DialogOperationKeeps DEF I!Act

LEMMA ChangeStatusKeeps ==
    ASSUME IncidentInv, NEW s \in Slots, NEW st \in I!Status, I!ChangeStatus(s, st),
           asked < MaxIncidentRequests, asked' = asked + 1
    PROVE  IncidentInv'
<1>1. "workflow" \in I!DialogOps \ {"close"}
  BY DEF I!DialogOps
<1>2. SameTruth /\ hist' \in IncidentHistories /\ I!KillNamesOwnProcess'
  BY IncidentTypes DEF IncidentInv, I!ChangeStatus, SameTruth, I!KillNamesOwnProcess
<1> QED
  BY <1>1, <1>2, DialogOperationKeeps DEF I!ChangeStatus

\* A kill button names a process of the incident shown, or a made-up one; or the dialog has
\* been moved.
LEMMA KillButtons ==
    ASSUME IncidentInv, dialog.sel # I!None,
           NEW p \in I!BannerKills \cup I!StoryKills \cup I!ProcessKills
    PROVE  p \in I!Ids /\ (p \in {dialog.shown, I!None} \/ dialog.moved)
<1>1. dialog.shown \in Incidents /\ dialog.facts \in I!Ids
  BY IncidentTypes, IncidentShown DEF IncidentInv, I!Dialogs
<1>2. p \in {I!None, dialog.shown, dialog.facts}
  BY DEF I!BannerKills, I!StoryKills, I!ProcessKills, I!Facts, I!Culprit
<1>3. ~dialog.moved => dialog.facts \in {I!None, dialog.shown}
  BY DEF IncidentInv, DialogIsTrue
<1> QED
  BY <1>1, <1>2, <1>3 DEF I!Ids

LEMMA IncidentKillKeeps ==
    ASSUME IncidentInv, NEW s \in Slots, I!Kill(s),
           asked < MaxIncidentRequests, asked' = asked + 1
    PROVE  IncidentInv'
<1>1. PICK p \in I!BannerKills \cup I!StoryKills \cup I!ProcessKills :
        hist' = [hist EXCEPT !.kills = @ \cup {[on |-> dialog.shown, of |-> p,
                                                moved |-> dialog.moved]}]
  BY DEF I!Kill
<1>2. I!Act(s, "kill") /\ I!Ready /\ dialog.sel # I!None /\ dialog.shown \in Incidents
  BY IncidentShown DEF I!Kill, I!Act, I!Ready, I!InDialog
<1>3. "kill" \in I!DialogOps \ {"close"} /\ "kill" \notin Sets
  BY DEF I!DialogOps, Sets
<1>4. p \in I!Ids /\ (p \in {dialog.shown, I!None} \/ dialog.moved)
  BY <1>2, KillButtons
<1>5. hist \in IncidentHistories /\ dialog.moved \in BOOLEAN
  BY IncidentTypes DEF IncidentInv, I!Dialogs
<1> DEFINE k == [on |-> dialog.shown, of |-> p, moved |-> dialog.moved]
<1>6. /\ k \in [on : Incidents, of : I!Ids, moved : BOOLEAN]
      /\ k.of \in {k.on, I!None} \/ k.moved
  BY <1>2, <1>4, <1>5
<1>7. hist' = [hist EXCEPT !.kills = @ \cup {k}]
  BY <1>1
<1> HIDE DEF k
<1>8. hist'.kills = hist.kills \cup {k} /\ SameTruth
  BY <1>5, <1>7 DEF IncidentHistories, SameTruth
<1>9. hist' \in IncidentHistories
  BY <1>5, <1>6, <1>7 DEF IncidentHistories
<1>10. I!KillNamesOwnProcess'
  BY <1>6, <1>8 DEF IncidentInv, I!KillNamesOwnProcess
<1> QED
  BY <1>2, <1>3, <1>8, <1>9, <1>10, DialogOperationKeeps DEF I!Act

LEMMA IncidentConfirmCloseKeeps ==
    ASSUME IncidentInv, NEW s \in Slots, I!ConfirmClose(s),
           asked < MaxIncidentRequests, asked' = asked + 1
    PROVE  IncidentInv'
<1>1. /\ I!Start(s, "close", dialog.shown, "closed")
      /\ dialog' = [dialog EXCEPT !.closing = TRUE]
      /\ dialog.closeOpen /\ ~dialog.closing
      /\ UNCHANGED <<srv, hist, page, reads, faults>>
  BY DEF I!ConfirmClose
<1>2. /\ I!TypeOK /\ job \in [Slots -> IncidentHandlers] /\ dialog \in I!Dialogs
      /\ "close" \in I!DialogOps /\ "close" \notin I!PageOps /\ "close" \notin Sets
      /\ "closed" \in I!Status /\ SameTruth
  BY <1>1, IncidentTypes DEF IncidentInv, I!PageOps, I!DialogOps, I!Status, SameTruth, Sets
<1>3. dialog.sel # I!None /\ dialog.shown \in Incidents
  BY <1>1, IncidentShown DEF IncidentInv, DialogIsTrue, I!NoDialog
<1>4. /\ job' \in [Slots -> IncidentHandlers] /\ \A t \in Slots \ {s} : job'[t] = job[t]
      /\ job[s] = I!Idle /\ job'[s] # I!Idle /\ job'[s].op = "close" /\ job'[s].live
  BY <1>1, <1>2, <1>3, IncidentStarted
<1>5. /\ dialog' \in I!Dialogs /\ dialog'.sel = dialog.sel /\ dialog'.shown = dialog.shown
      /\ dialog'.status = dialog.status /\ dialog'.facts = dialog.facts
      /\ dialog'.moved = dialog.moved /\ dialog'.closeOpen = dialog.closeOpen
      /\ dialog'.tabLoading = dialog.tabLoading
  BY <1>1, <1>2, IncidentDialogFlag
<1>6. dialog'.closing /\ dialog'.busy = dialog.busy
  BY <1>1, <1>2 DEF I!Dialogs
<1>7. I!TypeOK'
  BY <1>1, <1>2, <1>4, <1>5, IncidentAsked DEF I!TypeOK, IncidentHandlers
<1>8. HandlersCarryTruth' /\ \A r \in reads : r.by = "handler" => HandlerListing(r)'
  BY <1>1, <1>2, <1>3, IncidentStartKeepsHandlers
<1>9. RowsAreTrue' /\ DialogIsTrue'
  BY <1>1, <1>3, <1>5, <1>6 DEF IncidentInv, RowsAreTrue, DialogIsTrue, TrueOrMadeUp
<1>10. ListingsFit'
  BY <1>1, <1>5, <1>8 DEF IncidentInv, ListingsFit, WholeList, DetailList
<1>11. FlagsGuard'
  <2>1. \A t \in Slots : ~Closes(job[t])
    BY <1>1 DEF IncidentInv, FlagsGuard
  <2>2. \A t \in Slots : /\ Closes(job'[t]) => t = s
                         /\ Acts(job'[t]) => Acts(job[t]) /\ job'[t] = job[t]
    BY <1>4, <2>1 DEF Acts, Closes
  <2> QED
    BY <1>1, <1>5, <1>6, <2>2 DEF IncidentInv, FlagsGuard
<1>12. I!BusyMeansWorking'
  <2>1. \A t \in Slots : job[t] # I!Idle => job'[t] = job[t]
    BY <1>4
  <2> QED
    BY <1>1, <1>4, <1>5, <1>6, <2>1 DEF IncidentInv, I!BusyMeansWorking
<1>13. I!KillNamesOwnProcess'
  BY <1>1 DEF IncidentInv, I!KillNamesOwnProcess
<1> QED
  BY <1>7, <1>8, <1>9, <1>10, <1>11, <1>12, <1>13 DEF IncidentInv

-----------------------------------------------------------------------------
(* The page of incidents *)

\* The page's own fields change, and at most a listing is asked for.
LEMMA IncidentPageKeeps ==
    ASSUME IncidentInv, page' \in IncidentPages, page'.list = page.list, page'.busy = page.busy,
           reads' \in {reads, reads \cup {I!PageRead}},
           page'.loading => page.loading \/ I!PageRead \in reads',
           asked' \in 0 .. MaxIncidentRequests, UNCHANGED <<srv, hist, dialog, job, faults>>
    PROVE  IncidentInv'
<1>1. /\ I!TypeOK /\ I!PageRead \in I!Reads /\ I!PageRead.by = "page"
      /\ WholeList(I!PageRead)
  <2>1. srv \in I!Lists /\ \A i \in Incidents : srv[i] \in hist.had[i]
    BY IncidentTypes DEF IncidentInv, RowsAreTrue, I!Lists
  <2> QED
    BY <2>1 DEF IncidentInv, I!PageRead, I!Reads, WholeList, I!Ids
<1> HIDE DEF I!PageRead
<1>2. I!TypeOK'
  BY <1>1 DEF I!TypeOK, IncidentPages
<1>3. HandlersCarryTruth' /\ RowsAreTrue' /\ DialogIsTrue' /\ FlagsGuard' /\ I!KillNamesOwnProcess'
  BY DEF IncidentInv, HandlersCarryTruth, RowsAreTrue, DialogIsTrue, FlagsGuard,
         I!KillNamesOwnProcess, TrueOrMadeUp
<1>4. ListingsFit'
  <2>1. \A r : /\ WholeList(r)' <=> WholeList(r)
               /\ DetailList(r)' <=> DetailList(r)
    BY DEF WholeList, DetailList
  <2>2. \A r \in reads : r.by = "handler" => HandlerListing(r)'
    BY <1>1, <2>1 DEF IncidentInv, ListingsFit, HandlerListing
  <2> QED
    BY <1>1, <2>1, <2>2 DEF IncidentInv, ListingsFit
<1>5. I!BusyMeansWorking'
  <2>1. reads \subseteq reads'
    OBVIOUS
  <2> QED
    BY <1>1, <2>1 DEF IncidentInv, I!BusyMeansWorking
<1> QED
  BY <1>2, <1>3, <1>4, <1>5 DEF IncidentInv

LEMMA IncidentRefreshKeeps ==
    ASSUME IncidentInv, I!Refresh, asked < MaxIncidentRequests, asked' = asked + 1
    PROVE  IncidentInv'
<1>1. I!TypeOK /\ page \in IncidentPages
  BY IncidentTypes DEF IncidentInv
<1>2. /\ page' \in IncidentPages /\ page'.list = page.list /\ page'.busy = page.busy
      /\ reads' = reads \cup {I!PageRead} /\ UNCHANGED <<srv, hist, dialog, job, faults>>
  BY <1>1 DEF I!Refresh, IncidentPages
<1>3. asked' \in 0 .. MaxIncidentRequests
  BY <1>1, IncidentAsked
<1> QED
  BY <1>2, <1>3, IncidentPageKeeps

LEMMA AssignBoxKeeps ==
    ASSUME IncidentInv,
           \/ /\ \E i \in Incidents : I!OpenAssign(i)
              /\ asked < MaxIncidentRequests /\ asked' = asked + 1
           \/ I!CancelAssign /\ UNCHANGED asked
    PROVE  IncidentInv'
<1>1. I!TypeOK /\ page \in IncidentPages
  BY IncidentTypes DEF IncidentInv
<1>2. PICK i \in I!Ids : page' = [page EXCEPT !.assign = i]
  BY DEF I!OpenAssign, I!CancelAssign, I!Ids
<1>3. UNCHANGED <<srv, hist, dialog, job, reads, faults>>
  BY DEF I!OpenAssign, I!CancelAssign
<1>4. /\ page' \in IncidentPages /\ page'.list = page.list /\ page'.busy = page.busy
      /\ page'.loading = page.loading
  BY <1>1, <1>2 DEF IncidentPages
<1>5. asked' \in 0 .. MaxIncidentRequests
  BY <1>1, IncidentAsked DEF I!TypeOK
<1> QED
  BY <1>3, <1>4, <1>5, IncidentPageKeeps

-----------------------------------------------------------------------------
(* The dialog shows another incident *)

\* The dialog d turns to an incident: its tab is fetched anew, shows what the dialog holds,
\* or stays.
LEMMA IncidentTurn ==
    ASSUME NEW d \in I!Dialogs, NEW i \in Incidents, NEW st \in I!Status \cup {I!Absent}
    PROVE  LET e == I!Turn(d, i, st)
           IN  /\ e \in I!Dialogs /\ e.sel = d.sel /\ e.busy = d.busy /\ e.closing = d.closing
               /\ e.closeOpen = d.closeOpen /\ e.shown = i /\ e.status = st
               /\ e.facts \in {d.facts, i}
               /\ e.moved <=> d.moved \/ d.shown \notin {I!None, i}
               /\ I!TurnReads(d, i, st) \subseteq {I!TabRead(i)}
               /\ e.tabLoading => d.tabLoading \/ I!TabRead(i) \in I!TurnReads(d, i, st)
<1> DEFINE e == I!Turn(d, i, st)
           m == d.moved \/ d.shown \notin {I!None, i}
           f == [d EXCEPT !.shown = i, !.status = st, !.moved = m]
<1>1. m \in BOOLEAN /\ i \in I!Ids /\ d.moved \in BOOLEAN
  BY DEF I!Dialogs, I!Ids
<1>2. I!Shows(d, i, st) = f
  BY DEF I!Shows
<1> HIDE DEF m
<1>3. f \in I!Dialogs
  BY <1>1 DEF I!Dialogs
<1>4. /\ f.sel = d.sel /\ f.busy = d.busy /\ f.closing = d.closing /\ f.closeOpen = d.closeOpen
      /\ f.shown = i /\ f.status = st /\ f.facts = d.facts /\ f.moved = m
      /\ f.tabLoading = d.tabLoading
  BY <1>1 DEF I!Dialogs
<1> HIDE DEF f, e
<1>5. ASSUME e = I!TabOf(f)
      PROVE  /\ e \in I!Dialogs /\ e.sel = f.sel /\ e.busy = f.busy /\ e.closing = f.closing
             /\ e.closeOpen = f.closeOpen /\ e.shown = f.shown /\ e.status = f.status
             /\ e.moved = f.moved /\ e.facts \in {f.facts, f.shown}
             /\ e.tabLoading => f.tabLoading \/ I!TabRead(i) \in I!TabReads(f)
  <2>1. CASE I!Fetches(f)
    <3>1. e = [f EXCEPT !.tabLoading = TRUE] /\ I!TabReads(f) = {I!TabRead(i)}
      BY <1>4, <1>5, <2>1 DEF I!TabOf, I!TabReads
    <3> QED
      BY <1>3, <3>1 DEF I!Dialogs
  <2>2. CASE ~I!Fetches(f)
    <3>1. e = [f EXCEPT !.facts = f.shown]
      BY <1>5, <2>2 DEF I!TabOf
    <3>2. f.shown \in I!Ids
      BY <1>1, <1>4
    <3> QED
      BY <1>3, <3>1, <3>2 DEF I!Dialogs
  <2> QED
    BY <2>1, <2>2
<1>6. I!TabReads(f) \subseteq {I!TabRead(i)}
  BY <1>4 DEF I!TabReads
<1>7. CASE I!Looks(d, i)
  <2>1. e = I!TabOf(f) /\ I!TurnReads(d, i, st) = I!TabReads(f)
    BY <1>2, <1>7 DEF e, I!Turn, I!TurnReads
  <2>2. e.moved = m
    BY <1>4, <1>5, <2>1
  <2> QED
    BY <1>4, <1>5, <1>6, <2>1, <2>2 DEF m, e
<1>8. CASE ~I!Looks(d, i)
  <2>1. e = f /\ I!TurnReads(d, i, st) = {}
    BY <1>2, <1>8 DEF e, I!Turn, I!TurnReads
  <2> QED
    BY <1>3, <1>4, <2>1 DEF m, e
<1> QED
  BY <1>7, <1>8 DEF e

LEMMA IncidentNoDialog ==
    /\ I!NoDialog \in I!Dialogs /\ I!NoDialog.sel = I!None /\ I!NoDialog.shown = I!None
    /\ I!NoDialog.facts = I!None /\ ~I!NoDialog.busy /\ ~I!NoDialog.closing
    /\ ~I!NoDialog.closeOpen /\ ~I!NoDialog.moved /\ ~I!NoDialog.tabLoading
BY IncidentAssumption DEF I!NoDialog, I!Dialogs, I!Ids

\* An incident is selected whose row is in the list.
LEMMA IncidentSelect ==
    ASSUME IncidentInv, NEW i \in Incidents, NEW l \in I!Lists, TrueOrMadeUp(i, l[i]),
           dialog' = I!Select(dialog, i, l)
    PROVE  /\ dialog' \in I!Dialogs /\ dialog'.sel # I!None /\ dialog'.busy = dialog.busy
           /\ dialog'.closing = dialog.closing /\ dialog'.closeOpen = dialog.closeOpen
           /\ dialog'.shown \in Incidents /\ TrueOrMadeUp(dialog'.shown, dialog'.status)
           /\ ~dialog'.moved => dialog'.facts \in {I!None, dialog'.shown}
           /\ dialog.moved => dialog'.moved
           /\ dialog.sel # I!None => dialog'.shown = dialog.shown
           /\ I!SelectReads(dialog, i) \subseteq {I!DetailRead("detail", i, 0), I!TabRead(i)}
           /\ I!TabRead(i) \in I!SelectReads(dialog, i) => dialog'.shown = i
           /\ dialog'.tabLoading => dialog.tabLoading \/ I!TabRead(i) \in I!SelectReads(dialog, i)
<1>1. i # I!None /\ i \in I!Ids /\ dialog \in I!Dialogs
  BY IncidentAssumption, IncidentTypes DEF IncidentInv, I!Ids
<1>2. I!DetailRead("detail", i, 0) # I!TabRead(i)
  BY DEF I!DetailRead, I!TabRead
<1>3. CASE dialog.sel = I!None
  <2> DEFINE d == [I!NoDialog EXCEPT !.sel = i]
             st == l[i]
  <2>1. dialog = I!NoDialog /\ st \in I!Status \cup {I!Absent}
    BY <1>3 DEF IncidentInv, DialogIsTrue, I!Lists
  <2>2. /\ d \in I!Dialogs /\ d.sel = i /\ d.busy = dialog.busy /\ d.closing = dialog.closing
        /\ d.closeOpen = dialog.closeOpen /\ d.shown = I!None /\ d.facts = I!None
        /\ ~d.moved /\ ~dialog.moved /\ ~d.tabLoading
    BY <1>1, <2>1, IncidentNoDialog DEF I!Dialogs
  <2>3. dialog' = I!Turn(d, i, st)
    BY <1>3 DEF I!Select
  <2> HIDE DEF d, st
  <2>4. /\ dialog' \in I!Dialogs /\ dialog'.sel = d.sel /\ dialog'.busy = d.busy
        /\ dialog'.closing = d.closing /\ dialog'.closeOpen = d.closeOpen
        /\ dialog'.shown = i /\ dialog'.status = st
        /\ dialog'.facts \in {d.facts, i}
    BY <2>1, <2>2, <2>3, IncidentTurn
  <2>5. I!SelectReads(dialog, i) = {I!DetailRead("detail", i, 0), I!TabRead(i)}
    BY <1>1, <1>3 DEF I!SelectReads
  <2> QED
    BY <1>1, <1>3, <2>2, <2>4, <2>5 DEF st
<1>4. CASE dialog.sel # I!None
  <2>1. dialog' = [dialog EXCEPT !.sel = i]
    BY <1>4 DEF I!Select
  <2>2. /\ dialog' \in I!Dialogs /\ dialog'.sel = i /\ dialog'.busy = dialog.busy
        /\ dialog'.closing = dialog.closing /\ dialog'.closeOpen = dialog.closeOpen
        /\ dialog'.shown = dialog.shown
        /\ dialog'.status = dialog.status /\ dialog'.facts = dialog.facts
        /\ dialog'.moved = dialog.moved /\ dialog'.tabLoading = dialog.tabLoading
    BY <1>1, <2>1 DEF I!Dialogs
  <2>3. I!SelectReads(dialog, i) \subseteq {I!DetailRead("detail", i, 0)}
    BY <1>4 DEF I!SelectReads
  <2>4. /\ dialog.shown \in Incidents /\ TrueOrMadeUp(dialog.shown, dialog.status)
        /\ ~dialog.moved => dialog.facts \in {I!None, dialog.shown}
    BY <1>4 DEF IncidentInv, DialogIsTrue
  <2> QED
    BY <1>1, <1>2, <2>2, <2>3, <2>4
<1> QED
  BY <1>3, <1>4

\* The listings the page and its dialog ask for themselves.
LEMMA IncidentReads ==
    ASSUME IncidentInv, NEW i \in Incidents
    PROVE  /\ I!DetailRead("detail", i, 0) \in I!Reads /\ I!TabRead(i) \in I!Reads
           /\ DetailList(I!DetailRead("detail", i, 0))
           /\ I!DetailRead("detail", i, 0).by = "detail" /\ I!DetailRead("detail", i, 0).of = i
           /\ I!TabRead(i).by = "tab" /\ I!TabRead(i).of = i
<1>1. srv \in [Incidents -> I!Status] /\ srv[i] \in hist.had[i]
  BY IncidentTypes DEF IncidentInv, RowsAreTrue
<1>2. I!Only(i) \in I!Lists /\ I!Only(i)[i] = srv[i]
  BY <1>1 DEF I!Only, I!Lists
<1>3. [j \in Incidents |-> I!Absent] \in I!Lists
  BY DEF I!Lists
<1> HIDE DEF I!Only, I!Lists
<1> QED
  BY <1>1, <1>2, <1>3 DEF I!DetailRead, I!TabRead, I!Reads, I!Ids, DetailList

\* Every listing of rs is of the page, has been on its way already, or is the only one of
\* its handler.
FitFor(rs) ==
    \A r \in rs :
      /\ r.by = "page" => WholeList(r)
      /\ r.by \in {"detail", "tab"} => r \in reads
      /\ r.by = "handler" =>
           /\ r.slot \in Slots /\ job'[r.slot] # I!Idle /\ job'[r.slot].stage = "fetching"
           /\ job'[r.slot].op \in I!PageOps => WholeList(r)
           /\ job'[r.slot].op \in I!DialogOps => DetailList(r) /\ job'[r.slot].live
           /\ \A q \in rs : q.by = "handler" /\ q.slot = r.slot => q = r

\* The handlers of the dialog are those that were.
SameDialogHandlers ==
    /\ HandlersCarryTruth' /\ job' \in [Slots -> IncidentHandlers]
    /\ \A t \in Slots : /\ Acts(job'[t]) <=> Acts(job[t])
                        /\ Closes(job'[t]) <=> Closes(job[t])
                        /\ Closes(job[t]) => job'[t].stage = job[t].stage

\* The list on the page changes, and an incident of it is selected or not.
LEMMA IncidentListKeeps ==
    ASSUME IncidentInv, UNCHANGED <<srv, hist>>, page' \in IncidentPages,
           \A j \in Incidents : /\ page'.list[j] = I!Absent \/ TrueOrMadeUp(j, page'.list[j])
                                /\ page.list[j] # I!Absent => page'.list[j] # I!Absent,
           NEW rs \in SUBSET I!Reads, FitFor(rs),
           \/ dialog' = dialog /\ reads' = rs
           \/ \E i \in Incidents : /\ page'.list[i] # I!Absent
                                   /\ dialog' = I!Select(dialog, i, page'.list)
                                   /\ reads' = rs \cup I!SelectReads(dialog, i),
           \A r \in reads : r.by = "tab" => r \in rs,
           page'.loading => \E r \in rs : r.by = "page",
           page'.busy => \E s \in Slots : job'[s] # I!Idle /\ job'[s].op \in I!PageOps,
           SameDialogHandlers,
           faults' \in 0 .. MaxFaults, asked' \in 0 .. MaxIncidentRequests
    PROVE  IncidentInv'
<1>1. I!TypeOK /\ dialog \in I!Dialogs
  BY IncidentTypes DEF IncidentInv
<1> DEFINE Chosen(i) == /\ page'.list[i] # I!Absent
                        /\ dialog' = I!Select(dialog, i, page'.list)
                        /\ reads' = rs \cup I!SelectReads(dialog, i)
<1>2. ASSUME NEW i \in Incidents, Chosen(i)
      PROVE  /\ dialog' \in I!Dialogs /\ dialog'.sel # I!None /\ dialog'.busy = dialog.busy
             /\ dialog'.closing = dialog.closing /\ dialog'.closeOpen = dialog.closeOpen
             /\ dialog'.shown \in Incidents /\ TrueOrMadeUp(dialog'.shown, dialog'.status)
             /\ ~dialog'.moved => dialog'.facts \in {I!None, dialog'.shown}
             /\ dialog.moved => dialog'.moved
             /\ dialog.sel # I!None => dialog'.shown = dialog.shown
             /\ I!SelectReads(dialog, i)
                  \subseteq {I!DetailRead("detail", i, 0), I!TabRead(i)}
             /\ I!TabRead(i) \in I!SelectReads(dialog, i) => dialog'.shown = i
             /\ dialog'.tabLoading =>
                  dialog.tabLoading \/ I!TabRead(i) \in I!SelectReads(dialog, i)
  <2> DEFINE l == page'.list
  <2>1. l \in I!Lists /\ TrueOrMadeUp(i, l[i]) /\ dialog' = I!Select(dialog, i, l)
    BY <1>2 DEF IncidentPages
  <2> HIDE DEF l
  <2> QED
    BY <2>1, IncidentSelect
<1>3. ASSUME NEW i \in Incidents
      PROVE  /\ I!DetailRead("detail", i, 0) \in I!Reads /\ I!TabRead(i) \in I!Reads
             /\ DetailList(I!DetailRead("detail", i, 0))
             /\ I!DetailRead("detail", i, 0).by = "detail"
             /\ I!DetailRead("detail", i, 0).of = i
             /\ I!TabRead(i).by = "tab" /\ I!TabRead(i).of = i
  BY IncidentReads
<1>4. (dialog' = dialog /\ reads' = rs) \/ \E i \in Incidents : Chosen(i)
  OBVIOUS
<1> HIDE DEF Chosen
<1>5. /\ dialog' \in I!Dialogs /\ dialog'.busy = dialog.busy
      /\ dialog'.closing = dialog.closing /\ dialog'.closeOpen = dialog.closeOpen
      /\ dialog.moved => dialog'.moved
      /\ dialog.sel # I!None => dialog'.sel # I!None /\ dialog'.shown = dialog.shown
  BY <1>1, <1>2, <1>4
<1>6. DialogIsTrue'
  <2>1. CASE dialog' = dialog
    BY <2>1 DEF IncidentInv, DialogIsTrue, TrueOrMadeUp
  <2>2. CASE \E i \in Incidents : Chosen(i)
    BY <1>2, <2>2 DEF IncidentInv, DialogIsTrue, TrueOrMadeUp
  <2> QED
    BY <1>4, <2>1, <2>2
<1>7. ASSUME NEW r \in reads'
      PROVE  \/ r \in rs
             \/ /\ r \in I!Reads /\ r.by = "detail"
                /\ DetailList(r) /\ page'.list[r.of] # I!Absent
             \/ r \in I!Reads /\ r.by = "tab" /\ dialog'.sel # I!None /\ r.of = dialog'.shown
  <2>1. CASE r \notin rs
    <3>1. PICK i \in Incidents : Chosen(i)
      BY <1>4, <1>7, <2>1
    <3>2. r \in I!SelectReads(dialog, i) /\ page'.list[i] # I!Absent
      BY <1>7, <2>1, <3>1 DEF Chosen
    <3>3. r \in {I!DetailRead("detail", i, 0), I!TabRead(i)}
      BY <1>2, <3>1, <3>2
    <3>4. CASE r = I!DetailRead("detail", i, 0)
      BY <1>3, <3>2, <3>4
    <3>5. CASE r = I!TabRead(i)
      BY <1>2, <1>3, <3>1, <3>2, <3>5
    <3> QED
      BY <3>3, <3>4, <3>5
  <2> QED
    BY <2>1
<1>8. rs \subseteq reads'
  BY <1>4 DEF Chosen
<1>9. I!TypeOK'
  <2>1. reads' \subseteq I!Reads
    BY <1>7
  <2> QED
    BY <1>1, <1>5, <2>1 DEF I!TypeOK, SameDialogHandlers, IncidentHandlers, IncidentPages
<1>10. RowsAreTrue'
  BY DEF IncidentInv, RowsAreTrue, TrueOrMadeUp
<1>11. ListingsFit'
  <2> SUFFICES ASSUME NEW r \in reads'
               PROVE  /\ r.by = "page" => WholeList(r)'
                      /\ r.by = "detail" => DetailList(r)' /\ page'.list[r.of] # I!Absent
                      /\ r.by = "tab" => /\ dialog'.sel # I!None
                                         /\ dialog'.moved \/ r.of = dialog'.shown
                      /\ r.by = "handler" => HandlerListing(r)'
    BY DEF ListingsFit
  <2>1. (WholeList(r)' <=> WholeList(r)) /\ (DetailList(r)' <=> DetailList(r))
    BY DEF WholeList, DetailList
  <2>2. CASE r \notin rs
    BY <1>7, <2>1, <2>2
  <2>3. CASE r \in rs
    <3>1. r.by = "page" => WholeList(r)'
      BY <2>1, <2>3 DEF FitFor
    <3>2. r.by = "detail" => DetailList(r)' /\ page'.list[r.of] # I!Absent
      BY <2>1, <2>3 DEF FitFor, IncidentInv, ListingsFit, DetailList
    <3>3. r.by = "tab" => /\ dialog'.sel # I!None
                          /\ dialog'.moved \/ r.of = dialog'.shown
      BY <1>5, <2>3 DEF FitFor, IncidentInv, ListingsFit
    <3>4. ASSUME r.by = "handler" PROVE HandlerListing(r)'
      <4>1. \A q \in reads' : q.by = "handler" => q \in rs
        BY <1>7
      <4> QED
        BY <2>1, <2>3, <3>4, <4>1 DEF FitFor, HandlerListing
    <3> QED
      BY <3>1, <3>2, <3>3, <3>4
  <2> QED
    BY <2>2, <2>3
<1>12. FlagsGuard'
  BY <1>5 DEF IncidentInv, FlagsGuard, SameDialogHandlers
<1>13. I!BusyMeansWorking'
  <2>1. dialog.busy => \E s \in Slots : Acts(job[s])
    BY DEF IncidentInv, I!BusyMeansWorking, Acts
  <2>2. dialog.closing => \E s \in Slots : Closes(job[s])
    BY DEF IncidentInv, I!BusyMeansWorking, Closes
  <2>3. (dialog'.busy => \E s \in Slots : Acts(job'[s]))
          /\ (dialog'.closing => \E s \in Slots : Closes(job'[s]))
    BY <1>5, <2>1, <2>2 DEF SameDialogHandlers
  <2>4. dialog'.tabLoading => \E r \in reads' : r.by = "tab"
    <3>1. dialog.tabLoading => \E r \in rs : r.by = "tab"
      BY DEF IncidentInv, I!BusyMeansWorking
    <3>2. CASE dialog' = dialog
      BY <1>8, <3>1, <3>2
    <3>3. CASE \E i \in Incidents : Chosen(i)
      <4>1. PICK i \in Incidents : Chosen(i)
        BY <3>3
      <4>2. I!SelectReads(dialog, i) \subseteq reads'
        BY <4>1 DEF Chosen
      <4> QED
        BY <1>2, <1>3, <1>8, <3>1, <4>1, <4>2
    <3> QED
      BY <1>4, <3>2, <3>3
  <2> QED
    BY <1>8, <2>3, <2>4 DEF I!BusyMeansWorking, Acts, Closes
<1>14. I!KillNamesOwnProcess'
  BY DEF IncidentInv, I!KillNamesOwnProcess
<1> QED
  BY <1>6, <1>9, <1>10, <1>11, <1>12, <1>13, <1>14 DEF IncidentInv, SameDialogHandlers

LEMMA IncidentsSet ==
    ASSUME NEW p \in IncidentPages, NEW l \in I!Lists, NEW rs,
           I!SetIncidents(p, l, dialog, rs)
    PROVE  /\ page' \in IncidentPages /\ page'.list = l /\ page'.loading = p.loading
           /\ page'.busy = p.busy
           /\ \/ dialog' = dialog /\ reads' = rs
              \/ \E i \in Incidents : /\ page'.list[i] # I!Absent
                                      /\ dialog' = I!Select(dialog, i, page'.list)
                                      /\ reads' = rs \cup I!SelectReads(dialog, i)
<1>1. page' = [p EXCEPT !.list = l]
  BY DEF I!SetIncidents
<1>2. /\ page' \in IncidentPages /\ page'.list = l /\ page'.loading = p.loading
      /\ page'.busy = p.busy
  BY <1>1 DEF IncidentPages
<1> QED
  BY <1>2 DEF I!SetIncidents

\* What is on its way fits the handlers, as long as those that wait for a listing stay.
LEMMA IncidentReadsFit ==
    ASSUME IncidentInv, NEW rs \in SUBSET reads,
           \A r \in rs : r.by = "handler" => job'[r.slot] = job[r.slot]
    PROVE  FitFor(rs) /\ rs \in SUBSET I!Reads
<1>1. rs \in SUBSET I!Reads
  BY IncidentTypes DEF IncidentInv
<1>2. \A r \in rs : r.by = "handler" => HandlerListing(r)
  BY DEF IncidentInv, ListingsFit
<1>3. \A r \in rs : r.by = "page" => WholeList(r)
  BY DEF IncidentInv, ListingsFit
<1> QED
  BY <1>1, <1>2, <1>3 DEF FitFor, HandlerListing

\* A listing of all incidents has a row for each.
LEMMA IncidentListIsTrue ==
    ASSUME IncidentInv, NEW r \in reads, WholeList(r), NEW i \in Incidents
    PROVE  r.list \in I!Lists /\ r.list[i] # I!Absent /\ TrueOrMadeUp(i, r.list[i])
<1>1. hist.had[i] \subseteq I!Status /\ r \in I!Reads
  BY IncidentTypes DEF IncidentInv, IncidentHistories
<1> QED
  BY <1>1 DEF WholeList, TrueOrMadeUp, I!Status, I!Absent, I!Reads

LEMMA SameHandlers ==
    ASSUME IncidentInv, UNCHANGED <<job, hist>>
    PROVE  SameDialogHandlers
BY IncidentTypes DEF IncidentInv, SameDialogHandlers, HandlersCarryTruth, TrueOrMadeUp

LEMMA PageOfIncidentsLoadedKeeps ==
    ASSUME IncidentInv, NEW r \in reads, I!PageLoaded(r), UNCHANGED asked
    PROVE  IncidentInv'
<1> DEFINE rs == reads \ {r}
           p == [page EXCEPT !.loading = FALSE]
           l == r.list
<1>1. /\ I!TypeOK /\ page \in IncidentPages /\ r.by = "page" /\ WholeList(r)
      /\ UNCHANGED <<srv, hist, job>>
  BY IncidentTypes DEF IncidentInv, ListingsFit, I!PageLoaded
<1>2. faults' \in 0 .. MaxFaults /\ asked' \in 0 .. MaxIncidentRequests
  BY <1>1, IncidentFaults DEF I!PageLoaded, I!TypeOK
<1>3. /\ p \in IncidentPages /\ p.list = page.list /\ ~p.loading /\ p.busy = page.busy
  BY <1>1 DEF IncidentPages
<1>4. /\ FitFor(rs) /\ rs \in SUBSET I!Reads /\ SameDialogHandlers
      /\ \A q \in reads : q.by = "tab" => q \in rs
  BY <1>1, IncidentReadsFit, SameHandlers
<1>5. page.busy => \E s \in Slots : job'[s] # I!Idle /\ job'[s].op \in I!PageOps
  BY <1>1 DEF IncidentInv, I!BusyMeansWorking
<1>6. \/ I!SetIncidents(p, l, dialog, rs)
      \/ page' = p /\ dialog' = dialog /\ reads' = rs
  BY DEF I!PageLoaded
<1>7. \A j \in Incidents : l \in I!Lists /\ l[j] # I!Absent /\ TrueOrMadeUp(j, l[j])
  BY <1>1, IncidentListIsTrue
<1>8. l \in I!Lists
  BY <1>1, IncidentTypes DEF IncidentInv, I!Reads
<1> HIDE DEF rs, p, l
<1>9. CASE I!SetIncidents(p, l, dialog, rs)
  <2>1. /\ page' \in IncidentPages /\ page'.list = l /\ ~page'.loading
        /\ page'.busy = page.busy
        /\ \/ dialog' = dialog /\ reads' = rs
           \/ \E i \in Incidents : /\ page'.list[i] # I!Absent
                                   /\ dialog' = I!Select(dialog, i, page'.list)
                                   /\ reads' = rs \cup I!SelectReads(dialog, i)
    BY <1>3, <1>8, <1>9, IncidentsSet
  <2>2. UNCHANGED <<srv, hist>>
    BY <1>1
  <2> QED
    BY <1>2, <1>4, <1>5, <1>7, <2>1, <2>2, IncidentListKeeps
<1>10. CASE page' = p /\ dialog' = dialog /\ reads' = rs
  <2>1. \A j \in Incidents : page.list[j] = I!Absent \/ TrueOrMadeUp(j, page.list[j])
    BY DEF IncidentInv, RowsAreTrue
  <2> QED
    BY <1>1, <1>2, <1>3, <1>4, <1>5, <1>10, <2>1, IncidentListKeeps
<1> QED
  BY <1>6, <1>9, <1>10

LEMMA IncidentOpenKeeps ==
    ASSUME IncidentInv, NEW i \in Incidents, I!Open(i),
           asked < MaxIncidentRequests, asked' = asked + 1
    PROVE  IncidentInv'
<1>1. /\ I!TypeOK /\ page \in IncidentPages /\ UNCHANGED <<srv, hist, page, job, faults>>
      /\ dialog' = I!Select(dialog, i, page'.list)
      /\ reads' = reads \cup I!SelectReads(dialog, i)
      /\ page'.list[i] # I!Absent
  BY IncidentTypes DEF IncidentInv, I!Open, I!Listed
<1>2. faults' \in 0 .. MaxFaults /\ asked' \in 0 .. MaxIncidentRequests
  BY <1>1, IncidentAsked DEF I!TypeOK
<1>3. FitFor(reads) /\ reads \in SUBSET I!Reads /\ SameDialogHandlers
  BY <1>1, IncidentReadsFit, SameHandlers
<1>4. /\ page'.busy => \E s \in Slots : job'[s] # I!Idle /\ job'[s].op \in I!PageOps
      /\ page'.loading => \E r \in reads : r.by = "page"
  BY <1>1 DEF IncidentInv, I!BusyMeansWorking
<1>5. \A j \in Incidents : page'.list[j] = I!Absent \/ TrueOrMadeUp(j, page'.list[j])
  BY <1>1 DEF IncidentInv, RowsAreTrue
<1> QED
  BY <1>1, <1>2, <1>3, <1>4, <1>5, IncidentListKeeps

\* A handler of the page ends or goes on; those of the dialog are not concerned.
LEMMA PageHandlerGoes ==
    ASSUME IncidentInv, NEW s \in Slots, job[s] # I!Idle, job[s].op \in I!PageOps,
           \/ I!Step(s, "fetching")
           \/ job' = [job EXCEPT ![s] = I!Idle],
           UNCHANGED hist
    PROVE  SameDialogHandlers /\ \A t \in Slots \ {s} : job'[t] = job[t]
<1>1. I!TypeOK /\ job \in [Slots -> IncidentHandlers] /\ job[s].op \notin I!DialogOps
  BY IncidentTypes DEF IncidentInv, I!PageOps, I!DialogOps
<1>2. /\ job' \in [Slots -> IncidentHandlers] /\ \A t \in Slots \ {s} : job'[t] = job[t]
      /\ \/ job'[s] = I!Idle
         \/ /\ job'[s] # I!Idle /\ job'[s].op = job[s].op /\ job'[s].arg = job[s].arg
            /\ job'[s].stage = "fetching"
  BY <1>1, IncidentStepped, IncidentEnded
<1>3. HandlersCarryTruth'
  BY <1>2 DEF IncidentInv, HandlersCarryTruth, TrueOrMadeUp
<1>4. \A t \in Slots : /\ Acts(job'[t]) <=> Acts(job[t])
                       /\ Closes(job'[t]) <=> Closes(job[t])
                       /\ Closes(job[t]) => job'[t].stage = job[t].stage
  BY <1>1, <1>2 DEF Acts, Closes, I!DialogOps
<1> QED
  BY <1>2, <1>3, <1>4 DEF SameDialogHandlers

LEMMA StatusAnsweredKeeps ==
    ASSUME IncidentInv, NEW s \in Slots, I!StatusAnswered(s), UNCHANGED asked
    PROVE  IncidentInv'
<1> DEFINE h == I!HandlerRead(s)
           rs == reads \cup {h}
           i == job[s].on
           l == IF I!Listed(i) THEN [page.list EXCEPT ![i] = job[s].arg] ELSE page.list
<1>1. /\ I!TypeOK /\ page \in IncidentPages /\ job[s] # I!Idle /\ job[s].op \in I!PageOps
      /\ job[s].stage = "ok" /\ I!Step(s, "fetching") /\ UNCHANGED <<srv, hist, faults>>
      /\ I!SetIncidents(page, l, dialog, rs) /\ page.list \in I!Lists
  BY IncidentTypes DEF IncidentInv, I!StatusAnswered
<1>2. faults' \in 0 .. MaxFaults /\ asked' \in 0 .. MaxIncidentRequests
  BY <1>1 DEF I!TypeOK
<1>3. SameDialogHandlers /\ \A t \in Slots \ {s} : job'[t] = job[t]
  BY <1>1, PageHandlerGoes
<1>4. job'[s] # I!Idle /\ job'[s].op = job[s].op /\ job'[s].stage = "fetching"
  BY <1>1, IncidentStepped
<1>5. /\ h \in I!Reads /\ h.by = "handler" /\ h.slot = s /\ WholeList(h)
  <2>1. srv \in I!Lists /\ \A j \in Incidents : srv[j] \in hist.had[j]
    BY <1>1, IncidentTypes DEF IncidentInv, RowsAreTrue, I!Lists
  <2> QED
    BY <2>1 DEF I!HandlerRead, I!PageRead, I!Reads, WholeList, I!Ids
<1>6. /\ i \in Incidents /\ job[s].arg \in I!Status /\ TrueOrMadeUp(i, job[s].arg)
  <2>1. i \in Incidents
    BY <1>1, IncidentTypes, IncidentHandler
  <2> QED
    BY <1>1, <2>1 DEF IncidentInv, HandlersCarryTruth, Sets, I!PageOps
<1>7. l \in I!Lists
  BY <1>1, <1>6 DEF I!Lists
<1>8. \A j \in Incidents : /\ l[j] = I!Absent \/ TrueOrMadeUp(j, l[j])
                           /\ page.list[j] # I!Absent => l[j] # I!Absent
  BY <1>1, <1>6 DEF IncidentInv, RowsAreTrue, I!Lists, I!Status, I!Absent
<1> HIDE DEF h, l
<1>9. FitFor(rs) /\ rs \in SUBSET I!Reads
  <2>1. \A r \in reads : r.by = "handler" => r.slot \in Slots \ {s}
    BY <1>1 DEF IncidentInv, ListingsFit, HandlerListing
  <2>2. FitFor(reads) /\ reads \in SUBSET I!Reads
    BY <1>3, <2>1, IncidentReadsFit
  <2>3. \A r \in rs : r.by = "handler" /\ r.slot = s => r = h
    BY <2>1
  <2>4. job[s].op \notin I!DialogOps
    BY <1>1 DEF I!PageOps, I!DialogOps
  <2> QED
    BY <1>4, <1>5, <2>1, <2>2, <2>3, <2>4 DEF FitFor
<1>10. \A r \in reads : r \in rs
  OBVIOUS
<1> HIDE DEF rs
<1>11. /\ page' \in IncidentPages /\ page'.list = l /\ page'.loading = page.loading
       /\ page'.busy = page.busy
       /\ \/ dialog' = dialog /\ reads' = rs
          \/ \E k \in Incidents : /\ page'.list[k] # I!Absent
                                  /\ dialog' = I!Select(dialog, k, page'.list)
                                  /\ reads' = rs \cup I!SelectReads(dialog, k)
  BY <1>1, <1>7, IncidentsSet
<1>12. /\ page'.loading => \E r \in rs : r.by = "page"
       /\ page'.busy => \E t \in Slots : job'[t] # I!Idle /\ job'[t].op \in I!PageOps
  BY <1>1, <1>4, <1>10, <1>11 DEF IncidentInv, I!BusyMeansWorking
<1> QED
  BY <1>1, <1>2, <1>3, <1>8, <1>9, <1>10, <1>11, <1>12, IncidentListKeeps

LEMMA StatusFetchedKeeps ==
    ASSUME IncidentInv, NEW r \in reads, I!StatusFetched(r), UNCHANGED asked
    PROVE  IncidentInv'
<1> DEFINE rs == reads \ {r}
           s == r.slot
           p == [page EXCEPT !.busy = FALSE,
                             !.assign = IF job[s].op = "assign" THEN I!None ELSE @]
           l == r.list
<1>1. /\ I!TypeOK /\ page \in IncidentPages /\ r.by = "handler" /\ job[s].op \in I!PageOps
      /\ job' = [job EXCEPT ![s] = I!Idle] /\ UNCHANGED <<srv, hist>>
      /\ \/ I!SetIncidents(p, l, dialog, rs)
         \/ page' = p /\ dialog' = dialog /\ reads' = rs
  BY IncidentTypes DEF IncidentInv, I!StatusFetched
<1>2. /\ s \in Slots /\ job[s] # I!Idle /\ WholeList(r)
      /\ \A q \in rs : q.by = "handler" => q.slot \in Slots \ {s}
  BY <1>1 DEF IncidentInv, ListingsFit, HandlerListing
<1>3. faults' \in 0 .. MaxFaults /\ asked' \in 0 .. MaxIncidentRequests
  BY <1>1, IncidentFaults DEF I!StatusFetched, I!TypeOK
<1>4. SameDialogHandlers /\ \A t \in Slots \ {s} : job'[t] = job[t]
  BY <1>1, <1>2, PageHandlerGoes
<1>5. /\ p \in IncidentPages /\ p.list = page.list /\ p.loading = page.loading /\ ~p.busy
  BY <1>1 DEF IncidentPages, I!Ids
<1>6. FitFor(rs) /\ rs \in SUBSET I!Reads
  BY <1>2, <1>4, IncidentReadsFit
<1>7. /\ \A q \in reads : q.by = "tab" => q \in rs
      /\ page.loading => \E q \in rs : q.by = "page"
  BY <1>1 DEF IncidentInv, I!BusyMeansWorking
<1>8. \A j \in Incidents : l[j] # I!Absent /\ TrueOrMadeUp(j, l[j])
  BY <1>2, IncidentListIsTrue
<1>9. l \in I!Lists
  BY <1>1, IncidentTypes DEF IncidentInv, I!Reads
<1>10. \A j \in Incidents : page.list[j] = I!Absent \/ TrueOrMadeUp(j, page.list[j])
  BY DEF IncidentInv, RowsAreTrue
<1> HIDE DEF rs, p, l, s
<1>11. CASE I!SetIncidents(p, l, dialog, rs)
  <2>1. /\ page' \in IncidentPages /\ page'.list = l /\ page'.loading = page.loading
        /\ ~page'.busy
        /\ \/ dialog' = dialog /\ reads' = rs
           \/ \E i \in Incidents : /\ page'.list[i] # I!Absent
                                   /\ dialog' = I!Select(dialog, i, page'.list)
                                   /\ reads' = rs \cup I!SelectReads(dialog, i)
    BY <1>5, <1>9, <1>11, IncidentsSet
  <2> QED
    BY <1>1, <1>3, <1>4, <1>6, <1>7, <1>8, <2>1, IncidentListKeeps
<1>12. CASE page' = p /\ dialog' = dialog /\ reads' = rs
  BY <1>1, <1>3, <1>4, <1>5, <1>6, <1>7, <1>10, <1>12, IncidentListKeeps
<1> QED
  BY <1>1, <1>11, <1>12

-----------------------------------------------------------------------------
(* The dialog of an incident *)

LEMMA IncidentPageRead ==
    ASSUME IncidentInv
    PROVE  I!PageRead \in I!Reads /\ I!PageRead.by = "page" /\ WholeList(I!PageRead)
<1>1. srv \in I!Lists /\ \A j \in Incidents : srv[j] \in hist.had[j]
  BY IncidentTypes DEF IncidentInv, RowsAreTrue, I!Lists
<1> QED
  BY <1>1 DEF I!PageRead, I!Reads, WholeList, I!Ids

\* Listings for handlers that stay and get no further one.
LEMMA HandlerListingsStay ==
    ASSUME IncidentInv, UNCHANGED hist, NEW r \in reads, r.by = "handler",
           job'[r.slot] = job[r.slot],
           \A q \in reads' : q.by = "handler" /\ q.slot = r.slot => q \in reads
    PROVE  HandlerListing(r)'
<1>1. HandlerListing(r)
  BY DEF IncidentInv, ListingsFit
<1> QED
  BY <1>1 DEF HandlerListing, WholeList, DetailList

\* A step of the dialog: the lists stay, and what it asks for is of the incident it shows.
LEMMA IncidentDialogKeeps ==
    ASSUME IncidentInv, UNCHANGED <<srv, hist>>, page' \in IncidentPages,
           page'.list = page.list, page'.busy = page.busy,
           dialog' \in I!Dialogs, DialogIsTrue', dialog.moved => dialog'.moved,
           dialog.sel # I!None => dialog'.sel # I!None,
           dialog'.moved \/ dialog'.shown = dialog.shown,
           job' \in [Slots -> IncidentHandlers], HandlersCarryTruth', FlagsGuard',
           \A t \in Slots : job[t] # I!Idle /\ job[t].op \in I!PageOps => job'[t] = job[t],
           \A r \in reads' : \/ r \in reads \/ r = I!PageRead
                             \/ dialog'.sel # I!None /\ r = I!TabRead(dialog'.shown)
                             \/ r \in I!Reads /\ r.by = "handler",
           \A r \in reads' : r.by = "handler" => HandlerListing(r)',
           page'.loading => \E r \in reads' : r.by = "page",
           dialog'.tabLoading => \E r \in reads' : r.by = "tab",
           dialog'.busy => \E s \in Slots : Acts(job'[s]),
           dialog'.closing => \E s \in Slots : Closes(job'[s]),
           faults' \in 0 .. MaxFaults, UNCHANGED asked
    PROVE  IncidentInv'
<1>1. I!TypeOK
  BY DEF IncidentInv
<1>2. I!PageRead \in I!Reads /\ I!PageRead.by = "page" /\ WholeList(I!PageRead)
  BY IncidentPageRead
<1>3. dialog'.sel # I!None =>
        /\ I!TabRead(dialog'.shown) \in I!Reads /\ I!TabRead(dialog'.shown).by = "tab"
        /\ I!TabRead(dialog'.shown).of = dialog'.shown
  <2>1. dialog'.sel # I!None => dialog'.shown \in Incidents
    BY DEF DialogIsTrue
  <2> QED
    BY <2>1, IncidentReads
<1>4. I!TypeOK'
  <2>1. reads' \subseteq I!Reads
    BY <1>1, <1>2, <1>3 DEF I!TypeOK
  <2> QED
    BY <1>1, <2>1 DEF I!TypeOK, IncidentHandlers, IncidentPages
<1>5. RowsAreTrue'
  BY DEF IncidentInv, RowsAreTrue, TrueOrMadeUp
<1>6. ListingsFit'
  <2> SUFFICES ASSUME NEW r \in reads'
               PROVE  /\ r.by = "page" => WholeList(r)'
                      /\ r.by = "detail" => DetailList(r)' /\ page'.list[r.of] # I!Absent
                      /\ r.by = "tab" => /\ dialog'.sel # I!None
                                         /\ dialog'.moved \/ r.of = dialog'.shown
                      /\ r.by = "handler" => HandlerListing(r)'
    BY DEF ListingsFit
  <2>1. (WholeList(r)' <=> WholeList(r)) /\ (DetailList(r)' <=> DetailList(r))
    BY DEF WholeList, DetailList
  <2>2. CASE r \in reads
    BY <2>1, <2>2 DEF IncidentInv, ListingsFit
  <2>3. CASE r = I!PageRead
    BY <1>2, <2>1, <2>3
  <2>4. CASE dialog'.sel # I!None /\ r = I!TabRead(dialog'.shown)
    BY <1>3, <2>4
  <2> QED
    BY <2>2, <2>3, <2>4
<1>7. I!BusyMeansWorking'
  BY DEF IncidentInv, I!BusyMeansWorking, Acts, Closes
<1>8. I!KillNamesOwnProcess'
  BY DEF IncidentInv, I!KillNamesOwnProcess
<1> QED
  BY <1>4, <1>5, <1>6, <1>7, <1>8 DEF IncidentInv

\* The handlers stay, and so do the flags they are behind.
LEMMA IncidentHandlersStay ==
    ASSUME IncidentInv, UNCHANGED <<hist, job>>, dialog'.busy = dialog.busy,
           dialog'.closing = dialog.closing,
           \A s \in Slots : Closes(job[s]) /\ dialog.closeOpen => dialog'.closeOpen
    PROVE  /\ job' \in [Slots -> IncidentHandlers] /\ HandlersCarryTruth' /\ FlagsGuard'
           /\ dialog'.busy => \E s \in Slots : Acts(job'[s])
           /\ dialog'.closing => \E s \in Slots : Closes(job'[s])
<1>1. job' \in [Slots -> IncidentHandlers] /\ HandlersCarryTruth'
  BY IncidentTypes DEF IncidentInv, HandlersCarryTruth, TrueOrMadeUp
<1>2. FlagsGuard'
  BY DEF IncidentInv, FlagsGuard
<1>3. /\ dialog.busy => \E s \in Slots : Acts(job[s])
      /\ dialog.closing => \E s \in Slots : Closes(job[s])
  BY DEF IncidentInv, I!BusyMeansWorking, Acts, Closes
<1> QED
  BY <1>1, <1>2, <1>3

LEMMA CloseBoxKeeps ==
    ASSUME IncidentInv, I!OpenClose \/ I!CancelClose, UNCHANGED asked
    PROVE  IncidentInv'
<1>1. I!TypeOK /\ dialog \in I!Dialogs /\ page \in IncidentPages /\ ~dialog.closing
  BY IncidentTypes DEF IncidentInv, I!OpenClose, I!CancelClose
<1>2. dialog.sel # I!None
  BY IncidentNoDialog
     DEF IncidentInv, DialogIsTrue, I!OpenClose, I!CancelClose, I!Ready, I!InDialog
<1>3. PICK o \in BOOLEAN : dialog' = [dialog EXCEPT !.closeOpen = o] /\ (o => ~dialog.busy)
  BY DEF I!OpenClose, I!CancelClose, I!Ready
<1>4. UNCHANGED <<srv, hist, page, job, reads, faults>>
  BY DEF I!OpenClose, I!CancelClose
<1>5. /\ dialog' \in I!Dialogs /\ dialog'.sel = dialog.sel /\ dialog'.shown = dialog.shown
      /\ dialog'.status = dialog.status /\ dialog'.facts = dialog.facts
      /\ dialog'.moved = dialog.moved /\ dialog'.closeOpen = o
      /\ dialog'.tabLoading = dialog.tabLoading /\ dialog'.busy = dialog.busy
      /\ dialog'.closing = dialog.closing
  BY <1>1, <1>3 DEF I!Dialogs
<1>6. DialogIsTrue'
  BY <1>2, <1>3, <1>4, <1>5 DEF IncidentInv, DialogIsTrue, TrueOrMadeUp
<1>7. /\ job' \in [Slots -> IncidentHandlers] /\ HandlersCarryTruth' /\ FlagsGuard'
      /\ dialog'.busy => \E s \in Slots : Acts(job'[s])
      /\ dialog'.closing => \E s \in Slots : Closes(job'[s])
  <2>1. \A s \in Slots : ~Closes(job[s])
    BY <1>1 DEF IncidentInv, FlagsGuard
  <2> QED
    BY <1>4, <1>5, <2>1, IncidentHandlersStay
<1>8. \A r \in reads' : r.by = "handler" => HandlerListing(r)'
  BY <1>4, HandlerListingsStay
<1>9. /\ page'.loading => \E r \in reads' : r.by = "page"
      /\ dialog'.tabLoading => \E r \in reads' : r.by = "tab"
      /\ faults' \in 0 .. MaxFaults
  BY <1>1, <1>4, <1>5 DEF IncidentInv, I!BusyMeansWorking, I!TypeOK
<1> QED
  BY <1>1, <1>2, <1>4, <1>5, <1>6, <1>7, <1>8, <1>9, IncidentDialogKeeps

\* The dialog d is the one on the screen but for its flags; it turns to incident i.
LEMMA IncidentTurned ==
    ASSUME IncidentInv, UNCHANGED hist, dialog.sel # I!None,
           NEW d \in I!Dialogs, d.sel = dialog.sel, d.shown = dialog.shown,
           d.facts = dialog.facts, d.moved = dialog.moved, d.closeOpen => ~d.busy,
           NEW i \in Incidents, NEW st \in I!Status, TrueOrMadeUp(i, st),
           dialog' = I!Turn(d, i, st)
    PROVE  /\ dialog' \in I!Dialogs /\ DialogIsTrue' /\ dialog'.sel # I!None
           /\ dialog'.shown = i /\ dialog'.busy = d.busy /\ dialog'.closing = d.closing
           /\ dialog'.closeOpen = d.closeOpen
           /\ dialog.moved => dialog'.moved
           /\ dialog'.moved \/ dialog'.shown = dialog.shown
           /\ I!TurnReads(d, i, st) \subseteq {I!TabRead(i)}
           /\ dialog'.tabLoading => d.tabLoading \/ I!TabRead(i) \in I!TurnReads(d, i, st)
<1>1. /\ dialog' \in I!Dialogs /\ dialog'.sel = d.sel /\ dialog'.busy = d.busy
      /\ dialog'.closing = d.closing /\ dialog'.closeOpen = d.closeOpen /\ dialog'.shown = i
      /\ dialog'.status = st /\ dialog'.facts \in {d.facts, i}
      /\ dialog'.moved <=> d.moved \/ d.shown \notin {I!None, i}
      /\ I!TurnReads(d, i, st) \subseteq {I!TabRead(i)}
      /\ dialog'.tabLoading => d.tabLoading \/ I!TabRead(i) \in I!TurnReads(d, i, st)
  BY IncidentTurn
<1>2. dialog.shown \in Incidents /\ (~dialog.moved => dialog.facts \in {I!None, dialog.shown})
  BY DEF IncidentInv, DialogIsTrue
<1>3. dialog.shown # I!None
  BY <1>2, IncidentAssumption
<1>4. DialogIsTrue'
  BY <1>1, <1>2, <1>3 DEF DialogIsTrue, TrueOrMadeUp
<1> QED
  BY <1>1, <1>3, <1>4

\* A row with a status that was true, or made up.
LEMMA IncidentTrueStatus ==
    ASSUME IncidentInv, NEW i \in Incidents, NEW st, TrueOrMadeUp(i, st)
    PROVE  st \in I!Status
<1>1. hist.had[i] \subseteq I!Status /\ hist.madeUp \subseteq Incidents \X I!Status
  BY IncidentTypes DEF IncidentInv, IncidentHistories
<1> QED
  BY <1>1 DEF TrueOrMadeUp

LEMMA IncidentDetailArrivesKeeps ==
    ASSUME IncidentInv, NEW r \in reads, I!DetailArrives(r), UNCHANGED asked
    PROVE  IncidentInv'
<1> DEFINE i == r.of
<1>1. /\ I!TypeOK /\ page \in IncidentPages /\ dialog \in I!Dialogs /\ r.by = "detail"
      /\ dialog.sel # I!None /\ UNCHANGED <<srv, hist, page, job>>
  BY IncidentTypes DEF IncidentInv, I!DetailArrives
<1>2. i \in Incidents /\ TrueOrMadeUp(i, r.list[i]) /\ TrueOrMadeUp(i, page.list[i])
  BY <1>1 DEF IncidentInv, ListingsFit, DetailList, RowsAreTrue, TrueOrMadeUp
<1>3. PICK st \in I!Status :
        /\ TrueOrMadeUp(i, st) /\ dialog' = I!Turn(dialog, i, st)
        /\ reads' = (reads \ {r}) \cup I!TurnReads(dialog, i, st)
  BY <1>2, IncidentTrueStatus DEF I!DetailArrives
<1>4. faults' \in 0 .. MaxFaults
  BY <1>1, IncidentFaults DEF I!DetailArrives
<1>5. dialog.closeOpen => ~dialog.busy
  BY DEF IncidentInv, DialogIsTrue
<1> HIDE DEF i
<1>6. /\ dialog' \in I!Dialogs /\ DialogIsTrue' /\ dialog'.sel # I!None
      /\ dialog'.shown = i /\ dialog'.busy = dialog.busy /\ dialog'.closing = dialog.closing
      /\ dialog'.closeOpen = dialog.closeOpen
      /\ dialog.moved => dialog'.moved
      /\ dialog'.moved \/ dialog'.shown = dialog.shown
      /\ I!TurnReads(dialog, i, st) \subseteq {I!TabRead(i)}
      /\ dialog'.tabLoading =>
           dialog.tabLoading \/ I!TabRead(i) \in I!TurnReads(dialog, i, st)
  BY <1>1, <1>2, <1>3, <1>5, IncidentTurned
<1>7. /\ job' \in [Slots -> IncidentHandlers] /\ HandlersCarryTruth' /\ FlagsGuard'
      /\ dialog'.busy => \E s \in Slots : Acts(job'[s])
      /\ dialog'.closing => \E s \in Slots : Closes(job'[s])
  BY <1>1, <1>6, IncidentHandlersStay
<1>8. \A q \in reads' : q \in reads \/ q = I!TabRead(i)
  BY <1>3, <1>6
<1>9. I!TabRead(i).by = "tab"
  BY <1>2, IncidentReads
<1>10. \A q \in reads' : q.by = "handler" => HandlerListing(q)'
  BY <1>1, <1>8, <1>9, HandlerListingsStay
<1>11. /\ page.loading => \E q \in reads' : q.by = "page"
       /\ dialog'.tabLoading => \E q \in reads' : q.by = "tab"
  <2>1. \A q \in reads : q.by # "detail" => q \in reads'
    BY <1>1, <1>3
  <2>2. /\ page.loading => \E q \in reads : q.by = "page"
        /\ dialog.tabLoading => \E q \in reads : q.by = "tab"
    BY DEF IncidentInv, I!BusyMeansWorking
  <2> QED
    BY <1>3, <1>6, <1>9, <2>1, <2>2
<1> QED
  BY <1>1, <1>4, <1>6, <1>7, <1>8, <1>10, <1>11, IncidentDialogKeeps

LEMMA IncidentTabArrivesKeeps ==
    ASSUME IncidentInv, NEW r \in reads, I!TabArrives(r), UNCHANGED asked
    PROVE  IncidentInv'
<1>1. /\ I!TypeOK /\ page \in IncidentPages /\ dialog \in I!Dialogs /\ r.by = "tab"
      /\ dialog.sel # I!None /\ UNCHANGED <<srv, hist, page, job>> /\ reads' = reads \ {r}
  BY IncidentTypes DEF IncidentInv, I!TabArrives
<1>2. /\ dialog.moved \/ r.of = dialog.shown
      /\ r.of \in I!Ids /\ I!None \in I!Ids
      /\ ~dialog.moved => dialog.facts \in {I!None, dialog.shown}
  BY <1>1, IncidentTypes DEF IncidentInv, ListingsFit, DialogIsTrue, I!Reads, I!Ids
<1>3. PICK f \in {r.of, I!None} :
        dialog' = [dialog EXCEPT !.tabLoading = FALSE, !.facts = f]
  BY DEF I!TabArrives
<1>4. faults' \in 0 .. MaxFaults
  BY <1>1, IncidentFaults DEF I!TabArrives
<1>5. f \in I!Ids
  BY <1>1, <1>2 DEF I!Dialogs
<1>6. /\ dialog' \in I!Dialogs /\ dialog'.sel = dialog.sel /\ dialog'.shown = dialog.shown
      /\ dialog'.status = dialog.status /\ dialog'.facts = f
      /\ dialog'.moved = dialog.moved /\ dialog'.closeOpen = dialog.closeOpen
      /\ ~dialog'.tabLoading /\ dialog'.busy = dialog.busy
      /\ dialog'.closing = dialog.closing
  BY <1>1, <1>3, <1>5 DEF I!Dialogs
<1>7. DialogIsTrue'
  BY <1>1, <1>2, <1>6 DEF IncidentInv, DialogIsTrue, TrueOrMadeUp
<1>8. /\ job' \in [Slots -> IncidentHandlers] /\ HandlersCarryTruth' /\ FlagsGuard'
      /\ dialog'.busy => \E s \in Slots : Acts(job'[s])
      /\ dialog'.closing => \E s \in Slots : Closes(job'[s])
  BY <1>1, <1>6, IncidentHandlersStay
<1>9. \A q \in reads' : q.by = "handler" => HandlerListing(q)'
  BY <1>1, HandlerListingsStay
<1>10. page.loading => \E q \in reads' : q.by = "page"
  BY <1>1 DEF IncidentInv, I!BusyMeansWorking
<1> QED
  BY <1>1, <1>4, <1>6, <1>7, <1>8, <1>9, <1>10, IncidentDialogKeeps

LEMMA IncidentSwitchTabKeeps ==
    ASSUME IncidentInv, NEW t \in Tabs, I!SwitchTab(t), UNCHANGED asked
    PROVE  IncidentInv'
<1> DEFINE d == [dialog EXCEPT !.tab = t, !.facts = I!None, !.tabLoading = FALSE]
<1>1. /\ I!TypeOK /\ page \in IncidentPages /\ dialog \in I!Dialogs
      /\ dialog.sel # I!None /\ UNCHANGED <<srv, hist, page, job, faults>>
      /\ dialog' = I!TabOf(d) /\ reads' = {r \in reads : r.by # "tab"} \cup I!TabReads(d)
  BY IncidentTypes DEF IncidentInv, I!SwitchTab, I!InDialog
<1>2. d \in I!Dialogs
  BY <1>1 DEF I!Dialogs, I!Ids
<1>3. /\ d.sel = dialog.sel /\ d.shown = dialog.shown /\ d.status = dialog.status
      /\ d.facts = I!None /\ d.moved = dialog.moved /\ d.closeOpen = dialog.closeOpen
      /\ ~d.tabLoading /\ d.busy = dialog.busy /\ d.closing = dialog.closing
  BY <1>1 DEF I!Dialogs
<1> HIDE DEF d
<1>4. dialog.shown \in Incidents /\ I!TabRead(dialog.shown).by = "tab"
  BY <1>1, IncidentShown, IncidentReads
<1>5. /\ dialog' \in I!Dialogs /\ dialog'.sel = d.sel /\ dialog'.shown = d.shown
      /\ dialog'.status = d.status /\ dialog'.facts \in {I!None, d.shown}
      /\ dialog'.moved = d.moved /\ dialog'.closeOpen = d.closeOpen
      /\ dialog'.busy = d.busy /\ dialog'.closing = d.closing
      /\ dialog'.tabLoading => I!TabRead(dialog.shown) \in I!TabReads(d)
      /\ I!TabReads(d) \subseteq {I!TabRead(dialog.shown)}
  <2>1. CASE I!Fetches(d)
    <3>1. /\ dialog' = [d EXCEPT !.tabLoading = TRUE]
          /\ I!TabReads(d) = {I!TabRead(dialog.shown)}
      BY <1>1, <1>3, <2>1 DEF I!TabOf, I!TabReads
    <3> QED
      BY <1>2, <1>3, <3>1 DEF I!Dialogs
  <2>2. CASE ~I!Fetches(d)
    <3>1. dialog' = [d EXCEPT !.facts = d.shown] /\ I!TabReads(d) = {}
      BY <1>1, <2>2 DEF I!TabOf, I!TabReads
    <3> QED
      BY <1>2, <1>3, <3>1 DEF I!Dialogs
  <2> QED
    BY <2>1, <2>2
<1>6. DialogIsTrue'
  BY <1>1, <1>3, <1>5 DEF IncidentInv, DialogIsTrue, TrueOrMadeUp
<1>7. /\ job' \in [Slots -> IncidentHandlers] /\ HandlersCarryTruth' /\ FlagsGuard'
      /\ dialog'.busy => \E s \in Slots : Acts(job'[s])
      /\ dialog'.closing => \E s \in Slots : Closes(job'[s])
  BY <1>1, <1>3, <1>5, IncidentHandlersStay
<1>8. \A q \in reads' : q \in reads \/ q = I!TabRead(dialog'.shown)
  BY <1>1, <1>3, <1>5
<1>9. \A q \in reads' : q.by = "handler" => HandlerListing(q)'
  BY <1>1, <1>3, <1>4, <1>5, <1>8, HandlerListingsStay
<1>10. /\ page.loading => \E q \in reads' : q.by = "page"
       /\ dialog'.tabLoading => \E q \in reads' : q.by = "tab"
  BY <1>1, <1>4, <1>5 DEF IncidentInv, I!BusyMeansWorking
<1>11. faults' \in 0 .. MaxFaults
  BY <1>1 DEF I!TypeOK
<1> QED
  BY <1>1, <1>3, <1>5, <1>6, <1>7, <1>8, <1>9, <1>10, <1>11, IncidentDialogKeeps

\* The dialog when handler s ends: the flag of the handler is lowered.
Lowered(s) == IF job[s].live THEN I!Done(dialog, job[s].op) ELSE dialog

\* Handler s of the dialog has ended and left the dialog as e.
DialogHandlerEnded(s, e) ==
    /\ e \in I!Dialogs /\ e.sel = dialog.sel
    /\ e.shown = dialog.shown
    /\ e.status = dialog.status /\ e.facts = dialog.facts
    /\ e.moved = dialog.moved
    /\ e.closeOpen = dialog.closeOpen /\ e.tabLoading = dialog.tabLoading
    /\ e.closeOpen => ~e.busy
    /\ \A t \in Slots \ {s} : job'[t] = job[t]
    /\ job' \in [Slots -> IncidentHandlers] /\ HandlersCarryTruth'
    /\ \A t \in Slots : Acts(job'[t]) =>
         e.busy /\ \A u \in Slots : Acts(job'[u]) => u = t
    /\ \A t \in Slots : Closes(job'[t]) =>
         /\ e.closing /\ \A u \in Slots : Closes(job'[u]) => u = t
         /\ job'[t].stage # "fetching" => e.closeOpen
    /\ e.busy => \E t \in Slots : Acts(job'[t])
    /\ e.closing => \E t \in Slots : Closes(job'[t])

LEMMA DialogHandlerEnds ==
    ASSUME IncidentInv, UNCHANGED hist, NEW s \in Slots, job[s] # I!Idle,
           job[s].op \in I!DialogOps, job' = [job EXCEPT ![s] = I!Idle]
    PROVE  DialogHandlerEnded(s, Lowered(s))
<1> DEFINE d == Lowered(s)
<1>1. /\ I!TypeOK /\ dialog \in I!Dialogs /\ job[s].live \in BOOLEAN
      /\ dialog.closeOpen => ~dialog.busy
  BY IncidentTypes, IncidentHandler DEF IncidentInv, DialogIsTrue
<1>2. /\ job' \in [Slots -> IncidentHandlers] /\ \A t \in Slots \ {s} : job'[t] = job[t]
      /\ job'[s] = I!Idle
  BY <1>1, IncidentEnded
<1>3. HandlersCarryTruth'
  BY <1>2 DEF IncidentInv, HandlersCarryTruth, TrueOrMadeUp
<1>4. /\ dialog.busy => \E t \in Slots : Acts(job[t])
      /\ dialog.closing => \E t \in Slots : Closes(job[t])
  BY DEF IncidentInv, I!BusyMeansWorking, Acts, Closes
<1>5. ~Acts(job'[s]) /\ ~Closes(job'[s])
  BY <1>2 DEF Acts, Closes
<1>6. CASE ~job[s].live
  <2>1. d = dialog /\ ~Acts(job[s]) /\ ~Closes(job[s])
    BY <1>6 DEF Acts, Closes, Lowered
  <2> QED
    BY <1>1, <1>2, <1>3, <1>4, <1>5, <2>1 DEF IncidentInv, FlagsGuard, DialogHandlerEnded
<1>7. CASE job[s].live /\ job[s].op = "close"
  <2>1. d = [dialog EXCEPT !.closing = FALSE] /\ ~Acts(job[s]) /\ Closes(job[s])
    BY <1>7 DEF Acts, Closes, I!Done, Lowered
  <2>2. /\ d \in I!Dialogs /\ d.sel = dialog.sel /\ d.shown = dialog.shown
        /\ d.status = dialog.status /\ d.facts = dialog.facts /\ d.moved = dialog.moved
        /\ d.closeOpen = dialog.closeOpen /\ d.tabLoading = dialog.tabLoading
        /\ d.busy = dialog.busy /\ ~d.closing
    BY <1>1, <2>1 DEF I!Dialogs
  <2>3. \A t \in Slots : ~Closes(job'[t])
    BY <1>2, <1>5, <2>1 DEF IncidentInv, FlagsGuard
  <2> QED
    BY <1>1, <1>2, <1>3, <1>4, <1>5, <2>1, <2>2, <2>3
       DEF IncidentInv, FlagsGuard, DialogHandlerEnded
<1>8. CASE job[s].live /\ job[s].op # "close"
  <2>1. d = [dialog EXCEPT !.busy = FALSE] /\ Acts(job[s]) /\ ~Closes(job[s])
    BY <1>8 DEF Acts, Closes, I!Done, Lowered
  <2>2. /\ d \in I!Dialogs /\ d.sel = dialog.sel /\ d.shown = dialog.shown
        /\ d.status = dialog.status /\ d.facts = dialog.facts /\ d.moved = dialog.moved
        /\ d.closeOpen = dialog.closeOpen /\ d.tabLoading = dialog.tabLoading
        /\ ~d.busy /\ d.closing = dialog.closing
    BY <1>1, <2>1 DEF I!Dialogs
  <2>3. \A t \in Slots : ~Acts(job'[t])
    BY <1>2, <1>5, <2>1 DEF IncidentInv, FlagsGuard
  <2> QED
    BY <1>1, <1>2, <1>3, <1>4, <1>5, <2>1, <2>2, <2>3
       DEF IncidentInv, FlagsGuard, DialogHandlerEnded
<1> QED
  BY <1>6, <1>7, <1>8

LEMMA DialogRefusedKeeps ==
    ASSUME IncidentInv, NEW s \in Slots, I!DialogRefused(s), UNCHANGED asked
    PROVE  IncidentInv'
<1>1. /\ I!TypeOK /\ page \in IncidentPages /\ UNCHANGED <<srv, hist, page, reads, faults>>
      /\ job[s] # I!Idle /\ job[s].op \in I!DialogOps /\ job[s].stage = "err"
      /\ job' = [job EXCEPT ![s] = I!Idle]
      /\ dialog' = Lowered(s)
  BY IncidentTypes DEF IncidentInv, I!DialogRefused, I!Answered, Lowered
<1>2. /\ dialog' \in I!Dialogs /\ dialog'.sel = dialog.sel /\ dialog'.shown = dialog.shown
      /\ dialog'.status = dialog.status /\ dialog'.facts = dialog.facts
      /\ dialog'.moved = dialog.moved
      /\ dialog'.closeOpen = dialog.closeOpen /\ dialog'.tabLoading = dialog.tabLoading
      /\ dialog'.closeOpen => ~dialog'.busy
      /\ \A t \in Slots \ {s} : job'[t] = job[t]
      /\ job' \in [Slots -> IncidentHandlers] /\ HandlersCarryTruth'
      /\ \A t \in Slots : Acts(job'[t]) =>
           dialog'.busy /\ \A u \in Slots : Acts(job'[u]) => u = t
      /\ \A t \in Slots : Closes(job'[t]) =>
           /\ dialog'.closing /\ \A u \in Slots : Closes(job'[u]) => u = t
           /\ job'[t].stage # "fetching" => dialog'.closeOpen
      /\ dialog'.busy => \E t \in Slots : Acts(job'[t])
      /\ dialog'.closing => \E t \in Slots : Closes(job'[t])
  <2>1. DialogHandlerEnded(s, dialog')
    BY <1>1, DialogHandlerEnds
  <2> QED
    BY <2>1 DEF DialogHandlerEnded
<1>3. FlagsGuard'
  BY <1>2 DEF FlagsGuard
<1>4. DialogIsTrue'
  <2>1. CASE dialog.sel = I!None
    <3>1. dialog = I!NoDialog /\ \A t \in Slots : ~Acts(job[t]) /\ ~Closes(job[t])
      BY <2>1, IncidentNoDialog DEF IncidentInv, DialogIsTrue, FlagsGuard
    <3>2. ~job[s].live
      BY <1>1, <3>1 DEF Acts, Closes
    <3>3. dialog' = dialog
      BY <1>1, <3>2 DEF Lowered
    <3> QED
      BY <1>1, <3>3 DEF IncidentInv, DialogIsTrue, TrueOrMadeUp
  <2>2. CASE dialog.sel # I!None
    BY <1>1, <1>2, <2>2 DEF IncidentInv, DialogIsTrue, TrueOrMadeUp
  <2> QED
    BY <2>1, <2>2
<1>5. \A t \in Slots : job[t] # I!Idle /\ job[t].op \in I!PageOps => job'[t] = job[t]
  BY <1>1, <1>2 DEF I!PageOps, I!DialogOps
<1>6. \A q \in reads' : q.by = "handler" => HandlerListing(q)'
  <2> SUFFICES ASSUME NEW q \in reads, q.by = "handler" PROVE HandlerListing(q)'
    BY <1>1
  <2>1. q.slot \in Slots \ {s}
    BY <1>1 DEF IncidentInv, ListingsFit, HandlerListing
  <2> QED
    BY <1>1, <1>2, <2>1, HandlerListingsStay
<1>7. /\ page'.loading => \E q \in reads' : q.by = "page"
      /\ dialog'.tabLoading => \E q \in reads' : q.by = "tab"
      /\ faults' \in 0 .. MaxFaults
  BY <1>1, <1>2 DEF IncidentInv, I!BusyMeansWorking, I!TypeOK
<1> QED
  BY <1>1, <1>2, <1>3, <1>4, <1>5, <1>6, <1>7, IncidentDialogKeeps

LEMMA DialogFetchedKeeps ==
    ASSUME IncidentInv, NEW r \in reads, I!DialogFetched(r), UNCHANGED asked
    PROVE  IncidentInv'
<1> DEFINE s == r.slot
           i == r.of
           d == Lowered(s)
<1>1. /\ I!TypeOK /\ page \in IncidentPages /\ r.by = "handler" /\ job[s].op \in I!DialogOps
      /\ job' = [job EXCEPT ![s] = I!Idle] /\ UNCHANGED <<srv, hist, page>>
  BY IncidentTypes DEF IncidentInv, I!DialogFetched
<1>2. /\ s \in Slots /\ job[s] # I!Idle /\ job[s].live /\ DetailList(r)
      /\ \A q \in reads : q.by = "handler" /\ q.slot = s => q = r
  BY <1>1 DEF IncidentInv, ListingsFit, HandlerListing
<1>3. i \in Incidents /\ TrueOrMadeUp(i, r.list[i])
  BY <1>2 DEF DetailList, TrueOrMadeUp
<1>4. d = I!Done(dialog, job[s].op)
  BY <1>2 DEF Lowered
<1>5. \/ /\ dialog' = I!Turn(d, i, r.list[i])
         /\ reads' = (reads \ {r}) \cup I!TurnReads(d, i, r.list[i])
      \/ dialog' = d /\ reads' = reads \ {r}
  BY <1>4 DEF I!DialogFetched
<1>6. faults' \in 0 .. MaxFaults
  BY <1>1, IncidentFaults DEF I!DialogFetched
<1>7. dialog.sel # I!None
  <2>1. Acts(job[s]) \/ Closes(job[s])
    BY <1>1, <1>2 DEF Acts, Closes
  <2>2. dialog.busy \/ dialog.closing
    BY <1>2, <2>1 DEF IncidentInv, FlagsGuard
  <2> QED
    BY <2>2, IncidentNoDialog DEF IncidentInv, DialogIsTrue
<1>8. /\ d \in I!Dialogs /\ d.sel = dialog.sel /\ d.shown = dialog.shown
      /\ d.status = dialog.status /\ d.facts = dialog.facts /\ d.moved = dialog.moved
      /\ d.closeOpen = dialog.closeOpen /\ d.tabLoading = dialog.tabLoading
      /\ d.closeOpen => ~d.busy
      /\ \A t \in Slots \ {s} : job'[t] = job[t]
      /\ job' \in [Slots -> IncidentHandlers] /\ HandlersCarryTruth'
      /\ \A t \in Slots : Acts(job'[t]) => d.busy /\ \A u \in Slots : Acts(job'[u]) => u = t
      /\ \A t \in Slots : Closes(job'[t]) =>
           /\ d.closing /\ \A u \in Slots : Closes(job'[u]) => u = t
           /\ job'[t].stage # "fetching" => d.closeOpen
      /\ d.busy => \E t \in Slots : Acts(job'[t])
      /\ d.closing => \E t \in Slots : Closes(job'[t])
  <2>1. DialogHandlerEnded(s, d)
    BY <1>1, <1>2, DialogHandlerEnds
  <2> QED
    BY <2>1 DEF DialogHandlerEnded
<1> HIDE DEF d, s, i
<1>9. /\ dialog' \in I!Dialogs /\ DialogIsTrue' /\ dialog'.sel # I!None
      /\ dialog'.busy = d.busy /\ dialog'.closing = d.closing
      /\ dialog'.closeOpen = d.closeOpen
      /\ dialog.moved => dialog'.moved
      /\ dialog'.moved \/ dialog'.shown = dialog.shown
      /\ \A q \in reads \ {r} : q \in reads'
      /\ \A q \in reads' : q \in reads \ {r} \/ q = I!TabRead(dialog'.shown)
      /\ dialog'.tabLoading => dialog.tabLoading \/ I!TabRead(dialog'.shown) \in reads'
  <2>1. CASE dialog' = d /\ reads' = reads \ {r}
    BY <1>1, <1>7, <1>8, <2>1 DEF IncidentInv, DialogIsTrue, TrueOrMadeUp
  <2>2. CASE /\ dialog' = I!Turn(d, i, r.list[i])
             /\ reads' = (reads \ {r}) \cup I!TurnReads(d, i, r.list[i])
    <3>1. PICK st \in I!Status : st = r.list[i]
      BY <1>3, IncidentTrueStatus
    <3>2. /\ dialog' = I!Turn(d, i, st) /\ TrueOrMadeUp(i, st)
          /\ reads' = (reads \ {r}) \cup I!TurnReads(d, i, st)
      BY <1>3, <2>2, <3>1
    <3>3. /\ dialog' \in I!Dialogs /\ DialogIsTrue' /\ dialog'.sel # I!None
          /\ dialog'.shown = i /\ dialog'.busy = d.busy /\ dialog'.closing = d.closing
          /\ dialog'.closeOpen = d.closeOpen
          /\ dialog.moved => dialog'.moved
          /\ dialog'.moved \/ dialog'.shown = dialog.shown
          /\ I!TurnReads(d, i, st) \subseteq {I!TabRead(i)}
          /\ dialog'.tabLoading =>
               d.tabLoading \/ I!TabRead(i) \in I!TurnReads(d, i, st)
      BY <1>1, <1>3, <1>7, <1>8, <3>2, IncidentTurned
    <3> QED
      BY <1>8, <3>2, <3>3
  <2> QED
    BY <1>5, <2>1, <2>2
<1>10. FlagsGuard'
  BY <1>8, <1>9 DEF FlagsGuard
<1>11. I!TabRead(dialog'.shown).by = "tab"
  BY <1>9, IncidentReads DEF DialogIsTrue
<1>12. \A t \in Slots : job[t] # I!Idle /\ job[t].op \in I!PageOps => job'[t] = job[t]
  BY <1>1, <1>8 DEF I!PageOps, I!DialogOps
<1>13. \A q \in reads' : q.by = "handler" => HandlerListing(q)'
  <2> SUFFICES ASSUME NEW q \in reads', q.by = "handler" PROVE HandlerListing(q)'
    OBVIOUS
  <2>1. q \in reads \ {r}
    BY <1>9, <1>11
  <2>2. q.slot \in Slots \ {s}
    BY <1>2, <2>1 DEF IncidentInv, ListingsFit, HandlerListing
  <2>3. \A p \in reads' : p.by = "handler" => p \in reads
    BY <1>9, <1>11
  <2> QED
    BY <1>1, <1>8, <2>1, <2>2, <2>3, HandlerListingsStay
<1>14. /\ page'.loading => \E q \in reads' : q.by = "page"
       /\ dialog'.tabLoading => \E q \in reads' : q.by = "tab"
  <2>1. \A q \in reads : q.by # "handler" => q \in reads'
    BY <1>1, <1>9
  <2>2. /\ page.loading => \E q \in reads : q.by = "page"
        /\ dialog.tabLoading => \E q \in reads : q.by = "tab"
    BY DEF IncidentInv, I!BusyMeansWorking
  <2> QED
    BY <1>1, <1>9, <1>11, <2>1, <2>2
<1> QED
  BY <1>1, <1>6, <1>8, <1>9, <1>10, <1>12, <1>13, <1>14, IncidentDialogKeeps

\* The listing a handler of the dialog asks for.
LEMMA IncidentHandlerRead ==
    ASSUME IncidentInv, NEW s \in Slots, NEW i \in Incidents
    PROVE  LET h == I!DetailRead("handler", i, s)
           IN  h \in I!Reads /\ h.by = "handler" /\ h.slot = s /\ DetailList(h)
<1>1. srv \in [Incidents -> I!Status] /\ srv[i] \in hist.had[i]
  BY IncidentTypes DEF IncidentInv, RowsAreTrue
<1>2. I!Only(i) \in I!Lists /\ I!Only(i)[i] = srv[i]
  BY <1>1 DEF I!Only, I!Lists
<1> HIDE DEF I!Only, I!Lists
<1> DEFINE o == I!Only(i)
<1>3. o \in I!Lists /\ o[i] \in hist.had[i]
  BY <1>1, <1>2
<1>4. I!DetailRead("handler", i, s) = [by |-> "handler", of |-> i, slot |-> s, list |-> o]
  BY DEF I!DetailRead
<1> HIDE DEF o
<1> DEFINE h == [by |-> "handler", of |-> i, slot |-> s, list |-> o]
<1>5. h \in I!Reads /\ h.by = "handler" /\ h.slot = s /\ h.of = i /\ h.list = o
  BY <1>3 DEF I!Reads, I!Ids
<1> HIDE DEF h
<1>6. DetailList(h)
  BY <1>3, <1>5 DEF DetailList
<1> QED
  BY <1>4, <1>5, <1>6 DEF h

LEMMA DialogAnsweredKeeps ==
    ASSUME IncidentInv, NEW s \in Slots, I!DialogAnswered(s), UNCHANGED asked
    PROVE  IncidentInv'
<1>1. /\ I!TypeOK /\ page \in IncidentPages /\ dialog \in I!Dialogs
      /\ UNCHANGED <<srv, hist, faults>>
      /\ job[s] # I!Idle /\ job[s].op \in I!DialogOps /\ job[s].stage = "ok"
      /\ job[s].op \notin I!PageOps /\ page' = [page EXCEPT !.loading = TRUE]
  BY IncidentTypes
     DEF IncidentInv, I!DialogAnswered, I!Answered, I!PageOps, I!DialogOps
<1>2. /\ page' \in IncidentPages /\ page'.list = page.list /\ page'.busy = page.busy
  BY <1>1 DEF IncidentPages
<1>3. I!PageRead \in reads' /\ I!PageRead.by = "page" /\ \A q \in reads : q \in reads'
  BY IncidentPageRead DEF I!DialogAnswered
<1>4. faults' \in 0 .. MaxFaults /\ job[s].on \in Incidents /\ job[s].live \in BOOLEAN
  BY <1>1, IncidentTypes, IncidentHandler DEF I!TypeOK
<1>5. \A q \in reads : q.by = "handler" => q.slot \in Slots \ {s}
  BY <1>1 DEF IncidentInv, ListingsFit, HandlerListing
<1>6. CASE ~job[s].live
  <2>1. /\ job' = [job EXCEPT ![s] = I!Idle] /\ reads' = reads \cup {I!PageRead}
        /\ UNCHANGED dialog
    BY <1>6 DEF I!DialogAnswered
  <2>2. /\ job' \in [Slots -> IncidentHandlers] /\ \A t \in Slots \ {s} : job'[t] = job[t]
        /\ job'[s] = I!Idle
    BY <1>1, <2>1, IncidentEnded
  <2>3. HandlersCarryTruth' /\ DialogIsTrue'
    BY <1>1, <2>1, <2>2
       DEF IncidentInv, HandlersCarryTruth, DialogIsTrue, TrueOrMadeUp
  <2>4. \A t \in Slots : /\ Acts(job'[t]) <=> Acts(job[t])
                         /\ Closes(job'[t]) <=> Closes(job[t])
                         /\ Closes(job[t]) => job'[t].stage = job[t].stage
    BY <1>6, <2>2 DEF Acts, Closes
  <2>5. FlagsGuard'
    BY <2>1, <2>4 DEF IncidentInv, FlagsGuard
  <2>6. \A q \in reads' : q.by = "handler" => HandlerListing(q)'
    BY <1>1, <1>3, <1>5, <2>1, <2>2, HandlerListingsStay
  <2>7. /\ dialog'.busy => \E t \in Slots : Acts(job'[t])
        /\ dialog'.closing => \E t \in Slots : Closes(job'[t])
    BY <2>1, <2>4 DEF IncidentInv, I!BusyMeansWorking, Acts, Closes
  <2>8. dialog'.tabLoading => \E q \in reads' : q.by = "tab"
    BY <1>3, <2>1 DEF IncidentInv, I!BusyMeansWorking
  <2> QED
    BY <1>1, <1>2, <1>3, <1>4, <2>1, <2>2, <2>3, <2>5, <2>6, <2>7, <2>8, IncidentDialogKeeps
<1>7. CASE job[s].live
  <2> DEFINE h == I!DetailRead("handler", job[s].on, s)
  <2>1. /\ I!Step(s, "fetching") /\ reads' = reads \cup {I!PageRead, h}
        /\ dialog' = IF job[s].op = "close" THEN [dialog EXCEPT !.closeOpen = FALSE] ELSE dialog
    BY <1>7 DEF I!DialogAnswered
  <2>2. /\ job' \in [Slots -> IncidentHandlers] /\ \A t \in Slots \ {s} : job'[t] = job[t]
        /\ job'[s] # I!Idle /\ job'[s].op = job[s].op /\ job'[s].on = job[s].on
        /\ job'[s].arg = job[s].arg /\ job'[s].live = job[s].live
        /\ job'[s].stage = "fetching"
    BY <1>1, <2>1, IncidentStepped
  <2>3. h \in I!Reads /\ h.by = "handler" /\ h.slot = s /\ DetailList(h)
    BY <1>4, IncidentHandlerRead
  <2> HIDE DEF h
  <2>4. /\ dialog' \in I!Dialogs /\ dialog'.sel = dialog.sel /\ dialog'.shown = dialog.shown
        /\ dialog'.status = dialog.status /\ dialog'.facts = dialog.facts
        /\ dialog'.moved = dialog.moved /\ dialog'.tabLoading = dialog.tabLoading
        /\ dialog'.busy = dialog.busy /\ dialog'.closing = dialog.closing
    BY <1>1, <2>1 DEF I!Dialogs
  <2>5. /\ dialog'.closeOpen => dialog.closeOpen
        /\ job[s].op # "close" => dialog' = dialog
    BY <1>1, <2>1 DEF I!Dialogs
  <2>6. dialog.sel # I!None
    <3>1. Acts(job[s]) \/ Closes(job[s])
      BY <1>1, <1>7 DEF Acts, Closes
    <3>2. dialog.busy \/ dialog.closing
      BY <3>1 DEF IncidentInv, FlagsGuard
    <3> QED
      BY <3>2, IncidentNoDialog DEF IncidentInv, DialogIsTrue
  <2>7. HandlersCarryTruth'
    BY <1>1, <2>2 DEF IncidentInv, HandlersCarryTruth, TrueOrMadeUp
  <2>8. DialogIsTrue'
    BY <1>1, <2>4, <2>5, <2>6 DEF IncidentInv, DialogIsTrue, TrueOrMadeUp
  <2>9. \A t \in Slots : /\ Acts(job'[t]) <=> Acts(job[t])
                         /\ Closes(job'[t]) <=> Closes(job[t])
    <3> SUFFICES ASSUME NEW t \in Slots
                 PROVE  /\ Acts(job'[t]) <=> Acts(job[t])
                        /\ Closes(job'[t]) <=> Closes(job[t])
      OBVIOUS
    <3>1. CASE t = s
      BY <1>1, <1>7, <2>2, <3>1 DEF Acts, Closes
    <3>2. CASE t # s
      BY <2>2, <3>2
    <3> QED
      BY <3>1, <3>2
  <2>10. FlagsGuard'
    <3>1. ASSUME NEW t \in Slots, Closes(job'[t]), job'[t].stage # "fetching"
          PROVE  dialog'.closeOpen
      <4>1. t # s /\ job'[t] = job[t]
        BY <2>2, <3>1
      <4>2. dialog.closeOpen /\ \A u \in Slots : Closes(job[u]) => u = t
        BY <3>1, <4>1 DEF IncidentInv, FlagsGuard
      <4>3. job[s].op # "close"
        BY <1>1, <1>7, <4>1, <4>2 DEF Closes
      <4> QED
        BY <2>5, <4>2, <4>3
    <3> QED
      BY <2>4, <2>9, <3>1 DEF IncidentInv, FlagsGuard
  <2>11. /\ dialog'.busy => \E t \in Slots : Acts(job'[t])
         /\ dialog'.closing => \E t \in Slots : Closes(job'[t])
    <3>1. /\ dialog.busy => \E t \in Slots : Acts(job[t])
          /\ dialog.closing => \E t \in Slots : Closes(job[t])
      BY DEF IncidentInv, I!BusyMeansWorking, Acts, Closes
    <3> QED
      BY <2>4, <2>9, <3>1
  <2>12. \A q \in reads' : q.by = "handler" => HandlerListing(q)'
    <3>1. ASSUME NEW q \in reads, q.by = "handler" PROVE HandlerListing(q)'
      <4>1. \A p \in reads' : p.by = "handler" /\ p.slot = q.slot => p \in reads
        BY <1>3, <1>5, <2>1, <2>3, <3>1
      <4> QED
        BY <1>1, <1>5, <2>2, <3>1, <4>1, HandlerListingsStay
    <3>2. ASSUME NEW q, q = h PROVE HandlerListing(q)'
      <4>1. \A p \in reads' : p.by = "handler" /\ p.slot = s => p = q
        BY <1>3, <1>5, <2>1, <3>2
      <4>2. DetailList(q)'
        BY <1>1, <2>3, <3>2 DEF DetailList
      <4> QED
        BY <1>1, <1>7, <2>2, <2>3, <3>2, <4>1, <4>2 DEF HandlerListing
    <3> QED
      BY <1>3, <2>1, <3>1, <3>2
  <2>13. dialog'.tabLoading => \E q \in reads' : q.by = "tab"
    BY <1>3, <2>4 DEF IncidentInv, I!BusyMeansWorking
  <2>14. \A t \in Slots : job[t] # I!Idle /\ job[t].op \in I!PageOps => job'[t] = job[t]
    BY <1>1, <2>2
  <2> QED
    BY <1>1, <1>2, <1>3, <1>4, <2>1, <2>2, <2>3, <2>4, <2>6, <2>7, <2>8, <2>10, <2>11, <2>12,
       <2>13, <2>14, IncidentDialogKeeps
<1> QED
  BY <1>4, <1>6, <1>7

\* The dialog is unmounted: none of its handlers is on the screen any more.
LEMMA CloseWindowKeeps ==
    ASSUME IncidentInv, I!CloseWindow, UNCHANGED asked
    PROVE  IncidentInv'
<1> DEFINE After(j) == IF j = I!Idle \/ j.op \in I!PageOps THEN j
                       ELSE IF j.stage = "fetching" THEN I!Idle
                       ELSE [j EXCEPT !.live = FALSE]
<1>1. /\ I!TypeOK /\ page \in IncidentPages /\ job \in [Slots -> IncidentHandlers]
      /\ UNCHANGED <<srv, hist, page, faults>>
      /\ dialog' = I!NoDialog /\ reads' = {r \in reads : ~I!OfDialog(r)}
      /\ job' = [s \in Slots |-> After(job[s])]
  BY IncidentTypes DEF IncidentInv, I!CloseWindow
<1>2. ASSUME NEW s \in Slots
      PROVE  /\ job'[s] \in IncidentHandlers
             /\ job[s] # I!Idle /\ job[s].op \in I!PageOps => job'[s] = job[s]
             /\ job'[s] # I!Idle /\ job'[s] # job[s] =>
                  /\ job[s] # I!Idle /\ job[s].op \notin I!PageOps
                  /\ job'[s].op = job[s].op /\ job'[s].arg = job[s].arg
                  /\ job'[s].stage = job[s].stage /\ ~job'[s].live
             /\ job'[s] # I!Idle => job'[s].op \in I!PageOps \/ ~job'[s].live
  <2>1. job'[s] = After(job[s])
    BY <1>1
  <2>2. CASE job[s] = I!Idle \/ job[s].op \in I!PageOps
    BY <1>1, <2>1, <2>2
  <2>3. CASE ~(job[s] = I!Idle \/ job[s].op \in I!PageOps) /\ job[s].stage = "fetching"
    BY <2>1, <2>3 DEF IncidentHandlers
  <2>4. CASE ~(job[s] = I!Idle \/ job[s].op \in I!PageOps) /\ job[s].stage # "fetching"
    <3> DEFINE j == job[s]
               k == [j EXCEPT !.live = FALSE]
    <3>1. j \in I!Jobs
      BY <1>1, <2>4, IncidentHandler
    <3>2. k \in I!Jobs
      BY <3>1 DEF I!Jobs
    <3>3. k.op = j.op /\ k.arg = j.arg /\ k.stage = j.stage /\ ~k.live
      BY <3>1 DEF I!Jobs
    <3>4. job'[s] = k
      BY <2>1, <2>4
    <3> HIDE DEF k
    <3>5. k \in IncidentHandlers /\ k # I!Idle
      BY <3>2, IncidentJobsRun
    <3> QED
      BY <2>4, <3>3, <3>4, <3>5
  <2> QED
    BY <2>2, <2>3, <2>4
<1>3. job' \in [Slots -> IncidentHandlers]
  <2>1. job' = [s \in Slots |-> job'[s]]
    BY <1>1
  <2> QED
    BY <1>2, <2>1
<1> HIDE DEF After
<1>4. I!TypeOK'
  BY <1>1, <1>3, IncidentNoDialog DEF I!TypeOK, IncidentHandlers
<1>5. HandlersCarryTruth'
  <2> SUFFICES ASSUME NEW s \in Slots, job'[s] # I!Idle
               PROVE  /\ job'[s].op \in Sets => job'[s].arg \in I!Status
                      /\ job'[s].op \in I!PageOps /\ job'[s].stage = "ok" =>
                           TrueOrMadeUp(job[s].on, job[s].arg)'
                      /\ job'[s].stage = "acting" => job'[s].op \in I!DialogOps
    BY DEF HandlersCarryTruth
  <2> QED
    BY <1>1, <1>2 DEF IncidentInv, HandlersCarryTruth, TrueOrMadeUp
<1>6. RowsAreTrue' /\ DialogIsTrue'
  BY <1>1, IncidentNoDialog DEF IncidentInv, RowsAreTrue, DialogIsTrue, TrueOrMadeUp
<1>7. ListingsFit'
  <2> SUFFICES ASSUME NEW r \in reads'
               PROVE  /\ r.by = "page" => WholeList(r)'
                      /\ r.by \notin {"detail", "tab"}
                      /\ r.by = "handler" => HandlerListing(r)'
    BY DEF ListingsFit
  <2>1. r \in reads /\ r.by \notin {"detail", "tab"}
    BY <1>1 DEF I!OfDialog
  <2>2. r.by = "page" => WholeList(r)'
    BY <1>1, <2>1 DEF IncidentInv, ListingsFit, WholeList
  <2>3. ASSUME r.by = "handler" PROVE HandlerListing(r)'
    <3>1. r.slot \in Slots /\ job[r.slot] # I!Idle
      BY <2>1, <2>3 DEF IncidentInv, ListingsFit, HandlerListing
    <3>2. job[r.slot].op \in I!PageOps
      BY <1>1, <2>1, <2>3, <3>1, IncidentHandler DEF I!OfDialog
    <3> QED
      BY <1>1, <1>2, <2>1, <2>3, <3>1, <3>2, HandlerListingsStay
  <2> QED
    BY <2>1, <2>2, <2>3
<1>8. FlagsGuard'
  <2>1. \A s \in Slots : ~Acts(job'[s]) /\ ~Closes(job'[s])
    BY <1>2 DEF Acts, Closes, I!PageOps, I!DialogOps
  <2> QED
    BY <2>1 DEF FlagsGuard
<1>9. I!BusyMeansWorking'
  <2>1. \A r \in reads : r.by = "page" => r \in reads'
    BY <1>1 DEF I!OfDialog
  <2> QED
    BY <1>1, <1>2, <2>1, IncidentNoDialog DEF IncidentInv, I!BusyMeansWorking
<1>10. I!KillNamesOwnProcess'
  BY <1>1 DEF IncidentInv, I!KillNamesOwnProcess
<1> QED
  BY <1>4, <1>5, <1>6, <1>7, <1>8, <1>9, <1>10 DEF IncidentInv

-----------------------------------------------------------------------------
(* The incidents' invariant *)

LEMMA IncidentInit ==
    ASSUME I!Init PROVE IncidentInv
<1> DEFINE empty == [i \in Incidents |-> I!Absent]
<1>1. /\ srv = [i \in Incidents |-> "open"]
      /\ hist = [had |-> [i \in Incidents |-> {"open"}], madeUp |-> {}, kills |-> {}]
      /\ page = [list |-> empty, loading |-> TRUE, busy |-> FALSE, assign |-> I!None]
      /\ dialog = I!NoDialog /\ job = [s \in Slots |-> I!Idle] /\ reads = {I!PageRead}
      /\ asked = 0 /\ faults = 0
  BY DEF I!Init
<1>2. /\ srv \in [Incidents -> I!Status] /\ srv \in I!Lists /\ empty \in I!Lists
      /\ \A i \in Incidents : srv[i] \in hist.had[i] /\ empty[i] = I!Absent
  BY <1>1 DEF I!Status, I!Lists
<1> HIDE DEF empty
<1>3. I!PageRead \in I!Reads /\ I!PageRead.by = "page" /\ WholeList(I!PageRead)
  BY <1>2 DEF I!PageRead, I!Reads, WholeList, I!Ids
<1>4. I!TypeOK
  <2>1. hist \in IncidentHistories
    BY <1>1 DEF IncidentHistories, I!Status
  <2>2. page \in IncidentPages
    BY <1>1, <1>2 DEF IncidentPages, I!Ids
  <2>3. asked \in 0 .. MaxIncidentRequests /\ faults \in 0 .. MaxFaults
    BY <1>1, BoundsAssumption
  <2> QED
    BY <1>1, <1>2, <1>3, <2>1, <2>2, <2>3, IncidentNoDialog
       DEF I!TypeOK, IncidentHistories, IncidentPages
<1>5. \A s \in Slots : job[s] = I!Idle
  BY <1>1
<1>6. HandlersCarryTruth /\ FlagsGuard
  BY <1>5 DEF HandlersCarryTruth, FlagsGuard, Acts, Closes
<1>7. RowsAreTrue /\ DialogIsTrue
  BY <1>1, <1>2, IncidentNoDialog DEF RowsAreTrue, DialogIsTrue
<1>8. ListingsFit
  BY <1>1, <1>3 DEF ListingsFit
<1>9. I!BusyMeansWorking
  BY <1>1, <1>3, IncidentNoDialog DEF I!BusyMeansWorking
<1>10. I!KillNamesOwnProcess
  BY <1>1 DEF I!KillNamesOwnProcess
<1> QED
  BY <1>4, <1>6, <1>7, <1>8, <1>9, <1>10 DEF IncidentInv

LEMMA IncidentNext ==
    ASSUME IncidentInv, I!Next
    PROVE  IncidentInv'
<1>1. CASE I!Requests /\ asked < MaxIncidentRequests /\ asked' = asked + 1
  <2>1. CASE I!Refresh
    BY <1>1, <2>1, IncidentRefreshKeeps
  <2>2. CASE \E i \in Incidents :
               \/ \E st \in OthersSet : I!Colleague(i, st)
               \/ I!Open(i) \/ I!OpenAssign(i)
               \/ \E s \in Slots, st \in I!Status : I!QuickStatus(s, i, st)
    BY <1>1, <2>2, ColleagueKeepsIncidents, IncidentOpenKeeps, AssignBoxKeeps, QuickStatusKeeps
  <2>3. CASE \E s \in Slots : \/ I!SubmitAssign(s) \/ I!Kill(s) \/ I!ConfirmClose(s)
                              \/ I!Isolate(s) \/ I!Mitigate(s)
                              \/ \E st \in I!Status : I!ChangeStatus(s, st)
    BY <1>1, <2>3, SubmitAssignKeeps, IncidentKillKeeps, IncidentConfirmCloseKeeps,
       MitigateKeeps, ChangeStatusKeeps
  <2> QED
    BY <1>1, <2>1, <2>2, <2>3 DEF I!Requests
<1>2. CASE I!Clicks /\ UNCHANGED asked
  BY <1>2, AssignBoxKeeps, CloseWindowKeeps, CloseBoxKeeps, IncidentSwitchTabKeeps DEF I!Clicks
<1>3. CASE I!Answers /\ UNCHANGED asked
  <2>1. CASE \E s \in Slots : \/ I!ServeStatus(s) \/ I!ServeClose(s) \/ I!ServeIsolate(s)
                              \/ I!ContainIsolated(s) \/ I!ServeOther(s)
                              \/ I!StatusAnswered(s) \/ I!DialogRefused(s)
                              \/ I!DialogAnswered(s)
    BY <1>3, <2>1, ServeStatusKeeps, ServeCloseKeeps, ServeMitigationKeeps,
       ContainIsolatedKeeps, StatusAnsweredKeeps, DialogRefusedKeeps, DialogAnsweredKeeps
  <2>2. CASE \E r \in reads : \/ I!PageLoaded(r) \/ I!StatusFetched(r) \/ I!DetailArrives(r)
                              \/ I!TabArrives(r) \/ I!DialogFetched(r)
    BY <1>3, <2>2, PageOfIncidentsLoadedKeeps, StatusFetchedKeeps, IncidentDetailArrivesKeeps,
       IncidentTabArrivesKeeps, DialogFetchedKeeps
  <2> QED
    BY <1>3, <2>1, <2>2 DEF I!Answers
<1> QED
  BY <1>1, <1>2, <1>3 DEF I!Next

LEMMA IncidentStutter ==
    ASSUME IncidentInv, UNCHANGED vars
    PROVE  IncidentInv'
BY DEF vars, IncidentInv, I!TypeOK, HandlersCarryTruth, RowsAreTrue, DialogIsTrue, ListingsFit,
       FlagsGuard, I!BusyMeansWorking, I!KillNamesOwnProcess, TrueOrMadeUp, WholeList,
       DetailList, HandlerListing, Acts, Closes

LEMMA IncidentProperties ==
    ASSUME IncidentInv
    PROVE  /\ I!TypeOK /\ I!BusyMeansWorking /\ I!KillNamesOwnProcess
           /\ I!ShownWasTrueOrMadeUp /\ I!OneWriteAtATime
<1>1. I!TypeOK /\ I!BusyMeansWorking /\ I!KillNamesOwnProcess
  BY DEF IncidentInv
<1>2. I!ShownWasTrueOrMadeUp
  <2>1. dialog.shown # I!None => dialog.sel # I!None
    BY IncidentNoDialog DEF IncidentInv, DialogIsTrue
  <2> QED
    BY <2>1 DEF IncidentInv, DialogIsTrue, RowsAreTrue, TrueOrMadeUp, I!ShownWasTrueOrMadeUp
<1>3. I!OneWriteAtATime
  <2> DEFINE W == {s \in Slots : /\ job[s] # I!Idle /\ job[s].live /\ job[s].op \in I!DialogOps
                                 /\ job[s].stage \in {"sent", "acting"}}
  <2>1. ASSUME NEW s \in W, NEW t \in W PROVE s = t
    <3>1. (Acts(job[s]) \/ Closes(job[s])) /\ (Acts(job[t]) \/ Closes(job[t]))
      BY DEF Acts, Closes
    <3>2. ASSUME NEW u \in W, Closes(job[u]) PROVE ~dialog.busy
      <4>1. dialog.closeOpen
        BY <3>2 DEF IncidentInv, FlagsGuard
      <4> QED
        BY <4>1 DEF IncidentInv, DialogIsTrue
    <3>3. ASSUME NEW u \in W, Acts(job[u]) PROVE dialog.busy
      BY <3>3 DEF IncidentInv, FlagsGuard
    <3>4. CASE Acts(job[s]) /\ Acts(job[t])
      BY <3>4 DEF IncidentInv, FlagsGuard
    <3>5. CASE Closes(job[s]) /\ Closes(job[t])
      BY <3>5 DEF IncidentInv, FlagsGuard
    <3> QED
      BY <3>1, <3>2, <3>3, <3>4, <3>5
  <2> HIDE DEF W
  <2>2. Cardinality(W) <= 1
    <3>1. CASE W = {}
      BY <3>1, FS_EmptySet
    <3>2. CASE W # {}
      <4>1. PICK s : W = {s}
        BY <2>1, <3>2
      <4>2. Cardinality({s}) = 1
        BY FS_Singleton, Zenon
      <4> QED
        BY <4>1, <4>2
    <3> QED
      BY <3>1, <3>2
  <2>3. I!Cardinality(W) = Cardinality(W)
    BY Zenon DEF I!Cardinality, Cardinality
  <2>4. I!OneWriteAtATime <=> I!Cardinality(W) <= 1
    BY DEF W, I!OneWriteAtATime
  <2> HIDE DEF I!Cardinality
  <2> QED
    BY <2>2, <2>3, <2>4
<1> QED
  BY <1>1, <1>2, <1>3

-----------------------------------------------------------------------------
(* The groups *)

\* The types of their state.
GroupServers == [members : [Groups -> SUBSET Hosts], gone : SUBSET Groups,
                 pending : SUBSET Hosts, isolated : SUBSET Hosts]
GroupHistories == [contested : SUBSET Groups,
                   isolations : SUBSET [on : Groups, named : G!GroupIds],
                   undos : SUBSET [on : Groups, of : Groups, moved : BOOLEAN]]
GroupPages == [cards : SUBSET G!Details, loading : BOOLEAN, selected : G!Known]
GroupDialogs == [open : BOOLEAN, shown : G!Known, loading : BOOLEAN, busy : BOOLEAN,
                 confirm : G!Batches \cup {"none"}, named : G!GroupIds, of : G!GroupIds,
                 adding : BOOLEAN, removing : Hosts \cup {G!None}, moved : BOOLEAN]
GroupHandlers == G!Jobs \cup {G!Idle}

\* A handler asks for a group afterwards, but for a deletion, which contests its group; an addition
\* has a host.
GroupHandlersAsk ==
    \A s \in Slots : job[s] # G!Idle =>
      /\ job[s].op = "delete" => job[s].on \in hist.contested
      /\ job[s].op # "delete" => job[s].then \in Groups
      /\ job[s].op = "add" => job[s].host \in Hosts

\* What is read for a handler is all that is read for it.
GroupHandlerRead(r) ==
    /\ r.slot \in Slots /\ job[r.slot] # G!Idle /\ job[r.slot].op # "delete"
    /\ job[r.slot].stage = "fetching"
    /\ \A q \in reads : q.by = "handler" /\ q.slot = r.slot => q = r

\* Requests for one group's details bring that group's.
GroupReadsFit ==
    \A r \in reads :
      /\ r.by # "list" => r.of \in Groups /\ \A c \in r.cards : c.of = r.of
      /\ r.by = "handler" => GroupHandlerRead(r)

\* Unless the dialog may be moved, all that can still come is for the selected group.
GroupStays ==
    /\ G!Visible /\ ~dialog.moved =>
         /\ \A r \in reads : r.by # "list" => r.of = page.selected.of
         /\ \A s \in Slots : job[s] # G!Idle =>
              job[s].op # "delete" /\ job[s].then = page.selected.of
    /\ dialog.open /\ page.selected = G!Nothing => dialog.moved

\* An undo that waits for its confirmation is of the group shown.
GroupUndoAgrees ==
    /\ dialog.confirm # "none" => dialog.open
    /\ dialog.confirm = "undo" => /\ dialog.of \in Groups
                                  /\ dialog.moved \/ dialog.of = G!Current.of

\* Of an uncontested group: its members do not change while they are read, so what is read
\* is what the manager has; what is shown is that too, or is going to be read.
GroupAgrees(g) ==
    /\ \A s \in Slots : job[s] # G!Idle /\ job[s].on = g /\ job[s].stage = "sent" =>
         \A r \in G!Dialogs : r.of # g
    /\ \A r \in G!Dialogs : r.of = g => \A c \in r.cards : c.members = srv.members[g]
    /\ dialog.shown.of = g =>
         \/ dialog.shown.members = srv.members[g]
         \/ \E s \in Slots : job[s] # G!Idle /\ job[s].on = g /\ job[s].stage = "ok"
         \/ \E r \in G!Dialogs : r.of = g
GroupsAgree == \A g \in Groups \ hist.contested : GroupAgrees(g)

\* What the dialog disables is disabled by a handler that will enable it.
GroupFlags ==
    /\ page.loading => \E r \in reads : r.by = "list"
    /\ dialog.loading => G!Dialogs # {}
    /\ dialog.busy => \E s \in Slots : job[s] # G!Idle /\ job[s].op \in G!Batches
    /\ dialog.adding => \E s \in Slots : job[s] # G!Idle /\ job[s].op = "add" /\ job[s].live
    /\ dialog.removing # G!None =>
         \E s \in Slots : job[s] # G!Idle /\ job[s].op = "remove" /\ job[s].live

GroupInv ==
    /\ G!TypeOK /\ GroupHandlersAsk /\ GroupReadsFit /\ GroupStays /\ GroupUndoAgrees
    /\ GroupsAgree /\ GroupFlags /\ G!BatchNamesItsGroup

-----------------------------------------------------------------------------
(* Types of the groups' state *)

LEMMA GroupTypes ==
    ASSUME G!TypeOK
    PROVE  /\ srv \in GroupServers /\ hist \in GroupHistories
           /\ page \in GroupPages /\ dialog \in GroupDialogs
           /\ job \in [Slots -> GroupHandlers] /\ reads \subseteq G!Reads
           /\ asked \in 0 .. MaxRequests /\ faults \in 0 .. MaxFaults
BY DEF G!TypeOK, GroupServers, GroupHistories, GroupPages, GroupDialogs, GroupHandlers

LEMMA GroupTyped ==
    ASSUME srv \in GroupServers, hist \in GroupHistories, page \in GroupPages,
           dialog \in GroupDialogs, job \in [Slots -> GroupHandlers], reads \subseteq G!Reads,
           asked \in 0 .. MaxRequests, faults \in 0 .. MaxFaults
    PROVE  G!TypeOK
BY DEF G!TypeOK, GroupServers, GroupHistories, GroupPages, GroupDialogs, GroupHandlers

LEMMA GroupFaults ==
    ASSUME G!TypeOK, UNCHANGED faults \/ G!Fault
    PROVE  faults' \in 0 .. MaxFaults
BY BoundsAssumption DEF G!TypeOK, G!Fault

LEMMA GroupAsked ==
    ASSUME G!TypeOK, asked < MaxRequests, asked' = asked + 1
    PROVE  asked' \in 0 .. MaxRequests
BY BoundsAssumption DEF G!TypeOK

\* Details are of a group, and not nothing.
LEMMA GroupDetails ==
    /\ \A c \in G!Details : /\ c.of \in Groups /\ c.members \in SUBSET Hosts
                            /\ c.isolated \in SUBSET Hosts /\ c # G!Nothing /\ c \in G!Known
    /\ G!Nothing.of = G!None /\ G!Nothing \in G!Known
    /\ \A c \in G!Known : c # G!Nothing => c \in G!Details
BY GroupAssumption DEF G!Details, G!Nothing, G!Known

LEMMA GroupDetailRead ==
    ASSUME G!TypeOK, NEW by \in {"select", "dialog", "handler"}, NEW g \in Groups,
           NEW s \in Slots \cup {0}
    PROVE  LET r == G!DetailRead(by, g, s)
           IN /\ r \in G!Reads /\ r.by = by /\ r.slot = s /\ r.of = g
              /\ \A c \in r.cards : c.of = g /\ c.members = srv.members[g]
<1> DEFINE r == G!DetailRead(by, g, s)
           cards == IF g \in srv.gone THEN {} ELSE {G!Detail(g)}
<1>1. G!Detail(g) \in G!Details /\ G!Detail(g).of = g /\ G!Detail(g).members = srv.members[g]
  BY DEF G!TypeOK, G!Detail, G!Details
<1>2. cards \in SUBSET G!Details /\ \A c \in cards : c.of = g /\ c.members = srv.members[g]
  BY <1>1
<1>3. r = [by |-> by, slot |-> s, of |-> g, cards |-> cards]
  BY DEF G!DetailRead
<1> HIDE DEF cards, r
<1>4. r \in G!Reads /\ r.by = by /\ r.slot = s /\ r.of = g /\ r.cards = cards
  BY <1>2, <1>3 DEF G!Reads, G!GroupIds
<1> QED
  BY <1>2, <1>4 DEF r

LEMMA GroupListRead ==
    ASSUME G!TypeOK
    PROVE  G!ListRead \in G!Reads /\ G!ListRead.by = "list"
<1> DEFINE cards == {G!Detail(g) : g \in Groups \ srv.gone}
<1>1. cards \in SUBSET G!Details
  BY DEF G!TypeOK, G!Detail, G!Details
<1>2. G!ListRead = [by |-> "list", slot |-> 0, of |-> G!None, cards |-> cards]
  BY DEF G!ListRead
<1> HIDE DEF cards
<1> QED
  BY <1>1, <1>2 DEF G!Reads, G!GroupIds

\* A handler that runs has the fields of one.
LEMMA GroupHandler ==
    ASSUME NEW j \in GroupHandlers, j # G!Idle
    PROVE  /\ j \in G!Jobs /\ j.op \in G!Batches \cup G!MemberOps \cup {"delete"}
           /\ j.on \in Groups /\ j.host \in Hosts \cup {G!None} /\ j.then \in G!GroupIds
           /\ j.live \in BOOLEAN /\ j.left \in SUBSET Hosts
           /\ j.stage \in {"sent", "acting", "acted", "ok", "err", "fetching"}
BY DEF GroupHandlers, G!Jobs

LEMMA GroupJobsRun ==
    ASSUME NEW j \in G!Jobs
    PROVE  j # G!Idle /\ j \in GroupHandlers
BY DEF G!Jobs, G!Idle, G!Batches, G!MemberOps, GroupHandlers

LEMMA GroupStarted ==
    ASSUME G!TypeOK, NEW s \in Slots, NEW op \in G!Batches \cup G!MemberOps \cup {"delete"},
           NEW g \in Groups, NEW h \in Hosts \cup {G!None}, G!Start(s, op, g, h)
    PROVE  /\ job' \in [Slots -> GroupHandlers] /\ \A t \in Slots \ {s} : job'[t] = job[t]
           /\ job[s] = G!Idle /\ job'[s] # G!Idle /\ job'[s].op = op /\ job'[s].on = g
           /\ job'[s].then = page.selected.of /\ job'[s].live /\ job'[s].stage = "sent"
           /\ job'[s].host = h
<1> DEFINE then == page.selected.of
           new == [op |-> op, on |-> g, host |-> h, then |-> then, live |-> TRUE,
                   left |-> {}, stage |-> "sent"]
<1>1. job[s] = G!Idle /\ job' = [job EXCEPT ![s] = new]
  BY DEF G!Start
<1>2. then \in G!GroupIds
  BY GroupTypes, GroupDetails DEF GroupPages, G!GroupIds
<1> HIDE DEF then
<1>3. /\ new \in G!Jobs /\ new.op = op /\ new.on = g /\ new.then = then /\ new.live
      /\ new.stage = "sent" /\ new.host = h
  BY <1>2 DEF G!Jobs
<1> HIDE DEF new
<1>4. new # G!Idle /\ new \in GroupHandlers
  BY <1>3, GroupJobsRun
<1> QED
  BY <1>1, <1>3, <1>4, GroupTypes DEF then

LEMMA GroupStepped ==
    ASSUME G!TypeOK, NEW s \in Slots, job[s] # G!Idle,
           NEW stage \in {"ok", "err", "fetching"}, G!Step(s, stage)
    PROVE  /\ job' \in [Slots -> GroupHandlers] /\ \A t \in Slots \ {s} : job'[t] = job[t]
           /\ job'[s] # G!Idle /\ job'[s].op = job[s].op /\ job'[s].on = job[s].on
           /\ job'[s].then = job[s].then /\ job'[s].live = job[s].live /\ job'[s].stage = stage
           /\ job'[s].host = job[s].host
<1> DEFINE new == [job[s] EXCEPT !.stage = stage]
<1>1. job' = [job EXCEPT ![s] = new]
  BY DEF G!Step
<1>2. job \in [Slots -> GroupHandlers] /\ job[s] \in G!Jobs
  BY GroupTypes, GroupHandler
<1>3. new \in G!Jobs
  BY <1>2 DEF G!Jobs
<1>4. /\ new.op = job[s].op /\ new.on = job[s].on /\ new.then = job[s].then
      /\ new.live = job[s].live /\ new.stage = stage /\ new.host = job[s].host
  BY <1>2 DEF G!Jobs
<1> HIDE DEF new
<1>5. new # G!Idle /\ new \in GroupHandlers
  BY <1>3, GroupJobsRun
<1> QED
  BY <1>1, <1>2, <1>4, <1>5

LEMMA GroupEnded ==
    ASSUME G!TypeOK, NEW s \in Slots, G!Ends(s)
    PROVE  /\ job' \in [Slots -> GroupHandlers] /\ \A t \in Slots \ {s} : job'[t] = job[t]
           /\ job'[s] = G!Idle
BY GroupTypes DEF GroupHandlers, G!Ends

LEMMA GroupOutlived ==
    ASSUME NEW j \in GroupHandlers
    PROVE  LET o == G!Outlived(j)
           IN /\ o \in GroupHandlers /\ (o = G!Idle <=> j = G!Idle)
              /\ j # G!Idle => /\ o.op = j.op /\ o.on = j.on /\ o.then = j.then
                               /\ o.stage = j.stage /\ ~o.live /\ o.host = j.host
<1> DEFINE o == [j EXCEPT !.live = FALSE]
<1>1. CASE j = G!Idle
  BY <1>1 DEF G!Outlived
<1>2. CASE j # G!Idle
  <2>1. j \in G!Jobs
    BY <1>2 DEF GroupHandlers
  <2>2. o \in G!Jobs
    BY <2>1 DEF G!Jobs
  <2>3. /\ o.op = j.op /\ o.on = j.on /\ o.then = j.then /\ o.stage = j.stage /\ ~o.live
        /\ o.host = j.host
    BY <2>1 DEF G!Jobs
  <2>4. G!Outlived(j) = o
    BY <1>2 DEF G!Outlived
  <2> HIDE DEF o
  <2> QED
    BY <1>2, <2>2, <2>3, <2>4, GroupJobsRun
<1> QED
  BY <1>1, <1>2

LEMMA GroupContested ==
    ASSUME G!TypeOK, NEW gs \in SUBSET Groups, G!Contest(gs)
    PROVE  /\ hist' \in GroupHistories /\ hist'.contested = hist.contested \cup gs
           /\ hist'.isolations = hist.isolations /\ hist'.undos = hist.undos
<1> DEFINE all == hist.contested \cup gs
<1>1. hist \in GroupHistories /\ hist' = [hist EXCEPT !.contested = all]
  BY GroupTypes DEF G!Contest
<1>2. all \in SUBSET Groups
  BY <1>1 DEF GroupHistories
<1> HIDE DEF all
<1>3. hist' \in GroupHistories
  BY <1>1, <1>2 DEF GroupHistories
<1>4. hist'.contested = all /\ hist'.isolations = hist.isolations /\ hist'.undos = hist.undos
  BY <1>1 DEF GroupHistories
<1> QED
  BY <1>3, <1>4 DEF all

-----------------------------------------------------------------------------
(* The manager of the groups *)

\* Contested groups stay so; batches are the page's business.
GroupHistoryGrows ==
    /\ hist' \in GroupHistories /\ hist.contested \subseteq hist'.contested
    /\ hist'.isolations = hist.isolations /\ hist'.undos = hist.undos

LEMMA GroupHistoryStays ==
    ASSUME G!TypeOK, UNCHANGED hist
    PROVE  GroupHistoryGrows
BY GroupTypes DEF GroupHistoryGrows

\* The same handler, maybe at another stage.
SameHandler(s) ==
    /\ job[s] # G!Idle /\ job'[s] # G!Idle /\ job'[s].op = job[s].op /\ job'[s].on = job[s].on
    /\ job'[s].then = job[s].then /\ job'[s].live = job[s].live /\ job'[s].host = job[s].host

\* A step of the manager: a handler is answered, and only members of its group change.
LEMMA ManagerKeepsGroups ==
    ASSUME GroupInv, srv' \in GroupServers, GroupHistoryGrows,
           job' \in [Slots -> GroupHandlers],
           \A s \in Slots :
             \/ job'[s] = job[s]
             \/ /\ SameHandler(s) /\ job[s].stage \in {"sent", "acting", "acted"}
                /\ job'[s].stage \in {"acting", "acted", "ok", "err"},
           \A g \in Groups \ hist'.contested :
             \/ srv'.members[g] = srv.members[g]
             \/ \E s \in Slots : /\ job[s] # G!Idle /\ job[s].on = g /\ job[s].stage = "sent"
                                 /\ job'[s] # G!Idle /\ job'[s].on = g /\ job'[s].stage = "ok",
           faults' \in 0 .. MaxFaults, asked' \in 0 .. MaxRequests,
           UNCHANGED <<page, dialog, reads>>
    PROVE  GroupInv'
<1>1. /\ G!TypeOK /\ job \in [Slots -> GroupHandlers] /\ page \in GroupPages
      /\ dialog \in GroupDialogs /\ reads \subseteq G!Reads
  BY GroupTypes DEF GroupInv
<1>2. G!TypeOK'
  <2>1. hist' \in GroupHistories /\ page' \in GroupPages /\ dialog' \in GroupDialogs
        /\ reads' \subseteq G!Reads
    BY <1>1 DEF GroupHistoryGrows
  <2> QED
    BY <2>1 DEF G!TypeOK, GroupServers, GroupHistories, GroupPages, GroupDialogs, GroupHandlers
<1>3. \A s \in Slots : job'[s] = job[s] \/ SameHandler(s)
  OBVIOUS
<1>4. GroupHandlersAsk'
  BY <1>3 DEF GroupInv, GroupHandlersAsk, SameHandler, GroupHistoryGrows
<1>5. GroupReadsFit'
  <2> SUFFICES ASSUME NEW r \in reads, r.by = "handler" PROVE GroupHandlerRead(r)'
    BY DEF GroupInv, GroupReadsFit
  <2>1. GroupHandlerRead(r) /\ r.slot \in Slots /\ job[r.slot].stage = "fetching"
    BY DEF GroupInv, GroupReadsFit, GroupHandlerRead
  <2>2. job'[r.slot] = job[r.slot]
    BY <2>1
  <2> QED
    BY <2>1, <2>2 DEF GroupHandlerRead
<1>6. GroupStays'
  BY <1>3 DEF GroupInv, GroupStays, SameHandler, G!Visible
<1>7. GroupUndoAgrees'
  BY DEF GroupInv, GroupUndoAgrees, G!Current
<1>8. GroupsAgree'
  <2> SUFFICES ASSUME NEW g \in Groups \ hist'.contested PROVE GroupAgrees(g)'
    BY DEF GroupsAgree
  <2>1. GroupAgrees(g) /\ G!Dialogs' = G!Dialogs
    BY DEF GroupInv, GroupsAgree, GroupHistoryGrows, G!Dialogs
  <2>2. CASE srv'.members[g] = srv.members[g]
    BY <2>1, <2>2 DEF GroupAgrees, SameHandler
  <2>3. CASE \E s \in Slots : /\ job[s] # G!Idle /\ job[s].on = g /\ job[s].stage = "sent"
                              /\ job'[s] # G!Idle /\ job'[s].on = g /\ job'[s].stage = "ok"
    <3>1. \A r \in G!Dialogs : r.of # g
      BY <2>1, <2>3 DEF GroupAgrees
    <3> QED
      BY <2>1, <2>3, <3>1 DEF GroupAgrees
  <2> QED
    BY <2>2, <2>3
<1>9. GroupFlags'
  BY <1>3 DEF GroupInv, GroupFlags, SameHandler, G!Dialogs
<1>10. G!BatchNamesItsGroup'
  BY DEF GroupInv, G!BatchNamesItsGroup, GroupHistoryGrows
<1> QED
  BY <1>2, <1>4, <1>5, <1>6, <1>7, <1>8, <1>9, <1>10 DEF GroupInv

LEMMA ColleagueKeepsGroups ==
    ASSUME GroupInv, NEW g \in Groups, NEW h \in Hosts, G!Colleague(g, h),
           asked < MaxRequests, asked' = asked + 1
    PROVE  GroupInv'
<1> DEFINE ms == IF h \in srv.members[g] THEN srv.members[g] \ {h} ELSE srv.members[g] \cup {h}
<1>1. /\ G!TypeOK /\ srv \in GroupServers /\ srv' = [srv EXCEPT !.members[g] = ms]
      /\ G!Contest({g}) /\ UNCHANGED <<page, dialog, job, reads, faults>>
  BY GroupTypes DEF GroupInv, G!Colleague
<1>2. ms \in SUBSET Hosts
  BY <1>1 DEF GroupServers
<1> HIDE DEF ms
<1>3. srv' \in GroupServers /\ \A k \in Groups \ {g} : srv'.members[k] = srv.members[k]
  BY <1>1, <1>2 DEF GroupServers
<1>4. GroupHistoryGrows /\ g \in hist'.contested
  BY <1>1, GroupContested DEF GroupHistoryGrows
<1>5. /\ asked' \in 0 .. MaxRequests /\ faults' \in 0 .. MaxFaults
      /\ job' \in [Slots -> GroupHandlers]
  BY <1>1, GroupAsked, GroupFaults, GroupTypes
<1> QED
  BY <1>1, <1>3, <1>4, <1>5, ManagerKeepsGroups

LEMMA ReportKeepsGroups ==
    ASSUME GroupInv, NEW h \in Hosts, G!Report(h), UNCHANGED asked
    PROVE  GroupInv'
<1>1. /\ G!TypeOK /\ srv \in GroupServers
      /\ srv' = [srv EXCEPT !.pending = @ \ {h}, !.isolated = @ \cup {h}]
      /\ UNCHANGED <<hist, page, dialog, job, reads, faults>>
  BY GroupTypes DEF GroupInv, G!Report
<1>2. srv' \in GroupServers
  BY <1>1 DEF GroupServers
<1>3. srv'.members = srv.members
  BY <1>1 DEF GroupServers
<1>4. /\ asked' \in 0 .. MaxRequests /\ faults' \in 0 .. MaxFaults
      /\ job' \in [Slots -> GroupHandlers] /\ GroupHistoryGrows
  BY <1>1, GroupTypes, GroupHistoryStays
<1> QED
  BY <1>1, <1>2, <1>3, <1>4, ManagerKeepsGroups

\* What was asked of the manager for handler s is done, and its answer comes or is lost.
LEMMA DoneKeepsGroups ==
    ASSUME GroupInv, NEW s \in Slots, job[s] # G!Idle, job[s].stage = "sent",
           srv' \in GroupServers,
           \A g \in Groups \ hist.contested :
             srv'.members[g] = srv.members[g] \/ g = job[s].on,
           G!Answer(s), UNCHANGED <<page, dialog, reads, asked>>
    PROVE  GroupInv'
<1>1. G!TypeOK /\ job \in [Slots -> GroupHandlers]
  BY GroupTypes DEF GroupInv
<1>2. asked' \in 0 .. MaxRequests /\ faults' \in 0 .. MaxFaults
  BY <1>1, GroupTypes, GroupFaults DEF G!Answer
<1>3. CASE G!Step(s, "ok") /\ UNCHANGED <<hist, faults>>
  <2>1. /\ job' \in [Slots -> GroupHandlers] /\ \A t \in Slots \ {s} : job'[t] = job[t]
        /\ SameHandler(s) /\ job'[s].stage = "ok"
    BY <1>1, <1>3, GroupStepped DEF SameHandler
  <2>2. GroupHistoryGrows
    BY <1>1, <1>3, GroupHistoryStays
  <2>3. job'[s] # G!Idle /\ job'[s].on = job[s].on
    BY <2>1 DEF SameHandler
  <2> QED
    BY <1>2, <1>3, <2>1, <2>2, <2>3, ManagerKeepsGroups
<1>4. CASE G!Step(s, "err") /\ G!Contest({job[s].on})
  <2>1. /\ job' \in [Slots -> GroupHandlers] /\ \A t \in Slots \ {s} : job'[t] = job[t]
        /\ SameHandler(s) /\ job'[s].stage = "err"
    BY <1>1, <1>4, GroupStepped DEF SameHandler
  <2>2. {job[s].on} \in SUBSET Groups
    BY <1>1, GroupHandler
  <2>3. GroupHistoryGrows /\ job[s].on \in hist'.contested
    BY <1>1, <1>4, <2>2, GroupContested DEF GroupHistoryGrows
  <2>4. \A g \in Groups \ hist'.contested : srv'.members[g] = srv.members[g]
    BY <2>3 DEF GroupHistoryGrows
  <2> QED
    BY <1>2, <2>1, <2>3, <2>4, ManagerKeepsGroups
<1> QED
  BY <1>3, <1>4 DEF G!Answer

\* The manager refuses what handler s asked, or fails before it did any of it.
LEMMA RefusedKeepsGroups ==
    ASSUME GroupInv, NEW s \in Slots, job[s] # G!Idle, job[s].stage = "sent",
           G!Refuse(s), UNCHANGED faults \/ G!Fault, UNCHANGED <<page, dialog, reads, asked>>
    PROVE  GroupInv'
<1>1. G!TypeOK /\ G!Step(s, "err") /\ UNCHANGED <<srv, hist>>
  BY DEF GroupInv, G!Refuse
<1>2. /\ asked' \in 0 .. MaxRequests /\ faults' \in 0 .. MaxFaults /\ srv' \in GroupServers
      /\ GroupHistoryGrows
  BY <1>1, GroupTypes, GroupFaults, GroupHistoryStays
<1>3. /\ job' \in [Slots -> GroupHandlers] /\ \A t \in Slots \ {s} : job'[t] = job[t]
      /\ SameHandler(s) /\ job'[s].stage = "err"
  BY <1>1, GroupStepped DEF SameHandler
<1> QED
  BY <1>1, <1>2, <1>3, ManagerKeepsGroups

LEMMA ServeMemberKeeps ==
    ASSUME GroupInv, NEW s \in Slots, G!ServeMember(s), UNCHANGED asked
    PROVE  GroupInv'
<1> DEFINE g == job[s].on
           h == job[s].host
           ms == IF job[s].op = "add" THEN srv.members[g] \cup {h} ELSE srv.members[g] \ {h}
<1>1. /\ job[s] # G!Idle /\ job[s].stage = "sent" /\ UNCHANGED <<page, dialog, reads>>
      /\ job[s].op \in G!MemberOps
  BY DEF G!ServeMember, G!Sent
<1>2. \/ srv' = [srv EXCEPT !.members[g] = ms] /\ G!Answer(s)
      \/ G!Refuse(s) /\ (UNCHANGED faults \/ G!Fault)
  BY DEF G!ServeMember
<1>3. /\ srv \in GroupServers /\ g \in Groups
      /\ h \in Hosts \cup {G!None}
  BY <1>1, GroupTypes, GroupHandler DEF GroupInv
<1>4. CASE srv' = [srv EXCEPT !.members[g] = ms] /\ G!Answer(s)
  <2>1. ms \in SUBSET Hosts
    BY <1>1, <1>3 DEF GroupServers, GroupInv, GroupHandlersAsk
  <2> HIDE DEF ms
  <2>2. srv' \in GroupServers /\ \A k \in Groups \ {g} : srv'.members[k] = srv.members[k]
    BY <1>3, <1>4, <2>1 DEF GroupServers
  <2> QED
    BY <1>1, <1>4, <2>2, DoneKeepsGroups
<1> QED
  BY <1>1, <1>2, <1>4, RefusedKeepsGroups

LEMMA ServeDeleteKeeps ==
    ASSUME GroupInv, NEW s \in Slots, G!ServeDelete(s), UNCHANGED asked
    PROVE  GroupInv'
<1> DEFINE g == job[s].on
<1>1. /\ job[s] # G!Idle /\ job[s].stage = "sent" /\ UNCHANGED <<page, dialog, reads>>
      /\ srv \in GroupServers /\ g \in Groups
  BY GroupTypes, GroupHandler DEF GroupInv, G!ServeDelete, G!Sent
<1>2. \/ srv' = [srv EXCEPT !.gone = @ \cup {g}, !.members[g] = {}] /\ G!Answer(s)
      \/ G!Refuse(s) /\ (UNCHANGED faults \/ G!Fault)
  BY DEF G!ServeDelete
<1>3. CASE srv' = [srv EXCEPT !.gone = @ \cup {g}, !.members[g] = {}] /\ G!Answer(s)
  <2>1. srv' \in GroupServers /\ \A k \in Groups \ {g} : srv'.members[k] = srv.members[k]
    BY <1>1, <1>3 DEF GroupServers
  <2> QED
    BY <1>1, <1>3, <2>1, DoneKeepsGroups
<1> QED
  BY <1>1, <1>2, <1>3, RefusedKeepsGroups

\* Batches leave the members of the group alone: a step of one at the manager.
LEMMA BatchStepKeeps ==
    ASSUME GroupInv, NEW s \in Slots, job[s] # G!Idle,
           job[s].stage \in {"sent", "acting", "acted"},
           srv' \in GroupServers, srv'.members = srv.members, GroupHistoryGrows,
           job' \in [Slots -> GroupHandlers], \A t \in Slots \ {s} : job'[t] = job[t],
           SameHandler(s), job'[s].stage \in {"acting", "acted", "ok", "err"},
           faults' \in 0 .. MaxFaults, UNCHANGED <<page, dialog, reads, asked>>
    PROVE  GroupInv'
<1>1. asked' \in 0 .. MaxRequests
  BY GroupTypes DEF GroupInv
<1> QED
  BY <1>1, ManagerKeepsGroups

\* A batch is answered, or its answer is lost.
LEMMA BatchAnswerKeeps ==
    ASSUME GroupInv, NEW s \in Slots, job[s] # G!Idle,
           job[s].stage \in {"sent", "acting", "acted"},
           srv' \in GroupServers, srv'.members = srv.members,
           G!Answer(s) \/ (G!Step(s, "err") /\ UNCHANGED <<hist, faults>>),
           UNCHANGED <<page, dialog, reads, asked>>
    PROVE  GroupInv'
<1>1. G!TypeOK /\ job \in [Slots -> GroupHandlers] /\ job[s].on \in Groups
  BY GroupTypes, GroupHandler DEF GroupInv
<1>2. faults' \in 0 .. MaxFaults
  BY <1>1, GroupTypes, GroupFaults DEF G!Answer
<1>3. PICK stage \in {"ok", "err"} : G!Step(s, stage)
  BY DEF G!Answer
<1>4. /\ job' \in [Slots -> GroupHandlers] /\ \A t \in Slots \ {s} : job'[t] = job[t]
      /\ SameHandler(s) /\ job'[s].stage \in {"acting", "acted", "ok", "err"}
  BY <1>1, <1>3, GroupStepped DEF SameHandler
<1>5. GroupHistoryGrows
  <2>1. CASE UNCHANGED hist
    BY <1>1, <2>1, GroupHistoryStays
  <2>2. CASE G!Contest({job[s].on})
    <3>1. {job[s].on} \in SUBSET Groups
      BY <1>1
    <3> QED
      BY <1>1, <2>2, <3>1, GroupContested DEF GroupHistoryGrows
  <2> QED
    BY <2>1, <2>2 DEF G!Answer
<1> QED
  BY <1>2, <1>4, <1>5, BatchStepKeeps

\* The manager reads the members of the group it is to isolate, or finds no group.
LEMMA ServeIsolateKeeps ==
    ASSUME GroupInv, NEW s \in Slots, G!ServeIsolate(s), UNCHANGED asked
    PROVE  GroupInv'
<1>1. /\ G!TypeOK /\ srv \in GroupServers /\ faults \in 0 .. MaxFaults
      /\ job \in [Slots -> GroupHandlers]
      /\ job[s] # G!Idle /\ job[s].stage = "sent"
      /\ UNCHANGED <<srv, hist, page, dialog, reads, faults>>
  BY GroupTypes DEF GroupInv, G!ServeIsolate, G!Sent
<1>2. CASE G!Step(s, "err")
  BY <1>1, <1>2, BatchAnswerKeeps
<1>3. ASSUME job' = [job EXCEPT ![s].stage = "acting", ![s].left = srv.members[job[s].on]]
      PROVE  GroupInv'
  <2> DEFINE new == [job[s] EXCEPT !.stage = "acting", !.left = srv.members[job[s].on]]
  <2>1. job[s] \in G!Jobs /\ srv.members[job[s].on] \in SUBSET Hosts
    BY <1>1, GroupHandler DEF GroupServers
  <2>2. job' = [job EXCEPT ![s] = new]
    BY <1>1, <1>3
  <2>3. new \in G!Jobs /\ new.stage = "acting"
    BY <2>1 DEF G!Jobs
  <2>4. /\ new.op = job[s].op /\ new.on = job[s].on /\ new.then = job[s].then
        /\ new.live = job[s].live /\ new.host = job[s].host
    BY <2>1 DEF G!Jobs
  <2> HIDE DEF new
  <2>5. new # G!Idle /\ new \in GroupHandlers
    BY <2>3, GroupJobsRun
  <2>6. /\ job' \in [Slots -> GroupHandlers] /\ \A t \in Slots \ {s} : job'[t] = job[t]
        /\ SameHandler(s) /\ job'[s].stage = "acting"
    BY <1>1, <2>2, <2>3, <2>4, <2>5 DEF SameHandler
  <2>7. GroupHistoryGrows
    BY <1>1, GroupHistoryStays
  <2> QED
    BY <1>1, <2>6, <2>7, BatchStepKeeps
<1> QED
  BY <1>2, <1>3 DEF G!ServeIsolate

\* One member of the group is isolated.
LEMMA IsolateMemberKeeps ==
    ASSUME GroupInv, NEW s \in Slots, NEW h \in Hosts, G!IsolateMember(s, h), UNCHANGED asked
    PROVE  GroupInv'
<1> DEFINE new == [job[s] EXCEPT !.stage = "acted", !.left = @ \ {h}]
<1>1. /\ G!TypeOK /\ srv \in GroupServers /\ faults \in 0 .. MaxFaults
      /\ job \in [Slots -> GroupHandlers]
      /\ job[s] # G!Idle /\ job[s].stage \in {"acting", "acted"}
      /\ UNCHANGED <<hist, page, dialog, reads, faults>>
  BY GroupTypes DEF GroupInv, G!IsolateMember, G!Acting
<1>2. /\ srv' = [srv EXCEPT !.pending = @ \cup {h}]
      /\ job' = [job EXCEPT ![s].stage = "acted", ![s].left = @ \ {h}]
  BY DEF G!IsolateMember
<1>3. srv' \in GroupServers /\ srv'.members = srv.members
  BY <1>1, <1>2 DEF GroupServers
<1>4. job[s] \in G!Jobs
  BY <1>1, GroupHandler
<1>5. job' = [job EXCEPT ![s] = new]
  BY <1>1, <1>2, <1>4
<1>6. new \in G!Jobs /\ new.stage = "acted"
  BY <1>4 DEF G!Jobs
<1>7. /\ new.op = job[s].op /\ new.on = job[s].on /\ new.then = job[s].then
      /\ new.live = job[s].live /\ new.host = job[s].host
  BY <1>4 DEF G!Jobs
<1> HIDE DEF new
<1>8. new # G!Idle /\ new \in GroupHandlers
  BY <1>6, GroupJobsRun
<1>9. /\ job' \in [Slots -> GroupHandlers] /\ \A t \in Slots \ {s} : job'[t] = job[t]
      /\ SameHandler(s) /\ job'[s].stage = "acted"
  BY <1>1, <1>5, <1>6, <1>7, <1>8 DEF SameHandler
<1>10. GroupHistoryGrows
  BY <1>1, GroupHistoryStays
<1> QED
  BY <1>1, <1>3, <1>9, <1>10, BatchStepKeeps

\* The batch ends, with or without members that are not isolated.
LEMMA IsolateAnswersKeeps ==
    ASSUME GroupInv, NEW s \in Slots, G!IsolateAnswers(s), UNCHANGED asked
    PROVE  GroupInv'
<1>1. /\ job[s] # G!Idle /\ job[s].stage \in {"sent", "acting", "acted"}
      /\ UNCHANGED <<srv, page, dialog, reads>>
      /\ G!Answer(s) \/ (G!Step(s, "err") /\ UNCHANGED <<hist, faults>>)
  BY DEF G!IsolateAnswers, G!Acting
<1>2. srv' \in GroupServers /\ srv'.members = srv.members
  BY <1>1, GroupTypes DEF GroupInv
<1> QED
  BY <1>1, <1>2, BatchAnswerKeeps

LEMMA ServeUndoKeeps ==
    ASSUME GroupInv, NEW s \in Slots, G!ServeUndo(s), UNCHANGED asked
    PROVE  GroupInv'
<1>1. /\ job[s] # G!Idle /\ job[s].stage = "sent" /\ UNCHANGED <<page, dialog, reads>>
      /\ srv \in GroupServers
  BY GroupTypes DEF GroupInv, G!ServeUndo, G!Sent
<1>2. CASE G!Refuse(s) /\ (UNCHANGED faults \/ G!Fault)
  BY <1>1, <1>2, RefusedKeepsGroups
<1>3. CASE srv' = [srv EXCEPT !.isolated = @ \ srv.members[job[s].on]] /\ G!Answer(s)
  <2>1. srv' \in GroupServers /\ srv'.members = srv.members
    BY <1>1, <1>3 DEF GroupServers
  <2> QED
    BY <1>1, <1>3, <2>1, BatchAnswerKeeps
<1> QED
  BY <1>2, <1>3 DEF G!ServeUndo

-----------------------------------------------------------------------------
(* The page of the groups *)

\* Of the requests for groups' details, none has come or been sent.
SameAsks == \A r \in reads \cup reads' : r.by # "list" => (r \in reads' <=> r \in reads)

\* A step about the cards alone.
CardsKeepGroups ==
    /\ page' \in GroupPages /\ page'.selected = page.selected
    /\ page'.loading => \E r \in reads' : r.by = "list"
    /\ reads' \subseteq G!Reads /\ SameAsks
    /\ UNCHANGED <<srv, hist, dialog, job>>
    /\ asked' \in 0 .. MaxRequests /\ faults' \in 0 .. MaxFaults

LEMMA CardsKeep ==
    ASSUME GroupInv, CardsKeepGroups
    PROVE  GroupInv'
<1>1. /\ G!TypeOK /\ srv' \in GroupServers /\ hist' \in GroupHistories
      /\ dialog' \in GroupDialogs /\ job' \in [Slots -> GroupHandlers]
  BY GroupTypes DEF GroupInv, CardsKeepGroups
<1>2. G!TypeOK'
  BY <1>1 DEF CardsKeepGroups, G!TypeOK, GroupServers, GroupHistories, GroupPages, GroupDialogs,
              GroupHandlers
<1>3. G!Dialogs' = G!Dialogs
  BY DEF CardsKeepGroups, SameAsks, G!Dialogs
<1>4. GroupHandlersAsk'
  BY DEF GroupInv, GroupHandlersAsk, CardsKeepGroups
<1>5. GroupReadsFit'
  BY DEF GroupInv, GroupReadsFit, GroupHandlerRead, CardsKeepGroups, SameAsks
<1>6. GroupStays'
  BY DEF GroupInv, GroupStays, CardsKeepGroups, SameAsks, G!Visible
<1>7. GroupUndoAgrees'
  BY DEF GroupInv, GroupUndoAgrees, G!Current, CardsKeepGroups
<1>8. GroupsAgree'
  BY <1>3 DEF GroupInv, GroupsAgree, GroupAgrees, CardsKeepGroups
<1>9. GroupFlags'
  BY <1>3 DEF GroupInv, GroupFlags, CardsKeepGroups
<1>10. G!BatchNamesItsGroup'
  BY DEF GroupInv, G!BatchNamesItsGroup, CardsKeepGroups
<1> QED
  BY <1>2, <1>4, <1>5, <1>6, <1>7, <1>8, <1>9, <1>10 DEF GroupInv

LEMMA GroupListArrivesKeeps ==
    ASSUME GroupInv, NEW r \in reads, G!ListArrives(r), UNCHANGED asked
    PROVE  GroupInv'
<1>1. /\ G!TypeOK /\ page \in GroupPages /\ reads \subseteq G!Reads /\ r.cards \in SUBSET G!Details
  BY GroupTypes DEF GroupInv, G!Reads
<1>2. /\ r.by = "list" /\ reads' = reads \ {r} /\ UNCHANGED <<srv, hist, dialog, job>>
      /\ UNCHANGED faults \/ G!Fault
  BY DEF G!ListArrives
<1>3. page' \in GroupPages /\ page'.selected = page.selected /\ ~page'.loading
  <2>1. CASE page' = [page EXCEPT !.cards = r.cards, !.loading = FALSE]
    BY <1>1, <2>1 DEF GroupPages
  <2>2. CASE page' = [page EXCEPT !.loading = FALSE]
    BY <1>1, <2>2 DEF GroupPages
  <2>3. ASSUME NEW c \in r.cards,
               page' = [page EXCEPT !.loading = FALSE,
                          !.cards = (r.cards \ {c})
                                    \cup {[c EXCEPT !.members = {}, !.isolated = {}]}]
        PROVE  page' \in GroupPages /\ page'.selected = page.selected /\ ~page'.loading
    <3> DEFINE blank == [c EXCEPT !.members = {}, !.isolated = {}]
               cards == (r.cards \ {c}) \cup {blank}
    <3>1. blank \in G!Details
      BY <1>1 DEF G!Details
    <3> HIDE DEF blank
    <3>2. cards \in SUBSET G!Details
      BY <1>1, <3>1
    <3>3. page' = [page EXCEPT !.loading = FALSE, !.cards = cards]
      BY <2>3 DEF blank
    <3> HIDE DEF cards
    <3> QED
      BY <1>1, <3>2, <3>3 DEF GroupPages
  <2> QED
    BY <2>1, <2>2, <2>3 DEF G!ListArrives
<1>4. asked' \in 0 .. MaxRequests /\ faults' \in 0 .. MaxFaults
  BY <1>1, <1>2, GroupFaults, GroupTypes
<1>5. SameAsks
  BY <1>2 DEF SameAsks
<1> QED
  BY <1>1, <1>2, <1>3, <1>4, <1>5, CardsKeep DEF CardsKeepGroups

LEMMA GroupRefreshKeeps ==
    ASSUME GroupInv, G!Refresh, asked < MaxRequests, asked' = asked + 1
    PROVE  GroupInv'
<1>1. /\ G!TypeOK /\ page \in GroupPages /\ reads \subseteq G!Reads
      /\ page' = [page EXCEPT !.loading = TRUE] /\ reads' = reads \cup {G!ListRead}
      /\ UNCHANGED <<srv, hist, dialog, job, faults>>
  BY GroupTypes DEF GroupInv, G!Refresh
<1>2. page' \in GroupPages /\ page'.selected = page.selected
  BY <1>1 DEF GroupPages
<1>3. G!ListRead \in G!Reads /\ G!ListRead.by = "list"
  BY <1>1, GroupListRead
<1>4. asked' \in 0 .. MaxRequests /\ faults' \in 0 .. MaxFaults
  BY <1>1, GroupAsked, GroupTypes
<1>5. SameAsks
  BY <1>1, <1>3 DEF SameAsks
<1> QED
  BY <1>1, <1>2, <1>3, <1>4, <1>5, CardsKeep DEF CardsKeepGroups

\* What is read anew of group g agrees with the manager, unless that contests the group.
LEMMA GroupReadAgrees ==
    ASSUME GroupInv, NEW g \in Groups,
           hist.contested \subseteq hist'.contested,
           G!ContestedByRead(g) \subseteq hist'.contested,
           UNCHANGED srv, dialog'.shown = dialog.shown,
           \A s \in Slots : job'[s] # G!Idle =>
             SameHandler(s) /\ (job'[s].stage = "sent" => job[s].stage = "sent"),
           \A s \in Slots : job[s] # G!Idle /\ job[s].stage = "ok" =>
             \/ job[s].on \in hist'.contested
             \/ job'[s] # G!Idle /\ job'[s].stage = "ok"
             \/ \E r \in G!Dialogs' : r.of = job[s].on,
           G!Dialogs \subseteq G!Dialogs',
           \A r \in G!Dialogs' \ G!Dialogs : /\ r.of = g
                                             /\ \A c \in r.cards : c.members = srv.members[g]
    PROVE  GroupsAgree'
<1> SUFFICES ASSUME NEW k \in Groups \ hist'.contested PROVE GroupAgrees(k)'
  BY DEF GroupsAgree
<1>1. GroupAgrees(k)
  BY DEF GroupInv, GroupsAgree
<1>2. ASSUME NEW s \in Slots, job'[s] # G!Idle, job'[s].on = k, job'[s].stage = "sent",
             NEW r \in G!Dialogs', r.of = k
      PROVE  FALSE
  <2>1. job[s] # G!Idle /\ job[s].on = k /\ job[s].stage = "sent"
    BY <1>2 DEF SameHandler
  <2>2. r \notin G!Dialogs
    BY <1>1, <1>2, <2>1 DEF GroupAgrees
  <2>3. k = g
    BY <1>2, <2>2
  <2>4. k \in G!ContestedByRead(g)
    BY <2>1, <2>3 DEF G!ContestedByRead, G!Running
  <2> QED
    BY <2>4
<1>3. ASSUME NEW r \in G!Dialogs', r.of = k, NEW c \in r.cards
      PROVE  c.members = srv.members[k]
  BY <1>1, <1>3 DEF GroupAgrees
<1>4. ASSUME dialog'.shown.of = k
      PROVE  \/ dialog'.shown.members = srv.members[k]
             \/ \E s \in Slots : job'[s] # G!Idle /\ job'[s].on = k /\ job'[s].stage = "ok"
             \/ \E r \in G!Dialogs' : r.of = k
  <2>1. CASE \E s \in Slots : job[s] # G!Idle /\ job[s].on = k /\ job[s].stage = "ok"
    BY <2>1 DEF SameHandler
  <2> QED
    BY <1>1, <1>4, <2>1 DEF GroupAgrees
<1> QED
  BY <1>2, <1>3, <1>4 DEF GroupAgrees

LEMMA GroupOpenKeeps ==
    ASSUME GroupInv, NEW g \in Groups, G!Open(g), asked < MaxRequests, asked' = asked + 1
    PROVE  GroupInv'
<1> DEFINE late == \/ {r \in reads : r.by # "list" /\ r.of # g} # {}
                   \/ \E s \in Slots : job[s] # G!Idle
           moves == late \/ dialog.confirm # "none"
           a == G!DetailRead("select", g, 0)
           b == G!DetailRead("dialog", g, 0)
<1>1. /\ G!TypeOK /\ page \in GroupPages /\ dialog \in GroupDialogs /\ reads \subseteq G!Reads
      /\ srv \in GroupServers /\ job \in [Slots -> GroupHandlers]
  BY GroupTypes DEF GroupInv
<1>2. /\ dialog' = [dialog EXCEPT !.open = TRUE, !.loading = TRUE, !.moved = moves]
      /\ reads' = reads \cup {a, b} /\ G!Contest(G!ContestedByRead(g))
      /\ UNCHANGED <<srv, job, faults>>
  BY DEF G!Open
<1>3. PICK c \in G!Details : c.of = g /\ page' = [page EXCEPT !.selected = c]
  <2>1. G!Card(g) # {} /\ page' = [page EXCEPT !.selected = CHOOSE c \in G!Card(g) : TRUE]
    BY DEF G!Open
  <2>2. (CHOOSE c \in G!Card(g) : TRUE) \in G!Card(g)
    BY <2>1
  <2>3. \A c \in G!Card(g) : c \in G!Details /\ c.of = g
    BY <1>1 DEF G!Card, GroupPages
  <2> QED
    BY <2>1, <2>2, <2>3
<1>4. /\ a \in G!Reads /\ a.by = "select" /\ a.of = g
      /\ \A d \in a.cards : d.of = g /\ d.members = srv.members[g]
      /\ b \in G!Reads /\ b.by = "dialog" /\ b.of = g
      /\ \A d \in b.cards : d.of = g /\ d.members = srv.members[g]
  BY <1>1, GroupDetailRead
<1> HIDE DEF moves, a, b
<1>5. c # G!Nothing /\ page' \in GroupPages /\ page'.selected = c /\ page'.loading = page.loading
  BY <1>1, <1>3, GroupDetails DEF GroupPages
<1>6. moves \in BOOLEAN
  BY DEF moves
<1>7. /\ dialog' \in GroupDialogs /\ dialog'.shown = dialog.shown
      /\ dialog'.confirm = dialog.confirm /\ dialog'.of = dialog.of /\ dialog'.moved = moves
      /\ dialog'.open /\ dialog'.busy = dialog.busy /\ dialog'.adding = dialog.adding
      /\ dialog'.removing = dialog.removing
  BY <1>1, <1>2, <1>6 DEF GroupDialogs
<1>8. /\ hist' \in GroupHistories /\ hist'.contested = hist.contested \cup G!ContestedByRead(g)
      /\ hist'.isolations = hist.isolations /\ hist'.undos = hist.undos
  <2>1. G!ContestedByRead(g) \in SUBSET Groups
    BY DEF G!ContestedByRead
  <2> QED
    BY <1>1, <1>2, <2>1, GroupContested
<1>9. asked' \in 0 .. MaxRequests /\ faults' \in 0 .. MaxFaults
  BY <1>1, <1>2, GroupAsked, GroupTypes
<1>10. G!TypeOK'
  BY <1>1, <1>2, <1>4, <1>5, <1>7, <1>8, <1>9
     DEF G!TypeOK, GroupServers, GroupHistories, GroupPages, GroupDialogs, GroupHandlers
<1>11. GroupHandlersAsk'
  BY <1>2, <1>8 DEF GroupInv, GroupHandlersAsk
<1>12. GroupReadsFit'
  BY <1>2, <1>4 DEF GroupInv, GroupReadsFit, GroupHandlerRead
<1>13. GroupStays'
  <2>1. ASSUME ~moves
        PROVE  /\ \A r \in reads' : r.by # "list" => r.of = g
               /\ \A s \in Slots : job[s] = G!Idle
    BY <1>2, <1>4, <2>1 DEF moves
  <2> QED
    BY <1>2, <1>3, <1>5, <1>7, <2>1 DEF GroupStays, G!Visible
<1>14. GroupUndoAgrees'
  BY <1>7 DEF GroupInv, GroupUndoAgrees, moves
<1>15. b \in G!Dialogs' /\ G!Dialogs' = G!Dialogs \cup {b}
  BY <1>2, <1>4 DEF G!Dialogs
<1>16. GroupsAgree'
  BY <1>2, <1>4, <1>7, <1>8, <1>15, GroupReadAgrees DEF SameHandler
<1>17. GroupFlags'
  BY <1>2, <1>5, <1>7, <1>15 DEF GroupInv, GroupFlags
<1>18. G!BatchNamesItsGroup'
  BY <1>8 DEF GroupInv, G!BatchNamesItsGroup
<1> QED
  BY <1>10, <1>11, <1>12, <1>13, <1>14, <1>16, <1>17, <1>18 DEF GroupInv

\* What SelectArrives does once the request r is over: c is selected by then, and the dialog
\* asks for its details or not.
GroupSelects(r, c) ==
    /\ c = page.selected \/ (c \in G!Details /\ c.of = r.of)
    /\ page' \in GroupPages /\ page'.selected = c /\ page'.loading = page.loading
    /\ \/ reads' = reads \ {r} /\ UNCHANGED <<dialog, hist>>
       \/ /\ c \in G!Details /\ c.of = r.of
          /\ dialog' = [dialog EXCEPT !.loading = TRUE]
          /\ reads' = (reads \ {r}) \cup {G!DetailRead("dialog", c.of, 0)}
          /\ G!Contest(G!ContestedByRead(c.of))
    /\ UNCHANGED <<srv, job, asked>> /\ (UNCHANGED faults \/ G!Fault)

GroupReadsAnew(r, c, new) ==
    /\ reads' = (reads \ {r}) \cup new
    /\ new = {} => UNCHANGED <<dialog, hist>>
    /\ new # {} => /\ G!ContestedByRead(r.of) \subseteq hist'.contested
                   /\ c \in G!Details /\ c.of = r.of
    /\ \A d \in new : /\ d.by = "dialog" /\ d.of = r.of
                      /\ \A e \in d.cards : e.of = r.of /\ e.members = srv.members[r.of]

LEMMA GroupSelectsKeeps ==
    ASSUME GroupInv, NEW r \in reads, r.by = "select", NEW c, GroupSelects(r, c)
    PROVE  GroupInv'
<1>1. /\ G!TypeOK /\ page \in GroupPages /\ dialog \in GroupDialogs /\ reads \subseteq G!Reads
      /\ srv \in GroupServers /\ job \in [Slots -> GroupHandlers] /\ hist \in GroupHistories
  BY GroupTypes DEF GroupInv
<1>2. r.of \in Groups
  BY DEF GroupInv, GroupReadsFit
<1>3. /\ dialog' \in GroupDialogs /\ dialog'.shown = dialog.shown
      /\ dialog'.confirm = dialog.confirm /\ dialog'.of = dialog.of
      /\ dialog'.moved = dialog.moved /\ dialog'.open = dialog.open
      /\ dialog'.busy = dialog.busy /\ dialog'.adding = dialog.adding
      /\ dialog'.removing = dialog.removing
  <2>1. CASE UNCHANGED dialog
    BY <1>1, <2>1
  <2>2. CASE dialog' = [dialog EXCEPT !.loading = TRUE]
    BY <1>1, <2>2 DEF GroupDialogs
  <2> QED
    BY <2>1, <2>2 DEF GroupSelects
<1>4. /\ hist' \in GroupHistories /\ hist.contested \subseteq hist'.contested
      /\ hist'.isolations = hist.isolations /\ hist'.undos = hist.undos
  <2>1. CASE UNCHANGED hist
    BY <1>1, <2>1
  <2>2. CASE G!Contest(G!ContestedByRead(c.of)) /\ c.of = r.of
    <3>1. G!ContestedByRead(c.of) \in SUBSET Groups
      BY <1>2, <2>2 DEF G!ContestedByRead
    <3> QED
      BY <1>1, <2>2, <3>1, GroupContested
  <2> QED
    BY <2>1, <2>2 DEF GroupSelects
<1>5. PICK new \in SUBSET G!Reads : GroupReadsAnew(r, c, new)
  <2>1. CASE reads' = reads \ {r} /\ UNCHANGED <<dialog, hist>>
    <3>1. GroupReadsAnew(r, c, {})
      BY <2>1 DEF GroupReadsAnew
    <3> QED
      BY <3>1
  <2>2. CASE /\ c \in G!Details /\ c.of = r.of
             /\ reads' = (reads \ {r}) \cup {G!DetailRead("dialog", c.of, 0)}
             /\ G!Contest(G!ContestedByRead(c.of))
    <3> DEFINE b == G!DetailRead("dialog", r.of, 0)
    <3>1. /\ b \in G!Reads /\ b.by = "dialog" /\ b.of = r.of
          /\ \A e \in b.cards : e.of = r.of /\ e.members = srv.members[r.of]
      BY <1>1, <1>2, GroupDetailRead
    <3>2. reads' = (reads \ {r}) \cup {b}
      BY <2>2
    <3> HIDE DEF b
    <3>3. G!ContestedByRead(r.of) \in SUBSET Groups
      BY <1>2 DEF G!ContestedByRead
    <3>4. G!ContestedByRead(r.of) \subseteq hist'.contested
      BY <1>1, <2>2, <3>3, GroupContested
    <3>5. GroupReadsAnew(r, c, {b})
      BY <2>2, <3>1, <3>2, <3>4 DEF GroupReadsAnew
    <3> QED
      BY <3>1, <3>5
  <2> QED
    BY <2>1, <2>2 DEF GroupSelects
<1>6. /\ page' \in GroupPages /\ page'.selected = c /\ page'.loading = page.loading
      /\ UNCHANGED <<srv, job, asked>>
      /\ c = page.selected \/ (c \in G!Details /\ c.of = r.of)
  BY DEF GroupSelects
<1>7. asked' \in 0 .. MaxRequests /\ faults' \in 0 .. MaxFaults
  BY <1>1, <1>6, GroupFaults, GroupTypes DEF GroupSelects
<1>8. G!TypeOK'
  BY <1>1, <1>3, <1>4, <1>5, <1>6, <1>7
     DEF GroupReadsAnew, G!TypeOK, GroupServers, GroupHistories, GroupPages, GroupDialogs,
         GroupHandlers
<1>9. GroupHandlersAsk'
  BY <1>4, <1>6 DEF GroupInv, GroupHandlersAsk
<1>10. GroupReadsFit'
  <2>1. \A q \in reads' : q \in reads \/ (q.by = "dialog" /\ q \in new)
    BY <1>5 DEF GroupReadsAnew
  <2>2. ASSUME NEW q \in reads', q.by # "list"
        PROVE  q.of \in Groups /\ \A e \in q.cards : e.of = q.of
    BY <1>2, <1>5, <2>1, <2>2 DEF GroupInv, GroupReadsFit, GroupReadsAnew
  <2>3. ASSUME NEW q \in reads', q.by = "handler" PROVE GroupHandlerRead(q)'
    <3>1. q \in reads /\ GroupHandlerRead(q)
      BY <2>1, <2>3 DEF GroupInv, GroupReadsFit
    <3> QED
      BY <1>6, <2>1, <3>1 DEF GroupHandlerRead
  <2> QED
    BY <2>2, <2>3 DEF GroupReadsFit
<1>11. dialog.open /\ ~dialog.moved => c = page.selected \/ page.selected.of = r.of
  BY DEF GroupInv, GroupStays, G!Visible
<1>12. dialog.open /\ ~dialog.moved => c.of = page.selected.of /\ c # G!Nothing
  BY <1>6, <1>11, GroupDetails DEF GroupInv, GroupStays
<1>13. GroupStays'
  <2>1. ASSUME dialog.open, ~dialog.moved
        PROVE  /\ \A q \in reads' : q.by # "list" => q.of = c.of
               /\ \A s \in Slots : job[s] # G!Idle => job[s].op # "delete" /\ job[s].then = c.of
    <3>1. G!Visible
      BY <2>1 DEF GroupInv, GroupStays, G!Visible
    <3> QED
      BY <1>5, <1>12, <2>1, <3>1 DEF GroupInv, GroupStays, GroupReadsAnew
  <2> QED
    BY <1>3, <1>6, <1>12, <2>1 DEF GroupInv, GroupStays, G!Visible
<1>14. GroupUndoAgrees'
  BY <1>3, <1>6, <1>12 DEF GroupInv, GroupUndoAgrees, G!Current
<1>15. G!Dialogs' = G!Dialogs \cup new
  BY <1>5 DEF G!Dialogs, GroupReadsAnew
<1>16. GroupsAgree'
  <2>1. CASE new = {}
    BY <1>4, <1>5, <1>6, <1>15, <2>1 DEF GroupInv, GroupsAgree, GroupAgrees, GroupReadsAnew
  <2>2. CASE new # {}
    BY <1>2, <1>3, <1>4, <1>5, <1>6, <1>15, <2>2, GroupReadAgrees DEF SameHandler, GroupReadsAnew
  <2> QED
    BY <2>1, <2>2
<1>17. GroupFlags'
  BY <1>3, <1>5, <1>6, <1>15 DEF GroupInv, GroupFlags, GroupReadsAnew
<1>18. G!BatchNamesItsGroup'
  BY <1>4 DEF GroupInv, G!BatchNamesItsGroup
<1> QED
  BY <1>8, <1>9, <1>10, <1>13, <1>14, <1>16, <1>17, <1>18 DEF GroupInv

LEMMA GroupSelectArrivesKeeps ==
    ASSUME GroupInv, NEW r \in reads, G!SelectArrives(r), UNCHANGED asked
    PROVE  GroupInv'
<1>1. /\ G!TypeOK /\ page \in GroupPages /\ r.by = "select" /\ r.cards \in SUBSET G!Details
      /\ UNCHANGED <<srv, job>>
  BY GroupTypes DEF GroupInv, G!SelectArrives, G!TypeOK, G!Reads
<1>2. ASSUME NEW c \in r.cards, page' = [page EXCEPT !.selected = c], UNCHANGED faults,
             \/ /\ dialog' = [dialog EXCEPT !.loading = TRUE]
                /\ reads' = (reads \ {r}) \cup {G!DetailRead("dialog", c.of, 0)}
                /\ G!Contest(G!ContestedByRead(c.of))
             \/ UNCHANGED <<dialog, hist>> /\ reads' = reads \ {r}
      PROVE  GroupInv'
  <2>1. c \in G!Details /\ c.of = r.of
    BY <1>1 DEF GroupInv, GroupReadsFit
  <2>2. page' \in GroupPages /\ page'.selected = c /\ page'.loading = page.loading
    BY <1>1, <1>2, <2>1, GroupDetails DEF GroupPages
  <2>3. GroupSelects(r, c)
    BY <1>1, <1>2, <2>1, <2>2 DEF GroupSelects
  <2> QED
    BY <1>1, <2>3, GroupSelectsKeeps
<1>3. CASE /\ UNCHANGED faults \/ G!Fault
           /\ reads' = reads \ {r} /\ UNCHANGED <<page, dialog, hist>>
  <2>1. GroupSelects(r, page.selected)
    BY <1>1, <1>3 DEF GroupSelects
  <2> QED
    BY <1>1, <2>1, GroupSelectsKeeps
<1> QED
  BY <1>2, <1>3 DEF G!SelectArrives

\* A handler of op on group g is begun; its group is contested if it is a deletion, or if
\* another request about it, or any for a dialog, is on its way.
GroupBegins(s, op, g, h) ==
    /\ op \in G!Batches \cup G!MemberOps \cup {"delete"} /\ g \in Groups
    /\ h \in Hosts \cup {G!None} /\ (op = "add" => h \in Hosts)
    /\ G!Start(s, op, g, h)
    /\ op = "delete" => ~G!Visible /\ g \in hist'.contested
    /\ op # "delete" => G!Visible /\ G!ContestedByStart(g) \subseteq hist'.contested
    /\ hist' \in GroupHistories /\ hist.contested \subseteq hist'.contested
    /\ dialog' \in GroupDialogs
    /\ dialog'.open = dialog.open /\ dialog'.shown = dialog.shown
    /\ dialog'.loading = dialog.loading /\ dialog'.confirm = dialog.confirm
    /\ dialog'.of = dialog.of /\ dialog'.moved = dialog.moved
    /\ dialog'.busy => dialog.busy \/ op \in G!Batches
    /\ dialog'.adding => dialog.adding \/ op = "add"
    /\ dialog'.removing # G!None => dialog.removing # G!None \/ op = "remove"
    /\ G!BatchNamesItsGroup'
    /\ UNCHANGED <<srv, page, reads, faults>>
    /\ asked < MaxRequests /\ asked' = asked + 1

LEMMA GroupBeginsKeeps ==
    ASSUME GroupInv, NEW s \in Slots, NEW op, NEW g, NEW h, GroupBegins(s, op, g, h)
    PROVE  GroupInv'
<1>1. /\ G!TypeOK /\ page \in GroupPages /\ dialog \in GroupDialogs /\ reads \subseteq G!Reads
      /\ srv \in GroupServers /\ job \in [Slots -> GroupHandlers]
  BY GroupTypes DEF GroupInv
<1>2. /\ job' \in [Slots -> GroupHandlers] /\ \A t \in Slots \ {s} : job'[t] = job[t]
      /\ job[s] = G!Idle /\ job'[s] # G!Idle /\ job'[s].op = op /\ job'[s].on = g
      /\ job'[s].then = page.selected.of /\ job'[s].live /\ job'[s].stage = "sent"
      /\ job'[s].host = h
  <2>1. /\ op \in G!Batches \cup G!MemberOps \cup {"delete"} /\ g \in Groups
        /\ h \in Hosts \cup {G!None} /\ G!Start(s, op, g, h)
    BY DEF GroupBegins
  <2> QED
    BY <1>1, <2>1, GroupStarted
<1>3. asked' \in 0 .. MaxRequests /\ faults' \in 0 .. MaxFaults
  BY <1>1, GroupAsked, GroupTypes DEF GroupBegins
<1>4. G!TypeOK'
  BY <1>1, <1>2, <1>3
     DEF GroupBegins, G!TypeOK, GroupServers, GroupHistories, GroupPages, GroupDialogs,
         GroupHandlers
<1>5. G!Visible => page.selected.of \in Groups
  BY <1>1, GroupDetails DEF G!Visible, GroupPages
<1>6. GroupHandlersAsk'
  BY <1>2, <1>5 DEF GroupInv, GroupHandlersAsk, GroupBegins
<1>7. GroupReadsFit'
  <2> SUFFICES ASSUME NEW r \in reads, r.by = "handler" PROVE GroupHandlerRead(r)'
    BY DEF GroupInv, GroupReadsFit, GroupBegins
  <2>1. GroupHandlerRead(r) /\ r.slot \in Slots /\ job[r.slot] # G!Idle
    BY DEF GroupInv, GroupReadsFit, GroupHandlerRead
  <2>2. job'[r.slot] = job[r.slot]
    BY <1>2, <2>1
  <2> QED
    BY <2>1, <2>2 DEF GroupHandlerRead, GroupBegins
<1>8. GroupStays'
  BY <1>2 DEF GroupInv, GroupStays, GroupBegins, G!Visible
<1>9. GroupUndoAgrees'
  BY DEF GroupInv, GroupUndoAgrees, GroupBegins, G!Current
<1>10. GroupsAgree'
  <2> SUFFICES ASSUME NEW k \in Groups \ hist'.contested PROVE GroupAgrees(k)'
    BY DEF GroupsAgree
  <2>1. GroupAgrees(k) /\ G!Dialogs' = G!Dialogs /\ UNCHANGED srv /\ dialog'.shown = dialog.shown
    BY DEF GroupInv, GroupsAgree, GroupBegins, G!Dialogs
  <2>2. k = g => G!Dialogs = {}
    BY DEF GroupBegins, G!ContestedByStart
  <2>3. \A t \in Slots : job[t] # G!Idle => job'[t] = job[t]
    BY <1>2
  <2> QED
    BY <1>2, <2>1, <2>2, <2>3 DEF GroupAgrees
<1>11. GroupFlags'
  <2>1. \A t \in Slots : job[t] # G!Idle => job'[t] = job[t]
    BY <1>2
  <2> QED
    BY <1>2, <2>1 DEF GroupInv, GroupFlags, GroupBegins, G!Dialogs
<1> QED
  BY <1>4, <1>6, <1>7, <1>8, <1>9, <1>10, <1>11 DEF GroupInv, GroupBegins

LEMMA GroupDeleteKeeps ==
    ASSUME GroupInv, NEW s \in Slots, NEW g \in Groups, G!Delete(s, g),
           asked < MaxRequests, asked' = asked + 1
    PROVE  GroupInv'
<1>1. /\ G!TypeOK /\ G!Start(s, "delete", g, G!None) /\ G!Contest({g}) /\ ~G!Visible
      /\ UNCHANGED <<srv, page, dialog, reads, faults>> /\ {g} \in SUBSET Groups
  BY DEF GroupInv, G!Delete, G!OnCards
<1>2. /\ hist' \in GroupHistories /\ hist'.contested = hist.contested \cup {g}
      /\ hist'.isolations = hist.isolations /\ hist'.undos = hist.undos
  BY <1>1, GroupContested
<1>3. dialog' \in GroupDialogs /\ G!BatchNamesItsGroup'
  BY <1>1, <1>2, GroupTypes DEF GroupInv, G!BatchNamesItsGroup
<1>4. GroupBegins(s, "delete", g, G!None)
  BY <1>1, <1>2, <1>3 DEF GroupBegins
<1> QED
  BY <1>4, GroupBeginsKeeps

\* Handlers that are neither read for nor have changed members of an uncontested group
\* end; others may outlive the members tab.
GroupHandlersEnd ==
    /\ job' \in [Slots -> GroupHandlers]
    /\ \A s \in Slots :
         job'[s] # G!Idle => /\ job[s] # G!Idle
                             /\ job'[s].op = job[s].op /\ job'[s].on = job[s].on
                             /\ job'[s].then = job[s].then /\ job'[s].host = job[s].host
                             /\ job'[s].stage = job[s].stage
    /\ \A s \in Slots :
         job[s] # G!Idle /\ job'[s] = G!Idle =>
           /\ job[s].stage # "fetching"
           /\ job[s].stage = "ok" => job[s].on \in hist.contested

LEMMA GroupHandlersEndKeeps ==
    ASSUME GroupInv, GroupHandlersEnd, dialog'.shown = dialog.shown, UNCHANGED <<srv, hist, reads>>
    PROVE  GroupHandlersAsk' /\ GroupReadsFit' /\ GroupsAgree' /\ G!BatchNamesItsGroup'
<1>1. GroupHandlersAsk'
  BY DEF GroupInv, GroupHandlersAsk, GroupHandlersEnd
<1>2. GroupReadsFit'
  <2> SUFFICES ASSUME NEW r \in reads, r.by = "handler" PROVE GroupHandlerRead(r)'
    BY DEF GroupInv, GroupReadsFit
  <2>1. GroupHandlerRead(r)
    BY DEF GroupInv, GroupReadsFit
  <2> QED
    BY <2>1 DEF GroupHandlerRead, GroupHandlersEnd
<1>3. GroupsAgree'
  <2> SUFFICES ASSUME NEW k \in Groups \ hist.contested PROVE GroupAgrees(k)'
    BY DEF GroupsAgree
  <2>1. GroupAgrees(k) /\ G!Dialogs' = G!Dialogs
    BY DEF GroupInv, GroupsAgree, G!Dialogs
  <2> QED
    BY <2>1 DEF GroupAgrees, GroupHandlersEnd
<1>4. G!BatchNamesItsGroup'
  BY DEF GroupInv, G!BatchNamesItsGroup
<1> QED
  BY <1>1, <1>2, <1>3, <1>4

\* The deletion of the group that was selected when the handler began.
LEMMA GroupGoneKeeps ==
    ASSUME GroupInv, NEW s \in Slots, job[s] # G!Idle, job[s].op = "delete",
           job[s].stage = "ok", dialog' = G!Unmounted(dialog),
           job' = [t \in Slots |-> IF t = s THEN G!Idle ELSE G!Outlived(job[t])],
           page' \in GroupPages, page'.loading = page.loading, page'.selected = G!Nothing,
           UNCHANGED <<srv, hist, reads, asked, faults>>
    PROVE  GroupInv'
<1>1. /\ G!TypeOK /\ dialog \in GroupDialogs /\ reads \subseteq G!Reads
      /\ srv \in GroupServers /\ job \in [Slots -> GroupHandlers] /\ hist \in GroupHistories
      /\ asked' \in 0 .. MaxRequests /\ faults' \in 0 .. MaxFaults
  BY GroupTypes DEF GroupInv
<1>2. /\ dialog' \in GroupDialogs /\ dialog'.open = dialog.open /\ dialog'.shown = dialog.shown
      /\ dialog'.loading = dialog.loading /\ dialog'.busy = dialog.busy
      /\ dialog'.confirm = dialog.confirm /\ dialog'.of = dialog.of
      /\ dialog'.moved = dialog.moved /\ dialog'.adding = FALSE /\ dialog'.removing = G!None
  BY <1>1 DEF GroupDialogs, G!Unmounted, G!GroupIds
<1>3. \A t \in Slots \ {s} :
        LET o == job'[t]
        IN /\ o \in GroupHandlers /\ (o = G!Idle <=> job[t] = G!Idle)
           /\ job[t] # G!Idle => /\ o.op = job[t].op /\ o.on = job[t].on /\ o.then = job[t].then
                                 /\ o.stage = job[t].stage /\ ~o.live /\ o.host = job[t].host
  <2>1. \A t \in Slots \ {s} : job'[t] = G!Outlived(job[t])
    OBVIOUS
  <2> QED
    BY <1>1, <2>1, GroupOutlived
<1>4. job'[s] = G!Idle
  OBVIOUS
<1>5. GroupHandlersEnd
  <2>1. job' \in [Slots -> GroupHandlers]
    BY <1>3, <1>4 DEF GroupHandlers
  <2>2. job[s].on \in hist.contested
    BY DEF GroupInv, GroupHandlersAsk
  <2> QED
    BY <1>3, <1>4, <2>1, <2>2 DEF GroupHandlersEnd
<1>6. G!TypeOK'
  BY <1>1, <1>2, <1>5
     DEF GroupHandlersEnd, G!TypeOK, GroupServers, GroupHistories, GroupPages, GroupDialogs,
         GroupHandlers
<1>7. GroupHandlersAsk' /\ GroupReadsFit' /\ GroupsAgree' /\ G!BatchNamesItsGroup'
  BY <1>2, <1>5, GroupHandlersEndKeeps
<1>8. dialog.open => dialog.moved
  BY DEF GroupInv, GroupStays, G!Visible
<1>9. GroupStays' /\ GroupUndoAgrees'
  BY <1>2, <1>8 DEF GroupInv, GroupStays, GroupUndoAgrees, G!Visible
<1>10. GroupFlags'
  <2>1. ASSUME NEW t \in Slots, job[t] # G!Idle, job[t].op \in G!Batches
        PROVE  job'[t] # G!Idle /\ job'[t].op = job[t].op
    BY <1>3, <2>1 DEF G!Batches
  <2> QED
    BY <1>2, <2>1 DEF GroupInv, GroupFlags, G!Dialogs
<1> QED
  BY <1>6, <1>7, <1>9, <1>10 DEF GroupInv

\* A deletion ends without hiding the dialog.
LEMMA GroupDeletionEndsKeeps ==
    ASSUME GroupInv, NEW s \in Slots, job[s] # G!Idle, job[s].op = "delete",
           job[s].stage # "fetching", G!Ends(s),
           page' \in GroupPages, page'.loading = page.loading, page'.selected = page.selected,
           UNCHANGED <<srv, hist, dialog, reads, asked, faults>>
    PROVE  GroupInv'
<1>1. /\ G!TypeOK /\ dialog \in GroupDialogs /\ reads \subseteq G!Reads
      /\ srv \in GroupServers /\ job \in [Slots -> GroupHandlers] /\ hist \in GroupHistories
      /\ asked' \in 0 .. MaxRequests /\ faults' \in 0 .. MaxFaults
  BY GroupTypes DEF GroupInv
<1>2. /\ job' \in [Slots -> GroupHandlers] /\ \A t \in Slots \ {s} : job'[t] = job[t]
      /\ job'[s] = G!Idle
  BY <1>1, GroupEnded
<1>3. GroupHandlersEnd
  BY <1>2 DEF GroupInv, GroupHandlersAsk, GroupHandlersEnd
<1>4. G!TypeOK'
  BY <1>1, <1>2 DEF G!TypeOK, GroupServers, GroupHistories, GroupPages, GroupDialogs, GroupHandlers
<1>5. GroupHandlersAsk' /\ GroupReadsFit' /\ GroupsAgree' /\ G!BatchNamesItsGroup'
  BY <1>3, GroupHandlersEndKeeps
<1>6. GroupStays' /\ GroupUndoAgrees'
  BY <1>2 DEF GroupInv, GroupStays, GroupUndoAgrees, G!Visible, G!Current
<1>7. GroupFlags'
  <2>1. \A t \in Slots : job[t] # G!Idle /\ job[t].op # "delete" => job'[t] = job[t]
    BY <1>2
  <2> QED
    BY <2>1 DEF GroupInv, GroupFlags, G!Dialogs, G!Batches
<1> QED
  BY <1>4, <1>5, <1>6, <1>7 DEF GroupInv

LEMMA GroupDeletedKeeps ==
    ASSUME GroupInv, NEW s \in Slots, G!Deleted(s) \/ G!NotDeleted(s), UNCHANGED asked
    PROVE  GroupInv'
<1>1. page \in GroupPages
  BY GroupTypes DEF GroupInv
<1>2. CASE G!NotDeleted(s)
  BY <1>1, <1>2, GroupDeletionEndsKeeps DEF G!NotDeleted, G!Answered
<1>3. CASE G!Deleted(s)
  <2> DEFINE cards == page.cards \ G!Card(job[s].on)
             chosen == IF job[s].then = job[s].on THEN G!Nothing ELSE page.selected
  <2>1. /\ job[s] # G!Idle /\ job[s].op = "delete" /\ job[s].stage = "ok"
        /\ page' = [page EXCEPT !.cards = cards, !.selected = chosen]
        /\ UNCHANGED <<srv, hist, reads, faults>>
    BY <1>3 DEF G!Deleted, G!Answered
  <2>2. cards \in SUBSET G!Details /\ chosen \in G!Known
    BY <1>1, GroupDetails DEF GroupPages
  <2> HIDE DEF cards, chosen
  <2>3. page' \in GroupPages
    BY <1>1, <2>1, <2>2 DEF GroupPages
  <2>4. page'.selected = chosen /\ page'.loading = page.loading
    BY <1>1, <2>1 DEF GroupPages
  <2>5. CASE job[s].then = job[s].on
    <3>1. /\ dialog' = G!Unmounted(dialog)
          /\ job' = [t \in Slots |-> IF t = s THEN G!Idle ELSE G!Outlived(job[t])]
      BY <1>3, <2>5 DEF G!Deleted
    <3> QED
      BY <2>1, <2>3, <2>4, <2>5, <3>1, GroupGoneKeeps DEF chosen
  <2>6. CASE job[s].then # job[s].on
    <3>1. UNCHANGED dialog /\ G!Ends(s)
      BY <1>3, <2>6 DEF G!Deleted
    <3> QED
      BY <2>1, <2>3, <2>4, <2>6, <3>1, GroupDeletionEndsKeeps DEF chosen
  <2> QED
    BY <2>5, <2>6
<1> QED
  BY <1>2, <1>3

-----------------------------------------------------------------------------
(* The dialog of a group *)

\* What the dialog shows is a group, as long as it is on the screen.
LEMMA GroupCurrent ==
    ASSUME G!TypeOK, G!Visible
    PROVE  G!Current \in G!Details /\ G!Current.of \in Groups
BY GroupTypes, GroupDetails DEF G!Visible, G!Current, GroupPages, GroupDialogs

\* A click in the dialog that touches its confirmations only.
GroupConfirmations ==
    /\ dialog' \in GroupDialogs
    /\ dialog'.open = dialog.open /\ dialog'.shown = dialog.shown
    /\ dialog'.loading = dialog.loading /\ dialog'.busy = dialog.busy
    /\ dialog'.adding = dialog.adding /\ dialog'.removing = dialog.removing
    /\ dialog'.moved = dialog.moved
    /\ dialog'.confirm # "none" => dialog.open
    /\ dialog'.confirm = "undo" => /\ dialog'.of \in Groups
                                   /\ dialog.moved \/ dialog'.of = G!Current.of
    /\ UNCHANGED <<srv, hist, page, job, reads, asked, faults>>

LEMMA GroupConfirmationsKeep ==
    ASSUME GroupInv, GroupConfirmations
    PROVE  GroupInv'
<1>1. G!TypeOK'
  BY GroupTypes
     DEF GroupInv, GroupConfirmations, G!TypeOK, GroupServers, GroupHistories, GroupPages,
         GroupDialogs, GroupHandlers
<1>2. GroupHandlersAsk' /\ GroupReadsFit' /\ G!BatchNamesItsGroup'
  BY DEF GroupInv, GroupConfirmations, GroupHandlersAsk, GroupReadsFit, GroupHandlerRead,
         G!BatchNamesItsGroup
<1>3. GroupStays' /\ GroupUndoAgrees'
  BY DEF GroupInv, GroupConfirmations, GroupStays, GroupUndoAgrees, G!Visible, G!Current
<1>4. GroupsAgree'
  BY DEF GroupInv, GroupConfirmations, GroupsAgree, GroupAgrees, G!Dialogs
<1>5. GroupFlags'
  BY DEF GroupInv, GroupConfirmations, GroupFlags, G!Dialogs
<1> QED
  BY <1>1, <1>2, <1>3, <1>4, <1>5 DEF GroupInv

LEMMA GroupOpenConfirmKeeps ==
    ASSUME GroupInv, G!OpenIsolate \/ G!OpenUndo, UNCHANGED asked
    PROVE  GroupInv'
<1>1. /\ G!TypeOK /\ dialog \in GroupDialogs /\ G!Visible /\ dialog.open
      /\ UNCHANGED <<srv, hist, page, job, reads, faults>>
  BY GroupTypes DEF GroupInv, G!OpenIsolate, G!OpenUndo, G!Footer, G!InDialog, G!Visible
<1>2. G!Current.of \in Groups
  BY <1>1, GroupCurrent
<1>3. CASE dialog' = [dialog EXCEPT !.confirm = "isolate", !.named = G!None]
  <2>1. GroupConfirmations
    BY <1>1, <1>3 DEF GroupConfirmations, GroupDialogs, G!Batches, G!GroupIds
  <2> QED
    BY <2>1, GroupConfirmationsKeep
<1>4. CASE dialog' = [dialog EXCEPT !.confirm = "undo", !.of = G!Current.of]
  <2> DEFINE of == G!Current.of
  <2>1. of \in Groups /\ dialog' = [dialog EXCEPT !.confirm = "undo", !.of = of]
    BY <1>2, <1>4
  <2>2. of = G!Current.of
    OBVIOUS
  <2> HIDE DEF of
  <2>3. /\ dialog' \in GroupDialogs
        /\ dialog'.open = dialog.open /\ dialog'.shown = dialog.shown
        /\ dialog'.loading = dialog.loading /\ dialog'.busy = dialog.busy
        /\ dialog'.adding = dialog.adding /\ dialog'.removing = dialog.removing
        /\ dialog'.moved = dialog.moved /\ dialog'.confirm = "undo" /\ dialog'.of = of
    BY <1>1, <2>1 DEF GroupDialogs, G!Batches, G!GroupIds
  <2>4. GroupConfirmations
    BY <1>1, <2>1, <2>2, <2>3 DEF GroupConfirmations
  <2> QED
    BY <2>4, GroupConfirmationsKeep
<1> QED
  BY <1>3, <1>4 DEF G!OpenIsolate, G!OpenUndo

LEMMA TypeNameKeeps ==
    ASSUME GroupInv, NEW g \in Groups, G!TypeName(g), UNCHANGED asked
    PROVE  GroupInv'
<1>1. /\ dialog \in GroupDialogs /\ dialog.confirm = "isolate" /\ dialog.open
      /\ dialog' = [dialog EXCEPT !.named = g]
      /\ UNCHANGED <<srv, hist, page, job, reads, faults>>
  BY GroupTypes DEF GroupInv, G!TypeName, G!Visible
<1>2. GroupConfirmations
  BY <1>1 DEF GroupConfirmations, GroupDialogs, G!GroupIds
<1> QED
  BY <1>2, GroupConfirmationsKeep

\* The confirmation is closed.
LEMMA GroupUnconfirmed ==
    ASSUME NEW d \in GroupDialogs
    PROVE  LET u == G!Unconfirmed(d)
           IN /\ u \in GroupDialogs /\ u.open = d.open /\ u.shown = d.shown
              /\ u.loading = d.loading /\ u.busy = d.busy /\ u.adding = d.adding
              /\ u.removing = d.removing /\ u.moved = d.moved /\ u.confirm = "none"
              /\ u.of = G!None
BY DEF GroupDialogs, G!Unconfirmed, G!GroupIds

LEMMA CancelConfirmKeeps ==
    ASSUME GroupInv, G!CancelConfirm, UNCHANGED asked
    PROVE  GroupInv'
<1>1. /\ dialog \in GroupDialogs /\ dialog' = G!Unconfirmed(dialog)
      /\ UNCHANGED <<srv, hist, page, job, reads, faults>>
  BY GroupTypes DEF GroupInv, G!CancelConfirm
<1>2. GroupConfirmations
  BY <1>1, GroupUnconfirmed DEF GroupConfirmations
<1> QED
  BY <1>2, GroupConfirmationsKeep

LEMMA GroupCloseKeeps ==
    ASSUME GroupInv, G!Close, UNCHANGED asked
    PROVE  GroupInv'
<1> DEFINE d == G!Unmounted(G!Unconfirmed(dialog))
<1>1. /\ G!TypeOK /\ dialog \in GroupDialogs /\ reads \subseteq G!Reads /\ page \in GroupPages
      /\ srv \in GroupServers /\ job \in [Slots -> GroupHandlers] /\ hist \in GroupHistories
      /\ UNCHANGED <<srv, hist, page, reads, faults>> /\ ~dialog.busy
      /\ dialog' = [d EXCEPT !.open = FALSE, !.moved = FALSE]
      /\ job' = [s \in Slots |-> G!Outlived(job[s])]
  BY GroupTypes DEF GroupInv, G!Close
<1>2. /\ d \in GroupDialogs /\ d.shown = dialog.shown /\ d.loading = dialog.loading
      /\ d.busy = dialog.busy /\ d.confirm = "none" /\ d.adding = FALSE
      /\ d.removing = G!None
  <2> DEFINE u == G!Unconfirmed(dialog)
  <2>1. /\ u \in GroupDialogs /\ u.shown = dialog.shown /\ u.loading = dialog.loading
        /\ u.busy = dialog.busy /\ u.confirm = "none"
    BY <1>1, GroupUnconfirmed
  <2> HIDE DEF u
  <2>2. d = G!Unmounted(u)
    BY DEF u
  <2> QED
    BY <2>1, <2>2 DEF GroupDialogs, G!Unmounted, G!GroupIds
<1> HIDE DEF d
<1>3. /\ dialog' \in GroupDialogs /\ dialog'.shown = dialog.shown
      /\ dialog'.loading = dialog.loading /\ dialog'.busy = dialog.busy
      /\ dialog'.confirm = "none" /\ dialog'.adding = FALSE /\ dialog'.removing = G!None
      /\ dialog'.open = FALSE
  BY <1>1, <1>2 DEF GroupDialogs
<1>4. \A t \in Slots :
        LET o == job'[t]
        IN /\ o \in GroupHandlers /\ (o = G!Idle <=> job[t] = G!Idle)
           /\ job[t] # G!Idle => /\ o.op = job[t].op /\ o.on = job[t].on /\ o.then = job[t].then
                                 /\ o.stage = job[t].stage /\ ~o.live /\ o.host = job[t].host
  <2>1. \A t \in Slots : job'[t] = G!Outlived(job[t])
    BY <1>1
  <2> QED
    BY <1>1, <2>1, GroupOutlived
<1>5. GroupHandlersEnd
  <2>1. job' \in [Slots -> GroupHandlers]
    BY <1>1, <1>4 DEF GroupHandlers
  <2> QED
    BY <1>4, <2>1 DEF GroupHandlersEnd
<1>6. asked' \in 0 .. MaxRequests /\ faults' \in 0 .. MaxFaults
  BY <1>1, GroupTypes
<1>7. G!TypeOK'
  BY <1>1, <1>3, <1>5, <1>6
     DEF GroupHandlersEnd, G!TypeOK, GroupServers, GroupHistories, GroupPages, GroupDialogs,
         GroupHandlers
<1>8. GroupHandlersAsk' /\ GroupReadsFit' /\ GroupsAgree' /\ G!BatchNamesItsGroup'
  BY <1>1, <1>3, <1>5, GroupHandlersEndKeeps
<1>9. GroupStays' /\ GroupUndoAgrees'
  BY <1>3 DEF GroupStays, GroupUndoAgrees, G!Visible
<1>10. GroupFlags'
  BY <1>1, <1>3 DEF GroupInv, GroupFlags, G!Dialogs
<1> QED
  BY <1>7, <1>8, <1>9, <1>10 DEF GroupInv

-----------------------------------------------------------------------------
(* Operations on a group are begun *)

LEMMA GroupMemberOpKeeps ==
    ASSUME GroupInv, NEW s \in Slots, NEW h \in Hosts, G!Add(s, h) \/ G!Remove(s, h),
           asked < MaxRequests, asked' = asked + 1
    PROVE  GroupInv'
<1> DEFINE g == G!Current.of
<1>1. /\ G!TypeOK /\ dialog \in GroupDialogs /\ G!Visible
      /\ G!Contest(G!ContestedByStart(g))
      /\ UNCHANGED <<srv, page, reads, faults>>
  BY GroupTypes
     DEF GroupInv, G!Add, G!Remove, G!AddEnabled, G!RowEnabled, G!InDialog
<1>2. g \in Groups
  BY <1>1, GroupCurrent
<1> HIDE DEF g
<1>3. G!ContestedByStart(g) \in SUBSET Groups
  BY <1>2 DEF G!ContestedByStart
<1>4. /\ hist' \in GroupHistories /\ hist'.contested = hist.contested \cup G!ContestedByStart(g)
      /\ hist'.isolations = hist.isolations /\ hist'.undos = hist.undos
  BY <1>1, <1>3, GroupContested
<1>5. G!BatchNamesItsGroup'
  BY <1>4 DEF GroupInv, G!BatchNamesItsGroup
<1>6. CASE G!Add(s, h)
  <2>1. G!Start(s, "add", g, h) /\ dialog' = [dialog EXCEPT !.adding = TRUE]
    BY <1>6 DEF G!Add, g
  <2>2. /\ dialog' \in GroupDialogs /\ dialog'.open = dialog.open /\ dialog'.shown = dialog.shown
        /\ dialog'.loading = dialog.loading /\ dialog'.confirm = dialog.confirm
        /\ dialog'.of = dialog.of /\ dialog'.moved = dialog.moved
        /\ dialog'.busy = dialog.busy /\ dialog'.removing = dialog.removing
    BY <1>1, <2>1 DEF GroupDialogs
  <2>3. GroupBegins(s, "add", g, h)
    BY <1>1, <1>2, <1>4, <1>5, <2>1, <2>2 DEF GroupBegins, G!MemberOps
  <2> QED
    BY <2>3, GroupBeginsKeeps
<1>7. CASE G!Remove(s, h)
  <2>1. G!Start(s, "remove", g, h) /\ dialog' = [dialog EXCEPT !.removing = h]
    BY <1>7 DEF G!Remove, g
  <2>2. /\ dialog' \in GroupDialogs /\ dialog'.open = dialog.open /\ dialog'.shown = dialog.shown
        /\ dialog'.loading = dialog.loading /\ dialog'.confirm = dialog.confirm
        /\ dialog'.of = dialog.of /\ dialog'.moved = dialog.moved
        /\ dialog'.busy = dialog.busy /\ dialog'.adding = dialog.adding
    BY <1>1, <2>1 DEF GroupDialogs
  <2>3. GroupBegins(s, "remove", g, h)
    BY <1>1, <1>2, <1>4, <1>5, <2>1, <2>2 DEF GroupBegins, G!MemberOps
  <2> QED
    BY <2>3, GroupBeginsKeeps
<1> QED
  BY <1>6, <1>7

\* A batch on group g is begun, and the request for it is recorded.
LEMMA GroupBatchKeeps ==
    ASSUME GroupInv, NEW s \in Slots, NEW op \in G!Batches, NEW g \in Groups,
           G!Visible, g = G!Current.of, G!Start(s, op, g, G!None),
           dialog' = [dialog EXCEPT !.busy = TRUE],
           NEW isolations \in SUBSET [on : Groups, named : G!GroupIds],
           NEW undos \in SUBSET [on : Groups, of : Groups, moved : BOOLEAN],
           hist' = [hist EXCEPT !.contested = @ \cup G!ContestedByStart(g),
                                !.isolations = @ \cup isolations, !.undos = @ \cup undos],
           \A i \in isolations : i.named = i.on,
           \A u \in undos : u.on = u.of \/ u.moved,
           UNCHANGED <<srv, page, reads, faults>>,
           asked < MaxRequests, asked' = asked + 1
    PROVE  GroupInv'
<1>1. dialog \in GroupDialogs /\ hist \in GroupHistories
  BY GroupTypes DEF GroupInv
<1> DEFINE c == hist.contested \cup G!ContestedByStart(g)
           i == hist.isolations \cup isolations
           u == hist.undos \cup undos
<1>2. /\ c \in SUBSET Groups /\ i \in SUBSET [on : Groups, named : G!GroupIds]
      /\ u \in SUBSET [on : Groups, of : Groups, moved : BOOLEAN]
  BY <1>1 DEF GroupHistories, G!ContestedByStart
<1>3. hist' = [hist EXCEPT !.contested = c, !.isolations = i, !.undos = u]
  OBVIOUS
<1> HIDE DEF c, i, u
<1>4. hist' \in GroupHistories /\ hist'.contested = c /\ hist'.isolations = i /\ hist'.undos = u
  BY <1>1, <1>2, <1>3 DEF GroupHistories
<1>5. G!BatchNamesItsGroup'
  BY <1>4 DEF GroupInv, G!BatchNamesItsGroup, i, u
<1>6. /\ dialog' \in GroupDialogs /\ dialog'.open = dialog.open /\ dialog'.shown = dialog.shown
      /\ dialog'.loading = dialog.loading /\ dialog'.confirm = dialog.confirm
      /\ dialog'.of = dialog.of /\ dialog'.moved = dialog.moved
      /\ dialog'.removing = dialog.removing /\ dialog'.adding = dialog.adding
  BY <1>1 DEF GroupDialogs
<1>7. op # "delete" /\ op # "add"
  BY DEF G!Batches
<1>8. GroupBegins(s, op, g, G!None)
  BY <1>4, <1>5, <1>6, <1>7 DEF GroupBegins, c
<1> QED
  BY <1>8, GroupBeginsKeeps

LEMMA GroupConfirmIsolateKeeps ==
    ASSUME GroupInv, NEW s \in Slots, G!ConfirmIsolate(s),
           asked < MaxRequests, asked' = asked + 1
    PROVE  GroupInv'
<1> DEFINE g == G!Current.of
           isolations == {[on |-> g, named |-> dialog.named]}
           undos == {}
<1>1. /\ G!TypeOK /\ G!Visible /\ dialog.named = g /\ G!Start(s, "isolate", g, G!None)
      /\ dialog' = [dialog EXCEPT !.busy = TRUE] /\ hist \in GroupHistories
      /\ UNCHANGED <<srv, page, reads, faults>>
  BY GroupTypes DEF GroupInv, G!ConfirmIsolate, G!CanSubmit
<1>2. g \in Groups
  BY <1>1, GroupCurrent
<1>3. hist' = [hist EXCEPT !.contested = @ \cup G!ContestedByStart(g),
                           !.isolations = @ \cup isolations]
  BY DEF G!ConfirmIsolate
<1>4. /\ isolations \in SUBSET [on : Groups, named : G!GroupIds]
      /\ \A i \in isolations : i.named = i.on
  BY <1>1, <1>2 DEF G!GroupIds
<1>5. undos \in SUBSET [on : Groups, of : Groups, moved : BOOLEAN]
  OBVIOUS
<1>6. \A u \in undos : u.on = u.of \/ u.moved
  OBVIOUS
<1>7. g = G!Current.of /\ "isolate" \in G!Batches
  BY DEF G!Batches
<1> HIDE DEF g, isolations
<1>8. hist' = [hist EXCEPT !.contested = @ \cup G!ContestedByStart(g),
                           !.isolations = @ \cup isolations, !.undos = @ \cup undos]
  BY <1>1, <1>3 DEF GroupHistories
<1> HIDE DEF undos
<1> QED
  BY <1>1, <1>2, <1>4, <1>5, <1>6, <1>7, <1>8, GroupBatchKeeps

LEMMA GroupConfirmUndoKeeps ==
    ASSUME GroupInv, NEW s \in Slots, G!ConfirmUndo(s),
           asked < MaxRequests, asked' = asked + 1
    PROVE  GroupInv'
<1> DEFINE g == G!Current.of
           undos == {[on |-> g, of |-> dialog.of, moved |-> dialog.moved]}
           isolations == {}
<1>1. /\ G!TypeOK /\ G!Visible /\ dialog.confirm = "undo" /\ G!Start(s, "undo", g, G!None)
      /\ dialog' = [dialog EXCEPT !.busy = TRUE] /\ hist \in GroupHistories
      /\ UNCHANGED <<srv, page, reads, faults>> /\ dialog \in GroupDialogs
  BY GroupTypes DEF GroupInv, G!ConfirmUndo
<1>2. g \in Groups
  BY <1>1, GroupCurrent
<1>3. hist' = [hist EXCEPT !.contested = @ \cup G!ContestedByStart(g), !.undos = @ \cup undos]
  BY DEF G!ConfirmUndo
<1>4. dialog.of \in Groups /\ (dialog.moved \/ dialog.of = g) /\ dialog.moved \in BOOLEAN
  BY <1>1 DEF GroupInv, GroupUndoAgrees, GroupDialogs
<1>5. /\ undos \in SUBSET [on : Groups, of : Groups, moved : BOOLEAN]
      /\ \A u \in undos : u.on = u.of \/ u.moved
  BY <1>2, <1>4
<1>6. isolations \in SUBSET [on : Groups, named : G!GroupIds]
  OBVIOUS
<1>7. \A i \in isolations : i.named = i.on
  OBVIOUS
<1>8. g = G!Current.of /\ "undo" \in G!Batches
  BY DEF G!Batches
<1> HIDE DEF g, undos
<1>9. hist' = [hist EXCEPT !.contested = @ \cup G!ContestedByStart(g),
                           !.isolations = @ \cup isolations, !.undos = @ \cup undos]
  BY <1>1, <1>3 DEF GroupHistories
<1> HIDE DEF isolations
<1> QED
  BY <1>1, <1>2, <1>5, <1>6, <1>7, <1>8, <1>9, GroupBatchKeeps

-----------------------------------------------------------------------------
(* Answers in the dialog *)

\* The same dialog, but for what an answer enables; its confirmation may be closed.
SameConfirmation(e, d) ==
    /\ e \in GroupDialogs /\ e.open = d.open
    /\ e.confirm = "none" \/ (e.confirm = d.confirm /\ e.of = d.of)

\* "finally" of a handler with the fields of j.
GroupDoneWith(e, d, j) ==
    /\ SameConfirmation(e, d) /\ e.shown = d.shown /\ e.loading = d.loading
    /\ e.moved = d.moved
    /\ e.busy => d.busy /\ j.op \notin G!Batches
    /\ e.adding => d.adding /\ ~(j.op = "add" /\ j.live)
    /\ e.removing # G!None => d.removing # G!None /\ ~(j.op = "remove" /\ j.live)

LEMMA GroupDone ==
    ASSUME NEW d \in GroupDialogs, NEW j \in G!Jobs, j.op \in G!Batches \cup G!MemberOps
    PROVE  GroupDoneWith(G!Done(d, j), d, j)
<1> DEFINE u == G!Unconfirmed(d)
<1>1. /\ u \in GroupDialogs /\ u.open = d.open /\ u.shown = d.shown
      /\ u.loading = d.loading /\ u.busy = d.busy /\ u.adding = d.adding
      /\ u.removing = d.removing /\ u.moved = d.moved /\ u.confirm = "none"
  BY GroupUnconfirmed
<1> HIDE DEF u
<1>2. CASE j.op \in G!Batches
  <2>1. \/ G!Done(d, j) = [u EXCEPT !.busy = FALSE]
        \/ G!Done(d, j) = [d EXCEPT !.busy = FALSE]
    BY <1>2 DEF G!Done, u
  <2>2. j.op # "add" /\ j.op # "remove"
    BY <1>2 DEF G!Batches
  <2>3. CASE G!Done(d, j) = [u EXCEPT !.busy = FALSE]
    BY <1>1, <1>2, <2>2, <2>3 DEF GroupDoneWith, SameConfirmation, GroupDialogs
  <2>4. CASE G!Done(d, j) = [d EXCEPT !.busy = FALSE]
    BY <1>2, <2>2, <2>4 DEF GroupDoneWith, SameConfirmation, GroupDialogs
  <2> QED
    BY <2>1, <2>3, <2>4
<1>3. CASE j.op \notin G!Batches
  <2>1. \/ ~j.live /\ G!Done(d, j) = d
        \/ j.op = "add" /\ G!Done(d, j) = [d EXCEPT !.adding = FALSE]
        \/ j.op = "remove" /\ G!Done(d, j) = [d EXCEPT !.removing = G!None]
    BY <1>3 DEF G!Done, G!MemberOps
  <2> QED
    BY <1>3, <2>1 DEF GroupDoneWith, SameConfirmation, GroupDialogs
<1> QED
  BY <1>2, <1>3

LEMMA GroupFailedKeeps ==
    ASSUME GroupInv, NEW s \in Slots, G!Failed(s), UNCHANGED asked
    PROVE  GroupInv'
<1>1. /\ G!TypeOK /\ dialog \in GroupDialogs /\ reads \subseteq G!Reads /\ page \in GroupPages
      /\ srv \in GroupServers /\ job \in [Slots -> GroupHandlers] /\ hist \in GroupHistories
      /\ UNCHANGED <<srv, hist, page, reads, faults>>
      /\ job[s] # G!Idle /\ job[s].op \in G!Batches \cup G!MemberOps /\ job[s].stage = "err"
      /\ G!Ends(s) /\ dialog' = G!Done(dialog, job[s])
  BY GroupTypes DEF GroupInv, G!Failed, G!Answered
<1>2. job[s] \in G!Jobs
  BY <1>1, GroupHandler
<1>3. GroupDoneWith(dialog', dialog, job[s])
  BY <1>1, <1>2, GroupDone
<1>4. /\ job' \in [Slots -> GroupHandlers] /\ \A t \in Slots \ {s} : job'[t] = job[t]
      /\ job'[s] = G!Idle
  BY <1>1, GroupEnded
<1>5. GroupHandlersEnd
  BY <1>1, <1>4 DEF GroupHandlersEnd
<1>6. asked' \in 0 .. MaxRequests /\ faults' \in 0 .. MaxFaults /\ dialog' \in GroupDialogs
  BY <1>1, <1>3, GroupTypes DEF GroupDoneWith, SameConfirmation
<1>7. G!TypeOK'
  BY <1>1, <1>4, <1>6
     DEF G!TypeOK, GroupServers, GroupHistories, GroupPages, GroupDialogs, GroupHandlers
<1>8. GroupHandlersAsk' /\ GroupReadsFit' /\ GroupsAgree' /\ G!BatchNamesItsGroup'
  BY <1>1, <1>3, <1>5, GroupHandlersEndKeeps DEF GroupDoneWith
<1>9. GroupStays'
  BY <1>1, <1>3, <1>4
     DEF GroupInv, GroupStays, G!Visible, GroupDoneWith, SameConfirmation
<1>10. GroupUndoAgrees'
  BY <1>1, <1>3
     DEF GroupInv, GroupUndoAgrees, GroupDoneWith, SameConfirmation, G!Current
<1>11. GroupFlags'
  BY <1>1, <1>3, <1>4 DEF GroupInv, GroupFlags, GroupDoneWith, SameConfirmation, G!Dialogs
<1> QED
  BY <1>7, <1>8, <1>9, <1>10, <1>11 DEF GroupInv

LEMMA GroupSucceededKeeps ==
    ASSUME GroupInv, NEW s \in Slots, G!Succeeded(s), UNCHANGED asked
    PROVE  GroupInv'
<1> DEFINE then == job[s].then
           b == G!DetailRead("handler", then, s)
           gs == G!ContestedByRead(then) \cup (IF then # job[s].on THEN {job[s].on} ELSE {})
           d == IF job[s].op \in G!Batches THEN G!Unconfirmed(dialog) ELSE dialog
<1>1. /\ G!TypeOK /\ dialog \in GroupDialogs /\ reads \subseteq G!Reads /\ page \in GroupPages
      /\ srv \in GroupServers /\ job \in [Slots -> GroupHandlers] /\ hist \in GroupHistories
      /\ UNCHANGED <<srv, page, faults>>
      /\ job[s] # G!Idle /\ job[s].op \in G!Batches \cup G!MemberOps /\ job[s].stage = "ok"
      /\ G!Step(s, "fetching") /\ reads' = reads \cup {b} /\ G!Contest(gs)
      /\ dialog' = [d EXCEPT !.loading = TRUE]
  BY GroupTypes DEF GroupInv, G!Succeeded, G!Answered
<1>2. then \in Groups /\ job[s].on \in Groups /\ job[s].op # "delete"
  BY <1>1, GroupHandler DEF GroupInv, GroupHandlersAsk, G!Batches, G!MemberOps
<1>3. /\ job' \in [Slots -> GroupHandlers] /\ \A t \in Slots \ {s} : job'[t] = job[t]
      /\ SameHandler(s) /\ job'[s].stage = "fetching"
  BY <1>1, GroupStepped DEF SameHandler
<1>4. /\ b \in G!Reads /\ b.by = "handler" /\ b.slot = s /\ b.of = then
      /\ \A e \in b.cards : e.of = then /\ e.members = srv.members[then]
  BY <1>1, <1>2, GroupDetailRead
<1> HIDE DEF b
<1>5. gs \in SUBSET Groups
  BY <1>2 DEF G!ContestedByRead
<1>6. /\ hist' \in GroupHistories /\ hist'.contested = hist.contested \cup gs
      /\ hist'.isolations = hist.isolations /\ hist'.undos = hist.undos
  BY <1>1, <1>5, GroupContested
<1>7. /\ SameConfirmation(d, dialog) /\ d.shown = dialog.shown /\ d.moved = dialog.moved
      /\ d.busy = dialog.busy /\ d.adding = dialog.adding /\ d.removing = dialog.removing
  BY <1>1, GroupUnconfirmed DEF SameConfirmation
<1> HIDE DEF d
<1>8. /\ SameConfirmation(dialog', dialog) /\ dialog'.shown = dialog.shown
      /\ dialog'.moved = dialog.moved /\ dialog'.busy = dialog.busy
      /\ dialog'.adding = dialog.adding /\ dialog'.removing = dialog.removing
  BY <1>1, <1>7 DEF SameConfirmation, GroupDialogs
<1>9. asked' \in 0 .. MaxRequests /\ faults' \in 0 .. MaxFaults /\ dialog' \in GroupDialogs
  BY <1>1, <1>8, GroupTypes DEF SameConfirmation
<1>10. reads' \subseteq G!Reads
  BY <1>1, <1>4
<1>11. G!TypeOK'
  BY <1>1, <1>3, <1>6, <1>9, <1>10
     DEF G!TypeOK, GroupServers, GroupHistories, GroupPages, GroupDialogs, GroupHandlers
<1>12. GroupHandlersAsk'
  BY <1>3, <1>6 DEF GroupInv, GroupHandlersAsk, SameHandler
<1>13. GroupReadsFit'
  <2>1. ASSUME NEW q \in reads, q.by = "handler"
        PROVE  q.slot # s /\ GroupHandlerRead(q)'
    <3>1. GroupHandlerRead(q) /\ q.slot # s
      BY <1>1, <2>1 DEF GroupInv, GroupReadsFit, GroupHandlerRead
    <3>2. job'[q.slot] = job[q.slot]
      BY <1>3, <3>1 DEF GroupHandlerRead
    <3>3. \A p \in reads' : p.by = "handler" /\ p.slot = q.slot => p = q
      BY <1>1, <1>4, <3>1 DEF GroupHandlerRead
    <3> QED
      BY <3>1, <3>2, <3>3 DEF GroupHandlerRead
  <2>2. \A p \in reads' : p.by = "handler" /\ p.slot = s => p = b
    BY <1>1, <2>1
  <2>3. ASSUME NEW q \in reads', q.by = "handler", q \notin reads PROVE GroupHandlerRead(q)'
    <3>1. q = b
      BY <1>1, <2>3
    <3>2. \A p \in reads' : p.by = "handler" /\ p.slot = q.slot => p = q
      BY <1>4, <2>2, <3>1
    <3> QED
      BY <1>2, <1>3, <1>4, <3>1, <3>2 DEF GroupHandlerRead, SameHandler
  <2>4. ASSUME NEW q \in reads', q.by # "list"
        PROVE  q.of \in Groups /\ \A c \in q.cards : c.of = q.of
    BY <1>1, <1>2, <1>4, <2>4 DEF GroupInv, GroupReadsFit
  <2> QED
    BY <2>1, <2>3, <2>4 DEF GroupReadsFit
<1>14. GroupStays'
  BY <1>1, <1>3, <1>4, <1>8
     DEF GroupInv, GroupStays, G!Visible, SameConfirmation, SameHandler
<1>15. GroupUndoAgrees'
  BY <1>1, <1>8 DEF GroupInv, GroupUndoAgrees, SameConfirmation, G!Current
<1>16. b \in G!Dialogs' /\ G!Dialogs' = G!Dialogs \cup {b}
  BY <1>1, <1>4 DEF G!Dialogs
<1>17. GroupsAgree'
  <2>1. \A t \in Slots : job[t] # G!Idle /\ job[t].stage = "ok" =>
          \/ job[t].on \in hist'.contested
          \/ job'[t] # G!Idle /\ job'[t].stage = "ok"
          \/ \E r \in G!Dialogs' : r.of = job[t].on
    <3>1. job[s].on \in hist'.contested \/ b.of = job[s].on
      BY <1>4, <1>6
    <3> QED
      BY <1>3, <1>16, <3>1
  <2>2. \A t \in Slots : job'[t] # G!Idle =>
          SameHandler(t) /\ (job'[t].stage = "sent" => job[t].stage = "sent")
    BY <1>3 DEF SameHandler
  <2> QED
    BY <1>1, <1>2, <1>4, <1>6, <1>8, <1>16, <2>1, <2>2, GroupReadAgrees
<1>18. GroupFlags'
  <2>1. \A t \in Slots : job[t] # G!Idle => SameHandler(t)
    BY <1>3 DEF SameHandler
  <2> QED
    BY <1>1, <1>8, <1>16, <2>1 DEF GroupInv, GroupFlags, SameHandler
<1>19. G!BatchNamesItsGroup'
  BY <1>6 DEF GroupInv, G!BatchNamesItsGroup
<1> QED
  BY <1>11, <1>12, <1>13, <1>14, <1>15, <1>17, <1>18, <1>19 DEF GroupInv

\* The answer of the dialog's request r is shown, or there is none.
GroupShowsOrNot(r) ==
    \/ /\ \E c \in r.cards :
            /\ dialog'.shown = c
            /\ dialog'.moved = (dialog.moved \/ (dialog.open /\ dialog.shown.of \notin {G!None, c.of}))
       /\ UNCHANGED hist
    \/ dialog'.shown = dialog.shown /\ dialog'.moved = dialog.moved /\ G!Contest({r.of})

\* It comes to the dialog, and ends the handler it was for, if it was for one.
GroupArrives(r) ==
    /\ r.by \in {"dialog", "handler"} /\ GroupShowsOrNot(r)
    /\ SameConfirmation(dialog', dialog) /\ dialog'.loading = FALSE
    /\ page' \in GroupPages /\ page'.selected = page.selected
    /\ reads' \subseteq G!Reads
    /\ \A q \in reads \cup reads' : q.by # "list" => (q \in reads' <=> q \in reads /\ q # r)
    /\ job' \in [Slots -> GroupHandlers]
    /\ \A t \in Slots : job'[t] = job[t] \/ (job'[t] = G!Idle /\ r.by = "handler" /\ t = r.slot)
    /\ UNCHANGED srv /\ asked' \in 0 .. MaxRequests /\ faults' \in 0 .. MaxFaults

LEMMA GroupArrivesKeeps ==
    ASSUME GroupInv, NEW r \in reads, GroupArrives(r)
    PROVE  /\ G!TypeOK' /\ GroupHandlersAsk' /\ GroupReadsFit' /\ GroupStays' /\ GroupUndoAgrees'
           /\ GroupsAgree' /\ G!BatchNamesItsGroup'
<1>1. /\ G!TypeOK /\ dialog \in GroupDialogs /\ reads \subseteq G!Reads /\ page \in GroupPages
      /\ srv \in GroupServers /\ job \in [Slots -> GroupHandlers] /\ hist \in GroupHistories
  BY GroupTypes DEF GroupInv
<1>2. /\ r.of \in Groups /\ r.by # "list"
      /\ \A c \in r.cards : c \in G!Details /\ c.of = r.of
  BY <1>1 DEF GroupInv, GroupReadsFit, GroupArrives, G!Reads
<1>3. /\ hist' \in GroupHistories /\ hist.contested \subseteq hist'.contested
      /\ hist'.isolations = hist.isolations /\ hist'.undos = hist.undos
      /\ \/ r.of \in hist'.contested /\ dialog'.shown = dialog.shown /\ dialog'.moved = dialog.moved
         \/ \E c \in r.cards :
              /\ dialog'.shown = c
              /\ dialog'.moved = (dialog.moved
                                  \/ (dialog.open /\ dialog.shown.of \notin {G!None, c.of}))
  <2>1. CASE /\ UNCHANGED hist
             /\ \E c \in r.cards :
                  /\ dialog'.shown = c
                  /\ dialog'.moved = (dialog.moved
                                      \/ (dialog.open /\ dialog.shown.of \notin {G!None, c.of}))
    BY <1>1, <2>1
  <2>2. CASE G!Contest({r.of}) /\ dialog'.shown = dialog.shown /\ dialog'.moved = dialog.moved
    <3>1. {r.of} \in SUBSET Groups
      BY <1>2
    <3> QED
      BY <1>1, <2>2, <3>1, GroupContested
  <2> QED
    BY <2>1, <2>2 DEF GroupArrives, GroupShowsOrNot
<1>4. dialog' \in GroupDialogs
  BY DEF GroupArrives, SameConfirmation
<1>5. \A t \in Slots : job'[t] # G!Idle => job'[t] = job[t]
  BY DEF GroupArrives
<1>6. \A q \in reads' : q.by # "list" => q \in reads /\ q # r
  BY DEF GroupArrives
<1>7. G!TypeOK'
  BY <1>1, <1>3, <1>4
     DEF GroupArrives, G!TypeOK, GroupServers, GroupHistories, GroupPages, GroupDialogs,
         GroupHandlers
<1>8. GroupHandlersAsk'
  BY <1>3, <1>5 DEF GroupInv, GroupHandlersAsk
<1>9. GroupReadsFit'
  <2>1. ASSUME NEW q \in reads', q.by = "handler" PROVE GroupHandlerRead(q)'
    <3>1. q \in reads /\ q # r /\ GroupHandlerRead(q) /\ q.slot \in Slots
      BY <1>6, <2>1 DEF GroupInv, GroupReadsFit, GroupHandlerRead
    <3>2. job'[q.slot] = job[q.slot]
      BY <3>1 DEF GroupArrives, GroupHandlerRead
    <3>3. \A p \in reads' : p.by = "handler" /\ p.slot = q.slot => p = q
      BY <1>6, <3>1 DEF GroupHandlerRead
    <3> QED
      BY <3>1, <3>2, <3>3 DEF GroupHandlerRead
  <2> QED
    BY <1>6, <2>1 DEF GroupInv, GroupReadsFit
<1>10. dialog'.open = dialog.open /\ (dialog.moved => dialog'.moved)
  BY <1>3 DEF GroupArrives, SameConfirmation
<1>11. GroupStays'
  BY <1>5, <1>6, <1>10 DEF GroupInv, GroupStays, G!Visible, GroupArrives
<1>12. GroupUndoAgrees'
  <2>1. \/ dialog'.confirm = "none"
        \/ dialog'.confirm = dialog.confirm /\ dialog'.of = dialog.of
    BY DEF GroupArrives, SameConfirmation
  <2>2. ASSUME dialog'.confirm = "undo", ~dialog'.moved
        PROVE  dialog'.of = G!Current'.of
    <3>1. /\ dialog.confirm = "undo" /\ dialog'.of = dialog.of /\ ~dialog.moved /\ dialog.open
          /\ dialog.of = G!Current.of /\ page'.selected = page.selected
      BY <1>10, <2>1, <2>2 DEF GroupInv, GroupUndoAgrees, GroupArrives
    <3>2. CASE dialog'.shown = dialog.shown
      BY <3>1, <3>2 DEF G!Current
    <3>3. ASSUME NEW c \in r.cards, dialog'.shown = c, dialog.shown.of \in {G!None, c.of}
          PROVE  dialog'.of = G!Current'.of
      <4>1. G!Current' = c
        BY <1>2, <3>3, GroupDetails DEF G!Current
      <4>2. CASE dialog.shown.of = c.of
        <5>1. dialog.shown # G!Nothing
          BY <1>2, <4>2, GroupDetails, GroupAssumption
        <5> QED
          BY <3>1, <4>1, <4>2, <5>1 DEF G!Current
      <4>3. CASE dialog.shown.of = G!None
        <5>1. dialog.shown = G!Nothing
          BY <1>1, <4>3, GroupDetails, GroupAssumption DEF GroupDialogs
        <5>2. page.selected # G!Nothing
          BY <3>1 DEF GroupInv, GroupStays
        <5>3. r.of = page.selected.of
          BY <1>2, <3>1, <5>2 DEF GroupInv, GroupStays, G!Visible
        <5> QED
          BY <1>2, <3>1, <4>1, <5>1, <5>3 DEF G!Current
      <4> QED
        BY <3>3, <4>2, <4>3
    <3> QED
      BY <1>3, <2>2, <3>1, <3>2, <3>3
  <2> QED
    BY <1>10, <2>1, <2>2 DEF GroupInv, GroupUndoAgrees
<1>13. GroupsAgree'
  <2> SUFFICES ASSUME NEW k \in Groups \ hist'.contested PROVE GroupAgrees(k)'
    BY DEF GroupsAgree
  <2>1. GroupAgrees(k) /\ G!Dialogs' = G!Dialogs \ {r} /\ UNCHANGED srv /\ r \in G!Dialogs
    BY <1>3 DEF GroupInv, GroupsAgree, GroupArrives, G!Dialogs
  <2>2. ASSUME NEW s \in Slots, job[s] # G!Idle, job[s].stage = "ok"
        PROVE  job'[s] = job[s]
    BY <2>2 DEF GroupInv, GroupReadsFit, GroupHandlerRead, GroupArrives
  <2>3. ASSUME dialog'.shown.of = k
        PROVE  \/ dialog'.shown.members = srv.members[k]
               \/ \E s \in Slots : job'[s] # G!Idle /\ job'[s].on = k /\ job'[s].stage = "ok"
               \/ \E q \in G!Dialogs' : q.of = k
    <3>1. CASE \E c \in r.cards : dialog'.shown = c
      BY <1>2, <2>1, <2>3, <3>1 DEF GroupAgrees
    <3>2. CASE r.of \in hist'.contested /\ dialog'.shown = dialog.shown
      BY <2>1, <2>2, <2>3, <3>2 DEF GroupAgrees
    <3> QED
      BY <1>3, <3>1, <3>2
  <2> QED
    BY <1>5, <2>1, <2>3 DEF GroupAgrees
<1>14. G!BatchNamesItsGroup'
  BY <1>3 DEF GroupInv, G!BatchNamesItsGroup
<1> QED
  BY <1>7, <1>8, <1>9, <1>11, <1>12, <1>13, <1>14

LEMMA GroupShown ==
    ASSUME NEW d \in GroupDialogs, NEW c \in G!Details
    PROVE  LET e == G!Shows(d, c)
           IN /\ SameConfirmation(e, d) /\ e.shown = c /\ e.loading = FALSE
              /\ e.moved = (d.moved \/ (d.open /\ d.shown.of \notin {G!None, c.of}))
              /\ e.busy = d.busy /\ e.adding = d.adding /\ e.removing = d.removing
<1> DEFINE moves == d.moved \/ (d.open /\ d.shown.of \notin {G!None, c.of})
<1>1. moves \in BOOLEAN /\ c \in G!Known
  BY GroupDetails DEF GroupDialogs
<1>2. G!Shows(d, c) = [d EXCEPT !.shown = c, !.loading = FALSE, !.named = G!None,
                                !.moved = moves]
  BY DEF G!Shows
<1> HIDE DEF moves
<1>3. /\ SameConfirmation(G!Shows(d, c), d) /\ G!Shows(d, c).shown = c
      /\ G!Shows(d, c).loading = FALSE /\ G!Shows(d, c).moved = moves
      /\ G!Shows(d, c).busy = d.busy /\ G!Shows(d, c).adding = d.adding
      /\ G!Shows(d, c).removing = d.removing
  BY <1>1, <1>2 DEF SameConfirmation, GroupDialogs, G!GroupIds
<1> QED
  BY <1>3 DEF moves

\* The dialog once the answer of r has come.
GroupAnswered(r, d) ==
    /\ SameConfirmation(d, dialog) /\ d.loading = FALSE
    /\ d.busy = dialog.busy /\ d.adding = dialog.adding /\ d.removing = dialog.removing
    /\ \/ /\ \E c \in r.cards :
               /\ d.shown = c
               /\ d.moved = (dialog.moved \/ (dialog.open /\ dialog.shown.of \notin {G!None, c.of}))
          /\ UNCHANGED <<hist, faults>>
       \/ /\ d.shown = dialog.shown /\ d.moved = dialog.moved /\ G!Contest({r.of})
          /\ UNCHANGED faults \/ G!Fault

LEMMA GroupAnswerShown ==
    ASSUME GroupInv, NEW r \in reads, NEW c \in r.cards, UNCHANGED <<hist, faults>>
    PROVE  GroupAnswered(r, G!Shows(dialog, c))
<1>1. dialog \in GroupDialogs /\ c \in G!Details
  BY GroupTypes DEF GroupInv, G!Reads
<1> QED
  BY <1>1, GroupShown DEF GroupAnswered

LEMMA GroupAnswerMissing ==
    ASSUME GroupInv, NEW r \in reads, G!Contest({r.of}), UNCHANGED faults \/ G!Fault
    PROVE  GroupAnswered(r, [dialog EXCEPT !.loading = FALSE])
<1>1. dialog \in GroupDialogs
  BY GroupTypes DEF GroupInv
<1> QED
  BY <1>1 DEF GroupAnswered, SameConfirmation, GroupDialogs

LEMMA GroupDialogArrivesKeeps ==
    ASSUME GroupInv, NEW r \in reads, G!DialogArrives(r), UNCHANGED asked
    PROVE  GroupInv'
<1>1. /\ G!TypeOK /\ r.by = "dialog" /\ reads' = reads \ {r} /\ UNCHANGED <<srv, page, job>>
      /\ reads \subseteq G!Reads /\ page \in GroupPages /\ job \in [Slots -> GroupHandlers]
  BY GroupTypes DEF GroupInv, G!DialogArrives
<1>2. GroupAnswered(r, dialog')
  <2>1. CASE UNCHANGED <<hist, faults>> /\ \E c \in r.cards : dialog' = G!Shows(dialog, c)
    BY <2>1, GroupAnswerShown
  <2>2. CASE /\ dialog' = [dialog EXCEPT !.loading = FALSE] /\ G!Contest({r.of})
             /\ UNCHANGED faults \/ G!Fault
    BY <2>2, GroupAnswerMissing
  <2> QED
    BY <2>1, <2>2 DEF G!DialogArrives
<1>3. asked' \in 0 .. MaxRequests /\ faults' \in 0 .. MaxFaults
  BY <1>1, <1>2, GroupFaults, GroupTypes DEF GroupAnswered
<1>4. GroupArrives(r)
  BY <1>1, <1>2, <1>3 DEF GroupAnswered, GroupArrives, GroupShowsOrNot
<1>5. GroupFlags'
  BY <1>1, <1>2 DEF GroupInv, GroupFlags, GroupAnswered
<1> QED
  BY <1>4, <1>5, GroupArrivesKeeps DEF GroupInv

LEMMA GroupFetchedKeeps ==
    ASSUME GroupInv, NEW r \in reads, G!Fetched(r), UNCHANGED asked
    PROVE  GroupInv'
<1>1. /\ G!TypeOK /\ r.by = "handler" /\ reads' = (reads \ {r}) \cup {G!ListRead}
      /\ page' = [page EXCEPT !.loading = TRUE] /\ UNCHANGED srv /\ G!Ends(r.slot)
      /\ reads \subseteq G!Reads /\ page \in GroupPages /\ job \in [Slots -> GroupHandlers]
  BY GroupTypes DEF GroupInv, G!Fetched
<1>2. r.slot \in Slots /\ job[r.slot] # G!Idle /\ job[r.slot].op # "delete"
  BY <1>1 DEF GroupInv, GroupReadsFit, GroupHandlerRead
<1>3. job[r.slot] \in G!Jobs /\ job[r.slot].op \in G!Batches \cup G!MemberOps
  BY <1>1, <1>2, GroupHandler
<1>4. PICK d \in GroupDialogs : GroupAnswered(r, d) /\ dialog' = G!Done(d, job[r.slot])
  <2>1. CASE /\ UNCHANGED <<hist, faults>>
             /\ \E c \in r.cards : dialog' = G!Done(G!Shows(dialog, c), job[r.slot])
    BY <2>1, GroupAnswerShown DEF GroupAnswered, SameConfirmation
  <2>2. CASE /\ dialog' = G!Done([dialog EXCEPT !.loading = FALSE], job[r.slot])
             /\ G!Contest({r.of}) /\ (UNCHANGED faults \/ G!Fault)
    BY <2>2, GroupAnswerMissing DEF GroupAnswered, SameConfirmation
  <2> QED
    BY <2>1, <2>2 DEF G!Fetched
<1>5. GroupDoneWith(dialog', d, job[r.slot])
  BY <1>3, <1>4, GroupDone
<1>6. /\ job' \in [Slots -> GroupHandlers] /\ \A t \in Slots \ {r.slot} : job'[t] = job[t]
      /\ job'[r.slot] = G!Idle
  BY <1>1, <1>2, GroupEnded
<1>7. asked' \in 0 .. MaxRequests /\ faults' \in 0 .. MaxFaults
  BY <1>1, <1>4, GroupFaults, GroupTypes DEF GroupAnswered
<1>8. G!ListRead \in G!Reads /\ G!ListRead.by = "list"
  BY <1>1, GroupListRead
<1>9. page' \in GroupPages /\ page'.selected = page.selected
  BY <1>1 DEF GroupPages
<1>10. GroupShowsOrNot(r)
  BY <1>4, <1>5 DEF GroupAnswered, GroupDoneWith, GroupShowsOrNot
<1>11. SameConfirmation(dialog', dialog) /\ dialog'.loading = FALSE
  BY <1>4, <1>5 DEF GroupAnswered, GroupDoneWith, SameConfirmation
<1>12. GroupArrives(r)
  BY <1>1, <1>6, <1>7, <1>8, <1>9, <1>10, <1>11 DEF GroupArrives
<1>13. GroupFlags'
  <2>1. \E q \in reads' : q.by = "list"
    BY <1>1, <1>8
  <2>2. /\ dialog'.busy => dialog.busy /\ job[r.slot].op \notin G!Batches
        /\ dialog'.adding => dialog.adding /\ ~(job[r.slot].op = "add" /\ job[r.slot].live)
        /\ dialog'.removing # G!None =>
             dialog.removing # G!None /\ ~(job[r.slot].op = "remove" /\ job[r.slot].live)
    BY <1>4, <1>5 DEF GroupAnswered, GroupDoneWith
  <2> QED
    BY <1>6, <1>11, <2>1, <2>2 DEF GroupInv, GroupFlags
<1> QED
  BY <1>12, <1>13, GroupArrivesKeeps DEF GroupInv

-----------------------------------------------------------------------------
(* The groups' invariant *)

LEMMA GroupInit ==
    ASSUME G!Init PROVE GroupInv
<1>1. /\ srv = [members |-> [g \in Groups |-> {h \in Hosts : h >= g}], gone |-> {},
                pending |-> {}, isolated |-> {h \in Hosts : \A i \in Hosts : i <= h}]
      /\ hist = [contested |-> {}, isolations |-> {}, undos |-> {}]
      /\ page = [cards |-> {}, loading |-> TRUE, selected |-> G!Nothing]
      /\ dialog = G!Closed /\ job = [s \in Slots |-> G!Idle] /\ reads = {G!ListRead}
      /\ asked = 0 /\ faults = 0
  BY DEF G!Init
<1>2. G!Nothing \in G!Known /\ G!Nothing.of \notin Groups
  BY GroupDetails, GroupAssumption
<1>3. srv \in GroupServers
  <2> DEFINE ms == [g \in Groups |-> {h \in Hosts : h >= g}]
             top == {h \in Hosts : \A i \in Hosts : i <= h}
  <2>1. ms \in [Groups -> SUBSET Hosts] /\ top \in SUBSET Hosts
    OBVIOUS
  <2>2. srv = [members |-> ms, gone |-> {}, pending |-> {}, isolated |-> top]
    BY <1>1
  <2> HIDE DEF ms, top
  <2> QED
    BY <2>1, <2>2 DEF GroupServers
<1>4. hist \in GroupHistories /\ page \in GroupPages
  BY <1>1, <1>2 DEF GroupHistories, GroupPages
<1>5. /\ dialog \in GroupDialogs /\ ~dialog.open /\ dialog.shown = G!Nothing /\ ~dialog.loading
      /\ ~dialog.busy /\ dialog.confirm = "none" /\ ~dialog.adding
      /\ dialog.removing = G!None
  BY <1>1, <1>2 DEF G!Closed, GroupDialogs, G!GroupIds
<1>6. job \in [Slots -> GroupHandlers] /\ \A s \in Slots : job[s] = G!Idle
  BY <1>1 DEF GroupHandlers
<1>7. asked \in 0 .. MaxRequests /\ faults \in 0 .. MaxFaults
  BY <1>1, BoundsAssumption
<1>8. G!TypeOK
  <2>1. G!ListRead \in G!Reads
    <3> DEFINE cards == {G!Detail(g) : g \in Groups \ srv.gone}
    <3>1. cards \in SUBSET G!Details
      BY <1>3 DEF GroupServers, G!Detail, G!Details
    <3>2. G!ListRead = [by |-> "list", slot |-> 0, of |-> G!None, cards |-> cards]
      BY DEF G!ListRead
    <3> HIDE DEF cards
    <3> QED
      BY <3>1, <3>2 DEF G!Reads, G!GroupIds
  <2>2. reads \subseteq G!Reads
    BY <1>1, <2>1
  <2> QED
    BY <1>3, <1>4, <1>5, <1>6, <1>7, <2>2, GroupTyped
<1>9. \A r \in reads : r.by = "list"
  BY <1>1, <1>8, GroupListRead
<1>10. GroupHandlersAsk /\ GroupReadsFit /\ GroupStays /\ GroupUndoAgrees
  BY <1>5, <1>6, <1>9 DEF GroupHandlersAsk, GroupReadsFit, GroupStays, GroupUndoAgrees, G!Visible
<1>11. GroupsAgree
  BY <1>2, <1>5, <1>6, <1>9 DEF GroupsAgree, GroupAgrees, G!Dialogs
<1>12. GroupFlags
  BY <1>1, <1>5, <1>9 DEF GroupFlags
<1>13. G!BatchNamesItsGroup
  BY <1>1 DEF G!BatchNamesItsGroup
<1> QED
  BY <1>8, <1>10, <1>11, <1>12, <1>13 DEF GroupInv

LEMMA GroupNext ==
    ASSUME GroupInv, G!Next
    PROVE  GroupInv'
<1>1. CASE G!Requests /\ asked < MaxRequests /\ asked' = asked + 1
  <2>1. CASE G!Refresh
    BY <1>1, <2>1, GroupRefreshKeeps
  <2>2. CASE \E g \in Groups : \/ G!Open(g) \/ \E h \in Hosts : G!Colleague(g, h)
                               \/ \E s \in Slots : G!Delete(s, g)
    BY <1>1, <2>2, GroupOpenKeeps, ColleagueKeepsGroups, GroupDeleteKeeps
  <2>3. CASE \E s \in Slots : \/ G!ConfirmIsolate(s) \/ G!ConfirmUndo(s)
                              \/ \E h \in Hosts : G!Add(s, h) \/ G!Remove(s, h)
    BY <1>1, <2>3, GroupConfirmIsolateKeeps, GroupConfirmUndoKeeps, GroupMemberOpKeeps
  <2> QED
    BY <1>1, <2>1, <2>2, <2>3 DEF G!Requests
<1>2. CASE G!Clicks /\ UNCHANGED asked
  BY <1>2, GroupCloseKeeps, GroupOpenConfirmKeeps, CancelConfirmKeeps, TypeNameKeeps DEF G!Clicks
<1>3. CASE G!Answers /\ UNCHANGED asked
  <2>1. CASE \E h \in Hosts : G!Report(h)
    BY <1>3, <2>1, ReportKeepsGroups
  <2>2. CASE \E s \in Slots : \/ G!ServeMember(s) \/ G!ServeDelete(s) \/ G!ServeIsolate(s)
                              \/ \E h \in Hosts : G!IsolateMember(s, h)
                              \/ G!IsolateAnswers(s) \/ G!ServeUndo(s)
                              \/ G!Deleted(s) \/ G!NotDeleted(s)
                              \/ G!Succeeded(s) \/ G!Failed(s)
    <3>1. PICK s \in Slots :
            \/ G!ServeMember(s) \/ G!ServeDelete(s) \/ G!ServeIsolate(s)
            \/ \E h \in Hosts : G!IsolateMember(s, h)
            \/ G!IsolateAnswers(s) \/ G!ServeUndo(s)
            \/ G!Deleted(s) \/ G!NotDeleted(s) \/ G!Succeeded(s) \/ G!Failed(s)
      BY <2>2
    <3>2. CASE \/ G!ServeMember(s) \/ G!ServeDelete(s) \/ G!ServeUndo(s)
               \/ G!Deleted(s) \/ G!NotDeleted(s) \/ G!Succeeded(s) \/ G!Failed(s)
      BY <1>3, <3>2, ServeMemberKeeps, ServeDeleteKeeps, ServeUndoKeeps, GroupDeletedKeeps,
         GroupSucceededKeeps, GroupFailedKeeps
    <3>3. CASE \/ G!ServeIsolate(s) \/ \E h \in Hosts : G!IsolateMember(s, h)
               \/ G!IsolateAnswers(s)
      BY <1>3, <3>3, ServeIsolateKeeps, IsolateMemberKeeps, IsolateAnswersKeeps
    <3> QED
      BY <3>1, <3>2, <3>3
  <2>3. CASE \E r \in reads : \/ G!ListArrives(r) \/ G!SelectArrives(r) \/ G!DialogArrives(r)
                              \/ G!Fetched(r)
    BY <1>3, <2>3, GroupListArrivesKeeps, GroupSelectArrivesKeeps, GroupDialogArrivesKeeps,
       GroupFetchedKeeps
  <2> QED
    BY <1>3, <2>1, <2>2, <2>3 DEF G!Answers
<1> QED
  BY <1>1, <1>2, <1>3 DEF G!Next

LEMMA GroupStutter ==
    ASSUME GroupInv, UNCHANGED vars
    PROVE  GroupInv'
BY DEF vars, GroupInv, G!TypeOK, GroupHandlersAsk, GroupReadsFit, GroupHandlerRead, GroupStays,
       GroupUndoAgrees, GroupsAgree, GroupAgrees, GroupFlags, G!BatchNamesItsGroup, G!Visible,
       G!Current, G!Dialogs

LEMMA GroupProperties ==
    ASSUME GroupInv
    PROVE  /\ G!TypeOK /\ G!BatchNamesItsGroup /\ G!SettledMembersAreExact
           /\ G!BusyMeansWorking
<1>1. G!TypeOK /\ G!BatchNamesItsGroup
  BY DEF GroupInv
<1>2. G!SettledMembersAreExact
  <2> SUFFICES ASSUME dialog.shown # G!Nothing, dialog.shown.of \notin hist.contested,
                      G!Running(dialog.shown.of) = {}, G!Dialogs = {}
               PROVE  dialog.shown.members = srv.members[dialog.shown.of]
    BY DEF G!SettledMembersAreExact
  <2>1. dialog.shown.of \in Groups
    BY <1>1, GroupTypes, GroupDetails DEF GroupDialogs
  <2>2. GroupAgrees(dialog.shown.of)
    BY <2>1 DEF GroupInv, GroupsAgree
  <2> QED
    BY <2>2 DEF GroupAgrees, G!Running
<1>3. G!BusyMeansWorking
  BY DEF GroupInv, GroupFlags, G!BusyMeansWorking
<1> QED
  BY <1>1, <1>2, <1>3

-----------------------------------------------------------------------------
(* The chain rules: the instance of their proofs is about the same steps *)

EP == INSTANCE ChainRulesProofs
      WITH db <- srv, cache <- page, clock <- dialog, eval <- job, change <- reads,
           Groups <- {1}, Patterns <- {0, 1}, DefaultGroup <- 1, DefaultPatterns <- 0,
           TTL <- 1, MaxTime <- 1, Changes <- Slots, Evaluations <- Slots

LEMMA EngineConstants == EP!ConstantsOK
BY DEF EP!ConstantsOK

LEMMA EngineInit ==
    ASSUME E!Init
    PROVE  EP!IInv
<1>1. EP!Init
  BY Zenon DEF E!Init, EP!Init, E!Seeded, EP!Seeded, E!WithGroup, EP!WithGroup, E!WithRule,
     EP!WithRule, E!HasDefault, EP!HasDefault, E!NoTables, EP!NoTables, E!NoGroup, EP!NoGroup,
     E!NoRow, EP!NoRow, E!DefaultRow, EP!DefaultRow, E!Now, EP!Now, E!Active, EP!Active,
     E!NoCache, EP!NoCache, E!NoEvaluation, EP!NoEvaluation
<1> QED
  BY <1>1, EngineConstants, EP!IInvInit

LEMMA EngineStepsAgree ==
    ASSUME E!Next
    PROVE  EP!Next
<1> USE DEF E!Turns, EP!Turns, E!Fault, EP!Fault, E!Request, EP!Request, E!Commit, EP!Commit,
            E!Now, EP!Now, E!Active, EP!Active, E!HasDefault, EP!HasDefault,
            E!WithGroup, EP!WithGroup, E!WithRule, EP!WithRule, E!DefaultRow, EP!DefaultRow,
            E!Seeded, EP!Seeded, E!NoGroup, EP!NoGroup, E!NoRow, EP!NoRow,
            E!NoCache, EP!NoCache, E!NoEvaluation, EP!NoEvaluation, E!Judge, EP!Judge
<1>1. ASSUME NEW c \in Slots, NEW g, NEW p, E!CreateGroup(c, g, p) PROVE EP!CreateGroup(c, g, p)
  BY <1>1, Zenon DEF E!CreateGroup, EP!CreateGroup, E!SaveGroup, EP!SaveGroup
<1>2. ASSUME NEW c \in Slots, NEW g, NEW p, E!UpdateGroup(c, g, p) PROVE EP!UpdateGroup(c, g, p)
  BY <1>2, Zenon DEF E!UpdateGroup, EP!UpdateGroup, E!SaveGroup, EP!SaveGroup
<1>3. ASSUME NEW c \in Slots, NEW g, E!DeleteGroup(c, g) PROVE EP!DeleteGroup(c, g)
  BY <1>3, Zenon DEF E!DeleteGroup, EP!DeleteGroup
<1>4. ASSUME NEW c \in Slots, NEW i, NEW g, NEW a, E!CreateRule(c, i, g, a)
      PROVE  EP!CreateRule(c, i, g, a)
  BY <1>4, Zenon DEF E!CreateRule, EP!CreateRule
<1>5. ASSUME NEW c \in Slots, NEW i, NEW g, NEW a, E!UpdateRule(c, i, g, a)
      PROVE  EP!UpdateRule(c, i, g, a)
  BY <1>5, Zenon DEF E!UpdateRule, EP!UpdateRule
<1>6. ASSUME NEW c \in Slots, NEW i, E!DeleteRule(c, i) PROVE EP!DeleteRule(c, i)
  BY <1>6, Zenon DEF E!DeleteRule, EP!DeleteRule
<1>7. ASSUME NEW c \in Slots, E!ListNone(c) PROVE EP!ListNone(c)
  BY <1>7, Zenon DEF E!ListNone, EP!ListNone
<1>8. ASSUME NEW e \in Slots, E!Evaluate(e) PROVE EP!Evaluate(e)
  BY <1>8, Zenon DEF E!Evaluate, EP!Evaluate, E!Fresh, EP!Fresh
<1>9. ASSUME NEW c \in Slots, E!RefreshFails(c) PROVE EP!RefreshFails(c)
  BY <1>9, Zenon DEF E!RefreshFails, EP!RefreshFails
<1>10. ASSUME NEW c \in Slots, E!Invalidate(c) PROVE EP!Invalidate(c)
  BY <1>10, Zenon DEF E!Invalidate, EP!Invalidate, E!Overtaken, EP!Overtaken
<1>11. ASSUME NEW c \in Slots, E!SeedGroup(c) PROVE EP!SeedGroup(c)
  BY <1>11, Zenon DEF E!SeedGroup, EP!SeedGroup
<1>12. ASSUME NEW c \in Slots, E!SeedCollides(c) PROVE EP!SeedCollides(c)
  BY <1>12, Zenon DEF E!SeedCollides, EP!SeedCollides
<1>13. ASSUME NEW c \in Slots, E!LookUpDefault(c) PROVE EP!LookUpDefault(c)
  BY <1>13, Zenon DEF E!LookUpDefault, EP!LookUpDefault
<1>14. ASSUME NEW c \in Slots, E!SeedRule(c) PROVE EP!SeedRule(c)
  BY <1>14, Zenon DEF E!SeedRule, EP!SeedRule
<1>15. ASSUME NEW e \in Slots, E!Query(e) PROVE EP!Query(e)
  BY <1>15, Zenon DEF E!Query, EP!Query
<1>16. ASSUME NEW e \in Slots, E!QueryFails(e) PROVE EP!QueryFails(e)
  BY <1>16, Zenon DEF E!QueryFails, EP!QueryFails
<1>17. ASSUME NEW e \in Slots, E!Fill(e) PROVE EP!Fill(e)
  BY <1>17, Zenon DEF E!Fill, EP!Fill
<1>18. E!Tick => EP!Tick
  BY Zenon DEF E!Tick, EP!Tick
<1>19. E!Restart => EP!Restart
  BY Zenon DEF E!Restart, EP!Restart
<1>20. E!Requests => EP!Requests
  BY <1>1, <1>2, <1>3, <1>4, <1>5, <1>6, <1>7, <1>8 DEF E!Requests, EP!Requests
<1>21. E!Steps => EP!Steps
  BY <1>9, <1>10, <1>11, <1>12, <1>13, <1>14, <1>15, <1>16, <1>17, Zenon
     DEF E!Steps, EP!Steps
<1> QED
  BY <1>18, <1>19, <1>20, <1>21 DEF E!Next, EP!Next

LEMMA EngineNext ==
    ASSUME EP!IInv, E!Next
    PROVE  EP!IInv'
<1>1. EP!Next
  BY EngineStepsAgree
<1> QED
  BY <1>1, EngineConstants, EP!IInvStep

LEMMA EngineStutter ==
    ASSUME EP!IInv, UNCHANGED vars
    PROVE  EP!IInv'
<1>1. UNCHANGED EP!vars
  BY DEF vars, EP!vars
<1> QED
  BY <1>1, EngineConstants, EP!IInvStep

\* What the two instances call the types and the properties.
LEMMA EngineProperties ==
    ASSUME EP!IInv
    PROVE  E!TypeOK /\ E!VerdictsAreRecent /\ E!CacheIsExact
<1>1. E!TypeOK
  BY Zenon DEF EP!IInv, E!TypeOK, EP!TypeOK, E!Tables, EP!Tables, E!Histories, EP!Histories,
     E!Prepared, EP!Prepared, E!Evaluation, EP!Evaluation, E!Stages, EP!Stages, E!Verdict,
     EP!Verdict, E!Group, EP!Group, E!Row, EP!Row
<1>2. E!VerdictsAreRecent
  BY DEF EP!IInv, EP!Recent, E!VerdictsAreRecent, EP!VerdictsAreRecent
<1>3. E!CacheIsExact
  BY Zenon DEF EP!IInv, EP!Exact, E!CacheIsExact, EP!CacheIsExact, E!Pending, EP!Pending,
     E!Active, EP!Active
<1> QED
  BY <1>1, <1>2, <1>3

-----------------------------------------------------------------------------
(* The detection rules *)

RP == INSTANCE RuleDeskProofs
      WITH Fields <- {"enabled", "weight"}, Switches <- {"enabled", "weight"}, Tabbed <- FALSE

LEMMA DetectionRuleConstants == RP!ConstantsOK
BY BoundsAssumption DEF RP!ConstantsOK

LEMMA DetectionRuleInit ==
    ASSUME R!Init
    PROVE  RP!IInv
<1>1. RP!Init
  BY Zenon DEF R!Init, RP!Init, R!NoRow, RP!NoRow, R!NoRows, RP!NoRows, R!Idle, RP!Idle,
               R!None, RP!None, R!Last, RP!Last
<1> QED
  BY <1>1, DetectionRuleConstants, RP!IInvInit

LEMMA DetectionRuleStepsAgree ==
    ASSUME R!Next
    PROVE  RP!Next
<1> USE DEF R!None, RP!None, R!Values, RP!Values, R!Rows, RP!Rows, R!Lists, RP!Lists,
            R!NoRow, RP!NoRow, R!NoRows, RP!NoRows, R!Idle, RP!Idle, R!InPlace, RP!InPlace,
            R!Saves, RP!Saves, R!Running, RP!Running, R!Deleting, RP!Deleting, R!Touched,
            RP!Touched, R!ContestedByStart, RP!ContestedByStart, R!ContestedByDelete,
            RP!ContestedByDelete, R!ContestedByRead, RP!ContestedByRead, R!Contest,
            RP!Contest, R!Fault, RP!Fault, R!Step, RP!Step, R!With, RP!With, R!OnPage,
            RP!OnPage, R!HeaderShown, RP!HeaderShown, R!Start, RP!Start, R!Patch, RP!Patch,
            R!Ends, RP!Ends, R!Answered, RP!Answered
<1>1. ASSUME NEW i \in Rules, NEW f \in {"enabled", "weight"}, R!Colleague(i, f)
      PROVE  RP!Colleague(i, f)
  BY <1>1, Zenon DEF R!Colleague, RP!Colleague
<1>2. ASSUME NEW s \in Slots, NEW i \in Rules, NEW f \in {"enabled", "weight"}, R!ChangeField(s, i, f)
      PROVE  RP!ChangeField(s, i, f)
  BY <1>2, Zenon DEF R!ChangeField, RP!ChangeField
<1>3. ASSUME NEW s \in Slots, NEW i \in Rules, R!Delete(s, i) PROVE RP!Delete(s, i)
  BY <1>3, Zenon DEF R!Delete, RP!Delete
<1>4. ASSUME NEW s \in Slots, NEW i \in Rules, NEW v, R!Submit(s, i, v)
      PROVE  RP!Submit(s, i, v)
  BY <1>4, Zenon DEF R!Submit, RP!Submit, R!FormEnabled, RP!FormEnabled
<1>5. ASSUME NEW s \in Slots, R!Serve(s) PROVE RP!Serve(s)
  BY <1>5, Zenon DEF R!Serve, RP!Serve
<1>6. ASSUME NEW s \in Slots, R!Confirmed(s) PROVE RP!Confirmed(s)
  BY <1>6, Zenon DEF R!Confirmed, RP!Confirmed
<1>7. ASSUME NEW s \in Slots, R!TakenBack(s) PROVE RP!TakenBack(s)
  BY <1>7, Zenon DEF R!TakenBack, RP!TakenBack
<1>8. ASSUME NEW s \in Slots, R!Saved(s) PROVE RP!Saved(s)
  BY <1>8, Zenon DEF R!Saved, RP!Saved
<1>9. ASSUME NEW s \in Slots, R!SaveFailed(s) PROVE RP!SaveFailed(s)
  BY <1>9, Zenon DEF R!SaveFailed, RP!SaveFailed
<1>10. ASSUME NEW l \in reads, R!PageLoaded(l) PROVE RP!PageLoaded(l)
  BY <1>10, Zenon DEF R!PageLoaded, RP!PageLoaded
<1>11. ASSUME NEW i, R!OpenForm(i) PROVE RP!OpenForm(i)
  BY <1>11, Zenon DEF R!OpenForm, RP!OpenForm
<1>12. R!Refresh => RP!Refresh
  <2>1. R!ContestedByRead = RP!ContestedByRead
    OBVIOUS
  <2> HIDE DEF R!ContestedByRead, RP!ContestedByRead
  <2> QED
    BY <2>1, Zenon DEF R!Refresh, RP!Refresh, R!Cardinality, RP!Cardinality
<1>13. R!CloseForm => RP!CloseForm
  BY Zenon DEF R!CloseForm, RP!CloseForm
<1>14. R!SwitchTab => RP!SwitchTab
  BY Zenon DEF R!SwitchTab, RP!SwitchTab
<1>15. R!Requests => RP!Requests
  BY <1>1, <1>2, <1>3, <1>4, <1>12 DEF R!Requests, RP!Requests
<1>16. R!Clicks => RP!Clicks
  BY <1>11, <1>13, <1>14 DEF R!Clicks, RP!Clicks
<1>17. R!Answers => RP!Answers
  BY <1>5, <1>6, <1>7, <1>8, <1>9, <1>10 DEF R!Answers, RP!Answers
<1> QED
  BY <1>15, <1>16, <1>17 DEF R!Next, RP!Next

LEMMA DetectionRuleNext ==
    ASSUME RP!IInv, R!Next
    PROVE  RP!IInv'
<1>1. RP!Next
  BY DetectionRuleStepsAgree
<1> QED
  BY <1>1, DetectionRuleConstants, RP!IInvStep

LEMMA DetectionRuleStutter ==
    ASSUME RP!IInv, UNCHANGED vars
    PROVE  RP!IInv'
<1>1. UNCHANGED RP!vars
  BY DEF vars, RP!vars
<1> QED
  BY <1>1, RP!IInvStutter

LEMMA DetectionRuleProperties ==
    ASSUME RP!IInv
    PROVE  R!TypeOK /\ R!UncontestedFieldIsExact /\ R!BusyMeansWorking
<1>1. R!TypeOK
  BY Zenon DEF RP!IInv, R!TypeOK, RP!TypeOK, R!Lists, RP!Lists, R!Rows, RP!Rows, R!Values,
               RP!Values, R!None, RP!None, R!Idle, RP!Idle, R!Jobs, RP!Jobs, R!InPlace,
               RP!InPlace, R!Saves, RP!Saves
<1>2. R!UncontestedFieldIsExact
  BY RP!IInvExact, Zenon
     DEF R!UncontestedFieldIsExact, RP!UncontestedFieldIsExact, R!Running, RP!Running,
         R!Idle, RP!Idle
<1>3. R!BusyMeansWorking
  BY Zenon DEF RP!IInv, R!BusyMeansWorking, RP!BusyMeansWorking, R!Saves, RP!Saves,
     R!Idle, RP!Idle
<1> QED
  BY <1>1, <1>2, <1>3

-----------------------------------------------------------------------------
(* The chain rules' table *)

CP == INSTANCE RuleDeskProofs
      WITH Fields <- {"enabled"}, Switches <- {"enabled"}, Tabbed <- TRUE

LEMMA ChainRuleConstants == CP!ConstantsOK
BY BoundsAssumption DEF CP!ConstantsOK

LEMMA ChainRuleInit ==
    ASSUME C!Init
    PROVE  CP!IInv
<1>1. CP!Init
  BY Zenon DEF C!Init, CP!Init, C!NoRow, CP!NoRow, C!NoRows, CP!NoRows, C!Idle, CP!Idle,
               C!None, CP!None, C!Last, CP!Last
<1> QED
  BY <1>1, ChainRuleConstants, CP!IInvInit

LEMMA ChainRuleStepsAgree ==
    ASSUME C!Next
    PROVE  CP!Next
<1> USE DEF C!None, CP!None, C!Values, CP!Values, C!Rows, CP!Rows, C!Lists, CP!Lists,
            C!NoRow, CP!NoRow, C!NoRows, CP!NoRows, C!Idle, CP!Idle, C!InPlace, CP!InPlace,
            C!Saves, CP!Saves, C!Running, CP!Running, C!Deleting, CP!Deleting, C!Touched,
            CP!Touched, C!ContestedByStart, CP!ContestedByStart, C!ContestedByDelete,
            CP!ContestedByDelete, C!ContestedByRead, CP!ContestedByRead, C!Contest,
            CP!Contest, C!Fault, CP!Fault, C!Step, CP!Step, C!With, CP!With, C!OnPage,
            CP!OnPage, C!HeaderShown, CP!HeaderShown, C!Start, CP!Start, C!Patch, CP!Patch,
            C!Ends, CP!Ends, C!Answered, CP!Answered
<1>1. ASSUME NEW i \in Rules, NEW f \in {"enabled"}, C!Colleague(i, f)
      PROVE  CP!Colleague(i, f)
  BY <1>1, Zenon DEF C!Colleague, CP!Colleague
<1>2. ASSUME NEW s \in Slots, NEW i \in Rules, NEW f \in {"enabled"}, C!ChangeField(s, i, f)
      PROVE  CP!ChangeField(s, i, f)
  BY <1>2, Zenon DEF C!ChangeField, CP!ChangeField
<1>3. ASSUME NEW s \in Slots, NEW i \in Rules, C!Delete(s, i) PROVE CP!Delete(s, i)
  BY <1>3, Zenon DEF C!Delete, CP!Delete
<1>4. ASSUME NEW s \in Slots, NEW i \in Rules, NEW v, C!Submit(s, i, v)
      PROVE  CP!Submit(s, i, v)
  BY <1>4, Zenon DEF C!Submit, CP!Submit, C!FormEnabled, CP!FormEnabled
<1>5. ASSUME NEW s \in Slots, C!Serve(s) PROVE CP!Serve(s)
  BY <1>5, Zenon DEF C!Serve, CP!Serve
<1>6. ASSUME NEW s \in Slots, C!Confirmed(s) PROVE CP!Confirmed(s)
  BY <1>6, Zenon DEF C!Confirmed, CP!Confirmed
<1>7. ASSUME NEW s \in Slots, C!TakenBack(s) PROVE CP!TakenBack(s)
  BY <1>7, Zenon DEF C!TakenBack, CP!TakenBack
<1>8. ASSUME NEW s \in Slots, C!Saved(s) PROVE CP!Saved(s)
  BY <1>8, Zenon DEF C!Saved, CP!Saved
<1>9. ASSUME NEW s \in Slots, C!SaveFailed(s) PROVE CP!SaveFailed(s)
  BY <1>9, Zenon DEF C!SaveFailed, CP!SaveFailed
<1>10. ASSUME NEW l \in reads, C!PageLoaded(l) PROVE CP!PageLoaded(l)
  BY <1>10, Zenon DEF C!PageLoaded, CP!PageLoaded
<1>11. ASSUME NEW i, C!OpenForm(i) PROVE CP!OpenForm(i)
  BY <1>11, Zenon DEF C!OpenForm, CP!OpenForm
<1>12. C!Refresh => CP!Refresh
  <2>1. C!ContestedByRead = CP!ContestedByRead
    OBVIOUS
  <2> HIDE DEF C!ContestedByRead, CP!ContestedByRead
  <2> QED
    BY <2>1, Zenon DEF C!Refresh, CP!Refresh, C!Cardinality, CP!Cardinality
<1>13. C!CloseForm => CP!CloseForm
  BY Zenon DEF C!CloseForm, CP!CloseForm
<1>14. C!SwitchTab => CP!SwitchTab
  BY Zenon DEF C!SwitchTab, CP!SwitchTab
<1>15. C!Requests => CP!Requests
  BY <1>1, <1>2, <1>3, <1>4, <1>12 DEF C!Requests, CP!Requests
<1>16. C!Clicks => CP!Clicks
  BY <1>11, <1>13, <1>14 DEF C!Clicks, CP!Clicks
<1>17. C!Answers => CP!Answers
  BY <1>5, <1>6, <1>7, <1>8, <1>9, <1>10 DEF C!Answers, CP!Answers
<1> QED
  BY <1>15, <1>16, <1>17 DEF C!Next, CP!Next

LEMMA ChainRuleNext ==
    ASSUME CP!IInv, C!Next
    PROVE  CP!IInv'
<1>1. CP!Next
  BY ChainRuleStepsAgree
<1> QED
  BY <1>1, ChainRuleConstants, CP!IInvStep

LEMMA ChainRuleStutter ==
    ASSUME CP!IInv, UNCHANGED vars
    PROVE  CP!IInv'
<1>1. UNCHANGED CP!vars
  BY DEF vars, CP!vars
<1> QED
  BY <1>1, CP!IInvStutter

LEMMA ChainRuleProperties ==
    ASSUME CP!IInv
    PROVE  C!TypeOK /\ C!UncontestedFieldIsExact /\ C!BusyMeansWorking
<1>1. C!TypeOK
  BY Zenon DEF CP!IInv, C!TypeOK, CP!TypeOK, C!Lists, CP!Lists, C!Rows, CP!Rows, C!Values,
               CP!Values, C!None, CP!None, C!Idle, CP!Idle, C!Jobs, CP!Jobs, C!InPlace,
               CP!InPlace, C!Saves, CP!Saves
<1>2. C!UncontestedFieldIsExact
  BY CP!IInvExact, Zenon
     DEF C!UncontestedFieldIsExact, CP!UncontestedFieldIsExact, C!Running, CP!Running,
         C!Idle, CP!Idle
<1>3. C!BusyMeansWorking
  BY Zenon DEF CP!IInv, C!BusyMeansWorking, CP!BusyMeansWorking, C!Saves, CP!Saves,
     C!Idle, CP!Idle
<1> QED
  BY <1>1, <1>2, <1>3

-----------------------------------------------------------------------------
(* The process groups: the table of rules, and a manager that refuses deletions *)

TP == INSTANCE RuleDeskProofs
      WITH Fields <- {"patterns"}, Switches <- {}, Tabbed <- TRUE,
           MaxRequests <- MaxProcessGroupRequests

LEMMA ProcessGroupConstants == TP!ConstantsOK
BY BoundsAssumption DEF TP!ConstantsOK

LEMMA ProcessGroupInit ==
    ASSUME D!Init
    PROVE  TP!IInv
<1>1. TP!Init
  BY Zenon DEF D!Init, D!Table!Init, TP!Init, D!Table!NoRow, TP!NoRow, D!Table!NoRows,
     TP!NoRows, D!Table!Idle, TP!Idle, D!Table!None, TP!None, D!Table!Last, TP!Last
<1> QED
  BY <1>1, ProcessGroupConstants, TP!IInvInit

\* A refused deletion is the one step that RuleDesk's table does not have.
Refuses(s) ==
    /\ TP!Answered(s, {"delete"}, "sent") /\ TP!Step(s, "err")
    /\ UNCHANGED <<srv, hist, page, dialog, reads, faults, asked>>

LEMMA ProcessGroupStepsAgree ==
    ASSUME D!Next
    PROVE  TP!Next \/ \E s \in Slots : Refuses(s)
<1> USE DEF D!Table!None, TP!None, D!Table!Values, TP!Values, D!Table!Rows, TP!Rows,
            D!Table!Lists, TP!Lists, D!Table!NoRow, TP!NoRow, D!Table!NoRows, TP!NoRows,
            D!Table!Idle, TP!Idle, D!Table!InPlace, TP!InPlace, D!Table!Saves, TP!Saves,
            D!Table!Running, TP!Running, D!Table!Deleting, TP!Deleting, D!Table!Touched,
            TP!Touched, D!Table!ContestedByStart, TP!ContestedByStart,
            D!Table!ContestedByDelete, TP!ContestedByDelete, D!Table!ContestedByRead,
            TP!ContestedByRead, D!Table!Contest, TP!Contest, D!Table!Fault, TP!Fault,
            D!Table!Step, TP!Step, D!Table!With, TP!With, D!Table!OnPage, TP!OnPage,
            D!Table!HeaderShown, TP!HeaderShown, D!Table!Start, TP!Start, D!Table!Patch,
            TP!Patch, D!Table!Ends, TP!Ends, D!Table!Answered, TP!Answered
<1>1. ASSUME NEW i \in Rules, D!Table!Colleague(i, "patterns")
      PROVE  TP!Colleague(i, "patterns")
  BY <1>1, Zenon DEF D!Table!Colleague, TP!Colleague
<1>2. ASSUME NEW s \in Slots, NEW i \in Rules, D!Delete(s, i) PROVE TP!Delete(s, i)
  BY <1>2, Zenon DEF D!Delete, D!Table!Delete, TP!Delete
<1>3. ASSUME NEW s \in Slots, NEW i \in Rules, NEW v, D!Submit(s, i, v)
      PROVE  TP!Submit(s, i, [f \in {"patterns"} |-> v])
  BY <1>3, Zenon DEF D!Submit, D!Table!Submit, TP!Submit, D!Table!FormEnabled,
                     TP!FormEnabled
<1>4. ASSUME NEW s \in Slots, D!Serve(s) PROVE TP!Serve(s)
  BY <1>4, Zenon DEF D!Serve, D!Table!Serve, TP!Serve
<1>5. ASSUME NEW s \in Slots, D!DeletedOrPutBack(s) PROVE TP!Confirmed(s) \/ TP!TakenBack(s)
  BY <1>5, Zenon DEF D!DeletedOrPutBack, D!Table!Confirmed, TP!Confirmed,
                     D!Table!TakenBack, TP!TakenBack
<1>6. ASSUME NEW s \in Slots, D!Saved(s) PROVE TP!Saved(s)
  BY <1>6, Zenon DEF D!Saved, D!Table!Saved, TP!Saved
<1>7. ASSUME NEW s \in Slots, D!SaveFailed(s) PROVE TP!SaveFailed(s)
  BY <1>7, Zenon DEF D!SaveFailed, D!Table!SaveFailed, TP!SaveFailed
<1>8. ASSUME NEW l \in reads, D!GroupsLoaded(l) PROVE TP!PageLoaded(l)
  BY <1>8, Zenon DEF D!GroupsLoaded, D!Table!PageLoaded, TP!PageLoaded
<1>9. ASSUME NEW i, D!OpenForm(i) PROVE TP!OpenForm(i)
  BY <1>9, Zenon DEF D!OpenForm, D!Table!OpenForm, TP!OpenForm
<1>10. D!CloseForm => TP!CloseForm
  BY Zenon DEF D!CloseForm, D!Table!CloseForm, TP!CloseForm
<1>11. D!SwitchTab => TP!SwitchTab
  BY Zenon DEF D!SwitchTab, D!Table!SwitchTab, TP!SwitchTab
<1>12. D!Refresh => TP!Refresh
  <2>1. D!Table!ContestedByRead = TP!ContestedByRead
    OBVIOUS
  <2> HIDE DEF D!Table!ContestedByRead, TP!ContestedByRead
  <2> QED
    BY <2>1, Zenon
       DEF D!Refresh, D!Table!Refresh, TP!Refresh, D!Table!Cardinality, TP!Cardinality
<1>13. ASSUME NEW s \in Slots, D!RefuseToDelete(s), UNCHANGED asked PROVE Refuses(s)
  BY <1>13, Zenon DEF D!RefuseToDelete, Refuses
<1>14. D!Requests => TP!Requests
  <2>1. \A v \in TP!Values : [f \in {"patterns"} |-> v] \in [{"patterns"} -> TP!Values]
    OBVIOUS
  <2>2. \A v : v \in D!Table!Values <=> v \in TP!Values
    OBVIOUS
  <2> QED
    BY <1>1, <1>2, <1>3, <1>12, <2>1, <2>2 DEF D!Requests, TP!Requests
<1>15. D!Clicks => TP!Clicks
  BY <1>9, <1>10, <1>11 DEF D!Clicks, TP!Clicks
<1>16. D!Answers => TP!Answers \/ \E s \in Slots : D!RefuseToDelete(s)
  BY <1>4, <1>5, <1>6, <1>7, <1>8 DEF D!Answers, TP!Answers
<1> QED
  BY <1>13, <1>14, <1>15, <1>16 DEF D!Next, TP!Next

LEMMA ProcessGroupNext ==
    ASSUME TP!IInv, D!Next
    PROVE  TP!IInv'
<1>1. CASE TP!Next
  BY <1>1, ProcessGroupConstants, TP!IInvStep
<1>2. ASSUME NEW s \in Slots, Refuses(s) PROVE TP!IInv'
  BY <1>2, ProcessGroupConstants, TP!RefusalKeeps DEF Refuses
<1> QED
  BY <1>1, <1>2, ProcessGroupStepsAgree

LEMMA ProcessGroupStutter ==
    ASSUME TP!IInv, UNCHANGED vars
    PROVE  TP!IInv'
<1>1. UNCHANGED TP!vars
  BY DEF vars, TP!vars
<1> QED
  BY <1>1, TP!IInvStutter

LEMMA ProcessGroupProperties ==
    ASSUME TP!IInv
    PROVE  D!TypeOK /\ D!UncontestedGroupIsExact /\ D!BusyMeansWorking
<1>1. D!TypeOK
  BY Zenon DEF D!TypeOK, TP!IInv, D!Table!TypeOK, TP!TypeOK, D!Table!Lists, TP!Lists,
               D!Table!Rows, TP!Rows, D!Table!Values, TP!Values, D!Table!None, TP!None,
               D!Table!Idle, TP!Idle, D!Table!Jobs, TP!Jobs, D!Table!InPlace, TP!InPlace,
               D!Table!Saves, TP!Saves
<1>2. D!UncontestedGroupIsExact
  BY TP!IInvExact, Zenon
     DEF D!UncontestedGroupIsExact, D!Table!UncontestedFieldIsExact, TP!UncontestedFieldIsExact,
         D!Table!Running, TP!Running, D!Table!Idle, TP!Idle
<1>3. D!BusyMeansWorking
  BY Zenon DEF D!BusyMeansWorking, TP!IInv, D!Table!BusyMeansWorking, TP!BusyMeansWorking,
     D!Table!Saves, TP!Saves, D!Table!Idle, TP!Idle
<1> QED
  BY <1>1, <1>2, <1>3

-----------------------------------------------------------------------------
(* The invariants of the pages *)

\* Every desk that is open keeps its invariant.
DesksKeep ==
    /\ desk = "processes" => ProcessInv
    /\ desk = "policies" => PolicyInv
    /\ desk = "incidents" => IncidentInv
    /\ desk = "groups" => GroupInv
    /\ desk = "engine" => EP!IInv
    /\ desk = "detection rules" => RP!IInv
    /\ desk = "chain rules" => CP!IInv
    /\ desk = "process groups" => TP!IInv

LEMMA DesksInvariance == Spec => []DesksKeep
<1>1. Init => DesksKeep
  BY ProcessInit, PolicyInit, IncidentInit, GroupInit, EngineInit, DetectionRuleInit,
     ChainRuleInit, ProcessGroupInit
     DEF Init, DesksKeep
<1>2. DesksKeep /\ [Next]_vars => DesksKeep'
  <2> SUFFICES ASSUME DesksKeep, [Next]_vars PROVE DesksKeep'
    OBVIOUS
  <2>1. CASE Next
    BY <2>1, ProcessNext, PolicyNext, IncidentNext, GroupNext, EngineNext, DetectionRuleNext,
       ChainRuleNext, ProcessGroupNext
       DEF Next, DesksKeep, IncidentStep, PolicyStep, DetectionRuleStep, ChainRuleStep,
           ProcessGroupStep, ProcessStep, GroupStep, EngineStep
  <2>2. CASE UNCHANGED vars
    <3>1. UNCHANGED desk
      BY <2>2 DEF vars
    <3> QED
      BY <2>2, <3>1, ProcessStutter, PolicyStutter, IncidentStutter, GroupStutter,
         EngineStutter, DetectionRuleStutter, ChainRuleStutter, ProcessGroupStutter
         DEF DesksKeep
  <2> QED
    BY <2>1, <2>2
<1> QED
  BY <1>1, <1>2, PTL DEF Spec

\* ProcessTree.jsx: however the hosts are chosen while listings, timers and kills are on their
\* way, a kill names a pid of its host unless it was confirmed unsettled.
THEOREM KillsNameTheirPids == Spec => []SettledKillNamesOwnPid
<1>1. DesksKeep => SettledKillNamesOwnPid
  BY DEF DesksKeep, ProcessInv, SettledKillNamesOwnPid
<1> QED
  BY <1>1, DesksInvariance, PTL

\* PolicyDryRunPanel: of the simulator's evaluations the manager carries out, by a policy or by
\* the graduated response, no more than live ones were confirmed.
THEOREM PoliciesWaitForConfirmation == Spec => []NothingRunsUnconfirmed
<1>1. DesksKeep => NothingRunsUnconfirmed
  BY PolicyRowsExact DEF DesksKeep, NothingRunsUnconfirmed
<1> QED
  BY <1>1, DesksInvariance, PTL

\* usePolicies, useDetectionRules, useProcessChainRules and useProcessGroups: what one request
\* at a time was about is shown as the manager has it, whatever crosses it elsewhere.
THEOREM RowsAreExact == Spec => []UncontestedRowsAreExact
<1>1. DesksKeep => UncontestedRowsAreExact
  BY PolicyRowsExact, DetectionRuleProperties, ChainRuleProperties, ProcessGroupProperties
     DEF DesksKeep, UncontestedRowsAreExact
<1> QED
  BY <1>1, DesksInvariance, PTL

\* Incidents.jsx, IncidentDetailModal: no status is on the screen but one the incident has had,
\* or one that api/incidents.js made up for a request that failed.
THEOREM StatusesAreTrueOrMadeUp == Spec => []ShownWasTrueOrMadeUp
<1>1. DesksKeep => ShownWasTrueOrMadeUp
  BY IncidentProperties DEF DesksKeep, ShownWasTrueOrMadeUp
<1> QED
  BY <1>1, DesksInvariance, PTL

\* IncidentDetailModal: its two busy flags and the close box keep the dialog to one operation
\* at the manager, although windows are closed and opened while handlers run.
THEOREM DialogWritesOnce == Spec => []OneWriteAtATime
<1>1. DesksKeep => OneWriteAtATime
  BY IncidentProperties DEF DesksKeep, OneWriteAtATime
<1> QED
  BY <1>1, DesksInvariance, PTL

\* IncidentDetailModal: a kill names a process of its incident, or the banner's made-up one,
\* unless the deep link has moved the dialog.
THEOREM KillsNameTheirIncident == Spec => []KillNamesOwnProcess
<1>1. DesksKeep => KillNamesOwnProcess
  BY IncidentProperties DEF DesksKeep, KillNamesOwnProcess
<1> QED
  BY <1>1, DesksInvariance, PTL

\* ProcessChainRule behind its tab: telemetry is judged by rules in force within the
\* lifetime of the cache.
THEOREM EngineVerdictsRecent == Spec => []VerdictsAreRecent
<1>1. DesksKeep => VerdictsAreRecent
  BY EngineProperties DEF DesksKeep, VerdictsAreRecent
<1> QED
  BY <1>1, DesksInvariance, PTL

\* ProcessChainRule behind its tab: the cache holds the rules in force when no change is
\* pending, with the exceptions the property names.
THEOREM EngineCacheExact == Spec => []CacheIsExact
<1>1. DesksKeep => CacheIsExact
  BY EngineProperties DEF DesksKeep, CacheIsExact
<1> QED
  BY <1>1, DesksInvariance, PTL

\* GroupDetailModal: a batch isolation is for the group whose name was typed, and a batch undo
\* for the group it was asked for, unless the dialog or its group changed under the confirmation.
THEOREM BatchesNameTheirGroup == Spec => []BatchNamesItsGroup
<1>1. DesksKeep => BatchNamesItsGroup
  BY GroupProperties DEF DesksKeep, BatchNamesItsGroup
<1> QED
  BY <1>1, DesksInvariance, PTL

\* useGroups, GroupDetailModal: whatever listings, saves and answers are under way, the dialog
\* comes to show the members the group has, unless requests about it crossed or failed.
THEOREM MembersAreExact == Spec => []SettledMembersAreExact
<1>1. DesksKeep => SettledMembersAreExact
  BY GroupProperties DEF DesksKeep, SettledMembersAreExact
<1> QED
  BY <1>1, DesksInvariance, PTL

\* The hooks and dialogs of every page: a skeleton, a busy button or a dialog that cannot be
\* closed stands for a request, timer or listing that will end it.
THEOREM BusyIsWorking == Spec => []BusyMeansWorking
<1>1. DesksKeep => BusyMeansWorking
  BY IncidentProperties, DetectionRuleProperties, ChainRuleProperties, ProcessGroupProperties,
     GroupProperties
     DEF DesksKeep, BusyMeansWorking, PolicyInv, ProcessInv
<1> QED
  BY <1>1, DesksInvariance, PTL

\* The console's pages: every page keeps its variables within their types.
THEOREM PagesTypeOK == Spec => []TypeOK
<1>1. DesksKeep => TypeOK
  BY IncidentProperties, DetectionRuleProperties, ChainRuleProperties, ProcessGroupProperties,
     GroupProperties, EngineProperties
     DEF DesksKeep, TypeOK, PolicyInv, ProcessInv
<1> QED
  BY <1>1, DesksInvariance, PTL
=============================================================================
