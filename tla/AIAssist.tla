------------------------------ MODULE AIAssist ------------------------------
(***************************************************************************)
(* The AI tab of an incident: triage, suggested response, review.           *)
(*                                                                          *)
(* The manager keeps the analyses of the incident; every request is about   *)
(* the latest one.  The language model runs in background tasks, for        *)
(* minutes.  On the screen AIAnalysisTab shows the triage and, unless it    *)
(* is busy or the triage failed, AISuggestionPanel inside it.  Each has its *)
(* own copy of the latest analysis and its own interval timer that polls    *)
(* for what it has asked for.  Colleagues work on the same incident.        *)
(***************************************************************************)
EXTENDS Naturals, Sequences, FiniteSets

CONSTANTS
    Slots,        \* requests under way, this analyst's and a colleague's (bound)
    Tasks,        \* suggest_response tasks under way (bound)
    MaxRows,      \* analyses of the incident (bound)
    MaxSug,       \* suggestions the model makes (bound)
    MaxTriage,    \* triage tasks under way (bound)
    MaxAttempts,  \* MAX_ATTEMPTS: polls of one timer (60 and 45 in the code)
    MaxReads,     \* polls in flight at once (bound)
    MaxRequests,  \* requests of the analyst and the colleague (bound)
    MaxFaults     \* failed requests (bound)

ASSUME BoundsAssumption ==
    /\ Slots \subseteq Nat \ {0}
    /\ MaxSug \in Nat /\ MaxRows \in Nat /\ MaxAttempts \in Nat
    /\ MaxTriage \in Nat \ {0} /\ MaxRequests \in Nat /\ MaxFaults \in Nat

VARIABLES
    rows,        \* the analyses, oldest first
    triaging,    \* analyze_incident tasks under way
    task,        \* suggest_response tasks under way
    sugs,        \* suggestions made so far: a suggestion is its number
    executed,    \* response actions created from suggestions: from which row,
                 \* was it what the analyst saw, had it been reviewed before
                 \* (history variable)
    reviewed,    \* suggestions marked applied or dismissed (history variable)
    job,         \* requests under way, by slot
    tab,         \* AIAnalysisTab: open, analysis, loading, regenerating,
                 \* a quiet refresh under way, the newest analysis when it was last told to regenerate
    panel,       \* AISuggestionPanel: analysis, loading, suggesting, dismissing dialog
    regenTimer,  \* pollTimerRef of the tab: ticks left, or Off
    sugTimer,    \* pollTimerRef of the panel
    reads,       \* GETs of the analysis on their way
    asked,       \* requests so far
    faults

manager == <<rows, triaging, task, sugs, executed, reviewed>>
timers == <<regenTimer, sugTimer>>
vars == <<manager, job, tab, panel, timers, reads, asked, faults>>

None == [row |-> 0, failed |-> FALSE]
Nothing == [sug |-> 0, applied |-> FALSE, dismissed |-> FALSE]
Idle == [op |-> "idle"]
Off == MaxAttempts + 1          \* no timer; otherwise the number of ticks so far

Reviewable == [sug : 0 .. MaxSug, applied : BOOLEAN, dismissed : BOOLEAN, failed : BOOLEAN]

\* What the tab shows of an analysis.  Summary, techniques, evidence and root
\* cause are fixed when the row is written, so the row's number stands for them.
Triages == [row : 0 .. MaxRows, failed : BOOLEAN]

\* What the panel shows of an analysis: the suggestion and its review.
Proposals == [sug : 0 .. MaxSug, applied : BOOLEAN, dismissed : BOOLEAN]

Ops == {"regen", "suggest", "apply", "dismiss"}
Jobs == [op : Ops, by : {"here", "left", "elsewhere"}, row : 0 .. MaxRows,
         sug : 0 .. MaxSug, seen : 0 .. MaxSug, barred : SUBSET (1 .. MaxSug),
         stage : {"sent", "acting", "acted", "ok", "err", "fetching"}]
Loaded == [row : 1 .. MaxRows, applied : BOOLEAN, dismissed : BOOLEAN]

TypeOK ==
    /\ rows \in UNION {[1 .. n -> Reviewable] : n \in 0 .. MaxRows}
    /\ triaging \in 0 .. MaxTriage
    /\ task \in [Tasks -> {Idle, [op |-> "asked"]} \cup Loaded]
    /\ sugs \in 0 .. MaxSug
    /\ executed \subseteq [row : 1 .. MaxRows, approved : BOOLEAN, again : BOOLEAN]
    /\ reviewed \subseteq 1 .. MaxSug
    /\ job \in [Slots -> Jobs \cup {Idle}]
    /\ tab \in [open : BOOLEAN, analysis : Triages, loading : BOOLEAN,
                regenerating : BOOLEAN, refreshing : BOOLEAN,
                base : 0 .. MaxRows]
    /\ panel \in [analysis : Proposals, loading : BOOLEAN, suggesting : BOOLEAN,
                  dismissOpen : BOOLEAN]
    /\ regenTimer \in 0 .. Off /\ sugTimer \in 0 .. Off
    /\ asked \in 0 .. MaxRequests /\ faults \in 0 .. MaxFaults

NoTab == [open |-> FALSE, analysis |-> None, loading |-> FALSE,
          regenerating |-> FALSE, refreshing |-> FALSE, base |-> 0]
NoPanel == [analysis |-> Nothing, loading |-> FALSE, suggesting |-> FALSE,
            dismissOpen |-> FALSE]

\* The incident has just been created, and with it the task of its triage.
Init ==
    /\ rows = <<>> /\ triaging = 1
    /\ task = [t \in Tasks |-> Idle]
    /\ sugs = 0 /\ executed = {} /\ reviewed = {}
    /\ job = [s \in Slots |-> Idle]
    /\ tab = NoTab /\ panel = NoPanel
    /\ regenTimer = Off /\ sugTimer = Off
    /\ reads = {} /\ asked = 0 /\ faults = 0

-----------------------------------------------------------------------------
(* The manager *)

\* A request fails, or its answer is lost.
Fault == faults < MaxFaults /\ faults' = faults + 1

Step(s, stage) == job' = [job EXCEPT ![s].stage = stage]
Sent(s, op) == job[s] # Idle /\ job[s].op = op /\ job[s].stage = "sent"
Answered(s, op, stages) == job[s] # Idle /\ job[s].op = op /\ job[s].stage \in stages
StillScreen == UNCHANGED <<tab, panel, timers, reads>>

Latest == Len(rows)

\* GET .../ai-analysis, as far as the tab and as far as the panel reads it.
Triage == IF Latest = 0 THEN None ELSE [row |-> Latest, failed |-> rows[Latest].failed]
Suggested == IF Latest = 0 \/ rows[Latest].sug = 0 THEN Nothing
             ELSE [sug |-> rows[Latest].sug, applied |-> rows[Latest].applied,
                   dismissed |-> rows[Latest].dismissed]

\* analyze_incident: a new analysis, also when it failed, or not even that.
TriageDone ==
    /\ triaging > 0
    /\ triaging' = triaging - 1
    /\ \/ /\ Latest < MaxRows
          /\ \E failed \in BOOLEAN :
                rows' = Append(rows, [sug |-> 0, applied |-> FALSE, dismissed |-> FALSE,
                                      failed |-> failed])
       \/ UNCHANGED rows
    /\ UNCHANGED <<task, sugs, executed, reviewed, job, faults>> /\ StillScreen

\* POST .../regenerate: the task is started, the answer comes at once, or is
\* lost.  (Where the bound leaves no room for the task, the request fails.)
ServeRegenerate(s) ==
    /\ Sent(s, "regen")
    /\ \/ /\ triaging < MaxTriage /\ triaging' = triaging + 1
          /\ (Step(s, "ok") /\ UNCHANGED faults) \/ (Step(s, "err") /\ Fault)
       \/ triaging = MaxTriage /\ Step(s, "err") /\ UNCHANGED <<triaging, faults>>
    /\ UNCHANGED <<rows, task, sugs, executed, reviewed>> /\ StillScreen

\* POST .../suggest-response
ServeSuggest(s) ==
    /\ Sent(s, "suggest")
    /\ \/ /\ \E t \in Tasks : task[t] = Idle /\ task' = [task EXCEPT ![t] = [op |-> "asked"]]
          /\ (Step(s, "ok") /\ UNCHANGED faults) \/ (Step(s, "err") /\ Fault)
       \/ (\A t \in Tasks : task[t] # Idle) /\ Step(s, "err") /\ UNCHANGED <<task, faults>>
    /\ UNCHANGED <<rows, triaging, sugs, executed, reviewed>> /\ StillScreen

\* suggest_response loads the latest analysis, if there is one ...
LoadForSuggest(t) ==
    /\ task[t] = [op |-> "asked"]
    /\ task' = [task EXCEPT ![t] =
                 IF Latest = 0 THEN Idle
                 ELSE [row |-> Latest, applied |-> rows[Latest].applied,
                       dismissed |-> rows[Latest].dismissed]]
    /\ UNCHANGED <<rows, triaging, sugs, executed, reviewed, job, faults>> /\ StillScreen

\* ... and writes the model's suggestion to it minutes later.  The session
\* writes the columns it has changed: a review mark that was not there when the
\* row was loaded is not taken back.  Any exception: nothing is written.
Rewritten(r, loaded) ==
    [sug |-> sugs + 1,
     applied |-> r.applied /\ ~loaded.applied,
     dismissed |-> r.dismissed /\ ~loaded.dismissed,
     failed |-> r.failed]

FinishSuggest(t) ==
    /\ task[t] \in Loaded
    /\ task' = [task EXCEPT ![t] = Idle]
    /\ \/ /\ sugs < MaxSug
          /\ sugs' = sugs + 1
          /\ rows' = [rows EXCEPT ![task[t].row] = Rewritten(@, task[t])]
       \/ UNCHANGED <<rows, sugs>>
    /\ UNCHANGED <<triaging, executed, reviewed, job, faults>> /\ StillScreen

\* (mutant) the idempotency check forgets dismissals
MayApplyDismissed == Latest > 0 /\ rows[Latest].sug > 0 /\ ~rows[Latest].applied

\* (mutant) the check for a suggestion is gone
MayApplyNothing == Latest > 0 /\ ~rows[Latest].applied /\ ~rows[Latest].dismissed

\* The idempotency check of apply_suggestion.
MayApply ==
    /\ Latest > 0 /\ rows[Latest].sug > 0
    /\ ~rows[Latest].applied /\ ~rows[Latest].dismissed

\* apply_suggestion: the row is loaded and checked; 404 or 409, or 400 when the
\* target is gone, the action is no_action, or the agent cools down ...
CheckApply(s) ==
    /\ Sent(s, "apply")
    /\ \/ /\ MayApply
          /\ job' = [job EXCEPT ![s].stage = "acting", ![s].row = Latest,
                                ![s].sug = rows[Latest].sug]
       \/ Step(s, "err")
    /\ UNCHANGED <<manager, faults>> /\ StillScreen

\* ... create_and_apply_action commits the action and its command ...
CreateAction(s) ==
    /\ Answered(s, "apply", {"acting"})
    /\ executed' = executed \cup
         {[row |-> job[s].row, approved |-> job[s].seen = job[s].sug,
           again |-> job[s].sug \in job[s].barred]}
    /\ job' = [job EXCEPT ![s].stage = "acted", ![s].seen = 0, ![s].barred = {}]
    /\ UNCHANGED <<rows, triaging, task, sugs, reviewed, faults>> /\ StillScreen

\* (mutant) the row is marked before the action exists
MarkAppliedEarly(s) ==
    /\ Answered(s, "apply", {"acting", "acted"})
    /\ rows' = [rows EXCEPT ![job[s].row].applied = TRUE]
    /\ reviewed' = reviewed \cup {job[s].sug}
    /\ (Step(s, "ok") /\ UNCHANGED faults) \/ (Step(s, "err") /\ Fault)
    /\ UNCHANGED <<triaging, task, sugs, executed>> /\ StillScreen

\* ... and then the row is marked, in a second commit that may fail.
MarkApplied(s) ==
    /\ Answered(s, "apply", {"acted"})
    /\ \/ /\ rows' = [rows EXCEPT ![job[s].row].applied = TRUE]
          /\ reviewed' = reviewed \cup {job[s].sug}
          /\ (Step(s, "ok") /\ UNCHANGED faults) \/ (Step(s, "err") /\ Fault)
       \/ Step(s, "err") /\ Fault /\ UNCHANGED <<rows, reviewed>>
    /\ UNCHANGED <<triaging, task, sugs, executed>> /\ StillScreen

\* dismiss_suggestion: the latest analysis is marked, whatever it holds.
ServeDismiss(s) ==
    /\ Sent(s, "dismiss")
    /\ \/ /\ Latest > 0
          /\ rows' = [rows EXCEPT ![Latest].dismissed = TRUE]
          /\ reviewed' = reviewed \cup ({rows[Latest].sug} \ {0})
          /\ (Step(s, "ok") /\ UNCHANGED faults) \/ (Step(s, "err") /\ Fault)
       \/ Latest = 0 /\ Step(s, "err") /\ UNCHANGED <<rows, reviewed, faults>>
    /\ UNCHANGED <<triaging, task, sugs, executed>> /\ StillScreen

-----------------------------------------------------------------------------
(* Requests and listings of the screen *)

ByPanel == {"panel", "suggest", "review"}

\* A GET is answered from the table when it is asked; "by" is who waits for it,
\* "base" what a timer regards as old, or the slot of the handler that waits.
Read(by, base) == [by |-> by, base |-> base,
                   data |-> IF by \in ByPanel THEN Suggested ELSE Triage]
RoomFor(by) == Cardinality({r \in reads : r.by = by}) < MaxReads

\* Which body the tab renders: the panel is there unless the tab is loading,
\* regenerating, without an analysis, or shows that the triage failed.
HasPanel(t) ==
    /\ t.open /\ ~t.loading /\ ~t.regenerating
    /\ t.analysis # None /\ ~t.analysis.failed

Leave(by) == IF by = "here" THEN "left" ELSE by

\* The tab goes to state t.  Its panel is mounted, and asks for the analysis
\* itself, or unmounted, and its handlers run on without it.
Render(t, rs, js) ==
    /\ tab' = t
    /\ IF HasPanel(t)
       THEN IF HasPanel(tab)
            THEN reads' = rs /\ job' = js /\ UNCHANGED <<panel, sugTimer>>
            ELSE /\ reads' = rs \cup {Read("panel", 0)}
                 /\ panel' = [NoPanel EXCEPT !.loading = TRUE]
                 /\ job' = js /\ UNCHANGED sugTimer
       ELSE /\ reads' = {r \in rs : r.by \notin ByPanel}
            /\ panel' = NoPanel
            /\ sugTimer' = Off
            /\ job' = [s \in Slots |->
                         IF js[s] = Idle THEN Idle
                         ELSE IF js[s].op \in {"suggest", "apply", "dismiss"}
                         THEN IF js[s].stage = "fetching" THEN Idle
                              ELSE [js[s] EXCEPT !.by = Leave(@)]
                         ELSE js[s]]

New(s, op, seen, by) ==
    [job EXCEPT ![s] = [op |-> op, by |-> by, row |-> 0, sug |-> 0, seen |-> seen,
                        barred |-> IF op = "apply" THEN reviewed ELSE {}, stage |-> "sent"]]
Free(s) == job[s] = Idle /\ \A u \in Slots : u < s => job[u] # Idle
Running(op) == \E s \in Slots : job[s] # Idle /\ job[s].op = op /\ job[s].by = "here"

\* A colleague at another screen, who looks at the latest suggestion.
Colleague(s, op) ==
    /\ Free(s)
    /\ op \in {"apply", "dismiss"} => Suggested.sug > 0
    /\ job' = New(s, op, Suggested.sug, "elsewhere")
    /\ UNCHANGED <<manager, faults>> /\ StillScreen

\* onRefresh of the panel: the tab loads the analysis again, without a skeleton.
AskRefresh == tab' = [tab EXCEPT !.refreshing = TRUE]

\* The end of a request nobody waits for any more.  The timer that a panel
\* starts after it has gone polls too: it may refresh the tab the panel was in.
EndsUnseen(s) ==
    /\ job[s] # Idle /\ job[s].by # "here" /\ job[s].stage \in {"ok", "err"}
    /\ job' = [job EXCEPT ![s] = Idle]
    /\ \/ UNCHANGED tab
       \/ /\ job[s].op = "suggest" /\ job[s].by = "left" /\ job[s].stage = "ok"
          /\ AskRefresh
    /\ UNCHANGED <<manager, panel, timers, reads, faults>>

-----------------------------------------------------------------------------
(* AIAnalysisTab *)

\* The tab is opened: fetchAnalysis.
Open ==
    /\ ~tab.open
    /\ Render([NoTab EXCEPT !.open = TRUE, !.loading = TRUE], {Read("tab", 0)}, job)
    /\ UNCHANGED <<manager, regenTimer, faults>>

\* Another tab, or the dialog is closed: the cleanup clears the timer.
Close ==
    /\ tab.open
    /\ regenTimer' = Off
    /\ Render(NoTab, {}, [s \in Slots |-> IF job[s] = Idle THEN Idle
                                          ELSE [job[s] EXCEPT !.by = "elsewhere"]])
    /\ UNCHANGED <<manager, faults>>

\* The answer of fetchAnalysis.  There is no analysis yet: that is an error like
\* any other, since the interceptor of api.js hides the status 404.
TabLoaded(r) ==
    /\ r.by = "tab"
    /\ \/ /\ r.data # None
          /\ Render([tab EXCEPT !.analysis = r.data, !.loading = FALSE],
                    reads \ {r}, job)
          /\ UNCHANGED faults
       \/ /\ IF r.data = None THEN UNCHANGED faults ELSE Fault
          /\ Render([tab EXCEPT !.loading = FALSE], reads \ {r}, job)
    /\ UNCHANGED <<manager, regenTimer>>

\* The quiet fetchAnalysis; when it fails, the analysis stays.
TabRefreshed ==
    /\ tab.refreshing
    /\ \E a \in {Triage, tab.analysis} :
          /\ IF a = Triage THEN UNCHANGED faults ELSE Fault
          /\ Render([tab EXCEPT !.refreshing = FALSE, !.analysis = a], reads, job)
    /\ UNCHANGED <<manager, regenTimer>>

\* The error screen offers to load again, and nothing else.
Retry ==
    /\ tab.open /\ ~tab.loading /\ ~tab.regenerating
    /\ tab.analysis = None
    /\ Render([tab EXCEPT !.loading = TRUE], reads \cup {Read("tab", 0)}, job)
    /\ UNCHANGED <<manager, regenTimer, faults>>

\* Both views of an analysis, good or failed, offer to regenerate it.
CanRegenerate ==
    /\ tab.open /\ ~tab.loading /\ ~tab.regenerating
    /\ tab.analysis # None

\* handleRegenerate: an old timer is cleared, a skeleton replaces the body.
Regenerate(s) ==
    /\ CanRegenerate /\ Free(s)
    /\ regenTimer' = Off
    /\ Render([tab EXCEPT !.regenerating = TRUE, !.base = Latest],
              reads, New(s, "regen", 0, "here"))
    /\ UNCHANGED <<manager, faults>>

\* ... the POST has been answered: the interval timer is set ...
RegenerateAnswered(s) ==
    /\ Answered(s, "regen", {"ok", "err"}) /\ job[s].by = "here"
    /\ LET js == [job EXCEPT ![s] = Idle]
       IN IF job[s].stage = "ok"
          THEN /\ regenTimer' = 0
               /\ job' = js
               /\ UNCHANGED <<tab, panel, sugTimer, reads>>
          ELSE /\ UNCHANGED regenTimer
               /\ Render([tab EXCEPT !.regenerating = FALSE], reads, js)
    /\ UNCHANGED <<manager, faults>>

\* (mutant) the attempts are not counted
RegenTickUncounted ==
    /\ regenTimer < Off
    /\ RoomFor("regen")
    /\ reads' = reads \cup {Read("regen", tab.base)}
    /\ UNCHANGED <<manager, job, tab, panel, timers, faults>>

\* ... which polls MaxAttempts times ...
RegenTick ==
    /\ regenTimer < MaxAttempts
    /\ RoomFor("regen")
    /\ regenTimer' = regenTimer + 1
    /\ reads' = reads \cup {Read("regen", tab.base)}
    /\ UNCHANGED <<manager, job, tab, panel, sugTimer, faults>>

\* (mutant) the spinner stays when the polling gives up
RegenTimeoutStuck ==
    /\ regenTimer = MaxAttempts
    /\ regenTimer' = Off
    /\ Render(tab, reads, job)
    /\ UNCHANGED <<manager, faults>>

\* ... and gives up at the next tick.
RegenTimeout ==
    /\ regenTimer = MaxAttempts
    /\ regenTimer' = Off
    /\ Render([tab EXCEPT !.regenerating = FALSE], reads, job)
    /\ UNCHANGED <<manager, faults>>

\* A poll that finds an analysis newer than the one its timer started from ends
\* whatever timer there is by now, and the spinner; any other, or a failed one,
\* is ignored.
RegenPolled(r) ==
    /\ r.by = "regen"
    /\ \/ /\ r.data.row > r.base
          /\ regenTimer' = Off
          /\ Render([tab EXCEPT !.analysis = r.data, !.regenerating = FALSE],
                    reads \ {r}, job)
          /\ UNCHANGED faults
       \/ /\ IF r.data.row > r.base THEN Fault ELSE UNCHANGED faults
          /\ reads' = reads \ {r}
          /\ UNCHANGED <<job, tab, panel, timers>>
    /\ UNCHANGED manager

-----------------------------------------------------------------------------
(* AISuggestionPanel *)

\* fetchAnalysis of the panel: a failure leaves it without an analysis.
PanelCopy(r, a) ==
    \/ a = r.data /\ UNCHANGED faults
    \/ a = Nothing /\ r.data # Nothing /\ Fault

PanelLoaded(r) ==
    /\ r.by = "panel"
    /\ \E a \in {r.data, Nothing} :
          /\ PanelCopy(r, a)
          /\ panel' = [panel EXCEPT !.analysis = a, !.loading = FALSE]
    /\ reads' = reads \ {r}
    /\ UNCHANGED <<manager, job, tab, timers>>

\* What the panel puts before the analyst: action, target, blast radius and
\* reasoning of a suggestion, all of it one number here.
Proposal == panel.analysis.sug

\* The two buttons that ask for a suggestion, the first or another one.
CanSuggest ==
    /\ HasPanel(tab) /\ ~panel.loading /\ ~panel.suggesting
    /\ Proposal > 0 => ~Running("apply")

\* handleTriggerSuggest
Suggest(s) ==
    /\ CanSuggest /\ Free(s)
    /\ job' = New(s, "suggest", 0, "here")
    /\ panel' = [panel EXCEPT !.suggesting = TRUE]
    /\ sugTimer' = Off
    /\ UNCHANGED <<manager, tab, regenTimer, reads, faults>>

SuggestAnswered(s) ==
    /\ Answered(s, "suggest", {"ok", "err"}) /\ job[s].by = "here"
    /\ job' = [job EXCEPT ![s] = Idle]
    /\ IF job[s].stage = "ok"
       THEN sugTimer' = 0 /\ UNCHANGED panel
       ELSE panel' = [panel EXCEPT !.suggesting = FALSE] /\ UNCHANGED sugTimer
    /\ UNCHANGED <<manager, tab, regenTimer, reads, faults>>

SuggestTick ==
    /\ sugTimer < MaxAttempts
    /\ RoomFor("suggest")
    /\ sugTimer' = sugTimer + 1
    /\ reads' = reads \cup {Read("suggest", 0)}
    /\ UNCHANGED <<manager, job, tab, panel, regenTimer, faults>>

SuggestTimeout ==
    /\ sugTimer = MaxAttempts
    /\ sugTimer' = Off
    /\ panel' = [panel EXCEPT !.suggesting = FALSE]
    /\ UNCHANGED <<manager, job, tab, regenTimer, reads, faults>>

\* A poll refreshes the panel.  Any suggestion, an old one too, ends the polling.
SuggestPolled(r) ==
    /\ r.by = "suggest"
    /\ \E a \in {r.data, Nothing} :
          /\ PanelCopy(r, a)
          /\ panel' = [panel EXCEPT !.analysis = a,
                                    !.suggesting = @ /\ a.sug = 0]
          /\ sugTimer' = IF a.sug > 0 THEN Off ELSE sugTimer
          /\ IF a.sug > 0 THEN AskRefresh ELSE UNCHANGED tab
    /\ reads' = reads \ {r}
    /\ UNCHANGED <<manager, job, regenTimer>>

\* "Apply" and "Dismiss" are there until the panel knows of a review.
CanReview ==
    /\ HasPanel(tab) /\ ~panel.loading
    /\ Proposal > 0 /\ ~panel.analysis.applied /\ ~panel.analysis.dismissed
    /\ ~Running("apply") /\ ~Running("dismiss")

\* handleApply: the request names the incident, not the suggestion.
Apply(s) ==
    /\ CanReview /\ ~panel.dismissOpen /\ Free(s)
    /\ job' = New(s, "apply", Proposal, "here")
    /\ UNCHANGED <<manager, faults>> /\ StillScreen

OpenDismiss ==
    /\ CanReview /\ ~panel.dismissOpen
    /\ panel' = [panel EXCEPT !.dismissOpen = TRUE]
    /\ UNCHANGED <<manager, job, tab, timers, reads, faults>>

\* The dialog can be left unless the dismissal is being saved.
CancelDismiss ==
    /\ panel.dismissOpen /\ ~Running("dismiss")
    /\ panel' = [panel EXCEPT !.dismissOpen = FALSE]
    /\ UNCHANGED <<manager, job, tab, timers, reads, faults>>

\* handleConfirmDismiss, with a reason.
ConfirmDismiss(s) ==
    /\ panel.dismissOpen /\ ~Running("dismiss") /\ Free(s)
    /\ job' = New(s, "dismiss", Proposal, "here")
    /\ UNCHANGED <<manager, faults>> /\ StillScreen

\* Both fetch the analysis when they have succeeded, and end when they have not.
ReviewAnswered(s) ==
    /\ \E op \in {"apply", "dismiss"} : Answered(s, op, {"ok", "err"})
    /\ job[s].by = "here"
    /\ IF job[s].stage = "ok"
       THEN /\ Step(s, "fetching")
            /\ reads' = reads \cup {Read("review", s)}
            /\ panel' = [panel EXCEPT !.dismissOpen = @ /\ job[s].op = "apply"]
       ELSE /\ job' = [job EXCEPT ![s] = Idle]
            /\ UNCHANGED <<reads, panel>>
    /\ UNCHANGED <<manager, tab, timers, faults>>

ReviewEnds(r) ==
    /\ r.by = "review"
    /\ \E a \in {r.data, Nothing} :
          PanelCopy(r, a) /\ panel' = [panel EXCEPT !.analysis = a]
    /\ AskRefresh
    /\ reads' = reads \ {r}
    /\ job' = [job EXCEPT ![r.base] = Idle]
    /\ UNCHANGED <<manager, timers>>

-----------------------------------------------------------------------------
Manager ==
    /\ TriageDone \/ \E t \in Tasks : LoadForSuggest(t) \/ FinishSuggest(t)
    /\ UNCHANGED asked

Serve(s) ==
    /\ \/ ServeRegenerate(s) \/ ServeSuggest(s) \/ ServeDismiss(s)
       \/ CheckApply(s) \/ CreateAction(s) \/ MarkApplied(s)
    /\ UNCHANGED asked

Answer(s) ==
    /\ RegenerateAnswered(s) \/ SuggestAnswered(s) \/ ReviewAnswered(s) \/ EndsUnseen(s)
    /\ UNCHANGED asked

Arrive(r) ==
    /\ TabLoaded(r) \/ RegenPolled(r) \/ PanelLoaded(r) \/ SuggestPolled(r) \/ ReviewEnds(r)
    /\ UNCHANGED asked

Clock == (RegenTick \/ RegenTimeout \/ SuggestTick \/ SuggestTimeout) /\ UNCHANGED asked

Screen ==
    /\ Open \/ Close \/ Retry \/ OpenDismiss \/ CancelDismiss \/ TabRefreshed
    /\ UNCHANGED asked

Ask ==
    /\ asked < MaxRequests
    /\ asked' = asked + 1
    /\ \E s \in Slots : \/ Regenerate(s) \/ Suggest(s) \/ Apply(s) \/ ConfirmDismiss(s)
                         \/ \E op \in {"suggest", "apply", "dismiss"} : Colleague(s, op)

Next ==
    \/ Manager \/ Clock \/ Screen \/ Ask
    \/ \E s \in Slots : Serve(s) \/ Answer(s)
    \/ \E r \in reads : Arrive(r)

Spec == Init /\ [][Next]_vars

\* As long as a timer is to tick, a listing to arrive or a request to be served
\* or answered, one of these happens: a request that takes too long is failed by
\* axios.  Nothing is assumed of the language model, the background tasks or the
\* analysts.
UnderWay == Clock \/ (\E r \in reads : Arrive(r)) \/ (\E s \in Slots : Serve(s) \/ Answer(s))
Fairness == WF_vars(UnderWay)

FairSpec == Spec /\ Fairness

-----------------------------------------------------------------------------
(* Properties *)

\* An analysis that counts as applied has really been acted on: the mark is
\* never ahead of the action, though the two are committed separately.
MarkedRowWasActedOn ==
    \A n \in 1 .. Latest : rows[n].applied => \E e \in executed : e.row = n

\* A suggestion that was applied or dismissed before a request was sent is not
\* executed by it, whatever is regenerated and suggested anew meanwhile.
ReviewedIsFinal == \A e \in executed : ~e.again

\* While the screen shows that the model is at work, a request of its own is
\* under way or a timer is running, so that the state of being busy can end.
\* Timers and their late polls may get in each other's way; a spinner without
\* either would never stop.
SpinnersMeanWork ==
    /\ tab.regenerating => Running("regen") \/ regenTimer # Off
    /\ panel.suggesting => Running("suggest") \/ sugTimer # Off

\* The polling ends, whether or not there ever is a result ("AI timeout").
SpinnersEnd ==
    /\ tab.regenerating ~> ~tab.regenerating
    /\ panel.suggesting ~> ~panel.suggesting

\* "Analyst must explicitly approve and apply all recommendations": what is
\* executed is the suggestion the analyst had on the screen.
ApprovedIsExecuted == \A e \in executed : e.approved
=============================================================================
