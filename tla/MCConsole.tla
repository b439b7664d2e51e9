------------------------------ MODULE MCConsole ------------------------------
(***************************************************************************)
(* The console's other pages for TLC, and the chain rules behind one of     *)
(* them.  The router mounts one page at a time and a page takes nothing     *)
(* over from the one before, so the page is chosen once; the desks share    *)
(* their variables' names, and each gives them its own content.             *)
(***************************************************************************)
EXTENDS Naturals, FiniteSets

CONSTANTS
    Incidents, Bare, Target, Tabs, OthersSet, MaxIncidentRequests,
    Policies,
    Rules, MaxProcessGroupRequests,
    Agents, MaxProcessRequests,
    Groups, Hosts,
    Slots, MaxReads, MaxRequests, MaxFaults

ASSUME BoundsAssumption ==
    /\ MaxProcessRequests \in Nat \ {0}
    /\ MaxRequests \in Nat /\ MaxIncidentRequests \in Nat
    /\ MaxProcessGroupRequests \in Nat /\ MaxFaults \in Nat

VARIABLES desk, srv, hist, page, dialog, job, reads, asked, faults

I == INSTANCE IncidentDesk WITH MaxRequests <- MaxIncidentRequests
P == INSTANCE PolicyDesk
R == INSTANCE RuleDesk WITH Fields <- {"enabled", "weight"}, Switches <- {"enabled", "weight"},
                            Tabbed <- FALSE
C == INSTANCE RuleDesk WITH Fields <- {"enabled"}, Switches <- {"enabled"}, Tabbed <- TRUE
D == INSTANCE ProcessGroupDesk WITH Groups <- Rules, MaxRequests <- MaxProcessGroupRequests
K == INSTANCE ProcessDesk WITH MaxRequests <- MaxProcessRequests
G == INSTANCE GroupDesk
E == INSTANCE ChainRules
     WITH db <- srv, cache <- page, clock <- dialog, eval <- job, change <- reads,
          Groups <- {1}, Patterns <- {0, 1}, DefaultGroup <- 1, DefaultPatterns <- 0,
          TTL <- 1, MaxTime <- 1, Changes <- Slots, Evaluations <- Slots

ASSUME IncidentAssumption ==
    /\ I!None \notin Incidents /\ "story" \in Tabs /\ OthersSet \subseteq I!Status

ASSUME GroupAssumption == G!None \notin Groups

vars == <<desk, srv, hist, page, dialog, job, reads, asked, faults>>

Init ==
    \/ desk = "incidents" /\ I!Init
    \/ desk = "policies" /\ P!Init
    \/ desk = "detection rules" /\ R!Init
    \/ desk = "chain rules" /\ C!Init
    \/ desk = "process groups" /\ D!Init
    \/ desk = "processes" /\ K!Init
    \/ desk = "groups" /\ G!Init
    \/ desk = "engine" /\ E!Init

IncidentStep == desk = "incidents" /\ I!Next /\ UNCHANGED desk
PolicyStep == desk = "policies" /\ P!Next /\ UNCHANGED desk
DetectionRuleStep == desk = "detection rules" /\ R!Next /\ UNCHANGED desk
ChainRuleStep == desk = "chain rules" /\ C!Next /\ UNCHANGED desk
ProcessGroupStep == desk = "process groups" /\ D!Next /\ UNCHANGED desk
ProcessStep == desk = "processes" /\ K!Next /\ UNCHANGED desk
GroupStep == desk = "groups" /\ G!Next /\ UNCHANGED desk
EngineStep == desk = "engine" /\ E!Next /\ UNCHANGED desk

Next ==
    \/ IncidentStep \/ PolicyStep \/ DetectionRuleStep \/ ChainRuleStep
    \/ ProcessGroupStep \/ ProcessStep \/ GroupStep \/ EngineStep

Spec == Init /\ [][Next]_vars

-----------------------------------------------------------------------------
(* Properties *)

\* Every page keeps its variables within their types.
TypeOK ==
    /\ desk = "incidents" => I!TypeOK
    /\ desk = "policies" => P!TypeOK
    /\ desk = "detection rules" => R!TypeOK
    /\ desk = "chain rules" => C!TypeOK
    /\ desk = "process groups" => D!TypeOK
    /\ desk = "processes" => K!TypeOK
    /\ desk = "groups" => G!TypeOK
    /\ desk = "engine" => E!TypeOK

\* Incidents.jsx and its dialog show only statuses the incident has had, or that
\* api/incidents.js made up for a failed request.
ShownWasTrueOrMadeUp == desk = "incidents" => I!ShownWasTrueOrMadeUp

\* IncidentDetailModal: of the operations of one dialog, one runs at a time.
OneWriteAtATime == desk = "incidents" => I!OneWriteAtATime

\* IncidentDetailModal: as long as the dialog has shown one incident only, its
\* kill buttons name that incident's process, or the banner's made-up one.
KillNamesOwnProcess == desk = "incidents" => I!KillNamesOwnProcess

\* PolicyDryRunPanel: the manager executes no policy for the simulator but for a
\* confirmed live evaluation.
NothingRunsUnconfirmed == desk = "policies" => P!NothingRunsUnconfirmed

\* usePolicies, useDetectionRules, useProcessChainRules, useProcessGroups: a row or field that one
\* request at a time was about shows what the manager has.
UncontestedRowsAreExact ==
    /\ desk = "policies" => P!UncontestedRowIsExact
    /\ desk = "detection rules" => R!UncontestedFieldIsExact
    /\ desk = "chain rules" => C!UncontestedFieldIsExact
    /\ desk = "process groups" => D!UncontestedGroupIsExact

\* ProcessTree.jsx: once the selected host's processes are on the screen, a kill
\* is sent to the host the pid is of.
SettledKillNamesOwnPid == desk = "processes" => K!SettledKillNamesOwnPid

\* GroupDetailModal: a batch isolation is for the group whose name was typed, and
\* a batch undo for the group it was asked for, unless a late answer moved the
\* dialog to another one, or that group was deleted under the confirmation.
BatchNamesItsGroup == desk = "groups" => G!BatchNamesItsGroup

\* GroupDetailModal: the dialog comes to show the members the group has, unless
\* requests about it crossed or failed.
SettledMembersAreExact == desk = "groups" => G!SettledMembersAreExact

\* ProcessChainRule: telemetry is judged by rules that were in force within the
\* cache's lifetime.
VerdictsAreRecent == desk = "engine" => E!VerdictsAreRecent

\* ProcessChainRule: once a change has invalidated the cache, the cache holds the
\* rules in force, unless an evaluation that read them before fills it again.
CacheIsExact == desk = "engine" => E!CacheIsExact

\* On every page: a skeleton, a busy button, a disabled form or row, "Dispatching
\* Kill" and a dialog that cannot be closed each stand for a request, timer or
\* listing that will end it.
BusyMeansWorking ==
    /\ desk = "incidents" => I!BusyMeansWorking
    /\ desk = "policies" => P!BusyMeansWorking
    /\ desk = "detection rules" => R!BusyMeansWorking
    /\ desk = "chain rules" => C!BusyMeansWorking
    /\ desk = "process groups" => D!BusyMeansWorking
    /\ desk = "processes" => K!KillingMeansWorking
    /\ desk = "groups" => G!BusyMeansWorking
=============================================================================
