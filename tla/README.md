# LAN active response platform: verification project

The platform watches the hosts of a LAN and acts on them.  An *agent* runs on
every host (`src/agent`), a *manager* (`src/manager`, FastAPI and SQLAlchemy)
keeps the tables, scores risk, decides on responses and sends *commands*; a web
console (`src/frontend`) shows the tables and lets analysts act.  What can hurt
here is the response side: a host that is cut off, let loose, or believed to be
either when it is not.  The project therefore models the path of a response from
the decision to the packet filter and back; the pages of the console on which people
decide, show and take back responses; and the rules some decisions rest on.

| file | role |
| --- | --- |
| `CommandDelivery.tla` | what manager and agent promise about a command: row, dispatcher, retry, one attempt at a time |
| `CommandDeliveryProofs.tla` | its theorems, for any set of commands and any `MaxRetries` |
| `AgentSession.tla` | the WebSocket between agent and manager; implements `CommandDelivery` |
| `ResponseLifecycle.tla` | action row, command, agent row, host, rollback, scheduler, batch undos; uses `CommandDelivery` |
| `MCResponseLifecycle.tla` | symmetry for the model checker |
| `ResponseLifecycleProofs.tla` | theorems of the lifecycle; uses those of `CommandDelivery` |
| `AgentSessionProofs.tla` | theorems of the socket: types, one answer per request, pairing; the socket implements `CommandDelivery`, for any constants |
| `ActionDesk.tla` | the console's history and timeline of response actions, next to the action rows |
| `ActionDeskProofs.tla` | its theorems, for any number of actions, handlers, listings and failures |
| `AIAssist.tla` | the AI tab of an incident, its polling, and the manager's background tasks |
| `AIAssistProofs.tla` | its theorems, for any number of requests, tasks, analyses and failures |
| `IncidentDesk.tla` | the incident page with its dialog and tabs |
| `PolicyDesk.tla` | the policy page with the simulator that can execute |
| `RuleDesk.tla` | the tables of detection rules and of process chain rules |
| `RuleDeskProofs.tla` | theorems of these tables, for any rules, fields and requests |
| `ProcessGroupDesk.tla` | the table of process groups; an instance of `RuleDesk` with its own refusals |
| `ProcessDesk.tla` | the process tree of a host and its kills |
| `GroupDesk.tla` | host groups, their members and batch operations |
| `ChainRules.tla` | the manager's process chain rules: tables, seeding, cache and evaluation |
| `ChainRulesProofs.tla` | theorems about the cache, for any rules, groups, lifetime and number of handlers |
| `MCConsole.tla` | the desks and the chain rules (eight instances) for TLC, one at a time; names their properties |
| `MCConsoleProofs.tla` | theorems of these pages, one inductive invariant per page, for any rows, requests, handlers, listings and failures |

## Inventory

### Components, state, operations

**Command rows and dispatcher** (`models/command.py`,
`services/core/command_dispatcher.py`, `repositories/command_repository.py`).
State: `commands.status` (PENDING, SENT, SUCCESS, FAILED), `retry_count`,
`max_retries`.  Operations: `issue_command` inserts a PENDING row;
`pull_pending_commands` marks every PENDING row of an agent SENT;
`verify_execution` writes the reported verdict, and `schedule_retry` puts a
failed row back to PENDING while retries are left.  The dispatcher's in-memory
queues are filled and emptied but never decide what is sent.
*Correct if* a command is never under way twice, never runs more often than its
retries allow, and a verdict, once there, was earned and stays.

**Agent connection** (`agent/agent.py`, `websocket/agent_ws.py`).
State: the socket, the coroutine `send_stats` with its list of commands, what is
in flight.  Operations: heartbeat every 5 s, run the list, report each command
and wait up to 5 s for an answer, reconnect.  Other coroutines write
fire-and-forget telemetry on the same socket.  The manager reads one message,
handles it in a transaction, commits, answers; when a handler raises it rolls
back and answers with an error.
*Correct if* frames never hand out a command twice, and each request is answered
by its own answer.

**Response actions** (`services/response/response_action_service.py`).
State: `response_actions.status` (pending, applied, reverted, failed),
`cooldown_until`, `auto_rollback_at`.  Operations: create (with cooldown check)
and confirm.  *Correct if* an action counts as applied only when a host reported
so, and follows the verdict of its own command.

**Rollback** (`services/response/rollback_service.py`).  One action, or all of
an incident, an agent, a group, or all whose deadline has passed (scheduler).
Each undo locks the row, checks it, issues the compensating command, writes the
agent row and commits.  *Correct if* an action is undone once, and a failing undo
leaves an action that can be undone again.

**Agent row** (`models/agent.py`, `services/agent/agent_service.py`).  State:
`status` (active, isolated, quarantine, dead) and `is_isolated`; written by
heartbeat, sweep, confirmations, undo, and four routes.  *Correct if* the two
columns agree with each other, but for what a group undo's old copy of the row
leaves behind, and with the host once all is quiet.

**Agent handlers** (`agent/commands`).  State: the packet filter of the host.
They report `success`, `failed` or `error`; the manager knows no `error`.

**Scheduler** (`services/core/scheduler.py`).  Sweeps dead agents and undoes
expired actions; also feed synchronisation and retraining, which call out only.

**Risk assessment, policies, groups** (`services/detection/risk_assessment_service.py`,
`services/response/policy_engine_service.py`, `services/agent/agent_group_service.py`).
State: smoothed score per agent, policies and their score bands, members of a
group.  They turn scores into actions on one agent or on a group.  *Correct if*
a score always lands in exactly one band, smoothing never leaves 0..100, and an
action is not repeated while it cools down.

**Incidents** (`services/incident/incident_service.py`, `pages/Incidents.jsx`,
`components/incidents`).  Deduplicated by title and agent, walked through a workflow.
The page keeps a list, the dialog a copy of its incident, each tab a copy of the
telemetry.  *Correct if* what is shown was true, one operation of a dialog runs at
a time, and a process is killed for the incident it was seen in.

**AI suggestions** (`services/ai`, `AIAnalysisTab.jsx`, `AISuggestionPanel.jsx`).
State: the analyses of an incident, background tasks that write into the latest,
two copies of it on the screen with a timer each.  *Correct if* an analysis marked
applied was acted on, a reviewed suggestion is not executed, and the spinners end.

**Console: actions** (`hooks/useActions.js`, `pages/ActionsHistory.jsx`,
`ActionTimeline.jsx`).  State: the listing, busy flags, ticks, dialogs, handlers
that run on after the page is left.  *Correct if* only applied actions are undone,
"reverted" is never shown ahead of the manager, and the listing catches up.

**Console: tables** (`hooks/usePolicies.js`, `useDetectionRules.js`,
`useProcessChainRules.js`, `useProcessGroups.js` with their pages).  Rows are changed
on the screen first and put back when the manager refuses.  *Correct if* a row nobody
else touched agrees with the manager once its operation is over, and the policy
simulator executes nothing that was not confirmed.

**Console: processes and groups** (`pages/ProcessTree.jsx`, `pages/Agents.jsx`,
`components/groups`).  A host or group is chosen, its processes or members are fetched,
an operation names both.  *Correct if* they belong together.

**Process chain rules** (`services/detection/process_group_service.py`,
`process_chain_rule_service.py`, `risk_rules/process_chain_rule.py`).  State: two
tables, a cache with a time stamp.  Operations: create, change and delete with
commit, refresh and invalidation in that order; listing, which seeds empty tables;
evaluation, which fills the cache.  *Correct if* telemetry is judged by rules not
older than the cache's lifetime, and a change takes effect once it is answered.

**Registries of connections** (`websocket/connection_manager.py`,
`dashboard_connection_manager.py`).  *Correct if* a late disconnect of an old
socket does not remove the new one.

Scoring of telemetry, YARA, threat feeds, ML, telemetry storage, notifications,
Docker, the Windows agents and the console's other pages are listed in `PROJECT.json`
with the reason they are left out.

### Interactions

    analysts, policies, risk engine, AI          scheduler, batch undos
              |                                         |
              v                                         v
       response_actions  <---- confirm -----+     rollback_action
              | issue                       |           | issue
              v                             |           v
          commands --pull--> HEARTBEAT answer --> agent --> host (iptables)
              ^                                     |
              +------------- COMMAND_ACK <----------+

The console reaches the manager by requests only.  A page asks for a listing when it
is mounted, some poll it, and handlers fetch it again or patch the copy in hand; a
request is never cancelled and an answer says nothing of its age.  Two people at two
browsers meet in the rows, one person's handlers meet in the page's copies.

Tables are the only state that outlives a process.  A handler and the scheduler
share the event loop and the database; they interleave at every `await` and see
each other's commits.

### What is hard

* The agent takes *the next frame* as the answer to its request, so late and
  unwanted answers shift all that follow.
* Rows are SENT when the manager commits, not when the agent has the list; no
  sweep ever sends them again.
* An undo writes the agent row before the host has done anything.
* A batch undo reads its actions first and undoes them one commit at a time; the
  session does not refresh what it has read.
* A failing report fails the action at once but may retry the command.
* An `error` report is refused as a whole, with the transaction it came in.

* A page's handler continues after each `await` with what it captured when the user
  clicked, in a page that shows something else by now.
* Answers arrive in any order; the last to arrive is what is shown, the host, incident
  or group it was asked for may no longer be the one selected.
* A busy flag disables buttons; whoever set it must clear it, on every path.
* A change of a rule is committed before it invalidates the cache, and an evaluation
  fills the cache after it has read.
* The model's suggestion is replaced in place by a task that started minutes ago.

The 40 hazards in `PROJECT.json` give the lines, and the properties that cover
each, or why none does.

## Models and code

### CommandDelivery

One attempt of a command is in one place, `hop`: on its way to the agent
(`carried`), or reported with a result.  Sockets are abstracted away.

| action | code |
| --- | --- |
| `IssueCommand` | `CommandService.issue_command` |
| `Pull`, `PullPending(lost)` | `_handle_heartbeat`, `pull_pending_commands`; `lost` is what never arrives |
| `Run` | loop over `pending_commands` in `send_stats`, `execute_command` |
| `RunUnreported` | a handler raises: outside the loop the `except` drops the whole list |
| `Acknowledge`, `VerifyExecution` | `verify_execution`, `schedule_retry`, `Command.acknowledge`, `Command.retry` |
| `RejectReport` | `CommandAckDTO` refuses the status `error` |
| `Lose` | a connection or the agent goes away, or nobody waited for the frame |

A single agent stands for all: every query names one `agent_id`, and every
report one command.

### AgentSession

`phase` is where `send_stats` is suspended, `todo` its list, `up` and `down` the
frames in flight, `stale` what the manager still reads from the socket the agent
has left.  `surplus` counts answers on this socket that nobody waits for: a
request given up after 5 s, or the error answer to a telemetry message.
`FailMessage` is the rollback of a transaction.  `ImplementsDelivery` maps
`hop` to the one place in the frames where the attempt of a command is; were it
at two, the mapping would leave the type of `hop` and the refinement would fail.

### ResponseLifecycle

The four variables of commands move by the actions of `CommandDelivery`, used
through `INSTANCE`.  Each manager transaction is one step.  The exception is the
session of a batch undo or of the scheduler, `loaded`: `SelectForUndo` reads
applied actions, `UndoSelected` undoes one of them later, and does not look at
the row again because `get_for_update` locks it without refreshing the object the
session already has (`expire_on_commit=False`, identity map).  `UndoAction` is
the single undo with its fresh session.

The same holds of the agent row, for group undos only: `rollback_group_actions`
reads the agents of the group first and keeps them in a local list
(`HoldAgents`), so that each undo works on that copy, `held`.  Setting `ACTIVE` and
`False` on it emits the columns that differ from the copy, not from the row
(`ReleaseThrough`): what another transaction wrote in between stays, in one column
or in both.  `unreleased` remembers that an undo was to release the row and has
left it otherwise, until a transaction writes both columns again.  The other
batch undos and the scheduler keep no agent: nothing but the loop refers to it, the
identity map holds it weakly, and `session.get` reads it anew.  Whether an undo
that fails half way has changed the group's copy is the same question as whether
it has written the row, since both are committed together.

| action | code |
| --- | --- |
| `CreateAction` | `create_and_apply_action`, `get_active_cooldown` |
| `RawCommand` | the callers that issue a command and write the agent row without an action |
| `PostCommand` | `POST /commands` and other callers that only insert a command |
| `HeartbeatAnswered`, `HeartbeatAnswerLost` | `_handle_heartbeat`, `update_heartbeat` |
| `SweepDeadAgent` | the periodic sweep |
| `RunCommand`, `RunUnreported`, `LoseFrames` | the agent and its handlers |
| `HandleReport`, `RefuseReport` | `_handle_command_ack` |
| `UndoAction`, `SelectForUndo`, `UndoSelected`, `Revert`, `RevertFails` | `rollback_action` and the batch undos |
| `HoldAgents`, `CopyOf`, `ReleaseThrough` | the agents of `rollback_group_actions` and what the session writes of them |
| `RestartManager` | sessions are gone, tables stay |

### ActionDesk

`row` is the table; `list`, `loading`, `actionLoading`, `dialog` and `selected` are the
hook and the page; a handler is a record in `job` that steps from `sent` by the
manager's answer to `ok` or `err`, then to `fetching`; `reads` are listings
on their way, in any order.  A handler outlives its page (`live` is then false).

| action | code |
| --- | --- |
| `Create`, `Report`, `AutoRollback` | what others do to the rows; a report moves a pending action, and a failed one whose command was retried |
| `ServeUndo`; `SelectAllOfHost`, `ServeNextOfHost`, `AnswerAll` | `POST /actions/{id}/undo`; the batch undo, which commits row by row |
| `Mount`, `Unmount`, `Poll`, `Refresh`, `Deliver`, `LoseRead` | `useActions`: effect, timer, `fetchActions` |
| `OpenUndo`, `ConfirmUndo`, `ConfirmUndoOnHistory`, `ConfirmStray` | `UndoButton` and the page's own dialog |
| `ToggleSelect`, `SelectAll`, `OpenBulk`, `ConfirmBulk`, `BulkAnswered` | `ActionsTable`, `handleBulkUndo` |
| `UndoAnswered`, `UndoAllAnswered`, `Failed...` | the rest of the handlers |

### AIAssist

`rows` are the analyses, `task` the suggestion tasks with the row they loaded, `tab` and
`panel` the two components, `regenTimer` and `sugTimer` their interval timers.  The
panel is unmounted whenever the tab is busy; its timer is not part of the row it polls.

| action | code |
| --- | --- |
| `Triage`, `ServeRegenerate`, `ServeSuggest`, `LoadForSuggest`, `FinishSuggest` | background tasks of `ai_analyst_service.py` and `ai_response_service.py` |
| `CheckApply`, `CreateAction`, `MarkApplied`, `ServeDismiss` | `apply_suggestion` in its three commits, `dismiss_suggestion` |
| `Regenerate`, `RegenTick`, `RegenTimeout`, `RegenPolled` | `AIAnalysisTab`: handler and timer |
| `Suggest`, `SuggestTick`, `SuggestTimeout`, `SuggestPolled` | `AISuggestionPanel`: handler and timer |
| `Apply`, `OpenDismiss`, `ConfirmDismiss`, `ReviewAnswered`, `ReviewEnds` | review in the panel |

### The desks

`IncidentDesk`, `PolicyDesk`, `RuleDesk`, `ProcessGroupDesk`, `ProcessDesk` and `GroupDesk` share
their form: `srv` is the manager's rows, `page` the hook's and the page's state, `dialog`
the dialog's, `job` the handlers, `reads` the listings on their way, `hist` what the
properties have to remember.  Their `Next` has three parts: what the user and
colleagues ask for (bounded by `MaxRequests`), clicks that only change the screen, and
answers.  `MCConsole` gives the eight modules one set of variables and chooses one in
`Init`: the router mounts one page at a time and nothing is carried over.

* `IncidentDesk`: `QuickStatus`, `SubmitAssign` are the list's handlers, `Act`, `Isolate`,
  `Mitigate`, `Kill`, `ChangeStatus`, `ConfirmClose` the dialog's; `Select` and `SetIncidents`
  are the deep link that turns the dialog.  `madeUp` in `hist` remembers results that
  `api/incidents.js` invents for failed requests.  `Culprit` is the process an incident is
  shown with, in the list, the details and every answer: the manager makes one up, number
  4128, for an incident it knows none of (`incident_service.py:252`), `None` here.
* `PolicyDesk`: `Toggle`, `Delete`, `Submit` and their answers; `ChangeInput`, `TimerFires`,
  `SetMode`, `OpenConfirm`, `ConfirmLive` are `PolicyDryRunPanel`.  `ServeEvaluation` is the
  manager's engine: a live evaluation may carry something out whether a policy matches or
  not, since the graduated response isolates and kills by the score alone, and it
  always names a policy in its answer.  So the button for the live execution depends on
  there being a result, and `executed` in the answer on what the manager did.
* `RuleDesk`: `ChangeField`, `Delete`, `TakenBack`, `Submit`; checked twice, with the fields
  and without the tabs of detection rules, and with those of chain rules.
* `ProcessDesk`: `Choose` and `ChooseQuietly` select a host, `Arrives` is a listing, `ConfirmKill`
  the dialog.  `handleKill` sends the command itself and once more through the hook,
  hence the stages `first` and `second`.
* `GroupDesk`: `Open` asks for the details twice, `SelectArrives` and `DialogArrives` are the
  answers, `ConfirmIsolate` needs the name typed, `ConfirmUndo` does not.  `Deleted` hides the
  dialog with its group, and with it the members tab is unmounted; that the dialog is open, and
  an undo waiting for its confirmation, is state that stays.
  An isolation is served as the manager does it: `ServeIsolate` reads the members,
  `IsolateMember` commits one of them, `IsolateAnswers` ends; members may fail one by one, and
  the answer is a success even if all of them did, unless a cooldown was the reason.

A row is *contested* when two requests, or a request and a listing, were about it at
once.  The exactness properties exempt contested rows: which of two answers stays is
then chance, and the code does nothing about it.  What they still demand is that
nothing spills over to other rows and fields, and that every path restores what it took.

### ChainRules

A change steps through `SaveGroup`, `CreateRule` ... (commit), the refresh of the row,
which may fail, and `Invalidate`; an evaluation through `Evaluate` (clock and cache
looked at), `Query` and `Fill`.  `LookUpDefault`, `SeedGroup` and `SeedRule` are the seeding
in two services and in `init_db.py`.  `Restart` empties the cache and seeds.
`hist.inForce` holds the sets of rules that were in force, each with the last time it was.

## Runs

| run | question | bounds | states |
| --- | --- | --- | --- |
| `delivery` | does delivery keep its promises? | 2 commands, 2 retries | 676 |
| `session` | do sockets implement delivery? | 2 commands, 1 retry, 2 surplus answers, 1 fault | 101,548 |
| `lifecycle` | do actions, rows and host stay in step? | 3 commands, 2 actions of 2 types, 2 sessions, 1 fault | 2,215,957 |
| `action_desk` | are undos asked for and shown as they are? | 2 actions, 1 on the host, listing of 1, 2 handlers, 1 fault | 571,199 |
| `ai_assist` | is the review of suggestions sound, do spinners end? | 2 analyses, 2 suggestions, 3 requests, 1 tick, 1 fault | 434,054 |
| `console` | do the other pages and the chain rules' cache agree with the manager? | 2 rows, 2 handlers, 2 or 3 requests, 1 fault | 1,300,162 |
| `late_answer`, `second_rollback`, `lost_release`, `quarantine_release`, `group_undo`, `unseen_apply` | findings, below | as above or smaller | to the first violation |

Why the bounds are enough to see the interesting cases.

* Two commands: one is retried or lost while the other travels in the same list;
  the queries and reports never relate three.
* `MaxRetries` 1 or 2: a first attempt, a retry, and the last one.
* Two surplus answers: a shift of the answers, and a shift of a shift.
* One lost connection: the reconnect meets what is left on the old socket.  The
  model lets one old socket at a time be unread, and the manager handle any prefix
  of what was sent on it.
* Two actions, three commands: an action, the action created while the first is
  under way, and the command that undoes either; with two sessions, one batch is
  overtaken by another or by an analyst.
* `MaxFaults` 1 allows one loss, raising handler, refused report, failing undo
  or restart anywhere.

* `ActionDesk`: one action on the host of the timeline and one elsewhere; a listing of
  one row, so that a newer action pushes the older one off the list while it is ticked.
  Two handlers overlap, one of them of a page that was left.
* `AIAssist`: a second analysis regenerated under the first, a second suggestion written
  over the first.  `MaxAttempts` 1 instead of 60 and 45: a timer that has time left and
  one that has run out; only these two cases are told apart.
* `MCConsole`: two incidents, rules, hosts or groups, so that what belongs to one can reach
  the other; two handlers and one listing of the page in flight, which with those
  handlers fetch make three.  Three requests: one in progress, one that crosses it, one
  of a colleague.  Opening a dialog counts as one, since two answers hang on it.  The
  desks pass one by one with two faults as well.
* `ChainRules`: one group, two rules, a lifetime of one tick; two changes and two
  evaluations at once.  The theorems carry the safety properties to every number.

Types of actions in the lifecycle run: `isolate` (cooldown, filter, undo) and
`kill_process` (can fail and be retried, cannot be undone by a command).  `kill_process`
stands for `kill_process_tree`, which has the same results.  `RawKinds` and
`PostKinds` are kinds of commands issued past the action table, with and without a
write of the agent row; the lifecycle run has all that write it among the former, and
isolation and quarantine among the latter.  Actions that quarantine are in the runs
`quarantine_release` and `group_undo`, and in the theorems, which are about any types.

The runs of findings leave out whatever could violate their property for another
reason: `second_rollback`, `quarantine_release` and `group_undo` have no faults,
`second_rollback` and `lost_release` no commands past the action table,
`quarantine_release` only those of the quarantine routes, and `group_undo` only the
quarantine route.

What the runs show:

* `OneAttempt`, `RunsAreBounded`, `VerdictIsEarned`, `VerdictIsFinal`: nothing in
  `verify_execution` looks at the old status, and still no verdict is
  overwritten, because a pull marks rows in the transaction that hands them out.
* `PendingSettles`: a pending row gets a verdict, or its attempt is lost.  It
  does not promise a verdict: a lost command stays SENT for ever, and so does one whose
  report was refused or whose handler raised.  The refinement allows these losses too
  (`Lose`, `RunUnreported`); what the delivery properties exclude is that such a command is
  run once too often, or counted as done.
* `OneAnswerPerRequest`, `PairedWithoutSurplus`: each request gets one answer, so
  after a surplus answer the socket never catches up; before one, answers match.
* `RowIsConsistent`: the writers of the agent row never leave `active` with the
  flag set, or `isolated` without it, except a group undo that writes through an old copy of
  the agent; and what that leaves lasts, as long as nobody quarantines and nothing fails, no
  longer than a command is under way: the confirmation of the release writes the row whole.
* `AppliedWasReported`, `ActionFollowsCommand`: an applied action was carried
  out, and a pending action always has a command that can still report.
* `RowAgreesWithHost`: without faults and without the quarantine, the row and the
  packet filter agree whenever nothing is under way.

* `ShownRevertedWasUndone`, `TickedWereApplied`, `UndoneWereApplied`: the console's own update
  never runs ahead of the manager, and ticks that outlive polls, filters and pages
  never lead to an undo of what was not applied; the manager's check is what the
  single undo of pending and failed rows rests on.  `HistoryCatchesUp`: although older
  listings may arrive later, a page that stays open ends up right.
* `TimelineOneAtATime`, `OneWriteAtATime`: the busy flags do serialise a timeline's
  and a dialog's operations, across re-selection.
* `BusyMeansWorking`, `SpinnersMeanWork`, `SpinnersEnd`: no flag is left set by a path through
  an error, a timeout, or the unmounting of one panel by another.
* `MarkedRowWasActedOn`, `ReviewedIsFinal`: the mark is committed after the action, and
  what was reviewed before a request was sent is not executed by it.
* `ShownWasTrueOrMadeUp`, `UncontestedRowsAreExact`, `SettledMembersAreExact`: what is shown is what
  is there, with the exemptions their names say.
* `KillNamesOwnProcess`, `SettledKillNamesOwnPid`, `BatchNamesItsGroup`, `NothingRunsUnconfirmed`: the
  operations that hurt name what the analyst saw, once the page has settled.  The second exempts
  a kill from the list of the host before while the new one is on its way, the third a dialog
  moved by a late answer or a deletion: this is what the code does (see below), and the
  properties say that it goes wrong in no other way.  The last says that neither timers nor
  modes nor late answers execute anything that was not confirmed; what a confirmed execution
  does is decided by the manager at that moment, not by the preview.
* `VerdictsAreRecent`, `CacheIsExact`: the time stamp taken before the read bounds the age of
  what a fill overtaken by an invalidation leaves behind.

Deadlock checking is off where things are used up: commands and actions are finite in
number, and a page whose listing failed rests when the requests the bound allows are
spent.  It is on in the runs of `ActionDesk` and `AIAssist`, where pages can always be
opened and left.

### Fairness

`CommandDelivery!Fairness` and `AgentSession!Fairness` ask for weak fairness of the
heartbeat, of the reading and answering of a message, of the run of the next
command and of reconnecting.  `send_stats` and `main_agent` are endless loops
which catch every exception, and the loop in `agent_websocket_endpoint` ends
only with its socket.  Nothing is asked of analysts, of timeouts, of lost
connections and of handlers that raise: they may happen and may not.
`AgentSession` bounds faults, so connections are lost finitely often; with
infinitely many losses a heartbeat might never get through.

`ActionDesk!Fairness` asks that the history page polls while it is open (an interval of
five seconds) and that a listing asked for arrives or fails.  Nothing is asked of users
or agents.  `AIAssist!Fairness` is one weak fairness of `UnderWay`, the disjunction of the
timers' ticks, the manager's serving and the answers: something of it happens while
something can, in whatever order; requests of users are not part of it.
The lifecycle, the other desks and the chain rules have no liveness property: their
waiting ends in one answer, which `BusyMeansWorking` shows to be on its way.

## Findings

1. **Answers are shifted by a late one** (`late_answer`).
   `send_ws_json_and_wait` is documented to pair request and answer by a lock.
   The lock is released at the timeout; the answer comes later and is taken by
   the next request.  If that is the wait for a report, the commands in the
   frame are dropped although their rows are SENT.
2. **An action can be undone twice** (`second_rollback`).  A batch that
   selected an action before an analyst undid it undoes it once more; the row lock
   does not refresh the loaded object.
3. **"Not isolated" need not be true** (`lost_release`).  The agent row is set
   by the undo, not by the confirmation of the release; when that command is
   lost, the host stays cut off and the row says active.
4. **A release can lose against the quarantine it releases**
   (`quarantine_release`).  The confirmation of the quarantine comes after the
   release wrote the row; no handler writes the row when the release is confirmed,
   so it stays QUARANTINE.
5. **A group undo can leave its row in quarantine** (`group_undo`).  It reads the agent
   before the quarantine is confirmed, then selects the applied action and undoes it
   through that copy, from which nothing differs: no column is written, the release is sent,
   its confirmation writes nothing either, and the row stays QUARANTINE.  With isolations
   the confirmation of the release repairs the row.
6. **What is applied need not be what was approved** (`unseen_apply`).  The request names
   the incident only; a suggestion recalculated meanwhile is executed unseen.

Two more things the models contain without calling them wrong, since no document of
the repository says otherwise: a swept agent that is still isolated stays DEAD
however often it heartbeats (`HeartbeatRow`), and the risk engine's isolation
during a cooldown is a command without an action (`RawCommand`), so that no
undo and no deadline ever finds it.

## Proofs

TLAPS checks the theorems below for every set of commands and actions and all
bounds.  The assumptions are those named in the modules:
`MaxRetriesAssumption` (a natural number), `LifecycleAssumption` (constants are
of their kinds, action numbers are positive), `BoundsAssumption` of `AgentSession`
(finitely many commands, natural bounds) and of `AIAssist` (slots are positive numbers, the
bounds natural ones, with room for one triage), `ActionsAssumption`, `SlotsAssumption` and
`FaultsAssumption` of `ActionDesk` (ids and slots are positive numbers, the bound on faults
is a natural number), those of `MCConsole`, `BoundsAssumption` (the bounds are natural numbers, and
the process tree's is positive: its first request is the choice of a host), `IncidentAssumption`
(the value for "no incident" is none of the incidents, the story tab is a tab, what colleagues
set is a status) and `GroupAssumption` (likewise for groups), and `ConstantsOK`, a hypothesis of
the theorems on chain rules (a positive lifetime; the default group is a group) and on rule
tables (natural bounds).

*Delivery.*  `OneAttempt`, `RunsAreBounded` and `VerdictIsEarned` are not inductive: a
report could have been made for a command that ran too often already.  `IInv` adds
`Accounted`, which counts: while an attempt is on its way out, or the row is
pending, the runs are at most the retries, and one more once it has run; a failed
report therefore turns the last run into a retry.  `IInvHolds` is the invariance of
`IInv`; `TypesHold`, `SingleAttempt`, `BoundedRuns`, `EarnedVerdicts` and
`FinalVerdicts` (an action property) follow.

*Lifecycle.*  `NextDelivers` shows that every step of the lifecycle is a step
of `CommandDelivery` or leaves its variables alone: a refinement.  So `IInv` holds
here as well (`DeliveryHolds`, `CommandsKeepPromises`).  On top of it:

* `RowInv`: the first half of `RowIsConsistent` with the types of the two columns, one step
  per action: every writer either writes a consistent pair, or writes one column to a
  value that is consistent with the other whatever it is, or is a group undo, which
  says so in `unreleased`.  The second half, that without faults and quarantine this ends with
  the commands under way, is `Healing` in `HostInv` below: as long as `unreleased` is set, the
  release that undo has issued is under way, and its confirmation writes the row whole.
  Together they give `RowsAreConsistent`.
* `LinkInv`: absent commands have no link, a linked action exists, and no two
  commands name one action.  Needed for `ActionsFollowCommands`, because a report
  moves the action its link names and must not be another command's.
* `EvidenceInv`: every applied, reverted or selected action has a successful
  command of its kind, and a link agrees in kind.  Needed for
  `AppliedActionsWereReported`, because a session may undo an action long after it
  read it.
* `RestTypes`, which with the above gives `TypesHold`.
* `HostInv`: nothing orders the writes of the agent row by the runs on the host, except that
  the agent waits for each report to be handled.  Without faults there is therefore one report
  at a time, and what it says of an isolating command is what the filter does (`OneReport`);
  row and filter differ only while an isolating command is under way, which will settle them
  (`SettledAgree`).  It gives `RowsAgreeWithHosts`.

*Socket.*  `OneAnswerPerRequest` counts frames and is inductive with `ClosedIsEmpty`
(no socket, no frames).  `PairedWithoutSurplus` looks at the head of `down` only; `ReportAlone`
adds that, without surplus, a waiting report has no heartbeat before it on either
side.  `IInv` is the conjunction, `SocketInvariant` its invariance.

*Socket implements delivery.*  `hopBar` is defined by a cardinality and a choice, so the
proof first says what it amounts to (`HopIs`): `carried` when the command is in the list
or in an answer, the result when it is in a report, `none` otherwise.  That holds
because of `OnePlace`: each sequence names a command once, no two name the same one, and
only commands whose row is SENT are named.  A pull hands out PENDING rows, so none of
them is anywhere (`FreshList`); a report that is handled was the last trace of its command,
so the row may leave SENT.  Then every step either drops attempts (`Dropping`: a `Lose`
or a stutter), or is a `Pull`, an acknowledgement, a `Run` or a `RunUnreported`.
`SocketsImplementDelivery` concludes `Spec => ImplementsDelivery`, safety only.

*Chain rules.*  `VerdictsAreRecent` needs to know of each evaluation under way, and of the
cache, that what it has read was in force no earlier than its time stamp (`ReadsAreRecent`,
`CacheIsRecent`); `CacheIsExact` needs that what evaluations have read is still in force unless
one of its exceptions holds (`ReadsAreExact`), and that rules refer to groups that are
there (`GroupsAreThere`).  `IInv` is `TypeOK` with both halves, `Recent` and `Exact`.  `TypeCorrect`,
`VerdictsRecent` and `CacheExact` follow.

*The console's actions.*  Two invariants on top of the types.  `TrueInv` follows a status from
the row into every copy of it: what the rows, the list and each listing on its way call
applied was applied and what they call reverted was undone (`CopiesAreTrue`; both histories only
grow, so old copies stay true), an undo answered with success was done, and a session of
undo-all holds only actions it found applied (`JobsAreTrue`).  That is why a bulk rollback of
ticks that outlived their rows, and a session that trusts its copy, still undo only what was
applied.  `DeskInv` is about the buttons: dialogs and ticks belong to their page
(`DialogsFitPage`), a page that was left has no handlers (`HandlersFitPage`), and while a handler
of a timeline runs, `actionLoading` is set, it is alone, and an open dialog is the one that
started it (`TimelineIsBusy`).  The last part is what `TimelineOneAtATime` needs: the dialog
stays open while the request runs, and only `submitting` keeps its confirmation from starting
a second one.  `OnlyAppliedUndone`, `RevertedIsNoPromise`, `TicksWereApplied`, `OneOperation` and
`NeverStuckBusy` follow.

*The AI tab.*  `ReviewedIsFinal` needs that a reviewed suggestion keeps a mark on its row for as
long as the row holds it, and that no two rows hold the same one (`RowsMarked`): then the check
of `apply_suggestion`, which looks at the latest row only, sees every review there was when the
request was sent, since that can only grow (`barred` is a subset of `reviewed`).  Between check
and mark the row may be overwritten with a new suggestion; `ApplyingRight` says that the
suggestion being applied is then in no row at all, and that its row has its action before it is
marked, which gives `MarkedRowWasActedOn`.  `SpinnersMeanWork` is inductive with `AwaitedIn`
(the handler of a review waits for one listing of its own, so the listing ends that handler and no
other); `RenderKeeps` treats the mounting and unmounting of the panel once for all steps of the
tab.  `ActedOn`, `ReviewFinal` and `SpinnersWork` follow.

*Rule tables.*  `UncontestedFieldIsExact` speaks of moments when nothing about the field is under
way; the invariant has to say what holds meanwhile.  `FieldAgrees(i, f)` follows one field of one
row: no two handlers are about it, every listing on its way has what the manager has, and while
a handler is about it, the manager has the old or the new value according to its stage
(`ManagerAgrees`) and the list what the answer will be merged into (`ListAgrees`).  A failed
deletion puts the whole list back as it was captured, so a deletion of another row has to have
captured this field as it still is (`DeletionAgrees`): of all paths of the hook, this is the one
where rows are not independent.  `FieldsExact` follows, for any set of fields.

*The pages.*  One page is open, so the invariant of `MCConsole` is `DesksKeep`: the page that is
open keeps its own.  `DesksInvariance` combines one lemma for the initial states, one for the
steps and one for stuttering per page.  Three pages are instances of `RuleDesk` and one of
`ChainRules`: `EP`, `RP`, `CP` and `TP` are instances of the proof modules, and lemmas like
`EngineStepsAgree` show that the instance in `MCConsole` and the proved one have the same steps.
The chain rules are the instance the model checker has; `ChainRulesProofs` has them for any
constants.

* Process tree (`ProcessInv`): everything shown, asked for or about to be asked for (listing, timer,
  dialog, hook) is the selected host's, or `unsettled` says so (`SettledIsSelected`).  The type of
  the counter of kills needs `KillsAreCounted`: a confirmation is served twice at most.  It gives
  `KillsNameTheirPids`.
* Policies (`PolicyInv`): live evaluations that were confirmed and not served are counted along with
  those carried out, by a policy or by the graduated response (`ExecutionsAreCounted`), which gives
  `PoliciesWaitForConfirmation`.  `RowAgrees` is
  what `FieldAgrees` is to the rule tables, with toggles that restore what they had and saves that
  wait for a listing of their own (`ListingsHaveHandlers`).  It gives, with the tables,
  `RowsAreExact`.
* Incidents (`IncidentInv`): truth is carried by handlers (`HandlersCarryTruth`), rows (`RowsAreTrue`),
  listings (`ListingsFit`) and the dialog (`DialogIsTrue`): `StatusesAreTrueOrMadeUp`.  `FlagsGuard` says
  that of the dialog's handlers, one may be behind each of its two flags, and that the close
  box is not open while the other one is set: `DialogWritesOnce`.  As long as `moved` is not set, the tab
  is of the incident shown: `KillsNameTheirIncident`.
* Groups (`GroupInv`): unless the dialog may be moved, all answers that can still come are for the
  selected group (`GroupStays`), so that a waiting undo is of the group shown (`GroupUndoAgrees`):
  `BatchesNameTheirGroup`.  `GroupAgrees` says of an uncontested group that what is read is what the
  manager has, and that the dialog shows it or a request that will show it is under way:
  `MembersAreExact`.
* All of them: each flag stands for the handler, listing or timer that ends it, with the fact that
  one waits for the other (`ListingsHaveHandlers`, `HandlerListing`, `GroupHandlerRead`: a listing
  for a handler is that handler's only one): `BusyIsWorking`; `PagesTypeOK` holds the types.

The attempt at `GroupInv` found an error of the model.  A confirmation of the undo should have been
closed whenever the dialog is; but a deletion of the selected group hides the dialog without
closing it (`GroupDetailModal.jsx:165`), and the next group that is opened comes up under the
confirmation asked for the deleted one.  `Deleted` and `Open` now say so, and `BatchNamesItsGroup` exempts
it by the same flag as a late answer.

Not proved, model-checked only: liveness (`PendingSettles`, `HistoryCatchesUp`, `SpinnersEnd`),
which is out of the prover's reach.  Every invariant of a passing run is stated by a theorem.

## Not modelled

* Several agents, and operations that edit an agent row by hand: `PUT /agents`,
  registration, deletion.
* `POST /commands/{id}/ack`: a second way to report, which no client in the
  repository uses.
* Values of deadlines: a cooldown may lapse and a deadline may pass at any time
  after it was set.
* Two transactions that both loaded the agent row and overwrite each other's
  columns, apart from a group undo, whose copy of the agent lives over several
  transactions.  Each transaction is one step here.
* Snapshots: written, never read by the code.
* An error of the database that ends a batch undo half way, apart from a failing
  undo and a restart.
* Opening of incidents: two telemetry messages handled at once can both find none and
  both open one (`incident_service.py:66`).
* The score bands of a policy: they are whole numbers while scores have two decimals, so
  84.5 or 69.5 falls between bands and gets `log_only` (`policy_engine_service.py:33`).
  Matching, smoothing, debounce and caps are functions of numbers.
* The registries of connections.
* Raw edits of agents, creation and renaming of groups, notes, assignments of policies.
* The pages for commands, whitelist, YARA, settings, threat feeds, risk and the dashboard,
  which show plain rows or edit one.
* Renaming of process groups, and a database other than PostgreSQL.
* The contents of telemetry, of payloads and of messages.

### Seen in the code, stated by no property

Some of these are exempted by a property's hypothesis, most contradict no document.

* `ActionsHistory`: the Undo of a row asks for no action.  The button hands its id to a setter
  that expects an action (line 628), a second dialog opens, and confirming it requests the undo
  of `undefined` (line 311), which the manager refuses.  `ConfirmStray` is this request.
* Chain rules: `list_rules` and `list_groups` seed an empty table, a restart brings back
  deleted defaults; two seedings at once duplicate the default rules; a group whose
  refresh fails leaves the cache as it was; `update_rule` answers with the old parent
  group; disabling all rules activates the fallback rules in the code.
* Its form: `openCreateModal` without groups opens with the rule edited last.
* `ProcessTree.handleKill` sends two kill commands for one confirmation; the second may be
  refused.  The flagged list stays while another host's is loading.
* `PolicyDryRunPanel`: the confirm button relies on a `loading` that `Button` does not know, so a
  double click executes twice.  Its note on a score without a policy (lines 614-615) says that
  nothing is executed, where the engine's graduated response isolates and kills; and the
  confirmation names the action of an earlier preview, while the manager evaluates anew.
* Rules and policies: a failed deletion restores the whole list as captured, two failing
  switches can leave a value the manager never had, and the answer of an earlier save
  closes a form opened since.
* Incidents: the manager makes up the process 4128 for an incident it knows no process of,
  and banner and tab offer to kill it; several failures are swallowed by `api/incidents.js`; `formatTime` and
  `getSeverityVariant` are used without a definition; `PendingState` likewise in the AI tab.
* Groups: a late answer selects another group; a group that is opened after the selected one was
  deleted inherits the confirmation of its undo; an isolation that failed on every member is
  answered as a success; the details right after an isolation still
  say normal; `IsolateGroupConfirmModal` sends 300 seconds for an auto-rollback of 0
  (line 47), which line 188 calls disabled.
* AI: two requests to apply may both pass the check before either marks the row; a new
  analysis resets the review of the row.

## Plan

Done: the core (`CommandDelivery`, `AgentSession`, `ResponseLifecycle`) with its proofs and the
refinement; the console's acting pages and AI review, response actions and review with proofs;
process chain rules with proofs; the other pages with proofs.
Not planned any more: score bands and smoothing (functions of one number, better left to
tables of cases) and the registries (no row depends on them).  What is left, most
valuable first:

1. `ResponseLifecycle`: eventual undo of expired actions under the scheduler's fairness;
   transactions that overwrite each other's columns of the agent row.
2. Opening of incidents by two handlers, composed with `IncidentDesk`.
3. `GroupDesk` with the undo sessions of `ResponseLifecycle` behind it.
