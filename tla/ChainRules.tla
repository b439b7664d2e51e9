------------------------------ MODULE ChainRules ------------------------------
(***************************************************************************)
(* The manager's process chain rules: ProcessGroupService and               *)
(* ProcessChainRuleService, which change the tables, and the risk rule      *)
(* "process_chain", which evaluates telemetry against the active rules and  *)
(* keeps them in memory for CACHE_TTL_SECONDS.                              *)
(*                                                                          *)
(* A change is committed first and invalidates the cache afterwards; an     *)
(* evaluation reads the clock first, then the tables, and fills the cache   *)
(* when the query has come back.  All are coroutines of one process, so     *)
(* others run between any two of these steps.                               *)
(*                                                                          *)
(* A rule's parent and child groups are abstracted to one group, and the    *)
(* patterns of a group to a value; groups are not renamed.  Foreign keys    *)
(* are those of PostgreSQL, which docker-compose.yml gives the manager.     *)
(***************************************************************************)
EXTENDS Naturals, FiniteSets

CONSTANTS
    Rules,         \* ids of the chain rules
    Groups,        \* ids of the process groups
    Patterns,      \* what the patterns of a group can be
    DefaultGroup,  \* the group seed_default_data looks for, and its patterns
    DefaultPatterns,
    TTL,           \* CACHE_TTL_SECONDS
    Changes,       \* requests that change rules, at once (bound)
    Evaluations,   \* evaluations at once (bound)
    MaxTime,       \* of the clock (bound)
    MaxRequests,   \* changes, lists and evaluations (bound)
    MaxFaults      \* failed queries and restarts (bound)

VARIABLES
    db,      \* the tables process_groups and process_chain_rules
    hist,    \* what was in force when, the last verdict, was a fill overtaken
    cache,   \* _cache_rules, _cache_timestamp
    clock,   \* time.time()
    change,  \* the requests that change rules, by slot
    eval,    \* the evaluations, by slot
    asked,   \* requests so far
    faults

vars == <<db, hist, cache, clock, change, eval, asked, faults>>

Group == [there : BOOLEAN, patterns : Patterns]
NoGroup == [there |-> FALSE, patterns |-> DefaultPatterns]

\* "seeded": it has the name of a default rule.
Row == [there : BOOLEAN, group : Groups, active : BOOLEAN, seeded : BOOLEAN]
NoRow == [there |-> FALSE, group |-> DefaultGroup, active |-> FALSE, seeded |-> FALSE]
DefaultRow == [there |-> TRUE, group |-> DefaultGroup, active |-> TRUE, seeded |-> TRUE]

Prepared == SUBSET [rule : Rules, patterns : Patterns]

\* What _get_active_chain_rules prepares from the tables d.
Active(d) ==
    {[rule |-> i, patterns |-> d.groups[d.rules[i].group].patterns] :
        i \in {j \in Rules : d.rules[j].there /\ d.rules[j].active}}

\* "asked" for the rules, or they are "read"; the clock when it began.
Evaluation == [stage : {"idle", "asked", "read"}, began : Nat, rules : Prepared]
NoEvaluation == [stage |-> "idle", began |-> 0, rules |-> {}]

\* A change of the user is "saved" or, for a group saved with a refresh to come,
\* "refreshing"; a listing that finds no rows is "empty", "grouped" once it has
\* the default group, "unnamed" once it has found no default rule.
Stages == {"idle", "saved", "refreshing", "empty", "grouped", "unnamed"}

\* A verdict was given for an evaluation begun then, by these rules or, if the
\* query failed, by the fallback rules.
Verdict == [began : Nat, rules : Prepared, failed : BOOLEAN]

NoCache == [there |-> FALSE, rules |-> {}, at |-> 0]

Tables == [groups : [Groups -> Group], rules : [Rules -> Row]]
Histories == [inForce : SUBSET [at : Nat, rules : Prepared], last : Verdict,
              overtaken : BOOLEAN]

TypeOK ==
    /\ db \in Tables
    /\ hist \in Histories
    /\ cache \in [there : BOOLEAN, rules : Prepared, at : Nat]
    /\ clock \in Nat
    /\ change \in [Changes -> Stages]
    /\ eval \in [Evaluations -> Evaluation]
    /\ asked \in Nat /\ faults \in Nat

Now(d) == [at |-> clock, rules |-> Active(d)]

\* seed_default_data: the default group is added unless it is there, and the
\* default rule unless a rule has its name.
WithGroup(d) ==
    [d EXCEPT !.groups[DefaultGroup] =
        IF @.there THEN @ ELSE [there |-> TRUE, patterns |-> DefaultPatterns]]
WithRule(d, i) == [d EXCEPT !.rules[i] = DefaultRow]
HasDefault(d) == \E i \in Rules : d.rules[i].there /\ d.rules[i].seeded

\* init_db, when the manager starts
Seeded(d) ==
    IF HasDefault(d) THEN {WithGroup(d)}
    ELSE {WithRule(WithGroup(d), i) : i \in {j \in Rules : ~d.rules[j].there}}

NoTables == [groups |-> [g \in Groups |-> NoGroup], rules |-> [i \in Rules |-> NoRow]]

Init ==
    /\ clock = 0
    /\ db \in Seeded(NoTables)
    /\ hist = [inForce |-> {Now(db)}, overtaken |-> FALSE,
               last |-> [began |-> 0, rules |-> Active(db), failed |-> FALSE]]
    /\ cache = NoCache
    /\ change = [c \in Changes |-> "idle"]
    /\ eval = [e \in Evaluations |-> NoEvaluation]
    /\ asked = 0 /\ faults = 0

Request == asked < MaxRequests /\ asked' = asked + 1
Fault == faults < MaxFaults /\ faults' = faults + 1

-----------------------------------------------------------------------------
(* Changing the rules *)

Turns(c, from, to) == change[c] = from /\ change' = [change EXCEPT ![c] = to]

\* session.commit(): the tables are d from now on.
Commit(d) ==
    /\ db' = d
    /\ hist' = [hist EXCEPT !.inForce = @ \cup {Now(d)}]
    /\ UNCHANGED <<cache, clock, eval>>

SaveGroup(c, g, p) ==
    /\ Turns(c, "idle", "refreshing")
    /\ Commit([db EXCEPT !.groups[g] = [there |-> TRUE, patterns |-> p]])

CreateGroup(c, g, p) == ~db.groups[g].there /\ SaveGroup(c, g, p)
UpdateGroup(c, g, p) == db.groups[g].there /\ SaveGroup(c, g, p)

\* 409 if a rule refers to it.
DeleteGroup(c, g) ==
    /\ db.groups[g].there /\ \A i \in Rules : db.rules[i].there => db.rules[i].group # g
    /\ Turns(c, "idle", "saved")
    /\ Commit([db EXCEPT !.groups[g] = NoGroup])

CreateRule(c, i, g, a) ==
    /\ ~db.rules[i].there /\ db.groups[g].there
    /\ Turns(c, "idle", "saved")
    /\ Commit([db EXCEPT !.rules[i] = [there |-> TRUE, group |-> g, active |-> a,
                                       seeded |-> FALSE]])

\* The name may be changed, so that it is no longer a default rule's.
UpdateRule(c, i, g, a) ==
    /\ db.rules[i].there /\ db.groups[g].there
    /\ Turns(c, "idle", "saved")
    /\ \E s \in BOOLEAN :
          /\ s => db.rules[i].seeded
          /\ Commit([db EXCEPT !.rules[i] = [there |-> TRUE, group |-> g, active |-> a,
                                             seeded |-> s]])

\* (mutant) delete_rule forgets the cache
DeleteRuleQuietly(c, i) ==
    /\ db.rules[i].there
    /\ Turns(c, "idle", "idle")
    /\ Commit([db EXCEPT !.rules[i] = NoRow])

DeleteRule(c, i) ==
    /\ db.rules[i].there
    /\ Turns(c, "idle", "saved")
    /\ Commit([db EXCEPT !.rules[i] = NoRow])

\* The refresh that follows the commit of a group fails: the request ends with an
\* error, and the cache is not invalidated.
RefreshFails(c) ==
    /\ Turns(c, "refreshing", "idle")
    /\ Fault
    /\ hist' = [hist EXCEPT !.overtaken = TRUE]
    /\ UNCHANGED <<db, cache, clock, eval>>

\* invalidate_cache.  An evaluation that has read the tables before will fill the
\* cache again with what it has read.
Overtaken == \E e \in Evaluations : eval[e].stage = "read" /\ eval[e].rules # Active(db)

Invalidate(c) ==
    /\ Turns(c, "saved", "idle") \/ Turns(c, "refreshing", "idle")
    /\ cache' = NoCache
    /\ hist' = [hist EXCEPT !.overtaken = Overtaken]
    /\ UNCHANGED <<db, clock, eval, faults>>

-----------------------------------------------------------------------------
(* Seeding *)

\* list_rules, list_groups: a table without rows is seeded.
ListNone(c) ==
    /\ \/ \A i \in Rules : ~db.rules[i].there
       \/ \A g \in Groups : ~db.groups[g].there
    /\ Turns(c, "idle", "empty")
    /\ UNCHANGED <<db, hist, cache, clock, eval>>

\* seed_default_data once more, next to whatever else is running.
SeedGroup(c) ==
    /\ Turns(c, "empty", "grouped")
    /\ Commit(WithGroup(db))
    /\ UNCHANGED faults

\* Another seeding adds the group in between: its name is unique, the request fails.
SeedCollides(c) ==
    /\ Turns(c, "empty", "idle") /\ Fault
    /\ UNCHANGED <<db, hist, cache, clock, eval>>

\* get_by_name
LookUpDefault(c) ==
    /\ Turns(c, "grouped", IF HasDefault(db) THEN "saved" ELSE "unnamed")
    /\ UNCHANGED <<db, hist, cache, clock, eval, faults>>

\* The default rule is added, though another seeding may have added it since: its
\* name is not unique.  If the group is gone by now, the request fails.
SeedRule(c) ==
    \/ /\ db.groups[DefaultGroup].there
       /\ Turns(c, "unnamed", "saved")
       /\ \E i \in Rules : ~db.rules[i].there /\ Commit(WithRule(db, i))
       /\ UNCHANGED faults
    \/ /\ ~db.groups[DefaultGroup].there
       /\ Turns(c, "unnamed", "idle")
       /\ UNCHANGED <<db, hist, cache, clock, eval, faults>>

-----------------------------------------------------------------------------
(* Evaluating telemetry *)

Judge(began, rules, failed) ==
    hist' = [hist EXCEPT !.last = [began |-> began, rules |-> rules, failed |-> failed]]

Fresh == cache.there /\ clock - cache.at < TTL

\* _get_active_chain_rules: the cache, or a query.
Evaluate(e) ==
    /\ eval[e].stage = "idle"
    /\ IF Fresh
       THEN Judge(clock, cache.rules, FALSE) /\ UNCHANGED eval
       ELSE /\ eval' = [eval EXCEPT ![e] = [stage |-> "asked", began |-> clock, rules |-> {}]]
            /\ UNCHANGED hist
    /\ UNCHANGED <<db, cache, clock, change>>

Query(e) ==
    /\ eval[e].stage = "asked"
    /\ eval' = [eval EXCEPT ![e].stage = "read", ![e].rules = Active(db)]
    /\ UNCHANGED <<db, hist, cache, clock, change, faults>>

\* The fallback rules, which are not kept.
QueryFails(e) ==
    /\ eval[e].stage \in {"asked", "read"}
    /\ Fault
    /\ Judge(eval[e].began, {}, TRUE)
    /\ eval' = [eval EXCEPT ![e] = NoEvaluation]
    /\ UNCHANGED <<db, cache, clock, change>>

\* (mutant) the cache is dated when it is filled
FillDatedLate(e) ==
    /\ eval[e].stage = "read"
    /\ cache' = IF eval[e].rules = {} THEN cache
                ELSE [there |-> TRUE, rules |-> eval[e].rules, at |-> clock]
    /\ Judge(eval[e].began, eval[e].rules, FALSE)
    /\ eval' = [eval EXCEPT ![e] = NoEvaluation]
    /\ UNCHANGED <<db, clock, change, faults>>

\* The rules read are kept, dated when the evaluation began.  No active rules: the
\* fallback rules again.
Fill(e) ==
    /\ eval[e].stage = "read"
    /\ cache' = IF eval[e].rules = {} THEN cache
                ELSE [there |-> TRUE, rules |-> eval[e].rules, at |-> eval[e].began]
    /\ Judge(eval[e].began, eval[e].rules, FALSE)
    /\ eval' = [eval EXCEPT ![e] = NoEvaluation]
    /\ UNCHANGED <<db, clock, change, faults>>

-----------------------------------------------------------------------------
(* Time *)

Tick ==
    /\ clock < MaxTime /\ clock' = clock + 1
    /\ hist' = [hist EXCEPT !.inForce = @ \cup {[at |-> clock + 1, rules |-> Active(db)]}]
    /\ UNCHANGED <<db, cache, change, eval, asked, faults>>

\* The manager restarts: what was in memory is gone, and the tables are seeded.
Restart ==
    /\ Fault
    /\ db' \in Seeded(db)
    /\ cache' = NoCache
    /\ change' = [c \in Changes |-> "idle"]
    /\ eval' = [e \in Evaluations |-> NoEvaluation]
    /\ hist' = [hist EXCEPT !.inForce = @ \cup {[at |-> clock, rules |-> Active(db')]},
                            !.overtaken = FALSE]
    /\ UNCHANGED <<clock, asked>>

-----------------------------------------------------------------------------
Requests ==
    \/ \E c \in Changes :
          \/ \E g \in Groups : \/ \E p \in Patterns : CreateGroup(c, g, p) \/ UpdateGroup(c, g, p)
                               \/ DeleteGroup(c, g)
          \/ \E i \in Rules : \/ \E g \in Groups, a \in BOOLEAN :
                                    CreateRule(c, i, g, a) \/ UpdateRule(c, i, g, a)
                              \/ DeleteRule(c, i)
          \/ ListNone(c)
    \/ \E e \in Evaluations : Evaluate(e)

Steps ==
    \/ \E c \in Changes : \/ RefreshFails(c) \/ Invalidate(c)
                          \/ SeedGroup(c) \/ SeedCollides(c) \/ LookUpDefault(c) \/ SeedRule(c)
    \/ \E e \in Evaluations : Query(e) \/ QueryFails(e) \/ Fill(e)

Next ==
    \/ Requests /\ Request /\ UNCHANGED faults
    \/ Steps /\ UNCHANGED asked
    \/ Tick
    \/ Restart

Spec == Init /\ [][Next]_vars

-----------------------------------------------------------------------------
(* Properties *)

\* Telemetry is judged by rules that were in force less than CACHE_TTL_SECONDS
\* before the evaluation began, or later, whatever changes, fills and
\* invalidations run meanwhile.
VerdictsAreRecent ==
    LET v == hist.last
    IN v.failed \/ \E f \in hist.inForce : f.rules = v.rules /\ f.at + TTL > v.began

\* A change is committed and has yet to invalidate the cache.
Pending == \E c \in Changes : change[c] \in {"saved", "refreshing"}

\* The cache holds the rules in force, once the changes have invalidated it,
\* unless an evaluation that read the tables before a change fills it after, or
\* the error of a refresh has left it.
CacheIsExact ==
    \/ ~cache.there \/ hist.overtaken
    \/ cache.rules = Active(db)
    \/ Pending
=============================================================================
