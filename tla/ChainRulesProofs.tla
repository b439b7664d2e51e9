--------------------------- MODULE ChainRulesProofs ---------------------------
(***************************************************************************)
(* Proofs about the manager's chain rules (ChainRules): the types, and for  *)
(* any lifetime of the cache, any number of rules, groups, requests and     *)
(* evaluations, by which rules telemetry is judged and what the cache       *)
(* holds.                                                                   *)
(***************************************************************************)
EXTENDS ChainRules, TLAPS

\* The cache lives for some time; the default group is one of the groups.
ConstantsOK ==
    /\ TTL \in Nat \ {0}
    /\ DefaultGroup \in Groups
    /\ DefaultPatterns \in Patterns

-----------------------------------------------------------------------------
(* The inductive invariant *)

\* A rule refers to a group that is there (the foreign keys).
GroupsAreThere == \A i \in Rules : db.rules[i].there => db.groups[db.rules[i].group].there

\* The rules were in force at t or later.
InForceSince(rules, t) == \E f \in hist.inForce : f.rules = rules /\ f.at >= t

\* An evaluation began in the past, and has read rules in force since then.
ReadsAreRecent ==
    \A e \in Evaluations :
        /\ eval[e].stage # "idle" => eval[e].began <= clock
        /\ eval[e].stage = "read" => InForceSince(eval[e].rules, eval[e].began)

\* So has the evaluation that filled the cache.
CacheIsRecent == cache.there => InForceSince(cache.rules, cache.at)

\* What an evaluation has read is in force, with the exceptions of CacheIsExact.
ReadsAreExact ==
    \/ hist.overtaken \/ Pending
    \/ \A e \in Evaluations : eval[e].stage = "read" => eval[e].rules = Active(db)

Recent == Now(db) \in hist.inForce /\ ReadsAreRecent /\ CacheIsRecent /\ VerdictsAreRecent
Exact == GroupsAreThere /\ ReadsAreExact /\ CacheIsExact

IInv == TypeOK /\ Recent /\ Exact

-----------------------------------------------------------------------------
(* Types *)

LEMMA ActiveType ==
    ASSUME NEW d \in Tables
    PROVE  Active(d) \in Prepared
BY DEF Tables, Active, Prepared, Group, Row

LEMMA WithGroupType ==
    ASSUME ConstantsOK, NEW d \in Tables
    PROVE  WithGroup(d) \in Tables
BY DEF ConstantsOK, Tables, WithGroup, Group

LEMMA WithRuleType ==
    ASSUME ConstantsOK, NEW d \in Tables, NEW i \in Rules
    PROVE  WithRule(d, i) \in Tables
BY DEF ConstantsOK, Tables, WithRule, DefaultRow, Row

LEMMA SeededType ==
    ASSUME ConstantsOK, NEW d \in Tables, NEW s \in Seeded(d)
    PROVE  s \in Tables
BY WithGroupType, WithRuleType DEF Seeded

LEMMA NoTablesType ==
    ASSUME ConstantsOK
    PROVE  NoTables \in Tables
BY DEF ConstantsOK, Tables, NoTables, NoGroup, Group, NoRow, Row

\* What was in force is remembered with its time.
LEMMA CommitType ==
    ASSUME TypeOK, NEW d \in Tables, Commit(d)
    PROVE  /\ db' \in Tables /\ hist' \in Histories
           /\ UNCHANGED <<cache, clock, eval>>
<1>1. Now(d) \in [at : Nat, rules : Prepared]
  BY ActiveType DEF Now, TypeOK
<1> QED
  BY <1>1 DEF Commit, TypeOK, Histories

LEMMA JudgeType ==
    ASSUME TypeOK, NEW b \in Nat, NEW r \in Prepared, NEW f \in BOOLEAN, Judge(b, r, f)
    PROVE  hist' \in Histories
BY DEF Judge, TypeOK, Histories, Verdict

LEMMA TypeInit ==
    ASSUME ConstantsOK, Init
    PROVE  TypeOK
<1>1. db \in Tables
  BY NoTablesType, SeededType DEF Init
<1>2. hist \in Histories
  BY <1>1, ActiveType DEF Init, Histories, Now, Verdict
<1>3. {} \in Prepared
  BY DEF Prepared
<1> QED
  BY <1>1, <1>2, <1>3
  DEF Init, TypeOK, NoCache, Stages, Evaluation, NoEvaluation

LEMMA ChangeType ==
    ASSUME TypeOK, NEW c \in Changes, NEW a, NEW b \in Stages, Turns(c, a, b)
    PROVE  change' \in [Changes -> Stages]
BY DEF TypeOK, Turns

\* Every step keeps the types.
LEMMA TypeStep ==
    ASSUME ConstantsOK, TypeOK, [Next]_vars
    PROVE  TypeOK'
<1> USE DEF TypeOK
<1>a. TTL \in Nat /\ DefaultGroup \in Groups /\ DefaultPatterns \in Patterns
  BY DEF ConstantsOK
<1>b. {} \in Prepared /\ NoCache \in [there : BOOLEAN, rules : Prepared, at : Nat]
  BY DEF Prepared, NoCache
<1>c. NoEvaluation \in Evaluation
  BY <1>b DEF NoEvaluation, Evaluation
<1>s. \A t \in {"idle", "saved", "refreshing", "empty", "grouped", "unnamed"} : t \in Stages
  BY DEF Stages
<1>1. ASSUME Requests, Request, UNCHANGED faults PROVE TypeOK'
  <2> USE <1>1 DEF Request
  <2>1. ASSUME NEW c \in Changes, NEW g \in Groups, NEW p \in Patterns, SaveGroup(c, g, p)
        PROVE  TypeOK'
    <3>1. [db EXCEPT !.groups[g] = [there |-> TRUE, patterns |-> p]] \in Tables
      BY DEF Tables, Group
    <3> QED
      BY <2>1, <3>1, <1>s, CommitType, ChangeType DEF SaveGroup
  <2>2. ASSUME NEW c \in Changes, NEW g \in Groups, DeleteGroup(c, g)
        PROVE  TypeOK'
    <3>1. [db EXCEPT !.groups[g] = NoGroup] \in Tables
      BY <1>a DEF Tables, Group, NoGroup
    <3> QED
      BY <2>2, <3>1, <1>s, CommitType, ChangeType DEF DeleteGroup
  <2>3. ASSUME NEW c \in Changes, NEW i \in Rules, NEW g \in Groups, NEW a \in BOOLEAN,
               CreateRule(c, i, g, a)
        PROVE  TypeOK'
    <3>1. [db EXCEPT !.rules[i] = [there |-> TRUE, group |-> g, active |-> a,
                                   seeded |-> FALSE]] \in Tables
      BY DEF Tables, Row
    <3> QED
      BY <2>3, <3>1, <1>s, CommitType, ChangeType DEF CreateRule
  <2>4. ASSUME NEW c \in Changes, NEW i \in Rules, NEW g \in Groups, NEW a \in BOOLEAN,
               UpdateRule(c, i, g, a)
        PROVE  TypeOK'
    <3>1. ASSUME NEW s \in BOOLEAN
          PROVE  [db EXCEPT !.rules[i] = [there |-> TRUE, group |-> g, active |-> a,
                                          seeded |-> s]] \in Tables
      BY DEF Tables, Row
    <3> QED
      BY <2>4, <3>1, <1>s, CommitType, ChangeType DEF UpdateRule
  <2>5. ASSUME NEW c \in Changes, NEW i \in Rules, DeleteRule(c, i)
        PROVE  TypeOK'
    <3>1. [db EXCEPT !.rules[i] = NoRow] \in Tables
      BY <1>a DEF Tables, Row, NoRow
    <3> QED
      BY <2>5, <3>1, <1>s, CommitType, ChangeType DEF DeleteRule
  <2>6. ASSUME NEW c \in Changes, ListNone(c) PROVE TypeOK'
    BY <2>6, <1>s, ChangeType DEF ListNone
  <2>7. ASSUME NEW e \in Evaluations, Evaluate(e) PROVE TypeOK'
    <3>1. CASE Fresh
      <4>1. Judge(clock, cache.rules, FALSE) /\ UNCHANGED <<db, cache, clock, change, eval>>
        BY <2>7, <3>1 DEF Evaluate
      <4>2. hist' \in Histories
        BY <4>1, JudgeType
      <4> QED
        BY <4>1, <4>2
    <3>2. CASE ~Fresh
      <4>1. [stage |-> "asked", began |-> clock, rules |-> {}] \in Evaluation
        BY <1>b DEF Evaluation
      <4>2. eval' = [eval EXCEPT ![e] = [stage |-> "asked", began |-> clock, rules |-> {}]]
        BY <2>7, <3>2 DEF Evaluate
      <4>3. UNCHANGED <<db, hist, cache, clock, change>>
        BY <2>7, <3>2 DEF Evaluate
      <4> QED
        BY <4>1, <4>2, <4>3
    <3> QED
      BY <3>1, <3>2
  <2> QED
    BY <2>1, <2>2, <2>3, <2>4, <2>5, <2>6, <2>7 DEF Requests, CreateGroup, UpdateGroup
<1>2. ASSUME Steps, UNCHANGED asked PROVE TypeOK'
  <2> USE <1>2 DEF Fault
  <2>1. ASSUME NEW c \in Changes, RefreshFails(c) \/ SeedCollides(c) PROVE TypeOK'
    <3>1. hist' \in Histories
      BY <2>1 DEF RefreshFails, SeedCollides, Histories
    <3>2. change' \in [Changes -> Stages]
      BY <2>1, <1>s, ChangeType DEF RefreshFails, SeedCollides
    <3> QED
      BY <2>1, <3>1, <3>2 DEF RefreshFails, SeedCollides
  <2>2. ASSUME NEW c \in Changes, Invalidate(c) PROVE TypeOK'
    <3>1. Overtaken \in BOOLEAN
      BY DEF Overtaken
    <3>2. hist' \in Histories
      BY <2>2, <3>1 DEF Invalidate, Histories
    <3> QED
      BY <2>2, <3>2, <1>b, <1>s, ChangeType DEF Invalidate
  <2>3. ASSUME NEW c \in Changes, SeedGroup(c) PROVE TypeOK'
    BY <2>3, <1>s, WithGroupType, CommitType, ChangeType DEF SeedGroup
  <2>4. ASSUME NEW c \in Changes, LookUpDefault(c) PROVE TypeOK'
    <3>1. (IF HasDefault(db) THEN "saved" ELSE "unnamed") \in Stages
      BY DEF Stages
    <3> QED
      BY <2>4, <3>1, ChangeType DEF LookUpDefault
  <2>5. ASSUME NEW c \in Changes, SeedRule(c) PROVE TypeOK'
    BY <2>5, <1>s, WithRuleType, CommitType, ChangeType DEF SeedRule
  <2>6. ASSUME NEW e \in Evaluations, Query(e) PROVE TypeOK'
    BY <2>6, ActiveType DEF Query, Evaluation
  <2>7. ASSUME NEW e \in Evaluations, QueryFails(e) PROVE TypeOK'
    <3>1. eval[e].began \in Nat
      BY DEF Evaluation
    <3>2. hist' \in Histories
      BY <2>7, <1>b, <3>1, JudgeType DEF QueryFails
    <3> QED
      BY <2>7, <1>c, <3>2 DEF QueryFails
  <2>8. ASSUME NEW e \in Evaluations, Fill(e) PROVE TypeOK'
    BY <2>8, <1>c, JudgeType DEF Fill, Evaluation
  <2> QED
    BY <2>1, <2>2, <2>3, <2>4, <2>5, <2>6, <2>7, <2>8 DEF Steps
<1>3. ASSUME Tick PROVE TypeOK'
  BY <1>3, ActiveType DEF Tick, Histories
<1>4. ASSUME Restart PROVE TypeOK'
  <2>1. db' \in Tables
    BY <1>4, SeededType DEF Restart
  <2>2. Active(db') \in Prepared
    BY <2>1, ActiveType
  <2>3. hist' \in Histories
    <3>1. [at |-> clock, rules |-> Active(db')] \in [at : Nat, rules : Prepared]
      BY <2>2
    <3> QED
      BY <1>4, <3>1 DEF Restart, Histories
  <2>4. change' \in [Changes -> Stages] /\ eval' \in [Evaluations -> Evaluation]
    BY <1>4, <1>c, <1>s DEF Restart
  <2> QED
    BY <1>4, <1>b, <2>1, <2>3, <2>4 DEF Restart, Fault
<1>5. ASSUME UNCHANGED vars PROVE TypeOK'
  BY <1>5 DEF vars
<1> QED
  BY <1>1, <1>2, <1>3, <1>4, <1>5 DEF Next

\* The manager's tables, its cache, and the requests and evaluations under way
\* keep their types.
THEOREM TypeCorrect == ASSUME ConstantsOK PROVE Spec => []TypeOK
<1>1. Init => TypeOK
  BY TypeInit
<1>2. TypeOK /\ [Next]_vars => TypeOK'
  BY TypeStep
<1> QED
  BY <1>1, <1>2, PTL DEF Spec

-----------------------------------------------------------------------------
(* By which rules telemetry is judged *)

\* What was in force is never forgotten, so a step that judges, reads and fills
\* nothing keeps what is recent recent.
LEMMA RecentFrame ==
    ASSUME TypeOK, TypeOK', ReadsAreRecent, CacheIsRecent, VerdictsAreRecent,
           hist.inForce \subseteq hist'.inForce, clock <= clock',
           cache' = cache \/ ~cache'.there,
           \A e \in Evaluations : eval'[e] = eval[e] \/ eval'[e].stage = "idle",
           hist'.last = hist.last \/ hist'.last.failed
    PROVE  ReadsAreRecent' /\ CacheIsRecent' /\ VerdictsAreRecent'
<1>1. ReadsAreRecent'
  <2>1. SUFFICES ASSUME NEW e \in Evaluations, eval'[e] = eval[e], eval[e].stage # "idle"
                 PROVE  /\ eval[e].began <= clock'
                        /\ eval[e].stage = "read" =>
                              \E f \in hist'.inForce : f.rules = eval[e].rules
                                                        /\ f.at >= eval[e].began
    BY DEF ReadsAreRecent, InForceSince
  <2>2. eval[e].began <= clock /\ eval[e].began \in Nat /\ clock \in Nat /\ clock' \in Nat
    BY <2>1 DEF ReadsAreRecent, TypeOK, Evaluation
  <2> QED
    BY <2>1, <2>2 DEF ReadsAreRecent, InForceSince
<1>2. CacheIsRecent'
  BY DEF CacheIsRecent, InForceSince
<1>3. VerdictsAreRecent'
  BY DEF VerdictsAreRecent
<1> QED
  BY <1>1, <1>2, <1>3

LEMMA CommitRecent ==
    ASSUME TypeOK, TypeOK', Recent, NEW d, Commit(d)
    PROVE  Recent'
<1>1. /\ UNCHANGED <<cache, clock, eval>> /\ db' = d
      /\ hist'.inForce = hist.inForce \cup {Now(d)} /\ hist'.last = hist.last
  BY DEF Commit, TypeOK, Histories
<1>2. Now(db)' = Now(d)
  BY <1>1 DEF Now, Active
<1>3. clock <= clock'
  BY <1>1 DEF TypeOK
<1> QED
  BY <1>1, <1>2, <1>3, RecentFrame DEF Recent

LEMMA RecentStep ==
    ASSUME ConstantsOK, TypeOK, TypeOK', Recent, [Next]_vars
    PROVE  Recent'
<1> USE DEF Recent
<1>a. TTL \in Nat /\ TTL > 0 /\ clock \in Nat
  BY DEF ConstantsOK, TypeOK
<1>1. ASSUME NEW d, Commit(d) PROVE Recent'
  BY <1>1, CommitRecent
<1>2. ASSUME UNCHANGED <<db, hist, cache, clock, eval>> PROVE Recent'
  BY <1>2, <1>a, RecentFrame DEF Now, Active
<1>3. ASSUME NEW c \in Changes, RefreshFails(c) \/ Invalidate(c) PROVE Recent'
  <2>1. /\ UNCHANGED <<db, clock, eval>> /\ (cache' = cache \/ ~cache'.there)
        /\ hist'.inForce = hist.inForce /\ hist'.last = hist.last
    BY <1>3 DEF RefreshFails, Invalidate, NoCache, TypeOK, Histories
  <2> QED
    BY <2>1, <1>a, RecentFrame DEF Now, Active
<1>4. ASSUME NEW e \in Evaluations, Evaluate(e) PROVE Recent'
  <2>1. UNCHANGED <<db, cache, clock>> /\ hist'.inForce = hist.inForce
    BY <1>4 DEF Evaluate, Judge, TypeOK, Histories
  <2>2. CASE Fresh
    <3>1. /\ UNCHANGED eval
          /\ hist'.last = [began |-> clock, rules |-> cache.rules, failed |-> FALSE]
      BY <1>4, <2>2 DEF Evaluate, Judge, TypeOK, Histories
    <3>2. PICK f \in hist.inForce : f.rules = cache.rules /\ f.at >= cache.at
      BY <2>2 DEF Fresh, CacheIsRecent, InForceSince
    <3>3. f.at + TTL > clock
      BY <2>2, <3>2, <1>a DEF Fresh, TypeOK, Histories
    <3>4. VerdictsAreRecent'
      BY <2>1, <3>1, <3>2, <3>3 DEF VerdictsAreRecent
    <3> QED
      BY <2>1, <3>1, <3>4 DEF Now, Active, ReadsAreRecent, CacheIsRecent, InForceSince
  <2>3. CASE ~Fresh
    <3>1. /\ UNCHANGED hist
          /\ eval' = [eval EXCEPT ![e] = [stage |-> "asked", began |-> clock, rules |-> {}]]
      BY <1>4, <2>3 DEF Evaluate
    <3>2. ReadsAreRecent'
      BY <2>1, <3>1, <1>a DEF ReadsAreRecent, InForceSince, TypeOK
    <3> QED
      BY <2>1, <3>1, <3>2 DEF Now, Active, CacheIsRecent, VerdictsAreRecent, InForceSince
  <2> QED
    BY <2>2, <2>3
<1>5. ASSUME NEW e \in Evaluations, Query(e) PROVE Recent'
  <2>1. UNCHANGED <<db, hist, cache, clock>>
    BY <1>5 DEF Query
  <2>2. \A d \in Evaluations \ {e} : eval'[d] = eval[d]
    BY <1>5 DEF Query, TypeOK
  <2>3. eval'[e].stage = "read" /\ eval'[e].began = eval[e].began
        /\ eval'[e].rules = Active(db)
    BY <1>5 DEF Query, TypeOK, Evaluation
  <2>4. eval[e].began <= clock
    BY <1>5 DEF Query, ReadsAreRecent
  <2>5. InForceSince(Active(db), eval[e].began)
    BY <2>4 DEF InForceSince, Now
  <2>6. ReadsAreRecent'
    BY <2>1, <2>2, <2>3, <2>4, <2>5 DEF ReadsAreRecent, InForceSince
  <2> QED
    BY <2>1, <2>6 DEF Now, Active, CacheIsRecent, VerdictsAreRecent, InForceSince
<1>6. ASSUME NEW e \in Evaluations, QueryFails(e) PROVE Recent'
  <2>1. /\ UNCHANGED <<db, cache, clock>> /\ hist'.inForce = hist.inForce /\ hist'.last.failed
    BY <1>6 DEF QueryFails, Judge, TypeOK, Histories
  <2>2. \A d \in Evaluations : eval'[d] = eval[d] \/ eval'[d].stage = "idle"
    BY <1>6 DEF QueryFails, TypeOK, NoEvaluation
  <2> QED
    BY <2>1, <2>2, <1>a, RecentFrame DEF Now, Active
<1>7. ASSUME NEW e \in Evaluations, Fill(e) PROVE Recent'
  <2>1. /\ UNCHANGED <<db, clock>> /\ hist'.inForce = hist.inForce
        /\ hist'.last = [began |-> eval[e].began, rules |-> eval[e].rules, failed |-> FALSE]
        /\ eval[e].stage = "read" /\ eval' = [eval EXCEPT ![e] = NoEvaluation]
        /\ cache' = cache
           \/ cache' = [there |-> TRUE, rules |-> eval[e].rules, at |-> eval[e].began]
    BY <1>7 DEF Fill, Judge, TypeOK, Histories
  <2>2. PICK f \in hist.inForce : f.rules = eval[e].rules /\ f.at >= eval[e].began
    BY <2>1 DEF ReadsAreRecent, InForceSince
  <2>3. f.at \in Nat /\ eval[e].began \in Nat
    BY DEF TypeOK, Histories, Evaluation
  <2>4. VerdictsAreRecent'
    BY <2>1, <2>2, <2>3, <1>a DEF VerdictsAreRecent
  <2>5. CacheIsRecent'
    BY <2>1, <2>2 DEF CacheIsRecent, InForceSince
  <2>6. ReadsAreRecent'
    BY <2>1 DEF ReadsAreRecent, InForceSince, TypeOK, NoEvaluation
  <2> QED
    BY <2>1, <2>4, <2>5, <2>6 DEF Now, Active
<1>8. ASSUME Tick PROVE Recent'
  <2>1. /\ UNCHANGED <<db, cache, eval>> /\ clock' = clock + 1 /\ hist'.last = hist.last
        /\ hist'.inForce = hist.inForce \cup {[at |-> clock + 1, rules |-> Active(db)]}
    BY <1>8 DEF Tick, TypeOK, Histories
  <2> QED
    BY <2>1, <1>a, RecentFrame DEF Now, Active
<1>9. ASSUME Restart PROVE Recent'
  <2>1. /\ UNCHANGED clock /\ hist'.last = hist.last /\ ~cache'.there
        /\ hist'.inForce = hist.inForce \cup {[at |-> clock, rules |-> Active(db')]}
        /\ \A e \in Evaluations : eval'[e].stage = "idle"
    BY <1>9 DEF Restart, NoCache, NoEvaluation, TypeOK, Histories
  <2>2. Now(db)' = [at |-> clock, rules |-> Active(db')]
    BY <2>1 DEF Now, Active
  <2> QED
    BY <2>1, <2>2, <1>a, RecentFrame
<1> QED
  BY <1>1, <1>2, <1>3, <1>4, <1>5, <1>6, <1>7, <1>8, <1>9
  DEF Next, Requests, Steps, CreateGroup, UpdateGroup, SaveGroup, DeleteGroup, CreateRule,
      UpdateRule, DeleteRule, ListNone, SeedGroup, SeedCollides, LookUpDefault, SeedRule, vars

-----------------------------------------------------------------------------
(* What the cache holds *)

\* seed_default_data adds a group no rule refers to, so the rules in force stay.
LEMMA WithGroupKeepsActive ==
    ASSUME ConstantsOK, TypeOK, GroupsAreThere
    PROVE  Active(WithGroup(db)) = Active(db)
<1>1. WithGroup(db).rules = db.rules
  BY DEF WithGroup, TypeOK, Tables
<1>2. \A i \in Rules : db.rules[i].there =>
         WithGroup(db).groups[db.rules[i].group] = db.groups[db.rules[i].group]
  BY DEF GroupsAreThere, WithGroup, TypeOK, Tables, Group, Row
<1> QED
  BY <1>1, <1>2 DEF Active

\* A change that is pending stays so while another request takes a step.
LEMMA PendingStays ==
    ASSUME TypeOK, Pending, NEW c \in Changes, NEW a, NEW b,
           a \notin {"saved", "refreshing"}, Turns(c, a, b)
    PROVE  Pending'
BY DEF Pending, Turns, TypeOK

LEMMA PendingNow ==
    ASSUME TypeOK, NEW c \in Changes, NEW a, NEW b \in {"saved", "refreshing"}, Turns(c, a, b)
    PROVE  Pending'
BY DEF Pending, Turns, TypeOK

\* The tables stay, or a group is added that no rule refers to, and what has been
\* read and is kept in memory stays.
LEMMA ExactFrame ==
    ASSUME Exact, GroupsAreThere', Active(db') = Active(db),
           hist'.overtaken = hist.overtaken, Pending => Pending',
           cache' = cache \/ ~cache'.there,
           \A e \in Evaluations : eval'[e] = eval[e] \/ eval'[e].stage # "read"
    PROVE  Exact'
<1>1. Active(db)' = Active(db)
  BY DEF Active
<1> QED
  BY <1>1 DEF Exact, ReadsAreExact, CacheIsExact

\* The tables change, and the change will invalidate the cache.
LEMMA ExactWhilePending ==
    ASSUME GroupsAreThere', Pending'
    PROVE  Exact'
BY DEF Exact, ReadsAreExact, CacheIsExact

LEMMA SeededKeepsGroups ==
    ASSUME ConstantsOK, TypeOK, GroupsAreThere, db' \in Seeded(db)
    PROVE  GroupsAreThere'
<1>1. /\ WithGroup(db).rules = db.rules /\ WithGroup(db).groups[DefaultGroup].there
      /\ \A g \in Groups : db.groups[g].there => WithGroup(db).groups[g].there
  BY DEF WithGroup, ConstantsOK, TypeOK, Tables
<1>2. CASE db' = WithGroup(db)
  BY <1>1, <1>2 DEF GroupsAreThere, TypeOK, Tables, Row
<1>3. ASSUME NEW i \in Rules, db' = WithRule(WithGroup(db), i)
      PROVE  GroupsAreThere'
  <2>1. WithGroup(db) \in Tables
    BY WithGroupType DEF TypeOK
  <2>2. /\ db'.groups = WithGroup(db).groups /\ db'.rules[i].group = DefaultGroup
        /\ \A j \in Rules \ {i} : db'.rules[j] = db.rules[j]
    BY <1>1, <1>3, <2>1 DEF WithRule, DefaultRow, Tables
  <2> QED
    BY <1>1, <2>2 DEF GroupsAreThere, TypeOK, Tables, Row
<1> QED
  BY <1>2, <1>3 DEF Seeded

\* Every committed change keeps the references, and is pending.
LEMMA ExactChange ==
    ASSUME TypeOK, TypeOK', Exact, NEW c \in Changes,
           \/ \E g \in Groups : \/ \E p \in Patterns : SaveGroup(c, g, p)
                               \/ DeleteGroup(c, g)
           \/ \E i \in Rules : \/ \E g \in Groups, a \in BOOLEAN :
                                     CreateRule(c, i, g, a) \/ UpdateRule(c, i, g, a)
                              \/ DeleteRule(c, i)
    PROVE  Exact'
<1> USE DEF TypeOK, Tables, GroupsAreThere, Commit, Row
<1>0. GroupsAreThere
  BY DEF Exact
<1>1. ASSUME NEW g \in Groups, NEW p \in Patterns, SaveGroup(c, g, p)
      PROVE  GroupsAreThere' /\ Pending'
  BY <1>0, <1>1, PendingNow DEF SaveGroup
<1>2. ASSUME NEW g \in Groups, DeleteGroup(c, g)
      PROVE  GroupsAreThere' /\ Pending'
  BY <1>0, <1>2, PendingNow DEF DeleteGroup
<1>3. ASSUME NEW i \in Rules, NEW g \in Groups, NEW a \in BOOLEAN, CreateRule(c, i, g, a)
      PROVE  GroupsAreThere' /\ Pending'
  BY <1>0, <1>3, PendingNow DEF CreateRule
<1>4. ASSUME NEW i \in Rules, NEW g \in Groups, NEW a \in BOOLEAN, UpdateRule(c, i, g, a)
      PROVE  GroupsAreThere' /\ Pending'
  BY <1>0, <1>4, PendingNow DEF UpdateRule
<1>5. ASSUME NEW i \in Rules, DeleteRule(c, i)
      PROVE  GroupsAreThere' /\ Pending'
  BY <1>0, <1>5, PendingNow DEF DeleteRule, NoRow
<1> QED
  BY <1>1, <1>2, <1>3, <1>4, <1>5, ExactWhilePending

LEMMA ExactStep ==
    ASSUME ConstantsOK, TypeOK, TypeOK', Exact, [Next]_vars
    PROVE  Exact'
<1>0. GroupsAreThere
  BY DEF Exact
<1>a. ASSUME UNCHANGED db PROVE GroupsAreThere' /\ Active(db') = Active(db)
  BY <1>0, <1>a DEF GroupsAreThere
<1>1. ASSUME UNCHANGED <<db, hist, cache, eval>>, Pending => Pending' PROVE Exact'
  BY <1>1, <1>a, ExactFrame
<1>2. ASSUME NEW c \in Changes, RefreshFails(c) PROVE Exact'
  <2>1. UNCHANGED db /\ hist'.overtaken
    BY <1>2 DEF RefreshFails, TypeOK, Histories
  <2> QED
    BY <1>a, <2>1 DEF Exact, ReadsAreExact, CacheIsExact
<1>3. ASSUME NEW c \in Changes, Invalidate(c) PROVE Exact'
  <2>1. UNCHANGED <<db, eval>> /\ ~cache'.there /\ hist'.overtaken = Overtaken
    BY <1>3 DEF Invalidate, NoCache, TypeOK, Histories
  <2>2. Overtaken \/ \A e \in Evaluations : eval[e].stage = "read" => eval[e].rules = Active(db)
    BY DEF Overtaken
  <2>3. ReadsAreExact'
    BY <2>1, <2>2 DEF ReadsAreExact, Active
  <2> QED
    BY <1>a, <2>1, <2>3 DEF Exact, CacheIsExact
<1>4. ASSUME NEW c \in Changes, SeedGroup(c) PROVE Exact'
  <2>1. /\ db' = WithGroup(db) /\ UNCHANGED <<cache, eval>>
        /\ hist'.overtaken = hist.overtaken
    BY <1>4 DEF SeedGroup, Commit, TypeOK, Histories
  <2>2. GroupsAreThere'
    BY <1>0, <2>1 DEF GroupsAreThere, WithGroup, TypeOK, Tables, Row
  <2>3. Active(db') = Active(db)
    BY <1>0, <2>1, WithGroupKeepsActive
  <2>4. Pending => Pending'
    BY <1>4, PendingStays DEF SeedGroup
  <2> QED
    BY <2>1, <2>2, <2>3, <2>4, ExactFrame
<1>5. ASSUME NEW c \in Changes, SeedRule(c) PROVE Exact'
  <2>1. CASE UNCHANGED <<db, hist, cache, eval>> /\ Turns(c, "unnamed", "idle")
    BY <1>1, <2>1, PendingStays
  <2>2. ASSUME NEW i \in Rules, db.groups[DefaultGroup].there, db' = WithRule(db, i),
               Turns(c, "unnamed", "saved")
        PROVE  Exact'
    <3>1. /\ db'.groups = db.groups /\ db'.rules[i].group = DefaultGroup
          /\ \A j \in Rules \ {i} : db'.rules[j] = db.rules[j]
      BY <2>2 DEF WithRule, DefaultRow, TypeOK, Tables
    <3>2. GroupsAreThere'
      BY <1>0, <2>2, <3>1 DEF GroupsAreThere
    <3> QED
      BY <2>2, <3>2, PendingNow, ExactWhilePending
  <2> QED
    BY <1>5, <2>1, <2>2 DEF SeedRule, Commit
<1>6. ASSUME NEW e \in Evaluations, Evaluate(e) \/ QueryFails(e) PROVE Exact'
  <2>1. /\ UNCHANGED <<db, cache, change>> /\ hist'.overtaken = hist.overtaken
        /\ \A d \in Evaluations : eval'[d] = eval[d] \/ eval'[d].stage # "read"
    BY <1>6 DEF Evaluate, QueryFails, Judge, NoEvaluation, TypeOK, Histories
  <2> QED
    BY <1>a, <2>1, ExactFrame DEF Pending
<1>7. ASSUME NEW e \in Evaluations, Query(e) PROVE Exact'
  <2>1. /\ UNCHANGED <<db, hist, cache, change>> /\ eval'[e].rules = Active(db)
        /\ \A d \in Evaluations \ {e} : eval'[d] = eval[d]
    BY <1>7 DEF Query, TypeOK, Evaluation
  <2>2. ReadsAreExact'
    BY <2>1 DEF Exact, ReadsAreExact, Pending, Active
  <2> QED
    BY <1>a, <2>1, <2>2 DEF Exact, CacheIsExact, Pending, Active
<1>8. ASSUME NEW e \in Evaluations, Fill(e) PROVE Exact'
  <2>1. /\ UNCHANGED <<db, change>> /\ hist'.overtaken = hist.overtaken
        /\ eval[e].stage = "read" /\ (cache' = cache \/ cache'.rules = eval[e].rules)
        /\ \A d \in Evaluations : eval'[d] = eval[d] \/ eval'[d].stage # "read"
    BY <1>8 DEF Fill, Judge, NoEvaluation, TypeOK, Histories
  <2>2. CacheIsExact'
    BY <2>1 DEF Exact, ReadsAreExact, CacheIsExact, Pending, Active
  <2>3. ReadsAreExact'
    BY <2>1 DEF Exact, ReadsAreExact, Pending, Active
  <2> QED
    BY <1>a, <2>1, <2>2, <2>3 DEF Exact
<1>9. ASSUME Tick PROVE Exact'
  <2>1. UNCHANGED <<db, cache, eval, change>> /\ hist'.overtaken = hist.overtaken
    BY <1>9 DEF Tick, TypeOK, Histories
  <2> QED
    BY <1>a, <2>1, ExactFrame DEF Pending
<1>10. ASSUME Restart PROVE Exact'
  <2>1. ~cache'.there /\ \A e \in Evaluations : eval'[e].stage = "idle"
    BY <1>10 DEF Restart, NoCache, NoEvaluation
  <2>2. GroupsAreThere'
    BY <1>0, <1>10, SeededKeepsGroups DEF Restart
  <2> QED
    BY <2>1, <2>2 DEF Exact, ReadsAreExact, CacheIsExact
<1>11. ASSUME NEW c \in Changes, ListNone(c) \/ SeedCollides(c) \/ LookUpDefault(c)
       PROVE  Exact'
  <2>1. UNCHANGED <<db, hist, cache, eval>> /\ (Pending => Pending')
    BY <1>11, PendingStays DEF ListNone, SeedCollides, LookUpDefault
  <2> QED
    BY <1>1, <2>1
<1>12. ASSUME UNCHANGED vars PROVE Exact'
  BY <1>1, <1>12 DEF vars, Pending
<1>13. CASE Requests
  BY <1>13, <1>6, <1>11, ExactChange DEF Requests, CreateGroup, UpdateGroup
<1>14. CASE Steps
  BY <1>14, <1>2, <1>3, <1>4, <1>5, <1>6, <1>7, <1>8, <1>11 DEF Steps
<1> QED
  BY <1>9, <1>10, <1>12, <1>13, <1>14 DEF Next

-----------------------------------------------------------------------------
(* The invariant *)

LEMMA IInvInit ==
    ASSUME ConstantsOK, Init
    PROVE  IInv
<1>1. TypeOK
  BY TypeInit
<1>2. GroupsAreThere
  <2>1. WithGroup(NoTables) \in Tables /\ DefaultGroup \in Groups
    BY NoTablesType, WithGroupType DEF ConstantsOK
  <2>2. /\ \A i \in Rules : ~WithGroup(NoTables).rules[i].there
        /\ WithGroup(NoTables).groups[DefaultGroup].there
    BY <2>1 DEF WithGroup, NoTables, NoRow, NoGroup
  <2>3. CASE db = WithGroup(NoTables)
    BY <2>2, <2>3 DEF GroupsAreThere
  <2>4. ASSUME NEW i \in Rules, db = WithRule(WithGroup(NoTables), i)
        PROVE  GroupsAreThere
    <3>1. /\ db.groups = WithGroup(NoTables).groups /\ db.rules[i].group = DefaultGroup
          /\ \A j \in Rules \ {i} : db.rules[j] = WithGroup(NoTables).rules[j]
      BY <2>1, <2>4 DEF WithRule, DefaultRow, Tables
    <3> QED
      BY <2>2, <3>1 DEF GroupsAreThere
  <2> QED
    BY <2>3, <2>4 DEF Init, Seeded
<1>3. Recent
  <2>1. /\ clock = 0 /\ hist.inForce = {Now(db)} /\ hist.last.rules = Now(db).rules
        /\ hist.last.began = 0 /\ Now(db).at = 0
    BY DEF Init, Now
  <2>2. VerdictsAreRecent
    BY <2>1 DEF VerdictsAreRecent, ConstantsOK
  <2>3. ReadsAreRecent /\ CacheIsRecent
    BY DEF Init, ReadsAreRecent, CacheIsRecent, NoCache, NoEvaluation
  <2> QED
    BY <2>1, <2>2, <2>3 DEF Recent
<1>4. Exact
  BY <1>2 DEF Init, Exact, ReadsAreExact, CacheIsExact, NoCache, NoEvaluation
<1> QED
  BY <1>1, <1>3, <1>4 DEF IInv

LEMMA IInvStep ==
    ASSUME ConstantsOK, IInv, [Next]_vars
    PROVE  IInv'
BY TypeStep, RecentStep, ExactStep DEF IInv

THEOREM Invariance == ASSUME ConstantsOK PROVE Spec => []IInv
<1>1. Init => IInv
  BY IInvInit
<1>2. IInv /\ [Next]_vars => IInv'
  BY IInvStep
<1> QED
  BY <1>1, <1>2, PTL DEF Spec

\* Telemetry is judged by rules that were in force within CACHE_TTL_SECONDS before
\* its evaluation began, or later, however many requests change the rules, however
\* many evaluations fill the cache, and whatever fails.
THEOREM VerdictsRecent == ASSUME ConstantsOK PROVE Spec => []VerdictsAreRecent
<1>1. IInv => VerdictsAreRecent
  BY DEF IInv, Recent
<1> QED
  BY <1>1, Invariance, PTL

\* With no change pending the cache holds the rules in force, unless an evaluation
\* that had read them before the last invalidation has filled it, or a group was
\* saved whose refresh failed.
THEOREM CacheExact == ASSUME ConstantsOK PROVE Spec => []CacheIsExact
<1>1. IInv => CacheIsExact
  BY DEF IInv, Exact
<1> QED
  BY <1>1, Invariance, PTL
=============================================================================
