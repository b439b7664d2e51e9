---------------------------- MODULE AIAssistProofs ----------------------------
(***************************************************************************)
(* Proofs about the AI tab of an incident (AIAssist): for any number of     *)
(* requests, tasks, analyses, suggestions and failures, a reviewed          *)
(* suggestion is not executed again, a row marked applied was acted on, and *)
(* no spinner is left without a request or a timer behind it.               *)
(***************************************************************************)
EXTENDS AIAssist, TLAPS

-----------------------------------------------------------------------------
(* The inductive invariant *)

\* A reviewed suggestion keeps a mark on its row for as long as the row holds it.
\* A suggestion is in one row only.
RowsMarked ==
    /\ reviewed \subseteq 1 .. sugs
    /\ \A n \in 1 .. Latest :
        /\ rows[n].sug \in 0 .. sugs
        /\ rows[n].sug \in reviewed => rows[n].applied \/ rows[n].dismissed
        /\ \A m \in 1 .. Latest : rows[m].sug = rows[n].sug /\ rows[n].sug > 0 => m = n

\* A request that has passed the check of apply_suggestion, and has not marked
\* its row yet.
Applying(s) == job[s] # Idle /\ job[s].op = "apply" /\ job[s].stage \in {"acting", "acted"}

\* What it works on: a suggestion of its row, if it still is in a row, that was
\* not reviewed when the request was sent.
ApplyingRight ==
    \A s \in Slots :
        /\ job[s] # Idle => job[s].barred \subseteq reviewed
        /\ Applying(s) =>
             /\ job[s].row \in 1 .. Latest /\ job[s].sug \in 1 .. sugs
             /\ job[s].stage = "acting" => job[s].sug \notin job[s].barred
             /\ job[s].stage = "acted" => \E e \in executed : e.row = job[s].row
             /\ \A n \in 1 .. Latest : rows[n].sug = job[s].sug => n = job[s].row

ReviewInv == RowsMarked /\ ApplyingRight /\ MarkedRowWasActedOn /\ ReviewedIsFinal

\* Tasks write to rows that are there.
TasksFit == \A t \in Tasks : task[t] \in Loaded => task[t].row \in 1 .. Latest

\* Listings carry what their reader expects ...
Listings == [by : ByPanel, base : Nat, data : Proposals]
              \cup [by : {"tab", "regen"}, base : Nat, data : Triages]
ReadsType == reads \subseteq Listings

\* ... and the handler of a review, among the requests js, waits for one listing
\* of its own, among the listings rs.
AwaitedIn(js, rs) ==
    \A r \in rs : r.by = "review" =>
        /\ r.base \in Slots /\ js[r.base] # Idle
        /\ js[r.base].op \in {"apply", "dismiss"} /\ js[r.base].stage = "fetching"
        /\ \A q \in rs : q.by = "review" /\ q.base = r.base => q = r

Types == TypeOK /\ ReadsType /\ TasksFit
ScreenInv == AwaitedIn(job, reads) /\ SpinnersMeanWork

-----------------------------------------------------------------------------
(* Tables and listings *)

\* The analyses are a sequence of rows.
LEMMA RowsType ==
    ASSUME TypeOK
    PROVE  /\ rows \in Seq(Reviewable) /\ Latest \in 0 .. MaxRows
           /\ \A n \in 1 .. Latest : rows[n] \in Reviewable
<1>1. PICK n \in 0 .. MaxRows : rows \in [1 .. n -> Reviewable]
  BY DEF TypeOK
<1>2. n \in Nat
  BY BoundsAssumption
<1>3. rows \in Seq(Reviewable) /\ Len(rows) = n
  BY <1>1, <1>2
<1> QED
  BY <1>1, <1>3 DEF Latest

\* Conversely.
LEMMA RowsTyped ==
    ASSUME NEW rs \in Seq(Reviewable), Len(rs) <= MaxRows
    PROVE  rs \in UNION {[1 .. n -> Reviewable] : n \in 0 .. MaxRows}
<1>1. Len(rs) \in 0 .. MaxRows /\ rs \in [1 .. Len(rs) -> Reviewable]
  BY BoundsAssumption
<1> QED
  BY <1>1

\* One row changes.
LEMMA RowChanges ==
    ASSUME TypeOK, NEW n \in 1 .. Latest, NEW r \in Reviewable, rows' = [rows EXCEPT ![n] = r]
    PROVE  /\ rows' \in UNION {[1 .. m -> Reviewable] : m \in 0 .. MaxRows}
           /\ Latest' = Latest /\ rows'[n] = r
           /\ \A m \in 1 .. Latest : m # n => rows'[m] = rows[m]
<1>1. rows \in Seq(Reviewable) /\ Latest \in 0 .. MaxRows
  BY RowsType
<1>2. rows' \in Seq(Reviewable) /\ Len(rows') = Len(rows)
  BY <1>1 DEF Latest
<1>3. rows' \in UNION {[1 .. m -> Reviewable] : m \in 0 .. MaxRows}
  BY <1>1, <1>2, RowsTyped DEF Latest
<1> QED
  BY <1>1, <1>2, <1>3 DEF Latest

LEMMA ListingType ==
    ASSUME TypeOK
    PROVE  /\ Triage \in Triages /\ None \in Triages
           /\ Suggested \in Proposals /\ Nothing \in Proposals
<1> USE BoundsAssumption
<1>1. None \in Triages /\ Nothing \in Proposals
  BY DEF None, Triages, Nothing, Proposals
<1>2. Triage \in Triages
  BY <1>1, RowsType DEF Triage, Triages, Reviewable
<1>3. Suggested \in Proposals
  BY <1>1, RowsType DEF Suggested, Proposals, Reviewable
<1> QED
  BY <1>1, <1>2, <1>3

LEMMA ReadFits ==
    ASSUME TypeOK, NEW by \in ByPanel \cup {"tab", "regen"}, NEW base \in Nat
    PROVE  /\ Read(by, base).by = by /\ Read(by, base).base = base
           /\ Read(by, base) \in Listings
BY ListingType DEF Read, ByPanel, Listings

-----------------------------------------------------------------------------
(* Requests *)

LEMMA JobType ==
    ASSUME TypeOK, NEW s \in Slots, job[s] # Idle
    PROVE  job[s] \in Jobs
BY DEF TypeOK

LEMMA NotIdle ==
    ASSUME NEW j \in Jobs
    PROVE  j # Idle
BY DEF Jobs, Idle

\* A step of one request: its stage changes and nothing else.
LEMMA StepEffect ==
    ASSUME TypeOK, NEW s \in Slots, job[s] # Idle,
           NEW stage \in {"sent", "acting", "acted", "ok", "err", "fetching"}, Step(s, stage)
    PROVE  /\ job' \in [Slots -> Jobs \cup {Idle}]
           /\ job'[s] # Idle
           /\ job'[s].op = job[s].op /\ job'[s].by = job[s].by /\ job'[s].row = job[s].row
           /\ job'[s].sug = job[s].sug /\ job'[s].barred = job[s].barred
           /\ job'[s].stage = stage
           /\ \A t \in Slots \ {s} : job'[t] = job[t]
<1>1. job[s] \in Jobs
  BY JobType
<1>2. [job[s] EXCEPT !.stage = stage] \in Jobs
  BY <1>1 DEF Jobs
<1>3. job' = [job EXCEPT ![s] = [job[s] EXCEPT !.stage = stage]]
  BY DEF Step
<1>4. job'[s] = [job[s] EXCEPT !.stage = stage] /\ \A t \in Slots \ {s} : job'[t] = job[t]
  BY <1>3 DEF TypeOK
<1>5. job' \in [Slots -> Jobs \cup {Idle}]
  BY <1>2, <1>3 DEF TypeOK
<1> QED
  BY <1>1, <1>2, <1>4, <1>5, NotIdle DEF Jobs

LEMMA EndEffect ==
    ASSUME TypeOK, NEW s \in Slots, NEW js, js = [job EXCEPT ![s] = Idle]
    PROVE  /\ js \in [Slots -> Jobs \cup {Idle}]
           /\ js[s] = Idle
           /\ \A t \in Slots \ {s} : js[t] = job[t]
BY DEF TypeOK

LEMMA NewEffect ==
    ASSUME TypeOK, NEW s \in Slots, NEW op \in Ops, NEW seen \in 0 .. MaxSug,
           NEW by \in {"here", "elsewhere"}, NEW js, js = New(s, op, seen, by)
    PROVE  /\ js \in [Slots -> Jobs \cup {Idle}]
           /\ js[s] # Idle
           /\ js[s].op = op /\ js[s].by = by /\ js[s].stage = "sent"
           /\ js[s].barred \subseteq reviewed
           /\ \A t \in Slots \ {s} : js[t] = job[t]
<1> DEFINE j == [op |-> op, by |-> by, row |-> 0, sug |-> 0, seen |-> seen,
                 barred |-> IF op = "apply" THEN reviewed ELSE {}, stage |-> "sent"]
<1>1. j \in Jobs
  BY BoundsAssumption DEF Jobs, TypeOK
<1>2. js = [job EXCEPT ![s] = j]
  BY DEF New
<1>3. j.op = op /\ j.by = by /\ j.stage = "sent" /\ j.barred \subseteq reviewed
  OBVIOUS
<1> HIDE DEF j
<1>4. js[s] = j /\ \A t \in Slots \ {s} : js[t] = job[t]
  BY <1>2 DEF TypeOK
<1>5. js \in [Slots -> Jobs \cup {Idle}]
  BY <1>1, <1>2 DEF TypeOK
<1> QED
  BY <1>1, <1>3, <1>4, <1>5, NotIdle

-----------------------------------------------------------------------------
(* The manager *)

\* What a request may become while the manager's tables stay as they are.
SlotMoves(j, k) ==
    \/ k = j \/ k = Idle
    \/ /\ j # Idle /\ k # Idle
       /\ k.op = j.op /\ k.row = j.row /\ k.sug = j.sug /\ k.barred = j.barred
       /\ k.stage \in {j.stage, "ok", "err", "fetching"}
    \/ k # Idle /\ k.stage = "sent" /\ k.barred \subseteq reviewed

LEMMA ScreenKeepsReview ==
    ASSUME ReviewInv, UNCHANGED manager, \A s \in Slots : SlotMoves(job[s], job'[s])
    PROVE  ReviewInv'
<1>1. RowsMarked' /\ MarkedRowWasActedOn' /\ ReviewedIsFinal'
  BY DEF ReviewInv, RowsMarked, MarkedRowWasActedOn, ReviewedIsFinal, Latest, manager
<1>2. ASSUME NEW s \in Slots, Applying(s)'
      PROVE  /\ Applying(s) /\ job'[s].row = job[s].row /\ job'[s].sug = job[s].sug
             /\ job'[s].stage = job[s].stage /\ job'[s].barred = job[s].barred
  BY <1>2 DEF SlotMoves, Applying
<1>3. ASSUME NEW s \in Slots, job'[s] # Idle PROVE job'[s].barred \subseteq reviewed
  BY <1>3 DEF SlotMoves, ReviewInv, ApplyingRight
<1>4. ApplyingRight'
  BY <1>2, <1>3 DEF ReviewInv, ApplyingRight, Latest, manager
<1> QED
  BY <1>1, <1>4 DEF ReviewInv

\* The tables change as far as a task may change them.
LEMMA TriageTypes ==
    ASSUME Types, TriageDone, UNCHANGED asked
    PROVE  /\ TypeOK' /\ Latest' >= Latest /\ UNCHANGED <<task, reads, job>>
           /\ \A n \in 1 .. Latest : rows'[n] = rows[n]
           /\ \A n \in 1 .. Latest' : n > Latest => rows'[n].sug = 0 /\ ~rows'[n].applied
<1> USE DEF Types, manager, StillScreen, timers
<1>0. rows \in Seq(Reviewable) /\ Latest \in 0 .. MaxRows
  BY RowsType
<1>t. triaging' \in 0 .. MaxTriage
  BY BoundsAssumption DEF TriageDone, TypeOK
<1>u. UNCHANGED <<task, sugs, executed, reviewed, job, faults, tab, panel, regenTimer, sugTimer,
                  reads, asked>>
  BY DEF TriageDone
<1>k. ASSUME rows' \in UNION {[1 .. n -> Reviewable] : n \in 0 .. MaxRows} PROVE TypeOK'
  BY <1>t, <1>u, <1>k DEF TypeOK, Off
<1>1. CASE UNCHANGED rows
  <2>1. TypeOK'
    BY <1>k, <1>1 DEF TypeOK
  <2>2. Latest' = Latest
    BY <1>1 DEF Latest
  <2> QED
    BY <1>0, <1>1, <1>u, <2>1, <2>2, BoundsAssumption
<1>2. CASE ~UNCHANGED rows
  <2>1. PICK failed \in BOOLEAN :
           rows' = Append(rows, [sug |-> 0, applied |-> FALSE, dismissed |-> FALSE,
                                 failed |-> failed])
    BY <1>2 DEF TriageDone
  <2> DEFINE new == [sug |-> 0, applied |-> FALSE, dismissed |-> FALSE, failed |-> failed]
  <2>2. new \in Reviewable /\ new.sug = 0 /\ ~new.applied
    BY BoundsAssumption DEF Reviewable
  <2> HIDE DEF new
  <2>3. Latest < MaxRows /\ rows' = Append(rows, new)
    BY <1>2, <2>1 DEF TriageDone, new
  <2>4. /\ rows' \in Seq(Reviewable) /\ Len(rows') = Len(rows) + 1
        /\ \A n \in 1 .. Len(rows) : rows'[n] = rows[n]
        /\ rows'[Len(rows) + 1] = new
    BY <1>0, <2>2, <2>3
  <2>5. rows' \in UNION {[1 .. n -> Reviewable] : n \in 0 .. MaxRows}
    <3>1. Len(rows) \in Nat /\ Len(rows) < MaxRows
      BY <1>0, <2>3 DEF Latest
    <3>2. Len(rows') <= MaxRows
      BY <2>4, <3>1, BoundsAssumption
    <3> QED
      BY <2>4, <3>2, RowsTyped
  <2>6. Latest \in Nat /\ Latest' = Latest + 1 /\ rows'[Latest + 1] = new
        /\ \A n \in 1 .. Latest : rows'[n] = rows[n]
    BY <1>0, <2>4, BoundsAssumption DEF Latest
  <2>7. \A n \in 1 .. Latest' : n > Latest => rows'[n] = new
    BY <2>6
  <2> QED
    BY <1>k, <1>u, <2>2, <2>5, <2>6, <2>7
<1> QED
  BY <1>1, <1>2

LEMMA TriageKeeps ==
    ASSUME Types, ReviewInv, ScreenInv, TriageDone, UNCHANGED asked
    PROVE  Types' /\ ReviewInv' /\ ScreenInv'
<1>1. /\ TypeOK' /\ Latest' >= Latest /\ UNCHANGED <<task, reads, job>>
      /\ \A n \in 1 .. Latest : rows'[n] = rows[n]
      /\ \A n \in 1 .. Latest' : n > Latest => rows'[n].sug = 0 /\ ~rows'[n].applied
  BY TriageTypes
<1>2. Latest \in Nat /\ Latest' \in Nat
  BY <1>1, RowsType, BoundsAssumption DEF Types, Latest
<1>3. UNCHANGED <<tab, panel, timers, sugs, executed, reviewed>>
  BY DEF TriageDone, StillScreen
<1>4. Types'
  BY <1>1, <1>2 DEF Types, TasksFit, ReadsType
<1>5. ScreenInv'
  BY <1>1, <1>3 DEF ScreenInv, AwaitedIn, SpinnersMeanWork, Running, timers
<1>6. \A n \in 1 .. Latest' : n \in 1 .. Latest \/ n > Latest
  BY <1>2
<1>7. RowsMarked'
  <2>1. sugs \in Nat
    BY BoundsAssumption DEF Types, TypeOK
  <2>2. 0 \notin reviewed
    BY <2>1 DEF ReviewInv, RowsMarked
  <2> QED
    BY <1>1, <1>2, <1>3, <1>6, <2>1, <2>2 DEF ReviewInv, RowsMarked
<1>8. MarkedRowWasActedOn' /\ ReviewedIsFinal'
  BY <1>1, <1>3, <1>6 DEF ReviewInv, MarkedRowWasActedOn, ReviewedIsFinal
<1>9. ApplyingRight'
  <2>1. ASSUME NEW s \in Slots, Applying(s)
        PROVE  /\ job[s].row \in 1 .. Latest'
               /\ \A n \in 1 .. Latest' : rows'[n].sug = job[s].sug => n = job[s].row
    <3>1. /\ job[s].row \in 1 .. Latest /\ job[s].sug > 0
          /\ \A n \in 1 .. Latest : rows[n].sug = job[s].sug => n = job[s].row
      BY <2>1, BoundsAssumption DEF ReviewInv, ApplyingRight, Types, TypeOK
    <3> QED
      BY <1>1, <1>2, <1>6, <3>1
  <2> QED
    BY <1>1, <1>3, <2>1 DEF ReviewInv, ApplyingRight, Applying
<1> QED
  BY <1>4, <1>5, <1>7, <1>8, <1>9 DEF ReviewInv

\* A request that is served stays on the same screen.
Serving == \A s \in Slots :
    \/ job'[s] = job[s]
    \/ /\ job[s] # Idle /\ job'[s] # Idle
       /\ job'[s].op = job[s].op /\ job'[s].by = job[s].by /\ job[s].stage # "fetching"

LEMMA ServingKeepsScreen ==
    ASSUME ScreenInv, Serving, UNCHANGED <<tab, panel, regenTimer, sugTimer, reads>>
    PROVE  ScreenInv'
<1>1. \A op : Running(op) => Running(op)'
  BY DEF Serving, Running
<1>2. SpinnersMeanWork'
  BY <1>1 DEF ScreenInv, SpinnersMeanWork
<1>3. AwaitedIn(job, reads)'
  BY DEF ScreenInv, AwaitedIn, Serving
<1> QED
  BY <1>2, <1>3 DEF ScreenInv

LEMMA LoadKeeps ==
    ASSUME Types, ReviewInv, ScreenInv, NEW t \in Tasks, LoadForSuggest(t), UNCHANGED asked
    PROVE  Types' /\ ReviewInv' /\ ScreenInv'
<1>u. UNCHANGED <<rows, triaging, sugs, executed, reviewed, job, faults, tab, panel, regenTimer,
                  sugTimer, reads>>
  BY DEF LoadForSuggest, StillScreen, timers
<1> DEFINE new == IF Latest = 0 THEN Idle
                  ELSE [row |-> Latest, applied |-> rows[Latest].applied,
                        dismissed |-> rows[Latest].dismissed]
<1>1. task' = [task EXCEPT ![t] = new]
  BY DEF LoadForSuggest
<1>2. new = Idle \/ (new \in Loaded /\ new.row \in 1 .. Latest)
  <2>1. CASE Latest # 0
    <3>1. Latest \in 1 .. MaxRows /\ Latest \in 1 .. Latest /\ rows[Latest] \in Reviewable
      BY <2>1, RowsType, BoundsAssumption DEF Types
    <3> QED
      BY <2>1, <3>1 DEF Loaded, Reviewable
  <2> QED
    BY <2>1
<1>3. Idle \notin Loaded
  BY DEF Idle, Loaded
<1> HIDE DEF new
<1>4. TypeOK'
  BY <1>u, <1>1, <1>2 DEF Types, TypeOK, Off
<1>5. TasksFit'
  BY <1>u, <1>1, <1>2, <1>3 DEF Types, TypeOK, TasksFit, Latest
<1>6. Types'
  BY <1>u, <1>4, <1>5 DEF Types, ReadsType
<1>7. ReviewInv'
  BY <1>u DEF ReviewInv, RowsMarked, ApplyingRight, Applying, MarkedRowWasActedOn,
              ReviewedIsFinal, Latest
<1>8. ScreenInv'
  BY <1>u, ServingKeepsScreen DEF Serving
<1> QED
  BY <1>6, <1>7, <1>8

\* A new suggestion has a number of its own, so it is not reviewed, and nobody
\* is applying it.
LEMMA FinishKeeps ==
    ASSUME Types, ReviewInv, ScreenInv, NEW t \in Tasks, FinishSuggest(t), UNCHANGED asked
    PROVE  Types' /\ ReviewInv' /\ ScreenInv'
<1>u. UNCHANGED <<triaging, executed, reviewed, job, faults, tab, panel, regenTimer,
                  sugTimer, reads>>
  BY DEF FinishSuggest, StillScreen, timers
<1>1. task' = [task EXCEPT ![t] = Idle] /\ task[t] \in Loaded
  BY DEF FinishSuggest
<1>2. task' \in [Tasks -> {Idle, [op |-> "asked"]} \cup Loaded]
  BY <1>1 DEF Types, TypeOK
<1>3. Idle \notin Loaded
  BY DEF Idle, Loaded
<1>s. ScreenInv'
  BY <1>u, ServingKeepsScreen DEF Serving
<1>4. CASE UNCHANGED <<rows, sugs>>
  <2>1. TypeOK'
    BY <1>u, <1>2, <1>4 DEF Types, TypeOK, Off
  <2>2. Types'
    BY <1>u, <1>1, <1>3, <1>4, <2>1 DEF Types, TypeOK, TasksFit, ReadsType, Latest
  <2>3. ReviewInv'
    BY <1>u, <1>4 DEF ReviewInv, RowsMarked, ApplyingRight, Applying, MarkedRowWasActedOn,
                      ReviewedIsFinal, Latest
  <2> QED
    BY <1>s, <2>2, <2>3
<1>5. CASE ~UNCHANGED <<rows, sugs>>
  <2> DEFINE n == task[t].row
             r == Rewritten(rows[n], task[t])
  <2>1. sugs < MaxSug /\ sugs' = sugs + 1 /\ rows' = [rows EXCEPT ![n] = r]
    BY <1>5 DEF FinishSuggest
  <2>2. n \in 1 .. Latest /\ rows[n] \in Reviewable /\ sugs \in Nat
    BY <1>1, RowsType, BoundsAssumption DEF Types, TasksFit, TypeOK
  <2>3. r \in Reviewable /\ r.sug = sugs + 1 /\ (r.applied => rows[n].applied)
    <3>1. /\ rows[n].applied \in BOOLEAN /\ rows[n].dismissed \in BOOLEAN
          /\ rows[n].failed \in BOOLEAN /\ sugs + 1 \in 0 .. MaxSug
      BY <2>1, <2>2, BoundsAssumption DEF Reviewable
    <3>2. task[t].applied \in BOOLEAN /\ task[t].dismissed \in BOOLEAN
      BY <1>1 DEF Loaded
    <3> QED
      BY <3>1, <3>2 DEF Reviewable, Rewritten
  <2> HIDE DEF n, r
  <2>4. /\ rows' \in UNION {[1 .. m -> Reviewable] : m \in 0 .. MaxRows}
        /\ Latest' = Latest /\ rows'[n] = r
        /\ \A m \in 1 .. Latest : m # n => rows'[m] = rows[m]
    BY <2>1, <2>2, <2>3, RowChanges DEF Types
  <2>5. sugs' \in 0 .. MaxSug
    BY <2>1, <2>2, BoundsAssumption
  <2>6. TypeOK'
    BY <1>u, <1>2, <2>4, <2>5 DEF Types, TypeOK, Off
  <2>7. TasksFit'
    BY <1>1, <1>3, <2>4 DEF Types, TypeOK, TasksFit
  <2>8. Types'
    BY <1>u, <2>6, <2>7 DEF Types, ReadsType
  <2>9. RowsMarked'
    <3>1. reviewed \subseteq 1 .. sugs /\ \A m \in 1 .. Latest : rows[m].sug \in 0 .. sugs
      BY DEF ReviewInv, RowsMarked
    <3>2. sugs + 1 \notin reviewed /\ \A m \in 1 .. Latest : rows[m].sug # sugs + 1
      BY <2>2, <3>1
    <3>3. \A m \in 1 .. Latest :
             /\ rows'[m].sug \in 0 .. sugs'
             /\ rows'[m].sug \in reviewed => rows'[m].applied \/ rows'[m].dismissed
      BY <2>1, <2>2, <2>3, <2>4, <3>1, <3>2 DEF ReviewInv, RowsMarked
    <3>4. ASSUME NEW m \in 1 .. Latest, NEW l \in 1 .. Latest,
                 rows'[l].sug = rows'[m].sug, rows'[m].sug > 0
          PROVE  l = m
      BY <2>3, <2>4, <3>2, <3>4 DEF ReviewInv, RowsMarked
    <3>5. reviewed' \subseteq 1 .. sugs'
      BY <1>u, <2>1, <2>2, <3>1
    <3> QED
      BY <1>u, <2>4, <3>3, <3>4, <3>5 DEF RowsMarked
  <2>10. ApplyingRight'
    <3>1. \A s \in Slots : Applying(s)' <=> Applying(s)
      BY <1>u DEF Applying
    <3>2. ASSUME NEW s \in Slots, Applying(s)
          PROVE  /\ job[s].row \in 1 .. Latest /\ job[s].sug \in 1 .. sugs'
                 /\ \A m \in 1 .. Latest : rows'[m].sug = job[s].sug => m = job[s].row
      <4>1. /\ job[s].row \in 1 .. Latest /\ job[s].sug \in 1 .. sugs
            /\ \A m \in 1 .. Latest : rows[m].sug = job[s].sug => m = job[s].row
        BY <3>2 DEF ReviewInv, ApplyingRight
      <4>2. job[s].sug # sugs + 1 /\ job[s].sug \in 1 .. sugs'
        BY <2>1, <2>2, <4>1
      <4> QED
        BY <2>3, <2>4, <4>1, <4>2
    <3> QED
      BY <1>u, <2>4, <3>1, <3>2 DEF ReviewInv, ApplyingRight
  <2>11. MarkedRowWasActedOn' /\ ReviewedIsFinal'
    BY <1>u, <2>3, <2>4 DEF ReviewInv, MarkedRowWasActedOn, ReviewedIsFinal
  <2> QED
    BY <1>s, <2>8, <2>9, <2>10, <2>11 DEF ReviewInv
<1> QED
  BY <1>4, <1>5

\* A step of one request in the manager.
LEMMA ServeTypes ==
    ASSUME TypeOK, NEW s \in Slots, Serve(s)
    PROVE  /\ job[s] # Idle /\ job[s].stage # "fetching"
           /\ UNCHANGED <<tab, panel, regenTimer, sugTimer, reads, asked>>
           /\ faults' \in 0 .. MaxFaults
<1>1. job[s] # Idle /\ job[s].stage # "fetching"
  BY DEF Serve, ServeRegenerate, ServeSuggest, ServeDismiss, CheckApply, CreateAction,
         MarkApplied, Sent, Answered
<1>2. UNCHANGED <<tab, panel, regenTimer, sugTimer, reads, asked>>
  BY DEF Serve, ServeRegenerate, ServeSuggest, ServeDismiss, CheckApply, CreateAction,
         MarkApplied, StillScreen, timers
<1>3. faults' = faults \/ Fault
  BY DEF Serve, ServeRegenerate, ServeSuggest, ServeDismiss, CheckApply, CreateAction, MarkApplied
<1>4. faults' \in 0 .. MaxFaults
  BY <1>3, BoundsAssumption DEF Fault, TypeOK
<1> QED
  BY <1>1, <1>2, <1>4

\* Requests to regenerate and to suggest: only tasks are started.
LEMMA StartKeeps ==
    ASSUME Types, ReviewInv, ScreenInv, NEW s \in Slots,
           ServeRegenerate(s) \/ ServeSuggest(s), UNCHANGED asked
    PROVE  Types' /\ ReviewInv' /\ ScreenInv'
<1>1. PICK stage \in {"ok", "err"} : Step(s, stage)
  BY DEF ServeRegenerate, ServeSuggest
<1>2. job[s] # Idle /\ job[s].op \in {"regen", "suggest"} /\ job[s].stage = "sent"
  BY DEF ServeRegenerate, ServeSuggest, Sent
<1>3. /\ job' \in [Slots -> Jobs \cup {Idle}]
      /\ job'[s] # Idle
      /\ job'[s].op = job[s].op /\ job'[s].by = job[s].by /\ job'[s].row = job[s].row
      /\ job'[s].sug = job[s].sug /\ job'[s].barred = job[s].barred
      /\ job'[s].stage = stage
      /\ \A t \in Slots \ {s} : job'[t] = job[t]
  BY <1>1, <1>2, StepEffect DEF Types
<1>4. /\ UNCHANGED <<tab, panel, regenTimer, sugTimer, reads, asked>>
      /\ faults' \in 0 .. MaxFaults
  BY ServeTypes DEF Serve, Types
<1>5. UNCHANGED <<rows, sugs, executed, reviewed>>
  BY DEF ServeRegenerate, ServeSuggest
<1>6. triaging' \in 0 .. MaxTriage
  BY BoundsAssumption DEF ServeRegenerate, ServeSuggest, Types, TypeOK
<1>7. UNCHANGED task \/ \E t \in Tasks : task' = [task EXCEPT ![t] = [op |-> "asked"]]
  BY DEF ServeRegenerate, ServeSuggest
<1>8. [op |-> "asked"] \notin Loaded
  BY DEF Loaded
<1>9. task' \in [Tasks -> {Idle, [op |-> "asked"]} \cup Loaded] /\ TasksFit'
  BY <1>5, <1>7, <1>8 DEF Types, TypeOK, TasksFit, Latest
<1>10. Types'
  BY <1>3, <1>4, <1>5, <1>6, <1>9 DEF Types, TypeOK, ReadsType, Off
<1>11. ScreenInv'
  BY <1>2, <1>3, <1>4, ServingKeepsScreen DEF Serving
<1>12. ApplyingRight'
  BY <1>2, <1>3, <1>5 DEF ReviewInv, ApplyingRight, Applying, Latest
<1>13. RowsMarked' /\ MarkedRowWasActedOn' /\ ReviewedIsFinal'
  BY <1>5 DEF ReviewInv, RowsMarked, MarkedRowWasActedOn, ReviewedIsFinal, Latest
<1> QED
  BY <1>10, <1>11, <1>12, <1>13 DEF ReviewInv

\* The check of apply_suggestion: the suggestion is not reviewed now, so it was
\* not reviewed when the request was sent.
LEMMA CheckKeeps ==
    ASSUME Types, ReviewInv, ScreenInv, NEW s \in Slots, CheckApply(s), UNCHANGED asked
    PROVE  Types' /\ ReviewInv' /\ ScreenInv'
<1>2. job[s] # Idle /\ job[s].op = "apply" /\ job[s].stage = "sent"
  BY DEF CheckApply, Sent
<1>4. /\ UNCHANGED <<tab, panel, regenTimer, sugTimer, reads, asked>>
      /\ UNCHANGED <<rows, triaging, task, sugs, executed, reviewed, faults>>
  BY ServeTypes DEF Serve, Types, CheckApply, manager
<1>5. job[s] \in Jobs /\ job[s].barred \subseteq reviewed
  BY <1>2, JobType DEF Types, ReviewInv, ApplyingRight
<1>6. CASE MayApply /\ job' = [job EXCEPT ![s].stage = "acting", ![s].row = Latest,
                                          ![s].sug = rows[Latest].sug]
  <2>1. /\ Latest \in 1 .. Latest /\ Latest \in 1 .. MaxRows
        /\ rows[Latest].sug \in 1 .. sugs /\ rows[Latest].sug \in 0 .. MaxSug
        /\ rows[Latest].sug \notin reviewed
        /\ \A n \in 1 .. Latest : rows[n].sug = rows[Latest].sug => n = Latest
    <3>1. Latest \in 1 .. MaxRows /\ Latest \in 1 .. Latest /\ rows[Latest].sug > 0
      BY <1>6, RowsType, BoundsAssumption DEF Types, MayApply
    <3>2. rows[Latest].sug \in 0 .. MaxSug /\ sugs \in Nat
      BY <3>1, RowsType, BoundsAssumption DEF Types, Reviewable, TypeOK
    <3> QED
      BY <1>6, <3>1, <3>2, BoundsAssumption DEF MayApply, ReviewInv, RowsMarked
  <2> DEFINE j == [job[s] EXCEPT !.stage = "acting", !.row = Latest, !.sug = rows[Latest].sug]
  <2>2. /\ j \in Jobs /\ j.op = "apply" /\ j.by = job[s].by /\ j.stage = "acting"
        /\ j.row = Latest /\ j.sug = rows[Latest].sug /\ j.barred = job[s].barred
    <3>1. Latest \in 0 .. MaxRows
      BY <2>1
    <3>2. j \in Jobs
      BY <1>5, <2>1, <3>1 DEF Jobs
    <3>3. j.by = job[s].by /\ j.stage = "acting" /\ j.row = Latest
      BY <1>5 DEF Jobs
    <3>4. j.op = job[s].op /\ j.sug = rows[Latest].sug /\ j.barred = job[s].barred
      BY <1>5 DEF Jobs
    <3> QED
      BY <1>2, <3>2, <3>3, <3>4
  <2>3. job' = [job EXCEPT ![s] = j]
    BY <1>6 DEF Types, TypeOK
  <2> HIDE DEF j
  <2>4. /\ job' \in [Slots -> Jobs \cup {Idle}] /\ job'[s] = j
        /\ \A t \in Slots \ {s} : job'[t] = job[t]
    BY <2>2, <2>3 DEF Types, TypeOK
  <2>5. j # Idle
    BY <2>2, NotIdle
  <2>6. Types'
    BY <1>4, <2>4 DEF Types, TypeOK, ReadsType, TasksFit, Latest, Off
  <2>7. ScreenInv'
    BY <1>2, <1>4, <2>2, <2>4, <2>5, ServingKeepsScreen DEF Serving
  <2>8. ApplyingRight'
    BY <1>4, <1>5, <2>1, <2>2, <2>4 DEF ReviewInv, ApplyingRight, Applying, Latest
  <2>9. RowsMarked' /\ MarkedRowWasActedOn' /\ ReviewedIsFinal'
    BY <1>4 DEF ReviewInv, RowsMarked, MarkedRowWasActedOn, ReviewedIsFinal, Latest
  <2> QED
    BY <2>6, <2>7, <2>8, <2>9 DEF ReviewInv
<1>7. CASE Step(s, "err")
  <2>1. /\ job' \in [Slots -> Jobs \cup {Idle}]
        /\ job'[s] # Idle
        /\ job'[s].op = job[s].op /\ job'[s].by = job[s].by /\ job'[s].row = job[s].row
        /\ job'[s].sug = job[s].sug /\ job'[s].barred = job[s].barred
        /\ job'[s].stage = "err"
        /\ \A t \in Slots \ {s} : job'[t] = job[t]
    BY <1>2, <1>7, StepEffect DEF Types
  <2>2. Types'
    BY <1>4, <2>1 DEF Types, TypeOK, ReadsType, TasksFit, Latest, Off
  <2>3. ScreenInv'
    BY <1>2, <1>4, <2>1, ServingKeepsScreen DEF Serving
  <2>4. ReviewInv'
    BY <1>2, <1>4, <2>1, ScreenKeepsReview DEF SlotMoves, manager
  <2> QED
    BY <2>2, <2>3, <2>4
<1> QED
  BY <1>6, <1>7 DEF CheckApply

\* The action is created: its row can now be marked.
LEMMA CreateKeeps ==
    ASSUME Types, ReviewInv, ScreenInv, NEW s \in Slots, CreateAction(s), UNCHANGED asked
    PROVE  Types' /\ ReviewInv' /\ ScreenInv'
<1>2. Applying(s) /\ job[s].op = "apply" /\ job[s].stage = "acting" /\ job[s] # Idle
  BY DEF CreateAction, Answered, Applying
<1>4. /\ UNCHANGED <<tab, panel, regenTimer, sugTimer, reads, asked>>
      /\ UNCHANGED <<rows, triaging, task, sugs, reviewed, faults>>
  BY ServeTypes DEF Serve, Types, CreateAction
<1>5. job[s] \in Jobs
  BY <1>2, JobType DEF Types
<1>6. /\ job[s].row \in 1 .. Latest /\ job[s].sug \in 1 .. sugs
      /\ job[s].sug \notin job[s].barred
      /\ \A n \in 1 .. Latest : rows[n].sug = job[s].sug => n = job[s].row
  BY <1>2 DEF ReviewInv, ApplyingRight
<1> DEFINE e == [row |-> job[s].row, approved |-> job[s].seen = job[s].sug,
                 again |-> job[s].sug \in job[s].barred]
           j == [job[s] EXCEPT !.stage = "acted", !.seen = 0, !.barred = {}]
<1>7. /\ e \in [row : 1 .. MaxRows, approved : BOOLEAN, again : BOOLEAN]
      /\ e.row = job[s].row /\ ~e.again
  <2>1. job[s].row \in 1 .. MaxRows
    BY <1>6, RowsType, BoundsAssumption DEF Types
  <2>2. (job[s].seen = job[s].sug) \in BOOLEAN /\ (job[s].sug \in job[s].barred) = FALSE
    BY <1>6
  <2> QED
    BY <2>1, <2>2
<1>8. /\ j \in Jobs /\ j.op = "apply" /\ j.by = job[s].by /\ j.stage = "acted"
      /\ j.row = job[s].row /\ j.sug = job[s].sug /\ j.barred = {}
  <2>1. 0 \in 0 .. MaxSug /\ {} \in SUBSET (1 .. MaxSug)
    BY BoundsAssumption
  <2>2. j \in Jobs
    BY <1>5, <2>1 DEF Jobs
  <2>3. j.by = job[s].by /\ j.stage = "acted" /\ j.row = job[s].row
    BY <1>5 DEF Jobs
  <2>4. j.op = job[s].op /\ j.sug = job[s].sug /\ j.barred = {}
    BY <1>5 DEF Jobs
  <2> QED
    BY <1>2, <2>2, <2>3, <2>4
<1>9. executed' = executed \cup {e} /\ job' = [job EXCEPT ![s] = j]
  BY DEF CreateAction, Types, TypeOK
<1> HIDE DEF e, j
<1>10. /\ job' \in [Slots -> Jobs \cup {Idle}] /\ job'[s] = j
       /\ \A t \in Slots \ {s} : job'[t] = job[t]
  BY <1>8, <1>9 DEF Types, TypeOK
<1>11. j # Idle
  BY <1>8, NotIdle
<1>12. Types'
  BY <1>4, <1>7, <1>9, <1>10 DEF Types, TypeOK, ReadsType, TasksFit, Latest, Off
<1>13. ScreenInv'
  BY <1>2, <1>4, <1>8, <1>10, <1>11, ServingKeepsScreen DEF Serving
<1>14. ApplyingRight'
  <2>1. \A t \in Slots \ {s} : Applying(t)' <=> Applying(t)
    BY <1>10 DEF Applying
  <2>2. \A f \in executed : f \in executed'
    BY <1>9
  <2>3. e \in executed'
    BY <1>9
  <2> QED
    BY <1>4, <1>6, <1>7, <1>8, <1>10, <2>1, <2>2, <2>3 DEF ReviewInv, ApplyingRight, Latest
<1>15. RowsMarked' /\ MarkedRowWasActedOn' /\ ReviewedIsFinal'
  BY <1>4, <1>7, <1>9 DEF ReviewInv, RowsMarked, MarkedRowWasActedOn, ReviewedIsFinal, Latest
<1> QED
  BY <1>12, <1>13, <1>14, <1>15 DEF ReviewInv

\* A row is marked: the suggestions that count as reviewed from now on are in no
\* other row.
LEMMA MarkKeeps ==
    ASSUME Types, ReviewInv, ScreenInv, NEW s \in Slots, Serve(s),
           NEW stage \in {"ok", "err"}, Step(s, stage),
           NEW n \in 1 .. Latest, NEW r \in Reviewable, rows' = [rows EXCEPT ![n] = r],
           r.sug = rows[n].sug, r.applied \/ r.dismissed,
           r.applied => rows[n].applied \/ \E e \in executed : e.row = n,
           NEW x \in SUBSET (1 .. sugs), reviewed' = reviewed \cup x,
           \A m \in 1 .. Latest : rows[m].sug \in x => m = n,
           UNCHANGED <<triaging, task, sugs, executed>>
    PROVE  Types' /\ ReviewInv' /\ ScreenInv'
<1>1. /\ job[s] # Idle /\ job[s].stage # "fetching"
      /\ UNCHANGED <<tab, panel, regenTimer, sugTimer, reads, asked>>
      /\ faults' \in 0 .. MaxFaults
  BY ServeTypes DEF Types
<1>2. /\ job' \in [Slots -> Jobs \cup {Idle}]
      /\ job'[s] # Idle
      /\ job'[s].op = job[s].op /\ job'[s].by = job[s].by
      /\ job'[s].barred = job[s].barred /\ job'[s].stage = stage
      /\ \A t \in Slots \ {s} : job'[t] = job[t]
  BY <1>1, StepEffect DEF Types
<1>3. /\ rows' \in UNION {[1 .. m -> Reviewable] : m \in 0 .. MaxRows}
      /\ Latest' = Latest /\ rows'[n] = r
      /\ \A m \in 1 .. Latest : m # n => rows'[m] = rows[m]
  BY RowChanges DEF Types
<1>4. reviewed' \subseteq 1 .. MaxSug
  BY BoundsAssumption DEF Types, TypeOK
<1>5. Types'
  BY <1>1, <1>2, <1>3, <1>4 DEF Types, TypeOK, TasksFit, ReadsType, Off
<1>6. ScreenInv'
  BY <1>1, <1>2, ServingKeepsScreen DEF Serving
<1>7. \A m \in 1 .. Latest : rows'[m].sug = rows[m].sug
  BY <1>3
<1>8. RowsMarked'
  <2>1. reviewed' \subseteq 1 .. sugs
    BY DEF ReviewInv, RowsMarked
  <2>2. ASSUME NEW m \in 1 .. Latest, rows'[m].sug \in reviewed'
        PROVE  rows'[m].applied \/ rows'[m].dismissed
    <3>1. CASE m = n
      BY <1>3, <3>1
    <3>2. CASE m # n
      <4>1. rows[m].sug \notin x
        BY <3>2
      <4>2. rows[m].sug \in reviewed /\ rows'[m] = rows[m]
        BY <1>3, <2>2, <3>2, <4>1
      <4> QED
        BY <4>2 DEF ReviewInv, RowsMarked
    <3> QED
      BY <3>1, <3>2
  <2> QED
    BY <1>3, <1>7, <2>1, <2>2 DEF ReviewInv, RowsMarked
<1>9. MarkedRowWasActedOn' /\ ReviewedIsFinal'
  BY <1>3 DEF ReviewInv, MarkedRowWasActedOn, ReviewedIsFinal
<1>10. ApplyingRight'
  <2>1. \A t \in Slots : Applying(t)' => t # s /\ Applying(t) /\ job'[t] = job[t]
    BY <1>2 DEF Applying
  <2>2. \A t \in Slots : job'[t] # Idle => job[t] # Idle /\ job'[t].barred = job[t].barred
    BY <1>1, <1>2
  <2>3. reviewed \subseteq reviewed'
    OBVIOUS
  <2> QED
    BY <1>3, <1>7, <2>1, <2>2, <2>3 DEF ReviewInv, ApplyingRight
<1> QED
  BY <1>5, <1>6, <1>8, <1>9, <1>10 DEF ReviewInv

\* A request fails and leaves the tables alone.
LEMMA ErrKeeps ==
    ASSUME Types, ReviewInv, ScreenInv, NEW s \in Slots, Serve(s), Step(s, "err"),
           UNCHANGED manager
    PROVE  Types' /\ ReviewInv' /\ ScreenInv'
<1>1. /\ job[s] # Idle /\ job[s].stage # "fetching"
      /\ UNCHANGED <<tab, panel, regenTimer, sugTimer, reads, asked>>
      /\ faults' \in 0 .. MaxFaults
  BY ServeTypes DEF Types
<1>2. /\ job' \in [Slots -> Jobs \cup {Idle}]
      /\ job'[s] # Idle
      /\ job'[s].op = job[s].op /\ job'[s].by = job[s].by /\ job'[s].row = job[s].row
      /\ job'[s].sug = job[s].sug /\ job'[s].barred = job[s].barred
      /\ job'[s].stage = "err"
      /\ \A t \in Slots \ {s} : job'[t] = job[t]
  BY <1>1, StepEffect DEF Types
<1>3. Types'
  BY <1>1, <1>2 DEF Types, TypeOK, ReadsType, TasksFit, Latest, Off, manager
<1>4. ScreenInv'
  BY <1>1, <1>2, ServingKeepsScreen DEF Serving
<1>5. ReviewInv'
  BY <1>1, <1>2, ScreenKeepsReview DEF SlotMoves
<1> QED
  BY <1>3, <1>4, <1>5

\* The second commit of apply_suggestion: the row has its action by now.
LEMMA MarkAppliedKeeps ==
    ASSUME Types, ReviewInv, ScreenInv, NEW s \in Slots, MarkApplied(s), UNCHANGED asked
    PROVE  Types' /\ ReviewInv' /\ ScreenInv'
<1>1. Serve(s) /\ Applying(s) /\ job[s].stage = "acted"
  BY DEF Serve, MarkApplied, Answered, Applying
<1>2. UNCHANGED <<triaging, task, sugs, executed>>
  BY DEF MarkApplied
<1>3. CASE Step(s, "err") /\ UNCHANGED <<rows, reviewed>>
  BY <1>1, <1>2, <1>3, ErrKeeps DEF manager
<1>4. CASE ~(Step(s, "err") /\ UNCHANGED <<rows, reviewed>>)
  <2> DEFINE n == job[s].row
             r == [rows[n] EXCEPT !.applied = TRUE]
  <2>1. PICK stage \in {"ok", "err"} : Step(s, stage)
    BY <1>4 DEF MarkApplied
  <2>2. /\ n \in 1 .. Latest /\ job[s].sug \in 1 .. sugs
        /\ \E e \in executed : e.row = n
        /\ \A m \in 1 .. Latest : rows[m].sug = job[s].sug => m = n
    BY <1>1 DEF ReviewInv, ApplyingRight
  <2>3. rows[n] \in Reviewable
    BY <2>2, RowsType DEF Types
  <2>4. r \in Reviewable /\ r.sug = rows[n].sug /\ r.applied = TRUE
    BY <2>3 DEF Reviewable
  <2>5. rows' = [rows EXCEPT ![n] = r] /\ reviewed' = reviewed \cup {job[s].sug}
    BY <1>4 DEF MarkApplied
  <2> HIDE DEF n, r
  <2>6. {job[s].sug} \in SUBSET (1 .. sugs)
    BY <2>2
  <2>7. \A m \in 1 .. Latest : rows[m].sug \in {job[s].sug} => m = n
    BY <2>2
  <2> QED
    BY <1>1, <1>2, <2>1, <2>2, <2>4, <2>5, <2>6, <2>7, MarkKeeps
<1> QED
  BY <1>3, <1>4

LEMMA DismissKeeps ==
    ASSUME Types, ReviewInv, ScreenInv, NEW s \in Slots, ServeDismiss(s), UNCHANGED asked
    PROVE  Types' /\ ReviewInv' /\ ScreenInv'
<1>1. Serve(s)
  BY DEF Serve
<1>2. UNCHANGED <<triaging, task, sugs, executed>>
  BY DEF ServeDismiss
<1>3. CASE Step(s, "err") /\ UNCHANGED <<rows, reviewed>>
  BY <1>1, <1>2, <1>3, ErrKeeps DEF manager
<1>4. CASE ~(Step(s, "err") /\ UNCHANGED <<rows, reviewed>>)
  <2> DEFINE n == Latest
             r == [rows[n] EXCEPT !.dismissed = TRUE]
             x == {rows[n].sug} \ {0}
  <2>1. PICK stage \in {"ok", "err"} : Step(s, stage)
    BY <1>4 DEF ServeDismiss
  <2>2. n \in 1 .. Latest /\ rows[n] \in Reviewable
    BY <1>4, RowsType, BoundsAssumption DEF ServeDismiss, Types
  <2>3. r \in Reviewable /\ r.sug = rows[n].sug /\ r.applied = rows[n].applied
        /\ r.dismissed = TRUE
    BY <2>2 DEF Reviewable
  <2>4. rows' = [rows EXCEPT ![n] = r] /\ reviewed' = reviewed \cup x
    BY <1>4 DEF ServeDismiss
  <2>5. x \in SUBSET (1 .. sugs)
    <3>1. rows[n].sug \in 0 .. sugs /\ sugs \in Nat
      BY <2>2, BoundsAssumption DEF ReviewInv, RowsMarked, Types, TypeOK
    <3> QED
      BY <3>1
  <2>6. ASSUME NEW m \in 1 .. Latest, rows[m].sug \in x PROVE m = n
    <3>1. rows[m].sug = rows[n].sug /\ rows[n].sug \in 0 .. sugs /\ rows[n].sug # 0
          /\ sugs \in Nat
      BY <2>2, <2>6, BoundsAssumption DEF ReviewInv, RowsMarked, Types, TypeOK
    <3> QED
      BY <2>2, <3>1 DEF ReviewInv, RowsMarked
  <2> HIDE DEF n, r, x
  <2> QED
    BY <1>1, <1>2, <2>1, <2>2, <2>3, <2>4, <2>5, <2>6, MarkKeeps
<1> QED
  BY <1>3, <1>4

LEMMA ServeKeeps ==
    ASSUME Types, ReviewInv, ScreenInv, NEW s \in Slots, Serve(s)
    PROVE  Types' /\ ReviewInv' /\ ScreenInv'
BY StartKeeps, CheckKeeps, CreateKeeps, MarkAppliedKeeps, DismissKeeps DEF Serve

-----------------------------------------------------------------------------
(* The screen *)

Tabs == [open : BOOLEAN, analysis : Triages, loading : BOOLEAN, regenerating : BOOLEAN,
         refreshing : BOOLEAN, base : 0 .. MaxRows]
Panels == [analysis : Proposals, loading : BOOLEAN, suggesting : BOOLEAN, dismissOpen : BOOLEAN]

\* A request of the screen in front, among the requests js.
RunIn(js, op) == \E s \in Slots : js[s] # Idle /\ js[s].op = op /\ js[s].by = "here"

\* What a step of the screen leaves alone, and the types of what it changes.
Still == /\ UNCHANGED manager
         /\ tab' \in Tabs /\ panel' \in Panels
         /\ regenTimer' \in 0 .. Off /\ sugTimer' \in 0 .. Off
         /\ asked' \in 0 .. MaxRequests /\ faults' \in 0 .. MaxFaults

LEMMA ScreenTypes ==
    ASSUME TypeOK
    PROVE  /\ tab \in Tabs /\ panel \in Panels
           /\ regenTimer \in 0 .. Off /\ sugTimer \in 0 .. Off
           /\ asked \in 0 .. MaxRequests /\ faults \in 0 .. MaxFaults
           /\ Off \in Nat /\ 0 < Off
BY BoundsAssumption DEF TypeOK, Tabs, Panels, Off

\* Faults and requests are counted up to their bounds.
LEMMA Counted ==
    ASSUME TypeOK
    PROVE  /\ Fault => faults' \in 0 .. MaxFaults
           /\ asked < MaxRequests /\ asked' = asked + 1 => asked' \in 0 .. MaxRequests
BY BoundsAssumption DEF Fault, TypeOK

LEMMA StepKeeps ==
    ASSUME Types, ReviewInv, Still, ReadsType', AwaitedIn(job, reads)', SpinnersMeanWork',
           job' \in [Slots -> Jobs \cup {Idle}], \A s \in Slots : SlotMoves(job[s], job'[s])
    PROVE  Types' /\ ReviewInv' /\ ScreenInv'
<1>1. TypeOK'
  BY DEF Types, Still, TypeOK, manager, Tabs, Panels, Off
<1>2. TasksFit'
  BY DEF Types, Still, TasksFit, manager, Latest
<1>3. ReviewInv'
  BY ScreenKeepsReview DEF Still
<1> QED
  BY <1>1, <1>2, <1>3 DEF Types, ScreenInv

LEMMA AwaitedFewer ==
    ASSUME NEW js, NEW rs, NEW qs, AwaitedIn(js, rs), \A r \in qs : r \in rs \/ r.by # "review"
    PROVE  AwaitedIn(js, qs)
BY DEF AwaitedIn

\* A new request.
LEMMA NewMoves ==
    ASSUME Types, NEW s \in Slots, job[s] = Idle, NEW op \in Ops, NEW seen \in 0 .. MaxSug,
           NEW by \in {"here", "elsewhere"}, AwaitedIn(job, reads)
    PROVE  /\ New(s, op, seen, by) \in [Slots -> Jobs \cup {Idle}]
           /\ \A t \in Slots : SlotMoves(job[t], New(s, op, seen, by)[t])
           /\ AwaitedIn(New(s, op, seen, by), reads)
           /\ by = "here" => RunIn(New(s, op, seen, by), op)
           /\ \A o : RunIn(job, o) => RunIn(New(s, op, seen, by), o)
<1> DEFINE js == New(s, op, seen, by)
<1>1. /\ js \in [Slots -> Jobs \cup {Idle}] /\ js[s] # Idle
      /\ js[s].op = op /\ js[s].by = by /\ js[s].stage = "sent" /\ js[s].barred \subseteq reviewed
      /\ \A t \in Slots \ {s} : js[t] = job[t]
  BY NewEffect DEF Types
<1> HIDE DEF js
<1>2. \A t \in Slots : SlotMoves(job[t], js[t])
  BY <1>1 DEF SlotMoves
<1>3. AwaitedIn(js, reads)
  BY <1>1 DEF AwaitedIn
<1>4. by = "here" => RunIn(js, op)
  BY <1>1 DEF RunIn
<1>5. \A o : RunIn(job, o) => RunIn(js, o)
  BY <1>1 DEF RunIn
<1> QED
  BY <1>1, <1>2, <1>3, <1>4, <1>5 DEF js

\* The end of a request that has been answered.
LEMMA EndMoves ==
    ASSUME Types, NEW s \in Slots, job[s] # Idle, job[s].stage # "fetching",
           AwaitedIn(job, reads)
    PROVE  LET js == [job EXCEPT ![s] = Idle]
           IN  /\ js \in [Slots -> Jobs \cup {Idle}]
               /\ \A t \in Slots : SlotMoves(job[t], js[t])
               /\ AwaitedIn(js, reads)
               /\ \A o : RunIn(job, o) /\ (o = job[s].op => job[s].by # "here") => RunIn(js, o)
<1> DEFINE js == [job EXCEPT ![s] = Idle]
<1>1. js \in [Slots -> Jobs \cup {Idle}] /\ js[s] = Idle /\ \A t \in Slots \ {s} : js[t] = job[t]
  BY EndEffect DEF Types
<1> HIDE DEF js
<1>2. \A t \in Slots : SlotMoves(job[t], js[t])
  BY <1>1 DEF SlotMoves
<1>3. AwaitedIn(js, reads)
  BY <1>1 DEF AwaitedIn
<1>4. \A o : RunIn(job, o) /\ (o = job[s].op => job[s].by # "here") => RunIn(js, o)
  BY <1>1 DEF RunIn
<1> QED
  BY <1>1, <1>2, <1>3, <1>4 DEF js

\* The tab is rendered anew: a panel that is unmounted takes its spinner, its
\* timer and its listings along.
LEMMA RenderKeeps ==
    ASSUME Types, ReviewInv, SpinnersMeanWork, UNCHANGED manager,
           NEW t \in Tabs, NEW rs \in SUBSET Listings,
           NEW js \in [Slots -> Jobs \cup {Idle}], Render(t, rs, js),
           regenTimer' \in 0 .. Off,
           asked' \in 0 .. MaxRequests, faults' \in 0 .. MaxFaults,
           \A s \in Slots : SlotMoves(job[s], js[s]),
           t.regenerating => RunIn(js, "regen") \/ regenTimer' # Off,
           HasPanel(t) => AwaitedIn(js, rs),
           HasPanel(t) => (RunIn(job, "suggest") => RunIn(js, "suggest"))
    PROVE  Types' /\ ReviewInv' /\ ScreenInv'
<1>1. /\ tab \in Tabs /\ panel \in Panels /\ sugTimer \in 0 .. Off /\ Off \in 0 .. Off
      /\ NoPanel \in Panels /\ NoPanel.suggesting = FALSE
      /\ [NoPanel EXCEPT !.loading = TRUE] \in Panels
      /\ [NoPanel EXCEPT !.loading = TRUE].suggesting = FALSE
  <2>1. NoPanel \in Panels
    BY ListingType DEF Types, NoPanel, Panels
  <2>2. [NoPanel EXCEPT !.loading = TRUE] \in Panels
    BY <2>1 DEF Panels
  <2> QED
    BY <2>1, <2>2, ScreenTypes DEF Types, NoPanel
<1>2. Read("panel", 0) \in Listings /\ Read("panel", 0).by = "panel"
  BY ReadFits DEF Types, ByPanel
<1>3. tab' = t
  BY DEF Render
<1>4. CASE HasPanel(t)
  <2>1. job' = js
    BY <1>4 DEF Render
  <2>2. /\ panel' \in Panels /\ sugTimer' \in 0 .. Off
        /\ panel'.suggesting => panel' = panel /\ sugTimer' = sugTimer
        /\ reads' \subseteq rs \cup {Read("panel", 0)}
    <3>1. CASE HasPanel(tab)
      BY <1>1, <1>4, <3>1 DEF Render
    <3>2. CASE ~HasPanel(tab)
      BY <1>1, <1>4, <3>2 DEF Render
    <3> QED
      BY <3>1, <3>2
  <2>3. AwaitedIn(js, rs)
    BY <1>4
  <2>4. AwaitedIn(job, reads)'
    <3>1. \A r \in reads' : r \in rs \/ r.by # "review"
      BY <1>2, <2>2
    <3> QED
      BY <2>1, <2>3, <3>1 DEF AwaitedIn
  <2>5. SpinnersMeanWork'
    <3>1. tab'.regenerating => Running("regen")' \/ regenTimer' # Off
      BY <1>3, <2>1 DEF RunIn, Running
    <3>2. panel'.suggesting => Running("suggest")' \/ sugTimer' # Off
      BY <1>4, <2>1, <2>2 DEF RunIn, Running, SpinnersMeanWork
    <3> QED
      BY <3>1, <3>2 DEF SpinnersMeanWork
  <2>6. ReadsType'
    BY <1>2, <2>2 DEF ReadsType
  <2> QED
    BY <1>3, <2>1, <2>2, <2>4, <2>5, <2>6, StepKeeps DEF Still
<1>5. CASE ~HasPanel(t)
  <2>1. /\ reads' \subseteq rs /\ \A r \in reads' : r.by \notin ByPanel
        /\ panel' = NoPanel /\ sugTimer' = Off
    BY <1>5 DEF Render
  <2>2. ASSUME NEW s \in Slots
        PROVE  /\ job'[s] \in Jobs \cup {Idle}
               /\ job'[s] = js[s] \/ job'[s] = Idle
                    \/ /\ js[s] # Idle /\ job'[s] # Idle
                       /\ job'[s].op = js[s].op /\ job'[s].row = js[s].row
                       /\ job'[s].sug = js[s].sug /\ job'[s].barred = js[s].barred
                       /\ job'[s].stage = js[s].stage
               /\ js[s] # Idle /\ js[s].op = "regen" => job'[s] = js[s]
    <3>1. job'[s] = IF js[s] = Idle THEN Idle
                    ELSE IF js[s].op \in {"suggest", "apply", "dismiss"}
                    THEN IF js[s].stage = "fetching" THEN Idle
                         ELSE [js[s] EXCEPT !.by = Leave(@)]
                    ELSE js[s]
      BY <1>5 DEF Render
    <3>2. CASE job'[s] = js[s] \/ job'[s] = Idle
      BY <3>1, <3>2
    <3>3. CASE ~(job'[s] = js[s] \/ job'[s] = Idle)
      <4>1. js[s] \in Jobs /\ js[s] # Idle /\ job'[s] = [js[s] EXCEPT !.by = Leave(@)]
            /\ js[s].op # "regen"
        BY <3>1, <3>3
      <4>2. Leave(js[s].by) \in {"here", "left", "elsewhere"}
        BY <4>1 DEF Leave, Jobs
      <4>3. [js[s] EXCEPT !.by = Leave(@)] \in Jobs
        BY <4>1, <4>2 DEF Jobs
      <4>4. /\ job'[s].op = js[s].op /\ job'[s].row = js[s].row
            /\ job'[s].sug = js[s].sug
        BY <4>1 DEF Jobs
      <4>5. job'[s].barred = js[s].barred /\ job'[s].stage = js[s].stage
        BY <4>1 DEF Jobs
      <4> QED
        BY <4>1, <4>3, <4>4, <4>5, NotIdle
    <3> QED
      BY <3>2, <3>3
  <2>3. job' \in [Slots -> Jobs \cup {Idle}]
    <3>1. \E f : job' = [s \in Slots |-> f[s]]
      BY <1>5 DEF Render
    <3> QED
      BY <2>2, <3>1
  <2>4. \A s \in Slots : SlotMoves(job[s], job'[s])
    BY <2>2 DEF SlotMoves
  <2>5. SpinnersMeanWork'
    <3>1. RunIn(js, "regen") => Running("regen")'
      BY <2>2 DEF RunIn, Running
    <3> QED
      BY <1>1, <1>3, <2>1, <3>1 DEF SpinnersMeanWork
  <2>6. AwaitedIn(job, reads)' /\ ReadsType'
    BY <2>1 DEF AwaitedIn, ReadsType, ByPanel
  <2> QED
    BY <1>1, <1>3, <2>1, <2>3, <2>4, <2>5, <2>6, StepKeeps DEF Still
<1> QED
  BY <1>4, <1>5

LEMMA SameMoves ==
    ASSUME Types
    PROVE  job \in [Slots -> Jobs \cup {Idle}] /\ \A s \in Slots : SlotMoves(job[s], job[s])
BY DEF Types, TypeOK, SlotMoves

LEMMA OpenKeeps ==
    ASSUME Types, ReviewInv, ScreenInv, Open, UNCHANGED asked
    PROVE  Types' /\ ReviewInv' /\ ScreenInv'
<1> DEFINE t == [NoTab EXCEPT !.open = TRUE, !.loading = TRUE]
<1>0. NoTab \in Tabs
  BY ListingType, BoundsAssumption DEF Types, NoTab, Tabs
<1>1. t \in Tabs /\ t.regenerating = FALSE /\ ~HasPanel(t)
  <2>1. t \in Tabs
    BY <1>0 DEF Tabs
  <2>2. t.regenerating = NoTab.regenerating /\ t.loading = TRUE
    BY <1>0 DEF Tabs
  <2> QED
    BY <2>1, <2>2 DEF NoTab, HasPanel
<1>2. Render(t, {Read("tab", 0)}, job) /\ UNCHANGED <<manager, regenTimer, faults>>
  BY DEF Open
<1> HIDE DEF t
<1>3. {Read("tab", 0)} \in SUBSET Listings
  BY ReadFits DEF Types
<1> QED
  BY <1>1, <1>2, <1>3, RenderKeeps, ScreenTypes, SameMoves DEF Types, ScreenInv

LEMMA CloseKeeps ==
    ASSUME Types, ReviewInv, ScreenInv, Close, UNCHANGED asked
    PROVE  Types' /\ ReviewInv' /\ ScreenInv'
<1> DEFINE js == [s \in Slots |-> IF job[s] = Idle THEN Idle
                                  ELSE [job[s] EXCEPT !.by = "elsewhere"]]
<1>1. NoTab \in Tabs /\ NoTab.regenerating = FALSE /\ ~HasPanel(NoTab)
  BY ListingType, BoundsAssumption DEF Types, NoTab, Tabs, HasPanel
<1>2. Render(NoTab, {}, js) /\ regenTimer' = Off /\ UNCHANGED <<manager, faults>>
  BY DEF Close
<1>3. ASSUME NEW s \in Slots
      PROVE  js[s] \in Jobs \cup {Idle} /\ SlotMoves(job[s], js[s])
  <2>1. CASE job[s] = Idle
    BY <2>1 DEF SlotMoves
  <2>2. CASE job[s] # Idle
    <3> DEFINE k == [job[s] EXCEPT !.by = "elsewhere"]
    <3>1. job[s] \in Jobs
      BY <2>2, JobType DEF Types
    <3>2. k \in Jobs
      BY <3>1 DEF Jobs
    <3>3. k.op = job[s].op /\ k.row = job[s].row /\ k.sug = job[s].sug
      BY <3>1 DEF Jobs
    <3>4. k.barred = job[s].barred /\ k.stage = job[s].stage
      BY <3>1 DEF Jobs
    <3>5. js[s] = k
      BY <2>2
    <3> HIDE DEF k, js
    <3> QED
      BY <2>2, <3>2, <3>3, <3>4, <3>5, NotIdle DEF SlotMoves
  <2> QED
    BY <2>1, <2>2
<1>4. js \in [Slots -> Jobs \cup {Idle}]
  BY <1>3
<1> HIDE DEF js
<1> QED
  BY <1>1, <1>2, <1>3, <1>4, RenderKeeps, ScreenTypes DEF Types, ScreenInv

\* The answers the tab waits for.
LEMMA ListingFits ==
    ASSUME Types, NEW r \in reads
    PROVE  /\ r.by \in {"tab", "regen"} => r.data \in Triages
           /\ r.by \in ByPanel => r.data \in Proposals
           /\ r.base \in Nat
           /\ reads \ {r} \in SUBSET Listings /\ reads \in SUBSET Listings
           /\ ScreenInv => AwaitedIn(job, reads \ {r})
<1>1. ScreenInv => AwaitedIn(job, reads \ {r})
  BY AwaitedFewer DEF ScreenInv
<1> QED
  BY <1>1 DEF Types, ReadsType, Listings, ByPanel

LEMMA TabLoadedKeeps ==
    ASSUME Types, ReviewInv, ScreenInv, NEW r \in reads, TabLoaded(r), UNCHANGED asked
    PROVE  Types' /\ ReviewInv' /\ ScreenInv'
<1>1. UNCHANGED manager /\ UNCHANGED regenTimer /\ r.by = "tab"
  BY DEF TabLoaded
<1>2. faults' \in 0 .. MaxFaults
  BY ScreenTypes, Counted DEF TabLoaded, Types
<1>3. PICK a \in Triages :
         Render([tab EXCEPT !.analysis = a, !.loading = FALSE], reads \ {r}, job)
  <2>1. CASE Render([tab EXCEPT !.analysis = r.data, !.loading = FALSE], reads \ {r}, job)
    BY <1>1, <2>1, ListingFits
  <2>2. CASE Render([tab EXCEPT !.loading = FALSE], reads \ {r}, job)
    <3>1. tab \in Tabs
      BY ScreenTypes DEF Types
    <3>2. tab.analysis \in Triages
          /\ [tab EXCEPT !.loading = FALSE]
               = [tab EXCEPT !.analysis = tab.analysis, !.loading = FALSE]
      BY <3>1 DEF Tabs
    <3> QED
      BY <2>2, <3>2
  <2> QED
    BY <2>1, <2>2 DEF TabLoaded
<1> DEFINE t == [tab EXCEPT !.analysis = a, !.loading = FALSE]
<1>4. t \in Tabs /\ t.regenerating = tab.regenerating
  BY ScreenTypes DEF Types, Tabs
<1>5. tab.regenerating => RunIn(job, "regen") \/ regenTimer # Off
  BY DEF ScreenInv, SpinnersMeanWork, Running, RunIn
<1>6. Render(t, reads \ {r}, job)
  BY <1>3
<1> HIDE DEF t
<1> QED
  BY <1>1, <1>2, <1>4, <1>5, <1>6, ListingFits, RenderKeeps, ScreenTypes, SameMoves
     DEF Types, ScreenInv

LEMMA TabRefreshedKeeps ==
    ASSUME Types, ReviewInv, ScreenInv, TabRefreshed, UNCHANGED asked
    PROVE  Types' /\ ReviewInv' /\ ScreenInv'
<1>1. UNCHANGED manager /\ UNCHANGED regenTimer
  BY DEF TabRefreshed
<1>2. faults' \in 0 .. MaxFaults
  BY ScreenTypes, Counted DEF TabRefreshed, Types
<1>0. tab \in Tabs
  BY ScreenTypes DEF Types
<1>3. PICK a \in Triages :
         Render([tab EXCEPT !.refreshing = FALSE, !.analysis = a], reads, job)
  <2>1. tab.analysis \in Triages /\ Triage \in Triages
    BY <1>0, ListingType DEF Tabs, Types
  <2> QED
    BY <2>1 DEF TabRefreshed
<1> DEFINE t == [tab EXCEPT !.refreshing = FALSE, !.analysis = a]
<1>4. t \in Tabs /\ t.regenerating = tab.regenerating
  BY <1>0 DEF Tabs
<1>5. tab.regenerating => RunIn(job, "regen") \/ regenTimer # Off
  BY DEF ScreenInv, SpinnersMeanWork, Running, RunIn
<1>6. Render(t, reads, job)
  BY <1>3
<1>7. reads \in SUBSET Listings
  BY DEF Types, ReadsType
<1> HIDE DEF t
<1> QED
  BY <1>1, <1>2, <1>4, <1>5, <1>6, <1>7, RenderKeeps, ScreenTypes, SameMoves
     DEF Types, ScreenInv

LEMMA RetryKeeps ==
    ASSUME Types, ReviewInv, ScreenInv, Retry, UNCHANGED asked
    PROVE  Types' /\ ReviewInv' /\ ScreenInv'
<1> DEFINE t == [tab EXCEPT !.loading = TRUE]
<1>1. Render(t, reads \cup {Read("tab", 0)}, job) /\ UNCHANGED <<manager, regenTimer, faults>>
      /\ ~tab.regenerating
  BY DEF Retry
<1>2. tab \in Tabs
  BY ScreenTypes DEF Types
<1>3. t \in Tabs /\ t.regenerating = tab.regenerating /\ t.loading
  BY <1>2 DEF Tabs
<1>4. reads \cup {Read("tab", 0)} \in SUBSET Listings
  BY ReadFits DEF Types, ReadsType
<1>5. ~HasPanel(t)
  BY <1>3 DEF HasPanel
<1> HIDE DEF t
<1> QED
  BY <1>1, <1>3, <1>4, <1>5, RenderKeeps, ScreenTypes, SameMoves DEF Types, ScreenInv

LEMMA RegenerateKeeps ==
    ASSUME Types, ReviewInv, ScreenInv, NEW s \in Slots, Regenerate(s),
           asked' \in 0 .. MaxRequests
    PROVE  Types' /\ ReviewInv' /\ ScreenInv'
<1> DEFINE t == [tab EXCEPT !.regenerating = TRUE, !.base = Latest]
           js == New(s, "regen", 0, "here")
<1>1. /\ Render(t, reads, js) /\ regenTimer' = Off /\ UNCHANGED <<manager, faults>>
      /\ job[s] = Idle
  BY DEF Regenerate, Free
<1>2. tab \in Tabs /\ Latest \in 0 .. MaxRows
  BY ScreenTypes, RowsType DEF Types
<1>3. t \in Tabs /\ t.regenerating = TRUE
  BY <1>2 DEF Tabs
<1>4. ~HasPanel(t)
  BY <1>3 DEF HasPanel
<1>5. reads \in SUBSET Listings /\ 0 \in 0 .. MaxSug
  BY BoundsAssumption DEF Types, ReadsType
<1>6. /\ js \in [Slots -> Jobs \cup {Idle}] /\ \A u \in Slots : SlotMoves(job[u], js[u])
      /\ RunIn(js, "regen")
  BY <1>1, <1>5, NewMoves DEF ScreenInv, Ops
<1> HIDE DEF t, js
<1> QED
  BY <1>1, <1>3, <1>4, <1>5, <1>6, RenderKeeps, ScreenTypes DEF Types, ScreenInv

LEMMA RegenerateAnsweredKeeps ==
    ASSUME Types, ReviewInv, ScreenInv, NEW s \in Slots, RegenerateAnswered(s), UNCHANGED asked
    PROVE  Types' /\ ReviewInv' /\ ScreenInv'
<1> DEFINE js == [job EXCEPT ![s] = Idle]
<1>1. /\ job[s] # Idle /\ job[s].op = "regen" /\ job[s].stage # "fetching"
      /\ UNCHANGED <<manager, faults>>
  BY DEF RegenerateAnswered, Answered
<1>2. /\ js \in [Slots -> Jobs \cup {Idle}] /\ \A u \in Slots : SlotMoves(job[u], js[u])
      /\ AwaitedIn(js, reads)
      /\ RunIn(job, "suggest") => RunIn(js, "suggest")
  BY <1>1, EndMoves DEF ScreenInv
<1>3. reads \in SUBSET Listings
  BY DEF Types, ReadsType
<1>4. CASE job[s].stage = "ok"
  <2>1. regenTimer' = 0 /\ job' = js /\ UNCHANGED <<tab, panel, sugTimer, reads>>
    BY <1>4 DEF RegenerateAnswered
  <2> HIDE DEF js
  <2>2. regenTimer' # Off /\ regenTimer' \in 0 .. Off
    BY <2>1, ScreenTypes DEF Types
  <2>3. SpinnersMeanWork'
    BY <1>2, <2>1, <2>2 DEF ScreenInv, SpinnersMeanWork, Running, RunIn
  <2> QED
    BY <1>1, <1>2, <2>1, <2>2, <2>3, StepKeeps, ScreenTypes DEF Still, Types, ReadsType
<1>5. CASE job[s].stage # "ok"
  <2> DEFINE t == [tab EXCEPT !.regenerating = FALSE]
  <2>1. Render(t, reads, js) /\ UNCHANGED regenTimer
    BY <1>5 DEF RegenerateAnswered
  <2>2. t \in Tabs /\ t.regenerating = FALSE
    BY ScreenTypes DEF Tabs, Types
  <2> HIDE DEF t, js
  <2> QED
    BY <1>1, <1>2, <1>3, <2>1, <2>2, RenderKeeps, ScreenTypes DEF Types, ScreenInv
<1> QED
  BY <1>4, <1>5

LEMMA RegenTickKeeps ==
    ASSUME Types, ReviewInv, ScreenInv, RegenTick, UNCHANGED asked
    PROVE  Types' /\ ReviewInv' /\ ScreenInv'
<1>1. /\ regenTimer < MaxAttempts /\ regenTimer' = regenTimer + 1
      /\ reads' = reads \cup {Read("regen", tab.base)}
      /\ UNCHANGED <<manager, job, tab, panel, sugTimer, faults>>
  BY DEF RegenTick
<1>2. regenTimer' \in 0 .. Off /\ regenTimer' # Off
  BY <1>1, ScreenTypes, BoundsAssumption DEF Types, Off
<1>3. tab.base \in Nat
  BY ScreenTypes, BoundsAssumption DEF Types, Tabs
<1>4. Read("regen", tab.base) \in Listings /\ Read("regen", tab.base).by = "regen"
  BY <1>3, ReadFits DEF Types
<1>5. ReadsType'
  BY <1>1, <1>4 DEF Types, ReadsType
<1>6. AwaitedIn(job, reads')
  BY <1>1, <1>4, AwaitedFewer DEF ScreenInv
<1>7. SpinnersMeanWork'
  BY <1>1, <1>2 DEF ScreenInv, SpinnersMeanWork, Running
<1> QED
  BY <1>1, <1>2, <1>5, <1>6, <1>7, StepKeeps, ScreenTypes, SameMoves DEF Still, Types

LEMMA RegenTimeoutKeeps ==
    ASSUME Types, ReviewInv, ScreenInv, RegenTimeout, UNCHANGED asked
    PROVE  Types' /\ ReviewInv' /\ ScreenInv'
<1> DEFINE t == [tab EXCEPT !.regenerating = FALSE]
<1>1. regenTimer' = Off /\ Render(t, reads, job) /\ UNCHANGED <<manager, faults>>
  BY DEF RegenTimeout
<1>2. t \in Tabs /\ t.regenerating = FALSE
  BY ScreenTypes DEF Tabs, Types
<1>3. reads \in SUBSET Listings
  BY DEF Types, ReadsType
<1> HIDE DEF t
<1> QED
  BY <1>1, <1>2, <1>3, RenderKeeps, ScreenTypes, SameMoves DEF Types, ScreenInv

LEMMA RegenPolledKeeps ==
    ASSUME Types, ReviewInv, ScreenInv, NEW r \in reads, RegenPolled(r), UNCHANGED asked
    PROVE  Types' /\ ReviewInv' /\ ScreenInv'
<1>1. UNCHANGED manager /\ r.by = "regen"
  BY DEF RegenPolled
<1>2. faults' \in 0 .. MaxFaults
  BY ScreenTypes, Counted DEF RegenPolled, Types
<1> DEFINE t == [tab EXCEPT !.analysis = r.data, !.regenerating = FALSE]
<1>3. CASE regenTimer' = Off /\ Render(t, reads \ {r}, job)
  <2>1. tab \in Tabs /\ r.data \in Triages
    BY <1>1, ScreenTypes, ListingFits DEF Types
  <2>2. t \in Tabs /\ t.regenerating = FALSE
    BY <2>1 DEF Tabs
  <2> HIDE DEF t
  <2> QED
    BY <1>1, <1>2, <1>3, <2>2, ListingFits, RenderKeeps, ScreenTypes, SameMoves
       DEF Types, ScreenInv
<1>4. CASE reads' = reads \ {r} /\ UNCHANGED <<job, tab, panel, timers>>
  <2>1. AwaitedIn(job, reads)' /\ ReadsType'
    BY <1>4, ListingFits DEF ReadsType
  <2>2. SpinnersMeanWork'
    BY <1>4 DEF ScreenInv, SpinnersMeanWork, Running, timers
  <2> QED
    BY <1>1, <1>2, <1>4, <2>1, <2>2, StepKeeps, ScreenTypes, SameMoves
       DEF Still, Types, timers
<1> QED
  BY <1>3, <1>4 DEF RegenPolled

-----------------------------------------------------------------------------
(* The panel *)

LEMMA PanelLoadedKeeps ==
    ASSUME Types, ReviewInv, ScreenInv, NEW r \in reads, PanelLoaded(r), UNCHANGED asked
    PROVE  Types' /\ ReviewInv' /\ ScreenInv'
<1>1. /\ UNCHANGED <<manager, job, tab, timers>> /\ reads' = reads \ {r} /\ r.by \in ByPanel
  BY DEF PanelLoaded, ByPanel
<1>2. PICK a \in Proposals : panel' = [panel EXCEPT !.analysis = a, !.loading = FALSE]
                             /\ PanelCopy(r, a)
  BY <1>1, ListingFits, ListingType DEF PanelLoaded, Types
<1>3. panel' \in Panels /\ panel'.suggesting = panel.suggesting
  BY <1>2, ScreenTypes DEF Types, Panels
<1>4. faults' \in 0 .. MaxFaults
  BY <1>2, ScreenTypes, Counted DEF PanelCopy, Types
<1>5. AwaitedIn(job, reads)' /\ ReadsType'
  BY <1>1, ListingFits DEF ReadsType
<1>6. SpinnersMeanWork'
  BY <1>1, <1>3 DEF ScreenInv, SpinnersMeanWork, Running, timers
<1> QED
  BY <1>1, <1>3, <1>4, <1>5, <1>6, StepKeeps, ScreenTypes, SameMoves DEF Still, Types, timers

LEMMA SuggestKeeps ==
    ASSUME Types, ReviewInv, ScreenInv, NEW s \in Slots, Suggest(s),
           asked' \in 0 .. MaxRequests
    PROVE  Types' /\ ReviewInv' /\ ScreenInv'
<1> DEFINE js == New(s, "suggest", 0, "here")
<1>1. /\ job' = js /\ panel' = [panel EXCEPT !.suggesting = TRUE] /\ sugTimer' = Off
      /\ UNCHANGED <<manager, tab, regenTimer, reads, faults>> /\ job[s] = Idle
  BY DEF Suggest, Free
<1>2. 0 \in 0 .. MaxSug
  BY BoundsAssumption
<1>3. /\ js \in [Slots -> Jobs \cup {Idle}] /\ \A u \in Slots : SlotMoves(job[u], js[u])
      /\ AwaitedIn(js, reads) /\ RunIn(js, "suggest")
      /\ RunIn(job, "regen") => RunIn(js, "regen")
  BY <1>1, <1>2, NewMoves DEF ScreenInv, Ops
<1> HIDE DEF js
<1>4. panel' \in Panels
  BY <1>1, ScreenTypes DEF Types, Panels
<1>5. SpinnersMeanWork'
  BY <1>1, <1>3 DEF ScreenInv, SpinnersMeanWork, Running, RunIn
<1> QED
  BY <1>1, <1>3, <1>4, <1>5, StepKeeps, ScreenTypes DEF Still, Types, ReadsType

LEMMA SuggestAnsweredKeeps ==
    ASSUME Types, ReviewInv, ScreenInv, NEW s \in Slots, SuggestAnswered(s), UNCHANGED asked
    PROVE  Types' /\ ReviewInv' /\ ScreenInv'
<1> DEFINE js == [job EXCEPT ![s] = Idle]
<1>1. /\ job[s] # Idle /\ job[s].op = "suggest" /\ job[s].stage # "fetching"
      /\ job' = js /\ UNCHANGED <<manager, tab, regenTimer, reads, faults>>
  BY DEF SuggestAnswered, Answered
<1>2. /\ js \in [Slots -> Jobs \cup {Idle}] /\ \A u \in Slots : SlotMoves(job[u], js[u])
      /\ AwaitedIn(js, reads)
      /\ RunIn(job, "regen") => RunIn(js, "regen")
  BY <1>1, EndMoves DEF ScreenInv
<1> HIDE DEF js
<1>3. panel' \in Panels /\ (panel'.suggesting => sugTimer' # Off) /\ sugTimer' \in 0 .. Off
  <2>1. CASE job[s].stage = "ok"
    BY <2>1, ScreenTypes DEF SuggestAnswered, Types
  <2>2. CASE job[s].stage # "ok"
    BY <2>2, ScreenTypes DEF SuggestAnswered, Types, Panels
  <2> QED
    BY <2>1, <2>2
<1>4. SpinnersMeanWork'
  BY <1>1, <1>2, <1>3 DEF ScreenInv, SpinnersMeanWork, Running, RunIn
<1> QED
  BY <1>1, <1>2, <1>3, <1>4, StepKeeps, ScreenTypes DEF Still, Types, ReadsType

LEMMA SuggestClockKeeps ==
    ASSUME Types, ReviewInv, ScreenInv, SuggestTick \/ SuggestTimeout, UNCHANGED asked
    PROVE  Types' /\ ReviewInv' /\ ScreenInv'
<1>1. UNCHANGED <<manager, job, tab, regenTimer, faults>>
  BY DEF SuggestTick, SuggestTimeout
<1>2. reads' \subseteq reads \cup {Read("suggest", 0)}
  BY DEF SuggestTick, SuggestTimeout
<1>3. Read("suggest", 0) \in Listings /\ Read("suggest", 0).by = "suggest"
  BY ReadFits DEF Types, ByPanel
<1>4. panel' \in Panels /\ (panel'.suggesting => sugTimer' # Off) /\ sugTimer' \in 0 .. Off
  <2>1. CASE SuggestTick
    BY <2>1, ScreenTypes, BoundsAssumption DEF SuggestTick, Types, Off
  <2>2. CASE SuggestTimeout
    <3>1. panel' = [panel EXCEPT !.suggesting = FALSE] /\ sugTimer' = Off /\ panel \in Panels
      BY <2>2, ScreenTypes DEF SuggestTimeout, Types
    <3>2. panel' \in Panels /\ panel'.suggesting = FALSE
      BY <3>1 DEF Panels
    <3> QED
      BY <3>1, <3>2, ScreenTypes DEF Types
  <2> QED
    BY <2>1, <2>2
<1>5. ReadsType'
  BY <1>2, <1>3 DEF Types, ReadsType
<1>6. AwaitedIn(job, reads')
  BY <1>2, <1>3, AwaitedFewer DEF ScreenInv
<1>7. SpinnersMeanWork'
  BY <1>1, <1>4 DEF ScreenInv, SpinnersMeanWork, Running
<1> QED
  BY <1>1, <1>4, <1>5, <1>6, <1>7, StepKeeps, ScreenTypes, SameMoves DEF Still, Types

\* The tab is told to load the analysis again.
LEMMA AskRefreshEffect ==
    ASSUME TypeOK, AskRefresh
    PROVE  tab' \in Tabs /\ tab'.regenerating = tab.regenerating
BY ScreenTypes DEF AskRefresh, Tabs

LEMMA SuggestPolledKeeps ==
    ASSUME Types, ReviewInv, ScreenInv, NEW r \in reads, SuggestPolled(r), UNCHANGED asked
    PROVE  Types' /\ ReviewInv' /\ ScreenInv'
<1>1. /\ UNCHANGED <<manager, job, regenTimer>> /\ reads' = reads \ {r} /\ r.by \in ByPanel
  BY DEF SuggestPolled, ByPanel
<1>2. PICK a \in Proposals :
         /\ PanelCopy(r, a)
         /\ panel' = [panel EXCEPT !.analysis = a, !.suggesting = @ /\ a.sug = 0]
         /\ sugTimer' = IF a.sug > 0 THEN Off ELSE sugTimer
         /\ IF a.sug > 0 THEN AskRefresh ELSE UNCHANGED tab
  BY <1>1, ListingFits, ListingType DEF SuggestPolled, Types
<1>3. panel \in Panels /\ a.sug \in Nat
  BY ScreenTypes, BoundsAssumption DEF Types, Proposals
<1>4. panel' \in Panels /\ panel'.suggesting = (panel.suggesting /\ a.sug = 0)
  <2> DEFINE b == panel.suggesting /\ a.sug = 0
  <2>1. b \in BOOLEAN
    BY <1>3 DEF Panels
  <2>2. panel' = [panel EXCEPT !.analysis = a, !.suggesting = b]
    BY <1>2
  <2> HIDE DEF b
  <2>3. panel' \in Panels /\ panel'.suggesting = b
    BY <1>3, <2>1, <2>2 DEF Panels
  <2> QED
    BY <2>3 DEF b
<1>5. panel'.suggesting => panel.suggesting /\ sugTimer' = sugTimer
  <2>1. panel'.suggesting => panel.suggesting /\ a.sug = 0
    BY <1>4, Zenon
  <2>2. a.sug = 0 => sugTimer' = sugTimer
    BY <1>2
  <2> QED
    BY <2>1, <2>2
<1>6. tab' \in Tabs /\ tab'.regenerating = tab.regenerating
  BY <1>2, AskRefreshEffect, ScreenTypes DEF Types
<1>7. faults' \in 0 .. MaxFaults
  BY <1>2, ScreenTypes, Counted DEF PanelCopy, Types
<1>8. sugTimer' \in 0 .. Off
  BY <1>2, ScreenTypes DEF Types
<1>9. AwaitedIn(job, reads)' /\ ReadsType'
  BY <1>1, ListingFits DEF ReadsType
<1>10. SpinnersMeanWork'
  BY <1>1, <1>5, <1>6 DEF ScreenInv, SpinnersMeanWork, Running
<1> QED
  BY <1>1, <1>4, <1>6, <1>7, <1>8, <1>9, <1>10, StepKeeps, ScreenTypes, SameMoves
     DEF Still, Types

\* Requests that change nothing on the screen yet.
LEMMA AskKeeps ==
    ASSUME Types, ReviewInv, ScreenInv, NEW s \in Slots, asked' \in 0 .. MaxRequests,
           Apply(s) \/ ConfirmDismiss(s)
             \/ \E op \in {"suggest", "apply", "dismiss"} : Colleague(s, op)
    PROVE  Types' /\ ReviewInv' /\ ScreenInv'
<1>1. Proposal \in 0 .. MaxSug /\ Suggested.sug \in 0 .. MaxSug
  BY ScreenTypes, ListingType DEF Types, Panels, Proposals, Proposal
<1>2. PICK op \in Ops, seen \in 0 .. MaxSug, by \in {"here", "elsewhere"} :
         job' = New(s, op, seen, by)
  BY <1>1 DEF Apply, ConfirmDismiss, Colleague, Ops
<1>3. job[s] = Idle /\ UNCHANGED <<manager, tab, panel, regenTimer, sugTimer, reads, faults>>
  BY DEF Apply, ConfirmDismiss, Colleague, Free, StillScreen, timers
<1> DEFINE js == New(s, op, seen, by)
<1>4. /\ js \in [Slots -> Jobs \cup {Idle}] /\ \A u \in Slots : SlotMoves(job[u], js[u])
      /\ AwaitedIn(js, reads)
      /\ \A o : RunIn(job, o) => RunIn(js, o)
  BY <1>3, NewMoves DEF ScreenInv
<1>5. job' = js
  BY <1>2
<1> HIDE DEF js
<1>6. SpinnersMeanWork'
  BY <1>3, <1>4, <1>5 DEF ScreenInv, SpinnersMeanWork, Running, RunIn
<1> QED
  BY <1>3, <1>4, <1>5, <1>6, StepKeeps, ScreenTypes DEF Still, Types, ReadsType

LEMMA DialogKeeps ==
    ASSUME Types, ReviewInv, ScreenInv, OpenDismiss \/ CancelDismiss, UNCHANGED asked
    PROVE  Types' /\ ReviewInv' /\ ScreenInv'
<1>1. UNCHANGED <<manager, job, tab, regenTimer, sugTimer, reads, faults>>
  BY DEF OpenDismiss, CancelDismiss, timers
<1>2. PICK b \in BOOLEAN : panel' = [panel EXCEPT !.dismissOpen = b]
  BY DEF OpenDismiss, CancelDismiss
<1>3. panel' \in Panels /\ panel'.suggesting = panel.suggesting
  BY <1>2, ScreenTypes DEF Types, Panels
<1>4. SpinnersMeanWork'
  BY <1>1, <1>3 DEF ScreenInv, SpinnersMeanWork, Running
<1>5. AwaitedIn(job, reads)' /\ ReadsType'
  BY <1>1 DEF ScreenInv, Types, ReadsType
<1> QED
  BY <1>1, <1>3, <1>4, <1>5, StepKeeps, ScreenTypes, SameMoves DEF Still, Types

LEMMA ReviewAnsweredKeeps ==
    ASSUME Types, ReviewInv, ScreenInv, NEW s \in Slots, ReviewAnswered(s), UNCHANGED asked
    PROVE  Types' /\ ReviewInv' /\ ScreenInv'
<1>1. /\ job[s] # Idle /\ job[s].op \in {"apply", "dismiss"} /\ job[s].stage \in {"ok", "err"}
      /\ UNCHANGED <<manager, tab, regenTimer, sugTimer, faults>>
  BY DEF ReviewAnswered, Answered, timers
<1>2. CASE job[s].stage = "ok"
  <2>1. /\ Step(s, "fetching") /\ reads' = reads \cup {Read("review", s)}
        /\ panel' = [panel EXCEPT !.dismissOpen = @ /\ job[s].op = "apply"]
    BY <1>2 DEF ReviewAnswered
  <2>2. /\ job' \in [Slots -> Jobs \cup {Idle}]
        /\ job'[s] # Idle
        /\ job'[s].op = job[s].op /\ job'[s].by = job[s].by /\ job'[s].row = job[s].row
        /\ job'[s].sug = job[s].sug /\ job'[s].barred = job[s].barred
        /\ job'[s].stage = "fetching"
        /\ \A t \in Slots \ {s} : job'[t] = job[t]
    BY <1>1, <2>1, StepEffect DEF Types
  <2>3. \A t \in Slots : SlotMoves(job[t], job'[t])
    BY <1>1, <2>2 DEF SlotMoves
  <2>4. panel' \in Panels /\ panel'.suggesting = panel.suggesting
    <3> DEFINE b == panel.dismissOpen /\ job[s].op = "apply"
    <3>1. panel \in Panels
      BY ScreenTypes DEF Types
    <3>2. b \in BOOLEAN
      BY <3>1 DEF Panels
    <3>3. panel' = [panel EXCEPT !.dismissOpen = b]
      BY <2>1
    <3> HIDE DEF b
    <3> QED
      BY <3>1, <3>2, <3>3 DEF Panels
  <2>5. Read("review", s) \in Listings /\ Read("review", s).by = "review"
        /\ Read("review", s).base = s
    BY ReadFits, BoundsAssumption DEF Types, ByPanel
  <2>6. ReadsType'
    BY <2>1, <2>5 DEF Types, ReadsType
  <2>7. AwaitedIn(job, reads)'
    <3>1. ASSUME NEW r \in reads, r.by = "review" PROVE r.base # s
      BY <1>1, <3>1 DEF ScreenInv, AwaitedIn
    <3> QED
      BY <1>1, <2>1, <2>2, <2>5, <3>1 DEF ScreenInv, AwaitedIn
  <2>8. SpinnersMeanWork'
    <3>1. \A o : Running(o) => Running(o)'
      BY <2>2 DEF Running
    <3> QED
      BY <1>1, <2>4, <3>1 DEF ScreenInv, SpinnersMeanWork
  <2> QED
    BY <1>1, <2>2, <2>3, <2>4, <2>6, <2>7, <2>8, StepKeeps, ScreenTypes DEF Still, Types
<1>3. CASE job[s].stage # "ok"
  <2> DEFINE js == [job EXCEPT ![s] = Idle]
  <2>1. job' = js /\ UNCHANGED <<reads, panel>>
    BY <1>3 DEF ReviewAnswered
  <2>2. /\ js \in [Slots -> Jobs \cup {Idle}] /\ \A u \in Slots : SlotMoves(job[u], js[u])
        /\ AwaitedIn(js, reads)
        /\ RunIn(job, "regen") => RunIn(js, "regen")
        /\ RunIn(job, "suggest") => RunIn(js, "suggest")
    BY <1>1, EndMoves DEF ScreenInv
  <2> HIDE DEF js
  <2>3. SpinnersMeanWork'
    BY <1>1, <2>1, <2>2 DEF ScreenInv, SpinnersMeanWork, Running, RunIn
  <2> QED
    BY <1>1, <2>1, <2>2, <2>3, StepKeeps, ScreenTypes DEF Still, Types, ReadsType
<1> QED
  BY <1>2, <1>3

LEMMA ReviewEndsKeeps ==
    ASSUME Types, ReviewInv, ScreenInv, NEW r \in reads, ReviewEnds(r), UNCHANGED asked
    PROVE  Types' /\ ReviewInv' /\ ScreenInv'
<1> DEFINE s == r.base
<1>1. /\ r.by = "review" /\ AskRefresh /\ reads' = reads \ {r}
      /\ job' = [job EXCEPT ![s] = Idle] /\ UNCHANGED <<manager, regenTimer, sugTimer>>
  BY DEF ReviewEnds, timers
<1>2. /\ s \in Slots /\ job[s] # Idle /\ job[s].op \in {"apply", "dismiss"}
      /\ \A q \in reads : q.by = "review" /\ q.base = s => q = r
  BY <1>1 DEF ScreenInv, AwaitedIn
<1>3. PICK a \in Proposals : PanelCopy(r, a) /\ panel' = [panel EXCEPT !.analysis = a]
  BY <1>1, ListingFits, ListingType DEF ReviewEnds, Types, ByPanel
<1>4. panel' \in Panels /\ panel'.suggesting = panel.suggesting
  BY <1>3, ScreenTypes DEF Types, Panels
<1>5. faults' \in 0 .. MaxFaults
  BY <1>3, ScreenTypes, Counted DEF PanelCopy, Types
<1>6. tab' \in Tabs /\ tab'.regenerating = tab.regenerating
  BY <1>1, AskRefreshEffect DEF Types
<1>7. /\ job' \in [Slots -> Jobs \cup {Idle}] /\ job'[s] = Idle
      /\ \A t \in Slots \ {s} : job'[t] = job[t]
  BY <1>1, <1>2, EndEffect DEF Types
<1>q. \A q \in reads' : q.by = "review" => q.base # s
  BY <1>1, <1>2
<1> HIDE DEF s
<1>8. \A t \in Slots : SlotMoves(job[t], job'[t])
  BY <1>7 DEF SlotMoves
<1>9. ReadsType'
  BY <1>1 DEF Types, ReadsType
<1>10. AwaitedIn(job, reads)'
  BY <1>1, <1>7, <1>q DEF ScreenInv, AwaitedIn
<1>11. SpinnersMeanWork'
  <2>1. \A o \in {"regen", "suggest"} : Running(o) => Running(o)'
    BY <1>2, <1>7 DEF Running
  <2> QED
    BY <1>1, <1>4, <1>6, <2>1 DEF ScreenInv, SpinnersMeanWork
<1>12. asked' \in 0 .. MaxRequests /\ regenTimer' \in 0 .. Off /\ sugTimer' \in 0 .. Off
  BY <1>1, ScreenTypes DEF Types
<1> QED
  BY <1>1, <1>4, <1>5, <1>6, <1>7, <1>8, <1>9, <1>10, <1>11, <1>12, StepKeeps DEF Still

LEMMA EndsUnseenKeeps ==
    ASSUME Types, ReviewInv, ScreenInv, NEW s \in Slots, EndsUnseen(s), UNCHANGED asked
    PROVE  Types' /\ ReviewInv' /\ ScreenInv'
<1> DEFINE js == [job EXCEPT ![s] = Idle]
<1>1. /\ job[s] # Idle /\ job[s].stage # "fetching" /\ job[s].by # "here" /\ job' = js
      /\ UNCHANGED <<manager, panel, regenTimer, sugTimer, reads, faults>>
  BY DEF EndsUnseen, timers
<1>2. tab' \in Tabs /\ tab'.regenerating = tab.regenerating
  BY AskRefreshEffect, ScreenTypes DEF EndsUnseen, Types
<1>3. /\ js \in [Slots -> Jobs \cup {Idle}] /\ \A u \in Slots : SlotMoves(job[u], js[u])
      /\ AwaitedIn(js, reads)
      /\ \A o : RunIn(job, o) => RunIn(js, o)
  BY <1>1, EndMoves DEF ScreenInv
<1> HIDE DEF js
<1>4. SpinnersMeanWork'
  BY <1>1, <1>2, <1>3 DEF ScreenInv, SpinnersMeanWork, Running, RunIn
<1> QED
  BY <1>1, <1>2, <1>3, <1>4, StepKeeps, ScreenTypes DEF Still, Types, ReadsType

-----------------------------------------------------------------------------
(* Theorems *)

LEMMA InitTypes == Init => Types
<1> SUFFICES ASSUME Init PROVE Types
  OBVIOUS
<1> USE BoundsAssumption
<1>1. rows \in UNION {[1 .. n -> Reviewable] : n \in 0 .. MaxRows}
  <2>1. rows = <<>> /\ <<>> \in Seq(Reviewable) /\ Len(<<>>) = 0
    BY DEF Init
  <2> QED
    BY <2>1, RowsTyped
<1>2. None \in Triages /\ Nothing \in Proposals
  BY DEF None, Triages, Nothing, Proposals
<1>3. NoTab \in Tabs /\ NoPanel \in Panels
  BY <1>2 DEF NoTab, NoPanel, Tabs, Panels
<1>4. task \in [Tasks -> {Idle, [op |-> "asked"]} \cup Loaded] /\ TasksFit
  <2>1. Idle \notin Loaded
    BY DEF Idle, Loaded
  <2> QED
    BY <2>1 DEF Init, TasksFit
<1>5. job \in [Slots -> Jobs \cup {Idle}] /\ ReadsType
  BY DEF Init, ReadsType
<1>6. TypeOK
  BY <1>1, <1>3, <1>4, <1>5 DEF Init, TypeOK, Tabs, Panels, Off
<1> QED
  BY <1>4, <1>5, <1>6 DEF Types

LEMMA InitScreen == Init => ReviewInv /\ ScreenInv
<1> SUFFICES ASSUME Init PROVE ReviewInv /\ ScreenInv
  OBVIOUS
<1>1. Latest = 0 /\ \A n \in 1 .. Latest : FALSE
  BY DEF Init, Latest
<1>2. RowsMarked /\ MarkedRowWasActedOn /\ ReviewedIsFinal
  BY <1>1 DEF Init, RowsMarked, MarkedRowWasActedOn, ReviewedIsFinal
<1>3. ApplyingRight
  BY DEF Init, ApplyingRight, Applying
<1>4. AwaitedIn(job, reads)
  BY DEF Init, AwaitedIn
<1>5. SpinnersMeanWork
  BY DEF Init, SpinnersMeanWork, NoTab, NoPanel
<1> QED
  BY <1>2, <1>3, <1>4, <1>5 DEF ReviewInv, ScreenInv

LEMMA NextKeeps ==
    ASSUME Types, ReviewInv, ScreenInv, Next
    PROVE  Types' /\ ReviewInv' /\ ScreenInv'
<1>1. CASE Manager
  BY <1>1, TriageKeeps, LoadKeeps, FinishKeeps DEF Manager
<1>2. CASE Clock
  BY <1>2, RegenTickKeeps, RegenTimeoutKeeps, SuggestClockKeeps DEF Clock
<1>3. CASE Screen
  BY <1>3, OpenKeeps, CloseKeeps, RetryKeeps, DialogKeeps, TabRefreshedKeeps DEF Screen
<1>4. CASE Ask
  <2>1. asked' \in 0 .. MaxRequests
    BY <1>4, Counted DEF Ask, Types
  <2> QED
    BY <1>4, <2>1, RegenerateKeeps, SuggestKeeps, AskKeeps DEF Ask
<1>5. ASSUME NEW s \in Slots, Serve(s) \/ Answer(s) PROVE Types' /\ ReviewInv' /\ ScreenInv'
  BY <1>5, ServeKeeps, RegenerateAnsweredKeeps, SuggestAnsweredKeeps, ReviewAnsweredKeeps,
     EndsUnseenKeeps DEF Answer
<1>6. ASSUME NEW r \in reads, Arrive(r) PROVE Types' /\ ReviewInv' /\ ScreenInv'
  BY <1>6, TabLoadedKeeps, RegenPolledKeeps, PanelLoadedKeeps, SuggestPolledKeeps,
     ReviewEndsKeeps DEF Arrive
<1> QED
  BY <1>1, <1>2, <1>3, <1>4, <1>5, <1>6 DEF Next

LEMMA StutterKeeps ==
    ASSUME Types, ReviewInv, ScreenInv, UNCHANGED vars
    PROVE  Types' /\ ReviewInv' /\ ScreenInv'
<1>1. /\ UNCHANGED <<manager, job, tab, panel, regenTimer, sugTimer, reads, asked, faults>>
  BY DEF vars, timers
<1>2. AwaitedIn(job, reads)' /\ ReadsType'
  BY <1>1 DEF ScreenInv, Types, ReadsType
<1>3. SpinnersMeanWork'
  BY <1>1 DEF ScreenInv, SpinnersMeanWork, Running
<1> QED
  BY <1>1, <1>2, <1>3, StepKeeps, ScreenTypes, SameMoves DEF Still, Types

LEMMA Invariance == Spec => [](Types /\ ReviewInv /\ ScreenInv)
<1>1. Init => Types /\ ReviewInv /\ ScreenInv
  BY InitTypes, InitScreen
<1>2. Types /\ ReviewInv /\ ScreenInv /\ [Next]_vars => (Types /\ ReviewInv /\ ScreenInv)'
  BY NextKeeps, StutterKeeps
<1> QED
  BY <1>1, <1>2, PTL DEF Spec

\* Tables, requests, both halves of the screen and their timers have the values
\* that the code gives them.
THEOREM TypeCorrect == Spec => []TypeOK
<1>1. Types => TypeOK
  BY DEF Types
<1> QED
  BY <1>1, Invariance, PTL

\* apply_suggestion commits the action first and marks the row in a second
\* commit.  However many analysts, tasks and regenerations come between the two,
\* and whichever of them fails, a row marked applied has its action.
THEOREM ActedOn == Spec => []MarkedRowWasActedOn
<1>1. ReviewInv => MarkedRowWasActedOn
  BY DEF ReviewInv
<1> QED
  BY <1>1, Invariance, PTL

\* The idempotency check of apply_suggestion reads the latest row, while the
\* request only names the incident: for any number of rows, suggestions and
\* colleagues, it lets no suggestion pass that was applied or dismissed before
\* the request was sent.
THEOREM ReviewFinal == Spec => []ReviewedIsFinal
<1>1. ReviewInv => ReviewedIsFinal
  BY DEF ReviewInv
<1> QED
  BY <1>1, Invariance, PTL

\* The two components and their timers come and go, and late polls end timers
\* that they do not belong to; still, whichever spinner is on has a request of
\* this screen or a timer behind it.
THEOREM SpinnersWork == Spec => []SpinnersMeanWork
<1>1. ScreenInv => SpinnersMeanWork
  BY DEF ScreenInv
<1> QED
  BY <1>1, Invariance, PTL
=============================================================================
