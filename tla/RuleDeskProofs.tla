--------------------------- MODULE RuleDeskProofs ---------------------------
(***************************************************************************)
(* Proofs about the tables of RuleDesk: a field that one request at a time  *)
(* is about comes to show what the manager has.  The tables of detection    *)
(* rules, of chain rules and of process groups are instances of RuleDesk;   *)
(* MCConsoleProofs cites these lemmas for each.                             *)
(***************************************************************************)
EXTENDS RuleDesk, TLAPS

ConstantsOK == MaxRequests \in Nat /\ MaxFaults \in Nat

Pages == [list : Lists, loading : BOOLEAN, loaded : BOOLEAN]
Dialogs == [open : BOOLEAN, of : Rules \cup {None}, saving : BOOLEAN, here : BOOLEAN]
Handlers == Jobs \cup {Idle}

-----------------------------------------------------------------------------
(* The inductive invariant *)

\* Two rows are the same as far as field f goes.
Agree(r, q, f) == r.there = q.there /\ r.val[f] = q.val[f]

\* The handler is an operation on field f of rule i that is not over.
Works(j, i, f) == j # Idle /\ j.on = i /\ f \in j.set

Deletes(j) == j # Idle /\ j.op = "delete"

\* An operation in place remembers a row, a form and a deletion are about the whole
\* row, and a deletion leaves none.
HandlerIsWhole(j) ==
    /\ j.op # "field" => j.set = Fields
    /\ j.op \in InPlace \cup {"delete"} => j.was[j.on].there
    /\ j.op = "delete" => j.row = NoRow
    /\ j.op # "delete" => j.row.there

\* What the manager has of (i, f) while j is under way on it: it is served or not, and
\* no listing is from before.
ManagerAgrees(i, f, j) ==
    /\ j.stage = "sent" => reads = {}
    /\ j.stage = "ok" => Agree(srv[i], j.row, f)
    /\ j.op \in InPlace \cup {"delete"} /\ j.stage # "ok" => Agree(srv[i], j.was[i], f)

\* What the list shows of it meanwhile, from which the answer will make the right row.
ListAgrees(i, f, j) ==
    /\ j.op = "field" => page.list[i].there
    /\ j.op = "field" /\ j.stage # "err" => page.list[i].val[f] = j.row.val[f]
    /\ j.op = "delete" => Agree(page.list[i], NoRow, f)
    /\ j.op \in Saves /\ j.stage # "ok" => Agree(page.list[i], srv[i], f)
    /\ j.op = "update" /\ j.stage = "ok" => page.list[i].there

\* The list says something of row i: also before the first listing a row can be added.
KnownRow(i) == page.loaded \/ page.list[i].there

\* A deletion of another row may put (i, f) back, as it still is.
DeletionAgrees(i, f, j) ==
    /\ reads = {}
    /\ j.on # i => /\ \A t \in Slots : ~Works(job[t], i, f)
                   /\ page.loaded \/ j.was[i].there => Agree(j.was[i], srv[i], f)

FieldAgrees(i, f) ==
    /\ \A l \in reads : Agree(l[i], srv[i], f)
    /\ \A s, t \in Slots : Works(job[s], i, f) /\ Works(job[t], i, f) => s = t
    /\ \A s \in Slots : Works(job[s], i, f) => ManagerAgrees(i, f, job[s])
    /\ KnownRow(i) => \A s \in Slots : Works(job[s], i, f) => ListAgrees(i, f, job[s])
    /\ KnownRow(i) => \/ Agree(page.list[i], srv[i], f)
                      \/ \E s \in Slots : Works(job[s], i, f)
    /\ \A s \in Slots : Deletes(job[s]) => DeletionAgrees(i, f, job[s])

FieldsAgree == \A i \in Rules, f \in Fields : <<i, f>> \notin hist => FieldAgrees(i, f)

IInv ==
    /\ TypeOK /\ job \in [Slots -> Handlers]
    /\ \A s \in Slots : job[s] # Idle => HandlerIsWhole(job[s])
    /\ FieldsAgree
    /\ BusyMeansWorking

-----------------------------------------------------------------------------
(* Rows and handlers *)

LEMMA NoRowIsRow == NoRow \in Rows /\ ~NoRow.there /\ NoRows \in Lists
BY DEF NoRow, Rows, NoRows, Lists, Values

\* w is r with the fields of g taken from v.
IsPatch(w, r, g, v) ==
    /\ w \in Rows /\ w.there = r.there
    /\ \A f \in Fields : w.val[f] = IF f \in g THEN v[f] ELSE r.val[f]

LEMMA WithRow ==
    ASSUME NEW r \in Rows, NEW g \in SUBSET Fields, NEW v \in [Fields -> Values]
    PROVE  IsPatch(With(r, g, v), r, g, v)
BY DEF With, Rows, IsPatch

\* A handler that runs has the fields of one.
LEMMA HandlerType ==
    ASSUME NEW j \in Handlers, j # Idle
    PROVE  /\ j \in Jobs /\ j.op \in InPlace \cup Saves \cup {"delete"} /\ j.on \in Rules
           /\ j.set \in SUBSET Fields /\ j.row \in Rows /\ j.was \in Lists /\ j.live \in BOOLEAN
           /\ j.stage \in {"sent", "ok", "err"}
BY DEF Handlers, Jobs

LEMMA JobsRun ==
    ASSUME NEW j \in Jobs
    PROVE  j # Idle /\ j \in Handlers
BY DEF Jobs, Idle, InPlace, Saves, Handlers

\* Only slot s moves.
OnlySlot(s) == job' \in [Slots -> Handlers] /\ \A t \in Slots \ {s} : job'[t] = job[t]

LEMMA StartedHandler ==
    ASSUME job \in [Slots -> Handlers], NEW s \in Slots,
           NEW op \in InPlace \cup Saves \cup {"delete"}, NEW i \in Rules,
           NEW g \in SUBSET Fields, NEW row \in Rows, NEW was \in Lists,
           Start(s, op, i, g, row, was)
    PROVE  /\ OnlySlot(s) /\ job[s] = Idle /\ job'[s] # Idle
           /\ job'[s].op = op /\ job'[s].on = i /\ job'[s].set = g /\ job'[s].row = row
           /\ job'[s].was = was /\ job'[s].live /\ job'[s].stage = "sent"
<1> DEFINE new == [op |-> op, on |-> i, set |-> g, row |-> row, was |-> was, live |-> TRUE,
                   stage |-> "sent"]
<1>1. job[s] = Idle /\ job' = [job EXCEPT ![s] = new]
  BY DEF Start
<1>2. /\ new \in Jobs /\ new.op = op /\ new.on = i /\ new.set = g /\ new.row = row
      /\ new.was = was /\ new.live /\ new.stage = "sent"
  BY DEF Jobs
<1> HIDE DEF new
<1>3. new # Idle /\ new \in Handlers
  BY <1>2, JobsRun
<1> QED
  BY <1>1, <1>2, <1>3 DEF OnlySlot

LEMMA SteppedHandler ==
    ASSUME job \in [Slots -> Handlers], NEW s \in Slots, job[s] # Idle,
           NEW stage \in {"ok", "err"}, Step(s, stage)
    PROVE  /\ OnlySlot(s) /\ job'[s] # Idle
           /\ job'[s].op = job[s].op /\ job'[s].on = job[s].on /\ job'[s].set = job[s].set
           /\ job'[s].row = job[s].row /\ job'[s].was = job[s].was
           /\ job'[s].live = job[s].live /\ job'[s].stage = stage
<1> DEFINE new == [job[s] EXCEPT !.stage = stage]
<1>1. job' = [job EXCEPT ![s] = new]
  BY DEF Step
<1>2. job[s] \in Jobs
  BY HandlerType
<1>3. new \in Jobs
  BY <1>2 DEF Jobs
<1>4. /\ new.op = job[s].op /\ new.on = job[s].on /\ new.set = job[s].set
      /\ new.row = job[s].row /\ new.was = job[s].was /\ new.live = job[s].live
      /\ new.stage = stage
  BY <1>2 DEF Jobs
<1> HIDE DEF new
<1>5. new # Idle /\ new \in Handlers
  BY <1>3, JobsRun
<1> QED
  BY <1>1, <1>4, <1>5 DEF OnlySlot

LEMMA EndedHandler ==
    ASSUME job \in [Slots -> Handlers], NEW s \in Slots, Ends(s)
    PROVE  OnlySlot(s) /\ job'[s] = Idle
BY DEF Ends, OnlySlot, Handlers

-----------------------------------------------------------------------------
(* One field *)

\* A step that leaves the handlers of (i, f), the manager's row and the list's as they
\* are, as far as f goes, may start no deletion, but ask for a listing.
LEMMA FieldFrame ==
    ASSUME NEW i \in Rules, NEW f \in Fields, FieldAgrees(i, f),
           \A t \in Slots : Works(job'[t], i, f) <=> Works(job[t], i, f),
           \A t \in Slots : Works(job[t], i, f) =>
             /\ job'[t].op = job[t].op /\ job'[t].row = job[t].row
             /\ job'[t].was = job[t].was /\ job'[t].stage = job[t].stage,
           \A t \in Slots : Deletes(job'[t]) =>
             Deletes(job[t]) /\ job'[t].on = job[t].on /\ job'[t].was = job[t].was,
           Agree(srv'[i], srv[i], f), Agree(page'.list[i], page.list[i], f),
           page'.loaded = page.loaded,
           \A l \in reads' : \/ l \in reads
                             \/ /\ Agree(l[i], srv[i], f) /\ ~Deleting
                                /\ \A t \in Slots : Works(job[t], i, f) => job[t].stage # "sent"
    PROVE  FieldAgrees(i, f)'
<1>1. KnownRow(i)' <=> KnownRow(i)
  BY DEF KnownRow, Agree
<1>2. \A l \in reads' : Agree(l[i], srv'[i], f)
  BY DEF FieldAgrees, Agree
<1>3. ASSUME NEW t \in Slots, Works(job'[t], i, f)
      PROVE  ManagerAgrees(i, f, job[t])' /\ (KnownRow(i)' => ListAgrees(i, f, job[t])')
  <2>1. Works(job[t], i, f) /\ ManagerAgrees(i, f, job[t])
    BY <1>3 DEF FieldAgrees
  <2>2. job[t].stage = "sent" => reads' = {}
    BY <2>1 DEF ManagerAgrees
  <2>3. ManagerAgrees(i, f, job[t])'
    BY <2>1, <2>2 DEF ManagerAgrees, Agree
  <2>4. KnownRow(i) => ListAgrees(i, f, job[t])
    BY <2>1 DEF FieldAgrees
  <2>5. KnownRow(i)' => ListAgrees(i, f, job[t])'
    BY <1>1, <2>1, <2>4 DEF ListAgrees, Agree
  <2> QED
    BY <2>3, <2>5
<1>4. KnownRow(i)' => \/ Agree(page'.list[i], srv'[i], f)
                      \/ \E t \in Slots : Works(job'[t], i, f)
  BY <1>1 DEF FieldAgrees, Agree
<1>5. ASSUME NEW t \in Slots, Deletes(job'[t]) PROVE DeletionAgrees(i, f, job[t])'
  <2>1. Deletes(job[t]) /\ job'[t].on = job[t].on /\ job'[t].was = job[t].was
    BY <1>5
  <2>2. DeletionAgrees(i, f, job[t]) /\ Deleting
    BY <2>1 DEF FieldAgrees, Deletes, Deleting
  <2> QED
    BY <2>1, <2>2 DEF DeletionAgrees, Agree
<1>6. \A s, t \in Slots : Works(job'[s], i, f) /\ Works(job'[t], i, f) => s = t
  BY DEF FieldAgrees
<1> QED
  BY <1>2, <1>3, <1>4, <1>5, <1>6 DEF FieldAgrees

\* No operation is on (i, f) any more, and the list has it right.
LEMMA FieldEnds ==
    ASSUME NEW i \in Rules, NEW f \in Fields, FieldAgrees(i, f),
           \A t \in Slots : ~Works(job'[t], i, f),
           \A t \in Slots : Deletes(job'[t]) => job'[t] = job[t],
           UNCHANGED <<srv, reads>>, page'.loaded = page.loaded,
           KnownRow(i)' => Agree(page'.list[i], srv[i], f)
    PROVE  FieldAgrees(i, f)'
<1>1. ASSUME NEW t \in Slots, Deletes(job'[t]) PROVE DeletionAgrees(i, f, job[t])'
  <2>1. job'[t] = job[t] /\ DeletionAgrees(i, f, job[t])
    BY <1>1 DEF FieldAgrees
  <2> QED
    BY <2>1 DEF DeletionAgrees
<1> QED
  BY <1>1 DEF FieldAgrees

\* An operation starts on (i, f), which no other one is on and no listing is about.
LEMMA FieldStarts ==
    ASSUME NEW s \in Slots, OnlySlot(s), NEW i \in Rules, NEW f \in Fields, FieldAgrees(i, f),
           job[s] = Idle, Works(job'[s], i, f), job'[s].stage = "sent",
           \A t \in Slots : ~Works(job[t], i, f), reads = {}, ~Deleting,
           UNCHANGED <<srv, reads>>, page'.loaded = page.loaded,
           \/ job'[s].op \in Saves /\ page'.list[i] = page.list[i]
           \/ /\ job'[s].op \in {"field", "delete"} /\ page.list[i].there
              /\ job'[s].was[i] = page.list[i]
              /\ job'[s].op = "field" => /\ page'.list[i].there
                                         /\ page'.list[i].val[f] = job'[s].row.val[f]
              /\ job'[s].op = "delete" => page'.list[i] = NoRow
    PROVE  FieldAgrees(i, f)'
<1>1. /\ \A t \in Slots : Works(job'[t], i, f) <=> t = s
      /\ \A t \in Slots : Deletes(job'[t]) => t = s
  BY DEF OnlySlot, Deleting, Deletes
<1>2. page.loaded \/ page.list[i].there => Agree(page.list[i], srv[i], f)
  BY DEF FieldAgrees, KnownRow
<1>3. ManagerAgrees(i, f, job[s])'
  BY <1>2, Zenon DEF ManagerAgrees, Agree, Saves, InPlace
<1>4. KnownRow(i)' => ListAgrees(i, f, job[s])'
  <2>1. CASE job'[s].op \in Saves /\ page'.list[i] = page.list[i]
    BY <1>2, <2>1 DEF ListAgrees, KnownRow, Agree, Saves
  <2>2. CASE job'[s].op \in {"field", "delete"}
    BY <2>2 DEF ListAgrees, Agree, Saves
  <2> QED
    BY <2>1, <2>2
<1>5. DeletionAgrees(i, f, job[s])'
  BY DEF DeletionAgrees, Works
<1> QED
  BY <1>1, <1>3, <1>4, <1>5 DEF FieldAgrees

\* A deletion starts elsewhere.
LEMMA OtherFieldDeleted ==
    ASSUME NEW s \in Slots, OnlySlot(s), NEW i \in Rules, NEW f \in Fields, FieldAgrees(i, f),
           job[s] = Idle, job'[s] # Idle, job'[s].on # i, job'[s].was = page.list,
           \A t \in Slots : ~Works(job[t], i, f), reads = {},
           UNCHANGED <<srv, reads>>, page'.loaded = page.loaded, page'.list[i] = page.list[i]
    PROVE  FieldAgrees(i, f)'
<1>1. \A t \in Slots : ~Works(job'[t], i, f)
  BY DEF OnlySlot, Works
<1>2. KnownRow(i) => Agree(page.list[i], srv[i], f)
  BY DEF FieldAgrees
<1>3. ASSUME NEW t \in Slots, Deletes(job'[t]) PROVE DeletionAgrees(i, f, job[t])'
  <2>1. CASE t = s
    BY <1>1, <1>2, <2>1 DEF DeletionAgrees, KnownRow
  <2>2. CASE t # s
    <3>1. job'[t] = job[t] /\ DeletionAgrees(i, f, job[t])
      BY <1>3, <2>2 DEF OnlySlot, FieldAgrees
    <3> QED
      BY <1>1, <3>1 DEF DeletionAgrees
  <2> QED
    BY <2>1, <2>2
<1>4. KnownRow(i)' => Agree(page'.list[i], srv'[i], f)
  BY <1>2 DEF KnownRow
<1> QED
  BY <1>1, <1>3, <1>4 DEF FieldAgrees

\* The manager serves the operation on (i, f), or refuses it.
LEMMA FieldServed ==
    ASSUME NEW s \in Slots, OnlySlot(s), NEW i \in Rules, NEW f \in Fields, FieldAgrees(i, f),
           Works(job[s], i, f), Works(job'[s], i, f), job[s].stage = "sent",
           job'[s].op = job[s].op, job'[s].row = job[s].row, job'[s].was = job[s].was,
           job[s].op \in InPlace \cup Saves \cup {"delete"},
           UNCHANGED <<page, reads>>,
           \/ job'[s].stage = "err" /\ srv' = srv
           \/ /\ job'[s].stage = "ok" /\ Agree(srv'[i], job[s].row, f)
              /\ job[s].op = "update" => srv[i].there
    PROVE  FieldAgrees(i, f)'
<1>1. \A t \in Slots : Works(job'[t], i, f) <=> t = s
  BY DEF OnlySlot, FieldAgrees
<1>2. /\ reads = {} /\ ManagerAgrees(i, f, job[s])
      /\ KnownRow(i) => ListAgrees(i, f, job[s])
  BY DEF FieldAgrees, ManagerAgrees
<1>3. ManagerAgrees(i, f, job[s])'
  BY <1>2 DEF ManagerAgrees
<1>4. KnownRow(i)' => ListAgrees(i, f, job[s])'
  BY <1>2 DEF KnownRow, ListAgrees, Agree, Saves, InPlace
<1>5. ASSUME NEW t \in Slots, Deletes(job'[t]) PROVE job'[t].on = i
  <2>1. CASE t = s
    BY <2>1 DEF Works
  <2>2. CASE t # s
    BY <1>5, <2>2 DEF OnlySlot, FieldAgrees, DeletionAgrees
  <2> QED
    BY <2>1, <2>2
<1>6. \A t \in Slots : Deletes(job'[t]) => DeletionAgrees(i, f, job[t])'
  BY <1>2, <1>5 DEF DeletionAgrees
<1> QED
  BY <1>1, <1>2, <1>3, <1>4, <1>6 DEF FieldAgrees

\* A listing arrives, or it fails and the list is emptied.
LEMMA FieldListed ==
    ASSUME NEW i \in Rules, NEW f \in Fields, FieldAgrees(i, f), NEW l \in reads,
           \A t \in Slots : job[t] # Idle =>
             HandlerIsWhole(job[t]) /\ job[t].stage \in {"sent", "ok", "err"},
           \/ page'.list = l /\ page'.loaded
           \/ page'.list = NoRows /\ ~page'.loaded,
           reads' \subseteq reads, UNCHANGED <<srv, job>>
    PROVE  FieldAgrees(i, f)'
<1>1. \A t \in Slots : ~Deletes(job[t])
  BY DEF FieldAgrees, DeletionAgrees
<1>2. KnownRow(i)' => page'.list = l
  BY DEF KnownRow, NoRows, NoRow
<1>3. Agree(l[i], srv[i], f)
  BY DEF FieldAgrees
<1>4. ASSUME NEW t \in Slots, Works(job[t], i, f)
      PROVE  ManagerAgrees(i, f, job[t])' /\ (KnownRow(i)' => ListAgrees(i, f, job[t])')
  <2>1. /\ ManagerAgrees(i, f, job[t]) /\ job[t].stage \in {"ok", "err"}
        /\ job[t].op # "delete" /\ HandlerIsWhole(job[t]) /\ job[t].on = i
    BY <1>1, <1>4 DEF FieldAgrees, ManagerAgrees, Works, Deletes
  <2>2. ManagerAgrees(i, f, job[t])'
    BY <2>1 DEF ManagerAgrees
  <2>3. ASSUME page'.list = l PROVE ListAgrees(i, f, job[t])'
    BY <1>3, <2>1, <2>3 DEF ListAgrees, ManagerAgrees, HandlerIsWhole, Agree, Saves, InPlace
  <2> QED
    BY <1>2, <2>2, <2>3
<1> QED
  BY <1>1, <1>2, <1>3, <1>4 DEF FieldAgrees

\* A field next to those that handler s is about.
LEMMA OtherField ==
    ASSUME NEW s \in Slots, OnlySlot(s), NEW i \in Rules, NEW f \in Fields, FieldAgrees(i, f),
           ~Works(job[s], i, f), ~Works(job'[s], i, f),
           Deletes(job'[s]) =>
             Deletes(job[s]) /\ job'[s].on = job[s].on /\ job'[s].was = job[s].was,
           Agree(srv'[i], srv[i], f), Agree(page'.list[i], page.list[i], f),
           page'.loaded = page.loaded, UNCHANGED reads
    PROVE  FieldAgrees(i, f)'
<1>1. /\ \A t \in Slots : Works(job'[t], i, f) <=> Works(job[t], i, f)
      /\ \A t \in Slots : Works(job[t], i, f) => job'[t] = job[t]
      /\ \A t \in Slots : Deletes(job'[t]) =>
           Deletes(job[t]) /\ job'[t].on = job[t].on /\ job'[t].was = job[t].was
  BY DEF OnlySlot
<1> QED
  BY <1>1, FieldFrame

-----------------------------------------------------------------------------
(* What all steps keep *)

LEMMA DeskTypes ==
    ASSUME TypeOK
    PROVE  /\ srv \in Lists /\ page \in Pages /\ dialog \in Dialogs
           /\ page.list \in Lists /\ \A i \in Rules : srv[i] \in Rows /\ page.list[i] \in Rows
           /\ hist \subseteq Rules \X Fields /\ asked \in Nat /\ faults \in Nat
BY DEF TypeOK, Pages, Dialogs, Lists

LEMMA DeskFaults ==
    ASSUME ConstantsOK, TypeOK, UNCHANGED faults \/ Fault
    PROVE  faults' \in 0 .. MaxFaults
BY DEF ConstantsOK, TypeOK, Fault

\* A change of the list alone.
LEMMA PageListed ==
    ASSUME page \in Pages, NEW l \in Lists, page' = [page EXCEPT !.list = l]
    PROVE  /\ page' \in Pages /\ page'.list = l /\ page'.loading = page.loading
           /\ page'.loaded = page.loaded
BY DEF Pages

LEMMA RowListed ==
    ASSUME page \in Pages, NEW i \in Rules, NEW row \in Rows,
           page' = [page EXCEPT !.list = [page.list EXCEPT ![i] = row]]
    PROVE  /\ page' \in Pages /\ page'.loading = page.loading /\ page'.loaded = page.loaded
           /\ page'.list[i] = row /\ \A k \in Rules \ {i} : page'.list[k] = page.list[k]
<1> DEFINE l == [page.list EXCEPT ![i] = row]
<1>1. l \in Lists /\ l[i] = row /\ \A k \in Rules \ {i} : l[k] = page.list[k]
  BY DEF Pages, Lists
<1>2. page' = [page EXCEPT !.list = l]
  OBVIOUS
<1> HIDE DEF l
<1> QED
  BY <1>1, <1>2, PageListed

\* l is the list with such a row i.
IsPatchedList(l, i, g, v) ==
    /\ l \in Lists
    /\ \A k \in Rules \ {i} : l[k] = page.list[k]
    /\ l[i].there = page.list[i].there
    /\ \A f \in g : page.list[i].there => l[i].val[f] = v[f]
    /\ \A f \in Fields \ g : l[i].val[f] = page.list[i].val[f]

LEMMA PatchedRow ==
    ASSUME page \in Pages, NEW i \in Rules, NEW g \in SUBSET Fields, NEW v \in [Fields -> Values]
    PROVE  IsPatchedList(Patch(i, g, v), i, g, v)
<1> DEFINE row == IF page.list[i].there THEN With(page.list[i], g, v) ELSE page.list[i]
<1>1. page.list \in Lists /\ page.list[i] \in Rows
  BY DEF Pages, Lists
<1>2. /\ row \in Rows /\ row.there = page.list[i].there
      /\ \A f \in Fields : row.val[f] = IF page.list[i].there /\ f \in g THEN v[f]
                                        ELSE page.list[i].val[f]
  BY <1>1, WithRow DEF IsPatch
<1>3. Patch(i, g, v) = [page.list EXCEPT ![i] = row]
  BY DEF Patch
<1> HIDE DEF row
<1> QED
  BY <1>1, <1>2, <1>3 DEF Lists, IsPatchedList

\* A step of handler s that is not a request.
LEMMA HandlerMoves ==
    ASSUME ConstantsOK, IInv, NEW s \in Slots, OnlySlot(s),
           job'[s] # Idle => HandlerIsWhole(job'[s]),
           srv' \in Lists, page' \in Pages, dialog' \in Dialogs, UNCHANGED <<reads, asked>>,
           UNCHANGED faults \/ Fault, hist' \subseteq Rules \X Fields
    PROVE  /\ TypeOK' /\ job' \in [Slots -> Handlers]
           /\ \A t \in Slots : job'[t] # Idle => HandlerIsWhole(job'[t])
<1>1. faults' \in 0 .. MaxFaults
  BY DeskFaults DEF IInv
<1>2. TypeOK'
  BY <1>1 DEF IInv, TypeOK, OnlySlot, Pages, Dialogs, Handlers
<1> QED
  BY <1>2 DEF IInv, OnlySlot

-----------------------------------------------------------------------------
(* The initial states, and steps that leave the handlers as they are *)

LEMMA IInvInit ==
    ASSUME ConstantsOK, Init
    PROVE  IInv
<1>1. NoRow \in Rows /\ NoRows \in Lists
  BY NoRowIsRow
<1>2. srv \in Lists
  BY <1>1 DEF Init, Lists, Rows
<1>3. job \in [Slots -> Handlers] /\ \A s \in Slots : job[s] = Idle
  BY DEF Init, Handlers
<1>4. TypeOK
  BY <1>1, <1>2, <1>3 DEF Init, TypeOK, ConstantsOK
<1>5. FieldsAgree
  <2> SUFFICES ASSUME NEW i \in Rules, NEW f \in Fields PROVE FieldAgrees(i, f)
    BY DEF FieldsAgree
  <2>1. ~KnownRow(i)
    BY <1>1 DEF Init, KnownRow, NoRows, NoRow
  <2>2. \A s \in Slots : ~Works(job[s], i, f) /\ ~Deletes(job[s])
    BY <1>3 DEF Works, Deletes
  <2>3. \A l \in reads : Agree(l[i], srv[i], f)
    BY DEF Init, Agree
  <2> QED
    BY <2>1, <2>2, <2>3 DEF FieldAgrees
<1>6. BusyMeansWorking
  BY DEF Init, BusyMeansWorking
<1> QED
  BY <1>3, <1>4, <1>5, <1>6 DEF IInv

\* The form is opened or closed: nothing else changes.
LEMMA DialogKeeps ==
    ASSUME IInv, dialog' \in Dialogs, dialog'.saving => dialog.saving,
           UNCHANGED <<srv, hist, page, job, reads, asked, faults>>
    PROVE  IInv'
<1>1. TypeOK'
  BY DEF IInv, TypeOK, Dialogs
<1>2. FieldsAgree'
  BY DEF IInv, FieldsAgree, FieldAgrees, ManagerAgrees, ListAgrees, KnownRow, DeletionAgrees
<1>3. BusyMeansWorking'
  BY DEF IInv, BusyMeansWorking
<1> QED
  BY <1>1, <1>2, <1>3 DEF IInv

LEMMA OpenFormKeeps ==
    ASSUME IInv, NEW i \in Rules \cup {None}, OpenForm(i), UNCHANGED asked
    PROVE  IInv'
<1>1. dialog' = [dialog EXCEPT !.open = TRUE, !.of = i]
  BY DEF OpenForm
<1>2. dialog' \in Dialogs /\ dialog'.saving = dialog.saving
  BY <1>1 DEF IInv, TypeOK, Dialogs
<1> QED
  BY <1>2, DialogKeeps DEF OpenForm

LEMMA CloseFormKeeps ==
    ASSUME IInv, CloseForm, UNCHANGED asked
    PROVE  IInv'
<1>1. dialog' = [dialog EXCEPT !.open = FALSE, !.of = None]
  BY DEF CloseForm
<1>2. dialog' \in Dialogs /\ dialog'.saving = dialog.saving
  BY <1>1 DEF IInv, TypeOK, Dialogs
<1> QED
  BY <1>2, DialogKeeps DEF CloseForm

LEMMA SwitchTabKeeps ==
    ASSUME IInv, SwitchTab, UNCHANGED asked
    PROVE  IInv'
<1>1. /\ dialog' = [dialog EXCEPT !.here = ~@, !.saving = FALSE]
      /\ job' = [s \in Slots |-> IF job[s] = Idle THEN Idle ELSE [job[s] EXCEPT !.live = FALSE]]
      /\ UNCHANGED <<srv, hist, page, reads, faults>>
  BY DEF SwitchTab
<1>2. dialog' \in Dialogs /\ ~dialog'.saving
  BY <1>1 DEF IInv, TypeOK, Dialogs
<1>3. ASSUME NEW s \in Slots, job[s] # Idle
      PROVE  /\ job'[s] \in Jobs /\ job'[s].op = job[s].op /\ job'[s].on = job[s].on
             /\ job'[s].set = job[s].set /\ job'[s].row = job[s].row /\ job'[s].was = job[s].was
             /\ job'[s].stage = job[s].stage
  <2>1. job[s] \in Jobs /\ job'[s] = [job[s] EXCEPT !.live = FALSE]
    BY <1>1, <1>3, HandlerType DEF IInv
  <2> QED
    BY <2>1 DEF Jobs
<1>4. \A s \in Slots : job'[s] = Idle <=> job[s] = Idle
  BY <1>1, <1>3, JobsRun
<1>5. job' \in [Slots -> Handlers]
  BY <1>1, <1>3, <1>4 DEF Handlers
<1>6. TypeOK'
  BY <1>1, <1>2, <1>3, <1>4 DEF IInv, TypeOK, Dialogs
<1>7. ASSUME NEW s \in Slots, job'[s] # Idle PROVE HandlerIsWhole(job'[s])
  BY <1>3, <1>4, <1>7 DEF IInv, HandlerIsWhole
<1>8. ASSUME NEW i \in Rules, NEW f \in Fields, <<i, f>> \notin hist' PROVE FieldAgrees(i, f)'
  <2>1. FieldAgrees(i, f)
    BY <1>1, <1>8 DEF IInv, FieldsAgree
  <2>2. /\ \A t \in Slots : Works(job'[t], i, f) <=> Works(job[t], i, f)
        /\ \A t \in Slots : Deletes(job'[t]) =>
             Deletes(job[t]) /\ job'[t].on = job[t].on /\ job'[t].was = job[t].was
    BY <1>3, <1>4 DEF Works, Deletes
  <2>3. \A t \in Slots : Works(job[t], i, f) =>
          /\ job'[t].op = job[t].op /\ job'[t].row = job[t].row
          /\ job'[t].was = job[t].was /\ job'[t].stage = job[t].stage
    BY <1>3 DEF Works
  <2> QED
    BY <1>1, <2>1, <2>2, <2>3, FieldFrame DEF Agree
<1>9. BusyMeansWorking'
  BY <1>1, <1>2 DEF IInv, BusyMeansWorking
<1> QED
  BY <1>5, <1>6, <1>7, <1>8, <1>9 DEF IInv, FieldsAgree

LEMMA ColleagueKeeps ==
    ASSUME ConstantsOK, IInv, NEW k \in Rules, NEW g \in Fields, Colleague(k, g),
           asked < MaxRequests, asked' = asked + 1
    PROVE  IInv'
<1> DEFINE val == [srv[k].val EXCEPT ![g] = 1 - @]
           row == [srv[k] EXCEPT !.val = val]
<1>1. /\ srv' = [srv EXCEPT ![k] = row] /\ hist' = hist \cup {<<k, g>>}
      /\ UNCHANGED <<page, dialog, job, reads, faults>>
  BY DEF Colleague, Contest
<1>2. srv \in Lists /\ srv[k] \in Rows
  BY DeskTypes DEF IInv
<1>3. val \in [Fields -> Values] /\ \A f \in Fields \ {g} : val[f] = srv[k].val[f]
  BY <1>2 DEF Rows, Values
<1>4. row \in Rows /\ row.there = srv[k].there /\ row.val = val
  BY <1>2, <1>3 DEF Rows
<1> HIDE DEF val, row
<1>5. /\ srv' \in Lists /\ srv'[k] = row /\ \A i \in Rules \ {k} : srv'[i] = srv[i]
  BY <1>1, <1>2, <1>4 DEF Lists
<1>6. asked' \in 0 .. MaxRequests
  BY DeskTypes DEF IInv, ConstantsOK
<1>7. TypeOK' /\ job' \in [Slots -> Handlers]
  BY <1>1, <1>5, <1>6 DEF IInv, TypeOK
<1>8. ASSUME NEW i \in Rules, NEW f \in Fields, <<i, f>> \notin hist' PROVE FieldAgrees(i, f)'
  <2>1. FieldAgrees(i, f) /\ (i # k \/ f # g)
    BY <1>1, <1>8 DEF IInv, FieldsAgree
  <2>2. Agree(srv'[i], srv[i], f) /\ Agree(page'.list[i], page.list[i], f)
    BY <1>1, <1>3, <1>4, <1>5, <2>1 DEF Agree
  <2> QED
    BY <1>1, <2>1, <2>2, FieldFrame
<1>9. BusyMeansWorking'
  BY <1>1 DEF IInv, BusyMeansWorking
<1> QED
  BY <1>1, <1>7, <1>8, <1>9 DEF IInv, FieldsAgree

-----------------------------------------------------------------------------
(* Listings *)

LEMMA PageLoadedKeeps ==
    ASSUME ConstantsOK, IInv, NEW l \in reads, PageLoaded(l), UNCHANGED asked
    PROVE  IInv'
<1>1. /\ TypeOK /\ l \in Lists /\ NoRows \in Lists /\ reads' = reads \ {l}
      /\ UNCHANGED <<srv, hist, dialog, job>>
  BY NoRowIsRow DEF IInv, TypeOK, PageLoaded
<1>2. /\ page' \in Pages /\ ~page'.loading /\ (UNCHANGED faults \/ Fault)
      /\ \/ page'.list = l /\ page'.loaded
         \/ page'.list = NoRows /\ ~page'.loaded
  <2>1. CASE /\ page' = [list |-> l, loading |-> FALSE, loaded |-> TRUE]
             /\ UNCHANGED faults
    BY <1>1, <2>1 DEF Pages
  <2>2. CASE /\ page' = [list |-> NoRows, loading |-> FALSE, loaded |-> FALSE]
             /\ Fault
    BY <1>1, <2>2 DEF Pages
  <2> QED
    BY <2>1, <2>2 DEF PageLoaded
<1>3. faults' \in 0 .. MaxFaults
  BY <1>1, <1>2, DeskFaults
<1>4. TypeOK' /\ job' \in [Slots -> Handlers]
  BY <1>1, <1>2, <1>3 DEF IInv, TypeOK, Pages
<1>5. \A t \in Slots : job[t] # Idle =>
        HandlerIsWhole(job[t]) /\ job[t].stage \in {"sent", "ok", "err"}
  BY HandlerType DEF IInv
<1>6. ASSUME NEW i \in Rules, NEW f \in Fields, <<i, f>> \notin hist' PROVE FieldAgrees(i, f)'
  <2>1. FieldAgrees(i, f)
    BY <1>1, <1>6 DEF IInv, FieldsAgree
  <2> QED
    BY <1>1, <1>2, <1>5, <2>1, FieldListed
<1>7. BusyMeansWorking'
  BY <1>1, <1>2 DEF IInv, BusyMeansWorking
<1> QED
  BY <1>1, <1>4, <1>6, <1>7 DEF IInv, FieldsAgree

LEMMA RefreshKeeps ==
    ASSUME ConstantsOK, IInv, Refresh, asked < MaxRequests, asked' = asked + 1
    PROVE  IInv'
<1>1. /\ page' = [page EXCEPT !.loading = TRUE] /\ reads' = reads \cup {srv}
      /\ hist' = hist \cup ContestedByRead /\ UNCHANGED <<srv, dialog, job, faults>>
  BY DEF Refresh, Contest
<1>2. page' \in Pages /\ page'.list = page.list /\ page'.loaded = page.loaded
  BY <1>1 DEF IInv, TypeOK, Pages
<1>3. asked' \in 0 .. MaxRequests
  BY DeskTypes DEF IInv, ConstantsOK
<1>4. ContestedByRead \subseteq Rules \X Fields
  BY DEF ContestedByRead
<1>5. TypeOK' /\ job' \in [Slots -> Handlers]
  BY <1>1, <1>2, <1>3, <1>4 DEF IInv, TypeOK, Pages
<1>6. ASSUME NEW i \in Rules, NEW f \in Fields, <<i, f>> \notin hist' PROVE FieldAgrees(i, f)'
  <2>1. FieldAgrees(i, f) /\ <<i, f>> \notin ContestedByRead
    BY <1>1, <1>6 DEF IInv, FieldsAgree
  <2>2. ~Deleting
    BY <2>1 DEF ContestedByRead
  <2>3. \A t \in Slots : Works(job[t], i, f) => job[t].stage # "sent"
    BY <2>1, <2>2 DEF ContestedByRead, Running, Works
  <2>4. Agree(srv'[i], srv[i], f) /\ Agree(page'.list[i], page.list[i], f)
    BY <1>1, <1>2 DEF Agree
  <2>5. \A l \in reads' : l \in reads \/ (Agree(l[i], srv[i], f) /\ ~Deleting)
    BY <1>1, <2>2 DEF Agree
  <2> QED
    BY <1>1, <1>2, <2>1, <2>3, <2>4, <2>5, FieldFrame
<1>7. BusyMeansWorking'
  BY <1>1 DEF IInv, BusyMeansWorking
<1> QED
  BY <1>1, <1>5, <1>6, <1>7 DEF IInv, FieldsAgree

-----------------------------------------------------------------------------
(* Operations start *)

\* What a request that starts handler s on fields g of rule k keeps, but the fields
\* themselves.
LEMMA DeskStarts ==
    ASSUME ConstantsOK, IInv, NEW s \in Slots, OnlySlot(s), job[s] = Idle, job'[s] # Idle,
           HandlerIsWhole(job'[s]), asked < MaxRequests, asked' = asked + 1,
           page' \in Pages, page'.loading = page.loading,
           dialog' \in Dialogs,
           dialog'.saving => dialog.saving \/ (job'[s].live /\ job'[s].op \in Saves),
           hist' \subseteq Rules \X Fields, UNCHANGED <<srv, reads, faults>>
    PROVE  /\ TypeOK' /\ job' \in [Slots -> Handlers]
           /\ \A t \in Slots : job'[t] # Idle => HandlerIsWhole(job'[t])
           /\ BusyMeansWorking'
<1>1. asked' \in 0 .. MaxRequests
  BY DeskTypes DEF IInv, ConstantsOK
<1>2. TypeOK'
  BY <1>1 DEF IInv, TypeOK, OnlySlot, Pages, Dialogs, Handlers
<1>3. BusyMeansWorking'
  <2>1. \A t \in Slots : job[t] # Idle => job'[t] = job[t]
    BY DEF OnlySlot
  <2> QED
    BY <2>1 DEF IInv, BusyMeansWorking
<1> QED
  BY <1>2, <1>3 DEF IInv, OnlySlot

\* A field that an operation starts on, uncontested.
LEMMA UncontestedStart ==
    ASSUME NEW i \in Rules, NEW g \in SUBSET Fields, NEW f \in g,
           <<i, f>> \notin ContestedByStart(i, g)
    PROVE  reads = {} /\ ~Deleting /\ \A t \in Slots : ~Works(job[t], i, f)
<1>1. <<i, f>> \in {i} \X g
  OBVIOUS
<1>2. reads = {} /\ ~Deleting /\ <<i, f>> \notin Touched
  BY <1>1 DEF ContestedByStart
<1>3. Running(i, f) = {}
  BY <1>2 DEF Touched
<1> QED
  BY <1>2, <1>3 DEF Running, Works

LEMMA ChangeFieldKeeps ==
    ASSUME ConstantsOK, IInv, NEW s \in Slots, NEW k \in Rules, NEW g \in Fields,
           ChangeField(s, k, g), asked < MaxRequests, asked' = asked + 1
    PROVE  IInv'
<1> DEFINE val == [page.list[k].val EXCEPT ![g] = 1 - @]
           row == [page.list[k] EXCEPT !.val = val]
           was == [NoRows EXCEPT ![k] = page.list[k]]
<1>1. /\ page.list[k].there /\ Start(s, "field", k, {g}, row, was)
      /\ page' = [page EXCEPT !.list = [page.list EXCEPT ![k] = row]]
      /\ hist' = hist \cup ContestedByStart(k, {g}) /\ UNCHANGED <<srv, dialog, reads, faults>>
  BY DEF ChangeField, Contest
<1>2. page \in Pages /\ page.list \in Lists /\ page.list[k] \in Rows /\ dialog \in Dialogs
  BY DeskTypes DEF IInv
<1>3. val \in [Fields -> Values] /\ \A f \in Fields \ {g} : val[f] = page.list[k].val[f]
  BY <1>2 DEF Rows, Values
<1>4. row \in Rows /\ row.there = page.list[k].there /\ row.there /\ row.val = val
  BY <1>1, <1>2, <1>3 DEF Rows
<1>5. was \in Lists /\ was[k] = page.list[k]
  BY <1>2, NoRowIsRow DEF Lists
<1> HIDE DEF val, row, was
<1>6. /\ OnlySlot(s) /\ job[s] = Idle /\ job'[s] # Idle /\ job'[s].op = "field"
      /\ job'[s].on = k /\ job'[s].set = {g} /\ job'[s].row = row /\ job'[s].was = was
      /\ job'[s].stage = "sent"
  BY <1>1, <1>4, <1>5, StartedHandler DEF IInv, InPlace
<1>7. /\ page' \in Pages /\ page'.loading = page.loading /\ page'.loaded = page.loaded
      /\ page'.list[k] = row /\ \A i \in Rules \ {k} : page'.list[i] = page.list[i]
  BY <1>1, <1>2, <1>4, RowListed
<1>8. HandlerIsWhole(job'[s])
  BY <1>1, <1>4, <1>5, <1>6 DEF HandlerIsWhole
<1>9. hist' \subseteq Rules \X Fields
  BY <1>1 DEF IInv, TypeOK, ContestedByStart
<1>10. /\ TypeOK' /\ job' \in [Slots -> Handlers]
       /\ \A t \in Slots : job'[t] # Idle => HandlerIsWhole(job'[t])
       /\ BusyMeansWorking'
  BY <1>1, <1>2, <1>6, <1>7, <1>8, <1>9, DeskStarts
<1>11. ASSUME NEW i \in Rules, NEW f \in Fields, <<i, f>> \notin hist' PROVE FieldAgrees(i, f)'
  <2>1. FieldAgrees(i, f)
    BY <1>1, <1>11 DEF IInv, FieldsAgree
  <2>2. CASE i = k /\ f = g
    <3>1. reads = {} /\ ~Deleting /\ \A t \in Slots : ~Works(job[t], k, g)
      BY <1>1, <1>11, <2>2, UncontestedStart
    <3>2. Works(job'[s], k, g)
      BY <1>6 DEF Works
    <3>3. job'[s].was[k] = page.list[k] /\ page'.list[k].val[g] = job'[s].row.val[g]
      BY <1>5, <1>6, <1>7
    <3> QED
      BY <1>1, <1>4, <1>6, <1>7, <2>1, <2>2, <3>1, <3>2, <3>3, FieldStarts
  <2>3. CASE i # k \/ f # g
    <3>1. ~Works(job[s], i, f) /\ ~Works(job'[s], i, f) /\ ~Deletes(job'[s])
      BY <1>6, <2>3 DEF Works, Deletes
    <3>2. Agree(srv'[i], srv[i], f) /\ Agree(page'.list[i], page.list[i], f)
      <4>1. CASE i # k
        BY <1>1, <1>7, <4>1 DEF Agree
      <4>2. CASE i = k /\ f # g
        <5>1. page'.list[i] = row /\ row.val[f] = page.list[i].val[f]
          BY <1>3, <1>4, <1>7, <4>2
        <5> QED
          BY <1>1, <1>4, <4>2, <5>1 DEF Agree
      <4> QED
        BY <2>3, <4>1, <4>2
    <3> QED
      BY <1>1, <1>6, <1>7, <2>1, <3>1, <3>2, OtherField
  <2> QED
    BY <2>2, <2>3
<1> QED
  BY <1>10, <1>11 DEF IInv, FieldsAgree

LEMMA DeleteKeeps ==
    ASSUME ConstantsOK, IInv, NEW s \in Slots, NEW k \in Rules, Delete(s, k),
           asked < MaxRequests, asked' = asked + 1
    PROVE  IInv'
<1>1. /\ page.list[k].there /\ Start(s, "delete", k, Fields, NoRow, page.list)
      /\ page' = [page EXCEPT !.list = [page.list EXCEPT ![k] = NoRow]]
      /\ hist' = hist \cup ContestedByDelete(k) /\ UNCHANGED <<srv, dialog, reads, faults>>
  BY DEF Delete, Contest
<1>2. /\ page \in Pages /\ page.list \in Lists /\ NoRow \in Rows /\ dialog \in Dialogs
      /\ ~NoRow.there
  BY DeskTypes, NoRowIsRow DEF IInv
<1>3. /\ OnlySlot(s) /\ job[s] = Idle /\ job'[s] # Idle /\ job'[s].op = "delete"
      /\ job'[s].on = k /\ job'[s].set = Fields /\ job'[s].row = NoRow
      /\ job'[s].was = page.list /\ job'[s].stage = "sent"
  BY <1>1, <1>2, StartedHandler DEF IInv
<1>4. /\ page' \in Pages /\ page'.loading = page.loading /\ page'.loaded = page.loaded
      /\ page'.list[k] = NoRow /\ \A i \in Rules \ {k} : page'.list[i] = page.list[i]
  BY <1>1, <1>2, RowListed
<1>5. HandlerIsWhole(job'[s])
  BY <1>1, <1>3 DEF HandlerIsWhole
<1>6. hist' \subseteq Rules \X Fields
  BY <1>1 DEF IInv, TypeOK, ContestedByDelete, ContestedByStart, Touched
<1>7. /\ TypeOK' /\ job' \in [Slots -> Handlers]
      /\ \A t \in Slots : job'[t] # Idle => HandlerIsWhole(job'[t])
      /\ BusyMeansWorking'
  BY <1>1, <1>2, <1>3, <1>4, <1>5, <1>6, DeskStarts
<1>8. ASSUME NEW i \in Rules, NEW f \in Fields, <<i, f>> \notin hist' PROVE FieldAgrees(i, f)'
  <2>1. FieldAgrees(i, f) /\ <<i, f>> \notin ContestedByDelete(k)
    BY <1>1, <1>8 DEF IInv, FieldsAgree
  <2>2. /\ reads = {} /\ <<i, f>> \notin Touched /\ <<i, f>> \notin ContestedByStart(k, Fields)
    BY <2>1 DEF ContestedByDelete
  <2>3. \A t \in Slots : ~Works(job[t], i, f)
    BY <2>2 DEF Touched, Running, Works
  <2>4. CASE i = k
    <3>1. ~Deleting
      BY <2>2, <2>4, UncontestedStart
    <3>2. Works(job'[s], k, f)
      BY <1>3 DEF Works
    <3> QED
      BY <1>1, <1>3, <1>4, <2>1, <2>2, <2>3, <2>4, <3>1, <3>2, FieldStarts
  <2>5. CASE i # k
    BY <1>1, <1>3, <1>4, <2>1, <2>2, <2>3, <2>5, OtherFieldDeleted
  <2> QED
    BY <2>4, <2>5
<1> QED
  BY <1>7, <1>8 DEF IInv, FieldsAgree

LEMMA SubmitKeeps ==
    ASSUME ConstantsOK, IInv, Tabbed \in BOOLEAN, NEW s \in Slots, NEW k \in Rules,
           NEW v \in [Fields -> Values], Submit(s, k, v), asked < MaxRequests, asked' = asked + 1
    PROVE  IInv'
<1> DEFINE row == [there |-> TRUE, val |-> v]
<1>1. PICK op \in Saves : Start(s, op, k, Fields, row, NoRows)
  BY DEF Submit, Saves
<1>2. /\ dialog' = [dialog EXCEPT !.saving = Tabbed]
      /\ hist' = hist \cup ContestedByStart(k, Fields) /\ UNCHANGED <<srv, page, reads, faults>>
  BY DEF Submit, Contest
<1>3. row \in Rows /\ row.there
  BY DEF Rows
<1>4. NoRows \in Lists /\ page \in Pages /\ dialog \in Dialogs
  BY DeskTypes, NoRowIsRow DEF IInv
<1>5. dialog' \in Dialogs
  BY <1>2, <1>4 DEF Dialogs
<1> HIDE DEF row
<1>6. /\ OnlySlot(s) /\ job[s] = Idle /\ job'[s] # Idle /\ job'[s].op = op
      /\ job'[s].on = k /\ job'[s].set = Fields /\ job'[s].row = row
      /\ job'[s].live /\ job'[s].stage = "sent"
  BY <1>1, <1>3, <1>4, StartedHandler DEF IInv
<1>7. op \notin InPlace \cup {"delete"}
  BY DEF Saves, InPlace
<1>8. HandlerIsWhole(job'[s])
  BY <1>3, <1>6, <1>7 DEF HandlerIsWhole
<1>9. hist' \subseteq Rules \X Fields
  BY <1>2 DEF IInv, TypeOK, ContestedByStart
<1>10. /\ TypeOK' /\ job' \in [Slots -> Handlers]
       /\ \A t \in Slots : job'[t] # Idle => HandlerIsWhole(job'[t])
       /\ BusyMeansWorking'
  BY <1>2, <1>4, <1>5, <1>6, <1>8, <1>9, DeskStarts
<1>11. ASSUME NEW i \in Rules, NEW f \in Fields, <<i, f>> \notin hist' PROVE FieldAgrees(i, f)'
  <2>1. FieldAgrees(i, f)
    BY <1>2, <1>11 DEF IInv, FieldsAgree
  <2>2. CASE i = k
    <3>1. reads = {} /\ ~Deleting /\ \A t \in Slots : ~Works(job[t], k, f)
      BY <1>2, <1>11, <2>2, UncontestedStart
    <3>2. Works(job'[s], k, f)
      BY <1>6 DEF Works
    <3> QED
      BY <1>2, <1>6, <2>1, <2>2, <3>1, <3>2, FieldStarts
  <2>3. CASE i # k
    <3>1. ~Works(job[s], i, f) /\ ~Works(job'[s], i, f) /\ ~Deletes(job'[s])
      BY <1>6, <1>7, <2>3 DEF Works, Deletes
    <3>2. Agree(srv'[i], srv[i], f) /\ Agree(page'.list[i], page.list[i], f)
      BY <1>2 DEF Agree
    <3> QED
      BY <1>2, <1>6, <2>1, <3>1, <3>2, OtherField
  <2> QED
    BY <2>2, <2>3
<1> QED
  BY <1>10, <1>11 DEF IInv, FieldsAgree

-----------------------------------------------------------------------------
(* The manager answers *)

\* What handler s, on rule k, meets of the manager: it is served, or served and its
\* answer is lost, or it is refused.
LEMMA ServedKeeps ==
    ASSUME ConstantsOK, IInv, NEW s \in Slots, job[s] # Idle, job[s].stage = "sent",
           NEW k \in Rules, job[s].on = k, NEW stage \in {"ok", "err"}, Step(s, stage),
           srv' \in Lists, \A i \in Rules \ {k} : srv'[i] = srv[i],
           \A f \in Fields \ job[s].set : Agree(srv'[k], srv[k], f),
           \/ stage = "err" /\ UNCHANGED <<srv, hist>>
           \/ stage = "err" /\ Contest({k} \X job[s].set)
           \/ /\ stage = "ok" /\ UNCHANGED hist
              /\ \A f \in job[s].set : Agree(srv'[k], job[s].row, f)
              /\ job[s].op = "update" => srv[k].there,
           UNCHANGED faults \/ Fault, UNCHANGED <<page, dialog, reads, asked>>
    PROVE  IInv'
<1>1. /\ job[s].op \in InPlace \cup Saves \cup {"delete"} /\ job[s].set \in SUBSET Fields
      /\ HandlerIsWhole(job[s]) /\ page \in Pages /\ dialog \in Dialogs
  BY HandlerType, DeskTypes DEF IInv
<1>2. /\ OnlySlot(s) /\ job'[s] # Idle /\ job'[s].op = job[s].op /\ job'[s].on = k
      /\ job'[s].set = job[s].set /\ job'[s].row = job[s].row /\ job'[s].was = job[s].was
      /\ job'[s].live = job[s].live /\ job'[s].stage = stage
  BY SteppedHandler DEF IInv
<1>3. HandlerIsWhole(job'[s])
  BY <1>1, <1>2 DEF HandlerIsWhole
<1>4. hist \subseteq hist' /\ hist' \subseteq Rules \X Fields
  BY <1>1 DEF IInv, TypeOK, Contest
<1>5. /\ TypeOK' /\ job' \in [Slots -> Handlers]
      /\ \A t \in Slots : job'[t] # Idle => HandlerIsWhole(job'[t])
  BY <1>1, <1>2, <1>3, <1>4, HandlerMoves
<1>6. ASSUME NEW i \in Rules, NEW f \in Fields, <<i, f>> \notin hist' PROVE FieldAgrees(i, f)'
  <2>1. FieldAgrees(i, f)
    BY <1>4, <1>6 DEF IInv, FieldsAgree
  <2>2. CASE i = k /\ f \in job[s].set
    <3>1. Works(job[s], i, f) /\ Works(job'[s], i, f)
      BY <1>2, <2>2 DEF Works
    <3>2. ~Contest({k} \X job[s].set)
      BY <1>6, <2>2 DEF Contest
    <3>3. \/ job'[s].stage = "err" /\ srv' = srv
          \/ /\ job'[s].stage = "ok" /\ Agree(srv'[i], job[s].row, f)
             /\ job[s].op = "update" => srv[i].there
      BY <1>2, <2>2, <3>2
    <3> QED
      BY <1>1, <1>2, <2>1, <3>1, <3>3, FieldServed
  <2>3. CASE i # k \/ f \notin job[s].set
    <3>1. ~Works(job[s], i, f) /\ ~Works(job'[s], i, f)
      BY <1>2, <2>3 DEF Works
    <3>2. Agree(srv'[i], srv[i], f) /\ Agree(page'.list[i], page.list[i], f)
      BY <2>3 DEF Agree
    <3>3. Deletes(job'[s]) =>
            Deletes(job[s]) /\ job'[s].on = job[s].on /\ job'[s].was = job[s].was
      BY <1>2 DEF Deletes
    <3> QED
      BY <1>2, <2>1, <3>1, <3>2, <3>3, OtherField
  <2> QED
    BY <2>2, <2>3
<1>7. BusyMeansWorking'
  <2>1. \A t \in Slots : job[t] # Idle =>
          job'[t] # Idle /\ job'[t].op = job[t].op /\ job'[t].live = job[t].live
    BY <1>2 DEF OnlySlot
  <2> QED
    BY <2>1 DEF IInv, BusyMeansWorking
<1> QED
  BY <1>5, <1>6, <1>7 DEF IInv, FieldsAgree

LEMMA ServeKeeps ==
    ASSUME ConstantsOK, IInv, NEW s \in Slots, Serve(s), UNCHANGED asked
    PROVE  IInv'
<1>1. /\ job[s] # Idle /\ job[s].stage = "sent" /\ HandlerIsWhole(job[s])
      /\ UNCHANGED <<page, dialog, reads>>
  BY DEF Serve, IInv
<1>2. /\ job[s].op \in InPlace \cup Saves \cup {"delete"} /\ job[s].set \in SUBSET Fields
      /\ job[s].on \in Rules /\ job[s].row \in Rows
  BY <1>1, HandlerType DEF IInv
<1>3. PICK k \in Rules : job[s].on = k
  BY <1>2
<1>4. srv \in Lists /\ srv[k] \in Rows /\ NoRow \in Rows
  BY DeskTypes, NoRowIsRow DEF IInv
<1> DEFINE fits == (job[s].op = "create") = ~srv[k].there
           patched == With(srv[k], job[s].set, job[s].row.val)
           row == IF job[s].op = "delete" THEN NoRow
                  ELSE IF job[s].op = "create" THEN job[s].row ELSE patched
<1>5. \/ /\ fits /\ srv' = [srv EXCEPT ![k] = row]
         /\ \/ Step(s, "ok") /\ UNCHANGED <<hist, faults>>
            \/ Step(s, "err") /\ Fault /\ Contest({k} \X job[s].set)
      \/ Step(s, "err") /\ (UNCHANGED faults \/ Fault) /\ UNCHANGED <<srv, hist>>
  BY <1>1, <1>3 DEF Serve
<1>6. /\ patched \in Rows /\ patched.there = srv[k].there
      /\ \A f \in Fields :
           patched.val[f] = IF f \in job[s].set THEN job[s].row.val[f] ELSE srv[k].val[f]
  <2>1. job[s].row.val \in [Fields -> Values]
    BY <1>2 DEF Rows
  <2> DEFINE g == job[s].set
             v == job[s].row.val
             r == srv[k]
  <2>2. r \in Rows /\ g \in SUBSET Fields /\ v \in [Fields -> Values]
    BY <1>2, <1>4, <2>1
  <2> HIDE DEF fits, row, g, v, r
  <2>3. IsPatch(With(r, g, v), r, g, v)
    BY <2>2, WithRow
  <2> QED
    BY <2>3 DEF g, v, r, IsPatch
<1> HIDE DEF patched
<1>7. row \in Rows
  BY <1>2, <1>4, <1>6
<1>8. ASSUME fits, srv' = [srv EXCEPT ![k] = row]
      PROVE  /\ srv' \in Lists /\ \A i \in Rules \ {k} : srv'[i] = srv[i]
             /\ \A f \in Fields \ job[s].set : Agree(srv'[k], srv[k], f)
             /\ \A f \in job[s].set : Agree(srv'[k], job[s].row, f)
             /\ job[s].op = "update" => srv[k].there
  <2>1. srv' \in Lists /\ srv'[k] = row /\ \A i \in Rules \ {k} : srv'[i] = srv[i]
    BY <1>4, <1>7, <1>8 DEF Lists
  <2>2. job[s].op \in {"field", "update"} => srv[k].there
    BY <1>4, <1>8 DEF Rows
  <2>3. job[s].row.there \in BOOLEAN /\ srv[k].there \in BOOLEAN
    BY <1>2, <1>4 DEF Rows
  <2>4. CASE job[s].op = "delete"
    BY <1>1, <2>1, <2>4 DEF HandlerIsWhole, Agree
  <2>5. CASE job[s].op = "create"
    BY <1>1, <2>1, <2>5 DEF HandlerIsWhole, Agree
  <2>6. CASE job[s].op \in {"field", "update"}
    <3>1. srv'[k] = patched
      BY <2>1, <2>6
    <3>2. job[s].row.there
      BY <1>1, <2>6 DEF HandlerIsWhole
    <3> QED
      BY <1>2, <1>6, <2>1, <2>2, <2>3, <2>6, <3>1, <3>2 DEF Agree
  <2> QED
    BY <1>2, <2>4, <2>5, <2>6 DEF InPlace, Saves
<1> HIDE DEF fits, row
<1>9. CASE fits /\ srv' = [srv EXCEPT ![k] = row] /\ Step(s, "ok") /\ UNCHANGED <<hist, faults>>
  BY <1>1, <1>3, <1>8, <1>9, ServedKeeps
<1>10. CASE /\ fits /\ srv' = [srv EXCEPT ![k] = row]
            /\ Step(s, "err") /\ Fault /\ Contest({k} \X job[s].set)
  BY <1>1, <1>3, <1>8, <1>10, ServedKeeps
<1>11. CASE Step(s, "err") /\ (UNCHANGED faults \/ Fault) /\ UNCHANGED <<srv, hist>>
  <2>1. srv' \in Lists /\ \A f \in Fields \ job[s].set : Agree(srv'[k], srv[k], f)
    BY <1>4, <1>11 DEF Agree
  <2> QED
    BY <1>1, <1>3, <1>11, <2>1, ServedKeeps
<1> QED
  BY <1>5, <1>9, <1>10, <1>11

\* ProcessGroupDesk's manager also refuses to delete a group a rule refers to.
LEMMA RefusalKeeps ==
    ASSUME ConstantsOK, IInv, NEW s \in Slots, Answered(s, {"delete"}, "sent"), Step(s, "err"),
           UNCHANGED <<srv, hist, page, dialog, reads, faults, asked>>
    PROVE  IInv'
<1>1. job[s] # Idle /\ job[s].stage = "sent"
  BY DEF Answered
<1>2. PICK k \in Rules : job[s].on = k
  BY <1>1, HandlerType DEF IInv
<1>3. srv' \in Lists /\ \A f \in Fields \ job[s].set : Agree(srv'[k], srv[k], f)
  BY DeskTypes DEF IInv, Agree
<1> QED
  BY <1>1, <1>2, <1>3, ServedKeeps

-----------------------------------------------------------------------------
(* Operations end *)

\* Handler s, on rule k, ends and leaves its fields right, and all others as they are.
LEMMA HandlerEndsKeeps ==
    ASSUME ConstantsOK, IInv, NEW s \in Slots, job[s] # Idle, NEW k \in Rules, job[s].on = k,
           Ends(s), page' \in Pages, page'.loading = page.loading, page'.loaded = page.loaded,
           \A i \in Rules, f \in Fields \ job[s].set :
             FieldAgrees(i, f) => Agree(page'.list[i], page.list[i], f),
           \A i \in Rules \ {k}, f \in Fields :
             FieldAgrees(i, f) =>
               \/ Agree(page'.list[i], page.list[i], f)
               \/ /\ \A t \in Slots : ~Works(job[t], i, f)
                  /\ KnownRow(i)' => Agree(page'.list[i], srv[i], f),
           \A f \in job[s].set :
             FieldAgrees(k, f) /\ KnownRow(k)' => Agree(page'.list[k], srv[k], f),
           dialog' \in Dialogs, dialog'.saving => dialog.saving,
           dialog'.saving => ~(job[s].live /\ job[s].op \in Saves),
           UNCHANGED <<srv, hist, reads, faults, asked>>
    PROVE  IInv'
<1>1. OnlySlot(s) /\ job'[s] = Idle
  BY EndedHandler DEF IInv
<1>2. /\ TypeOK' /\ job' \in [Slots -> Handlers]
      /\ \A t \in Slots : job'[t] # Idle => HandlerIsWhole(job'[t])
  <2>1. srv' \in Lists /\ hist' \subseteq Rules \X Fields
    BY DeskTypes DEF IInv
  <2> QED
    BY <1>1, <2>1, HandlerMoves
<1>3. \A i \in Rules, f \in Fields : ~Works(job'[s], i, f) /\ ~Deletes(job'[s])
  BY <1>1 DEF Works, Deletes
<1>4. \A t \in Slots : Deletes(job'[t]) => job'[t] = job[t]
  BY <1>1, <1>3 DEF OnlySlot, Deletes
<1>5. ASSUME NEW i \in Rules, NEW f \in Fields, <<i, f>> \notin hist' PROVE FieldAgrees(i, f)'
  <2>1. FieldAgrees(i, f) /\ Agree(srv'[i], srv[i], f)
    BY <1>5 DEF IInv, FieldsAgree, Agree
  <2>2. CASE i = k /\ f \in job[s].set
    <3>1. \A t \in Slots : ~Works(job'[t], i, f)
      BY <1>1, <1>3, <2>1, <2>2 DEF FieldAgrees, OnlySlot, Works
    <3> QED
      BY <1>4, <2>1, <2>2, <3>1, FieldEnds
  <2>3. CASE i # k \/ f \notin job[s].set
    <3>1. ~Works(job[s], i, f)
      BY <2>3 DEF Works
    <3>2. CASE Agree(page'.list[i], page.list[i], f)
      BY <1>1, <1>3, <2>1, <3>1, <3>2, OtherField
    <3>3. CASE /\ \A t \in Slots : ~Works(job[t], i, f)
               /\ KnownRow(i)' => Agree(page'.list[i], srv[i], f)
      <4>1. \A t \in Slots : ~Works(job'[t], i, f)
        BY <1>1, <1>3, <3>3 DEF OnlySlot
      <4> QED
        BY <1>4, <2>1, <3>3, <4>1, FieldEnds
    <3> QED
      BY <2>1, <2>3, <3>2, <3>3
  <2> QED
    BY <2>2, <2>3
<1>6. BusyMeansWorking'
  <2>1. \A t \in Slots \ {s} : job'[t] = job[t]
    BY <1>1 DEF OnlySlot
  <2> QED
    BY <2>1 DEF IInv, BusyMeansWorking
<1> QED
  BY <1>2, <1>5, <1>6 DEF IInv, FieldsAgree

\* Handler s, on fields of rule k, has its answer.
LEMMA AnsweredHandler ==
    ASSUME IInv, NEW s \in Slots, NEW ops, NEW stage, Answered(s, ops, stage)
    PROVE  /\ job[s] # Idle /\ job[s].stage = stage /\ job[s].op \in ops
           /\ job[s].on \in Rules /\ job[s].set \in SUBSET Fields /\ job[s].row \in Rows
           /\ job[s].was \in Lists /\ job[s].was[job[s].on] \in Rows
           /\ job[s].live \in BOOLEAN /\ HandlerIsWhole(job[s])
           /\ page \in Pages /\ page.list \in Lists /\ dialog \in Dialogs
BY HandlerType, DeskTypes DEF Answered, IInv, Lists

\* What the invariant says of the fields the handler is about.
LEMMA AnsweredField ==
    ASSUME NEW s \in Slots, NEW k \in Rules, job[s] # Idle, job[s].on = k, NEW f \in job[s].set,
           FieldAgrees(k, f)
    PROVE  ManagerAgrees(k, f, job[s]) /\ (KnownRow(k) => ListAgrees(k, f, job[s]))
BY DEF FieldAgrees, Works

LEMMA ConfirmedKeeps ==
    ASSUME ConstantsOK, IInv, NEW s \in Slots, Confirmed(s), UNCHANGED asked
    PROVE  IInv'
<1>1. /\ Answered(s, InPlace \cup {"delete"}, "ok") /\ Ends(s)
      /\ UNCHANGED <<srv, hist, page, dialog, reads, faults>>
  BY DEF Confirmed
<1>2. /\ job[s] # Idle /\ job[s].stage = "ok" /\ job[s].op \in {"field", "delete"}
      /\ HandlerIsWhole(job[s]) /\ page \in Pages /\ dialog \in Dialogs
      /\ job[s].set \in SUBSET Fields
  BY <1>1, AnsweredHandler DEF InPlace
<1>3. PICK k \in Rules : job[s].on = k
  BY <1>1, AnsweredHandler
<1>4. ASSUME NEW f \in job[s].set, FieldAgrees(k, f), KnownRow(k)'
      PROVE  Agree(page'.list[k], srv[k], f)
  <2>1. ManagerAgrees(k, f, job[s]) /\ ListAgrees(k, f, job[s])
    BY <1>1, <1>2, <1>3, <1>4, AnsweredField DEF KnownRow
  <2>2. page'.list[k].there \in BOOLEAN /\ srv[k].there \in BOOLEAN
    BY <1>1, DeskTypes DEF IInv, Rows
  <2> QED
    BY <1>1, <1>2, <2>1, <2>2 DEF ManagerAgrees, ListAgrees, HandlerIsWhole, Agree
<1>5. \A i \in Rules, f \in Fields : Agree(page'.list[i], page.list[i], f)
  BY <1>1 DEF Agree
<1>6. "field" \notin Saves /\ "delete" \notin Saves
  BY DEF Saves
<1> QED
  BY <1>1, <1>2, <1>3, <1>4, <1>5, <1>6, HandlerEndsKeeps

LEMMA TakenBackKeeps ==
    ASSUME ConstantsOK, IInv, NEW s \in Slots, TakenBack(s), UNCHANGED asked
    PROVE  IInv'
<1>1. /\ Answered(s, InPlace \cup {"delete"}, "err") /\ Ends(s)
      /\ UNCHANGED <<srv, hist, dialog, reads, faults>>
  BY DEF TakenBack
<1>2. /\ job[s] # Idle /\ job[s].stage = "err" /\ job[s].op \in {"field", "delete"}
      /\ HandlerIsWhole(job[s]) /\ page \in Pages /\ dialog \in Dialogs
      /\ job[s].set \in SUBSET Fields /\ job[s].was \in Lists
  BY <1>1, AnsweredHandler DEF InPlace
<1>3. PICK k \in Rules : job[s].on = k
  BY <1>1, AnsweredHandler
<1>4. page' = [page EXCEPT !.list = IF job[s].op = "delete" THEN job[s].was
                                    ELSE Patch(k, job[s].set, job[s].was[k].val)]
  BY <1>3 DEF TakenBack
<1>5. "field" \notin Saves /\ "delete" \notin Saves
  BY DEF Saves
<1>6. srv \in Lists /\ srv[k].there \in BOOLEAN /\ job[s].was[k] \in Rows
  BY <1>2, DeskTypes DEF IInv, Rows, Lists
<1>7. CASE job[s].op = "delete"
  <2>1. /\ page' \in Pages /\ page'.list = job[s].was /\ page'.loading = page.loading
        /\ page'.loaded = page.loaded
    BY <1>2, <1>4, <1>7, PageListed
  <2>2. job[s].set = Fields /\ Deletes(job[s])
    BY <1>2, <1>7 DEF HandlerIsWhole, Deletes
  <2>3. ASSUME NEW f \in job[s].set, FieldAgrees(k, f), KnownRow(k)'
        PROVE  Agree(page'.list[k], srv[k], f)
    BY <1>2, <1>3, <1>7, <2>1, <2>3, AnsweredField DEF ManagerAgrees, Agree
  <2>4. ASSUME NEW i \in Rules \ {k}, NEW f \in Fields, FieldAgrees(i, f)
        PROVE  /\ \A t \in Slots : ~Works(job[t], i, f)
               /\ KnownRow(i)' => Agree(page'.list[i], srv[i], f)
    <3>1. DeletionAgrees(i, f, job[s])
      BY <2>2, <2>4 DEF FieldAgrees
    <3> QED
      BY <1>3, <2>1, <2>4, <3>1 DEF DeletionAgrees, KnownRow
  <2> QED
    BY <1>1, <1>2, <1>3, <1>5, <1>7, <2>1, <2>2, <2>3, <2>4, HandlerEndsKeeps
<1>8. CASE job[s].op = "field"
  <2> DEFINE v == job[s].was[k].val
             g == job[s].set
             l == Patch(k, g, v)
  <2>1. v \in [Fields -> Values] /\ g \in SUBSET Fields
    BY <1>2, <1>6 DEF Rows
  <2> HIDE DEF v, g
  <2>a. IsPatchedList(l, k, g, v)
    BY <1>2, <2>1, PatchedRow
  <2>2. /\ l \in Lists /\ \A i \in Rules \ {k} : l[i] = page.list[i]
        /\ l[k].there = page.list[k].there
        /\ \A f \in g : page.list[k].there => l[k].val[f] = v[f]
        /\ \A f \in Fields \ g : l[k].val[f] = page.list[k].val[f]
    BY <2>a DEF IsPatchedList
  <2>3. page' = [page EXCEPT !.list = l]
    BY <1>4, <1>8 DEF v, g
  <2> HIDE DEF l
  <2>4. /\ page' \in Pages /\ page'.list = l /\ page'.loading = page.loading
        /\ page'.loaded = page.loaded
    BY <1>2, <2>2, <2>3, PageListed
  <2>5. ASSUME NEW f \in job[s].set, FieldAgrees(k, f), KnownRow(k)'
        PROVE  Agree(page'.list[k], srv[k], f)
    <3>1. ManagerAgrees(k, f, job[s]) /\ ListAgrees(k, f, job[s])
      BY <1>2, <1>3, <2>2, <2>4, <2>5, AnsweredField DEF KnownRow
    <3>2. /\ page.list[k].there /\ job[s].was[k].there
          /\ srv[k].there = job[s].was[k].there /\ srv[k].val[f] = v[f]
      BY <1>2, <1>3, <1>8, <3>1 DEF ManagerAgrees, ListAgrees, HandlerIsWhole, Agree, InPlace, v
    <3>3. page.list[k].there \in BOOLEAN /\ f \in Fields
      BY <1>2, DeskTypes DEF IInv, Rows
    <3> QED
      BY <1>6, <2>2, <2>4, <3>2, <3>3 DEF Agree, g
  <2>6. /\ \A i \in Rules \ {k}, f \in Fields : Agree(page'.list[i], page.list[i], f)
        /\ \A f \in Fields \ job[s].set : Agree(page'.list[k], page.list[k], f)
    BY <2>2, <2>4 DEF Agree, g
  <2>7. \A i \in Rules, f \in Fields \ job[s].set : Agree(page'.list[i], page.list[i], f)
    BY <2>6
  <2> QED
    BY <1>1, <1>2, <1>3, <1>5, <1>8, <2>4, <2>5, <2>6, <2>7, HandlerEndsKeeps
<1> QED
  BY <1>2, <1>7, <1>8

LEMMA SaveFailedKeeps ==
    ASSUME ConstantsOK, IInv, NEW s \in Slots, SaveFailed(s), UNCHANGED asked
    PROVE  IInv'
<1>1. /\ Answered(s, Saves, "err") /\ Ends(s)
      /\ UNCHANGED <<srv, hist, page, reads, faults>>
  BY DEF SaveFailed
<1>2. /\ job[s] # Idle /\ job[s].stage = "err" /\ job[s].op \in Saves
      /\ page \in Pages /\ dialog \in Dialogs /\ job[s].live \in BOOLEAN
      /\ job[s].set \in SUBSET Fields
  BY <1>1, AnsweredHandler
<1>3. PICK k \in Rules : job[s].on = k
  BY <1>1, AnsweredHandler
<1> DEFINE saving == dialog.saving /\ ~job[s].live
<1>4. dialog' = [dialog EXCEPT !.saving = saving] /\ saving \in BOOLEAN
  BY DEF SaveFailed
<1>5. saving => dialog.saving /\ ~job[s].live
  OBVIOUS
<1> HIDE DEF saving
<1>6. dialog' \in Dialogs /\ dialog'.saving = saving
  BY <1>2, <1>4 DEF Dialogs
<1>7. ASSUME NEW f \in job[s].set, FieldAgrees(k, f), KnownRow(k)'
      PROVE  Agree(page'.list[k], srv[k], f)
  <2>1. ListAgrees(k, f, job[s])
    BY <1>1, <1>2, <1>3, <1>7, AnsweredField DEF KnownRow
  <2> QED
    BY <1>1, <1>2, <2>1 DEF ListAgrees
<1>8. \A i \in Rules, f \in Fields : Agree(page'.list[i], page.list[i], f)
  BY <1>1 DEF Agree
<1> QED
  BY <1>1, <1>2, <1>3, <1>5, <1>6, <1>7, <1>8, HandlerEndsKeeps

LEMMA SavedKeeps ==
    ASSUME ConstantsOK, IInv, NEW s \in Slots, Saved(s), UNCHANGED asked
    PROVE  IInv'
<1>1. /\ Answered(s, Saves, "ok") /\ Ends(s)
      /\ UNCHANGED <<srv, hist, reads, faults>>
  BY DEF Saved
<1>2. /\ job[s] # Idle /\ job[s].stage = "ok" /\ job[s].op \in Saves
      /\ HandlerIsWhole(job[s]) /\ page \in Pages /\ page.list \in Lists /\ dialog \in Dialogs
      /\ job[s].row \in Rows /\ job[s].live \in BOOLEAN
  BY <1>1, AnsweredHandler
<1>3. PICK k \in Rules : job[s].on = k
  BY <1>1, AnsweredHandler
<1>4. job[s].set = Fields /\ job[s].row.there
  BY <1>2 DEF HandlerIsWhole, Saves
<1>5. /\ dialog' \in Dialogs
      /\ dialog'.saving => dialog.saving /\ ~job[s].live
  <2>1. CASE job[s].live
    BY <1>2, <2>1 DEF Saved, Dialogs
  <2>2. CASE ~job[s].live
    BY <1>2, <2>2 DEF Saved, Dialogs
  <2> QED
    BY <2>1, <2>2
<1>6. srv[k].there \in BOOLEAN /\ job[s].row.there \in BOOLEAN
  BY <1>2, DeskTypes DEF IInv, Rows
<1>7. ASSUME NEW f \in Fields, FieldAgrees(k, f) PROVE Agree(srv[k], job[s].row, f)
  BY <1>2, <1>3, <1>4, <1>7, AnsweredField DEF ManagerAgrees
<1>8. CASE job[s].op = "create"
  <2>1. page' = [page EXCEPT !.list = [page.list EXCEPT ![k] = job[s].row]]
    BY <1>3, <1>8 DEF Saved
  <2>2. /\ page' \in Pages /\ page'.loading = page.loading /\ page'.loaded = page.loaded
        /\ page'.list[k] = job[s].row /\ \A i \in Rules \ {k} : page'.list[i] = page.list[i]
    BY <1>2, <2>1, RowListed
  <2>3. \A f \in Fields : FieldAgrees(k, f) => Agree(page'.list[k], srv[k], f)
    BY <1>7, <2>2 DEF Agree
  <2>4. \A i \in Rules \ {k}, f \in Fields : Agree(page'.list[i], page.list[i], f)
    BY <2>2 DEF Agree
  <2>7. /\ \A f \in job[s].set :
             FieldAgrees(k, f) /\ KnownRow(k)' => Agree(page'.list[k], srv[k], f)
        /\ \A i \in Rules, f \in Fields \ job[s].set :
             FieldAgrees(i, f) => Agree(page'.list[i], page.list[i], f)
        /\ \A i \in Rules \ {k}, f \in Fields :
             FieldAgrees(i, f) => Agree(page'.list[i], page.list[i], f)
    BY <1>4, <2>3, <2>4
  <2> QED
    BY <1>1, <1>2, <1>3, <1>5, <2>2, <2>7, HandlerEndsKeeps
<1>9. CASE job[s].op = "update"
  <2> DEFINE v == job[s].row.val
             g == Fields
             l == Patch(k, g, v)
  <2>1. v \in [Fields -> Values] /\ g \in SUBSET Fields
    BY <1>2 DEF Rows
  <2> HIDE DEF v, g
  <2>a. IsPatchedList(l, k, g, v)
    BY <1>2, <2>1, PatchedRow
  <2>2. /\ l \in Lists /\ \A i \in Rules \ {k} : l[i] = page.list[i]
        /\ l[k].there = page.list[k].there
        /\ \A f \in g : page.list[k].there => l[k].val[f] = v[f]
    BY <2>a DEF IsPatchedList
  <2>3. page' = [page EXCEPT !.list = l]
    BY <1>3, <1>9 DEF Saved, v, g
  <2> HIDE DEF l
  <2>4. /\ page' \in Pages /\ page'.list = l /\ page'.loading = page.loading
        /\ page'.loaded = page.loaded
    BY <1>2, <2>2, <2>3, PageListed
  <2>5. ASSUME NEW f \in Fields, FieldAgrees(k, f), KnownRow(k)'
        PROVE  Agree(page'.list[k], srv[k], f)
    <3>1. ListAgrees(k, f, job[s])
      BY <1>2, <1>3, <1>4, <2>2, <2>4, <2>5, AnsweredField DEF KnownRow
    <3>2. page.list[k].there
      BY <1>2, <1>9, <3>1 DEF ListAgrees
    <3>3. page.list[k].there \in BOOLEAN
      BY DeskTypes DEF IInv, Rows
    <3>4. srv[k].there = job[s].row.there /\ srv[k].val[f] = v[f]
      BY <1>7, <2>5 DEF Agree, v
    <3> QED
      BY <1>4, <1>6, <2>2, <2>4, <3>2, <3>3, <3>4 DEF Agree, g
  <2>6. \A i \in Rules \ {k}, f \in Fields : Agree(page'.list[i], page.list[i], f)
    BY <2>2, <2>4 DEF Agree
  <2>7. /\ \A f \in job[s].set :
             FieldAgrees(k, f) /\ KnownRow(k)' => Agree(page'.list[k], srv[k], f)
        /\ \A i \in Rules, f \in Fields \ job[s].set :
             FieldAgrees(i, f) => Agree(page'.list[i], page.list[i], f)
        /\ \A i \in Rules \ {k}, f \in Fields :
             FieldAgrees(i, f) => Agree(page'.list[i], page.list[i], f)
    BY <1>4, <2>5, <2>6
  <2> QED
    BY <1>1, <1>2, <1>3, <1>5, <2>4, <2>7, HandlerEndsKeeps
<1> QED
  BY <1>2, <1>8, <1>9 DEF Saves

-----------------------------------------------------------------------------
(* The tables *)

LEMMA RequestsKeep ==
    ASSUME ConstantsOK, IInv, Tabbed \in BOOLEAN, Requests, asked < MaxRequests,
           asked' = asked + 1
    PROVE  IInv'
BY ColleagueKeeps, ChangeFieldKeeps, DeleteKeeps, SubmitKeeps, RefreshKeeps DEF Requests

LEMMA ClicksKeep ==
    ASSUME IInv, Clicks, UNCHANGED asked
    PROVE  IInv'
BY OpenFormKeeps, CloseFormKeeps, SwitchTabKeeps DEF Clicks

LEMMA AnswersKeep ==
    ASSUME ConstantsOK, IInv, Answers, UNCHANGED asked
    PROVE  IInv'
BY ServeKeeps, ConfirmedKeeps, TakenBackKeeps, SavedKeeps, SaveFailedKeeps, PageLoadedKeeps
   DEF Answers

LEMMA IInvStep ==
    ASSUME ConstantsOK, Tabbed \in BOOLEAN, IInv, Next
    PROVE  IInv'
BY RequestsKeep, ClicksKeep, AnswersKeep DEF Next

LEMMA IInvStutter ==
    ASSUME IInv, UNCHANGED vars
    PROVE  IInv'
<1>1. UNCHANGED <<srv, hist, page, dialog, job, reads, asked, faults>>
  BY DEF vars
<1>2. dialog' \in Dialogs
  BY <1>1, DeskTypes DEF IInv
<1> QED
  BY <1>1, <1>2, DialogKeeps

\* A field that no operation is under way on is right.
LEMMA IInvExact ==
    ASSUME IInv
    PROVE  UncontestedFieldIsExact
<1> SUFFICES ASSUME page.loaded, NEW x \in (Rules \X Fields) \ hist, Running(x[1], x[2]) = {}
             PROVE  /\ page.list[x[1]].there = srv[x[1]].there
                    /\ page.list[x[1]].val[x[2]] = srv[x[1]].val[x[2]]
  BY DEF UncontestedFieldIsExact
<1>1. PICK i \in Rules, f \in Fields : x = <<i, f>>
  OBVIOUS
<1>2. FieldAgrees(i, f) /\ \A s \in Slots : ~Works(job[s], i, f)
  BY <1>1 DEF IInv, FieldsAgree, Running, Works
<1> QED
  BY <1>1, <1>2 DEF FieldAgrees, KnownRow, Agree

THEOREM Invariance == ASSUME ConstantsOK, Tabbed \in BOOLEAN PROVE Spec => []IInv
<1>1. Init => IInv
  BY IInvInit
<1>2. IInv /\ [Next]_vars => IInv'
  BY IInvStep, IInvStutter
<1> QED
  BY <1>1, <1>2, PTL DEF Spec

\* A field of a rule shows what the manager has once its operation is over, unless
\* two requests, or a request and a listing or a deletion, were about it at once:
\* whatever is refused or lost, for any fields and rules and however many handlers run.
THEOREM FieldsExact ==
    ASSUME ConstantsOK, Tabbed \in BOOLEAN PROVE Spec => []UncontestedFieldIsExact
<1>1. IInv => UncontestedFieldIsExact
  BY IInvExact
<1> QED
  BY <1>1, Invariance, PTL
=============================================================================
