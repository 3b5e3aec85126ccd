-------------------------- MODULE DashboardProofs --------------------------
(***************************************************************************)
(* Theorems about the arrays behind the views, for every set of Routemaps, *)
(* source refs, requests and collected inventories.                        *)
(***************************************************************************)
EXTENDS Dashboard, WellFoundedInduction, TLAPS

-----------------------------------------------------------------------------
(* The inductive invariant. *)

Published ==
    [key : Routemap, title : {c.title : c \in Collected}, auth : BOOLEAN,
     checked : BOOLEAN, paths : SUBSET Ref, cells : Seq(Cell)]

WorkerState ==
    [key : Routemap, new : Collected, old : Nat \cup {Nil}, next : Nat \ {0},
     prev : UNION {[refs -> Shown] : refs \in SUBSET Ref}]

DataOK ==
    /\ heap \in Seq(Published)
    /\ views \in [Routemap -> DOMAIN heap \cup {Nil}]
    /\ writer \in WriterState \cup {Nil}
    /\ worker \in WorkerState \cup {Nil}
    /\ worker # Nil => worker.old \in DOMAIN heap \cup {Nil}

\* The cells of one ref agree, those the writer is at excepted.
Agree(cells, except) ==
    \A i, j \in DOMAIN cells :
        cells[i].ref = cells[j].ref /\ cells[i].ref # except
            => cells[i].health = cells[j].health

\* The writer has written every cell of its ref before the one it is at.
Written ==
    writer # Nil =>
        /\ writer.view \in DOMAIN heap
        /\ writer.at \in DOMAIN heap[writer.view].cells
        /\ heap[writer.view].cells[writer.at].ref = writer.ref
        /\ \A j \in DOMAIN heap[writer.view].cells :
              j < writer.at /\ heap[writer.view].cells[j].ref = writer.ref
                 => heap[writer.view].cells[j].health = writer.state

Excepted(v) == IF writer # Nil /\ writer.view = v THEN writer.ref ELSE Nil

AgreeInv ==
    /\ DataOK
    /\ Written
    /\ \A v \in DOMAIN heap : Agree(heap[v].cells, Excepted(v))

-----------------------------------------------------------------------------
(* The index of the next endpoint of a ref. *)

LEMMA Least ==
    ASSUME NEW S, S \subseteq Nat, S # {}
    PROVE  \E x \in S : \A y \in S : x <= y
<1>1. \E x \in S : \A y \in S : ~(<<y, x>> \in OpToRel(<, Nat))
  BY WFMin, NatLessThanWellFounded
<1>2. \A x, y \in S : ~(<<y, x>> \in OpToRel(<, Nat)) => x <= y
  BY DEF OpToRel
<1> QED
  BY <1>1, <1>2

LEMMA NextIndex ==
    ASSUME NEW cells \in Seq(Cell), NEW ref, NEW i \in Nat \ {0}
    PROVE  LET n == Next1(cells, ref, i)
           IN  /\ n \in Nat
               /\ \A j \in DOMAIN cells : i <= j /\ j < n => cells[j].ref # ref
               /\ n <= Len(cells) => /\ n \in DOMAIN cells /\ n >= i
                                     /\ cells[n].ref = ref
               /\ n > Len(cells) => \A j \in DOMAIN cells : i <= j => cells[j].ref # ref
<1> DEFINE same == {j \in i..Len(cells) : cells[j].ref = ref}
           least == CHOOSE j \in same : \A other \in same : j <= other
<1>1. Len(cells) \in Nat /\ DOMAIN cells = 1..Len(cells)
  OBVIOUS
<1>2. CASE same = {}
  BY <1>1, <1>2 DEF Next1
<1>3. CASE same # {}
  <2>1. \E j \in same : \A other \in same : j <= other
    <3>1. same \subseteq Nat /\ same # {}
      BY <1>1, <1>3
    <3> HIDE DEF same
    <3> QED
      BY <3>1, Least
  <2>2. least \in same /\ \A other \in same : least <= other
    BY <2>1
  <2>3. Next1(cells, ref, i) = least
    BY <1>3 DEF Next1
  <2> HIDE DEF least
  <2> QED
    BY <1>1, <2>2, <2>3
<1> QED
  BY <1>2, <1>3

-----------------------------------------------------------------------------
(* One lemma for each operation on the arrays. *)

LEMMA CellsOf ==
    ASSUME AgreeInv, NEW v \in DOMAIN heap
    PROVE  /\ heap[v] \in Published /\ heap[v].cells \in Seq(Cell)
           /\ \A i \in DOMAIN heap[v].cells :
                /\ heap[v].cells[i].ref \in Ref /\ heap[v].cells[i].ref # Nil
                /\ heap[v].cells[i].health \in Shown
<1>1. heap[v] \in Published
  BY DEF AgreeInv, DataOK
<1>2. heap[v].cells \in Seq(Cell)
  BY <1>1 DEF Published
<1>3. ASSUME NEW i \in DOMAIN heap[v].cells PROVE heap[v].cells[i] \in Cell
  BY <1>2
<1> QED
  BY <1>1, <1>2, <1>3, DashboardAssumption DEF Cell

LEMMA AgreeInit == Init => AgreeInv
  BY DEF Init, AgreeInv, DataOK, Written

LEMMA LockStep ==
    ASSUME AgreeInv, NEW k \in Routemap, NEW ref \in Ref, NEW state \in HealthState,
           UpdateLock(k, ref, state)
    PROVE  AgreeInv'
<1> DEFINE v == views[k]
           first == Next1(heap[v].cells, ref, 1)
<1>1. v \in DOMAIN heap /\ v \in Nat /\ writer = Nil
  BY DEF UpdateLock, Unlocked, AgreeInv, DataOK
<1>2. heap[v].cells \in Seq(Cell)
  BY <1>1, CellsOf
<1> HIDE DEF v
<1>3. /\ first \in Nat
      /\ \A j \in DOMAIN heap[v].cells : 1 <= j /\ j < first => heap[v].cells[j].ref # ref
      /\ first <= Len(heap[v].cells) =>
            first \in DOMAIN heap[v].cells /\ heap[v].cells[first].ref = ref
  BY <1>2, NextIndex
<1>4. /\ first <= Len(heap[v].cells)
      /\ writer' = [view |-> v, ref |-> ref, state |-> state, at |-> first]
      /\ UNCHANGED <<heap, views, worker>>
  BY DEF UpdateLock, v
<1> HIDE DEF first
<1>5. writer' \in WriterState /\ writer' # Nil
  BY <1>1, <1>3, <1>4, NilWriterAssumption DEF WriterState
<1>6. Written'
  <2>1. \A j \in DOMAIN heap[v].cells : 1 <= j
    BY <1>2
  <2> QED
    BY <1>1, <1>3, <1>4, <2>1 DEF Written
<1>7. ASSUME NEW u \in DOMAIN heap PROVE Agree(heap[u].cells, Excepted(u)')
  BY <1>1, CellsOf DEF AgreeInv, Agree, Excepted
<1> QED
  BY <1>4, <1>5, <1>6, <1>7 DEF AgreeInv, DataOK

\* The write changes the health of one endpoint and nothing else.
LEMMA CellEffect ==
    ASSUME AgreeInv, UpdateCell
    PROVE  /\ heap' \in Seq(Published) /\ DOMAIN heap' = DOMAIN heap
           /\ writer.view \in DOMAIN heap
           /\ \A u \in DOMAIN heap : u # writer.view => heap'[u] = heap[u]
           /\ heap'[writer.view].key = heap[writer.view].key
           /\ heap'[writer.view].title = heap[writer.view].title
           /\ heap'[writer.view].auth = heap[writer.view].auth
           /\ DOMAIN heap'[writer.view].cells = DOMAIN heap[writer.view].cells
           /\ \A j \in DOMAIN heap[writer.view].cells :
                 /\ heap'[writer.view].cells[j].ref = heap[writer.view].cells[j].ref
                 /\ heap'[writer.view].cells[j].health =
                       IF j = writer.at THEN writer.state
                                        ELSE heap[writer.view].cells[j].health
<1> DEFINE v == writer.view
           i == writer.at
           cells == heap[v].cells
           new == heap'[v].cells
<1>1. /\ writer # Nil /\ writer \in WriterState
      /\ v \in DOMAIN heap /\ i \in DOMAIN cells
  BY DEF UpdateCell, Unlocked, AgreeInv, DataOK, Written
<1>2. /\ cells \in Seq(Cell) /\ heap \in Seq(Published) /\ i \in Nat \ {0}
      /\ writer.state \in HealthState
  BY <1>1, CellsOf DEF AgreeInv, DataOK, WriterState
<1>3. heap' = [heap EXCEPT ![v].cells[i].health = writer.state]
  BY DEF UpdateCell
<1>4. /\ heap' \in Seq(Published) /\ DOMAIN heap' = DOMAIN heap
      /\ \A u \in DOMAIN heap : u # v => heap'[u] = heap[u]
      /\ heap'[v].key = heap[v].key /\ heap'[v].title = heap[v].title
      /\ heap'[v].auth = heap[v].auth
      /\ new = [cells EXCEPT ![i].health = writer.state]
  <2> DEFINE new1 == [cells EXCEPT ![i].health = writer.state]
             pub == [heap[v] EXCEPT !.cells = new1]
  <2>1. new1 \in Seq(Cell)
    <3>1. [cells[i] EXCEPT !.health = writer.state] \in Cell
      <4>1. cells[i] \in Cell /\ writer.state \in Shown
        BY <1>1, <1>2 DEF Shown
      <4>2. \A c \in Cell, s \in Shown : [c EXCEPT !.health = s] \in Cell
        BY DEF Cell
      <4> QED
        BY <4>1, <4>2
    <3>2. \A c \in Cell : [cells EXCEPT ![i] = c] \in Seq(Cell)
      <4> HIDE DEF cells, i
      <4> QED
        BY <1>1, <1>2
    <3> QED
      BY <3>1, <3>2
  <2>2. heap[v] \in Published
    BY <1>1, CellsOf
  <2>3. /\ pub \in Published /\ pub.cells = new1
        /\ pub.key = heap[v].key /\ pub.title = heap[v].title
        /\ pub.auth = heap[v].auth
    <3> HIDE DEF new1
    <3> QED
      BY <2>1, <2>2 DEF Published
  <2>4. heap' = [heap EXCEPT ![v] = pub]
    BY <1>3
  <2> HIDE DEF pub, new1
  <2>5. /\ heap' \in Seq(Published) /\ DOMAIN heap' = DOMAIN heap
        /\ \A u \in DOMAIN heap : u # v => heap'[u] = heap[u]
        /\ heap'[v] = pub
    BY <1>1, <1>2, <2>3, <2>4
  <2> QED
    BY <2>3, <2>5 DEF new1
<1>5. /\ DOMAIN new = DOMAIN cells
      /\ \A j \in DOMAIN cells :
            /\ new[j].ref = cells[j].ref
            /\ new[j].health = IF j = i THEN writer.state ELSE cells[j].health
  <2>1. \A j \in DOMAIN cells : cells[j] \in Cell
    BY <1>2
  <2> HIDE DEF cells, new, i
  <2> QED
    BY <1>1, <1>4, <2>1 DEF Cell
<1> QED
  BY <1>1, <1>4, <1>5

LEMMA CellStep ==
    ASSUME AgreeInv, UpdateCell
    PROVE  AgreeInv'
<1> DEFINE v == writer.view
           i == writer.at
           ref == writer.ref
           cells == heap[v].cells
           later == Next1(cells, ref, i + 1)
           new == heap'[v].cells
<1>1. /\ writer # Nil /\ writer \in WriterState
      /\ v \in DOMAIN heap /\ i \in DOMAIN cells /\ cells[i].ref = ref
      /\ \A j \in DOMAIN cells : j < i /\ cells[j].ref = ref
            => cells[j].health = writer.state
  BY DEF UpdateCell, Unlocked, AgreeInv, DataOK, Written
<1>2. /\ cells \in Seq(Cell) /\ heap \in Seq(Published) /\ i \in Nat \ {0}
      /\ ref \in Ref /\ writer.state \in HealthState
  BY <1>1, CellsOf DEF AgreeInv, DataOK, WriterState
<1>3. /\ heap' = [heap EXCEPT ![v].cells[i].health = writer.state]
      /\ writer' = IF later > Len(cells) THEN Nil ELSE [writer EXCEPT !.at = later]
      /\ UNCHANGED <<views, worker>>
  BY DEF UpdateCell
<1>4. /\ later \in Nat
      /\ \A j \in DOMAIN cells : i < j /\ j < later => cells[j].ref # ref
      /\ later <= Len(cells) => later \in DOMAIN cells /\ later > i /\ cells[later].ref = ref
      /\ later > Len(cells) => \A j \in DOMAIN cells : i < j => cells[j].ref # ref
  <2>1. i + 1 \in Nat \ {0}
    BY <1>2
  <2>2. \A j \in DOMAIN cells : j \in Nat /\ (i < j <=> i + 1 <= j)
    BY <1>2
  <2> HIDE DEF i, cells, ref
  <2> QED
    BY <1>2, <2>1, <2>2, NextIndex
<1> HIDE DEF later
<1>5. /\ heap' \in Seq(Published) /\ DOMAIN heap' = DOMAIN heap
      /\ \A u \in DOMAIN heap : u # v => heap'[u] = heap[u]
  BY CellEffect
<1>6. /\ DOMAIN new = DOMAIN cells
      /\ \A j \in DOMAIN cells :
            /\ new[j].ref = cells[j].ref
            /\ new[j].health = IF j = i THEN writer.state ELSE cells[j].health
  BY CellEffect
<1>7. Agree(cells, ref)
  BY <1>1 DEF AgreeInv, Excepted
<1>8. ASSUME NEW u \in DOMAIN heap, u # v
      PROVE  Agree(heap'[u].cells, Excepted(u)')
  <2>1. Excepted(u) = Nil
    BY <1>8 DEF Excepted
  <2>2. Agree(heap[u].cells, Nil)
    BY <2>1 DEF AgreeInv
  <2> QED
    BY <1>5, <1>8, <2>2, CellsOf DEF Agree
<1> HIDE DEF new
<1>9. CASE later > Len(cells)
  <2>1. writer' = Nil
    BY <1>3, <1>9
  <2>2. \A u \in DOMAIN heap : u = v => Excepted(u)' = Nil
    BY <2>1 DEF Excepted
  <2>3. \A j \in DOMAIN cells : cells[j].ref = ref => new[j].health = writer.state
    <3>1. \A j \in DOMAIN cells : j \in Nat /\ (j < i \/ j = i \/ i < j)
      BY <1>2
    <3> QED
      BY <1>1, <1>4, <1>6, <1>9, <3>1
  <2>4. Agree(new, Nil)
    <3> HIDE DEF cells, ref, i
    <3> QED
      BY <1>1, <1>6, <1>7, <2>3 DEF Agree
  <2>5. \A u \in DOMAIN heap' : Agree(heap'[u].cells, Excepted(u)')
    <3> SUFFICES ASSUME NEW u \in DOMAIN heap PROVE Agree(heap'[u].cells, Excepted(u)')
      BY <1>5
    <3>1. CASE u = v
      BY <2>2, <2>4, <3>1 DEF new
    <3> QED
      BY <1>8, <3>1
  <2> QED
    BY <1>3, <1>5, <2>1, <2>5 DEF AgreeInv, DataOK, Written
<1>10. CASE ~(later > Len(cells))
  <2>1. writer' = [writer EXCEPT !.at = later]
    BY <1>3, <1>10
  <2>2. /\ writer' \in WriterState /\ writer' # Nil /\ writer'.view = v
        /\ writer'.ref = ref /\ writer'.at = later /\ writer'.state = writer.state
    BY <1>1, <1>4, <2>1, NilWriterAssumption DEF WriterState
  <2>3. /\ later \in DOMAIN cells /\ cells[later].ref = ref
        /\ \A j \in DOMAIN cells :
              j < later /\ cells[j].ref = ref => new[j].health = writer.state
    <3>1. later <= Len(cells)
      BY <1>2, <1>4, <1>10
    <3>2. \A j \in DOMAIN cells : j \in Nat /\ (j < i \/ j = i \/ i < j)
      BY <1>2
    <3> QED
      BY <1>1, <1>4, <1>6, <3>1, <3>2
  <2>4. Written'
    <3> HIDE DEF cells, ref, i, v
    <3> QED
      BY <1>1, <1>5, <1>6, <2>2, <2>3 DEF Written, new
  <2>5. \A u \in DOMAIN heap : u = v => Excepted(u)' = ref
    BY <2>2 DEF Excepted
  <2>6. Agree(new, ref)
    <3> HIDE DEF cells, ref, i
    <3> QED
      BY <1>1, <1>6, <1>7 DEF Agree
  <2>7. \A u \in DOMAIN heap' : Agree(heap'[u].cells, Excepted(u)')
    <3> SUFFICES ASSUME NEW u \in DOMAIN heap PROVE Agree(heap'[u].cells, Excepted(u)')
      BY <1>5
    <3>1. CASE u = v
      BY <2>5, <2>6, <3>1 DEF new
    <3> QED
      BY <1>8, <3>1
  <2> QED
    BY <1>3, <1>5, <2>2, <2>4, <2>7 DEF AgreeInv, DataOK
<1> QED
  BY <1>9, <1>10

LEMMA MergeGetStep ==
    ASSUME AgreeInv, NEW k \in Routemap, NEW collected \in Collected,
           MergeGet(k, collected)
    PROVE  AgreeInv'
<1>1. /\ worker' = [key |-> k, new |-> collected, old |-> views[k], next |-> 1,
                    prev |-> [ref \in {} |-> Nil]]
      /\ UNCHANGED <<heap, views, writer>>
  BY DEF MergeGet
<1>2. views[k] \in DOMAIN heap \cup {Nil} /\ DOMAIN heap \subseteq Nat
  BY DEF AgreeInv, DataOK
<1>3. [ref \in {} |-> Nil] \in UNION {[refs -> Shown] : refs \in SUBSET Ref}
  <2>1. [ref \in {} |-> Nil] \in [{} -> Shown] /\ {} \in SUBSET Ref
    OBVIOUS
  <2> QED
    BY <2>1
<1>4. worker' \in WorkerState /\ worker'.old = views[k]
  BY <1>1, <1>2, <1>3 DEF WorkerState
<1>5. DataOK'
  BY <1>1, <1>2, <1>4 DEF AgreeInv, DataOK
<1>6. Written' /\ \A v : Excepted(v)' = Excepted(v)
  BY <1>1 DEF AgreeInv, Written, Excepted
<1> QED
  BY <1>1, <1>5, <1>6 DEF AgreeInv

LEMMA MergeReadStep ==
    ASSUME AgreeInv, MergeRead
    PROVE  AgreeInv'
<1>1. /\ worker \in WorkerState /\ worker.old \in DOMAIN heap
      /\ worker.next \in Nat \ {0}
      /\ worker.next <= Len(heap[worker.old].cells)
      /\ UNCHANGED <<heap, views, writer>>
  BY DEF MergeRead, Merging, AgreeInv, DataOK, WorkerState
<1>2. worker.next \in DOMAIN heap[worker.old].cells
  BY <1>1, CellsOf
<1>3. PICK state \in Reads(worker.old, worker.next) :
         worker' = [worker EXCEPT
            !.next = worker.next + 1,
            !.prev = [x \in DOMAIN worker.prev \cup {heap[worker.old].cells[worker.next].ref} |->
                        IF x = heap[worker.old].cells[worker.next].ref
                        THEN state ELSE worker.prev[x]]]
  BY DEF MergeRead
<1> DEFINE ref == heap[worker.old].cells[worker.next].ref
           prev == [x \in DOMAIN worker.prev \cup {ref} |->
                      IF x = ref THEN state ELSE worker.prev[x]]
<1>4. /\ ref \in Ref
      /\ heap[worker.old].cells[worker.next].health \in Shown
  BY <1>1, <1>2, CellsOf
<1>5. writer # Nil => writer.state \in Shown
  BY DEF AgreeInv, DataOK, WriterState, Shown
<1>6. state \in Shown
  BY <1>4, <1>5 DEF Reads, Unlocked, Shown
<1>7. prev \in UNION {[refs -> Shown] : refs \in SUBSET Ref}
  <2>1. PICK refs \in SUBSET Ref : worker.prev \in [refs -> Shown]
    BY <1>1 DEF WorkerState
  <2>2. prev \in [refs \cup {ref} -> Shown] /\ refs \cup {ref} \in SUBSET Ref
    <3> HIDE DEF ref
    <3> QED
      BY <1>4, <1>6, <2>1
  <2> QED
    BY <2>2
<1> HIDE DEF prev
<1>8. worker' \in WorkerState /\ worker'.old = worker.old
  <2>1. worker' = [worker EXCEPT !.next = worker.next + 1, !.prev = prev]
    BY <1>3 DEF prev
  <2>2. \A w \in WorkerState, n \in Nat \ {0},
           p \in UNION {[refs -> Shown] : refs \in SUBSET Ref} :
              LET w2 == [w EXCEPT !.next = n, !.prev = p]
              IN  w2 \in WorkerState /\ w2.old = w.old
    BY DEF WorkerState
  <2>3. worker.next + 1 \in Nat \ {0}
    BY <1>1
  <2> QED
    BY <1>1, <1>7, <2>1, <2>2, <2>3
<1>9. DataOK'
  BY <1>1, <1>8 DEF AgreeInv, DataOK
<1>10. Written' /\ \A v : Excepted(v)' = Excepted(v)
  BY <1>1 DEF AgreeInv, Written, Excepted
<1> QED
  BY <1>1, <1>9, <1>10 DEF AgreeInv

LEMMA SetStep ==
    ASSUME AgreeInv, Set
    PROVE  AgreeInv'
<1> DEFINE new == Cells(worker.new.refs, worker.prev)
           view == [key |-> worker.key, title |-> worker.new.title,
                    auth |-> worker.new.auth, checked |-> worker.new.checked,
                    paths |-> worker.new.paths, cells |-> new]
<1>1. /\ worker \in WorkerState /\ writer = Nil
      /\ heap' = Append(heap, view)
      /\ views' = [views EXCEPT ![worker.key] = Len(heap) + 1]
      /\ worker' = Nil /\ writer' = Nil
  BY DEF Set, Unlocked, AgreeInv, DataOK
<1>2. worker.key \in Routemap /\ worker.new \in Collected
  BY <1>1 DEF WorkerState
<1>3. /\ worker.new.refs \in Seq(Ref) /\ worker.new.auth \in BOOLEAN
      /\ worker.new.checked \in BOOLEAN /\ worker.new.paths \in SUBSET Ref
  BY <1>2, DashboardAssumption
<1>4. new \in Seq(Cell)
  <2>1. PICK refs \in SUBSET Ref : worker.prev \in [refs -> Shown]
    BY <1>1 DEF WorkerState
  <2> DEFINE asked == worker.new.refs
             prev == worker.prev
  <2>2. asked \in Seq(Ref) /\ prev \in [refs -> Shown]
    BY <1>3, <2>1
  <2> HIDE DEF asked, prev
  <2>3. \A i \in 1..Len(asked) :
           [ref |-> asked[i],
            health |-> IF asked[i] \in DOMAIN prev THEN prev[asked[i]] ELSE "Unknown"]
              \in Cell
    BY <2>2 DEF Cell, Shown, HealthState
  <2>4. Cells(asked, prev) \in [1..Len(asked) -> Cell] /\ Len(asked) \in Nat
    BY <2>2, <2>3 DEF Cells
  <2>5. Cells(asked, prev) \in Seq(Cell)
    BY <2>4
  <2> QED
    BY <2>5 DEF asked, prev
<1>5. Agree(new, Nil)
  BY DEF Agree, Cells
<1> HIDE DEF new
<1>6. view \in Published /\ view.cells = new
  BY <1>2, <1>3, <1>4 DEF Published
<1> HIDE DEF view
<1>7. /\ heap \in Seq(Published) /\ heap' \in Seq(Published)
      /\ DOMAIN heap' = DOMAIN heap \cup {Len(heap) + 1}
      /\ heap'[Len(heap) + 1] = view
      /\ \A v \in DOMAIN heap : heap'[v] = heap[v]
  BY <1>1, <1>6 DEF AgreeInv, DataOK
<1>8. DataOK'
  BY <1>1, <1>2, <1>7 DEF AgreeInv, DataOK
<1>9. Written' /\ \A v : Excepted(v) = Nil /\ Excepted(v)' = Nil
  BY <1>1 DEF Written, Excepted
<1>10. \A v \in DOMAIN heap' : Agree(heap'[v].cells, Nil)
  BY <1>5, <1>6, <1>7, <1>9 DEF AgreeInv
<1> QED
  BY <1>8, <1>9, <1>10 DEF AgreeInv

\* Store.Delete forgets which view a Routemap has, and a request only reads.
LEMMA OtherStep ==
    ASSUME AgreeInv, UNCHANGED <<heap, writer, worker>>,
           views' \in [Routemap -> DOMAIN heap \cup {Nil}]
    PROVE  AgreeInv'
<1>1. DataOK'
  BY DEF AgreeInv, DataOK
<1>2. Written' /\ \A v : Excepted(v)' = Excepted(v)
  BY DEF AgreeInv, Written, Excepted
<1> QED
  BY <1>1, <1>2 DEF AgreeInv

LEMMA AgreeStep == AgreeInv /\ [Next]_vars => AgreeInv'
<1> SUFFICES ASSUME AgreeInv, [Next]_vars PROVE AgreeInv'
  OBVIOUS
<1>1. ASSUME NEW k \in Routemap, NEW ref \in Ref, Probe(k, ref) PROVE AgreeInv'
  BY <1>1, LockStep DEF Probe, HealthState
<1>2. CASE UpdateCell
  BY <1>2, CellStep
<1>3. ASSUME NEW k \in Routemap, NEW collected \in Collected, MergeGet(k, collected)
      PROVE  AgreeInv'
  BY <1>3, MergeGetStep
<1>4. CASE MergeRead
  BY <1>4, MergeReadStep
<1>5. CASE Set
  BY <1>5, SetStep
<1>6. ASSUME NEW k \in Routemap, Delete(k) PROVE AgreeInv'
  <2>1. views' \in [Routemap -> DOMAIN heap \cup {Nil}]
    BY <1>6 DEF Delete, AgreeInv, DataOK
  <2> QED
    BY <1>6, <2>1, OtherStep DEF Delete
<1>7. ASSUME UNCHANGED <<heap, views, writer, worker>> PROVE AgreeInv'
  <2>1. views' \in [Routemap -> DOMAIN heap \cup {Nil}]
    BY <1>7 DEF AgreeInv, DataOK
  <2> QED
    BY <1>7, <2>1, OtherStep
<1>8. ASSUME NEW r \in Request, NEW k \in Routemap,
             NEW tail \in {"", "api/endpoints", "callback"}, routeHandler(r, k, tail)
      PROVE  AgreeInv'
  BY <1>7, <1>8 DEF routeHandler
<1>9. ASSUME NEW r \in Request, Validate(r) \/ render(r) \/ Reply(r) \/ Finish(r)
      PROVE  AgreeInv'
  BY <1>7, <1>9 DEF Validate, render, Reply, Finish
<1>10. ASSUME NEW k \in Routemap, sync(k) \/ LoopReturns(k) PROVE AgreeInv'
  BY <1>7, <1>10 DEF sync, LoopReturns
<1>11. CASE UNCHANGED vars
  BY <1>7, <1>11 DEF vars
<1> QED
  BY <1>1, <1>2, <1>3, <1>4, <1>5, <1>6, <1>8, <1>9, <1>10, <1>11 DEF Next

-----------------------------------------------------------------------------
(***************************************************************************)
(* Whenever Store's mutex is free, the endpoints of one source ref in a    *)
(* view have the same health: UpdateEndpointHealth never leaves its loop   *)
(* half done, and what mergeHealth carries over, torn or not, is one state *)
(* for each ref.                                                           *)
(***************************************************************************)
THEOREM StatesAgree == Spec => []UniformWhenUnlocked
<1>1. AgreeInv => UniformWhenUnlocked
  <2> SUFFICES ASSUME AgreeInv, writer = Nil, NEW v \in DOMAIN heap,
                      NEW i \in DOMAIN heap[v].cells, NEW j \in DOMAIN heap[v].cells,
                      heap[v].cells[i].ref = heap[v].cells[j].ref
               PROVE  heap[v].cells[i].health = heap[v].cells[j].health
    BY DEF UniformWhenUnlocked, Unlocked
  <2>1. Agree(heap[v].cells, Nil)
    BY DEF AgreeInv, Excepted
  <2>2. heap[v].cells[i].ref # Nil
    BY CellsOf
  <2> QED
    BY <2>1, <2>2 DEF Agree
<1> QED
  BY AgreeInit, AgreeStep, <1>1, PTL DEF Spec

-----------------------------------------------------------------------------
(***************************************************************************)
(* Why a response is of one publication.  A request keeps the view it got  *)
(* from the store.  Neither a later Store.Set nor Store.Delete touches it: *)
(* only the health of its endpoints changes.  A request renders a prefix   *)
(* of its endpoints, and has been validated if the view asks for it.       *)
(***************************************************************************)

RequestState ==
    [pc    : {"idle", "validate", "render", "done", "callback"},
     key   : Routemap \cup {Nil},
     view  : Nat \cup {Nil},
     valid : BOOLEAN,
     title : {c.title : c \in Collected} \cup {Nil},
     list  : Seq(Cell)]

\* What is rendered of view.
Renders(q, view) ==
    /\ view.key = q.key
    /\ q.title \in {Nil, view.title}
    /\ Len(q.list) <= Len(view.cells)
    /\ \A i \in DOMAIN q.list : q.list[i].ref = view.cells[i].ref
    /\ view.auth /\ OIDC => q.pc = "validate" \/ q.valid
    /\ q.pc = "done" => Len(q.list) = Len(view.cells)

Answering(q) == q.pc \in {"validate", "render", "done"}

RequestsFollow ==
    /\ request \in [Request -> RequestState]
    /\ \A r \in Request : Answering(request[r]) =>
          /\ request[r].view \in DOMAIN heap
          /\ Renders(request[r], heap[request[r].view])

\* Store.data has a view under the key it was published for.
Named == \A k \in Routemap : views[k] # Nil => heap[views[k]].key = k

\* The reconciler has room for the view it is merging.
Room ==
    /\ Len(heap) <= MaxPublishes
    /\ worker # Nil => Len(heap) < MaxPublishes

Loops == loop \in [Routemap -> LoopState]

PublicationInv == AgreeInv /\ RequestsFollow /\ Named /\ Room /\ Loops

\* A published view keeps everything but the health of its endpoints.
Kept(v) ==
    /\ v \in DOMAIN heap'
    /\ heap'[v].key = heap[v].key
    /\ heap'[v].title = heap[v].title
    /\ heap'[v].auth = heap[v].auth
    /\ Len(heap'[v].cells) = Len(heap[v].cells)
    /\ \A i \in DOMAIN heap[v].cells :
          heap'[v].cells[i].ref = heap[v].cells[i].ref

LEMMA CellKeeps ==
    ASSUME AgreeInv, UpdateCell, NEW v \in DOMAIN heap PROVE Kept(v)
<1>1. CASE v # writer.view
  BY <1>1, CellEffect DEF Kept
<1>2. CASE v = writer.view
  <2>1. /\ heap[v].cells \in Seq(Cell) /\ heap'[v].cells \in Seq(Cell)
        /\ DOMAIN heap'[v].cells = DOMAIN heap[v].cells
    <3>1. heap'[v] \in Published
      BY CellEffect
    <3>2. heap'[v].cells \in Seq(Cell)
      BY <3>1 DEF Published
    <3> QED
      BY <1>2, <3>2, CellEffect, CellsOf
  <2>2. ASSUME NEW s \in Seq(Cell), NEW t \in Seq(Cell), DOMAIN s = DOMAIN t
        PROVE  Len(s) = Len(t)
    BY <2>2
  <2>3. Len(heap'[v].cells) = Len(heap[v].cells)
    BY <2>1, <2>2
  <2> QED
    BY <1>2, <2>3, CellEffect DEF Kept
<1> QED
  BY <1>1, <1>2

\* Requests that do not move keep to the view they have.
LEMMA RequestsStay ==
    ASSUME AgreeInv, RequestsFollow, UNCHANGED request,
           \A v \in DOMAIN heap : Kept(v)
    PROVE  RequestsFollow'
<1>1. ASSUME NEW r \in Request, Answering(request[r])
      PROVE  /\ request[r].view \in DOMAIN heap'
             /\ Renders(request[r], heap'[request[r].view])
  <2>1. PICK q \in RequestState : q = request[r]
    BY DEF RequestsFollow
  <2>2. PICK v \in DOMAIN heap : v = request[r].view
    BY <1>1 DEF RequestsFollow
  <2>3. Renders(q, heap[v])
    BY <1>1, <2>1, <2>2 DEF RequestsFollow
  <2>4. \A i \in DOMAIN q.list : i \in DOMAIN heap[v].cells
    <3>1. q.list \in Seq(Cell) /\ heap[v].cells \in Seq(Cell)
      BY CellsOf DEF RequestState
    <3>2. Len(q.list) <= Len(heap[v].cells)
      BY <2>3 DEF Renders
    <3>3. ASSUME NEW s \in Seq(Cell), NEW t \in Seq(Cell), Len(s) <= Len(t)
          PROVE  \A i \in DOMAIN s : i \in DOMAIN t
      BY <3>3
    <3> QED
      BY <3>1, <3>2, <3>3
  <2>5. Kept(v)
    OBVIOUS
  <2>6. Renders(q, heap'[v])
    BY <2>3, <2>4, <2>5 DEF Renders, Kept
  <2> QED
    BY <2>1, <2>2, <2>5, <2>6 DEF Kept
<1> QED
  BY <1>1 DEF RequestsFollow, Answering, Renders

\* One request moves on.
LEMMA RequestMoves ==
    ASSUME RequestsFollow, UNCHANGED heap, NEW r \in Request, NEW q \in RequestState,
           Answering(q) => q.view \in DOMAIN heap /\ Renders(q, heap[q.view]),
           request' = [request EXCEPT ![r] = q]
    PROVE  RequestsFollow'
<1>1. request' \in [Request -> RequestState]
  BY DEF RequestsFollow
<1>2. ASSUME NEW p \in Request
      PROVE  Answering(request'[p]) =>
                /\ request'[p].view \in DOMAIN heap
                /\ Renders(request'[p], heap[request'[p].view])
  BY DEF RequestsFollow
<1> QED
  BY <1>1, <1>2 DEF RequestsFollow, Answering, Renders

LEMMA IdleRequestType ==
    IdleRequest \in RequestState /\ ~Answering(IdleRequest)
<1>1. <<>> \in Seq(Cell)
  OBVIOUS
<1> QED
  BY <1>1 DEF IdleRequest, RequestState, Answering

\* What a read of a health state in a view gives is a text it may hold.
LEMMA ReadsShown ==
    ASSUME AgreeInv, NEW v \in DOMAIN heap, NEW i \in DOMAIN heap[v].cells
    PROVE  Reads(v, i) \subseteq Shown
<1>1. heap[v].cells[i].health \in Shown
  BY CellsOf
<1>2. writer # Nil => writer.state \in Shown
  BY DEF AgreeInv, DataOK, WriterState, Shown
<1> QED
  BY <1>1, <1>2 DEF Reads, Unlocked, Shown

LEMMA RouteFollows ==
    ASSUME PublicationInv, NEW r \in Request, NEW k \in Routemap,
           NEW tail, routeHandler(r, k, tail)
    PROVE  RequestsFollow'
<1> DEFINE v == views[k]
           title == IF tail = "api/endpoints" THEN Nil ELSE heap[v].title
           pc == IF tail = "callback" /\ OIDC THEN "callback"
                 ELSE IF heap[v].auth /\ OIDC THEN "validate"
                 ELSE "render"
           q == [IdleRequest EXCEPT !.key = k, !.view = v, !.title = title, !.pc = pc]
<1>1. v \in DOMAIN heap /\ v \in Nat /\ heap[v].key = k /\ heap \in Seq(Published)
  BY DEF routeHandler, PublicationInv, AgreeInv, DataOK, Named
<1>2. heap[v] \in Published /\ heap[v].cells \in Seq(Cell)
  BY <1>1, CellsOf DEF PublicationInv
<1>3. /\ title \in {c.title : c \in Collected} \cup {Nil}
      /\ title \in {Nil, heap[v].title}
  BY <1>2 DEF Published
<1>4. /\ pc \in {"callback", "validate", "render"}
      /\ heap[v].auth /\ OIDC => pc \in {"callback", "validate"}
  OBVIOUS
<1>5. request' = [request EXCEPT ![r] = q] /\ UNCHANGED heap
  BY DEF routeHandler
<1> HIDE DEF pc, title, v
<1>6. /\ IdleRequest \in RequestState /\ IdleRequest.list = <<>>
      /\ pc \in {"idle", "validate", "render", "done", "callback"}
  BY <1>4, IdleRequestType DEF IdleRequest
<1>7. /\ q \in RequestState
      /\ q.pc = pc /\ q.key = k /\ q.view = v /\ q.title = title /\ q.list = <<>>
  BY <1>1, <1>3, <1>6 DEF RequestState
<1> HIDE DEF q
<1>8. Answering(q) => Renders(q, heap[v])
  <2>1. Len(q.list) = 0 /\ DOMAIN q.list = {}
    BY <1>7
  <2>2. Len(heap[v].cells) \in Nat
    BY <1>2
  <2> QED
    BY <1>1, <1>3, <1>4, <1>7, <2>1, <2>2 DEF Renders, Answering
<1> QED
  BY <1>1, <1>5, <1>7, <1>8, RequestMoves DEF PublicationInv

\* The steps of a request that has its view.
LEMMA AnswerFollows ==
    ASSUME PublicationInv, NEW r \in Request,
           Validate(r) \/ render(r) \/ Reply(r) \/ Finish(r)
    PROVE  RequestsFollow'
<1>1. /\ UNCHANGED heap
      /\ request \in [Request -> RequestState] /\ request[r] \in RequestState
      /\ Answering(request[r]) => /\ request[r].view \in DOMAIN heap
                                  /\ Renders(request[r], heap[request[r].view])
  BY DEF Validate, render, Reply, Finish, PublicationInv, RequestsFollow
<1>2. CASE request' = [request EXCEPT ![r] = IdleRequest]
  BY <1>1, <1>2, IdleRequestType, RequestMoves DEF PublicationInv
<1>3. CASE /\ request[r].pc = "validate"
           /\ request' = [request EXCEPT ![r].pc = "render", ![r].valid = TRUE]
  <2> DEFINE q == [request[r] EXCEPT !.pc = "render", !.valid = TRUE]
  <2>1. /\ q \in RequestState /\ q.pc = "render" /\ q.valid
        /\ q.key = request[r].key /\ q.view = request[r].view
        /\ q.title = request[r].title /\ q.list = request[r].list
    BY <1>1 DEF RequestState
  <2>2. request' = [request EXCEPT ![r] = q]
    BY <1>1, <1>3
  <2> HIDE DEF q
  <2>3. q.view \in DOMAIN heap /\ Renders(q, heap[q.view])
    BY <1>1, <1>3, <2>1 DEF Renders, Answering
  <2> QED
    BY <1>1, <2>1, <2>2, <2>3, RequestMoves DEF PublicationInv
<1>4. CASE render(r)
  <2> DEFINE v == request[r].view
             old == request[r].list
             i == Len(old) + 1
  <2>1. /\ request[r].pc = "render" /\ i <= Len(heap[v].cells)
        /\ v \in DOMAIN heap /\ Renders(request[r], heap[v])
    BY <1>1, <1>4 DEF render, Answering
  <2>2. PICK state \in Reads(v, i) :
           request' = [request EXCEPT ![r].list =
                          Append(@, [ref |-> heap[v].cells[i].ref, health |-> state])]
    BY <1>4 DEF render
  <2>3. /\ old \in Seq(Cell) /\ heap[v].cells \in Seq(Cell)
        /\ i \in DOMAIN heap[v].cells
    <3>1. old \in Seq(Cell) /\ heap[v].cells \in Seq(Cell)
      BY <1>1, <2>1, CellsOf DEF RequestState, PublicationInv
    <3> HIDE DEF old, v
    <3> QED
      BY <2>1, <3>1
  <2> DEFINE cell == [ref |-> heap[v].cells[i].ref, health |-> state]
             new == Append(old, cell)
             q == [request[r] EXCEPT !.list = new]
  <2>4. cell \in Cell /\ cell.ref = heap[v].cells[i].ref
    <3>1. heap[v].cells[i].ref \in Ref /\ state \in Shown
      BY <2>1, <2>2, <2>3, CellsOf, ReadsShown DEF PublicationInv
    <3> HIDE DEF v, i
    <3> QED
      BY <3>1 DEF Cell
  <2>5. /\ new \in Seq(Cell) /\ Len(new) = i
        /\ \A j \in DOMAIN new :
              new[j] = IF j = i THEN cell ELSE old[j]
        /\ \A j \in DOMAIN new : j = i \/ j \in DOMAIN old
    <3> HIDE DEF cell, old
    <3> QED
      BY <2>3, <2>4
  <2>6. request' = [request EXCEPT ![r] = q]
    BY <1>1, <2>2
  <2> HIDE DEF new
  <2>7. /\ q \in RequestState /\ q.list = new /\ q.pc = "render"
        /\ q.key = request[r].key /\ q.view = v
        /\ q.title = request[r].title /\ q.valid = request[r].valid
    BY <1>1, <2>1, <2>5 DEF RequestState
  <2> HIDE DEF q, cell, old, v, i
  <2>8. \A j \in DOMAIN new : new[j].ref = heap[v].cells[j].ref
    BY <2>1, <2>4, <2>5 DEF Renders, old
  <2>9. Renders(q, heap[v])
    BY <2>1, <2>5, <2>7, <2>8 DEF Renders
  <2> QED
    BY <1>1, <2>1, <2>6, <2>7, <2>9, RequestMoves DEF PublicationInv
<1>5. CASE Reply(r)
  <2> DEFINE v == request[r].view
             q == [request[r] EXCEPT !.pc = "done"]
  <2>1. /\ request[r].pc = "render" /\ Len(request[r].list) >= Len(heap[v].cells)
        /\ v \in DOMAIN heap /\ Renders(request[r], heap[v])
        /\ request' = [request EXCEPT ![r] = q]
    BY <1>1, <1>5 DEF Reply, Answering
  <2>2. /\ q \in RequestState /\ q.list = request[r].list /\ q.pc = "done"
        /\ q.key = request[r].key /\ q.view = v
        /\ q.title = request[r].title /\ q.valid = request[r].valid
    BY <1>1 DEF RequestState
  <2>3. Len(q.list) = Len(heap[v].cells)
    <3>1. request[r].list \in Seq(Cell) /\ heap[v].cells \in Seq(Cell)
      BY <1>1, <2>1, CellsOf DEF RequestState, PublicationInv
    <3>2. Len(request[r].list) \in Nat /\ Len(heap[v].cells) \in Nat
      BY <3>1
    <3>3. Len(request[r].list) <= Len(heap[v].cells)
      BY <2>1 DEF Renders
    <3> QED
      BY <2>1, <2>2, <3>2, <3>3
  <2> HIDE DEF q, v
  <2>4. Renders(q, heap[v])
    BY <2>1, <2>2, <2>3 DEF Renders
  <2> QED
    BY <1>1, <2>1, <2>2, <2>4, RequestMoves DEF PublicationInv
<1> QED
  BY <1>2, <1>3, <1>4, <1>5 DEF Validate, Finish

\* Every step keeps the views that are published.
LEMMA ViewsKept ==
    ASSUME AgreeInv, [Next]_vars, NEW v \in DOMAIN heap
    PROVE  Kept(v)
<1>1. CASE UpdateCell
  BY <1>1, CellKeeps
<1>2. CASE Set
  <2>1. heap \in Seq(Published)
    BY DEF AgreeInv, DataOK
  <2>2. PICK new : heap' = Append(heap, new)
    BY <1>2 DEF Set
  <2>3. v \in DOMAIN heap' /\ heap'[v] = heap[v]
    BY <2>1, <2>2
  <2> QED
    BY <2>3 DEF Kept
<1>3. CASE UNCHANGED heap
  BY <1>3 DEF Kept
<1> QED
  BY <1>1, <1>2, <1>3
     DEF Next, Probe, UpdateLock, sync, LoopReturns, MergeGet, MergeRead, Delete,
         routeHandler, Validate, render, Reply, Finish, vars

LEMMA NamedStep == PublicationInv /\ [Next]_vars => Named'
<1> SUFFICES ASSUME PublicationInv, [Next]_vars, NEW k \in Routemap, views'[k] # Nil
             PROVE  heap'[views'[k]].key = k
  BY DEF Named
<1>1. ASSUME views'[k] = views[k] PROVE heap'[views'[k]].key = k
  <2>1. views[k] \in DOMAIN heap /\ heap[views[k]].key = k
    BY <1>1 DEF PublicationInv, AgreeInv, DataOK, Named
  <2> QED
    BY <1>1, <2>1, ViewsKept DEF Kept, PublicationInv
<1>2. CASE Set
  <2>1. /\ heap \in Seq(Published) /\ views \in [Routemap -> DOMAIN heap \cup {Nil}]
        /\ views' = [views EXCEPT ![worker.key] = Len(heap) + 1]
    BY <1>2 DEF Set, PublicationInv, AgreeInv, DataOK
  <2>2. PICK new : heap' = Append(heap, new) /\ new.key = worker.key
    BY <1>2 DEF Set
  <2>3. heap'[Len(heap) + 1] = new
    BY <2>1, <2>2
  <2>4. CASE k = worker.key
    BY <2>1, <2>2, <2>3, <2>4
  <2>5. CASE k # worker.key
    BY <1>1, <2>1, <2>5
  <2> QED
    BY <2>4, <2>5
<1>3. ASSUME NEW j \in Routemap, Delete(j) PROVE heap'[views'[k]].key = k
  BY <1>1, <1>3 DEF Delete, PublicationInv, AgreeInv, DataOK
<1>4. CASE UNCHANGED views
  BY <1>1, <1>4
<1> QED
  BY <1>2, <1>3, <1>4
     DEF Next, Probe, UpdateLock, UpdateCell, sync, LoopReturns, MergeGet, MergeRead,
         routeHandler, Validate, render, Reply, Finish, vars

LEMMA RoomStep == PublicationInv /\ [Next]_vars => Room'
<1> SUFFICES ASSUME PublicationInv, [Next]_vars PROVE Room'
  OBVIOUS
<1>1. /\ Len(heap) \in Nat /\ MaxPublishes \in Nat /\ heap \in Seq(Published)
      /\ Len(heap) <= MaxPublishes
      /\ worker # Nil => Len(heap) < MaxPublishes
  BY DashboardAssumption DEF PublicationInv, AgreeInv, DataOK, Room
<1>2. CASE UpdateCell
  <2>1. heap' \in Seq(Published) /\ DOMAIN heap' = DOMAIN heap
    BY <1>2, CellEffect DEF PublicationInv
  <2>2. ASSUME NEW s \in Seq(Published), NEW t \in Seq(Published), DOMAIN s = DOMAIN t
        PROVE  Len(s) = Len(t)
    BY <2>2
  <2>3. Len(heap') = Len(heap)
    BY <1>1, <2>1, <2>2
  <2> QED
    BY <1>1, <1>2, <2>3 DEF UpdateCell, Room
<1>3. CASE Set
  <2>1. worker # Nil /\ worker' = Nil
    BY <1>3 DEF Set
  <2>2. PICK new : heap' = Append(heap, new)
    BY <1>3 DEF Set
  <2>3. Len(heap') = Len(heap) + 1
    BY <1>1, <2>2
  <2> QED
    BY <1>1, <2>1, <2>3 DEF Room
<1>4. ASSUME NEW k \in Routemap, NEW collected \in Collected, MergeGet(k, collected)
      PROVE  Room'
  BY <1>1, <1>4 DEF MergeGet, Room
<1>5. CASE MergeRead
  BY <1>1, <1>5 DEF MergeRead, Merging, Room
<1>6. CASE UNCHANGED <<heap, worker>>
  BY <1>1, <1>6 DEF Room
<1> QED
  BY <1>2, <1>3, <1>4, <1>5, <1>6
     DEF Next, Probe, UpdateLock, sync, LoopReturns, Delete, routeHandler, Validate,
         render, Reply, Finish, vars

LEMMA LoopsStep == Loops /\ [Next]_vars => Loops'
<1> SUFFICES ASSUME Loops, [Next]_vars PROVE Loops'
  OBVIOUS
<1>1. ASSUME NEW k \in Routemap, sync(k) \/ LoopReturns(k) PROVE Loops'
  BY <1>1 DEF sync, LoopReturns, Loops, LoopState
<1>2. CASE UNCHANGED loop
  BY <1>2 DEF Loops
<1> QED
  BY <1>1, <1>2
     DEF Next, Probe, UpdateLock, UpdateCell, MergeGet, MergeRead, Set, Delete,
         routeHandler, Validate, render, Reply, Finish, vars

LEMMA PublicationInit == Init => PublicationInv
<1> SUFFICES ASSUME Init PROVE PublicationInv
  OBVIOUS
<1>1. AgreeInv
  BY AgreeInit
<1>2. RequestsFollow
  BY IdleRequestType DEF Init, RequestsFollow
<1>3. Named /\ Room /\ Loops
  BY DashboardAssumption DEF Init, Named, Room, Loops, LoopState
<1> QED
  BY <1>1, <1>2, <1>3 DEF PublicationInv

LEMMA PublicationStep == PublicationInv /\ [Next]_vars => PublicationInv'
<1> SUFFICES ASSUME PublicationInv, [Next]_vars PROVE PublicationInv'
  OBVIOUS
<1>1. AgreeInv' /\ Named' /\ Room' /\ Loops'
  BY AgreeStep, NamedStep, RoomStep, LoopsStep DEF PublicationInv
<1>2. RequestsFollow'
  <2>1. CASE UNCHANGED request
    BY <2>1, ViewsKept, RequestsStay DEF PublicationInv
  <2>2. ASSUME NEW r \in Request, NEW k \in Routemap,
               NEW tail \in {"", "api/endpoints", "callback"}, routeHandler(r, k, tail)
        PROVE  RequestsFollow'
    BY <2>2, RouteFollows
  <2>3. ASSUME NEW r \in Request, Validate(r) \/ render(r) \/ Reply(r) \/ Finish(r)
        PROVE  RequestsFollow'
    BY <2>3, AnswerFollows
  <2> QED
    BY <2>1, <2>2, <2>3
       DEF Next, Probe, UpdateLock, UpdateCell, sync, LoopReturns, MergeGet, MergeRead,
           Set, Delete, vars
<1> QED
  BY <1>1, <1>2 DEF PublicationInv

(***************************************************************************)
(* The data of the dashboard stay of their kinds: a request that validates *)
(* or renders holds a view, so routeHandler never renders without one from *)
(* Store.Get, and the views of Store.data are views that were published.   *)
(***************************************************************************)
THEOREM TypeCorrect == Spec => []TypeOK
<1>1. PublicationInv => TypeOK
  <2> SUFFICES ASSUME PublicationInv PROVE TypeOK
    OBVIOUS
  <2>1. \A v \in DOMAIN heap : heap[v].cells \in Seq(Cell)
    BY CellsOf DEF PublicationInv
  <2>2. \A r \in Request :
           request[r].pc \in {"validate", "render", "done"}
              => request[r].view \in DOMAIN heap
    BY DEF PublicationInv, RequestsFollow, Answering
  <2> QED
    BY <2>1, <2>2 DEF TypeOK, PublicationInv, AgreeInv, DataOK, Room, Loops
<1> QED
  BY PublicationInit, PublicationStep, <1>1, PTL DEF Spec

(***************************************************************************)
(* A response of routeHandler is of one publication of the Routemap that   *)
(* was asked for, whatever Store.Set, Store.Delete and the probes do while *)
(* it is rendered, and was validated if that publication asks for it.      *)
(***************************************************************************)
THEOREM ResponsesOfOne == Spec => []OnePublication
<1>1. PublicationInv => OnePublication
  <2> SUFFICES ASSUME PublicationInv, NEW r \in Request, request[r].pc = "done"
               PROVE  \E v \in DOMAIN heap :
                         /\ heap[v].key = request[r].key
                         /\ request[r].title \in {Nil, heap[v].title}
                         /\ DOMAIN request[r].list = DOMAIN heap[v].cells
                         /\ \A i \in DOMAIN heap[v].cells :
                               request[r].list[i].ref = heap[v].cells[i].ref
                         /\ heap[v].auth /\ OIDC => request[r].valid
    BY DEF OnePublication
  <2>1. PICK q \in RequestState : q = request[r]
    BY DEF PublicationInv, RequestsFollow
  <2>2. PICK v \in DOMAIN heap : v = q.view /\ Renders(q, heap[v])
    BY <2>1 DEF PublicationInv, RequestsFollow, Answering
  <2>3. DOMAIN q.list = DOMAIN heap[v].cells
    <3>1. q.list \in Seq(Cell) /\ heap[v].cells \in Seq(Cell)
      BY CellsOf DEF RequestState, PublicationInv
    <3>2. Len(q.list) = Len(heap[v].cells)
      BY <2>1, <2>2 DEF Renders
    <3>3. ASSUME NEW s \in Seq(Cell), NEW t \in Seq(Cell), Len(s) = Len(t)
          PROVE  DOMAIN s = DOMAIN t
      BY <3>3
    <3> QED
      BY <3>1, <3>2, <3>3
  <2> WITNESS v \in DOMAIN heap
  <2> QED
    BY <2>1, <2>2, <2>3 DEF Renders
<1> QED
  BY PublicationInit, PublicationStep, <1>1, PTL DEF Spec
=============================================================================
