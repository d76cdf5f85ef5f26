----------------------------- MODULE StequeProofs ------------------------------
(***************************************************************************)
(* Proofs about the linked list for any set of items and any finite heap:  *)
(* its fields agree, and it is the sequence that steque.h promises.        *)
(***************************************************************************)
EXTENDS Steque, FiniteSetTheorems, SequenceTheorems, WellFoundedInduction, TLAPS

(***************************************************************************)
(* The inductive invariant.  WellLinked alone is not inductive: it looks   *)
(* at the list through the walk from the front, and says nothing of a cell *)
(* that is met twice, whose free would leave a link into freed memory.     *)
(* Linked looks at the heap instead: there is an order of the cells that   *)
(* the links follow, and an operation changes that order at its ends.      *)
(***************************************************************************)

TypeOK ==
  /\ node \in [Addr -> Node]
  /\ alloc \subseteq Addr
  /\ front \in Addr \cup {Null} /\ back \in Addr \cup {Null}
  /\ N \in Nat
  /\ ret \in Item \cup {Null}
  /\ destroying \in BOOLEAN /\ exited \in BOOLEAN

(* The links follow the order, which has no cell twice and no other than
   those that are allocated. *)
Linked(order) ==
  /\ front = IF N = 0 THEN Null ELSE order[1]
  /\ back = IF N = 0 THEN Null ELSE order[N]
  /\ \A i \in 1..N : node[order[i]].next = IF i = N THEN Null ELSE order[i + 1]
  /\ \A i, j \in 1..N : order[i] = order[j] => i = j
  /\ alloc = {order[i] : i \in 1..N}

(* The number of cells is what the list says it is. *)
Counted == N = Cardinality(alloc)

IInv == /\ TypeOK
        /\ Counted
        /\ \E order \in [1..N -> Addr] : Linked(order)

----------------------------------------------------------------------------
(* The walk from the front *)

(* A set of numbers has a least element. *)
LEMMA LeastNumber ==
  ASSUME NEW T, T \subseteq Nat, T # {}
  PROVE  \E x \in T : \A y \in T : x <= y
<1> DEFINE R == {ss \in Nat \X Nat : ss[1] < ss[2]}
<1>0. IsWellFoundedOn(R, Nat)
  BY NatLessThanWellFounded DEF OpToRel
<1>1. PICK x \in T : \A y \in T : ~(<<y, x>> \in R)
  <2> HIDE DEF R
  <2> QED
    BY <1>0, WFMin
<1>2. ASSUME NEW y \in T PROVE x <= y
  <2>1. x \in Nat /\ y \in Nat /\ ~(<<y, x>> \in R)
    BY <1>1
  <2> QED
    BY <2>1
<1> QED
  BY <1>2

(* The walk in a heap, whatever the heap. *)
Walk(first, cells) ==
  CHOOSE c : c = [i \in Nat |-> IF i <= 1 THEN first
                                ELSE LET p == c[i - 1]
                                     IN  IF p = Null THEN Null ELSE cells[p].next]

(* The links lead from the first cell through the order to Null. *)
Chain(first, cells, n, order) ==
  /\ first = IF n = 0 THEN Null ELSE order[1]
  /\ \A i \in 1..n : cells[order[i]].next = IF i = n THEN Null ELSE order[i + 1]

(* The walk follows the order and stays on Null behind it.  That the recursion
   has a solution is seen by giving one; that there is no other, from the
   first place where the walk would leave it. *)
LEMMA WalkFollows ==
  ASSUME NEW n \in Nat, NEW order \in [1..n -> Addr], NEW first, NEW cells,
         Chain(first, cells, n, order)
  PROVE  /\ \A i \in 1..n : Walk(first, cells)[i] = order[i]
         /\ Walk(first, cells)[n + 1] = Null
<1> DEFINE After(c, i) == IF i <= 1 THEN first
                          ELSE LET p == c[i - 1]
                               IN  IF p = Null THEN Null ELSE cells[p].next
           met == [i \in Nat |-> IF i = 0 THEN first ELSE IF i <= n THEN order[i] ELSE Null]
<1>1. \A i \in 1..n : order[i] \in Addr /\ order[i] # Null
  BY NullAssumption
<1>2. ASSUME NEW i \in Nat PROVE met[i] = After(met, i)
  <2>1. CASE i <= 1
    BY <2>1, <1>1 DEF Chain
  <2>2. CASE i > 1 /\ i - 1 <= n
    <3>1. i - 1 \in 1..n /\ met[i - 1] = order[i - 1] /\ i - 1 \in Nat
      BY <2>2
    <3>2. After(met, i) = cells[order[i - 1]].next
      BY <2>2, <3>1, <1>1
    <3>3. cells[order[i - 1]].next = IF i - 1 = n THEN Null ELSE order[i]
      BY <3>1 DEF Chain
    <3> QED
      BY <2>2, <3>1, <3>2, <3>3
  <2>3. CASE i > 1 /\ i - 1 > n
    <3>1. i - 1 \in Nat /\ met[i - 1] = Null /\ met[i] = Null
      BY <2>3
    <3> QED
      BY <2>3, <3>1
  <2> QED
    BY <2>1, <2>2, <2>3
<1>3. met = [i \in Nat |-> After(met, i)]
  <2>1. met = [i \in Nat |-> met[i]]
    OBVIOUS
  <2> HIDE DEF met, After
  <2> QED
    BY <1>2, <2>1
<1> DEFINE w == CHOOSE c : c = [i \in Nat |-> After(c, i)]
<1>4. w = [i \in Nat |-> After(w, i)]
  BY <1>3
<1>5. w = Walk(first, cells)
  BY DEF Walk
<1> HIDE DEF w, met
<1> DEFINE Off == {i \in Nat : w[i] # met[i]}
<1>6. Off = {}
  <2> SUFFICES ASSUME Off # {} PROVE FALSE
    OBVIOUS
  <2>1. PICK i \in Off : \A j \in Off : i <= j
    <3>1. Off \subseteq Nat
      OBVIOUS
    <3> HIDE DEF Off
    <3> QED
      BY <3>1, LeastNumber
  <2>2. i \in Nat /\ w[i] # met[i] /\ w[i] = After(w, i) /\ met[i] = After(met, i)
    BY <1>2, <1>4, <2>1
  <2>3. i > 1
    BY <2>2
  <2>4. i - 1 \in Nat /\ ~(i <= i - 1)
    BY <2>2
  <2>5. w[i - 1] = met[i - 1]
    BY <2>1, <2>3, <2>4
  <2> QED
    BY <2>2, <2>5
<1>7. \A i \in 1..n : met[i] = order[i]
  BY DEF met
<1>8. met[n + 1] = Null
  BY DEF met
<1> QED
  BY <1>5, <1>6, <1>7, <1>8

(* What the walk and Contents see of a list whose cells have this order. *)
Seen(order) == /\ \A i \in 1..N : cell[i] = order[i]
               /\ cell[N + 1] = Null
               /\ Contents = [i \in 1..N |-> node[order[i]].item]

Agrees == \A order \in [1..N -> Addr] : Linked(order) => Seen(order)

(* Whatever the order, the walk from the front meets its cells. *)
LEMMA OrderIsSeen == TypeOK => Agrees
<1> SUFFICES ASSUME TypeOK, NEW order \in [1..N -> Addr], Linked(order) PROVE Seen(order)
  BY DEF Agrees
<1>1. N \in Nat
  BY DEF TypeOK
<1>2. Chain(front, node, N, order)
  BY DEF Linked, Chain
<1>3. cell = Walk(front, node)
  BY DEF cell, Walk
<1>4. (\A i \in 1..N : cell[i] = order[i]) /\ cell[N + 1] = Null
  <2>1. (\A i \in 1..N : Walk(front, node)[i] = order[i]) /\ Walk(front, node)[N + 1] = Null
    <3>1. \A n \in Nat : \A o \in [1..n -> Addr] : \A f, c : Chain(f, c, n, o) =>
             (\A i \in 1..n : Walk(f, c)[i] = o[i]) /\ Walk(f, c)[n + 1] = Null
      BY WalkFollows
    <3> QED
      BY <1>1, <1>2, <3>1
  <2> QED
    BY <1>3, <2>1
<1>5. \A i \in 1..N : (IF cell[i] = Null THEN Null ELSE node[cell[i]].item) = node[order[i]].item
  BY <1>4, NullAssumption
<1>6. Contents = [i \in 1..N |-> node[order[i]].item]
  BY <1>5 DEF Contents
<1> QED
  BY <1>4, <1>6 DEF Seen

(* The same after a step. *)
LEMMA OrderIsSeenNext == TypeOK' => Agrees'
  BY OrderIsSeen, PTL

(* The list is empty when front or back says so. *)
LEMMA EmptyList ==
  ASSUME TypeOK, NEW order \in [1..N -> Addr], Linked(order)
  PROVE  /\ front = Null <=> N = 0
         /\ back = Null <=> N = 0
<1>1. N \in Nat
  BY DEF TypeOK
<1>2. N # 0 => order[1] \in Addr /\ order[N] \in Addr
  BY <1>1
<1> QED
  BY <1>2, NullAssumption DEF Linked

----------------------------------------------------------------------------
(* Steps on the list: each one keeps the invariant and does to the contents
   what StequeOps says. *)

(* A cell that malloc hands out is in no list, so the count follows. *)
LEMMA CountUp ==
  ASSUME TypeOK, Counted, NEW a \in Addr \ alloc, alloc' = alloc \cup {a}, N' = N + 1
  PROVE  Counted' /\ N < Cardinality(Addr)
<1>1. IsFiniteSet(alloc)
  BY HeapAssumption, FS_Subset DEF TypeOK
<1>2. Cardinality(alloc \cup {a}) = Cardinality(alloc) + 1
  BY <1>1, FS_AddElement
<1>3. Cardinality(alloc) <= Cardinality(Addr) /\ Cardinality(alloc) # Cardinality(Addr)
  BY HeapAssumption, FS_Subset DEF TypeOK
<1>4. Cardinality(alloc) \in Nat /\ Cardinality(Addr) \in Nat
  BY <1>1, HeapAssumption, FS_CardinalityType
<1> QED
  BY <1>2, <1>3, <1>4 DEF Counted

(* steque_enqueue puts the new cell behind all others. *)
LEMMA EnqueueStep ==
  ASSUME IInv, NEW x \in Item, Enqueue(x)
  PROVE  IInv' /\ Contents' = Append(Contents, x) /\ N < Cardinality(Addr)
<1>1. PICK order \in [1..N -> Addr] : Linked(order)
  BY DEF IInv
<1>2. PICK a \in Addr \ alloc :
        /\ alloc' = alloc \cup {a}
        /\ node' = LET new == [node EXCEPT ![a] = [item |-> x, next |-> Null]]
                   IN  IF back = Null THEN new ELSE [new EXCEPT ![back].next = a]
        /\ front' = IF back = Null THEN a ELSE front
        /\ back' = a
  BY DEF Enqueue
<1>3. N' = N + 1 /\ UNCHANGED <<ret, destroying, exited>>
  BY DEF Enqueue
<1>4. TypeOK /\ Counted /\ N \in Nat
  BY DEF IInv, TypeOK
<1>5. Counted' /\ N < Cardinality(Addr)
  BY <1>2, <1>3, <1>4, CountUp
<1>6. back = Null <=> N = 0
  BY <1>1, <1>4, EmptyList
<1>7. /\ node' \in [Addr -> Node]
      /\ \A c \in Addr : /\ node'[c].next = IF c = a THEN Null ELSE IF c = back THEN a ELSE node[c].next
                         /\ node'[c].item = IF c = a THEN x ELSE node[c].item
  <2> DEFINE new == [node EXCEPT ![a] = [item |-> x, next |-> Null]]
  <2>1. back # a
    <3>1. N # 0 => order[N] \in alloc
      BY <1>1, <1>4 DEF Linked
    <3> QED
      BY <1>1, <1>2, <3>1, NullAssumption DEF Linked
  <2>2. /\ new \in [Addr -> Node]
        /\ \A c \in Addr : new[c] = IF c = a THEN [item |-> x, next |-> Null] ELSE node[c]
    BY <1>2, <1>4 DEF TypeOK, Node
  <2> HIDE DEF new
  <2>3. CASE back = Null
    BY <1>2, <2>2, <2>3, NullAssumption DEF new
  <2>4. CASE back # Null
    <3>1. back \in Addr /\ node' = [new EXCEPT ![back].next = a]
      BY <1>2, <1>4, <2>4 DEF TypeOK, new
    <3>2. node' \in [Addr -> Node]
      <4>1. new[back] \in Node
        BY <2>2, <3>1
      <4>2. [new[back] EXCEPT !.next = a] \in Node
        BY <1>2, <4>1 DEF Node
      <4>3. node' = [new EXCEPT ![back] = [new[back] EXCEPT !.next = a]]
        BY <3>1
      <4> QED
        BY <2>2, <3>1, <4>2, <4>3
    <3>3. ASSUME NEW c \in Addr
          PROVE  /\ node'[c].next = IF c = back THEN a ELSE new[c].next
                 /\ node'[c].item = new[c].item
      BY <2>2, <3>1 DEF Node
    <3> QED
      BY <2>1, <2>2, <3>2, <3>3
  <2> QED
    BY <2>3, <2>4
<1>8. TypeOK'
  BY <1>2, <1>3, <1>4, <1>7 DEF TypeOK
<1>9. PICK o : o = [i \in 1..N + 1 |-> IF i = N + 1 THEN a ELSE order[i]]
  OBVIOUS
<1>10. o \in [1..N' -> Addr]
  BY <1>3, <1>4, <1>9
<1>11. /\ \A i \in 1..N : o[i] = order[i] /\ order[i] \in alloc /\ order[i] # a
       /\ o[N + 1] = a
  BY <1>1, <1>2, <1>4, <1>9 DEF Linked
<1>12. Linked(o)'
  <2>1. front' = o[1] /\ back' = o[N + 1]
    BY <1>1, <1>2, <1>4, <1>6, <1>11 DEF Linked
  <2>2. ASSUME NEW i \in 1..N + 1
        PROVE  node'[o[i]].next = IF i = N + 1 THEN Null ELSE o[i + 1]
    <3>1. CASE i = N + 1
      BY <1>2, <1>7, <1>11, <3>1
    <3>2. CASE i # N + 1
      <4>1. i \in 1..N /\ i + 1 \in 1..N + 1 /\ order[i] \in Addr
        BY <1>4, <3>2
      <4>2. i = N <=> order[i] = back
        <5>1. N \in 1..N /\ back = order[N]
          BY <1>1, <1>4, <4>1 DEF Linked
        <5> QED
          BY <1>1, <4>1, <5>1 DEF Linked
      <4>3. node'[order[i]].next = IF i = N THEN a ELSE node[order[i]].next
        BY <1>7, <1>11, <4>1, <4>2
      <4>4. i # N => node[order[i]].next = order[i + 1] /\ o[i + 1] = order[i + 1]
        BY <1>1, <1>4, <1>11, <4>1 DEF Linked
      <4> QED
        BY <1>11, <3>2, <4>1, <4>3, <4>4
    <3> QED
      BY <3>1, <3>2
  <2>3. \A i, j \in 1..N + 1 : o[i] = o[j] => i = j
    <3>1. \A i \in 1..N + 1 : i = N + 1 \/ i \in 1..N
      BY <1>4
    <3> QED
      BY <1>1, <1>11, <3>1 DEF Linked
  <2>4. alloc' = {o[i] : i \in 1..N + 1}
    <3>1. 1..N + 1 = 1..N \cup {N + 1}
      BY <1>4
    <3> QED
      BY <1>1, <1>2, <1>11, <3>1 DEF Linked
  <2> QED
    BY <1>3, <1>4, <2>1, <2>2, <2>3, <2>4 DEF Linked
<1>13. IInv'
  BY <1>5, <1>8, <1>10, <1>12 DEF IInv
<1>14. Contents' = Append(Contents, x)
  <2>1. Contents = [i \in 1..N |-> node[order[i]].item]
    BY <1>1, <1>4, OrderIsSeen DEF Agrees, Seen
  <2>2. Contents' = [i \in 1..N + 1 |-> node'[o[i]].item]
    <3>1. Seen(o)'
      BY <1>8, <1>10, <1>12, OrderIsSeenNext DEF Agrees
    <3> QED
      BY <1>3, <3>1 DEF Seen
  <2>3. ASSUME NEW i \in 1..N + 1
        PROVE  node'[o[i]].item = IF i = N + 1 THEN x ELSE node[order[i]].item
    BY <1>2, <1>4, <1>7, <1>11
  <2> QED
    BY <1>4, <2>1, <2>2, <2>3
<1> QED
  BY <1>5, <1>13, <1>14

(* steque_push puts the new cell before all others. *)
LEMMA PushStep ==
  ASSUME IInv, NEW x \in Item, Push(x)
  PROVE  IInv' /\ Contents' = << x >> \o Contents /\ N < Cardinality(Addr)
<1>1. PICK order \in [1..N -> Addr] : Linked(order)
  BY DEF IInv
<1>2. PICK a \in Addr \ alloc :
        /\ alloc' = alloc \cup {a}
        /\ node' = [node EXCEPT ![a] = [item |-> x, next |-> front]]
        /\ back' = IF back = Null THEN a ELSE back
        /\ front' = a
  BY DEF Push
<1>3. N' = N + 1 /\ UNCHANGED <<ret, destroying, exited>>
  BY DEF Push
<1>4. TypeOK /\ Counted /\ N \in Nat
  BY DEF IInv, TypeOK
<1>5. Counted' /\ N < Cardinality(Addr)
  BY <1>2, <1>3, <1>4, CountUp
<1>6. back = Null <=> N = 0
  BY <1>1, <1>4, EmptyList
<1>7. /\ node' \in [Addr -> Node]
      /\ \A c \in Addr : node'[c] = IF c = a THEN [item |-> x, next |-> front] ELSE node[c]
  BY <1>2, <1>4 DEF TypeOK, Node
<1>8. TypeOK'
  BY <1>2, <1>3, <1>4, <1>7 DEF TypeOK
<1>9. PICK o : o = [i \in 1..N + 1 |-> IF i = 1 THEN a ELSE order[i - 1]]
  OBVIOUS
<1>10. o \in [1..N' -> Addr]
  BY <1>3, <1>4, <1>9
<1>11. /\ \A i \in 2..N + 1 : o[i] = order[i - 1]
       /\ o[1] = a
       /\ \A i \in 1..N : order[i] \in Addr /\ order[i] \in alloc /\ order[i] # a
       /\ \A i \in 1..N + 1 : i = 1 \/ i \in 2..N + 1
       /\ \A i \in 2..N + 1 : i - 1 \in 1..N
  BY <1>1, <1>2, <1>4, <1>9 DEF Linked
<1>12. Linked(o)'
  <2>1. front' = o[1] /\ back' = o[N + 1]
    BY <1>1, <1>2, <1>4, <1>6, <1>11 DEF Linked
  <2>2. ASSUME NEW i \in 1..N + 1
        PROVE  node'[o[i]].next = IF i = N + 1 THEN Null ELSE o[i + 1]
    <3>1. CASE i = 1
      <4>1. node'[o[i]].next = front
        BY <1>2, <1>7, <1>11, <3>1
      <4>2. N # 0 => o[2] = order[1]
        BY <1>4, <1>11
      <4> QED
        BY <1>1, <1>4, <3>1, <4>1, <4>2 DEF Linked
    <3>2. CASE i # 1
      <4>1. i \in 2..N + 1 /\ i - 1 \in 1..N /\ o[i] = order[i - 1]
        BY <1>11, <3>2
      <4>2. node'[o[i]].next = node[order[i - 1]].next
        BY <1>7, <1>11, <4>1
      <4>3. node[order[i - 1]].next = IF i - 1 = N THEN Null ELSE order[i]
        BY <1>1, <1>4, <4>1 DEF Linked
      <4>4. i # N + 1 => o[i + 1] = order[i]
        BY <1>4, <1>11, <4>1
      <4> QED
        BY <1>4, <4>2, <4>3, <4>4
    <3> QED
      BY <3>1, <3>2
  <2>3. \A i, j \in 1..N + 1 : o[i] = o[j] => i = j
    <3>1. \A i, j \in 2..N + 1 : o[i] = o[j] => i = j
      BY <1>1, <1>4, <1>11 DEF Linked
    <3> QED
      BY <1>11, <3>1
  <2>4. alloc' = {o[i] : i \in 1..N + 1}
    <3>1. \A c \in alloc : \E i \in 1..N + 1 : c = o[i]
      <4>1. \A c \in alloc : \E i \in 1..N : c = order[i]
        BY <1>1 DEF Linked
      <4>2. \A i \in 1..N : i + 1 \in 2..N + 1 /\ i + 1 \in 1..N + 1 /\ o[i + 1] = order[i]
        BY <1>4, <1>11
      <4> QED
        BY <4>1, <4>2
    <3>2. 1 \in 1..N + 1
      BY <1>4
    <3> QED
      BY <1>2, <1>11, <3>1, <3>2
  <2> QED
    BY <1>3, <1>4, <2>1, <2>2, <2>3, <2>4 DEF Linked
<1>13. IInv'
  BY <1>5, <1>8, <1>10, <1>12 DEF IInv
<1>14. Contents' = << x >> \o Contents
  <2>1. Contents = [i \in 1..N |-> node[order[i]].item]
    BY <1>1, <1>4, OrderIsSeen DEF Agrees, Seen
  <2>2. Contents' = [i \in 1..N + 1 |-> node'[o[i]].item]
    <3>1. Seen(o)'
      BY <1>8, <1>10, <1>12, OrderIsSeenNext DEF Agrees
    <3> QED
      BY <1>3, <3>1 DEF Seen
  <2>3. ASSUME NEW i \in 1..N + 1
        PROVE  node'[o[i]].item = IF i = 1 THEN x ELSE node[order[i - 1]].item
    BY <1>2, <1>4, <1>7, <1>11
  <2> QED
    BY <1>4, <2>1, <2>2, <2>3
<1> QED
  BY <1>5, <1>13, <1>14

(* steque_pop takes the first cell out and gives its memory back. *)
LEMMA RemoveFrontStep ==
  ASSUME IInv, RemoveFront,
         ret' \in Item \cup {Null}, destroying' \in BOOLEAN, exited' \in BOOLEAN
  PROVE  /\ IInv'
         /\ Contents # << >> /\ Head(Contents) = node[front].item
         /\ Contents' = Tail(Contents)
<1>1. PICK order \in [1..N -> Addr] : Linked(order)
  BY DEF IInv
<1>2. /\ front # Null /\ front' = node[front].next
      /\ back' = IF front' = Null THEN Null ELSE back
      /\ alloc' = alloc \ {front} /\ N' = N - 1 /\ node' = node
  BY DEF RemoveFront
<1>3. TypeOK /\ Counted /\ N \in Nat
  BY DEF IInv, TypeOK
<1>4. N \in Nat \ {0} /\ front = order[1] /\ back = order[N]
  <2>1. N # 0
    BY <1>1, <1>2, <1>3, EmptyList
  <2> QED
    BY <1>1, <1>3, <2>1 DEF Linked
<1>5. \A i \in 1..N : order[i] \in Addr /\ order[i] # Null
  BY NullAssumption
<1>6. front' = IF N = 1 THEN Null ELSE order[2]
  <2>1. 1 \in 1..N
    BY <1>4
  <2> QED
    BY <1>1, <1>2, <1>4, <2>1 DEF Linked
<1>7. front' = Null <=> N = 1
  BY <1>4, <1>5, <1>6
<1>8. Counted'
  <2>1. IsFiniteSet(alloc)
    BY <1>3, HeapAssumption, FS_Subset DEF TypeOK
  <2>2. front \in alloc
    BY <1>1, <1>4 DEF Linked
  <2> QED
    BY <1>2, <1>3, <2>1, <2>2, FS_RemoveElement DEF Counted
<1>9. TypeOK'
  <2>1. front' \in Addr \cup {Null}
    BY <1>4, <1>5, <1>6
  <2> QED
    BY <1>2, <1>3, <1>4, <2>1 DEF TypeOK
<1>10. PICK o : o = [i \in 1..N - 1 |-> order[i + 1]]
  OBVIOUS
<1>11. /\ o \in [1..N' -> Addr]
       /\ \A i \in 1..N - 1 : i + 1 \in 1..N /\ o[i] = order[i + 1]
  BY <1>2, <1>4, <1>10
<1>12. Linked(o)'
  <2>1. /\ front' = IF N - 1 = 0 THEN Null ELSE o[1]
        /\ back' = IF N - 1 = 0 THEN Null ELSE o[N - 1]
    BY <1>2, <1>4, <1>6, <1>7, <1>11
  <2>2. ASSUME NEW i \in 1..N - 1
        PROVE  node[o[i]].next = IF i = N - 1 THEN Null ELSE o[i + 1]
    <3>1. node[order[i + 1]].next = IF i + 1 = N THEN Null ELSE order[i + 1 + 1]
      BY <1>1, <1>11 DEF Linked
    <3>2. i # N - 1 => o[i + 1] = order[i + 1 + 1]
      BY <1>4, <1>11
    <3> QED
      BY <1>4, <1>11, <3>1, <3>2
  <2>3. \A i, j \in 1..N - 1 : o[i] = o[j] => i = j
    <3>1. \A i, j \in 1..N - 1 : o[i] = o[j] => i + 1 = j + 1
      BY <1>1, <1>11 DEF Linked
    <3> QED
      BY <3>1
  <2>4. alloc' = {o[i] : i \in 1..N - 1}
    <3>1. ASSUME NEW c \in alloc' PROVE \E i \in 1..N - 1 : c = o[i]
      <4>1. PICK i \in 1..N : c = order[i]
        BY <1>1, <1>2, <3>1 DEF Linked
      <4>2. i - 1 \in 1..N - 1 /\ o[i - 1] = order[i]
        BY <1>2, <1>4, <1>11, <3>1, <4>1
      <4> QED
        BY <4>1, <4>2
    <3>2. ASSUME NEW i \in 1..N - 1 PROVE o[i] \in alloc'
      <4>1. 1 \in 1..N /\ i + 1 # 1
        BY <1>4
      <4>2. order[i + 1] # order[1] /\ order[i + 1] \in alloc
        BY <1>1, <1>11, <4>1 DEF Linked
      <4> QED
        BY <1>2, <1>4, <1>11, <4>2
    <3> QED
      BY <3>1, <3>2
  <2> QED
    BY <1>2, <2>1, <2>2, <2>3, <2>4 DEF Linked
<1>13. IInv'
  BY <1>8, <1>9, <1>11, <1>12 DEF IInv
<1>14. Contents = [i \in 1..N |-> node[order[i]].item]
  BY <1>1, <1>3, OrderIsSeen DEF Agrees, Seen
<1>15. Contents' = [i \in 1..N - 1 |-> node[o[i]].item]
  <2>1. Seen(o)'
    BY <1>9, <1>11, <1>12, OrderIsSeenNext DEF Agrees
  <2> QED
    BY <1>2, <2>1 DEF Seen
<1>16. Contents # << >> /\ Head(Contents) = node[front].item
  BY <1>4, <1>14
<1>17. Contents' = Tail(Contents)
  BY <1>4, <1>11, <1>14, <1>15
<1> QED
  BY <1>13, <1>16, <1>17

(* A step that leaves the list alone leaves its contents alone. *)
LEMMA SameList ==
  ASSUME IInv, UNCHANGED list,
         ret' \in Item \cup {Null}, destroying' \in BOOLEAN, exited' \in BOOLEAN
  PROVE  IInv' /\ Contents' = Contents
<1>1. PICK order \in [1..N -> Addr] : Linked(order)
  BY DEF IInv
<1>2. node' = node /\ alloc' = alloc /\ front' = front /\ back' = back /\ N' = N
  BY DEF list
<1>3. TypeOK' /\ Counted'
  BY <1>2 DEF IInv, TypeOK, Counted
<1>4. order \in [1..N' -> Addr] /\ Linked(order)'
  BY <1>1, <1>2 DEF Linked
<1>5. Contents = [i \in 1..N |-> node[order[i]].item]
  BY <1>1, OrderIsSeen DEF IInv, Agrees, Seen
<1>6. Contents' = [i \in 1..N' |-> node'[order[i]].item]
  BY <1>3, <1>4, OrderIsSeenNext DEF Agrees, Seen
<1> QED
  BY <1>2, <1>3, <1>4, <1>5, <1>6 DEF IInv

(* What front, back and N say of the contents. *)
LEMMA FieldsTell ==
  ASSUME IInv
  PROVE  /\ N = Len(Contents)
         /\ Contents = << >> <=> N = 0
         /\ Contents = << >> <=> front = Null
         /\ Contents = << >> <=> back = Null
         /\ Contents # << >> => Head(Contents) = node[front].item
<1>1. PICK order \in [1..N -> Addr] : Linked(order)
  BY DEF IInv
<1>2. N \in Nat /\ (front = Null <=> N = 0) /\ (back = Null <=> N = 0)
  BY <1>1, EmptyList DEF IInv, TypeOK
<1>3. N # 0 => front = order[1]
  BY <1>1 DEF Linked
<1>4. Contents = [i \in 1..N |-> node[order[i]].item]
  BY <1>1, OrderIsSeen DEF IInv, Agrees, Seen
<1>5. PICK c : c = Contents
  OBVIOUS
<1>6. PICK n \in Nat : n = N /\ c = [i \in 1..n |-> node[order[i]].item]
  BY <1>2, <1>4, <1>5
<1>7. Len(c) = n
  BY <1>6
<1>8. c = << >> <=> n = 0
  BY <1>6, <1>7
<1>9. n # 0 => Head(c) = node[order[1]].item
  BY <1>6
<1> QED
  BY <1>2, <1>3, <1>5, <1>6, <1>7, <1>8, <1>9

(* steque_cycle relinks the first cell behind the last, which may be itself. *)
LEMMA CycleStep ==
  ASSUME IInv, Cycle, back # Null
  PROVE  IInv' /\ Contents # << >> /\ Contents' = Append(Tail(Contents), Head(Contents))
<1>1. PICK order \in [1..N -> Addr] : Linked(order)
  BY DEF IInv
<1>2. LET linked == [node EXCEPT ![back].next = front]
      IN  /\ back' = front
          /\ front' = linked[front].next
          /\ node' = [linked EXCEPT ![front].next = Null]
          /\ alloc' = alloc /\ N' = N
  BY DEF Cycle
<1>3. /\ TypeOK /\ Counted
      /\ UNCHANGED <<ret, destroying, exited>>
  BY DEF IInv, Cycle
<1>4. N \in Nat \ {0} /\ front = order[1] /\ back = order[N] /\ front \in Addr /\ back \in Addr
  <2>1. N \in Nat /\ N # 0
    BY <1>1, <1>3, EmptyList DEF TypeOK
  <2>2. order[1] \in Addr /\ order[N] \in Addr
    BY <2>1
  <2> QED
    BY <1>1, <2>1, <2>2 DEF Linked
<1>5. /\ front' = IF front = back THEN front ELSE node[front].next
      /\ node' \in [Addr -> Node]
      /\ \A c \in Addr :
           /\ node'[c].next = IF c = front THEN Null ELSE IF c = back THEN front ELSE node[c].next
           /\ node'[c].item = node[c].item
  <2> DEFINE linked == [node EXCEPT ![back].next = front]
  <2>1. /\ linked = [node EXCEPT ![back] = [node[back] EXCEPT !.next = front]]
        /\ node \in [Addr -> Node] /\ node[back] \in Node
    BY <1>3, <1>4 DEF TypeOK
  <2>2. [node[back] EXCEPT !.next = front] \in Node
    BY <1>4, <2>1 DEF Node
  <2>3. /\ linked \in [Addr -> Node]
        /\ \A c \in Addr : linked[c] = IF c = back THEN [node[back] EXCEPT !.next = front] ELSE node[c]
    BY <1>4, <2>1, <2>2
  <2>4. /\ front' = linked[front].next /\ node' = [linked EXCEPT ![front].next = Null]
    BY <1>2
  <2> HIDE DEF linked
  <2>5. linked[front] \in Node /\ node' = [linked EXCEPT ![front] = [linked[front] EXCEPT !.next = Null]]
    BY <1>4, <2>3, <2>4
  <2>6. [linked[front] EXCEPT !.next = Null] \in Node
    BY <2>5 DEF Node
  <2>7. /\ node' \in [Addr -> Node]
        /\ \A c \in Addr : node'[c] = IF c = front THEN [linked[front] EXCEPT !.next = Null] ELSE linked[c]
    BY <1>4, <2>3, <2>5, <2>6
  <2>8. \A c \in Addr : /\ linked[c].next = IF c = back THEN front ELSE node[c].next
                        /\ linked[c].item = node[c].item
    BY <1>4, <2>1, <2>3 DEF Node
  <2>9. \A c \in Addr : /\ node'[c].next = IF c = front THEN Null ELSE linked[c].next
                        /\ node'[c].item = linked[c].item
    BY <1>4, <2>5, <2>7 DEF Node
  <2> QED
    BY <1>4, <2>4, <2>7, <2>8, <2>9
<1>6. front' = IF N = 1 THEN order[1] ELSE order[2]
  <2>1. 1 \in 1..N /\ N \in 1..N
    BY <1>4
  <2>2. front = back <=> N = 1
    BY <1>1, <1>4, <2>1 DEF Linked
  <2>3. node[order[1]].next = IF 1 = N THEN Null ELSE order[2]
    BY <1>1, <2>1 DEF Linked
  <2> QED
    BY <1>4, <1>5, <2>2, <2>3
<1>7. TypeOK' /\ Counted'
  <2>1. front' \in Addr
    BY <1>4, <1>6
  <2> QED
    BY <1>2, <1>3, <1>4, <1>5, <2>1 DEF TypeOK, Counted
<1>8. PICK o : o = [i \in 1..N |-> IF i = N THEN order[1] ELSE order[i + 1]]
  OBVIOUS
<1>9. /\ o \in [1..N -> Addr] /\ o[N] = order[1] /\ 1 \in 1..N /\ N \in 1..N
      /\ \A i \in 1..N : i # N => i + 1 \in 1..N /\ i + 1 # 1 /\ o[i] = order[i + 1]
      /\ \A i \in 1..N : order[i] \in Addr /\ o[i] \in Addr
  BY <1>4, <1>8
<1>10. Linked(o)'
  <2>1. front' = o[1] /\ back' = o[N]
    <3>1. N = 1 => o[1] = order[1]
      BY <1>9
    <3>2. N # 1 => o[1] = order[2]
      BY <1>4, <1>9
    <3> QED
      BY <1>2, <1>4, <1>6, <1>9, <3>1, <3>2
  <2>2. ASSUME NEW i \in 1..N
        PROVE  node'[o[i]].next = IF i = N THEN Null ELSE o[i + 1]
    <3>1. CASE i = N
      BY <1>4, <1>5, <1>9, <3>1
    <3>2. CASE i # N
      <4>1. /\ i + 1 \in 1..N /\ o[i] = order[i + 1]
            /\ order[i + 1] # order[1]
            /\ order[i + 1] = order[N] <=> i + 1 = N
        BY <1>1, <1>9, <3>2 DEF Linked
      <4>2. node'[o[i]].next = IF i + 1 = N THEN front ELSE node[order[i + 1]].next
        BY <1>4, <1>5, <1>9, <4>1
      <4>3. node[order[i + 1]].next = IF i + 1 = N THEN Null ELSE order[i + 1 + 1]
        BY <1>1, <4>1 DEF Linked
      <4>4. o[i + 1] = IF i + 1 = N THEN order[1] ELSE order[i + 1 + 1]
        BY <1>9, <4>1
      <4> QED
        BY <1>4, <3>2, <4>2, <4>3, <4>4
    <3> QED
      BY <3>1, <3>2
  <2>3. ASSUME NEW i \in 1..N, NEW j \in 1..N, o[i] = o[j] PROVE i = j
    <3>1. CASE i = N \/ j = N
      BY <1>1, <1>9, <2>3, <3>1 DEF Linked
    <3>2. CASE i # N /\ j # N
      <4>1. i + 1 = j + 1
        BY <1>1, <1>9, <2>3, <3>2 DEF Linked
      <4> QED
        BY <4>1
    <3> QED
      BY <3>1, <3>2
  <2>4. alloc = {o[i] : i \in 1..N}
    <3>1. ASSUME NEW c \in alloc PROVE \E i \in 1..N : c = o[i]
      <4>1. PICK i \in 1..N : c = order[i]
        BY <1>1 DEF Linked
      <4>2. i # 1 => i - 1 \in 1..N /\ o[i - 1] = order[i]
        BY <1>4, <1>8
      <4> QED
        BY <1>9, <4>1, <4>2
    <3>2. \A i \in 1..N : o[i] \in alloc
      BY <1>1, <1>9 DEF Linked
    <3> QED
      BY <3>1, <3>2
  <2> QED
    BY <1>2, <1>4, <2>1, <2>2, <2>3, <2>4 DEF Linked
<1>11. IInv'
  BY <1>2, <1>7, <1>9, <1>10 DEF IInv
<1>12. Contents = [i \in 1..N |-> node[order[i]].item]
  BY <1>1, <1>3, OrderIsSeen DEF Agrees, Seen
<1>13. Contents' = [i \in 1..N |-> node'[o[i]].item]
  <2>1. Seen(o)'
    BY <1>2, <1>7, <1>9, <1>10, OrderIsSeenNext DEF Agrees
  <2> QED
    BY <1>2, <2>1 DEF Seen
<1>14. \A i \in 1..N : node'[o[i]].item = IF i = N THEN node[order[1]].item ELSE node[order[i + 1]].item
  BY <1>5, <1>9
<1>15. Contents # << >> /\ Head(Contents) = node[order[1]].item
  BY <1>4, <1>12
<1>16. Tail(Contents) = [i \in 1..N - 1 |-> node[order[i + 1]].item]
  BY <1>4, <1>12
<1>17. PICK t : t = [i \in 1..N - 1 |-> node[order[i + 1]].item]
  OBVIOUS
<1>18. Append(t, node[order[1]].item) =
         [i \in 1..N |-> IF i = N THEN node[order[1]].item ELSE node[order[i + 1]].item]
  BY <1>4, <1>17
<1>19. Contents' =
         [i \in 1..N |-> IF i = N THEN node[order[1]].item ELSE node[order[i + 1]].item]
  BY <1>13, <1>14
<1> QED
  BY <1>11, <1>15, <1>16, <1>17, <1>18, <1>19

----------------------------------------------------------------------------
(* The theorems *)

(* Every call, and every pop of steque_destroy, keeps the invariant. *)
LEMMA Inductive == IInv /\ [Next]_vars => IInv'
<1> SUFFICES ASSUME IInv, [Next]_vars PROVE IInv'
  OBVIOUS
<1>1. ret \in Item \cup {Null} /\ destroying \in BOOLEAN /\ exited \in BOOLEAN
  BY DEF IInv, TypeOK
<1>2. front # Null => node[front].item \in Item \cup {Null}
  BY DEF IInv, TypeOK, Node
<1>3. ASSUME NEW x \in Item, Enqueue(x) PROVE IInv'
  BY <1>3, EnqueueStep
<1>4. ASSUME NEW x \in Item, Push(x) PROVE IInv'
  BY <1>4, PushStep
<1>5. CASE Pop
  BY <1>1, <1>2, <1>5, RemoveFrontStep DEF Pop, RemoveFront
<1>6. CASE PeekFront
  BY <1>1, <1>2, <1>6, SameList DEF PeekFront
<1>7. CASE Underflow
  BY <1>1, <1>7, SameList DEF Underflow
<1>8. CASE Cycle
  <2>1. CASE back = Null
    BY <1>1, <1>8, <2>1, SameList DEF Cycle
  <2>2. CASE back # Null
    BY <1>8, <2>2, CycleStep
  <2> QED
    BY <2>1, <2>2
<1>9. CASE Destroy
  BY <1>1, <1>9, SameList DEF Destroy
<1>10. CASE DestroyStep
  <2>1. CASE N # 0
    BY <1>1, <1>10, <2>1, RemoveFrontStep DEF DestroyStep
  <2>2. CASE N = 0
    BY <1>1, <1>10, <2>2, SameList DEF DestroyStep
  <2> QED
    BY <2>1, <2>2
<1>11. CASE Halted
  BY <1>1, <1>11, SameList DEF Halted, vars, list
<1>12. CASE UNCHANGED vars
  BY <1>1, <1>12, SameList DEF vars, list
<1> QED
  BY <1>3, <1>4, <1>5, <1>6, <1>7, <1>8, <1>9, <1>10, <1>11, <1>12 DEF Next

(* steque_init makes an empty list. *)
LEMMA Initially == Init => IInv
<1> SUFFICES ASSUME Init PROVE IInv
  OBVIOUS
<1>1. TypeOK
  BY DEF Init, TypeOK, Node
<1>2. Counted
  BY FS_EmptySet DEF Init, Counted
<1>3. PICK order : order = [i \in 1..0 |-> Null]
  OBVIOUS
<1>4. order \in [1..N -> Addr] /\ Linked(order)
  BY <1>3 DEF Init, Linked
<1> QED
  BY <1>1, <1>2, <1>4 DEF IInv

(* The invariant holds after any sequence of calls. *)
LEMMA Invariance == Spec => []IInv
  BY Initially, Inductive, PTL DEF Spec

(* The three fields of steque_t tell one story, for a heap of any size. *)
THEOREM ListIsWellLinked == Spec => []WellLinked
<1>1. IInv => WellLinked
  <2> SUFFICES ASSUME IInv PROVE WellLinked
    OBVIOUS
  <2>1. PICK order \in [1..N -> Addr] : Linked(order)
    BY DEF IInv
  <2>2. Seen(order) /\ N \in Nat /\ Counted
    BY <2>1, OrderIsSeen DEF IInv, Agrees, TypeOK
  <2>3. Reachable = alloc
    <3>1. Reachable = {order[i] : i \in 1..N}
      BY <2>2 DEF Reachable, Seen
    <3> QED
      BY <2>1, <3>1 DEF Linked
  <2>4. back = IF N = 0 THEN Null ELSE cell[N]
    <3>1. N # 0 => N \in 1..N
      BY <2>2
    <3> QED
      BY <2>1, <2>2, <3>1 DEF Linked, Seen
  <2> QED
    BY <2>2, <2>3, <2>4 DEF WellLinked, Counted, Seen
<1> QED
  BY <1>1, Invariance, PTL

----------------------------------------------------------------------------
(* The refinement *)

(* A call on the list is the call of the same name on the sequence that the
   links lead through. *)
LEMMA StepRefines == IInv /\ [Next]_vars => [D!Next]_(D!vars)
<1> SUFFICES ASSUME IInv, [Next]_vars PROVE D!Next \/ UNCHANGED D!vars
  BY DEF D!vars
<1>1. ret \in Item \cup {Null} /\ destroying \in BOOLEAN /\ exited \in BOOLEAN
  BY DEF IInv, TypeOK
<1>2. front # Null => node[front].item \in Item \cup {Null}
  BY DEF IInv, TypeOK, Node
<1>3. N = Len(Contents) /\ (Contents = << >> <=> N = 0) /\ (Contents = << >> <=> front = Null)
  BY FieldsTell
<1>4. ASSUME NEW x \in Item, Enqueue(x) PROVE D!Next
  <2>1. D!Enqueue(x)
    BY <1>3, <1>4, EnqueueStep
       DEF D!Enqueue, D!Calls, D!Ready, D!Enqueued, Enqueue, Calls, Running
  <2> QED
    BY <2>1 DEF D!Next
<1>5. ASSUME NEW x \in Item, Push(x) PROVE D!Next
  <2>1. D!Push(x)
    BY <1>3, <1>5, PushStep
       DEF D!Push, D!Calls, D!Ready, D!Pushed, Push, Calls, Running
  <2> QED
    BY <2>1 DEF D!Next
<1>6. CASE Pop
  <2>1. /\ Contents # << >> /\ Head(Contents) = node[front].item
        /\ Contents' = Tail(Contents)
    BY <1>1, <1>2, <1>6, RemoveFrontStep DEF Pop, RemoveFront
  <2>2. D!Pop
    BY <1>6, <2>1
       DEF D!Pop, D!Calls, D!Ready, D!IsEmpty, D!Front, D!Popped, Pop, Calls, Running
  <2> QED
    BY <2>2 DEF D!Next
<1>7. CASE PeekFront
  <2>1. Contents' = Contents /\ Contents # << >>
    BY <1>1, <1>2, <1>3, <1>7, SameList DEF PeekFront
  <2>2. Head(Contents) = node[front].item
    BY <1>7, <2>1, FieldsTell DEF PeekFront
  <2>3. D!PeekFront
    BY <1>7, <2>1, <2>2
       DEF D!PeekFront, D!Calls, D!Ready, D!IsEmpty, D!Front, PeekFront, Calls, Running
  <2> QED
    BY <2>3 DEF D!Next
<1>8. CASE Underflow
  <2>1. Contents' = Contents
    BY <1>1, <1>8, SameList DEF Underflow
  <2>2. D!Underflow
    BY <1>1, <1>3, <1>8, <2>1
       DEF D!Underflow, D!Calls, D!Ready, D!IsEmpty, Underflow, Calls, Running
  <2> QED
    BY <2>2 DEF D!Next
<1>9. CASE Cycle
  <2>1. CASE back = Null
    <3>1. Contents' = Contents /\ Contents = << >>
      BY <1>1, <1>3, <1>9, <2>1, SameList, FieldsTell DEF Cycle
    <3>2. D!Cycle
      BY <1>9, <3>1
         DEF D!Cycle, D!Calls, D!Ready, D!Cycled, D!IsEmpty, Cycle, Calls, Running
    <3> QED
      BY <3>2 DEF D!Next
  <2>2. CASE back # Null
    <3>1. D!Cycle
      BY <1>9, <2>2, CycleStep
         DEF D!Cycle, D!Calls, D!Ready, D!Cycled, D!IsEmpty, Cycle, Calls, Running
    <3> QED
      BY <3>1 DEF D!Next
  <2> QED
    BY <2>1, <2>2
<1>10. CASE Destroy
  <2>1. Contents' = Contents
    BY <1>1, <1>10, SameList DEF Destroy
  <2>2. D!Destroy
    BY <1>10, <2>1 DEF D!Destroy, D!Calls, D!Ready, Destroy, Calls, Running
  <2> QED
    BY <2>2 DEF D!Next
<1>11. CASE DestroyStep
  <2>1. CASE N # 0
    <3>1. Contents # << >> /\ Contents' = Tail(Contents)
      BY <1>1, <1>11, <2>1, RemoveFrontStep DEF DestroyStep
    <3>2. D!Emptying
      BY <1>11, <2>1, <3>1 DEF D!Emptying, D!IsEmpty, D!Popped, DestroyStep
    <3> QED
      BY <3>2 DEF D!Next
  <2>2. CASE N = 0
    <3>1. Contents' = Contents /\ Contents = << >>
      BY <1>1, <1>3, <1>11, <2>2, SameList DEF DestroyStep
    <3>2. D!Emptying
      BY <1>11, <2>2, <3>1 DEF D!Emptying, D!IsEmpty, DestroyStep
    <3> QED
      BY <3>2 DEF D!Next
  <2> QED
    BY <2>1, <2>2
<1>12. CASE Halted \/ UNCHANGED vars
  <2>1. Contents' = Contents
    BY <1>1, <1>12, SameList DEF Halted, vars, list
  <2> QED
    BY <1>12, <2>1 DEF D!vars, Halted, vars
<1> QED
  BY <1>4, <1>5, <1>6, <1>7, <1>8, <1>9, <1>10, <1>11, <1>12 DEF Next

(* The linked list does what steque.h promises, for a heap of any size. *)
THEOREM StequeImplementsDeque == Spec => ImplementsDeque
<1>1. Init => D!Init
  <2> SUFFICES ASSUME Init PROVE D!Init
    OBVIOUS
  <2>1. Contents = << >>
    BY Initially, FieldsTell DEF Init
  <2> QED
    BY <2>1 DEF Init, D!Init
<1>2. IInv /\ [Next]_vars => [D!Next]_(D!vars)
  BY StepRefines
<1> QED
  BY <1>1, <1>2, Invariance, PTL DEF Spec, ImplementsDeque, D!Spec
=============================================================================
