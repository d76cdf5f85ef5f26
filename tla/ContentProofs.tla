--------------------------- MODULE ContentProofs -----------------------------
(***************************************************************************)
(* Proofs about the content table, for every list, every set of keys and   *)
(* every initial capacity.                                                 *)
(***************************************************************************)
EXTENDS Content, TLAPS

Loaded == {"ready", "search", "answered"}

(* The array holds what the lines read so far say, and no more. *)
FromList ==
  pc \in Loaded \cup {"load"} =>
    /\ \A i \in 1..Len(items) : /\ items[i].fildes \in 1..Len(list)
                                /\ list[items[i].fildes].key = items[i].key
    /\ \A l \in 1..Len(list) : l < next /\ list[l].key # NoKey =>
                                 \E i \in 1..Len(items) : items[i].key = list[l].key

(* Before the first search the whole list has been read and sorted. *)
InOrder == pc \in Loaded => next > Len(list) /\ Sorted(items)

EmptyAtFirst == pc = "init" => items = << >> /\ next = 1

AsksForKey == pc \in {"search", "answered"} => key \in Keys

IInv == /\ TypeOK /\ FromList /\ InOrder /\ EmptyAtFirst /\ AsksForKey
        /\ RoomForNextLine /\ KeyInWindow /\ AnswerRight /\ WindowHalves

(***************************************************************************)
(* Lemmas about the operators.                                             *)
(***************************************************************************)

(* Sorting keeps the items: each is found again, and there are no others. *)
LEMMA RearrangedItems ==
  ASSUME NEW s \in Seq(Item), NEW t \in Rearranged(s)
  PROVE  /\ t \in Seq(Item) /\ Len(t) = Len(s)
         /\ \A i \in 1..Len(t) : \E j \in 1..Len(s) : t[i] = s[j]
         /\ \A j \in 1..Len(s) : \E i \in 1..Len(t) : t[i] = s[j]
<1>1. PICK p \in Bijection(1..Len(s), 1..Len(s)) : t = [i \in 1..Len(s) |-> s[p[i]]]
  BY DEF Rearranged
<1>2. /\ p \in [1..Len(s) -> 1..Len(s)]
      /\ \A j \in 1..Len(s) : \E i \in 1..Len(s) : p[i] = j
  BY <1>1 DEF Bijection, Surjection, Injection
<1>3. \A i \in 1..Len(s) : s[p[i]] \in Item
  BY <1>2
<1>4. Len(s) \in Nat
  OBVIOUS
<1>5. t \in Seq(Item) /\ Len(t) = Len(s)
  BY <1>1, <1>3, <1>4
<1> QED
  BY <1>1, <1>2, <1>5

(* The element a search looks at lies in its window. *)
LEMMA MidInWindow ==
  ASSUME lo \in Int, hi \in Int, lo <= hi
  PROVE  mid \in Int /\ lo <= mid /\ mid <= hi
<1>1. (hi - lo) \div 2 \in 0..(hi - lo)
  OBVIOUS
<1> QED
  BY <1>1 DEF mid

(* In a search the element exists and has a key. *)
LEMMA ProbedItem ==
  ASSUME TypeOK, KeyInWindow, pc = "search", lo <= hi
  PROVE  mid \in 0..nitems - 1 /\ Probed \in Item
<1>1. mid \in Int /\ lo <= mid /\ mid <= hi
  BY MidInWindow DEF TypeOK
<1>2. 0 <= lo /\ hi < nitems /\ nitems \in Nat
  BY DEF KeyInWindow, TypeOK, nitems
<1>3. mid \in 0..nitems - 1
  BY <1>1, <1>2 DEF TypeOK
<1>4. mid + 1 \in 1..Len(items)
  BY <1>3 DEF nitems, TypeOK
<1> QED
  BY <1>3, <1>4 DEF Probed, TypeOK

(***************************************************************************)
(* The invariant holds at first and is kept by every step.                 *)
(***************************************************************************)

(* content_init starts with room for one element. *)
LEMMA InitInvariant == Init => IInv
  BY ListsAssumption
  DEF Init, IInv, TypeOK, FromList, InOrder, EmptyAtFirst, AsksForKey,
      RoomForNextLine, KeyInWindow, AnswerRight, WindowHalves, Loaded

(* Types, for every step. *)
LEMMA TypeOKStep == TypeOK /\ KeyInWindow /\ [Next]_vars => TypeOK'
<1> SUFFICES ASSUME TypeOK, KeyInWindow, [Next]_vars PROVE TypeOK'
  OBVIOUS
<1> USE DEF TypeOK, table, search
<1>1. CASE OpenList
  BY <1>1, CapacityAssumption DEF OpenList, Exit
<1>2. CASE SkipBlankLine
  BY <1>2 DEF SkipBlankLine
<1>3. CASE LoadLine
  <2>1. list[next].key \in Keys
    <3>1. next \in 1..Len(list) /\ list[next].key # NoKey
      BY <1>3 DEF LoadLine
    <3>2. list[next] \in Line
      BY <3>1
    <3> QED
      BY <3>1, <3>2 DEF Line
  <2>2. [fildes |-> next, key |-> list[next].key] \in Item
    BY <2>1 DEF Item
  <2>3. items' \in Seq(Item)
    BY <1>3, <2>2 DEF LoadLine
  <2>4. capacity' \in Nat
    BY <1>3 DEF LoadLine, Grown
  <2> QED
    BY <1>3, <2>3, <2>4 DEF LoadLine
<1>4. CASE OpenFails
  BY <1>4 DEF OpenFails, Exit
<1>5. CASE SortItems
  <2>1. items' \in Seq(Item)
    BY <1>5, RearrangedItems DEF SortItems
  <2> QED
    BY <1>5, <2>1 DEF SortItems
<1>6. ASSUME NEW k \in Keys, Get(k) PROVE TypeOK'
  BY <1>6 DEF Get, nitems
<1>7. CASE GoLeft
  BY <1>7, MidInWindow DEF GoLeft
<1>8. CASE GoRight
  BY <1>8, MidInWindow DEF GoRight
<1>9. CASE Hit
  <2>1. Probed \in Item
    BY <1>9, ProbedItem DEF Hit
  <2>2. result' \in Int
    BY <1>9, <2>1 DEF Hit, Item
  <2> QED
    BY <1>9, <2>2 DEF Hit
<1>10. CASE Miss
  BY <1>10 DEF Miss
<1>11. CASE Return
  BY <1>11 DEF Return
<1>12. CASE Destroy
  BY <1>12 DEF Destroy
<1>13. CASE UNCHANGED vars
  BY <1>13 DEF vars
<1> QED
  BY <1>1, <1>2, <1>3, <1>4, <1>5, <1>6, <1>7, <1>8, <1>9, <1>10, <1>11, <1>12, <1>13
  DEF Next

(* A search and what follows it leave the table alone. *)
SearchStep == (\E k \in Keys : Get(k)) \/ GoLeft \/ GoRight \/ Hit \/ Miss \/ Return

(* content_get does not write to the table. *)
LEMMA SearchKeepsTable ==
  SearchStep => UNCHANGED table /\ pc \in Loaded /\ pc' \in Loaded
  BY DEF SearchStep, Get, GoLeft, GoRight, Hit, Miss, Return, Loaded

(* What the table says agrees with the list after every step. *)
LEMMA FromListStep == IInv /\ [Next]_vars => FromList'
<1> SUFFICES ASSUME IInv, [Next]_vars PROVE FromList'
  OBVIOUS
<1> USE DEF IInv, FromList, TypeOK, table, search, Loaded
<1>1. CASE OpenList
  <2>1. items = << >> /\ next = 1 /\ items' = items /\ next' = next /\ list' = list
    BY <1>1 DEF OpenList, Exit, EmptyAtFirst
  <2>2. \A i \in 1..Len(items') : FALSE
    BY <2>1
  <2>3. \A l \in 1..Len(list') : ~(l < next')
    BY <2>1
  <2> QED
    BY <2>2, <2>3
<1>2. CASE SkipBlankLine
  BY <1>2 DEF SkipBlankLine
<1>3. CASE LoadLine
  <2> DEFINE new == [fildes |-> next, key |-> list[next].key]
  <2>1. /\ pc = "load" /\ next <= Len(list) /\ list' = list /\ next' = next + 1
        /\ items' = Append(items, new)
    BY <1>3 DEF LoadLine
  <2>2. /\ Len(items') = Len(items) + 1
        /\ \A i \in 1..Len(items) : items'[i] = items[i]
        /\ items'[Len(items) + 1] = new
    BY <2>1
  <2>3. ASSUME NEW i \in 1..Len(items')
        PROVE  items'[i].fildes \in 1..Len(list) /\ list[items'[i].fildes].key = items'[i].key
    BY <2>1, <2>2
  <2>4. ASSUME NEW l \in 1..Len(list), l < next + 1, list[l].key # NoKey
        PROVE  \E i \in 1..Len(items') : items'[i].key = list[l].key
    BY <2>1, <2>2, <2>4
  <2> QED
    BY <2>1, <2>3, <2>4
<1>4. CASE OpenFails
  BY <1>4 DEF OpenFails, Exit
<1>5. CASE SortItems
  <2>1. /\ list' = list /\ next' = next /\ pc = "load"
        /\ items' \in Rearranged(items)
    BY <1>5 DEF SortItems
  <2>2. /\ \A i \in 1..Len(items') : \E j \in 1..Len(items) : items'[i] = items[j]
        /\ \A j \in 1..Len(items) : \E i \in 1..Len(items') : items'[i] = items[j]
    BY <2>1, RearrangedItems
  <2>3. ASSUME NEW i \in 1..Len(items')
        PROVE  items'[i].fildes \in 1..Len(list) /\ list[items'[i].fildes].key = items'[i].key
    <3>1. PICK j \in 1..Len(items) : items'[i] = items[j]
      BY <2>2
    <3>2. items[j].fildes \in 1..Len(list) /\ list[items[j].fildes].key = items[j].key
      BY <2>1
    <3> QED
      BY <3>1, <3>2
  <2>4. ASSUME NEW l \in 1..Len(list), l < next, list[l].key # NoKey
        PROVE  \E i \in 1..Len(items') : items'[i].key = list[l].key
    <3>1. PICK j \in 1..Len(items) : items[j].key = list[l].key
      BY <2>1, <2>4
    <3>2. PICK i \in 1..Len(items') : items'[i] = items[j]
      BY <2>2
    <3> QED
      BY <3>1, <3>2
  <2> QED
    BY <2>1, <2>3, <2>4
<1>6. CASE SearchStep
  BY <1>6, SearchKeepsTable
<1>7. CASE Destroy
  BY <1>7 DEF Destroy
<1>8. CASE UNCHANGED vars
  BY <1>8 DEF vars
<1> QED
  BY <1>1, <1>2, <1>3, <1>4, <1>5, <1>6, <1>7, <1>8 DEF Next, SearchStep

(* The table stays sorted, and a search always has a key. *)
LEMMA OrderStep == IInv /\ [Next]_vars => InOrder' /\ EmptyAtFirst' /\ AsksForKey'
<1> SUFFICES ASSUME IInv, [Next]_vars PROVE InOrder' /\ EmptyAtFirst' /\ AsksForKey'
  OBVIOUS
<1> USE DEF IInv, InOrder, EmptyAtFirst, AsksForKey, table, search, Loaded
<1>1. CASE OpenList \/ SkipBlankLine \/ LoadLine \/ OpenFails \/ Destroy
  BY <1>1 DEF OpenList, SkipBlankLine, LoadLine, OpenFails, Exit, Destroy
<1>2. CASE SortItems
  <2>1. Sorted(items)'
    BY <1>2 DEF SortItems, Sorted
  <2> QED
    BY <1>2, <2>1 DEF SortItems
<1>3. CASE SearchStep
  <2>1. InOrder'
    BY <1>3, SearchKeepsTable DEF Sorted
  <2>2. AsksForKey'
    BY <1>3 DEF SearchStep, Get, GoLeft, GoRight, Hit, Miss, Return
  <2>3. EmptyAtFirst'
    BY <1>3, SearchKeepsTable
  <2> QED
    BY <2>1, <2>2, <2>3
<1>4. CASE UNCHANGED vars
  BY <1>4 DEF vars, Sorted
<1> QED
  BY <1>1, <1>2, <1>3, <1>4 DEF Next, SearchStep

(* The array grows in time. *)
LEMMA RoomStep == IInv /\ [Next]_vars => RoomForNextLine'
<1> SUFFICES ASSUME IInv, [Next]_vars PROVE RoomForNextLine'
  OBVIOUS
<1> USE DEF IInv, TypeOK, RoomForNextLine, nitems, table, search
<1>1. CASE LoadLine
  <2>1. /\ pc = "load" /\ Len(items') = Len(items) + 1
        /\ capacity' = IF Len(items') = capacity THEN 2 * capacity ELSE capacity
    BY <1>1 DEF LoadLine, Grown
  <2>2. Len(items) \in Nat /\ Len(items) < capacity
    BY <2>1
  <2> QED
    BY <2>1, <2>2
<1>2. CASE OpenList
  <2>1. pc = "init" /\ items' = items
    BY <1>2 DEF OpenList, Exit
  <2> QED
    BY <1>2, <2>1, CapacityAssumption DEF OpenList, Exit, EmptyAtFirst
<1>3. CASE SkipBlankLine \/ OpenFails \/ SortItems \/ Destroy
  BY <1>3 DEF SkipBlankLine, OpenFails, Exit, SortItems, Destroy
<1>4. CASE SearchStep
  BY <1>4, SearchKeepsTable DEF Loaded
<1>5. CASE UNCHANGED vars
  BY <1>5 DEF vars
<1> QED
  BY <1>1, <1>2, <1>3, <1>4, <1>5 DEF Next, SearchStep

(* The window closes in on the key, if the table has it. *)
LEMMA WindowStep == IInv /\ [Next]_vars => KeyInWindow'
<1> SUFFICES ASSUME IInv, [Next]_vars PROVE KeyInWindow'
  OBVIOUS
<1> USE DEF IInv, TypeOK, nitems, table, search
<1>1. ASSUME NEW k \in Keys, Get(k) PROVE KeyInWindow'
  BY <1>1 DEF Get, KeyInWindow
<1>2. CASE GoLeft
  <2>1. /\ pc = "search" /\ lo <= hi /\ key < Probed.key /\ hi' = mid - 1
        /\ lo' = lo /\ key' = key /\ items' = items
    BY <1>2 DEF GoLeft
  <2>2. mid \in 0..nitems - 1 /\ lo <= mid /\ mid <= hi
    BY <2>1, ProbedItem, MidInWindow
  <2>3. ASSUME NEW i \in 0..nitems - 1, items[i + 1].key = key PROVE i <= mid - 1
    <3>1. i + 1 \in 1..Len(items) /\ mid + 1 \in 1..Len(items)
      BY <2>2
    <3>2. items[i + 1].key \in Int /\ items[mid + 1].key \in Int
      <4>1. items[i + 1] \in Item /\ items[mid + 1] \in Item
        BY <3>1
      <4> QED
        BY <4>1, KeysAssumption DEF Item
    <3>3. mid + 1 < i + 1 => items[mid + 1].key <= items[i + 1].key
      BY <2>1, <3>1 DEF InOrder, Sorted, Loaded
    <3>4. key < items[mid + 1].key
      BY <2>1 DEF Probed
    <3> QED
      BY <2>2, <2>3, <3>2, <3>3, <3>4
  <2>4. \A i \in 0..nitems - 1 : items[i + 1].key = key => i \in lo..mid - 1
    BY <2>1, <2>2, <2>3 DEF KeyInWindow
  <2>5. 0 <= lo /\ lo <= (mid - 1) + 1 /\ mid - 1 < nitems
    BY <2>1, <2>2 DEF KeyInWindow
  <2> QED
    BY <2>1, <2>4, <2>5 DEF KeyInWindow
<1>3. CASE GoRight
  <2>1. /\ pc = "search" /\ lo <= hi /\ key > Probed.key /\ lo' = mid + 1
        /\ hi' = hi /\ key' = key /\ items' = items
    BY <1>3 DEF GoRight
  <2>2. mid \in 0..nitems - 1 /\ lo <= mid /\ mid <= hi
    BY <2>1, ProbedItem, MidInWindow
  <2>3. ASSUME NEW i \in 0..nitems - 1, items[i + 1].key = key PROVE mid + 1 <= i
    <3>1. i + 1 \in 1..Len(items) /\ mid + 1 \in 1..Len(items)
      BY <2>2
    <3>2. items[i + 1].key \in Int /\ items[mid + 1].key \in Int
      <4>1. items[i + 1] \in Item /\ items[mid + 1] \in Item
        BY <3>1
      <4> QED
        BY <4>1, KeysAssumption DEF Item
    <3>3. i + 1 < mid + 1 => items[i + 1].key <= items[mid + 1].key
      BY <2>1, <3>1 DEF InOrder, Sorted, Loaded
    <3>4. key > items[mid + 1].key
      BY <2>1 DEF Probed
    <3> QED
      BY <2>2, <2>3, <3>2, <3>3, <3>4
  <2>4. \A i \in 0..nitems - 1 : items[i + 1].key = key => i \in mid + 1..hi
    BY <2>1, <2>2, <2>3 DEF KeyInWindow
  <2>5. 0 <= mid + 1 /\ mid + 1 <= hi + 1 /\ hi < nitems
    BY <2>1, <2>2 DEF KeyInWindow
  <2> QED
    BY <2>1, <2>4, <2>5 DEF KeyInWindow
<1>4. CASE Hit \/ Miss \/ Return
  BY <1>4 DEF Hit, Miss, Return, KeyInWindow
<1>5. CASE OpenList \/ SkipBlankLine \/ LoadLine \/ OpenFails \/ SortItems \/ Destroy
  BY <1>5 DEF OpenList, SkipBlankLine, LoadLine, OpenFails, Exit, SortItems, Destroy,
              KeyInWindow
<1>6. CASE UNCHANGED vars
  BY <1>6 DEF vars, KeyInWindow
<1> QED
  BY <1>1, <1>2, <1>3, <1>4, <1>5, <1>6 DEF Next

(* A search ends with a descriptor of the key, or when nothing is left. *)
LEMMA AnswerStep == IInv /\ [Next]_vars => AnswerRight'
<1> SUFFICES ASSUME IInv, [Next]_vars PROVE AnswerRight'
  OBVIOUS
<1> USE DEF IInv, TypeOK, table, search
<1>1. CASE Hit
  <2>1. /\ pc = "search" /\ lo <= hi /\ key = Probed.key /\ result' = Probed.fildes
        /\ key' = key /\ list' = list
    BY <1>1 DEF Hit
  <2>2. mid \in 0..nitems - 1
    BY <2>1, ProbedItem
  <2>3. mid + 1 \in 1..Len(items)
    BY <2>2 DEF nitems
  <2>4. Probed.fildes \in 1..Len(list) /\ list[Probed.fildes].key = Probed.key
    BY <2>1, <2>3 DEF FromList, Loaded, Probed
  <2>5. Probed.fildes # -1
    BY <2>4
  <2> QED
    BY <2>1, <2>4, <2>5 DEF AnswerRight
<1>2. CASE Miss
  <2>1. /\ pc = "search" /\ lo > hi /\ result' = -1 /\ key' = key /\ list' = list
    BY <1>2 DEF Miss
  <2>2. \A i \in 0..nitems - 1 : items[i + 1].key # key
    BY <2>1 DEF KeyInWindow
  <2>3. ASSUME NEW j \in 1..Len(items) PROVE items[j].key # key
    <3>1. j - 1 \in 0..nitems - 1 /\ (j - 1) + 1 = j
      BY DEF nitems
    <3> QED
      BY <3>1, <2>2
  <2>4. ASSUME NEW l \in 1..Len(list), list[l].key = key PROVE FALSE
    <3>1. list[l].key # NoKey
      BY <2>1, <2>4, KeysAssumption DEF AsksForKey
    <3>2. l < next
      BY <2>1 DEF InOrder, Loaded
    <3> QED
      BY <2>1, <2>3, <2>4, <3>1, <3>2 DEF FromList, Loaded
  <2> QED
    BY <2>1, <2>4 DEF AnswerRight
<1>3. CASE (\E k \in Keys : Get(k)) \/ GoLeft \/ GoRight \/ Return
  BY <1>3 DEF Get, GoLeft, GoRight, Return, AnswerRight
<1>4. CASE OpenList \/ SkipBlankLine \/ LoadLine \/ OpenFails \/ SortItems \/ Destroy
  BY <1>4 DEF OpenList, SkipBlankLine, LoadLine, OpenFails, Exit, SortItems, Destroy,
              AnswerRight
<1>5. CASE UNCHANGED vars
  BY <1>5 DEF vars, AnswerRight
<1> QED
  BY <1>1, <1>2, <1>3, <1>4, <1>5 DEF Next

(* The arithmetic of one probe. *)
LEMMA Halving ==
  ASSUME NEW s \in Nat, NEW a \in Int, NEW b \in Int, 2 * a <= b
  PROVE  (2 * s) * a <= s * b
<1>1. s * (2 * a) <= s * b
  OBVIOUS
<1>2. (2 * s) * a = s * (2 * a)
  OBVIOUS
<1> QED
  BY <1>1, <1>2

(* The window that a probe leaves is at most half as long. *)
LEMMA HalvesStep == IInv /\ [Next]_vars => WindowHalves'
<1> SUFFICES ASSUME IInv, [Next]_vars PROVE WindowHalves'
  OBVIOUS
<1> USE DEF IInv, TypeOK, nitems, table, search
<1>1. ASSUME NEW k \in Keys, Get(k) PROVE WindowHalves'
  BY <1>1 DEF Get, WindowHalves
<1>2. CASE GoLeft
  <2>1. /\ pc = "search" /\ lo <= hi /\ hi' = mid - 1 /\ lo' = lo
        /\ scale' = 2 * scale /\ items' = items
    BY <1>2 DEF GoLeft
  <2>2. 2 * (hi' - lo' + 1) <= hi - lo + 1 /\ hi' - lo' + 1 \in Int
    BY <2>1 DEF mid
  <2>3. (2 * scale) * (hi' - lo' + 1) <= scale * (hi - lo + 1)
    BY <2>2, Halving
  <2>4. scale * (hi - lo + 1) <= Len(items)
    BY <2>1 DEF WindowHalves
  <2>5. (2 * scale) * (hi' - lo' + 1) <= Len(items)
    BY <2>2, <2>3, <2>4
  <2> QED
    BY <2>1, <2>5 DEF WindowHalves
<1>3. CASE GoRight
  <2>1. /\ pc = "search" /\ lo <= hi /\ hi' = hi /\ lo' = mid + 1
        /\ scale' = 2 * scale /\ items' = items
    BY <1>3 DEF GoRight
  <2>2. 2 * (hi' - lo' + 1) <= hi - lo + 1 /\ hi' - lo' + 1 \in Int
    BY <2>1 DEF mid
  <2>3. (2 * scale) * (hi' - lo' + 1) <= scale * (hi - lo + 1)
    BY <2>2, Halving
  <2>4. scale * (hi - lo + 1) <= Len(items)
    BY <2>1 DEF WindowHalves
  <2>5. (2 * scale) * (hi' - lo' + 1) <= Len(items)
    BY <2>2, <2>3, <2>4
  <2> QED
    BY <2>1, <2>5 DEF WindowHalves
<1>4. CASE Hit \/ Miss \/ Return
  BY <1>4 DEF Hit, Miss, Return, WindowHalves
<1>5. CASE OpenList \/ SkipBlankLine \/ LoadLine \/ OpenFails \/ SortItems \/ Destroy
  BY <1>5 DEF OpenList, SkipBlankLine, LoadLine, OpenFails, Exit, SortItems, Destroy,
              WindowHalves
<1>6. CASE UNCHANGED vars
  BY <1>6 DEF vars, WindowHalves
<1> QED
  BY <1>1, <1>2, <1>3, <1>4, <1>5, <1>6 DEF Next

(* The invariant is inductive. *)
LEMMA InvariantStep == IInv /\ [Next]_vars => IInv'
  BY TypeOKStep, FromListStep, OrderStep, RoomStep, WindowStep, AnswerStep,
     HalvesStep DEF IInv

(* It holds in every reachable state. *)
LEMMA Invariance == Spec => []IInv
<1>1. Init => IInv
  BY InitInvariant
<1>2. IInv /\ [Next]_vars => IInv'
  BY InvariantStep
<1> QED
  BY <1>1, <1>2, PTL DEF Spec

(***************************************************************************)
(* The theorems.                                                           *)
(***************************************************************************)

(* items[nitems] exists whenever content_init reads a line into it. *)
THEOREM LoadStaysInTable == Spec => []RoomForNextLine
<1>1. IInv => RoomForNextLine
  BY DEF IInv
<1> QED
  BY <1>1, Invariance, PTL

(* The comment in the loop of content_get is its invariant. *)
THEOREM CommentHolds == Spec => []KeyInWindow
<1>1. IInv => KeyInWindow
  BY DEF IInv
<1> QED
  BY <1>1, Invariance, PTL

(* content_get finds exactly the keys of the list. *)
THEOREM SearchIsRight == Spec => []AnswerRight
<1>1. IInv => AnswerRight
  BY DEF IInv
<1> QED
  BY <1>1, Invariance, PTL

(* A search of n items takes no more than 1 + log2(n) probes. *)
THEOREM SearchIsFast == Spec => []WindowHalves
<1>1. IInv => WindowHalves
  BY DEF IInv
<1> QED
  BY <1>1, Invariance, PTL
=============================================================================
