------------------------------- MODULE Content --------------------------------
(***************************************************************************)
(* The content table, gflib/content.c and mtgf/content.c: content_init     *)
(* reads a list of keys and files into an array that doubles when it is    *)
(* full, opens every file and sorts the array; content_get searches it.    *)
(*                                                                         *)
(* A key is an integer, strcmp the order of the integers.  A descriptor is *)
(* named by the line of the list whose file it has open.                   *)
(***************************************************************************)
EXTENDS Integers, Sequences, Functions

CONSTANTS Keys,             \* what may be asked for
          NoKey,            \* the key of a blank line
          Lists,            \* the contents of the list: sequences of lines
          InitialCapacity   \* capacity at first, 16 in the code

(* A line names a key, and a file that can be opened or not. *)
Line == [key : Keys \cup {NoKey}, opens : BOOLEAN]

ASSUME ListsAssumption == Lists \subseteq Seq(Line)
ASSUME KeysAssumption == Keys \subseteq Int /\ NoKey \notin Keys
ASSUME CapacityAssumption == InitialCapacity \in Nat \ {0}

VARIABLES
  pc,
  list,       \* the lines of the list
  next,       \* the number of the next line
  items,      \* the first nitems elements of the array
  capacity,   \* the number of elements the array has room for
  key, lo, hi,
  result,     \* what content_get returns
  scale       \* history: 2 to the power of the number of probes so far

table == <<list, next, items, capacity>>
search == <<key, lo, hi, result, scale>>
vars == <<pc, table, search>>

Item == [fildes : Nat, key : Keys]

nitems == Len(items)

Init == /\ pc = "init"
        /\ list \in Lists /\ next = 1
        /\ items = << >> /\ capacity = 0
        /\ key = NoKey /\ lo = 0 /\ hi = -1 /\ result = -1 /\ scale = 1

----------------------------------------------------------------------------
(* content_init *)

(* exit(EXIT_FAILURE), from the fopen of the list or the open of a file. *)
Exit == pc' = "exited" /\ UNCHANGED <<table, search>>

OpenList == /\ pc = "init"
            /\ \/ Exit
               \/ /\ pc' = "load"
                  /\ capacity' = InitialCapacity
                  /\ UNCHANGED <<list, next, items, search>>

SkipBlankLine == /\ pc = "load" /\ next <= Len(list)
                 /\ list[next].key = NoKey
                 /\ next' = next + 1
                 /\ UNCHANGED <<pc, list, items, capacity, search>>

\* Mutant: the array grows when it is already too small.
Grown_Late(n) == IF n > capacity THEN 2 * capacity ELSE capacity

Grown(n) == IF n = capacity THEN 2 * capacity ELSE capacity

LoadLine == /\ pc = "load" /\ next <= Len(list)
            /\ list[next].key # NoKey /\ list[next].opens
            /\ items' = Append(items, [fildes |-> next, key |-> list[next].key])
            /\ capacity' = Grown(Len(items'))
            /\ next' = next + 1
            /\ UNCHANGED <<pc, list, search>>

OpenFails == /\ pc = "load" /\ next <= Len(list)
             /\ list[next].key # NoKey /\ ~list[next].opens
             /\ Exit

(* What qsort may do: equal keys end up in any order. *)
Sorted(s) == \A i, j \in 1..Len(s) : i < j => s[i].key <= s[j].key
Rearranged(s) == {[i \in 1..Len(s) |-> s[p[i]]] : p \in Bijection(1..Len(s), 1..Len(s))}

SortItems == /\ pc = "load" /\ next > Len(list)
             /\ items' \in {s \in Rearranged(items) : Sorted(s)}
             /\ pc' = "ready"
             /\ UNCHANGED <<list, next, capacity, search>>

----------------------------------------------------------------------------
(* content_get *)

Get(k) == /\ pc = "ready"
          /\ key' = k
          /\ lo' = 0 /\ hi' = nitems - 1 /\ scale' = 1
          /\ pc' = "search"
          /\ UNCHANGED <<table, result>>

mid == lo + (hi - lo) \div 2
Probed == items[mid + 1]

\* Mutants: the element that was looked at stays in the window, or its
\* neighbour leaves it, too.
GoLeft_KeepMid == /\ pc = "search" /\ lo <= hi
                  /\ key < Probed.key
                  /\ hi' = mid /\ scale' = 2 * scale
                  /\ UNCHANGED <<pc, table, key, lo, result>>
GoLeft_SkipOne == /\ pc = "search" /\ lo <= hi
                  /\ key < Probed.key
                  /\ hi' = mid - 2 /\ scale' = 2 * scale
                  /\ UNCHANGED <<pc, table, key, lo, result>>

GoLeft == /\ pc = "search" /\ lo <= hi
          /\ key < Probed.key
          /\ hi' = mid - 1 /\ scale' = 2 * scale
          /\ UNCHANGED <<pc, table, key, lo, result>>

GoRight == /\ pc = "search" /\ lo <= hi
           /\ key > Probed.key
           /\ lo' = mid + 1 /\ scale' = 2 * scale
           /\ UNCHANGED <<pc, table, key, hi, result>>

\* Mutant: the place in the table instead of the descriptor.
Hit_Index == /\ pc = "search" /\ lo <= hi
             /\ key = Probed.key
             /\ result' = mid
             /\ pc' = "answered"
             /\ UNCHANGED <<table, key, lo, hi, scale>>

Hit == /\ pc = "search" /\ lo <= hi
       /\ key = Probed.key
       /\ result' = Probed.fildes
       /\ pc' = "answered"
       /\ UNCHANGED <<table, key, lo, hi, scale>>

Miss == /\ pc = "search" /\ lo > hi
        /\ result' = -1
        /\ pc' = "answered"
        /\ UNCHANGED <<table, key, lo, hi, scale>>

(* The caller has used the answer. *)
Return == /\ pc = "answered"
          /\ pc' = "ready"
          /\ UNCHANGED <<table, search>>

(* content_destroy closes the files and frees the array. *)
Destroy == /\ pc = "ready"
           /\ items' = << >> /\ capacity' = 0
           /\ pc' = "destroyed"
           /\ UNCHANGED <<list, next, search>>

Next == \/ OpenList \/ SkipBlankLine \/ LoadLine \/ OpenFails \/ SortItems
        \/ (\E k \in Keys : Get(k)) \/ GoLeft \/ GoRight \/ Hit \/ Miss \/ Return
        \/ Destroy

Spec == Init /\ [][Next]_vars
----------------------------------------------------------------------------

TypeOK ==
  /\ pc \in {"init", "load", "ready", "search", "answered", "destroyed", "exited"}
  /\ list \in Seq(Line) /\ next \in Nat \ {0}
  /\ items \in Seq(Item) /\ capacity \in Nat
  /\ key \in Keys \cup {NoKey} /\ lo \in Int /\ hi \in Int /\ result \in Int
  /\ scale \in Nat

(* fgets writes the next line into items[nitems], also the line that turns out
   to be blank: whenever a line is read, the array has room for one more, in
   whatever way the list ends and however often the array has grown. *)
RoomForNextLine == pc = "load" => nitems < capacity

(* The comment in the loop, "Key is in items[lo..hi] or not present", and the
   window never leaves the table, so that items[mid] exists. *)
KeyInWindow ==
  pc = "search" =>
    /\ 0 <= lo /\ lo <= hi + 1 /\ hi < nitems
    /\ \A i \in 0..nitems - 1 : items[i + 1].key = key => i \in lo..hi

(* Seen from the file that was loaded, whatever its order: -1 means that no
   line has the key, and a descriptor belongs to a line that has it. *)
AnswerRight ==
  pc = "answered" =>
    IF result = -1 THEN \A i \in 1..Len(list) : list[i].key # key
                   ELSE result \in 1..Len(list) /\ list[result].key = key

(* Every probe at least halves the window: a search of n items ends, and takes
   no more than 1 + log2(n) probes. *)
WindowHalves == pc = "search" => scale * (hi - lo + 1) <= nitems
=============================================================================
