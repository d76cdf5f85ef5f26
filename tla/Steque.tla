------------------------------- MODULE Steque --------------------------------
(***************************************************************************)
(* mtgf/steque.c at the level of its nodes: a heap of cells, the fields    *)
(* front, back and N of steque_t, and malloc and free that may hand a      *)
(* freed cell out again.  One caller at a time, as under the mutex of the  *)
(* pools.                                                                  *)
(***************************************************************************)
EXTENDS Integers, FiniteSets, Sequences

CONSTANTS Item,   \* what the callers store
          Addr,   \* the addresses malloc may return: the bound on the heap
          Null    \* the null pointer, and the item never stored

ASSUME NullAssumption == Null \notin Addr /\ Null \notin Item
ASSUME HeapAssumption == IsFiniteSet(Addr)

VARIABLES node,        \* the cells: what was last written to each address
          alloc,       \* the addresses that are allocated
          front, back, N,
          call,        \* history: the function called last, the item it was given
          ret,         \* result of the last steque_pop or steque_front
          destroying,  \* a steque_destroy is between two of its pops
          exited       \* exit(EXIT_FAILURE) was called

list == <<node, alloc, front, back, N>>
vars == <<node, alloc, front, back, N, call, ret, destroying, exited>>

Node == [item : Item \cup {Null}, next : Addr \cup {Null}]

Init == /\ node = [a \in Addr |-> [item |-> Null, next |-> Null]]
        /\ alloc = {}
        /\ front = Null
        /\ back = Null
        /\ N = 0
        /\ call = <<"init", Null>>
        /\ ret = Null
        /\ destroying = FALSE
        /\ exited = FALSE

Running == ~exited /\ ~destroying

(* One of the functions of steque.h is called. *)
Calls(function, item) == Running /\ call' = <<function, item>>

----------------------------------------------------------------------------

(* The links are patched on the memory that already holds the new cell. *)
Enqueue(x) ==
  /\ Calls("enqueue", x)
  /\ \E a \in Addr \ alloc :
       /\ alloc' = alloc \cup {a}
       /\ node' = LET new == [node EXCEPT ![a] = [item |-> x, next |-> Null]]
                  IN  IF back = Null THEN new
                                     ELSE [new EXCEPT ![back].next = a]
       /\ front' = IF back = Null THEN a ELSE front
       /\ back' = a
  /\ N' = N + 1
  /\ UNCHANGED <<ret, destroying, exited>>

Push(x) ==
  /\ Calls("push", x)
  /\ \E a \in Addr \ alloc :
       /\ alloc' = alloc \cup {a}
       /\ node' = [node EXCEPT ![a] = [item |-> x, next |-> front]]
       /\ back' = IF back = Null THEN a ELSE back
       /\ front' = a
  /\ N' = N + 1
  /\ UNCHANGED <<ret, destroying, exited>>

\* Mutant: the last pop leaves back pointing to the freed cell.
RemoveFront_StaleBack ==
  /\ front # Null
  /\ front' = node[front].next
  /\ alloc' = alloc \ {front}
  /\ N' = N - 1
  /\ UNCHANGED <<node, back>>

\* Mutant: no free.
RemoveFront_Leak ==
  /\ front # Null
  /\ front' = node[front].next
  /\ back' = IF front' = Null THEN Null ELSE back
  /\ N' = N - 1
  /\ UNCHANGED <<node, alloc>>

(* The body of steque_pop after its underflow test: unlink the first cell
   and free it. *)
RemoveFront ==
  /\ front # Null
  /\ front' = node[front].next
  /\ back' = IF front' = Null THEN Null ELSE back
  /\ alloc' = alloc \ {front}
  /\ N' = N - 1
  /\ UNCHANGED node

Pop == /\ Calls("pop", Null)
       /\ RemoveFront
       /\ ret' = node[front].item
       /\ UNCHANGED <<destroying, exited>>

PeekFront == /\ Calls("front", Null)
             /\ front # Null
             /\ ret' = node[front].item
             /\ UNCHANGED <<list, destroying, exited>>

(* steque_pop and steque_front on an empty steque print and exit, also for
   the pops of steque_destroy. *)
Underflow == /\ ~exited
             /\ front = Null
             /\ \/ Calls("pop", Null) \/ Calls("front", Null)
                \/ destroying /\ N # 0 /\ UNCHANGED call
             /\ exited' = TRUE
             /\ UNCHANGED <<list, ret, destroying>>

\* Mutant: the new last cell keeps its link.
Cycle_KeepLink ==
  /\ Calls("cycle", Null)
  /\ IF back = Null
       THEN UNCHANGED list
       ELSE /\ node' = [node EXCEPT ![back].next = front]
            /\ back' = front
            /\ front' = node'[front].next
            /\ UNCHANGED <<alloc, N>>
  /\ UNCHANGED <<ret, destroying, exited>>

Cycle ==
  /\ Calls("cycle", Null)
  /\ IF back = Null
       THEN UNCHANGED list
       ELSE LET linked == [node EXCEPT ![back].next = front]
            IN  /\ back' = front
                /\ front' = linked[front].next
                /\ node' = [linked EXCEPT ![front].next = Null]
                /\ UNCHANGED <<alloc, N>>
  /\ UNCHANGED <<ret, destroying, exited>>

(* steque_destroy pops until steque_isempty, that is until N is 0. *)
Destroy == /\ Calls("destroy", Null)
           /\ destroying' = TRUE
           /\ UNCHANGED <<list, ret, exited>>

DestroyStep == /\ destroying /\ ~exited
               /\ \/ /\ N # 0
                     /\ RemoveFront
                     /\ UNCHANGED destroying
                  \/ /\ N = 0
                     /\ destroying' = FALSE
                     /\ UNCHANGED list
               /\ UNCHANGED <<call, ret, exited>>

(* After exit there is no process left to step. *)
Halted == exited /\ UNCHANGED vars

Next == \/ \E x \in Item : Enqueue(x) \/ Push(x)
        \/ Pop \/ PeekFront \/ Underflow \/ Cycle
        \/ Destroy \/ DestroyStep
        \/ Halted

Spec == Init /\ [][Next]_vars /\ WF_vars(DestroyStep)

----------------------------------------------------------------------------

(* The cells met by following next from front, as far as N says; past the
   end of a list that is too short the walk stays on Null. *)
cell[i \in Nat] == IF i <= 1 THEN front
                   ELSE LET p == cell[i - 1]
                        IN  IF p = Null THEN Null ELSE node[p].next

Reachable == {cell[i] : i \in 1..N}

Contents == [i \in 1..N |-> IF cell[i] = Null THEN Null
                            ELSE node[cell[i]].item]

(* The three fields of steque_t tell one story: following next from front
   meets exactly N cells, all of them allocated and nothing else is, the
   last is back and ends the list.  A stale back after the last pop
   (steque.c:66), a cell freed twice or never, or a count out of step with
   the links breaks it several operations before anything is returned. *)
WellLinked == /\ N = Cardinality(alloc)
              /\ Reachable = alloc
              /\ back = IF N = 0 THEN Null ELSE cell[N]
              /\ cell[N + 1] = Null

D == INSTANCE Deque WITH items <- Contents, Nothing <- Null,
                         Capacity <- Cardinality(Addr),
                         emptying <- destroying

(* The linked list is the sequence that steque.h promises, operation by
   operation: each call has the effect and the result of the function of the
   same name, given the same item.  A push after a pop, a cycle of a single item
   or a destroy never loses, repeats or reorders an item, whatever address
   malloc hands out. *)
ImplementsDeque == D!Spec

(* steque_destroy ends, with every node freed: the loop counts on N and frees
   through front, so a count that drifts would spin or underflow. *)
DestroyEmpties == destroying ~> (~destroying /\ alloc = {})
=============================================================================
