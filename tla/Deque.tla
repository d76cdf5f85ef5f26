------------------------------- MODULE Deque ---------------------------------
(***************************************************************************)
(* The promise of mtgf/steque.h: a "steque" keeps its items in order, adds *)
(* at either end, removes at the front, and ends the process when asked    *)
(* for an item it does not have.  Nothing here knows of nodes or pointers. *)
(***************************************************************************)
EXTENDS StequeOps, Naturals

CONSTANTS Item,      \* what the callers store
          Nothing,   \* no item has been returned yet
          Capacity   \* how many items memory can hold

VARIABLES items,     \* the contents, front first
          call,      \* the function called last, and the item it was given
          ret,       \* what the last steque_pop or steque_front returned
          emptying,  \* steque_destroy is running
          exited     \* the process ended on an underflow

vars == <<items, call, ret, emptying, exited>>

Init == /\ items = << >>
        /\ call = <<"init", Nothing>>
        /\ ret = Nothing
        /\ emptying = FALSE
        /\ exited = FALSE

Ready == ~exited /\ ~emptying

Calls(function, item) == Ready /\ call' = <<function, item>>

Enqueue(x) == /\ Calls("enqueue", x)
              /\ Len(items) < Capacity
              /\ items' = Enqueued(items, x)
              /\ UNCHANGED <<ret, emptying, exited>>

Push(x) == /\ Calls("push", x)
           /\ Len(items) < Capacity
           /\ items' = Pushed(items, x)
           /\ UNCHANGED <<ret, emptying, exited>>

Pop == /\ Calls("pop", Nothing)
       /\ ~IsEmpty(items)
       /\ ret' = Front(items)
       /\ items' = Popped(items)
       /\ UNCHANGED <<emptying, exited>>

PeekFront == /\ Calls("front", Nothing)
             /\ ~IsEmpty(items)
             /\ ret' = Front(items)
             /\ UNCHANGED <<items, emptying, exited>>

Cycle == /\ Calls("cycle", Nothing)
         /\ items' = Cycled(items)
         /\ UNCHANGED <<ret, emptying, exited>>

(* A pop or a front of an empty steque. *)
Underflow == /\ Calls("pop", Nothing) \/ Calls("front", Nothing)
             /\ IsEmpty(items)
             /\ exited' = TRUE
             /\ UNCHANGED <<items, ret, emptying>>

Destroy == /\ Calls("destroy", Nothing)
           /\ emptying' = TRUE
           /\ UNCHANGED <<items, ret, exited>>

(* steque_destroy never runs into the underflow: it is done exactly when no
   item is left. *)
Emptying == /\ emptying
            /\ IF IsEmpty(items)
                 THEN emptying' = FALSE /\ items' = items
                 ELSE items' = Popped(items) /\ emptying' = TRUE
            /\ UNCHANGED <<call, ret, exited>>

Next == \/ \E x \in Item : Enqueue(x) \/ Push(x)
        \/ Pop \/ PeekFront \/ Cycle \/ Underflow \/ Destroy \/ Emptying

Spec == Init /\ [][Next]_vars
=============================================================================
