------------------------------ MODULE StequeOps ------------------------------
(***************************************************************************)
(* What the operations of mtgf/steque.c do to a steque, seen as the        *)
(* sequence of its items from the front to the back.  The pools of the     *)
(* multithreaded client and server are built from these operators; module  *)
(* Steque shows that the linked list of the code implements them.          *)
(***************************************************************************)
EXTENDS Sequences

IsEmpty(q) == q = << >>

Pushed(q, x) == << x >> \o q

Enqueued(q, x) == Append(q, x)

Front(q) == Head(q)

Popped(q) == Tail(q)

Cycled(q) == IF IsEmpty(q) THEN q ELSE Append(Tail(q), Head(q))

=============================================================================
