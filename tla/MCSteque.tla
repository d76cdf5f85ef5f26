------------------------------ MODULE MCSteque -------------------------------
(* A heap of four nodes and two items: every list of up to four items, with
   every reuse of freed addresses. *)
EXTENDS Steque

CONSTANTS a1, a2, a3, a4, x1, x2

MCAddr == {a1, a2, a3, a4}
MCItem == {x1, x2}
=============================================================================
