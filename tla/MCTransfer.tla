----------------------------- MODULE MCTransfer ------------------------------
(* A file of a buffer and a half, which reads may split differently. *)
EXTENDS Transfer

CONSTANTS c1, c2

FileOfThree == <<1, 2, 3>>
=============================================================================
