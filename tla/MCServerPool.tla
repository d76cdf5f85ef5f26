---------------------------- MODULE MCServerPool -----------------------------
(* Small pools for the multithreaded server. *)
EXTENDS ServerPool, TLC

CONSTANTS w1, w2, c1, c2, c3, long, short, missing

(* A file of several buffers, a file without bytes, and a path the content
   table does not have. *)
MixedKeys == {long, short, missing}
MixedSize == (long :> 3) @@ (short :> 0)

MCSymmetry == Permutations(Worker) \cup Permutations(Conn)
=============================================================================
