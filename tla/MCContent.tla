------------------------------ MODULE MCContent -------------------------------
(* Lists of up to five lines, with repeated keys and blank lines; files that
   cannot be opened in short lists. *)
EXTENDS Content

MCKeys == 1..5

Lists1 == UNION {[1..n -> [key : {NoKey, 2, 3, 4}, opens : {TRUE}]] : n \in 0..5}
Failing == UNION {[1..n -> [key : {2, 3}, opens : BOOLEAN]] : n \in 1..2}

MCLists == Lists1 \cup Failing
=============================================================================
