-------------------------------- MODULE Batch --------------------------------
(***************************************************************************)
(* The promise of the multithreaded download client (mtgf, -t and -n): a   *)
(* batch of requests is worked off, every request is started once and      *)
(* finished once, at most Limit of them are in progress at a time, and the *)
(* client returns only when all of them are finished.  A failing openFile  *)
(* may abort the whole process at any time.                                *)
(***************************************************************************)
EXTENDS Integers, FiniteSets

CONSTANTS Limit,          \* the number of threads
          RequestCounts   \* the batch sizes the command line may ask for

VARIABLES size,     \* how many requests the batch has
          stage,    \* for each request "todo", "doing" or "done"
          outcome   \* "running", "ok" or "failed": what the process returned

vars == <<size, stage, outcome>>

Doing == {r \in 1..size : stage[r] = "doing"}

Init == /\ size \in RequestCounts
        /\ stage = [r \in 1..size |-> "todo"]
        /\ outcome = "running"

Start(r) == /\ outcome = "running"
            /\ stage[r] = "todo"
            /\ Cardinality(Doing) < Limit
            /\ stage' = [stage EXCEPT ![r] = "doing"]
            /\ UNCHANGED <<size, outcome>>

Finish(r) == /\ outcome = "running"
             /\ stage[r] = "doing"
             /\ stage' = [stage EXCEPT ![r] = "done"]
             /\ UNCHANGED <<size, outcome>>

Return == /\ outcome = "running"
          /\ \A r \in 1..size : stage[r] = "done"
          /\ outcome' = "ok"
          /\ UNCHANGED <<size, stage>>

Abort == /\ outcome = "running"
         /\ Doing # {}
         /\ outcome' = "failed"
         /\ UNCHANGED <<size, stage>>

Next == \/ \E r \in 1..size : Start(r) \/ Finish(r)
        \/ Return \/ Abort

Spec == Init /\ [][Next]_vars
=============================================================================
