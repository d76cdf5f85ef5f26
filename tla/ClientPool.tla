----------------------------- MODULE ClientPool ------------------------------
(***************************************************************************)
(* The multithreaded download client, mtgf/gfclient_download.c: main (the  *)
(* boss) queues nrequests paths, starts the workers, waits until the queue *)
(* is empty and no worker is active, tells the workers to stop and joins   *)
(* them.  A worker pops a path, makes a local file name from a shared      *)
(* counter, opens the file, lets gfc_perform fill it and deletes it again  *)
(* when the download failed.                                               *)
(*                                                                         *)
(* A request is the number of the workload_get_path call that produced its *)
(* path.  gfc_perform is the library outside src/; what it may return is   *)
(* taken from mtgf/gfclient.h.  A critical section between a lock and the  *)
(* next wait or unlock is one step: every variable it touches is touched   *)
(* only under the mutex.                                                   *)
(***************************************************************************)
EXTENDS Integers, FiniteSets, StequeOps

CONSTANTS Worker,         \* the nthreads threads of the pool
          Main,           \* the thread that runs main
          NoThread,       \* nobody: the mutex is free
          RequestCounts,  \* the values -n may have (atoi gives any int)
          NumPaths,       \* lines of the workload file
          Chunks          \* pieces in which a body reaches writecb

ASSUME ThreadsAssumption ==
         /\ IsFiniteSet(Worker) /\ Worker # {}
         /\ Main \notin Worker /\ NoThread \notin Worker /\ Main # NoThread
ASSUME WorkloadAssumption ==
         RequestCounts \subseteq Int /\ NumPaths \in Nat \ {0} /\ Chunks \in Nat

VARIABLES
  nreq,      \* nrequests
  drawn,     \* counter of mtgf/workload.c: calls of workload_get_path
  queue,     \* the steque, front first
  active,    \* active_workers
  shutdown,
  mutex,     \* the thread that holds the mutex
  mpc,       \* where main is
  wpc,       \* where each worker is
  req,       \* req_path of each worker, 0 when it has none
  exit,      \* "running", then "ok" or "failed"
  counter,   \* the static counter of localPath
  loaded,    \* the value of counter each worker has read
  name,      \* local_path of each request, as <<path, number>>
  dir,       \* the directory: local names to inodes
  data,      \* inodes: the chunks each file holds
  file,      \* the inode behind each worker's FILE
  got,       \* chunks gfc_perform has delivered to each worker
  reply,     \* what gfc_perform returned: [rc, status]
  result     \* how each request ended

boss == <<nreq, drawn, mpc>>
shared == <<queue, active, shutdown, mutex>>
disk == <<counter, loaded, name, dir, data, file>>
call == <<got, reply, result>>
vars == <<boss, shared, wpc, req, exit, disk, call>>

Request == 1..nreq
NoName == <<0, 0>>
NoReply == [rc |-> 0, status |-> "none"]

(* workload_get_path hands the lines out in turn. *)
PathOf(r) == ((r - 1) % NumPaths) + 1

Init == /\ nreq \in RequestCounts
        /\ drawn = 0
        /\ queue = << >>
        /\ active = 0
        /\ shutdown = FALSE
        /\ mutex = NoThread
        /\ mpc = "fill"
        /\ wpc = [w \in Worker |-> "none"]
        /\ req = [w \in Worker |-> 0]
        /\ exit = "running"
        /\ counter = 0
        /\ loaded = [w \in Worker |-> 0]
        /\ name = [r \in Request |-> NoName]
        /\ dir = << >>
        /\ data = [r \in Request |-> {}]
        /\ file = [w \in Worker |-> 0]
        /\ got = [w \in Worker |-> 0]
        /\ reply = [w \in Worker |-> NoReply]
        /\ result = [r \in Request |-> "none"]

----------------------------------------------------------------------------
(* The worker threads: "none" before pthread_create, "lock" when they ask
   for the mutex at the top of the loop or after a wait, "waiting" in
   pthread_cond_wait on worker_cond. *)

Waiting == {w \in Worker : wpc[w] = "waiting"}

Goto(w, label) == wpc' = [wpc EXCEPT ![w] = label]

\* Mutant: pthread_cond_signal, which wakes one worker only.
WakeAll_One == IF Waiting = {} THEN UNCHANGED wpc ELSE \E w \in Waiting : Goto(w, "lock")

(* pthread_cond_broadcast(worker_cond). *)
WakeAll == wpc' = [w \in Worker |-> IF w \in Waiting THEN "lock" ELSE wpc[w]]

Running == exit = "running"

----------------------------------------------------------------------------
(* main *)

(* The fill loop pushes, so the last path drawn ends at the front. *)
Fill == /\ mpc = "fill" /\ drawn < nreq
        /\ drawn' = drawn + 1
        /\ queue' = Pushed(queue, drawn + 1)
        /\ UNCHANGED <<nreq, mpc, active, shutdown, mutex, wpc, req, exit, disk, call>>

CreateWorker(w) == /\ mpc = "fill" /\ drawn >= nreq
                   /\ wpc[w] = "none"
                   /\ Goto(w, "lock")
                   /\ UNCHANGED <<boss, shared, req, exit, disk, call>>

(* All threads are created: lock, broadcast, and fall into the wait loop. *)
BossStart == /\ mpc = "fill" /\ drawn >= nreq
             /\ \A w \in Worker : wpc[w] # "none"
             /\ mutex = NoThread
             /\ mutex' = Main
             /\ mpc' = "check"
             /\ WakeAll
             /\ UNCHANGED <<nreq, drawn, queue, active, shutdown, req, exit, disk, call>>

(* Back from pthread_cond_wait: take the mutex again. *)
BossRelock == /\ mpc = "lock"
              /\ mutex = NoThread
              /\ mutex' = Main
              /\ mpc' = "check"
              /\ UNCHANGED <<nreq, drawn, queue, active, shutdown, wpc, req, exit, disk, call>>

\* Mutants: main looks at one of the two variables only.
WorkLeft_Queue == ~IsEmpty(queue)
WorkLeft_Active == active > 0

WorkLeft == ~IsEmpty(queue) \/ active > 0

BossWait == /\ mpc = "check" /\ WorkLeft
            /\ mpc' = "waiting"
            /\ mutex' = NoThread
            /\ UNCHANGED <<nreq, drawn, queue, active, shutdown, wpc, req, exit, disk, call>>

BossShutdown == /\ mpc = "check" /\ ~WorkLeft
                /\ shutdown' = TRUE
                /\ WakeAll
                /\ mutex' = NoThread
                /\ mpc' = "join"
                /\ UNCHANGED <<nreq, drawn, queue, active, req, exit, disk, call>>

\* Mutant: no pthread_join.
BossReturn_NoJoin == /\ mpc = "join"
                     /\ mpc' = "returned"
                     /\ exit' = "ok"
                     /\ queue' = << >>
                     /\ UNCHANGED <<nreq, drawn, active, shutdown, mutex, wpc, req, disk, call>>

(* The joins, then the mutex, the condition variables and the queue are
   destroyed and main returns. *)
BossReturn == /\ mpc = "join"
              /\ \A w \in Worker : wpc[w] = "exited"
              /\ mpc' = "returned"
              /\ exit' = "ok"
              /\ queue' = << >>
              /\ UNCHANGED <<nreq, drawn, active, shutdown, mutex, wpc, req, disk, call>>

BossSpuriousWakeup == /\ mpc = "waiting"
                      /\ mpc' = "lock"
                      /\ UNCHANGED <<nreq, drawn, shared, wpc, req, exit, disk, call>>

----------------------------------------------------------------------------
(* worker_fn *)

WorkerLock(w) == /\ \/ wpc[w] = "lock" /\ Goto(w, "claim")
                    \/ wpc[w] = "finishlock" /\ Goto(w, "finish")
                 /\ mutex = NoThread
                 /\ mutex' = w
                 /\ UNCHANGED <<boss, queue, active, shutdown, req, exit, disk, call>>

WorkerWait(w) == /\ wpc[w] = "claim"
                 /\ ~shutdown /\ IsEmpty(queue)
                 /\ Goto(w, "waiting")
                 /\ mutex' = NoThread
                 /\ UNCHANGED <<boss, queue, active, shutdown, req, exit, disk, call>>

WorkerSpuriousWakeup(w) == /\ wpc[w] = "waiting"
                           /\ Goto(w, "lock")
                           /\ UNCHANGED <<boss, shared, req, exit, disk, call>>

WorkerExit(w) == /\ wpc[w] = "claim"
                 /\ shutdown
                 /\ Goto(w, "exited")
                 /\ mutex' = NoThread
                 /\ UNCHANGED <<boss, queue, active, shutdown, req, exit, disk, call>>

\* Mutant: steque_front, which leaves the path in the queue.
WorkerPop_Peek(w) == /\ wpc[w] = "claim"
                     /\ ~shutdown /\ ~IsEmpty(queue)
                     /\ req' = [req EXCEPT ![w] = Front(queue)]
                     /\ active' = active + 1
                     /\ Goto(w, "name")
                     /\ mutex' = NoThread
                     /\ UNCHANGED <<boss, queue, shutdown, exit, disk, call>>

\* Mutant: no active_workers++.
WorkerPop_Uncounted(w) == /\ wpc[w] = "claim"
                          /\ ~shutdown /\ ~IsEmpty(queue)
                          /\ req' = [req EXCEPT ![w] = Front(queue)]
                          /\ queue' = Popped(queue)
                          /\ Goto(w, "name")
                          /\ mutex' = NoThread
                          /\ UNCHANGED <<boss, active, shutdown, exit, disk, call>>

WorkerPop(w) == /\ wpc[w] = "claim"
                /\ ~shutdown /\ ~IsEmpty(queue)
                /\ req' = [req EXCEPT ![w] = Front(queue)]
                /\ queue' = Popped(queue)
                /\ active' = active + 1
                /\ Goto(w, "name")
                /\ mutex' = NoThread
                /\ UNCHANGED <<boss, shutdown, exit, disk, call>>

(* localPath runs outside the mutex: counter++ is a load and a store. *)
LocalPathLoad(w) == /\ wpc[w] = "name"
                    /\ loaded' = [loaded EXCEPT ![w] = counter]
                    /\ Goto(w, "bump")
                    /\ UNCHANGED <<boss, shared, req, exit, counter, name, dir, data, file, call>>

LocalPathStore(w) == /\ wpc[w] = "bump"
                     /\ counter' = loaded[w] + 1
                     /\ name' = [name EXCEPT ![req[w]] = <<PathOf(req[w]), loaded[w]>>]
                     /\ loaded' = [loaded EXCEPT ![w] = 0]
                     /\ Goto(w, "open")
                     /\ UNCHANGED <<boss, shared, req, exit, dir, data, file, call>>

LocalName(w) == name[req[w]]

(* fopen(path, "w") truncates the file of that name or makes a new one. *)
OpenFile(w) ==
  /\ wpc[w] = "open"
  /\ LET n == LocalName(w)
         inode == IF n \in DOMAIN dir THEN dir[n] ELSE req[w]
     IN  /\ dir' = [m \in DOMAIN dir \cup {n} |-> IF m = n THEN inode ELSE dir[m]]
         /\ data' = [data EXCEPT ![inode] = {}]
         /\ file' = [file EXCEPT ![w] = inode]
  /\ Goto(w, "perform")
  /\ UNCHANGED <<boss, shared, req, exit, counter, loaded, name, call>>

(* mkdir or fopen fails: exit takes the whole process with it. *)
OpenFileFails(w) == /\ wpc[w] = "open"
                    /\ exit' = "failed"
                    /\ UNCHANGED <<boss, shared, wpc, req, disk, call>>

(* gfc_perform calls writecb with the next piece of the body. *)
WriteChunk(w) == /\ wpc[w] = "perform" /\ got[w] < Chunks
                 /\ got' = [got EXCEPT ![w] = @ + 1]
                 /\ data' = [data EXCEPT ![file[w]] = @ \cup {got[w] + 1}]
                 /\ UNCHANGED <<boss, shared, wpc, req, exit, counter, loaded, name,
                                dir, file, reply, result>>

(* 0 with status OK once the body is complete, 0 with FILE_NOT_FOUND or ERROR
   when the server refuses, negative when the exchange broke: the header was
   missing or invalid, or the connection was closed too early. *)
Replies(w) == (IF got[w] = Chunks THEN {[rc |-> 0, status |-> "OK"]}
                                  ELSE {[rc |-> -1, status |-> "OK"]})
              \cup (IF got[w] = 0 THEN {[rc |-> 0, status |-> "ERROR"],
                                        [rc |-> -1, status |-> "INVALID"]} ELSE {})

PerformReturns(w) == /\ wpc[w] = "perform"
                     /\ \E a \in Replies(w) : reply' = [reply EXCEPT ![w] = a]
                     /\ Goto(w, "close")
                     /\ UNCHANGED <<boss, shared, req, exit, disk, got, result>>

(* unlink(local_path); that it may fail is only printed. *)
Unlinked(n) == [m \in DOMAIN dir \ {n} |-> dir[m]]

RemoveIf(bad, w) == dir' = IF bad THEN Unlinked(LocalName(w)) ELSE dir

\* Mutant: an off-by-one in the test.
AfterPerform_OffByOne(w) == RemoveIf(reply[w].rc <= 0, w)

AfterPerform(w) == RemoveIf(reply[w].rc < 0, w)

\* Mutant: the second unlink is missing.
AfterStatus_Keep(w) == RemoveIf(FALSE, w)

AfterStatus(w) == RemoveIf(reply[w].status # "OK", w)

CloseFile(w) == /\ wpc[w] = "close"
                /\ AfterPerform(w)
                /\ file' = [file EXCEPT ![w] = 0]
                /\ Goto(w, "status")
                /\ UNCHANGED <<boss, shared, req, exit, counter, loaded, name, data, call>>

(* The status is looked at, then gfc_cleanup frees the request. *)
CheckStatus(w) ==
  /\ wpc[w] = "status"
  /\ AfterStatus(w)
  /\ result' = [result EXCEPT ![req[w]] =
                  IF reply[w] = [rc |-> 0, status |-> "OK"] THEN "ok" ELSE "failed"]
  /\ got' = [got EXCEPT ![w] = 0]
  /\ reply' = [reply EXCEPT ![w] = NoReply]
  /\ Goto(w, "finishlock")
  /\ UNCHANGED <<boss, shared, req, exit, counter, loaded, name, data, file>>

\* Mutant: active_workers is tested before it is decremented.
IsLast_TooEarly == IsEmpty(queue) /\ active = 0

IsLast == IsEmpty(queue) /\ active' = 0

(* The last worker to finish signals finish_cond while it holds the mutex. *)
WorkerFinish(w) == /\ wpc[w] = "finish"
                   /\ active' = active - 1
                   /\ mpc' = IF IsLast /\ mpc = "waiting" THEN "lock" ELSE mpc
                   /\ req' = [req EXCEPT ![w] = 0]
                   /\ Goto(w, "lock")
                   /\ mutex' = NoThread
                   /\ UNCHANGED <<nreq, drawn, queue, shutdown, exit, disk, call>>

----------------------------------------------------------------------------

BossStep == \/ Fill \/ (\E w \in Worker : CreateWorker(w))
            \/ BossStart \/ BossRelock \/ BossWait \/ BossShutdown \/ BossReturn

WorkerStep(w) == \/ WorkerLock(w) \/ WorkerWait(w) \/ WorkerExit(w) \/ WorkerPop(w)
                 \/ LocalPathLoad(w) \/ LocalPathStore(w)
                 \/ OpenFile(w) \/ OpenFileFails(w)
                 \/ WriteChunk(w) \/ PerformReturns(w)
                 \/ CloseFile(w) \/ CheckStatus(w) \/ WorkerFinish(w)

SpuriousWakeup == BossSpuriousWakeup \/ \E w \in Worker : WorkerSpuriousWakeup(w)

(* The process is gone after exit: nothing is left to schedule. *)
Exited == ~Running /\ UNCHANGED vars

Next == \/ Running /\ BossStep
        \/ Running /\ \E w \in Worker : WorkerStep(w)
        \/ Running /\ SpuriousWakeup
        \/ Exited

(* The scheduler runs every thread that can run, a thread that asks for the
   mutex again and again gets it, and a call of gfc_perform comes back. *)
Fairness == /\ WF_vars(Running /\ BossStep)
            /\ SF_vars(Running /\ (BossStart \/ BossRelock))
            /\ \A w \in Worker : /\ WF_vars(Running /\ WorkerStep(w))
                                 /\ SF_vars(Running /\ WorkerLock(w))

Spec == Init /\ [][Next]_vars
FairSpec == Spec /\ Fairness
----------------------------------------------------------------------------

Label == {"none", "lock", "claim", "waiting", "name", "bump", "open", "perform",
          "close", "status", "finishlock", "finish", "exited"}

(* Where a worker has claimed a request and not yet given it back. *)
Working == {w \in Worker : wpc[w] \in {"name", "bump", "open", "perform", "close",
                                       "status", "finishlock", "finish"}}

(* Types of the shared fields, of the control state and of the files. *)
TypeOK ==
  /\ nreq \in Int /\ drawn \in Nat
  /\ queue \in Seq(Request)
  /\ active \in Nat
  /\ shutdown \in BOOLEAN
  /\ mutex \in Worker \cup {Main, NoThread}
  /\ mpc \in {"fill", "lock", "check", "waiting", "join", "returned"}
  /\ wpc \in [Worker -> Label]
  /\ req \in [Worker -> Request \cup {0}]
  /\ exit \in {"running", "ok", "failed"}
  /\ counter \in Nat /\ loaded \in [Worker -> Nat]
  /\ name \in [Request -> (0..NumPaths) \X Nat]
  /\ \A n \in DOMAIN dir : dir[n] \in Request
  /\ data \in [Request -> SUBSET (1..Chunks)]
  /\ file \in [Worker -> Request \cup {0}]
  /\ got \in [Worker -> 0..Chunks]
  /\ reply \in [Worker -> [rc : {0, -1}, status : {"none", "OK", "ERROR", "INVALID"}]]
  /\ result \in [Request -> {"none", "ok", "failed"}]

Queued(r) == \E i \in 1..Len(queue) : queue[i] = r
Held(r) == \E w \in Worker : req[w] = r

(* Each request is in one place only: not drawn yet, in the queue once, with
   one worker, or finished.  A path popped by two workers, or dropped between
   the pop and the count, shows here. *)
RequestsConserved ==
  /\ \A i, j \in 1..Len(queue) : queue[i] = queue[j] => i = j
  /\ \A v, w \in Worker : req[v] = req[w] /\ req[v] # 0 => v = w
  /\ \A r \in Request :
       /\ drawn < r => ~Queued(r) /\ ~Held(r) /\ result[r] = "none"
       /\ Queued(r) => ~Held(r) /\ result[r] = "none"
       /\ drawn >= r => Queued(r) \/ Held(r) \/ result[r] # "none"

(* "All tasks finished" is printed, and shutdown set, only when it is so: no
   request is queued, in progress or lost, although main looks at two
   variables that the workers change. *)
ShutdownDrained ==
  shutdown => /\ IsEmpty(queue) /\ Working = {}
              /\ \A r \in Request : result[r] # "none"

(* Nobody sleeps on a condition that has come true.  Main sleeps only while
   some work is left whose end will signal it; a worker sleeps only while
   there is nothing to claim and no shutdown to see.  A lost wakeup at either
   condition variable breaks this at once. *)
SleepersJustified ==
  /\ mpc = "waiting" => WorkLeft
  /\ Waiting # {} => ~shutdown /\ IsEmpty(queue)

(* active_workers counts the workers that hold a request, whatever path they
   take to give it back. *)
ActiveCounts == active = Cardinality(Working)

(* pthread_mutex_destroy, the cond destroys and steque_destroy run when no
   worker can touch what they destroy. *)
DestroyedUnused ==
  mpc = "returned" => \A w \in Worker : wpc[w] = "exited"

(* A download that gfc_perform completed stays on disk, whole, in a file of
   its own. *)
DownloadsKept ==
  \A r \in Request : result[r] = "ok" =>
    /\ name[r] \in DOMAIN dir
    /\ data[dir[name[r]]] = 1..Chunks
    /\ \A s \in Request : s # r /\ result[s] = "ok" => name[s] # name[r]

(* A download that failed leaves no file under its name, whichever of the two
   unlinks was reached. *)
FailuresRemoved ==
  \A r \in Request : result[r] = "failed" => name[r] \notin DOMAIN dir

(* The client ends: every worker is woken and joined, with any number of
   requests from a negative one to more than there are threads. *)
Termination == <>(exit # "running")

(* The pool keeps the promise of Batch: started once, finished once, at most
   nthreads at a time, and no return before the last one. *)
Stage == [r \in Request |-> IF Held(r) THEN "doing"
                            ELSE IF result[r] # "none" THEN "done" ELSE "todo"]

B == INSTANCE Batch WITH Limit <- Cardinality(Worker), size <- nreq,
                         stage <- Stage, outcome <- exit

ImplementsBatch == B!Spec
=============================================================================
