-------------------------- MODULE ClientPoolProofs ---------------------------
(***************************************************************************)
(* Proofs about the download client for any number of threads, requests    *)
(* and workload lines.                                                     *)
(***************************************************************************)
EXTENDS ClientPool, SequenceTheorems, FiniteSetTheorems, TLAPS

(* The workload hands out one of its lines, however often it is asked. *)
LEMMA PathOfType == ASSUME NEW r \in Int PROVE PathOf(r) \in 1..NumPaths
<1>1. NumPaths \in Nat \ {0}
  BY WorkloadAssumption
<1>2. (r - 1) % NumPaths \in 0..(NumPaths - 1)
  BY <1>1
<1> QED
  BY <1>1, <1>2 DEF PathOf

(* gfc_perform returns 0 or -1 with one of the statuses of mtgf/gfclient.h. *)
LEMMA RepliesType ==
  ASSUME NEW w
  PROVE  Replies(w) \subseteq [rc : {0, -1}, status : {"none", "OK", "ERROR", "INVALID"}]
  BY DEF Replies

(* An item put before all others moves nothing else. *)
LEMMA PushedFacts ==
  ASSUME NEW S, NEW q \in Seq(S), NEW x \in S
  PROVE  /\ << x >> \o q \in Seq(S)
         /\ Len(<< x >> \o q) = Len(q) + 1
         /\ (<< x >> \o q)[1] = x
         /\ \A i \in 1..Len(q) : (<< x >> \o q)[i + 1] = q[i]
<1> DEFINE s == << x >> \o q
<1>1. << x >> \in Seq(S) /\ Len(<< x >>) = 1
  OBVIOUS
<1>2. s \in Seq(S) /\ Len(s) = Len(q) + 1
  BY <1>1, ConcatProperties
<1>3. s[1] = x
  BY <1>1, ConcatProperties
<1>4. ASSUME NEW i \in 1..Len(q) PROVE s[i + 1] = q[i]
  BY <1>1, ConcatProperties
<1> QED
  BY <1>2, <1>3, <1>4

(* A nonempty queue has a first item, and its tail lacks that item only. *)
LEMMA PoppedFacts ==
  ASSUME NEW S, NEW q \in Seq(S), q # << >>
  PROVE  /\ Len(q) \in Nat \ {0}
         /\ Head(q) \in S
         /\ Head(q) = q[1]
         /\ Tail(q) \in Seq(S)
         /\ Len(Tail(q)) = Len(q) - 1
         /\ \A i \in 1..Len(q) - 1 : Tail(q)[i] = q[i + 1]
  BY HeadTailProperties

(***************************************************************************)
(* The inductive invariant.  The properties alone are not inductive: they  *)
(* rest on who holds the mutex, on which phase main is in, and on every    *)
(* worker having noted a result before it gives its request back.          *)
(***************************************************************************)

(* A worker has a request exactly while it is counted. *)
HoldsRequest == \A w \in Worker : w \in Working <=> req[w] # 0

(* Whoever is between a lock and the next wait or unlock owns the mutex. *)
MutexHeld == /\ \A w \in Worker : wpc[w] \in {"claim", "finish"} <=> mutex = w
             /\ mpc = "check" <=> mutex = Main

(* No worker exists while main fills the queue; all exist once it waits. *)
StartedUp == /\ mpc = "fill" => ~shutdown
             /\ mpc = "fill" /\ drawn < nreq => \A w \in Worker : wpc[w] = "none"
             /\ mpc # "fill" => drawn >= nreq /\ \A w \in Worker : wpc[w] # "none"

ShutdownPhase == shutdown <=> mpc \in {"join", "returned"}

(* The result of a request is known before its worker gives it back. *)
Recorded == \A w \in Worker : wpc[w] \in {"finishlock", "finish"} => result[req[w]] # "none"

Control == HoldsRequest /\ MutexHeld /\ StartedUp /\ ShutdownPhase /\ Recorded

IInv == /\ TypeOK /\ Control /\ ActiveCounts
        /\ RequestsConserved /\ ShutdownDrained /\ SleepersJustified
        /\ DestroyedUnused

(* The counted workers are threads of the pool, hence finitely many. *)
LEMMA WorkingFinite == IsFiniteSet(Working)
  BY ThreadsAssumption, FS_Subset DEF Working

(* While a worker holds a request, active_workers-- cannot fall below zero. *)
LEMMA ActivePositive ==
  ASSUME ActiveCounts, NEW w \in Working
  PROVE  active \in Nat \ {0}
  BY WorkingFinite, FS_EmptySet, FS_CardinalityType DEF ActiveCounts

(* Every reachable state is well typed: in particular active_workers never
   becomes negative, the queue holds paths only, and no file name is drawn
   from outside the workload. *)
LEMMA TypeOKInit == Init => TypeOK
<1> SUFFICES ASSUME Init PROVE TypeOK
  OBVIOUS
<1>1. queue \in Seq(Request)
  BY EmptySeq DEF Init
<1>2. nreq \in Int
  BY WorkloadAssumption DEF Init
<1>3. \A n \in DOMAIN dir : dir[n] \in Request
  BY DEF Init
<1>4. name \in [Request -> (0..NumPaths) \X Nat]
  BY WorkloadAssumption DEF Init, NoName
<1>5. got \in [Worker -> 0..Chunks]
  BY WorkloadAssumption DEF Init
<1> QED
  BY <1>1, <1>2, <1>3, <1>4, <1>5 DEF Init, TypeOK, Label, NoReply

(* Every step keeps the types; the decrement needs the count to be exact. *)
LEMMA TypeOKStep ==
  ASSUME TypeOK, HoldsRequest, ActiveCounts, [Next]_vars
  PROVE  TypeOK'
<1> USE DEF TypeOK, boss, shared, disk, call, Label, Goto
<1>0. nreq' = nreq => Request' = Request
  BY DEF Request
<1>1. CASE UNCHANGED vars
  BY <1>0, <1>1 DEF vars
<1>2. CASE Fill
  <2>1. drawn + 1 \in Request
    BY <1>2 DEF Fill, Request
  <2>2. queue' \in Seq(Request)
    BY <1>2, <2>1, PushedFacts DEF Fill, Pushed
  <2> QED
    BY <1>0, <1>2, <2>2 DEF Fill
<1>3. ASSUME NEW w \in Worker, CreateWorker(w) PROVE TypeOK'
  BY <1>0, <1>3 DEF CreateWorker
<1>4. CASE BossStart
  BY <1>0, <1>4 DEF BossStart, WakeAll
<1>5. CASE BossRelock
  BY <1>0, <1>5 DEF BossRelock
<1>6. CASE BossWait
  BY <1>0, <1>6 DEF BossWait
<1>7. CASE BossShutdown
  BY <1>0, <1>7 DEF BossShutdown, WakeAll
<1>8. CASE BossReturn
  BY <1>0, <1>8, EmptySeq DEF BossReturn
<1>9. CASE BossSpuriousWakeup
  BY <1>0, <1>9 DEF BossSpuriousWakeup
<1>10. ASSUME NEW w \in Worker, WorkerLock(w) PROVE TypeOK'
  BY <1>0, <1>10 DEF WorkerLock
<1>11. ASSUME NEW w \in Worker, WorkerWait(w) PROVE TypeOK'
  BY <1>0, <1>11 DEF WorkerWait
<1>12. ASSUME NEW w \in Worker, WorkerSpuriousWakeup(w) PROVE TypeOK'
  BY <1>0, <1>12 DEF WorkerSpuriousWakeup
<1>13. ASSUME NEW w \in Worker, WorkerExit(w) PROVE TypeOK'
  BY <1>0, <1>13 DEF WorkerExit
<1>14. ASSUME NEW w \in Worker, WorkerPop(w) PROVE TypeOK'
  <2>0. queue \in Seq(Request) /\ ~IsEmpty(queue)
    BY <1>14 DEF WorkerPop
  <2>1. Front(queue) \in Request /\ Popped(queue) \in Seq(Request)
    BY <2>0, PoppedFacts DEF Popped, Front, IsEmpty
  <2> QED
    BY <1>0, <1>14, <2>1 DEF WorkerPop
<1>15. ASSUME NEW w \in Worker, LocalPathLoad(w) PROVE TypeOK'
  BY <1>0, <1>15 DEF LocalPathLoad
<1>16. ASSUME NEW w \in Worker, LocalPathStore(w) PROVE TypeOK'
  <2>1. req[w] \in Int /\ loaded[w] \in Nat
    BY DEF Request
  <2>2. PathOf(req[w]) \in 0..NumPaths
    BY <2>1, PathOfType, WorkloadAssumption
  <2>3. name' \in [Request -> (0..NumPaths) \X Nat]
    BY <1>16, <2>1, <2>2 DEF LocalPathStore
  <2> QED
    BY <1>0, <1>16, <2>1, <2>3 DEF LocalPathStore
<1>17. ASSUME NEW w \in Worker, OpenFile(w) PROVE TypeOK'
  <2> DEFINE n == LocalName(w)
             inode == IF n \in DOMAIN dir THEN dir[n] ELSE req[w]
  <2>1. w \in Working
    BY <1>17 DEF OpenFile, Working
  <2>2. inode \in Request
    BY <2>1 DEF HoldsRequest
  <2>3. \A m \in DOMAIN dir' : dir'[m] \in Request
    BY <1>17, <2>2 DEF OpenFile
  <2>4. data' \in [Request -> SUBSET (1..Chunks)] /\ file' \in [Worker -> Request \cup {0}]
    BY <1>17, <2>2 DEF OpenFile
  <2> QED
    BY <1>0, <1>17, <2>3, <2>4 DEF OpenFile
<1>18. ASSUME NEW w \in Worker, OpenFileFails(w) PROVE TypeOK'
  BY <1>0, <1>18 DEF OpenFileFails
<1>19. ASSUME NEW w \in Worker, WriteChunk(w) PROVE TypeOK'
  <2>1. got[w] + 1 \in 1..Chunks
    BY <1>19, WorkloadAssumption DEF WriteChunk
  <2>2. got' \in [Worker -> 0..Chunks]
    BY <1>19, <2>1, WorkloadAssumption DEF WriteChunk
  <2>3. data' \in [Request -> SUBSET (1..Chunks)]
    BY <1>19, <2>1 DEF WriteChunk
  <2> QED
    BY <1>0, <1>19, <2>2, <2>3 DEF WriteChunk
<1>20. ASSUME NEW w \in Worker, PerformReturns(w) PROVE TypeOK'
  BY <1>0, <1>20, RepliesType DEF PerformReturns
<1>21. ASSUME NEW w \in Worker, CloseFile(w) PROVE TypeOK'
  BY <1>0, <1>21 DEF CloseFile, AfterPerform, RemoveIf, Unlinked
<1>22. ASSUME NEW w \in Worker, CheckStatus(w) PROVE TypeOK'
  <2>1. got' \in [Worker -> 0..Chunks]
    BY <1>22, WorkloadAssumption DEF CheckStatus
  <2>2. reply' \in [Worker -> [rc : {0, -1}, status : {"none", "OK", "ERROR", "INVALID"}]]
    BY <1>22 DEF CheckStatus, NoReply
  <2>3. result' \in [Request -> {"none", "ok", "failed"}]
    BY <1>22 DEF CheckStatus
  <2>4. \A n \in DOMAIN dir' : dir'[n] \in Request
    BY <1>22 DEF CheckStatus, AfterStatus, RemoveIf, Unlinked
  <2> QED
    BY <1>0, <1>22, <2>1, <2>2, <2>3, <2>4 DEF CheckStatus
<1>23. ASSUME NEW w \in Worker, WorkerFinish(w) PROVE TypeOK'
  <2>1. w \in Working
    BY <1>23 DEF WorkerFinish, Working
  <2>2. active' \in Nat
    BY <1>23, <2>1, ActivePositive DEF WorkerFinish
  <2> QED
    BY <1>0, <1>23, <2>2 DEF WorkerFinish
<1> QED
  BY <1>1, <1>2, <1>3, <1>4, <1>5, <1>6, <1>7, <1>8, <1>9, <1>10, <1>11, <1>12,
     <1>13, <1>14, <1>15, <1>16, <1>17, <1>18, <1>19, <1>20, <1>21, <1>22, <1>23
  DEF Next, BossStep, WorkerStep, SpuriousWakeup, Exited

----------------------------------------------------------------------------
(* The steps between a pop and the unlinks look alike to the invariant: a
   worker that has a request works on its files. *)
FileWork(w) == /\ wpc[w] \in {"name", "bump", "open", "perform", "close"}
               /\ \E label \in {"bump", "open", "perform", "close", "status"} : Goto(w, label)
               /\ UNCHANGED <<boss, shared, req, result>>

(* Each step of localPath, openFile, gfc_perform and the first unlink is FileWork. *)
LEMMA FileWorkSteps ==
  ASSUME TypeOK, NEW w \in Worker,
         \/ LocalPathLoad(w) \/ LocalPathStore(w) \/ OpenFile(w) \/ OpenFileFails(w)
         \/ WriteChunk(w) \/ PerformReturns(w) \/ CloseFile(w)
  PROVE  FileWork(w)
<1> USE DEF TypeOK, FileWork, Goto, boss, shared, disk, call
<1>1. CASE LocalPathLoad(w)
  BY <1>1 DEF LocalPathLoad
<1>2. CASE LocalPathStore(w)
  BY <1>2 DEF LocalPathStore
<1>3. CASE OpenFile(w)
  BY <1>3 DEF OpenFile
<1>4. CASE OpenFileFails(w)
  <2>1. wpc' = [wpc EXCEPT ![w] = "open"]
    BY <1>4 DEF OpenFileFails
  <2> QED
    BY <1>4, <2>1 DEF OpenFileFails
<1>5. CASE WriteChunk(w)
  <2>1. wpc' = [wpc EXCEPT ![w] = "perform"]
    BY <1>5 DEF WriteChunk
  <2> QED
    BY <1>5, <2>1 DEF WriteChunk
<1>6. CASE PerformReturns(w)
  BY <1>6 DEF PerformReturns
<1>7. CASE CloseFile(w)
  BY <1>7 DEF CloseFile
<1> QED
  BY <1>1, <1>2, <1>3, <1>4, <1>5, <1>6, <1>7

(* A step is one of the critical sections, a step on files or a stutter. *)
LEMMA StepCases ==
  ASSUME TypeOK, [Next]_vars
  PROVE  \/ UNCHANGED vars
         \/ Fill \/ BossStart \/ BossRelock \/ BossWait \/ BossShutdown \/ BossReturn
         \/ BossSpuriousWakeup
         \/ \E w \in Worker :
              \/ CreateWorker(w) \/ WorkerLock(w) \/ WorkerWait(w) \/ WorkerExit(w)
              \/ WorkerSpuriousWakeup(w) \/ WorkerPop(w) \/ FileWork(w)
              \/ CheckStatus(w) \/ WorkerFinish(w)
  BY FileWorkSteps DEF Next, BossStep, WorkerStep, SpuriousWakeup, Exited

(* Who holds the mutex and which phase main is in, step by step. *)
LEMMA ControlStep ==
  ASSUME TypeOK, Control, SleepersJustified, ActiveCounts, [Next]_vars
  PROVE  Control'
<1> USE ThreadsAssumption
    DEF TypeOK, Control, HoldsRequest, MutexHeld, StartedUp, ShutdownPhase, Recorded,
        Working, Label, Goto, Request, boss, shared, disk, call
<1>1. CASE UNCHANGED vars
  BY <1>1 DEF vars
<1>2. CASE Fill
  BY <1>2 DEF Fill
<1>3. CASE BossStart
  BY <1>3 DEF BossStart, WakeAll, Waiting
<1>4. CASE BossRelock
  BY <1>4 DEF BossRelock
<1>5. CASE BossWait
  BY <1>5 DEF BossWait
<1>6. CASE BossShutdown
  BY <1>6 DEF BossShutdown, WakeAll, Waiting
<1>7. CASE BossReturn
  BY <1>7 DEF BossReturn
<1>8. CASE BossSpuriousWakeup
  BY <1>8 DEF BossSpuriousWakeup
<1>9. ASSUME NEW w \in Worker, CreateWorker(w) PROVE Control'
  BY <1>9 DEF CreateWorker
<1>10. ASSUME NEW w \in Worker, WorkerLock(w) PROVE Control'
  <2>1. MutexHeld'
    BY <1>10 DEF WorkerLock
  <2>2. HoldsRequest'
    BY <1>10 DEF WorkerLock
  <2>3. Recorded'
    BY <1>10 DEF WorkerLock
  <2>4. StartedUp' /\ ShutdownPhase'
    BY <1>10 DEF WorkerLock
  <2> QED
    BY <2>1, <2>2, <2>3, <2>4
<1>11. ASSUME NEW w \in Worker, WorkerWait(w) PROVE Control'
  BY <1>11 DEF WorkerWait
<1>12. ASSUME NEW w \in Worker, WorkerExit(w) PROVE Control'
  BY <1>12 DEF WorkerExit
<1>13. ASSUME NEW w \in Worker, WorkerSpuriousWakeup(w) PROVE Control'
  BY <1>13 DEF WorkerSpuriousWakeup
<1>14. ASSUME NEW w \in Worker, WorkerPop(w) PROVE Control'
  <2>1. Front(queue) \in Request
    BY <1>14, PoppedFacts DEF WorkerPop, Popped, Front, IsEmpty
  <2>2. MutexHeld'
    BY <1>14 DEF WorkerPop
  <2>3. HoldsRequest'
    BY <1>14, <2>1 DEF WorkerPop
  <2>4. Recorded'
    BY <1>14 DEF WorkerPop
  <2>5. StartedUp' /\ ShutdownPhase'
    BY <1>14 DEF WorkerPop
  <2> QED
    BY <2>2, <2>3, <2>4, <2>5
<1>15. ASSUME NEW w \in Worker, FileWork(w) PROVE Control'
  <2>1. PICK label \in {"bump", "open", "perform", "close", "status"} : Goto(w, label)
    BY <1>15 DEF FileWork
  <2>2. HoldsRequest'
    BY <1>15, <2>1 DEF FileWork
  <2>3. MutexHeld'
    BY <1>15, <2>1 DEF FileWork
  <2>4. Recorded'
    BY <1>15, <2>1 DEF FileWork
  <2>5. StartedUp' /\ ShutdownPhase'
    BY <1>15, <2>1 DEF FileWork
  <2> QED
    BY <2>2, <2>3, <2>4, <2>5
<1>16. ASSUME NEW w \in Worker, CheckStatus(w) PROVE Control'
  BY <1>16 DEF CheckStatus
<1>17. ASSUME NEW w \in Worker, WorkerFinish(w) PROVE Control'
  BY <1>17 DEF WorkerFinish
<1> QED
  BY StepCases, <1>1, <1>2, <1>3, <1>4, <1>5, <1>6, <1>7, <1>8, <1>9, <1>10, <1>11,
     <1>12, <1>13, <1>14, <1>15, <1>16, <1>17

(* Only the pop and the return of a request change who is working, and both
   change the count with it. *)
LEMMA ActiveCountsStep ==
  ASSUME TypeOK, ActiveCounts, [Next]_vars
  PROVE  ActiveCounts'
<1> USE DEF TypeOK, ActiveCounts, Goto, Label, boss, shared, disk, call
<1>0. Working' = Working /\ active' = active => ActiveCounts'
  OBVIOUS
<1> DEFINE Same == Working' = Working /\ active' = active
<1>1. CASE UNCHANGED vars
  BY <1>1, <1>0 DEF vars, Working
<1>2. CASE Fill \/ BossRelock \/ BossWait \/ BossReturn \/ BossSpuriousWakeup
  BY <1>2, <1>0 DEF Fill, BossRelock, BossWait, BossReturn, BossSpuriousWakeup, Working
<1>3. CASE BossStart
  <2>1. Same
    BY <1>3 DEF BossStart, WakeAll, Waiting, Working
  <2> QED
    BY <1>0, <2>1
<1>4. CASE BossShutdown
  <2>1. Same
    BY <1>4 DEF BossShutdown, WakeAll, Waiting, Working
  <2> QED
    BY <1>0, <2>1
<1>5. ASSUME NEW w \in Worker,
             \/ CreateWorker(w) \/ WorkerLock(w) \/ WorkerWait(w) \/ WorkerExit(w)
             \/ WorkerSpuriousWakeup(w) \/ CheckStatus(w)
      PROVE  ActiveCounts'
  <2>1. Same
    BY <1>5 DEF CreateWorker, WorkerLock, WorkerWait, WorkerExit, WorkerSpuriousWakeup,
                CheckStatus, Working
  <2> QED
    BY <1>0, <2>1
<1>6. ASSUME NEW w \in Worker, FileWork(w) PROVE ActiveCounts'
  <2>1. PICK label \in {"bump", "open", "perform", "close", "status"} : Goto(w, label)
    BY <1>6 DEF FileWork
  <2>2. Same
    BY <1>6, <2>1 DEF FileWork, Working
  <2> QED
    BY <1>0, <2>2
<1>7. ASSUME NEW w \in Worker, WorkerPop(w) PROVE ActiveCounts'
  <2>1. Working' = Working \cup {w} /\ w \notin Working
    BY <1>7 DEF WorkerPop, Working
  <2>2. Cardinality(Working \cup {w}) = Cardinality(Working) + 1
    BY <2>1, WorkingFinite, FS_AddElement
  <2> QED
    BY <1>7, <2>1, <2>2 DEF WorkerPop
<1>8. ASSUME NEW w \in Worker, WorkerFinish(w) PROVE ActiveCounts'
  <2>1. Working' = Working \ {w} /\ w \in Working
    BY <1>8 DEF WorkerFinish, Working
  <2>2. Cardinality(Working \ {w}) = Cardinality(Working) - 1
    BY <2>1, WorkingFinite, FS_RemoveElement
  <2> QED
    BY <1>8, <2>1, <2>2 DEF WorkerFinish
<1> QED
  BY StepCases, <1>1, <1>2, <1>3, <1>4, <1>5, <1>6, <1>7, <1>8

(* Main goes to sleep only after looking, and what it saw can only be undone
   by a worker that signals it; workers sleep on an empty queue, which nobody
   fills again. *)
LEMMA SleepersStep ==
  ASSUME TypeOK, TypeOK', Control, SleepersJustified, [Next]_vars
  PROVE  SleepersJustified'
<1> USE DEF TypeOK, SleepersJustified, Waiting, WorkLeft, Goto, Label,
            boss, shared, disk, call
<1>1. CASE UNCHANGED vars
  BY <1>1 DEF vars
<1>2. CASE Fill
  BY <1>2 DEF Fill, Control, StartedUp
<1>3. CASE BossStart
  BY <1>3 DEF BossStart, WakeAll
<1>4. CASE BossRelock \/ BossWait
  BY <1>4 DEF BossRelock, BossWait
<1>5. CASE BossShutdown
  BY <1>5 DEF BossShutdown, WakeAll
<1>6. CASE BossReturn
  BY <1>6 DEF BossReturn, IsEmpty
<1>7. CASE BossSpuriousWakeup
  BY <1>7 DEF BossSpuriousWakeup
<1>8. ASSUME NEW w \in Worker,
             \/ CreateWorker(w) \/ WorkerLock(w) \/ WorkerWait(w) \/ WorkerExit(w)
             \/ WorkerSpuriousWakeup(w) \/ CheckStatus(w)
      PROVE  SleepersJustified'
  BY <1>8 DEF CreateWorker, WorkerLock, WorkerWait, WorkerExit, WorkerSpuriousWakeup,
              CheckStatus
<1>9. ASSUME NEW w \in Worker, FileWork(w) PROVE SleepersJustified'
  <2>1. PICK label \in {"bump", "open", "perform", "close", "status"} : Goto(w, label)
    BY <1>9 DEF FileWork
  <2> QED
    BY <1>9, <2>1 DEF FileWork
<1>10. ASSUME NEW w \in Worker, WorkerPop(w) PROVE SleepersJustified'
  <2>1. Waiting' = Waiting
    BY <1>10 DEF WorkerPop
  <2>2. Waiting = {}
    BY <1>10 DEF WorkerPop
  <2>3. active' > 0
    BY <1>10 DEF WorkerPop
  <2> QED
    BY <2>1, <2>2, <2>3
<1>11. ASSUME NEW w \in Worker, WorkerFinish(w) PROVE SleepersJustified'
  <2>1. Waiting' = Waiting
    BY <1>11 DEF WorkerFinish
  <2>2. mpc' = "waiting" => ~IsEmpty(queue) \/ active' # 0
    BY <1>11 DEF WorkerFinish, IsLast
  <2> QED
    BY <1>11, <2>1, <2>2 DEF WorkerFinish
<1> QED
  BY StepCases, <1>1, <1>2, <1>3, <1>4, <1>5, <1>6, <1>7, <1>8, <1>9, <1>10, <1>11

(* A request moves from the workload to the queue, from the queue to one
   worker, and leaves the worker with its result known. *)
LEMMA ConservedStep ==
  ASSUME TypeOK, Control, RequestsConserved, ShutdownDrained, [Next]_vars
  PROVE  RequestsConserved'
<1> USE DEF boss, shared, disk, call
<1>0. ASSUME UNCHANGED <<nreq, drawn, queue, req, result>> PROVE RequestsConserved'
  BY <1>0 DEF RequestsConserved, Queued, Held, Request
<1>1. CASE \/ UNCHANGED vars
           \/ BossStart \/ BossRelock \/ BossWait \/ BossShutdown \/ BossSpuriousWakeup
  BY <1>0, <1>1 DEF vars, BossStart, BossRelock, BossWait, BossShutdown, BossSpuriousWakeup
<1>2. ASSUME NEW w \in Worker,
             \/ CreateWorker(w) \/ WorkerLock(w) \/ WorkerWait(w) \/ WorkerExit(w)
             \/ WorkerSpuriousWakeup(w) \/ FileWork(w)
      PROVE  RequestsConserved'
  BY <1>0, <1>2 DEF CreateWorker, WorkerLock, WorkerWait, WorkerExit,
                    WorkerSpuriousWakeup, FileWork
<1>3. CASE BossReturn
  <2>1. queue' = queue
    BY <1>3 DEF BossReturn, Control, ShutdownPhase, ShutdownDrained, IsEmpty
  <2> QED
    BY <1>0, <1>3, <2>1 DEF BossReturn
<1>4. CASE Fill
  <2> DEFINE new == drawn + 1
  <2>1. queue \in Seq(Request) /\ new \in Request
    BY <1>4 DEF Fill, TypeOK, Request
  <2>2. /\ queue' \in Seq(Request) /\ Len(queue') = Len(queue) + 1 /\ Len(queue) \in Nat
        /\ queue'[1] = new
        /\ \A i \in 1..Len(queue) : queue'[i + 1] = queue[i]
    <3>1. queue' = Pushed(queue, new)
      BY <1>4 DEF Fill
    <3>2. Len(queue) \in Nat
      BY <2>1, LenProperties
    <3> HIDE DEF new
    <3>3. /\ Pushed(queue, new) \in Seq(Request)
          /\ Len(Pushed(queue, new)) = Len(queue) + 1
          /\ Pushed(queue, new)[1] = new
          /\ \A i \in 1..Len(queue) : Pushed(queue, new)[i + 1] = queue[i]
      BY <2>1, PushedFacts DEF Pushed
    <3> QED
      BY <3>1, <3>2, <3>3
  <2>3. /\ ~Queued(new) /\ ~Held(new) /\ result[new] = "none"
    BY <1>4, <2>1 DEF RequestsConserved, Fill, TypeOK
  <2>4. UNCHANGED <<nreq, req, result>> /\ drawn' = new
    BY <1>4 DEF Fill
  <2>5. \A i, j \in 1..Len(queue') : queue'[i] = queue'[j] => i = j
    <3>1. \A i \in 2..Len(queue') : i - 1 \in 1..Len(queue) /\ queue'[i] = queue[i - 1]
      BY <2>2
    <3>2. \A i \in 2..Len(queue') : queue'[i] # new
      BY <3>1, <2>3 DEF Queued
    <3> QED
      BY <2>2, <3>1, <3>2 DEF RequestsConserved
  <2>6. \A r \in Request : Queued(r)' <=> Queued(r) \/ r = new
    <3>1. ASSUME NEW r \in Request, Queued(r)' PROVE Queued(r) \/ r = new
      <4>1. PICK i \in 1..Len(queue') : queue'[i] = r
        BY <3>1 DEF Queued
      <4>2. i # 1 => i - 1 \in 1..Len(queue) /\ queue[i - 1] = r
        BY <2>2, <4>1
      <4> QED
        BY <2>2, <4>1, <4>2 DEF Queued
    <3>2. ASSUME NEW r \in Request, Queued(r) PROVE Queued(r)'
      <4>1. PICK i \in 1..Len(queue) : queue[i] = r
        BY <3>2 DEF Queued
      <4>2. i + 1 \in 1..Len(queue') /\ queue'[i + 1] = r
        BY <2>2, <4>1
      <4> QED
        BY <4>2 DEF Queued
    <3>3. ASSUME NEW r \in Request, r = new PROVE Queued(r)'
      <4>1. 1 \in 1..Len(queue') /\ queue'[1] = r
        BY <2>2, <3>3
      <4> QED
        BY <4>1 DEF Queued
    <3> QED
      BY <3>1, <3>2, <3>3
  <2>7. \A r \in Request : Held(r)' <=> Held(r)
    BY <2>4 DEF Held
  <2>8. Request' = Request
    BY <2>4 DEF Request
  <2>9. \A r \in Request : drawn' >= r => drawn >= r \/ r = new
    BY <2>4 DEF Request, TypeOK
  <2>10. \A r \in Request : drawn' < r => drawn < r /\ r # new
    BY <2>4 DEF Request, TypeOK
  <2> QED
    BY <2>3, <2>4, <2>5, <2>6, <2>7, <2>8, <2>9, <2>10 DEF RequestsConserved
<1>5. ASSUME NEW w \in Worker, WorkerPop(w) PROVE RequestsConserved'
  <2> DEFINE front == Front(queue)
  <2>1. queue \in Seq(Request) /\ ~IsEmpty(queue) /\ queue' = Popped(queue)
    BY <1>5 DEF WorkerPop, TypeOK
  <2>2. /\ queue' \in Seq(Request) /\ Len(queue') = Len(queue) - 1
        /\ Len(queue) \in Nat \ {0} /\ front \in Request /\ front = queue[1]
        /\ \A i \in 1..Len(queue) - 1 : queue'[i] = queue[i + 1]
    BY <2>1, PoppedFacts DEF Popped, Front, IsEmpty
  <2>3. Queued(front)
    BY <2>2 DEF Queued
  <2>4. ~Held(front) /\ result[front] = "none" /\ drawn >= front
    BY <2>2, <2>3 DEF RequestsConserved, TypeOK, Request
  <2>5. UNCHANGED <<nreq, drawn, result>> /\ req' = [req EXCEPT ![w] = front]
    BY <1>5 DEF WorkerPop
  <2>6. req[w] = 0
    BY <1>5 DEF WorkerPop, Control, HoldsRequest, Working, TypeOK
  <2>7. \A i, j \in 1..Len(queue') : queue'[i] = queue'[j] => i = j
    BY <2>2 DEF RequestsConserved
  <2>8. \A r \in Request : Queued(r)' <=> Queued(r) /\ r # front
    <3>1. ASSUME NEW r \in Request, Queued(r)' PROVE Queued(r) /\ r # front
      <4>1. PICK i \in 1..Len(queue') : queue'[i] = r
        BY <3>1 DEF Queued
      <4>2. i + 1 \in 1..Len(queue) /\ queue[i + 1] = r /\ i + 1 # 1 /\ 1 \in 1..Len(queue)
        BY <2>2, <4>1
      <4> QED
        BY <2>2, <4>2 DEF Queued, RequestsConserved
    <3>2. ASSUME NEW r \in Request, Queued(r), r # front PROVE Queued(r)'
      <4>1. PICK i \in 1..Len(queue) : queue[i] = r
        BY <3>2 DEF Queued
      <4>2. i - 1 \in 1..Len(queue') /\ queue'[i - 1] = r
        BY <2>2, <3>2, <4>1
      <4> QED
        BY <4>2 DEF Queued
    <3> QED
      BY <3>1, <3>2
  <2>9. \A r \in Request : Held(r)' <=> Held(r) \/ r = front
    BY <2>5, <2>6 DEF Held, TypeOK, Request
  <2>10. \A u, v \in Worker : req'[u] = req'[v] /\ req'[u] # 0 => u = v
    BY <2>4, <2>5 DEF Held, TypeOK, RequestsConserved
  <2>11. Request' = Request
    BY <2>5 DEF Request
  <2>12. front <= drawn /\ ~(drawn < front)
    BY <2>2, <2>4 DEF TypeOK, Request
  <2> QED
    BY <2>2, <2>4, <2>5, <2>7, <2>8, <2>9, <2>10, <2>11, <2>12 DEF RequestsConserved
<1>6. ASSUME NEW w \in Worker, CheckStatus(w) PROVE RequestsConserved'
  <2>1. UNCHANGED <<nreq, drawn, queue, req>>
    BY <1>6 DEF CheckStatus
  <2>2. req[w] \in Request /\ Held(req[w])
    BY <1>6 DEF CheckStatus, Control, HoldsRequest, Working, TypeOK, Held
  <2>3. ~(drawn < req[w]) /\ ~Queued(req[w])
    BY <2>2 DEF RequestsConserved
  <2>4. result'[req[w]] # "none" /\ \A r \in Request \ {req[w]} : result'[r] = result[r]
    BY <1>6, <2>2 DEF CheckStatus, TypeOK
  <2>5. Request' = Request /\ \A r : (Queued(r)' <=> Queued(r)) /\ (Held(r)' <=> Held(r))
    BY <2>1 DEF Request, Queued, Held
  <2> QED
    BY <2>1, <2>2, <2>3, <2>4, <2>5 DEF RequestsConserved
<1>7. ASSUME NEW w \in Worker, WorkerFinish(w) PROVE RequestsConserved'
  <2>1. UNCHANGED <<nreq, drawn, queue, result>> /\ req' = [req EXCEPT ![w] = 0]
    BY <1>7 DEF WorkerFinish
  <2>2. result[req[w]] # "none"
    BY <1>7 DEF WorkerFinish, Control, Recorded
  <2>3. \A r \in Request : (Held(r)' => Held(r)) /\ (Held(r) => Held(r)' \/ r = req[w])
    BY <2>1 DEF Held, TypeOK, Request
  <2>4. Request' = Request /\ \A r : Queued(r)' <=> Queued(r)
    BY <2>1 DEF Request, Queued
  <2>5. \A u, v \in Worker : req'[u] = req'[v] /\ req'[u] # 0 => u = v
    BY <2>1 DEF TypeOK, RequestsConserved
  <2> QED
    BY <2>1, <2>2, <2>3, <2>4, <2>5 DEF RequestsConserved
<1> QED
  BY StepCases, <1>1, <1>2, <1>3, <1>4, <1>5, <1>6, <1>7

(* When main finds the queue empty and nobody counted, every request must
   have its result: it is not in the queue, and who holds one is counted. *)
LEMMA DrainedStep ==
  ASSUME TypeOK, Control, ActiveCounts, RequestsConserved, ShutdownDrained, [Next]_vars
  PROVE  ShutdownDrained'
<1> USE DEF TypeOK, boss, shared, disk, call
<1>1. CASE BossShutdown
  <2>1. IsEmpty(queue) /\ active = 0
    BY <1>1 DEF BossShutdown, WorkLeft
  <2>2. Working = {}
    BY <2>1, ActivePositive
  <2>3. \A r \in Request : ~Queued(r)
    BY <2>1, EmptySeq DEF Queued, IsEmpty
  <2>4. \A r \in Request : ~Held(r)
    BY <2>2 DEF Held, Control, HoldsRequest, Request
  <2>5. \A r \in Request : drawn >= r
    BY <1>1 DEF BossShutdown, Control, StartedUp, Request
  <2>6. \A r \in Request : result[r] # "none"
    BY <2>3, <2>4, <2>5 DEF RequestsConserved
  <2>7. Working' = {}
    BY <1>1, <2>2 DEF BossShutdown, WakeAll, Working, Waiting
  <2> QED
    BY <1>1, <2>1, <2>6, <2>7 DEF BossShutdown, ShutdownDrained, Request
<1>2. CASE ~BossShutdown /\ shutdown' /\ ~UNCHANGED vars
  <2>0. CASE BossReturn
    BY <1>2, <2>0 DEF BossReturn, ShutdownDrained, Control, ShutdownPhase, IsEmpty,
                      Working, Request
  <2>1. CASE Fill \/ BossStart \/ BossRelock \/ BossWait \/ BossSpuriousWakeup
    <3>1. shutdown /\ mpc \in {"fill", "lock", "check", "waiting"}
      BY <1>2, <2>1 DEF Fill, BossStart, BossRelock, BossWait, BossSpuriousWakeup
    <3> QED
      BY <3>1 DEF Control, ShutdownPhase
  <2>2. ASSUME NEW w \in Worker,
               \/ CreateWorker(w) \/ WorkerLock(w) \/ WorkerWait(w) \/ WorkerExit(w)
               \/ WorkerSpuriousWakeup(w) \/ WorkerPop(w) \/ FileWork(w)
               \/ CheckStatus(w) \/ WorkerFinish(w)
        PROVE  ShutdownDrained'
    <3>1. shutdown
      BY <1>2, <2>2 DEF CreateWorker, WorkerLock, WorkerWait, WorkerExit,
           WorkerSpuriousWakeup, WorkerPop, FileWork, CheckStatus, WorkerFinish
    <3>2. Working = {}
      BY <3>1 DEF ShutdownDrained
    <3>3. \/ CreateWorker(w) \/ WorkerLock(w) \/ WorkerExit(w) \/ WorkerSpuriousWakeup(w)
      BY <2>2, <3>1, <3>2 DEF WorkerWait, WorkerPop, FileWork, CheckStatus, WorkerFinish,
           Working
    <3>4. Working' = {} /\ UNCHANGED <<nreq, queue, result>>
      BY <3>2, <3>3 DEF CreateWorker, WorkerLock, WorkerExit, WorkerSpuriousWakeup, Goto,
           Working, Label
    <3> QED
      BY <3>1, <3>4 DEF ShutdownDrained, Request
  <2> QED
    BY <1>2, <2>0, <2>1, <2>2, StepCases
<1>3. CASE UNCHANGED vars
  BY <1>3 DEF vars, ShutdownDrained, Working, Request
<1>4. CASE ~shutdown'
  BY <1>4 DEF ShutdownDrained
<1> QED
  BY <1>1, <1>2, <1>3, <1>4

(* A worker that has left its loop never comes back. *)
LEMMA DestroyedStep ==
  ASSUME TypeOK, Control, DestroyedUnused, [Next]_vars
  PROVE  DestroyedUnused'
<1> USE DEF TypeOK, DestroyedUnused, Goto, Label, boss, shared, disk, call
<1>1. CASE UNCHANGED vars
  BY <1>1 DEF vars
<1>2. CASE Fill \/ BossStart \/ BossRelock \/ BossWait \/ BossShutdown \/ BossSpuriousWakeup
  BY <1>2 DEF Fill, BossStart, BossRelock, BossWait, BossShutdown, BossSpuriousWakeup
<1>3. CASE BossReturn
  BY <1>3 DEF BossReturn
<1>4. ASSUME NEW w \in Worker,
             \/ CreateWorker(w) \/ WorkerLock(w) \/ WorkerWait(w) \/ WorkerExit(w)
             \/ WorkerSpuriousWakeup(w) \/ WorkerPop(w) \/ FileWork(w)
             \/ CheckStatus(w) \/ WorkerFinish(w)
      PROVE  DestroyedUnused'
  <2>1. wpc[w] # "exited" /\ (mpc' = "returned" => mpc = "returned")
    BY <1>4 DEF CreateWorker, WorkerLock, WorkerWait, WorkerExit, WorkerSpuriousWakeup,
         WorkerPop, FileWork, CheckStatus, WorkerFinish
  <2> QED
    BY <2>1
<1> QED
  BY StepCases, <1>1, <1>2, <1>3, <1>4

----------------------------------------------------------------------------

(* The invariant holds before main has drawn a path. *)
LEMMA InvariantInit == Init => IInv
<1> SUFFICES ASSUME Init PROVE IInv
  OBVIOUS
<1>1. TypeOK
  BY TypeOKInit
<1>2. Working = {}
  BY DEF Init, Working
<1>3. Control
  BY <1>2, ThreadsAssumption
  DEF Init, Control, HoldsRequest, MutexHeld, StartedUp, ShutdownPhase, Recorded
<1>4. ActiveCounts
  BY <1>2, FS_EmptySet DEF Init, ActiveCounts
<1>5. RequestsConserved
  <2>1. Len(queue) = 0
    BY DEF Init
  <2>2. \A r \in Request : ~Queued(r) /\ ~Held(r) /\ result[r] = "none" /\ drawn < r
    BY <2>1 DEF Init, Queued, Held, Request
  <2>3. \A r \in Request : ~(drawn >= r)
    BY DEF Init, Request
  <2> QED
    BY <2>1, <2>2, <2>3 DEF Init, RequestsConserved
<1>6. ShutdownDrained /\ SleepersJustified /\ DestroyedUnused
  BY DEF Init, ShutdownDrained, SleepersJustified, Waiting, DestroyedUnused
<1> QED
  BY <1>1, <1>3, <1>4, <1>5, <1>6 DEF IInv

(* Every step of main or of a worker keeps the invariant. *)
LEMMA InvariantStep == IInv /\ [Next]_vars => IInv'
<1> SUFFICES ASSUME IInv, [Next]_vars PROVE IInv'
  OBVIOUS
<1> USE DEF IInv
<1>1. TypeOK'
  BY TypeOKStep DEF Control
<1>2. Control' /\ ActiveCounts'
  BY ControlStep, ActiveCountsStep
<1>3. RequestsConserved' /\ ShutdownDrained'
  BY ConservedStep, DrainedStep
<1>4. SleepersJustified' /\ DestroyedUnused'
  BY <1>1, SleepersStep, DestroyedStep
<1> QED
  BY <1>1, <1>2, <1>3, <1>4

(* The invariant holds in every reachable state. *)
LEMMA Invariance == Spec => []IInv
  BY InvariantInit, InvariantStep, PTL DEF Spec

(* Every reachable state of the download client is well typed, with any number
   of threads and requests: active_workers never falls below zero, and the
   queue holds nothing but requests. *)
THEOREM TypeCorrect == Spec => []TypeOK
<1>1. IInv => TypeOK
  BY DEF IInv
<1> QED
  BY <1>1, Invariance, PTL

(* active_workers is at all times the number of workers that hold a request. *)
THEOREM CountIsExact == Spec => []ActiveCounts
<1>1. IInv => ActiveCounts
  BY DEF IInv
<1> QED
  BY <1>1, Invariance, PTL

(* No request is lost, duplicated or worked on twice between the workload, the
   queue and the workers. *)
THEOREM NothingLost == Spec => []RequestsConserved
<1>1. IInv => RequestsConserved
  BY DEF IInv
<1> QED
  BY <1>1, Invariance, PTL

(* Main sets shutdown only when every request has been worked off. *)
THEOREM ShutdownIsLast == Spec => []ShutdownDrained
<1>1. IInv => ShutdownDrained
  BY DEF IInv
<1> QED
  BY <1>1, Invariance, PTL

(* No wakeup is lost: neither main nor a worker sleeps on a condition that has
   already come true. *)
THEOREM NoLostWakeup == Spec => []SleepersJustified
<1>1. IInv => SleepersJustified
  BY DEF IInv
<1> QED
  BY <1>1, Invariance, PTL

(* The mutex, the condition variables and the queue are destroyed after the
   last worker has left. *)
THEOREM DestroyIsSafe == Spec => []DestroyedUnused
<1>1. IInv => DestroyedUnused
  BY DEF IInv
<1> QED
  BY <1>1, Invariance, PTL

----------------------------------------------------------------------------
(***************************************************************************)
(* The refinement: every step of the client maps to a step of Batch or to  *)
(* none.                                                                   *)
(***************************************************************************)

(* Batch counts as this module does. *)
LEMMA SameCardinality == ASSUME NEW T PROVE B!Cardinality(T) = Cardinality(T)
  BY DEF B!Cardinality, Cardinality

Busy == {w \in Worker : req[w] # 0}

(* The requests in progress are those of the workers that are not free. *)
LEMMA DoingIsHeld ==
  ASSUME TypeOK
  PROVE  /\ B!Doing = {req[w] : w \in Busy}
         /\ \A r \in Request : r \in B!Doing <=> Held(r)
         /\ IsFiniteSet(B!Doing) /\ B!Cardinality(B!Doing) \in Nat
         /\ B!Cardinality(B!Doing) <= Cardinality(Busy)
<1>1. \A r \in Request : Stage[r] = "doing" <=> Held(r)
  BY DEF Stage
<1>2. B!Doing = {r \in Request : Held(r)}
  BY <1>1 DEF B!Doing, Request
<1>3. B!Doing = {req[w] : w \in Busy}
  BY <1>2 DEF Held, Busy, TypeOK, Request
<1>4. IsFiniteSet(Busy)
  BY ThreadsAssumption, FS_Subset DEF Busy
<1>5. [w \in Busy |-> req[w]] \in Surjection(Busy, B!Doing)
  BY <1>3 DEF Surjection
<1>6. IsFiniteSet(B!Doing) /\ Cardinality(B!Doing) <= Cardinality(Busy)
  BY <1>4, <1>5, FS_Surjection
<1> QED
  BY <1>2, <1>3, <1>6, FS_CardinalityType, SameCardinality

(* A step that changes neither the requests that are held nor their results
   is not seen by Batch. *)
LEMMA StageKept ==
  ASSUME TypeOK, UNCHANGED <<nreq, exit>>,
         \A r \in Request : Held(r)' <=> Held(r),
         \A r \in Request : Held(r) \/ result'[r] = result[r]
  PROVE  UNCHANGED B!vars
<1>1. Request' = Request
  BY DEF Request
<1>2. Stage' = Stage
  BY <1>1 DEF Stage
<1> QED
  BY <1>2 DEF B!vars

(* The steps on files are of this kind. *)
LEMMA Unseen ==
  ASSUME TypeOK, UNCHANGED <<nreq, req, result, exit>>
  PROVE  UNCHANGED B!vars
  BY StageKept DEF Held

(* A worker that takes a task was free before: another one can start. *)
LEMMA PopStarts ==
  ASSUME IInv, exit = "running", NEW w \in Worker, WorkerPop(w)
  PROVE  \E r \in Request : B!Start(r)
<1>0. TypeOK /\ RequestsConserved /\ req \in [Worker -> Request \cup {0}]
  BY DEF IInv, TypeOK
<1> DEFINE front == Front(queue)
<1>1. /\ queue \in Seq(Request) /\ ~IsEmpty(queue) /\ req[w] = 0
      /\ req' = [req EXCEPT ![w] = front] /\ UNCHANGED <<nreq, exit, result>>
  BY DEF IInv, WorkerPop, TypeOK, Control, HoldsRequest, Working, boss, disk, call
<1>2. front \in Request /\ front = queue[1] /\ Len(queue) \in Nat \ {0}
  BY <1>1, PoppedFacts DEF Popped, Front, IsEmpty
<1> HIDE DEF front
<1>3. Queued(front) /\ ~Held(front) /\ result[front] = "none"
  BY <1>0, <1>2 DEF Queued, RequestsConserved
<1>4. Request' = Request /\ \A r \in Request : Held(r)' <=> Held(r) \/ r = front
  <2>1. Request' = Request
    BY <1>1 DEF Request
  <2>2. \A v \in Worker : req'[v] = IF v = w THEN front ELSE req[v]
    BY <1>0, <1>1
  <2>3. front # 0
    BY <1>2 DEF Request
  <2> QED
    BY <1>1, <2>1, <2>2, <2>3 DEF Held, Request
<1>5. Stage[front] = "todo" /\ Stage' = [Stage EXCEPT ![front] = "doing"]
  BY <1>1, <1>2, <1>3, <1>4 DEF Stage
<1>6. Busy \subseteq Worker \ {w}
  BY <1>1 DEF Busy
<1>7. /\ IsFiniteSet(Worker \ {w}) /\ IsFiniteSet(Busy)
      /\ Cardinality(Worker) \in Nat /\ Cardinality(Busy) \in Nat
      /\ Cardinality(Worker \ {w}) = Cardinality(Worker) - 1
      /\ Cardinality(Busy) <= Cardinality(Worker \ {w})
  BY <1>6, ThreadsAssumption, FS_Subset, FS_RemoveElement, FS_CardinalityType
<1>8. B!Cardinality(B!Doing) \in Nat /\ B!Cardinality(B!Doing) <= Cardinality(Busy)
  BY <1>0, DoingIsHeld
<1>9. B!Cardinality(B!Doing) < Cardinality(Worker)
  BY <1>7, <1>8
<1> QED
  BY <1>1, <1>2, <1>5, <1>9 DEF B!Start

(* A worker that gives its request back has noted the result. *)
LEMMA FinishFinishes ==
  ASSUME IInv, exit = "running", NEW w \in Worker, WorkerFinish(w)
  PROVE  \E r \in Request : B!Finish(r)
<1>0. req \in [Worker -> Request \cup {0}]
  BY DEF IInv, TypeOK
<1>1. req[w] \in Request /\ result[req[w]] # "none" /\ req[w] # 0
  BY DEF IInv, WorkerFinish, TypeOK, Control, HoldsRequest, Recorded, Working
<1>2. PICK r \in Request : r = req[w]
  BY <1>1
<1>3. req' = [req EXCEPT ![w] = 0] /\ UNCHANGED <<nreq, exit, result>>
  BY DEF WorkerFinish, disk, call
<1>4. Held(r) /\ \A v \in Worker : req[v] = r => v = w
  BY <1>1, <1>2 DEF IInv, Held, RequestsConserved
<1>5. 0 \notin Request /\ Request' = Request
  BY <1>1, <1>2, <1>3 DEF Request
<1>6. ~Held(r)' /\ \A s \in Request \ {r} : Held(s)' <=> Held(s)
  <2>1. \A v \in Worker : req'[v] = IF v = w THEN 0 ELSE req[v]
    BY <1>0, <1>3
  <2> QED
    BY <1>2, <1>4, <1>5, <2>1 DEF Held
<1>7. Stage[r] = "doing" /\ Stage' = [Stage EXCEPT ![r] = "done"]
  BY <1>1, <1>2, <1>3, <1>4, <1>5, <1>6 DEF Stage
<1> QED
  BY <1>3, <1>7 DEF B!Finish

(* Every step of the client is a step of Batch or is not seen by it. *)
LEMMA StepRefines ==
  ASSUME IInv, [Next]_vars
  PROVE  [B!Next]_(B!vars)
<1> USE DEF IInv, boss, shared, disk, call
<1>0. B!Next <=> (\/ \E r \in Request : B!Start(r) \/ B!Finish(r)
                  \/ B!Return \/ B!Abort)
  BY DEF B!Next, Request
<1>1. CASE UNCHANGED vars
  BY <1>1, Unseen DEF vars
<1>2. CASE \/ Fill \/ BossStart \/ BossRelock \/ BossWait \/ BossShutdown
           \/ BossSpuriousWakeup
  BY <1>2, Unseen DEF Fill, BossStart, BossRelock, BossWait, BossShutdown,
                      BossSpuriousWakeup
<1>3. ASSUME NEW w \in Worker,
             \/ CreateWorker(w) \/ WorkerLock(w) \/ WorkerWait(w) \/ WorkerExit(w)
             \/ WorkerSpuriousWakeup(w)
      PROVE  [B!Next]_(B!vars)
  BY <1>3, Unseen DEF CreateWorker, WorkerLock, WorkerWait, WorkerExit, WorkerSpuriousWakeup
<1>4. ASSUME NEW w \in Worker,
             \/ LocalPathLoad(w) \/ LocalPathStore(w) \/ OpenFile(w)
             \/ WriteChunk(w) \/ PerformReturns(w) \/ CloseFile(w)
      PROVE  [B!Next]_(B!vars)
  BY <1>4, Unseen DEF LocalPathLoad, LocalPathStore, OpenFile, WriteChunk, PerformReturns,
                      CloseFile
<1>5. ASSUME NEW w \in Worker, WorkerPop(w), exit = "running" PROVE [B!Next]_(B!vars)
  BY <1>0, <1>5, PopStarts
<1>6. ASSUME NEW w \in Worker, WorkerFinish(w), exit = "running" PROVE [B!Next]_(B!vars)
  BY <1>0, <1>6, FinishFinishes
<1>7. ASSUME NEW w \in Worker, CheckStatus(w) PROVE [B!Next]_(B!vars)
  <2>1. req[w] \in Request
    BY <1>7 DEF CheckStatus, TypeOK, Control, HoldsRequest, Working
  <2>2. /\ UNCHANGED <<nreq, req, exit>> /\ Held(req[w])
        /\ \A r \in Request \ {req[w]} : result'[r] = result[r]
    BY <1>7, <2>1 DEF CheckStatus, Held, TypeOK
  <2>3. \A r : Held(r)' <=> Held(r)
    BY <2>2 DEF Held
  <2>4. \A r \in Request : Held(r) \/ result'[r] = result[r]
    BY <2>2
  <2> QED
    BY <2>2, <2>3, <2>4, StageKept
<1>8. ASSUME NEW w \in Worker, OpenFileFails(w), exit = "running" PROVE [B!Next]_(B!vars)
  <2>1. req[w] \in Request /\ Held(req[w])
    BY <1>8 DEF OpenFileFails, TypeOK, Control, HoldsRequest, Working, Held
  <2>2. B!Doing # {}
    BY <2>1, DoingIsHeld
  <2>3. UNCHANGED <<nreq, Stage>> /\ exit' = "failed"
    BY <1>8 DEF OpenFileFails, Stage, Held, Request
  <2>4. B!Abort
    BY <1>8, <2>2, <2>3 DEF B!Abort
  <2> QED
    BY <1>0, <2>4
<1>9. ASSUME BossReturn, exit = "running" PROVE [B!Next]_(B!vars)
  <2>1. shutdown /\ \A r \in Request : result[r] # "none"
    BY <1>9 DEF BossReturn, Control, ShutdownPhase, ShutdownDrained
  <2>2. \A r \in Request : ~Held(r)
    BY <2>1 DEF ShutdownDrained, Control, HoldsRequest, Held, Request
  <2>3. \A r \in 1..nreq : Stage[r] = "done"
    BY <2>1, <2>2 DEF Stage, Request
  <2>4. UNCHANGED <<nreq, Stage>> /\ exit' = "ok"
    BY <1>9 DEF BossReturn, Stage, Held, Request
  <2>5. B!Return
    BY <1>9, <2>3, <2>4 DEF B!Return
  <2> QED
    BY <1>0, <2>5
<1> QED
  BY <1>1, <1>2, <1>3, <1>4, <1>5, <1>6, <1>7, <1>8, <1>9
  DEF Next, BossStep, WorkerStep, SpuriousWakeup, Exited, Running

(* The client works its batch off: every request is started once and finished
   once, at most nthreads at a time, and main returns after the last one. *)
THEOREM ClientImplementsBatch == Spec => ImplementsBatch
<1>1. Init => B!Init
  BY DEF Init, B!Init, Stage, Held, Request
<1>2. IInv /\ [Next]_vars => [B!Next]_(B!vars)
  BY StepRefines
<1> QED
  BY <1>1, <1>2, Invariance, PTL DEF Spec, ImplementsBatch, B!Spec
----------------------------------------------------------------------------
(***************************************************************************)
(* The files.  With at least as many lines in the workload as requests,    *)
(* every request has a file of its own, which stays if the download was    *)
(* complete and goes if it was not.  With fewer lines two requests may     *)
(* share a name, and neither holds.                                        *)
(***************************************************************************)

(* No path is handed out twice. *)
OwnPaths == \A n \in RequestCounts : n <= NumPaths

(***************************************************************************)
(* The inductive invariant, on top of IInv: what the directory and the     *)
(* inodes hold for each request, and what each worker has done so far      *)
(* about the file of its request.                                          *)
(***************************************************************************)

Named(r) == name[r] # NoName
OnDisk(r) == name[r] \in DOMAIN dir
OKReply == [rc |-> 0, status |-> "OK"]

(* Every name in the directory leads to the file of the request it was made
   for. *)
Directory == \A n \in DOMAIN dir : n # NoName /\ name[dir[n]] = n

(* A request gets its name from the worker that holds it. *)
RequestFiles(r) ==
  /\ Named(r) => name[r][1] = PathOf(r)
  /\ result[r] # "none" => Named(r)
  /\ result[r] = "none" /\ ~Held(r) => ~Named(r)
  /\ result[r] = "ok" => OnDisk(r) /\ data[r] = 1..Chunks
  /\ result[r] = "failed" => ~OnDisk(r)

(* The file of a request in progress has what gfc_perform has delivered, until
   the first unlink. *)
WorkerFiles(w) ==
  LET r == req[w]
  IN  IF r = 0 THEN got[w] = 0 ELSE
        /\ wpc[w] \in {"name", "bump", "open", "perform", "close", "status"} => result[r] = "none"
        /\ wpc[w] \in {"name", "bump"} => ~Named(r)
        /\ wpc[w] \in {"open", "perform", "close", "status"} => Named(r)
        /\ wpc[w] \in {"perform", "close"} => OnDisk(r) /\ data[r] = 1..got[w]
        /\ wpc[w] = "perform" => file[w] = r
        /\ wpc[w] = "status" => IF reply[w].rc < 0 THEN ~OnDisk(r)
                                                   ELSE OnDisk(r) /\ data[r] = 1..got[w]
        /\ wpc[w] \in {"close", "status"} /\ reply[w] = OKReply => got[w] = Chunks
        /\ wpc[w] \notin {"perform", "close", "status"} => got[w] = 0

Files == /\ nreq \in RequestCounts /\ Directory
         /\ \A r \in Request : RequestFiles(r)
         /\ \A w \in Worker : WorkerFiles(w)

FInv == IInv /\ Files

----------------------------------------------------------------------------

(* With a line for each request, workload_get_path gives the r-th caller the
   r-th line. *)
LEMMA OwnPath ==
  ASSUME OwnPaths, FInv, NEW r \in Request
  PROVE  PathOf(r) = r
<1>1. r \in Int /\ 1 <= r /\ r <= NumPaths /\ NumPaths \in Nat \ {0}
  BY WorkloadAssumption DEF OwnPaths, FInv, Files, Request
<1>2. (r - 1) % NumPaths = r - 1
  BY <1>1
<1> QED
  BY <1>1, <1>2 DEF PathOf

(* So two requests never have the same name. *)
LEMMA OwnName ==
  ASSUME OwnPaths, FInv, NEW r \in Request, NEW s \in Request, Named(r), name[s] = name[r]
  PROVE  s = r
<1>1. Named(s)
  BY DEF Named
<1>2. name[r][1] = PathOf(r) /\ name[s][1] = PathOf(s)
  BY <1>1 DEF FInv, Files, RequestFiles
<1> QED
  BY <1>2, OwnPath

(* And the name of a request leads to its own file. *)
LEMMA OwnInode ==
  ASSUME OwnPaths, FInv, NEW r \in Request, Named(r), OnDisk(r)
  PROVE  dir[name[r]] = r
<1>1. dir[name[r]] \in Request /\ name[dir[name[r]]] = name[r]
  BY DEF FInv, Files, IInv, TypeOK, Directory, OnDisk
<1> QED
  BY <1>1, OwnName

(* What the steps of localPath, openFile, gfc_perform and the unlinks leave
   alone: the other workers, and the files of other requests. *)
FileStep(w) ==
  /\ UNCHANGED <<nreq, req>>
  /\ \A v \in Worker \ {w} : /\ wpc'[v] = wpc[v] /\ got'[v] = got[v]
                             /\ file'[v] = file[v] /\ reply'[v] = reply[v]
  /\ \A s \in Request \ {req[w]} :
       /\ name'[s] = name[s] /\ data'[s] = data[s] /\ result'[s] = result[s]
       /\ name'[s] \in DOMAIN dir' <=> name[s] \in DOMAIN dir

(* Such a step keeps what is known about them. *)
LEMMA OthersKept ==
  ASSUME FInv, NEW w \in Worker, req[w] \in Request, FileStep(w)
  PROVE  /\ \A v \in Worker \ {w} : WorkerFiles(v)'
         /\ \A s \in Request \ {req[w]} : RequestFiles(s)'
<1> USE DEF FInv, Files, IInv
<1>1. ASSUME NEW s \in Request \ {req[w]} PROVE RequestFiles(s)'
  <2>1. Held(s)' <=> Held(s)
    BY DEF Held, FileStep
  <2>2. RequestFiles(s)
    BY <1>1
  <2> QED
    BY <2>1, <2>2 DEF RequestFiles, FileStep, Named, OnDisk, PathOf
<1>2. ASSUME NEW v \in Worker \ {w} PROVE WorkerFiles(v)'
  <2>1. WorkerFiles(v)
    BY <1>2
  <2>2. CASE req[v] = 0
    BY <2>1, <2>2 DEF WorkerFiles, FileStep
  <2>3. CASE req[v] # 0
    <3>1. PICK s \in Request \ {req[w]} : s = req[v]
      BY <1>2, <2>3 DEF RequestsConserved, TypeOK
    <3>2. /\ name'[s] = name[s] /\ data'[s] = data[s] /\ result'[s] = result[s]
          /\ OnDisk(s)' <=> OnDisk(s)
          /\ Named(s)' <=> Named(s)
      BY <3>1 DEF FileStep, OnDisk, Named
    <3>3. /\ req'[v] = s /\ s # 0
          /\ wpc'[v] = wpc[v] /\ got'[v] = got[v] /\ file'[v] = file[v] /\ reply'[v] = reply[v]
      BY <1>2, <2>3, <3>1 DEF FileStep
    <3>4. WorkerFiles(v)'
      BY <2>1, <3>1, <3>2, <3>3 DEF WorkerFiles
    <3> QED
      BY <3>4
  <2> QED
    BY <2>2, <2>3
<1> QED
  BY <1>1, <1>2

(* So a step on the files of one request is right if it is right for them. *)
LEMMA OwnEnough ==
  ASSUME FInv, NEW w \in Worker, NEW r \in Request, r = req[w], FileStep(w), Directory',
         RequestFiles(r)', WorkerFiles(w)'
  PROVE  Files'
<1>1. Request' = Request /\ nreq' \in RequestCounts
  BY DEF FileStep, Request, FInv, Files
<1>2. \A s \in Request' : RequestFiles(s)'
  BY <1>1, OthersKept
<1>3. \A v \in Worker : WorkerFiles(v)'
  BY OthersKept
<1> QED
  BY <1>1, <1>2, <1>3 DEF Files

(* localPath gives the request a name that no other one has, and that is not
   in the directory yet. *)
LEMMA StoreStep ==
  ASSUME FInv, NEW w \in Worker, LocalPathStore(w)
  PROVE  Files'
<1> USE DEF FInv, Files, IInv, TypeOK, Goto, boss, shared, call
<1>1. req[w] \in Request /\ req[w] # 0 /\ Held(req[w]) /\ wpc[w] = "bump"
  BY DEF LocalPathStore, Control, HoldsRequest, Working, Held
<1>2. PICK r \in Request : r = req[w]
  BY <1>1
<1>3. /\ name' = [name EXCEPT ![r] = <<PathOf(r), loaded[w]>>] /\ wpc'[w] = "open"
      /\ UNCHANGED <<nreq, req, dir, data, file, got, reply, result>>
      /\ \A v \in Worker \ {w} : wpc'[v] = wpc[v]
  BY <1>2 DEF LocalPathStore
<1>4. WorkerFiles(w) /\ RequestFiles(r)
  BY <1>2
<1>5. ~Named(r) /\ result[r] = "none" /\ got[w] = 0
  BY <1>1, <1>2, <1>4 DEF WorkerFiles
<1>6. PathOf(r) # 0 /\ name'[r] = <<PathOf(r), loaded[w]>>
  BY <1>3, PathOfType DEF Request
<1>7. Named(r)'
  BY <1>6 DEF Named, NoName
<1>8. FileStep(w)
  BY <1>2, <1>3 DEF FileStep
<1>9. Directory'
  <2>1. ASSUME NEW n \in DOMAIN dir PROVE dir[n] # r /\ dir[n] \in Request /\ name[dir[n]] = n
    BY <1>5 DEF Directory, Named
  <2> QED
    BY <1>3, <2>1 DEF Directory
<1>10. RequestFiles(r)'
  <2>1. Held(r)'
    BY <1>1, <1>2, <1>3 DEF Held
  <2> QED
    BY <1>3, <1>5, <1>6, <1>7, <2>1 DEF RequestFiles, PathOf
<1>11. WorkerFiles(w)'
  BY <1>2, <1>3, <1>5, <1>7 DEF WorkerFiles, Named
<1> QED
  BY <1>2, <1>8, <1>9, <1>10, <1>11, OwnEnough

(* openFile makes an empty file of that name, and no other file. *)
LEMMA OpenStep ==
  ASSUME OwnPaths, FInv, NEW w \in Worker, OpenFile(w)
  PROVE  Files'
<1> USE DEF FInv, Files, IInv, TypeOK, Goto, boss, shared, call
<1>1. req[w] \in Request /\ req[w] # 0 /\ Held(req[w]) /\ wpc[w] = "open"
  BY DEF OpenFile, Control, HoldsRequest, Working, Held
<1>2. PICK r \in Request : r = req[w]
  BY <1>1
<1>3. WorkerFiles(w) /\ RequestFiles(r)
  BY <1>2
<1>4. Named(r) /\ result[r] = "none" /\ got[w] = 0
  BY <1>1, <1>2, <1>3 DEF WorkerFiles
<1>5. OnDisk(r) => dir[name[r]] = r
  BY <1>4, OwnInode
<1>6. /\ dir' = [m \in DOMAIN dir \cup {name[r]} |-> IF m = name[r] THEN r ELSE dir[m]]
      /\ data' = [data EXCEPT ![r] = {}] /\ file' = [file EXCEPT ![w] = r]
      /\ wpc' = [wpc EXCEPT ![w] = "perform"]
      /\ UNCHANGED <<nreq, req, name, got, reply, result>>
  BY <1>2, <1>5 DEF OpenFile, LocalName, OnDisk
<1>7. \A s \in Request \ {r} : name[s] # name[r]
  BY <1>4, OwnName
<1>8. FileStep(w)
  BY <1>2, <1>6, <1>7 DEF FileStep
<1>9. Directory'
  BY <1>4, <1>6 DEF Directory, Named
<1>10. OnDisk(r)' /\ data'[r] = {} /\ (Named(r)' <=> Named(r)) /\ (Held(r)' <=> Held(r))
  BY <1>6 DEF OnDisk, Named, Held
<1>11. RequestFiles(r)'
  BY <1>1, <1>2, <1>3, <1>4, <1>6, <1>10 DEF RequestFiles, PathOf
<1>12. WorkerFiles(w)'
  <2>1. /\ wpc'[w] = "perform" /\ file'[w] = r /\ req'[w] = r /\ got'[w] = 0
        /\ result'[r] = "none" /\ {} = 1..0
    BY <1>2, <1>4, <1>6
  <2> QED
    BY <1>4, <1>10, <2>1 DEF WorkerFiles
<1> QED
  BY <1>2, <1>8, <1>9, <1>11, <1>12, OwnEnough

(* writecb appends to the file that openFile made. *)
LEMMA WriteStep ==
  ASSUME FInv, NEW w \in Worker, WriteChunk(w)
  PROVE  Files'
<1> USE DEF FInv, Files, IInv, TypeOK, boss, shared
<1>1. req[w] \in Request /\ req[w] # 0 /\ Held(req[w]) /\ wpc[w] = "perform"
  BY DEF WriteChunk, Control, HoldsRequest, Working, Held
<1>2. PICK r \in Request : r = req[w]
  BY <1>1
<1>3. WorkerFiles(w) /\ RequestFiles(r)
  BY <1>2
<1>4. /\ Named(r) /\ result[r] = "none" /\ file[w] = r
      /\ OnDisk(r) /\ data[r] = 1..got[w]
  BY <1>1, <1>2, <1>3 DEF WorkerFiles
<1>5. /\ got' = [got EXCEPT ![w] = @ + 1]
      /\ data' = [data EXCEPT ![r] = @ \cup {got[w] + 1}]
      /\ UNCHANGED <<nreq, req, wpc, name, dir, file, reply, result>>
  BY <1>4 DEF WriteChunk
<1>6. FileStep(w)
  BY <1>2, <1>5 DEF FileStep
<1>7. Directory'
  BY <1>5 DEF Directory
<1>8. (OnDisk(r)' <=> OnDisk(r)) /\ (Named(r)' <=> Named(r)) /\ (Held(r)' <=> Held(r))
  BY <1>5 DEF OnDisk, Named, Held
<1>9. RequestFiles(r)'
  BY <1>1, <1>2, <1>3, <1>4, <1>5, <1>8 DEF RequestFiles, PathOf
<1>10. data'[r] = 1..got'[w]
  <2>1. got'[w] = got[w] + 1 /\ data'[r] = data[r] \cup {got[w] + 1}
    BY <1>5
  <2>2. got[w] \in Nat
    BY WorkloadAssumption
  <2>3. (1..got[w]) \cup {got[w] + 1} = 1..(got[w] + 1)
    BY <2>2
  <2> QED
    BY <1>4, <2>1, <2>3
<1>11. WorkerFiles(w)'
  BY <1>1, <1>2, <1>4, <1>5, <1>8, <1>10 DEF WorkerFiles
<1> QED
  BY <1>2, <1>6, <1>7, <1>9, <1>11, OwnEnough

(* gfc_perform returns 0 with status OK only after the whole body. *)
LEMMA ReturnsStep ==
  ASSUME FInv, NEW w \in Worker, PerformReturns(w)
  PROVE  Files'
<1> USE DEF FInv, Files, IInv, TypeOK, Goto, boss, shared, disk
<1>1. req[w] \in Request /\ req[w] # 0 /\ Held(req[w]) /\ wpc[w] = "perform"
  BY DEF PerformReturns, Control, HoldsRequest, Working, Held
<1>2. PICK r \in Request : r = req[w]
  BY <1>1
<1>3. WorkerFiles(w) /\ RequestFiles(r)
  BY <1>2
<1>4. Named(r) /\ result[r] = "none" /\ OnDisk(r) /\ data[r] = 1..got[w]
  BY <1>1, <1>2, <1>3 DEF WorkerFiles
<1>5. PICK a \in Replies(w) : reply' = [reply EXCEPT ![w] = a]
  BY DEF PerformReturns
<1>6. /\ wpc' = [wpc EXCEPT ![w] = "close"]
      /\ UNCHANGED <<nreq, req, name, dir, data, file, got, result>>
  BY DEF PerformReturns
<1>7. a = OKReply => got[w] = Chunks
  BY <1>5 DEF Replies, OKReply
<1>8. FileStep(w) /\ Directory'
  BY <1>2, <1>5, <1>6 DEF FileStep, Directory
<1>9. (OnDisk(r)' <=> OnDisk(r)) /\ (Named(r)' <=> Named(r)) /\ (Held(r)' <=> Held(r))
  BY <1>6 DEF OnDisk, Named, Held
<1>10. RequestFiles(r)'
  BY <1>3, <1>6, <1>9 DEF RequestFiles, PathOf
<1>11. WorkerFiles(w)'
  BY <1>1, <1>2, <1>4, <1>5, <1>6, <1>7, <1>9 DEF WorkerFiles, OKReply
<1> QED
  BY <1>2, <1>8, <1>10, <1>11, OwnEnough

(* unlink takes the request's own name away and no other one. *)
LEMMA UnlinkKeeps ==
  ASSUME OwnPaths, FInv, NEW r \in Request, Named(r), UNCHANGED name,
         dir' = Unlinked(name[r])
  PROVE  /\ ~OnDisk(r)'
         /\ \A s \in Request \ {r} : OnDisk(s)' <=> OnDisk(s)
         /\ Directory'
<1>1. \A s \in Request \ {r} : name[s] # name[r]
  BY OwnName
<1> QED
  BY <1>1 DEF Unlinked, OnDisk, Directory, FInv, Files

(* After a failed exchange the file is deleted at once. *)
LEMMA CloseStep ==
  ASSUME OwnPaths, FInv, NEW w \in Worker, CloseFile(w)
  PROVE  Files'
<1> USE DEF FInv, Files, IInv, TypeOK, Goto, boss, shared, call
<1>1. req[w] \in Request /\ req[w] # 0 /\ Held(req[w]) /\ wpc[w] = "close"
  BY DEF CloseFile, Control, HoldsRequest, Working, Held
<1>2. PICK r \in Request : r = req[w]
  BY <1>1
<1>3. WorkerFiles(w) /\ RequestFiles(r)
  BY <1>2
<1>4. /\ Named(r) /\ result[r] = "none" /\ OnDisk(r) /\ data[r] = 1..got[w]
      /\ reply[w] = OKReply => got[w] = Chunks
  BY <1>1, <1>2, <1>3 DEF WorkerFiles
<1>5. /\ dir' = IF reply[w].rc < 0 THEN Unlinked(name[r]) ELSE dir
      /\ file' = [file EXCEPT ![w] = 0] /\ wpc' = [wpc EXCEPT ![w] = "status"]
      /\ UNCHANGED <<nreq, req, name, data, got, reply, result>>
  BY <1>2 DEF CloseFile, AfterPerform, RemoveIf, LocalName
<1>6. /\ IF reply[w].rc < 0 THEN ~OnDisk(r)' ELSE OnDisk(r)'
      /\ \A s \in Request \ {r} : OnDisk(s)' <=> OnDisk(s)
      /\ Directory'
  <2>1. CASE reply[w].rc < 0
    BY <1>4, <1>5, <2>1, UnlinkKeeps
  <2>2. CASE ~(reply[w].rc < 0)
    BY <1>4, <1>5, <2>2 DEF OnDisk, Directory
  <2> QED
    BY <2>1, <2>2
<1>7. FileStep(w)
  BY <1>2, <1>5, <1>6 DEF FileStep, OnDisk
<1>8. (Named(r)' <=> Named(r)) /\ (Held(r)' <=> Held(r))
  BY <1>5 DEF Named, Held
<1>9. RequestFiles(r)'
  BY <1>1, <1>2, <1>3, <1>4, <1>5, <1>8 DEF RequestFiles, PathOf
<1>10. WorkerFiles(w)'
  BY <1>1, <1>2, <1>4, <1>5, <1>6, <1>8 DEF WorkerFiles
<1> QED
  BY <1>2, <1>6, <1>7, <1>9, <1>10, OwnEnough

(* After a refusal it is deleted when the status is looked at, and what is
   left has the whole body. *)
LEMMA CheckStep ==
  ASSUME OwnPaths, FInv, NEW w \in Worker, CheckStatus(w)
  PROVE  Files'
<1> USE DEF FInv, Files, IInv, TypeOK, Goto, boss, shared
<1>1. req[w] \in Request /\ req[w] # 0 /\ Held(req[w]) /\ wpc[w] = "status"
  BY DEF CheckStatus, Control, HoldsRequest, Working, Held
<1>2. PICK r \in Request : r = req[w]
  BY <1>1
<1>3. WorkerFiles(w) /\ RequestFiles(r)
  BY <1>2
<1>4. /\ Named(r)
      /\ IF reply[w].rc < 0 THEN ~OnDisk(r) ELSE OnDisk(r) /\ data[r] = 1..got[w]
      /\ reply[w] = OKReply => got[w] = Chunks
  BY <1>1, <1>2, <1>3 DEF WorkerFiles
<1>5. /\ dir' = IF reply[w].status # "OK" THEN Unlinked(name[r]) ELSE dir
      /\ result' = [result EXCEPT ![r] = IF reply[w] = OKReply THEN "ok" ELSE "failed"]
      /\ got' = [got EXCEPT ![w] = 0] /\ reply' = [reply EXCEPT ![w] = NoReply]
      /\ wpc' = [wpc EXCEPT ![w] = "finishlock"]
      /\ UNCHANGED <<nreq, req, name, data, file>>
  BY <1>2 DEF CheckStatus, AfterStatus, RemoveIf, LocalName, OKReply
<1>6. /\ reply[w].status # "OK" => ~OnDisk(r)'
      /\ reply[w].status = "OK" => (OnDisk(r)' <=> OnDisk(r))
      /\ \A s \in Request \ {r} : OnDisk(s)' <=> OnDisk(s)
      /\ Directory'
  <2>1. CASE reply[w].status # "OK"
    BY <1>4, <1>5, <2>1, UnlinkKeeps
  <2>2. CASE reply[w].status = "OK"
    BY <1>4, <1>5, <2>2 DEF OnDisk, Directory
  <2> QED
    BY <2>1, <2>2
<1>7. FileStep(w)
  BY <1>2, <1>5, <1>6 DEF FileStep, OnDisk
<1>8. (Named(r)' <=> Named(r)) /\ (Held(r)' <=> Held(r))
  BY <1>5 DEF Named, Held
<1>9. CASE reply[w] = OKReply
  <2>1. result'[r] = "ok" /\ OnDisk(r)' /\ data'[r] = 1..Chunks
    BY <1>4, <1>5, <1>6, <1>9 DEF OKReply
  <2>2. RequestFiles(r)'
    BY <1>3, <1>4, <1>5, <1>8, <2>1 DEF RequestFiles, PathOf
  <2>3. WorkerFiles(w)'
    BY <1>1, <1>2, <1>5 DEF WorkerFiles
  <2> QED
    BY <1>2, <1>6, <1>7, <2>2, <2>3, OwnEnough
<1>10. CASE reply[w] # OKReply
  <2>1. result'[r] = "failed"
    BY <1>5, <1>10
  <2>2. reply[w].status = "OK" => reply[w].rc < 0
    BY <1>10 DEF OKReply
  <2>3. ~OnDisk(r)'
    BY <1>4, <1>6, <2>2
  <2>4. RequestFiles(r)'
    BY <1>3, <1>4, <1>5, <1>8, <2>1, <2>3 DEF RequestFiles, PathOf
  <2>5. WorkerFiles(w)'
    BY <1>1, <1>2, <1>5 DEF WorkerFiles
  <2> QED
    BY <1>2, <1>6, <1>7, <2>4, <2>5, OwnEnough
<1> QED
  BY <1>9, <1>10

(* Everything else leaves the files alone and moves no worker between the steps
   that concern its file. *)
Apart == {"none", "lock", "claim", "waiting", "finishlock", "finish", "exited"}

(* So such a step keeps the invariant. *)
LEMMA QuietStep ==
  ASSUME FInv,
         UNCHANGED <<nreq, req, name, dir, data, file, got, reply, result>>,
         \A w \in Worker : \/ wpc'[w] = wpc[w]
                           \/ wpc[w] \in Apart /\ wpc'[w] \in Apart
                           \/ wpc[w] = "name" /\ wpc'[w] = "bump"
  PROVE  Files'
<1> USE DEF FInv, Files
<1>1. /\ Request' = Request
      /\ \A r : /\ Held(r)' <=> Held(r)
                /\ Named(r)' <=> Named(r)
                /\ OnDisk(r)' <=> OnDisk(r)
  BY DEF Request, Held, Named, OnDisk
<1>2. \A r \in Request' : RequestFiles(r)'
  BY <1>1 DEF RequestFiles, PathOf
<1>3. \A w \in Worker : WorkerFiles(w)'
  BY <1>1 DEF WorkerFiles, Apart
<1>4. Directory'
  BY DEF Directory
<1> QED
  BY <1>1, <1>2, <1>3, <1>4

(* A worker gets a request that has no name yet. *)
LEMMA PopStep ==
  ASSUME FInv, NEW w \in Worker, WorkerPop(w)
  PROVE  Files'
<1> USE DEF FInv, Files, IInv, TypeOK, Goto, boss, disk, call
<1>1. /\ ~IsEmpty(queue) /\ req' = [req EXCEPT ![w] = Front(queue)] /\ req[w] = 0
      /\ wpc' = [wpc EXCEPT ![w] = "name"]
      /\ UNCHANGED <<nreq, name, dir, data, file, got, reply, result>>
  BY DEF WorkerPop, Control, HoldsRequest, Working
<1>2. Front(queue) \in Request /\ Front(queue) = queue[1] /\ Len(queue) \in Nat \ {0}
  BY <1>1, PoppedFacts DEF Popped, Front, IsEmpty
<1>3. PICK r \in Request : r = Front(queue) /\ Queued(r)
  BY <1>2 DEF Queued
<1>4. ~Held(r) /\ result[r] = "none" /\ ~Named(r)
  BY <1>3 DEF RequestsConserved, RequestFiles
<1>5. Request' = Request /\ Directory'
  BY <1>1 DEF Request, Directory
<1>6. \A s : (Named(s)' <=> Named(s)) /\ (OnDisk(s)' <=> OnDisk(s))
  BY <1>1 DEF Named, OnDisk
<1>7. \A s \in Request : Held(s) => Held(s)'
  BY <1>1 DEF Held, Request
<1>8. \A s \in Request' : RequestFiles(s)'
  BY <1>1, <1>5, <1>6, <1>7 DEF RequestFiles, PathOf
<1>9. ASSUME NEW v \in Worker PROVE WorkerFiles(v)'
  <2>1. CASE v = w
    <3>1. req'[v] = r /\ wpc'[v] = "name" /\ got'[v] = 0 /\ result'[r] = "none" /\ ~Named(r)'
      BY <1>1, <1>3, <1>4, <1>6, <2>1 DEF WorkerFiles
    <3> QED
      BY <3>1 DEF WorkerFiles
  <2>2. CASE v # w
    <3>1. req'[v] = req[v] /\ wpc'[v] = wpc[v]
      BY <1>1, <2>2
    <3> QED
      BY <1>1, <1>6, <3>1 DEF WorkerFiles
  <2> QED
    BY <2>1, <2>2
<1> QED
  BY <1>1, <1>5, <1>8, <1>9

(* A worker gives back a request that has its result. *)
LEMMA FinishStep ==
  ASSUME FInv, NEW w \in Worker, WorkerFinish(w)
  PROVE  Files'
<1> USE DEF FInv, Files, IInv, TypeOK, Goto, disk, call
<1>1. /\ req' = [req EXCEPT ![w] = 0] /\ wpc[w] = "finish" /\ wpc' = [wpc EXCEPT ![w] = "lock"]
      /\ UNCHANGED <<nreq, name, dir, data, file, got, reply, result>>
  BY DEF WorkerFinish
<1>2. Request' = Request /\ Directory'
  BY <1>1 DEF Request, Directory
<1>3. \A s : (Named(s)' <=> Named(s)) /\ (OnDisk(s)' <=> OnDisk(s))
  BY <1>1 DEF Named, OnDisk
<1>4. \A s \in Request : result[s] = "none" /\ Held(s) => Held(s)'
  BY <1>1 DEF Held, Control, Recorded
<1>5. \A s \in Request' : RequestFiles(s)'
  BY <1>1, <1>2, <1>3, <1>4 DEF RequestFiles, PathOf
<1>6. ASSUME NEW v \in Worker PROVE WorkerFiles(v)'
  <2>1. CASE v = w
    BY <1>1, <2>1 DEF WorkerFiles
  <2>2. CASE v # w
    <3>1. req'[v] = req[v] /\ wpc'[v] = wpc[v]
      BY <1>1, <2>2
    <3> QED
      BY <1>1, <1>3, <3>1 DEF WorkerFiles
  <2> QED
    BY <2>1, <2>2
<1> QED
  BY <1>1, <1>2, <1>5, <1>6

(* The invariant is inductive. *)
LEMMA FilesStep ==
  ASSUME OwnPaths, FInv, [Next]_vars
  PROVE  Files'
<1> USE DEF Apart, Goto, boss, shared, disk, call
<1>0. wpc \in [Worker -> Label]
  BY DEF FInv, IInv, TypeOK
<1>1. CASE UNCHANGED vars
  BY <1>1, QuietStep DEF vars
<1>2. CASE Fill \/ BossRelock \/ BossWait \/ BossReturn \/ BossSpuriousWakeup
  BY <1>2, QuietStep DEF Fill, BossRelock, BossWait, BossReturn, BossSpuriousWakeup
<1>3. CASE BossStart \/ BossShutdown
  <2>1. \A w \in Worker : wpc'[w] = wpc[w] \/ (wpc[w] = "waiting" /\ wpc'[w] = "lock")
    BY <1>3 DEF BossStart, BossShutdown, WakeAll, Waiting
  <2>2. UNCHANGED <<nreq, req, name, dir, data, file, got, reply, result>>
    BY <1>3 DEF BossStart, BossShutdown
  <2> QED
    BY <2>1, <2>2, QuietStep
<1>4. ASSUME NEW w \in Worker,
             \/ CreateWorker(w) \/ WorkerLock(w) \/ WorkerWait(w) \/ WorkerExit(w)
             \/ WorkerSpuriousWakeup(w) \/ LocalPathLoad(w)
      PROVE  Files'
  <2>1. UNCHANGED <<nreq, req, name, dir, data, file, got, reply, result>>
    BY <1>4 DEF CreateWorker, WorkerLock, WorkerWait, WorkerExit, WorkerSpuriousWakeup,
                LocalPathLoad
  <2>2. /\ \A v \in Worker \ {w} : wpc'[v] = wpc[v]
        /\ \/ wpc[w] \in Apart /\ wpc'[w] \in Apart
           \/ wpc[w] = "name" /\ wpc'[w] = "bump"
    BY <1>0, <1>4 DEF CreateWorker, WorkerLock, WorkerWait, WorkerExit,
                      WorkerSpuriousWakeup, LocalPathLoad
  <2>3. \A v \in Worker : \/ wpc'[v] = wpc[v]
                          \/ wpc[v] \in Apart /\ wpc'[v] \in Apart
                          \/ wpc[v] = "name" /\ wpc'[v] = "bump"
    BY <2>2
  <2> QED
    BY <2>1, <2>3, QuietStep
<1>5. ASSUME NEW w \in Worker, OpenFileFails(w) PROVE Files'
  BY <1>5, QuietStep DEF OpenFileFails
<1> QED
  BY <1>1, <1>2, <1>3, <1>4, <1>5, PopStep, FinishStep, StoreStep, OpenStep, WriteStep,
     ReturnsStep, CloseStep, CheckStep
  DEF Next, BossStep, WorkerStep, SpuriousWakeup, Exited

(* It holds before the first request is drawn, hence in every reachable state. *)
LEMMA FilesInvariance == ASSUME OwnPaths PROVE Spec => []FInv
<1>1. Init => Files
  <2> SUFFICES ASSUME Init PROVE Files
    OBVIOUS
  <2>1. ASSUME NEW r \in Request PROVE RequestFiles(r)
    BY DEF Init, RequestFiles, Named, NoName
  <2>2. ASSUME NEW w \in Worker PROVE WorkerFiles(w)
    BY DEF Init, WorkerFiles
  <2>3. nreq \in RequestCounts /\ Directory
    BY DEF Init, Directory
  <2> QED
    BY <2>1, <2>2, <2>3 DEF Files
<1>2. FInv /\ [Next]_vars => Files'
  BY FilesStep
<1> QED
  BY <1>1, <1>2, InvariantInit, InvariantStep, PTL DEF Spec, FInv

(* With at least as many workload lines as requests, a download that gfc_perform
   completed stays on disk, whole, in a file of its own. *)
THEOREM CompleteFilesStay == ASSUME OwnPaths PROVE Spec => []DownloadsKept
<1>1. FInv => DownloadsKept
  <2> SUFFICES ASSUME FInv, NEW r \in Request, result[r] = "ok"
               PROVE  /\ name[r] \in DOMAIN dir
                      /\ data[dir[name[r]]] = 1..Chunks
                      /\ \A s \in Request : s # r /\ result[s] = "ok" => name[s] # name[r]
    BY DEF DownloadsKept
  <2>1. Named(r) /\ OnDisk(r) /\ data[r] = 1..Chunks
    BY DEF FInv, Files, RequestFiles
  <2> QED
    BY <2>1, OwnInode, OwnName DEF OnDisk
<1> QED
  BY <1>1, FilesInvariance, PTL

(* And a download that failed leaves no file under its name, whether the
   exchange broke or the server refused. *)
THEOREM FailedFilesGo == ASSUME OwnPaths PROVE Spec => []FailuresRemoved
<1>1. FInv => FailuresRemoved
  BY DEF FInv, Files, RequestFiles, FailuresRemoved, OnDisk
<1> QED
  BY <1>1, FilesInvariance, PTL
=============================================================================
