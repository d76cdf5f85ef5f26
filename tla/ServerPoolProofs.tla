-------------------------- MODULE ServerPoolProofs ---------------------------
(***************************************************************************)
(* Proofs about the multithreaded server for any number of workers,        *)
(* connections, paths and files, and any size of the buffer.               *)
(***************************************************************************)
EXTENDS ServerPool, SequenceTheorems, FiniteSetTheorems, TLAPS

(***************************************************************************)
(* The inductive invariant.  OneOwner alone is not inductive: it rests on  *)
(* the stations of a context on its way from the library to a worker, and  *)
(* NoUseAfterFree on the loop of worker_fn, which is over once the library *)
(* has seen the last byte and freed the context.                           *)
(***************************************************************************)

Label == {"missing", "lock", "claim", "waiting", "lookup", "stat", "send", "drain"}
Header == [status : {"OK", "ERROR", "FILE_NOT_FOUND"}, len : Nat]

TypeOK ==
  /\ queue \in Seq(Conn)
  /\ mutex \in Worker \cup {Boss, NoThread}
  /\ bpc \in {"accept", "handler", "lock", "push", "return"}
  /\ lib \in Conn \cup {NoConn} /\ built \in Conn \cup {NoConn}
  /\ wpc \in [Worker -> Label]
  /\ task \in [Worker -> Conn \cup {NoConn}]
  /\ fd \in [Worker -> Catalog \cup {NoKey}]
  /\ size \in [Worker -> Nat] /\ offset \in [Worker -> Nat]
  /\ sock \in [Conn -> {"none", "open", "closed"}]
  /\ memory \in [Conn -> {"none", "live", "freed"}]
  /\ path \in [Conn -> Key \cup {NoKey}]
  /\ announced \in [Conn -> Nat] /\ sent \in [Conn -> Nat]
  /\ client \in [Conn -> {"none", "waiting", "left"}]
  /\ header \in [Conn -> Header \cup {NoHeader}]
  /\ DOMAIN body = Conn
  /\ fault \in BOOLEAN /\ up \in BOOLEAN

(* Where the boss and each worker have a context, and who owns the mutex. *)
Control ==
  /\ lib # NoConn <=> bpc = "handler"
  /\ built # NoConn <=> bpc \in {"lock", "push"}
  /\ bpc = "push" <=> mutex = Boss
  /\ \A w \in Worker :
       /\ task[w] # NoConn <=> wpc[w] \in {"lookup", "stat", "send", "drain"}
       /\ wpc[w] = "claim" <=> mutex = w

(* A connection that nobody has answered yet. *)
Fresh(c) == /\ sock[c] = "open" /\ memory[c] = "live" /\ path[c] \in Key
            /\ announced[c] = 0 /\ sent[c] = 0
            /\ header[c] = NoHeader /\ body[c] = << >>

(* What travels from the library to a worker is a fresh connection. *)
Entrusted == \A c \in Conn : c \in {lib, built} \/ Queued(c) => Fresh(c)

(* The library has announced all of the file, and has not seen all of it. *)
Promised(c, k) ==
  /\ announced[c] = Size[k]
  /\ sent[c] < announced[c] \/ announced[c] = 0
  /\ client[c] = "waiting" => header[c] = [status |-> "OK", len |-> Size[k]]

(* The send loop on a connection that is open: a client that has left may
   have made sends fail, so that the offset is ahead of what is sent. *)
Sending(w, c) ==
  /\ memory[c] = "live" /\ fd[w] \in Catalog /\ path[c] = fd[w]
  /\ size[w] = Size[fd[w]] /\ Promised(c, fd[w])
  /\ sent[c] <= offset[w] /\ offset[w] <= size[w]
  /\ client[c] = "waiting" => sent[c] = offset[w]

(* Each worker and its connection; once the context may be gone, the loop has
   nothing left to send. *)
Serving(w, c) ==
  /\ wpc[w] \in {"lookup", "stat"} => Fresh(c)
  /\ wpc[w] = "stat" => fd[w] \in Catalog /\ path[c] = fd[w]
  /\ wpc[w] = "send" => IF sock[c] = "open" THEN Sending(w, c) ELSE offset[w] >= size[w]
  /\ wpc[w] = "drain" => sock[c] = "open" /\ memory[c] = "live" /\ offset[w] >= size[w]

EachServing == \A w \in Worker : task[w] # NoConn => Serving(w, task[w])

IInv == /\ TypeOK /\ Control /\ Entrusted /\ EachServing
        /\ OneOwner /\ NoUseAfterFree /\ EnoughAwake /\ ForgottenIsPartial

----------------------------------------------------------------------------
(* Lemmas about the queue *)

(* An item put before all others moves nothing else. *)
LEMMA PushedFacts ==
  ASSUME NEW Items, NEW q \in Seq(Items), NEW x \in Items
  PROVE  /\ << x >> \o q \in Seq(Items)
         /\ Len(<< x >> \o q) = Len(q) + 1
         /\ (<< x >> \o q)[1] = x
         /\ \A i \in 1..Len(q) : (<< x >> \o q)[i + 1] = q[i]
<1> DEFINE s == << x >> \o q
<1>1. << x >> \in Seq(Items) /\ Len(<< x >>) = 1
  OBVIOUS
<1>2. s \in Seq(Items) /\ Len(s) = Len(q) + 1
  BY <1>1, ConcatProperties
<1>3. s[1] = x
  BY <1>1, ConcatProperties
<1>4. ASSUME NEW i \in 1..Len(q) PROVE s[i + 1] = q[i]
  BY <1>1, ConcatProperties
<1> QED
  BY <1>2, <1>3, <1>4

(* A nonempty queue has a first item, and its tail lacks that item only. *)
LEMMA PoppedFacts ==
  ASSUME NEW Items, NEW q \in Seq(Items), q # << >>
  PROVE  /\ Len(q) \in Nat \ {0}
         /\ Head(q) \in Items
         /\ Head(q) = q[1]
         /\ Tail(q) \in Seq(Items)
         /\ Len(Tail(q)) = Len(q) - 1
         /\ \A i \in 1..Len(q) - 1 : Tail(q)[i] = q[i + 1]
  BY HeadTailProperties

(* An item occurs in the queue when one of its places holds it. *)
Occurs(q, x) == \E i \in 1..Len(q) : q[i] = x
Distinct(q) == \A i, j \in 1..Len(q) : q[i] = q[j] => i = j

(* A push brings in the item and leaves the others where they were. *)
LEMMA PushedOccurs ==
  ASSUME NEW Items, NEW q \in Seq(Items), NEW x \in Items
  PROVE  /\ \A y : Occurs(<< x >> \o q, y) <=> y = x \/ Occurs(q, y)
         /\ Distinct(q) /\ ~Occurs(q, x) => Distinct(<< x >> \o q)
<1> DEFINE p == << x >> \o q
<1>1. /\ Len(q) \in Nat /\ Len(p) = Len(q) + 1 /\ p[1] = x
      /\ \A i \in 1..Len(q) : p[i + 1] = q[i]
  BY PushedFacts, LenProperties
<1> HIDE DEF p
<1>2. \A i \in 2..Len(p) : i - 1 \in 1..Len(q) /\ p[i] = q[i - 1]
  BY <1>1
<1>3. ASSUME NEW y, Occurs(p, y) PROVE y = x \/ Occurs(q, y)
  <2>1. PICK i \in 1..Len(p) : p[i] = y
    BY <1>3 DEF Occurs
  <2>2. i = 1 \/ i \in 2..Len(p)
    BY <1>1
  <2> QED
    BY <1>1, <1>2, <2>1, <2>2 DEF Occurs
<1>4. ASSUME NEW y, Occurs(q, y) PROVE Occurs(p, y)
  <2>1. PICK i \in 1..Len(q) : q[i] = y
    BY <1>4 DEF Occurs
  <2>2. i + 1 \in 1..Len(p) /\ p[i + 1] = y
    BY <1>1, <2>1
  <2> QED
    BY <2>2 DEF Occurs
<1>5. Occurs(p, x)
  <2>1. 1 \in 1..Len(p)
    BY <1>1
  <2> QED
    BY <1>1, <2>1 DEF Occurs
<1>6. ASSUME Distinct(q), ~Occurs(q, x) PROVE Distinct(p)
  <2>1. \A i \in 2..Len(p) : p[i] # x
    BY <1>2, <1>6 DEF Occurs
  <2>2. ASSUME NEW i \in 1..Len(p), NEW j \in 1..Len(p), p[i] = p[j] PROVE i = j
    <3>1. CASE i = 1 \/ j = 1
      BY <1>1, <2>1, <2>2, <3>1
    <3>2. CASE i # 1 /\ j # 1
      <4>1. i \in 2..Len(p) /\ j \in 2..Len(p)
        BY <1>1, <3>2
      <4>2. i - 1 = j - 1
        BY <1>2, <1>6, <2>2, <4>1 DEF Distinct
      <4> QED
        BY <4>2
    <3> QED
      BY <3>1, <3>2
  <2> QED
    BY <2>2 DEF Distinct
<1> QED
  BY <1>3, <1>4, <1>5, <1>6 DEF p

(* A pop takes the front item out, and no other. *)
LEMMA PoppedOccurs ==
  ASSUME NEW Items, NEW q \in Seq(Items), q # << >>, Distinct(q)
  PROVE  /\ \A y : Occurs(Tail(q), y) <=> Occurs(q, y) /\ y # Head(q)
         /\ Occurs(q, Head(q))
         /\ Distinct(Tail(q))
<1> DEFINE p == Tail(q)
<1>1. /\ Len(q) \in Nat \ {0} /\ Head(q) = q[1] /\ Len(p) = Len(q) - 1
      /\ \A i \in 1..Len(q) - 1 : p[i] = q[i + 1]
  BY PoppedFacts
<1> HIDE DEF p
<1>2. ASSUME NEW y, Occurs(p, y) PROVE Occurs(q, y) /\ y # Head(q)
  <2>1. PICK i \in 1..Len(p) : p[i] = y
    BY <1>2 DEF Occurs
  <2>2. i + 1 \in 1..Len(q) /\ 1 \in 1..Len(q) /\ i + 1 # 1 /\ q[i + 1] = y
    BY <1>1, <2>1
  <2> QED
    BY <1>1, <2>2 DEF Occurs, Distinct
<1>3. ASSUME NEW y, Occurs(q, y), y # Head(q) PROVE Occurs(p, y)
  <2>1. PICK i \in 1..Len(q) : q[i] = y
    BY <1>3 DEF Occurs
  <2>2. i - 1 \in 1..Len(p) /\ p[i - 1] = y
    BY <1>1, <1>3, <2>1
  <2> QED
    BY <2>2 DEF Occurs
<1>4. Occurs(q, Head(q))
  BY <1>1 DEF Occurs
<1>5. Distinct(p)
  BY <1>1 DEF Distinct
<1> QED
  BY <1>2, <1>3, <1>4, <1>5 DEF p

----------------------------------------------------------------------------

(* The steps of the server, of its clients and of nobody. *)
LEMMA StepCases ==
  ASSUME [Next]_vars
  PROVE  \/ UNCHANGED vars
         \/ \E c \in Conn : (\E k \in Key : Accept(c, k)) \/ ClientLeaves(c)
         \/ TakeContext \/ HandlerLock \/ HandlerPush \/ HandlerReturns
         \/ \E w \in Worker :
              \/ WorkerLock(w) \/ WorkerWait(w) \/ SpuriousWakeup(w) \/ WorkerPop(w)
              \/ Lookup(w) \/ SendHeader(w) \/ StatFails(w) \/ SendChunk(w) \/ Drain(w)
              \/ TaskDone(w)
  BY DEF Next, BossStep, WorkerStep, Dead

(* A header or data reaches its client or nobody. *)
LEMMA ReceivesType ==
  ASSUME TypeOK, NEW c \in Conn, NEW h \in Header \cup {NoHeader}, NEW bytes,
         Receives(c, h, bytes)
  PROVE  /\ header' \in [Conn -> Header \cup {NoHeader}] /\ DOMAIN body' = Conn
         /\ up' \in BOOLEAN
  BY DEF Receives, TypeOK

(* The same for a refusal, which changes the worker's own variables besides. *)
LEMMA RefuseType ==
  ASSUME TypeOK, NEW w \in Worker, task[w] \in Conn,
         NEW status \in {"ERROR", "FILE_NOT_FOUND"}, Refuse(w, status)
  PROVE  /\ header' \in [Conn -> Header \cup {NoHeader}] /\ DOMAIN body' = Conn
         /\ up' \in BOOLEAN
         /\ size' \in [Worker -> Nat] /\ offset' \in [Worker -> Nat]
         /\ wpc' \in [Worker -> Label]
<1>1. [status |-> status, len |-> 0] \in Header
  BY DEF Header
<1>2. Receives(task[w], [status |-> status, len |-> 0], << >>)
  BY DEF Refuse
<1> QED
  BY <1>1, <1>2, ReceivesType DEF Refuse, TypeOK, Goto, Label

(* A worker that serves somebody has that connection. *)
LEMMA BusyHasTask ==
  ASSUME TypeOK, Control, NEW w \in Worker, wpc[w] \in {"lookup", "stat", "send", "drain"}
  PROVE  task[w] \in Conn /\ task[w] # NoConn
  BY DEF TypeOK, Control

(* Every step keeps the types: what a worker writes about a connection lies
   behind its task, and the sizes it reads are those of files. *)
LEMMA TypeOKStep ==
  ASSUME TypeOK, Control, EachServing, [Next]_vars
  PROVE  TypeOK'
<1> USE DEF TypeOK, Goto, Label, pool, boss, locals, conns, clients
<1>1. CASE UNCHANGED vars
  BY <1>1 DEF vars
<1>2. ASSUME NEW c \in Conn, NEW k \in Key, Accept(c, k) PROVE TypeOK'
  BY <1>2 DEF Accept
<1>3. ASSUME NEW c \in Conn, ClientLeaves(c) PROVE TypeOK'
  BY <1>3 DEF ClientLeaves
<1>4. CASE TakeContext
  BY <1>4 DEF TakeContext
<1>5. CASE HandlerLock
  BY <1>5 DEF HandlerLock
<1>6. CASE HandlerPush
  <2>1. built \in Conn
    BY <1>6 DEF HandlerPush, Control
  <2>2. queue' \in Seq(Conn)
    BY <1>6, <2>1, PushedFacts DEF HandlerPush, Pushed
  <2>3. wpc' \in [Worker -> Label]
    BY <1>6 DEF HandlerPush, Signal, Waiting
  <2> QED
    BY <1>6, <2>2, <2>3 DEF HandlerPush
<1>7. CASE HandlerReturns
  BY <1>7 DEF HandlerReturns
<1>8. ASSUME NEW w \in Worker, WorkerLock(w) PROVE TypeOK'
  BY <1>8 DEF WorkerLock
<1>9. ASSUME NEW w \in Worker, WorkerWait(w) PROVE TypeOK'
  BY <1>9 DEF WorkerWait
<1>10. ASSUME NEW w \in Worker, SpuriousWakeup(w) PROVE TypeOK'
  BY <1>10 DEF SpuriousWakeup
<1>11. ASSUME NEW w \in Worker, WorkerPop(w) PROVE TypeOK'
  <2>1. Front(queue) \in Conn /\ Popped(queue) \in Seq(Conn)
    BY <1>11, PoppedFacts DEF WorkerPop, Popped, Front, IsEmpty
  <2> QED
    BY <1>11, <2>1 DEF WorkerPop
<1>12. ASSUME NEW w \in Worker, Lookup(w) PROVE TypeOK'
  <2>0. task[w] \in Conn
    BY <1>12, BusyHasTask DEF Lookup
  <2>1. fault' \in BOOLEAN
    BY <1>12 DEF Lookup, Use
  <2>2. CASE path[task[w]] \in Catalog
    BY <1>12, <2>1, <2>2 DEF Lookup
  <2>3. CASE path[task[w]] \notin Catalog
    <3>1. Refuse(w, "FILE_NOT_FOUND")
      BY <1>12, <2>3 DEF Lookup
    <3>2. UNCHANGED <<fd, sock, memory, path, announced, sent>>
      BY <3>1 DEF Refuse
    <3> QED
      BY <1>12, <2>0, <2>1, <3>1, <3>2, RefuseType DEF Lookup
  <2> QED
    BY <2>2, <2>3
<1>13. ASSUME NEW w \in Worker, SendHeader(w) PROVE TypeOK'
  <2>0. task[w] \in Conn
    BY <1>13, BusyHasTask DEF SendHeader
  <2>1. fault' \in BOOLEAN
    BY <1>13 DEF SendHeader, Use
  <2>2. Size[fd[w]] \in Nat
    BY <1>13, <2>0, FilesAssumption, ConnAssumption DEF SendHeader, EachServing, Serving, Catalog
  <2>3. [status |-> "OK", len |-> Size[fd[w]]] \in Header
    BY <2>2 DEF Header
  <2>4. /\ header' \in [Conn -> Header \cup {NoHeader}] /\ DOMAIN body' = Conn
        /\ up' \in BOOLEAN
    BY <1>13, <2>0, <2>3, ReceivesType DEF SendHeader
  <2> QED
    BY <1>13, <2>0, <2>1, <2>2, <2>4 DEF SendHeader
<1>14. ASSUME NEW w \in Worker, StatFails(w) PROVE TypeOK'
  <2>0. task[w] \in Conn
    BY <1>14, BusyHasTask DEF StatFails
  <2>1. fault' \in BOOLEAN
    BY <1>14 DEF StatFails, Use
  <2>2. Refuse(w, "ERROR")
    BY <1>14 DEF StatFails
  <2>3. UNCHANGED <<fd, sock, memory, path, announced, sent>>
    BY <2>2 DEF Refuse
  <2> QED
    BY <1>14, <2>0, <2>1, <2>2, <2>3, RefuseType DEF StatFails
<1>15. ASSUME NEW w \in Worker, SendChunk(w) PROVE TypeOK'
  <2> DEFINE c == task[w]
  <2>0. c \in Conn
    BY <1>15, BusyHasTask DEF SendChunk
  <2>1. PICK n \in 1..Buffer :
          /\ Use(c)
          /\ Receives(c, header[c], SubSeq(File(fd[w]), offset[w] + 1, offset[w] + n))
          /\ sent' = [sent EXCEPT ![c] = @ + n] \/ UNCHANGED sent
          /\ offset' = [offset EXCEPT ![w] = @ + n]
          /\ \E label \in {"drain", "send"} : Goto(w, label)
    BY <1>15 DEF SendChunk, Advance
  <2>2. fault' \in BOOLEAN
    BY <2>1 DEF Use
  <2>3. /\ header' \in [Conn -> Header \cup {NoHeader}] /\ DOMAIN body' = Conn
        /\ up' \in BOOLEAN
    BY <2>0, <2>1, ReceivesType
  <2>4. n \in Nat
    BY <2>1, FilesAssumption
  <2>5. sent' \in [Conn -> Nat] /\ offset' \in [Worker -> Nat] /\ wpc' \in [Worker -> Label]
    <3>1. sent' \in [Conn -> Nat]
      <4>1. sent' = [sent EXCEPT ![c] = @ + n] \/ sent' = sent
        BY <2>1, Zenon
      <4>2. sent \in [Conn -> Nat]
        OBVIOUS
      <4>3. sent[c] + n \in Nat
        BY <2>0, <2>4, <4>2
      <4> HIDE DEF TypeOK, c
      <4> QED
        BY <2>0, <4>1, <4>2, <4>3
    <3>2. offset' \in [Worker -> Nat]
      BY <2>1, <2>4
    <3>3. wpc' \in [Worker -> Label]
      BY <2>1
    <3> QED
      BY <3>1, <3>2, <3>3
  <2> QED
    BY <1>15, <2>2, <2>3, <2>5 DEF SendChunk
<1>16. ASSUME NEW w \in Worker, Drain(w) PROVE TypeOK'
  BY <1>16 DEF Drain
<1>17. ASSUME NEW w \in Worker, TaskDone(w) PROVE TypeOK'
  BY <1>17 DEF TaskDone
<1> QED
  BY StepCases, <1>1, <1>2, <1>3, <1>4, <1>5, <1>6, <1>7, <1>8, <1>9, <1>10, <1>11,
     <1>12, <1>13, <1>14, <1>15, <1>16, <1>17

(***************************************************************************)
(* What the steps from the lookup to the end of the loop leave alone: the  *)
(* queue, the boss, the other workers and the connections of others.       *)
(***************************************************************************)
Same(c) == /\ sock'[c] = sock[c] /\ memory'[c] = memory[c] /\ path'[c] = path[c]
           /\ announced'[c] = announced[c] /\ sent'[c] = sent[c]
           /\ header'[c] = header[c] /\ body'[c] = body[c] /\ client'[c] = client[c]

ServeWork(w) ==
  /\ wpc[w] \in {"lookup", "stat", "send", "drain"}
  /\ \E label \in {"stat", "send", "drain"} : Goto(w, label)
  /\ UNCHANGED <<pool, boss, task>>
  /\ \A v \in Worker \ {w} : fd'[v] = fd[v] /\ size'[v] = size[v] /\ offset'[v] = offset[v]
  /\ \A c \in Conn \ {task[w]} : Same(c)

(* The steps of worker_fn from content_get to gfs_send are such steps. *)
LEMMA ServeWorkSteps ==
  ASSUME TypeOK, Control, NEW w \in Worker,
         Lookup(w) \/ SendHeader(w) \/ StatFails(w) \/ SendChunk(w) \/ Drain(w)
  PROVE  ServeWork(w)
<1> USE DEF TypeOK, ServeWork, Same, pool, boss, locals, conns, clients
<1>1. ASSUME NEW h, NEW bytes, Receives(task[w], h, bytes)
      PROVE  \A c \in Conn \ {task[w]} : header'[c] = header[c] /\ body'[c] = body[c]
  BY <1>1 DEF Receives
<1>2. ASSUME NEW status, Refuse(w, status)
      PROVE  /\ Goto(w, "drain") /\ UNCHANGED <<fd, conns>>
             /\ \A v \in Worker \ {w} : size'[v] = size[v] /\ offset'[v] = offset[v]
             /\ \A c \in Conn \ {task[w]} : header'[c] = header[c] /\ body'[c] = body[c]
  BY <1>1, <1>2 DEF Refuse
<1>3. CASE Lookup(w)
  <2>1. CASE path[task[w]] \in Catalog
    BY <1>3, <2>1 DEF Lookup
  <2>2. CASE path[task[w]] \notin Catalog
    <3>1. Refuse(w, "FILE_NOT_FOUND")
      BY <1>3, <2>2 DEF Lookup
    <3> QED
      BY <1>2, <1>3, <3>1 DEF Lookup
  <2> QED
    BY <2>1, <2>2
<1>4. CASE SendHeader(w)
  BY <1>1, <1>4 DEF SendHeader
<1>5. CASE StatFails(w)
  BY <1>2, <1>5 DEF StatFails
<1>6. CASE SendChunk(w)
  <2>1. \A c \in Conn \ {task[w]} : header'[c] = header[c] /\ body'[c] = body[c]
    BY <1>1, <1>6 DEF SendChunk
  <2>2. \E label \in {"send", "drain"} : Goto(w, label)
    BY <1>6 DEF SendChunk
  <2>3. \A c \in Conn \ {task[w]} : sent'[c] = sent[c]
    BY <1>6 DEF SendChunk
  <2>4. \A v \in Worker \ {w} : offset'[v] = offset[v]
    BY <1>6 DEF SendChunk
  <2> QED
    BY <1>6, <2>1, <2>2, <2>3, <2>4 DEF SendChunk
<1>7. CASE Drain(w)
  BY <1>7 DEF Drain
<1> QED
  BY <1>3, <1>4, <1>5, <1>6, <1>7

(* The mutex and the contexts of the boss, step by step. *)
LEMMA ControlStep ==
  ASSUME TypeOK, Control, [Next]_vars
  PROVE  Control'
<1> USE ThreadsAssumption, ConnAssumption
    DEF TypeOK, Control, Goto, Label, pool, boss, locals, conns, clients
<1>1. CASE UNCHANGED vars
  BY <1>1 DEF vars
<1>2. ASSUME NEW c \in Conn, NEW k \in Key, Accept(c, k) PROVE Control'
  BY <1>2 DEF Accept
<1>3. ASSUME NEW c \in Conn, ClientLeaves(c) PROVE Control'
  BY <1>3 DEF ClientLeaves
<1>4. CASE TakeContext
  BY <1>4 DEF TakeContext
<1>5. CASE HandlerLock
  BY <1>5 DEF HandlerLock
<1>6. CASE HandlerPush
  <2>1. \A w \in Worker : \/ wpc'[w] = wpc[w]
                          \/ wpc[w] = "waiting" /\ wpc'[w] = "lock"
    BY <1>6 DEF HandlerPush, Signal, Waiting
  <2>2. /\ bpc = "push" /\ mutex = Boss /\ lib = NoConn
        /\ bpc' = "return" /\ mutex' = NoThread /\ built' = NoConn
        /\ UNCHANGED <<lib, task>>
    BY <1>6 DEF HandlerPush
  <2>3. \A w \in Worker : wpc[w] # "claim" /\ wpc'[w] # "claim"
    BY <2>1, <2>2
  <2>4. \A w \in Worker : wpc'[w] \in {"lookup", "stat", "send", "drain"}
                          <=> wpc[w] \in {"lookup", "stat", "send", "drain"}
    BY <2>1
  <2> QED
    BY <2>2, <2>3, <2>4
<1>7. CASE HandlerReturns
  BY <1>7 DEF HandlerReturns
<1>8. ASSUME NEW w \in Worker, WorkerLock(w) PROVE Control'
  BY <1>8 DEF WorkerLock
<1>9. ASSUME NEW w \in Worker, WorkerWait(w) PROVE Control'
  BY <1>9 DEF WorkerWait
<1>10. ASSUME NEW w \in Worker, SpuriousWakeup(w) PROVE Control'
  BY <1>10 DEF SpuriousWakeup
<1>11. ASSUME NEW w \in Worker, WorkerPop(w) PROVE Control'
  <2>1. Front(queue) \in Conn
    BY <1>11, PoppedFacts DEF WorkerPop, Popped, Front, IsEmpty
  <2> QED
    BY <1>11, <2>1 DEF WorkerPop
<1>12. ASSUME NEW w \in Worker, ServeWork(w) PROVE Control'
  BY <1>12 DEF ServeWork
<1>13. ASSUME NEW w \in Worker, TaskDone(w) PROVE Control'
  BY <1>13 DEF TaskDone
<1> QED
  BY StepCases, ServeWorkSteps, <1>1, <1>2, <1>3, <1>4, <1>5, <1>6, <1>7, <1>8, <1>9,
     <1>10, <1>11, <1>12, <1>13

(* The context changes hands with its connection: from the library to the
   handler, into the queue and to one worker, and never to two. *)
LEMMA OwnerStep ==
  ASSUME TypeOK, Control, Entrusted, OneOwner, [Next]_vars
  PROVE  OneOwner'
<1> USE ConnAssumption DEF TypeOK, Control, pool, boss, locals, conns, clients
<1>0. UNCHANGED <<queue, task, lib, built>> => OneOwner'
  BY DEF OneOwner, Queued, Served
<1>1. CASE UNCHANGED vars
  BY <1>0, <1>1 DEF vars
<1>2. ASSUME NEW c \in Conn, NEW k \in Key, Accept(c, k) PROVE OneOwner'
  <2>1. ~Queued(c)
    BY <1>2 DEF Accept, Entrusted, Fresh
  <2>2. ~Served(c)
    BY <1>2 DEF Accept, Served, Range
  <2>3. lib' = c /\ built' = NoConn /\ UNCHANGED <<queue, task>>
    BY <1>2 DEF Accept
  <2> QED
    BY <2>1, <2>2, <2>3 DEF OneOwner, Queued, Served
<1>3. ASSUME NEW c \in Conn, ClientLeaves(c) PROVE OneOwner'
  BY <1>0, <1>3 DEF ClientLeaves
<1>4. CASE TakeContext
  BY <1>4 DEF TakeContext, OneOwner, Queued, Served
<1>5. CASE HandlerLock
  BY <1>0, <1>5 DEF HandlerLock
<1>6. CASE HandlerPush
  <2>1. built \in Conn /\ lib = NoConn
    BY <1>6 DEF HandlerPush
  <2>2. Distinct(queue) /\ ~Occurs(queue, built) /\ ~Served(built)
    BY <2>1 DEF OneOwner, Distinct, Occurs, Queued
  <2>3. queue' = Pushed(queue, built) /\ built' = NoConn /\ UNCHANGED <<task, lib>>
    BY <1>6 DEF HandlerPush
  <2>4. Distinct(queue') /\ \A c : Occurs(queue', c) <=> c = built \/ Occurs(queue, c)
    BY <2>1, <2>2, <2>3, PushedOccurs DEF Pushed
  <2>5. \A c : Served(c)' <=> Served(c)
    BY <2>3 DEF Served
  <2>6. \A c \in Conn : Queued(c)' => ~Served(c)'
    BY <2>2, <2>4, <2>5 DEF OneOwner, Occurs, Queued
  <2>7. \A c \in Conn : ~(c \in {lib', built'})
    BY <2>1, <2>3
  <2> QED
    BY <2>3, <2>4, <2>6, <2>7 DEF OneOwner, Distinct
<1>7. CASE HandlerReturns
  BY <1>7 DEF HandlerReturns, OneOwner, Queued, Served
<1>8. ASSUME NEW w \in Worker, WorkerLock(w) PROVE OneOwner'
  BY <1>0, <1>8 DEF WorkerLock
<1>9. ASSUME NEW w \in Worker, WorkerWait(w) PROVE OneOwner'
  BY <1>0, <1>9 DEF WorkerWait
<1>10. ASSUME NEW w \in Worker, SpuriousWakeup(w) PROVE OneOwner'
  BY <1>0, <1>10 DEF SpuriousWakeup
<1>11. ASSUME NEW w \in Worker, WorkerPop(w) PROVE OneOwner'
  <2> DEFINE front == Front(queue)
  <2>1. ~IsEmpty(queue) /\ front \in Conn
    BY <1>11, PoppedFacts DEF WorkerPop, Popped, Front, IsEmpty
  <2>2. queue' = Popped(queue) /\ task' = [task EXCEPT ![w] = front] /\ UNCHANGED <<lib, built>>
    BY <1>11 DEF WorkerPop
  <2>3. Distinct(queue)
    BY DEF OneOwner, Distinct
  <2>4. /\ Distinct(queue') /\ Occurs(queue, front)
        /\ \A c : Occurs(queue', c) <=> Occurs(queue, c) /\ c # front
    BY <2>1, <2>2, <2>3, PoppedOccurs DEF Popped, Front, IsEmpty
  <2>5. ~Served(front) /\ front \notin {lib, built}
    BY <2>1, <2>4 DEF OneOwner, Queued, Occurs
  <2>6. \A c : Served(c)' => Served(c) \/ c = front
    BY <2>2 DEF Served
  <2>7. \A u, v \in Worker : task'[u] = task'[v] /\ task'[u] # NoConn => u = v
    BY <2>2, <2>5 DEF OneOwner, Served
  <2> QED
    BY <2>2, <2>4, <2>5, <2>6, <2>7 DEF OneOwner, Distinct, Occurs, Queued
<1>12. ASSUME NEW w \in Worker, ServeWork(w) PROVE OneOwner'
  BY <1>0, <1>12 DEF ServeWork
<1>13. ASSUME NEW w \in Worker, TaskDone(w) PROVE OneOwner'
  BY <1>13 DEF TaskDone, OneOwner, Queued, Served
<1> QED
  BY StepCases, ServeWorkSteps, <1>1, <1>2, <1>3, <1>4, <1>5, <1>6, <1>7, <1>8, <1>9,
     <1>10, <1>11, <1>12, <1>13

(* A connection that has just been accepted stays untouched until its worker
   has popped it. *)
LEMMA EntrustedStep ==
  ASSUME TypeOK, Control, Entrusted, OneOwner, [Next]_vars
  PROVE  Entrusted'
<1> USE ConnAssumption DEF TypeOK, Control, pool, boss, locals, conns, clients
<1>0. ASSUME UNCHANGED <<sock, memory, path, announced, sent, header, body>>,
             \A c \in Conn : c \in {lib', built'} \/ Queued(c)' => c \in {lib, built} \/ Queued(c)
      PROVE  Entrusted'
  BY <1>0 DEF Entrusted, Fresh
<1>1. CASE UNCHANGED vars
  BY <1>0, <1>1 DEF vars, Queued
<1>2. ASSUME NEW c \in Conn, NEW k \in Key, Accept(c, k) PROVE Entrusted'
  <2>1. Fresh(c)'
    BY <1>2 DEF Accept, Fresh
  <2>2. \A d \in Conn \ {c} : Fresh(d)' <=> Fresh(d)
    BY <1>2 DEF Accept, Fresh
  <2>3. lib' = c /\ built' = NoConn /\ \A d : Queued(d)' <=> Queued(d)
    BY <1>2 DEF Accept, Queued
  <2> QED
    BY <2>1, <2>2, <2>3 DEF Entrusted
<1>3. ASSUME NEW c \in Conn, ClientLeaves(c) PROVE Entrusted'
  BY <1>0, <1>3 DEF ClientLeaves, Queued
<1>4. CASE TakeContext
  BY <1>0, <1>4 DEF TakeContext, Queued
<1>5. CASE HandlerLock
  BY <1>0, <1>5 DEF HandlerLock, Queued
<1>6. CASE HandlerPush
  <2>1. built \in Conn /\ queue' = Pushed(queue, built)
    BY <1>6 DEF HandlerPush
  <2>2. \A c : Occurs(queue', c) <=> c = built \/ Occurs(queue, c)
    BY <2>1, PushedOccurs DEF Pushed
  <2> QED
    BY <1>0, <1>6, <2>2 DEF HandlerPush, Queued, Occurs
<1>7. CASE HandlerReturns
  BY <1>0, <1>7 DEF HandlerReturns, Queued
<1>8. ASSUME NEW w \in Worker, WorkerLock(w) PROVE Entrusted'
  BY <1>0, <1>8 DEF WorkerLock, Queued
<1>9. ASSUME NEW w \in Worker, WorkerWait(w) PROVE Entrusted'
  BY <1>0, <1>9 DEF WorkerWait, Queued
<1>10. ASSUME NEW w \in Worker, SpuriousWakeup(w) PROVE Entrusted'
  BY <1>0, <1>10 DEF SpuriousWakeup, Queued
<1>11. ASSUME NEW w \in Worker, WorkerPop(w) PROVE Entrusted'
  <2>1. ~IsEmpty(queue) /\ queue' = Popped(queue)
    BY <1>11 DEF WorkerPop
  <2>2. \A c : Occurs(queue', c) => Occurs(queue, c)
    BY <2>1, PoppedOccurs DEF OneOwner, Distinct, Popped, Front, IsEmpty
  <2> QED
    BY <1>0, <1>11, <2>2 DEF WorkerPop, Queued, Occurs
<1>12. ASSUME NEW w \in Worker, ServeWork(w) PROVE Entrusted'
  <2>1. UNCHANGED <<lib, built, queue>> /\ Served(task[w])
    BY <1>12 DEF ServeWork, Served
  <2>2. \A c \in Conn : c \in {lib, built} \/ Queued(c) => c # task[w]
    BY <2>1 DEF OneOwner
  <2>3. \A c \in Conn \ {task[w]} : Fresh(c)' <=> Fresh(c)
    BY <1>12 DEF ServeWork, Same, Fresh
  <2> QED
    BY <2>1, <2>2, <2>3 DEF Entrusted, Queued
<1>13. ASSUME NEW w \in Worker, TaskDone(w) PROVE Entrusted'
  BY <1>0, <1>13 DEF TaskDone, Queued
<1> QED
  BY StepCases, ServeWorkSteps, <1>1, <1>2, <1>3, <1>4, <1>5, <1>6, <1>7, <1>8, <1>9,
     <1>10, <1>11, <1>12, <1>13

(* One turn of the send loop: the connection is still open, whoever counts
   the bytes does not get ahead of the offset, and the library frees the
   context only if nothing is left to send. *)
LEMMA ChunkServes ==
  ASSUME TypeOK, Control, EachServing, NEW w \in Worker, SendChunk(w)
  PROVE  Serving(w, task[w])'
<1> USE DEF TypeOK, pool, boss
<1> DEFINE c == task[w]
           k == fd[w]
<1>1. c \in Conn /\ c # NoConn /\ wpc[w] = "send" /\ offset[w] < size[w]
  BY BusyHasTask DEF SendChunk
<1>2. Serving(w, c)
  BY <1>1 DEF EachServing
<1>3. sock[c] = "open" /\ Sending(w, c)
  BY <1>1, <1>2 DEF Serving
<1>4. PICK n \in 1..Buffer :
        /\ offset[w] + n <= size[w]
        /\ Receives(c, header[c], SubSeq(File(k), offset[w] + 1, offset[w] + n))
        /\ \/ sent' = [sent EXCEPT ![c] = @ + n]
           \/ client[c] = "left" /\ UNCHANGED sent
        /\ offset' = [offset EXCEPT ![w] = @ + n]
        /\ Goto(w, IF sent'[c] > sent[c] /\ sent'[c] >= announced[c] THEN "drain" ELSE "send")
  BY DEF SendChunk, Advance
<1>5. n \in Nat \ {0}
  BY <1>4, FilesAssumption
<1>6. UNCHANGED <<task, fd, size, sock, memory, path, announced, client>>
  BY DEF SendChunk
<1>7. header'[c] = header[c]
  BY <1>1, <1>4 DEF Receives
<1>8. offset'[w] = offset[w] + n /\ (sent'[c] = sent[c] + n \/ sent'[c] = sent[c])
  BY <1>1, <1>4
<1>9. client[c] = "waiting" => sent'[c] = sent[c] + n
  BY <1>1, <1>4
<1>10. announced[c] = size[w] /\ size[w] = Size[k]
  BY <1>3 DEF Sending, Promised
<1>11. offset[w] \in Nat /\ size[w] \in Nat /\ sent[c] \in Nat
  BY <1>1
<1>12. sent'[c] <= offset'[w] /\ offset'[w] <= size[w]
  BY <1>3, <1>4, <1>5, <1>8, <1>11 DEF Sending
<1>13. client[c] = "waiting" => sent'[c] = offset'[w]
  BY <1>3, <1>8, <1>9 DEF Sending
<1>14. CASE sent'[c] > sent[c] /\ sent'[c] >= announced[c]
  <2>1. wpc'[w] = "drain"
    BY <1>4, <1>14 DEF Goto
  <2>2. offset'[w] >= size[w]
    BY <1>5, <1>8, <1>10, <1>11, <1>12, <1>14
  <2> QED
    BY <1>3, <1>6, <2>1, <2>2 DEF Serving, Sending
<1>15. CASE ~(sent'[c] > sent[c] /\ sent'[c] >= announced[c])
  <2>1. wpc'[w] = "send"
    BY <1>4, <1>15 DEF Goto
  <2>2. sent'[c] < announced[c]
    BY <1>1, <1>3, <1>5, <1>8, <1>10, <1>11, <1>15 DEF Sending, Promised
  <2>3. Promised(c, k)'
    BY <1>3, <1>6, <1>7, <2>2 DEF Sending, Promised
  <2> QED
    BY <1>3, <1>6, <1>12, <1>13, <2>1, <2>3 DEF Serving, Sending
<1> QED
  BY <1>14, <1>15

(* The other serving steps, each from what the one before has left. *)
LEMMA OwnServes ==
  ASSUME TypeOK, Control, EachServing, NEW w \in Worker,
         Lookup(w) \/ SendHeader(w) \/ StatFails(w) \/ SendChunk(w) \/ Drain(w)
  PROVE  Serving(w, task[w])'
<1> USE DEF TypeOK, Goto, Label, pool, boss, locals, conns, clients
<1> DEFINE c == task[w]
<1>1. c \in Conn /\ Serving(w, c)
  BY BusyHasTask DEF EachServing, Lookup, SendHeader, StatFails, SendChunk, Drain
<1>2. ASSUME NEW status, Refuse(w, status), UNCHANGED task, wpc[w] \in {"lookup", "stat"}
      PROVE  Serving(w, task[w])'
  <2>1. wpc'[w] = "drain" /\ offset'[w] = 0 /\ size'[w] = 0 /\ UNCHANGED <<sock, memory>>
    BY <1>2 DEF Refuse
  <2>2. sock[c] = "open" /\ memory[c] = "live"
    BY <1>1, <1>2 DEF Serving, Fresh
  <2> QED
    BY <1>2, <2>1, <2>2 DEF Serving
<1>3. CASE Lookup(w)
  <2>1. CASE path[c] \in Catalog
    <3>1. /\ wpc[w] = "lookup" /\ wpc'[w] = "stat" /\ fd'[w] = path[c]
          /\ UNCHANGED <<task, sock, memory, path, announced, sent, header, body>>
      BY <1>3, <2>1 DEF Lookup
    <3>2. Fresh(c)'
      BY <1>1, <3>1 DEF Serving, Fresh
    <3> QED
      BY <2>1, <3>1, <3>2 DEF Serving, Catalog
  <2>2. CASE path[c] \notin Catalog
    BY <1>2, <1>3, <2>2 DEF Lookup
  <2> QED
    BY <2>1, <2>2
<1>4. CASE SendHeader(w)
  <2> DEFINE k == fd[w]
             ok == [status |-> "OK", len |-> Size[k]]
  <2>1. Fresh(c) /\ k \in Catalog /\ path[c] = k
    BY <1>1, <1>4 DEF SendHeader, Serving
  <2>2. Size[k] \in Nat
    BY <2>1, FilesAssumption DEF Catalog
  <2>3. /\ wpc'[w] = "send" /\ size'[w] = Size[k] /\ offset'[w] = 0
        /\ announced'[c] = Size[k] /\ sent'[c] = 0
        /\ UNCHANGED <<task, fd, sock, memory, path, client>>
    BY <1>1, <1>4 DEF SendHeader
  <2>4. client[c] = "waiting" => header'[c] = ok
    BY <1>1, <1>4 DEF SendHeader, Receives
  <2>5. Promised(c, k)'
    BY <2>2, <2>3, <2>4 DEF Promised
  <2>6. Sending(w, c)'
    BY <2>1, <2>2, <2>3, <2>5 DEF Sending, Fresh
  <2> QED
    BY <2>1, <2>3, <2>6 DEF Serving, Fresh
<1>5. CASE StatFails(w)
  BY <1>2, <1>5 DEF StatFails
<1>6. CASE SendChunk(w)
  BY <1>6, ChunkServes
<1>7. CASE Drain(w)
  <2>1. wpc[w] = "drain" /\ wpc'[w] = "send" /\ sock'[c] = "closed"
        /\ UNCHANGED <<task, size, offset>>
    BY <1>1, <1>7 DEF Drain
  <2> QED
    BY <1>1, <2>1 DEF Serving
<1> QED
  BY <1>3, <1>4, <1>5, <1>6, <1>7

(* Every worker serves its own connection: the step of one leaves the
   connections of the others alone, and a client that leaves only makes less
   necessary. *)
LEMMA ServingStep ==
  ASSUME TypeOK, Control, Entrusted, EachServing, OneOwner, [Next]_vars
  PROVE  EachServing'
<1> USE ConnAssumption DEF TypeOK, Control, Goto, Label, pool, boss, locals, conns, clients
<1> SUFFICES ASSUME NEW v \in Worker, task'[v] # NoConn PROVE Serving(v, task[v])'
  BY DEF EachServing
<1> DEFINE c == task[v]
<1>0. ASSUME task'[v] = c, wpc'[v] = wpc[v], fd'[v] = fd[v], size'[v] = size[v],
             offset'[v] = offset[v], c \in Conn => Same(c)
      PROVE  Serving(v, task[v])'
  <2>1. c \in Conn /\ Serving(v, c)
    BY <1>0 DEF EachServing
  <2>2. Fresh(c)' <=> Fresh(c)
    BY <1>0, <2>1 DEF Fresh, Same
  <2>3. Sending(v, c)' <=> Sending(v, c)
    BY <1>0, <2>1 DEF Sending, Promised, Same
  <2>4. Serving(v, c)'
    BY <1>0, <2>1, <2>2, <2>3 DEF Serving, Same
  <2> QED
    BY <1>0, <2>4
<1>1. ASSUME UNCHANGED <<wpc, task, locals, conns, clients>> PROVE Serving(v, task[v])'
  BY <1>0, <1>1 DEF Same
<1>2. CASE UNCHANGED vars
  BY <1>1, <1>2 DEF vars
<1>3. ASSUME NEW d \in Conn, NEW k \in Key, Accept(d, k) PROVE Serving(v, task[v])'
  <2>1. c # d
    BY <1>3 DEF Accept, Range
  <2>2. c \in Conn => Same(c)
    BY <1>3, <2>1 DEF Accept, Same
  <2> QED
    BY <1>0, <1>3, <2>2 DEF Accept
<1>4. ASSUME NEW d \in Conn, ClientLeaves(d) PROVE Serving(v, task[v])'
  <2>1. UNCHANGED <<wpc, task, locals, conns, header, body>>
    BY <1>4 DEF ClientLeaves
  <2>2. c \in Conn /\ Serving(v, c)
    BY <2>1 DEF EachServing
  <2>3. client'[c] = "waiting" => client[c] = "waiting"
    BY <1>4, <2>2 DEF ClientLeaves
  <2> QED
    BY <2>1, <2>2, <2>3 DEF Serving, Sending, Promised, Fresh
<1>5. CASE TakeContext
  BY <1>1, <1>5 DEF TakeContext
<1>6. CASE HandlerLock
  BY <1>1, <1>6 DEF HandlerLock
<1>7. CASE HandlerPush
  <2>1. \/ wpc'[v] = wpc[v]
        \/ wpc[v] = "waiting" /\ wpc'[v] = "lock"
    BY <1>7 DEF HandlerPush, Signal, Waiting
  <2>2. UNCHANGED <<task, locals, conns, clients>>
    BY <1>7 DEF HandlerPush
  <2> QED
    BY <1>0, <2>1, <2>2 DEF Same
<1>8. CASE HandlerReturns
  BY <1>1, <1>8 DEF HandlerReturns
<1>9. ASSUME NEW w \in Worker, WorkerLock(w) \/ WorkerWait(w) \/ SpuriousWakeup(w)
      PROVE  Serving(v, task[v])'
  <2>1. UNCHANGED <<task, locals, conns, clients>> /\ task[w] = NoConn
    BY <1>9 DEF WorkerLock, WorkerWait, SpuriousWakeup
  <2>2. v # w /\ wpc'[v] = wpc[v]
    BY <1>9, <2>1 DEF WorkerLock, WorkerWait, SpuriousWakeup
  <2> QED
    BY <1>0, <2>1, <2>2 DEF Same
<1>10. ASSUME NEW w \in Worker, WorkerPop(w) PROVE Serving(v, task[v])'
  <2>1. UNCHANGED <<locals, conns, clients>>
    BY <1>10 DEF WorkerPop
  <2>2. CASE v # w
    <3>1. task'[v] = c /\ wpc'[v] = wpc[v]
      BY <1>10, <2>2 DEF WorkerPop
    <3> QED
      BY <1>0, <2>1, <3>1 DEF Same
  <2>3. CASE v = w
    <3>1. wpc'[v] = "lookup" /\ ~IsEmpty(queue)
      BY <1>10, <2>3 DEF WorkerPop
    <3>2. /\ Front(queue) \in Conn /\ Front(queue) = queue[1]
          /\ Len(queue) \in Nat \ {0}
      BY <3>1, PoppedFacts DEF Popped, Front, IsEmpty
    <3>3. PICK front \in Conn : front = Front(queue) /\ Queued(front)
      BY <3>2 DEF Queued
    <3>4. Fresh(front)
      BY <3>3 DEF Entrusted
    <3>5. task'[v] = front
      BY <1>10, <2>3, <3>3 DEF WorkerPop
    <3> QED
      BY <2>1, <3>1, <3>4, <3>5 DEF Serving, Fresh
  <2> QED
    BY <2>2, <2>3
<1>11. ASSUME NEW w \in Worker,
              Lookup(w) \/ SendHeader(w) \/ StatFails(w) \/ SendChunk(w) \/ Drain(w)
       PROVE  Serving(v, task[v])'
  <2>1. ServeWork(w)
    BY <1>11, ServeWorkSteps
  <2>2. CASE v # w
    <3>1. task'[v] = c /\ wpc'[v] = wpc[v] /\ fd'[v] = fd[v] /\ size'[v] = size[v]
          /\ offset'[v] = offset[v]
      BY <2>1, <2>2 DEF ServeWork
    <3>2. c # task[w]
      BY <2>1, <2>2, <3>1 DEF OneOwner
    <3> QED
      BY <1>0, <2>1, <3>1, <3>2 DEF ServeWork
  <2>3. CASE v = w
    BY <1>11, <2>3, OwnServes
  <2> QED
    BY <2>2, <2>3
<1>12. ASSUME NEW w \in Worker, TaskDone(w) PROVE Serving(v, task[v])'
  <2>1. v # w /\ UNCHANGED <<conns, clients>>
    BY <1>12 DEF TaskDone
  <2>2. /\ task'[v] = c /\ wpc'[v] = wpc[v] /\ fd'[v] = fd[v] /\ size'[v] = size[v]
        /\ offset'[v] = offset[v]
    BY <1>12, <2>1 DEF TaskDone
  <2> QED
    BY <1>0, <2>1, <2>2 DEF Same
<1> QED
  BY StepCases, <1>2, <1>3, <1>4, <1>5, <1>6, <1>7, <1>8, <1>9, <1>10, <1>11, <1>12

(* Whoever follows a pointer into a context serves it, and a context that is
   served in a step that follows it is live. *)
LEMMA FaultStep ==
  ASSUME TypeOK, Control, EachServing, NoUseAfterFree, [Next]_vars
  PROVE  NoUseAfterFree'
<1> USE DEF NoUseAfterFree
<1>1. ASSUME NEW w \in Worker,
             Lookup(w) \/ SendHeader(w) \/ StatFails(w) \/ SendChunk(w)
      PROVE  ~fault'
  <2>1. Serving(w, task[w])
    BY <1>1, BusyHasTask DEF EachServing, Lookup, SendHeader, StatFails, SendChunk
  <2>2. task[w] \in Conn /\ offset[w] \in Int /\ size[w] \in Int
    BY <1>1, BusyHasTask DEF TypeOK, Lookup, SendHeader, StatFails, SendChunk
  <2>3. \/ wpc[w] \in {"lookup", "stat"}
        \/ wpc[w] = "send" /\ offset[w] < size[w]
    BY <1>1 DEF Lookup, SendHeader, StatFails, SendChunk
  <2>4. memory[task[w]] = "live"
    BY <2>1, <2>2, <2>3 DEF Serving, Sending, Fresh
  <2>5. Use(task[w])
    BY <1>1 DEF Lookup, SendHeader, StatFails, SendChunk
  <2> QED
    BY <2>4, <2>5 DEF Use
<1>2. UNCHANGED fault => ~fault'
  OBVIOUS
<1>3. CASE UNCHANGED vars
  BY <1>3 DEF vars
<1>4. ASSUME NEW c \in Conn, (\E k \in Key : Accept(c, k)) \/ ClientLeaves(c) PROVE ~fault'
  BY <1>4 DEF Accept, ClientLeaves
<1>5. CASE TakeContext \/ HandlerLock \/ HandlerPush \/ HandlerReturns
  BY <1>5 DEF TakeContext, HandlerLock, HandlerPush, HandlerReturns
<1>6. ASSUME NEW w \in Worker,
             \/ WorkerLock(w) \/ WorkerWait(w) \/ SpuriousWakeup(w) \/ WorkerPop(w)
             \/ Drain(w) \/ TaskDone(w)
      PROVE  ~fault'
  BY <1>6 DEF WorkerLock, WorkerWait, SpuriousWakeup, WorkerPop, Drain, TaskDone
<1> QED
  BY StepCases, <1>1, <1>3, <1>4, <1>5, <1>6

(* The workers on their way to the queue, and how one of them comes or goes. *)
Awake == {w \in Worker : wpc[w] \in {"lock", "claim"}}

(* There are finitely many threads, so they can be counted. *)
LEMMA AwakeFinite ==
  /\ IsFiniteSet(Awake) /\ Cardinality(Awake) \in Nat
  /\ \A w \in Awake : Cardinality(Awake \ {w}) = Cardinality(Awake) - 1
  /\ \A w \in Worker \ Awake : Cardinality(Awake \cup {w}) = Cardinality(Awake) + 1
<1>1. IsFiniteSet(Awake)
  BY ThreadsAssumption, FS_Subset DEF Awake
<1> QED
  BY <1>1, FS_CardinalityType, FS_AddElement, FS_RemoveElement

(* A push adds one task and wakes one sleeper; a pop takes one of each away;
   nobody falls asleep before the queue is empty. *)
LEMMA AwakeStep ==
  ASSUME TypeOK, Control, EnoughAwake, [Next]_vars
  PROVE  EnoughAwake'
<1> USE DEF TypeOK, Goto, Label, pool, boss, locals, conns, clients
<1>0. UNCHANGED <<queue, wpc>> => EnoughAwake'
  BY DEF EnoughAwake, Waiting
<1>1. CASE UNCHANGED vars
  BY <1>0, <1>1 DEF vars
<1>2. ASSUME NEW c \in Conn, (\E k \in Key : Accept(c, k)) \/ ClientLeaves(c)
      PROVE  EnoughAwake'
  BY <1>0, <1>2 DEF Accept, ClientLeaves
<1>3. CASE TakeContext \/ HandlerLock \/ HandlerReturns
  BY <1>0, <1>3 DEF TakeContext, HandlerLock, HandlerReturns
<1>4. CASE HandlerPush
  <2>1. built \in Conn
    BY <1>4 DEF HandlerPush, Control
  <2>2. Len(queue') = Len(queue) + 1 /\ Len(queue) \in Nat
    BY <1>4, <2>1, PushedFacts, LenProperties DEF HandlerPush, Pushed
  <2>3. CASE Waiting = {}
    BY <1>4, <2>3 DEF HandlerPush, Signal, EnoughAwake, Waiting
  <2>4. ASSUME NEW w \in Waiting, Goto(w, "lock") PROVE EnoughAwake'
    <3>1. w \in Worker \ Awake /\ Awake' = Awake \cup {w}
      BY <2>4 DEF Awake, Waiting
    <3>2. Cardinality(Awake') = Cardinality(Awake) + 1
      BY <3>1, AwakeFinite
    <3>3. Len(queue) <= Cardinality(Awake)
      BY <2>4 DEF EnoughAwake, Awake
    <3>4. Len(queue') <= Cardinality(Awake')
      BY <2>2, <3>2, <3>3, AwakeFinite
    <3> QED
      BY <3>4 DEF EnoughAwake, Awake
  <2> QED
    BY <1>4, <2>3, <2>4 DEF HandlerPush, Signal
<1>5. ASSUME NEW w \in Worker, WorkerLock(w) PROVE EnoughAwake'
  <2>1. Awake' = Awake /\ Waiting' = Waiting /\ UNCHANGED queue
    BY <1>5 DEF WorkerLock, Awake, Waiting
  <2> QED
    BY <2>1 DEF EnoughAwake, Awake
<1>6. ASSUME NEW w \in Worker, WorkerWait(w) PROVE EnoughAwake'
  <2>1. Len(queue') = 0
    BY <1>6, EmptySeq DEF WorkerWait, IsEmpty
  <2>2. Cardinality(Awake') \in Nat
    <3>1. IsFiniteSet(Awake')
      BY ThreadsAssumption, FS_Subset DEF Awake
    <3> QED
      BY <3>1, FS_CardinalityType
  <2> QED
    BY <2>1, <2>2 DEF EnoughAwake, Awake
<1>7. ASSUME NEW w \in Worker, SpuriousWakeup(w) \/ TaskDone(w) PROVE EnoughAwake'
  <2>1. w \in Worker \ Awake /\ Awake' = Awake \cup {w}
    BY <1>7 DEF SpuriousWakeup, TaskDone, Awake
  <2>2. Waiting' \subseteq Waiting /\ UNCHANGED queue
    BY <1>7 DEF SpuriousWakeup, TaskDone, Waiting
  <2>3. Cardinality(Awake') = Cardinality(Awake) + 1 /\ Cardinality(Awake) \in Nat
    BY <2>1, AwakeFinite
  <2>4. Waiting' # {} => Len(queue) <= Cardinality(Awake)
    BY <2>2 DEF EnoughAwake, Awake
  <2>5. Len(queue) \in Nat
    BY LenProperties
  <2>6. Waiting' # {} => Len(queue') <= Cardinality(Awake')
    BY <2>2, <2>3, <2>4, <2>5
  <2> QED
    BY <2>6 DEF EnoughAwake, Awake
<1>8. ASSUME NEW w \in Worker, WorkerPop(w) PROVE EnoughAwake'
  <2>1. Len(queue') = Len(queue) - 1 /\ Len(queue) \in Nat
    BY <1>8, PoppedFacts DEF WorkerPop, Popped, Front, IsEmpty
  <2>2. w \in Awake /\ Awake' = Awake \ {w} /\ Waiting' = Waiting
    BY <1>8 DEF WorkerPop, Awake, Waiting
  <2>3. Cardinality(Awake') = Cardinality(Awake) - 1 /\ Cardinality(Awake) \in Nat
    BY <2>2, AwakeFinite
  <2>4. Waiting # {} => Len(queue) <= Cardinality(Awake)
    BY DEF EnoughAwake, Awake
  <2>5. Waiting' # {} => Len(queue') <= Cardinality(Awake')
    BY <2>1, <2>2, <2>3, <2>4
  <2> QED
    BY <2>5 DEF EnoughAwake, Awake
<1>9. ASSUME NEW w \in Worker, ServeWork(w) PROVE EnoughAwake'
  <2>1. Awake' = Awake /\ Waiting' = Waiting /\ UNCHANGED queue
    BY <1>9 DEF ServeWork, Awake, Waiting
  <2> QED
    BY <2>1 DEF EnoughAwake, Awake
<1> QED
  BY StepCases, ServeWorkSteps, <1>1, <1>2, <1>3, <1>4, <1>5, <1>6, <1>7, <1>8, <1>9

(* A connection loses its last owner only at the end of the send loop, and the
   loop ends with an open connection only if not all of its file was sent. *)
Owned(c) == Queued(c) \/ Served(c) \/ c \in {lib, built}

(* So what is forgotten afterwards was forgotten before, or is a file that was
   cut in the loop of worker_fn. *)
LEMMA ForgottenStep ==
  ASSUME TypeOK, Control, Entrusted, EachServing, OneOwner, ForgottenIsPartial, [Next]_vars
  PROVE  ForgottenIsPartial'
<1> USE ConnAssumption DEF TypeOK, Control, Goto, pool, boss, locals, conns, clients
<1> SUFFICES ASSUME NEW c \in Conn, sock'[c] = "open", ~Owned(c)'
             PROVE  /\ sent'[c] < announced'[c] \/ announced'[c] = 0
                    /\ client'[c] = "waiting" =>
                         /\ header'[c] # NoHeader /\ header'[c].status = "OK"
                         /\ header'[c].len = announced'[c]
  BY DEF ForgottenIsPartial, Owned
<1> DEFINE Goal == /\ sent'[c] < announced'[c] \/ announced'[c] = 0
                   /\ client'[c] = "waiting" =>
                        /\ header'[c] # NoHeader /\ header'[c].status = "OK"
                        /\ header'[c].len = announced'[c]
<1>0. Same(c) /\ ~Owned(c) => Goal
  BY DEF Same, ForgottenIsPartial, Owned
<1> HIDE DEF Goal
<1>1. ASSUME UNCHANGED <<queue, task, lib, built, conns, clients>> PROVE Goal
  BY <1>0, <1>1 DEF Same, Owned, Queued, Served
<1>2. ASSUME UNCHANGED vars PROVE Goal
  BY <1>1, <1>2 DEF vars
<1>3. ASSUME NEW d \in Conn, NEW k \in Key, Accept(d, k) PROVE Goal
  <2>1. c # d /\ Same(c)
    BY <1>3 DEF Accept, Same, Owned
  <2>2. ~Owned(c)
    BY <1>3, <2>1 DEF Accept, Owned, Queued, Served
  <2> QED
    BY <1>0, <2>1, <2>2
<1>4. ASSUME NEW d \in Conn, ClientLeaves(d) PROVE Goal
  <2>1. UNCHANGED <<queue, task, lib, built, conns, header, body>>
    BY <1>4 DEF ClientLeaves
  <2>2. ~Owned(c)
    BY <2>1 DEF Owned, Queued, Served
  <2>3. client'[c] = "waiting" => client[c] = "waiting"
    BY <1>4 DEF ClientLeaves
  <2> QED
    BY <2>1, <2>2, <2>3 DEF Goal, ForgottenIsPartial, Owned
<1>5. ASSUME TakeContext PROVE Goal
  BY <1>0, <1>5 DEF TakeContext, Same, Owned, Queued, Served
<1>6. ASSUME HandlerLock PROVE Goal
  BY <1>1, <1>6 DEF HandlerLock
<1>7. ASSUME HandlerPush PROVE Goal
  <2>1. built \in Conn /\ queue' = Pushed(queue, built)
        /\ UNCHANGED <<lib, task, conns, clients>>
    BY <1>7 DEF HandlerPush
  <2>2. \A d : Occurs(queue', d) <=> d = built \/ Occurs(queue, d)
    BY <2>1, PushedOccurs DEF Pushed
  <2>3. ~Owned(c) /\ Same(c)
    BY <2>1, <2>2 DEF Owned, Queued, Served, Occurs, Same
  <2> QED
    BY <1>0, <2>3
<1>8. ASSUME HandlerReturns PROVE Goal
  BY <1>1, <1>8 DEF HandlerReturns
<1>9. ASSUME NEW w \in Worker, WorkerLock(w) \/ WorkerWait(w) \/ SpuriousWakeup(w) PROVE Goal
  BY <1>1, <1>9 DEF WorkerLock, WorkerWait, SpuriousWakeup
<1>10. ASSUME NEW w \in Worker, WorkerPop(w) PROVE Goal
  <2>1. /\ ~IsEmpty(queue) /\ queue' = Popped(queue) /\ task' = [task EXCEPT ![w] = Front(queue)]
        /\ task[w] = NoConn /\ UNCHANGED <<lib, built, conns, clients>>
    BY <1>10 DEF WorkerPop
  <2>2. \A d : Occurs(queue', d) <=> Occurs(queue, d) /\ d # Front(queue)
    BY <2>1, PoppedOccurs DEF OneOwner, Distinct, Popped, Front, IsEmpty
  <2>3. task'[w] = Front(queue) /\ \A v \in Worker : task[v] = c => task'[v] = c
    BY <2>1
  <2>4. ~Served(c) /\ c # Front(queue)
    BY <2>3 DEF Owned, Served
  <2>5. ~Queued(c)
    BY <2>2, <2>4 DEF Owned, Queued, Occurs
  <2>6. c \notin {lib, built} /\ Same(c)
    BY <2>1 DEF Owned, Same
  <2> QED
    BY <1>0, <2>4, <2>5, <2>6 DEF Owned
<1>11. ASSUME NEW w \in Worker, ServeWork(w) PROVE Goal
  <2>1. UNCHANGED <<queue, task, lib, built>>
    BY <1>11 DEF ServeWork
  <2>2. ~Owned(c) /\ c # task[w]
    BY <2>1 DEF Owned, Queued, Served
  <2> QED
    BY <1>0, <1>11, <2>2 DEF ServeWork
<1>12. ASSUME NEW w \in Worker, TaskDone(w) PROVE Goal
  <2>1. /\ UNCHANGED <<queue, lib, built, conns, clients>> /\ wpc[w] = "send"
        /\ \A v \in Worker \ {w} : task'[v] = task[v]
    BY <1>12 DEF TaskDone
  <2>2. CASE c = task[w]
    <3>1. Sending(w, c)
      BY <2>1, <2>2 DEF EachServing, Serving
    <3>2. Promised(c, fd[w]) /\ Size[fd[w]] \in Nat
      BY <3>1, FilesAssumption DEF Sending, Catalog
    <3>3. [status |-> "OK", len |-> Size[fd[w]]] \in Header
      BY <3>2 DEF Header
    <3> QED
      BY <2>1, <3>2, <3>3, HeaderAssumption DEF Goal, Promised, Header
  <2>3. CASE c # task[w]
    <3>1. ~Owned(c) /\ Same(c)
      BY <2>1, <2>3 DEF Owned, Queued, Served, Same
    <3> QED
      BY <1>0, <3>1
  <2> QED
    BY <2>2, <2>3
<1>13. Goal
  BY StepCases, ServeWorkSteps, <1>2, <1>3, <1>4, <1>5, <1>6, <1>7, <1>8, <1>9, <1>10,
     <1>11, <1>12
<1> QED
  BY <1>13 DEF Goal

----------------------------------------------------------------------------

(* Before the first request there is nothing to own and nothing to forget. *)
LEMMA InvariantInit == Init => IInv
<1> SUFFICES ASSUME Init PROVE IInv
  OBVIOUS
<1> USE ThreadsAssumption, ConnAssumption
<1>1. wpc \in [Worker -> {"lock", "missing"}]
  BY DEF Init, Created
<1>2. queue \in Seq(Conn) /\ Len(queue) = 0
  BY EmptySeq DEF Init
<1>3. TypeOK
  BY <1>1, <1>2 DEF Init, TypeOK, Label
<1>4. Control
  BY <1>1 DEF Init, Control
<1>5. \A c \in Conn : ~Queued(c) /\ ~Served(c)
  BY <1>2 DEF Init, Queued, Served
<1>6. Entrusted /\ EachServing
  BY <1>5 DEF Init, Entrusted, EachServing
<1>7. OneOwner
  BY <1>2, <1>5 DEF Init, OneOwner
<1>8. NoUseAfterFree /\ ForgottenIsPartial
  BY DEF Init, NoUseAfterFree, ForgottenIsPartial
<1>9. EnoughAwake
  BY <1>1 DEF EnoughAwake, Waiting
<1> QED
  BY <1>3, <1>4, <1>6, <1>7, <1>8, <1>9 DEF IInv

(* The invariant is inductive. *)
LEMMA InvariantStep == IInv /\ [Next]_vars => IInv'
<1> SUFFICES ASSUME IInv, [Next]_vars PROVE IInv'
  OBVIOUS
<1> USE DEF IInv
<1>1. TypeOK' /\ Control'
  BY TypeOKStep, ControlStep
<1>2. OneOwner' /\ Entrusted' /\ EachServing'
  BY OwnerStep, EntrustedStep, ServingStep
<1>3. NoUseAfterFree' /\ EnoughAwake'
  BY FaultStep, AwakeStep
<1>4. ForgottenIsPartial'
  BY ForgottenStep
<1> QED
  BY <1>1, <1>2, <1>3, <1>4

(* The invariant holds in every reachable state. *)
LEMMA Invariance == Spec => []IInv
  BY InvariantInit, InvariantStep, PTL DEF Spec

(* A connection's context has one owner at a time, on its way from the library
   to the handler, through the queue and to a worker. *)
THEOREM ContextHasOneOwner == Spec => []OneOwner
<1>1. IInv => OneOwner
  BY DEF IInv
<1> QED
  BY <1>1, Invariance, PTL

(* No worker follows a pointer into a context that the library has freed. *)
THEOREM ContextsLiveWhenUsed == Spec => []NoUseAfterFree
<1>1. IInv => NoUseAfterFree
  BY DEF IInv
<1> QED
  BY <1>1, Invariance, PTL

(* One signal for each task is enough: while a worker sleeps, every queued task
   has a worker on its way to the queue. *)
THEOREM OneSignalSuffices == Spec => []EnoughAwake
<1>1. IInv => EnoughAwake
  BY DEF IInv
<1> QED
  BY <1>1, Invariance, PTL

(* A connection that nobody is responsible for any more has got its header, and
   not all of the bytes that the header announces. *)
THEOREM NothingForgottenButCutFiles == Spec => []ForgottenIsPartial
<1>1. IInv => ForgottenIsPartial
  BY DEF IInv
<1> QED
  BY <1>1, Invariance, PTL
----------------------------------------------------------------------------
(***************************************************************************)
(* The refinement: the server implements FileService.  To see that a chunk *)
(* extends what the client has, it needs to know what that is: the file    *)
(* from its beginning, as far as the library sent it.  A client that left  *)
(* may have less, and it may have left before the header came.             *)
(***************************************************************************)

Delivered(w, c) ==
  wpc[w] = "send" /\ sock[c] = "open" =>
    /\ header[c] \in {NoHeader, [status |-> "OK", len |-> Size[fd[w]]]}
    /\ \E m \in 0..sent[c] : /\ body[c] = SubSeq(File(fd[w]), 1, m)
                             /\ client[c] = "waiting" => m = sent[c]

Bodies == body \in [Conn -> Seq(Key \X Nat)]
EachDelivered == \A w \in Worker : task[w] # NoConn => Delivered(w, task[w])

(* An open connection has a client, who may have left. *)
EachHasClient == \A c \in Conn : client[c] = "none" => sock[c] = "none"

RInv == IInv /\ Bodies /\ EachDelivered /\ EachHasClient

----------------------------------------------------------------------------

(* A file and its parts: a part that starts where another one ends extends
   it. *)
LEMMA FileParts ==
  ASSUME NEW k \in Catalog
  PROVE  /\ Size[k] \in Nat
         /\ File(k) \in Seq(Key \X Nat) /\ Len(File(k)) = Size[k]
         /\ SubSeq(File(k), 1, 0) = << >>
         /\ SubSeq(File(k), 1, Size[k]) = File(k)
         /\ \A m \in 0..Size[k] :
              /\ SubSeq(File(k), 1, m) \in Seq(Key \X Nat)
              /\ Len(SubSeq(File(k), 1, m)) = m
              /\ \A n \in m..Size[k] :
                   /\ SubSeq(File(k), m + 1, n) \in Seq(Key \X Nat)
                   /\ SubSeq(File(k), 1, m) \o SubSeq(File(k), m + 1, n)
                        = SubSeq(File(k), 1, n)
<1> DEFINE f == File(k)
           S0 == Key \X Nat
<1>1. Size[k] \in Nat /\ k \in Key
  BY FilesAssumption DEF Catalog
<1>2. \A i \in 1..Size[k] : f[i] \in S0
  BY <1>1 DEF File
<1>3. f \in Seq(S0) /\ Len(f) = Size[k]
  <2>1. f \in [1..Size[k] -> S0]
    BY <1>2 DEF File
  <2>2. f \in Seq(S0)
    BY <1>1, <2>1, SeqDef
  <2>3. Len(f) \in Nat /\ 1..Len(f) = 1..Size[k]
    BY <2>1, <2>2, LenProperties
  <2> QED
    BY <1>1, <2>2, <2>3
<1> HIDE DEF f, S0
<1>4. SubSeq(f, 1, 0) = << >>
  BY SubSeqEmpty
<1>5. SubSeq(f, 1, Size[k]) = f
  BY <1>3, SubSeqFull
<1>6. ASSUME NEW m \in 0..Size[k], NEW n \in m..Size[k]
      PROVE  /\ SubSeq(f, m + 1, n) \in Seq(S0)
             /\ SubSeq(f, 1, m) \o SubSeq(f, m + 1, n) = SubSeq(f, 1, n)
  <2>1. SubSeq(f, m + 1, n) \in Seq(S0)
    BY <1>1, <1>2, SubSeqProperties
  <2>2. m \in 1 - 1 .. Len(f) /\ n \in m .. Len(f) /\ 1 \in 1 .. Len(f) + 1
    BY <1>1, <1>3
  <2>3. SubSeq(f, 1, m) \o SubSeq(f, m + 1, n) = SubSeq(f, 1, n)
    BY <1>3, <2>2, ConcatAdjacentSubSeq
  <2> QED
    BY <2>1, <2>3
<1>7. ASSUME NEW m \in 0..Size[k]
      PROVE  SubSeq(f, 1, m) \in Seq(S0) /\ Len(SubSeq(f, 1, m)) = m
  BY <1>1, <1>2, SubSeqProperties
<1> QED
  BY <1>1, <1>3, <1>4, <1>5, <1>6, <1>7 DEF f, S0

(* Every step of the server itself happens while the process lives. *)
LEMMA Alive ==
  ASSUME [Next]_vars
  PROVE  up = TRUE \/ UNCHANGED vars
  BY DEF Next, Dead

(* What the client receives is a part of a file, or nothing. *)
LEMMA ReceivesBodies ==
  ASSUME TypeOK, Bodies, NEW c \in Conn, NEW h, NEW bytes \in Seq(Key \X Nat),
         Receives(c, h, bytes)
  PROVE  Bodies'
<1>1. body[c] \o bytes \in Seq(Key \X Nat)
  BY ConcatProperties DEF Bodies
<1> QED
  BY <1>1 DEF Bodies, Receives

(* A step that writes to nobody leaves what the clients have, and a new
   request starts from nothing. *)
LEMMA BodiesStep ==
  ASSUME IInv, Bodies, [Next]_vars
  PROVE  Bodies'
<1> USE DEF IInv, Bodies, pool, boss, locals, conns, clients
<1>0. << >> \in Seq(Key \X Nat)
  BY EmptySeq
<1>1. CASE UNCHANGED body
  BY <1>1
<1>2. ASSUME NEW c \in Conn, NEW k \in Key, Accept(c, k) PROVE Bodies'
  BY <1>0, <1>2 DEF Accept
<1>3. ASSUME NEW w \in Worker, NEW status, Refuse(w, status),
             wpc[w] \in {"lookup", "stat"}
      PROVE  Bodies'
  <2>1. Receives(task[w], [status |-> status, len |-> 0], << >>) /\ task[w] \in Conn
    BY <1>3, BusyHasTask DEF Refuse
  <2> QED
    BY <1>0, <2>1, ReceivesBodies
<1>4. ASSUME NEW w \in Worker, Lookup(w) PROVE Bodies'
  <2>1. CASE path[task[w]] \in Catalog
    BY <1>4, <2>1 DEF Lookup
  <2>2. CASE path[task[w]] \notin Catalog
    BY <1>3, <1>4, <2>2 DEF Lookup
  <2> QED
    BY <2>1, <2>2
<1>5. ASSUME NEW w \in Worker, SendHeader(w) PROVE Bodies'
  <2>1. task[w] \in Conn
    BY <1>5, BusyHasTask DEF SendHeader
  <2>2. Receives(task[w], [status |-> "OK", len |-> Size[fd[w]]], << >>)
    BY <1>5 DEF SendHeader
  <2> QED
    BY <1>0, <2>1, <2>2, ReceivesBodies
<1>6. ASSUME NEW w \in Worker, StatFails(w) PROVE Bodies'
  BY <1>3, <1>6 DEF StatFails
<1>7. ASSUME NEW w \in Worker, SendChunk(w) PROVE Bodies'
  <2> DEFINE k == fd[w]
  <2>1. task[w] \in Conn /\ task[w] # NoConn /\ wpc[w] = "send" /\ offset[w] < size[w]
    BY <1>7, BusyHasTask DEF SendChunk
  <2>2. Sending(w, task[w])
    BY <2>1 DEF EachServing, Serving, TypeOK
  <2>3. PICK n \in 1..Buffer :
          /\ offset[w] + n <= size[w]
          /\ Receives(task[w], header[task[w]],
                      SubSeq(File(k), offset[w] + 1, offset[w] + n))
    BY <1>7 DEF SendChunk
  <2>4. k \in Catalog /\ size[w] = Size[k] /\ offset[w] \in Nat /\ n \in Nat
    BY <2>1, <2>2, <2>3, FilesAssumption DEF Sending, TypeOK
  <2>5. offset[w] \in 0..Size[k] /\ offset[w] + n \in offset[w]..Size[k]
    BY <2>1, <2>3, <2>4, FileParts
  <2>6. SubSeq(File(k), offset[w] + 1, offset[w] + n) \in Seq(Key \X Nat)
    BY <2>4, <2>5, FileParts
  <2> QED
    BY <2>1, <2>3, <2>6, ReceivesBodies
<1>8. ASSUME NEW c \in Conn, ClientLeaves(c) PROVE Bodies'
  BY <1>1, <1>8 DEF ClientLeaves
<1>9. CASE TakeContext \/ HandlerLock \/ HandlerPush \/ HandlerReturns
  BY <1>1, <1>9 DEF TakeContext, HandlerLock, HandlerPush, HandlerReturns
<1>10. ASSUME NEW w \in Worker, \/ WorkerLock(w) \/ WorkerWait(w) \/ SpuriousWakeup(w)
                                \/ WorkerPop(w) \/ Drain(w) \/ TaskDone(w)
       PROVE  Bodies'
  BY <1>1, <1>10 DEF WorkerLock, WorkerWait, SpuriousWakeup, WorkerPop, Drain, TaskDone
<1>11. CASE UNCHANGED vars
  BY <1>1, <1>11 DEF vars
<1> QED
  BY StepCases, <1>2, <1>4, <1>5, <1>6, <1>7, <1>8, <1>9, <1>10, <1>11

(* A chunk, seen from its client: the next bytes of the announced file for a
   client that waits, and nothing for one that has left before the end. *)
ChunkArrives(w, c, k) ==
  \E m \in 0..sent[c] : \E n \in Nat \ {0} :
    /\ body[c] = SubSeq(File(k), 1, m) /\ m < Size[k]
    /\ sent[c] <= sent'[c]
    /\ \/ /\ client[c] = "waiting" /\ header[c] = [status |-> "OK", len |-> Size[k]]
          /\ sent'[c] = m + n /\ m + n <= Size[k]
          /\ body' = [body EXCEPT ![c] = SubSeq(File(k), 1, m + n)]
          /\ UNCHANGED up
       \/ /\ client[c] # "waiting"
          /\ UNCHANGED body

(* gfs_send in the loop of worker_fn does just that. *)
LEMMA ChunkSeen ==
  ASSUME IInv, Bodies, EachDelivered, NEW w \in Worker, SendChunk(w)
  PROVE  /\ task[w] \in Conn /\ fd[w] \in Catalog
         /\ sock[task[w]] = "open" /\ path[task[w]] = fd[w]
         /\ header[task[w]] \in {NoHeader, [status |-> "OK", len |-> Size[fd[w]]]}
         /\ UNCHANGED <<task, fd, sock, path, client, header>>
         /\ ChunkArrives(w, task[w], fd[w])
<1> USE DEF IInv, TypeOK, pool, boss
<1> DEFINE c == task[w]
           k == fd[w]
<1>1. c \in Conn /\ c # NoConn /\ wpc[w] = "send" /\ offset[w] < size[w]
  BY BusyHasTask DEF SendChunk
<1>2. sock[c] = "open" /\ Sending(w, c) /\ Delivered(w, c)
  BY <1>1 DEF EachServing, EachDelivered, Serving
<1>3. PICK n \in 1..Buffer :
        /\ offset[w] + n <= size[w]
        /\ Receives(c, header[c], SubSeq(File(k), offset[w] + 1, offset[w] + n))
        /\ \/ sent' = [sent EXCEPT ![c] = @ + n]
           \/ client[c] = "left" /\ UNCHANGED sent
  BY DEF SendChunk
<1>4. n \in Nat \ {0}
  BY <1>3, FilesAssumption
<1>5. UNCHANGED <<task, fd, sock, path, client>>
  BY DEF SendChunk
<1>6. UNCHANGED header
  BY <1>1, <1>3 DEF Receives
<1>7. PICK m \in 0..sent[c] : /\ body[c] = SubSeq(File(k), 1, m)
                              /\ client[c] = "waiting" => m = sent[c]
  BY <1>1, <1>2 DEF Delivered
<1>8. /\ k \in Catalog /\ path[c] = k /\ size[w] = Size[k] /\ Size[k] \in Nat
      /\ offset[w] \in Nat /\ sent[c] \in Nat /\ m \in Nat
      /\ sent[c] <= offset[w]
      /\ client[c] = "waiting" => sent[c] = offset[w]
  BY <1>1, <1>2, <1>7, FileParts DEF Sending
<1>9. m < Size[k] /\ sent[c] <= sent'[c]
  BY <1>1, <1>3, <1>4, <1>7, <1>8
<1>10. CASE client[c] = "waiting"
  <2>1. m = offset[w] /\ m + n <= Size[k] /\ sent'[c] = m + n
    BY <1>1, <1>3, <1>4, <1>7, <1>8, <1>10
  <2>2. header[c] = [status |-> "OK", len |-> Size[k]]
    BY <1>2, <1>10 DEF Sending, Promised
  <2>3. body' = [body EXCEPT ![c] = @ \o SubSeq(File(k), m + 1, m + n)] /\ UNCHANGED up
    BY <1>3, <1>10, <2>1 DEF Receives
  <2>4. m \in 0..Size[k] /\ m + n \in m..Size[k]
    BY <1>4, <1>8, <2>1
  <2>5. body[c] \o SubSeq(File(k), m + 1, m + n) = SubSeq(File(k), 1, m + n)
    BY <1>7, <1>8, <2>4, FileParts
  <2>6. body' = [body EXCEPT ![c] = SubSeq(File(k), 1, m + n)]
    BY <1>1, <2>3, <2>5 DEF Bodies
  <2>7. ChunkArrives(w, c, k)
    BY <1>4, <1>7, <1>9, <1>10, <2>1, <2>2, <2>3, <2>6 DEF ChunkArrives
  <2> QED
    BY <1>1, <1>2, <1>5, <1>6, <1>8, <2>7 DEF Delivered
<1>11. CASE client[c] # "waiting"
  <2>1. UNCHANGED body
    BY <1>3, <1>11 DEF Receives
  <2>2. ChunkArrives(w, c, k)
    BY <1>4, <1>7, <1>9, <1>11, <2>1 DEF ChunkArrives
  <2> QED
    BY <1>1, <1>2, <1>5, <1>6, <1>8, <2>2 DEF Delivered
<1> QED
  BY <1>10, <1>11

(* After the header the client has the first 0 bytes of its file. *)
LEMMA HeaderDelivers ==
  ASSUME IInv, Bodies, NEW w \in Worker, SendHeader(w)
  PROVE  Delivered(w, task[w])'
<1> DEFINE c == task[w]
           k == fd[w]
<1>1. c \in Conn /\ c # NoConn /\ wpc[w] = "stat"
  BY BusyHasTask DEF SendHeader, IInv
<1>2. Fresh(c) /\ k \in Catalog
  BY <1>1 DEF EachServing, Serving, IInv
<1>3. UNCHANGED <<task, fd, client>> /\ sent'[c] = 0
  BY <1>1 DEF SendHeader, IInv, TypeOK
<1>4. Receives(c, [status |-> "OK", len |-> Size[k]], << >>)
  BY DEF SendHeader
<1>5. header'[c] \in {NoHeader, [status |-> "OK", len |-> Size[k]]}
  BY <1>1, <1>2, <1>4 DEF Receives, Fresh, IInv, TypeOK
<1>6. body'[c] = body[c] \o << >> \/ body'[c] = body[c]
  BY <1>1, <1>4 DEF Receives, Bodies
<1>7. body[c] = << >> /\ body[c] \in Seq(Key \X Nat)
  BY <1>1, <1>2 DEF Fresh, Bodies
<1>8. body'[c] = << >>
  BY <1>6, <1>7, ConcatEmptySeq
<1>9. body'[c] = SubSeq(File(k), 1, 0)
  BY <1>2, <1>8, FileParts
<1> QED
  BY <1>3, <1>5, <1>9 DEF Delivered, File

(* Each chunk extends what the client has by what the library counts. *)
LEMMA ChunkDelivers ==
  ASSUME IInv, Bodies, EachDelivered, NEW w \in Worker, SendChunk(w), TypeOK'
  PROVE  Delivered(w, task[w])'
<1> DEFINE c == task[w]
           k == fd[w]
<1>1. c \in Conn /\ k \in Catalog
      /\ header[c] \in {NoHeader, [status |-> "OK", len |-> Size[k]]}
      /\ UNCHANGED <<task, fd, sock, path, client, header>>
      /\ ChunkArrives(w, c, k)
  BY ChunkSeen
<1>2. sent[c] \in Nat /\ sent'[c] \in Nat
  BY <1>1 DEF IInv, TypeOK
<1>3. body[c] \in Seq(Key \X Nat)
  BY <1>1 DEF Bodies
<1>4. PICK m \in 0..sent[c], n \in Nat \ {0} :
        /\ body[c] = SubSeq(File(k), 1, m) /\ m < Size[k]
        /\ sent[c] <= sent'[c]
        /\ \/ /\ client[c] = "waiting" /\ header[c] = [status |-> "OK", len |-> Size[k]]
              /\ sent'[c] = m + n /\ m + n <= Size[k]
              /\ body' = [body EXCEPT ![c] = SubSeq(File(k), 1, m + n)]
              /\ UNCHANGED up
           \/ /\ client[c] # "waiting"
              /\ UNCHANGED body
  BY <1>1, Zenon DEF ChunkArrives
<1>5. \E l \in 0..sent'[c] : /\ body'[c] = SubSeq(File(k), 1, l)
                             /\ client[c] = "waiting" => l = sent'[c]
  <2>1. CASE sent'[c] = m + n /\ body' = [body EXCEPT ![c] = SubSeq(File(k), 1, m + n)]
    <3>1. m + n \in 0..sent'[c]
      BY <1>2, <2>1
    <3>2. body'[c] = SubSeq(File(k), 1, m + n)
      BY <1>1, <2>1 DEF Bodies
    <3> QED
      BY <2>1, <3>1, <3>2
  <2>2. CASE client[c] # "waiting" /\ UNCHANGED body
    <3>1. m \in 0..sent'[c] /\ body'[c] = SubSeq(File(k), 1, m)
      BY <1>2, <1>4, <2>2
    <3> QED
      BY <2>2, <3>1
  <2> QED
    BY <1>4, <2>1, <2>2
<1> QED
  BY <1>1, <1>5 DEF Delivered, File

(* The clause is about the worker's place and file and about its connection. *)
LEMMA DeliveredKept ==
  ASSUME NEW w \in Worker, NEW c \in Conn, Delivered(w, c), task'[w] = c,
         wpc'[w] = wpc[w], fd'[w] = fd[w], Same(c)
  PROVE  Delivered(w, task[w])'
<1>1. /\ sock'[c] = sock[c] /\ sent'[c] = sent[c] /\ header'[c] = header[c]
      /\ body'[c] = body[c] /\ client'[c] = client[c]
  BY DEF Same
<1> QED
  BY <1>1 DEF Delivered, File

(* The steps of others do not touch the worker's connection. *)
LEMMA DeliveredStep ==
  ASSUME IInv, Bodies, EachDelivered, [Next]_vars
  PROVE  EachDelivered'
<1> USE ConnAssumption DEF IInv, TypeOK, Goto, Label, pool, boss, locals, conns, clients
<1> SUFFICES ASSUME NEW v \in Worker, task'[v] # NoConn PROVE Delivered(v, task[v])'
  BY DEF EachDelivered
<1> DEFINE c == task[v]
<1>0. ASSUME task'[v] = c, wpc'[v] = wpc[v], fd'[v] = fd[v], c \in Conn => Same(c)
      PROVE  Delivered(v, task[v])'
  BY <1>0, DeliveredKept DEF EachDelivered
<1>1. ASSUME UNCHANGED <<wpc, task, locals, conns, clients>> PROVE Delivered(v, task[v])'
  BY <1>0, <1>1 DEF Same
<1>2. ASSUME wpc'[v] # "send" PROVE Delivered(v, task[v])'
  BY <1>2 DEF Delivered
<1>3. ASSUME NEW d \in Conn, NEW k \in Key, Accept(d, k) PROVE Delivered(v, task[v])'
  <2>1. c # d
    BY <1>3 DEF Accept, Range
  <2>2. c \in Conn => Same(c)
    BY <1>3, <2>1 DEF Accept, Same
  <2> QED
    BY <1>0, <1>3, <2>2 DEF Accept
<1>4. ASSUME NEW d \in Conn, ClientLeaves(d) PROVE Delivered(v, task[v])'
  <2>1. UNCHANGED <<wpc, task, fd, sock, sent, header, body>>
    BY <1>4 DEF ClientLeaves
  <2>2. c \in Conn /\ Delivered(v, c)
    BY <2>1 DEF EachDelivered
  <2>3. client'[c] = "waiting" => client[c] = "waiting"
    BY <1>4, <2>2 DEF ClientLeaves
  <2> QED
    BY <2>1, <2>2, <2>3 DEF Delivered, File
<1>5. CASE TakeContext \/ HandlerLock \/ HandlerReturns
  <2>1. UNCHANGED <<wpc, task, locals, sock, sent, clients>>
    BY <1>5 DEF TakeContext, HandlerLock, HandlerReturns
  <2>2. Delivered(v, c)
    BY <2>1 DEF EachDelivered
  <2> QED
    BY <2>1, <2>2 DEF Delivered, File
<1>6. CASE HandlerPush
  <2>1. \/ wpc'[v] = wpc[v]
        \/ wpc[v] = "waiting" /\ wpc'[v] = "lock"
    BY <1>6 DEF HandlerPush, Signal, Waiting
  <2>2. UNCHANGED <<task, locals, conns, clients>>
    BY <1>6 DEF HandlerPush
  <2> QED
    BY <1>0, <1>2, <2>1, <2>2 DEF Same
<1>7. ASSUME NEW w \in Worker,
             WorkerLock(w) \/ WorkerWait(w) \/ SpuriousWakeup(w) \/ WorkerPop(w) \/ TaskDone(w)
      PROVE  Delivered(v, task[v])'
  <2>1. UNCHANGED <<conns, clients>> /\ wpc'[w] # "send"
    BY <1>7 DEF WorkerLock, WorkerWait, SpuriousWakeup, WorkerPop, TaskDone
  <2>2. v # w => task'[v] = c /\ wpc'[v] = wpc[v] /\ fd'[v] = fd[v]
    BY <1>7 DEF WorkerLock, WorkerWait, SpuriousWakeup, WorkerPop, TaskDone
  <2> QED
    BY <1>0, <1>2, <2>1, <2>2 DEF Same
<1>8. ASSUME NEW w \in Worker, v # w, ServeWork(w) PROVE Delivered(v, task[v])'
  <2>1. task'[v] = c /\ wpc'[v] = wpc[v] /\ fd'[v] = fd[v]
    BY <1>8 DEF ServeWork
  <2>2. c # task[w]
    BY <1>8, <2>1 DEF OneOwner
  <2> QED
    BY <1>0, <1>8, <2>1, <2>2 DEF ServeWork
<1>9. CASE Lookup(v) \/ StatFails(v)
  <2>1. wpc'[v] # "send"
    BY <1>9 DEF Lookup, StatFails, Refuse
  <2> QED
    BY <1>2, <2>1
<1>10. CASE SendHeader(v)
  BY <1>10, HeaderDelivers
<1>11. CASE SendChunk(v)
  BY <1>11, ChunkDelivers, TypeOKStep
<1>12. CASE Drain(v)
  <2>1. c \in Conn /\ task'[v] = c /\ sock'[c] = "closed"
    BY <1>12, BusyHasTask DEF Drain
  <2> QED
    BY <2>1 DEF Delivered
<1>13. CASE UNCHANGED vars
  BY <1>1, <1>13 DEF vars
<1>14. ASSUME NEW w \in Worker,
              Lookup(w) \/ SendHeader(w) \/ StatFails(w) \/ SendChunk(w) \/ Drain(w)
       PROVE  Delivered(v, task[v])'
  BY <1>8, <1>9, <1>10, <1>11, <1>12, <1>14, ServeWorkSteps
<1> QED
  BY StepCases, <1>3, <1>4, <1>5, <1>6, <1>7, <1>13, <1>14

(* The library closes only connections that it has accepted. *)
LEMMA HasClientStep ==
  ASSUME IInv, EachHasClient, [Next]_vars
  PROVE  EachHasClient'
<1> USE DEF EachHasClient, pool, boss, locals, conns, clients
<1>0. UNCHANGED <<client, sock>> => EachHasClient'
  OBVIOUS
<1>1. ASSUME NEW c \in Conn, NEW k \in Key, Accept(c, k) PROVE EachHasClient'
  BY <1>1 DEF Accept, IInv, TypeOK
<1>2. ASSUME NEW c \in Conn, ClientLeaves(c) PROVE EachHasClient'
  BY <1>2 DEF ClientLeaves, IInv, TypeOK
<1>3. ASSUME NEW w \in Worker, Drain(w) PROVE EachHasClient'
  <2>1. client[task[w]] = "left" /\ UNCHANGED client
    BY <1>3 DEF Drain
  <2> QED
    BY <1>3, <2>1 DEF Drain, IInv, TypeOK
<1>4. ASSUME NEW w \in Worker, Lookup(w) PROVE EachHasClient'
  BY <1>0, <1>4 DEF Lookup, Refuse
<1>5. ASSUME NEW w \in Worker, SendHeader(w) \/ StatFails(w) \/ SendChunk(w)
      PROVE  EachHasClient'
  BY <1>0, <1>5 DEF SendHeader, StatFails, SendChunk, Refuse
<1>6. CASE TakeContext \/ HandlerLock \/ HandlerPush \/ HandlerReturns
  BY <1>0, <1>6 DEF TakeContext, HandlerLock, HandlerPush, HandlerReturns
<1>7. ASSUME NEW w \in Worker,
             WorkerLock(w) \/ WorkerWait(w) \/ SpuriousWakeup(w) \/ WorkerPop(w) \/ TaskDone(w)
      PROVE  EachHasClient'
  BY <1>0, <1>7 DEF WorkerLock, WorkerWait, SpuriousWakeup, WorkerPop, TaskDone
<1>8. CASE UNCHANGED vars
  BY <1>0, <1>8 DEF vars
<1> QED
  BY StepCases, <1>1, <1>2, <1>3, <1>4, <1>5, <1>6, <1>7, <1>8

----------------------------------------------------------------------------

(* The strengthened invariant holds in every reachable state. *)
LEMMA RefinementInvariance == Spec => []RInv
<1>1. Init => Bodies /\ EachDelivered /\ EachHasClient
  <2>1. << >> \in Seq(Key \X Nat)
    BY EmptySeq
  <2> QED
    BY <2>1 DEF Init, Bodies, EachDelivered, EachHasClient
<1>2. IInv /\ Bodies /\ EachDelivered /\ [Next]_vars => Bodies' /\ EachDelivered'
  BY BodiesStep, DeliveredStep
<1>3. IInv /\ EachHasClient /\ [Next]_vars => EachHasClient'
  BY HasClientStep
<1> QED
  BY <1>1, <1>2, <1>3, InvariantInit, InvariantStep, PTL DEF Spec, RInv

(* The abstract service does not see the server's own variables. *)
LEMMA Unseen ==
  ASSUME UNCHANGED <<sock, path, client, header, body, up>>
  PROVE  UNCHANGED S!vars
  BY DEF S!vars

(* A header for the first time, or nothing and perhaps the end of the process
   if the client has left: what the abstract service may do to a request that
   has no answer. *)
LEMMA HeaderSeen ==
  ASSUME RInv, up = TRUE, NEW c \in Conn, Fresh(c), NEW h,
         h \in S!Refusals(path[c]) \/ (path[c] \in Catalog /\ h = S!OKHeader(path[c])),
         client[c] # "none", Receives(c, h, << >>),
         UNCHANGED <<sock, path, client>>
  PROVE  [S!Next]_(S!vars)
<1> USE DEF RInv, IInv
<1>1. c \in Conn /\ header \in [Conn -> Header \cup {NoHeader}] /\ client[c] \in {"waiting", "left"}
  BY DEF TypeOK
<1>2. sock[c] = "open" /\ header[c] = NoHeader /\ body[c] = << >>
  BY DEF Fresh
<1>3. CASE client[c] = "waiting"
  <2>1. header' = [header EXCEPT ![c] = h] /\ UNCHANGED up
    BY <1>3 DEF Receives
  <2>2. UNCHANGED body
    <3>1. body' = [body EXCEPT ![c] = body[c] \o << >>]
      BY <1>3 DEF Receives
    <3>2. body[c] \o << >> = body[c]
      BY <1>2, ConcatEmptySeq DEF Bodies
    <3> QED
      BY <3>1, <3>2 DEF Bodies
  <2>3. S!Answer(c)
    BY <1>2, <1>3, <2>1, <2>2 DEF S!Answer, S!Catalog, Catalog
  <2> QED
    BY <1>1, <2>3 DEF S!Next
<1>4. CASE client[c] = "left"
  <2>1. UNCHANGED <<header, body>> /\ up' \in BOOLEAN
    BY <1>4 DEF Receives
  <2>2. CASE up' = TRUE
    BY <2>1, <2>2, Unseen
  <2>3. CASE up' = FALSE
    <3>1. ~S!Answered(c)
      <4>1. NoHeader \notin S!Refusals(path[c])
        BY HeaderAssumption DEF S!Refusals, S!ErrorHeader
      <4>2. ASSUME path[c] \in Catalog PROVE NoHeader # S!OKHeader(path[c])
        BY <4>2, HeaderAssumption, FilesAssumption DEF S!OKHeader, Catalog
      <4> QED
        BY <1>2, <4>1, <4>2 DEF S!Answered, S!Catalog, Catalog
    <3>2. S!Die
      BY <1>1, <1>2, <1>4, <2>1, <2>3, <3>1 DEF S!Die
    <3> QED
      BY <3>2 DEF S!Next
  <2> QED
    BY <2>1, <2>2, <2>3
<1> QED
  BY <1>1, <1>3, <1>4

(* A refusal is such a header. *)
LEMMA RefusalSeen ==
  ASSUME RInv, up = TRUE, NEW w \in Worker, NEW status, Refuse(w, status), UNCHANGED client,
         task[w] \in Conn, Fresh(task[w]), client[task[w]] # "none",
         [status |-> status, len |-> 0] \in S!Refusals(path[task[w]])
  PROVE  [S!Next]_(S!vars)
<1>1. UNCHANGED <<sock, path, client>>
  BY DEF Refuse, conns
<1>2. Receives(task[w], [status |-> status, len |-> 0], << >>)
  BY DEF Refuse
<1> QED
  BY <1>1, <1>2, HeaderSeen

(* A chunk extends what a waiting client has; one for a client that left before
   the end of the file is lost and may end the process. *)
LEMMA ChunkRefines ==
  ASSUME RInv, up = TRUE, NEW w \in Worker, SendChunk(w)
  PROVE  [S!Next]_(S!vars)
<1> USE DEF RInv, IInv
<1> DEFINE c == task[w]
           k == fd[w]
<1>1. /\ c \in Conn /\ k \in Catalog /\ sock[c] = "open" /\ path[c] = k
      /\ header[c] \in {NoHeader, [status |-> "OK", len |-> Size[k]]}
      /\ UNCHANGED <<task, fd, sock, path, client, header>>
      /\ ChunkArrives(w, c, k)
  BY ChunkSeen
<1>2. up' \in BOOLEAN /\ Size[k] \in Nat /\ sent[c] \in Nat
  BY <1>1, FileParts DEF SendChunk, Receives, TypeOK
<1>3. PICK m \in 0..sent[c], n \in Nat \ {0} :
        /\ body[c] = SubSeq(File(k), 1, m) /\ m < Size[k]
        /\ sent[c] <= sent'[c]
        /\ \/ /\ client[c] = "waiting" /\ header[c] = [status |-> "OK", len |-> Size[k]]
              /\ sent'[c] = m + n /\ m + n <= Size[k]
              /\ body' = [body EXCEPT ![c] = SubSeq(File(k), 1, m + n)]
              /\ UNCHANGED up
           \/ /\ client[c] # "waiting"
              /\ UNCHANGED body
  BY <1>1, Zenon DEF ChunkArrives
<1>4. m \in Nat /\ m \in 0..Size[k] /\ Len(body[c]) = m
  BY <1>1, <1>2, <1>3, FileParts
<1>5. CASE client[c] = "waiting"
  <2>1. m + n \in Len(body[c]) + 1 .. Size[k]
    BY <1>2, <1>3, <1>4, <1>5
  <2>2. S!File(k) = File(k)
    BY DEF S!File, File
  <2>3. S!Answer(c)
    BY <1>1, <1>3, <1>5, <2>1, <2>2 DEF S!Answer, S!OKHeader, S!Catalog, Catalog
  <2> QED
    BY <1>1, <2>3 DEF S!Next
<1>6. CASE client[c] # "waiting"
  <2>1. UNCHANGED <<header, body, sock, path, client>>
    BY <1>1, <1>3, <1>6
  <2>2. CASE up' = TRUE
    BY <2>1, <2>2, Unseen
  <2>3. CASE up' = FALSE
    <3>1. client[c] = "left"
      BY <1>1, <1>6 DEF EachHasClient, TypeOK
    <3>2. body[c] # File(k)
      BY <1>1, <1>3, <1>4, FileParts
    <3>3. header[c] \notin S!Refusals(k)
      <4>1. \A h \in S!Refusals(k) : h.status # "OK" /\ h \in Header
        BY DEF S!Refusals, S!ErrorHeader, Header
      <4>2. NoHeader \notin Header
        BY HeaderAssumption DEF Header
      <4> QED
        BY <1>1, <4>1, <4>2
    <3>4. ~S!Answered(c)
      BY <1>1, <3>2, <3>3 DEF S!Answered, S!File, File
    <3>5. S!Die
      BY <1>1, <2>1, <2>3, <3>1, <3>4 DEF S!Die
    <3> QED
      BY <3>5 DEF S!Next
  <2> QED
    BY <1>2, <2>1, <2>2, <2>3
<1> QED
  BY <1>5, <1>6

(* Every step of the server is a step of the service, or the service does not
   see it. *)
LEMMA StepRefines ==
  ASSUME RInv, [Next]_vars
  PROVE  [S!Next]_(S!vars)
<1> USE DEF RInv, IInv, pool, boss, locals, conns, clients
<1>1. CASE UNCHANGED vars
  BY <1>1, Unseen DEF vars
<1>2. ASSUME NEW c \in Conn, NEW k \in Key, Accept(c, k), up = TRUE PROVE [S!Next]_(S!vars)
  <2>1. S!Ask(c, k)
    BY <1>2 DEF Accept, S!Ask
  <2> QED
    BY <2>1 DEF S!Next
<1>3. ASSUME NEW c \in Conn, ClientLeaves(c) PROVE [S!Next]_(S!vars)
  <2>1. S!Leave(c)
    BY <1>3 DEF ClientLeaves, S!Leave
  <2> QED
    BY <2>1 DEF S!Next
<1>4. CASE TakeContext \/ HandlerLock \/ HandlerPush \/ HandlerReturns
  BY <1>4, Unseen DEF TakeContext, HandlerLock, HandlerPush, HandlerReturns
<1>5. ASSUME NEW w \in Worker,
             WorkerLock(w) \/ WorkerWait(w) \/ SpuriousWakeup(w) \/ WorkerPop(w) \/ TaskDone(w)
      PROVE  [S!Next]_(S!vars)
  BY <1>5, Unseen DEF WorkerLock, WorkerWait, SpuriousWakeup, WorkerPop, TaskDone
<1>6. ASSUME NEW w \in Worker, wpc[w] \in {"lookup", "stat"}
      PROVE  /\ task[w] \in Conn /\ Fresh(task[w]) /\ client[task[w]] # "none"
             /\ wpc[w] = "stat" => path[task[w]] = fd[w] /\ fd[w] \in Catalog
  <2>1. task[w] \in Conn /\ task[w] # NoConn
    BY <1>6, BusyHasTask
  <2> QED
    BY <1>6, <2>1 DEF EachServing, Serving, EachHasClient, Fresh
<1>7. ASSUME NEW w \in Worker, NEW status, Refuse(w, status), up = TRUE, UNCHANGED client,
             wpc[w] \in {"lookup", "stat"},
             [status |-> status, len |-> 0] \in S!Refusals(path[task[w]])
      PROVE  [S!Next]_(S!vars)
  BY <1>6, <1>7, RefusalSeen
<1>8. ASSUME NEW w \in Worker, Lookup(w), up = TRUE PROVE [S!Next]_(S!vars)
  <2>1. CASE path[task[w]] \in Catalog
    BY <1>8, <2>1, Unseen DEF Lookup
  <2>2. CASE path[task[w]] \notin Catalog
    <3>1. [status |-> "FILE_NOT_FOUND", len |-> 0] \in S!Refusals(path[task[w]])
      BY <2>2 DEF S!Refusals, S!ErrorHeader, S!Catalog, Catalog
    <3>2. Refuse(w, "FILE_NOT_FOUND") /\ wpc[w] = "lookup" /\ UNCHANGED client
      BY <1>8, <2>2 DEF Lookup
    <3> QED
      BY <1>7, <1>8, <3>1, <3>2
  <2> QED
    BY <2>1, <2>2
<1>9. ASSUME NEW w \in Worker, SendHeader(w), up = TRUE PROVE [S!Next]_(S!vars)
  <2>1. /\ wpc[w] = "stat" /\ UNCHANGED <<sock, path, client>>
        /\ Receives(task[w], [status |-> "OK", len |-> Size[fd[w]]], << >>)
    BY <1>9 DEF SendHeader
  <2>2. [status |-> "OK", len |-> Size[fd[w]]] = S!OKHeader(path[task[w]])
    BY <1>6, <2>1 DEF S!OKHeader
  <2> QED
    BY <1>6, <1>9, <2>1, <2>2, HeaderSeen
<1>10. ASSUME NEW w \in Worker, StatFails(w), up = TRUE PROVE [S!Next]_(S!vars)
  <2>1. wpc[w] = "stat" /\ Refuse(w, "ERROR") /\ UNCHANGED client
    BY <1>10 DEF StatFails
  <2>2. [status |-> "ERROR", len |-> 0] \in S!Refusals(path[task[w]])
    BY <1>6, <2>1 DEF S!Refusals, S!ErrorHeader, S!Catalog, Catalog
  <2> QED
    BY <1>7, <1>10, <2>1, <2>2
<1>11. ASSUME NEW w \in Worker, SendChunk(w), up = TRUE PROVE [S!Next]_(S!vars)
  BY <1>11, ChunkRefines
<1>12. ASSUME NEW w \in Worker, Drain(w), up = TRUE PROVE [S!Next]_(S!vars)
  <2>1. wpc[w] = "drain" /\ task[w] \in Conn /\ task[w] # NoConn
    BY <1>12, BusyHasTask DEF Drain
  <2>2. sock[task[w]] = "open"
    BY <2>1 DEF EachServing, Serving
  <2>3. S!Close(task[w])
    BY <1>12, <2>2 DEF Drain, S!Close
  <2> QED
    BY <2>1, <2>3 DEF S!Next
<1> QED
  BY StepCases, Alive, <1>1, <1>2, <1>3, <1>4, <1>5, <1>8, <1>9, <1>10, <1>11, <1>12

(* Seen from its clients the server is the abstract file service: every request
   gets one true header, a file arrives from its beginning, and the server
   closes only after the client. *)
THEOREM ServerImplementsService == Spec => ImplementsFileService
<1>1. Init => S!Init
  BY DEF Init, S!Init
<1>2. RInv /\ [Next]_vars => [S!Next]_(S!vars)
  BY StepRefines
<1> QED
  BY <1>1, <1>2, RefinementInvariance, PTL DEF Spec, ImplementsFileService, S!Spec
=============================================================================
