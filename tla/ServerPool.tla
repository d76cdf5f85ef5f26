----------------------------- MODULE ServerPool ------------------------------
(***************************************************************************)
(* The multithreaded server, mtgf/handler.c and mtgf/gfserver_main.c: the  *)
(* boss thread sits in gfserver_serve and calls gfs_handler for every      *)
(* request; the handler takes the connection's context away from the       *)
(* library and queues it; a worker pops it, looks the path up, and sends   *)
(* the header and the file.                                                *)
(*                                                                         *)
(* The library gfserver.o is outside src/.  What the code relies on is     *)
(* modelled: the context is one allocation that also holds the path; a     *)
(* header other than OK, and the last byte of an announced file, make the  *)
(* library wait for the client to close, close the socket and free the     *)
(* context; a context the handler did not take is freed after the handler. *)
(* A write to a client that has left is lost, fails, or raises SIGPIPE,    *)
(* which nothing in the program catches.                                   *)
(***************************************************************************)
EXTENDS Integers, FiniteSets, Functions, StequeOps

CONSTANTS Worker,      \* the threads of handler_pool_init
          Boss,        \* the thread that runs main and gfserver_serve
          NoThread,    \* nobody: the mutex is free
          Conn,        \* connections; one is used again once it is over
          NoConn,      \* the null context
          Key,         \* the paths that are asked for
          NoKey,       \* no path, no file
          Size,        \* st_size of every file in the content table
          Buffer,      \* sizeof(buffer) in worker_fn
          NoHeader,    \* no header has been sent
          Troubles     \* which of "create", "read", "stat", "leave" may happen

ASSUME ThreadsAssumption ==
         /\ IsFiniteSet(Worker) /\ Worker # {}
         /\ Boss \notin Worker /\ NoThread \notin Worker /\ Boss # NoThread
ASSUME ConnAssumption == IsFiniteSet(Conn) /\ NoConn \notin Conn
ASSUME FilesAssumption == /\ DOMAIN Size \subseteq Key /\ NoKey \notin Key
                          /\ \A k \in DOMAIN Size : Size[k] \in Nat
                          /\ Buffer \in Nat \ {0}
ASSUME HeaderAssumption ==
         NoHeader \notin [status : {"OK", "ERROR", "FILE_NOT_FOUND"}, len : Nat]

VARIABLES
  queue,    \* the steque of tasks, front first; a task is its connection
  mutex,    \* the thread that holds the mutex
  bpc,      \* where the boss is
  lib,      \* the library's own context pointer, which the handler gets &of
  built,    \* the task the handler has built and not yet queued
  wpc,      \* where each worker is
  task,     \* the task of each worker
  fd,       \* the file each worker sends: a key of the content table
  size, offset,           \* file_size and offset of each worker
  sock,     \* of each connection: "none", "open", "closed" on the server side
  memory,   \* its context: "none", "live" or "freed"
  path,     \* the path stored in the context
  announced, sent,        \* file_len and the bytes sent, in the context
  client,   \* its client: "none", "waiting", "left"
  header, body,           \* what the client has received
  fault,    \* freed memory was used
  up        \* the process lives

conns == <<sock, memory, path, announced, sent>>
clients == <<client, header, body>>
locals == <<fd, size, offset>>
pool == <<queue, mutex>>
boss == <<bpc, lib, built>>
vars == <<pool, boss, wpc, task, locals, conns, clients, fault, up>>

Catalog == DOMAIN Size
File(k) == [i \in 1..Size[k] |-> <<k, i>>]

(* The result of pthread_create is not looked at: a thread may be missing. *)
Created == IF "create" \in Troubles THEN {"lock", "missing"} ELSE {"lock"}

Init == /\ queue = << >>
        /\ mutex = NoThread
        /\ bpc = "accept" /\ lib = NoConn /\ built = NoConn
        /\ wpc \in [Worker -> Created]
        /\ task = [w \in Worker |-> NoConn]
        /\ fd = [w \in Worker |-> NoKey]
        /\ size = [w \in Worker |-> 0] /\ offset = [w \in Worker |-> 0]
        /\ sock = [c \in Conn |-> "none"]
        /\ memory = [c \in Conn |-> "none"]
        /\ path = [c \in Conn |-> NoKey]
        /\ announced = [c \in Conn |-> 0] /\ sent = [c \in Conn |-> 0]
        /\ client = [c \in Conn |-> "none"]
        /\ header = [c \in Conn |-> NoHeader]
        /\ body = [c \in Conn |-> << >>]
        /\ fault = FALSE
        /\ up = TRUE

Waiting == {w \in Worker : wpc[w] = "waiting"}

Goto(w, label) == wpc' = [wpc EXCEPT ![w] = label]

(* Following a pointer into a context that was freed is a fault. *)
Use(c) == fault' = (fault \/ memory[c] # "live")

----------------------------------------------------------------------------
(* The clients. *)

Answered(c) ==
  /\ header[c] # NoHeader
  /\ header[c].status = "OK" => Len(body[c]) = header[c].len

(* A client closes its end when it has its answer, or earlier. *)
ClientLeaves(c) == /\ client[c] = "waiting"
                   /\ Answered(c) \/ "leave" \in Troubles
                   /\ client' = [client EXCEPT ![c] = "left"]
                   /\ UNCHANGED <<pool, boss, wpc, task, locals, conns, header, body,
                                  fault, up>>

----------------------------------------------------------------------------
(* The boss. *)

(* The library accepts a connection, parses its request into a new context
   and calls the handler.  The name of an earlier connection is used again
   once no worker points to that one's context, so that a stale pointer never
   looks like a good one. *)
Accept(c, k) == /\ bpc = "accept"
                /\ sock[c] # "open" /\ client[c] # "waiting" /\ c \notin Range(task)
                /\ sock' = [sock EXCEPT ![c] = "open"]
                /\ memory' = [memory EXCEPT ![c] = "live"]
                /\ path' = [path EXCEPT ![c] = k]
                /\ announced' = [announced EXCEPT ![c] = 0]
                /\ sent' = [sent EXCEPT ![c] = 0]
                /\ client' = [client EXCEPT ![c] = "waiting"]
                /\ header' = [header EXCEPT ![c] = NoHeader]
                /\ body' = [body EXCEPT ![c] = << >>]
                /\ lib' = c
                /\ bpc' = "handler"
                /\ UNCHANGED <<pool, built, wpc, task, locals, fault, up>>

\* Mutant: *ctx is not cleared.
TakeContext_KeepPointer == /\ bpc = "handler"
                           /\ built' = lib
                           /\ bpc' = "lock"
                           /\ UNCHANGED <<pool, lib, wpc, task, locals, conns, clients,
                                          fault, up>>

(* gfs_handler takes the context over and clears the library's pointer. *)
TakeContext == /\ bpc = "handler"
               /\ built' = lib
               /\ lib' = NoConn
               /\ bpc' = "lock"
               /\ UNCHANGED <<pool, wpc, task, locals, conns, clients, fault, up>>

HandlerLock == /\ bpc = "lock"
               /\ mutex = NoThread
               /\ mutex' = Boss
               /\ bpc' = "push"
               /\ UNCHANGED <<queue, lib, built, wpc, task, locals, conns, clients,
                              fault, up>>

\* Mutants: the signal is sent for the first task of an empty queue only, or
\* never.
Signal_WhenEmpty == IF Waiting = {} \/ ~IsEmpty(queue)
                      THEN UNCHANGED wpc ELSE \E w \in Waiting : Goto(w, "lock")
Signal_Never == UNCHANGED wpc

(* pthread_cond_signal wakes one waiting worker, if there is one. *)
Signal == IF Waiting = {} THEN UNCHANGED wpc ELSE \E w \in Waiting : Goto(w, "lock")

HandlerPush == /\ bpc = "push"
               /\ queue' = Pushed(queue, built)
               /\ built' = NoConn
               /\ Signal
               /\ mutex' = NoThread
               /\ bpc' = "return"
               /\ UNCHANGED <<lib, task, locals, conns, clients, fault, up>>

(* Back in the library: a context that is still there is freed. *)
HandlerReturns == /\ bpc = "return"
                  /\ memory' = IF lib = NoConn THEN memory
                                               ELSE [memory EXCEPT ![lib] = "freed"]
                  /\ lib' = NoConn
                  /\ bpc' = "accept"
                  /\ UNCHANGED <<pool, built, wpc, task, locals, sock, path, announced,
                                 sent, clients, fault, up>>

----------------------------------------------------------------------------
(* The workers. *)

WorkerLock(w) == /\ wpc[w] = "lock"
                 /\ mutex = NoThread
                 /\ mutex' = w
                 /\ Goto(w, "claim")
                 /\ UNCHANGED <<queue, boss, task, locals, conns, clients, fault, up>>

WorkerWait(w) == /\ wpc[w] = "claim"
                 /\ IsEmpty(queue)
                 /\ Goto(w, "waiting")
                 /\ mutex' = NoThread
                 /\ UNCHANGED <<queue, boss, task, locals, conns, clients, fault, up>>

SpuriousWakeup(w) == /\ wpc[w] = "waiting"
                     /\ Goto(w, "lock")
                     /\ UNCHANGED <<pool, boss, task, locals, conns, clients, fault, up>>

\* Mutant: steque_front, which leaves the task in the queue.
WorkerPop_Peek(w) == /\ wpc[w] = "claim"
                     /\ ~IsEmpty(queue)
                     /\ task' = [task EXCEPT ![w] = Front(queue)]
                     /\ mutex' = NoThread
                     /\ Goto(w, "lookup")
                     /\ UNCHANGED <<queue, boss, locals, conns, clients, fault, up>>

WorkerPop(w) == /\ wpc[w] = "claim"
                /\ ~IsEmpty(queue)
                /\ task' = [task EXCEPT ![w] = Front(queue)]
                /\ queue' = Popped(queue)
                /\ mutex' = NoThread
                /\ Goto(w, "lookup")
                /\ UNCHANGED <<boss, locals, conns, clients, fault, up>>

(* A header or data on its way to the client.  A client that has left gets
   nothing; writing to it may also end the process. *)
Receives(c, h, bytes) ==
  IF client[c] = "waiting"
    THEN /\ header' = [header EXCEPT ![c] = h]
         /\ body' = [body EXCEPT ![c] = @ \o bytes]
         /\ UNCHANGED up
    ELSE /\ UNCHANGED <<header, body>>
         /\ up' \in {TRUE, FALSE}

\* Mutant: nothing is sent, the worker just drops the task.
Refuse_Silent(w, status) ==
  /\ size' = [size EXCEPT ![w] = 0]
  /\ offset' = [offset EXCEPT ![w] = 0]
  /\ Goto(w, "send")
  /\ UNCHANGED <<fd, conns, header, body, up>>

(* gfs_sendheader for a status other than OK: the library starts to close the
   connection, and nothing is left for the loop to send. *)
Refuse(w, status) ==
  /\ Receives(task[w], [status |-> status, len |-> 0], << >>)
  /\ size' = [size EXCEPT ![w] = 0]
  /\ offset' = [offset EXCEPT ![w] = 0]
  /\ Goto(w, "drain")
  /\ UNCHANGED <<fd, conns>>

(* content_get(task->path): the path lies in the context. *)
Lookup(w) == /\ wpc[w] = "lookup"
             /\ Use(task[w])
             /\ IF path[task[w]] \in Catalog
                  THEN /\ fd' = [fd EXCEPT ![w] = path[task[w]]]
                       /\ Goto(w, "stat")
                       /\ UNCHANGED <<size, offset, conns, header, body, up>>
                  ELSE Refuse(w, "FILE_NOT_FOUND")
             /\ UNCHANGED <<pool, boss, task, client>>

(* fstat, then the OK header with the size found there. *)
SendHeader(w) == /\ wpc[w] = "stat"
                 /\ Use(task[w])
                 /\ size' = [size EXCEPT ![w] = Size[fd[w]]]
                 /\ offset' = [offset EXCEPT ![w] = 0]
                 /\ announced' = [announced EXCEPT ![task[w]] = Size[fd[w]]]
                 /\ sent' = [sent EXCEPT ![task[w]] = 0]
                 /\ Receives(task[w], [status |-> "OK", len |-> Size[fd[w]]], << >>)
                 /\ Goto(w, "send")
                 /\ UNCHANGED <<pool, boss, task, fd, sock, memory, path, client>>

StatFails(w) == /\ wpc[w] = "stat" /\ "stat" \in Troubles
                /\ Use(task[w])
                /\ Refuse(w, "ERROR")
                /\ UNCHANGED <<pool, boss, task, client>>

\* Mutant: the offset moves by the size of the buffer.
Advance_Buffer(n) == Buffer

(* offset += bytes_read *)
Advance(n) == n

(* One turn of the loop: pread at the worker's own offset, which may return
   fewer bytes than the buffer holds, and gfs_send.  Its result is ignored:
   the offset moves on although a client that left may have made it fail. *)
SendChunk(w) ==
  /\ wpc[w] = "send" /\ offset[w] < size[w]
  /\ LET c == task[w]
     IN  \E n \in 1..Buffer :
           /\ offset[w] + n <= size[w]
           /\ Use(c)
           /\ Receives(c, header[c], SubSeq(File(fd[w]), offset[w] + 1, offset[w] + n))
           /\ \/ sent' = [sent EXCEPT ![c] = @ + n]
              \/ client[c] = "left" /\ UNCHANGED sent
           /\ offset' = [offset EXCEPT ![w] = @ + Advance(n)]
           /\ Goto(w, IF sent'[c] > sent[c] /\ sent'[c] >= announced[c]
                        THEN "drain" ELSE "send")
  /\ UNCHANGED <<pool, boss, task, fd, size, sock, memory, path, announced, client>>

(* The library waits for the client's end of the connection, closes the
   socket and frees the context. *)
Drain(w) == /\ wpc[w] = "drain"
            /\ client[task[w]] = "left"
            /\ sock' = [sock EXCEPT ![task[w]] = "closed"]
            /\ memory' = [memory EXCEPT ![task[w]] = "freed"]
            /\ Goto(w, "send")
            /\ UNCHANGED <<pool, boss, task, locals, path, announced, sent, clients,
                           fault, up>>

(* The loop is over, or pread returned nothing or an error: the task is
   freed and the worker goes for the next one. *)
TaskDone(w) == /\ wpc[w] = "send"
               /\ offset[w] >= size[w] \/ "read" \in Troubles
               /\ task' = [task EXCEPT ![w] = NoConn]
               /\ fd' = [fd EXCEPT ![w] = NoKey]
               /\ size' = [size EXCEPT ![w] = 0]
               /\ offset' = [offset EXCEPT ![w] = 0]
               /\ Goto(w, "lock")
               /\ UNCHANGED <<pool, boss, conns, clients, fault, up>>

----------------------------------------------------------------------------

BossStep == TakeContext \/ HandlerLock \/ HandlerPush \/ HandlerReturns

WorkerStep(w) == \/ WorkerLock(w) \/ WorkerWait(w) \/ WorkerPop(w) \/ Lookup(w)
                 \/ SendHeader(w) \/ StatFails(w) \/ SendChunk(w) \/ Drain(w)
                 \/ TaskDone(w)

(* The process is gone: its clients see the connections break. *)
Dead == ~up /\ UNCHANGED vars

Next == \/ up /\ \E c \in Conn : (\E k \in Key : Accept(c, k)) \/ ClientLeaves(c)
        \/ up /\ BossStep
        \/ up /\ \E w \in Worker : WorkerStep(w) \/ SpuriousWakeup(w)
        \/ Dead

(* Threads that can run are scheduled, a thread that keeps asking for the
   mutex gets it, and a client that has its answer closes its end. *)
Fairness == /\ WF_vars(up /\ BossStep) /\ SF_vars(up /\ HandlerLock)
            /\ \A w \in Worker : /\ WF_vars(up /\ WorkerStep(w))
                                 /\ SF_vars(up /\ WorkerLock(w))
            /\ \A c \in Conn : WF_vars(up /\ Answered(c) /\ ClientLeaves(c))

Spec == Init /\ [][Next]_vars
FairSpec == Spec /\ Fairness
----------------------------------------------------------------------------

Queued(c) == \E i \in 1..Len(queue) : queue[i] = c
Served(c) == \E w \in Worker : task[w] = c

(* The hand-over of gfcontext_t: at any time at most one of the library, the
   handler, the queue and the workers has a pointer to a connection's
   context, so nobody frees it under another one's feet. *)
OneOwner ==
  /\ \A v, w \in Worker : task[v] = task[w] /\ task[v] # NoConn => v = w
  /\ \A i, j \in 1..Len(queue) : queue[i] = queue[j] => i = j
  /\ \A c \in Conn : /\ Queued(c) => ~Served(c)
                     /\ c \in {lib, built} => ~Queued(c) /\ ~Served(c)
                     /\ lib = c => built # c

(* No worker follows task->ctx, or task->path that points into it, after the
   context was freed: the library frees it after the last byte without
   clearing the worker's pointer, and the loop must not call it again. *)
NoUseAfterFree == ~fault

(* The wakeups suffice: while a worker sleeps, every queued task has a worker
   of its own on the way to the queue.  One pthread_cond_signal per push does
   it, although workers that were busy may take the task of the one that was
   woken. *)
EnoughAwake ==
  Waiting # {} => Len(queue) <= Cardinality({w \in Worker : wpc[w] \in {"lock", "claim"}})

(* Only an announced file can be forgotten: a connection for which neither the
   boss nor the queue nor a worker is responsible any more has got its OK
   header and, unless the file is empty, not all of the bytes it announces,
   since pread or the client gave up.  No request is dropped unanswered and no
   refused or completely answered one is left open. *)
ForgottenIsPartial ==
  \A c \in Conn :
    sock[c] = "open" /\ ~Queued(c) /\ ~Served(c) /\ c \notin {lib, built}
      => /\ sent[c] < announced[c] \/ announced[c] = 0
         /\ client[c] = "waiting" => /\ header[c] # NoHeader /\ header[c].status = "OK"
                                    /\ header[c].len = announced[c]

ArrivalsStop == <>[][\A c \in Conn : sock'[c] = "open" => sock[c] = "open"]_sock

Staffed == \E w \in Worker : wpc[w] # "missing"

(* The client has been told that its file has no bytes: all that ever comes. *)
ToldEmpty(c) == header[c] = [status |-> "OK", len |-> 0]

(* A request may wait as long as newer ones arrive, since the newest task is
   taken first; but once arrivals stop, every request is answered and its
   connection closed, however many of the threads could not be created, if
   there is at least one.  The exception is an empty file: its OK header is the
   whole answer, the loop of handler.c:67 never calls gfs_send, and so nothing
   makes the library close the connection. *)
EveryConnectionEnds ==
  Staffed /\ ArrivalsStop =>
    \A c \in Conn : (up /\ sock[c] = "open") ~> (sock[c] = "closed" \/ ToldEmpty(c))

(* With tasks in the queue the pool as a whole goes on taking them. *)
PoolProgress == (up /\ Staffed /\ ~IsEmpty(queue)) ~> (~up \/ \E w \in Worker : wpc[w] = "lookup")

(* Seen from the clients, threads, queue and buffers make no difference. *)
S == INSTANCE FileService WITH phase <- sock, asked <- path

ImplementsFileService == S!Spec
=============================================================================
