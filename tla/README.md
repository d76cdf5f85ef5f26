# Verification of GetFile

GetFile is a small file-transfer system in C: an echo pair, a file-transfer
pair, a library for the GetFile protocol (`gflib`), and a multithreaded server
and download client on top of that protocol (`mtgf`). This directory holds TLA+
models of its parts, TLC configurations that check them on small instances, and
proofs, checked by TLAPS, that hold for every number of threads, clients and
requests, every stream and file, and every content list.

`PROJECT.json` lists the components, the runs, the source lines every
definition stands for, the hazards the properties are aimed at, the findings
and the theorems. Paths below are relative to `src/`.

## 1. Inventory

| Component | State it keeps | Operations | Interacts with | Hard behaviours | What makes it correct |
|---|---|---|---|---|---|
| **steque** `mtgf/steque.c` | linked nodes, `front`, `back`, `N` | push, enqueue, pop, front, cycle, isempty, destroy | called by both pools under their mutex | node reuse by `malloc`, the last pop, cycling one node | the list is the sequence `steque.h` promises; nothing leaks |
| **download client** `mtgf/gfclient_download.c` | queue of paths, `active_workers`, `shutdown`, one mutex, two condition variables, the static counter of `localPath`, local files | fill loop, worker loop, the wait of main, shutdown and joins, `localPath`, `openFile`, two `unlink`s | steque, workload, `gfc_*` library, file system | lost wakeups, early or missed shutdown, shared counter outside the mutex, double `unlink`, `exit` in a thread | every request started and finished once, main returns last, a finished download stays and a failed one leaves no file |
| **server** `mtgf/handler.c`, `mtgf/gfserver_main.c` | queue of tasks, mutex, condition variable, each worker's task, descriptor and offset | `gfs_handler`, `handler_pool_init`, `worker_fn` | steque, content table, `gfs_*` library (calls the handler, owns the context until then) | ownership of a context crossing threads, freed by the last byte, shared descriptors, clients that leave, short reads | one owner per context, no use after free, no task waits beside a sleeping worker, every client sees a true header and a prefix of its file, every connection ends |
| **gfserver/gfclient objects** used by `mtgf` | sockets and contexts | `gfserver_serve`, `gfs_*`, `gfc_*` | programs above | frees a context on its own account | external: only headers are here; modelled as far as the callers rely on them |
| **GetFile server library** `gflib/gfserver.c` | listening socket, one context per connection, a 1024-byte header buffer | setup, accept loop, header search, checks, handler call, `gfs_send*`, `gfs_abort` | a handler, the client over TCP | header split over receives, error path that falls through, connections never closed | the handler is called only for a complete, well-formed request |
| **GetFile client library** `gflib/gfclient.c` | request handle: socket, status, `fileLength`, `bytesReceived` | setters, `establishConnection`, `gfc_perform`, getters, cleanup | server over TCP, write callback | header split over receives with body bytes behind it, early close, malformed headers, addresses that fail | 0 and OK exactly when the announced bytes were handed to the callback |
| **gflib programs** `gflib/gfclient_download.c`, `gflib/gfserver_main.c`, `gflib/gf-student.c` | the number of the request, the local directory; on the server the descriptors of the content table, shared by all requests | download loop, `localPath`, `openFile`, two `unlink`s; set-up of table and server | client and server library, workload, content table, handler | failures on either side at any byte, a connection the server leaves open, a descriptor used before, truncated names | a complete file for every success and none for a failure, the answer to its own path for every request, an end |
| **content table** `*/content.c` | sorted array of keys and descriptors, its capacity | `content_init` (growing array), `content_get` (binary search), `content_destroy` | handler | growth one line ahead, blank lines, repeated keys, empty table, bounds of the search | never a write behind the array; the search finds exactly the keys of the list, in logarithmic time |
| **workload** `*/workload.c` | list of paths, counter | init, get_path | download clients | empty file, wrap around | paths in turn |
| **transfer** `transfer/*.c` | listening socket, one file and its offset, one buffer on each side | set-up, send loop; receive loop | TCP | partial sends and writes, an end of the connection that may mean two things | the file arrives unchanged, at every client |
| **echo** `echo/*.c` | listening socket, a buffer of 16 that is never cleared | set-up, echo loop; address loop, one exchange | TCP | fragmentation, older bytes in the buffer, empty message, several addresses | a client gets its own bytes, everybody is answered, nothing is left open |

Threads meet in two places only: `mtgf/gfclient_download.c` and
`mtgf/handler.c`. Both use the steque from under one mutex, so the steque needs
no locking of its own. The other programs have one thread; what is hard in them
is the byte stream, which may break a message at any point and end at any time.


### How the parts interact

- The `mtgf` client: `main` calls `workload_get_path` and `steque_push` before
  any worker exists; from then on `main` and the workers share the steque,
  `active_workers` and `shutdown` under `queue_mutex`, and the static counter of
  `localPath` and the directory of local files without it. Workers call
  `gfc_perform`, which calls `writecb` back for every piece of a body.
- The `mtgf` server: the boss thread sits in `gfserver_serve`, which calls
  `gfs_handler` back with a pointer to its context pointer. The handler clears
  that pointer, so the library will not free the context, and passes the context
  to a worker through the steque. The library frees it inside `gfs_send` or
  `gfs_sendheader` once the answer is complete.
- The `gflib` programs: one thread on each side; client and server meet only
  through the byte stream of a connection.
- `transfer` and `echo`: one server thread that serves connections in turn.

The behaviours that are hard to test are listed in `PROJECT.json` under
`hazards`, each with its line and the properties aimed at it.

## 2. Modules

Every definition that models code is mapped to its lines in `PROJECT.json`.
Names follow the source. Definitions headed by `\* Mutant:` are deliberate bugs
next to the definition they change; they are not part of any specification, and
show that a property would notice such a bug.

### `StequeOps`, `Deque`, `Steque`, `MCSteque`, `StequeProofs`

`StequeOps` holds the operations of `steque.c` on a sequence, front first. Both
pools use it for their queues. `Deque` is what `steque.h` promises: a sequence with
one action per function, which ends the process on underflow. Its variable `call`
names the function called last and the item it was given. `Steque` is the code, with
the same variable as a history: cells with `item` and `next`, the fields `front`,
`back` and `N`, and an allocator that may hand a freed cell out again. `Contents`
follows the links, and `ImplementsDeque` states that the linked list refines `Deque`
under this mapping; since `call` is mapped to itself, a push has to refine the push
of the same item and nothing else.
`steque_destroy` is a loop of pops, so it is one action per pop.

### `Batch`, `ClientPool`, `MCClientPool`, `ClientPoolProofs`

`ClientPool` is `mtgf/gfclient_download.c`. `mpc` and `wpc` are program counters;
a critical section between a lock and the next wait or unlock is one step, since
everything it touches is touched under the mutex only. `pthread_cond_wait` is a
step into `waiting` that releases the mutex; leaving it needs a signal or a
spurious wakeup, and then the mutex. What happens outside the mutex is split at
every access to something shared: the load and the store of `counter++`
(`LocalPathLoad`, `LocalPathStore`), `fopen`, each `fwrite`, and each of the two
`unlink`s. Files are inodes in `data`, names are entries of `dir`, so a file that
was unlinked or truncated by another worker is represented as the system has it.
`gfc_perform` comes as an object file; `Replies` holds what its header allows.

`Batch` is the promise to the user: every request is started once and finished
once, at most `nthreads` at a time, and the client returns after the last one, or
`openFile` aborts it. `ImplementsBatch` is the refinement.

### `FileService`, `ServerPool`, `MCServerPool`, `ServerPoolProofs`

`ServerPool` is `handler.c` with `gfserver_main.c` around it. A connection has a
socket, a context (`memory`: `none`, `live` or `freed`) and a client. The library
functions the code calls are external: `gfs_sendheader` with anything but OK, and
the `gfs_send` that completes the announced length, wait for the client to close
and free the context (`Drain`). Every access to the context goes through `Use`,
which records in `fault` that freed memory was touched. `Troubles` selects which
of failing `pread`, failing `fstat` and early leaving clients a run allows.

`FileService` is what one client may count on, with no threads in sight: one true
header, then the file from its first byte, and no close by the server before the
client's. `ImplementsFileService` is the refinement, with the socket and the path
in the context as the mapped variables.

### `GfClient`, `MCGfClient`, `GfClientProofs`

`gfc_perform` of `gflib/gfclient.c`, with one action for every `recv` or `send`
that returns and one for every way back to the caller. The peer may send any of
`Responses`, close after any part of it, and reset the connection at any time;
`recv` returns any number of symbols the buffer has room for. A stream is a
sequence of symbols: a word of the protocol is one symbol, since no decision of
the code depends on where inside a word a receive ends, while the four characters
of the delimiter, the digits and the bytes of the body are symbols of their own.
The reference `Verdict` reads the whole response at once.

### `GfServer`, `MCGfServer`, `GfServerProofs`

`gfserver_serve` of `gflib/gfserver.c`: set-up, accept, the receiving loop with
its search for the delimiter, the checks, and the call of the handler, which is
external and answers or aborts. `ReceiveFails` follows the code: it closes and
frees, and goes on to the checks. Clients may stop before their request is
complete (`leave`) or break the connection (`reset`).

### `Listener`

How `echoserver.c`, `transferserver.c` and `gfserver.c` make their listening
socket: the same five calls in the same order, each of which may fail, and what
is closed and freed on the way out. `Echo`, `Transfer` and `GfServer` instantiate
it with their own program counter.

### `Transfer`, `MCTransfer`, `TransferProofs`

Both `transfer` programs. The offset of the server's descriptor is a variable, so
the effect of `lseek` is visible. `Send` and `Write` offer the buffer from its
beginning each time round, as the code does; `Accepted` says whether the system
may take less than it is offered, any number of times, and `short` remembers whom
that has happened to.

### `Echo`, `MCEcho`, `EchoProofs`

Both `echo` programs. `buffer` holds all bytes of the server's buffer, those of
earlier messages included, and `received` how many count. A client walks its list
of addresses with the one socket it has made for the first of them; `connect`
refuses an address of another family. What one `recv` returns is chosen freely.

### `Content`, `MCContent`, `ContentProofs`

`content_init` line by line and `content_get` probe by probe; both copies of
`content.c` are the same in this. A key is an integer and `strcmp` the order of
the integers; a descriptor is the number of the line whose file it has open, so
`AnswerRight` can compare an answer with the list itself, before growing and
sorting. `qsort` leaves equal keys in any order. `scale` is a history variable:
2 to the power of the number of probes.

### `GetFile`, `MCGetFile`

The composition of the `gflib` programs. `GfClient` and `GfServer` are
instantiated with their own variables; every action of `GetFile` joins a step of
one of them with its effect on the other's end of the connection: what
`SendRequest` sends comes in at the server, what `gfs_send` sends comes in at the
client, and a socket that is closed shows at the other side. Around them are the
loop of `gfclient_download.c` with its local directory, and a handler. The
handler is an object file; it is modelled as `content.c` and `gfserver.h` let it
work, reading from the descriptor that `content_get` has rewound. Each request
has a connection of its own; the server's end of it stays open after the answer,
as in `gfserver.c`.

## 3. Runs

Bounds are in the `.cfg` files. "Chunks" are the pieces in which `gfc_perform`
hands a body to `writecb`.

| Run | Instance | Result |
|---|---|---|
| `steque` | 4 cells, 2 items: every sequence of calls on lists of up to 4 cells, which includes each pop of a last cell, each cycle of 0, 1 and more cells and every reuse of a freed cell | `WellLinked`, `ImplementsDeque`, `DestroyEmpties` hold |
| `client_pool` | 2 workers, -1 to 3 requests for different paths, 1 chunk, under fairness: fewer requests than workers, as many and more, workers that sleep, are woken and find nothing | `TypeOK`, `RequestsConserved`, `ShutdownDrained`, `SleepersJustified`, `ActiveCounts`, `DestroyedUnused`, `DownloadsKept`, `FailuresRemoved`, `ImplementsBatch`, `Termination` hold |
| `client_files_shared` | 2 workers, 2 requests for one path | `DownloadsKept` is violated (finding 1) |
| `server_pool` | 2 workers, 3 connections that are used again and again, files of 3 and 0 bytes and a missing one, buffer of 2, all troubles; symmetry in workers and connections | `ForgottenIsPartial`, `OneOwner`, `NoUseAfterFree`, `EnoughAwake`, `ImplementsFileService` hold |
| `server_ends` | 2 workers, 2 connections that are used again and again, files of 3 and 0 bytes and a missing one, buffer of 2, `fstat` may fail, either thread or both may be missing, under fairness | `PoolProgress`, `EveryConnectionEnds` hold |
| `gf_client` | 2 addresses, a request in up to 2 sends, buffer of 11 symbols, 15 responses: files of 0, 1, 2, 4 and 10 bytes, more bytes than announced, a body equal to the delimiter, no length, both refusals, seven malformed headers, one of them longer than the buffer | `VerdictIndependentOfPieces`, `BodyIntact`, `Returns` hold |
| `gf_server` | 2 clients, 10 kinds of requests, two of them with bytes behind the delimiter, buffer of 11 symbols, requests cut off or connections reset anywhere, under fairness | `RequestsJudged`, `OnlyAnsweredLeftOpen`, `EveryRequestServed` hold |
| `gf_server_reset` | 1 client that may reset | `NoUseAfterFree` is violated (finding 2) |
| `transfer` | 2 clients, a file of 3 bytes, buffers of 2, any number of short `send`s and `write`s, clients that leave, an `lseek` or `read` that fails, under fairness | `StreamIsFile`, `FileArrives`, `EveryClientServed` hold |
| `echo` | 2 clients, buffer of 2, messages that are empty, fill the buffer or are longer, lists of one address, two of one family and two of different families, any call of the set-up may fail, clients that are stopped, under fairness | `OwnEcho`, `DescriptorsReleased`, `FailsOnlyUnreachable`, `EveryoneAnswered` hold |
| `content` | every list of up to 5 lines over three keys and the blank line, lists with files that cannot be opened, room for 2 items at first, searches for five keys | `RoomForNextLine`, `KeyInWindow`, `AnswerRight`, `WindowHalves` hold |
| `get_file` | 0 to 2 requests; workloads: empty, one file of 2 bytes, that file and a missing one, a malformed path and that file, a path too long for a number; connections that break, reads of the handler and `fopen`s that fail, under fairness | `KeptFilesComplete`, `AnswerMatchesRequest`, `ProgramEnds` hold |

What the passing runs show.

- `steque` and the queue of the pools: the list is sound for one caller at a time,
  which the mutex of both pools provides.
- `client_pool`: whatever the interleaving, `main` neither returns early nor
  sleeps for ever, and the two `unlink`s leave exactly the complete downloads, as
  long as the paths differ; `client_files_shared` shows that they must.
- `server_pool`: the context changes hands without ever having two owners, and
  short reads, empty files, refusals and departing clients never show a client a
  wrong byte or header. `ForgottenIsPartial` says precisely which connections the
  pool forgets: those whose announced file was not sent to its end, or is empty.
- `server_ends`: one signal per push is enough, and one thread that could be
  created; once arrivals stop, every connection ends except that of an empty file,
  which has its whole answer in the header (`ToldEmpty`) and is never closed. With
  two connections a task waits behind a busy thread when the other is missing, and
  a worker that has just finished takes the task another was woken for.
- `gf_client`, `gf_server`: how TCP groups the bytes makes no difference to what
  is decided, `gfc_perform` never claims a file that the callback did not get, and of the server's exits only the one behind the handler leaves a
  connection open.
- `transfer`: the offset is reset for every client, and the end of a connection
  means the end of the file unless the server broke down or one of the client's own
  calls was short. A short call costs its own client the order of the bytes, never
  another one, and the count is never too low.
- `echo`: the rest of an older message never shows, and one client alone can hold
  up the others: the one that says nothing.
- `content`: the array grows in time, and the search is right for tables of every
  shape up to five items; the theorems of section 5 remove the bound.
- `get_file`: with all of this together a user of the sequential client finds
  complete files and nothing else. The connection the server never closes does
  not hold this client up, because it counts bytes; the descriptor that all
  requests share is rewound in time; and the header buffer that the server never
  clears does not leak one request into the next.

Why these bounds are enough: in the pools everything a thread does depends on
whether the queue is empty, whether it is the last active one and whether
shutdown is set; two threads and three requests or connections show a sleeper
beside a runner, a queue that fills, one longer than there are threads, and one
that is drained by somebody else. For the safety properties of both pools and of
the stream models the theorems of section 5 remove the bounds. In the stream models the delimiter has four symbols and may be broken
over as many receives; buffers are just larger than the longest good header, so
that both a header that fits and one that does not occur. In `ServerPool` a
connection is reused once it is over, so arrivals have no bound; `server_ends`,
which has two connections to keep the liveness check small,
checks `PoolProgress` under arrivals without end.

A content table of up to five items in an array that starts with two has grown
twice, and its windows have every size that a probe treats differently: none, one,
two, odd and even. Two clients are enough for one to find what the other has left
in a buffer, an offset or the accept queue; two requests are enough for the same
in `GetFile`, where each failure of the first is followed by every course of the
second.

Deadlock is checked in the pools and the steque, where a state without a
successor would be a hang; `Exited`, `Dead` and `Halted` stand for a process that
has ended. The stream models do not check it, because a peer that stays silent,
or a server that waits in `accept`, stops the system rightly; nor does
`server_ends`, where a pool without a thread leaves its clients waiting; `Content` stops when
the table is destroyed or the program has exited.

### Fairness

- A thread that can run is run by the scheduler: weak fairness of each thread's
  steps. `gfc_perform` and the library's sends are assumed to come back.
- A thread that asks for the mutex while others take it in turn gets it at last:
  strong fairness of the lock steps only. A POSIX mutex does not promise this in
  so many words, but without it no program with a loop around a lock can be shown
  to progress. No fairness is given to spurious wakeups, failures, or arrivals.
- `ServerPool`: a client that has its whole answer closes its end, which the
  library waits for. Since the steque is used as a stack, a request may wait as
  long as newer ones arrive, hence the condition `ArrivalsStop`.
- `GfServer`: a client whose request has no end gives up some time. The code has
  no timeout, so without this the one thread would wait for ever; this is a
  condition on the clients, not something the server ensures.
- `Transfer`, `Echo`, `GetFile`: both programs run while they are not blocked.
  Users start programs when they like, so no fairness is given to the set-up or
  to a client's start. In `GetFile` the connections of a server that has died break
  some time, which is what the kernel of the dead process does.

## 4. Findings

Two runs end in a counterexample that contradicts the repository's own words,
which `PROJECT.json` quotes:

1. `mtgf/gfclient_download.c:47` (`client_files_shared`): `counter++` is not
   protected, so two workers with the same path can get the same local name, and
   one truncates or removes the other's finished download.
2. `gflib/gfserver.c:184` (`gf_server_reset`): after a failed `recv` the context
   is used, closed and freed a second time.

Other disagreements are modelled as the code has them. Where a property of a
passing run says exactly how far they go, it is named:

- `mtgf/handler.c:69`: when `pread` returns nothing before the announced size, and
  for an empty file (`handler.c:67`), nobody closes the connection any more, while
  `Readme.md:286` and `:293` have every task cleaned up. `ForgottenIsPartial`; `EveryConnectionEnds`
  holds with the empty file as its exception.
- `gflib/gfserver.c:245`: an answered connection is neither closed nor is its
  context freed, while `Readme.md:188` lists both as the last step.
  `OnlyAnsweredLeftOpen`.
- `transfer/transferclient.c:147`, `transfer/transferserver.c:161`: after a short
  `write` or `send` the whole buffer is offered again; `Readme.md:75` shows the loop
  with `buffer + written`. The first halves of `StreamIsFile` and `FileArrives`, the
  bytes in order and the file itself, hold for clients whose own calls were not short,
  and fail for the others: a short call repeats the beginning of the buffer, and two
  that add up to the buffer leave its end out, with a length that looks right. What
  holds for them, too, are the second halves: no bytes but those of the file, and never
  fewer than the file has.
- `echo/echoclient.c:108`: the socket is made for the first address and tried with
  all of them, so a server behind another family is not reached; `Readme.md:23` says
  the client connects "regardless of server's address family configuration".
  `FailsOnlyUnreachable`.
- `echo/echoclient.c:135`: one `recv` is taken for the whole answer, so a message
  that comes back in pieces is printed in part, against `Readme.md:54` ("exact
  byte-for-byte echo"); `OwnEcho` says that it is a beginning. With an empty message
  client and server wait for each other (`Readme.md:56` names it as tested);
  `EveryoneAnswered`.
- `transfer/transferserver.c:162`: one client that leaves during its transfer ends
  the server for all. `EveryClientServed` is conditional on the server running.
- `gflib/gfclient_download.c:35`: `snprintf` cuts the number off a long local name,
  so two downloads share a file. `KeptFilesComplete` speaks of the last one.
- `gflib/gfclient.c:205`: a response header that says OK without a length counts as
  an empty file, where `gfclient.h:91-95` would have an invalid header refused.
- `gflib/gfserver.c:230`: the path is cut out before the last four bytes received,
  not before the delimiter that was found, so when more follows a request the
  grouping of the bytes decides whether it is refused and what its path is.
  `RequestsJudged` says what remains true.
- `gflib/gfserver.c:142`: `gfserver_set_maxpending` has no effect, `listen` gets a
  literal 5 (`ListenBacklog`).

## 5. Theorems

31 theorems; all but `FileComesThrough` and `PathComesThrough` state a property
that a run checks too, and `PROJECT.json` lists them. They hold for every value of
the constants that satisfies the named assumptions, which TLC evaluates in the
runs. Each proof has the same shape: an
inductive invariant `IInv`; one lemma for each action (or for each
conjunct, with one step per action) that shows `IInv'`; `Invariance`, which lifts
that to the specification; and the theorems, which follow from `IInv`. Hardly any of
the properties is inductive alone, and what follows says what they lack.

Each module of proofs begins with the lemmas about sequences, parts of a stream and
numbers that it needs (`PartOf`, `PartOfRest`, `CutOff`, `PushedFacts`, ...).
`LeastNumber` says that a set of numbers has a least element; the proofs use it
where one would like to induct.

### `StequeProofs`

For any items and any finite heap (`NullAssumption`, `HeapAssumption`):
`ListIsWellLinked` (`WellLinked`) and `StequeImplementsDeque` (`ImplementsDeque`),
for lists of any length and any reuse of nodes. Both properties look at the list
through the walk from the front, a function defined by recursion. The walk alone
does not tell which links an operation leaves alone, and `steque_enqueue` patches
one at the far end of it. `IInv` looks at the heap instead:

- `Linked(order)`: there is an order of the cells that the links follow, from
  `front` to `back`, with no cell twice and none but the allocated ones;
- `Counted`: `N` is the number of allocated cells.

Each operation changes that order at its ends: `EnqueueStep`, `PushStep`,
`RemoveFrontStep` and `CycleStep` give the new order and say what becomes of the
contents. `WalkFollows` connects the two views: the walk meets the cells in any
such order. That the recursion has a solution is seen by giving one; that there is
no other, from the first place at which the walk would leave it.
`OrderIsSeenNext` is the same for the next state, and `StepRefines` puts both
together: a call on the list is the call of the same name on the sequence.
`steque_destroy` empties the list pop by pop, which `Deque` allows step by step.

### `ClientPoolProofs`

For any finite set of workers, any set of request counts, any workload and any
number of chunks (`ThreadsAssumption`, `WorkloadAssumption`): `TypeCorrect`
(`TypeOK`), `CountIsExact` (`ActiveCounts`), `NothingLost` (`RequestsConserved`),
`ShutdownIsLast` (`ShutdownDrained`), `NoLostWakeup` (`SleepersJustified`) and
`DestroyIsSafe` (`DestroyedUnused`).

`ActiveCounts` fails if a worker that is not counted can reach the decrement;
`SleepersJustified` says that `main` sleeps only while work is left, which a
worker's decrement may end, and holds because that worker tests both conditions
in the same critical section; `ShutdownDrained` needs that a request that is
neither queued nor held has a result. `IInv` joins all six with `Control`:

- `HoldsRequest`: a worker has a request exactly while it is counted;
- `MutexHeld`: whoever is inside a critical section owns the mutex, so there is
  one at most;
- `StartedUp`: workers appear only after the fill loop, and all exist before
  `main` looks at the queue, so `drawn` has reached `nreq` by then;
- `ShutdownPhase`: `shutdown` is set exactly once `main` is joining;
- `Recorded`: a worker has noted the result before it gives its request back.

Actions that only work on files are collected in `FileWorkSteps`.

`ClientImplementsBatch` (`ImplementsBatch`) is the refinement: `PopStarts` and
`FinishFinishes` are the steps that `Batch` sees, `Unseen` the others. That at most
`nthreads` requests are in progress is a count of workers: `DoingIsHeld` maps those
that hold a request onto the requests in progress.

`CompleteFilesStay` (`DownloadsKept`) and `FailedFilesGo` (`FailuresRemoved`) are
about the files. Their hypothesis `OwnPaths` says that there are at least as many
workload lines as requests, so that no path is handed out twice. It is not an
assumption of the module: the code does not ensure it, and finding 1 is what happens
without it. Their invariant `FInv` adds to `IInv`

- `Directory`: a name leads to the file of the request it was made for;
- `RequestFiles`: what the disk holds for a request that is waiting, being worked
  on or finished;
- `WorkerFiles`: how much of a file each step between `localPath` and the second
  `unlink` has written or removed.

`OwnName` is where the hypothesis enters; `OthersKept` shows that a worker's step
leaves the files of the other requests alone, so that each step has to be looked
at for its own request only.

### `ServerPoolProofs`

For any finite sets of workers and connections, any files and any buffer
(`ThreadsAssumption`, `ConnAssumption`, `FilesAssumption`, `HeaderAssumption`):
`ContextHasOneOwner` (`OneOwner`), `ContextsLiveWhenUsed` (`NoUseAfterFree`),
`OneSignalSuffices` (`EnoughAwake`) and `NothingForgottenButCutFiles`
(`ForgottenIsPartial`). `IInv` adds to the four

- `Control`: where the boss and each worker have a context, and who owns the mutex;
- `Entrusted`: what is on its way from the library to a worker is a connection
  that nobody has answered; two owners, or a worker that answers twice, would
  break this;
- `EachServing`: what each step of the loop in `worker_fn` knows of its
  connection. In the send loop either the context lives, its header announces the
  file and the offset is not behind what was sent, or the library has freed it
  and the loop is over. That is why the worker's pointer, which nobody clears, is
  not followed again; `NoUseAfterFree` rests on it.

`EnoughAwake` is a count of threads: `AwakeStep` follows the number of those on their
way to the queue and the length of the queue through every step.

`ServerImplementsService` (`ImplementsFileService`) is the refinement, for files of
any size. To see that a chunk extends what the client has, `RInv` adds
`EachDelivered`: while it is being served, a client has the file from its
beginning as far as the library has sent it, or less if it has left; and
`EachHasClient`: an open connection has a client.

### `GfClientProofs`

For any responses, cut anywhere, any buffer and any number of addresses
(`SizesAssumption`, `SymbolsAssumption`: a symbol is a number): `JudgesAsAWhole`
(`VerdictIndependentOfPieces`) and `ResultIsTrue` (`BodyIntact`). The reference
`Verdict` reads the whole response, while the code has seen a part of it; `IInv`
says what that part tells:

- `Stream`: received and outstanding bytes are the response;
- `Before`: nothing is received before the request is sent;
- `Collecting`: the buffer is a beginning of the response without a delimiter.
  A search begins three symbols before those just received; this clause is what
  makes that enough (`NothingMissed`); with two a delimiter could be missed;
- `Parsing`: a delimiter that was found is the first of the whole response; where
  none was found the buffer is full or the peer has gone;
- `Passed`: what was delivered is the body as far as it was received.

A peer that closes cuts the response off, so the reference's view of it changes
under the client; `PeerClosesStep` shows that what was found is not affected. `Number`,
the value of the digits, is a function defined by recursion; that it is a
number (`NumberIsNat`) follows with `LeastNumber` from the first place where it would
not be.

`BodyIntact` has two parts. `BodyInOrder` follows from `Passed`; `ResultTellsBody`
needs one more clause, in `RInv`: until the header is parsed the
status is not OK (`StatusUnset`), so none of the early ways back can claim a file.
`BodyEndsTell` looks at the two ways out of the loop over the body.

`FileComesThrough` puts the three together for the answer a server gives: the words,
the digits of a length, the delimiter and as many bytes. If the peer sends all
of it and `gfc_perform` returns without a reset, the result is 0 and OK and the
callback got those bytes exactly. `AnswerRead` is what it rests on: the reference
takes such an answer apart as it was put together, also when the bytes of the file
contain a delimiter, since neither the words nor the digits hold one of its
characters. Its hypotheses are about the answer only: the digits denote the length
of the body, and the header fits the buffer.

### `GfServerProofs`

For any set of connections, any requests, cut anywhere, and any header size
(`SizesAssumption`, `ConnAssumption`, `SymbolsAssumption`): `JudgesWholeRequests`
(`RequestsJudged`) and `NoLeakBeforeTheHandler` (`OnlyAnsweredLeftOpen`). `IInv` has

- `Arriving`: what of a request has not been received is the rest of it;
- `Queue`: a connection is accepted once, and untouched before;
- `Current`: the header buffer is what was received of the present request,
  without a delimiter while it is being received;
- `Handled`, `Refused`: what the handler got, and what was refused, as far as it had
  been received then. This differs from the request itself: a client that leaves
  withdraws the rest, and bytes behind the delimiter may be received or not;
- `LeftOpen`: whatever is open besides the present connection has been handled;
- `Blame`: the loop has used a freed context only if a client broke its
  connection, which is finding 2.

`WellFormedIsRequest` and `AcceptableMeaning` show that the tests of the code, on
the first two and the last four symbols, are those of the reference.

`PathComesThrough` follows for a client that sends the request for a path, as
`gfc_perform` does: as long as no freed context has been used, the handler gets this
path and no other, and a request that fits the buffer is not refused. The
hypothesis is that the path has no carriage return: then the delimiter stands at
the end of the request only (`OneDelimiter`), and no shorter request is a
beginning of it (`SamePath`). A path with a delimiter in it is cut there or not
according to the pieces, which section 4 lists among the disagreements.

### `TransferProofs`

For any number of clients, any file and any buffers (`BufferAssumption`,
`ClientAssumption`, `FileAssumption`): `BytesInOrder` (`StreamIsFile`) and
`WholeFile` (`FileArrives`). Both promise the bytes in order to a client none of whose
own `send`s and `write`s was short, and only their origin and their number to one
with a short call, where the code doubles bytes (section 4). `IInv` has

- `Queue`: a connection is accepted once, and untouched before; without it an
  accept could send the file a second time to the same client;
- `Writing`: a client writes out what it has received before it receives more;
- `Current`: what the present client has in all, on its disk, in its buffer and on
  the wire, is the file up to the server's offset less the chunk that is yet to be
  sent; the reset of the offset at every accept keeps it true;
- `Beginnings`: for every client it is a beginning of the file, and `Complete`: the
  whole of it once the server has closed the connection.

`TypeOK` has the streams as sequences of bytes of the file, which is all that
`BytesInOrder` says of a client with a short call. The number of its bytes is a second
invariant on top of the first: `Enough` counts what a client has (`Amount`; bytes written
twice count twice) and keeps it at least at the server's offset plus what the loop
around `send` has counted for the present chunk, since each loop goes on until it has
counted a whole buffer. No equality between streams helps there, because there is none.

### `EchoProofs`

For any number of clients, any messages, any lists of addresses and any buffer
(`BufferAssumption`, `ClientAssumption`, `MessagesAssumption`,
`AddressesAssumption`): `EchoesTheSender` (`OwnEcho`), `NothingStaysOpen`
(`DescriptorsReleased`) and `GivesUpLast` (`FailsOnlyUnreachable`). `IInv` has

- `SetUp`: what each step of the set-up holds, and that no client is there yet;
- `OneConnection`: only the connection being served may be open;
- `Tried`: the addresses before the present one do not lead to the server;
- `Silent`, `Underway`: the message of a client that has sent it is, in this order,
  on the way back, in the server's hands and on the way there; so the bytes in the
  buffer that count are always of the client being served.

### `ContentProofs`

For any list of lines, any set of integer keys and any positive initial capacity
(`ListsAssumption`, `KeysAssumption`, `CapacityAssumption`): `LoadStaysInTable`
(`RoomForNextLine`), `CommentHolds` (`KeyInWindow`), `SearchIsRight`
(`AnswerRight`) and `SearchIsFast` (`WindowHalves`). `IInv` adds to the four

- `FromList`: every item comes from a line of the list, and every line read so far
  with a key has an item; without it an answer could be right for the table and
  wrong for the list;
- `InOrder`: once loaded, the whole list has been read and the table is sorted;
  that is what lets a probe discard half of the window;
- `EmptyAtFirst` and `AsksForKey`, which tie the first step of each phase to it.

`RearrangedItems` shows that sorting neither loses nor invents an item,
`MidInWindow` and `ProbedItem` that the element a probe looks at exists, and
`Halving` is the arithmetic of one probe.

### Only model-checked

- Every liveness property, since TLAPS proves neither fairness nor `ENABLED`:
  `Termination`, `PoolProgress`, `EveryConnectionEnds`, `Returns`,
  `EveryRequestServed`, `EveryClientServed`, `EveryoneAnswered`, `ProgramEnds` and
  `DestroyEmpties`.
- `KeptFilesComplete` and `AnswerMatchesRequest` of `GetFile`, which composes the two
  libraries. `PathComesThrough` and `FileComesThrough` are its two halves, for a
  peer that may send anything, hence for the other library, too. What is missing is
  the invariant of the connection between them: that what one side has sent is
  `request` or `response` at the other, that the connection being served is the one of
  the present request, and that the handler has read its file from the beginning
  as far as it has sent it. All variables of both libraries would be in it.
- `ImplementsDeque` says nothing about progress; that `steque_destroy` comes to its
  end is `DestroyEmpties` above.

## 6. What is not modelled

- Option parsing, usage texts, progress output and signal handlers: no state of
  interest, or an exit.
- `malloc`, `strdup` and `fwrite` are taken to succeed, in `ClientPool` also
  `pthread_create`; an `accept` that fails is tried again by the code. The hazards without a property
  name the ones that matter.
- The handler of `gflib`, and the libraries behind `mtgf`, are object files that are
  not in the repository: external, as far as the callers rely on them.
- Several `gfc_perform` calls on one handle: no program here does that.
- Inputs beyond fixed sizes: content lines longer than the key buffer, which `fgets`
  would split, workloads of more than 100 paths or paths of more than 255
  characters, and request paths that do not fit `gfc_perform`'s buffer.
- The random mode of `workload_get_path`: nothing switches it on.
- The client's part of `Transfer` before its connection is one step; its address
  loop is the one of `Echo`.

## 7. Plan

1. Proofs: the invariant of the connections in `GetFile`, then
   `AnswerMatchesRequest` and `KeptFilesComplete` from it.
2. A failing `pthread_create` in `ClientPool`, a short `fwrite` in `writecb`.
