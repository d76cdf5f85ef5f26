------------------------------ MODULE Transfer -------------------------------
(***************************************************************************)
(* transfer/transferserver.c and transfer/transferclient.c: the server     *)
(* reads its file from the beginning for one connection after the other    *)
(* and sends it in pieces of one buffer; a client writes what it receives  *)
(* until the connection ends.  The set-up of the socket, call by call, is  *)
(* that of Listener.                                                       *)
(*                                                                         *)
(* The operating system is external: read, recv, send and write may be     *)
(* short, the latter two only when Troubles allows it, and calls on a      *)
(* connection whose other end is gone fail.                                *)
(***************************************************************************)
EXTENDS Integers, SequencesExt

CONSTANTS Client, NoClient,
          File,       \* the bytes of the file, all different
          BufSize,    \* BUFSIZE of both programs
          Troubles    \* which of "send", "write", "leave", "read",
                      \* "seek" may happen

ASSUME BufferAssumption == BufSize \in Nat \ {0}
ASSUME ClientAssumption == NoClient \notin Client
ASSUME FileAssumption == File \in Seq(Nat)

VARIABLES
  spc,        \* the server: a step of Listener, "listening", then "accept",
              \* "read", "send", "exited"
  res, lfd,   \* of Listener
  pending,    \* connections not yet accepted
  conn,       \* the connection being served
  position,   \* the file offset of the server's descriptor
  chunk,      \* the rd bytes in the server's buffer
  sent,
  cpc,        \* each client: "new", "receive", "write", "done", "failed"
  wire,       \* the bytes on their way to each client
  closed,     \* the server has closed the connection
  short,      \* a call of send or write has taken less than it was offered
  got,        \* the received bytes in each client's buffer
  written,
  output      \* the file each client writes

set == <<res, lfd>>
server == <<spc, pending, conn, position, chunk, sent>>
locals == <<got, written, output>>
stream == <<wire, closed, short>>
vars == <<set, server, cpc, locals, stream>>

Setup == INSTANCE Listener WITH step <- spc

Smaller(m, n) == IF m < n THEN m ELSE n

Init == /\ Setup!Init
        /\ pending = << >> /\ conn = NoClient
        /\ position = 0 /\ chunk = << >> /\ sent = 0
        /\ cpc = [c \in Client |-> "new"]
        /\ wire = [c \in Client |-> << >>] /\ closed = [c \in Client |-> FALSE]
        /\ got = [c \in Client |-> << >>] /\ written = [c \in Client |-> 0]
        /\ output = [c \in Client |-> << >>]
        /\ short = [c \in Client |-> FALSE]

Listening == spc \in {"listening", "accept", "read", "send"}
Connected(c) == cpc[c] \in {"receive", "write"}

----------------------------------------------------------------------------
(* The server *)

Start == /\ Setup!Next
         /\ UNCHANGED <<pending, conn, position, chunk, sent, cpc, locals, stream>>

(* exit(1), or the default action of SIGPIPE: the server is gone for all. *)
Exit == /\ spc' = "exited"
        /\ lfd' = "closed"
        /\ closed' = [c \in Client |-> TRUE]
        /\ UNCHANGED <<res, pending, conn, position, chunk, sent, cpc, locals, wire, short>>

(* The file is opened last; clients may be waiting by then. *)
OpenFile == /\ spc = "listening"
            /\ \/ Exit
               \/ /\ spc' = "accept"
                  /\ UNCHANGED <<set, pending, conn, position, chunk, sent, cpc, locals,
                                 stream>>

\* Mutant: no lseek.
Accept_NoSeek == /\ spc = "accept" /\ pending # << >>
                 /\ conn' = Head(pending) /\ pending' = Tail(pending)
                 /\ spc' = "read"
                 /\ UNCHANGED <<set, position, chunk, sent, cpc, locals, stream>>

Accept == /\ spc = "accept" /\ pending # << >>
          /\ conn' = Head(pending) /\ pending' = Tail(pending)
          /\ position' = 0
          /\ spc' = "read"
          /\ UNCHANGED <<set, chunk, sent, cpc, locals, stream>>

ReadChunk == /\ spc = "read" /\ position < Len(File)
             /\ \E n \in 1..Smaller(BufSize, Len(File) - position) :
                  /\ chunk' = SubSeq(File, position + 1, position + n)
                  /\ position' = position + n
             /\ sent' = 0
             /\ spc' = "send"
             /\ UNCHANGED <<set, pending, conn, cpc, locals, stream>>

\* Mutant: the connection is not closed at the end of the file.
EndOfFile_KeepOpen == /\ spc = "read" /\ position = Len(File)
                      /\ spc' = "accept" /\ conn' = NoClient
                      /\ UNCHANGED <<set, pending, position, chunk, sent, cpc, locals, stream>>

EndOfFile == /\ spc = "read" /\ position = Len(File)
             /\ closed' = [closed EXCEPT ![conn] = TRUE]
             /\ spc' = "accept" /\ conn' = NoClient
             /\ UNCHANGED <<set, pending, position, chunk, sent, cpc, locals, wire, short>>

(* How much of length bytes one call of send or write accepts. *)
Accepted(call, length) == IF call \in Troubles THEN 1..length ELSE {length}

\* Mutant: the loop goes round once more.
SentAll_Late == sent' > Len(chunk)

SentAll == sent' >= Len(chunk)

(* Each call offers the buffer from its beginning, rd bytes of it, however
   much of it was taken before.  It may succeed although the client is gone: that shows only later. *)
Send == /\ spc = "send"
        /\ \E n \in Accepted("send", Len(chunk)) :
             /\ wire' = [wire EXCEPT ![conn] = @ \o SubSeq(chunk, 1, n)]
             /\ sent' = sent + n
             /\ short' = [short EXCEPT ![conn] = @ \/ n < Len(chunk)]
        /\ spc' = IF SentAll THEN "read" ELSE "send"
        /\ UNCHANGED <<set, pending, conn, position, chunk, cpc, locals, closed>>

SendFails == /\ spc = "send" /\ ~Connected(conn)
             /\ Exit

(* lseek fails for a connection that was just accepted. *)
SeekFails == /\ spc = "accept" /\ pending # << >> /\ "seek" \in Troubles
             /\ Exit

ReadFails == /\ spc = "read" /\ "read" \in Troubles
             /\ Exit

----------------------------------------------------------------------------
(* A client *)

(* The output file is opened, and with it emptied, before the loop over the
   addresses; any call up to the connection may fail. *)
Connect(c) == /\ cpc[c] = "new"
              /\ \/ /\ cpc' = [cpc EXCEPT ![c] = "failed"]
                    /\ UNCHANGED pending
                 \/ /\ Listening
                    /\ cpc' = [cpc EXCEPT ![c] = "receive"]
                    /\ pending' = Append(pending, c)
              /\ UNCHANGED <<set, spc, conn, position, chunk, sent, locals, stream>>

Space(c) == Smaller(BufSize, Len(wire[c]))

Receive(c) == /\ cpc[c] = "receive"
              /\ \E n \in 1..Space(c) :
                   /\ got' = [got EXCEPT ![c] = SubSeq(wire[c], 1, n)]
                   /\ wire' = [wire EXCEPT ![c] = SubSeq(@, n + 1, Len(@))]
              /\ written' = [written EXCEPT ![c] = 0]
              /\ cpc' = [cpc EXCEPT ![c] = "write"]
              /\ UNCHANGED <<set, server, output, closed, short>>

(* Each call offers the buffer from its beginning, received bytes of it. *)
Write(c) == /\ cpc[c] = "write"
            /\ \E n \in Accepted("write", Len(got[c])) :
                 /\ output' = [output EXCEPT ![c] = @ \o SubSeq(got[c], 1, n)]
                 /\ written' = [written EXCEPT ![c] = @ + n]
                 /\ short' = [short EXCEPT ![c] = @ \/ n < Len(got[c])]
            /\ cpc' = IF written'[c] < Len(got[c]) THEN cpc
                                                  ELSE [cpc EXCEPT ![c] = "receive"]
            /\ UNCHANGED <<set, server, got, wire, closed>>

(* recv returns 0: the file is taken to be complete. *)
Finish(c) == /\ cpc[c] = "receive" /\ wire[c] = << >> /\ closed[c]
             /\ cpc' = [cpc EXCEPT ![c] = "done"]
             /\ UNCHANGED <<set, server, locals, stream>>

(* recv or write fails, or somebody stops the client. *)
Leave(c) == /\ Connected(c)
            /\ "leave" \in Troubles \/ spc = "exited"
            /\ cpc' = [cpc EXCEPT ![c] = "failed"]
            /\ UNCHANGED <<set, server, locals, stream>>

----------------------------------------------------------------------------

ServerStep == \/ OpenFile \/ Accept \/ ReadChunk \/ EndOfFile \/ Send
              \/ SeekFails \/ SendFails \/ ReadFails
ClientStep(c) == Receive(c) \/ Write(c) \/ Finish(c)

Next == Start \/ ServerStep \/ \E c \in Client : Connect(c) \/ ClientStep(c) \/ Leave(c)

(* Both programs run whenever they are not blocked. *)
Spec == Init /\ [][Next]_vars
FairSpec == Spec /\ WF_vars(ServerStep) /\ \A c \in Client : WF_vars(ClientStep(c))
----------------------------------------------------------------------------

(* All that a client has been sent, in the order of the bytes: its file, what its
   buffer still holds and what is on the wire. *)
Rest(c) == SubSeq(got[c], written[c] + 1, Len(got[c]))
Total(c) == output[c] \o Rest(c) \o wire[c]

(* What a client has is a beginning of the file as long as none of its own sends
   and writes was short: nothing is repeated, left out or mixed with another
   client's transfer.  A short call repeats bytes, since the next one offers the
   whole buffer again, and with several short calls for one buffer the end of it
   may be left out.  Even then it has bytes of the file only, never what
   an earlier read or client has left in a buffer. *)
StreamIsFile ==
  \A c \in Client : cpc[c] # "failed" =>
    /\ ~short[c] => IsPrefix(Total(c), File)
    /\ Range(Total(c)) \subseteq Range(File)

(* A client that ends without an error has the whole file, unless the server
   broke down: the end of the connection is all it has to go by.  The former
   client's offset, or a transfer of that client cut off, makes no difference.
   With short calls the bytes may be the wrong ones, but never too few: both
   loops count until the length of the buffer is reached. *)
FileArrives ==
  \A c \in Client : cpc[c] = "done" /\ spc # "exited" =>
    /\ ~short[c] => output[c] = File
    /\ Len(output[c]) >= Len(File)

(* Every client that connects and stays gets the whole file, as long as the
   server runs: it is not kept waiting for ever by those before it, and its own
   transfer comes to an end. *)
EveryClientServed ==
  \A c \in Client :
    cpc[c] = "receive" ~> \/ cpc[c] = "failed" \/ spc = "exited"
                          \/ cpc[c] = "done" /\ (short[c] \/ output[c] = File)
=============================================================================
