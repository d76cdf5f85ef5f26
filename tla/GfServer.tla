------------------------------ MODULE GfServer -------------------------------
(***************************************************************************)
(* gflib/gfserver.c: set the socket up, with the calls of Listener, then   *)
(* accept one connection after the other, collect its request header from  *)
(* a stream that arrives in any pieces, and refuse it or call the handler. *)
(*                                                                         *)
(* Streams are sequences of symbols as in GfClient: the scheme "GETFILE    *)
(* GET ", or another word in its place, is one symbol of 12 bytes, a path  *)
(* is a slash and symbols for the rest.  The handler is another object     *)
(* file; it answers through gfs_send and gfs_sendheader and may call       *)
(* gfs_abort.                                                              *)
(***************************************************************************)
EXTENDS Integers, SequencesExt

CONSTANTS Conn,         \* the clients, each connects once
          NoConn,
          Requests,     \* what clients may send: sequences of symbols
          HeaderSize,   \* sizeof(header)
          Troubles      \* which of "reset", "leave" may happen

ASSUME SizesAssumption == HeaderSize \in Nat \ {0}
ASSUME ConnAssumption == NoConn \notin Conn
ASSUME SymbolsAssumption == Requests \subseteq Seq(Nat)

VARIABLES
  pc,         \* a step of Listener, "listening" for the accept, then "receive",
              \* "check", "handler"
  res, lfd,   \* of Listener
  cur,        \* the connection being served
  pending,    \* the kernel's queue of connections not yet accepted
  fd,         \* of each connection, on the server: "none", "open", "closed"
  ctx,        \* its context: "none", "live" or "freed"
  header,     \* the first header_length bytes of the header buffer
  request,    \* all that a client sends
  incoming,   \* the part of it that has not been received
  peer,       \* "none", "waiting", "left" or "reset"
  handled,    \* the path the handler was called with
  reply,      \* what the client got: "none", "INVALID" or "answer"
  fault,      \* a freed context or a closed descriptor was used
  up          \* the process lives

set == <<res, lfd>>
served == <<fd, ctx>>
clients == <<pending, request, incoming, peer>>
vars == <<pc, set, cur, header, served, clients, handled, reply, fault, up>>

CR == 13
LF == 10
Slash == 47
Delimiter == <<CR, LF, CR, LF>>
Scheme == 256
OtherScheme == 257
NoPath == << >>

Socket == INSTANCE Listener WITH step <- pc

Init == /\ Socket!Init
        /\ cur = NoConn
        /\ pending = << >>
        /\ fd = [c \in Conn |-> "none"] /\ ctx = [c \in Conn |-> "none"]
        /\ header = << >>
        /\ request = [c \in Conn |-> << >>] /\ incoming = [c \in Conn |-> << >>]
        /\ peer = [c \in Conn |-> "none"]
        /\ handled = [c \in Conn |-> NoPath] /\ reply = [c \in Conn |-> "none"]
        /\ fault = FALSE
        /\ up = TRUE

----------------------------------------------------------------------------
(* The clients *)

(* The argument of listen. *)
ListenBacklog == 5

ClientConnects(c, r) ==
  /\ pc \in {"listening", "receive", "check", "handler"}
  /\ peer[c] = "none" /\ Len(pending) < ListenBacklog
  /\ peer' = [peer EXCEPT ![c] = "waiting"]
  /\ request' = [request EXCEPT ![c] = r] /\ incoming' = [incoming EXCEPT ![c] = r]
  /\ pending' = Append(pending, c)
  /\ UNCHANGED <<set, pc, cur, header, served, handled, reply, fault, up>>

(* With its answer, or before it; part of the request may never be sent. *)
ClientLeaves(c) ==
  /\ peer[c] = "waiting"
  /\ \/ reply[c] # "none" /\ UNCHANGED <<request, incoming>>
     \/ /\ "leave" \in Troubles
        /\ LET got == Len(request[c]) - Len(incoming[c])
           IN  \E n \in got..Len(request[c]) :
                 /\ request' = [request EXCEPT ![c] = SubSeq(@, 1, n)]
                 /\ incoming' = [incoming EXCEPT ![c] = SubSeq(request[c], got + 1, n)]
  /\ peer' = [peer EXCEPT ![c] = "left"]
  /\ UNCHANGED <<set, pc, cur, pending, header, served, handled, reply, fault, up>>

ClientResets(c) == /\ "reset" \in Troubles /\ peer[c] = "waiting"
                   /\ peer' = [peer EXCEPT ![c] = "reset"]
                   /\ UNCHANGED <<set, pc, cur, pending, request, incoming, header, served,
                                  handled, reply, fault, up>>

----------------------------------------------------------------------------
(* gfserver_serve *)

(* gfserver_setup_socket; gfserver_serve returns when a call fails. *)
Setup == /\ Socket!Next
         /\ UNCHANGED <<cur, header, served, clients, handled, reply, fault, up>>

\* Mutant: header_length keeps the value it had for the last connection.
Accept_KeepHeader == /\ pc = "listening" /\ pending # << >>
                     /\ cur' = Head(pending) /\ pending' = Tail(pending)
                     /\ fd' = [fd EXCEPT ![cur'] = "open"]
                     /\ ctx' = [ctx EXCEPT ![cur'] = "live"]
                     /\ pc' = "receive"
                     /\ UNCHANGED <<set, header, request, incoming, peer, handled, reply, fault,
                                    up>>

Accept == /\ pc = "listening" /\ pending # << >>
          /\ cur' = Head(pending) /\ pending' = Tail(pending)
          /\ fd' = [fd EXCEPT ![cur'] = "open"]
          /\ ctx' = [ctx EXCEPT ![cur'] = "live"]
          /\ header' = << >>
          /\ pc' = "receive"
          /\ UNCHANGED <<set, request, incoming, peer, handled, reply, fault, up>>

(* Where the delimiter begins in h, at start or later, counted from 0. *)
DelimitersFrom(start, h) == {i \in start..Len(h) - 4 : SubSeq(h, i + 1, i + 4) = Delimiter}

\* Mutant: the search begins with the bytes just received.
ScanStart_New(length, received) == length - received

(* length counts the bytes just received. *)
ScanStart(length, received) ==
  LET start == IF length >= 4 THEN length - received - 3 ELSE 0
  IN  IF start < 0 THEN 0 ELSE start

(* What one recv may return: one byte of the buffer is kept free. *)
Received == {n \in 1..Len(incoming[cur]) : n <= HeaderSize - Len(header) - 1}

Receive ==
  /\ pc = "receive" /\ peer[cur] # "reset"
  /\ \E n \in Received :
       /\ incoming' = [incoming EXCEPT ![cur] = SubSeq(@, n + 1, Len(@))]
       /\ header' = header \o SubSeq(incoming[cur], 1, n)
       /\ pc' = IF DelimitersFrom(ScanStart(Len(header'), n), header') = {}
                  THEN "receive" ELSE "check"
  /\ UNCHANGED <<set, cur, served, pending, request, peer, handled, reply, fault, up>>

(* recv returns 0: the client has closed, or the buffer has no space left. *)
ReceiveEnds == /\ pc = "receive"
               /\ \/ incoming[cur] = << >> /\ peer[cur] = "left"
                  \/ Len(header) = HeaderSize - 1 /\ peer[cur] # "reset"
               /\ pc' = "check"
               /\ UNCHANGED <<set, cur, header, served, clients, handled, reply, fault, up>>

(* recv fails: close and free, and on to the checks all the same. *)
ReceiveFails == /\ pc = "receive" /\ peer[cur] = "reset"
                /\ fd' = [fd EXCEPT ![cur] = "closed"]
                /\ ctx' = [ctx EXCEPT ![cur] = "freed"]
                /\ pc' = "check"
                /\ UNCHANGED <<set, cur, header, clients, handled, reply, fault, up>>

(* gfs_sendheader and gfs_send repeat send until all is sent.  A client that
   is gone gets nothing; the send fails or raises SIGPIPE. *)
Send(what) == IF peer[cur] = "waiting"
                THEN reply' = [reply EXCEPT ![cur] = what] /\ UNCHANGED up
                ELSE UNCHANGED reply /\ up' \in {TRUE, FALSE}

(* close and free, as in gfs_abort. *)
Discard == /\ fd' = [fd EXCEPT ![cur] = "closed"]
           /\ ctx' = [ctx EXCEPT ![cur] = "freed"]

Bytes(h) == Len(h) + IF h # << >> /\ h[1] \in {Scheme, OtherScheme} THEN 11 ELSE 0

\* Mutant: no look at the end of the header.
WellFormed_AnyEnd(h) == /\ Bytes(h) >= 16
                        /\ h[1] = Scheme
                        /\ h[2] = Slash

WellFormed(h) == /\ Bytes(h) >= 16
                 /\ h[1] = Scheme
                 /\ h[2] = Slash
                 /\ SubSeq(h, Len(h) - 3, Len(h)) = Delimiter

PathIn(h) == SubSeq(h, 2, Len(h) - 4)

\* Mutant: the answer is sent and the loop goes on, as after the handler.
Refuse_KeepOpen == /\ pc = "check" /\ ~WellFormed(header)
                   /\ ctx[cur] = "live"
                   /\ Send("INVALID")
                   /\ pc' = "listening" /\ cur' = NoConn
                   /\ UNCHANGED <<set, header, served, clients, handled, fault>>

Refuse == /\ pc = "check" /\ ~WellFormed(header)
          /\ ctx[cur] = "live"
          /\ Send("INVALID")
          /\ Discard
          /\ pc' = "listening" /\ cur' = NoConn
          /\ UNCHANGED <<set, header, clients, handled, fault>>

(* The same statements on a context that is already freed.  Its conn_fd may
   hold anything, also the descriptor of another connection, and the second
   free may end the process. *)
RefuseFreed == /\ pc = "check" /\ ~WellFormed(header)
               /\ ctx[cur] = "freed"
               /\ fault' = TRUE
               /\ \/ UNCHANGED <<fd, reply>>
                  \/ \E d \in Conn :
                       /\ fd[d] = "open"
                       /\ fd' = [fd EXCEPT ![d] = "closed"]
                       /\ reply' = IF peer[d] = "waiting"
                                     THEN [reply EXCEPT ![d] = "INVALID"] ELSE reply
               /\ up' \in {TRUE, FALSE}
               /\ pc' = "listening" /\ cur' = NoConn
               /\ UNCHANGED <<set, ctx, header, clients, handled>>

CallHandler == /\ pc = "check" /\ WellFormed(header)
               /\ handled' = [handled EXCEPT ![cur] = PathIn(header)]
               /\ pc' = "handler"
               /\ UNCHANGED <<set, cur, header, served, clients, reply, fault, up>>

(* Once the handler has returned, the loop leaves the connection as it is. *)
HandlerReturns == /\ pc = "handler"
                  /\ \/ Send("answer") /\ UNCHANGED served
                     \/ Discard /\ UNCHANGED <<reply, up>>
                  /\ pc' = "listening" /\ cur' = NoConn
                  /\ UNCHANGED <<set, header, clients, handled, fault>>

Serve == \/ Setup \/ Accept \/ Receive \/ ReceiveEnds \/ ReceiveFails
         \/ Refuse \/ RefuseFreed \/ CallHandler \/ HandlerReturns

Next == \/ up /\ Serve
        \/ up /\ \E c \in Conn : \/ \E r \in Requests : ClientConnects(c, r)
                                 \/ ClientLeaves(c) \/ ClientResets(c)

(* The one thread runs whenever it is not blocked, and a client whose request
   has no end gives up at last; without that it would hold up all others. *)
Spec == Init /\ [][Next]_vars
FairSpec == /\ Spec
            /\ WF_vars(up /\ Serve)
            /\ \A c \in Conn : WF_vars(up /\ DelimitersFrom(0, request[c]) = {} /\ ClientLeaves(c))
----------------------------------------------------------------------------

(* In whatever pieces a request arrives, and wherever it is cut off, it is
   judged by its whole text: the handler is called for well-formed requests
   that fit the buffer, with the path they name, and no such request is
   refused.  Behind the delimiter of a request more may follow: then the pieces
   decide how much of it is taken for the request and whether it is refused,
   but what is handled is a beginning of the text that ends with a delimiter.
   A header of an earlier connection, still in the buffer, never
   shows, and the byte kept for the terminator stays free.  Once a freed
   context has been used nothing can be said; but that begins with a
   connection that breaks while its header is being received, and clients that
   stop, leave or send nonsense do not lead there. *)
Request(path) == <<Scheme>> \o path \o Delimiter
Acceptable(r) == /\ Len(r) < HeaderSize
                 /\ IsPrefix(<<Scheme, Slash>>, r) /\ IsSuffix(Delimiter, r)
EndsAtDelimiter(r) == \A i \in DelimitersFrom(0, r) : i = Len(r) - 4

RequestsJudged ==
  IF fault
    THEN \E c \in Conn : peer[c] = "reset" /\ ctx[c] = "freed"
    ELSE /\ \A c \in Conn :
              /\ handled[c] # NoPath =>
                   Acceptable(Request(handled[c])) /\ IsPrefix(Request(handled[c]), request[c])
              /\ reply[c] = "INVALID" /\ EndsAtDelimiter(request[c]) => ~Acceptable(request[c])
         /\ Len(header) < HeaderSize

(* A context that was given back is not used, closed or freed again. *)
NoUseAfterFree == ~fault

(* Once the server listens, every client that sends a request to its end and
   waits is dealt with, whatever the others send, leave out or break off: its
   connection is closed or the handler has answered. *)
EveryRequestServed ==
  \A c \in Conn :
    (up /\ peer[c] = "waiting") ~> (~up \/ peer[c] # "waiting" \/ fd[c] = "closed"
                                        \/ reply[c] # "none")

(* What the loop leaves open when it goes back to accept are connections whose
   handler was called, and nothing else: no refusal and no failed receive
   costs a descriptor or a context. *)
OnlyAnsweredLeftOpen ==
  pc = "listening" =>
    \A c \in Conn : fd[c] = "open" \/ ctx[c] = "live" => handled[c] # NoPath
=============================================================================
