--------------------------------- MODULE Echo ---------------------------------
(***************************************************************************)
(* echo/echoserver.c and echo/echoclient.c.  The server serves one         *)
(* connection after the other and sends back whatever one recv returns,    *)
(* until the connection ends.  A client sends its message once, receives   *)
(* once, prints what it got and exits.                                     *)
(*                                                                         *)
(* A recv may return any part of what has arrived.  A send is taken whole: *)
(* neither program offers more than an empty socket buffer holds.          *)
(***************************************************************************)
EXTENDS Integers, SequencesExt

CONSTANTS Client, NoClient,
          Messages,       \* what clients may send: sequences of bytes
          AddressLists,   \* what getaddrinfo may return: sequences of records
                          \* [family, up], up if the server can be reached there
          BufSize,        \* the size of both programs' buffers
          Leaving         \* clients may be stopped at any time

ASSUME BufferAssumption == BufSize \in Nat \ {0}
ASSUME ClientAssumption == NoClient \notin Client
ASSUME MessagesAssumption == Messages \subseteq Seq(Nat)
(* A list that getaddrinfo returns is never empty. *)
ASSUME AddressesAssumption ==
  AddressLists \subseteq Seq([family : Nat, up : BOOLEAN]) \ {<< >>}

VARIABLES
  spc,        \* the server: a step of Listener, "listening", "recv", "send", "exited"
  res, lfd,   \* of Listener
  pending,    \* connections not yet accepted
  conn,       \* the connection being served
  fd,         \* its descriptor on the server: "none", "open" or "closed"
  buffer,     \* all BufSize bytes, older ones behind the newest
  received,   \* how many of them the last recv returned
  cpc,        \* "start", "connect", "send", "recv", "done", "failed", "unreachable"
  addresses, addr,      \* each client's list and the address to be tried next
  message, output,
  toServer, toClient    \* the bytes on their way

server == <<pending, conn, fd, buffer, received>>
locals == <<addresses, addr, message>>
streams == <<toServer, toClient, output>>
vars == <<spc, res, lfd, server, cpc, locals, streams>>

Setup == INSTANCE Listener WITH step <- spc

Smaller(m, n) == IF m < n THEN m ELSE n
Gone(c) == cpc[c] \in {"done", "failed"}

Init == /\ Setup!Init
        /\ pending = << >> /\ conn = NoClient
        /\ fd = [c \in Client |-> "none"]
        /\ buffer = [i \in 1..BufSize |-> 0] /\ received = 0
        /\ cpc = [c \in Client |-> "start"]
        /\ addresses = [c \in Client |-> << >>] /\ addr = [c \in Client |-> 1]
        /\ message \in [Client -> Messages]
        /\ output = [c \in Client |-> << >>]
        /\ toServer = [c \in Client |-> << >>] /\ toClient = [c \in Client |-> << >>]

----------------------------------------------------------------------------
(* The server *)

Start == /\ Setup!Next
         /\ UNCHANGED <<server, cpc, locals, streams>>

Accept == /\ spc = "listening" /\ pending # << >>
          /\ conn' = Head(pending) /\ pending' = Tail(pending)
          /\ fd' = [fd EXCEPT ![conn'] = "open"]
          /\ spc' = "recv"
          /\ UNCHANGED <<res, lfd, buffer, received, cpc, locals, streams>>

ServerReceive ==
  /\ spc = "recv"
  /\ \E n \in 1..Smaller(BufSize, Len(toServer[conn])) :
       /\ buffer' = [i \in 1..BufSize |-> IF i <= n THEN toServer[conn][i] ELSE buffer[i]]
       /\ received' = n
       /\ toServer' = [toServer EXCEPT ![conn] = SubSeq(@, n + 1, Len(@))]
  /\ spc' = "send"
  /\ UNCHANGED <<res, lfd, pending, conn, fd, cpc, locals, toClient, output>>

CloseConnection == /\ fd' = [fd EXCEPT ![conn] = "closed"]
                   /\ conn' = NoClient
                   /\ spc' = "listening"
                   /\ UNCHANGED <<res, lfd, pending, buffer, received, cpc, locals, streams>>

(* recv returns 0 once all is received, or fails where the client has reset
   the connection. *)
ConnectionEnds == spc = "recv" /\ Gone(conn) /\ CloseConnection

\* Mutant: send is offered the whole buffer.
Echoed_Buffer == buffer

Echoed == SubSeq(buffer, 1, received)

(* What is sent to a client that is gone is lost. *)
ServerSend == /\ spc = "send"
              /\ IF Gone(conn) THEN UNCHANGED toClient
                               ELSE toClient' = [toClient EXCEPT ![conn] = @ \o Echoed]
              /\ spc' = "recv"
              /\ UNCHANGED <<res, lfd, server, cpc, locals, toServer, output>>

\* Mutant: the connection is left open.
SendFails_KeepOpen == /\ spc = "send" /\ Gone(conn)
                      /\ conn' = NoClient
                      /\ spc' = "listening"
                      /\ UNCHANGED <<res, lfd, pending, fd, buffer, received, cpc, locals,
                                     streams>>

SendFails == spc = "send" /\ Gone(conn) /\ CloseConnection

(* Once the reset of a client that is gone has arrived, send raises SIGPIPE:
   the process ends and with it all its descriptors. *)
SendKills == /\ spc = "send" /\ Gone(conn)
             /\ spc' = "exited"
             /\ lfd' = "closed"
             /\ fd' = [c \in Client |-> IF fd[c] = "open" THEN "closed" ELSE fd[c]]
             /\ UNCHANGED <<res, pending, conn, buffer, received, cpc, locals, streams>>

----------------------------------------------------------------------------
(* A client, started once the server listens *)

Goes(c, to) == cpc' = [cpc EXCEPT ![c] = to]

(* getaddrinfo, and a socket of the first address's family; both may fail. *)
Resolve(c) == /\ cpc[c] = "start" /\ lfd = "open" /\ spc \in {"listening", "recv", "send"}
              /\ \/ Goes(c, "failed") /\ UNCHANGED addresses
                 \/ \E list \in AddressLists :
                      addresses' = [addresses EXCEPT ![c] = list] /\ Goes(c, "connect")
              /\ UNCHANGED <<spc, res, lfd, server, addr, message, streams>>

\* Mutant: one address is tried.
Connect_FirstOnly(c) ==
  LET list == addresses[c]
  IN  /\ cpc[c] = "connect"
      /\ IF lfd = "open" /\ list[1].up
           THEN Goes(c, "send") /\ pending' = Append(pending, c)
           ELSE Goes(c, "unreachable") /\ UNCHANGED pending
      /\ UNCHANGED <<spc, res, lfd, conn, fd, buffer, received, locals, streams>>

(* The one socket is tried with every address; connect refuses an address of
   another family than the socket's. *)
Connect(c) ==
  LET list == addresses[c]
      i == addr[c]
  IN  /\ cpc[c] = "connect"
      /\ IF lfd = "open" /\ list[i].up /\ list[i].family = list[1].family
           THEN Goes(c, "send") /\ pending' = Append(pending, c) /\ UNCHANGED addr
           ELSE /\ addr' = [addr EXCEPT ![c] = i + 1]
                /\ IF i = Len(list) THEN Goes(c, "unreachable") ELSE UNCHANGED cpc
                /\ UNCHANGED pending
      /\ UNCHANGED <<spc, res, lfd, conn, fd, buffer, received, addresses, message, streams>>

(* An empty message sends nothing. *)
ClientSend(c) == /\ cpc[c] = "send" /\ spc # "exited"
                 /\ toServer' = [toServer EXCEPT ![c] = @ \o message[c]]
                 /\ Goes(c, "recv")
                 /\ UNCHANGED <<spc, res, lfd, server, locals, toClient, output>>

ClientReceive(c) == /\ cpc[c] = "recv"
                    /\ \E n \in 1..Smaller(BufSize, Len(toClient[c])) :
                         /\ output' = [output EXCEPT ![c] = SubSeq(toClient[c], 1, n)]
                         /\ toClient' = [toClient EXCEPT ![c] = SubSeq(@, n + 1, Len(@))]
                    /\ Goes(c, "done")
                    /\ UNCHANGED <<spc, res, lfd, server, locals, toServer>>

(* send or recv fails, or recv returns 0: the server has broken down. *)
ClientFails(c) == /\ cpc[c] \in {"send", "recv"} /\ spc = "exited"
                  /\ Goes(c, "failed")
                  /\ UNCHANGED <<spc, res, lfd, server, locals, streams>>

Leave(c) == /\ Leaving /\ cpc[c] \in {"send", "recv"}
            /\ Goes(c, "failed")
            /\ UNCHANGED <<spc, res, lfd, server, locals, streams>>

----------------------------------------------------------------------------

\* Mutant: a connection is closed only by an error.
Serve_NoEnd == Accept \/ ServerReceive \/ ServerSend \/ SendFails \/ SendKills

Serve == Accept \/ ServerReceive \/ ConnectionEnds \/ ServerSend \/ SendFails \/ SendKills
ClientStep(c) == Connect(c) \/ ClientSend(c) \/ ClientReceive(c) \/ ClientFails(c)

Next == Start \/ Serve \/ \E c \in Client : Resolve(c) \/ ClientStep(c) \/ Leave(c)

(* Both programs run whenever they are not blocked. *)
Spec == Init /\ [][Next]_vars
FairSpec == Spec /\ WF_vars(Serve) /\ \A c \in Client : WF_vars(ClientStep(c))
----------------------------------------------------------------------------

(* What is on its way to a client and what it prints is a beginning of its own
   message, whatever older messages the server's buffer still holds and however
   the bytes are grouped; a client never prints more than one buffer. *)
OwnEcho == \A c \in Client : /\ IsPrefix(output[c] \o toClient[c], message[c])
                             /\ Len(output[c]) <= BufSize

(* Every way out of a connection and out of the set-up gives back what it
   holds: between two connections none is open, and a program that has ended
   has closed its sockets and freed its addresses. *)
DescriptorsReleased ==
  /\ spc \in {"listening", "exited"} => \A c \in Client : fd[c] # "open"
  /\ spc = "exited" => res # "held" /\ lfd # "open"
  /\ spc \in {"listening", "recv", "send"} => res = "freed" /\ lfd = "open"

(* A client gives up connecting only if none of its addresses of the first
   one's family leads to the server.  Those of another family are lost on it. *)
FailsOnlyUnreachable ==
  \A c \in Client : cpc[c] = "unreachable" /\ lfd = "open" =>
    \A i \in DOMAIN addresses[c] :
      ~(addresses[c][i].up /\ addresses[c][i].family = addresses[c][1].family)

(* Whoever has connected with something to say is answered or gone at last,
   however many are before it, unless the server has broken down or sits in
   recv with a client that has sent nothing: that pair waits for ever. *)
EveryoneAnswered ==
  \A c \in Client : cpc[c] = "send" /\ message[c] # << >> ~>
    Gone(c) \/ spc = "exited" \/ (conn # NoClient /\ message[conn] = << >>)
=============================================================================
