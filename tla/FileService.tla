----------------------------- MODULE FileService -----------------------------
(***************************************************************************)
(* What a client of the multithreaded server may count on, connection by   *)
(* connection, with no thread or queue in sight: a request is answered by  *)
(* one header that tells the truth about the catalog, an announced file    *)
(* arrives byte by byte from its beginning, and the server never closes    *)
(* the connection before the client does.  A request for a file that the   *)
(* catalog has may also be answered by an ERROR header, and a client that  *)
(* leaves before its answer is complete may take the server down.          *)
(***************************************************************************)
EXTENDS Integers, SequencesExt

CONSTANTS Conn,      \* connections
          Key,       \* the paths that are asked for
          NoKey,     \* nothing has been asked for
          Size,      \* the size of every file in the catalog
          NoHeader   \* no header has been sent

VARIABLES phase,    \* of each connection: "none", "open" or "closed"
          asked,    \* the path it asks for
          client,   \* its client: "none", "waiting" or "left"
          header,   \* the header the client received
          body,     \* the bytes the client received
          up        \* the server process lives

vars == <<phase, asked, client, header, body, up>>

Catalog == DOMAIN Size

(* The bytes of a file, told apart by file and position. *)
File(k) == [i \in 1..Size[k] |-> <<k, i>>]

OKHeader(k) == [status |-> "OK", len |-> Size[k]]
ErrorHeader(s) == [status |-> s, len |-> 0]

Refusals(k) == {ErrorHeader(IF k \in Catalog THEN "ERROR" ELSE "FILE_NOT_FOUND")}

Answered(c) == \/ header[c] \in Refusals(asked[c])
               \/ /\ asked[c] \in Catalog
                  /\ header[c] = OKHeader(asked[c])
                  /\ body[c] = File(asked[c])

Init == /\ phase = [c \in Conn |-> "none"]
        /\ asked = [c \in Conn |-> NoKey]
        /\ client = [c \in Conn |-> "none"]
        /\ header = [c \in Conn |-> NoHeader]
        /\ body = [c \in Conn |-> << >>]
        /\ up = TRUE

Ask(c, k) == /\ up /\ phase[c] # "open" /\ client[c] # "waiting"
             /\ phase' = [phase EXCEPT ![c] = "open"]
             /\ asked' = [asked EXCEPT ![c] = k]
             /\ client' = [client EXCEPT ![c] = "waiting"]
             /\ header' = [header EXCEPT ![c] = NoHeader]
             /\ body' = [body EXCEPT ![c] = << >>]
             /\ UNCHANGED up

Answer(c) == /\ up /\ phase[c] = "open" /\ client[c] = "waiting"
             /\ \/ /\ header[c] = NoHeader
                   /\ header' \in {[header EXCEPT ![c] = h] : h \in
                        Refusals(asked[c]) \cup
                        (IF asked[c] \in Catalog THEN {OKHeader(asked[c])} ELSE {})}
                   /\ UNCHANGED body
                \/ /\ asked[c] \in Catalog
                   /\ header[c] = OKHeader(asked[c])
                   /\ \E n \in Len(body[c]) + 1 .. Size[asked[c]] :
                        body' = [body EXCEPT ![c] = SubSeq(File(asked[c]), 1, n)]
                   /\ UNCHANGED header
             /\ UNCHANGED <<phase, asked, client, up>>

Leave(c) == /\ client[c] = "waiting"
            /\ client' = [client EXCEPT ![c] = "left"]
            /\ UNCHANGED <<phase, asked, header, body, up>>

Close(c) == /\ up /\ phase[c] = "open" /\ client[c] = "left"
            /\ phase' = [phase EXCEPT ![c] = "closed"]
            /\ UNCHANGED <<asked, client, header, body, up>>

Die == /\ up
       /\ \E c \in Conn : client[c] = "left" /\ phase[c] = "open" /\ ~Answered(c)
       /\ up' = FALSE
       /\ UNCHANGED <<phase, asked, client, header, body>>

Next == \/ \E c \in Conn : \/ \E k \in Key : Ask(c, k)
                           \/ Answer(c) \/ Leave(c) \/ Close(c)
        \/ Die

Spec == Init /\ [][Next]_vars
=============================================================================
