---------------------------- MODULE TransferProofs ----------------------------
(***************************************************************************)
(* Proofs about Transfer: for any number of clients, any file and any size *)
(* of the buffers, a client receives the file from its beginning, and all  *)
(* of it if it ends without an error, until one of its own sends or writes *)
(* is short; after that it has bytes of the file still, and not too few.   *)
(***************************************************************************)
EXTENDS Transfer, SequenceTheorems, TLAPS

(***************************************************************************)
(* The inductive invariant.  What a client has in all is the file up to    *)
(* the server's offset, less the chunk that is yet to be sent; a           *)
(* connection that was closed in time has had the whole file, and nothing  *)
(* happens to a connection before it is accepted.                          *)
(***************************************************************************)

Byte == Range(File)

SettingUp == {"getaddrinfo", "socket", "setsockopt", "bind", "listen", "listening", "accept"}
Serving == {"read", "send"}

TypeOK == /\ spc \in SettingUp \union Serving \union {"exited"}
          /\ pending \in Seq(Client)
          /\ conn \in Client \union {NoClient}
          /\ position \in 0..Len(File) /\ chunk \in Seq(Byte) /\ sent \in Nat
          /\ cpc \in [Client -> {"new", "receive", "write", "done", "failed"}]
          /\ wire \in [Client -> Seq(Byte)]
          /\ closed \in [Client -> BOOLEAN] /\ short \in [Client -> BOOLEAN]
          /\ got \in [Client -> Seq(Byte)] /\ written \in [Client -> Nat]
          /\ output \in [Client -> Seq(Byte)]

(* A connection is accepted once, and before that its client has nothing. *)
Untouched(c) == /\ wire[c] = << >> /\ got[c] = << >> /\ output[c] = << >> /\ written[c] = 0
                /\ ~short[c] /\ cpc[c] # "write"
                /\ spc # "exited" => ~closed[c] /\ c # conn

Queue == /\ \A i, j \in 1..Len(pending) : pending[i] = pending[j] => i = j
         /\ \A i \in 1..Len(pending) : cpc[pending[i]] # "new" /\ Untouched(pending[i])
         /\ \A c \in Client : cpc[c] = "new" => Untouched(c)

(* A client writes what it has received before it receives more. *)
Writing == \A c \in Client :
             /\ cpc[c] \in {"receive", "done"} /\ ~short[c] => written[c] = Len(got[c])
             /\ cpc[c] = "write" /\ ~short[c] => written[c] = 0
             /\ cpc[c] = "done" => closed[c] /\ wire[c] = << >>

(* The part of the file that the server has sent to the present client. *)
Offset == IF spc = "send" THEN position - Len(chunk) ELSE position

Current ==
  /\ spc \in Serving => /\ conn \in Client /\ ~closed[conn]
                        /\ ~short[conn] => Total(conn) = SubSeq(File, 1, Offset)
  /\ spc \in SettingUp => conn = NoClient
  /\ spc = "send" => /\ Offset \in 0..position
                     /\ chunk = SubSeq(File, Offset + 1, position)
                     /\ ~short[conn] => sent = 0

Beginnings == \A c \in Client : ~short[c] => \E n \in 0..Len(File) : Total(c) = SubSeq(File, 1, n)

Complete == spc # "exited" => \A c \in Client : closed[c] /\ ~short[c] => Total(c) = File

IInv == TypeOK /\ Queue /\ Writing /\ Current /\ Beginnings /\ Complete
----------------------------------------------------------------------------
(* Lemmas about streams *)

(* The file is made of its own bytes. *)
LEMMA FileBytes == File \in Seq(Byte)
<1>1. PICK n \in Nat : n = Len(File) /\ DOMAIN File = 1..n
  BY FileAssumption
<1>2. File = [i \in 1..n |-> File[i]]
  BY <1>1, FileAssumption
<1>3. \A i \in 1..n : File[i] \in Byte
  BY <1>1 DEF Byte, Range
<1>4. File \in [1..n -> Byte]
  BY <1>2, <1>3, Zenon
<1> QED
  BY <1>4

(* Three streams may be joined in either order. *)
LEMMA Regroup == \A s, t, u \in Seq(Byte) : (s \o t) \o u = s \o (t \o u)
  BY ConcatAssociative

(* A part of a stream is a stream. *)
LEMMA PartOf ==
  ASSUME NEW s \in Seq(Byte), NEW m \in Nat \ {0}, NEW n \in 0..Len(s), m <= n + 1
  PROVE  /\ SubSeq(s, m, n) \in Seq(Byte)
         /\ Len(SubSeq(s, m, n)) = n - m + 1
         /\ \A i \in 1..n - m + 1 : SubSeq(s, m, n)[i] = s[m + i - 1]
<1>1. \A i \in m..n : s[i] \in Byte
  BY ElementOfSeq
<1> QED
  BY <1>1, SubSeqProperties

----------------------------------------------------------------------------
(* Lemmas about a client's bytes *)

(* Nothing of a buffer is left once all of it is written. *)
LEMMA NothingLeft ==
  ASSUME NEW g \in Seq(Byte)
  PROVE  SubSeq(g, Len(g) + 1, Len(g)) = << >>
  BY SubSeqEmpty

(* What is written comes from the head of the rest to the end of the file. *)
LEMMA WritingMoves ==
  ASSUME NEW a \in Seq(Byte), NEW g \in Seq(Byte), NEW w \in Seq(Byte)
  PROVE  a \o SubSeq(g, 0 + 1, Len(g)) \o w
           = a \o SubSeq(g, 1, Len(g)) \o SubSeq(g, Len(g) + 1, Len(g)) \o w
<1>1. SubSeq(g, 0 + 1, Len(g)) = g /\ SubSeq(g, 1, Len(g)) = g
  BY SubSeqFull
<1>2. SubSeq(g, Len(g) + 1, Len(g)) = << >>
  BY NothingLeft
<1>3. (a \o g) \o << >> = a \o g
  BY ConcatEmptySeq, ConcatProperties
<1> QED
  BY <1>1, <1>2, <1>3, Zenon

(* What is received comes from the head of the wire into the buffer. *)
LEMMA ReceivingMoves ==
  ASSUME NEW a \in Seq(Byte), NEW g \in Seq(Byte), NEW w \in Seq(Byte), NEW n \in 0..Len(w)
  PROVE  a \o SubSeq(g, Len(g) + 1, Len(g)) \o w
           = a \o SubSeq(SubSeq(w, 1, n), 0 + 1, Len(SubSeq(w, 1, n))) \o SubSeq(w, n + 1, Len(w))
<1>1. SubSeq(g, Len(g) + 1, Len(g)) = << >>
  BY NothingLeft
<1>2. a \o << >> = a
  BY ConcatEmptySeq
<1>3. SubSeq(w, 1, n) \in Seq(Byte) /\ SubSeq(w, n + 1, Len(w)) \in Seq(Byte)
  <2>1. /\ 1 \in Nat \ {0} /\ n + 1 \in Nat \ {0} /\ Len(w) \in 0..Len(w)
        /\ 1 <= n + 1 /\ n + 1 <= Len(w) + 1
    OBVIOUS
  <2> QED
    BY <2>1, PartOf
<1>4. SubSeq(SubSeq(w, 1, n), 0 + 1, Len(SubSeq(w, 1, n))) = SubSeq(w, 1, n)
  BY <1>3, SubSeqFull
<1>5. SubSeq(w, 1, n) \o SubSeq(w, n + 1, Len(w)) = w
  <2>1. /\ 1 \in 1..Len(w) + 1 /\ n \in 1 - 1..Len(w) /\ Len(w) \in n..Len(w)
    OBVIOUS
  <2>2. SubSeq(w, 1, n) \o SubSeq(w, n + 1, Len(w)) = SubSeq(w, 1, Len(w))
    BY <2>1, ConcatAdjacentSubSeq
  <2> QED
    BY <2>2, SubSeqFull
<1>6. (a \o SubSeq(w, 1, n)) \o SubSeq(w, n + 1, Len(w))
        = a \o (SubSeq(w, 1, n) \o SubSeq(w, n + 1, Len(w)))
  <2>1. PICK x, y : x = SubSeq(w, 1, n) /\ y = SubSeq(w, n + 1, Len(w))
    OBVIOUS
  <2>2. x \in Seq(Byte) /\ y \in Seq(Byte)
    BY <1>3, <2>1, Zenon
  <2>3. (a \o x) \o y = a \o (x \o y)
    BY <2>2, Regroup, Zenon
  <2> QED
    BY <2>1, <2>3, Zenon
<1> QED
  BY <1>1, <1>2, <1>4, <1>5, <1>6, Zenon

(* The parts of what a client has are streams. *)
LEMMA RestType ==
  ASSUME TypeOK, NEW c \in Client
  PROVE  Rest(c) \in Seq(Byte) /\ Total(c) \in Seq(Byte)
<1>1. got[c] \in Seq(Byte) /\ written[c] \in Nat /\ output[c] \in Seq(Byte) /\ wire[c] \in Seq(Byte)
  BY DEF TypeOK
<1>2. Rest(c) \in Seq(Byte)
  <2>1. PICK g, k : g = got[c] /\ k = written[c]
    OBVIOUS
  <2>2. g \in Seq(Byte) /\ k \in Nat
    BY <1>1, <2>1, Zenon
  <2>3. CASE k <= Len(g)
    <3>1. k + 1 \in Nat \ {0} /\ Len(g) \in 0..Len(g) /\ k + 1 <= Len(g) + 1
      BY <2>2, <2>3
    <3>2. SubSeq(g, k + 1, Len(g)) \in Seq(Byte)
      BY <2>2, <3>1, PartOf
    <3> QED
      BY <2>1, <3>2, Zenon DEF Rest
  <2>4. CASE k > Len(g)
    <3>1. SubSeq(g, k + 1, Len(g)) = << >>
      BY <2>2, <2>4, SubSeqEmpty
    <3>2. Rest(c) = << >>
      BY <2>1, <3>1, Zenon DEF Rest
    <3> QED
      BY <3>2
  <2> QED
    BY <2>2, <2>3, <2>4
<1>3. output[c] \o Rest(c) \in Seq(Byte)
  BY <1>1, <1>2, ConcatProperties
<1> QED
  BY <1>1, <1>2, <1>3, ConcatProperties DEF Total

(* Bytes that nobody moves stay where they are. *)
LEMMA TotalKept ==
  ASSUME UNCHANGED <<got, written, output, wire>>
  PROVE  \A c \in Client : Total(c)' = Total(c)
  BY DEF Total, Rest

(* Before anything has happened there is nothing. *)
LEMMA TotalUntouched ==
  ASSUME NEW c \in Client, Untouched(c)
  PROVE  Total(c) = << >> /\ Total(c) = SubSeq(File, 1, 0)
<1>1. Rest(c) = << >>
  BY SubSeqEmpty DEF Untouched, Rest
<1>2. << >> \o << >> \o << >> = << >>
  BY ConcatEmptySeq
<1>3. Total(c) = << >>
  BY <1>1, <1>2, Zenon DEF Untouched, Total
<1>4. SubSeq(File, 1, 0) = << >>
  BY SubSeqEmpty
<1> QED
  BY <1>3, <1>4
----------------------------------------------------------------------------
(* The invariant *)

(* Nobody has connected. *)
LEMMA Initially == Init => IInv
<1> SUFFICES ASSUME Init PROVE IInv
  OBVIOUS
<1>1. spc = "getaddrinfo" /\ pending = << >> /\ conn = NoClient
  BY DEF Init, Setup!Init
<1>2. TypeOK
  <2>1. << >> \in Seq(Client) /\ << >> \in Seq(Byte) /\ 0 \in 0..Len(File)
    BY FileAssumption
  <2> QED
    BY <1>1, <2>1 DEF Init, TypeOK, SettingUp
<1>3. \A c \in Client : Untouched(c)
  BY <1>1, ClientAssumption DEF Init, Untouched
<1>4. Queue /\ Writing /\ Current
  BY <1>1, <1>3 DEF Init, Queue, Writing, Current, Serving
<1>5. Beginnings
  <2>1. 0 \in 0..Len(File)
    BY FileAssumption
  <2> QED
    BY <1>3, <2>1, TotalUntouched DEF Beginnings
<1>6. Complete
  BY DEF Init, Complete
<1> QED
  BY <1>2, <1>4, <1>5, <1>6 DEF IInv

(* The set-up and the opening of the file concern no client. *)
LEMMA StartSteps ==
  ASSUME IInv, Start \/ (OpenFile /\ spc' = "accept")
  PROVE  IInv'
<1>1. /\ spc \in SettingUp /\ spc' \in SettingUp \union {"exited"}
      /\ UNCHANGED <<pending, conn, position, chunk, sent, cpc, got, written, output, wire,
                     closed, short>>
  <2>1. CASE Start
    BY <2>1 DEF Start, locals, stream, Setup!Next, Setup!FindAddress, Setup!CreateSocket,
       Setup!SetOption, Setup!Bind, Setup!Listen, SettingUp
  <2>2. CASE OpenFile /\ spc' = "accept"
    BY <2>2 DEF OpenFile, Exit, locals, stream, SettingUp
  <2> QED
    BY <2>1, <2>2
<1>2. spc # "exited" /\ spc' \notin Serving /\ spc' # "send" /\ conn = NoClient
  BY <1>1 DEF SettingUp, Serving, IInv, Current
<1>3. \A c \in Client : Total(c)' = Total(c)
  BY <1>1, TotalKept
<1>4. TypeOK'
  BY <1>1 DEF IInv, TypeOK
<1>5. \A c \in Client : Untouched(c) => Untouched(c)'
  BY <1>1, <1>2 DEF Untouched
<1>6. Queue'
  <2>1. \A i \in 1..Len(pending) : pending[i] \in Client
    BY DEF IInv, TypeOK
  <2> QED
    BY <1>1, <1>5, <2>1 DEF IInv, Queue
<1>7. Writing' /\ Current'
  BY <1>1, <1>2 DEF IInv, Writing, Current
<1>8. Beginnings' /\ Complete'
  BY <1>1, <1>2, <1>3 DEF IInv, Beginnings, Complete
<1> QED
  BY <1>4, <1>6, <1>7, <1>8 DEF IInv

(* When the server is gone, its connections are closed. *)
LEMMA ExitStep == ASSUME IInv, Exit PROVE IInv'
<1>1. /\ spc' = "exited" /\ closed' = [c \in Client |-> TRUE]
      /\ UNCHANGED <<pending, conn, position, chunk, sent, cpc, got, written, output, wire, short>>
  BY DEF Exit, locals
<1>2. \A c \in Client : Total(c)' = Total(c)
  BY <1>1, TotalKept
<1>3. TypeOK'
  BY <1>1 DEF IInv, TypeOK
<1>4. \A c \in Client : Untouched(c) => Untouched(c)'
  BY <1>1 DEF Untouched
<1>5. Queue'
  <2>1. \A i \in 1..Len(pending) : pending[i] \in Client
    BY DEF IInv, TypeOK
  <2> QED
    BY <1>1, <1>4, <2>1 DEF IInv, Queue
<1>6. Writing' /\ Current'
  BY <1>1 DEF IInv, Writing, Current, Serving, SettingUp
<1>7. Beginnings' /\ Complete'
  BY <1>1, <1>2 DEF IInv, Beginnings, Complete
<1> QED
  BY <1>3, <1>5, <1>6, <1>7 DEF IInv

(* The next client gets the file from its beginning. *)
LEMMA AcceptStep == ASSUME IInv, Accept PROVE IInv'
<1>1. /\ spc = "accept" /\ pending # << >> /\ conn' = Head(pending) /\ pending' = Tail(pending)
      /\ position' = 0 /\ spc' = "read"
      /\ UNCHANGED <<chunk, sent, cpc, got, written, output, wire, closed, short>>
  BY DEF Accept, locals, stream
<1>2. PICK n \in Nat \ {0} : n = Len(pending)
  BY <1>1 DEF IInv, TypeOK
<1>3. /\ pending[1] = conn' /\ Len(pending') = n - 1 /\ pending' \in Seq(Client)
      /\ \A i \in 1..n - 1 : pending'[i] = pending[i + 1]
      /\ \A i \in 1..n : pending[i] \in Client
  BY <1>1, <1>2 DEF IInv, TypeOK
<1>4. PICK c \in Client : c = conn' /\ c = pending[1]
  BY <1>2, <1>3
<1>5. Untouched(c) /\ cpc[c] # "new" /\ ~closed[c] /\ ~short[c]
  BY <1>1, <1>2, <1>4 DEF IInv, Queue, Untouched
<1>6. \A d \in Client : Total(d)' = Total(d)
  BY <1>1, TotalKept
<1>7. TypeOK'
  <2>1. position' \in 0..Len(File)
    BY <1>1, FileAssumption
  <2> QED
    BY <1>1, <1>3, <1>4, <2>1 DEF IInv, TypeOK, Serving
<1>8. \A d \in Client \ {c} : Untouched(d) => Untouched(d)'
  BY <1>1, <1>4 DEF Untouched
<1>9. Queue'
  <2>1. \A i, j \in 1..n - 1 : pending'[i] = pending'[j] => i = j
    <3> SUFFICES ASSUME NEW i \in 1..n - 1, NEW j \in 1..n - 1, pending'[i] = pending'[j]
                 PROVE  i = j
      OBVIOUS
    <3>1. i + 1 \in 1..n /\ j + 1 \in 1..n /\ pending[i + 1] = pending[j + 1]
      BY <1>3
    <3>2. i + 1 = j + 1
      BY <1>2, <3>1 DEF IInv, Queue
    <3> QED
      BY <3>2
  <2>2. \A i \in 1..n - 1 : /\ pending'[i] = pending[i + 1] /\ pending'[i] \in Client \ {c}
                            /\ cpc'[pending'[i]] # "new" /\ Untouched(pending[i + 1])
    <3> SUFFICES ASSUME NEW i \in 1..n - 1
                 PROVE  /\ pending'[i] = pending[i + 1] /\ pending'[i] \in Client \ {c}
                        /\ cpc'[pending'[i]] # "new" /\ Untouched(pending[i + 1])
      OBVIOUS
    <3>1. i + 1 \in 1..n /\ 1 \in 1..n /\ i + 1 # 1
      BY <1>2
    <3>2. pending[i + 1] # pending[1]
      BY <1>2, <3>1 DEF IInv, Queue
    <3>3. cpc[pending[i + 1]] # "new" /\ Untouched(pending[i + 1])
      BY <1>2, <3>1 DEF IInv, Queue
    <3> QED
      BY <1>1, <1>3, <1>4, <3>1, <3>2, <3>3
  <2>3. \A i \in 1..n - 1, d \in Client : d = pending'[i] => Untouched(d)'
    BY <1>8, <2>2
  <2>4. \A d \in Client : cpc'[d] = "new" => Untouched(d)'
    BY <1>1, <1>5, <1>8 DEF IInv, Queue
  <2> QED
    BY <1>3, <2>1, <2>2, <2>3, <2>4 DEF Queue, Untouched
<1>10. Writing'
  BY <1>1 DEF IInv, Writing
<1>11. Current'
  <2>1. Total(c)' = SubSeq(File, 1, Offset')
    BY <1>1, <1>4, <1>5, <1>6, TotalUntouched DEF Offset
  <2> QED
    BY <1>1, <1>4, <1>5, <2>1 DEF Current, SettingUp, Serving
<1>12. Beginnings' /\ Complete'
  BY <1>1, <1>6 DEF IInv, Beginnings, Complete
<1> QED
  BY <1>7, <1>9, <1>10, <1>11, <1>12 DEF IInv

(* The chunk is what follows the offset. *)
LEMMA ReadChunkStep == ASSUME IInv, ReadChunk PROVE IInv'
<1>1. /\ spc = "read" /\ spc' = "send" /\ sent' = 0 /\ position < Len(File)
      /\ UNCHANGED <<pending, conn, cpc, got, written, output, wire, closed, short>>
  BY DEF ReadChunk, locals, stream
<1>2. PICK n \in 1..Smaller(BufSize, Len(File) - position) :
        chunk' = SubSeq(File, position + 1, position + n) /\ position' = position + n
  BY DEF ReadChunk
<1>3. PICK p \in Nat : p = position /\ p <= Len(File)
  BY FileAssumption DEF IInv, TypeOK
<1>4. n \in Nat \ {0} /\ p + n \in 0..Len(File)
  BY <1>1, <1>2, <1>3, BufferAssumption, FileAssumption DEF Smaller
<1>5. chunk' = SubSeq(File, p + 1, p + n) /\ chunk' \in Seq(Byte) /\ Len(chunk') = n
  <2>1. /\ p + 1 \in Nat \ {0} /\ p + 1 <= p + n + 1 /\ p + n - (p + 1) + 1 = n
    BY <1>4
  <2> QED
    BY <1>2, <1>3, <1>4, <2>1, FileBytes, PartOf
<1>6. Offset' = p /\ Offset = p /\ position' = p + n
  <2>1. position' = p + n /\ Offset' = position' - Len(chunk') /\ Offset = p
    BY <1>1, <1>2, <1>3 DEF Offset
  <2>2. p + n - n = p
    BY <1>4
  <2> QED
    BY <1>5, <2>1, <2>2
<1>7. \A d \in Client : Total(d)' = Total(d)
  BY <1>1, TotalKept
<1>8. TypeOK'
  BY <1>1, <1>4, <1>5, <1>6 DEF IInv, TypeOK, Serving
<1>9. \A c \in Client : Untouched(c) => Untouched(c)'
  BY <1>1 DEF Untouched
<1>10. Queue'
  <2>1. \A i \in 1..Len(pending) : pending[i] \in Client
    BY DEF IInv, TypeOK
  <2> QED
    BY <1>1, <1>9, <2>1 DEF IInv, Queue
<1>11. Writing'
  BY <1>1 DEF IInv, Writing
<1>12. Current'
  <2>1. conn \in Client /\ ~closed[conn] /\ (~short[conn] => Total(conn) = SubSeq(File, 1, p))
    BY <1>1, <1>6 DEF IInv, Current, Serving
  <2>2. p \in 0..p + n
    BY <1>4
  <2> QED
    BY <1>1, <1>5, <1>6, <1>7, <2>1, <2>2 DEF Current, SettingUp
<1>13. Beginnings' /\ Complete'
  BY <1>1, <1>7 DEF IInv, Beginnings, Complete
<1> QED
  BY <1>8, <1>10, <1>11, <1>12, <1>13 DEF IInv

(* At the end of the file all of it has been sent. *)
LEMMA EndOfFileStep == ASSUME IInv, EndOfFile PROVE IInv'
<1>1. /\ spc = "read" /\ position = Len(File) /\ closed' = [closed EXCEPT ![conn] = TRUE]
      /\ spc' = "accept" /\ conn' = NoClient
      /\ UNCHANGED <<pending, position, chunk, sent, cpc, got, written, output, wire, short>>
  BY DEF EndOfFile, locals
<1>2. conn \in Client /\ (~short[conn] => Total(conn) = File)
  <2>1. conn \in Client /\ (~short[conn] => Total(conn) = SubSeq(File, 1, Len(File)))
    BY <1>1 DEF IInv, Current, Serving, Offset
  <2> QED
    BY <2>1, FileBytes, SubSeqFull
<1>3. \A d \in Client : Total(d)' = Total(d)
  BY <1>1, TotalKept
<1>4. closed'[conn] /\ \A d \in Client \ {conn} : closed'[d] = closed[d]
  BY <1>1, <1>2 DEF IInv, TypeOK
<1>5. TypeOK'
  BY <1>1 DEF IInv, TypeOK, SettingUp
<1>6. \A c \in Client : Untouched(c) => Untouched(c)'
  BY <1>1, <1>4, ClientAssumption DEF Untouched
<1>7. Queue'
  <2>1. \A i \in 1..Len(pending) : pending[i] \in Client
    BY DEF IInv, TypeOK
  <2> QED
    BY <1>1, <1>6, <2>1 DEF IInv, Queue
<1>8. Writing'
  BY <1>1, <1>4 DEF IInv, Writing
<1>9. Current'
  BY <1>1 DEF Current, Serving
<1>10. Beginnings' /\ Complete'
  BY <1>1, <1>2, <1>3, <1>4 DEF IInv, Beginnings, Complete
<1> QED
  BY <1>5, <1>7, <1>8, <1>9, <1>10 DEF IInv

(* A chunk that is sent whole follows what the client had; after a short send
   nothing is claimed of this client any more. *)
LEMMA SendStep == ASSUME IInv, Send PROVE IInv'
<1>1. /\ spc = "send" /\ spc' \in Serving
      /\ UNCHANGED <<pending, conn, position, chunk, cpc, got, written, output, closed>>
  BY DEF Send, locals, Serving
<1>2. PICK n \in Accepted("send", Len(chunk)) :
        /\ wire' = [wire EXCEPT ![conn] = @ \o SubSeq(chunk, 1, n)]
        /\ sent' = sent + n
        /\ short' = [short EXCEPT ![conn] = @ \/ n < Len(chunk)]
        /\ spc' = IF sent' >= Len(chunk) THEN "read" ELSE "send"
  BY DEF Send, SentAll
<1>3. /\ conn \in Client /\ ~closed[conn] /\ chunk \in Seq(Byte) /\ sent \in Nat
      /\ wire[conn] \in Seq(Byte)
  BY <1>1 DEF IInv, TypeOK, Current, Serving
<1>4. n \in 0..Len(chunk)
  <2>1. n \in 1..Len(chunk) \/ n = Len(chunk)
    BY <1>2 DEF Accepted
  <2> QED
    BY <1>3, <2>1
<1>5. SubSeq(chunk, 1, n) \in Seq(Byte)
  BY <1>3, <1>4, PartOf
<1>6. /\ wire' \in [Client -> Seq(Byte)] /\ wire'[conn] = wire[conn] \o SubSeq(chunk, 1, n)
      /\ \A d \in Client \ {conn} : wire'[d] = wire[d]
  <2>1. wire[conn] \o SubSeq(chunk, 1, n) \in Seq(Byte)
    BY <1>3, <1>5, ConcatProperties
  <2> QED
    BY <1>2, <1>3, <2>1 DEF IInv, TypeOK
<1>7. /\ short' \in [Client -> BOOLEAN] /\ (~short'[conn] => ~short[conn] /\ ~(n < Len(chunk)))
      /\ \A d \in Client \ {conn} : short'[d] = short[d]
  BY <1>2, <1>3 DEF IInv, TypeOK
<1>8. \A d \in Client \ {conn} : Total(d)' = Total(d)
  BY <1>1, <1>6 DEF Total, Rest
<1>9. ASSUME ~short'[conn]
      PROVE  /\ Total(conn)' = SubSeq(File, 1, position)
             /\ spc' = "read" /\ position \in 0..Len(File)
  <2>1. ~short[conn] /\ n = Len(chunk) /\ sent = 0
    BY <1>1, <1>4, <1>7, <1>9 DEF IInv, Current
  <2>2. spc' = "read"
    BY <1>2, <1>3, <2>1
  <2>3. wire'[conn] = wire[conn] \o chunk
    BY <1>3, <1>6, <2>1, SubSeqFull
  <2>4. Total(conn)' = Total(conn) \o chunk
    <3>1. PICK a, w : a = output[conn] \o Rest(conn) /\ w = wire[conn]
      OBVIOUS
    <3>2. a \in Seq(Byte) /\ w \in Seq(Byte)
      <4>1. output[conn] \in Seq(Byte) /\ Rest(conn) \in Seq(Byte)
        BY <1>3, RestType DEF IInv, TypeOK
      <4> QED
        BY <1>3, <3>1, <4>1, ConcatProperties
    <3>3. (a \o w) \o chunk = a \o (w \o chunk)
      <4>1. chunk \in Seq(Byte)
        BY <1>3
      <4> QED
        BY <3>2, <4>1, Regroup, Zenon
    <3>4. Total(conn)' = a \o (w \o chunk)
      BY <1>1, <2>3, <3>1, Zenon DEF Total, Rest
    <3> QED
      BY <3>1, <3>3, <3>4, Zenon DEF Total
  <2>5. PICK p \in Nat, k \in Nat : /\ p = position /\ k = Offset /\ k <= p /\ p \in 0..Len(File)
                                    /\ chunk = SubSeq(File, k + 1, p)
                                    /\ Total(conn) = SubSeq(File, 1, k)
    <3>1. /\ Offset \in 0..position /\ chunk = SubSeq(File, Offset + 1, position)
          /\ Total(conn) = SubSeq(File, 1, Offset) /\ position \in 0..Len(File)
      BY <1>1, <2>1 DEF IInv, TypeOK, Current, Serving
    <3>2. PICK p, k : p = position /\ k = Offset
      OBVIOUS
    <3>3. /\ k \in 0..p /\ p \in 0..Len(File) /\ chunk = SubSeq(File, k + 1, p)
          /\ Total(conn) = SubSeq(File, 1, k)
      BY <3>1, <3>2, Zenon
    <3>4. p \in Nat /\ k \in Nat /\ k <= p
      BY <3>3, FileAssumption
    <3> QED
      BY <3>2, <3>3, <3>4, Zenon
  <2>6. SubSeq(File, 1, k) \o SubSeq(File, k + 1, p) = SubSeq(File, 1, p)
    <3>1. 1 \in 1..Len(File) + 1 /\ k \in 1 - 1..Len(File) /\ p \in k..Len(File)
      BY <2>5, FileAssumption
    <3> QED
      BY <3>1, FileBytes, ConcatAdjacentSubSeq
  <2> QED
    BY <2>2, <2>4, <2>5, <2>6, Zenon
<1>10. TypeOK'
  <2>1. sent' \in Nat
    BY <1>2, <1>3, <1>4
  <2> QED
    BY <1>1, <1>6, <1>7, <2>1 DEF IInv, TypeOK
<1>11. Queue'
  <2>1. spc # "exited"
    BY <1>1
  <2>2. \A d \in Client : Untouched(d) => d # conn
    BY <2>1 DEF Untouched
  <2>3. \A d \in Client : Untouched(d) => Untouched(d)'
    BY <1>1, <1>6, <1>7, <2>1, <2>2 DEF Untouched
  <2>4. \A i \in 1..Len(pending) : pending[i] \in Client
    BY DEF IInv, TypeOK
  <2> QED
    BY <1>1, <2>3, <2>4 DEF IInv, Queue
<1>12. Writing'
  <2>1. \A c \in Client : cpc[c] = "done" => c # conn
    BY <1>3 DEF IInv, Writing
  <2> QED
    BY <1>1, <1>6, <1>7, <2>1 DEF IInv, Writing
<1>13. Current'
  <2>1. spc' = "send" => short'[conn]
    BY <1>9
  <2>2. spc' = "send" => Offset' = Offset
    BY <1>1 DEF Offset
  <2>3. spc' = "send" => Offset' \in 0..position' /\ chunk' = SubSeq(File, Offset' + 1, position')
    BY <1>1, <2>2 DEF IInv, Current
  <2>4. ~short'[conn] => Total(conn)' = SubSeq(File, 1, Offset')
    BY <1>1, <1>9 DEF Offset
  <2> QED
    BY <1>1, <1>3, <2>1, <2>3, <2>4 DEF Current, Serving, SettingUp
<1>14. Beginnings'
  <2>1. ASSUME NEW d \in Client, ~short'[d]
        PROVE  \E n2 \in 0..Len(File) : Total(d)' = SubSeq(File, 1, n2)
    <3>1. CASE d = conn
      <4>1. ~short'[conn]
        BY <2>1, <3>1
      <4>2. Total(d)' = SubSeq(File, 1, position) /\ position \in 0..Len(File)
        BY <1>1, <1>9, <3>1, <4>1 DEF Total, Rest
      <4> QED
        BY <4>2
    <3>2. CASE d # conn
      BY <1>7, <1>8, <2>1, <3>2 DEF IInv, Beginnings
    <3> QED
      BY <3>1, <3>2
  <2> QED
    BY <2>1 DEF Beginnings
<1>15. Complete'
  <2>1. spc # "exited"
    BY <1>1
  <2> QED
    BY <1>1, <1>3, <1>7, <1>8, <2>1 DEF IInv, Complete
<1> QED
  BY <1>10, <1>11, <1>12, <1>13, <1>14, <1>15 DEF IInv

(* What a client does with its own bytes. *)
LEMMA ClientMoves ==
  ASSUME IInv, NEW c \in Client, ~Untouched(c),
         cpc' \in [Client -> {"new", "receive", "write", "done", "failed"}],
         \A d \in Client \ {c} : /\ cpc'[d] = cpc[d] /\ wire'[d] = wire[d] /\ got'[d] = got[d]
                                 /\ written'[d] = written[d] /\ output'[d] = output[d]
                                 /\ short'[d] = short[d],
         wire' \in [Client -> Seq(Byte)], short' \in [Client -> BOOLEAN],
         got' \in [Client -> Seq(Byte)], written' \in [Client -> Nat],
         output' \in [Client -> Seq(Byte)],
         cpc'[c] # "new",
         ~short'[c] => ~short[c] /\ Total(c)' = Total(c),
         /\ cpc'[c] \in {"receive", "done"} /\ ~short'[c] => written'[c] = Len(got'[c])
         /\ cpc'[c] = "write" /\ ~short'[c] => written'[c] = 0
         /\ cpc'[c] = "done" => closed[c] /\ wire'[c] = << >>,
         UNCHANGED <<spc, pending, conn, position, chunk, sent, closed>>
  PROVE  IInv'
<1>1. TypeOK'
  BY DEF IInv, TypeOK
<1>2. \A d \in Client \ {c} : Total(d)' = Total(d)
  BY DEF Total, Rest
<1>3. Queue'
  <2>1. \A d \in Client : Untouched(d) => d # c
    OBVIOUS
  <2>2. \A d \in Client : Untouched(d) => Untouched(d)'
    BY <2>1 DEF Untouched
  <2>3. \A i \in 1..Len(pending) : pending[i] \in Client
    BY DEF IInv, TypeOK
  <2>4. \A d \in Client : cpc[d] # "new" => cpc'[d] # "new"
    OBVIOUS
  <2> QED
    BY <2>2, <2>3, <2>4 DEF IInv, Queue
<1>4. Writing'
  <2>1. Writing
    BY DEF IInv
  <2>2. ASSUME NEW d \in Client \ {c}
        PROVE  /\ cpc'[d] \in {"receive", "done"} /\ ~short'[d] => written'[d] = Len(got'[d])
               /\ cpc'[d] = "write" /\ ~short'[d] => written'[d] = 0
               /\ cpc'[d] = "done" => closed'[d] /\ wire'[d] = << >>
    BY <2>1 DEF Writing
  <2> QED
    BY <2>2 DEF Writing
<1>5. \A d \in Client : ~short'[d] => ~short[d] /\ Total(d)' = Total(d)
  BY <1>2
<1>6. Current'
  <2>1. Offset' = Offset
    BY DEF Offset
  <2> QED
    <3>1. spc \in Serving => /\ conn \in Client /\ ~closed[conn]
                             /\ ~short'[conn] => Total(conn)' = SubSeq(File, 1, Offset)
      BY <1>5 DEF IInv, Current
    <3>2. spc = "send" => conn \in Client /\ (~short'[conn] => sent = 0)
      BY <1>5, <3>1 DEF IInv, Current, Serving
    <3> QED
      BY <2>1, <3>1, <3>2 DEF IInv, Current
<1>7. Beginnings' /\ Complete'
  BY <1>5 DEF IInv, Beginnings, Complete
<1> QED
  BY <1>1, <1>3, <1>4, <1>6, <1>7 DEF IInv

(* A client that connects, ends or is stopped moves no bytes. *)
LEMMA StatusSteps ==
  ASSUME IInv, NEW c \in Client, Finish(c) \/ Leave(c) \/ (Connect(c) /\ UNCHANGED pending)
  PROVE  IInv'
<1>1. /\ \E to \in {"done", "failed"} :
           /\ cpc' = [cpc EXCEPT ![c] = to]
           /\ to = "done" => cpc[c] = "receive" /\ wire[c] = << >> /\ closed[c]
      /\ UNCHANGED <<spc, pending, conn, position, chunk, sent, got, written, output, wire,
                     closed, short>>
  <2>1. CASE Finish(c)
    BY <2>1 DEF Finish, server, locals, stream
  <2>2. CASE Leave(c)
    BY <2>2 DEF Leave, server, locals, stream
  <2>3. CASE Connect(c) /\ UNCHANGED pending
    <3>1. cpc' = [cpc EXCEPT ![c] = "failed"]
      <4>1. Append(pending, c) # pending
        <5>1. Len(Append(pending, c)) = Len(pending) + 1 /\ Len(pending) \in Nat
          BY DEF IInv, TypeOK
        <5> QED
          BY <5>1
      <4> QED
        BY <2>3, <4>1 DEF Connect
    <3> QED
      BY <2>3, <3>1 DEF Connect, locals, stream
  <2> QED
    BY <2>1, <2>2, <2>3
<1>2. PICK to \in {"done", "failed"} :
        /\ cpc' = [cpc EXCEPT ![c] = to]
        /\ to = "done" => cpc[c] = "receive" /\ wire[c] = << >> /\ closed[c]
  BY <1>1
<1>3. \A d \in Client : Total(d)' = Total(d)
  BY <1>1, TotalKept
<1>4. /\ cpc' \in [Client -> {"new", "receive", "write", "done", "failed"}]
      /\ cpc'[c] = to /\ \A d \in Client \ {c} : cpc'[d] = cpc[d]
  BY <1>2 DEF IInv, TypeOK
<1>5. TypeOK'
  BY <1>1, <1>4 DEF IInv, TypeOK
<1>6. Queue'
  <2>1. \A d \in Client : Untouched(d) => Untouched(d)'
    BY <1>1, <1>4 DEF Untouched
  <2>2. \A i \in 1..Len(pending) : pending[i] \in Client
    BY DEF IInv, TypeOK
  <2>3. \A d \in Client : cpc'[d] = "new" => cpc[d] = "new"
    BY <1>4
  <2>4. \A d \in Client : cpc[d] # "new" => cpc'[d] # "new"
    BY <1>4
  <2> QED
    BY <1>1, <2>1, <2>2, <2>3, <2>4 DEF IInv, Queue
<1>7. Writing'
  BY <1>1, <1>2, <1>4 DEF IInv, Writing
<1>8. Current'
  <2>1. Offset' = Offset
    BY <1>1 DEF Offset
  <2> QED
    BY <1>1, <1>3, <2>1 DEF IInv, Current, Serving
<1>9. Beginnings' /\ Complete'
  BY <1>1, <1>3 DEF IInv, Beginnings, Complete
<1> QED
  BY <1>5, <1>6, <1>7, <1>8, <1>9 DEF IInv

(* A new connection waits at the end of the queue. *)
LEMMA ConnectStep ==
  ASSUME IInv, NEW c \in Client, Connect(c), pending' # pending
  PROVE  IInv'
<1>1. /\ cpc[c] = "new" /\ cpc' = [cpc EXCEPT ![c] = "receive"] /\ pending' = Append(pending, c)
      /\ UNCHANGED <<spc, conn, position, chunk, sent, got, written, output, wire, closed, short>>
  BY DEF Connect, locals, stream
<1>2. Untouched(c)
  BY <1>1 DEF IInv, Queue
<1>3. \A d \in Client : Total(d)' = Total(d)
  BY <1>1, TotalKept
<1>4. cpc'[c] = "receive" /\ \A d \in Client \ {c} : cpc'[d] = cpc[d]
  BY <1>1 DEF IInv, TypeOK
<1>5. TypeOK'
  BY <1>1 DEF IInv, TypeOK
<1>6. \A d \in Client : Untouched(d) => Untouched(d)'
  BY <1>1, <1>4 DEF Untouched
<1>7. Queue'
  <2>1. PICK n \in Nat : n = Len(pending)
    BY DEF IInv, TypeOK
  <2>2. /\ Len(pending') = n + 1 /\ pending'[n + 1] = c
        /\ \A i \in 1..n : pending'[i] = pending[i] /\ pending[i] \in Client \ {c}
    BY <1>1, <2>1 DEF IInv, TypeOK, Queue
  <2>3. \A i, j \in 1..n + 1 : pending'[i] = pending'[j] => i = j
    BY <2>1, <2>2 DEF IInv, Queue
  <2>4. \A i \in 1..n + 1, d \in Client : d = pending'[i] => cpc'[d] # "new" /\ Untouched(d)'
    <3>1. \A i \in 1..n, d \in Client : d = pending'[i] => cpc'[d] # "new" /\ Untouched(d)'
      <4>1. \A i \in 1..n : /\ pending'[i] = pending[i] /\ pending[i] \in Client \ {c}
                            /\ cpc[pending[i]] # "new" /\ Untouched(pending[i])
        BY <2>1, <2>2 DEF IInv, Queue
      <4> QED
        BY <1>4, <1>6, <4>1
    <3>2. \A i \in 1..n + 1 : i \in 1..n \/ i = n + 1
      BY <2>1
    <3>3. cpc'[c] # "new" /\ Untouched(c)'
      BY <1>2, <1>4, <1>6
    <3> QED
      BY <2>2, <3>1, <3>2, <3>3
  <2>5. \A d \in Client : cpc'[d] = "new" => Untouched(d)'
    BY <1>4, <1>6 DEF IInv, Queue
  <2>6. \A i \in 1..n + 1 : pending'[i] \in Client
    BY <1>5, <2>2 DEF TypeOK
  <2> QED
    BY <2>2, <2>3, <2>4, <2>5, <2>6 DEF Queue, Untouched
<1>8. Writing'
  <2>1. written[c] = Len(got[c])
    BY <1>2 DEF Untouched
  <2> QED
    BY <1>1, <1>4, <2>1 DEF IInv, Writing
<1>9. Current'
  <2>1. Offset' = Offset
    BY <1>1 DEF Offset
  <2> QED
    BY <1>1, <1>3, <2>1 DEF IInv, Current, Serving
<1>10. Beginnings' /\ Complete'
  BY <1>1, <1>3 DEF IInv, Beginnings, Complete
<1> QED
  BY <1>5, <1>7, <1>8, <1>9, <1>10 DEF IInv

(* What is received comes off the wire into an empty buffer. *)
LEMMA ReceiveStep == ASSUME IInv, NEW c \in Client, Receive(c) PROVE IInv'
<1>1. PICK n \in 1..Space(c) :
        /\ got' = [got EXCEPT ![c] = SubSeq(wire[c], 1, n)]
        /\ wire' = [wire EXCEPT ![c] = SubSeq(@, n + 1, Len(@))]
  BY DEF Receive
<1>2. /\ cpc[c] = "receive" /\ written' = [written EXCEPT ![c] = 0]
      /\ cpc' = [cpc EXCEPT ![c] = "write"]
      /\ UNCHANGED <<spc, pending, conn, position, chunk, sent, output, closed, short>>
  BY DEF Receive, server
<1>3. PICK w, g, a : w = wire[c] /\ g = got[c] /\ a = output[c]
  OBVIOUS
<1>4. w \in Seq(Byte) /\ g \in Seq(Byte) /\ a \in Seq(Byte)
  BY <1>3 DEF IInv, TypeOK
<1>5. n \in 1..Len(w)
  <2>1. Space(c) <= Len(w)
    BY <1>3, <1>4, BufferAssumption DEF Space, Smaller
  <2>2. Space(c) \in Nat
    BY <1>3, <1>4, BufferAssumption DEF Space, Smaller
  <2> QED
    BY <1>4, <2>1, <2>2
<1>6. PICK r, x : r = SubSeq(w, 1, n) /\ x = SubSeq(w, n + 1, Len(w))
  OBVIOUS
<1>7. r \in Seq(Byte) /\ x \in Seq(Byte)
  <2>1. /\ 1 \in Nat \ {0} /\ n + 1 \in Nat \ {0} /\ n \in 0..Len(w) /\ Len(w) \in 0..Len(w)
        /\ 1 <= n + 1 /\ n + 1 <= Len(w) + 1
    BY <1>4, <1>5
  <2> QED
    BY <1>4, <1>6, <2>1, PartOf
<1>8. got' = [got EXCEPT ![c] = r] /\ wire' = [wire EXCEPT ![c] = x]
  BY <1>1, <1>3, <1>6, Zenon
<1>9. /\ got'[c] = r /\ wire'[c] = x /\ written'[c] = 0 /\ cpc'[c] = "write"
      /\ output'[c] = a /\ short'[c] = short[c]
      /\ got' \in [Client -> Seq(Byte)] /\ wire' \in [Client -> Seq(Byte)]
      /\ written' \in [Client -> Nat]
      /\ cpc' \in [Client -> {"new", "receive", "write", "done", "failed"}]
      /\ short' \in [Client -> BOOLEAN] /\ output' \in [Client -> Seq(Byte)]
      /\ \A d \in Client \ {c} : /\ cpc'[d] = cpc[d] /\ wire'[d] = wire[d] /\ got'[d] = got[d]
                                 /\ written'[d] = written[d] /\ output'[d] = output[d]
                                 /\ short'[d] = short[d]
  BY <1>2, <1>3, <1>7, <1>8 DEF IInv, TypeOK
<1>10. ~Untouched(c)
  <2>1. w # << >>
    BY <1>4, <1>5
  <2> QED
    BY <1>3, <2>1 DEF Untouched
<1>11. ~short'[c] => ~short[c] /\ Total(c)' = Total(c)
  <2> SUFFICES ASSUME ~short[c] PROVE Total(c)' = Total(c)
    BY <1>9
  <2>1. Total(c) = a \o SubSeq(g, Len(g) + 1, Len(g)) \o w
    <3>1. written[c] = Len(g)
      BY <1>2, <1>3 DEF IInv, Writing
    <3> QED
      BY <1>3, <3>1, Zenon DEF Total, Rest
  <2>2. Total(c)' = a \o SubSeq(r, 0 + 1, Len(r)) \o x
    BY <1>9, Zenon DEF Total, Rest
  <2>3. n \in 0..Len(w)
    BY <1>5
  <2>4. a \o SubSeq(g, Len(g) + 1, Len(g)) \o w
          = a \o SubSeq(SubSeq(w, 1, n), 0 + 1, Len(SubSeq(w, 1, n))) \o SubSeq(w, n + 1, Len(w))
    BY <1>4, <2>3, ReceivingMoves
  <2> QED
    BY <1>6, <2>1, <2>2, <2>4, Zenon
<1>12. ~Untouched(c) /\ cpc'[c] # "new" /\ cpc'[c] \notin {"receive", "done"}
  BY <1>9, <1>10
<1> QED
  BY <1>2, <1>9, <1>11, <1>12, ClientMoves

(* What is written whole goes to the end of the file. *)
LEMMA WriteStep == ASSUME IInv, NEW c \in Client, Write(c) PROVE IInv'
<1>1. PICK n \in Accepted("write", Len(got[c])) :
        /\ output' = [output EXCEPT ![c] = @ \o SubSeq(got[c], 1, n)]
        /\ written' = [written EXCEPT ![c] = @ + n]
        /\ short' = [short EXCEPT ![c] = @ \/ n < Len(got[c])]
  BY DEF Write
<1>2. /\ cpc[c] = "write"
      /\ cpc' = IF written'[c] < Len(got[c]) THEN cpc ELSE [cpc EXCEPT ![c] = "receive"]
      /\ UNCHANGED <<spc, pending, conn, position, chunk, sent, got, wire, closed>>
  BY DEF Write, server
<1>3. PICK w, g, a : w = wire[c] /\ g = got[c] /\ a = output[c]
  OBVIOUS
<1>4. w \in Seq(Byte) /\ g \in Seq(Byte) /\ a \in Seq(Byte)
  BY <1>3 DEF IInv, TypeOK
<1>5. n \in 0..Len(g)
  <2>1. n \in 1..Len(g) \/ n = Len(g)
    BY <1>1, <1>3 DEF Accepted
  <2> QED
    BY <1>4, <2>1
<1>6. PICK x : x = a \o SubSeq(g, 1, n)
  OBVIOUS
<1>7. x \in Seq(Byte)
  <2>1. SubSeq(g, 1, n) \in Seq(Byte)
    BY <1>4, <1>5, PartOf
  <2> QED
    BY <1>4, <1>6, <2>1, ConcatProperties
<1>8. output' = [output EXCEPT ![c] = x]
  BY <1>1, <1>3, <1>6, Zenon
<1>9. /\ output' \in [Client -> Seq(Byte)] /\ output'[c] = x
      /\ \A d \in Client \ {c} : output'[d] = output[d]
  BY <1>7, <1>8 DEF IInv, TypeOK
<1>10. /\ written' \in [Client -> Nat] /\ written'[c] = written[c] + n
       /\ \A d \in Client \ {c} : written'[d] = written[d]
  <2>1. written[c] + n \in Nat
    BY <1>4, <1>5 DEF IInv, TypeOK
  <2> QED
    BY <1>1, <2>1 DEF IInv, TypeOK
<1>11. /\ short' \in [Client -> BOOLEAN] /\ (~short'[c] => ~short[c] /\ ~(n < Len(g)))
       /\ \A d \in Client \ {c} : short'[d] = short[d]
  BY <1>1, <1>3 DEF IInv, TypeOK
<1>12. /\ cpc' \in [Client -> {"new", "receive", "write", "done", "failed"}]
       /\ cpc'[c] \in {"receive", "write"} /\ (cpc'[c] = "write" => written'[c] < Len(g))
       /\ \A d \in Client \ {c} : cpc'[d] = cpc[d]
  BY <1>2, <1>3 DEF IInv, TypeOK
<1>13. ASSUME ~short'[c]
       PROVE  /\ ~short[c] /\ n = Len(g) /\ written[c] = 0 /\ written'[c] = Len(g)
              /\ cpc'[c] = "receive" /\ Total(c)' = Total(c)
  <2>1. ~short[c] /\ n = Len(g)
    BY <1>4, <1>5, <1>11, <1>13
  <2>2. written[c] = 0
    BY <1>2, <2>1 DEF IInv, Writing
  <2>3. written'[c] = Len(g)
    BY <1>4, <1>10, <2>1, <2>2
  <2>4. cpc'[c] = "receive"
    BY <1>4, <1>12, <2>3
  <2>5. Total(c) = a \o SubSeq(g, 0 + 1, Len(g)) \o w
    BY <1>3, <2>2, Zenon DEF Total, Rest
  <2>6. Total(c)' = x \o SubSeq(g, Len(g) + 1, Len(g)) \o w
    BY <1>2, <1>3, <1>9, <2>3, Zenon DEF Total, Rest
  <2>7. a \o SubSeq(g, 0 + 1, Len(g)) \o w
          = a \o SubSeq(g, 1, Len(g)) \o SubSeq(g, Len(g) + 1, Len(g)) \o w
    BY <1>4, WritingMoves
  <2>8. Total(c)' = Total(c)
    BY <1>6, <2>1, <2>5, <2>6, <2>7, Zenon
  <2> QED
    BY <2>1, <2>2, <2>3, <2>4, <2>8
<1>14. ~Untouched(c)
  BY <1>2 DEF Untouched
<1>15. /\ cpc'[c] # "new"
       /\ cpc'[c] \in {"receive", "done"} /\ ~short'[c] => written'[c] = Len(got'[c])
       /\ cpc'[c] = "write" /\ ~short'[c] => written'[c] = 0
       /\ cpc'[c] = "done" => closed[c] /\ wire'[c] = << >>
  BY <1>2, <1>3, <1>12, <1>13
<1>16. \A d \in Client \ {c} : /\ cpc'[d] = cpc[d] /\ wire'[d] = wire[d] /\ got'[d] = got[d]
                               /\ written'[d] = written[d] /\ output'[d] = output[d]
                               /\ short'[d] = short[d]
  BY <1>2, <1>9, <1>10, <1>11, <1>12
<1>17. wire' \in [Client -> Seq(Byte)] /\ got' \in [Client -> Seq(Byte)]
  BY <1>2 DEF IInv, TypeOK
<1> QED
  BY <1>2, <1>9, <1>10, <1>11, <1>12, <1>13, <1>14, <1>15, <1>16, <1>17, ClientMoves

(* The invariant holds throughout. *)
LEMMA Invariance == Spec => []IInv
<1>1. IInv /\ [Next]_vars => IInv'
  <2> SUFFICES ASSUME IInv, [Next]_vars PROVE IInv'
    OBVIOUS
  <2>1. CASE UNCHANGED vars
    <3>1. UNCHANGED <<spc, pending, conn, position, chunk, sent, cpc, got, written, output, wire,
                      closed, short>>
      BY <2>1 DEF vars, server, locals, stream
    <3>2. TypeOK'
      BY <3>1 DEF IInv, TypeOK
    <3>3. Queue'
      BY <3>1 DEF IInv, Queue, Untouched
    <3>4. Writing'
      BY <3>1 DEF IInv, Writing
    <3>5. Current'
      BY <3>1 DEF IInv, Current, Total, Rest, Offset
    <3>6. Beginnings' /\ Complete'
      BY <3>1 DEF IInv, Beginnings, Complete, Total, Rest
    <3> QED
      BY <3>2, <3>3, <3>4, <3>5, <3>6 DEF IInv
  <2>2. CASE OpenFile
    <3>1. Exit \/ spc' = "accept"
      BY <2>2 DEF OpenFile
    <3> QED
      BY <2>2, <3>1, StartSteps, ExitStep
  <2>3. CASE Start \/ Accept \/ ReadChunk \/ EndOfFile \/ Send
    BY <2>3, StartSteps, AcceptStep, ReadChunkStep, EndOfFileStep, SendStep
  <2>4. CASE SeekFails \/ SendFails \/ ReadFails
    BY <2>4, ExitStep DEF SeekFails, SendFails, ReadFails
  <2>5. CASE \E c \in Client : Connect(c) \/ ClientStep(c) \/ Leave(c)
    BY <2>5, ConnectStep, StatusSteps, ReceiveStep, WriteStep DEF ClientStep
  <2> QED
    BY <2>1, <2>2, <2>3, <2>4, <2>5 DEF Next, ServerStep
<1> QED
  BY Initially, <1>1, PTL DEF Spec
----------------------------------------------------------------------------
(* How many bytes there are, of clients with short calls, too *)

(* The length of all that a client has; what was written twice counts twice. *)
Missing(k, m) == IF k < m THEN m - k ELSE 0
Amount(c) == Len(output[c]) + Missing(written[c], Len(got[c])) + Len(wire[c])

(* What the loop around send has counted for the present chunk. *)
Counted == IF spc = "send" THEN sent ELSE 0

(* Both loops go on until they have counted a whole buffer, so no client has
   fewer bytes than the server has read for it. *)
Enough ==
  /\ \A c \in Client : cpc[c] \in {"receive", "done"} => written[c] >= Len(got[c])
  /\ spc \in Serving => Amount(conn) >= Offset + Counted
  /\ spc # "exited" => \A c \in Client : closed[c] => Amount(c) >= Len(File)

(* What is missing is a number, and writing n bytes makes it less by n at most. *)
LEMMA MissingIsNumber ==
  /\ \A k, m \in Nat : Missing(k, m) \in Nat /\ (k >= m => Missing(k, m) = 0)
  /\ \A m \in Nat : Missing(0, m) = m
  /\ \A k, m, n \in Nat : Missing(k, m) <= n + Missing(k + n, m)
  BY DEF Missing

(* Lengths are numbers. *)
LEMMA Lengths ==
  ASSUME IInv
  PROVE  /\ \A c \in Client : /\ Len(output[c]) \in Nat /\ Len(got[c]) \in Nat
                               /\ Len(wire[c]) \in Nat /\ written[c] \in Nat
                               /\ Missing(written[c], Len(got[c])) \in Nat
                               /\ Amount(c) \in Nat
         /\ Len(chunk) \in Nat /\ Len(File) \in Nat /\ position \in Nat /\ sent \in Nat
<1>1. ASSUME NEW c \in Client
      PROVE  /\ Len(output[c]) \in Nat /\ Len(got[c]) \in Nat
             /\ Len(wire[c]) \in Nat /\ written[c] \in Nat
  <2>1. output[c] \in Seq(Byte) /\ got[c] \in Seq(Byte) /\ wire[c] \in Seq(Byte)
    BY DEF IInv, TypeOK
  <2> QED
    BY <2>1 DEF IInv, TypeOK
<1>2. ASSUME NEW c \in Client PROVE Missing(written[c], Len(got[c])) \in Nat /\ Amount(c) \in Nat
  <2>1. Missing(written[c], Len(got[c])) \in Nat
    BY <1>1, MissingIsNumber
  <2> QED
    BY <1>1, <2>1 DEF Amount
<1>3. Len(chunk) \in Nat /\ Len(File) \in Nat /\ position \in Nat /\ sent \in Nat
  BY FileAssumption DEF IInv, TypeOK
<1> QED
  BY <1>1, <1>2, <1>3

(* A client that gets no fewer bytes than it had breaks nothing. *)
LEMMA ClientEnough ==
  ASSUME IInv, Enough, NEW c \in Client,
         \A d \in Client \ {c} : /\ cpc'[d] = cpc[d] /\ wire'[d] = wire[d] /\ got'[d] = got[d]
                                 /\ written'[d] = written[d] /\ output'[d] = output[d],
         Amount(c)' \in Nat /\ Amount(c)' >= Amount(c),
         cpc'[c] \in {"receive", "done"} => written'[c] >= Len(got'[c]),
         UNCHANGED <<spc, conn, position, chunk, sent, closed>>
  PROVE  Enough'
<1>1. \A d \in Client \ {c} : Amount(d)' = Amount(d)
  BY DEF Amount
<1>2. \A d \in Client : Amount(d)' \in Nat /\ Amount(d) \in Nat /\ Amount(d)' >= Amount(d)
  BY <1>1, Lengths
<1>3. \A d \in Client : cpc'[d] \in {"receive", "done"} => written'[d] >= Len(got'[d])
  BY DEF Enough
<1>4. Offset' = Offset /\ Counted' = Counted
  BY DEF Offset, Counted
<1>5. Offset \in Int /\ Counted \in Nat /\ Len(File) \in Nat
  BY Lengths DEF Offset, Counted
<1>6. spc \in Serving => Amount(conn)' >= Offset + Counted
  <2>1. spc \in Serving => conn \in Client /\ Amount(conn) >= Offset + Counted
    BY DEF IInv, Current, Enough
  <2>2. spc \in Serving => \E d \in Client : d = conn /\ Amount(d)' = Amount(conn)'
    BY <2>1 DEF Amount
  <2> QED
    BY <1>2, <1>5, <2>1, <2>2
<1>7. spc # "exited" => \A d \in Client : closed[d] => Amount(d)' >= Len(File)
  BY <1>2, <1>5 DEF Enough
<1> QED
  BY <1>3, <1>4, <1>6, <1>7 DEF Enough

(* What is received comes off the wire. *)
LEMMA ReceiveEnough == ASSUME IInv, Enough, NEW c \in Client, Receive(c) PROVE Enough'
<1>1. PICK n \in 1..Space(c) :
        /\ got' = [got EXCEPT ![c] = SubSeq(wire[c], 1, n)]
        /\ wire' = [wire EXCEPT ![c] = SubSeq(@, n + 1, Len(@))]
  BY DEF Receive
<1>2. /\ cpc[c] = "receive" /\ written' = [written EXCEPT ![c] = 0]
      /\ cpc' = [cpc EXCEPT ![c] = "write"]
      /\ UNCHANGED <<spc, conn, position, chunk, sent, output, closed>>
  BY DEF Receive, server
<1>3. PICK w : w = wire[c]
  OBVIOUS
<1>4. w \in Seq(Byte) /\ Len(w) \in Nat
  BY <1>3 DEF IInv, TypeOK
<1>5. n \in 1..Len(w)
  <2>1. Space(c) <= Len(w) /\ Space(c) \in Nat
    BY <1>3, <1>4, BufferAssumption DEF Space, Smaller
  <2> QED
    BY <1>4, <2>1
<1>6. Len(SubSeq(w, 1, n)) = n /\ Len(SubSeq(w, n + 1, Len(w))) = Len(w) - n
  <2>1. /\ 1 \in Nat \ {0} /\ n + 1 \in Nat \ {0} /\ n \in 0..Len(w) /\ Len(w) \in 0..Len(w)
        /\ 1 <= n + 1 /\ n + 1 <= Len(w) + 1 /\ n - 1 + 1 = n /\ Len(w) - (n + 1) + 1 = Len(w) - n
    BY <1>4, <1>5
  <2>2. Len(SubSeq(w, 1, n)) = n - 1 + 1
    BY <1>4, <2>1, PartOf
  <2>3. Len(SubSeq(w, n + 1, Len(w))) = Len(w) - (n + 1) + 1
    BY <1>4, <2>1, PartOf
  <2> QED
    BY <2>1, <2>2, <2>3
<1>7. /\ cpc'[c] = "write" /\ written'[c] = 0 /\ output'[c] = output[c]
      /\ got'[c] = SubSeq(w, 1, n) /\ wire'[c] = SubSeq(w, n + 1, Len(w))
      /\ \A d \in Client \ {c} : /\ cpc'[d] = cpc[d] /\ wire'[d] = wire[d] /\ got'[d] = got[d]
                                 /\ written'[d] = written[d] /\ output'[d] = output[d]
  BY <1>1, <1>2, <1>3 DEF IInv, TypeOK
<1>8. Amount(c)' = Len(output[c]) + n + (Len(w) - n)
  <2>1. Amount(c)' = Len(output'[c]) + Missing(written'[c], Len(got'[c])) + Len(wire'[c])
    BY DEF Amount, Missing
  <2>2. /\ Len(output'[c]) = Len(output[c]) /\ written'[c] = 0
        /\ Len(got'[c]) = n /\ Len(wire'[c]) = Len(w) - n
    BY <1>6, <1>7
  <2>3. Missing(0, n) = n
    BY <1>4, <1>5, MissingIsNumber
  <2> QED
    BY <2>1, <2>2, <2>3, Zenon
<1>9. Amount(c) = Len(output[c]) + Len(w)
  <2>1. written[c] >= Len(got[c])
    BY <1>2 DEF Enough
  <2>2. Len(output[c]) \in Nat /\ Len(got[c]) \in Nat /\ written[c] \in Nat
    BY Lengths
  <2>3. Missing(written[c], Len(got[c])) = 0
    BY <2>1, <2>2, MissingIsNumber
  <2> QED
    BY <1>3, <1>4, <2>2, <2>3 DEF Amount
<1>10. Amount(c)' \in Nat /\ Amount(c)' >= Amount(c)
  BY <1>4, <1>5, <1>8, <1>9, Lengths
<1> QED
  BY <1>2, <1>7, <1>10, ClientEnough

(* What is written is counted, and the client receives again only after it has
   counted the whole buffer. *)
LEMMA WriteEnough == ASSUME IInv, Enough, NEW c \in Client, Write(c) PROVE Enough'
<1>1. PICK n \in Accepted("write", Len(got[c])) :
        /\ output' = [output EXCEPT ![c] = @ \o SubSeq(got[c], 1, n)]
        /\ written' = [written EXCEPT ![c] = @ + n]
  BY DEF Write
<1>2. /\ cpc[c] = "write"
      /\ cpc' = IF written'[c] < Len(got[c]) THEN cpc ELSE [cpc EXCEPT ![c] = "receive"]
      /\ UNCHANGED <<spc, conn, position, chunk, sent, got, wire, closed>>
  BY DEF Write, server
<1>3. PICK g, a : g = got[c] /\ a = output[c]
  OBVIOUS
<1>4. g \in Seq(Byte) /\ a \in Seq(Byte) /\ Len(g) \in Nat /\ Len(a) \in Nat
  BY <1>3 DEF IInv, TypeOK
<1>5. n \in 0..Len(g)
  <2>1. n \in 1..Len(g) \/ n = Len(g)
    BY <1>1, <1>3 DEF Accepted
  <2> QED
    BY <1>4, <2>1
<1>6. Len(a \o SubSeq(g, 1, n)) = Len(a) + n
  <2>1. 1 \in Nat \ {0} /\ 1 <= n + 1 /\ n - 1 + 1 = n
    BY <1>5
  <2>2. SubSeq(g, 1, n) \in Seq(Byte) /\ Len(SubSeq(g, 1, n)) = n - 1 + 1
    BY <1>4, <1>5, <2>1, PartOf
  <2> QED
    BY <1>4, <2>1, <2>2, ConcatProperties
<1>7. /\ output'[c] = a \o SubSeq(g, 1, n) /\ written'[c] = written[c] + n
      /\ got'[c] = g /\ wire'[c] = wire[c]
      /\ cpc'[c] \in {"receive", "done"} => ~(written'[c] < Len(g))
      /\ \A d \in Client \ {c} : /\ cpc'[d] = cpc[d] /\ wire'[d] = wire[d] /\ got'[d] = got[d]
                                 /\ written'[d] = written[d] /\ output'[d] = output[d]
  BY <1>1, <1>2, <1>3 DEF IInv, TypeOK
<1>8. written'[c] \in Nat /\ Len(wire[c]) \in Nat /\ written[c] \in Nat
  BY <1>5, <1>7, Lengths
<1>9. Amount(c) = Len(a) + Missing(written[c], Len(g)) + Len(wire[c])
  BY <1>3 DEF Amount
<1>10. Amount(c)' = Len(a) + n + Missing(written[c] + n, Len(g)) + Len(wire[c])
  BY <1>6, <1>7 DEF Amount, Missing
<1>11. Amount(c)' \in Nat /\ Amount(c)' >= Amount(c)
  <2>1. PICK la \in Nat, lg \in Nat, lw \in Nat, k \in Nat :
          la = Len(a) /\ lg = Len(g) /\ lw = Len(wire[c]) /\ k = written[c]
    BY <1>4, <1>8
  <2>2. n \in Nat /\ n <= lg
    BY <1>4, <1>5, <2>1
  <2>3. /\ Amount(c) = la + Missing(k, lg) + lw
        /\ Amount(c)' = la + n + Missing(k + n, lg) + lw
    BY <1>9, <1>10, <2>1, Zenon
  <2>4. /\ Missing(k, lg) \in Nat /\ Missing(k + n, lg) \in Nat
        /\ Missing(k, lg) <= n + Missing(k + n, lg)
    <3>1. k \in Nat /\ lg \in Nat /\ n \in Nat /\ k + n \in Nat
      BY <2>1, <2>2
    <3> QED
      BY <3>1, MissingIsNumber
  <2> QED
    BY <2>2, <2>3, <2>4
<1>12. cpc'[c] \in {"receive", "done"} => written'[c] >= Len(got'[c])
  BY <1>4, <1>7, <1>8
<1> QED
  BY <1>2, <1>7, <1>11, <1>12, ClientEnough

(* The server goes on to the next chunk when it has counted the present one. *)
LEMMA SendEnough == ASSUME IInv, Enough, Send PROVE Enough'
<1>1. /\ spc = "send" /\ UNCHANGED <<conn, position, chunk, cpc, got, written, output, closed>>
  BY DEF Send, locals
<1>2. PICK n \in Accepted("send", Len(chunk)) :
        /\ wire' = [wire EXCEPT ![conn] = @ \o SubSeq(chunk, 1, n)]
        /\ sent' = sent + n
        /\ spc' = IF sent' >= Len(chunk) THEN "read" ELSE "send"
  BY DEF Send, SentAll
<1>3. /\ conn \in Client /\ ~closed[conn] /\ chunk \in Seq(Byte) /\ wire[conn] \in Seq(Byte)
      /\ Amount(conn) >= Offset + sent /\ Offset = position - Len(chunk)
  BY <1>1 DEF IInv, TypeOK, Current, Serving, Enough, Counted, Offset
<1>4. n \in 0..Len(chunk)
  <2>1. n \in 1..Len(chunk) \/ n = Len(chunk)
    BY <1>2 DEF Accepted
  <2> QED
    BY <1>3, <2>1
<1>5. /\ Len(wire'[conn]) = Len(wire[conn]) + n
      /\ \A d \in Client \ {conn} : wire'[d] = wire[d]
  <2>1. 1 \in Nat \ {0} /\ 1 <= n + 1 /\ n - 1 + 1 = n
    BY <1>4
  <2>2. SubSeq(chunk, 1, n) \in Seq(Byte) /\ Len(SubSeq(chunk, 1, n)) = n - 1 + 1
    BY <1>3, <1>4, <2>1, PartOf
  <2>3. Len(wire[conn] \o SubSeq(chunk, 1, n)) = Len(wire[conn]) + n
    BY <1>3, <2>1, <2>2, ConcatProperties
  <2> QED
    BY <1>2, <1>3, <2>3 DEF IInv, TypeOK
<1>6. /\ \A d \in Client \ {conn} : Amount(d)' = Amount(d)
      /\ Len(wire[conn]) \in Nat
  BY <1>1, <1>3, <1>5, Lengths DEF Amount
<1>7. PICK m \in Nat : m = Len(output[conn]) + Missing(written[conn], Len(got[conn]))
  BY <1>3, Lengths
<1>8. Amount(conn) = m + Len(wire[conn]) /\ Amount(conn)' = m + (Len(wire[conn]) + n)
  BY <1>1, <1>5, <1>7 DEF Amount
<1>9. Amount(conn)' >= Offset + sent'
  <2>1. /\ Amount(conn) >= Offset + sent /\ Offset = position - Len(chunk) /\ sent' = sent + n
        /\ position \in Nat /\ Len(chunk) \in Nat /\ sent \in Nat /\ Len(wire[conn]) \in Nat
    BY <1>2, <1>3, <1>6, Lengths
  <2> QED
    BY <1>4, <1>8, <2>1
<1>10. spc' \in Serving /\ Amount(conn)' >= (Offset + Counted)'
  <2>1. CASE sent' >= Len(chunk)
    <3>1. spc' = "read" /\ Offset' = position /\ Counted' = 0
      BY <1>1, <1>2, <2>1 DEF Offset, Counted
    <3>2. Amount(conn)' >= position
      <4>1. /\ Offset = position - Len(chunk) /\ sent' = sent + n /\ Len(wire[conn]) \in Nat
            /\ position \in Nat /\ Len(chunk) \in Nat /\ sent \in Nat
        BY <1>2, <1>3, <1>6, Lengths
      <4> QED
        BY <1>4, <1>8, <1>9, <2>1, <4>1
    <3> QED
      BY <3>1, <3>2, Lengths DEF Serving
  <2>2. CASE ~(sent' >= Len(chunk))
    <3>1. spc' = "send" /\ Offset' = Offset /\ Counted' = sent'
      BY <1>1, <1>2, <2>2 DEF Offset, Counted
    <3> QED
      BY <1>9, <3>1 DEF Serving
  <2> QED
    BY <2>1, <2>2
<1>11. \A c \in Client : closed'[c] => Amount(c)' >= Len(File)
  BY <1>1, <1>3, <1>6 DEF Enough
<1> QED
  BY <1>1, <1>10, <1>11 DEF Enough

(* No other step moves bytes. *)
LEMMA OtherEnough ==
  ASSUME IInv, Enough, UNCHANGED <<got, written, output, wire>>,
         \A c \in Client : cpc'[c] \in {"receive", "done"} =>
                            cpc[c] \in {"receive", "done"} \/ written[c] >= Len(got[c]),
         spc' \in Serving => conn' \in Client /\ Amount(conn') >= (Offset + Counted)',
         spc' # "exited" => /\ spc # "exited"
                            /\ \A c \in Client : closed'[c] => closed[c] \/ Amount(c) >= Len(File)
  PROVE  Enough'
<1>1. \A c \in Client : Amount(c)' = Amount(c)
  BY DEF Amount
<1>2. spc' \in Serving => Amount(conn)' >= (Offset + Counted)'
  BY DEF Amount
<1> QED
  BY <1>1, <1>2 DEF Enough

(* No client has too few bytes after any step. *)
LEMMA EnoughStep == ASSUME IInv, Enough, [Next]_vars PROVE Enough'
<1>1. CASE UNCHANGED vars
  BY <1>1, OtherEnough DEF vars, server, locals, stream, Enough, IInv, Current, Offset, Counted
<1>2. CASE Start \/ (OpenFile /\ spc' = "accept")
  <2>1. /\ spc \in SettingUp /\ spc' \in SettingUp \union {"exited"}
        /\ UNCHANGED <<cpc, got, written, output, wire, closed>>
    <3>1. CASE Start
      BY <3>1 DEF Start, locals, stream, Setup!Next, Setup!FindAddress, Setup!CreateSocket,
         Setup!SetOption, Setup!Bind, Setup!Listen, SettingUp
    <3>2. CASE OpenFile /\ spc' = "accept"
      BY <3>2 DEF OpenFile, Exit, locals, stream, SettingUp
    <3> QED
      BY <1>2, <3>1, <3>2
  <2>2. spc # "exited" /\ spc' \notin Serving
    BY <2>1 DEF SettingUp, Serving
  <2> QED
    BY <2>1, <2>2, OtherEnough
<1>3. CASE Exit
  BY <1>3, OtherEnough DEF Exit, locals, Serving
<1>4. CASE Accept
  <2>1. /\ spc = "accept" /\ position' = 0 /\ spc' = "read"
        /\ UNCHANGED <<cpc, got, written, output, wire, closed>>
    BY <1>4 DEF Accept, locals, stream
  <2>2. conn' \in Client
    <3>1. IInv'
      BY <1>4, AcceptStep
    <3> QED
      BY <2>1, <3>1 DEF IInv, Current, Serving
  <2>3. Amount(conn') >= (Offset + Counted)'
    <3>1. Amount(conn') \in Nat
      BY <2>2, Lengths
    <3> QED
      BY <2>1, <3>1 DEF Offset, Counted
  <2> QED
    BY <2>1, <2>2, <2>3, OtherEnough
<1>5. CASE ReadChunk
  <2>1. /\ spc = "read" /\ spc' = "send" /\ sent' = 0 /\ position < Len(File)
        /\ UNCHANGED <<conn, cpc, got, written, output, wire, closed>>
    BY <1>5 DEF ReadChunk, locals, stream
  <2>2. PICK n \in 1..Smaller(BufSize, Len(File) - position) :
          chunk' = SubSeq(File, position + 1, position + n) /\ position' = position + n
    BY <1>5 DEF ReadChunk
  <2>3. PICK p \in Nat : p = position /\ p <= Len(File)
    BY FileAssumption DEF IInv, TypeOK
  <2>4. n \in Nat \ {0} /\ p + n \in 0..Len(File)
    BY <2>1, <2>2, <2>3, BufferAssumption, FileAssumption DEF Smaller
  <2>5. Len(chunk') = n
    <3>1. p + 1 \in Nat \ {0} /\ p + 1 <= p + n + 1 /\ p + n - (p + 1) + 1 = n
      BY <2>4
    <3> QED
      BY <2>2, <2>3, <2>4, <3>1, FileBytes, PartOf
  <2>6. (Offset + Counted)' = p
    <3>1. Offset' = p + n - n /\ Counted' = 0
      BY <2>1, <2>2, <2>3, <2>5 DEF Offset, Counted
    <3> QED
      BY <2>4, <3>1
  <2>7. conn \in Client /\ Amount(conn) >= p
    <3>1. conn \in Client /\ Amount(conn) >= Offset + Counted /\ Offset = p /\ Counted = 0
      BY <2>1, <2>3 DEF IInv, Current, Serving, Enough, Offset, Counted
    <3> QED
      BY <3>1, Lengths
  <2> QED
    BY <2>1, <2>6, <2>7, OtherEnough
<1>6. CASE EndOfFile
  <2>1. /\ spc = "read" /\ position = Len(File) /\ closed' = [closed EXCEPT ![conn] = TRUE]
        /\ spc' = "accept" /\ UNCHANGED <<cpc, got, written, output, wire>>
    BY <1>6 DEF EndOfFile, locals
  <2>2. conn \in Client /\ Amount(conn) >= Len(File)
    <3>1. conn \in Client /\ Amount(conn) >= Offset + Counted /\ Offset = Len(File) /\ Counted = 0
      BY <2>1 DEF IInv, Current, Serving, Enough, Offset, Counted
    <3> QED
      BY <3>1, Lengths
  <2>3. \A c \in Client : closed'[c] => closed[c] \/ Amount(c) >= Len(File)
    BY <2>1, <2>2 DEF IInv, TypeOK
  <2> QED
    BY <2>1, <2>3, OtherEnough DEF Serving
<1>7. ASSUME NEW c \in Client, Connect(c) \/ Finish(c) \/ Leave(c) PROVE Enough'
  <2>1. UNCHANGED <<spc, conn, position, chunk, sent, got, written, output, wire, closed>>
    BY <1>7 DEF Connect, Finish, Leave, server, locals, stream
  <2>2. /\ cpc' \in [Client -> {"new", "receive", "write", "done", "failed"}]
        /\ \A d \in Client : cpc'[d] \in {"receive", "done"} =>
             cpc[d] \in {"receive", "done"} \/ cpc[d] = "new"
    BY <1>7 DEF Connect, Finish, Leave, IInv, TypeOK
  <2>3. \A d \in Client : cpc[d] = "new" => written[d] >= Len(got[d])
    BY DEF IInv, Queue, Untouched
  <2>4. spc \in Serving => conn \in Client /\ Amount(conn) >= Offset + Counted
    BY DEF IInv, Current, Enough
  <2>5. Offset' = Offset /\ Counted' = Counted
    BY <2>1 DEF Offset, Counted
  <2> QED
    BY <2>1, <2>2, <2>3, <2>4, <2>5, OtherEnough
<1> QED
  <2>1. CASE OpenFile
    <3>1. Exit \/ spc' = "accept"
      BY <2>1 DEF OpenFile
    <3> QED
      BY <1>2, <1>3, <2>1, <3>1
  <2>2. CASE SeekFails \/ SendFails \/ ReadFails
    BY <1>3, <2>2 DEF SeekFails, SendFails, ReadFails
  <2>3. CASE \E c \in Client : ClientStep(c)
    BY <1>7, <2>3, ReceiveEnough, WriteEnough DEF ClientStep
  <2> QED
    BY <1>1, <1>2, <1>4, <1>5, <1>6, <1>7, <2>1, <2>2, <2>3, SendEnough DEF Next, ServerStep

(* Both invariants hold throughout. *)
LEMMA NeverTooFew == Spec => [](IInv /\ Enough)
<1>1. Init => Enough
  <2>1. Init => spc = "getaddrinfo"
    BY DEF Init, Setup!Init
  <2> QED
    BY <2>1 DEF Init, Enough, Serving
<1>2. IInv /\ Enough /\ [Next]_vars => Enough'
  BY EnoughStep
<1> QED
  BY <1>1, <1>2, Invariance, PTL DEF Spec
----------------------------------------------------------------------------

(* What a client has in its file, in its buffer and on the wire is a beginning
   of the server's file until one of its own sends or writes is short, and has
   bytes of that file only even after that. *)
THEOREM BytesInOrder == Spec => []StreamIsFile
<1>1. ASSUME IInv, NEW c \in Client, ~short[c] PROVE IsPrefix(Total(c), File)
  <2>1. PICK n \in 0..Len(File) : Total(c) = SubSeq(File, 1, n)
    BY <1>1 DEF IInv, Beginnings
  <2>2. PICK t : t = Total(c)
    OBVIOUS
  <2>3. t \in Seq(Byte) /\ Len(t) = n /\ t = SubSeq(File, 1, n)
    <3>1. 1 \in Nat \ {0} /\ n - 1 + 1 = n
      OBVIOUS
    <3> QED
      BY <2>1, <2>2, <3>1, FileBytes, PartOf
  <2>4. SubSeq(t, 1, Len(t)) = t /\ Len(t) <= Len(File)
    BY <2>3, FileAssumption, SubSeqFull
  <2> QED
    BY <2>2, <2>3, <2>4, Zenon DEF IsPrefix
<1>2. ASSUME IInv, NEW c \in Client PROVE Range(Total(c)) \subseteq Range(File)
  <2>1. PICK t : t = Total(c)
    OBVIOUS
  <2>2. t \in Seq(Byte)
    BY <1>2, <2>1, RestType DEF IInv
  <2>3. \A i \in DOMAIN t : t[i] \in Byte
    BY <2>2, ElementOfSeq
  <2>4. Range(t) \subseteq Byte
    BY <2>3, Zenon DEF Range
  <2> QED
    BY <2>1, <2>4, Zenon DEF Byte
<1>3. IInv => StreamIsFile
  BY <1>1, <1>2 DEF StreamIsFile
<1> QED
  BY <1>3, Invariance, PTL

(* A client that ends without an error, while the server still runs, has the
   whole file if none of its sends and writes was short, and at least as many
   bytes as the file in any case. *)
THEOREM WholeFile == Spec => []FileArrives
<1>1. ASSUME IInv, NEW c \in Client, cpc[c] = "done", spc # "exited", ~short[c]
      PROVE  output[c] = File
  <2>1. closed[c] /\ wire[c] = << >> /\ written[c] = Len(got[c])
    BY <1>1 DEF IInv, Writing
  <2>2. Total(c) = File
    BY <1>1, <2>1 DEF IInv, Complete
  <2>3. PICK a, g : a = output[c] /\ g = got[c]
    OBVIOUS
  <2>4. a \in Seq(Byte) /\ g \in Seq(Byte)
    BY <1>1, <2>3 DEF IInv, TypeOK
  <2>5. SubSeq(g, Len(g) + 1, Len(g)) = << >> /\ a \o << >> = a
    BY <2>4, NothingLeft, ConcatEmptySeq
  <2>6. Total(c) = a \o << >> \o << >>
    BY <2>1, <2>3, <2>5, Zenon DEF Total, Rest
  <2> QED
    BY <2>2, <2>3, <2>5, <2>6, Zenon
<1>2. ASSUME IInv, Enough, NEW c \in Client, cpc[c] = "done", spc # "exited"
      PROVE  Len(output[c]) >= Len(File)
  <2>1. closed[c] /\ Len(wire[c]) = 0
    BY <1>2 DEF IInv, Writing
  <2>2. written[c] >= Len(got[c]) /\ Amount(c) >= Len(File)
    BY <1>2, <2>1 DEF Enough
  <2>3. Len(output[c]) \in Nat /\ Len(got[c]) \in Nat /\ written[c] \in Nat
    BY <1>2, Lengths
  <2>4. Amount(c) = Len(output[c])
    <3>1. Missing(written[c], Len(got[c])) = 0
      BY <2>2, <2>3, MissingIsNumber
    <3> QED
      BY <2>1, <2>3, <3>1 DEF Amount
  <2> QED
    BY <2>2, <2>4
<1>3. IInv /\ Enough => FileArrives
  BY <1>1, <1>2 DEF FileArrives
<1> QED
  BY <1>3, NeverTooFew, PTL
=============================================================================
