------------------------------ MODULE GfClient -------------------------------
(***************************************************************************)
(* gfc_perform of gflib/gfclient.c: connect, send the request, find the    *)
(* end of the response header in a stream that may arrive in any pieces,   *)
(* read the status and the length, and hand the body to the callback.      *)
(*                                                                         *)
(* A stream is a sequence of symbols.  A single character stands for its   *)
(* ASCII code; a word of the protocol, with the blank behind it, is one    *)
(* symbol above 255, since nothing depends on where a word is broken.  The *)
(* delimiter stays four characters.  The peer is any program that answers  *)
(* with one of Responses and may close or reset the connection at any      *)
(* time.                                                                   *)
(***************************************************************************)
EXTENDS Integers, SequencesExt

CONSTANTS Addresses,      \* how many addresses findAddrInfo returns
          RequestLength,  \* symbols of the request
          BufSize,        \* sizeof(buffer)
          WordSize,       \* how many values a size_t has
          Responses       \* what peers may answer: sequences of symbols

ASSUME SizesAssumption == /\ Addresses \in Nat /\ RequestLength \in Nat \ {0}
                          /\ BufSize \in Nat \ {0} /\ WordSize \in Nat \ {0}
ASSUME SymbolsAssumption == Responses \subseteq Seq(Nat)

VARIABLES
  pc,
  addr,           \* the address to be tried next
  sfd,            \* "none" or "open"
  sent,           \* symbols of the request sent so far
  buffer,         \* what has been received of the header, and behind it
  headerEnd,      \* header_end: how many symbols stand before the delimiter
  status, fileLength, bytesReceived,     \* the fields of gfcrequest_t
  delivered,      \* what writefunc was called with
  ret,            \* the result of gfc_perform, 1 before it returns
  response,       \* all that the peer sends on this connection
  incoming,       \* the part of it that has not been received
  peer            \* "open", "closed" or "reset"

handle == <<status, fileLength, bytesReceived>>
net == <<response, incoming, peer>>
vars == <<pc, addr, sfd, sent, buffer, headerEnd, handle, delivered, ret, net>>

CR == 13
LF == 10
Delimiter == <<CR, LF, CR, LF>>
GETFILE == 256
Word == [OK |-> 257, FILE_NOT_FOUND |-> 258, ERROR |-> 259]
Unknown == 260

Init == /\ pc = "connect"
        /\ addr = 1
        /\ sfd = "none"
        /\ sent = 0
        /\ buffer = << >>
        /\ headerEnd = 0
        /\ status = "INVALID" /\ fileLength = 0 /\ bytesReceived = 0
        /\ delivered = << >>
        /\ ret = 1
        /\ response \in Responses
        /\ incoming = response
        /\ peer = "open"

Over == pc \in {"returned", "killed"}

(* gfc_close_socket, and back to the caller. *)
Return(code) == /\ ret' = code
                /\ sfd' = "none"
                /\ pc' = "returned"

----------------------------------------------------------------------------
(* establishConnection *)

ConnectFails == /\ pc = "connect" /\ addr <= Addresses
                /\ addr' = addr + 1
                /\ UNCHANGED <<pc, sfd, sent, buffer, headerEnd, handle, delivered, ret, net>>

Connects == /\ pc = "connect" /\ addr <= Addresses
            /\ sfd' = "open"
            /\ pc' = "send"
            /\ UNCHANGED <<addr, sent, buffer, headerEnd, handle, delivered, ret, net>>

NoConnection == /\ pc = "connect" /\ addr > Addresses
                /\ status' = "INVALID"
                /\ Return(-1)
                /\ UNCHANGED <<addr, sent, buffer, headerEnd, fileLength, bytesReceived,
                               delivered, net>>

----------------------------------------------------------------------------
(* The request *)

SendRequest == /\ pc = "send"
               /\ \E n \in 1..RequestLength - sent : sent' = sent + n
               /\ pc' = IF sent' = RequestLength THEN "header" ELSE "send"
               /\ UNCHANGED <<addr, sfd, buffer, headerEnd, handle, delivered, ret, net>>

(* send returns -1, or raises SIGPIPE, which nothing catches. *)
SendFails == /\ pc = "send" /\ peer # "open"
             /\ \/ Return(-1)
                \/ pc' = "killed" /\ UNCHANGED <<ret, sfd>>
             /\ UNCHANGED <<addr, sent, buffer, headerEnd, handle, delivered, net>>

----------------------------------------------------------------------------
(* The header *)

(* Where the delimiter begins in b, at start or later; as in C the first
   position is 0. *)
DelimitersFrom(start, b) == {i \in start..Len(b) - 4 : SubSeq(b, i + 1, i + 4) = Delimiter}

First(positions) == CHOOSE i \in positions : \A j \in positions : i <= j

\* Mutant: the search begins with the bytes just received.
ScanStart_New == Len(buffer)

(* The delimiter may begin in the last three bytes of an earlier receive. *)
ScanStart == IF Len(buffer) >= 3 THEN Len(buffer) - 3 ELSE 0

(* What one recv into a buffer of the given size may return. *)
Received(space) == {n \in 1..Len(incoming) : n <= space}

Take(n) == /\ incoming' = SubSeq(incoming, n + 1, Len(incoming))
           /\ UNCHANGED <<response, peer>>

ReceiveHeader ==
  /\ pc = "header" /\ peer # "reset"
  /\ \E n \in Received(BufSize - Len(buffer)) :
       /\ Take(n)
       /\ buffer' = buffer \o SubSeq(incoming, 1, n)
       /\ LET found == DelimitersFrom(ScanStart, buffer')
          IN  IF found = {} THEN UNCHANGED <<pc, headerEnd>>
                            ELSE pc' = "parse" /\ headerEnd' = First(found)
  /\ UNCHANGED <<addr, sfd, sent, handle, delivered, ret>>

(* recv returns 0: the peer has closed, or the buffer has no space left. *)
HeaderEnds == /\ pc = "header"
              /\ \/ incoming = << >> /\ peer = "closed"
                 \/ Len(buffer) = BufSize /\ peer # "reset"
              /\ pc' = "parse"
              /\ UNCHANGED <<addr, sfd, sent, buffer, headerEnd, handle, delivered, ret, net>>

HeaderFails == /\ pc = "header" /\ peer = "reset"
               /\ Return(-1)
               /\ UNCHANGED <<addr, sent, buffer, headerEnd, handle, delivered, net>>

----------------------------------------------------------------------------
(* Parsing, the same for the code and for the reference below *)

IsGetfile(b) == b # << >> /\ b[1] = GETFILE

(* The status word of a header of the given length, "none" if unknown. *)
StatusWord(b, end) ==
  IF IsGetfile(b) /\ end >= 2 /\ \E s \in DOMAIN Word : Word[s] = b[2]
    THEN CHOOSE s \in DOMAIN Word : Word[s] = b[2]
    ELSE "none"

IsDigit(c) == ~(c < 48 \/ c > 57)
Digits(b, end) == SubSeq(b, 3, end)
AllDigits(b, end) == \A i \in DOMAIN Digits(b, end) : IsDigit(Digits(b, end)[i])

(* The loop over the digits, from the value that gfc_create has set; value[n]
   is fileLength after n rounds. *)
Number(digits) ==
  LET value[n \in 0..Len(digits)] ==
        IF n = 0 THEN 0 ELSE (value[n - 1] * 10 + (digits[n] - 48)) % WordSize
  IN  value[Len(digits)]

(* The value fileLength has when the loop meets a character that is no digit. *)
PartialNumber(digits) ==
  Number(SubSeq(digits, 1, First({i \in 0..Len(digits) - 1 : ~IsDigit(digits[i + 1])})))

StatusRefuses == /\ pc = "parse"
                 /\ StatusWord(buffer, headerEnd) \in {"FILE_NOT_FOUND", "ERROR"}
                 /\ status' = StatusWord(buffer, headerEnd)
                 /\ Return(0)
                 /\ UNCHANGED <<addr, sent, buffer, headerEnd, fileLength, bytesReceived,
                                delivered, net>>

StatusInvalid == /\ pc = "parse"
                 /\ StatusWord(buffer, headerEnd) = "none"
                 /\ status' = "INVALID"
                 /\ Return(-1)
                 /\ UNCHANGED <<addr, sent, buffer, headerEnd, fileLength, bytesReceived,
                                delivered, net>>

LengthInvalid == /\ pc = "parse"
                 /\ StatusWord(buffer, headerEnd) = "OK" /\ ~AllDigits(buffer, headerEnd)
                 /\ status' = "INVALID"
                 /\ fileLength' = PartialNumber(Digits(buffer, headerEnd))
                 /\ Return(-1)
                 /\ UNCHANGED <<addr, sent, buffer, headerEnd, bytesReceived, delivered, net>>

\* Mutant: the bytes behind the header are dropped.
Leftover_Dropped == << >>

(* What was received together with the header belongs to the body. *)
Leftover == SubSeq(buffer, headerEnd + 5, Len(buffer))

HeaderOK == /\ pc = "parse"
            /\ StatusWord(buffer, headerEnd) = "OK" /\ AllDigits(buffer, headerEnd)
            /\ status' = "OK"
            /\ fileLength' = Number(Digits(buffer, headerEnd))
            /\ bytesReceived' = Len(Leftover)
            /\ delivered' = Leftover
            /\ pc' = "body"
            /\ UNCHANGED <<addr, sfd, sent, buffer, headerEnd, ret, net>>

----------------------------------------------------------------------------
(* The body *)

ReceiveBody == /\ pc = "body" /\ bytesReceived < fileLength /\ peer # "reset"
               /\ \E n \in Received(BufSize) :
                    /\ Take(n)
                    /\ bytesReceived' = bytesReceived + n
                    /\ delivered' = delivered \o SubSeq(incoming, 1, n)
               /\ UNCHANGED <<pc, addr, sfd, sent, buffer, headerEnd, status, fileLength, ret>>

\* Mutant: the early end is tried again for ever.
BodyEnds_Retry == FALSE

(* The connection is closed too early; the status stays OK. *)
BodyEnds == /\ pc = "body" /\ bytesReceived < fileLength
            /\ incoming = << >> /\ peer = "closed"
            /\ Return(-1)
            /\ UNCHANGED <<addr, sent, buffer, headerEnd, handle, delivered, net>>

BodyFails == /\ pc = "body" /\ bytesReceived < fileLength /\ peer = "reset"
             /\ status' = "INVALID"
             /\ Return(-1)
             /\ UNCHANGED <<addr, sent, buffer, headerEnd, fileLength, bytesReceived,
                            delivered, net>>

BodyComplete == /\ pc = "body" /\ bytesReceived >= fileLength
                /\ Return(0)
                /\ UNCHANGED <<addr, sent, buffer, headerEnd, handle, delivered, net>>

----------------------------------------------------------------------------
(* The peer closes after part of its answer, or the connection breaks. *)

Consumed == Len(response) - Len(incoming)

PeerCloses == /\ peer = "open" /\ ~Over
              /\ peer' = "closed"
              /\ \E n \in Consumed..Len(response) :
                   /\ response' = SubSeq(response, 1, n)
                   /\ incoming' = SubSeq(response, Consumed + 1, n)
              /\ UNCHANGED <<pc, addr, sfd, sent, buffer, headerEnd, handle, delivered, ret>>

PeerResets == /\ peer # "reset" /\ ~Over
              /\ peer' = "reset"
              /\ UNCHANGED <<pc, addr, sfd, sent, buffer, headerEnd, handle, delivered, ret,
                             response, incoming>>

Perform == \/ ConnectFails \/ Connects \/ NoConnection
           \/ SendRequest \/ SendFails
           \/ ReceiveHeader \/ HeaderEnds \/ HeaderFails
           \/ StatusRefuses \/ StatusInvalid \/ LengthInvalid \/ HeaderOK
           \/ ReceiveBody \/ BodyEnds \/ BodyFails \/ BodyComplete

Next == Perform \/ PeerCloses \/ PeerResets

(* The calling thread runs as long as it is not blocked. *)
Spec == Init /\ [][Next]_vars /\ WF_vars(Perform)
----------------------------------------------------------------------------

(* The reference: what a reader who had the whole stream at once would say
   of it.  The header must end within the first BufSize symbols. *)
HeaderEndOf(stream) ==
  LET found == {i \in DelimitersFrom(0, stream) : i + 4 <= BufSize}
  IN  IF found = {} THEN -1 ELSE First(found)

BodyOf(stream) == SubSeq(stream, HeaderEndOf(stream) + 5, Len(stream))

(* <<ret, status>>, or "more" while the answer is still open. *)
Verdict(stream, closed) ==
  LET end == HeaderEndOf(stream)
      word == StatusWord(stream, end)
  IN  IF end = -1
        THEN IF closed \/ Len(stream) >= BufSize THEN <<-1, "INVALID">> ELSE <<1, "more">>
      ELSE IF word \in {"FILE_NOT_FOUND", "ERROR"} THEN <<0, word>>
      ELSE IF word = "none" \/ ~AllDigits(stream, end) THEN <<-1, "INVALID">>
      ELSE IF Len(BodyOf(stream)) >= Number(Digits(stream, end)) THEN <<0, "OK">>
      ELSE IF closed THEN <<-1, "OK">> ELSE <<1, "more">>

(* gfc_perform says of a response what the reference says, in whatever pieces
   the response arrived: a delimiter broken over two receives, a body that
   begins in the same receive and a close between two of them make no
   difference.  And no way back to the caller leaves the socket open. *)
VerdictIndependentOfPieces ==
  pc = "returned" =>
    /\ sent = RequestLength /\ peer # "reset"
         => <<ret, status>> = Verdict(response, peer = "closed")
    /\ sfd = "none"

(* The callback gets the body from its first byte on, in order and without a
   gap, and bytesReceived counts what it got; no byte of a header and nothing
   of a refusal reaches it. *)
BodyInOrder == /\ IsPrefix(delivered, BodyOf(response))
               /\ bytesReceived = Len(delivered)
               /\ delivered # << >> => StatusWord(response, HeaderEndOf(response)) = "OK"

(* The result tells whether the file is there.  Success means that every byte
   the header announced was handed to the callback, not only that it arrived;
   a failure with the status still OK means that the peer closed too early, and
   that the callback got all that had come before. *)
ResultTellsBody ==
  pc = "returned" /\ status = "OK" =>
    LET announced == Number(Digits(response, HeaderEndOf(response)))
    IN  IF ret = 0 THEN Len(delivered) >= announced
                   ELSE Len(delivered) < announced /\ delivered = BodyOf(response)

(* What the callback has been handed is the body up to some byte, at every
   moment, and the result of gfc_perform says up to which. *)
BodyIntact == BodyInOrder /\ ResultTellsBody

(* gfc_perform returns once the response is complete or the connection is
   gone; there is no timeout for a peer that just stays silent. *)
Returns ==
  (peer # "open" \/ Verdict(response, FALSE) # <<1, "more">>) ~> Over
=============================================================================
