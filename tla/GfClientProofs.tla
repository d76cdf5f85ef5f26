---------------------------- MODULE GfClientProofs ----------------------------
(***************************************************************************)
(* Proofs about GfClient: gfc_perform judges a response as a reader of the *)
(* whole stream would, and passes the body on unchanged, whatever the peer *)
(* sends, however it is cut into pieces and wherever it breaks off.        *)
(***************************************************************************)
EXTENDS GfClient, SequenceTheorems, WellFoundedInduction, TLAPS

Stage == {"connect", "send", "header", "parse", "body", "returned", "killed"}

TypeOK == /\ pc \in Stage
          /\ addr \in Nat
          /\ sfd \in {"none", "open"}
          /\ sent \in 0..RequestLength
          /\ buffer \in Seq(Nat) /\ headerEnd \in Nat
          /\ bytesReceived \in Nat /\ delivered \in Seq(Nat)
          /\ response \in Seq(Nat) /\ incoming \in Seq(Nat)
          /\ peer \in {"open", "closed", "reset"}

(* Everything received so far and everything still to come make up the
   response. *)
Stream == /\ Consumed \in 0..Len(response)
          /\ incoming = SubSeq(response, Consumed + 1, Len(response))

(* While a header is being received it is searched without a gap. *)
Collecting ==
  pc = "header" => /\ sent = RequestLength
                   /\ buffer = SubSeq(response, 1, Consumed)
                   /\ Len(buffer) <= BufSize
                   /\ DelimitersFrom(0, buffer) = {}
                   /\ headerEnd = 0

(* The end of the header was found where the reference finds it, or there is
   none that the buffer has room for. *)
Parsing ==
  pc = "parse" =>
    /\ sent = RequestLength
    /\ buffer = SubSeq(response, 1, Consumed)
    /\ \/ headerEnd = HeaderEndOf(response) /\ headerEnd + 4 <= Len(buffer)
       \/ /\ headerEnd = 0 /\ HeaderEndOf(response) = -1
          /\ peer # "open" \/ Len(response) >= BufSize

(* What has been delivered is the body as far as it was received. *)
Passed ==
  /\ bytesReceived = Len(delivered)
  /\ delivered # << >> \/ pc = "body" =>
       /\ HeaderEndOf(response) + 4 + Len(delivered) <= Len(response)
       /\ delivered = SubSeq(response, HeaderEndOf(response) + 5,
                                       HeaderEndOf(response) + 4 + Len(delivered))
       /\ HeaderEndOf(response) # -1
       /\ StatusWord(response, HeaderEndOf(response)) = "OK"
  /\ pc = "body" => /\ sent = RequestLength
                    /\ Consumed = HeaderEndOf(response) + 4 + Len(delivered)
                    /\ status = "OK"
                    /\ AllDigits(response, HeaderEndOf(response))
                    /\ fileLength = Number(Digits(response, HeaderEndOf(response)))

(* Nothing is received before the request has been sent. *)
Before ==
  /\ pc \in {"connect", "send"} => /\ sent < RequestLength
                                   /\ Consumed = 0 /\ buffer = << >>
  /\ pc \in {"connect", "send", "header"} => headerEnd = 0
  /\ pc \in {"connect", "send", "header", "parse", "killed"} => delivered = << >>

IInv == TypeOK /\ Stream /\ Before /\ Collecting /\ Parsing /\ Passed
        /\ VerdictIndependentOfPieces
----------------------------------------------------------------------------
(* Lemmas about streams *)

(* A set of numbers has a least element. *)
LEMMA LeastNumber ==
  ASSUME NEW T, T \subseteq Nat, T # {}
  PROVE  \E x \in T : \A y \in T : x <= y
<1> DEFINE R == {ss \in Nat \X Nat : ss[1] < ss[2]}
<1>0. IsWellFoundedOn(R, Nat)
  BY NatLessThanWellFounded DEF OpToRel
<1>1. PICK x \in T : \A y \in T : ~(<<y, x>> \in R)
  <2> HIDE DEF R
  <2> QED
    BY <1>0, WFMin
<1>2. ASSUME NEW y \in T PROVE x <= y
  <2>1. x \in Nat /\ y \in Nat /\ ~(<<y, x>> \in R)
    BY <1>1
  <2> QED
    BY <2>1
<1> QED
  BY <1>2

(* A part of a stream is a stream. *)
LEMMA PartOf ==
  ASSUME NEW s \in Seq(Nat), NEW m \in Nat \ {0}, NEW n \in 0..Len(s), m <= n + 1
  PROVE  /\ SubSeq(s, m, n) \in Seq(Nat)
         /\ Len(SubSeq(s, m, n)) = n - m + 1
         /\ \A i \in 1..n - m + 1 : SubSeq(s, m, n)[i] = s[m + i - 1]
<1>1. \A i \in m..n : s[i] \in Nat
  BY ElementOfSeq
<1> QED
  BY <1>1, SubSeqProperties

(* s is what there is of t so far. *)
Beginning(s, t) == /\ s \in Seq(Nat) /\ t \in Seq(Nat) /\ Len(s) <= Len(t)
                   /\ \A i \in 1..Len(s) : s[i] = t[i]

(* A beginning has the parts of the whole that it covers. *)
LEMMA SamePart ==
  ASSUME NEW s, NEW t, Beginning(s, t),
         NEW m \in Nat \ {0}, NEW k \in 0..Len(s), m <= k + 1
  PROVE  SubSeq(s, m, k) = SubSeq(t, m, k)
<1>0. /\ s \in Seq(Nat) /\ t \in Seq(Nat) /\ Len(s) <= Len(t)
      /\ \A i \in 1..Len(s) : s[i] = t[i]
  BY DEF Beginning
<1>1. /\ s \in Seq(Nat) /\ t \in Seq(Nat) /\ k \in 0..Len(t)
      /\ \A i \in 1..Len(s) : s[i] = t[i]
  <2>1. Len(s) \in Nat /\ Len(t) \in Nat
    BY <1>0
  <2> QED
    BY <1>0, <2>1
<1>2. /\ SubSeq(s, m, k) \in Seq(Nat) /\ Len(SubSeq(s, m, k)) = k - m + 1
      /\ \A i \in 1..k - m + 1 : SubSeq(s, m, k)[i] = s[m + i - 1]
  BY <1>1, PartOf
<1>3. /\ SubSeq(t, m, k) \in Seq(Nat) /\ Len(SubSeq(t, m, k)) = k - m + 1
      /\ \A i \in 1..k - m + 1 : SubSeq(t, m, k)[i] = t[m + i - 1]
  BY <1>1, PartOf
<1>4. \A i \in 1..k - m + 1 : s[m + i - 1] = t[m + i - 1]
  <2>1. \A i \in 1..k - m + 1 : m + i - 1 \in 1..Len(s)
    BY <1>1
  <2> QED
    BY <1>1, <2>1
<1> QED
  BY <1>2, <1>3, <1>4, SeqEqual

(* The parts of a part. *)
LEMMA PartOfRest ==
  ASSUME NEW s \in Seq(Nat), NEW k \in 0..Len(s), NEW rest, rest = SubSeq(s, k + 1, Len(s)),
         NEW i \in Nat \ {0}, NEW j \in 0..Len(s) - k, i <= j + 1
  PROVE  /\ rest \in Seq(Nat) /\ Len(rest) = Len(s) - k
         /\ SubSeq(rest, i, j) = SubSeq(s, k + i, k + j)
<1>1. /\ rest \in Seq(Nat) /\ Len(rest) = Len(s) - k
      /\ \A m \in 1..Len(s) - k : rest[m] = s[k + m]
  <2>1. /\ k + 1 \in Nat \ {0} /\ Len(s) \in 0..Len(s) /\ k + 1 <= Len(s) + 1
        /\ Len(s) - (k + 1) + 1 = Len(s) - k /\ \A m \in 1..Len(s) - k : (k + 1) + m - 1 = k + m
    OBVIOUS
  <2>2. /\ rest \in Seq(Nat) /\ Len(rest) = Len(s) - (k + 1) + 1
        /\ \A m \in 1..Len(s) - (k + 1) + 1 : rest[m] = s[(k + 1) + m - 1]
    BY <2>1, PartOf
  <2> QED
    BY <2>1, <2>2
<1>2. /\ SubSeq(rest, i, j) \in Seq(Nat) /\ Len(SubSeq(rest, i, j)) = j - i + 1
      /\ \A m \in 1..j - i + 1 : SubSeq(rest, i, j)[m] = rest[i + m - 1]
  <2>1. j \in 0..Len(rest)
    BY <1>1
  <2> QED
    BY <1>1, <2>1, PartOf
<1>3. /\ SubSeq(s, k + i, k + j) \in Seq(Nat) /\ Len(SubSeq(s, k + i, k + j)) = j - i + 1
      /\ \A m \in 1..j - i + 1 : SubSeq(s, k + i, k + j)[m] = s[k + i + m - 1]
  <2>1. k + i \in Nat \ {0} /\ k + j \in 0..Len(s) /\ k + i <= k + j + 1
        /\ (k + j) - (k + i) + 1 = j - i + 1
    OBVIOUS
  <2> QED
    BY <2>1, PartOf
<1>4. \A m \in 1..j - i + 1 : rest[i + m - 1] = s[k + i + m - 1]
  <2> SUFFICES ASSUME NEW m \in 1..j - i + 1 PROVE rest[i + m - 1] = s[k + i + m - 1]
    OBVIOUS
  <2>1. i + m - 1 \in 1..Len(s) - k /\ k + (i + m - 1) = k + i + m - 1
    OBVIOUS
  <2> QED
    BY <1>1, <2>1
<1>5. SubSeq(rest, i, j) = SubSeq(s, k + i, k + j)
  <2> DEFINE a == SubSeq(rest, i, j)
             b == SubSeq(s, k + i, k + j)
  <2>1. a \in Seq(Nat) /\ b \in Seq(Nat) /\ Len(a) = Len(b) /\ Len(a) = j - i + 1
    BY <1>2, <1>3
  <2>2. \A m \in 1..j - i + 1 : a[m] = b[m]
    BY <1>2, <1>3, <1>4
  <2> HIDE DEF a, b
  <2>3. a = b
    BY <2>1, <2>2, SeqEqual
  <2> QED
    BY <2>3 DEF a, b
<1> QED
  BY <1>1, <1>5

(* What is received next continues what was received. *)
LEMMA PartsJoin ==
  ASSUME NEW s \in Seq(Nat), NEW k \in 0..Len(s), NEW rest, rest = SubSeq(s, k + 1, Len(s)),
         NEW n \in 0..Len(s) - k, NEW m \in 1..k + 1
  PROVE  /\ SubSeq(s, m, k) \o SubSeq(rest, 1, n) = SubSeq(s, m, k + n)
         /\ SubSeq(rest, n + 1, Len(rest)) = SubSeq(s, k + n + 1, Len(s))
         /\ Len(SubSeq(rest, n + 1, Len(rest))) = Len(s) - (k + n)
         /\ SubSeq(rest, n + 1, Len(rest)) \in Seq(Nat)
<1>1. SubSeq(rest, 1, n) = SubSeq(s, k + 1, k + n)
  BY PartOfRest
<1>2. Len(rest) = Len(s) - k
  BY PartOfRest
<1>3. SubSeq(rest, n + 1, Len(rest)) = SubSeq(s, k + n + 1, Len(s))
  <2>1. /\ n + 1 \in Nat \ {0} /\ Len(s) - k \in 0..Len(s) - k /\ n + 1 <= Len(s) - k + 1
        /\ k + (n + 1) = k + n + 1 /\ k + (Len(s) - k) = Len(s)
    OBVIOUS
  <2> QED
    <3>1. SubSeq(rest, n + 1, Len(s) - k) = SubSeq(s, k + (n + 1), k + (Len(s) - k))
      BY <2>1, PartOfRest
    <3> QED
      BY <1>2, <2>1, <3>1
<1>4. SubSeq(s, m, k) \o SubSeq(s, k + 1, k + n) = SubSeq(s, m, k + n)
  <2>1. m \in 1..Len(s) + 1 /\ k \in m - 1..Len(s) /\ k + n \in k..Len(s)
    OBVIOUS
  <2> QED
    BY <2>1, ConcatAdjacentSubSeq
<1>5. /\ Len(SubSeq(s, k + n + 1, Len(s))) = Len(s) - (k + n)
      /\ SubSeq(s, k + n + 1, Len(s)) \in Seq(Nat)
  <2>1. /\ k + n + 1 \in Nat \ {0} /\ Len(s) \in 0..Len(s) /\ k + n + 1 <= Len(s) + 1
        /\ Len(s) - (k + n + 1) + 1 = Len(s) - (k + n)
    OBVIOUS
  <2> QED
    BY <2>1, PartOf
<1> QED
  BY <1>1, <1>3, <1>4, <1>5

(* A stream that is cut off. *)
LEMMA CutOff ==
  ASSUME NEW s \in Seq(Nat), NEW n \in 0..Len(s), NEW cut, cut = SubSeq(s, 1, n)
  PROVE  cut \in Seq(Nat) /\ Len(cut) = n /\ Beginning(cut, s)
<1>1. cut \in Seq(Nat) /\ Len(cut) = n /\ \A i \in 1..n : cut[i] = s[i]
  BY PartOf
<1> QED
  BY <1>1 DEF Beginning

----------------------------------------------------------------------------
(* Lemmas about headers *)

(* The first position of a set is the least. *)
LEMMA FirstIsLeast ==
  ASSUME NEW T, T \subseteq Nat, T # {}
  PROVE  First(T) \in T /\ \A j \in T : First(T) <= j
  BY LeastNumber DEF First

(* What has arrived shows the delimiters of the stream that it covers. *)
LEMMA DelimitersSeen ==
  ASSUME NEW s, NEW t, Beginning(s, t)
  PROVE  DelimitersFrom(0, s) = {i \in DelimitersFrom(0, t) : i + 4 <= Len(s)}
<1>1. ASSUME NEW i \in 0..Len(s) - 4
      PROVE  SubSeq(s, i + 1, i + 4) = SubSeq(t, i + 1, i + 4)
  <2>1. i + 1 \in Nat \ {0} /\ i + 4 \in 0..Len(s) /\ i + 1 <= i + 4 + 1
    BY DEF Beginning
  <2> QED
    BY <2>1, SamePart
<1>2. Len(s) \in Nat /\ Len(t) \in Nat /\ Len(s) <= Len(t)
  BY DEF Beginning
<1> QED
  BY <1>1, <1>2 DEF DelimitersFrom

(* What the reference says of the end of a header. *)
LEMMA HeaderEndMeaning ==
  ASSUME NEW s \in Seq(Nat)
  PROVE  \/ /\ HeaderEndOf(s) = -1
            /\ \A i \in DelimitersFrom(0, s) : i + 4 > BufSize
         \/ /\ HeaderEndOf(s) \in DelimitersFrom(0, s)
            /\ HeaderEndOf(s) \in 0..Len(s) - 4 /\ HeaderEndOf(s) + 4 <= BufSize
            /\ \A i \in DelimitersFrom(0, s) : HeaderEndOf(s) <= i
<1> DEFINE found == {i \in DelimitersFrom(0, s) : i + 4 <= BufSize}
<1>1. DelimitersFrom(0, s) \subseteq 0..Len(s) - 4
  BY DEF DelimitersFrom
<1>2. HeaderEndOf(s) = IF found = {} THEN -1 ELSE First(found)
  BY DEF HeaderEndOf
<1>3. CASE found = {}
  BY <1>1, <1>2, <1>3, SizesAssumption
<1>4. CASE found # {}
  <2>1. First(found) \in found /\ \A j \in found : First(found) <= j
    <3>1. found \subseteq Nat
      BY <1>1
    <3> HIDE DEF found
    <3> QED
      BY <1>4, <3>1, FirstIsLeast
  <2>2. HeaderEndOf(s) = First(found)
    BY <1>2, <1>4
  <2>3. /\ HeaderEndOf(s) \in DelimitersFrom(0, s) /\ HeaderEndOf(s) + 4 <= BufSize
        /\ HeaderEndOf(s) \in 0..Len(s) - 4
    BY <1>1, <2>1, <2>2
  <2>4. \A i \in DelimitersFrom(0, s) : HeaderEndOf(s) <= i
    <3> SUFFICES ASSUME NEW i \in DelimitersFrom(0, s), i + 4 > BufSize
                 PROVE  HeaderEndOf(s) <= i
      BY <1>1, <2>1, <2>2, SizesAssumption
    <3> QED
      BY <1>1, <2>3, SizesAssumption
  <2> QED
    BY <2>3, <2>4
<1> QED
  BY <1>3, <1>4

(* The reference finds in a beginning what it finds in the whole, and the
   other way round. *)
LEMMA HeaderEndSeen ==
  ASSUME NEW s, NEW t, Beginning(s, t)
  PROVE  /\ HeaderEndOf(t) = -1 => HeaderEndOf(s) = -1
         /\ HeaderEndOf(t) # -1 /\ HeaderEndOf(t) + 4 <= Len(s) => HeaderEndOf(s) = HeaderEndOf(t)
         /\ HeaderEndOf(s) # -1 => HeaderEndOf(s) = HeaderEndOf(t)
<1>1. s \in Seq(Nat) /\ t \in Seq(Nat)
  BY DEF Beginning
<1>2. DelimitersFrom(0, s) = {i \in DelimitersFrom(0, t) : i + 4 <= Len(s)}
  BY DelimitersSeen
<1>3. DelimitersFrom(0, s) \subseteq Nat /\ DelimitersFrom(0, t) \subseteq Nat
  BY DEF DelimitersFrom
<1> DEFINE a == HeaderEndOf(s)
           b == HeaderEndOf(t)
<1>4. \/ a = -1 /\ \A i \in DelimitersFrom(0, s) : i + 4 > BufSize
      \/ /\ a \in DelimitersFrom(0, s) /\ a \in 0..Len(s) - 4 /\ a + 4 <= BufSize
         /\ \A i \in DelimitersFrom(0, s) : a <= i
  BY <1>1, HeaderEndMeaning
<1>5. \/ b = -1 /\ \A i \in DelimitersFrom(0, t) : i + 4 > BufSize
      \/ /\ b \in DelimitersFrom(0, t) /\ b \in 0..Len(t) - 4 /\ b + 4 <= BufSize
         /\ \A i \in DelimitersFrom(0, t) : b <= i
  BY <1>1, HeaderEndMeaning
<1> HIDE DEF a, b
<1>6. b = -1 => a = -1
  BY <1>2, <1>3, <1>4, <1>5, SizesAssumption
<1>7. b # -1 => b \in Nat /\ b \in DelimitersFrom(0, t) /\ b + 4 <= BufSize
  BY <1>3, <1>5
<1>8. a # -1 => a \in Nat /\ a \in DelimitersFrom(0, s) /\ a + 4 <= BufSize
  BY <1>3, <1>4
<1>9. ASSUME b # -1, b + 4 <= Len(s) PROVE a = b
  <2>1. b \in DelimitersFrom(0, s)
    BY <1>2, <1>7, <1>9
  <2>2. a # -1 /\ a <= b
    BY <1>3, <1>4, <1>7, <1>9, <2>1, SizesAssumption
  <2>3. b <= a
    BY <1>2, <1>5, <1>8, <1>9, <2>2
  <2> QED
    BY <1>7, <1>8, <1>9, <2>2, <2>3
<1>10. ASSUME a # -1 PROVE a = b
  <2>1. a \in Nat /\ a \in DelimitersFrom(0, t) /\ a + 4 <= Len(s) /\ a + 4 <= BufSize
    BY <1>2, <1>8, <1>10
  <2>2. b # -1 /\ b <= a
    BY <1>3, <1>5, <2>1, SizesAssumption
  <2>3. b + 4 <= Len(s)
    <3>1. Len(s) \in Nat /\ b \in Nat
      BY <1>1, <1>7, <2>2
    <3> QED
      BY <2>1, <2>2, <3>1
  <2> QED
    BY <1>9, <2>2, <2>3
<1> QED
  BY <1>6, <1>9, <1>10 DEF a, b

(* The words and digits before the delimiter are read from what has arrived. *)
LEMMA HeaderRead ==
  ASSUME NEW s, NEW t, Beginning(s, t), NEW e \in Nat, e + 4 <= Len(s)
  PROVE  /\ StatusWord(s, e) = StatusWord(t, e)
         /\ Digits(s, e) = Digits(t, e)
         /\ AllDigits(s, e) <=> AllDigits(t, e)
<1>1. StatusWord(s, e) = StatusWord(t, e)
  <2>1. IsGetfile(s) <=> IsGetfile(t)
    BY DEF IsGetfile, Beginning
  <2>2. e >= 2 => s[2] = t[2]
    <3>1. 2 \in 1..Len(s)
      BY DEF Beginning
    <3> QED
      BY <3>1 DEF Beginning
  <2> QED
    BY <2>1, <2>2 DEF StatusWord
<1>2. Digits(s, e) = Digits(t, e)
  <2>1. CASE e < 3
    <3>1. CASE e = 2
      BY <3>1, SubSeqEmpty DEF Digits
    <3> QED
      BY <2>1, <3>1, SubSeqEmpty DEF Digits
  <2>2. CASE e >= 3
    BY <2>2, PartOf, SeqEqual DEF Digits, Beginning
  <2> QED
    BY <2>1, <2>2
<1> QED
  BY <1>1, <1>2 DEF AllDigits

(* Searching from three symbols before the end of what was there misses no
   delimiter. *)
LEMMA NothingMissed ==
  ASSUME NEW s, NEW t, Beginning(s, t), DelimitersFrom(0, s) = {},
         NEW start \in Nat, start = IF Len(s) >= 3 THEN Len(s) - 3 ELSE 0
  PROVE  DelimitersFrom(start, t) = DelimitersFrom(0, t)
<1>1. DelimitersFrom(0, s) = {i \in DelimitersFrom(0, t) : i + 4 <= Len(s)}
  BY DelimitersSeen
<1>2. Len(s) \in Nat /\ Len(t) \in Nat
  BY DEF Beginning
<1>3. DelimitersFrom(0, t) \subseteq 0..Len(t) - 4
  BY DEF DelimitersFrom
<1>4. \A i \in DelimitersFrom(0, t) : i >= start
  BY <1>1, <1>2, <1>3
<1> QED
  <2>1. \A i \in 0..Len(t) - 4 : i \in start..Len(t) - 4 <=> i >= start
    BY <1>2
  <2>2. \A i \in start..Len(t) - 4 : i \in 0..Len(t) - 4
    BY <1>2
  <2> QED
    BY <1>4, <2>1, <2>2 DEF DelimitersFrom

(* The length that is announced is a number, however many digits it has: the
   loop is a function on the rounds, by induction as the search for the first
   round without a value. *)
LEMMA NumberIsNat ==
  ASSUME NEW d \in Seq(Nat)
  PROVE  Number(d) \in Nat
<1> DEFINE Round(v, n) == IF n = 0 THEN 0 ELSE (v[n - 1] * 10 + (d[n] - 48)) % WordSize
<1>1. ASSUME NEW v, NEW n \in 0..Len(d), n # 0 => v[n - 1] \in Nat
      PROVE  Round(v, n) \in Nat
  <2>1. CASE n # 0
    <3>1. d[n] \in Nat /\ v[n - 1] \in Nat
      BY <1>1, <2>1
    <3>2. v[n - 1] * 10 + (d[n] - 48) \in Int
      BY <3>1
    <3> QED
      BY <2>1, <3>2, SizesAssumption
  <2> QED
    BY <2>1
<1> DEFINE Starts(n) == \E v \in [0..n -> Nat] : \A m \in 0..n : v[m] = Round(v, m)
           Stuck == {n \in 0..Len(d) : ~Starts(n)}
<1>2. Stuck = {}
  <2> SUFFICES ASSUME Stuck # {} PROVE FALSE
    OBVIOUS
  <2>1. PICK n \in Stuck : \A m \in Stuck : n <= m
    <3>1. Stuck \subseteq Nat
      OBVIOUS
    <3> HIDE DEF Stuck
    <3> QED
      BY <3>1, FirstIsLeast
  <2>2. n # 0
    <3>1. [m \in 0..0 |-> 0] \in [0..0 -> Nat] /\ \A m \in 0..0 : [k \in 0..0 |-> 0][m] = Round([k \in 0..0 |-> 0], m)
      OBVIOUS
    <3> QED
      BY <3>1
  <2>3. PICK v \in [0..n - 1 -> Nat] : \A m \in 0..n - 1 : v[m] = Round(v, m)
    <3>0. n \in 0..Len(d)
      OBVIOUS
    <3>1. n - 1 \in 0..Len(d) /\ n - 1 \notin Stuck
      <4> HIDE DEF Stuck
      <4> QED
        BY <2>1, <2>2, <3>0
    <3>2. Starts(n - 1)
      BY <3>1
    <3> QED
      BY <3>2
  <2> DEFINE w == [m \in 0..n |-> IF m = n THEN Round(v, n) ELSE v[m]]
  <2>4. w \in [0..n -> Nat]
    <3>1. Round(v, n) \in Nat
      <4>1. n \in 0..Len(d) /\ v[n - 1] \in Nat
        BY <2>1, <2>2, <2>3
      <4> HIDE DEF Round
      <4> QED
        BY <1>1, <4>1
    <3> HIDE DEF Round
    <3> QED
      BY <3>1, <2>1, <2>3
  <2>5. ASSUME NEW m \in 0..n PROVE w[m] = Round(w, m)
    <3>1. m # 0 => w[m - 1] = v[m - 1]
      BY <2>1, <2>2
    <3>2. Round(w, m) = Round(v, m)
      BY <3>1
    <3> QED
      BY <2>3, <2>5, <3>2, <2>1
  <2> QED
    BY <2>1, <2>4, <2>5
<1>3. PICK g \in [0..Len(d) -> Nat] : \A m \in 0..Len(d) : g[m] = Round(g, m)
  <2>1. Len(d) \in 0..Len(d)
    OBVIOUS
  <2> QED
    BY <1>2, <2>1
<1>4. g = [n \in 0..Len(d) |-> Round(g, n)]
  BY <1>3
<1> DEFINE value == CHOOSE f : f = [n \in 0..Len(d) |-> Round(f, n)]
<1>5. value = [n \in 0..Len(d) |-> Round(value, n)]
  BY <1>4
<1>6. Number(d) = value[Len(d)]
  BY DEF Number
<1> HIDE DEF value
<1> DEFINE Odd == {n \in 0..Len(d) : value[n] \notin Nat}
<1>7. Odd = {}
  <2> SUFFICES ASSUME Odd # {} PROVE FALSE
    OBVIOUS
  <2>1. PICK n \in Odd : \A m \in Odd : n <= m
    <3>1. Odd \subseteq Nat
      OBVIOUS
    <3> HIDE DEF Odd
    <3> QED
      BY <3>1, FirstIsLeast
  <2>2. n \in 0..Len(d) /\ value[n] = Round(value, n)
    BY <1>5, <2>1
  <2>3. n # 0 => value[n - 1] \in Nat
    BY <2>1, <2>2
  <2> QED
    BY <1>1, <2>1, <2>2, <2>3
<1> QED
  BY <1>6, <1>7

----------------------------------------------------------------------------
(* The invariant *)

(* Nothing has been received at the beginning. *)
LEMMA Initially == Init => IInv
<1> SUFFICES ASSUME Init PROVE IInv
  OBVIOUS
<1>1. /\ response \in Seq(Nat) /\ incoming = response
      /\ SubSeq(response, 1, Len(response)) = response
  BY SymbolsAssumption, SubSeqFull DEF Init
<1>2. Consumed = 0
  BY <1>1 DEF Consumed
<1>3. TypeOK
  BY <1>1, SizesAssumption DEF Init, TypeOK, Stage
<1>4. Stream
  BY <1>1, <1>2 DEF Stream
<1> QED
  BY <1>2, <1>3, <1>4, SizesAssumption
     DEF Init, IInv, Before, Collecting, Parsing, Passed, VerdictIndependentOfPieces

(* What a step that receives nothing keeps. *)
Kept == UNCHANGED <<buffer, headerEnd, bytesReceived, delivered, response, incoming>>

(* The steps up to the header. *)
LEMMA RequestSteps ==
  ASSUME IInv, ConnectFails \/ Connects \/ NoConnection \/ SendRequest \/ SendFails
  PROVE  IInv'
<1>1. /\ Kept /\ pc \in {"connect", "send"} /\ pc' \in {"connect", "send", "header", "returned", "killed"}
      /\ sfd' \in {"none", "open"} /\ sent' \in 0..RequestLength /\ addr' \in Nat
      /\ UNCHANGED peer
  BY SizesAssumption DEF IInv, TypeOK, Before, Kept, handle, net, Return,
     ConnectFails, Connects, NoConnection, SendRequest, SendFails
<1>2. Consumed' = Consumed
  BY <1>1 DEF Kept, Consumed
<1>3. /\ pc' \in {"connect", "send"} => sent' < RequestLength
      /\ pc' = "header" => sent' = RequestLength
      /\ pc' = "returned" => sent' < RequestLength /\ sfd' = "none"
  <2>1. sent \in 0..RequestLength /\ sent < RequestLength
    BY <1>1 DEF IInv, TypeOK, Before
  <2>2. CASE ConnectFails \/ Connects
    BY <2>1, <2>2 DEF ConnectFails, Connects
  <2>3. CASE NoConnection
    BY <2>1, <2>3 DEF NoConnection, Return
  <2>4. CASE SendRequest
    BY <1>1, <2>1, <2>4, SizesAssumption DEF SendRequest
  <2>5. CASE SendFails
    BY <2>1, <2>5 DEF SendFails, Return
  <2> QED
    BY <2>2, <2>3, <2>4, <2>5
<1>4. Consumed = 0 /\ buffer = << >> /\ headerEnd = 0 /\ delivered = << >>
  BY <1>1 DEF IInv, Before
<1>5. SubSeq(response, 1, 0) = << >> /\ DelimitersFrom(0, << >>) = {}
  BY SubSeqEmpty DEF DelimitersFrom
<1>6. TypeOK'
  BY <1>1 DEF IInv, TypeOK, Kept, Stage
<1>7. Stream' /\ Before'
  BY <1>1, <1>2, <1>3, <1>4 DEF IInv, Stream, Before, Kept
<1>8. Collecting'
  BY <1>1, <1>2, <1>3, <1>4, <1>5, SizesAssumption DEF Collecting, Kept
<1>9. Parsing' /\ Passed'
  BY <1>1, <1>4 DEF IInv, Parsing, Passed, Kept
<1>10. VerdictIndependentOfPieces'
  BY <1>1, <1>3, SizesAssumption DEF VerdictIndependentOfPieces, IInv, TypeOK
<1> QED
  BY <1>6, <1>7, <1>8, <1>9, <1>10 DEF IInv

(* A receive continues what has arrived. *)
LEMMA Takes ==
  ASSUME TypeOK, Stream, NEW n \in 1..Len(incoming), Take(n)
  PROVE  /\ response' = response /\ incoming' \in Seq(Nat)
         /\ Consumed' = Consumed + n /\ Consumed + n <= Len(response)
         /\ Consumed \in Nat /\ Stream'
         /\ \A m \in 1..Consumed + 1 :
              SubSeq(response, m, Consumed) \o SubSeq(incoming, 1, n)
                = SubSeq(response, m, Consumed + n)
<1> DEFINE k == Consumed
<1>1. /\ response \in Seq(Nat) /\ k \in 0..Len(response) /\ incoming = SubSeq(response, k + 1, Len(response))
      /\ Len(incoming) = Len(response) - k /\ n \in 0..Len(response) - k
  BY DEF TypeOK, Stream, Consumed
<1>2. response' = response /\ incoming' = SubSeq(incoming, n + 1, Len(incoming))
  BY DEF Take
<1>3. /\ incoming' = SubSeq(response, k + n + 1, Len(response))
      /\ Len(incoming') = Len(response) - (k + n) /\ incoming' \in Seq(Nat)
      /\ \A m \in 1..k + 1 : SubSeq(response, m, k) \o SubSeq(incoming, 1, n) = SubSeq(response, m, k + n)
  <2> HIDE DEF k
  <2> QED
    <3>1. \A m \in 1..k + 1 :
            /\ SubSeq(response, m, k) \o SubSeq(incoming, 1, n) = SubSeq(response, m, k + n)
            /\ SubSeq(incoming, n + 1, Len(incoming)) = SubSeq(response, k + n + 1, Len(response))
            /\ Len(SubSeq(incoming, n + 1, Len(incoming))) = Len(response) - (k + n)
            /\ SubSeq(incoming, n + 1, Len(incoming)) \in Seq(Nat)
      BY <1>1, PartsJoin
    <3>2. 1 \in 1..k + 1
      BY <1>1
    <3> QED
      BY <1>2, <3>1, <3>2
<1>4. Consumed' = k + n
  <2>1. Consumed' = Len(response) - Len(incoming')
    BY <1>2 DEF Consumed
  <2> QED
    BY <1>1, <1>3, <2>1
<1>5. Stream'
  BY <1>1, <1>2, <1>3, <1>4 DEF Stream
<1>6. k \in Nat /\ k + n <= Len(response)
  BY <1>1
<1> QED
  BY <1>2, <1>3, <1>4, <1>5, <1>6

(* The search of the code finds the end of the header where the reference
   does. *)
LEMMA ReceiveHeaderStep == ASSUME IInv, ReceiveHeader PROVE IInv'
<1>1. /\ pc = "header" /\ sent = RequestLength /\ Len(buffer) <= BufSize
      /\ buffer = SubSeq(response, 1, Consumed) /\ DelimitersFrom(0, buffer) = {}
      /\ TypeOK /\ Stream /\ headerEnd = 0 /\ delivered = << >> /\ bytesReceived = 0
  BY DEF ReceiveHeader, IInv, Collecting, Before, Passed
<1>2. PICK n \in Received(BufSize - Len(buffer)) :
        /\ Take(n)
        /\ buffer' = buffer \o SubSeq(incoming, 1, n)
        /\ LET found == DelimitersFrom(ScanStart, buffer')
           IN  IF found = {} THEN UNCHANGED <<pc, headerEnd>>
                             ELSE pc' = "parse" /\ headerEnd' = First(found)
  BY DEF ReceiveHeader
<1>3. UNCHANGED <<addr, sfd, sent, status, fileLength, bytesReceived, delivered, ret>>
  BY DEF ReceiveHeader, handle
<1>4. n \in 1..Len(incoming) /\ n <= BufSize - Len(buffer)
  BY DEF Received
<1>5. /\ response' = response /\ incoming' \in Seq(Nat) /\ Stream'
      /\ Consumed' = Consumed + n /\ Consumed + n \in 0..Len(response) /\ Consumed \in Nat
      /\ buffer' = SubSeq(response, 1, Consumed + n)
  <2>1. 1 \in 1..Consumed + 1 /\ Consumed \in Nat
    BY <1>1, <1>2, <1>4, Takes
  <2>2. /\ response' = response /\ incoming' \in Seq(Nat) /\ Stream'
        /\ Consumed' = Consumed + n /\ Consumed + n <= Len(response)
        /\ SubSeq(response, 1, Consumed) \o SubSeq(incoming, 1, n) = SubSeq(response, 1, Consumed + n)
    BY <1>1, <1>2, <1>4, <2>1, Takes
  <2>3. Consumed + n \in 0..Len(response)
    BY <1>4, <2>1, <2>2
  <2> QED
    BY <1>1, <1>2, <2>1, <2>2, <2>3
<1>6. /\ Beginning(buffer, response) /\ Len(buffer) = Consumed
      /\ Beginning(buffer', response) /\ Len(buffer') = Consumed + n /\ buffer' \in Seq(Nat)
  <2>1. response \in Seq(Nat) /\ Consumed \in 0..Len(response)
    BY <1>1 DEF TypeOK, Stream
  <2> QED
    BY <1>1, <1>5, <2>1, CutOff
<1>7. Beginning(buffer, buffer')
  <2>1. Len(buffer) <= Len(buffer') /\ Len(buffer) \in Nat /\ Len(buffer') \in Nat
    BY <1>4, <1>5, <1>6
  <2>2. /\ \A i \in 1..Len(buffer) : buffer[i] = response[i]
        /\ \A i \in 1..Len(buffer') : buffer'[i] = response[i]
    BY <1>6 DEF Beginning
  <2>3. \A i \in 1..Len(buffer) : i \in 1..Len(buffer')
    BY <2>1
  <2> QED
    BY <1>6, <2>1, <2>2, <2>3 DEF Beginning
<1>8. Len(buffer') <= BufSize
  BY <1>4, <1>5, <1>6, SizesAssumption
<1>9. DelimitersFrom(ScanStart, buffer') = DelimitersFrom(0, buffer')
  <2>1. ScanStart \in Nat /\ ScanStart = IF Len(buffer) >= 3 THEN Len(buffer) - 3 ELSE 0
    BY <1>5, <1>6 DEF ScanStart
  <2> QED
    BY <1>1, <1>7, <2>1, NothingMissed
<1>10. peer' = peer
  BY <1>2 DEF Take
<1>11. CASE DelimitersFrom(0, buffer') = {}
  <2>1. pc' = "header" /\ headerEnd' = 0
    BY <1>1, <1>2, <1>9, <1>11
  <2>2. TypeOK'
    BY <1>1, <1>3, <1>5, <1>6, <1>10, <2>1 DEF TypeOK, Stage
  <2>3. Before' /\ Collecting' /\ Parsing' /\ Passed' /\ VerdictIndependentOfPieces'
    BY <1>1, <1>3, <1>5, <1>8, <1>11, <2>1
       DEF Before, Collecting, Parsing, Passed, VerdictIndependentOfPieces
  <2> QED
    BY <1>5, <2>2, <2>3 DEF IInv
<1>12. CASE DelimitersFrom(0, buffer') # {}
  <2>1. pc' = "parse" /\ headerEnd' = First(DelimitersFrom(0, buffer'))
    BY <1>2, <1>9, <1>12
  <2>2. DelimitersFrom(0, buffer') \subseteq 0..Len(buffer') - 4
    BY DEF DelimitersFrom
  <2>3. /\ headerEnd' \in DelimitersFrom(0, buffer')
        /\ \A i \in DelimitersFrom(0, buffer') : headerEnd' <= i
    <3>1. DelimitersFrom(0, buffer') \subseteq Nat
      BY <2>2
    <3> QED
      BY <1>12, <2>1, <3>1, FirstIsLeast
  <2>4. headerEnd' \in Nat /\ headerEnd' + 4 <= Len(buffer')
    BY <1>5, <1>6, <2>2, <2>3
  <2>5. HeaderEndOf(buffer') = headerEnd'
    <3>1. PICK b \in Seq(Nat) : b = buffer'
      BY <1>6
    <3>2. PICK e \in Nat : e = headerEnd'
      BY <2>4
    <3>3. /\ e \in DelimitersFrom(0, b) /\ \A i \in DelimitersFrom(0, b) : e <= i
          /\ DelimitersFrom(0, b) \subseteq 0..Len(b) - 4
          /\ e + 4 <= Len(b) /\ Len(b) <= BufSize
      BY <1>8, <2>2, <2>3, <2>4, <3>1, <3>2
    <3>4. e + 4 <= BufSize
      BY <3>3, SizesAssumption
    <3>5. \/ /\ HeaderEndOf(b) = -1
             /\ \A i \in DelimitersFrom(0, b) : i + 4 > BufSize
          \/ /\ HeaderEndOf(b) \in DelimitersFrom(0, b)
             /\ \A i \in DelimitersFrom(0, b) : HeaderEndOf(b) <= i
      BY HeaderEndMeaning
    <3>6. HeaderEndOf(b) = e
      BY <3>3, <3>4, <3>5, SizesAssumption
    <3> QED
      BY <3>1, <3>2, <3>6
  <2>6. HeaderEndOf(response) = headerEnd'
    BY <1>6, <2>4, <2>5, HeaderEndSeen
  <2>7. TypeOK'
    BY <1>1, <1>3, <1>5, <1>6, <1>10, <2>1, <2>4 DEF TypeOK, Stage
  <2>8. Before' /\ Collecting' /\ Parsing' /\ Passed' /\ VerdictIndependentOfPieces'
    BY <1>1, <1>3, <1>5, <2>1, <2>4, <2>6
       DEF Before, Collecting, Parsing, Passed, VerdictIndependentOfPieces
  <2> QED
    BY <1>5, <2>7, <2>8 DEF IInv
<1> QED
  BY <1>11, <1>12

(* A header without an end is one for the reference, too. *)
LEMMA HeaderEndsSteps == ASSUME IInv, HeaderEnds \/ HeaderFails PROVE IInv'
<1>1. /\ pc = "header" /\ sent = RequestLength /\ Len(buffer) <= BufSize
      /\ buffer = SubSeq(response, 1, Consumed) /\ DelimitersFrom(0, buffer) = {}
      /\ TypeOK /\ Stream /\ headerEnd = 0 /\ delivered = << >> /\ bytesReceived = 0
  BY DEF HeaderEnds, HeaderFails, IInv, Collecting, Before, Passed
<1>2. response \in Seq(Nat) /\ Consumed \in 0..Len(response)
  BY <1>1 DEF TypeOK, Stream
<1>3. Kept /\ UNCHANGED <<addr, sent, status, fileLength, peer>>
  BY DEF HeaderEnds, HeaderFails, Kept, handle, net, Return
<1>4. Consumed' = Consumed /\ Stream'
  BY <1>1, <1>3 DEF Kept, Consumed, Stream
<1>5. CASE HeaderEnds
  <2>1. Beginning(buffer, response) /\ Len(buffer) = Consumed
    BY <1>1, <1>2, CutOff
  <2>2. Len(buffer) = Len(response) \/ Len(buffer) = BufSize
    BY <1>2, <1>5, <2>1, EmptySeq DEF HeaderEnds, Consumed
  <2>3. HeaderEndOf(response) = -1
    <3>1. \A i \in DelimitersFrom(0, response) : i + 4 > Len(buffer)
      <4>1. {i \in DelimitersFrom(0, response) : i + 4 <= Len(buffer)} = {}
        BY <1>1, <2>1, DelimitersSeen
      <4>2. DelimitersFrom(0, response) \subseteq Nat
        BY DEF DelimitersFrom
      <4> QED
        BY <1>2, <2>1, <4>1, <4>2
    <3>2. \/ HeaderEndOf(response) = -1
          \/ /\ HeaderEndOf(response) \in DelimitersFrom(0, response)
             /\ HeaderEndOf(response) \in 0..Len(response) - 4
             /\ HeaderEndOf(response) + 4 <= BufSize
      BY <1>2, HeaderEndMeaning
    <3> QED
      BY <1>2, <2>1, <2>2, <3>1, <3>2, SizesAssumption
  <2>4. pc' = "parse" /\ sfd' = sfd
    BY <1>5 DEF HeaderEnds
  <2>5. peer # "open" \/ Len(response) >= BufSize
    BY <1>2, <1>5, <2>1, SizesAssumption DEF HeaderEnds
  <2>6. TypeOK'
    BY <1>1, <1>3, <2>4 DEF TypeOK, Kept, Stage
  <2>7. Before' /\ Collecting' /\ Parsing' /\ Passed' /\ VerdictIndependentOfPieces'
    BY <1>1, <1>3, <1>4, <2>3, <2>4, <2>5
       DEF Kept, Before, Collecting, Parsing, Passed, VerdictIndependentOfPieces
  <2> QED
    BY <1>4, <2>6, <2>7 DEF IInv
<1>6. CASE HeaderFails
  <2>1. pc' = "returned" /\ sfd' = "none" /\ peer = "reset"
    BY <1>6 DEF HeaderFails, Return
  <2>2. TypeOK'
    BY <1>1, <1>3, <2>1 DEF TypeOK, Kept, Stage
  <2>3. Before' /\ Collecting' /\ Parsing' /\ Passed' /\ VerdictIndependentOfPieces'
    BY <1>1, <1>3, <2>1
       DEF Kept, Before, Collecting, Parsing, Passed, VerdictIndependentOfPieces
  <2> QED
    BY <1>4, <2>2, <2>3 DEF IInv
<1> QED
  BY <1>5, <1>6

(* What parsing finds in the buffer is what the reference finds in the
   response. *)
LEMMA ParsingRead ==
  ASSUME IInv, pc = "parse"
  PROVE  /\ response \in Seq(Nat) /\ Consumed \in 0..Len(response)
         /\ delivered = << >> /\ bytesReceived = 0 /\ sent = RequestLength
         /\ Len(buffer) = Consumed /\ buffer = SubSeq(response, 1, Consumed)
         /\ \/ /\ headerEnd = HeaderEndOf(response) /\ headerEnd \in Nat
               /\ headerEnd + 4 <= Consumed
               /\ StatusWord(buffer, headerEnd) = StatusWord(response, headerEnd)
               /\ Digits(buffer, headerEnd) = Digits(response, headerEnd)
               /\ AllDigits(buffer, headerEnd) <=> AllDigits(response, headerEnd)
            \/ /\ headerEnd = 0 /\ HeaderEndOf(response) = -1
               /\ peer # "open" \/ Len(response) >= BufSize
               /\ StatusWord(buffer, headerEnd) = "none"
<1>1. /\ response \in Seq(Nat) /\ Consumed \in 0..Len(response)
      /\ delivered = << >> /\ bytesReceived = 0 /\ sent = RequestLength
      /\ buffer = SubSeq(response, 1, Consumed) /\ headerEnd \in Nat
      /\ \/ headerEnd = HeaderEndOf(response) /\ headerEnd + 4 <= Len(buffer)
         \/ /\ headerEnd = 0 /\ HeaderEndOf(response) = -1
            /\ peer # "open" \/ Len(response) >= BufSize
  BY DEF IInv, TypeOK, Stream, Before, Parsing, Passed
<1>2. Len(buffer) = Consumed /\ Beginning(buffer, response)
  BY <1>1, CutOff
<1>3. CASE headerEnd = HeaderEndOf(response) /\ headerEnd + 4 <= Len(buffer)
  BY <1>1, <1>2, <1>3, HeaderRead
<1>4. CASE /\ headerEnd = 0 /\ HeaderEndOf(response) = -1
           /\ peer # "open" \/ Len(response) >= BufSize
  <2>1. StatusWord(buffer, 0) = "none"
    BY DEF StatusWord
  <2> QED
    BY <1>1, <1>2, <1>4, <2>1
<1> QED
  BY <1>1, <1>3, <1>4

(* A refusal, an unknown status and a length that is none are reported as the
   reference does. *)
LEMMA ParsingEnds ==
  ASSUME IInv, StatusRefuses \/ StatusInvalid \/ LengthInvalid
  PROVE  IInv'
<1>1. pc = "parse" /\ pc' = "returned" /\ sfd' = "none"
  BY DEF StatusRefuses, StatusInvalid, LengthInvalid, Return
<1>2. Kept /\ UNCHANGED <<addr, sent, peer>>
  BY DEF StatusRefuses, StatusInvalid, LengthInvalid, Return, Kept, net
<1>3. Consumed' = Consumed
  BY <1>2 DEF Kept, Consumed
<1>4. delivered = << >>
  BY <1>1, ParsingRead
<1>5. TypeOK' /\ Stream' /\ Before' /\ Collecting' /\ Parsing' /\ Passed'
  <2>1. TypeOK'
    BY <1>1, <1>2 DEF IInv, TypeOK, Kept, Stage
  <2>2. Stream'
    BY <1>2, <1>3 DEF IInv, Stream, Kept
  <2>3. Before' /\ Collecting' /\ Parsing' /\ Passed'
    BY <1>1, <1>2, <1>4 DEF IInv, Kept, Before, Collecting, Parsing, Passed
  <2> QED
    BY <2>1, <2>2, <2>3
<1>6. peer # "reset" => <<ret', status'>> = Verdict(response, peer = "closed")
  <2>0. peer # "open" /\ peer # "reset" => peer = "closed"
    BY DEF IInv, TypeOK
  <2> DEFINE e == HeaderEndOf(response)
             word == StatusWord(response, e)
  <2>1. CASE StatusRefuses
    <3>1. ret' = 0 /\ status' = StatusWord(buffer, headerEnd) /\ status' \in {"FILE_NOT_FOUND", "ERROR"}
      BY <2>1 DEF StatusRefuses, Return
    <3>2. e # -1 /\ word = status'
      BY <1>1, <3>1, ParsingRead
    <3> HIDE DEF e, word
    <3> QED
      BY <3>1, <3>2 DEF Verdict, e, word
  <2>2. CASE StatusInvalid
    <3>1. ret' = -1 /\ status' = "INVALID" /\ StatusWord(buffer, headerEnd) = "none"
      BY <2>2 DEF StatusInvalid, Return
    <3>2. \/ e # -1 /\ word = "none"
          \/ e = -1 /\ (peer # "open" \/ Len(response) >= BufSize)
      BY <1>1, <3>1, ParsingRead
    <3> QED
      BY <2>0, <3>1, <3>2 DEF Verdict
  <2>3. CASE LengthInvalid
    <3>1. /\ ret' = -1 /\ status' = "INVALID"
          /\ StatusWord(buffer, headerEnd) = "OK" /\ ~AllDigits(buffer, headerEnd)
      BY <2>3 DEF LengthInvalid, Return
    <3>2. e # -1 /\ word = "OK" /\ ~AllDigits(response, e)
      BY <1>1, <3>1, ParsingRead
    <3> QED
      BY <3>1, <3>2 DEF Verdict
  <2> QED
    BY <2>1, <2>2, <2>3
<1>7. VerdictIndependentOfPieces'
  BY <1>1, <1>2, <1>6 DEF VerdictIndependentOfPieces, Kept
<1> QED
  BY <1>5, <1>7 DEF IInv

(* The body begins behind the header, with what came along with it. *)
LEMMA HeaderOKStep == ASSUME IInv, HeaderOK PROVE IInv'
<1>1. /\ pc = "parse" /\ pc' = "body" /\ status' = "OK"
      /\ fileLength' = Number(Digits(buffer, headerEnd))
      /\ bytesReceived' = Len(Leftover) /\ delivered' = Leftover
      /\ StatusWord(buffer, headerEnd) = "OK" /\ AllDigits(buffer, headerEnd)
      /\ UNCHANGED <<addr, sfd, sent, buffer, headerEnd, ret, response, incoming, peer>>
  BY DEF HeaderOK, net
<1>2. PICK e \in Nat : e = HeaderEndOf(response) /\ e = headerEnd /\ e + 4 <= Consumed
  BY <1>1, ParsingRead
<1>3. /\ StatusWord(response, e) = "OK" /\ AllDigits(response, e)
      /\ fileLength' = Number(Digits(response, e))
  BY <1>1, <1>2, ParsingRead
<1>4. /\ response \in Seq(Nat) /\ Consumed \in 0..Len(response) /\ sent = RequestLength
      /\ Len(buffer) = Consumed /\ buffer = SubSeq(response, 1, Consumed)
  BY <1>1, ParsingRead
<1>5. Consumed' = Consumed
  BY <1>1 DEF Consumed
<1>6. /\ Leftover = SubSeq(response, e + 5, Consumed) /\ Leftover \in Seq(Nat)
      /\ Len(Leftover) = Consumed - (e + 4) /\ Len(Leftover) \in Nat
  <2>1. e + 5 \in Nat \ {0} /\ Consumed \in 0..Consumed /\ e + 5 <= Consumed + 1
    BY <1>2, <1>4
  <2>2. Leftover = SubSeq(buffer, e + 5, Consumed)
    BY <1>2, <1>4 DEF Leftover
  <2>3. Leftover = SubSeq(response, e + 5, Consumed)
    BY <1>4, <2>1, <2>2, SamePart
  <2>4. /\ SubSeq(response, e + 5, Consumed) \in Seq(Nat)
        /\ Len(SubSeq(response, e + 5, Consumed)) = Consumed - (e + 5) + 1
    BY <1>4, <2>1, PartOf
  <2> QED
    BY <1>2, <1>4, <2>3, <2>4
<1>7. TypeOK'
  BY <1>1, <1>6 DEF IInv, TypeOK, Stage
<1>8. Stream'
  BY <1>1, <1>5 DEF IInv, Stream
<1>9. Passed'
  <2>1. e + 4 + Len(Leftover) = Consumed
    BY <1>2, <1>4, <1>6
  <2> QED
    BY <1>1, <1>2, <1>3, <1>4, <1>5, <1>6, <2>1 DEF Passed
<1>10. Before' /\ Collecting' /\ Parsing' /\ VerdictIndependentOfPieces'
  BY <1>1 DEF Before, Collecting, Parsing, VerdictIndependentOfPieces
<1> QED
  BY <1>7, <1>8, <1>9, <1>10 DEF IInv

(* While the body is being received. *)
LEMMA BodySoFar ==
  ASSUME IInv, pc = "body"
  PROVE  \E e \in Nat :
           /\ e = HeaderEndOf(response) /\ response \in Seq(Nat) /\ Consumed \in 0..Len(response)
           /\ Consumed = e + 4 + Len(delivered) /\ delivered = SubSeq(response, e + 5, Consumed)
           /\ delivered \in Seq(Nat) /\ bytesReceived = Len(delivered) /\ Len(delivered) \in Nat
           /\ StatusWord(response, e) = "OK" /\ AllDigits(response, e) /\ status = "OK"
           /\ fileLength = Number(Digits(response, e)) /\ fileLength \in Nat
           /\ sent = RequestLength
           /\ Len(BodyOf(response)) = Len(response) - (e + 4)
<1>1. /\ response \in Seq(Nat) /\ Consumed \in 0..Len(response)
      /\ HeaderEndOf(response) # -1
  BY DEF IInv, TypeOK, Stream, Passed
<1>2. PICK e \in Nat : e = HeaderEndOf(response) /\ e + 4 <= Len(response)
  <2>1. HeaderEndOf(response) \in 0..Len(response) - 4
    BY <1>1, HeaderEndMeaning
  <2> QED
    BY <1>1, <2>1
<1>3. /\ Consumed = e + 4 + Len(delivered) /\ delivered = SubSeq(response, e + 5, Consumed)
      /\ delivered \in Seq(Nat) /\ bytesReceived = Len(delivered)
      /\ StatusWord(response, e) = "OK" /\ AllDigits(response, e) /\ status = "OK"
      /\ fileLength = Number(Digits(response, e)) /\ sent = RequestLength
  BY <1>2 DEF IInv, TypeOK, Passed
<1>4. fileLength \in Nat
  <2>1. Digits(response, e) \in Seq(Nat)
    <3>1. CASE e < 3
      <4>1. SubSeq(response, 3, e) = << >>
        BY <3>1, SubSeqEmpty
      <4> QED
        BY <4>1, EmptySeq DEF Digits
    <3>2. CASE e >= 3
      BY <1>1, <1>2, <3>2, PartOf DEF Digits
    <3> QED
      BY <3>1, <3>2
  <2> QED
    BY <1>3, <2>1, NumberIsNat
<1>5. Len(BodyOf(response)) = Len(response) - (e + 4)
  <2>1. e + 5 \in Nat \ {0} /\ Len(response) \in 0..Len(response) /\ e + 5 <= Len(response) + 1
    BY <1>1, <1>2
  <2>2. Len(SubSeq(response, e + 5, Len(response))) = Len(response) - (e + 5) + 1
    BY <1>1, <2>1, PartOf
  <2> QED
    BY <1>1, <1>2, <2>2 DEF BodyOf
<1>6. Len(delivered) \in Nat
  BY <1>3
<1> HIDE DEF Consumed
<1> QED
  BY <1>1, <1>2, <1>3, <1>4, <1>5, <1>6, Zenon

(* What is received next continues the body. *)
LEMMA ReceiveBodyStep == ASSUME IInv, ReceiveBody PROVE IInv'
<1>1. /\ pc = "body"
      /\ UNCHANGED <<pc, addr, sfd, sent, buffer, headerEnd, status, fileLength, ret>>
  BY DEF ReceiveBody
<1>2. PICK n \in 1..Len(incoming) :
        /\ Take(n) /\ bytesReceived' = bytesReceived + n
        /\ delivered' = delivered \o SubSeq(incoming, 1, n)
  BY DEF ReceiveBody, Received
<1>3. PICK e \in Nat :
        /\ e = HeaderEndOf(response) /\ response \in Seq(Nat) /\ Consumed \in 0..Len(response)
        /\ Consumed = e + 4 + Len(delivered) /\ delivered = SubSeq(response, e + 5, Consumed)
        /\ delivered \in Seq(Nat) /\ bytesReceived = Len(delivered) /\ Len(delivered) \in Nat
  BY <1>1, BodySoFar
<1>0. PICK c \in Nat, l \in Nat : c = Consumed /\ l = Len(delivered) /\ c = e + 4 + l
  <2>1. Consumed \in Nat
    BY <1>3
  <2> QED
    BY <1>3, <2>1, Zenon
<1>4. /\ response' = response /\ incoming' \in Seq(Nat) /\ Stream' /\ peer' = peer
      /\ Consumed' = Consumed + n /\ Consumed + n <= Len(response)
      /\ delivered' = SubSeq(response, e + 5, Consumed + n)
  <2>1. TypeOK /\ Stream
    BY DEF IInv
  <2>2. e + 5 \in 1..Consumed + 1
    BY <1>0
  <2>3. peer' = peer
    BY <1>2 DEF Take
  <2> QED
    BY <1>2, <1>3, <2>1, <2>2, <2>3, Takes
<1>5. /\ delivered' \in Seq(Nat) /\ Len(delivered') = Len(delivered) + n
      /\ Len(delivered') \in Nat
  <2>1. /\ e + 5 \in Nat \ {0} /\ Consumed + n \in 0..Len(response) /\ e + 5 <= Consumed + n + 1
        /\ Consumed + n - (e + 5) + 1 = Len(delivered) + n
    <3>1. /\ e + 5 \in Nat \ {0} /\ e + 5 <= c + n + 1 /\ c + n - (e + 5) + 1 = l + n
          /\ n \in Nat /\ c + n \in Nat
      BY <1>0
    <3>2. c + n <= Len(response) /\ Len(response) \in Nat
      BY <1>0, <1>3, <1>4
    <3> QED
      BY <1>0, <3>1, <3>2
  <2>2. /\ SubSeq(response, e + 5, Consumed + n) \in Seq(Nat)
        /\ Len(SubSeq(response, e + 5, Consumed + n)) = Consumed + n - (e + 5) + 1
    <3>1. /\ e + 5 \in Nat \ {0} /\ c + n \in 0..Len(response) /\ e + 5 <= c + n + 1
          /\ c = Consumed /\ response \in Seq(Nat)
      BY <1>0, <1>3, <2>1
    <3>2. /\ SubSeq(response, e + 5, c + n) \in Seq(Nat)
          /\ Len(SubSeq(response, e + 5, c + n)) = c + n - (e + 5) + 1
      BY <3>1, PartOf
    <3> QED
      BY <3>1, <3>2, Zenon
  <2>3. delivered' \in Seq(Nat) /\ Len(delivered') = Len(delivered) + n
    BY <1>4, <2>1, <2>2
  <2> QED
    BY <1>3, <2>3
<1>6. TypeOK'
  BY <1>1, <1>2, <1>3, <1>4, <1>5 DEF IInv, TypeOK
<1>7. Passed'
  <2>1. e + 4 + Len(delivered') = Consumed + n /\ Consumed' = e + 4 + Len(delivered')
    BY <1>0, <1>4, <1>5
  <2>2. bytesReceived' = Len(delivered') /\ e + 4 + Len(delivered') <= Len(response)
    BY <1>2, <1>3, <1>4, <1>5, <2>1
  <2>3. /\ e # -1 /\ StatusWord(response, e) = "OK" /\ AllDigits(response, e) /\ status = "OK"
        /\ fileLength = Number(Digits(response, e)) /\ sent = RequestLength
    BY <1>1, <1>3 DEF IInv, Passed
  <2> QED
    BY <1>1, <1>3, <1>4, <2>1, <2>2, <2>3 DEF Passed
<1>8. Before' /\ Collecting' /\ Parsing' /\ VerdictIndependentOfPieces'
  BY <1>1 DEF Before, Collecting, Parsing, VerdictIndependentOfPieces
<1> QED
  BY <1>4, <1>6, <1>7, <1>8 DEF IInv

(* The end of the transfer is reported as the reference does. *)
LEMMA BodyEndsSteps == ASSUME IInv, BodyEnds \/ BodyFails \/ BodyComplete PROVE IInv'
<1>1. pc = "body" /\ pc' = "returned" /\ sfd' = "none"
  BY DEF BodyEnds, BodyFails, BodyComplete, Return
<1>2. Kept /\ UNCHANGED <<addr, sent, peer>>
  BY DEF BodyEnds, BodyFails, BodyComplete, Return, Kept, net, handle
<1>3. Consumed' = Consumed
  BY <1>2 DEF Kept, Consumed
<1>4. TypeOK' /\ Stream' /\ Before' /\ Collecting' /\ Parsing' /\ Passed'
  <2>1. TypeOK'
    BY <1>1, <1>2 DEF IInv, TypeOK, Kept, Stage
  <2>2. Stream'
    BY <1>2, <1>3 DEF IInv, Stream, Kept
  <2>3. Before' /\ Collecting' /\ Parsing' /\ Passed'
    BY <1>1, <1>2 DEF IInv, Kept, Before, Collecting, Parsing, Passed
  <2> QED
    BY <2>1, <2>2, <2>3
<1>5. peer # "reset" => <<ret', status'>> = Verdict(response, peer = "closed")
  <2>1. PICK e \in Nat :
          /\ e = HeaderEndOf(response) /\ response \in Seq(Nat) /\ Consumed \in 0..Len(response)
          /\ Consumed = e + 4 + Len(delivered) /\ bytesReceived = Len(delivered)
          /\ Len(delivered) \in Nat
          /\ StatusWord(response, e) = "OK" /\ AllDigits(response, e) /\ status = "OK"
          /\ fileLength = Number(Digits(response, e)) /\ fileLength \in Nat
          /\ Len(BodyOf(response)) = Len(response) - (e + 4)
    BY <1>1, BodySoFar
  <2>2. Verdict(response, peer = "closed") =
          IF Len(BodyOf(response)) >= fileLength THEN <<0, "OK">>
          ELSE IF peer = "closed" THEN <<-1, "OK">> ELSE <<1, "more">>
    BY <2>1 DEF Verdict
  <2>3. CASE BodyEnds
    <3>1. /\ bytesReceived < fileLength /\ incoming = << >> /\ peer = "closed"
          /\ ret' = -1 /\ status' = status
      BY <2>3 DEF BodyEnds, Return, handle
    <3>2. Consumed = Len(response)
      BY <2>1, <3>1 DEF Consumed
    <3>3. ~(Len(BodyOf(response)) >= fileLength)
      BY <2>1, <3>1, <3>2
    <3> QED
      BY <2>1, <2>2, <3>1, <3>3
  <2>4. CASE BodyFails
    BY <2>4 DEF BodyFails
  <2>5. CASE BodyComplete
    <3>1. bytesReceived >= fileLength /\ ret' = 0 /\ status' = status
      BY <2>5 DEF BodyComplete, Return, handle
    <3>2. Len(BodyOf(response)) >= fileLength
      BY <2>1, <3>1
    <3> QED
      BY <2>1, <2>2, <3>1, <3>2
  <2> QED
    BY <2>3, <2>4, <2>5
<1>6. VerdictIndependentOfPieces'
  BY <1>1, <1>2, <1>5 DEF VerdictIndependentOfPieces, Kept
<1> QED
  BY <1>4, <1>6 DEF IInv

(* A peer that closes cuts off what has not been received. *)
LEMMA PeerClosesStep == ASSUME IInv, PeerCloses PROVE IInv'
<1>1. /\ peer' = "closed" /\ pc \notin {"returned", "killed"}
      /\ UNCHANGED <<pc, addr, sfd, sent, buffer, headerEnd, status, fileLength,
                     bytesReceived, delivered, ret>>
  BY DEF PeerCloses, Over, handle
<1>2. PICK n \in Consumed..Len(response) :
        /\ response' = SubSeq(response, 1, n)
        /\ incoming' = SubSeq(response, Consumed + 1, n)
  BY DEF PeerCloses
<1>3. response \in Seq(Nat) /\ Len(response) \in Nat /\ Consumed \in 0..Len(response)
  BY DEF IInv, TypeOK, Stream
<1>4. PICK c \in Nat : c = Consumed /\ c <= n /\ n \in 0..Len(response)
  BY <1>2, <1>3
<1>5. /\ response' \in Seq(Nat) /\ Len(response') = n /\ Beginning(response', response)
      /\ SubSeq(response', 1, c) = SubSeq(response, 1, c)
      /\ SubSeq(response', c + 1, n) = SubSeq(response, c + 1, n)
      /\ \A m \in Nat \ {0}, k \in 0..n : m <= k + 1 => SubSeq(response', m, k) = SubSeq(response, m, k)
  <2>1. /\ response' \in Seq(Nat) /\ Len(response') = n /\ Beginning(response', response)
        /\ \A m \in Nat \ {0}, k \in 0..n : m <= k + 1 => SubSeq(response', m, k) = SubSeq(response, m, k)
    <3>1. response' = SubSeq(response, 1, n) /\ response \in Seq(Nat) /\ n \in 0..Len(response)
      BY <1>2, <1>3, <1>4
    <3>2. response' \in Seq(Nat) /\ Len(response') = n /\ Beginning(response', response)
      <4>1. \A cut : cut = SubSeq(response, 1, n) => cut \in Seq(Nat) /\ Len(cut) = n /\ Beginning(cut, response)
        BY <3>1, CutOff
      <4> QED
        BY <3>1, <4>1, Zenon
    <3>3. ASSUME NEW m \in Nat \ {0}, NEW k \in 0..n, m <= k + 1
          PROVE  SubSeq(response', m, k) = SubSeq(response, m, k)
      BY <3>2, <3>3, SamePart
    <3> QED
      BY <3>2, <3>3
  <2>2. /\ 1 \in Nat \ {0} /\ c + 1 \in Nat \ {0} /\ c \in 0..n /\ n \in 0..n
        /\ 1 <= c + 1 /\ c + 1 <= n + 1
    BY <1>4
  <2> QED
    BY <2>1, <2>2
<1>6. incoming' \in Seq(Nat) /\ Len(incoming') = n - c /\ incoming' = SubSeq(response', c + 1, n)
  <2>1. c + 1 \in Nat \ {0} /\ c + 1 <= n + 1 /\ n - (c + 1) + 1 = n - c
    BY <1>4
  <2> QED
    BY <1>2, <1>3, <1>4, <1>5, <2>1, PartOf
<1>7. Consumed' = c
  <2>1. Consumed' = Len(response') - Len(incoming')
    BY DEF Consumed
  <2> QED
    BY <1>4, <1>5, <1>6, <2>1
<1>8. TypeOK'
  BY <1>1, <1>5, <1>6 DEF IInv, TypeOK
<1>9. Stream'
  BY <1>4, <1>5, <1>6, <1>7 DEF Stream
<1>10. Before' /\ Collecting'
  BY <1>1, <1>4, <1>5, <1>7 DEF IInv, Before, Collecting
<1>11. Parsing'
  <2> SUFFICES ASSUME pc = "parse" PROVE Parsing'
    BY <1>1 DEF Parsing
  <2>1. CASE headerEnd = HeaderEndOf(response) /\ headerEnd \in Nat /\ headerEnd + 4 <= Consumed
    <3>1. headerEnd + 4 <= Len(response')
      BY <1>4, <1>5, <2>1
    <3>2. HeaderEndOf(response) # -1
      BY <2>1
    <3>3. HeaderEndOf(response') = headerEnd
      BY <1>5, <2>1, <3>1, <3>2, HeaderEndSeen
    <3>4. /\ sent = RequestLength /\ Len(buffer) = Consumed
          /\ buffer = SubSeq(response, 1, Consumed)
      BY ParsingRead
    <3> QED
      BY <1>1, <1>4, <1>5, <1>7, <2>1, <3>3, <3>4 DEF Parsing
  <2>2. CASE headerEnd = 0 /\ HeaderEndOf(response) = -1
    <3>1. HeaderEndOf(response') = -1
      BY <1>5, <2>2, HeaderEndSeen
    <3>2. sent = RequestLength /\ buffer = SubSeq(response, 1, Consumed)
      BY ParsingRead
    <3> QED
      BY <1>1, <1>4, <1>5, <1>7, <2>2, <3>1, <3>2 DEF Parsing
  <2> QED
    BY <2>1, <2>2, ParsingRead
<1>12. Passed'
  <2>1. bytesReceived' = Len(delivered')
    BY <1>1 DEF IInv, Passed
  <2>2. delivered # << >> => pc = "body"
    BY <1>1 DEF IInv, TypeOK, Stage, Before
  <2> SUFFICES ASSUME pc = "body" PROVE Passed'
    BY <1>1, <2>1, <2>2 DEF Passed
  <2>3. PICK e \in Nat :
          /\ e = HeaderEndOf(response) /\ Consumed = e + 4 + Len(delivered)
          /\ delivered = SubSeq(response, e + 5, Consumed) /\ Len(delivered) \in Nat
          /\ StatusWord(response, e) = "OK" /\ AllDigits(response, e) /\ status = "OK"
          /\ fileLength = Number(Digits(response, e)) /\ sent = RequestLength
    BY BodySoFar
  <2>4. PICK l \in Nat : l = Len(delivered)
    BY <2>3
  <2>5. c = e + 4 + l /\ e + 4 <= n /\ e # -1
    <3>1. c = e + 4 + l
      BY <1>4, <2>3, <2>4, Zenon
    <3>2. c <= n
      BY <1>4
    <3> QED
      BY <3>1, <3>2
  <2>6. HeaderEndOf(response') = e
    BY <1>5, <2>3, <2>5, HeaderEndSeen
  <2>7. /\ StatusWord(response', e) = StatusWord(response, e)
        /\ Digits(response', e) = Digits(response, e)
        /\ AllDigits(response', e) <=> AllDigits(response, e)
    BY <1>5, <2>5, HeaderRead
  <2>8. SubSeq(response', e + 5, c) = SubSeq(response, e + 5, c)
    <3>1. e + 5 \in Nat \ {0} /\ c \in 0..n /\ e + 5 <= c + 1
      BY <1>4, <2>5
    <3> QED
      BY <1>5, <3>1
  <2>9. delivered = SubSeq(response', e + 5, e + 4 + l) /\ e + 4 + l <= Len(response')
    BY <1>4, <1>5, <2>3, <2>5, <2>8
  <2> HIDE DEF Consumed
  <2> QED
    BY <1>1, <1>7, <2>1, <2>3, <2>4, <2>5, <2>6, <2>7, <2>9 DEF Passed
<1>13. VerdictIndependentOfPieces'
  BY <1>1 DEF VerdictIndependentOfPieces
<1> QED
  BY <1>8, <1>9, <1>10, <1>11, <1>12, <1>13 DEF IInv

(* A reset, and a step of another program. *)
LEMMA QuietSteps == ASSUME IInv, PeerResets \/ UNCHANGED vars PROVE IInv'
<1>1. /\ UNCHANGED <<pc, addr, sfd, sent, buffer, headerEnd, status, fileLength, bytesReceived,
                     delivered, ret, response, incoming>>
      /\ peer' = peer \/ (peer' = "reset" /\ ~Over)
  BY DEF PeerResets, vars, handle, net
<1>2. Consumed' = Consumed
  BY <1>1 DEF Consumed
<1>3. TypeOK' /\ Stream'
  BY <1>1, <1>2 DEF IInv, TypeOK, Stream
<1>4. Before' /\ Collecting' /\ Passed'
  BY <1>1, <1>2 DEF IInv, Before, Collecting, Passed
<1>5. Parsing'
  BY <1>1, <1>2 DEF IInv, Parsing
<1>6. VerdictIndependentOfPieces'
  BY <1>1 DEF IInv, VerdictIndependentOfPieces, Over
<1> QED
  BY <1>3, <1>4, <1>5, <1>6 DEF IInv

(* The invariant holds throughout. *)
LEMMA Invariance == Spec => []IInv
<1>1. IInv /\ [Next]_vars => IInv'
  <2> SUFFICES ASSUME IInv, [Next]_vars PROVE IInv'
    OBVIOUS
  <2>1. CASE ConnectFails \/ Connects \/ NoConnection \/ SendRequest \/ SendFails
    BY <2>1, RequestSteps
  <2>2. CASE ReceiveHeader
    BY <2>2, ReceiveHeaderStep
  <2>3. CASE HeaderEnds \/ HeaderFails
    BY <2>3, HeaderEndsSteps
  <2>4. CASE StatusRefuses \/ StatusInvalid \/ LengthInvalid
    BY <2>4, ParsingEnds
  <2>5. CASE HeaderOK
    BY <2>5, HeaderOKStep
  <2>6. CASE ReceiveBody
    BY <2>6, ReceiveBodyStep
  <2>7. CASE BodyEnds \/ BodyFails \/ BodyComplete
    BY <2>7, BodyEndsSteps
  <2>8. CASE PeerCloses
    BY <2>8, PeerClosesStep
  <2>9. CASE PeerResets \/ UNCHANGED vars
    BY <2>9, QuietSteps
  <2> QED
    BY <2>1, <2>2, <2>3, <2>4, <2>5, <2>6, <2>7, <2>8, <2>9 DEF Next, Perform
<1> QED
  BY <1>1, Initially, PTL DEF Spec

----------------------------------------------------------------------------

(* gfc_perform returns what the reference says of the response and closes its
   socket, for every response, every way of cutting it into pieces and every
   size of the buffer. *)
THEOREM JudgesAsAWhole == Spec => []VerdictIndependentOfPieces
<1>1. IInv => VerdictIndependentOfPieces
  BY DEF IInv
<1> QED
  BY <1>1, Invariance, PTL

(* The callback gets a beginning of the body and nothing else. *)
LEMMA BodyPassedOn == Spec => []BodyInOrder
<1>1. IInv => BodyInOrder
  <2> SUFFICES ASSUME IInv PROVE BodyInOrder
    OBVIOUS
  <2>1. /\ response \in Seq(Nat) /\ delivered \in Seq(Nat) /\ bytesReceived = Len(delivered)
    BY DEF IInv, TypeOK, Passed
  <2>2. CASE delivered = << >>
    <3>1. BodyOf(response) \in Seq(Nat) /\ Len(BodyOf(response)) \in Nat
      <4>1. HeaderEndOf(response) \in -1..Len(response)
        BY <2>1, HeaderEndMeaning
      <4>2. HeaderEndOf(response) + 5 \in Nat \ {0} /\ Len(response) \in 0..Len(response)
        BY <2>1, <4>1
      <4>3. CASE HeaderEndOf(response) + 5 <= Len(response) + 1
        BY <2>1, <4>2, <4>3, PartOf DEF BodyOf
      <4>4. CASE ~(HeaderEndOf(response) + 5 <= Len(response) + 1)
        <5>1. BodyOf(response) = << >>
          BY <2>1, <4>2, <4>4, SubSeqEmpty DEF BodyOf
        <5> QED
          BY <5>1
      <4> QED
        BY <4>3, <4>4
    <3>2. SubSeq(delivered, 1, 0) = << >> /\ SubSeq(BodyOf(response), 1, 0) = << >>
      BY SubSeqEmpty
    <3> QED
      BY <2>1, <2>2, <3>1, <3>2 DEF BodyInOrder, IsPrefix
  <2>3. CASE delivered # << >>
    <3>1. PICK e, l \in Nat : /\ e = HeaderEndOf(response) /\ l = Len(delivered)
                              /\ e + 4 + l <= Len(response)
                              /\ delivered = SubSeq(response, e + 5, e + 4 + l)
                              /\ StatusWord(response, e) = "OK"
      <4>1. /\ HeaderEndOf(response) # -1 /\ StatusWord(response, HeaderEndOf(response)) = "OK"
            /\ HeaderEndOf(response) + 4 + Len(delivered) <= Len(response)
            /\ delivered = SubSeq(response, HeaderEndOf(response) + 5,
                                  HeaderEndOf(response) + 4 + Len(delivered))
        BY <2>3 DEF IInv, Passed
      <4>2. HeaderEndOf(response) \in Nat /\ Len(delivered) \in Nat
        BY <2>1, <4>1, HeaderEndMeaning
      <4> QED
        BY <4>1, <4>2, Zenon
    <3>2. /\ BodyOf(response) \in Seq(Nat) /\ Len(BodyOf(response)) = Len(response) - (e + 4)
          /\ SubSeq(BodyOf(response), 1, l) = SubSeq(response, e + 4 + 1, e + 4 + l)
      <4>0. Len(response) \in Nat /\ e + 4 + l <= Len(response) /\ response \in Seq(Nat)
        <5>1. Len(response) \in Nat
          BY <2>1
        <5> QED
          BY <2>1, <3>1, <5>1, Zenon
      <4>1. /\ e + 4 \in 0..Len(response) /\ e + 4 + 1 = e + 5
            /\ l \in 0..Len(response) - (e + 4) /\ 1 \in Nat \ {0} /\ 1 <= l + 1
        BY <4>0
      <4>2. BodyOf(response) = SubSeq(response, e + 4 + 1, Len(response))
        BY <3>1, <4>1 DEF BodyOf
      <4> QED
        BY <4>0, <4>1, <4>2, PartOfRest
    <3>3. SubSeq(delivered, 1, l) = delivered
      BY <2>1, <3>1, SubSeqFull
    <3>4. l <= Len(BodyOf(response)) /\ e + 4 + 1 = e + 5
      <4>1. Len(response) \in Nat /\ Len(BodyOf(response)) = Len(response) - (e + 4)
        BY <2>1, <3>2
      <4>2. e + 4 + l <= Len(response)
        BY <3>1
      <4> QED
        BY <4>1, <4>2
    <3> QED
      BY <2>1, <3>1, <3>2, <3>3, <3>4 DEF BodyInOrder, IsPrefix
  <2> QED
    BY <2>2, <2>3
<1> QED
  BY <1>1, Invariance, PTL

----------------------------------------------------------------------------
(* What the result says about the body *)

(* The status is set by the parsing and not before. *)
StatusUnset == pc \in {"connect", "send", "header", "parse"} => status = "INVALID"

RInv == IInv /\ StatusUnset /\ ResultTellsBody

(* The loop over the body ends with all that was announced, or with all that
   has come. *)
LEMMA BodyEndsTell ==
  ASSUME IInv, BodyEnds \/ BodyComplete
  PROVE  ResultTellsBody'
<1>1. PICK e \in Nat :
        /\ e = HeaderEndOf(response) /\ response \in Seq(Nat) /\ Consumed \in 0..Len(response)
        /\ Consumed = e + 4 + Len(delivered) /\ delivered = SubSeq(response, e + 5, Consumed)
        /\ bytesReceived = Len(delivered) /\ fileLength = Number(Digits(response, e))
  <2>1. pc = "body"
    BY DEF BodyEnds, BodyComplete
  <2> QED
    BY <2>1, BodySoFar
<1>2. UNCHANGED <<delivered, response>> /\ HeaderEndOf(response') = HeaderEndOf(response)
  BY DEF BodyEnds, BodyComplete, net
<1>3. CASE BodyEnds
  <2>1. bytesReceived < fileLength /\ incoming = << >> /\ ret' = -1
    BY <1>3 DEF BodyEnds, Return
  <2>2. Consumed = Len(response)
    BY <1>1, <2>1 DEF Consumed
  <2>3. delivered = BodyOf(response)
    BY <1>1, <2>2 DEF BodyOf
  <2>4. /\ ret' # 0 /\ Len(delivered') < Number(Digits(response', HeaderEndOf(response')))
        /\ delivered' = BodyOf(response')
    <3>1. Len(delivered) < Number(Digits(response, HeaderEndOf(response)))
      BY <1>1, <2>1
    <3>2. BodyOf(response') = BodyOf(response)
      BY <1>2
    <3> QED
      BY <1>2, <2>1, <2>3, <3>1, <3>2
  <2> QED
    BY <2>4 DEF ResultTellsBody
<1>4. CASE BodyComplete
  <2>1. bytesReceived >= fileLength /\ ret' = 0
    BY <1>4 DEF BodyComplete, Return
  <2> QED
    BY <1>1, <1>2, <2>1 DEF ResultTellsBody
<1> QED
  BY <1>3, <1>4

(* Every other way back to the caller leaves a status that is not OK. *)
LEMMA ResultStep ==
  ASSUME RInv, [Next]_vars
  PROVE  StatusUnset' /\ ResultTellsBody'
<1>1. CASE ConnectFails \/ Connects \/ SendRequest \/ ReceiveHeader \/ HeaderEnds
  <2>1. /\ pc \in {"connect", "send", "header"} /\ status' = status
        /\ pc' \in {"connect", "send", "header", "parse"}
    BY <1>1 DEF ConnectFails, Connects, SendRequest, ReceiveHeader, HeaderEnds, handle
  <2> QED
    BY <2>1 DEF RInv, StatusUnset, ResultTellsBody
<1>2. CASE NoConnection \/ SendFails \/ HeaderFails \/ StatusRefuses \/ StatusInvalid
            \/ LengthInvalid \/ BodyFails
  <2>1. pc' \in {"returned", "killed"} /\ status' # "OK"
    <3>1. CASE SendFails \/ HeaderFails
      BY <3>1 DEF RInv, StatusUnset, SendFails, HeaderFails, Return, handle
    <3>2. CASE ~(SendFails \/ HeaderFails)
      BY <1>2, <3>2 DEF NoConnection, StatusRefuses, StatusInvalid, LengthInvalid, BodyFails, Return
    <3> QED
      BY <3>1, <3>2
  <2> QED
    BY <2>1 DEF StatusUnset, ResultTellsBody
<1>3. CASE HeaderOK \/ ReceiveBody
  BY <1>3 DEF HeaderOK, ReceiveBody, StatusUnset, ResultTellsBody
<1>4. CASE BodyEnds \/ BodyComplete
  <2>1. pc' = "returned"
    BY <1>4 DEF BodyEnds, BodyComplete, Return
  <2> QED
    BY <1>4, <2>1, BodyEndsTell DEF RInv, StatusUnset
<1>5. CASE PeerCloses \/ PeerResets
  BY <1>5 DEF RInv, PeerCloses, PeerResets, Over, handle, StatusUnset, ResultTellsBody
<1>6. CASE UNCHANGED vars
  BY <1>6 DEF RInv, vars, handle, net, StatusUnset, ResultTellsBody, HeaderEndOf, BodyOf
<1> QED
  BY <1>1, <1>2, <1>3, <1>4, <1>5, <1>6 DEF Next, Perform

(* The invariant with the clauses about the result. *)
LEMMA ResultInvariance == Spec => []RInv
<1>1. Init => StatusUnset /\ ResultTellsBody
  BY DEF Init, StatusUnset, ResultTellsBody
<1>2. RInv /\ [Next]_vars => StatusUnset' /\ ResultTellsBody'
  BY ResultStep
<1>3. IInv /\ StatusUnset /\ ResultTellsBody => RInv
  BY DEF RInv
<1> QED
  BY <1>1, <1>2, <1>3, Invariance, PTL DEF Spec

(* The callback gets the body in order and nothing else; a success means that
   all announced bytes were handed over, a failure with the status OK that all
   received ones were. *)
THEOREM ResultIsTrue == Spec => []BodyIntact
<1>1. RInv /\ BodyInOrder => BodyIntact
  BY DEF RInv, BodyIntact
<1> QED
  BY <1>1, ResultInvariance, BodyPassedOn, PTL

----------------------------------------------------------------------------
(* The answer to a request for a file: a header with its length, and its bytes *)

Answer(digits, body) == <<GETFILE, Word.OK>> \o digits \o Delimiter \o body

(* A concatenation, each part from its own beginning. *)
LEMMA Joined ==
  \A a, b \in Seq(Nat) :
    /\ a \o b \in Seq(Nat) /\ Len(a \o b) = Len(a) + Len(b)
    /\ \A i \in 1..Len(a) : (a \o b)[i] = a[i]
    /\ \A i \in 1..Len(b) : (a \o b)[Len(a) + i] = b[i]
<1> SUFFICES ASSUME NEW a \in Seq(Nat), NEW b \in Seq(Nat)
             PROVE  /\ a \o b \in Seq(Nat) /\ Len(a \o b) = Len(a) + Len(b)
                    /\ \A i \in 1..Len(a) : (a \o b)[i] = a[i]
                    /\ \A i \in 1..Len(b) : (a \o b)[Len(a) + i] = b[i]
  OBVIOUS
<1>1. PICK m \in Nat, n \in Nat : m = Len(a) /\ n = Len(b)
  OBVIOUS
<1>2. PICK c : c = a \o b
  OBVIOUS
<1>3. /\ c \in Seq(Nat) /\ Len(c) = m + n
      /\ \A i \in 1..m + n : c[i] = IF i <= m THEN a[i] ELSE b[i - m]
  BY <1>1, <1>2, ConcatProperties
<1>4. ASSUME NEW i \in 1..m PROVE c[i] = a[i]
  BY <1>3
<1>5. ASSUME NEW i \in 1..n PROVE c[m + i] = b[i]
  <2>1. m + i \in 1..m + n /\ ~(m + i <= m) /\ (m + i) - m = i
    OBVIOUS
  <2>2. c[m + i] = b[(m + i) - m]
    BY <1>3, <2>1
  <2> QED
    BY <2>1, <2>2
<1> QED
  BY <1>1, <1>2, <1>3, <1>4, <1>5

(* Where the parts of the answer stand in r, when there are d digits and n
   bytes. *)
PartsOfAnswer(r, digits, body, d, n) ==
  /\ digits \in Seq(Nat) /\ r \in Seq(Nat) /\ Len(r) = d + 6 + n
  /\ r[1] = GETFILE /\ r[2] = Word.OK
  /\ \A i \in 1..d : r[2 + i] = digits[i]
  /\ r[d + 3] = CR /\ r[d + 4] = LF /\ r[d + 5] = CR /\ r[d + 6] = LF
  /\ \A i \in 1..n : r[d + 6 + i] = body[i]

(* The answer has these parts: words, digits, delimiter and bytes. *)
LEMMA AnswerParts ==
  ASSUME NEW digits \in Seq(48..57), NEW body \in Seq(Nat)
  PROVE  PartsOfAnswer(Answer(digits, body), digits, body, Len(digits), Len(body))
<1>1. PICK d \in Nat, n \in Nat : d = Len(digits) /\ n = Len(body)
  OBVIOUS
<1>2. PICK r : r = Answer(digits, body)
  OBVIOUS
<1>3. PICK words : words = <<GETFILE, Word.OK>>
  OBVIOUS
<1>4. words \in Seq(Nat) /\ Len(words) = 2 /\ words[1] = GETFILE /\ words[2] = Word.OK
  BY <1>3 DEF GETFILE, Word
<1>5. /\ Delimiter \in Seq(Nat) /\ Len(Delimiter) = 4
      /\ Delimiter[1] = CR /\ Delimiter[2] = LF /\ Delimiter[3] = CR /\ Delimiter[4] = LF
  BY DEF Delimiter, CR, LF
<1>6. digits \in Seq(Nat)
  <2>1. 48..57 \subseteq Nat
    OBVIOUS
  <2> QED
    BY <2>1, SeqMonotonic
<1>7. PICK h : h = words \o digits
  OBVIOUS
<1>8. /\ h \in Seq(Nat) /\ Len(h) = 2 + d
      /\ \A i \in 1..2 : h[i] = words[i]
      /\ \A i \in 1..d : h[2 + i] = digits[i]
  <2>1. /\ words \o digits \in Seq(Nat) /\ Len(words \o digits) = Len(words) + Len(digits)
        /\ \A i \in 1..Len(words) : (words \o digits)[i] = words[i]
        /\ \A i \in 1..Len(digits) : (words \o digits)[Len(words) + i] = digits[i]
    BY <1>4, <1>6, Joined, Zenon
  <2> QED
    BY <1>1, <1>4, <1>7, <2>1, Zenon
<1>9. PICK g : g = h \o Delimiter
  OBVIOUS
<1>10. /\ g \in Seq(Nat) /\ Len(g) = 2 + d + 4
       /\ \A i \in 1..2 + d : g[i] = h[i]
       /\ \A i \in 1..4 : g[2 + d + i] = Delimiter[i]
  <2>1. /\ h \o Delimiter \in Seq(Nat) /\ Len(h \o Delimiter) = Len(h) + Len(Delimiter)
        /\ \A i \in 1..Len(h) : (h \o Delimiter)[i] = h[i]
        /\ \A i \in 1..Len(Delimiter) : (h \o Delimiter)[Len(h) + i] = Delimiter[i]
    BY <1>5, <1>8, Joined, Zenon
  <2> QED
    BY <1>5, <1>8, <1>9, <2>1, Zenon
<1>11. r = g \o body
  BY <1>3, <1>7, <1>9, <1>2 DEF Answer
<1>12. /\ r \in Seq(Nat) /\ Len(r) = 2 + d + 4 + n
       /\ \A i \in 1..2 + d + 4 : r[i] = g[i]
       /\ \A i \in 1..n : r[2 + d + 4 + i] = body[i]
  <2>1. /\ g \o body \in Seq(Nat) /\ Len(g \o body) = Len(g) + Len(body)
        /\ \A i \in 1..Len(g) : (g \o body)[i] = g[i]
        /\ \A i \in 1..Len(body) : (g \o body)[Len(g) + i] = body[i]
    BY <1>10, Joined, Zenon
  <2> QED
    BY <1>1, <1>10, <1>11, <2>1, Zenon
<1>13. r[1] = GETFILE /\ r[2] = Word.OK
  <2>1. \A i \in 1..2 : i \in 1..2 + d /\ i \in 1..2 + d + 4
    OBVIOUS
  <2>2. \A i \in 1..2 : r[i] = words[i]
    BY <1>8, <1>10, <1>12, <2>1
  <2> QED
    BY <1>4, <2>2
<1>14. ASSUME NEW i \in 1..d PROVE r[2 + i] = digits[i]
  <2>1. 2 + i \in 1..2 + d /\ 2 + i \in 1..2 + d + 4
    OBVIOUS
  <2> QED
    BY <1>8, <1>10, <1>12, <2>1
<1>15. r[d + 3] = CR /\ r[d + 4] = LF /\ r[d + 5] = CR /\ r[d + 6] = LF
  <2>1. \A i \in 1..4 : r[2 + d + i] = Delimiter[i]
    <3> SUFFICES ASSUME NEW i \in 1..4 PROVE r[2 + d + i] = Delimiter[i]
      OBVIOUS
    <3>1. 2 + d + i \in 1..2 + d + 4
      OBVIOUS
    <3>2. r[2 + d + i] = g[2 + d + i]
      BY <1>12, <3>1, Zenon
    <3>3. g[2 + d + i] = Delimiter[i]
      BY <1>10
    <3> QED
      BY <3>2, <3>3
  <2>2. 2 + d + 1 = d + 3 /\ 2 + d + 2 = d + 4 /\ 2 + d + 3 = d + 5 /\ 2 + d + 4 = d + 6
    OBVIOUS
  <2>3. /\ r[2 + d + 1] = CR /\ r[2 + d + 2] = LF /\ r[2 + d + 3] = CR
        /\ r[2 + d + 4] = LF
    BY <1>5, <2>1
  <2> QED
    BY <2>2, <2>3
<1>16. 2 + d + 4 = d + 6
  OBVIOUS
<1> QED
  BY <1>1, <1>6, <1>12, <1>13, <1>14, <1>15, <1>16, <1>2 DEF PartsOfAnswer

(* The reference reads the answer as it was put together: the first delimiter
   is the one behind the digits, since neither the words nor the digits hold
   one of its characters, and a delimiter in the body comes later. *)
LEMMA AnswerRead ==
  ASSUME NEW digits \in Seq(48..57), NEW body \in Seq(Nat), Len(digits) + 6 <= BufSize,
         NEW r, r = Answer(digits, body)
  PROVE  /\ HeaderEndOf(r) = Len(digits) + 2
         /\ StatusWord(r, HeaderEndOf(r)) = "OK"
         /\ Digits(r, HeaderEndOf(r)) = digits /\ AllDigits(r, HeaderEndOf(r))
         /\ BodyOf(r) = body
<1>1. PICK d \in Nat, n \in Nat : d = Len(digits) /\ n = Len(body) /\ d + 6 <= BufSize
  OBVIOUS
<1>2. /\ digits \in Seq(Nat) /\ r \in Seq(Nat) /\ Len(r) = d + 6 + n
      /\ r[1] = GETFILE /\ r[2] = Word.OK
      /\ \A i \in 1..d : r[2 + i] = digits[i]
      /\ r[d + 3] = CR /\ r[d + 4] = LF /\ r[d + 5] = CR /\ r[d + 6] = LF
      /\ \A i \in 1..n : r[d + 6 + i] = body[i]
  <2>1. PartsOfAnswer(r, digits, body, d, n)
    BY <1>1, AnswerParts, Zenon
  <2> QED
    BY <2>1, Zenon DEF PartsOfAnswer
<1>3. r \in Seq(Nat)
  BY <1>2
<1>4. \A i \in 1..d + 2 : r[i] # CR
  <2> SUFFICES ASSUME NEW i \in 1..d + 2 PROVE r[i] # CR
    OBVIOUS
  <2>1. CASE i <= 2
    <3>1. i = 1 \/ i = 2
      BY <2>1
    <3>2. r[1] # CR /\ r[2] # CR
      BY <1>2 DEF CR, GETFILE, Word
    <3> QED
      BY <3>1, <3>2
  <2>2. CASE i > 2
    <3>1. PICK k \in 1..d : i = 2 + k
      <4>1. i - 2 \in 1..d /\ i = 2 + (i - 2)
        BY <2>2
      <4> QED
        BY <4>1
    <3>2. digits[k] \in 48..57
      BY <1>1, ElementOfSeq
    <3>3. r[i] = digits[k]
      BY <1>2, <3>1
    <3> QED
      BY <3>2, <3>3 DEF CR
  <2> QED
    BY <2>1, <2>2
<1>5. d + 2 \in DelimitersFrom(0, r) /\ d + 2 + 4 <= BufSize
  <2>1. /\ d + 3 \in Nat \ {0} /\ d + 6 \in 0..Len(r) /\ d + 3 <= d + 6 + 1
        /\ d + 6 - (d + 3) + 1 = 4
    BY <1>2
  <2>2. PICK p : p = SubSeq(r, d + 3, d + 6)
    OBVIOUS
  <2>3. /\ p \in Seq(Nat) /\ Len(p) = d + 6 - (d + 3) + 1
        /\ \A i \in 1..d + 6 - (d + 3) + 1 : p[i] = r[d + 3 + i - 1]
    <3>1. PICK m \in Nat \ {0}, l \in 0..Len(r) : m = d + 3 /\ l = d + 6 /\ m <= l + 1
      BY <2>1
    <3>2. /\ SubSeq(r, m, l) \in Seq(Nat) /\ Len(SubSeq(r, m, l)) = l - m + 1
          /\ \A i \in 1..l - m + 1 : SubSeq(r, m, l)[i] = r[m + i - 1]
      BY <1>3, <3>1, PartOf
    <3> QED
      BY <2>2, <3>1, <3>2
  <2>4. Len(p) = 4 /\ p[1] = CR /\ p[2] = LF /\ p[3] = CR /\ p[4] = LF
    BY <1>2, <2>1, <2>3
  <2>5. p = Delimiter
    <3>1. /\ Delimiter \in Seq(Nat) /\ Len(Delimiter) = 4 /\ Delimiter[1] = CR
          /\ Delimiter[2] = LF /\ Delimiter[3] = CR /\ Delimiter[4] = LF
      BY DEF Delimiter, CR, LF
    <3>2. \A i \in 1..4 : p[i] = Delimiter[i]
      BY <2>4, <3>1
    <3>3. \A i \in 1..Len(p) : p[i] = Delimiter[i]
      BY <2>4, <3>2
    <3>4. Len(p) = Len(Delimiter)
      BY <2>4, <3>1
    <3>5. p \in Seq(Nat)
      BY <2>3
    <3> QED
      BY <3>1, <3>3, <3>4, <3>5, SeqEqual
  <2>6. d + 2 \in 0..Len(r) - 4 /\ (d + 2) + 1 = d + 3 /\ (d + 2) + 4 = d + 6
    BY <1>2
  <2> QED
    BY <1>1, <2>2, <2>5, <2>6 DEF DelimitersFrom
<1>6. ASSUME NEW i \in DelimitersFrom(0, r) PROVE d + 2 <= i
  <2>1. i \in 0..Len(r) - 4 /\ SubSeq(r, i + 1, i + 4) = Delimiter
    BY DEF DelimitersFrom
  <2>2. SubSeq(r, i + 1, i + 4)[1] = r[i + 1]
    <3>1. /\ i + 1 \in Nat \ {0} /\ i + 4 \in 0..Len(r) /\ i + 1 <= i + 4 + 1
          /\ 1 \in 1..i + 4 - (i + 1) + 1 /\ i + 1 + 1 - 1 = i + 1
      BY <1>2, <2>1
    <3>2. PICK m \in Nat \ {0}, l \in Nat : m = i + 1 /\ l = i + 4 /\ l \in 0..Len(r)
      BY <3>1
    <3>3. m <= l + 1 /\ 1 \in 1..l - m + 1 /\ m + 1 - 1 = m /\ l \in 0..Len(r)
      <4>1. i \in Nat
        BY <2>1
      <4> QED
        BY <3>2, <4>1
    <3>4. \A j \in 1..l - m + 1 : SubSeq(r, m, l)[j] = r[m + j - 1]
      BY <1>3, <3>2, <3>3, PartOf
    <3>5. SubSeq(r, m, l)[1] = r[m + 1 - 1]
      BY <3>3, <3>4
    <3> QED
      BY <3>2, <3>3, <3>5
  <2>3. r[i + 1] = CR
    <3>1. Delimiter[1] = CR
      BY DEF Delimiter
    <3> QED
      BY <2>1, <2>2, <3>1
  <2> QED
    BY <1>4, <2>1, <2>3
<1>7. HeaderEndOf(r) = d + 2
  <2> DEFINE found == {i \in DelimitersFrom(0, r) : i + 4 <= BufSize}
  <2>1. d + 2 \in found /\ found \subseteq Nat /\ \A i \in found : d + 2 <= i
    BY <1>5, <1>6 DEF DelimitersFrom
  <2>2. HeaderEndOf(r) = First(found)
    BY <2>1 DEF HeaderEndOf
  <2> HIDE DEF found
  <2>3. PICK f \in Nat : f = First(found) /\ f <= d + 2 /\ d + 2 <= f
    <3>1. First(found) \in found /\ First(found) <= d + 2
      BY <2>1, FirstIsLeast
    <3> QED
      BY <2>1, <3>1
  <2>4. f = d + 2
    BY <2>3
  <2> QED
    BY <2>2, <2>3, <2>4
<1>8. StatusWord(r, d + 2) = "OK"
  <2>1. r # << >> /\ r[1] = GETFILE /\ d + 2 >= 2
    BY <1>2
  <2>2. \A s \in DOMAIN Word : Word[s] = r[2] <=> s = "OK"
    BY <1>2 DEF Word
  <2>3. "OK" \in DOMAIN Word
    BY DEF Word
  <2> QED
    BY <2>1, <2>2, <2>3 DEF StatusWord, IsGetfile
<1>9. Digits(r, d + 2) = digits
  <2>1. /\ 3 \in Nat \ {0} /\ d + 2 \in 0..Len(r) /\ 3 <= d + 2 + 1 /\ d + 2 - 3 + 1 = d
        /\ \A i \in 1..d : 3 + i - 1 = 2 + i
    BY <1>2
  <2>2. PICK p : p = SubSeq(r, 3, d + 2)
    OBVIOUS
  <2>3. /\ p \in Seq(Nat) /\ Len(p) = d + 2 - 3 + 1
        /\ \A i \in 1..d + 2 - 3 + 1 : p[i] = r[3 + i - 1]
    <3>1. PICK e \in 0..Len(r) : e = d + 2 /\ 3 <= e + 1
      BY <2>1
    <3>2. /\ SubSeq(r, 3, e) \in Seq(Nat) /\ Len(SubSeq(r, 3, e)) = e - 3 + 1
          /\ \A i \in 1..e - 3 + 1 : SubSeq(r, 3, e)[i] = r[3 + i - 1]
      BY <1>3, <3>1, PartOf
    <3> QED
      BY <2>2, <3>1, <3>2
  <2>4. p \in Seq(Nat) /\ Len(p) = d /\ \A i \in 1..d : p[i] = r[2 + i]
    BY <2>1, <2>3
  <2> QED
    BY <1>1, <1>2, <2>2, <2>4, SeqEqual DEF Digits
<1>10. AllDigits(r, d + 2)
  <2>1. ASSUME NEW i \in DOMAIN digits PROVE IsDigit(digits[i])
    <3>1. PICK c \in 48..57 : c = digits[i]
      <4>1. i \in 1..Len(digits)
        BY <1>1, <1>2
      <4> QED
        BY <4>1, ElementOfSeq
    <3> QED
      BY <3>1 DEF IsDigit
  <2> QED
    BY <1>9, <2>1 DEF AllDigits
<1>11. BodyOf(r) = body
  <2>1. PICK l \in Nat : l = Len(r) /\ l = d + 6 + n
    BY <1>2
  <2>2. /\ d + 7 \in Nat \ {0} /\ l \in 0..Len(r) /\ d + 7 <= l + 1 /\ l - (d + 7) + 1 = n
        /\ d + 2 + 5 = d + 7 /\ \A i \in 1..n : d + 7 + i - 1 = d + 6 + i
    BY <2>1
  <2>3. PICK p : p = SubSeq(r, d + 7, l)
    OBVIOUS
  <2>4. /\ p \in Seq(Nat) /\ Len(p) = l - (d + 7) + 1
        /\ \A i \in 1..l - (d + 7) + 1 : p[i] = r[d + 7 + i - 1]
    <3>1. PICK m \in Nat \ {0} : m = d + 7 /\ m <= l + 1
      BY <2>2
    <3>2. /\ SubSeq(r, m, l) \in Seq(Nat) /\ Len(SubSeq(r, m, l)) = l - m + 1
          /\ \A i \in 1..l - m + 1 : SubSeq(r, m, l)[i] = r[m + i - 1]
      BY <1>3, <2>2, <3>1, PartOf
    <3> QED
      BY <2>3, <3>1, <3>2, Zenon
  <2>5. p \in Seq(Nat) /\ Len(p) = n /\ \A i \in 1..n : p[i] = r[d + 6 + i]
    BY <2>2, <2>4
  <2>6. p = body
    BY <1>1, <1>2, <2>5, SeqEqual
  <2> QED
    BY <1>7, <2>1, <2>2, <2>3, <2>6 DEF BodyOf
<1> QED
  BY <1>1, <1>7, <1>8, <1>9, <1>10, <1>11

(* gfc_perform is back from an exchange in which the peer sent all of answer. *)
Answered(answer) == /\ pc = "returned" /\ sent = RequestLength /\ peer # "reset"
                    /\ response = answer

(* A file comes through: when all of a server's answer has been sent, whatever
   the file holds and however the answer was cut into pieces, gfc_perform that
   returns without a reset reports success, and the callback was handed the
   bytes of the file, no more and no fewer. *)
THEOREM FileComesThrough ==
  ASSUME NEW digits \in Seq(48..57), NEW body \in Seq(Nat),
         Number(digits) = Len(body), Len(digits) + 6 <= BufSize
  PROVE  Spec => [](Answered(Answer(digits, body))
                      => ret = 0 /\ status = "OK" /\ delivered = body)
<1>1. ASSUME RInv, BodyInOrder, Answered(Answer(digits, body))
      PROVE  ret = 0 /\ status = "OK" /\ delivered = body
  <2>1. /\ HeaderEndOf(response) = Len(digits) + 2
        /\ StatusWord(response, HeaderEndOf(response)) = "OK"
        /\ Digits(response, HeaderEndOf(response)) = digits
        /\ AllDigits(response, HeaderEndOf(response)) /\ BodyOf(response) = body
    BY <1>1, AnswerRead DEF Answered
  <2>2. Verdict(response, peer = "closed") = <<0, "OK">>
    <3>1. Len(digits) + 2 # -1 /\ Len(body) >= Number(digits)
      OBVIOUS
    <3> QED
      BY <2>1, <3>1 DEF Verdict
  <2>3. ret = 0 /\ status = "OK"
    BY <1>1, <2>2 DEF RInv, IInv, VerdictIndependentOfPieces, Answered
  <2>4. Len(delivered) >= Len(body)
    BY <1>1, <2>1, <2>3 DEF RInv, ResultTellsBody, Answered
  <2>5. /\ Len(delivered) <= Len(body)
        /\ SubSeq(delivered, 1, Len(delivered)) = SubSeq(body, 1, Len(delivered))
    BY <1>1, <2>1 DEF BodyInOrder, IsPrefix
  <2>6. delivered \in Seq(Nat)
    BY <1>1 DEF RInv, IInv, TypeOK
  <2>7. Len(delivered) = Len(body)
    BY <2>4, <2>5, <2>6
  <2>8. delivered = body
    BY <2>5, <2>6, <2>7, SubSeqFull
  <2> QED
    BY <2>3, <2>8
<1>2. RInv /\ BodyInOrder => (Answered(Answer(digits, body))
                              => ret = 0 /\ status = "OK" /\ delivered = body)
  BY <1>1
<1> QED
  BY <1>2, ResultInvariance, BodyPassedOn, PTL
=============================================================================
