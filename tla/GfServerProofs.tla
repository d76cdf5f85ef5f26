---------------------------- MODULE GfServerProofs ----------------------------
(***************************************************************************)
(* Proofs about GfServer: whatever clients send, in whatever pieces, the   *)
(* accept loop judges a request by its whole text, and leaves nothing open *)
(* behind it but the connections whose handler was called.                 *)
(***************************************************************************)
EXTENDS GfServer, SequenceTheorems, TLAPS

(***************************************************************************)
(* The inductive invariant.  RequestsJudged speaks of the text a client    *)
(* has sent; what the loop has judged is the part it had received by then, *)
(* which stays when a client that leaves withdraws the rest.               *)
(***************************************************************************)

SettingUp == {"getaddrinfo", "socket", "setsockopt", "bind", "listen", "listening", "exited"}
Serving == {"receive", "check", "handler"}

TypeOK == /\ pc \in SettingUp \union Serving
          /\ pending \in Seq(Conn)
          /\ fd \in [Conn -> {"none", "open", "closed"}]
          /\ ctx \in [Conn -> {"none", "live", "freed"}]
          /\ header \in Seq(Nat)
          /\ request \in [Conn -> Seq(Nat)] /\ incoming \in [Conn -> Seq(Nat)]
          /\ peer \in [Conn -> {"none", "waiting", "left", "reset"}]
          /\ handled \in [Conn -> Seq(Nat)]
          /\ reply \in [Conn -> {"none", "INVALID", "answer"}]
          /\ fault \in BOOLEAN

(* What has been received of a request, and what has not. *)
Got(c) == Len(request[c]) - Len(incoming[c])
Taken(c) == SubSeq(request[c], 1, Got(c))

Arriving == \A c \in Conn :
              /\ Got(c) \in 0..Len(request[c])
              /\ incoming[c] = SubSeq(request[c], Got(c) + 1, Len(request[c]))

(* A connection is accepted once, and nothing happens to it before. *)
Untouched(c) == /\ fd[c] = "none" /\ ctx[c] = "none" /\ Got(c) = 0
                /\ handled[c] = NoPath /\ reply[c] = "none"

Queue == /\ \A i, j \in 1..Len(pending) : pending[i] = pending[j] => i = j
         /\ \A i \in 1..Len(pending) : peer[pending[i]] # "none" /\ Untouched(pending[i])
         /\ \A c \in Conn : peer[c] = "none" => Untouched(c)

(* The header buffer holds what was received from the connection being
   served, and no delimiter in it has been missed. *)
Current ==
  /\ IF pc \in Serving
       THEN /\ cur \in Conn /\ peer[cur] # "none" /\ reply[cur] = "none"
            /\ header = Taken(cur)
            /\ \/ fd[cur] = "open" /\ ctx[cur] = "live"
               \/ /\ fd[cur] = "closed" /\ ctx[cur] = "freed"
                  /\ pc = "check" /\ peer[cur] = "reset" /\ DelimitersFrom(0, header) = {}
       ELSE cur = NoConn
  /\ pc \in {"receive", "check"} => handled[cur] = NoPath
  /\ pc = "receive" => DelimitersFrom(0, header) = {}
  /\ pc = "check" => \/ DelimitersFrom(0, header) # {}
                     \/ Len(header) = HeaderSize - 1
                     \/ peer[cur] # "waiting"
  /\ pc = "handler" => handled[cur] # NoPath
  /\ Len(header) < HeaderSize

(* What the handler was called with is what was received. *)
Handled == \A c \in Conn : handled[c] # NoPath =>
             /\ Taken(c) = Request(handled[c])
             /\ WellFormed(Taken(c)) /\ Len(Taken(c)) < HeaderSize

(* What was refused was at its end, or filled the buffer. *)
Refused == ~fault => \A c \in Conn : reply[c] = "INVALID" =>
             /\ ~WellFormed(Taken(c))
             /\ DelimitersFrom(0, Taken(c)) # {} \/ Len(Taken(c)) = HeaderSize - 1

LeftOpen == \A c \in Conn : c # cur /\ (fd[c] = "open" \/ ctx[c] = "live") => handled[c] # NoPath

Blame == fault => \E c \in Conn : peer[c] = "reset" /\ ctx[c] = "freed"

IInv == TypeOK /\ Arriving /\ Queue /\ Current /\ Handled /\ Refused /\ LeftOpen /\ Blame
----------------------------------------------------------------------------
(* Lemmas about streams *)

(* A part of a stream is a stream. *)
LEMMA PartOf ==
  ASSUME NEW s \in Seq(Nat), NEW m \in Nat \ {0}, NEW n \in 0..Len(s), m <= n + 1
  PROVE  /\ SubSeq(s, m, n) \in Seq(Nat)
         /\ Len(SubSeq(s, m, n)) = n - m + 1
         /\ \A i \in 1..n - m + 1 : SubSeq(s, m, n)[i] = s[m + i - 1]
<1>1. \A i \in m..n : s[i] \in Nat
  BY ElementOfSeq
<1> QED
  BY <1>1, SubSeqProperties

(* s is what there is of t so far. *)
Beginning(s, t) == /\ s \in Seq(Nat) /\ t \in Seq(Nat) /\ Len(s) <= Len(t)
                   /\ \A i \in 1..Len(s) : s[i] = t[i]

(* A beginning has the parts of the whole that it covers. *)
LEMMA SamePart ==
  ASSUME NEW s, NEW t, Beginning(s, t),
         NEW m \in Nat \ {0}, NEW k \in 0..Len(s), m <= k + 1
  PROVE  SubSeq(s, m, k) = SubSeq(t, m, k)
<1>0. /\ s \in Seq(Nat) /\ t \in Seq(Nat) /\ Len(s) <= Len(t)
      /\ \A i \in 1..Len(s) : s[i] = t[i]
  BY DEF Beginning
<1>1. /\ s \in Seq(Nat) /\ t \in Seq(Nat) /\ k \in 0..Len(t)
      /\ \A i \in 1..Len(s) : s[i] = t[i]
  <2>1. Len(s) \in Nat /\ Len(t) \in Nat
    BY <1>0
  <2> QED
    BY <1>0, <2>1
<1>2. /\ SubSeq(s, m, k) \in Seq(Nat) /\ Len(SubSeq(s, m, k)) = k - m + 1
      /\ \A i \in 1..k - m + 1 : SubSeq(s, m, k)[i] = s[m + i - 1]
  BY <1>1, PartOf
<1>3. /\ SubSeq(t, m, k) \in Seq(Nat) /\ Len(SubSeq(t, m, k)) = k - m + 1
      /\ \A i \in 1..k - m + 1 : SubSeq(t, m, k)[i] = t[m + i - 1]
  BY <1>1, PartOf
<1>4. \A i \in 1..k - m + 1 : s[m + i - 1] = t[m + i - 1]
  <2>1. \A i \in 1..k - m + 1 : m + i - 1 \in 1..Len(s)
    BY <1>1
  <2> QED
    BY <1>1, <2>1
<1> QED
  BY <1>2, <1>3, <1>4, SeqEqual

(* Of two beginnings the shorter is a beginning of the longer. *)
LEMMA ShorterBeginning ==
  ASSUME NEW s, NEW t, NEW u, Beginning(s, u), Beginning(t, u), Len(s) <= Len(t)
  PROVE  Beginning(s, t)
<1>1. Len(s) \in Nat /\ Len(t) \in Nat
  BY DEF Beginning
<1>2. \A i \in 1..Len(s) : i \in 1..Len(t)
  BY <1>1
<1>3. \A i \in 1..Len(s) : s[i] = t[i]
  BY <1>2 DEF Beginning
<1> QED
  BY <1>3 DEF Beginning

(* The parts of a part. *)
LEMMA PartOfRest ==
  ASSUME NEW s \in Seq(Nat), NEW k \in 0..Len(s), NEW rest, rest = SubSeq(s, k + 1, Len(s)),
         NEW i \in Nat \ {0}, NEW j \in 0..Len(s) - k, i <= j + 1
  PROVE  /\ rest \in Seq(Nat) /\ Len(rest) = Len(s) - k
         /\ SubSeq(rest, i, j) = SubSeq(s, k + i, k + j)
<1>1. /\ rest \in Seq(Nat) /\ Len(rest) = Len(s) - k
      /\ \A m \in 1..Len(s) - k : rest[m] = s[k + m]
  <2>1. /\ k + 1 \in Nat \ {0} /\ Len(s) \in 0..Len(s) /\ k + 1 <= Len(s) + 1
        /\ Len(s) - (k + 1) + 1 = Len(s) - k /\ \A m \in 1..Len(s) - k : (k + 1) + m - 1 = k + m
    OBVIOUS
  <2>2. /\ rest \in Seq(Nat) /\ Len(rest) = Len(s) - (k + 1) + 1
        /\ \A m \in 1..Len(s) - (k + 1) + 1 : rest[m] = s[(k + 1) + m - 1]
    BY <2>1, PartOf
  <2> QED
    BY <2>1, <2>2
<1>2. /\ SubSeq(rest, i, j) \in Seq(Nat) /\ Len(SubSeq(rest, i, j)) = j - i + 1
      /\ \A m \in 1..j - i + 1 : SubSeq(rest, i, j)[m] = rest[i + m - 1]
  <2>1. j \in 0..Len(rest)
    BY <1>1
  <2> QED
    BY <1>1, <2>1, PartOf
<1>3. /\ SubSeq(s, k + i, k + j) \in Seq(Nat) /\ Len(SubSeq(s, k + i, k + j)) = j - i + 1
      /\ \A m \in 1..j - i + 1 : SubSeq(s, k + i, k + j)[m] = s[k + i + m - 1]
  <2>1. k + i \in Nat \ {0} /\ k + j \in 0..Len(s) /\ k + i <= k + j + 1
        /\ (k + j) - (k + i) + 1 = j - i + 1
    OBVIOUS
  <2> QED
    BY <2>1, PartOf
<1>4. \A m \in 1..j - i + 1 : rest[i + m - 1] = s[k + i + m - 1]
  <2> SUFFICES ASSUME NEW m \in 1..j - i + 1 PROVE rest[i + m - 1] = s[k + i + m - 1]
    OBVIOUS
  <2>1. i + m - 1 \in 1..Len(s) - k /\ k + (i + m - 1) = k + i + m - 1
    OBVIOUS
  <2> QED
    BY <1>1, <2>1
<1>5. SubSeq(rest, i, j) = SubSeq(s, k + i, k + j)
  <2> DEFINE a == SubSeq(rest, i, j)
             b == SubSeq(s, k + i, k + j)
  <2>1. a \in Seq(Nat) /\ b \in Seq(Nat) /\ Len(a) = Len(b) /\ Len(a) = j - i + 1
    BY <1>2, <1>3
  <2>2. \A m \in 1..j - i + 1 : a[m] = b[m]
    BY <1>2, <1>3, <1>4
  <2> HIDE DEF a, b
  <2>3. a = b
    BY <2>1, <2>2, SeqEqual
  <2> QED
    BY <2>3 DEF a, b
<1> QED
  BY <1>1, <1>5

(* What is received next continues what was received. *)
LEMMA BeginningGrows ==
  ASSUME NEW s \in Seq(Nat), NEW k \in 0..Len(s), NEW rest, rest = SubSeq(s, k + 1, Len(s)),
         NEW n \in 0..Len(s) - k
  PROVE  /\ SubSeq(s, 1, k) \o SubSeq(rest, 1, n) = SubSeq(s, 1, k + n)
         /\ SubSeq(rest, n + 1, Len(rest)) = SubSeq(s, k + n + 1, Len(s))
         /\ Len(SubSeq(rest, n + 1, Len(rest))) = Len(s) - (k + n)
         /\ SubSeq(rest, n + 1, Len(rest)) \in Seq(Nat)
<1>1. SubSeq(rest, 1, n) = SubSeq(s, k + 1, k + n)
  BY PartOfRest
<1>2. Len(rest) = Len(s) - k
  BY PartOfRest
<1>3. SubSeq(rest, n + 1, Len(rest)) = SubSeq(s, k + n + 1, Len(s))
  <2>1. /\ n + 1 \in Nat \ {0} /\ Len(s) - k \in 0..Len(s) - k /\ n + 1 <= Len(s) - k + 1
        /\ k + (n + 1) = k + n + 1 /\ k + (Len(s) - k) = Len(s)
    OBVIOUS
  <2> QED
    <3>1. SubSeq(rest, n + 1, Len(s) - k) = SubSeq(s, k + (n + 1), k + (Len(s) - k))
      BY <2>1, PartOfRest
    <3> QED
      BY <1>2, <2>1, <3>1
<1>4. SubSeq(s, 1, k) \o SubSeq(s, k + 1, k + n) = SubSeq(s, 1, k + n)
  <2>1. 1 \in 1..Len(s) + 1 /\ k \in 1 - 1..Len(s) /\ k + n \in k..Len(s)
    OBVIOUS
  <2> QED
    BY <2>1, ConcatAdjacentSubSeq
<1>5. /\ Len(SubSeq(s, k + n + 1, Len(s))) = Len(s) - (k + n)
      /\ SubSeq(s, k + n + 1, Len(s)) \in Seq(Nat)
  <2>1. /\ k + n + 1 \in Nat \ {0} /\ Len(s) \in 0..Len(s) /\ k + n + 1 <= Len(s) + 1
        /\ Len(s) - (k + n + 1) + 1 = Len(s) - (k + n)
    OBVIOUS
  <2> QED
    BY <2>1, PartOf
<1> QED
  BY <1>1, <1>3, <1>4, <1>5

(* A stream that is cut off. *)
LEMMA CutOff ==
  ASSUME NEW s \in Seq(Nat), NEW n \in 0..Len(s), NEW cut, cut = SubSeq(s, 1, n)
  PROVE  cut \in Seq(Nat) /\ Len(cut) = n /\ Beginning(cut, s)
<1>1. cut \in Seq(Nat) /\ Len(cut) = n /\ \A i \in 1..n : cut[i] = s[i]
  BY PartOf
<1> QED
  BY <1>1 DEF Beginning

----------------------------------------------------------------------------
(* Lemmas about request headers *)

(* What has arrived shows the delimiters of the stream that it covers. *)
LEMMA DelimitersSeen ==
  ASSUME NEW s, NEW t, Beginning(s, t)
  PROVE  DelimitersFrom(0, s) = {i \in DelimitersFrom(0, t) : i + 4 <= Len(s)}
<1>1. ASSUME NEW i \in 0..Len(s) - 4
      PROVE  SubSeq(s, i + 1, i + 4) = SubSeq(t, i + 1, i + 4)
  <2>1. i + 1 \in Nat \ {0} /\ i + 4 \in 0..Len(s) /\ i + 1 <= i + 4 + 1
    BY DEF Beginning
  <2> QED
    BY <2>1, SamePart
<1>2. Len(s) \in Nat /\ Len(t) \in Nat /\ Len(s) <= Len(t)
  BY DEF Beginning
<1> QED
  BY <1>1, <1>2 DEF DelimitersFrom

(* The search that begins three symbols before those just received misses no
   delimiter. *)
LEMMA NothingMissed ==
  ASSUME NEW s, NEW t, Beginning(s, t), DelimitersFrom(0, s) = {},
         NEW n \in Nat \ {0}, Len(t) = Len(s) + n
  PROVE  DelimitersFrom(ScanStart(Len(t), n), t) = DelimitersFrom(0, t)
<1>1. DelimitersFrom(0, s) = {i \in DelimitersFrom(0, t) : i + 4 <= Len(s)}
  BY DelimitersSeen
<1>2. Len(s) \in Nat /\ Len(t) \in Nat
  BY DEF Beginning
<1>3. DelimitersFrom(0, t) \subseteq 0..Len(t) - 4
  BY DEF DelimitersFrom
<1>4. PICK start \in Nat : start = ScanStart(Len(t), n) /\ (start = 0 \/ start = Len(s) - 3)
  <2>1. ScanStart(Len(t), n) \in {0, Len(s) - 3} /\ ScanStart(Len(t), n) >= 0
    <3>1. Len(t) - n - 3 = Len(s) - 3
      BY <1>2
    <3> QED
      BY <1>2, <3>1 DEF ScanStart
  <2> QED
    BY <1>2, <2>1
<1>5. \A i \in DelimitersFrom(0, t) : i >= start
  BY <1>1, <1>2, <1>3, <1>4
<1>6. DelimitersFrom(start, t) = DelimitersFrom(0, t)
  <2>1. \A i \in 0..Len(t) - 4 : i \in start..Len(t) - 4 <=> i >= start
    BY <1>2
  <2>2. \A i \in start..Len(t) - 4 : i \in 0..Len(t) - 4
    BY <1>2
  <2> QED
    BY <1>5, <2>1, <2>2 DEF DelimitersFrom
<1> QED
  BY <1>4, <1>6

(* Four symbols. *)
LEMMA FourSymbols ==
  ASSUME NEW s \in Seq(Nat), Len(s) = 4, NEW a \in Nat, NEW b \in Nat, NEW c \in Nat, NEW d \in Nat
  PROVE  s = <<a, b, c, d>> <=> s[1] = a /\ s[2] = b /\ s[3] = c /\ s[4] = d
<1>1. <<a, b, c, d>> \in Seq(Nat) /\ Len(<<a, b, c, d>>) = 4
  OBVIOUS
<1>2. ASSUME s[1] = a, s[2] = b, s[3] = c, s[4] = d PROVE s = <<a, b, c, d>>
  <2>1. \A i \in 1..4 : s[i] = <<a, b, c, d>>[i]
    BY <1>2
  <2> QED
    BY <1>1, <2>1, SeqEqual
<1> QED
  BY <1>2

(* The last four symbols of a stream are a delimiter or not. *)
LEMMA LastFour ==
  ASSUME NEW h \in Seq(Nat), NEW l \in Nat, l = Len(h), l >= 4
  PROVE  SubSeq(h, l - 3, l) = Delimiter
           <=> h[l - 3] = CR /\ h[l - 2] = LF /\ h[l - 1] = CR /\ h[l] = LF
<1> DEFINE four == SubSeq(h, l - 3, l)
<1>1. l - 3 \in Nat \ {0} /\ l \in 0..Len(h) /\ l - 3 <= l + 1 /\ l - (l - 3) + 1 = 4
  OBVIOUS
<1>2. /\ four \in Seq(Nat) /\ Len(four) = 4
      /\ \A i \in 1..4 : four[i] = h[l - 3 + i - 1]
  <2>1. /\ four \in Seq(Nat) /\ Len(four) = l - (l - 3) + 1
        /\ \A i \in 1..l - (l - 3) + 1 : four[i] = h[l - 3 + i - 1]
    BY <1>1, PartOf
  <2> QED
    BY <1>1, <2>1
<1>3. four[1] = h[l - 3] /\ four[2] = h[l - 2] /\ four[3] = h[l - 1] /\ four[4] = h[l]
  <2>1. /\ four[1] = h[l - 3 + 1 - 1] /\ four[2] = h[l - 3 + 2 - 1]
        /\ four[3] = h[l - 3 + 3 - 1] /\ four[4] = h[l - 3 + 4 - 1]
    <3> HIDE DEF four
    <3> QED
      BY <1>2
  <2>2. /\ l - 3 + 1 - 1 = l - 3 /\ l - 3 + 2 - 1 = l - 2
        /\ l - 3 + 3 - 1 = l - 1 /\ l - 3 + 4 - 1 = l
    OBVIOUS
  <2> QED
    BY <2>1, <2>2
<1>4. CR \in Nat /\ LF \in Nat /\ Delimiter = <<CR, LF, CR, LF>>
  BY DEF CR, LF, Delimiter
<1> HIDE DEF four
<1>5. four = Delimiter <=> four[1] = CR /\ four[2] = LF /\ four[3] = CR /\ four[4] = LF
  BY <1>2, <1>4, FourSymbols
<1> QED
  BY <1>3, <1>5 DEF four

(* What the library means by a suffix. *)
LEMMA SuffixMeaning ==
  ASSUME NEW h \in Seq(Nat)
  PROVE  IsSuffix(Delimiter, h)
           <=> Len(h) >= 4 /\ SubSeq(h, Len(h) - 3, Len(h)) = Delimiter
<1>1. PICK l \in Nat : l = Len(h)
  OBVIOUS
<1>2. PICK r \in Seq(Nat) : /\ r = Reverse(h) /\ Len(r) = l
                            /\ \A i \in 1..l : r[i] = h[l - i + 1]
  <2>1. Reverse(h) = [i \in 1..l |-> h[l - i + 1]]
    BY <1>1 DEF Reverse
  <2>2. \A i \in 1..l : l - i + 1 \in 1..l
    BY <1>1
  <2>3. \A i \in 1..l : h[i] \in Nat
    BY <1>1
  <2>4. Reverse(h) \in [1..l -> Nat]
    BY <2>1, <2>2, <2>3
  <2>5. Reverse(h) \in Seq(Nat) /\ Len(Reverse(h)) = l
    BY <2>4, IsASeq
  <2> QED
    BY <2>1, <2>5
<1>3. Reverse(Delimiter) = <<LF, CR, LF, CR>>
  BY DEF Reverse, Delimiter
<1>4. IsSuffix(Delimiter, h) <=> 4 <= l /\ SubSeq(<<LF, CR, LF, CR>>, 1, 4) = SubSeq(r, 1, 4)
  <2>1. Len(<<LF, CR, LF, CR>>) = 4
    OBVIOUS
  <2>2. IsSuffix(Delimiter, h) <=> IsPrefix(<<LF, CR, LF, CR>>, r)
    BY <1>2, <1>3, Zenon DEF IsSuffix
  <2> QED
    BY <1>2, <2>1, <2>2, Zenon DEF IsPrefix
<1>5. LF \in Nat /\ CR \in Nat
  BY DEF LF, CR
<1>6. SubSeq(<<LF, CR, LF, CR>>, 1, 4) = <<LF, CR, LF, CR>>
  <2>1. <<LF, CR, LF, CR>> \in Seq(Nat) /\ Len(<<LF, CR, LF, CR>>) = 4
    BY <1>5
  <2> QED
    BY <2>1, SubSeqFull
<1>7. ASSUME l >= 4
      PROVE  SubSeq(r, 1, 4) = <<LF, CR, LF, CR>>
               <=> h[l] = LF /\ h[l - 1] = CR /\ h[l - 2] = LF /\ h[l - 3] = CR
  <2>1. PICK s \in Seq(Nat) : s = SubSeq(r, 1, 4) /\ Len(s) = 4 /\ \A i \in 1..4 : s[i] = r[i]
    <3>1. PICK s : s = SubSeq(r, 1, 4)
      OBVIOUS
    <3>2. s \in Seq(Nat) /\ Len(s) = 4 /\ \A i \in 1..4 : s[i] = r[i]
      <4>1. 4 \in 0..Len(r)
        BY <1>1, <1>2, <1>7
      <4> QED
        BY <3>1, <4>1, CutOff DEF Beginning
    <3> QED
      BY <3>1, <3>2
  <2>2. s[1] = h[l] /\ s[2] = h[l - 1] /\ s[3] = h[l - 2] /\ s[4] = h[l - 3]
    <3>1. r[1] = h[l] /\ r[2] = h[l - 1] /\ r[3] = h[l - 2] /\ r[4] = h[l - 3]
      <4>1. 1 \in 1..l /\ 2 \in 1..l /\ 3 \in 1..l /\ 4 \in 1..l
        BY <1>7
      <4>2. l - 1 + 1 = l /\ l - 2 + 1 = l - 1 /\ l - 3 + 1 = l - 2 /\ l - 4 + 1 = l - 3
        OBVIOUS
      <4>3. r[1] = h[l - 1 + 1] /\ r[2] = h[l - 2 + 1] /\ r[3] = h[l - 3 + 1] /\ r[4] = h[l - 4 + 1]
        BY <1>2, <4>1
      <4> QED
        BY <4>2, <4>3
    <3> QED
      BY <2>1, <3>1
  <2>3. s = <<LF, CR, LF, CR>> <=> s[1] = LF /\ s[2] = CR /\ s[3] = LF /\ s[4] = CR
    <3>1. s \in Seq(Nat) /\ Len(s) = 4
      BY <2>1
    <3> QED
      BY <1>5, <3>1, FourSymbols
  <2> QED
    BY <2>1, <2>2, <2>3
<1>8. ASSUME l >= 4
      PROVE  SubSeq(h, l - 3, l) = Delimiter
               <=> h[l - 3] = CR /\ h[l - 2] = LF /\ h[l - 1] = CR /\ h[l] = LF
  BY <1>1, <1>8, LastFour
<1> QED
  BY <1>1, <1>4, <1>6, <1>7, <1>8

(* A well-formed header is a request for the path in it. *)
LEMMA WellFormedIsRequest ==
  ASSUME NEW h \in Seq(Nat), WellFormed(h)
  PROVE  /\ Len(h) >= 6 /\ h[1] = Scheme /\ h[2] = Slash
         /\ PathIn(h) \in Seq(Nat) /\ PathIn(h) # NoPath
         /\ Request(PathIn(h)) = h
         /\ DelimitersFrom(0, h) # {}
<1>1. /\ Len(h) >= 5 /\ h[1] = Scheme /\ h[2] = Slash
      /\ SubSeq(h, Len(h) - 3, Len(h)) = Delimiter
  <2>1. /\ Bytes(h) >= 16 /\ h[1] = Scheme /\ h[2] = Slash
        /\ SubSeq(h, Len(h) - 3, Len(h)) = Delimiter
    BY DEF WellFormed
  <2>2. Len(h) \in Nat
    OBVIOUS
  <2> QED
    BY <2>1, <2>2 DEF Bytes
<1>2. Len(h) \in Nat /\ Len(h) >= 6
  <2>1. Len(h) # 5
    <3>1. ASSUME Len(h) = 5 PROVE FALSE
      <4>1. h[Len(h) - 3] = CR
        <5>1. Len(h) \in Nat /\ Len(h) >= 4
          BY <3>1
        <5> QED
          BY <1>1, <5>1, LastFour
      <4>2. Len(h) - 3 = 2
        BY <3>1
      <4>3. h[2] = CR /\ h[2] = Slash
        BY <1>1, <4>1, <4>2, Zenon
      <4> QED
        BY <4>3 DEF CR, Slash
    <3> QED
      BY <3>1
  <2>2. PICK l \in Nat : l = Len(h)
    OBVIOUS
  <2>3. l >= 5 /\ l # 5
    BY <1>1, <2>1, <2>2, Zenon
  <2>4. l >= 6
    BY <2>3
  <2> QED
    BY <2>2, <2>4
<1>3. /\ PathIn(h) \in Seq(Nat) /\ Len(PathIn(h)) = Len(h) - 5
  BY <1>2, PartOf DEF PathIn
<1>4. PathIn(h) # NoPath
  BY <1>2, <1>3 DEF NoPath
<1>5. Request(PathIn(h)) = h
  <2>1. SubSeq(h, 1, 1) = <<Scheme>>
    <3>0. PICK s : s = SubSeq(h, 1, 1)
      OBVIOUS
    <3>1. s = SubSeq(h, 1, 1) /\ s \in Seq(Nat) /\ Len(s) = 1 /\ s[1] = h[1]
      <4>1. 1 \in 0..Len(h)
        BY <1>2
      <4> QED
        BY <3>0, <4>1, CutOff DEF Beginning
    <3>2. <<Scheme>> \in Seq(Nat) /\ Len(<<Scheme>>) = 1 /\ <<Scheme>>[1] = Scheme
      BY DEF Scheme
    <3>3. \A i \in 1..1 : s[i] = <<Scheme>>[i]
      BY <1>1, <3>1, <3>2
    <3> QED
      BY <3>1, <3>2, <3>3, SeqEqual
  <2>2. SubSeq(h, 1, 1) \o SubSeq(h, 2, Len(h) - 4) = SubSeq(h, 1, Len(h) - 4)
    <3>1. 1 \in 1..Len(h) + 1 /\ 1 \in 1 - 1..Len(h) /\ Len(h) - 4 \in 1..Len(h) /\ 1 + 1 = 2
      BY <1>2
    <3> QED
      BY <3>1, ConcatAdjacentSubSeq
  <2>3. SubSeq(h, 1, Len(h) - 4) \o SubSeq(h, Len(h) - 3, Len(h)) = SubSeq(h, 1, Len(h))
    <3>1. /\ 1 \in 1..Len(h) + 1 /\ Len(h) - 4 \in 1 - 1..Len(h)
          /\ Len(h) \in Len(h) - 4..Len(h) /\ Len(h) - 4 + 1 = Len(h) - 3
      BY <1>2
    <3> QED
      BY <3>1, ConcatAdjacentSubSeq
  <2> QED
    BY <1>1, <2>1, <2>2, <2>3, SubSeqFull, Zenon DEF Request, PathIn
<1>6. Len(h) - 4 \in DelimitersFrom(0, h)
  <2>1. Len(h) - 4 \in 0..Len(h) - 4 /\ Len(h) - 4 + 1 = Len(h) - 3 /\ Len(h) - 4 + 4 = Len(h)
    BY <1>2
  <2> QED
    BY <1>1, <2>1 DEF DelimitersFrom
<1> QED
  BY <1>1, <1>2, <1>3, <1>4, <1>5, <1>6

(* The test of the code is the one for requests that fit the buffer. *)
LEMMA AcceptableMeaning ==
  ASSUME NEW h \in Seq(Nat)
  PROVE  Acceptable(h) <=> WellFormed(h) /\ Len(h) < HeaderSize
<1>1. Len(h) \in Nat
  OBVIOUS
<1>2. IsPrefix(<<Scheme, Slash>>, h) <=> Len(h) >= 2 /\ h[1] = Scheme /\ h[2] = Slash
  <2>0. /\ <<Scheme, Slash>> \in Seq(Nat) /\ Len(<<Scheme, Slash>>) = 2
        /\ <<Scheme, Slash>>[1] = Scheme /\ <<Scheme, Slash>>[2] = Slash
    BY DEF Scheme, Slash
  <2>1. SubSeq(<<Scheme, Slash>>, 1, 2) = <<Scheme, Slash>>
    BY <2>0, SubSeqFull
  <2>2. IsPrefix(<<Scheme, Slash>>, h) <=> 2 <= Len(h) /\ <<Scheme, Slash>> = SubSeq(h, 1, 2)
    BY <2>0, <2>1, Zenon DEF IsPrefix
  <2>3. ASSUME 2 <= Len(h)
        PROVE  <<Scheme, Slash>> = SubSeq(h, 1, 2) <=> h[1] = Scheme /\ h[2] = Slash
    <3>0. PICK s : s = SubSeq(h, 1, 2)
      OBVIOUS
    <3>1. /\ s = SubSeq(h, 1, 2) /\ s \in Seq(Nat) /\ Len(s) = 2
          /\ s[1] = h[1] /\ s[2] = h[2]
      <4>1. 2 \in 0..Len(h)
        BY <1>1, <2>3
      <4> QED
        BY <3>0, <4>1, CutOff DEF Beginning
    <3>2. ASSUME h[1] = Scheme, h[2] = Slash PROVE <<Scheme, Slash>> = s
      <4>1. \A i \in 1..2 : s[i] = <<Scheme, Slash>>[i]
        BY <2>0, <3>1, <3>2
      <4> QED
        BY <2>0, <3>1, <4>1, SeqEqual
    <3> QED
      BY <2>0, <3>1, <3>2
  <2> QED
    BY <1>1, <2>2, <2>3
<1>3. IsSuffix(Delimiter, h) <=> Len(h) >= 4 /\ SubSeq(h, Len(h) - 3, Len(h)) = Delimiter
  BY SuffixMeaning
<1>4. WellFormed(h) => Acceptable(h) \/ ~(Len(h) < HeaderSize)
  BY <1>2, <1>3, WellFormedIsRequest DEF Acceptable, WellFormed
<1>5. ASSUME Acceptable(h) PROVE WellFormed(h)
  <2>1. /\ Len(h) >= 4 /\ h[1] = Scheme /\ h[2] = Slash
        /\ SubSeq(h, Len(h) - 3, Len(h)) = Delimiter
    BY <1>2, <1>3, <1>5 DEF Acceptable
  <2>2. Len(h) # 4
    <3>1. ASSUME Len(h) = 4 PROVE FALSE
      <4>1. h[Len(h) - 3] = CR
        BY <1>1, <2>1, LastFour
      <4>2. Len(h) - 3 = 1
        BY <3>1
      <4>3. h[1] = CR /\ h[1] = Scheme
        BY <2>1, <4>1, <4>2, Zenon
      <4> QED
        BY <4>3 DEF CR, Scheme
    <3> QED
      BY <3>1
  <2>3. Bytes(h) >= 16
    <3>1. Bytes(h) = Len(h) + 11
      BY <1>1, <2>1 DEF Bytes
    <3>2. PICK l \in Nat : l = Len(h)
      OBVIOUS
    <3>3. l >= 4 /\ l # 4
      BY <2>1, <2>2, <3>2, Zenon
    <3>4. l + 11 >= 16
      BY <3>3
    <3> QED
      BY <3>1, <3>2, <3>4
  <2> QED
    BY <2>1, <2>3 DEF WellFormed
<1> QED
  BY <1>4, <1>5 DEF Acceptable
----------------------------------------------------------------------------
(* The invariant *)

(* What an action leaves of the streams. *)
LEMMA TakenKept ==
  ASSUME UNCHANGED <<request, incoming>>
  PROVE  /\ \A c \in Conn : Got(c)' = Got(c) /\ Taken(c)' = Taken(c)
         /\ Arriving => Arriving'
  BY DEF Got, Taken, Arriving

(* The loop listens, and nobody has come. *)
LEMMA Initially == Init => IInv
<1> SUFFICES ASSUME Init PROVE IInv
  OBVIOUS
<1> USE DEF Init
<1>1. \A c \in Conn : Got(c) = 0 /\ Taken(c) = << >>
  BY SubSeqEmpty DEF Got, Taken
<1>2. pc = "getaddrinfo"
  BY DEF Socket!Init
<1>3. TypeOK
  <2>1. /\ << >> \in Seq(Conn) /\ << >> \in Seq(Nat)
        /\ pc \in SettingUp \union Serving
    BY <1>2 DEF SettingUp
  <2> QED
    BY <2>1 DEF TypeOK, NoPath
<1>4. Arriving
  <2>1. SubSeq(<< >>, 1, 0) = << >>
    BY SubSeqEmpty
  <2> QED
    BY <1>1, <2>1 DEF Arriving
<1>5. Queue
  BY <1>1 DEF Queue, Untouched
<1>6. Current
  BY <1>2, SizesAssumption DEF Current, Serving
<1>7. Handled /\ Refused /\ LeftOpen /\ Blame
  BY DEF Handled, Refused, LeftOpen, Blame
<1> QED
  BY <1>3, <1>4, <1>5, <1>6, <1>7 DEF IInv

(* Setting the socket up concerns no client. *)
LEMMA SetupStep == ASSUME IInv, Setup PROVE IInv'
<1>1. pc \in SettingUp /\ pc' \in SettingUp
  BY DEF Setup, Socket!Next, Socket!FindAddress, Socket!CreateSocket, Socket!SetOption,
         Socket!Bind, Socket!Listen, SettingUp
<1>2. /\ UNCHANGED <<cur, header, fd, ctx, pending, request, incoming, peer, handled, reply, fault>>
      /\ \A c \in Conn : Got(c)' = Got(c) /\ Taken(c)' = Taken(c)
      /\ Arriving => Arriving'
  BY TakenKept DEF Setup, served, clients
<1>3. TypeOK'
  BY <1>1, <1>2 DEF IInv, TypeOK
<1>4. Queue'
  BY <1>2 DEF IInv, Queue, Untouched, TypeOK
<1>5. Current'
  BY <1>1, <1>2 DEF IInv, Current, Serving, SettingUp
<1>6. Handled' /\ Refused' /\ LeftOpen' /\ Blame'
  BY <1>2 DEF IInv, Handled, Refused, LeftOpen, Blame
<1> QED
  BY <1>2, <1>3, <1>4, <1>5, <1>6 DEF IInv

(* A client that connects has not been looked at. *)
LEMMA ConnectStep ==
  ASSUME IInv, NEW c \in Conn, NEW r \in Requests, ClientConnects(c, r)
  PROVE  IInv'
<1>1. /\ peer[c] = "none" /\ peer' = [peer EXCEPT ![c] = "waiting"]
      /\ request' = [request EXCEPT ![c] = r] /\ incoming' = [incoming EXCEPT ![c] = r]
      /\ pending' = Append(pending, c)
      /\ UNCHANGED <<pc, cur, header, fd, ctx, handled, reply, fault>>
  BY DEF ClientConnects, served
<1>2. r \in Seq(Nat)
  BY SymbolsAssumption
<1>3. TypeOK'
  BY <1>1, <1>2 DEF IInv, TypeOK
<1>4. request'[c] = r /\ incoming'[c] = r /\ Got(c)' = 0 /\ r = SubSeq(r, 1, Len(r))
  <2>1. request'[c] = r /\ incoming'[c] = r
    BY <1>1 DEF IInv, TypeOK
  <2>2. Len(r) - Len(r) = 0
    BY <1>2
  <2> QED
    BY <1>2, <2>1, <2>2, SubSeqFull DEF Got
<1>5. \A d \in Conn \ {c} : /\ request'[d] = request[d] /\ incoming'[d] = incoming[d]
                            /\ Got(d)' = Got(d) /\ Taken(d)' = Taken(d)
  BY <1>1 DEF IInv, TypeOK, Got, Taken
<1>6. Arriving'
  <2>1. /\ Got(c)' \in 0..Len(request'[c])
        /\ incoming'[c] = SubSeq(request'[c], Got(c)' + 1, Len(request'[c]))
    <3>1. 0 \in 0..Len(r) /\ 0 + 1 = 1
      BY <1>2
    <3> QED
      BY <1>4, <3>1, Zenon
  <2>2. \A d \in Conn \ {c} :
          /\ Got(d)' \in 0..Len(request'[d])
          /\ incoming'[d] = SubSeq(request'[d], Got(d)' + 1, Len(request'[d]))
    BY <1>5 DEF IInv, Arriving
  <2> QED
    BY <2>1, <2>2 DEF Arriving
<1>7. Untouched(c) /\ Untouched(c)' /\ peer'[c] = "waiting"
  BY <1>1, <1>4 DEF IInv, TypeOK, Queue, Untouched
<1>8. \A d \in Conn \ {c} : peer'[d] = peer[d] /\ (Untouched(d) => Untouched(d)')
  BY <1>1, <1>5 DEF IInv, TypeOK, Untouched
<1>9. Queue'
  <2>1. PICK n \in Nat : n = Len(pending)
    BY DEF IInv, TypeOK
  <2>2. /\ Len(pending') = n + 1 /\ pending'[n + 1] = c
        /\ \A i \in 1..n : pending'[i] = pending[i] /\ pending[i] \in Conn \ {c}
    BY <1>1, <2>1 DEF IInv, TypeOK, Queue
  <2>3. \A i, j \in 1..n + 1 : pending'[i] = pending'[j] => i = j
    BY <2>1, <2>2 DEF IInv, Queue
  <2>4. \A i \in 1..n + 1, d \in Conn : d = pending'[i] => peer'[d] # "none" /\ Untouched(d)'
    <3>1. \A i \in 1..n, d \in Conn : d = pending'[i] => peer'[d] # "none" /\ Untouched(d)'
      <4>1. \A i \in 1..n : /\ pending'[i] = pending[i] /\ pending[i] \in Conn \ {c}
                            /\ peer[pending[i]] # "none" /\ Untouched(pending[i])
        BY <2>1, <2>2 DEF IInv, Queue
      <4> QED
        BY <1>8, <4>1
    <3>2. \A i \in 1..n + 1 : i \in 1..n \/ i = n + 1
      BY <2>1
    <3> QED
      BY <1>7, <2>2, <3>1, <3>2
  <2>5. \A d \in Conn : peer'[d] = "none" => Untouched(d)'
    BY <1>7, <1>8 DEF IInv, Queue
  <2>6. \A i \in 1..n + 1 : pending'[i] \in Conn
    BY <1>3, <2>2 DEF TypeOK
  <2> QED
    BY <2>2, <2>3, <2>4, <2>5, <2>6 DEF Queue, Untouched
<1>10. Current'
  <2>1. pc \in Serving => cur \in Conn \ {c}
    BY <1>1 DEF IInv, Current
  <2>2. pc \in Serving => Taken(cur)' = Taken(cur) /\ peer'[cur] = peer[cur]
    BY <1>1, <1>5, <1>8, <2>1
  <2> QED
    BY <1>1, <2>1, <2>2 DEF IInv, Current, Serving
<1>11. Handled' /\ Refused'
  BY <1>1, <1>5, <1>7 DEF IInv, Handled, Refused, Untouched
<1>12. LeftOpen' /\ Blame'
  BY <1>1, <1>8 DEF IInv, LeftOpen, Blame
<1> QED
  BY <1>3, <1>6, <1>9, <1>10, <1>11, <1>12 DEF IInv

(* A client that leaves or breaks off takes nothing back that was received. *)
LEMMA LeavingKeeps ==
  ASSUME TypeOK, Arriving, NEW c \in Conn, ClientLeaves(c) \/ ClientResets(c)
  PROVE  /\ request' \in [Conn -> Seq(Nat)] /\ incoming' \in [Conn -> Seq(Nat)]
         /\ \A d \in Conn : Got(d)' = Got(d) /\ Taken(d)' = Taken(d)
         /\ Arriving'
<1>1. CASE UNCHANGED <<request, incoming>>
  BY <1>1, TakenKept DEF TypeOK
<1>2. CASE \E n \in Got(c)..Len(request[c]) :
             /\ request' = [request EXCEPT ![c] = SubSeq(@, 1, n)]
             /\ incoming' = [incoming EXCEPT ![c] = SubSeq(request[c], Got(c) + 1, n)]
  <2>1. PICK n \in Got(c)..Len(request[c]) :
             /\ request' = [request EXCEPT ![c] = SubSeq(@, 1, n)]
             /\ incoming' = [incoming EXCEPT ![c] = SubSeq(request[c], Got(c) + 1, n)]
    BY <1>2
  <2>2. PICK g \in Nat, t \in Seq(Nat) :
          g = Got(c) /\ t = request[c] /\ g <= n /\ n \in 0..Len(t)
    BY DEF TypeOK, Arriving
  <2>3. PICK cut, rest : cut = SubSeq(t, 1, n) /\ rest = SubSeq(t, g + 1, n)
    OBVIOUS
  <2>4. cut \in Seq(Nat) /\ Len(cut) = n /\ Beginning(cut, t)
    BY <2>2, <2>3, CutOff
  <2>5. rest \in Seq(Nat) /\ Len(rest) = n - g
    <3>1. g + 1 \in Nat \ {0} /\ g + 1 <= n + 1 /\ n - (g + 1) + 1 = n - g
      BY <2>2
    <3> QED
      BY <2>2, <2>3, <3>1, PartOf
  <2>6. rest = SubSeq(cut, g + 1, n) /\ SubSeq(cut, 1, g) = SubSeq(t, 1, g)
    <3>1. /\ 1 \in Nat \ {0} /\ g + 1 \in Nat \ {0} /\ g \in 0..n /\ n \in 0..n
          /\ 1 <= g + 1 /\ g + 1 <= n + 1
      BY <2>2
    <3>2. rest = SubSeq(cut, g + 1, n)
      BY <2>3, <2>4, <3>1, SamePart
    <3>3. SubSeq(cut, 1, g) = SubSeq(t, 1, g)
      BY <2>4, <3>1, SamePart
    <3> QED
      BY <3>2, <3>3
  <2>7. request' = [request EXCEPT ![c] = cut] /\ incoming' = [incoming EXCEPT ![c] = rest]
    BY <2>1, <2>2, <2>3, Zenon
  <2>8. request'[c] = cut /\ incoming'[c] = rest
    BY <2>7 DEF TypeOK
  <2>9. Got(c)' = g
    <3>1. Got(c)' = Len(request'[c]) - Len(incoming'[c])
      BY DEF Got
    <3>2. n - (n - g) = g
      BY <2>2
    <3> QED
      BY <2>4, <2>5, <2>8, <3>1, <3>2, Zenon
  <2>10. Taken(c)' = Taken(c)
    <3>1. Taken(c)' = SubSeq(request'[c], 1, Got(c)')
      BY DEF Taken
    <3> QED
      BY <2>2, <2>6, <2>8, <2>9, <3>1, Zenon DEF Taken
  <2>11. \A d \in Conn \ {c} : /\ request'[d] = request[d] /\ incoming'[d] = incoming[d]
                               /\ Got(d)' = Got(d) /\ Taken(d)' = Taken(d)
    BY <2>7 DEF TypeOK, Got, Taken
  <2>12. /\ Got(c)' \in 0..Len(request'[c])
         /\ incoming'[c] = SubSeq(request'[c], Got(c)' + 1, Len(request'[c]))
    <3>1. g \in 0..n
      BY <2>2
    <3> QED
      BY <2>4, <2>6, <2>8, <2>9, <3>1, Zenon
  <2>13. Arriving'
    BY <2>11, <2>12 DEF Arriving
  <2> QED
    BY <2>2, <2>4, <2>5, <2>7, <2>9, <2>10, <2>11, <2>13 DEF TypeOK
<1> QED
  BY <1>1, <1>2 DEF ClientLeaves, ClientResets, Got

(* A client that leaves is judged by what was received from it. *)
LEMMA LeaveStep ==
  ASSUME IInv, NEW c \in Conn, ClientLeaves(c) \/ ClientResets(c)
  PROVE  IInv'
<1>1. /\ peer[c] = "waiting"
      /\ UNCHANGED <<pc, cur, pending, header, fd, ctx, handled, reply, fault>>
      /\ \E p \in {"left", "reset"} : peer' = [peer EXCEPT ![c] = p]
  BY DEF ClientLeaves, ClientResets, served
<1>2. /\ request' \in [Conn -> Seq(Nat)] /\ incoming' \in [Conn -> Seq(Nat)]
      /\ \A d \in Conn : Got(d)' = Got(d) /\ Taken(d)' = Taken(d)
      /\ Arriving'
  BY LeavingKeeps DEF IInv
<1>3. TypeOK'
  <2>1. peer' \in [Conn -> {"none", "waiting", "left", "reset"}]
    BY <1>1 DEF IInv, TypeOK
  <2> QED
    BY <1>1, <1>2, <2>1 DEF IInv, TypeOK
<1>4. /\ peer'[c] \in {"left", "reset"}
      /\ \A d \in Conn \ {c} : peer'[d] = peer[d]
  BY <1>1 DEF IInv, TypeOK
<1>5. \A d \in Conn : Untouched(d) => Untouched(d)'
  BY <1>1, <1>2 DEF Untouched
<1>6. Queue'
  <2>1. \A i \in 1..Len(pending) : pending[i] \in Conn
    BY DEF IInv, TypeOK
  <2>2. \A d \in Conn : peer[d] # "none" => peer'[d] # "none"
    BY <1>4
  <2>3. \A d \in Conn : peer'[d] = "none" => peer[d] = "none"
    BY <1>4
  <2> QED
    BY <1>1, <1>5, <2>1, <2>2, <2>3 DEF IInv, Queue
<1>7. Current'
  <2>1. \A d \in Conn : /\ peer[d] # "none" => peer'[d] # "none"
                        /\ peer[d] # "waiting" => peer'[d] # "waiting"
                        /\ peer[d] = "reset" => peer'[d] = "reset"
    BY <1>1, <1>4
  <2> QED
    BY <1>1, <1>2, <2>1 DEF IInv, Current, Serving
<1>8. Handled' /\ Refused'
  BY <1>1, <1>2 DEF IInv, Handled, Refused
<1>9. LeftOpen' /\ Blame'
  BY <1>1, <1>4 DEF IInv, LeftOpen, Blame
<1> QED
  BY <1>2, <1>3, <1>6, <1>7, <1>8, <1>9 DEF IInv

(* The first connection in the queue has not been looked at, and the header
   buffer begins empty. *)
LEMMA AcceptStep == ASSUME IInv, Accept PROVE IInv'
<1>1. /\ pc = "listening" /\ pending # << >>
      /\ cur' = Head(pending) /\ pending' = Tail(pending)
      /\ fd' = [fd EXCEPT ![cur'] = "open"] /\ ctx' = [ctx EXCEPT ![cur'] = "live"]
      /\ header' = << >> /\ pc' = "receive"
      /\ UNCHANGED <<request, incoming, peer, handled, reply, fault>>
  BY DEF Accept
<1>2. PICK n \in Nat \ {0} : n = Len(pending)
  BY <1>1 DEF IInv, TypeOK
<1>3. /\ pending[1] = cur' /\ Len(pending') = n - 1 /\ pending' \in Seq(Conn)
      /\ \A i \in 1..n - 1 : pending'[i] = pending[i + 1]
      /\ \A i \in 1..n : pending[i] \in Conn
  BY <1>1, <1>2 DEF IInv, TypeOK
<1>4. PICK c \in Conn : c = cur' /\ c = pending[1]
  BY <1>2, <1>3
<1>5. Untouched(c) /\ peer[c] # "none"
  BY <1>2, <1>4 DEF IInv, Queue
<1>6. /\ \A d \in Conn : Got(d)' = Got(d) /\ Taken(d)' = Taken(d)
      /\ Arriving'
  BY <1>1, TakenKept DEF IInv
<1>7. Taken(c) = << >>
  <2>1. Taken(c) = SubSeq(request[c], 1, 0)
    BY <1>5 DEF Taken, Untouched
  <2> QED
    BY <2>1, SubSeqEmpty
<1>8. TypeOK'
  <2>1. header' \in Seq(Nat)
    BY <1>1
  <2> QED
    BY <1>1, <1>3, <1>4, <2>1 DEF IInv, TypeOK, Serving
<1>9. /\ fd'[c] = "open" /\ ctx'[c] = "live"
      /\ \A d \in Conn \ {c} : /\ fd'[d] = fd[d] /\ ctx'[d] = ctx[d]
                               /\ Untouched(d) => Untouched(d)'
  BY <1>1, <1>4, <1>6 DEF IInv, TypeOK, Untouched
<1>10. Queue'
  <2>1. \A i, j \in 1..n - 1 : pending'[i] = pending'[j] => i = j
    <3> SUFFICES ASSUME NEW i \in 1..n - 1, NEW j \in 1..n - 1, pending'[i] = pending'[j]
                 PROVE  i = j
      OBVIOUS
    <3>1. i + 1 \in 1..n /\ j + 1 \in 1..n /\ pending[i + 1] = pending[j + 1]
      BY <1>3
    <3>2. i + 1 = j + 1
      BY <1>2, <3>1 DEF IInv, Queue
    <3> QED
      BY <3>2
  <2>2. \A i \in 1..n - 1 : /\ pending'[i] \in Conn \ {c} /\ peer'[pending'[i]] # "none"
                            /\ Untouched(pending[i + 1])
    <3> SUFFICES ASSUME NEW i \in 1..n - 1
                 PROVE  /\ pending'[i] \in Conn \ {c} /\ peer'[pending'[i]] # "none"
                        /\ Untouched(pending[i + 1])
      OBVIOUS
    <3>1. i + 1 \in 1..n /\ 1 \in 1..n /\ i + 1 # 1
      BY <1>2
    <3>2. pending[i + 1] # pending[1]
      BY <1>2, <3>1 DEF IInv, Queue
    <3>3. peer[pending[i + 1]] # "none" /\ Untouched(pending[i + 1])
      BY <1>2, <3>1 DEF IInv, Queue
    <3> QED
      BY <1>1, <1>3, <1>4, <3>1, <3>2, <3>3
  <2>3. \A i \in 1..n - 1, d \in Conn : d = pending'[i] => Untouched(d)'
    BY <1>3, <1>9, <2>2
  <2>4. \A d \in Conn : peer'[d] = "none" => Untouched(d)'
    BY <1>1, <1>5, <1>9 DEF IInv, Queue
  <2> QED
    BY <1>3, <2>1, <2>2, <2>3, <2>4 DEF Queue, Untouched
<1>11. Current'
  <2>1. /\ reply'[c] = "none" /\ handled'[c] = NoPath /\ header' = Taken(c)'
    BY <1>1, <1>5, <1>6, <1>7 DEF Untouched
  <2>2. DelimitersFrom(0, header') = {} /\ Len(header') = 0
    BY <1>1 DEF DelimitersFrom
  <2>3. Len(header') < HeaderSize
    BY <2>2, SizesAssumption
  <2> QED
    BY <1>1, <1>4, <1>5, <1>9, <2>1, <2>2, <2>3 DEF Current, Serving
<1>12. Handled' /\ Refused'
  BY <1>1, <1>6 DEF IInv, Handled, Refused
<1>13. LeftOpen'
  <2>1. cur = NoConn
    BY <1>1 DEF IInv, Current, Serving
  <2> QED
    BY <1>1, <1>4, <1>9, <2>1, ConnAssumption DEF IInv, LeftOpen
<1>14. Blame'
  BY <1>1, <1>4, <1>5, <1>9 DEF IInv, Blame, Untouched
<1> QED
  BY <1>6, <1>8, <1>10, <1>11, <1>12, <1>13, <1>14 DEF IInv

(* Receiving goes on with the same connection, and the search begins early
   enough. *)
LEMMA ReceiveStep == ASSUME IInv, Receive PROVE IInv'
<1>1. /\ pc = "receive" /\ peer[cur] # "reset"
      /\ UNCHANGED <<cur, fd, ctx, pending, request, peer, handled, reply, fault>>
  BY DEF Receive, served
<1>2. PICK n \in 1..Len(incoming[cur]) :
        /\ n <= HeaderSize - Len(header) - 1
        /\ incoming' = [incoming EXCEPT ![cur] = SubSeq(@, n + 1, Len(@))]
        /\ header' = header \o SubSeq(incoming[cur], 1, n)
        /\ pc' = IF DelimitersFrom(ScanStart(Len(header'), n), header') = {}
                   THEN "receive" ELSE "check"
  BY DEF Receive, Received
<1>3. /\ cur \in Conn /\ header = Taken(cur) /\ fd[cur] = "open" /\ ctx[cur] = "live"
      /\ handled[cur] = NoPath /\ reply[cur] = "none" /\ peer[cur] # "none"
      /\ DelimitersFrom(0, header) = {} /\ header \in Seq(Nat)
  BY <1>1 DEF IInv, Current, Serving, TypeOK
<1>4. PICK g \in Nat, t \in Seq(Nat), rest \in Seq(Nat) :
        /\ g = Got(cur) /\ t = request[cur] /\ rest = incoming[cur]
        /\ g \in 0..Len(t) /\ rest = SubSeq(t, g + 1, Len(t))
  <2>1. /\ request[cur] \in Seq(Nat) /\ incoming[cur] \in Seq(Nat)
        /\ Got(cur) \in 0..Len(request[cur])
        /\ incoming[cur] = SubSeq(request[cur], Got(cur) + 1, Len(request[cur]))
    BY <1>3 DEF IInv, TypeOK, Arriving
  <2>2. PICK g, t, rest : g = Got(cur) /\ t = request[cur] /\ rest = incoming[cur]
    OBVIOUS
  <2>3. /\ t \in Seq(Nat) /\ rest \in Seq(Nat) /\ g \in 0..Len(t)
        /\ rest = SubSeq(t, g + 1, Len(t))
    BY <2>1, <2>2, Zenon
  <2>4. g \in Nat
    BY <2>3
  <2> QED
    BY <2>2, <2>3, <2>4, Zenon
<1>5. Len(rest) = Len(t) - g
  <2>1. g = Len(t) - Len(rest)
    BY <1>4, Zenon DEF Got
  <2> QED
    BY <2>1
<1>6. n \in 0..Len(t) - g /\ g + n \in 0..Len(t) /\ 1 \in 1..g + 1 /\ n \in Nat \ {0}
  <2>1. n \in 1..Len(rest) /\ g \in 0..Len(t)
    BY <1>2, <1>4, Zenon
  <2> QED
    BY <1>5, <2>1
<1>7. /\ header' = SubSeq(t, 1, g + n)
      /\ incoming'[cur] = SubSeq(t, g + n + 1, Len(t))
      /\ Len(incoming'[cur]) = Len(t) - (g + n) /\ incoming'[cur] \in Seq(Nat)
  <2>1. incoming'[cur] = SubSeq(rest, n + 1, Len(rest))
    BY <1>2, <1>3, <1>4 DEF IInv, TypeOK
  <2>2. /\ SubSeq(t, 1, g) \o SubSeq(rest, 1, n) = SubSeq(t, 1, g + n)
        /\ SubSeq(rest, n + 1, Len(rest)) = SubSeq(t, g + n + 1, Len(t))
        /\ Len(SubSeq(rest, n + 1, Len(rest))) = Len(t) - (g + n)
        /\ SubSeq(rest, n + 1, Len(rest)) \in Seq(Nat)
    <3>1. /\ t \in Seq(Nat) /\ g \in 0..Len(t) /\ rest = SubSeq(t, g + 1, Len(t))
          /\ n \in 0..Len(t) - g
      BY <1>4, <1>6
    <3>2. \A r : r = SubSeq(t, g + 1, Len(t)) =>
            /\ SubSeq(t, 1, g) \o SubSeq(r, 1, n) = SubSeq(t, 1, g + n)
            /\ SubSeq(r, n + 1, Len(r)) = SubSeq(t, g + n + 1, Len(t))
            /\ Len(SubSeq(r, n + 1, Len(r))) = Len(t) - (g + n)
            /\ SubSeq(r, n + 1, Len(r)) \in Seq(Nat)
      BY <3>1, BeginningGrows
    <3> QED
      BY <3>1, <3>2, Zenon
  <2>3. header' = SubSeq(t, 1, g) \o SubSeq(rest, 1, n)
    BY <1>2, <1>3, <1>4, Zenon DEF Taken
  <2> QED
    BY <2>1, <2>2, <2>3, Zenon
<1>8. Got(cur)' = g + n /\ Taken(cur)' = header'
  <2>1. Got(cur)' = Len(t) - (Len(t) - (g + n))
    BY <1>1, <1>4, <1>7, Zenon DEF Got
  <2>2. Got(cur)' = g + n
    BY <1>6, <2>1
  <2> QED
    BY <1>1, <1>4, <1>7, <2>2, Zenon DEF Taken
<1>9. \A d \in Conn \ {cur} : /\ incoming'[d] = incoming[d] /\ request'[d] = request[d]
                              /\ Got(d)' = Got(d) /\ Taken(d)' = Taken(d)
  BY <1>1, <1>2 DEF IInv, TypeOK, Got, Taken
<1>10. /\ header \in Seq(Nat) /\ header' \in Seq(Nat)
       /\ Len(header) = g /\ Len(header') = g + n
       /\ Beginning(header, t) /\ Beginning(header', t)
  <2>1. PICK h, h2 : h = SubSeq(t, 1, g) /\ h2 = SubSeq(t, 1, g + n)
    OBVIOUS
  <2>2. /\ h \in Seq(Nat) /\ Len(h) = g /\ Beginning(h, t)
        /\ h2 \in Seq(Nat) /\ Len(h2) = g + n /\ Beginning(h2, t)
    BY <1>4, <1>6, <2>1, CutOff
  <2>3. h = header /\ h2 = header'
    BY <1>3, <1>4, <1>7, <2>1, Zenon DEF Taken
  <2> QED
    BY <2>2, <2>3, Zenon
<1>11. /\ pc' = IF DelimitersFrom(0, header') = {} THEN "receive" ELSE "check"
       /\ Len(header') < HeaderSize
  <2>1. Beginning(header, header')
    <3>1. Len(header) <= Len(header')
      BY <1>6, <1>10
    <3> QED
      BY <1>10, <3>1, ShorterBeginning
  <2>2. Len(header') = Len(header) + n
    BY <1>10
  <2>3. DelimitersFrom(ScanStart(Len(header'), n), header') = DelimitersFrom(0, header')
    BY <1>3, <1>6, <2>1, <2>2, NothingMissed
  <2>4. g + n < HeaderSize
    <3>1. n <= HeaderSize - g - 1
      BY <1>2, <1>10
    <3> QED
      BY <1>6, <3>1, SizesAssumption
  <2> QED
    BY <1>2, <1>10, <2>3, <2>4
<1>12. TypeOK'
  <2>1. incoming' \in [Conn -> Seq(Nat)]
    BY <1>2, <1>3, <1>7 DEF IInv, TypeOK
  <2>2. pc' \in Serving
    BY <1>11 DEF Serving
  <2> QED
    BY <1>1, <1>10, <2>1, <2>2 DEF IInv, TypeOK
<1>13. Arriving'
  <2>1. /\ Got(cur)' \in 0..Len(request'[cur])
        /\ incoming'[cur] = SubSeq(request'[cur], Got(cur)' + 1, Len(request'[cur]))
    BY <1>1, <1>4, <1>6, <1>7, <1>8, Zenon
  <2> QED
    BY <1>1, <1>9, <2>1 DEF IInv, Arriving
<1>14. Queue'
  <2>1. \A d \in Conn : Untouched(d) => d # cur /\ Untouched(d)'
    BY <1>1, <1>3, <1>9 DEF Untouched
  <2>2. \A i \in 1..Len(pending) : pending[i] \in Conn
    BY DEF IInv, TypeOK
  <2> QED
    BY <1>1, <2>1, <2>2 DEF IInv, Queue
<1>15. Current'
  BY <1>1, <1>3, <1>8, <1>11 DEF IInv, Current, Serving
<1>16. Handled' /\ Refused'
  BY <1>1, <1>3, <1>9 DEF IInv, Handled, Refused
<1>17. LeftOpen' /\ Blame'
  BY <1>1 DEF IInv, LeftOpen, Blame
<1> QED
  BY <1>12, <1>13, <1>14, <1>15, <1>16, <1>17 DEF IInv

(* Nothing more is received once the peer is done or the buffer is full. *)
LEMMA ReceiveEndsStep == ASSUME IInv, ReceiveEnds \/ ReceiveFails PROVE IInv'
<1>1. /\ pc = "receive" /\ pc' = "check"
      /\ UNCHANGED <<cur, header, pending, request, incoming, peer, handled, reply, fault>>
  BY DEF ReceiveEnds, ReceiveFails, served, clients
<1>2. /\ cur \in Conn /\ fd[cur] = "open" /\ ctx[cur] = "live" /\ handled[cur] = NoPath
  BY <1>1 DEF IInv, Current, Serving
<1>3. \/ /\ UNCHANGED <<fd, ctx>>
         /\ peer[cur] = "left" \/ Len(header) = HeaderSize - 1
      \/ /\ fd' = [fd EXCEPT ![cur] = "closed"] /\ ctx' = [ctx EXCEPT ![cur] = "freed"]
         /\ peer[cur] = "reset"
  BY DEF ReceiveEnds, ReceiveFails, served
<1>4. /\ \A d \in Conn : Got(d)' = Got(d) /\ Taken(d)' = Taken(d)
      /\ Arriving'
  BY <1>1, TakenKept DEF IInv
<1>5. TypeOK'
  <2>1. fd' \in [Conn -> {"none", "open", "closed"}] /\ ctx' \in [Conn -> {"none", "live", "freed"}]
    BY <1>3 DEF IInv, TypeOK
  <2> QED
    BY <1>1, <2>1 DEF IInv, TypeOK, Serving
<1>6. /\ \A d \in Conn \ {cur} : fd'[d] = fd[d] /\ ctx'[d] = ctx[d]
      /\ \/ fd'[cur] = fd[cur] /\ ctx'[cur] = ctx[cur]
         \/ fd'[cur] = "closed" /\ ctx'[cur] = "freed"
  BY <1>3 DEF IInv, TypeOK
<1>7. Queue'
  <2>1. \A d \in Conn : Untouched(d) => Untouched(d)'
    BY <1>1, <1>2, <1>4, <1>6 DEF Untouched
  <2>2. \A i \in 1..Len(pending) : pending[i] \in Conn
    BY DEF IInv, TypeOK
  <2> QED
    BY <1>1, <2>1, <2>2 DEF IInv, Queue
<1>8. Current'
  <2>1. \/ fd'[cur] = "open" /\ ctx'[cur] = "live" /\ (peer[cur] = "left" \/ Len(header) = HeaderSize - 1)
        \/ fd'[cur] = "closed" /\ ctx'[cur] = "freed" /\ peer[cur] = "reset"
    BY <1>2, <1>3 DEF IInv, TypeOK
  <2>2. pc \in Serving /\ pc' \in Serving
    BY <1>1 DEF Serving
  <2> QED
    BY <1>1, <1>2, <1>4, <2>1, <2>2 DEF IInv, Current
<1>9. Handled' /\ Refused'
  BY <1>1, <1>4 DEF IInv, Handled, Refused
<1>10. LeftOpen'
  BY <1>1, <1>6 DEF IInv, LeftOpen
<1>11. Blame'
  <2>1. \A d \in Conn : ctx[d] = "freed" => ctx'[d] = "freed"
    BY <1>2, <1>6
  <2> QED
    BY <1>1, <2>1 DEF IInv, Blame
<1> QED
  BY <1>4, <1>5, <1>7, <1>8, <1>9, <1>10, <1>11 DEF IInv

(* What Send does to the replies. *)
LEMMA Sends ==
  ASSUME TypeOK, cur \in Conn, NEW what \in {"INVALID", "answer"}, Send(what)
  PROVE  /\ reply' \in [Conn -> {"none", "INVALID", "answer"}]
         /\ \A d \in Conn \ {cur} : reply'[d] = reply[d]
         /\ \/ reply'[cur] = reply[cur]
            \/ reply'[cur] = what /\ peer[cur] = "waiting"
<1>1. CASE UNCHANGED reply
  BY <1>1 DEF TypeOK
<1>2. CASE reply' = [reply EXCEPT ![cur] = what] /\ peer[cur] = "waiting"
  BY <1>2 DEF TypeOK
<1> QED
  BY <1>1, <1>2 DEF Send

(* A header that is not well formed is answered when it is at its end. *)
LEMMA RefuseStep == ASSUME IInv, Refuse PROVE IInv'
<1>1. /\ pc = "check" /\ ~WellFormed(header) /\ ctx[cur] = "live" /\ Send("INVALID")
      /\ fd' = [fd EXCEPT ![cur] = "closed"] /\ ctx' = [ctx EXCEPT ![cur] = "freed"]
      /\ pc' = "listening" /\ cur' = NoConn
      /\ UNCHANGED <<header, pending, request, incoming, peer, handled, fault>>
  BY DEF Refuse, Discard, clients
<1>2. /\ cur \in Conn /\ header = Taken(cur) /\ fd[cur] = "open" /\ reply[cur] = "none"
      /\ \/ DelimitersFrom(0, header) # {} \/ Len(header) = HeaderSize - 1
         \/ peer[cur] # "waiting"
  BY <1>1 DEF IInv, Current, Serving
<1>3. /\ reply' \in [Conn -> {"none", "INVALID", "answer"}]
      /\ \A d \in Conn \ {cur} : reply'[d] = reply[d]
      /\ \/ reply'[cur] = "none"
         \/ reply'[cur] = "INVALID" /\ peer[cur] = "waiting"
  BY <1>1, <1>2, Sends DEF IInv
<1>4. /\ \A d \in Conn : Got(d)' = Got(d) /\ Taken(d)' = Taken(d)
      /\ Arriving'
  BY <1>1, TakenKept DEF IInv
<1>5. TypeOK'
  BY <1>1, <1>3 DEF IInv, TypeOK, SettingUp
<1>6. /\ \A d \in Conn \ {cur} : fd'[d] = fd[d] /\ ctx'[d] = ctx[d]
      /\ fd'[cur] = "closed" /\ ctx'[cur] = "freed"
  BY <1>1, <1>2 DEF IInv, TypeOK
<1>7. Queue'
  <2>1. \A d \in Conn : Untouched(d) => Untouched(d)'
    BY <1>1, <1>2, <1>3, <1>4, <1>6 DEF Untouched
  <2>2. \A i \in 1..Len(pending) : pending[i] \in Conn
    BY DEF IInv, TypeOK
  <2> QED
    BY <1>1, <2>1, <2>2 DEF IInv, Queue
<1>8. Current'
  BY <1>1 DEF IInv, Current, Serving
<1>9. Handled'
  BY <1>1, <1>4 DEF IInv, Handled
<1>10. Refused'
  BY <1>1, <1>2, <1>3, <1>4 DEF IInv, Refused
<1>11. LeftOpen' /\ Blame'
  BY <1>1, <1>2, <1>6 DEF IInv, LeftOpen, Blame
<1> QED
  BY <1>4, <1>5, <1>7, <1>8, <1>9, <1>10, <1>11 DEF IInv

(* The use of a freed context follows a connection that broke, and spares
   what waits to be accepted. *)
LEMMA RefuseFreedStep == ASSUME IInv, RefuseFreed PROVE IInv'
<1>1. /\ pc = "check" /\ ctx[cur] = "freed" /\ fault' = TRUE
      /\ pc' = "listening" /\ cur' = NoConn
      /\ UNCHANGED <<ctx, header, pending, request, incoming, peer, handled>>
  BY DEF RefuseFreed, clients
<1>2. /\ cur \in Conn /\ fd[cur] = "closed" /\ peer[cur] = "reset"
  BY <1>1 DEF IInv, Current, Serving
<1>3. /\ fd' \in [Conn -> {"none", "open", "closed"}]
      /\ reply' \in [Conn -> {"none", "INVALID", "answer"}]
      /\ \A d \in Conn : \/ fd'[d] = fd[d] /\ reply'[d] = reply[d]
                         \/ fd[d] = "open" /\ fd'[d] = "closed"
  <2>1. CASE UNCHANGED <<fd, reply>>
    BY <2>1 DEF IInv, TypeOK
  <2>2. CASE \E d \in Conn :
               /\ fd[d] = "open" /\ fd' = [fd EXCEPT ![d] = "closed"]
               /\ reply' = IF peer[d] = "waiting"
                             THEN [reply EXCEPT ![d] = "INVALID"] ELSE reply
    BY <2>2 DEF IInv, TypeOK
  <2> QED
    BY <2>1, <2>2 DEF RefuseFreed
<1>4. /\ \A d \in Conn : Got(d)' = Got(d) /\ Taken(d)' = Taken(d)
      /\ Arriving'
  BY <1>1, TakenKept DEF IInv
<1>5. TypeOK'
  BY <1>1, <1>3 DEF IInv, TypeOK, SettingUp
<1>6. Queue'
  <2>1. \A d \in Conn : Untouched(d) => Untouched(d)'
    BY <1>1, <1>3, <1>4 DEF Untouched
  <2>2. \A i \in 1..Len(pending) : pending[i] \in Conn
    BY DEF IInv, TypeOK
  <2> QED
    BY <1>1, <2>1, <2>2 DEF IInv, Queue
<1>7. Current'
  BY <1>1 DEF IInv, Current, Serving
<1>8. Handled' /\ Refused'
  BY <1>1, <1>4 DEF IInv, Handled, Refused
<1>9. LeftOpen'
  BY <1>1, <1>2, <1>3 DEF IInv, LeftOpen
<1>10. Blame'
  BY <1>1, <1>2 DEF Blame
<1> QED
  BY <1>4, <1>5, <1>6, <1>7, <1>8, <1>9, <1>10 DEF IInv

(* The handler is called with what was received. *)
LEMMA CallHandlerStep == ASSUME IInv, CallHandler PROVE IInv'
<1>1. /\ pc = "check" /\ WellFormed(header) /\ pc' = "handler"
      /\ handled' = [handled EXCEPT ![cur] = PathIn(header)]
      /\ UNCHANGED <<cur, header, fd, ctx, pending, request, incoming, peer, reply, fault>>
  BY DEF CallHandler, served, clients
<1>2. /\ cur \in Conn /\ header = Taken(cur) /\ header \in Seq(Nat)
      /\ Len(header) < HeaderSize
  BY <1>1 DEF IInv, Current, Serving, TypeOK
<1>3. /\ PathIn(header) \in Seq(Nat) /\ PathIn(header) # NoPath
      /\ Request(PathIn(header)) = header /\ DelimitersFrom(0, header) # {}
  BY <1>1, <1>2, WellFormedIsRequest
<1>4. fd[cur] = "open" /\ ctx[cur] = "live"
  BY <1>1, <1>3 DEF IInv, Current, Serving
<1>5. /\ \A d \in Conn : Got(d)' = Got(d) /\ Taken(d)' = Taken(d)
      /\ Arriving'
  BY <1>1, TakenKept DEF IInv
<1>6. /\ handled' \in [Conn -> Seq(Nat)] /\ handled'[cur] = PathIn(header)
      /\ \A d \in Conn \ {cur} : handled'[d] = handled[d]
  BY <1>1, <1>2, <1>3 DEF IInv, TypeOK
<1>7. TypeOK'
  BY <1>1, <1>6 DEF IInv, TypeOK, Serving
<1>8. Queue'
  <2>1. \A d \in Conn : Untouched(d) => Untouched(d)'
    BY <1>1, <1>4, <1>5, <1>6 DEF Untouched
  <2>2. \A i \in 1..Len(pending) : pending[i] \in Conn
    BY DEF IInv, TypeOK
  <2> QED
    BY <1>1, <2>1, <2>2 DEF IInv, Queue
<1>9. Current'
  <2>1. pc \in Serving /\ pc' \in Serving
    BY <1>1 DEF Serving
  <2> QED
    BY <1>1, <1>2, <1>3, <1>4, <1>5, <1>6, <2>1 DEF IInv, Current
<1>10. Handled'
  BY <1>1, <1>2, <1>3, <1>5, <1>6 DEF IInv, Handled
<1>11. Refused' /\ Blame'
  BY <1>1, <1>5 DEF IInv, Refused, Blame
<1>12. LeftOpen'
  BY <1>1, <1>6 DEF IInv, LeftOpen
<1> QED
  BY <1>5, <1>7, <1>8, <1>9, <1>10, <1>11, <1>12 DEF IInv

(* What the handler leaves open is of the connection it was called for. *)
LEMMA HandlerReturnsStep == ASSUME IInv, HandlerReturns PROVE IInv'
<1>1. /\ pc = "handler" /\ pc' = "listening" /\ cur' = NoConn
      /\ UNCHANGED <<header, pending, request, incoming, peer, handled, fault>>
  BY DEF HandlerReturns, clients
<1>2. /\ cur \in Conn /\ fd[cur] = "open" /\ ctx[cur] = "live" /\ handled[cur] # NoPath
      /\ reply[cur] = "none"
  BY <1>1 DEF IInv, Current, Serving
<1>3. /\ reply' \in [Conn -> {"none", "INVALID", "answer"}]
      /\ \A d \in Conn \ {cur} : reply'[d] = reply[d]
      /\ reply'[cur] # "INVALID"
      /\ fd' \in [Conn -> {"none", "open", "closed"}] /\ ctx' \in [Conn -> {"none", "live", "freed"}]
      /\ \A d \in Conn \ {cur} : fd'[d] = fd[d] /\ ctx'[d] = ctx[d]
  <2>1. CASE Send("answer") /\ UNCHANGED <<fd, ctx>>
    <3>1. /\ reply' \in [Conn -> {"none", "INVALID", "answer"}]
          /\ \A d \in Conn \ {cur} : reply'[d] = reply[d]
          /\ reply'[cur] = reply[cur] \/ reply'[cur] = "answer"
      BY <1>2, <2>1, Sends DEF IInv
    <3> QED
      BY <1>2, <2>1, <3>1 DEF IInv, TypeOK
  <2>2. CASE Discard /\ UNCHANGED reply
    BY <1>2, <2>2 DEF IInv, TypeOK, Discard
  <2> QED
    BY <2>1, <2>2 DEF HandlerReturns, served
<1>4. /\ \A d \in Conn : Got(d)' = Got(d) /\ Taken(d)' = Taken(d)
      /\ Arriving'
  BY <1>1, TakenKept DEF IInv
<1>5. TypeOK'
  BY <1>1, <1>3 DEF IInv, TypeOK, SettingUp
<1>6. Queue'
  <2>1. \A d \in Conn : Untouched(d) => Untouched(d)'
    BY <1>1, <1>2, <1>3, <1>4 DEF Untouched
  <2>2. \A i \in 1..Len(pending) : pending[i] \in Conn
    BY DEF IInv, TypeOK
  <2> QED
    BY <1>1, <2>1, <2>2 DEF IInv, Queue
<1>7. Current'
  BY <1>1 DEF IInv, Current, Serving
<1>8. Handled' /\ Refused'
  BY <1>1, <1>3, <1>4 DEF IInv, Handled, Refused
<1>9. LeftOpen' /\ Blame'
  <2>1. LeftOpen'
    BY <1>1, <1>2, <1>3 DEF IInv, LeftOpen
  <2>2. \A d \in Conn : ctx[d] = "freed" => ctx'[d] = "freed"
    BY <1>2, <1>3
  <2> QED
    BY <1>1, <2>1, <2>2 DEF IInv, Blame
<1> QED
  BY <1>4, <1>5, <1>6, <1>7, <1>8, <1>9 DEF IInv

(* The invariant holds throughout. *)
LEMMA Invariance == Spec => []IInv
<1>1. IInv /\ [Next]_vars => IInv'
  <2> SUFFICES ASSUME IInv, [Next]_vars PROVE IInv'
    OBVIOUS
  <2>1. CASE UNCHANGED vars
    <3>1. UNCHANGED <<pc, cur, header, fd, ctx, pending, request, incoming, peer, handled,
                      reply, fault>>
      BY <2>1 DEF vars, served, clients
    <3>2. Arriving'
      BY <3>1, TakenKept DEF IInv
    <3>3. Queue' /\ Current'
      BY <3>1, TakenKept DEF IInv, Queue, Current, Untouched, Got, Taken
    <3>4. Handled' /\ Refused' /\ LeftOpen' /\ Blame'
      BY <3>1 DEF IInv, Handled, Refused, LeftOpen, Blame, Got, Taken
    <3>5. TypeOK'
      BY <3>1 DEF IInv, TypeOK
    <3> QED
      BY <3>2, <3>3, <3>4, <3>5 DEF IInv
  <2>2. CASE Next
    BY <2>2, SetupStep, AcceptStep, ReceiveStep, ReceiveEndsStep, RefuseStep, RefuseFreedStep,
       CallHandlerStep, HandlerReturnsStep, ConnectStep, LeaveStep DEF Next, Serve
  <2> QED
    BY <2>1, <2>2
<1> QED
  BY Initially, <1>1, PTL DEF Spec
----------------------------------------------------------------------------

(* Requests are judged by their whole text, however they arrive: what is
   handled is well formed, fits the buffer and is the beginning of what the
   client sent; what is refused would not have been acceptable. *)
THEOREM JudgesWholeRequests == Spec => []RequestsJudged
<1>1. IInv => RequestsJudged
  <2> SUFFICES ASSUME IInv PROVE RequestsJudged
    OBVIOUS
  <2>1. fault => \E c \in Conn : peer[c] = "reset" /\ ctx[c] = "freed"
    BY DEF IInv, Blame
  <2>2. ASSUME NEW c \in Conn
        PROVE  /\ request[c] \in Seq(Nat) /\ Got(c) \in 0..Len(request[c])
               /\ Taken(c) \in Seq(Nat) /\ Len(Taken(c)) = Got(c)
               /\ Beginning(Taken(c), request[c])
    <3>1. request[c] \in Seq(Nat) /\ Got(c) \in 0..Len(request[c])
      BY DEF IInv, TypeOK, Arriving
    <3> QED
      BY <3>1, CutOff DEF Taken
  <2>3. ASSUME NEW c \in Conn, handled[c] # NoPath
        PROVE  Acceptable(Request(handled[c])) /\ IsPrefix(Request(handled[c]), request[c])
    <3>1. /\ Taken(c) = Request(handled[c]) /\ WellFormed(Taken(c)) /\ Len(Taken(c)) < HeaderSize
      BY <2>3 DEF IInv, Handled
    <3>2. Acceptable(Taken(c))
      BY <2>2, <3>1, AcceptableMeaning
    <3>3. IsPrefix(Taken(c), request[c])
      <4>1. SubSeq(Taken(c), 1, Len(Taken(c))) = Taken(c)
        BY <2>2, SubSeqFull
      <4>2. SubSeq(request[c], 1, Len(Taken(c))) = Taken(c)
        BY <2>2, Zenon DEF Taken
      <4>3. Len(Taken(c)) <= Len(request[c])
        BY <2>2 DEF Beginning
      <4> QED
        BY <4>1, <4>2, <4>3, Zenon DEF IsPrefix
    <3> QED
      BY <3>1, <3>2, <3>3, Zenon
  <2>4. ASSUME NEW c \in Conn, ~fault, reply[c] = "INVALID", EndsAtDelimiter(request[c]),
               Acceptable(request[c])
        PROVE  FALSE
    <3>1. /\ ~WellFormed(Taken(c))
          /\ DelimitersFrom(0, Taken(c)) # {} \/ Len(Taken(c)) = HeaderSize - 1
      BY <2>4 DEF IInv, Refused
    <3>2. WellFormed(request[c]) /\ Len(request[c]) < HeaderSize
      BY <2>2, <2>4, AcceptableMeaning
    <3>3. Got(c) = Len(request[c])
      <4>1. CASE Len(Taken(c)) = HeaderSize - 1
        BY <2>2, <3>2, <4>1, SizesAssumption
      <4>2. CASE DelimitersFrom(0, Taken(c)) # {}
        <5>1. DelimitersFrom(0, Taken(c))
                = {i \in DelimitersFrom(0, request[c]) : i + 4 <= Len(Taken(c))}
          BY <2>2, DelimitersSeen
        <5>2. PICK i \in DelimitersFrom(0, request[c]) : i + 4 <= Len(Taken(c))
          BY <4>2, <5>1
        <5>3. i = Len(request[c]) - 4
          BY <2>4, <5>2 DEF EndsAtDelimiter
        <5> QED
          BY <2>2, <5>2, <5>3
      <4> QED
        BY <3>1, <4>1, <4>2
    <3>4. Taken(c) = request[c]
      BY <2>2, <3>3, SubSeqFull, Zenon DEF Taken
    <3> QED
      BY <3>1, <3>2, <3>4, Zenon
  <2>5. Len(header) < HeaderSize
    BY DEF IInv, Current
  <2> QED
    BY <2>1, <2>3, <2>4, <2>5 DEF RequestsJudged
<1> QED
  BY <1>1, Invariance, PTL

(* Between two connections nothing is open but what a handler was called
   for. *)
THEOREM NoLeakBeforeTheHandler == Spec => []OnlyAnsweredLeftOpen
<1>1. IInv => OnlyAnsweredLeftOpen
  BY ConnAssumption DEF IInv, Current, Serving, LeftOpen, OnlyAnsweredLeftOpen
<1> QED
  BY <1>1, Invariance, PTL
----------------------------------------------------------------------------
(* A request for a path without line ends *)

(* A concatenation, each part from its own beginning. *)
LEMMA Joined ==
  \A a, b \in Seq(Nat) :
    /\ a \o b \in Seq(Nat) /\ Len(a \o b) = Len(a) + Len(b)
    /\ \A i \in 1..Len(a) : (a \o b)[i] = a[i]
    /\ \A i \in 1..Len(b) : (a \o b)[Len(a) + i] = b[i]
<1> SUFFICES ASSUME NEW a \in Seq(Nat), NEW b \in Seq(Nat)
             PROVE  /\ a \o b \in Seq(Nat) /\ Len(a \o b) = Len(a) + Len(b)
                    /\ \A i \in 1..Len(a) : (a \o b)[i] = a[i]
                    /\ \A i \in 1..Len(b) : (a \o b)[Len(a) + i] = b[i]
  OBVIOUS
<1>1. PICK m \in Nat, n \in Nat : m = Len(a) /\ n = Len(b)
  OBVIOUS
<1>2. PICK c : c = a \o b
  OBVIOUS
<1>3. /\ c \in Seq(Nat) /\ Len(c) = m + n
      /\ \A i \in 1..m + n : c[i] = IF i <= m THEN a[i] ELSE b[i - m]
  BY <1>1, <1>2, ConcatProperties
<1>4. ASSUME NEW i \in 1..m PROVE c[i] = a[i]
  BY <1>3
<1>5. ASSUME NEW i \in 1..n PROVE c[m + i] = b[i]
  <2>1. m + i \in 1..m + n /\ ~(m + i <= m) /\ (m + i) - m = i
    OBVIOUS
  <2>2. c[m + i] = b[(m + i) - m]
    BY <1>3, <2>1
  <2> QED
    BY <2>1, <2>2
<1> QED
  BY <1>1, <1>2, <1>3, <1>4, <1>5

(* Where the parts of a request stand in r, when the path has n symbols. *)
PartsOfRequest(r, path, n) ==
  /\ r \in Seq(Nat) /\ Len(r) = n + 5 /\ r[1] = Scheme
  /\ \A i \in 1..n : r[1 + i] = path[i]
  /\ r[n + 2] = CR /\ r[n + 3] = LF /\ r[n + 4] = CR /\ r[n + 5] = LF

(* A request has these parts: scheme, path and delimiter. *)
LEMMA RequestParts ==
  ASSUME NEW path \in Seq(Nat)
  PROVE  PartsOfRequest(Request(path), path, Len(path))
<1>1. PICK n \in Nat : n = Len(path)
  OBVIOUS
<1>2. PICK scheme : scheme = <<Scheme>>
  OBVIOUS
<1>3. scheme \in Seq(Nat) /\ Len(scheme) = 1 /\ scheme[1] = Scheme
  BY <1>2 DEF Scheme
<1>4. /\ Delimiter \in Seq(Nat) /\ Len(Delimiter) = 4
      /\ Delimiter[1] = CR /\ Delimiter[2] = LF /\ Delimiter[3] = CR /\ Delimiter[4] = LF
  BY DEF Delimiter, CR, LF
<1>5. PICK h : h = scheme \o path
  OBVIOUS
<1>6. /\ h \in Seq(Nat) /\ Len(h) = 1 + n /\ \A i \in 1..1 : h[i] = scheme[i]
      /\ \A i \in 1..n : h[1 + i] = path[i]
  <2>1. /\ scheme \o path \in Seq(Nat) /\ Len(scheme \o path) = Len(scheme) + Len(path)
        /\ \A i \in 1..Len(scheme) : (scheme \o path)[i] = scheme[i]
        /\ \A i \in 1..Len(path) : (scheme \o path)[Len(scheme) + i] = path[i]
    BY <1>3, Joined, Zenon
  <2> QED
    BY <1>1, <1>3, <1>5, <2>1, Zenon
<1>7. PICK r : r = h \o Delimiter
  OBVIOUS
<1>8. /\ r \in Seq(Nat) /\ Len(r) = 1 + n + 4 /\ \A i \in 1..1 + n : r[i] = h[i]
      /\ \A i \in 1..4 : r[1 + n + i] = Delimiter[i]
  <2>1. /\ h \o Delimiter \in Seq(Nat) /\ Len(h \o Delimiter) = Len(h) + Len(Delimiter)
        /\ \A i \in 1..Len(h) : (h \o Delimiter)[i] = h[i]
        /\ \A i \in 1..Len(Delimiter) : (h \o Delimiter)[Len(h) + i] = Delimiter[i]
    BY <1>4, <1>6, Joined, Zenon
  <2> QED
    BY <1>4, <1>6, <1>7, <2>1, Zenon
<1>9. r = Request(path)
  BY <1>2, <1>5, <1>7 DEF Request
<1>10. r[1] = Scheme
  <2>1. r[1] = h[1] /\ h[1] = scheme[1]
    BY <1>6, <1>8
  <2> QED
    BY <1>3, <2>1
<1>11. ASSUME NEW i \in 1..n PROVE r[1 + i] = path[i]
  <2>1. 1 + i \in 1..1 + n
    OBVIOUS
  <2>2. r[1 + i] = h[1 + i]
    BY <1>8, <2>1
  <2> QED
    BY <1>6, <2>2
<1>12. r[n + 2] = CR /\ r[n + 3] = LF /\ r[n + 4] = CR /\ r[n + 5] = LF
  <2>1. 1 + n + 1 = n + 2 /\ 1 + n + 2 = n + 3 /\ 1 + n + 3 = n + 4 /\ 1 + n + 4 = n + 5
    OBVIOUS
  <2>2. /\ r[1 + n + 1] = CR /\ r[1 + n + 2] = LF /\ r[1 + n + 3] = CR
        /\ r[1 + n + 4] = LF
    BY <1>4, <1>8
  <2> QED
    BY <2>1, <2>2
<1>13. 1 + n + 4 = n + 5
  OBVIOUS
<1> QED
  BY <1>1, <1>8, <1>9, <1>10, <1>11, <1>12, <1>13 DEF PartsOfRequest

(* The delimiter of such a request stands at its end and nowhere else. *)
LEMMA OneDelimiter ==
  ASSUME NEW r, NEW path \in Seq(Nat), NEW n \in Nat, n = Len(path),
         PartsOfRequest(r, path, n), \A i \in 1..n : path[i] # CR
  PROVE  EndsAtDelimiter(r)
<1>1. r \in Seq(Nat) /\ Len(r) = n + 5
  BY DEF PartsOfRequest
<1>2. SUFFICES ASSUME NEW i \in DelimitersFrom(0, r) PROVE i = n + 1
  BY <1>1 DEF EndsAtDelimiter
<1>3. i \in 0..n + 1 /\ SubSeq(r, i + 1, i + 4) = Delimiter
  BY <1>1 DEF DelimitersFrom
<1>4. r[i + 1] = CR
  <2>1. PICK m \in Nat \ {0}, l \in Nat :
          /\ m = i + 1 /\ l = i + 4 /\ l \in 0..Len(r)
          /\ m <= l + 1 /\ 1 \in 1..l - m + 1 /\ m + 1 - 1 = m
    <3>1. /\ i \in Nat /\ i + 1 \in Nat \ {0} /\ i + 4 \in Nat
          /\ i + 4 \in 0..Len(r)
      BY <1>1, <1>3
    <3>2. PICK m \in Nat \ {0}, l \in Nat : m = i + 1 /\ l = i + 4
      BY <3>1
    <3>3. m <= l + 1 /\ 1 \in 1..l - m + 1 /\ m + 1 - 1 = m
      BY <3>1, <3>2
    <3>4. l \in 0..Len(r)
      BY <3>1, <3>2, Zenon
    <3> QED
      BY <3>2, <3>3, <3>4, Zenon
  <2>2. \A j \in 1..l - m + 1 : SubSeq(r, m, l)[j] = r[m + j - 1]
    BY <1>1, <2>1, PartOf
  <2>3. SubSeq(r, m, l)[1] = r[m + 1 - 1]
    BY <2>1, <2>2
  <2>4. Delimiter[1] = CR
    BY DEF Delimiter
  <2> QED
    BY <1>3, <2>1, <2>3, <2>4
<1>5. i # 0
  BY <1>4 DEF PartsOfRequest, Scheme, CR
<1>6. ~(i \in 1..n)
  <2> SUFFICES ASSUME i \in 1..n PROVE FALSE
    OBVIOUS
  <2>1. r[1 + i] = path[i] /\ path[i] # CR /\ 1 + i = i + 1
    BY DEF PartsOfRequest
  <2> QED
    BY <1>4, <2>1
<1> QED
  BY <1>3, <1>5, <1>6

(* A request is the beginning of one for a path without line ends only if both
   are for the same path. *)
LEMMA SamePath ==
  ASSUME NEW path \in Seq(Nat), \A i \in 1..Len(path) : path[i] # CR,
         NEW other \in Seq(Nat), IsPrefix(Request(other), Request(path))
  PROVE  other = path
<1>1. PICK n \in Nat, m \in Nat : n = Len(path) /\ m = Len(other)
  OBVIOUS
<1>2. PICK r, q : r = Request(path) /\ q = Request(other)
  OBVIOUS
<1>3. PartsOfRequest(r, path, n) /\ PartsOfRequest(q, other, m)
  BY <1>1, <1>2, RequestParts, Zenon
<1>4. /\ r \in Seq(Nat) /\ Len(r) = n + 5 /\ \A i \in 1..n : r[1 + i] = path[i]
      /\ q \in Seq(Nat) /\ Len(q) = m + 5 /\ \A i \in 1..m : q[1 + i] = other[i]
      /\ q[m + 2] = CR
  BY <1>3 DEF PartsOfRequest
<1>5. m <= n /\ SubSeq(q, 1, m + 5) = SubSeq(r, 1, m + 5)
  <2>1. Len(q) <= Len(r) /\ SubSeq(q, 1, Len(q)) = SubSeq(r, 1, Len(q))
    BY <1>2, Zenon DEF IsPrefix
  <2> QED
    BY <1>4, <2>1
<1>6. \A i \in 1..m + 5 : q[i] = r[i]
  <2>1. PICK l \in Nat : l = m + 5 /\ l \in 0..Len(q) /\ l \in 0..Len(r) /\ 1 <= l + 1
    <3>0. Len(q) = m + 5 /\ Len(r) = n + 5 /\ m <= n
      BY <1>4, <1>5, Zenon
    <3>1. m + 5 \in Nat /\ m + 5 \in 0..Len(q) /\ m + 5 \in 0..Len(r) /\ 1 <= m + 5 + 1
      BY <3>0
    <3> QED
      BY <3>1, Zenon
  <2>2. \A i \in 1..l - 1 + 1 : SubSeq(q, 1, l)[i] = q[1 + i - 1]
    BY <1>4, <2>1, PartOf
  <2>3. \A i \in 1..l - 1 + 1 : SubSeq(r, 1, l)[i] = r[1 + i - 1]
    BY <1>4, <2>1, PartOf
  <2>4. \A i \in 1..l : i \in 1..l - 1 + 1 /\ 1 + i - 1 = i
    OBVIOUS
  <2> QED
    BY <1>5, <2>1, <2>2, <2>3, <2>4
<1>7. ~(m < n)
  <2> SUFFICES ASSUME m < n PROVE FALSE
    OBVIOUS
  <2>1. m + 1 \in 1..n /\ m + 2 \in 1..m + 5 /\ 1 + (m + 1) = m + 2
    OBVIOUS
  <2>2. r[m + 2] = path[m + 1]
    BY <1>4, <2>1
  <2>3. r[m + 2] = CR
    BY <1>4, <1>6, <2>1
  <2> QED
    BY <1>1, <2>1, <2>2, <2>3
<1>8. m = n
  BY <1>5, <1>7
<1>9. \A i \in 1..m : other[i] = path[i]
  <2> SUFFICES ASSUME NEW i \in 1..m PROVE other[i] = path[i]
    OBVIOUS
  <2>1. 1 + i \in 1..m + 5 /\ i \in 1..n
    BY <1>8
  <2> QED
    BY <1>4, <1>6, <2>1
<1> QED
  BY <1>1, <1>8, <1>9, SeqEqual

(* What a client that asks for path may count on. *)
PathHandled(path) ==
  ~fault => \A c \in Conn : request[c] = Request(path) =>
              /\ handled[c] \in {NoPath, path}
              /\ reply[c] = "INVALID" => ~Acceptable(Request(path))

(* A path comes through: the handler of a client that asks for a path without
   line ends is called with that path and no other, whatever the pieces, and
   the request is not refused if it fits the buffer. *)
THEOREM PathComesThrough ==
  ASSUME NEW path \in Seq(Nat), \A i \in 1..Len(path) : path[i] # CR
  PROVE  Spec => []PathHandled(path)
<1>1. ASSUME IInv, RequestsJudged PROVE PathHandled(path)
  <2> SUFFICES ASSUME ~fault, NEW c \in Conn, request[c] = Request(path)
               PROVE  /\ handled[c] \in {NoPath, path}
                      /\ reply[c] = "INVALID" => ~Acceptable(Request(path))
    BY DEF PathHandled
  <2>1. /\ handled[c] # NoPath => IsPrefix(Request(handled[c]), Request(path))
        /\ reply[c] = "INVALID" /\ EndsAtDelimiter(Request(path)) => ~Acceptable(Request(path))
    BY <1>1, Zenon DEF RequestsJudged
  <2>2. handled[c] \in Seq(Nat)
    BY <1>1 DEF IInv, TypeOK
  <2>3. handled[c] # NoPath => handled[c] = path
    BY <2>1, <2>2, SamePath, Zenon
  <2>4. EndsAtDelimiter(Request(path))
    <3>1. PICK n \in Nat : n = Len(path)
      OBVIOUS
    <3> QED
      BY <3>1, RequestParts, OneDelimiter, Zenon
  <2> QED
    BY <2>1, <2>3, <2>4
<1>2. IInv /\ RequestsJudged => PathHandled(path)
  BY <1>1
<1> QED
  BY <1>2, Invariance, JudgesWholeRequests, PTL
=============================================================================
