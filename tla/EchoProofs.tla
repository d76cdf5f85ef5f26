------------------------------ MODULE EchoProofs ------------------------------
(***************************************************************************)
(* Proofs about Echo: for any number of clients, any messages, lists of    *)
(* addresses and size of the buffers, a client gets back the beginning of  *)
(* its own message, no way out of a connection or of the set-up leaves     *)
(* anything open, and a client gives up only when no address of the first  *)
(* one's family leads to the server.                                       *)
(***************************************************************************)
EXTENDS Echo, SequenceTheorems, TLAPS

SettingUp == {"getaddrinfo", "socket", "setsockopt", "bind", "listen"}
Serving == {"recv", "send"}
Unheard == {"start", "connect", "unreachable", "send"}   \* nothing has been sent yet

TypeOK == /\ spc \in SettingUp \union Serving \union {"listening", "exited"}
          /\ pending \in Seq(Client)
          /\ conn \in Client \union {NoClient}
          /\ fd \in [Client -> {"none", "open", "closed"}]
          /\ buffer \in [1..BufSize -> Nat] /\ received \in 0..BufSize
          /\ cpc \in [Client -> Unheard \union {"recv", "done", "failed"}]
          /\ addresses \in [Client -> Seq([family : Nat, up : BOOLEAN])]
          /\ addr \in [Client -> Nat \ {0}]
          /\ message \in [Client -> Seq(Nat)]
          /\ toServer \in [Client -> Seq(Nat)] /\ toClient \in [Client -> Seq(Nat)]
          /\ output \in [Client -> Seq(Nat)]

(* What each step of the set-up has in its hands; no client is there yet. *)
SetUp == /\ spc = "getaddrinfo" => res = "none" /\ lfd = "none"
         /\ spc = "socket" => res = "held" /\ lfd = "none"
         /\ spc \in {"setsockopt", "bind"} => res = "held" /\ lfd = "open"
         /\ spc \in {"listen", "listening", "recv", "send"} => res = "freed" /\ lfd = "open"
         /\ spc = "exited" => res # "held" /\ lfd # "open"
         /\ spc \in SettingUp => \A c \in Client : cpc[c] = "start"

(* The one connection that may be open is the one being served. *)
OneConnection == /\ spc \in Serving => conn \in Client
                 /\ \A c \in Client : fd[c] = "open" => spc \in Serving /\ c = conn

(* The addresses tried so far do not lead to the server. *)
Leads(c, i) == addresses[c][i].up /\ addresses[c][i].family = addresses[c][1].family

Tried == \A c \in Client :
           /\ cpc[c] = "start" => addr[c] = 1
           /\ cpc[c] = "connect" /\ lfd = "open" => \A i \in 1..addr[c] - 1 : ~Leads(c, i)

(* A client that has not sent has nothing anywhere; the message of one that has
   is in the server's hands or on the way to or from it. *)
OnHand(c) == IF spc = "send" /\ c = conn THEN Echoed ELSE << >>

Silent == \A c \in Client :
            cpc[c] \in Unheard => output[c] = << >> /\ toServer[c] = << >> /\ toClient[c] = << >>

Underway == /\ spc = "send" => cpc[conn] \notin Unheard
            /\ \A c \in Client : cpc[c] = "recv" =>
                 /\ output[c] = << >>
                 /\ message[c] = toClient[c] \o OnHand(c) \o toServer[c]

IInv == /\ TypeOK /\ SetUp /\ OneConnection /\ Tried /\ FailsOnlyUnreachable
        /\ Silent /\ Underway /\ OwnEcho
----------------------------------------------------------------------------
(* Lemmas about streams *)

(* Three streams may be joined in either order. *)
LEMMA Regroup == \A s, t, u \in Seq(Nat) : (s \o t) \o u = s \o (t \o u)
  BY ConcatAssociative

(* A part of a stream is a stream. *)
LEMMA PartOf ==
  ASSUME NEW s \in Seq(Nat), NEW m \in Nat \ {0}, NEW n \in 0..Len(s), m <= n + 1
  PROVE  /\ SubSeq(s, m, n) \in Seq(Nat)
         /\ Len(SubSeq(s, m, n)) = n - m + 1
         /\ \A i \in 1..n - m + 1 : SubSeq(s, m, n)[i] = s[m + i - 1]
<1>1. \A i \in m..n : s[i] \in Nat
  BY ElementOfSeq
<1> QED
  BY <1>1, SubSeqProperties

(* s is what there is of t so far. *)
Beginning(s, t) == /\ s \in Seq(Nat) /\ t \in Seq(Nat) /\ Len(s) <= Len(t)
                   /\ \A i \in 1..Len(s) : s[i] = t[i]

(* A beginning has the parts of the whole that it covers. *)
LEMMA SamePart ==
  ASSUME NEW s, NEW t, Beginning(s, t),
         NEW m \in Nat \ {0}, NEW k \in 0..Len(s), m <= k + 1
  PROVE  SubSeq(s, m, k) = SubSeq(t, m, k)
<1>0. /\ s \in Seq(Nat) /\ t \in Seq(Nat) /\ Len(s) <= Len(t)
      /\ \A i \in 1..Len(s) : s[i] = t[i]
  BY DEF Beginning
<1>1. /\ s \in Seq(Nat) /\ t \in Seq(Nat) /\ k \in 0..Len(t)
      /\ \A i \in 1..Len(s) : s[i] = t[i]
  <2>1. Len(s) \in Nat /\ Len(t) \in Nat
    BY <1>0
  <2> QED
    BY <1>0, <2>1
<1>2. /\ SubSeq(s, m, k) \in Seq(Nat) /\ Len(SubSeq(s, m, k)) = k - m + 1
      /\ \A i \in 1..k - m + 1 : SubSeq(s, m, k)[i] = s[m + i - 1]
  BY <1>1, PartOf
<1>3. /\ SubSeq(t, m, k) \in Seq(Nat) /\ Len(SubSeq(t, m, k)) = k - m + 1
      /\ \A i \in 1..k - m + 1 : SubSeq(t, m, k)[i] = t[m + i - 1]
  BY <1>1, PartOf
<1>4. \A i \in 1..k - m + 1 : s[m + i - 1] = t[m + i - 1]
  <2>1. \A i \in 1..k - m + 1 : m + i - 1 \in 1..Len(s)
    BY <1>1
  <2> QED
    BY <1>1, <2>1
<1> QED
  BY <1>2, <1>3, <1>4, SeqEqual

(* A stream that is cut off. *)
LEMMA CutOff ==
  ASSUME NEW s \in Seq(Nat), NEW n \in 0..Len(s), NEW cut, cut = SubSeq(s, 1, n)
  PROVE  cut \in Seq(Nat) /\ Len(cut) = n /\ Beginning(cut, s)
<1>1. cut \in Seq(Nat) /\ Len(cut) = n /\ \A i \in 1..n : cut[i] = s[i]
  BY PartOf
<1> QED
  BY <1>1 DEF Beginning

----------------------------------------------------------------------------
(* Types *)

(* What a receive takes from a stream and what it leaves. *)
LEMMA Received ==
  ASSUME NEW s \in Seq(Nat), NEW n \in 1..Smaller(BufSize, Len(s))
  PROVE  /\ n \in 1..Len(s) /\ n \in 1..BufSize
         /\ SubSeq(s, 1, n) \in Seq(Nat) /\ Len(SubSeq(s, 1, n)) = n
         /\ SubSeq(s, n + 1, Len(s)) \in Seq(Nat)
         /\ SubSeq(s, 1, n) \o SubSeq(s, n + 1, Len(s)) = s
<1>1. n \in 1..Len(s) /\ n \in 1..BufSize
  BY BufferAssumption DEF Smaller
<1>2. SubSeq(s, 1, n) \in Seq(Nat) /\ Len(SubSeq(s, 1, n)) = n
  BY <1>1, CutOff
<1>3. SubSeq(s, n + 1, Len(s)) \in Seq(Nat)
  <2>1. n + 1 \in Nat \ {0} /\ Len(s) \in 0..Len(s) /\ n + 1 <= Len(s) + 1
    BY <1>1
  <2> QED
    BY <2>1, PartOf
<1>4. SubSeq(s, 1, n) \o SubSeq(s, n + 1, Len(s)) = s
  <2>1. /\ 1 \in 1..Len(s) + 1 /\ n \in 1 - 1..Len(s) /\ Len(s) \in n..Len(s)
    BY <1>1
  <2>2. SubSeq(s, 1, n) \o SubSeq(s, n + 1, Len(s)) = SubSeq(s, 1, Len(s))
    BY <2>1, ConcatAdjacentSubSeq
  <2> QED
    BY <2>2, SubSeqFull
<1> QED
  BY <1>1, <1>2, <1>3, <1>4

(* A buffer is a stream. *)
LEMMA FunctionIsSeq ==
  ASSUME NEW n \in Nat, NEW b \in [1..n -> Nat]
  PROVE  b \in Seq(Nat) /\ Len(b) = n
<1>1. b \in Seq(Nat)
  BY SeqDef
<1> QED
  BY <1>1, LenProperties

(* The part of the buffer that the server sends. *)
LEMMA EchoedType == ASSUME TypeOK PROVE Echoed \in Seq(Nat)
<1>1. buffer \in Seq(Nat) /\ Len(buffer) = BufSize
  <2>1. buffer \in [1..BufSize -> Nat] /\ BufSize \in Nat
    BY BufferAssumption DEF TypeOK
  <2> QED
    BY <2>1, FunctionIsSeq
<1> QED
  BY <1>1, CutOff DEF TypeOK, Echoed

(* What is received fits the buffer, and a stream remains a stream. *)
LEMMA TypeOKStep == ASSUME IInv, Next PROVE TypeOK'
<1>0. TypeOK
  BY DEF IInv
<1>1. CASE Start
  BY <1>0, <1>1 DEF Start, server, locals, streams, Setup!Next, Setup!FindAddress,
     Setup!CreateSocket, Setup!SetOption, Setup!Bind, Setup!Listen, TypeOK, SettingUp
<1>2. CASE Accept
  <2>1. conn' \in Client /\ pending' \in Seq(Client)
    BY <1>0, <1>2 DEF Accept, TypeOK
  <2> QED
    BY <1>0, <1>2, <2>1 DEF Accept, locals, streams, TypeOK, Serving
<1>3. CASE ServerReceive
  <2>1. PICK n \in 1..Smaller(BufSize, Len(toServer[conn])) :
          /\ buffer' = [i \in 1..BufSize |-> IF i <= n THEN toServer[conn][i] ELSE buffer[i]]
          /\ received' = n
          /\ toServer' = [toServer EXCEPT ![conn] = SubSeq(@, n + 1, Len(@))]
    BY <1>3 DEF ServerReceive
  <2>2. PICK s : s = toServer[conn]
    OBVIOUS
  <2>3. s \in Seq(Nat)
    BY <1>0, <1>3, <2>2 DEF ServerReceive, IInv, OneConnection, Serving, TypeOK
  <2>4. n \in 1..Len(s) /\ n \in 1..BufSize /\ SubSeq(s, n + 1, Len(s)) \in Seq(Nat)
    BY <2>1, <2>2, <2>3, Received
  <2>5. buffer' \in [1..BufSize -> Nat] /\ received' \in 0..BufSize
    <3>1. \A i \in 1..BufSize : i <= n => s[i] \in Nat
      BY <2>3, <2>4, ElementOfSeq
    <3> QED
      BY <1>0, <2>1, <2>2, <2>4, <3>1, BufferAssumption DEF TypeOK
  <2>6. toServer' \in [Client -> Seq(Nat)]
    BY <1>0, <2>1, <2>2, <2>4 DEF TypeOK
  <2> QED
    BY <1>0, <1>3, <2>5, <2>6 DEF ServerReceive, locals, TypeOK, Serving
<1>4. CASE ConnectionEnds \/ SendFails
  BY <1>0, <1>4 DEF ConnectionEnds, SendFails, CloseConnection, locals, streams, TypeOK
<1>5. CASE ServerSend
  <2>1. toClient' \in [Client -> Seq(Nat)]
    <3>1. conn \in Client
      BY <1>5 DEF ServerSend, IInv, OneConnection, Serving
    <3>2. toClient[conn] \o Echoed \in Seq(Nat)
      BY <1>0, <3>1, EchoedType, ConcatProperties DEF TypeOK
    <3> QED
      BY <1>0, <1>5, <3>2 DEF ServerSend, TypeOK
  <2> QED
    BY <1>0, <1>5, <2>1 DEF ServerSend, server, locals, TypeOK, Serving
<1>6. CASE SendKills
  BY <1>0, <1>6 DEF SendKills, locals, streams, TypeOK
<1>7. ASSUME NEW c \in Client, Resolve(c) PROVE TypeOK'
  <2>1. addresses' \in [Client -> Seq([family : Nat, up : BOOLEAN])]
    <3>1. \/ addresses' = addresses
          \/ \E list \in AddressLists : addresses' = [addresses EXCEPT ![c] = list]
      BY <1>7 DEF Resolve
    <3>2. addresses \in [Client -> Seq([family : Nat, up : BOOLEAN])]
      BY <1>0 DEF TypeOK
    <3> QED
      BY <3>1, <3>2, AddressesAssumption
  <2>2. cpc' \in [Client -> Unheard \union {"recv", "done", "failed"}]
    BY <1>0, <1>7 DEF Resolve, Goes, TypeOK, Unheard
  <2> QED
    BY <1>0, <1>7, <2>1, <2>2 DEF Resolve, server, streams, TypeOK
<1>8. ASSUME NEW c \in Client, Connect(c) PROVE TypeOK'
  <2>1. pending' \in Seq(Client)
    <3>1. pending' = Append(pending, c) \/ pending' = pending
      BY <1>8 DEF Connect
    <3>2. pending \in Seq(Client)
      BY <1>0 DEF TypeOK
    <3> QED
      BY <1>0, <3>1, <3>2, AppendProperties
  <2>2. addr' \in [Client -> Nat \ {0}]
    <3>1. addr' = [addr EXCEPT ![c] = addr[c] + 1] \/ addr' = addr
      BY <1>8 DEF Connect
    <3>2. addr \in [Client -> Nat \ {0}] /\ addr[c] + 1 \in Nat \ {0}
      <4>1. addr \in [Client -> Nat \ {0}]
        BY <1>0 DEF TypeOK
      <4>2. addr[c] \in Nat \ {0}
        BY <4>1
      <4> QED
        BY <4>1, <4>2
    <3> QED
      BY <3>1, <3>2
  <2>3. cpc' \in [Client -> Unheard \union {"recv", "done", "failed"}]
    BY <1>0, <1>8 DEF Connect, Goes, TypeOK, Unheard
  <2> QED
    BY <1>0, <1>8, <2>1, <2>2, <2>3 DEF Connect, streams, TypeOK
<1>9. ASSUME NEW c \in Client, ClientSend(c) PROVE TypeOK'
  <2>1. toServer[c] \o message[c] \in Seq(Nat)
    BY <1>0, ConcatProperties DEF TypeOK
  <2> QED
    BY <1>0, <1>9, <2>1 DEF ClientSend, Goes, server, locals, TypeOK
<1>10. ASSUME NEW c \in Client, ClientReceive(c) PROVE TypeOK'
  <2>1. PICK n \in 1..Smaller(BufSize, Len(toClient[c])) :
          /\ output' = [output EXCEPT ![c] = SubSeq(toClient[c], 1, n)]
          /\ toClient' = [toClient EXCEPT ![c] = SubSeq(@, n + 1, Len(@))]
    BY <1>10 DEF ClientReceive
  <2>2. PICK s : s = toClient[c]
    OBVIOUS
  <2>3. s \in Seq(Nat)
    BY <1>0, <2>2 DEF TypeOK
  <2>4. SubSeq(s, 1, n) \in Seq(Nat) /\ SubSeq(s, n + 1, Len(s)) \in Seq(Nat)
    BY <2>1, <2>2, <2>3, Received
  <2> QED
    BY <1>0, <1>10, <2>1, <2>2, <2>4 DEF ClientReceive, Goes, server, locals, TypeOK
<1>11. ASSUME NEW c \in Client, ClientFails(c) \/ Leave(c) PROVE TypeOK'
  BY <1>0, <1>11 DEF ClientFails, Leave, Goes, server, locals, streams, TypeOK
<1> QED
  BY <1>1, <1>2, <1>3, <1>4, <1>5, <1>6, <1>7, <1>8, <1>9, <1>10, <1>11
     DEF Next, Serve, ClientStep
----------------------------------------------------------------------------
(* What is open *)

(* Clients come when the set-up is over. *)
LEMMA SetUpStep == ASSUME IInv, Next PROVE SetUp'
<1>0. TypeOK /\ SetUp
  BY DEF IInv
<1>1. CASE Start
  BY <1>0, <1>1 DEF Start, Setup!Next, Setup!FindAddress, Setup!CreateSocket,
     Setup!SetOption, Setup!Bind, Setup!Listen, SetUp, SettingUp
<1>2. CASE Serve
  BY <1>0, <1>2 DEF Serve, Accept, ServerReceive, ConnectionEnds, ServerSend, SendFails,
     SendKills, CloseConnection, SetUp, SettingUp
<1>3. ASSUME NEW c \in Client, Resolve(c) PROVE SetUp'
  BY <1>0, <1>3 DEF Resolve, Goes, SetUp, SettingUp
<1>4. ASSUME NEW c \in Client, ClientStep(c) \/ Leave(c) PROVE SetUp'
  <2>1. cpc[c] # "start" /\ UNCHANGED <<spc, res, lfd>>
    BY <1>4 DEF ClientStep, Connect, ClientSend, ClientReceive, ClientFails, Leave, server
  <2>2. spc \notin SettingUp
    BY <1>0, <2>1 DEF SetUp
  <2> QED
    BY <1>0, <2>1, <2>2 DEF SetUp, TypeOK
<1> QED
  BY <1>1, <1>2, <1>3, <1>4 DEF Next

(* A connection is accepted when none is open, and every way back to accept
   closes it. *)
LEMMA OneConnectionStep == ASSUME IInv, Next PROVE OneConnection'
<1>0. TypeOK /\ OneConnection
  BY DEF IInv
<1>1. CASE Start
  BY <1>0, <1>1 DEF Start, server, Setup!Next, Setup!FindAddress, Setup!CreateSocket,
     Setup!SetOption, Setup!Bind, Setup!Listen, OneConnection, Serving
<1>2. CASE Accept
  <2>1. conn' \in Client
    BY <1>0, <1>2 DEF Accept, TypeOK
  <2> QED
    BY <1>0, <1>2, <2>1 DEF Accept, OneConnection, Serving, TypeOK
<1>3. CASE ServerReceive \/ ServerSend
  BY <1>0, <1>3 DEF ServerReceive, ServerSend, server, OneConnection, Serving
<1>4. CASE ConnectionEnds \/ SendFails
  BY <1>0, <1>4 DEF ConnectionEnds, SendFails, CloseConnection, OneConnection, Serving, TypeOK
<1>5. CASE SendKills
  BY <1>0, <1>5 DEF SendKills, OneConnection, Serving
<1>6. ASSUME NEW c \in Client, Resolve(c) \/ ClientStep(c) \/ Leave(c) PROVE OneConnection'
  BY <1>0, <1>6 DEF Resolve, ClientStep, Connect, ClientSend, ClientReceive, ClientFails, Leave,
     server, OneConnection
<1> QED
  BY <1>1, <1>2, <1>3, <1>4, <1>5, <1>6 DEF Next, Serve
----------------------------------------------------------------------------
(* What has been tried *)

(* The listening socket opens once, before there are clients; an address that
   fails is passed over. *)
LEMMA TriedStep == ASSUME IInv, Next PROVE Tried' /\ FailsOnlyUnreachable'
<1>0. TypeOK /\ SetUp /\ Tried /\ FailsOnlyUnreachable
  BY DEF IInv
<1>1. CASE Start
  <2>1. UNCHANGED <<cpc, addresses, addr>> /\ \A c \in Client : cpc[c] = "start"
    BY <1>0, <1>1 DEF Start, locals, Setup!Next, Setup!FindAddress, Setup!CreateSocket,
       Setup!SetOption, Setup!Bind, Setup!Listen, SetUp, SettingUp
  <2> QED
    BY <1>0, <2>1 DEF Tried, FailsOnlyUnreachable
<1>2. CASE Serve
  <2>1. UNCHANGED <<cpc, addresses, addr>> /\ (lfd' = "open" => lfd = "open")
    BY <1>2 DEF Serve, Accept, ServerReceive, ConnectionEnds, ServerSend, SendFails, SendKills,
       CloseConnection, locals
  <2> QED
    BY <1>0, <2>1 DEF Tried, Leads, FailsOnlyUnreachable
<1>3. ASSUME NEW c \in Client, Resolve(c) PROVE Tried' /\ FailsOnlyUnreachable'
  <2>1. cpc[c] = "start" /\ UNCHANGED <<lfd, addr>> /\ addr[c] = 1
    BY <1>0, <1>3 DEF Resolve, Tried
  <2>2. /\ cpc'[c] \in {"connect", "failed"}
        /\ \A d \in Client \ {c} : cpc'[d] = cpc[d] /\ addresses'[d] = addresses[d]
    BY <1>0, <1>3 DEF Resolve, Goes, TypeOK
  <2> QED
    BY <1>0, <2>1, <2>2 DEF Tried, Leads, FailsOnlyUnreachable
<1>4. ASSUME NEW c \in Client, Connect(c) PROVE Tried' /\ FailsOnlyUnreachable'
  <2>1. /\ cpc[c] = "connect" /\ UNCHANGED <<lfd, addresses>>
        /\ addr[c] \in Nat \ {0} /\ Len(addresses[c]) \in Nat
        /\ DOMAIN addresses[c] = 1..Len(addresses[c])
    BY <1>0, <1>4 DEF Connect, TypeOK
  <2>2. CASE lfd = "open" /\ Leads(c, addr[c])
    <3>1. cpc' = [cpc EXCEPT ![c] = "send"] /\ UNCHANGED addr
      BY <1>4, <2>2 DEF Connect, Goes, Leads
    <3> QED
      BY <1>0, <2>1, <3>1 DEF Tried, Leads, FailsOnlyUnreachable, TypeOK
  <2>3. CASE ~(lfd = "open" /\ Leads(c, addr[c]))
    <3>1. /\ addr' = [addr EXCEPT ![c] = addr[c] + 1]
          /\ cpc' = [cpc EXCEPT ![c] = IF addr[c] = Len(addresses[c]) THEN "unreachable"
                                                                      ELSE "connect"]
      BY <1>0, <1>4, <2>1, <2>3 DEF Connect, Goes, Leads, TypeOK
    <3>2. /\ addr'[c] = addr[c] + 1 /\ cpc'[c] \in {"connect", "unreachable"}
          /\ cpc'[c] = "unreachable" => addr[c] = Len(addresses[c])
          /\ \A d \in Client \ {c} : cpc'[d] = cpc[d] /\ addr'[d] = addr[d]
      BY <1>0, <3>1 DEF TypeOK
    <3>3. lfd = "open" => \A i \in 1..addr[c] : ~Leads(c, i)
      <4>1. lfd = "open" => \A i \in 1..addr[c] - 1 : ~Leads(c, i)
        BY <1>0, <2>1 DEF Tried
      <4>2. \A i \in 1..addr[c] : i = addr[c] \/ i \in 1..addr[c] - 1
        BY <2>1
      <4> QED
        BY <2>3, <4>1, <4>2
    <3>4. Tried'
      <4>1. lfd' = "open" => \A i \in 1..addr'[c] - 1 : ~Leads(c, i)'
        BY <2>1, <3>2, <3>3 DEF Leads
      <4>2. ASSUME NEW d \in Client \ {c}
            PROVE  /\ cpc'[d] = "start" => addr'[d] = 1
                   /\ cpc'[d] = "connect" /\ lfd' = "open" =>
                        \A i \in 1..addr'[d] - 1 : ~Leads(d, i)'
        <5>1. /\ cpc[d] = "start" => addr[d] = 1
              /\ cpc[d] = "connect" /\ lfd = "open" => \A i \in 1..addr[d] - 1 : ~Leads(d, i)
          BY <1>0 DEF Tried
        <5>2. cpc'[d] = cpc[d] /\ addr'[d] = addr[d] /\ lfd' = lfd /\ addresses' = addresses
          BY <2>1, <3>2
        <5> QED
          BY <5>1, <5>2 DEF Leads
      <4>3. cpc'[c] # "start"
        BY <3>2
      <4> QED
        BY <4>1, <4>2, <4>3 DEF Tried
    <3>5. FailsOnlyUnreachable'
      <4>1. cpc'[c] = "unreachable" /\ lfd' = "open" => \A i \in DOMAIN addresses[c] : ~Leads(c, i)
        BY <2>1, <3>2, <3>3
      <4> QED
        BY <1>0, <2>1, <3>2, <4>1 DEF FailsOnlyUnreachable, Leads
    <3> QED
      BY <3>4, <3>5
  <2> QED
    BY <2>2, <2>3
<1>5. ASSUME NEW c \in Client, ClientSend(c) \/ ClientReceive(c) \/ ClientFails(c) \/ Leave(c)
      PROVE  Tried' /\ FailsOnlyUnreachable'
  <2>1. /\ UNCHANGED <<lfd, addresses, addr>> /\ cpc'[c] \in {"recv", "done", "failed"}
        /\ \A d \in Client \ {c} : cpc'[d] = cpc[d]
    BY <1>0, <1>5 DEF ClientSend, ClientReceive, ClientFails, Leave, Goes, locals, TypeOK
  <2> QED
    BY <1>0, <2>1 DEF Tried, Leads, FailsOnlyUnreachable
<1> QED
  BY <1>1, <1>2, <1>3, <1>4, <1>5 DEF Next, ClientStep
----------------------------------------------------------------------------
(* The bytes *)

Bytes == Silent /\ Underway /\ OwnEcho

(* The beginning of two streams in a row. *)
LEMMA FirstIsPrefix ==
  ASSUME NEW a \in Seq(Nat), NEW b \in Seq(Nat)
  PROVE  IsPrefix(a, a \o b)
<1>1. PICK s : s = a \o b
  OBVIOUS
<1>2. s \in Seq(Nat) /\ Len(s) = Len(a) + Len(b) /\ \A i \in 1..Len(a) : s[i] = a[i]
  BY <1>1, ConcatProperties, LenProperties
<1>3. Len(a) \in 0..Len(s)
  BY <1>2
<1>4. Beginning(a, s)
  BY <1>2 DEF Beginning
<1>5. SubSeq(a, 1, Len(a)) = SubSeq(s, 1, Len(a))
  <2>1. Len(a) \in 0..Len(a) /\ 1 \in Nat \ {0} /\ 1 <= Len(a) + 1
    OBVIOUS
  <2> QED
    BY <1>4, <2>1, SamePart
<1>6. Len(a) <= Len(s)
  BY <1>2
<1> QED
  BY <1>1, <1>5, <1>6, Zenon DEF IsPrefix

(* Steps that move no bytes, of which the server's leave the buffer alone while
   it holds something to send. *)
LEMMA BytesStay ==
  ASSUME IInv, UNCHANGED <<message, output, toServer, toClient>>,
         \A c \in Client : /\ cpc'[c] = "recv" => cpc[c] = "recv" /\ OnHand(c)' = OnHand(c)
                           /\ cpc'[c] \in Unheard => cpc[c] \in Unheard,
         spc' = "send" => cpc'[conn'] \notin Unheard
  PROVE  Bytes'
<1>1. Silent'
  BY DEF IInv, Silent
<1>2. Underway'
  <2> SUFFICES ASSUME NEW c \in Client, cpc'[c] = "recv"
               PROVE  output'[c] = << >> /\ message'[c] = toClient'[c] \o OnHand(c)' \o toServer'[c]
    BY DEF Underway
  <2>1. output[c] = << >> /\ message[c] = toClient[c] \o OnHand(c) \o toServer[c]
    BY DEF IInv, Underway
  <2>2. OnHand(c)' = OnHand(c)
    OBVIOUS
  <2> QED
    BY <2>1, <2>2, Zenon
<1>3. OwnEcho'
  BY DEF IInv, OwnEcho
<1> QED
  BY <1>1, <1>2, <1>3 DEF Bytes

(* The set-up, the beginning and the end of a connection and all that a client
   does but sending and receiving. *)
LEMMA QuietSteps ==
  ASSUME IInv,
         \/ Start \/ Accept \/ ConnectionEnds \/ SendFails \/ SendKills
         \/ \E c \in Client : Resolve(c) \/ Connect(c) \/ ClientFails(c) \/ Leave(c)
  PROVE  Bytes'
<1>0. TypeOK /\ SetUp /\ OneConnection /\ Underway
  BY DEF IInv
<1>1. CASE Start
  <2>1. /\ UNCHANGED <<message, output, toServer, toClient, cpc>>
        /\ spc' # "send" /\ \A c \in Client : cpc[c] = "start"
    BY <1>0, <1>1 DEF Start, locals, streams, Setup!Next, Setup!FindAddress, Setup!CreateSocket,
       Setup!SetOption, Setup!Bind, Setup!Listen, SetUp, SettingUp
  <2> QED
    BY <2>1, BytesStay DEF Unheard
<1>2. CASE Accept \/ ConnectionEnds
  <2>1. /\ UNCHANGED <<message, output, toServer, toClient, cpc>>
        /\ spc # "send" /\ spc' # "send"
    BY <1>2 DEF Accept, ConnectionEnds, CloseConnection, locals, streams
  <2>2. \A c \in Client : OnHand(c) = << >> /\ OnHand(c)' = << >>
    BY <2>1 DEF OnHand
  <2> QED
    BY <2>1, <2>2, BytesStay
<1>3. CASE SendFails \/ SendKills
  <2>1. /\ UNCHANGED <<message, output, toServer, toClient, cpc>>
        /\ spc' # "send" /\ cpc[conn] \in {"done", "failed"}
    BY <1>3 DEF SendFails, SendKills, CloseConnection, Gone, locals, streams
  <2>2. \A c \in Client : cpc[c] = "recv" => OnHand(c) = << >> /\ OnHand(c)' = << >>
    BY <2>1 DEF OnHand
  <2> QED
    BY <2>1, <2>2, BytesStay
<1>4. ASSUME NEW c \in Client, Resolve(c) \/ Connect(c) \/ ClientFails(c) \/ Leave(c)
      PROVE  Bytes'
  <2>1. /\ UNCHANGED <<message, output, toServer, toClient, spc, conn, buffer, received>>
        /\ cpc'[c] \in Unheard \union {"failed"} /\ cpc'[c] # "start"
        /\ cpc'[c] \in Unheard => cpc[c] \in Unheard
        /\ \A d \in Client \ {c} : cpc'[d] = cpc[d]
    <3>1. UNCHANGED <<message, output, toServer, toClient, spc, conn, buffer, received>>
      BY <1>4 DEF Resolve, Connect, ClientFails, Leave, server, locals, streams
    <3>2. \E to \in {"connect", "send", "unreachable", "failed"} :
            /\ cpc' = [cpc EXCEPT ![c] = to]
            /\ to # "failed" => cpc[c] \in Unheard
      <4>1. CASE Resolve(c)
        BY <4>1 DEF Resolve, Goes, Unheard
      <4>2. CASE Connect(c)
        <5>1. cpc[c] = "connect" /\ (Goes(c, "send") \/ Goes(c, "unreachable") \/ UNCHANGED cpc)
          BY <4>2 DEF Connect
        <5>2. cpc = [cpc EXCEPT ![c] = cpc[c]]
          BY <1>0 DEF TypeOK
        <5> QED
          BY <5>1, <5>2 DEF Goes, Unheard
      <4>3. CASE ClientFails(c) \/ Leave(c)
        BY <4>3 DEF ClientFails, Leave, Goes
      <4> QED
        BY <1>4, <4>1, <4>2, <4>3
    <3> QED
      BY <1>0, <3>1, <3>2 DEF Unheard, TypeOK
  <2>2. \A d \in Client : OnHand(d)' = OnHand(d)
    BY <2>1 DEF OnHand, Echoed
  <2>3. spc' = "send" => cpc'[conn'] \notin Unheard
    <3>1. spc = "send" => conn \in Client /\ cpc[conn] \notin Unheard
      BY <1>0 DEF OneConnection, Underway, Serving
    <3> QED
      BY <2>1, <3>1
  <2>4. cpc'[c] # "recv"
    BY <2>1 DEF Unheard
  <2> QED
    BY <2>1, <2>2, <2>3, <2>4, BytesStay
<1> QED
  BY <1>1, <1>2, <1>3, <1>4

(* What the server receives goes from the head of the stream into the buffer. *)
LEMMA ServerReceiveStep == ASSUME IInv, ServerReceive PROVE Bytes'
<1>0. TypeOK /\ OneConnection /\ Silent /\ Underway /\ OwnEcho
  BY DEF IInv
<1>1. PICK n \in 1..Smaller(BufSize, Len(toServer[conn])) :
        /\ buffer' = [i \in 1..BufSize |-> IF i <= n THEN toServer[conn][i] ELSE buffer[i]]
        /\ received' = n
        /\ toServer' = [toServer EXCEPT ![conn] = SubSeq(@, n + 1, Len(@))]
  BY DEF ServerReceive
<1>2. /\ spc = "recv" /\ spc' = "send" /\ conn \in Client
      /\ UNCHANGED <<conn, cpc, message, toClient, output>>
  BY <1>0 DEF ServerReceive, locals, OneConnection, Serving
<1>3. PICK c \in Client : c = conn
  BY <1>2
<1>4. PICK s : s = toServer[c]
  OBVIOUS
<1>5. s \in Seq(Nat)
  BY <1>0, <1>4 DEF TypeOK
<1>6. PICK x, r : x = SubSeq(s, 1, n) /\ r = SubSeq(s, n + 1, Len(s))
  OBVIOUS
<1>7. /\ n \in 1..Len(s) /\ n \in 1..BufSize
      /\ x \in Seq(Nat) /\ Len(x) = n /\ r \in Seq(Nat) /\ x \o r = s
  BY <1>1, <1>3, <1>4, <1>5, <1>6, Received
<1>8. cpc[c] \notin Unheard
  <2>1. Len(s) # 0
    BY <1>5, <1>7
  <2>2. s # << >>
    BY <2>1, EmptySeq
  <2> QED
    BY <1>0, <1>4, <2>2 DEF Silent
<1>9. Echoed' = x
  <2>1. PICK b : b = buffer'
    OBVIOUS
  <2>2. b \in Seq(Nat) /\ Len(b) = BufSize /\ \A i \in 1..n : b[i] = s[i]
    <3>1. /\ b \in [1..BufSize -> Nat] /\ BufSize \in Nat
      BY <2>1, TypeOKStep, BufferAssumption DEF TypeOK, Next, Serve
    <3>2. b \in Seq(Nat) /\ Len(b) = BufSize
      BY <3>1, FunctionIsSeq
    <3>3. b = [i \in 1..BufSize |-> IF i <= n THEN s[i] ELSE buffer[i]]
      BY <1>1, <1>3, <1>4, <2>1, Zenon
    <3>4. \A i \in 1..n : i \in 1..BufSize /\ i <= n
      BY <1>7, BufferAssumption
    <3>5. \A i \in 1..n : b[i] = s[i]
      BY <3>3, <3>4
    <3> QED
      BY <3>2, <3>5
  <2>3. /\ \A i \in 1..n : x[i] = s[i]
        /\ n \in 0..Len(b) /\ n \in 0..Len(s)
    BY <1>5, <1>6, <1>7, <2>2, PartOf
  <2>4. Beginning(x, b)
    <3>1. \A i \in 1..n : x[i] = b[i]
      BY <2>2, <2>3
    <3>2. n <= Len(b)
      BY <1>7, <2>2, BufferAssumption
    <3> QED
      BY <1>7, <2>2, <3>1, <3>2 DEF Beginning
  <2>5. SubSeq(x, 1, n) = SubSeq(b, 1, n)
    <3>1. n \in 0..Len(x) /\ 1 \in Nat \ {0} /\ 1 <= n + 1
      BY <1>7
    <3> QED
      BY <2>4, <3>1, SamePart
  <2>6. SubSeq(x, 1, n) = x
    BY <1>7, SubSeqFull
  <2> QED
    BY <1>1, <2>1, <2>5, <2>6, Zenon DEF Echoed
<1>10. /\ OnHand(c) = << >> /\ OnHand(c)' = x
       /\ \A d \in Client \ {c} : OnHand(d) = << >> /\ OnHand(d)' = << >>
  BY <1>2, <1>3, <1>9 DEF OnHand
<1>11. toServer'[c] = r /\ \A d \in Client \ {c} : toServer'[d] = toServer[d]
  BY <1>0, <1>1, <1>3, <1>4, <1>6 DEF TypeOK
<1>12. Silent'
  BY <1>0, <1>2, <1>8, <1>11 DEF Silent
<1>13. Underway'
  <2>1. ASSUME cpc[c] = "recv"
        PROVE  output[c] = << >> /\ message[c] = toClient[c] \o x \o r
    <3>1. PICK t : t = toClient[c]
      OBVIOUS
    <3>2. t \in Seq(Nat)
      BY <1>0, <3>1 DEF TypeOK
    <3>3. output[c] = << >> /\ message[c] = t \o << >> \o s
      BY <1>0, <1>4, <1>10, <2>1, <3>1, Zenon DEF Underway
    <3>4. t \o << >> = t
      BY <3>2, ConcatEmptySeq
    <3>5. (t \o x) \o r = t \o (x \o r)
      <4>1. x \in Seq(Nat) /\ r \in Seq(Nat)
        BY <1>7
      <4> QED
        BY <3>2, <4>1, Regroup, Zenon
    <3> QED
      BY <1>7, <3>1, <3>3, <3>4, <3>5, Zenon
  <2>2. ASSUME NEW d \in Client, cpc'[d] = "recv"
        PROVE  output'[d] = << >> /\ message'[d] = toClient'[d] \o OnHand(d)' \o toServer'[d]
    <3>1. CASE d = c
      BY <1>2, <1>10, <1>11, <2>1, <2>2, <3>1, Zenon
    <3>2. CASE d # c
      <4>1. /\ cpc[d] = "recv" /\ OnHand(d)' = OnHand(d) /\ toServer'[d] = toServer[d]
            /\ UNCHANGED <<message, toClient, output>>
        BY <1>2, <1>10, <1>11, <2>2, <3>2
      <4>2. output[d] = << >> /\ message[d] = toClient[d] \o OnHand(d) \o toServer[d]
        BY <1>0, <4>1 DEF Underway
      <4> QED
        BY <4>1, <4>2, Zenon
    <3> QED
      BY <3>1, <3>2
  <2> QED
    BY <1>2, <1>3, <1>8, <2>2 DEF Underway
<1>14. OwnEcho'
  BY <1>0, <1>2 DEF OwnEcho
<1> QED
  BY <1>12, <1>13, <1>14 DEF Bytes

(* What the server sends comes behind what is on its way already. *)
LEMMA ServerSendStep == ASSUME IInv, ServerSend PROVE Bytes'
<1>0. TypeOK /\ OneConnection /\ Silent /\ Underway /\ OwnEcho
  BY DEF IInv
<1>1. /\ spc = "send" /\ spc' = "recv" /\ conn \in Client
      /\ UNCHANGED <<conn, buffer, received, cpc, message, toServer, output>>
  BY <1>0 DEF ServerSend, server, locals, OneConnection, Serving
<1>2. \A d \in Client : OnHand(d)' = << >>
  BY <1>1 DEF OnHand
<1>3. CASE Gone(conn)
  <2>1. UNCHANGED toClient
    BY <1>3 DEF ServerSend
  <2>2. \A d \in Client : cpc[d] = "recv" => OnHand(d) = << >>
    BY <1>3 DEF OnHand, Gone
  <2> QED
    BY <1>1, <1>2, <2>1, <2>2, BytesStay
<1>4. CASE ~Gone(conn)
  <2>1. PICK c \in Client : c = conn
    BY <1>1
  <2>2. cpc[c] = "recv"
    BY <1>0, <1>1, <1>4, <2>1 DEF Underway, Gone, TypeOK
  <2>3. PICK t, s, e : t = toClient[c] /\ s = toServer[c] /\ e = Echoed
    OBVIOUS
  <2>4. t \in Seq(Nat) /\ s \in Seq(Nat) /\ e \in Seq(Nat)
    BY <1>0, <2>3, EchoedType DEF TypeOK
  <2>5. PICK m : m = t \o e
    OBVIOUS
  <2>6. m \in Seq(Nat)
    BY <2>4, <2>5, ConcatProperties
  <2>7. toClient' = [toClient EXCEPT ![c] = m]
    BY <1>4, <2>1, <2>3, <2>5, Zenon DEF ServerSend
  <2>8. toClient'[c] = m /\ \A d \in Client \ {c} : toClient'[d] = toClient[d]
    BY <1>0, <2>7 DEF TypeOK
  <2>9. output[c] = << >> /\ message[c] = m \o s
    BY <1>0, <1>1, <2>1, <2>2, <2>3, <2>5, Zenon DEF Underway, OnHand
  <2>10. Silent'
    BY <1>0, <1>1, <2>2, <2>8 DEF Silent, Unheard
  <2>11. Underway'
    <3>1. m \o << >> = m
      BY <2>6, ConcatEmptySeq
    <3>2. message[c] = m \o << >> \o s
      BY <2>9, <3>1, Zenon
    <3>3. ASSUME NEW d \in Client, cpc'[d] = "recv"
          PROVE  output'[d] = << >> /\ message'[d] = toClient'[d] \o OnHand(d)' \o toServer'[d]
      <4>1. CASE d = c
        BY <1>1, <1>2, <2>3, <2>8, <2>9, <3>2, <4>1, Zenon
      <4>2. CASE d # c
        <5>1. /\ cpc[d] = "recv" /\ OnHand(d) = << >> /\ OnHand(d)' = << >>
              /\ toClient'[d] = toClient[d] /\ UNCHANGED <<message, toServer, output>>
          BY <1>1, <1>2, <2>1, <2>8, <3>3, <4>2 DEF OnHand
        <5>2. output[d] = << >> /\ message[d] = toClient[d] \o OnHand(d) \o toServer[d]
          BY <1>0, <5>1 DEF Underway
        <5> QED
          BY <5>1, <5>2, Zenon
      <4> QED
        BY <4>1, <4>2
    <3> QED
      BY <1>1, <3>3 DEF Underway
  <2>12. OwnEcho'
    <3>1. IsPrefix(m, m \o s)
      BY <2>4, <2>6, FirstIsPrefix
    <3>2. << >> \o m = m
      BY <2>6, ConcatEmptySeq
    <3>3. IsPrefix(output'[c] \o toClient'[c], message'[c])
      BY <1>1, <2>8, <2>9, <3>1, <3>2, Zenon
    <3>4. ASSUME NEW d \in Client \ {c}
          PROVE  IsPrefix(output'[d] \o toClient'[d], message'[d])
      BY <1>0, <1>1, <2>8, Zenon DEF OwnEcho
    <3>5. \A d \in Client : Len(output'[d]) <= BufSize
      BY <1>0, <1>1 DEF OwnEcho
    <3> QED
      BY <3>3, <3>4, <3>5, Zenon DEF OwnEcho
  <2> QED
    BY <2>10, <2>11, <2>12 DEF Bytes
<1> QED
  BY <1>3, <1>4

(* A client speaks once; nothing of its message is anywhere before. *)
LEMMA ClientSendStep == ASSUME IInv, NEW c \in Client, ClientSend(c) PROVE Bytes'
<1>0. TypeOK /\ Silent /\ Underway /\ OwnEcho
  BY DEF IInv
<1>1. /\ cpc[c] = "send" /\ toServer' = [toServer EXCEPT ![c] = toServer[c] \o message[c]]
      /\ cpc' = [cpc EXCEPT ![c] = "recv"]
      /\ UNCHANGED <<spc, conn, buffer, received, message, toClient, output>>
  BY DEF ClientSend, Goes, server, locals
<1>2. output[c] = << >> /\ toServer[c] = << >> /\ toClient[c] = << >>
  BY <1>0, <1>1 DEF Silent, Unheard
<1>3. PICK m : m = message[c]
  OBVIOUS
<1>4. m \in Seq(Nat)
  BY <1>0, <1>3 DEF TypeOK
<1>5. << >> \o m = m /\ << >> \o << >> = << >>
  BY <1>4, ConcatEmptySeq
<1>6. toServer' = [toServer EXCEPT ![c] = m]
  BY <1>1, <1>2, <1>3, <1>5, Zenon
<1>7. /\ toServer'[c] = m /\ cpc'[c] = "recv"
      /\ \A d \in Client \ {c} : toServer'[d] = toServer[d] /\ cpc'[d] = cpc[d]
  BY <1>0, <1>1, <1>6 DEF TypeOK
<1>8. \A d \in Client : OnHand(d)' = OnHand(d)
  BY <1>1 DEF OnHand, Echoed
<1>9. OnHand(c) = << >>
  BY <1>0, <1>1 DEF OnHand, Underway, Unheard
<1>10. Silent'
  BY <1>0, <1>1, <1>7 DEF Silent, Unheard
<1>11. Underway'
  <2>1. message[c] = << >> \o << >> \o m
    BY <1>3, <1>5, Zenon
  <2>2. ASSUME NEW d \in Client, cpc'[d] = "recv"
        PROVE  output'[d] = << >> /\ message'[d] = toClient'[d] \o OnHand(d)' \o toServer'[d]
    <3>1. CASE d = c
      BY <1>1, <1>2, <1>7, <1>8, <1>9, <2>1, <3>1, Zenon
    <3>2. CASE d # c
      <4>1. /\ cpc[d] = "recv" /\ OnHand(d)' = OnHand(d) /\ toServer'[d] = toServer[d]
            /\ UNCHANGED <<message, toClient, output>>
        BY <1>1, <1>7, <1>8, <2>2, <3>2
      <4>2. output[d] = << >> /\ message[d] = toClient[d] \o OnHand(d) \o toServer[d]
        BY <1>0, <4>1 DEF Underway
      <4> QED
        BY <4>1, <4>2, Zenon
    <3> QED
      BY <3>1, <3>2
  <2>3. spc' = "send" => cpc'[conn'] \notin Unheard
    BY <1>0, <1>1, <1>7 DEF IInv, OneConnection, Serving, Underway, Unheard
  <2> QED
    BY <2>2, <2>3 DEF Underway
<1>12. OwnEcho'
  BY <1>0, <1>1 DEF OwnEcho
<1> QED
  BY <1>10, <1>11, <1>12 DEF Bytes

(* A client prints once, what has come so far. *)
LEMMA ClientReceiveStep == ASSUME IInv, NEW c \in Client, ClientReceive(c) PROVE Bytes'
<1>0. TypeOK /\ Silent /\ Underway /\ OwnEcho
  BY DEF IInv
<1>1. PICK n \in 1..Smaller(BufSize, Len(toClient[c])) :
        /\ output' = [output EXCEPT ![c] = SubSeq(toClient[c], 1, n)]
        /\ toClient' = [toClient EXCEPT ![c] = SubSeq(toClient[c], n + 1, Len(toClient[c]))]
  BY DEF ClientReceive
<1>2. /\ cpc[c] = "recv" /\ cpc' = [cpc EXCEPT ![c] = "done"]
      /\ UNCHANGED <<spc, conn, buffer, received, message, toServer>>
  BY DEF ClientReceive, Goes, server, locals
<1>3. PICK t : t = toClient[c]
  OBVIOUS
<1>4. t \in Seq(Nat)
  BY <1>0, <1>3 DEF TypeOK
<1>5. PICK x, r : x = SubSeq(t, 1, n) /\ r = SubSeq(t, n + 1, Len(t))
  OBVIOUS
<1>6. n \in 1..BufSize /\ Len(x) = n /\ x \o r = t
  BY <1>1, <1>3, <1>4, <1>5, Received
<1>7. output' = [output EXCEPT ![c] = x] /\ toClient' = [toClient EXCEPT ![c] = r]
  BY <1>1, <1>3, <1>5, Zenon
<1>8. /\ output'[c] = x /\ toClient'[c] = r /\ cpc'[c] = "done"
      /\ \A d \in Client \ {c} : /\ output'[d] = output[d] /\ toClient'[d] = toClient[d]
                                 /\ cpc'[d] = cpc[d]
  BY <1>0, <1>2, <1>7 DEF TypeOK
<1>9. Silent'
  BY <1>0, <1>2, <1>8 DEF Silent, Unheard
<1>10. Underway'
  <2>1. ASSUME NEW d \in Client, cpc'[d] = "recv"
        PROVE  output'[d] = << >> /\ message'[d] = toClient'[d] \o OnHand(d)' \o toServer'[d]
    <3>1. /\ d # c /\ cpc[d] = "recv" /\ output'[d] = output[d] /\ toClient'[d] = toClient[d]
          /\ UNCHANGED <<message, toServer>>
      BY <1>2, <1>8, <2>1
    <3>2. OnHand(d)' = OnHand(d)
      BY <1>2 DEF OnHand, Echoed
    <3>3. output[d] = << >> /\ message[d] = toClient[d] \o OnHand(d) \o toServer[d]
      BY <1>0, <3>1 DEF Underway
    <3> QED
      BY <3>1, <3>2, <3>3, Zenon
  <2>2. spc' = "send" => cpc'[conn'] \notin Unheard
    BY <1>0, <1>2, <1>8 DEF IInv, OneConnection, Serving, Underway, Unheard
  <2> QED
    BY <2>1, <2>2 DEF Underway
<1>11. OwnEcho'
  <2>1. output[c] = << >> /\ << >> \o t = t
    BY <1>0, <1>2, <1>4, ConcatEmptySeq DEF Underway
  <2>2. IsPrefix(output[c] \o toClient[c], message[c])
    BY <1>0 DEF OwnEcho
  <2>3. output'[c] \o toClient'[c] = output[c] \o toClient[c]
    BY <1>3, <1>6, <1>8, <2>1, Zenon
  <2>4. IsPrefix(output'[c] \o toClient'[c], message'[c])
    BY <1>2, <2>2, <2>3, Zenon
  <2>5. ASSUME NEW d \in Client \ {c} PROVE IsPrefix(output'[d] \o toClient'[d], message'[d])
    BY <1>0, <1>2, <1>8, Zenon DEF OwnEcho
  <2>6. Len(output'[c]) <= BufSize
    BY <1>6, <1>8, BufferAssumption
  <2>7. ASSUME NEW d \in Client \ {c} PROVE Len(output'[d]) <= BufSize
    BY <1>0, <1>8 DEF OwnEcho
  <2> QED
    BY <2>4, <2>5, <2>6, <2>7 DEF OwnEcho
<1> QED
  BY <1>9, <1>10, <1>11 DEF Bytes
----------------------------------------------------------------------------
(* The invariant *)

(* Nobody has come and nothing has been sent. *)
LEMMA Initially == Init => IInv
<1> SUFFICES ASSUME Init PROVE IInv
  OBVIOUS
<1>0. /\ spc = "getaddrinfo" /\ res = "none" /\ lfd = "none"
      /\ \A c \in Client : cpc[c] = "start"
  BY DEF Init, Setup!Init
<1>1. TypeOK
  <2>1. << >> \in Seq(Client) /\ << >> \in Seq([family : Nat, up : BOOLEAN])
    OBVIOUS
  <2>2. message \in [Client -> Seq(Nat)]
    BY MessagesAssumption DEF Init
  <2> QED
    BY <1>0, <2>1, <2>2, BufferAssumption DEF Init, TypeOK, SettingUp, Unheard
<1>2. SetUp /\ OneConnection /\ Tried /\ FailsOnlyUnreachable
  BY <1>0 DEF Init, SetUp, OneConnection, Tried, FailsOnlyUnreachable, Serving
<1>3. Silent /\ Underway
  BY <1>0 DEF Init, Silent, Underway
<1>4. OwnEcho
  <2>1. \A c \in Client : output[c] = << >> /\ toClient[c] = << >> /\ message[c] \in Seq(Nat)
    BY <1>1 DEF Init, TypeOK
  <2>2. ASSUME NEW m \in Seq(Nat) PROVE IsPrefix(<< >> \o << >>, m)
    <3>1. PICK e : e = << >>
      OBVIOUS
    <3>2. e \in Seq(Nat) /\ e \o e = e /\ e \o m = m
      BY <3>1, ConcatEmptySeq
    <3>3. IsPrefix(e, e \o m)
      BY <3>2, FirstIsPrefix
    <3> QED
      BY <3>1, <3>2, <3>3, Zenon
  <2>3. ASSUME NEW c \in Client PROVE IsPrefix(output[c] \o toClient[c], message[c])
    BY <2>1, <2>2, Zenon
  <2>4. \A c \in Client : Len(output[c]) <= BufSize
    BY <2>1, BufferAssumption
  <2> QED
    BY <2>3, <2>4 DEF OwnEcho
<1> QED
  BY <1>1, <1>2, <1>3, <1>4 DEF IInv

(* The invariant holds throughout. *)
LEMMA Invariance == Spec => []IInv
<1>1. IInv /\ [Next]_vars => IInv'
  <2> SUFFICES ASSUME IInv, [Next]_vars PROVE IInv'
    OBVIOUS
  <2>1. CASE UNCHANGED vars
    <3>1. UNCHANGED <<spc, res, lfd, pending, conn, fd, buffer, received, cpc, addresses, addr,
                      message, toServer, toClient, output>>
      BY <2>1 DEF vars, server, locals, streams
    <3>2. TypeOK' /\ SetUp' /\ OneConnection' /\ Tried' /\ FailsOnlyUnreachable'
      BY <3>1 DEF IInv, TypeOK, SetUp, OneConnection, Tried, Leads, FailsOnlyUnreachable
    <3>3. Bytes'
      <4>1. \A c \in Client : OnHand(c)' = OnHand(c)
        BY <3>1 DEF OnHand, Echoed
      <4>2. spc' = "send" => cpc'[conn'] \notin Unheard
        BY <3>1 DEF IInv, Underway
      <4> QED
        BY <3>1, <4>1, <4>2, BytesStay
    <3> QED
      BY <3>2, <3>3 DEF IInv, Bytes
  <2>2. CASE Next
    <3>1. Bytes'
      BY <2>2, QuietSteps, ServerReceiveStep, ServerSendStep, ClientSendStep, ClientReceiveStep
         DEF Next, Serve, ClientStep
    <3> QED
      BY <2>2, <3>1, TypeOKStep, SetUpStep, OneConnectionStep, TriedStep DEF IInv, Bytes
  <2> QED
    BY <2>1, <2>2
<1> QED
  BY Initially, <1>1, PTL DEF Spec
----------------------------------------------------------------------------

(* What comes back to a client, and what it prints of it, is the beginning of
   its own message. *)
THEOREM EchoesTheSender == Spec => []OwnEcho
<1>1. IInv => OwnEcho
  BY DEF IInv
<1> QED
  BY <1>1, Invariance, PTL

(* Between two connections, and when the server has ended, nothing is open that
   should not be. *)
THEOREM NothingStaysOpen == Spec => []DescriptorsReleased
<1>1. IInv => DescriptorsReleased
  BY DEF IInv, SetUp, OneConnection, Serving, DescriptorsReleased
<1> QED
  BY <1>1, Invariance, PTL

(* A client gives up when no address of the first one's family leads to the
   server, and not before. *)
THEOREM GivesUpLast == Spec => []FailsOnlyUnreachable
<1>1. IInv => FailsOnlyUnreachable
  BY DEF IInv
<1> QED
  BY <1>1, Invariance, PTL
=============================================================================
