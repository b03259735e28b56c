--------------------------- MODULE SessionsProofs ---------------------------
(***************************************************************************)
(* What one connection keeps whatever the server is and says, and for any  *)
(* limits: what is read is bounded, a guess for another method is never    *)
(* taken for the host key, both sides seal and open each packet alike, and *)
(* the two never wait for each other. The last rests on InStep, which says *)
(* for each place of the scanner which answers are under way and which     *)
(* requests still call for one.                                            *)
(***************************************************************************)
EXTENDS Sessions, SequenceTheorems, FiniteSetTheorems, TLAPS

Asked == {"KEXINIT_strict", "KEXINIT", "GEX_REQUEST", "INIT", "NEWKEYS", "SERVICE_REQUEST",
          "USERAUTH_REQUEST"}
Answers == {"KEXINIT", "GROUP", "REPLY", "NEWKEYS", "SERVICE_ACCEPT", "USERAUTH_FAILURE",
            "USERAUTH_SUCCESS"}
Sent == PassedOver \cup Answers
        \cup {"LINE", "BANNER", "OLD_BANNER", "USERAUTH_BANNER", "OTHER", "DISCONNECT"}

Requests == [type : Asked, seq : Nat, keyed : BOOLEAN]
Packets == [type : Sent, by : {"server", "right_guess", "wrong_guess"}, sound : BOOLEAN,
            seq : Nat, keyed : BOOLEAN]

Exchanges == {"kexinit", "discard", "group", "reply", "newkeys", "accept", "auth"}

\* Each variable has its type, and each probe keeps to its part of the exchange.
TypeInv ==
    /\ kind \in Kinds /\ server \in Servers
    /\ pc \in {"banner", "closed"} \cup Exchanges
    /\ kind = "kexinit" => pc \in {"banner", "kexinit", "closed"}
    /\ kind = "host_key" => pc \notin {"newkeys", "accept", "auth"}
    /\ kind = "auth" => pc # "discard"
    /\ keyed \in BOOLEAN /\ sendSeq \in Nat /\ recvSeq \in Nat
    /\ skipped \in Nat /\ skipped < ReadLimit
    /\ lines \in Nat /\ replies \in Nat /\ replies < AuthLimit
    /\ toServer \in Seq(Requests) /\ toClient \in Seq(Packets)
    /\ stage \in {"banner", "kexinit", "wait"}
    /\ strictOn \in BOOLEAN /\ serverKeyed \in BOOLEAN
    /\ serverSend \in Nat /\ serverRecv \in Nat /\ noise \in Nat

-----------------------------------------------------------------------------
\* How many messages the probe has read for good, and how many it may read.
Got ==
    CASE pc \in {"banner", "kexinit"} -> 0
      [] pc = "discard" -> 1
      [] pc = "group" -> IF kind = "host_key" THEN 2 ELSE 1
      [] pc = "reply" -> IF kind = "host_key" THEN 3 ELSE 2
      [] pc = "newkeys" -> 3
      [] pc = "accept" -> 4
      [] pc = "auth" -> 5 + replies

MayRead ==
    CASE kind = "kexinit" -> 1
      [] kind = "host_key" -> 4
      [] kind = "auth" -> 5 + AuthLimit

\* Between two messages fewer than ReadLimit packets were passed over.
Counted ==
    IF pc = "closed" THEN recvSeq <= ReadLimit * MayRead
    ELSE recvSeq <= ReadLimit * Got + skipped

-----------------------------------------------------------------------------
WrongGuesses == {k \in DOMAIN toClient : toClient[k].by = "wrong_guess"}
Kexinits == {k \in DOMAIN toClient : toClient[k].type = "KEXINIT"}

\* A wrong guess is right behind the one KEXINIT, or it is what the probe of the
\* host key is about to throw away.
Guesses ==
    /\ kind = "host_key" => taken # "wrong_guess"
    /\ pc # "closed" =>
          /\ stage \in {"banner", "kexinit"} => Kexinits = {} /\ pc \in {"banner", "kexinit"}
          /\ \A j, k \in Kexinits : j = k
          /\ WrongGuesses # {} => server.follows /\ ~GuessedRight
          /\ \A k \in WrongGuesses : toClient[k].type \notin PassedOver
          /\ kind = "host_key" => \A k \in WrongGuesses :
                \/ pc = "discard" /\ k = 1
                \/ pc \in {"banner", "kexinit"} /\ k > 1 /\ k - 1 \in Kexinits

-----------------------------------------------------------------------------
Banners == {k \in DOMAIN toClient : toClient[k].type \in {"BANNER", "OLD_BANNER"}}
NewKeys == {k \in DOMAIN toClient : toClient[k].type = "NEWKEYS"}

\* Encryption starts right behind NEWKEYS in either direction.
Sealed ==
    /\ keyed => serverKeyed /\ \A k \in DOMAIN toClient : toClient[k].keyed
    /\ ~keyed /\ serverKeyed => NewKeys # {}
    /\ ~serverKeyed => NewKeys = {} /\ \A k \in DOMAIN toClient : ~toClient[k].keyed
    /\ ~keyed => \A k \in DOMAIN toClient : toClient[k].keyed => \E n \in NewKeys : n < k
    /\ \A n \in NewKeys : \A k \in DOMAIN toClient : n < k => toClient[k].keyed
    /\ pc \in {"banner", "kexinit", "discard", "group"} =>
          ~serverKeyed /\ \A i \in DOMAIN toServer : toServer[i].type # "INIT"
    /\ \A i \in DOMAIN toServer : toServer[i].keyed => keyed

\* The probe of the authentication methods counts on after NEWKEYS, as its
\* server does: neither has asked for strict key exchange.
Numbered ==
    /\ ~strictOn /\ \A i \in DOMAIN toServer : toServer[i].type # "KEXINIT_strict"
    /\ sendSeq = serverRecv + Len(toServer)
    /\ \A i \in DOMAIN toServer : toServer[i].seq = serverRecv + i - 1
    /\ pc = "banner" /\ stage = "banner" =>
          serverSend = 0 /\ \A k \in DOMAIN toClient : toClient[k].type = "LINE"
    /\ pc = "banner" => recvSeq = 0
    /\ pc = "banner" /\ stage # "banner" => \E b \in Banners :
          /\ serverSend = Len(toClient) - b
          /\ \A k \in DOMAIN toClient : k < b => toClient[k].type = "LINE"
          /\ \A k \in DOMAIN toClient : k > b => toClient[k].seq = k - b - 1
    /\ pc # "banner" =>
          /\ stage # "banner"
          /\ serverSend = recvSeq + Len(toClient)
          /\ \A k \in DOMAIN toClient : toClient[k].seq = recvSeq + k - 1

SealInv ==
    pc # "closed" =>
        /\ Sealed
        /\ kind = "auth" => Numbered
        /\ kind # "auth" => ~keyed

-----------------------------------------------------------------------------
\* The answers under way, and whether a request still is.
At(types) == {k \in DOMAIN toClient : toClient[k].type \in types}
Filler == At(PassedOver)
BannerLines == At({"LINE"})
Words == {k \in DOMAIN toClient : toClient[k].type \notin PassedOver \cup {"LINE"}}
Talk == {toClient[k].type : k \in Words}
Pending(type) == \E i \in DOMAIN toServer : toServer[i].type = type

Turn ==
    [KEXINIT |-> 1, GEX_REQUEST |-> 2, INIT |-> 3, NEWKEYS |-> 4, SERVICE_REQUEST |-> 5,
     USERAUTH_REQUEST |-> 6]
LastAsked ==
    [banner |-> 0, kexinit |-> 1, discard |-> 1, group |-> 2, reply |-> 3, newkeys |-> 4,
     accept |-> 5, auth |-> 6]
TurnOf(type) == IF type = "KEXINIT_strict" THEN 1 ELSE Turn[type]

Guess == IF server.follows THEN {GuessedType} ELSE {}

\* For each place of the scanner what has been said and not been read.
Said ==
    /\ pc = "banner" =>
          Talk = CASE stage = "banner" -> {}
                   [] stage = "kexinit" -> {"BANNER"}
                   [] stage = "wait" -> {"BANNER", "KEXINIT"} \cup Guess
    /\ pc = "kexinit" =>
          Talk = IF stage = "kexinit" THEN {} ELSE {"KEXINIT"} \cup Guess
    /\ pc = "discard" => Talk = Guess /\ server.follows /\ ~GuessedRight
    /\ pc = "group" =>
          Talk = IF Pending("GEX_REQUEST") /\ ~Guessed("GROUP") THEN {} ELSE {"GROUP"}
    /\ pc = "reply" =>
          Talk = IF ~Pending("INIT") THEN {"REPLY", "NEWKEYS"}
                 ELSE IF Guessed("REPLY") THEN {"REPLY"} ELSE {}
    /\ pc = "newkeys" => Talk = IF Pending("INIT") THEN {} ELSE {"NEWKEYS"}
    /\ pc = "accept" => Talk = IF Pending("SERVICE_REQUEST") THEN {} ELSE {"SERVICE_ACCEPT"}
    /\ pc = "auth" =>
          IF Pending("USERAUTH_REQUEST") THEN Talk = {}
          ELSE Talk = {"USERAUTH_FAILURE"} \/ Talk = {"USERAUTH_SUCCESS"}

\* Answers come in the order of the protocol, each of them once.
Place ==
    [BANNER |-> 1, KEXINIT |-> 2, GROUP |-> 3, REPLY |-> 4, NEWKEYS |-> 5,
     SERVICE_ACCEPT |-> 6, USERAUTH_FAILURE |-> 7, USERAUTH_SUCCESS |-> 7]

InOrder ==
    /\ \A j, k \in Words : j < k => Place[toClient[j].type] < Place[toClient[k].type]
    /\ \A j \in BannerLines, k \in Words : j < k

InTurn ==
    /\ \A i \in DOMAIN toServer : TurnOf(toServer[i].type) <= LastAsked[pc]
    /\ \A i, j \in DOMAIN toServer :
          i < j => TurnOf(toServer[i].type) < TurnOf(toServer[j].type)

Asking ==
    /\ InTurn
    /\ Pending("GEX_REQUEST") => pc = "group" \/ Guessed("GROUP")
    /\ Pending("INIT") => pc \in {"reply", "newkeys"}
    /\ Pending("INIT") /\ pc = "newkeys" => Guessed("REPLY")
    /\ Pending("SERVICE_REQUEST") => pc = "accept"

\* Nothing the server says beside the protocol reaches a limit.
WithinLimits ==
    /\ pc = "banner" => skipped = 0
    /\ pc # "banner" => BannerLines = {}
    /\ pc = "banner" => lines + Cardinality(BannerLines) < LineLimit
    /\ pc = "banner" /\ stage = "banner" =>
          Filler = {} /\ noise < LineLimit /\ lines + Cardinality(BannerLines) <= noise
    /\ \/ Filler = {} /\ skipped = 0
       \/ noise < ReadLimit /\ skipped + Cardinality(Filler) <= noise

InStep ==
    /\ pc # "banner" => stage # "banner"
    /\ stage # "wait" => pc \in {"banner", "kexinit"}
    /\ \A k \in DOMAIN toClient : toClient[k].type \in {"GROUP", "REPLY"} => toClient[k].sound
    /\ pc = "group" => server.kex = "group_exchange"
    /\ Said /\ InOrder /\ Asking /\ WithinLimits

\* What explains an error, and does not pass.
Excused ==
    \/ kind = "host_key" /\ ~server.offersKey
    \/ kind = "auth" /\ (~SessionPossible \/ server.kex = "post_quantum")
    \/ kind = "auth" /\ server.follows /\ ~GuessedRight

\* The two stay in step until something explains that they do not.
TalkInv == cause \/ Excused \/ (outcome # "error" /\ (pc # "closed" => InStep))
-----------------------------------------------------------------------------
(* The two queues                                                          *)

\* The first element of a queue is taken.
LEMMA Taken ==
    ASSUME NEW S, NEW q \in Seq(S), q # <<>>, NEW t, t = Tail(q)
    PROVE  /\ Len(q) \in Nat /\ DOMAIN q = 1..Len(q) /\ 1 \in DOMAIN q
           /\ Head(q) = q[1] /\ q[1] \in S
           /\ t \in Seq(S) /\ Len(t) = Len(q) - 1 /\ DOMAIN t = 1..Len(q) - 1
           /\ \A i \in DOMAIN t : i + 1 \in DOMAIN q /\ t[i] = q[i + 1]
           /\ \A i \in DOMAIN q : i # 1 => i - 1 \in DOMAIN t /\ t[i - 1] = q[i]
<1>1. Len(q) \in Nat \ {0} /\ DOMAIN q = 1..Len(q)
  BY EmptySeq, LenProperties
<1>2. /\ t \in Seq(S) /\ Len(t) = Len(q) - 1
      /\ \A i \in 1..Len(t) : t[i] = q[i + 1]
  BY HeadTailProperties
<1>3. DOMAIN t = 1..Len(q) - 1
  BY <1>2, LenProperties
<1>4. Head(q) = q[1] /\ 1 \in DOMAIN q
  BY <1>1
<1>5. q[1] \in S
  BY <1>1, ElementOfSeq
<1>6. \A i \in DOMAIN t : i + 1 \in DOMAIN q /\ t[i] = q[i + 1]
  BY <1>1, <1>2, <1>3
<1>7. ASSUME NEW i \in DOMAIN q, i # 1
      PROVE  i - 1 \in DOMAIN t /\ t[i - 1] = q[i]
  <2>1. i - 1 \in DOMAIN t /\ (i - 1) + 1 = i
    BY <1>1, <1>3, <1>7
  <2> QED BY <1>6, <2>1
<1> QED BY <1>1, <1>2, <1>3, <1>4, <1>5, <1>6, <1>7

\* Short queues.
LEMMA OneAndTwo ==
    /\ \A S : \A x \in S : <<x>> \in Seq(S)
    /\ \A S : \A x, y \in S : <<x, y>> \in Seq(S)
    /\ \A x, y : <<x>> \o <<y>> = <<x, y>>
<1>1. ASSUME NEW S, NEW x \in S
      PROVE  <<x>> \in Seq(S)
  OBVIOUS
<1>2. ASSUME NEW S, NEW x \in S, NEW y \in S
      PROVE  <<x, y>> \in Seq(S)
  OBVIOUS
<1>3. ASSUME NEW x, NEW y
      PROVE  <<x>> \o <<y>> = <<x, y>>
  <2> DEFINE S == {x, y}
             s == <<x>>
             t == <<y>>
             st == <<x, y>>
  <2>1. /\ s \in Seq(S) /\ Len(s) = 1 /\ s[1] = x
        /\ t \in Seq(S) /\ Len(t) = 1 /\ t[1] = y
        /\ st \in Seq(S) /\ Len(st) = 2 /\ st[1] = x /\ st[2] = y
    BY <1>1, <1>2
  <2> HIDE DEF S, s, t, st
  <2>2. /\ s \o t \in Seq(S) /\ Len(s \o t) = 2
        /\ \A i \in 1..2 : (s \o t)[i] = IF i <= 1 THEN s[i] ELSE t[i - 1]
    BY <2>1, ConcatProperties
  <2>3. \A i \in 1..2 : (s \o t)[i] = st[i]
    BY <2>1, <2>2
  <2>4. s \o t = st
    BY <2>1, <2>2, <2>3, SeqEqual
  <2> QED BY <2>4 DEF s, t, st
<1> QED BY <1>1, <1>2, <1>3

\* Elements are added at the end.
LEMMA Added ==
    ASSUME NEW S, NEW q \in Seq(S), NEW s \in Seq(S), NEW t, t = q \o s
    PROVE  /\ Len(q) \in Nat /\ DOMAIN q = 1..Len(q) /\ Len(s) \in Nat
           /\ t \in Seq(S) /\ Len(t) = Len(q) + Len(s) /\ DOMAIN t = 1..Len(q) + Len(s)
           /\ \A i \in DOMAIN q : i \in DOMAIN t /\ t[i] = q[i]
           /\ \A k \in 1..Len(s) : Len(q) + k \in DOMAIN t /\ t[Len(q) + k] = s[k]
           /\ \A i \in DOMAIN t :
                 i \in DOMAIN q \/ (i > Len(q) /\ i - Len(q) \in 1..Len(s) /\ t[i] = s[i - Len(q)])
<1>1. Len(q) \in Nat /\ DOMAIN q = 1..Len(q) /\ Len(s) \in Nat
  BY LenProperties
<1>2. /\ t \in Seq(S) /\ Len(t) = Len(q) + Len(s)
      /\ \A i \in 1..Len(q) + Len(s) : t[i] = IF i <= Len(q) THEN q[i] ELSE s[i - Len(q)]
  BY ConcatProperties
<1>3. DOMAIN t = 1..Len(q) + Len(s)
  BY <1>2, LenProperties
<1>4. \A i \in DOMAIN q : i \in DOMAIN t /\ t[i] = q[i]
  BY <1>1, <1>2, <1>3
<1>5. ASSUME NEW k \in 1..Len(s)
      PROVE  Len(q) + k \in DOMAIN t /\ t[Len(q) + k] = s[k]
  <2>1. /\ Len(q) + k \in 1..Len(q) + Len(s) /\ ~(Len(q) + k <= Len(q))
        /\ (Len(q) + k) - Len(q) = k
    BY <1>1
  <2> QED BY <1>2, <1>3, <2>1
<1>6. \A i \in DOMAIN t :
         i \in DOMAIN q \/ (i > Len(q) /\ i - Len(q) \in 1..Len(s) /\ t[i] = s[i - Len(q)])
  BY <1>1, <1>2, <1>3
<1> QED BY <1>1, <1>2, <1>3, <1>4, <1>5, <1>6

\* A queue to which one element is added.
LEMMA AddedOne ==
    ASSUME NEW S, NEW q \in Seq(S), NEW x \in S, NEW t, t = q \o <<x>>
    PROVE  /\ Len(q) \in Nat /\ DOMAIN q = 1..Len(q)
           /\ t \in Seq(S) /\ Len(t) = Len(q) + 1 /\ DOMAIN t = 1..Len(q) + 1
           /\ \A i \in DOMAIN q : i \in DOMAIN t /\ t[i] = q[i]
           /\ t[Len(q) + 1] = x
           /\ \A i \in DOMAIN t : i \in DOMAIN q \/ i = Len(q) + 1
<1> DEFINE s == <<x>>
<1>1. s \in Seq(S) /\ Len(s) = 1 /\ s[1] = x
  OBVIOUS
<1>2. t = q \o s
  OBVIOUS
<1> HIDE DEF s
<1>3. /\ Len(q) \in Nat /\ DOMAIN q = 1..Len(q)
      /\ t \in Seq(S) /\ Len(t) = Len(q) + Len(s) /\ DOMAIN t = 1..Len(q) + Len(s)
      /\ \A i \in DOMAIN q : i \in DOMAIN t /\ t[i] = q[i]
      /\ \A k \in 1..Len(s) : t[Len(q) + k] = s[k]
  BY <1>1, <1>2, Added
<1> QED BY <1>1, <1>3

-----------------------------------------------------------------------------
(* What a step of the scanner amounts to                                   *)

LEMMA Limits ==
    /\ LineLimit \in Nat /\ ReadLimit \in Nat /\ AuthLimit \in Nat /\ NoiseLimit \in Nat
    /\ LineLimit > 0 /\ ReadLimit > 0 /\ AuthLimit > 0
    /\ Kinds \subseteq AllKinds /\ Servers \subseteq ServerRecords
BY SessionsAssumption

Silent == toServer' = toServer /\ sendSeq' = sendSeq
Sends(type) ==
    /\ toServer' = toServer \o <<[type |-> type, seq |-> sendSeq, keyed |-> keyed']>>
    /\ sendSeq' = sendSeq + 1

LEMMA SendsNothing ==
    ASSUME TypeInv, NEW next, NEW enc, AwaitKeyed(next, <<>>, enc)
    PROVE  pc' = next /\ keyed' = enc /\ outcome' = outcome /\ Silent
<1>1. toServer \in Seq(Requests) /\ sendSeq \in Nat
  BY DEF TypeInv
<1>2. [i \in DOMAIN <<>> |->
          [type |-> <<>>[i], seq |-> sendSeq + i - 1, keyed |-> enc]] = <<>>
  OBVIOUS
<1>3. toServer \o <<>> = toServer
  BY <1>1, ConcatEmptySeq
<1>4. Len(<<>>) = 0
  OBVIOUS
<1> QED BY <1>1, <1>2, <1>3, <1>4 DEF AwaitKeyed, SendAs, Silent

LEMMA SendsOne ==
    ASSUME TypeInv, NEW next, NEW enc, NEW type, AwaitKeyed(next, <<type>>, enc)
    PROVE  pc' = next /\ keyed' = enc /\ outcome' = outcome /\ Sends(type)
<1>1. sendSeq \in Nat
  BY DEF TypeInv
<1>2. [i \in DOMAIN <<type>> |->
          [type |-> <<type>>[i], seq |-> sendSeq + i - 1, keyed |-> enc]]
      = <<[type |-> type, seq |-> sendSeq, keyed |-> enc]>>
  BY <1>1
<1>3. Len(<<type>>) = 1
  OBVIOUS
<1> QED BY <1>2, <1>3 DEF AwaitKeyed, SendAs, Sends

\* What read_packet does in every case.
Reads ==
    /\ pc \in Exchanges /\ toClient # <<>>
    /\ toClient' = Tail(toClient) /\ recvSeq' = recvSeq + 1
    /\ UNCHANGED <<kind, server, lines, cause, peer>>

Passes ==
    /\ Head(toClient).type \in PassedOver
    /\ skipped' = skipped + 1 /\ skipped' < ReadLimit
    /\ pc' = pc /\ keyed' = keyed /\ Silent
    /\ UNCHANGED <<taken, replies, outcome>>

Goes(from, type, to) == pc = from /\ Head(toClient).type = type /\ pc' = to

Begins ==
    /\ \/ pc = "kexinit" /\ Head(toClient).type = "KEXINIT"
          /\ ~(kind = "host_key" /\ server.follows /\ ~GuessedRight)
       \/ pc = "discard"
    /\ kind \in {"host_key", "auth"}
    /\ IF server.kex = "group_exchange" THEN pc' = "group" /\ Sends("GEX_REQUEST")
       ELSE pc' = "reply" /\ Sends("INIT")

Proceeds ==
    /\ Head(toClient).type \notin PassedOver /\ Head(toClient).type # "DISCONNECT"
    /\ skipped' = 0 /\ outcome' = outcome
    /\ keyed' = (keyed \/ pc = "newkeys")
    /\ taken' = IF pc = "reply" THEN Head(toClient).by ELSE taken
    /\ pc = "auth" \/ replies' = replies
    /\ \/ /\ Goes("kexinit", "KEXINIT", "discard")
          /\ kind = "host_key" /\ server.follows /\ ~GuessedRight
          /\ Silent
       \/ Begins
       \/ Goes("group", "GROUP", "reply") /\ Sends("INIT")
       \/ Goes("reply", "REPLY", "newkeys") /\ kind = "auth" /\ Sends("NEWKEYS")
       \/ Goes("newkeys", "NEWKEYS", "accept") /\ Sends("SERVICE_REQUEST")
       \/ Goes("accept", "SERVICE_ACCEPT", "auth") /\ Sends("USERAUTH_REQUEST")
       \/ /\ Goes("auth", "USERAUTH_BANNER", "auth")
          /\ replies' = replies + 1 /\ replies' < AuthLimit
          /\ Silent

\* Why a probe gives up on a packet.
Refused ==
    \/ Head(toClient).type \in PassedOver /\ skipped + 1 = ReadLimit
    \/ /\ Head(toClient).type \notin PassedOver
       /\ \/ Head(toClient).type = "DISCONNECT"
          \/ Expected[pc] \notin {"any", Head(toClient).type}
          \/ pc \in {"kexinit", "discard"} /\ Excused
          \/ pc \in {"group", "reply"} /\ ~Head(toClient).sound
          \/ pc = "auth" /\ Head(toClient).type \notin {"USERAUTH_FAILURE", "USERAUTH_SUCCESS"}

Ends ==
    /\ pc' = "closed" /\ keyed' = keyed /\ Silent
    /\ skipped' \in {0, skipped} /\ replies' = replies
    /\ taken' = taken \/ (pc = "reply" /\ taken' = Head(toClient).by)
    /\ \/ outcome' \in {"kexinit", "methods", "open_door"}
       \/ outcome' = "host_key" /\ kind = "host_key"
       \/ outcome' = "error" /\ Refused

LEMMA EndingForm ==
    ASSUME NEW how, Finish(how)
    PROVE  pc' = "closed" /\ outcome' = how /\ keyed' = keyed /\ Silent
BY DEF Finish, Silent

\* _run_key_exchange from either of its callers.
LEMMA BeginForm ==
    ASSUME TypeInv, pc \in {"kexinit", "discard"}, kind \in {"host_key", "auth"}, BeginExchange
    PROVE  \/ /\ pc' = "closed" /\ outcome' = "error" /\ keyed' = keyed /\ Silent
              /\ kind = "auth" /\ server.kex = "post_quantum"
           \/ /\ outcome' = outcome /\ keyed' = keyed
              /\ IF server.kex = "group_exchange" THEN pc' = "group" /\ Sends("GEX_REQUEST")
                 ELSE pc' = "reply" /\ Sends("INIT")
<1>1. CASE kind = "auth" /\ server.kex = "post_quantum"
  BY <1>1, EndingForm DEF BeginExchange
<1>2. CASE ~(kind = "auth" /\ server.kex = "post_quantum") /\ server.kex = "group_exchange"
  <2>1. Await("group", <<"GEX_REQUEST">>)
    BY <1>2 DEF BeginExchange
  <2> QED BY <1>2, <2>1, SendsOne DEF Await
<1>3. CASE ~(kind = "auth" /\ server.kex = "post_quantum") /\ server.kex # "group_exchange"
  <2>1. Await("reply", <<"INIT">>)
    BY <1>3 DEF BeginExchange
  <2>2. pc' = "reply" /\ keyed' = keyed /\ outcome' = outcome /\ Sends("INIT")
    BY <2>1, SendsOne DEF Await
  <2> QED BY <1>3, <2>2
<1> QED BY <1>1, <1>2, <1>3

\* Each packet that is read is passed over, moves the probe on, or ends it.
LEMMA ReadForm ==
    ASSUME TypeInv, ReadPacket
    PROVE  Reads /\ (Passes \/ Proceeds \/ Ends)
<1> DEFINE m == Head(toClient)
           refused == m.type = "DISCONNECT" \/ Expected[pc] \notin {"any", m.type}
<1>1. Reads
  BY DEF ReadPacket, Reads, Expected, Exchanges
<1>2. CASE m.type \in PassedOver /\ Skip /\ UNCHANGED <<taken, replies>>
  <2>1. CASE skipped + 1 = ReadLimit
    <3>1. Finish("error") /\ skipped' = skipped
      BY <1>2, <2>1 DEF Skip
    <3> QED BY <1>1, <1>2, <2>1, <3>1, EndingForm DEF Ends, Refused
  <2>2. CASE skipped + 1 # ReadLimit
    <3>1. Await(pc, <<>>) /\ skipped' = skipped + 1
      BY <1>2, <2>2 DEF Skip
    <3>2. pc' = pc /\ keyed' = keyed /\ outcome' = outcome /\ Silent
      BY <3>1, SendsNothing DEF Await
    <3>3. skipped' < ReadLimit
      <4>1. skipped \in Nat /\ skipped < ReadLimit /\ ReadLimit \in Nat
        BY Limits DEF TypeInv
      <4>2. skipped' = skipped + 1
        BY <3>1
      <4> QED BY <2>2, <4>1, <4>2
    <3> QED BY <1>1, <1>2, <3>1, <3>2, <3>3 DEF Passes
  <2> QED BY <2>1, <2>2
<1>3. CASE m.type \notin PassedOver /\ refused /\ Finish("error")
           /\ UNCHANGED <<taken, replies, skipped>>
  BY <1>1, <1>3, EndingForm DEF Ends, Refused
<1>4. CASE m.type \notin PassedOver /\ ~refused /\ Advance(m)
  <2>0. /\ m.type \notin PassedOver /\ m.type # "DISCONNECT" /\ skipped' = 0
        /\ Expected[pc] = "any" \/ Expected[pc] = m.type
        /\ taken' = IF pc = "reply" THEN m.by ELSE taken
        /\ replies' = IF pc = "auth" /\ pc' = "auth" THEN replies + 1 ELSE replies
    BY <1>4 DEF Advance
  <2> HIDE DEF m
  <2>1. CASE pc = "kexinit"
    <3>1. m.type = "KEXINIT" /\ GotKexinit
      BY <1>4, <2>0, <2>1 DEF Advance, Expected
    <3>2. CASE kind = "kexinit"
      <4>1. Finish("kexinit")
        BY <3>1, <3>2 DEF GotKexinit
      <4> QED BY <1>1, <2>0, <2>1, <4>1, EndingForm DEF Ends
    <3>3. CASE kind # "kexinit" /\ Finish("error") /\ Excused
      BY <1>1, <2>0, <2>1, <3>3, EndingForm DEF Ends, Refused, m
    <3>4. CASE kind = "host_key" /\ server.follows /\ ~GuessedRight /\ Await("discard", <<>>)
      <4>1. pc' = "discard" /\ keyed' = keyed /\ outcome' = outcome /\ Silent
        BY <3>4, SendsNothing DEF Await
      <4> QED BY <1>1, <2>0, <2>1, <3>1, <3>4, <4>1 DEF Proceeds, Goes, m, TypeInv
    <3>5. CASE kind \in {"host_key", "auth"} /\ BeginExchange
               /\ ~(kind = "host_key" /\ server.follows /\ ~GuessedRight)
      <4>1. CASE pc' = "closed" /\ outcome' = "error" /\ keyed' = keyed /\ Silent
                 /\ kind = "auth" /\ server.kex = "post_quantum"
        BY <1>1, <2>0, <2>1, <4>1 DEF Ends, Refused, Excused, m
      <4>2. CASE outcome' = outcome /\ keyed' = keyed
                 /\ IF server.kex = "group_exchange" THEN pc' = "group" /\ Sends("GEX_REQUEST")
                    ELSE pc' = "reply" /\ Sends("INIT")
        BY <1>1, <2>0, <2>1, <3>1, <3>5, <4>2 DEF Proceeds, Begins, m, TypeInv
      <4> QED BY <2>1, <3>5, <4>1, <4>2, BeginForm
    <3> QED
      BY <3>1, <3>2, <3>3, <3>4, <3>5, SessionsAssumption
         DEF GotKexinit, Excused, TypeInv, AllKinds
  <2>2. CASE pc = "discard"
    <3>1. BeginExchange /\ kind \in {"host_key", "auth"}
      BY <1>4, <2>2, SessionsAssumption DEF Advance, TypeInv, AllKinds
    <3>2. CASE pc' = "closed" /\ outcome' = "error" /\ keyed' = keyed /\ Silent
               /\ kind = "auth" /\ server.kex = "post_quantum"
      BY <1>1, <2>0, <2>2, <3>2 DEF Ends, Refused, Excused, m
    <3>3. CASE outcome' = outcome /\ keyed' = keyed
               /\ IF server.kex = "group_exchange" THEN pc' = "group" /\ Sends("GEX_REQUEST")
                  ELSE pc' = "reply" /\ Sends("INIT")
      BY <1>1, <2>0, <2>2, <3>1, <3>3 DEF Proceeds, Begins, m, TypeInv
    <3> QED BY <2>2, <3>1, <3>2, <3>3, BeginForm
  <2>3. CASE pc = "group"
    <3>1. m.type = "GROUP" /\ IF m.sound THEN Await("reply", <<"INIT">>) ELSE Finish("error")
      BY <1>4, <2>0, <2>3 DEF Advance, Expected
    <3>2. CASE m.sound
      <4>1. pc' = "reply" /\ keyed' = keyed /\ outcome' = outcome /\ Sends("INIT")
        BY <3>1, <3>2, SendsOne DEF Await
      <4> QED BY <1>1, <2>0, <2>3, <3>1, <4>1 DEF Proceeds, Goes, m, TypeInv
    <3>3. CASE ~m.sound
      BY <1>1, <2>0, <2>3, <3>1, <3>3, EndingForm DEF Ends, Refused, m
    <3> QED BY <3>2, <3>3
  <2>4. CASE pc = "reply"
    <3>0. m.type = "REPLY"
      BY <2>0, <2>4 DEF Expected
    <3>1. CASE kind = "host_key"
      <4>1. Finish("host_key")
        BY <1>4, <2>4, <3>1 DEF Advance
      <4> QED BY <1>1, <2>0, <2>4, <3>1, <4>1, EndingForm DEF Ends, m
    <3>2. CASE kind = "auth"
      <4>1. IF m.sound THEN Await("newkeys", <<"NEWKEYS">>) ELSE Finish("error")
        BY <1>4, <2>4, <3>2 DEF Advance
      <4>2. CASE m.sound
        <5>1. pc' = "newkeys" /\ keyed' = keyed /\ outcome' = outcome /\ Sends("NEWKEYS")
          BY <4>1, <4>2, SendsOne DEF Await
        <5> QED BY <1>1, <2>0, <2>4, <3>0, <3>2, <5>1 DEF Proceeds, Goes, m, TypeInv
      <4>3. CASE ~m.sound
        BY <1>1, <2>0, <2>4, <4>1, <4>3, EndingForm DEF Ends, Refused, m
      <4> QED BY <4>2, <4>3
    <3> QED BY <2>4, <3>1, <3>2, SessionsAssumption DEF TypeInv, AllKinds
  <2>5. CASE pc = "newkeys"
    <3>1. m.type = "NEWKEYS" /\ AwaitKeyed("accept", <<"SERVICE_REQUEST">>, TRUE)
      BY <1>4, <2>0, <2>5 DEF Advance, Expected
    <3>2. pc' = "accept" /\ keyed' = TRUE /\ outcome' = outcome /\ Sends("SERVICE_REQUEST")
      BY <3>1, SendsOne
    <3> QED BY <1>1, <2>0, <2>5, <3>1, <3>2 DEF Proceeds, Goes, m, TypeInv
  <2>6. CASE pc = "accept"
    <3>1. m.type = "SERVICE_ACCEPT" /\ Await("auth", <<"USERAUTH_REQUEST">>)
      BY <1>4, <2>0, <2>6 DEF Advance, Expected
    <3>2. pc' = "auth" /\ keyed' = keyed /\ outcome' = outcome /\ Sends("USERAUTH_REQUEST")
      BY <3>1, SendsOne DEF Await
    <3> QED BY <1>1, <2>0, <2>6, <3>1, <3>2 DEF Proceeds, Goes, m, TypeInv
  <2>7. CASE pc = "auth"
    <3>1. GotAuth(m)
      BY <1>4, <2>7 DEF Advance
    <3>2. CASE m.type = "USERAUTH_BANNER" /\ replies + 1 < AuthLimit
      <4>1. Await("auth", <<>>)
        BY <3>1, <3>2 DEF GotAuth
      <4>2. pc' = "auth" /\ keyed' = keyed /\ outcome' = outcome /\ Silent
        BY <4>1, SendsNothing DEF Await
      <4> QED BY <1>1, <2>0, <2>7, <3>2, <4>2 DEF Proceeds, Goes, m, TypeInv
    <3>3. CASE Finish("methods") \/ Finish("open_door")
      BY <1>1, <2>0, <2>7, <3>3, EndingForm DEF Ends, m
    <3>4. CASE Finish("error") /\ m.type \notin {"USERAUTH_FAILURE", "USERAUTH_SUCCESS"}
      BY <1>1, <2>0, <2>7, <3>4, EndingForm DEF Ends, Refused, m
    <3> QED BY <3>1, <3>2, <3>3, <3>4 DEF GotAuth
  <2> QED BY <1>1, <2>1, <2>2, <2>3, <2>4, <2>5, <2>6, <2>7 DEF Reads, Exchanges
<1> QED BY <1>2, <1>3, <1>4 DEF ReadPacket

\* A line is the banner, one too many, or one before it.
Greets ==
    /\ Head(toClient).type = "BANNER" /\ pc' = "kexinit"
    /\ keyed' = keyed /\ outcome' = outcome /\ lines' = lines
    /\ CASE kind = "host_key" -> Sends("KEXINIT_strict")
         [] kind = "auth" -> Sends("KEXINIT")
         [] kind = "kexinit" -> Silent

ReadsLine ==
    /\ pc = "banner" /\ toClient # <<>> /\ toClient' = Tail(toClient)
    /\ UNCHANGED <<kind, server, recvSeq, skipped, replies, taken, cause, peer>>
    /\ \/ Greets
       \/ /\ pc' = "closed" /\ outcome' = "error" /\ keyed' = keyed /\ lines' = lines /\ Silent
          /\ \/ Head(toClient).type = "OLD_BANNER"
             \/ Head(toClient).type = "LINE" /\ lines + 1 = LineLimit
       \/ /\ Head(toClient).type = "LINE" /\ lines' = lines + 1 /\ lines' # LineLimit
          /\ pc' = pc /\ keyed' = keyed /\ outcome' = outcome /\ Silent

LEMMA LineForm ==
    ASSUME TypeInv, ReadLine
    PROVE  ReadsLine
<1>1. CASE Head(toClient).type = "BANNER" /\ Await("kexinit", Proposal) /\ lines' = lines
  <2>1. CASE kind = "host_key"
    <3>1. Await("kexinit", <<"KEXINIT_strict">>)
      BY <1>1, <2>1 DEF Proposal
    <3>2. pc' = "kexinit" /\ keyed' = keyed /\ outcome' = outcome /\ Sends("KEXINIT_strict")
      BY <3>1, SendsOne DEF Await
    <3> QED BY <1>1, <2>1, <3>2 DEF ReadLine, ReadsLine, Greets
  <2>2. CASE kind = "auth"
    <3>1. Await("kexinit", <<"KEXINIT">>)
      BY <1>1, <2>2 DEF Proposal
    <3>2. pc' = "kexinit" /\ keyed' = keyed /\ outcome' = outcome /\ Sends("KEXINIT")
      BY <3>1, SendsOne DEF Await
    <3> QED BY <1>1, <2>2, <3>2 DEF ReadLine, ReadsLine, Greets
  <2>3. CASE kind = "kexinit"
    <3>1. Await("kexinit", <<>>)
      BY <1>1, <2>3 DEF Proposal
    <3>2. pc' = "kexinit" /\ keyed' = keyed /\ outcome' = outcome /\ Silent
      BY <3>1, SendsNothing DEF Await
    <3> QED BY <1>1, <2>3, <3>2 DEF ReadLine, ReadsLine, Greets
  <2> QED BY <2>1, <2>2, <2>3, Limits DEF TypeInv, AllKinds
<1>2. CASE Head(toClient).type = "OLD_BANNER" /\ Finish("error") /\ lines' = lines
  BY <1>2, EndingForm DEF ReadLine, ReadsLine
<1>3. CASE Head(toClient).type = "LINE" /\ lines + 1 = LineLimit /\ Finish("error")
           /\ lines' = lines
  BY <1>3, EndingForm DEF ReadLine, ReadsLine
<1>4. CASE Head(toClient).type = "LINE" /\ lines + 1 # LineLimit /\ Await("banner", <<>>)
           /\ lines' = lines + 1
  <2>1. pc' = "banner" /\ keyed' = keyed /\ outcome' = outcome /\ Silent
    BY <1>4, SendsNothing DEF Await
  <2> QED BY <1>4, <2>1 DEF ReadLine, ReadsLine
<1> QED BY <1>1, <1>2, <1>3, <1>4 DEF ReadLine

-----------------------------------------------------------------------------
(* What a step of the server amounts to                                    *)

Quiet == UNCHANGED <<kind, server, scanner>>

LEMMA PacketTyped ==
    ASSUME TypeInv, NEW type \in Sent, NEW by \in {"server", "right_guess", "wrong_guess"},
           NEW sound \in BOOLEAN, NEW i \in Nat, NEW enc \in BOOLEAN
    PROVE  /\ Packet(type, by, sound, i, enc) \in Packets
           /\ Packet(type, by, sound, i, enc).type = type
           /\ Packet(type, by, sound, i, enc).by = by
           /\ Packet(type, by, sound, i, enc).sound = sound
           /\ Packet(type, by, sound, i, enc).seq = serverSend + i
           /\ Packet(type, by, sound, i, enc).keyed = enc
<1>1. serverSend \in Nat
  BY DEF TypeInv
<1>2. serverSend + i \in Nat
  BY <1>1, i \in Nat
<1> QED BY <1>2 DEF Packet, Packets

\* The packets of an answer.
LEMMA AnswerForm ==
    ASSUME TypeInv, NEW type, NEW sound \in BOOLEAN
    PROVE  \/ Answer(type, sound) = <<>>
              /\ type \notin {"INIT", "SERVICE_REQUEST", "USERAUTH_REQUEST"}
              /\ (type = "GEX_REQUEST" => Guessed("GROUP"))
           \/ type = "GEX_REQUEST" /\ ~Guessed("GROUP") /\ Answer(type, sound) = <<"GROUP">>
           \/ type = "INIT" /\ Guessed("REPLY") /\ Answer(type, sound) = <<"NEWKEYS">>
           \/ type = "INIT" /\ ~Guessed("REPLY") /\ Answer(type, sound) = <<"REPLY", "NEWKEYS">>
           \/ type = "SERVICE_REQUEST" /\ Answer(type, sound) = <<"SERVICE_ACCEPT">>
           \/ /\ type = "USERAUTH_REQUEST"
              /\ \E word \in {"USERAUTH_FAILURE", "USERAUTH_SUCCESS"} :
                    Answer(type, sound) = <<word>>
<1>1. CASE type = "INIT"
  BY <1>1 DEF Answer
<1>2. CASE type = "GEX_REQUEST"
  BY <1>2 DEF Answer
<1>3. CASE type \in {"SERVICE_REQUEST", "USERAUTH_REQUEST"}
  BY <1>3 DEF Answer
<1>4. CASE type \notin {"INIT", "GEX_REQUEST", "SERVICE_REQUEST", "USERAUTH_REQUEST"}
  BY <1>4 DEF Answer
<1> QED BY <1>1, <1>2, <1>3, <1>4

\* The server takes one request and answers it.
Says1(word, sound) ==
    /\ toClient' = toClient \o <<Packet(word, "server", sound, 0, serverKeyed)>>
    /\ serverSend' = serverSend + 1

AnswersInit(sound) ==
    /\ \/ /\ Guessed("REPLY")
          /\ toClient' = toClient \o <<Packet("NEWKEYS", "server", sound, 0, serverKeyed)>>
          /\ serverSend' = IF strictOn THEN 0 ELSE serverSend + 1
       \/ /\ ~Guessed("REPLY")
          /\ toClient' = toClient \o <<Packet("REPLY", "server", sound, 0, serverKeyed),
                                       Packet("NEWKEYS", "server", sound, 1, serverKeyed)>>
          /\ serverSend' = IF strictOn THEN 0 ELSE serverSend + 2

Replies(type, sound) ==
    /\ pc # "closed" /\ stage = "wait" /\ toServer # <<>> /\ Quiet
    /\ type = Head(toServer).type
    /\ toServer' = Tail(toServer)
    /\ serverRecv' = IF type = "NEWKEYS" /\ strictOn THEN 0 ELSE serverRecv + 1
    /\ serverKeyed' = (serverKeyed \/ type = "INIT")
    /\ strictOn' = (strictOn \/ (server.strict /\ type = "KEXINIT_strict"))
    /\ cause' = (cause \/ (~sound /\ type \in {"GEX_REQUEST", "INIT"}))
    /\ UNCHANGED <<stage, noise>>
    /\ \/ /\ toClient' = toClient /\ serverSend' = serverSend
          /\ type \notin {"INIT", "SERVICE_REQUEST", "USERAUTH_REQUEST"}
          /\ type = "GEX_REQUEST" => Guessed("GROUP")
       \/ type = "GEX_REQUEST" /\ ~Guessed("GROUP") /\ Says1("GROUP", sound)
       \/ type = "INIT" /\ AnswersInit(sound)
       \/ type = "SERVICE_REQUEST" /\ Says1("SERVICE_ACCEPT", sound)
       \/ /\ type = "USERAUTH_REQUEST"
          /\ \E word \in {"USERAUTH_FAILURE", "USERAUTH_SUCCESS"} : Says1(word, sound)

LEMMA ReplyForm ==
    ASSUME TypeInv, NEW sound \in BOOLEAN, ServerAnswers(sound)
    PROVE  Replies(Head(toServer).type, sound)
<1> DEFINE type == Head(toServer).type
           answer == Answer(type, sound)
           words == [i \in DOMAIN answer |-> Packet(answer[i], "server", sound, i - 1, serverKeyed)]
<1>1. /\ pc # "closed" /\ stage = "wait" /\ toServer # <<>> /\ Quiet
      /\ toServer' = Tail(toServer)
      /\ serverRecv' = IF type = "NEWKEYS" /\ strictOn THEN 0 ELSE serverRecv + 1
      /\ serverKeyed' = (serverKeyed \/ type = "INIT")
      /\ strictOn' = (strictOn \/ (server.strict /\ type = "KEXINIT_strict"))
      /\ cause' = (cause \/ (~sound /\ type \in {"GEX_REQUEST", "INIT"}))
      /\ UNCHANGED <<stage, noise>>
  BY DEF ServerAnswers, Quiet
<1>2. /\ toClient' = toClient \o words
      /\ serverSend' = IF type = "INIT" /\ strictOn THEN 0 ELSE serverSend + Len(answer)
  BY DEF ServerAnswers
<1>3. ASSUME NEW word, answer = <<word>>
      PROVE  words = <<Packet(word, "server", sound, 0, serverKeyed)>> /\ Len(answer) = 1
  BY <1>3
<1>4. CASE answer = <<>> /\ type \notin {"INIT", "SERVICE_REQUEST", "USERAUTH_REQUEST"}
           /\ (type = "GEX_REQUEST" => Guessed("GROUP"))
  <2>1. words = <<>> /\ Len(answer) = 0
    BY <1>4
  <2>2. toClient \o <<>> = toClient /\ serverSend + 0 = serverSend
    <3>1. toClient \in Seq(Packets) /\ serverSend \in Nat
      BY DEF TypeInv
    <3> QED BY <3>1, ConcatEmptySeq
  <2>3. toClient' = toClient /\ serverSend' = serverSend
    <3> HIDE DEF words, answer, type
    <3> QED BY <1>2, <1>4, <2>1, <2>2
  <2> QED BY <1>1, <1>4, <2>3 DEF Replies
<1>5. CASE type = "INIT" /\ ~Guessed("REPLY") /\ answer = <<"REPLY", "NEWKEYS">>
  <2>1. /\ words = <<Packet("REPLY", "server", sound, 0, serverKeyed),
                     Packet("NEWKEYS", "server", sound, 1, serverKeyed)>>
        /\ Len(answer) = 2
    BY <1>5
  <2>2. AnswersInit(sound)
    BY <1>2, <1>5, <2>1 DEF AnswersInit
  <2> QED BY <1>1, <1>5, <2>2 DEF Replies
<1>6. CASE type = "INIT" /\ Guessed("REPLY") /\ answer = <<"NEWKEYS">>
  <2>1. AnswersInit(sound)
    BY <1>2, <1>3, <1>6 DEF AnswersInit
  <2> QED BY <1>1, <1>6, <2>1 DEF Replies
<1>7. ASSUME NEW word, answer = <<word>>, type # "INIT"
      PROVE  Says1(word, sound)
  BY <1>2, <1>3, <1>7 DEF Says1
<1>8. CASE type = "GEX_REQUEST" /\ ~Guessed("GROUP") /\ answer = <<"GROUP">>
  BY <1>1, <1>7, <1>8 DEF Replies
<1>9. CASE type = "SERVICE_REQUEST" /\ answer = <<"SERVICE_ACCEPT">>
  BY <1>1, <1>7, <1>9 DEF Replies
<1>10. CASE type = "USERAUTH_REQUEST"
            /\ \E word \in {"USERAUTH_FAILURE", "USERAUTH_SUCCESS"} : answer = <<word>>
  BY <1>1, <1>7, <1>10 DEF Replies
<1> QED BY <1>4, <1>5, <1>6, <1>8, <1>9, <1>10, AnswerForm

SaysKexinit ==
    /\ pc # "closed" /\ stage = "kexinit" /\ stage' = "wait" /\ Quiet
    /\ UNCHANGED <<cause, toServer, strictOn, serverKeyed, serverRecv, noise>>
    /\ \/ /\ ~server.follows /\ serverSend' = serverSend + 1
          /\ toClient' = toClient \o <<Packet("KEXINIT", "server", TRUE, 0, FALSE)>>
       \/ /\ server.follows /\ serverSend' = serverSend + 2
          /\ toClient' = toClient \o <<Packet("KEXINIT", "server", TRUE, 0, FALSE),
                                       Packet(GuessedType, GuessBy, TRUE, 1, FALSE)>>

LEMMA KexinitForm ==
    ASSUME TypeInv, ServerKexinit
    PROVE  SaysKexinit
<1> DEFINE first == <<Packet("KEXINIT", "server", TRUE, 0, FALSE)>>
           guess == <<Packet(GuessedType, GuessBy, TRUE, 1, FALSE)>>
<1>1. first \in Seq(Packets) /\ guess \in Seq(Packets) /\ toClient \in Seq(Packets)
  <2>1. GuessedType \in Sent /\ GuessBy \in {"server", "right_guess", "wrong_guess"}
    BY DEF GuessedType, GuessBy, Sent, Answers
  <2>2. Packet("KEXINIT", "server", TRUE, 0, FALSE) \in Packets
    BY PacketTyped DEF Sent, Answers
  <2>3. Packet(GuessedType, GuessBy, TRUE, 1, FALSE) \in Packets
    BY <2>1, PacketTyped
  <2> QED BY <2>2, <2>3, OneAndTwo DEF TypeInv
<1>2. CASE server.follows
  <2>1. toClient' = toClient \o first \o guess
    BY <1>2 DEF ServerKexinit
  <2>2. toClient \o first \o guess = toClient \o (first \o guess)
    <3> HIDE DEF first, guess
    <3> QED BY <1>1, ConcatAssociative
  <2>3. first \o guess = <<Packet("KEXINIT", "server", TRUE, 0, FALSE),
                           Packet(GuessedType, GuessBy, TRUE, 1, FALSE)>>
    BY OneAndTwo
  <2> QED BY <1>2, <2>1, <2>2, <2>3 DEF ServerKexinit, SaysKexinit, Quiet
<1>3. CASE ~server.follows
  <2>1. toClient' = toClient \o first \o <<>>
    BY <1>3 DEF ServerKexinit
  <2>2. toClient \o first \o <<>> = toClient \o (first \o <<>>) /\ first \o <<>> = first
    <3> HIDE DEF first
    <3> QED BY <1>1, ConcatAssociative, ConcatEmptySeq, EmptySeq
  <2> QED BY <1>3, <2>1, <2>2 DEF ServerKexinit, SaysKexinit, Quiet
<1> QED BY <1>2, <1>3

\* Filler and whatever else is sent beside the protocol is one packet.
Beside == PassedOver \cup {"USERAUTH_BANNER", "OTHER", "DISCONNECT"}

LEMMA NoiseForm ==
    ASSUME TypeInv, NEW type \in Beside, Noise(type)
    PROVE  Quiet /\ Says1(type, TRUE)
<1>1. serverSend \in Nat
  BY DEF TypeInv
<1>2. ASSUME NEW types, types = <<type>>, NEW sound
      PROVE  /\ [i \in DOMAIN types |-> Packet(types[i], "server", sound, i - 1, serverKeyed)]
                = <<Packet(type, "server", sound, 0, serverKeyed)>>
             /\ Len(types) = 1
  BY <1>2
<1> QED BY <1>1, <1>2 DEF Noise, Says, Says1, Quiet

LEMMA LineSaid ==
    ASSUME TypeInv, NEW type, ServerLine(type)
    PROVE  Quiet /\ toClient' = toClient \o <<Packet(type, "server", TRUE, 0, FALSE)>>
<1>1. toClient \in Seq(Packets)
  BY DEF TypeInv
<1>2. ASSUME NEW x PROVE Append(toClient, x) = toClient \o <<x>>
  BY <1>1, AppendIsConcat
<1> QED BY <1>2 DEF ServerLine, Quiet

-----------------------------------------------------------------------------
(* Types                                                                   *)

LEMMA SendsTyped ==
    ASSUME TypeInv, keyed' \in BOOLEAN, Silent \/ (\E type \in Asked : Sends(type))
    PROVE  toServer' \in Seq(Requests) /\ sendSeq' \in Nat
<1>1. toServer \in Seq(Requests) /\ sendSeq \in Nat
  BY DEF TypeInv
<1>2. CASE Silent
  BY <1>1, <1>2 DEF Silent
<1>3. ASSUME NEW type \in Asked, Sends(type)
      PROVE  toServer' \in Seq(Requests) /\ sendSeq' \in Nat
  <2> DEFINE request == [type |-> type, seq |-> sendSeq, keyed |-> keyed']
  <2>1. request \in Requests
    BY <1>1 DEF Requests
  <2>2. toServer' = toServer \o <<request>> /\ sendSeq' = sendSeq + 1
    BY <1>3 DEF Sends
  <2> HIDE DEF request
  <2> QED BY <1>1, <2>1, <2>2, AddedOne
<1> QED BY <1>2, <1>3

LEMMA ReadTyped ==
    ASSUME TypeInv, ReadPacket
    PROVE  TypeInv'
<1>1. Reads /\ (Passes \/ Proceeds \/ Ends)
  BY ReadForm
<1>2. toClient \in Seq(Packets) /\ recvSeq \in Nat /\ skipped \in Nat /\ replies \in Nat
  BY DEF TypeInv
<1>3. toClient' \in Seq(Packets) /\ recvSeq' \in Nat
  BY <1>1, <1>2, Taken DEF Reads
<1>4. /\ kind' = kind /\ server' = server /\ lines' = lines
      /\ stage' = stage /\ strictOn' = strictOn /\ serverKeyed' = serverKeyed
      /\ serverSend' = serverSend /\ serverRecv' = serverRecv /\ noise' = noise
  BY <1>1 DEF Reads, peer
<1>5. kind \in AllKinds
  BY Limits DEF TypeInv
<1>6. CASE Passes
  <2>1. toServer' \in Seq(Requests) /\ sendSeq' \in Nat
    BY <1>6, SendsTyped DEF Passes, TypeInv
  <2> QED BY <1>2, <1>3, <1>4, <1>6, <2>1 DEF Passes, TypeInv
<1>7. CASE Proceeds
  <2>1. /\ keyed' \in BOOLEAN /\ skipped' \in Nat /\ skipped' < ReadLimit
        /\ replies' \in Nat /\ replies' < AuthLimit
    BY <1>2, <1>7, Limits DEF Proceeds, Begins, Goes, TypeInv
  <2>2. Silent \/ (\E type \in Asked : Sends(type))
    BY <1>7 DEF Proceeds, Begins, Asked
  <2>3. toServer' \in Seq(Requests) /\ sendSeq' \in Nat
    BY <2>1, <2>2, SendsTyped
  <2>4. /\ pc' \in {"banner", "closed"} \cup Exchanges
        /\ kind = "kexinit" => pc' \in {"banner", "kexinit", "closed"}
        /\ kind = "host_key" => pc' \notin {"newkeys", "accept", "auth"}
        /\ kind = "auth" => pc' # "discard"
    BY <1>7 DEF Proceeds, Begins, Goes, TypeInv, Exchanges
  <2> QED BY <1>3, <1>4, <2>1, <2>3, <2>4 DEF TypeInv
<1>8. CASE Ends
  <2>1. toServer' \in Seq(Requests) /\ sendSeq' \in Nat
    BY <1>8, SendsTyped DEF Ends, TypeInv
  <2>2. skipped' \in Nat /\ skipped' < ReadLimit
    BY <1>2, <1>8, Limits DEF Ends, TypeInv
  <2> QED BY <1>3, <1>4, <1>8, <2>1, <2>2 DEF Ends, TypeInv
<1> QED BY <1>1, <1>6, <1>7, <1>8

LEMMA LineTyped ==
    ASSUME TypeInv, ReadLine
    PROVE  TypeInv'
<1>1. ReadsLine
  BY LineForm
<1>2. toClient \in Seq(Packets) /\ lines \in Nat /\ keyed' = keyed
  BY <1>1 DEF TypeInv, ReadsLine, Greets
<1>3. toClient' \in Seq(Packets) /\ lines' \in Nat
  <2>1. toClient # <<>> /\ toClient' = Tail(toClient) /\ lines' \in {lines, lines + 1}
    BY <1>1 DEF ReadsLine, Greets
  <2> QED BY <1>2, <2>1, Taken
<1>4. Silent \/ (\E type \in Asked : Sends(type))
  BY <1>1, Limits DEF ReadsLine, Greets, Asked, TypeInv, AllKinds
<1>5. toServer' \in Seq(Requests) /\ sendSeq' \in Nat
  BY <1>2, <1>4, SendsTyped DEF TypeInv
<1>6. pc' \in {"banner", "kexinit", "closed"}
  BY <1>1 DEF ReadsLine, Greets
<1> QED BY <1>1, <1>2, <1>3, <1>5, <1>6 DEF ReadsLine, TypeInv, Exchanges, peer

LEMMA GivesUpTyped ==
    ASSUME TypeInv, GivesUp
    PROVE  TypeInv' /\ pc' = "closed" /\ outcome' = "error" /\ UNCHANGED <<recvSeq, taken, kind>>
BY DEF GivesUp, Finish, TypeInv, peer

\* One packet or two are added to what is under way.
LEMMA HeardTyped ==
    ASSUME TypeInv,
           \/ toClient' = toClient
           \/ \E x \in Packets : toClient' = toClient \o <<x>>
           \/ \E x, y \in Packets : toClient' = toClient \o <<x, y>>
    PROVE  toClient' \in Seq(Packets)
<1>1. toClient \in Seq(Packets)
  BY DEF TypeInv
<1>2. ASSUME NEW s \in Seq(Packets), toClient' = toClient \o s
      PROVE  toClient' \in Seq(Packets)
  BY <1>1, <1>2, Added
<1> QED BY <1>1, <1>2, OneAndTwo

LEMMA ServerTyped ==
    ASSUME TypeInv, Server
    PROVE  TypeInv' /\ Quiet
<1>0. /\ toServer \in Seq(Requests) /\ toClient \in Seq(Packets)
      /\ serverSend \in Nat /\ serverRecv \in Nat /\ noise \in Nat /\ serverKeyed \in BOOLEAN
      /\ strictOn \in BOOLEAN
  BY DEF TypeInv
<1>1. ASSUME NEW type \in {"LINE", "BANNER", "OLD_BANNER"}, ServerLine(type)
      PROVE  TypeInv' /\ Quiet
  <2>1. Packet(type, "server", TRUE, 0, FALSE) \in Packets
    BY PacketTyped DEF Sent
  <2>2. toClient' \in Seq(Packets) /\ Quiet
    BY <1>1, <2>1, LineSaid, HeardTyped
  <2>3. /\ stage' \in {"banner", "kexinit", "wait"} /\ noise' \in Nat
        /\ UNCHANGED <<toServer, strictOn, serverKeyed, serverSend, serverRecv>>
    BY <1>0, <1>1 DEF ServerLine
  <2> QED BY <2>2, <2>3 DEF TypeInv, Quiet, scanner
<1>2. CASE ServerKexinit
  <2>1. SaysKexinit
    BY <1>2, KexinitForm
  <2>2. GuessedType \in Sent /\ GuessBy \in {"server", "right_guess", "wrong_guess"}
    BY DEF GuessedType, GuessBy, Sent, Answers
  <2>3. /\ Packet("KEXINIT", "server", TRUE, 0, FALSE) \in Packets
        /\ Packet(GuessedType, GuessBy, TRUE, 1, FALSE) \in Packets
    <3>1. "KEXINIT" \in Sent
      BY DEF Sent, Answers
    <3> QED BY <2>2, <3>1, PacketTyped
  <2>4. toClient' \in Seq(Packets) /\ serverSend' \in Nat
    <3>1. toClient' \in Seq(Packets)
      BY <2>1, <2>3, HeardTyped DEF SaysKexinit
    <3>2. serverSend' \in {serverSend + 1, serverSend + 2}
      BY <2>1 DEF SaysKexinit
    <3> QED BY <1>0, <3>1, <3>2
  <2> QED BY <2>1, <2>4 DEF SaysKexinit, TypeInv, Quiet, scanner
<1>3. ASSUME NEW sound \in BOOLEAN, ServerAnswers(sound)
      PROVE  TypeInv' /\ Quiet
  <2>1. Replies(Head(toServer).type, sound)
    BY <1>3, ReplyForm
  <2>2. \A word \in Answers : /\ Packet(word, "server", sound, 0, serverKeyed) \in Packets
                              /\ Packet(word, "server", sound, 1, serverKeyed) \in Packets
    BY <1>0, PacketTyped DEF Sent
  <2>3. toServer' \in Seq(Requests)
    BY <1>0, <2>1, Taken DEF Replies
  <2>4. \/ toClient' = toClient
        \/ \E x \in Packets : toClient' = toClient \o <<x>>
        \/ \E x, y \in Packets : toClient' = toClient \o <<x, y>>
    BY <2>1, <2>2 DEF Replies, Says1, AnswersInit, Answers
  <2>5. toClient' \in Seq(Packets)
    BY <2>4, HeardTyped
  <2>6. serverSend' \in Nat
    BY <1>0, <2>1 DEF Replies, Says1, AnswersInit
  <2>7. serverRecv' \in Nat /\ strictOn' \in BOOLEAN /\ serverKeyed' \in BOOLEAN
    BY <1>0, <2>1 DEF Replies
  <2> QED BY <2>1, <2>3, <2>5, <2>6, <2>7 DEF Replies, TypeInv, Quiet, scanner
<1>4. ASSUME NEW type \in Beside, Noise(type)
      PROVE  TypeInv' /\ Quiet
  <2>1. Quiet /\ Says1(type, TRUE)
    BY <1>4, NoiseForm
  <2>2. Packet(type, "server", TRUE, 0, serverKeyed) \in Packets
    BY <1>0, PacketTyped DEF Sent, Beside
  <2>3. toClient' \in Seq(Packets) /\ serverSend' \in Nat
    <3>1. toClient' \in Seq(Packets)
      BY <2>1, <2>2, HeardTyped DEF Says1
    <3>2. serverSend' = serverSend + 1
      BY <2>1 DEF Says1
    <3> QED BY <1>0, <3>1, <3>2
  <2>4. noise' \in Nat /\ UNCHANGED <<toServer, stage, strictOn, serverKeyed, serverRecv>>
    BY <1>0, <1>4 DEF Noise
  <2> QED BY <2>1, <2>3, <2>4 DEF TypeInv, Quiet, scanner
<1> QED BY <1>1, <1>2, <1>3, <1>4 DEF Server, Beside

LEMMA TypeInit ==
    ASSUME Init
    PROVE  TypeInv
<1>1. <<>> \in Seq(Requests) /\ <<>> \in Seq(Packets)
  BY EmptySeq
<1> QED BY <1>1, Limits DEF Init, TypeInv

LEMMA TypeKept ==
    ASSUME TypeInv, [Next]_vars
    PROVE  TypeInv'
<1>1. CASE UNCHANGED vars
  BY <1>1 DEF vars, scanner, peer, TypeInv
<1> QED BY <1>1, ReadTyped, LineTyped, GivesUpTyped, ServerTyped DEF Next, Scanner

LEMMA TypeHolds == Spec => []TypeInv
<1>1. Init => TypeInv
  BY TypeInit
<1>2. TypeInv /\ [Next]_vars => TypeInv'
  BY TypeKept
<1> QED BY <1>1, <1>2, PTL DEF Spec

-----------------------------------------------------------------------------
(* What is read is bounded                                                 *)

\* One more packet, after fewer than c since the last message.
LEMMA OneMore ==
    ASSUME NEW c \in Nat, NEW d \in Nat, NEW e \in Nat, d + 1 <= e,
           NEW x \in Nat, NEW s \in Nat, s < c, x <= c * d + s
    PROVE  x + 1 <= c * e
<1>1. PICK k \in Nat : e = (d + 1) + k
  <2>1. e - (d + 1) \in Nat /\ e = (d + 1) + (e - (d + 1))
    OBVIOUS
  <2> QED BY <2>1
<1>2. c * e = c * d + c + c * k
  BY <1>1
<1>3. c * k \in Nat /\ c * d \in Nat
  OBVIOUS
<1> QED BY <1>2, <1>3

LEMMA GotBounded ==
    ASSUME TypeInv, pc # "closed"
    PROVE  Got \in Nat /\ MayRead \in Nat /\ Got + 1 <= MayRead
<1>1. kind \in AllKinds /\ replies \in Nat /\ AuthLimit \in Nat /\ replies < AuthLimit
  BY Limits DEF TypeInv
<1>2. CASE kind = "kexinit"
  <2>1. Got = 0 /\ MayRead = 1
    BY <1>2 DEF TypeInv, Got, MayRead
  <2> QED BY <2>1
<1>3. CASE kind = "host_key"
  <2>1. Got \in {0, 1, 2, 3} /\ MayRead = 4
    BY <1>3 DEF TypeInv, Got, MayRead, Exchanges
  <2> QED BY <2>1
<1>4. CASE kind = "auth"
  <2>1. Got \in {0, 1, 2, 3, 4, 5 + replies} /\ MayRead = 5 + AuthLimit
    BY <1>4 DEF TypeInv, Got, MayRead, Exchanges
  <2> QED BY <1>1, <2>1
<1> QED BY <1>1, <1>2, <1>3, <1>4 DEF AllKinds

\* A message that moves the probe on is one more of those it may read.
LEMMA GotMore ==
    ASSUME TypeInv, Reads, Proceeds
    PROVE  pc' # "closed" /\ Got + 1 <= Got'
<1>1. kind' = kind /\ replies \in Nat
  BY DEF TypeInv, Reads
<1>2. CASE pc = "kexinit" /\ pc' = "discard"
  BY <1>2 DEF Got
<1>3. CASE Begins
  <2>1. /\ pc \in {"kexinit", "discard"} /\ pc' \in {"group", "reply"}
        /\ kind = "auth" => pc # "discard"
        /\ kind \in {"host_key", "auth"}
    BY <1>3 DEF Begins, TypeInv
  <2>2. CASE pc' = "group"
    BY <1>1, <2>1, <2>2 DEF Got
  <2>3. CASE pc' = "reply"
    BY <1>1, <2>1, <2>3 DEF Got
  <2> QED BY <2>1, <2>2, <2>3
<1>4. CASE pc = "group" /\ pc' = "reply"
  BY <1>1, <1>4 DEF Got
<1>5. CASE pc = "reply" /\ pc' = "newkeys" /\ kind = "auth"
  BY <1>1, <1>5 DEF Got
<1>6. CASE pc = "newkeys" /\ pc' = "accept"
  BY <1>1, <1>6 DEF Got
<1>7. CASE pc = "accept" /\ pc' = "auth" /\ replies' = replies
  BY <1>1, <1>7 DEF Got
<1>8. CASE pc = "auth" /\ pc' = "auth" /\ replies' = replies + 1
  BY <1>1, <1>8 DEF Got
<1> QED BY <1>2, <1>3, <1>4, <1>5, <1>6, <1>7, <1>8 DEF Proceeds, Goes

LEMMA CountedKept ==
    ASSUME TypeInv, Counted, [Next]_vars
    PROVE  Counted'
<1>1. TypeInv' /\ recvSeq \in Nat /\ skipped \in Nat /\ skipped < ReadLimit /\ ReadLimit \in Nat
  BY TypeKept, Limits DEF TypeInv
<1>2. CASE pc = "closed"
  <2>1. UNCHANGED <<pc, recvSeq, kind>>
    BY <1>2 DEF Next, Scanner, ReadLine, ReadPacket, Expected, GivesUp, Server, ServerLine,
                ServerKexinit, ServerAnswers, Noise, vars, scanner
  <2> QED BY <1>2, <2>1 DEF Counted, MayRead
<1>3. CASE pc # "closed"
  <2>0. /\ recvSeq <= ReadLimit * Got + skipped
        /\ Got \in Nat /\ MayRead \in Nat /\ Got + 1 <= MayRead
    BY <1>1, <1>3, GotBounded DEF Counted
  <2>1. recvSeq + 1 <= ReadLimit * MayRead
    BY <1>1, <2>0, OneMore
  <2>2. ReadLimit * MayRead \in Nat
    BY <1>1, <2>0
  <2>3. CASE pc' = "closed" /\ kind' = kind /\ recvSeq' \in {recvSeq, recvSeq + 1}
    <3>1. MayRead' = MayRead
      BY <2>3 DEF MayRead
    <3>2. recvSeq' <= ReadLimit * MayRead
      BY <1>1, <2>1, <2>2, <2>3
    <3> QED BY <2>3, <3>1, <3>2 DEF Counted
  <2>4. CASE /\ pc' = pc \/ (pc = "banner" /\ pc' = "kexinit")
             /\ UNCHANGED <<kind, replies>>
             /\ recvSeq' = recvSeq /\ skipped' = skipped
    <3>1. Got' = Got /\ pc' # "closed"
      BY <1>3, <2>4 DEF Got
    <3> QED BY <2>0, <2>4, <3>1 DEF Counted
  <2>5. CASE ReadPacket
    <3>1. Reads /\ (Passes \/ Proceeds \/ Ends)
      BY <2>5, ReadForm
    <3>2. CASE Passes
      <4>1. Got' = Got /\ pc' # "closed"
        BY <1>3, <3>1, <3>2 DEF Got, Passes, Reads
      <4>2. recvSeq' = recvSeq + 1 /\ skipped' = skipped + 1
        BY <3>1, <3>2 DEF Passes, Reads
      <4>3. ReadLimit * Got \in Nat
        BY <1>1, <2>0
      <4>4. recvSeq' <= ReadLimit * Got + skipped'
        BY <1>1, <2>0, <4>2, <4>3
      <4> QED BY <4>1, <4>4 DEF Counted
    <3>3. CASE Proceeds
      <4>1. pc' # "closed" /\ Got + 1 <= Got' /\ Got' \in Nat
        <5>1. pc' # "closed" /\ Got + 1 <= Got'
          BY <3>1, <3>3, GotMore
        <5>2. pc' \in {"banner"} \cup Exchanges
          BY <1>1, <5>1 DEF TypeInv
        <5>3. Got' \in {0, 1, 2, 3, 4, 5 + replies'}
          BY <5>2 DEF Got, Exchanges
        <5>4. 5 + replies' \in Nat
          <6>1. replies' \in Nat
            BY <1>1 DEF TypeInv
          <6>2. \A n \in Nat : 5 + n \in Nat
            OBVIOUS
          <6> QED BY <6>1, <6>2, Zenon
        <5>5. Got' \in Nat
          <6> DEFINE top == 5 + replies'
          <6>1. Got' \in {0, 1, 2, 3, 4, top} /\ top \in Nat
            BY <5>3, <5>4
          <6> HIDE DEF top
          <6> QED BY <6>1
        <5> QED BY <5>1, <5>5
      <4> DEFINE got == Got'
      <4>2. got \in Nat /\ Got + 1 <= got
        BY <4>1
      <4> HIDE DEF got
      <4>3. recvSeq + 1 <= ReadLimit * got /\ ReadLimit * got \in Nat
        BY <1>1, <2>0, <4>2, OneMore
      <4>4. recvSeq' = recvSeq + 1 /\ skipped' = 0
        BY <3>1, <3>3 DEF Proceeds, Reads
      <4>5. recvSeq' <= ReadLimit * got + skipped'
        BY <4>3, <4>4
      <4> QED BY <4>1, <4>5 DEF Counted, got
    <3>4. CASE Ends
      BY <2>3, <3>1, <3>4 DEF Reads, Ends
    <3> QED BY <3>1, <3>2, <3>3, <3>4
  <2>6. CASE ReadLine
    <3>1. ReadsLine
      BY <2>6, LineForm
    <3> QED BY <2>3, <2>4, <3>1 DEF ReadsLine, Greets
  <2>7. CASE GivesUp
    BY <2>3, <2>7, GivesUpTyped
  <2>8. CASE Server \/ UNCHANGED vars
    <3>1. Quiet
      BY <2>8, ServerTyped DEF Quiet, vars
    <3> QED BY <2>4, <3>1 DEF Quiet, scanner
  <2> QED BY <2>5, <2>6, <2>7, <2>8 DEF Next, Scanner
<1> QED BY <1>2, <1>3

\* No server keeps one probe waiting for ever by talking: what a probe reads is
\* bounded by the limits of read_message and _read_auth_response, and by the
\* number of messages its exchange has (transport.py, probe.py).
THEOREM ReadsAreBounded == Spec => []ReadsBounded
<1>1. Init => Counted
  <2> SUFFICES ASSUME Init PROVE Counted
    OBVIOUS
  <2>1. recvSeq = 0 /\ skipped = 0 /\ pc = "banner" /\ Got = 0
    BY DEF Init, Got
  <2>2. ReadLimit * 0 = 0
    BY Limits
  <2> QED BY <2>1, <2>2 DEF Counted
<1>2. TypeInv /\ Counted /\ [Next]_vars => Counted'
  BY CountedKept
<1>3. TypeInv /\ Counted => ReadsBounded
  <2> SUFFICES ASSUME TypeInv, Counted PROVE ReadsBounded
    OBVIOUS
  <2>1. CASE pc = "closed"
    BY <2>1 DEF Counted, ReadsBounded, MayRead
  <2>2. CASE pc # "closed"
    <3>1. /\ recvSeq <= ReadLimit * Got + skipped
          /\ Got \in Nat /\ MayRead \in Nat /\ Got + 1 <= MayRead
          /\ recvSeq \in Nat /\ skipped \in Nat /\ skipped < ReadLimit /\ ReadLimit \in Nat
      BY <2>2, GotBounded, Limits DEF Counted, TypeInv
    <3>2. recvSeq + 1 <= ReadLimit * MayRead /\ ReadLimit * MayRead \in Nat
      BY <3>1, OneMore
    <3>3. recvSeq <= ReadLimit * MayRead
      BY <3>1, <3>2
    <3> QED BY <3>3 DEF ReadsBounded, MayRead
  <2> QED BY <2>1, <2>2
<1> QED BY <1>1, <1>2, <1>3, TypeHolds, PTL DEF Spec

-----------------------------------------------------------------------------
(* The key is the server's own                                             *)

\* What was under way still is, and what the server adds is no KEXINIT.
Grows ==
    /\ \A k \in DOMAIN toClient : k \in DOMAIN toClient' /\ toClient'[k] = toClient[k]
    /\ \A k \in DOMAIN toClient' :
          \/ k \in DOMAIN toClient
          \/ k > Len(toClient) /\ toClient'[k].by = "server" /\ toClient'[k].type # "KEXINIT"

LEMMA GrowsByPackets ==
    ASSUME TypeInv,
           \/ toClient' = toClient
           \/ \E x \in Packets : /\ toClient' = toClient \o <<x>>
                                 /\ x.by = "server" /\ x.type # "KEXINIT"
           \/ \E x, y \in Packets : /\ toClient' = toClient \o <<x, y>>
                                    /\ x.by = "server" /\ x.type # "KEXINIT"
                                    /\ y.by = "server" /\ y.type # "KEXINIT"
    PROVE  Grows
<1>1. toClient \in Seq(Packets)
  BY DEF TypeInv
<1>2. ASSUME NEW s \in Seq(Packets), toClient' = toClient \o s,
             \A i \in 1..Len(s) : s[i].by = "server" /\ s[i].type # "KEXINIT"
      PROVE  Grows
  <2>1. /\ \A k \in DOMAIN toClient : k \in DOMAIN toClient' /\ toClient'[k] = toClient[k]
        /\ \A k \in DOMAIN toClient' : k \in DOMAIN toClient
              \/ (k > Len(toClient) /\ k - Len(toClient) \in 1..Len(s)
                  /\ toClient'[k] = s[k - Len(toClient)])
    BY <1>1, <1>2, Added
  <2> QED BY <1>2, <2>1 DEF Grows
<1>3. CASE toClient' = toClient
  BY <1>3 DEF Grows
<1>4. ASSUME NEW x \in Packets, toClient' = toClient \o <<x>>,
             x.by = "server" /\ x.type # "KEXINIT"
      PROVE  Grows
  <2> DEFINE s == <<x>>
  <2>1. s \in Seq(Packets) /\ \A i \in 1..Len(s) : s[i] = x
    BY OneAndTwo
  <2>2. toClient' = toClient \o s
    BY <1>4
  <2> HIDE DEF s
  <2> QED BY <1>2, <1>4, <2>1, <2>2
<1>5. ASSUME NEW x \in Packets, NEW y \in Packets, toClient' = toClient \o <<x, y>>,
             x.by = "server" /\ x.type # "KEXINIT", y.by = "server" /\ y.type # "KEXINIT"
      PROVE  Grows
  <2> DEFINE s == <<x, y>>
  <2>1. s \in Seq(Packets) /\ \A i \in 1..Len(s) : s[i] = x \/ s[i] = y
    BY OneAndTwo
  <2>2. toClient' = toClient \o s
    BY <1>5
  <2> HIDE DEF s
  <2> QED BY <1>2, <1>5, <2>1, <2>2
<1> QED BY <1>3, <1>4, <1>5

\* All that the server says but its KEXINIT and its guess.
LEMMA ServerGrows ==
    ASSUME TypeInv, Server, ~ServerKexinit
    PROVE  Grows /\ Quiet /\ pc # "closed" /\ (stage' = stage \/ (stage = "banner" /\ stage' = "kexinit"))
<1>1. ASSUME NEW type \in {"LINE", "BANNER", "OLD_BANNER"}, ServerLine(type)
      PROVE  Grows /\ Quiet /\ pc # "closed" /\ (stage' = stage \/ (stage = "banner" /\ stage' = "kexinit"))
  <2> DEFINE x == Packet(type, "server", TRUE, 0, FALSE)
  <2>1. x \in Packets /\ x.by = "server" /\ x.type # "KEXINIT"
    <3>1. type \in Sent /\ type # "KEXINIT"
      BY DEF Sent
    <3>2. x \in Packets
      BY <3>1, PacketTyped
    <3>3. x.by = "server" /\ x.type = type
      BY DEF Packet
    <3> HIDE DEF x
    <3> QED BY <3>1, <3>2, <3>3
  <2>2. Quiet /\ toClient' = toClient \o <<x>>
    BY <1>1, LineSaid
  <2> HIDE DEF x
  <2>3. Grows
    BY <2>1, <2>2, GrowsByPackets
  <2> QED BY <1>1, <2>2, <2>3 DEF ServerLine
<1>2. ASSUME NEW sound \in BOOLEAN, ServerAnswers(sound)
      PROVE  Grows /\ Quiet /\ pc # "closed" /\ stage' = stage
  <2>1. Replies(Head(toServer).type, sound)
    BY <1>2, ReplyForm
  <2>2. serverKeyed \in BOOLEAN
    BY DEF TypeInv
  <2>3. \A word \in Answers \ {"KEXINIT"}, i \in {0, 1} :
           LET x == Packet(word, "server", sound, i, serverKeyed)
           IN x \in Packets /\ x.by = "server" /\ x.type # "KEXINIT"
    BY <2>2, PacketTyped DEF Sent
  <2>4. \/ toClient' = toClient
        \/ \E x \in Packets : /\ toClient' = toClient \o <<x>>
                              /\ x.by = "server" /\ x.type # "KEXINIT"
        \/ \E x, y \in Packets : /\ toClient' = toClient \o <<x, y>>
                                 /\ x.by = "server" /\ x.type # "KEXINIT"
                                 /\ y.by = "server" /\ y.type # "KEXINIT"
    <3>1. CASE toClient' = toClient
      BY <3>1
    <3>2. ASSUME NEW word \in Answers \ {"KEXINIT"}, Says1(word, sound)
          PROVE  \E x \in Packets : /\ toClient' = toClient \o <<x>>
                                    /\ x.by = "server" /\ x.type # "KEXINIT"
      BY <2>3, <3>2 DEF Says1
    <3>3. CASE AnswersInit(sound)
      <4>1. "NEWKEYS" \in Answers \ {"KEXINIT"} /\ "REPLY" \in Answers \ {"KEXINIT"}
        BY DEF Answers
      <4> QED BY <2>3, <3>3, <4>1 DEF AnswersInit
    <3> QED BY <2>1, <3>1, <3>2, <3>3 DEF Replies, Answers
  <2>5. Grows
    BY <2>4, GrowsByPackets
  <2> QED BY <2>1, <2>5 DEF Replies
<1>3. ASSUME NEW type \in Beside, Noise(type)
      PROVE  Grows /\ Quiet /\ pc # "closed" /\ stage' = stage
  <2> DEFINE x == Packet(type, "server", TRUE, 0, serverKeyed)
  <2>1. x \in Packets /\ x.by = "server" /\ x.type = type
    <3>1. type \in Sent /\ serverKeyed \in BOOLEAN
      BY DEF Sent, Beside, TypeInv
    <3>2. x \in Packets
      BY <3>1, PacketTyped
    <3>3. x.by = "server" /\ x.type = type
      BY DEF Packet
    <3> HIDE DEF x
    <3> QED BY <3>2, <3>3
  <2>2. Quiet /\ toClient' = toClient \o <<x>>
    BY <1>3, NoiseForm DEF Says1
  <2> HIDE DEF x
  <2>3. Grows
    <3>1. x.type # "KEXINIT"
      BY <2>1 DEF Beside, PassedOver, Fillers
    <3> QED BY <2>1, <2>2, <3>1, GrowsByPackets
  <2> QED BY <1>3, <2>2, <2>3 DEF Noise
<1> QED BY <1>1, <1>2, <1>3 DEF Server, Beside

LEMMA GuessesRead ==
    ASSUME TypeInv, Guesses, ReadPacket
    PROVE  Guesses'
<1>1. Reads /\ (Passes \/ Proceeds \/ Ends)
  BY ReadForm
<1>2. /\ toClient \in Seq(Packets) /\ toClient # <<>> /\ toClient' = Tail(toClient)
      /\ kind' = kind /\ server' = server /\ stage' = stage /\ pc \in Exchanges
  BY <1>1 DEF TypeInv, Reads, peer
<1>3. /\ Len(toClient) \in Nat /\ DOMAIN toClient = 1..Len(toClient) /\ 1 \in DOMAIN toClient
      /\ Head(toClient) = toClient[1] /\ DOMAIN toClient' = 1..Len(toClient) - 1
      /\ \A k \in DOMAIN toClient' :
            k \in Nat /\ k + 1 \in DOMAIN toClient /\ toClient'[k] = toClient[k + 1]
      /\ \A k \in DOMAIN toClient :
            k # 1 => k - 1 \in DOMAIN toClient' /\ toClient'[k - 1] = toClient[k]
  BY <1>2, Taken
<1>4. /\ \A k \in WrongGuesses' : k \in Nat /\ k # 0 /\ k + 1 \in WrongGuesses
      /\ \A k \in Kexinits' : k \in Nat /\ k + 1 \in Kexinits
      /\ \A k \in Kexinits : k # 1 => k - 1 \in Kexinits'
  BY <1>3 DEF WrongGuesses, Kexinits
<1>5. GuessedRight' = GuessedRight
  BY <1>2 DEF GuessedRight
<1>6. Head(toClient).type = "KEXINIT" => 1 \in Kexinits
  BY <1>3 DEF Kexinits
<1>7. kind = "host_key" /\ pc = "reply" => Head(toClient).by # "wrong_guess"
  BY <1>2, <1>3 DEF Guesses, WrongGuesses
<1>8. CASE Ends
  BY <1>2, <1>7, <1>8 DEF Ends, Guesses
<1>9. CASE Passes \/ Proceeds
  <2>0. pc # "closed" /\ pc # "banner"
    BY <1>2 DEF Exchanges
  <2>1. kind = "host_key" => taken' # "wrong_guess"
    BY <1>7, <1>9 DEF Passes, Proceeds, Guesses
  <2>2. stage \in {"banner", "kexinit"} => Kexinits' = {} /\ pc' \in {"banner", "kexinit"}
    BY <1>4, <1>6, <1>9, <2>0 DEF Guesses, Passes, Proceeds, Goes, Begins
  <2>3. \A j, k \in Kexinits' : j = k
    <3>1. ASSUME NEW j \in Kexinits', NEW k \in Kexinits' PROVE j = k
      <4>1. j + 1 = k + 1 /\ j \in Nat /\ k \in Nat
        BY <1>4, <2>0 DEF Guesses
      <4> QED BY <4>1
    <3> QED BY <3>1
  <2>4. WrongGuesses' # {} => server'.follows /\ ~GuessedRight'
    BY <1>2, <1>4, <1>5, <2>0 DEF Guesses
  <2>5. \A k \in WrongGuesses' : toClient'[k].type \notin PassedOver
    BY <1>3, <1>4, <2>0 DEF Guesses, WrongGuesses
  <2>6. ASSUME kind = "host_key", NEW k \in WrongGuesses'
        PROVE  \/ pc' = "discard" /\ k = 1
               \/ pc' \in {"banner", "kexinit"} /\ k > 1 /\ k - 1 \in Kexinits'
    <3>1. k \in Nat /\ k # 0 /\ k + 1 \in WrongGuesses /\ k + 1 # 1 /\ (k + 1) - 1 = k
      BY <1>4
    <3>2. pc = "kexinit" /\ k \in Kexinits /\ server.follows /\ ~GuessedRight
      BY <2>0, <2>6, <3>1 DEF Guesses
    <3>3. CASE k = 1
      <4>1. Head(toClient).type = "KEXINIT"
        BY <1>3, <3>2, <3>3 DEF Kexinits
      <4>2. pc' = "discard"
        BY <1>9, <2>6, <3>2, <4>1 DEF Passes, PassedOver, Fillers, Proceeds, Goes, Begins
      <4> QED BY <3>3, <4>2
    <3>4. CASE k # 1
      <4>1. Head(toClient).type # "KEXINIT"
        BY <1>6, <2>0, <3>2, <3>4 DEF Guesses
      <4>2. pc' = "kexinit"
        BY <1>9, <3>2, <4>1 DEF Passes, Proceeds, Goes, Begins
      <4>3. k - 1 \in Kexinits' /\ k > 1
        BY <1>4, <3>1, <3>2, <3>4
      <4> QED BY <4>2, <4>3
    <3> QED BY <3>3, <3>4
  <2> QED BY <1>2, <2>1, <2>2, <2>3, <2>4, <2>5, <2>6 DEF Guesses
<1> QED BY <1>1, <1>8, <1>9

LEMMA GuessesLine ==
    ASSUME TypeInv, Guesses, ReadLine
    PROVE  Guesses'
<1>1. ReadsLine
  BY LineForm
<1>2. /\ toClient \in Seq(Packets) /\ toClient # <<>> /\ toClient' = Tail(toClient)
      /\ kind' = kind /\ server' = server /\ stage' = stage /\ pc = "banner"
      /\ taken' = taken /\ pc' \in {"banner", "kexinit", "closed"}
      /\ Head(toClient).type # "KEXINIT"
  BY <1>1 DEF TypeInv, ReadsLine, Greets, peer
<1>3. /\ DOMAIN toClient = 1..Len(toClient) /\ 1 \in DOMAIN toClient
      /\ Head(toClient) = toClient[1] /\ DOMAIN toClient' = 1..Len(toClient) - 1
      /\ Len(toClient) \in Nat
      /\ \A k \in DOMAIN toClient' :
            k \in Nat /\ k + 1 \in DOMAIN toClient /\ toClient'[k] = toClient[k + 1]
      /\ \A k \in DOMAIN toClient :
            k # 1 => k - 1 \in DOMAIN toClient' /\ toClient'[k - 1] = toClient[k]
  BY <1>2, Taken
<1>4. /\ \A k \in WrongGuesses' : k \in Nat /\ k # 0 /\ k + 1 \in WrongGuesses
      /\ \A k \in Kexinits' : k \in Nat /\ k + 1 \in Kexinits
      /\ \A k \in Kexinits : k # 1 /\ k - 1 \in Kexinits'
  BY <1>2, <1>3 DEF WrongGuesses, Kexinits
<1>5. GuessedRight' = GuessedRight
  BY <1>2 DEF GuessedRight
<1>6. kind = "host_key" => taken' # "wrong_guess"
  BY <1>2 DEF Guesses
<1>7. Kexinits = {} => Kexinits' = {}
  BY <1>4
<1>8. \A j, k \in Kexinits' : j = k
  <2>1. ASSUME NEW j \in Kexinits', NEW k \in Kexinits' PROVE j = k
    <3>1. j + 1 = k + 1 /\ j \in Nat /\ k \in Nat
      BY <1>2, <1>4 DEF Guesses
    <3> QED BY <3>1
  <2> QED BY <2>1
<1>9. WrongGuesses' # {} => server'.follows /\ ~GuessedRight'
  BY <1>2, <1>4, <1>5 DEF Guesses
<1>10. \A k \in WrongGuesses' : toClient'[k].type \notin PassedOver
  BY <1>2, <1>3, <1>4 DEF Guesses, WrongGuesses
<1>11. ASSUME kind = "host_key", NEW k \in WrongGuesses'
       PROVE  k > 1 /\ k - 1 \in Kexinits'
  <2>1. k \in Nat /\ k # 0 /\ k + 1 \in WrongGuesses /\ k + 1 # 1 /\ (k + 1) - 1 = k
    BY <1>4
  <2>2. k \in Kexinits
    BY <1>2, <1>11, <2>1 DEF Guesses
  <2> QED BY <1>4, <2>1, <2>2
<1> QED BY <1>2, <1>6, <1>7, <1>8, <1>9, <1>10, <1>11 DEF Guesses

LEMMA GuessesServer ==
    ASSUME TypeInv, Guesses, Server
    PROVE  Guesses'
<1>1. Quiet /\ kind' = kind /\ server' = server /\ taken' = taken /\ pc' = pc
  BY ServerTyped DEF Quiet, scanner
<1>2. GuessedRight' = GuessedRight
  BY <1>1 DEF GuessedRight
<1>3. CASE ~ServerKexinit
  <2>1. Grows /\ pc # "closed" /\ (stage' = stage \/ (stage = "banner" /\ stage' = "kexinit"))
    BY <1>3, ServerGrows
  <2>2. WrongGuesses' = WrongGuesses /\ Kexinits' = Kexinits
    BY <2>1 DEF Grows, WrongGuesses, Kexinits
  <2>3. \A k \in WrongGuesses : toClient'[k] = toClient[k]
    BY <2>1 DEF Grows, WrongGuesses
  <2> QED BY <1>1, <1>2, <2>1, <2>2, <2>3 DEF Guesses
<1>4. CASE ServerKexinit
  <2>1. SaysKexinit
    BY <1>4, KexinitForm
  <2>2. /\ pc # "closed" /\ stage = "kexinit" /\ stage' = "wait" /\ toClient \in Seq(Packets)
        /\ Kexinits = {} /\ pc \in {"banner", "kexinit"}
    BY <2>1 DEF SaysKexinit, Guesses, TypeInv
  <2> DEFINE x == Packet("KEXINIT", "server", TRUE, 0, FALSE)
             y == Packet(GuessedType, GuessBy, TRUE, 1, FALSE)
             n == Len(toClient)
  <2>3. x \in Packets /\ x.type = "KEXINIT" /\ x.by = "server"
    <3>1. "KEXINIT" \in Sent
      BY DEF Sent, Answers
    <3>2. x \in Packets
      BY <3>1, PacketTyped
    <3>3. x.by = "server" /\ x.type = "KEXINIT"
      BY DEF Packet
    <3> HIDE DEF x
    <3> QED BY <3>2, <3>3
  <2>4. /\ y \in Packets /\ y.type # "KEXINIT" /\ y.type \notin PassedOver
        /\ (y.by = "wrong_guess" <=> ~GuessedRight)
    <3>1. /\ GuessedType \in Sent /\ GuessBy \in {"server", "right_guess", "wrong_guess"}
          /\ GuessedType # "KEXINIT" /\ GuessedType \notin PassedOver
          /\ (GuessBy = "wrong_guess" <=> ~GuessedRight)
      BY DEF GuessedType, GuessBy, Sent, Answers, PassedOver, Fillers
    <3>2. y \in Packets
      BY <3>1, PacketTyped
    <3>3. y.type = GuessedType /\ y.by = GuessBy
      BY DEF Packet
    <3> HIDE DEF y
    <3> QED BY <3>1, <3>2, <3>3
  <2> HIDE DEF x, y
  <2>5. CASE ~server.follows /\ toClient' = toClient \o <<x>>
    <3>1. /\ n \in Nat /\ DOMAIN toClient = 1..n /\ DOMAIN toClient' = 1..n + 1
          /\ \A k \in DOMAIN toClient : k \in DOMAIN toClient' /\ toClient'[k] = toClient[k]
          /\ toClient'[n + 1] = x /\ \A k \in DOMAIN toClient' : k \in DOMAIN toClient \/ k = n + 1
      BY <2>2, <2>3, <2>5, AddedOne
    <3> HIDE DEF n
    <3>2. Kexinits' = {n + 1} /\ WrongGuesses' = WrongGuesses
      BY <2>2, <2>3, <3>1 DEF Kexinits, WrongGuesses
    <3>3. WrongGuesses = {}
      BY <2>2, <2>5 DEF Guesses
    <3> QED BY <1>1, <1>2, <2>2, <3>2, <3>3 DEF Guesses
  <2>6. CASE server.follows /\ toClient' = toClient \o <<x, y>>
    <3> DEFINE s == <<x, y>>
    <3>0. s \in Seq(Packets) /\ Len(s) = 2 /\ s[1] = x /\ s[2] = y
      BY <2>3, <2>4
    <3>1. toClient' = toClient \o s /\ s \in Seq(Packets) /\ toClient \in Seq(Packets)
      BY <2>2, <2>6, <3>0
    <3> HIDE DEF s
    <3>2. /\ n \in Nat /\ DOMAIN toClient = 1..n /\ DOMAIN toClient' = 1..n + Len(s)
          /\ \A k \in DOMAIN toClient : k \in DOMAIN toClient' /\ toClient'[k] = toClient[k]
          /\ \A k \in 1..Len(s) : n + k \in DOMAIN toClient' /\ toClient'[n + k] = s[k]
      BY <3>1, Added
    <3> HIDE DEF n
    <3>3. /\ DOMAIN toClient' = 1..n + 2
          /\ n + 1 \in DOMAIN toClient' /\ toClient'[n + 1] = x
          /\ n + 2 \in DOMAIN toClient' /\ toClient'[n + 2] = y
      BY <3>0, <3>2
    <3>4. \A k \in DOMAIN toClient' : k \in DOMAIN toClient \/ k = n + 1 \/ k = n + 2
      BY <3>2, <3>3
    <3>5. Kexinits' = {n + 1}
      BY <2>2, <2>3, <2>4, <3>2, <3>3, <3>4 DEF Kexinits
    <3>6. \A k \in WrongGuesses' : k \in WrongGuesses \/ (k = n + 2 /\ ~GuessedRight)
      BY <2>3, <2>4, <3>2, <3>3, <3>4 DEF WrongGuesses
    <3>7. \A k \in WrongGuesses' : toClient'[k].type \notin PassedOver
      BY <2>2, <2>4, <3>2, <3>3, <3>6 DEF Guesses, WrongGuesses
    <3>8. WrongGuesses' # {} => server.follows /\ ~GuessedRight
      BY <2>2, <2>6, <3>6 DEF Guesses
    <3>9. kind = "host_key" => \A k \in WrongGuesses' : k > 1 /\ k - 1 \in Kexinits'
      <4>1. kind = "host_key" => WrongGuesses = {}
        BY <2>2 DEF Guesses
      <4>2. n + 2 > 1 /\ (n + 2) - 1 = n + 1
        BY <3>2
      <4> QED BY <3>5, <3>6, <4>1, <4>2
    <3> QED BY <1>1, <1>2, <2>2, <3>5, <3>7, <3>8, <3>9 DEF Guesses
  <2> QED BY <2>1, <2>5, <2>6 DEF SaysKexinit, x, y
<1> QED BY <1>3, <1>4

LEMMA GuessesHold == Spec => []Guesses
<1>1. Init => Guesses
  <2> SUFFICES ASSUME Init PROVE Guesses
    OBVIOUS
  <2>1. DOMAIN toClient = {} /\ taken = "nobody" /\ pc = "banner"
    BY DEF Init
  <2> QED BY <2>1 DEF Guesses, Kexinits, WrongGuesses
<1>2. TypeInv /\ Guesses /\ [Next]_vars => Guesses'
  <2> SUFFICES ASSUME TypeInv, Guesses, [Next]_vars PROVE Guesses'
    OBVIOUS
  <2>1. CASE GivesUp
    BY <2>1, GivesUpTyped DEF Guesses
  <2>2. CASE UNCHANGED vars
    BY <2>2 DEF vars, scanner, peer, Guesses, Kexinits, WrongGuesses, GuessedRight
  <2> QED BY <2>1, <2>2, GuessesRead, GuessesLine, GuessesServer DEF Next, Scanner
<1> QED BY <1>1, <1>2, TypeHolds, PTL DEF Spec

\* The host key is read from the server's own reply, or from the guess the
\* server was right to make, never from a guess for another method
\* (fetch_host_key, _discard_wrong_guess).
THEOREM KeysAreReal == Spec => []KeyIsReal
<1> DEFINE OwnOutcome == outcome = "host_key" => kind = "host_key"
<1>1. Init => OwnOutcome
  BY DEF Init
<1>2. TypeInv /\ OwnOutcome /\ [Next]_vars => OwnOutcome'
  <2> SUFFICES ASSUME TypeInv, OwnOutcome, [Next]_vars PROVE OwnOutcome'
    OBVIOUS
  <2>1. CASE ReadPacket
    BY <2>1, ReadForm DEF Reads, Passes, Proceeds, Ends
  <2>2. CASE ReadLine
    BY <2>2, LineForm DEF ReadsLine, Greets
  <2>3. CASE GivesUp
    BY <2>3, GivesUpTyped
  <2>4. CASE Server \/ UNCHANGED vars
    BY <2>4, ServerTyped DEF Quiet, scanner, vars
  <2> QED BY <2>1, <2>2, <2>3, <2>4 DEF Next, Scanner
<1>3. Guesses /\ OwnOutcome => KeyIsReal
  BY DEF Guesses, KeyIsReal
<1> QED BY <1>1, <1>2, <1>3, TypeHolds, GuessesHold, PTL DEF Spec

-----------------------------------------------------------------------------
(* What the server says, as one sequence of packets                        *)

SaysLine(s) ==
    /\ stage = "banner" /\ Len(s) = 1 /\ serverSend' = serverSend
    /\ s[1].type \in {"LINE", "BANNER", "OLD_BANNER"} /\ s[1].keyed = FALSE
    /\ stage' = IF s[1].type = "LINE" THEN "banner" ELSE "kexinit"
    /\ noise' = IF s[1].type = "LINE" THEN noise + 1 ELSE noise
    /\ cause' = (cause \/ s[1].type = "OLD_BANNER" \/ noise' >= LineLimit)
    /\ UNCHANGED <<toServer, strictOn, serverKeyed, serverRecv>>

SaysProposal(s) ==
    /\ stage = "kexinit" /\ stage' = "wait"
    /\ Len(s) = IF server.follows THEN 2 ELSE 1
    /\ s[1].type = "KEXINIT" /\ s[1].keyed = FALSE
    /\ server.follows => s[2].type = GuessedType /\ s[2].keyed = FALSE /\ s[2].sound = TRUE
    /\ serverSend' = serverSend + Len(s)
    /\ UNCHANGED <<cause, noise, toServer, strictOn, serverKeyed, serverRecv>>

Replied(type, s) ==
    \/ /\ Len(s) = 0 /\ type \notin {"INIT", "SERVICE_REQUEST", "USERAUTH_REQUEST"}
       /\ type = "GEX_REQUEST" => Guessed("GROUP")
    \/ type = "GEX_REQUEST" /\ ~Guessed("GROUP") /\ Len(s) = 1 /\ s[1].type = "GROUP"
    \/ type = "INIT" /\ Guessed("REPLY") /\ Len(s) = 1 /\ s[1].type = "NEWKEYS"
    \/ /\ type = "INIT" /\ ~Guessed("REPLY")
       /\ Len(s) = 2 /\ s[1].type = "REPLY" /\ s[2].type = "NEWKEYS"
    \/ type = "SERVICE_REQUEST" /\ Len(s) = 1 /\ s[1].type = "SERVICE_ACCEPT"
    \/ /\ type = "USERAUTH_REQUEST" /\ Len(s) = 1
       /\ s[1].type \in {"USERAUTH_FAILURE", "USERAUTH_SUCCESS"}

SaysReply(s) ==
    /\ stage = "wait" /\ toServer # <<>> /\ toServer' = Tail(toServer)
    /\ Replied(Head(toServer).type, s)
    /\ \A i \in 1..Len(s) : s[i].keyed = serverKeyed
    /\ serverSend' = IF Head(toServer).type = "INIT" /\ strictOn THEN 0 ELSE serverSend + Len(s)
    /\ serverRecv' = IF Head(toServer).type = "NEWKEYS" /\ strictOn THEN 0 ELSE serverRecv + 1
    /\ serverKeyed' = (serverKeyed \/ Head(toServer).type = "INIT")
    /\ strictOn' = (strictOn \/ (server.strict /\ Head(toServer).type = "KEXINIT_strict"))
    /\ cause => cause'
    /\ ~cause' => \A i \in 1..Len(s) : s[i].type \in {"GROUP", "REPLY"} => s[i].sound = TRUE
    /\ UNCHANGED <<stage, noise>>

SaysBeside(s) ==
    /\ stage \in {"kexinit", "wait"} /\ stage' = stage
    /\ Len(s) = 1 /\ s[1].type \in Beside /\ s[1].keyed = serverKeyed
    /\ serverSend' = serverSend + 1 /\ noise' = noise + 1
    /\ cause' = (cause \/ s[1].type \notin PassedOver \/ noise' >= ReadLimit)
    /\ UNCHANGED <<toServer, strictOn, serverKeyed, serverRecv>>

Speech(s) ==
    /\ toClient' = toClient \o s
    /\ \A i \in 1..Len(s) : s[i].seq = serverSend + (i - 1)
    /\ SaysLine(s) \/ SaysProposal(s) \/ SaysReply(s) \/ SaysBeside(s)

\* Sequences of one and two packets.
LEMMA OnePacket ==
    ASSUME NEW x \in Packets, NEW s, s = <<x>>, x.seq = serverSend, serverSend \in Nat
    PROVE  /\ s \in Seq(Packets) /\ Len(s) = 1 /\ s[1] = x
           /\ \A i \in 1..Len(s) : s[i] = x /\ s[i].seq = serverSend + (i - 1)
<1>1. s \in Seq(Packets)
  BY OneAndTwo
<1>2. Len(s) = 1 /\ s[1] = x
  OBVIOUS
<1> QED BY <1>1, <1>2

LEMMA TwoPackets ==
    ASSUME NEW x \in Packets, NEW y \in Packets, NEW s, s = <<x, y>>, serverSend \in Nat,
           x.seq = serverSend, y.seq = serverSend + 1
    PROVE  /\ s \in Seq(Packets) /\ Len(s) = 2 /\ s[1] = x /\ s[2] = y
           /\ \A i \in 1..Len(s) : (s[i] = x \/ s[i] = y) /\ s[i].seq = serverSend + (i - 1)
<1>1. s \in Seq(Packets)
  BY OneAndTwo
<1>2. Len(s) = 2 /\ s[1] = x /\ s[2] = y
  OBVIOUS
<1> QED BY <1>1, <1>2

LEMMA SpeechForm ==
    ASSUME TypeInv, Server
    PROVE  Quiet /\ pc # "closed" /\ \E s \in Seq(Packets) : Speech(s)
<1>0. serverSend \in Nat /\ serverSend + 0 = serverSend /\ serverKeyed \in BOOLEAN
      /\ toClient \in Seq(Packets)
  BY DEF TypeInv
<1>1. ASSUME NEW type \in {"LINE", "BANNER", "OLD_BANNER"}, ServerLine(type)
      PROVE  pc # "closed" /\ \E s \in Seq(Packets) : Speech(s)
  <2> DEFINE x == Packet(type, "server", TRUE, 0, FALSE)
             s == <<x>>
  <2>1. x \in Packets
    BY PacketTyped DEF Sent
  <2>2. x.type = type /\ x.seq = serverSend /\ x.keyed = FALSE
    BY <1>0 DEF Packet
  <2>3. toClient' = toClient \o s
    BY <1>1, LineSaid
  <2> HIDE DEF x
  <2>4. /\ s \in Seq(Packets) /\ Len(s) = 1 /\ s[1] = x
        /\ \A i \in 1..Len(s) : s[i].seq = serverSend + (i - 1)
    BY <1>0, <2>1, <2>2, OnePacket
  <2> HIDE DEF s
  <2>5. SaysLine(s)
    BY <1>1, <2>2, <2>4 DEF SaysLine, ServerLine
  <2> QED BY <1>1, <2>3, <2>4, <2>5 DEF Speech, ServerLine
<1>2. CASE ServerKexinit
  <2>1. SaysKexinit
    BY <1>2, KexinitForm
  <2> DEFINE x == Packet("KEXINIT", "server", TRUE, 0, FALSE)
             y == Packet(GuessedType, GuessBy, TRUE, 1, FALSE)
  <2>2. x \in Packets /\ y \in Packets
    <3>1. GuessedType \in Sent /\ GuessBy \in {"server", "right_guess", "wrong_guess"}
          /\ "KEXINIT" \in Sent
      BY DEF GuessedType, GuessBy, Sent, Answers
    <3>2. x \in Packets
      BY <3>1, PacketTyped
    <3>3. y \in Packets
      BY <3>1, PacketTyped
    <3> QED BY <3>2, <3>3
  <2>3. /\ x.type = "KEXINIT" /\ x.seq = serverSend /\ x.keyed = FALSE
        /\ y.type = GuessedType /\ y.seq = serverSend + 1 /\ y.keyed = FALSE /\ y.sound = TRUE
    BY <1>0 DEF Packet
  <2>4. CASE server.follows /\ toClient' = toClient \o <<x, y>> /\ serverSend' = serverSend + 2
    <3> DEFINE s == <<x, y>>
    <3> HIDE DEF x, y
    <3>1. /\ s \in Seq(Packets) /\ Len(s) = 2 /\ s[1] = x /\ s[2] = y
          /\ \A i \in 1..Len(s) : s[i].seq = serverSend + (i - 1)
      BY <1>0, <2>2, <2>3, TwoPackets
    <3>2. toClient' = toClient \o s
      BY <2>4
    <3> HIDE DEF s
    <3>3. SaysProposal(s)
      BY <2>1, <2>3, <2>4, <3>1 DEF SaysKexinit, SaysProposal
    <3> QED BY <2>1, <3>1, <3>2, <3>3 DEF Speech, SaysKexinit
  <2>5. CASE ~server.follows /\ toClient' = toClient \o <<x>> /\ serverSend' = serverSend + 1
    <3> DEFINE s == <<x>>
    <3> HIDE DEF x, y
    <3>1. /\ s \in Seq(Packets) /\ Len(s) = 1 /\ s[1] = x
          /\ \A i \in 1..Len(s) : s[i].seq = serverSend + (i - 1)
      BY <1>0, <2>2, <2>3, OnePacket
    <3>2. toClient' = toClient \o s
      BY <2>5
    <3> HIDE DEF s
    <3>3. SaysProposal(s)
      BY <2>1, <2>3, <2>5, <3>1 DEF SaysKexinit, SaysProposal
    <3> QED BY <2>1, <3>1, <3>2, <3>3 DEF Speech, SaysKexinit
  <2> QED BY <2>1, <2>4, <2>5 DEF SaysKexinit
<1>3. ASSUME NEW sound \in BOOLEAN, ServerAnswers(sound)
      PROVE  pc # "closed" /\ \E s \in Seq(Packets) : Speech(s)
  <2> DEFINE type == Head(toServer).type
  <2>1. Replies(type, sound)
    BY <1>3, ReplyForm
  <2>2. ASSUME NEW s \in Seq(Packets), toClient' = toClient \o s, Replied(type, s),
               \A i \in 1..Len(s) : /\ s[i].seq = serverSend + (i - 1)
                                    /\ s[i].keyed = serverKeyed /\ s[i].sound = sound,
               serverSend' = IF type = "INIT" /\ strictOn THEN 0 ELSE serverSend + Len(s)
        PROVE  Speech(s)
    <3>1. ~cause' => \A i \in 1..Len(s) : s[i].type \in {"GROUP", "REPLY"} => s[i].sound = TRUE
      <4>1. CASE sound
        BY <2>2, <4>1
      <4>2. CASE ~sound /\ type \notin {"GEX_REQUEST", "INIT"}
        <5>1. \A i \in 1..Len(s) : s[i].type \notin {"GROUP", "REPLY"}
          BY <2>2, <4>2 DEF Replied
        <5> QED BY <5>1
      <4>3. CASE ~sound /\ type \in {"GEX_REQUEST", "INIT"}
        BY <2>1, <4>3 DEF Replies
      <4> QED BY <4>1, <4>2, <4>3
    <3>2. SaysReply(s)
      BY <2>1, <2>2, <3>1 DEF SaysReply, Replies
    <3> QED BY <2>2, <3>2 DEF Speech
  <2>3. CASE /\ toClient' = toClient /\ serverSend' = serverSend
             /\ type \notin {"INIT", "SERVICE_REQUEST", "USERAUTH_REQUEST"}
             /\ type = "GEX_REQUEST" => Guessed("GROUP")
    <3> DEFINE s == <<>>
    <3>1. s \in Seq(Packets) /\ Len(s) = 0 /\ toClient \o s = toClient
      BY <1>0, EmptySeq, ConcatEmptySeq
    <3> HIDE DEF s, type
    <3>2. Replied(type, s)
      BY <2>3, <3>1 DEF Replied
    <3>3. ~(1 <= Len(s)) /\ serverSend' = serverSend + Len(s) /\ toClient' = toClient \o s
      BY <1>0, <2>3, <3>1
    <3>4. \A i \in 1..Len(s) : /\ s[i].seq = serverSend + (i - 1)
                               /\ s[i].keyed = serverKeyed /\ s[i].sound = sound
      BY <3>1, <3>3
    <3>5. serverSend' = IF type = "INIT" /\ strictOn THEN 0 ELSE serverSend + Len(s)
      BY <2>3, <3>3
    <3>6. Speech(s)
      BY <2>2, <3>1, <3>2, <3>3, <3>4, <3>5
    <3> QED BY <2>1, <3>1, <3>6 DEF Replies
  <2>4. ASSUME NEW word \in Answers, Says1(word, sound), type # "INIT",
               \A s \in Seq(Packets) : Len(s) = 1 /\ s[1].type = word => Replied(type, s)
        PROVE  pc # "closed" /\ \E s \in Seq(Packets) : Speech(s)
    <3> DEFINE x == Packet(word, "server", sound, 0, serverKeyed)
               s == <<x>>
    <3>1. x \in Packets
      BY <1>0, PacketTyped DEF Sent
    <3>2. x.type = word /\ x.seq = serverSend /\ x.keyed = serverKeyed /\ x.sound = sound
      BY <1>0 DEF Packet
    <3>3. toClient' = toClient \o s /\ serverSend' = serverSend + 1
      BY <2>4 DEF Says1
    <3> HIDE DEF x
    <3>4. /\ s \in Seq(Packets) /\ Len(s) = 1 /\ s[1] = x
          /\ \A i \in 1..Len(s) : s[i] = x /\ s[i].seq = serverSend + (i - 1)
      BY <1>0, <3>1, <3>2, OnePacket
    <3> HIDE DEF s
    <3>5. Speech(s)
      BY <2>2, <2>4, <3>2, <3>3, <3>4
    <3> QED BY <2>1, <3>4, <3>5 DEF Replies
  <2>5. CASE type = "INIT" /\ AnswersInit(sound)
    <3> DEFINE x == Packet("REPLY", "server", sound, 0, serverKeyed)
               y == Packet("NEWKEYS", "server", sound, 1, serverKeyed)
               z == Packet("NEWKEYS", "server", sound, 0, serverKeyed)
    <3>1. x \in Packets /\ y \in Packets /\ z \in Packets
      <4>1. "NEWKEYS" \in Sent /\ "REPLY" \in Sent
        BY DEF Sent, Answers
      <4> QED BY <1>0, <4>1, PacketTyped
    <3>2. /\ x.type = "REPLY" /\ x.seq = serverSend /\ x.keyed = serverKeyed /\ x.sound = sound
          /\ y.type = "NEWKEYS" /\ y.seq = serverSend + 1 /\ y.keyed = serverKeyed
          /\ y.sound = sound
          /\ z.type = "NEWKEYS" /\ z.seq = serverSend /\ z.keyed = serverKeyed /\ z.sound = sound
      BY <1>0 DEF Packet
    <3>3. CASE Guessed("REPLY") /\ toClient' = toClient \o <<z>>
               /\ serverSend' = IF strictOn THEN 0 ELSE serverSend + 1
      <4> DEFINE s == <<z>>
      <4> HIDE DEF z
      <4>1. /\ s \in Seq(Packets) /\ Len(s) = 1 /\ s[1] = z
            /\ \A i \in 1..Len(s) : s[i] = z /\ s[i].seq = serverSend + (i - 1)
        BY <1>0, <3>1, <3>2, OnePacket
      <4>2. toClient' = toClient \o s
        BY <3>3
      <4> HIDE DEF s
      <4>3. Speech(s)
        BY <2>2, <2>5, <3>2, <3>3, <4>1, <4>2 DEF Replied
      <4> QED BY <2>1, <4>1, <4>3 DEF Replies
    <3>4. CASE ~Guessed("REPLY") /\ toClient' = toClient \o <<x, y>>
               /\ serverSend' = IF strictOn THEN 0 ELSE serverSend + 2
      <4> DEFINE s == <<x, y>>
      <4> HIDE DEF x, y
      <4>1. /\ s \in Seq(Packets) /\ Len(s) = 2 /\ s[1] = x /\ s[2] = y
            /\ \A i \in 1..Len(s) : (s[i] = x \/ s[i] = y) /\ s[i].seq = serverSend + (i - 1)
        BY <1>0, <3>1, <3>2, TwoPackets
      <4>2. toClient' = toClient \o s
        BY <3>4
      <4> HIDE DEF s
      <4>3. Speech(s)
        BY <2>2, <2>5, <3>2, <3>4, <4>1, <4>2 DEF Replied
      <4> QED BY <2>1, <4>1, <4>3 DEF Replies
    <3> QED BY <2>5, <3>3, <3>4 DEF AnswersInit
  <2> HIDE DEF type
  <2>6. CASE type = "GEX_REQUEST" /\ ~Guessed("GROUP") /\ Says1("GROUP", sound)
    BY <2>4, <2>6 DEF Replied, Answers
  <2>7. CASE type = "SERVICE_REQUEST" /\ Says1("SERVICE_ACCEPT", sound)
    BY <2>4, <2>7 DEF Replied, Answers
  <2>8. CASE type = "USERAUTH_REQUEST"
             /\ \E word \in {"USERAUTH_FAILURE", "USERAUTH_SUCCESS"} : Says1(word, sound)
    BY <2>4, <2>8 DEF Replied, Answers
  <2> QED BY <2>1, <2>3, <2>5, <2>6, <2>7, <2>8 DEF Replies
<1>4. ASSUME NEW type \in Beside, Noise(type)
      PROVE  pc # "closed" /\ \E s \in Seq(Packets) : Speech(s)
  <2> DEFINE x == Packet(type, "server", TRUE, 0, serverKeyed)
             s == <<x>>
  <2>1. x \in Packets
    BY <1>0, PacketTyped DEF Sent, Beside
  <2>2. x.type = type /\ x.seq = serverSend /\ x.keyed = serverKeyed
    BY <1>0 DEF Packet
  <2>3. toClient' = toClient \o s /\ serverSend' = serverSend + 1
    BY <1>4, NoiseForm DEF Says1
  <2> HIDE DEF x
  <2>4. /\ s \in Seq(Packets) /\ Len(s) = 1 /\ s[1] = x
        /\ \A i \in 1..Len(s) : s[i].seq = serverSend + (i - 1)
    BY <1>0, <2>1, <2>2, OnePacket
  <2> HIDE DEF s
  <2>5. SaysBeside(s)
    BY <1>4, <2>2, <2>3, <2>4 DEF SaysBeside, Noise
  <2> QED BY <1>4, <2>3, <2>4, <2>5 DEF Speech, Noise
<1> QED BY <1>1, <1>2, <1>3, <1>4, ServerTyped DEF Server, Beside

-----------------------------------------------------------------------------
(* Both sides seal and open each packet alike                              *)

\* What a step of the scanner adds to the requests under way.
LEMMA Sending ==
    ASSUME TypeInv, keyed' \in BOOLEAN, NEW T, T \subseteq Asked,
           Silent \/ (\E type \in T : Sends(type))
    PROVE  /\ Len(toServer) \in Nat /\ DOMAIN toServer = 1..Len(toServer)
           /\ Len(toServer') \in Nat /\ DOMAIN toServer' = 1..Len(toServer')
           /\ \/ sendSeq' = sendSeq /\ Len(toServer') = Len(toServer)
              \/ sendSeq' = sendSeq + 1 /\ Len(toServer') = Len(toServer) + 1
           /\ \A i \in DOMAIN toServer : i \in DOMAIN toServer' /\ toServer'[i] = toServer[i]
           /\ \A i \in DOMAIN toServer' :
                 \/ i \in DOMAIN toServer
                 \/ /\ i = Len(toServer) + 1
                    /\ toServer'[i].type \in T
                    /\ toServer'[i].seq = sendSeq /\ toServer'[i].keyed = keyed'
<1>1. toServer \in Seq(Requests) /\ sendSeq \in Nat
  BY DEF TypeInv
<1>2. Len(toServer) \in Nat /\ DOMAIN toServer = 1..Len(toServer)
  BY <1>1, LenProperties
<1>3. CASE Silent
  BY <1>2, <1>3 DEF Silent
<1>4. ASSUME NEW type \in T, Sends(type)
      PROVE  /\ sendSeq' = sendSeq + 1
             /\ Len(toServer') = Len(toServer) + 1 /\ DOMAIN toServer' = 1..Len(toServer) + 1
             /\ \A i \in DOMAIN toServer : i \in DOMAIN toServer' /\ toServer'[i] = toServer[i]
             /\ \A i \in DOMAIN toServer' :
                   \/ i \in DOMAIN toServer
                   \/ /\ i = Len(toServer) + 1
                      /\ toServer'[i].type \in T
                      /\ toServer'[i].seq = sendSeq /\ toServer'[i].keyed = keyed'
  <2> DEFINE request == [type |-> type, seq |-> sendSeq, keyed |-> keyed']
  <2>1. request \in Requests /\ request.type = type /\ request.seq = sendSeq
        /\ request.keyed = keyed'
    BY <1>1 DEF Requests
  <2>2. toServer' = toServer \o <<request>> /\ sendSeq' = sendSeq + 1
    BY <1>4 DEF Sends
  <2> HIDE DEF request
  <2>3. /\ Len(toServer') = Len(toServer) + 1 /\ DOMAIN toServer' = 1..Len(toServer) + 1
        /\ \A i \in DOMAIN toServer : i \in DOMAIN toServer' /\ toServer'[i] = toServer[i]
        /\ toServer'[Len(toServer) + 1] = request
        /\ \A i \in DOMAIN toServer' : i \in DOMAIN toServer \/ i = Len(toServer) + 1
    BY <1>1, <2>1, <2>2, AddedOne
  <2> QED BY <2>1, <2>2, <2>3
<1>5. CASE \E type \in T : Sends(type)
  BY <1>2, <1>4, <1>5
<1> QED BY <1>3, <1>5

\* The requests under way stay numbered, sealed and in their place when the
\* scanner adds to them.
LEMMA SealedSending ==
    ASSUME TypeInv, SealInv, pc # "closed", keyed' \in BOOLEAN, keyed => keyed',
           UNCHANGED <<serverRecv, kind>>,
           NEW T, T \subseteq Asked, Silent \/ (\E type \in T : Sends(type)),
           kind = "auth" => "KEXINIT_strict" \notin T
    PROVE  /\ \A i \in DOMAIN toServer' : toServer'[i].keyed => keyed'
           /\ \A i \in DOMAIN toServer' : toServer'[i].type \in T
                 \/ (i \in DOMAIN toServer /\ toServer'[i].type = toServer[i].type)
           /\ kind = "auth" =>
                 /\ \A i \in DOMAIN toServer' : toServer'[i].type # "KEXINIT_strict"
                 /\ sendSeq' = serverRecv' + Len(toServer')
                 /\ \A i \in DOMAIN toServer' : toServer'[i].seq = serverRecv' + i - 1
<1>1. /\ Len(toServer) \in Nat /\ DOMAIN toServer = 1..Len(toServer)
      /\ Len(toServer') \in Nat /\ DOMAIN toServer' = 1..Len(toServer')
      /\ \/ sendSeq' = sendSeq /\ Len(toServer') = Len(toServer)
         \/ sendSeq' = sendSeq + 1 /\ Len(toServer') = Len(toServer) + 1
      /\ \A i \in DOMAIN toServer : i \in DOMAIN toServer' /\ toServer'[i] = toServer[i]
      /\ \A i \in DOMAIN toServer' :
            \/ i \in DOMAIN toServer
            \/ /\ i = Len(toServer) + 1
               /\ toServer'[i].type \in T
               /\ toServer'[i].seq = sendSeq /\ toServer'[i].keyed = keyed'
  BY Sending
<1>2. \A i \in DOMAIN toServer' : toServer'[i].keyed => keyed'
  BY <1>1 DEF SealInv, Sealed
<1>3. \A i \in DOMAIN toServer' : toServer'[i].type \in T
                 \/ (i \in DOMAIN toServer /\ toServer'[i].type = toServer[i].type)
  BY <1>1
<1>4. ASSUME kind = "auth"
      PROVE  /\ \A i \in DOMAIN toServer' : toServer'[i].type # "KEXINIT_strict"
             /\ sendSeq' = serverRecv' + Len(toServer')
             /\ \A i \in DOMAIN toServer' : toServer'[i].seq = serverRecv' + i - 1
  <2>1. /\ \A i \in DOMAIN toServer : toServer[i].type # "KEXINIT_strict"
        /\ sendSeq = serverRecv + Len(toServer)
        /\ \A i \in DOMAIN toServer : toServer[i].seq = serverRecv + i - 1
        /\ serverRecv \in Nat /\ serverRecv' = serverRecv /\ "KEXINIT_strict" \notin T
    BY <1>4 DEF SealInv, Numbered, TypeInv
  <2>2. \A i \in DOMAIN toServer' : toServer'[i].type # "KEXINIT_strict"
    BY <1>1, <2>1
  <2>0. /\ sendSeq = serverRecv + Len(toServer) /\ Len(toServer) \in Nat
        /\ serverRecv \in Nat /\ serverRecv' = serverRecv /\ Len(toServer') \in Nat
        /\ \/ sendSeq' = sendSeq /\ Len(toServer') = Len(toServer)
           \/ sendSeq' = sendSeq + 1 /\ Len(toServer') = Len(toServer) + 1
    BY <1>1, <2>1
  <2>3. sendSeq' = serverRecv' + Len(toServer')
    BY <2>0
  <2>4. ASSUME NEW i \in DOMAIN toServer' PROVE toServer'[i].seq = serverRecv' + i - 1
    <3>1. CASE i \in DOMAIN toServer
      BY <1>1, <2>1, <3>1
    <3>2. CASE i = Len(toServer) + 1 /\ toServer'[i].seq = sendSeq
      BY <2>0, <3>2
    <3> QED BY <1>1, <3>1, <3>2
  <2> QED BY <2>2, <2>3, <2>4
<1> QED BY <1>2, <1>3, <1>4

LEMMA SealedRead ==
    ASSUME TypeInv, SealInv, ReadPacket
    PROVE  SealInv'
<1>1. Reads /\ (Passes \/ Proceeds \/ Ends)
  BY ReadForm
<1>2. CASE Ends
  BY <1>2 DEF Ends, SealInv
<1>3. CASE Passes \/ Proceeds
  <2>0. /\ pc # "closed" /\ pc # "banner" /\ Sealed
        /\ (kind = "auth" => Numbered) /\ (kind # "auth" => ~keyed)
        /\ keyed \in BOOLEAN /\ serverKeyed \in BOOLEAN
        /\ kind' = kind /\ UNCHANGED <<stage, strictOn, serverKeyed, serverSend, serverRecv>>
        /\ toClient \in Seq(Packets) /\ toClient # <<>> /\ toClient' = Tail(toClient)
        /\ recvSeq' = recvSeq + 1 /\ recvSeq \in Nat
    BY <1>1 DEF SealInv, Reads, Exchanges, TypeInv, peer
  <2>1. /\ Len(toClient) \in Nat /\ DOMAIN toClient = 1..Len(toClient) /\ 1 \in DOMAIN toClient
        /\ Head(toClient) = toClient[1] /\ DOMAIN toClient' = 1..Len(toClient) - 1
        /\ Len(toClient') = Len(toClient) - 1
        /\ \A k \in DOMAIN toClient' :
              k \in Nat /\ k + 1 \in DOMAIN toClient /\ toClient'[k] = toClient[k + 1]
        /\ \A k \in DOMAIN toClient :
              k # 1 => k - 1 \in DOMAIN toClient' /\ toClient'[k - 1] = toClient[k]
    BY <2>0, Taken
  <2>2. /\ \A n \in NewKeys' : n \in Nat /\ n + 1 \in NewKeys
        /\ \A n \in NewKeys : n \in Nat /\ (n # 1 => n - 1 \in NewKeys')
        /\ 1 \in NewKeys <=> Head(toClient).type = "NEWKEYS"
    BY <2>1 DEF NewKeys
  <2>3. PICK T : /\ T \subseteq Asked /\ (Silent \/ (\E type \in T : Sends(type)))
                 /\ "KEXINIT_strict" \notin T
                 /\ pc' \in {"banner", "kexinit", "discard", "group"} =>
                       /\ "INIT" \notin T /\ pc \in {"banner", "kexinit", "discard", "group"}
    <3>1. CASE Passes
      <4>1. Silent /\ pc' = pc
        BY <3>1 DEF Passes
      <4> WITNESS {"KEXINIT"}
      <4> QED BY <4>1 DEF Asked
    <3>2. CASE Proceeds
      <4>1. CASE Silent /\ pc' \in {"discard", "auth"} /\ pc \in {"kexinit", "auth"}
                 /\ (pc' = "discard" => pc = "kexinit")
        <5> WITNESS {"KEXINIT"}
        <5> QED BY <4>1 DEF Asked
      <4>2. CASE Sends("GEX_REQUEST") /\ pc' = "group" /\ pc \in {"kexinit", "discard"}
        <5> WITNESS {"GEX_REQUEST"}
        <5> QED BY <4>2 DEF Asked
      <4>3. CASE pc' \in {"reply", "newkeys", "accept", "auth"}
                 /\ \E type \in Asked \ {"KEXINIT_strict"} : Sends(type)
        <5> WITNESS Asked \ {"KEXINIT_strict"}
        <5> QED BY <4>3
      <4> QED BY <3>2, <4>1, <4>2, <4>3 DEF Proceeds, Begins, Goes, Asked
    <3> QED BY <1>3, <3>1, <3>2
  <2>4. keyed' \in BOOLEAN /\ (keyed => keyed') /\ pc' # "banner"
    BY <1>3, <2>0 DEF Passes, Proceeds, Goes, Begins
  <2>5. /\ \A i \in DOMAIN toServer' : toServer'[i].keyed => keyed'
        /\ \A i \in DOMAIN toServer' : toServer'[i].type \in T
              \/ (i \in DOMAIN toServer /\ toServer'[i].type = toServer[i].type)
        /\ kind = "auth" =>
              /\ \A i \in DOMAIN toServer' : toServer'[i].type # "KEXINIT_strict"
              /\ sendSeq' = serverRecv' + Len(toServer')
              /\ \A i \in DOMAIN toServer' : toServer'[i].seq = serverRecv' + i - 1
    BY <2>0, <2>3, <2>4, SealedSending
  <2>6. /\ keyed' /\ ~keyed => 1 \in NewKeys /\ kind = "auth"
        /\ ~keyed' /\ serverKeyed => 1 \notin NewKeys
    <3>1. CASE Passes
      <4>1. Head(toClient).type # "NEWKEYS" /\ keyed' = keyed
        BY <3>1 DEF Passes, PassedOver, Fillers
      <4> QED BY <2>2, <4>1
    <3>2. CASE Proceeds
      <4>1. keyed' /\ ~keyed => Head(toClient).type = "NEWKEYS" /\ pc = "newkeys"
        BY <3>2 DEF Proceeds, Goes, Begins
      <4>2. pc = "newkeys" => kind = "auth"
        BY Limits DEF TypeInv, AllKinds
      <4>3. ~keyed' /\ serverKeyed => Head(toClient).type # "NEWKEYS"
        BY <2>0, <3>2 DEF Proceeds, Goes, Begins, Sealed
      <4> QED BY <2>2, <4>1, <4>2, <4>3
    <3> QED BY <1>3, <3>1, <3>2
  <2>7. Sealed'
    <3>1. keyed' => serverKeyed' /\ \A k \in DOMAIN toClient' : toClient'[k].keyed
      <4>1. CASE keyed
        BY <2>0, <2>1, <4>1 DEF Sealed
      <4>2. CASE ~keyed /\ keyed'
        <5>1. 1 \in NewKeys /\ \A k \in DOMAIN toClient : 1 < k => toClient[k].keyed
          BY <2>0, <2>6, <4>2 DEF Sealed
        <5>2. \A k \in DOMAIN toClient' : 1 < k + 1
          BY <2>1
        <5> QED BY <2>0, <2>1, <5>1, <5>2 DEF Sealed
      <4> QED BY <4>1, <4>2
    <3>2. ~keyed' /\ serverKeyed' => NewKeys' # {}
      BY <2>0, <2>2, <2>4, <2>6 DEF Sealed
    <3>3. ~serverKeyed' => NewKeys' = {} /\ \A k \in DOMAIN toClient' : ~toClient'[k].keyed
      BY <2>0, <2>1, <2>2 DEF Sealed
    <3>4. ASSUME ~keyed', NEW k \in DOMAIN toClient', toClient'[k].keyed
          PROVE  \E n \in NewKeys' : n < k
      <4>1. PICK n \in NewKeys : n < k + 1
        BY <2>0, <2>1, <2>4, <3>4 DEF Sealed
      <4>2. n # 1
        BY <2>0, <2>6, <3>4, <4>1 DEF Sealed
      <4>3. n - 1 \in NewKeys' /\ n - 1 < k
        BY <2>1, <2>2, <4>1, <4>2
      <4> QED BY <4>3
    <3>5. ASSUME NEW n \in NewKeys', NEW k \in DOMAIN toClient', n < k
          PROVE  toClient'[k].keyed
      <4>1. n + 1 \in NewKeys /\ k + 1 \in DOMAIN toClient /\ n + 1 < k + 1
        BY <2>1, <2>2, <3>5
      <4> QED BY <2>0, <2>1, <4>1 DEF Sealed
    <3>6. pc' \in {"banner", "kexinit", "discard", "group"} =>
             ~serverKeyed' /\ \A i \in DOMAIN toServer' : toServer'[i].type # "INIT"
      BY <2>0, <2>3, <2>5 DEF Sealed
    <3> QED BY <2>5, <3>1, <3>2, <3>3, <3>4, <3>5, <3>6 DEF Sealed
  <2>8. ASSUME kind = "auth" PROVE Numbered'
    <3>1. /\ ~strictOn /\ stage # "banner" /\ serverSend = recvSeq + Len(toClient)
          /\ \A k \in DOMAIN toClient : toClient[k].seq = recvSeq + k - 1
      BY <2>0, <2>8 DEF Numbered
    <3>2. serverSend' = recvSeq' + Len(toClient')
      BY <2>0, <2>1, <3>1
    <3>3. ASSUME NEW k \in DOMAIN toClient' PROVE toClient'[k].seq = recvSeq' + k - 1
      <4>1. toClient'[k].seq = recvSeq + (k + 1) - 1 /\ k \in Nat
        BY <2>1, <3>1
      <4> QED BY <2>0, <4>1
    <3> QED BY <2>0, <2>4, <2>5, <2>8, <3>1, <3>2, <3>3 DEF Numbered
  <2>9. kind # "auth" => ~keyed'
    BY <2>0, <2>6
  <2> QED BY <2>0, <2>7, <2>8, <2>9 DEF SealInv
<1> QED BY <1>1, <1>2, <1>3

LEMMA SealedLine ==
    ASSUME TypeInv, SealInv, ReadLine
    PROVE  SealInv'
<1>1. ReadsLine
  BY LineForm
<1>2. CASE pc' = "closed"
  BY <1>2 DEF SealInv
<1>3. CASE pc' # "closed"
  <2>0. /\ pc = "banner" /\ Sealed /\ (kind = "auth" => Numbered)
        /\ ~serverKeyed /\ ~keyed /\ keyed' = keyed
        /\ kind' = kind
        /\ UNCHANGED <<stage, strictOn, serverKeyed, serverSend, serverRecv, recvSeq>>
        /\ toClient \in Seq(Packets) /\ toClient # <<>> /\ toClient' = Tail(toClient)
    BY <1>1, <1>3 DEF SealInv, Sealed, ReadsLine, Greets, TypeInv, peer
  <2>1. /\ Len(toClient) \in Nat /\ DOMAIN toClient = 1..Len(toClient) /\ 1 \in DOMAIN toClient
        /\ Head(toClient) = toClient[1] /\ DOMAIN toClient' = 1..Len(toClient) - 1
        /\ Len(toClient') = Len(toClient) - 1
        /\ \A k \in DOMAIN toClient' :
              k \in Nat /\ k + 1 \in DOMAIN toClient /\ toClient'[k] = toClient[k + 1]
        /\ \A k \in DOMAIN toClient :
              k # 1 => k - 1 \in DOMAIN toClient' /\ toClient'[k - 1] = toClient[k]
    BY <2>0, Taken
  <2>2. NewKeys' = {} /\ \A k \in DOMAIN toClient' : ~toClient'[k].keyed
    BY <2>0, <2>1 DEF Sealed, NewKeys
  <2>3. PICK T : /\ T \subseteq {"KEXINIT_strict", "KEXINIT"}
                 /\ (Silent \/ (\E type \in T : Sends(type)))
                 /\ kind = "auth" => "KEXINIT_strict" \notin T
    <3>1. CASE Silent
      <4> WITNESS {"KEXINIT"}
      <4> QED BY <3>1 DEF Asked
    <3>2. CASE kind = "host_key" /\ Sends("KEXINIT_strict")
      <4> WITNESS {"KEXINIT_strict"}
      <4> QED BY <3>2
    <3>3. CASE kind = "auth" /\ Sends("KEXINIT")
      <4> WITNESS {"KEXINIT"}
      <4> QED BY <3>3
    <3>4. kind \in AllKinds
      BY Limits DEF TypeInv
    <3> QED BY <1>1, <1>3, <3>1, <3>2, <3>3, <3>4 DEF ReadsLine, Greets, AllKinds
  <2>4. T \subseteq Asked /\ keyed' \in BOOLEAN
    BY <2>0, <2>3 DEF Asked, TypeInv
  <2>5. /\ \A i \in DOMAIN toServer' : toServer'[i].keyed => keyed'
        /\ \A i \in DOMAIN toServer' : toServer'[i].type \in T
              \/ (i \in DOMAIN toServer /\ toServer'[i].type = toServer[i].type)
        /\ kind = "auth" =>
              /\ \A i \in DOMAIN toServer' : toServer'[i].type # "KEXINIT_strict"
              /\ sendSeq' = serverRecv' + Len(toServer')
              /\ \A i \in DOMAIN toServer' : toServer'[i].seq = serverRecv' + i - 1
    BY <2>0, <2>3, <2>4, SealedSending
  <2>6. Sealed'
    <3>1. \A i \in DOMAIN toServer' : toServer'[i].type # "INIT"
      BY <2>0, <2>3, <2>5 DEF Sealed
    <3> QED BY <2>0, <2>2, <2>5, <3>1 DEF Sealed
  <2>7. ASSUME kind = "auth" PROVE Numbered'
    <3>0. /\ ~strictOn /\ recvSeq = 0 /\ recvSeq' = 0
          /\ stage = "banner" =>
                serverSend = 0 /\ \A k \in DOMAIN toClient : toClient[k].type = "LINE"
          /\ stage # "banner" => \E b \in Banners :
                /\ serverSend = Len(toClient) - b
                /\ \A k \in DOMAIN toClient : k < b => toClient[k].type = "LINE"
                /\ \A k \in DOMAIN toClient : k > b => toClient[k].seq = k - b - 1
      BY <2>0, <2>7 DEF Numbered
    <3>1. CASE Greets
      <4>1. toClient[1].type = "BANNER" /\ pc' = "kexinit" /\ stage # "banner"
        BY <2>1, <3>0, <3>1 DEF Greets
      <4>2. PICK b \in Banners :
                /\ serverSend = Len(toClient) - b
                /\ \A k \in DOMAIN toClient : k < b => toClient[k].type = "LINE"
                /\ \A k \in DOMAIN toClient : k > b => toClient[k].seq = k - b - 1
        BY <3>0, <4>1
      <4>3. b = 1
        BY <2>1, <4>1, <4>2 DEF Banners
      <4>4. serverSend' = recvSeq' + Len(toClient')
        BY <2>0, <2>1, <3>0, <4>2, <4>3
      <4>5. ASSUME NEW k \in DOMAIN toClient' PROVE toClient'[k].seq = recvSeq' + k - 1
        <5>1. k \in Nat /\ k + 1 > 1 /\ k + 1 \in DOMAIN toClient /\ toClient'[k] = toClient[k + 1]
          BY <2>1
        <5>2. toClient'[k].seq = (k + 1) - 1 - 1
          BY <4>2, <4>3, <5>1
        <5> QED BY <3>0, <5>1, <5>2
      <4> QED BY <2>0, <2>5, <2>7, <3>0, <4>1, <4>4, <4>5 DEF Numbered
    <3>2. CASE Head(toClient).type = "LINE" /\ pc' = pc
      <4>1. CASE stage = "banner"
        <5>1. \A k \in DOMAIN toClient' : toClient'[k].type = "LINE"
          BY <2>1, <3>0, <4>1
        <5> QED BY <2>0, <2>5, <2>7, <3>0, <3>2, <4>1, <5>1 DEF Numbered
      <4>2. CASE stage # "banner"
        <5>1. PICK b \in Banners :
                  /\ serverSend = Len(toClient) - b
                  /\ \A k \in DOMAIN toClient : k < b => toClient[k].type = "LINE"
                  /\ \A k \in DOMAIN toClient : k > b => toClient[k].seq = k - b - 1
          BY <3>0, <4>2
        <5>2. b # 1 /\ b \in DOMAIN toClient /\ b \in Nat /\ b - 1 \in Banners'
          BY <2>1, <3>2 DEF Banners
        <5>3. serverSend' = Len(toClient') - (b - 1)
          BY <2>0, <2>1, <5>1, <5>2
        <5>4. \A k \in DOMAIN toClient' : k < b - 1 => toClient'[k].type = "LINE"
          <6>1. \A k \in DOMAIN toClient' : k < b - 1 => k + 1 < b
            BY <2>1, <5>2
          <6> QED BY <2>1, <5>1, <6>1
        <5>5. ASSUME NEW k \in DOMAIN toClient', k > b - 1
              PROVE  toClient'[k].seq = k - (b - 1) - 1
          <6>1. k \in Nat /\ k + 1 > b /\ toClient'[k].seq = (k + 1) - b - 1
            BY <2>1, <5>1, <5>2, <5>5
          <6> QED BY <5>2, <6>1
        <5>6. \E c \in Banners' :
                  /\ serverSend' = Len(toClient') - c
                  /\ \A k \in DOMAIN toClient' : k < c => toClient'[k].type = "LINE"
                  /\ \A k \in DOMAIN toClient' : k > c => toClient'[k].seq = k - c - 1
          BY <5>2, <5>3, <5>4, <5>5
        <5> QED BY <2>0, <2>5, <2>7, <3>0, <3>2, <4>2, <5>6 DEF Numbered
      <4> QED BY <4>1, <4>2
    <3> QED BY <1>1, <1>3, <3>1, <3>2 DEF ReadsLine
  <2> QED BY <2>0, <2>6, <2>7 DEF SealInv
<1> QED BY <1>2, <1>3

LEMMA SealedServer ==
    ASSUME TypeInv, SealInv, Guesses, Server
    PROVE  SealInv'
<1>1. Quiet /\ pc # "closed" /\ \E s \in Seq(Packets) : Speech(s)
  BY SpeechForm
<1>2. PICK s \in Seq(Packets) : Speech(s)
  BY <1>1
<1> DEFINE n == Len(toClient)
<1>3. /\ pc # "closed" /\ Sealed /\ (kind = "auth" => Numbered) /\ (kind # "auth" => ~keyed)
      /\ UNCHANGED <<kind, pc, keyed, sendSeq, recvSeq>>
      /\ keyed \in BOOLEAN /\ serverKeyed \in BOOLEAN /\ serverSend \in Nat /\ serverRecv \in Nat
      /\ recvSeq \in Nat /\ toServer \in Seq(Requests) /\ toClient \in Seq(Packets)
      /\ stage \in {"banner", "kexinit"} => pc \in {"banner", "kexinit"}
  BY <1>1 DEF SealInv, TypeInv, Quiet, scanner, Guesses
<1>4. /\ n \in Nat /\ DOMAIN toClient = 1..n /\ Len(s) \in Nat
      /\ Len(toClient') = n + Len(s) /\ DOMAIN toClient' = 1..n + Len(s)
      /\ \A k \in DOMAIN toClient : k \in DOMAIN toClient' /\ toClient'[k] = toClient[k]
      /\ \A i \in 1..Len(s) : n + i \in DOMAIN toClient' /\ toClient'[n + i] = s[i]
      /\ \A k \in DOMAIN toClient' :
            k \in DOMAIN toClient \/ (k > n /\ k - n \in 1..Len(s) /\ toClient'[k] = s[k - n])
  BY <1>2, <1>3, Added DEF Speech
<1> HIDE DEF n
<1>5. /\ Len(toServer) \in Nat /\ DOMAIN toServer = 1..Len(toServer)
      /\ \/ toServer' = toServer /\ serverRecv' = serverRecv /\ strictOn' = strictOn
         \/ /\ Len(toServer') = Len(toServer) - 1 /\ DOMAIN toServer' = 1..Len(toServer) - 1
            /\ \A i \in DOMAIN toServer' :
                  i + 1 \in DOMAIN toServer /\ toServer'[i] = toServer[i + 1]
            /\ kind = "auth" => serverRecv' = serverRecv + 1 /\ ~strictOn'
  <2>1. CASE UNCHANGED <<toServer, serverRecv, strictOn>>
    BY <1>3, <2>1, LenProperties
  <2>2. CASE SaysReply(s)
    <3>1. /\ Len(toServer) \in Nat /\ DOMAIN toServer = 1..Len(toServer) /\ 1 \in DOMAIN toServer
          /\ Head(toServer) = toServer[1]
          /\ Len(toServer') = Len(toServer) - 1 /\ DOMAIN toServer' = 1..Len(toServer) - 1
          /\ \A i \in DOMAIN toServer' :
                i + 1 \in DOMAIN toServer /\ toServer'[i] = toServer[i + 1]
      BY <1>3, <2>2, Taken DEF SaysReply
    <3>2. kind = "auth" => serverRecv' = serverRecv + 1 /\ ~strictOn'
      BY <1>3, <2>2, <3>1 DEF SaysReply, Numbered
    <3> QED BY <3>1, <3>2
  <2> QED BY <1>2, <2>1, <2>2 DEF Speech, SaysLine, SaysProposal, SaysBeside
<1>6. \A i \in DOMAIN toServer' : \E j \in DOMAIN toServer : toServer'[i] = toServer[j]
  BY <1>5
<1>7. /\ \A i \in 1..Len(s) : s[i].keyed = serverKeyed
      /\ \A i \in 1..Len(s) : s[i].type = "NEWKEYS" => i = Len(s) /\ serverKeyed'
      /\ serverKeyed => serverKeyed'
      /\ serverKeyed' /\ ~serverKeyed =>
            /\ Len(s) \in 1..Len(s) /\ s[Len(s)].type = "NEWKEYS"
            /\ pc \notin {"banner", "kexinit", "discard", "group"}
      /\ serverKeyed' => serverKeyed \/ pc \notin {"banner", "kexinit", "discard", "group"}
  <2>1. stage \in {"banner", "kexinit"} => serverKeyed = FALSE
    BY <1>3 DEF Sealed
  <2>0. ASSUME serverKeyed' = serverKeyed, serverKeyed = FALSE,
               \A i \in 1..Len(s) : s[i].keyed = FALSE /\ s[i].type # "NEWKEYS"
        PROVE  <1>7!:
    BY <1>3, <2>0
  <2>2. CASE SaysLine(s)
    <3>1. serverKeyed' = serverKeyed /\ serverKeyed = FALSE
      BY <2>1, <2>2 DEF SaysLine
    <3>2. \A i \in 1..Len(s) : s[i].keyed = FALSE /\ s[i].type # "NEWKEYS"
      BY <2>2 DEF SaysLine
    <3> QED BY <2>0, <3>1, <3>2
  <2>3. CASE SaysProposal(s)
    <3>1. serverKeyed' = serverKeyed /\ serverKeyed = FALSE
      BY <2>1, <2>3 DEF SaysProposal
    <3>2. \A i \in 1..Len(s) : s[i].keyed = FALSE /\ s[i].type # "NEWKEYS"
      BY <2>3 DEF SaysProposal, GuessedType
    <3> QED BY <2>0, <3>1, <3>2
  <2>4. CASE SaysBeside(s)
    BY <2>4 DEF SaysBeside, Beside, PassedOver, Fillers
  <2>5. CASE SaysReply(s)
    <3> DEFINE type == Head(toServer).type
    <3>1. type = "INIT" => pc \notin {"banner", "kexinit", "discard", "group"}
      <4>1. 1 \in DOMAIN toServer /\ Head(toServer) = toServer[1]
        BY <1>3, <2>5, Taken DEF SaysReply
      <4> QED BY <1>3, <4>1 DEF Sealed
    <3>2. /\ \A i \in 1..Len(s) : s[i].keyed = serverKeyed
          /\ serverKeyed' = (serverKeyed \/ type = "INIT") /\ Replied(type, s)
      BY <2>5 DEF SaysReply
    <3> HIDE DEF type
    <3>3. /\ \A i \in 1..Len(s) : s[i].type = "NEWKEYS" => i = Len(s) /\ type = "INIT"
          /\ type = "INIT" => Len(s) \in 1..Len(s) /\ s[Len(s)].type = "NEWKEYS"
      BY <1>4, <3>2 DEF Replied
    <3> QED BY <1>3, <3>1, <3>2, <3>3
  <2> QED BY <1>2, <2>2, <2>3, <2>4, <2>5 DEF Speech
<1>8. /\ \A k \in NewKeys : k \in NewKeys'
      /\ \A k \in NewKeys' : k \in NewKeys \/ (k = n + Len(s) /\ serverKeyed')
      /\ serverKeyed' /\ ~serverKeyed => n + Len(s) \in NewKeys'
      /\ \A k \in DOMAIN toClient' : k \in DOMAIN toClient \/ toClient'[k].keyed = serverKeyed
  <2>1. \A k \in NewKeys : k \in NewKeys'
    BY <1>4 DEF NewKeys
  <2>2. ASSUME NEW k \in NewKeys' PROVE k \in NewKeys \/ (k = n + Len(s) /\ serverKeyed')
    <3>1. CASE k \in DOMAIN toClient
      BY <1>4, <3>1 DEF NewKeys
    <3>2. CASE k > n /\ k - n \in 1..Len(s) /\ toClient'[k] = s[k - n]
      <4>1. k - n = Len(s) /\ serverKeyed' /\ k \in Nat
        BY <1>4, <1>7, <3>2 DEF NewKeys
      <4> QED BY <1>4, <4>1
    <3> QED BY <1>4, <3>1, <3>2 DEF NewKeys
  <2>3. serverKeyed' /\ ~serverKeyed => n + Len(s) \in NewKeys'
    BY <1>4, <1>7 DEF NewKeys
  <2>4. \A k \in DOMAIN toClient' : k \in DOMAIN toClient \/ toClient'[k].keyed = serverKeyed
    BY <1>4, <1>7
  <2> QED BY <2>1, <2>2, <2>3, <2>4
<1>9. Sealed'
  <2>1. keyed' => serverKeyed' /\ \A k \in DOMAIN toClient' : toClient'[k].keyed
    BY <1>3, <1>4, <1>7, <1>8 DEF Sealed
  <2>2. ~keyed' /\ serverKeyed' => NewKeys' # {}
    BY <1>3, <1>8 DEF Sealed
  <2>3. ~serverKeyed' => NewKeys' = {} /\ \A k \in DOMAIN toClient' : ~toClient'[k].keyed
    BY <1>3, <1>4, <1>7, <1>8 DEF Sealed
  <2>4. ASSUME ~keyed', NEW k \in DOMAIN toClient', toClient'[k].keyed
        PROVE  \E m \in NewKeys' : m < k
    <3>1. CASE k \in DOMAIN toClient
      BY <1>3, <1>4, <1>8, <2>4, <3>1 DEF Sealed
    <3>2. CASE k \notin DOMAIN toClient
      <4>1. serverKeyed /\ ~keyed /\ k > n
        BY <1>3, <1>4, <1>8, <2>4, <3>2
      <4>2. PICK m \in NewKeys : TRUE
        BY <1>3, <4>1 DEF Sealed
      <4>3. m \in NewKeys' /\ m < k
        <5>1. m \in 1..n /\ k \in 1..n + Len(s)
          BY <1>4, <4>2 DEF NewKeys
        <5> QED BY <1>4, <1>8, <4>1, <5>1
      <4> QED BY <4>3
    <3> QED BY <3>1, <3>2
  <2>5. ASSUME NEW m \in NewKeys', NEW k \in DOMAIN toClient', m < k
        PROVE  toClient'[k].keyed
    <3>1. m \in NewKeys
      <4>1. k \in 1..n + Len(s) /\ m # n + Len(s)
        BY <1>4, <2>5
      <4> QED BY <1>8, <4>1
    <3>2. serverKeyed
      BY <1>3, <3>1 DEF Sealed
    <3> QED BY <1>3, <1>4, <1>8, <2>5, <3>1, <3>2 DEF Sealed
  <2>6. pc' \in {"banner", "kexinit", "discard", "group"} =>
           ~serverKeyed' /\ \A i \in DOMAIN toServer' : toServer'[i].type # "INIT"
    BY <1>3, <1>6, <1>7 DEF Sealed
  <2>7. \A i \in DOMAIN toServer' : toServer'[i].keyed => keyed'
    BY <1>3, <1>6 DEF Sealed
  <2> QED BY <2>1, <2>2, <2>3, <2>4, <2>5, <2>6, <2>7 DEF Sealed
<1>10. ASSUME kind = "auth" PROVE Numbered'
  <2>0. /\ ~strictOn /\ \A i \in DOMAIN toServer : toServer[i].type # "KEXINIT_strict"
        /\ sendSeq = serverRecv + Len(toServer)
        /\ \A i \in DOMAIN toServer : toServer[i].seq = serverRecv + i - 1
    BY <1>3, <1>10 DEF Numbered
  <2>1. ~strictOn' /\ \A i \in DOMAIN toServer' : toServer'[i].type # "KEXINIT_strict"
    <3>1. ~strictOn'
      BY <1>5, <1>10, <2>0
    <3>2. \A i \in DOMAIN toServer' : toServer'[i].type # "KEXINIT_strict"
      BY <1>6, <2>0
    <3> QED BY <3>1, <3>2
  <2>2. /\ sendSeq' = serverRecv' + Len(toServer')
        /\ \A i \in DOMAIN toServer' : toServer'[i].seq = serverRecv' + i - 1
    <3>1. CASE toServer' = toServer /\ serverRecv' = serverRecv
      BY <1>3, <2>0, <3>1
    <3>2. CASE /\ Len(toServer') = Len(toServer) - 1 /\ DOMAIN toServer' = 1..Len(toServer) - 1
               /\ \A i \in DOMAIN toServer' :
                     i + 1 \in DOMAIN toServer /\ toServer'[i] = toServer[i + 1]
               /\ serverRecv' = serverRecv + 1
      <4>1. sendSeq' = serverRecv' + Len(toServer')
        BY <1>3, <1>5, <2>0, <3>2
      <4>2. ASSUME NEW i \in DOMAIN toServer' PROVE toServer'[i].seq = serverRecv' + i - 1
        <5>1. toServer'[i].seq = serverRecv + (i + 1) - 1 /\ i \in Int
          BY <1>5, <2>0, <3>2
        <5> QED BY <1>3, <3>2, <5>1
      <4> QED BY <4>1, <4>2
    <3> QED BY <1>5, <1>10, <3>1, <3>2
  <2>3. stage # "banner" =>
           /\ serverSend' = serverSend + Len(s) /\ stage' # "banner"
           /\ \A i \in 1..Len(s) : s[i].seq = serverSend + (i - 1)
    <3>1. CASE SaysReply(s)
      BY <1>2, <2>0, <3>1 DEF Speech, SaysReply
    <3>2. CASE SaysLine(s) \/ SaysProposal(s) \/ SaysBeside(s)
      BY <1>2, <3>2 DEF Speech, SaysLine, SaysProposal, SaysBeside
    <3> QED BY <1>2, <3>1, <3>2 DEF Speech
  <2>4. stage = "banner" => SaysLine(s)
    BY <1>2 DEF Speech, SaysReply, SaysProposal, SaysBeside
  <2>5. pc' = "banner" /\ stage' = "banner" =>
           serverSend' = 0 /\ \A k \in DOMAIN toClient' : toClient'[k].type = "LINE"
    <3>1. SUFFICES ASSUME pc = "banner", stage' = "banner"
                   PROVE  serverSend' = 0 /\ \A k \in DOMAIN toClient' : toClient'[k].type = "LINE"
      BY <1>3
    <3>2. stage = "banner" /\ SaysLine(s)
      BY <2>3, <2>4, <3>1
    <3>3. /\ serverSend' = serverSend /\ Len(s) = 1 /\ s[1].type = "LINE"
          /\ serverSend = 0 /\ \A k \in DOMAIN toClient : toClient[k].type = "LINE"
      BY <1>3, <1>10, <3>1, <3>2 DEF SaysLine, Numbered
    <3>4. ASSUME NEW k \in DOMAIN toClient' PROVE toClient'[k].type = "LINE"
      <4>1. CASE k \in DOMAIN toClient
        BY <1>4, <3>3, <4>1
      <4>2. CASE k - n \in 1..Len(s) /\ toClient'[k] = s[k - n]
        <5>1. k - n = 1
          BY <3>3, <4>2
        <5> QED BY <3>3, <4>2, <5>1
      <4> QED BY <1>4, <4>1, <4>2
    <3> QED BY <3>3, <3>4
  <2>6. pc' = "banner" => recvSeq' = 0
    BY <1>3, <1>10 DEF Numbered
  <2>7. ASSUME pc = "banner", stage' # "banner"
        PROVE  \E b \in Banners' :
                  /\ serverSend' = Len(toClient') - b
                  /\ \A k \in DOMAIN toClient' : k < b => toClient'[k].type = "LINE"
                  /\ \A k \in DOMAIN toClient' : k > b => toClient'[k].seq = k - b - 1
    <3>1. CASE stage = "banner"
      <4>1. /\ serverSend' = 0 /\ Len(s) = 1 /\ s[1].type \in {"BANNER", "OLD_BANNER"}
            /\ \A k \in DOMAIN toClient : toClient[k].type = "LINE"
        BY <1>3, <1>10, <2>4, <2>7, <3>1 DEF SaysLine, Numbered
      <4>2. n + 1 \in DOMAIN toClient' /\ toClient'[n + 1] = s[1]
        BY <1>4, <4>1
      <4>3. n + 1 \in Banners' /\ DOMAIN toClient' = 1..n + 1 /\ Len(toClient') = n + 1
        BY <1>4, <4>1, <4>2 DEF Banners
      <4>4. \A k \in DOMAIN toClient' : k < n + 1 => toClient'[k].type = "LINE"
        BY <1>4, <4>1, <4>3
      <4>5. serverSend' = Len(toClient') - (n + 1)
        BY <1>4, <4>1, <4>3
      <4>6. \A k \in DOMAIN toClient' : ~(k > n + 1)
        BY <1>4, <4>3
      <4> QED BY <4>3, <4>4, <4>5, <4>6
    <3>2. CASE stage # "banner"
      <4>1. PICK b \in Banners :
                /\ serverSend = n - b
                /\ \A k \in DOMAIN toClient : k < b => toClient[k].type = "LINE"
                /\ \A k \in DOMAIN toClient : k > b => toClient[k].seq = k - b - 1
        BY <1>3, <1>10, <2>7, <3>2 DEF Numbered, n
      <4>2. b \in Banners' /\ b \in 1..n
        BY <1>4, <4>1 DEF Banners
      <4>3. serverSend' = Len(toClient') - b
        <5>1. serverSend' = serverSend + Len(s)
          BY <2>3, <3>2
        <5> QED BY <1>4, <4>1, <4>2, <5>1
      <4>4. \A k \in DOMAIN toClient' : k < b => toClient'[k].type = "LINE"
        BY <1>4, <4>1, <4>2
      <4>5. ASSUME NEW k \in DOMAIN toClient', k > b
            PROVE  toClient'[k].seq = k - b - 1
        <5>1. CASE k \in DOMAIN toClient
          BY <1>4, <4>1, <4>5, <5>1
        <5>2. CASE k > n /\ k - n \in 1..Len(s) /\ toClient'[k] = s[k - n]
          <6>1. toClient'[k].seq = serverSend + ((k - n) - 1) /\ k \in Int
            BY <1>4, <2>3, <3>2, <5>2
          <6> QED BY <1>4, <4>1, <4>2, <6>1
        <5> QED BY <1>4, <5>1, <5>2
      <4> QED BY <4>2, <4>3, <4>4, <4>5
    <3> QED BY <3>1, <3>2
  <2>8. ASSUME pc # "banner"
        PROVE  /\ stage' # "banner"
               /\ serverSend' = recvSeq' + Len(toClient')
               /\ \A k \in DOMAIN toClient' : toClient'[k].seq = recvSeq' + k - 1
    <3>1. /\ stage # "banner" /\ serverSend = recvSeq + n
          /\ \A k \in DOMAIN toClient : toClient[k].seq = recvSeq + k - 1
      BY <1>3, <1>10, <2>8 DEF Numbered, n
    <3>2. stage' # "banner" /\ serverSend' = serverSend + Len(s)
      BY <2>3, <3>1
    <3>3. serverSend' = recvSeq' + Len(toClient')
      BY <1>3, <1>4, <3>1, <3>2
    <3>4. ASSUME NEW k \in DOMAIN toClient' PROVE toClient'[k].seq = recvSeq' + k - 1
      <4>1. CASE k \in DOMAIN toClient
        BY <1>3, <1>4, <3>1, <4>1
      <4>2. CASE k > n /\ k - n \in 1..Len(s) /\ toClient'[k] = s[k - n]
        <5>1. toClient'[k].seq = serverSend + ((k - n) - 1) /\ k \in Int
          BY <1>4, <2>3, <3>1, <4>2
        <5> QED BY <1>3, <1>4, <3>1, <5>1
      <4> QED BY <1>4, <4>1, <4>2
    <3> QED BY <3>2, <3>3, <3>4
  <2>9. ASSUME pc' = "banner", stage' # "banner"
        PROVE  \E b \in Banners' :
                  /\ serverSend' = Len(toClient') - b
                  /\ \A k \in DOMAIN toClient' : k < b => toClient'[k].type = "LINE"
                  /\ \A k \in DOMAIN toClient' : k > b => toClient'[k].seq = k - b - 1
    BY <1>3, <2>7, <2>9
  <2> QED BY <1>3, <2>1, <2>2, <2>5, <2>6, <2>8, <2>9 DEF Numbered
<1> QED BY <1>3, <1>9, <1>10 DEF SealInv

LEMMA SealHolds == Spec => []SealInv
<1>1. Init => SealInv
  <2> SUFFICES ASSUME Init PROVE SealInv
    OBVIOUS
  <2>1. /\ DOMAIN toClient = {} /\ DOMAIN toServer = {} /\ pc = "banner" /\ stage = "banner"
        /\ keyed = FALSE /\ serverKeyed = FALSE /\ strictOn = FALSE
        /\ sendSeq = 0 /\ recvSeq = 0 /\ serverSend = 0 /\ serverRecv = 0
        /\ toServer = <<>>
    BY DEF Init
  <2>2. Len(toServer) = 0
    BY <2>1
  <2> QED BY <2>1, <2>2 DEF SealInv, Sealed, Numbered, NewKeys
<1>2. TypeInv /\ Guesses /\ SealInv /\ [Next]_vars => SealInv'
  <2> SUFFICES ASSUME TypeInv, Guesses, SealInv, [Next]_vars PROVE SealInv'
    OBVIOUS
  <2>1. CASE GivesUp
    BY <2>1, GivesUpTyped DEF SealInv
  <2>2. CASE UNCHANGED vars
    BY <2>2 DEF vars, scanner, peer, SealInv, Sealed, Numbered, NewKeys, Banners
  <2> QED BY <2>1, <2>2, SealedRead, SealedLine, SealedServer DEF Next, Scanner
<1> QED BY <1>1, <1>2, TypeHolds, GuessesHold, PTL DEF Spec

\* Whatever is next to be read was sealed in the mode and with the number its
\* reader will use, in either direction (send_packet, read_packet,
\* enable_encryption).
THEOREM SequencesAgree == Spec => []SequenceAgree
<1>1. TypeInv /\ SealInv => SequenceAgree
  <2> SUFFICES ASSUME TypeInv, SealInv, pc # "closed" PROVE SequenceAgree
    BY DEF SequenceAgree
  <2>0. /\ Sealed /\ (kind = "auth" => Numbered) /\ (kind # "auth" => ~keyed)
        /\ toClient \in Seq(Packets) /\ toServer \in Seq(Requests)
        /\ keyed \in BOOLEAN /\ recvSeq \in Nat /\ serverRecv \in Nat
    BY DEF SealInv, TypeInv
  <2>1. ASSUME toClient # <<>>, pc # "banner"
        PROVE  Head(toClient).keyed = keyed /\ (keyed => Head(toClient).seq = recvSeq)
    <3>1. 1 \in DOMAIN toClient /\ Head(toClient) = toClient[1] /\ toClient[1].keyed \in BOOLEAN
          /\ \A k \in DOMAIN toClient : k \in Nat /\ ~(k < 1)
      <4>1. /\ Len(toClient) \in Nat /\ DOMAIN toClient = 1..Len(toClient)
            /\ 1 \in DOMAIN toClient /\ Head(toClient) = toClient[1] /\ toClient[1] \in Packets
        BY <2>0, <2>1, Taken
      <4> QED BY <4>1 DEF Packets
    <3>2. keyed => toClient[1].keyed
      BY <2>0, <3>1 DEF Sealed
    <3>3. toClient[1].keyed => keyed
      BY <2>0, <3>1 DEF Sealed, NewKeys
    <3>4. keyed => toClient[1].seq = recvSeq
      <4>1. keyed => toClient[1].seq = recvSeq + 1 - 1
        BY <2>0, <2>1, <3>1 DEF Numbered
      <4> QED BY <2>0, <4>1
    <3> QED BY <2>0, <3>1, <3>2, <3>3, <3>4
  <2>2. ASSUME toServer # <<>>, Head(toServer).keyed
        PROVE  serverKeyed /\ Head(toServer).seq = serverRecv
    <3>1. 1 \in DOMAIN toServer /\ Head(toServer) = toServer[1]
      BY <2>0, <2>2, Taken
    <3>2. keyed /\ kind = "auth"
      BY <2>0, <2>2, <3>1 DEF Sealed
    <3>3. toServer[1].seq = serverRecv + 1 - 1
      BY <2>0, <3>1, <3>2 DEF Numbered
    <3> QED BY <2>0, <3>1, <3>2, <3>3 DEF Sealed
  <2> QED BY <2>1, <2>2 DEF SequenceAgree
<1> QED BY <1>1, TypeHolds, SealHolds, PTL

-----------------------------------------------------------------------------
(* The two never wait for each other                                       *)

\* How many packets of some types are under way, when one is taken and when
\* one or none of them is added.
LEMMA CountTaken ==
    ASSUME TypeInv, toClient # <<>>, toClient' = Tail(toClient), NEW types
    PROVE  /\ Cardinality(At(types)) \in Nat /\ Cardinality(At(types)') \in Nat
           /\ Cardinality(At(types)') <= Cardinality(At(types))
           /\ Head(toClient).type \in types =>
                 Cardinality(At(types)') + 1 <= Cardinality(At(types))
           /\ At(types) = {} => At(types)' = {}
           /\ Head(toClient).type \in types => At(types) # {}
<1> DEFINE A == At(types)
           B == At(types)'
           f == [k \in B |-> k + 1]
<1>1. /\ Len(toClient) \in Nat /\ DOMAIN toClient = 1..Len(toClient) /\ 1 \in DOMAIN toClient
      /\ Head(toClient) = toClient[1] /\ DOMAIN toClient' = 1..Len(toClient) - 1
      /\ \A k \in DOMAIN toClient' :
            k + 1 \in DOMAIN toClient /\ toClient'[k] = toClient[k + 1]
  BY Taken DEF TypeInv
<1>2. /\ \A k \in B : k \in Nat /\ k + 1 \in A /\ k + 1 # 1
      /\ 1 \in A <=> Head(toClient).type \in types
      /\ A \subseteq 1..Len(toClient)
  BY <1>1 DEF At
<1> HIDE DEF A, B
<1>3. IsFiniteSet(A) /\ Cardinality(A) \in Nat
  <2>1. IsFiniteSet(1..Len(toClient))
    BY <1>1, FS_Interval
  <2> QED BY <1>2, <2>1, FS_Subset, FS_CardinalityType
<1>4. /\ IsFiniteSet(A \ {1})
      /\ Cardinality(A \ {1}) = IF 1 \in A THEN Cardinality(A) - 1 ELSE Cardinality(A)
  BY <1>3, FS_RemoveElement
<1>5. f \in Injection(B, A \ {1})
  <2>1. f \in [B -> A \ {1}]
    BY <1>2
  <2>2. \A j, k \in B : f[j] = f[k] => j = k
    BY <1>2
  <2> QED BY <2>1, <2>2 DEF Injection, IsInjective
<1> HIDE DEF f
<1>6. IsFiniteSet(B) /\ Cardinality(B) <= Cardinality(A \ {1})
  BY <1>4, <1>5, FS_Injection
<1>7. Cardinality(B) \in Nat
  BY <1>6, FS_CardinalityType
<1>8. /\ Cardinality(B) <= Cardinality(A)
      /\ 1 \in A => Cardinality(B) + 1 <= Cardinality(A)
  BY <1>3, <1>4, <1>6, <1>7
<1> QED BY <1>2, <1>3, <1>7, <1>8 DEF A, B

LEMMA CountAdded ==
    ASSUME TypeInv, NEW s \in Seq(Packets), toClient' = toClient \o s, NEW types
    PROVE  /\ Cardinality(At(types)) \in Nat
           /\ (\A i \in 1..Len(s) : s[i].type \notin types) => At(types)' = At(types)
           /\ Len(s) = 1 => Cardinality(At(types)') <= Cardinality(At(types)) + 1
           /\ Cardinality(At(types)') \in Nat
<1> DEFINE A == At(types)
           B == At(types)'
           n == Len(toClient)
<1>1. /\ n \in Nat /\ DOMAIN toClient = 1..n /\ Len(s) \in Nat
      /\ DOMAIN toClient' = 1..n + Len(s)
      /\ \A k \in DOMAIN toClient : k \in DOMAIN toClient' /\ toClient'[k] = toClient[k]
      /\ \A k \in DOMAIN toClient' :
            k \in DOMAIN toClient \/ (k > n /\ k - n \in 1..Len(s) /\ toClient'[k] = s[k - n])
  BY Added DEF TypeInv
<1> HIDE DEF n
<1>2. /\ A \subseteq 1..n /\ B \subseteq 1..n + Len(s)
      /\ (\A i \in 1..Len(s) : s[i].type \notin types) => B = A
      /\ Len(s) = 1 => B \in SUBSET (A \cup {n + 1})
  <2>1. (\A i \in 1..Len(s) : s[i].type \notin types) => B = A
    BY <1>1 DEF At
  <2>2. ASSUME Len(s) = 1, NEW k \in B PROVE k \in A \cup {n + 1}
    <3>1. k \in DOMAIN toClient \/ k = n + 1
      BY <1>1, <2>2 DEF At
    <3> QED BY <1>1, <2>2, <3>1 DEF At
  <2> QED BY <1>1, <2>1, <2>2 DEF At
<1> HIDE DEF A, B
<1>3. IsFiniteSet(A) /\ Cardinality(A) \in Nat /\ IsFiniteSet(B) /\ Cardinality(B) \in Nat
  <2>1. IsFiniteSet(1..n) /\ IsFiniteSet(1..n + Len(s))
    BY <1>1, FS_Interval
  <2> QED BY <1>2, <2>1, FS_Subset, FS_CardinalityType
<1>4. ASSUME Len(s) = 1 PROVE Cardinality(B) <= Cardinality(A) + 1
  <2>1. /\ IsFiniteSet(A \cup {n + 1}) /\ Cardinality(A \cup {n + 1}) \in Nat
        /\ Cardinality(A \cup {n + 1}) <= Cardinality(A) + 1
    <3>1. /\ IsFiniteSet(A \cup {n + 1})
          /\ Cardinality(A \cup {n + 1}) =
                IF n + 1 \in A THEN Cardinality(A) ELSE Cardinality(A) + 1
      BY <1>3, FS_AddElement
    <3>2. Cardinality(A \cup {n + 1}) \in {Cardinality(A), Cardinality(A) + 1}
      BY <3>1
    <3> QED BY <1>3, <3>1, <3>2
  <2>2. Cardinality(B) <= Cardinality(A \cup {n + 1})
    BY <1>2, <1>4, <2>1, FS_Subset
  <2> QED BY <1>3, <2>1, <2>2
<1> QED BY <1>2, <1>3, <1>4 DEF A, B

Beyond == PassedOver \cup {"LINE"}

\* The answers have different places.
LEMMA Places ==
    /\ \A w \in DOMAIN Place : Place[w] \in Nat /\ w \notin Beyond
    /\ Place["BANNER"] = 1 /\ Place["KEXINIT"] = 2 /\ Place["GROUP"] = 3
    /\ Place["REPLY"] = 4 /\ Place["NEWKEYS"] = 5 /\ Place["SERVICE_ACCEPT"] = 6
    /\ Place["USERAUTH_FAILURE"] = 7 /\ Place["USERAUTH_SUCCESS"] = 7
    /\ {"BANNER", "KEXINIT", "GROUP", "REPLY", "NEWKEYS", "SERVICE_ACCEPT",
        "USERAUTH_FAILURE", "USERAUTH_SUCCESS"} \subseteq DOMAIN Place
BY DEF Place, Beyond, PassedOver, Fillers

\* What is said is taken in its order.
LEMMA TalkTaken ==
    ASSUME TypeInv, toClient # <<>>, toClient' = Tail(toClient), InOrder,
           Talk \subseteq DOMAIN Place
    PROVE  /\ InOrder'
           /\ Head(toClient).type \in Beyond => Talk' = Talk
           /\ Head(toClient).type \notin Beyond =>
                 /\ Head(toClient).type \in Talk
                 /\ Talk' = Talk \ {Head(toClient).type}
                 /\ \A w \in Talk' : Place[Head(toClient).type] < Place[w]
                 /\ BannerLines = {}
<1> DEFINE h == Head(toClient).type
<1>1. /\ Len(toClient) \in Nat /\ DOMAIN toClient = 1..Len(toClient) /\ 1 \in DOMAIN toClient
      /\ Head(toClient) = toClient[1] /\ DOMAIN toClient' = 1..Len(toClient) - 1
      /\ \A k \in DOMAIN toClient' :
            k \in Nat /\ k + 1 \in DOMAIN toClient /\ toClient'[k] = toClient[k + 1]
      /\ \A k \in DOMAIN toClient :
            k # 1 => k - 1 \in DOMAIN toClient' /\ toClient'[k - 1] = toClient[k]
  BY Taken DEF TypeInv
<1>2. /\ \A k \in Words' : k \in Nat /\ k + 1 \in Words /\ 1 < k + 1
                           /\ toClient'[k] = toClient[k + 1]
      /\ \A k \in Words : k # 1 => k - 1 \in Words' /\ toClient'[k - 1] = toClient[k]
      /\ 1 \in Words <=> h \notin Beyond
      /\ \A k \in BannerLines' : k \in Nat /\ k + 1 \in BannerLines
      /\ \A k \in BannerLines : k \in Nat /\ ~(k < 1)
  BY <1>1 DEF Words, BannerLines, At, Beyond
<1>3. InOrder'
  <2>1. ASSUME NEW j \in Words', NEW k \in Words', j < k
        PROVE  Place[toClient'[j].type] < Place[toClient'[k].type]
    <3>1. j + 1 \in Words /\ k + 1 \in Words /\ j + 1 < k + 1
      BY <1>2, <2>1
    <3>2. Place[toClient[j + 1].type] < Place[toClient[k + 1].type]
      BY <3>1 DEF InOrder
    <3> QED BY <1>2, <3>2
  <2>2. ASSUME NEW j \in BannerLines', NEW k \in Words'
        PROVE  j < k
    <3>1. j + 1 < k + 1
      BY <1>2 DEF InOrder
    <3> QED BY <1>2, <3>1
  <2> QED BY <2>1, <2>2 DEF InOrder
<1>4. /\ \A w : w \in Talk <=> \E k \in Words : toClient[k].type = w
      /\ \A w : w \in Talk' <=> \E k \in Words' : toClient'[k].type = w
  BY DEF Talk
<1>5. CASE h \in Beyond
  <2>1. \A w \in Talk' : w \in Talk
    BY <1>2, <1>4
  <2>2. \A w \in Talk : w \in Talk'
    BY <1>2, <1>5, <1>4
  <2> QED BY <1>3, <1>5, <2>1, <2>2
<1>6. CASE h \notin Beyond
  <2>1. 1 \in Words /\ h = toClient[1].type /\ h \in Talk
    BY <1>1, <1>2, <1>6 DEF Talk
  <2>2. \A k \in Words' : Place[h] < Place[toClient'[k].type]
    <3>1. \A k \in Words' : Place[h] < Place[toClient[k + 1].type]
      BY <1>2, <2>1 DEF InOrder
    <3> QED BY <1>2, <3>1
  <2>3. ASSUME NEW w \in Talk' PROVE w \in Talk /\ Place[h] < Place[w]
    <3>1. PICK k \in Words' : toClient'[k].type = w
      BY <1>4
    <3>2. k + 1 \in Words /\ toClient[k + 1].type = w
      BY <1>2, <3>1
    <3>3. Place[h] < Place[w]
      BY <2>2, <3>1
    <3> QED BY <1>4, <3>2, <3>3
  <2>4. \A w \in Talk' : w # h
    BY <2>1, <2>3, Places
  <2>5. \A w \in Talk : w # h => w \in Talk'
    BY <1>2, <1>4, <2>1
  <2>6. BannerLines = {}
    BY <1>2, <2>1 DEF InOrder
  <2> HIDE DEF h
  <2>7. Talk' = Talk \ {h}
    BY <2>3, <2>4, <2>5
  <2> QED BY <1>3, <1>6, <2>1, <2>3, <2>6, <2>7 DEF h
<1> QED BY <1>5, <1>6

\* What is added is said after all the rest.
NewTalk(s) == {s[i].type : i \in {j \in 1..Len(s) : s[j].type \notin Beyond}}

LEMMA TalkAdded ==
    ASSUME TypeInv, NEW s \in Seq(Packets), toClient' = toClient \o s, InOrder,
           \A v \in Talk, w \in NewTalk(s) : Place[v] < Place[w],
           \A i, j \in 1..Len(s) : i < j => Place[s[i].type] < Place[s[j].type],
           (\A i \in 1..Len(s) : s[i].type # "LINE") \/ (Talk = {} /\ NewTalk(s) = {})
    PROVE  Talk' = Talk \cup NewTalk(s) /\ InOrder'
<1> DEFINE n == Len(toClient)
<1>1. /\ n \in Nat /\ DOMAIN toClient = 1..n /\ Len(s) \in Nat
      /\ DOMAIN toClient' = 1..n + Len(s)
      /\ \A k \in DOMAIN toClient : k \in DOMAIN toClient' /\ toClient'[k] = toClient[k]
      /\ \A i \in 1..Len(s) : n + i \in DOMAIN toClient' /\ toClient'[n + i] = s[i]
      /\ \A k \in DOMAIN toClient' :
            k \in DOMAIN toClient \/ (k > n /\ k - n \in 1..Len(s) /\ toClient'[k] = s[k - n])
  BY Added DEF TypeInv
<1> HIDE DEF n
<1>2. \A k \in Words : k \in Words' /\ toClient'[k] = toClient[k] /\ k <= n /\ k \in Nat
  BY <1>1 DEF Words
<1>3. \A k \in Words' : \/ k \in Words
                        \/ /\ k > n /\ k \in Nat /\ k - n \in 1..Len(s)
                           /\ toClient'[k] = s[k - n] /\ s[k - n].type \in NewTalk(s)
  BY <1>1 DEF Words, NewTalk, Beyond
<1>4. Talk' = Talk \cup NewTalk(s)
  <2>1. \A w \in Talk' : w \in Talk \cup NewTalk(s)
    BY <1>2, <1>3 DEF Talk
  <2>2. \A w \in Talk : w \in Talk'
    BY <1>2 DEF Talk
  <2>3. ASSUME NEW w \in NewTalk(s) PROVE w \in Talk'
    <3>1. PICK i \in 1..Len(s) : s[i].type \notin Beyond /\ w = s[i].type
      BY DEF NewTalk
    <3>2. n + i \in Words' /\ toClient'[n + i].type = w
      BY <1>1, <3>1 DEF Words, Beyond
    <3> QED BY <3>2 DEF Talk
  <2> QED BY <2>1, <2>2, <2>3
<1>5. ASSUME NEW j \in Words', NEW k \in Words', j < k
      PROVE  Place[toClient'[j].type] < Place[toClient'[k].type]
  <2>1. CASE k \in Words
    <3>1. j \in Words
      <4>1. k \in 1..n /\ n \in Nat
        BY <1>1, <2>1 DEF Words
      <4>2. ~(j > n /\ j \in Nat)
        BY <1>5, <4>1
      <4> QED BY <1>3, <4>2
    <3> QED BY <1>2, <1>5, <2>1, <3>1 DEF InOrder
  <2>2. CASE k \notin Words /\ j \in Words
    <3>1. toClient'[j].type \in Talk
      BY <1>2, <2>2 DEF Talk
    <3>2. toClient'[k].type \in NewTalk(s)
      BY <1>3, <2>2
    <3> QED BY <3>1, <3>2
  <2>3. CASE k \notin Words /\ j \notin Words
    <3>1. /\ k - n \in 1..Len(s) /\ j - n \in 1..Len(s) /\ j - n < k - n
          /\ toClient'[j] = s[j - n] /\ toClient'[k] = s[k - n]
      BY <1>1, <1>3, <1>5, <2>3
    <3> QED BY <3>1
  <2> QED BY <2>1, <2>2, <2>3
<1>6. ASSUME NEW j \in BannerLines', NEW k \in Words'
      PROVE  j < k
  <2>1. CASE \A i \in 1..Len(s) : s[i].type # "LINE"
    <3>1. j \in BannerLines /\ j \in 1..n
      BY <1>1, <2>1 DEF BannerLines, At
    <3>2. CASE k \in Words
      BY <3>1, <3>2 DEF InOrder
    <3>3. CASE k > n /\ k \in Nat
      BY <1>1, <3>1, <3>3
    <3> QED BY <1>3, <3>2, <3>3
  <2>2. CASE Talk = {} /\ NewTalk(s) = {}
    <3>1. toClient'[k].type \in Talk'
      BY DEF Talk
    <3> QED BY <1>4, <2>2, <3>1
  <2> QED BY <2>1, <2>2
<1> QED BY <1>4, <1>5, <1>6 DEF InOrder

LEMMA Turns ==
    /\ \A type \in Asked : TurnOf(type) \in Nat /\ TurnOf(type) > 0
    /\ TurnOf("KEXINIT_strict") = 1 /\ TurnOf("KEXINIT") = 1 /\ TurnOf("GEX_REQUEST") = 2
    /\ TurnOf("INIT") = 3 /\ TurnOf("NEWKEYS") = 4 /\ TurnOf("SERVICE_REQUEST") = 5
    /\ TurnOf("USERAUTH_REQUEST") = 6
    /\ \A at \in {"banner"} \cup Exchanges : LastAsked[at] \in Nat
    /\ LastAsked["banner"] = 0 /\ LastAsked["kexinit"] = 1 /\ LastAsked["discard"] = 1
    /\ LastAsked["group"] = 2 /\ LastAsked["reply"] = 3 /\ LastAsked["newkeys"] = 4
    /\ LastAsked["accept"] = 5 /\ LastAsked["auth"] = 6
BY DEF Turn, TurnOf, LastAsked, Asked, Exchanges

\* What is pending keeps its turn: when the scanner asks for more, when it
\* does not, and when the server takes a request.
LEMMA TurnsSent ==
    ASSUME TypeInv, keyed' \in BOOLEAN, InTurn, NEW type \in Asked, Sends(type),
           pc \in {"banner"} \cup Exchanges, pc' \in {"banner"} \cup Exchanges,
           LastAsked[pc] < TurnOf(type), TurnOf(type) <= LastAsked[pc']
    PROVE  InTurn' /\ \A x : Pending(x)' <=> Pending(x) \/ x = type
<1>0. /\ LastAsked[pc] \in Nat /\ LastAsked[pc'] \in Nat /\ TurnOf(type) \in Nat
      /\ \A i \in DOMAIN toServer : TurnOf(toServer[i].type) \in Nat
  <2>1. \A i \in DOMAIN toServer : toServer[i].type \in Asked
    <3>1. \A i \in DOMAIN toServer : toServer[i] \in Requests
      BY ElementOfSeq, LenProperties DEF TypeInv
    <3> QED BY <3>1 DEF Requests
  <2> QED BY <2>1, Turns
<1>1. /\ Len(toServer) \in Nat /\ DOMAIN toServer = 1..Len(toServer)
      /\ DOMAIN toServer' = 1..Len(toServer) + 1
      /\ \A i \in DOMAIN toServer : i \in DOMAIN toServer' /\ toServer'[i] = toServer[i]
      /\ toServer'[Len(toServer) + 1].type = type
      /\ \A i \in DOMAIN toServer' : i \in DOMAIN toServer \/ i = Len(toServer) + 1
  <2> DEFINE request == [type |-> type, seq |-> sendSeq, keyed |-> keyed']
  <2>1. request \in Requests /\ request.type = type /\ toServer \in Seq(Requests)
    BY DEF Requests, TypeInv
  <2>2. toServer' = toServer \o <<request>>
    BY DEF Sends
  <2> HIDE DEF request
  <2>3. /\ Len(toServer) \in Nat /\ DOMAIN toServer = 1..Len(toServer)
        /\ DOMAIN toServer' = 1..Len(toServer) + 1
        /\ \A i \in DOMAIN toServer : i \in DOMAIN toServer' /\ toServer'[i] = toServer[i]
        /\ toServer'[Len(toServer) + 1] = request
        /\ \A i \in DOMAIN toServer' : i \in DOMAIN toServer \/ i = Len(toServer) + 1
    BY <2>1, <2>2, AddedOne
  <2> QED BY <2>1, <2>3
<1>2. \A i \in DOMAIN toServer : TurnOf(toServer[i].type) < TurnOf(type)
  BY <1>0 DEF InTurn
<1>3. \A i \in DOMAIN toServer' : TurnOf(toServer'[i].type) <= LastAsked[pc']
  BY <1>0, <1>1, <1>2
<1>4. ASSUME NEW i \in DOMAIN toServer', NEW j \in DOMAIN toServer', i < j
      PROVE  TurnOf(toServer'[i].type) < TurnOf(toServer'[j].type)
  <2>1. i \in DOMAIN toServer
    BY <1>1, <1>4
  <2>2. CASE j \in DOMAIN toServer
    BY <1>1, <1>4, <2>1, <2>2 DEF InTurn
  <2>3. CASE j = Len(toServer) + 1
    BY <1>1, <1>2, <2>1, <2>3
  <2> QED BY <1>1, <2>2, <2>3
<1>5. ASSUME NEW x PROVE Pending(x)' <=> Pending(x) \/ x = type
  <2>1. Len(toServer) + 1 \in DOMAIN toServer'
    BY <1>1
  <2> QED BY <1>1, <2>1 DEF Pending
<1> QED BY <1>3, <1>4, <1>5 DEF InTurn

LEMMA TurnsSame ==
    ASSUME TypeInv, InTurn, toServer' = toServer,
           pc \in {"banner"} \cup Exchanges, pc' \in {"banner"} \cup Exchanges,
           LastAsked[pc] <= LastAsked[pc']
    PROVE  InTurn' /\ \A x : Pending(x)' <=> Pending(x)
<1>0. /\ LastAsked[pc] \in Nat /\ LastAsked[pc'] \in Nat
      /\ \A i \in DOMAIN toServer : TurnOf(toServer[i].type) \in Nat
  <2>1. \A i \in DOMAIN toServer : toServer[i].type \in Asked
    <3>1. \A i \in DOMAIN toServer : toServer[i] \in Requests
      BY ElementOfSeq, LenProperties DEF TypeInv
    <3> QED BY <3>1 DEF Requests
  <2> QED BY <2>1, Turns
<1> QED BY <1>0 DEF InTurn, Pending

LEMMA TurnsTaken ==
    ASSUME TypeInv, InTurn, toServer # <<>>, toServer' = Tail(toServer), pc' = pc
    PROVE  /\ InTurn'
           /\ Pending(Head(toServer).type) /\ Head(toServer).type \in Asked
           /\ TurnOf(Head(toServer).type) <= LastAsked[pc]
           /\ \A x : Pending(x)' <=> Pending(x) /\ x # Head(toServer).type
<1>1. /\ Len(toServer) \in Nat /\ DOMAIN toServer = 1..Len(toServer) /\ 1 \in DOMAIN toServer
      /\ Head(toServer) = toServer[1] /\ toServer[1] \in Requests
      /\ DOMAIN toServer' = 1..Len(toServer) - 1
      /\ \A i \in DOMAIN toServer' : i + 1 \in DOMAIN toServer /\ toServer'[i] = toServer[i + 1]
      /\ \A i \in DOMAIN toServer :
            i # 1 => i - 1 \in DOMAIN toServer' /\ toServer'[i - 1] = toServer[i]
  BY Taken DEF TypeInv
<1>2. Head(toServer).type \in Asked /\ Pending(Head(toServer).type)
      /\ TurnOf(Head(toServer).type) <= LastAsked[pc]
  BY <1>1 DEF Requests, Pending, InTurn
<1>3. \A i \in DOMAIN toServer' : TurnOf(toServer'[i].type) <= LastAsked[pc']
  BY <1>1 DEF InTurn
<1>4. ASSUME NEW i \in DOMAIN toServer', NEW j \in DOMAIN toServer', i < j
      PROVE  TurnOf(toServer'[i].type) < TurnOf(toServer'[j].type)
  <2>1. i + 1 < j + 1 /\ i + 1 \in DOMAIN toServer /\ j + 1 \in DOMAIN toServer
    BY <1>1, <1>4
  <2> QED BY <1>1, <2>1 DEF InTurn
<1>5. ASSUME NEW x PROVE Pending(x)' <=> Pending(x) /\ x # Head(toServer).type
  <2>1. ASSUME NEW i \in DOMAIN toServer'
        PROVE  toServer'[i].type # Head(toServer).type
    <3>1. 1 < i + 1 /\ i + 1 \in DOMAIN toServer
      BY <1>1
    <3>2. TurnOf(Head(toServer).type) < TurnOf(toServer[i + 1].type)
      BY <1>1, <3>1 DEF InTurn
    <3>3. TurnOf(Head(toServer).type) \in Nat
      BY <1>2, Turns
    <3> QED BY <1>1, <3>2, <3>3
  <2>2. Pending(x)' => Pending(x) /\ x # Head(toServer).type
    BY <1>1, <2>1 DEF Pending
  <2>3. ASSUME Pending(x), x # Head(toServer).type PROVE Pending(x)'
    <3>1. PICK i \in DOMAIN toServer : toServer[i].type = x
      BY <2>3 DEF Pending
    <3>2. i # 1
      BY <1>1, <2>3, <3>1
    <3>3. i - 1 \in DOMAIN toServer' /\ toServer'[i - 1].type = x
      BY <1>1, <3>1, <3>2
    <3> QED BY <3>3 DEF Pending
  <2> QED BY <2>2, <2>3
<1> QED BY <1>2, <1>3, <1>4, <1>5 DEF InTurn

\* What does not change while the connection lasts.
LEMMA ServerSame ==
    ASSUME server' = server, kind' = kind
    PROVE  /\ Excused' = Excused /\ Guess' = Guess /\ GuessedRight' = GuessedRight
           /\ GuessedType' = GuessedType
           /\ Guessed("GROUP")' = Guessed("GROUP") /\ Guessed("REPLY")' = Guessed("REPLY")
BY DEF Excused, Guess, GuessedRight, GuessedType, Guessed, SessionPossible

LEMMA TypeOfGuess ==
    /\ GuessedType \in {"GROUP", "REPLY"}
    /\ GuessedType = "GROUP" <=> server.kex = "group_exchange"
    /\ Guess \subseteq {GuessedType} /\ (server.follows => Guess = {GuessedType})
    /\ Guessed("GROUP") <=> server.follows /\ GuessedRight /\ GuessedType = "GROUP"
    /\ Guessed("REPLY") <=> server.follows /\ GuessedRight /\ GuessedType = "REPLY"
BY DEF Guess, GuessedType, Guessed

LEMMA SaidPlaces ==
    ASSUME TypeInv, Said, pc # "closed"
    PROVE  Talk \subseteq DOMAIN Place
<1>1. {"BANNER", "KEXINIT", "GROUP", "REPLY", "NEWKEYS", "SERVICE_ACCEPT",
       "USERAUTH_FAILURE", "USERAUTH_SUCCESS"} \subseteq DOMAIN Place
  BY Places
<1>2. Guess \subseteq {"GROUP", "REPLY"}
  BY TypeOfGuess
<1>3. CASE pc \in {"banner", "kexinit", "discard"}
  BY <1>1, <1>2, <1>3 DEF Said, TypeInv
<1>4. CASE pc \in {"group", "reply", "newkeys", "accept", "auth"}
  BY <1>1, <1>4 DEF Said
<1> QED BY <1>3, <1>4 DEF TypeInv, Exchanges

LEMMA NewWords ==
    ASSUME NEW s \in Seq(Packets)
    PROVE  /\ Len(s) = 0 => NewTalk(s) = {}
           /\ Len(s) = 1 => NewTalk(s) = IF s[1].type \in Beyond THEN {} ELSE {s[1].type}
           /\ Len(s) = 2 /\ s[1].type \notin Beyond /\ s[2].type \notin Beyond =>
                 NewTalk(s) = {s[1].type, s[2].type}
<1>1. CASE Len(s) = 0
  BY <1>1 DEF NewTalk
<1>2. CASE Len(s) = 1
  BY <1>2 DEF NewTalk
<1>3. CASE Len(s) = 2
  <2>1. 1..Len(s) = {1, 2}
    BY <1>3
  <2> QED BY <1>3, <2>1 DEF NewTalk
<1> QED BY <1>1, <1>2, <1>3

\* The reply of the server is what the scanner has asked for.
LEMMA TalkReply ==
    ASSUME TypeInv, InStep, Quiet, pc # "closed", NEW s \in Seq(Packets),
           toClient' = toClient \o s, SaysReply(s)
    PROVE  Said' /\ InOrder' /\ Asking'
<1> DEFINE type == Head(toServer).type
<1>1. /\ pc' = pc /\ kind' = kind /\ server' = server /\ stage' = "wait" /\ stage = "wait"
      /\ pc \in {"banner"} \cup Exchanges
      /\ Said /\ InOrder /\ Asking /\ InTurn
      /\ toServer # <<>> /\ toServer' = Tail(toServer) /\ Replied(type, s)
  BY DEF Quiet, scanner, SaysReply, InStep, Asking, TypeInv
<1>2. /\ InTurn' /\ Pending(type) /\ type \in Asked /\ TurnOf(type) <= LastAsked[pc]
      /\ \A x : Pending(x)' <=> Pending(x) /\ x # type
  BY <1>1, TurnsTaken
<1> HIDE DEF type
<1>3. /\ Guess' = Guess /\ GuessedRight' = GuessedRight
      /\ Guessed("GROUP")' = Guessed("GROUP") /\ Guessed("REPLY")' = Guessed("REPLY")
  BY <1>1, ServerSame
<1>4. Asking'
  BY <1>1, <1>2, <1>3 DEF Asking
<1>5. Talk \subseteq DOMAIN Place
  BY <1>1, SaidPlaces
<1>6. ASSUME \A v \in Talk, w \in NewTalk(s) : Place[v] < Place[w]
      PROVE  Talk' = Talk \cup NewTalk(s) /\ InOrder'
  <2>1. \A i, j \in 1..Len(s) : i < j => Place[s[i].type] < Place[s[j].type]
    BY <1>1, Places DEF Replied
  <2>2. \A i \in 1..Len(s) : s[i].type # "LINE"
    BY <1>1 DEF Replied
  <2> QED BY <1>1, <1>6, <2>1, <2>2, TalkAdded
<1>7. CASE Len(s) = 0 /\ type \notin {"INIT", "SERVICE_REQUEST", "USERAUTH_REQUEST"}
           /\ (type = "GEX_REQUEST" => Guessed("GROUP"))
  <2>1. NewTalk(s) = {}
    BY <1>7, NewWords
  <2>2. Talk' = Talk /\ InOrder'
    BY <1>6, <2>1
  <2>3. /\ \A x \in {"INIT", "SERVICE_REQUEST", "USERAUTH_REQUEST"} : Pending(x)' <=> Pending(x)
        /\ Guessed("GROUP") \/ (Pending("GEX_REQUEST")' <=> Pending("GEX_REQUEST"))
    BY <1>2, <1>7
  <2>4. Said'
    BY <1>1, <1>3, <2>2, <2>3 DEF Said
  <2> QED BY <1>4, <2>2, <2>4
<1>8. CASE type = "GEX_REQUEST" /\ ~Guessed("GROUP") /\ Len(s) = 1 /\ s[1].type = "GROUP"
  <2>1. pc = "group" /\ Talk = {} /\ NewTalk(s) = {"GROUP"}
    BY <1>1, <1>2, <1>8, NewWords DEF Asking, Said, Beyond, PassedOver, Fillers
  <2>2. Talk' = {"GROUP"} /\ InOrder'
    BY <1>6, <2>1
  <2>3. Said'
    BY <1>1, <1>2, <1>8, <2>1, <2>2 DEF Said
  <2> QED BY <1>4, <2>2, <2>3
<1>9. CASE type = "INIT" /\ Guessed("REPLY") /\ Len(s) = 1 /\ s[1].type = "NEWKEYS"
  <2>1. NewTalk(s) = {"NEWKEYS"} /\ Pending("INIT") /\ ~Pending("INIT")'
    BY <1>2, <1>9, NewWords DEF Beyond, PassedOver, Fillers
  <2>2. CASE pc = "reply"
    <3>1. Talk = {"REPLY"}
      BY <1>9, <2>1, <2>2 DEF InStep, Said
    <3>2. Talk' = {"REPLY", "NEWKEYS"} /\ InOrder'
      BY <1>6, <2>1, <3>1, Places
    <3>3. Said'
      BY <1>1, <2>1, <2>2, <3>2 DEF Said
    <3> QED BY <1>4, <3>2, <3>3
  <2>3. CASE pc = "newkeys"
    <3>1. Talk = {}
      BY <2>1, <2>3 DEF InStep, Said
    <3>2. Talk' = {"NEWKEYS"} /\ InOrder'
      BY <1>6, <2>1, <3>1
    <3>3. Said'
      BY <1>1, <2>1, <2>3, <3>2 DEF Said
    <3> QED BY <1>4, <3>2, <3>3
  <2> QED BY <1>1, <2>1, <2>2, <2>3 DEF Asking
<1>10. CASE type = "INIT" /\ ~Guessed("REPLY")
            /\ Len(s) = 2 /\ s[1].type = "REPLY" /\ s[2].type = "NEWKEYS"
  <2>1. NewTalk(s) = {"REPLY", "NEWKEYS"} /\ Pending("INIT") /\ ~Pending("INIT")'
    BY <1>2, <1>10, NewWords DEF Beyond, PassedOver, Fillers
  <2>2. pc = "reply" /\ Talk = {}
    BY <1>1, <1>10, <2>1 DEF Asking, Said
  <2>3. Talk' = {"REPLY", "NEWKEYS"} /\ InOrder'
    BY <1>6, <2>1, <2>2
  <2>4. Said'
    BY <1>1, <2>1, <2>2, <2>3 DEF Said
  <2> QED BY <1>4, <2>3, <2>4
<1>11. CASE type = "SERVICE_REQUEST" /\ Len(s) = 1 /\ s[1].type = "SERVICE_ACCEPT"
  <2>1. NewTalk(s) = {"SERVICE_ACCEPT"}
        /\ Pending("SERVICE_REQUEST") /\ ~Pending("SERVICE_REQUEST")'
    BY <1>2, <1>11, NewWords DEF Beyond, PassedOver, Fillers
  <2>2. pc = "accept" /\ Talk = {}
    BY <1>1, <2>1 DEF Asking, Said
  <2>3. Talk' = {"SERVICE_ACCEPT"} /\ InOrder'
    BY <1>6, <2>1, <2>2
  <2>4. Said'
    BY <1>1, <2>1, <2>2, <2>3 DEF Said
  <2> QED BY <1>4, <2>3, <2>4
<1>12. CASE type = "USERAUTH_REQUEST" /\ Len(s) = 1
            /\ s[1].type \in {"USERAUTH_FAILURE", "USERAUTH_SUCCESS"}
  <2>1. NewTalk(s) = {s[1].type}
        /\ Pending("USERAUTH_REQUEST") /\ ~Pending("USERAUTH_REQUEST")'
    BY <1>2, <1>12, NewWords DEF Beyond, PassedOver, Fillers
  <2>2. pc = "auth"
    BY <1>1, <1>2, <1>12, Turns DEF Exchanges
  <2>3. Talk = {}
    BY <1>1, <2>1, <2>2 DEF Said
  <2>4. Talk' = {s[1].type} /\ InOrder'
    BY <1>6, <2>1, <2>3
  <2>5. Said'
    BY <1>1, <1>12, <2>1, <2>2, <2>4 DEF Said
  <2> QED BY <1>4, <2>4, <2>5
<1> QED BY <1>1, <1>7, <1>8, <1>9, <1>10, <1>11, <1>12 DEF Replied

\* Whatever else it says is its banner, its proposal or filler.
LEMMA TalkOther ==
    ASSUME TypeInv, InStep, Quiet, pc # "closed", ~cause', NEW s \in Seq(Packets),
           toClient' = toClient \o s, SaysLine(s) \/ SaysProposal(s) \/ SaysBeside(s)
    PROVE  Said' /\ InOrder' /\ Asking'
<1>1. /\ pc' = pc /\ kind' = kind /\ server' = server
      /\ pc \in {"banner"} \cup Exchanges /\ toServer' = toServer
      /\ Said /\ InOrder /\ Asking /\ InTurn
      /\ pc # "banner" => stage # "banner"
      /\ stage # "wait" => pc \in {"banner", "kexinit"}
  BY DEF Quiet, scanner, InStep, Asking, TypeInv, SaysLine, SaysProposal, SaysBeside
<1>2. InTurn' /\ \A x : Pending(x)' <=> Pending(x)
  <2>1. LastAsked[pc] <= LastAsked[pc']
    BY <1>1, Turns
  <2> QED BY <1>1, <2>1, TurnsSame
<1>3. /\ Guess' = Guess /\ GuessedRight' = GuessedRight
      /\ Guessed("GROUP")' = Guessed("GROUP") /\ Guessed("REPLY")' = Guessed("REPLY")
  BY <1>1, ServerSame
<1>4. Asking'
  BY <1>1, <1>2, <1>3 DEF Asking
<1>5. CASE SaysLine(s)
  <2>1. /\ pc = "banner" /\ stage = "banner" /\ Talk = {} /\ Len(s) = 1
        /\ s[1].type \in {"LINE", "BANNER"}
        /\ stage' = IF s[1].type = "LINE" THEN "banner" ELSE "kexinit"
    BY <1>1, <1>5 DEF SaysLine, Said
  <2>2. NewTalk(s) = IF s[1].type = "LINE" THEN {} ELSE {"BANNER"}
    BY <2>1, NewWords DEF Beyond, PassedOver, Fillers
  <2>3. Talk' = NewTalk(s) /\ InOrder'
    <3>1. \A i, j \in 1..Len(s) : i < j => Place[s[i].type] < Place[s[j].type]
      BY <2>1
    <3>2. (\A i \in 1..Len(s) : s[i].type # "LINE") \/ (Talk = {} /\ NewTalk(s) = {})
      BY <2>1, <2>2
    <3> QED BY <1>1, <2>1, <3>1, <3>2, TalkAdded
  <2>4. Said'
    BY <1>1, <2>1, <2>2, <2>3 DEF Said
  <2> QED BY <1>4, <2>3, <2>4
<1>6. CASE SaysProposal(s)
  <2>1. /\ stage = "kexinit" /\ stage' = "wait" /\ pc \in {"banner", "kexinit"}
        /\ Talk = IF pc = "banner" THEN {"BANNER"} ELSE {}
    BY <1>1, <1>6 DEF SaysProposal, Said
  <2>2. /\ \A i \in 1..Len(s) : s[i].type # "LINE"
        /\ \A i, j \in 1..Len(s) : i < j => Place[s[i].type] < Place[s[j].type]
        /\ NewTalk(s) = {"KEXINIT"} \cup Guess
    <3>0. "KEXINIT" \notin Beyond /\ "GROUP" \notin Beyond /\ "REPLY" \notin Beyond
      BY DEF Beyond, PassedOver, Fillers
    <3>1. CASE server.follows
      <4>1. Len(s) = 2 /\ s[1].type = "KEXINIT" /\ s[2].type = GuessedType
        BY <1>6, <3>1 DEF SaysProposal
      <4>2. GuessedType \in {"GROUP", "REPLY"} /\ Guess = {GuessedType}
        BY <3>1, TypeOfGuess
      <4>3. NewTalk(s) = {"KEXINIT", GuessedType}
        BY <3>0, <4>1, <4>2, NewWords
      <4>4. Place["KEXINIT"] < Place[GuessedType]
        BY <4>2, Places
      <4> QED BY <4>1, <4>2, <4>3, <4>4
    <3>2. CASE ~server.follows
      <4>1. Len(s) = 1 /\ s[1].type = "KEXINIT" /\ Guess = {}
        BY <1>6, <3>2 DEF SaysProposal, Guess
      <4>2. NewTalk(s) = {"KEXINIT"}
        BY <3>0, <4>1, NewWords
      <4> QED BY <4>1, <4>2
    <3> QED BY <3>1, <3>2
  <2>3. \A v \in Talk, w \in NewTalk(s) : Place[v] < Place[w]
    <3>1. Guess \subseteq {"GROUP", "REPLY"}
      BY TypeOfGuess
    <3>2. ASSUME NEW v \in Talk, NEW w \in NewTalk(s) PROVE Place[v] < Place[w]
      <4>1. v = "BANNER" /\ w \in {"KEXINIT", "GROUP", "REPLY"}
        BY <2>1, <2>2, <3>1
      <4>2. Place[v] = 1 /\ Place[w] \in {2, 3, 4}
        BY <4>1, Places
      <4> QED BY <4>2
    <3> QED BY <3>2
  <2>4. Talk' = Talk \cup NewTalk(s) /\ InOrder'
    BY <1>1, <2>2, <2>3, TalkAdded
  <2>5. pc = "banner" => Talk' = {"BANNER", "KEXINIT"} \cup Guess
    BY <2>1, <2>2, <2>4
  <2>6. pc = "kexinit" => Talk' = {"KEXINIT"} \cup Guess
    BY <2>1, <2>2, <2>4
  <2>7. Said'
    BY <1>1, <1>3, <2>1, <2>5, <2>6 DEF Said
  <2> QED BY <1>4, <2>4, <2>7
<1>7. CASE SaysBeside(s)
  <2>1. stage' = stage /\ Len(s) = 1 /\ s[1].type \in PassedOver
    BY <1>7 DEF SaysBeside
  <2>2. NewTalk(s) = {} /\ s[1].type # "LINE"
    BY <2>1, NewWords DEF Beyond, PassedOver, Fillers
  <2>3. Talk' = Talk /\ InOrder'
    <3>1. \A i, j \in 1..Len(s) : i < j => Place[s[i].type] < Place[s[j].type]
      BY <2>1
    <3>2. \A i \in 1..Len(s) : s[i].type # "LINE"
      BY <2>1, <2>2
    <3>3. Talk' = Talk \cup NewTalk(s) /\ InOrder'
      BY <1>1, <2>2, <3>1, <3>2, TalkAdded
    <3> QED BY <2>2, <3>3
  <2>4. Said'
    BY <1>1, <1>2, <1>3, <2>1, <2>3 DEF Said
  <2> QED BY <1>4, <2>3, <2>4
<1> QED BY <1>5, <1>6, <1>7

\* What it says beside the protocol is within the limits.
LEMMA LimitsServer ==
    ASSUME TypeInv, InStep, Quiet, pc # "closed", ~cause', NEW s \in Seq(Packets), Speech(s)
    PROVE  WithinLimits'
<1>1. /\ UNCHANGED <<pc, skipped, lines>> /\ toClient' = toClient \o s
      /\ WithinLimits /\ (pc # "banner" => stage # "banner")
      /\ noise \in Nat /\ lines \in Nat /\ skipped \in Nat
      /\ LineLimit \in Nat /\ ReadLimit \in Nat
  BY Limits DEF Speech, Quiet, scanner, InStep, TypeInv
<1>2. /\ Cardinality(Filler) \in Nat /\ Cardinality(BannerLines) \in Nat
      /\ Cardinality(Filler') \in Nat /\ Cardinality(BannerLines') \in Nat
      /\ (\A i \in 1..Len(s) : s[i].type \notin PassedOver) => Filler' = Filler
      /\ (\A i \in 1..Len(s) : s[i].type # "LINE") => BannerLines' = BannerLines
      /\ Len(s) = 1 => Cardinality(Filler') <= Cardinality(Filler) + 1
      /\ Len(s) = 1 => Cardinality(BannerLines') <= Cardinality(BannerLines) + 1
  BY <1>1, CountAdded DEF Filler, BannerLines
<1>3. CASE SaysReply(s) \/ SaysProposal(s)
  <2>1. /\ \A i \in 1..Len(s) : s[i].type \notin PassedOver /\ s[i].type # "LINE"
        /\ noise' = noise /\ stage' # "banner"
    <3>1. CASE SaysReply(s)
      <4>1. \A i \in 1..Len(s) : s[i].type \notin PassedOver /\ s[i].type # "LINE"
        BY <3>1 DEF SaysReply, Replied, PassedOver, Fillers
      <4> QED BY <3>1, <4>1 DEF SaysReply
    <3>2. CASE SaysProposal(s)
      <4>1. \A i \in 1..Len(s) : s[i].type \notin PassedOver /\ s[i].type # "LINE"
        BY <3>2 DEF SaysProposal, GuessedType, PassedOver, Fillers
      <4> QED BY <3>2, <4>1 DEF SaysProposal
    <3> QED BY <1>3, <3>1, <3>2
  <2>2. Filler' = Filler /\ BannerLines' = BannerLines
    BY <1>2, <2>1
  <2> QED BY <1>1, <2>1, <2>2 DEF WithinLimits
<1>4. CASE SaysLine(s)
  <2>1. /\ pc = "banner" /\ stage = "banner" /\ Filler = {} /\ skipped = 0
        /\ lines + Cardinality(BannerLines) <= noise /\ noise < LineLimit
    BY <1>1, <1>4 DEF SaysLine, WithinLimits
  <2>2. /\ Len(s) = 1 /\ s[1].type \in {"LINE", "BANNER"} /\ Filler' = Filler
        /\ stage' = IF s[1].type = "LINE" THEN "banner" ELSE "kexinit"
        /\ noise' = IF s[1].type = "LINE" THEN noise + 1 ELSE noise
        /\ ~(noise' >= LineLimit)
    <3>1. /\ Len(s) = 1 /\ s[1].type \in {"LINE", "BANNER"}
          /\ stage' = IF s[1].type = "LINE" THEN "banner" ELSE "kexinit"
          /\ noise' = IF s[1].type = "LINE" THEN noise + 1 ELSE noise
          /\ ~(noise' >= LineLimit)
      BY <1>4 DEF SaysLine
    <3>2. \A i \in 1..Len(s) : s[i].type \notin PassedOver
      BY <3>1 DEF PassedOver, Fillers
    <3> QED BY <1>2, <3>1, <3>2
  <2>3. CASE s[1].type = "LINE"
    <3>1. lines + Cardinality(BannerLines') <= noise' /\ noise' < LineLimit
      BY <1>1, <1>2, <2>1, <2>2, <2>3
    <3>2. lines + Cardinality(BannerLines') < LineLimit
      BY <1>1, <1>2, <2>3, <2>2, <3>1
    <3> QED BY <1>1, <2>1, <2>2, <3>1, <3>2 DEF WithinLimits
  <2>4. CASE s[1].type = "BANNER"
    <3>1. BannerLines' = BannerLines
      BY <1>2, <2>2, <2>4
    <3>2. lines + Cardinality(BannerLines) < LineLimit
      BY <1>1, <2>1 DEF WithinLimits
    <3> QED BY <1>1, <2>1, <2>2, <2>4, <3>1, <3>2 DEF WithinLimits
  <2> QED BY <2>2, <2>3, <2>4
<1>5. CASE SaysBeside(s)
  <2>1. /\ Len(s) = 1 /\ s[1].type \in PassedOver /\ stage' = stage /\ stage # "banner"
        /\ noise' = noise + 1 /\ ~(noise' >= ReadLimit)
    BY <1>5 DEF SaysBeside
  <2>2. BannerLines' = BannerLines
    BY <1>2, <2>1 DEF PassedOver, Fillers
  <2>3. \/ Filler = {} /\ skipped = 0 /\ Cardinality(Filler) = 0
        \/ skipped + Cardinality(Filler) <= noise
    BY <1>1, FS_EmptySet DEF WithinLimits
  <2>4. noise' < ReadLimit /\ skipped + Cardinality(Filler') <= noise'
    BY <1>1, <1>2, <2>1, <2>3
  <2> QED BY <1>1, <2>1, <2>2, <2>4 DEF WithinLimits
<1> QED BY <1>3, <1>4, <1>5 DEF Speech

LEMMA TalkServer ==
    ASSUME TypeInv, TalkInv, Server
    PROVE  TalkInv'
<1>1. Quiet /\ pc # "closed" /\ \E s \in Seq(Packets) : Speech(s)
  BY SpeechForm
<1>2. PICK s \in Seq(Packets) : Speech(s)
  BY <1>1
<1>3. pc' = pc /\ outcome' = outcome /\ kind' = kind /\ server' = server
  BY <1>1 DEF Quiet, scanner
<1>4. Excused' = Excused
  BY <1>3, ServerSame
<1>5. SUFFICES ASSUME ~cause', ~Excused
               PROVE  outcome' # "error" /\ InStep'
  BY <1>4 DEF TalkInv
<1>6. ~cause
  BY <1>2, <1>5 DEF Speech, SaysLine, SaysProposal, SaysReply, SaysBeside
<1>7. outcome # "error" /\ InStep
  BY <1>1, <1>5, <1>6 DEF TalkInv
<1>8. Said' /\ InOrder' /\ Asking'
  BY <1>1, <1>2, <1>5, <1>7, TalkReply, TalkOther DEF Speech
<1>9. WithinLimits'
  BY <1>1, <1>2, <1>5, <1>7, LimitsServer
<1>10. /\ pc' # "banner" => stage' # "banner"
       /\ stage' # "wait" => pc' \in {"banner", "kexinit"}
       /\ pc' = "group" => server'.kex = "group_exchange"
  BY <1>2, <1>3, <1>7
     DEF InStep, Speech, SaysLine, SaysProposal, SaysReply, SaysBeside
<1>11. ASSUME NEW k \in DOMAIN toClient', toClient'[k].type \in {"GROUP", "REPLY"}
       PROVE  toClient'[k].sound
  <2>1. \A i \in 1..Len(s) : s[i].type \in {"GROUP", "REPLY"} => s[i].sound
    <3>1. CASE SaysLine(s)
      BY <3>1 DEF SaysLine
    <3>2. CASE SaysProposal(s)
      BY <3>2 DEF SaysProposal
    <3>3. CASE SaysReply(s)
      BY <1>5, <3>3 DEF SaysReply
    <3>4. CASE SaysBeside(s)
      BY <3>4 DEF SaysBeside, Beside, PassedOver, Fillers
    <3> QED BY <1>2, <3>1, <3>2, <3>3, <3>4 DEF Speech
  <2>2. \A k_1 \in DOMAIN toClient' :
           \/ k_1 \in DOMAIN toClient /\ toClient'[k_1] = toClient[k_1]
           \/ k_1 - Len(toClient) \in 1..Len(s) /\ toClient'[k_1] = s[k_1 - Len(toClient)]
    BY <1>2, Added DEF TypeInv, Speech
  <2> QED BY <1>7, <1>11, <2>1, <2>2 DEF InStep
<1> QED BY <1>3, <1>7, <1>8, <1>9, <1>10, <1>11 DEF InStep

\* Where the scanner reads, it reads the answer it waits for.
LEMMA HeadExpected ==
    ASSUME TypeInv, InStep, ~Excused, pc \in Exchanges, toClient # <<>>,
           Head(toClient).type \notin PassedOver
    PROVE  /\ Head(toClient).type =
                 CASE pc = "kexinit" -> "KEXINIT"
                   [] pc = "discard" -> GuessedType
                   [] pc = "group" -> "GROUP"
                   [] pc = "reply" -> "REPLY"
                   [] pc = "newkeys" -> "NEWKEYS"
                   [] pc = "accept" -> "SERVICE_ACCEPT"
                   [] pc = "auth" -> Head(toClient).type
           /\ pc = "auth" => Head(toClient).type \in {"USERAUTH_FAILURE", "USERAUTH_SUCCESS"}
           /\ pc \in {"group", "reply"} => Head(toClient).sound
           /\ Head(toClient).type \in Talk
           /\ \A w \in Talk : w = Head(toClient).type \/ Place[Head(toClient).type] < Place[w]
<1> DEFINE h == Head(toClient).type
<1>0. /\ pc # "closed" /\ pc # "banner" /\ Said /\ InOrder /\ WithinLimits
      /\ stage \in {"banner", "kexinit", "wait"}
      /\ Talk \subseteq DOMAIN Place
  BY SaidPlaces DEF InStep, Exchanges, TypeInv
<1>1. /\ 1 \in DOMAIN toClient /\ Head(toClient) = toClient[1]
      /\ \A k \in DOMAIN toClient : k \in Nat /\ k # 0
  BY Taken DEF TypeInv
<1>2. h \notin Beyond
  BY <1>0, <1>1 DEF WithinLimits, BannerLines, At, Beyond
<1>3. 1 \in Words /\ h \in Talk
  BY <1>1, <1>2 DEF Words, Talk, Beyond
<1>4. ASSUME NEW w \in Talk PROVE w = h \/ Place[h] < Place[w]
  <2>1. PICK k \in Words : toClient[k].type = w
    BY DEF Talk
  <2>2. k = 1 \/ 1 < k
    BY <1>1 DEF Words
  <2> QED BY <1>0, <1>1, <1>3, <2>1, <2>2 DEF InOrder
<1>5. pc \in {"group", "reply"} /\ h \in {"GROUP", "REPLY"} => Head(toClient).sound
  BY <1>1 DEF InStep
<1> HIDE DEF h
<1>6. Place["KEXINIT"] = 2 /\ Place["GROUP"] = 3 /\ Place["REPLY"] = 4 /\ Place["NEWKEYS"] = 5
  BY Places
<1>7. CASE pc = "kexinit"
  <2>1. Talk = {"KEXINIT"} \cup Guess
    BY <1>0, <1>3, <1>7 DEF Said
  <2>2. Guess \subseteq {"GROUP", "REPLY"}
    BY TypeOfGuess
  <2>3. h = "KEXINIT"
    <3>1. h = "KEXINIT" \/ h = "GROUP" \/ h = "REPLY"
      BY <1>3, <2>1, <2>2
    <3>2. h = "KEXINIT" \/ Place[h] < 2
      BY <1>4, <1>6, <2>1
    <3> QED BY <1>6, <3>1, <3>2
  <2> QED BY <1>3, <1>4, <1>7, <2>3 DEF h
<1>8. CASE pc = "discard"
  <2>1. h = GuessedType
    BY <1>0, <1>3, <1>8, TypeOfGuess DEF Said
  <2> QED BY <1>3, <1>4, <1>8, <2>1 DEF h
<1>9. CASE pc = "reply"
  <2>1. Talk = {"REPLY", "NEWKEYS"} \/ Talk = {"REPLY"}
    BY <1>0, <1>3, <1>9 DEF Said
  <2>2. h = "REPLY"
    <3>1. h = "REPLY" \/ h = "NEWKEYS"
      BY <1>3, <2>1
    <3>2. h = "REPLY" \/ Place[h] < 4
      BY <1>4, <1>6, <2>1
    <3> QED BY <1>6, <3>1, <3>2
  <2> QED BY <1>3, <1>4, <1>5, <1>9, <2>2 DEF h
<1>10. CASE pc = "group"
  <2>1. h = "GROUP"
    BY <1>0, <1>3, <1>10 DEF Said
  <2> QED BY <1>3, <1>4, <1>5, <1>10, <2>1 DEF h
<1>11. CASE pc = "newkeys"
  <2>1. h = "NEWKEYS"
    BY <1>0, <1>3, <1>11 DEF Said
  <2> QED BY <1>3, <1>4, <1>11, <2>1 DEF h
<1>12. CASE pc = "accept"
  <2>1. h = "SERVICE_ACCEPT"
    BY <1>0, <1>3, <1>12 DEF Said
  <2> QED BY <1>3, <1>4, <1>12, <2>1 DEF h
<1>13. CASE pc = "auth"
  <2>1. h \in {"USERAUTH_FAILURE", "USERAUTH_SUCCESS"}
    BY <1>0, <1>3, <1>13 DEF Said
  <2> QED BY <1>3, <1>4, <1>13, <2>1 DEF h
<1> QED BY <1>7, <1>8, <1>9, <1>10, <1>11, <1>12, <1>13 DEF Exchanges

\* So it is not refused, unless something explains that.
LEMMA NotRefused ==
    ASSUME TypeInv, InStep, ~Excused, pc \in Exchanges, toClient # <<>>
    PROVE  ~Refused
<1>1. CASE Head(toClient).type \in PassedOver
  <2>1. WithinLimits /\ Filler # {}
        /\ noise \in Nat /\ skipped \in Nat /\ ReadLimit \in Nat
    <3>1. 1 \in Filler
      BY <1>1, Taken DEF TypeInv, Filler, At
    <3> QED BY <3>1, Limits DEF InStep, TypeInv
  <2>2. noise < ReadLimit /\ skipped + Cardinality(Filler) <= noise
    BY <2>1 DEF WithinLimits
  <2>3. Cardinality(Filler) \in Nat /\ Cardinality(Filler) # 0
    <3>1. IsFiniteSet(Filler)
      <4>1. Filler \subseteq 1..Len(toClient) /\ Len(toClient) \in Nat
        BY LenProperties DEF TypeInv, Filler, At
      <4>2. IsFiniteSet(1..Len(toClient))
        BY <4>1, FS_Interval
      <4> QED BY <4>1, <4>2, FS_Subset
    <3> QED BY <2>1, <3>1, FS_EmptySet, FS_CardinalityType
  <2>4. skipped + 1 # ReadLimit
    BY <2>1, <2>2, <2>3
  <2> QED BY <1>1, <2>4 DEF Refused
<1>2. CASE Head(toClient).type \notin PassedOver
  <2>1. GuessedType \in {"GROUP", "REPLY"}
    BY TypeOfGuess
  <2>2. /\ Head(toClient).type # "DISCONNECT"
        /\ Expected[pc] = "any" \/ Expected[pc] = Head(toClient).type
    BY <1>2, <2>1, HeadExpected DEF Exchanges, Expected
  <2>3. pc \in {"group", "reply"} => Head(toClient).sound
    BY <1>2, HeadExpected
  <2>4. pc = "auth" => Head(toClient).type \in {"USERAUTH_FAILURE", "USERAUTH_SUCCESS"}
    BY <1>2, HeadExpected
  <2> QED BY <1>2, <2>2, <2>3, <2>4 DEF Refused
<1> QED BY <1>1, <1>2

\* The limits are kept when the scanner reads.
LEMMA LimitsRead ==
    ASSUME TypeInv, InStep, pc \in Exchanges, pc' # "banner", toClient # <<>>,
           toClient' = Tail(toClient), noise' = noise,
           \/ skipped' = 0
           \/ skipped' = skipped + 1 /\ Head(toClient).type \in PassedOver
    PROVE  WithinLimits'
<1>1. /\ WithinLimits /\ pc # "banner" /\ noise \in Nat /\ skipped \in Nat /\ ReadLimit \in Nat
  BY Limits DEF InStep, Exchanges, TypeInv
<1>2. /\ Cardinality(Filler) \in Nat /\ Cardinality(Filler') \in Nat
      /\ Cardinality(Filler') <= Cardinality(Filler)
      /\ Head(toClient).type \in PassedOver =>
            Cardinality(Filler') + 1 <= Cardinality(Filler) /\ Filler # {}
      /\ Filler = {} => Filler' = {}
      /\ BannerLines = {} => BannerLines' = {}
  BY CountTaken DEF Filler, BannerLines
<1>3. CASE Filler = {} /\ skipped = 0
  <2>1. Filler' = {} /\ skipped' = 0
    BY <1>2, <1>3
  <2> QED BY <1>1, <1>2, <2>1 DEF WithinLimits
<1>4. CASE noise < ReadLimit /\ skipped + Cardinality(Filler) <= noise
  <2>1. skipped' + Cardinality(Filler') <= noise
    BY <1>1, <1>2, <1>4
  <2> QED BY <1>1, <1>2, <1>4, <2>1 DEF WithinLimits
<1> QED BY <1>1, <1>3, <1>4 DEF WithinLimits

\* The scanner moves on with the answer it has read, and asks what comes next.
LEMMA TalkProceeds ==
    ASSUME TypeInv, InStep, ~Excused, Reads, Proceeds
    PROVE  Said' /\ InOrder' /\ Asking' /\ stage' = "wait" /\ pc' \in Exchanges
           /\ (pc' = "group" => server'.kex = "group_exchange")
<1> DEFINE h == Head(toClient).type
<1>1. /\ pc \in Exchanges /\ pc # "closed" /\ toClient # <<>> /\ toClient' = Tail(toClient)
      /\ h \notin PassedOver /\ kind' = kind /\ server' = server /\ stage' = stage
      /\ Said /\ InOrder /\ Asking /\ InTurn /\ keyed' \in BOOLEAN
      /\ stage \in {"kexinit", "wait"} /\ (stage # "wait" => pc = "kexinit")
      /\ (pc = "group" => server.kex = "group_exchange")
  <2>1. keyed' \in BOOLEAN
    BY DEF Proceeds, TypeInv
  <2> QED BY <2>1 DEF Reads, Proceeds, peer, InStep, Asking, Exchanges, TypeInv
<1>2. /\ h = CASE pc = "kexinit" -> "KEXINIT"
                [] pc = "discard" -> GuessedType
                [] pc = "group" -> "GROUP"
                [] pc = "reply" -> "REPLY"
                [] pc = "newkeys" -> "NEWKEYS"
                [] pc = "accept" -> "SERVICE_ACCEPT"
                [] pc = "auth" -> h
      /\ pc = "auth" => h \in {"USERAUTH_FAILURE", "USERAUTH_SUCCESS"}
      /\ h \in Talk
  BY <1>1, HeadExpected
<1>3. Talk' = Talk \ {h} /\ InOrder'
  <2>1. Talk \subseteq DOMAIN Place
    BY <1>1, SaidPlaces
  <2>2. h \notin Beyond
    BY <1>2, <2>1, Places
  <2> QED BY <1>1, <2>1, <2>2, TalkTaken
<1>4. /\ Guess' = Guess /\ GuessedRight' = GuessedRight
      /\ Guessed("GROUP")' = Guessed("GROUP") /\ Guessed("REPLY")' = Guessed("REPLY")
  BY <1>1, ServerSame
<1>5. /\ GuessedType \in {"GROUP", "REPLY"}
      /\ GuessedType = "GROUP" <=> server.kex = "group_exchange"
      /\ Guess \subseteq {GuessedType} /\ (server.follows => Guess = {GuessedType})
      /\ (~server.follows => Guess = {})
      /\ Guessed("GROUP") <=> server.follows /\ GuessedRight /\ GuessedType = "GROUP"
      /\ Guessed("REPLY") <=> server.follows /\ GuessedRight /\ GuessedType = "REPLY"
  BY TypeOfGuess DEF Guess
<1> HIDE DEF h
<1>6. ASSUME NEW type \in Asked, Sends(type), pc' \in Exchanges,
             LastAsked[pc] < TurnOf(type), TurnOf(type) <= LastAsked[pc']
      PROVE  InTurn' /\ \A x : Pending(x)' <=> Pending(x) \/ x = type
  BY <1>1, <1>6, TurnsSent
<1>7. pc \in {"kexinit", "discard"} =>
         /\ stage = "wait"
         /\ ~Pending("GEX_REQUEST") /\ ~Pending("INIT") /\ ~Pending("SERVICE_REQUEST")
  <2>1. pc \in {"kexinit", "discard"} => stage = "wait"
    BY <1>1, <1>2 DEF Said
  <2>2. ASSUME pc \in {"kexinit", "discard"}, NEW x \in {"GEX_REQUEST", "INIT", "SERVICE_REQUEST"},
               Pending(x)
        PROVE  FALSE
    <3>1. TurnOf(x) <= 1
      BY <1>1, <2>2, Turns DEF Pending, InTurn
    <3> QED BY <3>1, Turns
  <2> QED BY <2>1, <2>2
<1>8. CASE Goes("kexinit", "KEXINIT", "discard") /\ Silent
           /\ kind = "host_key" /\ server.follows /\ ~GuessedRight
  <2>1. pc = "kexinit" /\ pc' = "discard" /\ toServer' = toServer
    BY <1>8 DEF Goes, Silent
  <2>2. Talk' = Guess
    BY <1>1, <1>2, <1>3, <1>5, <1>7, <2>1 DEF Said
  <2>3. InTurn' /\ \A x : Pending(x)' <=> Pending(x)
    <3>1. LastAsked[pc] <= LastAsked[pc']
      BY <2>1, Turns
    <3> QED BY <1>1, <2>1, <3>1, TurnsSame DEF Exchanges
  <2>4. Said'
    BY <1>1, <1>4, <1>8, <2>1, <2>2 DEF Said
  <2>5. Asking'
    BY <1>7, <2>1, <2>3 DEF Asking
  <2> QED BY <1>1, <1>3, <1>7, <2>1, <2>4, <2>5 DEF Exchanges
<1>9. CASE Begins
  <2>1. pc \in {"kexinit", "discard"}
    BY <1>9 DEF Begins
  <2>2. Talk' = IF server.follows /\ GuessedRight THEN {GuessedType} ELSE {}
    <3>1. CASE pc = "kexinit"
      <4>1. Talk' = Guess
        BY <1>1, <1>2, <1>3, <1>5, <1>7, <3>1 DEF Said
      <4>2. ~(server.follows /\ ~GuessedRight)
        BY <1>9, <3>1 DEF Begins, Excused
      <4> QED BY <1>5, <4>1, <4>2
    <3>2. CASE pc = "discard"
      BY <1>1, <1>2, <1>3, <1>5, <3>2 DEF Said
    <3> QED BY <2>1, <3>1, <3>2
  <2>3. CASE server.kex = "group_exchange" /\ pc' = "group" /\ Sends("GEX_REQUEST")
    <3>1. InTurn' /\ \A x : Pending(x)' <=> Pending(x) \/ x = "GEX_REQUEST"
      <4>1. LastAsked[pc] < TurnOf("GEX_REQUEST") /\ TurnOf("GEX_REQUEST") <= LastAsked[pc']
        BY <2>1, <2>3, Turns
      <4> QED BY <1>6, <2>3, <4>1 DEF Asked, Exchanges
    <3>2. Said'
      BY <1>4, <1>5, <2>2, <2>3, <3>1 DEF Said
    <3>3. Asking'
      BY <1>7, <2>1, <2>3, <3>1 DEF Asking
    <3> QED BY <1>1, <1>3, <1>7, <2>1, <2>3, <3>2, <3>3 DEF Exchanges
  <2>4. CASE server.kex # "group_exchange" /\ pc' = "reply" /\ Sends("INIT")
    <3>1. InTurn' /\ \A x : Pending(x)' <=> Pending(x) \/ x = "INIT"
      <4>1. LastAsked[pc] < TurnOf("INIT") /\ TurnOf("INIT") <= LastAsked[pc']
        BY <2>1, <2>4, Turns
      <4> QED BY <1>6, <2>4, <4>1 DEF Asked, Exchanges
    <3>2. Said'
      BY <1>4, <1>5, <2>2, <2>4, <3>1 DEF Said
    <3>3. Asking'
      BY <1>7, <2>1, <2>4, <3>1 DEF Asking
    <3> QED BY <1>1, <1>3, <1>7, <2>1, <2>4, <3>2, <3>3 DEF Exchanges
  <2> QED BY <1>9, <2>3, <2>4 DEF Begins
<1>10. CASE Goes("group", "GROUP", "reply") /\ Sends("INIT")
  <2>1. pc = "group" /\ pc' = "reply" /\ stage = "wait"
    BY <1>1, <1>10 DEF Goes
  <2>2. Talk = {"GROUP"} /\ Talk' = {} /\ ~Guessed("REPLY")
        /\ (Pending("GEX_REQUEST") => Guessed("GROUP"))
    BY <1>1, <1>2, <1>3, <1>5, <2>1 DEF Said
  <2>3. InTurn' /\ \A x : Pending(x)' <=> Pending(x) \/ x = "INIT"
    <3>1. LastAsked[pc] < TurnOf("INIT") /\ TurnOf("INIT") <= LastAsked[pc']
      BY <2>1, Turns
    <3> QED BY <1>6, <1>10, <2>1, <3>1 DEF Asked, Exchanges
  <2>4. Said'
    BY <1>4, <2>1, <2>2, <2>3 DEF Said
  <2>5. Asking'
    BY <1>1, <1>4, <2>1, <2>2, <2>3 DEF Asking
  <2> QED BY <1>1, <1>3, <2>1, <2>4, <2>5 DEF Exchanges
<1>11. CASE Goes("reply", "REPLY", "newkeys") /\ Sends("NEWKEYS")
  <2>1. pc = "reply" /\ pc' = "newkeys" /\ stage = "wait"
    BY <1>1, <1>11 DEF Goes
  <2>2. Talk' = IF Pending("INIT") THEN {} ELSE {"NEWKEYS"}
    BY <1>1, <1>2, <1>3, <2>1 DEF Said
  <2>3. Pending("INIT") => Guessed("REPLY")
    BY <1>1, <1>2, <2>1 DEF Said
  <2>4. InTurn' /\ \A x : Pending(x)' <=> Pending(x) \/ x = "NEWKEYS"
    <3>1. LastAsked[pc] < TurnOf("NEWKEYS") /\ TurnOf("NEWKEYS") <= LastAsked[pc']
      BY <2>1, Turns
    <3> QED BY <1>6, <1>11, <2>1, <3>1 DEF Asked, Exchanges
  <2>5. Said'
    BY <2>1, <2>2, <2>4 DEF Said
  <2>6. Asking'
    BY <1>1, <1>4, <2>1, <2>3, <2>4 DEF Asking
  <2> QED BY <1>1, <1>3, <2>1, <2>5, <2>6 DEF Exchanges
<1>12. CASE Goes("newkeys", "NEWKEYS", "accept") /\ Sends("SERVICE_REQUEST")
  <2>1. pc = "newkeys" /\ pc' = "accept" /\ stage = "wait"
    BY <1>1, <1>12 DEF Goes
  <2>2. Talk' = {} /\ ~Pending("INIT")
    BY <1>1, <1>2, <1>3, <2>1 DEF Said
  <2>3. InTurn' /\ \A x : Pending(x)' <=> Pending(x) \/ x = "SERVICE_REQUEST"
    <3>1. LastAsked[pc] < TurnOf("SERVICE_REQUEST")
          /\ TurnOf("SERVICE_REQUEST") <= LastAsked[pc']
      BY <2>1, Turns
    <3> QED BY <1>6, <1>12, <2>1, <3>1 DEF Asked, Exchanges
  <2>4. Said'
    BY <2>1, <2>2, <2>3 DEF Said
  <2>5. Asking'
    BY <1>1, <1>4, <2>1, <2>2, <2>3 DEF Asking
  <2> QED BY <1>1, <1>3, <2>1, <2>4, <2>5 DEF Exchanges
<1>13. CASE Goes("accept", "SERVICE_ACCEPT", "auth") /\ Sends("USERAUTH_REQUEST")
  <2>1. pc = "accept" /\ pc' = "auth" /\ stage = "wait"
    BY <1>1, <1>13 DEF Goes
  <2>2. Talk' = {} /\ ~Pending("SERVICE_REQUEST")
    BY <1>1, <1>2, <1>3, <2>1 DEF Said
  <2>3. InTurn' /\ \A x : Pending(x)' <=> Pending(x) \/ x = "USERAUTH_REQUEST"
    <3>1. LastAsked[pc] < TurnOf("USERAUTH_REQUEST")
          /\ TurnOf("USERAUTH_REQUEST") <= LastAsked[pc']
      BY <2>1, Turns
    <3> QED BY <1>6, <1>13, <2>1, <3>1 DEF Asked, Exchanges
  <2>4. Said'
    BY <2>1, <2>2, <2>3 DEF Said
  <2>5. Asking'
    BY <1>1, <1>4, <2>1, <2>2, <2>3 DEF Asking
  <2> QED BY <1>1, <1>3, <2>1, <2>4, <2>5 DEF Exchanges
<1>14. CASE Goes("auth", "USERAUTH_BANNER", "auth")
  BY <1>2, <1>14 DEF Goes, h
<1> QED BY <1>8, <1>9, <1>10, <1>11, <1>12, <1>13, <1>14 DEF Proceeds

\* Filler that is passed over changes nothing of what has been said and asked.
LEMMA TalkPasses ==
    ASSUME TypeInv, InStep, Reads, Passes
    PROVE  Said' /\ InOrder' /\ Asking' /\ pc' \in Exchanges /\ stage' = stage
<1>1. /\ pc \in Exchanges /\ pc' = pc /\ toClient # <<>> /\ toClient' = Tail(toClient)
      /\ kind' = kind /\ server' = server /\ stage' = stage /\ toServer' = toServer
      /\ Head(toClient).type \in PassedOver
      /\ Said /\ InOrder /\ Asking /\ InTurn
  BY DEF Reads, Passes, Silent, peer, InStep, Asking
<1>2. Talk' = Talk /\ InOrder'
  <2>1. Talk \subseteq DOMAIN Place
    BY <1>1, SaidPlaces DEF Exchanges
  <2> QED BY <1>1, <2>1, TalkTaken DEF Beyond
<1>3. InTurn' /\ \A x : Pending(x)' <=> Pending(x)
  <2>1. LastAsked[pc] \in Nat /\ LastAsked[pc'] = LastAsked[pc]
    BY <1>1, Turns
  <2>2. LastAsked[pc] <= LastAsked[pc']
    BY <2>1
  <2> QED BY <1>1, <2>2, TurnsSame
<1>4. /\ Guess' = Guess /\ GuessedRight' = GuessedRight
      /\ Guessed("GROUP")' = Guessed("GROUP") /\ Guessed("REPLY")' = Guessed("REPLY")
  BY <1>1, ServerSame
<1>5. Said'
  BY <1>1, <1>2, <1>3, <1>4 DEF Said
<1>6. Asking'
  BY <1>1, <1>3, <1>4 DEF Asking
<1> QED BY <1>1, <1>2, <1>5, <1>6

LEMMA SoundTaken ==
    ASSUME TypeInv, InStep, toClient # <<>>, toClient' = Tail(toClient)
    PROVE  \A k \in DOMAIN toClient' : toClient'[k].type \in {"GROUP", "REPLY"} => toClient'[k].sound
<1>1. \A k \in DOMAIN toClient' : k + 1 \in DOMAIN toClient /\ toClient'[k] = toClient[k + 1]
  BY Taken DEF TypeInv
<1> QED BY <1>1 DEF InStep

LEMMA TalkRead ==
    ASSUME TypeInv, TalkInv, ReadPacket
    PROVE  TalkInv'
<1>1. Reads /\ (Passes \/ Proceeds \/ Ends)
  BY ReadForm
<1>2. /\ pc \in Exchanges /\ pc # "closed" /\ toClient # <<>> /\ toClient' = Tail(toClient)
      /\ cause' = cause /\ kind' = kind /\ server' = server /\ noise' = noise /\ stage' = stage
  BY <1>1 DEF Reads, peer, Exchanges
<1>3. Excused' = Excused
  BY <1>2, ServerSame
<1>4. SUFFICES ASSUME ~cause, ~Excused
               PROVE  outcome' # "error" /\ (pc' # "closed" => InStep')
  BY <1>2, <1>3 DEF TalkInv
<1>5. outcome # "error" /\ InStep
  BY <1>2, <1>4 DEF TalkInv
<1>6. ~Refused
  BY <1>2, <1>4, <1>5, NotRefused
<1>7. CASE Ends
  BY <1>6, <1>7 DEF Ends
<1>8. \A k \in DOMAIN toClient' : toClient'[k].type \in {"GROUP", "REPLY"} => toClient'[k].sound
  BY <1>2, <1>5, SoundTaken
<1>9. CASE Passes
  <2>1. Said' /\ InOrder' /\ Asking' /\ pc' = pc
    BY <1>1, <1>5, <1>9, TalkPasses DEF Passes
  <2>2. WithinLimits'
    BY <1>2, <1>5, <1>9, LimitsRead DEF Passes, Exchanges
  <2> QED BY <1>2, <1>5, <1>8, <1>9, <2>1, <2>2 DEF Passes, InStep
<1>10. CASE Proceeds
  <2>1. Said' /\ InOrder' /\ Asking' /\ stage' = "wait" /\ pc' \in Exchanges
        /\ (pc' = "group" => server'.kex = "group_exchange")
    BY <1>1, <1>4, <1>5, <1>10, TalkProceeds
  <2>2. WithinLimits'
    <3>1. pc' # "banner"
      BY <2>1 DEF Exchanges
    <3>2. skipped' = 0
      BY <1>10 DEF Proceeds
    <3> QED BY <1>2, <1>5, <3>1, <3>2, LimitsRead
  <2>3. outcome' = outcome
    BY <1>10 DEF Proceeds
  <2>4. pc' # "banner" /\ stage' # "banner"
    BY <2>1 DEF Exchanges
  <2>5. InStep'
    BY <1>8, <2>1, <2>2, <2>4 DEF InStep
  <2> QED BY <1>5, <2>3, <2>5
<1> QED BY <1>1, <1>7, <1>9, <1>10

LEMMA TalkLine ==
    ASSUME TypeInv, TalkInv, ReadLine
    PROVE  TalkInv'
<1>1. ReadsLine
  BY LineForm
<1>2. /\ pc = "banner" /\ toClient # <<>> /\ toClient' = Tail(toClient)
      /\ cause' = cause /\ kind' = kind /\ server' = server /\ noise' = noise /\ stage' = stage
      /\ skipped' = skipped
  BY <1>1 DEF ReadsLine, peer
<1>3. Excused' = Excused /\ Guess' = Guess
  BY <1>2, ServerSame
<1>4. SUFFICES ASSUME ~cause, ~Excused
               PROVE  outcome' # "error" /\ (pc' # "closed" => InStep')
  BY <1>2, <1>3 DEF TalkInv
<1>5. outcome # "error" /\ InStep /\ Said /\ InOrder /\ Asking /\ InTurn /\ WithinLimits
  BY <1>2, <1>4 DEF TalkInv, InStep, Asking
<1> DEFINE h == Head(toClient).type
<1>6. /\ lines \in Nat /\ noise \in Nat /\ skipped \in Nat
      /\ LineLimit \in Nat /\ ReadLimit \in Nat /\ stage \in {"banner", "kexinit", "wait"}
      /\ keyed \in BOOLEAN
  BY Limits DEF TypeInv
<1>7. /\ Cardinality(Filler) \in Nat /\ Cardinality(Filler') \in Nat
      /\ Cardinality(BannerLines) \in Nat /\ Cardinality(BannerLines') \in Nat
      /\ Cardinality(Filler') <= Cardinality(Filler)
      /\ Cardinality(BannerLines') <= Cardinality(BannerLines)
      /\ h = "LINE" => Cardinality(BannerLines') + 1 <= Cardinality(BannerLines)
      /\ Filler = {} => Filler' = {}
      /\ BannerLines = {} => BannerLines' = {}
  BY <1>2, CountTaken DEF Filler, BannerLines
<1>8. Talk \subseteq DOMAIN Place
  BY <1>2, <1>5, SaidPlaces
<1>9. /\ InOrder'
      /\ h \in Beyond => Talk' = Talk
      /\ h \notin Beyond => h \in Talk /\ Talk' = Talk \ {h} /\ BannerLines = {}
  BY <1>2, <1>5, <1>8, TalkTaken
<1>10. \A k \in DOMAIN toClient' : toClient'[k].type \in {"GROUP", "REPLY"} => toClient'[k].sound
  BY <1>2, <1>5, SoundTaken
<1> HIDE DEF h
<1>11. \/ Filler' = {} /\ skipped = 0
       \/ noise < ReadLimit /\ skipped + Cardinality(Filler') <= noise
  <2>1. CASE Filler = {} /\ skipped = 0
    BY <1>7, <2>1
  <2>2. CASE noise < ReadLimit /\ skipped + Cardinality(Filler) <= noise
    BY <1>6, <1>7, <2>2
  <2> QED BY <1>5, <2>1, <2>2 DEF WithinLimits
<1>12. CASE Greets
  <2>1. /\ h = "BANNER" /\ pc' = "kexinit" /\ outcome' = outcome /\ keyed' = keyed
        /\ h \notin Beyond
    BY <1>12 DEF Greets, h, Beyond, PassedOver, Fillers
  <2>2. stage # "banner" /\ Talk' = IF stage = "kexinit" THEN {} ELSE {"KEXINIT"} \cup Guess
    <3>1. Guess \subseteq {"GROUP", "REPLY"}
      BY TypeOfGuess
    <3> QED BY <1>2, <1>5, <1>6, <1>9, <2>1, <3>1 DEF Said
  <2>3. Said'
    BY <1>2, <1>3, <2>1, <2>2 DEF Said
  <2>4. InTurn' /\ ~Pending("GEX_REQUEST")' /\ ~Pending("INIT")' /\ ~Pending("SERVICE_REQUEST")'
    <3>1. ASSUME NEW x \in Asked PROVE ~Pending(x)
      <4>1. Pending(x) => TurnOf(x) <= 0
        BY <1>2, <1>5, Turns DEF Pending, InTurn
      <4> QED BY <4>1, Turns
    <3>2. LastAsked["banner"] = 0 /\ LastAsked["kexinit"] = 1
      BY Turns
    <3>3. CASE Silent
      <4>1. InTurn' /\ \A x : Pending(x)' <=> Pending(x)
        BY <1>2, <1>5, <2>1, <3>2, <3>3, TurnsSame DEF Silent, Exchanges
      <4> QED BY <3>1, <4>1 DEF Asked
    <3>4. ASSUME NEW type \in {"KEXINIT_strict", "KEXINIT"}, Sends(type)
          PROVE  InTurn' /\ \A x : Pending(x)' <=> Pending(x) \/ x = type
      <4>1. TurnOf(type) = 1 /\ type \in Asked
        BY Turns DEF Asked
      <4> QED BY <1>2, <1>5, <1>6, <2>1, <3>2, <3>4, <4>1, TurnsSent DEF Exchanges
    <3>5. Silent \/ \E type \in {"KEXINIT_strict", "KEXINIT"} : Sends(type)
      <4>1. kind \in AllKinds
        BY Limits DEF TypeInv
      <4> QED BY <1>12, <4>1 DEF Greets, AllKinds
    <3> QED BY <3>1, <3>3, <3>4, <3>5 DEF Asked
  <2>5. Asking'
    BY <2>1, <2>4 DEF Asking
  <2>6. WithinLimits'
    <3>1. BannerLines' = {}
      BY <1>7, <1>9, <2>1
    <3> QED BY <1>2, <1>11, <2>1, <3>1 DEF WithinLimits
  <2> QED BY <1>2, <1>5, <1>9, <1>10, <2>1, <2>2, <2>3, <2>5, <2>6 DEF InStep
<1>13. CASE pc' = "closed" /\ (h = "OLD_BANNER" \/ (h = "LINE" /\ lines + 1 = LineLimit))
  <2>1. h # "OLD_BANNER"
    <3>1. Guess \subseteq {"GROUP", "REPLY"}
      BY TypeOfGuess
    <3>2. "OLD_BANNER" \notin Talk
      BY <1>2, <1>5, <1>6, <3>1 DEF Said
    <3> QED BY <1>9, <3>2 DEF Beyond, PassedOver, Fillers
  <2>2. h = "LINE" => lines + 1 < LineLimit
    <3>1. lines + Cardinality(BannerLines) < LineLimit
      BY <1>2, <1>5 DEF WithinLimits
    <3> QED BY <1>6, <1>7, <3>1
  <2> QED BY <1>6, <1>13, <2>1, <2>2
<1>14. CASE h = "LINE" /\ lines' = lines + 1 /\ pc' = pc /\ outcome' = outcome /\ Silent
  <2>1. Talk' = Talk
    BY <1>9, <1>14 DEF Beyond
  <2>2. Said'
    BY <1>2, <1>3, <1>5, <1>14, <2>1 DEF Said
  <2>3. Asking'
    <3>1. InTurn' /\ \A x : Pending(x)' <=> Pending(x)
      BY <1>2, <1>5, <1>14, Turns, TurnsSame DEF Silent
    <3>2. Guessed("GROUP")' = Guessed("GROUP") /\ Guessed("REPLY")' = Guessed("REPLY")
      BY <1>2, ServerSame
    <3> QED BY <1>5, <1>14, <3>1, <3>2 DEF Asking
  <2>4. WithinLimits'
    <3>1. lines + Cardinality(BannerLines) < LineLimit /\ skipped = 0
      BY <1>2, <1>5 DEF WithinLimits
    <3>2. lines' + Cardinality(BannerLines') <= lines + Cardinality(BannerLines)
      BY <1>6, <1>7, <1>14
    <3>3. lines' + Cardinality(BannerLines') < LineLimit
      BY <1>6, <1>7, <1>14, <3>1, <3>2
    <3>4. stage = "banner" =>
             Filler' = {} /\ noise < LineLimit /\ lines' + Cardinality(BannerLines') <= noise
      <4>1. stage = "banner" =>
               Filler = {} /\ noise < LineLimit /\ lines + Cardinality(BannerLines) <= noise
        BY <1>2, <1>5 DEF WithinLimits
      <4> QED BY <1>6, <1>7, <1>14, <3>2, <4>1
    <3> QED BY <1>2, <1>11, <1>14, <3>1, <3>3, <3>4 DEF WithinLimits
  <2> QED BY <1>2, <1>5, <1>9, <1>10, <1>14, <2>2, <2>3, <2>4 DEF InStep
<1> QED BY <1>1, <1>12, <1>13, <1>14 DEF ReadsLine, h

\* When nothing is under way and the server waits, nobody waits for it.
LEMMA TalkGivesUp ==
    ASSUME TypeInv, TalkInv, GivesUp
    PROVE  TalkInv'
<1>1. /\ pc # "closed" /\ toClient = <<>> /\ kind' = kind /\ server' = server /\ pc' = "closed"
      /\ cause' = (cause \/ stage # "wait" \/ toServer # <<>>)
  BY DEF GivesUp, Finish
<1>2. Excused' = Excused
  BY <1>1, ServerSame
<1>3. SUFFICES ASSUME ~cause', ~Excused PROVE FALSE
  BY <1>2 DEF TalkInv
<1>4. ~cause /\ stage = "wait" /\ toServer = <<>> /\ Said
  BY <1>1, <1>3 DEF TalkInv, InStep
<1>5. Talk = {}
  <2>1. DOMAIN toClient = {}
    BY <1>1
  <2> QED BY <2>1 DEF Talk, Words
<1>6. \A x : ~Pending(x)
  <2>1. DOMAIN toServer = {}
    BY <1>4
  <2> QED BY <2>1 DEF Pending
<1>7. server.follows => Guess # {}
  BY DEF Guess
<1> QED BY <1>1, <1>4, <1>5, <1>6, <1>7 DEF Said, TypeInv, Exchanges

LEMMA TalkHolds == Spec => []TalkInv
<1>1. Init => TalkInv
  <2> SUFFICES ASSUME Init PROVE outcome # "error" /\ InStep
    BY DEF TalkInv
  <2>1. /\ DOMAIN toClient = {} /\ DOMAIN toServer = {} /\ pc = "banner" /\ stage = "banner"
        /\ outcome = "none" /\ skipped = 0 /\ lines = 0 /\ noise = 0
    BY DEF Init
  <2>2. Talk = {} /\ Words = {} /\ Filler = {} /\ BannerLines = {} /\ \A x : ~Pending(x)
    BY <2>1 DEF Talk, Words, Filler, BannerLines, At, Pending
  <2>3. Said /\ InOrder /\ Asking
    BY <2>1, <2>2 DEF Said, InOrder, Asking, InTurn
  <2>4. WithinLimits
    <3>1. Cardinality(BannerLines) = 0
      BY <2>2, FS_EmptySet
    <3> QED BY <2>1, <2>2, <3>1, Limits DEF WithinLimits
  <2> QED BY <2>1, <2>3, <2>4 DEF InStep
<1>2. TypeInv /\ TalkInv /\ [Next]_vars => TalkInv'
  <2> SUFFICES ASSUME TypeInv, TalkInv, [Next]_vars PROVE TalkInv'
    OBVIOUS
  <2>1. CASE UNCHANGED vars
    <3>1. /\ UNCHANGED <<kind, server, pc, skipped, lines, outcome, cause, toServer, toClient, stage,
                         noise>>
      BY <2>1 DEF vars, scanner, peer
    <3>2. /\ Talk' = Talk /\ Words' = Words /\ BannerLines' = BannerLines /\ Filler' = Filler
          /\ (InTurn' <=> InTurn) /\ \A x : Pending(x)' <=> Pending(x)
      BY <3>1 DEF Talk, Words, BannerLines, Filler, At, InTurn, Pending
    <3>3. /\ Excused' = Excused /\ Guess' = Guess /\ GuessedRight' = GuessedRight
          /\ Guessed("GROUP")' = Guessed("GROUP") /\ Guessed("REPLY")' = Guessed("REPLY")
      BY <3>1, ServerSame
    <3>4. Said => Said'
      BY <3>1, <3>2, <3>3 DEF Said
    <3>5. InOrder => InOrder'
      BY <3>1, <3>2 DEF InOrder
    <3>6. Asking => Asking'
      BY <3>1, <3>2, <3>3 DEF Asking
    <3>7. WithinLimits => WithinLimits'
      BY <3>1, <3>2 DEF WithinLimits
    <3>8. InStep => InStep'
      BY <3>1, <3>4, <3>5, <3>6, <3>7 DEF InStep
    <3> QED BY <3>1, <3>3, <3>8 DEF TalkInv
  <2> QED BY <2>1, TalkRead, TalkLine, TalkGivesUp, TalkServer DEF Next, Scanner
<1> QED BY <1>1, <1>2, TypeHolds, PTL DEF Spec

\* An error is explained by something the server did or cannot do: the scanner
\* and a well-behaved server never lose step and wait for each other, whatever
\* the limits (read_message, exchange_banners, _run_key_exchange).
THEOREM FailuresAreExplained == Spec => []FailureHasCause
<1>1. TalkInv => FailureHasCause
  BY DEF TalkInv, Excused, FailureHasCause
<1> QED BY <1>1, TalkHolds, PTL
=============================================================================
