------------------------------ MODULE Sessions ------------------------------
(***************************************************************************)
(* One connection of the scanner to one server, as ssh_protocol/ makes it: *)
(* to read the KEXINIT (probe_server), to read one host key                *)
(* (fetch_host_key), or to ask for the authentication methods              *)
(* (probe_auth_methods). The server is a second actor: it follows RFC      *)
(* 4253, may guess the key exchange (first_kex_packet_follows), may support *)
(* strict key exchange, and may send what it likes in between.             *)
(*                                                                         *)
(* A packet is its type, the number it was sealed with and whether it was  *)
(* encrypted; bytes, primitives and the contents of name-lists are left    *)
(* out. The scanner does not verify MACs, so a packet read under the wrong *)
(* number would not be noticed: it would just be noise.                    *)
(***************************************************************************)
EXTENDS Integers, Sequences

CONSTANTS
    Kinds,       \* which of AllKinds are opened
    Servers,     \* the servers met, a subset of ServerRecords
    LineLimit,   \* MAX_BANNER_LINES
    ReadLimit,   \* packets one read_message looks at
    AuthLimit,   \* messages _read_auth_response looks at
    NoiseLimit   \* bound on what a server sends beside the protocol

AllKinds == {"kexinit", "host_key", "auth"}

\* What matters of a server: whether it does strict key exchange, whether it
\* sends a guessed packet and whether the guess agrees with the scanner's
\* proposal, the family of key exchange the scanner has chosen for it, what a
\* session could use, and whether it still offers the host key asked for.
ServerRecords ==
    [strict : BOOLEAN,
     follows : BOOLEAN,
     guess : {"right", "wrong"},
     kex : {"classical", "group_exchange", "post_quantum"},
     session : {"aead", "mac", "no_mac", "no_cipher"},
     offersKey : BOOLEAN]

ASSUME SessionsAssumption ==
    /\ Kinds \subseteq AllKinds
    /\ Servers \subseteq ServerRecords
    /\ {LineLimit, ReadLimit, AuthLimit} \subseteq Nat \ {0}
    /\ NoiseLimit \in Nat

VARIABLES
    kind, server,
    pc,          \* what the scanner waits for
    keyed,       \* enable_encryption was called
    sendSeq, recvSeq,   \* SSHTransport._send_seq, _recv_seq
    skipped,     \* packets the current read_message has passed over
    lines,       \* lines before the banner
    replies,     \* messages _read_auth_response has read
    taken,       \* who sent the packet that was read as the reply
    outcome,     \* what the probe returns
    cause,       \* history: something the server or the network did explains an error
    toServer, toClient, \* what is under way
    stage,       \* what the server does next
    strictOn,    \* both sides asked for strict key exchange
    serverKeyed, serverSend, serverRecv,
    noise        \* what the server has sent beside the protocol

scanner == <<pc, keyed, sendSeq, recvSeq, skipped, lines, replies, taken, outcome>>
peer == <<stage, strictOn, serverKeyed, serverSend, serverRecv, noise>>
vars == <<kind, server, scanner, cause, toServer, toClient, peer>>

\* The guess counts only when both sides list the same algorithms first.
GuessedRight == server.guess = "right"

\* What read_message is called with; "any" is no expectation.
Expected ==
    [kexinit |-> "KEXINIT", discard |-> "any", group |-> "GROUP", reply |-> "REPLY",
     newkeys |-> "NEWKEYS", accept |-> "SERVICE_ACCEPT", auth |-> "any"]

Fillers == {"IGNORE", "DEBUG", "UNIMPLEMENTED"}

Init ==
    /\ kind \in Kinds
    /\ server \in Servers
    /\ pc = "banner"
    /\ keyed = FALSE
    /\ sendSeq = 0 /\ recvSeq = 0
    /\ skipped = 0 /\ lines = 0 /\ replies = 0
    /\ taken = "nobody"
    /\ outcome = "none"
    /\ cause = FALSE
    /\ toServer = <<>> /\ toClient = <<>>
    /\ stage = "banner"
    /\ strictOn = FALSE /\ serverKeyed = FALSE
    /\ serverSend = 0 /\ serverRecv = 0
    /\ noise = 0

-----------------------------------------------------------------------------
(* The scanner                                                             *)

\* send_packet: each packet takes the next number, whatever the mode.
SendAs(types, enc) ==
    /\ toServer' = toServer \o
         [i \in DOMAIN types |-> [type |-> types[i], seq |-> sendSeq + i - 1, keyed |-> enc]]
    /\ sendSeq' = sendSeq + Len(types)

\* The probe returns, and the with block closes the socket.
Finish(how) ==
    /\ pc' = "closed"
    /\ outcome' = how
    /\ UNCHANGED <<toServer, sendSeq, keyed>>

\* Go on to wait for something else, with these packets sent first; the
\* packets after NEWKEYS are encrypted.
AwaitKeyed(next, types, enc) ==
    /\ pc' = next
    /\ keyed' = enc
    /\ SendAs(types, enc)
    /\ UNCHANGED outcome

Await(next, types) == AwaitKeyed(next, types, keyed)

\* Mutant: the proposal of the authentication probe asks for strict exchange.
ProposalAlwaysStrict == <<"KEXINIT_strict">>

\* _build_client_kexinit: only fetch_host_key proposes strict key exchange,
\* and probe_server reads the server's KEXINIT without sending its own.
Proposal ==
    CASE kind = "host_key" -> <<"KEXINIT_strict">>
      [] kind = "auth" -> <<"KEXINIT">>
      [] kind = "kexinit" -> <<>>

\* A line of exchange_banners: the identification string, or one before it.
ReadLine ==
    /\ pc = "banner"
    /\ toClient # <<>>
    /\ toClient' = Tail(toClient)
    /\ \/ /\ Head(toClient).type = "BANNER"
          /\ Await("kexinit", Proposal)
          /\ UNCHANGED lines
       \/ /\ Head(toClient).type = "OLD_BANNER"
          /\ Finish("error")
          /\ UNCHANGED lines
       \/ /\ Head(toClient).type = "LINE"
          /\ IF lines + 1 = LineLimit THEN Finish("error") /\ UNCHANGED lines
             ELSE Await("banner", <<>>) /\ lines' = lines + 1
    /\ UNCHANGED <<kind, server, recvSeq, skipped, replies, taken, cause, peer>>

\* _run_key_exchange up to its first read; a session over a post-quantum
\* method is refused before anything is sent.
BeginExchange ==
    CASE kind = "auth" /\ server.kex = "post_quantum" -> Finish("error")
      [] server.kex = "group_exchange" -> Await("group", <<"GEX_REQUEST">>)
      [] OTHER -> Await("reply", <<"INIT">>)

\* _negotiate finds a cipher, and a MAC unless the cipher is an AEAD.
SessionPossible == server.session \in {"aead", "mac"}

\* Mutant: the guessed packet is left in the buffer.
KexinitWithoutDiscard ==
    CASE kind = "kexinit" -> Finish("kexinit")
      [] kind = "host_key" /\ server.offersKey -> BeginExchange
      [] kind = "auth" /\ SessionPossible -> BeginExchange
      [] OTHER -> Finish("error")

\* Mutant: a guess is discarded whether it was right or wrong.
KexinitDiscardsAll ==
    CASE kind = "kexinit" -> Finish("kexinit")
      [] kind = "host_key" /\ server.offersKey ->
           IF server.follows THEN Await("discard", <<>>) ELSE BeginExchange
      [] kind = "auth" /\ SessionPossible -> BeginExchange
      [] OTHER -> Finish("error")

\* What each probe does with the server's KEXINIT. Only fetch_host_key calls
\* _discard_wrong_guess; the authentication probe negotiates its ciphers.
GotKexinit ==
    CASE kind = "kexinit" -> Finish("kexinit")
      [] kind = "host_key" /\ server.offersKey ->
           IF server.follows /\ ~GuessedRight THEN Await("discard", <<>>) ELSE BeginExchange
      [] kind = "auth" /\ SessionPossible -> BeginExchange
      [] OTHER -> Finish("error")

\* _read_auth_response, one message.
GotAuth(m) ==
    CASE m.type = "USERAUTH_BANNER" /\ replies + 1 < AuthLimit -> Await("auth", <<>>)
      [] m.type = "USERAUTH_FAILURE" -> Finish("methods")
      [] m.type = "USERAUTH_SUCCESS" -> Finish("open_door")
      [] OTHER -> Finish("error")

\* read_message returns the message the probe waits for. A reply or a group
\* the primitives refuse is an error; fetch_host_key is done with its reply.
Advance(m) ==
    /\ CASE pc = "kexinit" -> GotKexinit
         [] pc = "discard" -> BeginExchange
         [] pc = "group" /\ m.sound -> Await("reply", <<"INIT">>)
         [] pc = "reply" /\ kind = "host_key" -> Finish("host_key")
         [] pc = "reply" /\ kind = "auth" /\ m.sound -> Await("newkeys", <<"NEWKEYS">>)
         [] pc = "newkeys" -> AwaitKeyed("accept", <<"SERVICE_REQUEST">>, TRUE)
         [] pc = "accept" -> Await("auth", <<"USERAUTH_REQUEST">>)
         [] pc = "auth" -> GotAuth(m)
         [] OTHER -> Finish("error")
    /\ taken' = IF pc = "reply" THEN m.by ELSE taken
    /\ replies' = IF pc = "auth" /\ pc' = "auth" THEN replies + 1 ELSE replies
    /\ skipped' = 0

\* Mutant: filler is skipped without being counted.
SkipUncounted ==
    /\ Await(pc, <<>>)
    /\ UNCHANGED skipped

\* A packet that read_message passes over: there may be ReadLimit of them.
Skip ==
    IF skipped + 1 = ReadLimit THEN Finish("error") /\ UNCHANGED skipped
    ELSE Await(pc, <<>>) /\ skipped' = skipped + 1

PassedOver == Fillers \cup {"EXT_INFO"}

\* read_packet and one turn of read_message. The number counts every packet,
\* the filler included.
ReadPacket ==
    /\ pc \in DOMAIN Expected
    /\ toClient # <<>>
    /\ toClient' = Tail(toClient)
    /\ recvSeq' = recvSeq + 1
    /\ LET m == Head(toClient)
           refused == m.type = "DISCONNECT" \/ Expected[pc] \notin {"any", m.type}
       IN \/ /\ m.type \in PassedOver
             /\ Skip
             /\ UNCHANGED <<taken, replies>>
          \/ /\ m.type \notin PassedOver
             /\ refused
             /\ Finish("error")
             /\ UNCHANGED <<taken, replies, skipped>>
          \/ /\ m.type \notin PassedOver
             /\ ~refused
             /\ Advance(m)
    /\ UNCHANGED <<kind, server, lines, cause, peer>>

\* recv times out, fails, or finds the connection closed. That is the server's
\* doing only while it has something to say; when it waits for the scanner too
\* the two have lost step.
GivesUp ==
    /\ pc # "closed"
    /\ toClient = <<>>
    /\ Finish("error")
    /\ cause' = (cause \/ stage # "wait" \/ toServer # <<>>)
    /\ UNCHANGED <<kind, server, recvSeq, skipped, lines, replies, taken, toClient, peer>>

-----------------------------------------------------------------------------
(* The server                                                              *)

Packet(type, by, sound, i, enc) ==
    [type |-> type, by |-> by, sound |-> sound, seq |-> serverSend + i, keyed |-> enc]

\* Packets take the server's numbers in order.
Says(types, sound) ==
    /\ toClient' = toClient \o
         [i \in DOMAIN types |-> Packet(types[i], "server", sound, i - 1, serverKeyed)]
    /\ serverSend' = serverSend + Len(types)

\* Lines before the banner, or the banner, of one protocol version or another.
ServerLine(type) ==
    /\ pc # "closed"
    /\ stage = "banner"
    /\ toClient' = Append(toClient, Packet(type, "server", TRUE, 0, FALSE))
    /\ stage' = IF type = "LINE" THEN "banner" ELSE "kexinit"
    /\ type = "LINE" => noise < NoiseLimit
    /\ noise' = IF type = "LINE" THEN noise + 1 ELSE noise
    /\ cause' = (cause \/ type = "OLD_BANNER" \/ noise' >= LineLimit)
    /\ UNCHANGED <<kind, server, scanner, toServer, strictOn, serverKeyed, serverSend, serverRecv>>

\* KEXINIT, and the guessed first packet of the exchange right behind it.
GuessedType == IF server.kex = "group_exchange" THEN "GROUP" ELSE "REPLY"

GuessBy == IF GuessedRight THEN "right_guess" ELSE "wrong_guess"

ServerKexinit ==
    /\ pc # "closed"
    /\ stage = "kexinit"
    /\ toClient' = toClient
         \o <<Packet("KEXINIT", "server", TRUE, 0, FALSE)>>
         \o IF server.follows
            THEN <<Packet(GuessedType, GuessBy, TRUE, 1, FALSE)>> ELSE <<>>
    /\ serverSend' = serverSend + IF server.follows THEN 2 ELSE 1
    /\ stage' = "wait"
    /\ UNCHANGED <<kind, server, scanner, cause, toServer, strictOn, serverKeyed, serverRecv, noise>>

\* The server's answer to one packet. A right guess was its first answer
\* already; after its NEWKEYS it encrypts, and numbers from 0 under strict key
\* exchange; sound is whether the primitives accept what it sends, and for the
\* authentication request whether it refuses "none".
Guessed(type) == server.follows /\ GuessedRight /\ type = GuessedType

Answer(type, sound) ==
    CASE type = "GEX_REQUEST" /\ ~Guessed("GROUP") -> <<"GROUP">>
      [] type = "INIT" -> IF Guessed("REPLY") THEN <<"NEWKEYS">> ELSE <<"REPLY", "NEWKEYS">>
      [] type = "SERVICE_REQUEST" -> <<"SERVICE_ACCEPT">>
      [] type = "USERAUTH_REQUEST" -> IF sound THEN <<"USERAUTH_FAILURE">> ELSE <<"USERAUTH_SUCCESS">>
      [] OTHER -> <<>>

ServerAnswers(sound) ==
    /\ pc # "closed"
    /\ stage = "wait"
    /\ toServer # <<>>
    /\ toServer' = Tail(toServer)
    /\ LET type == Head(toServer).type
           answer == Answer(type, sound)
       IN /\ toClient' = toClient \o
               [i \in DOMAIN answer |-> Packet(answer[i], "server", sound, i - 1, serverKeyed)]
          /\ serverSend' = IF type = "INIT" /\ strictOn THEN 0 ELSE serverSend + Len(answer)
          /\ serverRecv' = IF type = "NEWKEYS" /\ strictOn THEN 0 ELSE serverRecv + 1
          /\ serverKeyed' = (serverKeyed \/ type = "INIT")
          /\ strictOn' = (strictOn \/ (server.strict /\ type = "KEXINIT_strict"))
          /\ cause' = (cause \/ (~sound /\ type \in {"GEX_REQUEST", "INIT"}))
    /\ UNCHANGED <<kind, server, scanner, stage, noise>>

\* Anything else a server may send once it speaks packets: filler, its
\* extensions, a banner for the user, a message out of order, a disconnect.
Noise(type) ==
    /\ pc # "closed"
    /\ stage \in {"kexinit", "wait"}
    /\ noise < NoiseLimit
    /\ noise' = noise + 1
    /\ Says(<<type>>, TRUE)
    /\ cause' = (cause \/ type \notin PassedOver \/ noise' >= ReadLimit)
    /\ UNCHANGED <<kind, server, scanner, toServer, stage, strictOn, serverKeyed, serverRecv>>

-----------------------------------------------------------------------------
Scanner == ReadLine \/ ReadPacket \/ GivesUp

Server ==
    \/ \E type \in {"LINE", "BANNER", "OLD_BANNER"} : ServerLine(type)
    \/ ServerKexinit
    \/ \E sound \in BOOLEAN : ServerAnswers(sound)
    \/ \E type \in PassedOver \cup {"USERAUTH_BANNER", "OTHER", "DISCONNECT"} : Noise(type)

Next == Scanner \/ Server

\* The scanner runs until the socket is closed; the server owes nothing.
Spec == Init /\ [][Next]_vars /\ WF_vars(Scanner)

-----------------------------------------------------------------------------
(* Properties                                                              *)

\* Whatever is next to be read was sealed in the mode and with the number its
\* reader will use (send_packet, read_packet, enable_encryption): a sequence
\* number that strict key exchange resets on one side only, or a direction
\* that is encrypted one packet early, would turn the rest of the session into
\* noise, since the scanner checks no MAC.
SequenceAgree ==
    pc # "closed" =>
        /\ toClient # <<>> /\ pc # "banner" =>
             Head(toClient).keyed = keyed /\ (keyed => Head(toClient).seq = recvSeq)
        /\ toServer # <<>> /\ Head(toServer).keyed =>
             serverKeyed /\ Head(toServer).seq = serverRecv

\* The host key is read from the server's own reply, or from the guess the
\* server was right to make; never from a guess for another method, which
\* would be taken for the key (fetch_host_key, _discard_wrong_guess).
KeyIsReal == outcome = "host_key" => taken # "wrong_guess"

\* An error is explained by something the server did or cannot do: the scanner
\* and a well-behaved server never lose step and wait for each other. The one
\* exception is the guess that the authentication probe does not discard.
FailureHasCause ==
    outcome = "error" =>
        \/ cause
        \/ kind = "host_key" /\ ~server.offersKey
        \/ kind = "auth" /\ (~SessionPossible \/ server.kex = "post_quantum")
        \/ kind = "auth" /\ server.follows /\ ~GuessedRight

\* No server keeps one probe waiting for ever by talking: the lines before the
\* banner, the packets passed over in one read and the banners before the
\* authentication reply are each counted, so what a probe reads is bounded.
ReadsBounded ==
    recvSeq <= ReadLimit * CASE kind = "kexinit" -> 1
                             [] kind = "host_key" -> 4
                             [] kind = "auth" -> 5 + AuthLimit
=============================================================================
