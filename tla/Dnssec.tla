------------------------------- MODULE Dnssec -------------------------------
(***************************************************************************)
(* Whether a name's records are authenticated to the root key (dnssec.py   *)
(* and resolver.py, as dns.py uses them for SSHFP). A name is its labels,  *)
(* the root's first, so that a zone is a prefix of what it holds; a key is *)
(* <<zone, number>>. What comes back for a query is the time it was signed *)
(* at and the view of the zone it was taken from, or nothing: a resolver   *)
(* may answer out of its cache, and inside a network from another zone     *)
(* with keys of its own. Which of them it is the code cannot choose, it    *)
(* can only tell from the signatures.                                      *)
(*                                                                         *)
(* A domain is the delegation of one host:                                 *)
(*   host, zone   its name and the zone that holds it                      *)
(*   rolls        zone -> when its second key replaces the first           *)
(*   life, now    how long a signature is valid, and what time it is       *)
(***************************************************************************)
EXTENDS Integers, Sequences, SequencesExt

Root == <<>>

MaxZones == 12

Parent(zone) == SubSeq(zone, 1, Len(zone) - 1)

-----------------------------------------------------------------------------
(* What the zones publish                                                  *)

\* The new key is published first and signs one moment later, when the parent
\* has it too. The root's keys are the built-in anchors and do not change.
KeysAt(domain, zone, at) ==
    LET rolled == IF zone \in DOMAIN domain.rolls THEN domain.rolls[zone] ELSE at + 1
    IN {<<zone, n>> : n \in (IF at <= rolled THEN {1} ELSE {}) \cup (IF at >= rolled THEN {2} ELSE {})}

SigningKey(domain, zone, at) ==
    <<zone, IF zone \in DOMAIN domain.rolls /\ at > domain.rolls[zone] THEN 2 ELSE 1>>

InnerKey(zone) == <<zone, 3>>

Signed(domain, zone, key, owner, set, at) ==
    [owner |-> owner, set |-> set, signer |-> zone,
     signatures |-> <<[key |-> key, from |-> at, until |-> at + domain.life]>>]

\* Where an alias of the host leads.
Beside(domain) == Append(Parent(domain.zone), "beside")
AliasOf(domain) == Append(Beside(domain), "host")

\* An answer out of another view is one that differs from the public one.
IsDomain(domain) ==
    /\ domain.zone \in Seq(STRING) /\ domain.host # AliasOf(domain)
    /\ domain.now \in Nat /\ domain.life \in Nat
    /\ \A walk \in domain.walks : \A query \in DOMAIN walk :
          /\ walk[query].at \in Nat
          /\ walk[query].view \in {"public", "none", "inner", "alias"}
          /\ walk[query].view = "inner" =>
                query.type = "SSHFP" \/ query = [name |-> domain.zone, type |-> "DNSKEY"]
          /\ walk[query].view = "alias" => query.type = "SSHFP"

Nothing == [owner |-> Root, set |-> {}, signer |-> Root, signatures |-> <<>>]

\* The answer to a query out of one view, signed at one time. An alias answers
\* with the records of another name, which the zone beside it signs.
Published(domain, query, how) ==
    LET zone == query.name
        inner == how.view = "inner" /\ (query.type = "SSHFP" \/ zone = domain.zone)
        signing(z) == IF inner THEN InnerKey(z) ELSE SigningKey(domain, z, how.at)
    IN IF how.view = "none" THEN Nothing
       ELSE CASE query.type = "SSHFP" /\ how.view = "alias" ->
                   Signed(domain, Beside(domain), <<Beside(domain), 1>>, AliasOf(domain), {"alias"}, how.at)
              [] query.type = "SSHFP" /\ how.view # "alias" ->
                   Signed(domain, domain.zone, signing(domain.zone), domain.host, {how.view}, how.at)
              [] query.type = "DS" ->
                   Signed(domain, Parent(zone), SigningKey(domain, Parent(zone), how.at), zone,
                          {SigningKey(domain, zone, how.at)}, how.at)
              [] query.type = "DNSKEY" ->
                   Signed(domain, zone, signing(zone), zone,
                          IF inner THEN {InnerKey(zone)} ELSE KeysAt(domain, zone, how.at), how.at)

-----------------------------------------------------------------------------
(* Validation                                                              *)

InForce(signature, now) == signature.from <= now /\ now <= signature.until

\* Mutant: when a signature was made does not matter.
VerifiesUndated(answer, keys, now) ==
    answer.signatures # <<>> /\ Head(answer.signatures).key \in keys

\* _verify_rrset, by the first signature that covers the type.
Verifies(answer, keys, now) ==
    /\ answer.signatures # <<>>
    /\ InForce(Head(answer.signatures), now)
    /\ Head(answer.signatures).key \in keys

\* _authenticated_keys: all of a zone's keys, once a key that is anchored has
\* signed them.
AuthenticatedKeys(answer, anchors, now) ==
    IF \E i \in DOMAIN answer.signatures :
          LET signature == answer.signatures[i]
          IN signature.key \in answer.set \cap anchors /\ InForce(signature, now)
    THEN answer.set ELSE {}

RootAnchors == {<<Root, 1>>}

\* What the query for a name brings on this walk; a walk says how the answers
\* to some queries came, all others being fresh.
Ask(domain, walk, name, type) ==
    LET query == [name |-> name, type |-> type]
    IN Published(domain, query,
                 IF query \in DOMAIN walk THEN walk[query] ELSE [view |-> "public", at |-> domain.now])

\* From the zone up, each parent being the signer of the DS records; the last
\* turn of the loop only sees that the root has been reached.
Upwards(domain, walk, zone) ==
    LET up[i \in 0..MaxZones - 1] ==
            IF i = 0 THEN zone
            ELSE LET below == up[i - 1]
                 IN IF below = Root THEN Root ELSE Ask(domain, walk, below, "DS").signer
    IN up

\* The keys of a zone, given those of its parent.
KeysBelow(domain, walk, zone, keys) ==
    LET asked(type) == Ask(domain, walk, zone, type)
    IN IF Verifies(asked("DS"), keys, domain.now)
       THEN AuthenticatedKeys(asked("DNSKEY"), asked("DS").set, domain.now) ELSE {}

\* Then from the root, which is depth zones up, down.
Downwards(domain, walk, up, depth) ==
    LET keys[k \in 0..depth] ==
            IF k = 0
            THEN AuthenticatedKeys(Ask(domain, walk, Root, "DNSKEY"), RootAnchors, domain.now)
            ELSE KeysBelow(domain, walk, up[depth - k], keys[k - 1])
    IN keys

\* _authenticated_zone_keys
ZoneKeys(domain, walk, zone) ==
    LET up == Upwards(domain, walk, zone)
        reached == {i \in 0..MaxZones - 1 : up[i] = Root}
    IN IF reached = {} THEN {}
       ELSE Downwards(domain, walk, up, Min(reached))[Min(reached)]

\* _in_bailiwick
InBailiwick(signer, owner) == IsPrefix(signer, owner)

\* validate_records: any gap is a no.
Validated(domain, walk) ==
    LET answer == Ask(domain, walk, domain.host, "SSHFP")
    IN /\ answer.signatures # <<>>
       /\ answer.owner = domain.host
       /\ InBailiwick(answer.signer, domain.host)
       /\ Verifies(answer, ZoneKeys(domain, walk, answer.signer), domain.now)
=============================================================================
