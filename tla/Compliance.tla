----------------------------- MODULE Compliance -----------------------------
(***************************************************************************)
(* The security strength of a server, and what it is measured against      *)
(* (compliance.py). A profile is a record: kind ("standard" or "local"),   *)
(* rules (class -> [allow, disallow, unlessStrict], each a set of names),  *)
(* minStrength, minKeyBits (family -> bits), strict, postQuantum, forbids  *)
(* (the local categories).                                                 *)
(***************************************************************************)
EXTENDS Assessment

\* _key_strength: by the modulus for RSA and DSA, by the entry for the rest.
KeyStrength(policy, key) ==
    IF key.error \/ key.bits <= 0 THEN None
    ELSE LET entry == Lookup(policy, "host_key", key.algorithm)
         IN IF key.family \in {"rsa", "dsa"} \/ entry.bits = None
            THEN StrengthForModulus(policy, key.bits) ELSE entry.bits

\* What bounds each class: the algorithms whose strength is recorded, the keys
\* that were read, and the group that was negotiated for them.
Strengths(policy, facts, class) ==
    ({Lookup(policy, class, n).bits : n \in ScoredNames(policy, facts, class)}
     \cup (IF class = "host_key" THEN {KeyStrength(policy, k) : k \in facts.keys} ELSE {})
     \cup (IF class = "kex" THEN {StrengthForModulus(policy, k.group) : k \in facts.keys} ELSE {}))
    \ {None}

\* compute_security_strength: the weakest thing on offer, or None.
EffectiveStrength(policy, facts) ==
    LET all == UNION {Strengths(policy, facts, class) : class \in DOMAIN facts.offers}
    IN IF all = {} THEN None ELSE Min(all)

\* What a policy has to meet for strengths to be compared: each that is recorded,
\* and each that a profile asks for, is a number of bits, or there is none.
StrengthsAreNumbers(policy) ==
    /\ DOMAIN policy.weights \subseteq DOMAIN policy.entries
    /\ \A class \in DOMAIN policy.entries :
          /\ \A name \in DOMAIN policy.entries[class] :
                policy.entries[class][name].bits \in Nat \cup {None}
          /\ DOMAIN policy.patterns[class] \subseteq Nat
          /\ \A i \in DOMAIN policy.patterns[class] : "bits" \in DOMAIN policy.patterns[class][i].entry
    /\ DOMAIN policy.modulus \subseteq Nat
    /\ \A i \in DOMAIN policy.modulus : policy.modulus[i].strength \in Nat
    /\ \A profile \in Range(policy.profiles) \cup Range(policy.editions) :
          profile.minStrength \in Nat \cup {None}

-----------------------------------------------------------------------------
(* Violations                                                              *)

\* _check_algorithm: excluded without strict key exchange, forbidden, or not
\* on a closed list.
Breaks(rule, name, strict) ==
    \/ ~strict /\ name \in rule.unlessStrict
    \/ name \in rule.disallow
    \/ rule.allow # {} /\ name \notin rule.allow

\* _check_class_rules; a marker in an algorithm list is not an algorithm.
ClassViolations(policy, profile, facts) ==
    UNION {{n \in facts.offers[class] :
               /\ "protocol-marker" \notin Lookup(policy, class, n).tags
               /\ Breaks(profile.rules[class], n, StrictKex(facts))} :
           class \in DOMAIN profile.rules}

TooWeak(policy, profile, facts) ==
    /\ profile.minStrength # None
    /\ EffectiveStrength(policy, facts) # None
    /\ EffectiveStrength(policy, facts) < profile.minStrength

KeyViolations(profile, facts) ==
    {k.algorithm : k \in {h \in facts.keys :
        /\ ~h.error /\ h.bits > 0
        /\ h.family \in DOMAIN profile.minKeyBits
        /\ h.bits < profile.minKeyBits[h.family]}}

\* _check_properties
LacksProperty(policy, profile, facts) ==
    \/ profile.strict /\ ~StrictKex(facts)
    \/ profile.postQuantum /\ PostQuantumStatus(policy, facts) = "not_ready"

LocalViolations(policy, profile, facts) ==
    {class \in DOMAIN facts.offers : Categories(policy, facts, class) \cap profile.forbids # {}}

Violated(policy, profile, facts) ==
    IF profile.kind = "local" THEN LocalViolations(policy, profile, facts) # {}
    ELSE \/ ClassViolations(policy, profile, facts) # {}
         \/ TooWeak(policy, profile, facts)
         \/ KeyViolations(profile, facts) # {}
         \/ LacksProperty(policy, profile, facts)

-----------------------------------------------------------------------------
(* What was not tested                                                     *)

HasUnknown(policy, facts, class) == "unknown" \in Categories(policy, facts, class)

\* Mutant: an unrecognised name is no obstacle.
UnverifiedKeysOnly(policy, profile, facts) ==
    \/ DOMAIN profile.minKeyBits # {} /\ ~\E k \in facts.keys : ~k.error /\ k.bits > 0
    \/ profile.minStrength # None /\ EffectiveStrength(policy, facts) = None

\* _unverified. One inspected key settles the sizes of all; a closed list
\* judges a name nobody has heard of, an open one cannot.
Unverified(policy, profile, facts) ==
    \/ DOMAIN profile.minKeyBits # {} /\ ~\E k \in facts.keys : ~k.error /\ k.bits > 0
    \/ profile.minStrength # None /\ EffectiveStrength(policy, facts) = None
    \/ profile.postQuantum /\ PostQuantumStatus(policy, facts) = "unknown"
    \/ \E class \in DOMAIN profile.rules :
          /\ profile.rules[class].allow = {}
          /\ profile.rules[class].disallow \cup profile.rules[class].unlessStrict # {}
          /\ HasUnknown(policy, facts, class)
    \/ profile.kind = "local" /\ \E class \in DOMAIN facts.offers : HasUnknown(policy, facts, class)

Status(policy, profile, facts) ==
    IF Violated(policy, profile, facts) THEN "fail"
    ELSE IF Unverified(policy, profile, facts) THEN "not_assessed" ELSE "pass"

\* evaluate_profiles. With no selection, or an empty one, what is in force;
\* with one, exactly what was asked for and exists, under the name it was
\* asked for by.
Selected(policy, only) ==
    IF only = {} THEN DOMAIN policy.profiles
    ELSE {selector \in only : Resolvable(policy, selector)}

ProfileFor(policy, selector, only) ==
    IF only = {} THEN policy.profiles[selector] ELSE ResolveProfile(policy, selector)

EvaluateProfiles(policy, facts, only) ==
    [selector \in Selected(policy, only) |-> Status(policy, ProfileFor(policy, selector, only), facts)]
=============================================================================
