----------------------------- MODULE MCSessions -----------------------------
(***************************************************************************)
(* The servers that Sessions is checked against: every family of key       *)
(* exchange with and without a guess, each of the sessions that can or     *)
(* cannot be opened, with and without strict key exchange.                 *)
(***************************************************************************)
EXTENDS Sessions

Plain ==
    [strict |-> TRUE, follows |-> FALSE, guess |-> "right", kex |-> "classical",
     session |-> "mac", offersKey |-> TRUE]

Guessing(k, g) == [Plain EXCEPT !.follows = TRUE, !.kex = k, !.guess = g]

MCServers ==
    {Plain, [Plain EXCEPT !.strict = FALSE, !.session = "aead"],
     [Plain EXCEPT !.kex = "group_exchange"], [Plain EXCEPT !.kex = "post_quantum"],
     [Plain EXCEPT !.session = "no_cipher"], [Plain EXCEPT !.session = "no_mac"],
     [Plain EXCEPT !.offersKey = FALSE]}
    \cup {Guessing(k, g) : k \in {"classical", "group_exchange"}, g \in {"right", "wrong"}}
=============================================================================
