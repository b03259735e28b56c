----------------------------- MODULE KnownHosts -----------------------------
(***************************************************************************)
(* known_hosts files and their comparison with the keys a server presents  *)
(* (known_hosts.py, _check_known_hosts in scanner.py). A line is a record: *)
(*   readable   whether the file it is in can be read                      *)
(*   marker     "", "revoked", "authority"                                 *)
(*   form       "plain", "hashed", or "bad" for a line that does not parse *)
(*   hosts      for a plain line, its patterns: [names, port, negated],    *)
(*              a glob being the set of names it matches; for a hashed     *)
(*              one, the single name and port it was computed from         *)
(*   type, key  the key type and the key                                   *)
(***************************************************************************)
EXTENDS Filters, Sequences, SequencesExt

\* load_known_hosts: every line of every file that can be read, in order.
Load(lines) == Kept(lines, {i \in DOMAIN lines : lines[i].readable /\ lines[i].form # "bad"})

\* A pattern with ! never matches, and never excludes what another matches.
MatchesHost(line, host, port) ==
    \E p \in line.hosts : ~p.negated /\ p.port = port /\ host \in p.names

LookupHosts(lines, host, port) ==
    Kept(lines, {i \in DOMAIN lines :
                    lines[i].marker # "authority" /\ MatchesHost(lines[i], host, port)})

\* Mutant: the line that comes first stays.
RecordedFirst(lines) ==
    {lines[i] : i \in {j \in DOMAIN lines :
        \A k \in DOMAIN lines : k < j => lines[k].key # lines[j].key}}

\* recorded: of two lines with one key, the later replaces the earlier.
Recorded(lines) ==
    {lines[i] : i \in {j \in DOMAIN lines :
        \A k \in DOMAIN lines : k > j => lines[k].key # lines[j].key}}

\* _check_known_hosts; presented is the set of [type, key] the server showed.
Compare(lines, presented) ==
    LET recorded == Recorded(lines)
        keys == {p.key : p \in presented}
    IN [found |-> Len(lines),
        revoked |-> {l.key : l \in {r \in recorded : r.marker = "revoked" /\ r.key \in keys}},
        matched |-> {l.key : l \in {r \in recorded : r.marker # "revoked" /\ r.key \in keys}},
        changed |-> {l.key : l \in {r \in recorded :
            r.marker # "revoked" /\ r.key \notin keys /\ \E p \in presented : p.type = r.type}}]
=============================================================================
