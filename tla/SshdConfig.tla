----------------------------- MODULE SshdConfig -----------------------------
(***************************************************************************)
(* The authenticated audit of a server (sshd_config.py): the script that   *)
(* is run there over one ssh session, the transcript that comes back, and  *)
(* what is read out of it. A machine is what the script finds:             *)
(*   sshd, contexts   whether 'sshd -T' runs, and whether it takes -C      *)
(*   directives       its global configuration, <<name, value>> pairs      *)
(*   blocks           the Match blocks: [line, form, criteria, sets]; form *)
(*                    is "plain", "negated" or "all", a criterion is       *)
(*                    [by, names], sets a function from directives         *)
(*   groups           group -> [members, primary], two sequences of users  *)
(*   own, nobody      the account of the audit; whether nobody exists      *)
(*   accounts         [user, login, home]                                  *)
(*   templates        AuthorizedKeysFile: user -> path, one for each path  *)
(*   files            path -> [seen, readable, keys], what exists; seen is *)
(*                    whether the account of the audit can tell that it    *)
(*                    does, which takes the right to enter the directory   *)
(*   private          private keys in the homes of accounts that can log   *)
(*                    in: [user, path, stored]                             *)
(*   package          [read, names], its changelog                         *)
(* A line of the transcript is a tuple that begins with its tag.           *)
(***************************************************************************)
EXTENDS Integers, Sequences, SequencesExt

IsSeq(s) == s \in Seq(Range(s))

\* The lists of a machine are lists, and neither a directive nor the header of
\* a Match block is a line the script marks its sections with.
IsMachine(machine) ==
    /\ IsSeq(machine.directives) /\ IsSeq(machine.blocks) /\ IsSeq(machine.accounts)
    /\ IsSeq(machine.templates) /\ IsSeq(machine.private) /\ IsSeq(machine.package.names)
    /\ \A path \in DOMAIN machine.files : IsSeq(machine.files[path].keys)
    /\ \A i \in DOMAIN machine.directives : machine.directives[i][1] # "section"
    /\ \A i \in DOMAIN machine.blocks : machine.blocks[i].line # "section"

-----------------------------------------------------------------------------
(* What sshd does with Match blocks. A connection is                       *)
(* [user, address, host, localport].                                       *)

\* The criteria whose value is that of the connection.
ByValue == {"address", "host", "localport"}

Meets(machine, c, connection) ==
    CASE c.by = "user" -> \E i \in DOMAIN c.names : c.names[i] = connection.user
      [] c.by = "group" -> \E i \in DOMAIN c.names :
            /\ c.names[i] \in DOMAIN machine.groups
            /\ LET g == machine.groups[c.names[i]]
               IN \E j \in DOMAIN (g.members \o g.primary) : (g.members \o g.primary)[j] = connection.user
      [] c.by \in ByValue -> \E i \in DOMAIN c.names : c.names[i] = connection[c.by]
      [] OTHER -> FALSE

Applies(machine, block, connection) ==
    LET meets == \A i \in DOMAIN block.criteria : Meets(machine, block.criteria[i], connection)
    IN IF block.form = "negated" THEN ~meets ELSE meets

\* The first block that applies and sets a directive decides.
Given(machine, connection) ==
    LET deciding(name) ==
            {i \in DOMAIN machine.blocks : /\ Applies(machine, machine.blocks[i], connection)
                                           /\ name \in DOMAIN machine.blocks[i].sets}
    IN [i \in DOMAIN machine.directives |->
           LET name == machine.directives[i][1]
           IN IF deciding(name) = {} THEN machine.directives[i]
              ELSE <<name, machine.blocks[Min(deciding(name))].sets[name]>>]

-----------------------------------------------------------------------------
(* The script                                                              *)

Unknown == "SSHCC-ERROR"

\* first_member: a secondary member, or else somebody whose primary group it
\* is, or else nothing, which is not a failure.
FirstMember(machine, group) ==
    LET all == machine.groups[group].members \o machine.groups[group].primary
    IN IF all = <<>> THEN "" ELSE Head(all)

\* The connection a block's criteria ask for: of a list the first value, and
\* for a group one of its members.
Claimed(machine, block) ==
    FoldLeft(LAMBDA claim, c :
        LET first == Head(c.names)
        IN CASE c.by = "user" -> [claim EXCEPT !.user = first]
             [] c.by = "group" /\ first \in DOMAIN machine.groups ->
                  [claim EXCEPT !.user = FirstMember(machine, first)]
             [] c.by \in ByValue -> [claim EXCEPT ![c.by] = first]
             [] OTHER -> [claim EXCEPT !.possible = FALSE],
        [user |-> "", address |-> "", host |-> "", localport |-> "", possible |-> TRUE], block.criteria)

\* sshd -C always wants a user.
Context(machine, block) ==
    LET claim == Claimed(machine, block)
    IN [user |-> IF claim.user # "" THEN claim.user
                 ELSE IF machine.nobody THEN "nobody" ELSE machine.own,
        address |-> claim.address, host |-> claim.host, localport |-> claim.localport]

\* MATCH-RESOLVED, for one block.
ResolvedLines(machine, block) ==
    LET context == Context(machine, block)
        given == Given(machine, context)
    IN IF block.form # "plain" \/ ~Claimed(machine, block).possible \/ ~machine.contexts
       THEN << <<"MANUAL", block.line>>, <<"REASON">> >>
       ELSE << <<"CONTEXT", context>>, <<"CRITERIA", block.line>> >>
            \o [i \in DOMAIN given |-> <<"SET", given[i][1], given[i][2]>>]

\* ACCOUNTS, for one account and one path. It is the account of the audit that
\* asks whether the file is there, even where sudo would read it; a file that
\* cannot be read and one that is empty look the same.
AccountLines(machine, account, template) ==
    LET path == template[account.user]
    IN IF \/ ~(account.login /\ account.home)
          \/ path \notin DOMAIN machine.files \/ ~machine.files[path].seen THEN <<>>
       ELSE LET file == machine.files[path]
            IN IF file.readable /\ file.keys # <<>>
               THEN << <<"ACCOUNT", account.user, path>> >>
                    \o [i \in DOMAIN file.keys |-> <<"KEY", file.keys[i]>>]
               ELSE << <<"UNREADABLE", account.user>> >>

SweepLines(machine) ==
    FlattenSeq([i \in DOMAIN machine.accounts |->
        FlattenSeq([j \in DOMAIN machine.templates |->
            AccountLines(machine, machine.accounts[i], machine.templates[j])])])

\* AUTHORIZED-KEYS: the same for the account of the audit alone.
OwnLines(machine) ==
    FlattenSeq([j \in DOMAIN machine.templates |->
        LET path == machine.templates[j][machine.own]
        IN IF path \in DOMAIN machine.files /\ machine.files[path].readable
           THEN [i \in DOMAIN machine.files[path].keys |-> <<"KEY", machine.files[path].keys[i]>>]
           ELSE <<>>])

ChangelogLines(machine) ==
    IF machine.package.read
    THEN << <<"SOURCE">> >> \o [i \in DOMAIN machine.package.names |-> <<"CVE", machine.package.names[i]>>]
    ELSE << <<"NONE">> >>

UserKeyLines(machine) ==
    FlattenSeq([i \in DOMAIN machine.private |->
        LET k == machine.private[i]
        IN << <<"KEYFILE", k.user, k.path>>, <<"ENCRYPTED", k.user, k.path, k.stored>> >>])

Section(name, lines) == << <<"section", name>> >> \o lines

\* Everything the script prints, in the order it prints it. FILES, MODULI and
\* PACKAGE are left out.
Transcript(machine) ==
    Section("SSHD-T", IF machine.sshd THEN machine.directives ELSE << <<Unknown>> >>)
    \o Section("MATCH-BLOCKS", [i \in DOMAIN machine.blocks |-> <<machine.blocks[i].line>>])
    \o Section("AUTHORIZED-KEYS", OwnLines(machine))
    \o Section("MATCH-RESOLVED",
               FlattenSeq([i \in DOMAIN machine.blocks |-> ResolvedLines(machine, machine.blocks[i])]))
    \o Section("CHANGELOG", ChangelogLines(machine))
    \o Section("ACCOUNTS", SweepLines(machine))
    \o Section("USER-KEYS", UserKeyLines(machine))
    \o Section("END", <<>>)

-----------------------------------------------------------------------------
(* Reading the transcript                                                  *)

\* _parse_sections: a section that did not arrive is an empty one.
SectionOf(lines, name) ==
    LET heads == {i \in DOMAIN lines : lines[i] = <<"section", name>>}
        after(i) == {j \in DOMAIN lines : j > i /\ lines[j][1] = "section"}
    IN IF heads = {} THEN <<>>
       ELSE LET i == Max(heads)
            IN SubSeq(lines, i + 1, IF after(i) = {} THEN Len(lines) ELSE Min(after(i)) - 1)

\* parse_effective_config, and EffectiveConfig.value: the first value counts.
Values(pairs) ==
    [name \in {pairs[i][1] : i \in DOMAIN pairs} |->
        pairs[Min({i \in DOMAIN pairs : pairs[i][1] = name})][2]]

\* _parse_match_contexts: what follows a CONTEXT or a MANUAL is about it, and
\* nobody asks in which order the blocks came.
MatchContexts(lines) ==
    LET starts == {i \in DOMAIN lines : lines[i][1] \in {"CONTEXT", "MANUAL"}}
        of(i, tag) == {j \in DOMAIN lines : /\ j > i /\ lines[j][1] = tag
                                            /\ \A k \in starts : ~(i < k /\ k <= j)}
    IN {[criteria |-> IF lines[i][1] = "MANUAL" THEN lines[i][2]
                      ELSE IF of(i, "CRITERIA") = {} THEN "" ELSE lines[Max(of(i, "CRITERIA"))][2],
         values |-> Values([j \in of(i, "SET") |-> <<lines[j][2], lines[j][3]>>]),
         failed |-> of(i, "REASON") # {}] : i \in starts}

\* MatchContext.resolved
IsResolved(context) == ~context.failed /\ context.values # <<>>

\* Mutant: an account whose file was met before is dropped.
JoinedWithoutNames(kept, a) ==
    IF \E i \in DOMAIN kept : kept[i].path = a.path THEN kept ELSE Append(kept, a)

\* A file that several accounts resolve to is kept once, with their names.
Joined(kept, a) ==
    LET same == {i \in DOMAIN kept : kept[i].path = a.path}
    IN IF same = {} THEN Append(kept, a)
       ELSE [kept EXCEPT ![Min(same)].sharers = @ \cup {a.user}]

\* _parse_accounts: accounts[i] is what the first i lines say, and the keys of
\* an account are the lines up to the next that is no key.
Accounts(lines) ==
    LET until(i) == Min({j \in DOMAIN lines : j > i /\ lines[j][1] # "KEY"} \cup {Len(lines) + 1})
        accounts[i \in 0..Len(lines)] ==
            IF i = 0 THEN <<>>
            ELSE IF lines[i][1] # "ACCOUNT" THEN accounts[i - 1]
            ELSE Joined(accounts[i - 1],
                        [user |-> lines[i][2], path |-> lines[i][3], sharers |-> {},
                         keys |-> [k \in 1..(until(i) - i - 1) |-> lines[i + k][2]]])
    IN accounts[Len(lines)]

Unreadable(lines) == {lines[i][2] : i \in {j \in DOMAIN lines : lines[j][1] = "UNREADABLE"}}

\* _parse_changelog
Changelog(lines) ==
    [read |-> \E i \in DOMAIN lines : lines[i][1] = "SOURCE",
     names |-> {lines[i][2] : i \in {j \in DOMAIN lines : lines[j][1] = "CVE"}}]

\* _parse_user_keys: a key nothing was said of is not known to be encrypted.
UserKeys(lines) ==
    LET said(l) == {i \in DOMAIN lines : lines[i][1] = "ENCRYPTED" /\ SubSeq(lines[i], 2, 3) = SubSeq(l, 2, 3)}
    IN {[user |-> lines[i][2], path |-> lines[i][3],
         stored |-> IF said(lines[i]) = {} THEN "unknown" ELSE lines[Max(said(lines[i]))][4]] :
            i \in {j \in DOMAIN lines : lines[j][1] = "KEYFILE"}}

NoConfig ==
    [state |-> "not_asked", values |-> <<>>, changelog |-> [read |-> FALSE, names |-> {}],
     blocks |-> {}, matched |-> {}, accounts |-> <<>>, own |-> <<>>, unreadable |-> {},
     userKeys |-> {}]

FailedConfig == [NoConfig EXCEPT !.state = "error"]

\* _read_sections. Whether the transcript came to its end is not asked.
ReadSections(lines) ==
    LET global == SectionOf(lines, "SSHD-T")
        sweep == SectionOf(lines, "ACCOUNTS")
        mine == SectionOf(lines, "AUTHORIZED-KEYS")
    IN IF global = <<>> \/ \E i \in DOMAIN global : global[i][1] = Unknown THEN FailedConfig
       ELSE [state |-> "read",
             values |-> Values(global),
             changelog |-> Changelog(SectionOf(lines, "CHANGELOG")),
             blocks |-> {SectionOf(lines, "MATCH-BLOCKS")[i][1] : i \in DOMAIN SectionOf(lines, "MATCH-BLOCKS")},
             matched |-> MatchContexts(SectionOf(lines, "MATCH-RESOLVED")),
             own |-> [i \in DOMAIN mine |-> mine[i][2]],
             accounts |-> Accounts(sweep),
             unreadable |-> Unreadable(sweep),
             userKeys |-> UserKeys(SectionOf(lines, "USER-KEYS"))]

\* fetch_effective_config gives up before it calls ssh: there is none, or the
\* password that was asked for cannot be had. Credentials are [mode, source],
\* source being "none", "unreadable", "empty" or "good".
NotTried(credentials, ssh) ==
    \/ ~ssh
    \/ credentials.source = "unreadable"
    \/ credentials.mode = "password" /\ credentials.source \in {"none", "empty"}
=============================================================================
