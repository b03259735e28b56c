----------------------------- MODULE Inventory -----------------------------
(***************************************************************************)
(* Targets, from the command line and from inventory files (targets.py). A *)
(* specification is [form, host, port]: form is "name", "address" for a    *)
(* bare IPv6 address, which has no port of its own, "bracketed", or        *)
(* "broken"; host is a record [name, lower], since names are compared in   *)
(* lower case; port is a number, 0 for none and -1 for one that does not   *)
(* parse. A line of a file is [spec, options, unknown]: the options that   *)
(* it sets, and whether it has a name=value that is no option. A blank     *)
(* line or a comment is not a line.                                        *)
(***************************************************************************)
EXTENDS Integers, Sequences, SequencesExt, Filters

Modes == {"none", "key", "password", "any"}

Bad == -1
PortRange == 1..65535

\* _split_host_port: the port in the specification, or the default.
PortOf(spec, default) ==
    IF spec.form = "address" \/ spec.port = 0 THEN default ELSE spec.port

\* parse_target
Parses(spec, default) ==
    /\ spec.form # "broken"
    /\ spec.host.name # ""
    /\ PortOf(spec, default) \in PortRange

AsTarget(spec, default, credentials, label) ==
    [host |-> spec.host, port |-> PortOf(spec, default), credentials |-> credentials, label |-> label]

\* _credentials_from: each field from the line, or else the command line's.
Inherited(options, defaults) ==
    [field \in DOMAIN defaults |->
        IF field \in DOMAIN options /\ options[field] # "" THEN options[field] ELSE defaults[field]]

DefaultPort(line, default) == IF "port" \in DOMAIN line.options THEN line.options.port ELSE default

\* A line of read_target_file is taken or reported.
Taken(line, default) ==
    /\ ~line.unknown
    /\ "auth" \in DOMAIN line.options => line.options.auth \in Modes
    /\ "port" \in DOMAIN line.options => line.options.port # Bad
    /\ Parses(line.spec, DefaultPort(line, default))

LineTarget(line, default, defaults) ==
    AsTarget(line.spec, DefaultPort(line, default), Inherited(line.options, defaults),
             IF "label" \in DOMAIN line.options THEN line.options.label ELSE "")

\* What is given, in the order it is read: the specifications, then the lines.
FileTargets(file, default, defaults) ==
    LET good == Kept(file.lines, {i \in DOMAIN file.lines : Taken(file.lines[i], default)})
    IN [i \in DOMAIN good |-> LineTarget(good[i], default, defaults)]

SameServer(a, b) == a.host.lower = b.host.lower /\ a.port = b.port

\* Mutant: the host decides, and not the port.
UniqueHosts(targets) ==
    Kept(targets, {i \in DOMAIN targets :
                      \A j \in 1..i - 1 : targets[j].host.lower # targets[i].host.lower})

\* Of a server that is named twice the first is kept.
Unique(targets) ==
    Kept(targets, {i \in DOMAIN targets : \A j \in 1..i - 1 : ~SameServer(targets[j], targets[i])})

\* build_targets, when every file can be opened.
BuildTargets(specs, files, default, defaults) ==
    LET good == Kept(specs, {i \in DOMAIN specs : Parses(specs[i], default)})
    IN Unique([i \in DOMAIN good |-> AsTarget(good[i], default, defaults, "")]
              \o FlattenSeq([i \in DOMAIN files |-> FileTargets(files[i], default, defaults)]))
=============================================================================
