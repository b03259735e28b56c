----------------------------- MODULE MCCommand -----------------------------
(* Runs of the command line, a family for each thing that main decides.     *)
EXTENDS Command

Edition(current, content) ==
    [text |-> "good", named |-> TRUE, classes |-> {"kex"}, forbids |-> {}, current |-> current,
     content |-> content]

Document ==
    [exists |-> TRUE, text |-> "good", major |-> 1, categories |-> AllCategories,
     classes |-> Classes, judged |-> {"recommended", "weak"},
     weights |-> [kex |-> 25, cipher |-> 20],
     grades |-> <<[grade |-> "A", min |-> 90], [grade |-> "F", min |-> 0]>>,
     caps |-> <<[when |-> "any_weak_algorithm", max |-> "F"]>>,
     expects |-> {"equals"}, detections |-> {"good"},
     vulnerabilities |-> {"terrapin"}, advisories |-> {"old"},
     profiles |-> <<>>,
     directory |-> [bsi |-> [y24 |-> Edition(FALSE, "bsi 24"), y25 |-> Edition(TRUE, "bsi 25")],
                    ens |-> [y22 |-> Edition(FALSE, "ens 22")]],
     notNumbers |-> {}]

NoFile == [Document EXCEPT !.exists = FALSE]

Documents ==
    {Document, NoFile,
     [Document EXCEPT !.text = "invalid"], [Document EXCEPT !.text = "other"],
     [Document EXCEPT !.major = 2], [Document EXCEPT !.categories = {"weak"}],
     [Document EXCEPT !.judged = {"superb"}], [Document EXCEPT !.weights = [kex |-> 0]],
     [Document EXCEPT !.grades = <<>>],
     [Document EXCEPT !.caps = <<[when |-> "any_weak_algoritm", max |-> "F"]>>],
     [Document EXCEPT !.caps = <<[when |-> "any_weak_algorithm", max |-> "G"]>>],
     [Document EXCEPT !.expects = {"is"}], [Document EXCEPT !.detections = {"good", "bad"}],
     [Document EXCEPT !.notNumbers = {"grades"}],
     [Document EXCEPT !.directory.bsi.y24.current = TRUE],
     [Document EXCEPT !.directory.bsi.y25.current = FALSE],
     [Document EXCEPT !.directory.ens = [Bad |-> Edition(TRUE, "ens")]],
     [Document EXCEPT !.directory.ens = <<>>],
     [Document EXCEPT !.profiles = [ens |-> Edition(TRUE, "house")]],
     [Document EXCEPT !.profiles = [ens |-> [Edition(TRUE, "house") EXCEPT !.forbids = {"bad"}]]]}

Name(name) == [name |-> name, lower |-> IF name = "WEB" THEN "web" ELSE name]
Spec1(host, port) == [form |-> "name", host |-> Name(host), port |-> port]
Line(spec, options) == [spec |-> spec, options |-> options, unknown |-> FALSE]

Plain(id) ==
    [id |-> id, body |-> "own", open |-> FALSE, underscore |-> FALSE, imports |-> TRUE,
     fields |-> {"ID", "NAME", "SEVERITY", "DESCRIPTION", "check"}, severity |-> "low",
     affects |-> "server", kind |-> "check", needs |-> {}]
Builtin == [exists |-> TRUE, open |-> FALSE, builtin |-> TRUE,
            files |-> <<Plain("keys"), [Plain("accounts") EXCEPT !.open = TRUE],
                        [Plain("__init__") EXCEPT !.underscore = TRUE]>>]

NoConfig == [given |-> FALSE, document |-> NoFile]

Args ==
    [help |-> FALSE, invalid |-> FALSE, export |-> FALSE, config |-> NoConfig, wizard |-> FALSE,
     list |-> "none", formats |-> <<"console">>, output |-> FALSE, profiles |-> {}, required |-> {},
     failOn |-> "never", regression |-> FALSE, history |-> FALSE, historyReport |-> FALSE,
     compare |-> FALSE, specs |-> <<Spec1("web", 0)>>, port |-> 22, badNumbers |-> FALSE,
     credentials |-> [user |-> "me", auth |-> "any", key |-> ""]]

Baseline ==
    [outcome |-> "loaded",
     results |-> (<<"web", 22>> :> [grade |-> "A", score |-> 1, findings |-> {"x"},
                                    algorithms |-> {<<"kex", "a">>}, keys |-> [ed25519 |-> "e"]])]

World ==
    [candidates |-> <<NoFile, Document>>, terminal |-> TRUE, answers |-> <<>>, builtin |-> Builtin,
     pluginDirectories |-> <<>>, inventories |-> <<>>, baseline |-> Baseline,
     shipped |-> <<>>, exported |-> <<>>]

Of(args_, world_) == [args |-> args_, world |-> world_]

\* --export-policy, into a directory that has some of it.
Exports ==
    {Of([Args EXCEPT !.export = TRUE],
        [World EXCEPT !.shipped = <<<<"bsi", "y25">>, <<"ens", "y22">>>>, !.exported = there]) :
        there \in {<<>>, (<<"policy">> :> "edited"), (<<"bsi", "y25">> :> "shipped"),
                   (<<"ens", "y22">> :> "edited")}}

\* A policy of each kind, as the file that is named and as the first candidate.
Policies ==
    {Of([Args EXCEPT !.config = [given |-> TRUE, document |-> d], !.list = "profiles"], World) : d \in Documents}
    \cup {Of([Args EXCEPT !.list = "policy"], [World EXCEPT !.candidates = <<d, Document>>]) : d \in Documents}

External(open, files) == [exists |-> TRUE, open |-> open, builtin |-> FALSE, files |-> files]

PluginDirectories ==
    {Of([Args EXCEPT !.list = "plugins"], [World EXCEPT !.pluginDirectories = <<
         [External(FALSE, <<>>) EXCEPT !.exists = FALSE],
         External(open, <<[f EXCEPT !.body = "other"], [Plain("more") EXCEPT !.body = "other"]>>),
         External(FALSE, <<[Plain("more") EXCEPT !.body = "third"]>>)>>]) :
        open \in BOOLEAN,
        f \in {Plain("keys"), Plain("mine"), [Plain("mine") EXCEPT !.open = TRUE],
               [Plain("mine") EXCEPT !.needs = {"moon"}], [Plain("mine") EXCEPT !.imports = FALSE],
               [Plain("mine") EXCEPT !.kind = "odd"], [Plain("mine") EXCEPT !.fields = {"ID"}],
               [Plain("mine") EXCEPT !.severity = "odd"], [Plain("mine") EXCEPT !.affects = "odd"]}}

Specifications ==
    {Spec1("web", 0), Spec1("WEB", 22), Spec1("web", 2222), Spec1("", 0), Spec1("db", 70000),
     [Spec1("db", 0) EXCEPT !.form = "broken"], [Spec1("v6", 22) EXCEPT !.form = "address"]}

\* Inventories with the same server in several places and lines that do not
\* parse.
Inventories ==
    {Of([Args EXCEPT !.specs = specs, !.port = port, !.badNumbers = TRUE],
        [World EXCEPT !.inventories = <<[reads |-> "loaded", lines |-> lines]>>]) :
        specs \in {<<>>, <<Spec1("web", 0)>>}, port \in {22, 2222},
        lines \in {<<a, b>> : a \in {Line(s, o) : s \in Specifications,
                                       o \in {<<>>, [auth |-> "key"], [port |-> 2222, user |-> "you"]}},
                              b \in {Line(Spec1("web", 0), [auth |-> "none"]), Line(Spec1("WEB", 0), [auth |-> "magic"]),
                                     [Line(Spec1("db", 0), <<>>) EXCEPT !.unknown = TRUE]}}}
    \cup {Of([Args EXCEPT !.formats = formats],
             [World EXCEPT !.inventories = <<[reads |-> a, lines |-> <<>>], [reads |-> b, lines |-> <<>>]>>]) :
             formats \in {<<"json">>, <<"xml">>}, a, b \in {"refused", "raises"}}

Bsi == <<"bsi">>
Bsi25 == <<"bsi", "y25">>
Ens == <<"ens">>

\* The gates, with two servers.
Two == <<Spec1("web", 0), Spec1("db", 0)>>
Gated ==
    {Of([Args EXCEPT !.specs = Two, !.profiles = p, !.required = r], World) :
        p \in {{}, {Ens}, {Bsi25}, {<<"gone">>}}, r \in {{}, {Bsi}}}
    \cup {Of([Args EXCEPT !.profiles = {Ens}, !.required = {Bsi25}], World)}

\* The baseline, the history and the files.
Compared ==
    {Of([Args EXCEPT !.specs = Two, !.profiles = {Ens}, !.compare = TRUE, !.regression = regression,
                     !.failOn = failOn, !.formats = formats, !.output = output,
                     !.history = history, !.historyReport = TRUE],
        [World EXCEPT !.baseline.outcome = outcome]) :
        regression \in BOOLEAN, failOn \in {"never", "high"},
        outcome \in {"loaded", "refused", "raises"},
        formats \in {<<"console">>, <<"json", "html">>}, output \in BOOLEAN, history \in BOOLEAN}

Others ==
    {Of([Args EXCEPT !.help = TRUE], World), Of([Args EXCEPT !.invalid = TRUE], World),
     Of([Args EXCEPT !.list = "vulnerabilities"], World),
     Of([Args EXCEPT !.formats = <<"xml">>], World),
     Of([Args EXCEPT !.wizard = TRUE], [World EXCEPT !.terminal = FALSE]),
     Of([Args EXCEPT !.wizard = TRUE], World),
     Of([Args EXCEPT !.wizard = TRUE], [World EXCEPT !.answers = <<Spec1("web", 0)>>])}

MCCommandLines == Exports \cup Policies \cup PluginDirectories \cup Inventories \cup Gated \cup Compared \cup Others

Found(ok, score, findings) ==
    [ok |-> ok, score |-> score, grade |-> IF ok THEN "A" ELSE "none", findings |-> findings,
     algorithms |-> IF ok THEN {<<"kex", "a">>} ELSE {}, keys |-> IF ok THEN [ed25519 |-> "e"] ELSE <<>>]

MCResults ==
    {Found(FALSE, NoScore, {}), Found(TRUE, 1, {[id |-> "x", severity |-> "low"]}),
     Found(TRUE, 0, {[id |-> "y", severity |-> "high"]}), Found(TRUE, 1, {})}
=============================================================================
