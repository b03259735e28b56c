------------------------------ MODULE Command ------------------------------
(***************************************************************************)
(* One run of the command line (main in cli.py), from its arguments to its *)
(* exit code: what it loads, in which order, what it writes, and which of  *)
(* the gates decides. The scan itself is ScanPool and TargetScan; here it  *)
(* returns some result for each target.                                    *)
(***************************************************************************)
EXTENDS PolicyFile, PluginFiles, Inventory, Drift

CONSTANTS
    CommandLines,  \* the [args, world] of the runs
    Results,       \* what a scan of one server may find
    Statuses       \* of a profile: "pass", "fail", "not_assessed"

SeverityOrder == <<"critical", "high", "medium", "low", "info">>

Severities == {SeverityOrder[i] : i \in DOMAIN SeverityOrder}

IsSequence(s) == s \in Seq(Range(s))

\* Every server that a specification or a line may name.
Specs(a, w) ==
    Range(a.specs) \cup Range(w.answers)
    \cup UNION {{w.inventories[f].lines[i].spec : i \in DOMAIN w.inventories[f].lines} :
                    f \in DOMAIN w.inventories}

PolicyFiles(a, w) == {a.config.document} \cup Range(w.candidates)

\* What argparse and the files can give: the choices of --fail-on, lists, the
\* shipped policy as a last candidate at least, one directory of plugins that
\* is the package's own, a name that has one lower case, and directories with
\* finitely many files.
WellFormed(a, w) ==
    /\ {"wizard", "specs", "formats", "profiles", "required", "failOn", "export", "help",
        "config", "compare", "regression", "history", "port", "credentials"} \subseteq DOMAIN a
    /\ {"answers", "inventories", "candidates", "shipped", "exported", "baseline",
        "builtin", "pluginDirectories"} \subseteq DOMAIN w
    /\ a.failOn \in Severities \cup {"never"}
    /\ IsSequence(a.specs) /\ IsSequence(w.answers) /\ IsSequence(a.formats)
    /\ IsSequence(w.shipped) /\ IsSequence(w.candidates) /\ IsSequence(w.inventories)
    /\ a.credentials = [field \in DOMAIN a.credentials |-> a.credentials[field]]
    /\ w.candidates # <<>>
    /\ w.builtin.exists /\ w.builtin.builtin /\ IsSequence(w.builtin.files)
    /\ IsSequence(w.pluginDirectories)
    /\ \A d \in Range(w.pluginDirectories) : IsSequence(d.files) /\ (d.builtin => d = w.builtin)
    /\ \A f \in DOMAIN w.inventories : IsSequence(w.inventories[f].lines)
    /\ \A s, t \in Specs(a, w) : s.host.name = t.host.name => s.host.lower = t.host.lower
    /\ \A d \in PolicyFiles(a, w) : \A id \in DOMAIN d.directory :
          IsFiniteSet(DOMAIN d.directory[id])
    /\ \A s \in DOMAIN w.baseline.results : w.baseline.results[s].score \in Int

ASSUME CommandAssumption ==
    /\ Statuses \subseteq {"pass", "fail", "not_assessed"}
    /\ \A r \in Results :
          /\ {"ok", "score", "findings"} \subseteq DOMAIN r
          /\ r.score \in Int /\ r.ok = (r.score # NoScore)
          /\ \A f \in r.findings : f.severity \in Severities
    /\ \A c \in CommandLines : WellFormed(c.args, c.world)

VARIABLES
    args,      \* the parsed command line
    world,     \* the files and the terminal it runs with
    pc,        \* where main is
    loaded,    \* what load_policy returned
    plugins,   \* the plugins loaded
    targets,   \* the servers to be scanned
    report,    \* the results, by target
    drift,     \* the comparison with the baseline
    recorded,  \* whether the report went into the history
    toWrite,   \* formats, or files of an export, still to be written
    written,   \* what has been written
    exit       \* the exit code, "none", or "traceback": an exception that main does
               \* not catch, which the shell sees as 1, as it sees "findings"

vars == <<args, world, pc, loaded, plugins, targets, report, drift, recorded, toWrite, written, exit>>
inputs == <<args, world>>
outputs == <<drift, recorded, toWrite, written>>

Nothing == [outcome |-> "none", policy |-> [profiles |-> <<>>, editions |-> <<>>, rules |-> {}]]

Init ==
    /\ \E c \in CommandLines : args = c.args /\ world = c.world
    /\ pc = "start"
    /\ loaded = Nothing
    /\ plugins = <<>> /\ targets = <<>> /\ report = <<>> /\ drift = <<>>
    /\ recorded = FALSE
    /\ toWrite = <<>> /\ written = {}
    /\ exit = "none"

Exits(code) == pc' = "done" /\ exit' = code
GoesTo(step) == pc' = step /\ UNCHANGED exit

-----------------------------------------------------------------------------
(* Before the scan                                                         *)

\* Help wins wherever it appears, a line that argparse cannot take is a usage
\* error, and an export asks for nothing else.
Start ==
    /\ pc = "start"
    /\ CASE args.help -> Exits("ok")
         [] ~args.help /\ args.invalid -> Exits("usage")
         [] OTHER -> GoesTo(IF args.export THEN "export" ELSE "load")
    /\ UNCHANGED <<inputs, loaded, plugins, targets, report, outputs>>

\* _profiles_to_export: what is not there yet. Anything else that is there
\* and differs stops the export before it writes a file.
Missing ==
    Kept(world.shipped, {i \in DOMAIN world.shipped : world.shipped[i] \notin DOMAIN world.exported})

\* Mutant: what is there is taken for what would have been written.
NeverEdited == FALSE

Edited == \E i \in DOMAIN world.shipped :
              world.shipped[i] \in DOMAIN world.exported /\ world.exported[world.shipped[i]] # "shipped"

PolicyCopy == <<"policy">>

\* _export_policy
PlanExport ==
    /\ pc = "export"
    /\ IF PolicyCopy \in DOMAIN world.exported \/ Edited
       THEN Exits("usage") /\ UNCHANGED toWrite
       ELSE GoesTo("exporting") /\ toWrite' = <<PolicyCopy>> \o Missing
    /\ UNCHANGED <<inputs, loaded, plugins, targets, report, drift, recorded, written>>

Export ==
    /\ pc = "exporting"
    /\ IF toWrite = <<>> THEN Exits("ok") /\ UNCHANGED <<world, toWrite, written>>
       ELSE \/ /\ world' = [world EXCEPT !.exported = Over([f \in {Head(toWrite)} |-> "shipped"], @)]
               /\ written' = written \cup {Head(toWrite)}
               /\ toWrite' = Tail(toWrite)
               /\ UNCHANGED <<pc, exit>>
            \/ Exits("usage") /\ UNCHANGED <<world, toWrite, written>>
    /\ UNCHANGED <<args, loaded, plugins, targets, report, drift, recorded>>

\* A PolicyError is a usage error; what else may come out of the loader is a
\* traceback.
ReadPolicy ==
    /\ pc = "load"
    /\ loaded' = LoadPolicy(args.config, world.candidates)
    /\ CASE loaded'.outcome = "refused" -> Exits("usage")
         [] loaded'.outcome = "raises" -> Exits("traceback")
         [] loaded'.outcome = "loaded" ->
              GoesTo(IF args.wizard THEN "wizard"
                     ELSE IF args.list \in {"policy", "profiles"} THEN "listing" ELSE "plugins")
    /\ UNCHANGED <<inputs, plugins, targets, report, outputs>>

\* run_wizard: the questions that the gates depend on. Only what is evaluated
\* can be required, and answering for all of them is not naming any. The
\* command that comes out is run from the start.
WizardLine(chosen, severity, required) ==
    LET subset == chosen # {} /\ chosen # DOMAIN loaded.policy.profiles
    IN [args EXCEPT !.wizard = FALSE, !.specs = world.answers, !.formats = <<"console">>,
                    !.profiles = IF subset THEN chosen ELSE {},
                    !.required = required, !.failOn = severity]

Composable(line) ==
    \A s \in line.required : line.profiles = {} \/ s \in line.profiles

RunWizard ==
    /\ pc = "wizard"
    /\ IF ~world.terminal THEN Exits("usage") /\ UNCHANGED args
       ELSE \/ Exits("ok") /\ UNCHANGED args
            \/ /\ world.answers # <<>>
               /\ GoesTo("start")
               /\ \E chosen, required \in SUBSET DOMAIN loaded.policy.profiles :
                  \E severity \in {"never", "high"} :
                     /\ Composable(WizardLine(chosen, severity, required))
                     /\ args' = WizardLine(chosen, severity, required)
    /\ UNCHANGED <<world, loaded, plugins, targets, report, outputs>>

List ==
    /\ pc = "listing"
    /\ Exits("ok")
    /\ UNCHANGED <<inputs, loaded, plugins, targets, report, outputs>>

ReadPlugins ==
    /\ pc = "plugins"
    /\ plugins' = LoadPlugins(world.builtin, world.pluginDirectories)
    /\ GoesTo(IF args.list # "none" THEN "listing" ELSE "targets")
    /\ UNCHANGED <<inputs, loaded, targets, report, outputs>>

Formats == {"console", "json", "html", "sarif"}

\* A file that cannot be opened ends the run, one that is not UTF-8 does so
\* with a traceback (read_target_file reads it line by line and catches what
\* opening raises); a line that cannot be understood is a warning.
Unread == {i \in DOMAIN world.inventories : world.inventories[i].reads # "loaded"}

ReadTargets ==
    /\ pc = "targets"
    /\ targets' = BuildTargets(args.specs, world.inventories, args.port, args.credentials)
    /\ IF \E i \in DOMAIN args.formats : args.formats[i] \notin Formats THEN Exits("usage")
       ELSE \/ \E i \in Unread :
                  /\ \A j \in Unread : i <= j
                  /\ Exits(IF world.inventories[i].reads = "raises" THEN "traceback" ELSE "usage")
            \/ Unread = {} /\ targets' = <<>> /\ Exits("usage")
            \/ Unread = {} /\ targets' # <<>> /\ GoesTo("options")
    /\ UNCHANGED <<inputs, loaded, plugins, report, outputs>>

\* Requiring adds to the profiles that were selected, if any were. None at all
\* stands for those in force.
Selected ==
    IF args.profiles = {} THEN DOMAIN loaded.policy.profiles
    ELSE args.profiles \cup args.required

CheckOptions ==
    /\ pc = "options"
    /\ IF \/ \E s \in args.profiles \cup args.required : ~Known(loaded.policy, s)
          \/ Len(args.formats) > 1 /\ ~args.output
          \/ args.badNumbers
       THEN Exits("usage") ELSE GoesTo("scan")
    /\ UNCHANGED <<inputs, loaded, plugins, targets, report, outputs>>

-----------------------------------------------------------------------------
(* The scan and what is made of it                                         *)

\* scan(): a server that could not be reached has no findings and is measured
\* against nothing.
Scan ==
    /\ pc = "scan"
    /\ \E found \in [DOMAIN targets -> Results] :
       \E statuses \in [DOMAIN targets -> [Selected -> Statuses]] :
          report' = [i \in DOMAIN targets |->
                        [target |-> targets[i], found |-> found[i],
                         compliance |-> IF found[i].ok THEN statuses[i] ELSE <<>>]]
    /\ GoesTo("history")
    /\ UNCHANGED <<inputs, loaded, plugins, targets, outputs>>

\* What a step that reads or writes a file ends in when it cannot: main
\* catches the error of the module or of the system, and not what decoding or
\* encoding raises.
Fails == \E code \in {"usage", "traceback"} : Exits(code)

\* The history comes first: what cannot be recorded is not reported either.
Record ==
    /\ pc = "history"
    /\ \/ GoesTo("compare") /\ recorded' = args.history
       \/ args.history /\ Fails /\ UNCHANGED recorded
    /\ UNCHANGED <<inputs, loaded, plugins, targets, report, drift, toWrite, written>>

Address(target) == <<target.host.name, target.port>>

ByAddress ==
    [a \in {Address(targets[i]) : i \in DOMAIN targets} |->
        LET f == report[CHOOSE i \in DOMAIN targets : Address(targets[i]) = a].found
        IN [f EXCEPT !.findings = {x.id : x \in f.findings}]]

\* A baseline that is refused (BaselineError) is a usage error. One that is not
\* UTF-8, or has a report of another shape in it, raises past that.
CompareWithBaseline ==
    /\ pc = "compare"
    /\ \/ /\ args.compare => world.baseline.outcome = "loaded"
          /\ GoesTo("render")
          /\ drift' = IF args.compare THEN Compare(world.baseline.results, ByAddress) ELSE <<>>
          /\ toWrite' = args.formats
       \/ /\ args.compare /\ world.baseline.outcome = "refused" /\ Exits("usage")
          /\ UNCHANGED <<drift, toWrite>>
       \/ /\ args.compare /\ world.baseline.outcome = "raises" /\ Exits("traceback")
          /\ UNCHANGED <<drift, toWrite>>
    /\ UNCHANGED <<inputs, loaded, plugins, targets, report, recorded, written>>

\* What the comparison found is printed after the reports, with nothing to
\* catch an error of standard output.
PrintComparison ==
    \/ GoesTo("reread")
    \/ args.compare /\ Exits("traceback")

\* Mutant: a report that cannot be written is passed over.
RenderOnlyIfPossible ==
    /\ pc = "render"
    /\ IF toWrite = <<>> THEN PrintComparison /\ UNCHANGED <<toWrite, written>>
       ELSE /\ toWrite' = Tail(toWrite)
            /\ written' \in {written, written \cup {Head(toWrite)}}
            /\ UNCHANGED <<pc, exit>>
    /\ UNCHANGED <<inputs, loaded, plugins, targets, report, drift, recorded>>

\* Every format in turn, to its own file or to standard output; either may
\* refuse it, or have no character for what is in it, with some of the formats
\* written.
Render ==
    /\ pc = "render"
    /\ IF toWrite = <<>> THEN PrintComparison /\ UNCHANGED <<toWrite, written>>
       ELSE \/ /\ toWrite' = Tail(toWrite)
               /\ written' = written \cup {Head(toWrite)}
               /\ UNCHANGED <<pc, exit>>
            \/ Fails /\ UNCHANGED <<toWrite, written>>
    /\ UNCHANGED <<inputs, loaded, plugins, targets, report, drift, recorded>>

\* --history-report reads the file back, which may fail by itself, and prints
\* what it read as the comparison is printed.
ReadBack ==
    /\ pc = "reread"
    /\ \/ GoesTo("gates")
       \/ args.history /\ args.historyReport /\ Fails
    /\ UNCHANGED <<inputs, loaded, plugins, targets, report, outputs>>

-----------------------------------------------------------------------------
(* The exit code                                                           *)

SeverityRank(severity) == CHOOSE i \in DOMAIN SeverityOrder : SeverityOrder[i] = severity

\* _threshold_exceeded
ThresholdExceeded ==
    /\ args.failOn # "never"
    /\ \E i \in DOMAIN report : \E f \in report[i].found.findings :
          SeverityRank(f.severity) <= SeverityRank(args.failOn)

\* Mutant: only a violation fails a profile.
ProfileFailed ==
    \E i \in DOMAIN report : \E s \in DOMAIN report[i].compliance \cap args.required :
        report[i].compliance[s] = "fail"

\* _profile_not_met: what was not assessed does not conform.
ProfileNotMet ==
    \E i \in DOMAIN report : \E s \in DOMAIN report[i].compliance \cap args.required :
        report[i].compliance[s] # "pass"

Gates ==
    /\ pc = "gates"
    /\ Exits(IF \/ args.compare /\ args.regression /\ Regressions(drift) # {}
                \/ ProfileNotMet
                \/ ThresholdExceeded THEN "findings"
             ELSE IF \E i \in DOMAIN report : ~report[i].found.ok THEN "scan error" ELSE "ok")
    /\ UNCHANGED <<inputs, loaded, plugins, targets, report, outputs>>

Finished == pc = "done" /\ UNCHANGED vars

Next ==
    \/ Start \/ PlanExport \/ Export
    \/ ReadPolicy \/ RunWizard \/ List \/ ReadPlugins \/ ReadTargets \/ CheckOptions
    \/ Scan \/ Record \/ CompareWithBaseline \/ Render \/ ReadBack \/ Gates
    \/ Finished

Spec == Init /\ [][Next]_vars

-----------------------------------------------------------------------------
(* Properties                                                              *)

Scanned == pc = "done" /\ report # <<>>

\* Exit code 0 after a scan means what the docstring of cli.py and the help of
\* the gates say: every server was scanned, none has a finding at or above
\* --fail-on, each meets every profile that was required and evaluated, and
\* none is worse than in the baseline. A profile required by its edition while
\* none is evaluated is left out: main evaluates a profile because it is
\* required only when the policy has it under exactly that name.
Evaluated(selector) == selector \in DOMAIN loaded.policy.profiles \/ args.profiles # {}

NotWorse(i) ==
    Address(targets[i]) \in DOMAIN world.baseline.results =>
        LET before == world.baseline.results[Address(targets[i])]
            after == report[i].found
        IN IF before.score = NoScore THEN {x.id : x \in after.findings} \subseteq before.findings
           ELSE after.score >= before.score

ZeroIsEarned ==
    Scanned /\ exit = "ok" =>
        \A i \in DOMAIN targets :
            /\ report[i].found.ok
            /\ \A s \in args.required : Evaluated(s) =>
                  s \in DOMAIN report[i].compliance /\ report[i].compliance[s] = "pass"
            /\ args.failOn # "never" =>
                  \A f \in report[i].found.findings :
                      SeverityRank(f.severity) > SeverityRank(args.failOn)
            /\ args.compare /\ args.regression => NotWorse(i)

\* A code that a gate or the summary decided (0, 1 or 3) is the code of a run
\* that delivered all that it was asked for: each format is written and the
\* history has the report. The two other ends, 2 and a traceback, may leave any
\* part of it out; but no report is ever out that the history was to have and
\* does not (main). A traceback is a 1 to the shell: what the code alone says of
\* a run is less than this, and less than the table of codes in the manual.
DeliveredOrSaid ==
    /\ Scanned /\ exit \in {"ok", "findings", "scan error"} =>
          /\ {args.formats[i] : i \in DOMAIN args.formats} \subseteq written
          /\ args.history => recorded
    /\ report # <<>> /\ args.history /\ ~recorded => written = {}

\* An export that says it is done leaves the policy with every standard beside
\* it as it was shipped, for a policy without its standards passes everything;
\* and no export replaces a file (_export_policy, _profiles_to_export).
ExportIsWhole ==
    args.export /\ pc = "done" /\ exit = "ok" /\ ~args.help =>
        \A f \in {PolicyCopy} \cup {world.shipped[i] : i \in DOMAIN world.shipped} :
            f \in DOMAIN world.exported /\ world.exported[f] = "shipped"

\* Whatever lies in the directories of others, every shipped detection that
\* loads is run in its shipped form, nothing that others may write is run, and
\* no two plugins report under one name (load_plugins).
OwnPluginsStay ==
    plugins # <<>> =>
        LET own == {f \in {world.builtin.files[i] : i \in DOMAIN world.builtin.files} :
                       ~f.underscore /\ Loads(f)}
            run == {plugins[i] : i \in DOMAIN plugins}
        IN /\ \A f \in own : f \in run \/ \E g \in own : g.id = f.id /\ g \in run
           /\ \A p \in run \ own : ~p.open
           /\ \A i, j \in DOMAIN plugins : plugins[i].id = plugins[j].id => i = j

\* A scan runs under the policy that was asked for and never under a later
\* candidate because an earlier one is broken; and what the bare name of a
\* standard means there was said by exactly one edition, or by the only one
\* there is, or inline (load_policy, _mark_the_edition_in_force).
PolicyAsAsked ==
    loaded.outcome = "loaded" =>
        LET document == loaded.from
            earlier == {i \in DOMAIN world.candidates :
                           \A j \in 1..i : world.candidates[j] # document}
            says(id, e) == document.directory[id][e].current
        IN /\ args.config.given => document = args.config.document
           /\ ~args.config.given => \A i \in earlier : ~world.candidates[i].exists
           /\ \A s \in DOMAIN loaded.policy.profiles :
                 \/ s[1] \in DOMAIN document.profiles
                 \/ \E e \in DOMAIN document.directory[s[1]] :
                       /\ document.directory[s[1]][e].content = loaded.policy.profiles[s]
                       /\ \A d \in DOMAIN document.directory[s[1]] \ {e} : ~says(s[1], d)

\* Every server that a specification or a line names is scanned, once, on the
\* port that it names and with the credentials of the first that names it; what
\* is scanned besides was named by nobody and is nothing (build_targets).
Named ==
    [i \in 1..Len(args.specs) |-> [spec |-> args.specs[i], options |-> <<>>, unknown |-> FALSE]]
    \o FlattenSeq([f \in DOMAIN world.inventories |-> world.inventories[f].lines])

TargetsKept ==
    pc \in {"options", "scan"} =>
        LET taken == {i \in DOMAIN Named : Taken(Named[i], args.port)}
            server(i) == LineTarget(Named[i], args.port, args.credentials)
            first(t) == CHOOSE i \in taken :
                           SameServer(server(i), t) /\ \A j \in taken : j < i => ~SameServer(server(j), t)
        IN /\ \A i \in taken : \E k \in DOMAIN targets : SameServer(targets[k], server(i))
           /\ \A k \in DOMAIN targets : targets[k] = server(first(targets[k]))
           /\ \A k, m \in DOMAIN targets : SameServer(targets[k], targets[m]) => k = m
=============================================================================
