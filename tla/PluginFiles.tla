---------------------------- MODULE PluginFiles ----------------------------
(***************************************************************************)
(* How plugins are found and loaded (plugins/__init__.py). A directory is  *)
(* [exists, open, builtin, files], open meaning that its group or others   *)
(* may write to it, and files a sequence of file records in the order of   *)
(* their names: [open, underscore, imports, fields, severity, affects,     *)
(* kind, needs, id, body].                                                 *)
(***************************************************************************)
EXTENDS Sequences, SequencesExt, Filters

PluginKinds == {"vulnerability", "check", "fleet"}

Collected ==
    {"banner", "kexinit", "host_keys", "sshfp", "known_hosts", "login_grace", "max_startups",
     "auth_methods", "config", "client_config"}

PluginSeverities == {"critical", "high", "medium", "low", "info"}

\* _load_one: it imports, names what it has to name, says nothing that is not
\* known, and asks for nothing that is not collected.
Loads(file) ==
    /\ file.imports
    /\ {"ID", "NAME", "SEVERITY", "DESCRIPTION", "check"} \subseteq file.fields
    /\ file.severity \in PluginSeverities
    /\ file.affects \in {"server", "client"}
    /\ file.kind \in PluginKinds
    /\ file.needs \subseteq Collected

\* _refuse_if_writable_by_others is asked about what lies outside the package.
FileRefused(directory, file) == ~directory.builtin /\ file.open

FilesOf(directory) ==
    IF ~directory.exists \/ (~directory.builtin /\ directory.open) THEN <<>>
    ELSE Kept(directory.files, {i \in DOMAIN directory.files :
            LET f == directory.files[i] IN ~f.underscore /\ ~FileRefused(directory, f) /\ Loads(f)})

\* Mutant: the last file that defines an identifier has it.
FirstOfEachLast(files) ==
    Kept(files, {i \in DOMAIN files : \A j \in i + 1..Len(files) : files[j].id # files[i].id})

\* seen_ids: the first file that defines an identifier has it.
FirstOfEach(files) ==
    Kept(files, {i \in DOMAIN files : \A j \in 1..i - 1 : files[j].id # files[i].id})

\* load_plugins: the shipped directory first, then the others in order.
LoadPlugins(builtin, others) ==
    LET directories == <<builtin>> \o others
    IN FirstOfEach(FlattenSeq([i \in DOMAIN directories |-> FilesOf(directories[i])]))
=============================================================================
