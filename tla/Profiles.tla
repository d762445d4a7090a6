------------------------------ MODULE Profiles ------------------------------
(***************************************************************************)
(* Settings and where they come from: named profiles (src/profile.rs), the  *)
(* layers around them (src/config.rs), and the mode of a run, which the     *)
(* library and the command line (src/main.rs) each decide for themselves.   *)
(*                                                                          *)
(* A layer is a function from the settings it has to their values; a        *)
(* profile is [inherits, set |-> a layer]. An escalating setting is "on" or *)
(* "off"; a layer can turn it on and none can turn it off again.            *)
(***************************************************************************)
EXTENDS Integers, Sequences, FiniteSets, TLC
LOCAL INSTANCE SequencesExt

CONSTANTS Escalating, MaxDepth

NoParent == ""
BuiltIn  == "built-in"
Cli      == "cli"
Base     == "base file"

------------------------------------------------------------------------------
(* build_chain: from the selected profile to its root *)

Climb(walk, profiles) ==
    IF walk.status # "climbing" THEN walk
    ELSE IF Len(walk.chain) >= MaxDepth THEN [walk EXCEPT !.status = "too deep"]
    ELSE IF walk.next \in ToSet(walk.chain) THEN [walk EXCEPT !.status = "cycle"]
    ELSE IF walk.next \notin DOMAIN profiles THEN [walk EXCEPT !.status = "unknown"]
    ELSE LET parent == profiles[walk.next].inherits
         IN  [chain  |-> Append(walk.chain, walk.next),
              status |-> IF parent = NoParent THEN "rooted" ELSE "climbing",
              next   |-> parent]

BuildChain(selected, profiles) ==
    FoldLeft(LAMBDA w, i : Climb(w, profiles),
             [chain |-> <<>>, status |-> IF selected = NoParent THEN "rooted" ELSE "climbing",
              next |-> selected],
             [i \in 1 .. MaxDepth + 1 |-> i])

------------------------------------------------------------------------------
(* resolve *)

Layer(origin, set) == [origin |-> origin, set |-> set]

Layers(base, profiles, leafToRoot) ==
    <<Layer(Base, base)>>
      \o [i \in DOMAIN leafToRoot |->
            LET name == Reverse(leafToRoot)[i] IN Layer(name, profiles[name].set)]

Sourced(value, origin) == [value |-> value, origin |-> origin]

Sets(layer, s) == s \in DOMAIN layer.set

Escalate(layers, cli, s) ==
    LET on == SelectInSeq(layers, LAMBDA l : Sets(l, s) /\ l.set[s] = "on")
    IN  IF s \in DOMAIN cli /\ cli[s] = "on" THEN Sourced("on", Cli)
        ELSE IF on # 0 THEN Sourced("on", layers[on].origin)
        ELSE Sourced("off", BuiltIn)

LastWriter(layers, cli, s, default) ==
    LET last == SelectLastInSeq(layers, LAMBDA l : Sets(l, s))
    IN  IF s \in DOMAIN cli THEN Sourced(cli[s], Cli)
        ELSE IF last # 0 THEN Sourced(layers[last].set[s], layers[last].origin)
        ELSE Sourced(default, BuiltIn)

ResolveProfile(profiles, selected, base, cli, defaults) ==
    LET walk == BuildChain(selected, profiles)
        layers == Layers(base, profiles, walk.chain)
    IN  IF walk.status # "rooted" THEN [refused |-> TRUE, why |-> walk.status]
        ELSE [refused |-> FALSE, chain |-> Reverse(walk.chain),
              resolved |-> [s \in DOMAIN defaults |->
                              IF s \in Escalating THEN Escalate(layers, cli, s)
                              ELSE LastWriter(layers, cli, s, defaults[s])]]

------------------------------------------------------------------------------
(* ResolvedConfig::resolve: command line over environment over file *)

\* The format always has a value on the command line: the default one counts as
\* not given. An escalating setting is on if either has it on.
CliLayer(args, env, defaults) ==
    LET given == {s \in DOMAIN args : s = "format" => args[s] # defaults[s]}
    IN  [s \in given \cup DOMAIN env |->
           IF s \in Escalating
           THEN IF "on" \in {args[t] : t \in given \cap {s}} \cup {env[t] : t \in DOMAIN env \cap {s}}
                THEN "on" ELSE "off"
           ELSE IF s \in given THEN args[s] ELSE env[s]]

Selected(args, env, file) ==
    IF args # NoParent THEN args ELSE IF env # NoParent THEN env ELSE file

ResolveConfig(r) ==
    ResolveProfile(r.profiles, Selected(r.profile.args, r.profile.env, r.profile.file),
                   r.base, CliLayer(r.args, r.env, r.defaults), r.defaults)

------------------------------------------------------------------------------
(* The mode of a run. An invocation is the set of the options that are given,   *)
(* with the number of positional paths.                                         *)

\* ResolvedConfig::validate_and_resolve_mode
LibraryMode(options, paths) ==
    LET directories == options \cap {"old_dir", "new_dir"}
        rpc == options \cap {"contract_id", "rpc_url"}
        batch == "manifest" \in options \/ directories # {}
    IN  IF \/ "manifest" \in options /\ directories # {}
           \/ Cardinality(rpc) = 1
           \/ batch /\ paths # 0
           \/ Cardinality(directories) = 1
           \/ ~batch /\ paths # (IF rpc # {} THEN 1 ELSE 2)
        THEN "refused"
        ELSE IF "manifest" \in options THEN "manifest"
        ELSE IF batch THEN "directories"
        ELSE IF rpc # {} THEN "rpc" ELSE "local"

\* What clap requires, the checks of main, and the match at the head of
\* run_single.
Together(options, a, b) == a \in options <=> b \in options
Apart(options, a, others) == a \in options => options \cap others = {}

CliMode(options, paths) ==
    LET directories == {"old_dir", "new_dir"} \subseteq options
        batch == "manifest" \in options \/ directories
        lockfile == "lockfile" \in options
    IN  IF \/ ~Together(options, "contract_id", "rpc_url")
           \/ ~Together(options, "old_dir", "new_dir")
           \/ "manifest" \in options /\ directories
           \/ batch /\ (paths # 0 \/ options \cap {"lockfile", "policy_bundle"} # {})
           \/ ~Apart(options, "lockfile", {"contract_id", "empirical"})
           \/ "exclude" \in options /\ ~directories
           \/ ~batch /\ paths # (IF lockfile \/ "contract_id" \in options THEN 1 ELSE 2)
        THEN "refused"
        ELSE IF "manifest" \in options THEN "manifest"
        ELSE IF batch THEN "directories"
        ELSE IF lockfile THEN "lockfile"
        ELSE IF "contract_id" \in options THEN "rpc" ELSE "local"

------------------------------------------------------------------------------
(* run_show_config: every setting of the command line with the layer that is   *)
(* said to decide it. A section of it gives each setting its kind.             *)

OutputSettings ==
    [format |-> "option", explain |-> "flag", strict |-> "flag", no_color |-> "flag or env",
     color |-> "untold", ascii |-> "flag", plain |-> "flag", width |-> "option",
     quiet |-> "flag", no_timestamp |-> "flag"]
InputSettings ==
    [contract_id |-> "option", rpc_url |-> "option", allow_http_local |-> "flag",
     no_symlinks |-> "flag", expected_wasm_hash |-> "option", interface_lockfile |-> "option"]
BatchSettings ==
    [manifest |-> "option", max_pairs |-> "valued", old_dir |-> "option", new_dir |-> "option",
     per_contract_output_dir |-> "option", per_contract_output_name_template |-> "valued"]
WatchSettings ==
    [watch |-> "flag", watch_debounce_ms |-> "valued", watch_status_file |-> "option"]
RemoteSettings ==
    [remote_max_bytes |-> "valued", remote_timeout_secs |-> "valued",
     remote_max_redirects |-> "valued", remote_cache_dir |-> "option or env",
     no_remote_cache |-> "flag"]
OciSettings ==
    [oci_max_bytes |-> "valued", oci_timeout_secs |-> "valued", oci_cache_dir |-> "option or env",
     no_oci_cache |-> "flag", allow_oci_tags |-> "flag"]
LineageSettings ==
    [lineage_store |-> "option", record_version |-> "option", retire_version |-> "option",
     max_live_versions |-> "option"]
FileSettings ==
    [max_suppressions |-> "file option", allow_targetless |-> "file option",
     rule_count |-> "file", gate_storage_layout |-> "gate", gate_call_abi |-> "gate",
     gate_event_indexer |-> "gate", gate_source_level |-> "gate", gate_runtime_surface |-> "gate"]

ShownSettings ==
    OutputSettings @@ InputSettings @@ BatchSettings @@ WatchSettings @@ RemoteSettings
      @@ OciSettings @@ LineageSettings @@ FileSettings

Default == "default"
Told(value, source) == [value |-> value, source |-> source]

\* A layer has the settings that are given in it. A value that is given and is the
\* default one cannot be told from it: the parser fills in the default.
FromLine(kind, s, args) ==
    s \in DOMAIN args /\ (kind = "valued" => args[s] # Default)
FromEnv(kind, s, env) == kind \in {"flag or env", "option or env"} /\ s \in DOMAIN env
FromFile(kind, s, file) ==
    /\ file.found /\ kind \in {"file option", "file", "gate"}
    /\ kind = "file option" => s \in DOMAIN file.set
    /\ kind = "gate" => s \in DOMAIN file.set /\ file.set[s] # Default

\* A variable that is set and blank names no directory, but is said to decide; any
\* value of the other one is enough.
Blank == "blank"
EnvValue(kind, v) == IF kind = "flag or env" THEN "on" ELSE IF v = Blank THEN Default ELSE v

Shown(kind, s, r) ==
    IF kind = "untold"
    THEN Told(IF s \in DOMAIN r.args THEN r.args[s] ELSE Default, "cli or default")
    ELSE IF FromLine(kind, s, r.args) THEN Told(r.args[s], "cli")
    ELSE IF FromEnv(kind, s, r.env) THEN Told(EnvValue(kind, r.env[s]), "env")
    ELSE IF FromFile(kind, s, r.file)
    THEN Told(IF s \in DOMAIN r.file.set THEN r.file.set[s] ELSE Default, "config file")
    ELSE Told(Default, "default")

\* A file that does not load ends the command.
ShowConfig(r) ==
    IF r.file.found /\ ~r.file.loads THEN [refused |-> TRUE]
    ELSE [refused |-> FALSE,
          shown |-> [s \in DOMAIN ShownSettings |-> Shown(ShownSettings[s], s, r)]]

==============================================================================
