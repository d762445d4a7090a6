------------------------------ MODULE Commands ------------------------------
(***************************************************************************)
(* The parts of the tool that compute an answer from their inputs alone,    *)
(* one action for each. A behaviour is one call: a request is chosen, and   *)
(* the answer is what the code makes of it. Module CommandProperties        *)
(* compares the answers with what they are for.                             *)
(***************************************************************************)
EXTENDS Integers, Sequences, FiniteSets, TLC

CONSTANTS
    Requests(_),                    \* the requests of each kind
    Capability, MaxEntries,         \* Surface
    MaxWasmBytes, MaxInstructions, MaxCalls,      \* StorageUse
    KnownRule, Family, MaxFunctions, MaxPerFunction,   \* Budgets
    Axis,                           \* Sections
    BadName, MaxMembers, MaxMemberBytes, MaxTotalBytes, \* SignedEvidence
    Escalating, MaxDepth,           \* Profiles
    Alphabet, TooLong, MaxXdrDepth, \* Interfaces
    EventName, KindOrder,           \* ImpactGraph
    Category, RuleId, CategoryAxes, SchemaKeys, FileKeys, MaxRules, MaxTargetless, \* Documents
    BadId,                          \* the ids of pairs that are no words
    Content, ByteSize, Wasm, OciManifest, AcceptedTypes,   \* Inputs
    Word                            \* Extraction

ASSUME LimitsAssumption ==
    /\ {MaxEntries, MaxWasmBytes, MaxInstructions, MaxCalls, MaxFunctions, MaxPerFunction,
        MaxMembers, MaxMemberBytes, MaxTotalBytes, MaxDepth, MaxXdrDepth, MaxRules, MaxTargetless} \subseteq Nat
    /\ \A f \in DOMAIN Capability : Capability[f] \in Nat
    /\ {"storage_layout", "call_abi"} \subseteq Axis

Host    == INSTANCE Surface
Storage == INSTANCE StorageUse
Budget  == INSTANCE Budgets
Report  == INSTANCE Sections
Evidence == INSTANCE SignedEvidence
Settings == INSTANCE Profiles
Interface == INSTANCE Interfaces
Graph   == INSTANCE ImpactGraph
Document == INSTANCE Documents
Input == INSTANCE Inputs
Extract == INSTANCE Extraction

\* Both builds of a comparison are ones that a module was parsed to.
ASSUME HostsAssumption ==
    \A r \in Requests("hosts") : Host!IsBuild(r.old) /\ Host!IsBuild(r.new)
ASSUME StorageAssumption ==
    \A r \in Requests("storage") :
        /\ Storage!IsModule(r.oldModule) /\ Storage!IsModule(r.newModule)
        /\ Storage!IsSchema(r.old) /\ Storage!IsSchema(r.new)

ASSUME BudgetsAssumption ==
    /\ \A r \in Requests("budgets") :
          Budget!IsList(r.tables) /\ \A i \in DOMAIN r.tables : Budget!IsTable(r.tables[i])
    /\ \A r \in Requests("complexity") :
          /\ Budget!IsCode(r.old) /\ Budget!IsCode(r.new)
          /\ \A t \in r.tables : t.limit \in Int /\ t.percent \in Int
ASSUME ReportsAssumption == \A r \in Requests("report") : Report!IsInput(r)

VARIABLES command, request, answer
vars == <<command, request, answer>>

Init == command = "none" /\ request = <<>> /\ answer = <<>>

\* The configuration files are ones that parse.
ASSUME DocumentsAssumption == \A r \in Requests("config") : Document!IsDocument(r.doc)

Idle == command = "none"

Answers(kind, r, a) ==
    /\ command' = kind
    /\ request' = r
    /\ answer' = a

\* Both builds are extracted before anything is compared.
CompareHosts ==
    Idle /\ \E r \in Requests("hosts") :
        Answers("hosts", r,
                IF Host!TooManyEntries(r.old) \/ Host!TooManyEntries(r.new)
                THEN [refused |-> TRUE, findings |-> {}]
                ELSE [refused |-> FALSE, findings |-> Host!HostFindings(r.old, r.new, r.plain)])

\* A report whose only findings are those of the storage schemas. The storage
\* analysis is a part of extract_metadata, so its error ends the comparison.
NothingElse == [critical |-> 0, warning |-> 0, info |-> 0, total |-> 0, suppressed |-> 0]
CompareStorage ==
    Idle /\ \E r \in Requests("storage") :
        LET oldUse == Storage!InferStorage(r.oldModule)
            newUse == Storage!InferStorage(r.newModule)
            told == Storage!CompareSchemas(r.old, oldUse, r.new, newUse)
            mismatches == [i \in 1 .. Cardinality(told.old) + Cardinality(told.new)
                                        + Cardinality(told.moves) |-> [suppressed |-> r.suppressed]]
            judged == Report!Judged([a \in Axis |-> "passed"], NothingElse, {})
        IN  Answers("storage", r,
                    IF \/ oldUse = Storage!TooLarge \/ newUse = Storage!TooLarge
                       \/ ~Storage!ValidSchema(r.old) \/ ~Storage!ValidSchema(r.new)
                    THEN [refused |-> TRUE]
                    ELSE [refused |-> FALSE, told |-> told, oldUse |-> oldUse, newUse |-> newUse,
                          report |-> Report!ApplyStorage(judged, mismatches, r.settings)])

EvaluateBudgets ==
    Idle /\ \E r \in Requests("budgets") :
        Answers("budgets", r,
                IF ~Budget!BudgetsLoad(r.tables) THEN [refused |-> TRUE, over |-> {}]
                ELSE [refused |-> FALSE,
                      over |-> Budget!BudgetViolations(r.findings, Budget!Entries(r.tables))])

EvaluateComplexity ==
    Idle /\ \E r \in Requests("complexity") :
        Answers("complexity", r,
                IF ~Budget!ComplexityLoads(r.tables) THEN [refused |-> TRUE, over |-> {}]
                ELSE [refused |-> FALSE,
                      over |-> Budget!ComplexityViolations(r.old, r.new, r.tables)])

\* The three drivers, and the build manifest that a caller of the library adds.
BuildReport ==
    Idle /\ \E r \in Requests("report") :
        LET judged == Report!Judged(r.axes, NothingElse, r.over)
            driven == IF r.driver = "library" THEN Report!LibraryReport(judged, r)
                      ELSE IF r.driver = "binding" THEN Report!BindingReport(judged, r)
                      ELSE IF r.driver = "command line" THEN Report!CommandReport(judged, r)
                      ELSE Report!Noop(NothingElse)
        IN  Answers("report", r, Report!ApplyManifest(driven, r.fields, r.stale, r.gateManifest))

\* An attestation is made at one time and verified at another, and the files may
\* have changed twice: while it is made, and since.
Attest ==
    Idle /\ \E r \in Requests("attest") :
        LET made == IF r.made = "attested"
                    THEN Evidence!RunAttest(r.paths, r.first, r.again, r.keyid, r.key)
                    ELSE Evidence!Sign(Evidence!PolicyType, r.bundle, r.keyid, r.key)
            envelope == [made EXCEPT !.type = IF r.retyped THEN Evidence!StatementType ELSE @,
                                     !.signatures = @ \o r.added]
        IN  Answers("attest", r,
                    [envelope |-> envelope,
                     result |-> Evidence!RunVerifyAttestation(envelope, r.trusted, r.given, r.expired)])

\* A run under a policy bundle.
TightenPolicy ==
    Idle /\ \E r \in Requests("policy") :
        LET made == Evidence!Sign(r.signedAs, r.bundle, r.keyid, r.key)
            envelope == [made EXCEPT !.type = Evidence!PolicyType, !.payload = r.sent,
                                     !.signatures = @ \o r.added]
        IN  Answers("policy", r,
                    Evidence!RunWithBundle(r.policy, r.rules, envelope, r.trusted, r.now)
                      @@ [envelope |-> envelope])

\* A bundle is created, created once more in its place, changed, and read.
Changed(dir, change) ==
    IF change.name \notin DOMAIN dir.members THEN dir
    ELSE IF change.what = "bytes"
    THEN [dir EXCEPT !.members[change.name] = change.content]
    ELSE IF change.what = "claim" /\ dir.manifest # Evidence!NoManifest
              /\ change.name \in DOMAIN dir.manifest.members
    THEN [dir EXCEPT !.manifest.members[change.name] = change.content]
    ELSE IF change.what = "removed"
    THEN [dir EXCEPT !.members = [n \in DOMAIN @ \ {change.name} |-> @[n]]]
    ELSE dir

KeepEvidence ==
    Idle /\ \E r \in Requests("bundle") :
        LET nothing == [members |-> [n \in {} |-> Evidence!Empty], manifest |-> Evidence!NoManifest]
            first == Evidence!CreateBundle(nothing, r.names, r.sources, Len(r.names) + 2)
            second == Evidence!CreateBundle(first.dir, r.names, r.sources2, r.stop)
            dir == Changed(second.dir, r.change)
        IN  Answers("bundle", r,
                    [first |-> first, second |-> second, dir |-> dir,
                     verified |-> Evidence!VerifyBundle(dir),
                     inspected |-> Evidence!InspectBundle(dir),
                     read |-> [n \in {r.names[i] : i \in DOMAIN r.names} |-> Evidence!ReadMember(dir, n)],
                     build |-> Evidence!VerifyProvenance(dir, r.build, r.observed)])

ResolveSettings ==
    Idle /\ \E r \in Requests("settings") :
        Answers("settings", r, Settings!ResolveConfig(r))

ChooseMode ==
    Idle /\ \E r \in Requests("mode") :
        Answers("mode", r, [library |-> Settings!LibraryMode(r.options, r.paths),
                            cli     |-> Settings!CliMode(r.options, r.paths)])

\* A configuration file before its three readers: --validate-config, a run of the
\* command line, and the library.
ReadConfig ==
    Idle /\ \E r \in Requests("config") :
        Answers("config", r,
                [valid   |-> Document!ValidateConfig(r.doc),
                 run     |-> Document!LoadSuppressions(r.doc, r.noConfig, r.places),
                 library |-> Document!LibraryLoads(r.doc, r.profile, r.envMax, r.envAllow)])

\* One reference is loaded by several runs of a command that share a cache; a run
\* that pins its baseline goes on only with that.
Loaded(r, run) ==
    [loads |-> run.loads, cache |-> run.cache,
     advisory |-> Input!UsesMetadataCache(r.ref),
     judged |-> {i \in DOMAIN run.loads :
                   /\ run.loads[i].loaded
                   /\ \/ r.expected = Input!Nothing
                      \/ Input!ExpectedHash(r.expected, run.loads[i].sha256) = "met"}]
LoadInput ==
    Idle /\ \E r \in Requests("load") :
        Answers("load", r, Loaded(r, Input!Load(r.use, r.ref, r.config, r.worlds, r.cache)))

\* A module is held against a build manifest in three places.
CheckProvenance ==
    Idle /\ \E r \in Requests("provenance") :
        LET told == Input!Embedded(r.entries)
        IN  Answers("provenance", r,
                [stands |-> Input!ManifestStands(r.version, r.manifest),
                 module |-> Input!VerifyModule(r.sha256, r.entries, r.manifest),
                 entry  |-> Input!VerifyEntry(r.sha256, told, r.manifest),
                 report |-> Input!CompareProvenance(r.manifest, told)])

\* A lockfile is written, read back, and read once more after its declarations
\* were changed by hand.
LockInterface ==
    Idle /\ \E r \in Requests("lockfile") :
        LET run == Interface!RunLockfile(r.entries, r.path, r.force)
        IN  Answers("lockfile", r,
                    IF ~run.written THEN [written |-> FALSE]
                    ELSE [written |-> TRUE,
                          lockfile |-> run.lockfile,
                          readBack |-> Interface!SpecOfLockfile(run.lockfile),
                          extracted |-> Interface!SpecOfExtracted(Interface!Extracted(r.entries)),
                          edited |-> Interface!SpecOfLockfile([run.lockfile EXCEPT !.lists = r.edited,
                                                                                   !.version = r.version])])

LintBuild ==
    Idle /\ \E r \in Requests("lint") :
        LET findings == Interface!LintFindings(r.entries, r.schema, r.maxWalkDepth)
        IN  Answers("lint", r, [findings |-> findings, code |-> Interface!ExitCode(findings, r.strict)])

DrawImpact ==
    Idle /\ \E r \in Requests("graph") :
        LET specs == [r EXCEPT !.old = Interface!FromEntries(@), !.new = Interface!FromEntries(@)]
        IN  Answers("graph", r, [graph |-> Graph!BuildImpactGraph(specs),
                                 calls |-> Graph!BuildCallGraph(r.dependencies)])

\* A module is read under a registry of decoders, and each of its specification
\* sections on its own too, with what can be recovered of it.
ReadModule ==
    Idle /\ \E r \in Requests("extract") :
        LET specs == Extract!Sections(r.module, "spec")
            version == Extract!InterfaceVersion(r.module)
        IN  Answers("extract", r,
                    [read |-> Extract!ExtractMetadata(r.module, r.registry),
                     recovered |-> [i \in DOMAIN specs |->
                                      Extract!DecodeForwardCompat(r.registry, specs[i].items, version)]])

MinimizeInput ==
    Idle /\ \E r \in Requests("minimize") :
        Answers("minimize", r,
                Extract!RunFuzzMinimize(r.size, r.oracle, r.usual, r.maxIterations, r.output, r.disk))

\* A saved report is read, and is upgraded twice.
ReadSaved ==
    Idle /\ \E r \in Requests("saved") :
        LET once == Report!UpgradeToLatest(r.doc)
        IN  Answers("saved", r,
                    [read |-> Report!FromJson(r.doc), once |-> once,
                     twice |-> IF once.refused THEN once
                               ELSE Report!UpgradeToLatest(Report!Saved(once))])

ShowSettings ==
    Idle /\ \E r \in Requests("shown") : Answers("shown", r, Settings!ShowConfig(r))

Next ==
    \/ CompareHosts
    \/ CompareStorage
    \/ EvaluateBudgets
    \/ EvaluateComplexity
    \/ BuildReport
    \/ Attest
    \/ TightenPolicy
    \/ KeepEvidence
    \/ ResolveSettings
    \/ ChooseMode
    \/ ReadConfig
    \/ LoadInput
    \/ CheckProvenance
    \/ LockInterface
    \/ LintBuild
    \/ DrawImpact
    \/ ReadModule
    \/ MinimizeInput
    \/ ReadSaved
    \/ ShowSettings

Spec == Init /\ [][Next]_vars

==============================================================================
