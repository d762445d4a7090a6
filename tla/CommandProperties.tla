------------------------- MODULE CommandProperties -------------------------
(***************************************************************************)
(* What the answers of module Commands are for, one property for each part  *)
(* of the tool.                                                             *)
(***************************************************************************)
EXTENDS Commands

\* What a build asks of the host it is deployed on.
Imported(build) ==
    {[sort |-> e.sort, from |-> e.from, type |-> e.type, mutable |-> e.mutable] :
        e \in {build.entries[i] : i \in {j \in DOMAIN build.entries :
                                            build.entries[j].from # Host!Local}}}

NeedsNoMore(old, new) ==
    /\ Imported(new) \subseteq Imported(old)
    /\ \A f \in DOMAIN new.imports : f \in DOMAIN old.imports /\ new.imports[f] = old.imports[f]
    /\ new.env.protocol =< old.env.protocol
    /\ Host!Proposals(new) \subseteq Host!Proposals(old)
    /\ \A i \in DOMAIN Host!Declared(new, "start") :
          Host!Declared(new, "start")[i] \in {Host!Declared(old, "start")[j] :
                                                j \in DOMAIN Host!Declared(old, "start")}
    /\ LET o == Host!Declared(old, "memory")
           n == Host!Declared(new, "memory")
       IN  \A i \in DOMAIN n : i \in DOMAIN o =>
               n[i].min =< o[i].min /\ n[i].max >= o[i].max /\ n[i].type = o[i].type

\* The comparison does not look at where a table or a global comes from when
\* both builds have one at the position, nor at an unresolved signature.
OriginsKept(old, new) ==
    \A sort \in {"table", "global"} :
        LET o == Host!Declared(old, sort)
            n == Host!Declared(new, sort)
        IN  \A i \in DOMAIN o \cap DOMAIN n : o[i].from = n[i].from

Resolved(build) == \A f \in DOMAIN build.imports : build.imports[f] # Host!Unresolved

\* When the command line tells of nothing above an informational finding, the
\* new build runs wherever the old one ran: it imports nothing the old one did
\* not, needs no later protocol and no new proposal, starts no new code, and
\* fits in the memory the old one was given.
QuietMeansDeployable ==
    command = "hosts" /\ ~answer.refused /\ ~request.plain
      /\ request.old.env # Host!NoMeta
      /\ OriginsKept(request.old, request.new) /\ Resolved(request.old) /\ Resolved(request.new)
      /\ (\A f \in answer.findings : f.severity = "info")
    => NeedsNoMore(request.old, request.new)

\* The storage operations of a module that its limits let the analysis see.
Uses(module) ==
    {[operation |-> module.host[op].operation, durability |-> module.host[op].durability] :
        op \in {o \in DOMAIN module.host :
                  /\ module.host[o] # Storage!NotStorage
                  /\ \E i \in DOMAIN module.bodies : \E k \in DOMAIN module.bodies[i].ops :
                        module.bodies[i].ops[k] = o}}

Accounted(schema, module) ==
    \A u \in Uses(module) : \E i \in DOMAIN schema :
        /\ schema[i].operation = u.operation
        /\ schema[i].durability \in {Storage!Unstated, u.durability}

NamesDiffer(schema) ==
    \A i, j \in DOMAIN schema : schema[i].name = schema[j].name => i = j

\* A verdict that is safe with the storage axis gated and nothing suppressed
\* means that every storage call of both builds is declared, unless the analysis
\* says that it stopped early, and that no declaration moved to another
\* durability or namespace, as long as no two of the new ones share a name.
SafeMeansStorageKept ==
    command = "storage" /\ ~answer.refused /\ ~request.suppressed
      /\ Report!Gates(request.settings, "storage_layout") /\ answer.report.safe
    => /\ answer.oldUse.truncated \/ Accounted(request.old, request.oldModule)
       /\ answer.newUse.truncated \/ Accounted(request.new, request.newModule)
       /\ NamesDiffer(request.new) =>
            \A i \in DOMAIN request.old : \A j \in DOMAIN request.new :
               request.old[i].name = request.new[j].name =>
                 /\ request.old[i].namespace = request.new[j].namespace
                 /\ Storage!Unstated \in {request.old[i].durability, request.new[j].durability}
                      \/ request.old[i].durability = request.new[j].durability

\* The outcome of the budgets is the same whatever the order of their tables
\* is: the same sets of tables load, and the same ones are exceeded.
Backwards(s) == [i \in DOMAIN s |-> s[Len(s) + 1 - i]]
OrderIsNoMatter ==
    command = "budgets" =>
        LET other == Backwards(request.tables)
        IN  /\ answer.refused = ~Budget!BudgetsLoad(other)
            /\ ~answer.refused =>
                 answer.over = Budget!BudgetViolations(request.findings, Budget!Entries(other))

\* Within the limits of the profiler, a build that exceeds no complexity budget
\* has at most the limit of each metric, and grew by at most the percentage of
\* it that the budget allows (half of a hundredth of a percent aside), if it had
\* any before.
Instructions(bodies, m) ==
    IF m = "defined_functions" THEN Len(bodies)
    ELSE Cardinality({p \in (DOMAIN bodies) \X (1 .. MaxPerFunction) :
                        /\ p[2] \in DOMAIN bodies[p[1]]
                        /\ m \in {"total_instructions", bodies[p[1]][p[2]]}})
Fits(bodies) ==
    Len(bodies) =< MaxFunctions /\ \A i \in DOMAIN bodies : Len(bodies[i]) =< MaxPerFunction
WithinBudgets ==
    command = "complexity" /\ ~answer.refused /\ answer.over = {}
      /\ Fits(request.old) /\ Fits(request.new) =>
        \A t \in request.tables :
            LET o == Instructions(request.old, t.metric)
                n == Instructions(request.new, t.metric)
            IN  /\ t.limit # -1 => n =< t.limit
                /\ t.percent # -1 /\ o > 0 => 20000 * (n - o) =< (200 * t.percent + 1) * o

BudgetsHold == OrderIsNoMatter /\ WithinBudgets

\* A report is safe exactly if no axis failed, no
\* budget is exceeded, no sample is lost, the manifest does not gate it and the
\* history is kept; and its counters add up.
Explained ==
    command = "report" =>
        /\ answer.safe =
             (/\ \A a \in Axis : answer.axes[a] # "failed"
              /\ answer.over = {} /\ answer.complexity = {} /\ answer.manifest = {}
              /\ ~answer.samples
              /\ request.driver \in {"library", "command line"} =>
                   Report!Clean(request.history, request.settings))
        /\ answer.total = answer.critical + answer.warning + answer.info

\* A verdict can be explained from its parts, and the budgets among them hold
\* whatever the order they are written in.
VerdictExplained == Explained /\ BudgetsHold

------------------------------------------------------------------------------
(* Signatures *)

Injective(f) == \A x, y \in DOMAIN f : f[x] = f[y] => x = y

\* An attestation verifies exactly if it was made by a key that is trusted under
\* its name, nothing was signed beside it, the policy has not expired, and every
\* file it names is given with the bytes that it was made from. That takes
\* a name of its own for each file, and builds that did not change while the
\* attestation was made.
AttestationExact ==
    command = "attest" /\ Injective(request.paths) =>
        (answer.result.verified <=>
           /\ request.made = "attested"
           /\ request.keyid \in DOMAIN request.trusted
           /\ request.trusted[request.keyid] = request.key
           /\ request.added = <<>> /\ ~request.expired
           /\ \A f \in DOMAIN request.paths :
                 f \in DOMAIN request.given /\ request.given[f] = request.first[f]
           /\ \A f \in {"old", "new"} : request.first[f] = request.again[f])

\* A policy bundle takes effect only if it was signed as one, by a trusted key and
\* as it was sent, and has not expired; and then no gate and no demand for a
\* reason of the local policy is lost.
BundleOnlyTightens ==
    command = "policy" /\ ~answer.refused =>
        /\ request.policy.gates \cup request.sent.gates = answer.policy.gates
        /\ request.policy.reasons \cup request.sent.reasons = answer.policy.reasons
        /\ request.signedAs = Evidence!PolicyType /\ request.sent = request.bundle
        /\ request.keyid \in DOMAIN request.trusted
        /\ request.trusted[request.keyid] = request.key
        /\ request.added = <<>>
        /\ request.now < request.sent.expiresAt

Stable(sources) ==
    \A n \in DOMAIN sources : sources[n].hashed = sources[n].copied /\ ~sources[n].inPlace

\* A bundle that verifies has, under every name of its manifest, the bytes that
\* one creation read: not some of one and some of the next, however far that
\* went. A creation that says it is done leaves a bundle that verifies, unless a
\* source changed between its two reads or was copied onto itself. What is read
\* from a verified bundle is what its manifest says.
BundleVouches ==
    command = "bundle" =>
        /\ answer.verified =>
             /\ \E s \in {request.sources, request.sources2} :
                  \A n \in DOMAIN answer.dir.manifest.members :
                     answer.read[n] = [refused |-> FALSE, content |-> s[n].hashed]
             /\ ~answer.inspected.refused
             /\ answer.inspected.total =< MaxTotalBytes
             /\ ~answer.build.refused /\ answer.build.report.mismatched = {} =>
                  \A i \in DOMAIN request.build.artifacts :
                     LET a == request.build.artifacts[i]
                     IN  a.name \notin answer.build.report.unverified =>
                           answer.read[a.name].content.is = a.digest
        /\ answer.second.created /\ Stable(request.sources2) /\ answer.dir = answer.second.dir
             => answer.verified

\* The shortest part that was found fails as the whole input does, was found in as
\* many shorter and shorter parts as are told, and cannot be made shorter by one
\* more step, unless the iterations ran out. What is kept of it fails that way
\* under the default policy too, and is never a description without its bytes.
MinimizedStands ==
    command = "minimize" /\ ~answer.result.refused =>
        LET result == answer.result
            parts == <<Extract!Part(1, request.size)>> \o result.accepted
        IN  /\ result.best = parts[Len(parts)]
            /\ \A i \in DOMAIN parts :
                 /\ request.oracle[parts[i]] = request.oracle[parts[1]]
                 /\ i > 1 => /\ parts[i].lo >= parts[i - 1].lo /\ parts[i].hi =< parts[i - 1].hi
                             /\ Extract!Length(parts[i]) \in 1 .. Extract!Length(parts[i - 1]) - 1
            /\ Len(result.accepted) =< request.maxIterations
            /\ Len(result.accepted) < request.maxIterations =>
                 \A p \in DOMAIN request.oracle :
                    /\ Extract!Length(p) = Extract!Length(result.best) - 1
                    /\ p.lo >= result.best.lo /\ p.hi =< result.best.hi
                    => request.oracle[p] # result.class
            /\ "bin" \in DOMAIN answer.files => request.usual[result.best] = request.oracle[parts[1]]
            /\ "meta" \in DOMAIN answer.files => answer.files.bin = "whole"

\* A saved report is upgraded exactly if it can be read as it is, and then says
\* the same as before; it is upgraded once, and tells of every version it passed
\* from the one it declared.
Ascends(history, from) ==
    /\ history.from = from /\ history.to = Report!LatestVersion
    /\ \A i \in DOMAIN history.steps :
          history.steps[i].from = IF i = 1 THEN from ELSE history.steps[i - 1].to
    /\ history.steps[Len(history.steps)].to = Report!LatestVersion
SavedReportsStand ==
    command = "saved" =>
        LET once == answer.once
        IN  /\ once.refused = answer.read.refused
            /\ ~once.refused =>
                 /\ once.fields = answer.read.fields
                 /\ \A f \in Report!Required \cap DOMAIN request.doc.fields :
                       once.fields[f] = request.doc.fields[f]
                 /\ once.version = Report!LatestVersion
                 /\ answer.twice = once
                 /\ IF request.doc.version = Report!LatestVersion
                    THEN once.history = request.doc.history
                    ELSE Ascends(once.history, 0)

\* What is signed, sealed or stored vouches for what it says.
EvidenceVouches ==
    AttestationExact /\ BundleOnlyTightens /\ BundleVouches /\ MinimizedStands /\ SavedReportsStand

------------------------------------------------------------------------------
(* Settings *)

\* The profiles that name reaches by inheritance, itself included.
Ancestry(profiles, name) ==
    LET Parents(ns) == {profiles[n].inherits : n \in ns \cap DOMAIN profiles} \ {Settings!NoParent}
        up[k \in Nat] == IF k = 0 THEN {name} ELSE up[k - 1] \cup Parents(up[k - 1])
    IN  up[Cardinality(DOMAIN profiles)]

\* Inheritance is sound when the declared profiles it reaches are few enough and
\* one of them is a root: no profile is unknown, and there is no way back.
Sound(profiles, name) ==
    LET reached == Ancestry(profiles, name)
    IN  /\ reached \subseteq DOMAIN profiles
        /\ \E n \in reached : profiles[n].inherits = Settings!NoParent
        /\ Cardinality(reached) =< MaxDepth

Nearer(profiles, a, b) == b \in Ancestry(profiles, a)

\* A resolved setting tells where it comes from: the command line if that has a
\* say, else the profile nearest to the selected one that sets it, else the base
\* file, else the built-in default. A setting that escalates is on if anyone
\* turned it on. Only a sound choice of profile resolves.
OriginTells ==
    command = "settings" =>
        LET chosen == IF request.profile.args # Settings!NoParent THEN request.profile.args
                      ELSE IF request.profile.env # Settings!NoParent THEN request.profile.env
                      ELSE request.profile.file
            line == IF chosen = Settings!NoParent THEN {} ELSE Ancestry(request.profiles, chosen)
            With(s) == {n \in line : s \in DOMAIN request.profiles[n].set}
            Given(s) == \/ s \in DOMAIN request.env
                        \/ /\ s \in DOMAIN request.args
                           /\ s = "format" => request.args[s] # request.defaults[s]
        IN  /\ answer.refused =
                 (chosen # Settings!NoParent /\ ~Sound(request.profiles, chosen))
            /\ ~answer.refused => \A s \in DOMAIN request.defaults :
                 LET r == answer.resolved[s]
                     on == (s \in DOMAIN request.base /\ request.base[s] = "on")
                             \/ \E n \in With(s) : request.profiles[n].set[s] = "on"
                 IN  IF s \in Escalating
                     THEN /\ r.value = "on" <=>
                               on \/ (s \in DOMAIN request.args /\ request.args[s] = "on")
                                  \/ (s \in DOMAIN request.env /\ request.env[s] = "on")
                          /\ r.origin \in line => request.profiles[r.origin].set[s] = "on"
                     ELSE IF Given(s) THEN r.origin = Settings!Cli
                     ELSE IF With(s) # {}
                     THEN /\ r.origin \in With(s) /\ r.value = request.profiles[r.origin].set[s]
                          /\ \A n \in With(s) : Nearer(request.profiles, r.origin, n)
                     ELSE IF s \in DOMAIN request.base
                     THEN r = [value |-> request.base[s], origin |-> Settings!Base]
                     ELSE r = [value |-> request.defaults[s], origin |-> Settings!BuiltIn]

\* The library and the command line take an invocation for the same run, as long
\* as it has no option that only the command line knows and does not mix a
\* manifest with an on-chain contract (which the library reads as the manifest).
Shared == {"manifest", "old_dir", "new_dir", "contract_id", "rpc_url"}
ModesAgree ==
    command = "mode" /\ request.options \subseteq Shared => answer.library = answer.cli

\* A rule stands for one category, and carries the reason that category demands.
\* A text for a category that is written otherwise than the tool writes it is
\* not looked up, so such a rule is left out.
Reasoned(rule, doc) ==
    \A c \in Document!Matches(rule) :
        (rule.category \in {Document!Absent, c}
           /\ (RuleId[c] \in doc.reasons.rules \/ CategoryAxes[c] \cap doc.reasons.axes # {}))
        => rule.reason
SpeaksOnce(rule) == Cardinality({RuleId[rule.category], rule.ruleId} \ {Document!Absent}) = 1
RulesStand(doc) ==
    \A i \in DOMAIN doc.rules :
        /\ Cardinality(Document!Matches(doc.rules[i])) = 1
        /\ SpeaksOnce(doc.rules[i])
        /\ Reasoned(doc.rules[i], doc)
        /\ doc.rules[i].expiry \in {"", "future"}
LimitsStand(doc) ==
    LET broad == {i \in DOMAIN doc.rules : ~doc.rules[i].targeted}
    IN  /\ Len(doc.rules) =< (IF doc.max = -1 THEN MaxRules ELSE doc.max)
        /\ Cardinality(broad) =< (IF doc.allowTargetless THEN MaxTargetless ELSE 0)
        /\ ~doc.zero /\ \A n \in DOMAIN doc.profiles : ~doc.profiles[n].zero
Whole(doc) ==
    /\ RulesStand(doc) /\ LimitsStand(doc)
    /\ \A n \in DOMAIN doc.profiles : Sound(doc.profiles, n)
    /\ doc.default \in {Document!Absent} \cup DOMAIN doc.profiles

\* A configuration file that --validate-config accepts loads, each of its rules
\* clears one category and has its reason, and each of its profiles resolves; and
\* such a file is refused only if its budgets are. The library takes the same
\* files where nothing but the file sets the limits. A run of the command line
\* demands the reasons too, as long as a rule does not speak of two categories. A
\* file that is named is never passed over.
Plain(doc) == doc.extra = {} /\ ~doc.defaults /\ doc.pairs = <<>>
WrittenOut(doc) ==
    \A i \in DOMAIN doc.rules : doc.rules[i].category \in Category \cup {Document!Absent}
ConfigsTell ==
    command = "config" =>
        LET doc == request.doc
            found == answer.run.place
        IN  /\ answer.valid => Whole(doc) \/ doc.pairs # <<>> \/ doc.defaults
            /\ Plain(doc) /\ WrittenOut(doc) /\ Whole(doc) /\ Budget!BudgetsLoad(doc.budgets)
                 /\ doc.metrics = {} => answer.valid
            /\ Plain(doc) /\ request.profile = Document!Absent /\ doc.default = Document!Absent
                 /\ request.envMax = -1 /\ request.envAllow = "unset" => answer.valid = answer.library
            /\ answer.run.refused => ~answer.valid \/ request.places[found] = "missing"
            /\ ~request.noConfig => \A p \in {"cli", "env"} :
                 request.places[p] # "none" => found \in {"cli", "env"}
            /\ ~answer.run.refused /\ found # "none" => \A i \in DOMAIN doc.rules :
                 SpeaksOnce(doc.rules[i]) => Reasoned(doc.rules[i], doc)

\* The layer that --show-config names for a setting decides it: its value stays
\* the same without any layer below that one, and without the layer it falls back
\* to the default. The default decides where no other value is given. A variable
\* that is set to nothing is left out.
Without(r, layers) ==
    [args |-> IF "cli" \in layers THEN <<>> ELSE r.args,
     env  |-> IF "env" \in layers THEN <<>> ELSE r.env,
     file |-> IF "config file" \in layers THEN [r.file EXCEPT !.found = FALSE] ELSE r.file]
ShownDecides ==
    command = "shown" /\ ~answer.refused
      /\ (\A s \in DOMAIN request.env : request.env[s] # Settings!Blank) =>
        LET value == [s \in DOMAIN answer.shown |-> answer.shown[s].value]
            ValueWithout(s, layers) ==
                Settings!ShowConfig(Without(request, layers)).shown[s].value
        IN  \A s \in DOMAIN answer.shown :
               CASE answer.shown[s].source = "cli" ->
                        /\ s \in DOMAIN request.args
                        /\ value[s] = request.args[s] /\ value[s] # Settings!Default
                        /\ value[s] = ValueWithout(s, {"env", "config file"})
                 [] answer.shown[s].source = "env" ->
                        /\ s \in DOMAIN request.env /\ s \notin DOMAIN request.args
                        /\ value[s] = ValueWithout(s, {"config file"})
                        /\ ValueWithout(s, {"env"}) = Settings!Default
                 [] answer.shown[s].source = "config file" ->
                        /\ value[s] = ValueWithout(s, {"cli", "env"})
                        /\ s # "rule_count" => value[s] # ValueWithout(s, {"config file"})
                 [] answer.shown[s].source = "default" ->
                        /\ value[s] = Settings!Default
                        /\ value[s] = ValueWithout(s, {"cli", "env", "config file"})
                 [] OTHER -> s = "color"

SettingsTell == OriginTells /\ ModesAgree /\ ConfigsTell /\ ShownDecides

------------------------------------------------------------------------------
(* Interfaces *)

\* What two builds must share to have the same interface: documentation and
\* libraries are not part of it, nor is the order of the cases of an enum.
CaseCount(ms) ==
    [c \in {<<ms[i].name, ms[i].value>> : i \in DOMAIN ms} |->
        Cardinality({i \in DOMAIN ms : <<ms[i].name, ms[i].value>> = c})]
Shape(e) ==
    [valued |-> IF e.sort \in Interface!Valued THEN {CaseCount(e.members)} ELSE {},
     placed |-> IF e.sort \in Interface!Valued THEN <<>>
                ELSE [i \in DOMAIN e.members |->
                        <<e.members[i].name, e.members[i].void, e.members[i].types>>],
     outputs |-> e.outputs]
Shapes(spec) == [k \in DOMAIN spec |-> Shape(spec[k])]

\* A lockfile stands for the build it was made of: it can be read back, as can an
\* extracted specification, and gives that build's declarations. Edited by hand,
\* it is still accepted exactly if the interface is the same one.
LockfileStands ==
    command = "lockfile" /\ answer.written =>
        LET spec == Interface!FromEntries(request.entries)
            edited == Interface!FromEntries(request.edited)
            legible == \A i \in DOMAIN request.edited :
                          Interface!Texts(request.edited[i]) \cap TooLong = {}
        IN  /\ answer.readBack = [refused |-> FALSE, spec |-> spec]
            /\ answer.extracted = spec
            /\ ~answer.edited.refused <=>
                 /\ Shapes(edited) = Shapes(spec)
                 /\ Len(request.edited) = Cardinality(DOMAIN edited)
                 /\ legible /\ request.version = Interface!LockfileVersion

\* One step of a walk over types: into a container or into a definition.
Inside(spec, types) ==
    UNION {IF t.con = "udt" THEN Interface!MemberTypes(Interface!Body(spec, t.of))
           ELSE {t.args[i] : i \in DOMAIN t.args} : t \in types}
\* What is left to walk after k steps, and what was met on the way.
Left(spec, types, k) ==
    LET left[n \in Nat] == IF n = 0 THEN types ELSE Inside(spec, left[n - 1])
    IN  left[k]
Met(spec, types) ==
    UNION {Left(spec, types, k) : k \in 0 .. 3 * (Cardinality(DOMAIN spec) + 1)}
MetNames(spec, types) == {t.of : t \in {u \in Met(spec, types) : u.con = "udt"}}
Cyclic(spec) ==
    \E n \in Interface!Known(spec) : n \in MetNames(spec, Interface!MemberTypes(Interface!Body(spec, n)))

\* What a lint without errors lets every other part of the tool rely on: a name
\* has one declaration, the types it refers to exist, and an enum's value has one
\* case. A type that a function reaches is never told to be unreachable. Without
\* cycles, a shape is told to be too deep exactly if a walk over it takes more
\* steps than the limit.
LintSound ==
    command = "lint" =>
        LET entries == request.entries
            spec == Interface!FromEntries(entries)
            Told(rule, k) == \E f \in answer.findings : f.rule = rule /\ <<f.about[1], f.about[2]>> = k
            Types(e) == Interface!MemberTypes(e.members) \cup {e.outputs[i] : i \in DOMAIN e.outputs}
            byFunctions == MetNames(spec, UNION {Types(spec[k]) : k \in DOMAIN spec \ Interface!Udts(spec)})
        IN  /\ answer.code # 2 =>
                 /\ \A i, j \in DOMAIN entries :
                       entries[i].name = entries[j].name
                         /\ (entries[i].sort = "function" <=> entries[j].sort = "function") => i = j
                 /\ \A i \in DOMAIN entries :
                       /\ Interface!RefsOf(Types(entries[i])) \subseteq Interface!Known(spec)
                       /\ entries[i].sort \in Interface!Valued =>
                            \A m, n \in DOMAIN entries[i].members :
                               entries[i].members[m].value = entries[i].members[n].value => m = n
            /\ \A k \in Interface!Udts(spec) :
                 k[2] \in byFunctions => ~Told("unreachable-declaration", k)
            /\ ~Cyclic(spec) =>
                 \A k \in {u \in DOMAIN spec : u[1] \in {"function", "struct", "union"}} :
                    Told("unanalyzable-recursive-shape", k)
                      <=> Left(spec, Types(spec[k]), request.maxWalkDepth + 1) # {}

\* The impact graph of two builds that a lint accepts, with no name for two
\* things, shows every reference of either build between the things it is
\* between, marks whatever a finding is about as changed and with the finding's
\* axes, and has both ends of every edge, cut short or not.
Accepted(entries) ==
    \A f \in Interface!LintFindings(entries, "none", 9) : f.severity # "error"
Apart(r) ==
    \A spec \in {Interface!FromEntries(r.old), Interface!FromEntries(r.new)} :
        /\ Graph!Functions(spec) \cap
             (Interface!Known(Interface!FromEntries(r.old)) \cup Interface!Known(Interface!FromEntries(r.new))) = {}
        /\ (Graph!Functions(spec) \cup Interface!Known(spec)) \cap
             (Graph!Storages(r.oldSchema) \cup Graph!Storages(r.newSchema)) = {}
References(entries) ==
    UNION {{<<entries[i].name, n>> : n \in Interface!RefsOf(Interface!MemberTypes(entries[i].members))} :
             i \in {j \in DOMAIN entries : entries[j].sort \in {"struct", "union"}}}
GraphTells ==
    command = "graph" /\ Accepted(request.old) /\ Accepted(request.new) /\ Apart(request) =>
        LET graph == answer.graph
            ids == {n.id : n \in graph.nodes}
        IN  /\ \A e \in graph.edges : {e.source, e.target} \subseteq ids
            /\ ~graph.truncated =>
                 /\ {<<e.source[2], e.target[2]>> : e \in {d \in graph.edges : d.kind = "depends_on"}}
                      = References(request.old) \cup References(request.new)
                 /\ \A i \in DOMAIN request.findings :
                      \A n \in graph.nodes :
                         n.id[2] = request.findings[i].typeName /\ n.status # "not applicable" =>
                           n.status # "retained" /\ request.findings[i].axes \subseteq n.axes
            /\ graph.truncated <=>
                 Cardinality(graph.nodes) < graph.totalNodes \/ Cardinality(graph.edges) < graph.totalEdges

\* A module that is read is read whole: its specification is that of every section
\* of it, item by item, each by a decoder that owns the version the last
\* environment section states, and every import has the type it refers to, or
\* none. It is refused exactly if a payload is broken, or an item of a section is
\* one that the first decoder for that version does not know. What can be
\* recovered of a section is what stands before the first unknown item, and no
\* byte of the rest is left out of the count.
StatedVersion(module) ==
    LET envs == {i \in DOMAIN module : module[i].what = "env"}
        last == CHOOSE i \in envs : \A j \in envs : j =< i
    IN  IF envs = {} \/ module[last].versions = <<>> THEN Extract!NoVersion
        ELSE Extract!FromRaw(module[last].versions[1])
Joined(lists) ==
    LET all[i \in 0 .. Len(lists)] == IF i = 0 THEN <<>> ELSE all[i - 1] \o lists[i]
    IN  all[Len(lists)]
ItemsOf(specs) == Joined([i \in DOMAIN specs |-> specs[i].items])
TypesOf(sections) == Joined([i \in DOMAIN sections |-> sections[i].types])
Owns(decoder, version) == Extract!MayBypass(decoder, version)
Knows(registry, version, items) ==
    \E k \in DOMAIN registry :
        /\ Owns(registry[k], version) /\ \A j \in 1 .. k - 1 : ~Owns(registry[j], version)
        /\ \A i \in DOMAIN items : items[i].form \in registry[k].reads
SizeOf(items) ==
    LET sum[i \in 0 .. Len(items)] == IF i = 0 THEN 0 ELSE sum[i - 1] + items[i].size
    IN  sum[Len(items)]
ExtractionWhole ==
    command = "extract" =>
        LET version == StatedVersion(request.module)
            specs == Extract!Sections(request.module, "spec")
            items == ItemsOf(specs)
            types == TypesOf(Extract!Sections(request.module, "types"))
            legible == \A i \in DOMAIN request.module :
                          /\ request.module[i].what \notin {"unreadable", "bad code"}
                          /\ request.module[i].what = "env" => ~request.module[i].broken
        IN  /\ ~answer.read.refused <=>
                 legible /\ (specs = <<>> \/ Knows(request.registry, version, items))
            /\ ~answer.read.refused =>
                 /\ answer.read.version = version
                 /\ [i \in DOMAIN answer.read.spec |-> answer.read.spec[i].name]
                      = [i \in DOMAIN items |-> items[i].name]
                 /\ specs # <<>> => \E k \in DOMAIN request.registry :
                      /\ Owns(request.registry[k], version)
                      /\ \A i \in DOMAIN answer.read.spec :
                            answer.read.spec[i].schema = request.registry[k].schema
                 /\ Len(answer.read.imports) = Len(Extract!Sections(request.module, "import"))
                 /\ \A i \in DOMAIN answer.read.imports :
                      LET signature == answer.read.imports[i].signature
                          index == Extract!Sections(request.module, "import")[i].index
                      IN  signature # "unresolved" =>
                            index \in DOMAIN types /\ signature = types[index] /\ signature # "struct"
            /\ \A i \in DOMAIN specs :
                 LET told == answer.recovered[i]
                     known == Len(told.entries)
                 IN  /\ told.status = "unsupported" <=>
                          \A k \in DOMAIN request.registry : ~Owns(request.registry[k], version)
                     /\ told.status = "decoded" =>
                          known = Len(specs[i].items) /\ Knows(request.registry, version, specs[i].items)
                     /\ told.status = "partial" =>
                          /\ ~Knows(request.registry, version, specs[i].items)
                          /\ \A j \in 1 .. known :
                                /\ told.entries[j].name = specs[i].items[j].name
                                /\ specs[i].items[j].form = "current"
                          /\ known < Len(specs[i].items) => specs[i].items[known + 1].form # "current"
                          /\ told.skipped >= SizeOf(SubSeq(specs[i].items, known + 1, Len(specs[i].items)))

BuildsUnderstood == LockfileStands /\ LintSound /\ GraphTells /\ ExtractionWhole

-----------------------------------------------------------------------------
(* Inputs *)

\* The layer that a kind of artifact is, by a manifest.
IsLayer(bytes, manifest, kind) ==
    \E i \in DOMAIN manifest.layers :
        /\ manifest.layers[i].type \in AcceptedTypes[kind]
        /\ \A j \in 1 .. i - 1 : manifest.layers[j].type \notin AcceptedTypes[kind]
        /\ manifest.layers[i].digest = [alg |-> "sha256", hex |-> bytes]

Pins(ref, bytes, world, config, use) ==
    CASE ref.scheme = "https" -> bytes = ref.digest.hex
      [] ref.scheme = "oci" ->
            \E m \in DOMAIN OciManifest :
                /\ IF ref.digest # Input!Unpinned THEN m = ref.digest.hex
                   ELSE config.allowTags /\ m = world.registry.manifest.body
                /\ IsLayer(bytes, OciManifest[m], IF use = "module" THEN "wasm" ELSE "spec")
      [] OTHER -> TRUE

\* Whatever a site, a registry, a disk or an earlier run left in a cache: the bytes
\* that go on are the ones the reference pins and, for a baseline, the ones the
\* user pins, are a module where one is due, and under the policy do not come
\* through a link that was there when the load began.  A run on a disk that writes
\* spares the next one the download, and that one names the same origin.
LoadsPinned ==
    command = "load" =>
        LET r == request
            loads == answer.loads
            Page(i) == Input!Get(r.worlds[i].registry.manifest, r.worlds[i].registry,
                                 r.worlds[i].docker, r.config)
        IN  /\ \A i \in DOMAIN loads : loads[i].loaded =>
                 /\ Pins(r.ref, loads[i].bytes, r.worlds[i], r.config, r.use)
                 /\ loads[i].sha256 = loads[i].bytes
                 /\ r.use = "module" => loads[i].bytes \in Wasm
                 /\ r.use = "module" /\ r.ref.scheme = "path" /\ r.config.rejectLinks =>
                      r.worlds[i].path[1].link = Input!Nothing
            /\ \A i \in answer.judged : r.expected \in {Input!Nothing, loads[i].bytes}
            /\ \A i \in DOMAIN loads : i > 1 /\ loads[i - 1].loaded =>
                 LET last == loads[i - 1]
                 IN  /\ r.ref.scheme = "https" /\ last.status = "miss"
                          /\ r.worlds[i - 1].disk = "writes" =>
                          loads[i].loaded /\ loads[i].status = "hit" /\ loads[i].origin = last.origin
                     /\ r.ref.scheme = "oci" /\ last.status = "miss"
                          /\ r.worlds[i - 1].disk = "writes" /\ Page(i) = last.manifest =>
                          loads[i].loaded /\ loads[i].status = "hit" /\ loads[i].type = last.type
            /\ answer.advisory => \A i \in DOMAIN loads :
                 loads[i].loaded => r.ref.scheme \notin {"-", "https", "oci"}

\* The last entry that a module can be read to tell a field by.
LastTold(entries, field) ==
    {i \in DOMAIN entries :
        /\ \A j \in 1 .. i : entries[j].key # Input!Nothing
        /\ entries[i].key \in DOMAIN Input!FieldOf /\ Input!FieldOf[entries[i].key] = field
        /\ \A j \in i + 1 .. Len(entries) :
              (\A k \in i + 1 .. j : entries[k].key # Input!Nothing) =>
                  ~(entries[j].key \in DOMAIN Input!FieldOf /\ Input!FieldOf[entries[j].key] = field)}

\* What a manifest states is told to be verified, mismatched or unverified, by each
\* of the three comparisons; none tells a field to be verified that the module's
\* last word on it contradicts; and they agree, but for the order of the features
\* and for what only the module tells.
ProvenanceTold ==
    command = "provenance" =>
        LET stated == Input!Stated(request.manifest)
            All(told) == told.verified \cup told.mismatched \cup told.unverified
        IN  /\ stated \subseteq All(answer.module) /\ stated = All(answer.entry)
            /\ stated \ {"artifact_sha256"} = All(answer.report)
            /\ \A f \in stated \ {"features", "artifact_sha256"} :
                 f \in answer.module.verified =>
                    \E i \in LastTold(request.entries, f) : request.entries[i].value = request.manifest[f]
            /\ answer.stands /\ "artifact_sha256" \in stated =>
                 ("artifact_sha256" \in answer.module.verified
                    <=> request.manifest["artifact_sha256"] = request.sha256)
            /\ answer.entry.verified \subseteq answer.module.verified
            /\ answer.module.verified \ answer.entry.verified \subseteq {"features"}
            /\ answer.module.mismatched \subseteq answer.entry.mismatched
            /\ answer.report.verified = answer.entry.verified \ {"artifact_sha256"}
            /\ answer.report.mismatched = answer.entry.mismatched \ {"artifact_sha256"}

\* The bytes that a verdict is about are the ones that were asked for, and the
\* build they are said to come from is the one they tell.
InputsPinned == LoadsPinned /\ ProvenanceTold

==============================================================================
