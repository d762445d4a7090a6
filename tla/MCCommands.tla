----------------------------- MODULE MCCommands -----------------------------
(***************************************************************************)
(* The requests that the answers of module Commands are checked for.        *)
(***************************************************************************)
EXTENDS CommandProperties

-----------------------------------------------------------------------------
(* Two builds: their sections first, then what they ask of the host *)

MCCapability == [put |-> 20, hash |-> 22]
MCMaxEntries == 2

Entry(sort, from, type, min, max, mutable) ==
    [sort |-> sort, from |-> from, type |-> type, min |-> min, max |-> max, mutable |-> mutable,
     items |-> "funcref"]
Memory(from, type, min, max) == Entry("memory", from, type, min, max, FALSE)
Global(from, type, mutable) == Entry("global", from, type, 0, 0, mutable)

\* In the order of the sections of a binary.
Sections == <<
    Memory("env", "plain", 1, 2), Memory("host", "shared", 1, 2),
    Global("env", "i64", TRUE), Global("env", "v128", FALSE),
    Entry("table", "env", "funcref", 1, Host!Unbounded, FALSE),
    Entry("table", Host!Local, "externref", 2, 2, FALSE),
    Memory(Host!Local, "plain", 1, Host!Unbounded), Memory(Host!Local, "plain", 2, 2),
    Memory(Host!Local, "plain", 2, Host!Unbounded),
    Global(Host!Local, "i64", TRUE), Global(Host!Local, "externref", FALSE),
    Entry("start", Host!Local, "", 1, 1, FALSE), Entry("start", Host!Local, "", 2, 2, FALSE),
    Entry("element", Host!Local, "active", 2, 2, FALSE),
    Entry("element", Host!Local, "passive", 1, 1, FALSE),
    [Entry("element", Host!Local, "active", 1, 1, FALSE) EXCEPT !.items = "externref"],
    Entry("data", Host!Local, "passive", 1, 1, FALSE) >>

Sorted == {<<>>} \cup {<<Sections[i]>> : i \in DOMAIN Sections}
            \cup {<<Sections[i], Sections[j]>> : i, j \in DOMAIN Sections}
InOrder(es) ==
    Len(es) = 2 => \E i, j \in DOMAIN Sections :
        /\ i =< j /\ es = <<Sections[i], Sections[j]>>
        /\ ~(es[1].sort = "start" /\ es[2].sort = "start")
MCEntries == {es \in Sorted : InOrder(es)}

MCEnv == {Host!NoMeta} \cup [protocol : {20, 22}, prerelease : {0, 1}]
Signature == {"one", "two", Host!Unresolved}
MCImports ==
    (UNION {[F -> Signature] : F \in {{}, {"put"}, {"hash"}, {"odd"}}})
      \cup [{"put", "hash"} -> {"one"}] \cup [{"put", "odd"} -> {"one"}]
      \cup [{"put", "hash", "odd"} -> {"one"}]

Build(entries, imports, env) == [entries |-> entries, imports |-> imports, env |-> env]
NoImports == [f \in {} |-> "one"]
Recent == [protocol |-> 22, prerelease |-> 0]

HostRequests ==
    {[plain |-> FALSE, old |-> Build(o, NoImports, Recent), new |-> Build(n, NoImports, Recent)] :
        o, n \in MCEntries}
      \cup {[plain |-> plain, old |-> Build(<<>>, oi, oe), new |-> Build(<<>>, ni, ne)] :
              plain \in BOOLEAN, oi, ni \in MCImports, oe, ne \in MCEnv}

-----------------------------------------------------------------------------
(* Two modules and their storage schemas *)

MCMaxWasmBytes == 1
MCMaxInstructions == 4
MCMaxCalls == 2

Classified(operation, durability) == [operation |-> operation, durability |-> durability]
MCHostCalls ==
    [set |-> Classified("set", "persistent"), get |-> Classified("get", Storage!Unstated),
     log |-> Storage!NotStorage]

Body(ops) == [name |-> "author's", ops |-> ops]
MCModules ==
    {[bytes |-> 1, bodies |-> bodies, exports |-> TRUE, host |-> MCHostCalls] : bodies \in
        {<<>>, <<Body(<<"log">>)>>, <<Body(<<"set">>)>>, <<Body(<<"other">>), Body(<<"get", "set">>)>>,
         <<Body(<<"set", "indirect">>), Body(<<"set">>)>>, <<Body(<<"set", "get", "get">>)>>,
         <<Body(<<"other", "other", "other", "other", "get">>)>>}}
      \cup {[bytes |-> 2, bodies |-> <<>>, exports |-> TRUE, host |-> MCHostCalls]}

Declaration(name, function, operation, durability, namespace) ==
    [name |-> name, function |-> function, operation |-> operation, durability |-> durability,
     namespace |-> namespace, key |-> Storage!Unstated, value |-> "u64"]
Setter == Declaration("admin", Storage!Unstated, "set", Storage!Unstated, "none")
Getter == Declaration("count", Storage!Unstated, "get", Storage!Unstated, "none")
MCDeclarations ==
    {Setter, Getter,
     [Setter EXCEPT !.durability = "persistent"], [Setter EXCEPT !.durability = "temporary"],
     [Setter EXCEPT !.namespace = "v2"], [Setter EXCEPT !.function = Storage!Label(0)],
     [Setter EXCEPT !.operation = "unknown"], [Getter EXCEPT !.name = ""]}
MCSchemas == {<<>>} \cup {<<d>> : d \in MCDeclarations}
               \cup {<<d, Getter>> : d \in MCDeclarations} \cup {<<Getter, Setter>>}

StorageRequests ==
    {[oldModule |-> om, newModule |-> nm, old |-> o, new |-> n, suppressed |-> s,
      settings |-> [strict |-> FALSE, gated |-> g]] :
        om \in {m \in MCModules : Len(m.bodies) > 1 \/ m.bytes > 1}, nm \in MCModules, o, n \in MCSchemas,
        s \in {FALSE}, g \in {{}, {"storage_layout"}}}

-----------------------------------------------------------------------------
(* Budgets *)

MCKnownRule == {"SC001"}
MCFamily == {"calls", "memory", "arithmetic"}
MCMaxFunctions == 2
MCMaxPerFunction == 3

Table(scope, severity, metric, limit) ==
    [scope |-> scope, severity |-> severity, metric |-> metric, limit |-> limit]
MCTables ==
    {Table(<<"global">>, s, m, l) :
        s \in {Budget!AnySeverity, "warning"}, m \in {"raw", "unsuppressed"}, l \in {0, 1}}
      \cup {Table(<<"axis", "call_abi">>, Budget!AnySeverity, "unsuppressed", l) : l \in {-1, 0}}
      \cup {Table(<<"rule", r>>, Budget!AnySeverity, "raw", 0) : r \in {"SC001", "SC999"}}

Reported(rule, axes, severity, suppressed) ==
    [rule |-> rule, axes |-> axes, severity |-> severity, suppressed |-> suppressed]
MCFindings ==
    {<<>>, <<Reported("SC001", <<"call_abi">>, "warning", TRUE)>>,
     <<Reported("SC002", <<"call_abi", "storage_layout">>, "warning", FALSE)>>,
     <<Reported("SC002", <<"storage_layout">>, "critical", FALSE),
       Reported("SC001", <<"storage_layout">>, "warning", FALSE)>>}

BudgetRequests ==
    {[tables |-> ts, findings |-> fs] :
        ts \in {<<>>} \cup {<<t>> : t \in MCTables} \cup MCTables \X MCTables
                 \cup MCTables \X MCTables \X MCTables,
        fs \in MCFindings}

MCBodies ==
    {<<>>, <<<<"calls">>>>, <<<<"calls", "memory">>, <<"memory">>>>,
     <<<<"memory", "memory", "memory">>, <<"calls", "arithmetic", "calls">>>>,
     <<<<"calls", "calls", "calls", "calls">>>>, <<<<"calls">>, <<>>, <<"memory">>>>}
Bound(metric, limit, percent) == [metric |-> metric, limit |-> limit, percent |-> percent]
MCBounds ==
    [metric : {"total_instructions", "defined_functions", "memory", "floats"},
     limit : {-1, 0, 3}, percent : {-1, 0, 50, 99}]

ComplexityRequests ==
    {[old |-> o, new |-> n, tables |-> ts] :
        o, n \in MCBodies, ts \in {{}} \cup {{b} : b \in MCBounds}
                             \cup {{b, Bound("memory", 3, 0)} : b \in MCBounds}}

-----------------------------------------------------------------------------
(* The verdict *)

MCAxis == {"call_abi", "storage_layout"}

Past(severity, axes, suppressed) == [severity |-> severity, axes |-> axes, suppressed |-> suppressed]
MCHistories ==
    {<<>>, <<Past("critical", {"storage_layout"}, FALSE)>>, <<Past("warning", {"call_abi"}, FALSE)>>,
     <<Past("critical", {"storage_layout"}, TRUE), Past("info", {"call_abi"}, FALSE)>>}
Field(declared, observed) == [declared |-> declared, observed |-> observed]
MCFields ==
    {<<>>, <<Field("1", "1")>>, <<Field("1", "2"), Field("1", Report!Unknown)>>,
     <<Field(Report!Unknown, "1")>>}

ReportRequests ==
    {[driver |-> d, axes |-> [a \in MCAxis |-> IF a = "call_abi" THEN x ELSE "passed"],
      over |-> over, mismatches |-> ms, history |-> h, undecodable |-> u,
      profiled |-> p, exceeded |-> {"calls"}, fields |-> fs, stale |-> st, gateManifest |-> gm,
      settings |-> [strict |-> s, gated |-> g]] :
        d \in {"library", "binding", "command line", "same bytes"}, x \in {"passed", "failed"},
        over \in {{}, {"budget"}}, ms \in {<<>>, <<[suppressed |-> FALSE]>>},
        h \in MCHistories, u, p, st, gm, s \in BOOLEAN, fs \in MCFields,
        g \in {{"call_abi"}, {"storage_layout"}}}

-----------------------------------------------------------------------------
(* Attestations and policy bundles *)

MCTrusted == {[alice |-> "ka"], [bob |-> "kb"], [alice |-> "kb"], [alice |-> "ka", bob |-> "kb"]}
Stray == [keyid |-> "bob", by |-> "kb",
          over |-> Evidence!Pae(Evidence!StatementType, [form |-> "another"])]
Policy(expiresAt, gates, reasons) ==
    [form |-> "policy", known |-> TRUE, canonical |-> TRUE, expiresAt |-> expiresAt,
     gates |-> gates, reasons |-> reasons]

TheFiles == [report |-> "r", old |-> "o", new |-> "n"]
TheSchemas == [f \in {"old schema", "new schema"} |-> f]
MCPaths == {TheFiles, TheFiles @@ TheSchemas, TheFiles @@ [f \in DOMAIN TheSchemas |-> "schema"]}
Given(paths) ==
    UNION {[ks -> {"as attested", "changed"}] :
             ks \in {k \in SUBSET DOMAIN paths :
                       Cardinality(k) >= 2 /\ ("old schema" \in k => "new" \in k)}}
Attested(paths) == [f \in DOMAIN paths |-> "as attested"]

Attestation(paths, again, given, made, keyid, trusted, retyped, added, expired) ==
    [paths |-> paths, first |-> Attested(paths), again |-> again, given |-> given, made |-> made,
     bundle |-> Policy(Evidence!NoExpiry, {}, {}), keyid |-> keyid, key |-> "ka", trusted |-> trusted,
     retyped |-> retyped, added |-> added, expired |-> expired]

AttestRequests ==
    (UNION {{Attestation(paths, again, given, "attested", "alice", [alice |-> "ka"], FALSE, <<>>, FALSE) :
               given \in Given(paths),
               again \in {Attested(paths), [Attested(paths) EXCEPT !["old"] = "changed"]}} :
              paths \in MCPaths})
      \cup {Attestation(TheFiles, Attested(TheFiles), Attested(TheFiles), made, keyid, trusted,
                        retyped, added, expired) :
              made \in {"attested", "a policy"}, keyid \in {"alice", "bob"}, trusted \in MCTrusted,
              retyped, expired \in BOOLEAN, added \in {<<>>, <<Stray>>}}

PolicyRequests ==
    {[bundle |-> b, sent |-> s, signedAs |-> t, keyid |-> k, key |-> "ka", trusted |-> trusted,
      added |-> added, policy |-> [gates |-> {"call_abi"}, reasons |-> reasons],
      rules |-> rules, now |-> now] :
        b \in {Policy(3, {"call_abi"}, {"SC002"}), Policy(Evidence!NoExpiry, {"storage_layout"}, {})},
        s \in {Policy(3, {"call_abi"}, {"SC002"}), Policy(Evidence!NoExpiry, {"storage_layout"}, {}),
               Policy(Evidence!NoExpiry, {}, {}),
               [Policy(3, {"call_abi"}, {"SC002"}) EXCEPT !.known = FALSE],
               [Policy(3, {"call_abi"}, {"SC002"}) EXCEPT !.canonical = FALSE]},
        t \in {Evidence!PolicyType, Evidence!StatementType}, k \in {"alice", "bob"},
        trusted \in MCTrusted, added \in {<<>>, <<Stray>>}, reasons \in {{}, {"SC001"}},
        rules \in {{}, {[rule |-> "SC001", reason |-> FALSE]}, {[rule |-> "SC001", reason |-> TRUE]}},
        now \in {2, 3}}

-----------------------------------------------------------------------------
(* Evidence bundles *)

MCBadName == {".."}
MCMaxMembers == 2
MCMaxMemberBytes == 2
MCMaxTotalBytes == 3

Holding(is, size) == [is |-> is, size |-> size]
One == Holding("one", 1)
Two == Holding("two", 2)
Large == Holding("large", 3)
Other == Holding("other", 1)
FileSource(c) == [hashed |-> c, copied |-> c, inPlace |-> FALSE]
Sources(a, b) == [n \in {"a", "b", "..", "c"} |-> IF n = "a" THEN a ELSE IF n = "b" THEN b
                                                ELSE FileSource(One)]
MCFirst == {Sources(FileSource(x), FileSource(y)) : x, y \in {One, Two}}
MCSecond == MCFirst \cup {Sources(s, FileSource(One)) :
                s \in {FileSource(Large), FileSource(Other), [FileSource(Two) EXCEPT !.copied = One],
                       [FileSource(One) EXCEPT !.inPlace = TRUE]}}
MCBuilds ==
    {[version |-> 1, declared |-> [revision |-> "r"], features |-> fs, artifacts |-> as] :
        fs \in {<<"x">>, <<"x", "x">>},
        as \in {<<>>, <<[name |-> "a", digest |-> "one"]>>, <<[name |-> "c", digest |-> "one"]>>}}
MCObserved == {[fields |-> [revision |-> "r"], declaresFeatures |-> FALSE, features |-> <<>>],
               [fields |-> [f \in {} |-> "r"], declaresFeatures |-> TRUE, features |-> <<"x">>]}

BundleRequests ==
    {[names |-> ns, sources |-> s, sources2 |-> t, stop |-> stop,
      change |-> [what |-> w, name |-> n, content |-> One], build |-> b, observed |-> o] :
        ns \in {<<"a", "b">>, <<"..", "a">>, <<"a", "b", "c">>}, s \in MCFirst, t \in MCSecond,
        stop \in {0, 1, 2, 3, 4}, w \in {"nothing", "bytes", "claim", "removed"}, n \in {"a"},
        b \in MCBuilds, o \in MCObserved}

-----------------------------------------------------------------------------
(* Settings *)

MCEscalating == {"strict"}
MCMaxDepth == 2

Setting(s, v) == [x \in {s} |-> v]
Unset == [x \in {} |-> "on"]
MCLayers == {Unset, Setting("strict", "on"), Setting("strict", "off"), Setting("format", "text"),
             Setting("format", "json"), [strict |-> "on", format |-> "sarif"]}
Profile(inherits, set) == [inherits |-> inherits, set |-> set]
MCProfiles ==
    {[base |-> Profile(ib, sb), ci |-> Profile(ic, sc), deep |-> Profile("ci", Unset)] :
        ib \in {Settings!NoParent, "ci", "base"}, ic \in {Settings!NoParent, "base", "gone"},
        sb, sc \in MCLayers}
Chosen(args, env, file) == [args |-> args, env |-> env, file |-> file]

SettingsRequests ==
    {[profiles |-> ps, profile |-> c, base |-> b, args |-> a, env |-> e,
      defaults |-> [strict |-> "off", format |-> "text"]] :
        ps \in MCProfiles,
        c \in {Chosen("", "", ""), Chosen("ci", "base", ""), Chosen("", "base", "ci"),
               Chosen("", "", "deep"), Chosen("", "gone", "ci")},
        b \in {Unset, Setting("strict", "on"), Setting("format", "json")},
        a \in {Setting("format", "text"), [strict |-> "on", format |-> "json"]},
        e \in {Unset, Setting("strict", "off"), Setting("format", "sarif")}}

MCCategory == {"Function Removed", "Struct Removed"}
\* The second spelling of a category has its rule id; the last is no category.
MCRuleId ==
    "Function Removed" :> "function_removed" @@ "function removed" :> "function_removed"
      @@ "Struct Removed" :> "struct_removed" @@ "Contract Removed" :> "contract_removed" @@ "" :> ""
MCCategoryAxes ==
    [c \in DOMAIN MCRuleId |-> IF c = "Function Removed" THEN {"call_abi"} ELSE {"storage_layout"}]
MCSchemaKeys == {"expected_wasm_hash"}
MCFileKeys == {"build_manifest"}
MCMaxRules == 3
MCMaxTargetless == 1
MCBadId == {"a/b"}

Rule(category, ruleId, targeted, reason, expiry) ==
    [category |-> category, ruleId |-> ruleId, targeted |-> targeted, reason |-> reason,
     expiry |-> expiry]
Struct(targeted) == Rule("Struct Removed", "", targeted, FALSE, "")
Reasons(rules, axes) == [rules |-> rules, axes |-> axes]
NoProfiles == [n \in {} |-> [inherits |-> "", zero |-> FALSE, max |-> -1]]
BlankDocument ==
    [extra |-> {}, defaults |-> FALSE, pairs |-> <<>>, version |-> 1, zero |-> FALSE,
     profiles |-> NoProfiles, default |-> "", rules |-> <<>>, allowTargetless |-> TRUE, max |-> -1,
     reasons |-> Reasons({}, {}), budgets |-> <<>>, metrics |-> {}]

MCRuleDocuments ==
    {[BlankDocument EXCEPT !.rules = <<Rule(c, i, TRUE, r, e)>>, !.reasons = q] :
        c \in DOMAIN MCRuleId, i \in {"", "function_removed", "struct_removed", "contract_removed"},
        r \in BOOLEAN, e \in {"", "future", "past", "garbled"},
        q \in {Reasons({}, {}), Reasons({"function_removed"}, {}), Reasons({}, {"call_abi"}),
               Reasons({}, {"storage_layout"})}}
\* `broad` of `n` rules name no target.
MCCountDocuments ==
    {[BlankDocument EXCEPT !.rules = [i \in 1 .. n |-> Struct(i > broad)], !.allowTargetless = a,
                           !.max = m, !.profiles = ps, !.default = d, !.defaults = l] :
        n \in 0 .. 4, broad \in 0 .. 2, a \in BOOLEAN, m \in {-1, 0, 2, 4}, l \in BOOLEAN,
        ps \in {NoProfiles, "ci" :> [inherits |-> "", zero |-> FALSE, max |-> 1]}, d \in {"", "ci"}}
MCProfileDocuments ==
    {[BlankDocument EXCEPT !.zero = z, !.profiles = [ci |-> [inherits |-> c, zero |-> y, max |-> -1],
                             base |-> [inherits |-> b, zero |-> FALSE, max |-> 0],
                             deep |-> [inherits |-> d, zero |-> FALSE, max |-> -1]], !.default = f] :
        z, y \in BOOLEAN, c, b, d \in {"", "ci", "base", "deep", "gone"}, f \in {"", "ci", "gone"}}
MCOtherDocuments ==
    {[BlankDocument EXCEPT !.allowTargetless = FALSE, !.extra = x, !.pairs = ps, !.version = v, !.budgets = b, !.metrics = ms] :
        x \in SUBSET {"expected_wasm_hash", "build_manifest"}, v \in {1, 2},
        ps \in {<<>>, <<"a", "b">>, <<"a", "a">>, <<"a/b", "">>},
        b \in {<<>>, <<[scope |-> <<"rule", "SC999">>, severity |-> "critical", metric |-> "raw", limit |-> 0]>>},
        ms \in {{}, {[metric |-> "calls", limit |-> 1, percent |-> -1]},
                {[metric |-> "gas", limit |-> 1, percent |-> -1]},
                {[metric |-> "calls", limit |-> -1, percent |-> -2]}}}
NoPlace == [p \in {"cli", "env", "here", "above"} |-> "none"]

ConfigRequests ==
    {[doc |-> d, profile |-> p, envMax |-> m, envAllow |-> a, noConfig |-> FALSE,
      places |-> [NoPlace EXCEPT !["cli"] = "there"]] :
        d \in MCRuleDocuments \cup MCProfileDocuments \cup MCOtherDocuments \cup MCCountDocuments,
        p \in {"", "ci"}, <<m, a>> \in {<<-1, "unset">>, <<4, "true">>}}
      \cup {[doc |-> d, profile |-> "", envMax |-> -1, envAllow |-> "unset", noConfig |-> n,
             places |-> [cli |-> c, env |-> e, here |-> h, above |-> v]] :
               d \in {BlankDocument, [BlankDocument EXCEPT !.rules = <<Struct(TRUE)>>,
                                                          !.reasons = Reasons({"struct_removed"}, {})]},
               n \in BOOLEAN, c, e \in {"none", "there", "missing"}, h, v \in {"none", "there"}}

ModeRequests ==
    {[options |-> os, paths |-> n] :
        os \in SUBSET (Shared \cup {"lockfile", "policy_bundle", "empirical", "exclude"}),
        n \in 0 .. 3}

-----------------------------------------------------------------------------
(* Interfaces *)

MCAlphabet == <<"", "1", "2", "Account", "Asset", "Event", "Gone", "a", "b", "pay">>
MCTooLong == {"a text that is too long"}
MCMaxXdrDepth == 4
MCEventName == {"Event"}
MCKindOrder == <<"event", "finding", "function", "policy", "storage", "type">>

Type(con, of, args) == [con |-> con, of |-> of, args |-> args]
U32 == Type("u32", "", <<>>)
Udt(name) == Type("udt", name, <<>>)
Vec(t) == Type("vec", "", <<t>>)
Member(name, void, types, value) ==
    [name |-> name, doc |-> "", void |-> void, types |-> types, value |-> value]
Holds(name, t) == Member(name, FALSE, <<t>>, 0)
Case(name, value) == Member(name, TRUE, <<>>, value)
Declares(sort, name, members, outputs) ==
    [sort |-> sort, name |-> name, lib |-> "", doc |-> "", members |-> members, outputs |-> outputs]

MCEntryPool ==
    {Declares("function", "pay", <<Holds("a", t)>>, o) : t \in {U32, Vec(Udt("Asset"))},
                                                        o \in {<<>>, <<Udt("Account")>>}}
      \cup {Declares("struct", n, <<Holds("a", t)>>, <<>>) : n \in {"Account", "Asset"},
               t \in {U32, Udt("Asset"), Vec(Vec(Udt("Gone"))), Vec(Udt("Account"))}}
      \cup {Declares("union", "Asset", <<Case("a", 0), Member("b", FALSE, <<U32, Udt("Event")>>, 0)>>, <<>>),
            Declares("enum", "Event", <<Case("a", 1), Case("b", 2)>>, <<>>),
            Declares("enum", "Event", <<Case("a", 1), Case("b", 1)>>, <<>>),
            Declares("error_enum", "Gone", <<Case("a", 1), Case("a", 2)>>, <<>>)}
Lists(pool) == {<<>>} \cup {<<e>> : e \in pool} \cup pool \X pool
MCEntries3 == Lists(MCEntryPool) \cup MCEntryPool \X MCEntryPool \X MCEntryPool

LintRequests ==
    {[entries |-> es, schema |-> "none", maxWalkDepth |-> d, strict |-> s] :
        es \in MCEntries3, d \in {1, 2}, s \in {TRUE}}
      \cup {[entries |-> es, schema |-> c, maxWalkDepth |-> 0, strict |-> s] :
              es \in Lists(MCEntryPool), c \in {"none", "invalid", "mismatched"}, s \in BOOLEAN}

\* Interfaces that differ by little, and by what is no part of them.
Payload(types) == Declares("union", "Asset", <<Member("a", FALSE, types, 0), Case("b", 0)>>, <<>>)
\* Two unions that only the counts of their payloads keep apart.
Confusing == <<Type("void", "", <<>>), Udt("void"), U32>>
Confused(first, second) ==
    Declares("union", "Asset",
             <<Member("a", FALSE, first, 0)>> \o (IF first = <<>> THEN <<Case("udt", 0), Case("u32", 0)>> ELSE <<>>)
               \o <<Member("b", FALSE, second, 0)>>
               \o (IF second = <<>> THEN <<Case("udt", 0), Case("u32", 0)>> ELSE <<>>), <<>>)
MCNear ==
    {Confused(Confusing, <<>>), Confused(<<>>, Confusing),
     Payload(<<>>), Payload(<<U32>>), Payload(<<U32, U32>>),
     Payload(<<Type("tuple", "", <<U32>>)>>), Payload(<<Type("tuple", "", <<>>), U32>>),
     Payload(<<Type("bytesn", "2", <<>>)>>),
     [Payload(<<U32>>) EXCEPT !.doc = "revised", !.lib = "std"],
     [Payload(<<U32>>) EXCEPT !.name = "a text that is too long"],
     Declares("union", "Asset", <<Case("a", 0), Case("b", 0)>>, <<>>),
     Declares("enum", "Event", <<Case("a", 1), Case("b", 2)>>, <<>>),
     Declares("enum", "Event", <<Case("b", 2), Case("a", 1)>>, <<>>),
     Declares("enum", "Event", <<Case("b", 2), Case("a", 2)>>, <<>>),
     Declares("error_enum", "Event", <<Case("a", 1), Case("b", 2)>>, <<>>),
     Declares("function", "pay", <<Holds("a", U32)>>, <<>>),
     Declares("function", "pay", <<>>, <<Udt("a"), U32>>),
     Declares("struct", "pay", <<Holds("a", Udt("Asset"))>>, <<>>)}
MCLists == {<<>>} \cup {<<e>> : e \in MCNear}
             \cup MCNear \X {Payload(<<U32>>), Declares("function", "pay", <<>>, <<Udt("a"), U32>>)}
MCBuilt == {es \in MCLists : \A i \in DOMAIN es : es[i].name \notin MCTooLong}

LockfileRequests ==
    {[entries |-> es, path |-> "absent", force |-> FALSE, edited |-> ed, version |-> 1] :
        es \in MCBuilt, ed \in MCLists}
      \cup {[entries |-> es, path |-> p, force |-> f, edited |-> es, version |-> v] :
              es \in MCBuilt, p \in {"file", "directory"}, f \in BOOLEAN, v \in {1, 2}}

Concerns(target, prefix, typeName, cascade, policy) ==
    [target |-> target, prefix |-> prefix, typeName |-> typeName, axes |-> {"call_abi"},
     cascade |-> cascade, root |-> IF cascade THEN "Asset" ELSE "", policy |-> policy]
MCConcerns ==
    {<<>>, <<Concerns("Account.a", "Account", "", FALSE, "")>>,
     <<Concerns("pay", "", "pay", FALSE, "2"), Concerns("", "", "Account", TRUE, "2")>>,
     <<Concerns("Gone", "", "Gone", TRUE, "")>>}
Depends(functions) == [caller |-> "a", callee |-> "b", functions |-> functions]

GraphRequests ==
    {[old |-> o, new |-> n, oldSchema |-> s, newSchema |-> <<"b">>, findings |-> fs,
      maxNodes |-> mn, maxEdges |-> me, dependencies |-> <<Depends({"pay"}), Depends({"a"})>>] :
        o \in {<<>>} \cup {<<e, Declares("struct", "Asset", <<Holds("a", U32)>>, <<>>)>> : e \in MCEntryPool},
        n \in MCEntryPool \X {e \in MCEntryPool : e.name \in {"Account", "Event"}}, s \in {<<>>, <<"a">>}, fs \in MCConcerns,
        <<mn, me>> \in {<<9, 9>>, <<3, 9>>, <<9, 1>>}}

-----------------------------------------------------------------------------
(* Inputs *)

MCContent == {"A", "B", "script", "index", "list", "other list", "long", "void"}
MCByteSize == [c \in MCContent |-> CASE c = "void" -> 0 [] c = "long" -> 2 [] OTHER -> 1]
MCWasm == {"A", "B", "long"}
MCAcceptedTypes == [wasm |-> {"module", "wasm"}, spec |-> {"spec"}]
Sha(c) == [alg |-> "sha256", hex |-> c]
LayerOf(type, digest) == [type |-> type, digest |-> digest]
MCOciManifest ==
    [c \in {"index", "list", "other list"} |->
        CASE c = "index" -> [index |-> TRUE, layers |-> <<LayerOf("wasm", Sha("A"))>>]
          [] c = "list" -> [index |-> FALSE, layers |-> <<LayerOf("config", Sha("script")),
                               LayerOf("module", Sha("A")), LayerOf("wasm", Sha("B")), LayerOf("spec", Sha("B"))>>]
          [] c = "other list" -> [index |-> FALSE, layers |-> <<LayerOf("wasm", [alg |-> "md5", hex |-> "B"])>>]]

Asks(scheme, params) == [scheme |-> scheme, params |-> params]
Open == Asks(Input!Nothing, {})
Page(asks, body) == [asks |-> asks, body |-> body]
Realm(answers, account) == [answer |-> answers, account |-> account]
StillLook == [link |-> Input!Nothing, what |-> "A"]
Quiet ==
    [stdin |-> "void", disk |-> "writes", docker |-> <<Input!Nothing, Input!Nothing, Input!Nothing>>,
     path |-> <<StillLook, StillLook, StillLook, StillLook>>,
     site |-> [status |-> "down", hops |-> <<>>, url |-> "origin", body |-> "void"],
     registry |-> [manifest |-> Page(Open, Input!Nothing), blob |-> Page(Open, Input!Nothing),
                   realm |-> Realm("token", Input!Nothing), account |-> "alice"]]
Ref(scheme, digest, tag, repository) ==
    [scheme |-> scheme, digest |-> digest, tag |-> tag, registry |-> "registry", repository |-> repository]
Config(noCache, maxBytes, maxHops, allowTags, rejectLinks) ==
    [noCache |-> noCache, maxBytes |-> maxBytes, maxHops |-> maxHops, allowTags |-> allowTags,
     rejectLinks |-> rejectLinks]
Loading(use, ref, config, worlds, cache, expected) ==
    [use |-> use, ref |-> ref, config |-> config, worlds |-> worlds, cache |-> cache, expected |-> expected]

MCPins == {Input!Unpinned, Sha("A"), Sha("short"), [alg |-> "md5", hex |-> "A"]}
MCCaches ==
    {<<>>} \cup {("A" :> [bytes |-> b, meta |-> m]) : <<b, m>> \in {<<"A", "first">>, <<"A", Input!Nothing>>, <<"B", "first">>}}

MCSites ==
    {[Quiet EXCEPT !.site = [status |-> s, hops |-> h, url |-> "origin", body |-> b], !.disk = d] :
        s \in {"ok", "down"}, h \in {<<>>, <<"https">>, <<"https", "https">>, <<"https", "http">>},
        b \in {"A", "long", "script"}, d \in {"writes", "half", "full"}}
SiteRequests ==
    {Loading(u, Ref("https", p, Input!Nothing, Input!Nothing), Config(n, 1, k, FALSE, FALSE), <<v, w>>, c, e) :
        u \in {"module", "artifact"}, p \in MCPins \cup {Sha("long"), Sha("script")}, n \in BOOLEAN, k \in {1},
        v \in {x \in MCSites : x.site.status = "ok"},
        w \in {x \in MCSites : x.site.hops = <<>> /\ x.disk = "writes" /\ x.site.body # "long"},
        c \in MCCaches, e \in {Input!Nothing}}
      \cup {Loading("module", Ref("https", Sha("A"), Input!Nothing, Input!Nothing), Config(FALSE, b, k, FALSE, FALSE), <<v>>, <<>>, e) :
              b \in {1, 2}, k \in 0 .. 2, v \in MCSites, e \in {Input!Nothing, "A", "B", "short"}}

MCRegistries ==
    {[Quiet EXCEPT !.registry.manifest = Page(Open, m), !.registry.blob = Page(Open, b), !.disk = d] :
        m \in {"list", "other list", "index", "script", Input!Nothing}, b \in {"A", "B", Input!Nothing},
        d \in {"writes", "half"}}
MCGuarded ==
    {[Quiet EXCEPT !.registry = [manifest |-> Page(x, "list"), blob |-> Page(y, "A"), account |-> "alice",
                                 realm |-> Realm(t, a)],
                   !.docker = k] :
        x, y \in {Open, Asks("Bearer", {"realm", "scope"}), Asks("Bearer", {"scope"}), Asks("Basic", {}), Asks("Digest", {})}, t \in {"token", "access_token", "odd"},
        a \in {Input!Nothing, "alice"},
        k \in {<<Input!Nothing, Input!Nothing, Input!Nothing>>, <<"fails", "alice", Input!Nothing>>,
               <<"bob", "alice", "alice">>, <<Input!Nothing, "fails", "alice">>}}
MCNames ==
    {Ref("oci", p, t, "build") : p \in {Input!Unpinned, Sha("list"), Sha("index"), Sha("other list")},
                                 t \in {Input!Nothing, "latest"}}
      \cup {Ref("oci", Sha("list"), Input!Nothing, n) : n \in {"", Input!Nothing}}
      \cup {Ref("oci", p, "", "build") : p \in MCPins}
RegistryRequests ==
    {Loading(u, f, Config(n, 1, 1, t, FALSE), ws, c, Input!Nothing) :
        f \in MCNames,
        <<u, n, t>> \in {<<"module", FALSE, FALSE>>, <<"module", FALSE, TRUE>>, <<"module", TRUE, TRUE>>,
                        <<"artifact", FALSE, FALSE>>},
        ws \in MCRegistries \X {x \in MCRegistries : x.disk = "writes" /\ x.registry.blob.body \in {"B", Input!Nothing}
                                                      /\ x.registry.manifest.body \in {"list", "script"}},
        c \in {<<>>, ("A" :> [bytes |-> "A", meta |-> "module"]), ("A" :> [bytes |-> "B", meta |-> "module"])}}
      \cup {Loading("module", Ref("oci", Sha("list"), Input!Nothing, "build"), Config(FALSE, 1, 1, FALSE, FALSE),
                    <<w>>, <<>>, "A") : w \in MCGuarded}

MCLooks == {[link |-> l, what |-> w] : l \in {Input!Nothing, "elsewhere"},
                                       w \in {"A", "B", "script", "directory", Input!Nothing}}
PathRequests ==
    {Loading(u, Ref("path", Input!Unpinned, Input!Nothing, Input!Nothing), Config(FALSE, 1, 1, FALSE, j),
             <<[Quiet EXCEPT !.path = [i \in 1 .. 4 |-> IF i < at THEN first ELSE then]]>>, <<>>, Input!Nothing) :
        u \in {"module", "artifact"}, j \in BOOLEAN, first, then \in MCLooks, at \in 2 .. 4}
      \cup {Loading("module", Ref("-", Input!Unpinned, Input!Nothing, Input!Nothing), Config(FALSE, 1, 1, FALSE, TRUE),
                    <<[Quiet EXCEPT !.stdin = b]>>, <<>>, e) : b \in MCContent, e \in {Input!Nothing, "A"}}

LoadRequests == SiteRequests \cup RegistryRequests \cup PathRequests

Told(key, value) == [key |-> key, value |-> value]
MCTold == {Told("revision", "r1"), Told("source_revision", "r2"), Told("rustc", "r1"), Told("git", "r1"),
           Told(Input!Nothing, "r1")}
MCFeatures == {Told("features", <<"a", "b">>), Told("features", <<"b", "", "a">>), Told("features", <<>>)}
MCStated ==
    UNION {[fs -> {"r1", "r2"}] : fs \in SUBSET {"source_revision", "rust_version"}}
ProvenanceRequests ==
    {[sha256 |-> "A", version |-> v, entries |-> es, manifest |-> s @@ l @@ h] :
        es \in {<<>>} \cup {<<e>> : e \in MCTold \cup MCFeatures}
                 \cup (MCTold \cup MCFeatures) \X (MCTold \cup MCFeatures)
                 \cup (MCTold \cup MCFeatures) \X {Told(Input!Nothing, "r1")} \X MCTold,
        v \in {1, 2}, s \in MCStated, l \in {[features |-> <<>>], [features |-> <<"a", "b">>], [features |-> <<"b", "a">>]},
        h \in {<<>>, [artifact_sha256 |-> "A"], [artifact_sha256 |-> "B"], [artifact_sha256 |-> "short"]}}

-----------------------------------------------------------------------------
(* Modules and their decoders *)

MCWord == 64
Raw(protocol, preRelease) == protocol * MCWord + preRelease

Item(name, form, size) == [name |-> name, form |-> form, size |-> size]
MCItems ==
    LET a == Item("a", "current", 8)
        b == Item("b", "current", 4)
        c == Item("c", "future", 12)
    IN  {<<>>, <<a>>, <<b, a>>, <<b, c>>, <<c>>, <<a, Item("d", "cut", 2)>>}
MCPayloads ==
    [what : {"spec"}, items : MCItems]
      \cup [what : {"env"}, broken : {FALSE},
            versions : {<<>>, <<Raw(20, 0)>>, <<Raw(23, 63)>>, <<Raw(24, 0)>>, <<Raw(21, 1), Raw(24, 0)>>}]
      \cup {[what |-> "env", broken |-> TRUE, versions |-> <<>>], [what |-> "unreadable"], [what |-> "bad code"]}
      \cup [what : {"types"}, types : {<<"one">>, <<"struct", "two">>}]
      \cup [what : {"import"}, name : {"put"}, index : {1, 2}]

ByDecoder(form, min, max, reads, schema) ==
    [predicate |-> Extract!Predicate(form, min, max), reads |-> reads, schema |-> schema]
MCRegistries2 ==
    {<<>>, <<ByDecoder("any", 0, 0, {"current"}, "v0")>>,
     <<ByDecoder("exact", 24, 24, {"current", "future"}, "v1")>> \o Extract!DefaultRegistry,
     Extract!DefaultRegistry \o <<ByDecoder("range", 20, 30, {"current", "future"}, "v1")>>,
     <<ByDecoder("exact", 20, 20, {}, "v1")>> \o Extract!DefaultRegistry}
UpTo(n, S) == UNION {[1 .. k -> S] : k \in 0 .. n}
ExtractRequests ==
    {[module |-> m, registry |-> Extract!DefaultRegistry] : m \in UpTo(3, MCPayloads)}
      \cup {[module |-> m, registry |-> r] : m \in UpTo(2, MCPayloads), r \in MCRegistries2}

\* The parts of an input of four bytes; those that fail as the whole does.
MCParts == {p \in [lo : 1 .. 4, hi : 1 .. 4] : p.lo =< p.hi}
Failing(parts) ==
    [p \in MCParts |-> IF p \in parts THEN "parse error" ELSE IF p.lo = 2 THEN "limit" ELSE "accepted"]
MinimizeRequests ==
    {[size |-> 4, oracle |-> Failing(ps \cup {Extract!Part(1, 4)}), usual |-> Failing(ps \cup {Extract!Part(1, 4)}),
      maxIterations |-> n, output |-> "json", disk |-> "writes"] :
        ps \in SUBSET (MCParts \ {Extract!Part(1, 4)}), n \in 0 .. 4}
      \cup {[size |-> 4, oracle |-> Failing(ps), usual |-> Failing(qs), maxIterations |-> n,
             output |-> o, disk |-> d] :
              ps, qs \in {{}, {Extract!Part(1, 4)}, {Extract!Part(1, 4), Extract!Part(2, 4)},
                         {Extract!Part(1, 4), Extract!Part(1, 3), Extract!Part(3, 3)}},
              n \in {0, 9}, o \in {"fixture", "standard output"},
              d \in {"writes", "no directory", "bytes cut", "metadata cut"}}

History(from, to) == [from |-> from, steps |-> <<[from |-> from, to |-> to]>>, to |-> to]
MCSavedFields ==
    UNION {[fs -> {"kept", Report!Misfit}] : fs \in {Report!Required, Report!Required \cup {"axis_verdicts"},
                                                   Report!Required \cup {"extension"}, {"is_safe", "interface_hash"}}}
SavedRequests ==
    {[doc |-> [json |-> j, version |-> v, fields |-> fs, history |-> h]] :
        j \in {"object", "another value", "no json", "blank"},
        v \in {Report!NoNumber, Report!Undeclared, 0, 1, 2}, fs \in MCSavedFields,
        h \in {Report!NoHistory, History(0, 1)}}

MCGiven ==
    {<<>>} \cup [{"strict", "no_color"} -> {"on"}] \cup [{"max_pairs"} -> {Settings!Default, "7"}] \cup [{"width", "watch_debounce_ms"} -> {"7"}]
      \cup [{"remote_cache_dir", "color"} -> {"here"}] \cup [{"oci_cache_dir", "record_version", "watch"} -> {"here"}]
MCVariables ==
    {[s \in {} |-> ""], [no_color |-> Settings!Blank], [no_color |-> "1", oci_cache_dir |-> "there"],
     [remote_cache_dir |-> "there"], [remote_cache_dir |-> Settings!Blank, oci_cache_dir |-> "there"]}
ShownRequests ==
    {[args |-> a, env |-> e, file |-> [found |-> f, loads |-> l, set |-> s]] :
        a \in MCGiven, e \in MCVariables, f, l \in BOOLEAN,
        s \in {<<>>} \cup [{"max_suppressions", "rule_count"} -> {"3"}]
                \cup [{"gate_call_abi", "gate_storage_layout"} -> {Settings!Default, "other"}]}

-----------------------------------------------------------------------------
MCRequests(kind) ==
    CASE kind = "hosts"      -> HostRequests
      [] kind = "storage"    -> StorageRequests
      [] kind = "budgets"    -> BudgetRequests
      [] kind = "complexity" -> ComplexityRequests
      [] kind = "report"     -> ReportRequests
      [] kind = "attest"     -> AttestRequests
      [] kind = "policy"     -> PolicyRequests
      [] kind = "bundle"     -> BundleRequests
      [] kind = "settings"   -> SettingsRequests
      [] kind = "config"     -> ConfigRequests
      [] kind = "mode"       -> ModeRequests
      [] kind = "lint"       -> LintRequests
      [] kind = "lockfile"   -> LockfileRequests
      [] kind = "graph"      -> GraphRequests
      [] kind = "load"       -> LoadRequests
      [] kind = "provenance" -> ProvenanceRequests
      [] kind = "extract"    -> ExtractRequests
      [] kind = "minimize"   -> MinimizeRequests
      [] kind = "saved"      -> SavedRequests
      [] kind = "shown"      -> ShownRequests

=============================================================================
