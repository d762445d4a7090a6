----------------------------- MODULE Documents -----------------------------
(***************************************************************************)
(* Configuration files: what the schema says of one (src/config_schema.rs), *)
(* what loading it refuses (src/suppression.rs), and what --validate-config *)
(* (src/main.rs) and the library (src/config.rs) make of both.              *)
(*                                                                          *)
(* A document is [extra, defaults, pairs, version, zero, profiles, default, *)
(* rules, allowTargetless, max, reasons, budgets, metrics]: extra are its   *)
(* keys that not every reader knows, zero says that some limit is 0, and a  *)
(* profile is [inherits, zero, max].  A rule is [category, ruleId, targeted, *)
(* reason, expiry].  Where a text may be absent, "" is its absence, as -1   *)
(* is a number's.                                                           *)
(***************************************************************************)
EXTENDS Profiles, Budgets
LOCAL INSTANCE SequencesExt

CONSTANTS
    Category,       \* the categories the tool emits
    RuleId,         \* canonical_rule_id: from texts for categories to rule ids
    CategoryAxes,   \* the axes of a text for a category, without a specification
    SchemaKeys, FileKeys, \* the extra keys that the schema and the library know
    MaxRules, MaxTargetless,
    BadId           \* the ids of pairs that are no words

Absent == ""

------------------------------------------------------------------------------
(* What a document may hold: what is more than that is an unknown field, or does *)
(* not parse.                                                                    *)

IsRule(r) ==
    /\ DOMAIN r = {"category", "ruleId", "targeted", "reason", "expiry"}
    /\ r.category \in DOMAIN RuleId /\ {r.targeted, r.reason} \subseteq BOOLEAN
    /\ r.expiry \in {Absent, "past", "future", "garbled"}
IsProfile(p) ==
    DOMAIN p = {"inherits", "zero", "max"} /\ p.zero \in BOOLEAN /\ p.max \in Nat \cup {-1}
IsBudget(t) ==
    DOMAIN t = {"scope", "severity", "metric", "limit"} /\ t.limit \in Int
IsComplexityBudget(t) ==
    DOMAIN t = {"metric", "limit", "percent"} /\ {t.limit, t.percent} \subseteq Int
IsReasonPolicy(q) ==
    DOMAIN q = {"rules", "axes"} /\ q.axes \subseteq UNION {CategoryAxes[c] : c \in DOMAIN CategoryAxes}

IsDocument(doc) ==
    /\ DOMAIN doc = {"extra", "defaults", "pairs", "version", "zero", "profiles", "default", "rules",
                     "allowTargetless", "max", "reasons", "budgets", "metrics"}
    /\ {doc.defaults, doc.zero, doc.allowTargetless} \subseteq BOOLEAN
    /\ doc.version \in Nat /\ doc.max \in Nat \cup {-1}
    /\ \A n \in DOMAIN doc.profiles : IsProfile(doc.profiles[n])
    /\ \A i \in DOMAIN doc.rules : IsRule(doc.rules[i])
    /\ IsReasonPolicy(doc.reasons)
    /\ \A i \in DOMAIN doc.budgets : IsBudget(doc.budgets[i])
    /\ \A t \in doc.metrics : IsComplexityBudget(t)

------------------------------------------------------------------------------
(* Suppression rules *)

Places(rules, Of(_)) == {i \in DOMAIN rules : Of(rules[i])}

KnownCategory(rule) == rule.category \in Category
KnownRuleId(rule) == \E c \in Category : RuleId[c] = rule.ruleId

EffectiveRule(rule) == IF rule.ruleId # Absent THEN rule.ruleId ELSE RuleId[rule.category]

\* A text that is no category is taken as it is.
EffectiveCategory(rule) ==
    IF rule.category # Absent THEN rule.category
    ELSE IF KnownRuleId(rule) THEN CHOOSE c \in Category : RuleId[c] = rule.ruleId
    ELSE Absent

Demanded(rule, category, reasons) ==
    /\ ~rule.reason
    /\ \/ EffectiveRule(rule) \in reasons.rules
       \/ category # Absent /\ CategoryAxes[category] \cap reasons.axes # {}

MissingReasons(doc) ==
    Places(doc.rules, LAMBDA r : Demanded(r, EffectiveCategory(r), doc.reasons))

\* SuppressionConfig::matches: the finding's category under the rule's target.
Matches(rule) == {c \in Category : rule.category = c \/ rule.ruleId = RuleId[c]}

Targetless(rules) == Cardinality(Places(rules, LAMBDA r : ~r.targeted))

\* SuppressionConfig::from_toml_str
Loads(doc) == BudgetsLoad(doc.budgets) /\ MissingReasons(doc) = {}

\* SuppressionConfig::validate
Problems(doc, max, allowTargetless) ==
    {p \in {"unknown category", "too many", "targetless", "ceiling", "expired", "reason"} :
        \/ p = "unknown category"
             /\ Places(doc.rules, LAMBDA r : ~KnownCategory(r) /\ ~KnownRuleId(r)) # {}
        \/ p = "too many" /\ Len(doc.rules) > (IF max = -1 THEN MaxRules ELSE max)
        \/ p = "targetless" /\ Targetless(doc.rules) > 0 /\ ~allowTargetless
        \/ p = "ceiling" /\ Targetless(doc.rules) > MaxTargetless
        \/ p = "expired" /\ Places(doc.rules, LAMBDA r : r.expiry \in {"past", "garbled"}) # {}
        \/ p = "reason" /\ MissingReasons(doc) # {}}

------------------------------------------------------------------------------
(* The schema *)

\* The walk up from a profile's parent: `seen` are the profiles passed.
Up(walk, profiles) ==
    IF walk.found # "walking" THEN walk
    ELSE IF walk.at \notin DOMAIN profiles THEN [walk EXCEPT !.found = "ended"]
    ELSE IF walk.at \in walk.seen THEN [walk EXCEPT !.found = "cycle"]
    ELSE IF Cardinality(walk.seen) + 1 > MaxDepth THEN [walk EXCEPT !.found = "too deep"]
    ELSE [seen  |-> walk.seen \cup {walk.at}, at |-> profiles[walk.at].inherits,
          found |-> IF profiles[walk.at].inherits = NoParent THEN "ended" ELSE "walking"]

Inheritance(profiles, name) ==
    LET parent == profiles[name].inherits
        walk == FoldLeft(LAMBDA w, i : Up(w, profiles),
                         [seen |-> {name}, at |-> parent, found |-> "walking"],
                         [i \in 1 .. MaxDepth + 1 |-> i])
    IN  IF parent = NoParent THEN "sound"
        ELSE IF parent \notin DOMAIN profiles THEN "undeclared"
        ELSE IF walk.found \in {"cycle", "too deep"} THEN walk.found ELSE "sound"

\* Mutant (NeitherGiven): two texts that name different categories pass.
NeitherGiven(rule) == rule.category = Absent /\ rule.ruleId = Absent

Conflicting(rule) ==
    /\ rule.category # Absent /\ rule.ruleId # Absent
    /\ RuleId[rule.category] # rule.ruleId

RuleProblems(doc) ==
    {p \in {"conflict", "unknown category", "targetless", "ceiling", "too many"} :
        \/ p = "conflict" /\ Places(doc.rules, LAMBDA r : Conflicting(r)) # {}
        \/ p = "unknown category"
             /\ Places(doc.rules, LAMBDA r : ~KnownCategory(r) /\ ~KnownRuleId(r)) # {}
        \/ p = "targetless" /\ Targetless(doc.rules) > 0 /\ ~doc.allowTargetless
        \/ p = "ceiling" /\ Targetless(doc.rules) > MaxTargetless
        \/ p = "too many" /\ doc.max # -1 /\ Len(doc.rules) > doc.max}

\* The demand for a reason looks at the text of the category only.
ReasonProblems(doc) ==
    {p \in {"reason"} : Places(doc.rules, LAMBDA r : Demanded(r, r.category, doc.reasons)) # {}}

LimitProblems(doc) ==
    {p \in {"limits"} : doc.zero \/ \E n \in DOMAIN doc.profiles : doc.profiles[n].zero}

ProfileProblems(doc) ==
    {p \in {"profiles", "default"} :
        \/ p = "profiles" /\ \E n \in DOMAIN doc.profiles : Inheritance(doc.profiles, n) # "sound"
        \/ p = "default" /\ doc.default # Absent /\ doc.default \notin DOMAIN doc.profiles}

Metrics == {"total_instructions", "defined_functions"} \cup Family
ComplexityProblems(doc) ==
    {p \in {"metric", "percent"} :
        \/ p = "metric" /\ \E t \in doc.metrics : t.metric \notin Metrics
        \/ p = "percent" /\ \E t \in doc.metrics : t.percent < -1}

SchemaProblems(doc) ==
    IF ~(doc.extra \subseteq SchemaKeys) THEN {"unknown field"}
    ELSE UNION {LimitProblems(doc), ProfileProblems(doc), RuleProblems(doc), ReasonProblems(doc),
                ComplexityProblems(doc)}

\* An id that is no word is told as that, and does not count as taken.
IdProblems(ids) ==
    {p \in {"invalid id", "duplicate id"} :
        \/ p = "invalid id" /\ \E i \in DOMAIN ids : ids[i] # Absent /\ ids[i] \in BadId
        \/ p = "duplicate id" /\ \E i, j \in DOMAIN ids :
              i < j /\ ids[i] = ids[j] /\ ids[i] \notin BadId \cup {Absent}}

ManifestProblems(doc) ==
    IF \/ doc.extra # {} \/ doc.zero \/ DOMAIN doc.profiles # {}
       \/ doc.default # Absent \/ doc.rules # <<>> \/ doc.budgets # <<>> \/ doc.metrics # {}
       \/ doc.max # -1 \/ doc.allowTargetless \/ doc.reasons.rules \cup doc.reasons.axes # {}
    THEN {"unknown field"}
    ELSE {p \in {"version"} : doc.version # 1} \cup IdProblems(doc.pairs)

\* validate_config_file: a manifest is told by its text.
LooksLikeManifest(doc) ==
    \/ doc.defaults
    \/ doc.pairs # <<>> /\ doc.rules = <<>> /\ doc.default = Absent

FileProblems(doc) ==
    IF LooksLikeManifest(doc) THEN ManifestProblems(doc) ELSE SchemaProblems(doc)

------------------------------------------------------------------------------
(* The readers *)

\* load_suppressions: the first place that is given decides; the two that are
\* found by themselves may be empty.
ConfigPlace(noConfig, places) ==
    LET given == SelectInSeq(<<"cli", "env", "here", "above">>, LAMBDA p : places[p] # "none")
    IN  IF noConfig \/ given = 0 THEN "none" ELSE <<"cli", "env", "here", "above">>[given]

LoadSuppressions(doc, noConfig, places) ==
    LET place == ConfigPlace(noConfig, places)
    IN  [place |-> place,
         refused |-> place # "none" /\ (places[place] = "missing" \/ ~Loads(doc))]

\* validate_suppression_config
ValidateConfig(doc) ==
    Loads(doc) /\ FileProblems(doc) = {}
      /\ Problems(doc, doc.max, doc.allowTargetless) = {}

\* ResolvedConfig::resolve: the maximum is a setting of the profile; the
\* environment overrides it, and allow_targetless.
MaxLayer(max) == [s \in (IF max = -1 THEN {} ELSE {"max"}) |-> max]
ProfileMax(doc, selected, envMax) ==
    LET layers == [n \in DOMAIN doc.profiles |->
                     [inherits |-> doc.profiles[n].inherits, set |-> MaxLayer(doc.profiles[n].max)]]
    IN  ResolveProfile(layers, selected, MaxLayer(doc.max), MaxLayer(envMax), [max |-> -1])

LibraryLoads(doc, selected, envMax, envAllow) ==
    LET profile == ProfileMax(doc, IF selected # Absent THEN selected ELSE doc.default, envMax)
    IN  /\ SchemaProblems(doc) = {}
        /\ doc.extra \subseteq FileKeys
        /\ ~profile.refused
        /\ BudgetsLoad(doc.budgets)
        /\ Problems(doc, profile.resolved["max"].value,
                    IF envAllow = "unset" THEN doc.allowTargetless ELSE envAllow = "true") = {}

==============================================================================
