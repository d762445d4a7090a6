------------------------------ MODULE Budgets ------------------------------
(***************************************************************************)
(* Budgets: [[budget]] counts findings (src/budget.rs), and                 *)
(* [[complexity_budget]] counts instructions (src/wasm_complexity.rs).      *)
(*                                                                          *)
(* A table is [scope, severity, metric, limit]: the scope is "global", or   *)
(* <<"axis", a>>, or <<"rule", r>>; the severity may be Any; the metric is  *)
(* "raw" or "unsuppressed". A reported finding is                           *)
(* [rule, axes, severity, suppressed], its axes a sequence.                 *)
(***************************************************************************)
EXTENDS Integers, Sequences, FiniteSets

CONSTANTS KnownRule, Family, MaxFunctions, MaxPerFunction

AnySeverity == "any"

\* What is read of a file and of a module.
IsList(s) == s \in Seq({s[i] : i \in DOMAIN s})
IsTable(t) ==
    t \in [scope : {t.scope}, severity : {t.severity}, metric : {t.metric}, limit : {t.limit}]
IsCode(bodies) ==
    /\ IsList(bodies)
    /\ \A i \in DOMAIN bodies :
          IsList(bodies[i]) /\ \A k \in DOMAIN bodies[i] : bodies[i][k] \in Family

------------------------------------------------------------------------------
(* BudgetConfig::from_file_entries *)

ScopeIsKnown(table) ==
    \/ table.scope[1] = "global"
    \/ table.scope[1] = "axis" /\ table.scope[2] # ""
    \/ table.scope[1] = "rule" /\ table.scope[2] \in KnownRule

WellFormed(table) == ScopeIsKnown(table) /\ table.limit >= 0

SameKey(t, u) == t.scope = u.scope /\ t.severity = u.severity

\* The earlier table of the same scope and severity that was accepted, if any.
Earlier(tables, i) ==
    {j \in 1 .. (i - 1) : WellFormed(tables[j]) /\ SameKey(tables[j], tables[i])}

Contradicted(tables, i) ==
    \E j \in Earlier(tables, i) :
        /\ \A k \in Earlier(tables, i) : j =< k
        /\ <<tables[j].metric, tables[j].limit>> # <<tables[i].metric, tables[i].limit>>

BudgetsLoad(tables) ==
    \A i \in DOMAIN tables : WellFormed(tables[i]) /\ ~Contradicted(tables, i)

\* An exact duplicate is dropped.
Entries(tables) == {tables[i] : i \in {j \in DOMAIN tables : Earlier(tables, j) = {}}}

------------------------------------------------------------------------------
(* evaluate: the most specific scope claims a finding *)

Scopes(entries) == {e.scope : e \in entries}

ClaimedBy(finding, entries) ==
    LET budgeted == {k \in DOMAIN finding.axes : <<"axis", finding.axes[k]>> \in Scopes(entries)}
        first == CHOOSE k \in budgeted : \A j \in budgeted : k =< j
    IN  IF <<"rule", finding.rule>> \in Scopes(entries) THEN <<"rule", finding.rule>>
        ELSE IF budgeted # {} THEN <<"axis", finding.axes[first]>> ELSE <<"global">>

Measured(findings, entries, entry) ==
    Cardinality({i \in DOMAIN findings :
        /\ ClaimedBy(findings[i], entries) = entry.scope
        /\ entry.severity \in {AnySeverity, findings[i].severity}
        /\ entry.metric = "raw" \/ ~findings[i].suppressed})

BudgetViolations(findings, entries) ==
    {e \in entries : Measured(findings, entries, e) > e.limit}

------------------------------------------------------------------------------
(* The complexity profile of a module: a sequence of bodies, each a sequence *)
(* of instruction families                                                  *)

Least(a, b) == IF a < b THEN a ELSE b

Profiled(bodies) == SubSeq(bodies, 1, Least(Len(bodies), MaxFunctions))

Tally(body, wanted) ==
    Cardinality({i \in 1 .. Least(Len(body), MaxPerFunction) : body[i] \in wanted})

Total(bodies, wanted) ==
    LET upTo[i \in 0 .. Len(bodies)] ==
            IF i = 0 THEN 0 ELSE upTo[i - 1] + Tally(bodies[i], wanted)
    IN  upTo[Len(bodies)]

Profile(bodies) ==
    LET read == Profiled(bodies)
    IN  [m \in {"defined_functions", "total_instructions"} \cup Family |->
           IF m = "defined_functions" THEN Len(read)
           ELSE IF m = "total_instructions" THEN Total(read, Family)
           ELSE Total(read, {m})]

\* A percentage in hundredths of a percent, rounded half away from zero;
\* NoPercentage when the old value is zero.
NoPercentage == -1000000
Hundredths(old, new) ==
    IF old = 0 THEN NoPercentage
    ELSE LET d == new - old
             m == IF d < 0 THEN -d ELSE d
             r == (20000 * m + old) \div (2 * old)
         IN  IF d < 0 THEN -r ELSE r

\* [metric, limit, percent], with -1 for a bound that is left out; `percent` is
\* in whole percents.
ComplexityLoads(tables) ==
    \A t \in tables :
        /\ t.metric \in {"total_instructions", "defined_functions"} \cup Family
        /\ t.limit # -1 \/ t.percent # -1
        /\ t.limit >= -1 /\ t.percent >= -1

Exceeded(t, old, new) ==
    \/ t.limit # -1 /\ new[t.metric] > t.limit
    \/ /\ t.percent # -1
       /\ Hundredths(old[t.metric], new[t.metric]) > 100 * t.percent

ComplexityViolations(oldBodies, newBodies, tables) ==
    {t \in tables : Exceeded(t, Profile(oldBodies), Profile(newBodies))}

==============================================================================
