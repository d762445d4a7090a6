------------------------------- MODULE Replay -------------------------------
(***************************************************************************)
(* The replay of stored values (empirical.rs, build_report of main.rs): a  *)
(* sample of what the contract has stored is searched for values of each   *)
(* type that has a finding, and those that decode in the old build must    *)
(* decode in the new one, or the upgrade is unsafe.                        *)
(***************************************************************************)
EXTENDS Verdict, ScValues

-----------------------------------------------------------------------------
(***************************************************************************)
(* find_scval_candidates and run_empirical_check.                          *)
(***************************************************************************)
RECURSIVE Inside(_)
Inside(v) ==
    LET parts == IF v.tag \in {"vec", "map", "entry"} THEN DOMAIN v.items ELSE {}
    IN  (IF v.tag = "entry" THEN {} ELSE {v}) \cup UNION {Inside(v.items[i]) : i \in parts}

Candidates(v, t) == {w \in Inside(v) : Decodes(w, t, old)}

\* Mutant (SampledDataDecodes): only types with a critical finding are looked at.
FailuresOfCritical(v) ==
    UNION {{[type |-> t, value |-> w] : w \in {x \in Candidates(v, t) : ~Decodes(x, t, new)}} :
           t \in {f.type : f \in {g \in findings : g.sev = "critical"}} \ {NoType}}

Failures(v) ==
    UNION {{[type |-> t, value |-> w] : w \in {x \in Candidates(v, t) : ~Decodes(x, t, new)}} :
           t \in {f.type : f \in findings} \ {NoType}}

\* What a contract may have stored: a value of any of its types, by itself or
\* in the entry of the contract instance, which carries a map of its own.
Instance(v) == Value("instance", "", <<Entry(Symbol("key"), v)>>)

Stored(spec) ==
    LET values == UNION {Encodings(spec, Named(t), Depth) : t \in DOMAIN spec.types}
    IN  values \cup {Instance(v) : v \in values}

VARIABLE sample  \* the stored values replayed

replayVars == <<allVars, sample>>

\* With several entries the failures add up, so one at most is sampled. None
\* is when the ledger could not be read, which is no error.
ReplaySample ==
    /\ phase = "judged" /\ config.empirical
    /\ \/ sample' = {}
       \/ \E v \in Stored(old) : sample' = {v}
    /\ verdict' = [verdict EXCEPT !.is_safe = @ /\ \A v \in sample' : Failures(v) = {}]
    /\ phase' = "replayed"
    /\ UNCHANGED <<vars, config, covered>>

ReplayInit == VerdictInit /\ sample = {}

ReplayNext == (VerdictNext /\ UNCHANGED sample) \/ ReplaySample

\* The whole pipeline is one synchronous computation.
ReplaySpec == ReplayInit /\ [][ReplayNext]_replayVars /\ WF_replayVars(ReplayNext)

-----------------------------------------------------------------------------
Kept(w) == \A t \in DOMAIN old.types : Decodes(w, t, old) => Decodes(w, t, new)

\* A safe verdict over a sample of stored values means that each of them, and
\* of the values found in it, still decodes as every type it decoded as: looking
\* only at types with a finding overlooks none.  (The storage of an instance
\* entry is not searched.)  empirical.rs: run_empirical_check over diff.rs: compare.
SampledDataDecodes ==
    phase = "replayed" /\ verdict.is_safe => \A v \in sample : \A w \in Inside(v) : Kept(w)
=============================================================================
