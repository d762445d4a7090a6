------------------------------ MODULE BatchRun ------------------------------
(***************************************************************************)
(* The one-shot batch run of main.rs: the pairs come from a manifest       *)
(* (module Manifest) or from a sweep of two directories; each is judged    *)
(* under the suppression config its settings name, which suppressions_for_ *)
(* pair reads once per path, and a pair that fails is a result of its own. *)
(*                                                                         *)
(* The text of a config is [gate, rule, reasoned, required] or Broken: the *)
(* gate of its [policy], one rule ("none", "live" or "expired") for the    *)
(* break a pair may have, whether the rule has a reason and whether        *)
(* [require_reason] asks for one. The break is one of the call ABI, whose  *)
(* gate --strict overrides. Editors may rewrite a config at any time.      *)
(***************************************************************************)
EXTENDS Manifest

CONSTANTS
  ConfigText,   \* what a config may hold
  Sweep,        \* what the directories may hold: [old, new, skip, same], sets of file names
  Stem(_),      \* a file name without its extension: x.wasm and x.WASM are both of x
  Templates,    \* --per-contract-output-name-template: [valid, name, id], or None
                \* without --per-contract-output-dir; name and id tell what is in it
  Sanitized(_), \* what a file name keeps of a contract's name or id
  Outcome,      \* what a comparison may find: "clean", "break" or "fails"
  MaxEdits      \* bound: rewrites of configs

VARIABLES
  phase,    \* "build", "gaps", "pairs", "done" or "aborted"
  gaps,     \* old contracts without a new build
  store,    \* the configs as they are on disk, from their first read
  cache,    \* config_cache
  results,  \* [name, verdict, outcome, config, used, gate, strict]
  safe,     \* overall_safe
  edits
runVars == <<phase, gaps, store, cache, results, safe, edits>>
vars == <<manifestVars, runVars>>

NoFiles == [c \in {} |-> Broken]
Put(files, c, text) == [x \in DOMAIN files \cup {c} |-> IF x = c THEN text ELSE files[x]]

Init ==
  /\ ManifestInit
  /\ phase = "build" /\ gaps = <<>> /\ store = NoFiles /\ cache = NoFiles
  /\ results = <<>> /\ safe = TRUE /\ edits = 0

BuildFromManifest ==
  /\ phase = "build"
  /\ ManifestNext
  /\ UNCHANGED runVars

\* The contract that the k-th result will be of: the gaps come first. The id of
\* a gap is its name.
Due(k) == IF k <= Len(gaps) THEN gaps[k] ELSE resolved[k - Len(gaps)].name
DueId(k) == IF k <= Len(gaps) THEN gaps[k] ELSE resolved[k - Len(gaps)].id

\* evaluate_template, as far as it tells one contract's report from another's.
OutputName(t, k) ==
  <<IF t.name THEN Sanitized(Due(k)) ELSE None, IF t.id THEN Sanitized(DueId(k)) ELSE None>>

Collide(t) ==
  \E j, k \in 1..(Len(gaps) + Len(resolved)) : j # k /\ OutputName(t, j) = OutputName(t, k)

\* A template that is not valid, or that names two reports alike, ends the run.
StartPairs ==
  /\ phase = "build" /\ pc = "resolved"
  /\ \E t \in Templates :
       phase' = IF t # None /\ (~t.valid \/ Collide(t)) THEN "aborted" ELSE "gaps"
  /\ UNCHANGED <<manifestVars, gaps, store, cache, results, safe, edits>>

\* read_dir yields the names in any order.
InAnyOrder(S) == {s \in [1..Cardinality(S) -> S] : \A x \in S : \E i \in DOMAIN s : s[i] = x}

\* scan_directories with cli_only_settings.
ScanDirectories(i, d) ==
  /\ phase = "build" /\ pc = "start" /\ ~Ambiguous(i)
  /\ cli' = Settings(i)
  /\ LET kept == d.old \ d.skip
         fold == FoldSettings(<<>>, Layer(Unset, "cli"), Settings(i))
     IN  \/ kept \cap d.new \cap d.same # {} /\ pc' = "self-comparison" /\ UNCHANGED <<resolved, gaps>>
         \/ kept = {} /\ pc' = "no files" /\ UNCHANGED <<resolved, gaps>>
         \/ /\ kept # {} /\ kept \cap d.new \cap d.same = {}
            /\ pc' = "resolved"
            /\ \E both \in InAnyOrder(kept \cap d.new), gone \in InAnyOrder(kept \ d.new) :
                 /\ resolved' = [k \in DOMAIN both |->
                                   WithSettings(Stem(both[k]), Stem(both[k]), "cli", fold)]
                 /\ gaps' = [k \in DOMAIN gone |-> Stem(gone[k])]
  /\ UNCHANGED <<disk, stack, layers, pairs, sources, phase, store, cache, results, safe, edits>>

\* seen_names: two files of a directory may be of one name.
Seen(name) == \E k \in DOMAIN results : results[k].name = name

\* The run is refused at the second of them, with the reports of those before
\* it written.
DuplicateName ==
  /\ \/ phase = "gaps" /\ Len(results) < Len(gaps)
     \/ phase = "pairs" /\ Len(results) < Len(gaps) + Len(resolved)
  /\ Seen(Due(Len(results) + 1))
  /\ phase' = "aborted"
  /\ UNCHANGED <<manifestVars, gaps, store, cache, results, safe, edits>>

\* A contract that is gone is a critical finding, whatever the settings are.
RunGap ==
  /\ phase = "gaps" /\ Len(results) < Len(gaps) /\ ~Seen(Due(Len(results) + 1))
  /\ results' = Append(results, [name |-> Due(Len(results) + 1), verdict |-> "unsafe", outcome |-> "gap",
                                 config |-> None, used |-> None, gate |-> TRUE, strict |-> cli.strict])
  /\ safe' = FALSE
  /\ UNCHANGED <<manifestVars, phase, gaps, store, cache, edits>>

GapsRun ==
  /\ phase = "gaps" /\ Len(results) = Len(gaps)
  /\ phase' = "pairs"
  /\ UNCHANGED <<manifestVars, gaps, store, cache, results, safe, edits>>

\* from_toml_str: what the loading of a config refuses.
Loads(text) == text # Broken /\ (text.rule # "none" /\ text.required => text.reasoned)

NoConfigText == [gate |-> None, rule |-> "none", reasoned |-> TRUE, required |-> FALSE]

ASSUME ConfigAssumption == None \notin ConfigText /\ NoConfigText \notin {None, Broken}
ASSUME OutcomeAssumption == Outcome \subseteq {"clean", "break", "fails"}
ASSUME SweepAssumption == \A d \in Sweep : IsFiniteSet(d.old)
ASSUME EditsAssumption == MaxEdits \in Nat

\* apply_policy: a gate some file set overrides the config's own.
Gate(p, text) ==
  IF p.gate.origin # "built-in" THEN p.gate.value
  ELSE IF text.gate # None THEN text.gate ELSE DefaultGate

\* A break of the call ABI fails under --strict or where the axis is gated,
\* unless a rule names it; is_suppressed does not ask when the rule expires.
Verdict(p, text, outcome) ==
  IF outcome = "fails" THEN "error"
  ELSE IF outcome = "break" /\ text.rule = "none" /\ (p.strict.value \/ Gate(p, text)) THEN "unsafe"
  ELSE "safe"

Result(p, verdict, outcome, text) ==
  [name |-> p.name, verdict |-> verdict, outcome |-> outcome, config |-> p.config.value, used |-> text,
   gate |-> IF text \in {None, Broken} THEN TRUE ELSE Gate(p, text), strict |-> p.strict.value]

\* Mutant (JudgeUncounted): a pair that could not be compared fails nothing.
JudgeUncounted(p, text, outcome) ==
  /\ results' = Append(results, Result(p, Verdict(p, text, outcome), outcome, text))
  /\ safe' = (safe /\ Verdict(p, text, outcome) # "unsafe")

Judge(p, text, outcome) ==
  /\ results' = Append(results, Result(p, Verdict(p, text, outcome), outcome, text))
  /\ safe' = (safe /\ Verdict(p, text, outcome) = "safe")

\* suppressions_for_pair and compare_batch_pair. A path that is not in the
\* cache is read, and kept only if it loads.
RunPair ==
  /\ phase = "pairs" /\ Len(results) < Len(gaps) + Len(resolved)
  /\ ~Seen(Due(Len(results) + 1))
  /\ LET p == resolved[Len(results) - Len(gaps) + 1]
         c == p.config.value
     IN  \/ /\ c = None
            /\ \E o \in Outcome : Judge(p, NoConfigText, o)
            /\ UNCHANGED <<store, cache>>
         \/ /\ c \in DOMAIN cache
            /\ \E o \in Outcome : Judge(p, cache[c], o)
            /\ UNCHANGED <<store, cache>>
         \/ /\ c # None /\ c \notin DOMAIN cache
            /\ \E text \in IF c \in DOMAIN store THEN {store[c]} ELSE ConfigText :
                 /\ store' = Put(store, c, text)
                 /\ IF Loads(text)
                    THEN /\ cache' = Put(cache, c, text)
                         /\ \E o \in Outcome : Judge(p, text, o)
                    ELSE /\ results' = Append(results, Result(p, "error", "fails", Broken))
                         /\ safe' = FALSE
                         /\ UNCHANGED cache
  /\ UNCHANGED <<manifestVars, phase, gaps, edits>>

\* render_pair_outputs fails: the run ends with an error and no summary.
Abort ==
  /\ phase \in {"gaps", "pairs"} /\ results # <<>>
  /\ phase' = "aborted"
  /\ UNCHANGED <<manifestVars, gaps, store, cache, results, safe, edits>>

\* render_batch_summary; the exit code is that of `safe`.
Finish ==
  /\ phase = "pairs" /\ Len(results) = Len(gaps) + Len(resolved)
  /\ phase' = "done"
  /\ UNCHANGED <<manifestVars, gaps, store, cache, results, safe, edits>>

\* The environment: a config is rewritten.
EditConfig(c, text) ==
  /\ phase = "pairs" /\ edits < MaxEdits
  /\ c \in DOMAIN store /\ text # store[c]
  /\ store' = [store EXCEPT ![c] = text]
  /\ edits' = edits + 1
  /\ UNCHANGED <<manifestVars, phase, gaps, cache, results, safe>>

Next ==
  \/ BuildFromManifest \/ StartPairs
  \/ \E i \in Invocation, d \in Sweep : ScanDirectories(i, d)
  \/ RunGap \/ GapsRun \/ RunPair \/ DuplicateName \/ Abort \/ Finish
  \/ \E c \in DOMAIN store, text \in ConfigText : EditConfig(c, text)

Spec == Init /\ [][Next]_vars

-----------------------------------------------------------------------------

\* The type invariant.
TypeOK ==
  /\ phase \in {"build", "gaps", "pairs", "done", "aborted"}
  /\ pc \in {"start", "walk", "fold", "resolved", "ambiguous", "no files"} \cup IncludeErrors \cup PairErrors
  /\ stack \in Seq([path : Path, next : Nat \ {0}]) /\ Len(stack) <= MaxDepth + 1
  /\ Len(resolved) <= MaxPairs \/ sources = <<>>
  /\ \A i \in DOMAIN layers : layers[i].file \in DOMAIN disk
  /\ Len(results) <= Len(gaps) + Len(resolved)
  /\ DOMAIN cache \subseteq DOMAIN store /\ \A c \in DOMAIN cache : Loads(cache[c])
  /\ safe \in BOOLEAN /\ edits \in 0..MaxEdits

\* A run that ends has one result for every contract, in order and of names
\* that differ; it calls the upgrade safe only if each was compared and no break
\* is left that is gated or strict and that no rule names. Pairs whose config is
\* one path are judged under one text, even if the file is rewritten between
\* them. The state is well formed throughout.
VerdictHonest ==
  TypeOK /\ (phase = "done" =>
    /\ [k \in DOMAIN results |-> results[k].name]
         = gaps \o [k \in DOMAIN resolved |-> resolved[k].name]
    /\ \A j, k \in DOMAIN results : results[j].name = results[k].name => j = k
    /\ safe => \A k \in DOMAIN results :
         /\ results[k].outcome \in {"clean", "break"}
         /\ results[k].outcome = "break" =>
              results[k].used.rule # "none" \/ ~(results[k].strict \/ results[k].gate)
    /\ \A j, k \in DOMAIN results :
         results[j].config = results[k].config /\ Broken \notin {results[j].used, results[k].used}
           /\ None \notin {results[j].used, results[k].used} => results[j].used = results[k].used)

\* "Expired rules trigger a hard failure during config loading": no pair is
\* judged under a config whose rule has expired.
ExpiredRefused ==
  \A k \in DOMAIN results : results[k].used \notin {None, Broken} => results[k].used.rule # "expired"
=============================================================================
