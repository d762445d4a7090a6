------------------------------ MODULE Manifest ------------------------------
(***************************************************************************)
(* The resolution of a composed batch manifest (manifest.rs): visit walks  *)
(* the root and what it includes depth first and gathers the [defaults]    *)
(* layers and the pairs; fold_pairs then gives each pair its settings and  *)
(* refuses compositions whose pairs cannot be told apart.                  *)
(*                                                                         *)
(* A file is what canonical_identity makes of a path. Its text is          *)
(* [includes, config, strict, gate, pairs] or Broken (unreadable, neither  *)
(* TOML nor JSON, an unknown field, another version). One escalation       *)
(* boolean (strict) stands for the four, one gate for the valued settings  *)
(* that have no command-line layer: five gates, four limits.               *)
(***************************************************************************)
EXTENDS Naturals, Sequences, FiniteSets

CONSTANTS
  Path, Root,       \* paths of manifests, and the one named on the command line
  FileOf(_),        \* canonical_identity of a path
  Text(_),          \* what the file of an identity may hold
  Broken,           \* a text that cannot be parsed
  None,             \* an Option that is None
  MaxDepth,         \* MAX_INCLUDE_DEPTH
  MaxPairs,         \* --max-pairs
  Invocation        \* command lines: [config, env, default, ancestors, noConfig, strict]

\* A file that parses has a list of includes, in the order they are written,
\* and a list of pairs.
ASSUME TextAssumption ==
  /\ Root \in Path
  /\ \A p \in Path : \A t \in Text(FileOf(p)) :
       t # Broken => /\ t.includes \in Seq(Path)
                     /\ t.pairs \in Seq({t.pairs[k] : k \in DOMAIN t.pairs})

ASSUME CapsAssumption == MaxDepth \in Nat /\ MaxPairs \in Nat

ASSUME InvocationAssumption ==
  \A i \in Invocation :
    /\ DOMAIN i = {"config", "env", "default", "ancestors", "noConfig", "strict"}
    /\ i.noConfig \in BOOLEAN /\ i.strict \in BOOLEAN

DefaultGate == TRUE

VARIABLES
  pc,        \* "start", "walk", "fold", "resolved", or why the run is refused
  cli,       \* CliSettings
  disk,      \* the manifests read so far: identity -> text
  stack,     \* the call stack of visit: [path, next]
  layers,    \* [defaults] of the files, in the order they contribute
  pairs,     \* the pairs, in the same order: [raw, file]
  sources,   \* the files that contributed, in the order of their first visit
  resolved   \* the pairs with their settings
manifestVars == <<pc, cli, disk, stack, layers, pairs, sources, resolved>>

Unset == [config |-> None, strict |-> None, gate |-> None]
NoCli == [config |-> None, env |-> None, default |-> None, ancestors |-> {},
          noConfig |-> FALSE, strict |-> FALSE]

ManifestInit ==
  /\ pc = "start" /\ cli = NoCli
  /\ disk = [f \in {} |-> Broken]
  /\ stack = <<>> /\ layers = <<>> /\ pairs = <<>> /\ sources = <<>> /\ resolved = <<>>

Refuse(why) ==
  /\ pc' = why
  /\ UNCHANGED <<cli, disk, stack, layers, pairs, sources, resolved>>

\* cli_settings: the default and the ancestor search are consulted only when
\* nothing more specific names a config; two ancestors are an error.
Searched(i) == i.config = None /\ i.env = None /\ ~i.noConfig
Ambiguous(i) == ~i.noConfig /\ ~(Searched(i) /\ i.default # None) /\ Cardinality(i.ancestors) > 1
Settings(i) ==
  [i EXCEPT !.default = IF Searched(i) THEN @ ELSE None,
            !.ancestors = IF i.noConfig \/ (Searched(i) /\ i.default # None) THEN {} ELSE @]

-----------------------------------------------------------------------------
(* visit                                                                   *)

OnStack(path, below) == \E i \in DOMAIN below : FileOf(below[i].path) = FileOf(path)

TooFar(below) == Len(below) > MaxDepth

\* A call of visit below the frames `below`: the depth, the cycle, the text.
Visit(path, below) ==
  LET file == FileOf(path) IN
  /\ \/ TooFar(below) /\ pc' = "too deep" /\ UNCHANGED <<disk, stack>>
     \/ ~TooFar(below) /\ OnStack(path, below) /\ pc' = "cycle" /\ UNCHANGED <<disk, stack>>
     \/ /\ ~TooFar(below) /\ ~OnStack(path, below)
        /\ \E text \in IF file \in DOMAIN disk THEN {disk[file]} ELSE Text(file) :
             /\ disk' = [f \in DOMAIN disk \cup {file} |-> IF f = file THEN text ELSE disk[f]]
             /\ IF text = Broken THEN pc' = "broken" /\ UNCHANGED stack
                ELSE pc' = "walk" /\ stack' = Append(below, [path |-> path, next |-> 1])
  /\ UNCHANGED <<layers, pairs, sources, resolved>>

Resolve(i) ==
  /\ pc = "start"
  /\ IF Ambiguous(i) THEN /\ pc' = "ambiguous" /\ cli' = i
                          /\ UNCHANGED <<disk, stack, layers, pairs, sources, resolved>>
     ELSE Visit(Root, <<>>) /\ cli' = Settings(i)

Top == stack[Len(stack)]
TopText == disk[FileOf(Top.path)]

Include ==
  /\ pc = "walk" /\ stack # <<>> /\ Top.next <= Len(TopText.includes)
  /\ Visit(TopText.includes[Top.next], [stack EXCEPT ![Len(stack)].next = @ + 1])
  /\ UNCHANGED cli

Layer(text, file) == [file |-> file, config |-> text.config, strict |-> text.strict, gate |-> text.gate]

\* A file contributes after what it includes, once for every time it is reached.
Contribute ==
  /\ pc = "walk" /\ stack # <<>> /\ Top.next > Len(TopText.includes)
  /\ LET file == FileOf(Top.path) IN
     /\ sources' = IF \E i \in DOMAIN sources : sources[i] = file THEN sources ELSE Append(sources, file)
     /\ layers' = Append(layers, Layer(TopText, file))
     /\ pairs' = pairs \o [i \in DOMAIN TopText.pairs |-> [raw |-> TopText.pairs[i], file |-> file]]
  /\ stack' = SubSeq(stack, 1, Len(stack) - 1)
  /\ UNCHANGED <<pc, cli, disk, resolved>>

\* resolve, after the walk.
Gathered ==
  /\ pc = "walk" /\ stack = <<>>
  /\ pc' = IF pairs = <<>> THEN "no pairs" ELSE IF Len(pairs) > MaxPairs THEN "too many" ELSE "fold"
  /\ UNCHANGED <<cli, disk, stack, layers, pairs, sources, resolved>>

-----------------------------------------------------------------------------
(* fold_settings: a value and where it comes from.                         *)

Sourced(value, origin) == [value |-> value, origin |-> origin]

\* Mutant (EscalateLast): a later layer may switch off what an earlier one set.
EscalateLast(cliValue, chain) ==
  LET set == {i \in DOMAIN chain : chain[i].strict # None}
      last == CHOOSE i \in set : \A j \in set : j <= i
  IN  IF cliValue THEN Sourced(TRUE, "cli")
      ELSE IF set = {} THEN Sourced(FALSE, "built-in")
      ELSE Sourced(chain[last].strict, chain[last].file)

\* The first layer that enables wins and none can disable.
Escalate(cliValue, chain) ==
  LET on == {i \in DOMAIN chain : chain[i].strict = TRUE}
  IN  IF cliValue THEN Sourced(TRUE, "cli")
      ELSE IF on = {} THEN Sourced(FALSE, "built-in")
      ELSE Sourced(TRUE, chain[CHOOSE i \in on : \A j \in on : i <= j].file)

\* The last layer that sets the value `of` wins.
LastWriter(base, chain, of) ==
  LET set == {k \in DOMAIN chain : chain[k][of] # None}
      last == CHOOSE k \in set : \A j \in set : j <= k
  IN  IF set = {} THEN base ELSE Sourced(chain[last][of], chain[last].file)

BaseConfig(i) ==
  IF i.config # None THEN Sourced(i.config, "cli")
  ELSE IF i.env # None THEN Sourced(i.env, "env")
  ELSE IF i.default # None THEN Sourced(i.default, "built-in")
  ELSE IF i.ancestors # {} THEN Sourced(CHOOSE a \in i.ancestors : TRUE, "built-in")
  ELSE Sourced(None, "built-in")

FoldSettings(below, own, i) ==
  LET chain == Append(below, own)
  IN  [strict |-> Escalate(i.strict, chain),
       config |-> IF i.noConfig THEN Sourced(None, "cli") ELSE LastWriter(BaseConfig(i), chain, "config"),
       gate |-> LastWriter(Sourced(DefaultGate, "built-in"), chain, "gate")]

-----------------------------------------------------------------------------
(* fold_pairs. A raw pair is [name, id, self, bad, config, strict, gate]:  *)
(* its identity, its id or None, whether its two sides are one file,       *)
(* whether a label of it is no token (an id that is none, or is written    *)
(* twice in a file, makes the text Broken), and what it sets itself.       *)

\* Mutant (IdsGiven): only ids that are written are compared.
IdsGiven == {resolved[i].id : i \in {k \in DOMAIN resolved : resolved[k].id # resolved[k].name}}

\* What a file may leave out.
IdOf(raw) == IF raw.id = None THEN raw.name ELSE raw.id

\* A ResolvedPair, with the settings s.
WithSettings(name, id, file, s) ==
  [name |-> name, id |-> id, file |-> file, strict |-> s.strict, config |-> s.config, gate |-> s.gate]

Ids == {resolved[i].id : i \in DOMAIN resolved}
Names == {resolved[i].name : i \in DOMAIN resolved}

FoldPair ==
  /\ pc = "fold" /\ Len(resolved) < Len(pairs)
  /\ LET walked == pairs[Len(resolved) + 1]
         raw == walked.raw
         id == IdOf(raw)
     IN  IF raw.self THEN Refuse("self-comparison")
         ELSE IF raw.name \in Names THEN Refuse("duplicate name")
         ELSE IF id \in Ids THEN Refuse("duplicate id")
         ELSE IF raw.bad THEN Refuse("bad label")
         ELSE /\ resolved' = Append(resolved, WithSettings(raw.name, id, walked.file,
                               FoldSettings(layers, Layer(raw, walked.file), cli)))
              /\ UNCHANGED <<pc, cli, disk, stack, layers, pairs, sources>>

Resolved ==
  /\ pc = "fold" /\ Len(resolved) = Len(pairs)
  /\ pc' = "resolved"
  /\ UNCHANGED <<cli, disk, stack, layers, pairs, sources, resolved>>

ManifestNext ==
  \/ \E i \in Invocation : Resolve(i)
  \/ Include \/ Contribute \/ Gathered \/ FoldPair \/ Resolved

-----------------------------------------------------------------------------
(* What a composition is, over the files read so far: the ways down from   *)
(* the root, as sequences of [path, at], `at` being the place in the list  *)
(* of includes above.                                                      *)

Read(w) == FileOf(w[Len(w)].path) \in DOMAIN disk /\ disk[FileOf(w[Len(w)].path)] # Broken
TextAt(w) == disk[FileOf(w[Len(w)].path)]

Below(w) == IF Read(w) THEN {Append(w, [path |-> TextAt(w).includes[k], at |-> k]) :
                               k \in DOMAIN TextAt(w).includes} ELSE {}

WaysOf ==
  LET ways[n \in 1..(MaxDepth + 2)] ==
        IF n = 1 THEN {<<[path |-> Root, at |-> 0]>>} ELSE UNION {Below(w) : w \in ways[n - 1]}
  IN  ways
Ways == UNION {WaysOf[n] : n \in 1..(MaxDepth + 2)}

TooDeep(w) == Len(w) = MaxDepth + 2
Cyclic(w) == \E i, j \in DOMAIN w : i # j /\ FileOf(w[i].path) = FileOf(w[j].path)
Unreadable(w) == FileOf(w[Len(w)].path) \in DOMAIN disk /\ ~Read(w)

\* A pair as the composition holds it: where it is, and what it says.
Entries == UNION {IF Read(w) THEN {<<w, k>> : k \in DOMAIN TextAt(w).pairs} ELSE {} : w \in Ways}
Raw(e) == TextAt(e[1]).pairs[e[2]]

BadPairs ==
  \/ Entries = {} \/ Cardinality(Entries) > MaxPairs
  \/ \E e \in Entries : Raw(e).self \/ Raw(e).bad
  \/ \E e, f \in Entries : e # f /\ (Raw(e).name = Raw(f).name \/ IdOf(Raw(e)) = IdOf(Raw(f)))

IncludeErrors == {"too deep", "cycle", "broken"}
PairErrors == {"no pairs", "too many", "self-comparison", "duplicate name", "duplicate id", "bad label"}

\* A manifest is refused exactly when something is wrong with the composition:
\* a way down that is too deep, comes back to a file it passed (under whatever
\* path) or ends at a file that cannot be read, or pairs that are none, too
\* many, not two builds or not told apart. What is wrong is what is reported.
AcceptsExactly ==
  LET bad == \E w \in Ways : TooDeep(w) \/ Cyclic(w) \/ Unreadable(w)
  IN  /\ pc = "resolved" /\ sources # <<>> => ~bad /\ ~BadPairs
      /\ pc = "too deep" => \E w \in Ways : TooDeep(w)
      /\ pc = "cycle" => \E w \in Ways : Cyclic(w)
      /\ pc = "broken" => \E w \in Ways : Unreadable(w)
      /\ pc \in PairErrors => ~bad /\ BadPairs

\* The files of the composition that set a value.
Setters(of) == {f \in DOMAIN disk : disk[f][of] # None}
Over(f, g) == \E w \in Ways : \E i, j \in DOMAIN w :
                i < j /\ FileOf(w[i].path) = f /\ FileOf(w[j].path) = g
Once == \A i, j \in DOMAIN layers : layers[i].file = layers[j].file => i = j

\* The precedence of a valued setting s of pair p: what the pair sets, then the
\* root, then an includer over what it includes, then the command line (base).
Preceded(s, own, p, of, base) ==
  IF own[of] # None THEN s = Sourced(own[of], p.file)
  ELSE IF Setters(of) = {} THEN s = base
  ELSE /\ s.origin \in Setters(of) /\ s.value = disk[s.origin][of]
       /\ FileOf(Root) \in Setters(of) => s.origin = FileOf(Root)
       /\ Once => \A f \in Setters(of) : ~Over(f, s.origin)

\* Every pair runs with the settings the precedence gives it, each with the
\* origin that set it; an escalation is on exactly when something sets it, and
\* --no-config leaves no config whatever names one. (A file that is reached
\* twice contributes twice: which includer wins is then a matter of order.)
SettingsResolved ==
  pc = "resolved" /\ sources # <<>> =>
    \A k \in DOMAIN resolved :
      LET p == resolved[k]
          own == pairs[k].raw
          on == {f \in DOMAIN disk : disk[f].strict = TRUE} \cup (IF own.strict = TRUE THEN {p.file} ELSE {})
      IN  /\ p.file = pairs[k].file
          /\ p.strict.value = (cli.strict \/ on # {})
          /\ p.strict.value => p.strict.origin \in (IF cli.strict THEN {"cli"} ELSE on)
          /\ IF cli.noConfig THEN p.config.value = None
             ELSE Preceded(p.config, own, p, "config", BaseConfig(cli))
          /\ Preceded(p.gate, own, p, "gate", Sourced(DefaultGate, "built-in"))

\* "so root.toml wins over a.toml, which wins over b.toml": an includer wins
\* over what it includes, also when a file is included twice.
IncluderWins ==
  pc = "resolved" /\ sources # <<>> =>
    \A k \in DOMAIN resolved :
      resolved[k].gate.origin \in Setters("gate") /\ pairs[k].raw.gate = None =>
        \A f \in Setters("gate") : ~Over(f, resolved[k].gate.origin)

\* "Only searched once nothing more specific already resolved a path": the
\* parent directories cannot refuse a run that names its config.
SearchedLast == pc = "ambiguous" => cli.config = None /\ cli.env = None
=============================================================================
