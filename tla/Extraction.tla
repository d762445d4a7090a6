----------------------------- MODULE Extraction -----------------------------
(***************************************************************************)
(* What is read of a module before anything is compared (src/parser.rs),    *)
(* and the decoder that its specification is read by                        *)
(* (src/decoder_registry.rs).                                               *)
(*                                                                          *)
(* A module is the sequence of its payloads: types, imports, specification  *)
(* and environment sections, and such as cannot be read. A specification    *)
(* section is a sequence of items [name, form, size]; a decoder is          *)
(* [predicate, reads, schema], where reads is the set of forms it knows.    *)
(***************************************************************************)
EXTENDS Integers, Sequences, TLC
LOCAL INSTANCE SequencesExt

CONSTANT Word   \* 2^32: a packed version is two words

------------------------------------------------------------------------------
(* Versions and who owns them *)

NoVersion == [protocol |-> -1, preRelease |-> 0]
FromRaw(raw) == [protocol |-> raw \div Word, preRelease |-> raw % Word]

Predicate(form, min, max) == [form |-> form, min |-> min, max |-> max]
Matches(predicate, version) ==
    \/ predicate.form = "any"
    \/ predicate.form = "none" /\ version = NoVersion
    \/ predicate.form = "exact" /\ version.protocol = predicate.min
    \/ predicate.form = "range" /\ version.protocol \in predicate.min .. predicate.max

BuiltIn(predicate) == [predicate |-> predicate, reads |-> {"current"}, schema |-> "v0"]
DefaultRegistry ==
    <<BuiltIn(Predicate("none", 0, 0)), BuiltIn(Predicate("range", 20, 23))>>

\* The first decoder that matches, or 0.
Owner(registry, version) ==
    SelectInSeq(registry, LAMBDA d : Matches(d.predicate, version))
MayBypass(decoder, version) == Matches(decoder.predicate, version)

------------------------------------------------------------------------------
(* One specification section *)

Read(schema, items) == [i \in DOMAIN items |-> [name |-> items[i].name, schema |-> schema]]

DecodeSpec(decoder, items) ==
    IF \A i \in DOMAIN items : items[i].form \in decoder.reads
    THEN [ok |-> TRUE, entries |-> Read(decoder.schema, items)]
    ELSE [ok |-> FALSE, entries |-> <<>>]

Unsupported(version) == [status |-> "unsupported", version |-> version, entries |-> <<>>]
Decoded(decoder, version, entries) ==
    [status |-> "decoded", version |-> version, entries |-> entries,
     owned |-> decoder.predicate.form # "any"]

\* A decoder that matches and fails ends the search too.
Decode(registry, items, version) ==
    LET at == Owner(registry, version)
    IN  IF at = 0 \/ ~DecodeSpec(registry[at], items).ok THEN Unsupported(version)
        ELSE Decoded(registry[at], version, DecodeSpec(registry[at], items).entries)

\* What is recovered is read by the built-in schema, whatever decoder failed.
RecoverPrefix(items) ==
    LET stop == SelectInSeq(items, LAMBDA item : item.form # "current")
    IN  Read("v0", IF stop = 0 THEN items ELSE SubSeq(items, 1, stop - 1))

Bytes(items) == FoldLeft(LAMBDA sum, item : sum + item.size, 0, items)
SkippedBytes(items, entries) ==
    LET rest == Bytes(items) - 4 * Len(entries) IN IF rest < 0 THEN 0 ELSE rest

DecodeForwardCompat(registry, items, version) ==
    LET at == Owner(registry, version)
        entries == RecoverPrefix(items)
    IN  IF at = 0 \/ DecodeSpec(registry[at], items).ok THEN Decode(registry, items, version)
        ELSE [Decoded(registry[at], version, entries) EXCEPT !.status = "partial"]
               @@ [skipped |-> SkippedBytes(items, entries)]

------------------------------------------------------------------------------
(* extract_metadata_with_registry *)

Sections(module, what) == SelectSeq(module, LAMBDA p : p.what = what)

\* The last environment section speaks for every specification section, also for
\* those before it; one without entries names no version.
InterfaceVersion(module) ==
    LET envs == Sections(module, "env")
    IN  IF envs = <<>> \/ Last(envs).versions = <<>> THEN NoVersion
        ELSE FromRaw(Head(Last(envs).versions))

\* An import is resolved against the types that were met before it.
TypesBefore(module, i) ==
    FlattenSeq([j \in 1 .. i - 1 |-> IF module[j].what = "types" THEN module[j].types ELSE <<>>])
SignatureOf(types, index) ==
    IF index \in DOMAIN types /\ types[index] # "struct" THEN types[index] ELSE "unresolved"
HostImports(module) ==
    FlattenSeq([i \in DOMAIN module |->
        IF module[i].what # "import" THEN <<>>
        ELSE <<[name |-> module[i].name,
                signature |-> SignatureOf(TypesBefore(module, i), module[i].index)]>>])

Illegible(payload) ==
    payload.what = "unreadable" \/ (payload.what = "env" /\ payload.broken)

\* The analyses of the code come last, and fail on code that cannot be read.
ExtractMetadata(module, registry) ==
    LET version == InterfaceVersion(module)
        specs == Sections(module, "spec")
        outcomes == [i \in DOMAIN specs |-> Decode(registry, specs[i].items, version)]
    IN  IF \/ \E i \in DOMAIN module : Illegible(module[i])
           \/ \E i \in DOMAIN outcomes : outcomes[i].status = "unsupported"
           \/ Sections(module, "bad code") # <<>>
        THEN [refused |-> TRUE]
        ELSE [refused |-> FALSE, version |-> version, imports |-> HostImports(module),
              spec |-> FlattenSeq([i \in DOMAIN outcomes |-> outcomes[i].entries]),
              verified |-> specs # <<>>,
              specVersion |-> IF specs = <<>> THEN NoVersion ELSE version]

------------------------------------------------------------------------------
(* A failing input is made smaller, and kept (src/fuzz_minimize.rs). The       *)
(* oracle gives the class of each part [lo, hi] of the input: "accepted" or    *)
(* the way its extraction fails.                                               *)

Length(part) == part.hi - part.lo + 1
Part(lo, hi) == [lo |-> lo, hi |-> hi]

\* In the order in which they are tried: each end one shorter, then each half.
ReductionCandidates(part) ==
    LET middle == part.lo + (Length(part) \div 2)
    IN  (IF Length(part) > 1
         THEN <<Part(part.lo, part.hi - 1), Part(part.lo + 1, part.hi)>> ELSE <<>>)
          \o (IF Length(part) > 2
              THEN <<Part(part.lo, middle - 1), Part(middle, part.hi)>> ELSE <<>>)

\* The first candidate of the same class is the next one to reduce.
Reduce(run, oracle, class) ==
    LET candidates == ReductionCandidates(run.best)
        at == SelectInSeq(candidates, LAMBDA c : oracle[c] = class)
    IN  IF run.done THEN run
        ELSE IF at = 0
        THEN [run EXCEPT !.done = TRUE, !.attempted = @ + Len(candidates)]
        ELSE [run EXCEPT !.best = candidates[at], !.attempted = @ + at, !.accepted = Append(@, candidates[at])]

Minimize(size, oracle, maxIterations) ==
    LET whole == Part(1, size)
        start == [best |-> whole, done |-> FALSE, attempted |-> 0, accepted |-> <<>>]
    IN  IF oracle[whole] = "accepted" THEN [refused |-> TRUE]
        ELSE [refused |-> FALSE, class |-> oracle[whole]]
               @@ FoldLeft(LAMBDA run, i : Reduce(run, oracle, oracle[whole]), start,
                           [i \in 1 .. maxIterations |-> i])

\* The bytes are written before the file that tells about them. The disk may fail
\* at either. `usual` is the oracle under the default policy, which the command
\* line minimizes by too; a caller of the library may have another one.
Promote(result, usual, disk) ==
    LET part == result.best
    IN  IF usual[part] # result.class THEN [promoted |-> FALSE, files |-> <<>>]
        ELSE IF disk = "no directory" THEN [promoted |-> FALSE, files |-> <<>>]
        ELSE IF disk = "bytes cut" THEN [promoted |-> FALSE, files |-> [bin |-> "cut"]]
        ELSE IF disk = "metadata cut"
        THEN [promoted |-> FALSE, files |-> [bin |-> "whole", meta |-> "cut"]]
        ELSE [promoted |-> TRUE, files |-> [bin |-> "whole", meta |-> "whole"]]

RunFuzzMinimize(size, oracle, usual, maxIterations, output, disk) ==
    LET result == Minimize(size, oracle, maxIterations)
    IN  IF result.refused \/ output # "fixture"
        THEN [result |-> result, promoted |-> FALSE, files |-> <<>>]
        ELSE [result |-> result] @@ Promote(result, usual, disk)

==============================================================================
