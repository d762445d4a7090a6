---------------------------- MODULE BatchRunProofs ----------------------------
(***************************************************************************)
(* Proofs about Manifest and BatchRun, for any manifests, directories,     *)
(* configs and command lines.                                              *)
(*                                                                         *)
(* 1. Sequences. 2. Shape, the type invariant of the resolution: the call  *)
(* stack of visit is a way down from the root through distinct files that  *)
(* were read. 3. BatchInv, the invariant of the run, and VerdictHonest.    *)
(* 4. The ways, and WalkInv: the files that contributed, in their order,   *)
(* are the ends of a tour of the ways, children first, and the pairs are   *)
(* the entries of that tour. 5. Outcomes: what was read, what was folded,  *)
(* and what a refusal is for. 6. AcceptsExactly. 7. SettingsResolved.      *)
(***************************************************************************)
EXTENDS BatchRun, SequenceTheorems, FiniteSetTheorems, WellFoundedInduction, TLAPS

-----------------------------------------------------------------------------
(* Sequences.                                                              *)

\* A sequence, over what it holds.
IsSeq(s) == s \in Seq({s[i] : i \in DOMAIN s})

\* A sequence over any set is one over what it holds.
LEMMA OwnRange ==
  ASSUME NEW S, NEW s \in Seq(S)
  PROVE  IsSeq(s) /\ DOMAIN s = 1..Len(s) /\ Len(s) \in Nat /\ \A i \in DOMAIN s : s[i] \in S
BY DEF IsSeq

\* A sequence over S that grows by one.
LEMMA PushFacts ==
  ASSUME NEW S, NEW s \in Seq(S), NEW x \in S
  PROVE  /\ Append(s, x) \in Seq(S)
         /\ Len(Append(s, x)) = Len(s) + 1
         /\ DOMAIN Append(s, x) = 1..(Len(s) + 1) /\ DOMAIN s = 1..Len(s) /\ Len(s) \in Nat
         /\ \A i \in DOMAIN s : Append(s, x)[i] = s[i]
         /\ Append(s, x)[Len(s) + 1] = x
OBVIOUS

\* Any sequence that grows by one.
LEMMA GrowFacts ==
  ASSUME NEW s, IsSeq(s), NEW x
  PROVE  /\ IsSeq(Append(s, x))
         /\ Len(Append(s, x)) = Len(s) + 1
         /\ DOMAIN Append(s, x) = 1..(Len(s) + 1) /\ DOMAIN s = 1..Len(s) /\ Len(s) \in Nat
         /\ \A i \in DOMAIN s : Append(s, x)[i] = s[i]
         /\ Append(s, x)[Len(s) + 1] = x
<1> DEFINE S == {s[i] : i \in DOMAIN s} \cup {x}
<1>1. s \in Seq(S) /\ x \in S
  BY DEF IsSeq
<1> HIDE DEF S
<1>2. /\ Append(s, x) \in Seq(S)
      /\ Len(Append(s, x)) = Len(s) + 1
      /\ DOMAIN Append(s, x) = 1..(Len(s) + 1) /\ DOMAIN s = 1..Len(s) /\ Len(s) \in Nat
      /\ \A i \in DOMAIN s : Append(s, x)[i] = s[i]
      /\ Append(s, x)[Len(s) + 1] = x
  BY <1>1
<1>3. \A a \in Seq(S) : IsSeq(a)
  BY OwnRange
<1>4. IsSeq(Append(s, x))
  BY <1>2, <1>3, Zenon
<1> QED
  BY <1>2, <1>4, Zenon

\* A sequence without its last element.
LEMMA PopFacts ==
  ASSUME NEW S, NEW s \in Seq(S), s # <<>>
  PROVE  /\ SubSeq(s, 1, Len(s) - 1) \in Seq(S)
         /\ Len(SubSeq(s, 1, Len(s) - 1)) = Len(s) - 1
         /\ DOMAIN SubSeq(s, 1, Len(s) - 1) = 1..(Len(s) - 1)
         /\ DOMAIN s = 1..Len(s) /\ Len(s) \in Nat \ {0} /\ Len(s) \in DOMAIN s
         /\ \A i \in 1..(Len(s) - 1) : SubSeq(s, 1, Len(s) - 1)[i] = s[i]
<1>1. DOMAIN s = 1..Len(s) /\ Len(s) \in Nat \ {0} /\ Len(s) \in DOMAIN s
  OBVIOUS
<1>2. \A i \in 1..(Len(s) - 1) : s[i] \in S
  BY <1>1, OwnRange
<1>3. 1 \in Int /\ Len(s) - 1 \in Int
  BY <1>1
<1> DEFINE p == SubSeq(s, 1, Len(s) - 1)
<1>4. /\ p \in Seq(S)
      /\ Len(p) = IF 1 <= Len(s) - 1 THEN Len(s) - 1 - 1 + 1 ELSE 0
      /\ \A i \in 1..(Len(s) - 1 - 1 + 1) : p[i] = s[1 + i - 1]
  BY <1>2, <1>3, SubSeqProperties
<1> HIDE DEF p
<1>5. Len(p) = Len(s) - 1 /\ \A i \in 1..(Len(s) - 1) : p[i] = s[i]
  <2>1. Len(s) - 1 - 1 + 1 = Len(s) - 1 /\ \A i \in 1..(Len(s) - 1) : 1 + i - 1 = i
    BY <1>1
  <2>2. Len(p) = Len(s) - 1
    <3>1. \A n \in Nat \ {0} : (IF 1 <= n - 1 THEN n - 1 - 1 + 1 ELSE 0) = n - 1
      OBVIOUS
    <3> QED
      BY <1>1, <1>4, <3>1
  <2> QED
    BY <1>4, <2>1, <2>2
<1>6. DOMAIN p = 1..Len(p)
  BY <1>4
<1> QED
  BY <1>1, <1>4, <1>5, <1>6 DEF p

\* A function over 1..n is a sequence.
LEMMA TableFacts ==
  ASSUME NEW n \in Nat, NEW f, f = [i \in 1..n |-> f[i]]
  PROVE  IsSeq(f) /\ Len(f) = n /\ DOMAIN f = 1..n
BY DEF IsSeq

\* Two sequences, one after the other.
Cat(s, t) == s \o t

\* Two lists, one after the other.
IsJoin(j, s, t) ==
  /\ IsSeq(j) /\ Len(j) = Len(s) + Len(t) /\ Len(s) \in Nat /\ Len(t) \in Nat
  /\ DOMAIN j = 1..(Len(s) + Len(t)) /\ DOMAIN s = 1..Len(s) /\ DOMAIN t = 1..Len(t)
  /\ \A p \in DOMAIN s : p \in DOMAIN j /\ j[p] = s[p]
  /\ \A k \in DOMAIN t : Len(s) + k \in DOMAIN j /\ j[Len(s) + k] = t[k]
  /\ \A p \in DOMAIN j : p \in DOMAIN s \/ \E k \in DOMAIN t : p = Len(s) + k

\* What is in two sequences, one after the other, and where.
LEMMA JoinFacts ==
  ASSUME NEW s, IsSeq(s), NEW t, IsSeq(t), NEW j, j = Cat(s, t)
  PROVE  IsJoin(j, s, t)
<1> DEFINE S == {s[i] : i \in DOMAIN s} \cup {t[i] : i \in DOMAIN t}
<1>0. s \in Seq(S) /\ t \in Seq(S)
  BY DEF IsSeq
<1> HIDE DEF S
<1>1. /\ j \in Seq(S)
      /\ Len(j) = Len(s) + Len(t)
      /\ \A i \in 1..(Len(s) + Len(t)) : j[i] = IF i <= Len(s) THEN s[i] ELSE t[i - Len(s)]
  BY <1>0, ConcatProperties DEF Cat
<1>2. /\ Len(s) \in Nat /\ Len(t) \in Nat /\ DOMAIN s = 1..Len(s) /\ DOMAIN t = 1..Len(t)
      /\ DOMAIN j = 1..Len(j) /\ IsSeq(j)
  BY <1>0, <1>1, OwnRange
<1>3. \A p \in DOMAIN s : p \in DOMAIN j /\ j[p] = s[p]
  BY <1>1, <1>2
<1>4. \A k \in DOMAIN t : Len(s) + k \in DOMAIN j /\ j[Len(s) + k] = t[k]
  <2> SUFFICES ASSUME NEW k \in DOMAIN t PROVE Len(s) + k \in DOMAIN j /\ j[Len(s) + k] = t[k]
    OBVIOUS
  <2>1. /\ Len(s) + k \in 1..(Len(s) + Len(t)) /\ ~(Len(s) + k <= Len(s))
        /\ (Len(s) + k) - Len(s) = k
    BY <1>2
  <2> QED
    BY <1>1, <1>2, <2>1
<1>5. \A p \in DOMAIN j : p \in DOMAIN s \/ \E k \in DOMAIN t : p = Len(s) + k
  <2> SUFFICES ASSUME NEW p \in DOMAIN j, p \notin DOMAIN s PROVE \E k \in DOMAIN t : p = Len(s) + k
    OBVIOUS
  <2>1. p - Len(s) \in DOMAIN t /\ p = Len(s) + (p - Len(s))
    BY <1>1, <1>2
  <2> QED
    BY <2>1
<1> QED
  BY <1>1, <1>2, <1>3, <1>4, <1>5 DEF IsJoin

\* The empty sequence.
LEMMA EmptyFacts == IsSeq(<<>>) /\ Len(<<>>) = 0 /\ DOMAIN <<>> = {}
BY DEF IsSeq

\* Induction, over a set of numbers.
LEMMA SetInduction ==
  ASSUME NEW S, 0 \in S, \A n \in Nat : n \in S => n + 1 \in S
  PROVE  \A n \in Nat : n \in S
<1> SUFFICES ASSUME Nat \ S # {} PROVE FALSE
  OBVIOUS
<1> DEFINE R == OpToRel(<, Nat)
<1>1. \A x, y \in Nat : x < y => <<x, y>> \in R
  BY DEF OpToRel
<1>2. IsWellFoundedOn(R, Nat)
  BY NatLessThanWellFounded, Zenon
<1> HIDE DEF R
<1>3. PICK n \in Nat \ S : \A m \in Nat \ S : <<m, n>> \notin R
  BY <1>2, WFMin
<1>4. n # 0 /\ n - 1 \in Nat /\ n - 1 < n /\ (n - 1) + 1 = n
  BY <1>3
<1>5. n - 1 \in S
  BY <1>1, <1>3, <1>4
<1> QED
  BY <1>3, <1>4, <1>5


-----------------------------------------------------------------------------
(* The walk: what the stack, the disk and the lists are.                   *)

\* A frame of the call stack.
Frame == [path : Path, next : Nat \ {0}]

\* The file of a path was read, and could be.
Known(p) == FileOf(p) \in DOMAIN disk /\ disk[FileOf(p)] # Broken
\* What the file of a path includes.
Includes(p) == disk[FileOf(p)].includes

\* What was read holds two lists.
DiskInv ==
  \A f \in DOMAIN disk : disk[f] # Broken => disk[f].includes \in Seq(Path) /\ IsSeq(disk[f].pairs)

\* The stack is a way down from the root through distinct files that were read.
StackInv ==
  /\ stack \in Seq(Frame) /\ Len(stack) <= MaxDepth + 1
  /\ \A i \in DOMAIN stack : Known(stack[i].path) /\ stack[i].next <= Len(Includes(stack[i].path)) + 1
  /\ stack # <<>> => stack[1].path = Root
  /\ \A i \in DOMAIN stack : i < Len(stack) =>
       stack[i].next > 1 /\ Includes(stack[i].path)[stack[i].next - 1] = stack[i + 1].path
  /\ \A i, j \in DOMAIN stack : FileOf(stack[i].path) = FileOf(stack[j].path) => i = j

\* The lists are lists; a layer is of a file that was read.
ListsInv ==
  /\ IsSeq(layers) /\ IsSeq(pairs) /\ IsSeq(resolved) /\ IsSeq(sources)
  /\ \A i \in DOMAIN layers : layers[i].file \in DOMAIN disk

\* What the lists may hold at each stage.
StageInv ==
  /\ pc \in {"start", "walk", "fold", "resolved", "ambiguous", "no files"} \cup IncludeErrors \cup PairErrors
  /\ pc = "start" => /\ stack = <<>> /\ layers = <<>> /\ pairs = <<>> /\ sources = <<>> /\ resolved = <<>>
                     /\ DOMAIN disk = {}
  /\ pc = "walk" => resolved = <<>>
  /\ pc = "fold" => Len(pairs) <= MaxPairs
  /\ sources # <<>> => Len(resolved) <= MaxPairs

\* The switches of the command line.
CliInv == cli.strict \in BOOLEAN /\ cli.noConfig \in BOOLEAN

\* The type invariant of the resolution.
Shape == DiskInv /\ StackInv /\ ListsInv /\ StageInv /\ CliInv

\* A file is read once.
DiskGrows == \A f \in DOMAIN disk : f \in DOMAIN disk' /\ disk'[f] = disk[f]

\* The three ends of a call of visit, and the way on.
LEMMA VisitSplit ==
  ASSUME DiskInv, NEW path \in Path, NEW below, Visit(path, below)
  PROVE  /\ layers' = layers /\ pairs' = pairs /\ sources' = sources /\ resolved' = resolved
         /\ DiskGrows /\ DiskInv'
         /\ \A f \in DOMAIN disk' : f \in DOMAIN disk \/ f = FileOf(path)
         /\ \/ /\ pc' = "walk" /\ stack' = Append(below, [path |-> path, next |-> 1])
               /\ ~TooFar(below) /\ ~OnStack(path, below)
               /\ FileOf(path) \in DOMAIN disk' /\ disk'[FileOf(path)] # Broken
            \/ pc' = "too deep" /\ TooFar(below) /\ disk' = disk /\ stack' = stack
            \/ pc' = "cycle" /\ OnStack(path, below) /\ disk' = disk /\ stack' = stack
            \/ /\ pc' = "broken" /\ stack' = stack /\ ~TooFar(below) /\ ~OnStack(path, below)
               /\ FileOf(path) \in DOMAIN disk' /\ disk'[FileOf(path)] = Broken
<1> DEFINE file == FileOf(path)
<1>1. layers' = layers /\ pairs' = pairs /\ sources' = sources /\ resolved' = resolved
  BY DEF Visit
<1>2. CASE TooFar(below) /\ pc' = "too deep" /\ UNCHANGED <<disk, stack>>
  BY <1>1, <1>2 DEF DiskGrows, DiskInv
<1>3. CASE ~TooFar(below) /\ OnStack(path, below) /\ pc' = "cycle" /\ UNCHANGED <<disk, stack>>
  BY <1>1, <1>3 DEF DiskGrows, DiskInv
<1>4. CASE /\ ~TooFar(below) /\ ~OnStack(path, below)
           /\ \E text \in IF file \in DOMAIN disk THEN {disk[file]} ELSE Text(file) :
                /\ disk' = [f \in DOMAIN disk \cup {file} |-> IF f = file THEN text ELSE disk[f]]
                /\ IF text = Broken THEN pc' = "broken" /\ UNCHANGED stack
                   ELSE pc' = "walk" /\ stack' = Append(below, [path |-> path, next |-> 1])
  <2>1. PICK text \in IF file \in DOMAIN disk THEN {disk[file]} ELSE Text(file) :
           /\ disk' = [f \in DOMAIN disk \cup {file} |-> IF f = file THEN text ELSE disk[f]]
           /\ IF text = Broken THEN pc' = "broken" /\ UNCHANGED stack
              ELSE pc' = "walk" /\ stack' = Append(below, [path |-> path, next |-> 1])
    BY <1>4
  <2>2. file \in DOMAIN disk => text = disk[file]
    BY <2>1
  <2>3. text # Broken => text.includes \in Seq(Path) /\ IsSeq(text.pairs)
    <3>1. CASE file \in DOMAIN disk
      BY <2>2, <3>1 DEF DiskInv
    <3>2. CASE file \notin DOMAIN disk
      <4>1. text \in Text(FileOf(path))
        BY <2>1, <3>2
      <4> QED
        BY <4>1, TextAssumption DEF IsSeq
    <3> QED
      BY <3>1, <3>2
  <2> HIDE DEF file
  <2>4. DOMAIN disk' = DOMAIN disk \cup {file} /\ disk'[file] = text
        /\ \A f \in DOMAIN disk : disk'[f] = disk[f]
    BY <2>1, <2>2
  <2>5. DiskGrows /\ DiskInv'
    BY <2>3, <2>4 DEF DiskGrows, DiskInv
  <2> QED
    BY <1>1, <1>4, <2>1, <2>4, <2>5 DEF file
<1> QED
  BY <1>2, <1>3, <1>4 DEF Visit

\* The stack under what the top includes next.
Advanced == [stack EXCEPT ![Len(stack)].next = @ + 1]

\* The stack, advanced to the next include.
LEMMA AdvancedFacts ==
  ASSUME StackInv, stack # <<>>
  PROVE  /\ Advanced \in Seq(Frame) /\ Len(Advanced) = Len(stack) /\ DOMAIN Advanced = DOMAIN stack
         /\ DOMAIN stack = 1..Len(stack) /\ Len(stack) \in Nat \ {0} /\ Len(stack) \in DOMAIN stack
         /\ \A i \in DOMAIN stack : /\ Advanced[i].path = stack[i].path
                                    /\ Advanced[i].next = IF i = Len(stack) THEN stack[i].next + 1
                                                          ELSE stack[i].next
         /\ \A i \in DOMAIN stack : stack[i].path \in Path /\ stack[i].next \in Nat \ {0}
         /\ Top = stack[Len(stack)]
<1>1. /\ stack \in Seq(Frame) /\ DOMAIN stack = 1..Len(stack) /\ Len(stack) \in Nat \ {0}
      /\ Len(stack) \in DOMAIN stack
  BY DEF StackInv
<1>2. \A i \in DOMAIN stack : stack[i] \in Frame
  BY <1>1, OwnRange
<1>3. \A i \in DOMAIN stack : stack[i].path \in Path /\ stack[i].next \in Nat \ {0}
  BY <1>2 DEF Frame
<1>4. DOMAIN Advanced = DOMAIN stack
  BY DEF Advanced
<1>5. \A i \in DOMAIN stack : /\ Advanced[i].path = stack[i].path
                              /\ Advanced[i].next = IF i = Len(stack) THEN stack[i].next + 1 ELSE stack[i].next
                              /\ Advanced[i] \in Frame
  BY <1>1, <1>2 DEF Advanced, Frame
<1>6. Advanced = [i \in 1..Len(stack) |-> Advanced[i]]
  BY <1>1 DEF Advanced
<1>7. Advanced \in Seq(Frame) /\ Len(Advanced) = Len(stack)
  <2> DEFINE a == Advanced
             n == Len(stack)
  <2>1. n \in Nat /\ a = [i \in 1..n |-> a[i]] /\ \A i \in 1..n : a[i] \in Frame
    BY <1>1, <1>5, <1>6
  <2> HIDE DEF a, n
  <2>2. a \in Seq(Frame) /\ Len(a) = n
    BY <2>1
  <2> QED
    BY <2>2 DEF a, n
<1> QED
  BY <1>1, <1>3, <1>4, <1>5, <1>7 DEF Top

\* A frame that is pushed.
LEMMA PushKeeps ==
  ASSUME Shape, NEW path \in Path, NEW below \in Seq(Frame), Len(below) = Len(stack),
         \A i \in DOMAIN stack : below[i].path = stack[i].path,
         \A i \in DOMAIN stack : below[i].next <= Len(Includes(stack[i].path)) + 1,
         \A i \in DOMAIN stack : below[i].next > 1 /\
            Includes(stack[i].path)[below[i].next - 1] =
              (IF i = Len(stack) THEN path ELSE stack[i + 1].path),
         stack = <<>> => path = Root,
         Visit(path, below)
  PROVE  StackInv'
<1> DEFINE n == Len(stack)
<1>1. /\ DOMAIN stack = 1..n /\ n \in Nat /\ DOMAIN below = 1..n
      /\ \A i \in 1..n : below[i] \in Frame
  BY OwnRange DEF Shape, StackInv
<1>2. /\ DiskGrows
      /\ \A i \in 1..n : /\ FileOf(stack[i].path) \in DOMAIN disk' /\ disk'[FileOf(stack[i].path)] # Broken
                         /\ disk'[FileOf(stack[i].path)] = disk[FileOf(stack[i].path)]
                         /\ FileOf(stack[i].path) \in DOMAIN disk
  <2>1. DiskGrows
    BY VisitSplit DEF Shape
  <2>2. \A i \in 1..n : FileOf(stack[i].path) \in DOMAIN disk /\ disk[FileOf(stack[i].path)] # Broken
    BY <1>1 DEF Shape, StackInv, Known
  <2> QED
    BY <2>1, <2>2 DEF DiskGrows
<1>3. CASE stack' = stack
  <2> PICK d : d = disk'
    OBVIOUS
  <2>1. \A i \in 1..n : /\ FileOf(stack[i].path) \in DOMAIN d /\ d[FileOf(stack[i].path)] # Broken
                        /\ d[FileOf(stack[i].path)] = disk[FileOf(stack[i].path)]
    BY <1>2
  <2>2. /\ stack \in Seq(Frame) /\ Len(stack) <= MaxDepth + 1
        /\ stack # <<>> => stack[1].path = Root
        /\ \A i, j \in DOMAIN stack : FileOf(stack[i].path) = FileOf(stack[j].path) => i = j
    BY DEF Shape, StackInv
  <2>3. \A i \in DOMAIN stack : /\ FileOf(stack[i].path) \in DOMAIN d /\ d[FileOf(stack[i].path)] # Broken
                                /\ stack[i].next <= Len(d[FileOf(stack[i].path)].includes) + 1
    BY <1>1, <2>1 DEF Shape, StackInv, Includes
  <2>4. \A i \in DOMAIN stack : i < Len(stack) =>
           stack[i].next > 1 /\ d[FileOf(stack[i].path)].includes[stack[i].next - 1] = stack[i + 1].path
    BY <1>1, <2>1 DEF Shape, StackInv, Includes
  <2> QED
    BY <1>3, <2>2, <2>3, <2>4 DEF StackInv, Known, Includes
<1>4. CASE /\ stack' = Append(below, [path |-> path, next |-> 1])
           /\ ~TooFar(below) /\ ~OnStack(path, below)
           /\ FileOf(path) \in DOMAIN disk' /\ disk'[FileOf(path)] # Broken /\ DiskInv'
  <2> DEFINE frame == [path |-> path, next |-> 1]
  <2>1. frame \in Frame /\ frame.path = path /\ frame.next = 1
    BY DEF Frame
  <2> HIDE DEF frame
  <2> PICK s : s = Append(below, frame)
    OBVIOUS
  <2> PICK d : d = disk'
    OBVIOUS
  <2>2. /\ s \in Seq(Frame) /\ Len(s) = n + 1 /\ DOMAIN s = 1..(n + 1)
        /\ \A i \in 1..n : s[i] = below[i]
        /\ s[n + 1] = frame
    BY <1>1, <2>1, PushFacts
  <2>3. stack' = s
    BY <1>4 DEF frame
  <2>4. n + 1 <= MaxDepth + 1
    BY <1>1, <1>4, CapsAssumption DEF TooFar
  <2>5. \A i \in 1..(n + 1) : i \in 1..n \/ i = n + 1
    BY <1>1
  <2>6. d[FileOf(path)].includes \in Seq(Path) /\ FileOf(path) \in DOMAIN d /\ d[FileOf(path)] # Broken
    BY <1>4 DEF DiskInv
  <2>8. \A i \in 1..(n + 1) : s[i].path = IF i = n + 1 THEN path ELSE stack[i].path
    BY <1>1, <2>1, <2>2, <2>5
  <2>9. \A i \in 1..(n + 1) : /\ FileOf(s[i].path) \in DOMAIN d /\ d[FileOf(s[i].path)] # Broken
                              /\ s[i].next <= Len(d[FileOf(s[i].path)].includes) + 1
    <3>1. ASSUME NEW i \in 1..n
          PROVE  /\ FileOf(s[i].path) \in DOMAIN d /\ d[FileOf(s[i].path)] # Broken
                 /\ s[i].next <= Len(d[FileOf(s[i].path)].includes) + 1
      <4>1. s[i].path = stack[i].path /\ s[i] = below[i]
        BY <1>1, <2>2
      <4>2. /\ FileOf(stack[i].path) \in DOMAIN d /\ d[FileOf(stack[i].path)] # Broken
            /\ d[FileOf(stack[i].path)] = disk[FileOf(stack[i].path)]
        BY <1>2
      <4>3. below[i].next <= Len(disk[FileOf(stack[i].path)].includes) + 1
        BY <1>1 DEF Includes
      <4> QED
        BY <4>1, <4>2, <4>3
    <3>2. s[n + 1].path = path /\ s[n + 1].next = 1
      BY <2>1, <2>2
    <3>3. Len(d[FileOf(path)].includes) \in Nat
      BY <2>6
    <3>4. 1 <= Len(d[FileOf(path)].includes) + 1
      BY <3>3
    <3>5. /\ FileOf(s[n + 1].path) \in DOMAIN d /\ d[FileOf(s[n + 1].path)] # Broken
          /\ s[n + 1].next <= Len(d[FileOf(s[n + 1].path)].includes) + 1
      BY <2>6, <3>2, <3>4
    <3> QED
      BY <2>5, <3>1, <3>5, Zenon
  <2>10. s[1].path = Root
    <3>1. CASE n = 0
      <4>1. stack = <<>>
        BY <1>1, <3>1 DEF Shape, StackInv
      <4> QED
        BY <2>8, <3>1, <4>1
    <3>2. CASE n # 0
      <4>1. stack # <<>> /\ 1 \in 1..n /\ stack[1].path = Root
        <5>1. stack # <<>> /\ 1 \in 1..n
          BY <1>1, <3>2
        <5> QED
          BY <5>1 DEF Shape, StackInv
      <4>2. 1 # n + 1 /\ 1 \in 1..(n + 1)
        BY <1>1, <3>2
      <4> QED
        BY <2>8, <4>1, <4>2
    <3> QED
      BY <3>1, <3>2
  <2>11. \A i \in 1..(n + 1) : i < n + 1 =>
            s[i].next > 1 /\ d[FileOf(s[i].path)].includes[s[i].next - 1] = s[i + 1].path
    <3> SUFFICES ASSUME NEW i \in 1..(n + 1), i < n + 1
                 PROVE  s[i].next > 1 /\ d[FileOf(s[i].path)].includes[s[i].next - 1] = s[i + 1].path
      OBVIOUS
    <3>1. i \in 1..n /\ i + 1 \in 1..(n + 1) /\ (i + 1 = n + 1 <=> i = n)
      <4>1. \A m \in Nat : \A h \in 1..(m + 1) : h < m + 1 =>
              h \in 1..m /\ h + 1 \in 1..(m + 1) /\ (h + 1 = m + 1 <=> h = m)
        OBVIOUS
      <4> QED
        BY <1>1, <4>1, Zenon
    <3>2. s[i] = below[i] /\ s[i].path = stack[i].path
      BY <1>1, <2>2, <3>1
    <3>3. d[FileOf(stack[i].path)] = disk[FileOf(stack[i].path)]
      BY <1>2, <3>1
    <3>4. s[i + 1].path = IF i = n THEN path ELSE stack[i + 1].path
      BY <2>8, <3>1
    <3> QED
      BY <1>1, <3>1, <3>2, <3>3, <3>4 DEF Includes
  <2>12. \A i, j \in 1..(n + 1) : FileOf(s[i].path) = FileOf(s[j].path) => i = j
    <3>1. \A i, j \in 1..n : FileOf(stack[i].path) = FileOf(stack[j].path) => i = j
      BY <1>1 DEF Shape, StackInv
    <3>2. \A i \in 1..n : FileOf(stack[i].path) # FileOf(path)
      BY <1>1, <1>4 DEF OnStack
    <3> QED
      BY <2>5, <2>8, <3>1, <3>2
  <2> QED
    BY <2>2, <2>3, <2>4, <2>9, <2>10, <2>11, <2>12 DEF StackInv, Known, Includes
<1>5. /\ \/ stack' = stack
         \/ /\ stack' = Append(below, [path |-> path, next |-> 1])
            /\ ~TooFar(below) /\ ~OnStack(path, below)
            /\ FileOf(path) \in DOMAIN disk' /\ disk'[FileOf(path)] # Broken
      /\ DiskInv'
  BY VisitSplit DEF Shape
<1> QED
  BY <1>3, <1>4, <1>5

\* Nothing is read.
LEMMA ShapeInit == Init => Shape
<1> SUFFICES ASSUME Init PROVE Shape
  OBVIOUS
<1>1. /\ pc = "start" /\ cli = NoCli /\ DOMAIN disk = {}
      /\ stack = <<>> /\ layers = <<>> /\ pairs = <<>> /\ sources = <<>> /\ resolved = <<>>
  BY DEF Init, ManifestInit
<1>2. DiskInv /\ CliInv
  BY <1>1 DEF DiskInv, CliInv, NoCli
<1>3. StackInv
  <2>1. <<>> \in Seq(Frame) /\ Len(<<>>) = 0 /\ DOMAIN <<>> = {}
    OBVIOUS
  <2>2. 0 <= MaxDepth + 1
    BY CapsAssumption
  <2> QED
    BY <1>1, <2>1, <2>2 DEF StackInv
<1>4. ListsInv
  BY <1>1, EmptyFacts DEF ListsInv
<1>5. StageInv
  BY <1>1 DEF StageInv
<1> QED
  BY <1>2, <1>3, <1>4, <1>5 DEF Shape

\* The first call of visit.
LEMMA ShapeResolve ==
  ASSUME Shape, NEW i \in Invocation, Resolve(i)
  PROVE  Shape'
<1>1. pc = "start" /\ stack = <<>> /\ layers = <<>> /\ pairs = <<>> /\ sources = <<>> /\ resolved = <<>>
      /\ DiskInv /\ Shape
  BY DEF Resolve, Shape, StageInv
<1>2. i.strict \in BOOLEAN /\ i.noConfig \in BOOLEAN
      /\ Settings(i).strict = i.strict /\ Settings(i).noConfig = i.noConfig
  BY InvocationAssumption DEF Settings
<1>3. CASE Ambiguous(i)
  <2>1. /\ pc' = "ambiguous" /\ cli' = i
        /\ UNCHANGED <<disk, stack, layers, pairs, sources, resolved>>
    BY <1>3 DEF Resolve
  <2>2. DiskInv' /\ StackInv' /\ ListsInv'
    BY <2>1 DEF Shape, DiskInv, StackInv, ListsInv, Known, Includes
  <2>3. StageInv' /\ CliInv'
    BY <1>1, <1>2, <2>1 DEF Shape, StageInv, CliInv
  <2> QED
    BY <2>2, <2>3 DEF Shape
<1>4. CASE ~Ambiguous(i)
  <2>1. Visit(Root, <<>>) /\ cli' = Settings(i)
    BY <1>4 DEF Resolve
  <2>2. CliInv'
    BY <1>2, <2>1 DEF CliInv
  <2>3. /\ layers' = layers /\ pairs' = pairs /\ sources' = sources /\ resolved' = resolved
        /\ DiskGrows /\ DiskInv'
        /\ pc' \in {"walk"} \cup IncludeErrors
    BY <1>1, <2>1, VisitSplit, TextAssumption DEF IncludeErrors
  <2>4. StackInv'
    <3>1. <<>> \in Seq(Frame) /\ Len(<<>>) = Len(stack) /\ DOMAIN stack = {}
      BY <1>1
    <3>2. Root \in Path
      BY TextAssumption
    <3> QED
      BY <1>1, <2>1, <3>1, <3>2, PushKeeps
  <2>5. ListsInv'
    BY <1>1, <2>3, EmptyFacts DEF ListsInv
  <2>6. StageInv'
    BY <1>1, <2>3 DEF StageInv, IncludeErrors
  <2> QED
    BY <2>2, <2>3, <2>4, <2>5, <2>6 DEF Shape
<1> QED
  BY <1>3, <1>4

\* The lists stay what they are while the disk grows.
LEMMA ListsGrow ==
  ASSUME ListsInv, DiskGrows, layers' = layers, pairs' = pairs, resolved' = resolved, sources' = sources
  PROVE  ListsInv'
BY DEF ListsInv, DiskGrows

\* What the top includes next.
NextPath == TopText.includes[Top.next]

\* What Include visits, below what.
LEMMA IncludeSplit ==
  ASSUME Shape, Include
  PROVE  /\ pc = "walk" /\ stack # <<>> /\ Visit(NextPath, Advanced) /\ cli' = cli
         /\ NextPath \in Path /\ Top.next <= Len(Includes(Top.path)) /\ NextPath = Includes(Top.path)[Top.next]
<1>1. pc = "walk" /\ stack # <<>> /\ Top.next <= Len(TopText.includes) /\ cli' = cli
      /\ Visit(NextPath, Advanced)
  BY DEF Include, NextPath, Advanced
<1>2. /\ Top = stack[Len(stack)] /\ Len(stack) \in DOMAIN stack /\ Top.next \in Nat \ {0}
  BY <1>1, AdvancedFacts DEF Shape
<1>3. Known(Top.path)
  BY <1>2 DEF Shape, StackInv
<1>4. TopText.includes \in Seq(Path) /\ TopText.includes = Includes(Top.path)
  BY <1>3 DEF Shape, DiskInv, Known, TopText, Includes
<1>5. Top.next \in DOMAIN TopText.includes
  <2>1. DOMAIN TopText.includes = 1..Len(TopText.includes) /\ Len(TopText.includes) \in Nat
    BY <1>4, OwnRange
  <2> QED
    BY <1>1, <1>2, <2>1
<1>6. NextPath \in Path
  BY <1>4, <1>5, OwnRange DEF NextPath
<1> QED
  BY <1>1, <1>4, <1>6 DEF NextPath

\* A call of visit within another.
LEMMA ShapeInclude ==
  ASSUME Shape, Include
  PROVE  Shape'
<1>1. /\ pc = "walk" /\ stack # <<>> /\ Visit(NextPath, Advanced) /\ cli' = cli
      /\ NextPath \in Path /\ Top.next <= Len(Includes(Top.path)) /\ NextPath = Includes(Top.path)[Top.next]
  BY IncludeSplit
<1>2. /\ Advanced \in Seq(Frame) /\ Len(Advanced) = Len(stack) /\ DOMAIN Advanced = DOMAIN stack
      /\ DOMAIN stack = 1..Len(stack) /\ Len(stack) \in Nat \ {0} /\ Len(stack) \in DOMAIN stack
      /\ \A i \in DOMAIN stack : /\ Advanced[i].path = stack[i].path
                                 /\ Advanced[i].next = IF i = Len(stack) THEN stack[i].next + 1
                                                       ELSE stack[i].next
      /\ \A i \in DOMAIN stack : stack[i].path \in Path /\ stack[i].next \in Nat \ {0}
      /\ Top = stack[Len(stack)]
  BY <1>1, AdvancedFacts DEF Shape
<1>3. /\ layers' = layers /\ pairs' = pairs /\ sources' = sources /\ resolved' = resolved
      /\ DiskGrows /\ DiskInv' /\ pc' \in {"walk"} \cup IncludeErrors
  BY <1>1, VisitSplit DEF Shape, IncludeErrors
<1>4. StackInv'
  <2> PICK below : below = Advanced
    OBVIOUS
  <2> PICK path : path = NextPath
    OBVIOUS
  <2> PICK n : n = Len(stack)
    OBVIOUS
  <2>1. \A i \in DOMAIN stack : Known(stack[i].path) /\ stack[i].next <= Len(Includes(stack[i].path)) + 1
    BY DEF Shape, StackInv
  <2>2. \A i \in DOMAIN stack : Len(Includes(stack[i].path)) \in Nat
    BY <2>1 DEF Shape, DiskInv, Known, Includes
  <2>3. \A i \in DOMAIN stack : below[i].next <= Len(Includes(stack[i].path)) + 1
    <3>1. CASE TRUE
      <4> SUFFICES ASSUME NEW i \in DOMAIN stack PROVE below[i].next <= Len(Includes(stack[i].path)) + 1
        OBVIOUS
      <4>1. CASE i = n
        <5>1. below[i].next = Top.next + 1 /\ Top.path = stack[i].path /\ Top.next \in Nat
          BY <1>2, <4>1
        <5> QED
          BY <1>1, <2>2, <5>1
      <4>2. CASE i # n
        BY <1>2, <2>1, <4>2
      <4> QED
        BY <4>1, <4>2
    <3> QED
      BY <3>1
  <2>4. \A i \in DOMAIN stack : below[i].next > 1 /\
          Includes(stack[i].path)[below[i].next - 1] = (IF i = n THEN path ELSE stack[i + 1].path)
    <3> SUFFICES ASSUME NEW i \in DOMAIN stack
                 PROVE  below[i].next > 1 /\
                   Includes(stack[i].path)[below[i].next - 1] = (IF i = n THEN path ELSE stack[i + 1].path)
      OBVIOUS
    <3>1. CASE i = n
      <4>1. stack[i].next \in Nat \ {0} /\ below[i].next = stack[i].next + 1 /\ Top = stack[i]
        BY <1>2, <3>1
      <4>2. below[i].next > 1 /\ below[i].next - 1 = stack[i].next
        BY <4>1
      <4> QED
        BY <1>1, <3>1, <4>1, <4>2
    <3>2. CASE i # n
      <4>1. i < n /\ below[i].next = stack[i].next
        BY <1>2, <3>2
      <4> QED
        BY <4>1, <3>2 DEF Shape, StackInv
    <3> QED
      BY <3>1, <3>2
  <2>5. \A i \in DOMAIN stack : below[i].path = stack[i].path
    BY <1>2
  <2>6. below \in Seq(Frame) /\ Len(below) = Len(stack) /\ path \in Path /\ Visit(path, below)
    BY <1>1, <1>2
  <2> QED
    BY <1>1, <2>3, <2>4, <2>5, <2>6, PushKeeps
<1>5. ListsInv'
  BY <1>3, ListsGrow DEF Shape
<1>6. StageInv'
  BY <1>1, <1>3 DEF Shape, StageInv, IncludeErrors
<1>7. CliInv'
  BY <1>1 DEF Shape, CliInv
<1> QED
  BY <1>3, <1>4, <1>5, <1>6, <1>7 DEF Shape

\* What Contribute appends, field by field.
LEMMA ContributeSplit ==
  ASSUME Shape, Contribute
  PROVE  /\ pc = "walk" /\ stack # <<>> /\ Top.next = Len(Includes(Top.path)) + 1
         /\ Known(Top.path) /\ IsSeq(disk[FileOf(Top.path)].pairs)
         /\ Top = stack[Len(stack)] /\ Len(stack) \in DOMAIN stack
         /\ sources' # <<>> /\ IsSeq(sources')
         /\ layers' = Append(layers, Layer(disk[FileOf(Top.path)], FileOf(Top.path)))
         /\ pairs' = pairs \o [i \in DOMAIN disk[FileOf(Top.path)].pairs |->
                                 [raw |-> disk[FileOf(Top.path)].pairs[i], file |-> FileOf(Top.path)]]
         /\ stack' = SubSeq(stack, 1, Len(stack) - 1)
         /\ pc' = pc /\ cli' = cli /\ disk' = disk /\ resolved' = resolved
<1>1. /\ pc = "walk" /\ stack # <<>> /\ Top.next > Len(TopText.includes)
      /\ sources' = IF \E i \in DOMAIN sources : sources[i] = FileOf(Top.path) THEN sources
                    ELSE Append(sources, FileOf(Top.path))
      /\ layers' = Append(layers, Layer(TopText, FileOf(Top.path)))
      /\ pairs' = pairs \o [i \in DOMAIN TopText.pairs |-> [raw |-> TopText.pairs[i], file |-> FileOf(Top.path)]]
      /\ stack' = SubSeq(stack, 1, Len(stack) - 1)
      /\ pc' = pc /\ cli' = cli /\ disk' = disk /\ resolved' = resolved
  BY DEF Contribute
<1>2. Top = stack[Len(stack)] /\ Len(stack) \in DOMAIN stack /\ Top.next \in Nat
  BY <1>1, AdvancedFacts DEF Shape
<1>3. Known(Top.path) /\ Top.next <= Len(Includes(Top.path)) + 1
  BY <1>2 DEF Shape, StackInv
<1>4. IsSeq(disk[FileOf(Top.path)].pairs) /\ Len(Includes(Top.path)) \in Nat
  BY <1>3 DEF Shape, DiskInv, Known, Includes
<1>5. Top.next = Len(Includes(Top.path)) + 1
  <2>1. Top.next > Len(Includes(Top.path))
    BY <1>1, Zenon DEF TopText, Includes
  <2> PICK a : a = Top.next
    OBVIOUS
  <2> PICK b : b = Len(Includes(Top.path))
    OBVIOUS
  <2>2. a \in Nat /\ b \in Nat /\ a > b /\ a <= b + 1
    BY <1>2, <1>3, <1>4, <2>1, Zenon
  <2>3. a = b + 1
    BY <2>2
  <2> QED
    BY <2>3, Zenon
<1>6. sources' # <<>>
  <2>1. CASE \E i \in DOMAIN sources : sources[i] = FileOf(Top.path)
    <3>1. DOMAIN sources # {} /\ DOMAIN <<>> = {}
      BY <2>1
    <3> QED
      BY <1>1, <2>1, <3>1
  <2>2. CASE ~\E i \in DOMAIN sources : sources[i] = FileOf(Top.path)
    <3>1. sources' = Append(sources, FileOf(Top.path))
      BY <1>1, <2>2
    <3>2. Len(sources') = Len(sources) + 1 /\ Len(sources) \in Nat
      BY <3>1, GrowFacts DEF Shape, ListsInv
    <3>3. Len(<<>>) = 0
      OBVIOUS
    <3> QED
      BY <3>2, <3>3
  <2> QED
    BY <2>1, <2>2
<1>7. IsSeq(sources')
  <2>1. IsSeq(sources) /\ IsSeq(Append(sources, FileOf(Top.path)))
    BY GrowFacts DEF Shape, ListsInv
  <2> QED
    BY <1>1, <2>1
<1> QED
  BY <1>1, <1>2, <1>3, <1>4, <1>5, <1>6, <1>7 DEF TopText

\* The pairs of a text, as the walk gathers them.
PairsOf(f) == [i \in DOMAIN disk[f].pairs |-> [raw |-> disk[f].pairs[i], file |-> f]]

\* A file that is done.
LEMMA ShapeContribute ==
  ASSUME Shape, Contribute
  PROVE  Shape'
<1> PICK f : f = FileOf(Top.path)
  OBVIOUS
<1>1. /\ pc = "walk" /\ stack # <<>> /\ Known(Top.path) /\ f \in DOMAIN disk
      /\ IsSeq(disk[f].pairs)
      /\ sources' # <<>> /\ IsSeq(sources')
      /\ layers' = Append(layers, Layer(disk[f], f))
      /\ pairs' = pairs \o PairsOf(f)
      /\ stack' = SubSeq(stack, 1, Len(stack) - 1)
      /\ pc' = pc /\ cli' = cli /\ disk' = disk /\ resolved' = resolved
  BY ContributeSplit DEF PairsOf, Known
<1>2. DiskInv' /\ CliInv' /\ StageInv'
  <2>1. DiskInv' /\ CliInv'
    BY <1>1 DEF Shape, DiskInv, CliInv
  <2>2. resolved' = <<>>
    BY <1>1 DEF Shape, StageInv
  <2> QED
    BY <1>1, <2>1, <2>2, CapsAssumption DEF Shape, StageInv
<1>3. ListsInv'
  <2>1. IsSeq(layers') /\ \A i \in DOMAIN layers' : layers'[i].file \in DOMAIN disk
    <3> PICK l : l = Layer(disk[f], f)
      OBVIOUS
    <3>1. l.file = f
      BY DEF Layer
    <3>2. /\ IsSeq(Append(layers, l))
          /\ DOMAIN Append(layers, l) = 1..(Len(layers) + 1) /\ DOMAIN layers = 1..Len(layers)
          /\ Len(layers) \in Nat
          /\ \A i \in DOMAIN layers : Append(layers, l)[i] = layers[i]
          /\ Append(layers, l)[Len(layers) + 1] = l
      BY GrowFacts DEF Shape, ListsInv
    <3>3. \A i \in 1..(Len(layers) + 1) : i \in 1..Len(layers) \/ i = Len(layers) + 1
      BY <3>2
    <3>4. \A i \in DOMAIN layers : layers[i].file \in DOMAIN disk
      BY DEF Shape, ListsInv
    <3>5. layers' = Append(layers, l)
      BY <1>1
    <3> HIDE DEF Layer
    <3> QED
      BY <1>1, <3>1, <3>2, <3>3, <3>4, <3>5
  <2>2. IsSeq(PairsOf(f))
    <3>1. DOMAIN disk[f].pairs = 1..Len(disk[f].pairs) /\ Len(disk[f].pairs) \in Nat
      BY <1>1, OwnRange DEF IsSeq
    <3> QED
      BY <3>1, TableFacts DEF PairsOf
  <2>3. IsSeq(pairs')
    <3> PICK j : j = Cat(pairs, PairsOf(f))
      OBVIOUS
    <3>1. IsSeq(j)
      BY <2>2, JoinFacts DEF Shape, ListsInv, IsJoin
    <3> QED
      BY <1>1, <3>1 DEF Cat
  <2> QED
    BY <1>1, <2>1, <2>3 DEF Shape, ListsInv
<1>4. StackInv'
  <2> PICK s : s = SubSeq(stack, 1, Len(stack) - 1)
    OBVIOUS
  <2> PICK n : n = Len(stack)
    OBVIOUS
  <2>0. stack \in Seq(Frame)
    BY DEF Shape, StackInv
  <2>1. /\ s \in Seq(Frame) /\ Len(s) = n - 1 /\ DOMAIN s = 1..(n - 1)
        /\ DOMAIN stack = 1..n /\ n \in Nat \ {0}
        /\ \A i \in 1..(n - 1) : s[i] = stack[i]
    BY <1>1, <2>0, PopFacts
  <2>2. stack' = s /\ disk' = disk
    BY <1>1
  <2>3. \A i \in 1..(n - 1) : i \in 1..n /\ i < n
    BY <2>1
  <2>4. Len(s) <= MaxDepth + 1
    BY <2>1, CapsAssumption DEF Shape, StackInv
  <2>5. s # <<>> => s[1].path = Root
    <3>1. s # <<>> => n - 1 # 0
      BY <2>1
    <3>2. s # <<>> => 1 \in 1..(n - 1)
      BY <2>1, <3>1
    <3> QED
      BY <1>1, <2>1, <3>2 DEF Shape, StackInv
  <2>6. \A i \in 1..(n - 1) : Known(s[i].path) /\ s[i].next <= Len(Includes(s[i].path)) + 1
    BY <2>1, <2>3 DEF Shape, StackInv
  <2>7. \A i \in 1..(n - 1) : i < n - 1 =>
          s[i].next > 1 /\ Includes(s[i].path)[s[i].next - 1] = s[i + 1].path
    <3> SUFFICES ASSUME NEW i \in 1..(n - 1), i < n - 1
                 PROVE  s[i].next > 1 /\ Includes(s[i].path)[s[i].next - 1] = s[i + 1].path
      OBVIOUS
    <3>1. i + 1 \in 1..(n - 1) /\ i \in DOMAIN stack /\ i < Len(stack)
      BY <2>1
    <3>2. s[i] = stack[i] /\ s[i + 1] = stack[i + 1]
      BY <2>1, <3>1
    <3> QED
      BY <3>1, <3>2 DEF Shape, StackInv
  <2>8. \A i, j \in 1..(n - 1) : FileOf(s[i].path) = FileOf(s[j].path) => i = j
    <3>1. \A i, j \in DOMAIN stack : FileOf(stack[i].path) = FileOf(stack[j].path) => i = j
      BY DEF Shape, StackInv
    <3> QED
      BY <2>1, <2>3, <3>1
  <2> QED
    BY <2>1, <2>2, <2>4, <2>5, <2>6, <2>7, <2>8 DEF StackInv, Known, Includes
<1> QED
  BY <1>2, <1>3, <1>4 DEF Shape

\* The walk is over.
LEMMA ShapeGathered ==
  ASSUME Shape, Gathered
  PROVE  Shape'
<1>1. /\ pc = "walk" /\ UNCHANGED <<cli, disk, stack, layers, pairs, sources, resolved>>
      /\ pc' \in {"no pairs", "too many", "fold"} /\ (pc' = "fold" => ~(Len(pairs) > MaxPairs))
  BY DEF Gathered
<1>2. DiskInv' /\ StackInv' /\ ListsInv' /\ CliInv'
  BY <1>1 DEF Shape, DiskInv, StackInv, ListsInv, CliInv, Known, Includes
<1>3. Len(pairs) \in Nat
  BY OwnRange DEF Shape, ListsInv, IsSeq
<1>4. pc' = "fold" => Len(pairs) <= MaxPairs
  BY <1>1, <1>3, CapsAssumption
<1>5. StageInv'
  <2>1. /\ resolved = <<>>
        /\ sources # <<>> => Len(resolved) <= MaxPairs
    BY <1>1 DEF Shape, StageInv
  <2>2. pc' # "start" /\ pc' # "walk"
    BY <1>1
  <2>3. pc' \in {"fold"} \cup PairErrors
    BY <1>1 DEF PairErrors
  <2> QED
    BY <1>1, <1>4, <2>1, <2>2, <2>3 DEF StageInv
<1> QED
  BY <1>2, <1>5 DEF Shape

\* The next pair, and what it becomes.
NextRaw == pairs[Len(resolved) + 1].raw
\* The pair that is folded next.
NextPair ==
  WithSettings(NextRaw.name, IdOf(NextRaw), pairs[Len(resolved) + 1].file,
               FoldSettings(layers, Layer(NextRaw, pairs[Len(resolved) + 1].file), cli))

\* How a pair is refused, or folded.
LEMMA FoldSplit ==
  ASSUME FoldPair
  PROVE  /\ pc = "fold" /\ Len(resolved) < Len(pairs)
         /\ UNCHANGED <<cli, disk, stack, layers, pairs, sources>>
         /\ \/ pc' = "self-comparison" /\ NextRaw.self /\ resolved' = resolved
            \/ pc' = "duplicate name" /\ NextRaw.name \in Names /\ resolved' = resolved
            \/ pc' = "duplicate id" /\ IdOf(NextRaw) \in Ids /\ resolved' = resolved
            \/ pc' = "bad label" /\ NextRaw.bad /\ resolved' = resolved
            \/ /\ pc' = pc /\ resolved' = Append(resolved, NextPair)
               /\ ~NextRaw.self /\ ~NextRaw.bad /\ NextRaw.name \notin Names /\ IdOf(NextRaw) \notin Ids
BY DEF FoldPair, Refuse, NextRaw, NextPair

\* A pair that is folded.
LEMMA ShapeFoldPair ==
  ASSUME Shape, FoldPair
  PROVE  Shape'
<1>1. /\ pc = "fold" /\ Len(resolved) < Len(pairs)
      /\ UNCHANGED <<cli, disk, stack, layers, pairs, sources>>
      /\ \/ pc' \in PairErrors /\ resolved' = resolved
         \/ pc' = pc /\ resolved' = Append(resolved, NextPair)
  BY FoldSplit DEF PairErrors
<1>2. DiskInv' /\ StackInv' /\ CliInv'
  BY <1>1 DEF Shape, DiskInv, StackInv, CliInv, Known, Includes
<1>3. /\ IsSeq(Append(resolved, NextPair)) /\ Len(Append(resolved, NextPair)) = Len(resolved) + 1
      /\ Len(resolved) \in Nat /\ Len(pairs) \in Nat
  <2>1. IsSeq(resolved) /\ IsSeq(pairs)
    BY DEF Shape, ListsInv
  <2> PICK r : r = NextPair
    OBVIOUS
  <2>2. /\ IsSeq(Append(resolved, r)) /\ Len(Append(resolved, r)) = Len(resolved) + 1
        /\ Len(resolved) \in Nat
    BY <2>1, GrowFacts
  <2>3. Len(pairs) \in Nat
    BY <2>1, OwnRange DEF IsSeq
  <2> QED
    BY <2>2, <2>3
<1>4. ListsInv'
  BY <1>1, <1>3 DEF Shape, ListsInv
<1>5. StageInv'
  <2>1. Len(pairs) <= MaxPairs
    BY <1>1 DEF Shape, StageInv
  <2>2. Len(resolved') <= MaxPairs
    BY <1>1, <1>3, <2>1, CapsAssumption
  <2> QED
    BY <1>1, <2>1, <2>2 DEF Shape, StageInv, PairErrors
<1> QED
  BY <1>2, <1>4, <1>5 DEF Shape

\* All are folded.
LEMMA ShapeResolved ==
  ASSUME Shape, Resolved
  PROVE  Shape'
<1>1. /\ pc = "fold" /\ pc' = "resolved" /\ UNCHANGED <<cli, disk, stack, layers, pairs, sources, resolved>>
  BY DEF Resolved
<1> QED
  BY <1>1 DEF Shape, DiskInv, StackInv, ListsInv, CliInv, StageInv, Known, Includes

\* A listing of a directory.
LEMMA ListingFacts ==
  ASSUME NEW S, IsFiniteSet(S), NEW s \in InAnyOrder(S)
  PROVE  IsSeq(s) /\ DOMAIN s = 1..Cardinality(S) /\ Len(s) = Cardinality(S) /\ Cardinality(S) \in Nat
<1>1. s \in [1..Cardinality(S) -> S] /\ Cardinality(S) \in Nat
  BY FS_CardinalityType DEF InAnyOrder
<1>2. s = [i \in 1..Cardinality(S) |-> s[i]]
  BY <1>1
<1> PICK n \in Nat : n = Cardinality(S)
  BY <1>1
<1>3. IsSeq(s) /\ Len(s) = n /\ DOMAIN s = 1..n
  BY <1>2, TableFacts
<1> QED
  BY <1>3

\* How a sweep ends.
LEMMA ScanSplit ==
  ASSUME Shape, NEW i \in Invocation, NEW d \in Sweep, ScanDirectories(i, d)
  PROVE  /\ phase = "build" /\ pc = "start" /\ cli' = Settings(i)
         /\ UNCHANGED <<disk, stack, layers, pairs, sources, phase, store, cache, results, safe, edits>>
         /\ \/ pc' \in {"self-comparison", "no files"} /\ resolved' = resolved /\ gaps' = gaps
            \/ pc' = "resolved" /\ IsSeq(resolved') /\ IsSeq(gaps')
<1> DEFINE kept == d.old \ d.skip
           fold == FoldSettings(<<>>, Layer(Unset, "cli"), Settings(i))
<1>0. IsFiniteSet(kept \cap d.new) /\ IsFiniteSet(kept \ d.new)
  <2>1. IsFiniteSet(d.old) /\ kept \cap d.new \subseteq d.old /\ kept \ d.new \subseteq d.old
    BY SweepAssumption
  <2> QED
    BY <2>1, FS_Subset
<1>1. /\ phase = "build" /\ pc = "start" /\ cli' = Settings(i)
      /\ UNCHANGED <<disk, stack, layers, pairs, sources, phase, store, cache, results, safe, edits>>
      /\ \/ pc' \in {"self-comparison", "no files"} /\ resolved' = resolved /\ gaps' = gaps
         \/ /\ pc' = "resolved"
            /\ \E both \in InAnyOrder(kept \cap d.new), gone \in InAnyOrder(kept \ d.new) :
                 /\ resolved' = [k \in DOMAIN both |->
                                   WithSettings(Stem(both[k]), Stem(both[k]), "cli", fold)]
                 /\ gaps' = [k \in DOMAIN gone |-> Stem(gone[k])]
  BY DEF ScanDirectories
<1>2. ASSUME pc' = "resolved",
             NEW both \in InAnyOrder(kept \cap d.new), NEW gone \in InAnyOrder(kept \ d.new),
             resolved' = [k \in DOMAIN both |-> WithSettings(Stem(both[k]), Stem(both[k]), "cli", fold)],
             gaps' = [k \in DOMAIN gone |-> Stem(gone[k])]
      PROVE  IsSeq(resolved') /\ IsSeq(gaps')
  <2> HIDE DEF kept, fold
  <2>1. DOMAIN gone = 1..Cardinality(kept \ d.new) /\ Cardinality(kept \ d.new) \in Nat
    BY <1>0, ListingFacts
  <2>2. DOMAIN both = 1..Cardinality(kept \cap d.new) /\ Cardinality(kept \cap d.new) \in Nat
    BY <1>0, ListingFacts
  <2> PICK r : r = [k \in DOMAIN both |-> WithSettings(Stem(both[k]), Stem(both[k]), "cli", fold)]
    OBVIOUS
  <2> PICK g : g = [k \in DOMAIN gone |-> Stem(gone[k])]
    OBVIOUS
  <2> PICK n \in Nat : n = Cardinality(kept \cap d.new)
    BY <2>2
  <2> PICK m \in Nat : m = Cardinality(kept \ d.new)
    BY <2>1
  <2>3. r = [k \in 1..n |-> r[k]] /\ g = [k \in 1..m |-> g[k]]
    BY <2>1, <2>2
  <2>4. IsSeq(r)
    BY <2>3, TableFacts
  <2>5. IsSeq(g)
    BY <2>3, TableFacts
  <2> QED
    BY <1>2, <2>4, <2>5
<1> QED
  BY <1>1, <1>2

\* A sweep of two directories.
LEMMA ShapeScan ==
  ASSUME Shape, NEW i \in Invocation, NEW d \in Sweep, ScanDirectories(i, d)
  PROVE  Shape'
<1>1. /\ phase = "build" /\ pc = "start" /\ cli' = Settings(i)
      /\ UNCHANGED <<disk, stack, layers, pairs, sources, phase, store, cache, results, safe, edits>>
      /\ \/ pc' \in {"self-comparison", "no files"} /\ resolved' = resolved /\ gaps' = gaps
         \/ pc' = "resolved" /\ IsSeq(resolved') /\ IsSeq(gaps')
  BY ScanSplit
<1>2. CliInv'
  BY <1>1, InvocationAssumption DEF Settings, CliInv
<1>3. DiskInv' /\ StackInv'
  BY <1>1 DEF Shape, DiskInv, StackInv, Known, Includes
<1>4. ListsInv'
  BY <1>1 DEF Shape, ListsInv
<1>5. StageInv'
  <2>1. sources = <<>>
    BY <1>1 DEF Shape, StageInv
  <2> QED
    BY <1>1, <2>1 DEF StageInv, PairErrors
<1> QED
  BY <1>2, <1>3, <1>4, <1>5 DEF Shape

\* A step of the run itself.
LEMMA ShapeKept ==
  ASSUME Shape, UNCHANGED manifestVars
  PROVE  Shape'
BY DEF manifestVars, Shape, DiskInv, StackInv, ListsInv, StageInv, CliInv, Known, Includes

\* Every step keeps the type invariant.
LEMMA ShapeStep ==
  ASSUME Shape, [Next]_vars
  PROVE  Shape'
<1>1. CASE BuildFromManifest
  BY <1>1, ShapeResolve, ShapeInclude, ShapeContribute, ShapeGathered, ShapeFoldPair, ShapeResolved
  DEF BuildFromManifest, ManifestNext
<1>2. CASE \E i \in Invocation, d \in Sweep : ScanDirectories(i, d)
  BY <1>2, ShapeScan
<1>3. CASE StartPairs \/ RunGap \/ GapsRun \/ RunPair \/ DuplicateName \/ Abort \/ Finish
  BY <1>3, ShapeKept DEF StartPairs, RunGap, GapsRun, RunPair, DuplicateName, Abort, Finish
<1>4. CASE \E c \in DOMAIN store, text \in ConfigText : EditConfig(c, text)
  BY <1>4, ShapeKept DEF EditConfig
<1>5. CASE UNCHANGED vars
  BY <1>5, ShapeKept DEF vars
<1> QED
  BY <1>1, <1>2, <1>3, <1>4, <1>5 DEF Next

-----------------------------------------------------------------------------
(* The run: what was judged, under what, and what it counts for.           *)

\* A result of a run that may still be safe.
Counted(r) ==
  /\ r.outcome \in {"clean", "break"}
  /\ r.outcome = "break" => r.used.rule # "none" \/ ~(r.strict \/ r.gate)

\* A result that was judged under a config.
Loaded(r) == r.used \notin {None, Broken}

\* How many results there are at each stage.
CountInv ==
  /\ phase \in {"build", "gaps", "pairs", "done", "aborted"}
  /\ IsSeq(gaps) /\ IsSeq(results) /\ Len(results) <= Len(gaps) + Len(resolved)
  /\ phase = "build" => results = <<>>
  /\ phase = "gaps" => Len(results) <= Len(gaps)
  /\ phase = "pairs" => Len(results) >= Len(gaps)
  /\ phase = "done" => Len(results) = Len(gaps) + Len(resolved)
  /\ edits \in 0..MaxEdits

\* Results come in the order of the gaps and the pairs.
NameInv == \A k \in DOMAIN results : results[k].name = Due(k)

\* No two are of one name.
UniqueInv == \A j, k \in DOMAIN results : results[j].name = results[k].name => j = k

\* While the run is safe, each of its results is.
SafeInv == safe \in BOOLEAN /\ (safe => \A k \in DOMAIN results : Counted(results[k]))

\* A config is in the cache as it was read, and loads.
CacheInv ==
  /\ DOMAIN cache \subseteq DOMAIN store /\ None \notin DOMAIN cache
  /\ \A c \in DOMAIN store : store[c] # None
  /\ \A c \in DOMAIN cache : Loads(cache[c]) /\ cache[c] # None

\* A result was judged under what the cache holds for its config.
UsedIn(r, files) ==
  \/ r.used \in {None, Broken}
  \/ r.config = None /\ r.used = NoConfigText
  \/ r.config \in DOMAIN files /\ r.used = files[r.config]

\* So was every result.
UsedInv == \A k \in DOMAIN results : UsedIn(results[k], cache)

\* The invariant of the run.
BatchInv == CountInv /\ NameInv /\ UniqueInv /\ SafeInv /\ CacheInv /\ UsedInv

\* Nothing was judged.
LEMMA BatchInit == Init => BatchInv
<1> SUFFICES ASSUME Init PROVE BatchInv
  OBVIOUS
<1>1. /\ phase = "build" /\ gaps = <<>> /\ store = NoFiles /\ cache = NoFiles
      /\ results = <<>> /\ safe = TRUE /\ edits = 0 /\ resolved = <<>>
  BY DEF Init, ManifestInit
<1>2. DOMAIN NoFiles = {}
  BY DEF NoFiles
<1>3. CountInv
  <2>1. 0 <= 0 + 0 /\ 0 \in 0..MaxEdits
    BY EditsAssumption
  <2> QED
    BY <1>1, <2>1, EmptyFacts DEF CountInv
<1> QED
  BY <1>1, <1>2, <1>3, EmptyFacts DEF BatchInv, NameInv, UniqueInv, SafeInv, CacheInv, UsedInv

\* A result that is added.
LEMMA ResultAdded ==
  ASSUME BatchInv, ListsInv, NEW r,
         results' = Append(results, r), gaps' = gaps, resolved' = resolved, phase' = phase, edits' = edits,
         \/ phase = "gaps" /\ Len(results) < Len(gaps)
         \/ phase = "pairs" /\ Len(results) < Len(gaps) + Len(resolved),
         r.name = Due(Len(results) + 1), ~Seen(r.name),
         safe' \in BOOLEAN, safe' => safe /\ Counted(r),
         CacheInv', DOMAIN cache \subseteq DOMAIN cache', \A c \in DOMAIN cache : cache'[c] = cache[c],
         NEW files, files = cache', UsedIn(r, files)
  PROVE  BatchInv'
<1> PICK n : n = Len(results) + 1
  OBVIOUS
<1> PICK s : s = Append(results, r)
  OBVIOUS
<1>1. /\ IsSeq(s) /\ Len(s) = n /\ DOMAIN s = 1..n /\ DOMAIN results = 1..Len(results)
      /\ Len(results) \in Nat /\ n = Len(results) + 1
      /\ \A i \in DOMAIN results : s[i] = results[i]
      /\ s[n] = r
  BY GrowFacts DEF BatchInv, CountInv
<1>2. \A i \in 1..n : i \in DOMAIN results \/ i = n
  BY <1>1
<1>3. results' = s
  OBVIOUS
<1>4. CountInv'
  <2>1. Len(gaps) \in Nat /\ Len(resolved) \in Nat
    BY OwnRange DEF BatchInv, CountInv, ListsInv, IsSeq
  <2>2. /\ n <= Len(gaps) + Len(resolved)
        /\ phase = "gaps" => n <= Len(gaps)
        /\ phase = "pairs" => n >= Len(gaps)
    <3>1. \A m, a, b \in Nat : /\ m < a => m + 1 <= a /\ m + 1 <= a + b
                               /\ m >= a => m + 1 >= a
                               /\ m < a + b => m + 1 <= a + b
      OBVIOUS
    <3>2. phase = "pairs" => Len(results) >= Len(gaps)
      BY DEF BatchInv, CountInv
    <3>3. CASE phase = "gaps" /\ Len(results) < Len(gaps)
      <4>1. n <= Len(gaps) /\ n <= Len(gaps) + Len(resolved)
        BY <1>1, <2>1, <3>1, <3>3, Zenon
      <4> QED
        BY <3>3, <4>1
    <3>4. CASE phase = "pairs" /\ Len(results) < Len(gaps) + Len(resolved)
      <4>1. n >= Len(gaps) /\ n <= Len(gaps) + Len(resolved)
        BY <1>1, <2>1, <3>1, <3>2, <3>4, Zenon
      <4> QED
        BY <3>4, <4>1
    <3> QED
      BY <3>3, <3>4
  <2> QED
    BY <1>1, <1>3, <2>2 DEF BatchInv, CountInv
<1>5. NameInv'
  <2>1. \A i \in 1..n : s[i].name = Due(i)
    BY <1>1, <1>2 DEF BatchInv, NameInv
  <2> QED
    BY <1>1, <1>3, <2>1 DEF NameInv, Due
<1>6. SafeInv'
  <2>1. safe' => \A i \in 1..n : Counted(s[i])
    BY <1>1, <1>2 DEF BatchInv, SafeInv
  <2> QED
    BY <1>1, <1>3, <2>1 DEF SafeInv
<1>7. UsedInv'
  <2>1. \A i \in DOMAIN results : UsedIn(results[i], cache)
    BY DEF BatchInv, UsedInv
  <2>2. \A i \in DOMAIN results : UsedIn(results[i], files)
    BY <2>1 DEF UsedIn
  <2>3. \A i \in 1..n : UsedIn(s[i], files)
    BY <1>1, <1>2, <2>2
  <2> QED
    BY <1>1, <1>3, <2>3 DEF UsedInv
<1>8. UniqueInv'
  <2>1. /\ \A i, j \in DOMAIN results : s[i].name = s[j].name => i = j
        /\ \A i \in DOMAIN results : s[i].name # s[n].name
    BY <1>1 DEF BatchInv, UniqueInv, Seen
  <2>2. \A i, j \in 1..n : s[i].name = s[j].name => i = j
    BY <1>2, <2>1, Zenon
  <2> QED
    BY <1>1, <1>3, <2>2 DEF UniqueInv
<1> QED
  BY <1>4, <1>5, <1>6, <1>7, <1>8 DEF BatchInv

\* A gap is told.
LEMMA BatchGap ==
  ASSUME BatchInv, Shape, RunGap
  PROVE  BatchInv'
<1> PICK r : r = [name |-> Due(Len(results) + 1), verdict |-> "unsafe", outcome |-> "gap",
                  config |-> None, used |-> None, gate |-> TRUE, strict |-> cli.strict]
  OBVIOUS
<1>1. /\ phase = "gaps" /\ Len(results) < Len(gaps) /\ results' = Append(results, r) /\ safe' = FALSE
      /\ phase' = phase /\ gaps' = gaps /\ resolved' = resolved /\ edits' = edits
      /\ store' = store /\ cache' = cache /\ ~Seen(Due(Len(results) + 1))
  BY DEF RunGap, manifestVars
<1>2. r.name = Due(Len(results) + 1) /\ ~Seen(r.name)
  BY <1>1
<1>3. CacheInv' /\ UsedIn(r, cache)
  BY <1>1 DEF BatchInv, CacheInv, UsedIn
<1> PICK files : files = cache'
  OBVIOUS
<1>4. UsedIn(r, files)
  BY <1>1, <1>3
<1>5. ListsInv /\ DOMAIN cache \subseteq DOMAIN cache' /\ \A c \in DOMAIN cache : cache'[c] = cache[c]
  BY <1>1 DEF Shape
<1> QED
  BY <1>1, <1>2, <1>3, <1>4, <1>5, ResultAdded

\* A verdict that is safe is of a comparison that counts.
LEMMA SafeCounts ==
  ASSUME NEW p, NEW text, text \notin {None, Broken}, NEW o \in Outcome, Verdict(p, text, o) = "safe"
  PROVE  Counted(Result(p, "safe", o, text))
<1>1. o # "fails" /\ o \in {"clean", "break", "fails"}
  BY OutcomeAssumption DEF Verdict
<1>2. o = "break" => text.rule # "none" \/ ~(p.strict.value \/ Gate(p, text))
  BY <1>1 DEF Verdict
<1> PICK r : r = Result(p, "safe", o, text)
  OBVIOUS
<1>3. r.outcome = o /\ r.used = text /\ r.gate = Gate(p, text) /\ r.strict = p.strict.value
  BY DEF Result
<1>4. Counted(r)
  BY <1>1, <1>2, <1>3 DEF Counted
<1> QED
  BY <1>4

\* A pair is judged.
LEMMA BatchJudge ==
  ASSUME BatchInv, Shape, phase = "pairs", Len(results) < Len(gaps) + Len(resolved),
         ~Seen(Due(Len(results) + 1)), NEW p, p = resolved[Len(results) - Len(gaps) + 1],
         NEW text, text \notin {None, Broken}, NEW o \in Outcome, Judge(p, text, o),
         UNCHANGED <<manifestVars, phase, gaps, edits>>,
         CacheInv', DOMAIN cache \subseteq DOMAIN cache', \A c \in DOMAIN cache : cache'[c] = cache[c],
         NEW files, files = cache',
         \/ p.config.value = None /\ text = NoConfigText
         \/ p.config.value \in DOMAIN files /\ text = files[p.config.value]
  PROVE  BatchInv'
<1> PICK r : r = Result(p, Verdict(p, text, o), o, text)
  OBVIOUS
<1>1. /\ results' = Append(results, r) /\ safe' = (safe /\ Verdict(p, text, o) = "safe")
      /\ phase' = phase /\ gaps' = gaps /\ resolved' = resolved /\ edits' = edits
  BY DEF Judge, manifestVars
<1>2. r.name = p.name /\ r.used = text /\ r.config = p.config.value
  BY DEF Result
<1>3. r.name = Due(Len(results) + 1) /\ ~Seen(r.name)
  <2>1. Len(results) \in Nat /\ Len(gaps) \in Nat /\ Len(results) >= Len(gaps)
    BY OwnRange DEF BatchInv, CountInv, IsSeq
  <2>2. ~(Len(results) + 1 <= Len(gaps)) /\ Len(results) + 1 - Len(gaps) = Len(results) - Len(gaps) + 1
    BY <2>1
  <2>3. r.name = Due(Len(results) + 1)
    BY <1>2, <2>2 DEF Due
  <2> QED
    BY <2>3
<1>4. safe' \in BOOLEAN /\ (safe' => safe /\ Counted(r))
  <2>1. safe \in BOOLEAN
    BY DEF BatchInv, SafeInv
  <2>2. safe' => safe /\ Verdict(p, text, o) = "safe"
    BY <1>1
  <2> QED
    BY <1>1, <2>1, <2>2, SafeCounts
<1>5. UsedIn(r, files)
  BY <1>2 DEF UsedIn
<1>6. ListsInv
  BY DEF Shape
<1> QED
  BY <1>1, <1>3, <1>4, <1>5, <1>6, ResultAdded

\* A pair, whatever becomes of its config.
LEMMA BatchPair ==
  ASSUME BatchInv, Shape, RunPair
  PROVE  BatchInv'
<1> PICK p : p = resolved[Len(results) - Len(gaps) + 1]
  OBVIOUS
<1> PICK c : c = p.config.value
  OBVIOUS
<1>1. phase = "pairs" /\ Len(results) < Len(gaps) + Len(resolved)
      /\ UNCHANGED <<manifestVars, phase, gaps, edits>> /\ ListsInv
      /\ ~Seen(Due(Len(results) + 1))
  BY DEF RunPair, Shape
<1>2. CASE c = None /\ (\E o \in Outcome : Judge(p, NoConfigText, o)) /\ UNCHANGED <<store, cache>>
  <2>1. CacheInv' /\ DOMAIN cache \subseteq DOMAIN cache' /\ \A x \in DOMAIN cache : cache'[x] = cache[x]
    BY <1>2 DEF BatchInv, CacheInv
  <2> PICK text : text = NoConfigText
    OBVIOUS
  <2>2. text \notin {None, Broken}
    BY ConfigAssumption
  <2> PICK o \in Outcome : Judge(p, text, o)
    BY <1>2
  <2> PICK files : files = cache'
    OBVIOUS
  <2>3. \/ p.config.value = None /\ text = NoConfigText
        \/ p.config.value \in DOMAIN files /\ text = files[p.config.value]
    BY <1>2
  <2> QED
    BY <1>1, <2>1, <2>2, <2>3, BatchJudge
<1>3. CASE c \in DOMAIN cache /\ (\E o \in Outcome : Judge(p, cache[c], o)) /\ UNCHANGED <<store, cache>>
  <2>1. CacheInv' /\ DOMAIN cache \subseteq DOMAIN cache' /\ \A x \in DOMAIN cache : cache'[x] = cache[x]
    BY <1>3 DEF BatchInv, CacheInv
  <2>2. cache[c] \notin {None, Broken}
    BY <1>3 DEF BatchInv, CacheInv, Loads
  <2> PICK o \in Outcome : Judge(p, cache[c], o)
    BY <1>3
  <2> PICK files : files = cache'
    OBVIOUS
  <2>3. p.config.value \in DOMAIN files /\ cache[c] = files[p.config.value]
    BY <1>3
  <2> QED
    BY <1>1, <1>3, <2>1, <2>2, <2>3, BatchJudge
<1>4. ASSUME c # None, c \notin DOMAIN cache, NEW text \in IF c \in DOMAIN store THEN {store[c]} ELSE ConfigText,
             store' = Put(store, c, text),
             IF Loads(text) THEN cache' = Put(cache, c, text) /\ \E o \in Outcome : Judge(p, text, o)
             ELSE results' = Append(results, Result(p, "error", "fails", Broken)) /\ safe' = FALSE
                  /\ UNCHANGED cache
      PROVE  BatchInv'
  <2>1. text # None
    BY <1>4, ConfigAssumption DEF BatchInv, CacheInv
  <2> PICK st : st = store'
    OBVIOUS
  <2>2. DOMAIN st = DOMAIN store \cup {c} /\ \A x \in DOMAIN st : st[x] # None
    <3> PICK q : q = Put(store, c, text)
      OBVIOUS
    <3>0. /\ DOMAIN q = DOMAIN store \cup {c} /\ q[c] = text
          /\ \A x \in DOMAIN store : x # c => q[x] = store[x]
      BY DEF Put
    <3>1. /\ DOMAIN st = DOMAIN store \cup {c} /\ st[c] = text
          /\ \A x \in DOMAIN store : x # c => st[x] = store[x]
      BY <1>4, <3>0
    <3> QED
      BY <2>1, <3>1 DEF BatchInv, CacheInv
  <2> PICK files : files = cache'
    OBVIOUS
  <2>3. CASE Loads(text)
    <3>1. cache' = Put(cache, c, text)
      BY <1>4, <2>3
    <3>2. /\ DOMAIN files = DOMAIN cache \cup {c} /\ files[c] = text
          /\ \A x \in DOMAIN cache : files[x] = cache[x]
      <4> PICK q : q = Put(cache, c, text)
        OBVIOUS
      <4>1. /\ DOMAIN q = DOMAIN cache \cup {c} /\ q[c] = text
            /\ \A x \in DOMAIN cache : x # c => q[x] = cache[x]
        BY DEF Put
      <4>2. files = q
        BY <3>1
      <4> QED
        BY <1>4, <4>1, <4>2
    <3>3. /\ DOMAIN files \subseteq DOMAIN st /\ None \notin DOMAIN files
          /\ \A x \in DOMAIN files : Loads(files[x]) /\ files[x] # None
      BY <1>4, <2>1, <2>2, <2>3, <3>2 DEF BatchInv, CacheInv
    <3>4. CacheInv'
      BY <2>2, <3>3 DEF CacheInv
    <3>5. text \notin {None, Broken}
      BY <2>1, <2>3 DEF Loads
    <3> PICK o \in Outcome : Judge(p, text, o)
      BY <1>4, <2>3
    <3>6. DOMAIN cache \subseteq DOMAIN cache' /\ \A x \in DOMAIN cache : cache'[x] = cache[x]
      BY <3>2
    <3>7. p.config.value \in DOMAIN files /\ text = files[p.config.value]
      BY <3>2
    <3> QED
      BY <1>1, <3>4, <3>5, <3>6, <3>7, BatchJudge
  <2>4. CASE ~Loads(text)
    <3> PICK r : r = Result(p, "error", "fails", Broken)
      OBVIOUS
    <3>1. results' = Append(results, r) /\ safe' = FALSE /\ cache' = cache
      BY <1>4, <2>4
    <3>2. r.name = p.name /\ r.used = Broken
      BY DEF Result
    <3>3. r.name = Due(Len(results) + 1) /\ ~Seen(r.name)
      <4>1. Len(results) \in Nat /\ Len(gaps) \in Nat /\ Len(results) >= Len(gaps)
        BY <1>1, OwnRange DEF BatchInv, CountInv, IsSeq
      <4>2. ~(Len(results) + 1 <= Len(gaps)) /\ Len(results) + 1 - Len(gaps) = Len(results) - Len(gaps) + 1
        BY <4>1
      <4>3. r.name = Due(Len(results) + 1)
        BY <3>2, <4>2 DEF Due
      <4> QED
        BY <1>1, <4>3
    <3>4. CacheInv'
      <4>1. DOMAIN cache \subseteq DOMAIN st
        BY <2>2 DEF BatchInv, CacheInv
      <4> QED
        BY <2>2, <3>1, <4>1 DEF BatchInv, CacheInv
    <3>5. UsedIn(r, files)
      BY <3>2 DEF UsedIn
    <3>6. /\ phase' = phase /\ gaps' = gaps /\ resolved' = resolved /\ edits' = edits
      BY <1>1 DEF manifestVars
    <3>7. DOMAIN cache \subseteq DOMAIN cache' /\ \A x \in DOMAIN cache : cache'[x] = cache[x]
      BY <3>1
    <3> QED
      BY <1>1, <3>1, <3>3, <3>4, <3>5, <3>6, <3>7, ResultAdded
  <2> QED
    BY <2>3, <2>4
<1> QED
  <2>1. \/ c = None /\ (\E o \in Outcome : Judge(p, NoConfigText, o)) /\ UNCHANGED <<store, cache>>
        \/ c \in DOMAIN cache /\ (\E o \in Outcome : Judge(p, cache[c], o)) /\ UNCHANGED <<store, cache>>
        \/ /\ c # None /\ c \notin DOMAIN cache
           /\ \E text \in IF c \in DOMAIN store THEN {store[c]} ELSE ConfigText :
                /\ store' = Put(store, c, text)
                /\ IF Loads(text) THEN cache' = Put(cache, c, text) /\ \E o \in Outcome : Judge(p, text, o)
                   ELSE results' = Append(results, Result(p, "error", "fails", Broken)) /\ safe' = FALSE
                        /\ UNCHANGED cache
    BY DEF RunPair
  <2> QED
    BY <1>2, <1>3, <1>4, <2>1

\* What the run has done stays while the rest changes.
LEMMA BatchKept ==
  ASSUME BatchInv, UNCHANGED <<gaps, resolved, cache, store, results, safe, edits>>, CountInv'
  PROVE  BatchInv'
<1>1. NameInv' /\ UniqueInv'
  BY DEF BatchInv, NameInv, UniqueInv, Due
<1>2. SafeInv' /\ CacheInv' /\ UsedInv'
  BY DEF BatchInv, SafeInv, CacheInv, UsedInv
<1> QED
  BY <1>1, <1>2 DEF BatchInv

\* While the pairs are gathered nothing is judged.
LEMMA BatchGathers ==
  ASSUME BatchInv, phase = "build", phase' = "build", IsSeq(gaps'), ListsInv',
         UNCHANGED <<store, cache, results, safe, edits>>
  PROVE  BatchInv'
<1>1. results = <<>> /\ results' = <<>>
  BY DEF BatchInv, CountInv
<1>2. CountInv'
  <2>1. Len(gaps') \in Nat /\ Len(resolved') \in Nat /\ Len(results') = 0 /\ IsSeq(results')
    <3>1. IsSeq(gaps') /\ IsSeq(resolved')
      BY DEF ListsInv
    <3>2. Len(gaps') \in Nat /\ Len(resolved') \in Nat
      BY <3>1, OwnRange DEF IsSeq
    <3> QED
      BY <1>1, <3>2, EmptyFacts
  <2>2. Len(results') <= Len(gaps') + Len(resolved')
    BY <2>1
  <2>3. edits' \in 0..MaxEdits
    BY DEF BatchInv, CountInv
  <2> QED
    BY <1>1, <2>1, <2>2, <2>3 DEF CountInv
<1>3. NameInv' /\ UniqueInv' /\ SafeInv' /\ CacheInv' /\ UsedInv'
  <2>1. DOMAIN results' = {}
    BY <1>1, EmptyFacts
  <2> QED
    BY <2>1 DEF BatchInv, NameInv, UniqueInv, SafeInv, CacheInv, UsedInv
<1> QED
  BY <1>2, <1>3 DEF BatchInv

\* The run goes from one stage to the next.
LEMMA BatchStages ==
  ASSUME BatchInv, Shape, StartPairs \/ GapsRun \/ DuplicateName \/ Abort \/ Finish
  PROVE  BatchInv'
<1>1. UNCHANGED <<gaps, resolved, cache, store, results, safe, edits>>
  BY DEF StartPairs, GapsRun, DuplicateName, Abort, Finish, manifestVars
<1>2. Len(gaps) \in Nat /\ Len(resolved) \in Nat /\ Len(results) \in Nat
  BY OwnRange DEF BatchInv, CountInv, Shape, ListsInv, IsSeq
<1>3. CountInv'
  <2>1. CASE StartPairs
    <3>1. results = <<>> /\ phase' \in {"gaps", "aborted"}
      BY <2>1 DEF StartPairs, BatchInv, CountInv
    <3>2. Len(results) <= Len(gaps)
      BY <1>2, <3>1, EmptyFacts
    <3> QED
      BY <1>1, <3>1, <3>2 DEF BatchInv, CountInv
  <2>2. CASE GapsRun
    <3>1. Len(results) = Len(gaps) /\ phase' = "pairs"
      BY <2>2 DEF GapsRun
    <3>2. Len(results) >= Len(gaps)
      BY <1>2, <3>1
    <3> QED
      BY <1>1, <3>1, <3>2 DEF BatchInv, CountInv
  <2>3. CASE DuplicateName \/ Abort
    BY <1>1, <2>3 DEF DuplicateName, Abort, BatchInv, CountInv
  <2>4. CASE Finish
    BY <1>1, <2>4 DEF Finish, BatchInv, CountInv
  <2> QED
    BY <2>1, <2>2, <2>3, <2>4
<1> QED
  BY <1>1, <1>3, BatchKept

\* A config is rewritten: the cache and the results are not.
LEMMA BatchEdit ==
  ASSUME BatchInv, NEW c \in DOMAIN store, NEW text \in ConfigText, EditConfig(c, text)
  PROVE  BatchInv'
<1>1. /\ phase = "pairs" /\ edits < MaxEdits
      /\ store' = [store EXCEPT ![c] = text] /\ edits' = edits + 1
      /\ phase' = phase /\ gaps' = gaps /\ resolved' = resolved /\ cache' = cache /\ results' = results
      /\ safe' = safe
  BY DEF EditConfig, manifestVars
<1>2. edits' \in 0..MaxEdits
  BY <1>1, EditsAssumption DEF BatchInv, CountInv
<1>3. CountInv'
  BY <1>1, <1>2 DEF BatchInv, CountInv
<1>4. CacheInv'
  <2>1. text # None
    BY ConfigAssumption
  <2> PICK st : st = store'
    OBVIOUS
  <2>2. DOMAIN st = DOMAIN store /\ \A x \in DOMAIN st : st[x] # None
    BY <1>1, <2>1 DEF BatchInv, CacheInv
  <2> QED
    BY <1>1, <2>2 DEF BatchInv, CacheInv
<1>5. NameInv' /\ UniqueInv' /\ SafeInv' /\ UsedInv'
  BY <1>1 DEF BatchInv, NameInv, UniqueInv, SafeInv, UsedInv, Due
<1> QED
  BY <1>3, <1>4, <1>5 DEF BatchInv

\* Every step keeps the invariant.
LEMMA BatchStep ==
  ASSUME BatchInv, Shape, [Next]_vars
  PROVE  BatchInv'
<1>0. ListsInv'
  BY ShapeStep DEF Shape
<1>1. CASE BuildFromManifest
  <2>1. phase = "build" /\ UNCHANGED runVars /\ IsSeq(gaps)
    BY <1>1 DEF BuildFromManifest, BatchInv, CountInv
  <2> QED
    BY <1>0, <2>1, BatchGathers DEF runVars
<1>2. CASE \E i \in Invocation, d \in Sweep : ScanDirectories(i, d)
  <2> PICK i \in Invocation, d \in Sweep : ScanDirectories(i, d)
    BY <1>2
  <2>1. /\ phase = "build" /\ UNCHANGED <<phase, store, cache, results, safe, edits>>
        /\ gaps' = gaps \/ IsSeq(gaps')
    BY ScanSplit
  <2>2. IsSeq(gaps')
    BY <2>1 DEF BatchInv, CountInv
  <2> QED
    BY <1>0, <2>1, <2>2, BatchGathers
<1>3. CASE StartPairs \/ GapsRun \/ DuplicateName \/ Abort \/ Finish
  BY <1>3, BatchStages
<1>4. CASE RunGap
  BY <1>4, BatchGap
<1>5. CASE RunPair
  BY <1>5, BatchPair
<1>6. CASE \E c \in DOMAIN store, text \in ConfigText : EditConfig(c, text)
  BY <1>6, BatchEdit
<1>7. CASE UNCHANGED vars
  <2>1. CountInv'
    BY <1>7 DEF vars, runVars, manifestVars, BatchInv, CountInv
  <2> QED
    BY <1>7, <2>1, BatchKept DEF vars, runVars, manifestVars
<1> QED
  BY <1>1, <1>2, <1>3, <1>4, <1>5, <1>6, <1>7 DEF Next

\* What agrees with both parts of a sequence is the two joined.
Follows(u, g, t) ==
  /\ IsSeq(g) /\ IsSeq(t) /\ IsSeq(u) /\ Len(u) = Len(g) + Len(t)
  /\ \A p \in DOMAIN g : u[p] = g[p]
  /\ \A k \in DOMAIN t : u[Len(g) + k] = t[k]

\* Such a sequence is the two of them, concatenated.
LEMMA Joined ==
  ASSUME NEW g, NEW t, NEW u, Follows(u, g, t)
  PROVE  u = g \o t
<1> SUFFICES ASSUME IsSeq(g), IsSeq(t), IsSeq(u), Len(u) = Len(g) + Len(t),
                    \A p \in DOMAIN g : u[p] = g[p],
                    \A k \in DOMAIN t : u[Len(g) + k] = t[k]
             PROVE  u = g \o t
  BY DEF Follows
<1> DEFINE S == {u[p] : p \in DOMAIN u} \cup {g[p] : p \in DOMAIN g} \cup {t[p] : p \in DOMAIN t}
<1>1. u \in Seq(S) /\ g \in Seq(S) /\ t \in Seq(S)
  BY DEF IsSeq
<1> HIDE DEF S
<1>2. /\ g \o t \in Seq(S) /\ Len(g \o t) = Len(g) + Len(t)
      /\ \A i \in 1..(Len(g) + Len(t)) : (g \o t)[i] = IF i <= Len(g) THEN g[i] ELSE t[i - Len(g)]
  BY <1>1, ConcatProperties
<1>3. /\ DOMAIN g = 1..Len(g) /\ DOMAIN t = 1..Len(t) /\ Len(g) \in Nat /\ Len(t) \in Nat
  BY <1>1, OwnRange
<1>4. \A i \in 1..Len(u) : u[i] = (g \o t)[i]
  <2> SUFFICES ASSUME NEW i \in 1..Len(u) PROVE u[i] = (g \o t)[i]
    OBVIOUS
  <2>1. CASE i <= Len(g)
    <3>1. i \in DOMAIN g /\ i \in 1..(Len(g) + Len(t))
      BY <1>3, <2>1
    <3> QED
      BY <1>2, <2>1, <3>1
  <2>2. CASE ~(i <= Len(g))
    <3>1. i - Len(g) \in DOMAIN t /\ i \in 1..(Len(g) + Len(t)) /\ Len(g) + (i - Len(g)) = i
      BY <1>3, <2>2
    <3>2. u[Len(g) + (i - Len(g))] = t[i - Len(g)]
      BY <3>1, Zenon
    <3> QED
      BY <1>2, <2>2, <3>1, <3>2
  <2> QED
    BY <2>1, <2>2
<1> QED
  BY <1>1, <1>2, <1>4, SeqEqual

\* The names of a list of results or pairs.
NamesIn(s) == [k \in DOMAIN s |-> s[k].name]

\* They are as many.
LEMMA NamesFacts ==
  ASSUME NEW s, IsSeq(s)
  PROVE  /\ IsSeq(NamesIn(s)) /\ Len(NamesIn(s)) = Len(s) /\ DOMAIN NamesIn(s) = DOMAIN s
         /\ \A k \in DOMAIN s : NamesIn(s)[k] = s[k].name
<1>1. DOMAIN s = 1..Len(s) /\ Len(s) \in Nat
  BY OwnRange DEF IsSeq
<1> PICK n \in Nat : n = Len(s)
  BY <1>1
<1> PICK t : t = NamesIn(s)
  OBVIOUS
<1>2. t = [k \in 1..n |-> t[k]] /\ DOMAIN t = 1..n /\ \A k \in 1..n : t[k] = s[k].name
  BY <1>1 DEF NamesIn
<1>3. IsSeq(t) /\ Len(t) = n
  BY <1>2, TableFacts
<1> QED
  BY <1>1, <1>2, <1>3

\* The invariant gives the promise.
LEMMA Honest ==
  ASSUME Shape, BatchInv
  PROVE  VerdictHonest
<1>1. TypeOK
  <2>1. Frame = [path : Path, next : Nat \ {0}]
    BY DEF Frame
  <2>2. Len(resolved) <= MaxPairs \/ sources = <<>>
    BY DEF Shape, StageInv
  <2>3. /\ pc \in {"start", "walk", "fold", "resolved", "ambiguous", "no files"} \cup IncludeErrors \cup PairErrors
        /\ stack \in Seq([path : Path, next : Nat \ {0}]) /\ Len(stack) <= MaxDepth + 1
        /\ \A i \in DOMAIN layers : layers[i].file \in DOMAIN disk
    BY <2>1 DEF Shape, StageInv, StackInv, ListsInv
  <2>4. /\ phase \in {"build", "gaps", "pairs", "done", "aborted"}
        /\ Len(results) <= Len(gaps) + Len(resolved)
        /\ DOMAIN cache \subseteq DOMAIN store /\ \A c \in DOMAIN cache : Loads(cache[c])
        /\ safe \in BOOLEAN /\ edits \in 0..MaxEdits
    BY DEF BatchInv, CountInv, CacheInv, SafeInv
  <2> QED
    BY <2>2, <2>3, <2>4 DEF TypeOK
<1>2. ASSUME phase = "done"
      PROVE  [k \in DOMAIN results |-> results[k].name] = gaps \o [k \in DOMAIN resolved |-> resolved[k].name]
  <2> PICK t : t = NamesIn(resolved)
    OBVIOUS
  <2> PICK u : u = NamesIn(results)
    OBVIOUS
  <2> PICK m : m = Len(gaps)
    OBVIOUS
  <2> PICK n : n = Len(resolved)
    OBVIOUS
  <2>1. IsSeq(gaps) /\ IsSeq(resolved) /\ IsSeq(results) /\ Len(results) = m + n
    BY <1>2 DEF BatchInv, CountInv, Shape, ListsInv
  <2>2. DOMAIN gaps = 1..m /\ m \in Nat /\ DOMAIN resolved = 1..n /\ n \in Nat /\ DOMAIN results = 1..(m + n)
    BY <2>1, OwnRange DEF IsSeq
  <2>3. IsSeq(t) /\ Len(t) = n /\ DOMAIN t = 1..n /\ \A k \in 1..n : t[k] = resolved[k].name
    BY <2>1, <2>2, NamesFacts
  <2>4. IsSeq(u) /\ Len(u) = m + n /\ \A p \in 1..(m + n) : u[p] = Due(p)
    BY <2>1, <2>2, NamesFacts DEF BatchInv, NameInv
  <2>5. \A p \in DOMAIN gaps : u[p] = gaps[p]
    <3> SUFFICES ASSUME NEW p \in DOMAIN gaps PROVE u[p] = gaps[p]
      OBVIOUS
    <3>1. p \in 1..(m + n) /\ p <= Len(gaps)
      BY <2>2
    <3> QED
      BY <2>4, <3>1 DEF Due
  <2>6. \A k \in DOMAIN t : u[Len(gaps) + k] = t[k]
    <3> SUFFICES ASSUME NEW k \in DOMAIN t PROVE u[Len(gaps) + k] = t[k]
      OBVIOUS
    <3>1. m + k \in 1..(m + n) /\ ~(m + k <= Len(gaps)) /\ m + k - Len(gaps) = k /\ k \in 1..n
      BY <2>2, <2>3
    <3> QED
      BY <2>3, <2>4, <3>1 DEF Due
  <2>7. u = gaps \o t
    <3>1. IsSeq(gaps) /\ IsSeq(t) /\ IsSeq(u) /\ Len(u) = Len(gaps) + Len(t)
      BY <2>1, <2>3, <2>4
    <3>2. Follows(u, gaps, t)
      BY <2>5, <2>6, <3>1, Zenon DEF Follows
    <3> QED
      BY <3>2, Joined, Zenon
  <2>8. NamesIn(results) = gaps \o NamesIn(resolved)
    BY <2>7
  <2> QED
    BY <2>8, Zenon DEF NamesIn
<1>3. safe => \A k \in DOMAIN results :
        /\ results[k].outcome \in {"clean", "break"}
        /\ results[k].outcome = "break" => results[k].used.rule # "none" \/ ~(results[k].strict \/ results[k].gate)
  BY DEF BatchInv, SafeInv, Counted
<1>4. \A j, k \in DOMAIN results :
        results[j].config = results[k].config /\ Broken \notin {results[j].used, results[k].used}
          /\ None \notin {results[j].used, results[k].used} => results[j].used = results[k].used
  <2> SUFFICES ASSUME NEW j \in DOMAIN results, NEW k \in DOMAIN results,
                      results[j].config = results[k].config,
                      Broken \notin {results[j].used, results[k].used},
                      None \notin {results[j].used, results[k].used}
               PROVE  results[j].used = results[k].used
    OBVIOUS
  <2>1. UsedIn(results[j], cache) /\ UsedIn(results[k], cache)
    BY DEF BatchInv, UsedInv
  <2>2. None \notin DOMAIN cache
    BY DEF BatchInv, CacheInv
  <2> QED
    BY <2>1, <2>2 DEF UsedIn
<1>5. \A j, k \in DOMAIN results : results[j].name = results[k].name => j = k
  BY DEF BatchInv, UniqueInv
<1> QED
  BY <1>1, <1>2, <1>3, <1>4, <1>5 DEF VerdictHonest

\* A batch that ends has told every contract, and is safe only for cause,
\* whatever the manifest, the directories, the configs and their rewrites.
THEOREM HonestVerdict == Spec => []VerdictHonest
<1>1. Init => Shape /\ BatchInv
  BY ShapeInit, BatchInit
<1>2. Shape /\ BatchInv /\ [Next]_vars => Shape' /\ BatchInv'
  BY ShapeStep, BatchStep
<1>3. Shape /\ BatchInv => VerdictHonest
  BY Honest
<1> QED
  BY <1>1, <1>2, <1>3, PTL DEF Spec

-----------------------------------------------------------------------------
(* The ways down from the root.                                            *)

\* A step of a way.
Place == [path : Path, at : Nat]
\* The way to the root itself.
RootWay == <<[path |-> Root, at |-> 0]>>

\* The file of a path is among those read, d, and could be.
KnownIn(d, p) == FileOf(p) \in DOMAIN d /\ d[FileOf(p)] # Broken
\* The file at the end of a way.
FileAt(w) == FileOf(w[Len(w)].path)

\* A way, over the files d.
IsWay(w, d) ==
  /\ w \in Seq(Place) /\ Len(w) >= 1 /\ w[1] = [path |-> Root, at |-> 0]
  /\ \A m \in 1..(Len(w) - 1) :
       /\ KnownIn(d, w[m].path)
       /\ w[m + 1].at \in DOMAIN d[FileOf(w[m].path)].includes
       /\ w[m + 1].path = d[FileOf(w[m].path)].includes[w[m + 1].at]

\* The way w, and on to what its end includes in place k.
Child(w, d, k) == Append(w, [path |-> d[FileAt(w)].includes[k], at |-> k])

\* The root is a way, whatever was read.
LEMMA RootIsWay == \A d : IsWay(RootWay, d)
<1> PICK p : p = [path |-> Root, at |-> 0]
  OBVIOUS
<1>1. p \in Place
  BY TextAssumption DEF Place
<1>2. <<p>> \in Seq(Place) /\ Len(<<p>>) = 1 /\ <<p>>[1] = p
  BY <1>1
<1>3. 1..(1 - 1) = {}
  OBVIOUS
<1>4. RootWay = <<p>>
  BY DEF RootWay
<1> QED
  BY <1>2, <1>3, <1>4 DEF IsWay

\* What a way includes is at the end of a way.
LEMMA ChildFacts ==
  ASSUME NEW d, \A f \in DOMAIN d : d[f] # Broken => d[f].includes \in Seq(Path),
         NEW w, IsWay(w, d), KnownIn(d, w[Len(w)].path), NEW k \in DOMAIN d[FileAt(w)].includes,
         NEW c, c = Child(w, d, k)
  PROVE  /\ IsWay(c, d) /\ Len(c) = Len(w) + 1 /\ Len(w) \in Nat \ {0} /\ DOMAIN w = 1..Len(w)
         /\ c \in Seq(Place) /\ DOMAIN c = 1..(Len(w) + 1)
         /\ \A m \in 1..Len(w) : c[m] = w[m]
         /\ c[Len(w) + 1] = [path |-> d[FileAt(w)].includes[k], at |-> k]
<1> PICK p : p = [path |-> d[FileAt(w)].includes[k], at |-> k]
  OBVIOUS
<1> PICK n : n = Len(w)
  OBVIOUS
<1>1. d[FileAt(w)].includes \in Seq(Path)
  BY DEF KnownIn, FileAt
<1>2. p \in Place /\ p.at = k /\ p.path = d[FileAt(w)].includes[k]
  <2>1. d[FileAt(w)].includes[k] \in Path /\ k \in Nat
    BY <1>1, OwnRange
  <2> QED
    BY <2>1 DEF Place
<1>3. w \in Seq(Place) /\ n \in Nat \ {0} /\ DOMAIN w = 1..n
  BY DEF IsWay
<1>4. c = Append(w, p)
  BY DEF Child
<1>5. /\ Append(w, p) \in Seq(Place)
      /\ Len(Append(w, p)) = n + 1
      /\ DOMAIN Append(w, p) = 1..(n + 1)
      /\ \A i \in DOMAIN w : Append(w, p)[i] = w[i]
      /\ Append(w, p)[n + 1] = p
  BY <1>2, <1>3, PushFacts
<1>6. /\ c \in Seq(Place) /\ Len(c) = n + 1 /\ DOMAIN c = 1..(n + 1)
      /\ \A i \in 1..n : c[i] = w[i]
      /\ c[n + 1] = p
  BY <1>3, <1>4, <1>5
<1>7. IsWay(c, d)
  <2>1. Len(c) >= 1 /\ c[1] = [path |-> Root, at |-> 0]
    <3>1. 1 \in 1..n /\ n + 1 >= 1
      BY <1>3
    <3> QED
      BY <1>6, <3>1 DEF IsWay
  <2>2. ASSUME NEW m \in 1..n
        PROVE  /\ KnownIn(d, c[m].path)
               /\ c[m + 1].at \in DOMAIN d[FileOf(c[m].path)].includes
               /\ c[m + 1].path = d[FileOf(c[m].path)].includes[c[m + 1].at]
    <3>1. CASE m = n
      BY <1>2, <1>3, <1>6, <3>1 DEF FileAt
    <3>2. CASE m # n
      <4>1. m \in 1..(n - 1) /\ m + 1 \in 1..n
        BY <1>3, <3>2
      <4> QED
        BY <1>6, <4>1 DEF IsWay
    <3> QED
      BY <3>1, <3>2
  <2>3. Len(c) - 1 = n
    BY <1>3, <1>6
  <2> QED
    BY <1>6, <2>1, <2>2, <2>3 DEF IsWay
<1> QED
  BY <1>3, <1>6, <1>7

\* A way, without its end.
Front(w) == SubSeq(w, 1, Len(w) - 1)

\* What could be read has a list of includes.
Lists(d) == \A f \in DOMAIN d : d[f] # Broken => d[f].includes \in Seq(Path)

\* So its child is a way.
LEMMA ChildIsWay ==
  ASSUME NEW d, Lists(d), NEW w, IsWay(w, d), KnownIn(d, w[Len(w)].path), NEW k \in DOMAIN d[FileAt(w)].includes
  PROVE  IsWay(Child(w, d, k), d) /\ Len(Child(w, d, k)) = Len(w) + 1
<1> PICK c : c = Child(w, d, k)
  OBVIOUS
<1>1. \A f \in DOMAIN d : d[f] # Broken => d[f].includes \in Seq(Path)
  BY DEF Lists
<1>2. IsWay(c, d) /\ Len(c) = Len(w) + 1
  BY <1>1, ChildFacts
<1> QED
  BY <1>2, Zenon

\* The way u is what w is a child of.
IsUp(u, w, d) ==
  /\ IsWay(u, d) /\ Len(u) = Len(w) - 1 /\ KnownIn(d, u[Len(u)].path)
  /\ DOMAIN u = 1..(Len(w) - 1) /\ \A m \in 1..(Len(w) - 1) : u[m] = w[m]
  /\ w[Len(w)].at \in DOMAIN d[FileAt(u)].includes /\ w = Child(u, d, w[Len(w)].at)

\* A way that is longer than the root is the child of a way.
LEMMA WayUp ==
  ASSUME NEW d, NEW w, IsWay(w, d), Len(w) > 1
  PROVE  \E u : IsUp(u, w, d)
<1> PICK u : u = Front(w)
  OBVIOUS
<1> PICK n : n = Len(w)
  OBVIOUS
<1>1. w \in Seq(Place) /\ n \in Nat \ {0, 1} /\ DOMAIN w = 1..n /\ w # <<>>
  <2>1. w \in Seq(Place) /\ n \in Nat /\ DOMAIN w = 1..n /\ n > 1
    BY DEF IsWay
  <2>2. Len(<<>>) = 0 /\ n \in Nat \ {0, 1}
    <3>1. \A m \in Nat : m > 1 => m \in Nat \ {0, 1}
      OBVIOUS
    <3> QED
      BY <2>1, <3>1
  <2>3. w # <<>>
    BY <2>1, <2>2
  <2> QED
    BY <2>1, <2>2, <2>3, Zenon
<1>2. /\ u \in Seq(Place) /\ Len(u) = n - 1 /\ DOMAIN u = 1..(n - 1)
      /\ \A i \in 1..(n - 1) : u[i] = w[i]
  BY <1>1, PopFacts DEF Front
<1>3. n - 1 \in 1..(n - 1) /\ 1 \in 1..(n - 1) /\ (n - 1) + 1 = n
  BY <1>1
<1>4. IsWay(u, d)
  <2>1. \A m \in 1..(n - 1 - 1) : m \in 1..(n - 1) /\ m + 1 \in 1..(n - 1)
    BY <1>1
  <2>2. n - 1 >= 1 /\ \A m \in 1..(n - 1 - 1) : u[m] = w[m] /\ u[m + 1] = w[m + 1]
    BY <1>1, <1>2, <2>1
  <2>3. u \in Seq(Place) /\ Len(u) >= 1 /\ u[1] = [path |-> Root, at |-> 0]
    BY <1>2, <1>3, <2>2 DEF IsWay
  <2>4. \A m \in 1..(n - 1 - 1) : m \in 1..(n - 1)
    BY <2>1
  <2>5. \A m \in 1..(n - 1) : /\ KnownIn(d, w[m].path)
                              /\ w[m + 1].at \in DOMAIN d[FileOf(w[m].path)].includes
                              /\ w[m + 1].path = d[FileOf(w[m].path)].includes[w[m + 1].at]
    BY DEF IsWay
  <2>6. \A m \in 1..(Len(u) - 1) : /\ KnownIn(d, u[m].path)
                                   /\ u[m + 1].at \in DOMAIN d[FileOf(u[m].path)].includes
                                   /\ u[m + 1].path = d[FileOf(u[m].path)].includes[u[m + 1].at]
    <3> SUFFICES ASSUME NEW m \in 1..(Len(u) - 1)
                 PROVE  /\ KnownIn(d, u[m].path)
                        /\ u[m + 1].at \in DOMAIN d[FileOf(u[m].path)].includes
                        /\ u[m + 1].path = d[FileOf(u[m].path)].includes[u[m + 1].at]
      OBVIOUS
    <3>1. u[m] = w[m] /\ u[m + 1] = w[m + 1] /\ m \in 1..(n - 1)
      BY <1>2, <2>2, <2>4
    <3> QED
      BY <2>5, <3>1, Zenon
  <2> QED
    BY <2>3, <2>6, Zenon DEF IsWay
<1>5. /\ KnownIn(d, w[n - 1].path) /\ w[n].at \in DOMAIN d[FileOf(w[n - 1].path)].includes
      /\ w[n].path = d[FileOf(w[n - 1].path)].includes[w[n].at]
  BY <1>3 DEF IsWay
<1>6. u[Len(u)] = w[n - 1]
  BY <1>2, <1>3
<1>7. w = Child(u, d, w[n].at)
  <2> PICK p : p = w[n]
    OBVIOUS
  <2>1. p \in Place
    BY <1>1, OwnRange
  <2>2. p = [path |-> d[FileAt(u)].includes[p.at], at |-> p.at]
    BY <1>5, <1>6, <2>1 DEF Place, FileAt
  <2>3. /\ Append(u, p) \in Seq(Place) /\ Len(Append(u, p)) = n
        /\ \A i \in 1..(n - 1) : Append(u, p)[i] = u[i]
        /\ Append(u, p)[n] = p
    <3>1. /\ Append(u, p) \in Seq(Place)
          /\ Len(Append(u, p)) = Len(u) + 1
          /\ \A i \in DOMAIN u : Append(u, p)[i] = u[i]
          /\ Append(u, p)[Len(u) + 1] = p
      BY <1>2, <2>1, PushFacts
    <3> QED
      BY <1>2, <1>3, <3>1
  <2>4. \A i \in 1..n : i \in 1..(n - 1) \/ i = n
    BY <1>1
  <2> PICK v : v = Append(u, p)
    OBVIOUS
  <2>5. \A i \in 1..Len(w) : w[i] = v[i]
    BY <1>2, <2>3, <2>4
  <2>6. w = v
    BY <1>1, <2>3, <2>5, SeqEqual
  <2> QED
    BY <2>2, <2>6 DEF Child
<1>8. KnownIn(d, u[Len(u)].path) /\ w[n].at \in DOMAIN d[FileAt(u)].includes
  BY <1>5, <1>6, Zenon DEF FileAt
<1>9. IsUp(u, w, d)
  BY <1>2, <1>4, <1>7, <1>8 DEF IsUp
<1> QED
  BY <1>9, Zenon

\* The recursion of WaysOf, which reaches MaxDepth + 2.
LEMMA WaysUnfold ==
  WaysOf = [n \in 1..(MaxDepth + 2) |-> IF n = 1 THEN {RootWay} ELSE UNION {Below(w) : w \in WaysOf[n - 1]}]
<1> DEFINE N == MaxDepth + 2
           Step(f, n) == IF n = 1 THEN {RootWay} ELSE UNION {Below(w) : w \in f[n - 1]}
           Good == {n \in Nat : \E f : f = [k \in 1..n |-> Step(f, k)]}
<1>1. 0 \in Good
  <2> DEFINE v == [k \in 1..0 |-> {}]
  <2>1. v = [k \in 1..0 |-> Step(v, k)]
    OBVIOUS
  <2> QED
    BY <2>1
<1>2. ASSUME NEW n \in Nat, n \in Good PROVE n + 1 \in Good
  <2>1. PICK f : f = [k \in 1..n |-> Step(f, k)]
    BY <1>2
  <2>0. \A k \in 1..n : f[k] = Step(f, k)
    BY <2>1
  <2> DEFINE v == [k \in 1..(n + 1) |-> IF k = n + 1 THEN Step(f, k) ELSE f[k]]
  <2>2. ASSUME NEW k \in 1..(n + 1) PROVE v[k] = Step(v, k)
    <3>1. CASE k = n + 1
      <4>1. CASE k = 1
        BY <3>1, <4>1
      <4>2. CASE k # 1
        <5>1. k - 1 \in 1..(n + 1) /\ k - 1 # n + 1 /\ v[k - 1] = f[k - 1]
          BY <3>1, <4>2
        <5> QED
          BY <3>1, <5>1
      <4> QED
        BY <4>1, <4>2
    <3>2. CASE k # n + 1
      <4>0. k \in 1..n
        BY <3>2
      <4>1. f[k] = Step(f, k)
        BY <2>0, <4>0
      <4>2. CASE k = 1
        BY <3>2, <4>0, <4>1, <4>2
      <4>3. CASE k # 1
        <5>1. k - 1 \in 1..(n + 1) /\ k - 1 # n + 1 /\ v[k - 1] = f[k - 1]
          BY <3>2, <4>3
        <5> QED
          BY <3>2, <4>0, <4>1, <5>1
      <4> QED
        BY <4>2, <4>3
    <3> QED
      BY <3>1, <3>2
  <2>3. DOMAIN v = 1..(n + 1) /\ v = [k \in DOMAIN v |-> v[k]]
    OBVIOUS
  <2> HIDE DEF v
  <2>4. v = [k \in 1..(n + 1) |-> Step(v, k)]
    BY <2>2, <2>3
  <2> QED
    BY <2>4
<1>3. N \in Nat
  BY CapsAssumption
<1> HIDE DEF Good
<1>4. N \in Good
  BY <1>1, <1>2, <1>3, SetInduction
<1>5. \E f : f = [k \in 1..N |-> Step(f, k)]
  BY <1>4 DEF Good
<1>6. WaysOf = CHOOSE f : f = [k \in 1..N |-> Step(f, k)]
  BY DEF WaysOf, RootWay
<1> HIDE DEF Step, N
<1>7. WaysOf = [k \in 1..N |-> Step(WaysOf, k)]
  BY <1>5, <1>6
<1> QED
  BY <1>7 DEF Step, N

\* What is below a way are its children.
LEMMA BelowAre ==
  ASSUME NEW w
  PROVE  \A c : c \in Below(w) <=> KnownIn(disk, w[Len(w)].path)
                                   /\ \E k \in DOMAIN disk[FileAt(w)].includes : c = Child(w, disk, k)
BY DEF Below, Read, TextAt, KnownIn, FileAt, Child

\* Ways holds the ways that visit may try.
LEMMA WaysAre ==
  ASSUME DiskInv
  PROVE  \A w : w \in Ways <=> IsWay(w, disk) /\ Len(w) <= MaxDepth + 2
<1> DEFINE N == MaxDepth + 2
           Good == {n \in Nat : n + 1 <= N => \A w : w \in WaysOf[n + 1] <=> IsWay(w, disk) /\ Len(w) = n + 1}
<1>0. N \in Nat /\ N >= 2 /\ Lists(disk)
  BY CapsAssumption DEF DiskInv, Lists
<1>1. /\ WaysOf[1] = {RootWay}
      /\ \A n \in 1..N : n # 1 => WaysOf[n] = UNION {Below(w) : w \in WaysOf[n - 1]}
  <2>1. 1 \in 1..N
    BY <1>0
  <2> QED
    BY <2>1, WaysUnfold
<1> HIDE DEF N
<1>2. 0 \in Good
  <2>1. ASSUME NEW w, IsWay(w, disk), Len(w) = 1 PROVE w = RootWay
    <3>1. w \in Seq(Place) /\ w[1] = [path |-> Root, at |-> 0]
      BY <2>1 DEF IsWay
    <3>2. RootWay \in Seq(Place) /\ Len(RootWay) = 1 /\ RootWay[1] = [path |-> Root, at |-> 0]
      BY RootIsWay DEF IsWay, RootWay
    <3>3. \A i \in 1..Len(w) : w[i] = RootWay[i]
      BY <2>1, <3>1, <3>2
    <3> QED
      BY <2>1, <3>1, <3>2, <3>3, SeqEqual
  <2>2. IsWay(RootWay, disk) /\ Len(RootWay) = 1
    BY RootIsWay DEF RootWay
  <2>3. 0 + 1 = 1 /\ 0 \in Nat
    OBVIOUS
  <2> QED
    BY <1>1, <2>1, <2>2, <2>3
<1>3. ASSUME NEW n \in Nat, n \in Good PROVE n + 1 \in Good
  <2>1. SUFFICES ASSUME n + 2 <= N
                 PROVE  \A w : w \in WaysOf[n + 2] <=> IsWay(w, disk) /\ Len(w) = n + 2
    <3>1. n + 1 + 1 = n + 2 /\ n + 1 \in Nat
      OBVIOUS
    <3> QED
      BY <2>1, <3>1
  <2>2. n + 1 <= N /\ n + 2 \in 1..N /\ n + 2 # 1 /\ n + 2 - 1 = n + 1
    BY <1>0, <2>1
  <2>3. \A w : w \in WaysOf[n + 1] <=> IsWay(w, disk) /\ Len(w) = n + 1
    BY <1>3, <2>2
  <2>4. WaysOf[n + 2] = UNION {Below(w) : w \in WaysOf[n + 1]}
    BY <1>1, <2>2
  <2>5. ASSUME NEW w, w \in WaysOf[n + 2] PROVE IsWay(w, disk) /\ Len(w) = n + 2
    <3> PICK u \in WaysOf[n + 1] : w \in Below(u)
      BY <2>4, <2>5
    <3>1. IsWay(u, disk) /\ Len(u) = n + 1
      BY <2>3
    <3>2. KnownIn(disk, u[Len(u)].path)
      BY BelowAre
    <3> PICK k \in DOMAIN disk[FileAt(u)].includes : w = Child(u, disk, k)
      BY BelowAre
    <3>3. \A j \in DOMAIN disk[FileAt(u)].includes :
            IsWay(Child(u, disk, j), disk) /\ Len(Child(u, disk, j)) = Len(u) + 1
      BY <1>0, <3>1, <3>2, ChildIsWay, Zenon
    <3>4. IsWay(w, disk) /\ Len(w) = Len(u) + 1
      BY <3>3, Zenon
    <3> QED
      BY <3>1, <3>4
  <2>6. ASSUME NEW w, IsWay(w, disk), Len(w) = n + 2 PROVE w \in WaysOf[n + 2]
    <3>1. Len(w) > 1
      BY <2>6
    <3> PICK u : IsUp(u, w, disk)
      BY <2>6, <3>1, WayUp, Zenon
    <3>2. /\ IsWay(u, disk) /\ Len(u) = Len(w) - 1 /\ KnownIn(disk, u[Len(u)].path)
          /\ w[Len(w)].at \in DOMAIN disk[FileAt(u)].includes /\ w = Child(u, disk, w[Len(w)].at)
      BY Zenon DEF IsUp
    <3>3. Len(u) = n + 1
      BY <2>6, <3>2
    <3>4. w \in Below(u)
      BY <3>2, BelowAre
    <3>5. u \in WaysOf[n + 1]
      BY <2>3, <3>2, <3>3
    <3> QED
      BY <2>4, <3>4, <3>5
  <2> QED
    BY <2>5, <2>6
<1> HIDE DEF Good
<1>4. \A n \in Nat : n \in Good
  BY <1>2, <1>3, SetInduction
<1>5. \A n \in 1..N : \A w : w \in WaysOf[n] <=> IsWay(w, disk) /\ Len(w) = n
  <2> SUFFICES ASSUME NEW n \in 1..N PROVE \A w : w \in WaysOf[n] <=> IsWay(w, disk) /\ Len(w) = n
    OBVIOUS
  <2>1. n - 1 \in Nat /\ n - 1 + 1 = n /\ n - 1 + 1 <= N
    BY <1>0
  <2>2. n - 1 \in Good
    BY <1>4, <2>1
  <2> QED
    BY <2>1, <2>2 DEF Good
<1>6. \A w : IsWay(w, disk) => Len(w) \in Nat \ {0}
  BY DEF IsWay
<1>7. \A w : IsWay(w, disk) /\ Len(w) <= N => Len(w) \in 1..N
  BY <1>0, <1>6
<1>8. \A n \in 1..N : n <= N
  BY <1>0
<1>9. \A w : w \in Ways <=> \E n \in 1..N : w \in WaysOf[n]
  BY DEF Ways, N
<1> QED
  BY <1>5, <1>7, <1>8, <1>9 DEF N

-----------------------------------------------------------------------------
(* The tour: the files contribute once for every way to them, children     *)
(* before what includes them.                                              *)

\* The place, in the includes of the frame under it, of frame i.
AtOf(s, i) == IF i = 1 THEN 0 ELSE s[i - 1].next - 1
\* The way to frame i of the stack s.
WayTo(s, i) == [j \in 1..i |-> [path |-> s[j].path, at |-> AtOf(s, j)]]

\* The include of frame i that the walk has not finished with.
Lim(s, i) == IF i < Len(s) THEN s[i].next - 1 ELSE s[i].next

\* A way that visit follows to its end.
Fine(w, d) ==
  /\ Len(w) <= MaxDepth + 1 /\ KnownIn(d, w[Len(w)].path)
  /\ \A i, j \in DOMAIN w : FileOf(w[i].path) = FileOf(w[j].path) => i = j

\* A way that leaves the stack at frame i for an include that is done.
Before(w, s, i) == Len(w) > i /\ (\A m \in 1..i : w[m] = WayTo(s, i)[m]) /\ w[i + 1].at < Lim(s, i)

\* W holds ways that visit followed; L holds their layers.
TourWays(W, d, L) ==
  /\ IsSeq(W) /\ Len(W) = Len(L)
  /\ \A i \in DOMAIN W : IsWay(W[i], d) /\ Fine(W[i], d) /\ L[i] = Layer(d[FileAt(W[i])], FileAt(W[i]))
\* No way is toured twice.
TourOnce(W) == \A i, j \in DOMAIN W : W[i] = W[j] => i = j
\* What a toured way includes was toured before it.
TourClosed(W, d) ==
  \A i \in DOMAIN W : \A k \in DOMAIN d[FileAt(W[i])].includes : \E j \in 1..(i - 1) : W[j] = Child(W[i], d, k)
\* What a frame included was toured, if it is done.
TourStack(W, s, d) ==
  \A i \in DOMAIN s : \A k \in 1..(Lim(s, i) - 1) : \E j \in DOMAIN W : W[j] = Child(WayTo(s, i), d, k)
\* What was toured is behind the stack.
TourBehind(W, s) == s # <<>> => \A j \in DOMAIN W : \E i \in DOMAIN s : Before(W[j], s, i)
\* The tour ends at the root.
TourEnds(W, s) == s = <<>> /\ W # <<>> => W[Len(W)] = RootWay

\* W is the tour so far, with the stack s and the layers L.
Tour(W, s, d, L) ==
  TourWays(W, d, L) /\ TourOnce(W) /\ TourClosed(W, d) /\ TourStack(W, s, d) /\ TourBehind(W, s) /\ TourEnds(W, s)

\* The stack is a way.
LEMMA StackWay ==
  ASSUME StackInv, DiskInv, NEW i \in DOMAIN stack, NEW w, w = WayTo(stack, i)
  PROVE  /\ IsWay(w, disk) /\ Fine(w, disk) /\ Len(w) = i /\ DOMAIN w = 1..i
         /\ \A m \in 1..i : w[m] = [path |-> stack[m].path, at |-> AtOf(stack, m)]
         /\ FileAt(w) = FileOf(stack[i].path) /\ FileAt(w) \in DOMAIN disk
<1>1. /\ stack \in Seq(Frame) /\ DOMAIN stack = 1..Len(stack) /\ Len(stack) \in Nat /\ i \in Nat \ {0}
      /\ Len(stack) <= MaxDepth + 1
      /\ \A m \in DOMAIN stack : stack[m].path \in Path /\ stack[m].next \in Nat \ {0}
  <2>1. /\ stack \in Seq(Frame) /\ DOMAIN stack = 1..Len(stack) /\ Len(stack) \in Nat
        /\ Len(stack) <= MaxDepth + 1
    BY OwnRange DEF StackInv
  <2>2. \A m \in DOMAIN stack : stack[m] \in Frame
    BY <2>1, OwnRange
  <2> QED
    BY <2>1, <2>2 DEF Frame
<1>2. \A m \in 1..i : m \in DOMAIN stack /\ (m # 1 => m - 1 \in DOMAIN stack /\ m - 1 < Len(stack))
  BY <1>1
<1>3. \A m \in DOMAIN stack : m < Len(stack) =>
        /\ stack[m].next - 1 \in DOMAIN Includes(stack[m].path)
        /\ Includes(stack[m].path)[stack[m].next - 1] = stack[m + 1].path
  <2> SUFFICES ASSUME NEW m \in DOMAIN stack, m < Len(stack)
               PROVE  /\ stack[m].next - 1 \in DOMAIN Includes(stack[m].path)
                      /\ Includes(stack[m].path)[stack[m].next - 1] = stack[m + 1].path
    OBVIOUS
  <2>1. /\ stack[m].next > 1 /\ Includes(stack[m].path)[stack[m].next - 1] = stack[m + 1].path
        /\ stack[m].next <= Len(Includes(stack[m].path)) + 1 /\ Known(stack[m].path)
    BY DEF StackInv
  <2>2. Includes(stack[m].path) \in Seq(Path)
    BY <2>1 DEF DiskInv, Known, Includes
  <2>3. DOMAIN Includes(stack[m].path) = 1..Len(Includes(stack[m].path)) /\ Len(Includes(stack[m].path)) \in Nat
    BY <2>2, OwnRange
  <2>4. stack[m].next \in Nat
    BY <1>1
  <2> QED
    BY <2>1, <2>3, <2>4
<1>0. w = [m \in 1..i |-> w[m]]
  BY DEF WayTo
<1>4. /\ DOMAIN w = 1..i
      /\ \A m \in 1..i : /\ w[m] = [path |-> stack[m].path, at |-> AtOf(stack, m)]
                         /\ w[m].path = stack[m].path /\ w[m].at = AtOf(stack, m)
  BY DEF WayTo
<1>5. \A m \in 1..i : w[m] \in Place
  <2> SUFFICES ASSUME NEW m \in 1..i PROVE w[m] \in Place
    OBVIOUS
  <2>1. AtOf(stack, m) \in Nat
    <3>1. CASE m = 1
      BY <3>1 DEF AtOf
    <3>2. CASE m # 1
      <4>1. stack[m - 1].next \in Nat \ {0}
        BY <1>1, <1>2, <3>2
      <4> QED
        BY <3>2, <4>1 DEF AtOf
    <3> QED
      BY <3>1, <3>2
  <2> QED
    BY <1>1, <1>2, <1>4, <2>1 DEF Place
<1>6. w \in Seq(Place) /\ Len(w) = i
  BY <1>0, <1>1, <1>5
<1>7. i >= 1 /\ i \in 1..i /\ 1 \in 1..i /\ i <= MaxDepth + 1
  BY <1>1, CapsAssumption
<1>8. w[1] = [path |-> Root, at |-> 0]
  <2>1. stack # <<>>
    BY <1>1, <1>7
  <2>2. stack[1].path = Root
    BY <2>1 DEF StackInv
  <2> QED
    BY <1>4, <1>7, <2>2 DEF AtOf
<1>9. ASSUME NEW m \in 1..(i - 1)
      PROVE  /\ KnownIn(disk, w[m].path)
             /\ w[m + 1].at \in DOMAIN disk[FileOf(w[m].path)].includes
             /\ w[m + 1].path = disk[FileOf(w[m].path)].includes[w[m + 1].at]
  <2>1. m \in 1..i /\ m + 1 \in 1..i /\ m + 1 # 1 /\ m + 1 - 1 = m /\ m < Len(stack) /\ m \in DOMAIN stack
    BY <1>1
  <2>2. w[m].path = stack[m].path /\ w[m + 1].path = stack[m + 1].path /\ w[m + 1].at = stack[m].next - 1
    BY <1>4, <2>1 DEF AtOf
  <2>3. Known(stack[m].path)
    BY <2>1 DEF StackInv
  <2> QED
    BY <1>3, <2>1, <2>2, <2>3 DEF Known, KnownIn, Includes
<1>10. IsWay(w, disk)
  BY <1>6, <1>7, <1>8, <1>9 DEF IsWay
<1>11. w[i].path = stack[i].path
  BY <1>4, <1>7
<1>12. Known(stack[i].path)
  BY DEF StackInv
<1>13. \A m, k \in 1..i : FileOf(w[m].path) = FileOf(w[k].path) => m = k
  BY <1>2, <1>4 DEF StackInv
<1>14. Fine(w, disk)
  BY <1>4, <1>6, <1>7, <1>11, <1>12, <1>13 DEF Fine, KnownIn, Known
<1> QED
  BY <1>4, <1>6, <1>10, <1>11, <1>12, <1>14 DEF FileAt, Known

\* Files that are read do not change a tour.
LEMMA TourExtends ==
  ASSUME NEW W, NEW s, NEW d, NEW e, NEW L, Tour(W, s, d, L),
         \A f \in DOMAIN d : f \in DOMAIN e /\ e[f] = d[f],
         \A i \in DOMAIN s : FileAt(WayTo(s, i)) \in DOMAIN d
  PROVE  Tour(W, s, e, L)
<1>1. \A w : IsWay(w, d) => IsWay(w, e)
  BY DEF IsWay, KnownIn
<1>2. \A w : Fine(w, d) => Fine(w, e)
  BY DEF Fine, KnownIn
<1>3. \A i \in DOMAIN W : FileAt(W[i]) \in DOMAIN d /\ e[FileAt(W[i])] = d[FileAt(W[i])]
  BY DEF Tour, TourWays, Fine, KnownIn, FileAt
<1>4. TourWays(W, e, L)
  BY <1>1, <1>2, <1>3 DEF Tour, TourWays
<1>5. TourClosed(W, e)
  BY <1>3 DEF Tour, TourClosed, Child
<1>6. TourStack(W, s, e)
  BY DEF Tour, TourStack, Child
<1> QED
  BY <1>4, <1>5, <1>6 DEF Tour

\* A frame that is pushed leaves the tour as it is.
LEMMA TourPush ==
  ASSUME NEW W, NEW s, NEW d, NEW L, NEW t, NEW n \in Nat, Tour(W, s, d, L),
         DOMAIN s = 1..n, s = <<>> => DOMAIN W = {}, DOMAIN t = 1..(n + 1),
         \A i \in 1..n : WayTo(t, i) = WayTo(s, i) /\ Lim(t, i) = Lim(s, i),
         Lim(t, n + 1) = 1
  PROVE  Tour(W, t, d, L)
<1>1. \A i \in 1..(n + 1) : i \in 1..n \/ i = n + 1
  OBVIOUS
<1>2. TourStack(W, t, d)
  <2>1. 1..(1 - 1) = {}
    OBVIOUS
  <2> QED
    BY <1>1, <2>1 DEF Tour, TourStack
<1>3. TourBehind(W, t)
  <2> SUFFICES ASSUME NEW j \in DOMAIN W PROVE \E i \in DOMAIN t : Before(W[j], t, i)
    BY DEF TourBehind
  <2> PICK i \in 1..n : Before(W[j], s, i)
    BY DEF Tour, TourBehind
  <2>1. i \in 1..(n + 1)
    OBVIOUS
  <2> QED
    BY <2>1 DEF Before
<1>4. TourEnds(W, t)
  <2>1. t # <<>>
    <3>1. n + 1 \in DOMAIN t /\ DOMAIN <<>> = {}
      OBVIOUS
    <3> QED
      BY <3>1
  <2> QED
    BY <2>1 DEF TourEnds
<1> QED
  BY <1>2, <1>3, <1>4 DEF Tour

\* The stack s of n frames, of which the last is the end of the way top and has
\* nothing left to include, shrinks to t; W and L grow to X and M.
TourPops(W, s, d, L, n, top, t, X, M) ==
  /\ n \in Nat \ {0} /\ DOMAIN s = 1..n /\ Len(s) = n
  /\ \A i \in 1..n : s[i].next \in Nat \ {0}
  /\ top = WayTo(s, n) /\ IsWay(top, d) /\ Fine(top, d) /\ Len(top) = n /\ DOMAIN top = 1..n
  /\ \A i \in 1..n : \A m \in 1..i : WayTo(s, i)[m] = top[m]
  /\ \A m \in 1..n : top[m].at = AtOf(s, m)
  /\ \A k \in DOMAIN d[FileAt(top)].includes : k \in 1..(s[n].next - 1)
  /\ n > 1 => top = Child(WayTo(s, n - 1), d, s[n - 1].next - 1)
  /\ IsSeq(t) /\ DOMAIN t = 1..(n - 1) /\ Len(t) = n - 1
  /\ \A i \in 1..(n - 1) : t[i] = s[i] /\ WayTo(t, i) = WayTo(s, i)
  /\ X = Append(W, top) /\ M = Append(L, Layer(d[FileAt(top)], FileAt(top))) /\ IsSeq(L)

\* A way that a frame ends is added to the tour.
LEMMA TourPop ==
  ASSUME NEW W, NEW s, NEW d, NEW L, NEW n, NEW top, NEW t, NEW X, NEW M,
         Tour(W, s, d, L), TourPops(W, s, d, L, n, top, t, X, M)
  PROVE  Tour(X, t, d, M)
<1> SUFFICES ASSUME n \in Nat \ {0}, DOMAIN s = 1..n, Len(s) = n,
         \A i \in 1..n : s[i].next \in Nat \ {0},
         top = WayTo(s, n), IsWay(top, d), Fine(top, d), Len(top) = n, DOMAIN top = 1..n,
         \A i \in 1..n : \A m \in 1..i : WayTo(s, i)[m] = top[m],
         \A m \in 1..n : top[m].at = AtOf(s, m),
         \A k \in DOMAIN d[FileAt(top)].includes : k \in 1..(s[n].next - 1),
         n > 1 => top = Child(WayTo(s, n - 1), d, s[n - 1].next - 1),
         IsSeq(t), DOMAIN t = 1..(n - 1), Len(t) = n - 1, \A i \in 1..(n - 1) : t[i] = s[i],
         \A i \in 1..(n - 1) : WayTo(t, i) = WayTo(s, i),
         X = Append(W, top), M = Append(L, Layer(d[FileAt(top)], FileAt(top))),
         IsSeq(L)
             PROVE  Tour(X, t, d, M)
  BY DEF TourPops
<1> PICK c : c = Len(W) + 1
  OBVIOUS
<1>1. /\ IsSeq(X) /\ Len(X) = c /\ DOMAIN X = 1..c /\ DOMAIN W = 1..Len(W) /\ Len(W) \in Nat
      /\ \A i \in DOMAIN W : X[i] = W[i]
      /\ X[c] = top
  <2>1. IsSeq(W)
    BY DEF Tour, TourWays
  <2> QED
    BY <2>1, GrowFacts
<1>2. \A i \in 1..c : i \in DOMAIN W \/ i = c
  BY <1>1
<1>3. c \in 1..c /\ \A i \in DOMAIN W : i \in 1..c /\ i # c
  BY <1>1
<1>4. TourWays(X, d, M)
  <2> PICK l : l = Layer(d[FileAt(top)], FileAt(top))
    OBVIOUS
  <2>1. Len(L) = Len(W)
    BY DEF Tour, TourWays
  <2>2. /\ Len(M) = c /\ DOMAIN L = 1..Len(L)
        /\ \A i \in DOMAIN L : M[i] = L[i]
        /\ M[c] = l
    BY <2>1, GrowFacts
  <2>3. DOMAIN L = DOMAIN W
    BY <1>1, <2>1, <2>2
  <2>4. \A i \in DOMAIN W : /\ IsWay(W[i], d) /\ Fine(W[i], d)
                            /\ M[i] = Layer(d[FileAt(W[i])], FileAt(W[i]))
    BY <2>2, <2>3 DEF Tour, TourWays
  <2>5. \A i \in 1..c : /\ IsWay(X[i], d) /\ Fine(X[i], d)
                        /\ M[i] = Layer(d[FileAt(X[i])], FileAt(X[i]))
    <3> SUFFICES ASSUME NEW i \in 1..c
                 PROVE  /\ IsWay(X[i], d) /\ Fine(X[i], d)
                        /\ M[i] = Layer(d[FileAt(X[i])], FileAt(X[i]))
      OBVIOUS
    <3>1. CASE i \in DOMAIN W
      BY <1>1, <2>4, <3>1
    <3>2. CASE i = c
      BY <1>1, <2>2, <3>2
    <3> QED
      BY <1>2, <3>1, <3>2
  <2> QED
    BY <1>1, <2>2, <2>5 DEF TourWays
<1>5. \A j \in DOMAIN W : \E i \in 1..n : Before(W[j], s, i)
  <2>1. s # <<>>
    <3>1. n \in DOMAIN s /\ DOMAIN <<>> = {}
      OBVIOUS
    <3> QED
      BY <3>1
  <2> QED
    BY <2>1 DEF Tour, TourBehind
<1>6. TourOnce(X)
  <2>1. ASSUME NEW j \in DOMAIN W, W[j] = top PROVE FALSE
    <3> PICK i \in 1..n : Before(W[j], s, i)
      BY <1>5
    <3>1. n > i /\ top[i + 1].at < Lim(s, i)
      BY <2>1 DEF Before
    <3>2. i + 1 \in 1..n /\ i + 1 # 1 /\ i + 1 - 1 = i /\ i < Len(s)
      BY <3>1
    <3>3. top[i + 1].at = s[i].next - 1 /\ Lim(s, i) = s[i].next - 1 /\ s[i].next \in Nat
      <4>1. top[i + 1].at = AtOf(s, i + 1)
        BY <3>2
      <4>2. AtOf(s, i + 1) = s[i].next - 1
        BY <3>2 DEF AtOf
      <4>3. Lim(s, i) = s[i].next - 1
        BY <3>2 DEF Lim
      <4> QED
        BY <4>1, <4>2, <4>3
    <3> QED
      BY <3>1, <3>3
  <2>2. \A i, j \in DOMAIN W : W[i] = W[j] => i = j
    BY DEF Tour, TourOnce
  <2> QED
    BY <1>1, <1>2, <2>1, <2>2 DEF TourOnce
<1>7. TourClosed(X, d)
  <2> SUFFICES ASSUME NEW i \in DOMAIN X, NEW k \in DOMAIN d[FileAt(X[i])].includes
               PROVE  \E j \in 1..(i - 1) : X[j] = Child(X[i], d, k)
    BY DEF TourClosed
  <2>0. i \in 1..c
    BY <1>1
  <2>1. CASE i \in DOMAIN W
    <3>1. X[i] = W[i]
      BY <1>1, <2>1
    <3> PICK j \in 1..(i - 1) : W[j] = Child(W[i], d, k)
      BY <2>1, <3>1 DEF Tour, TourClosed
    <3>2. j \in DOMAIN W
      BY <1>1, <2>1
    <3>3. X[j] = W[j]
      BY <1>1, <3>2
    <3> QED
      BY <3>1, <3>3
  <2>2. CASE i = c
    <3>1. X[i] = top
      BY <1>1, <2>2
    <3>2. k \in 1..(s[n].next - 1) /\ Lim(s, n) = s[n].next
      BY <3>1 DEF Lim
    <3> PICK j \in DOMAIN W : W[j] = Child(top, d, k)
      BY <3>2 DEF Tour, TourStack
    <3>3. j \in 1..(i - 1)
      BY <1>1, <2>2
    <3>4. X[j] = W[j]
      BY <1>1
    <3> QED
      BY <3>1, <3>3, <3>4
  <2> QED
    BY <1>2, <2>0, <2>1, <2>2
<1>8. TourStack(X, t, d)
  <2> SUFFICES ASSUME NEW i \in DOMAIN t, NEW k \in 1..(Lim(t, i) - 1)
               PROVE  \E j \in DOMAIN X : X[j] = Child(WayTo(t, i), d, k)
    BY DEF TourStack
  <2>00. i \in 1..(n - 1)
    OBVIOUS
  <2>0. i \in 1..n /\ WayTo(t, i) = WayTo(s, i) /\ s[i].next \in Nat \ {0} /\ i < n
    BY <2>00
  <2>01. Lim(t, i) = IF i < Len(t) THEN t[i].next - 1 ELSE t[i].next
    BY DEF Lim
  <2>1. Lim(t, i) = IF i < n - 1 THEN s[i].next - 1 ELSE s[i].next
    BY <2>00, <2>01
  <2>2. Lim(s, i) = s[i].next - 1
    BY <2>0 DEF Lim
  <2>3. CASE k \in 1..(s[i].next - 1 - 1)
    <3> PICK j \in DOMAIN W : W[j] = Child(WayTo(s, i), d, k)
      BY <2>0, <2>2, <2>3 DEF Tour, TourStack
    <3> QED
      BY <1>1, <1>3, <2>0
  <2>4. CASE k \notin 1..(s[i].next - 1 - 1)
    <3>1. CASE i < n - 1
      BY <2>1, <2>4, <3>1
    <3>2. CASE ~(i < n - 1)
      <4>1. i = n - 1 /\ n > 1
        BY <2>00, <3>2
      <4>2. k = s[n - 1].next - 1
        <5>1. \A x \in Nat \ {0} : \A y \in 1..(x - 1) : y \notin 1..(x - 1 - 1) => y = x - 1
          OBVIOUS
        <5>2. k \in 1..(s[i].next - 1)
          BY <2>1, <3>2
        <5>3. k = s[i].next - 1
          BY <2>0, <2>4, <5>1, <5>2, Zenon
        <5> QED
          BY <4>1, <5>3
      <4>3. top = Child(WayTo(t, i), d, k)
        BY <2>0, <4>1, <4>2
      <4> QED
        BY <1>1, <1>3, <4>3
    <3> QED
      BY <3>1, <3>2
  <2> QED
    BY <2>3, <2>4
<1>9. TourBehind(X, t)
  <2> SUFFICES ASSUME t # <<>>, NEW j \in 1..c
               PROVE  \E i \in 1..(n - 1) : Before(X[j], t, i)
    BY <1>1 DEF TourBehind
  <2>0. n > 1 /\ n - 1 \in 1..(n - 1) /\ n - 1 \in 1..n /\ n \in 1..n /\ n # 1
    <3>1. n # 1
      <4>1. Len(t) = 0 => t = <<>>
        BY DEF IsSeq
      <4>2. n = 1 => n - 1 = 0
        OBVIOUS
      <4> QED
        BY <4>1, <4>2
    <3> QED
      BY <3>1
  <2>1. Lim(t, n - 1) = s[n - 1].next /\ s[n - 1].next \in Nat \ {0}
    BY <2>0 DEF Lim
  <2>2. top[n].at = s[n - 1].next - 1
    BY <2>0 DEF AtOf
  <2>3. \A m \in 1..(n - 1) : WayTo(t, n - 1)[m] = top[m] /\ m \in 1..n
    BY <2>0
  <2>4. ASSUME NEW w, Len(w) > n - 1, \A m \in 1..n : w[m] = top[m] PROVE Before(w, t, n - 1)
    <3>1. w[n - 1 + 1].at < Lim(t, n - 1)
      BY <2>0, <2>1, <2>2, <2>4
    <3> QED
      BY <2>3, <2>4, <3>1 DEF Before
  <2>5. CASE j = c
    <3>1. X[j] = top /\ Len(top) > n - 1
      BY <1>1, <2>5
    <3> QED
      BY <2>0, <2>4, <3>1
  <2>6. CASE j \in DOMAIN W
    <3>1. X[j] = W[j]
      BY <1>1, <2>6
    <3> PICK i \in 1..n : Before(W[j], s, i)
      BY <1>5, <2>6
    <3>2. CASE i = n
      <4>1. Len(W[j]) > n /\ \A m \in 1..n : W[j][m] = top[m]
        BY <3>2 DEF Before
      <4>2. Len(W[j]) \in Nat
        <5>1. W[j] \in Seq(Place)
          BY <2>6, Zenon DEF Tour, TourWays, IsWay
        <5> QED
          BY <5>1
      <4>3. Len(W[j]) > n - 1
        BY <4>1, <4>2
      <4> QED
        BY <2>0, <2>4, <3>1, <4>1, <4>3
    <3>3. CASE i # n
      <4>1. i \in 1..(n - 1) /\ i < n
        BY <3>3
      <4>2. Lim(s, i) = s[i].next - 1 /\ s[i].next \in Nat
        BY <4>1 DEF Lim
      <4>3. Lim(t, i) \in {s[i].next - 1, s[i].next}
        BY <4>1 DEF Lim
      <4>4. W[j][i + 1].at \in Nat
        <5>1. W[j] \in Seq(Place) /\ Len(W[j]) > i
          BY <2>6 DEF Tour, TourWays, IsWay, Before
        <5>2. i + 1 \in DOMAIN W[j]
          <6>1. DOMAIN W[j] = 1..Len(W[j]) /\ Len(W[j]) \in Nat
            BY <5>1
          <6> QED
            BY <5>1, <6>1
        <5>3. W[j][i + 1] \in Place
          BY <5>1, <5>2, OwnRange
        <5> QED
          BY <5>3 DEF Place
      <4>5. W[j][i + 1].at < Lim(t, i)
        <5>1. W[j][i + 1].at < Lim(s, i)
          BY Zenon DEF Before
        <5>2. PICK a : a = W[j][i + 1].at
          OBVIOUS
        <5>3. PICK b : b = s[i].next
          OBVIOUS
        <5>4. a \in Nat /\ b \in Nat /\ a < b - 1
          BY <4>2, <4>4, <5>1, <5>2, <5>3, Zenon
        <5>5. PICK l : l = Lim(t, i)
          OBVIOUS
        <5>6. l \in {b - 1, b}
          BY <4>3, <5>3, <5>5, Zenon
        <5>7. a < l
          BY <5>4, <5>6
        <5> QED
          BY <5>2, <5>5, <5>7, Zenon
      <4>6. Before(W[j], t, i)
        BY <4>1, <4>5 DEF Before
      <4> QED
        BY <3>1, <4>1, <4>6
    <3> QED
      BY <3>2, <3>3
  <2> QED
    BY <1>2, <2>5, <2>6
<1>10. TourEnds(X, t)
  <2> SUFFICES ASSUME t = <<>> PROVE X[Len(X)] = RootWay
    BY DEF TourEnds
  <2>1. n = 1
    <3>1. Len(<<>>) = 0
      OBVIOUS
    <3>2. n - 1 = 0
      BY <3>1
    <3> QED
      BY <3>2
  <2>2. top \in Seq(Place) /\ top[1] = [path |-> Root, at |-> 0] /\ Len(top) = 1
    BY <2>1 DEF IsWay
  <2>3. RootWay \in Seq(Place) /\ Len(RootWay) = 1 /\ RootWay[1] = [path |-> Root, at |-> 0]
    BY RootIsWay DEF IsWay, RootWay
  <2>4. \A i \in 1..Len(top) : top[i] = RootWay[i]
    BY <2>2, <2>3
  <2>5. top = RootWay
    BY <2>2, <2>3, <2>4, SeqEqual
  <2> QED
    BY <1>1, <2>5
<1> QED
  BY <1>4, <1>6, <1>7, <1>8, <1>9, <1>10 DEF Tour

\* The way a way goes down from.
LEMMA WayAbove ==
  ASSUME NEW d, NEW w, IsWay(w, d), Len(w) > 1
  PROVE  \E u : /\ IsWay(u, d) /\ Len(u) = Len(w) - 1 /\ \A m \in 1..(Len(w) - 1) : u[m] = w[m]
                /\ w = Child(u, d, w[Len(w)].at)
<1>1. PICK u : IsUp(u, w, d)
  BY WayUp, Zenon
<1>2. /\ IsWay(u, d) /\ Len(u) = Len(w) - 1 /\ \A m \in 1..(Len(w) - 1) : u[m] = w[m]
      /\ w = Child(u, d, w[Len(w)].at)
  BY <1>1, Zenon DEF IsUp
<1> QED
  BY <1>2

\* A way is the child of the way that is shorter by one.
LEMMA ChildOf ==
  ASSUME NEW d, NEW n \in Nat, n > 1, NEW w, NEW v, IsWay(w, d), IsWay(v, d), Len(w) = n, Len(v) = n - 1,
         \A m \in 1..(n - 1) : v[m] = w[m]
  PROVE  w = Child(v, d, w[n].at)
<1>1. Len(w) > 1
  OBVIOUS
<1>2. PICK u : /\ IsWay(u, d) /\ Len(u) = Len(w) - 1 /\ \A m \in 1..(Len(w) - 1) : u[m] = w[m]
               /\ w = Child(u, d, w[Len(w)].at)
  BY <1>1, WayAbove
<1>3. u \in Seq(Place) /\ v \in Seq(Place)
  BY <1>2 DEF IsWay
<1>4. \A m \in 1..Len(u) : u[m] = v[m]
  BY <1>2
<1>5. u = v
  BY <1>2, <1>3, <1>4, SeqEqual
<1> QED
  BY <1>2, <1>5

\* A frame above the first is a child of the one under it.
LEMMA StackChild ==
  ASSUME StackInv, DiskInv, NEW n \in DOMAIN stack, n > 1,
         NEW w, w = WayTo(stack, n), NEW v, v = WayTo(stack, n - 1)
  PROVE  w = Child(v, disk, stack[n - 1].next - 1)
<1>1. n - 1 \in DOMAIN stack /\ n - 1 \in 1..n /\ n \in Nat
  <2>1. DOMAIN stack = 1..Len(stack) /\ Len(stack) \in Nat
    BY OwnRange DEF StackInv
  <2> QED
    BY <2>1
<1>2. /\ IsWay(w, disk) /\ Len(w) = n /\ \A m \in 1..n : w[m] = [path |-> stack[m].path, at |-> AtOf(stack, m)]
  BY StackWay
<1>3. /\ IsWay(v, disk) /\ Len(v) = n - 1
      /\ \A m \in 1..(n - 1) : v[m] = [path |-> stack[m].path, at |-> AtOf(stack, m)]
  BY <1>1, StackWay
<1>4. \A m \in 1..(n - 1) : m \in 1..n /\ v[m] = w[m]
  BY <1>1, <1>2, <1>3
<1>5. ASSUME NEW x, NEW y, IsWay(x, disk), IsWay(y, disk), Len(x) = n, Len(y) = n - 1,
             \A m \in 1..(n - 1) : y[m] = x[m]
      PROVE  x = Child(y, disk, x[n].at)
  BY <1>1, <1>5, ChildOf
<1>6. w = Child(v, disk, w[n].at)
  BY <1>2, <1>3, <1>4, <1>5
<1>7. w[n].at = stack[n - 1].next - 1
  <2>1. n \in 1..n /\ n # 1
    BY <1>1
  <2>2. w[n] = [path |-> stack[n].path, at |-> AtOf(stack, n)]
    BY <1>2, <2>1
  <2> QED
    BY <2>1, <2>2 DEF AtOf
<1> QED
  BY <1>6, <1>7

-----------------------------------------------------------------------------
(* The pairs, and the entries of the composition they are.                 *)

\* A pair as the walk gathers it: pair k of the file at the end of w.
Entry(d, w, k) == [raw |-> d[FileAt(w)].pairs[k], file |-> FileAt(w)]

\* E holds every entry of the ways W.
ListedAll(W, E, d) == \A i \in DOMAIN W : \A k \in DOMAIN d[FileAt(W[i])].pairs : \E q \in DOMAIN E : E[q] = <<W[i], k>>
\* E holds only such entries, and P their pairs.
ListedIn(W, E, d, P) ==
  \A q \in DOMAIN E : \E i \in DOMAIN W : \E k \in DOMAIN d[FileAt(W[i])].pairs :
    E[q] = <<W[i], k>> /\ P[q] = Entry(d, W[i], k)
\* No element is listed twice.
ListedOnce(E) == \A q, r \in DOMAIN E : E[q] = E[r] => q = r

\* P are the pairs of the entries E of the ways W.
Listed(W, E, d, P) ==
  IsSeq(E) /\ Len(E) = Len(P) /\ ListedAll(W, E, d) /\ ListedIn(W, E, d, P) /\ ListedOnce(E)

\* Files that are read do not change the list.
LEMMA ListedExtends ==
  ASSUME NEW W, NEW E, NEW d, NEW e, NEW P, Listed(W, E, d, P),
         \A i \in DOMAIN W : e[FileAt(W[i])] = d[FileAt(W[i])]
  PROVE  Listed(W, E, e, P)
<1>1. ListedAll(W, E, e)
  BY DEF Listed, ListedAll
<1>2. ListedIn(W, E, e, P)
  BY DEF Listed, ListedIn, Entry
<1> QED
  BY <1>1, <1>2 DEF Listed

\* There is such a list.
LEMMA Joining ==
  ASSUME NEW E, IsSeq(E), NEW T, IsSeq(T)
  PROVE  \E F : IsJoin(F, E, T)
BY JoinFacts

\* The list W grows to X by top, and with it P to Q.
ListPop(W, P, d, top, m, X, Q) ==
  /\ IsSeq(W) /\ IsSeq(P) /\ \A i \in DOMAIN W : W[i] # top
  /\ m \in Nat /\ DOMAIN d[FileAt(top)].pairs = 1..m
  /\ DOMAIN X = 1..(Len(W) + 1) /\ (\A i \in DOMAIN W : X[i] = W[i]) /\ X[Len(W) + 1] = top
  /\ Len(Q) = Len(P) + m /\ \A q \in DOMAIN P : Q[q] = P[q]
  /\ \A k \in 1..m : Q[Len(P) + k] = Entry(d, top, k)

\* The pairs of a file are listed.
LEMMA ListedPop ==
  ASSUME NEW W, NEW E, NEW d, NEW P, NEW top, NEW m, NEW X, NEW Q,
         Listed(W, E, d, P), ListPop(W, P, d, top, m, X, Q)
  PROVE  \E F : Listed(X, F, d, Q)
<1> SUFFICES ASSUME IsSeq(W), IsSeq(P), \A i \in DOMAIN W : W[i] # top,
                    m \in Nat, DOMAIN d[FileAt(top)].pairs = 1..m,
                    DOMAIN X = 1..(Len(W) + 1), \A i \in DOMAIN W : X[i] = W[i], X[Len(W) + 1] = top,
                    Len(Q) = Len(P) + m, \A q \in DOMAIN P : Q[q] = P[q],
                    \A k \in 1..m : Q[Len(P) + k] = Entry(d, top, k)
             PROVE  \E F : Listed(X, F, d, Q)
  BY DEF ListPop
<1> PICK c : c = Len(W) + 1
  OBVIOUS
<1> PICK l : l = Len(E)
  OBVIOUS
<1>1. PICK T : DOMAIN T = 1..m /\ (\A k \in 1..m : T[k] = <<top, k>>) /\ IsSeq(T) /\ Len(T) = m
  <2>1. PICK T : T = [k \in 1..m |-> <<top, k>>]
    OBVIOUS
  <2>2. DOMAIN T = 1..m /\ (\A k \in 1..m : T[k] = <<top, k>>) /\ T = [k \in 1..m |-> T[k]]
    BY <2>1
  <2>3. IsSeq(T) /\ Len(T) = m
    BY <2>2, TableFacts
  <2> QED
    BY <2>2, <2>3
<1>4. IsSeq(E) /\ Len(P) = l /\ DOMAIN E = DOMAIN P
  <2>1. IsSeq(E) /\ Len(E) = Len(P)
    BY DEF Listed
  <2>2. DOMAIN E = 1..Len(E) /\ DOMAIN P = 1..Len(P)
    BY <2>1, OwnRange DEF IsSeq
  <2> QED
    BY <2>1, <2>2
<1>5. PICK F : /\ IsSeq(F) /\ Len(F) = l + m /\ DOMAIN F = 1..(l + m) /\ DOMAIN E = 1..l /\ l \in Nat
               /\ \A q \in DOMAIN E : q \in DOMAIN F /\ F[q] = E[q]
               /\ \A k \in 1..m : l + k \in DOMAIN F /\ F[l + k] = T[k]
               /\ \A q \in DOMAIN F : q \in DOMAIN E \/ \E k \in 1..m : q = l + k
  <2>1. IsSeq(E) /\ IsSeq(T)
    BY <1>1, <1>4
  <2>2. PICK F : IsJoin(F, E, T)
    BY <2>1, Joining, Zenon
  <2>3. /\ IsSeq(F) /\ Len(F) = l + m /\ DOMAIN F = 1..(l + m) /\ DOMAIN E = 1..l /\ l \in Nat
        /\ \A q \in DOMAIN E : q \in DOMAIN F /\ F[q] = E[q]
        /\ \A k \in 1..m : l + k \in DOMAIN F /\ F[l + k] = T[k]
        /\ \A q \in DOMAIN F : q \in DOMAIN E \/ \E k \in 1..m : q = l + k
    BY <1>1, <2>2 DEF IsJoin
  <2> QED
    BY <2>3
<1>6. /\ Len(Q) = l + m
      /\ \A q \in DOMAIN E : Q[q] = P[q]
      /\ \A k \in 1..m : Q[l + k] = Entry(d, top, k)
  BY <1>4
<1>7. /\ DOMAIN X = 1..c /\ DOMAIN W = 1..Len(W) /\ Len(W) \in Nat
      /\ \A i \in DOMAIN W : X[i] = W[i]
      /\ X[c] = top
  BY OwnRange DEF IsSeq
<1>8. /\ \A i \in DOMAIN X : i \in DOMAIN W \/ i = c
      /\ c \in DOMAIN X /\ \A i \in DOMAIN W : i \in DOMAIN X
  BY <1>7
<1>9. ListedAll(X, F, d)
  <2> SUFFICES ASSUME NEW i \in DOMAIN X, NEW k \in DOMAIN d[FileAt(X[i])].pairs
               PROVE  \E q \in DOMAIN F : F[q] = <<X[i], k>>
    BY DEF ListedAll
  <2>1. CASE i \in DOMAIN W
    <3> PICK q \in DOMAIN E : E[q] = <<W[i], k>>
      BY <1>7, <2>1 DEF Listed, ListedAll
    <3>1. X[i] = W[i]
      BY <1>7, <2>1
    <3> QED
      BY <1>5, <3>1
  <2>2. CASE i = c
    <3>1. X[i] = top
      BY <1>7, <2>2
    <3>2. k \in 1..m
      BY <3>1
    <3>3. l + k \in DOMAIN F /\ F[l + k] = <<top, k>>
      BY <1>1, <1>5, <3>2
    <3> QED
      BY <3>1, <3>3
  <2> QED
    BY <1>8, <2>1, <2>2
<1>10. ListedIn(X, F, d, Q)
  <2> SUFFICES ASSUME NEW q \in DOMAIN F
               PROVE  \E i \in DOMAIN X : \E k \in DOMAIN d[FileAt(X[i])].pairs :
                        F[q] = <<X[i], k>> /\ Q[q] = Entry(d, X[i], k)
    BY DEF ListedIn
  <2>1. CASE q \in DOMAIN E
    <3> PICK i \in DOMAIN W : \E k \in DOMAIN d[FileAt(W[i])].pairs :
                        E[q] = <<W[i], k>> /\ P[q] = Entry(d, W[i], k)
      BY <2>1 DEF Listed, ListedIn
    <3> PICK k \in DOMAIN d[FileAt(W[i])].pairs : E[q] = <<W[i], k>> /\ P[q] = Entry(d, W[i], k)
      OBVIOUS
    <3>1. X[i] = W[i] /\ i \in DOMAIN X
      BY <1>7, <1>8
    <3>2. F[q] = E[q] /\ Q[q] = P[q]
      BY <1>5, <1>6, <2>1
    <3> QED
      BY <3>1, <3>2
  <2>2. CASE \E k \in 1..m : q = l + k
    <3> PICK k \in 1..m : q = l + k
      BY <2>2
    <3>1. F[q] = <<top, k>> /\ Q[q] = Entry(d, top, k)
      BY <1>1, <1>5, <1>6
    <3>2. X[c] = top /\ c \in DOMAIN X /\ k \in DOMAIN d[FileAt(X[c])].pairs
      BY <1>7, <1>8
    <3> QED
      BY <3>1, <3>2
  <2> QED
    BY <1>5, <2>1, <2>2
<1>11. ListedOnce(F)
  <2>1. \A q \in DOMAIN E : \E i \in DOMAIN W : \E k \in DOMAIN d[FileAt(W[i])].pairs : E[q] = <<W[i], k>>
    BY DEF Listed, ListedIn
  <2>2. \A q \in DOMAIN E : \A k \in 1..m : E[q] # T[k]
    BY <1>1, <2>1
  <2>3. \A k, j \in 1..m : T[k] = T[j] => k = j
    BY <1>1
  <2>4. \A q, r \in DOMAIN E : E[q] = E[r] => q = r
    BY DEF Listed, ListedOnce
  <2> SUFFICES ASSUME NEW q \in DOMAIN F, NEW r \in DOMAIN F, F[q] = F[r] PROVE q = r
    BY DEF ListedOnce
  <2>5. CASE q \in DOMAIN E /\ r \in DOMAIN E
    BY <1>5, <2>4, <2>5
  <2>6. \A a \in DOMAIN E : F[a] = E[a]
    BY <1>5
  <2>7. \A k \in 1..m : F[l + k] = T[k]
    BY <1>5
  <2>8. CASE q \in DOMAIN E /\ r \notin DOMAIN E
    <3> PICK k \in 1..m : r = l + k
      BY <1>5, <2>8
    <3>1. F[r] = T[k] /\ F[q] = E[q]
      BY <2>6, <2>7, <2>8
    <3> QED
      BY <2>2, <2>8, <3>1
  <2>9. CASE q \notin DOMAIN E /\ r \in DOMAIN E
    <3> PICK k \in 1..m : q = l + k
      BY <1>5, <2>9
    <3>1. F[q] = T[k] /\ F[r] = E[r]
      BY <2>6, <2>7, <2>9
    <3> QED
      BY <2>2, <2>9, <3>1
  <2>10. CASE q \notin DOMAIN E /\ r \notin DOMAIN E
    <3> PICK k \in 1..m : q = l + k
      BY <1>5, <2>10
    <3> PICK j \in 1..m : r = l + j
      BY <1>5, <2>10
    <3>1. F[q] = T[k] /\ F[r] = T[j]
      BY <2>7
    <3>2. k = j
      BY <2>3, <3>1
    <3> QED
      BY <3>2
  <2> QED
    BY <2>5, <2>8, <2>9, <2>10
<1>12. Listed(X, F, d, Q)
  BY <1>5, <1>6, <1>9, <1>10, <1>11 DEF Listed
<1> QED
  BY <1>12

-----------------------------------------------------------------------------
(* The walk: what has contributed is a tour, and the pairs are its entries. *)

\* There are a tour and a list of its entries.
Walked(s, d, L, P) == \E W, E : Tour(W, s, d, L) /\ Listed(W, E, d, P)

\* Unless a call of visit failed, what contributed is a tour.
WalkInv == pc \notin IncludeErrors => Walked(stack, disk, layers, pairs)

\* Nothing has contributed yet.
LEMMA WalkStarts == \A d : Walked(<<>>, d, <<>>, <<>>)
<1> SUFFICES ASSUME NEW d PROVE Walked(<<>>, d, <<>>, <<>>)
  OBVIOUS
<1> PICK W : W = <<>>
  OBVIOUS
<1>1. IsSeq(W) /\ Len(W) = 0 /\ DOMAIN W = {}
  BY EmptyFacts
<1>2. TourWays(W, d, W)
  BY <1>1 DEF TourWays
<1>3. TourOnce(W) /\ TourClosed(W, d) /\ TourStack(W, W, d) /\ TourBehind(W, W)
  BY <1>1 DEF TourOnce, TourClosed, TourStack, TourBehind
<1>4. TourEnds(W, W)
  BY DEF TourEnds
<1>5. Tour(W, W, d, W)
  BY <1>2, <1>3, <1>4 DEF Tour
<1>6. Listed(W, W, d, W)
  BY <1>1 DEF Listed, ListedAll, ListedIn, ListedOnce
<1> QED
  BY <1>5, <1>6 DEF Walked

\* A frame is pushed; what it was pushed for is read.
LEMMA WalkPush ==
  ASSUME NEW s, NEW d, NEW L, NEW P, Walked(s, d, L, P),
         NEW e, \A f \in DOMAIN d : f \in DOMAIN e /\ e[f] = d[f],
         \A i \in DOMAIN s : FileAt(WayTo(s, i)) \in DOMAIN d,
         NEW n \in Nat, DOMAIN s = 1..n, s = <<>> => Len(L) = 0,
         NEW t, DOMAIN t = 1..(n + 1),
         \A i \in 1..n : WayTo(t, i) = WayTo(s, i) /\ Lim(t, i) = Lim(s, i),
         Lim(t, n + 1) = 1
  PROVE  Walked(t, e, L, P)
<1>1. PICK W, E : Tour(W, s, d, L) /\ Listed(W, E, d, P)
  BY DEF Walked
<1>2. Tour(W, s, e, L)
  BY <1>1, TourExtends
<1>3. s = <<>> => DOMAIN W = {}
  <2>1. IsSeq(W) /\ Len(W) = Len(L)
    BY <1>1 DEF Tour, TourWays
  <2>2. DOMAIN W = 1..Len(W)
    BY <2>1, OwnRange DEF IsSeq
  <2> QED
    BY <2>1, <2>2
<1>4. Tour(W, t, e, L)
  BY <1>2, <1>3, TourPush
<1>5. \A i \in DOMAIN W : e[FileAt(W[i])] = d[FileAt(W[i])]
  BY <1>1 DEF Tour, TourWays, Fine, KnownIn, FileAt
<1>6. Listed(W, E, e, P)
  BY <1>1, <1>5, ListedExtends
<1> QED
  BY <1>4, <1>6 DEF Walked

\* The frames under the one that is pushed.
LEMMA FramesUnder ==
  ASSUME NEW s, NEW n \in Nat, DOMAIN s = 1..n, Len(s) = n,
         NEW t, DOMAIN t = 1..(n + 1), Len(t) = n + 1,
         \A i \in 1..n : s[i].next \in Nat \ {0} /\ t[i].path = s[i].path
                         /\ t[i].next = IF i = n THEN s[i].next + 1 ELSE s[i].next,
         t[n + 1].next = 1
  PROVE  /\ \A i \in 1..n : WayTo(t, i) = WayTo(s, i) /\ Lim(t, i) = Lim(s, i)
         /\ Lim(t, n + 1) = 1
<1>1. ASSUME NEW i \in 1..n PROVE WayTo(t, i) = WayTo(s, i) /\ Lim(t, i) = Lim(s, i)
  <2>1. ASSUME NEW j \in 1..i PROVE t[j].path = s[j].path /\ AtOf(t, j) = AtOf(s, j)
    <3>1. j \in 1..n /\ (j # 1 => j - 1 \in 1..n /\ j - 1 # n)
      OBVIOUS
    <3>2. CASE j = 1
      BY <3>1, <3>2 DEF AtOf
    <3>3. CASE j # 1
      <4>1. t[j - 1].next = s[j - 1].next
        BY <3>1, <3>3
      <4> QED
        BY <3>1, <3>3, <4>1 DEF AtOf
    <3> QED
      BY <3>2, <3>3
  <2>2. WayTo(t, i) = WayTo(s, i)
    BY <2>1 DEF WayTo
  <2>3. Lim(t, i) = Lim(s, i)
    <3>1. i < n + 1 /\ (i # n => i < n) /\ ~(n < n)
      OBVIOUS
    <3>2. CASE i = n
      <4>1. t[i].next = s[i].next + 1 /\ s[i].next \in Nat
        BY <3>2
      <4> QED
        BY <3>1, <3>2, <4>1 DEF Lim
    <3>3. CASE i # n
      <4>1. t[i].next = s[i].next
        BY <3>3
      <4> QED
        BY <3>1, <3>3, <4>1 DEF Lim
    <3> QED
      BY <3>2, <3>3
  <2> QED
    BY <2>2, <2>3
<1>2. Lim(t, n + 1) = 1
  <2>1. ~(n + 1 < n + 1)
    OBVIOUS
  <2> QED
    BY <2>1 DEF Lim
<1> QED
  BY <1>1, <1>2

\* The first call.
LEMMA WalkResolve ==
  ASSUME Shape, WalkInv, NEW i \in Invocation, Resolve(i)
  PROVE  WalkInv'
<1>0. pc = "start" /\ pc \notin IncludeErrors
  BY DEF Resolve, IncludeErrors
<1>1. stack = <<>> /\ layers = <<>> /\ pairs = <<>>
  BY <1>0 DEF Shape, StageInv
<1>2. CASE Ambiguous(i)
  <2>1. UNCHANGED <<disk, stack, layers, pairs>>
    BY <1>2 DEF Resolve
  <2> QED
    BY <1>0, <2>1 DEF WalkInv
<1>3. CASE ~Ambiguous(i)
  <2>1. Visit(Root, <<>>) /\ DiskInv /\ Root \in Path
    BY <1>3, TextAssumption DEF Resolve, Shape
  <2>2. layers' = layers /\ pairs' = pairs /\ DiskGrows
    BY <2>1, VisitSplit
  <2> SUFFICES ASSUME pc' \notin IncludeErrors PROVE Walked(stack', disk', layers', pairs')
    BY DEF WalkInv
  <2>3. stack' = Append(<<>>, [path |-> Root, next |-> 1])
    BY <2>1, VisitSplit DEF IncludeErrors
  <2> PICK t : t = stack'
    OBVIOUS
  <2> PICK e : e = disk'
    OBVIOUS
  <2>4. DOMAIN t = 1..(0 + 1) /\ Len(t) = 0 + 1 /\ t[0 + 1].next = 1
    <3> PICK p : p = [path |-> Root, next |-> 1]
      OBVIOUS
    <3>1. t = Append(<<>>, p) /\ p.next = 1
      BY <2>3
    <3> QED
      BY <3>1, EmptyFacts, GrowFacts
  <2>5. Lim(t, 0 + 1) = 1
    <3>1. ~(0 + 1 < 0 + 1)
      OBVIOUS
    <3> QED
      BY <2>4, <3>1 DEF Lim
  <2>6. \A f \in DOMAIN disk : f \in DOMAIN e /\ e[f] = disk[f]
    BY <2>2 DEF DiskGrows
  <2>7. Walked(<<>>, disk, <<>>, <<>>)
    BY WalkStarts
  <2>8. DOMAIN <<>> = 1..0 /\ Len(<<>>) = 0 /\ 1..0 = {}
    BY EmptyFacts
  <2>9. Walked(t, e, <<>>, <<>>)
    BY <2>4, <2>5, <2>6, <2>7, <2>8, WalkPush
  <2> QED
    BY <1>1, <2>2, <2>9
<1> QED
  BY <1>2, <1>3

\* Something more is included.
LEMMA WalkInclude ==
  ASSUME Shape, WalkInv, Include
  PROVE  WalkInv'
<1>1. /\ pc = "walk" /\ stack # <<>> /\ Visit(NextPath, Advanced)
      /\ NextPath \in Path
  BY IncludeSplit
<1>2. /\ Advanced \in Seq(Frame) /\ Len(Advanced) = Len(stack) /\ DOMAIN Advanced = DOMAIN stack
      /\ DOMAIN stack = 1..Len(stack) /\ Len(stack) \in Nat \ {0}
      /\ \A i \in DOMAIN stack : /\ Advanced[i].path = stack[i].path
                                 /\ Advanced[i].next = IF i = Len(stack) THEN stack[i].next + 1
                                                       ELSE stack[i].next
      /\ \A i \in DOMAIN stack : stack[i].next \in Nat \ {0}
  BY <1>1, AdvancedFacts DEF Shape
<1>3. layers' = layers /\ pairs' = pairs /\ DiskGrows
  BY <1>1, VisitSplit DEF Shape
<1> SUFFICES ASSUME pc' \notin IncludeErrors PROVE Walked(stack', disk', layers', pairs')
  BY DEF WalkInv
<1>4. stack' = Append(Advanced, [path |-> NextPath, next |-> 1])
  BY <1>1, VisitSplit DEF IncludeErrors, Shape
<1>5. Walked(stack, disk, layers, pairs)
  BY <1>1 DEF WalkInv, IncludeErrors
<1> PICK t : t = stack'
  OBVIOUS
<1> PICK e : e = disk'
  OBVIOUS
<1>6. PICK n : n = Len(stack)
  OBVIOUS
<1>7. /\ n \in Nat /\ DOMAIN stack = 1..n /\ Len(stack) = n
      /\ DOMAIN t = 1..(n + 1) /\ Len(t) = n + 1
      /\ \A i \in 1..n : stack[i].next \in Nat \ {0} /\ t[i].path = stack[i].path
                         /\ t[i].next = IF i = n THEN stack[i].next + 1 ELSE stack[i].next
      /\ t[n + 1].next = 1
  <2> PICK a : a = Advanced
    OBVIOUS
  <2> PICK p : p = [path |-> NextPath, next |-> 1]
    OBVIOUS
  <2>1. a \in Seq(Frame) /\ p \in Frame /\ t = Append(a, p) /\ p.next = 1 /\ Len(a) = n /\ DOMAIN a = 1..n
    BY <1>1, <1>2, <1>4, <1>6 DEF Frame
  <2>2. /\ Len(Append(a, p)) = n + 1 /\ DOMAIN Append(a, p) = 1..(n + 1)
        /\ \A i \in DOMAIN a : Append(a, p)[i] = a[i]
        /\ Append(a, p)[n + 1] = p
    BY <2>1, PushFacts
  <2>3. \A i \in 1..n : t[i] = a[i]
    BY <2>1, <2>2
  <2>4. \A i \in 1..n : stack[i].next \in Nat \ {0} /\ a[i].path = stack[i].path
                        /\ a[i].next = IF i = n THEN stack[i].next + 1 ELSE stack[i].next
    BY <1>2, <1>6
  <2>5. n \in Nat /\ DOMAIN stack = 1..n /\ Len(stack) = n
    BY <1>2, <1>6
  <2>6. DOMAIN t = 1..(n + 1) /\ Len(t) = n + 1 /\ t[n + 1] = p
    BY <2>1, <2>2, Zenon
  <2>7. \A i \in 1..n : /\ stack[i].next \in Nat \ {0} /\ t[i].path = stack[i].path
                        /\ t[i].next = IF i = n THEN stack[i].next + 1 ELSE stack[i].next
    BY <2>3, <2>4, Zenon
  <2> QED
    BY <2>1, <2>5, <2>6, <2>7, Zenon
<1>8. /\ \A i \in 1..n : WayTo(t, i) = WayTo(stack, i) /\ Lim(t, i) = Lim(stack, i)
      /\ Lim(t, n + 1) = 1
  BY <1>7, FramesUnder
<1>9. \A f \in DOMAIN disk : f \in DOMAIN e /\ e[f] = disk[f]
  BY <1>3 DEF DiskGrows
<1>10. \A i \in DOMAIN stack : FileAt(WayTo(stack, i)) \in DOMAIN disk
  BY StackWay DEF Shape
<1>11. Walked(t, e, layers, pairs)
  BY <1>1, <1>5, <1>7, <1>8, <1>9, <1>10, WalkPush
<1> QED
  BY <1>3, <1>11

\* A frame is popped: a way is added to the tour, and its pairs to the list.
LEMMA WalkPop ==
  ASSUME Shape, Walked(stack, disk, layers, pairs), stack # <<>>,
         stack[Len(stack)].next = Len(Includes(stack[Len(stack)].path)) + 1
  PROVE  \A f : f = FileOf(stack[Len(stack)].path) =>
           Walked(SubSeq(stack, 1, Len(stack) - 1), disk, Append(layers, Layer(disk[f], f)), Cat(pairs, PairsOf(f)))
<1> SUFFICES \A f : f = FileOf(stack[Len(stack)].path) =>
               \A t, M, Q : t = SubSeq(stack, 1, Len(stack) - 1) /\ M = Append(layers, Layer(disk[f], f))
                              /\ Q = Cat(pairs, PairsOf(f)) => Walked(t, disk, M, Q)
  OBVIOUS
<1> TAKE f
<1>f. HAVE f = FileOf(stack[Len(stack)].path)
<1> TAKE t, M, Q
<1>e. HAVE /\ t = SubSeq(stack, 1, Len(stack) - 1) /\ M = Append(layers, Layer(disk[f], f))
           /\ Q = Cat(pairs, PairsOf(f))
<1>n. PICK n : n = Len(stack)
  OBVIOUS
<1>l. stack[n].next = Len(Includes(stack[n].path)) + 1 /\ f = FileOf(stack[n].path) /\ t = SubSeq(stack, 1, n - 1)
  BY <1>f, <1>e, <1>n
<1>1. PICK W, E : Tour(W, stack, disk, layers) /\ Listed(W, E, disk, pairs)
  BY DEF Walked
<1>2. /\ n \in Nat \ {0} /\ DOMAIN stack = 1..n /\ n \in DOMAIN stack /\ Len(stack) = n
      /\ IsSeq(t) /\ Len(t) = n - 1 /\ DOMAIN t = 1..(n - 1)
      /\ \A i \in 1..(n - 1) : t[i] = stack[i]
      /\ \A i \in 1..n : stack[i].next \in Nat \ {0}
  <2>1. stack \in Seq(Frame)
    BY DEF Shape, StackInv
  <2>2. /\ t \in Seq(Frame) /\ Len(t) = n - 1 /\ DOMAIN t = 1..(n - 1)
        /\ DOMAIN stack = 1..n /\ n \in Nat \ {0} /\ n \in DOMAIN stack
        /\ \A i \in 1..(n - 1) : t[i] = stack[i]
    BY <1>n, <1>l, <2>1, PopFacts
  <2>3. IsSeq(t) /\ \A i \in DOMAIN stack : stack[i] \in Frame
    BY <2>1, <2>2, OwnRange
  <2>4. \A g \in Frame : g.next \in Nat \ {0}
    BY DEF Frame
  <2>5. Len(stack) = n
    BY <1>n
  <2> QED
    BY <2>2, <2>3, <2>4, <2>5, Zenon
<1>3. PICK top : top = WayTo(stack, n)
  OBVIOUS
<1>4. /\ IsWay(top, disk) /\ Fine(top, disk) /\ Len(top) = n /\ DOMAIN top = 1..n
      /\ \A m \in 1..n : top[m] = [path |-> stack[m].path, at |-> AtOf(stack, m)]
      /\ FileAt(top) = f /\ f \in DOMAIN disk
  BY <1>2, <1>3, <1>l, StackWay DEF Shape
<1>5. \A i \in 1..n : \A m \in 1..i : WayTo(stack, i)[m] = top[m]
  <2>1. \A i \in 1..n : \A m \in 1..i : m \in 1..n /\ WayTo(stack, i)[m] = [path |-> stack[m].path, at |-> AtOf(stack, m)]
    BY <1>2 DEF WayTo
  <2> QED
    BY <1>4, <2>1
<1>6. \A m \in 1..n : top[m].at = AtOf(stack, m)
  BY <1>4
<1>7. Known(stack[n].path) /\ IsSeq(disk[f].pairs) /\ disk[f].includes \in Seq(Path)
  BY <1>2, <1>l DEF Shape, StackInv, DiskInv, Known
<1>8. \A k \in DOMAIN disk[f].includes : k \in 1..(stack[n].next - 1)
  <2>1. DOMAIN disk[f].includes = 1..Len(disk[f].includes) /\ Len(disk[f].includes) \in Nat
    BY <1>7, OwnRange
  <2>2. stack[n].next - 1 = Len(disk[f].includes)
    BY <1>l, <2>1 DEF Includes
  <2> QED
    BY <2>1, <2>2
<1>9. n > 1 => top = Child(WayTo(stack, n - 1), disk, stack[n - 1].next - 1)
  BY <1>2, <1>3, StackChild DEF Shape
<1>10. \A i \in 1..(n - 1) : WayTo(t, i) = WayTo(stack, i)
  <2> SUFFICES ASSUME NEW i \in 1..(n - 1) PROVE WayTo(t, i) = WayTo(stack, i)
    OBVIOUS
  <2>1. ASSUME NEW j \in 1..i PROVE t[j].path = stack[j].path /\ AtOf(t, j) = AtOf(stack, j)
    <3>1. j \in 1..(n - 1) /\ (j # 1 => j - 1 \in 1..(n - 1))
      BY <1>2
    <3> QED
      BY <1>2, <3>1 DEF AtOf
  <2> QED
    BY <2>1 DEF WayTo
<1>11. IsSeq(layers) /\ IsSeq(pairs) /\ IsSeq(W)
  BY <1>1 DEF Shape, ListsInv, Tour, TourWays
<1>12. PICK X : X = Append(W, top)
  OBVIOUS
<1>13. Tour(X, t, disk, M)
  <2>1. M = Append(layers, Layer(disk[FileAt(top)], FileAt(top)))
    BY <1>4, <1>e
  <2>2. \A k \in DOMAIN disk[FileAt(top)].includes : k \in 1..(stack[n].next - 1)
    BY <1>4, <1>8
  <2> QED
    <3>1. TourPops(W, stack, disk, layers, n, top, t, X, M)
      BY <1>2, <1>3, <1>4, <1>5, <1>6, <2>2, <1>9, <1>10, <1>11, <1>12, <2>1 DEF TourPops
    <3> QED
      BY <1>1, <3>1, TourPop
<1>14. /\ DOMAIN X = 1..(Len(W) + 1) /\ DOMAIN W = 1..Len(W) /\ Len(W) \in Nat
       /\ (\A i \in DOMAIN W : X[i] = W[i]) /\ X[Len(W) + 1] = top
  BY <1>11, <1>12, GrowFacts
<1>15. \A i \in DOMAIN W : W[i] # top
  <2>1. \A i \in DOMAIN W : i \in DOMAIN X /\ Len(W) + 1 \in DOMAIN X /\ i # Len(W) + 1
    BY <1>14
  <2>2. \A i, j \in DOMAIN X : X[i] = X[j] => i = j
    BY <1>13 DEF Tour, TourOnce
  <2> QED
    BY <1>14, <2>1, <2>2
<1>16. PICK m \in Nat : m = Len(disk[f].pairs)
  BY <1>7, OwnRange DEF IsSeq
<1>17. DOMAIN disk[FileAt(top)].pairs = 1..m
  BY <1>4, <1>7, <1>16, OwnRange DEF IsSeq
<1>18. /\ Len(Q) = Len(pairs) + m
       /\ \A q \in DOMAIN pairs : Q[q] = pairs[q]
       /\ \A k \in 1..m : Q[Len(pairs) + k] = Entry(disk, top, k)
  <2>1. PICK T : T = PairsOf(f)
    OBVIOUS
  <2>2. T = [k \in 1..m |-> [raw |-> disk[f].pairs[k], file |-> f]]
    BY <1>4, <1>17, <2>1 DEF PairsOf
  <2>3. T = [k \in 1..m |-> T[k]] /\ \A k \in 1..m : T[k] = Entry(disk, top, k)
    BY <1>4, <2>2 DEF Entry
  <2>4. IsSeq(T) /\ Len(T) = m /\ DOMAIN T = 1..m
    BY <2>3, TableFacts
  <2>5. IsJoin(Q, pairs, T)
    BY <1>11, <1>e, <2>1, <2>4, JoinFacts
  <2> QED
    BY <2>3, <2>4, <2>5 DEF IsJoin
<1>19. \E F : Listed(X, F, disk, Q)
  <2>1. ListPop(W, pairs, disk, top, m, X, Q)
    BY <1>11, <1>14, <1>15, <1>17, <1>18 DEF ListPop
  <2> QED
    BY <1>1, <2>1, ListedPop
<1> QED
  BY <1>13, <1>19 DEF Walked

\* A file contributes.
LEMMA WalkContribute ==
  ASSUME Shape, WalkInv, Contribute
  PROVE  WalkInv'
<1>1. /\ pc = "walk" /\ stack # <<>> /\ Top.next = Len(Includes(Top.path)) + 1
      /\ Top = stack[Len(stack)]
      /\ layers' = Append(layers, Layer(disk[FileOf(Top.path)], FileOf(Top.path)))
      /\ pairs' = pairs \o PairsOf(FileOf(Top.path))
      /\ stack' = SubSeq(stack, 1, Len(stack) - 1)
      /\ disk' = disk
  BY ContributeSplit DEF PairsOf
<1>2. Walked(stack, disk, layers, pairs)
  BY <1>1 DEF WalkInv, IncludeErrors
<1>3. Walked(stack', disk, layers', pairs')
  <2>1. PICK f : f = FileOf(stack[Len(stack)].path)
    OBVIOUS
  <2>2. Walked(SubSeq(stack, 1, Len(stack) - 1), disk, Append(layers, Layer(disk[f], f)), Cat(pairs, PairsOf(f)))
    BY <1>1, <1>2, <2>1, WalkPop
  <2> QED
    BY <1>1, <2>1, <2>2 DEF Cat
<1> QED
  BY <1>1, <1>3 DEF WalkInv

\* The walk is as it was.
LEMMA WalkKept ==
  ASSUME WalkInv, pc \notin IncludeErrors \/ pc' = pc, UNCHANGED <<stack, disk, layers, pairs>>
  PROVE  WalkInv'
BY DEF WalkInv

-----------------------------------------------------------------------------
(* What was read, what was folded, and what a refusal is for.              *)

\* Every file that was read has contributed or is on the stack.
ReadInv ==
  pc \notin IncludeErrors =>
    \A f \in DOMAIN disk :
      /\ disk[f] # Broken
      /\ \/ \E i \in DOMAIN layers : layers[i].file = f
         \/ \E i \in DOMAIN stack : FileOf(stack[i].path) = f

\* The four ways in which a pair is refused.
Unfit == {"self-comparison", "duplicate name", "duplicate id", "bad label"}

\* What is there at each stage.
EndInv ==
  /\ sources # <<>> => layers # <<>>
  /\ pc = "walk" /\ stack = <<>> => layers # <<>>
  /\ pc = "fold" => layers # <<>> /\ pairs # <<>>
  /\ pc \in {"fold", "resolved"} \cup PairErrors => stack = <<>>
  /\ pc \in {"resolved"} \cup PairErrors /\ layers = <<>> => DOMAIN disk = {}
  /\ pc = "resolved" /\ layers # <<>> =>
       pairs # <<>> /\ Len(pairs) <= MaxPairs /\ Len(resolved) = Len(pairs)

\* A refusal for the pairs is for what is wrong with them.
RefusalInv ==
  layers # <<>> =>
    /\ pc = "no pairs" => pairs = <<>>
    /\ pc = "too many" => Len(pairs) > MaxPairs
    /\ pc \in Unfit => Len(resolved) < Len(pairs)
    /\ pc = "self-comparison" => NextRaw.self
    /\ pc = "duplicate name" => NextRaw.name \in Names
    /\ pc = "duplicate id" => IdOf(NextRaw) \in Ids
    /\ pc = "bad label" => NextRaw.bad

\* A pair as it is folded.
Folded(p, L, c) == WithSettings(p.raw.name, IdOf(p.raw), p.file, FoldSettings(L, Layer(p.raw, p.file), c))

\* The pairs are folded in their order, and told apart.
FoldInv ==
  layers # <<>> =>
    /\ Len(resolved) <= Len(pairs)
    /\ \A k \in DOMAIN resolved : resolved[k] = Folded(pairs[k], layers, cli)
                                  /\ ~pairs[k].raw.self /\ ~pairs[k].raw.bad
    /\ \A j, k \in DOMAIN resolved :
         resolved[j].name = resolved[k].name \/ resolved[j].id = resolved[k].id => j = k

\* A refusal of visit is for a way that is there.
ErrInv ==
  /\ pc = "too deep" => \E w : IsWay(w, disk) /\ Len(w) = MaxDepth + 2
  /\ pc = "cycle" => \E w : /\ IsWay(w, disk) /\ Len(w) <= MaxDepth + 2
                            /\ \E i, j \in DOMAIN w : i # j /\ FileOf(w[i].path) = FileOf(w[j].path)
  /\ pc = "broken" => \E w : /\ IsWay(w, disk) /\ Len(w) <= MaxDepth + 2
                             /\ FileAt(w) \in DOMAIN disk /\ disk[FileAt(w)] = Broken

\* The second part of the invariant of the resolution.
Outcomes == ReadInv /\ EndInv /\ RefusalInv /\ FoldInv /\ ErrInv

\* Nothing is read, nothing refused.
LEMMA OutcomesInit == Init => Outcomes
<1> SUFFICES ASSUME Init PROVE Outcomes
  OBVIOUS
<1>1. pc = "start" /\ stack = <<>> /\ layers = <<>> /\ sources = <<>> /\ DOMAIN disk = {}
  BY DEF Init, ManifestInit
<1> QED
  BY <1>1 DEF Outcomes, ReadInv, EndInv, RefusalInv, FoldInv, ErrInv, IncludeErrors, PairErrors, Unfit

\* The way w goes down v, and then to include k of the file there.
GoesTo(w, v, d, k) ==
  /\ IsWay(w, d) /\ Len(w) = Len(v) + 1 /\ DOMAIN w = 1..(Len(v) + 1)
  /\ \A m \in 1..Len(v) : w[m] = v[m]
  /\ w[Len(v) + 1] = [path |-> d[FileAt(v)].includes[k], at |-> k]

\* There is a way to what a way includes.
LEMMA ChildWay ==
  ASSUME NEW d, NEW v, NEW k, Lists(d), IsWay(v, d), KnownIn(d, v[Len(v)].path),
         k \in DOMAIN d[FileAt(v)].includes
  PROVE  \E w : GoesTo(w, v, d, k)
<1> PICK w : w = Child(v, d, k)
  OBVIOUS
<1>1. \A f \in DOMAIN d : d[f] # Broken => d[f].includes \in Seq(Path)
  BY DEF Lists
<1>2. /\ IsWay(w, d) /\ Len(w) = Len(v) + 1 /\ DOMAIN w = 1..(Len(v) + 1)
      /\ \A m \in 1..Len(v) : w[m] = v[m]
      /\ w[Len(v) + 1] = [path |-> d[FileAt(v)].includes[k], at |-> k]
  BY <1>1, ChildFacts
<1>3. GoesTo(w, v, d, k)
  BY <1>2, Zenon DEF GoesTo
<1> QED
  BY <1>3, Zenon

\* Nothing that was read is read again.
Reread(e) == \A f \in DOMAIN disk : f \in DOMAIN e /\ e[f] = disk[f]

\* The way w goes down the stack, and then to what is included next.
GoesOn(w, e) ==
  /\ IsWay(w, e) /\ Len(w) = Len(stack) + 1 /\ DOMAIN w = 1..(Len(stack) + 1)
  /\ \A m \in DOMAIN stack : w[m].path = stack[m].path
  /\ w[Len(stack) + 1].path = NextPath

\* There is such a way.
LEMMA NextWay ==
  ASSUME Shape, Include, NEW e, Reread(e)
  PROVE  \E w : GoesOn(w, e)
<1>0. \A f \in DOMAIN disk : f \in DOMAIN e /\ e[f] = disk[f]
  BY DEF Reread
<1>1. /\ pc = "walk" /\ stack # <<>>
      /\ Top.next <= Len(Includes(Top.path)) /\ NextPath = Includes(Top.path)[Top.next]
  BY IncludeSplit
<1>2. /\ DOMAIN stack = 1..Len(stack) /\ Len(stack) \in Nat \ {0} /\ Len(stack) \in DOMAIN stack
      /\ \A i \in DOMAIN stack : stack[i].next \in Nat \ {0}
      /\ Top = stack[Len(stack)]
  BY <1>1, AdvancedFacts DEF Shape
<1>3. PICK n : n = Len(stack)
  OBVIOUS
<1>4. PICK k : k = stack[n].next
  OBVIOUS
<1>5. PICK v : v = WayTo(stack, n)
  OBVIOUS
<1>6. /\ IsWay(v, disk) /\ Len(v) = n /\ DOMAIN v = 1..n
      /\ \A m \in 1..n : v[m] = [path |-> stack[m].path, at |-> AtOf(stack, m)]
      /\ FileAt(v) = FileOf(stack[n].path) /\ FileAt(v) \in DOMAIN disk
      /\ Fine(v, disk)
  BY <1>2, <1>3, <1>5, StackWay DEF Shape
<1>7. KnownIn(disk, v[Len(v)].path) /\ disk[FileAt(v)] # Broken
  BY <1>6 DEF Fine, KnownIn, FileAt
<1>8. disk[FileAt(v)].includes \in Seq(Path)
  BY <1>6, <1>7 DEF Shape, DiskInv
<1>9. k \in DOMAIN disk[FileAt(v)].includes /\ NextPath = disk[FileAt(v)].includes[k]
  <2>1. DOMAIN disk[FileAt(v)].includes = 1..Len(disk[FileAt(v)].includes) /\ Len(disk[FileAt(v)].includes) \in Nat
    BY <1>8, OwnRange
  <2>2. k \in Nat \ {0} /\ k <= Len(disk[FileAt(v)].includes) /\ NextPath = disk[FileAt(v)].includes[k]
    BY <1>1, <1>2, <1>3, <1>4, <1>6 DEF Includes
  <2> QED
    BY <2>1, <2>2
<1>10. Lists(disk)
  BY DEF Lists, Shape, DiskInv
<1>w. PICK w : GoesTo(w, v, disk, k)
  BY <1>6, <1>7, <1>9, <1>10, ChildWay, Zenon
<1>11. /\ IsWay(w, disk) /\ Len(w) = Len(v) + 1 /\ DOMAIN w = 1..(Len(v) + 1)
       /\ \A m \in 1..Len(v) : w[m] = v[m]
       /\ w[Len(v) + 1] = [path |-> disk[FileAt(v)].includes[k], at |-> k]
  BY <1>w, Zenon DEF GoesTo
<1>12. IsWay(w, e)
  BY <1>0, <1>11 DEF IsWay, KnownIn
<1>13. \A m \in 1..n : w[m].path = stack[m].path
  BY <1>6, <1>11
<1>14. w[n + 1].path = NextPath
  BY <1>6, <1>9, <1>11
<1>15. GoesOn(w, e)
  BY <1>2, <1>3, <1>6, <1>11, <1>12, <1>13, <1>14, Zenon DEF GoesOn
<1> QED
  BY <1>15, Zenon

\* What a call of visit refuses is on a way.
LEMMA IncludeRefused ==
  ASSUME Shape, Include
  PROVE  ErrInv'
<1>1. pc = "walk" /\ stack # <<>> /\ Visit(NextPath, Advanced) /\ NextPath \in Path
  BY IncludeSplit
<1>2. /\ Len(Advanced) = Len(stack) /\ DOMAIN Advanced = DOMAIN stack
      /\ DOMAIN stack = 1..Len(stack) /\ Len(stack) \in Nat \ {0}
      /\ \A i \in DOMAIN stack : Advanced[i].path = stack[i].path
  BY <1>1, AdvancedFacts DEF Shape
<1>3. /\ DiskGrows
      /\ \/ pc' = "walk"
         \/ pc' = "too deep" /\ TooFar(Advanced)
         \/ pc' = "cycle" /\ OnStack(NextPath, Advanced)
         \/ /\ pc' = "broken" 
            /\ FileOf(NextPath) \in DOMAIN disk' /\ disk'[FileOf(NextPath)] = Broken
  BY <1>1, VisitSplit DEF Shape
<1>e. PICK e : e = disk'
  OBVIOUS
<1>4. Reread(e)
  BY <1>3, <1>e DEF DiskGrows, Reread
<1>5. PICK n : n = Len(stack)
  OBVIOUS
<1>w. PICK w : GoesOn(w, e)
  BY <1>4, NextWay, Zenon
<1>6. /\ IsWay(w, e) /\ Len(w) = n + 1 /\ DOMAIN w = 1..(n + 1)
      /\ \A m \in 1..n : w[m].path = stack[m].path
      /\ w[n + 1].path = NextPath
  BY <1>2, <1>5, <1>w, Zenon DEF GoesOn
<1>7. n \in Nat \ {0} /\ n <= MaxDepth + 1 /\ MaxDepth \in Nat
  BY <1>2, <1>5, CapsAssumption DEF Shape, StackInv
<1>8. Len(w) <= MaxDepth + 2
  BY <1>6, <1>7
<1>9. CASE pc' = "walk"
  BY <1>9 DEF ErrInv
<1>10. CASE pc' = "too deep" /\ TooFar(Advanced)
  <2>1. n > MaxDepth
    BY <1>2, <1>5, <1>10 DEF TooFar
  <2>2. Len(w) = MaxDepth + 2
    BY <1>6, <1>7, <2>1
  <2> QED
    BY <1>e, <1>6, <1>10, <2>2 DEF ErrInv
<1>11. CASE pc' = "cycle" /\ OnStack(NextPath, Advanced)
  <2>1. PICK i \in DOMAIN Advanced : FileOf(Advanced[i].path) = FileOf(NextPath)
    BY <1>11 DEF OnStack
  <2>2. i \in 1..n /\ FileOf(stack[i].path) = FileOf(NextPath)
    BY <1>2, <1>5, <2>1
  <2>3. i \in DOMAIN w /\ n + 1 \in DOMAIN w /\ i # n + 1
    BY <1>6, <1>7, <2>2
  <2>4. FileOf(w[i].path) = FileOf(w[n + 1].path)
    BY <1>6, <2>2
  <2> QED
    BY <1>e, <1>6, <1>8, <1>11, <2>3, <2>4 DEF ErrInv
<1>12. CASE /\ pc' = "broken" 
            /\ FileOf(NextPath) \in DOMAIN disk' /\ disk'[FileOf(NextPath)] = Broken
  <2>1. FileAt(w) = FileOf(NextPath)
    BY <1>6 DEF FileAt
  <2> QED
    BY <1>e, <1>6, <1>8, <1>12, <2>1 DEF ErrInv
<1> QED
  BY <1>3, <1>9, <1>10, <1>11, <1>12

\* Nothing of this is about the run itself.
LEMMA OutcomesKept ==
  ASSUME Outcomes, UNCHANGED manifestVars
  PROVE  Outcomes'
<1>1. UNCHANGED <<pc, cli, disk, stack, layers, pairs, sources, resolved>>
  BY DEF manifestVars
<1>2. ReadInv' /\ EndInv' /\ ErrInv'
  BY <1>1 DEF Outcomes, ReadInv, EndInv, ErrInv
<1>3. RefusalInv'
  BY <1>1 DEF Outcomes, RefusalInv, NextRaw, Names, Ids
<1>4. FoldInv'
  BY <1>1 DEF Outcomes, FoldInv
<1> QED
  BY <1>2, <1>3, <1>4 DEF Outcomes

\* While nothing is resolved and nobody is refused.
LEMMA FoldEmpty ==
  ASSUME pc' = "walk", resolved' = <<>>, IsSeq(pairs')
  PROVE  RefusalInv' /\ FoldInv' /\ ErrInv'
<1> PICK p : p = pairs'
  OBVIOUS
<1>1. DOMAIN <<>> = {} /\ Len(<<>>) = 0 /\ Len(p) \in Nat
  BY EmptyFacts, OwnRange DEF IsSeq
<1>2. 0 <= Len(p)
  BY <1>1
<1> QED
  BY <1>1, <1>2 DEF RefusalInv, FoldInv, ErrInv, Unfit

\* The first call.
LEMMA OutcomesResolve ==
  ASSUME Shape, Outcomes, NEW i \in Invocation, Resolve(i)
  PROVE  Outcomes'
<1>1. /\ pc = "start" /\ stack = <<>> /\ layers = <<>> /\ pairs = <<>> /\ sources = <<>>
      /\ resolved = <<>> /\ DOMAIN disk = {}
  BY DEF Shape, StageInv, Resolve
<1>2. CASE Ambiguous(i)
  <2>1. pc' = "ambiguous" /\ UNCHANGED <<disk, stack, layers, pairs, sources, resolved>>
    BY <1>2 DEF Resolve
  <2> QED
    BY <1>1, <2>1 DEF Outcomes, ReadInv, EndInv, RefusalInv, FoldInv, ErrInv, IncludeErrors, PairErrors, Unfit
<1>3. CASE ~Ambiguous(i)
  <2>1. Visit(Root, <<>>) /\ DiskInv /\ Root \in Path
    BY <1>3, TextAssumption DEF Resolve, Shape
  <2>2. ~TooFar(<<>>) /\ ~OnStack(Root, <<>>)
    <3>1. ~(0 > MaxDepth)
      BY CapsAssumption
    <3> QED
      BY <3>1, EmptyFacts DEF TooFar, OnStack
  <2>3. /\ layers' = <<>> /\ pairs' = <<>> /\ sources' = <<>> /\ resolved' = <<>>
        /\ \A f \in DOMAIN disk' : f = FileOf(Root)
        /\ \/ /\ pc' = "walk" /\ stack' = Append(<<>>, [path |-> Root, next |-> 1])
              /\ disk'[FileOf(Root)] # Broken
           \/ /\ pc' = "broken" /\ stack' = <<>>
              /\ FileOf(Root) \in DOMAIN disk' /\ disk'[FileOf(Root)] = Broken
    BY <1>1, <2>1, <2>2, VisitSplit
  <2>4. CASE pc' = "walk"
    <3> PICK t : t = stack'
      OBVIOUS
    <3> PICK e : e = disk'
      OBVIOUS
    <3>1. DOMAIN t = 1..(0 + 1) /\ t[0 + 1].path = Root
      <4> PICK p : p = [path |-> Root, next |-> 1]
        OBVIOUS
      <4>1. t = Append(<<>>, p) /\ p.path = Root
        BY <2>3, <2>4
      <4> QED
        BY <4>1, EmptyFacts, GrowFacts
    <3>2. 1 \in DOMAIN t /\ t[1].path = Root /\ t # <<>>
      BY <3>1, EmptyFacts
    <3>3. ReadInv'
      BY <2>3, <2>4, <3>2 DEF ReadInv
    <3>4. EndInv'
      BY <2>3, <2>4, <3>2 DEF EndInv, PairErrors
    <3>5. IsSeq(pairs')
      BY <2>3, EmptyFacts
    <3> QED
      BY <2>3, <2>4, <3>3, <3>4, <3>5, FoldEmpty DEF Outcomes
  <2>5. CASE pc' = "broken"
    <3>1. ReadInv' /\ EndInv' /\ RefusalInv' /\ FoldInv'
      BY <2>3, <2>5 DEF ReadInv, EndInv, RefusalInv, FoldInv, IncludeErrors, PairErrors, Unfit
    <3> PICK e : e = disk'
      OBVIOUS
    <3>2. IsWay(RootWay, e) /\ Len(RootWay) <= MaxDepth + 2 /\ FileAt(RootWay) = FileOf(Root)
      <4>1. Len(<<[path |-> Root, at |-> 0]>>) = 1 /\ <<[path |-> Root, at |-> 0]>>[1] = [path |-> Root, at |-> 0]
        OBVIOUS
      <4>2. 1 <= MaxDepth + 2
        BY CapsAssumption
      <4> QED
        BY <4>1, <4>2, RootIsWay DEF RootWay, FileAt
    <3>3. ErrInv'
      <4>1. /\ IsWay(RootWay, disk') /\ Len(RootWay) <= MaxDepth + 2
            /\ FileAt(RootWay) \in DOMAIN disk' /\ disk'[FileAt(RootWay)] = Broken
        BY <2>3, <2>5, <3>2
      <4> QED
        BY <2>5, <4>1 DEF ErrInv
    <3> QED
      BY <3>1, <3>3 DEF Outcomes
  <2> QED
    BY <2>3, <2>4, <2>5
<1> QED
  BY <1>2, <1>3

\* Something more is included.
LEMMA OutcomesInclude ==
  ASSUME Shape, Outcomes, Include
  PROVE  Outcomes'
<1>1. pc = "walk" /\ stack # <<>> /\ Visit(NextPath, Advanced) /\ NextPath \in Path
  BY IncludeSplit
<1>2. /\ Advanced \in Seq(Frame) /\ Len(Advanced) = Len(stack) /\ DOMAIN Advanced = DOMAIN stack
      /\ \A i \in DOMAIN stack : Advanced[i].path = stack[i].path
  BY <1>1, AdvancedFacts DEF Shape
<1>3. /\ layers' = layers /\ pairs' = pairs /\ sources' = sources /\ resolved' = <<>> /\ IsSeq(pairs')
      /\ DiskGrows
      /\ \A f \in DOMAIN disk' : f \in DOMAIN disk \/ f = FileOf(NextPath)
      /\ \/ /\ pc' = "walk" /\ stack' = Append(Advanced, [path |-> NextPath, next |-> 1])
            /\ disk'[FileOf(NextPath)] # Broken
         \/ pc' \in IncludeErrors /\ stack' = stack
  BY <1>1, VisitSplit DEF Shape, StageInv, ListsInv, IncludeErrors
<1>4. ErrInv'
  BY IncludeRefused
<1>5. CASE pc' \in IncludeErrors /\ stack' = stack
  <2>1. ReadInv' /\ EndInv' /\ RefusalInv' /\ FoldInv'
    <3>1. pc' \in {"too deep", "cycle", "broken"}
      BY <1>5 DEF IncludeErrors
    <3>2. ReadInv'
      BY <1>5 DEF ReadInv
    <3>3. EndInv'
      BY <1>3, <3>1 DEF Outcomes, EndInv, PairErrors
    <3>4. RefusalInv'
      BY <3>1 DEF RefusalInv, Unfit
    <3>5. FoldInv'
      <4>1. Len(<<>>) = 0 /\ DOMAIN <<>> = {} /\ Len(pairs) \in Nat
        BY EmptyFacts, OwnRange DEF Shape, ListsInv, IsSeq
      <4>2. 0 <= Len(pairs)
        BY <4>1
      <4> QED
        BY <1>3, <4>1, <4>2 DEF FoldInv
    <3> QED
      BY <3>2, <3>3, <3>4, <3>5
  <2> QED
    BY <1>4, <2>1 DEF Outcomes
<1>6. CASE /\ pc' = "walk" /\ stack' = Append(Advanced, [path |-> NextPath, next |-> 1])
           /\ disk'[FileOf(NextPath)] # Broken
  <2>1. PICK t : t = stack'
    OBVIOUS
  <2>2. PICK n : n = Len(stack)
    OBVIOUS
  <2>3. /\ DOMAIN t = 1..(n + 1) /\ DOMAIN stack = 1..n /\ n \in Nat
        /\ \A i \in DOMAIN stack : t[i].path = stack[i].path
        /\ t[n + 1].path = NextPath
    <3> PICK a : a = Advanced
      OBVIOUS
    <3> PICK p : p = [path |-> NextPath, next |-> 1]
      OBVIOUS
    <3>1. a \in Seq(Frame) /\ p \in Frame /\ t = Append(a, p) /\ p.path = NextPath /\ Len(a) = n /\ DOMAIN a = DOMAIN stack
      BY <1>1, <1>2, <1>6, <2>1, <2>2 DEF Frame
    <3>2. /\ DOMAIN Append(a, p) = 1..(n + 1) /\ DOMAIN a = 1..n /\ n \in Nat
          /\ \A i \in DOMAIN a : Append(a, p)[i] = a[i]
          /\ Append(a, p)[n + 1] = p
      BY <3>1, PushFacts
    <3>3. \A i \in DOMAIN stack : t[i] = a[i]
      BY <3>1, <3>2
    <3>4. \A i \in DOMAIN stack : a[i].path = stack[i].path
      BY <1>2
    <3> QED
      BY <3>1, <3>2, <3>3, <3>4
  <2>4. n + 1 \in DOMAIN t /\ \A i \in DOMAIN stack : i \in DOMAIN t
    BY <2>3
  <2>5. t # <<>>
    BY <2>4, EmptyFacts
  <2>6. ReadInv'
    <3>1. pc \notin IncludeErrors
      BY <1>1 DEF IncludeErrors
    <3> SUFFICES ASSUME NEW f \in DOMAIN disk'
                 PROVE  /\ disk'[f] # Broken
                        /\ \/ \E i \in DOMAIN layers' : layers'[i].file = f
                           \/ \E i \in DOMAIN stack' : FileOf(stack'[i].path) = f
      BY DEF ReadInv
    <3>2. CASE f \in DOMAIN disk
      <4>1. disk'[f] = disk[f]
        BY <1>3, <3>2 DEF DiskGrows
      <4>2. /\ disk[f] # Broken
            /\ \/ \E i \in DOMAIN layers : layers[i].file = f
               \/ \E i \in DOMAIN stack : FileOf(stack[i].path) = f
        BY <3>1, <3>2 DEF Outcomes, ReadInv
      <4> QED
        BY <1>3, <2>1, <2>3, <2>4, <4>1, <4>2
    <3>3. CASE f = FileOf(NextPath)
      BY <1>6, <2>1, <2>3, <2>4, <3>3
    <3> QED
      BY <1>3, <3>2, <3>3
  <2>7. EndInv'
    BY <1>3, <1>6, <2>1, <2>5 DEF Outcomes, EndInv, PairErrors
  <2> QED
    BY <1>3, <1>6, <2>6, <2>7, FoldEmpty DEF Outcomes
<1> QED
  BY <1>3, <1>5, <1>6

\* A file contributes.
LEMMA OutcomesContribute ==
  ASSUME Shape, Outcomes, Contribute
  PROVE  Outcomes'
<1>1. /\ pc = "walk" /\ stack # <<>> /\ Top = stack[Len(stack)]
      /\ layers' = Append(layers, Layer(disk[FileOf(Top.path)], FileOf(Top.path)))
      /\ stack' = SubSeq(stack, 1, Len(stack) - 1)
      /\ pc' = pc /\ disk' = disk /\ resolved' = resolved
  BY ContributeSplit
<1>2. resolved' = <<>> /\ IsSeq(pairs')
  BY <1>1, ShapeContribute DEF Shape, StageInv, ListsInv
<1>3. PICK f : f = FileOf(Top.path)
  OBVIOUS
<1>4. PICK M : M = layers'
  OBVIOUS
<1>5. PICK t : t = stack'
  OBVIOUS
<1>6. /\ DOMAIN M = 1..(Len(layers) + 1) /\ DOMAIN layers = 1..Len(layers) /\ Len(layers) \in Nat
      /\ \A i \in DOMAIN layers : M[i] = layers[i]
      /\ M[Len(layers) + 1].file = f
  <2> PICK l : l = Layer(disk[f], f)
    OBVIOUS
  <2>1. IsSeq(layers) /\ M = Append(layers, l) /\ l.file = f
    BY <1>1, <1>3, <1>4 DEF Shape, ListsInv, Layer
  <2> QED
    BY <2>1, GrowFacts
<1>7. Len(layers) + 1 \in DOMAIN M /\ M # <<>> /\ \A i \in DOMAIN layers : i \in DOMAIN M
  BY <1>6, EmptyFacts
<1>8. /\ DOMAIN t = 1..(Len(stack) - 1) /\ DOMAIN stack = 1..Len(stack) /\ Len(stack) \in Nat \ {0}
      /\ \A i \in 1..(Len(stack) - 1) : t[i] = stack[i]
  BY <1>1, <1>5, PopFacts DEF Shape, StackInv
<1>9. ReadInv'
  <2> SUFFICES ASSUME NEW g \in DOMAIN disk
               PROVE  /\ disk[g] # Broken
                      /\ \/ \E i \in DOMAIN M : M[i].file = g
                         \/ \E i \in DOMAIN t : FileOf(t[i].path) = g
    BY <1>1, <1>4, <1>5 DEF ReadInv
  <2>1. /\ disk[g] # Broken
        /\ \/ \E i \in DOMAIN layers : layers[i].file = g
           \/ \E i \in DOMAIN stack : FileOf(stack[i].path) = g
    BY <1>1 DEF Outcomes, ReadInv, IncludeErrors
  <2>2. CASE \E i \in DOMAIN layers : layers[i].file = g
    BY <1>6, <1>7, <2>1, <2>2
  <2>3. ASSUME NEW i \in DOMAIN stack, FileOf(stack[i].path) = g
        PROVE  \/ \E j \in DOMAIN M : M[j].file = g
               \/ \E j \in DOMAIN t : FileOf(t[j].path) = g
    <3>1. CASE i = Len(stack)
      <4>1. g = f
        BY <1>1, <1>3, <2>3, <3>1
      <4> QED
        BY <1>6, <1>7, <4>1
    <3>2. CASE i # Len(stack)
      <4>1. i \in 1..(Len(stack) - 1)
        BY <1>8, <3>2
      <4> QED
        BY <1>8, <2>3, <4>1
    <3> QED
      BY <3>1, <3>2
  <2> QED
    BY <2>1, <2>2, <2>3
<1>10. EndInv'
  BY <1>1, <1>4, <1>7 DEF EndInv, PairErrors
<1> QED
  BY <1>1, <1>2, <1>9, <1>10, FoldEmpty DEF Outcomes

\* The walk is over.
LEMMA OutcomesGathered ==
  ASSUME Shape, Outcomes, Gathered
  PROVE  Outcomes'
<1>1. /\ pc = "walk" /\ stack = <<>> /\ layers # <<>> /\ resolved = <<>>
      /\ UNCHANGED <<cli, disk, stack, layers, pairs, sources, resolved>>
      /\ \/ pc' = "no pairs" /\ pairs = <<>>
         \/ pc' = "too many" /\ Len(pairs) > MaxPairs
         \/ pc' = "fold" /\ pairs # <<>>
  BY DEF Gathered, Outcomes, EndInv, Shape, StageInv
<1>2. Len(<<>>) = 0 /\ DOMAIN <<>> = {} /\ Len(pairs) \in Nat
  BY EmptyFacts, OwnRange DEF Shape, ListsInv, IsSeq
<1>3. 0 <= Len(pairs)
  BY <1>2
<1>4. ReadInv'
  BY <1>1 DEF Outcomes, ReadInv, IncludeErrors
<1>5. EndInv' /\ ErrInv'
  BY <1>1 DEF Outcomes, EndInv, ErrInv, PairErrors
<1>6. RefusalInv' /\ FoldInv'
  BY <1>1, <1>2, <1>3 DEF RefusalInv, FoldInv, Unfit
<1> QED
  BY <1>4, <1>5, <1>6 DEF Outcomes

\* A pair is folded, or is what the run is refused for.
LEMMA OutcomesFoldPair ==
  ASSUME Shape, Outcomes, FoldPair
  PROVE  Outcomes'
<1>1. /\ pc = "fold" /\ Len(resolved) < Len(pairs)
      /\ UNCHANGED <<cli, disk, stack, layers, pairs, sources>>
      /\ \/ pc' = "self-comparison" /\ NextRaw.self /\ resolved' = resolved
         \/ pc' = "duplicate name" /\ NextRaw.name \in Names /\ resolved' = resolved
         \/ pc' = "duplicate id" /\ IdOf(NextRaw) \in Ids /\ resolved' = resolved
         \/ pc' = "bad label" /\ NextRaw.bad /\ resolved' = resolved
         \/ /\ pc' = pc /\ resolved' = Append(resolved, NextPair)
            /\ ~NextRaw.self /\ ~NextRaw.bad /\ NextRaw.name \notin Names /\ IdOf(NextRaw) \notin Ids
  BY FoldSplit
<1>2. layers # <<>> /\ pairs # <<>> /\ stack = <<>>
  BY <1>1 DEF Outcomes, EndInv
<1>3. pc' \in Unfit \cup {"fold"}
  BY <1>1 DEF Unfit
<1>4. ReadInv' /\ EndInv' /\ ErrInv'
  <2>1. pc \notin IncludeErrors /\ pc' \in Unfit \cup {"fold"}
    BY <1>1, <1>3 DEF IncludeErrors
  <2>2. ReadInv'
    BY <1>1, <2>1 DEF Outcomes, ReadInv
  <2>3. EndInv' /\ ErrInv'
    BY <1>1, <1>2, <2>1 DEF Unfit, Outcomes, EndInv, ErrInv
  <2> QED
    BY <2>2, <2>3
<1>5. CASE resolved' = resolved /\ pc' # pc
  <2>1. NextRaw' = NextRaw /\ Names' = Names /\ Ids' = Ids
    BY <1>1, <1>5 DEF NextRaw, Names, Ids
  <2>2. \/ pc' = "self-comparison" /\ NextRaw'.self
        \/ pc' = "duplicate name" /\ NextRaw'.name \in Names'
        \/ pc' = "duplicate id" /\ IdOf(NextRaw) \in Ids'
        \/ pc' = "bad label" /\ NextRaw'.bad
    BY <1>1, <1>5, <2>1
  <2>3. IdOf(NextRaw)' = IdOf(NextRaw)
    BY <2>1 DEF IdOf
  <2>4. RefusalInv'
    BY <1>1, <1>5, <2>2, <2>3 DEF RefusalInv
  <2>5. FoldInv'
    BY <1>1, <1>5 DEF Outcomes, FoldInv
  <2> QED
    BY <1>4, <2>4, <2>5 DEF Outcomes
<1>6. CASE /\ pc' = pc /\ resolved' = Append(resolved, NextPair)
           /\ ~NextRaw.self /\ ~NextRaw.bad /\ NextRaw.name \notin Names /\ IdOf(NextRaw) \notin Ids
  <2>1. RefusalInv'
    BY <1>1, <1>6 DEF RefusalInv, Unfit
  <2>2. PICK n : n = Len(resolved)
    OBVIOUS
  <2>3. PICK r : r = resolved'
    OBVIOUS
  <2>4. PICK x : x = NextPair
    OBVIOUS
  <2>5. /\ DOMAIN r = 1..(n + 1) /\ DOMAIN resolved = 1..n /\ n \in Nat /\ Len(r) = n + 1
        /\ \A i \in 1..n : r[i] = resolved[i]
        /\ r[n + 1] = x
    BY <1>6, <2>2, <2>3, <2>4, GrowFacts DEF Shape, ListsInv
  <2>6. Len(pairs) \in Nat /\ n < Len(pairs)
    BY <1>1, <2>2, OwnRange DEF Shape, ListsInv, IsSeq
  <2>7. n + 1 <= Len(pairs)
    BY <2>5, <2>6
  <2>8. /\ \A k \in 1..n : /\ resolved[k] = Folded(pairs[k], layers, cli)
                           /\ ~pairs[k].raw.self /\ ~pairs[k].raw.bad
        /\ \A j, k \in 1..n : resolved[j].name = resolved[k].name \/ resolved[j].id = resolved[k].id => j = k
    BY <1>2, <2>5 DEF Outcomes, FoldInv
  <2>9. PICK p : p = pairs[n + 1]
    OBVIOUS
  <2>10. NextRaw = p.raw /\ x = Folded(p, layers, cli)
    BY <2>2, <2>4, <2>9 DEF NextRaw, NextPair, Folded
  <2>11. x.name = p.raw.name /\ x.id = IdOf(p.raw)
    BY <2>10 DEF Folded, WithSettings
  <2>12. \A k \in 1..n : resolved[k].name # x.name /\ resolved[k].id # x.id
    BY <1>6, <2>5, <2>10, <2>11 DEF Names, Ids
  <2>13. \A k \in 1..(n + 1) : k \in 1..n \/ k = n + 1
    BY <2>5
  <2>14. \A k \in 1..(n + 1) : r[k] = Folded(pairs[k], layers, cli)
                              /\ ~pairs[k].raw.self /\ ~pairs[k].raw.bad
    BY <1>6, <2>5, <2>8, <2>9, <2>10, <2>13
  <2>15. \A j, k \in 1..(n + 1) : r[j].name = r[k].name \/ r[j].id = r[k].id => j = k
    BY <2>5, <2>8, <2>12, <2>13
  <2>16. FoldInv'
    BY <1>1, <2>3, <2>5, <2>7, <2>14, <2>15 DEF FoldInv
  <2> QED
    BY <1>4, <2>1, <2>16 DEF Outcomes
<1> QED
  BY <1>1, <1>5, <1>6

\* All are folded.
LEMMA OutcomesResolved ==
  ASSUME Shape, Outcomes, Resolved
  PROVE  Outcomes'
<1>1. /\ pc = "fold" /\ Len(resolved) = Len(pairs) /\ pc' = "resolved"
      /\ UNCHANGED <<cli, disk, stack, layers, pairs, sources, resolved>>
      /\ layers # <<>> /\ pairs # <<>> /\ stack = <<>> /\ Len(pairs) <= MaxPairs
  BY DEF Resolved, Outcomes, EndInv, Shape, StageInv
<1>2. ReadInv' /\ EndInv' /\ ErrInv'
  BY <1>1 DEF Outcomes, ReadInv, EndInv, ErrInv, IncludeErrors, PairErrors
<1>3. RefusalInv' /\ FoldInv'
  BY <1>1 DEF Outcomes, RefusalInv, FoldInv, Unfit
<1> QED
  BY <1>2, <1>3 DEF Outcomes

\* A sweep reads no manifest.
LEMMA OutcomesScan ==
  ASSUME Shape, Outcomes, NEW i \in Invocation, NEW d \in Sweep, ScanDirectories(i, d)
  PROVE  Outcomes'
<1>1. /\ pc = "start" /\ UNCHANGED <<disk, stack, layers, pairs, sources>>
      /\ pc' \in {"self-comparison", "no files", "resolved"}
  BY ScanSplit
<1>2. stack = <<>> /\ layers = <<>> /\ sources = <<>> /\ DOMAIN disk = {}
  BY <1>1 DEF Shape, StageInv
<1>3. ReadInv' /\ EndInv' /\ ErrInv'
  BY <1>1, <1>2 DEF ReadInv, EndInv, ErrInv, PairErrors
<1>4. RefusalInv' /\ FoldInv'
  BY <1>1, <1>2 DEF RefusalInv, FoldInv
<1> QED
  BY <1>3, <1>4 DEF Outcomes

\* Every step keeps what the walk and the fold owe.
LEMMA ResolutionStep ==
  ASSUME Shape, WalkInv, Outcomes, [Next]_vars
  PROVE  WalkInv' /\ Outcomes'
<1>1. CASE \E i \in Invocation : Resolve(i)
  BY <1>1, WalkResolve, OutcomesResolve
<1>2. CASE Include
  BY <1>2, WalkInclude, OutcomesInclude
<1>3. CASE Contribute
  BY <1>3, WalkContribute, OutcomesContribute
<1>4. CASE Gathered
  <2>1. pc \notin IncludeErrors /\ UNCHANGED <<stack, disk, layers, pairs>>
    BY <1>4 DEF Gathered, IncludeErrors
  <2> QED
    BY <1>4, <2>1, WalkKept, OutcomesGathered
<1>5. CASE FoldPair
  <2>1. pc \notin IncludeErrors /\ UNCHANGED <<stack, disk, layers, pairs>>
    BY <1>5, FoldSplit DEF IncludeErrors
  <2> QED
    BY <1>5, <2>1, WalkKept, OutcomesFoldPair
<1>6. CASE Resolved
  <2>1. pc \notin IncludeErrors /\ UNCHANGED <<stack, disk, layers, pairs>>
    BY <1>6 DEF Resolved, IncludeErrors
  <2> QED
    BY <1>6, <2>1, WalkKept, OutcomesResolved
<1>7. CASE \E i \in Invocation, d \in Sweep : ScanDirectories(i, d)
  <2>1. PICK i \in Invocation, d \in Sweep : ScanDirectories(i, d)
    BY <1>7
  <2>2. pc \notin IncludeErrors /\ UNCHANGED <<stack, disk, layers, pairs>>
    BY <2>1, ScanSplit DEF IncludeErrors
  <2> QED
    BY <2>1, <2>2, WalkKept, OutcomesScan
<1>8. CASE UNCHANGED manifestVars
  <2>1. pc' = pc /\ UNCHANGED <<stack, disk, layers, pairs>>
    BY <1>8 DEF manifestVars
  <2> QED
    BY <1>8, <2>1, WalkKept, OutcomesKept
<1>9. CASE BuildFromManifest
  BY <1>1, <1>2, <1>3, <1>4, <1>5, <1>6, <1>9 DEF BuildFromManifest, ManifestNext
<1>10. CASE StartPairs \/ RunGap \/ GapsRun \/ RunPair \/ DuplicateName \/ Abort \/ Finish
  BY <1>8, <1>10 DEF StartPairs, RunGap, GapsRun, RunPair, DuplicateName, Abort, Finish
<1>11. CASE \E c \in DOMAIN store, text \in ConfigText : EditConfig(c, text)
  BY <1>8, <1>11 DEF EditConfig
<1>12. CASE UNCHANGED vars
  BY <1>8, <1>12 DEF vars
<1> QED
  BY <1>7, <1>9, <1>10, <1>11, <1>12 DEF Next

\* The walk has not begun.
LEMMA ResolutionInit == Init => WalkInv /\ Outcomes
<1> SUFFICES ASSUME Init PROVE WalkInv /\ Outcomes
  OBVIOUS
<1>1. stack = <<>> /\ layers = <<>> /\ pairs = <<>>
  BY DEF Init, ManifestInit
<1>2. WalkInv
  BY <1>1, WalkStarts DEF WalkInv
<1> QED
  BY <1>2, OutcomesInit

-----------------------------------------------------------------------------
(* What is accepted meets the rules, and what is refused breaks them.      *)

\* A sequence that is not empty has a length.
LEMMA NonEmpty ==
  ASSUME NEW s, IsSeq(s), s # <<>>
  PROVE  Len(s) \in Nat \ {0}
BY EmptySeq DEF IsSeq

\* The shortest way.
LEMMA RootOnly ==
  ASSUME NEW d, NEW w, IsWay(w, d), Len(w) = 1
  PROVE  w = RootWay
<1>1. w \in Seq(Place) /\ w[1] = [path |-> Root, at |-> 0]
  BY DEF IsWay
<1>2. RootWay \in Seq(Place)
  BY RootIsWay DEF IsWay
<1>3. PICK r : r = RootWay
  OBVIOUS
<1>4. Len(r) = 1 /\ r[1] = w[1]
  <2> PICK p : p = [path |-> Root, at |-> 0]
    OBVIOUS
  <2>1. r = <<p>> /\ w[1] = p
    BY <1>1, <1>3 DEF RootWay
  <2> QED
    BY <2>1
<1>5. \A i \in 1..1 : i = 1
  OBVIOUS
<1>6. \A i \in 1..Len(w) : w[i] = r[i]
  BY <1>4, <1>5
<1> QED
  BY <1>1, <1>2, <1>3, <1>4, <1>6, SeqEqual

\* A tour that is over holds every way.
LEMMA TourComplete ==
  ASSUME NEW W, NEW d, NEW L, Tour(W, <<>>, d, L), W # <<>>
  PROVE  \A w : IsWay(w, d) => \E i \in DOMAIN W : W[i] = w
<1> DEFINE Holds(w) == \E i \in DOMAIN W : W[i] = w
           Done == {n \in Nat : \A w : IsWay(w, d) /\ Len(w) = n => Holds(w)}
<1>1. IsSeq(W) /\ DOMAIN W = 1..Len(W) /\ Len(W) \in Nat
  BY OwnRange DEF Tour, TourWays, IsSeq
<1>2. Len(W) \in DOMAIN W /\ W[Len(W)] = RootWay
  <2>1. Len(W) # 0
    BY <1>1, NonEmpty
  <2> QED
    BY <1>1, <2>1 DEF Tour, TourEnds
<1>3. 0 \in Done
  BY DEF IsWay
<1>4. ASSUME NEW n \in Nat, n \in Done
      PROVE  n + 1 \in Done
  <2> SUFFICES ASSUME NEW w, IsWay(w, d), Len(w) = n + 1 PROVE Holds(w)
    OBVIOUS
  <2>1. CASE n = 0
    <3>1. w = RootWay
      BY <2>1, RootOnly
    <3> QED
      BY <1>2, <3>1
  <2>2. CASE n # 0
    <3>1. Len(w) > 1 /\ Len(w) - 1 = n
      BY <2>2
    <3>2. PICK u : IsUp(u, w, d)
      BY <3>1, WayUp, Zenon
    <3>3. /\ IsWay(u, d) /\ Len(u) = n
          /\ w[Len(w)].at \in DOMAIN d[FileAt(u)].includes /\ w = Child(u, d, w[Len(w)].at)
      BY <3>1, <3>2, Zenon DEF IsUp
    <3>4. PICK i \in DOMAIN W : W[i] = u
      BY <1>4, <3>3
    <3>5. PICK j \in 1..(i - 1) : W[j] = Child(u, d, w[Len(w)].at)
      BY <3>3, <3>4 DEF Tour, TourClosed
    <3>6. j \in DOMAIN W
      BY <1>1
    <3> QED
      BY <3>3, <3>5, <3>6
  <2> QED
    BY <2>1, <2>2
<1> HIDE DEF Done
<1>5. \A n \in Nat : n \in Done
  BY <1>3, <1>4, SetInduction
<1>6. ASSUME NEW w, IsWay(w, d) PROVE Holds(w)
  <2>1. Len(w) \in Nat
    <3>1. w \in Seq(Place)
      BY <1>6 DEF IsWay
    <3> QED
      BY <3>1
  <2> QED
    BY <1>5, <1>6, <2>1 DEF Done
<1> QED
  BY <1>6

\* A list without repetition has as many elements as it is long.
LEMMA ListCounts ==
  ASSUME NEW E, IsSeq(E), ListedOnce(E), NEW S, \A e : e \in S <=> \E q \in DOMAIN E : E[q] = e
  PROVE  Cardinality(S) = Len(E) /\ Len(E) \in Nat
<1>1. DOMAIN E = 1..Len(E) /\ Len(E) \in Nat
  BY OwnRange DEF IsSeq
<1>2. E \in [1..Len(E) -> S]
  <2>1. \A q \in DOMAIN E : E[q] \in S
    OBVIOUS
  <2>2. E = [q \in DOMAIN E |-> E[q]]
    BY DEF IsSeq
  <2> QED
    BY <1>1, <2>1, <2>2
<1>3. E \in Injection(1..Len(E), S)
  BY <1>1, <1>2 DEF Injection, IsInjective, ListedOnce
<1>4. E \in Surjection(1..Len(E), S)
  BY <1>1, <1>2 DEF Surjection
<1>5. ExistsBijection(1..Len(E), S)
  BY <1>3, <1>4 DEF ExistsBijection, Bijection
<1> QED
  BY <1>1, <1>5, FS_CountingElements

\* The ways and the entries of a composition that was read to its end.
CompositionIs(W, E) ==
  /\ \A w : w \in Ways <=> \E i \in DOMAIN W : W[i] = w
  /\ \A i \in DOMAIN W : ~TooDeep(W[i]) /\ ~Cyclic(W[i]) /\ ~Unreadable(W[i]) /\ Read(W[i])
  /\ \A e : e \in Entries <=> \E q \in DOMAIN E : E[q] = e
  /\ DOMAIN E = DOMAIN pairs /\ ListedOnce(E) /\ Cardinality(Entries) = Len(pairs)
  /\ \A q \in DOMAIN pairs : Raw(E[q]) = pairs[q].raw

\* A walk that is over has toured the composition.
LEMMA Composition ==
  ASSUME Shape, NEW W, NEW E, Tour(W, <<>>, disk, layers), Listed(W, E, disk, pairs), layers # <<>>
  PROVE  CompositionIs(W, E)
<1>1. IsSeq(W) /\ Len(W) = Len(layers) /\ IsSeq(layers) /\ W # <<>>
  <2>1. IsSeq(W) /\ Len(W) = Len(layers) /\ IsSeq(layers)
    BY DEF Tour, TourWays, Shape, ListsInv
  <2>2. Len(layers) # 0
    BY <2>1, NonEmpty
  <2> QED
    BY <2>1, <2>2, EmptyFacts
<1>2. \A i \in DOMAIN W : IsWay(W[i], disk) /\ Fine(W[i], disk)
  BY DEF Tour, TourWays
<1>3. \A w : IsWay(w, disk) => \E i \in DOMAIN W : W[i] = w
  BY <1>1, TourComplete
<1>4. \A w : w \in Ways <=> IsWay(w, disk) /\ Len(w) <= MaxDepth + 2
  BY WaysAre DEF Shape
<1>5. ASSUME NEW i \in DOMAIN W
      PROVE  /\ ~TooDeep(W[i]) /\ ~Cyclic(W[i]) /\ ~Unreadable(W[i]) /\ Read(W[i])
             /\ Len(W[i]) <= MaxDepth + 2
  <2>1. PICK w : w = W[i]
    OBVIOUS
  <2>2. Fine(w, disk) /\ IsWay(w, disk)
    BY <1>2, <2>1
  <2>3. w \in Seq(Place) /\ Len(w) <= MaxDepth + 1 /\ MaxDepth \in Nat
    BY <2>2, CapsAssumption DEF Fine, IsWay
  <2>4. Len(w) \in Nat
    BY <2>3
  <2>5. Len(w) # MaxDepth + 2 /\ Len(w) <= MaxDepth + 2
    BY <2>3, <2>4
  <2>6. Read(w) /\ ~Cyclic(w)
    BY <2>2 DEF Fine, Read, KnownIn, Cyclic
  <2> QED
    BY <2>1, <2>5, <2>6 DEF TooDeep, Unreadable
<1>6. \A w : w \in Ways <=> \E i \in DOMAIN W : W[i] = w
  BY <1>2, <1>3, <1>4, <1>5
<1>7. \A w : TextAt(w) = disk[FileAt(w)]
  BY DEF TextAt, FileAt
<1>8. \A e : e \in Entries <=> \E q \in DOMAIN E : E[q] = e
  <2>1. ASSUME NEW e
        PROVE  e \in Entries <=> \E i \in DOMAIN W : \E k \in DOMAIN disk[FileAt(W[i])].pairs : e = <<W[i], k>>
    <3>1. e \in Entries <=> \E w \in Ways : Read(w) /\ e \in {<<w, k>> : k \in DOMAIN TextAt(w).pairs}
      BY DEF Entries
    <3>2. ASSUME NEW w
          PROVE  e \in {<<w, k>> : k \in DOMAIN TextAt(w).pairs}
                   <=> \E k \in DOMAIN disk[FileAt(w)].pairs : e = <<w, k>>
      BY <1>7
    <3> QED
      BY <1>5, <1>6, <3>1, <3>2
  <2>2. \A i \in DOMAIN W : \A k \in DOMAIN disk[FileAt(W[i])].pairs : \E q \in DOMAIN E : E[q] = <<W[i], k>>
    BY DEF Listed, ListedAll
  <2>3. \A q \in DOMAIN E : \E i \in DOMAIN W : \E k \in DOMAIN disk[FileAt(W[i])].pairs : E[q] = <<W[i], k>>
    BY DEF Listed, ListedIn
  <2> QED
    BY <2>1, <2>2, <2>3
<1>9. DOMAIN E = DOMAIN pairs /\ Len(E) = Len(pairs) /\ ListedOnce(E) /\ IsSeq(E)
  <2>1. Len(E) = Len(pairs) /\ ListedOnce(E) /\ IsSeq(E) /\ IsSeq(pairs)
    BY DEF Listed, Shape, ListsInv
  <2> QED
    BY <2>1, OwnRange DEF IsSeq
<1>10. Cardinality(Entries) = Len(pairs)
  BY <1>8, <1>9, ListCounts
<1>11. ASSUME NEW q \in DOMAIN pairs PROVE Raw(E[q]) = pairs[q].raw
  <2>1. PICK i \in DOMAIN W : \E k \in DOMAIN disk[FileAt(W[i])].pairs :
          E[q] = <<W[i], k>> /\ pairs[q] = Entry(disk, W[i], k)
    BY <1>9 DEF Listed, ListedIn
  <2>2. PICK k \in DOMAIN disk[FileAt(W[i])].pairs : E[q] = <<W[i], k>> /\ pairs[q] = Entry(disk, W[i], k)
    BY <2>1
  <2>3. E[q][1] = W[i] /\ E[q][2] = k
    BY <2>2
  <2>4. Raw(E[q]) = disk[FileAt(W[i])].pairs[k]
    BY <1>7, <2>3 DEF Raw
  <2> QED
    BY <2>2, <2>4 DEF Entry
<1> QED
  BY <1>5, <1>6, <1>8, <1>9, <1>10, <1>11 DEF CompositionIs

\* What was accepted is fit.
LEMMA AcceptedFit ==
  ASSUME Shape, Outcomes, NEW W, NEW E, CompositionIs(W, E), layers # <<>>, pc = "resolved"
  PROVE  ~BadPairs
<1>1. pairs # <<>> /\ Len(pairs) <= MaxPairs /\ Len(resolved) = Len(pairs)
  BY DEF Outcomes, EndInv
<1>2. /\ DOMAIN pairs = 1..Len(pairs) /\ Len(pairs) \in Nat /\ DOMAIN resolved = 1..Len(resolved)
      /\ Len(pairs) # 0
  BY <1>1, OwnRange, NonEmpty DEF Shape, ListsInv, IsSeq
<1>3. 1 \in DOMAIN pairs /\ DOMAIN resolved = DOMAIN pairs
  BY <1>1, <1>2
<1>4. /\ \A e : e \in Entries <=> \E q \in DOMAIN pairs : E[q] = e
      /\ ListedOnce(E) /\ Cardinality(Entries) = Len(pairs)
      /\ \A q \in DOMAIN pairs : Raw(E[q]) = pairs[q].raw
  BY DEF CompositionIs
<1>5. Entries # {} /\ ~(Cardinality(Entries) > MaxPairs)
  <2>1. E[1] \in Entries
    BY <1>3, <1>4
  <2>2. ~(Len(pairs) > MaxPairs)
    BY <1>1, <1>2, CapsAssumption
  <2> QED
    BY <1>4, <2>1, <2>2
<1>6. ASSUME NEW q \in DOMAIN pairs
      PROVE  /\ ~pairs[q].raw.self /\ ~pairs[q].raw.bad
             /\ resolved[q].name = pairs[q].raw.name /\ resolved[q].id = IdOf(pairs[q].raw)
  <2>1. resolved[q] = Folded(pairs[q], layers, cli) /\ ~pairs[q].raw.self /\ ~pairs[q].raw.bad
    BY <1>3 DEF Outcomes, FoldInv
  <2> QED
    BY <2>1 DEF Folded, WithSettings
<1>7. \A j, k \in DOMAIN pairs :
        resolved[j].name = resolved[k].name \/ resolved[j].id = resolved[k].id => j = k
  BY <1>3 DEF Outcomes, FoldInv
<1>8. \A e \in Entries : ~Raw(e).self /\ ~Raw(e).bad
  BY <1>4, <1>6
<1>9. ASSUME NEW e \in Entries, NEW f \in Entries, e # f
      PROVE  Raw(e).name # Raw(f).name /\ IdOf(Raw(e)) # IdOf(Raw(f))
  <2>1. PICK q \in DOMAIN pairs : E[q] = e
    BY <1>4
  <2>2. PICK r \in DOMAIN pairs : E[r] = f
    BY <1>4
  <2>3. q # r /\ Raw(e) = pairs[q].raw /\ Raw(f) = pairs[r].raw
    BY <1>4, <1>9, <2>1, <2>2
  <2> QED
    BY <1>6, <1>7, <2>3
<1> QED
  BY <1>5, <1>8, <1>9 DEF BadPairs

\* What was refused for its pairs is not.
LEMMA RefusedUnfit ==
  ASSUME Shape, Outcomes, NEW W, NEW E, CompositionIs(W, E), layers # <<>>, pc \in PairErrors
  PROVE  BadPairs
<1>1. /\ \A e : e \in Entries <=> \E q \in DOMAIN pairs : E[q] = e
      /\ ListedOnce(E) /\ Cardinality(Entries) = Len(pairs) /\ DOMAIN E = DOMAIN pairs
      /\ \A q \in DOMAIN pairs : Raw(E[q]) = pairs[q].raw
  BY DEF CompositionIs
<1>2. CASE pc = "no pairs"
  <2>1. pairs = <<>>
    BY <1>2 DEF Outcomes, RefusalInv
  <2>2. Entries = {}
    BY <1>1, <2>1, EmptyFacts
  <2> QED
    BY <2>2 DEF BadPairs
<1>3. CASE pc = "too many"
  BY <1>1, <1>3 DEF Outcomes, RefusalInv, BadPairs
<1>4. CASE pc \in Unfit
  <2>1. PICK n : n = Len(resolved)
    OBVIOUS
  <2>2. /\ n < Len(pairs) /\ DOMAIN resolved = 1..n /\ n \in Nat
        /\ DOMAIN pairs = 1..Len(pairs) /\ Len(pairs) \in Nat
    BY <1>4, <2>1, OwnRange DEF Outcomes, RefusalInv, Shape, ListsInv, IsSeq
  <2>3. n + 1 \in DOMAIN pairs /\ \A j \in DOMAIN resolved : j \in DOMAIN pairs /\ j # n + 1
    BY <2>2
  <2>4. PICK f : f = E[n + 1]
    OBVIOUS
  <2>5. f \in Entries /\ Raw(f) = NextRaw
    BY <1>1, <2>1, <2>3, <2>4 DEF NextRaw
  <2>6. ASSUME NEW j \in DOMAIN resolved
        PROVE  \E e \in Entries : e # f /\ Raw(e).name = resolved[j].name /\ IdOf(Raw(e)) = resolved[j].id
    <3>1. E[j] \in Entries /\ Raw(E[j]) = pairs[j].raw
      BY <1>1, <2>3
    <3>2. E[j] # f
      BY <1>1, <2>3, <2>4 DEF ListedOnce
    <3>3. resolved[j] = Folded(pairs[j], layers, cli)
      BY DEF Outcomes, FoldInv
    <3>4. resolved[j].name = pairs[j].raw.name /\ resolved[j].id = IdOf(pairs[j].raw)
      BY <3>3 DEF Folded, WithSettings
    <3> QED
      BY <3>1, <3>2, <3>4
  <2>7. \/ NextRaw.self \/ NextRaw.bad
        \/ \E j \in DOMAIN resolved : NextRaw.name = resolved[j].name
        \/ \E j \in DOMAIN resolved : IdOf(NextRaw) = resolved[j].id
    BY <1>4 DEF Outcomes, RefusalInv, Unfit, Names, Ids
  <2>8. CASE NextRaw.self \/ NextRaw.bad
    BY <2>5, <2>8 DEF BadPairs
  <2>9. CASE \E j \in DOMAIN resolved : NextRaw.name = resolved[j].name
    <3>1. PICK j \in DOMAIN resolved : NextRaw.name = resolved[j].name
      BY <2>9
    <3> QED
      BY <2>5, <2>6, <3>1 DEF BadPairs
  <2>10. CASE \E j \in DOMAIN resolved : IdOf(NextRaw) = resolved[j].id
    <3>1. PICK j \in DOMAIN resolved : IdOf(NextRaw) = resolved[j].id
      BY <2>10
    <3> QED
      BY <2>5, <2>6, <3>1 DEF BadPairs
  <2> QED
    BY <2>7, <2>8, <2>9, <2>10
<1> QED
  BY <1>2, <1>3, <1>4 DEF PairErrors, Unfit

\* A sweep composes nothing.
LEMMA NothingRead ==
  ASSUME Shape, DOMAIN disk = {}
  PROVE  BadPairs /\ \A w \in Ways : ~TooDeep(w) /\ ~Cyclic(w) /\ ~Unreadable(w)
<1>1. ASSUME NEW w \in Ways
      PROVE  ~TooDeep(w) /\ ~Cyclic(w) /\ ~Unreadable(w)
  <2>1. IsWay(w, disk)
    BY <1>1, WaysAre DEF Shape
  <2>2. w \in Seq(Place) /\ Len(w) >= 1 /\ \A m \in 1..(Len(w) - 1) : FALSE
    BY <2>1 DEF IsWay, KnownIn
  <2>3. Len(w) \in Nat /\ DOMAIN w = 1..Len(w)
    BY <2>2
  <2>4. Len(w) = 1
    <3>1. Len(w) # 1 => 1 \in 1..(Len(w) - 1)
      BY <2>2, <2>3
    <3> QED
      BY <2>2, <3>1
  <2>5. \A i, j \in DOMAIN w : i = j
    BY <2>3, <2>4
  <2>6. 1 # MaxDepth + 2
    BY CapsAssumption
  <2> QED
    BY <2>4, <2>5, <2>6 DEF TooDeep, Cyclic, Unreadable
<1>2. Entries = {}
  <2>1. \A w : ~Read(w)
    BY DEF Read
  <2> QED
    BY <2>1 DEF Entries
<1> QED
  BY <1>1, <1>2 DEF BadPairs

\* A way of the length at which visit gives up.
LEMMA LongestWay ==
  ASSUME Shape, NEW w, IsWay(w, disk), Len(w) = MaxDepth + 2
  PROVE  w \in Ways
<1> PICK n \in Nat : n = MaxDepth + 2
  BY CapsAssumption
<1>1. Len(w) = n /\ n <= n
  OBVIOUS
<1>2. Len(w) <= MaxDepth + 2
  BY <1>1
<1> QED
  BY <1>2, WaysAre DEF Shape

\* The invariant says what AcceptsExactly does.
LEMMA Accepts ==
  ASSUME Shape, WalkInv, Outcomes
  PROVE  AcceptsExactly
<1>1. pc = "too deep" => \E w \in Ways : TooDeep(w)
  <2> SUFFICES ASSUME pc = "too deep" PROVE \E w \in Ways : TooDeep(w)
    OBVIOUS
  <2>1. PICK w : IsWay(w, disk) /\ Len(w) = MaxDepth + 2
    BY DEF Outcomes, ErrInv
  <2>2. w \in Ways
    BY <2>1, LongestWay
  <2> QED
    BY <2>1, <2>2 DEF TooDeep
<1>2. pc = "cycle" => \E w \in Ways : Cyclic(w)
  <2> SUFFICES ASSUME pc = "cycle" PROVE \E w \in Ways : Cyclic(w)
    OBVIOUS
  <2>1. PICK w : /\ IsWay(w, disk) /\ Len(w) <= MaxDepth + 2
                 /\ \E i, j \in DOMAIN w : i # j /\ FileOf(w[i].path) = FileOf(w[j].path)
    BY DEF Outcomes, ErrInv
  <2>2. w \in Ways
    BY <2>1, WaysAre DEF Shape
  <2> QED
    BY <2>1, <2>2 DEF Cyclic
<1>3. pc = "broken" => \E w \in Ways : Unreadable(w)
  <2> SUFFICES ASSUME pc = "broken" PROVE \E w \in Ways : Unreadable(w)
    OBVIOUS
  <2>1. PICK w : /\ IsWay(w, disk) /\ Len(w) <= MaxDepth + 2
                 /\ FileAt(w) \in DOMAIN disk /\ disk[FileAt(w)] = Broken
    BY DEF Outcomes, ErrInv
  <2>2. w \in Ways
    BY <2>1, WaysAre DEF Shape
  <2> QED
    BY <2>1, <2>2 DEF Unreadable, Read, FileAt
<1>4. ASSUME layers # <<>>, pc \in {"resolved"} \cup PairErrors
      PROVE  \E W, E : CompositionIs(W, E)
  <2>1. stack = <<>> /\ pc \notin IncludeErrors
    BY <1>4 DEF Outcomes, EndInv, PairErrors, IncludeErrors
  <2>2. PICK W, E : Tour(W, <<>>, disk, layers) /\ Listed(W, E, disk, pairs)
    BY <2>1 DEF WalkInv, Walked
  <2>3. CompositionIs(W, E)
    BY <1>4, <2>2, Composition
  <2> QED
    BY <2>3
<1>5. ASSUME NEW W, NEW E, CompositionIs(W, E)
      PROVE  \A w \in Ways : ~TooDeep(w) /\ ~Cyclic(w) /\ ~Unreadable(w)
  BY <1>5 DEF CompositionIs
<1>6. pc = "resolved" /\ sources # <<>> =>
        (\A w \in Ways : ~TooDeep(w) /\ ~Cyclic(w) /\ ~Unreadable(w)) /\ ~BadPairs
  <2> SUFFICES ASSUME pc = "resolved", sources # <<>>
               PROVE  (\A w \in Ways : ~TooDeep(w) /\ ~Cyclic(w) /\ ~Unreadable(w)) /\ ~BadPairs
    OBVIOUS
  <2>1. layers # <<>>
    BY DEF Outcomes, EndInv
  <2>2. PICK W, E : CompositionIs(W, E)
    BY <1>4, <2>1
  <2> QED
    BY <1>5, <2>1, <2>2, AcceptedFit
<1>7. pc \in PairErrors =>
        (\A w \in Ways : ~TooDeep(w) /\ ~Cyclic(w) /\ ~Unreadable(w)) /\ BadPairs
  <2> SUFFICES ASSUME pc \in PairErrors
               PROVE  (\A w \in Ways : ~TooDeep(w) /\ ~Cyclic(w) /\ ~Unreadable(w)) /\ BadPairs
    OBVIOUS
  <2>1. CASE layers # <<>>
    <3>1. PICK W, E : CompositionIs(W, E)
      BY <1>4, <2>1
    <3> QED
      BY <1>5, <2>1, <3>1, RefusedUnfit
  <2>2. CASE layers = <<>>
    <3>1. DOMAIN disk = {}
      BY <2>2 DEF Outcomes, EndInv
    <3> QED
      BY <3>1, NothingRead
  <2> QED
    BY <2>1, <2>2
<1> QED
  BY <1>1, <1>2, <1>3, <1>6, <1>7 DEF AcceptsExactly

\* A manifest is refused exactly when the composition is unsound.
THEOREM AcceptedExactly == Spec => []AcceptsExactly
<1>1. Init => Shape /\ WalkInv /\ Outcomes
  BY ShapeInit, ResolutionInit
<1>2. Shape /\ WalkInv /\ Outcomes /\ [Next]_vars => (Shape /\ WalkInv /\ Outcomes)'
  BY ShapeStep, ResolutionStep
<1>3. Shape /\ WalkInv /\ Outcomes => AcceptsExactly
  BY Accepts
<1> QED
  BY <1>1, <1>2, <1>3, PTL DEF Spec

-----------------------------------------------------------------------------
(* The settings: who wins, and who cannot be outvoted.                     *)

\* A set of numbers that is bounded has a greatest.
LEMMA Greatest ==
  ASSUME NEW n \in Nat, NEW S, S \subseteq 1..n, S # {}
  PROVE  \E i \in S : \A j \in S : j <= i
<1> DEFINE Done == {m \in Nat : \A T : T \subseteq 1..m /\ T # {} => \E i \in T : \A j \in T : j <= i}
<1>1. 0 \in Done
  BY DEF Done
<1>2. ASSUME NEW m \in Nat, m \in Done
      PROVE  m + 1 \in Done
  <2> SUFFICES ASSUME NEW T, T \subseteq 1..(m + 1), T # {} PROVE \E i \in T : \A j \in T : j <= i
    OBVIOUS
  <2>1. CASE m + 1 \in T
    <3>1. \A j \in T : j <= m + 1
      OBVIOUS
    <3> QED
      BY <2>1, <3>1
  <2>2. CASE m + 1 \notin T
    <3>1. \A j \in T : j \in 1..m
      BY <2>2
    <3> QED
      BY <1>2, <3>1
  <2> QED
    BY <2>1, <2>2
<1> HIDE DEF Done
<1>3. n \in Done
  BY <1>1, <1>2, SetInduction
<1> QED
  BY <1>3 DEF Done

\* A set of numbers has a least.
LEMMA Least ==
  ASSUME NEW n \in Nat, NEW S, S \subseteq 1..n, S # {}
  PROVE  \E i \in S : \A j \in S : i <= j
<1> DEFINE T == {(n + 1) - i : i \in S}
<1>1. T \subseteq 1..n /\ T # {}
  <2>1. \A i \in 1..n : (n + 1) - i \in 1..n
    OBVIOUS
  <2> QED
    BY <2>1
<1>2. PICK t \in T : \A j \in T : j <= t
  <2> HIDE DEF T
  <2> QED
    BY <1>1, Greatest
<1>3. PICK i \in S : t = (n + 1) - i
  OBVIOUS
<1>4. ASSUME NEW j \in S PROVE i <= j
  <2>1. (n + 1) - j <= (n + 1) - i
    BY <1>2, <1>3
  <2> QED
    BY <2>1
<1> QED
  BY <1>4

\* A valued setting is what the last layer that sets it says.
Wins(chain, of, base, s) ==
  \/ s = base /\ \A k \in DOMAIN chain : chain[k][of] = None
  \/ \E l \in DOMAIN chain : /\ chain[l][of] # None
                             /\ \A k \in DOMAIN chain : chain[k][of] # None => k <= l
                             /\ s = Sourced(chain[l][of], chain[l].file)

\* LastWriter is by the last layer that sets the value.
LEMMA LastWins ==
  ASSUME NEW chain, IsSeq(chain), NEW of, NEW base, NEW s, s = LastWriter(base, chain, of)
  PROVE  Wins(chain, of, base, s)
<1> SUFFICES \/ s = base /\ \A k \in DOMAIN chain : chain[k][of] = None
             \/ \E l \in DOMAIN chain : /\ chain[l][of] # None
                                        /\ \A k \in DOMAIN chain : chain[k][of] # None => k <= l
                                        /\ s = Sourced(chain[l][of], chain[l].file)
  BY DEF Wins
<1> DEFINE set == {k \in DOMAIN chain : chain[k][of] # None}
           last == CHOOSE k \in set : \A j \in set : j <= k
<1>1. s = IF set = {} THEN base ELSE Sourced(chain[last][of], chain[last].file)
  BY DEF LastWriter
<1>2. set \subseteq 1..Len(chain) /\ Len(chain) \in Nat
  BY OwnRange DEF IsSeq
<1>3. CASE set = {}
  BY <1>1, <1>3
<1>4. CASE set # {}
  <2>1. last \in set /\ \A j \in set : j <= last
    <3>1. \E k \in set : \A j \in set : j <= k
      <4> HIDE DEF set
      <4> QED
        BY <1>2, <1>4, Greatest
    <3> HIDE DEF set
    <3> QED
      BY <3>1
  <2>2. s = Sourced(chain[last][of], chain[last].file)
    BY <1>1, <1>4
  <2> HIDE DEF last
  <2> QED
    BY <2>1, <2>2
<1> QED
  BY <1>3, <1>4

\* An escalation is on when the command line or some layer turns it on.
Escalates(chain, c, s) ==
  \/ c /\ s = Sourced(TRUE, "cli")
  \/ ~c /\ s = Sourced(FALSE, "built-in") /\ \A k \in DOMAIN chain : chain[k].strict # TRUE
  \/ ~c /\ \E l \in DOMAIN chain : chain[l].strict = TRUE /\ s = Sourced(TRUE, chain[l].file)

\* Escalate is by the command line or by a layer.
LEMMA SomeEscalates ==
  ASSUME NEW chain, IsSeq(chain), NEW c \in BOOLEAN, NEW s, s = Escalate(c, chain)
  PROVE  Escalates(chain, c, s)
<1> SUFFICES \/ c /\ s = Sourced(TRUE, "cli")
             \/ ~c /\ s = Sourced(FALSE, "built-in") /\ \A k \in DOMAIN chain : chain[k].strict # TRUE
             \/ ~c /\ \E l \in DOMAIN chain : chain[l].strict = TRUE /\ s = Sourced(TRUE, chain[l].file)
  BY DEF Escalates
<1> DEFINE on == {k \in DOMAIN chain : chain[k].strict = TRUE}
           first == CHOOSE k \in on : \A j \in on : k <= j
<1>1. s = IF c THEN Sourced(TRUE, "cli")
          ELSE IF on = {} THEN Sourced(FALSE, "built-in") ELSE Sourced(TRUE, chain[first].file)
  BY DEF Escalate
<1>2. on \subseteq 1..Len(chain) /\ Len(chain) \in Nat
  BY OwnRange DEF IsSeq
<1>3. CASE c \/ on = {}
  BY <1>1, <1>3
<1>4. CASE ~c /\ on # {}
  <2>1. first \in on
    <3>1. \E k \in on : \A j \in on : k <= j
      <4> HIDE DEF on
      <4> QED
        BY <1>2, <1>4, Least
    <3> HIDE DEF on
    <3> QED
      BY <3>1
  <2>2. s = Sourced(TRUE, chain[first].file)
    BY <1>1, <1>4
  <2> HIDE DEF first
  <2> QED
    BY <1>4, <2>1, <2>2
<1> QED
  BY <1>3, <1>4

\* What a way passes contributes after the way.
Later(W, w) ==
  \A m \in 1..(Len(w) - 1) : \E a, b \in DOMAIN W : W[b] = w /\ b < a /\ FileAt(W[a]) = FileOf(w[m].path)

\* In a tour that is over, every way comes before what it passes.
LEMMA AboveLater ==
  ASSUME NEW W, NEW d, NEW L, Tour(W, <<>>, d, L), W # <<>>
  PROVE  \A w : IsWay(w, d) => Later(W, w)
<1> DEFINE Done == {n \in Nat : \A w : IsWay(w, d) /\ Len(w) = n => Later(W, w)}
<1>1. IsSeq(W) /\ DOMAIN W = 1..Len(W) /\ Len(W) \in Nat
  BY OwnRange DEF Tour, TourWays, IsSeq
<1>2. TourClosed(W, d) /\ TourOnce(W) /\ \A w : IsWay(w, d) => \E i \in DOMAIN W : W[i] = w
  BY TourComplete DEF Tour
<1>3. 0 \in Done
  BY DEF IsWay
<1>4. ASSUME NEW n \in Nat, n \in Done
      PROVE  n + 1 \in Done
  <2> SUFFICES ASSUME NEW w, IsWay(w, d), Len(w) = n + 1, NEW m \in 1..(Len(w) - 1)
               PROVE  \E a, b \in DOMAIN W : W[b] = w /\ b < a /\ FileAt(W[a]) = FileOf(w[m].path)
    BY DEF Later
  <2>1. Len(w) > 1 /\ Len(w) - 1 = n /\ m \in 1..n
    OBVIOUS
  <2>2. PICK u : IsUp(u, w, d)
    BY <2>1, WayUp, Zenon
  <2>3. /\ IsWay(u, d) /\ Len(u) = n /\ \A k \in 1..n : u[k] = w[k]
        /\ w[Len(w)].at \in DOMAIN d[FileAt(u)].includes /\ w = Child(u, d, w[Len(w)].at)
    BY <2>1, <2>2, Zenon DEF IsUp
  <2>4. PICK i \in DOMAIN W : W[i] = u
    BY <1>2, <2>3
  <2>5. PICK b \in 1..(i - 1) : W[b] = w
    BY <1>2, <2>3, <2>4 DEF TourClosed
  <2>6. b \in DOMAIN W /\ b < i /\ i \in Nat /\ b \in Nat
    BY <1>1
  <2>7. CASE m = n
    <3>1. FileAt(W[i]) = FileOf(w[m].path)
      BY <2>1, <2>3, <2>4, <2>7 DEF FileAt
    <3> QED
      BY <2>5, <2>6, <3>1
  <2>8. CASE m # n
    <3>1. m \in 1..(Len(u) - 1)
      BY <2>1, <2>3, <2>8
    <3>2. Later(W, u)
      BY <1>4, <2>3
    <3>3. PICK a \in DOMAIN W : \E e \in DOMAIN W : W[e] = u /\ e < a /\ FileAt(W[a]) = FileOf(u[m].path)
      BY <3>1, <3>2 DEF Later
    <3>4. i < a /\ FileAt(W[a]) = FileOf(u[m].path)
      BY <1>2, <2>4, <3>3 DEF TourOnce
    <3>5. u[m] = w[m] /\ b < a
      BY <1>1, <2>1, <2>3, <2>6, <3>4
    <3> QED
      BY <2>5, <2>6, <3>4, <3>5
  <2> QED
    BY <2>7, <2>8
<1> HIDE DEF Done
<1>5. \A n \in Nat : n \in Done
  BY <1>3, <1>4, SetInduction
<1>6. ASSUME NEW w, IsWay(w, d) PROVE Later(W, w)
  <2>1. Len(w) \in Nat
    <3>1. w \in Seq(Place)
      BY <1>6 DEF IsWay
    <3> QED
      BY <3>1
  <2> QED
    BY <1>5, <1>6, <2>1 DEF Done
<1> QED
  BY <1>6

\* The part of a way that ends at place j.
LEMMA Cut ==
  ASSUME NEW d
  PROVE  \A n \in Nat : \A w : IsWay(w, d) /\ Len(w) = n => \A j \in 1..n :
            \E u : IsWay(u, d) /\ Len(u) = j /\ \A m \in 1..j : u[m] = w[m]
<1> DEFINE Cuts(w) == \A j \in 1..Len(w) : \E u : IsWay(u, d) /\ Len(u) = j /\ \A m \in 1..j : u[m] = w[m]
           Done == {n \in Nat : \A w : IsWay(w, d) /\ Len(w) = n => Cuts(w)}
<1>1. 0 \in Done
  BY DEF IsWay
<1>2. ASSUME NEW n \in Nat, n \in Done
      PROVE  n + 1 \in Done
  <2> SUFFICES ASSUME NEW w, IsWay(w, d), Len(w) = n + 1, NEW j \in 1..(n + 1)
               PROVE  \E u : IsWay(u, d) /\ Len(u) = j /\ \A m \in 1..j : u[m] = w[m]
    OBVIOUS
  <2>1. CASE j = n + 1
    BY <2>1
  <2>2. CASE j # n + 1
    <3>1. Len(w) > 1 /\ Len(w) - 1 = n /\ j \in 1..n
      BY <2>2
    <3>2. PICK v : IsUp(v, w, d)
      BY <3>1, WayUp, Zenon
    <3>3. IsWay(v, d) /\ Len(v) = n /\ \A m \in 1..n : v[m] = w[m]
      BY <3>1, <3>2, Zenon DEF IsUp
    <3>4. PICK u : IsWay(u, d) /\ Len(u) = j /\ \A m \in 1..j : u[m] = v[m]
      BY <1>2, <3>1, <3>3
    <3>5. \A m \in 1..j : m \in 1..n
      BY <3>1
    <3>6. \A m \in 1..j : u[m] = w[m]
      BY <3>3, <3>4, <3>5
    <3> QED
      BY <3>4, <3>6
  <2> QED
    BY <2>1, <2>2
<1> HIDE DEF Done
<1>3. \A n \in Nat : n \in Done
  BY <1>1, <1>2, SetInduction
<1> QED
  BY <1>3 DEF Done

\* A way has a way to each of its places.
LEMMA CutAt ==
  ASSUME NEW d, NEW w, IsWay(w, d), NEW j \in 1..Len(w)
  PROVE  \E u : IsWay(u, d) /\ Len(u) = j /\ \A m \in 1..j : u[m] = w[m]
<1>1. w \in Seq(Place)
  BY DEF IsWay
<1>2. Len(w) \in Nat
  BY <1>1
<1> QED
  BY <1>2, Cut

\* The layers, over the files that were read.
Valued == {"config", "gate"}

\* One layer for every file at least, the root's last, includers later.
LayersAre(L, d) ==
  /\ IsSeq(L) /\ L # <<>> /\ L[Len(L)].file = FileOf(Root)
  /\ \A i \in DOMAIN L : /\ L[i].file \in DOMAIN d /\ L[i].strict = d[L[i].file].strict
                         /\ \A of \in Valued : L[i][of] = d[L[i].file][of]
  /\ \A f \in DOMAIN d : \E i \in DOMAIN L : L[i].file = f
  /\ \A f, g : Over(f, g) => \E a, b \in DOMAIN L : b < a /\ L[a].file = f /\ L[b].file = g

\* A layer holds what its file says.
LEMMA LayerFields ==
  ASSUME NEW text, NEW f, NEW l, l = Layer(text, f)
  PROVE  l.file = f /\ l.strict = text.strict /\ \A of \in Valued : l[of] = text[of]
BY DEF Layer, Valued

\* The layers of a walk that is over are such.
LEMMA LayersFacts ==
  ASSUME Shape, ReadInv, pc \notin IncludeErrors, stack = <<>>, layers # <<>>,
         NEW W, Tour(W, <<>>, disk, layers)
  PROVE  LayersAre(layers, disk)
<1>1. /\ IsSeq(W) /\ IsSeq(layers) /\ Len(W) = Len(layers)
      /\ DOMAIN W = DOMAIN layers /\ DOMAIN W = 1..Len(W) /\ Len(W) \in Nat \ {0} /\ W # <<>>
  <2>1. IsSeq(W) /\ IsSeq(layers) /\ Len(W) = Len(layers)
    BY DEF Tour, TourWays, Shape, ListsInv
  <2>2. Len(layers) \in Nat \ {0}
    BY <2>1, NonEmpty
  <2>3. DOMAIN W = 1..Len(W) /\ DOMAIN layers = 1..Len(layers)
    BY <2>1, OwnRange DEF IsSeq
  <2> QED
    BY <2>1, <2>2, <2>3, EmptyFacts
<1>2. \A i \in DOMAIN W : layers[i] = Layer(disk[FileAt(W[i])], FileAt(W[i]))
  BY DEF Tour, TourWays
<1>3. \A i \in DOMAIN W : layers[i].file = FileAt(W[i])
  BY <1>2, LayerFields
<1>4. \A i \in DOMAIN layers : layers[i].file \in DOMAIN disk
  BY DEF Shape, ListsInv
<1>5. ASSUME NEW i \in DOMAIN layers
      PROVE  /\ layers[i].strict = disk[layers[i].file].strict
             /\ \A of \in Valued : layers[i][of] = disk[layers[i].file][of]
  BY <1>1, <1>2, <1>3, LayerFields
<1>6. \A f \in DOMAIN disk : \E i \in DOMAIN layers : layers[i].file = f
  BY EmptyFacts DEF ReadInv
<1>7. layers[Len(layers)].file = FileOf(Root)
  <2>1. W[Len(W)] = RootWay
    BY <1>1 DEF Tour, TourEnds
  <2>2. FileAt(RootWay) = FileOf(Root)
    <3>1. Len(<<[path |-> Root, at |-> 0]>>) = 1 /\ <<[path |-> Root, at |-> 0]>>[1] = [path |-> Root, at |-> 0]
      OBVIOUS
    <3> QED
      BY <3>1 DEF RootWay, FileAt
  <2>3. Len(W) \in DOMAIN W
    BY <1>1
  <2> QED
    BY <1>1, <1>3, <2>1, <2>2, <2>3
<1>8. ASSUME NEW f, NEW g, Over(f, g)
      PROVE  \E a, b \in DOMAIN layers : b < a /\ layers[a].file = f /\ layers[b].file = g
  <2>1. PICK w \in Ways : \E i, j \in DOMAIN w : i < j /\ FileOf(w[i].path) = f /\ FileOf(w[j].path) = g
    BY <1>8 DEF Over
  <2>2. IsWay(w, disk)
    BY <2>1, WaysAre DEF Shape
  <2>3. DOMAIN w = 1..Len(w) /\ Len(w) \in Nat
    <3>1. w \in Seq(Place)
      BY <2>2 DEF IsWay
    <3> QED
      BY <3>1
  <2>4. PICK i, j \in 1..Len(w) : i < j /\ FileOf(w[i].path) = f /\ FileOf(w[j].path) = g
    BY <2>1, <2>3
  <2>5. PICK u : IsWay(u, disk) /\ Len(u) = j /\ \A m \in 1..j : u[m] = w[m]
    BY <2>2, <2>4, CutAt
  <2>6. i \in 1..j /\ j \in 1..j /\ i \in 1..(j - 1)
    BY <2>3, <2>4
  <2>7. FileAt(u) = g /\ FileOf(u[i].path) = f
    BY <2>4, <2>5, <2>6 DEF FileAt
  <2>8. Later(W, u)
    BY <1>1, <2>5, AboveLater
  <2>9. PICK a, b \in DOMAIN W : W[b] = u /\ b < a /\ FileAt(W[a]) = f
    BY <2>5, <2>6, <2>7, <2>8 DEF Later
  <2> QED
    BY <1>1, <1>3, <2>7, <2>9
<1> QED
  BY <1>1, <1>4, <1>5, <1>6, <1>7, <1>8 DEF LayersAre

\* The settings of a pair that was folded over such layers are those of the
\* precedence.
LEMMA PrecededHolds ==
  ASSUME LayersAre(layers, disk), NEW own, NEW p, NEW of \in Valued, NEW base,
         NEW s, s = LastWriter(base, Append(layers, Layer(own, p.file)), of)
  PROVE  Preceded(s, own, p, of, base)
<1>1. PICK l : l = Layer(own, p.file)
  OBVIOUS
<1>2. PICK n : n = Len(layers)
  OBVIOUS
<1>3. PICK chain : chain = Append(layers, l)
  OBVIOUS
<1>4. l.file = p.file /\ l[of] = own[of]
  BY <1>1, LayerFields
<1>5. /\ IsSeq(chain) /\ DOMAIN chain = 1..(n + 1) /\ DOMAIN layers = 1..n /\ n \in Nat \ {0}
      /\ \A i \in 1..n : chain[i] = layers[i]
      /\ chain[n + 1] = l
  BY <1>2, <1>3, GrowFacts, NonEmpty DEF LayersAre
<1>6. /\ \A i \in 1..n : layers[i].file \in DOMAIN disk /\ layers[i][of] = disk[layers[i].file][of]
      /\ \A f \in DOMAIN disk : \E i \in 1..n : layers[i].file = f
      /\ layers[n].file = FileOf(Root)
  <2>1. /\ \A i \in DOMAIN layers : layers[i].file \in DOMAIN disk /\ layers[i][of] = disk[layers[i].file][of]
        /\ \A f \in DOMAIN disk : \E i \in DOMAIN layers : layers[i].file = f
        /\ layers[Len(layers)].file = FileOf(Root)
    BY Zenon DEF LayersAre
  <2> QED
    BY <1>2, <1>5, <2>1, Zenon
<1>7. \/ s = base /\ \A k \in 1..(n + 1) : chain[k][of] = None
      \/ \E k \in 1..(n + 1) : /\ chain[k][of] # None
                               /\ \A j \in 1..(n + 1) : chain[j][of] # None => j <= k
                               /\ s = Sourced(chain[k][of], chain[k].file)
  <2>1. s = LastWriter(base, chain, of)
    BY <1>1, <1>3
  <2>2. Wins(chain, of, base, s)
    BY <1>5, <2>1, LastWins
  <2> QED
    BY <1>5, <2>2 DEF Wins
<1>8. n + 1 \in 1..(n + 1) /\ n \in 1..n /\ \A i \in 1..n : i \in 1..(n + 1)
  BY <1>5
<1>9. \A f : f \in Setters(of) <=> \E i \in 1..n : layers[i].file = f /\ layers[i][of] # None
  BY <1>6 DEF Setters
<1>10. CASE own[of] # None
  <2>1. chain[n + 1][of] # None
    BY <1>4, <1>5, <1>10
  <2>2. PICK k \in 1..(n + 1) : /\ \A j \in 1..(n + 1) : chain[j][of] # None => j <= k
                                /\ s = Sourced(chain[k][of], chain[k].file)
    BY <1>7, <1>8, <2>1
  <2>3. k = n + 1
    <3>1. n + 1 <= k /\ k <= n + 1
      BY <1>5, <1>8, <2>1, <2>2
    <3> QED
      BY <1>5, <3>1
  <2> QED
    BY <1>4, <1>5, <1>10, <2>2, <2>3 DEF Preceded
<1>11. CASE own[of] = None
  <2>1. chain[n + 1][of] = None
    BY <1>4, <1>5, <1>11
  <2>2. CASE s = base /\ \A k \in 1..(n + 1) : chain[k][of] = None
    <3>1. Setters(of) = {}
      BY <1>5, <1>8, <1>9, <2>2
    <3> QED
      BY <1>11, <2>2, <3>1 DEF Preceded
  <2>3. ASSUME NEW k \in 1..(n + 1), chain[k][of] # None,
               \A j \in 1..(n + 1) : chain[j][of] # None => j <= k,
               s = Sourced(chain[k][of], chain[k].file)
        PROVE  Preceded(s, own, p, of, base)
    <3>1. k \in 1..n
      BY <1>5, <2>1, <2>3
    <3>2. chain[k] = layers[k] /\ layers[k][of] # None
      BY <1>5, <2>3, <3>1
    <3>3. s.origin = layers[k].file /\ s.value = layers[k][of]
      BY <2>3, <3>2 DEF Sourced
    <3>4. \A j \in 1..n : layers[j][of] # None => j <= k
      BY <1>5, <1>8, <2>3
    <3>5. s.origin \in Setters(of) /\ s.value = disk[s.origin][of]
      BY <1>6, <1>9, <3>1, <3>2, <3>3
    <3>6. ASSUME FileOf(Root) \in Setters(of) PROVE s.origin = FileOf(Root)
      <4>1. layers[n][of] # None
        BY <1>6, <1>8, <3>6 DEF Setters
      <4>2. n <= k
        BY <1>8, <3>4, <4>1
      <4>3. k = n
        BY <1>5, <3>1, <4>2
      <4> QED
        BY <1>6, <3>3, <4>3
    <3>7. ASSUME Once, NEW f \in Setters(of), Over(f, s.origin) PROVE FALSE
      <4>1. PICK a, b \in 1..n : b < a /\ layers[a].file = f /\ layers[b].file = s.origin
        BY <1>5, <3>7 DEF LayersAre
      <4>2. b = k
        BY <1>5, <3>1, <3>3, <3>7, <4>1 DEF Once
      <4>3. layers[a][of] # None
        BY <1>6, <3>7, <4>1 DEF Setters
      <4>4. a <= k
        BY <3>4, <4>1, <4>3
      <4> QED
        BY <1>5, <3>1, <4>1, <4>2, <4>4
    <3>8. Setters(of) # {}
      BY <3>5
    <3> QED
      BY <1>11, <3>5, <3>6, <3>7, <3>8 DEF Preceded
  <2> QED
    BY <1>7, <2>2, <2>3
<1> QED
  BY <1>10, <1>11

\* An escalation is on exactly when something sets it.
OnIn(own, p) == {f \in DOMAIN disk : disk[f].strict = TRUE} \cup (IF own.strict = TRUE THEN {p.file} ELSE {})

\* An escalation is on exactly when something sets it, and told by whom.
LEMMA EscalatesExactly ==
  ASSUME LayersAre(layers, disk), NEW own, NEW p, NEW c \in BOOLEAN,
         NEW s, s = Escalate(c, Append(layers, Layer(own, p.file)))
  PROVE  /\ s.value = (c \/ OnIn(own, p) # {})
         /\ s.value => s.origin \in (IF c THEN {"cli"} ELSE OnIn(own, p))
<1>1. PICK l : l = Layer(own, p.file)
  OBVIOUS
<1>2. PICK n : n = Len(layers)
  OBVIOUS
<1>3. PICK chain : chain = Append(layers, l)
  OBVIOUS
<1>4. l.file = p.file /\ l.strict = own.strict
  BY <1>1, LayerFields
<1>5. /\ IsSeq(chain) /\ DOMAIN chain = 1..(n + 1) /\ DOMAIN layers = 1..n /\ n \in Nat \ {0}
      /\ \A i \in 1..n : chain[i] = layers[i]
      /\ chain[n + 1] = l
  BY <1>2, <1>3, GrowFacts, NonEmpty DEF LayersAre
<1>6. /\ \A i \in 1..n : layers[i].file \in DOMAIN disk /\ layers[i].strict = disk[layers[i].file].strict
      /\ \A f \in DOMAIN disk : \E i \in 1..n : layers[i].file = f
  BY <1>5 DEF LayersAre
<1>7. n + 1 \in 1..(n + 1) /\ \A i \in 1..(n + 1) : i \in 1..n \/ i = n + 1
  BY <1>5
<1>8. \A i \in 1..n : i \in 1..(n + 1)
  BY <1>5
<1>9. ASSUME NEW i \in 1..(n + 1), chain[i].strict = TRUE PROVE chain[i].file \in OnIn(own, p)
  <2>1. CASE i \in 1..n
    <3>1. chain[i].file \in DOMAIN disk /\ disk[chain[i].file].strict = TRUE
      BY <1>5, <1>6, <1>9, <2>1
    <3> QED
      BY <3>1 DEF OnIn
  <2>2. CASE i = n + 1
    <3>1. chain[i].file = p.file /\ own.strict = TRUE
      BY <1>4, <1>5, <1>9, <2>2
    <3> QED
      BY <3>1 DEF OnIn
  <2> QED
    BY <1>7, <2>1, <2>2
<1>10. ASSUME NEW f \in OnIn(own, p) PROVE \E i \in 1..(n + 1) : chain[i].strict = TRUE
  <2>1. CASE f \in DOMAIN disk /\ disk[f].strict = TRUE
    BY <1>5, <1>6, <1>8, <2>1
  <2>2. CASE own.strict = TRUE
    BY <1>4, <1>5, <1>7, <2>2
  <2> QED
    BY <1>10, <2>1, <2>2 DEF OnIn
<1>11. \/ c /\ s = Sourced(TRUE, "cli")
       \/ ~c /\ s = Sourced(FALSE, "built-in") /\ \A k \in 1..(n + 1) : chain[k].strict # TRUE
       \/ ~c /\ \E k \in 1..(n + 1) : chain[k].strict = TRUE /\ s = Sourced(TRUE, chain[k].file)
  <2>1. s = Escalate(c, chain)
    BY <1>1, <1>3
  <2>2. Escalates(chain, c, s)
    BY <1>5, <2>1, SomeEscalates
  <2> QED
    BY <1>5, <2>2 DEF Escalates
<1>12. CASE c /\ s = Sourced(TRUE, "cli")
  <2>1. s.value = TRUE /\ s.origin = "cli"
    <3> DEFINE t == Sourced(TRUE, "cli")
    <3>1. t.value = TRUE /\ t.origin = "cli"
      BY DEF Sourced
    <3> HIDE DEF t
    <3>2. s = t
      BY <1>12 DEF t
    <3> QED
      BY <3>1, <3>2
  <2> QED
    BY <1>12, <2>1
<1>13. CASE ~c /\ s = Sourced(FALSE, "built-in") /\ \A k \in 1..(n + 1) : chain[k].strict # TRUE
  <2>1. OnIn(own, p) = {}
    BY <1>10, <1>13
  <2> QED
    <3>1. s.value = FALSE
      BY <1>13 DEF Sourced
    <3> QED
      BY <1>13, <2>1, <3>1
<1>14. ASSUME ~c, NEW k \in 1..(n + 1), chain[k].strict = TRUE, s = Sourced(TRUE, chain[k].file)
       PROVE  /\ s.value = (c \/ OnIn(own, p) # {})
              /\ s.value => s.origin \in (IF c THEN {"cli"} ELSE OnIn(own, p))
  <2>1. chain[k].file \in OnIn(own, p)
    BY <1>9, <1>14
  <2>2. s.value = TRUE /\ s.origin = chain[k].file
    BY <1>14 DEF Sourced
  <2> QED
    BY <1>14, <2>1, <2>2
<1> QED
  BY <1>11, <1>12, <1>13, <1>14

\* What a folded pair says.
LEMMA FoldedFields ==
  ASSUME NEW p, NEW L, NEW c, NEW r, r = Folded(p, L, c)
  PROVE  /\ r.file = p.file
         /\ r.strict = Escalate(c.strict, Append(L, Layer(p.raw, p.file)))
         /\ c.noConfig => r.config = Sourced(None, "cli")
         /\ ~c.noConfig => r.config = LastWriter(BaseConfig(c), Append(L, Layer(p.raw, p.file)), "config")
         /\ r.gate = LastWriter(Sourced(DefaultGate, "built-in"), Append(L, Layer(p.raw, p.file)), "gate")
<1>1. PICK s : s = FoldSettings(L, Layer(p.raw, p.file), c)
  OBVIOUS
<1>2. r.file = p.file /\ r.strict = s.strict /\ r.config = s.config /\ r.gate = s.gate
  BY <1>1 DEF Folded, WithSettings
<1>3. /\ s.strict = Escalate(c.strict, Append(L, Layer(p.raw, p.file)))
      /\ c.noConfig => s.config = Sourced(None, "cli")
      /\ ~c.noConfig => s.config = LastWriter(BaseConfig(c), Append(L, Layer(p.raw, p.file)), "config")
      /\ s.gate = LastWriter(Sourced(DefaultGate, "built-in"), Append(L, Layer(p.raw, p.file)), "gate")
  BY <1>1 DEF FoldSettings
<1> QED
  BY <1>2, <1>3

\* The settings of p are those that own, what was read and the command line give it.
SettledAs(p, own, file) ==
  /\ p.file = file
  /\ p.strict.value = (cli.strict \/ OnIn(own, p) # {})
  /\ p.strict.value => p.strict.origin \in (IF cli.strict THEN {"cli"} ELSE OnIn(own, p))
  /\ IF cli.noConfig THEN p.config.value = None
     ELSE Preceded(p.config, own, p, "config", BaseConfig(cli))
  /\ Preceded(p.gate, own, p, "gate", Sourced(DefaultGate, "built-in"))

\* The invariant says what SettingsResolved does.
LEMMA Settled ==
  ASSUME Shape, WalkInv, Outcomes
  PROVE  SettingsResolved
<1> SUFFICES ASSUME pc = "resolved", sources # <<>>, NEW k \in DOMAIN resolved
             PROVE  SettledAs(resolved[k], pairs[k].raw, pairs[k].file)
  BY Zenon DEF SettingsResolved, SettledAs, OnIn
<1> SUFFICES ASSUME NEW p, p = resolved[k], NEW own, own = pairs[k].raw
             PROVE  /\ p.file = pairs[k].file
                    /\ p.strict.value = (cli.strict \/ OnIn(own, p) # {})
                    /\ p.strict.value => p.strict.origin \in (IF cli.strict THEN {"cli"} ELSE OnIn(own, p))
                    /\ IF cli.noConfig THEN p.config.value = None
                       ELSE Preceded(p.config, own, p, "config", BaseConfig(cli))
                    /\ Preceded(p.gate, own, p, "gate", Sourced(DefaultGate, "built-in"))
  BY Zenon DEF SettledAs
<1>1. layers # <<>> /\ stack = <<>> /\ pc \notin IncludeErrors
  BY DEF Outcomes, EndInv, IncludeErrors
<1>2. PICK W, E : Tour(W, <<>>, disk, layers) /\ Listed(W, E, disk, pairs)
  BY <1>1 DEF WalkInv, Walked
<1>3. LayersAre(layers, disk)
  BY <1>1, <1>2, LayersFacts DEF Outcomes
<1>4. PICK q : q = pairs[k]
  OBVIOUS
<1>5. p = Folded(q, layers, cli) /\ own = q.raw
  BY <1>1, <1>4 DEF Outcomes, FoldInv
<1>6. /\ p.file = q.file
      /\ p.strict = Escalate(cli.strict, Append(layers, Layer(own, p.file)))
      /\ cli.noConfig => p.config = Sourced(None, "cli")
      /\ ~cli.noConfig => p.config = LastWriter(BaseConfig(cli), Append(layers, Layer(own, p.file)), "config")
      /\ p.gate = LastWriter(Sourced(DefaultGate, "built-in"), Append(layers, Layer(own, p.file)), "gate")
  BY <1>5, FoldedFields
<1>7. /\ p.strict.value = (cli.strict \/ OnIn(own, p) # {})
      /\ p.strict.value => p.strict.origin \in (IF cli.strict THEN {"cli"} ELSE OnIn(own, p))
  <2>1. cli.strict \in BOOLEAN
    BY DEF Shape, CliInv
  <2> QED
    BY <1>3, <1>6, <2>1, EscalatesExactly
<1>8. Preceded(p.gate, own, p, "gate", Sourced(DefaultGate, "built-in"))
  <2>1. "gate" \in Valued
    BY DEF Valued
  <2> QED
    BY <1>3, <1>6, <2>1, PrecededHolds
<1>9. CASE cli.noConfig
  <2>1. p.config.value = None
    BY <1>6, <1>9 DEF Sourced
  <2> QED
    BY <1>4, <1>6, <1>7, <1>8, <1>9, <2>1
<1>10. CASE ~cli.noConfig
  <2>1. "config" \in Valued
    BY DEF Valued
  <2>2. Preceded(p.config, own, p, "config", BaseConfig(cli))
    BY <1>3, <1>6, <1>10, <2>1, PrecededHolds
  <2> QED
    BY <1>4, <1>6, <1>7, <1>8, <1>10, <2>2
<1> QED
  BY <1>9, <1>10

\* Every pair runs with the settings that the precedence gives it.
THEOREM PrecedenceKept == Spec => []SettingsResolved
<1>1. Init => Shape /\ WalkInv /\ Outcomes
  BY ShapeInit, ResolutionInit
<1>2. Shape /\ WalkInv /\ Outcomes /\ [Next]_vars => (Shape /\ WalkInv /\ Outcomes)'
  BY ShapeStep, ResolutionStep
<1>3. Shape /\ WalkInv /\ Outcomes => SettingsResolved
  BY Settled
<1> QED
  BY <1>1, <1>2, <1>3, PTL DEF Spec
=============================================================================
