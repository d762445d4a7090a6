---------------------------- MODULE CommandProofs ----------------------------
(***************************************************************************)
(* Theorems about the answers of module Commands, for any requests of the   *)
(* kinds they speak of.                                                     *)
(***************************************************************************)
EXTENDS CommandProperties, SequenceTheorems, FunctionTheorems, FiniteSetTheorems, WellFoundedInduction,
        TLAPS

-----------------------------------------------------------------------------
(* Entries of one sort.                                                    *)

\* Induction over the natural numbers, with the claim as a set.
LEMMA SetInduction ==
  ASSUME NEW S, 0 \in S, \A n \in Nat : n \in S => n + 1 \in S
  PROVE  \A n \in Nat : n \in S
<1> SUFFICES ASSUME Nat \ S # {} PROVE FALSE
  OBVIOUS
<1> DEFINE R == OpToRel(<, Nat)
<1>1. \A x, y \in Nat : x < y => <<x, y>> \in R
  BY DEF OpToRel
<1>2. IsWellFoundedOn(R, Nat)
  BY NatLessThanWellFounded, Zenon
<1> HIDE DEF R
<1>3. PICK n \in Nat \ S : \A m \in Nat \ S : <<m, n>> \notin R
  BY <1>2, WFMin
<1>4. n # 0 /\ n - 1 \in Nat /\ n - 1 < n /\ (n - 1) + 1 = n
  BY <1>3
<1>5. n - 1 \in S
  BY <1>1, <1>3, <1>4
<1> QED
  BY <1>3, <1>4, <1>5

\* What one more entry does to those of a sort.
Taken(es, sort, upTo, i) ==
  IF i = 0 THEN <<>>
  ELSE IF es[i].sort = sort THEN Append(upTo[i - 1], es[i])
  ELSE upTo[i - 1]

LEMMA DeclaredUnfolds ==
  ASSUME NEW build, NEW sort, Len(build.entries) \in Nat
  PROVE  \E f : /\ Host!Declared(build, sort) = f[Len(build.entries)]
                /\ f = [i \in 0 .. Len(build.entries) |-> Taken(build.entries, sort, f, i)]
<1> DEFINE es == build.entries
           N == Len(es)
           F == CHOOSE f : f = [i \in 0 .. N |-> Taken(es, sort, f, i)]
           Good == {n \in Nat : \E f : f = [i \in 0 .. n |-> Taken(es, sort, f, i)]}
<1>1. 0 \in Good
  <2> DEFINE f == [i \in 0 .. 0 |-> <<>>]
  <2>1. f = [i \in 0 .. 0 |-> Taken(es, sort, f, i)]
    BY DEF Taken
  <2> QED
    BY <2>1
<1>2. ASSUME NEW n \in Nat, n \in Good PROVE n + 1 \in Good
  <2>1. PICK f : f = [i \in 0 .. n |-> Taken(es, sort, f, i)]
    BY <1>2
  <2> DEFINE g == [i \in 0 .. (n + 1) |-> IF i = n + 1 THEN Taken(es, sort, f, i) ELSE f[i]]
  <2>2. \A i \in 0 .. n : g[i] = f[i]
    OBVIOUS
  <2>3. ASSUME NEW i \in 0 .. (n + 1) PROVE Taken(es, sort, g, i) = Taken(es, sort, f, i)
    <3>1. i # 0 => g[i - 1] = f[i - 1]
      BY <2>2
    <3> HIDE DEF g
    <3> QED
      BY <3>1 DEF Taken
  <2>4. ASSUME NEW i \in 0 .. (n + 1) PROVE g[i] = Taken(es, sort, f, i)
    BY <2>1
  <2>5. g = [i \in 0 .. (n + 1) |-> g[i]]
    OBVIOUS
  <2> HIDE DEF g
  <2>6. g = [i \in 0 .. (n + 1) |-> Taken(es, sort, g, i)]
    BY <2>3, <2>4, <2>5
  <2> QED
    BY <2>6
<1>3. N \in Nat
  OBVIOUS
<1> HIDE DEF Good
<1>4. N \in Good
  BY <1>1, <1>2, <1>3, SetInduction
<1>5. \E f : f = [i \in 0 .. N |-> Taken(es, sort, f, i)]
  BY <1>4 DEF Good
<1>6. Host!Declared(build, sort) = F[N]
  BY DEF Host!Declared, Taken
<1> QED
  BY <1>5, <1>6

\* The entries that are declared of a sort are entries of the build, and none of
\* the sort is left out.
Chosen(es, sort, n, s) ==
  /\ s \in Seq({es[i] : i \in DOMAIN es})
  /\ \A k \in DOMAIN s : s[k].sort = sort
  /\ \A i \in 1 .. n : es[i].sort = sort => \E k \in DOMAIN s : s[k] = es[i]

LEMMA ChosenOnce ==
  ASSUME NEW es, es \in Seq({es[i] : i \in DOMAIN es}),
         NEW sort, NEW f, NEW n \in Nat, n + 1 \in DOMAIN es,
         Chosen(es, sort, n, f[n])
  PROVE  Chosen(es, sort, n + 1, Taken(es, sort, f, n + 1))
<1> DEFINE S == {es[i] : i \in DOMAIN es}
           s == f[n]
           e == es[n + 1]
<1>1. e \in S
  OBVIOUS
<1>2. s \in Seq(S) /\ \A k \in DOMAIN s : s[k].sort = sort
  BY DEF Chosen
<1>3. \A i \in 1 .. n : es[i].sort = sort => \E k \in DOMAIN s : s[k] = es[i]
  BY DEF Chosen
<1>4. \A i \in 1 .. (n + 1) : i \in 1 .. n \/ i = n + 1
  OBVIOUS
<1>5. n + 1 # 0 /\ (n + 1) - 1 = n
  OBVIOUS
<1> HIDE DEF S, s, e
<1>6. CASE e.sort = sort
  <2>1. /\ Append(s, e) \in Seq(S)
        /\ DOMAIN Append(s, e) = DOMAIN s \cup {Len(s) + 1}
        /\ \A k \in DOMAIN s : Append(s, e)[k] = s[k]
        /\ Append(s, e)[Len(s) + 1] = e
    BY <1>1, <1>2, AppendProperties
  <2>2. Taken(es, sort, f, n + 1) = Append(s, e)
    BY <1>5, <1>6 DEF Taken, s, e
  <2>3. \A k \in DOMAIN Append(s, e) : Append(s, e)[k].sort = sort
    BY <1>2, <1>6, <2>1
  <2>4. \A i \in 1 .. (n + 1) : es[i].sort = sort => \E k \in DOMAIN Append(s, e) : Append(s, e)[k] = es[i]
    BY <1>3, <1>4, <2>1 DEF e
  <2> QED
    BY <2>1, <2>2, <2>3, <2>4 DEF Chosen, S
<1>7. CASE e.sort # sort
  <2>1. Taken(es, sort, f, n + 1) = s
    BY <1>5, <1>7 DEF Taken, s, e
  <2>2. \A i \in 1 .. (n + 1) : es[i].sort = sort => \E k \in DOMAIN s : s[k] = es[i]
    BY <1>3, <1>4, <1>7 DEF e
  <2> QED
    BY <1>2, <2>1, <2>2 DEF Chosen, S
<1> QED
  BY <1>6, <1>7

LEMMA DeclaredChosen ==
  ASSUME NEW build, Host!IsBuild(build), NEW sort
  PROVE  Chosen(build.entries, sort, Len(build.entries), Host!Declared(build, sort))
<1> DEFINE es == build.entries
           N == Len(es)
<1>1. es \in Seq({es[i] : i \in DOMAIN es})
  BY DEF Host!IsBuild
<1>2. N \in Nat /\ DOMAIN es = 1 .. N
  BY <1>1
<1>3. PICK f : /\ Host!Declared(build, sort) = f[N]
               /\ f = [i \in 0 .. N |-> Taken(es, sort, f, i)]
  BY <1>2, DeclaredUnfolds
<1> DEFINE Good == {n \in Nat : n <= N => Chosen(es, sort, n, f[n])}
<1> HIDE DEF es, N
<1>4. 0 \in Good
  <2>1. f[0] = <<>>
    BY <1>2, <1>3 DEF Taken
  <2>2. /\ <<>> \in Seq({es[i] : i \in DOMAIN es})
        /\ \A k \in DOMAIN <<>> : FALSE
        /\ 1 .. 0 = {}
    OBVIOUS
  <2>3. Chosen(es, sort, 0, f[0])
    BY <2>1, <2>2, Zenon DEF Chosen
  <2> QED
    BY <2>3
<1>5. ASSUME NEW n \in Nat, n \in Good PROVE n + 1 \in Good
  <2> SUFFICES ASSUME n + 1 <= N PROVE Chosen(es, sort, n + 1, f[n + 1])
    OBVIOUS
  <2>1. Chosen(es, sort, n, f[n])
    BY <1>2, <1>5
  <2>2. n + 1 \in DOMAIN es /\ n + 1 \in 0 .. N
    BY <1>2
  <2>3. f[n + 1] = Taken(es, sort, f, n + 1)
    BY <1>3, <2>2
  <2> QED
    BY <1>1, <2>1, <2>2, <2>3, ChosenOnce
<1> HIDE DEF Good
<1>6. N \in Good
  BY <1>2, <1>4, <1>5, SetInduction
<1>7. Chosen(es, sort, N, f[N])
  BY <1>2, <1>6 DEF Good
<1> QED
  BY <1>3, <1>7 DEF es, N

\* What the comparisons need of it.
Sorted(es, sort, s) ==
    /\ Len(s) \in Nat /\ DOMAIN s = 1 .. Len(s)
    /\ \A k \in DOMAIN s : s[k].sort = sort /\ \E i \in DOMAIN es : es[i] = s[k]
    /\ \A i \in DOMAIN es : es[i].sort = sort => \E k \in DOMAIN s : s[k] = es[i]

LEMMA DeclaredFacts ==
  ASSUME NEW build, Host!IsBuild(build), NEW sort
  PROVE  Sorted(build.entries, sort, Host!Declared(build, sort))
<1> DEFINE es == build.entries
           D == Host!Declared(build, sort)
<1>1. Chosen(es, sort, Len(es), D)
  BY DeclaredChosen
<1>2. es \in Seq({es[i] : i \in DOMAIN es})
  BY DEF Host!IsBuild
<1> HIDE DEF es, D
<1>3. D \in Seq({es[i] : i \in DOMAIN es})
  BY <1>1 DEF Chosen
<1>4. DOMAIN es = 1 .. Len(es)
  BY <1>2
<1>5. \A k \in DOMAIN D : D[k] \in {es[i] : i \in DOMAIN es}
  BY <1>3
<1> QED
  BY <1>1, <1>3, <1>4, <1>5 DEF Chosen, Sorted, es, D

-----------------------------------------------------------------------------
(* What findings that are all informational say of two builds.             *)

Quiet(findings) == \A f \in findings : f.severity = "info"

LEMMA WhenTells ==
  ASSUME NEW condition, NEW finding, Quiet(Host!When(condition, finding)), condition
  PROVE  finding.severity = "info"
  BY DEF Quiet, Host!When

\* Every part of the findings is informational too.
LEMMA QuietParts ==
  ASSUME NEW old, NEW new, Quiet(Host!HostFindings(old, new, FALSE))
  PROVE  /\ \A sort \in Host!Spaces : Quiet(Host!SpaceFindings(old, new, sort))
         /\ Quiet(Host!StartFindings(old, new))
         /\ Quiet(Host!ProposalFindings(old, new))
         /\ Quiet(Host!EnvFindings(old, new))
         /\ Quiet(Host!ImportFindings(old, new))
<1>1. /\ Host!SurfaceFindings(old, new) \subseteq Host!HostFindings(old, new, FALSE)
      /\ Host!EnvFindings(old, new) \subseteq Host!HostFindings(old, new, FALSE)
      /\ Host!ImportFindings(old, new) \subseteq Host!HostFindings(old, new, FALSE)
  BY Zenon DEF Host!HostFindings
<1>2. /\ \A sort \in Host!Spaces : Host!SpaceFindings(old, new, sort) \subseteq Host!SurfaceFindings(old, new)
      /\ Host!StartFindings(old, new) \subseteq Host!SurfaceFindings(old, new)
      /\ Host!ProposalFindings(old, new) \subseteq Host!SurfaceFindings(old, new)
  BY Zenon DEF Host!SurfaceFindings
<1> QED
  BY <1>1, <1>2 DEF Quiet

\* An index space keeps what is imported into it, but for where a table or a
\* global comes from, and a memory asks for no more.
LEMMA QuietSpace ==
  ASSUME NEW old, NEW new, Host!IsBuild(old), Host!IsBuild(new),
         NEW sort \in Host!Spaces, Quiet(Host!SpaceFindings(old, new, sort)),
         NEW k \in DOMAIN Host!Declared(new, sort)
  PROVE  LET o == Host!Declared(old, sort)
             n == Host!Declared(new, sort)
         IN  /\ k \notin DOMAIN o => n[k].from = Host!Local
             /\ k \in DOMAIN o => Quiet(Host!Changed(sort, k, o[k], n[k]))
<1> DEFINE o == Host!Declared(old, sort)
           n == Host!Declared(new, sort)
<1>1. /\ Len(o) \in Nat /\ DOMAIN o = 1 .. Len(o)
      /\ Len(n) \in Nat /\ DOMAIN n = 1 .. Len(n)
  <2>1. Sorted(old.entries, sort, o) /\ Sorted(new.entries, sort, n)
    BY DeclaredFacts, Zenon
  <2> QED
    BY <2>1, Zenon DEF Sorted
<1> DEFINE part == IF k > Len(o) THEN {Host!Added(sort, k, n[k])}
                   ELSE IF k > Len(n) THEN {Host!Removed(sort, k, o[k])}
                   ELSE Host!Changed(sort, k, o[k], n[k])
<1>2. k \in Host!Positions(old, new, sort)
  <2>1. k \in 1 .. Len(n)
    BY <1>1
  <2>2. Host!Positions(old, new, sort) = 1 .. (IF Len(o) > Len(n) THEN Len(o) ELSE Len(n))
    BY Zenon DEF Host!Positions
  <2> HIDE DEF o, n
  <2> QED
    BY <1>1, <2>1, <2>2
<1>3. part \subseteq Host!SpaceFindings(old, new, sort)
  BY <1>2, Zenon DEF Host!SpaceFindings
<1>4. Quiet(part)
  BY <1>3, Zenon DEF Quiet
<1>5. k \in DOMAIN n
  OBVIOUS
<1> HIDE DEF o, n
<1>6. CASE k \notin DOMAIN o
  <2>1. k > Len(o)
    BY <1>1, <1>5, <1>6
  <2>2. Host!Added(sort, k, n[k]).severity = "info"
    BY <1>4, <2>1, Zenon DEF Quiet
  <2>3. n[k].from = Host!Local
    BY <2>2 DEF Host!Added, Host!Told
  <2> QED
    BY <1>6, <2>3 DEF o, n
<1>7. CASE k \in DOMAIN o
  <2>1. ~(k > Len(o)) /\ ~(k > Len(n))
    BY <1>1, <1>5, <1>7
  <2>2. part = Host!Changed(sort, k, o[k], n[k])
    BY <2>1, Zenon
  <2> QED
    BY <1>4, <1>7, <2>2 DEF o, n
<1> QED
  BY <1>6, <1>7 DEF o, n

LEMMA QuietMemory ==
  ASSUME NEW i, NEW o, NEW n, {o.min, o.max, n.min, n.max} \subseteq Nat,
         Quiet(Host!MemoryChange(i, o, n))
  PROVE  o.from = n.from /\ o.type = n.type /\ n.min =< o.min /\ n.max >= o.max
<1> DEFINE from == Host!Told("critical", "Memory Limits Changed", <<"memory", i>>)
           type == Host!Told("critical", "Memory Limits Changed", <<"memory", i, "type">>)
           min  == Host!Told(IF n.min > o.min THEN "warning" ELSE "info",
                             "Memory Limits Changed", <<"memory", i, "min">>)
           max  == Host!Told(IF n.max < o.max THEN "warning" ELSE "info",
                             "Memory Limits Changed", <<"memory", i, "max">>)
<1>1. /\ from.severity = "critical" /\ type.severity = "critical"
      /\ n.min > o.min => min.severity = "warning"
      /\ n.max < o.max => max.severity = "warning"
  BY DEF Host!Told
<1>2. /\ Quiet(Host!When(o.from # n.from, from)) /\ Quiet(Host!When(o.type # n.type, type))
      /\ Quiet(Host!When(o.min # n.min, min)) /\ Quiet(Host!When(o.max # n.max, max))
  BY Zenon DEF Host!MemoryChange, Quiet
<1> HIDE DEF from, type, min, max
<1>3. /\ o.from # n.from => from.severity = "info"
      /\ o.type # n.type => type.severity = "info"
      /\ o.min # n.min => min.severity = "info"
      /\ o.max # n.max => max.severity = "info"
  BY <1>2, WhenTells, Zenon
<1> QED
  BY <1>1, <1>3

LEMMA QuietTable ==
  ASSUME NEW i, NEW o, NEW n, Quiet(Host!TableChange(i, o, n))
  PROVE  o.type = n.type
<1> DEFINE type == Host!Told("critical", "Table Element Type Changed", <<"table", i, "element_type">>)
<1>1. Quiet(Host!When(o.type # n.type, type))
  BY Zenon DEF Host!TableChange, Quiet
<1>2. type.severity # "info"
  BY DEF Host!Told
<1> HIDE DEF type
<1> QED
  BY <1>1, <1>2, WhenTells, Zenon

LEMMA QuietGlobal ==
  ASSUME NEW i, NEW o, NEW n, Quiet(Host!GlobalChange(i, o, n))
  PROVE  o.type = n.type /\ o.mutable = n.mutable
<1> DEFINE type == Host!Told("critical", "Global Type Changed", <<"global", i, "type">>)
           mutable == Host!Told("critical", "Global Mutability Changed", <<"global", i, "mutability">>)
<1>1. Quiet(Host!When(o.type # n.type, type)) /\ Quiet(Host!When(o.mutable # n.mutable, mutable))
  BY Zenon DEF Host!GlobalChange, Quiet
<1>2. type.severity # "info" /\ mutable.severity # "info"
  BY DEF Host!Told
<1> HIDE DEF type, mutable
<1> QED
  BY <1>1, <1>2, WhenTells, Zenon

\* What two entries at one position have in common.
LEMMA QuietChange ==
  ASSUME NEW sort \in Host!Spaces, NEW k, NEW o, NEW n, Host!IsEntry(o), Host!IsEntry(n),
         o.sort = sort, n.sort = sort,
         Quiet(Host!Changed(sort, k, o, n))
  PROVE  /\ o.type = n.type /\ o.mutable = n.mutable
         /\ sort = "memory" => o.from = n.from /\ n.min =< o.min /\ n.max >= o.max
<1>1. CASE sort = "memory"
  <2>1. Host!Changed(sort, k, o, n) = Host!MemoryChange(k, o, n)
    BY <1>1 DEF Host!Changed
  <2>2. {o.min, o.max, n.min, n.max} \subseteq Nat /\ o.mutable = FALSE /\ n.mutable = FALSE
    BY <1>1 DEF Host!IsEntry
  <2>3. Quiet(Host!MemoryChange(k, o, n))
    BY <2>1, Zenon
  <2>4. o.from = n.from /\ o.type = n.type /\ n.min =< o.min /\ n.max >= o.max
    BY <2>2, <2>3, QuietMemory, Zenon
  <2> QED
    BY <2>2, <2>4, Zenon
<1>2. CASE sort = "table"
  <2>1. Host!Changed(sort, k, o, n) = Host!TableChange(k, o, n)
    BY <1>2 DEF Host!Changed
  <2>2. o.mutable = FALSE /\ n.mutable = FALSE
    BY <1>2 DEF Host!IsEntry
  <2>3. Quiet(Host!TableChange(k, o, n))
    BY <2>1, Zenon
  <2>4. o.type = n.type
    BY <2>3, QuietTable, Zenon
  <2> QED
    BY <1>2, <2>2, <2>4
<1>3. CASE sort = "global"
  <2>1. Host!Changed(sort, k, o, n) = Host!GlobalChange(k, o, n)
    BY <1>3 DEF Host!Changed
  <2>2. Quiet(Host!GlobalChange(k, o, n))
    BY <2>1, Zenon
  <2>3. o.type = n.type /\ o.mutable = n.mutable
    BY <2>2, QuietGlobal, Zenon
  <2> QED
    BY <1>3, <2>3
<1> QED
  BY <1>1, <1>2, <1>3 DEF Host!Spaces

LEMMA QuietImported ==
  ASSUME NEW old, NEW new, Host!IsBuild(old), Host!IsBuild(new), OriginsKept(old, new),
         \A sort \in Host!Spaces : Quiet(Host!SpaceFindings(old, new, sort))
  PROVE  Imported(new) \subseteq Imported(old)
<1> SUFFICES ASSUME NEW j \in DOMAIN new.entries, new.entries[j].from # Host!Local
             PROVE  \E i \in DOMAIN old.entries :
                      /\ old.entries[i].from # Host!Local
                      /\ old.entries[i].sort = new.entries[j].sort
                      /\ old.entries[i].from = new.entries[j].from
                      /\ old.entries[i].type = new.entries[j].type
                      /\ old.entries[i].mutable = new.entries[j].mutable
  <2> DEFINE Seen(es) == {es[i] : i \in {j \in DOMAIN es : es[j].from # Host!Local}}
             Of(e) == [sort |-> e.sort, from |-> e.from, type |-> e.type, mutable |-> e.mutable]
  <2>1. /\ Imported(new) = {Of(e) : e \in Seen(new.entries)}
        /\ Imported(old) = {Of(e) : e \in Seen(old.entries)}
    BY Zenon DEF Imported
  <2> HIDE DEF Seen, Of
  <2>2. \A e \in Seen(new.entries) : \E d \in Seen(old.entries) : Of(d) = Of(e)
    <3> TAKE e \in Seen(new.entries)
    <3>1. PICK j \in DOMAIN new.entries : new.entries[j].from # Host!Local /\ e = new.entries[j]
      BY Zenon DEF Seen
    <3>2. PICK i \in DOMAIN old.entries :
            /\ old.entries[i].from # Host!Local
            /\ old.entries[i].sort = e.sort
            /\ old.entries[i].from = e.from
            /\ old.entries[i].type = e.type
            /\ old.entries[i].mutable = e.mutable
      BY <3>1, Zenon
    <3>3. old.entries[i] \in Seen(old.entries)
      BY <3>2, Zenon DEF Seen
    <3>4. Of(old.entries[i]) = Of(e)
      BY <3>2, Zenon DEF Of
    <3> QED
      BY <3>3, <3>4, Zenon
  <2> QED
    BY <2>1, <2>2, Zenon
<1> DEFINE e == new.entries[j]
           sort == e.sort
           o == Host!Declared(old, sort)
           n == Host!Declared(new, sort)
<1>1. /\ \A i \in DOMAIN new.entries : Host!IsEntry(new.entries[i])
      /\ \A i \in DOMAIN old.entries : Host!IsEntry(old.entries[i])
  BY Zenon DEF Host!IsBuild
<1>2. Host!IsEntry(e) /\ sort \in Host!Spaces
  BY <1>1 DEF Host!IsEntry
<1>3. PICK k \in DOMAIN n : n[k] = e
  <2>1. Sorted(new.entries, sort, n)
    BY DeclaredFacts, Zenon
  <2> QED
    BY <2>1, Zenon DEF Sorted
<1>4. /\ k \notin DOMAIN o => n[k].from = Host!Local
      /\ k \in DOMAIN o => Quiet(Host!Changed(sort, k, o[k], n[k]))
  BY <1>2, <1>3, QuietSpace, Zenon
<1>5. k \in DOMAIN o
  BY <1>3, <1>4, Zenon
<1>6. o[k].sort = sort /\ \E i \in DOMAIN old.entries : old.entries[i] = o[k]
  <2>1. Sorted(old.entries, sort, o)
    BY DeclaredFacts, Zenon
  <2> QED
    BY <1>5, <2>1, Zenon DEF Sorted
<1>7. PICK i \in DOMAIN old.entries : old.entries[i] = o[k]
  BY <1>6
<1>8. Host!IsEntry(o[k])
  BY <1>1, <1>7, Zenon
<1>9. Quiet(Host!Changed(sort, k, o[k], e))
  BY <1>3, <1>4, <1>5, Zenon
<1>10. sort # "memory" => o[k].from = e.from
  <2>1. sort \in {"table", "global"} \/ sort = "memory"
    BY <1>2 DEF Host!Spaces
  <2>2. sort \in {"table", "global"} => o[k].from = n[k].from
    BY <1>3, <1>5, Zenon DEF OriginsKept
  <2> QED
    BY <1>3, <2>1, <2>2, Zenon
<1>11. e.sort = sort
  OBVIOUS
<1>12. e.from # Host!Local
  OBVIOUS
<1>13. new.entries[j] = e
  OBVIOUS
<1> HIDE DEF e, sort, o, n
<1>14. /\ o[k].type = e.type /\ o[k].mutable = e.mutable
       /\ sort = "memory" => o[k].from = e.from
  BY <1>2, <1>6, <1>8, <1>9, <1>11, QuietChange
<1> QED
  BY <1>6, <1>7, <1>10, <1>11, <1>12, <1>13, <1>14

LEMMA QuietMemories ==
  ASSUME NEW old, NEW new, Host!IsBuild(old), Host!IsBuild(new),
         \A sort \in Host!Spaces : Quiet(Host!SpaceFindings(old, new, sort))
  PROVE  LET o == Host!Declared(old, "memory")
             n == Host!Declared(new, "memory")
         IN  \A i \in DOMAIN n : i \in DOMAIN o =>
               n[i].min =< o[i].min /\ n[i].max >= o[i].max /\ n[i].type = o[i].type
<1> DEFINE o == Host!Declared(old, "memory")
           n == Host!Declared(new, "memory")
<1> SUFFICES ASSUME NEW i \in DOMAIN n, i \in DOMAIN o
             PROVE  n[i].min =< o[i].min /\ n[i].max >= o[i].max /\ n[i].type = o[i].type
  OBVIOUS
<1>1. "memory" \in Host!Spaces
  BY DEF Host!Spaces
<1>2. Quiet(Host!Changed("memory", i, o[i], n[i]))
  BY <1>1, QuietSpace, Zenon
<1>3. /\ o[i].sort = "memory" /\ \E j \in DOMAIN old.entries : old.entries[j] = o[i]
      /\ n[i].sort = "memory" /\ \E j \in DOMAIN new.entries : new.entries[j] = n[i]
  <2>1. Sorted(old.entries, "memory", o) /\ Sorted(new.entries, "memory", n)
    BY DeclaredFacts, Zenon
  <2> QED
    BY <2>1, Zenon DEF Sorted
<1>4. /\ \A j \in DOMAIN new.entries : Host!IsEntry(new.entries[j])
      /\ \A j \in DOMAIN old.entries : Host!IsEntry(old.entries[j])
  BY Zenon DEF Host!IsBuild
<1>5. Host!IsEntry(o[i]) /\ Host!IsEntry(n[i])
  BY <1>3, <1>4, Zenon
<1> HIDE DEF o, n
<1> QED
  BY <1>1, <1>2, <1>3, <1>5, QuietChange

LEMMA QuietStart ==
  ASSUME NEW old, NEW new, Host!IsBuild(new), Quiet(Host!StartFindings(old, new))
  PROVE  LET o == Host!Declared(old, "start")
             n == Host!Declared(new, "start")
         IN  n = <<>> \/ n = o
<1> DEFINE o == Host!Declared(old, "start")
           n == Host!Declared(new, "start")
           added == Host!Told("critical", "Start Function Added", <<"start_function">>)
           changed == Host!Told("warning", "Start Function Changed", <<"start_function">>)
<1>1. Quiet(Host!When(o = <<>> /\ n # <<>>, added))
  BY Zenon DEF Host!StartFindings, Quiet
<1>2. Quiet(Host!When(o # <<>> /\ n # <<>> /\ o # n, changed))
  BY Zenon DEF Host!StartFindings, Quiet
<1>3. added.severity # "info" /\ changed.severity # "info"
  BY DEF Host!Told
<1> HIDE DEF added, changed, o, n
<1>4. ~(o = <<>> /\ n # <<>>)
  BY <1>1, <1>3, WhenTells, Zenon
<1>5. ~(o # <<>> /\ n # <<>> /\ o # n)
  BY <1>2, <1>3, WhenTells, Zenon
<1> QED
  BY <1>4, <1>5 DEF o, n

LEMMA QuietProposals ==
  ASSUME NEW old, NEW new, Quiet(Host!ProposalFindings(old, new))
  PROVE  Host!Proposals(new) \subseteq Host!Proposals(old)
<1> SUFFICES ASSUME NEW p \in Host!Proposals(new), p \notin Host!Proposals(old) PROVE FALSE
  OBVIOUS
<1> DEFINE f == Host!Told("warning", "WASM Proposal Added", <<"proposal", p>>)
<1>1. f \in Host!ProposalFindings(old, new)
  BY Zenon DEF Host!ProposalFindings
<1>2. f.severity # "info"
  BY DEF Host!Told
<1> QED
  BY <1>1, <1>2, Zenon DEF Quiet

LEMMA QuietEnv ==
  ASSUME NEW old, NEW new, Host!IsBuild(old), Host!IsBuild(new),
         old.env # Host!NoMeta, Quiet(Host!EnvFindings(old, new))
  PROVE  new.env.protocol =< old.env.protocol
<1> DEFINE o == old.env
           n == new.env
           finding == CASE o = Host!NoMeta -> Host!Told("info", "Environment", <<"env_metadata">>)
                        [] n = Host!NoMeta -> Host!Told("warning", "Environment", <<"env_metadata">>)
                        [] o.protocol # n.protocol ->
                             Host!Told(IF o.protocol > n.protocol THEN "critical" ELSE "warning",
                                       "Environment", <<"protocol_version">>)
                        [] OTHER ->
                             Host!Told(IF o.prerelease > n.prerelease THEN "warning" ELSE "info",
                                       "Environment", <<"pre_release_version">>)
<1>1. Quiet(Host!When(o # n, finding))
  BY DEF Host!EnvFindings
<1>2. o.protocol \in Nat /\ n.protocol \in Nat
  BY DEF Host!IsBuild
<1>3. o # Host!NoMeta
  OBVIOUS
<1> HIDE DEF o, n
<1>4. o.protocol # n.protocol => finding.severity # "info"
  BY <1>3 DEF Host!Told
<1> HIDE DEF finding
<1>5. o # n => finding.severity = "info"
  BY <1>1, WhenTells, Zenon
<1>6. o.protocol = n.protocol
  BY <1>4, <1>5, Zenon
<1> QED
  BY <1>2, <1>6 DEF o, n

LEMMA QuietImports ==
  ASSUME NEW old, NEW new, Resolved(old), Resolved(new), Quiet(Host!ImportFindings(old, new)),
         NEW f \in DOMAIN new.imports
  PROVE  f \in DOMAIN old.imports /\ new.imports[f] = old.imports[f]
<1> DEFINE added == Host!Told("warning", IF f \in DOMAIN Capability THEN "Host Import Added"
                                         ELSE "Unknown Host Import", <<f>>)
           changed == Host!Told(IF f \in DOMAIN Capability THEN "critical" ELSE "warning",
                                "Host Import Signature Changed", <<f>>)
<1>1. added.severity # "info" /\ changed.severity # "info"
  BY DEF Host!Told
<1>2. f \notin DOMAIN old.imports => added \in Host!ImportFindings(old, new)
  BY Zenon DEF Host!ImportFindings
<1> HIDE DEF added, changed
<1>3. CASE f \in DOMAIN old.imports /\ new.imports[f] # old.imports[f]
  <2>1. f \in {g \in DOMAIN old.imports \cap DOMAIN new.imports :
                 /\ old.imports[g] # Host!Unresolved
                 /\ new.imports[g] # Host!Unresolved
                 /\ old.imports[g] # new.imports[g]}
    BY <1>3 DEF Resolved
  <2>2. changed \in Host!ImportFindings(old, new)
    BY <2>1, Zenon DEF Host!ImportFindings, changed
  <2> QED
    BY <1>1, <2>2, Zenon DEF Quiet
<1> QED
  BY <1>1, <1>2, <1>3, Zenon DEF Quiet

\* A comparison that tells of nothing above an informational finding.
LEMMA QuietHosts ==
  ASSUME NEW old, NEW new, Host!IsBuild(old), Host!IsBuild(new), old.env # Host!NoMeta,
         OriginsKept(old, new), Resolved(old), Resolved(new),
         Quiet(Host!HostFindings(old, new, FALSE))
  PROVE  NeedsNoMore(old, new)
<1>1. /\ \A sort \in Host!Spaces : Quiet(Host!SpaceFindings(old, new, sort))
      /\ Quiet(Host!StartFindings(old, new))
      /\ Quiet(Host!ProposalFindings(old, new))
      /\ Quiet(Host!EnvFindings(old, new))
      /\ Quiet(Host!ImportFindings(old, new))
  BY QuietParts, Zenon
<1>2. Imported(new) \subseteq Imported(old)
  BY <1>1, QuietImported
<1>3. \A f \in DOMAIN new.imports : f \in DOMAIN old.imports /\ new.imports[f] = old.imports[f]
  BY <1>1, QuietImports
<1>4. new.env.protocol =< old.env.protocol
  BY <1>1, QuietEnv
<1>5. Host!Proposals(new) \subseteq Host!Proposals(old)
  BY <1>1, QuietProposals
<1>6. LET o == Host!Declared(old, "start")
          n == Host!Declared(new, "start")
      IN  n = <<>> \/ n = o
  BY <1>1, QuietStart
<1>7. \A i \in DOMAIN Host!Declared(new, "start") :
        Host!Declared(new, "start")[i] \in {Host!Declared(old, "start")[j] :
                                              j \in DOMAIN Host!Declared(old, "start")}
  BY <1>6
<1>8. LET o == Host!Declared(old, "memory")
          n == Host!Declared(new, "memory")
      IN  \A i \in DOMAIN n : i \in DOMAIN o =>
            n[i].min =< o[i].min /\ n[i].max >= o[i].max /\ n[i].type = o[i].type
  BY <1>1, QuietMemories
<1> QED
  BY <1>2, <1>3, <1>4, <1>5, <1>7, <1>8, Zenon DEF NeedsNoMore

-----------------------------------------------------------------------------
(* The scan of a module for its storage operations.                        *)

Stores(op, host) == Storage!IsCall(op) /\ host[op] # Storage!NotStorage

\* A scan has observed a use.
Noted(scan, use) ==
    \E k \in DOMAIN scan.observations :
        /\ scan.observations[k].operation = use.operation
        /\ scan.observations[k].durability = use.durability

IsScan(scan) ==
    /\ DOMAIN scan = {"observations", "gaps", "instructions", "calls", "truncated", "label"}
    /\ \E S : scan.observations \in Seq(S)

\* A scan that has gone on from another.
Later(s, t) ==
    /\ s.truncated => t.truncated
    /\ \A u : Noted(s, u) => Noted(t, u)

LEMMA LaterOn ==
  /\ \A s : Later(s, s)
  /\ \A s, t, v : Later(s, t) /\ Later(t, v) => Later(s, v)
  BY Zenon DEF Later

LEMMA ObservedSame ==
  ASSUME NEW s, NEW t, IsScan(s), DOMAIN t = DOMAIN s, t.observations = s.observations,
         s.truncated => t.truncated
  PROVE  IsScan(t) /\ Later(s, t)
<1>1. IsScan(t)
  BY Zenon DEF IsScan
<1>2. \A u : Noted(s, u) => Noted(t, u)
  BY Zenon DEF Noted
<1> QED
  BY <1>1, <1>2, Zenon DEF Later

LEMMA ObservedMore ==
  ASSUME NEW s, NEW t, NEW e, IsScan(s), DOMAIN t = DOMAIN s,
         t.observations = Append(s.observations, e), s.truncated => t.truncated
  PROVE  IsScan(t) /\ Later(s, t) /\ Noted(t, e)
<1> DEFINE o == s.observations
           n == t.observations
<1>1. PICK S : o \in Seq(S)
  BY Zenon DEF IsScan
<1>2. o \in Seq(S \cup {e})
  BY <1>1
<1> DEFINE U == S \cup {e}
<1>3. o \in Seq(U) /\ e \in U /\ n = Append(o, e)
  BY <1>2
<1> HIDE DEF o, n, U
<1>4. /\ n \in Seq(U)
      /\ DOMAIN n = DOMAIN o \cup {Len(o) + 1}
      /\ \A k \in DOMAIN o : n[k] = o[k]
      /\ n[Len(o) + 1] = e
  BY <1>3, AppendProperties
<1>5. IsScan(t)
  BY <1>4, Zenon DEF IsScan, n
<1>6. \A u : Noted(s, u) => Noted(t, u)
  BY <1>4, Zenon DEF Noted, o, n
<1>7. Noted(t, e)
  <2>1. Len(o) + 1 \in DOMAIN n
    BY <1>4
  <2> QED
    BY <1>4, <2>1, Zenon DEF Noted, n
<1> QED
  BY <1>5, <1>6, <1>7, Zenon DEF Later

\* One operation: a call of a storage function is noted, unless the scan stops.
LEMMA ReadOnce ==
  ASSUME NEW s, IsScan(s), NEW op, NEW host
  PROVE  LET t == Storage!Read(s, op, host)
         IN  /\ IsScan(t) /\ Later(s, t)
             /\ ~t.truncated /\ Stores(op, host) => Noted(t, host[op])
<1> DEFINE t == Storage!Read(s, op, host)
           next == [s EXCEPT !.instructions = @ + 1,
                             !.calls = IF Storage!IsCall(op) THEN @ + 1 ELSE @]
           full == s.instructions >= MaxInstructions
           over == next.calls > MaxCalls
           e == [function   |-> s.label,
                 operation  |-> host[op].operation,
                 durability |-> host[op].durability,
                 key |-> Storage!Unstated, value |-> Storage!Unstated]
<1>1. /\ s.truncated => t = s
      /\ ~s.truncated /\ full =>
           t = [s EXCEPT !.truncated = TRUE, !.gaps = @ \cup {<<s.label, "instruction limit">>}]
      /\ ~s.truncated /\ ~full /\ over =>
           t = [next EXCEPT !.truncated = TRUE, !.gaps = @ \cup {<<s.label, "call limit">>}]
      /\ ~s.truncated /\ ~full /\ ~over /\ op = "indirect" =>
           t = [next EXCEPT !.gaps = @ \cup {<<s.label, "indirect call">>}]
      /\ ~s.truncated /\ ~full /\ ~over /\ op # "indirect" /\ Stores(op, host) =>
           t = [next EXCEPT !.observations = Append(@, e), !.gaps = @ \cup {<<s.label, "data flow">>}]
      /\ ~s.truncated /\ ~full /\ ~over /\ op # "indirect" /\ ~Stores(op, host) => t = next
  BY DEF Storage!Read, Stores
<1>2. DOMAIN s = {"observations", "gaps", "instructions", "calls", "truncated", "label"}
  BY Zenon DEF IsScan
<1>3. DOMAIN next = DOMAIN s /\ next.observations = s.observations /\ next.truncated = s.truncated
  BY <1>2
<1> HIDE DEF t, next, full, over, e
<1>4. CASE s.truncated
  <2>1. t = s
    BY <1>1, <1>4, Zenon
  <2>2. IsScan(t) /\ Later(s, t)
    BY <2>1, LaterOn, Zenon
  <2> QED
    BY <1>4, <2>1, <2>2, Zenon DEF t
<1>5. CASE ~s.truncated /\ full
  <2>1. t = [s EXCEPT !.truncated = TRUE, !.gaps = @ \cup {<<s.label, "instruction limit">>}]
    BY <1>1, <1>5, Zenon
  <2>2. DOMAIN t = DOMAIN s /\ t.observations = s.observations /\ t.truncated
    BY <1>2, <2>1
  <2>3. IsScan(t) /\ Later(s, t)
    BY <2>2, ObservedSame, Zenon
  <2> QED
    BY <2>2, <2>3, Zenon DEF t
<1>6. CASE ~s.truncated /\ ~full /\ over
  <2>1. t = [next EXCEPT !.truncated = TRUE, !.gaps = @ \cup {<<s.label, "call limit">>}]
    BY <1>1, <1>6, Zenon
  <2>2. DOMAIN t = DOMAIN s /\ t.observations = s.observations /\ t.truncated
    BY <1>2, <1>3, <2>1
  <2>3. IsScan(t) /\ Later(s, t)
    BY <2>2, ObservedSame, Zenon
  <2> QED
    BY <2>2, <2>3, Zenon DEF t
<1>7. CASE ~s.truncated /\ ~full /\ ~over /\ op = "indirect"
  <2>1. t = [next EXCEPT !.gaps = @ \cup {<<s.label, "indirect call">>}]
    BY <1>1, <1>7, Zenon
  <2>2. DOMAIN t = DOMAIN s /\ t.observations = s.observations
    BY <1>2, <1>3, <2>1
  <2>3. IsScan(t) /\ Later(s, t)
    BY <1>7, <2>2, ObservedSame, Zenon
  <2>4. ~Stores(op, host)
    BY <1>7 DEF Stores, Storage!IsCall
  <2> QED
    BY <2>3, <2>4, Zenon DEF t
<1>8. CASE ~s.truncated /\ ~full /\ ~over /\ op # "indirect" /\ Stores(op, host)
  <2>1. t = [next EXCEPT !.observations = Append(@, e), !.gaps = @ \cup {<<s.label, "data flow">>}]
    BY <1>1, <1>8, Zenon
  <2>2. DOMAIN t = DOMAIN s /\ t.observations = Append(s.observations, e)
    BY <1>2, <1>3, <2>1
  <2>3. IsScan(t) /\ Later(s, t) /\ Noted(t, e)
    BY <1>8, <2>2, ObservedMore, Zenon
  <2>4. e.operation = host[op].operation /\ e.durability = host[op].durability
    BY DEF e
  <2>5. Noted(t, host[op])
    BY <2>3, <2>4, Zenon DEF Noted
  <2> QED
    BY <2>3, <2>5, Zenon DEF t
<1>9. CASE ~s.truncated /\ ~full /\ ~over /\ op # "indirect" /\ ~Stores(op, host)
  <2>1. t = next
    BY <1>1, <1>9, Zenon
  <2>2. IsScan(t) /\ Later(s, t)
    BY <1>3, <1>9, <2>1, ObservedSame, Zenon
  <2> QED
    BY <1>9, <2>2, Zenon DEF t
<1> QED
  BY <1>4, <1>5, <1>6, <1>7, <1>8, <1>9, Zenon

\* What reading one more operation makes of a scan.
AfterOp(s, ops, host, f, k) == IF k = 0 THEN s ELSE Storage!Read(f[k - 1], ops[k], host)

Unrolled(s, body, host, t, f) ==
    /\ f = [k \in 0 .. Len(body.ops) |-> AfterOp(s, body.ops, host, f, k)]
    /\ t = [f[Len(body.ops)] EXCEPT !.label = Storage!Label(f[Len(body.ops)].instructions)]

LEMMA BodyUnfolds ==
  ASSUME NEW s, NEW body, NEW host, Len(body.ops) \in Nat
  PROVE  \E f : Unrolled(s, body, host, Storage!ReadBody(s, body, host), f)
<1> DEFINE ops == body.ops
           N == Len(ops)
           F == CHOOSE f : f = [k \in 0 .. N |-> AfterOp(s, ops, host, f, k)]
           Good == {n \in Nat : \E f : f = [k \in 0 .. n |-> AfterOp(s, ops, host, f, k)]}
<1>1. 0 \in Good
  <2> DEFINE f == [k \in 0 .. 0 |-> s]
  <2>1. f = [k \in 0 .. 0 |-> AfterOp(s, ops, host, f, k)]
    BY DEF AfterOp
  <2> QED
    BY <2>1
<1>2. ASSUME NEW n \in Nat, n \in Good PROVE n + 1 \in Good
  <2>1. PICK f : f = [k \in 0 .. n |-> AfterOp(s, ops, host, f, k)]
    BY <1>2
  <2> DEFINE g == [k \in 0 .. (n + 1) |-> IF k = n + 1 THEN AfterOp(s, ops, host, f, k) ELSE f[k]]
  <2>2. \A k \in 0 .. n : g[k] = f[k]
    OBVIOUS
  <2>3. ASSUME NEW k \in 0 .. (n + 1) PROVE AfterOp(s, ops, host, g, k) = AfterOp(s, ops, host, f, k)
    <3>1. k # 0 => g[k - 1] = f[k - 1]
      BY <2>2
    <3> HIDE DEF g
    <3> QED
      BY <3>1 DEF AfterOp
  <2>4. ASSUME NEW k \in 0 .. (n + 1) PROVE g[k] = AfterOp(s, ops, host, f, k)
    BY <2>1
  <2>5. g = [k \in 0 .. (n + 1) |-> g[k]]
    OBVIOUS
  <2> HIDE DEF g
  <2>6. g = [k \in 0 .. (n + 1) |-> AfterOp(s, ops, host, g, k)]
    BY <2>3, <2>4, <2>5
  <2> QED
    BY <2>6
<1>3. N \in Nat
  OBVIOUS
<1> HIDE DEF Good
<1>4. N \in Good
  BY <1>1, <1>2, <1>3, SetInduction
<1>5. \E f : f = [k \in 0 .. N |-> AfterOp(s, ops, host, f, k)]
  BY <1>4 DEF Good
<1>6. F = [k \in 0 .. N |-> AfterOp(s, ops, host, F, k)]
  BY <1>5
<1>7. Storage!ReadBody(s, body, host) = [F[N] EXCEPT !.label = Storage!Label(F[N].instructions)]
  BY DEF Storage!ReadBody, AfterOp
<1> QED
  BY <1>6, <1>7, Zenon DEF Unrolled

\* The first n operations of a body are noted, unless the scan stops.
ReadSoFar(s, t, ops, host, n) ==
    /\ IsScan(t) /\ Later(s, t)
    /\ ~t.truncated => \A k \in 1 .. n : Stores(ops[k], host) => Noted(t, host[ops[k]])

LEMMA BodyScanned ==
  ASSUME NEW s, IsScan(s), NEW body, Len(body.ops) \in Nat, NEW host
  PROVE  ReadSoFar(s, Storage!ReadBody(s, body, host), body.ops, host, Len(body.ops))
<1> DEFINE ops == body.ops
           N == Len(ops)
           t == Storage!ReadBody(s, body, host)
<1>0. PICK f : Unrolled(s, body, host, t, f)
  BY BodyUnfolds
<1>1. /\ f = [k \in 0 .. N |-> AfterOp(s, ops, host, f, k)]
      /\ t = [f[N] EXCEPT !.label = Storage!Label(f[N].instructions)]
  BY <1>0, Zenon DEF Unrolled
<1>2. N \in Nat
  OBVIOUS
<1> DEFINE Good == {n \in Nat : n <= N => ReadSoFar(s, f[n], ops, host, n)}
<1> HIDE DEF ops, N, t
<1>3. 0 \in Good
  <2>1. f[0] = s
    BY <1>1, <1>2 DEF AfterOp
  <2>2. ReadSoFar(s, s, ops, host, 0)
    BY LaterOn DEF ReadSoFar
  <2> QED
    BY <2>1, <2>2
<1>4. ASSUME NEW n \in Nat, n \in Good PROVE n + 1 \in Good
  <2> SUFFICES ASSUME n + 1 <= N PROVE ReadSoFar(s, f[n + 1], ops, host, n + 1)
    OBVIOUS
  <2>1. ReadSoFar(s, f[n], ops, host, n)
    BY <1>2, <1>4
  <2>2. f[n + 1] = Storage!Read(f[n], ops[n + 1], host)
    <3>1. n + 1 \in 0 .. N /\ n + 1 # 0 /\ (n + 1) - 1 = n
      BY <1>2
    <3>2. f[n + 1] = AfterOp(s, ops, host, f, n + 1)
      BY <1>1, <3>1
    <3> QED
      BY <3>1, <3>2 DEF AfterOp
  <2> DEFINE v == f[n + 1]
             w == f[n]
             op == ops[n + 1]
  <2>3. IsScan(w) /\ Later(s, w)
    BY <2>1, Zenon DEF ReadSoFar
  <2>4. v = Storage!Read(w, op, host)
    BY <2>2
  <2> HIDE DEF v, w, op
  <2>5. IsScan(v) /\ Later(w, v) /\ (~v.truncated /\ Stores(op, host) => Noted(v, host[op]))
    BY <2>3, <2>4, ReadOnce, Zenon
  <2>6. Later(s, v)
    BY <2>3, <2>5, LaterOn, Zenon
  <2>7. ASSUME ~v.truncated, NEW k \in 1 .. (n + 1), Stores(ops[k], host) PROVE Noted(v, host[ops[k]])
    <3>1. CASE k = n + 1
      BY <2>5, <2>7, <3>1 DEF op
    <3>2. CASE k \in 1 .. n
      <4>1. ~w.truncated
        BY <2>5, <2>7, Zenon DEF Later
      <4>2. Noted(w, host[ops[k]])
        BY <2>1, <2>7, <3>2, <4>1, Zenon DEF ReadSoFar, w
      <4> QED
        BY <2>5, <4>2, Zenon DEF Later
    <3> QED
      BY <3>1, <3>2
  <2> QED
    BY <2>5, <2>6, <2>7, Zenon DEF ReadSoFar, v
<1> HIDE DEF Good
<1>5. N \in Good
  BY <1>2, <1>3, <1>4, SetInduction
<1>6. ReadSoFar(s, f[N], ops, host, N)
  BY <1>2, <1>5 DEF Good
<1> DEFINE end == f[N]
<1>7. IsScan(end) /\ Later(s, end)
  BY <1>6, Zenon DEF ReadSoFar
<1>8. DOMAIN t = DOMAIN end /\ t.observations = end.observations /\ t.truncated = end.truncated
  BY <1>1, <1>7 DEF IsScan
<1> HIDE DEF end
<1>9. IsScan(t) /\ Later(end, t)
  BY <1>7, <1>8, ObservedSame, Zenon
<1>10. Later(s, t)
  BY <1>7, <1>9, LaterOn, Zenon
<1>11. ~t.truncated => \A k \in 1 .. N : Stores(ops[k], host) => Noted(t, host[ops[k]])
  BY <1>6, <1>8, <1>9, Zenon DEF ReadSoFar, Later, end
<1> QED
  BY <1>9, <1>10, <1>11, Zenon DEF ReadSoFar, ops, N, t

\* What reading one more body makes of a scan.
AfterBody(bodies, host, f, i) ==
    IF i = 0 THEN Storage!Start ELSE Storage!ReadBody(f[i - 1], bodies[i], host)

Scanned(module, f) == f = [i \in 0 .. Len(module.bodies) |-> AfterBody(module.bodies, module.host, f, i)]

\* The scan of every body, but for a last gap.
Ended(module, t, f) ==
    LET end == f[Len(module.bodies)]
    IN  t = end \/ t = [end EXCEPT !.gaps = @ \cup {<<"module", "not reachable">>}]

LEMMA ModuleUnfolds ==
  ASSUME NEW module, Len(module.bodies) \in Nat
  PROVE  \E f : Scanned(module, f) /\ Ended(module, Storage!ReadBodies(module), f)
<1> DEFINE bodies == module.bodies
           host == module.host
           N == Len(bodies)
           F == CHOOSE f : f = [i \in 0 .. N |-> AfterBody(bodies, host, f, i)]
           Good == {n \in Nat : \E f : f = [i \in 0 .. n |-> AfterBody(bodies, host, f, i)]}
<1>1. 0 \in Good
  <2> DEFINE f == [i \in 0 .. 0 |-> Storage!Start]
  <2>1. f = [i \in 0 .. 0 |-> AfterBody(bodies, host, f, i)]
    BY DEF AfterBody
  <2> QED
    BY <2>1
<1>2. ASSUME NEW n \in Nat, n \in Good PROVE n + 1 \in Good
  <2>1. PICK f : f = [i \in 0 .. n |-> AfterBody(bodies, host, f, i)]
    BY <1>2
  <2> DEFINE g == [i \in 0 .. (n + 1) |-> IF i = n + 1 THEN AfterBody(bodies, host, f, i) ELSE f[i]]
  <2>2. \A i \in 0 .. n : g[i] = f[i]
    OBVIOUS
  <2>3. ASSUME NEW i \in 0 .. (n + 1) PROVE AfterBody(bodies, host, g, i) = AfterBody(bodies, host, f, i)
    <3>1. i # 0 => g[i - 1] = f[i - 1]
      BY <2>2
    <3> HIDE DEF g
    <3> QED
      BY <3>1 DEF AfterBody
  <2>4. ASSUME NEW i \in 0 .. (n + 1) PROVE g[i] = AfterBody(bodies, host, f, i)
    BY <2>1
  <2>5. g = [i \in 0 .. (n + 1) |-> g[i]]
    OBVIOUS
  <2> HIDE DEF g
  <2>6. g = [i \in 0 .. (n + 1) |-> AfterBody(bodies, host, g, i)]
    BY <2>3, <2>4, <2>5
  <2> QED
    BY <2>6
<1>3. N \in Nat
  OBVIOUS
<1> HIDE DEF Good
<1>4. N \in Good
  BY <1>1, <1>2, <1>3, SetInduction
<1>5. \E f : f = [i \in 0 .. N |-> AfterBody(bodies, host, f, i)]
  BY <1>4 DEF Good
<1>6. Scanned(module, F)
  BY <1>5 DEF Scanned
<1>7. \/ Storage!ReadBodies(module) = F[N]
      \/ Storage!ReadBodies(module) = [F[N] EXCEPT !.gaps = @ \cup {<<"module", "not reachable">>}]
  BY DEF Storage!ReadBodies, AfterBody
<1> QED
  BY <1>6, <1>7, Zenon DEF Ended

\* What a scan that did not stop has noted of the first n bodies.
BodiesRead(t, module, n) ==
    /\ IsScan(t)
    /\ ~t.truncated =>
         \A i \in 1 .. n : \A k \in 1 .. Len(module.bodies[i].ops) :
            Stores(module.bodies[i].ops[k], module.host)
              => Noted(t, module.host[module.bodies[i].ops[k]])

LEMMA StartScan == IsScan(Storage!Start)
<1>1. Storage!Start.observations \in Seq({})
  BY DEF Storage!Start
<1>2. DOMAIN Storage!Start = {"observations", "gaps", "instructions", "calls", "truncated", "label"}
  BY DEF Storage!Start
<1> QED
  BY <1>1, <1>2, Zenon DEF IsScan

LEMMA BodiesScanned ==
  ASSUME NEW module, Storage!IsModule(module), NEW f, Scanned(module, f)
  PROVE  BodiesRead(f[Len(module.bodies)], module, Len(module.bodies))
<1> DEFINE bodies == module.bodies
           N == Len(bodies)
<1>1. N \in Nat /\ \A i \in 1 .. N : Len(bodies[i].ops) \in Nat
  <2>1. bodies \in Seq({bodies[i] : i \in DOMAIN bodies})
    BY Zenon DEF Storage!IsModule
  <2>2. N \in Nat /\ DOMAIN bodies = 1 .. N
    BY <2>1
  <2>3. ASSUME NEW i \in 1 .. N PROVE Len(bodies[i].ops) \in Nat
    <3> DEFINE ops == bodies[i].ops
    <3>1. ops \in Seq({ops[k] : k \in DOMAIN ops})
      BY <2>2, Zenon DEF Storage!IsModule
    <3> HIDE DEF ops
    <3>2. Len(ops) \in Nat
      BY <3>1
    <3> QED
      BY <3>2 DEF ops
  <2> QED
    BY <2>2, <2>3
<1>2. f = [i \in 0 .. N |-> AfterBody(bodies, module.host, f, i)]
  BY Zenon DEF Scanned
<1> DEFINE Good == {n \in Nat : n <= N => BodiesRead(f[n], module, n)}
<1> HIDE DEF N
<1>3. 0 \in Good
  <2>1. f[0] = Storage!Start
    BY <1>1, <1>2 DEF AfterBody
  <2>2. BodiesRead(Storage!Start, module, 0)
    BY StartScan DEF BodiesRead
  <2> QED
    BY <2>1, <2>2
<1>4. ASSUME NEW n \in Nat, n \in Good PROVE n + 1 \in Good
  <2> SUFFICES ASSUME n + 1 <= N PROVE BodiesRead(f[n + 1], module, n + 1)
    OBVIOUS
  <2>1. BodiesRead(f[n], module, n)
    BY <1>1, <1>4
  <2>2. n + 1 \in 1 .. N /\ n + 1 \in 0 .. N /\ n + 1 # 0 /\ (n + 1) - 1 = n
    BY <1>1
  <2>3. f[n + 1] = AfterBody(bodies, module.host, f, n + 1)
    BY <1>2, <2>2
  <2> DEFINE v == f[n + 1]
             w == f[n]
             body == bodies[n + 1]
             host == module.host
  <2>4. v = Storage!ReadBody(w, body, host)
    BY <2>2, <2>3 DEF AfterBody
  <2>5. IsScan(w)
    BY <2>1, Zenon DEF BodiesRead
  <2>6. Len(body.ops) \in Nat
    BY <1>1, <2>2
  <2> HIDE DEF v, w, body, host
  <2>7. ReadSoFar(w, v, body.ops, host, Len(body.ops))
    BY <2>4, <2>5, <2>6, BodyScanned, Zenon
  <2>8. IsScan(v) /\ Later(w, v)
    BY <2>7, Zenon DEF ReadSoFar
  <2>9. ASSUME ~v.truncated, NEW i \in 1 .. (n + 1), NEW k \in 1 .. Len(module.bodies[i].ops),
               Stores(module.bodies[i].ops[k], host)
        PROVE  Noted(v, host[module.bodies[i].ops[k]])
    <3>1. CASE i = n + 1
      <4>1. module.bodies[i] = body
        BY <3>1 DEF body
      <4> QED
        BY <2>7, <2>9, <4>1, Zenon DEF ReadSoFar
    <3>2. CASE i \in 1 .. n
      <4>1. ~w.truncated
        BY <2>8, <2>9, Zenon DEF Later
      <4>2. Noted(w, host[module.bodies[i].ops[k]])
        BY <2>1, <2>9, <3>2, <4>1, Zenon DEF BodiesRead, w, host
      <4> QED
        BY <2>8, <4>2, Zenon DEF Later
    <3> QED
      BY <3>1, <3>2
  <2> QED
    BY <2>8, <2>9, Zenon DEF BodiesRead, v, host
<1> HIDE DEF Good
<1>5. N \in Good
  BY <1>1, <1>3, <1>4, SetInduction
<1> QED
  BY <1>1, <1>5 DEF Good, N

\* A scan that did not stop has noted every use of storage.
LEMMA UsesNoted ==
  ASSUME NEW module, Storage!IsModule(module), Storage!InferStorage(module) # Storage!TooLarge
  PROVE  LET t == Storage!InferStorage(module)
         IN  IsScan(t) /\ (~t.truncated => \A u \in Uses(module) : Noted(t, u))
<1> DEFINE t == Storage!InferStorage(module)
           bodies == module.bodies
           host == module.host
           N == Len(bodies)
<1>1. bodies \in Seq({bodies[i] : i \in DOMAIN bodies})
  BY Zenon DEF Storage!IsModule
<1>2. N \in Nat /\ DOMAIN bodies = 1 .. N
  BY <1>1
<1>10. t = Storage!ReadBodies(module)
  BY Zenon DEF Storage!InferStorage
<1>3. PICK f : Scanned(module, f) /\ Ended(module, t, f)
  BY <1>2, <1>10, ModuleUnfolds, Zenon
<1> DEFINE end == f[N]
<1>4. BodiesRead(end, module, N)
  BY <1>3, BodiesScanned, Zenon
<1>5. t = end \/ t = [end EXCEPT !.gaps = @ \cup {<<"module", "not reachable">>}]
  BY <1>3, Zenon DEF Ended
<1> HIDE DEF t, end
<1>6. IsScan(end)
  BY <1>4, Zenon DEF BodiesRead
<1>7. DOMAIN t = DOMAIN end /\ t.observations = end.observations /\ t.truncated = end.truncated
  BY <1>5, <1>6 DEF IsScan
<1>8. IsScan(t) /\ Later(end, t)
  BY <1>6, <1>7, ObservedSame, Zenon
<1>9. ASSUME ~t.truncated, NEW u \in Uses(module) PROVE Noted(t, u)
  <2>1. PICK o \in DOMAIN host :
          /\ host[o] # Storage!NotStorage
          /\ \E i \in DOMAIN bodies : \E k \in DOMAIN bodies[i].ops : bodies[i].ops[k] = o
          /\ u = [operation |-> host[o].operation, durability |-> host[o].durability]
    BY <1>9 DEF Uses
  <2>2. PICK i \in DOMAIN bodies : \E k \in DOMAIN bodies[i].ops : bodies[i].ops[k] = o
    BY <2>1
  <2>3. PICK k \in DOMAIN bodies[i].ops : bodies[i].ops[k] = o
    BY <2>2
  <2>4. o \notin {"other", "indirect"}
    BY <2>1 DEF Storage!IsModule
  <2>5. Stores(o, host)
    BY <2>1, <2>4, Zenon DEF Stores, Storage!IsCall
  <2>6. k \in 1 .. Len(bodies[i].ops)
    <3> DEFINE ops == bodies[i].ops
    <3>1. ops \in Seq({ops[j] : j \in DOMAIN ops})
      BY Zenon DEF Storage!IsModule
    <3>2. k \in DOMAIN ops
      OBVIOUS
    <3> HIDE DEF ops
    <3>3. k \in 1 .. Len(ops)
      BY <3>1, <3>2
    <3> QED
      BY <3>3 DEF ops
  <2>7. Noted(end, host[o])
    BY <1>2, <1>4, <1>7, <1>9, <2>3, <2>5, <2>6, Zenon DEF BodiesRead
  <2>8. Noted(t, host[o])
    BY <1>8, <2>7, Zenon DEF Later
  <2>9. u.operation = host[o].operation /\ u.durability = host[o].durability
    BY <2>1
  <2> QED
    BY <2>8, <2>9, Zenon DEF Noted
<1> QED
  BY <1>8, <1>9, Zenon DEF t

-----------------------------------------------------------------------------
(* The reconciliation of a schema with a scan.                             *)

LEMMA LeastOf ==
  ASSUME NEW S, S \subseteq Nat, S # {}
  PROVE  \E i \in S : \A j \in S : i =< j
<1> DEFINE R == OpToRel(<, Nat)
<1>1. \A x, y \in Nat : x < y => <<x, y>> \in R
  BY DEF OpToRel
<1>2. IsWellFoundedOn(R, Nat)
  BY NatLessThanWellFounded, Zenon
<1> HIDE DEF R
<1>3. S \in SUBSET Nat
  OBVIOUS
<1>4. PICK i \in S : \A j \in S : ~(<<j, i>> \in R)
  BY <1>2, <1>3, WFMin
<1>5. ASSUME NEW j \in S PROVE i =< j
  <2>1. i \in Nat /\ j \in Nat /\ ~(j < i)
    BY <1>1, <1>3, <1>4, Zenon
  <2> QED
    BY <2>1
<1> QED
  BY <1>5, Zenon

LEMMA FirstIsOne ==
  ASSUME NEW S, S \subseteq Nat \ {0}
  PROVE  /\ Storage!First(S) # 0 => Storage!First(S) \in S
         /\ S # {} => Storage!First(S) \in S
<1>1. CASE S = {}
  <2>1. Storage!First(S) = 0
    BY <1>1, Zenon DEF Storage!First
  <2> QED
    BY <1>1, <2>1, Zenon
<1>2. CASE S # {}
  <2>1. \E i \in S : \A j \in S : i =< j
    BY <1>2, LeastOf
  <2>2. Storage!First(S) = CHOOSE i \in S : \A j \in S : i =< j
    BY <1>2, Zenon DEF Storage!First
  <2>3. Storage!First(S) \in S
    BY <2>1, <2>2, Zenon
  <2> QED
    BY <2>3, Zenon
<1> QED
  BY <1>1, <1>2, Zenon

LEMMA SchemaPositions ==
  ASSUME NEW schema, Storage!IsSchema(schema)
  PROVE  Len(schema) \in Nat /\ DOMAIN schema = 1 .. Len(schema) /\ DOMAIN schema \subseteq Nat \ {0}
<1>1. schema \in Seq({schema[i] : i \in DOMAIN schema})
  BY Zenon DEF Storage!IsSchema
<1> QED
  BY <1>1

LEMMA ScanPositions ==
  ASSUME NEW scan, IsScan(scan)
  PROVE  Len(scan.observations) \in Nat /\ DOMAIN scan.observations = 1 .. Len(scan.observations)
<1>1. PICK S : scan.observations \in Seq(S)
  BY Zenon DEF IsScan
<1> QED
  BY <1>1

\* Where nothing is told, every use that was observed is declared.
LEMMA NothingMissing ==
  ASSUME NEW schema, Storage!IsSchema(schema), NEW scan, Storage!Reconcile(schema, scan) = {},
         NEW u, Noted(scan, u)
  PROVE  \E i \in DOMAIN schema :
            /\ schema[i].operation = u.operation
            /\ schema[i].durability \in {Storage!Unstated, u.durability}
<1> DEFINE seen == scan.observations
<1>1. PICK k \in DOMAIN seen :
        seen[k].operation = u.operation /\ seen[k].durability = u.durability
  BY Zenon DEF Noted
<1>2. Storage!TakenBy(schema, seen[k]) # 0
  <2> SUFFICES ASSUME Storage!TakenBy(schema, seen[k]) = 0 PROVE FALSE
    OBVIOUS
  <2>1. <<"missing declaration", seen[k].function, k>> \in Storage!Reconcile(schema, scan)
    BY Zenon DEF Storage!Reconcile
  <2> QED
    BY <2>1
<1> DEFINE hits == {i \in DOMAIN schema : Storage!Matches(schema[i], seen[k])}
<1>3. Storage!First(hits) # 0
  BY <1>2, Zenon DEF Storage!TakenBy
<1>4. hits \subseteq Nat \ {0}
  BY SchemaPositions
<1>5. Storage!First(hits) \in hits
  <2> HIDE DEF hits
  <2> QED
    BY <1>3, <1>4, FirstIsOne, Zenon
<1>6. PICK i \in DOMAIN schema : Storage!Matches(schema[i], seen[k])
  BY <1>5, Zenon
<1>7. /\ schema[i].operation = seen[k].operation
      /\ schema[i].durability \in {Storage!Unstated, seen[k].durability}
  BY <1>6, Zenon DEF Storage!Matches
<1> QED
  BY <1>1, <1>6, <1>7, Zenon

\* Where no move is told, the declarations of one name agree.
LEMMA NothingMoved ==
  ASSUME NEW old, NEW new, Storage!IsSchema(new), Storage!Moves(old, new) = {}, NamesDiffer(new),
         NEW i \in DOMAIN old, NEW j \in DOMAIN new, old[i].name = new[j].name
  PROVE  /\ old[i].namespace = new[j].namespace
         /\ \/ Storage!Unstated \in {old[i].durability, new[j].durability}
            \/ old[i].durability = new[j].durability
<1> DEFINE name == old[i].name
           hits == {k \in DOMAIN new : new[k].name = name}
           at == Storage!Namesake(new, name)
<1>1. hits \subseteq Nat \ {0}
  BY SchemaPositions
<1>2. j \in hits
  OBVIOUS
<1>3. at = Storage!First(hits)
  BY Zenon DEF Storage!Namesake
<1>4. at \in hits
  <2> HIDE DEF hits, at
  <2> QED
    BY <1>1, <1>2, <1>3, FirstIsOne, Zenon
<1>5. new[at].name = new[j].name /\ at \in DOMAIN new
  BY <1>2, <1>4, Zenon
<1>6. at = j
  BY <1>5, Zenon DEF NamesDiffer
<1>7. at # 0
  BY <1>1, <1>4
<1> DEFINE moved(k) ==
             LET o == old[k]
                 n == new[Storage!Namesake(new, o.name)]
             IN  {<<"durability changed", o.name>> :
                      x \in {y \in {0} : Storage!Contradicts(o.durability, n.durability)}}
                 \cup {<<"namespace changed", o.name>> :
                          x \in {y \in {0} : o.namespace # n.namespace}}
<1>8. Storage!Moves(old, new) = UNION {moved(k) : k \in {l \in DOMAIN old : Storage!Namesake(new, old[l].name) # 0}}
  BY Zenon DEF Storage!Moves
<1>9. i \in {l \in DOMAIN old : Storage!Namesake(new, old[l].name) # 0}
  BY <1>7, Zenon
<1>10. moved(i) = {}
  <2> HIDE DEF moved, at
  <2> QED
    BY <1>8, <1>9
<1>11. ~Storage!Contradicts(old[i].durability, new[j].durability)
  BY <1>6, <1>10
<1>12. old[i].namespace = new[j].namespace
  BY <1>6, <1>10
<1> QED
  BY <1>11, <1>12, Zenon DEF Storage!Contradicts

-----------------------------------------------------------------------------
(* There are finitely many findings, so they can be counted.               *)

LEMMA UnionFinite ==
  ASSUME NEW n \in Nat, NEW F, \A i \in 1 .. n : IsFiniteSet(F[i])
  PROVE  IsFiniteSet(UNION {F[i] : i \in 1 .. n})
<1> DEFINE Upto(m) == UNION {F[i] : i \in 1 .. m}
           Good == {m \in Nat : m <= n => IsFiniteSet(Upto(m))}
<1>1. 0 \in Good
  <2>1. Upto(0) = {}
    OBVIOUS
  <2> HIDE DEF Upto
  <2> QED
    BY <2>1, FS_EmptySet
<1>2. ASSUME NEW m \in Nat, m \in Good PROVE m + 1 \in Good
  <2> SUFFICES ASSUME m + 1 <= n PROVE IsFiniteSet(Upto(m + 1))
    OBVIOUS
  <2>1. IsFiniteSet(Upto(m)) /\ IsFiniteSet(F[m + 1])
    BY <1>2
  <2>2. Upto(m + 1) = Upto(m) \cup F[m + 1]
    OBVIOUS
  <2> HIDE DEF Upto
  <2>3. IsFiniteSet(Upto(m) \cup F[m + 1])
    BY <2>1, FS_Union, Zenon
  <2> QED
    BY <2>2, <2>3, Zenon
<1> HIDE DEF Good
<1>3. n \in Good
  BY <1>1, <1>2, SetInduction
<1> QED
  BY <1>3 DEF Good

\* A set whose elements are each in one of finitely many finite sets.
LEMMA CoveredFinite ==
  ASSUME NEW n \in Nat, NEW F, \A i \in 1 .. n : IsFiniteSet(F[i]),
         NEW T, \A x \in T : \E i \in 1 .. n : x \in F[i]
  PROVE  IsFiniteSet(T)
<1>1. IsFiniteSet(UNION {F[i] : i \in 1 .. n})
  BY UnionFinite, Zenon
<1>2. T \in SUBSET UNION {F[i] : i \in 1 .. n}
  BY Zenon
<1> QED
  BY <1>1, <1>2, FS_Subset, Zenon

LEMMA ThreeFinite == ASSUME NEW a, NEW b, NEW c PROVE IsFiniteSet({a, b, c})
<1>1. IsFiniteSet({a}) /\ IsFiniteSet({b}) /\ IsFiniteSet({c})
  BY FS_Singleton
<1>2. IsFiniteSet({a} \cup {b})
  BY <1>1, FS_Union, Zenon
<1>3. IsFiniteSet(({a} \cup {b}) \cup {c})
  BY <1>1, <1>2, FS_Union, Zenon
<1>4. {a, b, c} = ({a} \cup {b}) \cup {c}
  BY Zenon
<1> QED
  BY <1>3, <1>4, Zenon

LEMMA ReconcileFinite ==
  ASSUME NEW schema, Storage!IsSchema(schema), NEW scan, IsScan(scan)
  PROVE  IsFiniteSet(Storage!Reconcile(schema, scan))
<1> DEFINE seen == scan.observations
           n == Len(seen)
           m == Len(schema)
           taken == {Storage!TakenBy(schema, seen[k]) : k \in DOMAIN seen}
           missing == {<<"missing declaration", seen[k].function, k>> :
                         k \in {j \in DOMAIN seen : Storage!TakenBy(schema, seen[j]) = 0}}
           wrong(k) == LET d == schema[Storage!TakenBy(schema, seen[k])]
                       IN  {<<"type contradiction", d.name, role>> :
                               role \in {r \in {"key", "value"} : Storage!Contradicts(d[r], seen[k][r])}}
                           \cup {<<"durability contradiction", d.name, seen[k].durability>> :
                                   x \in {y \in {0} : Storage!Contradicts(d.durability, seen[k].durability)}}
           contradicted == UNION {wrong(k) : k \in {j \in DOMAIN seen : Storage!TakenBy(schema, seen[j]) # 0}}
           unobserved == {<<"unobserved declaration", schema[i].name, i>> : i \in DOMAIN schema \ taken}
<1>1. Storage!Reconcile(schema, scan) = (missing \cup contradicted) \cup unobserved
  BY Zenon DEF Storage!Reconcile
<1>2. n \in Nat /\ DOMAIN seen = 1 .. n
  BY ScanPositions, Zenon
<1>3. m \in Nat /\ DOMAIN schema = 1 .. m
  BY SchemaPositions, Zenon
<1>4. IsFiniteSet(missing)
  <2> DEFINE F == [k \in 1 .. n |-> {<<"missing declaration", seen[k].function, k>>}]
  <2>1. \A k \in 1 .. n : IsFiniteSet(F[k])
    BY FS_Singleton
  <2>2. \A x \in missing : \E k \in 1 .. n : x \in F[k]
    BY <1>2
  <2> HIDE DEF F, missing, n
  <2> QED
    BY <1>2, <2>1, <2>2, CoveredFinite, Zenon
<1>5. IsFiniteSet(contradicted)
  <2> DEFINE d(k) == schema[Storage!TakenBy(schema, seen[k])]
             all(k) == {<<"type contradiction", d(k).name, "key">>,
                        <<"type contradiction", d(k).name, "value">>,
                        <<"durability contradiction", d(k).name, seen[k].durability>>}
             F == [k \in 1 .. n |-> all(k)]
  <2>1. \A k : wrong(k) \subseteq all(k)
    OBVIOUS
  <2>2. \A k : IsFiniteSet(all(k))
    BY ThreeFinite
  <2> HIDE DEF wrong, all
  <2>3. \A k \in 1 .. n : IsFiniteSet(F[k])
    BY <2>2
  <2>4. \A x \in contradicted : \E k \in 1 .. n : x \in F[k]
    BY <1>2, <2>1
  <2> HIDE DEF F, contradicted, n
  <2> QED
    BY <1>2, <2>3, <2>4, CoveredFinite, Zenon
<1>6. IsFiniteSet(unobserved)
  <2> DEFINE F == [i \in 1 .. m |-> {<<"unobserved declaration", schema[i].name, i>>}]
  <2>1. \A i \in 1 .. m : IsFiniteSet(F[i])
    BY FS_Singleton
  <2> HIDE DEF taken
  <2>2. \A x \in unobserved : \E i \in 1 .. m : x \in F[i]
    BY <1>3
  <2> HIDE DEF F, unobserved, m
  <2> QED
    BY <1>3, <2>1, <2>2, CoveredFinite, Zenon
<1> HIDE DEF missing, contradicted, unobserved
<1> QED
  BY <1>1, <1>4, <1>5, <1>6, FS_Union

LEMMA MovesFinite ==
  ASSUME NEW old, Storage!IsSchema(old), NEW new
  PROVE  IsFiniteSet(Storage!Moves(old, new))
<1> DEFINE n == Len(old)
           F == [i \in 1 .. n |-> {<<"durability changed", old[i].name>>,
                                   <<"namespace changed", old[i].name>>,
                                   <<"namespace changed", old[i].name>>}]
<1>1. n \in Nat /\ DOMAIN old = 1 .. n
  BY SchemaPositions, Zenon
<1>2. \A i \in 1 .. n : IsFiniteSet(F[i])
  BY ThreeFinite
<1> DEFINE told(i) ==
             LET o == old[i]
                 d == new[Storage!Namesake(new, o.name)]
             IN  {<<"durability changed", o.name>> :
                      x \in {y \in {0} : Storage!Contradicts(o.durability, d.durability)}}
                 \cup {<<"namespace changed", o.name>> :
                          x \in {y \in {0} : o.namespace # d.namespace}}
<1>3. Storage!Moves(old, new) = UNION {told(i) : i \in {j \in DOMAIN old : Storage!Namesake(new, old[j].name) # 0}}
  BY Zenon DEF Storage!Moves
<1>4. \A i \in 1 .. n : told(i) \subseteq F[i]
  OBVIOUS
<1> HIDE DEF told, F, n
<1>5. \A x \in Storage!Moves(old, new) : \E i \in 1 .. n : x \in F[i]
  BY <1>1, <1>3, <1>4
<1> QED
  BY <1>1, <1>2, <1>5, CoveredFinite, Zenon

-----------------------------------------------------------------------------
(* The report, one section after another.                                  *)

IsReport(r) ==
    /\ DOMAIN r = {"safe", "axes", "over", "complexity", "manifest", "samples",
                   "critical", "warning", "info", "total", "suppressed"}
    /\ DOMAIN r.axes = Axis
    /\ r.safe \in BOOLEAN
    /\ r.critical \in Int /\ r.warning \in Int /\ r.info \in Int /\ r.total \in Int

NothingFails(r) ==
    /\ \A a \in Axis : r.axes[a] # "failed"
    /\ r.over = {} /\ r.complexity = {} /\ r.manifest = {}
    /\ ~r.samples

\* The verdict follows from the parts and from x; the counters add up.
Stands(r, x) == r.safe = (NothingFails(r) /\ x)
AddsUp(r) == r.total = r.critical + r.warning + r.info

\* The other sections of the report are left alone.
Beside(r, t) ==
    /\ t.over = r.over /\ t.complexity = r.complexity
    /\ t.manifest = r.manifest /\ t.samples = r.samples

\* What a section that only counts findings and fails axes keeps.
Follows(r, t) ==
    /\ IsReport(t) /\ Beside(r, t)
    /\ AddsUp(r) => AddsUp(t)
    /\ \A x \in BOOLEAN : Stands(r, x) => Stands(t, x)

LEMMA FollowsItself == ASSUME NEW r, IsReport(r) PROVE Follows(r, r)
  BY Zenon DEF Follows, Beside

LEMMA FollowsOn ==
  ASSUME NEW r, NEW s, NEW t, Follows(r, s), Follows(s, t) PROVE Follows(r, t)
<1>1. IsReport(t) /\ (AddsUp(r) => AddsUp(t)) /\ \A x \in BOOLEAN : Stands(r, x) => Stands(t, x)
  BY Zenon DEF Follows
<1>2. Beside(r, t)
  BY Zenon DEF Follows, Beside
<1> QED
  BY <1>1, <1>2, Zenon DEF Follows

Severity == {"critical", "warning", "info"}

\* Counting a finding changes the counters alone.
LEMMA CountedMore ==
  ASSUME NEW r, IsReport(r), NEW severity \in Severity, NEW suppressed
  PROVE  LET t == Report!Counted(r, severity, suppressed)
         IN  /\ IsReport(t) /\ Beside(r, t) /\ t.axes = r.axes /\ t.safe = r.safe
             /\ AddsUp(r) => AddsUp(t)
<1> DEFINE t == Report!Counted(r, severity, suppressed)
<1>1. t = [r EXCEPT ![severity] = @ + 1, !.total = @ + 1,
                    !.suppressed = IF suppressed THEN @ + 1 ELSE @]
  BY Zenon DEF Report!Counted
<1>2. DOMAIN r = {"safe", "axes", "over", "complexity", "manifest", "samples",
                  "critical", "warning", "info", "total", "suppressed"}
  BY Zenon DEF IsReport
<1>3. /\ DOMAIN t = DOMAIN r
      /\ t.axes = r.axes /\ t.safe = r.safe
      /\ t.over = r.over /\ t.complexity = r.complexity /\ t.manifest = r.manifest /\ t.samples = r.samples
  BY <1>1, <1>2 DEF Severity
<1>4. r.critical \in Int /\ r.warning \in Int /\ r.info \in Int /\ r.total \in Int
  BY Zenon DEF IsReport
<1>5. /\ t.critical = (IF severity = "critical" THEN r.critical + 1 ELSE r.critical)
      /\ t.warning = (IF severity = "warning" THEN r.warning + 1 ELSE r.warning)
      /\ t.info = (IF severity = "info" THEN r.info + 1 ELSE r.info)
      /\ t.total = r.total + 1
  BY <1>1, <1>2 DEF Severity
<1> HIDE DEF t
<1>6. t.critical \in Int /\ t.warning \in Int /\ t.info \in Int /\ t.total \in Int
  BY <1>4, <1>5
<1>7. AddsUp(r) => AddsUp(t)
  BY <1>4, <1>5 DEF AddsUp, Severity
<1>8. IsReport(t) /\ Beside(r, t)
  BY <1>3, <1>6, Zenon DEF IsReport, Beside
<1> QED
  BY <1>3, <1>7, <1>8, Zenon DEF t

\* Counting alone leaves the verdict standing.
LEMMA CountedFollows ==
  ASSUME NEW r, IsReport(r), NEW severity \in Severity, NEW suppressed
  PROVE  Follows(r, Report!Counted(r, severity, suppressed))
<1> DEFINE t == Report!Counted(r, severity, suppressed)
<1>1. /\ IsReport(t) /\ Beside(r, t) /\ t.axes = r.axes /\ t.safe = r.safe
      /\ AddsUp(r) => AddsUp(t)
  BY CountedMore, Zenon
<1> HIDE DEF t
<1>2. NothingFails(r) <=> NothingFails(t)
  BY <1>1, Zenon DEF NothingFails, Beside
<1>3. \A x \in BOOLEAN : Stands(r, x) => Stands(t, x)
  BY <1>1, <1>2, Zenon DEF Stands
<1> QED
  BY <1>1, <1>3, Zenon DEF Follows, t

\* So does failing an axis on top.
LEMMA FailedFollows ==
  ASSUME NEW r, IsReport(r), NEW t, IsReport(t), Beside(r, t), AddsUp(r) => AddsUp(t),
         ~t.safe, \E a \in Axis : t.axes[a] = "failed"
  PROVE  Follows(r, t)
<1>1. ~NothingFails(t)
  BY Zenon DEF NothingFails
<1>2. t.safe = FALSE
  BY Zenon DEF IsReport
<1>3. \A x \in BOOLEAN : Stands(t, x)
  BY <1>1, <1>2, Zenon DEF Stands
<1> QED
  BY <1>3, Zenon DEF Follows

\* A critical storage finding that is not suppressed and whose axis is gated
\* makes the verdict unsafe.
LEMMA MismatchFollows ==
  ASSUME NEW r, IsReport(r), NEW mismatch, NEW settings
  PROVE  LET t == Report!ApplyMismatch(r, mismatch, settings)
         IN  /\ Follows(r, t)
             /\ ~mismatch.suppressed /\ Report!Gates(settings, "storage_layout") => ~t.safe
<1> DEFINE t == Report!ApplyMismatch(r, mismatch, settings)
           c == Report!Counted(r, "critical", mismatch.suppressed)
           gated == ~mismatch.suppressed /\ Report!Gates(settings, "storage_layout")
<1>1. "critical" \in Severity
  BY DEF Severity
<1>2. /\ IsReport(c) /\ Beside(r, c) /\ c.axes = r.axes /\ c.safe = r.safe
      /\ AddsUp(r) => AddsUp(c)
  BY <1>1, CountedMore, Zenon
<1>3. t = IF gated THEN [c EXCEPT !.safe = FALSE, !.axes["storage_layout"] = "failed"] ELSE c
  BY Zenon DEF Report!ApplyMismatch, Report!Fails
<1>4. Follows(r, c)
  BY <1>1, CountedFollows, Zenon
<1> HIDE DEF t, c, gated
<1>5. CASE gated
  <2>1. t = [c EXCEPT !.safe = FALSE, !.axes["storage_layout"] = "failed"]
    BY <1>3, <1>5, Zenon
  <2>2. DOMAIN c = {"safe", "axes", "over", "complexity", "manifest", "samples",
                    "critical", "warning", "info", "total", "suppressed"}
    BY <1>2, Zenon DEF IsReport
  <2>3. DOMAIN c.axes = Axis /\ "storage_layout" \in Axis
    BY <1>2, LimitsAssumption DEF IsReport
  <2>4. /\ DOMAIN t = DOMAIN c /\ t.safe = FALSE
        /\ DOMAIN t.axes = Axis /\ t.axes["storage_layout"] = "failed"
        /\ t.over = c.over /\ t.complexity = c.complexity /\ t.manifest = c.manifest /\ t.samples = c.samples
        /\ t.critical = c.critical /\ t.warning = c.warning /\ t.info = c.info /\ t.total = c.total
    BY <2>1, <2>2, <2>3
  <2>5. IsReport(t) /\ Beside(r, t) /\ (AddsUp(r) => AddsUp(t)) /\ ~t.safe
    BY <1>2, <2>4, Zenon DEF IsReport, Beside, AddsUp
  <2>6. \E a \in Axis : t.axes[a] = "failed"
    BY <2>3, <2>4, Zenon
  <2> QED
    BY <2>5, <2>6, FailedFollows, Zenon DEF t
<1>6. CASE ~gated
  <2>1. t = c
    BY <1>3, <1>6, Zenon
  <2> QED
    BY <1>4, <1>6, <2>1, Zenon DEF t, gated
<1> QED
  BY <1>5, <1>6, Zenon

\* What one more mismatch makes of a report.
AfterMismatch(r, ms, settings, f, i) ==
    IF i = 0 THEN r ELSE Report!ApplyMismatch(f[i - 1], ms[i], settings)

MismatchesApplied(r, ms, settings, f) ==
    f = [i \in 0 .. Len(ms) |-> AfterMismatch(r, ms, settings, f, i)]

LEMMA StorageUnfolds ==
  ASSUME NEW r, NEW ms, NEW settings, Len(ms) \in Nat
  PROVE  \E f : /\ MismatchesApplied(r, ms, settings, f)
                /\ Report!ApplyStorage(r, ms, settings) = f[Len(ms)]
<1> DEFINE N == Len(ms)
           F == CHOOSE f : f = [i \in 0 .. N |-> AfterMismatch(r, ms, settings, f, i)]
           Good == {n \in Nat : \E f : f = [i \in 0 .. n |-> AfterMismatch(r, ms, settings, f, i)]}
<1>1. 0 \in Good
  <2> DEFINE f == [i \in 0 .. 0 |-> r]
  <2>1. f = [i \in 0 .. 0 |-> AfterMismatch(r, ms, settings, f, i)]
    BY DEF AfterMismatch
  <2> QED
    BY <2>1
<1>2. ASSUME NEW n \in Nat, n \in Good PROVE n + 1 \in Good
  <2>1. PICK f : f = [i \in 0 .. n |-> AfterMismatch(r, ms, settings, f, i)]
    BY <1>2
  <2> DEFINE g == [i \in 0 .. (n + 1) |-> IF i = n + 1 THEN AfterMismatch(r, ms, settings, f, i) ELSE f[i]]
  <2>2. \A i \in 0 .. n : g[i] = f[i]
    OBVIOUS
  <2>3. ASSUME NEW i \in 0 .. (n + 1)
        PROVE  AfterMismatch(r, ms, settings, g, i) = AfterMismatch(r, ms, settings, f, i)
    <3>1. i # 0 => g[i - 1] = f[i - 1]
      BY <2>2
    <3> HIDE DEF g
    <3> QED
      BY <3>1 DEF AfterMismatch
  <2>4. ASSUME NEW i \in 0 .. (n + 1) PROVE g[i] = AfterMismatch(r, ms, settings, f, i)
    BY <2>1
  <2>5. g = [i \in 0 .. (n + 1) |-> g[i]]
    OBVIOUS
  <2> HIDE DEF g
  <2>6. g = [i \in 0 .. (n + 1) |-> AfterMismatch(r, ms, settings, g, i)]
    BY <2>3, <2>4, <2>5
  <2> QED
    BY <2>6
<1>3. N \in Nat
  OBVIOUS
<1> HIDE DEF Good
<1>4. N \in Good
  BY <1>1, <1>2, <1>3, SetInduction
<1>5. \E f : f = [i \in 0 .. N |-> AfterMismatch(r, ms, settings, f, i)]
  BY <1>4 DEF Good
<1>6. MismatchesApplied(r, ms, settings, F)
  BY <1>5 DEF MismatchesApplied
<1>7. Report!ApplyStorage(r, ms, settings) = F[N]
  BY DEF Report!ApplyStorage, AfterMismatch
<1> QED
  BY <1>6, <1>7, Zenon

\* The storage section leaves the verdict standing, and makes it unsafe if the
\* last of its findings does.
LEMMA StorageFollows ==
  ASSUME NEW r, IsReport(r), NEW ms, Len(ms) \in Nat, NEW settings
  PROVE  LET t == Report!ApplyStorage(r, ms, settings)
         IN  /\ Follows(r, t)
             /\ Len(ms) > 0 /\ ~ms[Len(ms)].suppressed /\ Report!Gates(settings, "storage_layout")
                  => ~t.safe
<1> DEFINE t == Report!ApplyStorage(r, ms, settings)
           N == Len(ms)
<1>1. PICK f : MismatchesApplied(r, ms, settings, f) /\ t = f[N]
  BY StorageUnfolds, Zenon
<1>2. f = [i \in 0 .. N |-> AfterMismatch(r, ms, settings, f, i)]
  BY <1>1, Zenon DEF MismatchesApplied
<1>3. N \in Nat
  OBVIOUS
<1> HIDE DEF N, t
<1>4. f[0] = r
  BY <1>2, <1>3 DEF AfterMismatch
<1>5. ASSUME NEW n \in Nat, n + 1 <= N
      PROVE  f[n + 1] = Report!ApplyMismatch(f[n], ms[n + 1], settings)
  <2>1. n + 1 \in 0 .. N /\ n + 1 # 0 /\ (n + 1) - 1 = n
    BY <1>3, <1>5
  <2>2. f[n + 1] = AfterMismatch(r, ms, settings, f, n + 1)
    BY <1>2, <2>1
  <2> QED
    BY <2>1, <2>2 DEF AfterMismatch
<1> DEFINE Good == {n \in Nat : n <= N => Follows(r, f[n])}
<1>6. 0 \in Good
  BY <1>4, FollowsItself
<1>7. ASSUME NEW n \in Nat, n \in Good PROVE n + 1 \in Good
  <2> SUFFICES ASSUME n + 1 <= N PROVE Follows(r, f[n + 1])
    OBVIOUS
  <2>1. Follows(r, f[n])
    BY <1>3, <1>7
  <2>2. IsReport(f[n])
    BY <2>1, Zenon DEF Follows
  <2>3. Follows(f[n], f[n + 1])
    BY <1>5, <2>2, MismatchFollows, Zenon
  <2> QED
    BY <2>1, <2>3, FollowsOn, Zenon
<1> HIDE DEF Good
<1>8. \A n \in Nat : n \in Good
  BY <1>6, <1>7, SetInduction
<1>9. Follows(r, t)
  BY <1>1, <1>3, <1>8 DEF Good
<1>10. ASSUME N > 0, ~ms[N].suppressed, Report!Gates(settings, "storage_layout") PROVE ~t.safe
  <2> DEFINE m == N - 1
  <2>1. m \in Nat /\ m + 1 = N /\ m + 1 <= N /\ m <= N
    BY <1>3, <1>10
  <2> HIDE DEF m
  <2>2. Follows(r, f[m])
    BY <1>8, <2>1 DEF Good
  <2>3. IsReport(f[m])
    BY <2>2, Zenon DEF Follows
  <2>4. f[m + 1] = Report!ApplyMismatch(f[m], ms[m + 1], settings)
    BY <1>5, <2>1, Zenon
  <2>5. t = Report!ApplyMismatch(f[m], ms[N], settings)
    BY <1>1, <2>1, <2>4, Zenon
  <2> QED
    BY <1>10, <2>3, <2>5, MismatchFollows, Zenon
<1> QED
  BY <1>9, <1>10, Zenon DEF t, N

\* The end of the judgement is a report whose verdict stands.
LEMMA JudgedStands ==
  ASSUME NEW axes, DOMAIN axes = Axis, NEW over
  PROVE  LET t == Report!Judged(axes, NothingElse, over)
         IN  /\ IsReport(t) /\ Stands(t, TRUE) /\ AddsUp(t)
             /\ t.complexity = {} /\ t.manifest = {} /\ t.samples = FALSE
<1> DEFINE t == Report!Judged(axes, NothingElse, over)
           safe == (\A a \in Axis : axes[a] # "failed") /\ over = {}
<1>1. safe \in BOOLEAN
  BY Zenon
<1>2. t = [safe |-> safe,
           axes |-> axes, over |-> over, complexity |-> {}, manifest |-> {}, samples |-> FALSE,
           critical |-> 0, warning |-> 0, info |-> 0, total |-> 0, suppressed |-> 0]
  BY DEF Report!Judged, NothingElse
<1> HIDE DEF t, safe
<1>3. /\ DOMAIN t = {"safe", "axes", "over", "complexity", "manifest", "samples",
                     "critical", "warning", "info", "total", "suppressed"}
      /\ t.axes = axes /\ t.over = over /\ t.complexity = {} /\ t.manifest = {} /\ t.samples = FALSE
      /\ t.critical = 0 /\ t.warning = 0 /\ t.info = 0 /\ t.total = 0
      /\ t.safe = safe
  BY <1>2
<1>4. t.critical \in Int /\ t.warning \in Int /\ t.info \in Int /\ t.total \in Int
  BY <1>3
<1>5. IsReport(t)
  BY <1>1, <1>3, <1>4, Zenon DEF IsReport
<1>6. AddsUp(t)
  BY <1>3 DEF AddsUp
<1>7. Stands(t, TRUE)
  BY <1>3, Zenon DEF Stands, NothingFails, safe
<1> QED
  BY <1>3, <1>5, <1>6, <1>7, Zenon DEF t

-----------------------------------------------------------------------------
(* The comparison of two builds, as an action.                             *)

\* An answer about two builds is the one that the comparison gave of the request.
HostsInv ==
    command = "hosts" =>
        /\ request \in Requests("hosts")
        /\ ~answer.refused => answer.findings = Host!HostFindings(request.old, request.new, request.plain)

LEMMA HostsCompared == ASSUME CompareHosts PROVE HostsInv'
<1>1. PICK r \in Requests("hosts") :
        Answers("hosts", r,
                IF Host!TooManyEntries(r.old) \/ Host!TooManyEntries(r.new)
                THEN [refused |-> TRUE, findings |-> {}]
                ELSE [refused |-> FALSE, findings |-> Host!HostFindings(r.old, r.new, r.plain)])
  BY Zenon DEF CompareHosts
<1> DEFINE full == Host!TooManyEntries(r.old) \/ Host!TooManyEntries(r.new)
           found == Host!HostFindings(r.old, r.new, r.plain)
<1>2. request' = r /\ answer' = IF full THEN [refused |-> TRUE, findings |-> {}]
                                ELSE [refused |-> FALSE, findings |-> found]
  BY <1>1, Zenon DEF Answers
<1>3. found = Host!HostFindings(request'.old, request'.new, request'.plain)
  BY <1>2, Zenon
<1> HIDE DEF full, found
<1>4. ~answer'.refused => answer'.findings = found
  BY <1>2
<1> QED
  BY <1>2, <1>3, <1>4, Zenon DEF HostsInv

\* Only its own call gives an answer of a kind.
LEMMA OneCommand ==
  ASSUME Next
  PROVE  /\ command' = "hosts" => CompareHosts
         /\ command' = "storage" => CompareStorage
         /\ command' = "budgets" => EvaluateBudgets
         /\ command' = "complexity" => EvaluateComplexity
         /\ command' = "report" => BuildReport
<1>1. \/ CompareHosts \/ CompareStorage \/ EvaluateBudgets \/ EvaluateComplexity \/ BuildReport
      \/ Attest \/ TightenPolicy \/ KeepEvidence \/ ResolveSettings \/ ChooseMode
      \/ ReadConfig \/ LoadInput \/ CheckProvenance \/ LockInterface \/ LintBuild
      \/ DrawImpact \/ ReadModule \/ MinimizeInput \/ ReadSaved \/ ShowSettings
  BY Zenon DEF Next
<1>2. CompareHosts => command' = "hosts"
  BY Zenon DEF CompareHosts, Answers
<1>3. CompareStorage => command' = "storage"
  BY Zenon DEF CompareStorage, Answers
<1>4. EvaluateBudgets => command' = "budgets"
  BY Zenon DEF EvaluateBudgets, Answers
<1>5. EvaluateComplexity => command' = "complexity"
  BY Zenon DEF EvaluateComplexity, Answers
<1>6. BuildReport => command' = "report"
  BY Zenon DEF BuildReport, Answers
<1>7. Attest => command' = "attest"
  BY Zenon DEF Attest, Answers
<1>8. TightenPolicy => command' = "policy"
  BY Zenon DEF TightenPolicy, Answers
<1>9. KeepEvidence => command' = "bundle"
  BY Zenon DEF KeepEvidence, Answers
<1>10. ResolveSettings => command' = "settings"
  BY Zenon DEF ResolveSettings, Answers
<1>11. ChooseMode => command' = "mode"
  BY Zenon DEF ChooseMode, Answers
<1>12. ReadConfig => command' = "config"
  BY Zenon DEF ReadConfig, Answers
<1>13. LoadInput => command' = "load"
  BY Zenon DEF LoadInput, Answers
<1>14. CheckProvenance => command' = "provenance"
  BY Zenon DEF CheckProvenance, Answers
<1>15. LockInterface => command' = "lockfile"
  BY Zenon DEF LockInterface, Answers
<1>16. LintBuild => command' = "lint"
  BY Zenon DEF LintBuild, Answers
<1>17. DrawImpact => command' = "graph"
  BY Zenon DEF DrawImpact, Answers
<1>18. ReadModule => command' = "extract"
  BY Zenon DEF ReadModule, Answers
<1>19. MinimizeInput => command' = "minimize"
  BY Zenon DEF MinimizeInput, Answers
<1>20. ReadSaved => command' = "saved"
  BY Zenon DEF ReadSaved, Answers
<1>21. ShowSettings => command' = "shown"
  BY Zenon DEF ShowSettings, Answers
<1>22. \/ CompareHosts /\ command' = "hosts"
       \/ CompareStorage /\ command' = "storage"
       \/ EvaluateBudgets /\ command' = "budgets"
       \/ EvaluateComplexity /\ command' = "complexity"
       \/ BuildReport /\ command' = "report"
       \/ command' \in {"attest", "policy", "bundle", "settings", "mode", "config", "load",
                        "provenance", "lockfile", "lint", "graph", "extract", "minimize",
                        "saved", "shown"}
  BY <1>1, <1>2, <1>3, <1>4, <1>5, <1>6, <1>7, <1>8, <1>9, <1>10, <1>11,
     <1>12, <1>13, <1>14, <1>15, <1>16, <1>17, <1>18, <1>19, <1>20, <1>21, Zenon
<1> QED
  BY <1>22

LEMMA HostsKept == ASSUME HostsInv, [Next]_vars PROVE HostsInv'
<1>1. CASE UNCHANGED vars
  BY <1>1, Zenon DEF HostsInv, vars
<1>2. CASE Next /\ command' = "hosts"
  BY <1>2, OneCommand, HostsCompared, Zenon
<1>3. CASE command' # "hosts"
  BY <1>3, Zenon DEF HostsInv
<1> QED
  BY <1>1, <1>2, <1>3, Zenon

LEMMA HostsInvMeans == ASSUME HostsInv PROVE QuietMeansDeployable
<1> SUFFICES ASSUME command = "hosts", ~answer.refused, ~request.plain,
                    request.old.env # Host!NoMeta,
                    OriginsKept(request.old, request.new),
                    Resolved(request.old), Resolved(request.new),
                    \A f \in answer.findings : f.severity = "info"
             PROVE  NeedsNoMore(request.old, request.new)
  BY Zenon DEF QuietMeansDeployable
<1>1. /\ request \in Requests("hosts")
      /\ answer.findings = Host!HostFindings(request.old, request.new, request.plain)
  BY Zenon DEF HostsInv
<1>2. Host!IsBuild(request.old) /\ Host!IsBuild(request.new)
  BY <1>1, HostsAssumption, Zenon
<1>3. Host!HostFindings(request.old, request.new, request.plain)
        = Host!HostFindings(request.old, request.new, FALSE)
  BY DEF Host!HostFindings
<1>4. Quiet(Host!HostFindings(request.old, request.new, FALSE))
  BY <1>1, <1>3, Zenon DEF Quiet
<1> QED
  BY <1>2, <1>4, QuietHosts, Zenon

\* Two builds whose comparison tells of nothing above an informational finding:
\* the new one runs wherever the old one ran (src/runtime_surface.rs and the
\* comparison of src/diff.rs), however many entries, imports and protocols there
\* are.
THEOREM QuietIsDeployable == Spec => []QuietMeansDeployable
<1>1. Init => HostsInv
  BY DEF Init, HostsInv
<1>2. HostsInv /\ [Next]_vars => HostsInv'
  BY HostsKept, Zenon
<1>3. HostsInv => QuietMeansDeployable
  BY HostsInvMeans, Zenon
<1> QED
  BY <1>1, <1>2, <1>3, PTL DEF Spec

-----------------------------------------------------------------------------
(* The comparison of two storage schemas, as an action.                    *)

StorageFound(r) ==
    Storage!CompareSchemas(r.old, Storage!InferStorage(r.oldModule),
                           r.new, Storage!InferStorage(r.newModule))
Mismatches(r) ==
    [i \in 1 .. Cardinality(StorageFound(r).old) + Cardinality(StorageFound(r).new)
                + Cardinality(StorageFound(r).moves) |-> [suppressed |-> r.suppressed]]
StorageReport(r) ==
    Report!ApplyStorage(Report!Judged([a \in Axis |-> "passed"], NothingElse, {}),
                        Mismatches(r), r.settings)
StorageAnswer(r) ==
    IF \/ Storage!InferStorage(r.oldModule) = Storage!TooLarge
       \/ Storage!InferStorage(r.newModule) = Storage!TooLarge
       \/ ~Storage!ValidSchema(r.old) \/ ~Storage!ValidSchema(r.new)
    THEN [refused |-> TRUE]
    ELSE [refused |-> FALSE, told |-> StorageFound(r),
          oldUse |-> Storage!InferStorage(r.oldModule), newUse |-> Storage!InferStorage(r.newModule),
          report |-> StorageReport(r)]

StorageInv ==
    command = "storage" => request \in Requests("storage") /\ answer = StorageAnswer(request)

LEMMA StorageCompared == ASSUME CompareStorage PROVE StorageInv'
<1>1. PICK r \in Requests("storage") : Answers("storage", r, StorageAnswer(r))
  BY Zenon DEF CompareStorage, StorageAnswer, StorageReport, Mismatches, StorageFound
<1>2. request' = r /\ answer' = StorageAnswer(r)
  BY <1>1, Zenon DEF Answers
<1>3. answer' = StorageAnswer(request')
  BY <1>2, Zenon
<1> QED
  BY <1>2, <1>3, Zenon DEF StorageInv

LEMMA StorageKept == ASSUME StorageInv, [Next]_vars PROVE StorageInv'
<1>1. CASE UNCHANGED vars
  BY <1>1, Zenon DEF StorageInv, vars
<1>2. CASE Next /\ command' = "storage"
  BY <1>2, OneCommand, StorageCompared, Zenon
<1>3. CASE command' # "storage"
  BY <1>3, Zenon DEF StorageInv
<1> QED
  BY <1>1, <1>2, <1>3, Zenon

\* A finding that is not suppressed makes the report unsafe.
LEMMA SafeFindsNothing ==
  ASSUME NEW r \in Requests("storage"), ~r.suppressed,
         Report!Gates(r.settings, "storage_layout"), StorageReport(r).safe,
         Storage!InferStorage(r.oldModule) # Storage!TooLarge,
         Storage!InferStorage(r.newModule) # Storage!TooLarge
  PROVE  LET told == StorageFound(r) IN told.old = {} /\ told.new = {} /\ told.moves = {}
<1> DEFINE told == StorageFound(r)
           oldUse == Storage!InferStorage(r.oldModule)
           newUse == Storage!InferStorage(r.newModule)
           judged == Report!Judged([a \in Axis |-> "passed"], NothingElse, {})
           n == Cardinality(told.old) + Cardinality(told.new) + Cardinality(told.moves)
           ms == Mismatches(r)
<1>1. /\ Storage!IsModule(r.oldModule) /\ Storage!IsModule(r.newModule)
      /\ Storage!IsSchema(r.old) /\ Storage!IsSchema(r.new)
  BY StorageAssumption, Zenon
<1>2. IsScan(oldUse) /\ IsScan(newUse)
  BY <1>1, UsesNoted, Zenon
<1>3. /\ told.old = Storage!Reconcile(r.old, oldUse)
      /\ told.new = Storage!Reconcile(r.new, newUse)
      /\ told.moves = Storage!Moves(r.old, r.new)
  BY DEF StorageFound, Storage!CompareSchemas
<1>4. ms = [i \in 1 .. n |-> [suppressed |-> r.suppressed]]
  BY Zenon DEF Mismatches
<1> HIDE DEF told, oldUse, newUse, ms
<1>5. IsFiniteSet(told.old) /\ IsFiniteSet(told.new) /\ IsFiniteSet(told.moves)
  BY <1>1, <1>2, <1>3, ReconcileFinite, MovesFinite, Zenon
<1>6. /\ Cardinality(told.old) \in Nat /\ Cardinality(told.new) \in Nat
      /\ Cardinality(told.moves) \in Nat
  BY <1>5, FS_CardinalityType, Zenon
<1>7. n \in Nat
  BY <1>6
<1>8. Len(ms) = n /\ (n > 0 => ms[n].suppressed = r.suppressed)
  <2> HIDE DEF n
  <2> QED
    BY <1>4, <1>7
<1>9. IsReport(judged)
  <2>1. DOMAIN [a \in Axis |-> "passed"] = Axis
    BY Zenon
  <2> QED
    BY <2>1, JudgedStands, Zenon
<1>10. StorageReport(r) = Report!ApplyStorage(judged, ms, r.settings)
  BY Zenon DEF StorageReport, ms
<1>11. n = 0
  <2> HIDE DEF n, judged
  <2>1. ~(Len(ms) > 0 /\ ~ms[Len(ms)].suppressed)
    BY <1>7, <1>8, <1>9, <1>10, StorageFollows, Zenon
  <2>2. ~(n > 0)
    BY <1>8, <2>1, Zenon
  <2> QED
    BY <1>7, <2>2
<1>12. Cardinality(told.old) = 0 /\ Cardinality(told.new) = 0 /\ Cardinality(told.moves) = 0
  BY <1>6, <1>11
<1> QED
  BY <1>5, <1>12, FS_EmptySet, Zenon DEF told

LEMMA StorageInvMeans == ASSUME StorageInv PROVE SafeMeansStorageKept
<1> DEFINE r == request
<1> SUFFICES ASSUME command = "storage", ~answer.refused, ~r.suppressed,
                    Report!Gates(r.settings, "storage_layout"), answer.report.safe
             PROVE  /\ answer.oldUse.truncated \/ Accounted(r.old, r.oldModule)
                    /\ answer.newUse.truncated \/ Accounted(r.new, r.newModule)
                    /\ NamesDiffer(r.new) =>
                         \A i \in DOMAIN r.old : \A j \in DOMAIN r.new :
                            r.old[i].name = r.new[j].name =>
                              /\ r.old[i].namespace = r.new[j].namespace
                              /\ Storage!Unstated \in {r.old[i].durability, r.new[j].durability}
                                   \/ r.old[i].durability = r.new[j].durability
  BY Zenon DEF SafeMeansStorageKept
<1>1. r \in Requests("storage") /\ answer = StorageAnswer(r)
  BY Zenon DEF StorageInv
<1> DEFINE oldUse == Storage!InferStorage(r.oldModule)
           newUse == Storage!InferStorage(r.newModule)
           told == StorageFound(r)
           wrong == \/ oldUse = Storage!TooLarge \/ newUse = Storage!TooLarge
                    \/ ~Storage!ValidSchema(r.old) \/ ~Storage!ValidSchema(r.new)
           report == StorageReport(r)
<1>2. answer = IF wrong THEN [refused |-> TRUE]
               ELSE [refused |-> FALSE, told |-> told, oldUse |-> oldUse, newUse |-> newUse,
                     report |-> report]
  BY <1>1, Zenon DEF StorageAnswer
<1>3. /\ told.old = Storage!Reconcile(r.old, oldUse)
      /\ told.new = Storage!Reconcile(r.new, newUse)
      /\ told.moves = Storage!Moves(r.old, r.new)
  BY DEF StorageFound, Storage!CompareSchemas
<1> HIDE DEF oldUse, newUse, told, wrong, report
<1>4. answer.oldUse = oldUse /\ answer.newUse = newUse /\ answer.report = report /\ ~wrong
  BY <1>2
<1>11. oldUse # Storage!TooLarge /\ newUse # Storage!TooLarge
  BY <1>4, Zenon DEF wrong
<1>5. told.old = {} /\ told.new = {} /\ told.moves = {}
  BY <1>1, <1>4, <1>11, SafeFindsNothing, Zenon DEF report, told, oldUse, newUse
<1>6. /\ Storage!IsModule(r.oldModule) /\ Storage!IsModule(r.newModule)
      /\ Storage!IsSchema(r.old) /\ Storage!IsSchema(r.new)
  BY <1>1, StorageAssumption, Zenon
<1>7. ASSUME NEW module, NEW schema, Storage!IsModule(module), Storage!IsSchema(schema),
             Storage!Reconcile(schema, Storage!InferStorage(module)) = {},
             ~Storage!InferStorage(module).truncated,
             Storage!InferStorage(module) # Storage!TooLarge
      PROVE  Accounted(schema, module)
  <2>1. ASSUME NEW u \in Uses(module)
        PROVE  \E i \in DOMAIN schema : /\ schema[i].operation = u.operation
                                        /\ schema[i].durability \in {Storage!Unstated, u.durability}
    <3>1. IsScan(Storage!InferStorage(module)) /\ Noted(Storage!InferStorage(module), u)
      BY <1>7, <2>1, UsesNoted, Zenon
    <3> QED
      BY <1>7, <3>1, NothingMissing, Zenon
  <2> QED
    BY <2>1, Zenon DEF Accounted
<1>8. answer.oldUse.truncated \/ Accounted(r.old, r.oldModule)
  BY <1>3, <1>4, <1>5, <1>6, <1>7, <1>11, Zenon DEF oldUse
<1>9. answer.newUse.truncated \/ Accounted(r.new, r.newModule)
  BY <1>3, <1>4, <1>5, <1>6, <1>7, <1>11, Zenon DEF newUse
<1>10. ASSUME NamesDiffer(r.new), NEW i \in DOMAIN r.old, NEW j \in DOMAIN r.new,
              r.old[i].name = r.new[j].name
       PROVE  /\ r.old[i].namespace = r.new[j].namespace
              /\ Storage!Unstated \in {r.old[i].durability, r.new[j].durability}
                   \/ r.old[i].durability = r.new[j].durability
  <2> HIDE DEF r
  <2>1. Storage!Moves(r.old, r.new) = {} /\ Storage!IsSchema(r.new)
    BY <1>3, <1>5, <1>6, Zenon
  <2> QED
    BY <1>10, <2>1, NothingMoved
<1> QED
  BY <1>8, <1>9, <1>10, Zenon

\* A safe verdict, with the storage axis gated and nothing suppressed: every
\* storage call that the analysis saw is declared, and no declaration moved
\* (src/storage_inference.rs, src/storage_schema.rs and the storage section of
\* src/report.rs), however many bodies, calls and declarations there are.
THEOREM SafeKeepsStorage == Spec => []SafeMeansStorageKept
<1>1. Init => StorageInv
  BY DEF Init, StorageInv
<1>2. StorageInv /\ [Next]_vars => StorageInv'
  BY StorageKept, Zenon
<1>3. StorageInv => SafeMeansStorageKept
  BY StorageInvMeans, Zenon
<1> QED
  BY <1>1, <1>2, <1>3, PTL DEF Spec

-----------------------------------------------------------------------------
(* A verdict and the parts it is explained by.                             *)

LEMMA ListPositions ==
  ASSUME NEW s, Report!IsList(s) PROVE Len(s) \in Nat /\ DOMAIN s = 1 .. Len(s)
<1>1. s \in Seq({s[i] : i \in DOMAIN s})
  BY Zenon DEF Report!IsList
<1> QED
  BY <1>1

\* The verdict and the counters stand, and no manifest was applied yet.
Telling(r, x) == IsReport(r) /\ Stands(r, x) /\ AddsUp(r) /\ r.manifest = {}

LEMMA FollowsTells ==
  ASSUME NEW x \in BOOLEAN, NEW r, Telling(r, x), NEW t, Follows(r, t)
  PROVE  Telling(t, x)
<1>1. IsReport(t) /\ AddsUp(t) /\ Stands(t, x)
  BY Zenon DEF Telling, Follows
<1>2. t.manifest = {}
  BY Zenon DEF Telling, Follows, Beside
<1> QED
  BY <1>1, <1>2, Zenon DEF Telling

\* A finding of an earlier release.
LEMMA HistoricalFollows ==
  ASSUME NEW r, IsReport(r), NEW h, h.severity \in Severity, h.axes \subseteq Axis, NEW settings
  PROVE  Follows(r, Report!ApplyHistorical(r, h, settings))
<1> DEFINE t == Report!ApplyHistorical(r, h, settings)
           c == Report!Counted(r, h.severity, h.suppressed)
           hit == {a \in h.axes : Report!Gates(settings, a)}
           after == [a \in Axis |-> IF a \in hit THEN "failed" ELSE c.axes[a]]
<1>1. /\ IsReport(c) /\ Beside(r, c) /\ c.axes = r.axes /\ c.safe = r.safe
      /\ AddsUp(r) => AddsUp(c)
  BY CountedMore, Zenon
<1>2. Follows(r, c)
  BY CountedFollows, Zenon
<1>3. t = IF h.suppressed \/ hit = {} THEN c ELSE [c EXCEPT !.safe = FALSE, !.axes = after]
  BY DEF Report!ApplyHistorical
<1>4. hit \subseteq Axis
  OBVIOUS
<1>5. DOMAIN after = Axis /\ \A a \in hit : after[a] = "failed"
  BY <1>4
<1> HIDE DEF t, c, hit, after
<1>6. CASE h.suppressed \/ hit = {}
  <2>1. t = c
    BY <1>3, <1>6, Zenon
  <2> QED
    BY <1>2, <2>1, Zenon DEF t
<1>7. CASE ~(h.suppressed \/ hit = {})
  <2>1. t = [c EXCEPT !.safe = FALSE, !.axes = after]
    BY <1>3, <1>7, Zenon
  <2>2. DOMAIN c = {"safe", "axes", "over", "complexity", "manifest", "samples",
                    "critical", "warning", "info", "total", "suppressed"}
    BY <1>1, Zenon DEF IsReport
  <2>3. /\ DOMAIN t = DOMAIN c /\ t.safe = FALSE /\ t.axes = after
        /\ t.over = c.over /\ t.complexity = c.complexity /\ t.manifest = c.manifest /\ t.samples = c.samples
        /\ t.critical = c.critical /\ t.warning = c.warning /\ t.info = c.info /\ t.total = c.total
    BY <2>1, <2>2
  <2>4. IsReport(t) /\ Beside(r, t) /\ (AddsUp(r) => AddsUp(t)) /\ ~t.safe
    BY <1>1, <1>5, <2>3, Zenon DEF IsReport, Beside, AddsUp
  <2>5. \E a \in Axis : t.axes[a] = "failed"
    BY <1>4, <1>5, <1>7, <2>3, Zenon
  <2> QED
    BY <2>4, <2>5, FailedFollows, Zenon DEF t
<1> QED
  BY <1>6, <1>7, Zenon

\* What one more historical finding makes of a report.
AfterHistorical(r, history, settings, f, i) ==
    IF i = 0 THEN [r EXCEPT !.safe = @ /\ Report!Clean(history, settings)]
    ELSE Report!ApplyHistorical(f[i - 1], history[i], settings)

HistoryApplied(r, history, settings, f) ==
    f = [i \in 0 .. Len(history) |-> AfterHistorical(r, history, settings, f, i)]

LEMMA LineageUnfolds ==
  ASSUME NEW r, NEW history, NEW settings, Len(history) \in Nat
  PROVE  \E f : /\ HistoryApplied(r, history, settings, f)
                /\ Report!ApplyLineage(r, history, settings) = f[Len(history)]
<1> DEFINE N == Len(history)
           F == CHOOSE f : f = [i \in 0 .. N |-> AfterHistorical(r, history, settings, f, i)]
           Good == {n \in Nat : \E f : f = [i \in 0 .. n |-> AfterHistorical(r, history, settings, f, i)]}
<1>1. 0 \in Good
  <2> DEFINE f == [i \in 0 .. 0 |-> [r EXCEPT !.safe = @ /\ Report!Clean(history, settings)]]
  <2>1. f = [i \in 0 .. 0 |-> AfterHistorical(r, history, settings, f, i)]
    BY DEF AfterHistorical
  <2> QED
    BY <2>1
<1>2. ASSUME NEW n \in Nat, n \in Good PROVE n + 1 \in Good
  <2>1. PICK f : f = [i \in 0 .. n |-> AfterHistorical(r, history, settings, f, i)]
    BY <1>2
  <2> DEFINE g == [i \in 0 .. (n + 1) |-> IF i = n + 1 THEN AfterHistorical(r, history, settings, f, i)
                                          ELSE f[i]]
  <2>2. \A i \in 0 .. n : g[i] = f[i]
    OBVIOUS
  <2>3. ASSUME NEW i \in 0 .. (n + 1)
        PROVE  AfterHistorical(r, history, settings, g, i) = AfterHistorical(r, history, settings, f, i)
    <3>1. i # 0 => g[i - 1] = f[i - 1]
      BY <2>2
    <3> HIDE DEF g
    <3> QED
      BY <3>1 DEF AfterHistorical
  <2>4. ASSUME NEW i \in 0 .. (n + 1) PROVE g[i] = AfterHistorical(r, history, settings, f, i)
    BY <2>1
  <2>5. g = [i \in 0 .. (n + 1) |-> g[i]]
    OBVIOUS
  <2> HIDE DEF g
  <2>6. g = [i \in 0 .. (n + 1) |-> AfterHistorical(r, history, settings, g, i)]
    BY <2>3, <2>4, <2>5
  <2> QED
    BY <2>6
<1>3. N \in Nat
  OBVIOUS
<1> HIDE DEF Good
<1>4. N \in Good
  BY <1>1, <1>2, <1>3, SetInduction
<1>5. \E f : f = [i \in 0 .. N |-> AfterHistorical(r, history, settings, f, i)]
  BY <1>4 DEF Good
<1>6. HistoryApplied(r, history, settings, F)
  BY <1>5 DEF HistoryApplied
<1>7. Report!ApplyLineage(r, history, settings) = F[N]
  BY DEF Report!ApplyLineage, AfterHistorical
<1> QED
  BY <1>6, <1>7, Zenon

LEMMA Both ==
  ASSUME NEW s \in BOOLEAN, NEW a \in BOOLEAN, NEW b \in BOOLEAN, s <=> a /\ b PROVE s = (a /\ b)
  OBVIOUS

\* What is applied to the verdict alone.
LEMMA VerdictMore ==
  ASSUME NEW r, IsReport(r), NEW y \in BOOLEAN, Stands(r, TRUE),
         NEW t, t = [r EXCEPT !.safe = @ /\ y]
  PROVE  /\ IsReport(t) /\ Beside(r, t) /\ Stands(t, y)
         /\ AddsUp(r) => AddsUp(t)
<1>1. DOMAIN r = {"safe", "axes", "over", "complexity", "manifest", "samples",
                  "critical", "warning", "info", "total", "suppressed"}
  BY Zenon DEF IsReport
<1>2. /\ DOMAIN t = DOMAIN r /\ t.axes = r.axes
      /\ t.over = r.over /\ t.complexity = r.complexity /\ t.manifest = r.manifest /\ t.samples = r.samples
      /\ t.critical = r.critical /\ t.warning = r.warning /\ t.info = r.info /\ t.total = r.total
  BY <1>1
<1>3. t.safe = (r.safe /\ y)
  BY <1>1
<1>4. IsReport(t) /\ Beside(r, t) /\ (AddsUp(r) => AddsUp(t))
  BY <1>2, <1>3, Zenon DEF IsReport, Beside, AddsUp
<1>5. NothingFails(t) <=> NothingFails(r)
  BY <1>2, Zenon DEF NothingFails
<1>6. r.safe <=> NothingFails(r)
  BY Zenon DEF Stands
<1>7. t.safe <=> NothingFails(t) /\ y
  BY <1>3, <1>5, <1>6, Zenon
<1>8. Stands(t, y)
  <2>1. NothingFails(t) \in BOOLEAN
    BY Zenon DEF NothingFails
  <2>2. t.safe \in BOOLEAN
    BY <1>4, Zenon DEF IsReport
  <2> QED
    BY <1>7, <2>1, <2>2, Both, Zenon DEF Stands
<1> QED
  BY <1>4, <1>8, Zenon

\* The history has a say of its own.
LEMMA LineageTells ==
  ASSUME NEW r, Telling(r, TRUE), NEW history, Report!IsList(history), NEW settings,
         \A i \in DOMAIN history : history[i].severity \in Severity /\ history[i].axes \subseteq Axis
  PROVE  LET t == Report!ApplyLineage(r, history, settings)
         IN  Telling(t, Report!Clean(history, settings)) /\ t.complexity = r.complexity
<1> DEFINE t == Report!ApplyLineage(r, history, settings)
           N == Len(history)
           clean == Report!Clean(history, settings)
<1>1. N \in Nat /\ DOMAIN history = 1 .. N
  BY ListPositions, Zenon
<1>2. PICK f : HistoryApplied(r, history, settings, f) /\ t = f[N]
  BY <1>1, LineageUnfolds, Zenon
<1>3. f = [i \in 0 .. N |-> AfterHistorical(r, history, settings, f, i)]
  BY <1>2, Zenon DEF HistoryApplied
<1>4. clean \in BOOLEAN
  BY DEF Report!Clean
<1> HIDE DEF N, t, clean
<1>5. f[0] = [r EXCEPT !.safe = @ /\ clean]
  BY <1>1, <1>3 DEF AfterHistorical, clean
<1>6. ASSUME NEW n \in Nat, n + 1 <= N
      PROVE  f[n + 1] = Report!ApplyHistorical(f[n], history[n + 1], settings)
  <2>1. n + 1 \in 0 .. N /\ n + 1 # 0 /\ (n + 1) - 1 = n
    BY <1>1, <1>6
  <2>2. f[n + 1] = AfterHistorical(r, history, settings, f, n + 1)
    BY <1>3, <2>1
  <2> QED
    BY <2>1, <2>2 DEF AfterHistorical
<1> DEFINE start == f[0]
<1>7. IsReport(start) /\ Beside(r, start) /\ Stands(start, clean) /\ AddsUp(start)
  <2>1. IsReport(r) /\ Stands(r, TRUE) /\ AddsUp(r)
    BY Zenon DEF Telling
  <2> HIDE DEF start
  <2>2. start = [r EXCEPT !.safe = @ /\ clean]
    BY <1>5 DEF start
  <2> QED
    BY <1>4, <2>1, <2>2, VerdictMore
<1>8. Telling(start, clean)
  BY <1>7, Zenon DEF Telling, Beside
<1> DEFINE Good == {n \in Nat : n <= N => Follows(start, f[n])}
<1>9. 0 \in Good
  BY <1>7, FollowsItself
<1>10. ASSUME NEW n \in Nat, n \in Good PROVE n + 1 \in Good
  <2> SUFFICES ASSUME n + 1 <= N PROVE Follows(start, f[n + 1])
    OBVIOUS
  <2>1. Follows(start, f[n])
    BY <1>1, <1>10
  <2> HIDE DEF start
  <2>2. IsReport(f[n])
    BY <2>1, Zenon DEF Follows
  <2>3. n + 1 \in DOMAIN history
    BY <1>1
  <2>4. history[n + 1].severity \in Severity /\ history[n + 1].axes \subseteq Axis
    BY <2>3, Zenon
  <2>5. Follows(f[n], f[n + 1])
    BY <1>6, <2>2, <2>4, HistoricalFollows, Zenon
  <2> QED
    BY <2>1, <2>5, FollowsOn, Zenon
<1> HIDE DEF Good
<1>11. N \in Good
  BY <1>1, <1>9, <1>10, SetInduction
<1>12. Follows(start, t)
  BY <1>1, <1>2, <1>11 DEF Good
<1> HIDE DEF start
<1>13. Telling(t, clean)
  BY <1>4, <1>8, <1>12, FollowsTells, Zenon
<1>14. t.complexity = r.complexity
  BY <1>7, <1>12, Zenon DEF Follows, Beside
<1> QED
  BY <1>13, <1>14, Zenon DEF t, clean

LEMMA StorageTells ==
  ASSUME NEW x \in BOOLEAN, NEW r, Telling(r, x), NEW ms, Report!IsList(ms), NEW settings
  PROVE  LET t == Report!ApplyStorage(r, ms, settings)
         IN  Telling(t, x) /\ t.complexity = r.complexity
<1> DEFINE t == Report!ApplyStorage(r, ms, settings)
<1>1. Len(ms) \in Nat
  BY ListPositions, Zenon
<1>2. IsReport(r)
  BY Zenon DEF Telling
<1>3. Follows(r, t)
  BY <1>1, <1>2, StorageFollows, Zenon
<1> HIDE DEF t
<1>4. Telling(t, x)
  BY <1>3, FollowsTells, Zenon
<1> QED
  BY <1>3, <1>4, Zenon DEF Follows, Beside, t

\* A section that was empty is filled in, and gates the verdict if it is not.
LEMMA ComplexityTells ==
  ASSUME NEW x \in BOOLEAN, NEW r, Telling(r, x), r.complexity = {}, NEW profiled, NEW exceeded
  PROVE  Telling(Report!ApplyComplexity(r, profiled, exceeded), x)
<1> DEFINE t == Report!ApplyComplexity(r, profiled, exceeded)
           none == exceeded = {}
<1>1. t = IF profiled THEN [r EXCEPT !.safe = @ /\ none, !.complexity = exceeded] ELSE r
  BY Zenon DEF Report!ApplyComplexity
<1> HIDE DEF t
<1>2. CASE ~profiled
  <2>1. t = r
    BY <1>1, <1>2, Zenon
  <2> QED
    BY <2>1, Zenon DEF t
<1>3. CASE profiled
  <2>1. t = [r EXCEPT !.safe = @ /\ none, !.complexity = exceeded]
    BY <1>1, <1>3, Zenon
  <2>2. DOMAIN r = {"safe", "axes", "over", "complexity", "manifest", "samples",
                    "critical", "warning", "info", "total", "suppressed"}
    BY Zenon DEF Telling, IsReport
  <2> HIDE DEF none
  <2>3. /\ DOMAIN t = DOMAIN r /\ t.axes = r.axes
        /\ t.over = r.over /\ t.complexity = exceeded /\ t.manifest = r.manifest /\ t.samples = r.samples
        /\ t.critical = r.critical /\ t.warning = r.warning /\ t.info = r.info /\ t.total = r.total
    BY <2>1, <2>2
  <2>4. t.safe = (r.safe /\ none)
    BY <2>1, <2>2
  <2>5. IsReport(t) /\ AddsUp(t) /\ t.manifest = {}
    BY <2>3, <2>4, Zenon DEF Telling, IsReport, AddsUp
  <2>6. NothingFails(t) <=> NothingFails(r) /\ none
    BY <2>3, Zenon DEF NothingFails, none
  <2>7. t.safe = (NothingFails(r) /\ x /\ none)
    BY <2>4, Zenon DEF Telling, Stands
  <2>8. Stands(t, x)
    BY <2>6, <2>7, Zenon DEF Stands
  <2> QED
    BY <2>5, <2>8, Zenon DEF Telling, t
<1> QED
  BY <1>2, <1>3, Zenon

LEMMA SamplesTells ==
  ASSUME NEW x \in BOOLEAN, NEW r, Telling(r, x), r.samples = FALSE, NEW undecodable
  PROVE  Telling(Report!ApplySamples(r, undecodable), x)
<1> DEFINE t == Report!ApplySamples(r, undecodable)
           none == ~undecodable
<1>1. t = [r EXCEPT !.safe = @ /\ none, !.samples = undecodable]
  BY Zenon DEF Report!ApplySamples
<1> HIDE DEF t
<1>2. DOMAIN r = {"safe", "axes", "over", "complexity", "manifest", "samples",
                  "critical", "warning", "info", "total", "suppressed"}
  BY Zenon DEF Telling, IsReport
<1> HIDE DEF none
<1>3. /\ DOMAIN t = DOMAIN r /\ t.axes = r.axes
      /\ t.over = r.over /\ t.complexity = r.complexity /\ t.manifest = r.manifest /\ t.samples = undecodable
      /\ t.critical = r.critical /\ t.warning = r.warning /\ t.info = r.info /\ t.total = r.total
  BY <1>1, <1>2
<1>4. t.safe = (r.safe /\ none)
  BY <1>1, <1>2
<1>5. IsReport(t) /\ AddsUp(t) /\ t.manifest = {}
  BY <1>3, <1>4, Zenon DEF Telling, IsReport, AddsUp
<1>6. ~t.samples <=> none
  BY <1>3, Zenon DEF none
<1>7. ~r.samples
  OBVIOUS
<1>8. NothingFails(t) <=> NothingFails(r) /\ none
  BY <1>3, <1>6, <1>7, Zenon DEF NothingFails
<1>9. t.safe = (NothingFails(r) /\ x /\ none)
  BY <1>4, Zenon DEF Telling, Stands
<1>10. Stands(t, x)
  BY <1>8, <1>9, Zenon DEF Stands
<1> QED
  BY <1>5, <1>10, Zenon DEF Telling, t

LEMMA ManifestTells ==
  ASSUME NEW x \in BOOLEAN, NEW r, Telling(r, x), NEW fields, IsFiniteSet(DOMAIN fields), NEW stale, NEW gate
  PROVE  LET t == Report!ApplyManifest(r, fields, stale, gate) IN Stands(t, x) /\ AddsUp(t)
<1> DEFINE t == Report!ApplyManifest(r, fields, stale, gate)
           wrong == Report!WithStatus(fields, "mismatched")
           told == Cardinality(wrong) + (IF stale THEN 1 ELSE 0)
           fine == ~(gate /\ told > 0)
           gated == IF gate THEN wrong \cup (IF stale THEN {0} ELSE {}) ELSE {}
<1>1. t = [r EXCEPT !.safe = @ /\ fine, !.warning = @ + told, !.total = @ + told, !.manifest = gated]
  BY Zenon DEF Report!ApplyManifest, Report!Cardinality, Cardinality
<1>2. IsFiniteSet(wrong)
  <2>1. wrong \in SUBSET DOMAIN fields
    BY Zenon DEF Report!WithStatus
  <2> QED
    BY <2>1, FS_Subset, Zenon
<1> HIDE DEF t, wrong
<1>3. Cardinality(wrong) \in Nat /\ (Cardinality(wrong) = 0 <=> wrong = {})
  BY <1>2, FS_CardinalityType, FS_EmptySet, Zenon
<1>4. told \in Nat /\ (told > 0 <=> wrong # {} \/ stale)
  BY <1>3
<1>5. gated = {} <=> ~gate \/ (wrong = {} /\ ~stale)
  OBVIOUS
<1> HIDE DEF told
<1>6. fine <=> gated = {}
  BY <1>4, <1>5, Zenon
<1>7. DOMAIN r = {"safe", "axes", "over", "complexity", "manifest", "samples",
                  "critical", "warning", "info", "total", "suppressed"}
  BY Zenon DEF Telling, IsReport
<1> HIDE DEF fine, gated
<1>8. /\ t.axes = r.axes
      /\ t.over = r.over /\ t.complexity = r.complexity /\ t.manifest = gated /\ t.samples = r.samples
      /\ t.critical = r.critical /\ t.info = r.info
      /\ t.warning = r.warning + told /\ t.total = r.total + told
  BY <1>1, <1>7
<1>9. t.safe = (r.safe /\ fine)
  BY <1>1, <1>7
<1>10. AddsUp(t)
  <2>1. /\ r.critical \in Int /\ r.warning \in Int /\ r.info \in Int /\ r.total \in Int
        /\ r.total = r.critical + r.warning + r.info
    BY Zenon DEF Telling, IsReport, AddsUp
  <2> QED
    BY <1>4, <1>8, <2>1 DEF AddsUp
<1>11. r.manifest = {}
  BY Zenon DEF Telling
<1>12. NothingFails(t) <=> NothingFails(r) /\ fine
  BY <1>6, <1>8, <1>11, Zenon DEF NothingFails
<1>13. t.safe = (NothingFails(r) /\ x /\ fine)
  BY <1>9, Zenon DEF Telling, Stands
<1>14. Stands(t, x)
  BY <1>12, <1>13, Zenon DEF Stands
<1> QED
  BY <1>10, <1>14, Zenon DEF t

-----------------------------------------------------------------------------
(* A report, as an action.                                                 *)

ReportDriven(r) ==
    LET judged == Report!Judged(r.axes, NothingElse, r.over)
    IN  IF r.driver = "library" THEN Report!LibraryReport(judged, r)
        ELSE IF r.driver = "binding" THEN Report!BindingReport(judged, r)
        ELSE IF r.driver = "command line" THEN Report!CommandReport(judged, r)
        ELSE Report!Noop(NothingElse)
ReportAnswer(r) == Report!ApplyManifest(ReportDriven(r), r.fields, r.stale, r.gateManifest)

\* The history has a say in two of the drivers.
HistorySays(r) ==
    r.driver \in {"library", "command line"} => Report!Clean(r.history, r.settings)

ReportInv ==
    command = "report" => request \in Requests("report") /\ answer = ReportAnswer(request)

LEMMA ReportBuilt == ASSUME BuildReport PROVE ReportInv'
<1>1. PICK r \in Requests("report") : Answers("report", r, ReportAnswer(r))
  BY Zenon DEF BuildReport, ReportAnswer, ReportDriven
<1>2. request' = r /\ answer' = ReportAnswer(r)
  BY <1>1, Zenon DEF Answers
<1>3. answer' = ReportAnswer(request')
  BY <1>2, Zenon
<1> QED
  BY <1>2, <1>3, Zenon DEF ReportInv

LEMMA ReportKept == ASSUME ReportInv, [Next]_vars PROVE ReportInv'
<1>1. CASE UNCHANGED vars
  BY <1>1, Zenon DEF ReportInv, vars
<1>2. CASE Next /\ command' = "report"
  BY <1>2, OneCommand, ReportBuilt, Zenon
<1>3. CASE command' # "report"
  BY <1>3, Zenon DEF ReportInv
<1> QED
  BY <1>1, <1>2, <1>3, Zenon

LEMMA DrivenTells ==
  ASSUME NEW r, Report!IsInput(r)
  PROVE  HistorySays(r) \in BOOLEAN /\ Telling(ReportDriven(r), HistorySays(r))
<1> DEFINE judged == Report!Judged(r.axes, NothingElse, r.over)
           t == ReportDriven(r)
           clean == Report!Clean(r.history, r.settings)
<1>1. /\ DOMAIN r.axes = Axis /\ Report!IsList(r.mismatches) /\ Report!IsList(r.history)
      /\ \A i \in DOMAIN r.history : r.history[i].severity \in Severity /\ r.history[i].axes \subseteq Axis
  BY Zenon DEF Report!IsInput, Severity
<1>2. /\ IsReport(judged) /\ Stands(judged, TRUE) /\ AddsUp(judged)
      /\ judged.complexity = {} /\ judged.manifest = {} /\ judged.samples = FALSE
  BY <1>1, JudgedStands, Zenon
<1>3. clean \in BOOLEAN
  BY DEF Report!Clean
<1>4. /\ r.driver = "library" => t = Report!LibraryReport(judged, r)
      /\ r.driver = "binding" => t = Report!BindingReport(judged, r)
      /\ r.driver = "command line" => t = Report!CommandReport(judged, r)
      /\ r.driver \notin {"library", "binding", "command line"} => t = Report!Noop(NothingElse)
  <2> HIDE DEF judged
  <2> QED
    BY Zenon DEF ReportDriven, judged
<1>5. HistorySays(r) = (r.driver \in {"library", "command line"} => clean)
  BY Zenon DEF HistorySays
<1> HIDE DEF judged, t, clean
<1>6. /\ r.driver \in {"library", "command line"} => HistorySays(r) = clean
      /\ r.driver \notin {"library", "command line"} => HistorySays(r) = TRUE
  BY <1>3, <1>5, Zenon
<1>7. Telling(judged, TRUE)
  BY <1>2, Zenon DEF Telling
<1>8. CASE r.driver = "library"
  <2> DEFINE s == Report!ApplyStorage(judged, r.mismatches, r.settings)
             l == Report!ApplyLineage(s, r.history, r.settings)
  <2>1. t = Report!ApplyComplexity(l, r.profiled, r.exceeded)
    BY <1>4, <1>8, Zenon DEF Report!LibraryReport
  <2>2. Telling(s, TRUE) /\ s.complexity = {}
    BY <1>1, <1>2, <1>7, StorageTells, Zenon
  <2> HIDE DEF s
  <2>3. Telling(l, clean) /\ l.complexity = {}
    BY <1>1, <2>2, LineageTells, Zenon DEF clean
  <2> HIDE DEF l
  <2>4. Telling(t, clean)
    BY <1>3, <2>1, <2>3, ComplexityTells, Zenon
  <2>5. HistorySays(r) = clean
    BY <1>6, <1>8, Zenon
  <2> QED
    BY <1>3, <2>4, <2>5, Zenon DEF t
<1>9. CASE r.driver = "binding"
  <2>1. t = Report!ApplyStorage(judged, r.mismatches, r.settings)
    BY <1>4, <1>9, Zenon DEF Report!BindingReport
  <2>2. Telling(t, TRUE)
    BY <1>1, <1>7, <2>1, StorageTells, Zenon
  <2>3. HistorySays(r) = TRUE
    <3>1. r.driver \notin {"library", "command line"}
      BY <1>9
    <3> QED
      BY <1>6, <3>1, Zenon
  <2> QED
    BY <2>2, <2>3, Zenon DEF t
<1>10. CASE r.driver = "command line"
  <2> DEFINE s == Report!ApplySamples(judged, r.undecodable)
  <2>1. t = Report!ApplyLineage(s, r.history, r.settings)
    BY <1>4, <1>10, Zenon DEF Report!CommandReport
  <2>2. Telling(s, TRUE)
    BY <1>2, <1>7, SamplesTells, Zenon
  <2> HIDE DEF s
  <2>3. Telling(t, clean)
    BY <1>1, <2>1, <2>2, LineageTells, Zenon DEF clean
  <2>4. HistorySays(r) = clean
    BY <1>6, <1>10, Zenon
  <2> QED
    BY <1>3, <2>3, <2>4, Zenon DEF t
<1>11. CASE r.driver \notin {"library", "binding", "command line"}
  <2> DEFINE axes == [a \in Axis |-> "passed"]
  <2>1. [c \in DOMAIN NothingElse |-> 0] = NothingElse
    BY DEF NothingElse
  <2>2. t = Report!Judged(axes, [c \in DOMAIN NothingElse |-> 0], {})
    BY <1>4, <1>11, Zenon DEF Report!Noop
  <2>3. DOMAIN axes = Axis
    BY Zenon
  <2> HIDE DEF axes
  <2>4. t = Report!Judged(axes, NothingElse, {})
    BY <2>1, <2>2, Zenon
  <2>5. Telling(t, TRUE)
    BY <2>3, <2>4, JudgedStands, Zenon DEF Telling
  <2>6. HistorySays(r) = TRUE
    <3>1. r.driver \notin {"library", "command line"}
      BY <1>11, Zenon
    <3> QED
      BY <1>6, <3>1, Zenon
  <2> QED
    BY <2>5, <2>6, Zenon DEF t
<1> QED
  BY <1>8, <1>9, <1>10, <1>11, Zenon

LEMMA ReportInvMeans == ASSUME ReportInv PROVE Explained
<1> DEFINE r == request
<1> SUFFICES ASSUME command = "report"
             PROVE  /\ answer.safe =
                         (/\ \A a \in Axis : answer.axes[a] # "failed"
                          /\ answer.over = {} /\ answer.complexity = {} /\ answer.manifest = {}
                          /\ ~answer.samples
                          /\ r.driver \in {"library", "command line"} => Report!Clean(r.history, r.settings))
                    /\ answer.total = answer.critical + answer.warning + answer.info
  BY Zenon DEF Explained
<1>1. r \in Requests("report") /\ answer = ReportAnswer(r)
  BY Zenon DEF ReportInv
<1>2. Report!IsInput(r)
  BY <1>1, ReportsAssumption, Zenon
<1>3. HistorySays(r) \in BOOLEAN /\ Telling(ReportDriven(r), HistorySays(r))
  BY <1>2, DrivenTells, Zenon
<1>4. IsFiniteSet(DOMAIN r.fields)
  BY <1>2, Zenon DEF Report!IsInput, Report!IsFiniteSet, IsFiniteSet
<1>5. Stands(answer, HistorySays(r)) /\ AddsUp(answer)
  BY <1>1, <1>3, <1>4, ManifestTells, Zenon DEF ReportAnswer
<1>6. answer.safe = (NothingFails(answer) /\ HistorySays(r))
  BY <1>5, Zenon DEF Stands
<1> QED
  BY <1>5, <1>6, Zenon DEF NothingFails, HistorySays, AddsUp

-----------------------------------------------------------------------------
(* The budgets, in any order.                                              *)

Values(s) == {s[i] : i \in DOMAIN s}

\* All of some tables can be used together.
Agreeing(tables) ==
    /\ \A t \in tables : Budget!WellFormed(t)
    /\ \A t, u \in tables : Budget!SameKey(t, u) => t.metric = u.metric /\ t.limit = u.limit

\* The first table of the scope and severity of the i-th.
IsFirst(s, m, i) ==
    /\ m \in DOMAIN s /\ Budget!SameKey(s[m], s[i])
    /\ \A j \in DOMAIN s : Budget!SameKey(s[j], s[i]) => m =< j

LEMMA TablePositions ==
  ASSUME NEW s, Budget!IsList(s) PROVE Len(s) \in Nat /\ DOMAIN s = 1 .. Len(s)
<1>1. s \in Seq({s[i] : i \in DOMAIN s})
  BY Zenon DEF Budget!IsList
<1> QED
  BY <1>1

LEMMA FirstExists ==
  ASSUME NEW s, Budget!IsList(s), NEW i \in DOMAIN s PROVE \E m : IsFirst(s, m, i)
<1> DEFINE alike == {j \in DOMAIN s : Budget!SameKey(s[j], s[i])}
<1>1. DOMAIN s \subseteq Nat
  BY TablePositions
<1>2. i \in alike
  BY Zenon DEF Budget!SameKey
<1>3. alike \subseteq Nat /\ alike # {}
  BY <1>1, <1>2, Zenon
<1> HIDE DEF alike
<1>4. PICK m \in alike : \A j \in alike : m =< j
  BY <1>3, LeastOf
<1> QED
  BY <1>4, Zenon DEF IsFirst, alike

\* Nothing of that scope and severity is earlier than the first.
LEMMA NoneEarlier ==
  ASSUME NEW s, Budget!IsList(s), NEW i \in DOMAIN s, NEW m, IsFirst(s, m, i)
  PROVE  Budget!Earlier(s, m) = {}
<1>1. Len(s) \in Nat /\ DOMAIN s = 1 .. Len(s)
  BY TablePositions, Zenon
<1>2. ASSUME NEW j \in Budget!Earlier(s, m) PROVE FALSE
  <2>1. j \in 1 .. (m - 1) /\ Budget!SameKey(s[j], s[m])
    BY <1>2, Zenon DEF Budget!Earlier
  <2>2. m \in DOMAIN s /\ Budget!SameKey(s[m], s[i])
    BY Zenon DEF IsFirst
  <2>3. j \in DOMAIN s /\ ~(m =< j)
    BY <1>1, <2>1, <2>2
  <2>4. Budget!SameKey(s[j], s[i])
    BY <2>1, <2>2, Zenon DEF Budget!SameKey
  <2> QED
    BY <2>3, <2>4, Zenon DEF IsFirst
<1> QED
  BY <1>2, Zenon

\* Tables that load agree with the first one of their scope and severity.
LEMMA AsTheFirst ==
  ASSUME NEW s, Budget!IsList(s), Budget!BudgetsLoad(s), NEW i \in DOMAIN s, NEW m, IsFirst(s, m, i)
  PROVE  s[m].metric = s[i].metric /\ s[m].limit = s[i].limit
<1>1. Len(s) \in Nat /\ DOMAIN s = 1 .. Len(s)
  BY TablePositions, Zenon
<1>2. m \in DOMAIN s /\ Budget!SameKey(s[m], s[i]) /\ m =< i
  <2>1. Budget!SameKey(s[i], s[i])
    BY Zenon DEF Budget!SameKey
  <2> QED
    BY <2>1, Zenon DEF IsFirst
<1>3. CASE m = i
  BY <1>3, Zenon
<1>4. CASE m # i
  <2>1. m \in 1 .. (i - 1)
    BY <1>1, <1>2, <1>4
  <2>2. Budget!WellFormed(s[m]) /\ ~Budget!Contradicted(s, i)
    BY <1>2, Zenon DEF Budget!BudgetsLoad
  <2>3. m \in Budget!Earlier(s, i)
    BY <1>2, <2>1, <2>2, Zenon DEF Budget!Earlier
  <2>4. ASSUME NEW k \in Budget!Earlier(s, i) PROVE m =< k
    <3>1. k \in 1 .. (i - 1) /\ Budget!SameKey(s[k], s[i])
      BY <2>4, Zenon DEF Budget!Earlier
    <3>2. k \in DOMAIN s
      BY <1>1, <3>1
    <3> QED
      BY <3>1, <3>2, Zenon DEF IsFirst
  <2>5. <<s[m].metric, s[m].limit>> = <<s[i].metric, s[i].limit>>
    BY <2>2, <2>3, <2>4, Zenon DEF Budget!Contradicted
  <2> QED
    BY <2>5
<1> QED
  BY <1>3, <1>4, Zenon

\* Whether tables load depends on which they are alone.
LEMMA LoadsAsSet ==
  ASSUME NEW s, Budget!IsList(s) PROVE Budget!BudgetsLoad(s) <=> Agreeing(Values(s))
<1>1. Len(s) \in Nat /\ DOMAIN s = 1 .. Len(s)
  BY TablePositions, Zenon
<1>2. ASSUME Budget!BudgetsLoad(s) PROVE Agreeing(Values(s))
  <2>1. ASSUME NEW i \in DOMAIN s, NEW j \in DOMAIN s, Budget!SameKey(s[i], s[j])
        PROVE  s[i].metric = s[j].metric /\ s[i].limit = s[j].limit
    <3>1. PICK m : IsFirst(s, m, i)
      BY FirstExists, Zenon
    <3>2. IsFirst(s, m, j)
      BY <2>1, <3>1, Zenon DEF IsFirst, Budget!SameKey
    <3>3. s[m].metric = s[i].metric /\ s[m].limit = s[i].limit
      BY <1>2, <3>1, AsTheFirst, Zenon
    <3>4. s[m].metric = s[j].metric /\ s[m].limit = s[j].limit
      BY <1>2, <3>2, AsTheFirst, Zenon
    <3> QED
      BY <3>3, <3>4, Zenon
  <2>2. \A i \in DOMAIN s : Budget!WellFormed(s[i])
    BY <1>2, Zenon DEF Budget!BudgetsLoad
  <2>3. \A t \in Values(s) : \E i \in DOMAIN s : t = s[i]
    BY Zenon DEF Values
  <2>4. \A t \in Values(s) : Budget!WellFormed(t)
    BY <2>2, <2>3, Zenon
  <2>5. ASSUME NEW t \in Values(s), NEW u \in Values(s), Budget!SameKey(t, u)
        PROVE  t.metric = u.metric /\ t.limit = u.limit
    <3>1. PICK i \in DOMAIN s : t = s[i]
      BY <2>3, Zenon
    <3>2. PICK j \in DOMAIN s : u = s[j]
      BY <2>3, Zenon
    <3> QED
      BY <2>1, <2>5, <3>1, <3>2, Zenon
  <2> QED
    BY <2>4, <2>5, Zenon DEF Agreeing
<1>3. ASSUME Agreeing(Values(s)) PROVE Budget!BudgetsLoad(s)
  <2>1. ASSUME NEW i \in DOMAIN s PROVE Budget!WellFormed(s[i]) /\ s[i] \in Values(s)
    BY <1>3, Zenon DEF Agreeing, Values
  <2>2. ASSUME NEW i \in DOMAIN s, Budget!Contradicted(s, i) PROVE FALSE
    <3>1. PICK j \in Budget!Earlier(s, i) :
            <<s[j].metric, s[j].limit>> # <<s[i].metric, s[i].limit>>
      BY <2>2, Zenon DEF Budget!Contradicted
    <3>2. j \in 1 .. (i - 1) /\ Budget!SameKey(s[j], s[i])
      BY <3>1, Zenon DEF Budget!Earlier
    <3>3. j \in DOMAIN s
      BY <1>1, <3>2
    <3>4. s[j].metric = s[i].metric /\ s[j].limit = s[i].limit
      BY <1>3, <2>1, <3>2, <3>3, Zenon DEF Agreeing
    <3> QED
      BY <3>1, <3>4, Zenon
  <2> QED
    BY <2>1, <2>2, Zenon DEF Budget!BudgetsLoad
<1> QED
  BY <1>2, <1>3, Zenon

\* Of tables that load, every one is kept once.
LEMMA EntriesAsSet ==
  ASSUME NEW s, Budget!IsList(s), Budget!BudgetsLoad(s), \A i \in DOMAIN s : Budget!IsTable(s[i])
  PROVE  Budget!Entries(s) = Values(s)
<1>1. Budget!Entries(s) \subseteq Values(s)
  BY Zenon DEF Budget!Entries, Values
<1>2. ASSUME NEW i \in DOMAIN s PROVE s[i] \in Budget!Entries(s)
  <2>1. PICK m : IsFirst(s, m, i)
    BY FirstExists, Zenon
  <2>2. Budget!Earlier(s, m) = {}
    BY <2>1, NoneEarlier, Zenon
  <2>3. s[m].metric = s[i].metric /\ s[m].limit = s[i].limit
    BY <2>1, AsTheFirst, Zenon
  <2>4. m \in DOMAIN s /\ s[m].scope = s[i].scope /\ s[m].severity = s[i].severity
    BY <2>1, Zenon DEF IsFirst, Budget!SameKey
  <2> DEFINE t == s[m]
             u == s[i]
  <2>5. /\ t \in [scope : {t.scope}, severity : {t.severity}, metric : {t.metric}, limit : {t.limit}]
        /\ u \in [scope : {u.scope}, severity : {u.severity}, metric : {u.metric}, limit : {u.limit}]
    BY <2>4, Zenon DEF Budget!IsTable
  <2> HIDE DEF t, u
  <2>6. t = u
    <3>1. t.metric = u.metric /\ t.limit = u.limit /\ t.scope = u.scope /\ t.severity = u.severity
      BY <2>3, <2>4 DEF t, u
    <3> QED
      BY <2>5, <3>1
  <2>7. s[m] \in Budget!Entries(s)
    BY <2>2, <2>4, Zenon DEF Budget!Entries
  <2> QED
    BY <2>6, <2>7, Zenon DEF t, u
<1>3. Values(s) \subseteq Budget!Entries(s)
  BY <1>2, Zenon DEF Values
<1> QED
  BY <1>1, <1>3, Zenon

LEMMA BackwardsSame ==
  ASSUME NEW s, Budget!IsList(s)
  PROVE  Budget!IsList(Backwards(s)) /\ Values(Backwards(s)) = Values(s)
<1> DEFINE o == Backwards(s)
           n == Len(s)
<1>1. n \in Nat /\ DOMAIN s = 1 .. n
  BY TablePositions, Zenon
<1>2. o = [i \in DOMAIN s |-> s[n + 1 - i]]
  BY Zenon DEF Backwards
<1> HIDE DEF o, n
<1>3. DOMAIN o = 1 .. n /\ \A i \in 1 .. n : o[i] = s[n + 1 - i]
  BY <1>1, <1>2
<1>4. o \in [1 .. n -> {o[i] : i \in DOMAIN o}]
  BY <1>1, <1>2
<1>5. o \in Seq({o[i] : i \in DOMAIN o})
  <2> DEFINE V == {o[i] : i \in DOMAIN o}
  <2> HIDE DEF V
  <2>1. o \in [1 .. n -> V]
    BY <1>4 DEF V
  <2>2. o \in Seq(V)
    BY <1>1, <2>1
  <2> QED
    BY <2>2 DEF V
<1>6. Budget!IsList(o)
  BY <1>5, Zenon DEF Budget!IsList
<1>7. ASSUME NEW i \in 1 .. n PROVE n + 1 - i \in 1 .. n /\ n + 1 - (n + 1 - i) = i
  BY <1>1
<1>8. \A i \in 1 .. n : \E j \in 1 .. n : o[i] = s[j]
  BY <1>3, <1>7
<1>9. \A i \in 1 .. n : \E j \in 1 .. n : s[i] = o[j]
  <2> TAKE i \in 1 .. n
  <2>1. o[n + 1 - i] = s[n + 1 - (n + 1 - i)]
    BY <1>3, <1>7
  <2> QED
    BY <1>7, <2>1
<1>10. Values(o) = Values(s)
  <2>1. \A x \in Values(o) : x \in Values(s)
    BY <1>1, <1>3, <1>8, Zenon DEF Values
  <2>2. \A x \in Values(s) : x \in Values(o)
    BY <1>1, <1>3, <1>9, Zenon DEF Values
  <2> QED
    BY <2>1, <2>2, Zenon
<1> QED
  BY <1>6, <1>10, Zenon DEF o

\* The answer for some tables is the one for the same tables backwards.
LEMMA OrderForgotten ==
  ASSUME NEW s, Budget!IsList(s), \A i \in DOMAIN s : Budget!IsTable(s[i])
  PROVE  /\ Budget!BudgetsLoad(s) <=> Budget!BudgetsLoad(Backwards(s))
         /\ Budget!BudgetsLoad(s) => Budget!Entries(s) = Budget!Entries(Backwards(s))
<1> DEFINE o == Backwards(s)
<1>1. Budget!IsList(o) /\ Values(o) = Values(s)
  BY BackwardsSame, Zenon
<1> HIDE DEF o
<1>2. Budget!BudgetsLoad(s) <=> Budget!BudgetsLoad(o)
  <2>1. Budget!BudgetsLoad(s) <=> Agreeing(Values(s))
    BY LoadsAsSet, Zenon
  <2>2. Budget!BudgetsLoad(o) <=> Agreeing(Values(o))
    BY <1>1, LoadsAsSet, Zenon
  <2> QED
    BY <1>1, <2>1, <2>2, Zenon
<1>3. \A t \in Values(s) : Budget!IsTable(t)
  BY Zenon DEF Values
<1>4. \A i \in DOMAIN o : Budget!IsTable(o[i])
  <2>1. ASSUME NEW i \in DOMAIN o PROVE o[i] \in Values(o)
    BY Zenon DEF Values
  <2> QED
    BY <1>1, <1>3, <2>1, Zenon
<1>5. ASSUME Budget!BudgetsLoad(s) PROVE Budget!Entries(s) = Budget!Entries(o)
  <2>1. Budget!Entries(s) = Values(s)
    BY <1>5, EntriesAsSet, Zenon
  <2>2. Budget!Entries(o) = Values(o)
    BY <1>1, <1>2, <1>4, <1>5, EntriesAsSet, Zenon
  <2> QED
    BY <1>1, <2>1, <2>2, Zenon
<1> QED
  BY <1>2, <1>5, Zenon DEF o

BudgetAnswer(r) ==
    IF ~Budget!BudgetsLoad(r.tables) THEN [refused |-> TRUE, over |-> {}]
    ELSE [refused |-> FALSE, over |-> Budget!BudgetViolations(r.findings, Budget!Entries(r.tables))]
BudgetInv ==
    command = "budgets" => request \in Requests("budgets") /\ answer = BudgetAnswer(request)

LEMMA BudgetsEvaluated == ASSUME EvaluateBudgets PROVE BudgetInv'
<1>1. PICK r \in Requests("budgets") : Answers("budgets", r, BudgetAnswer(r))
  BY Zenon DEF EvaluateBudgets, BudgetAnswer
<1>2. request' = r /\ answer' = BudgetAnswer(r)
  BY <1>1, Zenon DEF Answers
<1>3. answer' = BudgetAnswer(request')
  BY <1>2, Zenon
<1> QED
  BY <1>2, <1>3, Zenon DEF BudgetInv

LEMMA BudgetsKept == ASSUME BudgetInv, [Next]_vars PROVE BudgetInv'
<1>1. CASE UNCHANGED vars
  BY <1>1, Zenon DEF BudgetInv, vars
<1>2. CASE Next /\ command' = "budgets"
  BY <1>2, OneCommand, BudgetsEvaluated, Zenon
<1>3. CASE command' # "budgets"
  BY <1>3, Zenon DEF BudgetInv
<1> QED
  BY <1>1, <1>2, <1>3, Zenon

LEMMA BudgetInvMeans == ASSUME BudgetInv PROVE OrderIsNoMatter
<1> DEFINE r == request
           s == r.tables
           o == Backwards(s)
           over(entries) == Budget!BudgetViolations(r.findings, entries)
<1> SUFFICES ASSUME command = "budgets"
             PROVE  /\ answer.refused = ~Budget!BudgetsLoad(o)
                    /\ ~answer.refused => answer.over = over(Budget!Entries(o))
  BY Zenon DEF OrderIsNoMatter
<1>1. r \in Requests("budgets") /\ answer = BudgetAnswer(r)
  BY Zenon DEF BudgetInv
<1>2. Budget!IsList(s) /\ \A i \in DOMAIN s : Budget!IsTable(s[i])
  BY <1>1, BudgetsAssumption, Zenon
<1> DEFINE loads == Budget!BudgetsLoad(s)
           found == over(Budget!Entries(s))
<1>3. answer = IF ~loads THEN [refused |-> TRUE, over |-> {}] ELSE [refused |-> FALSE, over |-> found]
  BY <1>1, Zenon DEF BudgetAnswer
<1>4. /\ loads <=> Budget!BudgetsLoad(o)
      /\ loads => Budget!Entries(s) = Budget!Entries(o)
  BY <1>2, OrderForgotten, Zenon
<1>5. loads \in BOOLEAN /\ Budget!BudgetsLoad(o) \in BOOLEAN
  BY Zenon DEF Budget!BudgetsLoad
<1>6. loads => found = over(Budget!Entries(o))
  BY <1>4, Zenon
<1> HIDE DEF loads, found
<1>7. answer.refused \in BOOLEAN /\ (answer.refused <=> ~loads) /\ (loads => answer.over = found)
  BY <1>3, <1>5
<1>8. answer.refused = ~Budget!BudgetsLoad(o)
  <2> HIDE DEF o
  <2> QED
    BY <1>4, <1>5, <1>7
<1> QED
  BY <1>6, <1>7, <1>8, Zenon

-----------------------------------------------------------------------------
(* The complexity budgets.                                                 *)

LEMMA LeastKeeps ==
  ASSUME NEW a \in Nat, NEW b \in Nat, a <= b PROVE Budget!Least(a, b) = a
  BY DEF Budget!Least

LEMMA CodePositions ==
  ASSUME NEW bodies, Budget!IsCode(bodies)
  PROVE  /\ Len(bodies) \in Nat /\ DOMAIN bodies = 1 .. Len(bodies)
         /\ \A i \in DOMAIN bodies :
               Len(bodies[i]) \in Nat /\ DOMAIN bodies[i] = 1 .. Len(bodies[i])
<1>1. Budget!IsList(bodies) /\ \A i \in DOMAIN bodies : Budget!IsList(bodies[i])
  BY Zenon DEF Budget!IsCode
<1>2. Len(bodies) \in Nat /\ DOMAIN bodies = 1 .. Len(bodies)
  BY <1>1, TablePositions, Zenon
<1>3. ASSUME NEW i \in DOMAIN bodies
      PROVE  Len(bodies[i]) \in Nat /\ DOMAIN bodies[i] = 1 .. Len(bodies[i])
  BY <1>1, TablePositions, Zenon
<1> QED
  BY <1>2, <1>3, Zenon

\* What one more body makes of a total.
AfterTally(bodies, wanted, f, i) ==
    IF i = 0 THEN 0 ELSE f[i - 1] + Budget!Tally(bodies[i], wanted)

Totalled(bodies, wanted, f) ==
    f = [i \in 0 .. Len(bodies) |-> AfterTally(bodies, wanted, f, i)]

LEMMA TotalUnfolds ==
  ASSUME NEW bodies, NEW wanted, Len(bodies) \in Nat
  PROVE  \E f : Totalled(bodies, wanted, f) /\ Budget!Total(bodies, wanted) = f[Len(bodies)]
<1> DEFINE N == Len(bodies)
           F == CHOOSE f : f = [i \in 0 .. N |-> AfterTally(bodies, wanted, f, i)]
           Good == {n \in Nat : \E f : f = [i \in 0 .. n |-> AfterTally(bodies, wanted, f, i)]}
<1>1. 0 \in Good
  <2> DEFINE f == [i \in 0 .. 0 |-> 0]
  <2>1. f = [i \in 0 .. 0 |-> AfterTally(bodies, wanted, f, i)]
    BY DEF AfterTally
  <2> QED
    BY <2>1
<1>2. ASSUME NEW n \in Nat, n \in Good PROVE n + 1 \in Good
  <2>1. PICK f : f = [i \in 0 .. n |-> AfterTally(bodies, wanted, f, i)]
    BY <1>2
  <2> DEFINE g == [i \in 0 .. (n + 1) |-> IF i = n + 1 THEN AfterTally(bodies, wanted, f, i) ELSE f[i]]
  <2>2. \A i \in 0 .. n : g[i] = f[i]
    OBVIOUS
  <2>3. ASSUME NEW i \in 0 .. (n + 1)
        PROVE  AfterTally(bodies, wanted, g, i) = AfterTally(bodies, wanted, f, i)
    <3>1. i # 0 => g[i - 1] = f[i - 1]
      BY <2>2
    <3> HIDE DEF g
    <3> QED
      BY <3>1 DEF AfterTally
  <2>4. ASSUME NEW i \in 0 .. (n + 1) PROVE g[i] = AfterTally(bodies, wanted, f, i)
    BY <2>1
  <2>5. g = [i \in 0 .. (n + 1) |-> g[i]]
    OBVIOUS
  <2> HIDE DEF g
  <2>6. g = [i \in 0 .. (n + 1) |-> AfterTally(bodies, wanted, g, i)]
    BY <2>3, <2>4, <2>5
  <2> QED
    BY <2>6
<1>3. N \in Nat
  OBVIOUS
<1> HIDE DEF Good
<1>4. N \in Good
  BY <1>1, <1>2, <1>3, SetInduction
<1>5. \E f : f = [i \in 0 .. N |-> AfterTally(bodies, wanted, f, i)]
  BY <1>4 DEF Good
<1>6. Totalled(bodies, wanted, F)
  BY <1>5 DEF Totalled
<1>7. Budget!Total(bodies, wanted) = F[N]
  BY DEF Budget!Total, AfterTally
<1> QED
  BY <1>6, <1>7, Zenon

\* The instructions of a body that count, and the place of each among all bodies.
Wanted(body, wanted) == {k \in 1 .. Len(body) : body[k] \in wanted}
Placed(i, ks) == {<<i, k>> : k \in ks}
Places(bodies, wanted, n) == UNION {Placed(i, Wanted(bodies[i], wanted)) : i \in 1 .. n}

LEMMA WantedFinite ==
  ASSUME NEW body, Len(body) \in Nat, NEW wanted PROVE IsFiniteSet(Wanted(body, wanted))
<1>1. IsFiniteSet(1 .. Len(body))
  BY FS_Interval
<1>2. Wanted(body, wanted) \in SUBSET (1 .. Len(body))
  BY Zenon DEF Wanted
<1> QED
  BY <1>1, <1>2, FS_Subset, Zenon

LEMMA PlacedSame ==
  ASSUME NEW i, NEW ks, IsFiniteSet(ks)
  PROVE  IsFiniteSet(Placed(i, ks)) /\ Cardinality(Placed(i, ks)) = Cardinality(ks)
<1> DEFINE f == [k \in ks |-> <<i, k>>]
<1>1. f \in [ks -> Placed(i, ks)]
  BY DEF Placed
<1>2. \A a, b \in ks : f[a] = f[b] => a = b
  OBVIOUS
<1>3. \A t \in Placed(i, ks) : \E s \in ks : f[s] = t
  BY DEF Placed
<1> HIDE DEF f
<1>4. f \in Bijection(ks, Placed(i, ks))
  BY <1>1, <1>2, <1>3, Fun_IsBij
<1>5. ExistsBijection(ks, Placed(i, ks))
  BY <1>4, Zenon DEF ExistsBijection
<1> QED
  BY <1>5, FS_Bijection, Zenon

\* The profiler counts what there is, within its limits.
LEMMA TallyIs ==
  ASSUME NEW body, Len(body) \in Nat, Len(body) <= MaxPerFunction, NEW wanted
  PROVE  Budget!Tally(body, wanted) = Cardinality(Wanted(body, wanted))
<1>1. MaxPerFunction \in Nat
  BY LimitsAssumption
<1>2. Budget!Least(Len(body), MaxPerFunction) = Len(body)
  BY <1>1, LeastKeeps, Zenon
<1>3. Budget!Tally(body, wanted)
        = Cardinality({i \in 1 .. Budget!Least(Len(body), MaxPerFunction) : body[i] \in wanted})
  BY Zenon DEF Budget!Tally, Budget!Cardinality, Cardinality
<1> QED
  BY <1>2, <1>3, Zenon DEF Wanted

LEMMA PlacesCounted ==
  ASSUME NEW bodies, Budget!IsCode(bodies), Fits(bodies), NEW wanted
  PROVE  LET P == Places(bodies, wanted, Len(bodies))
         IN  IsFiniteSet(P) /\ Budget!Total(bodies, wanted) = Cardinality(P)
<1> DEFINE N == Len(bodies)
           P(n) == Places(bodies, wanted, n)
<1>1. /\ N \in Nat /\ DOMAIN bodies = 1 .. N
      /\ \A i \in DOMAIN bodies : Len(bodies[i]) \in Nat
  BY CodePositions, Zenon
<1>2. \A i \in DOMAIN bodies : Len(bodies[i]) <= MaxPerFunction
  BY Zenon DEF Fits
<1>3. PICK f : Totalled(bodies, wanted, f) /\ Budget!Total(bodies, wanted) = f[N]
  BY <1>1, TotalUnfolds, Zenon
<1>4. f = [i \in 0 .. N |-> AfterTally(bodies, wanted, f, i)]
  BY <1>3, Zenon DEF Totalled
<1> HIDE DEF N
<1>5. f[0] = 0
  BY <1>1, <1>4 DEF AfterTally
<1>6. ASSUME NEW n \in Nat, n + 1 <= N
      PROVE  f[n + 1] = f[n] + Budget!Tally(bodies[n + 1], wanted)
  <2>1. n + 1 \in 0 .. N /\ n + 1 # 0 /\ (n + 1) - 1 = n
    BY <1>1, <1>6
  <2>2. f[n + 1] = AfterTally(bodies, wanted, f, n + 1)
    BY <1>4, <2>1
  <2> QED
    BY <2>1, <2>2 DEF AfterTally
<1> DEFINE Good == {n \in Nat : n <= N => IsFiniteSet(P(n)) /\ Cardinality(P(n)) = f[n]}
<1>7. 0 \in Good
  <2>1. P(0) = {}
    BY DEF Places
  <2> QED
    BY <1>5, <2>1, FS_EmptySet
<1>8. ASSUME NEW n \in Nat, n \in Good PROVE n + 1 \in Good
  <2> SUFFICES ASSUME n + 1 <= N PROVE IsFiniteSet(P(n + 1)) /\ Cardinality(P(n + 1)) = f[n + 1]
    OBVIOUS
  <2> DEFINE body == bodies[n + 1]
             ks == Wanted(body, wanted)
             row == Placed(n + 1, ks)
  <2>1. IsFiniteSet(P(n)) /\ Cardinality(P(n)) = f[n]
    BY <1>1, <1>8
  <2>2. n + 1 \in DOMAIN bodies
    BY <1>1
  <2>3. Len(body) \in Nat /\ Len(body) <= MaxPerFunction
    BY <1>1, <1>2, <2>2, Zenon
  <2>4. IsFiniteSet(ks)
    BY <2>3, WantedFinite, Zenon
  <2>5. Budget!Tally(body, wanted) = Cardinality(ks)
    BY <2>3, TallyIs, Zenon
  <2>6. P(n + 1) = P(n) \cup row
    BY DEF Places
  <2>7. P(n) \cap row = {}
    BY DEF Places, Placed
  <2> HIDE DEF ks, P, body
  <2>8. IsFiniteSet(row) /\ Cardinality(row) = Cardinality(ks)
    BY <2>4, PlacedSame, Zenon
  <2> HIDE DEF row
  <2>9. /\ IsFiniteSet(P(n) \cup row)
        /\ Cardinality(P(n) \cup row) = Cardinality(P(n)) + Cardinality(row) - Cardinality(P(n) \cap row)
    BY <2>1, <2>8, FS_Union, Zenon
  <2>10. Cardinality(P(n) \cap row) = 0
    BY <2>7, FS_EmptySet, Zenon
  <2>11. Cardinality(P(n)) \in Nat /\ Cardinality(row) \in Nat
    BY <2>1, <2>8, FS_CardinalityType, Zenon
  <2>12. f[n + 1] = f[n] + Budget!Tally(body, wanted)
    BY <1>6 DEF body
  <2>13. Cardinality(P(n + 1)) = f[n + 1]
    <3> DEFINE a == Cardinality(P(n))
               b == Cardinality(row)
               c == Cardinality(P(n) \cap row)
               u == Cardinality(P(n) \cup row)
    <3>1. a \in Nat /\ b \in Nat /\ u = a + b - c /\ c = 0
      BY <2>9, <2>10, <2>11, Zenon
    <3>2. f[n + 1] = a + b
      BY <2>1, <2>5, <2>8, <2>12, Zenon
    <3>3. Cardinality(P(n + 1)) = u
      BY <2>6, Zenon
    <3> HIDE DEF a, b, c, u
    <3>4. u = a + b
      BY <3>1
    <3> QED
      BY <3>2, <3>3, <3>4, Zenon
  <2> QED
    BY <2>6, <2>9, <2>13, Zenon
<1> HIDE DEF Good, P
<1>9. N \in Good
  BY <1>1, <1>7, <1>8, SetInduction
<1>10. IsFiniteSet(P(N)) /\ Cardinality(P(N)) = f[N]
  BY <1>1, <1>9 DEF Good
<1> QED
  BY <1>3, <1>10, Zenon DEF P, N

\* What a metric is of.
Counting(m) == IF m = "total_instructions" THEN Family ELSE {m}

LEMMA InstructionsCounted ==
  ASSUME NEW bodies, Budget!IsCode(bodies), Fits(bodies), NEW m, m # "defined_functions"
  PROVE  Instructions(bodies, m) = Cardinality(Places(bodies, Counting(m), Len(bodies)))
<1> DEFINE N == Len(bodies)
           all == {p \in (DOMAIN bodies) \X (1 .. MaxPerFunction) :
                      /\ p[2] \in DOMAIN bodies[p[1]]
                      /\ m \in {"total_instructions", bodies[p[1]][p[2]]}}
           P == Places(bodies, Counting(m), N)
<1>1. /\ N \in Nat /\ DOMAIN bodies = 1 .. N
      /\ \A i \in DOMAIN bodies : Len(bodies[i]) \in Nat /\ DOMAIN bodies[i] = 1 .. Len(bodies[i])
  BY CodePositions, Zenon
<1>2. \A i \in DOMAIN bodies : Len(bodies[i]) <= MaxPerFunction
  BY Zenon DEF Fits
<1>3. \A i \in DOMAIN bodies : \A k \in DOMAIN bodies[i] : bodies[i][k] \in Family
  BY Zenon DEF Budget!IsCode
<1>4. MaxPerFunction \in Nat
  BY LimitsAssumption
<1> DEFINE Is(i, k) == i \in 1 .. N /\ k \in 1 .. Len(bodies[i]) /\ bodies[i][k] \in Counting(m)
<1> HIDE DEF N
<1>5. ASSUME NEW p \in P PROVE \E i, k : Is(i, k) /\ p = <<i, k>>
  <2>1. PICK i \in 1 .. N : p \in Placed(i, Wanted(bodies[i], Counting(m)))
    BY Zenon DEF Places
  <2>2. PICK k \in Wanted(bodies[i], Counting(m)) : p = <<i, k>>
    BY <2>1, Zenon DEF Placed
  <2>3. Is(i, k)
    BY <2>2, Zenon DEF Wanted
  <2> QED
    BY <2>2, <2>3, Zenon
<1>11. ASSUME NEW i, NEW k, Is(i, k) PROVE <<i, k>> \in P
  <2>1. k \in Wanted(bodies[i], Counting(m))
    BY <1>11, Zenon DEF Wanted
  <2>2. <<i, k>> \in Placed(i, Wanted(bodies[i], Counting(m)))
    BY <2>1, Zenon DEF Placed
  <2> QED
    BY <1>11, <2>2, Zenon DEF Places
<1>6. ASSUME NEW i, NEW k, Is(i, k) PROVE <<i, k>> \in all
  <2>1. i \in DOMAIN bodies /\ k \in DOMAIN bodies[i] /\ bodies[i][k] \in Counting(m)
    BY <1>1, <1>6, Zenon
  <2>2. k \in 1 .. MaxPerFunction
    BY <1>1, <1>2, <1>4, <2>1
  <2>3. m \in {"total_instructions", bodies[i][k]}
    BY <2>1 DEF Counting
  <2> QED
    BY <2>1, <2>2, <2>3
<1>7. ASSUME NEW p \in all PROVE \E i, k : Is(i, k) /\ p = <<i, k>>
  <2> DEFINE i == p[1]
             k == p[2]
  <2>1. p \in (DOMAIN bodies) \X (1 .. MaxPerFunction)
    BY Zenon
  <2>2. i \in DOMAIN bodies /\ p = <<i, k>>
    BY <2>1
  <2>5. k \in DOMAIN bodies[i] /\ m \in {"total_instructions", bodies[i][k]}
    BY Zenon
  <2> HIDE DEF i, k
  <2>3. bodies[i][k] \in Counting(m)
    BY <1>3, <2>2, <2>5 DEF Counting
  <2>4. Is(i, k)
    BY <1>1, <2>2, <2>3, <2>5, Zenon
  <2> QED
    BY <2>2, <2>4, Zenon
<1> HIDE DEF P, all, Is
<1>12. ASSUME NEW p \in P PROVE p \in all
  <2>1. PICK i, k : Is(i, k) /\ p = <<i, k>>
    BY <1>5, Zenon
  <2>2. <<i, k>> \in all
    BY <1>6, <2>1, Zenon
  <2> QED
    BY <2>1, <2>2, Zenon
<1>13. ASSUME NEW p \in all PROVE p \in P
  <2>1. PICK i, k : Is(i, k) /\ p = <<i, k>>
    BY <1>7, Zenon
  <2>2. <<i, k>> \in P
    BY <1>11, <2>1, Zenon
  <2> QED
    BY <2>1, <2>2, Zenon
<1>8. \A p : p \in P <=> p \in all
  BY <1>12, <1>13, Zenon
<1>9. P = all
  BY <1>8, Zenon
<1>10. Instructions(bodies, m) = Cardinality(all)
  BY Zenon DEF Instructions, all
<1> QED
  BY <1>9, <1>10, Zenon DEF P, N

\* Within its limits, the profile tells how many instructions there are.
LEMMA ProfileTells ==
  ASSUME NEW bodies, Budget!IsCode(bodies), Fits(bodies),
         NEW m \in {"total_instructions", "defined_functions"} \cup Family
  PROVE  Budget!Profile(bodies)[m] = Instructions(bodies, m) /\ Instructions(bodies, m) \in Nat
<1> DEFINE read == Budget!Profiled(bodies)
<1>1. Len(bodies) \in Nat /\ DOMAIN bodies = 1 .. Len(bodies)
  BY CodePositions, Zenon
<1>2. read = bodies
  <2>1. Len(bodies) <= MaxFunctions /\ MaxFunctions \in Nat
    BY LimitsAssumption, Zenon DEF Fits
  <2>2. Budget!Least(Len(bodies), MaxFunctions) = Len(bodies)
    BY <1>1, <2>1, LeastKeeps, Zenon
  <2>3. read = SubSeq(bodies, 1, Len(bodies))
    BY <2>2, Zenon DEF Budget!Profiled
  <2>4. bodies \in Seq({bodies[i] : i \in DOMAIN bodies})
    BY Zenon DEF Budget!IsCode, Budget!IsList
  <2> HIDE DEF read
  <2> QED
    BY <1>1, <2>3, <2>4
<1>3. m \in {"defined_functions", "total_instructions"} \cup Family
  BY Zenon
<1>4. Budget!Profile(bodies)[m] = IF m = "defined_functions" THEN Len(read)
                                  ELSE IF m = "total_instructions" THEN Budget!Total(read, Family)
                                  ELSE Budget!Total(read, {m})
  BY <1>3, Zenon DEF Budget!Profile
<1> HIDE DEF read
<1>5. CASE m = "defined_functions"
  <2>1. Instructions(bodies, m) = Len(bodies)
    BY <1>5, Zenon DEF Instructions
  <2> QED
    BY <1>1, <1>2, <1>4, <1>5, <2>1, Zenon
<1>6. CASE m # "defined_functions"
  <2>1. Budget!Profile(bodies)[m] = Budget!Total(bodies, Counting(m))
    BY <1>2, <1>4, <1>6, Zenon DEF Counting
  <2>2. /\ IsFiniteSet(Places(bodies, Counting(m), Len(bodies)))
        /\ Budget!Total(bodies, Counting(m)) = Cardinality(Places(bodies, Counting(m), Len(bodies)))
    BY PlacesCounted, Zenon
  <2>3. Instructions(bodies, m) = Cardinality(Places(bodies, Counting(m), Len(bodies)))
    BY <1>6, InstructionsCounted, Zenon
  <2>4. Cardinality(Places(bodies, Counting(m), Len(bodies))) \in Nat
    BY <2>2, FS_CardinalityType, Zenon
  <2> QED
    BY <2>1, <2>2, <2>3, <2>4, Zenon
<1> QED
  BY <1>5, <1>6, Zenon

LEMMA Quotient ==
  ASSUME NEW a \in Nat, NEW b \in Nat, b > 0, NEW q \in Nat, a \div b =< q
  PROVE  a < (q + 1) * b
<1> DEFINE r == a \div b
<1>1. r \in Int /\ a < (r + 1) * b
  OBVIOUS
<1>2. (r + 1) * b =< (q + 1) * b
  <2>1. r \in Int /\ r =< q
    BY <1>1
  <2> HIDE DEF r
  <2>2. ASSUME NEW x \in Int, NEW y \in Int, x =< y PROVE x * b =< y * b
    BY <2>2
  <2> QED
    BY <2>1, <2>2
<1> HIDE DEF r
<1>3. \A x \in Int, y \in Int : x * y \in Int
  OBVIOUS
<1> QED
  BY <1>1, <1>2, <1>3

\* What rounding to hundredths of a percent allows.
LEMMA Rounding ==
  ASSUME NEW o \in Nat, o > 0, NEW n \in Nat, NEW p \in Nat, Budget!Hundredths(o, n) =< 100 * p
  PROVE  20000 * (n - o) =< (200 * p + 1) * o
<1> DEFINE d == n - o
<1>1. (200 * p + 1) * o >= 0
  <2>1. \A x \in Nat, y \in Nat : x * y \in Nat
    OBVIOUS
  <2>2. 200 * p + 1 \in Nat
    OBVIOUS
  <2> QED
    BY <2>1, <2>2
<1>2. CASE d < 0
  <2>1. 20000 * d < 0
    BY <1>2
  <2> QED
    BY <1>1, <2>1
<1>3. CASE ~(d < 0)
  <2> DEFINE a == 20000 * d + o
             b == 2 * o
             q == 100 * p
  <2>1. a \in Nat /\ b \in Nat /\ b > 0 /\ q \in Nat
    BY <1>3
  <2>2. Budget!Hundredths(o, n) = a \div b
    BY <1>3 DEF Budget!Hundredths
  <2>3. a \div b =< q
    BY <2>2
  <2> HIDE DEF a, b, q
  <2>4. a < (q + 1) * b
    BY <2>1, <2>3, Quotient
  <2>5. (q + 1) * b = (200 * p + 2) * o
    BY DEF q, b
  <2>6. (200 * p + 2) * o = (200 * p + 1) * o + o
    OBVIOUS
  <2>7. (200 * p + 1) * o \in Int
    OBVIOUS
  <2> DEFINE m == (200 * p + 1) * o
  <2>8. 20000 * d + o < m + o /\ m \in Int
    BY <2>4, <2>5, <2>6, <2>7 DEF a
  <2> HIDE DEF m
  <2>9. 20000 * d =< m
    BY <2>8
  <2> QED
    BY <2>9 DEF m
<1> QED
  BY <1>2, <1>3

ComplexityAnswer(r) ==
    IF ~Budget!ComplexityLoads(r.tables) THEN [refused |-> TRUE, over |-> {}]
    ELSE [refused |-> FALSE, over |-> Budget!ComplexityViolations(r.old, r.new, r.tables)]
ComplexityInv ==
    command = "complexity" => request \in Requests("complexity") /\ answer = ComplexityAnswer(request)

LEMMA ComplexityEvaluated == ASSUME EvaluateComplexity PROVE ComplexityInv'
<1>1. PICK r \in Requests("complexity") : Answers("complexity", r, ComplexityAnswer(r))
  BY Zenon DEF EvaluateComplexity, ComplexityAnswer
<1>2. request' = r /\ answer' = ComplexityAnswer(r)
  BY <1>1, Zenon DEF Answers
<1>3. answer' = ComplexityAnswer(request')
  BY <1>2, Zenon
<1> QED
  BY <1>2, <1>3, Zenon DEF ComplexityInv

LEMMA ComplexityKept == ASSUME ComplexityInv, [Next]_vars PROVE ComplexityInv'
<1>1. CASE UNCHANGED vars
  BY <1>1, Zenon DEF ComplexityInv, vars
<1>2. CASE Next /\ command' = "complexity"
  BY <1>2, OneCommand, ComplexityEvaluated, Zenon
<1>3. CASE command' # "complexity"
  BY <1>3, Zenon DEF ComplexityInv
<1> QED
  BY <1>1, <1>2, <1>3, Zenon

\* What a table allows of a metric that was o and is n.
Allowed(t, o, n) ==
    /\ t.limit # -1 => n =< t.limit
    /\ t.percent # -1 /\ o > 0 => 20000 * (n - o) =< (200 * t.percent + 1) * o

LEMMA ComplexityInvMeans == ASSUME ComplexityInv PROVE WithinBudgets
<1> DEFINE r == request
<1> SUFFICES ASSUME command = "complexity", ~answer.refused, answer.over = {},
                    Fits(r.old), Fits(r.new), NEW t \in r.tables
             PROVE  Allowed(t, Instructions(r.old, t.metric), Instructions(r.new, t.metric))
  BY DEF WithinBudgets, Allowed
<1> DEFINE o == Instructions(r.old, t.metric)
           n == Instructions(r.new, t.metric)
           old == Budget!Profile(r.old)
           new == Budget!Profile(r.new)
           loads == Budget!ComplexityLoads(r.tables)
           over == Budget!ComplexityViolations(r.old, r.new, r.tables)
<1>1. r \in Requests("complexity") /\ answer = ComplexityAnswer(r)
  BY Zenon DEF ComplexityInv
<1>2. /\ Budget!IsCode(r.old) /\ Budget!IsCode(r.new)
      /\ t.limit \in Int /\ t.percent \in Int
  BY <1>1, BudgetsAssumption, Zenon
<1>3. answer = IF ~loads THEN [refused |-> TRUE, over |-> {}] ELSE [refused |-> FALSE, over |-> over]
  BY <1>1, Zenon DEF ComplexityAnswer
<1>4. loads /\ over = {}
  <2> HIDE DEF loads, over
  <2> QED
    BY <1>3
<1>5. t.metric \in {"total_instructions", "defined_functions"} \cup Family /\ t.percent >= -1
  BY <1>4, Zenon DEF Budget!ComplexityLoads
<1>6. ~Budget!Exceeded(t, old, new)
  BY <1>4, Zenon DEF Budget!ComplexityViolations
<1>7. old[t.metric] = o /\ o \in Nat /\ new[t.metric] = n /\ n \in Nat
  BY <1>2, <1>5, ProfileTells, Zenon
<1> HIDE DEF o, n, old, new
<1>8. /\ ~(t.limit # -1 /\ n > t.limit)
      /\ ~(t.percent # -1 /\ Budget!Hundredths(o, n) > 100 * t.percent)
  BY <1>6, <1>7, Zenon DEF Budget!Exceeded
<1>9. t.limit # -1 => n =< t.limit
  BY <1>2, <1>7, <1>8
<1>10. ASSUME t.percent # -1, o > 0 PROVE 20000 * (n - o) =< (200 * t.percent + 1) * o
  <2> DEFINE p == t.percent
  <2>1. p \in Nat
    BY <1>2, <1>5, <1>10
  <2>2. Budget!Hundredths(o, n) \in Int
    BY <1>7, <1>10 DEF Budget!Hundredths
  <2> HIDE DEF p
  <2>3. ~(Budget!Hundredths(o, n) > 100 * p)
    BY <1>8, <1>10, Zenon DEF p
  <2>4. Budget!Hundredths(o, n) =< 100 * p
    BY <2>1, <2>2, <2>3
  <2>5. 20000 * (n - o) =< (200 * p + 1) * o
    BY <1>7, <1>10, <2>1, <2>4, Rounding
  <2> QED
    BY <2>5 DEF p
<1>11. Allowed(t, o, n)
  BY <1>9, <1>10 DEF Allowed
<1> QED
  BY <1>11, Zenon DEF o, n

-----------------------------------------------------------------------------

\* A verdict follows from its parts in each of the drivers, its counters add up,
\* budgets do not depend on their order and are kept within their bounds
\* (src/report.rs, src/budget.rs and src/wasm_complexity.rs), however many findings,
\* tables, bodies and instructions there are.
THEOREM VerdictIsExplained == Spec => []VerdictExplained
<1> DEFINE Inv == ReportInv /\ BudgetInv /\ ComplexityInv
<1>1. Init => Inv
  BY DEF Init, ReportInv, BudgetInv, ComplexityInv
<1>2. Inv /\ [Next]_vars => Inv'
  <2> SUFFICES ASSUME ReportInv, BudgetInv, ComplexityInv, [Next]_vars
               PROVE  ReportInv' /\ BudgetInv' /\ ComplexityInv'
    BY Zenon
  <2> QED
    BY ReportKept, BudgetsKept, ComplexityKept, Zenon
<1>3. Inv => VerdictExplained
  BY ReportInvMeans, BudgetInvMeans, ComplexityInvMeans, Zenon DEF VerdictExplained, BudgetsHold
<1> QED
  BY <1>1, <1>2, <1>3, PTL DEF Spec

=============================================================================
