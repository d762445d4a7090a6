---------------------------- MODULE VerdictProofs ----------------------------
(***************************************************************************)
(* Proofs about SpecDiff and Verdict, for every set of builds and of       *)
(* configurations, and about CallAbi, for every two builds.                *)
(*                                                                         *)
(* About the comparison: its type invariant, that no layout break is       *)
(* missed, and that it implements the safety part of BreakPromise.  The    *)
(* first part relates what each pass reports of one type to the layout     *)
(* that type promises; the second is the inductive invariant of the passes *)
(* and of the cascade.                                                     *)
(*                                                                         *)
(* About the whole pipeline: the verdict errs in neither direction, and a  *)
(* migration covers nothing by halves.  The third part says in which       *)
(* categories the passes report what breaks a type or a call; the fourth   *)
(* strengthens the invariant of the comparison by it; the fifth is about   *)
(* the axes, the rules and the migrations.                                 *)
(*                                                                         *)
(* About the call ABI: the walk is exact.  The inductive invariant of the  *)
(* last part: what was entered is accounted for by what was entered and    *)
(* what waits on the stack; a pair that is skipped is a flow on the stack, *)
(* so it was entered; and nothing but what every proof of compatibility    *)
(* would contain was entered.                                              *)
(***************************************************************************)
EXTENDS Verdict, CallAbi, FiniteSetTheorems, TLAPS

IsCritical(f) == f.sev = "critical"

-----------------------------------------------------------------------------
(***************************************************************************)
(* Members of one type.                                                    *)
(***************************************************************************)

\* Only equal type expressions raise no finding (types_equal and the three
\* categories of a change).
LEMMA NoShapeCategory ==
    ASSUME NEW a, NEW b, NEW c
    PROVE  ShapeCategories(a, b, c) = {} <=> a = b
<1>1. CASE a = b
    BY <1>1 DEF ShapeCategories
<1>2. CASE a # b
    BY <1>2 DEF ShapeCategories
<1> QED BY <1>1, <1>2

\* The elements of a sequence over S are in S.
LEMMA ElementOf ==
    ASSUME NEW S, NEW s \in Seq(S), NEW i \in 1 .. Len(s)
    PROVE  s[i] \in S
OBVIOUS

\* What a finding made by `Finding` holds.
LEMMA FindingFields ==
    ASSUME NEW sev, NEW cat, NEW t, NEW target
    PROVE  LET f == Finding(sev, cat, t, target)
           IN  /\ DOMAIN f = {"sev", "cat", "type", "target", "root"}
               /\ f.sev = sev /\ f.cat = cat /\ f.type = t /\ f.target = target /\ f.root = NoType
BY DEF Finding

\* Members are sequences of named type expressions, without a name twice.
LEMMA MembersFacts ==
    ASSUME NEW ms \in Members(Shape)
    PROVE  /\ ms \in Seq([name : Name, ty : Shape])
           /\ Len(ms) \in Nat
           /\ DOMAIN ms = 1 .. Len(ms)
           /\ \A i \in DOMAIN ms : ms[i] \in [name : Name, ty : Shape]
           /\ \A i, j \in DOMAIN ms : ms[i].name = ms[j].name => i = j
<1>1. ms \in Seq([name : Name, ty : Shape])
    BY DEF Members
<1>2. \A i, j \in DOMAIN ms : ms[i].name = ms[j].name => i = j
    BY DEF Members
<1>3. Len(ms) \in Nat /\ DOMAIN ms = 1 .. Len(ms)
    BY <1>1
<1>4. \A i \in DOMAIN ms : ms[i] \in [name : Name, ty : Shape]
    BY <1>1, <1>3, ElementOf
<1> QED BY <1>1, <1>2, <1>3, <1>4

\* Two members are equal when their names and type expressions are.
LEMMA MemberEquality ==
    ASSUME NEW a \in [name : Name, ty : Shape], NEW b \in [name : Name, ty : Shape]
    PROVE  a = b <=> a.name = b.name /\ a.ty = b.ty
OBVIOUS

\* With no insertion, the alignment is the identity on the common positions.
LEMMA AlignedIdentity ==
    ASSUME NEW o \in Members(Shape), NEW n \in Members(Shape), Inserted(o, n) = {}
    PROVE  Aligned(o, n) = {<<i, i>> : i \in (DOMAIN o) \cap (DOMAIN n)}
<1>1. Len(n) \in Nat /\ DOMAIN n = 1 .. Len(n) /\ Len(o) \in Nat /\ DOMAIN o = 1 .. Len(o)
    BY MembersFacts
<1>2. ASSUME NEW p \in DOMAIN n
      PROVE  Cardinality({q \in DOMAIN n : q <= p}) = p
    <2>1. {q \in DOMAIN n : q <= p} = 1 .. p
        BY <1>1
    <2>2. Cardinality(1 .. p) = p
        BY <1>1, FS_Interval
    <2> QED BY <2>1, <2>2
<1>3. Aligned(o, n) = {ip \in (DOMAIN o) \X (DOMAIN n) : Cardinality({q \in DOMAIN n : q <= ip[2]}) = ip[1]}
    BY DEF Aligned
<1>4. Aligned(o, n) = {ip \in (DOMAIN o) \X (DOMAIN n) : ip[2] = ip[1]}
    BY <1>2, <1>3
<1> QED BY <1>4

\* check_struct_fields finds nothing critical exactly when the old fields are
\* a prefix of the new ones: the parts of that statement.
LEMMA StructPartsOf ==
    ASSUME NEW o \in Members(Shape), NEW n \in Members(Shape)
    PROVE  PrefixKept(o, n) <=>
              /\ Inserted(o, n) = {}
              /\ Removed(o, n) = {}
              /\ \A ip \in Aligned(o, n) : o[ip[1]].name = n[ip[2]].name /\ o[ip[1]].ty = n[ip[2]].ty
<1>1. /\ Len(n) \in Nat /\ DOMAIN n = 1 .. Len(n)
      /\ Len(o) \in Nat /\ DOMAIN o = 1 .. Len(o)
    BY MembersFacts
<1>2. /\ \A i \in DOMAIN o : o[i] \in [name : Name, ty : Shape]
      /\ \A i \in DOMAIN n : n[i] \in [name : Name, ty : Shape]
    BY MembersFacts
<1>3. /\ \A i, j \in DOMAIN o : o[i].name = o[j].name => i = j
      /\ \A i, j \in DOMAIN n : n[i].name = n[j].name => i = j
    BY MembersFacts
<1>4. ASSUME PrefixKept(o, n)
      PROVE  /\ Inserted(o, n) = {}
             /\ Removed(o, n) = {}
             /\ \A ip \in Aligned(o, n) : o[ip[1]].name = n[ip[2]].name /\ o[ip[1]].ty = n[ip[2]].ty
    <2>1. \A i \in DOMAIN o : i \in DOMAIN n /\ o[i] = n[i]
        BY <1>1, <1>4 DEF PrefixKept
    <2>2. \A p \in DOMAIN n : n[p].name \in Names(o) => p \in DOMAIN o
        BY <1>3, <2>1 DEF Names
    <2>3. \A p \in DOMAIN o : n[p].name \in Names(o)
        BY <2>1 DEF Names
    <2>4. Inserted(o, n) = {}
        BY <1>1, <2>2, <2>3 DEF Inserted, Known
    <2>5. Removed(o, n) = {}
        BY <2>1 DEF Removed, Names
    <2> QED BY <2>1, <2>4, <2>5, AlignedIdentity
<1>5. ASSUME Inserted(o, n) = {}, Removed(o, n) = {},
             \A ip \in Aligned(o, n) : o[ip[1]].name = n[ip[2]].name /\ o[ip[1]].ty = n[ip[2]].ty
      PROVE  PrefixKept(o, n)
    <2>1. \A i \in (DOMAIN o) \cap (DOMAIN n) : o[i].name = n[i].name /\ o[i].ty = n[i].ty
        <3>1. \A i \in (DOMAIN o) \cap (DOMAIN n) : <<i, i>> \in Aligned(o, n)
            BY <1>5, AlignedIdentity
        <3> QED BY <1>5, <3>1
    <2>2. \A i \in (DOMAIN o) \cap (DOMAIN n) : o[i] = n[i]
        BY <1>2, <2>1, MemberEquality
    <2>3. \A i \in DOMAIN o : \E j \in DOMAIN n : o[i].name = n[j].name
        BY <1>5 DEF Removed, Names
    <2>4. Len(o) <= Len(n)
        <3> SUFFICES ASSUME Len(o) > Len(n) PROVE FALSE
            BY <1>1
        <3>1. PICK j \in DOMAIN n : o[Len(n) + 1].name = n[j].name
            BY <1>1, <2>3
        <3>2. o[j].name = n[j].name /\ j \in DOMAIN o /\ j # Len(n) + 1
            BY <1>1, <2>1
        <3> QED BY <1>1, <1>3, <3>1, <3>2
    <2> QED BY <1>1, <2>2, <2>4 DEF PrefixKept
<1> QED BY <1>4, <1>5

\* check_struct_fields reports a critical finding exactly when the old fields
\* are not a prefix of the new ones.
LEMMA StructMarks ==
    ASSUME NEW t, NEW o \in Members(Shape), NEW n \in Members(Shape)
    PROVE  (\E f \in StructFindings(t, o, n) : IsCritical(f)) <=> ~PrefixKept(o, n)
<1> DEFINE Break(c, m) == Finding("critical", c, t, <<t, m>>)
           cat == FieldCategories(t)
           A == {Break("Struct Field Inserted", n[p].name) : p \in Inserted(o, n)}
           B == {Break(cat.removed, o[i].name) : i \in Removed(o, n)}
           C == {Break(cat.reordered, o[ip[1]].name) : ip \in {x \in Aligned(o, n) : o[x[1]].name # n[x[2]].name}}
           D == UNION {{Break(c, o[ip[1]].name) : c \in ShapeCategories(o[ip[1]].ty, n[ip[2]].ty, cat.retyped)} :
                       ip \in Aligned(o, n)}
           E == {Finding("warning", "Struct Field Added", t, <<t, n[p].name>>) : p \in Appended(o, n)}
<1>1. StructFindings(t, o, n) = A \cup B \cup C \cup D \cup E
    BY DEF StructFindings
<1>2. /\ \A f \in A : IsCritical(f)
      /\ \A f \in B : IsCritical(f)
      /\ \A f \in C : IsCritical(f)
      /\ \A f \in D : IsCritical(f)
      /\ \A f \in E : ~IsCritical(f)
    <2>1. \A c, m : IsCritical(Break(c, m))
        BY FindingFields DEF IsCritical
    <2>2. \A m : ~IsCritical(Finding("warning", "Struct Field Added", t, <<t, m>>))
        BY DEF Finding, IsCritical
    <2> HIDE DEF Break, cat
    <2> QED BY <2>1, <2>2
<1>4. A = {} <=> Inserted(o, n) = {}
    OBVIOUS
<1>5. B = {} <=> Removed(o, n) = {}
    OBVIOUS
<1>6. C = {} <=> \A ip \in Aligned(o, n) : o[ip[1]].name = n[ip[2]].name
    OBVIOUS
<1>7. D = {} <=> \A ip \in Aligned(o, n) : o[ip[1]].ty = n[ip[2]].ty
    <2> DEFINE One(ip) == {Break(c, o[ip[1]].name) : c \in ShapeCategories(o[ip[1]].ty, n[ip[2]].ty, cat.retyped)}
    <2>1. \A ip : One(ip) = {} <=> o[ip[1]].ty = n[ip[2]].ty
        <3>1. \A ip : One(ip) = {} <=> ShapeCategories(o[ip[1]].ty, n[ip[2]].ty, cat.retyped) = {}
            OBVIOUS
        <3> HIDE DEF cat
        <3> QED BY <3>1, NoShapeCategory
    <2>2. D = UNION {One(ip) : ip \in Aligned(o, n)}
        OBVIOUS
    <2> HIDE DEF One, D
    <2> QED BY <2>1, <2>2
<1> HIDE DEF A, B, C, D, E, cat
<1> QED BY <1>1, <1>2, <1>4, <1>5, <1>6, <1>7, StructPartsOf

\* check_enum_cases and check_error_enum_cases report a critical finding exactly
\* when some old case is gone or has another value.
LEMMA CaseMarks ==
    ASSUME NEW kind, NEW t, NEW o \in Members(Shape), NEW n \in Members(Shape)
    PROVE  (\E f \in CaseFindings(kind, t, o, n) : IsCritical(f)) <=> ~CasesKept(o, n)
<1> DEFINE cat == CaseCategories(kind, t)
           Pairs2 == {x \in (DOMAIN o) \X (DOMAIN n) : o[x[1]].name = n[x[2]].name /\ o[x[1]].ty # n[x[2]].ty}
           Grown == {k \in Removed(n, o) : kind = "error enum" \/ Len(n) > Len(o)}
           A == {Finding("critical", cat.removed, t, <<t, o[i].name>>) : i \in Removed(o, n)}
           B == {Finding("critical", cat.value, t, <<t, o[ij[1]].name>>) : ij \in Pairs2}
           C == {Finding("info", cat.added, t, <<t, n[j].name>>) : j \in Grown}
<1>1. CaseFindings(kind, t, o, n) = A \cup B \cup C
    BY DEF CaseFindings
<1>2. /\ \A f \in A : IsCritical(f)
      /\ \A f \in B : IsCritical(f)
      /\ \A f \in C : ~IsCritical(f)
    <2>1. \A c, m : IsCritical(Finding("critical", c, t, m))
        BY DEF Finding, IsCritical
    <2>2. \A c, m : ~IsCritical(Finding("info", c, t, m))
        BY DEF Finding, IsCritical
    <2> HIDE DEF cat
    <2> QED BY <2>1, <2>2
<1>3. A = {} <=> Removed(o, n) = {}
    OBVIOUS
<1>4. B = {} <=> Pairs2 = {}
    <2> HIDE DEF Pairs2
    <2> QED OBVIOUS
<1>5. CasesKept(o, n) <=> Removed(o, n) = {} /\ Pairs2 = {}
    <2>1. /\ \A i \in DOMAIN o : o[i] \in [name : Name, ty : Shape]
          /\ \A i \in DOMAIN n : n[i] \in [name : Name, ty : Shape]
          /\ \A i, j \in DOMAIN n : n[i].name = n[j].name => i = j
        BY MembersFacts
    <2>2. Removed(o, n) = {} <=> \A i \in DOMAIN o : \E j \in DOMAIN n : o[i].name = n[j].name
        BY DEF Removed, Names
    <2>3. Pairs2 = {} <=> \A i \in DOMAIN o, j \in DOMAIN n : o[i].name = n[j].name => o[i].ty = n[j].ty
        <3>1. ASSUME Pairs2 = {}, NEW i \in DOMAIN o, NEW j \in DOMAIN n, o[i].name = n[j].name
              PROVE  o[i].ty = n[j].ty
            <4>1. <<i, j>> \in (DOMAIN o) \X (DOMAIN n) /\ <<i, j>>[1] = i /\ <<i, j>>[2] = j
                OBVIOUS
            <4>2. <<i, j>> \notin Pairs2
                BY <3>1
            <4> QED BY <3>1, <4>1, <4>2
        <3>2. \A x \in Pairs2 : /\ x[1] \in DOMAIN o /\ x[2] \in DOMAIN n
                               /\ o[x[1]].name = n[x[2]].name /\ o[x[1]].ty # n[x[2]].ty
            OBVIOUS
        <3> HIDE DEF Pairs2
        <3> QED BY <3>1, <3>2
    <2>4. ASSUME CasesKept(o, n)
          PROVE  Removed(o, n) = {} /\ Pairs2 = {}
        BY <2>1, <2>2, <2>3, <2>4 DEF CasesKept
    <2>5. ASSUME Removed(o, n) = {}, Pairs2 = {}
          PROVE  CasesKept(o, n)
        BY <2>1, <2>2, <2>3, <2>5, MemberEquality DEF CasesKept
    <2> QED BY <2>4, <2>5
<1> HIDE DEF A, B, C, Pairs2, cat
<1> QED BY <1>1, <1>2, <1>3, <1>4, <1>5

\* check_union_cases reports a critical finding exactly when the old cases are
\* not a prefix of the new ones.
LEMMA UnionMarks ==
    ASSUME NEW t, NEW o \in Members(Shape), NEW n \in Members(Shape)
    PROVE  (\E f \in UnionFindings(t, o, n) : IsCritical(f)) <=> ~PrefixKept(o, n)
<1> DEFINE both == (DOMAIN o) \cap (DOMAIN n)
           Break(c, i) == Finding("critical", c, t, <<t, o[i].name>>)
           A == {Break("Union Case Removed", i) : i \in Removed(o, n)}
           B == {Break("Union Case Reordered", i) : i \in {k \in both : o[k].name # n[k].name}}
           C == {Break(PayloadCategory(o[i].ty, n[i].ty), i) : i \in {k \in both : o[k].ty # n[k].ty}}
           D == {Finding("info", "Union Case Added", t, <<t, n[p].name>>) : p \in (DOMAIN n) \ (DOMAIN o)}
<1>1. UnionFindings(t, o, n) = A \cup B \cup C \cup D
    BY DEF UnionFindings
<1>2. /\ \A f \in A : IsCritical(f)
      /\ \A f \in B : IsCritical(f)
      /\ \A f \in C : IsCritical(f)
      /\ \A f \in D : ~IsCritical(f)
    <2>1. \A c, i : IsCritical(Break(c, i))
        BY DEF Finding, IsCritical
    <2>2. \A c, m : ~IsCritical(Finding("info", c, t, m))
        BY DEF Finding, IsCritical
    <2> HIDE DEF Break, both
    <2> QED BY <2>1, <2>2
<1>3. A = {} <=> Removed(o, n) = {}
    OBVIOUS
<1>4. B = {} <=> \A k \in both : o[k].name = n[k].name
    OBVIOUS
<1>5. C = {} <=> \A k \in both : o[k].ty = n[k].ty
    OBVIOUS
<1>6. PrefixKept(o, n) <=>
          Removed(o, n) = {} /\ \A k \in both : o[k].name = n[k].name /\ o[k].ty = n[k].ty
    <2>1. /\ Len(n) \in Nat /\ DOMAIN n = 1 .. Len(n)
          /\ Len(o) \in Nat /\ DOMAIN o = 1 .. Len(o)
        BY MembersFacts
    <2>2. /\ \A i \in DOMAIN o : o[i] \in [name : Name, ty : Shape]
          /\ \A i \in DOMAIN n : n[i] \in [name : Name, ty : Shape]
          /\ \A i, j \in DOMAIN o : o[i].name = o[j].name => i = j
        BY MembersFacts
    <2>3. Removed(o, n) = {} <=> \A i \in DOMAIN o : \E j \in DOMAIN n : o[i].name = n[j].name
        BY DEF Removed, Names
    <2>4. ASSUME PrefixKept(o, n)
          PROVE  Removed(o, n) = {} /\ \A k \in both : o[k].name = n[k].name /\ o[k].ty = n[k].ty
        BY <2>1, <2>3, <2>4 DEF PrefixKept
    <2>5. ASSUME Removed(o, n) = {}, \A k \in both : o[k].name = n[k].name /\ o[k].ty = n[k].ty
          PROVE  PrefixKept(o, n)
        <3>1. \A k \in both : o[k] = n[k]
            BY <2>2, <2>5, MemberEquality
        <3>2. Len(o) <= Len(n)
            <4> SUFFICES ASSUME Len(o) > Len(n) PROVE FALSE
                BY <2>1
            <4> HIDE DEF A, B, C, D
            <4>1. Len(n) + 1 \in DOMAIN o
                BY <2>1
            <4>2. PICK j \in DOMAIN n : o[Len(n) + 1].name = n[j].name
                BY <2>3, <2>5, <4>1
            <4>3. o[j].name = n[j].name /\ j \in DOMAIN o /\ j # Len(n) + 1
                BY <2>1, <2>5
            <4> QED BY <2>2, <4>1, <4>2, <4>3
        <3> QED BY <2>1, <3>1, <3>2 DEF PrefixKept
    <2> QED BY <2>4, <2>5
<1> HIDE DEF A, B, C, D
<1> QED BY <1>1, <1>2, <1>3, <1>4, <1>5, <1>6

-----------------------------------------------------------------------------
(***************************************************************************)
(* What the passes report.                                                 *)
(***************************************************************************)

\* A finding of a pass: one that is no cascade, and whose target is headed by
\* the type it is about, if it is about one.
Direct(f) ==
    /\ DOMAIN f = {"sev", "cat", "type", "target", "root"}
    /\ f.sev \in {"critical", "warning", "info"}
    /\ f.type \in Type \cup {NoType}
    /\ f.root = NoType
    /\ f.type # NoType => f.target[1] = f.type

LEMMA FindingDirect ==
    ASSUME NEW t \in Type, NEW sev \in {"critical", "warning", "info"}
    PROVE  /\ \A c : Direct(Finding(sev, c, t, <<t>>)) /\ Finding(sev, c, t, <<t>>).type = t
           /\ \A c, m : Direct(Finding(sev, c, t, <<t, m>>)) /\ Finding(sev, c, t, <<t, m>>).type = t
BY DEF Direct, Finding

LEMMA StructDirect ==
    ASSUME NEW t \in Type, NEW o, NEW n
    PROVE  \A f \in StructFindings(t, o, n) : Direct(f) /\ f.type = t
<1> DEFINE cat == FieldCategories(t)
           Cats(ip) == ShapeCategories(o[ip[1]].ty, n[ip[2]].ty, cat.retyped)
           Break(c, m) == Finding("critical", c, t, <<t, m>>)
           Added(m) == Finding("warning", "Struct Field Added", t, <<t, m>>)
           Good(f) == Direct(f) /\ f.type = t
           A == {Break("Struct Field Inserted", n[p].name) : p \in Inserted(o, n)}
           B == {Break(cat.removed, o[i].name) : i \in Removed(o, n)}
           C == {Break(cat.reordered, o[ip[1]].name) : ip \in {x \in Aligned(o, n) : o[x[1]].name # n[x[2]].name}}
           One(ip) == {Break(c, o[ip[1]].name) : c \in Cats(ip)}
           D == UNION {One(ip) : ip \in Aligned(o, n)}
           E == {Added(n[p].name) : p \in Appended(o, n)}
<1>1. /\ \A c, m : Good(Break(c, m))
      /\ \A m : Good(Added(m))
    BY FindingDirect
<1>2. StructFindings(t, o, n) = A \cup B \cup C \cup D \cup E
    BY DEF StructFindings
<1> HIDE DEF Break, Added, Good, cat, Cats
<1>3. /\ \A f \in A : Good(f)
      /\ \A f \in B : Good(f)
      /\ \A f \in E : Good(f)
    BY <1>1
<1>4. \A f \in C : Good(f)
    BY <1>1
<1>5. \A f \in D : Good(f)
    <2>1. \A ip : \A f \in One(ip) : Good(f)
        BY <1>1
    <2> HIDE DEF One
    <2> QED BY <2>1
<1>6. \A f \in StructFindings(t, o, n) : Good(f)
    <2> HIDE DEF A, B, C, D, E
    <2> QED BY <1>2, <1>3, <1>4, <1>5
<1> QED BY <1>6 DEF Good

LEMMA CaseDirect ==
    ASSUME NEW kind, NEW t \in Type, NEW o, NEW n
    PROVE  \A f \in CaseFindings(kind, t, o, n) : Direct(f) /\ f.type = t
<1> DEFINE cat == CaseCategories(kind, t)
           Break(c, m) == Finding("critical", c, t, <<t, m>>)
           Added(m) == Finding("info", cat.added, t, <<t, m>>)
           Good(f) == Direct(f) /\ f.type = t
           Revalued == {x \in (DOMAIN o) \X (DOMAIN n) : o[x[1]].name = n[x[2]].name /\ o[x[1]].ty # n[x[2]].ty}
           Grown == {k \in Removed(n, o) : kind = "error enum" \/ Len(n) > Len(o)}
           A == {Break(cat.removed, o[i].name) : i \in Removed(o, n)}
           B == {Break(cat.value, o[ij[1]].name) : ij \in Revalued}
           C == {Added(n[j].name) : j \in Grown}
<1>1. /\ \A c, m : Good(Break(c, m))
      /\ \A m : Good(Added(m))
    BY FindingDirect
<1>2. CaseFindings(kind, t, o, n) = A \cup B \cup C
    BY DEF CaseFindings
<1> HIDE DEF Break, Added, Good, cat, Revalued, Grown
<1>3. /\ \A f \in A : Good(f)
      /\ \A f \in B : Good(f)
      /\ \A f \in C : Good(f)
    BY <1>1
<1>4. \A f \in CaseFindings(kind, t, o, n) : Good(f)
    <2> HIDE DEF A, B, C
    <2> QED BY <1>2, <1>3
<1> QED BY <1>4 DEF Good

LEMMA UnionDirect ==
    ASSUME NEW t \in Type, NEW o, NEW n
    PROVE  \A f \in UnionFindings(t, o, n) : Direct(f) /\ f.type = t
<1> DEFINE both == (DOMAIN o) \cap (DOMAIN n)
           Break(c, i) == Finding("critical", c, t, <<t, o[i].name>>)
           Added(m) == Finding("info", "Union Case Added", t, <<t, m>>)
           Good(f) == Direct(f) /\ f.type = t
           A == {Break("Union Case Removed", i) : i \in Removed(o, n)}
           B == {Break("Union Case Reordered", i) : i \in {k \in both : o[k].name # n[k].name}}
           C == {Break(PayloadCategory(o[i].ty, n[i].ty), i) : i \in {k \in both : o[k].ty # n[k].ty}}
           D == {Added(n[p].name) : p \in (DOMAIN n) \ (DOMAIN o)}
<1>1. /\ \A c, i : Good(Break(c, i))
      /\ \A m : Good(Added(m))
    <2> HIDE DEF A, B, C, D
    <2>1. /\ \A c, m : Good(Finding("critical", c, t, <<t, m>>))
          /\ \A c, m : Good(Finding("info", c, t, <<t, m>>))
        BY FindingDirect
    <2> HIDE DEF Good
    <2> QED BY <2>1
<1>2. UnionFindings(t, o, n) = A \cup B \cup C \cup D
    BY DEF UnionFindings
<1> HIDE DEF Break, Added, Good, both
<1>3. /\ \A f \in A : Good(f)
      /\ \A f \in B : Good(f)
      /\ \A f \in C : Good(f)
      /\ \A f \in D : Good(f)
    BY <1>1
<1>4. \A f \in UnionFindings(t, o, n) : Good(f)
    <2> HIDE DEF A, B, C, D
    <2> QED BY <1>2, <1>3
<1> QED BY <1>4 DEF Good

\* The comparison of two definitions of one kind reports a critical finding
\* exactly when the new one does not keep the layout of the old one.
LEMMA MemberMarks ==
    ASSUME NEW kind \in Kind, NEW t \in Type, NEW o \in Members(Shape), NEW n \in Members(Shape)
    PROVE  /\ \A f \in MemberFindings(kind, t, o, n) : Direct(f) /\ f.type = t
           /\ (\E f \in MemberFindings(kind, t, o, n) : IsCritical(f)) <=> ~MembersKept(kind, o, n)
<1>1. CASE kind = "struct"
    <2>1. MemberFindings(kind, t, o, n) = StructFindings(t, o, n) /\ (MembersKept(kind, o, n) <=> PrefixKept(o, n))
        BY <1>1 DEF MemberFindings, MembersKept
    <2> QED BY <2>1, StructDirect, StructMarks
<1>2. CASE kind = "union"
    <2>1. MemberFindings(kind, t, o, n) = UnionFindings(t, o, n) /\ (MembersKept(kind, o, n) <=> PrefixKept(o, n))
        BY <1>2 DEF MemberFindings, MembersKept
    <2> QED BY <2>1, UnionDirect, UnionMarks
<1>3. CASE kind \notin {"struct", "union"}
    <2>1. MemberFindings(kind, t, o, n) = CaseFindings(kind, t, o, n) /\ (MembersKept(kind, o, n) <=> CasesKept(o, n))
        BY <1>3 DEF MemberFindings, MembersKept
    <2> QED BY <2>1, CaseDirect, CaseMarks
<1> QED BY <1>1, <1>2, <1>3

\* What IsSpec says of a type of a specification.
LEMMA SpecFacts ==
    ASSUME NEW spec, IsSpec(spec)
    PROVE  /\ DOMAIN spec.types \subseteq Type
           /\ \A t \in DOMAIN spec.types : /\ spec.types[t].kind \in Kind
                                           /\ spec.types[t].members \in Members(Shape)
BY DEF IsSpec, Definition

\* A pass over one kind: exactly the types of that kind whose layout is not
\* kept get a critical finding.
LEMMA PassMarks ==
    ASSUME NEW kind \in Kind, IsSpec(old), IsSpec(new)
    PROVE  /\ \A f \in PassFindings(kind) : Direct(f) /\ f.type \in Type
           /\ \A t : (\E f \in PassFindings(kind) : IsCritical(f) /\ f.type = t)
                        <=> t \in OfKind(old, kind) /\ ~LayoutKept(old, new, t)
<1> DEFINE o == OfKind(old, kind)
           n == OfKind(new, kind)
           Of(t) == MemberFindings(kind, t, old.types[t].members, new.types[t].members)
           Redocumented(t) == kind \in {"struct", "enum"} /\ old.types[t].doc # new.types[t].doc
           Gone(t) == Finding("critical", RemovalCategory(kind, t), t, <<t>>)
           Fresh(t) == Finding("info", AdditionCategory(kind), t, <<t>>)
           Told(t) == Finding("info", DocCategory(kind), t, <<t>>)
           A == {Gone(t) : t \in o \ n}
           B == UNION {Of(t) : t \in o \cap n}
           C == {Told(t) : t \in {u \in o \cap n : Redocumented(u)}}
           D == {Fresh(t) : t \in n \ o}
<1>1. PassFindings(kind) = A \cup B \cup C \cup D
    BY DEF PassFindings
<1>2. /\ o \subseteq Type
      /\ n \subseteq Type
      /\ \A t \in o : old.types[t].kind = kind /\ old.types[t].members \in Members(Shape)
      /\ \A t \in n : new.types[t].kind = kind /\ new.types[t].members \in Members(Shape)
      /\ \A t \in o : t \in n <=> (t \in DOMAIN new.types /\ new.types[t].kind = old.types[t].kind)
    BY SpecFacts DEF OfKind
<1>3. \A t \in o \cap n : /\ \A f \in Of(t) : Direct(f) /\ f.type = t
                          /\ (\E f \in Of(t) : IsCritical(f)) <=> ~LayoutKept(old, new, t)
    <2> SUFFICES ASSUME NEW t \in o \cap n
                 PROVE  /\ \A f \in Of(t) : Direct(f) /\ f.type = t
                        /\ (\E f \in Of(t) : IsCritical(f)) <=> ~LayoutKept(old, new, t)
        OBVIOUS
    <2>1. LayoutKept(old, new, t) <=> MembersKept(kind, old.types[t].members, new.types[t].members)
        BY <1>2 DEF LayoutKept
    <2> QED BY <1>2, <2>1, MemberMarks
<1>4. \A t \in o \ n : ~LayoutKept(old, new, t)
    BY <1>2 DEF LayoutKept
<1>5. \A t \in Type : Direct(Gone(t)) /\ IsCritical(Gone(t)) /\ Gone(t).type = t
    BY FindingDirect DEF IsCritical, Finding
<1>6. \A t \in Type : /\ Direct(Told(t)) /\ ~IsCritical(Told(t)) /\ Told(t).type = t
                      /\ Direct(Fresh(t)) /\ ~IsCritical(Fresh(t)) /\ Fresh(t).type = t
    BY FindingDirect DEF IsCritical, Finding
<1> HIDE DEF Gone, Told, Fresh, o, n, Redocumented
<1>7. \A f \in A : Direct(f) /\ IsCritical(f) /\ f.type \in o \ n
    BY <1>2, <1>5
<1>8. \A t \in o \ n : \E f \in A : f.type = t
    BY <1>2, <1>5
<1>9. \A f \in C \cup D : Direct(f) /\ ~IsCritical(f) /\ f.type \in Type
    BY <1>2, <1>6
<1> HIDE DEF A, C, D, Of
<1>10. \A f \in B : \E t \in o \cap n : f \in Of(t)
    OBVIOUS
<1>11. \A t \in o \cap n : Of(t) \subseteq B
    OBVIOUS
<1> HIDE DEF B
<1>12. \A f \in PassFindings(kind) : Direct(f) /\ f.type \in Type
    BY <1>1, <1>2, <1>3, <1>7, <1>9, <1>10
<1>13. ASSUME NEW f \in PassFindings(kind), IsCritical(f)
       PROVE  f.type \in o /\ ~LayoutKept(old, new, f.type)
    <2>1. CASE f \in A
        BY <2>1, <1>4, <1>7
    <2>2. CASE f \in B
        BY <2>2, <1>3, <1>10, <1>13
    <2> QED BY <1>1, <1>9, <1>13, <2>1, <2>2
<1>14. ASSUME NEW t \in o, ~LayoutKept(old, new, t)
       PROVE  \E f \in PassFindings(kind) : IsCritical(f) /\ f.type = t
    <2>1. CASE t \in n
        BY <2>1, <1>1, <1>3, <1>11, <1>14
    <2>2. CASE t \notin n
        BY <2>2, <1>1, <1>7, <1>8
    <2> QED BY <2>1, <2>2
<1>15. o = OfKind(old, kind)
    BY DEF o
<1> QED BY <1>12, <1>13, <1>14, <1>15

\* Every finding about a function has no type name.
LEMMA FunctionsDirect ==
    \A f \in FunctionFindings : Direct(f) /\ f.type = NoType
<1> DEFINE Plain(f) == Direct(f) /\ f.type = NoType
<1>1. \A sev \in {"critical", "warning", "info"} : \A c, m : Plain(FnFinding(sev, c, m))
    BY DEF Direct, FnFinding, Finding
<1> HIDE DEF Plain
<1>2. ASSUME NEW f, NEW o, NEW n
      PROVE  \A x \in ParameterFindings(f, o, n) : Plain(x)
    <2> DEFINE reordered == Names(o) = Names(n) /\ \E i \in DOMAIN o : o[i].name # n[i].name
               Paired(i, j) == IF reordered THEN o[i].name = n[j].name ELSE i = j
               A == IF reordered THEN {FnFinding("critical", "Parameter Reordered", <<f>>)} ELSE {}
               B == {FnFinding("warning", "Parameter Renamed", <<f, o[i].name>>) :
                        i \in {k \in DOMAIN o : ~reordered /\ o[k].name # n[k].name}}
               One(ij) == {FnFinding("critical", c, <<f, o[ij[1]].name>>) :
                              c \in ShapeCategories(o[ij[1]].ty, n[ij[2]].ty, "Parameter Type Changed")}
               C == UNION {One(ij) : ij \in {x \in (DOMAIN o) \X (DOMAIN n) : Paired(x[1], x[2])}}
    <2>1. ParameterFindings(f, o, n) = A \cup B \cup C
        BY DEF ParameterFindings
    <2> HIDE DEF reordered, Paired
    <2>2. \A x \in A : Plain(x)
        BY <1>1
    <2>3. \A x \in B : Plain(x)
        BY <1>1
    <2>4. \A x \in C : Plain(x)
        <3>1. \A ij : \A x \in One(ij) : Plain(x)
            BY <1>1
        <3> HIDE DEF One
        <3> QED BY <3>1
    <2> QED BY <2>1, <2>2, <2>3, <2>4
<1>3. ASSUME NEW f, NEW o, NEW n
      PROVE  \A x \in OutputFindings(f, o, n) : Plain(x)
    <2>1. CASE Len(o) # Len(n)
        BY <1>1, <2>1 DEF OutputFindings
    <2>2. CASE Len(o) = Len(n)
        <3> DEFINE One(i) == {FnFinding("critical", c, <<f>>) :
                                 c \in ShapeCategories(o[i], n[i], "Return Type Changed")}
        <3>1. OutputFindings(f, o, n) = UNION {One(i) : i \in DOMAIN o}
            BY <2>2 DEF OutputFindings
        <3>2. \A i : \A x \in One(i) : Plain(x)
            BY <1>1
        <3> HIDE DEF One
        <3> QED BY <3>1, <3>2
    <2> QED BY <2>1, <2>2
<1>4. \A f, o, n : \A x \in SignatureFindings(f, o, n) : Plain(x)
    BY <1>1, <1>2, <1>3 DEF SignatureFindings
<1>5. \A f \in FunctionFindings : Plain(f)
    <2> DEFINE o == old.fns
               n == new.fns
               Common == (DOMAIN o) \cap (DOMAIN n)
               One(f) == SignatureFindings(f, o[f], n[f])
               A == {FnFinding("critical", "Function Removed", <<f>>) : f \in (DOMAIN o) \ (DOMAIN n)}
               B == UNION {One(f) : f \in Common}
               C == {FnFinding("info", "Function Documentation Changed", <<f>>) :
                        f \in {g \in Common : o[g].doc # n[g].doc}}
               D == {FnFinding("info", "Function Added", <<f>>) : f \in (DOMAIN n) \ (DOMAIN o)}
    <2>1. FunctionFindings = A \cup B \cup C \cup D
        BY DEF FunctionFindings
    <2>2. (\A x \in A : Plain(x)) /\ (\A x \in C : Plain(x)) /\ (\A x \in D : Plain(x))
        BY <1>1
    <2>3. \A f : \A x \in One(f) : Plain(x)
        BY <1>4
    <2> HIDE DEF One, Common
    <2>4. \A x \in B : Plain(x)
        BY <2>3
    <2> HIDE DEF A, B, C, D
    <2> QED BY <2>1, <2>2, <2>4
<1> QED BY <1>5 DEF Plain

-----------------------------------------------------------------------------
(***************************************************************************)
(* The inductive invariant.  Before the cascade the marked types are those *)
(* of the kinds compared so far whose layout is not kept.  In the cascade  *)
(* they are the first components of the marks, the broken types with       *)
(* themselves and the cascaded ones with their root, and a mark is either  *)
(* queued or expanded.                                                     *)
(***************************************************************************)
DoneKinds(s) ==
    CASE s \in {"functions", "structs"} -> {}
      [] s = "enums" -> {"struct"}
      [] s = "unions" -> {"struct", "enum"}
      [] s = "error enums" -> {"struct", "enum", "union"}
      [] OTHER -> Kind

NotKept == {t \in DOMAIN old.types : ~LayoutKept(old, new, t)}

BrokenIn(S) == {f.type : f \in {g \in S : g.sev = "critical" /\ g.type # NoType}}

CascadedIn(S) == {<<f.type, f.root>> : f \in {g \in S : g.root # NoType}}

Marks == {<<t, t>> : t \in NotKept} \cup Cascaded

Cascading == stage \in {"cascade", "compared"}

PassInv ==
    ~Cascading =>
        /\ queue = {}
        /\ \A f \in findings : Direct(f)
        /\ Broken = {t \in NotKept : old.types[t].kind \in DoneKinds(stage)}

CascadeInv ==
    Cascading =>
        /\ queue \subseteq Marks
        /\ Broken = {m[1] : m \in Marks}
        /\ \A m \in Marks \ queue : \A d \in Dependents(old, m[1]) : <<d, m[2]>> \in Cascaded
        /\ stage = "compared" => queue = {}

IInv == TypeOK /\ PassInv /\ CascadeInv

\* The types told broken by two sets of findings are those told by either.
LEMMA BrokenUnion ==
    ASSUME NEW S, NEW T
    PROVE  /\ BrokenIn(S \cup T) = BrokenIn(S) \cup BrokenIn(T)
           /\ CascadedIn(S \cup T) = CascadedIn(S) \cup CascadedIn(T)
BY DEF BrokenIn, CascadedIn

LEMMA BrokenOfFindings == Broken = BrokenIn(findings) /\ Cascaded = CascadedIn(findings)
BY DEF Broken, BrokenIn, Cascaded, CascadedIn

\* Membership, for the first-order prover.
LEMMA BrokenMember ==
    ASSUME NEW S, NEW t
    PROVE  t \in BrokenIn(S) <=> t # NoType /\ \E f \in S : IsCritical(f) /\ f.type = t
BY DEF BrokenIn, IsCritical

\* The initial state satisfies the invariant.
LEMMA InvInit == Init => IInv
<1> SUFFICES ASSUME Init PROVE IInv
    OBVIOUS
<1>1. IsSpec(old) /\ IsSpec(new) /\ findings = {} /\ stage = "functions" /\ queue = {}
    BY PairsAssumption DEF Init
<1>2. TypeOK
    BY <1>1 DEF TypeOK, Stages
<1>3. Broken = {} /\ DoneKinds(stage) = {}
    BY <1>1 DEF Broken, DoneKinds
<1> QED BY <1>1, <1>2, <1>3 DEF IInv, PassInv, CascadeInv, Cascading

\* A pass over one kind adds that kind's broken types.
LEMMA PassStep ==
    ASSUME IInv, NEW kind \in Kind, NEW here \in Stages, NEW next \in Stages,
           Pass(kind, here, next),
           here \notin {"cascade", "compared"}, next \notin {"cascade", "compared"},
           DoneKinds(next) = DoneKinds(here) \cup {kind}
    PROVE  IInv' /\ old' = old /\ new' = new /\ Broken \subseteq Broken' /\ Broken' \subseteq Broken \cup NotKept
<1>1. /\ stage = here
      /\ findings' = findings \cup PassFindings(kind)
      /\ stage' = next
      /\ old' = old /\ new' = new /\ queue' = queue
    BY DEF Pass
<1>2. /\ IsSpec(old) /\ IsSpec(new)
      /\ queue = {}
      /\ \A f \in findings : Direct(f)
      /\ Broken = {t \in NotKept : old.types[t].kind \in DoneKinds(here)}
    BY <1>1 DEF IInv, TypeOK, PassInv, Cascading
<1>3. \A f \in findings' : Direct(f)
    BY <1>1, <1>2, PassMarks
<1>4. BrokenIn(PassFindings(kind)) = {t \in NotKept : old.types[t].kind = kind}
    <2>1. NoType \notin DOMAIN old.types
        BY <1>2, SpecFacts, NoTypeAssumption
    <2>2. \A t : t \in BrokenIn(PassFindings(kind)) <=> t # NoType /\ t \in OfKind(old, kind) /\ ~LayoutKept(old, new, t)
        BY <1>2, PassMarks, BrokenMember
    <2> QED BY <2>1, <2>2 DEF OfKind, NotKept
<1>5. Broken' = BrokenIn(findings')
    BY DEF Broken, BrokenIn
<1>6. Broken' = Broken \cup {t \in NotKept : old.types[t].kind = kind}
    <2>1. BrokenIn(findings') = BrokenIn(findings) \cup BrokenIn(PassFindings(kind))
        BY <1>1, BrokenUnion
    <2> HIDE DEF NotKept
    <2> QED BY <2>1, <1>4, <1>5, BrokenOfFindings
<1>7. NotKept' = NotKept
    BY <1>1 DEF NotKept
<1>8. PassInv'
    <2>1. Broken' = {t \in NotKept : old.types[t].kind \in DoneKinds(next)}
        BY <1>2, <1>6
    <2> QED BY <1>1, <1>2, <1>3, <1>7, <2>1 DEF PassInv, Cascading
<1>9. CascadeInv'
    BY <1>1 DEF CascadeInv, Cascading
<1>10. TypeOK'
    BY <1>1, <1>2, <1>3 DEF TypeOK, Direct
<1> QED BY <1>1, <1>6, <1>8, <1>9, <1>10 DEF IInv

\* The comparison of the functions names no type.
LEMMA FunctionsStep ==
    ASSUME IInv, CompareFunctions
    PROVE  IInv' /\ old' = old /\ new' = new /\ Broken' = Broken
<1>1. /\ stage = "functions"
      /\ findings' = findings \cup FunctionFindings
      /\ stage' = "structs"
      /\ old' = old /\ new' = new /\ queue' = queue
    BY DEF CompareFunctions
<1>2. /\ IsSpec(old) /\ IsSpec(new)
      /\ queue = {}
      /\ \A f \in findings : Direct(f)
      /\ Broken = {t \in NotKept : old.types[t].kind \in DoneKinds(stage)}
    BY <1>1 DEF IInv, TypeOK, PassInv, Cascading
<1>3. \A f \in findings' : Direct(f)
    BY <1>1, <1>2, FunctionsDirect
<1>4. BrokenIn(FunctionFindings) = {}
    BY FunctionsDirect, BrokenMember
<1>5. Broken' = BrokenIn(findings')
    BY DEF Broken, BrokenIn
<1>6. Broken' = Broken
    <2>1. Broken = BrokenIn(findings)
        BY BrokenOfFindings
    <2>2. BrokenIn(findings') = BrokenIn(findings) \cup BrokenIn(FunctionFindings)
        BY <1>1, BrokenUnion
    <2> QED BY <1>4, <1>5, <2>1, <2>2
<1>7. NotKept' = NotKept /\ DoneKinds(stage') = DoneKinds(stage)
    BY <1>1 DEF NotKept, DoneKinds
<1>8. PassInv'
    BY <1>1, <1>2, <1>3, <1>6, <1>7 DEF PassInv, Cascading
<1>9. CascadeInv'
    BY <1>1 DEF CascadeInv, Cascading
<1>10. TypeOK'
    BY <1>1, <1>2, <1>3 DEF TypeOK, Direct, Stages
<1> QED BY <1>1, <1>6, <1>8, <1>9, <1>10 DEF IInv

\* Replacing removals and additions by kind changes keeps the marks: a finding
\* that is retracted is about a type whose kind changed.
LEMMA KindsStep ==
    ASSUME IInv, DetectTypeKindChanges
    PROVE  IInv' /\ old' = old /\ new' = new /\ Broken' = Broken
<1> DEFINE Told(t) == Finding("critical", "Type Kind Changed", t, <<t>>)
           Rest == {f \in findings : ~Retracted(f)}
           Changes == {Told(t) : t \in KindChanged}
<1>1. /\ stage = "kinds"
      /\ findings' = Rest \cup Changes
      /\ stage' = "roots"
      /\ old' = old /\ new' = new /\ queue' = queue
    BY DEF DetectTypeKindChanges
<1>2. /\ IsSpec(old) /\ IsSpec(new)
      /\ queue = {}
      /\ \A f \in findings : Direct(f)
      /\ Broken = {t \in NotKept : old.types[t].kind \in DoneKinds(stage)}
    BY <1>1 DEF IInv, TypeOK, PassInv, Cascading
<1>3. DoneKinds(stage) = Kind /\ DoneKinds(stage') = Kind
    BY <1>1 DEF DoneKinds
<1>4. Broken = NotKept
    BY <1>2, <1>3, SpecFacts DEF NotKept
<1>5. KindChanged \subseteq NotKept /\ KindChanged \subseteq Type /\ NotKept \subseteq Type
    BY <1>2, SpecFacts DEF KindChanged, NotKept, LayoutKept
<1>6. \A t \in KindChanged : Direct(Told(t)) /\ IsCritical(Told(t)) /\ Told(t).type = t
    BY <1>5, FindingDirect DEF IsCritical, Finding
<1> HIDE DEF Told
<1>7. \A f \in findings' : Direct(f)
    BY <1>1, <1>2, <1>6
<1>8. ASSUME NEW t \in BrokenIn(findings')
      PROVE  t \in NotKept
    <2>1. PICK f \in findings' : IsCritical(f) /\ f.type = t /\ t # NoType
        BY BrokenMember
    <2>2. CASE f \in findings
        BY <2>1, <2>2, <1>4, BrokenMember, BrokenOfFindings
    <2>3. CASE f \in Changes
        BY <2>1, <2>3, <1>5, <1>6
    <2> QED BY <1>1, <2>2, <2>3
<1>9. ASSUME NEW t \in NotKept
      PROVE  t \in BrokenIn(findings')
    <2>1. PICK f \in findings : IsCritical(f) /\ f.type = t /\ t # NoType
        BY <1>4, BrokenMember, BrokenOfFindings
    <2>2. CASE ~Retracted(f)
        BY <1>1, <2>1, <2>2, BrokenMember
    <2>3. CASE Retracted(f)
        <3>1. PICK u \in KindChanged : f.target = <<u>>
            BY <2>3 DEF Retracted
        <3>2. t = u
            BY <1>2, <2>1, <3>1 DEF Direct
        <3>3. Told(t) \in findings' /\ IsCritical(Told(t)) /\ Told(t).type = t
            BY <1>1, <1>6, <3>1, <3>2
        <3> QED BY <2>1, <3>3, BrokenMember
    <2> QED BY <2>2, <2>3
<1>10. Broken' = BrokenIn(findings')
    BY DEF Broken, BrokenIn
<1>11. Broken' = NotKept
    BY <1>8, <1>9, <1>10
<1>12. NotKept' = NotKept
    BY <1>1 DEF NotKept
<1>13. PassInv'
    <2>1. NotKept = {t \in NotKept : old.types[t].kind \in Kind}
        BY <1>2, SpecFacts DEF NotKept
    <2> QED BY <1>1, <1>2, <1>3, <1>7, <1>11, <1>12, <2>1 DEF PassInv, Cascading
<1>14. CascadeInv'
    BY <1>1 DEF CascadeInv, Cascading
<1>15. TypeOK'
    BY <1>1, <1>2, <1>7 DEF TypeOK, Direct, Stages
<1> QED BY <1>1, <1>4, <1>11, <1>13, <1>14, <1>15 DEF IInv

\* The first components of the pairs of the elements of S with themselves.
LEMMA FirstsSame ==
    ASSUME NEW S
    PROVE  {m[1] : m \in {<<t, t>> : t \in S}} = S
<1> DEFINE P == {<<t, t>> : t \in S}
<1>1. \A t \in S : <<t, t>> \in P /\ <<t, t>>[1] = t
    OBVIOUS
<1>2. \A m \in P : m[1] \in S
    OBVIOUS
<1> HIDE DEF P
<1>3. \A t \in S : \E m \in P : m[1] = t
    BY <1>1
<1>4. {m[1] : m \in P} = S
    BY <1>2, <1>3
<1> QED BY <1>4 DEF P

\* Before the cascade no finding has a root, so the marks are the queue.
LEMMA RootsStep ==
    ASSUME IInv, CollectRoots
    PROVE  IInv' /\ old' = old /\ new' = new /\ Broken' = Broken
<1>1. /\ stage = "roots"
      /\ queue' = {<<t, t>> : t \in Broken}
      /\ stage' = "cascade"
      /\ old' = old /\ new' = new /\ findings' = findings
    BY DEF CollectRoots
<1>2. /\ TypeOK
      /\ \A f \in findings : Direct(f)
      /\ Broken = {t \in NotKept : old.types[t].kind \in DoneKinds(stage)}
    BY <1>1 DEF IInv, PassInv, Cascading
<1>3. Broken = NotKept
    BY <1>1, <1>2, SpecFacts DEF NotKept, TypeOK, DoneKinds
<1>4. Cascaded = {}
    BY <1>2 DEF Cascaded, Direct
<1>5. Broken' = Broken /\ NotKept' = NotKept /\ Cascaded' = Cascaded
    BY <1>1 DEF Broken, NotKept, Cascaded
<1>6. Marks' = {<<t, t>> : t \in NotKept} /\ queue' = Marks'
    BY <1>1, <1>3, <1>4, <1>5 DEF Marks
<1>7. Broken' = {m[1] : m \in Marks'}
    BY <1>3, <1>5, <1>6, FirstsSame
<1>8. CascadeInv'
    BY <1>1, <1>6, <1>7 DEF CascadeInv, Cascading
<1>9. PassInv'
    BY <1>1 DEF PassInv, Cascading
<1>10. TypeOK'
    <2>1. NotKept \subseteq DOMAIN old.types
        BY DEF NotKept
    <2> QED BY <1>1, <1>2, <1>3, <2>1 DEF TypeOK, Stages
<1> QED BY <1>1, <1>5, <1>8, <1>9, <1>10 DEF IInv

\* What a cascade is, for the types of the old build.
LEMMA CascadeFields ==
    ASSUME NEW d \in Type, NEW root \in Type
    PROVE  /\ DOMAIN Cascade(d, root) = {"sev", "cat", "type", "target", "root"}
           /\ Cascade(d, root).sev = "critical"
           /\ Cascade(d, root).type = d /\ d # NoType
           /\ Cascade(d, root).root = root /\ root # NoType
BY NoTypeAssumption DEF Cascade

\* Expanding a mark cascades to its dependents: the new marks are those, and
\* they embed a type that is already told broken.
LEMMA ExpandStep ==
    ASSUME IInv, ExpandBroken
    PROVE  /\ IInv'
           /\ old' = old /\ new' = new /\ Broken \subseteq Broken'
           /\ \A t \in Broken' \ Broken : t \in DOMAIN old.types /\ Refs(old.types[t]) \cap Broken # {}
<1>1. /\ stage = "cascade" /\ stage' = stage
      /\ old' = old /\ new' = new
    BY DEF ExpandBroken
<1>2. PICK e \in queue :
          LET fresh == {d \in Dependents(old, e[1]) : <<d, e[2]>> \notin Cascaded}
          IN  /\ findings' = findings \cup {Cascade(d, e[2]) : d \in fresh}
              /\ queue' = (queue \ {e}) \cup {<<d, e[2]>> : d \in fresh}
    BY DEF ExpandBroken
<1> DEFINE fresh == {d \in Dependents(old, e[1]) : <<d, e[2]>> \notin Cascaded}
           Cascades == {Cascade(d, e[2]) : d \in fresh}
           New == {<<d, e[2]>> : d \in fresh}
<1>3. findings' = findings \cup Cascades /\ queue' = (queue \ {e}) \cup New
    BY <1>2
<1>4. /\ TypeOK
      /\ queue \subseteq Marks
      /\ Broken = {m[1] : m \in Marks}
      /\ \A m \in Marks \ queue : \A d \in Dependents(old, m[1]) : <<d, m[2]>> \in Cascaded
    BY <1>1 DEF IInv, CascadeInv, Cascading
<1>5. /\ DOMAIN old.types \subseteq Type
      /\ e[1] \in DOMAIN old.types /\ e[2] \in DOMAIN old.types
      /\ e = <<e[1], e[2]>>
    BY <1>4, SpecFacts DEF TypeOK
<1>6. fresh \subseteq DOMAIN old.types /\ \A d \in fresh : e[1] \in Refs(old.types[d])
    BY DEF Dependents
<1>7. \A c \in Cascades : /\ DOMAIN c = {"sev", "cat", "type", "target", "root"}
                          /\ c.sev = "critical"
                          /\ c.type \in fresh /\ c.type # NoType
                          /\ c.root = e[2] /\ e[2] # NoType
    <2> HIDE DEF fresh
    <2> QED BY <1>5, <1>6, CascadeFields
<1>8. \A d \in fresh : \E c \in Cascades : c.type = d
    <2> HIDE DEF fresh
    <2>1. \A d \in fresh : Cascade(d, e[2]) \in Cascades
        OBVIOUS
    <2>2. \A d \in fresh : Cascade(d, e[2]).type = d
        BY <1>5, <1>6, CascadeFields
    <2> HIDE DEF Cascades
    <2> QED BY <2>1, <2>2
<1> HIDE DEF Cascades
<1>9. BrokenIn(Cascades) = fresh
    <2> HIDE DEF fresh
    <2> QED BY <1>7, <1>8 DEF BrokenIn
<1>10. CascadedIn(Cascades) = New
    <2> HIDE DEF fresh
    <2>1. CascadedIn(Cascades) = {<<c.type, c.root>> : c \in Cascades}
        BY <1>7 DEF CascadedIn
    <2> QED BY <1>7, <1>8, <2>1
<1>11. Broken' = Broken \cup fresh
    <2>1. Broken' = BrokenIn(findings') /\ Broken = BrokenIn(findings)
        BY DEF Broken, BrokenIn
    <2> HIDE DEF fresh
    <2> QED BY <1>3, <1>9, <2>1, BrokenUnion
<1>12. Cascaded' = Cascaded \cup New
    <2>1. Cascaded' = CascadedIn(findings') /\ Cascaded = CascadedIn(findings)
        BY DEF Cascaded, CascadedIn
    <2> HIDE DEF New
    <2> QED BY <1>3, <1>10, <2>1, BrokenUnion
<1>13. NotKept' = NotKept
    BY <1>1 DEF NotKept
<1>14. Marks' = Marks \cup New
    BY <1>12, <1>13 DEF Marks
<1>15. \A d \in Dependents(old, e[1]) : <<d, e[2]>> \in Cascaded'
    BY <1>12
<1>16. e[1] \in Broken
    BY <1>4
<1>17. {m[1] : m \in New} = fresh
    <2> DEFINE r == e[2]
    <2> HIDE DEF fresh, r
    <2>1. New = {<<d, r>> : d \in fresh}
        BY DEF r
    <2>2. \A d \in fresh : <<d, r>> \in New /\ <<d, r>>[1] = d
        BY <2>1
    <2>3. \A m \in New : m[1] \in fresh
        BY <2>1
    <2> HIDE DEF New
    <2>4. \A d \in fresh : \E m \in New : m[1] = d
        BY <2>2
    <2> QED BY <2>3, <2>4
<1>18. NotKept \subseteq DOMAIN old.types
    BY DEF NotKept
<1> HIDE DEF fresh
<1>19. TypeOK'
    <2>1. \A c \in Cascades : /\ DOMAIN c = {"sev", "cat", "type", "target", "root"}
                              /\ c.sev \in {"critical", "warning", "info"}
                              /\ c.type \in Type \cup {NoType}
                              /\ c.root \in DOMAIN old.types \cup {NoType}
        BY <1>5, <1>6, <1>7
    <2>2. New \subseteq (DOMAIN old.types) \X (DOMAIN old.types)
        BY <1>5, <1>6
    <2> HIDE DEF New
    <2> QED BY <1>1, <1>3, <1>4, <2>1, <2>2 DEF TypeOK
<1> HIDE DEF New
<1>20. CascadeInv'
    <2>1. queue' \subseteq Marks'
        BY <1>3, <1>4, <1>14
    <2>2. Broken' = {m[1] : m \in Marks'}
        BY <1>4, <1>11, <1>14, <1>17
    <2>3. \A m \in Marks' \ queue' : \A d \in Dependents(old, m[1]) : <<d, m[2]>> \in Cascaded'
        <3> SUFFICES ASSUME NEW m \in Marks' \ queue', NEW d \in Dependents(old, m[1])
                     PROVE  <<d, m[2]>> \in Cascaded'
            OBVIOUS
        <3>1. CASE m = e
            BY <3>1, <1>15
        <3>2. CASE m # e
            BY <3>2, <1>3, <1>4, <1>12, <1>14
        <3> QED BY <3>1, <3>2
    <2> QED BY <1>1, <2>1, <2>2, <2>3 DEF CascadeInv
<1>21. PassInv'
    BY <1>1 DEF PassInv, Cascading
<1>22. IInv'
    BY <1>19, <1>20, <1>21 DEF IInv
<1> QED BY <1>1, <1>6, <1>11, <1>16, <1>22

\* The end of the cascade changes the stage only.
LEMMA EndStep ==
    ASSUME IInv, EndCascade
    PROVE  IInv' /\ old' = old /\ new' = new /\ Broken' = Broken
<1>1. /\ stage = "cascade" /\ queue = {} /\ stage' = "compared"
      /\ old' = old /\ new' = new /\ findings' = findings /\ queue' = queue
    BY DEF EndCascade
<1>2. Broken' = Broken /\ Cascaded' = Cascaded /\ NotKept' = NotKept /\ Marks' = Marks
    BY <1>1 DEF Broken, Cascaded, NotKept, Marks
<1>3. CascadeInv'
    BY <1>1, <1>2 DEF IInv, CascadeInv, Cascading
<1>4. PassInv'
    BY <1>1 DEF PassInv, Cascading
<1>5. TypeOK'
    BY <1>1 DEF IInv, TypeOK, Stages
<1> QED BY <1>1, <1>2, <1>3, <1>4, <1>5 DEF IInv

-----------------------------------------------------------------------------
(***************************************************************************)
(* The theorems.                                                           *)
(***************************************************************************)

\* One step of the comparison keeps the invariant and the builds, and marks
\* only types that the promise allows to be marked.
LEMMA StepFacts ==
    ASSUME IInv, [Next]_vars
    PROVE  /\ IInv'
           /\ old' = old /\ new' = new /\ Broken \subseteq Broken'
           /\ \A t \in Broken' \ Broken :
                 t \in DOMAIN old.types /\ (~LayoutKept(old, new, t) \/ Refs(old.types[t]) \cap Broken # {})
<1>1. CASE UNCHANGED vars
    <2>1. old' = old /\ new' = new /\ findings' = findings /\ stage' = stage /\ queue' = queue
        BY <1>1 DEF vars
    <2>2. IInv' /\ Broken' = Broken
        BY <2>1 DEF IInv, TypeOK, PassInv, CascadeInv, Cascading, Broken, NotKept, Marks, Cascaded
    <2> QED BY <2>1, <2>2
<1>2. CASE CompareFunctions
    BY <1>2, FunctionsStep
<1>3. CASE CompareStructs \/ CompareEnums \/ CompareUnions \/ CompareErrorEnums
    <2> DEFINE Good == /\ IInv' /\ old' = old /\ new' = new
                       /\ Broken \subseteq Broken' /\ Broken' \subseteq Broken \cup NotKept
    <2>1. ASSUME CompareStructs PROVE Good
        <3>1. DoneKinds("enums") = DoneKinds("structs") \cup {"struct"}
            BY DEF DoneKinds
        <3>2. "struct" \in Kind /\ "structs" \in Stages /\ "enums" \in Stages
            BY DEF Kind, Stages
        <3> QED BY <2>1, <3>1, <3>2, PassStep DEF CompareStructs
    <2>2. ASSUME CompareEnums PROVE Good
        <3>1. DoneKinds("unions") = DoneKinds("enums") \cup {"enum"}
            BY DEF DoneKinds
        <3>2. "enum" \in Kind /\ "enums" \in Stages /\ "unions" \in Stages
            BY DEF Kind, Stages
        <3> QED BY <2>2, <3>1, <3>2, PassStep DEF CompareEnums
    <2>3. ASSUME CompareUnions PROVE Good
        <3>1. DoneKinds("error enums") = DoneKinds("unions") \cup {"union"}
            BY DEF DoneKinds
        <3>2. "union" \in Kind /\ "unions" \in Stages /\ "error enums" \in Stages
            BY DEF Kind, Stages
        <3> QED BY <2>3, <3>1, <3>2, PassStep DEF CompareUnions
    <2>4. ASSUME CompareErrorEnums PROVE Good
        <3>1. DoneKinds("kinds") = DoneKinds("error enums") \cup {"error enum"}
            BY DEF DoneKinds, Kind
        <3>2. "error enum" \in Kind /\ "error enums" \in Stages /\ "kinds" \in Stages
            BY DEF Kind, Stages
        <3> QED BY <2>4, <3>1, <3>2, PassStep DEF CompareErrorEnums
    <2> HIDE DEF Good
    <2>5. Good
        BY <1>3, <2>1, <2>2, <2>3, <2>4
    <2> USE DEF Good
    <2> QED BY <2>5 DEF NotKept
<1>4. CASE DetectTypeKindChanges
    BY <1>4, KindsStep
<1>5. CASE CollectRoots
    BY <1>5, RootsStep
<1>6. CASE ExpandBroken
    BY <1>6, ExpandStep
<1>7. CASE EndCascade
    BY <1>7, EndStep
<1> QED BY <1>1, <1>2, <1>3, <1>4, <1>5, <1>6, <1>7 DEF Next

\* Every reachable state satisfies the invariant.
THEOREM Invariant == Spec => []IInv
<1>1. IInv /\ [Next]_vars => IInv'
    BY StepFacts
<1> QED BY <1>1, InvInit, PTL DEF Spec

\* Every variable of the comparison keeps its type: the cascade only ever
\* expands and reports types of the old build (diff.rs: compare).
THEOREM TypeCorrect == Spec => []TypeOK
<1>1. IInv => TypeOK
    BY DEF IInv
<1> QED BY <1>1, Invariant, PTL

\* When the comparison is over no layout break is missed, neither a type's own
\* nor one it embeds, however the types embed each other (diff.rs: the passes
\* over structs, enums, unions and error enums, detect_type_kind_changes and
\* detect_cascading_layout_breaks).
THEOREM NoLayoutBreakMissed == Spec => []NothingMissed
<1>1. IInv => NothingMissed
    <2> SUFFICES ASSUME IInv, stage = "compared", NEW t \in DOMAIN old.types \ Broken
                 PROVE  LayoutKept(old, new, t) /\ Refs(old.types[t]) \cap Broken = {}
        BY DEF NothingMissed
    <2>1. /\ queue = {}
          /\ Broken = {m[1] : m \in Marks}
          /\ \A m \in Marks \ queue : \A d \in Dependents(old, m[1]) : <<d, m[2]>> \in Cascaded
        BY DEF IInv, CascadeInv, Cascading
    <2>2. LayoutKept(old, new, t)
        <3> SUFFICES ASSUME t \in NotKept PROVE FALSE
            BY DEF NotKept
        <3>1. <<t, t>> \in Marks /\ <<t, t>>[1] = t
            BY DEF Marks
        <3> QED BY <2>1, <3>1
    <2>3. ASSUME NEW r \in Refs(old.types[t]), r \in Broken
          PROVE  FALSE
        <3>1. PICK m \in Marks : m[1] = r
            BY <2>1, <2>3
        <3>2. t \in Dependents(old, m[1])
            BY <2>3, <3>1 DEF Dependents
        <3>3. <<t, m[2]>> \in Marks /\ <<t, m[2]>>[1] = t
            BY <2>1, <3>2 DEF Marks
        <3> QED BY <2>1, <3>3
    <2> QED BY <2>2, <2>3
<1> QED BY <1>1, Invariant, PTL

\* The abstract specification's view of builds is the comparison's.
LEMMA SameBuilds ==
    /\ \A spec : Promise!IsSpec(spec) <=> IsSpec(spec)
    /\ \A def : Promise!Refs(def) = Refs(def)
    /\ \A o, n, t : Promise!LayoutKept(o, n, t) <=> LayoutKept(o, n, t)
<1>1. Promise!Members(Shape) = Members(Shape)
    BY DEF Promise!Members, Members
<1>2. Promise!Kind = Kind
    BY DEF Promise!Kind, Kind
<1>3. Promise!Definition = Definition /\ Promise!Function = Function
    BY <1>1, <1>2 DEF Promise!Definition, Definition, Promise!Function, Function
<1>4. \A spec : Promise!IsSpec(spec) <=> IsSpec(spec)
    BY <1>3 DEF Promise!IsSpec, IsSpec
<1>5. Promise!DirectRefs = DirectRefs
    BY DEF Promise!DirectRefs, DirectRefs
<1>6. \A def : Promise!Refs(def) = Refs(def)
    BY <1>5 DEF Promise!Refs, Refs, Promise!MemberRefs, MemberRefs
<1>7. \A o, n, t : Promise!LayoutKept(o, n, t) <=> LayoutKept(o, n, t)
    BY DEF Promise!LayoutKept, LayoutKept, Promise!MembersKept, MembersKept, Promise!PrefixKept, PrefixKept,
           Promise!CasesKept, CasesKept
<1> QED BY <1>4, <1>6, <1>7

\* The comparison keeps the safety part of its promise: it starts with nothing
\* marked, and each of its steps marks only types whose layout is not kept or
\* that embed a marked one, and never unmarks any.
THEOREM KeepsPromise == Spec => Promise!Safety
<1>1. Init => Promise!Init
    <2>1. Init => IsSpec(old) /\ IsSpec(new) /\ Broken = {}
        BY PairsAssumption DEF Init, Broken
    <2> QED BY <2>1, SameBuilds DEF Promise!Init
<1>2. IInv /\ [Next]_vars => [Promise!Next]_(Promise!vars)
    <2> SUFFICES ASSUME IInv, [Next]_vars PROVE [Promise!Next]_(Promise!vars)
        OBVIOUS
    <2> DEFINE S == Broken' \ Broken
    <2>1. old' = old /\ new' = new /\ Broken' = Broken \cup S
        BY StepFacts
    <2>2. S \in SUBSET {t \in DOMAIN old.types \ Broken : Promise!Markable(t)}
        <3>1. \A t \in S : t \in DOMAIN old.types /\ Promise!Markable(t)
            BY StepFacts, SameBuilds DEF Promise!Markable
        <3> QED BY <3>1
    <2> HIDE DEF S
    <2>3. CASE S = {}
        BY <2>1, <2>3 DEF Promise!vars
    <2>4. CASE S # {}
        BY <2>1, <2>2, <2>4 DEF Promise!Next, Promise!Mark
    <2> QED BY <2>3, <2>4
<1> QED BY <1>1, <1>2, Invariant, PTL DEF Spec, Promise!Safety

-----------------------------------------------------------------------------
(***************************************************************************)
(* Categories.                                                             *)
(***************************************************************************)
BreakCategories == LayoutCategories \cup CallCategories \cup {"BytesN Size Changed"}

FnBreakCategories ==
    {"Function Removed", "Function Signature Changed", "Parameter Reordered", "Parameter Type Changed",
     "Return Type Changed", "Map Key Type Changed", "Map Value Type Changed", "BytesN Size Changed"}

FnCategories ==
    FnBreakCategories \cup {"Function Added", "Function Documentation Changed", "Parameter Renamed"}

\* What breaks a type that is no event is told in a category of storage or calls.
Tells(f) == IsCritical(f) => f.cat \in BreakCategories

\* A changed type expression is told as a map's, as a resize, or as told to.
LEMMA ShapeCategory ==
    ASSUME NEW a, NEW b, NEW S, NEW otherwise \in S,
           {"Map Key Type Changed", "Map Value Type Changed", "BytesN Size Changed"} \subseteq S
    PROVE  ShapeCategories(a, b, otherwise) \subseteq S
<1>1. MapCategories(a, b) \subseteq {"Map Key Type Changed", "Map Value Type Changed"}
    BY DEF MapCategories
<1> QED BY <1>1 DEF ShapeCategories

LEMMA TellsBreak ==
    ASSUME NEW c \in BreakCategories, NEW sev, NEW t, NEW target
    PROVE  Tells(Finding(sev, c, t, target))
BY DEF Tells, Finding

LEMMA TellsNoBreak ==
    ASSUME NEW c, NEW sev \in {"warning", "info"}, NEW t, NEW target
    PROVE  Tells(Finding(sev, c, t, target))
BY DEF Tells, Finding, IsCritical

LEMMA StructTells ==
    ASSUME NEW t, t \notin EventType, NEW o, NEW n
    PROVE  \A f \in StructFindings(t, o, n) : Tells(f)
<1> DEFINE cat == FieldCategories(t)
           Cats(ip) == ShapeCategories(o[ip[1]].ty, n[ip[2]].ty, cat.retyped)
           Break(c, m) == Finding("critical", c, t, <<t, m>>)
           Added(m) == Finding("warning", "Struct Field Added", t, <<t, m>>)
           A == {Break("Struct Field Inserted", n[p].name) : p \in Inserted(o, n)}
           B == {Break(cat.removed, o[i].name) : i \in Removed(o, n)}
           C == {Break(cat.reordered, o[ip[1]].name) : ip \in {x \in Aligned(o, n) : o[x[1]].name # n[x[2]].name}}
           One(ip) == {Break(c, o[ip[1]].name) : c \in Cats(ip)}
           D == UNION {One(ip) : ip \in Aligned(o, n)}
           E == {Added(n[p].name) : p \in Appended(o, n)}
<1>1. /\ cat.removed \in BreakCategories
      /\ cat.reordered \in BreakCategories
      /\ cat.retyped \in BreakCategories
      /\ {"Struct Field Inserted", "Map Key Type Changed", "Map Value Type Changed", "BytesN Size Changed"}
            \subseteq BreakCategories
    BY DEF FieldCategories, IsEvent, BreakCategories, LayoutCategories, CallCategories
<1>2. \A ip : Cats(ip) \subseteq BreakCategories
    <2> HIDE DEF cat
    <2>1. {"Map Key Type Changed", "Map Value Type Changed", "BytesN Size Changed"} \subseteq BreakCategories
        BY <1>1
    <2>2. \A a, b : \A r \in BreakCategories : ShapeCategories(a, b, r) \subseteq BreakCategories
        BY <2>1, ShapeCategory, Zenon
    <2> QED BY <1>1, <2>2, Zenon
<1>3. /\ \A c \in BreakCategories : \A m : Tells(Break(c, m))
      /\ \A m : Tells(Added(m))
    BY TellsBreak, TellsNoBreak
<1>4. StructFindings(t, o, n) = A \cup B \cup C \cup D \cup E
    BY DEF StructFindings
<1> HIDE DEF Break, Added, cat, Cats
<1>5. /\ \A f \in A : Tells(f)
      /\ \A f \in B : Tells(f)
      /\ \A f \in C : Tells(f)
      /\ \A f \in E : Tells(f)
    BY <1>1, <1>3
<1>6. \A f \in D : Tells(f)
    <2>1. \A ip : \A f \in One(ip) : Tells(f)
        BY <1>2, <1>3
    <2> HIDE DEF One
    <2> QED BY <2>1
<1> HIDE DEF A, B, C, D, E
<1> QED BY <1>4, <1>5, <1>6

LEMMA CaseTells ==
    ASSUME NEW kind, NEW t, t \notin EventType, NEW o, NEW n
    PROVE  \A f \in CaseFindings(kind, t, o, n) : Tells(f)
<1> DEFINE cat == CaseCategories(kind, t)
           Break(c, m) == Finding("critical", c, t, <<t, m>>)
           Added(m) == Finding("info", cat.added, t, <<t, m>>)
           Revalued == {x \in (DOMAIN o) \X (DOMAIN n) : o[x[1]].name = n[x[2]].name /\ o[x[1]].ty # n[x[2]].ty}
           Grown == {k \in Removed(n, o) : kind = "error enum" \/ Len(n) > Len(o)}
           A == {Break(cat.removed, o[i].name) : i \in Removed(o, n)}
           B == {Break(cat.value, o[ij[1]].name) : ij \in Revalued}
           C == {Added(n[j].name) : j \in Grown}
<1>1. cat.removed \in BreakCategories /\ cat.value \in BreakCategories
    BY DEF CaseCategories, IsEvent, BreakCategories, LayoutCategories, CallCategories
<1>2. /\ \A c \in BreakCategories : \A m : Tells(Break(c, m))
      /\ \A m : Tells(Added(m))
    BY TellsBreak, TellsNoBreak
<1>3. CaseFindings(kind, t, o, n) = A \cup B \cup C
    BY DEF CaseFindings
<1> HIDE DEF Break, Added, cat, Revalued, Grown
<1>4. /\ \A f \in A : Tells(f)
      /\ \A f \in B : Tells(f)
      /\ \A f \in C : Tells(f)
    BY <1>1, <1>2
<1> HIDE DEF A, B, C
<1> QED BY <1>3, <1>4

LEMMA UnionTells ==
    ASSUME NEW t, NEW o, NEW n
    PROVE  \A f \in UnionFindings(t, o, n) : Tells(f)
<1> DEFINE both == (DOMAIN o) \cap (DOMAIN n)
           Break(c, i) == Finding("critical", c, t, <<t, o[i].name>>)
           Added(m) == Finding("info", "Union Case Added", t, <<t, m>>)
           A == {Break("Union Case Removed", i) : i \in Removed(o, n)}
           B == {Break("Union Case Reordered", i) : i \in {k \in both : o[k].name # n[k].name}}
           C == {Break(PayloadCategory(o[i].ty, n[i].ty), i) : i \in {k \in both : o[k].ty # n[k].ty}}
           D == {Added(n[p].name) : p \in (DOMAIN n) \ (DOMAIN o)}
<1>1. /\ "Union Case Removed" \in BreakCategories
      /\ "Union Case Reordered" \in BreakCategories
      /\ \A a, b : PayloadCategory(a, b) \in BreakCategories
    <2>1. {"Union Case Removed", "Union Case Reordered", "BytesN Size Changed", "Union Case Type Changed"}
             \subseteq BreakCategories
        BY DEF BreakCategories, LayoutCategories
    <2>2. \A a, b : PayloadCategory(a, b) \in {"BytesN Size Changed", "Union Case Type Changed"}
        BY DEF PayloadCategory
    <2> QED BY <2>1, <2>2
<1>2. /\ \A c \in BreakCategories : \A i : Tells(Break(c, i))
      /\ \A m : Tells(Added(m))
    BY TellsBreak, TellsNoBreak
<1>3. UnionFindings(t, o, n) = A \cup B \cup C \cup D
    BY DEF UnionFindings
<1> HIDE DEF Break, Added, both
<1>4. /\ \A f \in A : Tells(f)
      /\ \A f \in B : Tells(f)
      /\ \A f \in C : Tells(f)
      /\ \A f \in D : Tells(f)
    BY <1>1, <1>2
<1> HIDE DEF A, B, C, D
<1> QED BY <1>3, <1>4

\* A pass tells what breaks a type that is no event in such a category.
LEMMA PassTells ==
    ASSUME NEW kind \in Kind, IsSpec(old), IsSpec(new)
    PROVE  \A f \in PassFindings(kind) : f.type \notin EventType => Tells(f)
<1> DEFINE o == OfKind(old, kind)
           n == OfKind(new, kind)
           Of(t) == MemberFindings(kind, t, old.types[t].members, new.types[t].members)
           Redocumented(t) == kind \in {"struct", "enum"} /\ old.types[t].doc # new.types[t].doc
           Gone(t) == Finding("critical", RemovalCategory(kind, t), t, <<t>>)
           Fresh(t) == Finding("info", AdditionCategory(kind), t, <<t>>)
           Told(t) == Finding("info", DocCategory(kind), t, <<t>>)
           A == {Gone(t) : t \in o \ n}
           B == UNION {Of(t) : t \in o \cap n}
           C == {Told(t) : t \in {u \in o \cap n : Redocumented(u)}}
           D == {Fresh(t) : t \in n \ o}
           Good(f) == f.type \notin EventType => Tells(f)
<1>1. PassFindings(kind) = A \cup B \cup C \cup D
    BY DEF PassFindings
<1>2. /\ \A t \in o : t \in Type /\ old.types[t].members \in Members(Shape)
      /\ \A t \in n : t \in Type /\ new.types[t].members \in Members(Shape)
    BY SpecFacts DEF OfKind
<1>3. \A t \in o \cap n : \A f \in Of(t) : Good(f)
    <2> SUFFICES ASSUME NEW t \in o \cap n, NEW f \in Of(t), f.type \notin EventType
                 PROVE  Tells(f)
        OBVIOUS
    <2>1. f.type = t
        BY <1>2, MemberMarks
    <2>2. CASE kind = "struct"
        BY <2>1, <2>2, StructTells DEF MemberFindings
    <2>3. CASE kind = "union"
        BY <2>3, UnionTells DEF MemberFindings
    <2>4. CASE kind \notin {"struct", "union"}
        BY <2>1, <2>4, CaseTells DEF MemberFindings
    <2> QED BY <2>2, <2>3, <2>4
<1>4. \A t : Good(Gone(t))
    <2> SUFFICES ASSUME NEW t, t \notin EventType
                 PROVE  Tells(Gone(t))
        BY DEF Finding
    <2>1. RemovalCategory(kind, t) \in BreakCategories
        BY DEF RemovalCategory, IsEvent, Kind, BreakCategories, LayoutCategories, CallCategories
    <2> QED BY <2>1, TellsBreak
<1>5. \A t : Good(Told(t)) /\ Good(Fresh(t))
    BY TellsNoBreak
<1> HIDE DEF Good, Gone, Fresh, Told, o, n, Redocumented
<1>6. /\ \A f \in A : Good(f)
      /\ \A f \in C : Good(f)
      /\ \A f \in D : Good(f)
    BY <1>4, <1>5
<1>7. \A f \in B : Good(f)
    <2> HIDE DEF Of
    <2> QED BY <1>3
<1> HIDE DEF A, B, C, D
<1>8. \A f \in PassFindings(kind) : Good(f)
    BY <1>1, <1>6, <1>7
<1> QED BY <1>8 DEF Good

-----------------------------------------------------------------------------
(***************************************************************************)
(* Functions.                                                              *)
(***************************************************************************)

\* A finding of the comparison of functions, by its category.
FnTells(f) == f.cat \in FnCategories /\ (IsCritical(f) => f.cat \in FnBreakCategories)

LEMMA FnFindingTells ==
    ASSUME NEW target
    PROVE  /\ \A c \in FnBreakCategories : FnTells(FnFinding("critical", c, target))
           /\ FnTells(FnFinding("warning", "Parameter Renamed", target))
           /\ FnTells(FnFinding("info", "Function Added", target))
           /\ FnTells(FnFinding("info", "Function Documentation Changed", target))
BY DEF FnTells, FnFinding, Finding, IsCritical, FnCategories

\* What one function is told of, and that it is told critically of a change of
\* its types and of nothing when it has none (check_function_signature).
LEMMA SignatureTells ==
    ASSUME NEW f, NEW o \in Function, NEW n \in Function
    PROVE  /\ \A x \in SignatureFindings(f, o, n) : FnTells(x)
           /\ \/ \E x \in SignatureFindings(f, o, n) : IsCritical(x) /\ x.target[1] = f
              \/ /\ Len(o.inputs) = Len(n.inputs)
                 /\ \A i \in DOMAIN o.inputs : o.inputs[i].ty = n.inputs[i].ty
                 /\ o.outputs = n.outputs
           /\ o.inputs = n.inputs /\ o.outputs = n.outputs =>
                 \A x \in SignatureFindings(f, o, n) : ~IsCritical(x)
<1> DEFINE oi == o.inputs
           ni == n.inputs
           oo == o.outputs
           no == n.outputs
           reordered == Names(oi) = Names(ni) /\ \E i \in DOMAIN oi : oi[i].name # ni[i].name
           Paired(i, j) == IF reordered THEN oi[i].name = ni[j].name ELSE i = j
           Moved == FnFinding("critical", "Parameter Reordered", <<f>>)
           A == IF reordered THEN {Moved} ELSE {}
           Renamed(m) == FnFinding("warning", "Parameter Renamed", <<f, m>>)
           B == {Renamed(oi[i].name) : i \in {k \in DOMAIN oi : ~reordered /\ oi[k].name # ni[k].name}}
           CatsIn(ij) == ShapeCategories(oi[ij[1]].ty, ni[ij[2]].ty, "Parameter Type Changed")
           Retyped(c, m) == FnFinding("critical", c, <<f, m>>)
           One(ij) == {Retyped(c, oi[ij[1]].name) : c \in CatsIn(ij)}
           P == {x \in (DOMAIN oi) \X (DOMAIN ni) : Paired(x[1], x[2])}
           C == UNION {One(ij) : ij \in P}
           CatsOut(i) == ShapeCategories(oo[i], no[i], "Return Type Changed")
           Returned(c) == FnFinding("critical", c, <<f>>)
           Out(i) == {Returned(c) : c \in CatsOut(i)}
           D == UNION {Out(i) : i \in DOMAIN oo}
           OutAll == OutputFindings(f, oo, no)
           Arity == FnFinding("critical", "Function Signature Changed", <<f>>)
<1>1. /\ oi \in Members(Shape) /\ ni \in Members(Shape)
      /\ oo \in Seq(Shape) /\ no \in Seq(Shape)
    BY DEF Function
<1>2. /\ Len(oi) \in Nat /\ DOMAIN oi = 1 .. Len(oi)
      /\ Len(ni) \in Nat /\ DOMAIN ni = 1 .. Len(ni)
    BY <1>1, MembersFacts
<1>3. /\ FnBreakCategories = FnBreakCategories \cup {"Map Key Type Changed", "Map Value Type Changed",
              "BytesN Size Changed", "Parameter Type Changed", "Return Type Changed", "Parameter Reordered",
              "Function Signature Changed"}
    BY DEF FnBreakCategories
<1>4. /\ \A ij : CatsIn(ij) \subseteq FnBreakCategories
      /\ \A i : CatsOut(i) \subseteq FnBreakCategories
    <2> HIDE DEF oi, ni, oo, no
    <2> QED BY <1>3, ShapeCategory
<1>5. /\ \A ij : CatsIn(ij) = {} <=> oi[ij[1]].ty = ni[ij[2]].ty
      /\ \A i : CatsOut(i) = {} <=> oo[i] = no[i]
    <2> HIDE DEF oi, ni, oo, no
    <2> QED BY NoShapeCategory
<1>6. /\ \A c : /\ IsCritical(Returned(c)) /\ Returned(c).target[1] = f
                /\ \A m : IsCritical(Retyped(c, m)) /\ Retyped(c, m).target[1] = f
      /\ IsCritical(Moved) /\ Moved.target[1] = f
      /\ IsCritical(Arity) /\ Arity.target[1] = f
      /\ \A m : ~IsCritical(Renamed(m))
    BY DEF IsCritical, FnFinding, Finding
<1>7. /\ \A c \in FnBreakCategories : FnTells(Returned(c)) /\ \A m : FnTells(Retyped(c, m))
      /\ FnTells(Moved)
      /\ FnTells(Arity)
      /\ \A m : FnTells(Renamed(m))
    BY <1>3, FnFindingTells
<1>8. ParameterFindings(f, oi, ni) = A \cup B \cup C
    BY DEF ParameterFindings
<1>9. SignatureFindings(f, o, n) = IF Len(oi) # Len(ni) THEN {Arity} ELSE A \cup B \cup C \cup OutAll
    BY <1>8 DEF SignatureFindings
<1>10. OutAll = IF Len(oo) # Len(no) THEN {Returned("Return Type Changed")} ELSE D
    BY DEF OutputFindings
<1> HIDE DEF Moved, Renamed, Retyped, Returned, Arity, CatsIn, CatsOut, OutAll
<1>11. /\ \A x \in OutAll : FnTells(x) /\ IsCritical(x) /\ x.target[1] = f
       /\ OutAll = {} <=> oo = no
    <2> HIDE DEF oo, no
    <2>1. \A i : \A x \in Out(i) : FnTells(x) /\ IsCritical(x) /\ x.target[1] = f
        BY <1>4, <1>6, <1>7
    <2>2. \A i : Out(i) = {} <=> oo[i] = no[i]
        BY <1>5
    <2> HIDE DEF Out
    <2>3. \A x \in D : FnTells(x) /\ IsCritical(x) /\ x.target[1] = f
        BY <2>1
    <2>4. D = {} <=> \A i \in DOMAIN oo : oo[i] = no[i]
        BY <2>2
    <2>5. oo = no <=> Len(oo) = Len(no) /\ \A i \in DOMAIN oo : oo[i] = no[i]
        BY <1>1
    <2> HIDE DEF D
    <2>6. FnTells(Returned("Return Type Changed"))
        BY <1>3, <1>7
    <2> QED BY <1>6, <1>10, <2>3, <2>4, <2>5, <2>6
<1>12. /\ \A x \in A : FnTells(x) /\ IsCritical(x) /\ x.target[1] = f
       /\ A = {} <=> ~reordered
    <2> HIDE DEF reordered
    <2> QED BY <1>6, <1>7
<1>13. \A x \in B : FnTells(x) /\ ~IsCritical(x)
    <2> HIDE DEF reordered, oi, ni
    <2> QED BY <1>6, <1>7
<1>14. /\ \A x \in C : FnTells(x) /\ IsCritical(x) /\ x.target[1] = f
       /\ C = {} <=> \A ij \in P : oi[ij[1]].ty = ni[ij[2]].ty
    <2> HIDE DEF oi, ni, P
    <2>1. \A ij : \A x \in One(ij) : FnTells(x) /\ IsCritical(x) /\ x.target[1] = f
        BY <1>4, <1>6, <1>7
    <2>2. \A ij : One(ij) = {} <=> oi[ij[1]].ty = ni[ij[2]].ty
        BY <1>5
    <2> HIDE DEF One
    <2> QED BY <2>1, <2>2
<1>15. ~reordered => P = {<<i, i>> : i \in (DOMAIN oi) \cap (DOMAIN ni)}
    <2> HIDE DEF reordered, oi, ni
    <2> QED OBVIOUS
<1>16. oi = ni => ~reordered
    OBVIOUS
<1> HIDE DEF A, B, C, OutAll, reordered
<1>17. \A x \in SignatureFindings(f, o, n) : FnTells(x)
    BY <1>7, <1>9, <1>11, <1>12, <1>13, <1>14
<1>18. ASSUME \A x \in SignatureFindings(f, o, n) : ~(IsCritical(x) /\ x.target[1] = f)
       PROVE  /\ Len(oi) = Len(ni)
              /\ \A i \in DOMAIN oi : oi[i].ty = ni[i].ty
              /\ oo = no
    <2>1. Len(oi) = Len(ni)
        BY <1>6, <1>9, <1>18
    <2>2. A = {} /\ C = {} /\ OutAll = {}
        BY <1>9, <1>11, <1>12, <1>14, <1>18, <2>1
    <2>3. \A i \in DOMAIN oi : <<i, i>> \in P
        BY <1>2, <1>12, <1>15, <2>1, <2>2
    <2> HIDE DEF P
    <2>4. \A i \in DOMAIN oi : oi[i].ty = ni[i].ty
        BY <1>14, <2>2, <2>3
    <2> QED BY <1>11, <2>1, <2>2, <2>4
<1>19. ASSUME oi = ni, oo = no, NEW x \in SignatureFindings(f, o, n)
       PROVE  ~IsCritical(x)
    <2>1. A = {} /\ OutAll = {}
        BY <1>11, <1>12, <1>16, <1>19
    <2>2. \A ij \in P : oi[ij[1]].ty = ni[ij[2]].ty
        <3> HIDE DEF oi, ni, P
        <3> QED BY <1>15, <1>16, <1>19
    <2>3. C = {}
        BY <1>14, <2>2
    <2>4. x \in B
        BY <1>9, <1>19, <2>1, <2>3
    <2> QED BY <1>13, <2>4
<1> QED BY <1>17, <1>18, <1>19

\* What the functions are told of.
LEMMA FunctionsTell ==
    ASSUME IsSpec(old), IsSpec(new)
    PROVE  /\ \A x \in FunctionFindings : FnTells(x)
           /\ \A f \in DOMAIN old.fns :
                 SignatureKept(f) \/ \E x \in FunctionFindings : IsCritical(x) /\ x.target[1] = f
           /\ (\A f \in DOMAIN old.fns : /\ f \in DOMAIN new.fns
                                          /\ old.fns[f].inputs = new.fns[f].inputs
                                          /\ old.fns[f].outputs = new.fns[f].outputs)
                 => \A x \in FunctionFindings : ~IsCritical(x)
<1> DEFINE o == old.fns
           n == new.fns
           Common == (DOMAIN o) \cap (DOMAIN n)
           Gone(f) == FnFinding("critical", "Function Removed", <<f>>)
           Told(f) == FnFinding("info", "Function Documentation Changed", <<f>>)
           Fresh(f) == FnFinding("info", "Function Added", <<f>>)
           One(f) == SignatureFindings(f, o[f], n[f])
           A == {Gone(f) : f \in (DOMAIN o) \ (DOMAIN n)}
           B == UNION {One(f) : f \in Common}
           C == {Told(f) : f \in {g \in Common : o[g].doc # n[g].doc}}
           D == {Fresh(f) : f \in (DOMAIN n) \ (DOMAIN o)}
<1>1. FunctionFindings = A \cup B \cup C \cup D
    BY DEF FunctionFindings
<1>2. /\ \A f \in DOMAIN o : o[f] \in Function
      /\ \A f \in DOMAIN n : n[f] \in Function
    BY DEF IsSpec
<1>3. /\ \A f : FnTells(Gone(f)) /\ IsCritical(Gone(f)) /\ Gone(f).target[1] = f
      /\ \A f : FnTells(Told(f)) /\ ~IsCritical(Told(f))
      /\ \A f : FnTells(Fresh(f)) /\ ~IsCritical(Fresh(f))
    <2>1. "Function Removed" \in FnBreakCategories
        BY DEF FnBreakCategories
    <2>2. /\ \A f : IsCritical(Gone(f)) /\ Gone(f).target[1] = f
          /\ \A f : ~IsCritical(Told(f)) /\ ~IsCritical(Fresh(f))
        BY DEF IsCritical, FnFinding, Finding
    <2> QED BY <2>1, <2>2, FnFindingTells
<1>4. \A f \in Common : \A x \in One(f) : FnTells(x)
    BY <1>2, SignatureTells
<1>5. \A f \in Common : SignatureKept(f) \/ \E x \in One(f) : IsCritical(x) /\ x.target[1] = f
    BY <1>2, SignatureTells DEF SignatureKept
<1>6. \A f \in Common : o[f].inputs = n[f].inputs /\ o[f].outputs = n[f].outputs =>
                           \A x \in One(f) : ~IsCritical(x)
    BY <1>2, SignatureTells
<1> HIDE DEF Gone, Told, Fresh, One, o, n
<1>7. /\ \A x \in A : FnTells(x)
      /\ \A x \in C : FnTells(x) /\ ~IsCritical(x)
      /\ \A x \in D : FnTells(x) /\ ~IsCritical(x)
      /\ DOMAIN o \subseteq DOMAIN n => A = {}
    BY <1>3
<1>8. \A f \in DOMAIN o : f \notin DOMAIN n => \E x \in A : IsCritical(x) /\ x.target[1] = f
    BY <1>3
<1>9. /\ \A x \in B : \E f \in Common : x \in One(f)
      /\ \A f \in Common : \A x \in One(f) : x \in B
    OBVIOUS
<1> HIDE DEF A, B, C, D
<1>10. \A x \in FunctionFindings : FnTells(x)
    BY <1>1, <1>4, <1>7, <1>9
<1>11. \A f \in DOMAIN o : SignatureKept(f) \/ \E x \in FunctionFindings : IsCritical(x) /\ x.target[1] = f
    BY <1>1, <1>5, <1>8, <1>9
<1>12. ASSUME \A f \in DOMAIN o : /\ f \in DOMAIN n
                                   /\ o[f].inputs = n[f].inputs
                                   /\ o[f].outputs = n[f].outputs,
              NEW x \in FunctionFindings
       PROVE  ~IsCritical(x)
    BY <1>1, <1>6, <1>7, <1>9, <1>12
<1> QED BY <1>10, <1>11, <1>12 DEF o, n
-----------------------------------------------------------------------------
(***************************************************************************)
(* The comparison, with the categories.                                    *)
(***************************************************************************)

\* What breaks a stored type by itself is told in a category of storage or calls.
TellsInv == \A f \in findings : f.root = NoType /\ f.type \in Type \ EventType => Tells(f)

\* The findings about no type are those of the functions, from their pass on.
FnInv == {f \in findings : f.type = NoType} = IF stage = "functions" THEN {} ELSE FunctionFindings

\* Once the cascade starts, every type that is not kept is told so itself.
OwnInv == Cascading => \A t \in NotKept : OwnBreaks(t) # {}

\* A cascade leads back to a type that is not kept.
RootsInv == Cascading => \A m \in Marks : m[2] \in NotKept

ExactInv == TellsInv /\ FnInv /\ OwnInv /\ RootsInv

\* No finding of a function is taken for half of a kind change.
LEMMA KindCategories ==
    \A k, l \in Kind : (RemovalCategories(k) \cup {AdditionCategory(l)}) \cap FnCategories = {}
<1>1. \A k \in Kind : \A t : RemovalCategory(k, t) \notin FnCategories
    BY DEF Kind, RemovalCategory, FnCategories, FnBreakCategories
<1>2. \A k \in Kind : AdditionCategory(k) \notin FnCategories
    BY DEF Kind, AdditionCategory, FnCategories, FnBreakCategories
<1> QED BY <1>1, <1>2 DEF RemovalCategories

\* What the functions are told of depends on the builds only.
LEMMA SameFunctions ==
    ASSUME old' = old, new' = new
    PROVE  FunctionFindings' = FunctionFindings
BY DEF FunctionFindings

LEMMA ExactInit == Init => ExactInv
<1> SUFFICES ASSUME Init PROVE ExactInv
    OBVIOUS
<1>1. findings = {} /\ stage = "functions"
    BY DEF Init
<1> QED BY <1>1 DEF ExactInv, TellsInv, FnInv, OwnInv, RootsInv, Cascading

\* A pass over one kind.
LEMMA PassExact ==
    ASSUME IInv, ExactInv, NEW kind \in Kind, NEW here \in Stages, NEW next \in Stages,
           Pass(kind, here, next),
           here \notin {"functions", "cascade", "compared"}, next \notin {"functions", "cascade", "compared"}
    PROVE  ExactInv'
<1>1. /\ stage = here
      /\ findings' = findings \cup PassFindings(kind)
      /\ stage' = next
      /\ old' = old /\ new' = new
    BY DEF Pass
<1>2. IsSpec(old) /\ IsSpec(new)
    BY DEF IInv, TypeOK
<1>3. \A f \in PassFindings(kind) : f.type \in Type /\ f.type # NoType
    BY <1>2, PassMarks, NoTypeAssumption
<1>4. TellsInv'
    BY <1>1, <1>2, PassTells DEF ExactInv, TellsInv
<1>5. FunctionFindings' = FunctionFindings
    BY <1>1, SameFunctions
<1>6. {f \in findings' : f.type = NoType} = {f \in findings : f.type = NoType}
    BY <1>1, <1>3
<1>7. FnInv'
    BY <1>1, <1>5, <1>6 DEF ExactInv, FnInv
<1>8. OwnInv' /\ RootsInv'
    BY <1>1 DEF OwnInv, RootsInv, Cascading
<1> QED BY <1>4, <1>7, <1>8 DEF ExactInv

LEMMA FunctionsExact ==
    ASSUME IInv, ExactInv, CompareFunctions
    PROVE  ExactInv'
<1>1. /\ stage = "functions"
      /\ findings' = findings \cup FunctionFindings
      /\ stage' = "structs"
      /\ old' = old /\ new' = new
    BY DEF CompareFunctions
<1>2. \A f \in FunctionFindings : f.type = NoType
    BY FunctionsDirect
<1>3. TellsInv'
    BY <1>1, <1>2, NoTypeAssumption DEF ExactInv, TellsInv
<1>4. FunctionFindings' = FunctionFindings
    BY <1>1, SameFunctions
<1>5. {f \in findings : f.type = NoType} = {}
    BY <1>1 DEF ExactInv, FnInv
<1>6. {f \in findings' : f.type = NoType} = FunctionFindings
    BY <1>1, <1>2, <1>5
<1>7. FnInv'
    BY <1>1, <1>4, <1>6 DEF FnInv
<1>8. OwnInv' /\ RootsInv'
    BY <1>1 DEF OwnInv, RootsInv, Cascading
<1> QED BY <1>3, <1>7, <1>8 DEF ExactInv

LEMMA KindsExact ==
    ASSUME IInv, ExactInv, DetectTypeKindChanges
    PROVE  ExactInv'
<1> DEFINE Told(t) == Finding("critical", "Type Kind Changed", t, <<t>>)
           Rest == {f \in findings : ~Retracted(f)}
           Changes == {Told(t) : t \in KindChanged}
<1>1. /\ stage = "kinds"
      /\ findings' = Rest \cup Changes
      /\ stage' = "roots"
      /\ old' = old /\ new' = new
    BY DEF DetectTypeKindChanges
<1>2. /\ IsSpec(old) /\ IsSpec(new)
      /\ \A t \in KindChanged : t \in Type /\ old.types[t].kind \in Kind /\ new.types[t].kind \in Kind
    BY SpecFacts DEF IInv, TypeOK, KindChanged
<1>3. \A t : Tells(Told(t)) /\ Told(t).type = t
    <2>1. "Type Kind Changed" \in BreakCategories
        BY DEF BreakCategories, LayoutCategories
    <2> QED BY <2>1, TellsBreak DEF Finding
<1> HIDE DEF Told
<1>4. \A f \in Changes : Tells(f) /\ f.type \in Type /\ f.type # NoType
    BY <1>2, <1>3, NoTypeAssumption
<1> HIDE DEF Changes
<1>5. TellsInv'
    BY <1>1, <1>4 DEF ExactInv, TellsInv
<1>6. FunctionFindings' = FunctionFindings
    BY <1>1, SameFunctions
<1>7. {f \in findings : f.type = NoType} = FunctionFindings
    BY <1>1 DEF ExactInv, FnInv
<1>8. \A f \in FunctionFindings : ~Retracted(f)
    <2> SUFFICES ASSUME NEW f \in FunctionFindings, Retracted(f)
                 PROVE  FALSE
        OBVIOUS
    <2>1. f.cat \in FnCategories
        BY <1>2, FunctionsTell DEF FnTells
    <2>2. PICK t \in KindChanged : f.cat \in RemovalCategories(old.types[t].kind)
                                              \cup {AdditionCategory(new.types[t].kind)}
        BY DEF Retracted
    <2> QED BY <1>2, <2>1, <2>2, KindCategories
<1>9. {f \in findings' : f.type = NoType} = FunctionFindings
    BY <1>1, <1>4, <1>7, <1>8
<1>10. FnInv'
    BY <1>1, <1>6, <1>9 DEF FnInv
<1>11. OwnInv' /\ RootsInv'
    BY <1>1 DEF OwnInv, RootsInv, Cascading
<1> QED BY <1>5, <1>10, <1>11 DEF ExactInv

LEMMA RootsExact ==
    ASSUME IInv, ExactInv, CollectRoots
    PROVE  ExactInv'
<1>1. /\ stage = "roots"
      /\ stage' = "cascade"
      /\ old' = old /\ new' = new /\ findings' = findings
    BY DEF CollectRoots
<1>2. /\ TypeOK
      /\ \A f \in findings : Direct(f)
      /\ Broken = {t \in NotKept : old.types[t].kind \in DoneKinds(stage)}
    BY <1>1 DEF IInv, PassInv, Cascading
<1>3. Broken = NotKept
    BY <1>1, <1>2, SpecFacts DEF NotKept, TypeOK, DoneKinds
<1>4. TellsInv'
    BY <1>1 DEF ExactInv, TellsInv
<1>5. FnInv'
    <2>1. FunctionFindings' = FunctionFindings
        BY <1>1, SameFunctions
    <2> QED BY <1>1, <2>1 DEF ExactInv, FnInv
<1>6. NotKept' = NotKept /\ Cascaded' = {}
    BY <1>1, <1>2 DEF NotKept, Cascaded, Direct
<1>7. \A t \in NotKept : OwnBreaks(t) # {}
    BY <1>2, <1>3 DEF Broken, OwnBreaks, Direct
<1>8. OwnInv'
    <2>1. \A t : OwnBreaks(t)' = OwnBreaks(t)
        BY <1>1 DEF OwnBreaks
    <2> QED BY <1>6, <1>7, <2>1 DEF OwnInv
<1>9. RootsInv'
    <2>1. Marks' = {<<t, t>> : t \in NotKept}
        BY <1>6 DEF Marks
    <2> HIDE DEF NotKept
    <2>2. \A m \in Marks' : m[2] \in NotKept
        BY <2>1
    <2> QED BY <1>6, <2>2 DEF RootsInv
<1> QED BY <1>4, <1>5, <1>8, <1>9 DEF ExactInv

LEMMA ExpandExact ==
    ASSUME IInv, ExactInv, ExpandBroken
    PROVE  ExactInv'
<1>1. /\ stage = "cascade" /\ stage' = stage
      /\ old' = old /\ new' = new
    BY DEF ExpandBroken
<1>2. PICK e \in queue :
          LET fresh == {d \in Dependents(old, e[1]) : <<d, e[2]>> \notin Cascaded}
          IN  findings' = findings \cup {Cascade(d, e[2]) : d \in fresh}
    BY DEF ExpandBroken
<1> DEFINE fresh == {d \in Dependents(old, e[1]) : <<d, e[2]>> \notin Cascaded}
           Cascades == {Cascade(d, e[2]) : d \in fresh}
<1>3. findings' = findings \cup Cascades
    BY <1>2
<1>4. TypeOK /\ queue \subseteq Marks
    BY <1>1 DEF IInv, CascadeInv, Cascading
<1>5. /\ DOMAIN old.types \subseteq Type
      /\ e[2] \in DOMAIN old.types
      /\ e[2] \in NotKept
    BY <1>1, <1>4, SpecFacts DEF TypeOK, ExactInv, RootsInv, Cascading
<1>6. fresh \subseteq DOMAIN old.types
    BY DEF Dependents
<1>7. \A c \in Cascades : c.type \in Type /\ c.type # NoType /\ c.root = e[2] /\ c.root # NoType
    <2> HIDE DEF fresh
    <2> QED BY <1>5, <1>6, CascadeFields
<1> HIDE DEF Cascades, fresh
<1>8. TellsInv'
    BY <1>1, <1>3, <1>7 DEF ExactInv, TellsInv
<1>9. FnInv'
    <2>1. FunctionFindings' = FunctionFindings
        BY <1>1, SameFunctions
    <2>2. {f \in findings' : f.type = NoType} = {f \in findings : f.type = NoType}
        BY <1>3, <1>7
    <2> QED BY <1>1, <2>1, <2>2 DEF ExactInv, FnInv
<1>10. NotKept' = NotKept
    BY <1>1 DEF NotKept
<1>11. OwnInv'
    <2>1. \A t : OwnBreaks(t) \subseteq OwnBreaks(t)'
        BY <1>3 DEF OwnBreaks
    <2> QED BY <1>1, <1>10, <2>1 DEF ExactInv, OwnInv, Cascading
<1>12. RootsInv'
    <2>1. Cascaded' = Cascaded \cup CascadedIn(Cascades)
        <3>1. Cascaded' = CascadedIn(findings') /\ Cascaded = CascadedIn(findings)
            BY DEF Cascaded, CascadedIn
        <3> QED BY <1>3, <3>1, BrokenUnion
    <2>2. \A m \in CascadedIn(Cascades) : m[2] = e[2]
        BY <1>7 DEF CascadedIn
    <2>3. Marks' = Marks \cup CascadedIn(Cascades)
        BY <1>10, <2>1 DEF Marks
    <2>4. \A m \in Marks : m[2] \in NotKept
        BY <1>1 DEF ExactInv, RootsInv, Cascading
    <2> HIDE DEF NotKept, Marks
    <2>5. \A m \in Marks' : m[2] \in NotKept
        BY <1>5, <2>2, <2>3, <2>4
    <2> QED BY <1>10, <2>5 DEF RootsInv
<1> QED BY <1>8, <1>9, <1>11, <1>12 DEF ExactInv

\* The end of the cascade, and a step that leaves the comparison alone.
LEMMA EndExact ==
    ASSUME ExactInv, old' = old, new' = new, findings' = findings,
           stage' = stage \/ (stage = "cascade" /\ stage' = "compared")
    PROVE  ExactInv'
<1>1. /\ FunctionFindings' = FunctionFindings
      /\ NotKept' = NotKept /\ Marks' = Marks
      /\ \A t : OwnBreaks(t)' = OwnBreaks(t)
    BY SameFunctions DEF NotKept, Marks, Cascaded, OwnBreaks
<1>2. /\ Cascading' <=> Cascading
      /\ stage' = "functions" <=> stage = "functions"
    BY DEF Cascading
<1>3. TellsInv'
    BY DEF ExactInv, TellsInv
<1>4. FnInv'
    BY <1>1, <1>2 DEF ExactInv, FnInv
<1>5. OwnInv' /\ RootsInv'
    BY <1>1, <1>2 DEF ExactInv, OwnInv, RootsInv
<1> QED BY <1>3, <1>4, <1>5 DEF ExactInv

LEMMA ExactStep ==
    ASSUME IInv, ExactInv, [Next]_vars
    PROVE  ExactInv'
<1>1. CASE UNCHANGED vars
    BY <1>1, EndExact DEF vars
<1>2. CASE CompareFunctions
    BY <1>2, FunctionsExact
<1>3. CASE CompareStructs \/ CompareEnums \/ CompareUnions \/ CompareErrorEnums
    <2>1. /\ Kind = {"struct", "enum", "union", "error enum"}
          /\ {"structs", "enums", "unions", "error enums", "kinds"} \subseteq Stages
        BY DEF Kind, Stages
    <2>2. PICK kind \in Kind, here \in Stages, next \in Stages :
              /\ Pass(kind, here, next)
              /\ here \notin {"functions", "cascade", "compared"}
              /\ next \notin {"functions", "cascade", "compared"}
        BY <1>3, <2>1 DEF CompareStructs, CompareEnums, CompareUnions, CompareErrorEnums
    <2> QED BY <2>2, PassExact
<1>4. CASE DetectTypeKindChanges
    BY <1>4, KindsExact
<1>5. CASE CollectRoots
    BY <1>5, RootsExact
<1>6. CASE ExpandBroken
    BY <1>6, ExpandExact
<1>7. CASE EndCascade
    BY <1>7, EndExact DEF EndCascade
<1> QED BY <1>1, <1>2, <1>3, <1>4, <1>5, <1>6, <1>7 DEF Next
-----------------------------------------------------------------------------
(***************************************************************************)
(* Axes, rules and migrations.                                             *)
(***************************************************************************)

\* What breaks a call counts on an axis that is gated with storage and calls.
LEMMA CallAxis ==
    ASSUME NEW f, f.type = NoType, f.cat \in FnBreakCategories
    PROVE  Axes(f) \cap {"storage_layout", "call_abi"} # {}
<1>1. CASE f.cat = "BytesN Size Changed"
    BY <1>1 DEF Axes, CallCategories, EventCategories
<1>2. CASE f.cat # "BytesN Size Changed"
    <2>1. f.cat \in CallCategories
        BY <1>2 DEF FnBreakCategories, CallCategories
    <2> QED BY <2>1 DEF Axes
<1> QED BY <1>1, <1>2

\* So does what breaks a type, but for a resize that only events gate.
LEMMA TypeAxis ==
    ASSUME NEW f, f.type \in Type, f.cat \in BreakCategories
    PROVE  Axes(f) \cap {"storage_layout", "call_abi"} # {} \/ OfAnEvent(f)
<1>1. CASE f.cat \in CallCategories
    BY <1>1 DEF Axes
<1>2. CASE f.cat \in LayoutCategories
    <2>1. f.cat \notin CallCategories \cup {"Parameter Renamed"} \cup EventCategories
        BY <1>2 DEF LayoutCategories, CallCategories, EventCategories
    <2>2. "storage_layout" \in TypeAxes(f)
        BY <1>2 DEF TypeAxes, Axis
    <2> QED BY <2>1, <2>2 DEF Axes
<1>3. CASE f.cat = "BytesN Size Changed"
    <2>1. f.cat \notin CallCategories \cup {"Parameter Renamed"} \cup EventCategories
        BY <1>3 DEF CallCategories, EventCategories
    <2>2. Axes(f) = IF f.type = NoType \/ TypeAxes(f) = {} THEN {"storage_layout"} ELSE TypeAxes(f)
        BY <2>1 DEF Axes
    <2>3. \A a \in TypeAxes(f) : a = "call_abi" \/ OfAnEvent(f)
        BY <1>3 DEF TypeAxes, OfAnEvent, LayoutCategories, DocCategories
    <2> QED BY <2>2, <2>3
<1> QED BY <1>1, <1>2, <1>3 DEF BreakCategories

\* The verdict on an axis depends on the findings, on what is covered and on the
\* configuration only.
LEMMA SameStatus ==
    ASSUME old' = old, new' = new, findings' = findings, covered' = covered, config' = config
    PROVE  /\ \A a, abi : Status(a, abi)' = Status(a, abi)
           /\ Coverage(config)' = Coverage(config)
<1>1. \A f : Axes(f)' = Axes(f)
    <2>1. \A f : TypeAxes(f)' = TypeAxes(f)
        BY DEF TypeAxes
    <2> QED BY <2>1 DEF Axes
<1>2. \A f : ReportedAxes(f)' = ReportedAxes(f)
    BY <1>1 DEF ReportedAxes
<1>3. Open' = Open
    BY DEF Open, Suppressed, SuppressedRoots, HasRule
<1>4. \A a, abi : Status(a, abi)' = Status(a, abi)
    BY <1>2, <1>3 DEF Status, Fails, Gated
<1>5. Coverage(config)' = Coverage(config)
    BY DEF Coverage, DirectlyCovered, Inherited, BreakingOn
<1> QED BY <1>4, <1>5

-----------------------------------------------------------------------------
(***************************************************************************)
(* The invariant of the pipeline.                                          *)
(***************************************************************************)

\* A comparison that is being judged is over.
PhaseInv ==
    /\ phase \in {"comparing", "audited", "judged"}
    /\ phase # "comparing" => stage = "compared"

AuditInv == phase # "comparing" => covered = Coverage(config)

JudgeInv ==
    phase = "judged" =>
        /\ \A a \in Axis : verdict.status[a] = Status(a, verdict.abi)
        /\ verdict.is_safe => \A a \in Axis : verdict.status[a] # "failed"
        /\ (\A a \in Axis : verdict.status[a] # "failed") => verdict.is_safe

VerdictInv == IInv /\ ExactInv /\ PhaseInv /\ AuditInv /\ JudgeInv

LEMMA VerdictInvInit == VerdictInit => VerdictInv
<1>1. VerdictInit => Init /\ phase = "comparing"
    BY DEF VerdictInit
<1> QED BY <1>1, InvInit, ExactInit DEF VerdictInv, PhaseInv, AuditInv, JudgeInv

LEMMA VerdictStep ==
    ASSUME VerdictInv, [VerdictNext]_allVars
    PROVE  VerdictInv'
<1> USE DEF VerdictInv
<1>1. ASSUME Compare
      PROVE  VerdictInv'
    <2>1. IInv' /\ ExactInv'
        BY <1>1, StepFacts, ExactStep DEF Compare
    <2>2. stage # "compared"
        BY <1>1 DEF Compare, Next, CompareFunctions, CompareStructs, CompareEnums, CompareUnions, CompareErrorEnums,
                    Pass, DetectTypeKindChanges, CollectRoots, ExpandBroken, EndCascade
    <2>3. phase' = "comparing"
        BY <1>1, <2>2 DEF Compare, verdictVars, PhaseInv
    <2> QED BY <2>1, <2>3 DEF PhaseInv, AuditInv, JudgeInv
<1>2. ASSUME Audit
      PROVE  VerdictInv'
    <2>1. /\ vars' = vars /\ stage = "compared" /\ phase' = "audited"
          /\ covered' = Coverage(config')
        BY <1>2 DEF Audit
    <2>2. IInv' /\ ExactInv'
        BY <2>1, StepFacts, ExactStep
    <2>3. stage' = "compared" /\ findings' = findings
        BY <2>1 DEF vars
    <2>4. Coverage(config)' = Coverage(config')
        BY <2>3 DEF Coverage, DirectlyCovered, Inherited, BreakingOn
    <2> QED BY <2>1, <2>2, <2>3, <2>4 DEF PhaseInv, AuditInv, JudgeInv
<1>3. ASSUME Judge
      PROVE  VerdictInv'
    <2> DEFINE abi == CallsAgree(old, new) /\ CallsAgree(new, old)
               status == [a \in Axis |-> Status(a, abi)]
    <2>1. /\ vars' = vars /\ phase = "audited" /\ phase' = "judged"
          /\ config' = config /\ covered' = covered
          /\ verdict' = [status |-> status, is_safe |-> \A a \in Axis : status[a] # "failed", abi |-> abi]
        BY <1>3 DEF Judge
    <2>2. IInv' /\ ExactInv'
        BY <2>1, StepFacts, ExactStep
    <2>3. /\ stage' = stage /\ findings' = findings /\ old' = old /\ new' = new
          /\ stage = "compared"
        BY <2>1 DEF vars, PhaseInv
    <2>4. PhaseInv' /\ AuditInv'
        BY <2>1, <2>3, SameStatus DEF PhaseInv, AuditInv
    <2>5. JudgeInv'
        <3>1. /\ verdict'.status = status
              /\ verdict'.is_safe <=> \A a \in Axis : status[a] # "failed"
              /\ verdict'.abi = abi
            BY <2>1
        <3>2. \A a \in Axis : status[a] = Status(a, abi)
            OBVIOUS
        <3>3. \A a \in Axis : Status(a, verdict.abi)' = Status(a, abi)
            BY <2>1, <2>3, <3>1, SameStatus
        <3> HIDE DEF abi, status
        <3> QED BY <3>1, <3>2, <3>3 DEF JudgeInv
    <2> QED BY <2>2, <2>4, <2>5
<1>4. ASSUME UNCHANGED allVars
      PROVE  VerdictInv'
    <2>1. /\ vars' = vars /\ phase' = phase /\ config' = config /\ covered' = covered /\ verdict' = verdict
        BY <1>4 DEF allVars, verdictVars
    <2>2. IInv' /\ ExactInv'
        BY <2>1, StepFacts, ExactStep
    <2>3. stage' = stage /\ findings' = findings /\ old' = old /\ new' = new
        BY <2>1 DEF vars
    <2> QED BY <2>1, <2>2, <2>3, SameStatus DEF PhaseInv, AuditInv, JudgeInv
<1> QED BY <1>1, <1>2, <1>3, <1>4 DEF VerdictNext

\* Every reachable state of the pipeline satisfies the invariant.
THEOREM PipelineInvariant == VerdictSpec => []VerdictInv
BY VerdictInvInit, VerdictStep, PTL DEF VerdictSpec

-----------------------------------------------------------------------------
(***************************************************************************)
(* The theorems.                                                           *)
(***************************************************************************)

\* A critical finding of the passes fails every gated axis it is on, unless it
\* is handled.
LEMMA GatedBreak ==
    ASSUME VerdictInv, phase = "judged", verdict.is_safe,
           NEW f \in findings, IsCritical(f), f.root = NoType,
           NEW a \in Axis, a \in Axes(f), Gated(a)
    PROVE  Handled(f)
<1> SUFFICES ASSUME ~Handled(f) PROVE FALSE
    OBVIOUS
<1>1. f \in Open
    BY DEF Open, Suppressed, SuppressedRoots, Handled, IsCritical
<1>2. ReportedAxes(f) = Axes(f)
    BY DEF ReportedAxes
<1>3. Fails(f, a)
    BY DEF Fails, IsCritical
<1>4. Status(a, verdict.abi) = "failed"
    BY <1>1, <1>2, <1>3 DEF Status
<1> QED BY <1>4 DEF VerdictInv, JudgeInv

\* Where storage and calls are gated, a safe verdict leaves no break of a stored
\* type or of a function unhandled.
LEMMA SafeHandled == VerdictInv => SafeMeansHandled
<1> SUFFICES ASSUME VerdictInv, phase = "judged", verdict.is_safe, Gated("storage_layout"), Gated("call_abi")
             PROVE  /\ \A t \in DOMAIN old.types : LayoutKept(old, new, t) \/ OwnBreaks(t) # {}
                    /\ \A t \in (DOMAIN old.types) \ EventType :
                          \A f \in OwnBreaks(t) : Handled(f) \/ OfAnEvent(f)
                    /\ \A fn \in DOMAIN old.fns : SignatureKept(fn) \/ CallBreaks(fn) # {}
                    /\ \A fn \in DOMAIN old.fns : \A f \in CallBreaks(fn) : Handled(f)
    BY DEF SafeMeansHandled
<1>1. /\ stage = "compared" /\ Cascading
      /\ IsSpec(old) /\ IsSpec(new)
      /\ TellsInv
      /\ {f \in findings : f.type = NoType} = FunctionFindings
      /\ \A t \in NotKept : OwnBreaks(t) # {}
    BY DEF VerdictInv, PhaseInv, Cascading, IInv, TypeOK, ExactInv, FnInv, OwnInv
<1>2. \A f \in findings : IsCritical(f) /\ f.root = NoType /\ Axes(f) \cap {"storage_layout", "call_abi"} # {} =>
                              Handled(f)
    BY GatedBreak DEF Axis
<1>3. \A t \in DOMAIN old.types : LayoutKept(old, new, t) \/ OwnBreaks(t) # {}
    BY <1>1 DEF NotKept
<1>4. ASSUME NEW t \in (DOMAIN old.types) \ EventType, NEW f \in OwnBreaks(t)
      PROVE  Handled(f) \/ OfAnEvent(f)
    <2>1. /\ f \in findings /\ f.root = NoType /\ IsCritical(f)
          /\ f.type \in Type \ EventType
        BY <1>1, <1>4, SpecFacts DEF OwnBreaks, IsCritical
    <2>2. f.cat \in BreakCategories
        BY <1>1, <2>1 DEF TellsInv, Tells
    <2> QED BY <1>2, <2>1, <2>2, TypeAxis
<1>5. ASSUME NEW fn \in DOMAIN old.fns
      PROVE  SignatureKept(fn) \/ CallBreaks(fn) # {}
    <2> SUFFICES ASSUME ~SignatureKept(fn) PROVE CallBreaks(fn) # {}
        OBVIOUS
    <2>1. PICK x \in FunctionFindings : IsCritical(x) /\ x.target[1] = fn
        BY <1>1, FunctionsTell
    <2>2. x \in CallBreaks(fn)
        BY <1>1, <2>1 DEF CallBreaks, IsCritical
    <2> QED BY <2>2
<1>6. ASSUME NEW fn, NEW f \in CallBreaks(fn)
      PROVE  Handled(f)
    <2>1. f \in findings /\ f.type = NoType /\ IsCritical(f) /\ f \in FunctionFindings
        BY <1>1 DEF CallBreaks, IsCritical
    <2>2. f.root = NoType
        BY <2>1, FunctionsDirect DEF Direct
    <2>3. f.cat \in FnBreakCategories
        BY <1>1, <2>1, FunctionsTell DEF FnTells
    <2> QED BY <1>2, <2>1, <2>2, <2>3, CallAxis
<1> QED BY <1>3, <1>4, <1>5, <1>6

\* Where nothing is broken nothing is held back.
LEMMA NothingHeldBack == VerdictInv => NoFalseAlarm
<1> SUFFICES ASSUME VerdictInv, phase = "judged", ~config.strict, verdict.abi,
                    \A fn \in DOMAIN old.fns : /\ fn \in DOMAIN new.fns
                                               /\ old.fns[fn].inputs = new.fns[fn].inputs
                                               /\ old.fns[fn].outputs = new.fns[fn].outputs,
                    \A t \in DOMAIN old.types : LayoutKept(old, new, t)
             PROVE  verdict.is_safe
    BY DEF NoFalseAlarm
<1>1. /\ Cascading /\ TypeOK
      /\ IsSpec(old) /\ IsSpec(new)
      /\ {f \in findings : f.type = NoType} = FunctionFindings
      /\ Broken = {m[1] : m \in Marks}
      /\ \A m \in Marks : m[2] \in NotKept
    BY DEF VerdictInv, PhaseInv, Cascading, IInv, TypeOK, CascadeInv, ExactInv, FnInv, RootsInv
<1>2. \A f \in FunctionFindings : ~IsCritical(f)
    BY <1>1, FunctionsTell
<1>3. Broken = {}
    <2>1. NotKept = {}
        BY DEF NotKept
    <2>2. Marks = {}
        BY <1>1, <2>1
    <2> QED BY <1>1, <2>2
<1>4. \A f \in findings : ~IsCritical(f)
    BY <1>1, <1>2, <1>3 DEF Broken, IsCritical
<1>5. \A a \in Axis : Status(a, verdict.abi) # "failed"
    <2>1. \A f \in findings : \A a : ~Fails(f, a)
        BY <1>4 DEF Fails, IsCritical
    <2> QED BY <2>1 DEF Status, Open
<1> QED BY <1>5 DEF VerdictInv, JudgeInv

\* The verdict errs in neither direction (report.rs: with_suppressions_with_specs
\* over diff.rs: compare): where storage and calls are gated, a safe verdict
\* leaves no break of a stored type or of a function unhandled, and where nothing
\* is broken nothing is held back.
THEOREM VerdictIsExact == VerdictSpec => []VerdictExact
<1>1. VerdictInv => VerdictExact
    BY SafeHandled, NothingHeldBack DEF VerdictExact
<1> QED BY <1>1, PipelineInvariant, PTL

\* A migration covers a cascade only with every breaking finding on its root, and
\* otherwise only findings that a verified migration names on types it declares
\* (contract_migration.rs: audit, record_claim, inherit_through_cascades).
THEOREM NothingHalfMigrated == VerdictSpec => []MigrationsHonest
<1>1. VerdictInv => MigrationsHonest
    <2> SUFFICES ASSUME VerdictInv, phase \in {"audited", "judged"}, NEW f \in covered
                 PROVE  \/ f.root # NoType /\ BreakingOn(f.root) \subseteq covered
                        \/ \E m \in Verified(config) :
                              /\ f.type \in m.migrates
                              /\ \E i \in DOMAIN m.covers : m.covers[i] = [cat |-> f.cat, target |-> f.target]
        BY DEF MigrationsHonest
    <2> DEFINE direct == DirectlyCovered(config)
    <2>1. covered = direct \cup Inherited(direct)
        BY DEF VerdictInv, AuditInv, Coverage
    <2>2. CASE f \in Inherited(direct)
        BY <2>1, <2>2 DEF Inherited
    <2>3. CASE f \in direct
        <3>1. Claimants(config, f) # {}
            BY <2>3, FS_EmptySet DEF DirectlyCovered
        <3>2. PICK m \in Verified(config) : {k \in DOMAIN m.covers :
                                                 /\ m.covers[k] = [cat |-> f.cat, target |-> f.target]
                                                 /\ f.type \in m.migrates} # {}
            BY <3>1 DEF Claimants
        <3> QED BY <3>2
    <2> QED BY <2>1, <2>2, <2>3
<1> QED BY <1>1, PipelineInvariant, PTL

-----------------------------------------------------------------------------
(* The walk of the call ABI.                                               *)

Frame == [fn : DOMAIN client.fns, flow : Flows, rest : SUBSET Flows]

-----------------------------------------------------------------------------
(* Parts of flows are flows of the same side.                              *)

\* A set of zipped flows is made of flows of one side.
LEMMA ZipType ==
  ASSUME NEW side \in {"argument", "return"}, NEW a \in Seq(Shape), NEW b \in Seq(Shape)
  PROVE  \A w \in Zip(side, a, b) : w \in Flows /\ w.side = side
BY DEF Zip, Flow, Flows

\* An element of a sequence.
LEMMA Elements ==
  ASSUME NEW S, NEW s \in Seq(S)
  PROVE  \A i \in DOMAIN s : s[i] \in S
OBVIOUS

\* The type expressions of members are in Shape.
LEMMA MemberType ==
  ASSUME NEW spec, IsSpec(spec), NEW t \in DOMAIN spec.types
  PROVE  \A i \in DOMAIN spec.types[t].members : spec.types[t].members[i].ty \in Shape
<1> DEFINE ms == spec.types[t].members
<1>1. ms \in Seq([name : Name, ty : Shape])
  BY DEF IsSpec, Definition, Members
<1>2. \A i \in DOMAIN ms : ms[i] \in [name : Name, ty : Shape]
  BY <1>1, Elements
<1> QED
  BY <1>2

\* The parts of two payloads or containers.
LEMMA PayloadType ==
  ASSUME NEW side \in {"argument", "return"}, NEW a \in Shape, NEW b \in Shape
  PROVE  \A w \in PayloadParts(side, a, b) : w \in Flows /\ w.side = side
<1>1. a.args \in Seq(Shape) /\ b.args \in Seq(Shape)
  BY ShapeAssumption
<1>2. \A w \in Zip(side, a.args, b.args) : w \in Flows /\ w.side = side
  BY <1>1, ZipType
<1> QED
  BY <1>2 DEF PayloadParts

\* The parts of a flow are flows of its side.
LEMMA PartsType ==
  ASSUME NEW sender, NEW reader, IsSpec(sender), IsSpec(reader), NEW v \in Flows
  PROVE  \A w \in Parts(sender, reader, v) : w \in Flows /\ w.side = v.side
<1> SUFFICES ASSUME NEW w \in Parts(sender, reader, v)
             PROVE  w \in Flows /\ w.side = v.side
  OBVIOUS
<1>0. v.side \in {"argument", "return"} /\ v.sent \in Shape /\ v.read \in Shape
  BY DEF Flows
<1>1. CASE v.sent.con \in Nesting
  <2>1. w \in PayloadParts(v.side, v.sent, v.read)
    BY <1>1 DEF Parts
  <2> QED
    BY <2>1, <1>0, PayloadType
<1>2. CASE v.sent.con \notin Nesting
  <2> DEFINE o == sender.types[v.sent.of]
             n == reader.types[v.read.of]
  <2>1. SameKind(sender, reader, v) /\ w \in UdtParts(v.side, o, n)
    BY <1>2 DEF Parts
  <2>2. /\ \A i \in DOMAIN o.members : o.members[i].ty \in Shape
        /\ \A j \in DOMAIN n.members : n.members[j].ty \in Shape
    BY <2>1, MemberType DEF SameKind
  <2> HIDE DEF o, n
  <2>3. w \in StructParts(v.side, o, n) \/ w \in UnionParts(v.side, o, n)
    BY <2>1 DEF UdtParts
  <2>4. \A ij \in Namesakes(o.members, n.members) :
           o.members[ij[1]].ty \in Shape /\ n.members[ij[2]].ty \in Shape
    BY <2>2 DEF Namesakes
  <2>5. CASE w \in StructParts(v.side, o, n)
    <3>1. \E ij \in Namesakes(o.members, n.members) :
             w = Flow(v.side, o.members[ij[1]].ty, n.members[ij[2]].ty)
      BY <2>5 DEF StructParts
    <3> QED
      BY <1>0, <2>4, <3>1 DEF Flow, Flows
  <2>6. CASE w \in UnionParts(v.side, o, n)
    <3>1. PICK ij \in Namesakes(o.members, n.members) :
             w \in PayloadParts(v.side, o.members[ij[1]].ty, n.members[ij[2]].ty)
      BY <2>6 DEF UnionParts
    <3> QED
      BY <1>0, <2>4, <3>1, PayloadType
  <2> QED
    BY <2>3, <2>5, <2>6
<1> QED
  BY <1>1, <1>2

\* The flows of a call are flows.
LEMMA CallFlowsType ==
  ASSUME IsSpec(client), IsSpec(contract), NEW f \in DOMAIN client.fns
  PROVE  CallFlows(client, contract, f) \subseteq Flows
<1> SUFFICES ASSUME f \in DOMAIN contract.fns, NEW w \in CallFlows(client, contract, f) PROVE w \in Flows
  BY DEF CallFlows
<1> DEFINE o == client.fns[f]
           n == contract.fns[f]
<1>1. o \in Function /\ n \in Function
  BY DEF IsSpec
<1> HIDE DEF o, n
<1>2. /\ \A i \in DOMAIN o.inputs : o.inputs[i].ty \in Shape
      /\ \A i \in DOMAIN n.inputs : n.inputs[i].ty \in Shape
      /\ o.outputs \in Seq(Shape) /\ n.outputs \in Seq(Shape)
  <2>1. o.inputs \in Seq([name : Name, ty : Shape]) /\ n.inputs \in Seq([name : Name, ty : Shape])
    BY <1>1 DEF Function, Members
  <2>2. /\ \A i \in DOMAIN o.inputs : o.inputs[i] \in [name : Name, ty : Shape]
        /\ \A i \in DOMAIN n.inputs : n.inputs[i] \in [name : Name, ty : Shape]
    BY <2>1, Elements
  <2> QED
    BY <1>1, <2>2 DEF Function
<1>3. w \in ArgumentFlows(o, n) \/ w \in ReturnFlows(o, n)
  BY DEF CallFlows, o, n
<1>4. CASE w \in ArgumentFlows(o, n)
  <2>1. Len(o.inputs) = Len(n.inputs) /\ \E i \in DOMAIN o.inputs : w = Flow("argument", o.inputs[i].ty, n.inputs[i].ty)
    BY <1>4 DEF ArgumentFlows
  <2>2. DOMAIN o.inputs = DOMAIN n.inputs
    <3>1. o.inputs \in Seq([name : Name, ty : Shape]) /\ n.inputs \in Seq([name : Name, ty : Shape])
      BY <1>1 DEF Function, Members
    <3> QED
      BY <3>1, <2>1
  <2> QED
    BY <1>2, <2>1, <2>2 DEF Flow, Flows
<1>5. CASE w \in ReturnFlows(o, n)
  <2>1. w \in Zip("return", n.outputs, o.outputs)
    BY <1>5 DEF ReturnFlows
  <2> QED
    BY <1>2, <2>1, ZipType
<1> QED
  BY <1>3, <1>4, <1>5

-----------------------------------------------------------------------------
(* The call stack.                                                         *)

LEMMA PushLemma ==
  ASSUME NEW S, NEW s \in Seq(S), NEW e \in S
  PROVE  /\ Append(s, e) \in Seq(S)
         /\ DOMAIN Append(s, e) = DOMAIN s \cup {Len(s) + 1}
         /\ Len(s) + 1 \notin DOMAIN s
         /\ Append(s, e)[Len(s) + 1] = e
         /\ \A i \in DOMAIN s : Append(s, e)[i] = s[i]
OBVIOUS

LEMMA PopLemma ==
  ASSUME NEW S, NEW s \in Seq(S), s # <<>>
  PROVE  /\ SubSeq(s, 1, Len(s) - 1) \in Seq(S)
         /\ DOMAIN SubSeq(s, 1, Len(s) - 1) = DOMAIN s \ {Len(s)}
         /\ Len(s) \in DOMAIN s
         /\ \A i \in DOMAIN SubSeq(s, 1, Len(s) - 1) : SubSeq(s, 1, Len(s) - 1)[i] = s[i]
OBVIOUS

LEMMA SetLemma ==
  ASSUME NEW S, NEW s \in Seq(S), s # <<>>, NEW e \in S
  PROVE  /\ [s EXCEPT ![Len(s)] = e] \in Seq(S)
         /\ DOMAIN [s EXCEPT ![Len(s)] = e] = DOMAIN s
         /\ Len(s) \in DOMAIN s
         /\ [s EXCEPT ![Len(s)] = e][Len(s)] = e
         /\ \A i \in DOMAIN s : i # Len(s) => [s EXCEPT ![Len(s)] = e][i] = s[i]
OBVIOUS

Visits(s) == UNION {PairOf(s[i].flow) : i \in DOMAIN s}

\* All that is walked at a time flows one way, and each pair of names once.
StackInv(s) ==
    /\ \A i \in DOMAIN s : \A w \in s[i].rest : w.side = s[i].flow.side
    /\ \A i, j \in DOMAIN s : s[i].flow.side = s[j].flow.side
    /\ \A i, j \in DOMAIN s : i # j => PairOf(s[i].flow) \cap PairOf(s[j].flow) = {}

\* A stack with fewer frames, or with less to go down, keeps the invariant.
LEMMA LessOnStack ==
  ASSUME NEW s, NEW t, StackInv(s), DOMAIN t \subseteq DOMAIN s,
         \A i \in DOMAIN t : t[i].flow = s[i].flow /\ t[i].rest \subseteq s[i].rest
  PROVE  StackInv(t)
<1>1. \A i \in DOMAIN t : \A w \in t[i].rest : w.side = t[i].flow.side
  BY DEF StackInv
<1>2. \A i, j \in DOMAIN t : t[i].flow.side = t[j].flow.side
  BY DEF StackInv
<1>3. ASSUME NEW i \in DOMAIN t, NEW j \in DOMAIN t, i # j
      PROVE  PairOf(t[i].flow) \cap PairOf(t[j].flow) = {}
  <2>1. PairOf(s[i].flow) \cap PairOf(s[j].flow) = {}
    BY <1>3 DEF StackInv
  <2>2. t[i].flow = s[i].flow /\ t[j].flow = s[j].flow
    OBVIOUS
  <2> QED
    BY <2>1, <2>2
<1> QED
  BY <1>1, <1>2, <1>3 DEF StackInv

\* What is below the top after a part was taken.
Taken(v) == [stack EXCEPT ![Len(stack)].rest = @ \ {v}]

LEMMA TakenLemma ==
  ASSUME stack \in Seq(Frame), stack # <<>>, StackInv(stack), NEW v
  PROVE  /\ Taken(v) \in Seq(Frame)
         /\ StackInv(Taken(v))
         /\ Visits(Taken(v)) = Visits(stack)
         /\ DOMAIN Taken(v) = DOMAIN stack
         /\ \A i \in DOMAIN stack : /\ Taken(v)[i].flow = stack[i].flow
                                    /\ \A w \in stack[i].rest : w # v => w \in Taken(v)[i].rest
                                    /\ Taken(v)[i].rest \subseteq stack[i].rest
<1> DEFINE e == [stack[Len(stack)] EXCEPT !.rest = stack[Len(stack)].rest \ {v}]
<1>1. Len(stack) \in DOMAIN stack /\ stack[Len(stack)] \in Frame
  BY PopLemma, Elements
<1>2. e \in Frame /\ e.flow = stack[Len(stack)].flow /\ e.rest = stack[Len(stack)].rest \ {v}
  BY <1>1 DEF Frame
<1>3. Taken(v) = [stack EXCEPT ![Len(stack)] = e]
  BY DEF Taken
<1> HIDE DEF e
<1>4. /\ Taken(v) \in Seq(Frame)
      /\ DOMAIN Taken(v) = DOMAIN stack
      /\ Taken(v)[Len(stack)] = e
      /\ \A i \in DOMAIN stack : i # Len(stack) => Taken(v)[i] = stack[i]
  BY <1>2, <1>3, SetLemma
<1>5. \A i \in DOMAIN stack : /\ Taken(v)[i].flow = stack[i].flow
                              /\ \A w \in stack[i].rest : w # v => w \in Taken(v)[i].rest
                              /\ Taken(v)[i].rest \subseteq stack[i].rest
  BY <1>1, <1>2, <1>4
<1>6. StackInv(Taken(v))
  BY <1>4, <1>5, LessOnStack
<1>7. Visits(Taken(v)) = Visits(stack)
  BY <1>4, <1>5 DEF Visits
<1> QED
  BY <1>4, <1>5, <1>6, <1>7

\* A frame for v on top of a stack that does not visit v's pair.
FrameOf(f, v) == [fn |-> f, flow |-> v, rest |-> PartsIn(client, contract, v)]

LEMMA SidesType ==
  ASSUME IsSpec(client), IsSpec(contract), NEW v \in Flows
  PROVE  \A w \in PartsIn(client, contract, v) : w \in Flows /\ w.side = v.side
BY PartsType DEF PartsIn, Encoder, Decoder

LEMMA PushFrame ==
  ASSUME IsSpec(client), IsSpec(contract),
         NEW s \in Seq(Frame), StackInv(s), NEW f \in DOMAIN client.fns, NEW v \in Flows,
         \A i \in DOMAIN s : s[i].flow.side = v.side,
         PairOf(v) \cap Visits(s) = {}
  PROVE  /\ Append(s, FrameOf(f, v)) \in Seq(Frame)
         /\ StackInv(Append(s, FrameOf(f, v)))
         /\ Visits(Append(s, FrameOf(f, v))) = Visits(s) \cup PairOf(v)
         /\ DOMAIN Append(s, FrameOf(f, v)) = DOMAIN s \cup {Len(s) + 1}
         /\ Append(s, FrameOf(f, v))[Len(s) + 1] = FrameOf(f, v)
         /\ \A i \in DOMAIN s : Append(s, FrameOf(f, v))[i] = s[i]
<1> DEFINE e == FrameOf(f, v)
           t == Append(s, e)
<1>1. e \in Frame /\ e.flow = v /\ \A w \in e.rest : w.side = v.side
  BY SidesType DEF FrameOf, Frame
<1> HIDE DEF e
<1>2. /\ t \in Seq(Frame)
      /\ DOMAIN t = DOMAIN s \cup {Len(s) + 1}
      /\ Len(s) + 1 \notin DOMAIN s
      /\ t[Len(s) + 1] = e
      /\ \A i \in DOMAIN s : t[i] = s[i]
  BY <1>1, PushLemma
<1> HIDE DEF t
<1>3. \A i \in DOMAIN s : PairOf(s[i].flow) \cap PairOf(v) = {}
  BY DEF Visits
<1>4. StackInv(t)
  <2>1. \A i \in DOMAIN t : (i \in DOMAIN s /\ t[i] = s[i]) \/ (i = Len(s) + 1 /\ t[i] = e)
    BY <1>2
  <2>2. \A i \in DOMAIN t : \A w \in t[i].rest : w.side = t[i].flow.side
    BY <1>1, <2>1 DEF StackInv
  <2>3. \A i \in DOMAIN t : t[i].flow.side = v.side
    BY <1>1, <2>1
  <2>4. ASSUME NEW i \in DOMAIN t, NEW j \in DOMAIN t, i # j
        PROVE  PairOf(t[i].flow) \cap PairOf(t[j].flow) = {}
    <3>1. CASE i \in DOMAIN s /\ j \in DOMAIN s
      BY <1>2, <2>4, <3>1 DEF StackInv
    <3>2. CASE i \in DOMAIN s /\ t[j] = e
      BY <1>1, <1>2, <1>3, <3>2
    <3>3. CASE t[i] = e /\ j \in DOMAIN s
      BY <1>1, <1>2, <1>3, <3>3
    <3> QED
      BY <2>1, <2>4, <3>1, <3>2, <3>3
  <2> QED
    BY <2>2, <2>3, <2>4, Zenon DEF StackInv
<1>5. Visits(t) = Visits(s) \cup PairOf(v)
  BY <1>1, <1>2 DEF Visits
<1> QED
  BY <1>2, <1>4, <1>5 DEF e, t

\* Two flows of one side that visit one pair of names are the same flow.
LEMMA SamePair ==
  ASSUME NEW v \in Flows, NEW w \in Flows, v.side = w.side, PairOf(v) \cap PairOf(w) # {}
  PROVE  v = w
<1>1. /\ v.sent.con = "udt" /\ w.sent.con = "udt" /\ v.read.con = "udt" /\ w.read.con = "udt"
      /\ v.sent.of = w.sent.of /\ v.read.of = w.read.of
  BY DEF PairOf, Both
<1>2. v.sent = w.sent /\ v.read = w.read
  BY <1>1, ShapeAssumption DEF Flows
<1> QED
  BY <1>2 DEF Flows

-----------------------------------------------------------------------------
(* The inductive invariant.                                                *)

Waiting(w) == \E i \in DOMAIN stack : w \in stack[i].rest

Entered == \A i \in DOMAIN stack : stack[i].flow \in seen

PartsCovered == \A v \in seen : \A w \in PartsIn(client, contract, v) : w \in seen \/ Waiting(w)

CallsCovered ==
    \A f \in DOMAIN client.fns \ calls : \A w \in CallFlows(client, contract, f) :
        w \in seen \/ \E t \in flows : t.flow = w

Reported ==
    breaks = {} => /\ \A v \in seen : ~ClashesIn(client, contract, v)
                   /\ \A f \in DOMAIN client.fns \ calls : ~CallClashes(client, contract, f)

WalkInv == CallTypeOK /\ StackInv(stack) /\ Entered /\ PartsCovered /\ CallsCovered /\ Reported

LEMMA WalkInvInit == CallInit => WalkInv
<1> SUFFICES ASSUME CallInit PROVE WalkInv
  OBVIOUS
<1>1. IsSpec(client) /\ IsSpec(contract)
  BY MeetingsAssumption DEF CallInit
<1>2. stack = <<>> /\ DOMAIN stack = {} /\ stack \in Seq(Frame)
  BY DEF CallInit
<1>3. visiting = UNION {PairOf(stack[i].flow) : i \in DOMAIN stack}
  BY <1>2 DEF CallInit
<1>4. CallTypeOK
  BY <1>1, <1>2, <1>3 DEF CallInit, CallTypeOK, Frame
<1> QED
  BY <1>2, <1>4 DEF CallInit, WalkInv, StackInv, Entered, PartsCovered, CallsCovered, Reported

\* Entering v keeps the invariant, when v was the only uncovered flow.
LEMMA EnterKeeps ==
  ASSUME WalkInv, UNCHANGED <<client, contract, calls>>,
         NEW f \in DOMAIN client.fns, NEW v \in Flows, NEW s \in Seq(Frame), StackInv(s),
         Enter(f, v, s, Visits(s)),
         flows' \subseteq flows,
         \A i \in DOMAIN s : s[i].flow.side = v.side /\ s[i].flow \in seen,
         PairOf(v) \cap Visits(s) = {},
         \A w : Waiting(w) => w = v \/ \E i \in DOMAIN s : w \in s[i].rest,
         \A t \in flows : t \in flows' \/ t.flow = v
  PROVE  WalkInv'
<1> USE DEF WalkInv
<1>1. IsSpec(client) /\ IsSpec(contract)
  BY DEF CallTypeOK
<1>2. /\ stack' = Append(s, FrameOf(f, v))
      /\ visiting' = Visits(s) \cup PairOf(v)
      /\ seen' = seen \cup {v}
      /\ breaks \subseteq breaks'
      /\ ClashesIn(client, contract, v) => breaks' # {}
  BY DEF Enter, FrameOf
<1>3. /\ stack' \in Seq(Frame)
      /\ StackInv(stack')
      /\ Visits(stack') = Visits(s) \cup PairOf(v)
      /\ DOMAIN stack' = DOMAIN s \cup {Len(s) + 1}
      /\ stack'[Len(s) + 1] = FrameOf(f, v)
      /\ \A i \in DOMAIN s : stack'[i] = s[i]
  BY <1>1, <1>2, PushFrame
<1>4. CallTypeOK'
  BY <1>2, <1>3 DEF CallTypeOK, Visits, Frame
<1>5. Entered'
  BY <1>2, <1>3 DEF Entered, FrameOf
<1>6. PartsCovered'
  <2> SUFFICES ASSUME NEW u \in seen', NEW w \in PartsIn(client, contract, u)
               PROVE  w \in seen' \/ Waiting(w)'
    BY DEF PartsCovered
  <2>1. CASE u = v
    BY <2>1, <1>3 DEF Waiting, FrameOf
  <2>2. CASE u \in seen
    <3>1. w \in seen \/ w = v \/ \E i \in DOMAIN s : w \in s[i].rest
      BY <2>2 DEF PartsCovered
    <3> QED
      BY <3>1, <1>2, <1>3 DEF Waiting
  <2> QED
    BY <2>1, <2>2, <1>2
<1>7. CallsCovered'
  BY <1>2 DEF CallsCovered
<1>8. Reported'
  BY <1>2 DEF Reported
<1> QED
  BY <1>3, <1>4, <1>5, <1>6, <1>7, <1>8

LEMMA CompareCallKeeps == WalkInv /\ CompareCall => WalkInv'
<1> SUFFICES ASSUME WalkInv, CompareCall PROVE WalkInv'
  OBVIOUS
<1> USE DEF WalkInv
<1>1. PICK f \in calls :
         /\ calls' = calls \ {f}
         /\ flows' = {[fn |-> f, flow |-> v] : v \in CallFlows(client, contract, f)}
         /\ breaks' = breaks \cup (IF CallClashes(client, contract, f) THEN {[fn |-> f, at |-> {}]} ELSE {})
  BY DEF CompareCall
<1>2. UNCHANGED <<client, contract, stack, visiting, seen>> /\ flows = {}
  BY DEF CompareCall
<1>3. CallFlows(client, contract, f) \subseteq Flows /\ f \in DOMAIN client.fns
  BY CallFlowsType DEF CallTypeOK
<1>4. CallTypeOK'
  BY <1>1, <1>2, <1>3 DEF CallTypeOK
<1>5. Entered' /\ PartsCovered' /\ StackInv(stack')
  BY <1>2 DEF Entered, PartsCovered, Waiting
<1>6. CallsCovered'
  <2> SUFFICES ASSUME NEW g \in DOMAIN client.fns \ calls', NEW w \in CallFlows(client, contract, g)
               PROVE  w \in seen \/ \E t \in flows' : t.flow = w
    BY <1>2 DEF CallsCovered
  <2>1. CASE g = f
    <3>1. [fn |-> f, flow |-> w] \in flows' /\ [fn |-> f, flow |-> w].flow = w
      BY <2>1, <1>1
    <3> QED
      BY <3>1
  <2>2. CASE g # f
    BY <2>2, <1>1, <1>2 DEF CallsCovered
  <2> QED
    BY <2>1, <2>2
<1>7. Reported'
  BY <1>1, <1>2 DEF Reported
<1> QED
  BY <1>4, <1>5, <1>6, <1>7

LEMMA BeginKeeps == WalkInv /\ Begin => WalkInv'
<1> SUFFICES ASSUME WalkInv, Begin PROVE WalkInv'
  OBVIOUS
<1>1. PICK t \in flows : flows' = flows \ {t} /\ Enter(t.fn, t.flow, <<>>, {})
  BY DEF Begin
<1>2. stack = <<>> /\ UNCHANGED <<client, contract, calls>>
  BY DEF Begin
<1>3. t.fn \in DOMAIN client.fns /\ t.flow \in Flows
  BY DEF WalkInv, CallTypeOK
<1>4. <<>> \in Seq(Frame) /\ DOMAIN <<>> = {}
  OBVIOUS
<1>5. StackInv(<<>>) /\ Visits(<<>>) = {}
  BY <1>4 DEF StackInv, Visits
<1>6. \A w : ~Waiting(w)
  BY <1>2, <1>4 DEF Waiting
<1>7. Enter(t.fn, t.flow, <<>>, Visits(<<>>))
  BY <1>1, <1>5
<1> QED
  BY <1>1, <1>2, <1>3, <1>4, <1>5, <1>6, <1>7, EnterKeeps

LEMMA DescendKeeps == WalkInv /\ Descend => WalkInv'
<1> SUFFICES ASSUME WalkInv, Descend PROVE WalkInv'
  OBVIOUS
<1> USE DEF WalkInv
<1>0. IsSpec(client) /\ IsSpec(contract) /\ stack \in Seq(Frame) /\ visiting = Visits(stack)
  BY DEF CallTypeOK, Frame, Visits
<1>1. stack # <<>> /\ UNCHANGED <<client, contract, calls, flows>>
  BY DEF Descend
<1>2. PICK v \in Top.rest :
         IF PairOf(v) # {} /\ PairOf(v) \subseteq visiting
         THEN stack' = Taken(v) /\ UNCHANGED <<visiting, breaks, seen>>
         ELSE Enter(Top.fn, v, Taken(v), visiting)
  BY DEF Descend, Taken
<1>3. Len(stack) \in DOMAIN stack /\ Top \in Frame /\ Top = stack[Len(stack)]
  BY <1>0, <1>1, PopLemma, Elements DEF Top
<1>4. v \in Flows /\ Top.fn \in DOMAIN client.fns /\ v.side = Top.flow.side
  BY <1>3 DEF Frame, StackInv
<1>5. /\ Taken(v) \in Seq(Frame)
      /\ StackInv(Taken(v))
      /\ Visits(Taken(v)) = Visits(stack)
      /\ DOMAIN Taken(v) = DOMAIN stack
      /\ \A i \in DOMAIN stack : /\ Taken(v)[i].flow = stack[i].flow
                                 /\ \A w \in stack[i].rest : w # v => w \in Taken(v)[i].rest
  BY <1>0, <1>1, TakenLemma
<1>6. \A i \in DOMAIN stack : stack[i].flow.side = v.side
  BY <1>3, <1>4 DEF StackInv
<1>7. \A w : Waiting(w) => w = v \/ \E i \in DOMAIN Taken(v) : w \in Taken(v)[i].rest
  BY <1>5 DEF Waiting
<1>8. CASE PairOf(v) # {} /\ PairOf(v) \subseteq visiting
  <2>1. stack' = Taken(v) /\ UNCHANGED <<visiting, breaks, seen>>
    BY <1>2, <1>8
  <2>2. PICK i \in DOMAIN stack : PairOf(v) \cap PairOf(stack[i].flow) # {}
    BY <1>0, <1>8 DEF Visits
  <2>3. stack[i].flow \in Flows /\ v.side = stack[i].flow.side
    <3>1. stack[i] \in Frame
      BY <1>0, <2>2, Elements
    <3> QED
      BY <1>6, <2>2, <3>1 DEF Frame
  <2>4. v = stack[i].flow
    BY <1>4, <2>2, <2>3, SamePair
  <2>5. v \in seen
    BY <2>4 DEF Entered
  <2>6. CallTypeOK'
    BY <1>0, <1>1, <1>5, <2>1 DEF CallTypeOK, Frame, Visits
  <2>7. Entered'
    BY <1>5, <2>1 DEF Entered
  <2>8. PartsCovered'
    BY <1>1, <1>7, <2>1, <2>5 DEF PartsCovered, Waiting
  <2>9. CallsCovered' /\ Reported'
    BY <1>1, <2>1 DEF CallsCovered, Reported
  <2> QED
    BY <1>5, <2>1, <2>6, <2>7, <2>8, <2>9
<1>9. CASE ~(PairOf(v) # {} /\ PairOf(v) \subseteq visiting)
  <2>1. Enter(Top.fn, v, Taken(v), Visits(Taken(v)))
    BY <1>0, <1>2, <1>5, <1>9
  <2>2. PairOf(v) \cap Visits(Taken(v)) = {}
    BY <1>0, <1>5, <1>9 DEF PairOf
  <2>3. \A i \in DOMAIN Taken(v) : Taken(v)[i].flow.side = v.side /\ Taken(v)[i].flow \in seen
    BY <1>5, <1>6 DEF Entered
  <2> QED
    BY <1>1, <1>4, <1>5, <1>7, <2>1, <2>2, <2>3, EnterKeeps
<1> QED
  BY <1>8, <1>9

LEMMA ReturnKeeps == WalkInv /\ Return => WalkInv'
<1> SUFFICES ASSUME WalkInv, Return PROVE WalkInv'
  OBVIOUS
<1> USE DEF WalkInv
<1>0. stack \in Seq(Frame) /\ visiting = Visits(stack)
  BY DEF CallTypeOK, Frame, Visits
<1>1. /\ stack # <<>> /\ Top.rest = {} /\ stack' = Below
      /\ visiting' = visiting \ PairOf(Top.flow)
      /\ UNCHANGED <<client, contract, calls, flows, breaks, seen>>
  BY DEF Return
<1>2. /\ stack' \in Seq(Frame)
      /\ DOMAIN stack' = DOMAIN stack \ {Len(stack)}
      /\ Len(stack) \in DOMAIN stack
      /\ \A i \in DOMAIN stack' : stack'[i] = stack[i]
  BY <1>0, <1>1, PopLemma DEF Below
<1>3. StackInv(stack')
  BY <1>2, LessOnStack
<1>4. Entered'
  BY <1>1, <1>2 DEF Entered
<1>5. visiting' = Visits(stack')
  <2> DEFINE One(i) == PairOf(stack[i].flow)
  <2>1. \A i \in DOMAIN stack' : One(i) \cap One(Len(stack)) = {}
    BY <1>2 DEF StackInv
  <2>2. Visits(stack) = UNION {One(i) : i \in DOMAIN stack}
    BY DEF Visits
  <2>3. Visits(stack') = UNION {One(i) : i \in DOMAIN stack'}
    BY <1>2 DEF Visits
  <2>4. visiting' = Visits(stack) \ One(Len(stack))
    BY <1>0, <1>1 DEF Top
  <2> HIDE DEF One
  <2> QED
    BY <1>2, <2>1, <2>2, <2>3, <2>4
<1>6. CallTypeOK'
  BY <1>1, <1>2, <1>5 DEF CallTypeOK, Frame, Visits
<1>7. PartsCovered'
  <2>1. \A w : Waiting(w) => Waiting(w)'
    BY <1>1, <1>2 DEF Waiting, Top
  <2> QED
    BY <1>1, <2>1 DEF PartsCovered
<1>8. CallsCovered' /\ Reported'
  BY <1>1 DEF CallsCovered, Reported
<1> QED
  BY <1>3, <1>4, <1>6, <1>7, <1>8

LEMMA WalkInvStep == WalkInv /\ [CallNext]_callVars => WalkInv'
<1> SUFFICES ASSUME WalkInv, [CallNext]_callVars PROVE WalkInv'
  OBVIOUS
<1>1. CASE UNCHANGED callVars
  <2>1. /\ client' = client /\ contract' = contract /\ calls' = calls /\ flows' = flows
        /\ stack' = stack /\ visiting' = visiting /\ breaks' = breaks /\ seen' = seen
    BY <1>1 DEF callVars
  <2>2. CallTypeOK' /\ StackInv(stack')
    BY <2>1 DEF WalkInv, CallTypeOK
  <2>3. Entered' /\ PartsCovered' /\ CallsCovered' /\ Reported'
    BY <2>1 DEF WalkInv, Entered, PartsCovered, CallsCovered, Reported, Waiting
  <2> QED
    BY <2>2, <2>3 DEF WalkInv
<1> QED
  BY <1>1, CompareCallKeeps, BeginKeeps, DescendKeeps, ReturnKeeps DEF CallNext

\* The types of the walk hold, and the pairs that are being visited are those
\* of the stack: leaving a pair forgets that pair and no other.  (call_abi.rs:
\* check_udt_flow.)
THEOREM CallTypeCorrect == CallSpec => []CallTypeOK
<1>1. WalkInv => CallTypeOK
  BY DEF WalkInv
<1> QED
  BY <1>1, WalkInvInit, WalkInvStep, PTL DEF CallSpec

\* For every two builds: a walk that ends without a break has entered a set of
\* flows in which nothing clashes and that contains every flow of every call
\* and the parts of its own members.  (call_abi.rs: compare_direction.)
THEOREM NoBreakIsMissed == CallSpec => []NoBreakMissed
<1>1. WalkInv => NoBreakMissed
  <2> SUFFICES ASSUME WalkInv, Compared, breaks = {} PROVE Understood(client, contract, seen)
    BY DEF NoBreakMissed
  <2>1. calls = {} /\ flows = {} /\ stack = <<>> /\ DOMAIN stack = {}
    BY DEF Compared
  <2>2. \A w : ~Waiting(w)
    BY <2>1 DEF Waiting
  <2>3. Closed(client, contract, seen)
    BY <2>1, <2>2 DEF WalkInv, PartsCovered, CallsCovered, Closed
  <2> QED
    BY <2>1, <2>3 DEF WalkInv, Reported, Understood
<1> QED
  BY <1>1, WalkInvInit, WalkInvStep, PTL DEF CallSpec

-----------------------------------------------------------------------------
(* Nothing is made up.                                                     *)

\* Every set of flows that shows the calls to be understood contains what was
\* entered and what waits.
Within(S) ==
    /\ seen \subseteq S
    /\ \A t \in flows : t.flow \in S
    /\ \A i \in DOMAIN stack : stack[i].rest \subseteq S
    /\ breaks = {}

ProofsCover == \A S : Understood(client, contract, S) => Within(S)

\* With a break, no set of flows shows the calls to be understood.
NoProofWithBreak == breaks # {} => \A S : ~Understood(client, contract, S)

LEMMA EnterWithin ==
  ASSUME NEW S, Understood(client, contract, S), Within(S),
         NEW f, NEW v \in Flows, v \in S, NEW s \in Seq(Frame), NEW within,
         f \in DOMAIN client.fns, IsSpec(client), IsSpec(contract),
         Enter(f, v, s, within), flows' \subseteq flows,
         \A i \in DOMAIN s : s[i].rest \subseteq S
  PROVE  Within(S)'
<1>1. FrameOf(f, v) \in Frame
  BY SidesType DEF FrameOf, Frame
<1>2. stack' = Append(s, FrameOf(f, v))
  BY DEF Enter, FrameOf
<1>3. /\ DOMAIN stack' = DOMAIN s \cup {Len(s) + 1}
      /\ stack'[Len(s) + 1] = FrameOf(f, v)
      /\ \A i \in DOMAIN s : stack'[i] = s[i]
  BY <1>1, <1>2, PushLemma
<1>4. ~ClashesIn(client, contract, v) /\ PartsIn(client, contract, v) \subseteq S
  BY DEF Understood, Closed
<1>5. breaks' = {} /\ seen' \subseteq S
  BY <1>4 DEF Enter, Within
<1>6. \A i \in DOMAIN stack' : stack'[i].rest \subseteq S
  BY <1>3, <1>4 DEF FrameOf
<1> QED
  BY <1>5, <1>6 DEF Within

LEMMA ProofsCoverStep == WalkInv /\ ProofsCover /\ [CallNext]_callVars => ProofsCover'
<1> SUFFICES ASSUME WalkInv, ProofsCover, [CallNext]_callVars,
                    NEW S, Understood(client', contract', S)
             PROVE  Within(S)'
  BY DEF ProofsCover
<1>0. client' = client /\ contract' = contract
  BY DEF CallNext, callVars, CompareCall, Begin, Descend, Return
<1>1. Understood(client, contract, S) /\ Within(S)
  BY <1>0 DEF ProofsCover
<1>2. IsSpec(client) /\ IsSpec(contract) /\ stack \in Seq(Frame) /\ calls \subseteq DOMAIN client.fns
  BY DEF WalkInv, CallTypeOK, Frame
<1>3. CASE CompareCall
  <2>1. PICK f \in calls :
           /\ flows' = {[fn |-> f, flow |-> v] : v \in CallFlows(client, contract, f)}
           /\ breaks' = breaks \cup (IF CallClashes(client, contract, f) THEN {[fn |-> f, at |-> {}]} ELSE {})
    BY <1>3 DEF CompareCall
  <2>2. ~CallClashes(client, contract, f) /\ CallFlows(client, contract, f) \subseteq S
    BY <1>1, <1>2 DEF Understood, Closed
  <2>3. breaks' = {} /\ \A t \in flows' : t.flow \in S
    BY <1>1, <2>1, <2>2 DEF Within
  <2> QED
    BY <1>1, <1>3, <2>3 DEF Within, CompareCall
<1>4. CASE Begin
  <2>1. PICK t \in flows : flows' = flows \ {t} /\ Enter(t.fn, t.flow, <<>>, {})
    BY <1>4 DEF Begin
  <2>2. t.fn \in DOMAIN client.fns /\ t.flow \in Flows /\ t.flow \in S
    BY <1>1 DEF WalkInv, CallTypeOK, Within
  <2>3. <<>> \in Seq(Frame) /\ DOMAIN <<>> = {}
    OBVIOUS
  <2> QED
    BY <1>1, <1>2, <2>1, <2>2, <2>3, EnterWithin
<1>5. CASE Descend
  <2>1. stack # <<>> /\ UNCHANGED flows /\ StackInv(stack)
    BY <1>5 DEF Descend, WalkInv
  <2>2. PICK v \in Top.rest :
           IF PairOf(v) # {} /\ PairOf(v) \subseteq visiting
           THEN stack' = Taken(v) /\ UNCHANGED <<visiting, breaks, seen>>
           ELSE Enter(Top.fn, v, Taken(v), visiting)
    BY <1>5 DEF Descend, Taken
  <2>3. Len(stack) \in DOMAIN stack /\ Top \in Frame /\ Top = stack[Len(stack)]
    BY <1>2, <2>1, PopLemma, Elements DEF Top
  <2>4. v \in S /\ v \in Flows /\ Top.fn \in DOMAIN client.fns
    BY <1>1, <2>3 DEF Within, Frame
  <2>5. /\ Taken(v) \in Seq(Frame)
        /\ DOMAIN Taken(v) = DOMAIN stack
        /\ \A i \in DOMAIN stack : Taken(v)[i].rest \subseteq stack[i].rest
    BY <1>2, <2>1, TakenLemma
  <2>6. \A i \in DOMAIN Taken(v) : Taken(v)[i].rest \subseteq S
    BY <1>1, <2>5 DEF Within
  <2>7. CASE PairOf(v) # {} /\ PairOf(v) \subseteq visiting
    BY <1>1, <2>1, <2>2, <2>6, <2>7 DEF Within
  <2>8. CASE ~(PairOf(v) # {} /\ PairOf(v) \subseteq visiting)
    <3>1. Enter(Top.fn, v, Taken(v), visiting)
      BY <2>2, <2>8
    <3> QED
      BY <1>1, <1>2, <2>1, <2>4, <2>5, <2>6, <3>1, EnterWithin
  <2> QED
    BY <2>7, <2>8
<1>6. CASE Return
  <2>1. /\ DOMAIN stack' = DOMAIN stack \ {Len(stack)}
        /\ \A i \in DOMAIN stack' : stack'[i] = stack[i]
    BY <1>2, <1>6, PopLemma DEF Return, Below
  <2> QED
    BY <1>1, <1>6, <2>1 DEF Within, Return
<1>7. CASE UNCHANGED callVars
  BY <1>1, <1>7 DEF Within, callVars
<1> QED
  BY <1>3, <1>4, <1>5, <1>6, <1>7 DEF CallNext

\* For every two builds: with a break, no set of flows whatever shows the calls
\* to be understood.  Together with NoBreakIsMissed, the walk decides exactly
\* whether there is one.  (call_abi.rs: check_value_flow.)
THEOREM BreakRefutes == CallSpec => []NoProofWithBreak
<1>1. CallInit => ProofsCover
  <2> SUFFICES ASSUME CallInit, NEW S PROVE Within(S)
    BY DEF ProofsCover
  <2>1. DOMAIN stack = {}
    BY DEF CallInit
  <2> QED
    BY <2>1 DEF CallInit, Within
<1>2. ProofsCover => NoProofWithBreak
  BY DEF ProofsCover, Within, NoProofWithBreak
<1> QED
  BY <1>1, <1>2, WalkInvInit, WalkInvStep, ProofsCoverStep, PTL DEF CallSpec

\* In particular the flows that can be reached do not: with a break the calls
\* do not agree.  (call_abi.rs: check_value_flow.)
THEOREM NoBreakIsInvented == CallSpec => []NoBreakInvented
<1>1. NoProofWithBreak => NoBreakInvented
  BY DEF NoProofWithBreak, NoBreakInvented, CallsAgree
<1> QED
  BY <1>1, BreakRefutes, PTL
=============================================================================
