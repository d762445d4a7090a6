--------------------------- MODULE PairRunsProofs ---------------------------
(***************************************************************************)
(* Of any number of processes that share a lineage store, whatever is      *)
(* edited, fails or is killed between: the store keeps its rules, a save   *)
(* keeps what its run had read, a candidate judged safe decodes the data   *)
(* of every live version, and a watcher that waits has judged what is      *)
(* there.                                                                  *)
(***************************************************************************)
EXTENDS PairRuns, SequenceTheorems, TLAPS

-----------------------------------------------------------------------------
(* Types                                                                   *)

VersionIds == {a.record : a \in Args} \ {NoId}
Caps == {NoCap} \cup {a.cap : a \in Args}
Stored == Builds \cup Damaged
Versions == [id : VersionIds, order : Nat, status : {"live", "retired"}, build : Stored]
Stores == [records : Seq(Versions), cap : Caps, before : VersionIds \cup {NoId}, allowRetired : BOOLEAN]
Notes == [id : VersionIds, build : Stored, live : BOOLEAN]

\* Where a cycle has read the candidate, and where it has read the baseline too.
HasCandidate == {"ledger", "compare", "record", "render", "register"}
HasBoth == {"record", "render", "register"}
Active == {"candidate"} \cup HasCandidate \cup {"waiting", "reappear"}
Verdicts == {"none", "safe", "unsafe", "error"}

Runs == [pc : Active \cup {"idle", "done"}, args : Args \cup {NoArgs}, cycle : Nat,
         read : [Sides -> Builds \cup {Missing}], store : Stores, history : Seq(Notes),
         verdict : Verdicts]

PairTypes ==
  /\ input \in [Sides -> Builds \cup {Missing}]
  /\ file \in [kind : {"absent", "store", "corrupt"}, store : Stores]
  /\ run \in [Procs -> Runs]
  /\ watched \in [Procs -> SUBSET Sides]
  /\ pending \in [Procs -> BOOLEAN] /\ missed \in [Procs -> BOOLEAN]
  /\ history \in Seq(Notes)
  /\ runs \in Nat /\ edits \in Nat /\ troubles \in Nat

\* What a process in the middle of a cycle knows of itself.
RunShape(r) ==
  /\ r.pc \in Active => r.args \in Args
  /\ r.pc \in HasCandidate => r.read["new"] \in Builds
  /\ r.pc = "record" => r.args.record # NoId
  /\ r.pc \in {"register", "waiting", "reappear"} => r.args.watch

PairShape == \A p \in Procs : RunShape(run[p])

-----------------------------------------------------------------------------
(* The operations on a store                                               *)

\* The store is a store, whatever is read or edited.
LEMMA NewStoreType == NewStore \in Stores /\ Integrity(NewStore)
BY EmptySeq DEF NewStore, Stores, Caps, Integrity

\* The next order is above every order of a store that keeps its rules.
LEMMA NextOrderAbove ==
  ASSUME NEW s \in Stores, Integrity(s)
  PROVE  /\ NextOrder(s) \in Nat /\ NextOrder(s) >= 1
         /\ \A i \in DOMAIN s.records : s.records[i].order < NextOrder(s)
<1> DEFINE rs == s.records
           orders == {rs[i].order : i \in DOMAIN rs}
<1>1. rs \in Seq(Versions) /\ Len(rs) \in Nat /\ DOMAIN rs = 1..Len(rs)
  BY LenProperties DEF Stores
<1>2. \A i \in DOMAIN rs : rs[i].order \in Nat
  <2>1. \A i \in DOMAIN rs : rs[i] \in Versions
    BY <1>1, ElementOfSeq
  <2> QED BY <2>1 DEF Versions
<1>3. CASE orders = {}
  <2>1. DOMAIN rs = {}
    BY <1>3
  <2>2. NextOrder(s) = 1
    BY <1>3 DEF NextOrder
  <2> QED BY <2>1, <2>2
<1>4. CASE orders # {}
  <2>1. Len(rs) \in DOMAIN rs
    BY <1>1, <1>4
  <2>2. \A k \in orders : k <= rs[Len(rs)].order
    <3> SUFFICES ASSUME NEW i \in DOMAIN rs PROVE rs[i].order <= rs[Len(rs)].order
      OBVIOUS
    <3>1. i < Len(rs) => rs[i].order < rs[Len(rs)].order
      BY <2>1 DEF Integrity
    <3> QED BY <3>1, <2>1, <1>1, <1>2
  <2>3. \E m \in orders : \A k \in orders : k <= m
    BY <2>1, <2>2
  <2> DEFINE top == CHOOSE m \in orders : \A k \in orders : k <= m
  <2>4. top \in orders /\ \A k \in orders : k <= top
    BY <2>3
  <2>5. NextOrder(s) = 1 + top
    BY <1>4 DEF NextOrder
  <2>6. top \in Nat
    BY <2>4, <1>2
  <2>7. \A i \in DOMAIN rs : rs[i].order <= top /\ rs[i].order \in Nat
    BY <2>4, <1>2
  <2> HIDE DEF top
  <2> QED BY <2>5, <2>6, <2>7
<1> QED BY <1>3, <1>4

\* A version is recorded (record_version): the ids of the store stay.
LEMMA RecordVersionType ==
  ASSUME NEW s \in Stores, Integrity(s), NEW id \in VersionIds, NEW b \in Builds
  PROVE  /\ RecordVersion(s, id, b) \in Stores
         /\ id \in Ids(s) => Len(RecordVersion(s, id, b).records) = Len(s.records)
         /\ id \notin Ids(s) =>
              RecordVersion(s, id, b) =
                [s EXCEPT !.records =
                   Append(@, [id |-> id, order |-> NextOrder(s), status |-> "live", build |-> b])]
<1> DEFINE rs == s.records
           Record0(order) == [id |-> id, order |-> order, status |-> "live", build |-> b]
           replaced == [i \in DOMAIN rs |-> IF rs[i].id = id THEN Record0(0) ELSE rs[i]]
<1>1. rs \in Seq(Versions) /\ Len(rs) \in Nat /\ DOMAIN rs = 1..Len(rs)
  BY LenProperties DEF Stores
<1>2. \A i \in DOMAIN rs : rs[i] \in Versions
  BY <1>1, ElementOfSeq
<1>3. Record0(0) \in Versions /\ Record0(NextOrder(s)) \in Versions
  BY NextOrderAbove DEF Versions, Stored
<1> HIDE DEF Record0
<1>4. replaced \in Seq(Versions) /\ Len(replaced) = Len(rs)
  <2>1. replaced \in [1..Len(rs) -> Versions]
    BY <1>1, <1>2, <1>3
  <2> QED BY <2>1, <1>1
<1>5. Append(rs, Record0(NextOrder(s))) \in Seq(Versions)
  BY <1>1, <1>3, AppendProperties
<1>6. CASE id \in Ids(s)
  <2>1. RecordVersion(s, id, b) = [s EXCEPT !.records = replaced]
    BY <1>6 DEF RecordVersion, Record0
  <2> HIDE DEF replaced
  <2> QED BY <2>1, <1>4, <1>6 DEF Stores
<1>7. CASE id \notin Ids(s)
  <2>1. RecordVersion(s, id, b) = [s EXCEPT !.records = Append(@, Record0(NextOrder(s)))]
    BY <1>7 DEF RecordVersion, Record0
  <2> QED BY <2>1, <1>5, <1>7 DEF Stores, Record0
<1> QED BY <1>6, <1>7

\* A new id keeps the rules; a known one breaks them, as its order becomes 0.
LEMMA FreshKeepsRules ==
  ASSUME NEW s \in Stores, Integrity(s), NEW id \in VersionIds, NEW b \in Builds
  PROVE  Integrity(RecordVersion(s, id, b)) <=> id \notin Ids(s)
<1> DEFINE rs == s.records
           new == RecordVersion(s, id, b).records
<1>1. rs \in Seq(Versions) /\ Len(rs) \in Nat /\ DOMAIN rs = 1..Len(rs)
  BY LenProperties DEF Stores
<1>2. CASE id \in Ids(s)
  <2>1. PICK i \in DOMAIN rs : rs[i].id = id
    BY <1>2 DEF Ids
  <2>2. i \in DOMAIN new /\ new[i].order = 0
    BY <2>1, <1>2, <1>1 DEF RecordVersion, Stores
  <2> QED BY <2>2, <1>2 DEF Integrity
<1>3. CASE id \notin Ids(s)
  <2> DEFINE record == [id |-> id, order |-> NextOrder(s), status |-> "live", build |-> b]
  <2>1. new = Append(rs, record)
    BY <1>3, RecordVersionType DEF Stores
  <2>2. record \in Versions /\ record.id = id /\ record.order = NextOrder(s)
    BY NextOrderAbove DEF Versions, Stored
  <2> HIDE DEF record, new
  <2>3. /\ Len(new) = Len(rs) + 1 /\ DOMAIN new = 1..(Len(rs) + 1)
        /\ \A i \in 1..Len(rs) : new[i] = rs[i]
        /\ new[Len(rs) + 1] = record
    BY <2>1, <2>2, <1>1, AppendProperties, LenProperties
  <2>4. \A i \in DOMAIN rs : rs[i].id # id /\ rs[i].id # NoId /\ rs[i].order >= 1
    BY <1>3 DEF Ids, Integrity
  <2>5. \A i \in DOMAIN rs : rs[i].order < NextOrder(s)
    BY NextOrderAbove
  <2>6. \A i \in DOMAIN new : new[i].id # NoId /\ new[i].order >= 1
    <3>1. record.id # NoId /\ record.order >= 1
      BY <2>2, NextOrderAbove DEF VersionIds
    <3>2. \A i \in DOMAIN new : i \in DOMAIN rs \/ i = Len(rs) + 1
      BY <2>3, <1>1
    <3>3. \A i \in DOMAIN rs : new[i] = rs[i]
      BY <2>3, <1>1, Zenon
    <3> QED BY <2>3, <2>4, <3>1, <3>2, <3>3, Zenon
  <2>7. ASSUME NEW i \in DOMAIN new, NEW j \in DOMAIN new, i < j
        PROVE  new[i].id # new[j].id /\ new[i].order < new[j].order
    <3>1. i \in DOMAIN rs /\ new[i] = rs[i]
      BY <2>3, <2>7, <1>1
    <3>2. CASE j = Len(rs) + 1
      BY <3>1, <3>2, <2>2, <2>3, <2>4, <2>5
    <3>3. CASE j # Len(rs) + 1
      <4>1. j \in DOMAIN rs /\ new[j] = rs[j]
        BY <2>3, <3>3, <1>1
      <4> QED BY <3>1, <4>1, <2>7 DEF Integrity
    <3> QED BY <3>2, <3>3
  <2>8. RecordVersion(s, id, b).records = new
    BY DEF new
  <2> QED BY <2>6, <2>7, <2>8, <1>3 DEF Integrity
<1> QED BY <1>2, <1>3

\* A version is retired, a cap is set (retire_version): only the status changes.
LEMMA RetireType ==
  ASSUME NEW s \in Stores, NEW a \in Args
  PROVE  /\ Retired(Capped(s, a), a) \in Stores
         /\ Len(Retired(Capped(s, a), a).records) = Len(s.records)
         /\ \A i \in DOMAIN s.records : Retired(Capped(s, a), a).records[i].id = s.records[i].id
         /\ Integrity(s) => Integrity(Retired(Capped(s, a), a))
<1> DEFINE rs == s.records
           new == Retired(Capped(s, a), a)
           retired == [i \in DOMAIN rs |-> IF rs[i].id = a.retire THEN [rs[i] EXCEPT !.status = "retired"]
                                           ELSE rs[i]]
<1>1. rs \in Seq(Versions) /\ Len(rs) \in Nat /\ DOMAIN rs = 1..Len(rs)
  BY LenProperties DEF Stores
<1>2. \A i \in DOMAIN rs : rs[i] \in Versions
  BY <1>1, ElementOfSeq
<1>3. Capped(s, a) \in Stores /\ Capped(s, a).records = rs
  BY DEF Capped, Stores, Caps
<1>4. \A i \in DOMAIN rs : /\ retired[i] \in Versions /\ retired[i].id = rs[i].id
                            /\ retired[i].order = rs[i].order
  BY <1>2 DEF Versions
<1>5. retired \in Seq(Versions) /\ Len(retired) = Len(rs) /\ DOMAIN retired = DOMAIN rs
  <2>1. retired \in [1..Len(rs) -> Versions]
    BY <1>1, <1>4
  <2> QED BY <2>1, <1>1
<1> HIDE DEF retired
<1>6. new \in Stores /\ (new.records = rs \/ new.records = retired)
  <2>1. CASE a.retire = NoId
    BY <2>1, <1>3 DEF Retired
  <2>2. CASE a.retire # NoId
    <3>1. new = [Capped(s, a) EXCEPT !.records = retired]
      BY <2>2, <1>3 DEF Retired, RetireVersion, retired
    <3> QED BY <3>1, <1>3, <1>5 DEF Stores
  <2> QED BY <2>1, <2>2
<1> HIDE DEF new
<1>7. /\ DOMAIN new.records = DOMAIN rs /\ Len(new.records) = Len(rs)
      /\ \A i \in DOMAIN rs : new.records[i].id = rs[i].id /\ new.records[i].order = rs[i].order
  BY <1>4, <1>5, <1>6
<1>8. Integrity(s) => Integrity(new)
  BY <1>7 DEF Integrity
<1> QED BY <1>6, <1>7, <1>8 DEF new

\* An entry is taken out: what is left keeps its order.
LEMMA WithoutProperties ==
  ASSUME NEW S, NEW s \in Seq(S), NEW i \in DOMAIN s
  PROVE  /\ Without(s, i) \in Seq(S)
         /\ Len(Without(s, i)) = Len(s) - 1
         /\ DOMAIN Without(s, i) = 1..(Len(s) - 1)
         /\ \A j \in 1..(Len(s) - 1) :
              Without(s, i)[j] = IF j < i THEN s[j] ELSE s[j + 1]
<1>1. Len(s) \in Nat /\ DOMAIN s = 1..Len(s) /\ Len(s) - 1 \in Nat
  BY LenProperties
<1>2. \A j \in 1..(Len(s) - 1) : s[j] \in S /\ s[j + 1] \in S
  BY <1>1, ElementOfSeq
<1>3. Without(s, i) \in [1..(Len(s) - 1) -> S]
  BY <1>2 DEF Without
<1> QED BY <1>1, <1>3 DEF Without

\* The list w, over S, is s without its element i.
LosesOne(w, s, i, S) ==
  /\ w \in Seq(S) /\ Len(w) = Len(s) - 1
  /\ \A j \in 1..(Len(s) - 1) : w[j] = IF j < i THEN s[j] ELSE s[j + 1]

LEMMA WithoutLoses ==
  ASSUME NEW S, NEW s \in Seq(S), NEW i \in DOMAIN s
  PROVE  LosesOne(Without(s, i), s, i, S)
BY WithoutProperties DEF LosesOne

LEMMA WithoutKeepsRules ==
  ASSUME NEW s \in Stores, Integrity(s), NEW i \in DOMAIN s.records
  PROVE  Integrity([s EXCEPT !.records = Without(@, i)])
<1> DEFINE rs == s.records
           new == Without(rs, i)
           At(j) == IF j < i THEN j ELSE j + 1
<1>1. rs \in Seq(Versions) /\ Len(rs) \in Nat /\ DOMAIN rs = 1..Len(rs)
  BY LenProperties DEF Stores
<1>2. DOMAIN new = 1..(Len(rs) - 1) /\ \A j \in DOMAIN new : new[j] = rs[At(j)]
  BY <1>1, WithoutProperties
<1>3. \A j \in DOMAIN new : At(j) \in DOMAIN rs
  BY <1>1, <1>2
<1>4. \A j \in DOMAIN new : \A k \in DOMAIN new : j < k => At(j) < At(k)
  BY <1>1, <1>2
<1>5. [s EXCEPT !.records = Without(@, i)].records = new
  BY DEF Stores
<1> HIDE DEF new, At
<1>6. \A j \in DOMAIN new : new[j].id # NoId /\ new[j].order >= 1
  BY <1>2, <1>3 DEF Integrity
<1>7. \A j \in DOMAIN new : \A k \in DOMAIN new :
        j < k => new[j].id # new[k].id /\ new[j].order < new[k].order
  BY <1>2, <1>3, <1>4 DEF Integrity
<1> QED BY <1>5, <1>6, <1>7 DEF Integrity

-----------------------------------------------------------------------------
(* Every variable keeps its type                                           *)

\* One process changes.
LEMMA OneChanges ==
  ASSUME PairTypes, PairShape, NEW p \in Procs, NEW r \in Runs, RunShape(r),
         run' = [run EXCEPT ![p] = r]
  PROVE  /\ run' \in [Procs -> Runs] /\ PairShape'
         /\ run'[p] = r /\ \A q \in Procs \ {p} : run'[q] = run[q]
BY DEF PairTypes, PairShape

LEMMA IdleType == Idle \in Runs /\ RunShape(Idle)
<1>1. NewStore \in Stores /\ << >> \in Seq(Notes) /\ "none" \in Verdicts
  BY NewStoreType, EmptySeq DEF Verdicts
<1>2. Idle \in Runs
  BY <1>1 DEF Idle, Runs
<1>3. RunShape(Idle)
  BY DEF Idle, RunShape, Active, HasCandidate
<1> QED BY <1>2, <1>3

\* What a process is when its cycle has ended with a verdict or an error.
Ended(p, v) ==
  /\ run'[p].pc \in {"done", "register", "waiting"}
  /\ run'[p].pc # "done" =>
       /\ run'[p].args = run[p].args /\ run'[p].read = run[p].read /\ run'[p].verdict = v
       /\ run'[p].store = run[p].store /\ run'[p].history = run[p].history
  /\ run'[p].pc = "done" => run'[p].args = NoArgs
  /\ run'[p].pc = "register" => v # "error"

\* A cycle ends (run_single's return, or the error that run_watch_mode prints).
LEMMA EndType ==
  ASSUME PairTypes, PairShape, NEW p \in Procs, NEW v \in Verdicts, End(p, v),
         run[p].pc \in HasCandidate \ {"register"} \/ (run[p].pc = "candidate" /\ v = "error")
  PROVE  /\ run' \in [Procs -> Runs] /\ PairShape'
         /\ \A q \in Procs \ {p} : run'[q] = run[q]
         /\ Ended(p, v)
<1> DEFINE r == IF After(p, v) = "done" THEN [Idle EXCEPT !.pc = "done", !.verdict = v]
                ELSE [run[p] EXCEPT !.pc = After(p, v), !.verdict = v]
<1>1. run[p] \in Runs /\ RunShape(run[p])
  BY DEF PairTypes, PairShape
<1>2. run[p].args \in Args /\ run[p].args.watch \in BOOLEAN
  BY <1>1, PairAssumption DEF RunShape, Active, HasCandidate
<1>3. /\ After(p, v) \in {"done", "register", "waiting"}
      /\ After(p, v) # "done" => run[p].args.watch
      /\ After(p, v) = "register" => v # "error"
  BY <1>2 DEF After
<1>4. run' = [run EXCEPT ![p] = r]
  BY DEF End, PairTypes
<1>5. Idle \in Runs
  BY IdleType
<1>6. CASE After(p, v) = "done"
  <2>1. r = [Idle EXCEPT !.pc = "done", !.verdict = v]
    BY <1>6
  <2>2. r \in Runs /\ r.pc = "done" /\ r.args = NoArgs
    BY <2>1, <1>5 DEF Runs, Idle
  <2>3. RunShape(r)
    BY <2>2 DEF RunShape, Active, HasCandidate
  <2> HIDE DEF r
  <2> QED BY <1>4, <2>2, <2>3, OneChanges DEF Ended
<1>7. CASE After(p, v) # "done"
  <2>1. r = [run[p] EXCEPT !.pc = After(p, v), !.verdict = v]
    BY <1>7
  <2>2. /\ r \in Runs /\ r.pc = After(p, v) /\ r.args = run[p].args /\ r.read = run[p].read
        /\ r.verdict = v /\ r.store = run[p].store /\ r.history = run[p].history
    BY <2>1, <1>1, <1>3 DEF Runs, Active, HasCandidate
  <2>3. r.pc \in {"register", "waiting"} /\ r.args.watch
    BY <1>3, <1>7, <2>2
  <2>4. r.pc = "register" => r.read["new"] \in Builds
    BY <1>1, <1>3, <2>2 DEF RunShape, HasCandidate
  <2>5. RunShape(r)
    BY <2>2, <2>3, <2>4, <1>2 DEF RunShape, Active, HasCandidate
  <2> HIDE DEF r
  <2> QED BY <1>4, <1>3, <2>2, <2>3, <2>5, OneChanges DEF Ended
<1> QED BY <1>6, <1>7

\* What a step of a process leaves of types and shapes.
StepType(p) ==
  /\ PairTypes' /\ PairShape'
  /\ \A q \in Procs \ {p} : run'[q] = run[q]

LEMMA StartType ==
  ASSUME PairTypes, PairShape, NEW p \in Procs, Start(p)
  PROVE  StepType(p)
<1>1. PICK a \in Args :
        run' = [run EXCEPT ![p] = [Idle EXCEPT !.pc = "candidate", !.args = a, !.cycle = 1]]
  BY DEF Start
<1> DEFINE r == [Idle EXCEPT !.pc = "candidate", !.args = a, !.cycle = 1]
<1>2. /\ r \in Runs /\ r.pc = "candidate" /\ r.args = a
  BY IdleType DEF Runs, Active
<1>3. RunShape(r)
  BY <1>2 DEF RunShape, Active, HasCandidate
<1>4. run' = [run EXCEPT ![p] = r]
  BY <1>1
<1> HIDE DEF r
<1>5. run' \in [Procs -> Runs] /\ PairShape' /\ \A q \in Procs \ {p} : run'[q] = run[q]
  BY <1>2, <1>3, <1>4, OneChanges
<1>6. runs' \in Nat /\ missed' \in [Procs -> BOOLEAN]
  BY DEF Start, PairTypes
<1> QED BY <1>5, <1>6 DEF Start, StepType, PairTypes, Outside, Ledger

\* A step that changes nothing but the process, and perhaps counts a trouble.
LEMMA RunOnly ==
  ASSUME PairTypes, run' \in [Procs -> Runs], UNCHANGED <<Outside, Watching, runs>>,
         file' \in [kind : {"absent", "store", "corrupt"}, store : Stores],
         history' \in Seq(Notes), troubles' \in Nat
  PROVE  PairTypes'
BY DEF PairTypes, Outside, Watching

LEMMA LoadCandidateType ==
  ASSUME PairTypes, PairShape, NEW p \in Procs, LoadCandidate(p)
  PROVE  /\ StepType(p)
         /\ \/ Ended(p, "error")
            \/ /\ run'[p].pc = "ledger" /\ run'[p].args = run[p].args
               /\ run'[p].read["new"] = input["new"]
<1>1. CASE input["new"] = Missing
  <2>1. End(p, "error") /\ run[p].pc = "candidate"
    BY <1>1 DEF LoadCandidate
  <2>2. run' \in [Procs -> Runs] /\ PairShape' /\ Ended(p, "error")
       /\ \A q \in Procs \ {p} : run'[q] = run[q]
    BY <2>1, EndType DEF Verdicts
  <2> QED BY <2>2, RunOnly DEF StepType, LoadCandidate, Ledger, PairTypes
<1>2. CASE input["new"] # Missing
  <2> DEFINE r == [run[p] EXCEPT !.pc = "ledger", !.read["new"] = input["new"]]
  <2>1. run[p] \in Runs /\ RunShape(run[p]) /\ run[p].pc = "candidate"
    BY DEF PairTypes, PairShape, LoadCandidate
  <2>2. input["new"] \in Builds
    BY <1>2 DEF PairTypes, Sides
  <2>3. /\ r \in Runs /\ r.pc = "ledger" /\ r.args = run[p].args /\ r.read["new"] = input["new"]
    BY <2>1, <2>2 DEF Runs, Active, HasCandidate, Sides
  <2>4. RunShape(r)
    BY <2>1, <2>2, <2>3 DEF RunShape, Active, HasCandidate
  <2>5. run' = [run EXCEPT ![p] = r]
    BY <1>2 DEF LoadCandidate, PairTypes
  <2> HIDE DEF r
  <2>6. run' \in [Procs -> Runs] /\ PairShape' /\ run'[p] = r
       /\ \A q \in Procs \ {p} : run'[q] = run[q]
    BY <2>3, <2>4, <2>5, OneChanges
  <2> QED BY <2>3, <2>6, RunOnly DEF StepType, LoadCandidate, Ledger, PairTypes
<1> QED BY <1>1, <1>2

LEMMA OpenStoreType ==
  ASSUME PairTypes, PairShape, NEW p \in Procs, OpenStore(p)
  PROVE  /\ StepType(p)
         /\ \/ Ended(p, "error")
            \/ /\ run'[p].pc = "compare" /\ run'[p].args = run[p].args /\ run'[p].read = run[p].read
               /\ run'[p].store = Retired(Capped(file.store, run[p].args), run[p].args)
               /\ run'[p].history = history /\ ~Refused
<1> DEFINE a == run[p].args
           refused == Refused \/ (a.retire # NoId /\ a.retire \notin Ids(Loaded))
<1>1. CASE refused
  <2>1. End(p, "error") /\ run[p].pc = "ledger"
    BY <1>1 DEF OpenStore
  <2>2. run' \in [Procs -> Runs] /\ PairShape' /\ Ended(p, "error")
       /\ \A q \in Procs \ {p} : run'[q] = run[q]
    BY <2>1, EndType DEF Verdicts, HasCandidate
  <2> QED BY <2>2, RunOnly DEF StepType, OpenStore, Ledger, PairTypes
<1>2. CASE ~refused
  <2> DEFINE s == Retired(Capped(Loaded, a), a)
             r == [run[p] EXCEPT !.pc = "compare", !.history = history, !.store = s]
  <2>1. run[p] \in Runs /\ RunShape(run[p]) /\ run[p].pc = "ledger"
    BY DEF PairTypes, PairShape, OpenStore
  <2>2. s \in Stores
    BY <2>1, RetireType DEF Loaded, PairTypes, RunShape, Active, HasCandidate
  <2>3. run' = [run EXCEPT ![p] = r]
    BY <1>2 DEF OpenStore, PairTypes
  <2> HIDE DEF s
  <2>4. /\ r \in Runs /\ r.pc = "compare" /\ r.args = a /\ r.read = run[p].read
        /\ r.store = s /\ r.history = history
    BY <2>1, <2>2 DEF Runs, Active, HasCandidate, PairTypes
  <2>5. RunShape(r)
    BY <2>1, <2>4 DEF RunShape, Active, HasCandidate
  <2> HIDE DEF r
  <2>6. run' \in [Procs -> Runs] /\ PairShape' /\ run'[p] = r
       /\ \A q \in Procs \ {p} : run'[q] = run[q]
    BY <2>3, <2>4, <2>5, OneChanges
  <2> QED BY <1>2, <2>4, <2>6, RunOnly DEF s, Loaded, StepType, OpenStore, Ledger, PairTypes
<1> QED BY <1>1, <1>2

LEMMA CompareType ==
  ASSUME PairTypes, PairShape, NEW p \in Procs, Compare(p)
  PROVE  /\ StepType(p)
         /\ \/ Ended(p, "error")
            \/ /\ run'[p].pc \in {"render", "record"} /\ run'[p].args = run[p].args
               /\ run'[p].store = run[p].store /\ run'[p].history = run[p].history
               /\ run'[p].read["new"] = run[p].read["new"] /\ run'[p].read["old"] = input["old"]
<1>1. CASE CannotJudge(p)
  <2>1. End(p, "error") /\ run[p].pc = "compare"
    BY <1>1 DEF Compare
  <2>2. run' \in [Procs -> Runs] /\ PairShape' /\ Ended(p, "error")
       /\ \A q \in Procs \ {p} : run'[q] = run[q]
    BY <2>1, EndType DEF Verdicts, HasCandidate
  <2> QED BY <2>2, RunOnly DEF StepType, Compare, Ledger, PairTypes
<1>2. CASE ~CannotJudge(p)
  <2>1. run[p] \in Runs /\ RunShape(run[p]) /\ run[p].pc = "compare"
    BY DEF PairTypes, PairShape, Compare
  <2>2. /\ Judged(p, input["old"]) \in Verdicts
        /\ input["old"] \in Builds \cup {Missing}
    BY DEF Judged, Verdicts, PairTypes, Sides
  <2>3. PICK pc \in {"render", "record"}, v \in Verdicts, b \in Builds \cup {Missing} :
          /\ b = input["old"]
          /\ pc = "record" => run[p].args.record # NoId
          /\ run' = [run EXCEPT ![p] = [@ EXCEPT !.pc = pc, !.read["old"] = b, !.verdict = v]]
    <3>1. (IF run[p].args.record = NoId THEN "render" ELSE "record") \in {"render", "record"}
      OBVIOUS
    <3> QED BY <3>1, <2>2, <1>2 DEF Compare
  <2> DEFINE r == [run[p] EXCEPT !.pc = pc, !.read["old"] = b, !.verdict = v]
  <2>4. run' = [run EXCEPT ![p] = r]
    BY <2>3 DEF PairTypes
  <2>5. /\ r \in Runs /\ r.pc = pc /\ r.args = run[p].args /\ r.read["new"] = run[p].read["new"]
        /\ r.store = run[p].store /\ r.history = run[p].history /\ r.read["old"] = b
    BY <2>1 DEF Runs, Active, HasCandidate, Sides
  <2>6. RunShape(r)
    BY <2>1, <2>3, <2>5 DEF RunShape, Active, HasCandidate
  <2> HIDE DEF r
  <2>7. run' \in [Procs -> Runs] /\ PairShape' /\ run'[p] = r
       /\ \A q \in Procs \ {p} : run'[q] = run[q]
    BY <2>4, <2>5, <2>6, OneChanges
  <2> QED BY <2>3, <2>5, <2>7, RunOnly DEF StepType, Compare, Ledger, PairTypes
<1> QED BY <1>1, <1>2

\* What is noted of a save.
LEMMA NotedType ==
  ASSUME PairTypes, PairShape, NEW p \in Procs, run[p].pc = "record"
  PROVE  /\ Noted(p) \in Seq(Notes)
         /\ Len(Noted(p)) = Len(run[p].history) + 1
         /\ \A i \in 1..Len(run[p].history) : Noted(p)[i].id = run[p].history[i].id
         /\ Noted(p)[Len(run[p].history) + 1].id = run[p].args.record
<1> DEFINE r == run[p]
           h == r.history
           seen == [i \in DOMAIN h |-> IF h[i].id = r.args.retire THEN [h[i] EXCEPT !.live = FALSE]
                                       ELSE h[i]]
           note == [id |-> r.args.record, build |-> r.read["new"], live |-> TRUE]
<1>1. h \in Seq(Notes) /\ r.args \in Args /\ r.args.record # NoId /\ r.read["new"] \in Builds
  BY DEF PairTypes, PairShape, Runs, RunShape, Active, HasCandidate
<1>2. Len(h) \in Nat /\ DOMAIN h = 1..Len(h)
  BY <1>1, LenProperties
<1>3. \A i \in DOMAIN h : h[i] \in Notes
  BY <1>1, <1>2, ElementOfSeq
<1>4. note \in Notes /\ note.id = r.args.record
  BY <1>1 DEF Notes, VersionIds, Stored
<1>5. \A i \in DOMAIN h : seen[i] \in Notes /\ seen[i].id = h[i].id
  BY <1>3 DEF Notes
<1>6. seen \in Seq(Notes) /\ Len(seen) = Len(h)
  <2>1. seen \in [1..Len(h) -> Notes]
    BY <1>2, <1>5
  <2> QED BY <2>1, <1>2
<1>7. Noted(p) = Append(seen, note)
  BY DEF Noted
<1> HIDE DEF seen, note
<1>8. /\ Append(seen, note) \in Seq(Notes) /\ Len(Append(seen, note)) = Len(h) + 1
      /\ \A i \in 1..Len(h) : Append(seen, note)[i] = seen[i]
      /\ Append(seen, note)[Len(h) + 1] = note
  BY <1>4, <1>6, AppendProperties
<1> QED BY <1>2, <1>4, <1>5, <1>7, <1>8

LEMMA RecordType ==
  ASSUME PairTypes, PairShape, NEW p \in Procs, Record(p), Integrity(run[p].store)
  PROVE  /\ StepType(p)
         /\ \/ Ended(p, "error") /\ UNCHANGED Ledger
            \/ /\ run'[p].pc = "render" /\ run'[p].args = run[p].args /\ run'[p].read = run[p].read
               /\ LET store == RecordVersion(run[p].store, run[p].args.record, run[p].read["new"])
                  IN  Integrity(store) /\ file' = [kind |-> "store", store |-> store]
               /\ history' = Noted(p)
<1> DEFINE store == RecordVersion(run[p].store, run[p].args.record, run[p].read["new"])
<1>1. run[p] \in Runs /\ RunShape(run[p]) /\ run[p].pc = "record"
  BY DEF PairTypes, PairShape, Record
<1>2. /\ run[p].store \in Stores /\ run[p].args.record \in VersionIds
      /\ run[p].read["new"] \in Builds
  BY <1>1 DEF Runs, RunShape, Active, HasCandidate, VersionIds
<1>3. store \in Stores
  BY <1>2, RecordVersionType
<1>4. CASE End(p, "error") /\ UNCHANGED Ledger /\ troubles' \in Nat
  <2>1. run' \in [Procs -> Runs] /\ PairShape' /\ Ended(p, "error")
       /\ \A q \in Procs \ {p} : run'[q] = run[q]
    BY <1>1, <1>4, EndType DEF Verdicts, HasCandidate
  <2> QED BY <2>1, <1>4, RunOnly DEF StepType, Record, Ledger, PairTypes
<1>5. CASE /\ Integrity(store)
           /\ file' = [kind |-> "store", store |-> store]
           /\ history' = Noted(p)
           /\ run' = [run EXCEPT ![p] = [@ EXCEPT !.pc = "render", !.store = store]]
           /\ UNCHANGED troubles
  <2> HIDE DEF store
  <2> DEFINE r == [run[p] EXCEPT !.pc = "render", !.store = store]
  <2>1. run' = [run EXCEPT ![p] = r]
    BY <1>5 DEF PairTypes
  <2>2. r \in Runs /\ r.pc = "render" /\ r.args = run[p].args /\ r.read = run[p].read
    BY <1>1, <1>3 DEF Runs, Active, HasCandidate
  <2>3. RunShape(r)
    BY <1>1, <2>2 DEF RunShape, Active, HasCandidate
  <2> HIDE DEF r
  <2>4. run' \in [Procs -> Runs] /\ PairShape' /\ run'[p] = r
       /\ \A q \in Procs \ {p} : run'[q] = run[q]
    BY <2>1, <2>2, <2>3, OneChanges
  <2>5. file' \in [kind : {"absent", "store", "corrupt"}, store : Stores]
    BY <1>3, <1>5
  <2>6. history' \in Seq(Notes)
    BY <1>1, <1>5, NotedType
  <2>7. StepType(p)
    BY <2>4, <2>5, <2>6, <1>5, RunOnly DEF StepType, Record, PairTypes
  <2> QED BY <2>2, <2>4, <2>7, <1>5 DEF store
<1> QED BY <1>4, <1>5 DEF Record, PairTypes

LEMMA RenderType ==
  ASSUME PairTypes, PairShape, NEW p \in Procs, Render(p)
  PROVE  /\ StepType(p) /\ UNCHANGED Ledger
         /\ Ended(p, "error") \/ Ended(p, run[p].verdict)
<1>1. run[p].pc = "render" /\ run[p].verdict \in Verdicts
  BY DEF Render, PairTypes, Runs
<1>2. PICK v \in {"error", run[p].verdict} : v \in Verdicts /\ End(p, v)
  BY <1>1 DEF Render, Verdicts
<1>3. run' \in [Procs -> Runs] /\ PairShape' /\ Ended(p, v)
     /\ \A q \in Procs \ {p} : run'[q] = run[q]
  BY <1>1, <1>2, EndType DEF HasCandidate
<1>4. troubles' \in Nat
  BY DEF Render, PairTypes
<1> QED BY <1>3, <1>4, RunOnly DEF StepType, Render, Ledger, PairTypes

\* The steps of the watch loop, and the ends of a process.
LEMMA LoopType ==
  ASSUME PairTypes, PairShape, NEW p \in Procs,
         Register(p) \/ Wake(p) \/ Cycle(p) \/ Stop(p) \/ Kill(p)
  PROVE  /\ StepType(p) /\ UNCHANGED <<Ledger, input>>
         /\ run'[p].pc \in {"waiting", "reappear", "candidate", "idle"}
         /\ run'[p].pc = "waiting" =>
              /\ Register(p) /\ run[p].pc = "register"
              /\ run'[p].args = run[p].args /\ run'[p].read = run[p].read
<1>1. run[p] \in Runs /\ RunShape(run[p])
  BY DEF PairTypes, PairShape
<1>2. CASE Register(p)
  <2> DEFINE r == [run[p] EXCEPT !.pc = "waiting"]
  <2>1. run' = [run EXCEPT ![p] = r]
    BY <1>2 DEF Register, PairTypes
  <2>2. r \in Runs /\ r.pc = "waiting" /\ r.args = run[p].args /\ r.read = run[p].read
    BY <1>1 DEF Runs, Active, HasCandidate
  <2>3. RunShape(r)
    BY <1>1, <1>2, <2>2 DEF Register, RunShape, Active, HasCandidate
  <2> HIDE DEF r
  <2>4. run' \in [Procs -> Runs] /\ PairShape' /\ run'[p] = r
       /\ \A q \in Procs \ {p} : run'[q] = run[q]
    BY <2>1, <2>2, <2>3, OneChanges
  <2>5. watched' \in [Procs -> SUBSET Sides]
    BY <1>2 DEF Register, PairTypes
  <2> QED BY <2>2, <2>4, <2>5, <1>2 DEF StepType, Register, PairTypes, Outside, Ledger
<1>3. CASE Wake(p)
  <2> DEFINE r == [run[p] EXCEPT !.pc = "reappear"]
  <2>1. run' = [run EXCEPT ![p] = r]
    BY <1>3 DEF Wake, PairTypes
  <2>2. r \in Runs /\ r.pc = "reappear" /\ r.args = run[p].args
    BY <1>1 DEF Runs, Active, HasCandidate
  <2>3. RunShape(r)
    BY <1>1, <1>3, <2>2 DEF Wake, RunShape, Active, HasCandidate
  <2> HIDE DEF r
  <2>4. run' \in [Procs -> Runs] /\ PairShape' /\ run'[p] = r
       /\ \A q \in Procs \ {p} : run'[q] = run[q]
    BY <2>1, <2>2, <2>3, OneChanges
  <2>5. pending' \in [Procs -> BOOLEAN]
    BY <1>3 DEF Wake, PairTypes
  <2> QED BY <2>2, <2>4, <2>5, <1>3 DEF StepType, Wake, PairTypes, Outside, Ledger
<1>4. CASE Cycle(p)
  <2> DEFINE r == [run[p] EXCEPT !.pc = "candidate", !.cycle = 2, !.verdict = "none"]
  <2>1. run' = [run EXCEPT ![p] = r]
    BY <1>4 DEF Cycle, PairTypes
  <2>2. r \in Runs /\ r.pc = "candidate" /\ r.args = run[p].args
    BY <1>1 DEF Runs, Active, HasCandidate, Verdicts
  <2>3. RunShape(r)
    BY <1>1, <1>4, <2>2 DEF Cycle, RunShape, Active, HasCandidate
  <2> HIDE DEF r
  <2>4. run' \in [Procs -> Runs] /\ PairShape' /\ run'[p] = r
       /\ \A q \in Procs \ {p} : run'[q] = run[q]
    BY <2>1, <2>2, <2>3, OneChanges
  <2> QED BY <2>2, <2>4, <1>4, RunOnly DEF StepType, Cycle, Ledger, Outside, PairTypes
<1>5. CASE Stop(p) \/ Kill(p)
  <2>1. run' = [run EXCEPT ![p] = Idle]
    BY <1>5 DEF Stop, Kill
  <2>2. run' \in [Procs -> Runs] /\ PairShape' /\ run'[p] = Idle
        /\ \A q \in Procs \ {p} : run'[q] = run[q]
    BY <2>1, IdleType, OneChanges
  <2>3. watched' \in [Procs -> SUBSET Sides]
    BY <1>5 DEF Stop, Kill, PairTypes
  <2>4. pending' \in [Procs -> BOOLEAN]
    BY <1>5 DEF Stop, Kill, PairTypes
  <2>5. troubles' \in Nat
    BY <1>5 DEF Stop, Kill, PairTypes
  <2>6. UNCHANGED <<Outside, Ledger, missed, runs>>
    BY <1>5 DEF Stop, Kill
  <2> QED BY <2>2, <2>3, <2>4, <2>5, <2>6 DEF StepType, Idle, PairTypes, Outside, Ledger
<1> QED BY <1>2, <1>3, <1>4, <1>5

\* The outside edits a file.
LEMMA ChangedType ==
  ASSUME PairTypes, NEW s \in Sides, NEW b \in Builds \cup {Missing}, Changed(s, b),
         watched' \in [Procs -> SUBSET Sides]
  PROVE  PairTypes'
<1>1. input' \in [Sides -> Builds \cup {Missing}] /\ edits' \in Nat
  BY DEF Changed, PairTypes
<1>2. pending' \in [Procs -> BOOLEAN]
  BY DEF Changed, PairTypes
<1>3. \A p \in Procs : Started(p) \in BOOLEAN
  BY DEF Started
<1>4. missed' \in [Procs -> BOOLEAN]
  BY <1>3 DEF Changed, PairTypes
<1> QED BY <1>1, <1>2, <1>4 DEF Changed, PairTypes, Ledger

-----------------------------------------------------------------------------
(* The store and what runs know of it                                      *)

Alike(h, rs) == Len(h) = Len(rs) /\ \A i \in 1..Len(rs) : h[i].id = rs[i].id

StoreInv ==
  /\ Integrity(file.store) /\ Alike(history, file.store.records)
  /\ \A p \in Procs : run[p].pc \in {"compare", "record"} =>
       Integrity(run[p].store) /\ Alike(run[p].history, run[p].store.records)

PairInv == PairTypes /\ PairShape /\ StoreInv

\* A step that neither writes the store nor gets to the comparison.
LEMMA StoreKept ==
  ASSUME StoreInv, NEW p \in Procs, StepType(p), UNCHANGED Ledger,
         run'[p].pc \notin {"compare", "record"}
  PROVE  StoreInv'
BY DEF StoreInv, StepType, Ledger

LEMMA OpenStoreInv ==
  ASSUME PairInv, NEW p \in Procs, OpenStore(p)
  PROVE  StoreInv'
<1>1. StepType(p) /\ UNCHANGED Ledger /\ run[p].pc = "ledger" /\ run[p] \in Runs
  BY OpenStoreType DEF PairInv, OpenStore, PairTypes
<1>2. CASE Ended(p, "error")
  BY <1>1, <1>2, StoreKept DEF PairInv, Ended
<1>3. CASE ~Ended(p, "error")
  <2> DEFINE a == run[p].args
             s == Retired(Capped(file.store, a), a)
  <2>1. run'[p].store = s /\ run'[p].history = history
    BY <1>3, OpenStoreType DEF PairInv
  <2>2. a \in Args /\ file.store \in Stores
    BY <1>1 DEF PairInv, PairTypes, PairShape, RunShape, Active, HasCandidate
  <2>3. DOMAIN file.store.records = 1..Len(file.store.records)
    BY <2>2, LenProperties DEF Stores
  <2>4. Integrity(s) /\ Len(s.records) = Len(file.store.records)
        /\ \A i \in 1..Len(file.store.records) : s.records[i].id = file.store.records[i].id
    BY <2>2, <2>3, RetireType DEF PairInv, StoreInv
  <2> HIDE DEF s
  <2>5. Alike(history, s.records)
    BY <2>4 DEF Alike, PairInv, StoreInv
  <2> QED BY <1>1, <2>1, <2>4, <2>5 DEF StoreInv, StepType, Ledger, PairInv
<1> QED BY <1>2, <1>3

LEMMA CompareInv ==
  ASSUME PairInv, NEW p \in Procs, Compare(p)
  PROVE  StoreInv'
<1>1. StepType(p) /\ UNCHANGED Ledger /\ run[p].pc = "compare"
  BY CompareType DEF PairInv, Compare
<1>2. CASE Ended(p, "error")
  BY <1>1, <1>2, StoreKept DEF PairInv, Ended
<1>3. CASE ~Ended(p, "error")
  <2>1. run'[p].store = run[p].store /\ run'[p].history = run[p].history
    BY <1>3, CompareType DEF PairInv
  <2> QED BY <1>1, <2>1 DEF StoreInv, StepType, Ledger, PairInv
<1> QED BY <1>2, <1>3

\* What a save writes: the rules are checked, and history follows the records.
LEMMA SavedAlike ==
  ASSUME PairInv, NEW p \in Procs, run[p].pc = "record",
         Integrity(RecordVersion(run[p].store, run[p].args.record, run[p].read["new"]))
  PROVE  Alike(Noted(p), RecordVersion(run[p].store, run[p].args.record, run[p].read["new"]).records)
<1> DEFINE s == run[p].store
           id == run[p].args.record
           b == run[p].read["new"]
           new == RecordVersion(s, id, b)
           h == run[p].history
<1>1. s \in Stores /\ id \in VersionIds /\ b \in Builds /\ h \in Seq(Notes)
  BY DEF PairInv, PairTypes, PairShape, Runs, RunShape, Active, HasCandidate, VersionIds
<1>2. Integrity(s) /\ Alike(h, s.records)
  BY DEF PairInv, StoreInv
<1>3. id \notin Ids(s)
  BY <1>1, <1>2, FreshKeepsRules
<1> DEFINE record == [id |-> id, order |-> NextOrder(s), status |-> "live", build |-> b]
<1>4. new = [s EXCEPT !.records = Append(@, record)]
  BY <1>1, <1>2, <1>3, RecordVersionType
<1>5. record \in Versions /\ record.id = id
  BY <1>1, <1>2, NextOrderAbove DEF Versions, Stored
<1>6. new.records = Append(s.records, record) /\ s.records \in Seq(Versions)
  BY <1>1, <1>4 DEF Stores
<1> HIDE DEF new, record
<1>7. /\ Len(new.records) = Len(s.records) + 1
      /\ \A i \in 1..Len(s.records) : new.records[i] = s.records[i]
      /\ new.records[Len(s.records) + 1] = record
      /\ Len(s.records) \in Nat
  BY <1>5, <1>6, AppendProperties, LenProperties
<1>8. /\ Len(Noted(p)) = Len(h) + 1
      /\ \A i \in 1..Len(h) : Noted(p)[i].id = h[i].id
      /\ Noted(p)[Len(h) + 1].id = id
  BY NotedType DEF PairInv
<1>9. Alike(Noted(p), new.records)
  <2>1. Len(h) = Len(s.records) /\ \A i \in 1..Len(s.records) : h[i].id = s.records[i].id
    BY <1>2 DEF Alike
  <2>2. Len(Noted(p)) = Len(new.records)
    BY <2>1, <1>7, <1>8
  <2>3. ASSUME NEW i \in 1..Len(new.records) PROVE Noted(p)[i].id = new.records[i].id
    <3>1. CASE i = Len(s.records) + 1
      BY <3>1, <2>1, <1>5, <1>7, <1>8
    <3>2. CASE i # Len(s.records) + 1
      <4>1. i \in 1..Len(s.records)
        BY <3>2, <1>7
      <4> QED BY <4>1, <2>1, <1>7, <1>8
    <3> QED BY <3>1, <3>2
  <2> QED BY <2>2, <2>3 DEF Alike
<1> QED BY <1>9 DEF new

LEMMA RecordInv ==
  ASSUME PairInv, NEW p \in Procs, Record(p)
  PROVE  StepType(p) /\ StoreInv'
<1> DEFINE store == RecordVersion(run[p].store, run[p].args.record, run[p].read["new"])
<1>1. run[p].pc = "record" /\ Integrity(run[p].store)
  BY DEF PairInv, Record, StoreInv
<1>2. StepType(p)
  BY <1>1, RecordType DEF PairInv
<1>3. CASE Ended(p, "error") /\ UNCHANGED Ledger
  BY <1>2, <1>3, StoreKept DEF PairInv, Ended
<1>4. CASE /\ run'[p].pc = "render"
           /\ Integrity(store) /\ file' = [kind |-> "store", store |-> store]
           /\ history' = Noted(p)
  <2>1. Alike(Noted(p), store.records)
    BY <1>1, <1>4, SavedAlike
  <2> HIDE DEF store
  <2>2. Integrity(file'.store) /\ Alike(history', file'.store.records)
    BY <1>4, <2>1
  <2> QED BY <1>2, <1>4, <2>2 DEF StoreInv, StepType, PairInv
<1> QED BY <1>1, <1>3, <1>4, RecordType DEF PairInv

LEMMA ProcessInv ==
  ASSUME PairInv, NEW p \in Procs, Step(p)
  PROVE  PairInv'
<1>1. CASE Start(p)
  <2>1. run'[p].pc = "candidate"
    BY <1>1 DEF Start, PairInv, PairTypes, Idle
  <2> QED BY <1>1, <2>1, StartType, StoreKept DEF PairInv, Start, StepType
<1>2. CASE LoadCandidate(p)
  BY <1>2, LoadCandidateType, StoreKept DEF PairInv, LoadCandidate, StepType, Ended
<1>3. CASE OpenStore(p)
  BY <1>3, OpenStoreType, OpenStoreInv DEF PairInv, StepType
<1>4. CASE Compare(p)
  BY <1>4, CompareType, CompareInv DEF PairInv, StepType
<1>5. CASE Record(p)
  BY <1>5, RecordInv DEF PairInv, StepType
<1>6. CASE Render(p)
  BY <1>6, RenderType, StoreKept DEF PairInv, StepType, Ended
<1>7. CASE Register(p) \/ Wake(p) \/ Cycle(p) \/ Stop(p) \/ Kill(p)
  BY <1>7, LoopType, StoreKept DEF PairInv, StepType
<1> QED BY <1>1, <1>2, <1>3, <1>4, <1>5, <1>6, <1>7 DEF Step

\* What taking a spec out of a store, or damaging it, does to the store and to
\* the notes of it.
DamagedBy(f, g, h, k, i, b) ==
  /\ g \in [kind : {"absent", "store", "corrupt"}, store : Stores] /\ k \in Seq(Notes)
  /\ Integrity(g.store) /\ Alike(k, g.store.records)
  /\ Len(g.store.records) = Len(f.store.records)
  /\ \A j \in 1..Len(f.store.records) :
        /\ g.store.records[j].status = f.store.records[j].status
        /\ k[j].id = h[j].id /\ k[j].live = h[j].live
        /\ g.store.records[j].build = IF j = i THEN b ELSE f.store.records[j].build
        /\ k[j].build = IF j = i THEN b ELSE h[j].build

LEMMA OneDamaged ==
  ASSUME NEW r \in Versions, NEW n \in Notes, NEW b \in Damaged
  PROVE  /\ [r EXCEPT !.build = b] \in Versions /\ [r EXCEPT !.build = b].id = r.id
         /\ [r EXCEPT !.build = b].order = r.order /\ [r EXCEPT !.build = b].status = r.status
         /\ [r EXCEPT !.build = b].build = b
         /\ [n EXCEPT !.build = b] \in Notes /\ [n EXCEPT !.build = b].id = n.id
         /\ [n EXCEPT !.build = b].live = n.live /\ [n EXCEPT !.build = b].build = b
BY DEF Versions, Notes, Stored

Ruled(st, rs, h) ==
  /\ st.records = rs
  /\ \A j \in DOMAIN rs : rs[j].id # NoId /\ rs[j].order >= 1
  /\ \A j, m \in DOMAIN rs : j < m => rs[j].id # rs[m].id /\ rs[j].order < rs[m].order
  /\ Len(h) = Len(rs) /\ \A j \in 1..Len(rs) : h[j].id = rs[j].id

LEMMA RulesOf ==
  ASSUME NEW st, NEW rs, NEW h, Ruled(st, rs, h)
  PROVE  Integrity(st) /\ Alike(h, st.records)
BY DEF Ruled, Integrity, Alike

LEMMA StoreDamaged ==
  ASSUME NEW f \in [kind : {"absent", "store", "corrupt"}, store : Stores], NEW h \in Seq(Notes),
         Integrity(f.store), Alike(h, f.store.records),
         NEW i \in DOMAIN f.store.records, NEW b \in Damaged,
         NEW g, g = [f EXCEPT !.store.records[i].build = b],
         NEW k, k = [h EXCEPT ![i].build = b]
  PROVE  DamagedBy(f, g, h, k, i, b)
<1> DEFINE s == f.store
           rs == s.records
           ns == [rs EXCEPT ![i].build = b]
<1>1. s \in Stores /\ rs \in Seq(Versions)
  BY DEF Stores
<1>2. DOMAIN rs = 1..Len(rs) /\ DOMAIN h = 1..Len(h) /\ Len(h) = Len(rs) /\ Len(rs) \in Nat
  BY <1>1, LenProperties DEF Alike
<1>3. /\ \A j \in 1..Len(rs) : rs[j] \in Versions /\ h[j] \in Notes
      /\ \A j \in 1..Len(rs) : h[j].id = rs[j].id
  BY <1>1, <1>2, ElementOfSeq DEF Alike
<1> DEFINE record == [rs[i] EXCEPT !.build = b]
           note == [h[i] EXCEPT !.build = b]
<1>4. /\ record \in Versions /\ record.id = rs[i].id /\ record.order = rs[i].order
      /\ record.status = rs[i].status /\ record.build = b
      /\ note \in Notes /\ note.id = h[i].id /\ note.live = h[i].live /\ note.build = b
  <2>1. rs[i] \in Versions /\ h[i] \in Notes
    BY <1>2, <1>3
  <2> QED BY <2>1, OneDamaged
<1>5. ns = [rs EXCEPT ![i] = record] /\ k = [h EXCEPT ![i] = note]
  OBVIOUS
<1> HIDE DEF ns, record, note
<1>6. i \in 1..Len(rs) /\ i \in 1..Len(h)
  BY <1>2
<1>7. /\ ns \in Seq(Versions) /\ Len(ns) = Len(rs)
      /\ \A j \in 1..Len(rs) : ns[j] = IF j = i THEN record ELSE rs[j]
  BY <1>1, <1>4, <1>5, <1>6, ExceptSeq
<1>8. /\ k \in Seq(Notes) /\ Len(k) = Len(rs)
      /\ \A j \in 1..Len(rs) : k[j] = IF j = i THEN note ELSE h[j]
  <2>1. h \in Seq(Notes) /\ i \in 1..Len(h) /\ note \in Notes /\ k = [h EXCEPT ![i] = note]
    BY <1>4, <1>5, <1>6
  <2>2. /\ [h EXCEPT ![i] = note] \in Seq(Notes) /\ Len([h EXCEPT ![i] = note]) = Len(h)
        /\ \A j \in 1..Len(h) : [h EXCEPT ![i] = note][j] = IF j = i THEN note ELSE h[j]
    BY <2>1, ExceptSeq
  <2> QED BY <1>2, <2>1, <2>2
<1>12. ASSUME NEW j \in 1..Len(rs)
       PROVE  /\ ns[j].id = rs[j].id /\ ns[j].order = rs[j].order /\ ns[j].status = rs[j].status
              /\ ns[j].build = IF j = i THEN b ELSE rs[j].build
              /\ k[j].id = h[j].id /\ k[j].live = h[j].live
              /\ k[j].build = IF j = i THEN b ELSE h[j].build
  <2>1. CASE j = i
    BY <1>4, <1>7, <1>8, <2>1
  <2>2. CASE j # i
    BY <1>7, <1>8, <2>2
  <2> QED BY <2>1, <2>2
<1>13. DOMAIN ns = 1..Len(rs)
  BY <1>7, LenProperties
<1>9. g \in [kind : {"absent", "store", "corrupt"}, store : Stores] /\ g.store.records = ns
      /\ g.store = [s EXCEPT !.records = ns]
  <2>1. g = [f EXCEPT !.store = [s EXCEPT !.records = ns]]
    BY DEF ns
  <2>2. [s EXCEPT !.records = ns] \in Stores /\ [s EXCEPT !.records = ns].records = ns
    BY <1>1, <1>7 DEF Stores
  <2> QED BY <2>1, <2>2
<1>10. Integrity(g.store) /\ Alike(k, g.store.records)
  <2>1. \A j \in DOMAIN rs : rs[j].id # NoId /\ rs[j].order >= 1
    BY DEF Integrity
  <2>2. \A j, m \in DOMAIN rs : j < m => rs[j].id # rs[m].id /\ rs[j].order < rs[m].order
    BY DEF Integrity
  <2>3. \A j \in 1..Len(rs) : ns[j].id = rs[j].id /\ ns[j].order = rs[j].order
    BY <1>12
  <2>4. \A j \in DOMAIN ns : ns[j].id # NoId /\ ns[j].order >= 1
    BY <1>2, <1>13, <2>1, <2>3
  <2>5. \A j, m \in DOMAIN ns : j < m => ns[j].id # ns[m].id /\ ns[j].order < ns[m].order
    BY <1>2, <1>13, <2>2, <2>3
  <2>6. Len(k) = Len(ns) /\ \A j \in 1..Len(ns) : k[j].id = ns[j].id
    BY <1>3, <1>7, <1>8, <1>12
  <2>7. g.store.records = ns
    BY <1>9
  <2>8. Ruled(g.store, ns, k)
    BY <2>4, <2>5, <2>6, <2>7, Zenon DEF Ruled
  <2>9. Integrity(g.store) /\ Alike(k, g.store.records)
    BY <2>8, RulesOf
  <2> QED BY <2>9
<1> QED BY <1>7, <1>8, <1>9, <1>10, <1>12 DEF DamagedBy

\* The store is edited by hand.
LEMMA EditStoreInv ==
  ASSUME PairInv, EditStore
  PROVE  PairInv'
<1> DEFINE s == file.store
<1>1. /\ s \in Stores /\ s.records \in Seq(Versions) /\ Integrity(s) /\ Alike(history, s.records)
      /\ history \in Seq(Notes) /\ file \in [kind : {"absent", "store", "corrupt"}, store : Stores]
  BY DEF PairInv, PairTypes, StoreInv, Stores
<1>2. DOMAIN s.records = 1..Len(s.records) /\ DOMAIN history = 1..Len(history)
      /\ Len(history) = Len(s.records) /\ Len(history) \in Nat
  BY <1>1, LenProperties DEF Alike
<1>3. ASSUME NEW i \in DOMAIN s.records,
             file' = [file EXCEPT !.store.records = Without(@, i)], history' = Without(history, i)
      PROVE  /\ file' \in [kind : {"absent", "store", "corrupt"}, store : Stores]
             /\ history' \in Seq(Notes)
             /\ Integrity(file'.store) /\ Alike(history', file'.store.records)
  <2> DEFINE new == [s EXCEPT !.records = Without(@, i)]
  <2>1. file' = [file EXCEPT !.store = new]
    BY <1>1, <1>3
  <2>2. /\ Without(s.records, i) \in Seq(Versions)
        /\ Len(Without(s.records, i)) = Len(s.records) - 1
        /\ \A j \in 1..(Len(s.records) - 1) :
              Without(s.records, i)[j] = IF j < i THEN s.records[j] ELSE s.records[j + 1]
    <3>1. LosesOne(Without(s.records, i), s.records, i, Versions)
      BY <1>1, WithoutLoses
    <3> QED BY <3>1, Zenon DEF LosesOne
  <2>3. /\ Without(history, i) \in Seq(Notes)
        /\ Len(Without(history, i)) = Len(history) - 1
        /\ \A j \in 1..(Len(history) - 1) :
              Without(history, i)[j] = IF j < i THEN history[j] ELSE history[j + 1]
    <3>1. i \in DOMAIN history /\ history \in Seq(Notes)
      BY <1>1, <1>2
    <3>2. LosesOne(Without(history, i), history, i, Notes)
      BY <3>1, WithoutLoses
    <3> QED BY <3>2, Zenon DEF LosesOne
  <2>4. new \in Stores /\ new.records = Without(s.records, i)
    BY <1>1, <2>2 DEF Stores
  <2>5. Integrity(new)
    BY <1>1, WithoutKeepsRules
  <2> HIDE DEF new
  <2>6. \A j \in 1..Len(new.records) : history'[j].id = new.records[j].id
    <3> SUFFICES ASSUME NEW j \in 1..Len(new.records) PROVE history'[j].id = new.records[j].id
      OBVIOUS
    <3>1. j \in 1..(Len(s.records) - 1) /\ j \in 1..Len(s.records) /\ j + 1 \in 1..Len(s.records)
      BY <2>2, <2>4, <1>2
    <3>2. history[j].id = s.records[j].id /\ history[j + 1].id = s.records[j + 1].id
      BY <3>1, <1>1 DEF Alike
    <3> QED BY <3>1, <3>2, <2>2, <2>3, <2>4, <1>2, <1>3
  <2>7. Alike(history', new.records)
    BY <2>2, <2>3, <2>4, <2>6, <1>2, <1>3 DEF Alike
  <2> QED BY <2>1, <2>3, <2>4, <2>5, <2>7, <1>1, <1>3
<1>4. ASSUME UNCHANGED history,
             \/ \E id \in Ids(file.store) : file' = [file EXCEPT !.store.before = id]
             \/ file' = [file EXCEPT !.store.allowRetired = TRUE, !.store.cap = NoCap]
             \/ file' = [file EXCEPT !.kind = "corrupt"]
      PROVE  /\ file' \in [kind : {"absent", "store", "corrupt"}, store : Stores]
             /\ file'.store.records = s.records
  <2>1. Ids(s) \subseteq VersionIds
    <3>1. \A i \in DOMAIN s.records : s.records[i] \in Versions
      BY <1>1, <1>2, ElementOfSeq
    <3> QED BY <3>1 DEF Ids, Versions
  <2>2. CASE \E id \in Ids(file.store) : file' = [file EXCEPT !.store.before = id]
    BY <2>1, <2>2, <1>1 DEF Stores
  <2>3. CASE file' = [file EXCEPT !.store.allowRetired = TRUE, !.store.cap = NoCap]
    BY <2>3, <1>1 DEF Stores, Caps
  <2>4. CASE file' = [file EXCEPT !.kind = "corrupt"]
    BY <2>4, <1>1
  <2> QED BY <1>4, <2>2, <2>3, <2>4
<1>5. /\ file' \in [kind : {"absent", "store", "corrupt"}, store : Stores]
      /\ history' \in Seq(Notes)
      /\ Integrity(file'.store) /\ Alike(history', file'.store.records)
  <2>1. CASE \E i \in DOMAIN s.records : /\ file' = [file EXCEPT !.store.records = Without(@, i)]
                                         /\ history' = Without(history, i)
    BY <2>1, <1>3
  <2>2. CASE /\ \/ \E id \in Ids(file.store) : file' = [file EXCEPT !.store.before = id]
                \/ file' = [file EXCEPT !.store.allowRetired = TRUE, !.store.cap = NoCap]
                \/ file' = [file EXCEPT !.kind = "corrupt"]
             /\ UNCHANGED history
    BY <2>2, <1>1, <1>4 DEF Integrity
  <2>3. CASE \E i \in DOMAIN s.records, b \in Damaged :
               /\ file' = [file EXCEPT !.store.records[i].build = b]
               /\ history' = [history EXCEPT ![i].build = b]
    <3> PICK i \in DOMAIN s.records, b \in Damaged :
               /\ file' = [file EXCEPT !.store.records[i].build = b]
               /\ history' = [history EXCEPT ![i].build = b]
      BY <2>3
    <3>1. DamagedBy(file, file', history, history', i, b)
      BY <1>1, StoreDamaged
    <3> QED BY <3>1, Zenon DEF DamagedBy
  <2> QED BY <2>1, <2>2, <2>3 DEF EditStore
<1>6. troubles' \in Nat
  BY DEF EditStore, PairInv, PairTypes
<1> QED BY <1>5, <1>6 DEF EditStore, PairInv, PairTypes, PairShape, StoreInv, Watching

-----------------------------------------------------------------------------
(* The invariant, and what follows from it                                 *)

LEMMA PairInit == Init => PairInv
<1> SUFFICES ASSUME Init PROVE PairInv
  OBVIOUS
<1>1. PairTypes
  BY NewStoreType, IdleType, EmptySeq DEF Init, PairTypes
<1>2. PairShape
  BY IdleType DEF Init, PairShape
<1>3. Alike(<< >>, NewStore.records)
  BY EmptySeq DEF Alike, NewStore
<1>4. StoreInv
  BY <1>3, NewStoreType DEF Init, StoreInv, Idle
<1> QED BY <1>1, <1>2, <1>4 DEF PairInv

LEMMA PairNext == PairInv /\ [Next]_vars => PairInv'
<1> SUFFICES ASSUME PairInv, [Next]_vars PROVE PairInv'
  OBVIOUS
<1>1. ASSUME NEW p \in Procs, Step(p) PROVE PairInv'
  BY <1>1, ProcessInv
<1>2. ASSUME NEW s \in Sides, Rewrite(s) \/ Unlink(s) \/ Recreate(s) PROVE PairInv'
  <2>1. PICK b \in Builds \cup {Missing} : Changed(s, b)
    BY <1>2 DEF Rewrite, Unlink, Recreate
  <2>2. watched' \in [Procs -> SUBSET Sides]
    BY <1>2 DEF Rewrite, Unlink, Recreate, PairInv, PairTypes
  <2>3. PairTypes'
    BY <2>1, <2>2, ChangedType DEF PairInv
  <2> QED BY <2>1, <2>3 DEF Changed, Ledger, PairInv, PairShape, StoreInv
<1>3. CASE EditStore
  BY <1>3, EditStoreInv
<1>4. CASE UNCHANGED vars
  BY <1>4 DEF vars, PairInv, PairTypes, PairShape, StoreInv
<1> QED BY <1>1, <1>2, <1>3, <1>4 DEF Next

\* Every variable keeps its type, the store its rules, and what a run has read is
\* the store it works on, for any processes, builds, arguments and faults.
THEOREM PairTypesKept == Spec => []PairInv
BY PairInit, PairNext, PTL DEF Spec

LEMMA PairTypeOK == PairInv => TypeOK
BY DEF PairInv, PairTypes, TypeOK, Runs, Verdicts, Active, HasCandidate

\* The store can be read and takes a new version, whatever was recorded, retired or
\* removed before (validate_integrity, record_version).
THEOREM FreshRecordedKept == Spec => []FreshRecorded
<1>1. PairInv => FreshRecorded
  <2> SUFFICES ASSUME PairInv PROVE FreshRecorded
    OBVIOUS
  <2>1. ASSUME NEW p \in Procs, run[p].pc = "record", run[p].args.record \notin Ids(run[p].store)
        PROVE  Integrity(RecordVersion(run[p].store, run[p].args.record, run[p].read["new"]))
    <3>1. /\ run[p].store \in Stores /\ run[p].args.record \in VersionIds
          /\ run[p].read["new"] \in Builds
      BY <2>1 DEF PairInv, PairTypes, PairShape, Runs, RunShape, Active, HasCandidate, VersionIds
    <3>2. Integrity(run[p].store)
      BY <2>1 DEF PairInv, StoreInv
    <3> QED BY <2>1, <3>1, <3>2, FreshKeepsRules
  <2> QED BY <2>1, PairTypeOK DEF FreshRecorded, PairInv, StoreInv
<1> QED BY <1>1, PairTypesKept, PTL

\* A save keeps every version that its run had read (save_to_path): a version that
\* is recorded anew keeps its place in the ledger, and none is dropped.
THEOREM SavesKeep == Spec => SaveKeeps
<1> DEFINE Keeps == \A p \in Procs :
      run[p].pc = "record" /\ run'[p].pc = "render" =>
        {run[p].history[i].id : i \in DOMAIN run[p].history} \subseteq Ids(file'.store)
<1>1. PairInv /\ PairInv' /\ [Next]_vars => [Keeps]_vars
  <2> SUFFICES ASSUME PairInv, PairInv', Next, NEW p \in Procs, run[p].pc = "record", run'[p].pc = "render"
               PROVE  {run[p].history[i].id : i \in DOMAIN run[p].history} \subseteq Ids(file'.store)
    OBVIOUS
  <2>1. Record(p)
    <3>1. \A q \in Procs : Step(q) => q = p
      <4> SUFFICES ASSUME NEW q \in Procs, Step(q), q # p PROVE FALSE
        OBVIOUS
      <4>1. StepType(q)
        BY StartType, LoadCandidateType, OpenStoreType, CompareType, RecordInv, RenderType, LoopType
           DEF Step, PairInv
      <4> QED BY <4>1 DEF StepType
    <3>2. Step(p)
      BY <3>1 DEF Next, Rewrite, Unlink, Recreate, Changed, EditStore
    <3> QED BY <3>2 DEF Step, Start, LoadCandidate, OpenStore, Compare, Render, Register, Wake, Cycle,
                        Stop, Kill, Idle, PairInv, PairTypes
  <2>2. history' = Noted(p)
    BY <2>1, RecordType DEF Ended, PairInv, StoreInv
  <2>3. Alike(history', file'.store.records) /\ file'.store \in Stores
    BY DEF PairInv, StoreInv, PairTypes
  <2>4. /\ Len(Noted(p)) = Len(run[p].history) + 1 /\ Len(run[p].history) \in Nat
        /\ DOMAIN run[p].history = 1..Len(run[p].history)
        /\ \A i \in 1..Len(run[p].history) : Noted(p)[i].id = run[p].history[i].id
    BY NotedType, LenProperties DEF PairInv, PairTypes, Runs
  <2>5. DOMAIN file'.store.records = 1..Len(file'.store.records)
    BY <2>3, LenProperties DEF Stores
  <2>6. ASSUME NEW i \in DOMAIN run[p].history PROVE run[p].history[i].id \in Ids(file'.store)
    <3>1. i \in 1..Len(file'.store.records) /\ file'.store.records[i].id = run[p].history[i].id
      BY <2>2, <2>3, <2>4 DEF Alike
    <3> QED BY <3>1, <2>5 DEF Ids
  <2> QED BY <2>6
<1> QED BY <1>1, PairTypesKept, PTL DEF Spec, SaveKeeps

-----------------------------------------------------------------------------
(* The versions a candidate is judged against                              *)

\* The notes of what was recorded are true of the records of a store, in which
\* the version `tag` has been retired.
Matches(h, rs, tag) ==
  \A i \in 1..Len(rs) :
    /\ h[i].build = rs[i].build
    /\ rs[i].status = "live" <=> h[i].live /\ h[i].id # tag

\* HistoryChecked, of one run.
Checked(r) ==
  r.verdict = "safe" /\ ~r.args.lockfile /\ "storage_layout" \in r.args.gated
    => \A i \in Required(r) :
         \/ r.history[i].build \in Damaged
         \/ LayoutKept(r.history[i].build, r.read["new"])
         \/ "layout" \in r.args.rules

\* What a run knows of the versions of its store, before and after the verdict.
Judging(r) ==
  /\ r.pc \in {"idle", "candidate", "ledger", "compare"} => r.verdict = "none"
  /\ r.pc \in {"compare", "record"} => Matches(r.history, r.store.records, r.args.retire)
  /\ Checked(r)

JudgedInv ==
  /\ Matches(history, file.store.records, NoId)
  /\ \A p \in Procs : Judging(run[p])

\* The cutoff by order is a cutoff by position: orders increase (live_records).
LEMMA CutoffByPosition ==
  ASSUME NEW s \in Stores, Integrity(s), NEW i \in DOMAIN s.records
  PROVE  s.records[i].order >= Cutoff(s) <=>
           \A j \in DOMAIN s.records : s.records[j].id = s.before => j <= i
<1> DEFINE rs == s.records
           named == {j \in DOMAIN rs : rs[j].id = s.before}
<1>1. rs \in Seq(Versions) /\ Len(rs) \in Nat /\ DOMAIN rs = 1..Len(rs)
  BY LenProperties DEF Stores
<1>2. \A j \in DOMAIN rs : rs[j].order \in Nat
  <2>1. \A j \in DOMAIN rs : rs[j] \in Versions
    BY <1>1, ElementOfSeq
  <2> QED BY <2>1 DEF Versions
<1>3. CASE named = {}
  BY <1>2, <1>3 DEF Cutoff
<1>4. CASE named # {}
  <2> DEFINE cut == CHOOSE j \in named : TRUE
  <2>1. cut \in named /\ Cutoff(s) = rs[cut].order
    BY <1>4 DEF Cutoff
  <2> HIDE DEF cut
  <2>2. cut \in DOMAIN rs /\ rs[cut].id = s.before
    BY <2>1
  <2>3. \A j \in DOMAIN rs : rs[j].id = s.before => j = cut
    <3> SUFFICES ASSUME NEW j \in DOMAIN rs, rs[j].id = s.before PROVE j = cut
      OBVIOUS
    <3>1. ~(j < cut) /\ ~(cut < j)
      BY <2>2 DEF Integrity
    <3> QED BY <3>1, <2>2, <1>1
  <2>4. rs[i].order >= rs[cut].order <=> cut <= i
    <3>1. i < cut => rs[i].order < rs[cut].order
      BY <2>2 DEF Integrity
    <3>2. cut < i => rs[cut].order < rs[i].order
      BY <2>2 DEF Integrity
    <3> QED BY <3>1, <3>2, <2>2, <1>1, <1>2
  <2>5. rs[i].order >= Cutoff(s) <=> cut <= i
    BY <2>1, <2>4
  <2> QED BY <2>2, <2>3, <2>5
<1> QED BY <1>3, <1>4

\* The versions a run has to check are those that live_records selects.
LEMMA RequiredIsLive ==
  ASSUME NEW r \in Runs, Integrity(r.store), Alike(r.history, r.store.records),
         Matches(r.history, r.store.records, r.args.retire)
  PROVE  Required(r) = LiveRecords(r.store) /\ Required(r) \subseteq DOMAIN r.store.records
<1> DEFINE s == r.store
           rs == r.store.records
           h == r.history
           Counts(i) ==
             /\ (h[i].live /\ h[i].id # r.args.retire) \/ s.allowRetired
             /\ \A j \in DOMAIN h : h[j].id = s.before => j <= i
<1>1. s \in Stores /\ h \in Seq(Notes) /\ rs \in Seq(Versions)
  BY DEF Runs, Stores
<1>2. DOMAIN h = DOMAIN rs /\ DOMAIN rs = 1..Len(rs)
  BY <1>1, LenProperties DEF Alike
<1>3. \A i \in DOMAIN rs : h[i].id = rs[i].id
  BY <1>2 DEF Alike
<1>4. \A i \in DOMAIN rs : Counts(i) <=> i \in Eligible(s)
  <2> SUFFICES ASSUME NEW i \in DOMAIN rs PROVE Counts(i) <=> i \in Eligible(s)
    OBVIOUS
  <2>1. rs[i].status = "live" <=> h[i].live /\ h[i].id # r.args.retire
    BY <1>2 DEF Matches
  <2>2. rs[i].order >= Cutoff(s) <=> \A j \in DOMAIN h : h[j].id = s.before => j <= i
    BY <1>1, <1>2, <1>3, CutoffByPosition
  <2> QED BY <2>1, <2>2 DEF Eligible
<1>5. Eligible(s) \subseteq DOMAIN rs
  BY DEF Eligible
<1>6. \A i : {j \in DOMAIN h : j > i /\ Counts(j)} = {j \in Eligible(s) : j > i}
  BY <1>2, <1>4, <1>5
<1>7. Required(r) = {i \in DOMAIN h :
                       /\ Counts(i)
                       /\ s.cap # NoCap => Cardinality({j \in DOMAIN h : j > i /\ Counts(j)}) < s.cap}
  BY DEF Required
<1> HIDE DEF Counts
<1>8. Required(r) = {i \in Eligible(s) :
                       s.cap # NoCap => Cardinality({j \in Eligible(s) : j > i}) < s.cap}
  BY <1>2, <1>4, <1>5, <1>6, <1>7
<1> QED BY <1>5, <1>8 DEF LiveRecords

\* A candidate that the comparison calls safe decodes what each of them stored.
LEMMA JudgedSafe ==
  ASSUME NEW r \in Runs, Integrity(r.store), Alike(r.history, r.store.records),
         Matches(r.history, r.store.records, r.args.retire),
         LineageSafe(r.store, r.read["new"], r.args), "storage_layout" \in r.args.gated,
         NEW i \in Required(r), r.history[i].build \notin Damaged
  PROVE  LayoutKept(r.history[i].build, r.read["new"]) \/ "layout" \in r.args.rules
<1> DEFINE n == r.read["new"]
           broken == Finding("critical", "storage_layout", "layout")
<1>1. i \in LiveRecords(r.store) /\ i \in DOMAIN r.store.records
  BY RequiredIsLive
<1>2. r.history[i].build = r.store.records[i].build
  <2>1. DOMAIN r.store.records = 1..Len(r.store.records)
    BY LenProperties DEF Runs, Stores
  <2> QED BY <2>1, <1>1 DEF Matches
<1> SUFFICES ASSUME ~LayoutKept(r.store.records[i].build, n), "layout" \notin r.args.rules PROVE FALSE
  BY <1>2
<1>3. broken \in Findings(StoredSpec(r.store.records[i]), n) /\ i \in Compared(r.store)
  BY <1>1, <1>2 DEF Findings, StoredSpec, Compared, Damaged
<1>4. broken \in HistoricalFindings(r.store, n)
  BY <1>3 DEF HistoricalFindings
<1>5. broken \in Open(HistoricalFindings(r.store, n), r.args)
  BY <1>4 DEF Open, Finding
<1> QED BY <1>5 DEF LineageSafe, Finding

\* A run that is only further on its way has checked what it had to.
LEMMA StillChecked ==
  ASSUME NEW r, NEW q, Checked(r), q.args = r.args, q.history = r.history, q.read = r.read,
         q.store.cap = r.store.cap, q.store.before = r.store.before,
         q.store.allowRetired = r.store.allowRetired, q.verdict = r.verdict \/ q.verdict # "safe"
  PROVE  Checked(q)
<1>1. Required(q) = Required(r)
  BY DEF Required
<1> QED BY <1>1 DEF Checked

LEMMA OneJudging ==
  ASSUME JudgedInv, NEW p \in Procs, StepType(p), Judging(run'[p]),
         Matches(history', file'.store.records, NoId)
  PROVE  JudgedInv'
<1>1. \A q \in Procs : Judging(run'[q])
  BY DEF JudgedInv, StepType
<1> QED BY <1>1 DEF JudgedInv

LEMMA EndedJudging ==
  ASSUME JudgedInv, NEW p \in Procs, StepType(p), UNCHANGED Ledger,
         NEW v, Ended(p, v), v = "error" \/ v = run[p].verdict
  PROVE  JudgedInv'
<1>1. Checked(run'[p])
  <2>1. CASE run'[p].pc = "done"
    BY <2>1 DEF Ended, Checked, NoArgs
  <2>2. CASE run'[p].pc # "done"
    <3>1. Checked(run[p])
      BY DEF JudgedInv, Judging
    <3> QED BY <2>2, <3>1, StillChecked DEF Ended
  <2> QED BY <2>1, <2>2
<1>2. Judging(run'[p])
  BY <1>1 DEF Judging, Ended
<1> QED BY <1>2, OneJudging DEF JudgedInv, Ledger

\* Retiring a version in memory retires its note (retire_version).
LEMMA RetiredMatches ==
  ASSUME NEW s \in Stores, Integrity(s), NEW a \in Args, NEW h, Alike(h, s.records),
         Matches(h, s.records, NoId)
  PROVE  Matches(h, Retired(Capped(s, a), a).records, a.retire)
<1> DEFINE rs == s.records
           new == Retired(Capped(s, a), a).records
<1>1. rs \in Seq(Versions) /\ DOMAIN rs = 1..Len(rs)
  BY LenProperties DEF Stores
<1>2. \A i \in DOMAIN rs : rs[i] \in Versions /\ rs[i].id # NoId /\ h[i].id = rs[i].id
  <2>1. \A i \in DOMAIN rs : rs[i] \in Versions
    BY <1>1, ElementOfSeq
  <2> QED BY <2>1, <1>1 DEF Integrity, Alike
<1>3. Capped(s, a) \in Stores /\ Capped(s, a).records = rs
  BY DEF Capped, Stores, Caps
<1>4. Len(new) = Len(rs)
  BY RetireType
<1>5. \A i \in DOMAIN rs : /\ new[i].build = rs[i].build
                           /\ new[i].status = "live" <=> rs[i].status = "live" /\ rs[i].id # a.retire
  <2>1. CASE a.retire = NoId
    BY <2>1, <1>2, <1>3 DEF Retired
  <2>2. CASE a.retire # NoId
    <3>1. new = [i \in DOMAIN rs |-> IF rs[i].id = a.retire THEN [rs[i] EXCEPT !.status = "retired"]
                                     ELSE rs[i]]
      BY <2>2, <1>3 DEF Retired, RetireVersion, Stores
    <3> QED BY <3>1, <1>2 DEF Versions
  <2> QED BY <2>1, <2>2
<1>6. \A i \in DOMAIN rs : h[i].build = rs[i].build /\ (rs[i].status = "live" <=> h[i].live)
  BY <1>1, <1>2 DEF Matches
<1> HIDE DEF new, rs
<1>7. ASSUME NEW i \in 1..Len(new)
      PROVE  /\ h[i].build = new[i].build
             /\ new[i].status = "live" <=> h[i].live /\ h[i].id # a.retire
  <2>1. i \in DOMAIN rs
    BY <1>1, <1>4
  <2>2. h[i].build = new[i].build
    BY <2>1, <1>5, <1>6
  <2>3. h[i].id = rs[i].id
    BY <2>1, <1>2
  <2>4. rs[i].status = "live" <=> h[i].live
    BY <2>1, <1>6
  <2>5. new[i].status = "live" <=> rs[i].status = "live" /\ rs[i].id # a.retire
    BY <2>1, <1>5
  <2> QED BY <2>2, <2>3, <2>4, <2>5, Zenon
<1>8. Matches(h, new, a.retire)
  BY <1>7 DEF Matches
<1> QED BY <1>8 DEF new

LEMMA OpenStoreJudging ==
  ASSUME PairInv, JudgedInv, NEW p \in Procs, OpenStore(p)
  PROVE  JudgedInv'
<1>1. StepType(p) /\ UNCHANGED Ledger /\ run[p].pc = "ledger" /\ run[p] \in Runs
  BY OpenStoreType DEF PairInv, OpenStore, PairTypes
<1>2. CASE Ended(p, "error")
  BY <1>1, <1>2, EndedJudging
<1>3. CASE ~Ended(p, "error")
  <2> DEFINE a == run[p].args
             s == Retired(Capped(file.store, a), a)
  <2>1. run'[p].pc = "compare" /\ run'[p].args = a /\ run'[p].store = s /\ run'[p].history = history
    BY <1>3, OpenStoreType DEF PairInv
  <2>2. a \in Args /\ file.store \in Stores
    BY <1>1 DEF PairInv, PairTypes, PairShape, RunShape, Active, HasCandidate
  <2>3. Matches(history, s.records, a.retire)
    BY <2>2, RetiredMatches DEF PairInv, StoreInv, JudgedInv
  <2>4. run'[p].verdict = "none"
    <3>1. run[p].verdict = "none"
      BY <1>1 DEF JudgedInv, Judging
    <3>2. ~End(p, "error")
      BY <1>1, <1>3, EndType DEF PairInv, Verdicts, HasCandidate
    <3>3. run' = [run EXCEPT ![p] = [@ EXCEPT !.pc = "compare", !.history = history, !.store = s]]
      BY <3>2 DEF OpenStore, Loaded
    <3> HIDE DEF s
    <3> QED BY <1>1, <3>1, <3>3 DEF PairInv, PairTypes, Runs
  <2> HIDE DEF s
  <2>5. Judging(run'[p])
    BY <2>1, <2>3, <2>4 DEF Judging, Checked
  <2> QED BY <1>1, <2>5, OneJudging DEF JudgedInv, Ledger
<1> QED BY <1>2, <1>3

LEMMA CompareJudging ==
  ASSUME PairInv, JudgedInv, NEW p \in Procs, Compare(p)
  PROVE  JudgedInv'
<1>1. StepType(p) /\ UNCHANGED Ledger /\ run[p].pc = "compare" /\ run[p] \in Runs
  BY CompareType DEF PairInv, Compare, PairTypes
<1>2. CASE Ended(p, "error")
  BY <1>1, <1>2, EndedJudging
<1>3. CASE ~Ended(p, "error")
  <2> DEFINE q == run'[p]
  <2>1. /\ q.pc \in {"render", "record"} /\ q.args = run[p].args /\ q.store = run[p].store
        /\ q.history = run[p].history /\ q.read["new"] = run[p].read["new"]
    BY <1>3, CompareType DEF PairInv
  <2>2. q.verdict = Judged(p, input["old"])
    <3>1. ~End(p, "error")
      BY <1>1, <1>3, EndType DEF PairInv, Verdicts, HasCandidate
    <3>2. PICK b, c : run' = [run EXCEPT ![p] = [@ EXCEPT !.pc = b, !.read["old"] = c,
                                                          !.verdict = Judged(p, input["old"])]]
      BY <3>1 DEF Compare
    <3> QED BY <3>2, <1>1 DEF PairInv, PairTypes, Runs
  <2>3. Integrity(run[p].store) /\ Alike(run[p].history, run[p].store.records)
        /\ Matches(run[p].history, run[p].store.records, run[p].args.retire)
    BY <1>1 DEF PairInv, StoreInv, JudgedInv, Judging
  <2>4. ASSUME q.verdict = "safe", ~q.args.lockfile, "storage_layout" \in q.args.gated
        PROVE  \A i \in Required(q) :
                 \/ q.history[i].build \in Damaged
                 \/ LayoutKept(q.history[i].build, q.read["new"])
                 \/ "layout" \in q.args.rules
    <3>1. LineageSafe(run[p].store, run[p].read["new"], run[p].args)
      BY <2>1, <2>2, <2>4 DEF Judged
    <3>2. \A i \in Required(run[p]) :
            \/ run[p].history[i].build \in Damaged
            \/ LayoutKept(run[p].history[i].build, run[p].read["new"])
            \/ "layout" \in run[p].args.rules
      BY <1>1, <2>1, <2>3, <2>4, <3>1, JudgedSafe
    <3>3. Required(q) = Required(run[p])
      BY <2>1 DEF Required
    <3> QED BY <2>1, <3>2, <3>3
  <2> HIDE DEF q
  <2>5. Judging(q)
    BY <2>1, <2>3, <2>4 DEF Judging, Checked
  <2> QED BY <1>1, <2>5, OneJudging DEF JudgedInv, Ledger, q
<1> QED BY <1>2, <1>3

\* What a save writes is what its history notes, retired or live.
LEMMA SavedMatches ==
  ASSUME PairInv, JudgedInv, NEW p \in Procs, run[p].pc = "record",
         Integrity(RecordVersion(run[p].store, run[p].args.record, run[p].read["new"]))
  PROVE  Matches(Noted(p), RecordVersion(run[p].store, run[p].args.record, run[p].read["new"]).records, NoId)
<1> DEFINE s == run[p].store
           id == run[p].args.record
           b == run[p].read["new"]
           new == RecordVersion(s, id, b)
           h == run[p].history
           tag == run[p].args.retire
           seen == [i \in DOMAIN h |-> IF h[i].id = tag THEN [h[i] EXCEPT !.live = FALSE] ELSE h[i]]
           note == [id |-> id, build |-> b, live |-> TRUE]
           record == [id |-> id, order |-> NextOrder(s), status |-> "live", build |-> b]
<1>1. s \in Stores /\ id \in VersionIds /\ b \in Builds /\ h \in Seq(Notes)
  BY DEF PairInv, PairTypes, PairShape, Runs, RunShape, Active, HasCandidate, VersionIds
<1>2. Integrity(s) /\ Alike(h, s.records) /\ Matches(h, s.records, tag)
  BY DEF PairInv, StoreInv, JudgedInv, Judging
<1>3. id \notin Ids(s)
  BY <1>1, <1>2, FreshKeepsRules
<1>4. new = [s EXCEPT !.records = Append(@, record)]
  BY <1>1, <1>2, <1>3, RecordVersionType
<1>5. record \in Versions /\ record.build = b /\ record.status = "live"
  BY <1>1, <1>2, NextOrderAbove DEF Versions, Stored
<1>6. new.records = Append(s.records, record) /\ s.records \in Seq(Versions)
  BY <1>1, <1>4 DEF Stores
<1>7. Len(h) = Len(s.records) /\ Len(h) \in Nat /\ DOMAIN h = 1..Len(h)
  BY <1>1, <1>2, LenProperties DEF Alike
<1>8. Noted(p) = Append(seen, note)
  BY DEF Noted
<1>9. \A i \in 1..Len(h) : h[i] \in Notes
  BY <1>1, <1>7, ElementOfSeq
<1>10. note \in Notes /\ note.id = id /\ note.build = b /\ note.live
  BY <1>1 DEF Notes, Stored
<1>11. \A i \in 1..Len(h) : /\ seen[i] \in Notes /\ seen[i].id = h[i].id /\ seen[i].build = h[i].build
                            /\ seen[i].live <=> h[i].live /\ h[i].id # tag
  BY <1>7, <1>9 DEF Notes
<1>a. seen = [i \in 1..Len(h) |-> seen[i]]
  BY <1>7
<1> HIDE DEF new, record, seen, note, h, s, tag, id, b
<1>12. seen \in Seq(Notes) /\ Len(seen) = Len(h)
  <2>1. seen \in [1..Len(h) -> Notes]
    BY <1>a, <1>11
  <2> QED BY <2>1, <1>7
<1>13. /\ Len(new.records) = Len(h) + 1
       /\ \A i \in 1..Len(h) : new.records[i] = s.records[i]
       /\ new.records[Len(h) + 1] = record
  BY <1>5, <1>6, <1>7, AppendProperties
<1>14. /\ \A i \in 1..Len(h) : Noted(p)[i] = seen[i]
       /\ Noted(p)[Len(h) + 1] = note
  BY <1>7, <1>8, <1>10, <1>12, AppendProperties
<1>15. id # NoId /\ \A i \in 1..Len(h) : h[i].id # NoId
  BY <1>1, <1>9 DEF VersionIds, Notes
<1>16. ASSUME NEW i \in 1..Len(new.records)
       PROVE  /\ Noted(p)[i].build = new.records[i].build
              /\ new.records[i].status = "live" <=> Noted(p)[i].live /\ Noted(p)[i].id # NoId
  <2>1. CASE i = Len(h) + 1
    BY <2>1, <1>5, <1>10, <1>13, <1>14, <1>15
  <2>2. CASE i # Len(h) + 1
    <3>1. i \in 1..Len(h)
      BY <2>2, <1>7, <1>13
    <3>2. Noted(p)[i] = seen[i] /\ new.records[i] = s.records[i]
      BY <3>1, <1>13, <1>14
    <3>3. /\ h[i].build = s.records[i].build
          /\ s.records[i].status = "live" <=> h[i].live /\ h[i].id # tag
      BY <3>1, <1>2, <1>7 DEF Matches
    <3>4. /\ seen[i].id # NoId /\ seen[i].build = h[i].build
          /\ seen[i].live <=> h[i].live /\ h[i].id # tag
      BY <3>1, <1>11, <1>15
    <3> QED BY <3>2, <3>3, <3>4, Zenon
  <2> QED BY <2>1, <2>2
<1>17. Matches(Noted(p), new.records, NoId)
  BY <1>16 DEF Matches
<1> QED BY <1>17 DEF new, s, id, b

LEMMA RecordJudging ==
  ASSUME PairInv, JudgedInv, NEW p \in Procs, Record(p)
  PROVE  JudgedInv'
<1> DEFINE store == RecordVersion(run[p].store, run[p].args.record, run[p].read["new"])
<1>1. run[p].pc = "record" /\ Integrity(run[p].store) /\ run[p] \in Runs
  BY DEF PairInv, Record, StoreInv, PairTypes
<1>2. StepType(p)
  BY <1>1, RecordType DEF PairInv
<1>3. CASE Ended(p, "error") /\ UNCHANGED Ledger
  BY <1>2, <1>3, EndedJudging
<1>4. CASE ~(Ended(p, "error") /\ UNCHANGED Ledger)
  <2> DEFINE r == [run[p] EXCEPT !.pc = "render", !.store = store]
  <2>1. ~(End(p, "error") /\ UNCHANGED Ledger)
    BY <1>1, <1>4, EndType DEF PairInv, Verdicts, HasCandidate
  <2>2. Integrity(store) /\ file' = [kind |-> "store", store |-> store] /\ history' = Noted(p)
        /\ run' = [run EXCEPT ![p] = r]
    BY <2>1 DEF Record
  <2>3. Matches(Noted(p), store.records, NoId)
    BY <1>1, <2>2, SavedMatches
  <2>4. store.cap = run[p].store.cap /\ store.before = run[p].store.before
        /\ store.allowRetired = run[p].store.allowRetired
    BY <1>1 DEF RecordVersion, Runs, Stores
  <2> HIDE DEF store
  <2>5. r.pc = "render" /\ r.args = run[p].args /\ r.history = run[p].history
        /\ r.read = run[p].read /\ r.verdict = run[p].verdict /\ r.store = store
    BY <1>1 DEF Runs
  <2>6. run'[p] = r
    BY <2>2 DEF PairInv, PairTypes
  <2> HIDE DEF r
  <2>7. Checked(r)
    <3>1. Checked(run[p])
      BY DEF JudgedInv, Judging
    <3> QED BY <3>1, <2>4, <2>5, StillChecked
  <2>8. Judging(run'[p])
    BY <2>5, <2>6, <2>7 DEF Judging
  <2>9. Matches(history', file'.store.records, NoId)
    BY <2>2, <2>3
  <2> QED BY <1>2, <2>8, <2>9, OneJudging
<1> QED BY <1>3, <1>4

LEMMA ProcessJudging ==
  ASSUME PairInv, JudgedInv, NEW p \in Procs, Step(p)
  PROVE  JudgedInv'
<1>1. run[p] \in Runs /\ run \in [Procs -> Runs] /\ Judging(run[p])
      /\ Matches(history, file.store.records, NoId)
  BY DEF PairInv, PairTypes, JudgedInv
<1>2. CASE Start(p)
  <2>1. StepType(p) /\ UNCHANGED Ledger
    BY <1>2, StartType DEF PairInv, Start
  <2>2. run'[p].pc = "candidate" /\ run'[p].verdict = "none"
    BY <1>1, <1>2 DEF Start, Idle
  <2> QED BY <2>1, <2>2, <1>1, OneJudging DEF Judging, Checked, Ledger
<1>3. CASE LoadCandidate(p)
  <2>1. StepType(p) /\ UNCHANGED Ledger
    BY <1>3, LoadCandidateType DEF PairInv, LoadCandidate
  <2>2. CASE Ended(p, "error")
    BY <2>1, <2>2, EndedJudging
  <2>3. CASE ~Ended(p, "error")
    <3>1. ~End(p, "error")
      BY <1>3, <2>3, EndType DEF PairInv, Verdicts, LoadCandidate
    <3>2. run' = [run EXCEPT ![p] = [@ EXCEPT !.pc = "ledger", !.read["new"] = input["new"]]]
      BY <1>3, <3>1 DEF LoadCandidate
    <3>3. run'[p].pc = "ledger" /\ run'[p].verdict = run[p].verdict
      BY <1>1, <3>2 DEF Runs
    <3>4. run[p].verdict = "none"
      BY <1>1, <1>3 DEF LoadCandidate, Judging
    <3> QED BY <2>1, <3>3, <3>4, <1>1, OneJudging DEF Judging, Checked, Ledger
  <2> QED BY <2>2, <2>3
<1>4. CASE OpenStore(p)
  BY <1>4, OpenStoreJudging
<1>5. CASE Compare(p)
  BY <1>5, CompareJudging
<1>6. CASE Record(p)
  BY <1>6, RecordJudging
<1>7. CASE Render(p)
  BY <1>7, RenderType, EndedJudging DEF PairInv
<1>8. CASE Register(p) \/ Wake(p) \/ Cycle(p) \/ Stop(p) \/ Kill(p)
  <2>1. StepType(p) /\ UNCHANGED Ledger
    BY <1>8, LoopType DEF PairInv
  <2>2. CASE Register(p) \/ Wake(p)
    <3>1. PICK to \in {"waiting", "reappear"} : run' = [run EXCEPT ![p].pc = to]
      BY <2>2 DEF Register, Wake
    <3>2. /\ run'[p].pc = to /\ run'[p].args = run[p].args /\ run'[p].history = run[p].history
          /\ run'[p].read = run[p].read /\ run'[p].store = run[p].store
          /\ run'[p].verdict = run[p].verdict
      BY <1>1, <3>1 DEF Runs
    <3>3. Checked(run'[p])
      BY <1>1, <3>2, StillChecked DEF Judging
    <3> QED BY <2>1, <3>2, <3>3, <1>1, OneJudging DEF Judging, Ledger
  <2>3. CASE Cycle(p) \/ Stop(p) \/ Kill(p)
    <3>1. run'[p].verdict = "none" /\ run'[p].pc \in {"candidate", "idle"}
      <4>1. CASE Cycle(p)
        BY <1>1, <4>1 DEF Cycle, Runs
      <4>2. CASE Stop(p) \/ Kill(p)
        <5>1. run' = [run EXCEPT ![p] = Idle]
          BY <4>2 DEF Stop, Kill
        <5> QED BY <1>1, <5>1 DEF Idle
      <4> QED BY <2>3, <4>1, <4>2
    <3> QED BY <2>1, <3>1, <1>1, OneJudging DEF Judging, Checked, Ledger
  <2> QED BY <1>8, <2>2, <2>3
<1> QED BY <1>2, <1>3, <1>4, <1>5, <1>6, <1>7, <1>8 DEF Step

DamagedRecords(ns, rs, k, h, i, b) ==
  /\ Len(ns) = Len(rs)
  /\ \A j \in 1..Len(rs) :
        /\ ns[j].status = rs[j].status
        /\ k[j].id = h[j].id /\ k[j].live = h[j].live
        /\ ns[j].build = IF j = i THEN b ELSE rs[j].build
        /\ k[j].build = IF j = i THEN b ELSE h[j].build

LEMMA DamagedMatches ==
  ASSUME NEW ns, NEW rs, NEW k, NEW h, NEW i, NEW b, DamagedRecords(ns, rs, k, h, i, b),
         Matches(h, rs, NoId)
  PROVE  Matches(k, ns, NoId)
BY DEF DamagedRecords, Matches

LEMMA EditStoreJudging ==
  ASSUME PairInv, JudgedInv, EditStore
  PROVE  JudgedInv'
<1> DEFINE s == file.store
<1>1. /\ s \in Stores /\ s.records \in Seq(Versions) /\ Alike(history, s.records)
      /\ history \in Seq(Notes) /\ Matches(history, s.records, NoId)
      /\ file \in [kind : {"absent", "store", "corrupt"}, store : Stores]
  BY DEF PairInv, PairTypes, StoreInv, Stores, JudgedInv
<1>2. CASE \E i \in DOMAIN s.records : /\ file' = [file EXCEPT !.store.records = Without(@, i)]
                                       /\ history' = Without(history, i)
  <2>1. PICK i \in DOMAIN s.records : /\ file' = [file EXCEPT !.store.records = Without(@, i)]
                                      /\ history' = Without(history, i)
    BY <1>2
  <2>2. DOMAIN s.records = 1..Len(s.records) /\ DOMAIN history = 1..Len(history)
        /\ Len(history) = Len(s.records) /\ Len(history) \in Nat
    BY <1>1, LenProperties DEF Alike
  <2>3. /\ Len(Without(s.records, i)) = Len(s.records) - 1
        /\ \A j \in 1..(Len(s.records) - 1) :
              Without(s.records, i)[j] = IF j < i THEN s.records[j] ELSE s.records[j + 1]
    <3>1. LosesOne(Without(s.records, i), s.records, i, Versions)
      BY <1>1, WithoutLoses
    <3> QED BY <3>1, Zenon DEF LosesOne
  <2>4. \A j \in 1..(Len(s.records) - 1) :
          Without(history, i)[j] = IF j < i THEN history[j] ELSE history[j + 1]
    <3>1. i \in DOMAIN history /\ history \in Seq(Notes)
      BY <1>1, <2>2
    <3>2. LosesOne(Without(history, i), history, i, Notes)
      BY <3>1, WithoutLoses
    <3> QED BY <3>2, <2>2, Zenon DEF LosesOne
  <2>5. ASSUME NEW j \in 1..Len(Without(s.records, i))
        PROVE  \E k \in 1..Len(s.records) : /\ Without(s.records, i)[j] = s.records[k]
                                            /\ Without(history, i)[j] = history[k]
    <3>1. j \in 1..(Len(s.records) - 1) /\ j \in 1..Len(s.records) /\ j + 1 \in 1..Len(s.records)
      BY <2>2, <2>3
    <3> QED BY <3>1, <2>3, <2>4
  <2>6. Matches(Without(history, i), Without(s.records, i), NoId)
    BY <1>1, <2>5 DEF Matches
  <2>7. file'.store.records = Without(s.records, i)
    BY <1>1, <2>1 DEF Stores
  <2> QED BY <2>1, <2>6, <2>7 DEF JudgedInv, EditStore
<1>3. CASE /\ \/ \E id \in Ids(file.store) : file' = [file EXCEPT !.store.before = id]
              \/ file' = [file EXCEPT !.store.allowRetired = TRUE, !.store.cap = NoCap]
              \/ file' = [file EXCEPT !.kind = "corrupt"]
           /\ UNCHANGED history
  <2>1. file'.store.records = s.records
    <3>1. ASSUME NEW id, file' = [file EXCEPT !.store.before = id] PROVE file'.store.records = s.records
      BY <1>1, <3>1 DEF Stores
    <3>2. CASE file' = [file EXCEPT !.store.allowRetired = TRUE, !.store.cap = NoCap]
      BY <1>1, <3>2 DEF Stores
    <3>3. CASE file' = [file EXCEPT !.kind = "corrupt"]
      BY <1>1, <3>3
    <3> QED BY <1>3, <3>1, <3>2, <3>3
  <2> QED BY <1>1, <1>3, <2>1 DEF JudgedInv, EditStore
<1>4. CASE \E i \in DOMAIN s.records, b \in Damaged :
             /\ file' = [file EXCEPT !.store.records[i].build = b]
             /\ history' = [history EXCEPT ![i].build = b]
  <2> PICK i \in DOMAIN s.records, b \in Damaged :
             /\ file' = [file EXCEPT !.store.records[i].build = b]
             /\ history' = [history EXCEPT ![i].build = b]
    BY <1>4
  <2>1. Integrity(s)
    BY DEF PairInv, StoreInv
  <2>2. DamagedBy(file, file', history, history', i, b)
    BY <1>1, <2>1, StoreDamaged
  <2>3. DamagedRecords(file'.store.records, s.records, history', history, i, b)
    BY <2>2, Zenon DEF DamagedBy, DamagedRecords
  <2>4. Matches(history', file'.store.records, NoId)
    BY <1>1, <2>3, DamagedMatches
  <2> QED BY <2>4 DEF JudgedInv, EditStore
<1> QED BY <1>2, <1>3, <1>4 DEF EditStore

\* Whatever several runs record, retire, cap or overwrite, a candidate judged safe
\* where storage is gated decodes the data of every version still live
\* (validate_candidate_against_lineage).
THEOREM EveryVersionChecked == Spec => []HistoryChecked
<1>1. Init => JudgedInv
  <2> SUFFICES ASSUME Init PROVE JudgedInv
    OBVIOUS
  <2>1. Matches(history, file.store.records, NoId)
    BY EmptySeq DEF Init, Matches, NewStore
  <2> QED BY <2>1 DEF Init, JudgedInv, Judging, Idle, Checked
<1>2. PairInv /\ JudgedInv /\ [Next]_vars => JudgedInv'
  <2> SUFFICES ASSUME PairInv, JudgedInv, [Next]_vars PROVE JudgedInv'
    OBVIOUS
  <2>1. ASSUME NEW p \in Procs, Step(p) PROVE JudgedInv'
    BY <2>1, ProcessJudging
  <2>2. ASSUME NEW s \in Sides, Rewrite(s) \/ Unlink(s) \/ Recreate(s) PROVE JudgedInv'
    BY <2>2 DEF Rewrite, Unlink, Recreate, Changed, Ledger, JudgedInv
  <2>3. CASE EditStore
    BY <2>3, EditStoreJudging
  <2>4. CASE UNCHANGED vars
    BY <2>4 DEF vars, JudgedInv
  <2> QED BY <2>1, <2>2, <2>3, <2>4 DEF Next
<1>3. JudgedInv => HistoryChecked
  BY DEF JudgedInv, Judging, Checked, HistoryChecked
<1> QED BY <1>1, <1>2, <1>3, PairTypesKept, PTL DEF Spec

-----------------------------------------------------------------------------
(* What a watcher has judged                                               *)

\* Of a watch that has no event waiting and missed no change: what a cycle has
\* read so far is still there.
Current(p) ==
  run[p].args.watch /\ ~pending[p] /\ ~missed[p] =>
    /\ run[p].pc \in HasCandidate => run[p].read["new"] = input["new"]
    /\ run[p].pc \in HasBoth => run[p].read["old"] = input["old"]
    /\ run[p].pc = "waiting" /\ run[p].verdict # "error" =>
         run[p].read["new"] = input["new"] /\ run[p].read["old"] = input["old"]

CurrentInv == \A p \in Procs : Current(p)

\* A cycle that has read both files ends.
LEMMA EndCurrent ==
  ASSUME NEW p \in Procs, NEW v \in Verdicts, Current(p), Ended(p, v),
         UNCHANGED <<input, pending, missed>>, run[p].pc \in HasBoth \/ v = "error"
  PROVE  Current(p)'
BY DEF Current, Ended, HasCandidate, HasBoth

\* What a step of another process leaves.
LEMMA OthersCurrent ==
  ASSUME CurrentInv, NEW p \in Procs, StepType(p), UNCHANGED input, Current(p)',
         \A q \in Procs \ {p} : pending'[q] = pending[q] /\ missed'[q] = missed[q]
  PROVE  CurrentInv'
<1> SUFFICES ASSUME NEW q \in Procs PROVE Current(q)'
  BY DEF CurrentInv
<1>1. CASE q = p
  BY <1>1
<1>2. CASE q # p
  BY <1>2 DEF CurrentInv, Current, StepType
<1> QED BY <1>1, <1>2

LEMMA ProcessCurrent ==
  ASSUME PairInv, CurrentInv, NEW p \in Procs, Step(p)
  PROVE  CurrentInv'
<1>1. Current(p)
  BY DEF CurrentInv
<1>2. CASE Start(p)
  <2>1. run'[p].pc = "candidate"
    BY <1>2 DEF Start, PairInv, PairTypes, Idle
  <2>2. Current(p)'
    BY <2>1 DEF Current, HasCandidate, HasBoth
  <2>3. UNCHANGED input /\ \A q \in Procs \ {p} : pending'[q] = pending[q] /\ missed'[q] = missed[q]
    BY <1>2 DEF Start, Outside, PairInv, PairTypes
  <2> QED BY <1>2, <2>2, <2>3, StartType, OthersCurrent DEF PairInv
<1>3. CASE LoadCandidate(p)
  <2>1. UNCHANGED <<input, pending, missed>>
    BY <1>3 DEF LoadCandidate, Outside, Watching
  <2>2. CASE Ended(p, "error")
    BY <1>1, <1>3, <2>1, <2>2, EndCurrent, LoadCandidateType, OthersCurrent DEF Verdicts, PairInv
  <2>3. CASE run'[p].pc = "ledger" /\ run'[p].read["new"] = input["new"]
    <3>1. Current(p)'
      BY <2>1, <2>3 DEF Current, HasCandidate, HasBoth
    <3> QED BY <1>3, <2>1, <3>1, LoadCandidateType, OthersCurrent DEF PairInv
  <2> QED BY <1>3, <2>2, <2>3, LoadCandidateType DEF PairInv
<1>4. CASE OpenStore(p)
  <2>1. UNCHANGED <<input, pending, missed>> /\ run[p].pc = "ledger"
    BY <1>4 DEF OpenStore, Outside, Watching
  <2>2. CASE Ended(p, "error")
    BY <1>1, <1>4, <2>1, <2>2, EndCurrent, OpenStoreType, OthersCurrent DEF Verdicts, PairInv
  <2>3. CASE run'[p].pc = "compare" /\ run'[p].args = run[p].args /\ run'[p].read = run[p].read
    <3>1. Current(p)'
      BY <1>1, <2>1, <2>3 DEF Current, HasCandidate, HasBoth
    <3> QED BY <1>4, <2>1, <3>1, OpenStoreType, OthersCurrent DEF PairInv
  <2> QED BY <1>4, <2>2, <2>3, OpenStoreType DEF PairInv
<1>5. CASE Compare(p)
  <2>1. UNCHANGED <<input, pending, missed>> /\ run[p].pc = "compare"
    BY <1>5 DEF Compare, Outside, Watching
  <2>2. CASE Ended(p, "error")
    BY <1>1, <1>5, <2>1, <2>2, EndCurrent, CompareType, OthersCurrent DEF Verdicts, PairInv
  <2>3. CASE /\ run'[p].pc \in {"render", "record"} /\ run'[p].args = run[p].args
             /\ run'[p].read["new"] = run[p].read["new"] /\ run'[p].read["old"] = input["old"]
    <3>1. Current(p)'
      BY <1>1, <2>1, <2>3 DEF Current, HasCandidate, HasBoth
    <3> QED BY <1>5, <2>1, <3>1, CompareType, OthersCurrent DEF PairInv
  <2> QED BY <1>5, <2>2, <2>3, CompareType DEF PairInv
<1>6. CASE Record(p)
  <2>1. UNCHANGED <<input, pending, missed>> /\ run[p].pc = "record"
    BY <1>6 DEF Record, Outside, Watching
  <2>2. StepType(p)
    BY <1>6, RecordInv
  <2>3. CASE Ended(p, "error")
    BY <1>1, <2>1, <2>2, <2>3, EndCurrent, OthersCurrent DEF Verdicts
  <2>4. CASE run'[p].pc = "render" /\ run'[p].args = run[p].args /\ run'[p].read = run[p].read
    <3>1. Current(p)'
      BY <1>1, <2>1, <2>4 DEF Current, HasCandidate, HasBoth
    <3> QED BY <2>1, <2>2, <3>1, OthersCurrent
  <2> QED BY <1>6, <2>1, <2>3, <2>4, RecordType DEF PairInv, StoreInv
<1>7. CASE Render(p)
  <2>1. UNCHANGED <<input, pending, missed>> /\ run[p].pc = "render"
    BY <1>7 DEF Render, Outside, Watching
  <2>2. run[p] \in Runs /\ PairTypes /\ PairShape
    BY DEF PairInv, PairTypes
  <2>3. run[p].verdict \in Verdicts /\ "error" \in Verdicts /\ "render" \in HasBoth
    BY <2>2 DEF Runs, Verdicts, HasBoth
  <2>4. /\ StepType(p)
        /\ Ended(p, "error") \/ Ended(p, run[p].verdict)
    BY <1>7, <2>2, RenderType
  <2>5. Current(p)'
    BY <1>1, <2>1, <2>3, <2>4, EndCurrent
  <2> QED BY <2>1, <2>4, <2>5, OthersCurrent
<1>8. CASE Register(p) \/ Wake(p) \/ Cycle(p) \/ Stop(p) \/ Kill(p)
  <2>1. /\ UNCHANGED <<input, missed>> /\ StepType(p)
        /\ run'[p].pc \in {"waiting", "reappear", "candidate", "idle"}
    BY <1>8, LoopType DEF PairInv, Register, Wake, Cycle, Stop, Kill, Watching
  <2>2. \A q \in Procs \ {p} : pending'[q] = pending[q]
    BY <1>8 DEF Register, Wake, Cycle, Stop, Kill, Watching, PairInv, PairTypes
  <2>3. Current(p)'
    <3>1. CASE run'[p].pc = "waiting"
      <4>1. /\ Register(p) /\ run[p].pc = "register"
            /\ run'[p].args = run[p].args /\ run'[p].read = run[p].read
        BY <1>8, <3>1, LoopType DEF PairInv
      <4>2. UNCHANGED pending
        BY <4>1 DEF Register
      <4> QED BY <1>1, <2>1, <3>1, <4>1, <4>2 DEF Current, HasCandidate, HasBoth
    <3>2. CASE run'[p].pc # "waiting"
      BY <2>1, <3>2 DEF Current, HasCandidate, HasBoth
    <3> QED BY <3>1, <3>2
  <2> QED BY <2>1, <2>2, <2>3, OthersCurrent
<1> QED BY <1>2, <1>3, <1>4, <1>5, <1>6, <1>7, <1>8 DEF Step

\* A change is either told to a watch or missed by it.
LEMMA ChangedCurrent ==
  ASSUME PairInv, CurrentInv, NEW s \in Sides, NEW b \in Builds \cup {Missing}, Changed(s, b)
  PROVE  CurrentInv'
<1> SUFFICES ASSUME NEW p \in Procs, ~Current(p)' PROVE FALSE
  BY DEF CurrentInv
<1>1. UNCHANGED run
  BY DEF Changed
<1>2. /\ run[p].args.watch /\ ~pending'[p] /\ ~missed'[p]
      /\ run[p].pc \in HasCandidate \cup {"waiting"}
  BY <1>1 DEF Current, HasCandidate, HasBoth
<1>3. Started(p)
  BY <1>2 DEF Started, HasCandidate
<1>4. pending'[p] = (pending[p] \/ s \in watched[p])
  BY DEF Changed
<1>5. missed'[p] = (missed[p] \/ (Started(p) /\ s \notin watched[p]))
  BY DEF Changed
<1> QED BY <1>2, <1>3, <1>4, <1>5

\* A watch that waits has judged the builds that are there, unless an input changed
\* while nothing watched it (run_watch_mode).
THEOREM WaitsCurrent == Spec => []JudgedCurrent
<1>1. Init => CurrentInv
  BY DEF Init, Idle, CurrentInv, Current, HasCandidate, HasBoth
<1>2. PairInv /\ CurrentInv /\ [Next]_vars => CurrentInv'
  <2> SUFFICES ASSUME PairInv, CurrentInv, [Next]_vars PROVE CurrentInv'
    OBVIOUS
  <2>1. ASSUME NEW p \in Procs, Step(p) PROVE CurrentInv'
    BY <2>1, ProcessCurrent
  <2>2. ASSUME NEW s \in Sides, Rewrite(s) \/ Unlink(s) \/ Recreate(s) PROVE CurrentInv'
    <3>1. PICK b \in Builds \cup {Missing} : Changed(s, b)
      BY <2>2 DEF Rewrite, Unlink, Recreate
    <3> QED BY <3>1, ChangedCurrent
  <2>3. CASE EditStore
    BY <2>3 DEF EditStore, Watching, CurrentInv, Current
  <2>4. CASE UNCHANGED vars
    BY <2>4 DEF vars, CurrentInv, Current
  <2> QED BY <2>1, <2>2, <2>3, <2>4 DEF Next
<1>3. PairInv /\ CurrentInv => JudgedCurrent
  <2> SUFFICES ASSUME PairInv, CurrentInv, NEW p \in Procs,
                      run[p].pc = "waiting", ~pending[p], ~missed[p], run[p].verdict # "error"
               PROVE  run[p].read = input
    BY DEF JudgedCurrent
  <2>1. run[p].args.watch
    BY DEF PairInv, PairShape, RunShape
  <2>2. run[p].read["new"] = input["new"] /\ run[p].read["old"] = input["old"]
    BY <2>1 DEF CurrentInv, Current
  <2>3. run[p].read \in [Sides -> Builds \cup {Missing}] /\ input \in [Sides -> Builds \cup {Missing}]
    BY DEF PairInv, PairTypes, Runs
  <2> QED BY <2>2, <2>3 DEF Sides
<1> QED BY <1>1, <1>2, <1>3, PairTypesKept, PTL DEF Spec

=============================================================================
