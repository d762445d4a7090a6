---------------------------- MODULE ReadingProofs ----------------------------
(***************************************************************************)
(* Theorems about what a run reads: from an endpoint (RpcFetch), for any   *)
(* ledgers, hashes, lags, retries and faults of the endpoint; and the      *)
(* files that runs share (SharedFiles), for any number of processes, runs, *)
(* crashes, full disks and clears.                                         *)
(***************************************************************************)
EXTENDS RpcFetch, SharedFiles, SequenceTheorems, TLAPS

-----------------------------------------------------------------------------
(* A fetch: the inductive invariant.                                       *)

\* The endpoint has named its ledgers and answered what it was asked.
Faithful == seenFaults \cap {"noLedger", "strayed"} = {}

FetchTypes ==
  /\ chain \in [Ledgers -> Hashes \cup {"asset"}]
  /\ source \in Sources
  /\ source = "hash" => wanted \in Hashes
  /\ DOMAIN report = DOMAIN NoReport
  /\ pc \in IF source = "record" THEN {"instance", "code", "bundle", "replay", "done"}
            ELSE IF source = "hash" THEN {"hash", "network", "pin", "compare", "storage", "snapshot", "done"}
            ELSE {"instance", "code", "network", "pin", "compare", "storage", "snapshot", "done"}

\* Between the two reads: the instance names a wasm, and it is the one of the
\* ledger the read named.
InstanceRead ==
  pc = "code" =>
    /\ inst.executable \in Hashes
    /\ Faithful => inst.seq \in Ledgers /\ inst.executable = chain[inst.seq]

\* What a module is once it is fetched.
ModuleTrue ==
  module.kind = "ok" =>
    /\ module.code \in Hashes
    /\ source = "contract" /\ Faithful =>
         /\ module.ledger \in Ledgers
         /\ module.code = chain[module.ledger] /\ module.named = module.code
    /\ source = "hash" => module.code = wanted

\* The pin is checked before the module is compared.
PinFirst ==
  /\ pc \in {"network", "pin", "compare", "bundle", "replay"} => module.kind = "ok"
  /\ pc = "compare" => expected \in {"none", module.code}
  /\ report.code # "none" => /\ expected \in {"none", report.code}
                             /\ source = "hash" => report.code = wanted

\* An exchange of the recorder.
Exchange(e) == [method |-> "getLedgerEntries", response |-> e]
NamesWasm(e) == e.type = "instance" /\ e.executable \in Hashes

\* The recorder has the exchanges it made; the file keeps the digest of the bytes,
\* whatever else happens to it.
RecordKept ==
  source = "record" =>
    /\ pc = "instance" => recorded = <<>>
    /\ pc = "code" => \E e : NamesWasm(e) /\ recorded = <<Exchange(e)>>
    /\ pc \in {"bundle", "replay"} \/ (pc = "done" /\ module.kind = "ok") =>
         \E e, c : NamesWasm(e) /\ recorded = <<Exchange(e), Exchange(c)>>
    /\ pc = "replay" \/ (pc = "done" /\ module.kind = "ok") =>
         bundle.artifact.sha256 = module.code
    /\ pc = "done" /\ module.kind = "ok" => replayed = Replay(bundle)

FetchInv == FetchTypes /\ InstanceRead /\ ModuleTrue /\ PinFirst /\ RecordKept

-----------------------------------------------------------------------------
(* Replies.                                                                *)

\* A usable reply has an entry of its type. Without a missing ledger and a stray it
\* is the answer of the ledger it names.
LEMMA ReplyTypes ==
  ASSUME NEW fault \in Faults \cup {"none"}, NEW l \in Served, Named \in Hashes \/ pc = "instance",
         NEW e, NEW r \in Replies(fault, l, e),
         e \in {InstanceAt(k) : k \in Served} \cup {Code(h, h) : h \in Hashes}
  PROVE  /\ fault \notin {"noLedger", "strayed"} =>
              r.seq = l /\ (r.entry = e \/ r.entry.type = "garbled")
         /\ r.entry.type = "code" => r.entry.digest \in Hashes
         /\ r.entry.type = "instance" => r.entry.executable \in {chain[k] : k \in Ledgers}
<1>1. CASE fault = "strayed"
  <2>1. r.entry \in Strays
    BY <1>1 DEF Replies
  <2>2. \A h \in Hashes : /\ Code(h, h).type = "code" /\ Code(h, h).digest \in Hashes
                          /\ Code(Named, h).type = "code" /\ Code(Named, h).digest \in Hashes
    BY DEF Code
  <2>3. \A k \in Served : /\ InstanceAt(k).type = "instance" /\ k \in Ledgers
                          /\ InstanceAt(k).executable = chain[k]
    BY DEF InstanceAt, Served
  <2> QED BY <1>1, <2>1, <2>2, <2>3 DEF Strays
<1>2. CASE fault # "strayed"
  <2>1. /\ r.seq = (IF fault = "noLedger" THEN 0 ELSE l)
        /\ r.entry = (IF fault = "garbled" THEN Garbled ELSE e)
    BY <1>2 DEF Replies
  <2>2. Garbled.type = "garbled"
    BY DEF Garbled
  <2>3. /\ e.type = "code" => e.digest \in Hashes
        /\ e.type = "instance" => e.executable \in {chain[k] : k \in Ledgers}
    BY DEF Code, InstanceAt, Served
  <2> QED BY <1>2, <2>1, <2>2, <2>3
<1> QED BY <1>1, <1>2

\* A fault that was met stays met.
LEMMA MetFault ==
  ASSUME NEW fault \in Faults \cup {"none"}, Met(fault), Faithful'
  PROVE  Faithful /\ fault \notin {"noLedger", "strayed"}
<1>1. "none" \notin Faults
  BY RpcAssumption
<1> QED BY <1>1 DEF Met, Faithful

LEMMA SecondAppended ==
  ASSUME NEW a, NEW b
  PROVE  Append(<<a>>, b) = <<a, b>>
<1> DEFINE s == Append(<<a>>, b)
           t == <<a, b>>
<1>1. <<a>> \in Seq({a, b}) /\ b \in {a, b}
  OBVIOUS
<1>2. Len(s) = 2 /\ s \in Seq({a, b}) /\ s[1] = a /\ s[2] = b
  BY <1>1
<1>3. t \in Seq({a, b}) /\ Len(t) = 2 /\ t[1] = a /\ t[2] = b
  OBVIOUS
<1> HIDE DEF s, t
<1>4. \A i \in 1..2 : s[i] = t[i]
  BY <1>2, <1>3
<1>5. s = t
  BY <1>2, <1>3, <1>4, SeqEqual
<1> QED BY <1>5 DEF s, t

\* A bundle that is as it was written is accepted.
LEMMA WrittenReplays ==
  ASSUME NEW e, NEW c, NamesWasm(e), NEW bytes \in Hashes
  PROVE  Replay(Bundle(<<Exchange(e), Exchange(c)>>, bytes)).kind = "module"
<1> DEFINE x == <<Exchange(e), Exchange(c)>>
           b == Bundle(x, bytes)
<1>1. /\ b.version = 1 /\ b.artifact.bytes = bytes /\ b.artifact.sha256 = bytes
      /\ b.entries = [i \in DOMAIN x |-> BundleEntry(i, x[i].method, x[i].response)]
  BY DEF Bundle
<1>2. DOMAIN x = 1..2 /\ x[1] = Exchange(e) /\ x[2] = Exchange(c)
  OBVIOUS
<1> HIDE DEF b, x
<1>3. \A i \in 1..2 : x[i].method = "getLedgerEntries"
  BY <1>2 DEF Exchange
<1>4. \A i \in 1..2 : b.entries[i] = BundleEntry(i, x[i].method, x[i].response)
  BY <1>1, <1>2
<1>5. Len(b.entries) = 2 /\ DOMAIN b.entries = 1..2
  BY <1>1, <1>2
<1>6. Validates(b)
  BY <1>1, <1>4, <1>5 DEF Validates, BundleEntry
<1>7. \A i \in 1..2 : b.entries[i].method = "getLedgerEntries"
  BY <1>3, <1>4 DEF BundleEntry
<1>8. b.entries[1].response = e
  BY <1>2, <1>4 DEF BundleEntry, Exchange
<1>9. bytes # "garbled" /\ e.executable \notin {"garbled", "asset"} /\ e.type = "instance"
  BY RpcAssumption DEF NamesWasm
<1>10. Replay(b).kind = "module"
  BY <1>1, <1>5, <1>6, <1>7, <1>8, <1>9 DEF Replay
<1> QED BY <1>10 DEF b, x

\* What happens to the file leaves the digest of the bytes as it was written.
LEMMA DigestKept ==
  ASSUME NEW x, NEW bytes, NEW junk, NEW others,
         NEW b \in {Bundle(x, bytes)} \cup Damaged(Bundle(x, bytes), junk, others)
  PROVE  b.artifact.sha256 = bytes
<1> DEFINE w == Bundle(x, bytes)
<1>1. w.artifact.sha256 = bytes /\ w.artifact = [bytes |-> bytes, sha256 |-> bytes]
  BY DEF Bundle
<1>2. \A s : [w EXCEPT !.entries = s].artifact.sha256 = bytes
  BY DEF Bundle
<1>3. \A d : [w EXCEPT !.artifact.bytes = d].artifact.sha256 = bytes
  BY DEF Bundle
<1>4. [w EXCEPT !.version = 2].artifact.sha256 = bytes
  BY DEF Bundle
<1> HIDE DEF w
<1>5. \/ b = w
      \/ \E s : b = [w EXCEPT !.entries = s]
      \/ \E d : b = [w EXCEPT !.artifact.bytes = d]
      \/ b = [w EXCEPT !.version = 2]
  BY DEF Damaged, w
<1> QED BY <1>1, <1>2, <1>3, <1>4, <1>5

\* What a replay returns has the digest in the file.
LEMMA ReplayDigest ==
  ASSUME NEW b, Replay(b).kind = "module"
  PROVE  Replay(b).bytes = b.artifact.sha256
BY DEF Replay, Rejected, Validates

-----------------------------------------------------------------------------
(* The invariant holds initially and is kept.                              *)

LEMMA FetchStarts == FetchInit => FetchInv
<1> SUFFICES ASSUME FetchInit PROVE FetchInv
  OBVIOUS
<1>1. source \in {"contract", "hash", "record"} /\ pc \in {"hash", "instance"}
  BY RpcAssumption DEF FetchInit
<1>2. FetchTypes /\ InstanceRead
  BY <1>1 DEF FetchInit, FetchTypes, InstanceRead
<1>3. ModuleTrue /\ PinFirst
  BY <1>1 DEF FetchInit, ModuleTrue, PinFirst, NoModule, NoReport
<1>4. RecordKept
  BY <1>1 DEF FetchInit, RecordKept, NoModule
<1> QED BY <1>2, <1>3, <1>4 DEF FetchInv

\* A step that fails the run leaves nothing to be true of a module.
LEMMA FailKeeps ==
  ASSUME FetchInv, pc # "done", NEW why, Fail(why), UNCHANGED <<chain, args, report>>
  PROVE  FetchInv'
<1>1. module'.kind = "error" /\ pc' = "done"
  BY DEF Fail, Failure, NoModule
<1> USE DEF FetchInv, args
<1>2. FetchTypes' /\ InstanceRead'
  BY <1>1 DEF FetchTypes, InstanceRead
<1>3. ModuleTrue' /\ PinFirst'
  BY <1>1 DEF ModuleTrue, PinFirst
<1>4. RecordKept'
  BY <1>1 DEF RecordKept
<1> QED BY <1>2, <1>3, <1>4

LEMMA InstanceKeeps == FetchInv /\ FetchInstance => FetchInv'
<1> SUFFICES ASSUME FetchInv, FetchInstance PROVE FetchInv'
  OBVIOUS
<1>1. PICK l \in Served, fault \in Faults \cup {"none"} :
        Met(fault) /\ \E r \in Replies(fault, l, InstanceAt(l)) : HandleInstance(r)
  BY DEF FetchInstance
<1>2. PICK r \in Replies(fault, l, InstanceAt(l)) : HandleInstance(r)
  BY <1>1
<1>3. pc = "instance" /\ UNCHANGED <<chain, head, args, report, bundle, replayed>>
  BY DEF FetchInstance
<1>4. InstanceAt(l) \in {InstanceAt(k) : k \in Served} \cup {Code(h, h) : h \in Hashes}
  OBVIOUS
<1>5. /\ fault \notin {"noLedger", "strayed"} =>
           r.seq = l /\ (r.entry = InstanceAt(l) \/ r.entry.type = "garbled")
      /\ r.entry.type = "instance" => r.entry.executable \in {chain[k] : k \in Ledgers}
  BY <1>3, <1>4, ReplyTypes
<1>6. ASSUME NEW why, Fail(why) PROVE FetchInv'
  BY <1>3, <1>6, FailKeeps
<1>7. CASE /\ r.entry.type = "instance" /\ r.entry.executable # "asset"
           /\ inst' = [executable |-> r.entry.executable, seq |-> r.seq]
           /\ Recording(r)
           /\ pc' = "code"
           /\ UNCHANGED <<attempt, module>>
  <2> USE DEF FetchInv, args
  <2>1. r.entry.executable \in Hashes
    BY <1>5, <1>7 DEF FetchTypes
  <2>2. inst'.executable = r.entry.executable /\ inst'.seq = r.seq
    BY <1>7
  <2>3. ASSUME Faithful' PROVE inst'.seq \in Ledgers /\ inst'.executable = chain[inst'.seq]
    <3>1. fault \notin {"noLedger", "strayed"}
      BY <1>1, <2>3, MetFault
    <3>2. r.seq = l /\ r.entry = InstanceAt(l) /\ l \in Ledgers
      BY <1>5, <1>7, <3>1 DEF Served
    <3> QED BY <2>2, <3>2 DEF InstanceAt
  <2>4. FetchTypes'
    BY <1>3, <1>7 DEF FetchTypes
  <2>5. InstanceRead'
    BY <1>3, <2>1, <2>2, <2>3 DEF InstanceRead
  <2>6. Faithful' => Faithful
    BY <1>1, MetFault
  <2>7. ModuleTrue' /\ PinFirst'
    BY <1>3, <1>7, <2>6 DEF ModuleTrue, PinFirst
  <2>8. RecordKept'
    <3>1. source = "record" => recorded' = Append(recorded, Exchange(r.entry)) /\ recorded = <<>>
      BY <1>3, <1>7 DEF Recording, Exchange, RecordKept
    <3>2. source = "record" => recorded' = <<Exchange(r.entry)>>
      BY <3>1
    <3>3. NamesWasm(r.entry)
      BY <1>7, <2>1 DEF NamesWasm
    <3> QED BY <1>3, <1>7, <3>2, <3>3 DEF RecordKept
  <2> QED BY <2>4, <2>5, <2>7, <2>8
<1> QED BY <1>2, <1>6, <1>7 DEF HandleInstance

LEMMA CodeKeeps == FetchInv /\ FetchCode => FetchInv'
<1> SUFFICES ASSUME FetchInv, FetchCode PROVE FetchInv'
  OBVIOUS
<1>1. PICK l \in Served, fault \in Faults \cup {"none"} :
        Met(fault) /\ \E r \in Replies(fault, l, Code(Named, Named)) : HandleCode(r)
  BY DEF FetchCode
<1>2. PICK r \in Replies(fault, l, Code(Named, Named)) : HandleCode(r)
  BY <1>1
<1>3. pc = "code" /\ UNCHANGED <<chain, head, args, report, bundle, replayed>>
  BY DEF FetchCode
<1>4. source \in {"contract", "record"} /\ Named = inst.executable /\ Named \in Hashes
  BY <1>3, RpcAssumption DEF FetchInv, FetchTypes, InstanceRead, Named
<1>5. /\ fault \notin {"noLedger", "strayed"} =>
           r.seq = l /\ (r.entry = Code(Named, Named) \/ r.entry.type = "garbled")
      /\ r.entry.type = "code" => r.entry.digest \in Hashes
  <2>1. Code(Named, Named) \in {InstanceAt(k) : k \in Served} \cup {Code(h, h) : h \in Hashes}
    BY <1>4
  <2> QED BY <1>4, <2>1, ReplyTypes
<1>6. ASSUME NEW why, Fail(why) PROVE FetchInv'
  BY <1>3, <1>6, FailKeeps
<1>7. Faithful' => Faithful /\ fault \notin {"noLedger", "strayed"}
  BY <1>1, MetFault
<1> USE DEF FetchInv, args
<1>8. CASE Torn(r) /\ Retry
  <2>1. source = "contract"
    BY <1>8 DEF Torn
  <2>2. CASE pc' = "instance" /\ UNCHANGED module
    <3>1. FetchTypes' /\ InstanceRead' /\ RecordKept'
      BY <1>3, <2>1, <2>2 DEF FetchTypes, InstanceRead, RecordKept
    <3>2. ModuleTrue' /\ PinFirst'
      BY <1>3, <1>7, <2>1, <2>2 DEF ModuleTrue, PinFirst
    <3> QED BY <3>1, <3>2
  <2>3. CASE pc' = "done" /\ module' = Failure("snapshot")
    <3>1. Fail("snapshot") \/ module'.kind = "error"
      BY <2>3 DEF Failure, NoModule
    <3>2. FetchTypes' /\ InstanceRead' /\ RecordKept'
      BY <1>3, <2>1, <2>3 DEF FetchTypes, InstanceRead, RecordKept
    <3>3. ModuleTrue' /\ PinFirst'
      BY <1>3, <2>1, <2>3 DEF ModuleTrue, PinFirst, Failure, NoModule
    <3> QED BY <3>2, <3>3
  <2> QED BY <1>8, <2>2, <2>3 DEF Retry
<1>9. CASE /\ ~Torn(r) /\ r.entry.type = "code"
           /\ module' = [NoModule EXCEPT !.kind = "ok", !.code = r.entry.digest,
                           !.named = inst.executable,
                           !.ledger = IF inst.seq # 0 THEN inst.seq ELSE r.seq]
           /\ Recording(r)
           /\ pc' = IF source = "record" THEN "bundle" ELSE "network"
           /\ UNCHANGED <<attempt, inst>>
  <2>1. /\ module'.kind = "ok" /\ module'.code = r.entry.digest
        /\ module'.named = inst.executable
        /\ inst.seq # 0 => module'.ledger = inst.seq
    BY <1>9 DEF NoModule
  <2>2. FetchTypes' /\ InstanceRead'
    BY <1>3, <1>4, <1>9 DEF FetchTypes, InstanceRead
  <2>3. ASSUME Faithful'
        PROVE  /\ module'.ledger \in Ledgers
               /\ module'.code = chain[module'.ledger] /\ module'.named = module'.code
    <3>1. r.entry.digest = inst.executable
      BY <1>4, <1>5, <1>7, <1>9, <2>3 DEF Code
    <3>2. inst.seq \in Ledgers /\ inst.executable = chain[inst.seq]
      BY <1>3, <1>7, <2>3 DEF InstanceRead
    <3>3. inst.seq # 0
      BY <3>2, RpcAssumption DEF Ledgers
    <3> QED BY <2>1, <3>1, <3>2, <3>3
  <2>4. ModuleTrue'
    BY <1>3, <1>4, <1>5, <1>9, <2>1, <2>3 DEF ModuleTrue
  <2>5. PinFirst'
    BY <1>3, <1>4, <1>9, <2>1 DEF PinFirst
  <2>6. RecordKept'
    <3>1. CASE source = "record"
      <4>1. PICK e : NamesWasm(e) /\ recorded = <<Exchange(e)>>
        BY <1>3, <3>1 DEF RecordKept
      <4>2. recorded' = Append(recorded, Exchange(r.entry))
        BY <1>9, <3>1 DEF Recording, Exchange
      <4>3. recorded' = <<Exchange(e), Exchange(r.entry)>>
        BY <4>1, <4>2, SecondAppended
      <4> QED BY <1>3, <1>9, <3>1, <4>1, <4>3 DEF RecordKept
    <3> QED BY <1>3, <3>1 DEF RecordKept
  <2> QED BY <2>2, <2>4, <2>5, <2>6
<1> QED BY <1>2, <1>6, <1>8, <1>9 DEF HandleCode

LEMMA HashKeeps == FetchInv /\ FetchByHash => FetchInv'
<1> SUFFICES ASSUME FetchInv, FetchByHash PROVE FetchInv'
  OBVIOUS
<1>1. PICK l \in Served, fault \in Faults \cup {"none"} :
        Met(fault) /\ \E r \in Replies(fault, l, Code(Named, Named)) : HandleByHash(r)
  BY DEF FetchByHash
<1>2. PICK r \in Replies(fault, l, Code(Named, Named)) : HandleByHash(r)
  BY <1>1
<1>3. pc = "hash" /\ UNCHANGED <<chain, head, args, report, bundle, replayed>>
  BY DEF FetchByHash
<1>4. source = "hash"
  BY <1>3 DEF FetchInv, FetchTypes
<1>5. ASSUME NEW why, Fail(why) PROVE FetchInv'
  BY <1>3, <1>5, FailKeeps
<1>6. CASE /\ module' = [NoModule EXCEPT !.kind = "ok", !.code = wanted, !.named = wanted,
                           !.ledger = r.seq]
           /\ pc' = "network"
           /\ UNCHANGED <<attempt, inst, recorded>>
  <2> USE DEF FetchInv, args
  <2>1. module'.kind = "ok" /\ module'.code = wanted
    BY <1>6 DEF NoModule
  <2>2. FetchTypes' /\ InstanceRead'
    BY <1>3, <1>4, <1>6 DEF FetchTypes, InstanceRead
  <2>3. ModuleTrue'
    BY <1>3, <1>4, <2>1 DEF ModuleTrue, FetchTypes
  <2>4. PinFirst'
    BY <1>3, <1>6, <2>1 DEF PinFirst
  <2>5. RecordKept'
    BY <1>3, <1>4 DEF RecordKept
  <2> QED BY <2>2, <2>3, <2>4, <2>5
<1> QED BY <1>2, <1>5, <1>6 DEF HandleByHash

\* Steps after the fetch leave the code, its name and its ledger alone.
LEMMA ReportKeeps ==
  FetchInv /\ (QueryNetwork \/ CheckExpected \/ Compare \/ FetchStorage \/ LoadSnapshot) => FetchInv'
<1> SUFFICES ASSUME FetchInv,
                    QueryNetwork \/ CheckExpected \/ Compare \/ FetchStorage \/ LoadSnapshot
             PROVE  FetchInv'
  OBVIOUS
<1> USE DEF FetchInv, args
<1>1. /\ pc \in {"network", "pin", "compare", "storage", "snapshot"}
      /\ UNCHANGED <<chain, args, recorded, bundle, replayed, inst>>
  BY DEF QueryNetwork, CheckExpected, Compare, FetchStorage, LoadSnapshot, HandleStorage
<1>2. source # "record"
  BY <1>1 DEF FetchTypes
<1>3. Faithful' => Faithful
  <2>1. CASE FetchStorage
    BY <2>1, MetFault DEF FetchStorage
  <2>2. CASE ~FetchStorage
    BY <2>2 DEF QueryNetwork, CheckExpected, Compare, LoadSnapshot, Faithful
  <2> QED BY <2>1, <2>2
<1>4. /\ pc' \in {"pin", "compare", "storage", "snapshot", "done"}
      /\ pc' = "pin" => pc = "network"
      /\ pc' = "compare" => pc = "pin" /\ CheckExpected
  BY DEF QueryNetwork, CheckExpected, Compare, FetchStorage, LoadSnapshot, HandleStorage
<1>5. FetchTypes' /\ InstanceRead' /\ RecordKept'
  <2>1. FetchTypes'
    <3>1. \A r : HandleStorage(r) => DOMAIN report' = DOMAIN report
      BY DEF HandleStorage
    <3>2. FetchStorage => DOMAIN report' = DOMAIN report
      BY <3>1 DEF FetchStorage
    <3>3. LoadSnapshot => DOMAIN report' = DOMAIN report
      BY DEF LoadSnapshot
    <3>4. QueryNetwork \/ CheckExpected \/ Compare => DOMAIN report' = DOMAIN report
      BY DEF QueryNetwork, CheckExpected, Compare
    <3>5. DOMAIN report' = DOMAIN report
      BY <3>2, <3>3, <3>4
    <3> QED BY <1>1, <1>2, <1>4, <3>5 DEF FetchTypes
  <2>2. InstanceRead' /\ RecordKept'
    BY <1>1, <1>2, <1>4 DEF InstanceRead, RecordKept
  <2> QED BY <2>1, <2>2
<1>6. CASE QueryNetwork
  <2>1. \E n : module' = [module EXCEPT !.network = n]
    BY <1>6 DEF QueryNetwork
  <2>2. module'.kind = module.kind /\ module'.code = module.code
        /\ module'.named = module.named /\ module'.ledger = module.ledger
    BY <2>1
  <2>3. ModuleTrue'
    BY <1>1, <1>3, <2>2 DEF ModuleTrue
  <2>4. PinFirst'
    BY <1>1, <1>6, <2>2 DEF PinFirst, QueryNetwork
  <2> QED BY <1>5, <2>3, <2>4
<1>7. CASE CheckExpected
  <2>1. CASE expected \in {"none", module.code}
    BY <1>1, <1>3, <1>5, <1>7, <2>1 DEF CheckExpected, ModuleTrue, PinFirst
  <2>2. CASE expected \notin {"none", module.code}
    BY <1>1, <1>3, <1>5, <1>7, <2>2 DEF CheckExpected, ModuleTrue, PinFirst, Failure, NoModule
  <2> QED BY <2>1, <2>2
<1>8. CASE Compare
  <2>1. UNCHANGED module /\ pc = "compare" /\ pc' \in {"done", "storage", "snapshot"}
        /\ report' = [report EXCEPT !.code = module.code]
    BY <1>8 DEF Compare
  <2>2. report'.code # "none" => report'.code = module.code
    BY <2>1
  <2>3. ModuleTrue'
    BY <1>1, <1>3, <2>1 DEF ModuleTrue
  <2>4. PinFirst'
    BY <1>1, <2>1, <2>2 DEF PinFirst, ModuleTrue
  <2> QED BY <1>5, <2>3, <2>4
<1>9. CASE FetchStorage \/ LoadSnapshot
  <2>0. DOMAIN report = {"provenance", "code", "ledger", "storageLedger", "integrity"}
    BY DEF FetchTypes, NoReport
  <2>1. /\ pc' = "done"
        /\ module' = Failure("snapshot") \/ UNCHANGED module
        /\ report'.code = report.code
    <3>1. \A r : HandleStorage(r) =>
             /\ pc' = "done"
             /\ module' = Failure("snapshot") \/ UNCHANGED module
             /\ report'.code = report.code
      BY <2>0 DEF HandleStorage
    <3>2. CASE FetchStorage
      BY <3>1, <3>2 DEF FetchStorage
    <3>3. CASE LoadSnapshot
      BY <2>0, <3>3 DEF LoadSnapshot
    <3> QED BY <1>9, <3>2, <3>3
  <2>2. ModuleTrue'
    BY <1>1, <1>3, <2>1 DEF ModuleTrue, Failure, NoModule
  <2>3. PinFirst'
    BY <1>1, <2>1 DEF PinFirst
  <2> QED BY <1>5, <2>2, <2>3
<1> QED BY <1>6, <1>7, <1>8, <1>9

LEMMA BundleKeeps == FetchInv /\ (WriteBundle \/ ReplayFile) => FetchInv'
<1> SUFFICES ASSUME FetchInv, WriteBundle \/ ReplayFile PROVE FetchInv'
  OBVIOUS
<1> USE DEF FetchInv, args
<1>1. /\ UNCHANGED <<chain, args, recorded, module, inst, report, seenFaults>>
      /\ \/ pc = "bundle" /\ pc' = "replay"
         \/ pc = "replay" /\ pc' = "done"
  BY DEF WriteBundle, ReplayFile
<1>2. source = "record" /\ module.kind = "ok"
  BY <1>1 DEF FetchTypes, PinFirst
<1>3. FetchTypes' /\ InstanceRead'
  BY <1>1, <1>2 DEF FetchTypes, InstanceRead
<1>4. ModuleTrue' /\ PinFirst'
  BY <1>1, <1>2 DEF ModuleTrue, PinFirst, Faithful
<1>5. CASE WriteBundle
  <2>1. bundle'.artifact.sha256 = module.code
    BY <1>5, DigestKept DEF WriteBundle
  <2> QED BY <1>1, <1>2, <1>3, <1>4, <1>5, <2>1 DEF RecordKept, WriteBundle
<1>6. CASE ReplayFile
  BY <1>1, <1>2, <1>3, <1>4, <1>6 DEF RecordKept, ReplayFile
<1> QED BY <1>5, <1>6

LEMMA FetchSteps == FetchInv /\ [FetchNext]_fetchVars => FetchInv'
<1> SUFFICES ASSUME FetchInv, [FetchNext]_fetchVars PROVE FetchInv'
  OBVIOUS
<1>1. CASE CloseLedger \/ UNCHANGED fetchVars
  <2>1. UNCHANGED <<chain, args, pc, inst, recorded, module, report, bundle, replayed, seenFaults>>
    BY <1>1 DEF CloseLedger, fetchVars
  <2> USE DEF FetchInv, args
  <2>2. FetchTypes' /\ InstanceRead' /\ ModuleTrue' /\ PinFirst'
    BY <2>1 DEF FetchTypes, InstanceRead, ModuleTrue, PinFirst, Faithful
  <2>3. RecordKept'
    BY <2>1 DEF RecordKept
  <2> QED BY <2>2, <2>3
<1>2. CASE FetchInstance \/ FetchCode \/ FetchByHash
  BY <1>2, InstanceKeeps, CodeKeeps, HashKeeps
<1>3. CASE QueryNetwork \/ CheckExpected \/ Compare \/ FetchStorage \/ LoadSnapshot
  BY <1>3, ReportKeeps
<1>4. CASE WriteBundle \/ ReplayFile
  BY <1>4, BundleKeeps
<1> QED BY <1>1, <1>2, <1>3, <1>4 DEF FetchNext, Run

-----------------------------------------------------------------------------
(* The theorems.                                                           *)

LEMMA FetchAlways == FetchSpec => []FetchInv
BY FetchStarts, FetchSteps, PTL DEF FetchSpec

\* However many ledgers close between the two reads and however far the nodes
\* lag, a baseline fetched by contract id is the code of the ledger that its
\* provenance names (fetch_wasm_from_rpc_inner); and no report is built on bytes
\* that --expected-wasm-hash or the code hash asked for do not name.
THEOREM SnapshotIsTrue == FetchSpec => []SnapshotTrue
<1>1. FetchInv => SnapshotTrue
  BY DEF FetchInv, ModuleTrue, PinFirst, SnapshotTrue, Faithful
<1> QED BY <1>1, FetchAlways, PTL

\* Whatever one accident does to a recorded bundle, a replay returns the bytes
\* that were recorded or refuses the file (replay_wasm_from_bundle), and it
\* accepts the file as it was written.
THEOREM ReplayIsSame == FetchSpec => []ReplaySameOrRefused
<1>1. FetchInv => ReplaySameOrRefused
  <2> SUFFICES ASSUME FetchInv, source = "record", pc = "done", module.kind = "ok"
               PROVE  /\ replayed.kind = "module" => replayed.bytes = module.code
                      /\ bundle = Bundle(recorded, module.code) => replayed.kind = "module"
    BY DEF ReplaySameOrRefused
  <2>1. replayed = Replay(bundle) /\ bundle.artifact.sha256 = module.code /\ module.code \in Hashes
    BY DEF FetchInv, RecordKept, ModuleTrue
  <2>2. PICK e, c : NamesWasm(e) /\ recorded = <<Exchange(e), Exchange(c)>>
    BY DEF FetchInv, RecordKept
  <2>3. replayed.kind = "module" => replayed.bytes = module.code
    BY <2>1, ReplayDigest
  <2>4. bundle = Bundle(recorded, module.code) => replayed.kind = "module"
    BY <2>1, <2>2, WrittenReplays
  <2> QED BY <2>3, <2>4
<1> QED BY <1>1, FetchAlways, PTL

-----------------------------------------------------------------------------
(* Shared files: the inductive invariant.                                  *)

Busy == {"mkdir", "open", "part1", "part2", "rename", "remove"}
Pcs == Busy \cup {"idle", "exists", "read", "readMeta", "produce", "openMeta", "meta"}
Outcome == {"none", "hit", "bypassed", "error", "miss", "written", "crashed"}

Record ==
  [pc : Pcs, noCache : BOOLEAN, fd : Names \cup {"orphan"}, outcome : Outcome,
   origin : Value, undisturbed : BOOLEAN]

FileTypes ==
  /\ store \in {"metadata", "remote", "oci", "output", "status"}
  /\ dir \in BOOLEAN
  /\ file \in [Names -> Content \cup {Absent}]
  /\ run \in [Procs -> Record]
  /\ clearing = Absent \/ store \in Caches
  /\ contended \in BOOLEAN /\ faults \in Nat

\* A descriptor that is not an orphan is open on a file that is there: the
\* temporary one of its process, or what became of it, or the sidecar.
Descriptor(p) ==
  run[p].fd # "orphan" =>
    /\ file[run[p].fd] \in Content
    /\ \/ run[p].fd = "meta" /\ run[p].pc = "meta"
       \/ run[p].fd \in {Tmp(p), "data"} /\ run[p].pc \in {"part1", "part2", "rename", "remove"}

Stepwise(p) ==
  /\ run[p].pc \in {"openMeta", "meta"} => store \in Sidecar
  /\ run[p].pc \in {"exists", "read", "readMeta"} => store \in Caches
  /\ run[p].pc = "readMeta" => store \in Sidecar

\* A writer without a rival: no other process writes under its temporary name,
\* and what is under the name is what it has written so far.
Alone == \A p, q \in Procs : p # q /\ Writing(p) /\ Writing(q) => Tmp(p) # Tmp(q)

Filled(c, p) == c = [i \in Part |-> Product(p)]

Progress(p) ==
  /\ run[p].pc \in {"part1", "part2", "rename", "remove"} =>
       run[p].fd \in {Tmp(p), "orphan"} /\ (run[p].fd = "orphan" => file[Tmp(p)] = Absent)
  /\ run[p].pc = "part2" /\ run[p].fd = Tmp(p) => file[Tmp(p)][1] = Product(p)
  /\ run[p].pc = "rename" /\ run[p].fd = Tmp(p) => Filled(file[Tmp(p)], p)

NoRival ==
  store = "status" \/ ~contended =>
    /\ Alone
    /\ \A p \in Procs : Progress(p)
    /\ file["data"] = Absent \/ Whole(file["data"])

\* Rivals of a cache write the same bytes: a part that is missing is still to be
\* written by a process whose descriptor is on the file.
ToWrite(i) == IF i = 1 THEN {"part1"} ELSE {"part1", "part2"}

Completing(n) ==
  \A i \in Part :
    \/ file[n][i] = "artifact"
    \/ \E q \in Procs : run[q].fd = n /\ run[q].pc \in ToWrite(i)

CacheCompletes ==
  store \in Caches /\ faults = 0 =>
    \A n \in {"tmp", "data"} : file[n] = Absent \/ Completing(n)

WholeInv ==
  /\ FileTypes
  /\ \A p \in Procs : Descriptor(p) /\ Stepwise(p)
  /\ NoRival /\ CacheCompletes

-----------------------------------------------------------------------------
(* An undisturbed run.                                                     *)

OfArtifact(n) == file[n] = Absent \/ \A i \in Part : file[n][i] \in {"artifact", Absent}

OnTrack(p) ==
  /\ run[p].pc \in {"part1", "part2", "rename", "remove"} => run[p].fd = Tmp(p)
  /\ run[p].pc = "meta" => run[p].fd = "meta"
  /\ run[p].pc \in {"open", "part1", "part2", "rename", "openMeta", "meta"} => dir
  /\ run[p].pc # "remove"
  /\ run[p].pc \in {"part2", "rename"} => file[Tmp(p)][1] = Product(p)
  /\ run[p].pc = "rename" => file[Tmp(p)][2] = Product(p)
  /\ run[p].pc \in {"readMeta", "openMeta", "meta"} => Filled(file["data"], p)

Steady(p) ==
  Active(p) /\ run[p].undisturbed =>
    /\ clearing = Absent
    /\ \A q \in Procs \ {p} : ~Active(q)
    /\ OnTrack(p)

\* Cache entries never hold anything but the bytes every run computes.
Genuine == store \in Caches => OfArtifact("tmp") /\ OfArtifact("data")

HealInv == Genuine /\ \A p \in Procs : Steady(p)

-----------------------------------------------------------------------------
(* Names and documents.                                                    *)

LEMMA TmpNames ==
  ASSUME NEW p \in Procs, FileTypes
  PROVE  /\ Tmp(p) \in Names /\ Tmp(p) \notin {"data", "meta", "orphan"}
         /\ store # "status" => Tmp(p) = "tmp"
         /\ store = "status" => Tmp(p) = p
         /\ store \in Caches => store # "status"
BY FilesAssumption DEF Tmp, Names, Caches

LEMMA Products ==
  ASSUME NEW p \in Procs, FileTypes
  PROVE  /\ Product(p) \in Value /\ Product(p) # Absent
         /\ store \in Caches => Product(p) = "artifact"
BY FilesAssumption DEF Product, Value

LEMMA Contents ==
  /\ Part = {1, 2} /\ 1 \in Part /\ 2 \in Part
  /\ Empty \in Content
  /\ \A c \in Content, i \in Part, v \in Value : [c EXCEPT ![i] = v] \in Content
  /\ \A v \in Value : [i \in Part |-> v] \in Content
BY DEF Part, Empty, Content, Value

-----------------------------------------------------------------------------
(* Types.                                                                  *)

LEMMA FileInit == Init => WholeInv
<1> SUFFICES ASSUME Init PROVE WholeInv
  OBVIOUS
<1>1. FileTypes
  BY FilesAssumption DEF Init, FileTypes, Idle, Record, Pcs, Busy, Outcome, Value, Names, Caches
<1>2. \A p \in Procs : run[p].fd = "orphan" /\ run[p].pc = "idle"
  BY DEF Init, Idle
<1>3. \A n \in Names : file[n] = Absent
  BY DEF Init
<1>4. "tmp" \in Names /\ "data" \in Names
  BY DEF Names
<1>5. \A p \in Procs : Descriptor(p) /\ Stepwise(p) /\ ~Writing(p) /\ Progress(p)
  BY <1>2 DEF Descriptor, Stepwise, Writing, Progress
<1> QED BY <1>1, <1>3, <1>4, <1>5 DEF WholeInv, NoRival, Alone, CacheCompletes

\* What a run ends with, or goes on with, has its type.
LEMMA EndTypes ==
  ASSUME FileTypes, NEW p \in Procs, NEW o \in Outcome, NEW v \in Value, End(p, o, v)
  PROVE  /\ run' \in [Procs -> Record]
         /\ \A q \in Procs \ {p} : run'[q] = run[q]
         /\ run'[p].pc = "idle" /\ run'[p].fd = "orphan"
         /\ run'[p].outcome = o /\ run'[p].undisturbed = run[p].undisturbed
<1>1. run \in [Procs -> Record] /\ run[p] \in Record
  BY DEF FileTypes
<1>2. /\ Ended(p, o, v) \in Record
      /\ Ended(p, o, v).pc = "idle" /\ Ended(p, o, v).fd = "orphan"
      /\ Ended(p, o, v).outcome = o /\ Ended(p, o, v).undisturbed = run[p].undisturbed
  BY <1>1 DEF Ended, Record, Pcs
<1> QED BY <1>1, <1>2 DEF End

LEMMA GotoTypes ==
  ASSUME FileTypes, NEW p \in Procs, NEW x \in Pcs, run' = Goto(p, x)
  PROVE  /\ run' \in [Procs -> Record]
         /\ \A q \in Procs \ {p} : run'[q] = run[q]
         /\ run'[p].pc = x /\ run'[p].fd = run[p].fd
         /\ run'[p].undisturbed = run[p].undisturbed
<1>1. run \in [Procs -> Record] /\ run[p] \in Record
  BY DEF FileTypes
<1>2. /\ [run[p] EXCEPT !.pc = x] \in Record
      /\ [run[p] EXCEPT !.pc = x].pc = x /\ [run[p] EXCEPT !.pc = x].fd = run[p].fd
      /\ [run[p] EXCEPT !.pc = x].undisturbed = run[p].undisturbed
  BY <1>1 DEF Record
<1> QED BY <1>1, <1>2 DEF Goto

-----------------------------------------------------------------------------
(* Steps that leave the files alone.                                       *)

Positions == {"part1", "part2", "rename", "remove"}

\* The others stay where they are.
Others(p) == \A q \in Procs \ {p} : run'[q].pc = run[q].pc /\ run'[q].fd = run[q].fd

LEMMA QuietKeeps ==
  ASSUME WholeInv, NEW p \in Procs, FileTypes', UNCHANGED <<store, file>>, Others(p),
         Stepwise(p)',
         \/ run'[p].fd = "orphan" /\ run'[p].pc \notin Positions
         \/ run'[p].fd = run[p].fd /\ run'[p].pc = "remove" /\ run[p].pc \in Positions,
         run[p].pc \in {"part1", "part2"} /\ store \in Caches => faults' # 0,
         faults' = 0 => faults = 0,
         ~contended' => /\ ~contended
                        /\ Writing(p)' => Writing(p) \/ \A q \in Procs \ {p} : ~Writing(q)
  PROVE  WholeInv'
<1> USE DEF WholeInv
<1>1. \A q \in Procs : Tmp(q)' = Tmp(q) /\ Product(q)' = Product(q)
  BY DEF Tmp, Product
<1>2. \A q \in Procs : Descriptor(q)' /\ Stepwise(q)'
  <2>1. ASSUME NEW q \in Procs \ {p} PROVE Descriptor(q)' /\ Stepwise(q)'
    BY <1>1, <2>1 DEF Others, Descriptor, Stepwise
  <2>2. Descriptor(p)'
    BY <1>1 DEF Descriptor, Positions
  <2> QED BY <2>1, <2>2
<1>3. NoRival'
  <2> SUFFICES ASSUME store = "status" \/ ~contended'
               PROVE  (Alone /\ (\A q \in Procs : Progress(q)) /\ (file["data"] = Absent \/ Whole(file["data"])))'
    BY DEF NoRival
  <2>1. Alone /\ (\A q \in Procs : Progress(q)) /\ (file["data"] = Absent \/ Whole(file["data"]))
    BY DEF NoRival
  <2>2. Alone'
    <3>1. CASE store = "status"
      BY <3>1 DEF Alone, Tmp
    <3>2. CASE store # "status"
      <4>1. \A q \in Procs \ {p} : Writing(q)' = Writing(q)
        BY DEF Others, Writing
      <4> QED BY <1>1, <2>1, <3>2, <4>1 DEF Alone
    <3> QED BY <3>1, <3>2
  <2>3. ASSUME NEW q \in Procs PROVE Progress(q)'
    <3>1. CASE q # p
      BY <1>1, <2>1, <2>3, <3>1 DEF Progress, Others, Filled
    <3>2. CASE q = p
      BY <1>1, <2>1, <2>3, <3>2 DEF Progress, Positions
    <3> QED BY <3>1, <3>2
  <2> QED BY <2>1, <2>2, <2>3 DEF Whole
<1>4. CacheCompletes'
  <2> SUFFICES ASSUME store \in Caches, faults' = 0, NEW n \in {"tmp", "data"}, file[n] # Absent
               PROVE  Completing(n)'
    BY DEF CacheCompletes
  <2>1. Completing(n)
    BY DEF CacheCompletes
  <2>2. run[p].pc \notin {"part1", "part2"}
    OBVIOUS
  <2>3. ASSUME NEW i \in Part, NEW q \in Procs, run[q].fd = n, run[q].pc \in ToWrite(i)
        PROVE  run'[q].fd = n /\ run'[q].pc \in ToWrite(i)
    <3>1. q # p
      BY <2>2, <2>3 DEF ToWrite
    <3> QED BY <2>3, <3>1 DEF Others
  <2> QED BY <2>1, <2>3 DEF Completing
<1> QED BY <1>2, <1>3, <1>4

\* A run that ends.
LEMMA EndKeeps ==
  ASSUME WholeInv, NEW p \in Procs, NEW o \in Outcome, NEW v \in Value, End(p, o, v),
         UNCHANGED <<store, dir, file, clearing>>, faults' \in Nat, contended' \in BOOLEAN,
         contended => contended', faults' = 0 => faults = 0,
         run[p].pc \in {"part1", "part2"} => faults' # 0
  PROVE  WholeInv'
<1> USE DEF WholeInv
<1>3. /\ run' \in [Procs -> Record]
      /\ run'[p].pc = "idle" /\ run'[p].fd = "orphan"
      /\ \A q \in Procs \ {p} : run'[q] = run[q]
  <2>1. FileTypes
    OBVIOUS
  <2> QED BY <2>1, EndTypes
<1>4. FileTypes'
  BY <1>3 DEF FileTypes
<1>5. Others(p) /\ Stepwise(p)' /\ ~Writing(p)'
  BY <1>3 DEF Others, Stepwise, Writing
<1> QED BY <1>3, <1>4, <1>5, QuietKeeps DEF Positions

\* A run that goes on with its descriptor closed.
LEMMA GotoKeeps ==
  ASSUME WholeInv, NEW p \in Procs, NEW x \in Pcs \ Positions, run' = Goto(p, x),
         UNCHANGED <<store, file, clearing, faults>>, dir' \in BOOLEAN, contended' \in BOOLEAN,
         run[p].pc \notin Positions \cup {"meta"},
         x = "readMeta" => store \in Sidecar,
         x \in {"exists", "read"} => store \in Caches,
         x \notin {"openMeta", "meta"},
         contended => contended',
         x \in Busy /\ ~Writing(p) /\ ~contended' => \A q \in Procs \ {p} : ~Writing(q)
  PROVE  WholeInv'
<1> USE DEF WholeInv
<1>1. /\ run' \in [Procs -> Record]
      /\ run'[p].pc = x /\ run'[p].fd = run[p].fd
      /\ \A q \in Procs \ {p} : run'[q] = run[q]
  <2>1. FileTypes /\ x \in Pcs
    OBVIOUS
  <2> QED BY <2>1, GotoTypes
<1>2. run[p].fd = "orphan"
  BY DEF Descriptor, Positions
<1>3. FileTypes'
  BY <1>1 DEF FileTypes
<1>4. Others(p) /\ Stepwise(p)'
  BY <1>1 DEF Others, Stepwise, Sidecar, Caches
<1>5. Writing(p)' => x \in Busy
  BY <1>1 DEF Writing, Busy
<1>6. ~contended' => /\ ~contended
                     /\ Writing(p)' => Writing(p) \/ \A q \in Procs \ {p} : ~Writing(q)
  BY <1>5
<1>7. run'[p].fd = "orphan" /\ run'[p].pc \notin Positions
  BY <1>1, <1>2
<1>8. run[p].pc \notin {"part1", "part2"}
  BY DEF Positions
<1> QED BY <1>3, <1>4, <1>6, <1>7, <1>8, QuietKeeps

LEMMA StartKeeps == \A p \in Procs : WholeInv /\ Start(p) => WholeInv'
<1> SUFFICES ASSUME NEW p \in Procs, WholeInv, Start(p) PROVE WholeInv'
  OBVIOUS
<1> USE DEF WholeInv
<1>1. PICK n \in BOOLEAN :
        run' = [q \in Procs |->
                 IF q = p THEN [Idle EXCEPT
                     !.pc = IF store \notin Caches \/ n THEN "produce"
                            ELSE IF store = "metadata" THEN "exists" ELSE "read",
                     !.noCache = n,
                     !.undisturbed = clearing = Absent /\ \A r \in Procs \ {p} : ~Active(r)]
                 ELSE [run[q] EXCEPT !.undisturbed = FALSE]]
  BY DEF Start
<1>2. /\ run[p].pc = "idle" /\ run \in [Procs -> Record]
      /\ UNCHANGED <<store, dir, file, clearing, faults, contended>>
  BY DEF Start, Active, FileTypes
<1>3. \A q \in Procs \ {p} :
        run'[q] \in Record /\ run'[q].pc = run[q].pc /\ run'[q].fd = run[q].fd
  BY <1>1, <1>2 DEF Record
<1>4. /\ run'[p] \in Record /\ run'[p].fd = "orphan" /\ run'[p].pc \in {"produce", "exists", "read"}
      /\ run'[p].pc \in {"exists", "read"} => store \in Caches
  BY <1>1 DEF Idle, Record, Pcs, Busy, Outcome, Value
<1>5. run' \in [Procs -> Record]
  <2> HIDE DEF Record
  <2>1. \A q \in Procs : run'[q] \in Record
    BY <1>3, <1>4
  <2>2. DOMAIN run' = Procs /\ run' = [q \in Procs |-> run'[q]]
    BY <1>1
  <2> QED BY <2>1, <2>2
<1>6. FileTypes'
  BY <1>2, <1>5 DEF FileTypes
<1>7. Others(p) /\ Stepwise(p)' /\ ~Writing(p)'
  BY <1>2, <1>3, <1>4 DEF Others, Stepwise, Writing
<1> QED BY <1>2, <1>4, <1>6, <1>7, QuietKeeps DEF Positions

LEMMA LookupKeeps ==
  \A p \in Procs : WholeInv /\ (LookupExists(p) \/ ReadData(p) \/ ReadMeta(p) \/ Produce(p)) => WholeInv'
<1> SUFFICES ASSUME NEW p \in Procs, WholeInv,
                    LookupExists(p) \/ ReadData(p) \/ ReadMeta(p) \/ Produce(p)
             PROVE  WholeInv'
  OBVIOUS
<1>1. FileTypes /\ Stepwise(p)
  BY DEF WholeInv
<1>2. Absent \in Value /\ p \in Value /\ {"hit", "error", "bypassed"} \subseteq Outcome
      /\ {"read", "produce", "readMeta", "mkdir"} \subseteq Pcs \ (Positions \cup {"meta", "openMeta"})
  BY DEF Value, Outcome, Pcs, Busy, Positions
<1>3. CASE LookupExists(p)
  <2>1. run[p].pc = "exists" /\ UNCHANGED <<store, dir, file, clearing, faults, contended>>
    BY <1>3 DEF LookupExists
  <2>2. ~Writing(p) /\ store \in Caches /\ dir' \in BOOLEAN /\ contended' \in BOOLEAN
    BY <1>1, <2>1 DEF Writing, Stepwise, FileTypes
  <2>3. CASE run' = Goto(p, "produce")
    BY <1>2, <2>1, <2>2, <2>3, GotoKeeps DEF Positions, Busy
  <2>4. CASE run' = Goto(p, "read")
    BY <1>2, <2>1, <2>2, <2>4, GotoKeeps DEF Positions, Busy
  <2> QED BY <1>3, <2>3, <2>4 DEF LookupExists
<1>4. CASE ReadData(p)
  <2>1. run[p].pc = "read" /\ UNCHANGED <<store, dir, file, clearing, faults, contended>>
    BY <1>4 DEF ReadData
  <2>2. ~Writing(p) /\ store \in Caches /\ dir' \in BOOLEAN /\ contended' \in BOOLEAN /\ faults' \in Nat
    BY <1>1, <2>1 DEF Writing, Stepwise, FileTypes
  <2>3. CASE run' = Goto(p, "produce")
    BY <1>2, <2>1, <2>2, <2>3, GotoKeeps DEF Positions, Busy
  <2>4. CASE store # "metadata" /\ run' = Goto(p, "readMeta")
    <3>1. store \in Sidecar
      BY <2>2, <2>4 DEF Caches, Sidecar
    <3> QED BY <1>2, <2>1, <2>2, <2>4, <3>1, GotoKeeps DEF Positions, Busy
  <2>5. CASE End(p, "hit", Absent)
    BY <1>2, <2>1, <2>2, <2>5, EndKeeps
  <2> QED BY <1>4, <2>3, <2>4, <2>5 DEF ReadData
<1>5. CASE ReadMeta(p)
  <2>1. run[p].pc = "readMeta" /\ UNCHANGED <<store, dir, file, clearing, faults, contended>>
    BY <1>5 DEF ReadMeta
  <2>2. ~Writing(p) /\ store \in Sidecar /\ dir' \in BOOLEAN /\ contended' \in BOOLEAN /\ faults' \in Nat
    BY <1>1, <2>1 DEF Writing, Stepwise, FileTypes
  <2>3. CASE run' = Goto(p, "produce")
    BY <1>2, <2>1, <2>2, <2>3, GotoKeeps DEF Positions, Busy
  <2>4. CASE End(p, "hit", Absent)
    BY <1>2, <2>1, <2>2, <2>4, EndKeeps
  <2>5. CASE Whole(file["meta"]) /\ End(p, "hit", file["meta"][1])
    <3>1. file["meta"][1] \in Value
      BY <1>1, <2>5 DEF FileTypes, Whole, Names, Content, Part
    <3> QED BY <1>2, <2>1, <2>2, <2>5, <3>1, EndKeeps
  <2> QED BY <1>5, <2>3, <2>4, <2>5 DEF ReadMeta
<1>6. CASE Produce(p)
  <2>1. /\ run[p].pc = "produce" /\ UNCHANGED <<store, dir, file, clearing, faults>>
        /\ contended' = (contended \/ (~run[p].noCache /\ \E q \in Procs \ {p} : Writing(q)))
    BY <1>6 DEF Produce
  <2>2. ~Writing(p) /\ dir' \in BOOLEAN /\ contended' \in BOOLEAN /\ faults' \in Nat
    BY <1>1, <2>1 DEF Writing, FileTypes
  <2>3. contended => contended'
    BY <2>1
  <2>4. CASE End(p, "error", Absent)
    BY <1>2, <2>1, <2>2, <2>3, <2>4, EndKeeps
  <2>5. CASE End(p, "bypassed", p)
    BY <1>2, <2>1, <2>2, <2>3, <2>5, EndKeeps
  <2>6. CASE ~run[p].noCache /\ run' = Goto(p, "mkdir")
    <3>1. ~contended' => \A q \in Procs \ {p} : ~Writing(q)
      BY <2>1, <2>6
    <3> QED BY <1>2, <2>1, <2>2, <2>3, <2>6, <3>1, GotoKeeps DEF Positions, Busy
  <2> QED BY <1>6, <2>4, <2>5, <2>6 DEF Produce
<1> QED BY <1>3, <1>4, <1>5, <1>6

LEMMA DirectoryKeeps == \A p \in Procs : WholeInv /\ MakeDirectory(p) => WholeInv'
<1> SUFFICES ASSUME NEW p \in Procs, WholeInv, MakeDirectory(p) PROVE WholeInv'
  OBVIOUS
<1>1. /\ run[p].pc = "mkdir" /\ run' = Goto(p, "open") /\ dir' = TRUE
      /\ UNCHANGED <<store, file, clearing, faults, contended>>
  BY DEF MakeDirectory
<1>2. Writing(p) /\ contended' \in BOOLEAN /\ "open" \in Pcs \ Positions
  BY <1>1 DEF Writing, WholeInv, FileTypes, Pcs, Busy, Positions
<1> QED BY <1>1, <1>2, GotoKeeps DEF Positions

LEMMA FaultKeeps ==
  \A p \in Procs : WholeInv /\ (RenameFails(p) \/ DiskFull(p) \/ Crash(p)) => WholeInv'
<1> SUFFICES ASSUME NEW p \in Procs, WholeInv, RenameFails(p) \/ DiskFull(p) \/ Crash(p)
             PROVE  WholeInv'
  OBVIOUS
<1>1. FileTypes /\ Stepwise(p) /\ Descriptor(p)
  BY DEF WholeInv
<1>2. Absent \in Value /\ p \in Value /\ {"miss", "error", "crashed"} \subseteq Outcome
      /\ WriteError \in Outcome
  BY DEF Value, Outcome, WriteError
\* It goes on to remove the temporary file, or closes its descriptor.
<1>3. ASSUME run' \in [Procs -> Record], Others(p), UNCHANGED <<store, dir, file, clearing, contended>>,
             faults' \in Nat, faults' # 0, run[p].pc # "idle",
             \/ run'[p].fd = "orphan" /\ run'[p].pc = "idle"
             \/ run'[p].fd = run[p].fd /\ run'[p].pc = "remove" /\ run[p].pc \in Positions
      PROVE  WholeInv'
  <2>1. FileTypes'
    BY <1>1, <1>3 DEF FileTypes
  <2>2. Stepwise(p)'
    BY <1>3 DEF Stepwise
  <2>3. Writing(p)' => Writing(p)
    BY <1>3 DEF Writing, Positions
  <2> QED BY <1>3, <2>1, <2>2, <2>3, QuietKeeps DEF Positions
<1>4. CASE RenameFails(p)
  <2>1. run[p].pc = "rename" /\ UNCHANGED <<store, dir, file, clearing, faults, contended>>
    BY <1>4 DEF RenameFails
  <2>2. contended' \in BOOLEAN /\ faults' \in Nat
    BY <1>1, <2>1 DEF FileTypes
  <2>3. CASE End(p, WriteError, p)
    BY <1>2, <2>1, <2>2, <2>3, EndKeeps
  <2>4. CASE run' = Goto(p, "remove")
    <3>1. "remove" \in Pcs
      BY DEF Pcs, Busy
    <3>2. /\ run' \in [Procs -> Record]
          /\ \A q \in Procs \ {p} : run'[q] = run[q]
          /\ run'[p].pc = "remove" /\ run'[p].fd = run[p].fd
      BY <1>1, <2>4, <3>1, GotoTypes
    <3>3. FileTypes'
      BY <1>1, <2>1, <3>2 DEF FileTypes
    <3>4. Others(p) /\ Stepwise(p)' /\ Writing(p)
      BY <2>1, <3>2 DEF Others, Stepwise, Writing
    <3> QED BY <2>1, <3>2, <3>3, <3>4, QuietKeeps DEF Positions
  <2> QED BY <1>4, <2>3, <2>4 DEF RenameFails
<1>5. CASE DiskFull(p)
  <2>1. /\ run[p].pc \in {"part1", "part2", "meta"} /\ faults' = faults + 1
        /\ UNCHANGED <<store, dir, file, clearing, contended>>
        /\ run' = [run EXCEPT ![p] = IF store \in Caches
                                     THEN [Ended(p, "miss", p) EXCEPT !.undisturbed = FALSE]
                                     ELSE [run[p] EXCEPT !.pc = "remove", !.undisturbed = FALSE]]
    BY <1>5 DEF DiskFull
  <2>2. run[p] \in Record /\ run \in [Procs -> Record] /\ faults' \in Nat /\ faults' # 0
    BY <1>1, <2>1 DEF FileTypes
  <2>3. /\ [Ended(p, "miss", p) EXCEPT !.undisturbed = FALSE] \in Record
        /\ [Ended(p, "miss", p) EXCEPT !.undisturbed = FALSE].pc = "idle"
        /\ [Ended(p, "miss", p) EXCEPT !.undisturbed = FALSE].fd = "orphan"
    BY <1>2, <2>2 DEF Ended, Record, Pcs
  <2>4. /\ [run[p] EXCEPT !.pc = "remove", !.undisturbed = FALSE] \in Record
        /\ [run[p] EXCEPT !.pc = "remove", !.undisturbed = FALSE].pc = "remove"
        /\ [run[p] EXCEPT !.pc = "remove", !.undisturbed = FALSE].fd = run[p].fd
    BY <2>2 DEF Record, Pcs, Busy
  <2>5. run' \in [Procs -> Record] /\ \A q \in Procs \ {p} : run'[q] = run[q]
    BY <2>1, <2>2, <2>3, <2>4
  <2>6. store \notin Caches => run[p].pc # "meta"
    BY <1>1 DEF Stepwise, Sidecar, Caches
  <2>7. \/ run'[p].fd = "orphan" /\ run'[p].pc = "idle"
        \/ run'[p].fd = run[p].fd /\ run'[p].pc = "remove" /\ run[p].pc \in Positions
    BY <2>1, <2>2, <2>3, <2>4, <2>6 DEF Positions
  <2> QED BY <1>3, <2>1, <2>2, <2>5, <2>7 DEF Others
<1>6. CASE Crash(p)
  <2>1. /\ End(p, "crashed", Absent) /\ faults' = faults + 1
        /\ UNCHANGED <<store, dir, file, clearing, contended>>
    BY <1>6 DEF Crash
  <2>2. contended' \in BOOLEAN /\ faults' \in Nat /\ faults' # 0
    BY <1>1, <2>1 DEF FileTypes
  <2> QED BY <1>2, <2>1, <2>2, EndKeeps
<1> QED BY <1>4, <1>5, <1>6

-----------------------------------------------------------------------------
(* Steps that write.                                                       *)

LEMMA OpenKeeps == \A p \in Procs : WholeInv /\ OpenTmp(p) => WholeInv'
<1> SUFFICES ASSUME NEW p \in Procs, WholeInv, OpenTmp(p) PROVE WholeInv'
  OBVIOUS
<1>1. FileTypes /\ Stepwise(p) /\ run[p].pc = "open"
      /\ UNCHANGED <<store, dir, clearing, faults, contended>>
  BY DEF WholeInv, OpenTmp
<1>2. CASE End(p, WriteError, p) /\ UNCHANGED file
  <2>1. WriteError \in Outcome /\ p \in Value
    BY DEF WriteError, Outcome, Value
  <2>2. contended' \in BOOLEAN /\ faults' \in Nat
    BY <1>1 DEF FileTypes
  <2> QED BY <1>1, <1>2, <2>1, <2>2, EndKeeps
<1>3. CASE /\ file' = [file EXCEPT ![Tmp(p)] = Empty]
           /\ run' = [run EXCEPT ![p].pc = "part1", ![p].fd = Tmp(p)]
  <2>1. /\ Tmp(p) \in Names /\ Tmp(p) \notin {"data", "meta", "orphan"}
        /\ store \in Caches => Tmp(p) = "tmp"
    BY <1>1, TmpNames
  <2>2. run \in [Procs -> Record] /\ file \in [Names -> Content \cup {Absent}]
    BY <1>1 DEF FileTypes
  <2>3. /\ run' \in [Procs -> Record]
        /\ run'[p].pc = "part1" /\ run'[p].fd = Tmp(p)
        /\ \A q \in Procs \ {p} : run'[q] = run[q]
    <3>1. /\ [[run[p] EXCEPT !.pc = "part1"] EXCEPT !.fd = Tmp(p)] \in Record
          /\ [[run[p] EXCEPT !.pc = "part1"] EXCEPT !.fd = Tmp(p)].pc = "part1"
          /\ [[run[p] EXCEPT !.pc = "part1"] EXCEPT !.fd = Tmp(p)].fd = Tmp(p)
      BY <2>1, <2>2 DEF Record, Pcs, Busy
    <3>2. run' = [run EXCEPT ![p] = [[run[p] EXCEPT !.pc = "part1"] EXCEPT !.fd = Tmp(p)]]
      BY <1>3, <2>2
    <3> QED BY <2>2, <3>1, <3>2
  <2>4. /\ file' \in [Names -> Content \cup {Absent}] /\ file'[Tmp(p)] = Empty
        /\ \A n \in Names \ {Tmp(p)} : file'[n] = file[n]
    BY <1>3, <2>1, <2>2, Contents
  <2>5. FileTypes'
    BY <1>1, <2>3, <2>4 DEF FileTypes
  <2>6. \A q \in Procs : Tmp(q)' = Tmp(q) /\ Product(q)' = Product(q)
    BY <1>1 DEF Tmp, Product
  <2>7. \A q \in Procs : Descriptor(q)' /\ Stepwise(q)'
    <3>1. ASSUME NEW q \in Procs \ {p} PROVE Descriptor(q)' /\ Stepwise(q)'
      <4>1. Descriptor(q) /\ Stepwise(q) /\ run'[q] = run[q] /\ run[q] \in Record
        BY <2>2, <2>3 DEF WholeInv
      <4>2. run[q].fd # "orphan" => file'[run[q].fd] \in Content
        <5>1. CASE run[q].fd = Tmp(p)
          BY <2>4, <5>1, Contents
        <5>2. CASE run[q].fd # Tmp(p)
          BY <2>4, <4>1, <5>2 DEF Descriptor, Record
        <5> QED BY <5>1, <5>2
      <4> QED BY <1>1, <2>6, <4>1, <4>2 DEF Descriptor, Stepwise
    <3>2. Descriptor(p)' /\ Stepwise(p)'
      BY <2>3, <2>4, <2>6, Contents DEF Descriptor, Stepwise
    <3> QED BY <3>1, <3>2
  <2>8. NoRival'
    <3> SUFFICES ASSUME store = "status" \/ ~contended
                 PROVE  (Alone /\ (\A q \in Procs : Progress(q)) /\ (file["data"] = Absent \/ Whole(file["data"])))'
      BY <1>1 DEF NoRival
    <3>1. Alone /\ (\A q \in Procs : Progress(q)) /\ (file["data"] = Absent \/ Whole(file["data"]))
      BY DEF NoRival, WholeInv
    <3>2. \A q \in Procs : Writing(q)' = Writing(q)
      BY <1>1, <2>3 DEF Writing
    <3>3. Alone'
      BY <2>6, <3>1, <3>2 DEF Alone
    <3>4. ASSUME NEW q \in Procs \ {p} PROVE Progress(q)'
      <4>1. Progress(q) /\ run'[q] = run[q] /\ Tmp(q) \in Names
        BY <1>1, <2>3, <3>1, TmpNames
      <4>2. run[q].pc \in {"part1", "part2", "rename", "remove"} => Tmp(q) # Tmp(p)
        BY <1>1, <3>1 DEF Alone, Writing
      <4> QED BY <2>4, <2>6, <4>1, <4>2 DEF Progress, Filled
    <3>5. Progress(p)'
      BY <2>1, <2>3, <2>6 DEF Progress
    <3>6. file'["data"] = file["data"]
      BY <2>1, <2>4 DEF Names
    <3> QED BY <3>1, <3>3, <3>4, <3>5, <3>6 DEF Whole
  <2>9. CacheCompletes'
    <3> SUFFICES ASSUME store \in Caches, faults = 0, NEW n \in {"tmp", "data"}, file'[n] # Absent
                 PROVE  Completing(n)'
      BY <1>1 DEF CacheCompletes
    <3>1. CASE n = "tmp"
      BY <2>1, <2>3, <3>1 DEF Completing, ToWrite
    <3>2. CASE n = "data"
      <4>1. file'[n] = file[n]
        BY <2>1, <2>4, <3>2 DEF Names
      <4>2. Completing(n)
        BY <4>1 DEF WholeInv, CacheCompletes
      <4>3. \A i \in Part : \A q \in Procs :
              run[q].fd = n /\ run[q].pc \in ToWrite(i) => run'[q].fd = n /\ run'[q].pc \in ToWrite(i)
        BY <1>1, <2>3 DEF ToWrite
      <4> QED BY <4>1, <4>2, <4>3 DEF Completing
    <3> QED BY <3>1, <3>2
  <2> QED BY <2>5, <2>7, <2>8, <2>9 DEF WholeInv
<1> QED BY <1>2, <1>3 DEF OpenTmp

LEMMA WriteKeeps ==
  \A p \in Procs : WholeInv /\ (WriteFirst(p) \/ WriteSecond(p)) => WholeInv'
<1> SUFFICES ASSUME NEW p \in Procs, WholeInv, NEW i \in Part, NEW from, NEW to,
                    \/ i = 1 /\ from = "part1" /\ to = "part2"
                    \/ i = 2 /\ from = "part2" /\ to = "rename",
                    WritePart(p, i, from, to)
             PROVE  WholeInv'
  BY Contents DEF WriteFirst, WriteSecond
<1>1. FileTypes /\ Descriptor(p) /\ run[p].pc = from /\ run' = Goto(p, to)
      /\ UNCHANGED <<store, dir, clearing, faults, contended>>
      /\ run \in [Procs -> Record] /\ file \in [Names -> Content \cup {Absent}]
  BY DEF WholeInv, WritePart, FileTypes
<1>2. to \in Pcs
  BY DEF Pcs, Busy
<1>3. /\ run' \in [Procs -> Record]
      /\ \A q \in Procs \ {p} : run'[q] = run[q]
      /\ run'[p].pc = to /\ run'[p].fd = run[p].fd
  BY <1>1, <1>2, GotoTypes
<1>4. /\ Tmp(p) \in Names /\ Tmp(p) \notin {"data", "meta", "orphan"}
      /\ store \in Caches => Tmp(p) = "tmp"
  BY <1>1, TmpNames
<1>5. \A q \in Procs : Tmp(q)' = Tmp(q) /\ Product(q)' = Product(q)
  BY <1>1 DEF Tmp, Product
<1>6. Product(p) \in Value /\ (store \in Caches => Product(p) = "artifact")
  BY <1>1, Products
<1> DEFINE n == run[p].fd
\* The part is written where the descriptor points.
<1>7. /\ n = "orphan" \/ n \in {Tmp(p), "data"}
      /\ n # "orphan" => n \in Names /\ file[n] \in Content
  BY <1>1, <1>4 DEF Descriptor, Names
<1>8. /\ file' \in [Names -> Content \cup {Absent}]
      /\ \A m \in Names : m # n => file'[m] = file[m]
      /\ n # "orphan" => /\ file'[n] \in Content /\ file'[n][i] = Product(p)
                         /\ \A j \in Part \ {i} : file'[n][j] = file[n][j]
  <2>1. CASE n = "orphan"
    BY <1>1, <2>1 DEF WritePart
  <2>2. CASE n # "orphan"
    <3>1. file' = [file EXCEPT ![n] = [file[n] EXCEPT ![i] = Product(p)]]
      BY <1>1, <1>7, <2>2 DEF WritePart
    <3>2. [file[n] EXCEPT ![i] = Product(p)] \in Content
      BY <1>6, <1>7, <2>2, Contents
    <3>3. /\ [file[n] EXCEPT ![i] = Product(p)][i] = Product(p)
          /\ \A j \in Part \ {i} : [file[n] EXCEPT ![i] = Product(p)][j] = file[n][j]
      BY <1>7, <2>2 DEF Content
    <3> HIDE DEF n
    <3> QED BY <1>1, <1>7, <2>2, <3>1, <3>2, <3>3
  <2> QED BY <2>1, <2>2
<1>9. FileTypes'
  BY <1>1, <1>3, <1>8 DEF FileTypes
<1>10. \A q \in Procs : Descriptor(q)' /\ Stepwise(q)'
  <2>1. ASSUME NEW q \in Procs PROVE Descriptor(q)' /\ Stepwise(q)'
    <3>1. Descriptor(q) /\ Stepwise(q) /\ run[q] \in Record
      BY <1>1 DEF WholeInv
    <3>2. run'[q].fd = run[q].fd /\ (q # p => run'[q].pc = run[q].pc)
      BY <1>3
    <3>3. run[q].fd # "orphan" => file'[run[q].fd] \in Content
      <4>1. CASE run[q].fd = n
        BY <1>8, <4>1
      <4>2. CASE run[q].fd # n
        BY <1>8, <3>1, <4>2 DEF Descriptor, Record
      <4> QED BY <4>1, <4>2
    <3>4. CASE q # p
      BY <1>1, <1>5, <3>1, <3>2, <3>3, <3>4 DEF Descriptor, Stepwise
    <3>5. CASE q = p
      BY <1>1, <1>3, <1>5, <1>7, <3>1, <3>2, <3>3, <3>5 DEF Descriptor, Stepwise
    <3> QED BY <3>4, <3>5
  <2> QED BY <2>1
<1>11. NoRival'
  <2> SUFFICES ASSUME store = "status" \/ ~contended
               PROVE  (Alone /\ (\A q \in Procs : Progress(q)) /\ (file["data"] = Absent \/ Whole(file["data"])))'
    BY <1>1 DEF NoRival
  <2>1. Alone /\ (\A q \in Procs : Progress(q)) /\ (file["data"] = Absent \/ Whole(file["data"]))
    BY DEF NoRival, WholeInv
  <2>2. \A q \in Procs : Writing(q)' = Writing(q)
    BY <1>1, <1>3 DEF Writing
  <2>3. Alone'
    BY <1>5, <2>1, <2>2 DEF Alone
  <2>4. n \in {Tmp(p), "orphan"} /\ (n = "orphan" => file[Tmp(p)] = Absent)
    BY <1>1, <2>1 DEF Progress
  <2>5. ASSUME NEW q \in Procs \ {p} PROVE Progress(q)'
    <3>1. Progress(q) /\ run'[q] = run[q] /\ Tmp(q) \in Names
      BY <1>1, <1>3, <2>1, TmpNames
    <3>2. run[q].pc \in {"part1", "part2", "rename", "remove"} => Tmp(q) # Tmp(p)
      BY <1>1, <2>1 DEF Alone, Writing
    <3>3. Tmp(q) # "orphan"
      BY <1>1, TmpNames
    <3> QED BY <1>5, <1>8, <2>4, <3>1, <3>2, <3>3 DEF Progress, Filled
  <2>6. Progress(p)'
    <3>1. CASE n = "orphan"
      BY <1>3, <1>4, <1>5, <1>8, <2>4, <3>1 DEF Progress
    <3>2. CASE n # "orphan"
      <4>1. n = Tmp(p)
        BY <2>4, <3>2
      <4>2. CASE i = 1
        BY <1>3, <1>5, <1>8, <3>2, <4>1, <4>2 DEF Progress
      <4>3. CASE i = 2
        <5>1. file[n][1] = Product(p)
          BY <1>1, <2>1, <4>1, <4>3 DEF Progress
        <5>2. file'[n][1] = Product(p) /\ file'[n][2] = Product(p) /\ file'[n] \in Content
          BY <1>8, <3>2, <4>3, <5>1, Contents
        <5>3. Filled(file'[n], p)
          BY <5>2 DEF Filled, Content, Part
        <5> QED BY <1>3, <1>5, <3>2, <4>1, <4>3, <5>3 DEF Progress, Filled
      <4> QED BY <4>2, <4>3
    <3> QED BY <3>1, <3>2
  <2>7. file'["data"] = file["data"]
    BY <1>4, <1>8, <2>4 DEF Names
  <2> QED BY <2>1, <2>3, <2>5, <2>6, <2>7 DEF Whole
<1>12. CacheCompletes'
  <2> SUFFICES ASSUME store \in Caches, faults = 0, NEW m \in {"tmp", "data"}, file'[m] # Absent
               PROVE  Completing(m)'
    BY <1>1 DEF CacheCompletes
  <2>1. ASSUME NEW j \in Part, NEW q \in Procs, run[q].fd = m, run[q].pc \in ToWrite(j),
               m # n \/ j # i
        PROVE  run'[q].fd = m /\ run'[q].pc \in ToWrite(j)
    <3>1. CASE q # p
      BY <1>3, <2>1, <3>1
    <3>2. CASE q = p
      BY <1>1, <1>3, <2>1, <3>2, Contents DEF ToWrite
    <3> QED BY <3>1, <3>2
  <2>2. m \in Names
    BY DEF Names
  <2>3. CASE m # n
    BY <1>8, <2>1, <2>2, <2>3 DEF Completing, WholeInv, CacheCompletes
  <2>4. CASE m = n
    <3>1. m # "orphan"
      OBVIOUS
    <3>2. file[m] # Absent
      BY <1>7, <2>4, <3>1, AbsentAssumption
    <3>3. Completing(m)
      BY <3>2 DEF WholeInv, CacheCompletes
    <3>4. file'[m][i] = "artifact" /\ \A j \in Part \ {i} : file'[m][j] = file[m][j]
      BY <1>6, <1>8, <2>4, <3>1
    <3> QED BY <2>1, <3>3, <3>4 DEF Completing
  <2> QED BY <2>3, <2>4
<1> QED BY <1>9, <1>10, <1>11, <1>12 DEF WholeInv

-----------------------------------------------------------------------------
(* Steps that move descriptors.                                            *)

LEMMA RenameRuns ==
  ASSUME NEW p \in Procs, FileTypes, Rename(p)
  PROVE  /\ run' \in [Procs -> Record]
         /\ \A q \in Procs \ {p} :
              /\ run'[q].pc = run[q].pc /\ run'[q].undisturbed = run[q].undisturbed
              /\ run'[q].fd = IF run[q].fd = Tmp(p) THEN "data"
                              ELSE IF run[q].fd = "data" THEN "orphan" ELSE run[q].fd
         /\ run'[p].fd = "orphan" /\ run'[p].undisturbed = run[p].undisturbed
         /\ run'[p].pc = IF store \in Sidecar THEN "openMeta" ELSE "idle"
<1> DEFINE After(q) == IF run[q].fd = Tmp(p) THEN "data"
                       ELSE IF run[q].fd = "data" THEN "orphan" ELSE run[q].fd
           moved == [q \in Procs |-> [run[q] EXCEPT !.fd = After(q)]]
           last == IF store \in Sidecar
                   THEN [moved[p] EXCEPT !.pc = "openMeta", !.fd = "orphan"]
                   ELSE Ended(p, IF store \in Caches THEN "miss" ELSE "written", p)
<1>1. run \in [Procs -> Record] /\ Tmp(p) \in Names /\ "data" \in Names
  BY TmpNames DEF FileTypes, Names
<1>2. run' = [moved EXCEPT ![p] = last]
  BY DEF Rename
<1>3. \A q \in Procs : After(q) \in Names \cup {"orphan"}
  BY <1>1 DEF Record
<1>4. \A q \in Procs : /\ moved[q] \in Record /\ moved[q].pc = run[q].pc
                       /\ moved[q].undisturbed = run[q].undisturbed /\ moved[q].fd = After(q)
  <2> HIDE DEF After
  <2> QED BY <1>1, <1>3 DEF Record
<1>5. /\ last \in Record /\ last.fd = "orphan" /\ last.undisturbed = run[p].undisturbed
      /\ last.pc = IF store \in Sidecar THEN "openMeta" ELSE "idle"
  <2> HIDE DEF moved
  <2>1. CASE store \in Sidecar
    BY <1>4, <2>1 DEF Record, Pcs
  <2>2. CASE store \notin Sidecar
    <3>1. PICK o \in Outcome : last = Ended(p, o, p)
      BY <2>2 DEF Outcome
    <3> HIDE DEF last
    <3>2. p \in Value /\ "idle" \in Pcs /\ run[p] \in Record
      BY <1>1 DEF Value, Pcs
    <3> QED BY <2>2, <3>1, <3>2 DEF Ended, Record
  <2> QED BY <2>1, <2>2
<1>6. moved \in [Procs -> Record]
  <2> HIDE DEF Record
  <2> QED BY <1>4
<1> HIDE DEF moved, last
<1> QED BY <1>2, <1>4, <1>5, <1>6

LEMMA RenameKeeps == \A p \in Procs : WholeInv /\ Rename(p) => WholeInv'
<1> SUFFICES ASSUME NEW p \in Procs, WholeInv, Rename(p) PROVE WholeInv'
  OBVIOUS
<1> DEFINE t == Tmp(p)
           After(q) == IF run[q].fd = t THEN "data" ELSE IF run[q].fd = "data" THEN "orphan" ELSE run[q].fd
<1>1. /\ FileTypes /\ run[p].pc = "rename" /\ file[t] # Absent
      /\ UNCHANGED <<store, dir, clearing, faults, contended>>
      /\ run \in [Procs -> Record] /\ file \in [Names -> Content \cup {Absent}]
      /\ file' = [file EXCEPT !["data"] = file[t], ![t] = Absent]
  BY DEF WholeInv, Rename, FileTypes
<1>2. /\ t \in Names /\ t \notin {"data", "meta", "orphan"} /\ "data" \in Names
      /\ store \in Caches => t = "tmp"
  BY <1>1, TmpNames DEF Names
<1>3. /\ run' \in [Procs -> Record]
      /\ \A q \in Procs \ {p} : run'[q].pc = run[q].pc /\ run'[q].fd = After(q)
      /\ run'[p].fd = "orphan" /\ run'[p].pc \in {"openMeta", "idle"}
      /\ run'[p].pc = "openMeta" => store \in Sidecar
  BY <1>1, RenameRuns
<1>4. /\ file' \in [Names -> Content \cup {Absent}]
      /\ file'["data"] = file[t] /\ file[t] \in Content /\ file'[t] = Absent
      /\ \A n \in Names \ {t, "data"} : file'[n] = file[n]
  <2> HIDE DEF t
  <2> QED BY <1>1, <1>2
<1>5. FileTypes'
  BY <1>1, <1>3, <1>4 DEF FileTypes
<1>6. \A q \in Procs : Tmp(q)' = Tmp(q) /\ Product(q)' = Product(q)
  BY <1>1 DEF Tmp, Product
<1> HIDE DEF t
<1>7. \A q \in Procs : Descriptor(q)' /\ Stepwise(q)'
  <2>1. ASSUME NEW q \in Procs \ {p} PROVE Descriptor(q)' /\ Stepwise(q)'
    <3>1. Descriptor(q) /\ Stepwise(q) /\ run[q] \in Record
      BY <1>1 DEF WholeInv
    <3>2. Stepwise(q)'
      BY <1>1, <1>3, <3>1 DEF Stepwise
    <3>3. CASE run[q].fd = t
      BY <1>2, <1>3, <1>4, <1>6, <3>1, <3>2, <3>3 DEF Descriptor
    <3>4. CASE run[q].fd = "data"
      BY <1>2, <1>3, <3>2, <3>4 DEF Descriptor
    <3>5. CASE run[q].fd \notin {t, "data"}
      BY <1>2, <1>3, <1>4, <1>6, <3>1, <3>2, <3>5 DEF Descriptor, Record
    <3> QED BY <3>3, <3>4, <3>5
  <2>2. Descriptor(p)' /\ Stepwise(p)'
    BY <1>1, <1>3 DEF Descriptor, Stepwise
  <2> QED BY <2>1, <2>2
<1>8. NoRival'
  <2> SUFFICES ASSUME store = "status" \/ ~contended
               PROVE  (Alone /\ (\A q \in Procs : Progress(q)) /\ (file["data"] = Absent \/ Whole(file["data"])))'
    BY <1>1 DEF NoRival
  <2>1. Alone /\ (\A q \in Procs : Progress(q))
    BY DEF NoRival, WholeInv
  <2>2. ~Writing(p)' /\ \A q \in Procs \ {p} : Writing(q)' = Writing(q)
    BY <1>1, <1>3 DEF Writing
  <2>3. Alone'
    BY <1>6, <2>1, <2>2 DEF Alone
  <2>4. run[p].fd = t
    <3>1. run[p].fd \in {t, "orphan"} /\ (run[p].fd = "orphan" => file[t] = Absent)
      BY <1>1, <2>1 DEF Progress, t
    <3> QED BY <1>1, <3>1
  <2>5. Filled(file[t], p)
    BY <1>1, <2>1, <2>4 DEF Progress, t
  <2>6. Whole(file'["data"])
    <3>1. file[t][1] = Product(p) /\ file[t][2] = Product(p)
      BY <2>5, Contents DEF Filled
    <3>2. Product(p) # Absent
      BY <1>1, Products
    <3> QED BY <1>1, <1>4, <3>1, <3>2 DEF Whole
  <2>7. ASSUME NEW q \in Procs \ {p} PROVE Progress(q)'
    <3>1. Progress(q) /\ Tmp(q) \in Names /\ Tmp(q) \notin {"data", "orphan"}
      BY <1>1, <2>1, TmpNames
    <3>2. CASE run[q].pc \in {"part1", "part2", "rename", "remove"}
      <4>1. Tmp(q) # t
        BY <1>1, <2>1, <3>2 DEF Alone, Writing, t
      <4>2. run'[q].fd = run[q].fd /\ run'[q].pc = run[q].pc /\ file'[Tmp(q)] = file[Tmp(q)]
        BY <1>2, <1>3, <1>4, <3>1, <3>2, <4>1 DEF Progress
      <4> QED BY <1>6, <3>1, <4>2 DEF Progress, Filled
    <3>3. CASE run[q].pc \notin {"part1", "part2", "rename", "remove"}
      BY <1>3, <3>3 DEF Progress
    <3> QED BY <3>2, <3>3
  <2>8. Progress(p)'
    BY <1>3 DEF Progress
  <2> QED BY <2>3, <2>6, <2>7, <2>8 DEF Whole
<1>9. CacheCompletes'
  <2> SUFFICES ASSUME store \in Caches, faults = 0
               PROVE  Completing("data")'
    BY <1>1, <1>2, <1>4 DEF CacheCompletes
  <2>1. Completing(t)
    BY <1>1, <1>2 DEF WholeInv, CacheCompletes
  <2>2. ASSUME NEW i \in Part, NEW q \in Procs, run[q].fd = t, run[q].pc \in ToWrite(i)
        PROVE  run'[q].fd = "data" /\ run'[q].pc \in ToWrite(i)
    <3>1. q # p
      BY <1>1, <2>2 DEF ToWrite
    <3> QED BY <1>3, <2>2, <3>1
  <2> QED BY <1>4, <2>1, <2>2 DEF Completing
<1> QED BY <1>5, <1>7, <1>8, <1>9 DEF WholeInv

\* A name is unlinked, and maybe a run ends.
LEMMA UnlinkKeeps ==
  ASSUME WholeInv, NEW n \in Names, FileTypes',
         UNCHANGED <<store, faults, contended>>, file' = [file EXCEPT ![n] = Absent],
         \A q \in Procs :
           \/ run'[q].pc = run[q].pc /\ run'[q].fd = IF run[q].fd = n THEN "orphan" ELSE run[q].fd
           \/ run'[q].pc = "idle" /\ run'[q].fd = "orphan" /\ run[q].pc \notin {"part1", "part2"}
  PROVE  WholeInv'
<1>1. FileTypes /\ file \in [Names -> Content \cup {Absent}] /\ run \in [Procs -> Record]
  BY DEF WholeInv, FileTypes
<1>2. file'[n] = Absent /\ \A m \in Names \ {n} : file'[m] = file[m]
  BY <1>1
<1>3. \A q \in Procs : Tmp(q)' = Tmp(q) /\ Product(q)' = Product(q)
  BY DEF Tmp, Product
<1>4. ASSUME NEW q \in Procs PROVE Descriptor(q)' /\ Stepwise(q)'
  <2>1. Descriptor(q) /\ Stepwise(q) /\ run[q] \in Record
    BY <1>1 DEF WholeInv
  <2>2. CASE run'[q].fd = "orphan"
    BY <2>1, <2>2 DEF Descriptor, Stepwise
  <2>3. CASE run'[q].fd # "orphan"
    <3>1. run'[q].pc = run[q].pc /\ run'[q].fd = run[q].fd /\ run[q].fd # n
      BY <2>3
    <3> QED BY <1>2, <1>3, <2>1, <3>1 DEF Descriptor, Stepwise, Record
  <2> QED BY <2>2, <2>3
<1>5. NoRival'
  <2> SUFFICES ASSUME store = "status" \/ ~contended
               PROVE  (Alone /\ (\A q \in Procs : Progress(q)) /\ (file["data"] = Absent \/ Whole(file["data"])))'
    BY DEF NoRival
  <2>1. Alone /\ (\A q \in Procs : Progress(q)) /\ (file["data"] = Absent \/ Whole(file["data"]))
    BY DEF NoRival, WholeInv
  <2>2. \A q \in Procs : Writing(q)' => Writing(q)
    BY DEF Writing
  <2>3. Alone'
    BY <1>3, <2>1, <2>2 DEF Alone
  <2>4. ASSUME NEW q \in Procs PROVE Progress(q)'
    <3>1. Progress(q) /\ Tmp(q) \in Names /\ Tmp(q) # "orphan"
      BY <1>1, <2>1, TmpNames
    <3>2. CASE run'[q].pc = "idle"
      BY <3>2 DEF Progress
    <3>3. CASE run'[q].pc = run[q].pc /\ run'[q].fd = IF run[q].fd = n THEN "orphan" ELSE run[q].fd
      <4>1. CASE Tmp(q) = n
        BY <1>2, <1>3, <3>1, <3>3, <4>1 DEF Progress
      <4>2. CASE Tmp(q) # n
        <5>1. run[q].pc \in {"part1", "part2", "rename", "remove"} => run'[q].fd = run[q].fd
          BY <3>1, <3>3, <4>2 DEF Progress
        <5> QED BY <1>2, <1>3, <3>1, <3>3, <4>2, <5>1 DEF Progress, Filled
      <4> QED BY <4>1, <4>2
    <3> QED BY <3>2, <3>3
  <2>5. file'["data"] = Absent \/ file'["data"] = file["data"]
    BY <1>2 DEF Names
  <2> QED BY <2>1, <2>3, <2>4, <2>5 DEF Whole
<1>6. CacheCompletes'
  <2> SUFFICES ASSUME store \in Caches, faults = 0, NEW m \in {"tmp", "data"}, file'[m] # Absent
               PROVE  Completing(m)'
    BY DEF CacheCompletes
  <2>1. m # n /\ file'[m] = file[m]
    BY <1>2 DEF Names
  <2>2. Completing(m)
    BY <2>1 DEF WholeInv, CacheCompletes
  <2>3. \A i \in Part, q \in Procs :
          run[q].fd = m /\ run[q].pc \in ToWrite(i) => run'[q].fd = m /\ run'[q].pc \in ToWrite(i)
    BY <2>1 DEF ToWrite
  <2> QED BY <2>1, <2>2, <2>3 DEF Completing
<1> QED BY <1>4, <1>5, <1>6 DEF WholeInv

LEMMA Unlinks ==
  ASSUME FileTypes, NEW n \in Names
  PROVE  /\ Unlinked(n) \in [Procs -> Record]
         /\ \A q \in Procs :
              /\ Unlinked(n)[q].pc = run[q].pc
              /\ Unlinked(n)[q].undisturbed = run[q].undisturbed
              /\ Unlinked(n)[q].fd = IF run[q].fd = n THEN "orphan" ELSE run[q].fd
<1>1. run \in [Procs -> Record]
  BY DEF FileTypes
<1>2. ASSUME NEW q \in Procs
      PROVE  LET u == [run[q] EXCEPT !.fd = IF @ = n THEN "orphan" ELSE @]
             IN  /\ u \in Record /\ u.pc = run[q].pc /\ u.undisturbed = run[q].undisturbed
                 /\ u.fd = IF run[q].fd = n THEN "orphan" ELSE run[q].fd
  BY <1>1 DEF Record
<1> HIDE DEF Record
<1> QED BY <1>2 DEF Unlinked

\* The processes r are where they were, and as undisturbed.
StayPut(r) == \A q \in Procs : r[q].pc = run[q].pc /\ r[q].undisturbed = run[q].undisturbed

LEMMA UnlinkedStayPut ==
  ASSUME FileTypes, NEW n \in Names
  PROVE  StayPut(Unlinked(n))
BY Unlinks DEF StayPut

LEMMA RemoveKeeps ==
  WholeInv =>
    /\ \A p \in Procs : RemoveTmp(p) => WholeInv'
    /\ \A n \in Names : ClearUnlink(n) => WholeInv'
<1> SUFFICES ASSUME WholeInv
             PROVE  /\ \A p \in Procs : RemoveTmp(p) => WholeInv'
                    /\ \A n \in Names : ClearUnlink(n) => WholeInv'
  OBVIOUS
<1>1. FileTypes /\ run \in [Procs -> Record] /\ file \in [Names -> Content \cup {Absent}]
  BY DEF WholeInv, FileTypes
<1>2. \A n \in Names : [file EXCEPT ![n] = Absent] \in [Names -> Content \cup {Absent}]
  BY <1>1
<1>3. ASSUME NEW p \in Procs, RemoveTmp(p) PROVE WholeInv'
  <2>1. /\ run[p].pc = "remove" /\ file' = [file EXCEPT ![Tmp(p)] = Absent]
        /\ run' = [Unlinked(Tmp(p)) EXCEPT ![p] = Ended(p, WriteError, p)]
        /\ UNCHANGED <<store, dir, clearing, faults, contended>>
    BY <1>3 DEF RemoveTmp
  <2>2. Tmp(p) \in Names
    BY <1>1, TmpNames
  <2>3. /\ Ended(p, WriteError, p) \in Record
        /\ Ended(p, WriteError, p).pc = "idle" /\ Ended(p, WriteError, p).fd = "orphan"
    BY <1>1 DEF Ended, Record, Pcs, WriteError, Outcome, Value
  <2>4. /\ run' \in [Procs -> Record]
        /\ run'[p].pc = "idle" /\ run'[p].fd = "orphan"
        /\ \A q \in Procs \ {p} : run'[q].pc = run[q].pc
                                  /\ run'[q].fd = IF run[q].fd = Tmp(p) THEN "orphan" ELSE run[q].fd
    <3> HIDE DEF Record
    <3> QED BY <1>1, <2>1, <2>2, <2>3, Unlinks
  <2>5. FileTypes'
    BY <1>1, <1>2, <2>1, <2>2, <2>4 DEF FileTypes
  <2> QED BY <2>1, <2>2, <2>4, <2>5, UnlinkKeeps
<1>4. ASSUME NEW n \in Names, ClearUnlink(n) PROVE WholeInv'
  <2>1. /\ file' = [file EXCEPT ![n] = Absent] /\ run' = Unlinked(n) /\ clearing # Absent
        /\ UNCHANGED <<store, dir, faults, contended>>
    BY <1>4 DEF ClearUnlink
  <2>2. FileTypes'
    BY <1>1, <1>2, <2>1, Unlinks DEF FileTypes
  <2>3. \A q \in Procs : /\ run'[q].pc = run[q].pc
                         /\ run'[q].fd = IF run[q].fd = n THEN "orphan" ELSE run[q].fd
    BY <1>1, <2>1, Unlinks
  <2> QED BY <2>1, <2>2, <2>3, UnlinkKeeps
<1> QED BY <1>3, <1>4

\* Steps on the sidecar, which nobody else has a claim on.
LEMMA SidecarKeeps ==
  \A p \in Procs : WholeInv /\ (OpenMeta(p) \/ WriteMeta(p)) => WholeInv'
<1> SUFFICES ASSUME NEW p \in Procs, WholeInv, OpenMeta(p) \/ WriteMeta(p) PROVE WholeInv'
  OBVIOUS
<1>1. /\ FileTypes /\ run[p].pc \in {"openMeta", "meta"} /\ store \in Sidecar
      /\ UNCHANGED <<store, dir, clearing, faults, contended>>
      /\ run \in [Procs -> Record] /\ file \in [Names -> Content \cup {Absent}]
  BY DEF WholeInv, FileTypes, OpenMeta, WriteMeta, Stepwise
<1>2. /\ "meta" \in Names /\ "data" \in Names /\ "tmp" \in Names /\ "miss" \in Outcome
      /\ p \in Value
  BY DEF Names, Outcome, Value
<1>3. contended' \in BOOLEAN /\ faults' \in Nat
  BY <1>1 DEF FileTypes
\* The sidecar is replaced by c, and the process goes on with its descriptor.
<1>4. ASSUME NEW c \in Content, file' = [file EXCEPT !["meta"] = c],
             run' \in [Procs -> Record], \A q \in Procs \ {p} : run'[q] = run[q],
             \/ run'[p].pc = "meta" /\ run'[p].fd = "meta"
             \/ run'[p].pc = "idle" /\ run'[p].fd = "orphan"
      PROVE  WholeInv'
  <2>1. /\ file' \in [Names -> Content \cup {Absent}] /\ file'["meta"] = c
        /\ \A n \in Names \ {"meta"} : file'[n] = file[n]
    BY <1>1, <1>2, <1>4
  <2>2. FileTypes'
    BY <1>1, <1>4, <2>1 DEF FileTypes
  <2>3. \A q \in Procs : Tmp(q)' = Tmp(q) /\ Product(q)' = Product(q)
    BY <1>1 DEF Tmp, Product
  <2>4. \A q \in Procs : Tmp(q) \in Names \ {"meta"}
    BY <1>1, TmpNames
  <2>5. ASSUME NEW q \in Procs PROVE Descriptor(q)' /\ Stepwise(q)'
    <3>1. Descriptor(q) /\ Stepwise(q) /\ run[q] \in Record
      BY <1>1 DEF WholeInv
    <3>2. CASE q = p
      BY <1>1, <1>4, <2>1, <3>2 DEF Descriptor, Stepwise
    <3>3. CASE q # p
      <4>1. run[q].fd # "orphan" => file'[run[q].fd] \in Content
        BY <1>4, <2>1, <3>1 DEF Descriptor, Record
      <4> QED BY <1>1, <1>4, <2>3, <3>1, <3>3, <4>1 DEF Descriptor, Stepwise
    <3> QED BY <3>2, <3>3
  <2>6. NoRival'
    <3> SUFFICES ASSUME store = "status" \/ ~contended
                 PROVE  (Alone /\ (\A q \in Procs : Progress(q)) /\ (file["data"] = Absent \/ Whole(file["data"])))'
      BY <1>1 DEF NoRival
    <3>1. Alone /\ (\A q \in Procs : Progress(q)) /\ (file["data"] = Absent \/ Whole(file["data"]))
      BY DEF NoRival, WholeInv
    <3>2. \A q \in Procs : Writing(q)' = Writing(q)
      BY <1>1, <1>4 DEF Writing
    <3>3. Alone'
      BY <2>3, <3>1, <3>2 DEF Alone
    <3>4. ASSUME NEW q \in Procs PROVE Progress(q)'
      <4>1. Progress(q)
        BY <3>1
      <4>2. CASE q = p
        BY <1>4, <4>2 DEF Progress
      <4>3. CASE q # p
        BY <1>4, <2>1, <2>3, <2>4, <4>1, <4>3 DEF Progress, Filled
      <4> QED BY <4>2, <4>3
    <3>5. file'["data"] = file["data"]
      BY <1>2, <2>1
    <3> QED BY <3>1, <3>3, <3>4, <3>5 DEF Whole
  <2>7. CacheCompletes'
    <3> SUFFICES ASSUME store \in Caches, faults = 0, NEW n \in {"tmp", "data"}, file'[n] # Absent
                 PROVE  Completing(n)'
      BY <1>1 DEF CacheCompletes
    <3>1. file'[n] = file[n]
      BY <1>2, <2>1
    <3>2. Completing(n)
      BY <3>1 DEF WholeInv, CacheCompletes
    <3>3. \A i \in Part : \A q \in Procs :
            run[q].fd = n /\ run[q].pc \in ToWrite(i) => run'[q].fd = n /\ run'[q].pc \in ToWrite(i)
      BY <1>1, <1>4 DEF ToWrite
    <3> QED BY <3>1, <3>2, <3>3 DEF Completing
  <2> QED BY <2>2, <2>5, <2>6, <2>7 DEF WholeInv
<1>5. CASE End(p, "miss", p) /\ UNCHANGED file
  BY <1>1, <1>2, <1>3, <1>5, EndKeeps
<1>6. CASE End(p, "miss", p) /\ file' = [file EXCEPT !["meta"] = [i \in Part |-> p]]
  <2>1. [i \in Part |-> p] \in Content
    BY <1>2, Contents
  <2>2. /\ run' \in [Procs -> Record] /\ \A q \in Procs \ {p} : run'[q] = run[q]
        /\ run'[p].pc = "idle" /\ run'[p].fd = "orphan"
    BY <1>1, <1>2, <1>6, EndTypes
  <2> HIDE DEF Record
  <2> QED BY <1>4, <1>6, <2>1, <2>2
<1>7. CASE /\ file' = [file EXCEPT !["meta"] = Empty]
           /\ run' = [run EXCEPT ![p].pc = "meta", ![p].fd = "meta"]
  <2>1. /\ [[run[p] EXCEPT !.pc = "meta"] EXCEPT !.fd = "meta"] \in Record
        /\ [[run[p] EXCEPT !.pc = "meta"] EXCEPT !.fd = "meta"].pc = "meta"
        /\ [[run[p] EXCEPT !.pc = "meta"] EXCEPT !.fd = "meta"].fd = "meta"
    BY <1>1, <1>2 DEF Record, Pcs
  <2>2. run' = [run EXCEPT ![p] = [[run[p] EXCEPT !.pc = "meta"] EXCEPT !.fd = "meta"]]
    BY <1>1, <1>7
  <2>3. /\ run' \in [Procs -> Record] /\ \A q \in Procs \ {p} : run'[q] = run[q]
        /\ run'[p].pc = "meta" /\ run'[p].fd = "meta"
    BY <1>1, <2>1, <2>2
  <2> QED BY <1>4, <1>7, <2>3, Contents
<1> QED BY <1>5, <1>6, <1>7 DEF OpenMeta, WriteMeta

\* A clear starts or ends: no file, no descriptor and no position changes.
LEMMA ClearKeeps == WholeInv /\ (ClearStart \/ ClearEnd \/ UNCHANGED vars) => WholeInv'
<1> SUFFICES ASSUME WholeInv, ClearStart \/ ClearEnd \/ UNCHANGED vars PROVE WholeInv'
  OBVIOUS
<1>1. /\ FileTypes /\ run \in [Procs -> Record]
      /\ UNCHANGED <<store, file, faults, contended>>
      /\ dir' \in BOOLEAN /\ (clearing' = Absent \/ store \in Caches)
  BY DEF WholeInv, FileTypes, ClearStart, ClearEnd, vars
<1>2. /\ run' \in [Procs -> Record]
      /\ \A q \in Procs : run'[q].pc = run[q].pc /\ run'[q].fd = run[q].fd
  <2>1. CASE run' = run
    BY <1>1, <2>1
  <2>2. CASE run' = [q \in Procs |-> [run[q] EXCEPT !.undisturbed = FALSE]]
    <3>1. ASSUME NEW q \in Procs
          PROVE  LET u == [run[q] EXCEPT !.undisturbed = FALSE]
                 IN  u \in Record /\ u.pc = run[q].pc /\ u.fd = run[q].fd
      BY <1>1 DEF Record
    <3> HIDE DEF Record
    <3> QED BY <2>2, <3>1
  <2> QED BY <2>1, <2>2 DEF ClearStart, ClearEnd, vars
<1>3. FileTypes'
  BY <1>1, <1>2 DEF FileTypes
<1>4. \A q \in Procs : /\ Tmp(q)' = Tmp(q) /\ Product(q)' = Product(q)
                       /\ Writing(q)' = Writing(q)
  BY <1>1, <1>2 DEF Tmp, Product, Writing
<1>5. \A q \in Procs : Descriptor(q)' /\ Stepwise(q)'
  BY <1>1, <1>2, <1>4 DEF WholeInv, Descriptor, Stepwise
<1>6. NoRival'
  <2> SUFFICES ASSUME store = "status" \/ ~contended
               PROVE  (Alone /\ (\A q \in Procs : Progress(q)) /\ (file["data"] = Absent \/ Whole(file["data"])))'
    BY <1>1 DEF NoRival
  <2>1. Alone /\ (\A q \in Procs : Progress(q)) /\ (file["data"] = Absent \/ Whole(file["data"]))
    BY DEF NoRival, WholeInv
  <2>2. Alone'
    BY <1>4, <2>1 DEF Alone
  <2>3. ASSUME NEW q \in Procs PROVE Progress(q)'
    BY <1>1, <1>2, <1>4, <2>1 DEF Progress, Filled
  <2> QED BY <1>1, <2>1, <2>2, <2>3 DEF Whole
<1>7. CacheCompletes'
  BY <1>1, <1>2 DEF WholeInv, CacheCompletes, Completing
<1> QED BY <1>3, <1>5, <1>6, <1>7 DEF WholeInv

-----------------------------------------------------------------------------
LEMMA FileNext == WholeInv /\ [Next]_vars => WholeInv'
<1> SUFFICES ASSUME WholeInv, [Next]_vars PROVE WholeInv'
  OBVIOUS
<1>1. ASSUME NEW p \in Procs, Step(p) PROVE WholeInv'
  BY <1>1, StartKeeps, LookupKeeps, DirectoryKeeps, OpenKeeps, WriteKeeps, RenameKeeps,
     FaultKeeps, RemoveKeeps, SidecarKeeps DEF Step
<1>2. ASSUME NEW n \in Names, ClearUnlink(n) PROVE WholeInv'
  BY <1>2, RemoveKeeps
<1> QED BY <1>1, <1>2, ClearKeeps DEF Next

\* What a reader finds is absent or one complete document: the promise of a
\* temporary file and a rename, for any number of processes. Rivals on a shared
\* temporary name are left out of it until they are done.
THEOREM FilesWhole == Spec => []ReplacedWhole
<1>1. WholeInv => ReplacedWhole
  <2> SUFFICES ASSUME WholeInv, file["data"] # Absent
               PROVE  /\ store = "status" \/ ~contended => Whole(file["data"])
                      /\ store \in Caches /\ faults = 0 /\ (\A p \in Procs : ~Writing(p))
                           => Whole(file["data"])
    BY DEF ReplacedWhole, Complete
  <2>1. ASSUME store = "status" \/ ~contended PROVE Whole(file["data"])
    BY <2>1 DEF WholeInv, NoRival
  <2>2. ASSUME store \in Caches, faults = 0, \A p \in Procs : ~Writing(p)
        PROVE  Whole(file["data"])
    <3>1. Completing("data")
      BY <2>2 DEF WholeInv, CacheCompletes
    <3>2. \A i \in Part : file["data"][i] = "artifact"
      BY <2>2, <3>1 DEF Completing, ToWrite, Writing
    <3>3. "artifact" # Absent
      BY FilesAssumption
    <3> QED BY <3>2, <3>3, Contents DEF Whole
  <2> QED BY <2>1, <2>2
<1> QED BY FileInit, FileNext, <1>1, PTL DEF Spec

-----------------------------------------------------------------------------
(* An undisturbed run has the entry to itself and repairs it.              *)

LEMMA GenuineNext == WholeInv /\ Genuine /\ [Next]_vars => Genuine'
<1> SUFFICES ASSUME WholeInv, Genuine, [Next]_vars, store \in Caches
             PROVE  OfArtifact("tmp")' /\ OfArtifact("data")'
  BY DEF Genuine, Next, vars, Step, Start, LookupExists, ReadData, ReadMeta, Produce,
     MakeDirectory, OpenTmp, WriteFirst, WriteSecond, WritePart, Rename, RenameFails, RemoveTmp,
     OpenMeta, WriteMeta, DiskFull, Crash, ClearStart, ClearUnlink, ClearEnd
<1>1. /\ FileTypes /\ OfArtifact("tmp") /\ OfArtifact("data")
      /\ file \in [Names -> Content \cup {Absent}]
      /\ "tmp" \in Names /\ "data" \in Names /\ "meta" \in Names
  BY DEF WholeInv, FileTypes, Genuine, Names
<1>2. CASE UNCHANGED file
  BY <1>1, <1>2 DEF OfArtifact
<1>3. ASSUME NEW n \in Names, file' = [file EXCEPT ![n] = Absent] PROVE OfArtifact("tmp")' /\ OfArtifact("data")'
  BY <1>1, <1>3 DEF OfArtifact
<1>4. ASSUME NEW c, file' = [file EXCEPT !["meta"] = c] PROVE OfArtifact("tmp")' /\ OfArtifact("data")'
  BY <1>1, <1>4 DEF OfArtifact
<1>5. ASSUME NEW p \in Procs PROVE Tmp(p) = "tmp" /\ Product(p) = "artifact"
  BY <1>1, TmpNames, Products
<1>6. ASSUME NEW p \in Procs, OpenTmp(p) PROVE OfArtifact("tmp")' /\ OfArtifact("data")'
  <2>1. CASE file' = [file EXCEPT !["tmp"] = Empty]
    BY <1>1, <2>1 DEF OfArtifact, Empty
  <2> QED BY <1>2, <1>5, <1>6, <2>1 DEF OpenTmp
<1>7. ASSUME NEW p \in Procs, NEW i \in Part, NEW from, NEW to, WritePart(p, i, from, to)
      PROVE  OfArtifact("tmp")' /\ OfArtifact("data")'
  <2> DEFINE n == run[p].fd
  <2>1. CASE n # "orphan"
    <3>1. /\ file' = [file EXCEPT ![n] = [file[n] EXCEPT ![i] = "artifact"]]
          /\ file[n] \in Content
      BY <1>1, <1>5, <1>7, <2>1 DEF WritePart, WholeInv, Descriptor
    <3>2. \A j \in Part : [file[n] EXCEPT ![i] = "artifact"][j] \in {"artifact", file[n][j]}
      BY <3>1 DEF Content
    <3>3. ASSUME NEW m \in {"tmp", "data"} PROVE OfArtifact(m)'
      <4>1. OfArtifact(m) /\ m \in Names
        BY <1>1
      <4>2. CASE m = n
        <5>1. file[m] # Absent
          BY <3>1, <4>2, AbsentAssumption
        <5>2. file'[m] = [file[m] EXCEPT ![i] = "artifact"]
          BY <1>1, <3>1, <4>1, <4>2
        <5> HIDE DEF n
        <5> QED BY <3>2, <4>1, <4>2, <5>1, <5>2 DEF OfArtifact
      <4>3. CASE m # n
        <5>1. file'[m] = file[m]
          BY <1>1, <3>1, <4>1, <4>3
        <5> QED BY <4>1, <5>1 DEF OfArtifact
      <4> QED BY <4>2, <4>3
    <3> QED BY <3>3
  <2> QED BY <1>2, <1>7, <2>1 DEF WritePart
<1>8. ASSUME NEW p \in Procs, Rename(p) PROVE OfArtifact("tmp")' /\ OfArtifact("data")'
  <2>1. file' = [file EXCEPT !["data"] = file["tmp"], !["tmp"] = Absent]
    BY <1>5, <1>8 DEF Rename
  <2>2. file'["data"] = file["tmp"] /\ file'["tmp"] = Absent
    BY <1>1, <2>1
  <2> QED BY <1>1, <2>2 DEF OfArtifact
<1>9. ASSUME NEW p \in Procs, Step(p) PROVE OfArtifact("tmp")' /\ OfArtifact("data")'
  <2>1. CASE WriteFirst(p) \/ WriteSecond(p)
    BY <1>7, <2>1, Contents DEF WriteFirst, WriteSecond
  <2>2. CASE OpenMeta(p) \/ WriteMeta(p)
    BY <1>2, <1>4, <2>2 DEF OpenMeta, WriteMeta
  <2>3. CASE RemoveTmp(p)
    BY <1>1, <1>3, <1>5, <2>3 DEF RemoveTmp
  <2>4. CASE Start(p) \/ LookupExists(p) \/ ReadData(p) \/ ReadMeta(p) \/ Produce(p)
             \/ MakeDirectory(p) \/ RenameFails(p) \/ DiskFull(p) \/ Crash(p)
    BY <1>2, <2>4 DEF Start, LookupExists, ReadData, ReadMeta, Produce, MakeDirectory,
       RenameFails, DiskFull, Crash
  <2> QED BY <1>6, <1>8, <1>9, <2>1, <2>2, <2>3, <2>4 DEF Step
<1>10. ASSUME NEW n \in Names, ClearUnlink(n) PROVE OfArtifact("tmp")' /\ OfArtifact("data")'
  BY <1>3, <1>10 DEF ClearUnlink
<1>11. CASE ClearStart \/ ClearEnd \/ UNCHANGED vars
  BY <1>2, <1>11 DEF ClearStart, ClearEnd, vars
<1> QED BY <1>9, <1>10, <1>11 DEF Next

\* What an undisturbed run must leave when it ends well.
Repaired(p) ==
  run'[p].outcome \in {"hit", "miss", "written"} =>
    /\ file'["data"] = [i \in Part |-> Product(p)]
    /\ store = "oci" => Whole(file'["meta"])

\* An own step of an undisturbed run keeps it on its track or ends it well.
Repairs(p) == IF run'[p].pc = "idle" THEN Repaired(p) ELSE OnTrack(p)'

LEMMA FilledBoth ==
  ASSUME NEW p \in Procs, NEW c \in Content, c[1] = Product(p), c[2] = Product(p)
  PROVE  Filled(c, p)
BY DEF Filled, Content, Part

LEMMA OwnLookup ==
  ASSUME NEW p \in Procs, WholeInv, Genuine, OnTrack(p),
         LookupExists(p) \/ ReadData(p) \/ ReadMeta(p) \/ Produce(p)
  PROVE  Repairs(p)
<1>1. /\ FileTypes /\ Stepwise(p) /\ UNCHANGED <<store, file>>
      /\ file \in [Names -> Content \cup {Absent}] /\ "data" \in Names
      /\ run[p].undisturbed \in BOOLEAN
  BY DEF WholeInv, FileTypes, LookupExists, ReadData, ReadMeta, Produce, Names, Record
<1>2. Product(p)' = Product(p) /\ Tmp(p)' = Tmp(p)
  BY <1>1 DEF Product, Tmp
<1>3. Absent \in Value /\ p \in Value /\ {"hit", "error", "bypassed"} \subseteq Outcome
      /\ {"read", "produce", "mkdir", "readMeta"} \subseteq Pcs
  BY DEF Value, Outcome, Pcs, Busy
<1>4. ASSUME NEW x \in {"read", "produce", "mkdir"}, run' = Goto(p, x) PROVE Repairs(p)
  <2>1. run'[p].pc = x
    BY <1>1, <1>3, <1>4, GotoTypes
  <2> QED BY <2>1 DEF Repairs, OnTrack
<1>5. ASSUME store \in Caches, Whole(file["data"]) PROVE Filled(file["data"], p)
  <2>1. file["data"] \in Content
    BY <1>1, <1>5 DEF Whole
  <2>2. file["data"][1] = "artifact" /\ file["data"][2] = "artifact"
    BY <1>5, <2>1, Contents, AbsentAssumption DEF Genuine, OfArtifact, Whole
  <2> QED BY <1>1, <1>5, <2>1, <2>2, Products, FilledBoth
<1>6. CASE ReadData(p)
  <2>1. store \in Caches
    BY <1>1, <1>6 DEF ReadData, Stepwise
  <2>2. CASE Whole(file["data"]) /\ store = "metadata" /\ End(p, "hit", Absent)
    <3>1. run'[p].pc = "idle"
      BY <1>1, <1>3, <2>2, EndTypes
    <3>2. Filled(file'["data"], p)
      BY <1>1, <1>5, <2>1, <2>2
    <3> QED BY <2>2, <3>1, <3>2 DEF Repairs, Repaired, Filled
  <2>3. CASE Whole(file["data"]) /\ run' = Goto(p, "readMeta")
    <3>1. run'[p].pc = "readMeta"
      BY <1>1, <1>3, <2>3, GotoTypes
    <3>2. OnTrack(p)'
      BY <1>1, <1>2, <1>5, <2>1, <2>3, <3>1 DEF OnTrack, Filled
    <3> QED BY <3>1, <3>2 DEF Repairs
  <2> QED BY <1>4, <1>6, <2>2, <2>3 DEF ReadData
<1>7. CASE ReadMeta(p)
  <2>1. Filled(file["data"], p)
    BY <1>7 DEF ReadMeta, OnTrack
  <2>2. CASE (store = "oci" => Whole(file["meta"])) /\ \E v \in Value : End(p, "hit", v)
    <3>1. run'[p].pc = "idle"
      BY <1>1, <1>3, <2>2, EndTypes
    <3>2. Filled(file'["data"], p) /\ (store = "oci" => Whole(file'["meta"]))
      BY <1>1, <2>1, <2>2
    <3> QED BY <3>1, <3>2 DEF Repairs, Repaired, Filled
  <2>3. CASE ~Whole(file["meta"]) /\ run' = Goto(p, "produce")
    BY <1>4, <2>3
  <2>4. Whole(file["meta"]) => file["meta"][1] \in Value
    BY <1>1, Contents DEF Whole, Content, Names
  <2> QED BY <1>3, <1>7, <2>2, <2>3, <2>4 DEF ReadMeta
<1>8. CASE Produce(p)
  <2>1. ASSUME NEW o \in {"error", "bypassed"}, NEW v \in Value, End(p, o, v) PROVE Repairs(p)
    <3>1. run'[p].pc = "idle" /\ run'[p].outcome = o
      BY <1>1, <1>3, <2>1, EndTypes
    <3> QED BY <3>1 DEF Repairs, Repaired
  <2> QED BY <1>3, <1>4, <1>8, <2>1 DEF Produce
<1> QED BY <1>4, <1>6, <1>7, <1>8 DEF LookupExists

LEMMA OwnWrite ==
  ASSUME NEW p \in Procs, WholeInv, OnTrack(p),
         MakeDirectory(p) \/ OpenTmp(p) \/ WriteFirst(p) \/ WriteSecond(p)
  PROVE  Repairs(p)
<1>1. /\ FileTypes /\ UNCHANGED store /\ Descriptor(p)
      /\ file \in [Names -> Content \cup {Absent}] /\ run \in [Procs -> Record]
      /\ run[p] \in Record /\ Tmp(p) \in Names /\ Tmp(p) # "orphan"
  BY TmpNames DEF WholeInv, FileTypes, MakeDirectory, OpenTmp, WriteFirst, WriteSecond, WritePart
<1>2. Product(p)' = Product(p) /\ Tmp(p)' = Tmp(p)
  BY <1>1 DEF Product, Tmp
<1>3. {"open", "part1", "part2", "rename"} \subseteq Pcs
  BY DEF Pcs, Busy
<1>4. CASE MakeDirectory(p)
  <2>1. run'[p].pc = "open" /\ dir' = TRUE
    BY <1>1, <1>3, <1>4, GotoTypes DEF MakeDirectory
  <2> QED BY <2>1 DEF Repairs, OnTrack
<1>5. CASE OpenTmp(p)
  <2>1. dir /\ UNCHANGED dir /\ run' = [run EXCEPT ![p].pc = "part1", ![p].fd = Tmp(p)]
    BY <1>5 DEF OpenTmp, OnTrack
  <2>2. run'[p].pc = "part1" /\ run'[p].fd = Tmp(p)
    BY <1>1, <2>1 DEF Record
  <2> QED BY <1>2, <2>1, <2>2 DEF Repairs, OnTrack
<1>6. ASSUME NEW i \in Part, NEW from, NEW to, WritePart(p, i, from, to),
             \/ i = 1 /\ from = "part1" /\ to = "part2"
             \/ i = 2 /\ from = "part2" /\ to = "rename"
      PROVE  Repairs(p)
  <2>1. run[p].fd = Tmp(p) /\ dir /\ UNCHANGED dir /\ run[p].pc = from /\ run' = Goto(p, to)
    BY <1>6 DEF WritePart, OnTrack
  <2>2. run'[p].pc = to /\ run'[p].fd = Tmp(p)
    BY <1>1, <1>3, <1>6, <2>1, GotoTypes
  <2>3. file[Tmp(p)] \in Content
    BY <1>1, <2>1 DEF Descriptor
  <2>4. file' = [file EXCEPT ![Tmp(p)] = [file[Tmp(p)] EXCEPT ![i] = Product(p)]]
    BY <1>1, <1>6, <2>1 DEF WritePart
  <2>5. /\ file'[Tmp(p)][i] = Product(p)
        /\ \A j \in Part \ {i} : file'[Tmp(p)][j] = file[Tmp(p)][j]
    <3>1. file'[Tmp(p)] = [file[Tmp(p)] EXCEPT ![i] = Product(p)]
      BY <1>1, <2>4
    <3> QED BY <2>3, <3>1 DEF Content
  <2>6. i = 2 => file[Tmp(p)][1] = Product(p)
    BY <1>6, <2>1 DEF OnTrack
  <2> QED BY <1>2, <1>6, <2>1, <2>2, <2>5, <2>6, Contents DEF Repairs, OnTrack
<1> QED BY <1>4, <1>5, <1>6, Contents DEF WriteFirst, WriteSecond

LEMMA OwnRename ==
  ASSUME NEW p \in Procs, WholeInv, OnTrack(p), Rename(p) \/ RenameFails(p) \/ RemoveTmp(p)
  PROVE  Repairs(p)
<1>1. /\ FileTypes /\ UNCHANGED <<store, dir>> /\ Descriptor(p)
      /\ file \in [Names -> Content \cup {Absent}]
      /\ Tmp(p) \in Names /\ Tmp(p) \notin {"data", "orphan"} /\ "data" \in Names
  BY TmpNames DEF WholeInv, FileTypes, Rename, RenameFails, RemoveTmp, Names
<1>2. Rename(p) /\ run[p].pc = "rename" /\ dir /\ file[Tmp(p)] \in Content
  BY <1>1, AbsentAssumption DEF Rename, RenameFails, RemoveTmp, OnTrack, Descriptor
<1>3. file'["data"] = file[Tmp(p)]
  BY <1>1, <1>2 DEF Rename
<1>4. Filled(file'["data"], p)
  BY <1>2, <1>3, FilledBoth DEF OnTrack
<1>5. Product(p)' = Product(p)
  BY <1>1 DEF Product
<1>6. run'[p].pc = IF store \in Sidecar THEN "openMeta" ELSE "idle"
  BY <1>1, <1>2, RenameRuns
<1>7. CASE store \in Sidecar
  BY <1>1, <1>2, <1>4, <1>5, <1>6, <1>7 DEF Repairs, OnTrack, Filled
<1>8. CASE store \notin Sidecar
  BY <1>4, <1>6, <1>8 DEF Repairs, Repaired, Filled, Sidecar
<1> QED BY <1>7, <1>8

LEMMA OwnMeta ==
  ASSUME NEW p \in Procs, WholeInv, OnTrack(p), OpenMeta(p) \/ WriteMeta(p)
  PROVE  Repairs(p)
<1>1. /\ FileTypes /\ UNCHANGED <<store, dir>>
      /\ file \in [Names -> Content \cup {Absent}] /\ run \in [Procs -> Record] /\ run[p] \in Record
      /\ "data" \in Names /\ "meta" \in Names
  BY DEF WholeInv, FileTypes, OpenMeta, WriteMeta, Names
<1>2. Filled(file["data"], p) /\ dir
  BY DEF OnTrack, OpenMeta, WriteMeta
<1>3. Product(p)' = Product(p)
  BY <1>1 DEF Product
<1>4. CASE OpenMeta(p)
  <2>1. /\ file' = [file EXCEPT !["meta"] = Empty]
        /\ run' = [run EXCEPT ![p].pc = "meta", ![p].fd = "meta"]
    BY <1>2, <1>4 DEF OpenMeta
  <2>2. run'[p].pc = "meta" /\ run'[p].fd = "meta" /\ file'["data"] = file["data"]
    BY <1>1, <2>1 DEF Record
  <2> QED BY <1>1, <1>2, <1>3, <2>2 DEF Repairs, OnTrack, Filled
<1>5. CASE WriteMeta(p)
  <2>1. file' = [file EXCEPT !["meta"] = [i \in Part |-> p]] /\ End(p, "miss", p)
    BY <1>5 DEF WriteMeta, OnTrack
  <2>2. run'[p].pc = "idle"
    BY <1>1, <2>1 DEF End, Ended
  <2>3. file'["data"] = file["data"] /\ file'["meta"] = [i \in Part |-> p]
    BY <1>1, <2>1
  <2>4. Whole(file'["meta"])
    <3>1. [i \in Part |-> p] \in Content
      BY Contents DEF Value
    <3> QED BY <2>3, <3>1, Contents, FilesAssumption, AbsentAssumption DEF Whole
  <2> QED BY <1>2, <2>2, <2>3, <2>4 DEF Repairs, Repaired, Filled
<1> QED BY <1>4, <1>5

LEMMA OwnFault ==
  ASSUME NEW p \in Procs, WholeInv, DiskFull(p) \/ Crash(p), run'[p].undisturbed
  PROVE  Repairs(p)
<1>1. /\ FileTypes /\ run \in [Procs -> Record] /\ run[p] \in Record
  BY DEF WholeInv, FileTypes
<1>2. CASE DiskFull(p)
  <2>1. run'[p].undisturbed = FALSE
    BY <1>1, <1>2 DEF DiskFull, Ended, Record
  <2> QED BY <2>1
<1>3. CASE Crash(p)
  <2>1. "crashed" \in Outcome /\ Absent \in Value
    BY DEF Outcome, Value
  <2>2. run'[p].pc = "idle" /\ run'[p].outcome = "crashed"
    BY <1>1, <1>3, <2>1, EndTypes DEF Crash
  <2> QED BY <2>2 DEF Repairs, Repaired
<1> QED BY <1>2, <1>3

LEMMA OwnStep ==
  ASSUME NEW p \in Procs, WholeInv, Genuine, OnTrack(p), Step(p), ~Start(p),
         run'[p].undisturbed
  PROVE  Repairs(p)
BY OwnLookup, OwnWrite, OwnRename, OwnMeta, OwnFault DEF Step

\* The step of a run that was under way leaves the others where they were, and
\* no flag of an undisturbed run is ever raised again.
LEMMA OwnFrame ==
  ASSUME NEW p \in Procs, WholeInv, Step(p), ~Start(p)
  PROVE  /\ Active(p) /\ UNCHANGED <<store, clearing>>
         /\ \A q \in Procs \ {p} :
              run'[q].pc = run[q].pc /\ run'[q].undisturbed = run[q].undisturbed
         /\ run'[p].undisturbed => run[p].undisturbed
<1>1. FileTypes /\ run \in [Procs -> Record] /\ run[p] \in Record
  BY DEF WholeInv, FileTypes
<1>2. Active(p) /\ UNCHANGED <<store, clearing>>
  BY DEF Step, Active, LookupExists, ReadData, ReadMeta, Produce, MakeDirectory, OpenTmp,
     WriteFirst, WriteSecond, WritePart, Rename, RenameFails, RemoveTmp, OpenMeta, WriteMeta,
     DiskFull, Crash
<1> DEFINE Only == /\ \A q \in Procs \ {p} :
                        run'[q].pc = run[q].pc /\ run'[q].undisturbed = run[q].undisturbed
                   /\ run'[p].undisturbed => run[p].undisturbed
<1>3. ASSUME NEW r, run' = [run EXCEPT ![p] = r], r.undisturbed => run[p].undisturbed PROVE Only
  BY <1>1, <1>3
<1>4. ASSUME NEW x, run' = Goto(p, x) PROVE Only
  <2>1. [run[p] EXCEPT !.pc = x].undisturbed = run[p].undisturbed
    BY <1>1 DEF Record
  <2> HIDE DEF Only
  <2> QED BY <1>3, <1>4, <2>1 DEF Goto
<1>5. ASSUME NEW o, NEW v, End(p, o, v) PROVE Only
  <2>1. Ended(p, o, v).undisturbed = run[p].undisturbed
    BY <1>1 DEF Ended, Record
  <2> HIDE DEF Only
  <2> QED BY <1>3, <1>5, <2>1 DEF End
<1>6. ASSUME NEW x, NEW d, run' = [run EXCEPT ![p].pc = x, ![p].fd = d] PROVE Only
  <2>1. [[run[p] EXCEPT !.pc = x] EXCEPT !.fd = d].undisturbed = run[p].undisturbed
    BY <1>1 DEF Record
  <2>2. run' = [run EXCEPT ![p] = [[run[p] EXCEPT !.pc = x] EXCEPT !.fd = d]]
    BY <1>1, <1>6
  <2> HIDE DEF Only
  <2> QED BY <1>3, <2>1, <2>2
<1>7. ASSUME Rename(p) PROVE Only
  BY <1>1, <1>7, RenameRuns
<1>8. ASSUME RemoveTmp(p) PROVE Only
  <2>1. Tmp(p) \in Names /\ run' = [Unlinked(Tmp(p)) EXCEPT ![p] = Ended(p, WriteError, p)]
    BY <1>1, <1>8, TmpNames DEF RemoveTmp
  <2>2. Ended(p, WriteError, p).undisturbed = run[p].undisturbed
    BY <1>1 DEF Ended, Record
  <2> QED BY <1>1, <2>1, <2>2, Unlinks
<1>9. ASSUME DiskFull(p) PROVE Only
  <2>1. [Ended(p, "miss", p) EXCEPT !.undisturbed = FALSE].undisturbed = FALSE
    BY <1>1 DEF Ended, Record
  <2>2. [run[p] EXCEPT !.pc = "remove", !.undisturbed = FALSE].undisturbed = FALSE
    BY <1>1 DEF Record
  <2> HIDE DEF Only
  <2> QED BY <1>3, <1>9, <2>1, <2>2 DEF DiskFull
<1> HIDE DEF Only
<1>10. Only
  <2>1. CASE LookupExists(p) \/ ReadData(p) \/ ReadMeta(p)
    BY <1>4, <1>5, <2>1 DEF LookupExists, ReadData, ReadMeta
  <2>2. CASE Produce(p) \/ MakeDirectory(p)
    BY <1>4, <1>5, <2>2 DEF Produce, MakeDirectory
  <2>3. CASE WriteFirst(p) \/ WriteSecond(p)
    BY <1>4, <2>3 DEF WriteFirst, WriteSecond, WritePart
  <2>4. CASE OpenTmp(p) \/ OpenMeta(p)
    BY <1>5, <1>6, <2>4 DEF OpenTmp, OpenMeta
  <2>5. CASE RenameFails(p) \/ WriteMeta(p) \/ Crash(p)
    BY <1>4, <1>5, <2>5 DEF RenameFails, WriteMeta, Crash
  <2> QED BY <1>7, <1>8, <1>9, <2>1, <2>2, <2>3, <2>4, <2>5 DEF Step
<1> QED BY <1>2, <1>10 DEF Only

LEMMA StartFrame ==
  ASSUME NEW p \in Procs, WholeInv, Start(p)
  PROVE  /\ UNCHANGED clearing
         /\ \A q \in Procs \ {p} : run'[q].pc = run[q].pc /\ ~run'[q].undisturbed
         /\ run'[p].pc \in {"produce", "exists", "read"}
         /\ run'[p].undisturbed => clearing = Absent /\ \A q \in Procs \ {p} : ~Active(q)
<1>1. run \in [Procs -> Record]
  BY DEF WholeInv, FileTypes
<1>2. PICK n \in BOOLEAN :
        run' = [q \in Procs |->
                 IF q = p THEN [Idle EXCEPT
                     !.pc = IF store \notin Caches \/ n THEN "produce"
                            ELSE IF store = "metadata" THEN "exists" ELSE "read",
                     !.noCache = n,
                     !.undisturbed = clearing = Absent /\ \A r \in Procs \ {p} : ~Active(r)]
                 ELSE [run[q] EXCEPT !.undisturbed = FALSE]]
  BY DEF Start
<1>3. \A q \in Procs \ {p} : run'[q].pc = run[q].pc /\ ~run'[q].undisturbed
  BY <1>1, <1>2 DEF Record
<1>4. /\ run'[p].pc \in {"produce", "exists", "read"}
      /\ run'[p].undisturbed = (clearing = Absent /\ \A r \in Procs \ {p} : ~Active(r))
  BY <1>2 DEF Idle
<1> QED BY <1>3, <1>4 DEF Start

LEMMA HealNext == WholeInv /\ HealInv /\ [Next]_vars => HealInv'
<1> SUFFICES ASSUME WholeInv, HealInv, [Next]_vars, NEW q \in Procs,
                    Active(q)', run'[q].undisturbed
             PROVE  /\ clearing' = Absent
                    /\ \A r \in Procs \ {q} : ~Active(r)'
                    /\ OnTrack(q)'
  BY GenuineNext DEF HealInv, Steady
<1> DEFINE Stays == /\ clearing' = Absent
                    /\ \A r \in Procs \ {q} : ~Active(r)'
                    /\ OnTrack(q)'
<1>1. Genuine /\ run \in [Procs -> Record]
  BY DEF HealInv, WholeInv, FileTypes
<1>2. ASSUME Active(q), run[q].undisturbed
      PROVE  clearing = Absent /\ (\A r \in Procs \ {q} : ~Active(r)) /\ OnTrack(q)
  BY <1>2 DEF HealInv, Steady
<1>3. ASSUME NEW p \in Procs, Start(p) PROVE Stays
  <2>1. p = q
    BY <1>3, StartFrame
  <2> QED BY <1>3, <2>1, StartFrame DEF Active, OnTrack
<1>4. ASSUME NEW p \in Procs, Step(p), ~Start(p) PROVE Stays
  <2>1. p = q
    BY <1>2, <1>4, OwnFrame DEF Active
  <2>2. clearing = Absent /\ (\A r \in Procs \ {q} : ~Active(r)) /\ OnTrack(q)
    BY <1>2, <1>4, <2>1, OwnFrame
  <2>3. Repairs(q)
    BY <1>1, <1>4, <2>1, <2>2, OwnStep
  <2> QED BY <1>4, <2>1, <2>2, <2>3, OwnFrame DEF Repairs, Active
<1>5. ASSUME ClearStart PROVE Stays
  <2>1. run'[q].undisturbed = FALSE
    BY <1>1, <1>5 DEF ClearStart, Record
  <2> QED BY <2>1
<1>6. ASSUME NEW n \in Names, ClearUnlink(n) PROVE Stays
  <2>1. FileTypes /\ run' = Unlinked(n) /\ clearing # Absent
    BY <1>6, Zenon DEF ClearUnlink, WholeInv
  <2>2. StayPut(run')
    BY <2>1, UnlinkedStayPut
  <2>3. run'[q].pc = run[q].pc /\ run'[q].undisturbed = run[q].undisturbed
    BY <2>2, Zenon DEF StayPut
  <2> QED BY <1>2, <2>1, <2>3 DEF Active
<1>7. ASSUME ClearEnd PROVE Stays
  <2>1. clearing # Absent /\ run' = run
    BY <1>7, AbsentAssumption DEF ClearEnd
  <2> QED BY <1>2, <2>1 DEF Active
<1>8. CASE UNCHANGED vars
  BY <1>2, <1>8 DEF vars, Active, OnTrack, Tmp, Product, Filled
<1> QED BY <1>3, <1>4, <1>5, <1>6, <1>7, <1>8 DEF Next, Step

LEMMA HealInit == Init => HealInv
BY DEF Init, HealInv, Genuine, Steady, OfArtifact, Active, Idle, Names

\* One undisturbed run repairs the entry, whatever crashes and clears came
\* before it.
THEOREM RunsHeal == Spec => Heals
<1>1. WholeInv /\ HealInv /\ [Next]_vars =>
        [\A p \in Procs :
           Active(p) /\ run'[p].pc = "idle" /\ run'[p].undisturbed => Repaired(p)]_vars
  <2> SUFFICES ASSUME WholeInv, HealInv, Next, NEW q \in Procs,
                      Active(q), run'[q].pc = "idle", run'[q].undisturbed
               PROVE  Repaired(q)
    OBVIOUS
  <2>1. run \in [Procs -> Record] /\ FileTypes
    BY DEF WholeInv, FileTypes
  <2>2. ASSUME NEW p \in Procs, Step(p) PROVE Repaired(q)
    <3>1. ~Start(p)
      BY <2>2, StartFrame DEF Active, Start
    <3>2. p = q
      BY <2>2, <3>1, OwnFrame DEF Active
    <3>3. OnTrack(q) /\ Genuine
      BY <2>2, <3>1, <3>2, OwnFrame DEF HealInv, Steady
    <3> QED BY <2>2, <3>1, <3>2, <3>3, OwnStep DEF Repairs
  <2>3. CASE ClearStart
    BY <2>1, <2>3 DEF ClearStart, Active, Record
  <2>4. CASE ClearEnd
    BY <2>4 DEF ClearEnd, Active
  <2>5. ASSUME NEW n \in Names, ClearUnlink(n) PROVE Repaired(q)
    BY <2>1, <2>5, Unlinks DEF ClearUnlink, Active
  <2> QED BY <2>2, <2>3, <2>4, <2>5 DEF Next
<1>2. [\A p \in Procs :
         Active(p) /\ run'[p].pc = "idle" /\ run'[p].undisturbed => Repaired(p)]_vars
      => [\A p \in Procs :
            /\ Active(p) /\ run'[p].pc = "idle"
            /\ run'[p].undisturbed
            /\ run'[p].outcome \in {"hit", "miss", "written"}
            => /\ file'["data"] = [i \in Part |-> Product(p)]
               /\ store = "oci" => Whole(file'["meta"])]_vars
  BY DEF Repaired
<1> QED BY FileInit, FileNext, HealInit, HealNext, <1>1, <1>2, PTL DEF Spec, Heals

=============================================================================
