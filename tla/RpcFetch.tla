------------------------------ MODULE RpcFetch ------------------------------
(***************************************************************************)
(* A run that reads its baseline from a Stellar RPC endpoint (loader.rs,   *)
(* rpc_record.rs, and the part of main.rs that uses the result): by        *)
(* contract id, in two dependent reads that must agree on a ledger; by     *)
(* code hash, in one; or recorded into a bundle that a later run replays.  *)
(* In empirical mode the run then reads storage, from the same endpoint or *)
(* from a snapshot file.                                                   *)
(*                                                                         *)
(* Ledgers close while the run is between two requests, and the nodes      *)
(* behind the endpoint may lag. A contract's code is its digest.           *)
(***************************************************************************)
EXTENDS Naturals, Sequences, FiniteSets

CONSTANTS
  Hashes,      \* wasm digests
  MaxLedger,   \* bound on the ledgers closed
  Lag,         \* how many ledgers a node may be behind
  MaxRetries,  \* max_snapshot_retries
  Sources,     \* ways to read the baseline: "contract", "hash", "record"
  Faults,      \* faults of the endpoint
  MaxFaulty    \* bound on the faulty replies

Ledgers == 1..MaxLedger

ASSUME RpcAssumption ==
  /\ Hashes # {} /\ Hashes \cap {"asset", "garbled", "none", "unknown"} = {}
  /\ MaxLedger \in Nat \ {0} /\ Lag \in Nat /\ MaxRetries \in Nat /\ MaxFaulty \in Nat
  /\ Sources \subseteq {"contract", "hash", "record"}
  /\ Faults \subseteq {"failed", "garbled", "noLedger", "otherId", "strayed"}

-----------------------------------------------------------------------------
(* The two files a run can read instead of asking an endpoint, as          *)
(* functions of their content: the replay bundle of a recorded fetch       *)
(* (rpc_bundle.rs, rpc_record.rs) and the storage snapshot with its        *)
(* integrity manifest (snapshot_manifest.rs). A digest is the content it   *)
(* was computed from.                                                      *)

Rejected == [kind |-> "rejected"]

-----------------------------------------------------------------------------
(* Replay bundles.                                                         *)

\* push_entry numbers the entries and stores the digest of the response.
BundleEntry(i, method, response) ==
  [sequence |-> i, method |-> method, response |-> response, responseHash |-> response]

Bundle(exchanges, bytes) ==
  [version |-> 1,
   entries |-> [i \in DOMAIN exchanges |->
                  BundleEntry(i, exchanges[i].method, exchanges[i].response)],
   artifact |-> [bytes |-> bytes, sha256 |-> bytes]]

\* validate: version, order, digests.
\* Mutant (ValidatesLax): the digest of the artifact is taken on trust.
ValidatesLax(b) ==
  /\ b.version = 1
  /\ \A i \in DOMAIN b.entries :
       b.entries[i].sequence = i /\ b.entries[i].responseHash = b.entries[i].response
Validates(b) ==
  /\ b.version = 1
  /\ \A i \in DOMAIN b.entries :
       b.entries[i].sequence = i /\ b.entries[i].responseHash = b.entries[i].response
  /\ b.artifact.bytes = b.artifact.sha256

\* replay_wasm_from_bundle: two getLedgerEntries exchanges and no more, the
\* first an instance that runs a wasm; the module is the embedded artifact.
\* The instance's hash and the second response are not looked at.
Replay(b) ==
  IF /\ Validates(b)
     /\ Len(b.entries) = 2
     /\ \A i \in 1..2 : b.entries[i].method = "getLedgerEntries"
     /\ b.entries[1].response.type = "instance"
     /\ b.entries[1].response.executable \notin {"garbled", "asset"}
     /\ b.artifact.bytes # "garbled"
  THEN [kind |-> "module", bytes |-> b.artifact.bytes]
  ELSE Rejected

\* What can happen to the file between the two runs, short of computing new
\* digests: an entry lost, repeated or moved, a response or the bytes damaged.
Without(s, i) == [j \in 1..(Len(s) - 1) |-> IF j < i THEN s[j] ELSE s[j + 1]]
Twice(s, i) == [j \in 1..(Len(s) + 1) |-> IF j <= i THEN s[j] ELSE s[j - 1]]
Swapped(s, i, k) == [s EXCEPT ![i] = s[k], ![k] = s[i]]

Damaged(b, junk, bytes) ==
  {[b EXCEPT !.entries = s] :
     s \in {Without(b.entries, i) : i \in DOMAIN b.entries}
        \cup {Twice(b.entries, i) : i \in DOMAIN b.entries}
        \cup {Swapped(b.entries, i, k) : i, k \in DOMAIN b.entries}
        \cup {[b.entries EXCEPT ![i].response = r] : i \in DOMAIN b.entries, r \in junk}}
  \cup {[b EXCEPT !.artifact.bytes = d] : d \in bytes}
  \cup {[b EXCEPT !.version = 2]}

-----------------------------------------------------------------------------
(* Storage snapshots.                                                      *)

\* digest_entry: one digest for the key, one for the whole entry.
DigestEntry(i, e) ==
  [index |-> i, key |-> e.key, entry |-> e, durability |-> e.durability]

\* build_manifest; the self-hash stands for the manifest with the field blank.
ManifestBody(inputs, entries) ==
  [inputs |-> inputs, count |-> Len(entries),
   digests |-> [i \in DOMAIN entries |-> DigestEntry(i, entries[i])]]
BuildManifest(inputs, entries) ==
  [version |-> 1, body |-> ManifestBody(inputs, entries),
   selfHash |-> ManifestBody(inputs, entries)]

\* The checks of verify_snapshot that leave an issue when they fail.
SelfHashHolds(m) == m.selfHash = m.body
CountsHold(m, entries) ==
  m.body.count = Len(m.body.digests) /\ Len(m.body.digests) = Len(entries)
DeclaredOnce(m) ==
  /\ \A i, j \in DOMAIN m.body.digests :
       m.body.digests[i].index = m.body.digests[j].index
         \/ m.body.digests[i].entry = m.body.digests[j].entry => i = j
  /\ {m.body.digests[i].index : i \in DOMAIN m.body.digests} = 1..Len(m.body.digests)
DescribesEntry(m, entries, i) ==
  /\ \A j \in 1..(i - 1) : entries[j] # entries[i]
  /\ \E j \in DOMAIN m.body.digests :
       /\ m.body.digests[j] = DigestEntry(i, entries[i])
       /\ entries[i].contract = m.body.inputs.contract
\* Only what the run has established is compared.
ContextHolds(m, expected) ==
  \A field \in DOMAIN expected : expected[field] = m.body.inputs[field]

\* verify_snapshot: verified, unverified without a manifest, failed.
VerifySnapshot(hasManifest, m, entries, expected) ==
  IF ~hasManifest THEN "unverified"
  ELSE IF m.version # 1 THEN "failed"
  ELSE IF /\ SelfHashHolds(m) /\ CountsHold(m, entries) /\ DeclaredOnce(m)
          /\ \A i \in DOMAIN entries : DescribesEntry(m, entries, i)
          /\ ContextHolds(m, expected)
       THEN "verified" ELSE "failed"

-----------------------------------------------------------------------------
(* The run.                                                                *)

VARIABLES
  chain,      \* the executable of the contract at each ledger
  head,       \* the last ledger closed
  source, wanted, expected, allowId, empirical,   \* arguments of the run
  pc,
  attempt,    \* snapshot retries so far
  inst,       \* what the instance read returned
  recorded,   \* the recorder's exchanges
  module,     \* the wasm module and its provenance, or the error
  report,     \* provenance and storage of the report
  bundle, replayed,
  faulty, seenFaults

args == <<source, wanted, expected, allowId, empirical>>
fetchVars == <<chain, head, args, pc, attempt, inst, recorded, module, report, bundle, replayed,
               faulty, seenFaults>>

-----------------------------------------------------------------------------
NoModule == [kind |-> "none", code |-> "none", named |-> "none", ledger |-> 0,
             network |-> "none"]
Failure(why) == [NoModule EXCEPT !.kind = "error", !.named = why]
NoReport == [provenance |-> "none", code |-> "none", ledger |-> 0,
             storageLedger |-> 0, integrity |-> "none"]
NoInstance == [executable |-> "none", seq |-> 0]

FetchInit ==
  /\ chain \in [Ledgers -> Hashes \cup {"asset"}]
  /\ head = 1
  /\ source \in Sources
  /\ wanted \in IF source = "hash" THEN Hashes ELSE {"none"}
  /\ expected \in {"none"} \cup Hashes
  /\ allowId \in BOOLEAN
  /\ empirical \in IF source = "contract" THEN {"off", "rpc", "file"} ELSE {"off"}
  /\ pc = IF source = "hash" THEN "hash" ELSE "instance"
  /\ attempt = 0
  /\ inst = NoInstance
  /\ recorded = <<>>
  /\ module = NoModule
  /\ report = NoReport
  /\ bundle = Rejected /\ replayed = Rejected
  /\ faulty = 0 /\ seenFaults = {}

\* The network closes a ledger.
CloseLedger ==
  /\ pc \notin {"done", "replay"} /\ head < MaxLedger
  /\ head' = head + 1
  /\ UNCHANGED <<chain, args, pc, attempt, inst, recorded, module, report, bundle, replayed,
                 faulty, seenFaults>>

-----------------------------------------------------------------------------
(* Replies. Every request carries id 1, so the reply to another request    *)
(* (a caching proxy's) may carry the expected id too.                      *)

Served == {l \in Ledgers : l <= head /\ l + Lag >= head}

InstanceAt(l) == [type |-> "instance", executable |-> chain[l]]
Code(h, d) == [type |-> "code", hash |-> h, digest |-> d]
Garbled == [type |-> "garbled", executable |-> "garbled", hash |-> "garbled", digest |-> "garbled"]

Named == IF source = "hash" THEN wanted ELSE inst.executable

\* The entries of other requests.
Strays ==
  {InstanceAt(k) : k \in Served} \cup {Code(h, h) : h \in Hashes} \cup {Code(Named, h) : h \in Hashes}

\* The replies to a request at ledger l whose honest answer is entry, given the
\* fault: no usable reply, no usable entry, no latestLedger, another id, or
\* the entry of another request. Without a fault there is one, the answer.
Replies(fault, l, entry) ==
  IF fault = "strayed"
  THEN [ok : {TRUE}, idMatches : BOOLEAN, seq : {l}, entry : Strays]
  ELSE {[ok        |-> fault # "failed",
         idMatches |-> fault # "otherId",
         seq       |-> IF fault = "noLedger" THEN 0 ELSE l,
         entry     |-> IF fault = "garbled" THEN Garbled ELSE entry]}

\* A request meets a fault of the endpoint, or none.
Met(fault) ==
  \/ fault = "none" /\ UNCHANGED <<faulty, seenFaults>>
  \/ /\ fault \in Faults /\ faulty < MaxFaulty
     /\ faulty' = faulty + 1
     /\ seenFaults' = seenFaults \cup {fault}

\* query_rpc: transport, content type and RPC errors are one failure here;
\* the recorder's query does not look at the id.
Refused(r) == ~r.ok \/ (~r.idMatches /\ ~allowId /\ source # "record")

Fail(why) ==
  /\ module' = Failure(why) /\ pc' = "done"
  /\ UNCHANGED <<attempt, inst, recorded>>

Recording(r) ==
  recorded' = IF source = "record"
              THEN Append(recorded, [method |-> "getLedgerEntries", response |-> r.entry])
              ELSE recorded

-----------------------------------------------------------------------------
(* The fetch.                                                              *)

\* First read: the instance names the wasm.
\* Mutant (HandleInstanceOnce): the ledger of the first attempt is kept.
HandleInstanceOnce(r) ==
  \/ Refused(r) /\ Fail("refused")
  \/ ~Refused(r) /\ r.entry.type # "instance" /\ Fail("malformed")
  \/ ~Refused(r) /\ r.entry.type = "instance" /\ r.entry.executable = "asset" /\ Fail("asset")
  \/ /\ ~Refused(r) /\ r.entry.type = "instance" /\ r.entry.executable # "asset"
     /\ inst' = [executable |-> r.entry.executable,
                 seq |-> IF attempt = 0 THEN r.seq ELSE inst.seq]
     /\ Recording(r)
     /\ pc' = "code"
     /\ UNCHANGED <<attempt, module>>
HandleInstance(r) ==
  \/ Refused(r) /\ Fail("refused")
  \/ ~Refused(r) /\ r.entry.type # "instance" /\ Fail("malformed")
  \/ ~Refused(r) /\ r.entry.type = "instance" /\ r.entry.executable = "asset" /\ Fail("asset")
  \/ /\ ~Refused(r) /\ r.entry.type = "instance" /\ r.entry.executable # "asset"
     /\ inst' = [executable |-> r.entry.executable, seq |-> r.seq]
     /\ Recording(r)
     /\ pc' = "code"
     /\ UNCHANGED <<attempt, module>>

FetchInstance ==
  /\ pc = "instance"
  /\ \E l \in Served, fault \in Faults \cup {"none"} :
       /\ Met(fault)
       /\ \E r \in Replies(fault, l, InstanceAt(l)) : HandleInstance(r)
  /\ UNCHANGED <<chain, head, args, report, bundle, replayed>>

\* The two reads saw different ledgers; a read that names none is not compared,
\* and the recorder compares nothing.
Torn(r) == source = "contract" /\ inst.seq # 0 /\ r.seq # 0 /\ inst.seq # r.seq

\* Mutant (RetryForever): a retry is not counted.
RetryForever ==
  /\ pc' = "instance"
  /\ UNCHANGED <<attempt, module, inst, recorded>>
Retry ==
  /\ attempt' = attempt + 1
  /\ IF attempt' <= MaxRetries
     THEN pc' = "instance" /\ UNCHANGED module
     ELSE pc' = "done" /\ module' = Failure("snapshot")
  /\ UNCHANGED <<inst, recorded>>

\* Second read: the code. Whether it is the code the instance names is not
\* checked, only that it is a wasm module.
HandleCode(r) ==
  \/ Refused(r) /\ Fail("refused")
  \/ ~Refused(r) /\ Torn(r) /\ Retry
  \/ ~Refused(r) /\ ~Torn(r) /\ r.entry.type # "code" /\ Fail("malformed")
  \/ /\ ~Refused(r) /\ ~Torn(r) /\ r.entry.type = "code"
     /\ module' = [NoModule EXCEPT !.kind = "ok", !.code = r.entry.digest,
                     !.named = inst.executable,
                     !.ledger = IF inst.seq # 0 THEN inst.seq ELSE r.seq]
     /\ Recording(r)
     /\ pc' = IF source = "record" THEN "bundle" ELSE "network"
     /\ UNCHANGED <<attempt, inst>>

FetchCode ==
  /\ pc = "code"
  /\ \E l \in Served, fault \in Faults \cup {"none"} :
       /\ Met(fault)
       /\ \E r \in Replies(fault, l, Code(Named, Named)) : HandleCode(r)
  /\ UNCHANGED <<chain, head, args, report, bundle, replayed>>

\* By code hash: the entry's own hash and the digest of its bytes are checked.
HandleByHash(r) ==
  \/ Refused(r) /\ Fail("refused")
  \/ ~Refused(r) /\ r.entry.type # "code" /\ Fail("malformed")
  \/ /\ ~Refused(r) /\ r.entry.type = "code"
     /\ (r.entry.hash # wanted \/ r.entry.digest # wanted)
     /\ Fail("integrity")
  \/ /\ ~Refused(r) /\ r.entry.type = "code"
     /\ r.entry.hash = wanted /\ r.entry.digest = wanted
     /\ module' = [NoModule EXCEPT !.kind = "ok", !.code = wanted, !.named = wanted,
                     !.ledger = r.seq]
     /\ pc' = "network"
     /\ UNCHANGED <<attempt, inst, recorded>>

FetchByHash ==
  /\ pc = "hash"
  /\ \E l \in Served, fault \in Faults \cup {"none"} :
       /\ Met(fault)
       /\ \E r \in Replies(fault, l, Code(Named, Named)) : HandleByHash(r)
  /\ UNCHANGED <<chain, head, args, report, bundle, replayed>>

\* getNetwork; any failure is answered with the public network's passphrase.
QueryNetwork ==
  /\ pc = "network"
  /\ \/ /\ module' = [module EXCEPT !.network = "asked"]
        /\ UNCHANGED <<faulty, seenFaults>>
     \/ /\ faulty < MaxFaulty /\ Faults # {}
        /\ faulty' = faulty + 1
        /\ \E f \in Faults : seenFaults' = seenFaults \cup {f}
        /\ module' = [module EXCEPT !.network = "assumed"]
  /\ pc' = "pin"
  /\ UNCHANGED <<chain, head, args, attempt, inst, recorded, report, bundle, replayed>>

-----------------------------------------------------------------------------
(* The report (run_single and compare_contracts).                          *)

\* --expected-wasm-hash pins the bytes before anything is compared.
CheckExpected ==
  /\ pc = "pin"
  /\ IF expected \in {"none", module.code}
     THEN pc' = "compare" /\ UNCHANGED module
     ELSE pc' = "done" /\ module' = Failure("pin")
  /\ UNCHANGED <<chain, head, args, attempt, inst, recorded, report, bundle, replayed,
                 faulty, seenFaults>>

\* The report is built from the bytes alone: it starts without provenance.
Compare ==
  /\ pc = "compare"
  /\ report' = [report EXCEPT !.code = module.code]
  /\ pc' = IF empirical = "off" THEN "done"
           ELSE IF empirical = "rpc" THEN "storage" ELSE "snapshot"
  /\ UNCHANGED <<chain, head, args, attempt, inst, recorded, module, bundle, replayed,
                 faulty, seenFaults>>

\* Instance storage from the endpoint. A failure, or a reply that names no
\* ledger, degrades to a report without storage; the ledger is compared with
\* the report's provenance, where there is one.
HandleStorage(r) ==
  /\ pc' = "done"
  /\ IF Refused(r) \/ r.entry.type # "instance" \/ r.seq = 0
     THEN UNCHANGED <<module, report>>
     ELSE IF report.provenance # "none" /\ report.ledger # r.seq
     THEN module' = Failure("snapshot") /\ UNCHANGED report
     ELSE /\ report' = [report EXCEPT !.provenance = "rpc", !.storageLedger = r.seq,
                          !.ledger = IF report.provenance = "none" THEN r.seq ELSE @]
          /\ UNCHANGED module
  /\ UNCHANGED <<attempt, inst, recorded>>

FetchStorage ==
  /\ pc = "storage"
  /\ \E l \in Served, fault \in Faults \cup {"none"} :
       /\ Met(fault)
       /\ \E r \in Replies(fault, l, InstanceAt(l)) : HandleStorage(r)
  /\ UNCHANGED <<chain, head, args, bundle, replayed>>

\* A snapshot file, captured at any ledger while some code was deployed, with
\* or without a manifest; its context is checked against the report's
\* provenance and the contract id.
Entry(k) == [key |-> k, contract |-> "this", durability |-> "persistent"]
Context ==
  IF report.provenance = "none" THEN [contract |-> "this"]
  ELSE [contract |-> "this", code |-> report.code, ledger |-> report.ledger]

LoadSnapshot ==
  /\ pc = "snapshot"
  /\ \E l \in 1..head, has \in BOOLEAN, owner \in {"this", "other"} :
       LET inputs == [contract |-> owner, code |-> chain[l], network |-> "asked", ledger |-> l]
           entries == <<[Entry("a") EXCEPT !.contract = owner]>>
           integrity == VerifySnapshot(has, BuildManifest(inputs, entries), entries, Context)
       IN IF integrity = "failed"
          THEN module' = Failure("snapshot") /\ UNCHANGED report
          ELSE /\ report' = [report EXCEPT !.integrity = integrity, !.storageLedger = l]
               /\ UNCHANGED module
  /\ pc' = "done"
  /\ UNCHANGED <<chain, head, args, attempt, inst, recorded, bundle, replayed,
                 faulty, seenFaults>>

-----------------------------------------------------------------------------
(* Record and replay.                                                      *)

\* record_wasm_from_rpc: the exchanges and the verified bytes; the file may be
\* damaged before it is replayed.
Junk == {Garbled, InstanceAt(1)} \cup {Code(h, h) : h \in Hashes}

WriteBundle ==
  /\ pc = "bundle"
  /\ LET written == Bundle(recorded, module.code)
     IN bundle' \in {written} \cup Damaged(written, Junk, Hashes \cup {"garbled"})
  /\ pc' = "replay"
  /\ UNCHANGED <<chain, head, args, attempt, inst, recorded, module, report, replayed,
                 faulty, seenFaults>>

ReplayFile ==
  /\ pc = "replay"
  /\ replayed' = Replay(bundle)
  /\ pc' = "done"
  /\ UNCHANGED <<chain, head, args, attempt, inst, recorded, module, report, bundle,
                 faulty, seenFaults>>

Run ==
  \/ FetchInstance \/ FetchCode \/ FetchByHash \/ QueryNetwork
  \/ CheckExpected \/ Compare \/ FetchStorage \/ LoadSnapshot
  \/ WriteBundle \/ ReplayFile

FetchNext == CloseLedger \/ Run

FetchSpec == FetchInit /\ [][FetchNext]_fetchVars
\* A request is answered or times out, except the recorder's, which has no timeout.
FairSpec == FetchSpec /\ WF_fetchVars(source # "record" /\ Run)

-----------------------------------------------------------------------------
\* A baseline fetched by contract id is the contract's code at the ledger its
\* provenance names, across upgrades, lagging nodes and retries, as long as the
\* endpoint names its ledger and answers the requests it was sent
\* (fetch_wasm_from_rpc_inner).
\* And whatever the endpoint answers, no report is built on other bytes than
\* those pinned by --expected-wasm-hash, or than those of the code hash asked for.
SnapshotTrue ==
  /\ source = "contract" /\ module.kind = "ok" /\ seenFaults \cap {"noLedger", "strayed"} = {}
       => /\ module.ledger \in Ledgers
          /\ module.code = chain[module.ledger] /\ module.named = module.code
  /\ report.code # "none" => /\ expected \in {"none", report.code}
                             /\ source = "hash" => report.code = wanted

\* A replay returns the bytes that were recorded or refuses the file; it accepts
\* the file the recorder wrote (record_wasm_from_rpc, replay_wasm_from_bundle).
ReplaySameOrRefused ==
  source = "record" /\ pc = "done" /\ module.kind = "ok"
    => /\ replayed.kind = "module" => replayed.bytes = module.code
       /\ bundle = Bundle(recorded, module.code) => replayed.kind = "module"

\* The fetch ends although ledgers keep closing between its two reads and the
\* nodes keep disagreeing.
FetchEnds == source # "record" => <>(pc = "done")

\* The manual lists "The SHA-256 of the fetched bytecode does not match the hash
\* in the contract instance entry" among the errors of the fetch.
CodeVerified == source = "contract" /\ module.kind = "ok" => module.code = module.named

\* A snapshot file verified by a run that fetched its baseline was captured
\* from the code and at the ledger of that baseline.
CrossChecked ==
  report.integrity = "verified" =>
    report.storageLedger = module.ledger /\ chain[report.storageLedger] = module.code
=============================================================================
