--------------------------- MODULE SignedEvidence ---------------------------
(***************************************************************************)
(* Evidence that travels: the attestation of a report (src/attestation.rs   *)
(* and the `attest` and `verify-attestation` commands), the policy bundle   *)
(* that tightens a run (src/policy_bundle.rs), and evidence bundles         *)
(* (src/bundle.rs).                                                         *)
(*                                                                          *)
(* A file is its content, and its digest stands for it. A signature is      *)
(* [keyid, by, over]: the identity it claims, the private key that made it  *)
(* and what it was made over, the payload type together with the payload    *)
(* (dsse_pae). It verifies under exactly the public key of `by`; Garbage    *)
(* verifies under none. The trust store maps identities to keys.            *)
(***************************************************************************)
EXTENDS Integers, Sequences, FiniteSets
LOCAL INSTANCE FiniteSetsExt
LOCAL INSTANCE SequencesExt

CONSTANTS
    BadName,           \* names that validate_member_name refuses
    MaxMembers, MaxMemberBytes, MaxTotalBytes

StatementType == "application/vnd.in-toto+json"
PolicyType    == "policy bundle"
Garbage       == "garbage"

Pae(type, payload) == <<type, payload>>

Sign(type, payload, keyid, key) ==
    [type |-> type, payload |-> payload,
     signatures |-> <<[keyid |-> keyid, by |-> key, over |-> Pae(type, payload)]>>]

Verifies(envelope, signature, trusted) ==
    /\ signature.keyid \in DOMAIN trusted
    /\ signature.by = trusted[signature.keyid] /\ signature.by # Garbage
    /\ signature.over = Pae(envelope.type, envelope.payload)

------------------------------------------------------------------------------
(* Attestations *)

\* A statement is [form, known, canonical, artifacts]: whether its type,
\* predicate and version are the supported ones, whether its bytes are in
\* canonical form, and the artifact [name, digest] of each role. A file is
\* named by the path it was attested from; what is extracted from a build has
\* a name made of that path.
Roles == <<"report", "old", "new", "old spec", "new spec", "old schema", "new schema">>

FileOf(role) ==
    CASE role = "old spec" -> "old" [] role = "new spec" -> "new" [] OTHER -> role

Kind(role) == IF role = FileOf(role) THEN "file" ELSE "spec"

Read(files, role) == <<Kind(role), files[FileOf(role)]>>

\* `paths` has a path for each file given, `first` what is in the file when it
\* is read. The builds are read once more for what is extracted from them.
Statement(paths, first, again) ==
    [form |-> "statement", known |-> TRUE, canonical |-> TRUE,
     artifacts |-> [role \in {r \in ToSet(Roles) : FileOf(r) \in DOMAIN paths} |->
                      [name   |-> <<Kind(role), paths[FileOf(role)]>>,
                       digest |-> Read(IF Kind(role) = "spec" THEN again ELSE first, role)]]]

RunAttest(paths, first, again, keyid, key) ==
    Sign(StatementType, Statement(paths, first, again), keyid, key)

\* DsseEnvelope::statement: anything else ends the verification at once.
IsStatement(envelope) ==
    /\ envelope.type = StatementType
    /\ envelope.payload.form = "statement"
    /\ envelope.payload.canonical
    /\ envelope.payload.known

VerifySignatures(envelope, trusted) ==
    LET good == {i \in DOMAIN envelope.signatures :
                    Verifies(envelope, envelope.signatures[i], trusted)}
    IN  [signers  |-> {envelope.signatures[i].keyid : i \in good},
         failures |-> IF envelope.signatures = <<>> THEN {"no signatures"}
                      ELSE {IF envelope.signatures[i].keyid \in DOMAIN trusted
                            THEN "invalid signature" ELSE "untrusted signer" :
                              i \in DOMAIN envelope.signatures \ good}]

\* The files given to the command are kept by the names of the statement, in the
\* order of Roles: of two that have one name, the last is kept. NotGiven stands
\* for a name that no file was given for.
NotGiven == <<"missing", "">>
Supplied(artifacts, given, name) ==
    LET k == SelectLastInSeq(Roles, LAMBDA r : /\ r \in DOMAIN artifacts
                                               /\ FileOf(r) \in DOMAIN given
                                               /\ artifacts[r].name = name)
    IN  IF k = 0 THEN NotGiven ELSE Read(given, Roles[k])

VerifyArtifacts(artifacts, given, expired) ==
    {"expired policy" : x \in {y \in {0} : expired}}
      \cup {IF Supplied(artifacts, given, artifacts[r].name) = NotGiven
            THEN "missing artifact" ELSE "digest mismatch" :
              r \in {q \in DOMAIN artifacts :
                        Supplied(artifacts, given, artifacts[q].name) # artifacts[q].digest}}

RunVerifyAttestation(envelope, trusted, given, expired) ==
    IF ~IsStatement(envelope)
    THEN [verified |-> FALSE, signers |-> {}, failures |-> {"invalid statement"}]
    ELSE LET signatures == VerifySignatures(envelope, trusted)
             failures == signatures.failures
                           \cup VerifyArtifacts(envelope.payload.artifacts, given, expired)
         IN  [verified |-> signatures.signers # {} /\ failures = {},
              signers |-> signatures.signers, failures |-> failures]

------------------------------------------------------------------------------
(* Policy bundles *)

\* A bundle is [form, known, canonical, expiresAt, gates, reasons];
\* NoExpiry stands for a bundle without an expiry date.
NoExpiry == 1000000

BundleVerified(envelope, trusted, now) ==
    /\ envelope.payload.form = "policy"        \* else it is not parsed at all
    /\ envelope.type = PolicyType
    /\ envelope.payload.canonical
    /\ envelope.payload.known
    /\ now < envelope.payload.expiresAt
    /\ envelope.signatures # <<>>
    /\ \A i \in DOMAIN envelope.signatures : Verifies(envelope, envelope.signatures[i], trusted)

\* The union of what both ask for.
ApplyBundlePolicy(policy, bundle) ==
    [policy EXCEPT !.gates = @ \cup bundle.gates, !.reasons = @ \cup bundle.reasons]

\* A run whose bundle does not verify ends before any build is loaded. The local
\* suppressions were validated before the bundle was read: whether each of them
\* has the reasons that the policy requires is decided by the local policy.
Admissible(policy, rules) ==
    \A r \in rules : r.rule \in policy.reasons => r.reason

RunWithBundle(policy, rules, envelope, trusted, now) ==
    IF ~Admissible(policy, rules) \/ ~BundleVerified(envelope, trusted, now)
    THEN [refused |-> TRUE, policy |-> policy]
    ELSE [refused |-> FALSE, policy |-> ApplyBundlePolicy(policy, envelope.payload)]

------------------------------------------------------------------------------
(***************************************************************************)
(* Evidence bundles: a directory of members with a manifest of their        *)
(* digests, and the build manifest that may be one of them.                 *)
(*                                                                          *)
(* A content is [is, size], and its digest stands for `is`. A source is     *)
(* read twice, for the digest and for the copy, so it is                    *)
(* [hashed |-> content, copied |-> content, inPlace |-> whether it is the   *)
(* very file that it is to be copied to]. A directory is [members |-> a     *)
(* function from names to contents, manifest |-> ...].                      *)
(***************************************************************************)
NoManifest == [version |-> 0]
SchemaVersion == 1

Total(contents) == MapThenSumSet(LAMBDA name : contents[name].size, DOMAIN contents)

------------------------------------------------------------------------------
(* create_bundle *)

\* The members are taken in the order of their names; `first(k)` are the names of
\* the first k. A name, a size or a total that is refused ends the call there,
\* with the members before it already in the directory.
Accepts(names, sources, k) ==
    LET taken == {names[i] : i \in 1 .. k}
    IN  /\ names[k] \notin BadName
        /\ sources[names[k]].hashed.size =< MaxMemberBytes
        /\ Total([n \in taken |-> sources[n].hashed]) =< MaxTotalBytes

\* The hash of the manifest covers everything else in it.
SelfHash(manifest) == <<manifest.version, manifest.members>>

Sealed(members) ==
    LET m == [version |-> SchemaVersion, members |-> members]
    IN  [version |-> m.version, members |-> m.members, self |-> SelfHash(m)]

\* fs::copy empties its target before it reads: a file is lost when it is
\* copied to itself.
Empty == [is |-> "nothing", size |-> 0]
Copied(source) == IF source.inPlace THEN Empty ELSE source.copied

\* `stop` is the number of members copied when the process ends early; one more
\* than there are stands for an end while the manifest is written, and a
\* greater number for none.
CreateBundle(dir, names, sources, stop) ==
    LET refused == {k \in DOMAIN names : ~Accepts(names, sources, k)}
        done == Min({k - 1 : k \in refused} \cup {Len(names), stop})
        copied == {names[i] : i \in 1 .. done}
        members == [n \in DOMAIN dir.members \cup copied |->
                      IF n \in copied THEN Copied(sources[n]) ELSE dir.members[n]]
        left(manifest) == [members |-> members, manifest |-> manifest]
    IN  IF Len(names) > MaxMembers THEN [created |-> FALSE, dir |-> dir]
        ELSE IF refused # {} \/ stop =< Len(names)
        THEN [created |-> FALSE, dir |-> left(dir.manifest)]
        ELSE IF stop = Len(names) + 1
        THEN [created |-> FALSE, dir |-> left(NoManifest)]
        ELSE [created |-> TRUE, dir |-> left(Sealed([n \in copied |-> sources[n].hashed]))]

------------------------------------------------------------------------------
(* verify_bundle, inspect_bundle, read_member *)

\* Mutant (VerifyBundleSizes): a member of the right size is taken for the right one.
VerifyBundleSizes(dir) ==
    LET declared == dir.manifest.members
    IN  /\ dir.manifest.version = SchemaVersion
        /\ Cardinality(DOMAIN declared) =< MaxMembers
        /\ \A n \in DOMAIN declared :
              /\ n \notin BadName
              /\ n \in DOMAIN dir.members
              /\ dir.members[n].size =< MaxMemberBytes
              /\ dir.members[n].size = declared[n].size
        /\ Total(declared) =< MaxTotalBytes
        /\ dir.manifest.self = SelfHash(dir.manifest)

\* Members that the manifest does not name are not looked at.
VerifyBundle(dir) ==
    LET declared == dir.manifest.members
    IN  /\ dir.manifest.version = SchemaVersion
        /\ Cardinality(DOMAIN declared) =< MaxMembers
        /\ \A n \in DOMAIN declared :
              /\ n \notin BadName
              /\ n \in DOMAIN dir.members
              /\ dir.members[n].size =< MaxMemberBytes
              /\ dir.members[n] = declared[n]
        /\ Total(declared) =< MaxTotalBytes
        /\ dir.manifest.self = SelfHash(dir.manifest)

\* Whether the manifest tells the truth is not looked at.
InspectBundle(dir) ==
    IF dir.manifest.version # SchemaVersion THEN [refused |-> TRUE]
    ELSE [refused |-> FALSE, members |-> dir.manifest.members, total |-> Total(dir.manifest.members)]

\* The bytes are those of the directory, not those of the manifest.
ReadMember(dir, name) ==
    IF name \in BadName \/ dir.manifest.version # SchemaVersion
         \/ name \notin DOMAIN dir.members \/ dir.members[name].size > MaxMemberBytes
    THEN [refused |-> TRUE]
    ELSE [refused |-> FALSE, content |-> dir.members[name]]

------------------------------------------------------------------------------
(* The build manifest and what was built *)

\* A build manifest is [version, declared |-> a function from fields to values,
\* features, artifacts |-> a sequence of [name, digest]]. A field that is not
\* observed is unverified, and so is an artifact whose file is not there. Features
\* are compared as sorted lists: the observed ones may be given twice.
Distinct(s) == Cardinality(ToSet(s)) = Len(s)
ValidBuildManifest(m) ==
    /\ m.version = SchemaVersion
    /\ \A f \in DOMAIN m.declared : m.declared[f] # ""
    /\ Distinct(m.features)
    /\ Distinct([i \in DOMAIN m.artifacts |-> m.artifacts[i].name])

\* `observed` has the fields and the features that the build's metadata declares,
\* `files` what is in the directory.
CompareProvenance(m, observed, files) ==
    LET artifact == [n \in {m.artifacts[i].name : i \in DOMAIN m.artifacts} |->
                       (CHOOSE i \in DOMAIN m.artifacts : m.artifacts[i].name = n)]
        same == {f \in DOMAIN m.declared \cap DOMAIN observed.fields :
                    m.declared[f] = observed.fields[f]}
        built == {n \in DOMAIN artifact \cap DOMAIN files :
                    files[n].is = m.artifacts[artifact[n]].digest}
        listed == IF ToBag(m.features) = ToBag(observed.features) THEN {"features"} ELSE {}
        seen == (DOMAIN m.declared \cap DOMAIN observed.fields)
                  \cup (DOMAIN artifact \cap DOMAIN files)
                  \cup (IF observed.declaresFeatures THEN {"features"} ELSE {})
    IN  [verified   |-> (same \cup built \cup listed) \cap seen,
         mismatched |-> seen \ (same \cup built \cup listed),
         unverified |-> (DOMAIN m.declared \cup DOMAIN artifact \cup {"features"}) \ seen]

\* verify_bundle_provenance: the bundle itself is not verified here.
VerifyProvenance(dir, m, observed) ==
    IF ~ValidBuildManifest(m) THEN [refused |-> TRUE]
    ELSE [refused |-> FALSE, report |-> CompareProvenance(m, observed, dir.members)]

==============================================================================
