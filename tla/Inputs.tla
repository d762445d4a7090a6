------------------------------- MODULE Inputs -------------------------------
(***************************************************************************)
(* Where the bytes of a build come from (load_wasm_input, src/main.rs):     *)
(* standard input, a pinned URL (src/remote.rs), an artifact of a registry  *)
(* (src/oci.rs) or a path (src/loader.rs), with the caches between, and the *)
(* build manifests that bytes are held against.                             *)
(*                                                                          *)
(* A digest [alg, hex] names the content its hex is, if it is a content:    *)
(* SHA-256 is taken as injective, and the case of a digest as one.  What    *)
(* the outside holds during one load is a world [stdin, site, registry,     *)
(* docker, path, disk]; path is what four successive looks at it find.      *)
(***************************************************************************)
EXTENDS Naturals, Sequences, FiniteSets
LOCAL INSTANCE SequencesExt

CONSTANTS
    Content,        \* what a file, a body or a stream may hold
    ByteSize,           \* in bytes
    Wasm,           \* the contents with a WASM header and structure
    OciManifest,    \* the contents that parse as a manifest, parsed
    AcceptedTypes   \* the media types of a layer of each kind

Nothing == "nothing"    \* no text, no file, no page
Unpinned == [alg |-> Nothing, hex |-> Nothing]

Refused == [loaded |-> FALSE]

------------------------------------------------------------------------------
(* References *)

WellPinned(digest) == digest.alg = "sha256" /\ digest.hex \in Content

\* OciReference::parse: a digest goes before a tag.
WellNamed(ref) ==
    /\ ref.registry # "" /\ ref.repository \notin {"", Nothing}
    /\ IF ref.digest # Unpinned THEN WellPinned(ref.digest) ELSE ref.tag \notin {"", Nothing}

------------------------------------------------------------------------------
(* The caches: from a digest's hex to [bytes, meta], meta the sidecar's text.    *)

\* Mutant (Kept): the entry is taken without hashing it again.
Kept(cache, hex) == hex \in DOMAIN cache

Cached(cache, hex) == hex \in DOMAIN cache /\ cache[hex].bytes = hex

\* write_cache: the artifact is renamed into place before its sidecar is written,
\* and a disk may refuse both or the second.
WriteCache(cache, bytes, meta, disk) ==
    LET sidecar == IF disk = "writes" THEN meta
                   ELSE IF bytes \in DOMAIN cache THEN cache[bytes].meta ELSE Nothing
    IN  IF disk = "full" THEN cache
        ELSE [h \in DOMAIN cache \cup {bytes} |->
                IF h = bytes THEN [bytes |-> bytes, meta |-> sidecar] ELSE cache[h]]

------------------------------------------------------------------------------
(* Pinned URLs *)

\* A redirect over the limit, or to another scheme, ends the request.
Serves(site, config) ==
    /\ site.status = "ok"
    /\ Len(site.hops) =< config.maxHops /\ ToSet(site.hops) \subseteq {"https"}

FetchVerified(ref, config, world, cache) ==
    LET hex == ref.digest.hex
        body == world.site.body
    IN  IF ~config.noCache /\ Cached(cache, hex)
        THEN [loaded |-> TRUE, bytes |-> cache[hex].bytes, sha256 |-> hex, status |-> "hit",
              origin |-> cache[hex].meta, cache |-> cache]
        ELSE IF ~Serves(world.site, config) \/ ByteSize[body] > config.maxBytes \/ body # hex
        THEN Refused
        ELSE [loaded |-> TRUE, bytes |-> body, sha256 |-> body,
              status |-> IF config.noCache THEN "bypassed" ELSE "miss",
              origin |-> world.site.url,
              cache |-> IF config.noCache THEN cache
                        ELSE WriteCache(cache, body, world.site.url, world.disk)]

------------------------------------------------------------------------------
(* Registries *)

\* The plaintext entry, then the helper of the host, then the global store: one
\* that fails leaves it to the next.
Credentials(docker) ==
    LET usable == SelectInSeq(docker, LAMBDA c : c \notin {Nothing, "fails"})
    IN  IF usable = 0 THEN Nothing ELSE docker[usable]

\* A page is [asks, body]; it asks for nothing, or in a scheme with parameters.
Challenge(asks) ==
    CASE asks.scheme = Nothing -> "none"
      [] asks.scheme = "Bearer" /\ "realm" \in asks.params -> "bearer"
      [] asks.scheme = "Basic" -> "basic"
      [] OTHER -> "unusable"

\* "odd" is a `token` field that is no text: the other field is not asked then.
Token(realm, credentials) ==
    IF /\ realm.answer \in {"token", "access_token"}
       /\ realm.account \in {Nothing, credentials}
    THEN realm.answer ELSE Nothing

\* get_with_auth: without credentials first, and once more after a challenge.
Get(page, registry, docker, config) ==
    LET credentials == Credentials(docker)
        challenge == Challenge(page.asks)
        admitted == \/ challenge = "none"
                    \/ challenge = "bearer" /\ Token(registry.realm, credentials) # Nothing
                    \/ challenge = "basic" /\ credentials # Nothing
                         /\ credentials = registry.account
    IN  IF admitted /\ page.body # Nothing /\ ByteSize[page.body] =< config.maxBytes
        THEN page.body ELSE Nothing

VerifyDigest(bytes, digest) == digest.alg = "sha256" /\ digest.hex = bytes

\* The first layer of an accepted type, or 0.
Layer(manifest, kind) ==
    IF manifest.index THEN 0
    ELSE SelectInSeq(manifest.layers, LAMBDA l : l.type \in AcceptedTypes[kind])

ResolveOciArtifact(ref, kind, config, world, cache) ==
    LET page == Get(world.registry.manifest, world.registry, world.docker, config)
        manifest == OciManifest[page]
        layer == manifest.layers[Layer(manifest, kind)]
        hex == layer.digest.hex
        blob == Get(world.registry.blob, world.registry, world.docker, config)
        Got(bytes, type, status, after) ==
            [loaded |-> TRUE, bytes |-> bytes, sha256 |-> bytes, status |-> status,
             manifest |-> page, layer |-> layer.digest, type |-> type,
             tag |-> IF ref.digest = Unpinned THEN ref.tag ELSE Nothing, cache |-> after]
    IN  IF \/ ref.digest = Unpinned /\ ~config.allowTags
           \/ page = Nothing
           \/ ref.digest # Unpinned /\ ~VerifyDigest(page, ref.digest)
           \/ page \notin DOMAIN OciManifest
           \/ Layer(manifest, kind) = 0
        THEN Refused
        ELSE IF /\ ~config.noCache /\ layer.digest.alg = "sha256"
                /\ Cached(cache, hex) /\ cache[hex].meta # Nothing
        THEN Got(cache[hex].bytes, cache[hex].meta, "hit", cache)
        ELSE IF blob = Nothing \/ ~VerifyDigest(blob, layer.digest) THEN Refused
        ELSE IF config.noCache THEN Got(blob, layer.type, "bypassed", cache)
        ELSE Got(blob, layer.type, "miss", WriteCache(cache, blob, layer.type, world.disk))

------------------------------------------------------------------------------
(* Paths and streams *)

\* load_wasm_with_policy: the entry itself, where its link leads, whether there
\* is a file, and its bytes are four looks.  A look is [link, what]: the place the
\* entry links to, and what is read there.
LoadPath(look, rejectLinks) ==
    LET linked == look[1].link # Nothing
    IN  IF \/ linked /\ (rejectLinks \/ look[2].what = Nothing)
           \/ look[3].what \in {Nothing, "directory"}
           \/ look[4].what \notin Content
        THEN Refused
        ELSE [loaded |-> TRUE, bytes |-> look[4].what, sha256 |-> look[4].what,
              link |-> IF linked THEN look[2].link ELSE Nothing]

LoadStdin(bytes) ==
    IF ByteSize[bytes] = 0 THEN Refused ELSE [loaded |-> TRUE, bytes |-> bytes, sha256 |-> bytes]

\* wasm_module_from_bytes
AsModule(got) == IF got.loaded /\ got.bytes \notin Wasm THEN Refused ELSE got

\* A load keeps what it wrote to the cache, whatever becomes of the bytes.
After(got, cache) ==
    IF got.loaded /\ "cache" \in DOMAIN got THEN got.cache ELSE cache
ModuleOf(got, cache) == [got |-> AsModule(got), cache |-> After(got, cache)]
AnyOf(got, cache) == [got |-> got, cache |-> After(got, cache)]

\* load_wasm_input.  A text that starts with neither scheme is a path.
LoadWasmInput(ref, config, world, cache) ==
    CASE ref.scheme = "-" -> ModuleOf(LoadStdin(world.stdin), cache)
      [] ref.scheme = "https" ->
            ModuleOf(IF WellPinned(ref.digest) THEN FetchVerified(ref, config, world, cache)
                     ELSE Refused, cache)
      [] ref.scheme = "oci" ->
            ModuleOf(IF WellNamed(ref)
                     THEN ResolveOciArtifact(ref, "wasm", config, world, cache)
                     ELSE Refused, cache)
      [] OTHER -> ModuleOf(LoadPath(world.path, config.rejectLinks), cache)

\* read_artifact_bytes, for the documents that commands other than the comparison
\* read: the same references under the compiled-in settings, with no stream, no
\* policy for links, and no look at what the bytes are.
ReadArtifact(ref, defaults, world, cache) ==
    CASE ref.scheme = "https" ->
            AnyOf(IF WellPinned(ref.digest) THEN FetchVerified(ref, defaults, world, cache)
                  ELSE Refused, cache)
      [] ref.scheme = "oci" ->
            AnyOf(IF WellNamed(ref)
                  THEN ResolveOciArtifact(ref, "spec", defaults, world, cache)
                  ELSE Refused, cache)
      [] OTHER ->
            AnyOf(IF world.path[4].what \in Content
                  THEN [loaded |-> TRUE, bytes |-> world.path[4].what, sha256 |-> world.path[4].what]
                  ELSE Refused, cache)

\* Several runs, one after the other, over one cache.
Then(run, next) == [cache |-> next.cache, loads |-> Append(run.loads, next.got)]
Load(use, ref, config, worlds, cache) ==
    FoldLeft(LAMBDA run, world :
                Then(run, IF use = "module" THEN LoadWasmInput(ref, config, world, run.cache)
                          ELSE ReadArtifact(ref, config, world, run.cache)),
             [cache |-> cache, loads |-> <<>>], worlds)

\* verify_expected_wasm_hash
ExpectedHash(expected, sha256) ==
    IF expected \notin Content THEN "malformed"
    ELSE IF expected = sha256 THEN "met" ELSE "mismatch"

\* Only files take part in the cache of parsed metadata.
UsesMetadataCache(ref) ==
    /\ ref.scheme # "-"
    /\ ~(ref.scheme = "https" /\ WellPinned(ref.digest))
    /\ ~(ref.scheme = "oci" /\ WellNamed(ref))

------------------------------------------------------------------------------
(* Build manifests *)

FieldOf == [source_revision |-> "source_revision", git_revision |-> "source_revision",
            revision |-> "source_revision", rust_version |-> "rust_version",
            rustc |-> "rust_version", sdk_version |-> "sdk_version",
            soroban_sdk |-> "sdk_version", target |-> "target", target_triple |-> "target",
            profile |-> "profile", build_profile |-> "profile", features |-> "features"]
Fields == {FieldOf[k] : k \in DOMAIN FieldOf}

\* parse_metadata_section: entries [key, value] up to the first that cannot be
\* read; of two for one field the later stands.  The value of features is a
\* sequence of words, of which the empty ones are left out.
Embedded(entries) ==
    LET cut == SelectInSeq(entries, LAMBDA e : e.key = Nothing)
        read == IF cut = 0 THEN entries ELSE SubSeq(entries, 1, cut - 1)
        told(field) == {i \in DOMAIN read : /\ read[i].key \in DOMAIN FieldOf
                                            /\ FieldOf[read[i].key] = field}
    IN  [f \in {g \in Fields : told(g) # {}} |->
            LET v == read[CHOOSE i \in told(f) : \A j \in told(f) : j =< i].value
            IN  IF f = "features" THEN SelectSeq(v, LAMBDA w : w # "") ELSE v]

\* A manifest is a function of the fields it states; a list of features without
\* an element states none.
Stated(manifest) ==
    {f \in DOMAIN manifest : f # "features" \/ manifest[f] # <<>>}

\* BuildManifest::validate (src/manifest.rs), which the entry of src/remote.rs has not
ManifestStands(version, manifest) ==
    /\ version = 1
    /\ "source_revision" \in DOMAIN manifest => manifest.source_revision # ""
    /\ "artifact_sha256" \in DOMAIN manifest => manifest.artifact_sha256 \in Content

\* A list as a bag: lists are sorted before they are compared.
Sorted(list) == ToBag(list)

\* verify_against_manifest (src/loader.rs)
VerifyModule(sha256, entries, manifest) ==
    LET embedded == Embedded(entries) @@ [artifact_sha256 |-> sha256]
        both == Stated(manifest) \cap DOMAIN embedded
        Equal(f) == IF f = "features" THEN Sorted(manifest[f]) = Sorted(embedded[f])
                    ELSE manifest[f] = embedded[f]
        verified == {f \in both : Equal(f)}
    IN  [verified |-> verified, mismatched |-> both \ verified,
         unverified |-> (Stated(manifest) \cup DOMAIN embedded) \ both]

\* The other two comparisons take a list in its order, and do not report what only
\* the module tells.
InOrder(stated, actual) ==
    LET both == Stated(stated) \cap DOMAIN actual
        verified == {f \in both : stated[f] = actual[f]}
    IN  [verified |-> verified, mismatched |-> both \ verified,
         unverified |-> Stated(stated) \ both]

\* verify_manifest_entry (src/remote.rs)
VerifyEntry(sha256, embedded, entry) == InOrder(entry, embedded @@ [artifact_sha256 |-> sha256])

\* ProvenanceReport::compare (src/manifest.rs), which leaves out the digest
CompareProvenance(manifest, observed) ==
    InOrder([f \in DOMAIN manifest \ {"artifact_sha256"} |-> manifest[f]], observed)

==============================================================================
