----------------------------- MODULE SharedFiles -----------------------------
(***************************************************************************)
(* The files that several runs of the tool share on one disk, and the      *)
(* protocol each of them is written and read with:                         *)
(*   metadata  the parsed-metadata cache       (metadata_cache.rs)         *)
(*   remote    the cache of pinned URLs        (remote.rs)                 *)
(*   oci       the cache of registry layers    (oci.rs)                    *)
(*   output    a report named by --output      (write_atomically, main.rs) *)
(*   status    the watch status file           (watch_status.rs), and with *)
(*             it the other files with a private temporary name: the       *)
(*             lineage store and the metrics snapshot.                     *)
(* There is no lock anywhere: what a reader may see rests on the order of  *)
(* the system calls, which are the steps of this module. A file is two     *)
(* parts long, written one after the other at the writer's own offset; a   *)
(* descriptor follows its file through a rename, and a descriptor whose    *)
(* file was unlinked or replaced writes where nobody reads.                *)
(***************************************************************************)
EXTENDS Naturals, FiniteSets, TLC

CONSTANTS
  Procs,      \* processes of the tool
  Absent,     \* no such file, no content
  Stores,     \* the stores explored
  MaxRuns,    \* bound on the runs started
  MaxFaults,  \* bound on the crashes and full disks
  MaxClears   \* bound on the --clear-*-cache runs

ASSUME FilesAssumption ==
  /\ IsFiniteSet(Procs) /\ Procs # {}
  /\ Absent \notin Procs \cup {"artifact", "data", "meta", "tmp", "orphan"}
  /\ Procs \cap {"artifact", "data", "meta", "tmp", "orphan"} = {}
  /\ Stores \subseteq {"metadata", "remote", "oci", "output", "status"}
  /\ MaxRuns \in Nat /\ MaxFaults \in Nat /\ MaxClears \in Nat

VARIABLES
  store,      \* the store of this behaviour
  dir,        \* the entry's directory exists
  file,       \* what each name of the entry's directory holds
  run,        \* the current or last run of each process
  clearing,   \* names a --clear run still has to unlink, or Absent
  runs, faults, clears,
  contended   \* history: two runs have been writing at the same time

vars == <<store, dir, file, run, clearing, runs, faults, clears, contended>>

-----------------------------------------------------------------------------
Caches == {"metadata", "remote", "oci"}
Sidecar == {"remote", "oci"}              \* the entry has a meta.json

Names == {"data", "meta", "tmp"} \cup Procs
Part == {1, 2}
Value == Procs \cup {"artifact", Absent}
Content == [Part -> Value]

ASSUME AbsentAssumption ==
  /\ \A c \in Content : c # Absent
  /\ \A names \in SUBSET Names : names # Absent

Empty == [i \in Part |-> Absent]

\* A complete file: every part is there and of one document.
Whole(c) == c # Absent /\ c[1] # Absent /\ c[1] = c[2]

\* payload.json.tmp, artifact.bin.tmp and <output>.tmp are one name for every
\* process; the status file, the lineage store and the metrics use one each.
\* Mutant (TmpShared): the temporary name forgets the process id.
TmpShared(p) == "tmp"
Tmp(p) == IF store = "status" THEN p ELSE "tmp"

\* A cache entry is the same for every run that computes it, a report is not.
Product(p) == IF store \in Caches THEN "artifact" ELSE p

Writing(p) == run[p].pc \in {"mkdir", "open", "part1", "part2", "rename", "remove"}
Active(p) == run[p].pc # "idle"

Idle == [pc |-> "idle", noCache |-> FALSE, fd |-> "orphan", outcome |-> "none",
         origin |-> Absent, undisturbed |-> FALSE]

Init ==
  /\ store \in Stores
  /\ dir = (store \notin Caches)
  /\ file = [n \in Names |-> Absent]
  /\ run = [p \in Procs |-> Idle]
  /\ clearing = Absent
  /\ runs = 0 /\ faults = 0 /\ clears = 0
  /\ contended = FALSE

\* A run ends: what it served and where it says the bytes came from.
Ended(p, outcome, origin) ==
  [run[p] EXCEPT !.pc = "idle", !.fd = "orphan", !.outcome = outcome, !.origin = origin]
Goto(p, pc) == [run EXCEPT ![p].pc = pc]
End(p, outcome, origin) == run' = [run EXCEPT ![p] = Ended(p, outcome, origin)]

-----------------------------------------------------------------------------
(* Lookup.                                                                 *)

\* A run starts; no_cache reads and writes nothing.
Start(p) ==
  /\ ~Active(p) /\ runs < MaxRuns
  /\ runs' = runs + 1
  /\ \E n \in (IF store \in Caches THEN BOOLEAN ELSE {FALSE}) :
       run' = [q \in Procs |->
                 IF q = p THEN [Idle EXCEPT
                     !.pc = IF store \notin Caches \/ n THEN "produce"
                            ELSE IF store = "metadata" THEN "exists" ELSE "read",
                     !.noCache = n,
                     !.undisturbed = clearing = Absent /\ \A r \in Procs \ {p} : ~Active(r)]
                 ELSE [run[q] EXCEPT !.undisturbed = FALSE]]
  /\ UNCHANGED <<store, dir, file, clearing, faults, clears, contended>>

\* lookup: payload_path.exists().
LookupExists(p) ==
  /\ run[p].pc = "exists"
  /\ run' = Goto(p, IF file["data"] = Absent THEN "produce" ELSE "read")
  /\ UNCHANGED <<store, dir, file, clearing, runs, faults, clears, contended>>

\* read_cache and read_entry: the bytes are hashed again, the payload parsed
\* and its key compared; whatever is not whole is a miss.
ReadData(p) ==
  /\ run[p].pc = "read"
  /\ IF Whole(file["data"])
     THEN IF store = "metadata" THEN End(p, "hit", Absent) ELSE run' = Goto(p, "readMeta")
     ELSE run' = Goto(p, "produce")
  /\ UNCHANGED <<store, dir, file, clearing, runs, faults, clears, contended>>

\* The sidecar: remote falls back on an empty origin, oci on a miss.
\* Mutant (ReadMetaLax): a missing sidecar is a miss for no store.
ReadMetaLax(p) ==
  /\ run[p].pc = "readMeta"
  /\ End(p, "hit", IF Whole(file["meta"]) THEN file["meta"][1] ELSE Absent)
  /\ UNCHANGED <<store, dir, file, clearing, runs, faults, clears, contended>>
ReadMeta(p) ==
  /\ run[p].pc = "readMeta"
  /\ \/ /\ Whole(file["meta"])
        /\ End(p, "hit", file["meta"][1])
     \/ /\ ~Whole(file["meta"]) /\ store = "remote"
        /\ End(p, "hit", Absent)
     \/ /\ ~Whole(file["meta"]) /\ store = "oci"
        /\ run' = Goto(p, "produce")
  /\ UNCHANGED <<store, dir, file, clearing, runs, faults, clears, contended>>

\* The download and its digest check, the parse of the module, or the report:
\* an error ends the run before anything is written.
Produce(p) ==
  /\ run[p].pc = "produce"
  /\ \/ store \in Caches /\ End(p, "error", Absent)
     \/ run[p].noCache /\ End(p, "bypassed", p)
     \/ ~run[p].noCache /\ run' = Goto(p, "mkdir")
  /\ contended' = (contended \/ (~run[p].noCache /\ \E q \in Procs \ {p} : Writing(q)))
  /\ UNCHANGED <<store, dir, file, clearing, runs, faults, clears>>

-----------------------------------------------------------------------------
(* The atomic write: temporary file, then rename.                          *)

\* Failing to fill a cache is silent; failing to write a report is not.
WriteError == IF store \in Caches THEN "miss" ELSE "error"

MakeDirectory(p) ==
  /\ run[p].pc = "mkdir"
  /\ dir' = TRUE
  /\ run' = Goto(p, "open")
  /\ UNCHANGED <<store, file, clearing, runs, faults, clears, contended>>

\* Creating the temporary file truncates the one another run is writing.
OpenTmp(p) ==
  /\ run[p].pc = "open"
  /\ IF dir
     THEN /\ file' = [file EXCEPT ![Tmp(p)] = Empty]
          /\ run' = [run EXCEPT ![p].pc = "part1", ![p].fd = Tmp(p)]
     ELSE End(p, WriteError, p) /\ UNCHANGED file
  /\ UNCHANGED <<store, dir, clearing, runs, faults, clears, contended>>

WritePart(p, i, from, to) ==
  /\ run[p].pc = from
  /\ file' = IF run[p].fd = "orphan" THEN file
             ELSE [file EXCEPT ![run[p].fd][i] = Product(p)]
  /\ run' = Goto(p, to)
  /\ UNCHANGED <<store, dir, clearing, runs, faults, clears, contended>>

WriteFirst(p) == WritePart(p, 1, "part1", "part2")
WriteSecond(p) == WritePart(p, 2, "part2", "rename")

\* rename moves whatever is behind the temporary name. The descriptors open on
\* it follow; those open on the file it replaces are orphans.
Rename(p) ==
  /\ run[p].pc = "rename" /\ dir /\ file[Tmp(p)] # Absent
  /\ file' = [file EXCEPT !["data"] = file[Tmp(p)], ![Tmp(p)] = Absent]
  /\ LET moved == [q \in Procs |->
           [run[q] EXCEPT !.fd = IF @ = Tmp(p) THEN "data"
                                 ELSE IF @ = "data" THEN "orphan" ELSE @]]
     IN run' = [moved EXCEPT ![p] =
                  IF store \in Sidecar
                  THEN [moved[p] EXCEPT !.pc = "openMeta", !.fd = "orphan"]
                  ELSE Ended(p, IF store \in Caches THEN "miss" ELSE "written", p)]
  /\ UNCHANGED <<store, dir, clearing, runs, faults, clears, contended>>

\* The temporary file is gone: another run renamed it, or a clear removed it.
\* Every store but metadata then removes the temporary name.
RenameFails(p) ==
  /\ run[p].pc = "rename" /\ (~dir \/ file[Tmp(p)] = Absent)
  /\ IF store = "metadata" THEN End(p, WriteError, p) ELSE run' = Goto(p, "remove")
  /\ UNCHANGED <<store, dir, file, clearing, runs, faults, clears, contended>>

\* The name may be another run's file by now, whose descriptor is orphaned.
Unlinked(n) == [q \in Procs |-> [run[q] EXCEPT !.fd = IF @ = n THEN "orphan" ELSE @]]

RemoveTmp(p) ==
  /\ run[p].pc = "remove"
  /\ file' = [file EXCEPT ![Tmp(p)] = Absent]
  /\ run' = [Unlinked(Tmp(p)) EXCEPT ![p] = Ended(p, WriteError, p)]
  /\ UNCHANGED <<store, dir, clearing, runs, faults, clears, contended>>

\* meta.json is written in place.
OpenMeta(p) ==
  /\ run[p].pc = "openMeta"
  /\ IF dir
     THEN /\ file' = [file EXCEPT !["meta"] = Empty]
          /\ run' = [run EXCEPT ![p].pc = "meta", ![p].fd = "meta"]
     ELSE End(p, "miss", p) /\ UNCHANGED file
  /\ UNCHANGED <<store, dir, clearing, runs, faults, clears, contended>>

WriteMeta(p) ==
  /\ run[p].pc = "meta"
  /\ file' = IF run[p].fd = "orphan" THEN file
             ELSE [file EXCEPT !["meta"] = [i \in Part |-> p]]
  /\ End(p, "miss", p)
  /\ UNCHANGED <<store, dir, clearing, runs, faults, clears, contended>>

-----------------------------------------------------------------------------
(* What goes wrong, and --clear-*-cache.                                   *)

\* A write fails half way (disk full). A cache leaves its temporary file
\* behind, the others remove it.
DiskFull(p) ==
  /\ run[p].pc \in {"part1", "part2", "meta"} /\ faults < MaxFaults
  /\ faults' = faults + 1
  /\ run' = [run EXCEPT ![p] = IF store \in Caches
                               THEN [Ended(p, "miss", p) EXCEPT !.undisturbed = FALSE]
                               ELSE [run[p] EXCEPT !.pc = "remove", !.undisturbed = FALSE]]
  /\ UNCHANGED <<store, dir, file, clearing, runs, clears, contended>>

\* The process is killed: its descriptors close, its files stay.
Crash(p) ==
  /\ Active(p) /\ faults < MaxFaults
  /\ faults' = faults + 1
  /\ End(p, "crashed", Absent)
  /\ UNCHANGED <<store, dir, file, clearing, runs, clears, contended>>

\* clear_cache: remove_dir_all lists the entry, unlinks what it listed and
\* removes the directory, which fails if a file has appeared since.
ClearStart ==
  /\ store \in Caches /\ dir /\ clearing = Absent /\ clears < MaxClears
  /\ clears' = clears + 1
  /\ clearing' = {n \in Names : file[n] # Absent}
  /\ run' = [q \in Procs |-> [run[q] EXCEPT !.undisturbed = FALSE]]
  /\ UNCHANGED <<store, dir, file, runs, faults, contended>>

ClearUnlink(n) ==
  /\ clearing # Absent /\ n \in clearing
  /\ clearing' = clearing \ {n}
  /\ file' = [file EXCEPT ![n] = Absent]
  /\ run' = Unlinked(n)
  /\ UNCHANGED <<store, dir, runs, faults, clears, contended>>

ClearEnd ==
  /\ clearing = {}
  /\ clearing' = Absent
  /\ dir' = (\E n \in Names : file[n] # Absent)
  /\ UNCHANGED <<store, file, run, runs, faults, clears, contended>>

Step(p) ==
  \/ Start(p) \/ LookupExists(p) \/ ReadData(p) \/ ReadMeta(p) \/ Produce(p)
  \/ MakeDirectory(p) \/ OpenTmp(p) \/ WriteFirst(p) \/ WriteSecond(p)
  \/ Rename(p) \/ RenameFails(p) \/ RemoveTmp(p) \/ OpenMeta(p) \/ WriteMeta(p)
  \/ DiskFull(p) \/ Crash(p)

Next ==
  \/ \E p \in Procs : Step(p)
  \/ ClearStart \/ ClearEnd
  \/ \E n \in Names : ClearUnlink(n)

Spec == Init /\ [][Next]_vars

-----------------------------------------------------------------------------
Complete == file["data"] = Absent \/ Whole(file["data"])

\* The promise of a temporary file and a rename: what a file holds is one
\* complete document, whatever crashes. A store with a private temporary name
\* (write_to) keeps it always. The others (write_atomically, write_entry,
\* write_cache) share one name and keep it only as long as no two runs have been
\* writing at the same time; rivals publish each other's unfinished file. All
\* writers of a cache entry write the same bytes, so that it is complete again
\* once they are done and none was cut short.
ReplacedWhole ==
  /\ store = "status" \/ ~contended => Complete
  /\ store \in Caches /\ faults = 0 /\ (\A p \in Procs : ~Writing(p)) => Complete

\* What write_entry says of the shared name, in no run because it is refuted:
\* "concurrent writers on the same entry are safe (last write wins, no torn
\* reads)". Two runs miss the entry; the second truncates payload.json.tmp between
\* the first one's write and its rename, which publishes the empty file.
\* read_entry takes it for a miss, but no valid entry is there.
NoTornReads == store = "metadata" => Complete

\* Whatever crashes and clears came before, one undisturbed run repairs the
\* entry: it leaves its document in place and, for a registry layer, the
\* sidecar without which the next run would download again.
Heals ==
  [][\A p \in Procs :
       /\ Active(p) /\ run'[p].pc = "idle"
       /\ run'[p].undisturbed
       /\ run'[p].outcome \in {"hit", "miss", "written"}
       => /\ file'["data"] = [i \in Part |-> Product(p)]
          /\ store = "oci" => Whole(file'["meta"])]_vars

\* FetchedArtifact.final_url is "the URL the bytes were actually served from":
\* a hit knows it too.
OriginKnown ==
  \A p \in Procs : store \in Sidecar /\ run[p].outcome = "hit" => run[p].origin # Absent

------------------------------------------------------------------------------
\* Nothing tells one process from another.
Symmetry == Permutations(Procs)

=============================================================================
