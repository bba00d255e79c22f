--------------------------- MODULE SnapshotFiles ---------------------------
(* The published pair on disk (data/pmvl-snapshot.db.gz and its manifest),   *)
(* the cache of decompressed databases, the pipeline runs that seed from the *)
(* pair and promote a child into it, and the API processes that resolve it   *)
(* at a cold start: scripts/run_automated_snapshot_pipeline.py               *)
(* (initialise_operational_db, promote), pmvl_shared/snapshot_artifact.py    *)
(* (resolve_snapshot_path) and api/index.py.                                 *)
(*                                                                           *)
(* A file is atomic for one read or one os.replace; everything that takes    *)
(* two file operations takes two steps.  Hash and size checks are equality   *)
(* of contents; the snapshot that run r builds is named r.                   *)
EXTENDS Integers, FiniteSets

CONSTANTS
    Runs,         \* pipeline runs with local promotion
    Readers,      \* API processes
    Genesis,      \* a snapshot that is published at the start
    Nothing,      \* no file, no snapshot
    Torn,         \* contents that match no snapshot
    EXCLUSIVE,    \* runs are started one at a time (no lock enforces it)
    MAX_FAULTS    \* bound on crashes and on damage to cached files

Procs     == Runs \cup Readers
Snapshots == Runs \cup {Genesis}

ASSUME FilesAssumption ==
    /\ Runs \cap Readers = {} /\ Genesis \notin Procs
    /\ Nothing \notin Snapshots /\ Torn \notin Snapshots /\ Torn # Nothing
    /\ EXCLUSIVE \in BOOLEAN
    /\ MAX_FAULTS \in Nat

VARIABLES
    gz,         \* contents of the published gzip
    manifest,   \* the snapshot the published manifest describes
    lineage,    \* the parent each manifest put in place names
    cache,      \* contents of <sha of s>.db under the temp root
    pc,         \* where the process is
    loaded,     \* the snapshot of the manifest the process read
    held,       \* what the path resolve_snapshot_path returned holds
    parent,     \* outcome.parent_snapshot_id of a run
    base,       \* what the run's operational database was copied from
    faults

vars == <<gz, manifest, lineage, cache, pc, loaded, held, parent, base, faults>>

Resolving == {"loaded", "checked", "staged"}
Computing == {"resolved", "named", "seeded", "built", "halfway"}
Ended     == {"refused", "failed", "promoted", "dead"}

TypeOK ==
    /\ gz \in Snapshots \cup {Nothing}
    /\ manifest \in Snapshots \cup {Nothing}
    /\ lineage \in [Snapshots -> Snapshots \cup {Nothing}]
    /\ cache \in [Snapshots -> Snapshots \cup {Nothing, Torn}]
    /\ pc \in [Procs -> {"idle"} \cup Resolving \cup Computing \cup Ended]
    /\ loaded \in [Procs -> Snapshots \cup {Nothing}]
    /\ held \in [Procs -> Snapshots \cup {Nothing, Torn}]
    /\ parent \in [Runs -> Snapshots \cup {Nothing}]
    /\ base \in [Runs -> Snapshots \cup {Nothing, Torn}]
    /\ faults \in 0..MAX_FAULTS

\* Either a first run on an empty data directory, or a published Genesis.
Init ==
    /\ gz \in {Genesis, Nothing} /\ manifest = gz
    /\ lineage = [s \in Snapshots |-> Nothing]
    /\ cache = [s \in Snapshots |-> Nothing]
    /\ pc = [p \in Procs |-> "idle"]
    /\ loaded = [p \in Procs |-> Nothing]
    /\ held = [p \in Procs |-> Nothing]
    /\ parent = [r \in Runs |-> Nothing]
    /\ base = [r \in Runs |-> Nothing]
    /\ faults = 0

Goto(p, to) == pc' = [pc EXCEPT ![p] = to]

---------------------------------------------------------------------------
(* resolve_snapshot_path, by a run or a reader.                            *)

Active(r) == pc[r] \in Resolving \cup Computing

\* Mutant: two runs at a time.
MayStartAnyTime(p) == TRUE

\* The workflow's concurrency group, or the operator, keeps runs apart.
MayStart(p) == p \in Runs /\ EXCLUSIVE => \A r \in Runs : ~Active(r)

\* The manifest is read, and its contract checked.
Load(p) ==
    /\ pc[p] = "idle" /\ MayStart(p)
    /\ manifest # Nothing
    /\ loaded' = [loaded EXCEPT ![p] = manifest]
    /\ Goto(p, "loaded")
    /\ UNCHANGED <<gz, manifest, lineage, cache, held, parent, base, faults>>

\* Without a manifest a reader raises, and so does a run that may not bootstrap.
NoManifest(p) ==
    /\ pc[p] = "idle" /\ MayStart(p)
    /\ manifest = Nothing
    /\ Goto(p, "refused")
    /\ UNCHANGED <<gz, manifest, lineage, cache, loaded, held, parent, base, faults>>

\* The gzip is the one the manifest describes.
CheckGzip(p) ==
    /\ pc[p] = "loaded" /\ gz = loaded[p]
    /\ Goto(p, "checked")
    /\ UNCHANGED <<gz, manifest, lineage, cache, loaded, held, parent, base, faults>>

\* It is not, now or when it is opened again to be decompressed.
RefuseGzip(p) ==
    /\ \/ pc[p] = "loaded"
       \/ pc[p] = "checked" /\ cache[loaded[p]] # loaded[p]
    /\ gz # loaded[p]
    /\ Goto(p, "refused")
    /\ UNCHANGED <<gz, manifest, lineage, cache, loaded, held, parent, base, faults>>

\* The resolved path is returned, and holds what the cached file holds.
Return(p) ==
    /\ held' = [held EXCEPT ![p] = cache'[loaded[p]]]
    /\ Goto(p, "resolved")

\* The cached file is there and passes identity, integrity and contract.
UseCached(p) ==
    /\ pc[p] = "checked" /\ cache[loaded[p]] = loaded[p]
    /\ UNCHANGED cache
    /\ Return(p)
    /\ UNCHANGED <<gz, manifest, lineage, loaded, parent, base, faults>>

\* Mutant: a file that is already there, but fails its checks, is an error.
DecompressOnce(p) ==
    /\ pc[p] = "checked" /\ cache[loaded[p]] # loaded[p]
    /\ gz = loaded[p]
    /\ Goto(p, IF cache[loaded[p]] = Nothing THEN "staged" ELSE "refused")
    /\ UNCHANGED <<gz, manifest, lineage, cache, loaded, held, parent, base, faults>>

\* Decompressed to a staging file of its own and verified there.
Decompress(p) ==
    /\ pc[p] = "checked" /\ cache[loaded[p]] # loaded[p]
    /\ gz = loaded[p]
    /\ Goto(p, "staged")
    /\ UNCHANGED <<gz, manifest, lineage, cache, loaded, held, parent, base, faults>>

\* os.replace(staging, final_path), over whatever is there.
Install(p) ==
    /\ pc[p] = "staged"
    /\ cache' = [cache EXCEPT ![loaded[p]] = loaded[p]]
    /\ Return(p)
    /\ UNCHANGED <<gz, manifest, lineage, loaded, parent, base, faults>>

\* The API process ends, or its import failed; the next cold start asks again.
ColdStart(p) ==
    /\ p \in Readers /\ pc[p] \in {"resolved", "refused"}
    /\ Goto(p, "idle")
    /\ held' = [held EXCEPT ![p] = Nothing]
    /\ loaded' = [loaded EXCEPT ![p] = Nothing]
    /\ UNCHANGED <<gz, manifest, lineage, cache, parent, base, faults>>

---------------------------------------------------------------------------
(* A pipeline run after resolution.                                        *)

\* Nothing was ever published, and the scope allows a bootstrap.
Bootstrap(r) ==
    /\ pc[r] = "idle" /\ MayStart(r)
    /\ manifest = Nothing
    /\ Goto(r, "seeded")
    /\ UNCHANGED <<gz, manifest, lineage, cache, loaded, held, parent, base, faults>>

\* Mutant: the parent is named after the file, not after its manifest.
NameParentAfterFile(r) ==
    /\ r \in Runs /\ pc[r] = "resolved"
    /\ parent' = [parent EXCEPT ![r] = cache[loaded[r]]]
    /\ Goto(r, "named")
    /\ UNCHANGED <<gz, manifest, lineage, cache, loaded, held, base, faults>>

\* The manifest is read a second time, for the parent's name.
NameParent(r) ==
    /\ r \in Runs /\ pc[r] = "resolved"
    /\ parent' = [parent EXCEPT ![r] = manifest]
    /\ Goto(r, "named")
    /\ UNCHANGED <<gz, manifest, lineage, cache, loaded, held, base, faults>>

\* The resolved file is copied to the operational database.
CopySeed(r) ==
    /\ pc[r] = "named"
    /\ base' = [base EXCEPT ![r] = cache[loaded[r]]]
    /\ Goto(r, "seeded")
    /\ UNCHANGED <<gz, manifest, lineage, cache, loaded, held, parent, faults>>

\* Jobs, finalisation and validation; finalisation checks integrity.
Build(r) ==
    /\ pc[r] = "seeded" /\ base[r] # Torn
    /\ Goto(r, "built")
    /\ UNCHANGED <<gz, manifest, lineage, cache, loaded, held, parent, base, faults>>

\* Any of it, or promote's own verification, stops the run.
Fail(r) ==
    /\ r \in Runs /\ pc[r] \in {"resolved", "named", "seeded", "built"}
    /\ Goto(r, "failed")
    /\ UNCHANGED <<gz, manifest, lineage, cache, loaded, held, parent, base, faults>>

\* os.replace(candidate_gzip, PUBLISHED_GZIP)
ReplaceGzip(r) ==
    /\ pc[r] = "built"
    /\ gz' = r
    /\ Goto(r, "halfway")
    /\ UNCHANGED <<manifest, lineage, cache, loaded, held, parent, base, faults>>

\* Mutant: the manifest of a local promotion carries no lineage.
ReplaceManifestUnstamped(r) ==
    /\ pc[r] = "halfway"
    /\ manifest' = r
    /\ Goto(r, "promoted")
    /\ UNCHANGED <<gz, lineage, cache, loaded, held, parent, base, faults>>

\* os.replace(candidate_manifest, PUBLISHED_MANIFEST), stamped with the lineage.
ReplaceManifest(r) ==
    /\ pc[r] = "halfway"
    /\ manifest' = r
    /\ lineage' = [lineage EXCEPT ![r] = parent[r]]
    /\ Goto(r, "promoted")
    /\ UNCHANGED <<gz, cache, loaded, held, parent, base, faults>>

---------------------------------------------------------------------------
(* The environment.                                                        *)

\* The process dies, or the second os.replace raises.
Crash(p) ==
    /\ p \in Runs /\ Active(p) /\ faults < MAX_FAULTS
    /\ Goto(p, "dead")
    /\ faults' = faults + 1
    /\ UNCHANGED <<gz, manifest, lineage, cache, loaded, held, parent, base>>

\* A cached database is truncated or overwritten.
Damage(s) ==
    /\ cache[s] = s /\ faults < MAX_FAULTS
    /\ cache' = [cache EXCEPT ![s] = Torn]
    /\ faults' = faults + 1
    /\ UNCHANGED <<gz, manifest, lineage, pc, loaded, held, parent, base>>

Resolve(p) == \/ Load(p) \/ NoManifest(p) \/ CheckGzip(p) \/ RefuseGzip(p)
              \/ UseCached(p) \/ Decompress(p) \/ Install(p)

Compute(r) == \/ Bootstrap(r) \/ NameParent(r) \/ CopySeed(r) \/ Build(r)
              \/ Fail(r) \/ ReplaceGzip(r) \/ ReplaceManifest(r)

Next == \/ \E p \in Procs : Resolve(p)
        \/ \E p \in Readers : ColdStart(p)
        \/ \E r \in Runs : Compute(r) \/ Crash(r)
        \/ \E s \in Snapshots : Damage(s)

Spec == Init /\ [][Next]_vars

\* A process that started keeps going, and requests keep causing cold starts.
\* Runs need not start, and nothing makes a fault happen.
Fairness ==
    /\ \A p \in Readers : WF_vars(Resolve(p)) /\ WF_vars(ColdStart(p))
    /\ \A r \in Runs : WF_vars(Resolve(r) /\ pc[r] # "idle")
                       /\ WF_vars(Compute(r) /\ pc[r] # "idle")

FairSpec == Spec /\ Fairness
---------------------------------------------------------------------------
(* Properties.                                                             *)

\* Whatever was in the cache, and whatever was promoted meanwhile, the path
\* resolve_snapshot_path returns held, as it returned, exactly the snapshot of
\* the manifest it read ("no caller can observe a partial final file").
ResolvedIsWhole == \A p \in Procs : held[p] \in {Nothing, loaded[p]}

\* A run continues the very snapshot its manifest will name as its parent,
\* although the file and the name come from two reads of the published pair.
LineageIsHonest ==
    EXCLUSIVE => \A r \in Runs :
        pc[r] \in {"built", "halfway", "promoted"} => base[r] = parent[r]

\* The gzip and the manifest disagree only while a run is between its two
\* replacements, or because one died there.
OnlyPromotionSplitsPair ==
    EXCLUSIVE /\ gz # manifest =>
        \E r \in Runs : gz = r /\ pc[r] \in {"halfway", "dead"}

\* Through cache damage, promotions and failed runs a reader is served again
\* and again, unless the pair stays split, or absent, for ever.
ReadersGetThrough ==
    \A p \in Readers :
        []<>(pc[p] = "resolved") \/ <>[](gz # manifest \/ manifest = Nothing)

\* When runs are kept apart, the pair, its cache and its promotions implement
\* the published snapshot: a chain, and whole answers to whoever asks.
Published == INSTANCE PublishedSnapshot WITH
    Users <- Procs, current <- manifest, parentOf <- lineage,
    published <- {Genesis} \cup {r \in Runs : pc[r] = "promoted"},
    asked <- loaded, given <- held
ImplementsPublished == Published!Spec

\* What the pipeline's own description says (run_automated_snapshot_pipeline.py
\* lines 30-32): "a failed run leaves the previously published pair untouched
\* rather than half-written".
FailedRunLeavesPair ==
    \A r \in Runs : pc[r] \in {"failed", "dead"} /\ manifest # Nothing => gz # r
=============================================================================
