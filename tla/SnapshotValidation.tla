------------------------- MODULE SnapshotValidation -------------------------
(***************************************************************************)
(* What a snapshot must pass before and after it is published               *)
(* (scripts/validate_snapshot.py, snapshot_artifact.py).                   *)
(*                                                                         *)
(* A built candidate is a raw file and a manifest that says pending.  The   *)
(* validator checks the raw file, compresses it, records its verdict and    *)
(* verifies what it wrote, in steps between which it may die and files may   *)
(* be damaged; a pipeline run goes on to promote what it validated.  The    *)
(* publish job trusts none of that and checks again, and so does CI, on the  *)
(* published pair.  A run's matching histogram is one of the things checked. *)
(***************************************************************************)
EXTENDS Integers, FiniteSets

CONSTANTS
  MissingCodes, Contradictions, \* the demotion codes of either kind
  TOP_REASONS, \* entries the API lists
  MaxPairs,    \* bound: pairs of a scan
  MaxBuilds,   \* bound: candidates
  MaxDamage    \* bound: crashes and damaged files

Codes == MissingCodes \cup Contradictions

ASSUME ValidationAssumption ==
  /\ MissingCodes \cap Contradictions = {}
  /\ IsFiniteSet(Codes)
  /\ {TOP_REASONS, MaxPairs, MaxBuilds, MaxDamage} \subseteq Nat /\ TOP_REASONS # 0

\* unservable: the API cannot answer from it, or it is too large, in WAL mode, or
\* its quotes are incoherent; pruned: rules and price history of its live markets
\* are gone; contract: unfinished jobs or an unknown schema.
Flaws == {"unservable", "pruned", "contract"}

\* A file, a gzip and a manifest are sets of at most one.  A checksum is the file.
TornFile == [build |-> 0, flaws |-> {"unservable", "contract"}]

VARIABLES
  raw, gzip, manifestFile, \* of the candidate
  checker,   \* the validator at work on it
  published, \* [gz, manifest, by] in the repository
  stray,     \* is there a raw file beside the published gzip?
  builds, damage

validationVars ==
  <<raw, gzip, manifestFile, checker, published, stray, builds, damage>>
candidate == <<raw, gzip, manifestFile>>

Off == [step |-> "off"]

ValidationInit ==
  /\ raw = {} /\ gzip = {} /\ manifestFile = {}
  /\ checker = Off /\ published = {} /\ stray = FALSE
  /\ builds = 0 /\ damage = 0

-----------------------------------------------------------------------------
(* The histogram of a scan, whose verdicts are a function on 1..n, and what the  *)
(* validator asks of it.                                                       *)

Verdicts == [identical : BOOLEAN, codes : SUBSET Codes]

\* Mutant of BlockedByParser: a pair without any code counts as blocked.
BlockedOrBlank(v) == ~ v.identical /\ v.codes \subseteq MissingCodes

BlockedByParser(v) == ~ v.identical /\ v.codes # {} /\ v.codes \subseteq MissingCodes

\* DemotionHistogram: add, for every pair.
Histogram(vs) ==
  [pairs    |-> Cardinality(DOMAIN vs),
   verified |-> Cardinality({i \in DOMAIN vs : vs[i].identical}),
   blocked  |-> Cardinality({i \in DOMAIN vs : BlockedByParser(vs[i])}),
   byCode   |-> [c \in Codes |-> {i \in DOMAIN vs : c \in vs[i].codes}]]

CountOf(h, S) == Cardinality(UNION {{<<c, i>> : i \in h.byCode[c]} : c \in S})

Frequency(h, c) == Cardinality(h.byCode[c])

\* top_reasons: the most frequent codes, ties in any order.
TopReasons(h) ==
  LET present == {c \in Codes : h.byCode[c] # {}} IN
  {top \in SUBSET present :
     /\ Cardinality(top) = IF Cardinality(present) < TOP_REASONS
                           THEN Cardinality(present) ELSE TOP_REASONS
     /\ \A c \in top, d \in present \ top : Frequency(h, d) <= Frequency(h, c)}

\* matching_diagnostics_problems finds none.
DiagnosticsPass(h, top) ==
  LET missing == CountOf(h, MissingCodes)
      against == CountOf(h, Contradictions)
      listed(S) == CountOf(h, top \cap S)
  IN
  /\ h.verified + h.blocked <= h.pairs
  /\ listed(MissingCodes) <= missing /\ listed(Contradictions) <= against
  /\ Cardinality(top) < TOP_REASONS =>
       listed(MissingCodes) = missing /\ listed(Contradictions) = against
  /\ missing + against > 0 => top # {}
  /\ h.blocked <= missing
  /\ h.pairs = 0 => h.verified + h.blocked + missing + against = 0 /\ top = {}

-----------------------------------------------------------------------------
(* Checks. *)

\* What one has to look at the database for, and at the manifest's provenance.
Refused(file, m, profile) ==
  \/ "unservable" \in file.flaws
  \/ "pruned" \in file.flaws /\ profile # "demo"
  \/ ~ m.attributed

\* Mutant of BundleHolds: checksums are trusted, and the raw file is not compressed
\* again.
BundleHashed(r, g, m) ==
  /\ m.validation = "passed" /\ m.release \in {"held", "published"}
  /\ m.raw = r /\ m.gz = g /\ r # {} /\ g # {}
  /\ \A f \in r : "contract" \notin f.flaws

\* verify_compressed_snapshot finds no problem: the verdict, both identities, the
\* database's own integrity and contract, and the very bytes compression gives.
BundleHolds(r, g, m) ==
  /\ m.validation = "passed" /\ m.release \in {"held", "published"}
  /\ m.raw = r /\ m.gz = g /\ r # {} /\ g # {}
  /\ \A f \in r : "contract" \notin f.flaws
  /\ \A z \in g : z.exact /\ {z.of} = r

\* The validator without --finalize-candidate; the published path knows no profile.
ReadOnlyChecks(r, g, m, expected, profile) ==
  /\ r # {}
  /\ \A f \in r : ~ Refused(f, m, IF expected = "published" THEN "production" ELSE profile)
  /\ m.release = expected /\ BundleHolds(r, g, m)

\* CI: the raw file comes out of the published gzip, and none may lie beside it.
CIAccepts ==
  published # {} /\ ~ stray /\
  \E p \in published : \E m \in p.manifest :
    \A profile \in {"production", "demo"} :
      ReadOnlyChecks({z.of : z \in p.gz}, p.gz, m, "published", profile)

-----------------------------------------------------------------------------
(* A candidate is built and validated. *)

\* build_snapshot.py, in a directory where an older gzip may lie.  What retention
\* cannot bring under the limit keeps no manifest, and nobody can validate it.
BuildCandidate ==
  /\ checker = Off /\ builds < MaxBuilds
  /\ builds' = builds + 1
  /\ \E flaws \in SUBSET Flaws, attributed, bounded \in BOOLEAN :
       LET file == [build |-> builds + 1, flaws |-> flaws] IN
         /\ bounded \/ "unservable" \in flaws
         /\ raw' = {file}
         /\ manifestFile' = IF bounded
                            THEN {[validation |-> "pending", release |-> "held",
                                   raw |-> {file}, gz |-> {}, attributed |-> attributed]}
                            ELSE {}
  /\ UNCHANGED <<gzip, checker, published, stray, damage>>

\* main up to _finalise_manifest.  A run validates for production; by hand the profile
\* is an argument.
CheckCandidate(by, profile) ==
  /\ checker = Off /\ raw # {} /\ manifestFile # {}
  /\ by = "run" => profile = "production"
  /\ LET file == CHOOSE f \in raw : TRUE
         m == CHOOSE x \in manifestFile : TRUE IN
       checker' = [step |-> "checked", by |-> by, profile |-> profile,
                   failed |-> Refused(file, m, profile), hashed |-> {}]
  /\ UNCHANGED <<candidate, published, stray, builds, damage>>

Verdict(m, validation, hashed, zip) ==
  {[x EXCEPT !.validation = validation, !.release = "held",
             !.raw = hashed, !.gz = zip] : x \in m}

\* Problems: the gzip is removed, and the manifest says failed.
RecordFailure ==
  /\ checker.step = "checked" /\ checker.failed
  /\ gzip' = {}
  /\ manifestFile' = Verdict(manifestFile, "failed", raw, {})
  /\ checker' = Off
  /\ UNCHANGED <<raw, published, stray, builds, damage>>

HashRaw ==
  /\ checker.step = "checked" /\ ~ checker.failed
  /\ checker' = [checker EXCEPT !.step = "hashed", !.hashed = raw]
  /\ UNCHANGED <<candidate, published, stray, builds, damage>>

\* compress_snapshot, which reads the raw file again.
Compress ==
  /\ checker.step = "hashed"
  /\ gzip' = {[of |-> f, exact |-> TRUE] : f \in raw}
  /\ checker' = [checker EXCEPT !.step = "compressed"]
  /\ UNCHANGED <<raw, manifestFile, published, stray, builds, damage>>

WriteVerdict ==
  /\ checker.step = "compressed"
  /\ manifestFile' = Verdict(manifestFile, "passed", checker.hashed, gzip)
  /\ checker' = [checker EXCEPT !.step = "written"]
  /\ UNCHANGED <<raw, gzip, published, stray, builds, damage>>

\* verify_compressed_snapshot, which may take the verdict back; a run goes on.
VerifyWritten ==
  /\ checker.step = "written"
  /\ LET m == CHOOSE x \in manifestFile : TRUE
         holds == BundleHolds(raw, gzip, m) IN
       /\ manifestFile' = IF holds THEN manifestFile ELSE {[m EXCEPT !.validation = "failed"]}
       /\ checker' = IF holds /\ checker.by = "run"
                     THEN [checker EXCEPT !.step = "validated"] ELSE Off
  /\ UNCHANGED <<raw, gzip, published, stray, builds, damage>>

\* promote, locally: the bundle is verified again, and made the published pair.
Promote ==
  /\ checker.step = "validated"
  /\ LET m == CHOOSE x \in manifestFile : TRUE IN
       IF BundleHolds(raw, gzip, m)
       THEN /\ published' = {[gz |-> gzip, by |-> "run",
                              manifest |-> {[m EXCEPT !.release = "published"]}]}
            /\ stray' = FALSE
            /\ raw' = {} /\ gzip' = {} /\ manifestFile' = {}
       ELSE UNCHANGED <<candidate, published, stray>>
  /\ checker' = Off
  /\ UNCHANGED <<builds, damage>>

\* Or the run hands the candidate over.
HandOver ==
  /\ checker.step = "validated"
  /\ checker' = Off
  /\ UNCHANGED <<candidate, published, stray, builds, damage>>

\* The publish job, on its own copy of whatever candidate there is.
PublishJob ==
  /\ checker = Off
  /\ \E m \in manifestFile :
       /\ ReadOnlyChecks(raw, gzip, m, "held", "production")
       /\ published' = {[gz |-> gzip, by |-> "job",
                         manifest |-> {[m EXCEPT !.release = "published"]}]}
  /\ stray' = FALSE
  /\ UNCHANGED <<candidate, checker, builds, damage>>

\* build_demo_snapshot.py leaves a pruned raw file in data/.
CommitDemo ==
  /\ published # {} /\ stray' = TRUE
  /\ UNCHANGED <<candidate, checker, published, builds, damage>>

Die ==
  /\ checker # Off /\ damage < MaxDamage
  /\ checker' = Off /\ damage' = damage + 1
  /\ UNCHANGED <<candidate, published, stray, builds>>

DamageFile ==
  /\ damage < MaxDamage /\ damage' = damage + 1
  /\ \/ raw # {} /\ raw' = {TornFile} /\ UNCHANGED gzip
     \/ gzip # {} /\ gzip' = {[of |-> TornFile, exact |-> FALSE]} /\ UNCHANGED raw
  /\ UNCHANGED <<manifestFile, checker, published, stray, builds>>

ValidationNext ==
  \/ BuildCandidate
  \/ \E by \in {"run", "hand"}, p \in {"production", "demo"} : CheckCandidate(by, p)
  \/ RecordFailure \/ HashRaw \/ Compress \/ WriteVerdict \/ VerifyWritten
  \/ Promote \/ HandOver \/ PublishJob \/ CommitDemo
  \/ Die \/ DamageFile

ValidationSpec == ValidationInit /\ [][ValidationNext]_validationVars

-----------------------------------------------------------------------------
(* Properties. *)

\* What the publish job commits has no flaw, whatever happened to the candidate
\* since, whoever validated it for what, and CI accepts it until something is put
\* beside it; what a run promoted, too, unless a file was damaged meanwhile.
PublishedWithoutFlaw ==
  \A p \in published : p.by = "job" \/ damage = 0 =>
    /\ \A z \in p.gz : z.exact /\ z.of.flaws = {}
    /\ CIAccepts # stray

\* A bundle that agrees with itself was checked: what could not be served never
\* has one, and a pruned file only where someone asked for a demo by hand.
BundlesWereChecked ==
  \A m \in manifestFile : BundleHolds(raw, gzip, m) =>
    \A f \in raw : "unservable" \notin f.flaws /\ m.attributed

\* The histogram of any scan passes, so an honest scan never stops a publication.
HonestScansPass ==
  \A n \in 0..MaxPairs : \A vs \in [1..n -> Verdicts] :
    LET h == Histogram(vs) IN \A top \in TopReasons(h) : DiagnosticsPass(h, top)

ChecksAreEarned == PublishedWithoutFlaw /\ BundlesWereChecked /\ HonestScansPass

=============================================================================
