----------------------------- MODULE PilotReport -----------------------------
(***************************************************************************)
(* The paid reports (pilot/gate.py, pilot/digest.py, pilot/outcomes.py and    *)
(* scripts/generate_pilot_digest.py).                                       *)
(*                                                                         *)
(* A generator asks the gate whether the published snapshot may back research *)
(* of this moment, then opens whatever is published by then, selects          *)
(* candidates from it and writes the report.  The gate keeps a decompressed    *)
(* copy of each snapshot under a name made of its checksum, and writes it in   *)
(* place.  Snapshots are published meanwhile, file by file, and generators die. *)
(***************************************************************************)
EXTENDS Integers, Sequences, FiniteSets

CONSTANTS
  Generators,
  SNAPSHOT_MAX_AGE, QUOTE_MAX_AGE, CANDIDATE_MAX_AGE,
  MAX_CANDIDATES,
  Listed,         \* markets of a snapshot
  MaxNet,         \* bound: net value, in steps
  MaxSnapshots,   \* bound: publications
  LastHour,       \* bound: time
  MaxReports      \* bound: reports

ASSUME PilotAssumption ==
  /\ {SNAPSHOT_MAX_AGE, QUOTE_MAX_AGE, CANDIDATE_MAX_AGE, MAX_CANDIDATES,
      MaxNet, MaxSnapshots, LastHour, MaxReports} \subseteq Nat
  /\ MaxSnapshots # 0 /\ IsFiniteSet(Listed)
  /\ CANDIDATE_MAX_AGE <= QUOTE_MAX_AGE

VARIABLES
  snapshots,      \* those made, in order: [cutoff, quote, fit]
  manifestOf, gzipOf, \* which of them the two files in data/ are of
  hour,
  copies,         \* snapshot -> no copy, or the snapshot the copy is of (0: half)
  generator,      \* what each is doing
  reports,        \* how many were begun
  disturbed       \* history: the generators that were not alone with the files

pilotVars == <<snapshots, manifestOf, gzipOf, hour, copies, generator,
               reports, disturbed>>
disk == <<snapshots, manifestOf, gzipOf, hour>>

Kinds == {"daily", "weekly"}
IdleGenerator == [step |-> "idle"]

\* fit: validated, released, and every one of the nine jobs a success.
PilotInit ==
  /\ snapshots = << [cutoff |-> 0, quote |-> 0, fit |-> TRUE] >>
  /\ manifestOf = 1 /\ gzipOf = 1 /\ hour = 0
  /\ copies = [s \in 1..MaxSnapshots |-> {}]
  /\ generator = [g \in Generators |-> IdleGenerator]
  /\ reports = 0 /\ disturbed = {}

Running == {g \in Generators : generator[g] # IdleGenerator}

-----------------------------------------------------------------------------
(* The world: time, and publications that replace the gzip before the manifest. *)

TickHour == hour < LastHour /\ hour' = hour + 1
            /\ UNCHANGED <<snapshots, manifestOf, gzipOf, copies, generator,
                           reports, disturbed>>

PublishGzip ==
  /\ gzipOf = manifestOf /\ Len(snapshots) < MaxSnapshots
  /\ \E fit \in BOOLEAN, quote \in {q \in {hour - 1, hour} : q >= 0} :
       snapshots' = Append(snapshots, [cutoff |-> hour, quote |-> quote, fit |-> fit])
  /\ gzipOf' = gzipOf + 1 /\ disturbed' = disturbed \cup Running
  /\ UNCHANGED <<manifestOf, hour, copies, generator, reports>>

PublishManifest ==
  /\ manifestOf < gzipOf /\ manifestOf' = gzipOf
  /\ disturbed' = disturbed \cup Running
  /\ UNCHANGED <<snapshots, gzipOf, hour, copies, generator, reports>>

-----------------------------------------------------------------------------
(* The gate. *)

\* age_of: a moment after asOf has no age.
HasAge(asOf, moment) == moment <= asOf

\* The checks of evaluate that read the manifest.
InTime(asOf, s) ==
  /\ HasAge(asOf, s.cutoff) /\ asOf - s.cutoff <= SNAPSHOT_MAX_AGE
  /\ HasAge(asOf, s.quote) /\ asOf - s.quote <= QUOTE_MAX_AGE

\* Generators are alike, so it does not matter which begins.  A historical sample is
\* evaluated at the cutoff of the manifest of this moment.
StartReport(g, kind, historical) ==
  /\ Running # Generators /\ g = CHOOSE h \in Generators : h \notin Running
  /\ reports < MaxReports
  /\ generator' = [generator EXCEPT ![g] =
       [step |-> "started", kind |-> kind,
        asOf |-> IF historical THEN snapshots[manifestOf].cutoff ELSE hour,
        of |-> 0, gzipMatches |-> FALSE, source |-> 0, checksPassed |-> FALSE,
        actionable |-> {}]]
  /\ reports' = reports + 1
  /\ disturbed' = IF Running # {} THEN disturbed \cup Running \cup {g}
                  ELSE IF gzipOf # manifestOf THEN disturbed \cup {g}
                  ELSE disturbed
  /\ UNCHANGED <<disk, copies>>

Go(g, next) == generator' = [generator EXCEPT ![g] = next]

\* _load_manifest, and the checksum of the compressed file.
ReadPair(g) ==
  /\ generator[g].step = "started"
  /\ Go(g, [generator[g] EXCEPT !.step = "hashed", !.of = manifestOf,
                                !.gzipMatches = (gzipOf = manifestOf)])
  /\ UNCHANGED <<disk, copies, reports, disturbed>>

\* _materialise_db: a copy that exists is taken as it is.
Materialise(g) ==
  /\ generator[g].step = "hashed"
  /\ LET s == generator[g].of IN
       IF copies[s] = {}
       THEN /\ copies' = [copies EXCEPT ![s] = {0}]
            /\ Go(g, [generator[g] EXCEPT !.step = "copying", !.source = gzipOf])
       ELSE Go(g, [generator[g] EXCEPT !.step = "copied"]) /\ UNCHANGED copies
  /\ UNCHANGED <<disk, reports, disturbed>>

CopyAll(g) ==
  /\ generator[g].step = "copying"
  /\ copies' = [copies EXCEPT ![generator[g].of] = {generator[g].source}]
  /\ Go(g, [generator[g] EXCEPT !.step = "copied", !.source = 0])
  /\ UNCHANGED <<disk, reports, disturbed>>

\* The checksum and the integrity of the copy, and the verdict.  A historical sample is
\* stamped as one, and never allowed as research of today, whatever the checks say.
Evaluate(g) ==
  /\ generator[g].step = "copied"
  /\ LET m == generator[g]
         sound == /\ m.gzipMatches /\ copies[m.of] = {m.of}
                  /\ snapshots[m.of].fit /\ InTime(m.asOf, snapshots[m.of]) IN
       Go(g, [m EXCEPT !.step = "judged", !.checksPassed = sound])
  /\ UNCHANGED <<disk, copies, reports, disturbed>>

-----------------------------------------------------------------------------
(* What a digest selects from the rows of a snapshot.  A market is outside the   *)
(* report (closed, no resolution time, another horizon, no book, no estimate of   *)
(* its own), lacks a field its costs need, or has the time of its book and, per    *)
(* side, the net value that cleared the gates (0: none did).                      *)

Rows(quote) ==
  {[is |-> "outside"], [is |-> "incomplete"]} \cup
  [is : {"priced"}, book : {b \in {quote - 1, quote} : b >= 0},
   net : [{"yes", "no"} -> 0..MaxNet]]

\* Mutant of TooOld: a book is compared with the cutoff it was captured at.
OldAtCutoff(row, asOf, cutoff) ==
  cutoff - row.book > CANDIDATE_MAX_AGE \/ row.book > cutoff

TooOld(row, asOf, cutoff) ==
  asOf - row.book > CANDIDATE_MAX_AGE \/ row.book > asOf

PricedMarkets(rows) == {m \in Listed : rows[m].is = "priced"}

Admitted(rows, asOf, cutoff) ==
  {c \in [market : PricedMarkets(rows), side : {"yes", "no"}] :
     rows[c.market].net[c.side] > 0 /\ ~ TooOld(rows[c.market], asOf, cutoff)}

\* best_per_market, the first side on a tie, then the best of them.
BestSides(rows, admitted) ==
  {c \in admitted : \A d \in admitted : d.market = c.market /\ d # c =>
     \/ rows[d.market].net[d.side] < rows[c.market].net[c.side]
     \/ rows[d.market].net[d.side] = rows[c.market].net[c.side] /\ c.side = "yes"}

TopCandidates(rows, best) ==
  {top \in SUBSET best :
     /\ Cardinality(top) = IF Cardinality(best) < MAX_CANDIDATES
                           THEN Cardinality(best) ELSE MAX_CANDIDATES
     /\ \A c \in top, d \in best \ top :
          rows[d.market].net[d.side] <= rows[c.market].net[c.side]}

-----------------------------------------------------------------------------
(* The reports. *)

\* A refused digest reads no snapshot; a review reads it whatever the gate said.
RefuseDigest(g) ==
  /\ generator[g].step = "judged" /\ generator[g].kind = "daily"
  /\ ~ generator[g].checksPassed
  /\ Go(g, [generator[g] EXCEPT !.step = "built"])
  /\ UNCHANGED <<disk, copies, reports, disturbed>>

\* resolve_snapshot_path reads the pair again, and raises when it does not agree.
FailToOpen(g) ==
  /\ generator[g].step = "judged"
  /\ generator[g].kind = "weekly" \/ generator[g].checksPassed
  /\ gzipOf # manifestOf
  /\ Go(g, IdleGenerator)
  /\ UNCHANGED <<disk, copies, reports, disturbed>>

BuildDigest(g) ==
  /\ generator[g].step = "judged" /\ generator[g].kind = "daily"
  /\ generator[g].checksPassed /\ gzipOf = manifestOf
  /\ LET s == snapshots[manifestOf]
         asOf == generator[g].asOf IN
       \E rows \in [Listed -> Rows(s.quote)] :
         \E top \in TopCandidates(rows, BestSides(rows, Admitted(rows, asOf, s.cutoff))) :
           Go(g, [generator[g] EXCEPT !.step = "built", !.source = manifestOf,
                    !.actionable = {[market |-> c.market, side |-> c.side,
                                     book |-> rows[c.market].book] : c \in top}])
  /\ UNCHANGED <<disk, copies, reports, disturbed>>

\* build_weekly_review: its window ends at the cutoff the gate read.
BuildReview(g) ==
  /\ generator[g].step = "judged" /\ generator[g].kind = "weekly"
  /\ gzipOf = manifestOf
  /\ Go(g, [generator[g] EXCEPT !.step = "built", !.source = manifestOf])
  /\ UNCHANGED <<disk, copies, reports, disturbed>>

\* main writes the three formats, and json last.
SendReport(g) ==
  /\ generator[g].step = "built" /\ Go(g, IdleGenerator)
  /\ UNCHANGED <<disk, copies, reports, disturbed>>

DieReporting(g) ==
  /\ generator[g] # IdleGenerator /\ Go(g, IdleGenerator)
  /\ UNCHANGED <<disk, copies, reports, disturbed>>

PilotNext ==
  \/ TickHour \/ PublishGzip \/ PublishManifest
  \/ \E g \in Generators :
       \/ \E kind \in Kinds : \E h \in {FALSE, kind = "daily"} : StartReport(g, kind, h)
       \/ ReadPair(g) \/ Materialise(g) \/ CopyAll(g) \/ Evaluate(g)
       \/ RefuseDigest(g) \/ FailToOpen(g) \/ BuildDigest(g) \/ BuildReview(g)
       \/ SendReport(g) \/ DieReporting(g)

PilotSpec == PilotInit /\ [][PilotNext]_pilotVars

-----------------------------------------------------------------------------
(* Properties. *)

Built == {g \in Running : generator[g].step = "built"}

\* Whichever snapshot was open by then, a candidate stands on a book that is fresh at
\* the time the report is for and not of a later time, one side per market, never
\* more than the cap; and a report is never of figures older than its label.
ActionableIsFresh ==
  \A r \in {generator[g] : g \in Built} :
    /\ r.source # 0 => r.source >= r.of
    /\ Cardinality(r.actionable) <= MAX_CANDIDATES
    /\ \A c \in r.actionable :
         /\ r.checksPassed /\ c.book <= r.asOf /\ r.asOf - c.book <= CANDIDATE_MAX_AGE
         /\ \A d \in r.actionable : d.market = c.market => d = c

\* A sound snapshot within its limits is refused only to a run that was not alone
\* with the files, or where a death left half a copy, for good.
RefusalsAreEarned ==
  \A g \in Generators :
    generator[g].step = "judged" /\ ~ generator[g].checksPassed =>
      \/ ~ snapshots[generator[g].of].fit
      \/ ~ InTime(generator[g].asOf, snapshots[generator[g].of])
      \/ g \in disturbed
      \/ /\ copies[generator[g].of] = {0}
         /\ \A h \in Generators : generator[h].step # "copying"

ReportsAreEarned == ActionableIsFresh /\ RefusalsAreEarned

=============================================================================
