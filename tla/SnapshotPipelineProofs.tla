----------------------- MODULE SnapshotPipelineProofs -----------------------
(***************************************************************************)
(* Theorems about a pipeline run, for every DAG, every set of venues and   *)
(* any number of failures.  The argument is one inductive invariant: a job *)
(* is decided once (Undecided), so what its upstreams were when it ran is  *)
(* what they still are; the gate saw exactly the statuses that are         *)
(* published (Gated); the candidate was compared with those statuses       *)
(* before anything left the run (Compared).                                *)
(*                                                                         *)
(* And about the reports made of what was published, for any generators,   *)
(* markets and publications: who was not disturbed is alone, and what a    *)
(* copy is of is no older than what it is named after.                     *)
(***************************************************************************)
EXTENDS SnapshotPipeline, PilotReport, FiniteSetTheorems, TLAPS

\* What execution_order has not reached has no status.
Undecided ==
    \A i \in DOMAIN ExecutionOrder :
        i >= next => ExecutionOrder[i] \notin DOMAIN statuses

\* Nothing has left the run before it is delivered.
Early ==
    pc \in {"seed", "jobs", "build", "deliver"} =>
        disposition = "not_built" /\ ~published

Gated ==
    pc \in {"build", "deliver"} \/ disposition # "not_built" \/ published =>
        PublicationBlockers(statuses) = {}

Compared ==
    pc = "deliver" \/ disposition # "not_built" => CandidateAgrees(candidate)

Invariant ==
    TypeOK /\ Undecided /\ UpstreamHonoured /\ Early /\ Gated /\ Compared

\* The one step shape that changes statuses: a job not decided yet gets one.
Decides(j, status, row) ==
    Runnable(j) /\ Finish(j, status, row)

LEMMA InitInvariant == Init => Invariant
<1> SUFFICES ASSUME Init PROVE Invariant
  OBVIOUS
<1>1. DOMAIN statuses = {}
  BY DEF Init
<1>2. scope.inherited \in RowStatuses
  BY DEF Init, RowStatuses, JobStatuses
<1>3. TypeOK
  <2>1. rows \in [Jobs -> RowStatuses] /\ candidate \in [Jobs -> RowStatuses]
    BY <1>2 DEF Init, RowStatuses
  <2>2. faults \in 0..MAX_FAULTS /\ next \in Nat
    BY PipelineAssumption DEF Init
  <2>3. DOMAIN statuses \subseteq Jobs
    BY <1>1
  <2>4. \A j \in DOMAIN statuses : statuses[j] \in JobStatuses \ {"running"}
    BY <1>1
  <2> QED
    BY <2>1, <2>2, <2>3, <2>4 DEF Init, TypeOK, Dispositions
<1>4. Undecided /\ UpstreamHonoured /\ Early /\ Gated /\ Compared
  BY <1>1 DEF Init, Undecided, UpstreamHonoured, Early, Gated, Compared
<1> QED
  BY <1>3, <1>4 DEF Invariant

\* Running a job keeps the type of what it writes.
LEMMA FinishType ==
  ASSUME TypeOK, NEW j \in Jobs, NEW status \in JobStatuses \ {"running"},
         NEW row \in RowStatuses, Decides(j, status, row),
         outages' \subseteq Venues, faults' \in 0..MAX_FAULTS
  PROVE  TypeOK'
  BY DEF TypeOK, Decides, Runnable, Finish, Events, RowStatuses, JobStatuses

\* Running a job keeps the rest of the invariant.
LEMMA FinishInvariant ==
  ASSUME Invariant, NEW j \in Jobs, NEW status, NEW row, Decides(j, status, row)
  PROVE  Undecided' /\ UpstreamHonoured' /\ Early' /\ Gated' /\ Compared'
<1>1. j = ExecutionOrder[next] /\ next \in DOMAIN ExecutionOrder
  BY DEF Decides, Runnable, Current
<1>2. j \notin DOMAIN statuses /\ next \in Nat
  BY <1>1, OrderAssumption DEF Invariant, Undecided
<1>3. /\ DOMAIN statuses' = DOMAIN statuses \cup {j}
      /\ \A k \in DOMAIN statuses : statuses'[k] = statuses[k]
      /\ next' = next + 1 /\ pc = "jobs" /\ pc' = pc
      /\ disposition' = disposition /\ published' = published
  BY <1>2 DEF Decides, Finish, Runnable
<1>4. Undecided'
  BY <1>1, <1>2, <1>3, OrderAssumption DEF Invariant, Undecided
<1>5. UpstreamHonoured'
  <2>1. ASSUME NEW k \in DOMAIN statuses', NEW d \in DependsOn[k]
        PROVE  Accepted(k, d, statuses)
    BY <1>3 DEF Decides, Runnable, Blocked, Invariant, UpstreamHonoured
  <2>2. ASSUME NEW k \in DOMAIN statuses', NEW d \in DependsOn[k]
        PROVE  Accepted(k, d, statuses')
    BY <2>1, <1>3 DEF Accepted
  <2> QED
    BY <2>2 DEF UpstreamHonoured
<1>6. Early' /\ Gated' /\ Compared'
  BY <1>3 DEF Invariant, Early, Gated, Compared
<1> QED
  BY <1>4, <1>5, <1>6

LEMMA StepInvariant == Invariant /\ [Next]_vars => Invariant'
<1> SUFFICES ASSUME Invariant, [Next]_vars PROVE Invariant'
  OBVIOUS
<1> USE DEF Invariant
<1>1. CASE Seed
  BY <1>1, PipelineAssumption DEF Seed, Abort, Fault, TypeOK, Undecided,
     UpstreamHonoured, Early, Gated, Compared, CandidateAgrees
<1>2. CASE SkipJob
  <2>1. TypeOK'
    BY <1>2, OrderAssumption DEF SkipJob, Current, TypeOK
  <2>2. Undecided'
    BY <1>2, OrderAssumption DEF SkipJob, Undecided, TypeOK
  <2> QED
    BY <1>2, <2>1, <2>2 DEF SkipJob, UpstreamHonoured, Early, Gated, Compared,
       CandidateAgrees
<1>3. ASSUME NEW j \in Jobs, JobReturns(j) PROVE Invariant'
  <2>1. PICK o \in VenueOutcomes(j) :
          LET down == o.failed \cup o.lost
              recorded == RecordedStatus(o.failed, Venues \ o.lost) IN
          /\ faults + Cardinality(down) <= MAX_FAULTS
          /\ faults' = faults + Cardinality(down)
          /\ outages' = outages \cup down
          /\ Finish(j, recorded, recorded)
    BY <1>3 DEF JobReturns
  <2>2. PICK recorded \in {"success", "partial_success"} :
          Decides(j, recorded, recorded)
    BY <2>1, <1>3 DEF RecordedStatus, Decides, JobReturns
  <2> DEFINE down == o.failed \cup o.lost
  <2>a. down \subseteq Venues
    BY DEF VenueOutcomes
  <2>3. faults' \in 0..MAX_FAULTS
    <3>1. IsFiniteSet(down)
      BY <2>a, FS_Subset, PipelineAssumption
    <3>2. Cardinality(down) \in Nat
      BY <3>1, FS_CardinalityType
    <3> QED
      BY <2>1, <3>2, PipelineAssumption DEF TypeOK
  <2>4. outages' \subseteq Venues
    BY <2>1, <2>a DEF TypeOK
  <2>5. TypeOK'
    BY <2>2, <2>3, <2>4, FinishType DEF JobStatuses, RowStatuses
  <2> QED
    BY <2>2, <2>5, FinishInvariant
<1>4. ASSUME NEW j \in Jobs, JobRaises(j) \/ JobUnclaimed(j) \/ JobUnclosed(j)
      PROVE  Invariant'
  <2>1. PICK row \in RowStatuses : Decides(j, "failed", row)
    BY <1>4 DEF JobRaises, JobUnclaimed, JobUnclosed, Decides, RowStatuses,
       JobStatuses, TypeOK
  <2>2. outages' \subseteq Venues /\ faults' \in 0..MAX_FAULTS
    BY <1>4, PipelineAssumption DEF JobRaises, JobUnclaimed, JobUnclosed,
       Fault, TypeOK
  <2>3. TypeOK'
    BY <2>1, <2>2, FinishType DEF JobStatuses
  <2> QED
    BY <2>1, <2>3, FinishInvariant
<1>5. CASE Gate
  BY <1>5 DEF Gate, TypeOK, Undecided, UpstreamHonoured, Early, Gated,
     Compared, CandidateAgrees
<1>6. CASE Build
  <2>1. TypeOK'
    <3>1. UNCHANGED <<scope, next, statuses, skipped, rows, outages,
                      disposition, published>>
      BY <1>6 DEF Build, BlockCandidate
    <3>2. candidate' \in {candidate, rows}
      BY <1>6 DEF Build, BlockCandidate
    <3>3. faults' \in 0..MAX_FAULTS
      BY <1>6, PipelineAssumption DEF Build, Fault, TypeOK
    <3>4. /\ pc' \in {"deliver", "finished"} /\ exit' \in {0, 1}
          /\ blocked' \in BOOLEAN /\ report' \in BOOLEAN
      BY <1>6 DEF Build, BlockCandidate, TypeOK
    <3> QED
      BY <3>1, <3>2, <3>3, <3>4 DEF TypeOK
  <2>2. /\ UNCHANGED <<statuses, next, disposition, published>>
        /\ pc = "build" /\ pc' \in {"deliver", "finished"}
        /\ pc' = "deliver" => CandidateAgrees(candidate)'
    BY <1>6 DEF Build, BlockCandidate, CandidateAgrees
  <2> QED
    BY <2>1, <2>2 DEF Undecided, UpstreamHonoured, Early, Gated,
       Compared, CandidateAgrees
<1>7. ASSUME NEW d \in Dispositions, pc = "deliver", Deliver(d) PROVE Invariant'
  <2>1. TypeOK'
    BY <1>7 DEF Deliver, TypeOK
  <2> QED
    BY <1>7, <2>1 DEF Deliver, Undecided, UpstreamHonoured, Early, Gated,
       Compared, CandidateAgrees
<1>8. CASE DeliverFails
  BY <1>8, PipelineAssumption DEF DeliverFails, Abort, Fault, TypeOK,
     Undecided, UpstreamHonoured, Early, Gated, Compared, CandidateAgrees
<1>9. CASE WriteReport
  BY <1>9 DEF WriteReport, TypeOK, Undecided, UpstreamHonoured, Early, Gated,
     Compared, CandidateAgrees
<1>10. CASE Publish
  BY <1>10 DEF Publish, PublishJobMayRun, PublicationEligible, TypeOK,
     Undecided, UpstreamHonoured, Early, Gated, Compared, CandidateAgrees
<1>11. CASE Over \/ UNCHANGED vars
  BY <1>11 DEF Over, vars, TypeOK, Undecided, UpstreamHonoured, Early, Gated,
     Compared, CandidateAgrees
<1> QED
  BY <1>1, <1>2, <1>3, <1>4, <1>5, <1>6, <1>7, <1>8, <1>9, <1>10, <1>11
  DEF Next, Emit, Promote, Discard, Dispositions

LEMMA AlwaysInvariant == Spec => []Invariant
  BY InitInvariant, StepInvariant, PTL DEF Spec

\* The types of the run's state (RunOutcome and the job_runs rows).
THEOREM PipelineTypeCorrect == Spec => []TypeOK
<1>1. Invariant => TypeOK
  BY DEF Invariant
<1> QED
  BY <1>1, AlwaysInvariant, PTL

\* blocking_reason, asked once per job, is enough: whatever fails later, a job
\* that ran never loses an upstream it consumed.
THEOREM JobsConsumeAcceptedUpstreams == Spec => []UpstreamHonoured
<1>1. Invariant => UpstreamHonoured
  BY DEF Invariant
<1> QED
  BY <1>1, AlwaysInvariant, PTL

\* What is published, by the publish job or by promote, rests on required jobs
\* that all ran, ended acceptably and consumed only accepted upstreams.
THEOREM PublicationIsEarned == Spec => []PublishedIsEarned
<1>1. Invariant => PublishedIsEarned
  <2> SUFFICES ASSUME Invariant, published, NEW r \in RequiredForPublication
        PROVE  /\ r \in DOMAIN statuses
               /\ ProducedUsableOutput(statuses[r])
               /\ statuses[r] = "partial_success" => r \in MayPartiallySucceed
               /\ \A d \in DependsOn[r] : Accepted(r, d, statuses)
    BY DEF PublishedIsEarned
  <2>1. PublicationBlockers(statuses) = {}
    BY DEF Invariant, Gated
  <2>2. r \in DOMAIN statuses /\ ProducedUsableOutput(statuses[r])
    BY <2>1 DEF PublicationBlockers
  <2>3. statuses[r] = "partial_success" => r \in MayPartiallySucceed
    BY <2>1, <2>2 DEF PublicationBlockers
  <2> QED
    BY <2>2, <2>3 DEF Invariant, UpstreamHonoured
<1> QED
  BY <1>1, AlwaysInvariant, PTL

\* No artefact leaves the run with job statuses other than the report's.
THEOREM CandidateIsTruthful == Spec => []CandidateTellsTheRun
<1>1. Invariant => CandidateTellsTheRun
  BY DEF Invariant, Compared, CandidateTellsTheRun, CandidateAgrees
<1> QED
  BY <1>1, AlwaysInvariant, PTL

\* What leaves a run is earned and truthful, for every table of jobs.
THEOREM PublicationsAreHonest == Spec => []PublicationIsHonest
<1>1. PublishedIsEarned /\ CandidateTellsTheRun => PublicationIsHonest
  BY DEF PublicationIsHonest
<1> QED
  BY <1>1, PublicationIsEarned, CandidateIsTruthful, PTL

-----------------------------------------------------------------------------
(* The paid reports. *)

\* What is known of a priced row.
LEMMA PricedRows ==
    ASSUME NEW quote \in Nat, NEW table \in [Listed -> Rows(quote)], NEW m \in PricedMarkets(table)
    PROVE  /\ m \in Listed /\ table[m].book \in Nat
           /\ table[m].net["yes"] \in Int /\ table[m].net["no"] \in Int
  <1>1. m \in Listed /\ table[m].is = "priced" /\ table[m] \in Rows(quote)
    BY DEF PricedMarkets
  <1>2. table[m] \in [is : {"priced"}, book : {b \in {quote - 1, quote} : b >= 0},
                     net : [{"yes", "no"} -> 0..MaxNet]]
    BY <1>1 DEF Rows
  <1>3. /\ table[m].book \in {b \in {quote - 1, quote} : b >= 0}
        /\ table[m].net \in [{"yes", "no"} -> 0..MaxNet]
    BY <1>2
  <1>. QED
    BY <1>1, <1>3

\* The candidates of a report are few.
LEMMA FewAreSelected ==
    ASSUME NEW quote \in Nat, NEW table \in [Listed -> Rows(quote)], NEW asOf, NEW cutoff,
           NEW top \in TopCandidates(table, BestSides(table, Admitted(table, asOf, cutoff)))
    PROVE  IsFiniteSet(top) /\ Cardinality(top) <= MAX_CANDIDATES
  <1> DEFINE best == BestSides(table, Admitted(table, asOf, cutoff))
             all == [market : Listed, side : {"yes", "no"}]
             pairs == Listed \X {"yes", "no"}
             f == [p \in pairs |-> [market |-> p[1], side |-> p[2]]]
  <1>1. best \subseteq all
    BY DEF BestSides, Admitted, PricedMarkets
  <1>2. IsFiniteSet({"yes", "no"})
    <2>1. IsFiniteSet({"yes"}) /\ IsFiniteSet({"no"})
      BY FS_Singleton
    <2>2. IsFiniteSet({"yes"} \cup {"no"})
      BY <2>1, FS_Union
    <2>3. {"yes", "no"} = {"yes"} \cup {"no"}
      OBVIOUS
    <2>. QED
      BY <2>2, <2>3, Zenon
  <1>3. IsFiniteSet(pairs)
    BY <1>2, FS_Product, PilotAssumption
  <1>4. f \in Surjection(pairs, all)
    <2>1. \A p \in pairs : f[p] \in all
      OBVIOUS
    <2>2. ASSUME NEW a \in all PROVE \E p \in pairs : f[p] = a
      <3>1. <<a.market, a.side>> \in pairs /\ a = [market |-> a.market, side |-> a.side]
        OBVIOUS
      <3>2. f[<<a.market, a.side>>] = a
        BY <3>1
      <3>. QED
        BY <3>1, <3>2
    <2>3. f \in [pairs -> all]
      BY <2>1
    <2>. HIDE DEF f, pairs, all
    <2>. QED
      BY <2>2, <2>3 DEF Surjection
  <1>. HIDE DEF f, pairs, all, best
  <1>5. IsFiniteSet(all)
    BY <1>3, <1>4, FS_Surjection
  <1>6. IsFiniteSet(best)
    BY <1>1, <1>5, FS_Subset
  <1>7. /\ top \in SUBSET best
        /\ Cardinality(top) = IF Cardinality(best) < MAX_CANDIDATES
                              THEN Cardinality(best) ELSE MAX_CANDIDATES
    BY DEF TopCandidates, best
  <1>8. IsFiniteSet(top) /\ Cardinality(best) \in Nat /\ MAX_CANDIDATES \in Nat
    BY <1>6, <1>7, FS_Subset, FS_CardinalityType, PilotAssumption
  <1>. QED
    BY <1>7, <1>8

\* One side of a market is selected, on a book that is fresh.
LEMMA SelectedAreFresh ==
    ASSUME NEW quote \in Nat, NEW table \in [Listed -> Rows(quote)], NEW asOf \in Nat, NEW cutoff,
           NEW top \in TopCandidates(table, BestSides(table, Admitted(table, asOf, cutoff))),
           NEW c \in top
    PROVE  /\ table[c.market].book <= asOf /\ asOf - table[c.market].book <= CANDIDATE_MAX_AGE
           /\ \A d \in top : d.market = c.market => d = c
  <1> DEFINE admitted == Admitted(table, asOf, cutoff)
             best == BestSides(table, admitted)
  <1>1. top \subseteq best /\ best \subseteq admitted
    BY DEF TopCandidates, BestSides
  <1>2. \A d \in admitted :
          /\ d \in [market : PricedMarkets(table), side : {"yes", "no"}]
          /\ ~ TooOld(table[d.market], asOf, cutoff)
    BY DEF Admitted
  <1>3. \A d \in best : \A e \in admitted : e.market = d.market /\ e # d =>
          \/ table[e.market].net[e.side] < table[d.market].net[d.side]
          \/ table[e.market].net[e.side] = table[d.market].net[d.side] /\ d.side = "yes"
    BY DEF BestSides
  <1>. HIDE DEF admitted, best
  <1>4. /\ c.market \in PricedMarkets(table) /\ ~ TooOld(table[c.market], asOf, cutoff)
        /\ CANDIDATE_MAX_AGE \in Nat
    BY <1>1, <1>2, PilotAssumption
  <1>5. /\ table[c.market].book \in Nat
        /\ table[c.market].net["yes"] \in Int /\ table[c.market].net["no"] \in Int
    BY <1>4, PricedRows
  <1>6. table[c.market].book <= asOf /\ asOf - table[c.market].book <= CANDIDATE_MAX_AGE
    BY <1>4, <1>5 DEF TooOld
  <1>7. ASSUME NEW d \in top, d.market = c.market, d # c PROVE FALSE
    <2>1. /\ d \in best /\ c \in best /\ d \in admitted /\ c \in admitted
      BY <1>1
    <2>2. d.side \in {"yes", "no"} /\ c.side \in {"yes", "no"}
      BY <1>2, <2>1
    <2>3. \/ table[c.market].net[d.side] < table[c.market].net[c.side]
          \/ table[c.market].net[d.side] = table[c.market].net[c.side] /\ c.side = "yes"
      BY <1>3, <1>7, <2>1
    <2>4. \/ table[c.market].net[c.side] < table[c.market].net[d.side]
          \/ table[c.market].net[c.side] = table[c.market].net[d.side] /\ d.side = "yes"
      BY <1>3, <1>7, <2>1
    <2>5. d.side # c.side
      BY <1>2, <1>7, <2>1
    <2>. QED
      BY <1>5, <2>2, <2>3, <2>4, <2>5
  <1>. QED
    BY <1>6, <1>7

ReportFields ==
    {"step", "kind", "asOf", "of", "gzipMatches", "source", "checksPassed", "actionable"}

SnapshotRecords == [cutoff : Nat, quote : Nat, fit : BOOLEAN]

\* One snapshot is published after another, and a generator has read one of them.
PilotTypes ==
    /\ snapshots \in Seq(SnapshotRecords) /\ Len(snapshots) = gzipOf
    /\ gzipOf \in 1..MaxSnapshots /\ manifestOf \in 1..gzipOf /\ hour \in Nat
    /\ DOMAIN copies = 1..MaxSnapshots /\ DOMAIN generator = Generators
    /\ \A g \in Running :
          /\ DOMAIN generator[g] = ReportFields /\ generator[g].step # "idle"
          /\ generator[g].asOf \in Nat /\ generator[g].of \in 0..manifestOf
          /\ generator[g].step # "started" => generator[g].of # 0

\* What a copy is of was published no earlier than what it is named after.
CopiesFit ==
    \A s \in 1..MaxSnapshots :
        copies[s] = {} \/ \E y \in {0} \cup (s..gzipOf) : copies[s] = {y}

\* A copy that a generator is making, or has taken, is there.
CopiersFit ==
    \A g \in Running :
        /\ generator[g].step = "copying" => generator[g].source \in generator[g].of..gzipOf
        /\ generator[g].step \in {"copying", "copied"} => copies[generator[g].of] # {}
        /\ generator[g].step # "built" => generator[g].actionable = {}
        /\ generator[g].step \notin {"copying", "built"} => generator[g].source = 0

\* Who was never disturbed is alone, has read the pair that is published, and what it
\* refused had a cause.
LonelyFit ==
    \A g \in Running \ disturbed :
        /\ \A h \in Running : h = g
        /\ gzipOf = manifestOf
        /\ generator[g].step # "started" => generator[g].of = manifestOf /\ generator[g].gzipMatches
        /\ generator[g].step = "copying" => generator[g].source = generator[g].of
        /\ generator[g].step = "judged" /\ ~ generator[g].checksPassed =>
              \/ ~ snapshots[generator[g].of].fit
              \/ ~ InTime(generator[g].asOf, snapshots[generator[g].of])
              \/ copies[generator[g].of] = {0}

PilotInv == PilotTypes /\ CopiesFit /\ CopiersFit /\ LonelyFit /\ ActionableIsFresh

LEMMA Runs == ASSUME NEW g \in Generators, generator[g].step # "idle" PROVE g \in Running
  BY DEF Running, IdleGenerator

LEMMA ReportsTrue == ASSUME PilotInv PROVE ReportsAreEarned
  <1>. SUFFICES ASSUME NEW g \in Generators, generator[g].step = "judged",
                       ~ generator[g].checksPassed, snapshots[generator[g].of].fit,
                       InTime(generator[g].asOf, snapshots[generator[g].of]), g \notin disturbed
                PROVE  /\ copies[generator[g].of] = {0}
                       /\ \A h \in Generators : generator[h].step # "copying"
    BY Zenon DEF ReportsAreEarned, RefusalsAreEarned, PilotInv
  <1>1. g \in Running \ disturbed
    BY Runs
  <1>2. \A h \in Generators : generator[h].step = "copying" => h \in Running
    BY Runs
  <1>. QED
    BY <1>1, <1>2 DEF PilotInv, LonelyFit

\* What a generator does leaves the others.
LEMMA GoIs ==
    ASSUME PilotTypes, NEW g \in Generators, NEW after, Go(g, after)
    PROVE  /\ DOMAIN generator' = Generators /\ generator'[g] = after
           /\ \A h \in Generators : h # g => generator'[h] = generator[h]
           /\ after = IdleGenerator => Running' = Running \ {g}
           /\ after # IdleGenerator => Running' = Running \cup {g}
  <1>1. generator' = [generator EXCEPT ![g] = after] /\ DOMAIN generator = Generators
    BY DEF Go, PilotTypes
  <1>2. /\ DOMAIN generator' = Generators /\ generator'[g] = after
        /\ \A h \in Generators : h # g => generator'[h] = generator[h]
    BY <1>1
  <1>. QED
    BY <1>2 DEF Running

\* A report ends without a trace of its own, but for the copy.
LEMMA EndHolds ==
    ASSUME PilotInv, NEW g \in Generators, Go(g, IdleGenerator),
           UNCHANGED <<snapshots, manifestOf, gzipOf, hour, copies, disturbed>>
    PROVE  PilotInv'
  <1>1. /\ DOMAIN generator' = Generators /\ Running' = Running \ {g}
        /\ \A h \in Running' : generator'[h] = generator[h]
    BY GoIs DEF PilotInv, Running
  <1>2. PilotTypes'
    BY <1>1 DEF PilotInv, PilotTypes
  <1>3. CopiesFit' /\ CopiersFit'
    BY <1>1 DEF PilotInv, CopiesFit, CopiersFit
  <1>4. LonelyFit'
    BY <1>1 DEF PilotInv, LonelyFit, InTime, HasAge
  <1>5. ActionableIsFresh'
    BY <1>1 DEF PilotInv, ActionableIsFresh, Built
  <1>. QED
    BY <1>2, <1>3, <1>4, <1>5 DEF PilotInv

LEMMA HourHolds == ASSUME PilotInv, TickHour PROVE PilotInv'
  BY DEF TickHour, PilotInv, PilotTypes, CopiesFit, CopiersFit, LonelyFit, ActionableIsFresh,
         Running, Built, InTime, HasAge

\* A publication disturbs whoever is at work.
LEMMA PublishGzipHolds == ASSUME PilotInv, PublishGzip PROVE PilotInv'
  <1>1. PICK fit \in BOOLEAN, quote \in {q \in {hour - 1, hour} : q >= 0} :
          snapshots' = Append(snapshots, [cutoff |-> hour, quote |-> quote, fit |-> fit])
    BY DEF PublishGzip
  <1>2. /\ gzipOf' = gzipOf + 1 /\ disturbed' = disturbed \cup Running
        /\ Len(snapshots) < MaxSnapshots /\ MaxSnapshots \in Nat
        /\ UNCHANGED <<manifestOf, hour, copies, generator>>
    BY PilotAssumption DEF PublishGzip
  <1>3. /\ hour \in Nat /\ snapshots \in Seq(SnapshotRecords) /\ Len(snapshots) = gzipOf
        /\ gzipOf \in Nat
    BY DEF PilotInv, PilotTypes
  <1>4. PICK made : made = [cutoff |-> hour, quote |-> quote, fit |-> fit]
    OBVIOUS
  <1>5. made \in SnapshotRecords
    BY <1>3, <1>4 DEF SnapshotRecords
  <1>6. snapshots' \in Seq(SnapshotRecords) /\ Len(snapshots') = gzipOf + 1
    BY <1>1, <1>3, <1>4, <1>5
  <1>7. Running' = Running
    BY <1>2 DEF Running
  <1>8. PilotTypes'
    BY <1>2, <1>6, <1>7 DEF PilotInv, PilotTypes
  <1>9. CopiesFit' /\ CopiersFit' /\ LonelyFit'
    BY <1>2, <1>7 DEF PilotInv, PilotTypes, CopiesFit, CopiersFit, LonelyFit
  <1>10. ActionableIsFresh'
    BY <1>2, <1>7 DEF PilotInv, ActionableIsFresh, Built
  <1>. QED
    BY <1>8, <1>9, <1>10 DEF PilotInv

LEMMA PublishManifestHolds == ASSUME PilotInv, PublishManifest PROVE PilotInv'
  <1>1. /\ manifestOf' = gzipOf /\ manifestOf < gzipOf /\ disturbed' = disturbed \cup Running
        /\ UNCHANGED <<snapshots, gzipOf, hour, copies, generator>> /\ Running' = Running
    BY DEF PublishManifest, Running
  <1>2. PilotTypes'
    BY <1>1 DEF PilotInv, PilotTypes
  <1>3. CopiesFit' /\ CopiersFit' /\ LonelyFit'
    BY <1>1 DEF PilotInv, CopiesFit, CopiersFit, LonelyFit
  <1>4. ActionableIsFresh'
    BY <1>1 DEF PilotInv, ActionableIsFresh, Built
  <1>. QED
    BY <1>2, <1>3, <1>4 DEF PilotInv

LEMMA StartHolds ==
    ASSUME PilotInv, NEW g \in Generators, NEW kind \in Kinds, NEW historical \in BOOLEAN,
           StartReport(g, kind, historical)
    PROVE  PilotInv'
  <1>1. g \notin Running /\ UNCHANGED <<snapshots, manifestOf, gzipOf, hour, copies>>
    BY DEF StartReport, Running, disk
  <1>2. PICK asOf : asOf = IF historical THEN snapshots[manifestOf].cutoff ELSE hour
    OBVIOUS
  <1>3. asOf \in Nat
    <2>1. snapshots[manifestOf] \in SnapshotRecords /\ hour \in Nat
      BY DEF PilotInv, PilotTypes
    <2>. QED
      BY <1>2, <2>1 DEF SnapshotRecords
  <1>4. PICK after : after = [step |-> "started", kind |-> kind, asOf |-> asOf, of |-> 0,
                            gzipMatches |-> FALSE, source |-> 0, checksPassed |-> FALSE,
                            actionable |-> {}]
    OBVIOUS
  <1>5. Go(g, after)
    BY <1>2, <1>4, Zenon DEF StartReport, Go
  <1>6. /\ DOMAIN after = ReportFields /\ after.step = "started" /\ after.asOf = asOf
        /\ after.of = 0 /\ after.source = 0 /\ after.actionable = {} /\ after # IdleGenerator
    BY <1>4 DEF ReportFields, IdleGenerator
  <1>7. /\ DOMAIN generator' = Generators /\ generator'[g] = after /\ Running' = Running \cup {g}
        /\ \A h \in Running : generator'[h] = generator[h]
    BY <1>1, <1>5, <1>6, GoIs DEF PilotInv, Running
  <1>8. /\ disturbed \subseteq disturbed'
        /\ Running # {} => Running' \subseteq disturbed'
        /\ gzipOf # manifestOf => g \in disturbed'
    BY <1>7 DEF StartReport
  <1>9. PilotTypes'
    BY <1>1, <1>3, <1>6, <1>7 DEF PilotInv, PilotTypes
  <1>10. CopiesFit' /\ CopiersFit'
    BY <1>1, <1>6, <1>7 DEF PilotInv, CopiesFit, CopiersFit
  <1>11. LonelyFit'
    BY <1>1, <1>6, <1>7, <1>8 DEF LonelyFit
  <1>12. ActionableIsFresh'
    BY <1>6, <1>7 DEF PilotInv, ActionableIsFresh, Built
  <1>. QED
    BY <1>9, <1>10, <1>11, <1>12 DEF PilotInv

\* A generator goes on: what has to hold of its own next step.
LEMMA StepHolds ==
    ASSUME PilotInv, NEW g \in Running, NEW after, Go(g, after),
           UNCHANGED <<snapshots, manifestOf, gzipOf, hour, disturbed>>,
           DOMAIN after = ReportFields, after.step \notin {"idle", "started"},
           after.asOf = generator[g].asOf,
           after.of \in 1..manifestOf,
           DOMAIN copies' = DOMAIN copies, CopiesFit',
           \A s \in 1..MaxSnapshots : copies[s] # {} => copies'[s] # {},
           UNCHANGED copies \/ generator[g].step \in {"hashed", "copying"},
           after.step = "copying" => after.source \in after.of..gzipOf,
           after.step \in {"copying", "copied"} => copies'[after.of] # {},
           after.step # "built" => after.actionable = {},
           after.step \notin {"copying", "built"} => after.source = 0,
           g \notin disturbed =>
              /\ after.of = manifestOf /\ after.gzipMatches
              /\ after.step = "copying" => after.source = after.of
              /\ after.step = "judged" /\ ~ after.checksPassed =>
                    \/ ~ snapshots[after.of].fit
                    \/ ~ InTime(after.asOf, snapshots[after.of])
                    \/ copies'[after.of] = {0},
           after.step = "built" =>
              /\ after.source # 0 => after.source >= after.of
              /\ Cardinality(after.actionable) <= MAX_CANDIDATES
              /\ \A c \in after.actionable :
                   /\ after.checksPassed /\ c.book <= after.asOf
                   /\ after.asOf - c.book <= CANDIDATE_MAX_AGE
                   /\ \A d \in after.actionable : d.market = c.market => d = c
    PROVE  PilotInv'
  <1>1. after # IdleGenerator /\ g \in Generators
    BY DEF IdleGenerator, Running
  <1>2. /\ DOMAIN generator' = Generators /\ generator'[g] = after /\ Running' = Running
        /\ \A h \in Running : h # g => generator'[h] = generator[h]
    BY <1>1, GoIs DEF PilotInv, Running
  <1>3. PilotTypes'
    BY <1>2 DEF PilotInv, PilotTypes
  <1>4. CopiersFit'
    <2>. SUFFICES ASSUME NEW h \in Running
                  PROVE  /\ generator'[h].step = "copying" =>
                               generator'[h].source \in generator'[h].of..gzipOf
                         /\ generator'[h].step \in {"copying", "copied"} =>
                               copies'[generator'[h].of] # {}
                         /\ generator'[h].step # "built" => generator'[h].actionable = {}
                         /\ generator'[h].step \notin {"copying", "built"} =>
                               generator'[h].source = 0
      BY <1>2 DEF CopiersFit
    <2>1. CASE h = g
      BY <1>2, <2>1
    <2>2. CASE h # g
      <3>1. generator[h].step \in {"copying", "copied"} => generator[h].of \in 1..MaxSnapshots
        <4>1. /\ generator[h].of \in 0..manifestOf
              /\ generator[h].step # "started" => generator[h].of # 0
          BY DEF PilotInv, PilotTypes
        <4>2. /\ manifestOf \in 1..gzipOf /\ gzipOf \in 1..MaxSnapshots /\ MaxSnapshots \in Nat
          BY PilotAssumption DEF PilotInv, PilotTypes
        <4>3. generator[h].of # 0 => generator[h].of \in 1..MaxSnapshots
          BY <4>1, <4>2
        <4>. QED
          BY <4>1, <4>3
      <3>2. /\ generator[h].step = "copying" => generator[h].source \in generator[h].of..gzipOf
            /\ generator[h].step \in {"copying", "copied"} => copies[generator[h].of] # {}
            /\ generator[h].step # "built" => generator[h].actionable = {}
            /\ generator[h].step \notin {"copying", "built"} => generator[h].source = 0
        BY DEF PilotInv, CopiersFit
      <3>3. generator'[h] = generator[h]
        BY <1>2, <2>2
      <3>4. generator[h].step \in {"copying", "copied"} => copies'[generator[h].of] # {}
        BY <3>1, <3>2
      <3>. QED
        BY <3>2, <3>3, <3>4, Zenon
    <2>. QED
      BY <2>1, <2>2
  <1>5. LonelyFit'
    <2>. SUFFICES ASSUME NEW h \in Running \ disturbed
                  PROVE  /\ \A k \in Running : k = h
                         /\ gzipOf = manifestOf
                         /\ generator'[h].step # "started" =>
                               generator'[h].of = manifestOf /\ generator'[h].gzipMatches
                         /\ generator'[h].step = "copying" =>
                               generator'[h].source = generator'[h].of
                         /\ generator'[h].step = "judged" /\ ~ generator'[h].checksPassed =>
                               \/ ~ snapshots[generator'[h].of].fit
                               \/ ~ InTime(generator'[h].asOf, snapshots[generator'[h].of])
                               \/ copies'[generator'[h].of] = {0}
      BY <1>2 DEF LonelyFit, InTime, HasAge
    <2>1. h = g
      BY DEF PilotInv, LonelyFit
    <2>2. (\A k \in Running : k = h) /\ gzipOf = manifestOf
      BY DEF PilotInv, LonelyFit
    <2>3. generator'[h] = after /\ g \notin disturbed
      BY <1>2, <2>1
    <2>. QED
      BY <2>2, <2>3, Zenon
  <1>6. ActionableIsFresh'
    <2>. SUFFICES ASSUME NEW h \in Running, NEW r, r = generator'[h], r.step = "built"
                  PROVE  /\ r.source # 0 => r.source >= r.of
                         /\ Cardinality(r.actionable) <= MAX_CANDIDATES
                         /\ \A c \in r.actionable :
                              /\ r.checksPassed /\ c.book <= r.asOf
                              /\ r.asOf - c.book <= CANDIDATE_MAX_AGE
                              /\ \A d \in r.actionable : d.market = c.market => d = c
      BY <1>2 DEF ActionableIsFresh, Built
    <2>1. CASE h = g
      BY <1>2, <2>1
    <2>2. CASE h # g
      BY <1>2, <2>2 DEF PilotInv, ActionableIsFresh, Built
    <2>. QED
      BY <2>1, <2>2
  <1>. QED
    BY <1>3, <1>4, <1>5, <1>6 DEF PilotInv

\* What is known of a generator at work.
LEMMA AtWork ==
    ASSUME PilotInv, NEW g \in Running
    PROVE  /\ g \in Generators /\ DOMAIN generator[g] = ReportFields /\ generator[g].asOf \in Nat
           /\ generator[g].step # "started" => generator[g].of \in 1..manifestOf
           /\ manifestOf \in 1..gzipOf /\ gzipOf \in 1..MaxSnapshots /\ MaxSnapshots \in Nat
           /\ DOMAIN copies = 1..MaxSnapshots /\ CopiesFit
           /\ MAX_CANDIDATES \in Nat
           /\ generator[g].step \notin {"copying", "built"} => generator[g].source = 0
           /\ generator[g].step # "built" => generator[g].actionable = {}
  BY PilotAssumption DEF PilotInv, PilotTypes, CopiersFit, Running

\* A report that is built of nothing.
LEMMA NothingIsFew == Cardinality({}) = 0
  BY FS_EmptySet

LEMMA ReadHolds == ASSUME PilotInv, NEW g \in Generators, ReadPair(g) PROVE PilotInv'
  <1> DEFINE m == generator[g]
             after == [m EXCEPT !.step = "hashed", !.of = manifestOf,
                               !.gzipMatches = (gzipOf = manifestOf)]
  <1>1. /\ m.step = "started" /\ Go(g, after)
        /\ UNCHANGED <<snapshots, manifestOf, gzipOf, hour, copies, disturbed>>
    BY DEF ReadPair, disk
  <1>2. g \in Running
    BY <1>1, Runs
  <1>3. DOMAIN m = ReportFields /\ m.actionable = {} /\ m.source = 0 /\ manifestOf \in 1..manifestOf
    BY <1>1, <1>2, AtWork
  <1>. HIDE DEF m
  <1>4. /\ DOMAIN after = ReportFields /\ after.step = "hashed" /\ after.of = manifestOf
        /\ after.asOf = m.asOf /\ after.actionable = {} /\ after.source = 0
    BY <1>3 DEF ReportFields
  <1>5. after.gzipMatches <=> gzipOf = manifestOf
    BY <1>3, Zenon DEF ReportFields
  <1>6. g \notin disturbed => gzipOf = manifestOf
    BY <1>2 DEF PilotInv, LonelyFit
  <1>7. CopiesFit'
    BY <1>1 DEF PilotInv, CopiesFit
  <1>. HIDE DEF after
  <1>. QED
    BY <1>1, <1>2, <1>3, <1>4, <1>5, <1>6, <1>7, StepHolds DEF m

LEMMA MaterialiseHolds == ASSUME PilotInv, NEW g \in Generators, Materialise(g) PROVE PilotInv'
  <1> DEFINE m == generator[g]
  <1>1. m.step = "hashed" /\ UNCHANGED <<snapshots, manifestOf, gzipOf, hour, disturbed>>
    BY DEF Materialise, disk
  <1>2. g \in Running
    BY <1>1, Runs
  <1>3. /\ DOMAIN m = ReportFields /\ m.actionable = {} /\ m.source = 0 /\ m.of \in 1..manifestOf
        /\ manifestOf \in 1..gzipOf /\ gzipOf \in 1..MaxSnapshots /\ MaxSnapshots \in Nat
        /\ DOMAIN copies = 1..MaxSnapshots
    BY <1>1, <1>2, AtWork
  <1>4. m.of \in 1..MaxSnapshots /\ gzipOf \in m.of..gzipOf
    BY <1>3
  <1>5. g \notin disturbed => m.of = manifestOf /\ m.gzipMatches /\ gzipOf = manifestOf
    BY <1>1, <1>2 DEF PilotInv, LonelyFit
  <1>6. CASE copies[m.of] = {}
    <2> DEFINE after == [m EXCEPT !.step = "copying", !.source = gzipOf]
    <2>1. copies' = [copies EXCEPT ![m.of] = {0}] /\ Go(g, after)
      BY <1>6 DEF Materialise
    <2>. HIDE DEF m
    <2>2. /\ DOMAIN after = ReportFields /\ after.step = "copying" /\ after.of = m.of
          /\ after.asOf = m.asOf /\ after.actionable = {} /\ after.source = gzipOf
          /\ after.gzipMatches = m.gzipMatches
      BY <1>3 DEF ReportFields
    <2>3. /\ DOMAIN copies' = DOMAIN copies /\ copies'[m.of] = {0}
          /\ \A s \in 1..MaxSnapshots : s # m.of => copies'[s] = copies[s]
      BY <1>3, <1>4, <2>1
    <2>4. CopiesFit'
      BY <1>1, <2>3 DEF PilotInv, CopiesFit
    <2>5. /\ \A s \in 1..MaxSnapshots : copies[s] # {} => copies'[s] # {}
          /\ copies'[after.of] # {}
      BY <2>2, <2>3
    <2>. HIDE DEF after
    <2>. QED
      BY <1>1, <1>2, <1>3, <1>4, <1>5, <2>1, <2>2, <2>3, <2>4, <2>5, StepHolds DEF m
  <1>7. CASE copies[m.of] # {}
    <2> DEFINE after == [m EXCEPT !.step = "copied"]
    <2>1. copies' = copies /\ Go(g, after)
      BY <1>7 DEF Materialise
    <2>. HIDE DEF m
    <2>2. /\ DOMAIN after = ReportFields /\ after.step = "copied" /\ after.of = m.of
          /\ after.asOf = m.asOf /\ after.actionable = {} /\ after.source = 0
          /\ after.gzipMatches = m.gzipMatches
      BY <1>3 DEF ReportFields
    <2>3. CopiesFit'
      BY <1>1, <2>1 DEF PilotInv, CopiesFit
    <2>. HIDE DEF after
    <2>. QED
      BY <1>1, <1>2, <1>3, <1>5, <1>7, <2>1, <2>2, <2>3, StepHolds DEF m
  <1>. QED
    BY <1>6, <1>7

LEMMA CopyHolds == ASSUME PilotInv, NEW g \in Generators, CopyAll(g) PROVE PilotInv'
  <1> DEFINE m == generator[g]
             after == [m EXCEPT !.step = "copied", !.source = 0]
  <1>1. /\ m.step = "copying" /\ Go(g, after) /\ copies' = [copies EXCEPT ![m.of] = {m.source}]
        /\ UNCHANGED <<snapshots, manifestOf, gzipOf, hour, disturbed>>
    BY DEF CopyAll, disk
  <1>2. g \in Running
    BY <1>1, Runs
  <1>3. /\ DOMAIN m = ReportFields /\ m.actionable = {} /\ m.of \in 1..manifestOf
        /\ manifestOf \in 1..gzipOf /\ gzipOf \in 1..MaxSnapshots /\ MaxSnapshots \in Nat
        /\ DOMAIN copies = 1..MaxSnapshots
    BY <1>1, <1>2, AtWork
  <1>4. m.of \in 1..MaxSnapshots /\ m.source \in m.of..gzipOf
    BY <1>1, <1>2, <1>3 DEF PilotInv, CopiersFit
  <1>5. g \notin disturbed => m.of = manifestOf /\ m.gzipMatches
    BY <1>1, <1>2 DEF PilotInv, LonelyFit
  <1>. HIDE DEF m
  <1>6. /\ DOMAIN after = ReportFields /\ after.step = "copied" /\ after.of = m.of
        /\ after.asOf = m.asOf /\ after.actionable = {} /\ after.source = 0
        /\ after.gzipMatches = m.gzipMatches
    BY <1>3 DEF ReportFields
  <1>7. /\ DOMAIN copies' = DOMAIN copies /\ copies'[m.of] = {m.source}
        /\ \A s \in 1..MaxSnapshots : s # m.of => copies'[s] = copies[s]
    BY <1>1, <1>3, <1>4
  <1>8. CopiesFit'
    BY <1>1, <1>4, <1>7 DEF PilotInv, CopiesFit
  <1>9. /\ \A s \in 1..MaxSnapshots : copies[s] # {} => copies'[s] # {}
        /\ copies'[after.of] # {}
    BY <1>6, <1>7
  <1>. HIDE DEF after
  <1>. QED
    BY <1>1, <1>2, <1>3, <1>5, <1>6, <1>7, <1>8, <1>9, StepHolds DEF m

LEMMA EvaluateHolds == ASSUME PilotInv, NEW g \in Generators, Evaluate(g) PROVE PilotInv'
  <1>1. PICK m : m = generator[g]
    OBVIOUS
  <1>2. PICK sound : sound = /\ m.gzipMatches /\ copies[m.of] = {m.of}
                             /\ snapshots[m.of].fit /\ InTime(m.asOf, snapshots[m.of])
    OBVIOUS
  <1> DEFINE after == [m EXCEPT !.step = "judged", !.checksPassed = sound]
  <1>3. /\ m.step = "copied" /\ Go(g, after)
        /\ UNCHANGED <<snapshots, manifestOf, gzipOf, hour, copies, disturbed>>
    BY <1>1, <1>2, Zenon DEF Evaluate, disk
  <1>4. g \in Running
    BY <1>1, <1>3, Runs
  <1>5. /\ DOMAIN m = ReportFields /\ m.actionable = {} /\ m.source = 0 /\ m.of \in 1..manifestOf
        /\ manifestOf \in 1..gzipOf /\ gzipOf \in 1..MaxSnapshots /\ MaxSnapshots \in Nat
    BY <1>1, <1>3, <1>4, AtWork
  <1>6. /\ DOMAIN after = ReportFields /\ after.step = "judged" /\ after.of = m.of
        /\ after.asOf = m.asOf /\ after.actionable = {} /\ after.source = 0
        /\ after.gzipMatches = m.gzipMatches /\ after.checksPassed = sound
    BY <1>5 DEF ReportFields
  <1>7. g \notin disturbed =>
          m.of = manifestOf /\ m.gzipMatches /\ gzipOf = manifestOf /\ copies[m.of] # {}
    BY <1>1, <1>3, <1>4 DEF PilotInv, LonelyFit, CopiersFit
  <1>8. m.of \in 1..MaxSnapshots
    BY <1>5
  <1>9. copies[m.of] = {} \/ \E y \in {0} \cup (m.of..gzipOf) : copies[m.of] = {y}
    BY <1>8 DEF PilotInv, CopiesFit
  <1>10. g \notin disturbed => copies[m.of] \in {{0}, {m.of}}
    BY <1>5, <1>7, <1>9
  <1>11. g \notin disturbed /\ ~ sound =>
            \/ ~ snapshots[m.of].fit
            \/ ~ InTime(m.asOf, snapshots[m.of])
            \/ copies[m.of] = {0}
    BY <1>2, <1>7, <1>10
  <1>12. CopiesFit'
    BY <1>3 DEF PilotInv, CopiesFit
  <1>. HIDE DEF after
  <1>. QED
    BY <1>1, <1>3, <1>4, <1>5, <1>6, <1>7, <1>11, <1>12, StepHolds

LEMMA RefuseHolds == ASSUME PilotInv, NEW g \in Generators, RefuseDigest(g) PROVE PilotInv'
  <1> DEFINE m == generator[g]
             after == [m EXCEPT !.step = "built"]
  <1>1. /\ m.step = "judged" /\ Go(g, after)
        /\ UNCHANGED <<snapshots, manifestOf, gzipOf, hour, copies, disturbed>>
    BY DEF RefuseDigest, disk
  <1>2. g \in Running
    BY <1>1, Runs
  <1>3. /\ DOMAIN m = ReportFields /\ m.actionable = {} /\ m.source = 0 /\ m.of \in 1..manifestOf
        /\ MAX_CANDIDATES \in Nat
    BY <1>1, <1>2, AtWork
  <1>4. g \notin disturbed => m.of = manifestOf /\ m.gzipMatches
    BY <1>1, <1>2 DEF PilotInv, LonelyFit
  <1>5. CopiesFit'
    BY <1>1 DEF PilotInv, CopiesFit
  <1>. HIDE DEF m
  <1>6. /\ DOMAIN after = ReportFields /\ after.step = "built" /\ after.of = m.of
        /\ after.asOf = m.asOf /\ after.actionable = {} /\ after.source = 0
        /\ after.gzipMatches = m.gzipMatches
    BY <1>3 DEF ReportFields
  <1>7. Cardinality(after.actionable) <= MAX_CANDIDATES
    BY <1>3, <1>6, NothingIsFew
  <1>. HIDE DEF after
  <1>. QED
    BY <1>1, <1>2, <1>3, <1>4, <1>5, <1>6, <1>7, StepHolds DEF m

LEMMA ReviewHolds == ASSUME PilotInv, NEW g \in Generators, BuildReview(g) PROVE PilotInv'
  <1> DEFINE m == generator[g]
             after == [m EXCEPT !.step = "built", !.source = manifestOf]
  <1>1. /\ m.step = "judged" /\ Go(g, after)
        /\ UNCHANGED <<snapshots, manifestOf, gzipOf, hour, copies, disturbed>>
    BY DEF BuildReview, disk
  <1>2. g \in Running
    BY <1>1, Runs
  <1>3. /\ DOMAIN m = ReportFields /\ m.actionable = {} /\ m.of \in 1..manifestOf
        /\ MAX_CANDIDATES \in Nat /\ manifestOf \in Nat
    BY <1>1, <1>2, AtWork
  <1>4. g \notin disturbed => m.of = manifestOf /\ m.gzipMatches
    BY <1>1, <1>2 DEF PilotInv, LonelyFit
  <1>5. CopiesFit'
    BY <1>1 DEF PilotInv, CopiesFit
  <1>. HIDE DEF m
  <1>6. /\ DOMAIN after = ReportFields /\ after.step = "built" /\ after.of = m.of
        /\ after.asOf = m.asOf /\ after.actionable = {} /\ after.source = manifestOf
        /\ after.gzipMatches = m.gzipMatches
    BY <1>3 DEF ReportFields
  <1>7. Cardinality(after.actionable) <= MAX_CANDIDATES /\ after.source >= after.of
    BY <1>3, <1>6, NothingIsFew
  <1>. HIDE DEF after
  <1>. QED
    BY <1>1, <1>2, <1>3, <1>4, <1>5, <1>6, <1>7, StepHolds DEF m

\* What a digest makes of the candidates it selected.
LEMMA DigestIsFresh ==
    ASSUME NEW quote \in Nat, NEW table \in [Listed -> Rows(quote)], NEW asOf \in Nat, NEW cutoff,
           NEW top \in TopCandidates(table, BestSides(table, Admitted(table, asOf, cutoff))),
           NEW actionable,
           actionable = {[market |-> c.market, side |-> c.side,
                          book |-> table[c.market].book] : c \in top}
    PROVE  /\ Cardinality(actionable) <= MAX_CANDIDATES
           /\ \A c \in actionable :
                /\ c.book <= asOf /\ asOf - c.book <= CANDIDATE_MAX_AGE
                /\ \A d \in actionable : d.market = c.market => d = c
  <1> DEFINE f == [c \in top |-> [market |-> c.market, side |-> c.side,
                                  book |-> table[c.market].book]]
  <1>1. \A c \in top : f[c].market = c.market /\ f[c].book = table[c.market].book
    OBVIOUS
  <1>2. /\ \A c \in top : f[c] \in actionable
        /\ \A a \in actionable : \E c \in top : a = f[c]
    OBVIOUS
  <1>3. f \in [top -> actionable]
    OBVIOUS
  <1>. HIDE DEF f
  <1>4. f \in Surjection(top, actionable)
    BY <1>2, <1>3 DEF Surjection
  <1>5. IsFiniteSet(top) /\ Cardinality(top) <= MAX_CANDIDATES
    BY FewAreSelected
  <1>6. IsFiniteSet(actionable) /\ Cardinality(actionable) <= Cardinality(top)
    BY <1>4, <1>5, FS_Surjection
  <1>7. /\ Cardinality(actionable) \in Nat /\ Cardinality(top) \in Nat /\ MAX_CANDIDATES \in Nat
    BY <1>5, <1>6, FS_CardinalityType, PilotAssumption
  <1>8. ASSUME NEW a \in actionable
        PROVE  /\ a.book <= asOf /\ asOf - a.book <= CANDIDATE_MAX_AGE
               /\ \A b \in actionable : b.market = a.market => b = a
    <2>1. PICK c \in top : a = f[c]
      BY <1>2
    <2>2. /\ table[c.market].book <= asOf /\ asOf - table[c.market].book <= CANDIDATE_MAX_AGE
          /\ \A d \in top : d.market = c.market => d = c
      BY SelectedAreFresh
    <2>3. ASSUME NEW b \in actionable, b.market = a.market PROVE b = a
      <3>1. PICK d \in top : b = f[d]
        BY <1>2
      <3>2. d.market = c.market
        BY <1>1, <2>1, <2>3, <3>1
      <3>. QED
        BY <2>1, <2>2, <3>1, <3>2
    <2>. QED
      BY <1>1, <2>1, <2>2, <2>3
  <1>. QED
    BY <1>5, <1>6, <1>7, <1>8

LEMMA DigestHolds == ASSUME PilotInv, NEW g \in Generators, BuildDigest(g) PROVE PilotInv'
  <1> DEFINE m == generator[g]
  <1>1. PICK quote, asOf, cutoff :
          /\ quote = snapshots[manifestOf].quote /\ asOf = m.asOf
          /\ cutoff = snapshots[manifestOf].cutoff
    OBVIOUS
  <1>2. PICK table \in [Listed -> Rows(quote)] :
          \E top \in TopCandidates(table, BestSides(table, Admitted(table, asOf, cutoff))) :
            Go(g, [m EXCEPT !.step = "built", !.source = manifestOf,
                     !.actionable = {[market |-> c.market, side |-> c.side,
                                      book |-> table[c.market].book] : c \in top}])
    BY <1>1, Zenon DEF BuildDigest
  <1>3. PICK top \in TopCandidates(table, BestSides(table, Admitted(table, asOf, cutoff))) :
            Go(g, [m EXCEPT !.step = "built", !.source = manifestOf,
                     !.actionable = {[market |-> c.market, side |-> c.side,
                                      book |-> table[c.market].book] : c \in top}])
    BY <1>2, Zenon
  <1>4. PICK actionable : actionable = {[market |-> c.market, side |-> c.side,
                                         book |-> table[c.market].book] : c \in top}
    OBVIOUS
  <1> DEFINE after == [m EXCEPT !.step = "built", !.source = manifestOf,
                               !.actionable = actionable]
  <1>5. Go(g, after)
    BY <1>3, <1>4, Zenon
  <1>6. /\ m.step = "judged" /\ m.checksPassed
        /\ UNCHANGED <<snapshots, manifestOf, gzipOf, hour, copies, disturbed>>
    BY DEF BuildDigest, disk
  <1>7. g \in Running
    BY <1>6, Runs
  <1>8. /\ DOMAIN m = ReportFields /\ m.of \in 1..manifestOf /\ m.asOf \in Nat
        /\ manifestOf \in Nat
    BY <1>6, <1>7, AtWork
  <1>9. quote \in Nat /\ asOf \in Nat
    <2>1. snapshots[manifestOf] \in SnapshotRecords
      BY DEF PilotInv, PilotTypes
    <2>. QED
      BY <1>1, <1>8, <2>1 DEF SnapshotRecords
  <1>10. g \notin disturbed => m.of = manifestOf /\ m.gzipMatches
    BY <1>6, <1>7 DEF PilotInv, LonelyFit
  <1>11. CopiesFit'
    BY <1>6 DEF PilotInv, CopiesFit
  <1>. HIDE DEF m
  <1>12. /\ Cardinality(actionable) <= MAX_CANDIDATES
         /\ \A c \in actionable :
              /\ c.book <= asOf /\ asOf - c.book <= CANDIDATE_MAX_AGE
              /\ \A d \in actionable : d.market = c.market => d = c
    BY <1>4, <1>9, DigestIsFresh
  <1>13. /\ DOMAIN after = ReportFields /\ after.step = "built" /\ after.of = m.of
         /\ after.asOf = asOf /\ asOf = m.asOf /\ after.actionable = actionable
         /\ after.source = manifestOf
         /\ after.gzipMatches = m.gzipMatches /\ after.checksPassed = m.checksPassed
    BY <1>1, <1>8 DEF ReportFields, m
  <1>14. after.source >= after.of
    BY <1>8, <1>13
  <1>. HIDE DEF after
  <1>. QED
    BY <1>5, <1>6, <1>7, <1>8, <1>10, <1>11, <1>12, <1>13, <1>14, StepHolds DEF m

LEMMA PilotStart == ASSUME PilotInit PROVE PilotInv
  <1>1. Running = {} /\ DOMAIN generator = Generators
    BY DEF PilotInit, Running
  <1>2. /\ snapshots = << [cutoff |-> 0, quote |-> 0, fit |-> TRUE] >>
        /\ manifestOf = 1 /\ gzipOf = 1 /\ hour = 0 /\ copies = [s \in 1..MaxSnapshots |-> {}]
    BY DEF PilotInit
  <1>3. [cutoff |-> 0, quote |-> 0, fit |-> TRUE] \in SnapshotRecords
    BY DEF SnapshotRecords
  <1>4. snapshots \in Seq(SnapshotRecords) /\ Len(snapshots) = 1
    BY <1>2, <1>3
  <1>5. 1 \in 1..MaxSnapshots
    BY PilotAssumption
  <1>. QED
    BY <1>1, <1>2, <1>4, <1>5
    DEF PilotInv, PilotTypes, CopiesFit, CopiersFit, LonelyFit, ActionableIsFresh, Built

LEMMA PilotStep == ASSUME PilotInv, [PilotNext]_pilotVars PROVE PilotInv'
  <1>1. CASE UNCHANGED pilotVars
    BY <1>1 DEF pilotVars, PilotInv, PilotTypes, CopiesFit, CopiersFit, LonelyFit,
                ActionableIsFresh, Running, Built, InTime, HasAge
  <1>2. ASSUME NEW g \in Generators, FailToOpen(g) \/ SendReport(g) \/ DieReporting(g)
        PROVE  PilotInv'
    BY <1>2, EndHolds DEF FailToOpen, SendReport, DieReporting, disk
  <1>3. ASSUME NEW g \in Generators, NEW kind \in Kinds, NEW h \in {FALSE, kind = "daily"},
               StartReport(g, kind, h)
        PROVE  PilotInv'
    <2>1. h \in BOOLEAN
      OBVIOUS
    <2>. QED
      BY <1>3, <2>1, StartHolds
  <1>. QED
    BY <1>1, <1>2, <1>3, HourHolds, PublishGzipHolds, PublishManifestHolds, ReadHolds,
       MaterialiseHolds, CopyHolds, EvaluateHolds, RefuseHolds, DigestHolds, ReviewHolds
    DEF PilotNext

\* For any generators, markets, publications and deaths: what a report calls actionable
\* is one fresh side of a market each, no more than the cap, of figures no older than
\* its label; and a sound snapshot within its limits is refused only to a generator that
\* was not alone with the files, or where a death left half a copy (pilot/gate.py,
\* pilot/digest.py).
THEOREM ReportsHold == PilotSpec => []ReportsAreEarned
  <1>1. PilotInv => ReportsAreEarned
    BY ReportsTrue
  <1>. QED
    BY <1>1, PilotStart, PilotStep, PTL DEF PilotSpec

=============================================================================
