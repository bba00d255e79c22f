----------------------------- MODULE ScanReport -----------------------------
(***************************************************************************)
(* What a reader is told of the arbitrage scans (services/api: arbitrage.py, *)
(* health.py, pipeline_status.py).                                         *)
(*                                                                         *)
(* A scan commits its opportunities in one transaction and its run's        *)
(* outcome in another; a run that lost its lease goes on to both.  The     *)
(* endpoint reads the newest row, the newest completed run, the newest run *)
(* of any status, and the newest completed run again, each as it stands    *)
(* when it is read.                                                        *)
(***************************************************************************)
EXTENDS Integers, FiniteSets

CONSTANTS
  Deployments, \* the modes an API may be deployed in
  MaxScans,  \* bound: scans
  LastTime,  \* bound: the clock
  Interval,  \* of the arbitrage cadence
  PUBLISHER_INTERVAL,
  Floor,     \* the least stall threshold
  HardStale  \* of DataType.ARBITRAGE_SCAN

Modes == {"automated_snapshot_pipeline", "continuous_live_pipeline",
          "read_only_snapshot", "local_development"}

ASSUME ReportAssumption ==
  /\ Deployments \subseteq Modes
  /\ MaxScans \in Nat \ {0} /\ LastTime \in Nat
  /\ Interval \in Nat /\ PUBLISHER_INTERVAL \in Nat
  /\ Floor \in Nat /\ HardStale \in Nat

Scans == 1..MaxScans   \* in the order of started_at

NotYet == 0
Unknown == [found |-> FALSE]
Known(x) == [found |-> TRUE, is |-> x]

VARIABLES
  deployment, \* DeploymentMode of the API
  now,
  status,     \* scan |-> of its job_runs row; "none" before it is claimed
  startedAt,  \* scan |-> the clock when it was claimed
  began,      \* scan |-> its place in the order of created_at
  found,      \* scan |-> what it committed: "nothing", "some" or "pending"
  dead,       \* processes that died
  answer      \* of the endpoint, as far as it has got

reportVars == <<deployment, now, status, startedAt, began, found, dead, answer>>

scanVars == <<status, startedAt, began, found, dead>>

\* An endpoint that has read nothing.
Blank == [at |-> "rows", row |-> Unknown, visible |-> {}, run |-> Unknown,
          completed |-> {}, age |-> Unknown, cause |-> "none"]

ReportInit ==
  /\ deployment \in Deployments
  /\ now = 0
  /\ status = [s \in Scans |-> "none"]
  /\ startedAt = [s \in Scans |-> 0]
  /\ began = [s \in Scans |-> NotYet]
  /\ found = [s \in Scans |-> "pending"]
  /\ dead = {}
  /\ answer = Blank

-----------------------------------------------------------------------------
(* The scans. *)

Claimed == {s \in Scans : status[s] # "none"}

\* Runs whose process goes on, whatever their rows say.
Alive == {s \in Claimed : status[s] \in {"running", "interrupted"}} \ dead

\* job_run claims: runs whose heartbeat is stale, dead or stalled, are interrupted.
ClaimScan(s) ==
  /\ s = Cardinality(Claimed) + 1
  /\ status' = [r \in Scans |-> IF r = s THEN "running"
                                ELSE IF status[r] = "running" THEN "interrupted"
                                ELSE status[r]]
  /\ startedAt' = [startedAt EXCEPT ![s] = now]
  /\ UNCHANGED <<deployment, now, began, found, dead, answer>>

\* run_arbitrage_scan reads the clock its rows will carry.
BeginScan(s) ==
  /\ s \in Alive /\ began[s] = NotYet
  /\ began' = [began EXCEPT ![s] = Cardinality({r \in Scans : began[r] # NotYet}) + 1]
  /\ UNCHANGED <<deployment, now, status, startedAt, found, dead, answer>>

\* persist_opportunities, and session_scope commits.
CommitScan(s) ==
  /\ s \in Alive /\ began[s] # NotYet /\ found[s] = "pending"
  /\ \E f \in {"nothing", "some"} : found' = [found EXCEPT ![s] = f]
  /\ UNCHANGED <<deployment, now, status, startedAt, began, dead, answer>>

\* The terminal write, by primary key and whatever the row said.
EndScan(s) ==
  /\ s \in Alive
  /\ \/ found[s] # "pending" /\ status' = [status EXCEPT ![s] = "success"]
     \/ found[s] = "pending" /\ status' = [status EXCEPT ![s] = "failed"]
  /\ UNCHANGED <<deployment, now, startedAt, began, found, dead, answer>>

DieScan(s) ==
  /\ s \in Alive
  /\ dead' = dead \cup {s}
  /\ UNCHANGED <<deployment, now, status, startedAt, began, found, answer>>

TickReport ==
  /\ now < LastTime
  /\ now' = now + 1
  /\ UNCHANGED <<deployment, answer, scanVars>>

-----------------------------------------------------------------------------
(* The endpoint. *)

Completed == {s \in Scans : status[s] = "success"}

\* The member of S that is newest by the order f.
NewestBy(S, f) ==
  IF S = {} THEN Unknown
  ELSE Known(CHOOSE s \in S : \A r \in S : f[r] <= f[s])

ByStart == [s \in Scans |-> s]

HasRows == {s \in Scans : found[s] = "some"}

ReadRows ==
  /\ answer.at = "rows"
  /\ answer' = [Blank EXCEPT !.at = "run", !.visible = HasRows,
                             !.row = NewestBy(HasRows, began)]
  /\ UNCHANGED <<deployment, now, scanVars>>

ReadRun ==
  /\ answer.at = "run"
  /\ answer' = [answer EXCEPT !.at = "diagnostics", !.completed = Completed,
                              !.run = NewestBy(Completed, ByStart)]
  /\ UNCHANGED <<deployment, now, scanVars>>

\* _matching_diagnostics: the newest run, if its details hold a histogram.
ReadDiagnostics ==
  /\ answer.at = "diagnostics"
  /\ LET newest == NewestBy(Claimed, ByStart) IN
       answer' = [answer EXCEPT !.at = "health", !.age =
                    IF newest.found /\ status[newest.is] = "success"
                    THEN Known(now - startedAt[newest.is]) ELSE Unknown]
  /\ UNCHANGED <<deployment, now, scanVars>>

RunsScheduledJobs ==
  deployment \in {"automated_snapshot_pipeline", "continuous_live_pipeline"}

Larger(a, b) == IF a >= b THEN a ELSE b

EffectiveCadence ==
  IF deployment = "continuous_live_pipeline" THEN Interval
  ELSE Larger(Interval, PUBLISHER_INTERVAL)

StallThreshold == Larger(3 * EffectiveCadence, Floor)

\* job_status: no completed run within the threshold of the effective period.
Stalled == ~ \E s \in Completed : now - startedAt[s] <= StallThreshold

\* assess: an age that is unknown is not usable.
UsableScan(age) == age.found /\ age.is <= HardStale

\* classify_empty_result, and the answer is complete.
ReadHealth ==
  /\ answer.at = "health"
  /\ answer' = [answer EXCEPT !.at = "told", !.cause =
       IF ~ RunsScheduledJobs THEN "serving_frozen_snapshot"
       ELSE IF Stalled THEN "pipeline_did_not_run"
       ELSE IF ~ UsableScan(answer.age) THEN "stale_or_incomplete"
       ELSE "zero_opportunities"]
  /\ UNCHANGED <<deployment, now, scanVars>>

\* Mutant of FoundNothing: the newest row decides, whatever scan came after it.
FoundNothingIfNoRows(a) == ~ a.row.found

\* _latest_batch: the newest completed scan is not the one the newest row came from.
FoundNothing(a) == a.run.found /\ a.run # a.row

\* The scan whose opportunities are listed.
Listed(a) == IF FoundNothing(a) THEN Unknown ELSE a.row

ReportNext ==
  \/ TickReport
  \/ \E s \in Scans : ClaimScan(s) \/ BeginScan(s) \/ CommitScan(s) \/ EndScan(s)
                      \/ DieScan(s)
  \/ ReadRows \/ ReadRun \/ ReadDiagnostics \/ ReadHealth

ReportSpec == ReportInit /\ [][ReportNext]_reportVars

-----------------------------------------------------------------------------
(* Properties. *)

ReportTypeOK ==
  /\ deployment \in Deployments /\ now \in 0..LastTime
  /\ status \in [Scans -> {"none", "running", "success", "failed", "interrupted"}]
  /\ startedAt \in [Scans -> 0..LastTime]
  /\ began \in [Scans -> 0..MaxScans]
  /\ found \in [Scans -> {"pending", "nothing", "some"}]
  /\ dead \subseteq Scans
  /\ answer.at \in {"rows", "run", "diagnostics", "health", "told"}

\* One request is followed: it may begin at any time.
Told == answer.at = "told"

\* An answer never lists the opportunities of a scan that a later one, completed
\* when the runs were read, established to be gone.
GoneStaysGone ==
  LET listed == Listed(answer) IN
  Told /\ listed.found => \A s \in answer.completed : s <= listed.is

\* Rows that no completed scan, or only one that overlapped the newest, accounts for.
Unaccounted(s) ==
  s \notin answer.completed \/ began[s] > began[answer.run.is]

\* "The most recent arbitrage scan completed and found nothing": it did, or rows
\* came between the two reads, or the newest rows are of a run that had not
\* written its outcome, or of one that went on after it lost its lease.
EmptyIsEarned ==
  Told /\ FoundNothing(answer) => answer.run.found /\
    LET scan == answer.run.is IN
    \/ found[scan] = "nothing"
    \/ scan \notin answer.visible
    \/ answer.row.found /\ Unaccounted(answer.row.is)

\* An empty list is called a finding of a running pipeline only if the newest run,
\* when it was looked at, was a completed scan young enough to speak for now.
FindingIsFresh ==
  Told /\ answer.cause = "zero_opportunities" =>
    answer.age.found /\ answer.age.is <= HardStale /\ Completed # {}

ScansAreReportedTruly == GoneStaysGone /\ EmptyIsEarned /\ FindingIsFresh

=============================================================================
