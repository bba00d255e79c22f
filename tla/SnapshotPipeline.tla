-------------------------- MODULE SnapshotPipeline --------------------------
(***************************************************************************)
(* One run of scripts/run_automated_snapshot_pipeline.py, and the publish  *)
(* job of .github/workflows/pipeline.yml that may follow it: the jobs in   *)
(* DAG order with the job_runs rows they leave, the publication gate, the  *)
(* candidate and its agreement with the report, the hand-over and the exit *)
(* code.                                                                   *)
(*                                                                         *)
(* The run is one sequential process, so an action is one step of main.    *)
(* What is concurrent or fails is outside it: venues, the operational      *)
(* database, the build and validation subprocesses, the file system.  Each *)
(* failure costs one of MAX_FAULTS.                                        *)
(***************************************************************************)
EXTENDS PipelineDag

CONSTANTS
    Venues,      \* the platforms run_ingest fetches
    INGEST,      \* the job that reads them
    MAX_FAULTS   \* bound on the failures of one run

VARIABLES
    scope,       \* how the run was started, and from what parent
    pc,          \* where main is
    next,        \* position in execution_order
    statuses,    \* RunOutcome.statuses
    skipped,     \* RunOutcome.skipped, its keys
    rows,        \* latest job_runs status per job in the operational store
    outages,     \* venues that failed in this run's ingest
    blocked,     \* RunOutcome.publication_blockers is not empty
    candidate,   \* latest job_runs status per job in the candidate
    disposition, \* RunOutcome.candidate_disposition
    report,      \* the JSON report was written
    exit,        \* the process' exit code
    published,   \* the published pair is this run's candidate
    faults

vars == <<scope, pc, next, statuses, skipped, rows, outages, blocked,
          candidate, disposition, report, exit, published, faults>>

Events == {"schedule", "workflow_dispatch", "pull_request"}

RowStatuses == JobStatuses \cup {"none"}

Dispositions == {"discarded", "uploaded_for_publish", "published", "not_built"}

ASSUME PipelineAssumption ==
    /\ INGEST \in Jobs
    /\ IsFiniteSet(Venues)
    /\ MAX_FAULTS \in Nat

\* resolve_scope: only a dispatch may publish, and only it or CI may start
\* from an empty database.  The workflow never passes INPUT_PUBLISH.
PublishInScope ==
    scope.event = "workflow_dispatch" /\ scope.wanted /\ ~scope.workflow

BootstrapAllowed == scope.event # "schedule"

\* RunOutcome.publication_eligible
PublicationEligible ==
    ~blocked /\ disposition \in {"uploaded_for_publish", "published"}

AnyFailed == \E j \in DOMAIN statuses : statuses[j] = "failed"

\* A parent's rows are whatever its own runs left: "inherited" stands for
\* all of them at once.
Init ==
    /\ scope \in [event : Events, wanted : BOOLEAN, workflow : BOOLEAN,
                  inherited : {"none", "success", "failed"}]
    /\ pc = "seed"
    /\ next = 1
    /\ statuses = <<>>
    /\ skipped = {}
    /\ rows = [j \in Jobs |-> scope.inherited]
    /\ outages = {}
    /\ blocked = FALSE
    /\ candidate = [j \in Jobs |-> "none"]
    /\ disposition = "not_built"
    /\ report = FALSE
    /\ exit = 0
    /\ published = FALSE
    /\ faults = 0

\* An exception that leaves main: no report, non-zero exit.
Abort ==
    /\ pc' = "aborted"
    /\ exit' = 1
    /\ UNCHANGED <<scope, next, statuses, skipped, rows, outages, blocked,
                   candidate, disposition, report, published>>

Fault == faults < MAX_FAULTS /\ faults' = faults + 1

\* initialise_operational_db, _bind_database and migrate.
Seed ==
    /\ pc = "seed"
    /\ \/ /\ scope.inherited = "none" => BootstrapAllowed
          /\ pc' = "jobs"
          /\ UNCHANGED <<scope, next, statuses, skipped, rows, outages,
                         blocked, candidate, disposition, report, exit,
                         published, faults>>
       \/ /\ scope.inherited = "none" /\ ~BootstrapAllowed
          /\ Abort
          /\ UNCHANGED faults
       \/ Abort /\ Fault

Current == ExecutionOrder[next]

SkipJob ==
    /\ pc = "jobs" /\ next \in DOMAIN ExecutionOrder
    /\ Blocked(Current, statuses)
    /\ skipped' = skipped \cup {Current}
    /\ next' = next + 1
    /\ UNCHANGED <<scope, pc, statuses, rows, outages, blocked, candidate,
                   disposition, report, exit, published, faults>>

\* What job_run records for a body that returned: RunRecord.is_partial asks
\* for a failed provider and a healthy one.
\* Mutant: the row is read back before its terminal write.
RecordedTooEarly(failed, reported) == "running"

RecordedStatus(failed, reported) ==
    IF failed # {} /\ failed # reported THEN "partial_success" ELSE "success"

\* The run's own row says so, or there is none and the parent's is the latest.
Finish(j, status, row) ==
    /\ statuses' = [k \in DOMAIN statuses \cup {j} |->
                        IF k = j THEN status ELSE statuses[k]]
    /\ rows' = [rows EXCEPT ![j] = row]
    /\ next' = next + 1
    /\ UNCHANGED <<scope, pc, skipped, blocked, candidate, disposition,
                   report, exit, published>>

Runnable(j) ==
    /\ pc = "jobs" /\ next \in DOMAIN ExecutionOrder
    /\ j = Current
    /\ ~Blocked(j, statuses)

\* Only ingest reports its providers: a venue with an error message, or that
\* returned no market, is a failed provider; one whose whole fetch raised is
\* missing from the record.
VenueOutcomes(j) ==
    {o \in [failed : SUBSET Venues, lost : SUBSET Venues] :
        /\ o.failed \cap o.lost = {}
        /\ j # INGEST => o.failed \cup o.lost = {}}

\* The body returns and its row is closed; _recorded_status reads it back.
JobReturns(j) ==
    /\ Runnable(j)
    /\ \E o \in VenueOutcomes(j) :
          LET down == o.failed \cup o.lost
              recorded == RecordedStatus(o.failed, Venues \ o.lost) IN
          /\ faults + Cardinality(down) <= MAX_FAULTS
          /\ faults' = faults + Cardinality(down)
          /\ outages' = outages \cup down
          /\ Finish(j, recorded, recorded)

\* The body raises: job_run records FAILED and re-raises.
JobRaises(j) ==
    /\ Runnable(j)
    /\ Fault
    /\ Finish(j, "failed", "failed")
    /\ UNCHANGED outages

\* The claim itself raises (the store cannot be written): no row of this run.
JobUnclaimed(j) ==
    /\ Runnable(j)
    /\ Fault
    /\ Finish(j, "failed", rows[j])
    /\ UNCHANGED outages

\* The terminal write raises: the row stays running, whatever the body did.
JobUnclosed(j) ==
    /\ Runnable(j)
    /\ Fault
    /\ Finish(j, "failed", "running")
    /\ UNCHANGED outages

\* After the last job: publication_blockers and "did not run at all".
Gate ==
    /\ pc = "jobs" /\ next \notin DOMAIN ExecutionOrder
    /\ blocked' = ( \/ PublicationBlockers(statuses) # {}
                    \/ \E j \in Jobs : j \notin DOMAIN statuses \cup skipped )
    /\ pc' = IF blocked' THEN "report" ELSE "build"
    /\ UNCHANGED <<scope, next, statuses, skipped, rows, outages, candidate,
                   disposition, report, exit, published, faults>>

\* The PipelineError main catches: the report says why, and main returns 1.
BlockCandidate ==
    /\ blocked' = TRUE
    /\ report' = TRUE
    /\ exit' = 1
    /\ pc' = "finished"
    /\ UNCHANGED <<scope, next, statuses, skipped, rows, outages,
                   disposition, published>>

\* The candidate's job_runs agree with the report, and none is running.
\* Mutant: only the running rows are looked for.
CandidateTerminates(cand) ==
    \A j \in DOMAIN statuses : cand[j] # "running"

CandidateAgrees(cand) ==
    \A j \in DOMAIN statuses : cand[j] # "running" /\ cand[j] = statuses[j]

\* finalize_operational_database refuses a store with a job still running.
Finalizable == \A j \in DOMAIN statuses : rows[j] # "running"

\* build_and_validate_candidate.
Build ==
    /\ pc = "build"
    /\ \/ /\ Finalizable /\ CandidateAgrees(rows)
          /\ candidate' = rows
          /\ pc' = "deliver"
          /\ UNCHANGED <<scope, next, statuses, skipped, rows, outages,
                         blocked, disposition, report, exit, published, faults>>
       \/ /\ ~Finalizable
          /\ BlockCandidate
          /\ UNCHANGED <<candidate, faults>>
       \/ /\ Finalizable /\ ~CandidateAgrees(rows)
          /\ candidate' = rows
          /\ BlockCandidate
          /\ UNCHANGED faults
       \/ /\ Fault
          /\ BlockCandidate
          /\ UNCHANGED candidate

Deliver(d) ==
    /\ disposition' = d
    /\ published' = (d = "published")
    /\ pc' = "report"
    /\ UNCHANGED <<scope, next, statuses, skipped, rows, outages, blocked,
                   candidate, report, exit, faults>>

\* _emit_candidate: copies, writes a HELD manifest, verifies the bundle.
Emit == pc = "deliver" /\ scope.workflow /\ Deliver("uploaded_for_publish")

\* promote, for a local dispatch.
Promote ==
    /\ pc = "deliver" /\ ~scope.workflow /\ PublishInScope
    /\ Deliver("published")

Discard ==
    /\ pc = "deliver" /\ ~scope.workflow /\ ~PublishInScope
    /\ Deliver("discarded")

\* _emit_candidate and promote raise PipelineError outside main's try.
DeliverFails ==
    /\ pc = "deliver" /\ (scope.workflow \/ PublishInScope)
    /\ Abort /\ Fault

WriteReport ==
    /\ pc = "report"
    /\ report' = TRUE
    /\ exit' = IF AnyFailed THEN 1 ELSE 0
    /\ pc' = "finished"
    /\ UNCHANGED <<scope, next, statuses, skipped, rows, outages, blocked,
                   candidate, disposition, published, faults>>

\* The publish job of the workflow: its "if", then the commit and push.
PublishJobMayRun ==
    /\ scope.workflow /\ scope.event = "workflow_dispatch" /\ scope.wanted
    /\ exit = 0
    /\ report /\ PublicationEligible

Publish ==
    /\ pc = "finished"
    /\ PublishJobMayRun
    /\ published' = TRUE
    /\ pc' = "closed"
    /\ UNCHANGED <<scope, next, statuses, skipped, rows, outages, blocked,
                   candidate, disposition, report, exit, faults>>

\* The end: nothing is left to do, or the publish job was refused.
Over == pc \in {"finished", "closed", "aborted"} /\ UNCHANGED vars

Next ==
    \/ Seed \/ SkipJob
    \/ \E j \in Jobs :
          JobReturns(j) \/ JobRaises(j) \/ JobUnclaimed(j) \/ JobUnclosed(j)
    \/ Gate \/ Build \/ Emit \/ Promote \/ Discard \/ DeliverFails
    \/ WriteReport \/ Publish \/ Over

Spec == Init /\ [][Next]_vars
-----------------------------------------------------------------------------
TypeOK ==
    /\ scope \in [event : Events, wanted : BOOLEAN, workflow : BOOLEAN,
                  inherited : {"none", "success", "failed"}]
    /\ pc \in {"seed", "jobs", "build", "deliver", "report", "finished",
               "closed", "aborted"}
    /\ next \in Nat
    /\ DOMAIN statuses \subseteq Jobs
    /\ \A j \in DOMAIN statuses : statuses[j] \in JobStatuses \ {"running"}
    /\ skipped \subseteq Jobs
    /\ rows \in [Jobs -> RowStatuses]
    /\ outages \subseteq Venues
    /\ blocked \in BOOLEAN
    /\ candidate \in [Jobs -> RowStatuses]
    /\ disposition \in Dispositions
    /\ report \in BOOLEAN
    /\ exit \in {0, 1}
    /\ published \in BOOLEAN
    /\ faults \in 0..MAX_FAULTS

\* A job that ran had, and still has, every upstream in a state its edge
\* accepts: nothing that ran before it is re-judged, re-run or downgraded
\* (blocking_reason over execution_order).
UpstreamHonoured ==
    \A j \in DOMAIN statuses : \A d \in DependsOn[j] : Accepted(j, d, statuses)

\* What is published rests on a whole run: each required job ran, ended as its
\* spec allows, and consumed only upstreams its own edges accept; in
\* particular a track record is never graded on a partial ingest.
PublishedIsEarned ==
    published =>
        \A r \in RequiredForPublication :
            /\ r \in DOMAIN statuses
            /\ ProducedUsableOutput(statuses[r])
            /\ statuses[r] = "partial_success" => r \in MayPartiallySucceed
            /\ \A d \in DependsOn[r] : Accepted(r, d, statuses)

\* An artefact that left the run says of each of the run's jobs what the
\* report says, with none still running, even when the operational store lost
\* a row or a terminal write.
CandidateTellsTheRun ==
    disposition \in {"uploaded_for_publish", "published"} =>
        \A j \in DOMAIN statuses :
            candidate[j] = statuses[j] /\ candidate[j] # "running"

\* Nothing leaves a run but what its jobs earned, and it tells the truth of them:
\* both judgements are made from a report, and from a file some of whose terminal
\* writes may be missing.
PublicationIsHonest == PublishedIsEarned /\ CandidateTellsTheRun

=============================================================================
