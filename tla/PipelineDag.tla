---------------------------- MODULE PipelineDag ----------------------------
(***************************************************************************)
(* The job DAG of packages/shared/src/pmvl_shared/pipeline_dag.py: which   *)
(* job waits for which, whose partial output it tolerates, and which jobs  *)
(* gate a publication.  The table is a parameter; the one PIPELINE holds   *)
(* stands at the end.                                                      *)
(***************************************************************************)
EXTENDS Naturals, FiniteSets

CONSTANTS
    Jobs,                   \* the names in PIPELINE
    DependsOn,              \* [Jobs -> SUBSET Jobs], depends_on
    AcceptsPartialFrom,     \* [Jobs -> SUBSET Jobs], accepts_partial_from
    MayPartiallySucceed,    \* jobs whose PARTIAL_SUCCESS still publishes
    RequiredForPublication, \* jobs whose failure stops publication
    NameRank                \* [Jobs -> Nat], the alphabetical order of names

\* JobStatus, the members a job of this run can be given.
JobStatuses == {"success", "partial_success", "failed", "running"}

ProducedUsableOutput(status) == status \in {"success", "partial_success"}

\* The jobs execution_order has resolved after its first n batches.
Resolved[n \in 0..Cardinality(Jobs)] ==
    IF n = 0 THEN {}
    ELSE LET earlier == Resolved[n-1] IN
         {j \in Jobs : DependsOn[j] \subseteq earlier}

\* The batch of execution_order in which a job becomes ready.
Batch ==
    [j \in Jobs |-> CHOOSE n \in 1..Cardinality(Jobs) :
                        j \in Resolved[n] \ Resolved[n-1]]

Before(a, b) ==
    \/ Batch[a] < Batch[b]
    \/ Batch[a] = Batch[b] /\ NameRank[a] < NameRank[b]

ExecutionOrder ==
    [i \in 1..Cardinality(Jobs) |->
        CHOOSE j \in Jobs : Cardinality({k \in Jobs : Before(k, j)}) = i - 1]

\* An upstream status that the edge from dependency to job lets through.
Accepted(job, dependency, statuses) ==
    /\ dependency \in DOMAIN statuses
    /\ IF statuses[dependency] = "partial_success"
       THEN dependency \in AcceptsPartialFrom[job]
       ELSE ProducedUsableOutput(statuses[dependency])

\* blocking_reason(job, statuses) is not None.
Blocked(job, statuses) ==
    \E d \in DependsOn[job] : ~Accepted(job, d, statuses)

\* publication_blockers: the required jobs that forbid publishing.
\* Mutant: a job that never ran is not looked at.
PublicationBlockersOfRun(statuses) ==
    {j \in RequiredForPublication \cap DOMAIN statuses :
        ~ProducedUsableOutput(statuses[j])}

PublicationBlockers(statuses) ==
    {j \in RequiredForPublication :
        \/ j \notin DOMAIN statuses
        \/ statuses[j] = "partial_success" /\ j \notin MayPartiallySucceed
        \/ ~ProducedUsableOutput(statuses[j])}

ASSUME DagAssumption ==
    /\ IsFiniteSet(Jobs)
    /\ DependsOn \in [Jobs -> SUBSET Jobs]
    /\ AcceptsPartialFrom \in [Jobs -> SUBSET Jobs]
    /\ MayPartiallySucceed \subseteq Jobs
    /\ RequiredForPublication \subseteq Jobs
    /\ NameRank \in [Jobs -> Nat]

\* execution_order yields every job once (it pops each from pending).
ASSUME OrderAssumption ==
    /\ \A i \in DOMAIN ExecutionOrder : i \in Nat /\ ExecutionOrder[i] \in Jobs
    /\ \A i, k \in DOMAIN ExecutionOrder :
          ExecutionOrder[i] = ExecutionOrder[k] => i = k

-----------------------------------------------------------------------------
(* The table PIPELINE itself. *)

Product == {"ingest", "orderbooks", "settle", "score", "rank", "arbitrage",
            "snapshot"}

Collection == {"map_stations", "forecast_observations", "station_observations",
               "collection_health", "research_trades", "research_books"}

PipelineJobs == Product \cup Collection \cup {"backtest", "prune"}

PipelineDependsOn ==
    [j \in PipelineJobs |->
        CASE j \in {"orderbooks", "settle", "map_stations"} -> {"ingest"}
          [] j = "score" -> {"ingest", "orderbooks"}
          [] j = "rank" -> {"score"}
          [] j = "arbitrage" -> {"orderbooks"}
          [] j = "snapshot" -> {"rank"}
          [] j = "backtest" -> {"snapshot", "settle"}
          [] j \in {"forecast_observations", "station_observations",
                    "collection_health"} -> {"map_stations"}
          [] j = "research_trades" -> {"ingest", "map_stations"}
          [] j = "research_books" -> {"orderbooks", "map_stations"}
          [] j \in {"ingest", "prune"} -> {}]

\* Every edge tolerates a partial upstream except those into settle,
\* snapshot and backtest, and those out of map_stations.
PipelineAcceptsPartialFrom ==
    [j \in PipelineJobs |->
        IF j \in {"settle", "snapshot", "backtest"} THEN {}
        ELSE PipelineDependsOn[j] \ {"map_stations"}]

PipelineMayPartiallySucceed ==
    {"ingest", "orderbooks", "score", "forecast_observations",
     "station_observations", "research_trades", "research_books"}

Alphabetical ==
    <<"arbitrage", "backtest", "collection_health", "forecast_observations",
      "ingest", "map_stations", "orderbooks", "prune", "rank",
      "research_books", "research_trades", "score", "settle", "snapshot",
      "station_observations">>

PipelineNameRank ==
    [j \in PipelineJobs |-> CHOOSE i \in DOMAIN Alphabetical : Alphabetical[i] = j]
=============================================================================
