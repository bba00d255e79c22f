---------------------------- MODULE WorkerSchedule ----------------------------
(***************************************************************************)
(* The resident worker's schedule (services/worker: scheduler.py), the daily  *)
(* sequence of the command line beside it (cli.py: pipeline), and what the    *)
(* status page tells of both from the runs they leave                        *)
(* (services/api: pipeline_status.py, shared/cadence.py).                    *)
(*                                                                         *)
(* Triggers live in the worker's memory: a restart begins every interval     *)
(* again and forgets what fell due while it was down.  A body runs under     *)
(* the lease of its key, of which only this is kept: one that lives refuses   *)
(* another, and one that is dead does so until LeaseStale.                   *)
(***************************************************************************)
EXTENDS Integers, Sequences

CONSTANTS
    Followed,     \* sets of jobs a behaviour is followed for; jobs share only the clock
    Every,        \* job |-> its period
    At,           \* daily jobs |-> their time of day
    Grace,        \* job |-> misfire_grace_time
    StallAfter,   \* daily jobs |-> stall_after_seconds
    StallFloor,   \* the least stall threshold (600 s)
    Daily,        \* the sequence of pmvl pipeline
    Late,         \* how late a worker that is not suspended wakes a job
    LeaseStale,   \* when the lease of a dead run is taken over
    LastHour,     \* bound: the clock
    MaxTroubles   \* bound: stops, deaths, failures and suspensions

Scheduled == DOMAIN Every

ASSUME ScheduleAssumption ==
    /\ \A j \in Scheduled : Every[j] \in Nat \ {0} /\ Grace[j] \in Nat
    /\ \A js \in Followed : js \subseteq Scheduled
    /\ DOMAIN At \subseteq Scheduled /\ DOMAIN At = DOMAIN StallAfter
    /\ \A j \in Scheduled : Late <= Every[j]
    /\ \A j \in DOMAIN At : /\ At[j] \in 0..(Every[j] - 1)
                           /\ StallAfter[j] \in Nat /\ StallAfter[j] > Every[j] + Late
    /\ Daily \in Seq(Scheduled)
    /\ \A i \in DOMAIN Daily : Daily[i] = "backtest" =>
          \E k \in 1..(i - 1) : Daily[k] = "snapshot"
    /\ \A js \in Followed : "backtest" \in js =>
          /\ {"snapshot", "backtest"} \subseteq js \cap DOMAIN At
          /\ Every["snapshot"] = Every["backtest"] /\ At["snapshot"] # At["backtest"]
    /\ {Late, LeaseStale, LastHour, MaxTroubles, StallFloor} \subseteq Nat

VARIABLES
    followed,
    hour,
    up,       \* the worker's scheduler runs
    due,      \* job |-> next_run_time
    body,     \* job |-> the run that holds its lease, if any
    newest,   \* job |-> started_at of its newest completed run, if any
    manual,   \* what is left of the one sequence run by hand, and when it began
    started,  \* history: when the worker came up
    lost,     \* history: job |-> the fires since then that no completed run came of
    records,  \* history: what the backtests found of the day's record
    troubles

scheduleVars ==
    <<followed, hour, up, due, body, newest, manual, started, lost, records, troubles>>

-----------------------------------------------------------------------------
(* Triggers *)

\* The first fire of a trigger: one period from now, or the next time of day.
FirstFire(j) ==
    IF j \notin DOMAIN At THEN hour + Every[j]
    ELSE CHOOSE t \in hour..(hour + Every[j] - 1) : t % Every[j] = At[j]

\* coalesce: the fires that fell due are one, the latest of them.
LatestFire(j) == due[j] + ((hour - due[j]) \div Every[j]) * Every[j]

\* The fires of a job that is due at the same time of every period.
Fires(j, from, to) == {t \in from..to : t % Every[j] = due[j] % Every[j]}

\* What a worker that is down knows.
NoFires == [j \in Scheduled |-> 0]
NoneLost == [j \in Scheduled |-> {}]

ScheduleInit ==
    /\ followed \in Followed
    /\ hour = 0 /\ up = FALSE
    /\ due = NoFires
    /\ body = [j \in Scheduled |-> {}]
    /\ newest = [j \in Scheduled |-> {}]
    /\ manual = [todo |-> <<>>, begun |-> {}]
    /\ started = 0 /\ lost = NoneLost
    /\ records = {} /\ troubles = 0

\* build_scheduler, and start.
StartWorker ==
    /\ ~up
    /\ up' = TRUE
    /\ due' = [j \in Scheduled |-> FirstFire(j)]
    /\ started' = hour /\ lost' = NoneLost
    /\ UNCHANGED <<followed, hour, body, newest, manual, records, troubles>>

Trouble == troubles < MaxTroubles /\ troubles' = troubles + 1

\* A signal: no fire is made any more, bodies under way go on to their end.
StopWorker ==
    /\ up /\ Trouble
    /\ up' = FALSE /\ due' = NoFires /\ lost' = NoneLost
    /\ body' = [j \in Scheduled |->
                  {IF b.by = "worker" THEN [b EXCEPT !.by = "leaving"] ELSE b : b \in body[j]}]
    /\ UNCHANGED <<followed, hour, newest, manual, started, records>>

\* The worker dies: its bodies with it, and their rows stay.
WorkerDies ==
    /\ up /\ Trouble
    /\ up' = FALSE /\ due' = NoFires /\ lost' = NoneLost
    /\ body' = [j \in Scheduled |->
                  {IF b.by = "worker" THEN [b EXCEPT !.by = "dead"] ELSE b : b \in body[j]}]
    /\ UNCHANGED <<followed, hour, newest, manual, started, records>>

-----------------------------------------------------------------------------
(* Runs *)

Claimable(j) == \A b \in body[j] : b.by = "dead" /\ hour - b.since >= LeaseStale

Running(j, who) == \E b \in body[j] : b.by = who

\* What a backtest finds: the record of the day whose snapshot fell due since then,
\* and whether the snapshot gave it reason to expect one.
Found(since, expected) ==
    [whole |-> \E t \in newest["snapshot"] : t >= since, expected |-> expected]

\* From the snapshot's time of day to the backtest's, which may be past midnight.
DailyGap ==
    (At["backtest"] - At["snapshot"] + Every["backtest"]) % Every["backtest"]

\* The fire that a run of the worker answers is its last one.
Answers(b, j, t) == b.by = "worker" /\ t <= b.since /\ b.since < t + Every[j]

RunBody(j, who) == body' = [body EXCEPT ![j] = {[by |-> who, since |-> hour]}]

\* The scheduler wakes for the job that fell due first.  It is passed over when its
\* last instance still runs, when the fire is older than its grace, or when another
\* process holds the lease, which the guard around every job takes for no failure.
WakeJob(j) ==
    /\ up /\ due[j] <= hour
    /\ \A k \in followed : due[j] <= due[k]
    /\ due' = [due EXCEPT ![j] = LatestFire(j) + Every[j]]
    /\ IF ~Running(j, "worker") /\ hour - LatestFire(j) <= Grace[j] /\ Claimable(j)
       THEN /\ RunBody(j, "worker")
            /\ LET dueAt == LatestFire("backtest") - DailyGap IN
               records' = IF j # "backtest" THEN records
                          ELSE records \cup {Found(dueAt, /\ due[j] = LatestFire(j)
                                                          /\ started < dueAt
                                                          /\ dueAt \notin lost["snapshot"]
                                                          /\ ~Running("snapshot", "worker"))}
            /\ lost' = [lost EXCEPT ![j] = @ \cup Fires(j, due[j], LatestFire(j) - 1)]
       ELSE /\ lost' = [lost EXCEPT ![j] = @ \cup Fires(j, due[j], LatestFire(j))]
            /\ UNCHANGED <<body, records>>
    /\ UNCHANGED <<followed, hour, up, newest, manual, started, troubles>>

\* A body ends, and its row with it; what it raises ends neither the worker nor its
\* other jobs, but it ends the sequence of a command line.
EndBody(j) ==
    /\ \E b \in body[j] : b.by # "dead"
         /\ body' = [body EXCEPT ![j] = {}]
         /\ \/ /\ newest' = [newest EXCEPT ![j] = {b.since}]
               /\ manual' = IF b.by = "cli" THEN [manual EXCEPT !.todo = Tail(@)] ELSE manual
               /\ UNCHANGED <<lost, troubles>>
            \/ /\ Trouble
               /\ lost' = [lost EXCEPT ![j] = @ \cup {t \in Fires(j, 0, hour) : Answers(b, j, t)}]
               /\ manual' = IF b.by = "cli" THEN [manual EXCEPT !.todo = <<>>] ELSE manual
               /\ UNCHANGED newest
    /\ UNCHANGED <<followed, hour, up, due, started, records>>

\* pmvl pipeline, where its jobs are followed.
BeginSequence ==
    /\ manual.begun = {}
    /\ \A i \in DOMAIN Daily : Daily[i] \in followed
    /\ manual' = [todo |-> Daily, begun |-> {hour}]
    /\ UNCHANGED <<followed, hour, up, due, body, newest, started, lost, records, troubles>>

\* Its next job runs, or is skipped: then nothing of the sequence is left.
NextOfSequence ==
    /\ manual.todo # <<>>
    /\ LET j == Head(manual.todo) IN
       /\ ~Running(j, "cli")
       /\ IF Claimable(j)
          THEN /\ RunBody(j, "cli")
               /\ records' = IF j # "backtest" THEN records
                             ELSE records \cup {Found(CHOOSE t \in manual.begun : TRUE, TRUE)}
               /\ UNCHANGED manual
          ELSE /\ manual' = [manual EXCEPT !.todo = <<>>]
               /\ UNCHANGED <<body, records>>
    /\ UNCHANGED <<followed, hour, up, due, newest, started, lost, troubles>>

\* A command line that is killed leaves its row too.
CommandDies ==
    /\ Trouble
    /\ \E j \in followed : Running(j, "cli")
         /\ body' = [body EXCEPT ![j] = {[b EXCEPT !.by = "dead"] : b \in @}]
    /\ manual' = [manual EXCEPT !.todo = <<>>]
    /\ UNCHANGED <<followed, hour, up, due, newest, started, lost, records>>

-----------------------------------------------------------------------------
(* The clock: a worker that is not suspended wakes its jobs in time. *)

Overdue(j) == up /\ due[j] + Late <= hour

TickSchedule ==
    /\ hour < LastHour
    /\ \A j \in followed : ~Overdue(j)
    /\ hour' = hour + 1
    /\ UNCHANGED <<followed, up, due, body, newest, manual, started, lost, records, troubles>>

Suspend ==
    /\ Trouble
    /\ \E hours \in 2..3 : hour + hours <= LastHour /\ hour' = hour + hours
    /\ UNCHANGED <<followed, up, due, body, newest, manual, started, lost, records>>

ScheduleNext ==
    \/ StartWorker \/ StopWorker \/ WorkerDies
    \/ \E j \in followed : WakeJob(j) \/ EndBody(j)
    \/ BeginSequence \/ NextOfSequence \/ CommandDies
    \/ TickSchedule \/ Suspend

ScheduleSpec == ScheduleInit /\ [][ScheduleNext]_scheduleVars

-----------------------------------------------------------------------------
(* The status page of a deployment with a resident worker *)

AtLeast(a, b) == IF a >= b THEN a ELSE b

\* Mutant of ThresholdOf: one period, so that a single late run is an outage.
OnePeriod(j) == IF j \in DOMAIN StallAfter THEN Every[j] ELSE AtLeast(Every[j], StallFloor)

\* Cadence.stall_threshold_seconds
ThresholdOf(j) ==
    IF j \in DOMAIN StallAfter THEN StallAfter[j] ELSE AtLeast(3 * Every[j], StallFloor)

\* job_status: the newest completed run decides.
StatusOf(j) ==
    IF \E t \in newest[j] : hour - t <= ThresholdOf(j) THEN "active" ELSE "stalled"

\* scheduler_status
Overall == IF \E j \in followed : StatusOf(j) = "stalled" THEN "stalled" ELSE "active"

-----------------------------------------------------------------------------
(* Properties *)

\* A daily job is stalled when it misses a day, and may take what is left of its
\* threshold; another when it misses three intervals.
Leeway(j) == IF j \in DOMAIN At THEN StallAfter[j] - Every[j] ELSE 0
Missable(j) == IF j \in DOMAIN At THEN Every[j] ELSE 3 * Every[j]

CameToNothing(j, t) ==
    t \in lost[j] \/ t >= due[j] \/ \E b \in body[j] : Answers(b, j, t)

\* A worker that has been up for long enough is called stalled for a job only when one
\* fire after the other came to nothing, three of a job that repeats, so that "a single
\* skipped tick", which "is normal", does "not read as an outage" (cadence.py:131-133,
\* 165): each was lost, passed over, coalesced away, its run failed or is still under
\* way, or the worker has yet to take it.
StalledIsEarned ==
    up /\ Overall = "stalled" =>
        \E j \in followed :
            /\ StatusOf(j) = "stalled"
            /\ \/ hour - started <= Missable(j) + Leeway(j)
               \/ \A t \in Fires(j, hour - Missable(j) - Leeway(j) + 1, hour - Leeway(j)) :
                     CameToNothing(j, t)

\* "Backtest after the snapshot, so the day's record is included" (scheduler.py:129):
\* so it is, if no fire of the backtest was lost just before, the worker was up when the
\* snapshot fell due, that fire was not lost nor did its run fail, and it does not run
\* any more; and always in a sequence run by hand.
DayIsIncluded == \A r \in records : r.expected => r.whole

\* What the worker and its page promise of the schedule, whatever stops, dies, fails,
\* overruns, is suspended or is run by hand beside it.
ScheduleIsKept == StalledIsEarned /\ DayIsIncluded
================================================================================
