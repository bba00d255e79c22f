------------------------------ MODULE JobLease ------------------------------
(***************************************************************************)
(* The run lease of services/worker/.../jobs.py: job_run, _claim_active_key *)
(* and the heartbeat thread, for the invocations of ONE idempotency key    *)
(* (rows of different keys never meet: every query filters on the key).    *)
(*                                                                         *)
(* An invocation is an element of Runs and owns at most one JobRun row.    *)
(* Timestamps are kept as ages: Tick makes every age one unit older, and   *)
(* an age stops growing at AgeCap, beyond which no comparison of the code  *)
(* can tell two ages apart.  A finished invocation whose row is closed may *)
(* be forgotten (Forget) and its identifier reused, so that a behaviour    *)
(* may contain infinitely many invocations.                                *)
(***************************************************************************)
EXTENDS Integers

LOCAL INSTANCE TLC

CONSTANTS
    Runs,           \* identifiers of invocations
    SQLITE,         \* TRUE: SQLite (one writer); FALSE: PostgreSQL
    HB_INTERVAL,    \* HEARTBEAT_INTERVAL
    HB_STALE,       \* HEARTBEAT_STALE_AFTER
    RUN_STALE,      \* ACTIVE_RUN_STALE_AFTER
    MAX_LAG,        \* bound: ticks a claim may take after `started` was read
    MAX_FAULTS      \* bound: crashes, stalls and lost writes in a behaviour

Nobody == "nobody"

ASSUME LeaseAssumption ==
    /\ SQLITE \in BOOLEAN
    /\ Nobody \notin Runs
    /\ HB_INTERVAL \in Nat /\ HB_STALE \in Nat /\ RUN_STALE \in Nat
    /\ HB_INTERVAL < HB_STALE
    /\ HB_STALE <= RUN_STALE
    /\ MAX_LAG \in Nat /\ MAX_LAG < RUN_STALE
    /\ MAX_FAULTS \in Nat

VARIABLES
    status,     \* status column of the invocation's row; "none": no row
    startAge,   \* age of `started`, which becomes the row's started_at
    beatAge,    \* age of heartbeat_at, or NoBeat for NULL
    pc,         \* where the invocation's main thread is
    hb,         \* the heartbeat: off, idle, or "writing" (row read, not written)
    stalled,    \* the invocation missed a whole HB_STALE without a beat
    doomed,     \* the stale rows the claimer listed, to be interrupted
    writer,     \* SQLite's write lock: the claimer that holds it, or Nobody
    faults      \* faults so far

vars == <<status, startAge, beatAge, pc, hb, stalled, doomed, writer, faults>>

NoBeat == -1
AgeCap == RUN_STALE + MAX_LAG
Ages   == 0..AgeCap

Closing  == {"returned", "raised", "cancelled"}
Claiming == {"starting", "judging", "listing", "superseding"}
Alive    == {"claimed", "running"} \cup Closing
PCs      == {"free", "done", "dead"} \cup Claiming \cup Alive
Outcomes == {"success", "partial_success", "failed"}
Closed   == Outcomes \cup {"skipped", "interrupted"}
Statuses == {"none", "running"} \cup Closed

TypeOK ==
    /\ status   \in [Runs -> Statuses]
    /\ startAge \in [Runs -> Ages]
    /\ beatAge  \in [Runs -> Ages \cup {NoBeat}]
    /\ pc       \in [Runs -> PCs]
    /\ hb       \in [Runs -> {"off", "idle", "writing"}]
    /\ stalled  \in [Runs -> BOOLEAN]
    /\ doomed   \in [Runs -> SUBSET Runs]
    /\ writer   \in Runs \cup {Nobody}
    /\ faults   \in 0..MAX_FAULTS

Init ==
    /\ status   = [r \in Runs |-> "none"]
    /\ startAge = [r \in Runs |-> 0]
    /\ beatAge  = [r \in Runs |-> NoBeat]
    /\ pc       = [r \in Runs |-> "free"]
    /\ hb       = [r \in Runs |-> "off"]
    /\ stalled  = [r \in Runs |-> FALSE]
    /\ doomed   = [r \in Runs |-> {}]
    /\ writer   = Nobody
    /\ faults   = 0

---------------------------------------------------------------------------
(* What the claim reads.                                                   *)

RunningRows == {s \in Runs : status[s] = "running"}

\* Mutant: a claim that does not keep the write lock from INSERT to commit.
CanWriteUnlocked(r) == TRUE

\* A write needs SQLite's write lock, which a claimer keeps from its first
\* INSERT to its commit; PostgreSQL only locks the rows it touches.
CanWrite(r) == SQLITE => writer \in {Nobody, r}

\* Mutant: liveness by heartbeat alone, so that a row not yet beaten is stale.
IsActiveByBeat(s, r) ==
    /\ status[s] = "running"
    /\ beatAge[s] # NoBeat /\ beatAge[s] - startAge[r] < HB_STALE

\* Mutant: a running row blocks its key whatever its age.
IsActiveForEver(s, r) == status[s] = "running"

\* The liveness judgement on row s as seen by claimer r: heartbeat when there
\* is one, age otherwise, both relative to r's own `started`.
IsActive(s, r) ==
    /\ status[s] = "running"
    /\ \/ beatAge[s] = NoBeat /\ startAge[s] - startAge[r] < RUN_STALE
       \/ beatAge[s] # NoBeat /\ beatAge[s] - startAge[r] < HB_STALE

---------------------------------------------------------------------------
(* Claiming the key.                                                       *)

\* job_run is entered and reads the clock.
Invoke(r) ==
    /\ pc[r] = "free"
    /\ pc' = [pc EXCEPT ![r] = "starting"]
    /\ startAge' = [startAge EXCEPT ![r] = 0]
    /\ UNCHANGED <<status, beatAge, hb, stalled, doomed, writer, faults>>

\* The first INSERT succeeds: no running row has the key.
ClaimFresh(r) ==
    /\ pc[r] = "starting" /\ CanWrite(r)
    /\ RunningRows = {}
    /\ status' = [status EXCEPT ![r] = "running"]
    /\ pc' = [pc EXCEPT ![r] = "claimed"]
    /\ hb' = [hb EXCEPT ![r] = "idle"]
    /\ UNCHANGED <<startAge, beatAge, stalled, doomed, writer, faults>>

\* The first INSERT meets the partial unique index and does nothing.
ClaimConflict(r) ==
    /\ pc[r] = "starting" /\ CanWrite(r)
    /\ RunningRows # {}
    /\ pc' = [pc EXCEPT ![r] = "judging"]
    /\ writer' = IF SQLITE THEN r ELSE writer
    /\ UNCHANGED <<status, startAge, beatAge, hb, stalled, doomed, faults>>

\* SELECT of an active row finds one: JobSkipped.  A skipped row is committed
\* and the body never runs.
Skip(r) ==
    /\ pc[r] = "judging"
    /\ \E s \in Runs : IsActive(s, r)
    /\ status' = [status EXCEPT ![r] = "skipped"]
    /\ pc' = [pc EXCEPT ![r] = "done"]
    /\ writer' = IF writer = r THEN Nobody ELSE writer
    /\ UNCHANGED <<startAge, beatAge, hb, stalled, doomed, faults>>

\* The same SELECT finds none.
JudgeStale(r) ==
    /\ pc[r] = "judging"
    /\ \A s \in Runs : ~IsActive(s, r)
    /\ pc' = [pc EXCEPT ![r] = "listing"]
    /\ UNCHANGED <<status, startAge, beatAge, hb, stalled, doomed, writer, faults>>

\* Mutant: the second SELECT forgets its filter on the status.
ListEveryRow(r) ==
    /\ pc[r] = "listing"
    /\ doomed' = [doomed EXCEPT ![r] = {s \in Runs : status[s] # "none"}]
    /\ pc' = [pc EXCEPT ![r] = "superseding"]
    /\ UNCHANGED <<status, startAge, beatAge, hb, stalled, writer, faults>>

\* A second SELECT lists every row still running for the key.
ListStale(r) ==
    /\ pc[r] = "listing"
    /\ doomed' = [doomed EXCEPT ![r] = RunningRows]
    /\ pc' = [pc EXCEPT ![r] = "superseding"]
    /\ UNCHANGED <<status, startAge, beatAge, hb, stalled, writer, faults>>

\* Mutant: the second INSERT is not arbitrated by the unique index.
SupersedeUnarbitrated(r) ==
    /\ pc[r] = "superseding"
    /\ status' = [s \in Runs |-> IF s = r THEN "running"
                                 ELSE IF s \in doomed[r] THEN "interrupted"
                                 ELSE status[s]]
    /\ pc' = [pc EXCEPT ![r] = "claimed"]
    /\ hb' = [hb EXCEPT ![r] = "idle"]
    /\ doomed' = [doomed EXCEPT ![r] = {}]
    /\ writer' = IF writer = r THEN Nobody ELSE writer
    /\ UNCHANGED <<startAge, beatAge, stalled, faults>>

\* Mutant: the key is claimed without interrupting the stale rows.
SupersedeKeepsStale(r) ==
    /\ pc[r] = "superseding"
    /\ RunningRows \subseteq doomed[r]
    /\ status' = [status EXCEPT ![r] = "running"]
    /\ pc' = [pc EXCEPT ![r] = "claimed"]
    /\ hb' = [hb EXCEPT ![r] = "idle"]
    /\ doomed' = [doomed EXCEPT ![r] = {}]
    /\ writer' = IF writer = r THEN Nobody ELSE writer
    /\ UNCHANGED <<startAge, beatAge, stalled, faults>>

\* The listed rows are flushed as interrupted, the key is claimed again and
\* the transaction commits.
Supersede(r) ==
    /\ pc[r] = "superseding"
    /\ RunningRows \subseteq doomed[r]
    /\ status' = [s \in Runs |-> IF s = r THEN "running"
                                 ELSE IF s \in doomed[r] THEN "interrupted"
                                 ELSE status[s]]
    /\ pc' = [pc EXCEPT ![r] = "claimed"]
    /\ hb' = [hb EXCEPT ![r] = "idle"]
    /\ doomed' = [doomed EXCEPT ![r] = {}]
    /\ writer' = IF writer = r THEN Nobody ELSE writer
    /\ UNCHANGED <<startAge, beatAge, stalled, faults>>

\* The second INSERT conflicts with a row that was not listed: RuntimeError,
\* and the rollback takes the interruptions back.
SupersedeFails(r) ==
    /\ pc[r] = "superseding"
    /\ ~(RunningRows \subseteq doomed[r])
    /\ pc' = [pc EXCEPT ![r] = "done"]
    /\ doomed' = [doomed EXCEPT ![r] = {}]
    /\ writer' = IF writer = r THEN Nobody ELSE writer
    /\ UNCHANGED <<status, startAge, beatAge, hb, stalled, faults>>

---------------------------------------------------------------------------
(* The heartbeat: one session that reads the row, then writes it.          *)

\* The row is running: the entry heartbeat of the main thread (claimed), or a
\* beat of the thread once the interval has passed.
BeatRead(r) ==
    /\ hb[r] = "idle" /\ status[r] = "running"
    /\ \/ pc[r] = "claimed"
       \/ pc[r] = "running" /\ (beatAge[r] = NoBeat \/ beatAge[r] >= HB_INTERVAL)
    /\ hb' = [hb EXCEPT ![r] = "writing"]
    /\ UNCHANGED <<status, startAge, beatAge, pc, stalled, doomed, writer, faults>>

\* After a heartbeat the entry call falls through to the body, and a thread
\* that was told to stop ends.
AfterBeat(r) ==
    /\ pc' = [pc EXCEPT ![r] = IF @ = "claimed" THEN "running" ELSE @]
    /\ hb' = [hb EXCEPT ![r] = IF pc[r] \in {"claimed", "running"} THEN "idle" ELSE "off"]

\* The UPDATE is by primary key: whatever the status is by now.
BeatWrite(r) ==
    /\ hb[r] = "writing" /\ CanWrite(r)
    /\ beatAge' = [beatAge EXCEPT ![r] = 0]
    /\ AfterBeat(r)
    /\ UNCHANGED <<status, startAge, stalled, doomed, writer, faults>>

\* The write raises and the error is swallowed.
BeatFail(r) ==
    /\ hb[r] = "writing" /\ faults < MAX_FAULTS
    /\ AfterBeat(r)
    /\ faults' = faults + 1
    /\ UNCHANGED <<status, startAge, beatAge, stalled, doomed, writer>>

\* The entry heartbeat finds its row no longer running and writes nothing.
EnterUnbeaten(r) ==
    /\ pc[r] = "claimed" /\ hb[r] = "idle" /\ status[r] # "running"
    /\ pc' = [pc EXCEPT ![r] = "running"]
    /\ UNCHANGED <<status, startAge, beatAge, hb, stalled, doomed, writer, faults>>

---------------------------------------------------------------------------
(* The body and the terminal write.                                        *)

\* The body returns, raises an Exception, or is left by a BaseException
\* (KeyboardInterrupt, CancelledError); stop_beating is set.
BodyEnds(r, how) ==
    /\ pc[r] = "running"
    /\ pc' = [pc EXCEPT ![r] = how]
    /\ UNCHANGED <<status, startAge, beatAge, hb, stalled, doomed, writer, faults>>

\* Mutant: a status the enum does not have.
OutcomesUnnamed(how) == {"finished"}

\* Only `except Exception` turns the default status into a failure.
OutcomesOf(how) == IF how = "raised" THEN {"failed"}
                   ELSE {"success", "partial_success"}

\* The row is read and written whatever its status.  An idle beater has been
\* joined; one caught in a write outlives the join's timeout.
Terminal(r) ==
    /\ pc[r] \in Closing /\ CanWrite(r)
    /\ \E o \in OutcomesOf(pc[r]) : status' = [status EXCEPT ![r] = o]
    /\ pc' = [pc EXCEPT ![r] = "done"]
    /\ hb' = [hb EXCEPT ![r] = IF @ = "idle" THEN "off" ELSE @]
    /\ UNCHANGED <<startAge, beatAge, stalled, doomed, writer, faults>>

\* The terminal session raises (locked or unreachable database): the row stays
\* as it was, with nobody left to close it.
TerminalLost(r) ==
    /\ pc[r] \in Closing /\ faults < MAX_FAULTS
    /\ pc' = [pc EXCEPT ![r] = "dead"]
    /\ hb' = [hb EXCEPT ![r] = IF @ = "idle" THEN "off" ELSE @]
    /\ faults' = faults + 1
    /\ UNCHANGED <<status, startAge, beatAge, stalled, doomed, writer>>

---------------------------------------------------------------------------
(* The environment.                                                        *)

\* The process dies: its threads stop and an open transaction rolls back.
Crash(r) ==
    /\ pc[r] \in Claiming \cup Alive /\ faults < MAX_FAULTS
    /\ pc' = [pc EXCEPT ![r] = "dead"]
    /\ hb' = [hb EXCEPT ![r] = "off"]
    /\ doomed' = [doomed EXCEPT ![r] = {}]
    /\ writer' = IF writer = r THEN Nobody ELSE writer
    /\ faults' = faults + 1
    /\ UNCHANGED <<status, startAge, beatAge, stalled>>

\* A live run stops keeping its heartbeat fresh: suspended host, starved
\* thread, database it cannot reach.  It still takes its steps, only late.
Stall(r) ==
    /\ pc[r] \in Alive /\ ~stalled[r] /\ faults < MAX_FAULTS
    /\ stalled' = [stalled EXCEPT ![r] = TRUE]
    /\ faults' = faults + 1
    /\ UNCHANGED <<status, startAge, beatAge, pc, hb, doomed, writer>>

\* A finished invocation with a closed row is forgotten; nothing reads it.
Forget(r) ==
    /\ pc[r] \in {"done", "dead"} /\ status[r] # "running" /\ hb[r] = "off"
    /\ \A s \in Runs : r \notin doomed[s]
    /\ pc' = [pc EXCEPT ![r] = "free"]
    /\ status' = [status EXCEPT ![r] = "none"]
    /\ startAge' = [startAge EXCEPT ![r] = 0]
    /\ beatAge' = [beatAge EXCEPT ![r] = NoBeat]
    /\ stalled' = [stalled EXCEPT ![r] = FALSE]
    /\ UNCHANGED <<hb, doomed, writer, faults>>

\* The age of the latest proof of life of r's row.
ProofAge(r) == IF beatAge[r] = NoBeat THEN startAge[r] ELSE beatAge[r]

\* A run that is executing, keeps its heart beating and still holds the lease.
Healthy(r) == pc[r] \in Alive /\ ~stalled[r] /\ status[r] = "running"

\* One unit older.  The timestamps no query compares any more (those of an
\* invocation that is neither claiming nor running) become arbitrarily old.
Older(r, age) ==
    IF age = NoBeat THEN NoBeat
    ELSE IF pc[r] \in Claiming \/ status[r] = "running"
    THEN (IF age < AgeCap THEN age + 1 ELSE AgeCap)
    ELSE AgeCap

\* Time passes.  A claim is short (MAX_LAG), and a healthy run beats,
\* or closes, before HB_STALE is over.
Tick ==
    /\ \A r \in Runs : pc[r] \in Claiming => startAge[r] < MAX_LAG
    /\ \A r \in Runs : Healthy(r) => ProofAge(r) + 1 < HB_STALE
    /\ startAge' = [r \in Runs |-> Older(r, startAge[r])]
    /\ beatAge'  = [r \in Runs |-> Older(r, beatAge[r])]
    /\ UNCHANGED <<status, pc, hb, stalled, doomed, writer, faults>>

---------------------------------------------------------------------------
Claim(r) == \/ ClaimFresh(r) \/ ClaimConflict(r) \/ Skip(r) \/ JudgeStale(r)
            \/ ListStale(r) \/ Supersede(r) \/ SupersedeFails(r)

Beat(r) == BeatRead(r) \/ BeatWrite(r) \/ EnterUnbeaten(r)

Fault(r) == BeatFail(r) \/ TerminalLost(r) \/ Crash(r) \/ Stall(r)

RunStep(r) ==
    \/ Invoke(r) \/ Claim(r) \/ Beat(r)
    \/ \E how \in Closing : BodyEnds(r, how)
    \/ Terminal(r) \/ Fault(r) \/ Forget(r)

Next == Tick \/ \E r \in Runs : RunStep(r)

Spec == Init /\ [][Next]_vars

\* Threads that are not dead keep running, the scheduler keeps firing, time
\* passes, and a writer that finds SQLite's lock free again and again gets it
\* (busy_timeout polls it).  Nothing forces a body to end or a fault to happen.
Fairness ==
    /\ SF_vars(Tick)
    /\ \A r \in Runs :
        /\ WF_vars(Invoke(r)) /\ WF_vars(Forget(r))
        /\ WF_vars(BeatRead(r) \/ EnterUnbeaten(r))
        /\ SF_vars(Claim(r)) /\ SF_vars(BeatWrite(r)) /\ SF_vars(Terminal(r))

FairSpec == Spec /\ Fairness
---------------------------------------------------------------------------
(* Properties.                                                             *)

\* At most one row of the key is running, in every interleaving of claims,
\* supersessions, late terminal writes and late beats.
OneRunningRow ==
    \A r, s \in Runs : status[r] = "running" /\ status[s] = "running" => r = s

\* Two invocations of one key never execute their bodies at the same time
\* unless one of them has let HB_STALE pass without proving that it is alive.
ExclusiveBody ==
    \A r, s \in Runs :
        /\ pc[r] \in {"claimed", "running"} /\ pc[s] \in {"claimed", "running"}
        /\ r # s
        => stalled[r] \/ stalled[s]

\* The strengthening that makes the properties above inductive.
\* Which rows and heartbeats an invocation may have at each place of job_run.
RowFitsPc ==
    \A r \in Runs :
        /\ pc[r] \in {"free"} \cup Claiming => status[r] = "none" /\ hb[r] = "off"
        /\ pc[r] \in Alive => status[r] \in {"running", "interrupted"}
        /\ status[r] = "running" => pc[r] \in Alive \cup {"dead"}
        /\ pc[r] # "superseding" => doomed[r] = {}
        /\ \A s \in doomed[r] : status[s] # "none"
        /\ pc[r] \in {"free"} \cup Claiming => beatAge[r] = NoBeat
        /\ pc[r] \in Claiming => startAge[r] <= MAX_LAG

\* A healthy row always looks active to every claimer.
HealthyIsFresh ==
    \A r \in Runs : Healthy(r) =>
        IF beatAge[r] = NoBeat THEN startAge[r] < RUN_STALE ELSE beatAge[r] < HB_STALE

\* On SQLite the claimer that saw the conflict holds the write lock, so what it
\* judged stale stays running, and stays stale, until it commits.
JudgementHolds ==
    SQLITE => \A r \in Runs :
        /\ pc[r] \in {"judging", "listing", "superseding"} => writer = r
        /\ pc[r] \in {"listing", "superseding"} => \A s \in Runs : ~Healthy(s)
        /\ pc[r] = "superseding" => doomed[r] = RunningRows

\* On SQLite a run in its body that kept its heart beating holds the lease.
BodyHoldsLease ==
    SQLITE => \A r \in Runs : pc[r] \in Alive /\ ~stalled[r] => status[r] = "running"

LeaseInv == /\ OneRunningRow /\ RowFitsPc /\ HealthyIsFresh
            /\ JudgementHolds /\ BodyHoldsLease

\* Only a row whose process is dead, or stopped beating, is ever interrupted
\* (jobs.py:141 "Everything still marked running for this key is a dead
\* process").
LiveRunKeepsLease ==
    [][\A r \in Runs : status[r] = "running" /\ status'[r] = "interrupted"
                        => pc[r] = "dead" \/ stalled[r]]_vars

\* A closed row is rewritten, if at all, by the late terminal write of its own
\* stalled run: no other invocation changes a recorded outcome.
OutcomeIsTheOwners ==
    [][\A r \in Runs : status[r] \in Closed /\ status'[r] \notin {status[r], "none"}
                        => stalled[r] /\ status[r] = "interrupted" /\ pc[r] \in Closing]_vars

\* A run that died holding the lease does not hold it for ever: some later
\* invocation supersedes its row, whether or not it ever beat.  What may keep an
\* invocation busy for ever instead is a body that goes on without the lease.
CrashedRunIsReplaced ==
    \A r \in Runs :
        status[r] = "running" /\ pc[r] = "dead"
        ~> \/ status[r] # "running"
           \/ \E s \in Runs : pc[s] \in Alive /\ status[s] # "running"

\* The lease implements the abstract slot: the holder is the invocation whose
\* row is running, and a live holder that keeps beating is never replaced.
HolderIn(st) == IF \E r \in Runs : st[r] = "running"
                THEN CHOOSE r \in Runs : st[r] = "running" ELSE Nobody
holderOf == HolderIn(status)
lostRuns == {r \in Runs : stalled[r] \/ pc[r] = "dead"}

Slot == INSTANCE ActiveSlot WITH holder <- holderOf, lost <- lostRuns
ImplementsSlot == Slot!Spec

\* The invocations are interchangeable: TLC may take one of each class of states
\* alike but for their names.  Sound for the run without liveness.
RunSymmetry == Permutations(Runs)
=============================================================================
