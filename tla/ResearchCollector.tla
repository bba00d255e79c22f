--------------------------- MODULE ResearchCollector ---------------------------
(***************************************************************************)
(* The capture of order books for research (jobs.py job_research_books, with  *)
(* runner.refresh_orderbooks and alpha/archiving.py): one resident loop that   *)
(* captures on a grid while an issuance window is open and once outside, the   *)
(* append-only archive it writes, and the health report that reads it.        *)
(*                                                                         *)
(* A capture takes time and may fail; a sleep may last longer than asked.     *)
(* The run lease, which keeps the loop alone, is module JobLease.             *)
(***************************************************************************)
EXTENDS IssuanceWindows

CONSTANTS
    Tracked,              \* the open research markets
    Resolution,         \* their expected resolution times
    Undated,           \* the resolution time of a market that declares none
    Budgets,            \* max_seconds, in ticks; 0 for until the window ends
    MinBooks,           \* MIN_BOOKS_PER_ISSUANCE_WINDOW
    MaxStaleness,       \* MAX_ARCHIVE_STALENESS_MINUTES
    Histories,          \* the publications recorded before the start
    Horizon,            \* bound: the last instant
    MaxReports,         \* bound: health reports
    MaxPublications,    \* bound: publications after the start
    MaxCapture,         \* bound: how long a capture takes
    MaxOversleep        \* bound: how late a sleep wakes

ASSUME CollectorAssumption ==
    /\ IsFiniteSet(Tracked) /\ Tracked # {}
    /\ {Day, Hour, ResearchCadence, MinBooks} \subseteq Nat \ {0}
    /\ HalfWidth \in 0..Day /\ {MaxStaleness, MaxOversleep} \subseteq Nat
    /\ DocumentedHours \subseteq Nat /\ Budgets \subseteq Nat
    /\ \A publications \in Histories : publications \subseteq Int

VARIABLES now, issued, loop, archive, health
collectorVars == <<now, issued, loop, archive, health>>

NoDeadline == -1

\* One book of archived_books: the market, and when its state was read.
Book(m, observed) == [market |-> m, observed |-> observed]

\* starts: the instants captures started at, by their place on the grid.
Idle == [pc |-> "idle", started |-> 0, window |-> NoWindow, deadline |-> NoDeadline,
         tick |-> 0, skipped |-> 0, wake |-> 0, from |-> 0, starts |-> {}]

CollectorInit ==
    /\ now = 0
    /\ issued \in Histories
    /\ loop = Idle
    /\ archive = {}
    /\ health = {}

-----------------------------------------------------------------------------
(* The loop *)

Deadline(window, budget, t) ==
    IF window = NoWindow THEN NoDeadline
    ELSE IF budget > 0 THEN Min({End(window), t + budget}) ELSE End(window)

\* The job takes its slot, reads the schedule once, beats, and captures at once.
StartLoop ==
    /\ loop.pc = "idle"
    /\ \E budget \in Budgets :
          LET window == ActiveWindow(now, issued) IN
          loop' = [Idle EXCEPT !.pc = "capturing", !.started = now, !.window = window,
                               !.deadline = Deadline(window, budget, now), !.from = now,
                               !.starts = {[tick |-> 0, at |-> now]}]
    /\ UNCHANGED <<now, issued, archive, health>>

\* Inside a window only the markets near their resolution are asked for.
Targets(window, t) ==
    {m \in Tracked : window = NoWindow \/ WithinHorizon(Resolution[m], t, Undated)}

\* The next point of the grid that is still ahead: what the capture overran is
\* dropped, not fired back to back.
NextTick(l, t) ==
    CHOOSE k \in (l.tick + 1)..(l.tick + 1 + t) :
        /\ l.started + ResearchCadence * k > t
        /\ \A j \in (l.tick + 1)..(k - 1) : l.started + ResearchCadence * j <= t

\* Mutant of WakeAt: the sleep lasts one cadence after the capture.
SleepACadence(l, k, t) == t + ResearchCadence

\* The instant the loop sleeps until.
WakeAt(l, k, t) == l.started + ResearchCadence * k

\* After a capture: a beat, and the next point of the grid unless it is past
\* the deadline.
Onward(l) ==
    LET k == NextTick(l, now) IN
    IF l.deadline = NoDeadline \/ now >= l.deadline
    THEN [l EXCEPT !.pc = "done"]
    ELSE LET on == [l EXCEPT !.tick = k, !.skipped = l.skipped + (k - l.tick - 1)] IN
         IF WakeAt(l, k, now) >= l.deadline THEN [on EXCEPT !.pc = "done"]
         ELSE [on EXCEPT !.pc = "sleeping", !.wake = WakeAt(l, k, now)]

\* Every market that was asked for gets a row; the same market at the same
\* instant is stored once.
CaptureEnds ==
    /\ loop.pc = "capturing"
    /\ archive' = archive \cup {Book(m, now) : m \in Targets(loop.window, loop.from)}
    /\ loop' = Onward(loop)
    /\ UNCHANGED <<now, issued, health>>

\* The refresh raises, or the archive cannot be committed: an error of the
\* report, and no reason to stop.
CaptureFails ==
    /\ loop.pc = "capturing"
    /\ loop' = Onward(loop)
    /\ UNCHANGED <<now, issued, archive, health>>

Wake ==
    /\ loop.pc = "sleeping"
    /\ now >= loop.wake
    /\ loop' = [loop EXCEPT !.pc = "capturing", !.from = now,
                            !.starts = @ \cup {[tick |-> loop.tick, at |-> now]}]
    /\ UNCHANGED <<now, issued, archive, health>>

\* The job returns, or its process dies and the lease is taken over.
LoopEnds ==
    /\ loop.pc # "idle"
    /\ loop' = Idle
    /\ UNCHANGED <<now, issued, archive, health>>

-----------------------------------------------------------------------------
(* The source, the clock, and the health report *)

\* A forecast poll records a publication time it had not seen.
RecordIssuance ==
    /\ Cardinality({p \in issued : p >= 0}) < MaxPublications
    /\ issued' = issued \cup {now}
    /\ UNCHANGED <<now, loop, archive, health>>

Elapse ==
    /\ now < Horizon
    /\ loop.pc = "sleeping" => now < loop.wake + MaxOversleep
    /\ loop.pc = "capturing" => now < loop.from + MaxCapture
    /\ now' = now + 1
    /\ UNCHANGED <<issued, loop, archive, health>>

\* Mutant of BestMarket: the rows of the window, of whatever market.
AllRows(window, books) == Cardinality({b \in books : Covers(window, b.observed)})

\* Captures of the market that was captured most inside a window.
BestMarket(window, books) ==
    Max({Cardinality({b \in books : b.market = m /\ Covers(window, b.observed)}) : m \in Tracked})

Completed(since, publications) ==
    {w \in WindowsBetween(since, now, publications) : End(w) <= now}

\* The best completed window, never the total over markets or windows.
BestCompletedWindow(since, publications, books) ==
    Max({0} \cup {BestMarket(w, books) : w \in Completed(since, publications)})

\* An empty archive is infinitely stale.
Fresh(books) == books # {} /\ now - Max({b.observed : b \in books}) <= MaxStaleness

\* The report looks back one day, at the publications of that day.
HealthReport ==
    LET since == now - Day
        recent == {p \in issued : p >= since}
        best == BestCompletedWindow(since, recent, archive)
    IN  [at |-> now, best |-> best, passing |-> best >= MinBooks /\ Fresh(archive)]

\* Every report is a row of its own: a later good day replaces nothing.
ReportHealth ==
    /\ Cardinality(health) < MaxReports
    /\ health' = health \cup {HealthReport}
    /\ UNCHANGED <<now, issued, loop, archive>>

CollectorNext ==
    \/ StartLoop \/ CaptureEnds \/ CaptureFails \/ Wake \/ LoopEnds
    \/ RecordIssuance \/ Elapse \/ ReportHealth

CollectorSpec == CollectorInit /\ [][CollectorNext]_collectorVars

-----------------------------------------------------------------------------
(* Properties *)

\* Captures keep to the grid: no two for one of its points, none before its
\* point, none at a point past the deadline, and every point so far was either
\* used or counted as skipped (jobs.py:747-772 of job_research_books).
CapturesStayOnGrid ==
    loop.pc # "idle" =>
        /\ \A s, r \in loop.starts : s.tick = r.tick => s = r
        /\ \A s \in loop.starts :
              /\ s.at \in (loop.started + ResearchCadence * s.tick)..
                          (loop.started + ResearchCadence * s.tick + MaxOversleep)
              /\ loop.deadline # NoDeadline /\ s.tick > 0
                    => loop.started + ResearchCadence * s.tick < loop.deadline
        /\ loop.pc = "capturing" => Cardinality(loop.starts) + loop.skipped = loop.tick + 1

\* A report that passes has a market that was captured through one whole
\* window that is over, and a book that arrived of late: history alone does not
\* pass it, nor does one capture of many markets (collection_health.py:87-120).
HealthIsEarned ==
    \A h \in health : h.passing =>
        /\ \E b \in archive : b.observed \in (h.at - MaxStaleness)..h.at
        /\ \E m \in Tracked, a \in (h.at - 2 * Day)..h.at :
              /\ a + HalfWidth <= h.at
              /\ Cardinality({b \in archive : b.market = m /\ b.observed \in (a - HalfWidth)..(a + HalfWidth)})
                    >= MinBooks

\* What is collected keeps to its times, and what is told of it has been earned
\* (the capture loop of jobs.py and the health gate of collection_health.py).
CollectionIsHonest == CapturesStayOnGrid /\ HealthIsEarned
===============================================================================
