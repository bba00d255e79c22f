---------------------------- MODULE ResearchProofs ----------------------------
(***************************************************************************)
(* Proofs about what is collected for research and what is kept of it:         *)
(* ObservationStore, ResearchCollector and SnapshotRetention, about the        *)
(* schedule that runs it all, WorkerSchedule, and about what the archive is    *)
(* for, the backtests and the calibration of WalkForward: each of its own      *)
(* specification and for every value of its constants.                        *)
(***************************************************************************)
EXTENDS ObservationStore, ResearchCollector, SnapshotRetention, WorkerSchedule,
        WalkForward, FiniteSetTheorems, WellFoundedInduction, TLAPS

-----------------------------------------------------------------------------
(* Evidence.                                                                *)

\* A poll goes through its instants in order, and is stored before its row is.
PollIsOrdered ==
    /\ clock \in Nat /\ source.published \in Int
    /\ DOMAIN poll = {"pc", "started", "read", "completed", "forecast"}
    /\ poll.pc \in {"answered", "finished", "stored"} =>
           poll.read \in Nat /\ poll.read <= clock /\ poll.forecast.published \in Int
    /\ poll.pc \in {"finished", "stored"} => poll.completed \in Nat /\ poll.read <= poll.completed
    /\ poll.pc = "stored" => /\ poll.forecast.published <= poll.completed
                             /\ poll.forecast \in payloads

\* What is recorded had been read and can be shown when it became available.
CanBeShown(o) == /\ {o.read, o.available, o.forecast.published} \subseteq Int
            /\ o.read <= o.available /\ o.forecast.published <= o.available
            /\ o.forecast \in payloads
RecordsAreShown == /\ \E S : observations \in Seq(S)
                   /\ \A i \in DOMAIN observations : CanBeShown(observations[i])

EvidenceInv == PollIsOrdered /\ RecordsAreShown /\ EvidenceCanBeShown

LEMMA NoPollIsNone == /\ NoPoll.pc = "none"
                      /\ DOMAIN NoPoll = {"pc", "started", "read", "completed", "forecast"}
  BY DEF NoPoll

\* The steps that record nothing and decide nothing.
NothingRecorded == UNCHANGED <<payloads, observations, decisions>>

LEMMA NothingRecordedKeeps ==
    ASSUME EvidenceInv, NothingRecorded PROVE RecordsAreShown' /\ EvidenceCanBeShown'
  BY DEF EvidenceInv, NothingRecorded, RecordsAreShown, CanBeShown, EvidenceCanBeShown

LEMMA StepEvidence == EvidenceInv /\ [ObservationNext]_observationVars => EvidenceInv'
  <1>. SUFFICES ASSUME EvidenceInv, [ObservationNext]_observationVars PROVE EvidenceInv'
    OBVIOUS
  <1>1. CASE Tick
    <2>1. PollIsOrdered' /\ NothingRecorded
      BY <1>1 DEF Tick, EvidenceInv, PollIsOrdered, NothingRecorded
    <2>. QED
      BY <2>1, NothingRecordedKeeps DEF EvidenceInv
  <1>2. CASE Issue
    <2>1. PICK v \in Values, skew \in Skews : source' = [value |-> v, published |-> clock + skew]
      BY <1>2 DEF Issue
    <2>2. UNCHANGED <<clock, poll, payloads, observations, decisions>>
      BY <1>2 DEF Issue
    <2>3. source'.published \in Int
      BY <2>1, ObservationAssumption DEF EvidenceInv, PollIsOrdered
    <2>4. PollIsOrdered' /\ NothingRecorded
      BY <2>2, <2>3 DEF EvidenceInv, PollIsOrdered, NothingRecorded
    <2>. QED
      BY <2>4, NothingRecordedKeeps DEF EvidenceInv
  <1>3. CASE poll' = NoPoll /\ UNCHANGED <<clock, source, payloads, observations, decisions>>
    <2>1. PollIsOrdered' /\ NothingRecorded
      BY <1>3, NoPollIsNone DEF EvidenceInv, PollIsOrdered, NothingRecorded
    <2>. QED
      BY <2>1, NothingRecordedKeeps DEF EvidenceInv
  <1>4. CASE StartPoll
    <2>1. poll' = [NoPoll EXCEPT !.pc = "asked", !.started = clock]
          /\ UNCHANGED <<clock, source, payloads, observations, decisions>>
      BY <1>4 DEF StartPoll
    <2>2. PollIsOrdered' /\ NothingRecorded
      BY <2>1, NoPollIsNone DEF EvidenceInv, PollIsOrdered, NothingRecorded
    <2>. QED
      BY <2>2, NothingRecordedKeeps DEF EvidenceInv
  <1>5. CASE Answer
    <2>1. PollIsOrdered' /\ NothingRecorded
      BY <1>5 DEF Answer, EvidenceInv, PollIsOrdered, NothingRecorded
    <2>. QED
      BY <2>1, NothingRecordedKeeps DEF EvidenceInv
  <1>6. CASE FinishPoll
    <2>1. PollIsOrdered' /\ NothingRecorded
      BY <1>6 DEF FinishPoll, EvidenceInv, PollIsOrdered, NothingRecorded
    <2>. QED
      BY <2>1, NothingRecordedKeeps DEF EvidenceInv
  <1>7. CASE Put
    <2>1. /\ poll' = [poll EXCEPT !.pc = "stored"] /\ payloads' = payloads \cup {poll.forecast}
          /\ UNCHANGED <<clock, source, observations, decisions>>
          /\ poll.pc = "finished" /\ ~(poll.forecast.published > poll.completed)
      BY <1>7 DEF Put, Undisciplined, AvailableAt
    <2>2. PollIsOrdered'
      BY <2>1 DEF EvidenceInv, PollIsOrdered
    <2>3. RecordsAreShown' /\ EvidenceCanBeShown'
      BY <2>1 DEF EvidenceInv, RecordsAreShown, CanBeShown, EvidenceCanBeShown
    <2>. QED
      BY <2>2, <2>3 DEF EvidenceInv
  <1>8. CASE Record
    <2>1. /\ poll' = NoPoll /\ UNCHANGED <<clock, source, payloads, decisions>> /\ poll.pc = "stored"
      BY <1>8 DEF Record
    <2>2. PollIsOrdered' /\ EvidenceCanBeShown'
      BY <2>1, NoPollIsNone DEF EvidenceInv, PollIsOrdered, EvidenceCanBeShown
    <2>3. RecordsAreShown'
      <3>1. PICK row : row = [forecast |-> poll.forecast, available |-> poll.completed, read |-> poll.read]
        OBVIOUS
      <3>2. /\ poll.forecast.published <= poll.completed /\ poll.forecast \in payloads
            /\ {poll.read, poll.completed, poll.forecast.published} \subseteq Int /\ poll.read <= poll.completed
        BY <2>1 DEF EvidenceInv, PollIsOrdered
      <3>3. row.forecast = poll.forecast /\ row.available = poll.completed /\ row.read = poll.read
        BY <3>1
      <3>4. CanBeShown(row)
        BY <3>2, <3>3 DEF CanBeShown
      <3>5. PICK S : observations \in Seq(S)
        BY DEF EvidenceInv, RecordsAreShown
      <3>6. CASE observations' = observations
        BY <2>1, <3>6 DEF EvidenceInv, RecordsAreShown, CanBeShown
      <3>7. CASE observations' = Append(observations, row)
        <4>1. observations \in Seq(S \cup {row}) /\ row \in S \cup {row}
          BY <3>5
        <4>2. /\ observations' \in Seq(S \cup {row})
              /\ \A i \in DOMAIN observations' : observations'[i] = row \/ (i \in DOMAIN observations /\ observations'[i] = observations[i])
          BY <3>7, <4>1
        <4>. QED
          BY <2>1, <3>4, <4>2 DEF EvidenceInv, RecordsAreShown, CanBeShown
      <3>. QED
        BY <1>8, <3>1, <3>6, <3>7 DEF Record, AvailableAt
    <2>. QED
      BY <2>2, <2>3 DEF EvidenceInv
  <1>9. CASE Decide
    <2>1. PICK t \in 0..clock :
            decisions' = decisions \cup {[for |-> t, at |-> clock, evidence |-> Newest(AsOf(t))]}
      BY <1>9 DEF Decide
    <2>2. UNCHANGED <<clock, source, poll, payloads, observations>>
      BY <1>9 DEF Decide
    <2>3. PollIsOrdered' /\ RecordsAreShown'
      BY <2>2 DEF EvidenceInv, PollIsOrdered, RecordsAreShown, CanBeShown
    <2>4. ASSUME NEW o \in Newest(AsOf(t))
          PROVE  o.read <= t /\ o.forecast.published <= t /\ o.forecast \in payloads
      <3>1. PICK i \in DOMAIN observations : o = observations[i] /\ observations[i].available <= t
        BY DEF Newest, AsOf, KnownBy
      <3>2. CanBeShown(o)
        BY <3>1 DEF EvidenceInv, RecordsAreShown
      <3>. QED
        BY <3>1, <3>2, <1>9 DEF CanBeShown, EvidenceInv, PollIsOrdered
    <2>5. PICK d : d = [for |-> t, at |-> clock, evidence |-> Newest(AsOf(t))]
      OBVIOUS
    <2>6. d.for = t /\ d.evidence = Newest(AsOf(t))
      BY <2>5
    <2>7. EvidenceCanBeShown'
      BY <2>1, <2>2, <2>4, <2>5, <2>6 DEF EvidenceInv, EvidenceCanBeShown
    <2>. QED
      BY <2>3, <2>7 DEF EvidenceInv
  <1>10. CASE UNCHANGED <<clock, source, poll, payloads, observations, decisions>>
    BY <1>10 DEF EvidenceInv, PollIsOrdered, RecordsAreShown, CanBeShown, EvidenceCanBeShown
  <1>. QED
    BY <1>1, <1>2, <1>3, <1>4, <1>5, <1>6, <1>7, <1>8, <1>9, <1>10
       DEF ObservationNext, PollFails, Refuse, PollDies, AppendOutcome, observationVars

\* However polls overlap the source's issues, fail, are refused or die: a decision,
\* live or run again for an earlier instant, rests on what had been read by then and
\* can be shown (alpha/pit.py, collection.py, payload_store.py).
THEOREM EvidenceIsShown == ObservationSpec => []EvidenceCanBeShown
  <1>1. ObservationInit => EvidenceInv
    <2>. SUFFICES ASSUME ObservationInit PROVE EvidenceInv
      OBVIOUS
    <2>1. PollIsOrdered
      BY NoPollIsNone DEF ObservationInit, PollIsOrdered
    <2>2. RecordsAreShown
      <3>1. observations = <<>> /\ observations \in Seq({})
        BY DEF ObservationInit
      <3>. QED
        BY <3>1 DEF RecordsAreShown
    <2>. QED
      BY <2>1, <2>2 DEF ObservationInit, EvidenceInv, EvidenceCanBeShown
  <1>2. EvidenceInv => EvidenceCanBeShown
    BY DEF EvidenceInv
  <1>. QED
    BY <1>1, <1>2, StepEvidence, PTL DEF ObservationSpec

-----------------------------------------------------------------------------
(* Least and greatest numbers.                                              *)

LEMMA LeastExists ==
    ASSUME NEW T, T \subseteq Nat, T # {} PROVE \E x \in T : \A y \in T : x <= y
  <1>1. IsWellFoundedOn(OpToRel(<, Nat), Nat)
    BY NatLessThanWellFounded
  <1>2. \A x, y \in Nat : <<y, x>> \in OpToRel(<, Nat) <=> y < x
    BY DEF OpToRel
  <1>3. PICK less : /\ IsWellFoundedOn(less, Nat)
                    /\ \A x, y \in Nat : <<y, x>> \in less <=> y < x
    BY <1>1, <1>2, Zenon
  <1>4. PICK x \in T : \A y \in T : ~(<<y, x>> \in less)
    BY <1>3, WFMin
  <1>5. ASSUME NEW y \in T PROVE x <= y
    <2>1. x \in Nat /\ y \in Nat
      OBVIOUS
    <2>2. ~(y < x)
      BY <1>3, <1>4, <2>1, Zenon
    <2>. QED
      BY <2>1, <2>2
  <1>. QED
    BY <1>5

\* A set of integers with a bound has a greatest, or a least.
LEMMA GreatestExists ==
    ASSUME NEW T, T \subseteq Int, T # {}, NEW b \in Int, \A x \in T : x <= b
    PROVE  /\ Max(T) \in T
           /\ \A x \in T : x <= Max(T)
  <1> DEFINE gaps == {b - x : x \in T}
  <1>1. gaps \subseteq Nat /\ gaps # {}
    <2>1. \A x \in T : b - x \in Nat
      OBVIOUS
    <2>2. PICK x : x \in T
      OBVIOUS
    <2>3. b - x \in gaps
      BY <2>2
    <2>. QED
      BY <2>1, <2>3
  <1>2. PICK g \in gaps : \A y \in gaps : g <= y
    BY <1>1, LeastExists
  <1>3. PICK x \in T : g = b - x
    OBVIOUS
  <1>4. \A y \in T : x >= y
    BY <1>2, <1>3
  <1>. QED
    BY <1>4 DEF Max

LEMMA MaxIsReached ==
    ASSUME NEW T, T \subseteq Int, T # {}, \E b \in Int : \A x \in T : x <= b
    PROVE  Max(T) \in T /\ \A x \in T : x <= Max(T)
  BY GreatestExists

LEMMA LeastIsMin ==
    ASSUME NEW T, T \subseteq Int, T # {}, NEW b \in Int, \A x \in T : b <= x
    PROVE  /\ Min(T) \in T
           /\ \A x \in T : Min(T) <= x
  <1> DEFINE gaps == {x - b : x \in T}
  <1>1. gaps \subseteq Nat /\ gaps # {}
    <2>1. \A x \in T : x - b \in Nat
      OBVIOUS
    <2>2. PICK x : x \in T
      OBVIOUS
    <2>3. x - b \in gaps
      BY <2>2
    <2>. QED
      BY <2>1, <2>3
  <1>2. PICK g \in gaps : \A y \in gaps : g <= y
    BY <1>1, LeastExists
  <1>3. PICK x \in T : g = x - b
    OBVIOUS
  <1>4. \A y \in T : x =< y
    BY <1>2, <1>3
  <1>. QED
    BY <1>4 DEF Min

LEMMA FiniteImage ==
    ASSUME NEW S, IsFiniteSet(S), NEW f, DOMAIN f = S, f = [x \in S |-> f[x]]
    PROVE  IsFiniteSet({f[x] : x \in S})
  <1> DEFINE T == {f[x] : x \in S}
  <1>1. f \in Surjection(S, T)
    BY DEF Surjection
  <1>. QED
    BY <1>1, FS_Surjection

LEMMA FewerInSubset ==
    ASSUME NEW S, IsFiniteSet(S), NEW T, T \subseteq S
    PROVE  /\ IsFiniteSet(T) /\ Cardinality(T) \in Nat /\ Cardinality(S) \in Nat
           /\ Cardinality(T) <= Cardinality(S)
           /\ S # T => Cardinality(T) < Cardinality(S)
  BY FS_Subset, FS_CardinalityType

-----------------------------------------------------------------------------
(* The capture loop.                                                        *)

LEMMA CollectorNumbers ==
    /\ Day \in Nat /\ Day > 0 /\ Hour \in Nat /\ Hour > 0
    /\ ResearchCadence \in Nat /\ ResearchCadence > 0 /\ MinBooks \in Nat /\ MinBooks > 0
    /\ HalfWidth \in Nat /\ HalfWidth <= Day /\ MaxStaleness \in Nat /\ MaxOversleep \in Nat
  <1>1. Day \in Nat \ {0} /\ Hour \in Nat \ {0} /\ ResearchCadence \in Nat \ {0} /\ MinBooks \in Nat \ {0}
    BY CollectorAssumption, Zenon
  <1>2. HalfWidth \in 0..Day /\ MaxStaleness \in Nat /\ MaxOversleep \in Nat
    BY CollectorAssumption, Zenon
  <1>. QED
    BY <1>1, <1>2

LEMMA TrackedIsFinite == IsFiniteSet(Tracked) /\ Tracked # {}
  BY CollectorAssumption, Zenon

\* The instant of a point of the grid, counted from the start of a loop.
GridAt(k) == ResearchCadence * k

LEMMA GridGrows ==
    /\ \A k \in Nat : GridAt(k) \in Nat /\ GridAt(k) >= k
    /\ GridAt(0) = 0
  <1>1. GridAt(0) = 0
    BY CollectorNumbers DEF GridAt
  <1>2. ASSUME NEW k \in Nat PROVE GridAt(k) \in Nat /\ GridAt(k) >= k
    BY CollectorNumbers DEF GridAt
  <1>. QED
    BY <1>1, <1>2

\* The next point is past the present one, and still ahead.
LEMMA NextTickIsAhead ==
    ASSUME NEW l, l.tick \in Nat, l.started \in Nat, NEW t \in Nat
    PROVE  /\ NextTick(l, t) \in Nat /\ NextTick(l, t) > l.tick
           /\ l.started + GridAt(NextTick(l, t)) > t
  <1> DEFINE ahead == {k \in (l.tick + 1)..(l.tick + 1 + t) : l.started + ResearchCadence * k > t}
  <1>1. l.tick + 1 + t \in ahead
    BY GridGrows DEF GridAt
  <1>2. ahead \subseteq Nat
    OBVIOUS
  <1>3. PICK k \in ahead : \A j \in ahead : k <= j
    BY <1>1, <1>2, LeastExists
  <1>4. \A j \in (l.tick + 1)..(k - 1) : l.started + ResearchCadence * j <= t
    <2>1. SUFFICES ASSUME NEW j \in (l.tick + 1)..(k - 1), ~(l.started + ResearchCadence * j <= t) PROVE FALSE
      OBVIOUS
    <2>2. j \in (l.tick + 1)..(l.tick + 1 + t) /\ j < k /\ j \in Nat
      BY <1>2
    <2>3. l.started + ResearchCadence * j > t
      BY <2>1, <2>2, CollectorNumbers
    <2>. QED
      BY <1>3, <2>2, <2>3
  <1>5. \E n \in (l.tick + 1)..(l.tick + 1 + t) :
            /\ l.started + ResearchCadence * n > t
            /\ \A j \in (l.tick + 1)..(n - 1) : l.started + ResearchCadence * j <= t
    BY <1>3, <1>4
  <1>6. /\ NextTick(l, t) \in (l.tick + 1)..(l.tick + 1 + t)
        /\ l.started + ResearchCadence * NextTick(l, t) > t
    BY <1>5, Zenon DEF NextTick
  <1>. QED
    BY <1>6 DEF GridAt

\* Windows are at whole ticks.
LEMMA WindowsAreInts ==
    ASSUME NEW day \in Int, NEW publications, publications \subseteq Int,
           NEW w \in WindowsForDay(day, publications)
    PROVE  w.anchor \in Int
  <1>1. ObservedHours(publications) \subseteq {HourOf(p) : p \in publications}
    BY DEF ObservedHours
  <1>2. ObservedHours(publications) \subseteq Int
    BY <1>1, CollectorNumbers DEF HourOf
  <1>3. \A h \in Int : day * Day + h * Hour \in Int
    BY CollectorNumbers
  <1>4. DocumentedHours \subseteq Int
    BY CollectorAssumption
  <1>. QED
    BY <1>2, <1>3, <1>4 DEF WindowsForDay

LEMMA ActiveIsInt ==
    ASSUME NEW t \in Nat, NEW publications, publications \subseteq Int
    PROVE  ActiveWindow(t, publications).anchor \in Int
  <1> DEFINE open == {w \in UNION {WindowsForDay(DateOf(t) + o, publications) : o \in -1..1} : Covers(w, t)}
  <1>1. \A w \in open : w.anchor \in Int /\ t - HalfWidth <= w.anchor
    <2>1. SUFFICES ASSUME NEW w \in open PROVE w.anchor \in Int /\ t - HalfWidth <= w.anchor
      OBVIOUS
    <2>2. PICK o \in -1..1 : w \in WindowsForDay(DateOf(t) + o, publications)
      OBVIOUS
    <2>3. DateOf(t) + o \in Int
      BY CollectorNumbers DEF DateOf
    <2>4. w.anchor \in Int
      BY <2>2, <2>3, WindowsAreInts
    <2>. QED
      BY <2>4, CollectorNumbers DEF Covers, End
  <1>2. CASE open = {}
    BY <1>2 DEF ActiveWindow, NoWindow
  <1>3. CASE open # {}
    <2> DEFINE anchors == {w.anchor : w \in open}
    <2>1. anchors \subseteq Int /\ anchors # {} /\ \A a \in anchors : t - HalfWidth <= a
      BY <1>1, <1>3
    <2>2. Min(anchors) \in anchors /\ \A a \in anchors : Min(anchors) <= a
      <3>1. t - HalfWidth \in Int
        BY CollectorNumbers
      <3>. HIDE DEF anchors
      <3>. QED
        BY <2>1, <3>1, LeastIsMin
    <2>3. PICK w \in open : w.anchor = Min(anchors)
      BY <2>2
    <2>4. \A v \in open : w.anchor <= v.anchor
      BY <2>2, <2>3
    <2>5. ActiveWindow(t, publications) = CHOOSE x \in open : \A v \in open : x.anchor <= v.anchor
      BY <1>3 DEF ActiveWindow
    <2>6. ActiveWindow(t, publications) \in open
      BY <2>4, <2>5
    <2>. QED
      BY <1>1, <2>6
  <1>. QED
    BY <1>2, <1>3

LEMMA DeadlineIsInt ==
    ASSUME NEW window, window.anchor \in Int, NEW budget \in Nat, NEW t \in Nat
    PROVE  Deadline(window, budget, t) \in Int
  <1>1. End(window) \in Int /\ t + budget \in Int
    BY CollectorNumbers DEF End
  <1>2. Min({End(window), t + budget}) \in Int
    <2> DEFINE T == {End(window), t + budget}
               b == IF End(window) <= t + budget THEN End(window) ELSE t + budget
    <2>1. T \subseteq Int /\ T # {} /\ b \in Int /\ \A x \in T : b <= x
      BY <1>1
    <2>. HIDE DEF T, b
    <2>2. Min(T) \in T
      BY <2>1, LeastIsMin
    <2>. QED
      BY <2>1, <2>2 DEF T
  <1>. QED
    BY <1>1, <1>2 DEF Deadline, NoDeadline

LoopFields == {"pc", "started", "window", "deadline", "tick", "skipped", "wake", "from", "starts"}

LoopIsLoop ==
    /\ now \in Nat /\ issued \subseteq Int
    /\ DOMAIN loop = LoopFields
    /\ loop.started \in Nat /\ loop.tick \in Nat /\ loop.skipped \in Nat
    /\ loop.wake \in Nat /\ loop.deadline \in Int
    /\ IsFiniteSet(loop.starts)
    /\ \A s \in loop.starts : s = [tick |-> s.tick, at |-> s.at] /\ s.tick \in Nat /\ s.at \in Nat

\* A start is at its point of the grid, which the deadline allows.
StartIsOnGrid(s) ==
    /\ loop.started + GridAt(s.tick) <= s.at /\ s.at <= loop.started + GridAt(s.tick) + MaxOversleep
    /\ loop.deadline # NoDeadline /\ s.tick > 0 => loop.started + GridAt(s.tick) < loop.deadline

StartsAreOnGrid ==
    loop.pc # "idle" =>
        /\ \A s, r \in loop.starts : s.tick = r.tick => s = r
        /\ \A s \in loop.starts : s.tick <= loop.tick /\ StartIsOnGrid(s)
        /\ loop.pc = "capturing" => Cardinality(loop.starts) + loop.skipped = loop.tick + 1

SleepsToTheGrid ==
    loop.pc = "sleeping" =>
        /\ loop.wake = loop.started + GridAt(loop.tick)
        /\ now <= loop.wake + MaxOversleep
        /\ loop.deadline # NoDeadline => loop.wake < loop.deadline
        /\ \A s \in loop.starts : s.tick < loop.tick
        /\ Cardinality(loop.starts) + loop.skipped = loop.tick

LoopInv == LoopIsLoop /\ StartsAreOnGrid /\ SleepsToTheGrid

\* A loop that starts captures at once.
LEMMA StartLoopKeeps == ASSUME LoopInv, StartLoop PROVE LoopInv'
  <1>1. PICK budget \in Budgets :
          LET window == ActiveWindow(now, issued) IN
          loop' = [Idle EXCEPT !.pc = "capturing", !.started = now, !.window = window,
                               !.deadline = Deadline(window, budget, now), !.from = now,
                               !.starts = {[tick |-> 0, at |-> now]}]
    BY DEF StartLoop
  <1>2. PICK s : s = [tick |-> 0, at |-> now]
    OBVIOUS
  <1>3. now' = now /\ issued' = issued /\ now \in Nat /\ issued \subseteq Int /\ budget \in Nat
    BY CollectorAssumption DEF StartLoop, LoopInv, LoopIsLoop
  <1>4. Deadline(ActiveWindow(now, issued), budget, now) \in Int
    BY <1>3, ActiveIsInt, DeadlineIsInt
  <1>5. /\ DOMAIN Idle = LoopFields /\ Idle.tick = 0 /\ Idle.skipped = 0 /\ Idle.wake = 0
    BY DEF Idle, LoopFields
  <1>6. /\ DOMAIN loop' = LoopFields /\ loop'.pc = "capturing" /\ loop'.started = now /\ loop'.tick = 0
        /\ loop'.skipped = 0 /\ loop'.wake = 0 /\ loop'.deadline \in Int /\ loop'.starts = {s}
    BY <1>1, <1>2, <1>4, <1>5 DEF LoopFields
  <1>7. s.tick = 0 /\ s.at = now
    BY <1>2
  <1>8. IsFiniteSet({s}) /\ Cardinality({s}) = 1
    BY FS_Singleton
  <1>9. LoopIsLoop'
    BY <1>2, <1>3, <1>6, <1>7, <1>8 DEF LoopIsLoop
  <1>10. StartsAreOnGrid'
    BY <1>3, <1>6, <1>7, <1>8, GridGrows, CollectorNumbers DEF StartsAreOnGrid, StartIsOnGrid
  <1>11. SleepsToTheGrid'
    BY <1>6 DEF SleepsToTheGrid
  <1>. QED
    BY <1>9, <1>10, <1>11 DEF LoopInv

\* After a capture, whatever became of it.
LEMMA OnwardKeeps ==
    ASSUME LoopInv, loop.pc = "capturing", loop' = Onward(loop), UNCHANGED <<now, issued>> PROVE LoopInv'
  <1> DEFINE k == NextTick(loop, now)
             on == [loop EXCEPT !.tick = k, !.skipped = loop.skipped + (k - loop.tick - 1)]
  <1>1. k \in Nat /\ k > loop.tick /\ loop.started + GridAt(k) > now
    BY NextTickIsAhead DEF LoopInv, LoopIsLoop
  <1>2. GridAt(k) \in Nat
    BY <1>1, GridGrows
  <1>3. WakeAt(loop, k, now) = loop.started + GridAt(k)
    BY DEF WakeAt, GridAt
  <1>. HIDE DEF k
  <1>4. /\ DOMAIN on = LoopFields /\ on.started = loop.started /\ on.tick = k /\ on.wake = loop.wake
        /\ on.skipped = loop.skipped + (k - loop.tick - 1) /\ on.deadline = loop.deadline
        /\ on.starts = loop.starts
    BY DEF LoopInv, LoopIsLoop, LoopFields
  <1>5. Cardinality(loop.starts) \in Nat /\ Cardinality(loop.starts) + loop.skipped = loop.tick + 1
    BY FS_CardinalityType DEF LoopInv, LoopIsLoop, StartsAreOnGrid
  <1>. HIDE DEF on
  <1>6. CASE loop' = [loop EXCEPT !.pc = "done"]
    <2>1. /\ DOMAIN loop' = LoopFields /\ loop'.pc = "done" /\ loop'.started = loop.started
          /\ loop'.tick = loop.tick /\ loop'.skipped = loop.skipped /\ loop'.wake = loop.wake
          /\ loop'.deadline = loop.deadline /\ loop'.starts = loop.starts
      BY <1>6 DEF LoopInv, LoopIsLoop, LoopFields
    <2>. QED
      BY <2>1 DEF LoopInv, LoopIsLoop, StartsAreOnGrid, SleepsToTheGrid, StartIsOnGrid
  <1>7. CASE loop' = [on EXCEPT !.pc = "done"]
    <2>1. /\ DOMAIN loop' = LoopFields /\ loop'.pc = "done" /\ loop'.started = loop.started
          /\ loop'.tick = k /\ loop'.skipped = on.skipped /\ loop'.wake = loop.wake
          /\ loop'.deadline = loop.deadline /\ loop'.starts = loop.starts
      BY <1>4, <1>7 DEF LoopFields
    <2>2. loop'.skipped \in Nat
      BY <1>1, <1>4, <2>1 DEF LoopInv, LoopIsLoop
    <2>3. \A s \in loop.starts : s.tick <= k
      BY <1>1 DEF LoopInv, LoopIsLoop, StartsAreOnGrid
    <2>. QED
      BY <1>1, <2>1, <2>2, <2>3 DEF LoopInv, LoopIsLoop, StartsAreOnGrid, SleepsToTheGrid, StartIsOnGrid
  <1>8. CASE /\ ~(WakeAt(loop, k, now) >= loop.deadline)
             /\ loop' = [on EXCEPT !.pc = "sleeping", !.wake = WakeAt(loop, k, now)]
    <2>1. /\ DOMAIN loop' = LoopFields /\ loop'.pc = "sleeping" /\ loop'.started = loop.started
          /\ loop'.tick = k /\ loop'.skipped = on.skipped /\ loop'.wake = loop.started + GridAt(k)
          /\ loop'.deadline = loop.deadline /\ loop'.starts = loop.starts
      BY <1>3, <1>4, <1>8 DEF LoopFields
    <2>2. loop'.skipped \in Nat /\ loop'.wake \in Nat /\ loop'.wake < loop.deadline /\ now <= loop'.wake + MaxOversleep
      BY <1>1, <1>2, <1>3, <1>4, <1>8, <2>1, CollectorNumbers DEF LoopInv, LoopIsLoop
    <2>3. \A s \in loop.starts : s.tick < k
      BY <1>1 DEF LoopInv, LoopIsLoop, StartsAreOnGrid
    <2>4. Cardinality(loop.starts) + loop'.skipped = k
      BY <1>1, <1>4, <1>5, <2>1 DEF LoopInv, LoopIsLoop
    <2>5. LoopIsLoop' /\ SleepsToTheGrid'
      BY <1>1, <2>1, <2>2, <2>3, <2>4 DEF LoopInv, LoopIsLoop, SleepsToTheGrid
    <2>6. StartsAreOnGrid'
      BY <1>1, <2>1, <2>3 DEF LoopInv, LoopIsLoop, StartsAreOnGrid, StartIsOnGrid
    <2>. QED
      BY <2>5, <2>6 DEF LoopInv
  <1>. QED
    BY <1>6, <1>7, <1>8 DEF Onward, k, on

LEMMA WakeKeeps == ASSUME LoopInv, Wake PROVE LoopInv'
  <1>1. PICK s : s = [tick |-> loop.tick, at |-> now]
    OBVIOUS
  <1>2. /\ loop' = [loop EXCEPT !.pc = "capturing", !.from = now, !.starts = loop.starts \cup {s}]
        /\ loop.pc = "sleeping" /\ now >= loop.wake /\ UNCHANGED <<now, issued>>
    BY <1>1 DEF Wake
  <1>3. s.tick = loop.tick /\ s.at = now
    BY <1>1
  <1>4. /\ DOMAIN loop' = LoopFields /\ loop'.pc = "capturing" /\ loop'.started = loop.started
        /\ loop'.tick = loop.tick /\ loop'.skipped = loop.skipped /\ loop'.wake = loop.wake
        /\ loop'.deadline = loop.deadline /\ loop'.starts = loop.starts \cup {s}
    BY <1>2 DEF LoopInv, LoopIsLoop, LoopFields
  <1>5. /\ loop.wake = loop.started + GridAt(loop.tick)
        /\ now <= loop.wake + MaxOversleep
        /\ loop.deadline # NoDeadline => loop.wake < loop.deadline
        /\ \A r \in loop.starts : r.tick < loop.tick
        /\ Cardinality(loop.starts) + loop.skipped = loop.tick
    BY <1>2 DEF LoopInv, SleepsToTheGrid
  <1>6. /\ now \in Nat /\ loop.tick \in Nat /\ loop.skipped \in Nat /\ IsFiniteSet(loop.starts)
        /\ \A r \in loop.starts : r.tick \in Nat /\ r.at \in Nat
    BY DEF LoopInv, LoopIsLoop
  <1>7. s \notin loop.starts
    BY <1>3, <1>5, <1>6
  <1>8. /\ IsFiniteSet(loop.starts \cup {s}) /\ Cardinality(loop.starts) \in Nat
        /\ Cardinality(loop.starts \cup {s}) = Cardinality(loop.starts) + 1
    BY <1>6, <1>7, FS_AddElement, FS_CardinalityType
  <1>9. LoopIsLoop'
    BY <1>1, <1>2, <1>3, <1>4, <1>8 DEF LoopInv, LoopIsLoop
  <1>10. StartsAreOnGrid'
    <2>1. \A r, q \in loop'.starts : r.tick = q.tick => r = q
      BY <1>2, <1>3, <1>4, <1>5, <1>6 DEF LoopInv, StartsAreOnGrid
    <2>2. StartIsOnGrid(s)'
      BY <1>2, <1>3, <1>4, <1>5 DEF StartIsOnGrid
    <2>3. \A r \in loop.starts : r.tick <= loop.tick /\ StartIsOnGrid(r)'
      BY <1>2, <1>4 DEF LoopInv, StartsAreOnGrid, StartIsOnGrid
    <2>4. Cardinality(loop'.starts) + loop'.skipped = loop'.tick + 1
      BY <1>4, <1>5, <1>6, <1>8
    <2>. QED
      BY <1>3, <1>4, <1>6, <2>1, <2>2, <2>3, <2>4 DEF StartsAreOnGrid
  <1>11. SleepsToTheGrid'
    BY <1>4 DEF SleepsToTheGrid
  <1>. QED
    BY <1>9, <1>10, <1>11 DEF LoopInv

LEMMA StepLoop == LoopInv /\ [CollectorNext]_collectorVars => LoopInv'
  <1>. SUFFICES ASSUME LoopInv, [CollectorNext]_collectorVars PROVE LoopInv'
    OBVIOUS
  <1>1. CASE CaptureEnds \/ CaptureFails
    BY <1>1, OnwardKeeps DEF CaptureEnds, CaptureFails
  <1>2. CASE LoopEnds
    <2>1. /\ DOMAIN Idle = LoopFields /\ Idle.tick = 0 /\ Idle.skipped = 0 /\ Idle.wake = 0 /\ Idle.started = 0
          /\ Idle.pc = "idle" /\ Idle.deadline = -1 /\ Idle.starts = {}
      BY DEF Idle, LoopFields, NoDeadline
    <2>2. loop' = Idle /\ UNCHANGED <<now, issued>>
      BY <1>2 DEF LoopEnds
    <2>. QED
      BY <2>1, <2>2, FS_EmptySet DEF LoopInv, LoopIsLoop, StartsAreOnGrid, SleepsToTheGrid
  <1>3. CASE UNCHANGED <<now, loop>> /\ issued' \subseteq Int
    BY <1>3 DEF LoopInv, LoopIsLoop, StartsAreOnGrid, StartIsOnGrid, SleepsToTheGrid
  <1>4. CASE RecordIssuance
    BY <1>3, <1>4 DEF RecordIssuance, LoopInv, LoopIsLoop
  <1>5. CASE Elapse
    <2>1. /\ now' = now + 1 /\ UNCHANGED <<issued, loop>>
          /\ loop.pc = "sleeping" => now < loop.wake + MaxOversleep
      BY <1>5 DEF Elapse
    <2>2. LoopIsLoop' /\ StartsAreOnGrid'
      BY <2>1 DEF LoopInv, LoopIsLoop, StartsAreOnGrid, StartIsOnGrid
    <2>3. SleepsToTheGrid'
      BY <2>1, CollectorNumbers DEF LoopInv, LoopIsLoop, SleepsToTheGrid
    <2>. QED
      BY <2>2, <2>3 DEF LoopInv
  <1>6. CASE ReportHealth \/ UNCHANGED collectorVars
    BY <1>3, <1>6 DEF ReportHealth, collectorVars, LoopInv, LoopIsLoop
  <1>. QED
    BY <1>1, <1>2, <1>4, <1>5, <1>6, StartLoopKeeps, WakeKeeps DEF CollectorNext

LEMMA InitLoop == CollectorInit => LoopInv
  <1>. SUFFICES ASSUME CollectorInit PROVE LoopInv
    OBVIOUS
  <1>1. /\ DOMAIN Idle = LoopFields /\ Idle.tick = 0 /\ Idle.skipped = 0 /\ Idle.wake = 0 /\ Idle.started = 0
        /\ Idle.pc = "idle" /\ Idle.deadline = -1 /\ Idle.starts = {}
    BY DEF Idle, LoopFields, NoDeadline
  <1>. QED
    BY <1>1, FS_EmptySet, CollectorAssumption
       DEF CollectorInit, LoopInv, LoopIsLoop, StartsAreOnGrid, SleepsToTheGrid

LEMMA GridInvariant == LoopInv => CapturesStayOnGrid
  <1>. SUFFICES ASSUME LoopInv, loop.pc # "idle" PROVE CapturesStayOnGrid
    BY DEF CapturesStayOnGrid
  <1>1. ASSUME NEW s \in loop.starts
        PROVE  /\ s.at \in (loop.started + ResearchCadence * s.tick)..
                           (loop.started + ResearchCadence * s.tick + MaxOversleep)
               /\ loop.deadline # NoDeadline /\ s.tick > 0
                     => loop.started + ResearchCadence * s.tick < loop.deadline
    <2>1. StartIsOnGrid(s) /\ s.tick \in Nat /\ s.at \in Nat /\ loop.started \in Nat
      BY DEF LoopInv, LoopIsLoop, StartsAreOnGrid
    <2>2. GridAt(s.tick) \in Nat
      BY <2>1, GridGrows
    <2>. QED
      BY <2>1, <2>2, CollectorNumbers DEF StartIsOnGrid, GridAt
  <1>. QED
    BY <1>1 DEF LoopInv, StartsAreOnGrid, CapturesStayOnGrid

-----------------------------------------------------------------------------
(* The health report.                                                       *)

\* The books of one market observed within a span.
BooksOf(books, m, from, to) == {b \in books : b.market = m /\ b.observed \in from..to}

\* What a passing report has behind it.
Earned(h, books) ==
    /\ \E b \in books : b.observed \in (h.at - MaxStaleness)..h.at
    /\ \E m \in Tracked, a \in (h.at - 2 * Day)..h.at :
          /\ a + HalfWidth <= h.at
          /\ Cardinality(BooksOf(books, m, a - HalfWidth, a + HalfWidth)) >= MinBooks

HealthInv ==
    /\ IsFiniteSet(archive)
    /\ \A b \in archive : b.observed \in Nat /\ b.observed <= now
    /\ \A h \in health : h.passing => Earned(h, archive)

\* The archive only grows, and with it what stands behind a report.
LEMMA EarnedStays ==
    ASSUME NEW h, NEW books, NEW more, IsFiniteSet(more), books \subseteq more, Earned(h, books)
    PROVE  Earned(h, more)
  <1>1. PICK m \in Tracked, a \in (h.at - 2 * Day)..h.at :
            /\ a + HalfWidth <= h.at
            /\ Cardinality(BooksOf(books, m, a - HalfWidth, a + HalfWidth)) >= MinBooks
    BY DEF Earned
  <1>2. BooksOf(more, m, a - HalfWidth, a + HalfWidth) \subseteq more
    BY DEF BooksOf
  <1>3. BooksOf(books, m, a - HalfWidth, a + HalfWidth) \subseteq BooksOf(more, m, a - HalfWidth, a + HalfWidth)
    BY DEF BooksOf
  <1> DEFINE few == Cardinality(BooksOf(books, m, a - HalfWidth, a + HalfWidth))
             many == Cardinality(BooksOf(more, m, a - HalfWidth, a + HalfWidth))
  <1>4. few \in Nat /\ many \in Nat /\ few <= many
    <2>1. IsFiniteSet(BooksOf(more, m, a - HalfWidth, a + HalfWidth))
      BY <1>2, FewerInSubset
    <2>. QED
      BY <1>3, <2>1, FewerInSubset
  <1>5. many >= MinBooks
    <2>1. few >= MinBooks
      BY <1>1
    <2>. HIDE DEF few, many
    <2>. QED
      BY <1>4, <2>1, CollectorNumbers
  <1>6. \E b \in more : b.observed \in (h.at - MaxStaleness)..h.at
    BY DEF Earned
  <1>. QED
    BY <1>1, <1>5, <1>6 DEF Earned

\* The best market of a window, by a market that reaches it.
LEMMA BestMarketIsReached ==
    ASSUME NEW books, IsFiniteSet(books), NEW w
    PROVE  /\ BestMarket(w, books) \in Nat /\ BestMarket(w, books) <= Cardinality(books)
           /\ \E m \in Tracked :
                 BestMarket(w, books) = Cardinality({b \in books : b.market = m /\ Covers(w, b.observed)})
  <1> DEFINE Of(m) == {b \in books : b.market = m /\ Covers(w, b.observed)}
             counts == {Cardinality(Of(m)) : m \in Tracked}
  <1>1. \A m \in Tracked : Cardinality(Of(m)) \in Nat /\ Cardinality(Of(m)) <= Cardinality(books)
    <2>1. SUFFICES ASSUME NEW m \in Tracked
                   PROVE  Cardinality(Of(m)) \in Nat /\ Cardinality(Of(m)) <= Cardinality(books)
      OBVIOUS
    <2>2. Of(m) \subseteq books
      OBVIOUS
    <2>. QED
      BY <2>2, FewerInSubset
  <1>2. Cardinality(books) \in Nat
    BY FS_CardinalityType
  <1>3. counts \subseteq Int /\ counts # {} /\ \E n \in Int : \A c \in counts : c <= n
    <2>1. ASSUME NEW c \in counts PROVE c \in Int /\ c <= Cardinality(books)
      <3>1. PICK m \in Tracked : c = Cardinality(Of(m))
        OBVIOUS
      <3>. HIDE DEF Of
      <3>. QED
        BY <1>1, <3>1
    <2>2. PICK m : m \in Tracked
      BY TrackedIsFinite
    <2>3. Cardinality(Of(m)) \in counts
      BY <2>2
    <2>. QED
      <3>. HIDE DEF counts
      <3>. QED
        BY <1>2, <2>1, <2>3
  <1>4. Max(counts) \in counts
    <2>. HIDE DEF counts
    <2>. QED
      BY <1>3, MaxIsReached
  <1>5. BestMarket(w, books) = Max(counts)
    BY DEF BestMarket
  <1>6. PICK m \in Tracked : Max(counts) = Cardinality(Of(m))
    BY <1>4
  <1>. QED
    BY <1>1, <1>5, <1>6

\* A report that passes has been earned.
LEMMA ReportIsEarned ==
    ASSUME HealthInv, now \in Nat, issued \subseteq Int, HealthReport.passing
    PROVE  Earned(HealthReport, archive)
  <1> DEFINE since == now - Day
             recent == {p \in issued : p >= since}
             best == BestCompletedWindow(since, recent, archive)
  <1>1. HealthReport.at = now /\ best >= MinBooks /\ Fresh(archive)
    BY DEF HealthReport
  <1>2. recent \subseteq Int
    OBVIOUS
  <1>3. \E b \in archive : b.observed \in (now - MaxStaleness)..now
    <2> DEFINE seen == {b.observed : b \in archive}
    <2>1. seen \subseteq Int /\ seen # {} /\ \E n \in Int : \A x \in seen : x <= n
      <3>1. seen \subseteq Int /\ \A x \in seen : x <= now
        BY DEF HealthInv
      <3>2. PICK b : b \in archive
        BY <1>1 DEF Fresh
      <3>3. b.observed \in seen
        BY <3>2
      <3>. QED
        BY <3>1, <3>3
    <2>2. now - Max(seen) <= MaxStaleness
      BY <1>1 DEF Fresh
    <2>3. Max(seen) \in seen
      <3>. HIDE DEF seen
      <3>. QED
        BY <2>1, MaxIsReached
    <2>4. PICK b \in archive : b.observed = Max(seen)
      BY <2>3
    <2>. QED
      BY <2>2, <2>4, CollectorNumbers DEF HealthInv
  <1>4. \E m \in Tracked, a \in (now - 2 * Day)..now :
          /\ a + HalfWidth <= now
          /\ Cardinality(BooksOf(archive, m, a - HalfWidth, a + HalfWidth)) >= MinBooks
    <2> DEFINE bests == {0} \cup {BestMarket(w, archive) : w \in Completed(since, recent)}
    <2>1. IsFiniteSet(archive) /\ Cardinality(archive) \in Nat
      BY FS_CardinalityType DEF HealthInv
    <2>2. bests \subseteq Int /\ bests # {} /\ \E n \in Int : \A x \in bests : x <= n
      <3>1. ASSUME NEW w PROVE BestMarket(w, archive) \in Nat /\ BestMarket(w, archive) <= Cardinality(archive)
        BY <2>1, BestMarketIsReached
      <3>2. ASSUME NEW x \in bests PROVE x \in Int /\ x <= Cardinality(archive)
        <4>1. x = 0 \/ \E w \in Completed(since, recent) : x = BestMarket(w, archive)
          OBVIOUS
        <4>. HIDE DEF since, recent
        <4>. QED
          BY <2>1, <3>1, <4>1
      <3>3. 0 \in bests
        OBVIOUS
      <3>. HIDE DEF bests
      <3>. QED
        BY <2>1, <3>2, <3>3
    <2>3. Max(bests) \in bests
      <3>. HIDE DEF bests
      <3>. QED
        BY <2>2, MaxIsReached
    <2>4. best = Max(bests)
      BY DEF BestCompletedWindow
    <2>5. PICK w \in Completed(since, recent) : best = BestMarket(w, archive)
      <3>1. best \in bests
        BY <2>3, <2>4
      <3>2. best # 0
        <4>. HIDE DEF best
        <4>. QED
          BY <1>1, CollectorNumbers
      <3>. HIDE DEF best
      <3>. QED
        BY <3>1, <3>2
    <2>6. PICK m \in Tracked : best = Cardinality({b \in archive : b.market = m /\ Covers(w, b.observed)})
      <3>1. \E m \in Tracked :
                BestMarket(w, archive) = Cardinality({b \in archive : b.market = m /\ Covers(w, b.observed)})
        BY <2>1, BestMarketIsReached
      <3>. HIDE DEF best
      <3>. QED
        BY <2>5, <3>1
    <2>. HIDE DEF best, bests
    <2>7. End(w) >= since /\ End(w) <= now
      BY DEF Completed, WindowsBetween
    <2>8. PICK d \in (DateOf(since) - 1)..(DateOf(now) + 1) : w \in WindowsForDay(d, recent)
      BY DEF Completed, WindowsBetween
    <2>. HIDE DEF recent
    <2>9. w.anchor \in Int
      <3>1. d \in Int
        BY CollectorNumbers DEF DateOf
      <3>. QED
        BY <1>2, <2>8, <3>1, WindowsAreInts
    <2>10. w.anchor \in (now - 2 * Day)..now /\ w.anchor + HalfWidth <= now
      BY <2>7, <2>9, CollectorNumbers DEF End
    <2>11. {b \in archive : b.market = m /\ Covers(w, b.observed)}
              = BooksOf(archive, m, w.anchor - HalfWidth, w.anchor + HalfWidth)
      BY <2>9, CollectorNumbers DEF HealthInv, Covers, Start, End, BooksOf
    <2>. QED
      BY <1>1, <2>6, <2>10, <2>11
  <1>. QED
    BY <1>1, <1>3, <1>4 DEF Earned

LEMMA StepHealth == LoopInv /\ HealthInv /\ [CollectorNext]_collectorVars => HealthInv'
  <1>. SUFFICES ASSUME LoopInv, HealthInv, [CollectorNext]_collectorVars PROVE HealthInv'
    OBVIOUS
  <1>1. CASE UNCHANGED <<archive, health>> /\ now' >= now /\ now' \in Nat
    BY <1>1 DEF HealthInv, LoopInv, LoopIsLoop
  <1>2. CASE CaptureEnds
    <2> DEFINE asked == Targets(loop.window, loop.from)
               f == [m \in asked |-> Book(m, now)]
               taken == {Book(m, now) : m \in asked}
    <2>1. IsFiniteSet(asked)
      BY FS_Subset, CollectorAssumption DEF Targets
    <2>2. IsFiniteSet({f[m] : m \in asked})
      BY <2>1, FiniteImage
    <2>3. {f[m] : m \in asked} = taken
      OBVIOUS
    <2>4. archive' = archive \cup taken /\ UNCHANGED <<now, health>>
      BY <1>2 DEF CaptureEnds
    <2>5. \A b \in taken : b.observed = now
      BY DEF Book
    <2>. HIDE DEF taken
    <2>6. IsFiniteSet(archive') /\ archive \subseteq archive'
      BY <2>2, <2>3, <2>4, FS_Union DEF HealthInv
    <2>7. \A h \in health' : h.passing => Earned(h, archive')
      BY <2>4, <2>6, EarnedStays DEF HealthInv
    <2>8. \A b \in archive' : b.observed \in Nat /\ b.observed <= now'
      BY <2>4, <2>5 DEF HealthInv, LoopInv, LoopIsLoop
    <2>. QED
      BY <2>6, <2>7, <2>8 DEF HealthInv
  <1>3. CASE ReportHealth
    <2>1. health' = health \cup {HealthReport} /\ UNCHANGED <<now, archive>>
      BY <1>3 DEF ReportHealth
    <2>2. HealthReport.passing => Earned(HealthReport, archive)
      BY ReportIsEarned DEF LoopInv, LoopIsLoop
    <2>. QED
      BY <2>1, <2>2 DEF HealthInv
  <1>4. now \in Nat /\ now + 1 \in Nat
    BY DEF LoopInv, LoopIsLoop
  <1>5. CASE StartLoop \/ CaptureFails \/ Wake \/ LoopEnds \/ RecordIssuance \/ Elapse \/ UNCHANGED collectorVars
    <2>1. UNCHANGED <<archive, health>> /\ (now' = now \/ now' = now + 1)
      BY <1>5, Zenon DEF StartLoop, CaptureFails, Wake, LoopEnds, RecordIssuance, Elapse, collectorVars
    <2>. QED
      BY <1>1, <1>4, <2>1
  <1>. QED
    BY <1>2, <1>3, <1>5 DEF CollectorNext

\* The loop captures on its grid, drops what it overran and stops at its deadline,
\* however long captures and sleeps take; and a report that passes has a market
\* that was captured through one whole window and a book of late (jobs.py
\* job_research_books, alpha/collection_health.py).
THEOREM CollectionHonest == CollectorSpec => []CollectionIsHonest
  <1>1. CollectorInit => LoopInv /\ HealthInv
    <2>1. CollectorInit => HealthInv
      BY FS_EmptySet DEF CollectorInit, HealthInv
    <2>. QED
      BY <2>1, InitLoop
  <1>2. LoopInv /\ HealthInv => CollectionIsHonest
    <2>1. HealthInv => HealthIsEarned
      BY DEF HealthInv, HealthIsEarned, Earned, BooksOf
    <2>. QED
      BY <2>1, GridInvariant DEF CollectionIsHonest
  <1>. QED
    BY <1>1, <1>2, StepLoop, StepHealth, PTL DEF CollectorSpec

-----------------------------------------------------------------------------
(* What the published snapshot keeps.                                       *)

\* Rows that find their market among the given ones by its id.
Fit(rows, markets) ==
    \A r \in rows : r.market # Null => \E m \in markets : m.id = r.market /\ m.about = r.about

\* Ids are positive, below some bound, and one market's each.
Numbered(markets) ==
    /\ \A m \in markets : DOMAIN m = {"id", "about", "status", "traded", "text"} /\ m.id \in Nat \ {0}
    /\ \E b \in Nat : \A m \in markets : m.id <= b
    /\ \A m, n \in markets : m.id = n.id => m = n

DatabaseFields ==
    {"markets", "details", "books", "predictions", "recommendations", "frozen", "settlements"}

Sound(d) ==
    /\ DOMAIN d = DatabaseFields
    /\ Numbered(d.markets)
    /\ Fit(d.details, d.markets) /\ Fit(d.books, d.markets) /\ Fit(d.predictions, d.markets)
    /\ Fit(d.recommendations, d.markets) /\ Fit(d.frozen, d.markets) /\ Fit(d.settlements, d.markets)
    /\ Referred(d.frozen) \subseteq Referred(d.recommendations)
    /\ \A r \in d.settlements : "market" \in DOMAIN r

RetentionInv == Sound(db) /\ Sound(artefact)

\* A market that stays itself under another status keeps every row that named it.
SameMarkets(markets, others) ==
    \A m \in markets : \E n \in others : n.id = m.id /\ n.about = m.about

LEMMA FitMoves ==
    ASSUME NEW rows, NEW markets, NEW others, Fit(rows, markets), SameMarkets(markets, others)
    PROVE  Fit(rows, others)
  BY DEF Fit, SameMarkets

LEMMA RowsFit ==
    ASSUME NEW some, NEW markets, some \subseteq markets PROVE Fit(Rows(some), markets)
  BY DEF Fit, Rows, RowOf

LEMMA FitUnion ==
    ASSUME NEW some, NEW more, NEW markets, Fit(some, markets), Fit(more, markets)
    PROVE  Fit(some \cup more, markets)
  BY DEF Fit

LEMMA FitFewer ==
    ASSUME NEW some, NEW more, NEW markets, Fit(more, markets), some \subseteq more
    PROVE  Fit(some, markets)
  BY DEF Fit

\* Markets none of which is named are not missed.
LEMMA FitWhenNamed ==
    ASSUME NEW rows, NEW markets, NEW kept, Fit(rows, markets),
           \A m \in markets : m.id \in Referred(rows) => m \in kept
    PROVE  Fit(rows, kept)
  BY DEF Fit, Referred

LEMMA FitWithin ==
    ASSUME NEW rows, NEW markets, NEW kept, Fit(rows, markets), Numbered(markets), kept \subseteq markets
    PROVE  Fit(Within(rows, kept), kept)
  <1>. SUFFICES ASSUME NEW r \in Within(rows, kept), r.market # Null
                PROVE  \E m \in kept : m.id = r.market /\ m.about = r.about
    BY DEF Fit
  <1>1. PICK m \in kept : m.id = r.market
    BY DEF Within, Ids
  <1>2. PICK n \in markets : n.id = r.market /\ n.about = r.about
    BY DEF Fit, Within
  <1>. QED
    BY <1>1, <1>2 DEF Numbered

LEMMA NumberedFewer ==
    ASSUME NEW markets, NEW kept, Numbered(markets), kept \subseteq markets PROVE Numbered(kept)
  BY DEF Numbered

\* Markets rewritten one by one under their own ids.
LEMMA RenewedIsNumbered ==
    ASSUME NEW markets, NEW f, NEW others, Numbered(markets), others = {f[m] : m \in markets},
           \A m \in markets : f[m].id = m.id /\ f[m].about = m.about
                              /\ DOMAIN f[m] = {"id", "about", "status", "traded", "text"}
    PROVE  Numbered(others) /\ SameMarkets(markets, others)
  <1>1. PICK b \in Nat : \A m \in markets : m.id <= b
    BY DEF Numbered
  <1>2. \A o \in others : o.id <= b
    BY <1>1
  <1>3. \A o \in others : DOMAIN o = {"id", "about", "status", "traded", "text"} /\ o.id \in Nat \ {0}
    BY DEF Numbered
  <1>4. \A o, p \in others : o.id = p.id => o = p
    BY DEF Numbered
  <1>5. SameMarkets(markets, others)
    BY DEF SameMarkets
  <1>. QED
    BY <1>2, <1>3, <1>4, <1>5 DEF Numbered

LEMMA NextIdIsFree ==
    ASSUME NEW markets, Numbered(markets)
    PROVE  NextId(markets) \in Nat \ {0} /\ \A m \in markets : m.id < NextId(markets)
  <1>1. CASE markets = {}
    BY <1>1 DEF NextId
  <1>2. CASE markets # {}
    <2>1. Ids(markets) \subseteq Int /\ Ids(markets) # {}
      BY <1>2 DEF Ids, Numbered
    <2>2. PICK b \in Nat : \A x \in Ids(markets) : x <= b
      BY DEF Ids, Numbered
    <2>3. Max(Ids(markets)) \in Ids(markets) /\ \A x \in Ids(markets) : x <= Max(Ids(markets))
      BY <2>1, <2>2, GreatestExists
    <2>4. NextId(markets) = Max(Ids(markets)) + 1
      BY <1>2 DEF NextId
    <2>5. \A x \in Ids(markets) : x \in Nat \ {0}
      BY DEF Ids, Numbered
    <2>6. \A m \in markets : m.id \in Ids(markets)
      BY DEF Ids
    <2>. QED
      BY <2>3, <2>4, <2>5, <2>6
  <1>. QED
    BY <1>1, <1>2

LEMMA PlaceGrows ==
    ASSUME NEW S, IsFiniteSet(S), S \subseteq Nat
    PROVE  /\ \A x \in S : Place(x, S) \in Nat /\ Place(x, S) <= Cardinality(S)
           /\ \A x, y \in S : x < y => Place(x, S) < Place(y, S)
  <1>1. ASSUME NEW x \in S
        PROVE  Place(x, S) \in Nat /\ Place(x, S) <= Cardinality(S) /\ IsFiniteSet({z \in S : z < x})
    <2>1. {z \in S : z < x} \subseteq S
      OBVIOUS
    <2>. QED
      BY <2>1, FewerInSubset DEF Place
  <1>2. ASSUME NEW x \in S, NEW y \in S, x < y PROVE Place(x, S) < Place(y, S)
    <2>1. {z \in S : z < x} \subseteq {z \in S : z < y}
      <3>1. ASSUME NEW z \in S, z < x PROVE z < y
        <4>1. x \in Nat /\ y \in Nat /\ z \in Nat
          OBVIOUS
        <4>. QED
          BY <1>2, <3>1, <4>1
      <3>. QED
        BY <3>1
    <2>2. x \in {z \in S : z < y} /\ x \notin {z \in S : z < x}
      BY <1>2
    <2>. QED
      BY <1>1, <2>1, <2>2, FewerInSubset DEF Place
  <1>. QED
    BY <1>1, <1>2

LEMMA FeedIsFinite == IsFiniteSet(Feed) /\ Feed \subseteq Nat
  BY RetentionAssumption, Zenon

\* What the ingest makes of the markets: the known ones under their own ids, and
\* new ones under ids no market in use has.
Ingested(markets, seen, traded, fresh) ==
    {SeenAgain(m, seen, traded) : m \in markets}
    \cup {NewMarket(l, NextId(markets) + Place(l, fresh), traded) : l \in fresh}

LEMMA IngestNumbers ==
    ASSUME NEW markets, Numbered(markets), NEW seen, NEW traded, NEW fresh, fresh \subseteq Feed
    PROVE  /\ Numbered(Ingested(markets, seen, traded, fresh))
           /\ SameMarkets(markets, Ingested(markets, seen, traded, fresh))
  <1>0. PICK after : after = Ingested(markets, seen, traded, fresh)
    OBVIOUS
  <1> DEFINE f == [m \in markets |-> SeenAgain(m, seen, traded)]
             again == {f[m] : m \in markets}
             fields == {"id", "about", "status", "traded", "text"}
  <1>1. PICK first : first = NextId(markets)
    OBVIOUS
  <1>2. first \in Nat \ {0} /\ \A m \in markets : m.id < first
    BY <1>1, NextIdIsFree
  <1>3. PICK place : place = [l \in fresh |-> Place(l, fresh)]
    OBVIOUS
  <1>4. PICK size \in Nat : size = Cardinality(fresh)
    BY FeedIsFinite, FewerInSubset
  <1>5. /\ \A l \in fresh : place[l] \in Nat /\ place[l] <= size
        /\ \A k, l \in fresh : k < l => place[k] < place[l]
    <2>1. IsFiniteSet(fresh) /\ fresh \subseteq Nat
      BY FeedIsFinite, FewerInSubset
    <2>. QED
      BY <1>3, <1>4, <2>1, PlaceGrows
  <1>6. \A k, l \in fresh : place[k] = place[l] => k = l
    <2>1. \A k, l \in fresh : k \in Nat /\ l \in Nat
      BY FeedIsFinite
    <2>. QED
      BY <1>5, <2>1
  <1>7. PICK new : new = [l \in fresh |-> NewMarket(l, first + place[l], traded)]
    OBVIOUS
  <1>8. \A l \in fresh : new[l].id = first + place[l] /\ DOMAIN new[l] = fields
    BY <1>7 DEF NewMarket
  <1>9. \A m \in markets : f[m].id = m.id /\ f[m].about = m.about /\ DOMAIN f[m] = fields
    BY DEF Numbered, SeenAgain
  <1>10. Numbered(again) /\ SameMarkets(markets, again)
    <2>. HIDE DEF f
    <2>. QED
      BY <1>9, RenewedIsNumbered
  <1>11. after = again \cup {new[l] : l \in fresh}
    BY <1>0, <1>1, <1>3, <1>7 DEF Ingested
  <1>12. \A o \in again : o.id \in Nat \ {0} /\ o.id < first
    <2>1. \A m \in markets : f[m].id \in Nat \ {0} /\ f[m].id < first
      BY <1>2, <1>9 DEF Numbered
    <2>. HIDE DEF f
    <2>. QED
      BY <2>1
  <1>. HIDE DEF f, again
  <1>13. \A o \in after : DOMAIN o = fields /\ o.id \in Nat \ {0}
    BY <1>2, <1>5, <1>8, <1>10, <1>11 DEF Numbered
  <1>14. \A o \in after : o.id <= first + size
    BY <1>2, <1>4, <1>5, <1>8, <1>11, <1>12
  <1>15. ASSUME NEW o \in after, NEW p \in after, o.id = p.id PROVE o = p
    <2>1. CASE o \in again /\ p \in again
      BY <1>10, <1>15, <2>1 DEF Numbered
    <2>2. ASSUME NEW l \in fresh, NEW q \in again PROVE new[l].id # q.id
      BY <1>2, <1>5, <1>8, <1>12
    <2>3. ASSUME NEW k \in fresh, NEW l \in fresh, new[k].id = new[l].id PROVE k = l
      BY <1>2, <1>5, <1>6, <1>8, <2>3
    <2>. QED
      BY <1>11, <1>15, <2>1, <2>2, <2>3
  <1>16. SameMarkets(markets, after)
    BY <1>10, <1>11 DEF SameMarkets
  <1>17. first + size \in Nat
    BY <1>2
  <1>18. Numbered(after)
    BY <1>13, <1>14, <1>15, <1>17 DEF Numbered
  <1>. QED
    BY <1>0, <1>16, <1>18

\* A job that leaves the markets alone, or renews them, and adds rows that fit.
LEMMA SoundAfter ==
    ASSUME NEW d, NEW e, Sound(d), DOMAIN e = DatabaseFields, Numbered(e.markets),
           SameMarkets(d.markets, e.markets),
           \/ e.details = d.details \/ Fit(e.details, e.markets),
           \/ e.books = d.books \/ Fit(e.books, e.markets),
           \/ e.predictions = d.predictions \/ Fit(e.predictions, e.markets),
           \/ /\ e.recommendations = d.recommendations /\ e.frozen = d.frozen
           \/ /\ Fit(e.recommendations, e.markets) /\ Fit(e.frozen, e.markets)
              /\ Referred(e.frozen) \subseteq Referred(e.recommendations),
           \/ e.settlements = d.settlements
           \/ Fit(e.settlements, e.markets) /\ \A r \in e.settlements : "market" \in DOMAIN r
    PROVE  Sound(e)
  BY FitMoves DEF Sound

LEMMA MarketsStay == ASSUME NEW markets PROVE SameMarkets(markets, markets)
  BY DEF SameMarkets

LEMMA LiveAreMarkets ==
    ASSUME NEW d PROVE Scoreable \subseteq db.markets /\ LiveOf(d.markets) \subseteq d.markets
                       /\ ResolvedOf(d.markets) \subseteq d.markets
  BY DEF Scoreable, LiveOf, ResolvedOf

LEMMA IngestKeeps == ASSUME RetentionInv, Ingest PROVE Sound(db')
  <1> DEFINE Filled(seen, traded, fresh) ==
                 db' = [db EXCEPT
                           !.markets = Ingested(db.markets, seen, traded, fresh),
                           !.details = db.details
                                       \cup Rows(LiveOf(Ingested(db.markets, seen, traded, fresh)))]
  <1>1. PICK seen, traded, fresh : fresh \subseteq Feed /\ Filled(seen, traded, fresh)
    <2>1. PICK seen \in [Feed -> {"unlisted", "open", "closed"}] :
              \E traded \in SUBSET {l \in Feed : seen[l] = "open"} :
                  Filled(seen, traded, {l \in Feed : seen[l] = "open"} \ Known(db.markets))
      BY DEF Ingest, Ingested
    <2>. HIDE DEF Filled
    <2>2. PICK fresh : fresh = {l \in Feed : seen[l] = "open"} \ Known(db.markets)
      OBVIOUS
    <2>3. fresh \subseteq Feed
      BY <2>2
    <2>. QED
      BY <2>1, <2>2, <2>3
  <1>2. PICK markets : markets = Ingested(db.markets, seen, traded, fresh)
    OBVIOUS
  <1>3. db' = [db EXCEPT !.markets = markets, !.details = db.details \cup Rows(LiveOf(markets))]
    BY <1>1, <1>2
  <1>4. Numbered(db.markets)
    BY DEF RetentionInv, Sound
  <1>5. Numbered(markets) /\ SameMarkets(db.markets, markets)
    BY <1>1, <1>2, <1>4, IngestNumbers
  <1>6. Fit(db.details \cup Rows(LiveOf(markets)), markets)
    <2>1. Fit(Rows(LiveOf(markets)), markets)
      BY RowsFit DEF LiveOf
    <2>2. Fit(db.details, markets)
      BY <1>5, FitMoves DEF RetentionInv, Sound
    <2>. QED
      BY <2>1, <2>2, FitUnion
  <1>7. /\ DOMAIN db' = DatabaseFields /\ db'.markets = markets
        /\ db'.details = db.details \cup Rows(LiveOf(markets))
        /\ db'.books = db.books /\ db'.predictions = db.predictions
        /\ db'.recommendations = db.recommendations /\ db'.frozen = db.frozen
        /\ db'.settlements = db.settlements
    BY <1>3 DEF RetentionInv, Sound, DatabaseFields
  <1>. QED
    BY <1>5, <1>6, <1>7, SoundAfter DEF RetentionInv

LEMMA JobsKeep ==
    ASSUME RetentionInv, Orderbooks \/ Score \/ RankMarkets \/ Prune PROVE Sound(db')
  <1>1. /\ Sound(db) /\ DOMAIN db = DatabaseFields /\ Numbered(db.markets)
        /\ Fit(db.details, db.markets) /\ Fit(db.books, db.markets) /\ Fit(db.predictions, db.markets)
        /\ Fit(db.recommendations, db.markets) /\ Fit(db.frozen, db.markets)
        /\ Referred(db.frozen) \subseteq Referred(db.recommendations)
    BY DEF RetentionInv, Sound
  <1>2. CASE Orderbooks
    <2>1. PICK captured \in SUBSET LiveOf(db.markets) : db' = [db EXCEPT !.books = db.books \cup Rows(captured)]
      BY <1>2 DEF Orderbooks
    <2>2. Fit(db.books \cup Rows(captured), db.markets)
      BY <1>1, RowsFit, FitUnion, LiveAreMarkets
    <2>3. /\ DOMAIN db' = DatabaseFields /\ db'.markets = db.markets /\ db'.details = db.details
          /\ db'.books = db.books \cup Rows(captured) /\ db'.predictions = db.predictions
          /\ db'.recommendations = db.recommendations /\ db'.frozen = db.frozen
          /\ db'.settlements = db.settlements
      BY <1>1, <2>1 DEF DatabaseFields
    <2>. QED
      BY <1>1, <2>2, <2>3, SoundAfter, MarketsStay
  <1>3. CASE Prune
    <2>1. PICK old \in SUBSET (db.books \ Rows(LiveOf(db.markets))) : db' = [db EXCEPT !.books = db.books \ old]
      BY <1>3 DEF Prune
    <2>2. Fit(db.books \ old, db.markets)
      BY <1>1, FitFewer
    <2>3. /\ DOMAIN db' = DatabaseFields /\ db'.markets = db.markets /\ db'.details = db.details
          /\ db'.books = db.books \ old /\ db'.predictions = db.predictions
          /\ db'.recommendations = db.recommendations /\ db'.frozen = db.frozen
          /\ db'.settlements = db.settlements
      BY <1>1, <2>1 DEF DatabaseFields
    <2>. QED
      BY <1>1, <2>2, <2>3, SoundAfter, MarketsStay
  <1>4. CASE Score
    <2>1. PICK new : new = {[id |-> NextId(db.predictions) + Place(m.id, Ids(Scoreable)),
                             market |-> m.id, about |-> m.about] : m \in Scoreable}
      OBVIOUS
    <2>2. db' = [db EXCEPT !.predictions = db.predictions \cup new]
      BY <1>4, <2>1 DEF Score
    <2>3. Fit(new, db.markets)
      BY <2>1, LiveAreMarkets DEF Fit
    <2>4. Fit(db.predictions \cup new, db.markets)
      BY <1>1, <2>3, FitUnion
    <2>5. /\ DOMAIN db' = DatabaseFields /\ db'.markets = db.markets /\ db'.details = db.details
          /\ db'.books = db.books /\ db'.predictions = db.predictions \cup new
          /\ db'.recommendations = db.recommendations /\ db'.frozen = db.frozen
          /\ db'.settlements = db.settlements
      BY <1>1, <2>2 DEF DatabaseFields
    <2>. QED
      BY <1>1, <2>4, <2>5, SoundAfter, MarketsStay
  <1>5. CASE RankMarkets
    <2>1. PICK top, new :
              /\ top \subseteq Scoreable
              /\ new = {[market |-> m.id, about |-> m.about,
                         prediction |-> NewestOf(db.predictions, m.id)] : m \in top}
              /\ db' = [db EXCEPT !.recommendations = db.recommendations \cup new,
                                  !.frozen = db.frozen \cup Rows(top)]
      BY <1>5 DEF RankMarkets
    <2>2. top \subseteq db.markets
      BY <2>1, LiveAreMarkets
    <2>3. Fit(new, db.markets)
      BY <2>1, <2>2 DEF Fit
    <2>4. Fit(db.recommendations \cup new, db.markets) /\ Fit(db.frozen \cup Rows(top), db.markets)
      BY <1>1, <2>2, <2>3, RowsFit, FitUnion
    <2>5. Referred(db.frozen \cup Rows(top)) \subseteq Referred(db.recommendations \cup new)
      <3>1. ASSUME NEW r \in db.frozen \cup Rows(top) PROVE r.market \in Referred(db.recommendations \cup new)
        <4>1. CASE r \in db.frozen
          BY <1>1, <4>1 DEF Referred
        <4>2. CASE r \in Rows(top)
          <5>1. PICK m \in top : r.market = m.id
            BY <4>2 DEF Rows, RowOf
          <5>2. PICK s : s = [market |-> m.id, about |-> m.about,
                              prediction |-> NewestOf(db.predictions, m.id)]
            OBVIOUS
          <5>3. s \in new /\ s.market = m.id
            BY <2>1, <5>2
          <5>. QED
            BY <5>1, <5>3 DEF Referred
        <4>. QED
          BY <4>1, <4>2
      <3>. QED
        BY <3>1 DEF Referred
    <2>6. /\ DOMAIN db' = DatabaseFields /\ db'.markets = db.markets /\ db'.details = db.details
          /\ db'.books = db.books /\ db'.predictions = db.predictions
          /\ db'.recommendations = db.recommendations \cup new /\ db'.frozen = db.frozen \cup Rows(top)
          /\ db'.settlements = db.settlements
      BY <1>1, <2>1 DEF DatabaseFields
    <2>. QED
      BY <1>1, <2>4, <2>5, <2>6, SoundAfter, MarketsStay
  <1>. QED
    BY <1>2, <1>3, <1>4, <1>5

LEMMA SettleKeeps == ASSUME RetentionInv, SettleMarkets PROVE Sound(db')
  <1>1. /\ Sound(db) /\ DOMAIN db = DatabaseFields /\ Numbered(db.markets) /\ Fit(db.settlements, db.markets)
        /\ \A r \in db.settlements : "market" \in DOMAIN r
    BY DEF RetentionInv, Sound
  <1>2. PICK resolved \in SUBSET {m \in db.markets : m.status = "closed"} :
            db' = [db EXCEPT !.markets = (db.markets \ resolved)
                                 \cup {[m EXCEPT !.status = "settled"] : m \in resolved},
                             !.settlements = db.settlements \cup Rows(resolved)]
    BY DEF SettleMarkets
  <1>3. PICK f : f = [m \in db.markets |-> IF m \in resolved THEN [m EXCEPT !.status = "settled"] ELSE m]
    OBVIOUS
  <1>4. \A m \in db.markets : /\ f[m].id = m.id /\ f[m].about = m.about
                              /\ DOMAIN f[m] = {"id", "about", "status", "traded", "text"}
    BY <1>1, <1>3 DEF Numbered
  <1>5. PICK others : others = (db.markets \ resolved) \cup {[m EXCEPT !.status = "settled"] : m \in resolved}
    OBVIOUS
  <1>6. others = {f[m] : m \in db.markets}
    BY <1>3, <1>5
  <1>7. Numbered(others) /\ SameMarkets(db.markets, others)
    BY <1>1, <1>4, <1>6, RenewedIsNumbered
  <1>8. Fit(db.settlements \cup Rows(resolved), others)
    <2>1. Fit(db.settlements \cup Rows(resolved), db.markets)
      BY <1>1, RowsFit, FitUnion
    <2>. QED
      BY <1>7, <2>1, FitMoves
  <1>9. \A r \in db.settlements \cup Rows(resolved) : "market" \in DOMAIN r
    BY <1>1 DEF Rows, RowOf
  <1>10. /\ DOMAIN db' = DatabaseFields /\ db'.markets = others /\ db'.details = db.details
         /\ db'.books = db.books /\ db'.predictions = db.predictions
         /\ db'.recommendations = db.recommendations /\ db'.frozen = db.frozen
         /\ db'.settlements = db.settlements \cup Rows(resolved)
    BY <1>1, <1>2, <1>5 DEF DatabaseFields
  <1>. QED
    BY <1>1, <1>7, <1>8, <1>9, <1>10, SoundAfter

LEMMA SelectKeeps == ASSUME RetentionInv, SelectMarkets PROVE Sound(db')
  <1>1. PICK kept : kept = Selected(db)
    OBVIOUS
  <1>2. db' = [db EXCEPT !.predictions = KeptPredictions(db), !.markets = kept,
                         !.details = Within(db.details, kept)]
    BY <1>1 DEF SelectMarkets
  <1>3. /\ kept \subseteq db.markets
        /\ \A m \in db.markets : m.id \in Referred(db.books) \cup Referred(KeptPredictions(db))
               \cup Referred(db.recommendations) \cup Referred(db.settlements) => m \in kept
    BY <1>1 DEF Selected
  <1>4. /\ Sound(db) /\ DOMAIN db = DatabaseFields /\ Numbered(db.markets)
        /\ Fit(db.details, db.markets) /\ Fit(db.books, db.markets) /\ Fit(db.predictions, db.markets)
        /\ Fit(db.recommendations, db.markets) /\ Fit(db.frozen, db.markets) /\ Fit(db.settlements, db.markets)
        /\ Referred(db.frozen) \subseteq Referred(db.recommendations)
        /\ \A r \in db.settlements : "market" \in DOMAIN r
    BY DEF RetentionInv, Sound
  <1>5. /\ DOMAIN db' = DatabaseFields /\ db'.markets = kept /\ db'.details = Within(db.details, kept)
        /\ db'.books = db.books /\ db'.predictions = KeptPredictions(db)
        /\ db'.recommendations = db.recommendations /\ db'.frozen = db.frozen
        /\ db'.settlements = db.settlements
    BY <1>2, <1>4 DEF DatabaseFields
  <1>6. Numbered(kept) /\ Fit(Within(db.details, kept), kept)
    BY <1>3, <1>4, NumberedFewer, FitWithin
  <1>7. Fit(db.books, kept) /\ Fit(db.recommendations, kept) /\ Fit(db.settlements, kept)
    BY <1>3, <1>4, FitWhenNamed
  <1>8. Fit(db.frozen, kept)
    BY <1>3, <1>4, FitWhenNamed
  <1>9. Fit(KeptPredictions(db), kept)
    <2>1. Fit(KeptPredictions(db), db.markets)
      BY <1>4, FitFewer DEF KeptPredictions, NewestPredictions
    <2>. QED
      BY <1>3, <2>1, FitWhenNamed
  <1>. QED
    BY <1>4, <1>5, <1>6, <1>7, <1>8, <1>9 DEF Sound

LEMMA BoundKeeps == ASSUME RetentionInv, Bound PROVE Sound(db')
  <1>1. PICK bare : bare = ResolvedOf(db.markets) \ Audit(db)
    OBVIOUS
  <1>2. PICK others : others = (db.markets \ bare) \cup {[m EXCEPT !.text = FALSE] : m \in bare}
    OBVIOUS
  <1>3. db' = [db EXCEPT !.markets = others]
    BY <1>1, <1>2 DEF Bound
  <1>4. Sound(db) /\ DOMAIN db = DatabaseFields /\ Numbered(db.markets)
    BY DEF RetentionInv, Sound
  <1>5. PICK f : f = [m \in db.markets |-> IF m \in bare THEN [m EXCEPT !.text = FALSE] ELSE m]
    OBVIOUS
  <1>6. \A m \in db.markets : /\ f[m].id = m.id /\ f[m].about = m.about
                              /\ DOMAIN f[m] = {"id", "about", "status", "traded", "text"}
    BY <1>4, <1>5 DEF Numbered
  <1>7. bare \subseteq db.markets
    BY <1>1 DEF ResolvedOf
  <1>8. others = {f[m] : m \in db.markets}
    BY <1>2, <1>5, <1>7
  <1>9. Numbered(others) /\ SameMarkets(db.markets, others)
    BY <1>4, <1>6, <1>8, RenewedIsNumbered
  <1>10. /\ DOMAIN db' = DatabaseFields /\ db'.markets = others /\ db'.details = db.details
         /\ db'.books = db.books /\ db'.predictions = db.predictions
         /\ db'.recommendations = db.recommendations /\ db'.frozen = db.frozen
         /\ db'.settlements = db.settlements
    BY <1>3, <1>4 DEF DatabaseFields
  <1>. QED
    BY <1>4, <1>9, <1>10, SoundAfter

\* A rung drops markets with all their children but the audit trail, which is kept
\* whole, and the settlements, which lose their market.
LEMMA CascadeKeeps ==
    ASSUME NEW d, Sound(d), NEW r PROVE Sound(Cascade(d, Kept(d, r)))
  <1>1. PICK kept : kept = Kept(d, r)
    OBVIOUS
  <1>2. kept \subseteq d.markets /\ Audit(d) \subseteq kept
    BY <1>1, LiveAreMarkets DEF Kept, Audit, Top
  <1>3. PICK e : e = Cascade(d, kept)
    OBVIOUS
  <1>4. PICK left : left = {IF s.market \in Ids(kept) THEN s ELSE [s EXCEPT !.market = Null] : s \in d.settlements}
    OBVIOUS
  <1>5. /\ DOMAIN d = DatabaseFields /\ Numbered(d.markets)
        /\ Fit(d.details, d.markets) /\ Fit(d.books, d.markets) /\ Fit(d.predictions, d.markets)
        /\ Fit(d.recommendations, d.markets) /\ Fit(d.frozen, d.markets) /\ Fit(d.settlements, d.markets)
        /\ Referred(d.frozen) \subseteq Referred(d.recommendations)
        /\ \A s \in d.settlements : "market" \in DOMAIN s
    BY DEF Sound
  <1>6. e = [d EXCEPT !.markets = kept, !.details = Within(d.details, kept), !.books = Within(d.books, kept),
                      !.predictions = Within(d.predictions, kept), !.settlements = left]
    BY <1>3, <1>4 DEF Cascade
  <1>7. /\ DOMAIN e = DatabaseFields /\ e.markets = kept /\ e.details = Within(d.details, kept)
        /\ e.books = Within(d.books, kept) /\ e.predictions = Within(d.predictions, kept)
        /\ e.recommendations = d.recommendations /\ e.frozen = d.frozen /\ e.settlements = left
    BY <1>5, <1>6 DEF DatabaseFields
  <1>8. /\ Numbered(kept) /\ Fit(Within(d.details, kept), kept) /\ Fit(Within(d.books, kept), kept)
        /\ Fit(Within(d.predictions, kept), kept)
    BY <1>2, <1>5, NumberedFewer, FitWithin
  <1>9. Fit(d.recommendations, kept) /\ Fit(d.frozen, kept)
    BY <1>2, <1>5, FitWhenNamed DEF Audit
  <1>10. Fit(left, kept) /\ \A s \in left : "market" \in DOMAIN s
    <2>1. ASSUME NEW s \in d.settlements, s.market \in Ids(kept), s.market # Null
          PROVE  \E m \in kept : m.id = s.market /\ m.about = s.about
      <3>1. PICK m \in kept : m.id = s.market
        BY <2>1 DEF Ids
      <3>2. PICK n \in d.markets : n.id = s.market /\ n.about = s.about
        BY <1>5, <2>1 DEF Fit
      <3>. QED
        BY <1>2, <1>5, <3>1, <3>2 DEF Numbered
    <2>2. ASSUME NEW s \in d.settlements
          PROVE  [s EXCEPT !.market = Null].market = Null /\ "market" \in DOMAIN [s EXCEPT !.market = Null]
      BY <1>5
    <2>. QED
      BY <1>4, <1>5, <2>1, <2>2 DEF Fit
  <1>. QED
    BY <1>1, <1>3, <1>5, <1>7, <1>8, <1>9, <1>10 DEF Sound

LEMMA StepRetention == RetentionInv /\ [RetentionNext]_retentionVars => RetentionInv'
  <1>. SUFFICES ASSUME RetentionInv, [RetentionNext]_retentionVars PROVE RetentionInv'
    OBVIOUS
  <1>1. CASE Sound(db') /\ (artefact' = artefact \/ artefact' = db)
    BY <1>1 DEF RetentionInv, Sound
  <1>2. CASE Ingest
    BY <1>1, <1>2, IngestKeeps DEF Ingest
  <1>3. CASE Orderbooks \/ Score \/ RankMarkets \/ Prune
    BY <1>1, <1>3, JobsKeep DEF Orderbooks, Score, RankMarkets, Prune, Stays
  <1>4. CASE SettleMarkets
    BY <1>1, <1>4, SettleKeeps DEF SettleMarkets, Stays
  <1>5. CASE SelectMarkets
    BY <1>1, <1>5, SelectKeeps DEF SelectMarkets, Stays
  <1>6. CASE Bound
    BY <1>1, <1>6, BoundKeeps DEF Bound
  <1>7. CASE Tighten
    <2>1. db' = Cascade(db, Kept(db, Ladder[rung + 1])) /\ artefact' = artefact
      BY <1>7 DEF Tighten
    <2>. QED
      BY <1>1, <2>1, CascadeKeeps DEF RetentionInv
  <1>8. CASE Conclude
    <2>1. db' = artefact' /\ (artefact' = db \/ artefact' = artefact)
      BY <1>8 DEF Conclude
    <2>. QED
      BY <2>1 DEF RetentionInv
  <1>9. CASE UNCHANGED retentionVars
    BY <1>9 DEF retentionVars, RetentionInv
  <1>. QED
    BY <1>2, <1>3, <1>4, <1>5, <1>6, <1>7, <1>8, <1>9 DEF RetentionNext

LEMMA InitRetention == RetentionInit => RetentionInv
  <1>. SUFFICES ASSUME RetentionInit PROVE RetentionInv
    OBVIOUS
  <1>1. /\ DOMAIN Empty = DatabaseFields /\ Empty.markets = {} /\ Empty.details = {} /\ Empty.books = {}
        /\ Empty.predictions = {} /\ Empty.recommendations = {} /\ Empty.frozen = {}
        /\ Empty.settlements = {}
    BY DEF Empty, DatabaseFields
  <1>2. Sound(Empty)
    BY <1>1 DEF Sound, Numbered, Fit, Referred
  <1>. QED
    BY <1>2 DEF RetentionInit, RetentionInv

\* Through every run of the pipeline, promoted or dropped, whatever is selected or
\* given up for size: no row is taken for a row of another market, though SQLite
\* hands the ids of dropped markets out again (snapshot_retention.py's
\* MARKET_SCOPED_TABLES, build_snapshot.py's selection).
THEOREM RowsKeepTheirMarket == RetentionSpec => []RowsNameTheirMarket
  <1>1. RetentionInit => RetentionInv
    BY InitRetention
  <1>2. RetentionInv => RowsNameTheirMarket
    BY DEF RetentionInv, Sound, RowsNameTheirMarket, NamesItsMarket, Fit
  <1>. QED
    BY <1>1, <1>2, StepRetention, PTL DEF RetentionSpec

-----------------------------------------------------------------------------
(* What is given up for size.                                               *)

\* The first k of a finite set under a strict total order are at most k.
LEMMA FirstAreFew ==
    ASSUME NEW S, IsFiniteSet(S), NEW before, NEW k \in Nat,
           \A x, y \in S : x # y => <<x, y>> \in before \/ <<y, x>> \in before,
           \A x \in S : <<x, x>> \notin before,
           \A x, y, z \in S : <<x, y>> \in before /\ <<y, z>> \in before => <<x, z>> \in before
    PROVE  Cardinality({x \in S : Cardinality({y \in S : <<y, x>> \in before}) < k}) <= k
  <1> DEFINE Ahead(x) == {y \in S : <<y, x>> \in before}
  <1>1. PICK rank : rank = [x \in S |-> Cardinality(Ahead(x))]
    OBVIOUS
  <1>2. PICK first : first = {x \in S : rank[x] < k}
    OBVIOUS
  <1>3. first = {x \in S : Cardinality({y \in S : <<y, x>> \in before}) < k}
    BY <1>1, <1>2
  <1>4. ASSUME NEW x \in S
        PROVE  IsFiniteSet(Ahead(x)) /\ rank[x] \in Nat /\ rank[x] = Cardinality(Ahead(x))
    <2>1. Ahead(x) \subseteq S
      OBVIOUS
    <2>. QED
      BY <1>1, <2>1, FewerInSubset
  <1>5. first \subseteq S /\ IsFiniteSet(first) /\ Cardinality(first) \in Nat
    BY <1>2, FewerInSubset
  <1>6. ASSUME first = {} PROVE Cardinality(first) <= k
    <2>1. Cardinality(first) = 0
      BY <1>6, FS_EmptySet, Zenon
    <2>. QED
      BY <2>1
  <1>7. ASSUME first # {} PROVE Cardinality(first) <= k
    <2>1. PICK ranks : ranks = {rank[x] : x \in first}
      OBVIOUS
    <2>2. ranks \subseteq Int /\ ranks # {} /\ \E b \in Int : \A n \in ranks : n <= b
      <3>1. \A x \in S : rank[x] \in Nat
        BY <1>4
      <3>2. \A x \in first : rank[x] \in Nat /\ rank[x] <= k
        BY <1>2, <3>1
      <3>. QED
        BY <1>7, <2>1, <3>2
    <2>3. Max(ranks) \in ranks /\ \A n \in ranks : n <= Max(ranks)
      BY <2>2, MaxIsReached
    <2>4. PICK last \in first : rank[last] = Max(ranks)
      BY <2>1, <2>3
    <2>5. ASSUME NEW x \in first, x # last PROVE x \in Ahead(last)
      <3>1. x \in S /\ last \in S
        BY <1>5
      <3>2. SUFFICES ASSUME <<last, x>> \in before PROVE FALSE
        BY <2>5, <3>1
      <3>3. Ahead(last) \subseteq Ahead(x) /\ last \in Ahead(x) /\ last \notin Ahead(last)
        BY <3>1, <3>2
      <3>4. rank[last] < rank[x]
        <4>. HIDE DEF Ahead
        <4>. QED
          BY <1>4, <3>1, <3>3, FewerInSubset
      <3>5. rank[x] <= rank[last]
        BY <2>1, <2>3, <2>4
      <3>6. rank[x] \in Nat /\ rank[last] \in Nat
        BY <1>4, <3>1
      <3>. QED
        BY <3>4, <3>5, <3>6
    <2>6. first \ {last} \subseteq Ahead(last)
      BY <2>5
    <2>7. IsFiniteSet(Ahead(last)) /\ Cardinality(Ahead(last)) < k
      BY <1>2, <1>4, <2>4
    <2>8. Cardinality(first \ {last}) <= Cardinality(Ahead(last)) /\ Cardinality(Ahead(last)) \in Nat
      BY <2>6, <2>7, FewerInSubset
    <2>9. Cardinality(first \ {last}) = Cardinality(first) - 1
      BY <1>5, <2>4, FS_RemoveElement
    <2>. HIDE DEF Ahead
    <2>. QED
      BY <1>5, <2>7, <2>8, <2>9
  <1>8. Cardinality(first) <= k
    BY <1>6, <1>7
  <1>. QED
    BY <1>3, <1>8, Zenon

\* Markets that a run can hold.
Flagged(markets) == \A m \in markets : m.traded \in BOOLEAN /\ m.about \in Feed
Proper(markets) == Numbered(markets) /\ Flagged(markets)

LEMMA EndsAreInstants == ASSUME NEW S, Flagged(S) PROVE \A m \in S : Ended(m) \in Nat
  <1>1. \A l \in Feed : EndOf[l].closed \in Nat /\ EndOf[l].settled \in Nat
    <2>1. EndOf \in [Feed -> [closed : Nat, settled : Nat]]
      BY RetentionAssumption, Zenon
    <2>. QED
      BY <2>1
  <1>. QED
    BY <1>1 DEF Ended, Flagged

LEMMA MarketsAreFinite == ASSUME NEW markets, Numbered(markets) PROVE IsFiniteSet(markets)
  <1>1. PICK b \in Nat : \A m \in markets : m.id <= b
    BY DEF Numbered
  <1>2. PICK f : f = [m \in markets |-> m.id]
    OBVIOUS
  <1>3. f \in Injection(markets, 0..b)
    BY <1>1, <1>2 DEF Injection, IsInjective, Numbered
  <1>4. IsFiniteSet(0..b)
    BY FS_Interval
  <1>. QED
    BY <1>3, <1>4, FS_Injection

\* The pairs of an order among the markets of a status.
BusierPairs(S) == {p \in S \X S : Busier(p[1], p[2])}
LaterPairs(S) == {p \in S \X S : Later(p[1], p[2])}

LEMMA BusierOrders ==
    ASSUME NEW S, Proper(S)
    PROVE  /\ \A x, y \in S : <<x, y>> \in BusierPairs(S) <=> Busier(x, y)
           /\ \A x, y \in S : x # y => Busier(x, y) \/ Busier(y, x)
           /\ \A x \in S : ~ Busier(x, x)
           /\ \A x, y, z \in S : Busier(x, y) /\ Busier(y, z) => Busier(x, z)
  <1>1. \A x, y \in S : <<x, y>> \in BusierPairs(S) <=> Busier(x, y)
    BY DEF BusierPairs
  <1>2. \A x \in S : x.id \in Nat /\ x.traded \in BOOLEAN
    BY DEF Proper, Numbered, Flagged
  <1>3. \A x, y \in S : x # y => x.id # y.id
    BY DEF Proper, Numbered
  <1>4. \A x, y \in S : x # y => x.id < y.id \/ y.id < x.id
    BY <1>2, <1>3
  <1>5. \A x, y \in S : x # y => Busier(x, y) \/ Busier(y, x)
    BY <1>2, <1>4 DEF Busier
  <1>6. \A x \in S : ~ (x.id < x.id)
    BY <1>2
  <1>7. \A x \in S : ~ Busier(x, x)
    BY <1>6 DEF Busier
  <1>8. \A x, y, z \in S : x.id < y.id /\ y.id < z.id => x.id < z.id
    BY <1>2
  <1>9. \A x, y, z \in S : Busier(x, y) /\ Busier(y, z) => Busier(x, z)
    BY <1>2, <1>8 DEF Busier
  <1>. QED
    BY <1>1, <1>5, <1>7, <1>9

LEMMA LaterOrders ==
    ASSUME NEW S, Proper(S)
    PROVE  /\ \A x, y \in S : <<x, y>> \in LaterPairs(S) <=> Later(x, y)
           /\ \A x, y \in S : x # y => Later(x, y) \/ Later(y, x)
           /\ \A x \in S : ~ Later(x, x)
           /\ \A x, y, z \in S : Later(x, y) /\ Later(y, z) => Later(x, z)
  <1>1. \A x, y \in S : <<x, y>> \in LaterPairs(S) <=> Later(x, y)
    BY DEF LaterPairs
  <1>2. \A x \in S : x.id \in Nat /\ Ended(x) \in Nat
    BY EndsAreInstants DEF Proper, Numbered
  <1>3. \A x, y \in S : x # y => x.id # y.id
    BY DEF Proper, Numbered
  <1>. QED
    BY <1>1, <1>2, <1>3 DEF Later

\* What is not among the first k comes before none of them.
LEMMA FirstAreFirst ==
    ASSUME NEW S, IsFiniteSet(S), NEW before, NEW k \in Nat, NEW x \in S, NEW n \in S,
           \A p, q, r \in S : <<p, q>> \in before /\ <<q, r>> \in before => <<p, r>> \in before,
           ~ (Cardinality({y \in S : <<y, x>> \in before}) < k),
           Cardinality({y \in S : <<y, n>> \in before}) < k
    PROVE  <<x, n>> \notin before
  <1>. SUFFICES ASSUME <<x, n>> \in before PROVE FALSE
    OBVIOUS
  <1>1. PICK ahead, behind : /\ ahead = {y \in S : <<y, x>> \in before}
                             /\ behind = {y \in S : <<y, n>> \in before}
    OBVIOUS
  <1>2. ahead \subseteq behind /\ behind \subseteq S
    BY <1>1
  <1>3. /\ Cardinality(ahead) \in Nat /\ Cardinality(behind) \in Nat
        /\ Cardinality(ahead) <= Cardinality(behind)
    BY <1>2, FewerInSubset
  <1>4. ~ (Cardinality(ahead) < k) /\ Cardinality(behind) < k
    BY <1>1
  <1>. QED
    BY <1>3, <1>4

LEMMA BusiestFirst ==
    ASSUME NEW S, Proper(S), NEW k \in Nat
    PROVE  /\ Top(S, Busier, k) \subseteq S /\ Cardinality(Top(S, Busier, k)) <= k
           /\ \A x \in S, n \in Top(S, Busier, k) : x \notin Top(S, Busier, k) => ~ Busier(x, n)
  <1>1. IsFiniteSet(S)
    BY MarketsAreFinite DEF Proper
  <1>2. PICK before : before = BusierPairs(S)
    OBVIOUS
  <1>3. /\ \A x, y \in S : <<x, y>> \in before <=> Busier(x, y)
        /\ \A x, y \in S : x # y => <<x, y>> \in before \/ <<y, x>> \in before
        /\ \A x \in S : <<x, x>> \notin before
        /\ \A x, y, z \in S : <<x, y>> \in before /\ <<y, z>> \in before => <<x, z>> \in before
    BY <1>2, BusierOrders
  <1>4. PICK top : top = {x \in S : Cardinality({y \in S : <<y, x>> \in before}) < k}
    OBVIOUS
  <1>5. Top(S, Busier, k) = top
    <2>1. \A x \in S : {y \in S : Busier(y, x)} = {y \in S : <<y, x>> \in before}
      BY <1>3
    <2>2. Top(S, Busier, k) = {x \in S : Cardinality({y \in S : Busier(y, x)}) < k}
      BY DEF Top
    <2>. QED
      BY <1>4, <2>1, <2>2
  <1>6. top \subseteq S /\ Cardinality(top) <= k
    BY <1>1, <1>3, <1>4, FirstAreFew
  <1>7. ASSUME NEW x \in S, NEW n \in top, x \notin top PROVE <<x, n>> \notin before
    BY <1>1, <1>3, <1>4, <1>7, FirstAreFirst
  <1>. QED
    BY <1>3, <1>5, <1>6, <1>7

LEMMA LatestFirst ==
    ASSUME NEW S, Proper(S), NEW k \in Nat
    PROVE  /\ Top(S, Later, k) \subseteq S /\ Cardinality(Top(S, Later, k)) <= k
           /\ \A x \in S, n \in Top(S, Later, k) : x \notin Top(S, Later, k) => ~ Later(x, n)
  <1>1. IsFiniteSet(S)
    BY MarketsAreFinite DEF Proper
  <1>2. PICK before : before = LaterPairs(S)
    OBVIOUS
  <1>3. /\ \A x, y \in S : <<x, y>> \in before <=> Later(x, y)
        /\ \A x, y \in S : x # y => <<x, y>> \in before \/ <<y, x>> \in before
        /\ \A x \in S : <<x, x>> \notin before
        /\ \A x, y, z \in S : <<x, y>> \in before /\ <<y, z>> \in before => <<x, z>> \in before
    BY <1>2, LaterOrders
  <1>4. PICK top : top = {x \in S : Cardinality({y \in S : <<y, x>> \in before}) < k}
    OBVIOUS
  <1>5. Top(S, Later, k) = top
    <2>1. \A x \in S : {y \in S : Later(y, x)} = {y \in S : <<y, x>> \in before}
      BY <1>3
    <2>2. Top(S, Later, k) = {x \in S : Cardinality({y \in S : Later(y, x)}) < k}
      BY DEF Top
    <2>. QED
      BY <1>4, <2>1, <2>2
  <1>6. top \subseteq S /\ Cardinality(top) <= k
    BY <1>1, <1>3, <1>4, FirstAreFew
  <1>7. ASSUME NEW x \in S, NEW n \in top, x \notin top PROVE <<x, n>> \notin before
    BY <1>1, <1>3, <1>4, <1>7, FirstAreFirst
  <1>. QED
    BY <1>3, <1>5, <1>6, <1>7

Audited(d) == Referred(d.recommendations) \cup Referred(d.frozen)
Dropped(from, d) == {m \in from : m.id \notin Ids(d.markets)}
Ranked(d) == {m \in d.markets : m.id \notin Audited(d)}
Live(m) == m.status = "open"
Resolved(m) == m.status \in {"closed", "settled"}

\* Whatever is gone was not in the audit trail, nor ranked above what stayed.
InSequence(from, d) ==
    /\ \A m \in Dropped(from, d) : m.id \notin Audited(d)
    /\ \A m \in Dropped(from, d), n \in Ranked(d) :
          /\ Live(m) /\ Live(n) => ~ Busier(m, n)
          /\ Resolved(m) /\ Resolved(n) => ~ Later(m, n)

WithinBudget(d, r) ==
    Cardinality(LiveOf(Ranked(d))) <= r.live /\ Cardinality(ResolvedOf(Ranked(d))) <= r.resolved

\* A rung drops in order, and is within its budget.
LEMMA RungKeepsOrder ==
    ASSUME NEW d, Sound(d), Proper(d.markets),
           NEW r \in [live : Nat, resolved : Nat], NEW e, e = Cascade(d, Kept(d, r))
    PROVE  e.markets \subseteq d.markets /\ InSequence(d.markets, e) /\ WithinBudget(e, r)
  <1>1. PICK live, resolved, kept :
            /\ live = Top(LiveOf(d.markets), Busier, r.live)
            /\ resolved = Top(ResolvedOf(d.markets), Later, r.resolved)
            /\ kept = Audit(d) \cup live \cup resolved
    OBVIOUS
  <1>2. r.live \in Nat /\ r.resolved \in Nat
    OBVIOUS
  <1>3. Proper(LiveOf(d.markets)) /\ Proper(ResolvedOf(d.markets))
    BY NumberedFewer, LiveAreMarkets DEF Proper, Flagged
  <1>4. /\ live \subseteq LiveOf(d.markets) /\ Cardinality(live) <= r.live
        /\ \A x \in LiveOf(d.markets), n \in live : x \notin live => ~ Busier(x, n)
    BY <1>1, <1>2, <1>3, BusiestFirst
  <1>5. /\ resolved \subseteq ResolvedOf(d.markets) /\ Cardinality(resolved) <= r.resolved
        /\ \A x \in ResolvedOf(d.markets), n \in resolved : x \notin resolved => ~ Later(x, n)
    BY <1>1, <1>2, <1>3, LatestFirst
  <1>6. /\ e.markets = kept /\ e.recommendations = d.recommendations /\ e.frozen = d.frozen
    <2>1. Kept(d, r) = kept
      BY <1>1 DEF Kept
    <2>. QED
      BY <2>1 DEF Cascade, Sound, DatabaseFields
  <1>7. Audited(e) = Audited(d) /\ Audit(d) = {m \in d.markets : m.id \in Audited(d)}
    BY <1>6 DEF Audited, Audit
  <1>8. kept \subseteq d.markets
    BY <1>1, <1>4, <1>5, LiveAreMarkets DEF Audit
  <1>10. \A n \in Ranked(e) : /\ Live(n) => n \in live
                              /\ Resolved(n) => n \in resolved
    BY <1>1, <1>4, <1>5, <1>6, <1>7, <1>8 DEF Ranked, Live, Resolved, LiveOf, ResolvedOf
  <1>11. ASSUME NEW m \in Dropped(d.markets, e)
         PROVE  m \in d.markets /\ m \notin live /\ m \notin resolved /\ m.id \notin Audited(e)
    BY <1>1, <1>6, <1>7 DEF Dropped, Ids
  <1>12. ASSUME NEW m \in Dropped(d.markets, e), NEW n \in Ranked(e)
         PROVE  /\ Live(m) /\ Live(n) => ~ Busier(m, n)
                /\ Resolved(m) /\ Resolved(n) => ~ Later(m, n)
    <2>1. m \in d.markets /\ m \notin live /\ m \notin resolved
      BY <1>11
    <2>2. /\ Live(m) => m \in LiveOf(d.markets)
          /\ Resolved(m) => m \in ResolvedOf(d.markets)
      BY <2>1 DEF Live, Resolved, LiveOf, ResolvedOf
    <2>. QED
      BY <1>4, <1>5, <1>10, <2>1, <2>2
  <1>13. WithinBudget(e, r)
    <2>1. IsFiniteSet(live) /\ IsFiniteSet(resolved)
      BY <1>3, <1>4, <1>5, MarketsAreFinite, FewerInSubset DEF Proper
    <2>2. LiveOf(Ranked(e)) \subseteq live /\ ResolvedOf(Ranked(e)) \subseteq resolved
      BY <1>10 DEF LiveOf, ResolvedOf, Live, Resolved
    <2>3. /\ Cardinality(LiveOf(Ranked(e))) \in Nat /\ Cardinality(live) \in Nat
          /\ Cardinality(LiveOf(Ranked(e))) <= Cardinality(live)
      BY <2>1, <2>2, FewerInSubset
    <2>4. /\ Cardinality(ResolvedOf(Ranked(e))) \in Nat /\ Cardinality(resolved) \in Nat
          /\ Cardinality(ResolvedOf(Ranked(e))) <= Cardinality(resolved)
      BY <2>1, <2>2, FewerInSubset
    <2>. QED
      BY <1>2, <1>4, <1>5, <2>3, <2>4 DEF WithinBudget
  <1>. QED
    BY <1>6, <1>8, <1>11, <1>12, <1>13 DEF InSequence

First(S, before, k) == {x \in S : Cardinality({y \in S : <<y, x>> \in before}) < k}

\* Who is among the first k of a set is so among any part of it that holds its
\* first l, as long as k is no more than l: of what is missing, the first has l
\* others before it, all of them in the part.
LEMMA FirstOfTheFirst ==
    ASSUME NEW S, IsFiniteSet(S), NEW before, NEW T, T \subseteq S, NEW k \in Nat, NEW l \in Nat, k <= l,
           \A x, y, z \in S : <<x, y>> \in before /\ <<y, z>> \in before => <<x, z>> \in before,
           \A x \in S : <<x, x>> \notin before,
           First(S, before, l) \subseteq T
    PROVE  First(T, before, k) = First(S, before, k)
  <1>1. PICK ahead, front : /\ ahead = [x \in S |-> {y \in S : <<y, x>> \in before}]
                            /\ front = [x \in S |-> {y \in T : <<y, x>> \in before}]
    OBVIOUS
  <1>2. ASSUME NEW x \in S
        PROVE  /\ ahead[x] = {y \in S : <<y, x>> \in before} /\ front[x] = {y \in T : <<y, x>> \in before}
               /\ front[x] \subseteq ahead[x] /\ ahead[x] \subseteq S
               /\ \A y : y \in ahead[x] <=> y \in S /\ <<y, x>> \in before
    BY <1>1
  <1>3. ASSUME NEW x \in S
        PROVE  /\ IsFiniteSet(ahead[x]) /\ Cardinality(ahead[x]) \in Nat
               /\ IsFiniteSet(front[x]) /\ Cardinality(front[x]) \in Nat
               /\ Cardinality(front[x]) <= Cardinality(ahead[x])
    BY <1>2, FewerInSubset
  <1>4. \A x \in S : Cardinality(ahead[x]) < l => x \in T
    BY <1>2 DEF First
  <1>5. ASSUME NEW x \in S, NEW y \in ahead[x] PROVE ahead[y] \subseteq ahead[x] /\ y \in S
    <2>1. y \in S /\ <<y, x>> \in before
      BY <1>2, <1>5
    <2>2. \A z \in ahead[y] : z \in S /\ <<z, y>> \in before
      BY <1>2, <2>1
    <2>3. \A z \in ahead[y] : <<z, x>> \in before
      BY <2>1, <2>2
    <2>. QED
      BY <1>2, <2>1, <2>2, <2>3
  <1>6. ASSUME NEW x \in S, NEW y \in ahead[x] PROVE Cardinality(ahead[y]) < Cardinality(ahead[x])
    <2>1. ahead[y] \subseteq ahead[x] /\ y \in S
      BY <1>5, <1>6
    <2>2. y \notin ahead[y] /\ ahead[x] # ahead[y]
      BY <1>2, <1>6, <2>1
    <2>. QED
      BY <1>3, <2>1, <2>2, FewerInSubset
  <1>7. ASSUME NEW x \in T, Cardinality(front[x]) < k PROVE Cardinality(ahead[x]) < k
    <2>0. x \in S
      OBVIOUS
    <2>1. CASE ahead[x] \subseteq T
      <3>1. ahead[x] = front[x]
        BY <1>2, <2>0, <2>1
      <3>. QED
        BY <1>7, <3>1
    <2>2. CASE ~ (ahead[x] \subseteq T)
      <3>1. PICK missing : missing = ahead[x] \ T
        OBVIOUS
      <3>2. PICK ranks : ranks = {Cardinality(ahead[y]) : y \in missing}
        OBVIOUS
      <3>3. missing \subseteq S /\ missing # {}
        BY <1>2, <2>0, <2>2, <3>1
      <3>4. \A y \in missing : Cardinality(ahead[y]) \in Nat
        BY <1>3, <3>3
      <3>5. ranks \subseteq Int /\ ranks # {} /\ 0 \in Int /\ \A n \in ranks : 0 <= n
        BY <3>2, <3>3, <3>4
      <3>6. Min(ranks) \in ranks /\ \A n \in ranks : Min(ranks) <= n
        <4>. HIDE <3>2
        <4>. QED
          BY <3>5, LeastIsMin
      <3>7. PICK y \in missing : Cardinality(ahead[y]) = Min(ranks)
        BY <3>2, <3>6
      <3>8. ahead[y] \subseteq front[x]
        <4>1. ahead[y] \subseteq ahead[x] /\ y \in S
          BY <1>5, <2>0, <3>1, <3>7
        <4>2. ASSUME NEW z \in ahead[y], z \notin T PROVE FALSE
          <5>1. z \in missing
            BY <3>1, <4>1, <4>2
          <5>2. Cardinality(ahead[z]) \in ranks
            BY <3>2, <5>1
          <5>3. Min(ranks) <= Cardinality(ahead[z])
            BY <3>6, <5>2
          <5>4. Cardinality(ahead[z]) < Cardinality(ahead[y])
            BY <1>6, <4>1, <4>2
          <5>5. Cardinality(ahead[z]) \in Nat /\ Cardinality(ahead[y]) \in Nat
            BY <3>4, <5>1
          <5>. QED
            BY <3>7, <5>3, <5>4, <5>5
        <4>. QED
          BY <1>2, <2>0, <4>1, <4>2
      <3>9. Cardinality(ahead[y]) <= Cardinality(front[x]) /\ Cardinality(ahead[y]) \in Nat
        BY <1>3, <2>0, <3>8, FewerInSubset
      <3>10. ~ (Cardinality(ahead[y]) < l)
        BY <1>4, <3>1, <3>3
      <3>11. Cardinality(front[x]) \in Nat
        BY <1>3, <2>0
      <3>. QED
        BY <1>7, <3>9, <3>10, <3>11
    <2>. QED
      BY <2>1, <2>2
  <1>8. ASSUME NEW x \in S, Cardinality(ahead[x]) < k PROVE x \in T /\ Cardinality(front[x]) < k
    BY <1>3, <1>4, <1>8
  <1>9. PICK few, first : /\ few = {x \in T : Cardinality(front[x]) < k}
                          /\ first = {x \in S : Cardinality(ahead[x]) < k}
    OBVIOUS
  <1>10. few = first
    BY <1>7, <1>8, <1>9
  <1>11. few = First(T, before, k) /\ first = First(S, before, k)
    <2>1. \A x \in T : front[x] = {y \in T : <<y, x>> \in before}
      BY <1>2
    <2>2. \A x \in S : ahead[x] = {y \in S : <<y, x>> \in before}
      BY <1>2
    <2>. QED
      BY <1>9, <2>1, <2>2 DEF First
  <1>. QED
    BY <1>10, <1>11

LEMMA BusiestStayFirst ==
    ASSUME NEW S, Proper(S), NEW k \in Nat, NEW l \in Nat, k <= l, NEW T, T \subseteq S,
           Top(S, Busier, l) \subseteq T
    PROVE  Top(T, Busier, k) = Top(S, Busier, k)
  <1>1. IsFiniteSet(S)
    BY MarketsAreFinite DEF Proper
  <1>2. PICK before : before = BusierPairs(S)
    OBVIOUS
  <1>3. /\ \A x, y \in S : <<x, y>> \in before <=> Busier(x, y)
        /\ \A x \in S : <<x, x>> \notin before
        /\ \A x, y, z \in S : <<x, y>> \in before /\ <<y, z>> \in before => <<x, z>> \in before
    BY <1>2, BusierOrders
  <1>4. ASSUME NEW part, part \subseteq S, NEW b
        PROVE  Top(part, Busier, b) = First(part, before, b)
    <2>1. \A x \in part : {y \in part : Busier(y, x)} = {y \in part : <<y, x>> \in before}
      BY <1>3, <1>4
    <2>2. Top(part, Busier, b) = {x \in part : Cardinality({y \in part : Busier(y, x)}) < b}
      BY DEF Top
    <2>. QED
      BY <2>1, <2>2 DEF First
  <1>5. First(S, before, l) \subseteq T
    BY <1>4
  <1>6. First(T, before, k) = First(S, before, k)
    BY <1>1, <1>3, <1>5, FirstOfTheFirst
  <1>. QED
    BY <1>4, <1>6

LEMMA LatestStayFirst ==
    ASSUME NEW S, Proper(S), NEW k \in Nat, NEW l \in Nat, k <= l, NEW T, T \subseteq S,
           Top(S, Later, l) \subseteq T
    PROVE  Top(T, Later, k) = Top(S, Later, k)
  <1>1. IsFiniteSet(S)
    BY MarketsAreFinite DEF Proper
  <1>2. PICK before : before = LaterPairs(S)
    OBVIOUS
  <1>3. /\ \A x, y \in S : <<x, y>> \in before <=> Later(x, y)
        /\ \A x \in S : <<x, x>> \notin before
        /\ \A x, y, z \in S : <<x, y>> \in before /\ <<y, z>> \in before => <<x, z>> \in before
    BY <1>2, LaterOrders
  <1>4. ASSUME NEW part, part \subseteq S, NEW b
        PROVE  Top(part, Later, b) = First(part, before, b)
    <2>1. \A x \in part : {y \in part : Later(y, x)} = {y \in part : <<y, x>> \in before}
      BY <1>3, <1>4
    <2>2. Top(part, Later, b) = {x \in part : Cardinality({y \in part : Later(y, x)}) < b}
      BY DEF Top
    <2>. QED
      BY <2>1, <2>2 DEF First
  <1>5. First(S, before, l) \subseteq T
    BY <1>4
  <1>6. First(T, before, k) = First(S, before, k)
    BY <1>1, <1>3, <1>5, FirstOfTheFirst
  <1>. QED
    BY <1>4, <1>6

\* Two cascades, the second of fewer markets, leave what the second leaves alone.
LEMMA CascadesCompose ==
    ASSUME NEW d, Sound(d), NEW wide, NEW narrow, narrow \subseteq wide
    PROVE  Cascade(Cascade(d, wide), narrow) = Cascade(d, narrow)
  <1>1. DOMAIN d = DatabaseFields /\ \A r \in d.settlements : "market" \in DOMAIN r
    BY DEF Sound
  <1>2. PICK e : e = Cascade(d, wide)
    OBVIOUS
  <1>3. Ids(narrow) \subseteq Ids(wide)
    BY DEF Ids
  <1>4. ASSUME NEW rows PROVE Within(Within(rows, wide), narrow) = Within(rows, narrow)
    BY <1>3 DEF Within
  <1>5. PICK left, again :
            /\ left = [r \in d.settlements |-> IF r.market \in Ids(wide) THEN r
                                               ELSE [r EXCEPT !.market = Null]]
            /\ again = [r \in d.settlements |-> IF r.market \in Ids(narrow) THEN r
                                                ELSE [r EXCEPT !.market = Null]]
    OBVIOUS
  <1>6. /\ DOMAIN e = DatabaseFields /\ e.markets = wide
        /\ e.details = Within(d.details, wide) /\ e.books = Within(d.books, wide)
        /\ e.predictions = Within(d.predictions, wide)
        /\ e.recommendations = d.recommendations /\ e.frozen = d.frozen
    BY <1>1, <1>2 DEF Cascade, DatabaseFields
  <1>7. e.settlements = {left[r] : r \in d.settlements}
    BY <1>1, <1>2, <1>5 DEF Cascade, DatabaseFields
  <1>8. ASSUME NEW r \in d.settlements
        PROVE  (IF left[r].market \in Ids(narrow) THEN left[r] ELSE [left[r] EXCEPT !.market = Null])
               = again[r]
    <2>1. CASE r.market \in Ids(wide)
      BY <1>5, <2>1
    <2>2. CASE r.market \notin Ids(wide)
      <3>1. left[r] = [r EXCEPT !.market = Null] /\ again[r] = [r EXCEPT !.market = Null]
        BY <1>3, <1>5, <2>2
      <3>2. [left[r] EXCEPT !.market = Null] = left[r]
        BY <1>1, <3>1
      <3>. QED
        BY <3>1, <3>2
    <2>. QED
      BY <2>1, <2>2
  <1>9. PICK nulled : nulled = {IF r.market \in Ids(narrow) THEN r ELSE [r EXCEPT !.market = Null] :
                                    r \in e.settlements}
    OBVIOUS
  <1>10. nulled = {again[r] : r \in d.settlements}
    <2> DEFINE N(r) == IF r.market \in Ids(narrow) THEN r ELSE [r EXCEPT !.market = Null]
    <2>1. \A r \in d.settlements : N(left[r]) = again[r]
      BY <1>8
    <2>2. nulled = {N(r) : r \in e.settlements}
      BY <1>9
    <2>. HIDE DEF N
    <2>3. nulled = {N(left[r]) : r \in d.settlements}
      BY <1>7, <2>2
    <2>. QED
      BY <2>1, <2>3
  <1>11. Cascade(e, narrow) = [e EXCEPT !.markets = narrow, !.details = Within(d.details, narrow),
                                        !.books = Within(d.books, narrow),
                                        !.predictions = Within(d.predictions, narrow),
                                        !.settlements = nulled]
    BY <1>4, <1>6, <1>9 DEF Cascade
  <1>12. Cascade(d, narrow) = [d EXCEPT !.markets = narrow, !.details = Within(d.details, narrow),
                                        !.books = Within(d.books, narrow),
                                        !.predictions = Within(d.predictions, narrow),
                                        !.settlements = nulled]
    BY <1>5, <1>10 DEF Cascade
  <1>13. PICK details, books, predictions : /\ details = Within(d.details, narrow)
                                             /\ books = Within(d.books, narrow)
                                             /\ predictions = Within(d.predictions, narrow)
    OBVIOUS
  <1>14. PICK c : c = [d EXCEPT !.markets = narrow, !.details = details, !.books = books,
                               !.predictions = predictions, !.settlements = nulled]
    OBVIOUS
  <1>15. PICK b : b = [e EXCEPT !.markets = narrow, !.details = details, !.books = books,
                               !.predictions = predictions, !.settlements = nulled]
    OBVIOUS
  <1>16. b = c
    <2>1. DOMAIN b = DatabaseFields /\ DOMAIN c = DatabaseFields
      BY <1>1, <1>6, <1>14, <1>15
    <2>4. b = [x \in DatabaseFields |-> b[x]] /\ c = [x \in DatabaseFields |-> c[x]]
      BY <1>14, <1>15, <2>1
    <2>5. \A x \in DatabaseFields : b[x] = c[x]
      BY <1>1, <1>6, <1>14, <1>15 DEF DatabaseFields
    <2>. QED
      BY <2>4, <2>5
  <1>17. Cascade(e, narrow) = b /\ Cascade(d, narrow) = c
    BY <1>11, <1>12, <1>13, <1>14, <1>15
  <1>. QED
    BY <1>2, <1>16, <1>17

\* A rung after a wider one leaves what it would have left alone.
LEMMA RungsCompose ==
    ASSUME NEW d, Sound(d), Proper(d.markets),
           NEW q \in [live : Nat, resolved : Nat], NEW r \in [live : Nat, resolved : Nat],
           r.live <= q.live, r.resolved <= q.resolved,
           NEW e, e = Cascade(d, Kept(d, q))
    PROVE  Cascade(e, Kept(e, r)) = Cascade(d, Kept(d, r))
  <1>1. q.live \in Nat /\ q.resolved \in Nat /\ r.live \in Nat /\ r.resolved \in Nat
    OBVIOUS
  <1>2. Proper(LiveOf(d.markets)) /\ Proper(ResolvedOf(d.markets))
    BY NumberedFewer, LiveAreMarkets DEF Proper, Flagged
  <1>3. /\ e.markets = Kept(d, q) /\ e.recommendations = d.recommendations /\ e.frozen = d.frozen
    BY DEF Cascade, Sound, DatabaseFields
  <1>4. PICK live, resolved : live = LiveOf(d.markets) /\ resolved = ResolvedOf(d.markets)
    OBVIOUS
  <1>5. /\ Top(live, Busier, q.live) \subseteq live /\ Top(live, Busier, r.live) \subseteq live
        /\ Top(resolved, Later, q.resolved) \subseteq resolved
        /\ Top(resolved, Later, r.resolved) \subseteq resolved
    BY DEF Top
  <1>6. live \subseteq d.markets /\ resolved \subseteq d.markets
    BY <1>4, LiveAreMarkets
  <1>7. Kept(d, q) = Audit(d) \cup Top(live, Busier, q.live) \cup Top(resolved, Later, q.resolved)
    BY <1>4 DEF Kept
  <1>8. Kept(d, q) \subseteq d.markets
    BY <1>5, <1>6, <1>7 DEF Audit
  <1>9. Audit(e) = Audit(d)
    <2>1. Audit(e) = {m \in Kept(d, q) : m \in Audit(d)}
      BY <1>3, <1>8 DEF Audit
    <2>. QED
      BY <1>7, <2>1
  <1>10. /\ LiveOf(e.markets) \subseteq live /\ Top(live, Busier, q.live) \subseteq LiveOf(e.markets)
         /\ ResolvedOf(e.markets) \subseteq resolved
         /\ Top(resolved, Later, q.resolved) \subseteq ResolvedOf(e.markets)
    <2>1. \A m \in live : m.status = "open"
      BY <1>4 DEF LiveOf
    <2>2. \A m \in resolved : m.status \in {"closed", "settled"}
      BY <1>4 DEF ResolvedOf
    <2>3. \A m : m \in LiveOf(e.markets) <=> m \in Kept(d, q) /\ m.status = "open"
      BY <1>3 DEF LiveOf
    <2>4. \A m : m \in ResolvedOf(e.markets) <=> m \in Kept(d, q) /\ m.status \in {"closed", "settled"}
      BY <1>3 DEF ResolvedOf
    <2>5. LiveOf(e.markets) \subseteq live /\ ResolvedOf(e.markets) \subseteq resolved
      BY <1>4, <1>8, <2>3, <2>4 DEF LiveOf, ResolvedOf
    <2>. QED
      BY <1>5, <1>7, <2>1, <2>2, <2>3, <2>4, <2>5
  <1>11. Top(LiveOf(e.markets), Busier, r.live) = Top(live, Busier, r.live)
    BY <1>1, <1>2, <1>4, <1>10, BusiestStayFirst
  <1>12. Top(ResolvedOf(e.markets), Later, r.resolved) = Top(resolved, Later, r.resolved)
    BY <1>1, <1>2, <1>4, <1>10, LatestStayFirst
  <1>13. Kept(e, r) = Kept(d, r)
    BY <1>4, <1>9, <1>11, <1>12 DEF Kept
  <1>14. Kept(e, r) \subseteq Kept(d, q)
    <2>1. Kept(e, r) \subseteq e.markets
      <3>1. /\ Top(LiveOf(e.markets), Busier, r.live) \subseteq LiveOf(e.markets)
            /\ Top(ResolvedOf(e.markets), Later, r.resolved) \subseteq ResolvedOf(e.markets)
        BY DEF Top
      <3>2. Audit(e) \subseteq e.markets
        BY DEF Audit
      <3>. QED
        BY <3>1, <3>2, LiveAreMarkets DEF Kept
    <2>. QED
      BY <1>3, <2>1
  <1>15. Cascade(Cascade(d, Kept(d, q)), Kept(e, r)) = Cascade(d, Kept(e, r))
    BY <1>14, CascadesCompose
  <1>. QED
    BY <1>13, <1>15

TooLarge(d) == SizeOf(d.markets) > TargetSize

\* The rungs applied make of the candidate what the last of them alone would, and
\* before each the candidate was too large.
SacrificeInv ==
    /\ rung \in Nat /\ Flagged(db.markets) /\ Flagged(artefact.markets)
    /\ job # "tighten" => rung = 0
    /\ job = "tighten" => /\ rung <= Len(Ladder)
                          /\ Sound(selected) /\ Flagged(selected.markets)
                          /\ db = BuiltAt(rung)
                          /\ \A r \in 0..(rung - 1) : TooLarge(BuiltAt(r))

\* The jobs before the budget is looked at change no market's activity but to a flag.
LEMMA IngestFlags == ASSUME RetentionInv, SacrificeInv, Ingest PROVE Flagged(db'.markets)
  <1> DEFINE Filled(seen, traded, fresh) ==
                 db' = [db EXCEPT
                           !.markets = Ingested(db.markets, seen, traded, fresh),
                           !.details = db.details
                                       \cup Rows(LiveOf(Ingested(db.markets, seen, traded, fresh)))]
  <1>1. PICK seen, traded, fresh : Filled(seen, traded, fresh) /\ fresh \subseteq Feed
    <2>1. PICK seen \in [Feed -> {"unlisted", "open", "closed"}] :
              \E traded \in SUBSET {l \in Feed : seen[l] = "open"} :
                  Filled(seen, traded, {l \in Feed : seen[l] = "open"} \ Known(db.markets))
      BY DEF Ingest, Ingested
    <2>2. {l \in Feed : seen[l] = "open"} \ Known(db.markets) \subseteq Feed
      OBVIOUS
    <2>. HIDE DEF Filled
    <2>. QED
      BY <2>1, <2>2
  <1>2. PICK markets : markets = Ingested(db.markets, seen, traded, fresh)
    OBVIOUS
  <1>3. db'.markets = markets
    BY <1>1, <1>2 DEF RetentionInv, Sound, DatabaseFields
  <1>4. ASSUME NEW m \in db.markets
        PROVE  SeenAgain(m, seen, traded).traded \in BOOLEAN /\ SeenAgain(m, seen, traded).about \in Feed
    <2>1. DOMAIN m = {"id", "about", "status", "traded", "text"} /\ m.about \in Feed
      BY DEF RetentionInv, Sound, Numbered, SacrificeInv, Flagged
    <2>2. CASE seen[m.about] = "open"
      <3>1. SeenAgain(m, seen, traded) = [m EXCEPT !.traded = m.about \in traded, !.text = TRUE]
        BY <2>2 DEF SeenAgain
      <3>2. /\ SeenAgain(m, seen, traded).traded = (m.about \in traded)
            /\ SeenAgain(m, seen, traded).about = m.about
        BY <2>1, <3>1
      <3>. QED
        BY <2>1, <3>2
    <2>3. CASE seen[m.about] # "open"
      BY <2>1, <2>3 DEF SeenAgain
    <2>. QED
      BY <2>2, <2>3
  <1>5. ASSUME NEW l, NEW id
        PROVE  NewMarket(l, id, traded).traded \in BOOLEAN /\ NewMarket(l, id, traded).about = l
    BY DEF NewMarket
  <1>6. Flagged(markets)
    <2>1. \A l \in fresh : l \in Feed
      <3>. HIDE DEF Filled
      <3>. QED
        BY <1>1
    <2>. QED
      BY <1>2, <1>4, <1>5, <2>1 DEF Ingested, Flagged
  <1>. QED
    BY <1>3, <1>6

LEMMA BoundStarts == ASSUME RetentionInv, RetentionInv', SacrificeInv, Bound PROVE SacrificeInv'
  <1>1. PICK bare : bare = ResolvedOf(db.markets) \ Audit(db)
    OBVIOUS
  <1>2. PICK others : others = (db.markets \ bare) \cup {[m EXCEPT !.text = FALSE] : m \in bare}
    OBVIOUS
  <1>3. /\ db' = [db EXCEPT !.markets = others] /\ selected' = db' /\ job' = "tighten"
        /\ rung' = rung /\ artefact' = artefact /\ job = "bound"
    BY <1>1, <1>2 DEF Bound
  <1>4. DOMAIN db = DatabaseFields /\ Numbered(db.markets)
    BY DEF RetentionInv, Sound
  <1>5. db'.markets = others
    BY <1>3, <1>4 DEF DatabaseFields
  <1>6. \A m \in db.markets : LET n == [m EXCEPT !.text = FALSE] IN
            n.about = m.about /\ n.traded = m.traded
    BY <1>4 DEF Numbered
  <1>7. bare \subseteq db.markets
    BY <1>1 DEF ResolvedOf
  <1>8. \A o \in others : \E m \in db.markets : o.about = m.about /\ o.traded = m.traded
    BY <1>2, <1>6, <1>7, ZenonT(30)
  <1>9. Flagged(others)
    BY <1>8 DEF SacrificeInv, Flagged
  <1>10. rung' = 0 /\ rung' <= Len(Ladder)
    <2>1. Len(Ladder) > 0
      BY RetentionAssumption, Zenon
    <2>. QED
      BY <1>3, <2>1 DEF SacrificeInv
  <1>11. Sound(selected') /\ Flagged(selected'.markets)
    BY <1>3, <1>5, <1>9 DEF RetentionInv
  <1>12. db' = BuiltAt(rung)' /\ 0..(rung' - 1) = {}
    BY <1>3, <1>10 DEF BuiltAt
  <1>. QED
    BY <1>3, <1>5, <1>9, <1>10, <1>11, <1>12 DEF SacrificeInv

\* The rungs of the ladder, each no wider than the one before.
LEMMA RungsAreBudgets ==
    ASSUME NEW i \in Nat, i # 0, i <= Len(Ladder)
    PROVE  /\ Ladder[i] \in [live : Nat, resolved : Nat]
           /\ i > 1 => /\ Ladder[i].live <= Ladder[i - 1].live
                       /\ Ladder[i].resolved <= Ladder[i - 1].resolved
  <1>1. PICK rungs : rungs = [live : Nat, resolved : Nat]
    OBVIOUS
  <1>2. Ladder \in Seq(rungs)
    BY <1>1, RetentionAssumption, Zenon
  <1>3. Ladder[i] \in rungs
    BY <1>2
  <1>4. \A j \in 2..Len(Ladder) : /\ Ladder[j].live <= Ladder[j - 1].live
                                  /\ Ladder[j].resolved <= Ladder[j - 1].resolved
    BY RetentionAssumption, Zenon
  <1>5. i > 1 => i \in 2..Len(Ladder)
    BY <1>2
  <1>. QED
    BY <1>1, <1>3, <1>4, <1>5

\* One more rung: what a build at it would leave, and the last build was too large.
LEMMA TightenKeeps == ASSUME RetentionInv, SacrificeInv, Tighten PROVE SacrificeInv'
  <1>1. /\ db' = Cascade(db, Kept(db, Ladder[rung + 1])) /\ rung' = rung + 1
        /\ UNCHANGED <<artefact, job, selected>> /\ job = "tighten" /\ rung < Len(Ladder)
        /\ TooLarge(db)
    BY DEF Tighten, TooLarge
  <1>2. /\ rung \in Nat /\ Sound(selected) /\ Flagged(selected.markets)
        /\ db = BuiltAt(rung) /\ \A r \in 0..(rung - 1) : TooLarge(BuiltAt(r))
    BY <1>1 DEF SacrificeInv
  <1>3. Proper(selected.markets)
    BY <1>2 DEF Proper, Sound
  <1>4. Len(Ladder) \in Nat
    <2>1. PICK rungs : rungs = [live : Nat, resolved : Nat]
      OBVIOUS
    <2>2. Ladder \in Seq(rungs)
      BY <2>1, RetentionAssumption, Zenon
    <2>. QED
      BY <2>2
  <1>5. rung + 1 \in Nat /\ rung + 1 # 0 /\ rung + 1 <= Len(Ladder) /\ rung <= Len(Ladder)
    BY <1>1, <1>2, <1>4
  <1>6. PICK r \in [live : Nat, resolved : Nat] : r = Ladder[rung + 1]
    BY <1>5, RungsAreBudgets
  <1>7. PICK built : built = Cascade(selected, Kept(selected, r))
    OBVIOUS
  <1>8. db' = built
    <2>1. CASE rung = 0
      <3>1. db = selected
        BY <1>2, <2>1 DEF BuiltAt
      <3>. QED
        BY <1>1, <1>6, <1>7, <3>1
    <2>2. CASE rung # 0
      <3>1. PICK q \in [live : Nat, resolved : Nat] : q = Ladder[rung]
        BY <1>2, <1>5, <2>2, RungsAreBudgets
      <3>2. r.live <= q.live /\ r.resolved <= q.resolved
        <4>1. rung + 1 > 1 /\ (rung + 1) - 1 = rung
          BY <1>2, <2>2
        <4>2. Ladder[rung + 1].live <= Ladder[rung].live /\ Ladder[rung + 1].resolved <= Ladder[rung].resolved
          BY <1>5, <4>1, RungsAreBudgets
        <4>. QED
          BY <1>6, <3>1, <4>2
      <3>3. db = Cascade(selected, Kept(selected, q))
        BY <1>2, <2>2, <3>1 DEF BuiltAt
      <3>4. Cascade(db, Kept(db, r)) = Cascade(selected, Kept(selected, r))
        BY <1>2, <1>3, <3>2, <3>3, RungsCompose
      <3>. QED
        BY <1>1, <1>6, <1>7, <3>4
    <2>. QED
      BY <2>1, <2>2
  <1>9. BuiltAt(rung)' = built
    <2>1. rung' # 0 /\ selected' = selected /\ Ladder[rung'] = r
      BY <1>1, <1>2, <1>6
    <2>. QED
      BY <1>7, <2>1 DEF BuiltAt
  <1>10. built.markets \subseteq selected.markets
    BY <1>2, <1>3, <1>7, RungKeepsOrder
  <1>11. Flagged(db'.markets)
    BY <1>2, <1>8, <1>10 DEF Flagged
  <1>12. ASSUME NEW i \in 0..(rung' - 1) PROVE TooLarge(BuiltAt(i)')
    <2>1. BuiltAt(i)' = BuiltAt(i)
      BY <1>1 DEF BuiltAt
    <2>2. i \in 0..(rung - 1) \/ i = rung
      BY <1>1, <1>2
    <2>. QED
      BY <1>1, <1>2, <2>1, <2>2
  <1>. QED
    BY <1>1, <1>2, <1>5, <1>8, <1>9, <1>11, <1>12 DEF SacrificeInv, TooLarge, SizeOf

LEMMA StepSacrifice ==
    RetentionInv /\ RetentionInv' /\ SacrificeInv /\ [RetentionNext]_retentionVars => SacrificeInv'
  <1>. SUFFICES ASSUME RetentionInv, RetentionInv', SacrificeInv, [RetentionNext]_retentionVars
                PROVE  SacrificeInv'
    OBVIOUS
  <1>1. ASSUME job # "tighten", job' # "tighten", UNCHANGED <<artefact, rung>>, Flagged(db'.markets)
        PROVE  SacrificeInv'
    BY <1>1 DEF SacrificeInv
  <1>2. CASE Ingest
    BY <1>1, <1>2, IngestFlags DEF Ingest
  <1>3. DOMAIN db = DatabaseFields /\ Numbered(db.markets) /\ Flagged(db.markets)
    BY DEF RetentionInv, Sound, SacrificeInv
  <1>4. CASE Orderbooks \/ Score \/ RankMarkets \/ Prune
    <2>1. db'.markets = db.markets
      <3>1. CASE Orderbooks
        <4>1. PICK rows : db' = [db EXCEPT !.books = rows]
          BY <3>1 DEF Orderbooks
        <4>. QED
          BY <1>3, <4>1 DEF DatabaseFields
      <3>2. CASE Score
        <4>1. PICK new : new = {[id |-> NextId(db.predictions) + Place(m.id, Ids(Scoreable)),
                                 market |-> m.id, about |-> m.about] : m \in Scoreable}
          OBVIOUS
        <4>2. db' = [db EXCEPT !.predictions = db.predictions \cup new]
          BY <3>2, <4>1 DEF Score
        <4>. QED
          BY <1>3, <4>2 DEF DatabaseFields
      <3>3. CASE RankMarkets
        <4>1. PICK top, new :
                  /\ new = {[market |-> m.id, about |-> m.about,
                             prediction |-> NewestOf(db.predictions, m.id)] : m \in top}
                  /\ db' = [db EXCEPT !.recommendations = db.recommendations \cup new,
                                      !.frozen = db.frozen \cup Rows(top)]
          BY <3>3 DEF RankMarkets
        <4>. QED
          BY <1>3, <4>1 DEF DatabaseFields
      <3>4. CASE Prune
        <4>1. PICK rows : db' = [db EXCEPT !.books = rows]
          BY <3>4 DEF Prune
        <4>. QED
          BY <1>3, <4>1 DEF DatabaseFields
      <3>. QED
        BY <1>4, <3>1, <3>2, <3>3, <3>4
    <2>2. job # "tighten" /\ job' # "tighten" /\ UNCHANGED <<artefact, rung>>
      BY <1>4 DEF Orderbooks, Score, RankMarkets, Prune, Stays
    <2>. QED
      BY <1>1, <1>3, <2>1, <2>2
  <1>5. CASE SettleMarkets
    <2>1. PICK resolved \in SUBSET {m \in db.markets : m.status = "closed"} :
              db' = [db EXCEPT !.markets = (db.markets \ resolved)
                                   \cup {[m EXCEPT !.status = "settled"] : m \in resolved},
                               !.settlements = db.settlements \cup Rows(resolved)]
      BY <1>5 DEF SettleMarkets
    <2>2. PICK again : again = {[m EXCEPT !.status = "settled"] : m \in resolved}
      OBVIOUS
    <2>3. db'.markets = (db.markets \ resolved) \cup again
      BY <1>3, <2>1, <2>2 DEF DatabaseFields
    <2>4. \A m \in db.markets : LET n == [m EXCEPT !.status = "settled"] IN
              n.traded = m.traded /\ n.about = m.about
      BY <1>3 DEF Numbered
    <2>5. Flagged(again)
      BY <1>3, <2>2, <2>4 DEF Flagged
    <2>6. Flagged(db'.markets)
      BY <1>3, <2>3, <2>5 DEF Flagged
    <2>. QED
      BY <1>1, <1>5, <2>6 DEF SettleMarkets, Stays
  <1>6. CASE SelectMarkets
    <2>1. db'.markets = Selected(db)
      BY <1>3, <1>6 DEF SelectMarkets, DatabaseFields
    <2>2. Flagged(db'.markets)
      BY <1>3, <2>1 DEF Selected, Flagged
    <2>. QED
      BY <1>1, <1>6, <2>2 DEF SelectMarkets, Stays
  <1>7. CASE Bound
    BY <1>7, BoundStarts
  <1>8. CASE Tighten
    BY <1>8, TightenKeeps
  <1>9. CASE Conclude
    <2>1. db' = artefact' /\ (artefact' = db \/ artefact' = artefact) /\ rung' = 0 /\ job' = "ingest"
      BY <1>9 DEF Conclude
    <2>. QED
      BY <2>1 DEF SacrificeInv
  <1>10. CASE UNCHANGED retentionVars
    BY <1>10 DEF retentionVars, SacrificeInv, BuiltAt
  <1>. QED
    BY <1>2, <1>4, <1>5, <1>6, <1>7, <1>8, <1>9, <1>10 DEF RetentionNext

LEMMA OrderInvariant == RetentionInv /\ SacrificeInv => SacrificeIsOrderly
  <1>. SUFFICES ASSUME RetentionInv, SacrificeInv, job = "tighten" PROVE SacrificeIsOrderly
    BY DEF SacrificeIsOrderly
  <1>1. /\ rung \in Nat /\ rung <= Len(Ladder) /\ Sound(selected) /\ Flagged(selected.markets)
        /\ db = BuiltAt(rung) /\ \A r \in 0..(rung - 1) : TooLarge(BuiltAt(r))
    BY DEF SacrificeInv
  <1>2. Proper(selected.markets)
    BY <1>1 DEF Proper, Sound
  <1>3. PICK from : from = selected.markets
    OBVIOUS
  <1>4. /\ db.markets \subseteq from /\ InSequence(from, db)
        /\ rung > 0 => WithinBudget(db, Ladder[rung])
    <2>1. CASE rung = 0
      <3>1. db = selected
        BY <1>1, <2>1 DEF BuiltAt
      <3>2. Dropped(from, db) = {}
        BY <1>3, <3>1 DEF Dropped, Ids
      <3>. QED
        BY <1>3, <2>1, <3>1, <3>2 DEF InSequence
    <2>2. CASE rung # 0
      <3>1. PICK r \in [live : Nat, resolved : Nat] : r = Ladder[rung]
        BY <1>1, <2>2, RungsAreBudgets
      <3>2. db = Cascade(selected, Kept(selected, r))
        BY <1>1, <2>2, <3>1 DEF BuiltAt
      <3>3. db.markets \subseteq selected.markets /\ InSequence(selected.markets, db) /\ WithinBudget(db, r)
        BY <1>1, <1>2, <3>2, RungKeepsOrder
      <3>. QED
        BY <1>3, <3>1, <3>3
    <2>. QED
      BY <2>1, <2>2
  <1>5. PICK dropped, audited, ranked :
            /\ dropped = {m \in selected.markets : m.id \notin Ids(db.markets)}
            /\ audited = Referred(db.recommendations) \cup Referred(db.frozen)
            /\ ranked = {m \in db.markets : m.id \notin audited}
    OBVIOUS
  <1>6. dropped = Dropped(from, db) /\ ranked = Ranked(db) /\ audited = Audited(db)
    BY <1>3, <1>5 DEF Dropped, Ranked, Audited
  <1>7. \A m \in dropped : m.id \notin audited
    BY <1>4, <1>6 DEF InSequence
  <1>8. ASSUME NEW m \in dropped, NEW n \in ranked
        PROVE  /\ {m, n} \subseteq LiveOf(selected.markets) => ~ Busier(m, n)
               /\ {m, n} \subseteq ResolvedOf(selected.markets) => ~ Later(m, n)
    <2>1. /\ Live(m) /\ Live(n) => ~ Busier(m, n)
          /\ Resolved(m) /\ Resolved(n) => ~ Later(m, n)
      BY <1>4, <1>6 DEF InSequence
    <2>2. /\ {m, n} \subseteq LiveOf(selected.markets) => Live(m) /\ Live(n)
          /\ {m, n} \subseteq ResolvedOf(selected.markets) => Resolved(m) /\ Resolved(n)
      BY DEF LiveOf, ResolvedOf, Live, Resolved
    <2>. QED
      BY <2>1, <2>2
  <1>9. rung > 0 => /\ Cardinality(LiveOf(ranked)) <= Ladder[rung].live
                    /\ Cardinality(ResolvedOf(ranked)) <= Ladder[rung].resolved
    BY <1>4, <1>6 DEF WithinBudget
  <1>10. \A r \in 0..(rung - 1) : SizeOf(BuiltAt(r).markets) > TargetSize
    BY <1>1 DEF TooLarge
  <1>. QED
    BY <1>1, <1>5, <1>7, <1>8, <1>9, <1>10 DEF SacrificeIsOrderly

\* What is given up for size is given up in order: never a market of the audit
\* trail, never one that ranks above another that stayed; the rungs, however many,
\* leave what the last of them would leave of the candidate by itself, children
\* included; and a build at any earlier one would have been too large, so that no
\* rung was needless (snapshot_retention.py:188-194, 521).
THEOREM SacrificeInOrder == RetentionSpec => []SacrificeIsOrderly
  <1>1. RetentionInit => RetentionInv /\ SacrificeInv
    <2>. SUFFICES ASSUME RetentionInit PROVE RetentionInv /\ SacrificeInv
      OBVIOUS
    <2>1. RetentionInv
      BY InitRetention
    <2>2. db.markets = {} /\ artefact.markets = {} /\ job = "ingest" /\ rung = 0
      BY DEF RetentionInit, Empty
    <2>3. SacrificeInv
      BY <2>2 DEF SacrificeInv, Flagged
    <2>. QED
      BY <2>1, <2>3
  <1>2. RetentionInv /\ SacrificeInv => SacrificeIsOrderly
    BY OrderInvariant
  <1>. QED
    BY <1>1, <1>2, StepRetention, StepSacrifice, PTL DEF RetentionSpec

-----------------------------------------------------------------------------
(* The schedule.                                                              *)

\* Whole periods, and what is left of them.
LEMMA Periods ==
    ASSUME NEW x \in Nat, NEW e \in Nat \ {0}
    PROVE  \E q \in Nat, r \in 0..(e - 1) : /\ q = x \div e /\ r = x % e
                                          /\ q * e \in Nat /\ x = q * e + r
<1>1. x \div e \in Nat /\ x % e \in 0..(e - 1)
  OBVIOUS
<1>2. PICK q \in Nat, r \in 0..(e - 1) : q = x \div e /\ r = x % e
  BY <1>1
<1>3. x = e * (x \div e) + (x % e)
  OBVIOUS
<1>4. e * q = q * e /\ q * e \in Nat
  OBVIOUS
<1>5. x = q * e + r
  BY <1>2, <1>3, <1>4
<1> QED
  BY <1>2, <1>4, <1>5

LEMMA SameRest ==
    ASSUME NEW e \in Nat \ {0}, NEW q \in Nat, NEW m \in Nat,
           NEW r \in 0..(e - 1), NEW s \in 0..(e - 1), q * e + r = m * e + s
    PROVE  q = m /\ r = s
<1>1. CASE q < m
  <2>1. q + 1 <= m
    BY <1>1
  <2>2. (q + 1) * e <= m * e
    BY <2>1
  <2> QED
    BY <2>2
<1>2. CASE m < q
  <2>1. m + 1 <= q
    BY <1>2
  <2>2. (m + 1) * e <= q * e
    BY <2>1
  <2> QED
    BY <2>2
<1> QED
  BY <1>1, <1>2

LEMMA LaterDay ==
    ASSUME NEW e \in Nat \ {0}, NEW q \in Nat, NEW m \in Nat, q < m
    PROVE  q * e + e <= m * e
<1>1. q + 1 <= m
  OBVIOUS
<1>2. (q + 1) * e <= m * e
  BY <1>1
<1> QED
  BY <1>2

\* Two times with the same rest are whole periods apart.
LEMMA PeriodsApart ==
    ASSUME NEW e \in Nat \ {0}, NEW x \in Nat, NEW y \in Nat, x < y, x % e = y % e
    PROVE  x + e <= y
<1>1. PICK q \in Nat, a \in 0..(e - 1) : a = x % e /\ q * e \in Nat /\ x = q * e + a
  BY Periods
<1>2. PICK m \in Nat, b \in 0..(e - 1) : b = y % e /\ m * e \in Nat /\ y = m * e + b
  BY Periods
<1>3. PICK c \in Nat, d \in Nat : c = q * e /\ d = m * e
  BY <1>1, <1>2
<1>4. c + a < d + a
  BY <1>1, <1>2, <1>3
<1>5. q < m
  <2>1. CASE m = q
    BY <1>1, <1>3, <1>4, <2>1
  <2>2. CASE m < q
    <3>1. m * e + e <= q * e
      BY <2>2, LaterDay
    <3> QED
      BY <1>1, <1>3, <1>4, <3>1
  <2> QED
    BY <2>1, <2>2
<1>6. c + e <= d
  BY <1>3, <1>5, LaterDay
<1> QED
  BY <1>1, <1>2, <1>3, <1>6

\* Whole periods later the rest is the same.
LEMMA RestLater ==
    ASSUME NEW e \in Nat \ {0}, NEW x \in Nat, NEW n \in Nat
    PROVE  (x + n * e) % e = x % e
<1>1. PICK q \in Nat, a \in 0..(e - 1) : a = x % e /\ q * e \in Nat /\ x = q * e + a
  BY Periods
<1>2. PICK p \in Nat : p = n * e
  OBVIOUS
<1>3. PICK y \in Nat : y = x + p
  OBVIOUS
<1>4. PICK m \in Nat, b \in 0..(e - 1) : b = y % e /\ y = m * e + b
  BY Periods, ZenonT(30)
<1>5. PICK k \in Nat : k = q + n
  OBVIOUS
<1>6. k * e = q * e + n * e
  BY <1>5
<1>7. PICK c \in Nat : c = q * e
  BY <1>1
<1>8. k * e + a = m * e + b
  <2>1. k * e = c + p
    BY <1>2, <1>6, <1>7
  <2>2. c + p + a = y
    BY <1>1, <1>3, <1>7
  <2> QED
    BY <1>4, <2>1, <2>2
<1>9. a = b
  BY <1>8, SameRest
<1> QED
  BY <1>1, <1>2, <1>3, <1>4, <1>9

LEMMA RestIs ==
    ASSUME NEW e \in Nat \ {0}, NEW m \in Nat, NEW a \in 0..(e - 1), NEW x, x = m * e + a
    PROVE  x % e = a
<1>1. PICK y \in Nat : y = m * e + a
  OBVIOUS
<1>2. PICK n \in Nat, b \in 0..(e - 1) : b = y % e /\ y = n * e + b
  BY Periods, ZenonT(30)
<1>3. n * e + b = m * e + a
  BY <1>1, <1>2, Zenon
<1>4. a = b
  BY <1>3, SameRest
<1> QED
  BY <1>1, <1>2, <1>4, Zenon

\* There is one such time of day in every period to come.
LEMMA TimeOfDay ==
    ASSUME NEW e \in Nat \ {0}, NEW a \in 0..(e - 1), NEW h \in Nat
    PROVE  \E t \in h..(h + e - 1) : t % e = a
<1>1. PICK q \in Nat, r \in 0..(e - 1) : h = q * e + r
  BY Periods
<1>2. CASE a >= r
  <2>1. PICK t \in Nat : t = q * e + a
    OBVIOUS
  <2>2. PICK n \in Nat, s \in 0..(e - 1) : s = t % e /\ t = n * e + s
    BY Periods, ZenonT(30)
  <2>3. q * e + a = n * e + s
    BY <2>1, <2>2, Zenon
  <2>4. a = s
    BY <2>3, SameRest
  <2>5. t % e = a
    BY <2>2, <2>4, Zenon
  <2>6. PICK p \in Nat : p = q * e
    OBVIOUS
  <2>7. t \in h..(h + e - 1)
    BY <1>1, <1>2, <2>1, <2>6
  <2> QED
    BY <2>5, <2>7
<1>3. CASE a < r
  <2>1. PICK m \in Nat : m = q + 1
    OBVIOUS
  <2>2. PICK t \in Nat : t = m * e + a
    OBVIOUS
  <2>3. PICK n \in Nat, s \in 0..(e - 1) : s = t % e /\ t = n * e + s
    BY Periods, ZenonT(30)
  <2>4. m * e + a = n * e + s
    BY <2>2, <2>3, Zenon
  <2>5. a = s
    BY <2>4, SameRest
  <2>6. t % e = a
    BY <2>3, <2>5, Zenon
  <2>7. m * e = q * e + e
    BY <2>1
  <2>8. PICK p \in Nat : p = q * e
    OBVIOUS
  <2>9. t \in h..(h + e - 1)
    BY <1>1, <1>3, <2>2, <2>7, <2>8
  <2> QED
    BY <2>6, <2>9
<1> QED
  BY <1>1, <1>2, <1>3

(* The schedule of one job.                                                *)

\* The last fire that is past: a period before the one that is due.
LastFire(j) == due[j] - Every[j]

\* A completed run of j begun no earlier than t.
RunSince(j, t) == \E r \in newest[j] : r >= t

\* A fire of j that is past was lost or passed over, or a run of it or of a later one
\* completed, or its run goes on.
FireAnswered(j, t) ==
    t \in lost[j] \/ RunSince(j, t) \/ \E b \in body[j] : Answers(b, j, t)

FiresAnswered(j) ==
    \A t \in (started + 1)..(due[j] - 1) : t % Every[j] = due[j] % Every[j] => FireAnswered(j, t)

\* A daily job is due at its time of day.
DueOnTime(j) == j \in DOMAIN At => \E q \in Nat : due[j] = q * Every[j] + At[j]

By == {"worker", "cli", "leaving", "dead"}

JobInv(j) ==
    /\ newest[j] \subseteq 0..hour /\ due[j] \in Nat
    /\ body[j] \subseteq [by : By, since : 0..hour]
    /\ \A b \in body[j] : \A t \in newest[j] : t <= b.since
    /\ \A b, c \in body[j] : b = c
    /\ up => /\ LastFire(j) <= hour
             /\ FiresAnswered(j)
             /\ DueOnTime(j)

\* A backtest of the sequence comes after a snapshot.
SnapshotFirst(todo) ==
    \A i \in DOMAIN todo : todo[i] = "backtest" => \E k \in 1..(i - 1) : todo[k] = "snapshot"

\* The sequence runs the job at its head and no other, and no backtest before a snapshot.
SequenceInv ==
    /\ manual.todo \in Seq(Scheduled) /\ manual.begun \subseteq 0..hour
    /\ DOMAIN manual = {"todo", "begun"}
    /\ \A s, t \in manual.begun : s = t
    /\ manual.todo # <<>> => manual.begun # {}
    /\ \A j \in Scheduled : Running(j, "cli") =>
          manual.todo # <<>> /\ Head(manual.todo) = j
    /\ \A t \in manual.begun : \A j \in Scheduled : \A b \in body[j] :
          b.by = "cli" => b.since >= t
    /\ \A t \in manual.begun :
          \/ "snapshot" \in Scheduled /\ RunSince("snapshot", t)
          \/ SnapshotFirst(manual.todo)

ScheduleTyped ==
    /\ followed \in Followed /\ hour \in Nat /\ up \in BOOLEAN /\ started \in 0..hour
    /\ DOMAIN due = Scheduled /\ DOMAIN newest = Scheduled
    /\ DOMAIN body = Scheduled /\ DOMAIN lost = Scheduled

ScheduleInv ==
    /\ ScheduleTyped
    /\ \A j \in Scheduled : JobInv(j)
    /\ SequenceInv
    /\ DayIsIncluded

LEMMA JobConstants ==
    ASSUME NEW j \in Scheduled
    PROVE  /\ Every[j] \in Nat \ {0} /\ Grace[j] \in Nat /\ Late \in Nat /\ Late <= Every[j]
           /\ j \in DOMAIN At => At[j] \in 0..(Every[j] - 1)
BY ScheduleAssumption

\* The first fire is within a period, and on time.
LEMMA FirstFireIs ==
    ASSUME NEW j \in Scheduled, hour \in Nat
    PROVE  /\ FirstFire(j) \in Nat /\ FirstFire(j) - Every[j] <= hour
           /\ j \in DOMAIN At => \E q \in Nat : FirstFire(j) = q * Every[j] + At[j]
<1>1. Every[j] \in Nat \ {0} /\ (j \in DOMAIN At => At[j] \in 0..(Every[j] - 1))
  BY JobConstants
<1>2. CASE j \notin DOMAIN At
  BY <1>1, <1>2 DEF FirstFire
<1>3. CASE j \in DOMAIN At
  <2>1. \E t \in hour..(hour + Every[j] - 1) : t % Every[j] = At[j]
    BY <1>1, <1>3, TimeOfDay
  <2>2. PICK t \in hour..(hour + Every[j] - 1) :
          t % Every[j] = At[j] /\ t = FirstFire(j)
    BY <2>1, <1>3 DEF FirstFire
  <2>3. t \in Nat /\ t - Every[j] <= hour
    BY <1>1, <2>2
  <2>4. PICK q \in Nat, r \in 0..(Every[j] - 1) : r = t % Every[j] /\ t = q * Every[j] + r
    BY <1>1, <2>3, Periods
  <2>5. t = q * Every[j] + At[j]
    BY <2>2, <2>4, Zenon
  <2>6. \E n \in Nat : FirstFire(j) = n * Every[j] + At[j]
    BY <2>2, <2>5, Zenon
  <2>7. FirstFire(j) \in Nat /\ FirstFire(j) - Every[j] <= hour
    BY <2>2, <2>3
  <2> QED
    BY <2>6, <2>7, Zenon
<1> QED
  BY <1>2, <1>3

\* The fire a wake is of is past, and a whole number of periods after the one due.
LEMMA LatestFireIs ==
    ASSUME NEW j \in Scheduled, hour \in Nat, due[j] \in Nat, due[j] <= hour
    PROVE  \E n \in Nat : /\ LatestFire(j) = due[j] + n * Every[j] /\ n * Every[j] \in Nat
                          /\ LatestFire(j) \in due[j]..hour /\ hour < LatestFire(j) + Every[j]
<1>1. Every[j] \in Nat \ {0}
  BY JobConstants
<1>2. PICK x \in Nat : x = hour - due[j]
  OBVIOUS
<1>3. PICK n \in Nat, r \in 0..(Every[j] - 1) :
        n = x \div Every[j] /\ n * Every[j] \in Nat /\ x = n * Every[j] + r
  BY <1>1, Periods
<1>4. LatestFire(j) = due[j] + n * Every[j]
  BY <1>2, <1>3, Zenon DEF LatestFire
<1>5. PICK p \in Nat : p = n * Every[j]
  BY <1>3
<1>6. LatestFire(j) \in due[j]..hour /\ hour < LatestFire(j) + Every[j]
  BY <1>1, <1>2, <1>3, <1>4, <1>5
<1> QED
  BY <1>3, <1>4, <1>6

\* A job that nothing happens to.
LEMMA JobKept ==
    ASSUME NEW j \in Scheduled, ScheduleTyped, JobInv(j), hour' \in Nat, hour' >= hour,
           due'[j] = due[j], body'[j] = body[j], newest'[j] = newest[j],
           lost'[j] = lost[j], started' = started, up' => up
    PROVE  JobInv(j)'
<1>1. Every[j] \in Nat /\ Grace[j] \in Nat
  BY JobConstants
<1>2. /\ newest'[j] \subseteq 0..hour' /\ due'[j] \in Nat
      /\ body'[j] \subseteq [by : By, since : 0..hour']
  BY DEF JobInv, ScheduleTyped
<1>3. ASSUME NEW t PROVE FireAnswered(j, t)' <=> FireAnswered(j, t)
  BY DEF FireAnswered, RunSince, Answers
<1>4. up' => LastFire(j)' <= hour' /\ DueOnTime(j)'
  BY <1>1 DEF JobInv, ScheduleTyped, LastFire, DueOnTime
<1>5. up' => FiresAnswered(j)'
  BY <1>3 DEF JobInv, FiresAnswered
<1>6. /\ \A b \in body'[j] : \A t \in newest'[j] : t <= b.since
      /\ \A b, c \in body'[j] : b = c
  BY DEF JobInv
<1> QED
  BY <1>2, <1>4, <1>5, <1>6 DEF JobInv

\* A job whose worker has just begun: no fire of it is past.
LEMMA JobBegun ==
    ASSUME NEW j \in Scheduled, ScheduleTyped, JobInv(j), hour' = hour, started' = hour,
           due'[j] = FirstFire(j), body'[j] = body[j], newest'[j] = newest[j]
    PROVE  JobInv(j)'
<1>1. Every[j] \in Nat \ {0} /\ hour \in Nat
  BY JobConstants DEF ScheduleTyped
<1>2. /\ FirstFire(j) \in Nat /\ FirstFire(j) - Every[j] <= hour
      /\ j \in DOMAIN At => \E q \in Nat : FirstFire(j) = q * Every[j] + At[j]
  BY <1>1, FirstFireIs
<1>3. due'[j] \in Nat /\ due'[j] - Every[j] <= hour /\ DueOnTime(j)'
  BY <1>2 DEF DueOnTime
<1>4. ASSUME NEW t \in (started' + 1)..(due'[j] - 1), t % Every[j] = due'[j] % Every[j] PROVE FALSE
  <2>1. t \in Nat /\ t < due'[j] /\ t > hour
    BY <1>1, <1>3, <1>4
  <2>2. t + Every[j] <= due'[j]
    BY <1>1, <1>3, <1>4, <2>1, PeriodsApart
  <2> QED
    BY <1>1, <1>3, <2>1, <2>2
<1>5. FiresAnswered(j)'
  BY <1>4 DEF FiresAnswered
<1>6. LastFire(j)' <= hour'
  BY <1>3 DEF LastFire
<1> QED
  BY <1>3, <1>5, <1>6 DEF JobInv

\* A job whose worker is gone: whose a run is may change.
LEMMA JobIdle ==
    ASSUME NEW j \in Scheduled, ScheduleTyped, JobInv(j), hour' = hour, ~up', due'[j] = 0,
           newest'[j] = newest[j],
           body'[j] \subseteq [by : By, since : 0..hour],
           \A c \in body'[j] : \E b \in body[j] : c.since = b.since,
           \A b, c \in body'[j] : b = c
    PROVE  JobInv(j)'
<1>1. /\ body'[j] \subseteq [by : By, since : 0..hour']
      /\ \A b \in body'[j] : \A t \in newest'[j] : t <= b.since
      /\ \A b, c \in body'[j] : b = c
  BY DEF JobInv
<1> QED
  BY <1>1 DEF JobInv

\* A job that another process takes, or that one leaves to its heartbeat.
LEMMA JobTaken ==
    ASSUME NEW j \in Scheduled, ScheduleTyped, JobInv(j), hour' = hour, up' = up,
           due'[j] = due[j], newest'[j] = newest[j], lost'[j] = lost[j], started' = started,
           ~Running(j, "worker"),
           body'[j] \subseteq [by : By, since : 0..hour],
           \A b \in body'[j] : \A t \in newest[j] : t <= b.since,
           \A b, c \in body'[j] : b = c
    PROVE  JobInv(j)'
<1>1. ASSUME NEW t, FireAnswered(j, t) PROVE FireAnswered(j, t)'
  BY <1>1 DEF FireAnswered, RunSince, Answers, Running
<1>2. up' => FiresAnswered(j)'
  BY <1>1 DEF JobInv, FiresAnswered
<1>3. up' => LastFire(j)' <= hour' /\ DueOnTime(j)'
  BY DEF JobInv, LastFire, DueOnTime
<1> QED
  BY <1>2, <1>3 DEF JobInv

LEMMA WakeAnswers ==
    ASSUME NEW j \in Scheduled, ScheduleTyped, JobInv(j), up, due[j] <= hour, hour' = hour,
           up' = up, due'[j] = LatestFire(j) + Every[j], newest'[j] = newest[j], started' = started,
           \/ /\ ~Running(j, "worker")
              /\ body'[j] = {[by |-> "worker", since |-> hour]}
              /\ lost'[j] = lost[j] \cup Fires(j, due[j], LatestFire(j) - 1)
           \/ lost'[j] = lost[j] \cup Fires(j, due[j], LatestFire(j)) /\ body'[j] = body[j]
    PROVE  JobInv(j)'
<1>1. /\ Every[j] \in Nat \ {0} /\ hour \in Nat /\ due[j] \in Nat /\ started \in Nat
      /\ newest[j] \subseteq 0..hour
  BY JobConstants DEF ScheduleTyped, JobInv
<1>2. PICK n \in Nat : /\ LatestFire(j) = due[j] + n * Every[j] /\ n * Every[j] \in Nat
                      /\ LatestFire(j) \in due[j]..hour /\ hour < LatestFire(j) + Every[j]
  BY <1>1, LatestFireIs
<1>3. PICK latest \in Nat : latest = LatestFire(j) /\ due[j] <= latest /\ latest <= hour
  BY <1>1, <1>2
<1>4. due'[j] = latest + Every[j]
  BY <1>3
<1>5. due'[j] \in Nat /\ due'[j] - Every[j] = latest
  BY <1>1, <1>3, <1>4
<1>6. PICK m \in Nat : m = n + 1 /\ due'[j] = due[j] + m * Every[j]
  <2>1. PICK m \in Nat : m = n + 1
    OBVIOUS
  <2>2. m * Every[j] = n * Every[j] + Every[j]
    BY <1>1, <2>1
  <2>3. PICK p \in Nat : p = n * Every[j]
    BY <1>2
  <2> QED
    BY <1>1, <1>2, <1>3, <1>4, <2>1, <2>2, <2>3
<1>7. due'[j] % Every[j] = due[j] % Every[j]
  BY <1>1, <1>6, RestLater
<1>8. DueOnTime(j)'
  <2> SUFFICES ASSUME j \in DOMAIN At PROVE \E q \in Nat : due'[j] = q * Every[j] + At[j]
    BY DEF DueOnTime
  <2>1. PICK q \in Nat : due[j] = q * Every[j] + At[j]
    BY DEF JobInv, DueOnTime
  <2>2. At[j] \in Nat
    BY JobConstants, <1>1
  <2>3. PICK k \in Nat : k = q + m
    OBVIOUS
  <2>4. k * Every[j] = q * Every[j] + m * Every[j]
    BY <1>1, <2>3
  <2>5. PICK a \in Nat, b \in Nat : a = q * Every[j] /\ b = m * Every[j]
    BY <1>1
  <2>6. due'[j] = k * Every[j] + At[j]
    BY <1>6, <2>1, <2>2, <2>4, <2>5
  <2> QED
    BY <2>6
<1>9. /\ body'[j] \subseteq [by : By, since : 0..hour']
      /\ \A b \in body'[j] : \A t \in newest'[j] : t <= b.since
      /\ \A b, c \in body'[j] : b = c
  <2>1. CASE body'[j] = body[j]
    BY <2>1 DEF JobInv
  <2>2. CASE body'[j] = {[by |-> "worker", since |-> hour]}
    BY <1>1, <2>2 DEF By
  <2> QED
    BY <2>1, <2>2
<1>10. ASSUME NEW t \in (started + 1)..(due'[j] - 1), t % Every[j] = due[j] % Every[j]
       PROVE  FireAnswered(j, t)'
  <2>1. t \in Nat /\ t < due'[j]
    BY <1>1, <1>5, <1>10
  <2>2. CASE t < due[j]
    <3>1. FireAnswered(j, t)
      BY <1>1, <1>10, <2>1, <2>2 DEF JobInv, FiresAnswered
    <3>2. t \in lost[j] \/ RunSince(j, t) => FireAnswered(j, t)'
      BY DEF FireAnswered, RunSince
    <3>3. ASSUME NEW b \in body[j], Answers(b, j, t) PROVE FireAnswered(j, t)'
      <4>1. body'[j] = body[j]
        BY <3>3 DEF Answers, Running
      <4> QED
        BY <3>3, <4>1 DEF FireAnswered, Answers
    <3> QED
      BY <3>1, <3>2, <3>3 DEF FireAnswered
  <2>3. CASE t >= due[j]
    <3>1. t + Every[j] <= due'[j]
      BY <1>1, <1>5, <1>7, <1>10, <2>1, PeriodsApart
    <3>2. t <= latest
      BY <1>1, <1>4, <2>1, <3>1
    <3>3. CASE t \in lost'[j]
      BY <3>3 DEF FireAnswered
    <3>4. CASE body'[j] = {[by |-> "worker", since |-> hour]} /\ t = latest
      <4>1. PICK b : b = [by |-> "worker", since |-> hour]
        OBVIOUS
      <4>2. hour < latest + Every[j]
        BY <1>2, <1>3
      <4>3. Answers(b, j, t)' /\ b \in body'[j]
        BY <1>3, <3>4, <4>1, <4>2 DEF Answers
      <4> QED
        BY <4>3 DEF FireAnswered
    <3>5. CASE lost'[j] = lost[j] \cup Fires(j, due[j], LatestFire(j))
      BY <1>1, <1>3, <1>10, <2>1, <2>3, <3>2, <3>3, <3>5 DEF Fires
    <3>6. CASE lost'[j] = lost[j] \cup Fires(j, due[j], LatestFire(j) - 1) /\ t # latest
      BY <1>1, <1>3, <1>10, <2>1, <2>3, <3>2, <3>3, <3>6 DEF Fires
    <3> QED
      BY <3>4, <3>5, <3>6
  <2> QED
    BY <1>1, <2>1, <2>2, <2>3
<1>11. FiresAnswered(j)'
  BY <1>7, <1>10 DEF FiresAnswered
<1>12. LastFire(j)' <= hour'
  BY <1>3, <1>5 DEF LastFire
<1> QED
  BY <1>1, <1>5, <1>8, <1>9, <1>11, <1>12 DEF JobInv

LEMMA EndKeeps ==
    ASSUME NEW j \in Scheduled, ScheduleTyped, JobInv(j), hour' = hour, up' = up, started' = started,
           due'[j] = due[j], body'[j] = {}, NEW b \in body[j],
           \/ newest'[j] = {b.since} /\ lost'[j] = lost[j]
           \/ newest'[j] = newest[j] /\ lost'[j] = lost[j] \cup {t \in Fires(j, 0, hour) : Answers(b, j, t)}
    PROVE  JobInv(j)'
<1>1. /\ Every[j] \in Nat \ {0} /\ hour \in Nat /\ due[j] \in Nat /\ started \in Nat
      /\ newest[j] \subseteq 0..hour /\ b.since \in 0..hour
      /\ \A t \in newest[j] : t <= b.since
      /\ \A c \in body[j] : c = b
  BY JobConstants DEF ScheduleTyped, JobInv
<1>2. up => LastFire(j) <= hour /\ DueOnTime(j)
  BY DEF JobInv
<1>3. newest'[j] \subseteq 0..hour'
  BY <1>1
<1>4. ASSUME NEW t \in Nat, t % Every[j] = due[j] % Every[j], FireAnswered(j, t)
      PROVE  FireAnswered(j, t)'
  <2>1. CASE t \in lost[j]
    BY <2>1 DEF FireAnswered
  <2>2. CASE RunSince(j, t)
    <3>1. RunSince(j, t)'
      BY <1>1, <2>2 DEF RunSince
    <3> QED
      BY <3>1 DEF FireAnswered
  <2>3. ASSUME NEW c \in body[j], Answers(c, j, t) PROVE FireAnswered(j, t)'
    <3>1. Answers(b, j, t) /\ t <= b.since
      BY <1>1, <2>3 DEF Answers
    <3>2. CASE newest'[j] = {b.since}
      BY <3>1, <3>2 DEF FireAnswered, RunSince
    <3>3. CASE lost'[j] = lost[j] \cup {u \in Fires(j, 0, hour) : Answers(b, j, u)}
      <4>1. t \in 0..hour
        BY <1>1, <3>1
      <4>2. t \in Fires(j, 0, hour)
        BY <1>4, <4>1 DEF Fires
      <4> QED
        BY <3>1, <3>3, <4>2 DEF FireAnswered
    <3> QED
      BY <3>2, <3>3
  <2> QED
    BY <1>4, <2>1, <2>2, <2>3 DEF FireAnswered
<1>5. up' => FiresAnswered(j)'
  <2> SUFFICES ASSUME up, NEW t \in (started + 1)..(due[j] - 1), t % Every[j] = due[j] % Every[j]
               PROVE  FireAnswered(j, t)'
    BY DEF FiresAnswered
  <2>1. FireAnswered(j, t) /\ t \in Nat
    BY <1>1 DEF JobInv, FiresAnswered
  <2> QED
    BY <1>4, <2>1
<1>6. up' => LastFire(j)' <= hour' /\ DueOnTime(j)'
  BY <1>2 DEF LastFire, DueOnTime
<1> QED
  BY <1>1, <1>3, <1>5, <1>6 DEF JobInv

LEMMA SequenceHead ==
    ASSUME SequenceInv, manual.todo # <<>>
    PROVE  Head(manual.todo) \in Scheduled
BY DEF SequenceInv

LEMMA JobsKept ==
    ASSUME ScheduleTyped, \A j \in Scheduled : JobInv(j), SequenceInv,
           [ScheduleNext]_scheduleVars
    PROVE  ScheduleTyped' /\ \A j \in Scheduled : JobInv(j)'
<1> USE DEF ScheduleTyped
<1>1. CASE StartWorker
  <2>1. ASSUME NEW j \in Scheduled PROVE JobInv(j)'
    <3>1. /\ hour' = hour /\ body'[j] = body[j] /\ newest'[j] = newest[j]
          /\ due'[j] = FirstFire(j) /\ started' = hour
      BY <1>1 DEF StartWorker
    <3> QED
      BY <3>1, JobBegun
  <2> QED
    BY <1>1, <2>1 DEF StartWorker, NoneLost
<1>2. CASE StopWorker
  <2>1. ASSUME NEW j \in Scheduled PROVE JobInv(j)'
    <3>1. /\ hour' = hour /\ ~up' /\ due'[j] = 0 /\ newest'[j] = newest[j]
          /\ body'[j] = {IF b.by = "worker" THEN [b EXCEPT !.by = "leaving"] ELSE b : b \in body[j]}
      BY <1>2 DEF StopWorker, NoFires
    <3>2. body[j] \subseteq [by : By, since : 0..hour] /\ \A b, c \in body[j] : b = c
      BY DEF JobInv
    <3>3. /\ body'[j] \subseteq [by : By, since : 0..hour]
          /\ \A c \in body'[j] : \E b \in body[j] : c.since = b.since
          /\ \A b, c \in body'[j] : b = c
      BY <3>1, <3>2 DEF By
    <3> QED
      BY <3>1, <3>3, JobIdle
  <2> QED
    BY <1>2, <2>1 DEF StopWorker, NoFires, NoneLost
<1>3. CASE WorkerDies
  <2>1. ASSUME NEW j \in Scheduled PROVE JobInv(j)'
    <3>1. /\ hour' = hour /\ ~up' /\ due'[j] = 0 /\ newest'[j] = newest[j]
          /\ body'[j] = {IF b.by = "worker" THEN [b EXCEPT !.by = "dead"] ELSE b : b \in body[j]}
      BY <1>3 DEF WorkerDies, NoFires
    <3>2. body[j] \subseteq [by : By, since : 0..hour] /\ \A b, c \in body[j] : b = c
      BY DEF JobInv
    <3>3. /\ body'[j] \subseteq [by : By, since : 0..hour]
          /\ \A c \in body'[j] : \E b \in body[j] : c.since = b.since
          /\ \A b, c \in body'[j] : b = c
      BY <3>1, <3>2 DEF By
    <3> QED
      BY <3>1, <3>3, JobIdle
  <2> QED
    BY <1>3, <2>1 DEF WorkerDies, NoFires, NoneLost
<1>4. ASSUME NEW j \in followed, WakeJob(j) PROVE ScheduleTyped' /\ \A k \in Scheduled : JobInv(k)'
  <2>1. j \in Scheduled
    BY ScheduleAssumption
  <2>2. /\ up /\ due[j] <= hour /\ hour' = hour /\ up' = up /\ newest' = newest
        /\ followed' = followed /\ started' = started
        /\ due' = [due EXCEPT ![j] = LatestFire(j) + Every[j]]
        /\ \/ /\ ~Running(j, "worker")
              /\ RunBody(j, "worker")
              /\ lost' = [lost EXCEPT ![j] = @ \cup Fires(j, due[j], LatestFire(j) - 1)]
           \/ lost' = [lost EXCEPT ![j] = @ \cup Fires(j, due[j], LatestFire(j))] /\ body' = body
    BY <1>4, Zenon DEF WakeJob
  <2>3. JobInv(j)'
    BY <2>1, <2>2, WakeAnswers DEF RunBody
  <2>4. ASSUME NEW k \in Scheduled, k # j PROVE JobInv(k)'
    BY <2>1, <2>2, <2>4, JobKept DEF RunBody
  <2> QED
    BY <2>1, <2>2, <2>3, <2>4 DEF RunBody
<1>5. ASSUME NEW j \in followed, EndBody(j) PROVE ScheduleTyped' /\ \A k \in Scheduled : JobInv(k)'
  <2>1. j \in Scheduled
    BY ScheduleAssumption
  <2>2. PICK b \in body[j] :
           \/ newest' = [newest EXCEPT ![j] = {b.since}] /\ lost' = lost
           \/ /\ newest' = newest
              /\ lost' = [lost EXCEPT ![j] = @ \cup {t \in Fires(j, 0, hour) : Answers(b, j, t)}]
    BY <1>5 DEF EndBody
  <2>3. /\ hour' = hour /\ up' = up /\ due' = due /\ body' = [body EXCEPT ![j] = {}]
        /\ followed' = followed /\ started' = started
    BY <1>5 DEF EndBody
  <2>4. JobInv(j)'
    BY <2>1, <2>2, <2>3, EndKeeps
  <2>5. ASSUME NEW k \in Scheduled, k # j PROVE JobInv(k)'
    BY <2>1, <2>2, <2>3, <2>5, JobKept
  <2> QED
    BY <2>1, <2>2, <2>3, <2>4, <2>5
<1>6. CASE NextOfSequence
  <2>1. PICK j \in Scheduled : /\ j = Head(manual.todo)
                              /\ \/ Claimable(j) /\ RunBody(j, "cli")
                                 \/ body' = body
    BY <1>6, SequenceHead DEF NextOfSequence
  <2>2. UNCHANGED <<followed, hour, up, due, newest, started, lost>>
    BY <1>6 DEF NextOfSequence
  <2>3. CASE body' = body
    BY <2>2, <2>3, JobKept
  <2>4. CASE Claimable(j) /\ RunBody(j, "cli")
    <3>1. ASSUME NEW k \in Scheduled, k # j PROVE JobInv(k)'
      BY <2>2, <2>4, <3>1, JobKept DEF RunBody
    <3>2. /\ body'[j] \subseteq [by : By, since : 0..hour]
          /\ \A b \in body'[j] : \A t \in newest[j] : t <= b.since
          /\ \A b, c \in body'[j] : b = c
      BY <2>4 DEF RunBody, By, JobInv
    <3>3. ~Running(j, "worker")
      BY <2>4 DEF Claimable, Running
    <3>4. JobInv(j)'
      BY <2>2, <3>2, <3>3, JobTaken
    <3> QED
      BY <2>2, <2>4, <3>1, <3>4 DEF RunBody
  <2> QED
    BY <2>1, <2>3, <2>4
<1>7. CASE CommandDies
  <2>1. PICK j \in Scheduled : /\ Running(j, "cli")
                              /\ body' = [body EXCEPT ![j] = {[b EXCEPT !.by = "dead"] : b \in @}]
    BY <1>7, ScheduleAssumption DEF CommandDies
  <2>2. UNCHANGED <<followed, hour, up, due, newest, started, lost>>
    BY <1>7 DEF CommandDies
  <2>3. ASSUME NEW k \in Scheduled, k # j PROVE JobInv(k)'
    BY <2>1, <2>2, <2>3, JobKept
  <2>4. /\ body[j] \subseteq [by : By, since : 0..hour] /\ \A b, c \in body[j] : b = c
        /\ \A b \in body[j] : \A t \in newest[j] : t <= b.since
    BY DEF JobInv
  <2>5. body'[j] = {[b EXCEPT !.by = "dead"] : b \in body[j]}
    BY <2>1
  <2>6. /\ body'[j] \subseteq [by : By, since : 0..hour]
        /\ \A b \in body'[j] : \A t \in newest[j] : t <= b.since
        /\ \A b, c \in body'[j] : b = c
    BY <2>4, <2>5 DEF By
  <2>7. ~Running(j, "worker")
    BY <2>1, <2>4 DEF Running
  <2>8. JobInv(j)'
    BY <2>2, <2>6, <2>7, JobTaken
  <2> QED
    BY <2>1, <2>2, <2>3, <2>8
<1>8. ASSUME hour' \in Nat, hour' >= hour, UNCHANGED <<followed, up, due, body, newest, started, lost>>
      PROVE  ScheduleTyped' /\ \A j \in Scheduled : JobInv(j)'
  BY <1>8, JobKept
<1>9. CASE BeginSequence \/ UNCHANGED scheduleVars
  BY <1>8, <1>9 DEF BeginSequence, scheduleVars
<1>10. CASE TickSchedule \/ Suspend
  BY <1>8, <1>10 DEF TickSchedule, Suspend
<1> QED
  BY <1>1, <1>2, <1>3, <1>4, <1>5, <1>6, <1>7, <1>9, <1>10 DEF ScheduleNext

-----------------------------------------------------------------------------
(* The sequence run by hand. *)

\* What was completed since some time stays so.
NewestGrows(j) == \A t \in newest[j] : \E u \in newest'[j] : u >= t

LEMMA SequenceStays ==
    ASSUME SequenceInv, hour \in Nat, hour' \in Nat, hour' >= hour, manual' = manual,
           \A j \in Scheduled : \A b \in body'[j] : b.by = "cli" => b \in body[j],
           "snapshot" \in Scheduled => newest["snapshot"] \subseteq Nat /\ newest'["snapshot"] \subseteq Nat
                                        /\ NewestGrows("snapshot")
    PROVE  SequenceInv'
<1>1. \A j \in Scheduled : Running(j, "cli")' => Running(j, "cli")
  BY DEF Running
<1>2. ASSUME NEW t \in manual.begun, "snapshot" \in Scheduled, RunSince("snapshot", t)
      PROVE  RunSince("snapshot", t)'
  <2>1. t \in Nat
    BY DEF SequenceInv
  <2> QED
    BY <1>2, <2>1 DEF RunSince, NewestGrows
<1>3. \A t \in manual'.begun : \A j \in Scheduled : \A b \in body'[j] :
          b.by = "cli" => b.since >= t
  BY DEF SequenceInv
<1>4. \A t \in manual'.begun :
          \/ "snapshot" \in Scheduled /\ RunSince("snapshot", t)'
          \/ SnapshotFirst(manual.todo)
  BY <1>2 DEF SequenceInv
<1>5. manual'.begun \subseteq 0..hour'
  BY DEF SequenceInv
<1> QED
  BY <1>1, <1>3, <1>4, <1>5 DEF SequenceInv, SnapshotFirst

LEMMA OrderOfTail ==
    ASSUME NEW S, NEW s \in Seq(S), s # <<>>, SnapshotFirst(s), Head(s) # "snapshot"
    PROVE  SnapshotFirst(Tail(s))
<1> SUFFICES ASSUME NEW i \in DOMAIN Tail(s), Tail(s)[i] = "backtest"
             PROVE  \E k \in 1..(i - 1) : Tail(s)[k] = "snapshot"
  BY DEF SnapshotFirst
<1>1. i \in Nat /\ i >= 1 /\ i + 1 \in DOMAIN s /\ s[i + 1] = "backtest"
  OBVIOUS
<1>2. PICK k \in 1..i : s[k] = "snapshot"
  BY <1>1 DEF SnapshotFirst
<1>3. k # 1
  BY <1>2
<1>4. k - 1 \in 1..(i - 1) /\ Tail(s)[k - 1] = s[k]
  BY <1>1, <1>2, <1>3
<1> QED
  BY <1>2, <1>4

LEMMA SequenceKept ==
    ASSUME ScheduleTyped, \A j \in Scheduled : JobInv(j), SequenceInv,
           \A j \in Scheduled : JobInv(j)', [ScheduleNext]_scheduleVars
    PROVE  SequenceInv'
<1>1. hour \in Nat /\ \A j \in Scheduled : newest[j] \subseteq 0..hour /\ newest'[j] \subseteq 0..hour'
  BY DEF ScheduleTyped, JobInv
<1>2. ASSUME newest' = newest PROVE \A j \in Scheduled : NewestGrows(j)
  BY <1>1, <1>2 DEF NewestGrows
<1>3. ASSUME newest' = newest, hour' \in Nat, hour' >= hour, manual' = manual,
             \A j \in Scheduled : \A b \in body'[j] : b.by = "cli" => b \in body[j]
      PROVE  SequenceInv'
  BY <1>1, <1>2, <1>3, SequenceStays
<1>4. CASE StartWorker
  BY <1>1, <1>3, <1>4 DEF StartWorker
<1>5. CASE StopWorker
  <2>1. \A j \in Scheduled : \A b \in body'[j] : b.by = "cli" => b \in body[j]
    <3> SUFFICES ASSUME NEW j \in Scheduled, NEW b \in body'[j], b.by = "cli" PROVE b \in body[j]
      OBVIOUS
    <3>1. PICK c \in body[j] : b = IF c.by = "worker" THEN [c EXCEPT !.by = "leaving"] ELSE c
      BY <1>5 DEF StopWorker
    <3>2. c \in [by : By, since : 0..hour]
      BY DEF JobInv
    <3> QED
      BY <3>1, <3>2
  <2> QED
    BY <1>1, <1>3, <1>5, <2>1 DEF StopWorker
<1>6. CASE WorkerDies
  <2>1. \A j \in Scheduled : \A b \in body'[j] : b.by = "cli" => b \in body[j]
    <3> SUFFICES ASSUME NEW j \in Scheduled, NEW b \in body'[j], b.by = "cli" PROVE b \in body[j]
      OBVIOUS
    <3>1. PICK c \in body[j] : b = IF c.by = "worker" THEN [c EXCEPT !.by = "dead"] ELSE c
      BY <1>6 DEF WorkerDies
    <3>2. c \in [by : By, since : 0..hour]
      BY DEF JobInv
    <3> QED
      BY <3>1, <3>2
  <2> QED
    BY <1>1, <1>3, <1>6, <2>1 DEF WorkerDies
<1>7. ASSUME NEW j \in followed, WakeJob(j) PROVE SequenceInv'
  <2>1. newest' = newest /\ hour' = hour /\ manual' = manual
        /\ (RunBody(j, "worker") \/ body' = body)
    BY <1>7, Zenon DEF WakeJob
  <2>2. j \in Scheduled /\ DOMAIN body = Scheduled
    BY ScheduleAssumption DEF ScheduleTyped
  <2>3. \A k \in Scheduled : \A b \in body'[k] : b.by = "cli" => b \in body[k]
    BY <2>1, <2>2 DEF RunBody
  <2> QED
    BY <1>1, <1>3, <2>1, <2>3
<1>8. ASSUME NEW j \in followed, EndBody(j) PROVE SequenceInv'
  <2>1. j \in Scheduled /\ DOMAIN body = Scheduled /\ DOMAIN newest = Scheduled
    BY ScheduleAssumption DEF ScheduleTyped
  <2>2. PICK b \in body[j] :
          /\ body' = [body EXCEPT ![j] = {}]
          /\ \/ /\ newest' = [newest EXCEPT ![j] = {b.since}]
                /\ manual' = IF b.by = "cli" THEN [manual EXCEPT !.todo = Tail(@)] ELSE manual
             \/ /\ newest' = newest
                /\ manual' = IF b.by = "cli" THEN [manual EXCEPT !.todo = <<>>] ELSE manual
    BY <1>8 DEF EndBody
  <2>3. hour' = hour
    BY <1>8 DEF EndBody
  <2>4. \A k \in Scheduled : NewestGrows(k)
    BY <1>1, <2>1, <2>2 DEF NewestGrows, JobInv
  <2>5. \A k \in Scheduled : \A c \in body'[k] : c \in body[k]
    BY <2>1, <2>2
  <2>6. CASE b.by # "cli"
    BY <1>1, <2>2, <2>3, <2>4, <2>5, <2>6, SequenceStays
  <2>7. CASE b.by = "cli"
    <3>1. manual.todo # <<>> /\ Head(manual.todo) = j
      BY <2>1, <2>7 DEF SequenceInv, Running
    <3>2. \A k \in Scheduled : \A c \in body'[k] : c.by # "cli"
      <4> SUFFICES ASSUME NEW k \in Scheduled, NEW c \in body'[k], c.by = "cli" PROVE FALSE
        OBVIOUS
      <4>1. Running(k, "cli")
        BY <2>5 DEF Running
      <4>2. k = j
        BY <3>1, <4>1 DEF SequenceInv
      <4> QED
        BY <2>1, <2>2, <4>2
    <3>3. /\ manual'.begun = manual.begun /\ DOMAIN manual' = {"todo", "begun"}
          /\ \/ newest' = [newest EXCEPT ![j] = {b.since}] /\ manual'.todo = Tail(manual.todo)
             \/ manual'.todo = <<>>
      BY <2>2, <2>7 DEF SequenceInv
    <3>4. manual'.todo \in Seq(Scheduled)
      <4>1. Tail(manual.todo) \in Seq(Scheduled) /\ <<>> \in Seq(Scheduled)
        BY <3>1 DEF SequenceInv
      <4> QED
        BY <3>3, <4>1, Zenon
    <3>5. ASSUME NEW t \in manual.begun
          PROVE  \/ "snapshot" \in Scheduled /\ RunSince("snapshot", t)'
                 \/ SnapshotFirst(manual'.todo)
      <4>1. CASE manual'.todo = <<>>
        BY <4>1 DEF SnapshotFirst
      <4>2. CASE newest' = [newest EXCEPT ![j] = {b.since}] /\ manual'.todo = Tail(manual.todo)
        <5>1. CASE j = "snapshot"
          <6>1. b.since >= t
            BY <2>1, <2>7 DEF SequenceInv
          <6> QED
            BY <2>1, <4>2, <5>1, <6>1 DEF RunSince
        <5>2. CASE SnapshotFirst(manual.todo) /\ j # "snapshot"
          <6>1. SnapshotFirst(Tail(manual.todo))
            BY <3>1, <5>2, OrderOfTail DEF SequenceInv
          <6> QED
            BY <4>2, <6>1
        <5>3. CASE "snapshot" \in Scheduled /\ RunSince("snapshot", t)
          <6>1. t \in Nat /\ newest["snapshot"] \subseteq Nat /\ newest'["snapshot"] \subseteq Nat
            BY <1>1, <2>3, <5>3 DEF SequenceInv
          <6> QED
            BY <2>4, <5>3, <6>1 DEF RunSince, NewestGrows
        <5> QED
          BY <5>1, <5>2, <5>3 DEF SequenceInv
      <4> QED
        BY <3>3, <4>1, <4>2
    <3> QED
      BY <2>3, <3>1, <3>2, <3>3, <3>4, <3>5 DEF SequenceInv, Running
  <2> QED
    BY <2>6, <2>7
<1>9. CASE BeginSequence
  <2>1. /\ manual.begun = {} /\ manual' = [todo |-> Daily, begun |-> {hour}]
        /\ UNCHANGED <<hour, body, newest>>
    BY <1>9 DEF BeginSequence
  <2>2. \A j \in Scheduled : \A b \in body[j] : b.by # "cli"
    BY <2>1 DEF SequenceInv, Running
  <2>3. Daily \in Seq(Scheduled) /\ SnapshotFirst(Daily)
    BY ScheduleAssumption DEF SnapshotFirst
  <2>4. manual'.todo = Daily /\ manual'.begun = {hour} /\ DOMAIN manual' = {"todo", "begun"}
    BY <2>1
  <2> QED
    BY <1>1, <2>1, <2>2, <2>3, <2>4 DEF SequenceInv, Running
<1>10. CASE NextOfSequence
  <2>1. PICK j \in Scheduled :
          /\ manual.todo # <<>> /\ j = Head(manual.todo) /\ ~Running(j, "cli")
          /\ \/ RunBody(j, "cli") /\ manual' = manual
             \/ body' = body /\ manual' = [manual EXCEPT !.todo = <<>>]
    BY <1>10, SequenceHead DEF NextOfSequence
  <2>2. hour' = hour /\ newest' = newest
    BY <1>10 DEF NextOfSequence
  <2>3. DOMAIN body = Scheduled
    BY DEF ScheduleTyped
  <2>4. \A k \in Scheduled : \A b \in body[k] : b.by # "cli"
    BY <2>1 DEF SequenceInv, Running
  <2>5. CASE body' = body /\ manual' = [manual EXCEPT !.todo = <<>>]
    <3>1. /\ manual'.todo = <<>> /\ manual'.begun = manual.begun
          /\ DOMAIN manual' = {"todo", "begun"} /\ <<>> \in Seq(Scheduled) /\ SnapshotFirst(<<>>)
      BY <2>5 DEF SequenceInv, SnapshotFirst
    <3> QED
      BY <1>1, <2>2, <2>4, <2>5, <3>1 DEF SequenceInv, Running
  <2>6. CASE RunBody(j, "cli") /\ manual' = manual
    <3>1. body' = [body EXCEPT ![j] = {[by |-> "cli", since |-> hour]}]
      BY <2>6 DEF RunBody
    <3>2. \A k \in Scheduled : k # j => body'[k] = body[k]
      BY <3>1
    <3>3. body'[j] = {[by |-> "cli", since |-> hour]}
      BY <2>3, <3>1
    <3>4. \A k \in Scheduled : Running(k, "cli")' => k = j
      BY <2>4, <3>2 DEF Running
    <3>5. \A t \in manual.begun : \A k \in Scheduled : \A b \in body'[k] :
            b.by = "cli" => b.since >= t
      <4>1. \A t \in manual.begun : t \in Nat /\ t <= hour
        BY <1>1 DEF SequenceInv
      <4> QED
        BY <2>4, <3>2, <3>3, <4>1, <1>1
    <3>6. \A t \in manual.begun :
          \/ "snapshot" \in Scheduled /\ RunSince("snapshot", t)'
          \/ SnapshotFirst(manual.todo)
      BY <2>2 DEF SequenceInv, RunSince
    <3> QED
      BY <2>1, <2>2, <2>6, <3>4, <3>5, <3>6 DEF SequenceInv
  <2> QED
    BY <2>1, <2>5, <2>6
<1>11. CASE CommandDies
  <2>1. PICK j \in Scheduled : /\ Running(j, "cli")
                              /\ body' = [body EXCEPT ![j] = {[b EXCEPT !.by = "dead"] : b \in @}]
    BY <1>11, ScheduleAssumption DEF CommandDies, ScheduleTyped
  <2>2. /\ hour' = hour /\ newest' = newest /\ manual' = [manual EXCEPT !.todo = <<>>]
    BY <1>11 DEF CommandDies
  <2>3. \A k \in Scheduled : \A b \in body'[k] : b.by # "cli"
    <3>1. DOMAIN body = Scheduled /\ body[j] \subseteq [by : By, since : 0..hour]
      BY DEF ScheduleTyped, JobInv
    <3>2. body'[j] = {[b EXCEPT !.by = "dead"] : b \in body[j]}
      BY <2>1, <3>1
    <3>3. \A b \in body'[j] : b.by = "dead"
      BY <3>1, <3>2
    <3>4. \A k \in Scheduled : k # j => body'[k] = body[k] /\ ~Running(k, "cli")
      BY <2>1, <3>1 DEF SequenceInv
    <3> QED
      BY <3>3, <3>4 DEF Running
  <2>4. /\ manual'.todo = <<>> /\ manual'.begun = manual.begun
        /\ DOMAIN manual' = {"todo", "begun"} /\ <<>> \in Seq(Scheduled) /\ SnapshotFirst(<<>>)
    BY <2>2 DEF SequenceInv, SnapshotFirst
  <2> QED
    BY <1>1, <2>2, <2>3, <2>4 DEF SequenceInv, Running
<1>12. CASE TickSchedule
  BY <1>1, <1>3, <1>12 DEF TickSchedule
<1>13. CASE Suspend
  BY <1>1, <1>3, <1>13 DEF Suspend
<1>14. CASE UNCHANGED scheduleVars
  BY <1>1, <1>3, <1>14 DEF scheduleVars
<1> QED
  BY <1>4, <1>5, <1>6, <1>7, <1>8, <1>9, <1>10, <1>11, <1>12, <1>13, <1>14
  DEF ScheduleNext

-----------------------------------------------------------------------------
(* What the backtest finds, and what the page tells. *)

\* A snapshot that is due no earlier than the backtest is due a day after that record's.
LEMMA DayBefore ==
    ASSUME ScheduleTyped, up, "backtest" \in followed, JobInv("snapshot"), JobInv("backtest"),
           due["backtest"] <= due["snapshot"]
    PROVE  /\ due["backtest"] - DailyGap \in Int /\ due["backtest"] - DailyGap <= LastFire("snapshot")
           /\ due["backtest"] - DailyGap >= 0 =>
                 (due["backtest"] - DailyGap) % Every["snapshot"] = due["snapshot"] % Every["snapshot"]
<1>1. /\ {"snapshot", "backtest"} \subseteq Scheduled \cap DOMAIN At
      /\ Every["snapshot"] = Every["backtest"] /\ At["snapshot"] # At["backtest"]
  BY ScheduleAssumption DEF ScheduleTyped
<1>2. PICK e \in Nat \ {0} : e = Every["snapshot"] /\ e = Every["backtest"]
  BY <1>1, JobConstants
<1>3. PICK a \in 0..(e - 1), c \in 0..(e - 1) :
        /\ e = Every["snapshot"] /\ e = Every["backtest"]
        /\ a = At["snapshot"] /\ c = At["backtest"] /\ a # c
  BY <1>2, <1>1, JobConstants
<1>4. PICK p \in Nat : due["snapshot"] = p * e + a
  BY <1>1, <1>3 DEF JobInv, DueOnTime
<1>5. PICK q \in Nat : due["backtest"] = q * e + c
  BY <1>1, <1>3 DEF JobInv, DueOnTime
<1>6. PICK x \in Nat, y \in Nat : x = p * e /\ y = q * e
  OBVIOUS
<1>7. y + c <= x + a
  BY <1>4, <1>5, <1>6
<1>8. LastFire("snapshot") = x + a - e
  BY <1>3, <1>4, <1>6 DEF LastFire
<1>9. DailyGap = (c - a + e) % e
  BY <1>3 DEF DailyGap
<1>12. due["snapshot"] % e = a
  BY <1>4, RestIs
<1>10. CASE a < c
  <2>1. PICK z \in Nat : z = c - a + e /\ z = 1 * e + (c - a) /\ c - a \in 0..(e - 1)
    BY <1>3, <1>10
  <2>2. PICK n \in Nat, r \in 0..(e - 1) : r = z % e /\ z = n * e + r
    BY Periods, ZenonT(30)
  <2>3. n * e + r = 1 * e + (c - a)
    BY <2>1, <2>2, Zenon
  <2>4. r = c - a
    BY <2>1, <2>3, SameRest
  <2>5. DailyGap = c - a
    BY <1>9, <2>1, <2>2, <2>4
  <2>6. q < p
    <3>1. CASE p = q
      BY <1>6, <1>7, <1>10, <3>1
    <3>2. CASE p < q
      <4>1. x + e <= y
        BY <1>6, <3>2, LaterDay
      <4> QED
        BY <1>7, <4>1
    <3> QED
      BY <3>1, <3>2
  <2>7. y + e <= x
    BY <1>6, <2>6, LaterDay
  <2>8. due["backtest"] - DailyGap = q * e + a
    BY <1>5, <1>6, <2>5
  <2>9. (due["backtest"] - DailyGap) % e = a
    BY <2>8, RestIs
  <2> QED
    BY <1>3, <1>5, <1>6, <1>8, <1>12, <2>5, <2>7, <2>9
<1>11. CASE c < a
  <2>1. PICK z \in Nat : z = c - a + e /\ z = 0 * e + (c - a + e) /\ c - a + e \in 0..(e - 1)
    BY <1>3, <1>11
  <2>2. PICK n \in Nat, r \in 0..(e - 1) : r = z % e /\ z = n * e + r
    BY Periods, ZenonT(30)
  <2>3. n * e + r = 0 * e + (c - a + e)
    BY <2>1, <2>2, Zenon
  <2>4. r = c - a + e
    BY <2>1, <2>3, SameRest
  <2>5. DailyGap = c - a + e
    BY <1>9, <2>1, <2>2, <2>4
  <2>6. y <= x
    <3>1. CASE p < q
      <4>1. x + e <= y
        BY <1>6, <3>1, LaterDay
      <4> QED
        BY <1>7, <4>1
    <3>2. CASE q <= p
      <4>1. CASE q = p
        BY <1>6, <4>1
      <4>2. CASE q < p
        <5>1. y + e <= x
          BY <1>6, <4>2, LaterDay
        <5> QED
          BY <5>1
      <4> QED
        BY <3>2, <4>1, <4>2
    <3> QED
      BY <3>1, <3>2
  <2>7. ASSUME due["backtest"] - DailyGap >= 0 PROVE (due["backtest"] - DailyGap) % e = a
    <3>1. due["backtest"] - DailyGap = y + a - e
      BY <1>5, <1>6, <2>5
    <3>2. q # 0
      BY <1>6, <2>7, <3>1
    <3>3. PICK m \in Nat : m = q - 1
      BY <3>2
    <3>4. m * e = q * e - e
      BY <3>3
    <3>5. due["backtest"] - DailyGap = m * e + a
      BY <1>6, <3>1, <3>4
    <3> QED
      BY <3>5, RestIs
  <2> QED
    BY <1>3, <1>5, <1>6, <1>8, <1>12, <2>5, <2>6, <2>7
<1> QED
  BY <1>3, <1>10, <1>11

LEMMA RecordParts ==
    ASSUME NEW since, NEW expected
    PROVE  /\ Found(since, expected).whole <=> RunSince("snapshot", since)
           /\ Found(since, expected).expected <=> expected
<1>1. RunSince("snapshot", since) \in BOOLEAN
  BY Zenon DEF RunSince
<1> QED
  BY Zenon DEF Found, RunSince

LEMMA DayKept ==
    ASSUME ScheduleInv, [ScheduleNext]_scheduleVars
    PROVE  DayIsIncluded'
<1>1. ScheduleTyped /\ SequenceInv /\ DayIsIncluded /\ \A j \in Scheduled : JobInv(j)
  BY DEF ScheduleInv
<1>2. ASSUME records' = records PROVE DayIsIncluded'
  BY <1>1, <1>2 DEF DayIsIncluded
<1>3. ASSUME NEW r, records' = records \cup {r}, r.expected => r.whole PROVE DayIsIncluded'
  BY <1>1, <1>3, Zenon DEF DayIsIncluded
<1>4. ASSUME NEW j \in followed, WakeJob(j) PROVE DayIsIncluded'
  <2>1. CASE records' = records
    BY <1>2, <2>1
  <2>2. PICK dueAt : /\ dueAt = LatestFire("backtest") - DailyGap
                     /\ \/ records' = records
                        \/ /\ j = "backtest"
                           /\ records' = records \cup {Found(dueAt, /\ due[j] = LatestFire(j)
                                                                   /\ started < dueAt
                                                                   /\ dueAt \notin lost["snapshot"]
                                                                   /\ ~Running("snapshot", "worker"))}
    BY <1>4, Zenon DEF WakeJob
  <2>3. up /\ \A k \in followed : due[j] <= due[k]
    BY <1>4, Zenon DEF WakeJob
  <2>4. ASSUME j = "backtest", due[j] = LatestFire(j), started < dueAt,
               dueAt \notin lost["snapshot"], ~Running("snapshot", "worker")
        PROVE  RunSince("snapshot", dueAt)
    <3>1. "snapshot" \in followed /\ {"snapshot", "backtest"} \subseteq Scheduled
      BY <1>1, <2>4, ScheduleAssumption DEF ScheduleTyped
    <3>2. dueAt = due["backtest"] - DailyGap
      BY <2>2, <2>4
    <3>3. /\ dueAt \in Int /\ dueAt <= LastFire("snapshot")
          /\ dueAt >= 0 => dueAt % Every["snapshot"] = due["snapshot"] % Every["snapshot"]
      BY <1>1, <2>3, <2>4, <3>1, <3>2, DayBefore
    <3>4. /\ Every["snapshot"] \in Nat \ {0} /\ due["snapshot"] \in Nat /\ started \in Nat
      BY <1>1, <3>1, JobConstants DEF JobInv, ScheduleTyped
    <3>5. dueAt \in (started + 1)..(due["snapshot"] - 1)
      BY <2>4, <3>3, <3>4 DEF LastFire
    <3>6. FireAnswered("snapshot", dueAt)
      BY <1>1, <2>3, <3>1, <3>3, <3>4, <3>5 DEF JobInv, FiresAnswered
    <3> QED
      BY <2>4, <3>6 DEF FireAnswered, Answers, Running
  <2>5. CASE /\ j = "backtest"
             /\ records' = records \cup {Found(dueAt, /\ due[j] = LatestFire(j)
                                                     /\ started < dueAt
                                                     /\ dueAt \notin lost["snapshot"]
                                                     /\ ~Running("snapshot", "worker"))}
    <3>1. PICK r : /\ records' = records \cup {r}
                   /\ r = Found(dueAt, /\ due[j] = LatestFire(j)
                                       /\ started < dueAt
                                       /\ dueAt \notin lost["snapshot"]
                                       /\ ~Running("snapshot", "worker"))
      BY <2>5, Zenon
    <3>2. r.expected => r.whole
      BY <2>4, <2>5, <3>1, RecordParts, Zenon
    <3> QED
      BY <1>3, <3>1, <3>2
  <2> QED
    BY <2>1, <2>2, <2>5
<1>5. CASE NextOfSequence
  <2>1. PICK j : /\ manual.todo # <<>> /\ j = Head(manual.todo)
                 /\ \/ records' = records
                    \/ /\ j = "backtest"
                       /\ records' = records \cup {Found(CHOOSE t \in manual.begun : TRUE, TRUE)}
    BY <1>5, Zenon DEF NextOfSequence
  <2>2. ASSUME j = "backtest" PROVE RunSince("snapshot", CHOOSE t \in manual.begun : TRUE)
    <3>1. PICK t \in manual.begun : t = CHOOSE u \in manual.begun : TRUE
      BY <1>1, <2>1 DEF SequenceInv
    <3>2. 1 \in DOMAIN manual.todo /\ manual.todo[1] = "backtest"
      BY <1>1, <2>1, <2>2 DEF SequenceInv
    <3>3. ~SnapshotFirst(manual.todo)
      BY <3>2 DEF SnapshotFirst
    <3>4. RunSince("snapshot", t)
      BY <1>1, <3>3 DEF SequenceInv
    <3> QED
      BY <3>1, <3>4
  <2>3. CASE j = "backtest" /\ records' = records \cup {Found(CHOOSE t \in manual.begun : TRUE, TRUE)}
    <3>1. PICK r : records' = records \cup {r} /\ r = Found(CHOOSE t \in manual.begun : TRUE, TRUE)
      BY <2>3, Zenon
    <3>2. r.expected => r.whole
      BY <2>2, <2>3, <3>1, RecordParts, Zenon
    <3> QED
      BY <1>3, <3>1, <3>2
  <2> QED
    BY <1>2, <2>1, <2>3
<1>6. ASSUME NEW j \in followed, EndBody(j) PROVE DayIsIncluded'
  BY <1>2, <1>6 DEF EndBody
<1>7. CASE StartWorker \/ StopWorker \/ WorkerDies \/ BeginSequence \/ CommandDies
  BY <1>2, <1>7 DEF StartWorker, StopWorker, WorkerDies, BeginSequence, CommandDies
<1>8. CASE TickSchedule \/ Suspend \/ UNCHANGED scheduleVars
  BY <1>2, <1>8 DEF TickSchedule, Suspend, scheduleVars
<1> QED
  BY <1>4, <1>5, <1>6, <1>7, <1>8 DEF ScheduleNext

\* A job of a worker that has been up for long enough is called stalled when none of its
\* fires of that time was answered by a run that completed.
LEMMA StalledForAReason ==
    ASSUME ScheduleTyped, up, NEW j \in Scheduled, JobInv(j), StatusOf(j) = "stalled",
           ~ (hour - started <= Missable(j) + Leeway(j)),
           NEW t \in Fires(j, hour - Missable(j) - Leeway(j) + 1, hour - Leeway(j))
    PROVE  CameToNothing(j, t)
<1>1. /\ Every[j] \in Nat \ {0} /\ due[j] \in Nat /\ hour \in Nat /\ started \in Nat
      /\ newest[j] \subseteq 0..hour
  BY JobConstants DEF JobInv, ScheduleTyped
<1>2. PICK w \in Nat, s \in Nat : /\ w = Missable(j) /\ s = Leeway(j) /\ ThresholdOf(j) \in Nat
                                 /\ w + s <= ThresholdOf(j)
  <2>1. CASE j \in DOMAIN At
    <3>1. j \in DOMAIN StallAfter /\ StallAfter[j] \in Nat /\ StallAfter[j] > Every[j] + Late /\ Late \in Nat
      BY <2>1, ScheduleAssumption
    <3> QED
      BY <1>1, <2>1, <3>1 DEF Missable, Leeway, ThresholdOf
  <2>2. CASE j \notin DOMAIN At
    <3>1. j \notin DOMAIN StallAfter /\ StallFloor \in Nat
      BY <2>2, ScheduleAssumption
    <3> QED
      BY <1>1, <2>2, <3>1 DEF Missable, Leeway, ThresholdOf, AtLeast
  <2> QED
    BY <2>1, <2>2
<1>3. t \in (hour - w - s + 1)..(hour - s) /\ t % Every[j] = due[j] % Every[j]
  BY <1>2 DEF Fires
<1>4. hour - started > w + s
  BY <1>1, <1>2
<1>5. t \in Nat /\ t > started
  BY <1>1, <1>2, <1>3, <1>4
<1>6. CASE t >= due[j]
  BY <1>6 DEF CameToNothing
<1>7. CASE t < due[j]
  <2>1. FireAnswered(j, t)
    BY <1>1, <1>3, <1>5, <1>7 DEF JobInv, FiresAnswered
  <2>2. ~ RunSince(j, t)
    <3>1. \A r \in newest[j] : ~ (hour - r <= ThresholdOf(j))
      BY DEF StatusOf
    <3> QED
      BY <1>1, <1>2, <1>3, <3>1 DEF RunSince
  <2> QED
    BY <2>1, <2>2 DEF FireAnswered, CameToNothing
<1> QED
  BY <1>1, <1>5, <1>6, <1>7

LEMMA ScheduleStart == ASSUME ScheduleInit PROVE ScheduleInv
<1>1. /\ followed \in Followed /\ hour = 0 /\ up = FALSE /\ due = NoFires
      /\ body = [j \in Scheduled |-> {}] /\ newest = [j \in Scheduled |-> {}]
      /\ manual = [todo |-> <<>>, begun |-> {}] /\ started = 0 /\ lost = NoneLost
      /\ records = {}
  BY DEF ScheduleInit
<1>2. ScheduleTyped
  <2>1. started \in 0..hour /\ hour \in Nat
    BY <1>1
  <2>2. DOMAIN due = Scheduled /\ DOMAIN lost = Scheduled
    BY <1>1 DEF NoFires, NoneLost
  <2> QED
    BY <1>1, <2>1, <2>2 DEF ScheduleTyped
<1>3. \A j \in Scheduled : JobInv(j)
  BY <1>1 DEF JobInv, NoFires
<1>4. SequenceInv
  BY <1>1 DEF SequenceInv, Running
<1>5. DayIsIncluded
  BY <1>1 DEF DayIsIncluded
<1> QED
  BY <1>2, <1>3, <1>4, <1>5 DEF ScheduleInv

LEMMA ScheduleTold == ASSUME ScheduleInv PROVE ScheduleIsKept
<1>1. ScheduleTyped /\ DayIsIncluded /\ \A j \in Scheduled : JobInv(j)
  BY DEF ScheduleInv
<1>2. ASSUME up, Overall = "stalled"
      PROVE  \E j \in followed :
                /\ StatusOf(j) = "stalled"
                /\ \/ hour - started <= Missable(j) + Leeway(j)
                   \/ \A t \in Fires(j, hour - Missable(j) - Leeway(j) + 1, hour - Leeway(j)) :
                         CameToNothing(j, t)
  <2>1. PICK j \in followed : StatusOf(j) = "stalled"
    BY <1>2 DEF Overall
  <2>2. j \in Scheduled
    BY <1>1, ScheduleAssumption DEF ScheduleTyped
  <2> QED
    BY <1>1, <1>2, <2>1, <2>2, StalledForAReason, Zenon
<1> QED
  BY <1>1, <1>2, Zenon DEF ScheduleIsKept, StalledIsEarned

\* Of the worker's scheduler (scheduler.py build_scheduler), pmvl pipeline and the
\* status page (pipeline_status.py job_status): for any jobs, periods, grace and
\* times of day, however often the worker stops, dies, is suspended or overlaps with
\* the command line, one that has been up for long enough is called stalled only when
\* all of a job's last three fires, or a daily one's last, came to nothing; and the
\* backtest finds the record of its day, unless the snapshot gave it reason not to.
THEOREM ScheduleKept == ScheduleSpec => []ScheduleIsKept
<1>1. ScheduleInit => ScheduleInv
  BY ScheduleStart
<1>2. ScheduleInv /\ [ScheduleNext]_scheduleVars => ScheduleInv'
  <2> SUFFICES ASSUME ScheduleInv, [ScheduleNext]_scheduleVars PROVE ScheduleInv'
    OBVIOUS
  <2>1. ScheduleTyped' /\ \A j \in Scheduled : JobInv(j)'
    BY JobsKept DEF ScheduleInv
  <2>2. SequenceInv'
    BY <2>1, SequenceKept DEF ScheduleInv
  <2> QED
    BY <2>1, <2>2, DayKept DEF ScheduleInv
<1>3. ScheduleInv => ScheduleIsKept
  BY ScheduleTold
<1> QED
  BY <1>1, <1>2, <1>3, PTL DEF ScheduleSpec

-----------------------------------------------------------------------------
(* What a step at a time leads to.                                         *)

\* A function that takes each value from the one before it.
Follows(f, n, a, g) ==
  /\ f = [k \in 0..n |-> IF k = 0 THEN a ELSE g[k][f[k - 1]]]

LEMMA StepsExist ==
  ASSUME NEW S, NEW n \in Nat, NEW a \in S, NEW g \in [1..n -> [S -> S]]
  PROVE  \E f \in [0..n -> S] : Follows(f, n, a, g)
<1> DEFINE T == {m \in 0..n : ~ \E f \in [0..m -> S] : Follows(f, m, a, g)}
<1> SUFFICES ASSUME T # {} PROVE FALSE
  <2>1. n \in 0..n
    OBVIOUS
  <2> QED BY <2>1
<1>1. PICK m \in T : \A k \in T : m <= k
  <2>1. T \subseteq Nat
    OBVIOUS
  <2> HIDE DEF T
  <2> QED BY <2>1, LeastExists
<1>2. CASE m = 0
  <2> DEFINE f == [k \in 0..0 |-> a]
  <2>1. f \in [0..0 -> S] /\ f = [k \in 0..0 |-> IF k = 0 THEN a ELSE g[k][f[k - 1]]]
    OBVIOUS
  <2> QED BY <1>2, <2>1 DEF Follows
<1>3. CASE m # 0
  <2>1. m \in 1..n /\ m - 1 \in 0..n /\ m - 1 \notin T
    BY <1>1, <1>3
  <2>2. PICK h \in [0..(m - 1) -> S] : Follows(h, m - 1, a, g)
    BY <2>1
  <2> DEFINE f == [k \in 0..m |-> IF k = m THEN g[m][h[m - 1]] ELSE h[k]]
  <2>3. \A k \in 0..m : k # m => k \in 0..(m - 1)
    BY <2>1
  <2>4. m - 1 \in 0..(m - 1)
    BY <2>1
  <2>5. g[m][h[m - 1]] \in S
    BY <2>1, <2>4
  <2>6. f \in [0..m -> S]
    BY <2>3, <2>5
  <2>7. \A k \in 0..m : f[k] = IF k = 0 THEN a ELSE g[k][f[k - 1]]
    <3> SUFFICES ASSUME NEW k \in 0..m PROVE f[k] = IF k = 0 THEN a ELSE g[k][f[k - 1]]
      OBVIOUS
    <3>1. CASE k = m
      <4>1. f[m - 1] = h[m - 1] /\ m # 0
        BY <2>1
      <4> QED BY <3>1, <4>1
    <3>2. CASE k # m
      <4>1. k \in 0..(m - 1) /\ f[k] = h[k]
        BY <2>3, <3>2
      <4>2. h[k] = IF k = 0 THEN a ELSE g[k][h[k - 1]]
        BY <2>2, <4>1 DEF Follows
      <4>3. k # 0 => k - 1 \in 0..m /\ k - 1 # m
        BY <2>1, <4>1
      <4>4. k # 0 => f[k - 1] = h[k - 1]
        BY <4>3
      <4> QED BY <4>1, <4>2, <4>4
    <3> QED BY <3>1, <3>2
  <2>8. f = [k \in 0..m |-> IF k = 0 THEN a ELSE g[k][f[k - 1]]]
    <3> HIDE DEF f
    <3>1. f = [k \in 0..m |-> f[k]]
      BY <2>6
    <3> QED BY <2>7, <3>1
  <2>9. Follows(f, m, a, g)
    <3> HIDE DEF f
    <3> QED BY <2>8 DEF Follows
  <2> HIDE DEF f
  <2> QED BY <2>6, <2>9
<1> QED BY <1>2, <1>3

\* What holds at first and is kept by every step holds throughout.
LEMMA StepsKeep ==
  ASSUME NEW n \in Nat, NEW J \in SUBSET (0..n), 0 \in J,
         \A k \in 1..n : k - 1 \in J => k \in J
  PROVE  J = 0..n
<1> DEFINE T == (0..n) \ J
<1> SUFFICES ASSUME T # {} PROVE FALSE
  OBVIOUS
<1>1. PICK m \in T : \A k \in T : m <= k
  <2>1. T \subseteq Nat
    OBVIOUS
  <2> HIDE DEF T
  <2> QED BY <2>1, LeastExists
<1>2. m \in 1..n /\ m - 1 \in 0..n /\ m - 1 \notin T
  BY <1>1
<1> QED BY <1>2

\* The sums of the first of some numbers.
SumsOfAll(c, n, numbers) ==
  /\ c \in [0..n -> Int] /\ c[0] = 0
  /\ \A k \in 1..n : c[k] = c[k - 1] + numbers[k]

LEMMA SumsAre ==
  ASSUME NEW n \in Nat, NEW numbers \in [1..n -> Int], Len(numbers) = n
  PROVE  SumsOfAll(Sums(numbers), n, numbers)
<1> DEFINE g == [k \in 1..n |-> [x \in Int |-> x + numbers[k]]]
<1>1. g \in [1..n -> [Int -> Int]]
  OBVIOUS
<1>2. PICK f \in [0..n -> Int] : Follows(f, n, 0, g)
  <2> HIDE DEF g
  <2>1. PICK S : S = Int
    OBVIOUS
  <2>2. 0 \in S /\ g \in [1..n -> [S -> S]]
    BY <1>1, <2>1
  <2>3. \E f \in [0..n -> S] : Follows(f, n, 0, g)
    BY <2>2, StepsExist
  <2> QED BY <2>1, <2>3
<1>3. f = [k \in 0..n |-> IF k = 0 THEN 0 ELSE f[k - 1] + numbers[k]]
  <2>1. \A k \in 0..n : f[k] = IF k = 0 THEN 0 ELSE f[k - 1] + numbers[k]
    <3> SUFFICES ASSUME NEW k \in 0..n PROVE f[k] = IF k = 0 THEN 0 ELSE f[k - 1] + numbers[k]
      OBVIOUS
    <3>1. f[k] = IF k = 0 THEN 0 ELSE g[k][f[k - 1]]
      <4> HIDE DEF g
      <4> QED BY <1>2 DEF Follows
    <3>2. k # 0 => k \in 1..n /\ f[k - 1] \in Int
      BY <1>2
    <3> QED BY <3>1, <3>2
  <2> QED BY <1>2, <2>1
<1>4. Sums(numbers) = [k \in 0..n |-> IF k = 0 THEN 0 ELSE Sums(numbers)[k - 1] + numbers[k]]
  <2> DEFINE P(h) == h = [k \in 0..n |-> IF k = 0 THEN 0 ELSE h[k - 1] + numbers[k]]
  <2>1. Sums(numbers) = CHOOSE h : P(h)
    BY DEF Sums
  <2>2. P(f)
    BY <1>3
  <2> HIDE DEF P
  <2>3. P(Sums(numbers))
    BY <2>1, <2>2
  <2> QED BY <2>3 DEF P
<1> DEFINE c == Sums(numbers)
<1> HIDE DEF c
<1>5. c = [k \in 0..n |-> IF k = 0 THEN 0 ELSE c[k - 1] + numbers[k]]
  BY <1>4 DEF c
<1>6. c[0] = 0 /\ \A k \in 1..n : c[k] = c[k - 1] + numbers[k]
  BY <1>5
<1>7. {k \in 0..n : c[k] \in Int} = 0..n
  <2> DEFINE J == {k \in 0..n : c[k] \in Int}
  <2>1. 0 \in J
    BY <1>6
  <2>2. \A k \in 1..n : k - 1 \in J => k \in J
    BY <1>6, SMTT(30)
  <2> HIDE DEF J
  <2>3. J \in SUBSET (0..n)
    BY DEF J
  <2>4. J = 0..n
    BY <2>1, <2>2, <2>3, StepsKeep
  <2> QED BY <2>4 DEF J
<1>8. c \in [0..n -> Int]
  BY <1>5, <1>7
<1> QED BY <1>6, <1>8 DEF SumsOfAll, c

\* A finite set of numbers is bounded.
LEMMA FiniteIsBounded ==
  ASSUME NEW T, T \subseteq Nat, IsFiniteSet(T)
  PROVE  \E b \in Int : \A x \in T : x <= b
<1>1. CASE T = {}
  BY <1>1
<1>2. CASE T # {}
  <2> DEFINE below(x) == {y \in T : y <= x}
             sizes == {Cardinality(below(x)) : x \in T}
  <2>1. \A x \in T : /\ below(x) \subseteq T /\ Cardinality(below(x)) \in Nat
                     /\ Cardinality(below(x)) <= Cardinality(T) /\ Cardinality(T) \in Nat
    <3> SUFFICES ASSUME NEW x \in T
                 PROVE  /\ below(x) \subseteq T /\ Cardinality(below(x)) \in Nat
                        /\ Cardinality(below(x)) <= Cardinality(T) /\ Cardinality(T) \in Nat
      OBVIOUS
    <3>1. below(x) \subseteq T
      OBVIOUS
    <3> HIDE DEF below
    <3> QED BY <3>1, FewerInSubset
  <2>2. Max(sizes) \in sizes /\ \A n \in sizes : n <= Max(sizes)
    <3> HIDE DEF below
    <3>1. sizes \subseteq Int /\ \A n \in sizes : n <= Cardinality(T)
      BY <2>1
    <3>2. sizes # {} /\ Cardinality(T) \in Int
      BY <1>2, <2>1
    <3> HIDE DEF sizes
    <3> QED BY <3>1, <3>2, GreatestExists
  <2>3. PICK x \in T : \A y \in T : Cardinality(below(y)) <= Cardinality(below(x))
    <3> HIDE DEF below
    <3> QED BY <2>2
  <2>4. ASSUME NEW y \in T, ~ (y <= x) PROVE FALSE
    <3>0. x \in Nat /\ y \in Nat /\ x < y /\ \A z \in T : z \in Nat
      BY <2>4
    <3>1. ASSUME NEW z \in below(x) PROVE z \in below(y)
      <4>1. z \in T /\ z <= x /\ z \in Nat
        BY <3>0
      <4> QED BY <3>0, <4>1
    <3>4. y \in below(y) /\ y \notin below(x)
      BY <3>0
    <3>2. IsFiniteSet(below(y))
      BY <2>1, FewerInSubset
    <3> HIDE DEF below
    <3>3. Cardinality(below(x)) < Cardinality(below(y))
      BY <3>1, <3>2, <3>4, FewerInSubset
    <3> QED BY <2>1, <2>3, <3>3
  <2> QED BY <2>4
<1> QED BY <1>1, <1>2
-----------------------------------------------------------------------------
(* The record of claims.                                                    *)

\* Everything that can be claimed, and the row a claim is frozen in.
AnyClaims == Claims \cup DemoClaims
SampleRows == [claim : AnyClaims, day : Nat, by : {"live", "demo"}, rank : Nat, id : Nat, mark : Nat,
         result : {"none", "yes", "no", "fifty_fifty", "unknown"}, profit : Int]

\* A row is graded with what its claim was paid; until then it is live and open.
GradedRight(r) ==
  IF r.result = "none" THEN r.by = "live" /\ r.claim \in Claims
  ELSE Payout(r) # {} => r.profit = (CHOOSE x \in Payout(r) : TRUE) - r.claim.cost

OutcomesAgree ==
  /\ outcome \in [Tradables -> SUBSET Verdicts]
  /\ \A m \in Tradables : \A o \in outcome[m] : Agrees(o) /\ outcome[m] = {o}

NoRowIsLost ==
  /\ record \in SUBSET SampleRows /\ IsFiniteSet(record)
  /\ marks \in [all : Nat, live : SUBSET Nat]
  /\ marks.live = {r.mark : r \in LiveRows}
  /\ \A r \in record : r.mark \in 1..marks.all

\* Each row has a mark and an identifier of its own.
Distinct(table) ==
  \A r, q \in table : r.mark = q.mark \/ r.id = q.id => r = q

RowsInv ==
  /\ today \in Nat
  /\ OutcomesAgree /\ NoRowIsLost /\ Distinct(record)
  /\ \A r \in record : GradedRight(r)

LEMMA WalkNumbers ==
  /\ One \in Nat /\ Cents \in Nat /\ MIN_FIT_SAMPLES \in Nat /\ MIN_FIT_SAMPLES > 1 /\ Noise \in Nat
  /\ LiveBatches \subseteq Seq(Claims) /\ DemoHistories \subseteq Seq(DemoClaims)
<1>1. MIN_FIT_SAMPLES \in Nat \ {0, 1}
  BY WalkForwardAssumption, Zenon
<1>2. MIN_FIT_SAMPLES > 1
  BY <1>1
<1> QED BY <1>1, <1>2, WalkForwardAssumption, Zenon

\* An identifier that is not taken yet.
LEMMA NextIdIsNew ==
  ASSUME NEW table, table \subseteq SampleRows, IsFiniteSet(table), NEW next,
         next = 1 + (IF table = {} THEN 0 ELSE Max({r.id : r \in table}))
  PROVE  next \in Nat /\ \A r \in table : r.id < next
<1>1. CASE table = {}
  BY <1>1
<1>2. CASE table # {}
  <2>1. PICK f : f = [r \in table |-> r.id]
    OBVIOUS
  <2>2. PICK T : T = {f[r] : r \in table}
    OBVIOUS
  <2>3. IsFiniteSet(T)
    BY <2>1, <2>2, FiniteImage
  <2>4. T \subseteq Nat /\ T # {}
    BY <1>2, <2>1, <2>2 DEF SampleRows
  <2>5. PICK b \in Int : \A x \in T : x <= b
    BY <2>3, <2>4, FiniteIsBounded
  <2>6. T \subseteq Int
    BY <2>4
  <2>7. Max(T) \in T /\ \A x \in T : x <= Max(T)
    BY <2>4, <2>5, <2>6, GreatestExists
  <2>8. T = {r.id : r \in table}
    BY <2>1, <2>2
  <2>9. next = 1 + Max(T)
    BY <1>2, <2>8
  <2>10. Max(T) \in Nat
    BY <2>4, <2>7
  <2> HIDE DEF SampleRows
  <2>11. \A r \in table : r.id \in T
    BY <2>8
  <2>12. \A n \in T : n \in Nat /\ n <= Max(T)
    BY <2>4, <2>7
  <2>13. next \in Nat /\ \A n \in T : n < next
    <3>1. next \in Nat
      BY <2>9, <2>10
    <3>2. ASSUME NEW n \in T PROVE n < next
      BY <2>9, <2>10, <2>12
    <3> QED BY <3>1, <3>2
  <2> QED BY <2>11, <2>13
<1> QED BY <1>1, <1>2

\* Rows as they are written: numbered on, open, and one for each claim.
FreshRows(new, claims, day, by, table) ==
  /\ new \in SUBSET SampleRows /\ IsFiniteSet(new)
  /\ {r.mark : r \in new} = (marks.all + 1)..(marks.all + Len(claims))
  /\ \A r \in new : /\ r.by = by /\ r.day = day /\ r.result = "none"
                    /\ r.claim \in {claims[i] : i \in DOMAIN claims}
                    /\ r.mark \in (marks.all + 1)..(marks.all + Len(claims))
  /\ Distinct(new)
  /\ \A r \in new, q \in table : q.id < r.id

\* What a row is ranked.
RankFrom(claims, by, i) == IF by = "demo" THEN i ELSE RankOf(claims, i)

LEMMA RankIs == ASSUME NEW claims, NEW by, NEW i \in Nat PROVE RankFrom(claims, by, i) \in Nat
<1>1. PICK S : S = {k \in 1..i : claims[k].horizon = claims[i].horizon}
  OBVIOUS
<1>2. IsFiniteSet(1..i) /\ S \subseteq 1..i
  BY <1>1, FS_Interval
<1>3. Cardinality(S) \in Nat
  BY <1>2, FS_Subset, FS_CardinalityType
<1> QED BY <1>1, <1>3 DEF RankFrom, RankOf

LEMMA FrozenIs ==
  ASSUME NEW claims \in Seq(AnyClaims), NEW day \in Nat, NEW by \in {"live", "demo"},
         NEW table \in SUBSET SampleRows, IsFiniteSet(table), marks.all \in Nat
  PROVE  FreshRows(Frozen(claims, day, by, table), claims, day, by, table)
<1>1. PICK next : next = 1 + (IF table = {} THEN 0 ELSE Max({r.id : r \in table}))
  OBVIOUS
<1>2. next \in Nat /\ \A r \in table : r.id < next
  BY <1>1, NextIdIsNew
<1>3. PICK n \in Nat : n = Len(claims) /\ DOMAIN claims = 1..n /\ \A i \in 1..n : claims[i] \in AnyClaims
  OBVIOUS
<1>4. PICK f : f = [i \in 1..n |->
          [claim |-> claims[i], day |-> day, by |-> by, id |-> next + i - 1,
           mark |-> marks.all + i, rank |-> RankFrom(claims, by, i),
           result |-> "none", profit |-> 0]]
  OBVIOUS
<1>5. PICK new : new = {f[i] : i \in 1..n}
  OBVIOUS
<1>6. Frozen(claims, day, by, table) = new
  BY <1>1, <1>3, <1>4, <1>5 DEF Frozen, RankFrom
<1>7. IsFiniteSet(new)
  <2>1. IsFiniteSet(1..n)
    BY FS_Interval
  <2>2. PICK S : S = 1..n
    OBVIOUS
  <2>3. IsFiniteSet(S) /\ DOMAIN f = S /\ f = [i \in S |-> f[i]]
    BY <1>4, <2>1, <2>2
  <2>4. IsFiniteSet({f[i] : i \in S})
    BY <2>3, FiniteImage
  <2> QED BY <1>5, <2>2, <2>4
<1>8. \A i \in 1..n : /\ f[i].claim = claims[i] /\ f[i].day = day /\ f[i].by = by
                      /\ f[i].id = next + i - 1 /\ f[i].mark = marks.all + i
                      /\ f[i].result = "none" /\ f[i].profit = 0
  BY <1>4
<1>9. \A i \in 1..n : f[i] \in SampleRows
  <2>1. ASSUME NEW i \in 1..n PROVE next + i - 1 \in Nat /\ marks.all + i \in Nat /\ RankFrom(claims, by, i) \in Nat
    BY <1>2, RankIs
  <2> QED BY <1>3, <1>4, <2>1 DEF SampleRows
<1>10. {r.mark : r \in new} = (marks.all + 1)..(marks.all + n)
  <2>1. ASSUME NEW k \in (marks.all + 1)..(marks.all + n) PROVE \E r \in new : r.mark = k
    <3>1. k - marks.all \in 1..n /\ k = marks.all + (k - marks.all)
      OBVIOUS
    <3>2. f[k - marks.all] \in new /\ f[k - marks.all].mark = k
      BY <1>5, <1>8, <3>1
    <3> QED BY <3>2
  <2>2. ASSUME NEW r \in new PROVE r.mark \in (marks.all + 1)..(marks.all + n)
    <3>1. PICK i \in 1..n : r = f[i]
      BY <1>5
    <3>2. r.mark = marks.all + i
      BY <1>8, <3>1
    <3> QED BY <3>2
  <2> QED BY <2>1, <2>2
<1>11. ASSUME NEW r \in new
       PROVE  /\ r.by = by /\ r.day = day /\ r.result = "none"
              /\ r.claim \in {claims[i] : i \in DOMAIN claims}
              /\ r.mark \in (marks.all + 1)..(marks.all + n)
              /\ \A q \in table : q.id < r.id
  <2>1. PICK i \in 1..n : r = f[i]
    BY <1>5
  <2>2. \A q \in table : q.id \in Nat
    BY DEF SampleRows
  <2>3. next + i - 1 >= next
    BY <1>2
  <2>4. \A q \in table : q.id < next + i - 1
    BY <1>2, <2>2, <2>3
  <2>5. marks.all + i \in (marks.all + 1)..(marks.all + n)
    OBVIOUS
  <2>6. /\ r.by = by /\ r.day = day /\ r.result = "none" /\ r.claim = claims[i]
        /\ r.mark = marks.all + i /\ r.id = next + i - 1
    BY <1>8, <2>1
  <2>7. \A q \in table : q.id < r.id
    BY <2>4, <2>6
  <2>8. r.claim \in {claims[k] : k \in DOMAIN claims}
    BY <1>3, <2>6
  <2> QED BY <2>5, <2>6, <2>7, <2>8
<1>12. Distinct(new)
  <2> SUFFICES ASSUME NEW r \in new, NEW q \in new, r.mark = q.mark \/ r.id = q.id PROVE r = q
    BY DEF Distinct
  <2>1. PICK i \in 1..n, k \in 1..n : r = f[i] /\ q = f[k]
    BY <1>5
  <2>2. i = k
    BY <1>2, <1>8, <2>1, SMTT(30)
  <2> QED BY <2>1, <2>2
<1> QED BY <1>3, <1>5, <1>6, <1>7, <1>9, <1>10, <1>11, <1>12 DEF FreshRows

LEMMA ClaimsAre ==
  ASSUME NEW c \in AnyClaims
  PROVE  c.side \in {"yes", "no"} /\ c.p \in Estimates /\ c.cost \in Int /\ c.size \in Int /\ c.low \in Int
BY DEF AnyClaims, Claims, DemoClaims

\* Grading a row changes its result and profit only, and makes it right.
LEMMA GradedIsRight ==
  ASSUME NEW r \in SampleRows, NEW o \in Verdicts, Agrees(o)
  PROVE  LET g == Graded(r, o) IN
         /\ g \in SampleRows /\ g.claim = r.claim /\ g.day = r.day /\ g.by = r.by /\ g.rank = r.rank
         /\ g.id = r.id /\ g.mark = r.mark /\ g.result = o.result /\ g.result # "none"
         /\ GradedRight(g)
<1>1. r.claim.cost \in Int
  BY ClaimsAre DEF SampleRows
<1>2. o.result \in {"yes", "no", "fifty_fifty", "unknown"} /\ o.pays \in Int
  BY WalkNumbers DEF Verdicts
<1>3. PICK paid : paid = PayoutForSide(r.claim.side, o.pays)
  OBVIOUS
<1>4. paid \in Int
  BY <1>2, <1>3, WalkNumbers DEF PayoutForSide
<1>5. PICK g : g = [r EXCEPT !.result = o.result, !.profit = paid - r.claim.cost]
  OBVIOUS
<1>6. Graded(r, o) = g
  BY <1>3, <1>5 DEF Graded
<1>7. paid - r.claim.cost \in Int
  BY <1>1, <1>4
<1>8. /\ g \in SampleRows /\ g.claim = r.claim /\ g.day = r.day /\ g.by = r.by /\ g.rank = r.rank
      /\ g.id = r.id /\ g.mark = r.mark /\ g.result = o.result /\ g.profit = paid - r.claim.cost
  BY <1>2, <1>5, <1>7 DEF SampleRows
<1>9. Payout(g) # {} => Payout(g) = {paid}
  <2>1. CASE g.result = "yes"
    BY <1>3, <1>8, <2>1 DEF Payout, Agrees
  <2>2. CASE g.result = "no"
    BY <1>3, <1>8, <2>2 DEF Payout, Agrees
  <2>3. CASE g.result = "fifty_fifty"
    BY <1>3, <1>8, <2>3 DEF Payout, Agrees
  <2>4. CASE g.result = "unknown"
    BY <2>4 DEF Payout
  <2> QED BY <1>2, <1>8, <2>1, <2>2, <2>3, <2>4
<1>10. g.result # "none"
  BY <1>2, <1>8
<1>11. GradedRight(g)
  <2>1. Payout(g) # {} => g.profit = (CHOOSE x \in Payout(g) : TRUE) - g.claim.cost
    <3> SUFFICES ASSUME Payout(g) # {} PROVE g.profit = (CHOOSE x \in Payout(g) : TRUE) - g.claim.cost
      OBVIOUS
    <3>1. (CHOOSE x \in Payout(g) : TRUE) = paid
      BY <1>9
    <3> QED BY <1>8, <3>1
  <2> QED BY <1>10, <2>1 DEF GradedRight
<1> QED BY <1>6, <1>8, <1>10, <1>11

\* What a step leaves of the record: what is settled of the live claims stays, and a row
\* that is not new was there, graded or about to be.
RowsMove ==
  /\ marks.all <= marks'.all /\ marks.live \subseteq marks'.live
  /\ History("live") \subseteq History("live")'
  /\ \A r \in record' : r.mark <= marks.all =>
        r \in record \/ \E q \in record : q.result = "none" /\ q.mark = r.mark

LEMMA RowsStart == ASSUME WalkInit PROVE RowsInv
<1>1. record = {} /\ marks = [all |-> 0, live |-> {}] /\ today = 1 /\ outcome = [m \in Tradables |-> {}]
  BY DEF WalkInit
<1>2. OutcomesAgree
  BY <1>1 DEF OutcomesAgree
<1>3. LiveRows = {}
  BY <1>1 DEF LiveRows
<1>4. NoRowIsLost
  <2>1. marks \in [all : Nat, live : SUBSET Nat]
    BY <1>1
  <2>2. IsFiniteSet(record)
    BY <1>1, FS_EmptySet
  <2> QED BY <1>1, <1>3, <2>1, <2>2 DEF NoRowIsLost
<1> QED BY <1>1, <1>2, <1>4 DEF RowsInv, Distinct

\* Rows and those written after them.
LEMMA DistinctTogether ==
  ASSUME NEW old, NEW new, old \subseteq SampleRows, new \subseteq SampleRows, Distinct(old), Distinct(new),
         \A r \in new, q \in old : q.id < r.id /\ q.mark < r.mark
  PROVE  Distinct(old \cup new)
<1> SUFFICES ASSUME NEW r \in old \cup new, NEW q \in old \cup new, r.mark = q.mark \/ r.id = q.id
             PROVE  r = q
  BY DEF Distinct
<1>1. r.id \in Nat /\ r.mark \in Nat /\ q.id \in Nat /\ q.mark \in Nat
  BY DEF SampleRows
<1>2. CASE r \in old /\ q \in old
  BY <1>2 DEF Distinct
<1>3. CASE r \in new /\ q \in new
  BY <1>3 DEF Distinct
<1>4. CASE r \in new /\ q \in old
  <2>1. q.id < r.id /\ q.mark < r.mark
    BY <1>4
  <2> QED BY <1>1, <2>1
<1>5. CASE r \in old /\ q \in new
  <2>1. r.id < q.id /\ r.mark < q.mark
    BY <1>5
  <2> QED BY <1>1, <2>1
<1> QED BY <1>2, <1>3, <1>4, <1>5

LEMMA PublishKeepsRows == ASSUME RowsInv, PublishDay PROVE RowsInv' /\ RowsMove
<1>1. PICK batch \in LiveBatches, day \in {today, today + 1} :
         /\ today' = day
         /\ record' = record \cup Frozen(batch, day, "live", record)
         /\ marks' = [all |-> marks.all + Len(batch),
                      live |-> marks.live \cup (marks.all + 1)..(marks.all + Len(batch))]
         /\ outcome' = outcome
  BY DEF PublishDay
<1>2. /\ record \in SUBSET SampleRows /\ IsFiniteSet(record) /\ marks.all \in Nat /\ marks.live \in SUBSET Nat
      /\ marks.live = {r.mark : r \in LiveRows} /\ \A r \in record : r.mark \in 1..marks.all
      /\ Distinct(record) /\ \A r \in record : GradedRight(r)
      /\ today \in Nat
  BY DEF RowsInv, NoRowIsLost
<1>3. batch \in Seq(AnyClaims) /\ Len(batch) \in Nat /\ \A i \in DOMAIN batch : batch[i] \in Claims
  BY WalkNumbers DEF AnyClaims
<1>4. day \in Nat
  BY <1>2
<1>5. PICK new : new = Frozen(batch, day, "live", record)
  OBVIOUS
<1>6. FreshRows(new, batch, day, "live", record)
  BY <1>2, <1>3, <1>4, <1>5, FrozenIs
<1>7. record' = record \cup new
  BY <1>1, <1>5
<1>8. /\ new \in SUBSET SampleRows /\ IsFiniteSet(new) /\ Distinct(new)
      /\ {r.mark : r \in new} = (marks.all + 1)..(marks.all + Len(batch))
      /\ \A r \in new : /\ r.by = "live" /\ r.result = "none" /\ r.claim \in Claims
                        /\ r.mark \in (marks.all + 1)..(marks.all + Len(batch))
      /\ \A r \in new, q \in record : q.id < r.id
  BY <1>3, <1>6 DEF FreshRows
<1>9. \A r \in new, q \in record : q.mark < r.mark /\ q.id < r.id
  BY <1>2, <1>3, <1>8
<1>10. Distinct(record')
  BY <1>2, <1>7, <1>8, <1>9, DistinctTogether
<1>11. LiveRows' = LiveRows \cup new
  BY <1>7, <1>8 DEF LiveRows
<1>12. NoRowIsLost'
  <2>1. record' \in SUBSET SampleRows /\ IsFiniteSet(record')
    BY <1>2, <1>7, <1>8, FS_Union
  <2>2. marks' \in [all : Nat, live : SUBSET Nat]
    BY <1>1, <1>2, <1>3
  <2>3. marks'.live = {r.mark : r \in LiveRows'}
    BY <1>1, <1>2, <1>8, <1>11
  <2>4. \A r \in record' : r.mark \in 1..(marks.all + Len(batch))
    BY <1>2, <1>3, <1>7, <1>8
  <2>5. marks'.all = marks.all + Len(batch)
    BY <1>1
  <2> QED BY <2>1, <2>2, <2>3, <2>4, <2>5 DEF NoRowIsLost
<1>13. \A r \in record' : GradedRight(r)
  BY <1>2, <1>7, <1>8 DEF GradedRight
<1>14. OutcomesAgree'
  BY <1>1 DEF RowsInv, OutcomesAgree
<1>15. RowsMove
  <2>1. marks.all <= marks'.all /\ marks.live \subseteq marks'.live
    BY <1>1, <1>2, <1>3
  <2>2. History("live") \subseteq History("live")'
    BY <1>7 DEF History
  <2>3. \A r \in record' : r.mark <= marks.all => r \in record
    <3>1. \A r \in new : ~ (r.mark <= marks.all)
      BY <1>2, <1>3, <1>8
    <3> QED BY <1>7, <3>1
  <2> QED BY <2>1, <2>2, <2>3 DEF RowsMove
<1> QED BY <1>1, <1>4, <1>10, <1>12, <1>13, <1>14, <1>15 DEF RowsInv

LEMMA PurgeKeepsRows ==
  ASSUME RowsInv, NEW h \in Seq(DemoClaims), \A i \in 1..Len(h) : Agrees(h[i].settled), Purge(h)
  PROVE  RowsInv' /\ RowsMove
<1>1. /\ record' = Real(record) \cup {Graded(r, r.claim.settled) : r \in Frozen(h, 1, "demo", Real(record))}
      /\ marks' = [marks EXCEPT !.all = @ + Len(h)]
      /\ outcome' = outcome /\ today' = today
  BY DEF Purge
<1>2. /\ record \in SUBSET SampleRows /\ IsFiniteSet(record) /\ marks.all \in Nat /\ marks.live \in SUBSET Nat
      /\ marks \in [all : Nat, live : SUBSET Nat]
      /\ marks.live = {r.mark : r \in LiveRows} /\ \A r \in record : r.mark \in 1..marks.all
      /\ Distinct(record) /\ \A r \in record : GradedRight(r)
      /\ today \in Nat
  BY DEF RowsInv, NoRowIsLost
<1>3. h \in Seq(AnyClaims) /\ Len(h) \in Nat /\ DOMAIN h = 1..Len(h) /\ \A i \in DOMAIN h : h[i] \in DemoClaims
  BY DEF AnyClaims
<1>4. PICK table : table = Real(record)
  OBVIOUS
<1>5. table \in SUBSET SampleRows /\ IsFiniteSet(table) /\ table \subseteq record
  BY <1>2, <1>4, FS_Subset DEF Real
<1>6. PICK new : new = Frozen(h, 1, "demo", table)
  OBVIOUS
<1>7. FreshRows(new, h, 1, "demo", table)
  BY <1>2, <1>3, <1>5, <1>6, FrozenIs
<1>8. /\ new \in SUBSET SampleRows /\ IsFiniteSet(new) /\ Distinct(new)
      /\ \A r \in new : /\ r.by = "demo" /\ r.claim \in {h[i] : i \in DOMAIN h}
                        /\ r.mark \in (marks.all + 1)..(marks.all + Len(h))
      /\ \A r \in new, q \in table : q.id < r.id
  BY <1>7 DEF FreshRows
<1>9. PICK f : f = [r \in new |-> Graded(r, r.claim.settled)]
  OBVIOUS
<1>10. PICK graded : graded = {f[r] : r \in new}
  OBVIOUS
<1>11. record' = table \cup graded
  BY <1>1, <1>4, <1>6, <1>9, <1>10
<1>12. \A r \in new : /\ f[r] \in SampleRows /\ f[r].by = r.by /\ f[r].id = r.id /\ f[r].mark = r.mark
                      /\ GradedRight(f[r])
  <2> SUFFICES ASSUME NEW r \in new
               PROVE  /\ f[r] \in SampleRows /\ f[r].by = r.by /\ f[r].id = r.id /\ f[r].mark = r.mark
                      /\ GradedRight(f[r])
    OBVIOUS
  <2>1. PICK i \in 1..Len(h) : r.claim = h[i]
    BY <1>3, <1>8
  <2>2. r.claim.settled \in Verdicts /\ Agrees(r.claim.settled)
    BY <1>3, <2>1 DEF DemoClaims
  <2>3. r \in SampleRows /\ f[r] = Graded(r, r.claim.settled)
    BY <1>8, <1>9
  <2> QED BY <2>2, <2>3, GradedIsRight
<1>13. /\ graded \in SUBSET SampleRows
       /\ \A g \in graded : /\ g.by = "demo" /\ GradedRight(g)
                            /\ g.mark \in (marks.all + 1)..(marks.all + Len(h))
       /\ \A g \in graded, q \in table : q.id < g.id
  BY <1>8, <1>10, <1>12
<1>14. IsFiniteSet(graded)
  BY <1>8, <1>9, <1>10, FiniteImage
<1>15. Distinct(graded)
  <2> SUFFICES ASSUME NEW a \in graded, NEW b \in graded, a.mark = b.mark \/ a.id = b.id PROVE a = b
    BY DEF Distinct
  <2>1. PICK r \in new, q \in new : a = f[r] /\ b = f[q]
    BY <1>10
  <2>2. r.mark = q.mark \/ r.id = q.id
    BY <1>12, <2>1
  <2>3. r = q
    BY <1>8, <2>2 DEF Distinct
  <2> QED BY <2>1, <2>3
<1>16. \A r \in graded, q \in table : q.mark < r.mark /\ q.id < r.id
  BY <1>2, <1>3, <1>5, <1>13
<1>17. Distinct(table)
  BY <1>2, <1>5 DEF Distinct
<1>18. Distinct(record')
  BY <1>5, <1>11, <1>13, <1>15, <1>16, <1>17, DistinctTogether
<1>19. LiveRows' = LiveRows
  BY <1>4, <1>11, <1>13 DEF LiveRows, Real
<1>20. marks'.all = marks.all + Len(h) /\ marks'.live = marks.live /\ marks' \in [all : Nat, live : SUBSET Nat]
  BY <1>1, <1>2, <1>3
<1>21. NoRowIsLost'
  <2>1. record' \in SUBSET SampleRows /\ IsFiniteSet(record')
    BY <1>5, <1>11, <1>13, <1>14, FS_Union
  <2>2. \A r \in record' : r.mark \in 1..(marks.all + Len(h))
    BY <1>2, <1>3, <1>5, <1>11, <1>13
  <2> QED BY <1>2, <1>19, <1>20, <2>1, <2>2 DEF NoRowIsLost
<1>22. \A r \in record' : GradedRight(r)
  BY <1>2, <1>5, <1>11, <1>13
<1>23. OutcomesAgree'
  BY <1>1 DEF RowsInv, OutcomesAgree
<1>24. RowsMove
  <2>1. marks.all <= marks'.all /\ marks.live \subseteq marks'.live
    BY <1>2, <1>3, <1>20
  <2>2. History("live") \subseteq History("live")'
    BY <1>4, <1>11 DEF History, Real
  <2>3. \A r \in record' : r.mark <= marks.all => r \in record
    <3>1. \A r \in graded : ~ (r.mark <= marks.all)
      BY <1>2, <1>3, <1>13
    <3> QED BY <1>5, <1>11, <3>1
  <2> QED BY <2>1, <2>2, <2>3 DEF RowsMove
<1> QED BY <1>1, <1>2, <1>18, <1>21, <1>22, <1>23, <1>24 DEF RowsInv

LEMMA SettleKeepsRows == ASSUME RowsInv, SyncSettlements PROVE RowsInv' /\ RowsMove
<1>1. /\ record \in SUBSET SampleRows /\ IsFiniteSet(record) /\ marks.all \in Nat /\ marks.live \in SUBSET Nat
      /\ marks \in [all : Nat, live : SUBSET Nat]
      /\ marks.live = {r.mark : r \in LiveRows} /\ \A r \in record : r.mark \in 1..marks.all
      /\ Distinct(record) /\ \A r \in record : GradedRight(r)
      /\ today \in Nat /\ OutcomesAgree
  BY DEF RowsInv, NoRowIsLost
<1>2. OutcomesAgree'
  <2>1. CASE UNCHANGED outcome
    BY <1>1, <2>1 DEF OutcomesAgree
  <2>2. CASE \E m \in Tradables : outcome[m] = {} /\ \E o \in Outcomes[m] :
               outcome' = [outcome EXCEPT ![m] = {o}]
    <3>0. PICK m \in Tradables : \E o \in Outcomes[m] : outcome' = [outcome EXCEPT ![m] = {o}]
      BY <2>2
    <3>1. PICK o \in Outcomes[m] : outcome' = [outcome EXCEPT ![m] = {o}]
      BY <3>0
    <3>2. o \in Verdicts /\ Agrees(o)
      BY WalkForwardAssumption, Zenon
    <3> QED BY <1>1, <3>1, <3>2 DEF OutcomesAgree
  <2> QED BY <2>1, <2>2 DEF SyncSettlements
<1>3. PICK known : known = outcome'
  OBVIOUS
<1>4. /\ \A m \in Tradables : \A o \in known[m] : o \in Verdicts /\ Agrees(o) /\ known[m] = {o}
  BY <1>2, <1>3 DEF OutcomesAgree
<1>5. PICK f : f = [r \in record |-> IF r.result # "none" \/ known[r.claim.market] = {} THEN r
                                     ELSE Graded(r, CHOOSE o \in known[r.claim.market] : TRUE)]
  OBVIOUS
<1>6. ASSUME NEW r \in record
      PROVE  /\ f[r] \in SampleRows /\ f[r].id = r.id /\ f[r].mark = r.mark /\ f[r].by = r.by
             /\ GradedRight(f[r])
             /\ r.result # "none" => f[r] = r
             /\ f[r] # r => /\ r.result = "none" /\ known[r.claim.market] # {}
                            /\ \A o \in known[r.claim.market] : f[r] = Graded(r, o)
             /\ f[r] = r => r.result # "none" \/ known[r.claim.market] = {}
  <2>1. CASE r.result # "none" \/ known[r.claim.market] = {}
    <3>1. f[r] = r
      BY <1>5, <2>1
    <3> QED BY <1>1, <2>1, <3>1
  <2>2. CASE ~ (r.result # "none" \/ known[r.claim.market] = {})
    <3>1. r.claim.market \in Tradables
      BY <1>1, <2>2 DEF GradedRight, Claims
    <3>2. PICK o : o = CHOOSE x \in known[r.claim.market] : TRUE
      OBVIOUS
    <3>3. o \in known[r.claim.market] /\ f[r] = Graded(r, o)
      BY <1>5, <2>2, <3>2
    <3>4. o \in Verdicts /\ Agrees(o) /\ known[r.claim.market] = {o}
      BY <1>4, <3>1, <3>3
    <3>5. r \in SampleRows
      BY <1>1
    <3>6. /\ f[r] \in SampleRows /\ f[r].id = r.id /\ f[r].mark = r.mark /\ f[r].by = r.by
          /\ GradedRight(f[r]) /\ f[r].result # "none"
      BY <3>3, <3>4, <3>5, GradedIsRight
    <3>7. f[r] # r
      BY <2>2, <3>6
    <3> QED BY <2>2, <3>3, <3>4, <3>6, <3>7
  <2> QED BY <2>1, <2>2
<1>7. record' = {f[r] : r \in record}
  <2>1. record' = {r \in record : r.result # "none" \/ known[r.claim.market] = {}}
             \cup UNION {{Graded(r, o) : o \in known[r.claim.market]} :
                         r \in {q \in record : q.result = "none"}}
    BY <1>3 DEF SyncSettlements
  <2>2. ASSUME NEW x \in record' PROVE x \in {f[r] : r \in record}
    <3>1. CASE x \in record /\ (x.result # "none" \/ known[x.claim.market] = {})
      BY <1>5, <3>1
    <3>2. CASE ~ (x \in record /\ (x.result # "none" \/ known[x.claim.market] = {}))
      <4>1. PICK r \in record : r.result = "none" /\ \E o \in known[r.claim.market] : x = Graded(r, o)
        BY <2>1, <3>2
      <4>2. f[r] # r
        BY <1>6, <4>1
      <4> QED BY <1>6, <4>1, <4>2
    <3> QED BY <3>1, <3>2
  <2>3. ASSUME NEW r \in record PROVE f[r] \in record'
    <3>1. CASE f[r] = r
      BY <1>6, <2>1, <3>1
    <3>2. CASE f[r] # r
      <4>1. PICK o \in known[r.claim.market] : f[r] = Graded(r, o)
        BY <1>6, <3>2
      <4>2. r.result = "none"
        BY <1>6, <3>2
      <4> QED BY <2>1, <4>1, <4>2
    <3> QED BY <3>1, <3>2
  <2> QED BY <2>2, <2>3
<1>8. marks' = marks /\ today' = today
  BY DEF SyncSettlements
<1>9. Distinct(record')
  <2> SUFFICES ASSUME NEW a \in record', NEW b \in record', a.mark = b.mark \/ a.id = b.id PROVE a = b
    BY DEF Distinct
  <2>1. PICK r \in record, q \in record : a = f[r] /\ b = f[q]
    BY <1>7
  <2>2. r.mark = q.mark \/ r.id = q.id
    BY <1>6, <2>1
  <2>3. r = q
    BY <1>1, <2>2 DEF Distinct
  <2> QED BY <2>1, <2>3
<1>10. {r.mark : r \in LiveRows'} = {r.mark : r \in LiveRows}
  <2>1. LiveRows' = {x \in record' : x.by = "live"}
    BY DEF LiveRows
  <2>2. ASSUME NEW x \in LiveRows' PROVE \E r \in LiveRows : r.mark = x.mark
    <3>1. PICK r \in record : x = f[r]
      BY <1>7, <2>1
    <3> QED BY <1>6, <2>1, <3>1 DEF LiveRows
  <2>3. ASSUME NEW r \in LiveRows PROVE \E x \in LiveRows' : x.mark = r.mark
    <3>1. r \in record /\ r.by = "live"
      BY DEF LiveRows
    <3>2. f[r] \in record' /\ f[r].by = "live" /\ f[r].mark = r.mark
      BY <1>6, <1>7, <3>1
    <3> QED BY <2>1, <3>2
  <2> HIDE DEF LiveRows
  <2>4. PICK L : L = LiveRows'
    OBVIOUS
  <2> QED BY <2>2, <2>3, <2>4
<1>11. NoRowIsLost'
  <2>1. IsFiniteSet(record')
    <3>1. IsFiniteSet(record) /\ DOMAIN f = record /\ f = [r \in record |-> f[r]]
      BY <1>1, <1>5
    <3>2. IsFiniteSet({f[r] : r \in record})
      BY <3>1, FiniteImage
    <3> QED BY <1>7, <3>2
  <2>2. record' \in SUBSET SampleRows /\ \A r \in record' : r.mark \in 1..marks.all
    BY <1>1, <1>6, <1>7
  <2> QED BY <1>1, <1>8, <1>10, <2>1, <2>2 DEF NoRowIsLost
<1>12. \A r \in record' : GradedRight(r)
  BY <1>6, <1>7
<1>13. RowsMove
  <2>1. marks.all <= marks'.all /\ marks.live \subseteq marks'.live
    BY <1>1, <1>8
  <2>2. ASSUME NEW r \in History("live") PROVE r \in History("live")'
    <3>1. r \in record /\ r.by = "live" /\ r.result # "none"
      BY DEF History
    <3>2. f[r] = r /\ f[r] \in record'
      BY <1>6, <1>7, <3>1
    <3> QED BY <3>1, <3>2 DEF History
  <2>3. ASSUME NEW x \in record' PROVE x \in record \/ \E q \in record : q.result = "none" /\ q.mark = x.mark
    <3>1. PICK r \in record : x = f[r]
      BY <1>7
    <3> QED BY <1>6, <3>1
  <2> QED BY <2>1, <2>2, <2>3 DEF RowsMove
<1> QED BY <1>1, <1>2, <1>8, <1>9, <1>11, <1>12, <1>13 DEF RowsInv

\* The steps that leave the record as it is.
RecordStays == UNCHANGED <<today, outcome, record, marks>>

LEMMA StayKeepsRows == ASSUME RowsInv, RecordStays PROVE RowsInv' /\ RowsMove
<1>1. today' = today /\ outcome' = outcome /\ record' = record /\ marks' = marks
  BY DEF RecordStays
<1>2. LiveRows' = LiveRows /\ History("live")' = History("live")
  BY <1>1 DEF LiveRows, History
<1>3. marks.all \in Nat
  BY DEF RowsInv, NoRowIsLost
<1> QED BY <1>1, <1>2, <1>3 DEF RowsInv, RowsMove, OutcomesAgree, NoRowIsLost, Distinct

LEMMA StepRows == ASSUME RowsInv, [WalkNext]_walkVars PROVE RowsInv' /\ RowsMove
<1>1. CASE PublishDay
  BY <1>1, PublishKeepsRows
<1>2. CASE SyncSettlements
  BY <1>2, SettleKeepsRows
<1>3. CASE PurgeDemo
  <2>1. Purge(<<>>) /\ <<>> \in Seq(DemoClaims) /\ Len(<<>>) = 0
    BY <1>3 DEF PurgeDemo
  <2>2. PICK h : h = <<>>
    OBVIOUS
  <2>3. h \in Seq(DemoClaims) /\ Purge(h) /\ \A i \in 1..Len(h) : Agrees(h[i].settled)
    BY <2>1, <2>2
  <2> QED BY <2>3, PurgeKeepsRows
<1>4. CASE SeedDemo
  <2>1. PICK h \in DemoHistories : Purge(h)
    BY <1>4 DEF SeedDemo
  <2>2. h \in Seq(DemoClaims) /\ \A i \in 1..Len(h) : Agrees(h[i].settled)
    BY WalkForwardAssumption, Zenon
  <2> QED BY <2>1, <2>2, PurgeKeepsRows
<1>5. CASE Backtest
  BY <1>5, StayKeepsRows DEF Backtest, RecordStays
<1>6. CASE Calibrate
  BY <1>6, StayKeepsRows DEF Calibrate, RecordStays
<1>7. CASE CountPublished
  BY <1>7, StayKeepsRows DEF CountPublished, RecordStays
<1>8. CASE CountSettled
  BY <1>8, StayKeepsRows DEF CountSettled, RecordStays
<1>9. CASE UNCHANGED walkVars
  BY <1>9, StayKeepsRows DEF walkVars, RecordStays
<1> QED BY <1>1, <1>2, <1>3, <1>4, <1>5, <1>6, <1>7, <1>8, <1>9 DEF WalkNext

-----------------------------------------------------------------------------
(* The backtests.                                                           *)

\* The trades a run tells.
Told(id, st, load) ==
  {[run |-> id, mark |-> r.mark, gain |-> Gain(st, r)] : r \in Bought(st, load)}

RunId(st, pool) == [number |-> jobs, strategy |-> st.name, pool |-> pool]

LEMMA RunIs ==
  ASSUME NEW st, NEW pool, NEW load
  PROVE  LET m == Run(st, pool, load) IN
         /\ m.run.id = RunId(st, pool) /\ m.run.over = {r.mark : r \in RowsIn(load)}
         /\ m.trades = Told(RunId(st, pool), st, load)
         /\ m.run.by = IF \E r \in RowsIn(load) : Eligible(st, r) /\ r.by = "demo"
                        THEN "demo" ELSE "live"
BY DEF Run, RunId, Told

LEMMA RunIdIs ==
  ASSUME NEW st, NEW pool
  PROVE  /\ RunId(st, pool).number = jobs /\ RunId(st, pool).strategy = st.name
         /\ RunId(st, pool).pool = pool
BY DEF RunId

LEMMA BoughtAre ==
  ASSUME NEW st, NEW load, NEW r \in Bought(st, load)
  PROVE  r \in RowsIn(load) /\ Eligible(st, r) /\ Payout(r) # {}
BY DEF Bought, Picked

LEMMA ToldAre ==
  ASSUME NEW id, NEW st, NEW load, NEW t \in Told(id, st, load)
  PROVE  t.run = id /\ \E r \in Bought(st, load) : t.mark = r.mark /\ t.gain = Gain(st, r)
BY DEF Told

\* What a trade gains is what its claim was graded with.
LEMMA GainIsGraded ==
  ASSUME NEW st, NEW r, GradedRight(r), r.result # "none", Payout(r) # {}
  PROVE  Gain(st, r) = Contracts(st, r.claim) * r.profit
BY DEF Gain, GradedRight

TradesSound ==
  \A t \in trades :
    /\ t.mark \in 1..marks.all /\ t.run.number \in Nat /\ t.run.number < jobs
    /\ \A r \in record : r.mark = t.mark =>
          /\ r.result # "none"
          /\ \A st \in Strategies : t.run.strategy = st.name => t.gain = Contracts(st, r.claim) * r.profit

RunsSound ==
  \A run \in backtests :
    /\ run.id.number \in Nat /\ run.id.number < jobs
    /\ run.by = "live" => \A t \in TradesOf(run) : t.mark \in marks.live

\* A live run is over some of the live history, and tells what its strategy bought of it
\* in some order in which it may be loaded.
TellsOfSome(run, st, H, T) ==
  /\ H # {} /\ run.id.strategy = st.name /\ run.over = {r.mark : r \in H}
  /\ \E load \in Loads(H) : T = Told(run.id, st, load)
LiveRunsSound ==
  \A a \in LiveRuns :
    /\ a.by = "live"
    /\ \E st \in Strategies, H \in SUBSET History("live") : TellsOfSome(a, st, H, TradesOf(a))

NewestIsLive ==
  \A a \in LiveRuns : \E b \in LiveRuns :
    /\ b.id.strategy = a.id.strategy
    /\ \A q \in backtests : q.id.strategy = a.id.strategy => q.id.number <= b.id.number

TradesInv ==
  RowsInv /\ jobs \in Nat /\ TradesSound /\ RunsSound /\ LiveRunsSound /\ NewestIsLive

LEMMA TradesStart == ASSUME WalkInit PROVE TradesInv
<1>1. backtests = {} /\ trades = {} /\ jobs = 0
  BY DEF WalkInit
<1>2. LiveRuns = {}
  BY <1>1 DEF LiveRuns
<1> QED BY <1>1, <1>2, RowsStart DEF TradesInv, TradesSound, RunsSound, LiveRunsSound, NewestIsLive

\* Runs that stay keep their trades; the runs of demo claims may go.
LEMMA RunsKept ==
  ASSUME TradesInv, RowsMove, RowsInv', trades' = trades, jobs' \in Nat, jobs <= jobs',
         backtests' = backtests \/ backtests' = Real(backtests)
  PROVE  TradesInv'
<1>1. /\ TradesSound /\ RunsSound /\ LiveRunsSound /\ NewestIsLive /\ jobs \in Nat
      /\ marks.all \in Nat /\ marks'.all \in Nat
      /\ \A r \in record : r.mark \in 1..marks.all
      /\ Distinct(record)
  BY DEF TradesInv, RowsInv, NoRowIsLost
<1>2. backtests' \subseteq backtests /\ LiveRuns' = LiveRuns
  BY <1>1 DEF LiveRuns, Real, LiveRunsSound
<1>3. \A run \in backtests : TradesOf(run)' = TradesOf(run)
  BY DEF TradesOf
<1>4. TradesSound'
  <2> SUFFICES ASSUME NEW t \in trades
               PROVE  /\ t.mark \in 1..marks'.all /\ t.run.number \in Nat /\ t.run.number < jobs'
                      /\ \A r \in record' : r.mark = t.mark =>
                            /\ r.result # "none"
                            /\ \A st \in Strategies : t.run.strategy = st.name =>
                                  t.gain = Contracts(st, r.claim) * r.profit
    BY DEF TradesSound
  <2>1. t.mark \in 1..marks.all /\ t.run.number \in Nat /\ t.run.number < jobs
    BY <1>1 DEF TradesSound
  <2>2. t.mark \in 1..marks'.all /\ t.run.number < jobs'
    BY <1>1, <2>1 DEF RowsMove
  <2>3. ASSUME NEW r \in record', r.mark = t.mark PROVE r \in record
    <3>1. r.mark <= marks.all
      BY <1>1, <2>1, <2>3
    <3>2. ASSUME NEW q \in record, q.result = "none", q.mark = r.mark PROVE FALSE
      BY <1>1, <2>3, <3>2 DEF TradesSound
    <3> QED BY <3>1, <3>2 DEF RowsMove
  <2> QED BY <1>1, <2>1, <2>2, <2>3 DEF TradesSound
<1>5. RunsSound'
  <2> SUFFICES ASSUME NEW run \in backtests'
               PROVE  /\ run.id.number \in Nat /\ run.id.number < jobs'
                      /\ run.by = "live" => \A t \in TradesOf(run)' : t.mark \in marks'.live
    BY DEF RunsSound, TradesOf
  <2>1. run \in backtests
    BY <1>2
  <2>2. /\ run.id.number \in Nat /\ run.id.number < jobs
        /\ run.by = "live" => \A t \in TradesOf(run) : t.mark \in marks.live
    BY <1>1, <2>1 DEF RunsSound
  <2>3. run.id.number < jobs'
    BY <1>1, <2>2
  <2> QED BY <1>3, <2>1, <2>2, <2>3 DEF RowsMove
<1>6. LiveRunsSound'
  <2> SUFFICES ASSUME NEW a \in LiveRuns
               PROVE  /\ a.by = "live"
                      /\ \E st \in Strategies, H \in SUBSET History("live")' :
                            TellsOfSome(a, st, H, TradesOf(a)')
    BY <1>2 DEF LiveRunsSound, TradesOf, TellsOfSome, Told
  <2>1. a \in backtests
    BY DEF LiveRuns
  <2>2. PICK st \in Strategies, H \in SUBSET History("live") : TellsOfSome(a, st, H, TradesOf(a))
    BY <1>1 DEF LiveRunsSound
  <2>3. H \in SUBSET History("live")'
    BY DEF RowsMove
  <2>4. TellsOfSome(a, st, H, TradesOf(a)')
    BY <1>3, <2>1, <2>2
  <2>5. a.by = "live"
    BY <1>1 DEF LiveRunsSound
  <2> QED BY <2>2, <2>3, <2>4, <2>5
<1>7. NewestIsLive'
  <2>1. \A a \in LiveRuns : \E b \in LiveRuns :
           /\ b.id.strategy = a.id.strategy
           /\ \A q \in backtests' : q.id.strategy = a.id.strategy => q.id.number <= b.id.number
    BY <1>1, <1>2 DEF NewestIsLive
  <2> QED BY <1>2, <2>1 DEF NewestIsLive
<1> QED BY <1>4, <1>5, <1>6, <1>7 DEF TradesInv

\* What a backtest adds: for each strategy and pool a run and its trades.
Pools ==
  LET found == {by \in {"live", "demo"} : History(by) # {}} IN
  IF found = {} THEN {"none"} ELSE found

\* The loads of the pools.
Pooling(load) ==
  \E live \in Loads(History("live")), demo \in Loads(History("demo")) :
    load = [live |-> live, demo |-> demo, none |-> <<>>]

BacktestOf(load) ==
  /\ Pooling(load)
  /\ backtests' = backtests \cup {Run(st, pool, load[pool]).run : st \in Strategies, pool \in Pools}
  /\ trades' = trades \cup UNION {Run(st, pool, load[pool]).trades : st \in Strategies, pool \in Pools}
  /\ jobs' = jobs + 1
  /\ UNCHANGED <<today, outcome, record, marks, fit, reading, told>>

LEMMA BacktestAdds == ASSUME Backtest PROVE \E load : BacktestOf(load)
<1>1. PICK live \in Loads(History("live")), demo \in Loads(History("demo")) :
        LET load == [live |-> live, demo |-> demo, none |-> <<>>]
            made == {Run(st, pool, load[pool]) : st \in Strategies, pool \in Pools}
        IN /\ backtests' = backtests \cup {m.run : m \in made}
           /\ trades' = trades \cup UNION {m.trades : m \in made}
  BY DEF Backtest, Pools
<1>2. PICK load : load = [live |-> live, demo |-> demo, none |-> <<>>]
  OBVIOUS
<1>3. Pooling(load)
  BY <1>2 DEF Pooling
<1> DEFINE made == {Run(st, pool, load[pool]) : st \in Strategies, pool \in Pools}
<1>4. /\ backtests' = backtests \cup {m.run : m \in made}
      /\ trades' = trades \cup UNION {m.trades : m \in made}
  BY <1>1, <1>2
<1>5. {m.run : m \in made} = {Run(st, pool, load[pool]).run : st \in Strategies, pool \in Pools}
  OBVIOUS
<1>6. {m.trades : m \in made} = {Run(st, pool, load[pool]).trades : st \in Strategies, pool \in Pools}
  OBVIOUS
<1>7. jobs' = jobs + 1 /\ UNCHANGED <<today, outcome, record, marks, fit, reading, told>>
  BY DEF Backtest, Job
<1>8. BacktestOf(load)
  BY <1>3, <1>4, <1>5, <1>6, <1>7 DEF BacktestOf
<1> QED BY <1>8

\* The same, a run and a trade at a time.
LEMMA BacktestEach ==
  ASSUME NEW load, BacktestOf(load)
  PROVE  /\ \A x \in backtests' : x \in backtests \/ \E st \in Strategies, pool \in Pools :
                                     x = Run(st, pool, load[pool]).run
         /\ backtests \subseteq backtests'
         /\ \A st \in Strategies, pool \in Pools : Run(st, pool, load[pool]).run \in backtests'
         /\ \A t \in trades' : t \in trades \/ \E st \in Strategies, pool \in Pools :
                                  t \in Told(RunId(st, pool), st, load[pool])
         /\ trades \subseteq trades'
         /\ \A st \in Strategies, pool \in Pools : Told(RunId(st, pool), st, load[pool]) \subseteq trades'
<1>1. \A st \in Strategies, pool \in Pools :
         Run(st, pool, load[pool]).trades = Told(RunId(st, pool), st, load[pool])
  BY RunIs
<1> QED BY <1>1 DEF BacktestOf

LEMMA PoolsAre ==
  ASSUME NEW load, Pooling(load), NEW pool \in Pools
  PROVE  /\ pool \in {"live", "demo", "none"}
         /\ pool = "live" => load[pool] \in Loads(History("live")) /\ History("live") # {}
         /\ pool = "live" => RowsIn(load[pool]) = History("live")
         /\ RowsIn(load[pool]) \subseteq {r \in record : r.result # "none"}
<1>1. PICK live \in Loads(History("live")), demo \in Loads(History("demo")) :
        load = [live |-> live, demo |-> demo, none |-> <<>>]
  BY DEF Pooling
<1>2. load["live"] = live /\ load["demo"] = demo /\ load["none"] = <<>>
  BY <1>1
<1>3. RowsIn(live) = History("live") /\ RowsIn(demo) = History("demo")
  BY DEF Loads
<1>4. RowsIn(<<>>) = {}
  BY DEF RowsIn
<1>5. \A by : History(by) \subseteq {r \in record : r.result # "none"}
  BY DEF History
<1>6. pool \in {"live", "demo", "none"} /\ (pool = "live" => History("live") # {})
  BY DEF Pools
<1> QED BY <1>2, <1>3, <1>4, <1>5, <1>6

\* What the trades of the runs of a backtest are.
LEMMA TradesAdded ==
  ASSUME TradesInv, NEW load, BacktestOf(load), NEW st \in Strategies, NEW pool \in Pools
  PROVE  {t \in trades' : t.run = RunId(st, pool)} = Told(RunId(st, pool), st, load[pool])
<1>1. \A t \in trades : t.run.number \in Nat /\ t.run.number < jobs
  BY DEF TradesInv, TradesSound
<1>2. ASSUME NEW t \in trades', t.run = RunId(st, pool) PROVE t \in Told(RunId(st, pool), st, load[pool])
  <2>1. t \notin trades
    <3>1. SUFFICES ASSUME t \in trades PROVE FALSE
      OBVIOUS
    <3>2. t.run.number \in Nat /\ t.run.number < jobs /\ t.run.number = jobs
      BY <1>1, <1>2, <3>1, RunIdIs
    <3> QED BY <3>2 DEF TradesInv
  <2>2. PICK other \in Strategies, place \in Pools : t \in Told(RunId(other, place), other, load[place])
    BY <2>1, BacktestEach
  <2>3. t.run = RunId(other, place)
    BY <2>2, ToldAre
  <2>4. st.name = other.name /\ pool = place
    <3>1. RunId(st, pool).strategy = st.name /\ RunId(st, pool).pool = pool
      BY RunIdIs
    <3>2. RunId(other, place).strategy = other.name /\ RunId(other, place).pool = place
      BY RunIdIs
    <3>3. RunId(st, pool) = RunId(other, place)
      BY <1>2, <2>3
    <3> QED BY <3>1, <3>2, <3>3
  <2>5. st = other
    BY <2>4, WalkForwardAssumption, Zenon
  <2> QED BY <2>2, <2>4, <2>5
<1>3. ASSUME NEW t \in Told(RunId(st, pool), st, load[pool]) PROVE t \in trades' /\ t.run = RunId(st, pool)
  BY BacktestEach, ToldAre
<1> QED BY <1>2, <1>3

LEMMA BacktestKeeps == ASSUME TradesInv, NEW load, BacktestOf(load) PROVE TradesInv'
<1>1. /\ RowsInv /\ TradesSound /\ RunsSound /\ LiveRunsSound /\ NewestIsLive /\ jobs \in Nat
      /\ marks.all \in Nat /\ \A r \in record : r.mark \in 1..marks.all
      /\ marks.live = {r.mark : r \in LiveRows}
      /\ Distinct(record) /\ \A r \in record : GradedRight(r)
  BY DEF TradesInv, RowsInv, NoRowIsLost
<1>2. jobs' = jobs + 1 /\ record' = record /\ marks' = marks /\ RecordStays /\ Pooling(load)
  BY DEF RecordStays, BacktestOf
<1>3. RowsInv' /\ RowsMove
  BY <1>1, <1>2, StayKeepsRows
<1>4. History("live")' = History("live")
  BY <1>2 DEF History
<1>5. ASSUME NEW st \in Strategies, NEW pool \in Pools, NEW t \in Told(RunId(st, pool), st, load[pool])
      PROVE  \E r \in record : /\ t.mark = r.mark /\ r.result # "none" /\ r \in RowsIn(load[pool]) /\ Eligible(st, r)
                               /\ t.gain = Contracts(st, r.claim) * r.profit
                               /\ t.run = RunId(st, pool)
  <2>1. PICK r \in Bought(st, load[pool]) : t.mark = r.mark /\ t.gain = Gain(st, r)
    BY <1>5, ToldAre
  <2>2. r \in RowsIn(load[pool]) /\ Eligible(st, r) /\ Payout(r) # {}
    BY <2>1, BoughtAre
  <2>3. r \in record /\ r.result # "none"
    BY <1>2, <2>2, PoolsAre
  <2>4. t.gain = Contracts(st, r.claim) * r.profit
    BY <1>1, <2>1, <2>2, <2>3, GainIsGraded
  <2> QED BY <1>5, <2>1, <2>2, <2>3, <2>4, ToldAre
<1>6. TradesSound'
  <2> SUFFICES ASSUME NEW t \in trades'
               PROVE  /\ t.mark \in 1..marks.all /\ t.run.number \in Nat /\ t.run.number < jobs + 1
                      /\ \A r \in record : r.mark = t.mark =>
                            /\ r.result # "none"
                            /\ \A st \in Strategies : t.run.strategy = st.name =>
                                  t.gain = Contracts(st, r.claim) * r.profit
    BY <1>2 DEF TradesSound
  <2>1. CASE t \in trades
    <3>1. t.run.number \in Nat /\ t.run.number < jobs /\ t.mark \in 1..marks.all
      BY <1>1, <2>1 DEF TradesSound
    <3>2. t.run.number < jobs + 1
      BY <1>1, <3>1
    <3> QED BY <1>1, <2>1, <3>1, <3>2 DEF TradesSound
  <2>2. CASE t \notin trades
    <3>1. PICK st \in Strategies, pool \in Pools : t \in Told(RunId(st, pool), st, load[pool])
      BY <2>2, BacktestEach
    <3>2. PICK r \in record : /\ t.mark = r.mark /\ r.result # "none"
                              /\ t.gain = Contracts(st, r.claim) * r.profit
                              /\ t.run = RunId(st, pool)
      BY <1>5, <3>1
    <3>3. t.run.number = jobs /\ t.run.strategy = st.name
      BY <3>2, RunIdIs
    <3>4. \A other \in Strategies : t.run.strategy = other.name => other = st
      BY <3>3, WalkForwardAssumption, Zenon
    <3>5. \A q \in record : q.mark = t.mark => q = r
      BY <1>1, <3>2 DEF Distinct
    <3>6. t.run.number < jobs + 1 /\ t.run.number \in Nat
      BY <1>1, <3>3
    <3> QED BY <1>1, <3>2, <3>4, <3>5, <3>6
  <2> QED BY <2>1, <2>2
<1>7. ASSUME NEW run \in backtests PROVE TradesOf(run)' = TradesOf(run)
  <2>1. run.id.number \in Nat /\ run.id.number < jobs
    BY <1>1 DEF RunsSound
  <2>2. ASSUME NEW t \in trades', t.run = run.id PROVE t \in trades
    <3>1. SUFFICES ASSUME t \notin trades PROVE FALSE
      OBVIOUS
    <3>2. PICK st \in Strategies, pool \in Pools : t \in Told(RunId(st, pool), st, load[pool])
      BY <3>1, BacktestEach
    <3>3. t.run.number = jobs
      BY <3>2, ToldAre, RunIdIs
    <3> QED BY <1>1, <2>1, <2>2, <3>3
  <2>3. trades \subseteq trades'
    BY BacktestEach
  <2> QED BY <2>2, <2>3 DEF TradesOf
<1>8. ASSUME NEW st \in Strategies, NEW pool \in Pools, NEW run, run = Run(st, pool, load[pool]).run
      PROVE  /\ run.id = RunId(st, pool) /\ TradesOf(run)' = Told(run.id, st, load[pool])
             /\ run.over = {r.mark : r \in RowsIn(load[pool])}
             /\ run.by = IF \E r \in RowsIn(load[pool]) : Eligible(st, r) /\ r.by = "demo" THEN "demo" ELSE "live"
  <2>1. /\ run.id = RunId(st, pool) /\ run.over = {r.mark : r \in RowsIn(load[pool])}
        /\ run.by = IF \E r \in RowsIn(load[pool]) : Eligible(st, r) /\ r.by = "demo" THEN "demo" ELSE "live"
    BY <1>8, RunIs
  <2>2. TradesOf(run)' = {t \in trades' : t.run = run.id}
    BY DEF TradesOf
  <2> QED BY <2>1, <2>2, TradesAdded
<1>9. RunsSound'
  <2> SUFFICES ASSUME NEW run \in backtests'
               PROVE  /\ run.id.number \in Nat /\ run.id.number < jobs + 1
                      /\ run.by = "live" => \A t \in TradesOf(run)' : t.mark \in marks.live
    BY <1>2 DEF RunsSound, TradesOf
  <2>1. CASE run \in backtests
    <3>1. run.id.number \in Nat /\ run.id.number < jobs
      BY <1>1, <2>1 DEF RunsSound
    <3>2. run.id.number < jobs + 1
      BY <1>1, <3>1
    <3> QED BY <1>1, <1>7, <2>1, <3>1, <3>2 DEF RunsSound
  <2>2. CASE run \notin backtests
    <3>1. PICK st \in Strategies, pool \in Pools : run = Run(st, pool, load[pool]).run
      BY <2>2, BacktestEach
    <3>2. /\ run.id = RunId(st, pool) /\ TradesOf(run)' = Told(run.id, st, load[pool])
          /\ run.by = IF \E r \in RowsIn(load[pool]) : Eligible(st, r) /\ r.by = "demo" THEN "demo" ELSE "live"
      BY <1>8, <3>1
    <3>3. run.id.number \in Nat /\ run.id.number < jobs + 1
      BY <1>1, <3>2, RunIdIs
    <3>4. ASSUME run.by = "live", NEW t \in TradesOf(run)' PROVE t.mark \in marks.live
      <4>1. PICK r \in record : t.mark = r.mark /\ r \in RowsIn(load[pool]) /\ Eligible(st, r)
        BY <1>5, <3>2, <3>4
      <4>2. r.by # "demo"
        BY <3>2, <3>4, <4>1
      <4>3. r.by = "live"
        BY <1>1, <4>2 DEF RowsInv, NoRowIsLost, SampleRows
      <4>4. r \in LiveRows
        BY <4>3 DEF LiveRows
      <4> QED BY <1>1, <4>1, <4>4
    <3> QED BY <3>3, <3>4
  <2> QED BY <2>1, <2>2
<1>10. LiveRunsSound'
  <2> SUFFICES ASSUME NEW a \in backtests', a.id.pool = "live"
               PROVE  /\ a.by = "live"
                      /\ \E st \in Strategies, H \in SUBSET History("live") :
                            TellsOfSome(a, st, H, TradesOf(a)')
    BY <1>4 DEF LiveRunsSound, LiveRuns, TradesOf, TellsOfSome, Told
  <2>1. CASE a \in backtests
    <3>1. a \in LiveRuns
      BY <2>1 DEF LiveRuns
    <3>2. PICK st \in Strategies, H \in SUBSET History("live") : TellsOfSome(a, st, H, TradesOf(a))
      BY <1>1, <3>1 DEF LiveRunsSound
    <3>3. a.by = "live"
      BY <1>1, <3>1 DEF LiveRunsSound
    <3>4. TellsOfSome(a, st, H, TradesOf(a)')
      BY <1>7, <2>1, <3>2
    <3> QED BY <3>2, <3>3, <3>4
  <2>2. CASE a \notin backtests
    <3>1. PICK st \in Strategies, pool \in Pools : a = Run(st, pool, load[pool]).run
      BY <2>2, BacktestEach
    <3>2. /\ a.id = RunId(st, pool) /\ TradesOf(a)' = Told(a.id, st, load[pool])
          /\ a.over = {r.mark : r \in RowsIn(load[pool])}
          /\ a.by = IF \E r \in RowsIn(load[pool]) : Eligible(st, r) /\ r.by = "demo" THEN "demo" ELSE "live"
      BY <1>8, <3>1
    <3>3. pool = "live" /\ a.id.strategy = st.name
      BY <3>2, RunIdIs
    <3>4. load[pool] \in Loads(History("live")) /\ RowsIn(load[pool]) = History("live") /\ History("live") # {}
      BY <1>2, <3>3, PoolsAre
    <3>5. \A r \in History("live") : r.by = "live"
      BY DEF History
    <3>6. a.by = "live"
      BY <3>2, <3>4, <3>5
    <3>7. TellsOfSome(a, st, History("live"), TradesOf(a)')
      BY <3>2, <3>3, <3>4 DEF TellsOfSome
    <3> QED BY <3>6, <3>7
  <2> QED BY <2>1, <2>2
<1>11. NewestIsLive'
  <2> SUFFICES ASSUME NEW a \in backtests', a.id.pool = "live"
               PROVE  \E b \in backtests' :
                         /\ b.id.pool = "live" /\ b.id.strategy = a.id.strategy
                         /\ \A q \in backtests' : q.id.strategy = a.id.strategy => q.id.number <= b.id.number
    BY DEF NewestIsLive, LiveRuns
  <2>1. a \in LiveRuns'
    BY DEF LiveRuns
  <2>2. PICK st \in Strategies, H \in SUBSET History("live") : H # {} /\ a.id.strategy = st.name
    <3>1. PICK st \in Strategies, H \in SUBSET History("live")' : TellsOfSome(a, st, H, TradesOf(a))'
      BY <1>10, <2>1 DEF LiveRunsSound
    <3>2. H # {} /\ a.id.strategy = st.name
      BY <3>1 DEF TellsOfSome
    <3> QED BY <1>4, <3>2
  <2>3. "live" \in Pools
    BY <2>2 DEF Pools
  <2>4. PICK b : b = Run(st, "live", load["live"]).run
    OBVIOUS
  <2>5. b \in backtests' /\ b.id = RunId(st, "live")
    BY <1>8, <2>3, <2>4, BacktestEach
  <2>6. b.id.number = jobs /\ b.id.strategy = a.id.strategy /\ b.id.pool = "live"
    BY <2>2, <2>5, RunIdIs
  <2>7. \A q \in backtests' : q.id.number \in Nat /\ q.id.number < jobs + 1
    BY <1>2, <1>9 DEF RunsSound
  <2>8. \A q \in backtests' : q.id.number <= b.id.number
    BY <1>1, <2>6, <2>7
  <2> QED BY <2>5, <2>6, <2>8
<1>12. jobs' \in Nat
  BY <1>1, <1>2
<1> QED BY <1>3, <1>6, <1>9, <1>10, <1>11, <1>12 DEF TradesInv

LEMMA StepTrades == ASSUME TradesInv, [WalkNext]_walkVars PROVE TradesInv'
<1>1. RowsInv' /\ RowsMove /\ jobs \in Nat
  BY StepRows DEF TradesInv
<1>2. CASE Backtest
  <2>1. PICK load : BacktestOf(load)
    BY <1>2, BacktestAdds
  <2> QED BY <2>1, BacktestKeeps
<1>3. CASE ~ Backtest
  <2>1. trades' = trades /\ (backtests' = backtests \/ backtests' = Real(backtests))
    BY <1>3 DEF WalkNext, PublishDay, SyncSettlements, SeedDemo, PurgeDemo, Purge, Calibrate,
                CountPublished, CountSettled, walkVars
  <2>2. jobs' = jobs \/ jobs' = jobs + 1
    BY <1>3 DEF WalkNext, PublishDay, SyncSettlements, SeedDemo, PurgeDemo, Purge, Calibrate, Job,
                CountPublished, CountSettled, walkVars
  <2>3. jobs' \in Nat /\ jobs <= jobs'
    BY <1>1, <2>2
  <2> QED BY <1>1, <2>1, <2>3, RunsKept
<1> QED BY <1>2, <1>3

\* The rows of a day.
OfDay(rows, day) == {r \in rows : r.day = day}

\* What comes before a row of its load.
LEMMA PrecedingAre ==
  ASSUME NEW H, NEW load \in Loads(H), NEW r \in H
  PROVE  /\ \A q \in Preceding(load, r) : q \in H /\ q # r /\ ~ Earlier(r, q)
         /\ \A q \in H : q # r /\ Earlier(q, r) /\ ~ Earlier(r, q) => q \in Preceding(load, r)
<1>1. PICK n : n = Cardinality(H)
  OBVIOUS
<1>2. /\ load \in [1..n -> H] /\ DOMAIN load = 1..n /\ H = {load[k] : k \in 1..n}
      /\ \A k \in 1..n : \A i \in 1..(k - 1) : ~ Earlier(load[k], load[i])
  BY <1>1 DEF Loads, RowsIn
<1>3. \A i, k \in 1..n : i < k => i \in 1..(k - 1)
  OBVIOUS
<1>4. PICK k \in 1..n : load[k] = r
  BY <1>2
<1>5. ASSUME NEW q \in Preceding(load, r) PROVE q \in H /\ q # r /\ ~ Earlier(r, q)
  <2>1. PICK i \in 1..n : q = load[i] /\ \A j \in 1..n : load[j] = r => i < j
    BY <1>2 DEF Preceding
  <2>2. i < k /\ i \in 1..(k - 1)
    BY <1>3, <1>4, <2>1
  <2>3. ~ Earlier(r, q)
    BY <1>2, <1>4, <2>1, <2>2
  <2>4. q # r
    BY <2>1
  <2> QED BY <1>2, <2>1, <2>3, <2>4
<1>6. ASSUME NEW q \in H, q # r, Earlier(q, r), ~ Earlier(r, q) PROVE q \in Preceding(load, r)
  <2>1. PICK i \in 1..n : load[i] = q
    BY <1>2
  <2>2. ASSUME NEW j \in 1..n, load[j] = r PROVE i < j
    <3>1. i # j
      BY <1>6, <2>1, <2>2
    <3>2. ~ (j < i)
      BY <1>2, <1>3, <1>6, <2>1, <2>2
    <3> QED BY <3>1, <3>2
  <2> QED BY <1>2, <2>1, <2>2 DEF Preceding
<1> QED BY <1>5, <1>6

\* Those of a day that a strategy would take before a row for their rank alone, with
\* those of its own rank, and those that come before it in a load.
Better(st, S, r) == {q \in S : Eligible(st, q) /\ q.rank < r.rank}
AsGood(st, S, r) == {q \in S : Eligible(st, q) /\ q.rank <= r.rank}
FirstIn(st, load, r) == {q \in Preceding(load, r) : Eligible(st, q) /\ q.day = r.day}

\* Off the cut it is the rank that decides, and not the order of the load.
LEMMA RankDecides ==
  ASSUME NEW st, st.top \in Nat, NEW H, H \subseteq SampleRows, IsFiniteSet(H), NEW load \in Loads(H),
         NEW r \in H, NEW S, S = OfDay(H, r.day), ~ OnTheCut(st, S, r)
  PROVE  r \in Picked(st, load) <=> Eligible(st, r) /\ Cardinality(Better(st, S, r)) < st.top
<1>1. PICK low, upto, first : /\ low = Better(st, S, r) /\ upto = AsGood(st, S, r)
                              /\ first = FirstIn(st, load, r)
  OBVIOUS
<1>2. r \in Picked(st, load) <=> Eligible(st, r) /\ Cardinality(first) < st.top
  <2>1. r \in RowsIn(load)
    BY DEF Loads
  <2> QED BY <1>1, <2>1 DEF Picked, FirstIn
<1>3. ~ (Cardinality(low) < st.top /\ Cardinality(upto) > st.top)
  BY <1>1 DEF OnTheCut, Better, AsGood
<1>4. \A q \in H : q.day \in Nat /\ q.rank \in Nat
  BY DEF SampleRows
<1>5. \A q \in first : q \in upto /\ q # r
  <2>1. ASSUME NEW q \in first PROVE q \in upto /\ q # r
    <3>1. q \in H /\ q # r /\ ~ Earlier(r, q) /\ Eligible(st, q) /\ q.day = r.day
      BY <1>1, PrecedingAre DEF FirstIn
    <3>2. q.rank <= r.rank
      BY <1>4, <3>1 DEF Earlier
    <3> QED BY <1>1, <3>1, <3>2 DEF AsGood, OfDay
  <2> QED BY <2>1
<1>6. \A q \in low : q \in first
  <2>1. ASSUME NEW q \in low PROVE q \in first
    <3>1. q \in H /\ Eligible(st, q) /\ q.day = r.day /\ q.rank < r.rank
      BY <1>1 DEF Better, OfDay
    <3>2. q # r /\ Earlier(q, r) /\ ~ Earlier(r, q)
      BY <1>4, <3>1 DEF Earlier
    <3>3. q \in Preceding(load, r)
      BY <3>1, <3>2, PrecedingAre
    <3> QED BY <1>1, <3>1, <3>3 DEF FirstIn
  <2> QED BY <2>1
<1>7. upto \subseteq H
  BY <1>1 DEF AsGood, OfDay
<1>8. IsFiniteSet(upto)
  BY <1>7, FS_Subset
<1>9. low \subseteq first /\ first \subseteq upto
  BY <1>5, <1>6
<1>10. IsFiniteSet(first)
  BY <1>8, <1>9, FS_Subset
<1>11. /\ Cardinality(low) \in Nat /\ Cardinality(first) \in Nat /\ Cardinality(upto) \in Nat
       /\ Cardinality(low) <= Cardinality(first)
  BY <1>8, <1>9, <1>10, FewerInSubset, FS_Subset, FS_CardinalityType
<1>12. ASSUME Eligible(st, r) PROVE Cardinality(first) < Cardinality(upto)
  <2>1. r \in upto
    BY <1>1, <1>4, <1>12 DEF AsGood, OfDay
  <2>2. r \notin first
    BY <1>5
  <2> QED BY <1>8, <1>9, <2>1, <2>2, FewerInSubset
<1>13. ASSUME Eligible(st, r) PROVE Cardinality(first) < st.top <=> Cardinality(low) < st.top
  BY <1>3, <1>11, <1>12, <1>13
<1> QED BY <1>1, <1>2, <1>13

\* What a run tells of a claim it was over.
LEMMA TellsIs ==
  ASSUME NEW st, NEW H, H \subseteq record, Distinct(record), NEW load \in Loads(H), NEW run,
         TradesOf(run) = Told(run.id, st, load), NEW r \in H
  PROVE  TellsOf(run, r) = IF r \in Bought(st, load) THEN {Gain(st, r)} ELSE {}
<1>1. \A q \in Bought(st, load) : q \in H
  BY BoughtAre DEF Loads
<1>2. \A t \in TradesOf(run) : \E q \in Bought(st, load) : t.mark = q.mark /\ t.gain = Gain(st, q)
  BY ToldAre
<1>3. ASSUME NEW q \in Bought(st, load) PROVE \E t \in TradesOf(run) : t.mark = q.mark /\ t.gain = Gain(st, q)
  <2>1. PICK t : t = [run |-> run.id, mark |-> q.mark, gain |-> Gain(st, q)]
    OBVIOUS
  <2>2. t \in TradesOf(run)
    BY <2>1 DEF Told
  <2> QED BY <2>1, <2>2
<1>4. ASSUME NEW t \in TradesOf(run), t.mark = r.mark PROVE r \in Bought(st, load) /\ t.gain = Gain(st, r)
  <2>1. PICK q \in Bought(st, load) : t.mark = q.mark /\ t.gain = Gain(st, q)
    BY <1>2
  <2>2. q = r
    BY <1>1, <1>4, <2>1 DEF Distinct
  <2> QED BY <2>1, <2>2
<1>5. TellsOf(run, r) = {t.gain : t \in {u \in TradesOf(run) : u.mark = r.mark}}
  BY DEF TellsOf
<1>6. \A x \in TellsOf(run, r) : r \in Bought(st, load) /\ x = Gain(st, r)
  BY <1>4, <1>5
<1>7. r \in Bought(st, load) => Gain(st, r) \in TellsOf(run, r)
  BY <1>3, <1>5
<1> QED BY <1>6, <1>7

\* A day that has settled alike for two runs is told alike, off the cut.
ToldAlike(a, b, st, day) ==
  LET settled(run) == {r \in LiveRows : r.day = day /\ r.mark \in run.over} IN
  a.id.strategy = st.name /\ b.id.strategy = st.name /\ settled(a) = settled(b) =>
    \A r \in settled(a) : TellsOf(a, r) = TellsOf(b, r) \/ OnTheCut(st, settled(a), r)

\* Which claims of a day were settled for a run.
SettledFor(run, day) == {r \in LiveRows : r.day = day /\ r.mark \in run.over}

\* A live run, and the history it is over.
LEMMA RunOver ==
  ASSUME TradesInv, NEW a \in LiveRuns, NEW st \in Strategies, a.id.strategy = st.name, NEW day
  PROVE  \E H : /\ H \subseteq record /\ H \subseteq SampleRows /\ IsFiniteSet(H)
                /\ SettledFor(a, day) = OfDay(H, day)
                /\ \E load \in Loads(H) : TradesOf(a) = Told(a.id, st, load)
<1>1. PICK other \in Strategies, H \in SUBSET History("live") : TellsOfSome(a, other, H, TradesOf(a))
  BY DEF TradesInv, LiveRunsSound
<1>2. /\ a.id.strategy = other.name /\ a.over = {r.mark : r \in H}
      /\ \E load \in Loads(H) : TradesOf(a) = Told(a.id, other, load)
  BY <1>1 DEF TellsOfSome
<1>3. other = st
  BY <1>2, WalkForwardAssumption, Zenon
<1>4. \A r \in History("live") : r \in LiveRows /\ r \in record
  BY DEF History, LiveRows
<1>5. \A r \in LiveRows : r \in record
  BY DEF LiveRows
<1>6. Distinct(record) /\ record \subseteq SampleRows /\ IsFiniteSet(record)
  BY DEF TradesInv, RowsInv, NoRowIsLost
<1>7. H \subseteq record
  BY <1>4
<1>8. H \subseteq SampleRows /\ IsFiniteSet(H)
  BY <1>6, <1>7, FS_Subset
<1>9. SettledFor(a, day) = OfDay(H, day)
  BY <1>2, <1>4, <1>5, <1>6 DEF Distinct, SettledFor, OfDay
<1> QED BY <1>2, <1>3, <1>7, <1>8, <1>9

LEMMA DaysAreToldAlike ==
  ASSUME TradesInv, NEW a \in LiveRuns, NEW b \in LiveRuns, NEW st \in Strategies, NEW day
  PROVE  ToldAlike(a, b, st, day)
<1> SUFFICES ASSUME a.id.strategy = st.name, b.id.strategy = st.name,
                    SettledFor(a, day) = SettledFor(b, day), NEW r \in SettledFor(a, day),
                    ~ OnTheCut(st, SettledFor(a, day), r)
             PROVE  TellsOf(a, r) = TellsOf(b, r)
  BY DEF ToldAlike, SettledFor
<1>1. PICK H : /\ H \subseteq record /\ H \subseteq SampleRows /\ IsFiniteSet(H)
               /\ SettledFor(a, day) = OfDay(H, day)
               /\ \E load \in Loads(H) : TradesOf(a) = Told(a.id, st, load)
  BY RunOver
<1>2. PICK G : /\ G \subseteq record /\ G \subseteq SampleRows /\ IsFiniteSet(G)
               /\ SettledFor(b, day) = OfDay(G, day)
               /\ \E load \in Loads(G) : TradesOf(b) = Told(b.id, st, load)
  BY RunOver
<1>3. PICK load \in Loads(H) : TradesOf(a) = Told(a.id, st, load)
  BY <1>1
<1>4. PICK other \in Loads(G) : TradesOf(b) = Told(b.id, st, other)
  BY <1>2
<1>5. PICK S : S = SettledFor(a, day)
  OBVIOUS
<1>6. r \in H /\ r \in G /\ r.day = day /\ S = OfDay(H, r.day) /\ S = OfDay(G, r.day) /\ ~ OnTheCut(st, S, r)
  BY <1>1, <1>2, <1>5 DEF OfDay
<1>7. st.top \in Nat
  BY WalkForwardAssumption, Zenon
<1>8. r \in Picked(st, load) <=> Eligible(st, r) /\ Cardinality(Better(st, S, r)) < st.top
  BY <1>1, <1>6, <1>7, RankDecides
<1>9. r \in Picked(st, other) <=> Eligible(st, r) /\ Cardinality(Better(st, S, r)) < st.top
  BY <1>2, <1>6, <1>7, RankDecides
<1>10. r \in Bought(st, load) <=> r \in Bought(st, other)
  BY <1>8, <1>9 DEF Bought
<1>11. Distinct(record)
  BY DEF TradesInv, RowsInv
<1>12. TellsOf(a, r) = IF r \in Bought(st, load) THEN {Gain(st, r)} ELSE {}
  BY <1>1, <1>3, <1>6, <1>11, TellsIs
<1>13. TellsOf(b, r) = IF r \in Bought(st, other) THEN {Gain(st, r)} ELSE {}
  BY <1>2, <1>4, <1>6, <1>11, TellsIs
<1> QED BY <1>10, <1>12, <1>13

LEMMA BacktestsAreOfTheRecord == ASSUME TradesInv PROVE BacktestIsOfTheRecord
<1>1. /\ TradesSound /\ RunsSound /\ LiveRunsSound /\ NewestIsLive /\ Distinct(record)
      /\ marks.live = {r.mark : r \in LiveRows}
  BY DEF TradesInv, RowsInv, NoRowIsLost
<1>2. ASSUME NEW t \in trades, NEW r \in record, NEW st \in Strategies, t.mark = r.mark, t.run.strategy = st.name
      PROVE  t.gain = Contracts(st, r.claim) * r.profit
  BY <1>1, <1>2 DEF TradesSound
<1>4. ASSUME NEW run \in backtests, run.by = "live" PROVE \A t \in TradesOf(run) : t.mark \in marks.live
  BY <1>1, <1>4 DEF RunsSound
<1>5. ASSUME NEW a \in LiveRuns PROVE \E b \in LiveRuns \cap Shown("live") : b.id.strategy = a.id.strategy
  <2>1. PICK b \in LiveRuns : /\ b.id.strategy = a.id.strategy
                              /\ \A q \in backtests : q.id.strategy = a.id.strategy => q.id.number <= b.id.number
    BY <1>1 DEF NewestIsLive
  <2>2. b.by = "live" /\ b \in backtests
    BY <1>1 DEF LiveRunsSound, LiveRuns
  <2> QED BY <2>1, <2>2 DEF Shown
<1>6. \A a, b \in LiveRuns, st \in Strategies, day \in 1..LastDay : ToldAlike(a, b, st, day)
  BY DaysAreToldAlike
<1>7. BacktestIsOfTheRecord <=>
        /\ marks.live = {r.mark : r \in LiveRows}
        /\ \A t \in trades, r \in record, st \in Strategies :
             t.mark = r.mark /\ t.run.strategy = st.name =>
               t.gain = Contracts(st, r.claim) * r.profit
        /\ \A a, b \in LiveRuns, st \in Strategies, day \in 1..LastDay : ToldAlike(a, b, st, day)
        /\ \A r \in backtests : r.by = "live" => \A t \in TradesOf(r) : t.mark \in marks.live
        /\ \A a \in LiveRuns : \E b \in LiveRuns \cap Shown("live") :
             b.id.strategy = a.id.strategy
  BY DEF BacktestIsOfTheRecord, ToldAlike
<1> QED BY <1>1, <1>2, <1>4, <1>5, <1>6, <1>7

-----------------------------------------------------------------------------
(* What is in order.                                                        *)

\* A strict total order of some things.
OrdersAll(before, T) ==
  /\ \A x, y \in T : x # y => <<x, y>> \in before \/ <<y, x>> \in before
  /\ \A x \in T : <<x, x>> \notin before
  /\ \A x, y, z \in T : <<x, y>> \in before /\ <<y, z>> \in before => <<x, z>> \in before

\* A finite set in the order of how many come before.
ByRank(T, before) ==
  [k \in 1..Cardinality(T) |-> CHOOSE x \in T : Cardinality({y \in T : <<y, x>> \in before}) = k - 1]

\* Each once, and in order.
Arranged(seq, n, T, before) ==
  /\ seq \in [1..n -> T]
  /\ \A x \in T : \E k \in 1..n : seq[k] = x
  /\ \A i, k \in 1..n : i < k => <<seq[i], seq[k]>> \in before

LEMMA RankArranges ==
  ASSUME NEW T, IsFiniteSet(T), NEW before, OrdersAll(before, T)
  PROVE  Cardinality(T) \in Nat /\ Arranged(ByRank(T, before), Cardinality(T), T, before)
<1> DEFINE Ahead(x) == {y \in T : <<y, x>> \in before}
<1>1. PICK n \in Nat : n = Cardinality(T)
  BY FS_CardinalityType
<1>2. PICK rank : rank = [x \in T |-> Cardinality(Ahead(x))]
  OBVIOUS
<1>3. \A x, y, z \in T : <<x, y>> \in before /\ <<y, z>> \in before => <<x, z>> \in before
  BY DEF OrdersAll
<1>4. \A x \in T : <<x, x>> \notin before
  BY DEF OrdersAll
<1>5. ASSUME NEW x \in T PROVE IsFiniteSet(Ahead(x)) /\ rank[x] = Cardinality(Ahead(x)) /\ rank[x] \in 0..(n - 1)
  <2>1. Ahead(x) \subseteq T /\ x \notin Ahead(x)
    BY <1>4
  <2>2. rank[x] = Cardinality(Ahead(x))
    BY <1>2
  <2> HIDE DEF Ahead
  <2>3. /\ IsFiniteSet(Ahead(x)) /\ Cardinality(Ahead(x)) \in Nat
        /\ Cardinality(Ahead(x)) < Cardinality(T)
    BY <2>1, FewerInSubset
  <2> QED BY <1>1, <2>2, <2>3
<1>6. ASSUME NEW x \in T, NEW y \in T, <<x, y>> \in before PROVE rank[x] < rank[y]
  <2>1. Ahead(x) \subseteq Ahead(y) /\ x \in Ahead(y) /\ x \notin Ahead(x)
    BY <1>3, <1>4, <1>6
  <2> HIDE DEF Ahead
  <2>2. Cardinality(Ahead(x)) < Cardinality(Ahead(y))
    BY <1>5, <2>1, FewerInSubset
  <2> QED BY <1>5, <2>2
<1>7. \A x, y \in T : x # y => rank[x] < rank[y] \/ rank[y] < rank[x]
  BY <1>6 DEF OrdersAll
<1>8. PICK places : places = 0..(n - 1)
  OBVIOUS
<1>9. IsFiniteSet(places) /\ Cardinality(places) = n
  <2>1. n - 1 \in Int
    OBVIOUS
  <2>2. IsFiniteSet(0..(n - 1)) /\ Cardinality(0..(n - 1)) = IF 0 > n - 1 THEN 0 ELSE n - 1 - 0 + 1
    BY <2>1, FS_Interval
  <2> QED BY <1>8, <2>2
<1>10. \A x \in T : rank[x] \in places /\ rank[x] \in 0..(n - 1)
  <2> HIDE DEF Ahead
  <2> QED BY <1>5, <1>8
<1> HIDE DEF Ahead
<1>11. rank \in Injection(T, places)
  <2>1. rank \in [T -> places]
    BY <1>2, <1>10
  <2>2. \A x, y \in T : rank[x] = rank[y] => x = y
    BY <1>7, <1>10
  <2> QED BY <2>1, <2>2 DEF Injection, IsInjective
<1>12. rank \in Surjection(T, places)
  BY <1>1, <1>9, <1>11, FS_Injection
<1>13. \A k \in 1..n : \E x \in T : rank[x] = k - 1
  <2>1. \A m \in places : \E x \in T : rank[x] = m
    BY <1>12 DEF Surjection
  <2>2. \A k \in 1..n : k - 1 \in places
    BY <1>8
  <2> QED BY <2>1, <2>2
<1>14. PICK seq : seq = ByRank(T, before)
  OBVIOUS
<1>15. \A k \in 1..n : seq[k] \in T /\ rank[seq[k]] = k - 1
  <2>1. seq = [k \in 1..n |-> CHOOSE x \in T : Cardinality({y \in T : <<y, x>> \in before}) = k - 1]
    BY <1>1, <1>14 DEF ByRank
  <2>2. \A x \in T : rank[x] = Cardinality({y \in T : <<y, x>> \in before})
    BY <1>2 DEF Ahead
  <2> SUFFICES ASSUME NEW k \in 1..n PROVE seq[k] \in T /\ rank[seq[k]] = k - 1
    OBVIOUS
  <2>3. PICK z \in T : Cardinality({y \in T : <<y, z>> \in before}) = k - 1
    BY <1>13, <2>2
  <2>4. seq[k] = CHOOSE x \in T : Cardinality({y \in T : <<y, x>> \in before}) = k - 1
    BY <2>1
  <2>5. seq[k] \in T /\ Cardinality({y \in T : <<y, seq[k]>> \in before}) = k - 1
    BY <2>3, <2>4
  <2> QED BY <2>2, <2>5
<1>16. seq \in [1..n -> T]
  <2>1. seq = [k \in 1..n |-> CHOOSE x \in T : Cardinality({y \in T : <<y, x>> \in before}) = k - 1]
    BY <1>1, <1>14 DEF ByRank
  <2>2. \A k \in 1..n : seq[k] = CHOOSE x \in T : Cardinality({y \in T : <<y, x>> \in before}) = k - 1
    BY <2>1
  <2> QED BY <1>15, <2>1, <2>2
<1>17. ASSUME NEW x \in T PROVE \E k \in 1..n : seq[k] = x
  <2>1. PICK k \in 1..n : k - 1 = rank[x]
    <3>1. PICK m \in 0..(n - 1) : m = rank[x]
      BY <1>10
    <3>2. m + 1 \in 1..n /\ (m + 1) - 1 = m
      OBVIOUS
    <3> QED BY <3>1, <3>2
  <2>2. seq[k] \in T /\ rank[seq[k]] = rank[x]
    BY <1>15, <2>1
  <2>3. seq[k] = x
    BY <1>7, <1>10, <2>2
  <2> QED BY <2>3
<1>18. ASSUME NEW i \in 1..n, NEW k \in 1..n, i < k PROVE <<seq[i], seq[k]>> \in before
  <2>1. rank[seq[i]] = i - 1 /\ rank[seq[k]] = k - 1 /\ seq[i] \in T /\ seq[k] \in T
    BY <1>15
  <2>2. seq[i] # seq[k]
    BY <1>18, <2>1
  <2>3. ~ (rank[seq[k]] < rank[seq[i]])
    BY <1>18, <2>1
  <2> QED BY <1>6, <2>1, <2>2, <2>3 DEF OrdersAll
<1> QED BY <1>1, <1>14, <1>16, <1>17, <1>18 DEF Arranged

\* A function on the first numbers is a sequence.
LEMMA SequenceOf ==
  ASSUME NEW S, NEW n \in Nat, NEW f \in [1..n -> S]
  PROVE  f \in Seq(S) /\ Len(f) = n /\ DOMAIN f = 1..n
OBVIOUS

\* Claims are loaded in the order of their days.
LEMMA LoadedInOrder ==
  ASSUME NEW rows, rows \subseteq SampleRows, NEW n \in Nat, n = Cardinality(rows), NEW load \in Loads(rows)
  PROVE  /\ load \in [1..n -> rows]
         /\ \A i, k \in 1..n : i < k => load[i].day <= load[k].day
<1>1. /\ load \in [1..n -> rows]
      /\ \A k \in 1..n : \A i \in 1..(k - 1) : ~ Earlier(load[k], load[i])
  BY DEF Loads
<1>2. ASSUME NEW i \in 1..n, NEW k \in 1..n, i < k PROVE load[i].day <= load[k].day
  <2>1. i \in 1..(k - 1)
    BY <1>2
  <2>2. ~ Earlier(load[k], load[i])
    BY <1>1, <2>1
  <2>3. load[i].day \in Nat /\ load[k].day \in Nat
    BY <1>1 DEF SampleRows
  <2> QED BY <2>2, <2>3 DEF Earlier
<1> QED BY <1>1, <1>2

-----------------------------------------------------------------------------
(* Slopes.                                                                  *)

\* Products in the order of their factors.
LEMMA TimesGrows ==
  ASSUME NEW x \in Int, NEW y \in Int, NEW k \in Nat, k > 0
  PROVE  /\ x < y <=> x * k < y * k
         /\ x <= y <=> x * k <= y * k
BY Z3

LEMMA TimesTurns ==
  ASSUME NEW x \in Int, NEW y \in Int, NEW z \in Int
  PROVE  x * y \in Int /\ x * y = y * x /\ (x * y) * z = (x * z) * y /\ (x * y) * z = x * (y * z)
         /\ (x + y) * z = x * z + y * z
BY Z3

\* The slopes x / p, y / q and z / r: what one is to the next and that to the third.
LEMMA SlopesChain ==
  ASSUME NEW x \in Int, NEW y \in Int, NEW z \in Int, NEW p \in Nat, NEW q \in Nat, NEW r \in Nat,
         p > 0, q > 0, r > 0
  PROVE  /\ x * q < y * p /\ y * r < z * q => x * r < z * p
         /\ x * q >= y * p /\ y * r >= z * q => x * r >= z * p
         /\ x * q <= y * p /\ y * r < z * q => x * r < z * p
<1>1. /\ (x * q) * r = (x * r) * q /\ (y * p) * r = (y * r) * p /\ (z * q) * p = (z * p) * q
      /\ x * q \in Int /\ y * p \in Int /\ y * r \in Int /\ z * q \in Int /\ x * r \in Int /\ z * p \in Int
  BY TimesTurns
<1>2. ASSUME x * q < y * p, y * r < z * q PROVE x * r < z * p
  <2>1. (x * q) * r < (y * p) * r
    BY <1>1, <1>2, TimesGrows
  <2>2. (y * r) * p < (z * q) * p
    BY <1>1, <1>2, TimesGrows
  <2>3. (x * r) * q < (z * p) * q
    <3>1. (x * r) * q \in Int /\ (y * r) * p \in Int /\ (z * p) * q \in Int
      BY <1>1, TimesTurns
    <3> QED BY <1>1, <2>1, <2>2, <3>1
  <2> QED BY <1>1, <2>3, TimesGrows
<1>3. ASSUME x * q >= y * p, y * r >= z * q PROVE x * r >= z * p
  <2>1. (y * p) * r <= (x * q) * r
    BY <1>1, <1>3, TimesGrows
  <2>2. (z * q) * p <= (y * r) * p
    BY <1>1, <1>3, TimesGrows
  <2>3. (z * p) * q <= (x * r) * q
    <3>1. (x * r) * q \in Int /\ (y * r) * p \in Int /\ (z * p) * q \in Int
      BY <1>1, TimesTurns
    <3> QED BY <1>1, <2>1, <2>2, <3>1
  <2>4. z * p <= x * r
    BY <1>1, <2>3, TimesGrows
  <2> QED BY <1>1, <2>4
<1>4. ASSUME x * q <= y * p, y * r < z * q PROVE x * r < z * p
  <2>1. (x * q) * r <= (y * p) * r
    BY <1>1, <1>4, TimesGrows
  <2>2. (y * r) * p < (z * q) * p
    BY <1>1, <1>4, TimesGrows
  <2>3. (x * r) * q < (z * p) * q
    <3>1. (x * r) * q \in Int /\ (y * r) * p \in Int /\ (z * p) * q \in Int
      BY <1>1, TimesTurns
    <3> QED BY <1>1, <2>1, <2>2, <3>1
  <2> QED BY <1>1, <2>3, TimesGrows
<1> QED BY <1>2, <1>3, <1>4

\* The slope of two stretches together is between theirs.
LEMMA SlopesMix ==
  ASSUME NEW x \in Int, NEW y \in Int, NEW p \in Nat, NEW q \in Nat, p > 0, q > 0
  PROVE  /\ x * q < y * p <=> x * (p + q) < (x + y) * p
         /\ x * q < y * p <=> (x + y) * q < y * (p + q)
         /\ x * q >= y * p <=> x * (p + q) >= (x + y) * p
         /\ x * q >= y * p <=> (x + y) * q >= y * (p + q)
<1>1. /\ x * (p + q) = x * p + x * q /\ (x + y) * p = x * p + y * p
      /\ (x + y) * q = x * q + y * q /\ y * (p + q) = y * p + y * q
  BY TimesTurns
<1>2. x * p \in Int /\ x * q \in Int /\ y * p \in Int /\ y * q \in Int
  BY TimesTurns
<1> QED BY <1>1, <1>2

-----------------------------------------------------------------------------
(* The lower hull of the sums.                                              *)

\* At i the sums c rise no less before than after it, between a and b.
Bends(c, a, i, b) == (c[i] - c[a]) * (b - i) >= (c[b] - c[i]) * (i - a)

\* Where the sums, of up to t numbers, turn upwards for good.
Turns(c, t, i) == \A j \in 0..(i - 1), k \in (i + 1)..t : ~ Bends(c, j, i, k)

\* A stretch within which they do not.
Flat(c, a, b) == \A i \in (a + 1)..(b - 1) : Bends(c, a, i, b)

\* Ends of m stretches of the first t.
Ends(e, t, m) ==
  /\ m \in Nat /\ e \in [0..m -> 0..t] /\ e[0] = 0 /\ e[m] = t
  /\ \A l \in 1..m : e[l - 1] < e[l]

Hull(c, t, m, e) ==
  /\ Ends(e, t, m)
  /\ \A l \in 1..m : Turns(c, t, e[l]) /\ Flat(c, e[l - 1], e[l])

\* One more number, that may not go on upwards yet.
Growing(c, t, m, e) ==
  /\ m > 0 /\ Ends(e, t + 1, m)
  /\ \A l \in 1..m : Flat(c, e[l - 1], e[l])
  /\ \A l \in 1..m : l < m => Turns(c, t, e[l]) /\ e[l] <= t

LEMMA BendsIs ==
  ASSUME NEW n \in Nat, NEW c \in [0..n -> Int], NEW a \in 0..n, NEW i \in 0..n, NEW b \in 0..n, a < i, i < b
  PROVE  /\ c[i] - c[a] \in Int /\ c[b] - c[i] \in Int
         /\ (c[i] - c[a]) + (c[b] - c[i]) = c[b] - c[a] /\ (i - a) + (b - i) = b - a
         /\ i - a \in Nat /\ b - i \in Nat /\ i - a > 0 /\ b - i > 0
         /\ ~ Bends(c, a, i, b) <=> (c[i] - c[a]) * (b - i) < (c[b] - c[i]) * (i - a)
<1>1. c[i] \in Int /\ c[a] \in Int /\ c[b] \in Int
  OBVIOUS
<1>2. PICK x \in Int, y \in Int, p \in Nat, q \in Nat :
        x = c[i] - c[a] /\ y = c[b] - c[i] /\ p = i - a /\ q = b - i
  BY <1>1
<1>3. x * q \in Int /\ y * p \in Int
  BY TimesTurns
<1>4. x * q >= y * p <=> Bends(c, a, i, b)
  BY <1>2 DEF Bends
<1>5. ~ (x * q >= y * p) <=> x * q < y * p
  BY <1>3
<1> QED BY <1>1, <1>2, <1>4, <1>5, SMTT(30)

LEMMA FourSlopes ==
  ASSUME NEW x \in Int, NEW y \in Int, NEW z \in Int, NEW p \in Nat, NEW q \in Nat, NEW r \in Nat,
         p > 0, q > 0, r > 0
  PROVE  /\ x * q >= y * p /\ (x + y) * r >= z * (p + q) => x * (q + r) >= (y + z) * p
         /\ y * r >= z * q /\ x * (q + r) >= (y + z) * p => (x + y) * r >= z * (p + q)
         /\ x * q < y * p /\ y * r < z * q => (x + y) * r < z * (p + q) /\ x * (q + r) < (y + z) * p
         /\ x * q >= y * p /\ (x + y) * r < z * (p + q) => y * r < z * q
<1>1. /\ x * (q + r) = x * q + x * r /\ (y + z) * p = y * p + z * p
      /\ (x + y) * r = x * r + y * r /\ z * (p + q) = z * p + z * q
  BY TimesTurns
<1>2. /\ x * q \in Int /\ x * r \in Int /\ y * p \in Int /\ z * p \in Int /\ y * r \in Int /\ z * q \in Int
  BY TimesTurns
<1>3. PICK u \in Int, w \in Nat : u = x + y /\ w = p + q /\ w > 0
  OBVIOUS
<1>4. PICK v \in Int, d \in Nat : v = y + z /\ d = q + r /\ d > 0
  OBVIOUS
<1>5. ASSUME x * q >= y * p, u * r >= z * w PROVE x * d >= v * p
  <2>1. x * w >= u * p
    BY <1>3, <1>5, SlopesMix
  <2>2. x * r >= z * p
    BY <1>3, <1>5, <2>1, SlopesChain
  <2> QED BY <1>1, <1>2, <1>4, <1>5, <2>2
<1>6. ASSUME y * r >= z * q, x * d >= v * p PROVE u * r >= z * w
  <2>1. v * r >= z * d
    BY <1>4, <1>6, SlopesMix
  <2>2. x * r >= z * p
    BY <1>4, <1>6, <2>1, SlopesChain
  <2> QED BY <1>1, <1>2, <1>3, <1>6, <2>2
<1>7. ASSUME x * q < y * p, y * r < z * q PROVE u * r < z * w /\ x * d < v * p
  <2>1. x * r < z * p
    BY <1>7, SlopesChain
  <2> QED BY <1>1, <1>2, <1>3, <1>4, <1>7, <2>1
<1>8. ASSUME x * q >= y * p, u * r < z * w PROVE y * r < z * q
  <2>1. u * q >= y * w
    BY <1>3, <1>8, SlopesMix
  <2>2. y * w <= u * q
    <3>1. u * q \in Int /\ y * w \in Int
      BY TimesTurns
    <3> QED BY <2>1, <3>1
  <2> QED BY <1>3, <1>8, <2>2, SlopesChain
<1> QED BY <1>3, <1>4, <1>5, <1>6, <1>7, <1>8

\* Bends of the sums at one point and at the next.
Chained(c, i, j, k, l) ==
  /\ Bends(c, i, j, k) /\ Bends(c, i, k, l) => Bends(c, i, j, l)
  /\ Bends(c, j, k, l) /\ Bends(c, i, j, l) => Bends(c, i, k, l)
  /\ ~ Bends(c, i, j, k) /\ ~ Bends(c, j, k, l) => ~ Bends(c, i, k, l) /\ ~ Bends(c, i, j, l)
  /\ Bends(c, i, j, k) /\ ~ Bends(c, i, k, l) => ~ Bends(c, j, k, l)

LEMMA BendsChain ==
  ASSUME NEW n \in Nat, NEW c \in [0..n -> Int],
         NEW i \in 0..n, NEW j \in 0..n, NEW k \in 0..n, NEW l \in 0..n, i < j, j < k, k < l
  PROVE  Chained(c, i, j, k, l)
<1>1. c[i] \in Int /\ c[j] \in Int /\ c[k] \in Int /\ c[l] \in Int
  OBVIOUS
<1>2. PICK x \in Int, y \in Int, z \in Int : x = c[j] - c[i] /\ y = c[k] - c[j] /\ z = c[l] - c[k]
  BY <1>1, SMTT(30)
<1>3. PICK p \in Nat, q \in Nat, r \in Nat : /\ p = j - i /\ q = k - j /\ r = l - k
                                             /\ p > 0 /\ q > 0 /\ r > 0
  OBVIOUS
<1>4. /\ x + y = c[k] - c[i] /\ y + z = c[l] - c[j] /\ p + q = k - i /\ q + r = l - j
  BY <1>1, <1>2, <1>3, SMTT(30)
<1>5. /\ Bends(c, i, j, k) <=> x * q >= y * p
      /\ Bends(c, i, k, l) <=> (x + y) * r >= z * (p + q)
      /\ Bends(c, i, j, l) <=> x * (q + r) >= (y + z) * p
      /\ Bends(c, j, k, l) <=> y * r >= z * q
  BY <1>2, <1>3, <1>4 DEF Bends
<1>6. /\ ~ Bends(c, i, j, k) <=> x * q < y * p
      /\ ~ Bends(c, i, k, l) <=> (x + y) * r < z * (p + q)
      /\ ~ Bends(c, i, j, l) <=> x * (q + r) < (y + z) * p
      /\ ~ Bends(c, j, k, l) <=> y * r < z * q
  <2>1. /\ x * q \in Int /\ y * p \in Int /\ (x + y) * r \in Int /\ z * (p + q) \in Int
        /\ x * (q + r) \in Int /\ (y + z) * p \in Int /\ y * r \in Int /\ z * q \in Int
    BY TimesTurns
  <2> QED BY <1>5, <2>1
<1>7. /\ x * q >= y * p /\ (x + y) * r >= z * (p + q) => x * (q + r) >= (y + z) * p
      /\ y * r >= z * q /\ x * (q + r) >= (y + z) * p => (x + y) * r >= z * (p + q)
      /\ x * q < y * p /\ y * r < z * q => (x + y) * r < z * (p + q) /\ x * (q + r) < (y + z) * p
      /\ x * q >= y * p /\ (x + y) * r < z * (p + q) => y * r < z * q
  BY <1>3, FourSlopes
<1> QED BY <1>5, <1>6, <1>7 DEF Chained

\* What rises from each to the next rises throughout.
LEMMA RisesThroughout ==
  ASSUME NEW n \in Nat, NEW f \in [0..n -> Int], \A l \in 1..n : f[l - 1] < f[l]
  PROVE  \A i, k \in 0..n : i < k => f[i] < f[k]
<1> DEFINE J == {k \in 0..n : \A i \in 0..n : i < k => f[i] < f[k]}
<1>1. 0 \in J
  OBVIOUS
<1>2. ASSUME NEW k \in 1..n, k - 1 \in J PROVE k \in J
  <2> SUFFICES ASSUME NEW i \in 0..n, i < k PROVE f[i] < f[k]
    OBVIOUS
  <2>1. i = k - 1 \/ i < k - 1
    OBVIOUS
  <2>2. i < k - 1 => f[i] < f[k - 1]
    BY <1>2
  <2>3. f[k - 1] < f[k] /\ f[i] \in Int /\ f[k] \in Int /\ f[k - 1] \in Int
    OBVIOUS
  <2> QED BY <2>1, <2>2, <2>3
<1>3. J = 0..n
  <2>1. J \in SUBSET (0..n) /\ \A k \in 1..n : k - 1 \in J => k \in J
    BY <1>2
  <2> HIDE DEF J
  <2> QED BY <1>1, <2>1, StepsKeep
<1> QED BY <1>3

LEMMA GrowsThroughout ==
  ASSUME NEW n \in Nat, NEW f \in [0..n -> Int], \A l \in 1..n : f[l - 1] <= f[l]
  PROVE  \A i, k \in 0..n : i <= k => f[i] <= f[k]
<1> DEFINE J == {k \in 0..n : \A i \in 0..n : i <= k => f[i] <= f[k]}
<1>1. 0 \in J
  OBVIOUS
<1>2. ASSUME NEW k \in 1..n, k - 1 \in J PROVE k \in J
  <2> SUFFICES ASSUME NEW i \in 0..n, i <= k PROVE f[i] <= f[k]
    OBVIOUS
  <2>1. i = k \/ i <= k - 1
    OBVIOUS
  <2>2. i <= k - 1 => f[i] <= f[k - 1]
    BY <1>2
  <2>3. f[k - 1] <= f[k] /\ f[i] \in Int /\ f[k] \in Int /\ f[k - 1] \in Int
    OBVIOUS
  <2> QED BY <2>1, <2>2, <2>3
<1>3. J = 0..n
  <2>1. J \in SUBSET (0..n) /\ \A k \in 1..n : k - 1 \in J => k \in J
    BY <1>2
  <2> HIDE DEF J
  <2> QED BY <1>1, <2>1, StepsKeep
<1> QED BY <1>3

LEMMA EndsRise ==
  ASSUME NEW t \in Nat, NEW m, NEW e, Ends(e, t, m)
  PROVE  /\ m \in Nat /\ \A l \in 0..m : e[l] \in 0..t
         /\ \A i, k \in 0..m : i < k => e[i] < e[k]
<1>1. m \in Nat /\ e \in [0..m -> 0..t] /\ \A l \in 1..m : e[l - 1] < e[l]
  BY DEF Ends
<1>2. e \in [0..m -> Int]
  BY <1>1
<1>3. \A i, k \in 0..m : i < k => e[i] < e[k]
  BY <1>1, <1>2, RisesThroughout
<1> QED BY <1>1, <1>3

\* Each number is in one of the stretches.
LEMMA EndsCover ==
  ASSUME NEW t \in Nat, NEW m, NEW e, Ends(e, t, m), NEW i \in 1..t
  PROVE  \E l \in 1..m : e[l - 1] < i /\ i <= e[l]
<1>1. /\ m \in Nat /\ \A l \in 0..m : e[l] \in 0..t
      /\ e[0] = 0 /\ e[m] = t
  BY EndsRise DEF Ends
<1>2. PICK L : L = {l \in 1..m : i <= e[l]}
  OBVIOUS
<1>3. m # 0
  BY <1>1
<1>4. m \in L /\ L \subseteq Nat
  BY <1>1, <1>2, <1>3
<1>5. PICK l \in L : \A k \in L : l <= k
  BY <1>4, LeastExists
<1>6. l \in 1..m /\ i <= e[l]
  BY <1>2
<1>7. e[l - 1] < i
  <2>1. CASE l = 1
    BY <1>1, <2>1
  <2>2. CASE l # 1
    <3>1. l \in Nat /\ l - 1 \in 1..m /\ ~ (l <= l - 1)
      BY <1>1, <1>6, <2>2
    <3>3. l - 1 \notin L
      BY <1>5, <3>1
    <3>2. e[l - 1] \in 0..t /\ ~ (i <= e[l - 1])
      BY <1>1, <1>2, <3>1, <3>3
    <3> QED BY <3>2
  <2> QED BY <2>1, <2>2
<1> QED BY <1>6, <1>7

LEMMA HullStarts == ASSUME NEW c, NEW e, e = [l \in 0..0 |-> 0] PROVE Hull(c, 0, 0, e)
BY DEF Hull, Ends


\* The ends with the k-th moved on to the new number.
MovedTo(e, k, b) == [l \in 0..k |-> IF l = k THEN b ELSE e[l]]

Moved(e, k, b, g) ==
  /\ Ends(g, b, k) /\ g[k] = b
  /\ \A l \in 1..k : l < k => g[l] = e[l] /\ g[l - 1] = e[l - 1]
  /\ g[k - 1] = e[k - 1]

LEMMA MovedIs ==
  ASSUME NEW e, NEW k \in Nat, k > 0, NEW b \in Nat, NEW g, g = MovedTo(e, k, b),
         e[0] = 0, \A l \in 0..k : l < k => e[l] \in 0..b, \A l \in 1..k : l < k => e[l - 1] < e[l],
         e[k - 1] < b
  PROVE  Moved(e, k, b, g)
<1>1. /\ g[k] = b /\ \A l \in 0..k : l < k => g[l] = e[l]
      /\ g[k - 1] = e[k - 1]
  BY DEF MovedTo
<1>2. \A l \in 1..k : l < k => g[l] = e[l] /\ g[l - 1] = e[l - 1]
  <2> SUFFICES ASSUME NEW l \in 1..k, l < k PROVE g[l] = e[l] /\ g[l - 1] = e[l - 1]
    OBVIOUS
  <2>1. l \in 0..k /\ l - 1 \in 0..k /\ l - 1 < k
    OBVIOUS
  <2> QED BY <1>1, <2>1
<1>3. g \in [0..k -> 0..b]
  <2>1. ASSUME NEW l \in 0..k PROVE (IF l = k THEN b ELSE e[l]) \in 0..b
    <3>1. l = k \/ l < k
      OBVIOUS
    <3> QED BY <3>1
  <2> QED BY <2>1 DEF MovedTo
<1>4. ASSUME NEW l \in 1..k PROVE g[l - 1] < g[l]
  <2>1. l = k \/ l < k
    OBVIOUS
  <2>2. CASE l = k
    BY <1>1, <2>2
  <2>3. CASE l < k
    BY <1>2, <2>3
  <2> QED BY <2>1, <2>2, <2>3
<1>5. g[0] = 0
  BY <1>1
<1> QED BY <1>1, <1>2, <1>3, <1>4, <1>5 DEF Ends, Moved

LEMMA HullGrows ==
  ASSUME NEW t \in Nat, NEW c, NEW m \in Nat, NEW e, Hull(c, t, m, e), NEW k \in Nat, k = m + 1,
         NEW g, g = MovedTo(e, k, t + 1)
  PROVE  Growing(c, t, k, g)
<1>1. /\ Ends(e, t, m) /\ \A l \in 1..m : Turns(c, t, e[l]) /\ Flat(c, e[l - 1], e[l])
  BY DEF Hull
<1>2. /\ \A l \in 0..m : e[l] \in 0..t
      /\ e[0] = 0 /\ e[m] = t /\ \A l \in 1..m : e[l - 1] < e[l]
  BY <1>1, EndsRise DEF Ends
<1>3. PICK b \in Nat : b = t + 1
  OBVIOUS
<1>4. k > 0 /\ k - 1 = m /\ e[k - 1] = t /\ e[k - 1] < b
  BY <1>2, <1>3
<1>5. /\ \A l \in 0..k : l < k => e[l] \in 0..b
      /\ \A l \in 1..k : l < k => e[l - 1] < e[l]
  <2>1. \A l \in 0..k : l < k => l \in 0..m
    OBVIOUS
  <2>2. \A l \in 1..k : l < k => l \in 1..m
    OBVIOUS
  <2>3. \A x \in 0..t : x \in 0..b
    BY <1>3
  <2> QED BY <1>2, <2>1, <2>2, <2>3
<1>6. g = MovedTo(e, k, b)
  BY <1>3
<1>7. /\ Ends(g, b, k) /\ g[k] = b
      /\ \A l \in 1..k : l < k => g[l] = e[l] /\ g[l - 1] = e[l - 1]
      /\ g[k - 1] = e[k - 1]
  <2>1. Moved(e, k, b, g)
    BY <1>2, <1>4, <1>5, <1>6, MovedIs
  <2> QED BY <2>1 DEF Moved
<1>8. \A l \in 1..k : Flat(c, g[l - 1], g[l])
  <2> SUFFICES ASSUME NEW l \in 1..k PROVE Flat(c, g[l - 1], g[l])
    OBVIOUS
  <2>1. CASE l = k
    <3>1. Flat(c, t, b)
      BY <1>3 DEF Flat
    <3> QED BY <1>4, <1>7, <2>1, <3>1
  <2>2. CASE l # k
    <3>1. l \in 1..m /\ l < k
      BY <2>2
    <3> QED BY <1>1, <1>7, <3>1
  <2> QED BY <2>1, <2>2
<1>9. \A l \in 1..k : l < k => Turns(c, t, g[l]) /\ g[l] <= t
  <2> SUFFICES ASSUME NEW l \in 1..k, l < k PROVE Turns(c, t, g[l]) /\ g[l] <= t
    OBVIOUS
  <2>1. l \in 1..m /\ l \in 0..m
    OBVIOUS
  <2> QED BY <1>1, <1>2, <1>7, <2>1
<1> QED BY <1>3, <1>4, <1>7, <1>8, <1>9 DEF Growing

LEMMA GrowingPools ==
  ASSUME NEW n \in Nat, NEW c \in [0..n -> Int], NEW t \in Nat, t < n,
         NEW m \in Nat, NEW e, Growing(c, t, m, e),
         NEW k \in Nat, NEW j \in Nat, m = k + 1, k = j + 1, Bends(c, e[j], e[k], e[m]),
         NEW g, g = MovedTo(e, k, t + 1)
  PROVE  Growing(c, t, k, g)
<1>1. PICK b \in Nat : b = t + 1 /\ b \in 0..n
  OBVIOUS
<1>2. /\ Ends(e, b, m) /\ \A l \in 1..m : Flat(c, e[l - 1], e[l])
      /\ \A l \in 1..m : l < m => Turns(c, t, e[l]) /\ e[l] <= t
  BY <1>1 DEF Growing
<1>3. /\ \A l \in 0..m : e[l] \in 0..b
      /\ e[0] = 0 /\ e[m] = b /\ \A l \in 1..m : e[l - 1] < e[l]
  BY <1>2, EndsRise DEF Ends
<1>4. k > 0 /\ k - 1 = j /\ m - 1 = k /\ k \in 1..m /\ m \in 1..m /\ j \in 0..m /\ k \in 0..m
  OBVIOUS
<1>5. e[j] < e[k] /\ e[k] < b /\ e[j] \in 0..b /\ e[k] \in 0..b /\ e[k - 1] < b
  <2>1. e[j] < e[k] /\ e[k] < e[m]
    BY <1>3, <1>4
  <2> QED BY <1>3, <1>4, <2>1
<1>6. /\ \A l \in 0..k : l < k => e[l] \in 0..b
      /\ \A l \in 1..k : l < k => e[l - 1] < e[l]
  <2>1. \A l \in 0..k : l \in 0..m
    OBVIOUS
  <2>2. \A l \in 1..k : l \in 1..m
    OBVIOUS
  <2> QED BY <1>3, <2>1, <2>2
<1>7. g = MovedTo(e, k, b)
  BY <1>1
<1>8. /\ Ends(g, b, k) /\ g[k] = b
      /\ \A l \in 1..k : l < k => g[l] = e[l] /\ g[l - 1] = e[l - 1]
      /\ g[k - 1] = e[k - 1]
  <2>1. /\ k \in Nat /\ k > 0 /\ b \in Nat /\ g = MovedTo(e, k, b) /\ e[0] = 0 /\ e[k - 1] < b
        /\ \A l \in 0..k : l < k => e[l] \in 0..b
        /\ \A l \in 1..k : l < k => e[l - 1] < e[l]
    BY <1>3, <1>4, <1>5, <1>6, <1>7
  <2>2. Moved(e, k, b, g)
    BY <2>1, MovedIs
  <2> QED BY <2>2 DEF Moved
<1>9. Flat(c, e[j], b)
  <2>1. PICK a \in 0..n, d \in 0..n : a = e[j] /\ d = e[k] /\ a < d /\ d < b
    <3>1. \A x \in 0..b : x \in 0..n
      BY <1>1
    <3> QED BY <1>5, <3>1
  <2>2. Bends(c, a, d, b)
    BY <1>3, <2>1
  <2>3. Flat(c, a, d) /\ Flat(c, d, b)
    BY <1>2, <1>3, <1>4, <2>1
  <2>4. ASSUME NEW i \in (a + 1)..(b - 1) PROVE Bends(c, a, i, b)
    <3>0. a \in Nat /\ b \in Nat /\ d \in Nat /\ b <= n /\ i \in Int /\ a + 1 <= i /\ i <= b - 1
      BY <1>1
    <3>1. i \in 0..n /\ a < i /\ i < b
      BY <3>0
    <3>2. CASE i < d
      <4>1. i \in (a + 1)..(d - 1)
        BY <3>0, <3>2
      <4>2. Bends(c, a, i, d)
        BY <2>3, <4>1 DEF Flat
      <4>3. Chained(c, a, i, d, b)
        BY <1>1, <2>1, <3>1, <3>2, BendsChain
      <4> QED BY <2>2, <4>2, <4>3 DEF Chained
    <3>3. CASE i = d
      BY <2>2, <3>3
    <3>4. CASE d < i
      <4>1. i \in (d + 1)..(b - 1)
        BY <3>0, <3>4
      <4>2. Bends(c, d, i, b)
        BY <2>3, <4>1 DEF Flat
      <4>3. /\ a \in 0..n /\ d \in 0..n /\ i \in 0..n /\ b \in 0..n /\ a < d /\ d < i /\ i < b
            /\ Bends(c, d, i, b) /\ Bends(c, a, d, b)
        BY <1>1, <2>1, <2>2, <3>1, <3>4, <4>2
      <4>4. Chained(c, a, d, i, b)
        BY <4>3, BendsChain
      <4> QED BY <4>3, <4>4 DEF Chained
    <3> QED BY <3>0, <3>2, <3>3, <3>4
  <2>5. Flat(c, a, b)
    BY <2>4 DEF Flat
  <2> QED BY <2>1, <2>5
<1>10. \A l \in 1..k : Flat(c, g[l - 1], g[l])
  <2> SUFFICES ASSUME NEW l \in 1..k PROVE Flat(c, g[l - 1], g[l])
    OBVIOUS
  <2>1. CASE l = k
    BY <1>4, <1>8, <1>9, <2>1
  <2>2. CASE l # k
    <3>1. l \in 1..m /\ l < k
      BY <2>2
    <3> QED BY <1>2, <1>8, <3>1
  <2> QED BY <2>1, <2>2
<1>11. \A l \in 1..k : l < k => Turns(c, t, g[l]) /\ g[l] <= t
  <2> SUFFICES ASSUME NEW l \in 1..k, l < k PROVE Turns(c, t, g[l]) /\ g[l] <= t
    OBVIOUS
  <2>1. l \in 1..m /\ l < m
    OBVIOUS
  <2> QED BY <1>2, <1>8, <2>1
<1> QED BY <1>1, <1>4, <1>8, <1>10, <1>11 DEF Growing

\* When the last stretch rises steeper than the one before, the ends are those of the hull.
LEMMA GrowingStops ==
  ASSUME NEW n \in Nat, NEW c \in [0..n -> Int], NEW t \in Nat, t < n,
         NEW m \in Nat, NEW e, Growing(c, t, m, e),
         NEW k \in Nat, NEW j \in Nat, m = k + 1, k = j + 1, ~ Bends(c, e[j], e[k], e[m])
  PROVE  Hull(c, t + 1, m, e)
<1>1. PICK b \in Nat : b = t + 1 /\ b \in 0..n
  OBVIOUS
<1>2. /\ Ends(e, b, m) /\ \A l \in 1..m : Flat(c, e[l - 1], e[l])
      /\ \A l \in 1..m : l < m => Turns(c, t, e[l]) /\ e[l] <= t
  BY <1>1 DEF Growing
<1>3. /\ \A l \in 0..m : e[l] \in 0..b
      /\ e[0] = 0 /\ e[m] = b /\ \A i, l \in 0..m : i < l => e[i] < e[l]
  BY <1>2, EndsRise DEF Ends
<1>4. k > 0 /\ k - 1 = j /\ m - 1 = k /\ k \in 1..m /\ m \in 1..m /\ j \in 0..m /\ k \in 0..m /\ k < m /\ j < k
  OBVIOUS
<1>5. PICK a \in 0..n, d \in 0..n : a = e[j] /\ d = e[k] /\ a < d /\ d < b /\ d <= t
  <2>1. e[j] \in 0..b /\ e[k] \in 0..b /\ e[j] < e[k] /\ e[k] < e[m] /\ e[k] <= t
    BY <1>2, <1>3, <1>4
  <2>2. \A x \in 0..b : x \in 0..n
    BY <1>1
  <2> QED BY <1>3, <2>1, <2>2
<1>6. ~ Bends(c, a, d, b)
  BY <1>3, <1>5
<1>7. \A x \in 0..b : x \in 0..n
  BY <1>1
<1>8. ASSUME NEW i \in 0..n, NEW x \in 0..n, NEW y \in 0..n, i < x, x < y, y <= t, Turns(c, t, x)
      PROVE  ~ Bends(c, i, x, y)
  <2>1. i \in 0..(x - 1) /\ y \in (x + 1)..t
    BY <1>8
  <2> QED BY <1>8, <2>1 DEF Turns
<1>9. ASSUME NEW i \in 0..n, i < d PROVE ~ Bends(c, i, d, b)
  <2>1. i = a \/ i < a \/ a < i
    OBVIOUS
  <2>2. CASE i = a
    BY <1>6, <2>2
  <2>3. CASE a < i
    <3>1. i \in (a + 1)..(d - 1)
      BY <1>9, <2>3
    <3>2. Flat(c, a, d)
      BY <1>2, <1>4, <1>5
    <3>3. Bends(c, a, i, d)
      BY <3>1, <3>2 DEF Flat
    <3>4. Chained(c, a, i, d, b)
      BY <1>1, <1>5, <1>9, <2>3, BendsChain
    <3> QED BY <1>6, <3>3, <3>4 DEF Chained
  <2>4. CASE i < a
    <3>1. j # 0
      BY <1>3, <1>5, <2>4
    <3>2. j \in 1..m /\ j < m
      BY <1>4, <3>1
    <3>3. Turns(c, t, a)
      BY <1>2, <1>5, <3>2
    <3>4. ~ Bends(c, i, a, d)
      BY <1>5, <1>8, <2>4, <3>3
    <3>5. Chained(c, i, a, d, b)
      BY <1>1, <1>5, <2>4, BendsChain
    <3> QED BY <1>6, <3>4, <3>5 DEF Chained
  <2> QED BY <2>1, <2>2, <2>3, <2>4
<1>10. ASSUME NEW l \in 1..m, l < m, NEW i \in 0..n, i < e[l] PROVE ~ Bends(c, i, e[l], b)
  <2>1. l = k \/ l < k
    BY <1>4, <1>10
  <2>2. CASE l = k
    BY <1>5, <1>9, <1>10, <2>2
  <2>3. CASE l < k
    <3>1. l \in 0..m /\ k \in 0..m
      BY <1>4
    <3>2. PICK x \in 0..n : x = e[l] /\ x < d
      BY <1>3, <1>5, <1>7, <2>3, <3>1
    <3>3. Turns(c, t, x)
      BY <1>2, <1>10, <3>2
    <3>4. ~ Bends(c, i, x, d)
      BY <1>5, <1>8, <1>10, <3>2, <3>3
    <3>5. ~ Bends(c, x, d, b)
      BY <1>9, <3>2
    <3>6. Chained(c, i, x, d, b)
      BY <1>1, <1>5, <1>10, <3>2, BendsChain
    <3>7. ~ Bends(c, i, x, b)
      BY <3>4, <3>5, <3>6 DEF Chained
    <3> QED BY <3>2, <3>7
  <2> QED BY <2>1, <2>2, <2>3
<1>11. ASSUME NEW l \in 1..m PROVE Turns(c, b, e[l])
  <2>1. PICK x \in 0..n : x = e[l]
    <3>1. l \in 0..m
      OBVIOUS
    <3> QED BY <1>3, <1>7, <3>1
  <2>2. CASE l = m
    <3>1. x = b
      BY <1>3, <2>1, <2>2
    <3>2. \A y \in (x + 1)..b : FALSE
      BY <3>1
    <3>3. Turns(c, b, x)
      BY <3>2 DEF Turns
    <3> QED BY <2>1, <3>3
  <2>3. CASE l # m
    <3>1. l < m /\ Turns(c, t, x) /\ x <= t
      <4>1. l < m
        BY <2>3
      <4> QED BY <1>2, <2>1, <4>1
    <3>2. ASSUME NEW i \in 0..(x - 1), NEW y \in (x + 1)..b PROVE ~ Bends(c, i, x, y)
      <4>1. i \in 0..n /\ i < x /\ y \in 0..n /\ x < y /\ (y <= t \/ y = b)
        BY <1>1
      <4>2. CASE y <= t
        BY <1>8, <3>1, <4>1, <4>2
      <4>3. CASE y = b
        BY <1>10, <2>1, <3>1, <4>1, <4>3
      <4> QED BY <4>1, <4>2, <4>3
    <3>3. Turns(c, b, x)
      BY <3>2 DEF Turns
    <3> QED BY <2>1, <3>3
  <2> QED BY <2>2, <2>3
<1> QED BY <1>1, <1>2, <1>11 DEF Hull

\* And so they are when there is only one.
LEMMA GrowingAlone ==
  ASSUME NEW t \in Nat, NEW c, NEW m, m = 1, NEW e, Growing(c, t, m, e)
  PROVE  Hull(c, t + 1, m, e)
<1>1. /\ Ends(e, t + 1, m) /\ \A l \in 1..m : Flat(c, e[l - 1], e[l])
  BY DEF Growing
<1>2. e[1] = t + 1
  BY <1>1 DEF Ends
<1>3. Turns(c, t + 1, e[1])
  <2>1. \A y \in ((t + 1) + 1)..(t + 1) : FALSE
    OBVIOUS
  <2> QED BY <1>2, <2>1 DEF Turns
<1>4. \A l \in 1..m : l = 1
  OBVIOUS
<1> QED BY <1>1, <1>3, <1>4 DEF Hull

-----------------------------------------------------------------------------
(* The blocks of a stack are the stretches between ends.                    *)

Measures == [p : Int, y : Int]
Stacks == Seq([y : Int, n : Int, x : Int])

\* The sums of what is measured of some points.
SumsOf(c, n, s) ==
  /\ c \in [0..n -> Int] /\ c[0] = 0
  /\ \A k \in 1..n : c[k] = c[k - 1] + s[k].y

\* A stretch of points as one block, and the blocks of all the stretches.
BlockOf(c, s, a, b) == [y |-> c[b] - c[a], n |-> b - a, x |-> s[b].p]
StackOf(c, s, m, e) == [l \in 1..m |-> BlockOf(c, s, e[l - 1], e[l])]

Stacked(st, c, s, m, e) ==
  /\ st \in Stacks /\ Len(st) = m
  /\ \A l \in 1..m : st[l] = BlockOf(c, s, e[l - 1], e[l])

LEMMA StackIs ==
  ASSUME NEW n \in Nat, NEW c \in [0..n -> Int], NEW s \in [1..n -> Measures], NEW t \in 0..n,
         NEW m \in Nat, NEW e, Ends(e, t, m), NEW st, st = StackOf(c, s, m, e)
  PROVE  Stacked(st, c, s, m, e)
<1>1. /\ \A l \in 0..m : e[l] \in 0..t
      /\ \A l \in 1..m : e[l - 1] < e[l]
  BY EndsRise DEF Ends
<1>2. ASSUME NEW l \in 1..m PROVE BlockOf(c, s, e[l - 1], e[l]) \in [y : Int, n : Int, x : Int]
  <2>1. l - 1 \in 0..m /\ l \in 0..m
    OBVIOUS
  <2>2. PICK a \in 0..n, b \in 1..n : a = e[l - 1] /\ b = e[l]
    <3>1. e[l - 1] \in 0..t /\ e[l] \in 0..t /\ e[l - 1] < e[l]
      BY <1>1, <2>1
    <3>2. \A x \in 0..t : x \in 0..n /\ (x # 0 => x \in 1..n)
      OBVIOUS
    <3>3. e[l] # 0
      BY <3>1
    <3> QED BY <3>1, <3>2, <3>3
  <2>3. c[a] \in Int /\ c[b] \in Int /\ s[b].p \in Int
    BY DEF Measures
  <2>4. BlockOf(c, s, a, b) \in [y : Int, n : Int, x : Int]
    BY <2>3 DEF BlockOf
  <2> QED BY <2>2, <2>4
<1>3. st \in [1..m -> [y : Int, n : Int, x : Int]]
  BY <1>2 DEF StackOf
<1>4. \A l \in 1..m : st[l] = BlockOf(c, s, e[l - 1], e[l])
  BY DEF StackOf
<1>5. PICK R : R = [y : Int, n : Int, x : Int]
  OBVIOUS
<1>6. st \in Seq(R) /\ Len(st) = m
  <2>1. st \in [1..m -> R]
    BY <1>3, <1>5
  <2> QED BY <2>1, SequenceOf
<1> QED BY <1>4, <1>5, <1>6 DEF Stacks, Stacked

\* The topmost two descend where the sums bend between them.
LEMMA BlockIs ==
  ASSUME NEW c, NEW s, NEW a, NEW b, NEW q, q = BlockOf(c, s, a, b)
  PROVE  q.y = c[b] - c[a] /\ q.n = b - a /\ q.x = s[b].p
BY DEF BlockOf

PooledBlock(q, r) == [y |-> q.y + r.y, n |-> q.n + r.n, x |-> r.x]

LEMMA BlocksTogether ==
  ASSUME NEW n \in Nat, NEW c \in [0..n -> Int], NEW s \in [1..n -> Measures],
         NEW a \in 0..n, NEW d \in 0..n, NEW b \in 0..n, NEW q, NEW r,
         q = BlockOf(c, s, a, d), r = BlockOf(c, s, d, b)
  PROVE  PooledBlock(q, r) = BlockOf(c, s, a, b)
<1>1. q.y = c[d] - c[a] /\ q.n = d - a
  BY DEF BlockOf
<1>2. r.y = c[b] - c[d] /\ r.n = b - d
  BY DEF BlockOf
<1>3. r.x = s[b].p
  BY DEF BlockOf
<1>4. q.y + r.y = c[b] - c[a] /\ q.n + r.n = b - a
  <2>1. c[a] \in Int /\ c[d] \in Int /\ c[b] \in Int
    OBVIOUS
  <2> QED BY <1>1, <1>2, <2>1
<1> QED BY <1>3, <1>4, Zenon DEF BlockOf, PooledBlock

LEMMA StackBends ==
  ASSUME NEW n \in Nat, NEW c \in [0..n -> Int], NEW s \in [1..n -> Measures], NEW t \in 0..n,
         NEW m \in Nat, NEW e, Ends(e, t, m), NEW st, st = StackOf(c, s, m, e),
         NEW k \in Nat, NEW j \in Nat, m = k + 1, k = j + 1
  PROVE  Descends(st) <=> Bends(c, e[j], e[k], e[m])
<1>1. st \in Stacks /\ Len(st) = m /\ \A l \in 1..m : st[l] = BlockOf(c, s, e[l - 1], e[l])
  <2>1. Stacked(st, c, s, m, e)
    BY StackIs
  <2> QED BY <2>1 DEF Stacked
<1>2. m - 1 = k /\ k - 1 = j /\ m > 1 /\ k \in 1..m /\ m \in 1..m
  OBVIOUS
<1>3. Descends(st) <=> st[k].y * st[m].n >= st[m].y * st[k].n
  BY <1>1, <1>2 DEF Descends
<1>4. /\ st[k].y = c[e[k]] - c[e[j]] /\ st[k].n = e[k] - e[j]
      /\ st[m].y = c[e[m]] - c[e[k]] /\ st[m].n = e[m] - e[k]
  <2>1. PICK q, r : q = st[k] /\ r = st[m]
    OBVIOUS
  <2>2. PICK a, d, b : a = e[j] /\ d = e[k] /\ b = e[m]
    OBVIOUS
  <2>3. q = BlockOf(c, s, a, d) /\ r = BlockOf(c, s, d, b)
    BY <1>1, <1>2, <2>1, <2>2
  <2>4. q.y = c[d] - c[a] /\ q.n = d - a
    BY <2>3, BlockIs, SMTT(30)
  <2>5. r.y = c[b] - c[d] /\ r.n = b - d
    BY <2>3, BlockIs, SMTT(30)
  <2> QED BY <2>1, <2>2, <2>4, <2>5
<1> QED BY <1>3, <1>4 DEF Bends

LEMMA StackDescends ==
  ASSUME NEW n \in Nat, NEW c \in [0..n -> Int], NEW s \in [1..n -> Measures], NEW t \in 0..n,
         NEW m \in Nat, NEW e, Ends(e, t, m), NEW st, st = StackOf(c, s, m, e), Descends(st)
  PROVE  m > 1
<1>1. Stacked(st, c, s, m, e)
  BY StackIs
<1> QED BY <1>1 DEF Stacked, Descends

\* Pooling them takes the end between them away.
PoolsTo(st, c, s, k, g) == Pooled(st) = StackOf(c, s, k, g)

LEMMA StackPools ==
  ASSUME NEW n \in Nat, NEW c \in [0..n -> Int], NEW s \in [1..n -> Measures], NEW t \in 0..n,
         NEW m \in Nat, NEW e, Ends(e, t, m), NEW st, st = StackOf(c, s, m, e), NEW k \in Nat,
         k > 0, m = k + 1, NEW g, g = MovedTo(e, k, t)
  PROVE  PoolsTo(st, c, s, k, g)
<1>1. st = StackOf(c, s, m, e)
  OBVIOUS
<1>2. st \in Stacks /\ Len(st) = m /\ \A l \in 1..m : st[l] = BlockOf(c, s, e[l - 1], e[l])
  <2>1. Stacked(st, c, s, m, e)
    BY <1>1, StackIs
  <2> QED BY <2>1 DEF Stacked
<1> PICK j \in Nat : k = j + 1
  <2>1. k - 1 \in Nat /\ k = (k - 1) + 1
    OBVIOUS
  <2> QED BY <2>1
<1>3. m - 1 = k /\ k - 1 = j /\ k \in 1..m /\ m \in 1..m /\ j \in 0..m /\ k \in 0..m /\ m \in 0..m /\ e[m] = t
  BY DEF Ends
<1>4. /\ \A l \in 0..m : e[l] \in 0..t
      /\ \A i, l \in 0..m : i < l => e[i] < e[l]
  <2>1. t \in Nat
    OBVIOUS
  <2> QED BY <2>1, EndsRise
<1>5. PICK u : u = [y |-> st[k].y + st[m].y, n |-> st[k].n + st[m].n, x |-> st[m].x]
  OBVIOUS
<1>6. Pooled(st) = [i \in 1..k |-> IF i < k THEN st[i]
                                   ELSE [y |-> st[i].y + st[m].y, n |-> st[i].n + st[m].n, x |-> st[m].x]]
  BY <1>2, <1>3 DEF Pooled
<1>7. u = BlockOf(c, s, e[j], t)
  <2>1. PICK a \in 0..n, d \in 0..n, b \in 0..n : a = e[j] /\ d = e[k] /\ b = e[m]
    <3>1. e[j] \in 0..t /\ e[k] \in 0..t /\ e[m] \in 0..t
      BY <1>3, <1>4
    <3>2. \A x \in 0..t : x \in 0..n
      OBVIOUS
    <3> QED BY <3>1, <3>2
  <2>2. PICK q, r : q = st[k] /\ r = st[m]
    OBVIOUS
  <2>3. q = BlockOf(c, s, a, d) /\ r = BlockOf(c, s, d, b)
    BY <1>2, <1>3, <2>1, <2>2
  <2>4. /\ c[a] \in Int /\ c[d] \in Int /\ c[b] \in Int
        /\ a \in Int /\ d \in Int /\ b \in Int
    OBVIOUS
  <2>5. PooledBlock(q, r) = BlockOf(c, s, a, b)
    BY <2>3, <2>4, BlocksTogether, SMTT(30)
  <2> QED BY <1>3, <1>5, <2>1, <2>2, <2>5 DEF PooledBlock
<1>8. /\ g[k] = t /\ g[j] = e[j]
      /\ \A l \in 1..k : l < k => g[l] = e[l] /\ g[l - 1] = e[l - 1]
  <2>1. g[k] = t /\ g[j] = e[j]
    BY <1>3 DEF MovedTo
  <2>2. ASSUME NEW l \in 1..k, l < k PROVE g[l] = e[l] /\ g[l - 1] = e[l - 1]
    <3>1. l \in 0..k /\ l # k /\ l - 1 \in 0..k /\ l - 1 # k
      BY <2>2
    <3> QED BY <3>1 DEF MovedTo
  <2> QED BY <2>1, <2>2
<1>9. ASSUME NEW i \in 1..k PROVE Pooled(st)[i] = BlockOf(c, s, g[i - 1], g[i])
  <2>1. CASE i = k
    <3>1. Pooled(st)[i] = u
      BY <1>5, <1>6, <2>1
    <3> QED BY <1>3, <1>7, <1>8, <2>1, <3>1
  <2>2. CASE i # k
    <3>1. i < k /\ i \in 1..m
      BY <2>2
    <3>2. Pooled(st)[i] = st[i]
      BY <1>6, <3>1
    <3> QED BY <1>2, <1>8, <3>1, <3>2
  <2> QED BY <2>1, <2>2
<1>10. Pooled(st) = [i \in 1..k |-> Pooled(st)[i]]
  BY <1>6
<1> QED BY <1>1, <1>9, <1>10 DEF StackOf, PoolsTo

\* One point more is a stretch of its own.
LEMMA StackAppends ==
  ASSUME NEW n \in Nat, NEW c, NEW s \in [1..n -> Measures], SumsOf(c, n, s), NEW t \in Nat, t < n,
         NEW m \in Nat, NEW e, Ends(e, t, m), NEW k \in Nat, k = m + 1, NEW g, g = MovedTo(e, k, t + 1),
         NEW u, u = [y |-> s[t + 1].y, n |-> 1, x |-> s[t + 1].p]
  PROVE  Append(StackOf(c, s, m, e), u) = StackOf(c, s, k, g)
<1>1. PICK st : st = StackOf(c, s, m, e)
  OBVIOUS
<1>2. c \in [0..n -> Int] /\ t \in 0..n
  BY DEF SumsOf
<1>3. st \in Stacks /\ Len(st) = m /\ \A l \in 1..m : st[l] = BlockOf(c, s, e[l - 1], e[l])
  <2>1. Stacked(st, c, s, m, e)
    BY <1>1, <1>2, StackIs
  <2> QED BY <2>1 DEF Stacked
<1>4. PICK b \in 1..n : b = t + 1 /\ b - 1 = t
  <2>1. t + 1 \in 1..n /\ (t + 1) - 1 = t
    OBVIOUS
  <2> QED BY <2>1
<1>5. e[m] = t
  BY DEF Ends
<1>6. u = BlockOf(c, s, t, b)
  <2>1. c[b] = c[t] + s[b].y /\ c[t] \in Int /\ s[b].y \in Int
    BY <1>2, <1>4 DEF SumsOf, Measures
  <2>2. c[b] - c[t] = s[b].y /\ b - t = 1
    BY <1>4, <2>1
  <2> QED BY <1>4, <2>2 DEF BlockOf
<1>7. /\ g[k] = b /\ g[k - 1] = e[m]
      /\ \A l \in 1..k : l # k => l \in 1..m /\ g[l] = e[l] /\ g[l - 1] = e[l - 1]
  <2>1. k - 1 = m /\ k \in 0..k /\ m \in 0..k /\ m # k
    OBVIOUS
  <2>2. g[k] = b /\ g[k - 1] = e[m]
    BY <1>4, <2>1 DEF MovedTo
  <2>3. ASSUME NEW l \in 1..k, l # k PROVE l \in 1..m /\ g[l] = e[l] /\ g[l - 1] = e[l - 1]
    <3>1. l \in 0..k /\ l - 1 \in 0..k /\ l - 1 # k /\ l \in 1..m
      BY <2>3
    <3> QED BY <2>3, <3>1 DEF MovedTo
  <2> QED BY <2>2, <2>3
<1>8. Append(st, u) = [i \in 1..k |-> IF i = k THEN u ELSE st[i]]
  BY <1>3 DEF Stacks
<1>9. ASSUME NEW i \in 1..k PROVE Append(st, u)[i] = BlockOf(c, s, g[i - 1], g[i])
  <2>1. CASE i = k
    <3>1. Append(st, u)[i] = u
      BY <1>8, <2>1
    <3> QED BY <1>5, <1>6, <1>7, <2>1, <3>1
  <2>2. CASE i # k
    <3>1. Append(st, u)[i] = st[i]
      BY <1>8, <2>2
    <3> QED BY <1>3, <1>7, <2>2, <3>1
  <2> QED BY <2>1, <2>2
<1>10. Append(st, u) = [i \in 1..k |-> Append(st, u)[i]]
  BY <1>8
<1> QED BY <1>1, <1>9, <1>10 DEF StackOf

\* A step of pooling, of the stacks there are.
PoolStep(st) == IF Descends(st) THEN Pooled(st) ELSE st

LEMMA PooledStays ==
  ASSUME NEW st \in Stacks PROVE PoolStep(st) \in Stacks
<1>1. CASE ~ Descends(st)
  BY <1>1 DEF PoolStep
<1>2. CASE Descends(st)
  <2>1. PICK R : R = [y : Int, n : Int, x : Int]
    OBVIOUS
  <2>2. PICK m \in Nat : m = Len(st) /\ st \in [1..m -> R]
    <3>1. st \in Seq(R)
      BY <2>1 DEF Stacks
    <3> QED BY <3>1
  <2>3. m > 1
    BY <1>2, <2>2 DEF Descends
  <2>4. PICK k \in Nat : k = m - 1
    BY <2>3
  <2>5. Pooled(st) = [i \in 1..k |-> IF i < k THEN st[i]
                                   ELSE [y |-> st[i].y + st[m].y, n |-> st[i].n + st[m].n, x |-> st[m].x]]
    BY <2>2, <2>4 DEF Pooled
  <2>6. \A i \in 1..m : st[i] \in R /\ st[i].y \in Int /\ st[i].n \in Int /\ st[i].x \in Int
    <3>1. \A u \in R : u.y \in Int /\ u.n \in Int /\ u.x \in Int
      BY <2>1
    <3> QED BY <2>2, <3>1
  <2>7. ASSUME NEW i \in 1..k
        PROVE  (IF i < k THEN st[i]
                ELSE [y |-> st[i].y + st[m].y, n |-> st[i].n + st[m].n, x |-> st[m].x]) \in R
    <3>1. i \in 1..m /\ m \in 1..m
      BY <2>3, <2>4
    <3>2. /\ st[i].y + st[m].y \in Int /\ st[i].n + st[m].n \in Int /\ st[m].x \in Int
      BY <2>6, <3>1
    <3>3. [y |-> st[i].y + st[m].y, n |-> st[i].n + st[m].n, x |-> st[m].x] \in R
      BY <2>1, <3>2
    <3> QED BY <2>6, <3>1, <3>3
  <2>8. Pooled(st) \in [1..k -> R]
    BY <2>5, <2>7
  <2>9. Pooled(st) \in Seq(R)
    BY <2>8, SequenceOf
  <2> QED BY <1>2, <2>1, <2>9 DEF Stacks, PoolStep
<1> QED BY <1>1, <1>2

LEMMA PoolTopIs ==
  ASSUME NEW st \in Stacks, NEW m \in Nat, m = Len(st)
  PROVE  \E f \in [0..m -> Stacks] : /\ f[0] = st /\ PoolTop(st) = f[m]
                                     /\ \A k \in 1..m : f[k] = PoolStep(f[k - 1])
<1>1. PICK S : S = Stacks
  OBVIOUS
<1>2. PICK g : g = [k \in 1..m |-> [x \in S |-> PoolStep(x)]]
  OBVIOUS
<1>3. g \in [1..m -> [S -> S]] /\ st \in S
  BY <1>1, <1>2, PooledStays
<1>4. PICK f \in [0..m -> S] : Follows(f, m, st, g)
  BY <1>3, StepsExist
<1>5. \A k \in 0..m : f[k] = IF k = 0 THEN st ELSE PoolStep(f[k - 1])
  <2> SUFFICES ASSUME NEW k \in 0..m PROVE f[k] = IF k = 0 THEN st ELSE PoolStep(f[k - 1])
    OBVIOUS
  <2>1. f[k] = IF k = 0 THEN st ELSE g[k][f[k - 1]]
    BY <1>4 DEF Follows
  <2>2. k # 0 => k \in 1..m /\ f[k - 1] \in S
    BY <1>4
  <2>3. k # 0 => g[k][f[k - 1]] = PoolStep(f[k - 1])
    BY <1>2, <2>2
  <2> QED BY <2>1, <2>3
<1> DEFINE P(h) == h = [k \in 0..Len(st) |->
                          IF k = 0 THEN st ELSE IF Descends(h[k - 1]) THEN Pooled(h[k - 1]) ELSE h[k - 1]]
<1>6. PICK h : h = CHOOSE q : P(q)
  OBVIOUS
<1>7. PoolTop(st) = h[m]
  BY <1>6 DEF PoolTop
<1>8. P(f)
  <2>1. \A k \in 0..m : f[k] = IF k = 0 THEN st ELSE IF Descends(f[k - 1]) THEN Pooled(f[k - 1]) ELSE f[k - 1]
    BY <1>5 DEF PoolStep
  <2> QED BY <1>4, <2>1
<1>9. P(h)
  <2> HIDE DEF P
  <2> QED BY <1>6, <1>8
<1>10. h = [k \in 0..m |->
              IF k = 0 THEN st ELSE IF Descends(h[k - 1]) THEN Pooled(h[k - 1]) ELSE h[k - 1]]
  BY <1>9
<1>11. \A k \in 0..m : h[k] = IF k = 0 THEN st ELSE PoolStep(h[k - 1])
  <2> HIDE DEF P
  <2>1. \A k \in 0..m : h[k] = IF k = 0 THEN st ELSE IF Descends(h[k - 1]) THEN Pooled(h[k - 1]) ELSE h[k - 1]
    BY <1>10
  <2> QED BY <2>1 DEF PoolStep
<1>12. {k \in 0..m : h[k] = f[k]} = 0..m
  <2> DEFINE J == {k \in 0..m : h[k] = f[k]}
  <2>1. 0 \in J
    <3>1. 0 \in 0..m
      OBVIOUS
    <3> QED BY <1>5, <1>11, <3>1
  <2>2. ASSUME NEW k \in 1..m, k - 1 \in J PROVE k \in J
    <3>1. k \in 0..m /\ k # 0 /\ h[k - 1] = f[k - 1]
      BY <2>2
    <3>2. h[k] = PoolStep(h[k - 1]) /\ f[k] = PoolStep(f[k - 1])
      BY <1>5, <1>11, <3>1
    <3>3. h[k] = f[k]
      BY <3>1, <3>2
    <3> QED BY <3>1, <3>3
  <2>3. J \in SUBSET (0..m)
    OBVIOUS
  <2> HIDE DEF J
  <2>4. J = 0..m
    BY <2>1, <2>2, <2>3, StepsKeep
  <2> QED BY <2>4 DEF J
<1>13. m \in 0..m /\ 0 \in 0..m
  OBVIOUS
<1>14. h[m] = f[m] /\ f[0] = st
  <2>1. h[m] = f[m]
    BY <1>12, <1>13
  <2> QED BY <1>5, <1>13, <2>1
<1>15. \A k \in 1..m : f[k] = PoolStep(f[k - 1])
  <2>1. \A k \in 1..m : k \in 0..m /\ k # 0
    OBVIOUS
  <2> QED BY <1>5, <2>1
<1>16. f \in [0..m -> Stacks]
  BY <1>1, <1>4
<1> QED BY <1>7, <1>14, <1>15, <1>16

\* A stack of the stretches of a hull, and of one that has r blocks at most to pool.
HullStack(st, c, s, t) == \E m \in Nat : \E e : st = StackOf(c, s, m, e) /\ Hull(c, t, m, e)
GrowingStack(st, c, s, t, r) ==
  \E m \in Nat : \E e : /\ st = StackOf(c, s, m, e) /\ Growing(c, t, m, e)
                        /\ Descends(st) => m <= r

LEMMA GrowingDescends ==
  ASSUME NEW n \in Nat, NEW c \in [0..n -> Int], NEW s \in [1..n -> Measures], NEW t \in Nat, t < n,
         NEW m \in Nat, NEW e, Growing(c, t, m, e), NEW st, st = StackOf(c, s, m, e), Descends(st)
  PROVE  \E k \in Nat : m = k + 1 /\ \E g : Pooled(st) = StackOf(c, s, k, g) /\ Growing(c, t, k, g)
<1>1. PICK b \in 0..n : b = t + 1
  OBVIOUS
<1>2. Ends(e, b, m)
  BY <1>1 DEF Growing
<1>3. m > 1
  BY <1>2, StackDescends
<1>4. PICK k \in Nat, j \in Nat : m = k + 1 /\ k = j + 1
  <2>1. m - 1 \in Nat /\ m - 2 \in Nat /\ m = (m - 1) + 1 /\ m - 1 = (m - 2) + 1
    BY <1>3
  <2> QED BY <2>1
<1>5. Bends(c, e[j], e[k], e[m])
  <2>1. st = StackOf(c, s, m, e) /\ Ends(e, b, m) /\ m = k + 1 /\ k = j + 1
    BY <1>2, <1>4
  <2>2. Descends(st) <=> Bends(c, e[j], e[k], e[m])
    BY <2>1, StackBends
  <2> QED BY <2>2
<1>6. PICK g : g = MovedTo(e, k, b)
  OBVIOUS
<1>7. Growing(c, t, k, g)
  BY <1>1, <1>4, <1>5, <1>6, GrowingPools
<1>8. Pooled(st) = StackOf(c, s, k, g)
  <2>1. st = StackOf(c, s, m, e) /\ Ends(e, b, m) /\ m = k + 1 /\ k > 0 /\ g = MovedTo(e, k, b)
    BY <1>2, <1>4, <1>6
  <2>2. PoolsTo(st, c, s, k, g)
    BY <2>1, StackPools
  <2> QED BY <2>2 DEF PoolsTo
<1> QED BY <1>4, <1>7, <1>8

LEMMA PoolStepGrows ==
  ASSUME NEW n \in Nat, NEW c \in [0..n -> Int], NEW s \in [1..n -> Measures], NEW t \in Nat, t < n,
         NEW r \in Nat, NEW q \in Nat, r = q + 1, NEW st, GrowingStack(st, c, s, t, r)
  PROVE  GrowingStack(PoolStep(st), c, s, t, q)
<1>1. PICK m \in Nat : \E e : /\ st = StackOf(c, s, m, e) /\ Growing(c, t, m, e)
                              /\ Descends(st) => m <= r
  BY DEF GrowingStack
<1>2. PICK e : /\ st = StackOf(c, s, m, e) /\ Growing(c, t, m, e)
               /\ Descends(st) => m <= r
  BY <1>1
<1>3. CASE ~ Descends(st)
  BY <1>2, <1>3 DEF PoolStep, GrowingStack
<1>4. CASE Descends(st)
  <2>1. PICK k \in Nat : m = k + 1 /\ \E g : Pooled(st) = StackOf(c, s, k, g) /\ Growing(c, t, k, g)
    BY <1>2, <1>4, GrowingDescends
  <2>2. PICK g : Pooled(st) = StackOf(c, s, k, g) /\ Growing(c, t, k, g)
    BY <2>1
  <2>3. k <= q
    BY <1>2, <1>4, <2>1
  <2> QED BY <1>4, <2>2, <2>3 DEF PoolStep, GrowingStack
<1> QED BY <1>3, <1>4

LEMMA PoolStops ==
  ASSUME NEW n \in Nat, NEW c \in [0..n -> Int], NEW s \in [1..n -> Measures], NEW t \in Nat, t < n,
         NEW st, GrowingStack(st, c, s, t, 0)
  PROVE  HullStack(st, c, s, t + 1)
<1>1. PICK m \in Nat : \E e : /\ st = StackOf(c, s, m, e) /\ Growing(c, t, m, e)
                              /\ Descends(st) => m <= 0
  BY DEF GrowingStack
<1>2. PICK e : /\ st = StackOf(c, s, m, e) /\ Growing(c, t, m, e)
               /\ Descends(st) => m <= 0
  BY <1>1
<1>3. PICK b \in 0..n : b = t + 1
  OBVIOUS
<1>4. Ends(e, b, m) /\ m > 0
  BY <1>2, <1>3 DEF Growing
<1>5. ~ Descends(st)
  BY <1>2, <1>4
<1>6. CASE m = 1
  BY <1>2, <1>6, GrowingAlone DEF HullStack
<1>7. CASE m # 1
  <2>1. PICK k \in Nat, j \in Nat : m = k + 1 /\ k = j + 1
    <3>1. m - 1 \in Nat /\ m - 2 \in Nat /\ m = (m - 1) + 1 /\ m - 1 = (m - 2) + 1
      BY <1>4, <1>7
    <3> QED BY <3>1
  <2>2. ~ Bends(c, e[j], e[k], e[m])
    <3>1. st = StackOf(c, s, m, e) /\ b \in 0..n /\ Ends(e, b, m) /\ m = k + 1 /\ k = j + 1
      BY <1>2, <1>3, <1>4, <2>1
    <3>2. Descends(st) <=> Bends(c, e[j], e[k], e[m])
      BY <3>1, StackBends, SMTT(30)
    <3> QED BY <1>5, <3>2
  <2>3. Hull(c, t + 1, m, e)
    BY <1>2, <2>1, <2>2, GrowingStops
  <2> QED BY <1>2, <2>3 DEF HullStack
<1> QED BY <1>6, <1>7

\* What is pooled until it no longer descends is the stack of a hull.
LEMMA PoolTopHull ==
  ASSUME NEW n \in Nat, NEW c \in [0..n -> Int], NEW s \in [1..n -> Measures], NEW t \in Nat, t < n,
         NEW m \in Nat, NEW e, Growing(c, t, m, e), NEW st, st = StackOf(c, s, m, e)
  PROVE  HullStack(PoolTop(st), c, s, t + 1)
<1>1. st \in Stacks /\ Len(st) = m
  <2>1. PICK b \in 0..n : b = t + 1
    OBVIOUS
  <2>2. Ends(e, b, m)
    BY <2>1 DEF Growing
  <2>3. Stacked(st, c, s, m, e)
    BY <2>2, StackIs
  <2> QED BY <2>3 DEF Stacked
<1>2. PICK f \in [0..m -> Stacks] : /\ f[0] = st /\ PoolTop(st) = f[m]
                                   /\ \A k \in 1..m : f[k] = PoolStep(f[k - 1])
  BY <1>1, PoolTopIs
<1> DEFINE J == {k \in 0..m : GrowingStack(f[k], c, s, t, m - k)}
<1>3. 0 \in J
  <2>1. GrowingStack(st, c, s, t, m)
    <3>1. st = StackOf(c, s, m, e) /\ Growing(c, t, m, e) /\ m <= m
      OBVIOUS
    <3> QED BY <3>1 DEF GrowingStack
  <2>2. m - 0 = m /\ 0 \in 0..m
    OBVIOUS
  <2> QED BY <1>2, <2>1, <2>2
<1>4. ASSUME NEW k \in 1..m, k - 1 \in J PROVE k \in J
  <2>1. PICK r \in Nat, q \in Nat : r = m - (k - 1) /\ q = m - k /\ r = q + 1
    OBVIOUS
  <2>2. GrowingStack(f[k - 1], c, s, t, r)
    BY <1>4, <2>1
  <2>3. GrowingStack(PoolStep(f[k - 1]), c, s, t, q)
    <3> HIDE DEF J
    <3>1. PICK u : u = f[k - 1]
      OBVIOUS
    <3> QED BY <2>1, <2>2, <3>1, PoolStepGrows
  <2>4. k \in 0..m
    OBVIOUS
  <2> QED BY <1>2, <2>1, <2>3, <2>4
<1>5. m \in J
  <2>1. J \in SUBSET (0..m)
    OBVIOUS
  <2> HIDE DEF J
  <2>2. J = 0..m
    BY <1>3, <1>4, <2>1, StepsKeep
  <2> QED BY <2>2
<1>6. GrowingStack(f[m], c, s, t, 0)
  <2>1. m - m = 0
    OBVIOUS
  <2> QED BY <1>5, <2>1
<1> HIDE DEF J
<1> QED BY <1>2, <1>6, PoolStops

\* The block of the next point.
PointBlock(s, k) == [y |-> s[k].y, n |-> 1, x |-> s[k].p]

LEMMA BlocksAre ==
  ASSUME NEW n \in Nat, NEW s \in [1..n -> Measures], Len(s) = n
  PROVE  /\ Blocks(s)[0] = <<>>
         /\ \A k \in 1..n : Blocks(s)[k] = PoolTop(Append(Blocks(s)[k - 1], PointBlock(s, k)))
<1>1. PICK S : S = Stacks
  OBVIOUS
<1>2. PICK g : g = [k \in 1..n |-> [x \in S |-> PoolTop(Append(x, PointBlock(s, k)))]]
  OBVIOUS
<1>3. ASSUME NEW x \in Stacks, NEW k \in 1..n PROVE PoolTop(Append(x, PointBlock(s, k))) \in Stacks
  <2>1. PointBlock(s, k) \in [y : Int, n : Int, x : Int]
    BY DEF PointBlock, Measures
  <2>2. PICK st : st = Append(x, PointBlock(s, k))
    OBVIOUS
  <2>3. st \in Stacks /\ Len(st) \in Nat
    BY <2>1, <2>2 DEF Stacks
  <2>4. PICK m \in Nat : m = Len(st)
    BY <2>3
  <2>5. PICK f \in [0..m -> Stacks] : PoolTop(st) = f[m]
    BY <2>3, <2>4, PoolTopIs
  <2>6. m \in 0..m
    OBVIOUS
  <2> QED BY <2>2, <2>5, <2>6
<1>4. g \in [1..n -> [S -> S]] /\ <<>> \in S
  <2>1. g \in [1..n -> [S -> S]]
    BY <1>1, <1>2, <1>3
  <2>2. <<>> \in Stacks
    BY DEF Stacks
  <2> QED BY <1>1, <2>1, <2>2
<1>5. PICK f \in [0..n -> S] : Follows(f, n, <<>>, g)
  BY <1>4, StepsExist
<1> DEFINE P(h) == h = [k \in 0..Len(s) |->
                          IF k = 0 THEN <<>>
                          ELSE PoolTop(Append(h[k - 1], [y |-> s[k].y, n |-> 1, x |-> s[k].p]))]
<1>6. PICK h : h = CHOOSE q : P(q)
  OBVIOUS
<1>7. Blocks(s) = h
  BY <1>6 DEF Blocks
<1>8. P(f)
  <2>1. ASSUME NEW k \in 0..n PROVE f[k] = IF k = 0 THEN <<>> ELSE PoolTop(Append(f[k - 1], PointBlock(s, k)))
    <3>1. f[k] = IF k = 0 THEN <<>> ELSE g[k][f[k - 1]]
      BY <1>5 DEF Follows
    <3>2. k # 0 => k \in 1..n /\ f[k - 1] \in S
      BY <1>5
    <3>3. k # 0 => g[k][f[k - 1]] = PoolTop(Append(f[k - 1], PointBlock(s, k)))
      BY <1>2, <3>2
    <3> QED BY <3>1, <3>3
  <2>2. f = [k \in 0..n |-> IF k = 0 THEN <<>> ELSE PoolTop(Append(f[k - 1], PointBlock(s, k)))]
    BY <1>5, <2>1
  <2> QED BY <2>2 DEF PointBlock
<1>9. P(h)
  <2> HIDE DEF P
  <2> QED BY <1>6, <1>8
<1>10. h = [k \in 0..n |-> IF k = 0 THEN <<>> ELSE PoolTop(Append(h[k - 1], PointBlock(s, k)))]
  BY <1>9 DEF PointBlock
<1> HIDE DEF P
<1>11. \A k \in 0..n : h[k] = IF k = 0 THEN <<>> ELSE PoolTop(Append(h[k - 1], PointBlock(s, k)))
  BY <1>10
<1>12. 0 \in 0..n /\ \A k \in 1..n : k \in 0..n /\ k # 0
  OBVIOUS
<1> QED BY <1>7, <1>11, <1>12

\* The blocks of the first k points are the stretches of a hull.
LEMMA BlocksOfHull ==
  ASSUME NEW n \in Nat, NEW c, NEW s \in [1..n -> Measures], Len(s) = n, SumsOf(c, n, s)
  PROVE  HullStack(Blocks(s)[n], c, s, n)
<1> DEFINE J == {k \in 0..n : HullStack(Blocks(s)[k], c, s, k)}
<1>1. c \in [0..n -> Int]
  BY DEF SumsOf
<1>2. 0 \in J
  <2>1. PICK e : e = [l \in 0..0 |-> 0]
    OBVIOUS
  <2>2. Hull(c, 0, 0, e)
    BY <2>1, HullStarts
  <2>3. Blocks(s)[0] = <<>>
    BY BlocksAre
  <2>4. StackOf(c, s, 0, e) = <<>>
    BY DEF StackOf
  <2>5. HullStack(Blocks(s)[0], c, s, 0)
    BY <2>2, <2>3, <2>4 DEF HullStack
  <2> QED BY <2>5
<1>3. ASSUME NEW k \in 1..n, k - 1 \in J PROVE k \in J
  <2>1. PICK t \in Nat : t = k - 1 /\ k = t + 1 /\ t < n
    OBVIOUS
  <2>2. HullStack(Blocks(s)[t], c, s, t)
    BY <1>3, <2>1
  <2> HIDE DEF J
  <2>3. PICK m \in Nat : \E e : Blocks(s)[t] = StackOf(c, s, m, e) /\ Hull(c, t, m, e)
    BY <2>2 DEF HullStack
  <2>4. PICK e : Blocks(s)[t] = StackOf(c, s, m, e) /\ Hull(c, t, m, e)
    BY <2>3
  <2>5. PICK l \in Nat : l = m + 1
    OBVIOUS
  <2>6. PICK g : g = MovedTo(e, l, t + 1)
    OBVIOUS
  <2>7. Growing(c, t, l, g)
    BY <2>4, <2>5, <2>6, HullGrows
  <2>8. PICK u : u = PointBlock(s, t + 1)
    OBVIOUS
  <2>9. Append(StackOf(c, s, m, e), u) = StackOf(c, s, l, g)
    <3>1. u = [y |-> s[t + 1].y, n |-> 1, x |-> s[t + 1].p]
      BY <2>8 DEF PointBlock
    <3>2. Ends(e, t, m)
      BY <2>4 DEF Hull
    <3> QED BY <2>1, <2>5, <2>6, <3>1, <3>2, StackAppends
  <2>10. PICK st : st = StackOf(c, s, l, g)
    OBVIOUS
  <2>11. HullStack(PoolTop(st), c, s, t + 1)
    BY <1>1, <2>1, <2>7, <2>10, PoolTopHull
  <2>12. Blocks(s)[k] = PoolTop(st)
    <3>1. Blocks(s)[k] = PoolTop(Append(Blocks(s)[k - 1], PointBlock(s, k)))
      BY BlocksAre
    <3> QED BY <2>1, <2>4, <2>8, <2>9, <2>10, <3>1
  <2>13. HullStack(Blocks(s)[k], c, s, k)
    BY <2>1, <2>11, <2>12
  <2> QED BY <2>13 DEF J
<1>4. n \in J
  <2>1. J \in SUBSET (0..n)
    OBVIOUS
  <2> HIDE DEF J
  <2>2. J = 0..n
    BY <1>2, <1>3, <2>1, StepsKeep
  <2> QED BY <2>2
<1> QED BY <1>4

\* The sums turn at the ends of a hull and nowhere else.
EndsIn(T, e, m) == T = {e[l] : l \in 1..m}

LEMMA HullEndsAre ==
  ASSUME NEW n \in Nat, NEW c \in [0..n -> Int], NEW m \in Nat, NEW e, Hull(c, n, m, e)
  PROVE  EndsIn({i \in 1..n : Turns(c, n, i)}, e, m)
<1>1. /\ Ends(e, n, m) /\ \A l \in 1..m : Turns(c, n, e[l]) /\ Flat(c, e[l - 1], e[l])
  BY DEF Hull
<1>2. /\ \A l \in 0..m : e[l] \in 0..n
      /\ \A l \in 1..m : e[l - 1] < e[l]
  BY <1>1, EndsRise DEF Ends
<1>3. ASSUME NEW l \in 1..m PROVE e[l] \in 1..n /\ e[l - 1] \in 0..n
  <2>1. l \in 0..m /\ l - 1 \in 0..m
    OBVIOUS
  <2>2. e[l] \in 0..n /\ e[l - 1] \in 0..n /\ e[l - 1] < e[l]
    BY <1>2, <2>1
  <2> QED BY <2>2
<1>4. ASSUME NEW i \in 1..n, Turns(c, n, i) PROVE \E l \in 1..m : i = e[l]
  <2>1. PICK l \in 1..m : e[l - 1] < i /\ i <= e[l]
    BY <1>1, EndsCover
  <2>2. CASE i = e[l]
    BY <2>2
  <2>3. CASE i # e[l]
    <3>1. PICK a \in 0..n, b \in 1..n : a = e[l - 1] /\ b = e[l]
      BY <1>3
    <3>2. a < i /\ i < b
      BY <2>1, <2>3, <3>1
    <3>3. i \in (a + 1)..(b - 1) /\ a \in 0..(i - 1) /\ b \in (i + 1)..n
      BY <3>2
    <3>4. Flat(c, a, b)
      BY <1>1, <3>1
    <3>5. Bends(c, a, i, b)
      BY <3>3, <3>4 DEF Flat
    <3>6. ~ Bends(c, a, i, b)
      BY <1>4, <3>3 DEF Turns
    <3> QED BY <3>5, <3>6
  <2> QED BY <2>2, <2>3
<1> QED BY <1>1, <1>3, <1>4 DEF EndsIn

\* Each begins where the one before ends.
BeginsAt(T, x) == Max({0} \cup {k \in T : k < x})

LEMMA HullBegins ==
  ASSUME NEW n \in Nat, NEW m \in Nat, NEW e, Ends(e, n, m), NEW l \in 1..m, NEW T, EndsIn(T, e, m)
  PROVE  BeginsAt(T, e[l]) = e[l - 1]
<1> USE DEF EndsIn
<1>1. /\ \A k \in 0..m : e[k] \in 0..n
      /\ \A i, k \in 0..m : i < k => e[i] < e[k]
  BY EndsRise
<1>2. e[0] = 0
  BY DEF Ends
<1>3. l \in 0..m /\ l - 1 \in 0..m /\ l - 1 < l
  OBVIOUS
<1>4. PICK S : S = {0} \cup {k \in T : k < e[l]}
  OBVIOUS
<1>5. e[l - 1] \in S /\ e[l - 1] \in Int
  <2>1. e[l - 1] \in 0..n /\ e[l - 1] < e[l]
    BY <1>1, <1>3
  <2>2. CASE l = 1
    BY <1>2, <1>4, <2>1, <2>2
  <2>3. CASE l # 1
    <3>1. l - 1 \in 1..m
      BY <2>3
    <3> QED BY <1>4, <2>1, <3>1
  <2> QED BY <2>2, <2>3
<1>6. ASSUME NEW x \in S PROVE x <= e[l - 1] /\ x \in Int
  <2>1. CASE x = 0
    <3>1. e[l - 1] \in 0..n
      BY <1>1, <1>3
    <3> QED BY <2>1, <3>1
  <2>2. CASE x # 0
    <3>1. PICK k \in 1..m : x = e[k] /\ e[k] < e[l]
      BY <1>4, <2>2
    <3>2. k \in 0..m /\ e[k] \in 0..n /\ e[l - 1] \in 0..n /\ e[l] \in 0..n
      BY <1>1, <1>3
    <3>3. ~ (l < k) /\ k # l
      BY <1>1, <1>3, <3>1, <3>2
    <3>4. k <= l - 1
      BY <3>3
    <3>5. k = l - 1 \/ k < l - 1
      BY <3>4
    <3>6. k < l - 1 => e[k] < e[l - 1]
      BY <1>1, <1>3, <3>2
    <3> QED BY <3>1, <3>2, <3>5, <3>6
  <2> QED BY <2>1, <2>2
<1>7. \A x : x \in S /\ (\A y \in S : x >= y) => x = e[l - 1]
  BY <1>5, <1>6
<1>8. Max(S) \in S /\ \A y \in S : Max(S) >= y
  <2>1. \E x \in S : \A y \in S : x >= y
    BY <1>5, <1>6
  <2>2. Max(S) = CHOOSE x \in S : \A y \in S : x >= y
    BY DEF Max
  <2> QED BY <2>1, <2>2
<1> QED BY <1>4, <1>7, <1>8 DEF BeginsAt

\* Points in the order of their probability.
Sorted(s, n) ==
  /\ s \in [1..n -> Measures] /\ Len(s) = n /\ DOMAIN s = 1..n
  /\ \A i, k \in 1..n : i <= k => s[i].p <= s[k].p

\* The points, of indices D, that come before one, and all of them in that order.
AheadOf(points, D, i) ==
  {k \in D : points[k].p < points[i].p \/ (points[k].p = points[i].p /\ k < i)}
InTurn(points, D) ==
  [n \in D |-> points[CHOOSE i \in D : Cardinality(AheadOf(points, D, i)) = n - 1]]

LEMMA SortedByProbability ==
  ASSUME NEW n \in Nat, NEW points \in [1..n -> Measures]
  PROVE  Sorted(ByProbability(points), n)
<1>1. PICK T : T = 1..n
  OBVIOUS
<1>2. PICK before : before = {x \in T \X T : \/ points[x[1]].p < points[x[2]].p
                                             \/ points[x[1]].p = points[x[2]].p /\ x[1] < x[2]}
  OBVIOUS
<1>3. \A i, k \in T : <<i, k>> \in before <=> \/ points[i].p < points[k].p
                                              \/ points[i].p = points[k].p /\ i < k
  BY <1>2
<1>4. \A i \in T : points[i].p \in Int /\ i \in Int /\ points[i] \in Measures
  BY <1>1 DEF Measures
<1>5. OrdersAll(before, T)
  <2>1. PICK p : p = [i \in T |-> points[i].p]
    OBVIOUS
  <2>2. \A i \in T : p[i] \in Int /\ i \in Int
    BY <1>4, <2>1
  <2>3. \A i, k \in T : <<i, k>> \in before <=> p[i] < p[k] \/ (p[i] = p[k] /\ i < k)
    BY <1>3, <2>1
  <2>4. ASSUME NEW i \in T, NEW k \in T, i # k PROVE <<i, k>> \in before \/ <<k, i>> \in before
    BY <2>2, <2>3, <2>4
  <2>5. ASSUME NEW i \in T PROVE <<i, i>> \notin before
    BY <2>2, <2>3
  <2>6. ASSUME NEW i \in T, NEW k \in T, NEW l \in T, <<i, k>> \in before, <<k, l>> \in before
        PROVE  <<i, l>> \in before
    BY <2>2, <2>3, <2>6
  <2> QED BY <2>4, <2>5, <2>6 DEF OrdersAll
<1>6. IsFiniteSet(T) /\ Cardinality(T) = n
  <2>1. 1 \in Int /\ n \in Int
    OBVIOUS
  <2>2. IsFiniteSet(1..n) /\ Cardinality(1..n) = IF 1 > n THEN 0 ELSE n - 1 + 1
    BY <2>1, FS_Interval
  <2> QED BY <1>1, <2>2
<1>7. PICK r : r = ByRank(T, before)
  OBVIOUS
<1>8. Arranged(r, n, T, before)
  <2>1. Arranged(ByRank(T, before), Cardinality(T), T, before)
    BY <1>5, <1>6, RankArranges
  <2> QED BY <1>6, <1>7, <2>1
<1>9. PICK s : s = [k \in 1..n |-> points[r[k]]]
  OBVIOUS
<1>10. ByProbability(points) = s
  <2>1. DOMAIN points = T
    BY <1>1
  <2>2. ByProbability(points) = InTurn(points, DOMAIN points)
    BY DEF ByProbability, InTurn, AheadOf
  <2>3. \A i \in T : AheadOf(points, T, i) = {l \in T : <<l, i>> \in before}
    BY <1>3 DEF AheadOf
  <2>4. \A k : (CHOOSE i \in T : Cardinality(AheadOf(points, T, i)) = k - 1)
                 = CHOOSE i \in T : Cardinality({l \in T : <<l, i>> \in before}) = k - 1
    BY <2>3
  <2>5. r = [k \in 1..n |-> CHOOSE i \in T : Cardinality({l \in T : <<l, i>> \in before}) = k - 1]
    BY <1>6, <1>7, Zenon DEF ByRank
  <2>6. \A k \in 1..n : r[k] = CHOOSE i \in T : Cardinality(AheadOf(points, T, i)) = k - 1
    BY <2>4, <2>5, Zenon
  <2>7. InTurn(points, T) = [k \in 1..n |-> points[CHOOSE i \in T : Cardinality(AheadOf(points, T, i)) = k - 1]]
    BY <1>1, Zenon DEF InTurn
  <2>8. InTurn(points, T) = s
    BY <1>9, <2>6, <2>7, Zenon
  <2> QED BY <2>1, <2>2, <2>8
<1>11. r \in [1..n -> T] /\ \A i, k \in 1..n : i < k => <<r[i], r[k]>> \in before
  BY <1>8 DEF Arranged
<1>12. s \in [1..n -> Measures]
  BY <1>4, <1>9, <1>11
<1>13. ASSUME NEW i \in 1..n, NEW k \in 1..n, i <= k PROVE s[i].p <= s[k].p
  <2>1. r[i] \in T /\ r[k] \in T /\ s[i] = points[r[i]] /\ s[k] = points[r[k]]
    BY <1>9, <1>11
  <2>2. CASE i = k
    <3>1. s[i].p \in Int
      BY <1>4, <2>1
    <3> QED BY <2>2, <3>1
  <2>3. CASE i # k
    <3>1. i < k
      BY <1>13, <2>3
    <3>2. <<r[i], r[k]>> \in before
      BY <1>11, <3>1
    <3>3. points[r[i]].p \in Int /\ points[r[k]].p \in Int
      BY <1>4, <2>1
    <3>4. points[r[i]].p < points[r[k]].p \/ points[r[i]].p = points[r[k]].p
      BY <1>3, <2>1, <3>2
    <3> QED BY <2>1, <3>3, <3>4
  <2> QED BY <2>2, <2>3
<1>14. Len(s) = n /\ DOMAIN s = 1..n
  BY <1>12, SequenceOf
<1> QED BY <1>10, <1>12, <1>13, <1>14 DEF Sorted

\* The value of a stretch of points, and the steps of all the stretches.
StepOf(c, s, a, b) == [x |-> s[b].p, y |-> (c[b] - c[a]) \div (b - a)]

\* The steps of sums c of the points s, of indices D, of which there are n.
EndsOf(c, D, n) ==
  {i \in D : \A j \in 0..(i - 1), k \in (i + 1)..n : (c[i] - c[j]) * (k - i) < (c[k] - c[i]) * (i - j)}
StepsOf(s, c, D, n) ==
  {[x |-> s[i].p, y |-> (c[i] - c[BeginsAt(EndsOf(c, D, n), i)]) \div (i - BeginsAt(EndsOf(c, D, n), i))] :
     i \in EndsOf(c, D, n)}

SummedUp(c, n, s) == c = Sums([i \in 1..n |-> s[i].y])
TakesSteps(points, g, m) == Regression(points) = {g[l] : l \in 1..m}

\* The regression of some points takes a step at each end of their hull.
LEMMA RegressionIs ==
  ASSUME NEW n \in Nat, NEW points \in [1..n -> Measures], NEW s, s = ByProbability(points),
         NEW c, SummedUp(c, n, s), SumsOf(c, n, s), NEW m \in Nat, NEW e, Hull(c, n, m, e),
         NEW g, g = [l \in 1..m |-> StepOf(c, s, e[l - 1], e[l])]
  PROVE  TakesSteps(points, g, m)
<1>1. Sorted(s, n)
  BY SortedByProbability
<1>2. DOMAIN s = 1..n /\ Len(s) = n /\ c \in [0..n -> Int]
  BY <1>1 DEF Sorted, SumsOf
<1>3. Regression(points) = StepsOf(s, c, 1..n, n)
  <2>1. Regression(points) = StepsOf(ByProbability(points),
           Sums([i \in DOMAIN ByProbability(points) |-> ByProbability(points)[i].y]),
           DOMAIN ByProbability(points), Len(ByProbability(points)))
    BY DEF Regression, StepsOf, EndsOf, BeginsAt
  <2>2. c = Sums([i \in DOMAIN ByProbability(points) |-> ByProbability(points)[i].y])
    BY <1>2 DEF SummedUp
  <2> QED BY <1>2, <2>1, <2>2
<1>4. EndsOf(c, 1..n, n) = {i \in 1..n : Turns(c, n, i)}
  <2>1. ASSUME NEW i \in 1..n, NEW j \in 0..(i - 1), NEW k \in (i + 1)..n
        PROVE  (c[i] - c[j]) * (k - i) < (c[k] - c[i]) * (i - j) <=> ~ Bends(c, j, i, k)
    <3>1. j \in 0..n /\ i \in 0..n /\ k \in 0..n /\ j < i /\ i < k
      OBVIOUS
    <3> QED BY <1>2, <3>1, BendsIs
  <2>2. ASSUME NEW i \in 1..n
        PROVE  (\A j \in 0..(i - 1), k \in (i + 1)..n : (c[i] - c[j]) * (k - i) < (c[k] - c[i]) * (i - j))
                  <=> Turns(c, n, i)
    BY <2>1 DEF Turns
  <2> QED BY <2>2 DEF EndsOf
<1>5. PICK T : T = {e[l] : l \in 1..m}
  OBVIOUS
<1>6. EndsOf(c, 1..n, n) = T
  <2>1. EndsIn({i \in 1..n : Turns(c, n, i)}, e, m)
    BY <1>2, HullEndsAre
  <2> QED BY <1>4, <1>5, <2>1 DEF EndsIn
<1>7. Ends(e, n, m)
  BY DEF Hull
<1>8. ASSUME NEW l \in 1..m PROVE BeginsAt(T, e[l]) = e[l - 1]
  <2>1. EndsIn(T, e, m)
    BY <1>5 DEF EndsIn
  <2> QED BY <1>7, <2>1, HullBegins
<1>9. StepsOf(s, c, 1..n, n) = {[x |-> s[i].p, y |-> (c[i] - c[BeginsAt(T, i)]) \div (i - BeginsAt(T, i))] : i \in T}
  BY <1>6 DEF StepsOf
<1>10. ASSUME NEW i \in T, NEW l \in 1..m, i = e[l]
       PROVE  [x |-> s[i].p, y |-> (c[i] - c[BeginsAt(T, i)]) \div (i - BeginsAt(T, i))] = StepOf(c, s, e[l - 1], e[l])
  BY <1>8, <1>10, Zenon DEF StepOf
<1>11. \A i \in T : \E l \in 1..m : i = e[l]
  BY <1>5
<1>12. \A l \in 1..m : e[l] \in T
  BY <1>5
<1>13. PICK f : f = [i \in T |-> [x |-> s[i].p, y |-> (c[i] - c[BeginsAt(T, i)]) \div (i - BeginsAt(T, i))]]
  OBVIOUS
<1>15. StepsOf(s, c, 1..n, n) = {f[i] : i \in T}
  BY <1>9, <1>13
<1>16. \A i \in T, l \in 1..m : i = e[l] => f[i] = g[l]
  BY <1>10, <1>13
<1>17. {f[i] : i \in T} = {g[l] : l \in 1..m}
  <2>1. PICK F, G : F = {f[i] : i \in T} /\ G = {g[l] : l \in 1..m}
    OBVIOUS
  <2>2. ASSUME NEW x \in F PROVE x \in G
    <3>1. PICK i \in T : x = f[i]
      BY <2>1
    <3>2. PICK l \in 1..m : i = e[l]
      BY <1>11
    <3>3. x = g[l]
      BY <1>16, <3>1, <3>2
    <3> QED BY <2>1, <3>3
  <2>3. ASSUME NEW x \in G PROVE x \in F
    <3>1. PICK l \in 1..m : x = g[l]
      BY <2>1
    <3>2. e[l] \in T /\ f[e[l]] = g[l]
      BY <1>12, <1>16
    <3> QED BY <2>1, <3>1, <3>2
  <2>4. F = G
    BY <2>2, <2>3
  <2> QED BY <2>1, <2>4
<1> QED BY <1>3, <1>15, <1>17 DEF TakesSteps

LEMMA DivIs ==
  ASSUME NEW x \in Int, NEW p \in Nat, p > 0
  PROVE  x \div p \in Int /\ (x \div p) * p <= x /\ x < (x \div p) * p + p
BY Z3

LEMMA DivGrows ==
  ASSUME NEW x \in Int, NEW y \in Int, NEW p \in Nat, NEW q \in Nat, p > 0, q > 0, x * q <= y * p
  PROVE  x \div p <= y \div q
<1>1. PICK u \in Int, v \in Int : u = x \div p /\ v = y \div q /\ u * p <= x /\ y < v * q + q
  BY DivIs
<1> SUFFICES ASSUME v + 1 <= u PROVE FALSE
  BY <1>1
<1>2. (u * p) * q <= x * q
  <2>1. u * p \in Int
    BY TimesTurns
  <2> QED BY <1>1, <2>1, TimesGrows
<1>3. y * p < (v * q + q) * p
  <2>1. v * q + q \in Int
    <3>1. v * q \in Int
      BY TimesTurns
    <3> QED BY <3>1
  <2> QED BY <1>1, <2>1, TimesGrows
<1>4. PICK w \in Int : w = v + 1
  OBVIOUS
<1>5. (w * p) * q <= (u * p) * q
  <2>1. w * p <= u * p /\ w * p \in Int /\ u * p \in Int
    BY <1>4, TimesGrows, TimesTurns
  <2> QED BY <2>1, TimesGrows
<1>6. (w * p) * q = (v * q + q) * p
  <2>1. w * q = v * q + q
    <3>1. w * q = v * q + 1 * q
      BY <1>4, TimesTurns
    <3> QED BY <3>1
  <2>2. (w * p) * q = (w * q) * p
    BY TimesTurns
  <2> QED BY <2>1, <2>2
<1>7. /\ (u * p) * q \in Int /\ (w * p) * q \in Int /\ x * q \in Int /\ y * p \in Int
      /\ (v * q + q) * p \in Int
  <2>1. u * p \in Int /\ w * p \in Int /\ v * q \in Int
    BY TimesTurns
  <2>2. v * q + q \in Int
    BY <2>1
  <2> QED BY <2>1, <2>2, TimesTurns
<1> QED BY <1>2, <1>3, <1>5, <1>6, <1>7

-----------------------------------------------------------------------------
(* The isotonic map.                                                        *)

\* Knots that ascend, m of them.
Ascends(knots, m) ==
  /\ knots \in [1..m -> [x : Int, y : Int]] /\ Len(knots) = m /\ DOMAIN knots = 1..m
  /\ \A i, k \in 1..m : i <= k => knots[i].x <= knots[k].x /\ knots[i].y <= knots[k].y

\* Those of the steps of a regression.
KnotsAre(knots, points) == {knots[i] : i \in DOMAIN knots} = Regression(points)

LEMMA StepsAscend ==
  ASSUME NEW n \in Nat, NEW c \in [0..n -> Int], NEW s, Sorted(s, n), NEW m \in Nat, NEW e, Hull(c, n, m, e),
         NEW f, f = [l \in 1..m |-> StepOf(c, s, e[l - 1], e[l])]
  PROVE  Ascends(f, m)
<1>1. /\ Ends(e, n, m) /\ \A l \in 1..m : Turns(c, n, e[l])
      /\ s \in [1..n -> Measures] /\ \A i, k \in 1..n : i <= k => s[i].p <= s[k].p
  BY DEF Hull, Sorted
<1>2. /\ \A l \in 0..m : e[l] \in 0..n
      /\ \A i, k \in 0..m : i < k => e[i] < e[k]
  BY <1>1, EndsRise
<1>3. ASSUME NEW l \in 1..m
      PROVE  /\ e[l] \in 1..n /\ e[l - 1] \in 0..n /\ e[l] \in 0..n /\ e[l - 1] < e[l]
             /\ f[l].x = s[e[l]].p /\ f[l].y = (c[e[l]] - c[e[l - 1]]) \div (e[l] - e[l - 1])
             /\ f[l].x \in Int /\ f[l].y \in Int /\ f[l] \in [x : Int, y : Int]
  <2>1. l \in 0..m /\ l - 1 \in 0..m /\ l - 1 < l
    OBVIOUS
  <2>2. e[l] \in 0..n /\ e[l - 1] \in 0..n /\ e[l - 1] < e[l]
    BY <1>2, <2>1
  <2>3. PICK a \in 0..n, b \in 1..n : a = e[l - 1] /\ b = e[l] /\ a < b
    BY <2>2
  <2>4. f[l] = StepOf(c, s, a, b)
    BY <2>3
  <2>5. f[l] = [x |-> s[b].p, y |-> (c[b] - c[a]) \div (b - a)]
    BY <2>4 DEF StepOf
  <2>6. s[b].p \in Int /\ (c[b] - c[a]) \div (b - a) \in Int
    <3>1. s[b].p \in Int
      BY <1>1 DEF Measures
    <3>4. a < b /\ c[a] \in Int /\ c[b] \in Int
      <4>1. a \in 0..n /\ b \in 0..n
        OBVIOUS
      <4> QED BY <2>3, <4>1
    <3>5. c[b] - c[a] \in Int /\ b - a \in Nat /\ b - a > 0
      BY <3>4
    <3>2. PICK x \in Int, d \in Nat : x = c[b] - c[a] /\ d = b - a /\ d > 0
      BY <3>5
    <3>3. x \div d \in Int
      BY <3>2, DivIs
    <3> QED BY <3>1, <3>2, <3>3
  <2>7. f[l].x = s[b].p /\ f[l].y = (c[b] - c[a]) \div (b - a) /\ f[l] \in [x : Int, y : Int]
    BY <2>5, <2>6
  <2>8. e[l] \in 1..n
    BY <2>3
  <2> QED BY <2>2, <2>3, <2>6, <2>7, <2>8
<1>4. f \in [1..m -> [x : Int, y : Int]]
  BY <1>3
<1>5. PICK R : R = [x : Int, y : Int]
  OBVIOUS
<1>6. Len(f) = m /\ DOMAIN f = 1..m
  <2>1. f \in [1..m -> R]
    BY <1>4, <1>5
  <2> QED BY <2>1, SequenceOf
<1>7. ASSUME NEW l \in 1..m, NEW k \in Nat, l = k + 1, k > 0 PROVE f[k].y <= f[l].y
  <2>1. k \in 1..m /\ k - 1 \in 0..m /\ l - 1 = k
    BY <1>7
  <2>2. /\ e[k - 1] \in 0..n /\ e[k] \in 0..n /\ e[l] \in 0..n /\ e[k - 1] < e[k] /\ e[k] < e[l]
    <3>1. /\ e[k - 1] \in 0..n /\ e[k] \in 0..n /\ e[k - 1] < e[k]
      BY <1>3, <2>1
    <3>2. e[l] \in 0..n /\ e[l - 1] < e[l]
      BY <1>3
    <3> QED BY <2>1, <3>1, <3>2
  <2>3. PICK a \in 0..n, d \in 0..n, b \in 0..n : a = e[k - 1] /\ d = e[k] /\ b = e[l] /\ a < d /\ d < b
    BY <2>2
  <2>4. Turns(c, n, d)
    BY <1>1, <2>1, <2>3
  <2>5. ~ Bends(c, a, d, b)
    <3>1. a \in 0..(d - 1) /\ b \in (d + 1)..n
      <4>1. a < d /\ d < b
        BY <2>3
      <4> QED BY <4>1
    <3> QED BY <2>4, <3>1 DEF Turns
  <2>6. (c[d] - c[a]) * (b - d) < (c[b] - c[d]) * (d - a)
    BY <2>3, <2>5, BendsIs
  <2>7. PICK x \in Int, y \in Int, p \in Nat, q \in Nat :
          x = c[d] - c[a] /\ y = c[b] - c[d] /\ p = d - a /\ q = b - d /\ p > 0 /\ q > 0
    <3>1. a < d /\ d < b
      BY <2>3
    <3>2. /\ c[d] - c[a] \in Int /\ c[b] - c[d] \in Int
          /\ d - a \in Nat /\ b - d \in Nat /\ d - a > 0 /\ b - d > 0
      BY <3>1
    <3> QED BY <3>2
  <2>8. x * q <= y * p
    <3>1. x * q < y * p
      BY <2>6, <2>7
    <3>2. x * q \in Int /\ y * p \in Int
      BY TimesTurns
    <3> QED BY <3>1, <3>2
  <2>9. x \div p <= y \div q
    BY <2>7, <2>8, DivGrows
  <2>10. f[k].y = x \div p
    <3>1. f[k].y = (c[e[k]] - c[e[k - 1]]) \div (e[k] - e[k - 1])
      BY <1>3, <2>1
    <3> QED BY <2>3, <2>7, <3>1
  <2>11. f[l].y = y \div q
    <3>1. f[l].y = (c[e[l]] - c[e[l - 1]]) \div (e[l] - e[l - 1])
      BY <1>3
    <3> QED BY <2>1, <2>3, <2>7, <3>1
  <2> QED BY <2>9, <2>10, <2>11
<1>8. ASSUME NEW i \in 1..m, NEW k \in 1..m, i <= k PROVE f[i].x <= f[k].x /\ f[i].y <= f[k].y
  <2>1. e[i] \in 1..n /\ e[k] \in 1..n /\ e[i] <= e[k]
    <3>1. i \in 0..m /\ k \in 0..m /\ e[i] \in 1..n /\ e[k] \in 1..n
      BY <1>3
    <3>2. i = k \/ i < k
      BY <1>8
    <3> QED BY <1>2, <3>1, <3>2
  <2>2. f[i].x <= f[k].x
    BY <1>1, <1>3, <2>1
  <2>3. PICK g : g = [l \in 0..m |-> IF l = 0 THEN f[1].y ELSE f[l].y]
    OBVIOUS
  <2>4. g \in [0..m -> Int]
    <3>1. \A l \in 0..m : l # 0 => f[l].y \in Int
      <4>1. \A l \in 1..m : f[l].y \in Int
        BY <1>3
      <4>2. \A l \in 0..m : l # 0 => l \in 1..m
        OBVIOUS
      <4> QED BY <4>1, <4>2
    <3>2. f[1].y \in Int
      BY <1>3
    <3> QED BY <2>3, <3>1, <3>2
  <2>5. ASSUME NEW l \in 1..m PROVE g[l - 1] <= g[l]
    <3>1. PICK h \in Nat : h = l - 1 /\ l = h + 1 /\ h \in 0..m /\ l \in 0..m /\ l # 0
      OBVIOUS
    <3>2. CASE h = 0
      <4>1. g[h] = f[1].y /\ g[l] = f[1].y /\ f[1].y \in Int
        BY <1>3, <2>3, <3>1, <3>2
      <4> QED BY <3>1, <4>1
    <3>3. CASE h # 0
      <4>1. g[h] = f[h].y /\ g[l] = f[l].y
        BY <2>3, <3>1, <3>3
      <4>2. f[h].y <= f[l].y
        <5>1. h > 0
          BY <3>3
        <5> QED BY <1>7, <3>1, <5>1
      <4> QED BY <3>1, <4>1, <4>2
    <3> QED BY <3>2, <3>3
  <2>6. i \in 0..m /\ k \in 0..m /\ i # 0 /\ k # 0
    OBVIOUS
  <2>7. g[i] <= g[k]
    BY <1>8, <2>4, <2>5, <2>6, GrowsThroughout
  <2> QED BY <2>2, <2>3, <2>6, <2>7
<1> QED BY <1>4, <1>6, <1>8 DEF Ascends

\* What fit_isotonic fits is the regression of its points, and ascends.
LEMMA FitIsTheRegression ==
  ASSUME NEW n \in Nat, n > 0, NEW points \in [1..n -> Measures], NEW knots, knots = FitIsotonic(points)
  PROVE  (\E m \in Nat : m > 0 /\ Ascends(knots, m)) /\ KnotsAre(knots, points)
<1>1. PICK s : s = ByProbability(points)
  OBVIOUS
<1>2. Sorted(s, n)
  BY <1>1, SortedByProbability
<1>3. s \in [1..n -> Measures] /\ Len(s) = n
  BY <1>2 DEF Sorted
<1>4. PICK numbers : numbers = [i \in 1..n |-> s[i].y]
  OBVIOUS
<1>5. numbers \in [1..n -> Int] /\ Len(numbers) = n
  <2>1. numbers \in [1..n -> Int]
    BY <1>3, <1>4 DEF Measures
  <2>2. PICK Z : Z = Int
    OBVIOUS
  <2>3. numbers \in [1..n -> Z]
    BY <2>1, <2>2
  <2> QED BY <2>1, <2>3, SequenceOf
<1>6. PICK c : c = Sums(numbers)
  OBVIOUS
<1>7. SumsOf(c, n, s) /\ c \in [0..n -> Int]
  <2>1. SumsOfAll(c, n, numbers)
    BY <1>5, <1>6, SumsAre
  <2> QED BY <1>4, <2>1 DEF SumsOf, SumsOfAll
<1>8. HullStack(Blocks(s)[n], c, s, n)
  BY <1>3, <1>7, BlocksOfHull
<1>9. PICK m \in Nat : \E e : Blocks(s)[n] = StackOf(c, s, m, e) /\ Hull(c, n, m, e)
  BY <1>8 DEF HullStack
<1>10. PICK e : Blocks(s)[n] = StackOf(c, s, m, e) /\ Hull(c, n, m, e)
  BY <1>9
<1>11. PICK blocks : blocks = Blocks(s)[n]
  OBVIOUS
<1>12. PICK f : f = [l \in 1..m |-> StepOf(c, s, e[l - 1], e[l])]
  OBVIOUS
<1>13. Stacked(blocks, c, s, m, e)
  <2>1. Ends(e, n, m) /\ n \in 0..n
    BY <1>10 DEF Hull
  <2> QED BY <1>3, <1>7, <1>10, <1>11, <2>1, StackIs
<1>14. DOMAIN blocks = 1..m /\ \A l \in 1..m : blocks[l] = BlockOf(c, s, e[l - 1], e[l])
  BY <1>13 DEF Stacked, Stacks
<1>15. knots = f
  <2>1. Len(points) = n
    BY SequenceOf
  <2>2. knots = [i \in DOMAIN blocks |-> [x |-> blocks[i].x, y |-> blocks[i].y \div blocks[i].n]]
    BY <1>1, <1>11, <2>1 DEF FitIsotonic
  <2>3. ASSUME NEW i \in 1..m
        PROVE  [x |-> blocks[i].x, y |-> blocks[i].y \div blocks[i].n] = StepOf(c, s, e[i - 1], e[i])
    <3>1. PICK q, a, b : q = blocks[i] /\ a = e[i - 1] /\ b = e[i]
      OBVIOUS
    <3>2. q.y = c[b] - c[a] /\ q.n = b - a /\ q.x = s[b].p
      BY <1>14, <3>1 DEF BlockOf
    <3>3. [x |-> q.x, y |-> q.y \div q.n] = StepOf(c, s, a, b)
      BY <3>2, Zenon DEF StepOf
    <3> QED BY <3>1, <3>3
  <2> QED BY <1>12, <1>14, <2>2, <2>3
<1>16. Ascends(f, m)
  BY <1>2, <1>7, <1>10, <1>12, StepsAscend
<1>17. m > 0
  <2>1. e[0] = 0 /\ e[m] = n
    BY <1>10 DEF Hull, Ends
  <2> QED BY <2>1
<1>18. TakesSteps(points, f, m)
  <2>1. SummedUp(c, n, s)
    BY <1>4, <1>6 DEF SummedUp
  <2> QED BY <1>1, <1>7, <1>10, <1>12, <2>1, RegressionIs
<1>19. DOMAIN f = 1..m
  BY <1>12
<1> QED BY <1>15, <1>16, <1>17, <1>18, <1>19 DEF KnotsAre, TakesSteps

\* A straight line from (ax, ay) to (bx, by), at p.
Line(ax, ay, bx, by, p) == ay + ((p - ax) * (by - ay)) \div (bx - ax)

LEMMA LineIs ==
  ASSUME NEW ax \in Int, NEW ay \in Int, NEW bx \in Int, NEW by \in Int, NEW p \in Int,
         ax < bx, ay <= by, ax <= p, p <= bx
  PROVE  /\ Line(ax, ay, bx, by, p) \in Int
         /\ ay <= Line(ax, ay, bx, by, p) /\ Line(ax, ay, bx, by, p) <= by
<1>1. PICK d \in Nat, w \in Nat, r \in Nat : d = by - ay /\ w = bx - ax /\ r = p - ax /\ w > 0 /\ r <= w
  OBVIOUS
<1>2. PICK v : v = (r * d) \div w
  OBVIOUS
<1>3. r * d \in Int /\ w * d \in Int /\ d * w \in Int /\ w * d = d * w /\ r * d = d * r /\ d * r \in Int
  BY TimesTurns
<1>4. v \in Int /\ v * w <= r * d /\ r * d < v * w + w
  BY <1>1, <1>2, <1>3, DivIs
<1>5. 0 <= v
  <2> SUFFICES ASSUME v + 1 <= 0 PROVE FALSE
    BY <1>4
  <2>1. (v + 1) * w <= 0 * w
    BY <1>1, <1>4, TimesGrows
  <2>2. (v + 1) * w = v * w + 1 * w
    BY <1>4, TimesTurns
  <2>3. v * w \in Int
    BY <1>4, TimesTurns
  <2>4. 0 <= r * d
    BY Z3
  <2> QED BY <1>3, <1>4, <2>1, <2>2, <2>3, <2>4
<1>6. v <= d
  <2> SUFFICES ASSUME d + 1 <= v PROVE FALSE
    BY <1>4
  <2>1. (d + 1) * w <= v * w
    BY <1>1, <1>4, TimesGrows
  <2>2. (d + 1) * w = d * w + 1 * w
    BY TimesTurns
  <2>3. v * w \in Int
    BY <1>4, TimesTurns
  <2>4. r * d <= w * d
    <3>1. CASE d = 0
      BY <3>1, Z3
    <3>2. CASE d # 0
      BY <1>1, <3>2, TimesGrows
    <3> QED BY <3>1, <3>2
  <2> QED BY <1>1, <1>3, <1>4, <2>1, <2>2, <2>3, <2>4
<1>7. Line(ax, ay, bx, by, p) = ay + v
  BY <1>1, <1>2 DEF Line
<1> QED BY <1>1, <1>4, <1>5, <1>6, <1>7

LEMMA LineRises ==
  ASSUME NEW ax \in Int, NEW ay \in Int, NEW bx \in Int, NEW by \in Int, NEW p \in Int, NEW q \in Int,
         ax < bx, ay <= by, ax <= p, p <= q, q <= bx
  PROVE  Line(ax, ay, bx, by, p) <= Line(ax, ay, bx, by, q)
<1>1. PICK d \in Nat, w \in Nat, r \in Nat, t \in Nat :
        d = by - ay /\ w = bx - ax /\ r = p - ax /\ t = q - ax /\ w > 0 /\ r <= t
  OBVIOUS
<1>2. PICK x \in Int, y \in Int : x = r * d /\ y = t * d
  BY TimesTurns
<1>3. x <= y
  <2>1. CASE d = 0
    <3>1. r * 0 = 0 /\ t * 0 = 0
      BY Z3
    <3> QED BY <1>2, <2>1, <3>1
  <2>2. CASE d # 0
    BY <1>1, <1>2, <2>2, TimesGrows
  <2> QED BY <2>1, <2>2
<1>4. x * w <= y * w
  BY <1>1, <1>3, TimesGrows
<1>5. x \div w <= y \div w /\ x \div w \in Int /\ y \div w \in Int
  BY <1>1, <1>4, DivGrows, DivIs
<1>6. Line(ax, ay, bx, by, p) = ay + x \div w /\ Line(ax, ay, bx, by, q) = ay + y \div w
  BY <1>1, <1>2 DEF Line
<1> QED BY <1>5, <1>6

\* What is applied at p, between the knots k and i.
Applies(knots, p, k, i) ==
  /\ knots[k].x < p /\ p <= knots[i].x
  /\ ApplyIsotonic(knots, p) = Line(knots[k].x, knots[k].y, knots[i].x, knots[i].y, p)

LEMMA AppliesBetween ==
  ASSUME NEW m \in Nat, m > 0, NEW knots, Ascends(knots, m), NEW p \in Int, knots[1].x < p, p < knots[m].x
  PROVE  \E k \in 1..m, i \in 1..m : i = k + 1 /\ Applies(knots, p, k, i)
<1>1. /\ knots \in [1..m -> [x : Int, y : Int]] /\ Len(knots) = m /\ DOMAIN knots = 1..m
      /\ \A i, k \in 1..m : i <= k => knots[i].x <= knots[k].x /\ knots[i].y <= knots[k].y
  BY DEF Ascends
<1>2. \A k \in 1..m : knots[k].x \in Int /\ knots[k].y \in Int
  BY <1>1
<1>3. PICK K : K = {k \in 1..m : p <= knots[k].x}
  OBVIOUS
<1>4. m \in K /\ K \subseteq Nat /\ 1 \notin K
  <2>1. m \in 1..m /\ 1 \in 1..m
    OBVIOUS
  <2>2. p <= knots[m].x /\ ~ (p <= knots[1].x)
    BY <1>2, <2>1
  <2> QED BY <1>3, <2>1, <2>2
<1>5. PICK i \in K : \A l \in K : i <= l
  BY <1>4, LeastExists
<1>6. Min(K) = i
  <2>1. \A x \in K : x \in Int
    BY <1>4
  <2>2. \A x : x \in K /\ (\A y \in K : x <= y) => x = i
    BY <1>5, <2>1
  <2>3. Min(K) = CHOOSE x \in K : \A y \in K : x <= y
    BY DEF Min
  <2>4. Min(K) \in K /\ \A y \in K : Min(K) <= y
    BY <1>5, <2>3
  <2> QED BY <2>2, <2>4
<1>7. i \in 1..m /\ i # 1 /\ p <= knots[i].x
  BY <1>3, <1>4
<1>8. PICK k \in 1..m : i = k + 1 /\ i - 1 = k
  <2>1. i - 1 \in 1..m /\ i = (i - 1) + 1
    BY <1>7
  <2> QED BY <2>1
<1>9. knots[k].x < p
  <2>1. ~ (i <= k)
    BY <1>8
  <2>2. k \notin K
    BY <1>5, <2>1
  <2>3. ~ (p <= knots[k].x)
    BY <1>3, <2>2
  <2> QED BY <1>2, <2>3
<1>10. ~ (p <= knots[1].x) /\ ~ (p >= knots[m].x)
  <2>1. m \in 1..m /\ 1 \in 1..m
    OBVIOUS
  <2> QED BY <1>2, <2>1
<1>11. {l \in DOMAIN knots : p <= knots[l].x} = K
  BY <1>1, <1>3
<1>12. ApplyIsotonic(knots, p)
         = knots[i - 1].y + ((p - knots[i - 1].x) * (knots[i].y - knots[i - 1].y)) \div (knots[i].x - knots[i - 1].x)
  <2>1. ApplyIsotonic(knots, p) =
          LET j == Min({l \in DOMAIN knots : p <= knots[l].x}) IN
          knots[j - 1].y + ((p - knots[j - 1].x) * (knots[j].y - knots[j - 1].y)) \div (knots[j].x - knots[j - 1].x)
    BY <1>1, <1>10 DEF ApplyIsotonic
  <2> QED BY <1>6, <1>11, <2>1
<1>13. Applies(knots, p, k, i)
  BY <1>7, <1>8, <1>9, <1>12 DEF Applies, Line
<1> QED BY <1>7, <1>8, <1>13

\* What is applied between two knots is a number between their values.
LEMMA AppliesWithin ==
  ASSUME NEW m \in Nat, NEW knots, Ascends(knots, m), NEW p \in Int, NEW k \in 1..m, NEW i \in 1..m,
         k < i, Applies(knots, p, k, i)
  PROVE  /\ ApplyIsotonic(knots, p) \in Int
         /\ knots[k].y <= ApplyIsotonic(knots, p) /\ ApplyIsotonic(knots, p) <= knots[i].y
<1>1. PICK ax \in Int, ay \in Int, bx \in Int, by \in Int :
        ax = knots[k].x /\ ay = knots[k].y /\ bx = knots[i].x /\ by = knots[i].y
  BY DEF Ascends
<1>2. ay <= by
  BY <1>1 DEF Ascends
<1>3. ax < p /\ p <= bx /\ ApplyIsotonic(knots, p) = Line(ax, ay, bx, by, p)
  BY <1>1 DEF Applies
<1>4. ax < bx /\ ax <= p
  BY <1>3
<1>5. /\ Line(ax, ay, bx, by, p) \in Int
      /\ ay <= Line(ax, ay, bx, by, p) /\ Line(ax, ay, bx, by, p) <= by
  BY <1>2, <1>3, <1>4, LineIs
<1> QED BY <1>1, <1>3, <1>5

\* What is applied at a number is one, between the values of the first and last knots.
LEMMA AppliesToAll ==
  ASSUME NEW m \in Nat, m > 0, NEW knots, Ascends(knots, m), NEW p \in Int
  PROVE  /\ ApplyIsotonic(knots, p) \in Int
         /\ knots[1].y <= ApplyIsotonic(knots, p) /\ ApplyIsotonic(knots, p) <= knots[m].y
         /\ p <= knots[1].x => ApplyIsotonic(knots, p) = knots[1].y
         /\ knots[1].x < p /\ knots[m].x <= p => ApplyIsotonic(knots, p) = knots[m].y
<1>1. /\ Len(knots) = m /\ 1 \in 1..m /\ m \in 1..m /\ 1 <= m
      /\ \A i \in 1..m : knots[i].x \in Int /\ knots[i].y \in Int
      /\ \A i, k \in 1..m : i <= k => knots[i].x <= knots[k].x /\ knots[i].y <= knots[k].y
  BY DEF Ascends
<1>2. PICK v : v = ApplyIsotonic(knots, p)
  OBVIOUS
<1>3. knots[1].y <= knots[m].y /\ knots[1].y \in Int /\ knots[m].y \in Int /\ knots[1].x \in Int /\ knots[m].x \in Int
  BY <1>1
<1>4. CASE p <= knots[1].x
  <2>1. v = knots[1].y
    BY <1>2, <1>4 DEF ApplyIsotonic
  <2>2. ~ (knots[1].x < p)
    BY <1>3, <1>4
  <2> QED BY <1>2, <1>3, <2>1, <2>2
<1>5. CASE knots[1].x < p /\ knots[m].x <= p
  <2>1. ~ (p <= knots[1].x) /\ p >= knots[m].x
    BY <1>3, <1>5
  <2>2. v = knots[m].y
    BY <1>1, <1>2, <2>1 DEF ApplyIsotonic
  <2> QED BY <1>2, <1>3, <2>1, <2>2
<1>6. CASE knots[1].x < p /\ p < knots[m].x
  <2>1. PICK k \in 1..m, i \in 1..m : i = k + 1 /\ Applies(knots, p, k, i)
    BY <1>6, AppliesBetween
  <2>2. k < i
    BY <2>1
  <2>3. /\ v \in Int /\ knots[k].y <= v /\ v <= knots[i].y
    BY <1>2, <2>1, <2>2, AppliesWithin
  <2>4. knots[1].y <= knots[k].y /\ knots[i].y <= knots[m].y
    BY <1>1
  <2>5. knots[k].y \in Int /\ knots[i].y \in Int
    BY <1>1
  <2>6. ~ (p <= knots[1].x) /\ ~ (knots[m].x <= p)
    BY <1>3, <1>6
  <2>7. knots[1].y <= v /\ v <= knots[m].y
    BY <1>3, <2>3, <2>4, <2>5
  <2> QED BY <1>2, <2>3, <2>6, <2>7
<1> QED BY <1>3, <1>4, <1>5, <1>6

\* And it ascends.
LEMMA AppliesRising ==
  ASSUME NEW m \in Nat, m > 0, NEW knots, Ascends(knots, m), NEW p \in Int, NEW q \in Int, p <= q
  PROVE  ApplyIsotonic(knots, p) <= ApplyIsotonic(knots, q)
<1>1. /\ 1 \in 1..m /\ m \in 1..m
      /\ \A i \in 1..m : knots[i].x \in Int /\ knots[i].y \in Int
      /\ \A i, k \in 1..m : i <= k => knots[i].x <= knots[k].x /\ knots[i].y <= knots[k].y
  BY DEF Ascends
<1>2. PICK v, w : v = ApplyIsotonic(knots, p) /\ w = ApplyIsotonic(knots, q)
  OBVIOUS
<1>3. /\ v \in Int /\ knots[1].y <= v /\ v <= knots[m].y
      /\ p <= knots[1].x => v = knots[1].y
      /\ knots[1].x < p /\ knots[m].x <= p => v = knots[m].y
  BY <1>2, AppliesToAll
<1>4. /\ w \in Int /\ knots[1].y <= w /\ w <= knots[m].y
      /\ q <= knots[1].x => w = knots[1].y
      /\ knots[1].x < q /\ knots[m].x <= q => w = knots[m].y
  BY <1>2, AppliesToAll
<1>5. knots[1].x \in Int /\ knots[m].x \in Int /\ knots[1].y \in Int /\ knots[m].y \in Int
  BY <1>1
<1>6. CASE p <= knots[1].x
  BY <1>2, <1>3, <1>4, <1>6
<1>7. CASE knots[1].x < p /\ knots[m].x <= q
  <2>1. knots[1].x < q
    BY <1>5, <1>7
  <2> QED BY <1>2, <1>3, <1>4, <1>7, <2>1
<1>8. CASE knots[1].x < p /\ q < knots[m].x
  <2>1. p < knots[m].x /\ knots[1].x < q
    BY <1>5, <1>8
  <2>2. PICK k \in 1..m, i \in 1..m : i = k + 1 /\ Applies(knots, p, k, i)
    BY <1>8, <2>1, AppliesBetween
  <2>3. PICK l \in 1..m, j \in 1..m : j = l + 1 /\ Applies(knots, q, l, j)
    BY <1>8, <2>1, AppliesBetween
  <2>4. k < i /\ l < j
    BY <2>2, <2>3
  <2>5. v <= knots[i].y /\ knots[l].y <= w
    <3>1. v <= knots[i].y
      BY <1>2, <2>2, <2>4, AppliesWithin
    <3>2. knots[l].y <= w
      BY <1>2, <2>3, <2>4, AppliesWithin
    <3> QED BY <3>1, <3>2
  <2>6. CASE k = l
    <3>1. PICK ax \in Int, ay \in Int, bx \in Int, by \in Int :
            ax = knots[k].x /\ ay = knots[k].y /\ bx = knots[i].x /\ by = knots[i].y
      BY <1>1
    <3>2. ay <= by
      BY <1>1, <2>4, <3>1
    <3>3. j = i
      BY <2>2, <2>3, <2>6
    <3>4. /\ ax < p /\ q <= bx /\ v = Line(ax, ay, bx, by, p) /\ w = Line(ax, ay, bx, by, q)
      BY <1>2, <2>2, <2>3, <2>6, <3>1, <3>3 DEF Applies
    <3>5. ax < bx /\ ax <= p
      BY <3>4
    <3>6. v <= w
      BY <3>2, <3>4, <3>5, LineRises
    <3> QED BY <1>2, <3>6
  <2>7. CASE k < l
    <3>1. i <= l
      BY <2>2, <2>7
    <3>2. knots[i].y <= knots[l].y /\ knots[i].y \in Int /\ knots[l].y \in Int
      BY <1>1, <3>1
    <3>3. v <= w
      BY <1>3, <1>4, <2>5, <3>2
    <3> QED BY <1>2, <3>3
  <2>8. CASE l < k
    <3>1. j <= k
      BY <2>3, <2>8
    <3>2. knots[j].x <= knots[k].x /\ knots[j].x \in Int /\ knots[k].x \in Int
      BY <1>1, <3>1
    <3>3. knots[k].x < p /\ q <= knots[j].x
      BY <2>2, <2>3 DEF Applies
    <3> QED BY <3>2, <3>3
  <2>9. k = l \/ k < l \/ l < k
    OBVIOUS
  <2> QED BY <2>6, <2>7, <2>8, <2>9
<1> QED BY <1>5, <1>6, <1>7, <1>8

-----------------------------------------------------------------------------
(* What a map loses.                                                        *)

\* A map that can be applied to every estimate, and the points it is applied to.
Applicable(map) == \A p \in Estimates : Calibrated(map, p) \in Int
Judged == [p : Estimates, y : Int]

LEMMA LossIs ==
  ASSUME NEW n \in Nat, NEW points \in [1..n -> Judged], NEW map, Applicable(map)
  PROVE  Loss(map, points) \in Int
<1>1. PICK miss : miss = [i \in 1..n |-> Calibrated(map, points[i].p) - points[i].y]
  OBVIOUS
<1>2. ASSUME NEW i \in 1..n PROVE miss[i] \in Int
  <2>1. points[i].p \in Estimates /\ points[i].y \in Int
    BY DEF Judged
  <2>2. Calibrated(map, points[i].p) \in Int
    BY <2>1 DEF Applicable
  <2>3. miss[i] = Calibrated(map, points[i].p) - points[i].y
    BY <1>1
  <2> QED BY <2>1, <2>2, <2>3
<1>3. PICK numbers : numbers = [i \in 1..n |-> miss[i] * miss[i]]
  OBVIOUS
<1>4. numbers \in [1..n -> Int]
  BY <1>2, <1>3, TimesTurns
<1>5. Len(numbers) = n
  <2>1. PICK Z : Z = Int
    OBVIOUS
  <2>2. numbers \in [1..n -> Z]
    BY <1>4, <2>1
  <2> QED BY <2>2, SequenceOf
<1>6. SumsOfAll(Sums(numbers), n, numbers)
  BY <1>4, <1>5, SumsAre
<1>7. Sums(numbers)[n] \in Int
  <2>1. n \in 0..n
    OBVIOUS
  <2> QED BY <1>6, <2>1 DEF SumsOfAll
<1>8. Len(points) = n /\ DOMAIN points = 1..n
  BY SequenceOf
<1>9. Loss(map, points) = Sums(numbers)[n]
  <2>1. Loss(map, points)
          = Sums([i \in DOMAIN points |-> (Calibrated(map, points[i].p) - points[i].y)
                                            * (Calibrated(map, points[i].p) - points[i].y)])[Len(points)]
    BY DEF Loss
  <2>2. numbers = [i \in DOMAIN points |-> (Calibrated(map, points[i].p) - points[i].y)
                                            * (Calibrated(map, points[i].p) - points[i].y)]
    BY <1>1, <1>3, <1>8
  <2> QED BY <1>8, <2>1, <2>2
<1> QED BY <1>7, <1>9

LEMMA PartsAre ==
  ASSUME NEW S, NEW n \in Nat, NEW seq \in [1..n -> S], NEW cut \in 1..n
  PROVE  /\ SubSeq(seq, 1, cut) = [i \in 1..cut |-> seq[i]]
         /\ SubSeq(seq, cut + 1, n) = [i \in 1..(n - cut) |-> seq[cut + i]]
<1>1. seq \in Seq(S) /\ Len(seq) = n
  BY SequenceOf
<1>2. SubSeq(seq, 1, cut) = [i \in 1..cut |-> seq[i]]
  <2>1. SubSeq(seq, 1, cut) = [i \in 1..(cut - 1 + 1) |-> seq[1 + i - 1]]
    BY <1>1
  <2>2. cut - 1 + 1 = cut /\ \A i \in 1..cut : 1 + i - 1 = i
    OBVIOUS
  <2> QED BY <2>1, <2>2
<1>3. SubSeq(seq, cut + 1, n) = [i \in 1..(n - cut) |-> seq[cut + i]]
  <2>1. SubSeq(seq, cut + 1, n) = [i \in 1..(n - (cut + 1) + 1) |-> seq[cut + 1 + i - 1]]
    BY <1>1
  <2>2. n - (cut + 1) + 1 = n - cut /\ \A i \in 1..(n - cut) : cut + 1 + i - 1 = cut + i
    OBVIOUS
  <2> QED BY <2>1, <2>2
<1> QED BY <1>2, <1>3

LEMMA SplitIs == ASSUME NEW n \in Nat, n >= 2 PROVE Split(n) \in 1..(n - 1)
<1>1. PICK u : u = Split(n)
  OBVIOUS
<1>2. u = (7 * n) \div 10 /\ 7 * n \in Int /\ 10 \in Nat /\ 10 > 0
  BY <1>1 DEF Split
<1>3. u \in Int /\ u * 10 <= 7 * n /\ 7 * n < u * 10 + 10
  BY <1>2, DivIs
<1>4. u >= 1 /\ u <= n - 1
  BY <1>3
<1> QED BY <1>1, <1>3, <1>4

LEMMA IdentityApplies == Applicable(Identity)
<1>1. \A p \in Estimates : p \in Int
  BY WalkNumbers DEF Estimates
<1>2. \A p : Calibrated(Identity, p) = p
  BY DEF Calibrated, Identity
<1> QED BY <1>1, <1>2 DEF Applicable

\* The maps a fit chooses among.
IsotonicMap(points) == [Identity EXCEPT !.method = "isotonic", !.knots = FitIsotonic(points)]
BetaMap(b) == [Identity EXCEPT !.method = "beta", !.beta = b]

LEMMA BetaApplies ==
  ASSUME NEW b \in [Estimates -> Int] PROVE Applicable(BetaMap(b)) /\ BetaMap(b).method = "beta"
<1>1. PICK map : map = BetaMap(b)
  OBVIOUS
<1>2. map.method = "beta" /\ map.beta = b
  BY <1>1 DEF BetaMap, Identity
<1>3. \A p \in Estimates : Calibrated(map, p) = b[p]
  BY <1>2 DEF Calibrated
<1> QED BY <1>1, <1>2, <1>3 DEF Applicable

LEMMA IsotonicApplies ==
  ASSUME NEW n \in Nat, n > 0, NEW points \in [1..n -> Judged], NEW map, map = IsotonicMap(points)
  PROVE  /\ Applicable(map) /\ map.method = "isotonic" /\ KnotsAre(map.knots, points)
         /\ \A p, q \in Estimates : p <= q => Calibrated(map, p) <= Calibrated(map, q)
<1>1. \A p \in Estimates : p \in Int
  BY WalkNumbers DEF Estimates
<1>2. points \in [1..n -> Measures]
  BY <1>1 DEF Judged, Measures
<1>3. map.method = "isotonic" /\ map.knots = FitIsotonic(points)
  BY DEF IsotonicMap, Identity
<1>4. PICK knots : knots = map.knots
  OBVIOUS
<1>5. (\E m \in Nat : m > 0 /\ Ascends(knots, m)) /\ KnotsAre(knots, points)
  BY <1>2, <1>3, <1>4, FitIsTheRegression
<1>6. PICK m \in Nat : m > 0 /\ Ascends(knots, m)
  BY <1>5
<1>7. \A p : Calibrated(map, p) = ApplyIsotonic(knots, p)
  BY <1>3, <1>4 DEF Calibrated
<1>8. Applicable(map)
  BY <1>1, <1>6, <1>7, AppliesToAll DEF Applicable
<1>9. ASSUME NEW p \in Estimates, NEW q \in Estimates, p <= q PROVE Calibrated(map, p) <= Calibrated(map, q)
  <2>1. ApplyIsotonic(knots, p) <= ApplyIsotonic(knots, q)
    BY <1>1, <1>6, <1>9, AppliesRising
  <2> QED BY <1>7, <2>1
<1> QED BY <1>3, <1>4, <1>5, <1>8, <1>9

\* The best of some maps over some points, an isotonic one before a beta one.
Best(C, held) == CHOOSE c \in C : \A d \in C :
                   Loss(c, held) < Loss(d, held) \/ (Loss(c, held) = Loss(d, held) /\ c.method # "beta")
                   \/ c = d

LEMMA OneIsBest ==
  ASSUME NEW k \in Nat, NEW held \in [1..k -> Judged], NEW iso, Applicable(iso), iso.method # "beta",
         NEW B, \A b \in B : Applicable(b), \A b, d \in B : b = d
  PROVE  Best({iso} \cup B, held) \in {iso} \cup B
<1>1. PICK C : C = {iso} \cup B
  OBVIOUS
<1>2. \A c \in C : Loss(c, held) \in Int
  BY <1>1, LossIs
<1>3. \E c \in C : \A d \in C :
        Loss(c, held) < Loss(d, held) \/ (Loss(c, held) = Loss(d, held) /\ c.method # "beta") \/ c = d
  <2>1. CASE \A d \in C : Loss(iso, held) <= Loss(d, held)
    BY <1>1, <1>2, <2>1
  <2>2. CASE ~ \A d \in C : Loss(iso, held) <= Loss(d, held)
    <3>1. PICK b \in C : ~ (Loss(iso, held) <= Loss(b, held))
      BY <2>2
    <3>2. Loss(b, held) < Loss(iso, held)
      BY <1>1, <1>2, <3>1
    <3>3. b # iso
      BY <1>1, <1>2, <3>2
    <3>4. \A d \in C : d = iso \/ d = b
      BY <1>1, <3>3
    <3> QED BY <3>2, <3>4
  <2> QED BY <2>1, <2>2
<1>4. Best(C, held) \in C
  BY <1>3 DEF Best
<1> QED BY <1>1, <1>4

\* A map has earned its place, of what it was fitted to and of what it was judged by.
MapEarned(map, fitted, later) ==
  /\ BeatsNoise(Loss(Identity, later) - Loss(map, later), Len(later))
  /\ map.method = "isotonic" =>
       /\ KnotsAre(map.knots, fitted)
       /\ \A p, q \in Estimates : p <= q => Calibrated(map, p) <= Calibrated(map, q)

LEMMA FitEarnsIt ==
  ASSUME NEW n \in Nat, NEW points \in [1..n -> Judged], NEW betas, betas \subseteq [Estimates -> Int],
         \A b, d \in betas : b = d, NEW map, map = FitCalibration(points, betas), map.method # "identity"
  PROVE  /\ n >= MIN_FIT_SAMPLES
         /\ \E cut \in 1..(n - 1) : MapEarned(map, SubSeq(points, 1, cut), SubSeq(points, cut + 1, n))
<1>1. Len(points) = n
  BY SequenceOf
<1>2. PICK cut : cut = Split(n)
  OBVIOUS
<1>3. PICK train, held : train = SubSeq(points, 1, cut) /\ held = SubSeq(points, cut + 1, n)
  OBVIOUS
<1>4. PICK iso, B : iso = IsotonicMap(train) /\ B = {BetaMap(b) : b \in betas}
  OBVIOUS
<1>5. map = IF n < MIN_FIT_SAMPLES \/ held = <<>> THEN Identity
            ELSE IF BeatsNoise(Loss(Identity, held) - Loss(Best({iso} \cup B, held), held), Len(held))
                 THEN Best({iso} \cup B, held) ELSE Identity
  <2>1. map = IF Len(points) < MIN_FIT_SAMPLES \/ SubSeq(points, Split(Len(points)) + 1, Len(points)) = <<>>
              THEN Identity
              ELSE IF BeatsNoise(Loss(Identity, SubSeq(points, Split(Len(points)) + 1, Len(points)))
                        - Loss(Best({IsotonicMap(SubSeq(points, 1, Split(Len(points))))}
                                       \cup {BetaMap(b) : b \in betas},
                                    SubSeq(points, Split(Len(points)) + 1, Len(points))),
                               SubSeq(points, Split(Len(points)) + 1, Len(points))),
                        Len(SubSeq(points, Split(Len(points)) + 1, Len(points))))
                   THEN Best({IsotonicMap(SubSeq(points, 1, Split(Len(points))))}
                                \cup {BetaMap(b) : b \in betas},
                             SubSeq(points, Split(Len(points)) + 1, Len(points)))
                   ELSE Identity
    BY DEF FitCalibration, Best, IsotonicMap, BetaMap
  <2> QED BY <1>1, <1>2, <1>3, <1>4, <2>1
<1>6. Identity.method = "identity"
  BY DEF Identity
<1>7. ~ (n < MIN_FIT_SAMPLES)
  BY <1>5, <1>6
<1>8. /\ map = Best({iso} \cup B, held)
      /\ BeatsNoise(Loss(Identity, held) - Loss(map, held), Len(held))
  BY <1>5, <1>6
<1>9. MIN_FIT_SAMPLES \in Nat /\ MIN_FIT_SAMPLES >= 2
  BY WalkForwardAssumption
<1>10. n >= MIN_FIT_SAMPLES /\ n >= 2
  BY <1>7, <1>9
<1>11. cut \in 1..(n - 1) /\ cut \in 1..n /\ cut \in Nat /\ cut > 0 /\ n - cut \in Nat
  <2>1. cut \in 1..(n - 1)
    BY <1>2, <1>10, SplitIs
  <2> QED BY <2>1
<1>12. train \in [1..cut -> Judged]
  <2>1. train = [i \in 1..cut |-> points[i]]
    BY <1>3, <1>11, PartsAre
  <2> QED BY <1>11, <2>1
<1>13. held \in [1..(n - cut) -> Judged]
  <2>1. held = [i \in 1..(n - cut) |-> points[cut + i]]
    BY <1>3, <1>11, PartsAre
  <2>2. \A i \in 1..(n - cut) : cut + i \in 1..n
    BY <1>11
  <2> QED BY <2>1, <2>2
<1>14. /\ Applicable(iso) /\ iso.method = "isotonic" /\ KnotsAre(iso.knots, train)
       /\ \A p, q \in Estimates : p <= q => Calibrated(iso, p) <= Calibrated(iso, q)
  BY <1>4, <1>11, <1>12, IsotonicApplies
<1>15. \A b \in B : Applicable(b) /\ b.method = "beta"
  BY <1>4, BetaApplies
<1>16. \A b, d \in B : b = d
  BY <1>4
<1>17. map \in {iso} \cup B
  <2>1. iso.method # "beta"
    BY <1>14
  <2> QED BY <1>8, <1>11, <1>13, <1>14, <1>15, <1>16, <2>1, OneIsBest
<1>18. map.method = "isotonic" => map = iso
  BY <1>15, <1>17
<1>19. MapEarned(map, train, held)
  BY <1>8, <1>14, <1>18 DEF MapEarned
<1> QED BY <1>3, <1>10, <1>11, <1>19

-----------------------------------------------------------------------------
(* The calibration map of the live record.                                  *)

LEMMA OutcomeValueIs == ASSUME NEW r PROVE OutcomeValue(r) \in Int
<1>1. One \in Int /\ 2 \in Nat /\ 2 > 0
  BY WalkNumbers
<1>2. One \div 2 \in Int
  BY <1>1, DivIs
<1> QED BY <1>1, <1>2 DEF OutcomeValue

LEMMA PointsAre ==
  ASSUME NEW H, H \subseteq SampleRows, NEW n \in Nat, NEW basis \in [1..n -> H]
  PROVE  Points(basis) \in [1..n -> Judged] /\ Points(basis) = [i \in 1..n |-> [p |-> basis[i].claim.p, y |-> OutcomeValue(basis[i])]]
<1>1. Points(basis) = [i \in 1..n |-> [p |-> basis[i].claim.p, y |-> OutcomeValue(basis[i])]]
  BY DEF Points
<1>2. ASSUME NEW i \in 1..n PROVE [p |-> basis[i].claim.p, y |-> OutcomeValue(basis[i])] \in Judged
  <2>1. basis[i].claim \in AnyClaims
    BY DEF SampleRows
  <2>2. basis[i].claim.p \in Estimates
    BY <2>1 DEF AnyClaims, Claims, DemoClaims
  <2>3. OutcomeValue(basis[i]) \in Int
    BY OutcomeValueIs
  <2> QED BY <2>2, <2>3 DEF Judged
<1> QED BY <1>1, <1>2

\* The points of some first part, and of the rest.
LEMMA PointsApart ==
  ASSUME NEW H, H \subseteq SampleRows, NEW n \in Nat, NEW basis \in [1..n -> H], NEW cut \in 1..n
  PROVE  /\ Points(SubSeq(basis, 1, cut)) = SubSeq(Points(basis), 1, cut)
         /\ Points(SubSeq(basis, cut + 1, n)) = SubSeq(Points(basis), cut + 1, n)
<1>1. PICK pts : pts = Points(basis)
  OBVIOUS
<1>2. pts \in [1..n -> Judged] /\ pts = [i \in 1..n |-> [p |-> basis[i].claim.p, y |-> OutcomeValue(basis[i])]]
  BY <1>1, PointsAre
<1>3. SubSeq(basis, 1, cut) = [i \in 1..cut |-> basis[i]] /\ SubSeq(pts, 1, cut) = [i \in 1..cut |-> pts[i]]
  BY <1>2, PartsAre
<1>4. /\ SubSeq(basis, cut + 1, n) = [i \in 1..(n - cut) |-> basis[cut + i]]
      /\ SubSeq(pts, cut + 1, n) = [i \in 1..(n - cut) |-> pts[cut + i]]
  BY <1>2, PartsAre
<1>5. Points(SubSeq(basis, 1, cut)) = SubSeq(pts, 1, cut)
  <2>1. PICK part : part = SubSeq(basis, 1, cut)
    OBVIOUS
  <2>2. DOMAIN part = 1..cut /\ \A i \in 1..cut : part[i] = basis[i] /\ i \in 1..n
    BY <1>3, <2>1
  <2>3. Points(part) = [i \in 1..cut |-> [p |-> part[i].claim.p, y |-> OutcomeValue(part[i])]]
    BY <2>2 DEF Points
  <2>4. \A i \in 1..cut : [p |-> part[i].claim.p, y |-> OutcomeValue(part[i])] = pts[i]
    BY <1>2, <2>2
  <2> QED BY <1>3, <2>1, <2>3, <2>4
<1>6. Points(SubSeq(basis, cut + 1, n)) = SubSeq(pts, cut + 1, n)
  <2>1. PICK part : part = SubSeq(basis, cut + 1, n)
    OBVIOUS
  <2>2. DOMAIN part = 1..(n - cut) /\ \A i \in 1..(n - cut) : part[i] = basis[cut + i] /\ cut + i \in 1..n
    BY <1>4, <2>1
  <2>3. Points(part) = [i \in 1..(n - cut) |-> [p |-> part[i].claim.p, y |-> OutcomeValue(part[i])]]
    BY <2>2 DEF Points
  <2>4. \A i \in 1..(n - cut) : [p |-> part[i].claim.p, y |-> OutcomeValue(part[i])] = pts[cut + i]
    BY <1>2, <2>2
  <2> QED BY <1>4, <2>1, <2>3, <2>4
<1> QED BY <1>1, <1>5, <1>6

\* A fit is refused, or it has earned its place on the claims it is based on.
EarnedAt(f, cut) ==
  LET fitted == Points(SubSeq(f.basis, 1, cut))
      later == Points(SubSeq(f.basis, cut + 1, Len(f.basis)))
  IN /\ \A i \in 1..cut, k \in (cut + 1)..Len(f.basis) : f.basis[i].day <= f.basis[k].day
     /\ MapEarned(f.map, fitted, later)

FitSound(f) ==
  f.map.method # "identity" =>
    /\ \A i \in DOMAIN f.basis : f.basis[i].by = "live" /\ f.basis[i].result # "none"
    /\ Len(f.basis) >= MIN_FIT_SAMPLES
    /\ \E cut \in 1..(Len(f.basis) - 1) : EarnedAt(f, cut)

\* No report says too early that a map may be fitted.
ToldSound == \A t \in told : t.milestone.mayFit => Cardinality(History("live")) >= MIN_FIT_SAMPLES

FitInv == (\A f \in fit : FitSound(f)) /\ ToldSound

LEMMA CalibrateEarns == ASSUME RowsInv, Calibrate PROVE \A f \in fit' : FitSound(f)
<1>1. PICK H : H = History("live")
  OBVIOUS
<1>2. record \subseteq SampleRows /\ IsFiniteSet(record) /\ Distinct(record) /\ H \subseteq record
  BY <1>1 DEF RowsInv, NoRowIsLost, History
<1>3. H \subseteq SampleRows /\ IsFiniteSet(H) /\ Distinct(H)
  <2>1. IsFiniteSet(H)
    BY <1>2, FS_Subset
  <2> QED BY <1>2, <2>1 DEF Distinct
<1>4. PICK n \in Nat : n = Cardinality(H)
  BY <1>3, FS_CardinalityType
<1>5. PICK betas \in {{}} \cup {{b} : b \in BetaMaps}, basis \in Loads(H) :
        fit' = {[map |-> FitCalibration(Points(basis), betas), basis |-> basis]}
  BY <1>1 DEF Calibrate
<1>6. basis \in [1..n -> H] /\ \A i, k \in 1..n : i < k => basis[i].day <= basis[k].day
  BY <1>3, <1>4, <1>5, LoadedInOrder
<1>7. Len(basis) = n /\ DOMAIN basis = 1..n
  BY <1>6, SequenceOf
<1>8. fit' = {[map |-> FitCalibration(Points(basis), betas), basis |-> basis]}
  BY <1>5
<1>9. betas \subseteq [Estimates -> Int] /\ \A b, d \in betas : b = d
  BY WalkForwardAssumption
<1>10. PICK pts, map : pts = Points(basis) /\ map = FitCalibration(pts, betas)
  OBVIOUS
<1>11. pts \in [1..n -> Judged]
  BY <1>3, <1>6, <1>10, PointsAre
<1>12. PICK g : g = [map |-> map, basis |-> basis]
  OBVIOUS
<1>13. g.map = map /\ g.basis = basis /\ fit' = {g}
  BY <1>8, <1>10, <1>12
<1>14. ASSUME map.method # "identity"
       PROVE  /\ \A i \in DOMAIN basis : basis[i].by = "live" /\ basis[i].result # "none"
              /\ n >= MIN_FIT_SAMPLES
              /\ \E cut \in 1..(n - 1) : EarnedAt(g, cut)
  <2>1. \A i \in DOMAIN basis : basis[i].by = "live" /\ basis[i].result # "none"
    <3>1. \A r \in H : r.by = "live" /\ r.result # "none"
      BY <1>1 DEF History
    <3> QED BY <1>6, <1>7, <3>1
  <2>2. /\ n >= MIN_FIT_SAMPLES
        /\ \E cut \in 1..(n - 1) : MapEarned(map, SubSeq(pts, 1, cut), SubSeq(pts, cut + 1, n))
    BY <1>9, <1>10, <1>11, <1>14, FitEarnsIt
  <2>3. PICK cut \in 1..(n - 1) : MapEarned(map, SubSeq(pts, 1, cut), SubSeq(pts, cut + 1, n))
    BY <2>2
  <2>4. cut \in 1..n
    OBVIOUS
  <2>5. Points(SubSeq(basis, 1, cut)) = SubSeq(pts, 1, cut) /\ Points(SubSeq(basis, cut + 1, n)) = SubSeq(pts, cut + 1, n)
    <3>1. H \subseteq SampleRows /\ basis \in [1..n -> H]
      BY <1>3, <1>6
    <3>2. /\ Points(SubSeq(basis, 1, cut)) = SubSeq(Points(basis), 1, cut)
          /\ Points(SubSeq(basis, cut + 1, n)) = SubSeq(Points(basis), cut + 1, n)
      BY <2>4, <3>1, PointsApart
    <3> QED BY <1>10, <3>2
  <2>6. \A i \in 1..cut, k \in (cut + 1)..n : basis[i].day <= basis[k].day
    <3>1. \A i \in 1..cut, k \in (cut + 1)..n : i \in 1..n /\ k \in 1..n /\ i < k
      OBVIOUS
    <3> QED BY <1>6, <3>1
  <2>7. EarnedAt(g, cut)
    BY <1>7, <1>13, <2>3, <2>5, <2>6 DEF EarnedAt
  <2> QED BY <2>1, <2>2, <2>7
<1>15. FitSound(g)
  BY <1>7, <1>13, <1>14 DEF FitSound
<1> QED BY <1>13, <1>15

LEMMA StepFit == ASSUME RowsInv, FitInv, [WalkNext]_walkVars PROVE FitInv'
<1>1. RowsInv' /\ RowsMove
  BY StepRows
<1>2. \A f \in fit' : FitSound(f)
  <2>1. CASE Calibrate
    BY <2>1, CalibrateEarns
  <2>2. CASE ~ Calibrate
    <3>1. fit' = fit
      BY <2>2 DEF WalkNext, PublishDay, SyncSettlements, SeedDemo, PurgeDemo, Purge, Backtest,
                  CountPublished, CountSettled, walkVars
    <3> QED BY <3>1 DEF FitInv
  <2> QED BY <2>1, <2>2
<1>3. PICK H, G : H = History("live") /\ G = History("live")'
  OBVIOUS
<1>4. /\ Cardinality(H) \in Nat /\ Cardinality(G) \in Nat /\ Cardinality(H) <= Cardinality(G)
  <2>1. IsFiniteSet(record') /\ G \subseteq record'
    BY <1>1, <1>3 DEF RowsInv, NoRowIsLost, History
  <2>2. IsFiniteSet(G) /\ H \subseteq G
    BY <1>1, <1>3, <2>1, FS_Subset DEF RowsMove
  <2> QED BY <2>2, FewerInSubset
<1>5. MIN_FIT_SAMPLES \in Nat
  BY WalkNumbers
<1>6. ASSUME NEW t \in told', t.milestone.mayFit PROVE Cardinality(G) >= MIN_FIT_SAMPLES
  <2>1. CASE t \in told
    <3>1. Cardinality(H) >= MIN_FIT_SAMPLES
      BY <1>3, <1>6, <2>1 DEF FitInv, ToldSound
    <3> QED BY <1>4, <1>5, <3>1
  <2>2. CASE t \notin told
    <3>1. CountSettled
      BY <1>6, <2>2 DEF WalkNext, PublishDay, SyncSettlements, SeedDemo, PurgeDemo, Purge, Backtest,
                  Calibrate, CountPublished, walkVars
    <3>2. {r \in LiveRows : r.result # "none"} = H
      BY <1>3 DEF LiveRows, History
    <3>3. PICK settled : settled = Cardinality(H)
      OBVIOUS
    <3>4. PICK published, stalled :
            t = [published |-> published, settled |-> settled, stalled |-> stalled,
                 milestone |-> Milestone(settled, stalled)]
      BY <1>6, <3>1, <3>2, <3>3 DEF CountSettled
    <3>5. t.milestone.mayFit <=> settled >= MIN_FIT_SAMPLES
      BY <3>4 DEF Milestone
    <3>6. settled >= MIN_FIT_SAMPLES
      BY <1>6, <3>5
    <3> QED BY <1>4, <1>5, <3>3, <3>6
  <2> QED BY <2>1, <2>2
<1>7. ToldSound'
  BY <1>3, <1>6 DEF ToldSound
<1>8. (\A f \in fit : FitSound(f))'
  BY <1>2 DEF FitSound, EarnedAt
<1> QED BY <1>7, <1>8 DEF FitInv

LEMMA FitsAreEarned == ASSUME FitInv PROVE FitIsEarned
<1>1. ASSUME NEW f \in fit, f.map.method # "identity"
      PROVE  /\ \A i \in DOMAIN f.basis : f.basis[i].by = "live" /\ f.basis[i].result # "none"
             /\ Len(f.basis) >= MIN_FIT_SAMPLES
             /\ \E cut \in 1..(Len(f.basis) - 1) : EarnedAt(f, cut)
  BY <1>1 DEF FitInv, FitSound
<1>2. \A t \in told : t.milestone.mayFit => Cardinality(History("live")) >= MIN_FIT_SAMPLES
  BY DEF FitInv, ToldSound
<1> QED BY <1>1, <1>2 DEF FitIsEarned, EarnedAt, MapEarned, KnotsAre, Estimates

\* The record is well used (engine.py, settlement.py, calibration.py, readiness.py):
\* every backtest is of the record, with no live claim lost, no claim graded otherwise
\* than its venue settled it, a day that has settled alike told alike but for claims of
\* the rank at which the strategy stops, whatever the order in which they are loaded,
\* and nothing synthetic among what is live; and a map is
\* adopted only once enough live claims have settled, as the isotonic regression of
\* the earlier ones, because it does better on the later ones by more than noise.
THEOREM RecordHolds == WalkSpec => []RecordIsWellUsed
<1>1. WalkInit => TradesInv /\ FitInv
  <2>1. WalkInit => TradesInv
    BY TradesStart
  <2>2. WalkInit => FitInv
    BY DEF WalkInit, FitInv, ToldSound
  <2> QED BY <2>1, <2>2
<1>2. TradesInv /\ FitInv /\ [WalkNext]_walkVars => TradesInv' /\ FitInv'
  <2> SUFFICES ASSUME TradesInv, FitInv, [WalkNext]_walkVars PROVE TradesInv' /\ FitInv'
    OBVIOUS
  <2>1. RowsInv
    BY DEF TradesInv
  <2> QED BY <2>1, StepTrades, StepFit
<1>3. TradesInv /\ FitInv => RecordIsWellUsed
  BY BacktestsAreOfTheRecord, FitsAreEarned DEF RecordIsWellUsed
<1> QED BY <1>1, <1>2, <1>3, PTL DEF WalkSpec

=============================================================================
