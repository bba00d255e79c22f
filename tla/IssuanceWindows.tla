---------------------------- MODULE IssuanceWindows ----------------------------
(***************************************************************************)
(* When the weather service publishes, and so when order books are captured   *)
(* at the short cadence (alpha/issuance.py).  Time is a whole number of        *)
(* ticks; Day and Hour are their lengths.                                     *)
(***************************************************************************)
EXTENDS Integers, FiniteSets, FiniteSetsExt

CONSTANTS
    Day,                \* ticks of a day
    Hour,               \* ticks of an hour of the schedule
    HalfWidth,          \* DEFAULT_WINDOW_HALF_WIDTH
    DocumentedHours,    \* DOCUMENTED_ISSUANCE_HOURS_UTC
    MinPublications,    \* MIN_OBSERVATIONS_FOR_SCHEDULE
    MinDays,            \* MIN_DAYS_FOR_SCHEDULE
    ResearchCadence,    \* RESEARCH_CADENCE_SECONDS
    WindowHorizon       \* WINDOW_HORIZON_HOURS

NoWindow == [anchor |-> -1, observed |-> FALSE]

DateOf(t) == t \div Day
HourOf(t) == (t % Day) \div Hour

\* The hours that recur on at least half the days, and on two; {} when the
\* publications are too few for a schedule, or none recurs.
ObservedHours(publications) ==
    LET days == {DateOf(p) : p \in publications}
        DaysWith(h) == {DateOf(p) : p \in {q \in publications : HourOf(q) = h}}
        needed == Max({2, Cardinality(days) \div 2})
    IN  IF Cardinality(publications) < MinPublications \/ Cardinality(days) < MinDays
        THEN {}
        ELSE {h \in {HourOf(p) : p \in publications} : Cardinality(DaysWith(h)) >= needed}

\* Every window is centred on the start of its hour.
WindowsForDay(day, publications) ==
    LET hours == ObservedHours(publications) IN
    IF hours = {} THEN {[anchor |-> day * Day + h * Hour, observed |-> FALSE] : h \in DocumentedHours}
    ELSE {[anchor |-> day * Day + h * Hour, observed |-> TRUE] : h \in hours}

Start(window) == window.anchor - HalfWidth
End(window) == window.anchor + HalfWidth
Covers(window, t) == Start(window) <= t /\ t <= End(window)

\* The first window that contains t, of yesterday, today and tomorrow.
ActiveWindow(t, publications) ==
    LET open == {w \in UNION {WindowsForDay(DateOf(t) + o, publications) : o \in -1..1} :
                    Covers(w, t)}
    IN  IF open = {} THEN NoWindow
        ELSE CHOOSE w \in open : \A v \in open : w.anchor <= v.anchor

\* The windows that overlap a period.
WindowsBetween(from, to, publications) ==
    {w \in UNION {WindowsForDay(d, publications) : d \in (DateOf(from) - 1)..(DateOf(to) + 1)} :
        End(w) >= from /\ Start(w) <= to}

\* Undated is the resolution time of a market that declares none.
WithinHorizon(resolution, t, unstated) ==
    resolution # unstated /\ resolution - t \in 0..WindowHorizon
=============================================================================
