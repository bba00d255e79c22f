------------------------------ MODULE MarketIngest ------------------------------
(***************************************************************************)
(* run_ingest for one venue: which markets it lists, which of them it spends   *)
(* its order-book budget on (select_for_orderbooks), which books come back,    *)
(* and what upsert_events, upsert_markets and store_orderbooks leave in the     *)
(* current-market store, cycle after cycle.                                    *)
(***************************************************************************)
EXTENDS Integers, FiniteSets, Sequences

CONSTANTS Listed,         \* the venue's open markets
          Listings,       \* the parts of them a cycle's discovery may return
          Matchable,      \* the markets with a counterpart on the other venue
          MarketOf,       \* [market -> [event, series, volume, modellable, bucket, liquid]]
          BookBudget,     \* orderbook_limit of this venue
          MatchBudget,    \* int(limit * orderbook_match_share)
          CoverageReserve,\* int(limit * orderbook_coverage_share)
          SeriesCap,      \* per_series_cap
          OutOfHorizon,   \* the bucket of a market outside every horizon
          CycleBound      \* cycles explored: a bound of the model

\* Both shares are of the budget (config.py: ge=0, le=1).
ASSUME IngestAssumption ==
    /\ IsFiniteSet(Listed) /\ Listings \subseteq SUBSET Listed
    /\ \A m \in Listed : MarketOf[m].volume \in Nat /\ MarketOf[m].bucket \in Nat
    /\ BookBudget \in Nat /\ MatchBudget \in 0..BookBudget /\ CoverageReserve \in 0..BookBudget
    /\ SeriesCap \in Nat

VARIABLES rows,     \* markets with a stored row
          counts,   \* [event -> stored outcome_count, 0 for unknown, or NoEvent]
          linked,   \* markets whose row names its event
          booked,   \* markets whose book this cycle stored
          matched,  \* legs of the verified matches
          cycle     \* [n, phase, listing, picked, books] of the run

ingestVars == <<rows, counts, linked, booked, matched, cycle>>

NoEvent == -1
EventsOf(ms) == {MarketOf[m].event : m \in ms}
OutcomeTotal(e) == Cardinality({m \in Listed : MarketOf[m].event = e})

-----------------------------------------------------------------------------
(* select_for_orderbooks. *)

Tradeable(pool) == {m \in pool : MarketOf[m].liquid}
ScoringEligible(pool) == {m \in Tradeable(pool) : MarketOf[m].bucket # OutOfHorizon}

Traded == [m \in Listed |-> -MarketOf[m].volume]
Modelled == [m \in Listed |-> IF MarketOf[m].modellable THEN 0 ELSE 1]
Horizon == [m \in Listed |-> MarketOf[m].bucket]

Least(ms, key) == {m \in ms : \A k \in ms : key[m] <= key[k]}

\* coverage_priority: volume alone.  orderbook_priority: modellable first, then the
\* nearest horizon, then volume.
Foremost(ms, priority) ==
    IF priority = "coverage" THEN Least(ms, Traded)
    ELSE Least(Least(Least(ms, Modelled), Horizon), Traded)

First(ms, priority) == CHOOSE m \in Foremost(ms, priority) : TRUE

\* The markets in order of priority.
Sorted(ms, priority) ==
    LET left[n \in 0..Cardinality(ms)] ==
            IF n = 0 THEN ms
            ELSE LET rest == left[n - 1] IN rest \ {First(rest, priority)}
    IN  [n \in 1..Cardinality(ms) |-> First(left[n - 1], priority)]

Series(m, ms) == {k \in ms : MarketOf[k].series = MarketOf[m].series}
Group(m, pool) == {k \in pool : MarketOf[k].event = MarketOf[m].event}

\* One market's turn in fill: with its whole event if the budget and the series
\* cap allow it, otherwise alone.
Take(m, budget, pool, chosen) ==
    LET group == Group(m, pool) IN
    IF \/ Cardinality(chosen) >= budget \/ m \in chosen
       \/ Cardinality(Series(m, chosen)) >= SeriesCap
    THEN chosen
    ELSE IF /\ Cardinality(chosen) + Cardinality(group) <= budget
            /\ Cardinality(Series(m, chosen)) + Cardinality(group) <= SeriesCap
    THEN chosen \cup group
    ELSE chosen \cup {m}

Fill(ordered, budget, pool, chosen) ==
    LET taken[n \in 0..Len(ordered)] ==
            IF n = 0 THEN chosen ELSE Take(ordered[n], budget, pool, taken[n - 1])
    IN  taken[Len(ordered)]

MatchedLegs(pool) ==
    LET legs == Sorted(Tradeable(pool) \cap matched, "coverage") IN
    {legs[i] : i \in {j \in DOMAIN legs : j <= MatchBudget}}

ScoringPass(pool, chosen) ==
    Fill(Sorted(ScoringEligible(pool), "score"),
         IF BookBudget > CoverageReserve THEN BookBudget - CoverageReserve ELSE 0,
         pool, chosen)

\* Mutant of CoveragePass: the pass follows the scoring order over the whole budget.
OneReserve(pool, chosen) ==
    Fill(Sorted(ScoringEligible(pool), "score"), BookBudget, pool, chosen)

CoveragePass(pool, chosen) ==
    IF CoverageReserve <= 0 THEN chosen
    ELSE Fill(Sorted(Tradeable(pool), "coverage"), BookBudget, pool, chosen)

\* What is left of the budget goes to the scoring order, the series cap ignored.
Leftover(pool, chosen) ==
    LET ordered == Sorted(ScoringEligible(pool), "score")
        taken[n \in 0..Len(ordered)] ==
            IF n = 0 THEN chosen
            ELSE LET before == taken[n - 1] IN
                 IF Cardinality(before) >= BookBudget THEN before ELSE before \cup {ordered[n]}
    IN  taken[Len(ordered)]

Select(pool) ==
    Leftover(pool, CoveragePass(pool, ScoringPass(pool, MatchedLegs(pool))))

-----------------------------------------------------------------------------
(* One cycle. *)

IngestInit ==
    /\ rows = {} /\ linked = {}
    /\ counts = [e \in EventsOf(Listed) |-> NoEvent]
    /\ booked = {}
    /\ matched = {}
    /\ cycle = [n |-> 0, phase |-> "idle", listing |-> {}, picked |-> {}, books |-> {}]

\* fetch_platform up to the selection: some discovery calls fail or stop at their
\* page limit, so any part of the open markets is listed.  Matched legs are read
\* back from their rows and join the pool although they are not listed.
FetchListing ==
    /\ cycle.phase = "idle" /\ cycle.n < CycleBound
    /\ \E listing \in Listings :
          LET pool == listing \cup (matched \cap rows) IN
          cycle' = [n |-> cycle.n + 1, phase |-> "selected", listing |-> listing,
                       picked |-> Select(pool), books |-> {}]
    /\ UNCHANGED <<rows, counts, linked, booked, matched>>

\* get_orderbooks: a batch answered in full, or a fetch per market, each of which
\* may fail on its own.
FetchBooks ==
    /\ cycle.phase = "selected"
    /\ \E books \in SUBSET cycle.picked :
          cycle' = [cycle EXCEPT !.phase = "fetched", !.books = books]
    /\ UNCHANGED <<rows, counts, linked, booked, matched>>

\* Mutant of UpsertEvents: a fetch that brings no count erases the stored one.
EraseCount(seen, counted) ==
    counts' = [e \in DOMAIN counts |->
                  IF e \in seen THEN IF e \in counted THEN OutcomeTotal(e) ELSE 0
                  ELSE counts[e]]

UpsertEvents(seen, counted) ==
    counts' = [e \in DOMAIN counts |->
                  IF e \in counted THEN OutcomeTotal(e)
                  ELSE IF e \in seen /\ counts[e] = NoEvent THEN 0
                  ELSE counts[e]]

\* The transaction: events (with a count when they came with their markets, or by
\* name, as those do that a stored market names and no event row answers for), rows
\* and their event links, and the books of the markets in id_map.
Persist ==
    /\ cycle.phase = "fetched"
    /\ \E seen \in SUBSET EventsOf(cycle.listing), filled \in SUBSET EventsOf(rows \ linked) :
       \E counted \in SUBSET seen :
          /\ UpsertEvents(seen \cup filled, counted \cup filled)
          /\ linked' = (linked \ cycle.listing) \cup
                       {m \in cycle.listing : counts'[MarketOf[m].event] # NoEvent}
    /\ rows' = rows \cup cycle.listing
    /\ booked' = cycle.books \cap cycle.listing
    /\ cycle' = [cycle EXCEPT !.phase = "stored"]
    /\ UNCHANGED matched

\* Between cycles the matcher may verify other pairs of stored markets.
Rematch ==
    /\ cycle.phase = "stored"
    /\ \E legs \in SUBSET (rows \cap Matchable) : matched' = legs
    /\ cycle' = [cycle EXCEPT !.phase = "idle", !.listing = {}, !.picked = {}, !.books = {}]
    /\ booked' = {}
    /\ UNCHANGED <<rows, counts, linked>>

IngestNext == FetchListing \/ FetchBooks \/ Persist \/ Rematch

IngestSpec == IngestInit /\ [][IngestNext]_ingestVars

-----------------------------------------------------------------------------
(* What the cycle promises. *)

\* The three reserves of the order-book budget are floors (select_for_orderbooks):
\* no cycle asks for more books than its budget; the matched legs come first, up to
\* their share; the scoring order leaves the coverage reserve free, and what it
\* leaves goes first to the most traded market its series cap allows; and an
\* unspent slot means that no market that could be scored went without a book.
ReservesAreFloors ==
    cycle.phase = "selected" =>
        LET pool == cycle.listing \cup (matched \cap rows)
            legs == MatchedLegs(pool)
            spent == ScoringPass(pool, legs)
            rest == {m \in Tradeable(pool) \ spent : Cardinality(Series(m, spent)) < SeriesCap}
        IN  /\ Cardinality(cycle.picked) <= BookBudget
            /\ legs \subseteq cycle.picked
            /\ Cardinality(spent) <= BookBudget - CoverageReserve \/ spent = legs
            /\ Cardinality(cycle.picked) < BookBudget =>
                  ScoringEligible(pool) \subseteq cycle.picked
            /\ CoverageReserve > 0 /\ Cardinality(spent) < BookBudget =>
                  \A m \in rest : (\A k \in rest \ {m} : MarketOf[k].volume < MarketOf[m].volume)
                                      => m \in cycle.picked

\* The leg of a verified match that was given a place in the budget and whose book
\* came back has that book stored in the same cycle (fetch_platform: "so the
\* reserve can always reach both halves of a pair").
MatchedBooksAreStored ==
    cycle.phase = "stored" =>
        cycle.books \cap matched \subseteq booked

=============================================================================
