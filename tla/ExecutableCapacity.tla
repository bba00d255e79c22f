-------------------------- MODULE ExecutableCapacity --------------------------
(***************************************************************************)
(* How much a supposed edge could buy: the preflight reads the captured     *)
(* books one after the other (scripts/capacity_preflight.py), while the     *)
(* worker may prune them, prices orders on each side (alpha/capacity.py)    *)
(* and reports which books are worth trading at which edge.                 *)
(*                                                                         *)
(* A capture is [m, live, marketLive, yes, no], a side [asks, bids], each a *)
(* sequence of [price, size] as stored.  The mid may fall between two steps *)
(* of the lattice, so edges per contract are kept doubled.                  *)
(***************************************************************************)
EXTENDS BookPricing

CONSTANTS
    Captures,      \* the lists of captures a store may hold
    Alphas,        \* DEFAULT_ALPHAS, in price steps
    Grid,          \* _SEARCH_GRID
    ReportSize,    \* the size edges are told at (100)
    EdgeFloor      \* the stricter floor of max_one_cent, in price steps

\* What may be stored: both clients sort the bids, best first; levels may be malformed.
StoredRows == Seq([price : Int, size : Int])
StoredSides ==
    {s \in [asks : StoredRows, bids : StoredRows] :
        \A i, k \in DOMAIN s.bids : i < k => s.bids[k].price <= s.bids[i].price}
StoredBooks ==
    [m : FeeMarkets, live : BOOLEAN, marketLive : BOOLEAN, yes : StoredSides, no : StoredSides]

ASSUME CapacityAssumption ==
    /\ Captures \subseteq Seq(StoredBooks)
    /\ Alphas \subseteq Nat /\ Grid \subseteq Nat \ {0} /\ Grid # {}
    /\ ReportSize \in Nat \ {0} /\ EdgeFloor \in Nat

VARIABLE capacity

capacityVars == <<capacity>>

-----------------------------------------------------------------------------
(* A book *)

\* levels_from_rows: malformed levels go, the stored order stays.
LevelsFromRows(rows) ==
    At(rows, {i \in DOMAIN rows : 0 < rows[i].price /\ rows[i].price < One /\ rows[i].size > 0})

BookOf(c, side) ==
    [asks |-> LevelsFromRows(c[side].asks), bids |-> LevelsFromRows(c[side].bids)]

TwoSided(book) == book.asks # <<>> /\ book.bids # <<>>

\* The mid, doubled; only a two-sided book has one.
TwiceMid(book) == BestAsk(book.asks) + Head(book.bids).price

-----------------------------------------------------------------------------
(* One hypothetical order of n contracts, hold to settlement or round trip *)

\* The venue's fee per contract, doubled.
FeeEach(m, q) == HalfUp(2 * TakerFee(m, q.filled, AveragePrice(q)), q.filled)

EntryCost(m, book, n) ==
    LET q == Walk(book.asks, n) IN
    Money * (2 * AveragePrice(q) - TwiceMid(book)) + FeeEach(m, q)

\* The exit sells into the bids, as far as they go, and pays again.
ExitCost(m, book, n) ==
    LET out == Walk(book.bids, Walk(book.asks, n).filled) IN
    Money * (TwiceMid(book) - 2 * AveragePrice(out)) + FeeEach(m, out)

\* CapacityPoint.net_edge under the two economics.
NetEdge(m, book, alpha, n) == 2 * Money * alpha - EntryCost(m, book, n)
RoundTripEdge(m, book, alpha, n) == NetEdge(m, book, alpha, n) - ExitCost(m, book, n)

-----------------------------------------------------------------------------
(* The largest size whose edge is still at least a floor *)

\* What the scan asks for ends with the first size the ladder cannot fill.
Asked(book) == {g \in Grid : \A h \in Grid : h < g => h <= Depth(book.asks)}

Qualifying(m, book, alpha, floor) ==
    {n \in {Walk(book.asks, g).filled : g \in Asked(book)} :
        NetEdge(m, book, alpha, n) >= 2 * Money * floor}

\* Mutant of MaxExecutableSize: the scan ends with the first size that does not pay.
UpToTheFirstLoss(m, book, alpha, floor) ==
    Max({0} \cup {n \in Qualifying(m, book, alpha, floor) :
                    \A g \in Asked(book) :
                       g < n => NetEdge(m, book, alpha, g) >= 2 * Money * floor})

MaxExecutableSize(m, book, alpha, floor) ==
    Max({0} \cup Qualifying(m, book, alpha, floor))

-----------------------------------------------------------------------------
(* The preflight *)

Observation(c, side) ==
    LET book == BookOf(c, side) IN
    [m |-> c.m, book |-> book,
     positive |-> [a \in Alphas |-> MaxExecutableSize(c.m, book, a, 0)],
     strict |-> [a \in Alphas |-> MaxExecutableSize(c.m, book, a, EdgeFloor)]]

\* Both sides of a capture, one after the other; a side without a mid is left out.
ObservationsOf(c) ==
    LET both == <<"yes", "no">>
        sides == At(both, {i \in 1..2 : TwoSided(BookOf(c, both[i]))})
    IN  [i \in DOMAIN sides |-> Observation(c, sides[i])]

CapacityInit == capacity = [did |-> "none"]

\* The query: books of live provenance, in order.
StartPreflight ==
    /\ capacity.did = "none"
    /\ \E cs \in Captures :
          capacity' = [did |-> "reading", seen |-> <<>>,
                       todo |-> At(cs, {i \in DOMAIN cs : cs[i].live})]

\* A live book of a market that is not live refuses the whole report.
PriceCapture ==
    /\ capacity.did = "reading" /\ capacity.todo # <<>>
    /\ capacity' = IF ~Head(capacity.todo).marketLive THEN [did |-> "refused"]
                   ELSE [did |-> "reading",
                         seen |-> capacity.seen \o ObservationsOf(Head(capacity.todo)),
                         todo |-> Tail(capacity.todo)]

\* The worker prunes a book whose levels are not read yet.
PruneCapture ==
    /\ capacity.did = "reading"
    /\ \E i \in DOMAIN capacity.todo :
          capacity' = [capacity EXCEPT !.todo[i].yes = [asks |-> <<>>, bids |-> <<>>],
                                       !.todo[i].no = [asks |-> <<>>, bids |-> <<>>]]

CountOf(seen, test(_)) == Cardinality({i \in DOMAIN seen : test(seen[i])})

Report(seen) ==
    [did |-> "reported", seen |-> seen,
     tradeable |-> [a \in Alphas |-> CountOf(seen, LAMBDA o : o.positive[a] > 0)],
     holding |-> [a \in Alphas |->
        CountOf(seen, LAMBDA o : NetEdge(o.m, o.book, a, ReportSize) > 0)],
     roundTrip |-> [a \in Alphas |->
        CountOf(seen, LAMBDA o : RoundTripEdge(o.m, o.book, a, ReportSize) > 0)]]

ReportCapacity ==
    /\ capacity.did = "reading" /\ capacity.todo = <<>>
    /\ capacity' = IF capacity.seen = <<>> THEN [did |-> "insufficient"]
                   ELSE Report(capacity.seen)

CapacityNext == StartPreflight \/ PriceCapture \/ PruneCapture \/ ReportCapacity

CapacitySpec == CapacityInit /\ [][CapacityNext]_capacityVars

-----------------------------------------------------------------------------

\* What n contracts bought at once gain if the edge is real, doubled, from the
\* ladder itself: no average, no fee per contract.
TwiceGain(o, alpha, n) ==
    LET q == Walk(o.book.asks, n) IN
    Money * n * (TwiceMid(o.book) + 2 * alpha)
        - 2 * (q.notional + TakerFee(o.m, n, AveragePrice(q)))

\* What averaging the price and dividing the fee may hide.
TwiceSlack(o, n) ==
    LET q == Walk(o.book.asks, n)
        hidden == q.notional - Money * AveragePrice(q) * n
    IN  2 * Max({hidden, -hidden}) + n

Buyable(o) ==
    {n \in Grid \cup {Depth(o.book.asks)} :
        n <= Depth(o.book.asks) /\ \E g \in Grid : n <= g}

SizePays(o, alpha, floor, size) ==
    /\ size > 0 => TwiceGain(o, alpha, size) >= 2 * Money * floor * size - TwiceSlack(o, size)
    /\ \A n \in Buyable(o) :
          n > size => TwiceGain(o, alpha, n) < 2 * Money * floor * n + TwiceSlack(o, n)

\* The sizes a report rests on can be bought at the profit they are told with, and
\* no larger size of the grid could, although the fee of a whole order makes the
\* profit rise and fall with size; a greater edge never buys less, a stricter floor
\* never more, a round trip on an uncrossed book never beats holding, and books
\* that vanish while they are read leave no trace.
CapacityCanBeHad ==
    capacity.did = "reported" =>
        /\ \A i \in DOMAIN capacity.seen : LET o == capacity.seen[i] IN
              \A a \in Alphas :
                 /\ SizePays(o, a, 0, o.positive[a]) /\ SizePays(o, a, EdgeFloor, o.strict[a])
                 /\ o.strict[a] <= o.positive[a]
                 /\ \A b \in Alphas : a < b => o.positive[a] <= o.positive[b]
        /\ \A a \in Alphas :
              (\A i \in DOMAIN capacity.seen :
                  LET book == capacity.seen[i].book IN Head(book.bids).price < BestAsk(book.asks))
              => capacity.roundTrip[a] <= capacity.holding[a]
        /\ \A a \in Alphas, b \in Alphas : a < b => capacity.tradeable[a] <= capacity.tradeable[b]
================================================================================
