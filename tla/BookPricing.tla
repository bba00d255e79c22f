------------------------------ MODULE BookPricing ------------------------------
(***************************************************************************)
(* What an order costs: the walk of an ask ladder, the venues' fees and    *)
(* their rounding, the pads the scanners add, a basket of several legs, and *)
(* the largest size worth buying.  Operators only.                         *)
(*                                                                         *)
(* A price is a number of steps of 1/One dollar (the code's lattice is     *)
(* 1/10000), an amount of money a number of units of 1/10 step, so that    *)
(* the venues' roundings (cent, fifth decimal) keep their proportions.     *)
(* Sizes are whole contracts.  A ladder is a sequence of [price, size].    *)
(***************************************************************************)
EXTENDS Integers, Sequences, FiniteSets, SequencesExt

CONSTANTS One,           \* price steps in a dollar
          SlippageTicks, \* settings.slippage_ticks
          TransferCost,  \* settings.polymarket_transfer_cost_usd, in money
          Interest       \* capital cost until resolution, per cent of the price

ASSUME PricingAssumption ==
    /\ One \in Nat \ {0} /\ One % 100 = 0
    /\ {SlippageTicks, TransferCost, Interest} \subseteq Nat

Money == 10                          \* units of money in a price step
Cent == Money * (One \div 100)
Dollar == Money * One

CeilDiv(a, b) == -((-a) \div b)
HalfUp(a, b) == (2 * a + b) \div (2 * b)

-----------------------------------------------------------------------------
(* The book *)

\* A ladder's levels are prices and sizes (pricing.orderbook.BookLevel).
BookLevels == [price : Nat, size : Nat]
Ladders == Seq(BookLevels)

\* The sum of the first n values of f.
Total(f, n) ==
    LET sum[i \in 0..n] == IF i = 0 THEN 0 ELSE sum[i - 1] + f[i] IN sum[n]

\* The entries of a sequence at some positions, in order.
At(s, positions) ==
    LET nth(n) == CHOOSE i \in positions : Cardinality({j \in positions : j <= i}) = n
    IN  [n \in 1..Cardinality(positions) |-> s[nth(n)]]

\* What contracts of a size at a price come to, level by level.
Worth(levels, sizes) == [i \in DOMAIN levels |-> Money * sizes[i] * levels[i].price]

\* Contracts on the first i levels, on all of them, and their cost.
Sizes(levels) == [i \in DOMAIN levels |-> levels[i].size]
DepthTo(levels, i) == Total(Sizes(levels), i)
Depth(levels) == DepthTo(levels, Len(levels))
DepthMoney(levels) == Total(Worth(levels, Sizes(levels)), Len(levels))
BestAsk(levels) == Head(levels).price

\* What is consumed of each level, in order; filled = 0 stands for "no quote".
Taken(levels, target) ==
    [i \in DOMAIN levels |-> Max({0, Min({target - DepthTo(levels, i - 1), levels[i].size})})]

Walk(levels, target) ==
    [filled |-> Total(Taken(levels, target), Len(levels)),
     notional |-> Total(Worth(levels, Taken(levels, target)), Len(levels))]

AveragePrice(q) == HalfUp(q.notional, Money * q.filled)

\* The price of the n-th contract of a ladder.
UnitPrice(levels, n) ==
    levels[CHOOSE i \in 1..Len(levels) :
               DepthTo(levels, i - 1) < n /\ n <= DepthTo(levels, i)].price

\* The sizes at which a level of the ladder is used up.
Boundaries(levels) == {DepthTo(levels, i) : i \in 1..Len(levels)}

-----------------------------------------------------------------------------
(* Fees, of a market [venue, rate (per cent), flat, tick] *)

FeeMarkets == [venue : {"kalshi", "polymarket"}, rate : Nat, flat : BOOLEAN, tick : Nat]

KalshiFee(n, p, rate) ==
    IF n <= 0 \/ p <= 0 \/ p >= One \/ rate <= 0 THEN 0
    ELSE Cent * CeilDiv(rate * n * p * (One - p), One * One)

PolymarketFee(n, p, rate) ==
    IF n <= 0 \/ p <= 0 \/ p >= One \/ rate <= 0 THEN 0
    ELSE HalfUp(rate * n * p * (One - p) * Money, 100 * One)

TakerFee(m, n, p) ==
    IF m.venue = "polymarket" THEN PolymarketFee(n, p, m.rate)
    ELSE IF m.flat THEN Cent * m.rate * n
    ELSE KalshiFee(n, p, m.rate)

TransferOf(m) == IF m.venue = "polymarket" THEN TransferCost ELSE 0
LatencyPad(m, n) == Money * m.tick * SlippageTicks * n
CapitalCost(p, n) == (p * Money * Interest * n) \div 100

\* Everything an order of n contracts costs (build_cost_breakdown times size).
OrderCost(m, levels, n) ==
    LET q == Walk(levels, n)
        p == AveragePrice(q)
    IN  Money * p * q.filled + TakerFee(m, q.filled, p) + LatencyPad(m, q.filled)
            + TransferOf(m) + CapitalCost(p, q.filled)

-----------------------------------------------------------------------------
(* A basket: legs [m, levels], one contract of each per unit *)

MaxUnits(legs) ==
    IF legs = <<>> THEN 0 ELSE Min({Depth(legs[i].levels) : i \in DOMAIN legs})

BasketUnits(legs, units) == Min({units, MaxUnits(legs)})

SumOver(legs, f(_)) == Total([i \in DOMAIN legs |-> f(legs[i])], Len(legs))
NotionalOf(legs, n) == SumOver(legs, LAMBDA l : Walk(l.levels, n).notional)
\* Some scanners multiply the rounded average price by the size instead.
RoundedNotionalOf(legs, n) ==
    SumOver(legs, LAMBDA l : Money * AveragePrice(Walk(l.levels, n)) * n)
FeesOf(legs, n) == SumOver(legs, LAMBDA l : TakerFee(l.m, n, AveragePrice(Walk(l.levels, n))))
PadsOf(legs, n) == SumOver(legs, LAMBDA l : LatencyPad(l.m, n))
TransfersOf(legs) == SumOver(legs, LAMBDA l : TransferOf(l.m))
CapitalOf(legs, n) == CapitalCost(SumOver(legs, LAMBDA l : AveragePrice(Walk(l.levels, n))), n)

-----------------------------------------------------------------------------
(* The largest profitable size, by bisection between the smallest order and *)
(* the depth of the book; the best profit seen on the way is what is        *)
(* returned.  Halvings below one contract change nothing here.              *)

Profit(m, levels, n, winProbability) ==
    Money * winProbability * n - OrderCost(m, levels, n)

MaxProfitableSize(m, levels, winProbability, maxSize, halvings) ==
    LET P(n) == Profit(m, levels, n, winProbability)
        top == Min({Depth(levels), maxSize})
        Halve(b, i) ==
            LET mid == (b.lo + b.hi) \div 2 IN
            IF P(mid) > 0
            THEN [b EXCEPT !.lo = mid, !.best = IF P(mid) > P(@) THEN mid ELSE @]
            ELSE [b EXCEPT !.hi = mid]
    IN  IF top <= 0 THEN 0
        ELSE IF P(top) > 0 THEN top
        ELSE IF P(1) <= 0 THEN 0
        ELSE FoldLeft(Halve, [lo |-> 1, hi |-> top, best |-> 1],
                      [i \in 1..halvings |-> i]).best
==============================================================================
