----------------------------- MODULE ArbitrageScan -----------------------------
(***************************************************************************)
(* The scanners of run_arbitrage_scan, one market, pair, event or strike    *)
(* family at a time: complete set, multi-outcome basket (long and short),   *)
(* cross-platform pair, monotonicity hedge, stale quote.  scan holds the    *)
(* last opportunity examined: what was asked, and what was found.           *)
(*                                                                         *)
(* A leg is [m, side, levels]: a market, the side bought, and its asks.  A   *)
(* market has [venue, rate, flat, tick].  sets = 0 stands for None.         *)
(***************************************************************************)
EXTENDS BookPricing

CONSTANTS Markets,        \* markets a scan may meet
          Books,          \* books [yes, no] of ask ladders
          Conditions,     \* what else a scan meets: [stale, open, apart]
          Verdicts,       \* equivalence verdicts of a matched pair
          Probabilities,  \* win probabilities, in price steps
          Mids,           \* mid prices of a quote observation
          MinNotional,    \* settings.min_orderbook_notional_usd, in money
          ExecutionRisk,  \* settings.cross_platform_execution_risk_usd, per set
          LiquidDepth,    \* settings.liquid_depth_threshold_usd, in money
          EdgeLiquid,     \* settings.min_edge_cross_platform, per cent
          EdgeThin,       \* settings.min_edge_cross_platform_illiquid, per cent
          MinDivergence,  \* stale.MIN_DIVERGENCE, in price steps
          MinViolation    \* logical.MIN_VIOLATION, in price steps

ASSUME ArbitrageAssumption ==
    /\ Markets \subseteq FeeMarkets
    /\ Books \subseteq [yes : Ladders, no : Ladders]
    /\ ExecutionRisk \in Nat

VARIABLE scan

scanVars == <<scan>>

NoScan == [kind |-> "none", label |-> "none", sets |-> 0, legs |-> <<>>]

Leg(m, side, levels) == [m |-> m, side |-> side, levels |-> levels]

\* The fill-quality labels, the last test of the code winning.
FillLabel(base, c, money) ==
    IF ~c.open THEN "EXECUTION_RISK"
    ELSE IF money < MinNotional THEN "INSUFFICIENT_LIQUIDITY"
    ELSE IF c.stale THEN "STALE_QUOTE"
    ELSE base

Quotable(legs) == \A i \in DOMAIN legs : legs[i].levels # <<>>
Tops(legs) == SumOver(legs, LAMBDA l : BestAsk(l.levels))

\* The sizes of a matched walk of two ladders: where a level of either is used
\* up, while the pair still costs less than a dollar.
MatchedSizes(legs) ==
    LET a == legs[1].levels
        b == legs[2].levels
        reach == {n \in 1..MaxUnits(legs) :
                     \A k \in 1..n : UnitPrice(a, k) + UnitPrice(b, k) < One}
    IN  reach \cap (Boundaries(a) \cup Boundaries(b))

\* Of the sizes, each with its net result, the smallest whose result is the best
\* one; 0 if none pays.
SmallestBest(net) ==
    LET paying == {n \in DOMAIN net : net[n] > 0} IN
    IF paying = {} THEN 0
    ELSE Min({n \in paying : \A k \in paying : net[k] <= net[n]})

LargestBest(net) ==
    LET paying == {n \in DOMAIN net : net[n] > 0} IN
    IF paying = {} THEN 0
    ELSE Max({n \in paying : \A k \in paying : net[k] <= net[n]})

-----------------------------------------------------------------------------
(* Complete set: YES and NO of one market. *)

CompleteSetCost(legs, n) ==
    NotionalOf(legs, n) + FeesOf(legs, n) + PadsOf(legs, n)
        + TransferOf(legs[1].m) + CapitalOf(legs, n)

CompleteSetNet(legs, n) == Dollar * n - CompleteSetCost(legs, n)

CompleteSetSize(legs) ==
    IF ~Quotable(legs) \/ Tops(legs) >= One THEN 0
    ELSE SmallestBest([n \in MatchedSizes(legs) |-> CompleteSetNet(legs, n)])

ScanCompleteSet ==
    \E m \in Markets, book \in Books :
        LET legs == <<Leg(m, "yes", book.yes), Leg(m, "no", book.no)>>
            n == CompleteSetSize(legs)
        IN  \E c \in Conditions :
              scan' = [kind |-> "complete", legs |-> legs, sets |-> n,
                       label |-> IF n = 0 THEN "none"
                                 ELSE FillLabel("EXECUTABLE", c, CompleteSetCost(legs, n))]

-----------------------------------------------------------------------------
(* Multi-outcome: one leg per outcome of an event, all YES or all NO. *)

BasketCost(legs, n) ==
    RoundedNotionalOf(legs, n) + FeesOf(legs, n) + PadsOf(legs, n) + TransfersOf(legs)

PayoutPerSet(legs) == IF legs[1].side = "yes" THEN 1 ELSE Len(legs) - 1
BasketNet(legs, n) == Dollar * n * PayoutPerSet(legs) - BasketCost(legs, n)

BasketSizes(legs) ==
    LET ceiling == MaxUnits(legs) IN
    {n \in {ceiling} \cup UNION {Boundaries(legs[i].levels) : i \in DOMAIN legs} :
        1 <= n /\ n <= ceiling}

\* Mutant of BasketSize: all the books can fill, whatever the deeper levels cost.
FillTheBooks(legs) ==
    IF ~Quotable(legs) \/ Tops(legs) >= One * PayoutPerSet(legs) THEN 0 ELSE MaxUnits(legs)

BasketSize(legs) ==
    IF ~Quotable(legs) \/ Tops(legs) >= One * PayoutPerSet(legs) THEN 0
    ELSE LargestBest([n \in BasketSizes(legs) |-> BasketNet(legs, n)])

\* Whether the payout the basket is priced for is a guaranteed one.
PremiseHolds(legs, ev) ==
    IF legs[1].side = "yes" THEN ev.exhaustive \/ ev.negativeRisk
    ELSE ev.exclusive /\ (ev.negativeRisk \/ Len(legs) = 2)

BasketLabel(legs, ev, n, c) ==
    IF n = 0 THEN "none"
    ELSE IF ~PremiseHolds(legs, ev) THEN "NOT_GUARANTEED"
    ELSE FillLabel("EXECUTABLE", c, BasketCost(legs, n) \div PayoutPerSet(legs))

\* The better direction by return on capital: a beats b.
BetterReturn(a, na, b, nb) ==
    na > 0 /\ (nb = 0 \/ BasketNet(a, na) * BasketCost(b, nb) > BasketNet(b, nb) * BasketCost(a, na))

\* Mutant of CountAgrees: only a basket with too few legs is refused.
EnoughLegs(legs, outcomes) == Len(legs) >= outcomes

\* The venue's own count of the event's outcomes is the authority.
CountAgrees(legs, outcomes) == Len(legs) = outcomes

EventKinds == [exclusive : BOOLEAN, exhaustive : BOOLEAN, negativeRisk : BOOLEAN]

\* The basket of the direction that pays better.
BetterBasket(m, books) ==
    LET long == [i \in DOMAIN books |-> Leg(m, "yes", books[i].yes)]
        short == [i \in DOMAIN books |-> Leg(m, "no", books[i].no)]
    IN  IF BetterReturn(short, BasketSize(short), long, BasketSize(long)) THEN short ELSE long

ScanMultiOutcome ==
    \E m \in Markets, k \in {2, 3} : \E books \in [1..k -> Books] :
    \E legs \in {BetterBasket(m, books)} : \E size \in {BasketSize(legs)} :
    \E ev \in EventKinds, outcomes \in {k - 1, k, k + 1}, c \in Conditions :
        LET n == IF CountAgrees(legs, outcomes) THEN size ELSE 0 IN
        scan' = [kind |-> "multi", legs |-> legs, sets |-> n, ev |-> ev,
                 outcomes |-> outcomes, label |-> BasketLabel(legs, ev, n, c)]

-----------------------------------------------------------------------------
(* Cross-platform: one side of each market of a matched pair. *)

Flip(side) == IF side = "yes" THEN "no" ELSE "yes"

\* The leg that hedges `side` of the first market on the second.
HedgingSide(side, inverted) == IF inverted THEN side ELSE Flip(side)

PairCost(legs, n) ==
    NotionalOf(legs, n) + FeesOf(legs, n) + PadsOf(legs, n) + TransfersOf(legs)
        + CapitalOf(legs, n) + ExecutionRisk * n

PairNet(legs, n) == Dollar * n - PairCost(legs, n)

\* The gate on the achieved edge, in tiers of the thinner leg's depth.
ClearsEdge(legs, n) ==
    LET depth == Min({DepthMoney(legs[i].levels) : i \in DOMAIN legs})
        edge == IF depth >= LiquidDepth THEN EdgeLiquid ELSE EdgeThin
    IN  100 * PairNet(legs, n) >= edge * PairCost(legs, n)

PairSize(legs) ==
    IF ~Quotable(legs) \/ Tops(legs) >= One THEN 0
    ELSE LET n == SmallestBest([k \in {BasketUnits(legs, k) : k \in MatchedSizes(legs)} |->
                                   PairNet(legs, k)])
         IN  IF n > 0 /\ ClearsEdge(legs, n) THEN n ELSE 0

LabelForVerdict(verdict) ==
    CASE verdict = "STRICT" -> "EXECUTABLE"
      [] verdict \in {"STANDARD", "PROBABLE"} -> "RULE_MISMATCH_RISK"
      [] OTHER -> "NOT_GUARANTEED"

PairLabel(legs, verdict, n, c) ==
    LET label == FillLabel(LabelForVerdict(verdict), c, PairCost(legs, n)) IN
    IF n = 0 THEN "none"
    ELSE IF c.apart /\ label = "EXECUTABLE" THEN "EXECUTION_RISK" ELSE label

Orientation(a, b, side, inverted) ==
    LET other == HedgingSide(side, inverted) IN
    <<Leg(a.m, side, a.book[side]), Leg(b.m, other, b.book[other])>>

\* Profit per set decides between the two orientations.
BetterPair(a, na, b, nb) ==
    na > 0 /\ (nb = 0 \/ PairNet(a, na) * nb > PairNet(b, nb) * na)

BetterOrientation(a, b, inverted) ==
    LET first == Orientation(a, b, "yes", inverted)
        second == Orientation(a, b, "no", inverted)
    IN  IF BetterPair(second, PairSize(second), first, PairSize(first)) THEN second ELSE first

ScanCrossPlatform ==
    \E a, b \in [m : Markets, book : Books], inverted \in BOOLEAN :
    \E legs \in {BetterOrientation(a, b, inverted)} : \E size \in {PairSize(legs)} :
    \E verdict \in Verdicts, c \in Conditions :
        LET n == IF verdict = "REJECTED" THEN 0 ELSE size IN
        /\ a.m.venue = "kalshi" /\ b.m.venue = "polymarket"
        /\ scan' = [kind |-> "cross", legs |-> legs, sets |-> n, inverted |-> inverted,
                    label |-> PairLabel(legs, verdict, n, c)]

-----------------------------------------------------------------------------
(* Monotonicity: of two neighbouring strikes the stronger one is dearer; the *)
(* hedge is YES of the weaker with NO of the stronger.                       *)

HedgeCost(legs, n) == RoundedNotionalOf(legs, n) + FeesOf(legs, n) + PadsOf(legs, n)

\* The bisection of _price_monotonicity_hedge ends at the largest size whose
\* average prices add up to less than a dollar, the average growing with size.
HedgeSize(legs) ==
    LET cheap == {n \in 1..MaxUnits(legs) :
                    SumOver(legs, LAMBDA l : AveragePrice(Walk(l.levels, n))) < One}
    IN  IF ~Quotable(legs) \/ Tops(legs) >= One \/ cheap = {} THEN 0 ELSE Max(cheap)

ScanMonotonicity ==
    \E m \in Markets, weaker, stronger \in Books :
        LET legs == <<Leg(m, "yes", weaker.yes), Leg(m, "no", stronger.no)>>
            n == HedgeSize(legs)
            cost == HedgeCost(legs, n)
            base == IF Dollar * n > cost THEN "EXECUTABLE" ELSE "LOGICAL_MISPRICING"
        IN  /\ weaker.yes # <<>> /\ stronger.yes # <<>>
            /\ BestAsk(stronger.yes) - BestAsk(weaker.yes) > MinViolation
            /\ \E c \in Conditions :
                 scan' = [kind |-> "logical", legs |-> legs, sets |-> n,
                          label |-> IF n = 0 THEN "LOGICAL_MISPRICING"
                                    ELSE FillLabel(base, c, cost)]

-----------------------------------------------------------------------------
(* Stale quote: the leader moved, the laggard did not follow. *)

Abs(x) == IF x < 0 THEN -x ELSE x

Lags(leader, laggard) ==
    LET move == leader.now - leader.before
        followed == laggard.now - laggard.before
    IN  /\ Abs(move) >= MinDivergence
        /\ 2 * Abs(followed) < Abs(move)
        /\ Abs(leader.now - laggard.now) >= MinDivergence

ScanStaleQuote ==
    \E leader, laggard \in [now : Mids, before : Mids], m \in Markets, book \in Books :
        LET side == IF leader.now > laggard.now THEN "yes" ELSE "no" IN
        /\ book[side] # <<>>
        /\ Lags(leader, laggard)
        /\ scan' = [kind |-> "stale", legs |-> <<Leg(m, side, book[side])>>, sets |-> 0,
                    label |-> "STALE_QUOTE"]

-----------------------------------------------------------------------------
(* The capacity shown beside a recommendation. *)

AskCapacity ==
    \E m \in Markets, book \in Books, p \in Probabilities :
        scan' = [kind |-> "capacity", legs |-> <<Leg(m, "yes", book.yes)>>, p |-> p,
                 label |-> "none", sets |-> MaxProfitableSize(m, book.yes, p, 5000, 24)]

-----------------------------------------------------------------------------

ScanInit == scan = NoScan

\* run_arbitrage_scan goes from one opportunity to the next.
ScanNext ==
    \/ scan = NoScan /\ (\/ ScanCompleteSet \/ ScanMultiOutcome \/ ScanCrossPlatform
                         \/ ScanMonotonicity \/ ScanStaleQuote \/ AskCapacity)
    \/ scan # NoScan /\ scan' = NoScan

ScanSpec == ScanInit /\ [][ScanNext]_scanVars
-----------------------------------------------------------------------------
(* What the labels promise. *)

Half == One \div 2
Winners(w) == {i \in DOMAIN w : w[i] = One}

\* What YES of each leg's market may pay, as far as the venue's assertions, the
\* implication of the strikes or the verified equivalence of the pair allow.  A
\* void pays a half on each leg.  More legs than the venue has outcomes means that
\* two of them, here the first two, are one outcome.
Admits(s, w) ==
    CASE s.kind = "complete" -> w[1] = w[2]
      [] s.kind = "cross" -> w[2] = IF s.inverted THEN One - w[1] ELSE w[1]
      [] s.kind = "logical" -> w \in {<<0, 0>>, <<One, 0>>, <<One, One>>, <<Half, Half>>}
      [] s.kind = "multi" ->
            \/ ~s.ev.negativeRisk /\ \A i \in DOMAIN w : w[i] = Half
            \/ /\ \A i \in DOMAIN w : w[i] # Half
               /\ s.outcomes < Len(w) => w[1] = w[2]
               /\ s.ev.exclusive =>
                     Cardinality(Winners(w) \ (IF s.outcomes < Len(w) THEN {1} ELSE {})) <= 1
               /\ /\ s.ev.exhaustive \/ s.ev.negativeRisk
                  /\ s.outcomes <= Len(w)
                  => Winners(w) # {}
      [] OTHER -> FALSE

PayoffPerSet(s, w) ==
    Money * Total([i \in DOMAIN w |-> IF s.legs[i].side = "yes" THEN w[i] ELSE One - w[i]], Len(w))

\* What buying the legs really takes from the account.
Paid(s) == NotionalOf(s.legs, s.sets) + FeesOf(s.legs, s.sets)

\* The label EXECUTABLE, the only one that claims a guaranteed payout, is put on
\* legs that return more than they cost in every resolution the event, the strikes
\* or the pair can have (scan_complete_set, _scan_basket, _scan_orientation,
\* _build_logical_result).
GuaranteeHolds ==
    scan.label = "EXECUTABLE" =>
        \A w \in {v \in [DOMAIN scan.legs -> {0, Half, One}] : Admits(scan, v)} :
            scan.sets * PayoffPerSet(scan, w) > Paid(scan)

NetOf(s, n) ==
    CASE s.kind = "complete" -> CompleteSetNet(s.legs, n)
      [] s.kind = "multi" -> BasketNet(s.legs, n)
      [] s.kind = "cross" -> PairNet(s.legs, n)
      [] s.kind = "capacity" -> Profit(s.legs[1].m, s.legs[1].levels, n, s.p)

\* What whole-cent fees and rounded average prices can hide, per leg.
RoundingSlack(s) == Len(s.legs) * (Cent + (Money * MaxUnits(s.legs)) \div 2)

\* Scans that answer with a size, or with "no size pays".
SizeReported(s) ==
    \/ s.kind = "complete"
    \/ s.kind = "multi" /\ CountAgrees(s.legs, s.outcomes)
    \/ s.kind = "cross" /\ s.sets > 0

\* Sizing is on net profit: no size the books could fill beats the one reported by
\* more than the venues' rounding (_best_net_size, _max_matched_sets,
\* _walk_pair_boundaries); a capacity pays, and is not zero when both the smallest
\* order and the whole book pay (max_profitable_size).
SizeIsBest ==
    /\ SizeReported(scan) =>
          \A n \in 1..MaxUnits(scan.legs) :
              NetOf(scan, n) <= (IF scan.sets = 0 THEN 0 ELSE NetOf(scan, scan.sets))
                                    + RoundingSlack(scan)
    /\ scan.kind = "capacity" =>
          IF scan.sets > 0
          THEN scan.sets <= MaxUnits(scan.legs) /\ NetOf(scan, scan.sets) > 0
          ELSE MaxUnits(scan.legs) > 0 => NetOf(scan, 1) <= 0

\* What a scan reports is worth what it says: its guarantee, and its size.
ScansPayWhatTheySay == GuaranteeHolds /\ SizeIsBest
==============================================================================
