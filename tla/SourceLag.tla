------------------------------- MODULE SourceLag -------------------------------
(***************************************************************************)
(* The source-lag strategy, one decision at a time: the context the         *)
(* simulator builds (simulator._context), the factors it needs              *)
(* (alpha/factors.py), the rule-based alpha score (alpha/models.py), the    *)
(* signal, its size and its order (alpha/strategy.py, sizing.py), and what  *)
(* becomes of the position at its next review (ConvergenceMode).            *)
(*                                                                         *)
(* A situation is what a decision may look at: the market m, the book (asks *)
(* by side; the bids of a side are the asks of the other, mirrored), the    *)
(* estimate [low, mid, high, independent], the newest source estimates      *)
(* (source, at most two, oldest first) and whether they are fresh, the      *)
(* market's prices before and after the source's update, and the dollars    *)
(* the exposure ledger has left.  Prices are steps of 1/One dollar; a       *)
(* missing value is the empty set or sequence.                              *)
(***************************************************************************)
EXTENDS BookPricing

CONSTANTS
    Situations,    \* what the strategy may decide on
    Reviews,       \* and what it may find at the review: [fair, book, fresh, held, left]
    ResearchSize,  \* the size prices are asked at (100)
    MinEdge,       \* SourceLagConvergenceStrategy.min_edge and min_edge_per_contract
    MakerSpread,   \* maker_spread_threshold
    MinGap,        \* min_unabsorbed_gap
    Absorption,    \* absorption_assumption, per cent
    MinMove,       \* min_expected_move
    MaxWidth,      \* max_interval_width
    Base,          \* base_notional_usd, in money
    ShareOf,       \* one part in ShareOf of the profitable depth may be used
    Converged,     \* converged_fraction, per cent
    Invalidation,  \* invalidation_move
    RiskStop,      \* risk_stop_per_contract
    MaxHold,       \* max_hold, in hours
    Buffer         \* settlement_buffer, in hours

\* What may be decided on: fees of at most the whole price; asks sorted, best first
\* (parse_orderbook, _parse_book_sides), on the venue's lattice of ticks.
QuotedMarkets ==
    [venue : {"kalshi", "polymarket"}, rate : 0..100, flat : BOOLEAN, tick : Nat \ {0},
     maker : 0..100]
QuotedBooks ==
    LET Ladder == {ls \in Seq([price : 1..(One - 1), size : Nat \ {0}]) :
                     \A i, k \in DOMAIN ls : i < k => ls[i].price <= ls[k].price}
    IN  [yes : Ladder, no : Ladder]
OnLattice(m, book) ==
    \A side \in {"yes", "no"} : \A i \in DOMAIN book[side] :
        One % m.tick = 0 /\ book[side][i].price % m.tick = 0
Estimates ==
    {f \in [low : 0..One, mid : 0..One, high : 0..One, independent : BOOLEAN] :
        f.low <= f.mid /\ f.mid <= f.high}

ASSUME SourceLagAssumption ==
    /\ {ResearchSize, ShareOf} \subseteq Nat \ {0}
    /\ {MinEdge, MakerSpread, MinGap, Absorption, MinMove, MaxWidth, Base, Converged,
        Invalidation, RiskStop, MaxHold, Buffer} \subseteq Nat
    /\ 100 * MinEdge >= One
    /\ Situations \subseteq
         {s \in [m : QuotedMarkets, book : QuotedBooks, fair : Estimates,
                source : Seq(0..One), fresh : BOOLEAN,
                before : SUBSET (0..One), after : SUBSET (0..One), headroom : Int] :
            OnLattice(s.m, s.book)}
    /\ Reviews \subseteq
         [fair : Estimates, book : QuotedBooks, fresh : BOOLEAN, held : Nat, left : Int]

VARIABLE lag

lagVars == <<lag>>

Other(side) == IF side = "yes" THEN "no" ELSE "yes"
AbsOf(n) == IF n < 0 THEN -n ELSE n

-----------------------------------------------------------------------------
(* The book *)

Asks(book, side) == book[side]
Ask(book, side) == {l.price : l \in {Asks(book, side)[i] : i \in DOMAIN Asks(book, side) \cap {1}}}
Bid(book, side) == {One - p : p \in Ask(book, Other(side))}

\* The price of n contracts, if there is an ask at all.
PriceOf(book, side, n) ==
    IF Asks(book, side) = <<>> THEN {} ELSE {AveragePrice(Walk(Asks(book, side), n))}

\* The levels of a ladder up to the first one above `limit`.
UpTo(levels, limit) == At(levels, {i \in DOMAIN levels : levels[i].price <= limit})

-----------------------------------------------------------------------------
(* The context: the price a decision is measured against is that of the      *)
(* side the estimate makes the likelier one.                                 *)

Executable(fair, book) ==
    PriceOf(book, IF 2 * fair.mid >= One THEN "yes" ELSE "no", ResearchSize)

\* source_divergence, and the side it implies (_side_for).
Gap(fair, book) == {fair.mid - p : p \in Executable(fair, book)}
SideFor(fair, book) == IF \E g \in Gap(fair, book) : g < 0 THEN "no" ELSE "yes"

\* Mutant of Conservative: the other end of the interval for NO.
OptimisticForNo(fair, side) == IF side = "yes" THEN fair.low ELSE One - fair.low

\* The bound of the interval that may gate a trade on this side.
Conservative(fair, side) == IF side = "yes" THEN fair.low ELSE One - fair.high

-----------------------------------------------------------------------------
(* The alpha score: how much of the gap the market has not absorbed.         *)

\* source_change_magnitude and market_reaction_to_source.
Change(s) == IF Len(s.source) < 2 THEN {} ELSE {s.source[2] - s.source[1]}
Reaction(s) == {a - b : a \in s.after, b \in s.before}

\* The fraction absorbed, clipped to 0..1, as <<part, whole>>.
Absorbed(s) ==
    IF s.source = <<>> \/ Reaction(s) = {} \/ Change(s) \subseteq {0} THEN <<0, 1>>
    ELSE LET change == CHOOSE c \in Change(s) : TRUE
             moved == (CHOOSE r \in Reaction(s) : TRUE) * (IF change < 0 THEN -1 ELSE 1)
             whole == AbsOf(change)
         IN  <<Max({0, Min({whole, moved})}), whole>>

\* The expected move, times 100 and the whole of Absorbed; empty when declined.
ScoreOf(fair, book, fresh, s) ==
    {g * (Absorbed(s)[2] - Absorbed(s)[1]) * Absorption :
        g \in {h \in Gap(fair, book) :
                  /\ fair.independent /\ s.source # <<>> /\ fresh
                  /\ AbsOf(h) * (Absorbed(s)[2] - Absorbed(s)[1]) >= MinGap * Absorbed(s)[2]}}

Score(s) == ScoreOf(s.fair, s.book, s.fresh, s)

-----------------------------------------------------------------------------
(* The economics: what is left per order of n contracts, in money.           *)

LeftAfter(fair, side, price, fee, n) ==
    Money * (Conservative(fair, side) - price) * n - fee

MakerFee(m, n, p) == IF m.venue = "kalshi" THEN KalshiFee(n, p, m.maker) ELSE 0

\* taker_edge, for the contracts the ladder gives at the research size.
TakerEdge(s, side) ==
    {[edge |-> LeftAfter(s.fair, side, p, TakerFee(s.m, n, p), n), n |-> n] :
        p \in PriceOf(s.book, side, ResearchSize),
        n \in {Walk(Asks(s.book, side), ResearchSize).filled}}

Touch(s, side) == {[bid |-> b, ask |-> a] : b \in Bid(s.book, side), a \in Ask(s.book, side)}

\* maker_proposed_edge rests one tick inside the touch, never through it.
Proposed(m, t) == IF t.ask - m.tick > t.bid
                  THEN Min({t.bid + m.tick, t.ask - m.tick}) ELSE t.bid

MakerEdge(s, side) ==
    {[edge |-> LeftAfter(s.fair, side, Proposed(s.m, t),
                         MakerFee(s.m, ResearchSize, Proposed(s.m, t)), ResearchSize),
      n |-> ResearchSize] : t \in Touch(s, side)}

\* executable_capacity_usd: the depth that still pays.
Capacity(s, side) == DepthMoney(UpTo(Asks(s.book, side), Conservative(s.fair, side)))

-----------------------------------------------------------------------------
(* The signal, its size and its order *)

Spread(s, side) == {t.ask - t.bid : t \in Touch(s, side)}

Liquidity(s, side) ==
    IF \E w \in Spread(s, side) : w >= MakerSpread THEN "maker" ELSE "taker"

EdgeOf(s, side) ==
    IF Liquidity(s, side) = "maker" THEN MakerEdge(s, side) ELSE TakerEdge(s, side)

\* evaluate
Actionable(s, side) ==
    /\ Score(s) # {}
    /\ \E e \in EdgeOf(s, side) : e.edge > 0 /\ e.edge >= Money * MinEdge * e.n
    /\ Capacity(s, side) > 0

\* size_position, at the price of the context.
SizePosition(s, side) ==
    LET price == CHOOSE p \in Executable(s.fair, s.book) : TRUE
        headroom == Min({Base, Capacity(s, side) \div ShareOf, s.headroom})
    IN  IF price <= 0 \/ price >= One \/ s.fair.high - s.fair.low > MaxWidth \/ headroom <= 0
        THEN 0 ELSE headroom \div (Money * price)

\* propose: rest one tick inside the touch if there is room, or lift the ask.
LimitOf(s, side) ==
    IF Liquidity(s, side) = "maker"
    THEN {t.bid + s.m.tick : t \in {u \in Touch(s, side) : u.bid + s.m.tick < u.ask}}
    ELSE Ask(s.book, side)

-----------------------------------------------------------------------------
(* Exits, in the order they are asked *)

\* The gap the position was opened on against the gap there is now.
Reversed(entry, now) ==
    \/ entry > 0 /\ now < -Invalidation
    \/ entry < 0 /\ now > Invalidation

Closed(entry, now) == entry # 0 /\ 100 * AbsOf(now) <= Converged * AbsOf(entry)

\* How far the context's price has moved against the position.
Drawdown(pos, price) == IF pos.side = "yes" THEN pos.price - price ELSE price - pos.price

ExitOf(pos, s, r) ==
    LET now == Gap(r.fair, r.book) IN
    IF \E g \in now : Reversed(pos.gap, g) THEN "signal_invalidated"
    ELSE IF \E g \in now : Closed(pos.gap, g) THEN "converged"
    ELSE IF \E e \in ScoreOf(r.fair, r.book, r.fresh, s) :
                AbsOf(e) < 100 * MinMove * Absorbed(s)[2] THEN "alpha_decayed"
    ELSE IF r.left <= Buffer THEN "near_settlement"
    ELSE IF r.held >= MaxHold THEN "max_hold"
    ELSE IF \E p \in Executable(r.fair, r.book) : Drawdown(pos, p) >= RiskStop THEN "risk_stop"
    ELSE "hold"

-----------------------------------------------------------------------------

NoDecision == [did |-> "none"]
LagInit == lag = NoDecision

\* One decision: refused, not sized, no room to rest, or an order.
DecideOn(s) ==
    LET side == SideFor(s.fair, s.book)
        n == SizePosition(s, side)
    IN  IF ~Actionable(s, side) THEN [did |-> "declined", s |-> s]
        ELSE IF n < 1 THEN [did |-> "unsized", s |-> s]
        ELSE IF LimitOf(s, side) = {} THEN [did |-> "no_room", s |-> s]
        ELSE [did |-> Liquidity(s, side), s |-> s, side |-> side, n |-> n,
              limit |-> CHOOSE p \in LimitOf(s, side) : TRUE]

DecideLag == lag.did = "none" /\ \E s \in Situations : lag' = DecideOn(s)

\* A taker order lifts the ladder; a resting one fills, in part or whole, at its limit.
OpenLag ==
    /\ lag.did \in {"taker", "maker"}
    /\ \E n \in 1..lag.n :
          LET q == Walk(Asks(lag.s.book, lag.side), lag.n)
              taker == lag.did = "taker" IN
          /\ taker => n = q.filled
          /\ n \in {1, lag.n} \/ taker
          /\ lag' = [did |-> "open", s |-> lag.s, side |-> lag.side, n |-> n,
                     price |-> IF taker THEN AveragePrice(q) ELSE lag.limit,
                     fee |-> IF taker THEN TakerFee(lag.s.m, n, AveragePrice(q))
                             ELSE MakerFee(lag.s.m, n, lag.limit),
                     gap |-> CHOOSE g \in Gap(lag.s.fair, lag.s.book) : TRUE]

\* A review; a position nothing closes waits for the next one.
ReviewLag ==
    /\ lag.did = "open"
    /\ \E r \in Reviews :
          lag' = [did |-> "reviewed", pos |-> lag, r |-> r, trigger |-> ExitOf(lag, lag.s, r)]

HoldOn == lag.did = "reviewed" /\ lag.trigger = "hold" /\ lag' = lag.pos

LagNext == DecideLag \/ OpenLag \/ ReviewLag \/ HoldOn

LagSpec == LagInit /\ [][LagNext]_lagVars

-----------------------------------------------------------------------------

\* The edge a signal promises is computed for a hundred contracts, at a price and
\* a fee nobody pays on the order that is placed.  Still, an order no larger than
\* that gains at every probability of the estimate's interval, fee and rounding at
\* its own size included, whichever side the two price conventions lead to and
\* however little of a resting order fills.
OrdersPayTheirWay ==
    lag.did = "open" /\ lag.n <= ResearchSize =>
        \A p \in {lag.s.fair.low, lag.s.fair.high} :
            Money * (IF lag.side = "yes" THEN p ELSE One - p) * lag.n
                > Money * lag.price * lag.n + lag.fee

\* An order rests at the very price its edge was computed for, though two
\* functions of two files find that price.
RestsWherePriced ==
    lag.did = "maker" =>
        \A t \in Touch(lag.s, lag.side) :
            lag.limit = Proposed(lag.s.m, t) /\ t.bid < lag.limit /\ lag.limit < t.ask

\* A position whose source has reversed is told as a thesis that was wrong, not as
\* one that came true, timed out or was stopped.
WrongIsCalledWrong ==
    lag.did = "reviewed" /\ lag.trigger # "signal_invalidated" =>
        \A g \in Gap(lag.r.fair, lag.r.book) :
            /\ lag.pos.gap > 0 => g >= -Invalidation
            /\ lag.pos.gap < 0 => g <= Invalidation

SignalsAreHonest == OrdersPayTheirWay /\ RestsWherePriced /\ WrongIsCalledWrong
================================================================================
