---------------------------- MODULE TradingProofs ----------------------------
(***************************************************************************)
(* Type correctness of the replay loop, and five results for every list    *)
(* of markets, ceiling and timeline: an order never rests beside an open   *)
(* position, the ledger is the open positions, the ceilings bend by the    *)
(* overpaid and moved notional alone, every signal evaluated is accounted  *)
(* for, and no print is credited twice.                                    *)
(*                                                                         *)
(* Sizes are granted when an order is posted and spent when it fills, so   *)
(* the invariant carries the headroom across: while an order rests, what   *)
(* it was sized for still fits (PendingFits).  That holds because nothing  *)
(* commits in between, which is what OneAtATime is needed for.             *)
(*                                                                         *)
(* What printed and what is open are sums over sets.  The library's sum is *)
(* a recursive function; what it computes is proved by taking, among the   *)
(* sets for which a fact fails, one no part of which is one of them        *)
(* (PartsInduction).                                                       *)
(*                                                                         *)
(* Then the walk of a ladder, its roundings and fees, and what rests on    *)
(* them: the capacities a preflight reports (CapacitiesHold), the orders of *)
(* the source-lag strategy (SignalsHold), the labels of the arbitrage      *)
(* scans (GuaranteesHold) and what entries are said to cost (CostsHold).   *)
(* Sums over levels and legs are recursive functions; what they compute is *)
(* proved by a least counterexample.                                       *)
(***************************************************************************)
EXTENDS StrategySimulator, ArbitrageScan, SourceLag, ExecutableCapacity, EntryCost,
        FiniteSetTheorems, WellFoundedInduction, TLAPS

\* While an order rests, its size at its quote fits every headroom it was
\* checked against.
PendingFits ==
  Resting =>
    /\ \A b \in BucketsOf[market] :
         pending.size * pending.quoted <= Cap[b] - ledger[b]
    /\ pending.size * pending.quoted <= DAY_CAP - deployed[DayOf[pending.posted]]

\* A release never meets the floor of the ledger: every bucket of the market in
\* hand holds at least the open position.
Backed == market <= MARKETS =>
            \A b \in BucketsOf[market] : Notional(position) <= ledger[b]

\* Fills are looked for only while an order rests, and a finished run holds
\* nothing.
PhaseOK ==
  /\ phase = "resting" => Resting
  /\ market > MARKETS => ~Resting /\ ~Holding

Inv == /\ ReplayTypeOK /\ OneAtATime /\ EveryDecisionCounts /\ CapsHold
       /\ PendingFits /\ Backed /\ PhaseOK

-----------------------------------------------------------------------------
(* Arithmetic of a fill.                                                   *)

\* An order sized n at quote q into headroom h, filled for f of its contracts at
\* price p, costs at most h and what p is above q.
LEMMA FillCost ==
  ASSUME NEW n \in Nat, NEW f \in Nat, NEW q \in Nat, NEW p \in Nat, NEW h \in Int,
         f <= n, n * q <= h
  PROVE  f * p <= h + (IF p > q THEN (p - q) * f ELSE 0)
<1>1. f * q <= n * q
  <2>1. PICK d \in Nat : n = f + d
    <3>1. n - f \in Nat /\ n = f + (n - f)
      OBVIOUS
    <3> QED BY <3>1
  <2>2. n * q = f * q + d * q /\ d * q >= 0
    BY <2>1
  <2> QED BY <2>2
<1>2. CASE p > q
  <2>1. f * p = f * q + (p - q) * f
    OBVIOUS
  <2> QED BY <1>1, <1>2, <2>1
<1>3. CASE ~(p > q)
  <2>1. PICK d \in Nat : q = p + d
    <3>1. q - p \in Nat /\ q = p + (q - p)
      BY <1>3
    <3> QED BY <3>1
  <2>2. f * q = f * p + f * d /\ f * d >= 0
    BY <2>1
  <2>3. f * p <= f * q
    BY <2>2
  <2> QED BY <1>1, <1>3, <2>3
<1> QED BY <1>2, <1>3

-----------------------------------------------------------------------------
(* The ledger.                                                             *)

BooksOK == /\ ledger \in [Buckets -> Nat] /\ deployed \in [Days -> Nat]
           /\ overpaid \in Nat /\ moved \in Nat
           /\ CapsHold /\ Backed

LEMMA Booked == Inv => BooksOK
BY DEF Inv, ReplayTypeOK, BooksOK

\* The rest of ReplayTypeOK: where the replay is, and what it holds.
PlaceOK == /\ market \in 1..(MARKETS + 1) /\ when \in 0..LAST
           /\ agenda \in [Kinds -> Nat] /\ event \in Kinds \cup {"none"}
           /\ phase \in {"next", "resting", "dispatch"}
           /\ prints \in [Instants -> [price : Nat, volume : Nat]]
           /\ settled \in BOOLEAN /\ lastReview \in 0..LAST
           /\ left \in [1..MARKETS -> Nat] /\ captured \in Nat
           /\ phase # "next" => market <= MARKETS
TradeOK == /\ pending \in Orders /\ position \in Positions
           /\ owed \in Nat /\ vanished \in Nat

LEMMA Placed == Inv => PlaceOK
BY DEF Inv, ReplayTypeOK, PlaceOK

LEMMA TypeParts == ASSUME BooksOK, PlaceOK, TradeOK PROVE ReplayTypeOK
BY DEF BooksOK, PlaceOK, TradeOK, ReplayTypeOK

LEMMA TypePartsNext == ASSUME BooksOK', PlaceOK', TradeOK' PROVE ReplayTypeOK'
BY DEF BooksOK, PlaceOK, TradeOK, ReplayTypeOK

LEMMA MarketBuckets ==
  ASSUME market \in 1..MARKETS
  PROVE  BucketsOf[market] \subseteq Buckets
BY ReplayAssumption DEF ReplayAssumption

\* Opening a position within the headroom its order was granted.
LEMMA CommitKeeps ==
  ASSUME BooksOK, market \in 1..MARKETS, market' = market, when \in 0..LAST,
         NEW n \in Nat, NEW f \in Nat, NEW q \in Nat, NEW p \in Nat, NEW d \in Days,
         f <= n,
         \A b \in BucketsOf[market] : n * q <= Cap[b] - ledger[b],
         n * q <= DAY_CAP - deployed[d],
         position' = [contracts |-> f, price |-> p],
         Commit([contracts |-> f, price |-> p], q, d)
  PROVE  BooksOK'
<1> DEFINE pos == [contracts |-> f, price |-> p]
           extra == IF p > q THEN (p - q) * f ELSE 0
<1>0. DayOf[when] \in Days /\ DAY_CAP \in Nat /\ Cap \in [Buckets -> Nat]
  BY ReplayAssumption DEF ReplayAssumption
<1>1. Notional(pos) = f * p /\ Notional(pos) \in Nat
  BY DEF Notional
<1>2. extra \in Nat
  OBVIOUS
<1>3. overpaid' = overpaid + extra /\ overpaid' \in Nat
  BY <1>2 DEF Commit, BooksOK
<1>4. moved' \in Nat /\ moved <= moved'
  BY <1>1 DEF Commit, BooksOK
<1>5. /\ ledger' \in [Buckets -> Nat]
      /\ \A b \in Buckets : ledger'[b] = IF b \in BucketsOf[market]
                                         THEN ledger[b] + f * p ELSE ledger[b]
  BY <1>1 DEF Commit, BooksOK
<1>6. /\ deployed' \in [Days -> Nat]
      /\ \A c \in Days : deployed'[c] = IF c = DayOf[when]
                                        THEN deployed[c] + f * p ELSE deployed[c]
  BY <1>0, <1>1 DEF Commit, BooksOK
<1>7. ASSUME NEW b \in Buckets
      PROVE  ledger'[b] <= Cap[b] + overpaid'
  <2>1. CASE b \in BucketsOf[market]
    <3>1. Cap[b] - ledger[b] \in Int
      BY <1>0 DEF BooksOK
    <3>2. f * p <= (Cap[b] - ledger[b]) + extra
      BY <2>1, <3>1, FillCost
    <3> HIDE DEF extra
    <3> QED BY <1>0, <1>1, <1>2, <1>3, <1>5, <2>1, <3>2 DEF BooksOK
  <2>2. CASE b \notin BucketsOf[market]
    <3> HIDE DEF extra
    <3> QED BY <1>0, <1>2, <1>3, <1>5, <2>2 DEF BooksOK, CapsHold
  <2> QED BY <2>1, <2>2
<1>8. ASSUME NEW c \in Days
      PROVE  deployed'[c] <= DAY_CAP + overpaid' + moved'
  <2>0. deployed[c] <= DAY_CAP + overpaid + moved
    BY DEF BooksOK, CapsHold
  <2>1. CASE c # DayOf[when]
    <3> HIDE DEF extra
    <3> QED BY <1>0, <1>2, <1>3, <1>4, <1>6, <2>0, <2>1 DEF BooksOK
  <2>2. CASE c = DayOf[when] /\ d = c
    <3>1. DAY_CAP - deployed[c] \in Int
      BY <1>0 DEF BooksOK
    <3>2. f * p <= (DAY_CAP - deployed[c]) + extra
      BY <2>2, <3>1, FillCost
    <3> HIDE DEF extra
    <3> QED BY <1>0, <1>1, <1>2, <1>3, <1>4, <1>6, <2>2, <3>2 DEF BooksOK
  <2>3. CASE c = DayOf[when] /\ d # c
    <3>1. moved' = moved + f * p
      BY <1>1, <2>3 DEF Commit
    <3> HIDE DEF extra
    <3> QED BY <1>0, <1>1, <1>2, <1>3, <1>6, <2>0, <2>3, <3>1 DEF BooksOK
  <2> QED BY <2>1, <2>2, <2>3
<1>9. Backed'
  <2>1. \A b \in BucketsOf[market] : f * p <= ledger'[b]
    BY <1>1, <1>5, MarketBuckets DEF BooksOK
  <2> QED BY <1>1, <2>1 DEF Backed
<1> QED BY <1>3, <1>4, <1>5, <1>6, <1>7, <1>8, <1>9 DEF BooksOK, CapsHold

\* Releasing the open position.
LEMMA ReleaseKeeps ==
  ASSUME BooksOK, market \in 1..MARKETS, market' = market, position \in Positions,
         position' = NoPosition, Release
  PROVE  BooksOK'
<1>1. Notional(position) \in Nat /\ Notional(NoPosition) = 0
  BY DEF Notional, Positions, NoPosition
<1>2. \A b \in Buckets : Freed(b) \in Nat /\ Freed(b) <= ledger[b]
  BY <1>1 DEF Freed, BooksOK
<1>3. /\ ledger' \in [Buckets -> Nat]
      /\ \A b \in Buckets : ledger'[b] <= ledger[b]
  BY <1>2 DEF Release, BooksOK
<1>4. CapsHold'
  BY <1>3, ReplayAssumption DEF Release, BooksOK, CapsHold, ReplayAssumption
<1>5. Backed'
  <2> SUFFICES ASSUME market <= MARKETS, NEW b \in BucketsOf[market]
               PROVE  0 <= ledger'[b]
    BY <1>1 DEF Backed
  <2> QED BY <1>3, MarketBuckets
<1> QED BY <1>3, <1>4, <1>5 DEF Release, BooksOK

\* Nothing opened and nothing closed.
LEMMA BooksStay ==
  ASSUME BooksOK, UNCHANGED <<market, position, books>>
  PROVE  BooksOK'
BY DEF BooksOK, books, CapsHold, Backed, Notional

LEMMA NothingHeldCounts ==
  ASSUME owed' = vanished' + 0, vanished' \in Nat, ~Resting', ~Holding'
  PROVE  EveryDecisionCounts'
BY DEF EveryDecisionCounts, OneIf

OneOwed == owed = vanished + 1 /\ owed \in Nat /\ vanished \in Nat

LEMMA OrderCounts ==
  ASSUME OneOwed', Resting', ~Holding' PROVE EveryDecisionCounts'
BY DEF OneOwed, EveryDecisionCounts, OneIf

LEMMA PositionCounts ==
  ASSUME OneOwed', ~Resting', Holding' PROVE EveryDecisionCounts'
BY DEF OneOwed, EveryDecisionCounts, OneIf

-----------------------------------------------------------------------------
(* The timeline moves on.                                                  *)

LEMMA NextInstantKeeps == ASSUME Inv, NextInstant PROVE Inv'
<1>0. BooksOK'
  BY Booked, BooksStay DEF NextInstant
<1>1. /\ when' \in 0..LAST /\ agenda' \in [Kinds -> Nat] /\ settled' \in BOOLEAN
      /\ prints' \in [Instants -> [price : Nat, volume : Nat]]
  <2>1. PICK t \in (when + 1)..LAST, a \in [Kinds -> 0..MANY],
             p \in [price : Prices, volume : Volumes] :
          /\ when' = t /\ agenda' = a
          /\ prints' = IF a["trade"] > 0 THEN [prints EXCEPT ![t] = p] ELSE prints
          /\ settled' = (settled \/ a["settlement"] > 0)
    BY DEF NextInstant
  <2>2. p \in [price : Nat, volume : Nat]
    BY ReplayAssumption DEF ReplayAssumption
  <2>3. t \in Instants /\ t \in 0..LAST
    BY ReplayAssumption DEF ReplayAssumption, Inv, ReplayTypeOK, Instants
  <2>4. a \in [Kinds -> Nat]
    BY ReplayAssumption DEF ReplayAssumption
  <2> QED BY <2>1, <2>2, <2>3, <2>4 DEF Inv, ReplayTypeOK
<1>2. ReplayTypeOK'
  BY <1>0, <1>1 DEF NextInstant, Inv, ReplayTypeOK, BooksOK, books, tallies
<1> QED BY <1>0, <1>2 DEF NextInstant, Inv, BooksOK, books, tallies, OneAtATime,
           EveryDecisionCounts, PendingFits, PhaseOK, Resting, Holding, OneIf

LEMMA NextEventKeeps == ASSUME Inv, NextEvent PROVE Inv'
<1>0. BooksOK'
  BY Booked, BooksStay DEF NextEvent
<1>1. /\ event' \in Kinds /\ agenda' \in [Kinds -> Nat]
      /\ phase' \in {"resting", "dispatch"} /\ (phase' = "resting" => Resting)
  BY DEF NextEvent, IsFirst, Inv, ReplayTypeOK
<1>2. ReplayTypeOK'
  BY <1>0, <1>1 DEF NextEvent, Inv, ReplayTypeOK, BooksOK, books, tallies
<1> QED BY <1>0, <1>1, <1>2 DEF NextEvent, Inv, BooksOK, books, tallies, OneAtATime,
           EveryDecisionCounts, PendingFits, PhaseOK, Resting, Holding, OneIf

LEMMA EndTimelineKeeps == ASSUME Inv, EndTimeline PROVE Inv'
<1>1. /\ market \in 1..MARKETS /\ market' = market + 1
      /\ Notional(position) \in Nat /\ Notional(NoPosition) = 0
  <2>1. market \in 1..MARKETS /\ market' = market + 1
    BY ReplayAssumption DEF ReplayAssumption, EndTimeline, Inv, ReplayTypeOK
  <2>2. Notional(position) \in Nat
    BY DEF Inv, ReplayTypeOK, Notional, Positions
  <2>3. Notional(NoPosition) = 0
    BY DEF Notional, NoPosition
  <2> QED BY <2>1, <2>2, <2>3
<1>2. owed' = vanished /\ vanished' = vanished
  <2>1. owed = Unfinished + vanished
    BY DEF Inv, EveryDecisionCounts, Unfinished
  <2>2. Unfinished \in Nat /\ vanished \in Nat
    BY DEF Unfinished, OneIf, Inv, ReplayTypeOK
  <2>3. owed' = owed - Unfinished /\ vanished' = vanished
    BY DEF EndTimeline
  <2> QED BY <2>1, <2>2, <2>3
<1>3. /\ NoOrder \in Orders /\ NoPosition \in Positions
      /\ Blank \in [Instants -> [price : Nat, volume : Nat]]
  BY ReplayAssumption DEF ReplayAssumption, NoOrder, NoPosition, Orders, Positions,
     Blank
<1>4. left' \in [1..MARKETS -> Nat]
  BY <1>1 DEF EndTimeline, Inv, ReplayTypeOK
<1>5. ReplayTypeOK'
  <2>1. market' \in 1..(MARKETS + 1) /\ when' \in 0..LAST /\ lastReview' \in 0..LAST
    BY <1>1, ReplayAssumption DEF ReplayAssumption, EndTimeline
  <2>2. /\ agenda' \in [Kinds -> Nat] /\ event' \in Kinds \cup {"none"}
        /\ phase' = "next" /\ settled' \in BOOLEAN
        /\ prints' \in [Instants -> [price : Nat, volume : Nat]]
        /\ pending' \in Orders /\ position' \in Positions
    BY <1>3 DEF EndTimeline, Inv, ReplayTypeOK
  <2>3. /\ ledger' \in [Buckets -> Nat] /\ deployed' \in [Days -> Nat]
        /\ {owed', vanished'} \subseteq Nat
        /\ {captured', overpaid', moved'} \subseteq Nat
    BY <1>2 DEF EndTimeline, Inv, ReplayTypeOK, books
  <2> QED BY <1>4, <2>1, <2>2, <2>3 DEF ReplayTypeOK
<1>6. ~Resting' /\ ~Holding'
  BY DEF EndTimeline, Resting, Holding, NoOrder, NoPosition
<1>7. EveryDecisionCounts'
  BY <1>2, <1>6 DEF EveryDecisionCounts, OneIf, Inv, ReplayTypeOK
<1>8. Backed'
  <2> SUFFICES ASSUME market' <= MARKETS, NEW b \in BucketsOf[market']
               PROVE  0 <= ledger[b]
    BY <1>1 DEF Backed, EndTimeline, books
  <2>1. market' \in 1..MARKETS
    BY <1>5 DEF ReplayTypeOK
  <2>2. b \in Buckets
    BY <2>1, ReplayAssumption DEF ReplayAssumption
  <2> QED BY <2>2 DEF Inv, ReplayTypeOK
<1>9. CapsHold'
  BY DEF EndTimeline, Inv, CapsHold, books
<1> QED BY <1>5, <1>6, <1>7, <1>8, <1>9 DEF Inv, OneAtATime, PendingFits, PhaseOK, EndTimeline

-----------------------------------------------------------------------------
(* A resting order is checked.                                             *)

LEMMA InHand == ASSUME Inv, phase # "next" PROVE market \in 1..MARKETS
BY ReplayAssumption DEF ReplayAssumption, Inv, ReplayTypeOK

LEMMA RestingFillsKeeps == ASSUME Inv, RestingFills PROVE Inv'
<1>1. PICK fill \in 1..pending.size :
        /\ position' = [contracts |-> fill, price |-> pending.limit]
        /\ Commit([contracts |-> fill, price |-> pending.limit],
                  pending.quoted, DayOf[pending.posted])
        /\ captured' = captured + fill
  BY DEF RestingFills
<1>2. /\ Resting /\ ~Holding /\ market \in 1..MARKETS
      /\ position = NoPosition \/ position.contracts = 0
  BY InHand DEF RestingFills, Inv, PhaseOK, OneAtATime, Holding, ReplayTypeOK, Positions
<1>3. /\ pending.size \in Nat /\ pending.quoted \in Nat /\ pending.limit \in Nat
      /\ DayOf[pending.posted] \in Days /\ fill \in Nat /\ fill <= pending.size
      /\ fill > 0 /\ when \in 0..LAST
  <2>1. /\ pending.size \in Nat /\ pending.quoted \in Nat /\ pending.limit \in Nat
        /\ pending.posted \in 0..LAST /\ when \in 0..LAST
    BY DEF Inv, ReplayTypeOK, Orders
  <2>2. DayOf[pending.posted] \in Days
    BY <2>1, ReplayAssumption DEF ReplayAssumption
  <2> QED BY <2>1, <2>2
<1>4. BooksOK'
  <2>1. market' = market
    BY DEF RestingFills
  <2>2. /\ \A b \in BucketsOf[market] :
             pending.size * pending.quoted <= Cap[b] - ledger[b]
        /\ pending.size * pending.quoted <= DAY_CAP - deployed[DayOf[pending.posted]]
    BY <1>2 DEF Inv, PendingFits
  <2> QED BY <1>1, <1>2, <1>3, <2>1, <2>2, Booked, CommitKeeps
<1>5. /\ pending' \in Orders /\ ~Resting'
  BY ReplayAssumption
  DEF ReplayAssumption, RestingFills, Withdrawn, NoOrder, Orders, Resting
<1>6. position' \in Positions /\ Holding'
  BY <1>1, <1>3 DEF Positions, Holding
<1>7. ReplayTypeOK'
  <2>1. captured' \in Nat
    BY <1>1, <1>3, Placed DEF PlaceOK
  <2>2. PlaceOK'
    BY <1>2, <2>1, Placed DEF RestingFills, PlaceOK, timeline
  <2>3. TradeOK'
    BY <1>5, <1>6 DEF RestingFills, tallies, Inv, ReplayTypeOK, TradeOK
  <2> QED BY <1>4, <2>2, <2>3, TypePartsNext
<1>8. EveryDecisionCounts'
  BY <1>2, <1>5, <1>6 DEF RestingFills, tallies, Inv, EveryDecisionCounts, OneIf
<1> QED BY <1>2, <1>4, <1>5, <1>7, <1>8
        DEF Inv, BooksOK, OneAtATime, PendingFits, PhaseOK, RestingFills

LEMMA RestingExpiresKeeps == ASSUME Inv, RestingExpires PROVE Inv'
<1>0. BooksOK'
  BY Booked, BooksStay DEF RestingExpires
<1>1. /\ Resting /\ ~Holding /\ market \in 1..MARKETS
  BY InHand DEF RestingExpires, Inv, PhaseOK, OneAtATime
<1>2. pending' \in Orders /\ ~Resting' /\ ~Holding'
  BY <1>1, ReplayAssumption
  DEF ReplayAssumption, RestingExpires, Withdrawn, NoOrder, Orders, Resting, Holding
<1>3. owed' = vanished /\ vanished' = vanished
  BY <1>1 DEF RestingExpires, Tallied, Inv, ReplayTypeOK, EveryDecisionCounts, OneIf
<1>4. ReplayTypeOK'
  BY <1>0, <1>1, <1>2, <1>3
  DEF RestingExpires, Inv, ReplayTypeOK, BooksOK, timeline, books
<1>5. EveryDecisionCounts'
  BY <1>2, <1>3 DEF EveryDecisionCounts, OneIf, Inv, ReplayTypeOK
<1> QED BY <1>0, <1>1, <1>2, <1>4, <1>5
        DEF Inv, BooksOK, OneAtATime, PendingFits, PhaseOK, RestingExpires

LEMMA RestingWaitsKeeps == ASSUME Inv, RestingWaits PROVE Inv'
<1>0. BooksOK'
  BY Booked, BooksStay DEF RestingWaits
<1>1. market \in 1..MARKETS
  BY InHand DEF RestingWaits
<1>2. ReplayTypeOK'
  BY <1>0, <1>1 DEF RestingWaits, Inv, ReplayTypeOK, BooksOK, timeline, tallies
<1> QED BY <1>0, <1>1, <1>2 DEF RestingWaits, Inv, BooksOK, timeline, books, tallies,
           OneAtATime, EveryDecisionCounts, PendingFits, PhaseOK, Resting, Holding, OneIf

-----------------------------------------------------------------------------
(* What the event calls for.                                               *)

\* A position leaves, with a trade or without.
LEMMA LeavingKeeps ==
  ASSUME Inv, phase # "next", Holding, Release, position' = NoPosition,
         phase' = "next", event' = "none", lastReview' \in {lastReview, when},
         Tallied \/ (vanished' = vanished + 1 /\ UNCHANGED owed),
         UNCHANGED <<market, timeline, pending, left, captured>>
  PROVE  Inv'
<1>1. /\ ~Resting /\ market \in 1..MARKETS /\ position \in Positions
  BY InHand DEF Inv, OneAtATime, ReplayTypeOK
<1>2. BooksOK'
  BY <1>1, Booked, ReleaseKeeps
<1>3. ~Resting' /\ ~Holding' /\ position' \in Positions
  BY <1>1 DEF Resting, Holding, NoPosition, Positions
<1>4. owed' = vanished' + 0 /\ owed' \in Nat /\ vanished' \in Nat
  <2>1. owed = vanished + 1 /\ vanished \in Nat
    BY <1>1 DEF Inv, ReplayTypeOK, EveryDecisionCounts, OneIf
  <2>2. CASE Tallied
    <3>1. owed' = vanished + 0 /\ vanished' = vanished
      BY <2>1, <2>2 DEF Tallied
    <3> QED BY <2>1, <3>1
  <2>3. CASE vanished' = vanished + 1 /\ UNCHANGED owed
    <3>1. owed' = vanished + 1 /\ vanished' = vanished + 1
      BY <2>1, <2>3
    <3> QED BY <2>1, <3>1
  <2> QED BY <2>2, <2>3
<1>5. ReplayTypeOK'
  <2>1. PlaceOK'
    BY <1>1, Placed DEF PlaceOK, timeline
  <2>2. TradeOK'
    BY <1>3, <1>4 DEF Inv, ReplayTypeOK, TradeOK
  <2> QED BY <1>2, <2>1, <2>2, TypePartsNext
<1>6. EveryDecisionCounts'
  BY <1>3, <1>4, NothingHeldCounts
<1> QED BY <1>1, <1>2, <1>3, <1>5, <1>6
        DEF Inv, BooksOK, OneAtATime, PendingFits, PhaseOK

LEMMA SettleKeeps == ASSUME Inv, Settle PROVE Inv'
BY LeavingKeeps DEF Settle, Done

LEMMA ExitKeeps == ASSUME Inv, Exit PROVE Inv'
BY LeavingKeeps DEF Exit, Close, Deciding, Done

\* The event changes nothing but the time of the last review.
LEMMA LookingKeeps ==
  ASSUME Inv, phase # "next", phase' = "next", event' = "none",
         lastReview' \in {lastReview, when},
         UNCHANGED <<market, timeline, pending, position, books, tallies, left, captured>>
  PROVE  Inv'
<1>0. BooksOK'
  BY Booked, BooksStay
<1>1. market \in 1..MARKETS
  BY InHand
<1>2. ReplayTypeOK'
  BY <1>0, <1>1 DEF Inv, ReplayTypeOK, BooksOK, timeline, tallies
<1> QED BY <1>0, <1>1, <1>2 DEF Inv, BooksOK, timeline, books, tallies,
           OneAtATime, EveryDecisionCounts, PendingFits, PhaseOK, Resting, Holding, OneIf

LEMMA PassOverKeeps == ASSUME Inv, PassOver PROVE Inv'
BY LookingKeeps DEF PassOver, Done

LEMMA KeepKeeps == ASSUME Inv, Keep PROVE Inv'
BY LookingKeeps DEF Keep, Deciding, Done

LEMMA TakeKeeps == ASSUME Inv, Take PROVE Inv'
<1>1. PICK quoted \in Prices, share \in Capacities, paid \in Prices :
        \E n \in Sized(quoted, share) : \E filled \in 1..n :
          /\ position' = [contracts |-> filled, price |-> paid]
          /\ Commit([contracts |-> filled, price |-> paid], quoted, DayOf[when])
  BY DEF Take
<1>2. PICK n \in Sized(quoted, share) : \E filled \in 1..n :
          /\ position' = [contracts |-> filled, price |-> paid]
          /\ Commit([contracts |-> filled, price |-> paid], quoted, DayOf[when])
  BY <1>1
<1>3. PICK filled \in 1..n :
          /\ position' = [contracts |-> filled, price |-> paid]
          /\ Commit([contracts |-> filled, price |-> paid], quoted, DayOf[when])
  BY <1>2
<1>4. /\ market \in 1..MARKETS /\ ~Resting /\ ~Holding /\ position.contracts = 0
  BY InHand DEF Take, Free, Deciding, Holding, Inv, ReplayTypeOK, Positions
<1>5. /\ quoted \in Nat /\ paid \in Nat /\ n \in Nat /\ filled \in Nat /\ filled > 0
      /\ filled <= n /\ DayOf[when] \in Days /\ when \in 0..LAST
  <2>1. n \in 1..BASE
    BY DEF Sized
  <2>2. when \in 0..LAST
    BY DEF Inv, ReplayTypeOK
  <2>3. quoted \in Nat /\ paid \in Nat /\ BASE \in Nat /\ DayOf[when] \in Days
    BY <2>2, ReplayAssumption DEF ReplayAssumption
  <2> QED BY <2>1, <2>2, <2>3
<1>6. /\ \A b \in BucketsOf[market] : n * quoted <= Cap[b] - ledger[b]
      /\ n * quoted <= DAY_CAP - deployed[DayOf[when]]
  BY DEF Sized, Fits
<1>7. BooksOK'
  <2>1. market' = market
    BY DEF Take
  <2> QED BY <1>3, <1>4, <1>5, <1>6, <2>1, Booked, CommitKeeps
<1>8. ~Resting' /\ Holding' /\ position' \in Positions
  BY <1>3, <1>4, <1>5 DEF Take, Resting, Holding, Positions
<1>9. OneOwed'
  <2>1. owed = vanished /\ owed \in Nat /\ vanished \in Nat
    BY <1>4 DEF Inv, ReplayTypeOK, EveryDecisionCounts, OneIf
  <2> QED BY <2>1 DEF Take, OneOwed
<1>10. ReplayTypeOK'
  <2>1. PlaceOK'
    BY <1>4, Placed DEF Take, Done, PlaceOK, timeline
  <2>2. TradeOK'
    BY <1>8, <1>9 DEF Take, Inv, ReplayTypeOK, TradeOK, OneOwed
  <2> QED BY <1>7, <2>1, <2>2, TypePartsNext
<1>11. EveryDecisionCounts'
  BY <1>8, <1>9, PositionCounts
<1>12. OneAtATime' /\ PendingFits'
  BY <1>8 DEF OneAtATime, PendingFits
<1>13. PhaseOK'
  <2>1. phase' = "next" /\ market' = market /\ ~(market > MARKETS)
    BY <1>4, ReplayAssumption DEF ReplayAssumption, Take, Done
  <2> QED BY <2>1 DEF PhaseOK
<1> QED BY <1>7, <1>10, <1>11, <1>12, <1>13 DEF Inv, BooksOK

LEMMA PostKeeps == ASSUME Inv, Post PROVE Inv'
<1>0. BooksOK'
  BY Booked, BooksStay DEF Post
<1>1. PICK quoted \in Prices, share \in Capacities, limit \in Prices :
        \E n \in Sized(quoted, share) :
          pending' = [size |-> n, limit |-> limit, quoted |-> quoted, posted |-> when]
  BY DEF Post
<1>2. PICK n \in Sized(quoted, share) :
        pending' = [size |-> n, limit |-> limit, quoted |-> quoted, posted |-> when]
  BY <1>1
<1>3. /\ market \in 1..MARKETS /\ ~Resting /\ ~Holding
  BY InHand DEF Post, Free, Deciding
<1>4. /\ quoted \in Nat /\ limit \in Nat /\ n \in Nat /\ n > 0 /\ when \in 0..LAST
  <2>1. n \in 1..BASE
    BY DEF Sized
  <2>2. quoted \in Nat /\ limit \in Nat /\ BASE \in Nat
    BY ReplayAssumption DEF ReplayAssumption
  <2> QED BY <2>1, <2>2 DEF Inv, ReplayTypeOK
<1>5. /\ \A b \in BucketsOf[market] : n * quoted <= Cap[b] - ledger[b]
      /\ n * quoted <= DAY_CAP - deployed[DayOf[when]]
  BY DEF Sized, Fits
<1>6. PendingFits'
  BY <1>2, <1>5 DEF Post, books, PendingFits
<1>7. pending' \in Orders /\ Resting' /\ ~Holding'
  BY <1>2, <1>3, <1>4 DEF Post, Orders, Resting, Holding
<1>8. OneOwed'
  <2>1. owed = vanished /\ owed \in Nat /\ vanished \in Nat
    BY <1>3 DEF Inv, ReplayTypeOK, EveryDecisionCounts, OneIf
  <2> QED BY <2>1 DEF Post, OneOwed
<1>9. ReplayTypeOK'
  <2>1. PlaceOK'
    BY <1>3, Placed DEF Post, Done, PlaceOK, timeline
  <2>2. TradeOK'
    BY <1>7, <1>8 DEF Post, Inv, ReplayTypeOK, TradeOK, OneOwed
  <2> QED BY <1>0, <2>1, <2>2, TypePartsNext
<1>10. EveryDecisionCounts'
  BY <1>7, <1>8, OrderCounts
<1>11. OneAtATime'
  BY <1>7 DEF OneAtATime
<1>12. PhaseOK'
  <2>1. phase' = "next" /\ market' = market /\ ~(market > MARKETS)
    BY <1>3, ReplayAssumption DEF ReplayAssumption, Post, Done
  <2> QED BY <2>1 DEF PhaseOK
<1> QED BY <1>0, <1>6, <1>9, <1>10, <1>11, <1>12 DEF Inv, BooksOK

\* Every step keeps the invariant.
LEMMA InvKeeps == ASSUME Inv, [ReplayNext]_replayVars PROVE Inv'
<1>1. CASE NextInstant
  BY <1>1, NextInstantKeeps
<1>2. CASE NextEvent
  BY <1>2, NextEventKeeps
<1>3. CASE RestingFills
  BY <1>3, RestingFillsKeeps
<1>4. CASE RestingExpires
  BY <1>4, RestingExpiresKeeps
<1>5. CASE RestingWaits
  BY <1>5, RestingWaitsKeeps
<1>6. CASE Settle
  BY <1>6, SettleKeeps
<1>7. CASE PassOver
  BY <1>7, PassOverKeeps
<1>8. CASE Keep
  BY <1>8, KeepKeeps
<1>9. CASE Exit
  BY <1>9, ExitKeeps
<1>10. CASE Take
  BY <1>10, TakeKeeps
<1>11. CASE Post
  BY <1>11, PostKeeps
<1>12. CASE EndTimeline
  BY <1>12, EndTimelineKeeps
<1>13. CASE UNCHANGED replayVars
  BY <1>13 DEF replayVars, timeline, books, tallies, Inv, ReplayTypeOK, OneAtATime,
     EveryDecisionCounts, CapsHold, PendingFits, Backed, PhaseOK, Resting, Holding,
     Notional, OneIf
<1> QED BY <1>1, <1>2, <1>3, <1>4, <1>5, <1>6, <1>7, <1>8, <1>9, <1>10, <1>11,
           <1>12, <1>13 DEF ReplayNext

-----------------------------------------------------------------------------
(* Sums over finite sets.                                                  *)

\* Of some natural numbers one is the least.
LEMMA LeastIs ==
    ASSUME NEW T, T \subseteq Nat, T # {} PROVE \E x \in T : \A y \in T : x <= y
<1>1. IsWellFoundedOn(OpToRel(<, Nat), Nat)
  BY NatLessThanWellFounded
<1>2. \A x, y \in Nat : <<y, x>> \in OpToRel(<, Nat) <=> y < x
  BY DEF OpToRel
<1>3. PICK less : /\ IsWellFoundedOn(less, Nat)
                  /\ \A x, y \in Nat : <<y, x>> \in less <=> y < x
  BY <1>1, <1>2, Zenon
<1>4. PICK x \in T : \A y \in T : ~(<<y, x>> \in less)
  BY <1>3, WFMin
<1>5. ASSUME NEW y \in T PROVE x <= y
  <2>1. ~(y < x)
    BY <1>3, <1>4
  <2> QED BY <2>1
<1> QED BY <1>5

\* Induction on the subsets of a finite set, from the proper parts of each.
LEMMA PartsInduction ==
  ASSUME NEW S, IsFiniteSet(S), NEW T,
         \A s \in SUBSET S : (\A r \in SUBSET s : r # s => r \in T) => s \in T
  PROVE  \A s \in SUBSET S : s \in T
<1> SUFFICES ASSUME NEW u \in SUBSET S, u \notin T PROVE FALSE
  OBVIOUS
<1> DEFINE Bad == {Cardinality(s) : s \in {r \in SUBSET S : r \notin T}}
<1>1. \A s \in SUBSET S : IsFiniteSet(s) /\ Cardinality(s) \in Nat
  BY FS_Subset, FS_CardinalityType
<1>2. Bad \subseteq Nat /\ Bad # {}
  BY <1>1
<1>3. PICK n \in Bad : \A k \in Bad : n <= k
  <2> HIDE DEF Bad
  <2> QED BY <1>2, LeastIs
<1>4. PICK s \in SUBSET S : s \notin T /\ n = Cardinality(s)
  OBVIOUS
<1>5. ASSUME NEW r \in SUBSET s, r # s, r \notin T PROVE FALSE
  <2>1. r \in SUBSET S
    OBVIOUS
  <2>2. Cardinality(r) \in Bad
    BY <1>5, <2>1
  <2>3. Cardinality(r) < Cardinality(s)
    BY <1>1, <1>5, FS_Subset
  <2>4. Cardinality(r) \in Nat /\ n \in Nat
    BY <1>1, <1>2, <2>1
  <2> HIDE DEF Bad
  <2> QED BY <1>3, <1>4, <2>2, <2>3, <2>4
<1> QED BY <1>4, <1>5

-----------------------------------------------------------------------------
\* The element the library's sum takes next.
Some(s) == CHOOSE x \in s : TRUE

\* f is the recursion of the sum of F over the subsets of S.
Unfolds(f, F, S) ==
  f = [s \in SUBSET S |-> IF s = {} THEN 0 ELSE F[Some(s)] + f[s \ {Some(s)}]]

\* f[s] is the sum of F over s, for the parts s of the finite set S.
IsSum(f, F, S) == /\ IsFiniteSet(S) /\ F \in [S -> Nat]
                  /\ f \in [SUBSET S -> Nat] /\ Unfolds(f, F, S)

\* A sum may be begun at any of its elements.
TakesAny(f, F, S) == \A s \in SUBSET S : \A x \in s : f[s] = F[x] + f[s \ {x}]

LEMMA AnyIn == ASSUME NEW s, s # {} PROVE Some(s) \in s
BY DEF Some

\* There is such a function: of the sizes up to which there is none, take the least.
LEMMA SumExists ==
  ASSUME NEW S, IsFiniteSet(S), NEW F \in [S -> Nat]
  PROVE  \E f \in [SUBSET S -> Nat] : Unfolds(f, F, S)
<1> DEFINE Small(n) == {s \in SUBSET S : Cardinality(s) <= n}
           Ok(g, n) == \A s \in Small(n) :
                         g[s] = IF s = {} THEN 0 ELSE F[Some(s)] + g[s \ {Some(s)}]
           Bad == {n \in Nat : ~ \E g \in [Small(n) -> Nat] : Ok(g, n)}
<1>1. \A s \in SUBSET S : IsFiniteSet(s) /\ Cardinality(s) \in Nat
  BY FS_Subset, FS_CardinalityType
<1>2. \A s \in SUBSET S : s # {} =>
        /\ Some(s) \in S /\ s \ {Some(s)} \in SUBSET S
        /\ Cardinality(s \ {Some(s)}) = Cardinality(s) - 1
  <2> SUFFICES ASSUME NEW s \in SUBSET S, s # {}
               PROVE  /\ Some(s) \in S /\ s \ {Some(s)} \in SUBSET S
                      /\ Cardinality(s \ {Some(s)}) = Cardinality(s) - 1
    OBVIOUS
  <2>1. Some(s) \in s
    BY AnyIn
  <2> QED BY <1>1, <2>1, FS_RemoveElement
<1>3. Bad = {}
  <2> SUFFICES ASSUME Bad # {} PROVE FALSE
    OBVIOUS
  <2>1. PICK n \in Bad : \A k \in Bad : n <= k
    <3>1. Bad \subseteq Nat
      OBVIOUS
    <3> HIDE DEF Bad
    <3> QED BY <3>1, LeastIs
  <2>2. n \in Nat
    OBVIOUS
  <2>3. PICK g : \A s \in Small(n) : s # {} =>
                   /\ s \ {Some(s)} \in Small(n - 1) /\ F[Some(s)] \in Nat
                   /\ g[s \ {Some(s)}] \in Nat
                   /\ g[s \ {Some(s)}] =
                        IF s \ {Some(s)} = {} THEN 0
                        ELSE F[Some(s \ {Some(s)})] + g[(s \ {Some(s)}) \ {Some(s \ {Some(s)})}]
    <3>0. \A s \in Small(n) : s # {} => s \ {Some(s)} \in Small(n - 1) /\ F[Some(s)] \in Nat
      BY <1>1, <1>2, <2>2
    <3>1. CASE n = 0
      <4>1. \A s \in Small(n) : s = {}
        BY <1>1, <3>1, FS_EmptySet
      <4> QED BY <4>1
    <3>2. CASE n # 0
      <4>1. n - 1 \in Nat /\ n - 1 \notin Bad
        <5>1. n - 1 \in Nat /\ ~(n <= n - 1)
          BY <2>2, <3>2
        <5> HIDE DEF Bad
        <5> QED BY <2>1, <5>1
      <4>2. PICK g \in [Small(n - 1) -> Nat] : Ok(g, n - 1)
        BY <4>1
      <4> HIDE DEF Small
      <4> QED BY <3>0, <4>2
    <3> QED BY <3>1, <3>2
  <2> DEFINE h == [s \in Small(n) |-> IF s = {} THEN 0 ELSE F[Some(s)] + g[s \ {Some(s)}]]
  <2>4. h \in [Small(n) -> Nat]
    <3>1. ASSUME NEW s \in Small(n), s # {} PROVE F[Some(s)] + g[s \ {Some(s)}] \in Nat
      <4>1. F[Some(s)] \in Nat /\ g[s \ {Some(s)}] \in Nat
        BY <2>3, <3>1
      <4> QED BY <4>1
    <3> HIDE DEF Small
    <3> QED BY <3>1
  <2>5. Ok(h, n)
    <3> SUFFICES ASSUME NEW s \in Small(n), s # {}
                 PROVE  g[s \ {Some(s)}] = h[s \ {Some(s)}]
      <4> HIDE DEF Small
      <4> QED OBVIOUS
    <3> DEFINE r == s \ {Some(s)}
    <3>1. r \in Small(n)
      BY <1>1, <1>2, <2>2
    <3>2. g[r] = IF r = {} THEN 0 ELSE F[Some(r)] + g[r \ {Some(r)}]
      BY <2>3
    <3>3. h[r] = IF r = {} THEN 0 ELSE F[Some(r)] + g[r \ {Some(r)}]
      <4> HIDE DEF r, Small
      <4> QED BY <3>1
    <3> QED BY <3>2, <3>3
  <2> HIDE DEF h
  <2> QED BY <2>1, <2>4, <2>5
<1>4. Cardinality(S) \in Nat /\ Small(Cardinality(S)) = SUBSET S
  BY <1>1, FS_Subset, FS_CardinalityType
<1>5. PICK g \in [Small(Cardinality(S)) -> Nat] : Ok(g, Cardinality(S))
  BY <1>3, <1>4
<1>6. Unfolds(g, F, S)
  <2> HIDE DEF Small
  <2> QED BY <1>4, <1>5 DEF Unfolds
<1> QED BY <1>4, <1>5, <1>6

\* One step of the recursion.
Begun(f, F, s) == /\ s = {} => f[s] = 0
                  /\ s # {} => f[s] = F[Some(s)] + f[s \ {Some(s)}]

LEMMA SumUnfolds ==
  ASSUME NEW S, NEW F, NEW f, Unfolds(f, F, S)
  PROVE  \A s \in SUBSET S : Begun(f, F, s)
BY Zenon DEF Unfolds, Begun

\* Two unfoldings over two sets agree on what is part of both, if the summands do.
LEMMA SumsAgree ==
  ASSUME NEW S, NEW Q, NEW R, IsFiniteSet(R), R \subseteq S, R \subseteq Q,
         NEW F, NEW G, \A x \in R : F[x] = G[x],
         NEW f, Unfolds(f, F, S), NEW g, Unfolds(g, G, Q)
  PROVE  \A s \in SUBSET R : f[s] = g[s]
<1> DEFINE T == {s \in SUBSET R : f[s] = g[s]}
<1>0. \A s \in SUBSET R : Begun(f, F, s) /\ Begun(g, G, s)
  <2>1. \A s \in SUBSET S : Begun(f, F, s)
    BY SumUnfolds
  <2>2. \A s \in SUBSET Q : Begun(g, G, s)
    BY SumUnfolds
  <2> QED BY <2>1, <2>2
<1>1. ASSUME NEW s \in SUBSET R, \A r \in SUBSET s : r # s => r \in T
      PROVE  s \in T
  <2>1. CASE s = {}
    BY <2>1, <1>0 DEF Begun
  <2>2. CASE s # {}
    <3>1. Some(s) \in s
      BY <2>2, AnyIn
    <3>2. s \ {Some(s)} \in T
      BY <1>1, <3>1
    <3>3. f[s] = F[Some(s)] + f[s \ {Some(s)}]
      <4> s \in SUBSET S
        OBVIOUS
      <4> QED BY <2>2, <1>0 DEF Begun
    <3>4. g[s] = G[Some(s)] + g[s \ {Some(s)}]
      BY <2>2, <1>0 DEF Begun
    <3>5. F[Some(s)] = G[Some(s)] /\ f[s \ {Some(s)}] = g[s \ {Some(s)}]
      BY <3>1, <3>2
    <3> QED BY <3>3, <3>4, <3>5
  <2> QED BY <2>1, <2>2
<1>2. \A s \in SUBSET R : s \in T
  <2> HIDE DEF T
  <2> QED BY <1>1, PartsInduction
<1> QED BY <1>2

LEMMA SumTakesAny ==
  ASSUME NEW S, NEW F, NEW f, IsSum(f, F, S)
  PROVE  TakesAny(f, F, S)
<1> USE DEF IsSum, TakesAny
<1> DEFINE T == {s \in SUBSET S : \A x \in s : f[s] = F[x] + f[s \ {x}]}
<1>0. \A s \in SUBSET S : Begun(f, F, s)
  BY SumUnfolds
<1>1. ASSUME NEW s \in SUBSET S, \A r \in SUBSET s : r # s => r \in T
      PROVE  s \in T
  <2> SUFFICES ASSUME NEW x \in s PROVE f[s] = F[x] + f[s \ {x}]
    OBVIOUS
  <2> DEFINE y == Some(s)
  <2>1. y \in s /\ f[s] = F[y] + f[s \ {y}]
    BY AnyIn, <1>0 DEF Begun
  <2> HIDE DEF y
  <2>2. CASE x = y
    BY <2>1, <2>2
  <2>3. CASE x # y
    <3>1. s \ {y} \in T /\ s \ {x} \in T
      BY <1>1, <2>1
    <3>2. x \in s \ {y} /\ y \in s \ {x}
      BY <2>1, <2>3
    <3>3. f[s \ {y}] = F[x] + f[(s \ {y}) \ {x}]
      BY <3>1, <3>2
    <3>4. f[s \ {x}] = F[y] + f[(s \ {x}) \ {y}]
      BY <3>1, <3>2
    <3>5. f[(s \ {y}) \ {x}] = f[(s \ {x}) \ {y}]
      <4>1. (s \ {y}) \ {x} = (s \ {x}) \ {y}
        OBVIOUS
      <4> QED BY <4>1
    <3>6. F[x] \in Nat /\ F[y] \in Nat /\ f[(s \ {x}) \ {y}] \in Nat
      BY <2>1
    <3> DEFINE c == f[(s \ {x}) \ {y}]
    <3>7. F[y] + (F[x] + c) = F[x] + (F[y] + c)
      <4>1. F[x] \in Nat /\ F[y] \in Nat /\ c \in Nat
        BY <3>6
      <4> HIDE DEF c
      <4> QED BY <4>1
    <3>8. f[s] = F[y] + (F[x] + c)
      BY <2>1, <3>3, <3>5
    <3>9. F[x] + f[s \ {x}] = F[x] + (F[y] + c)
      BY <3>4
    <3> QED BY <3>7, <3>8, <3>9
  <2> QED BY <2>2, <2>3
<1>2. \A s \in SUBSET S : s \in T
  <2> HIDE DEF T
  <2> QED BY <1>1, PartsInduction
<1> QED BY <1>2

\* Sums over disjoint sets add up.
LEMMA SumIsAdditive ==
  ASSUME NEW S, NEW F, NEW f, IsSum(f, F, S), NEW B \in SUBSET S
  PROVE  \A A \in SUBSET S : A \cap B = {} => f[A \cup B] = f[A] + f[B]
<1> DEFINE T == {A \in SUBSET S : A \cap B = {} => f[A \cup B] = f[A] + f[B]}
<1>0. /\ \A s \in SUBSET S : \A x \in s : f[s] = F[x] + f[s \ {x}]
      /\ \A s \in SUBSET S : Begun(f, F, s)
  <2>1. TakesAny(f, F, S)
    BY SumTakesAny
  <2>2. \A s \in SUBSET S : Begun(f, F, s)
    BY SumUnfolds DEF IsSum
  <2> QED BY <2>1, <2>2 DEF TakesAny
<1> USE DEF IsSum
<1>1. ASSUME NEW A \in SUBSET S, \A r \in SUBSET A : r # A => r \in T
      PROVE  A \in T
  <2> SUFFICES ASSUME A \cap B = {} PROVE f[A \cup B] = f[A] + f[B]
    OBVIOUS
  <2>1. CASE A = {}
    <3>1. f[A] = 0
      BY <2>1, <1>0 DEF Begun
    <3>2. f[A \cup B] = f[B] /\ f[B] \in Nat
      <4>1. A \cup B = B
        BY <2>1
      <4> QED BY <4>1
    <3>3. \A n \in Nat : n = 0 + n
      OBVIOUS
    <3> QED BY <3>1, <3>2, <3>3, Zenon
  <2>2. CASE A # {}
    <3>1. PICK x : x \in A
      BY <2>2
    <3>2. f[A] = F[x] + f[A \ {x}]
      BY <3>1, <1>0
    <3>3. f[A \cup B] = F[x] + f[(A \cup B) \ {x}]
      <4>1. A \cup B \in SUBSET S /\ x \in A \cup B
        BY <3>1
      <4> QED BY <4>1, <1>0
    <3>4. (A \cup B) \ {x} = (A \ {x}) \cup B
      BY <3>1
    <3>5. A \ {x} \in T /\ (A \ {x}) \cap B = {}
      BY <1>1, <3>1
    <3>6. f[(A \ {x}) \cup B] = f[A \ {x}] + f[B]
      BY <3>5
    <3>7. F[x] \in Nat /\ f[A \ {x}] \in Nat /\ f[B] \in Nat
      BY <3>1
    <3>8. f[(A \cup B) \ {x}] = f[(A \ {x}) \cup B]
      BY <3>4
    <3> DEFINE a == f[A \ {x}]
    <3>9. F[x] + (a + f[B]) = (F[x] + a) + f[B]
      <4>1. F[x] \in Nat /\ a \in Nat /\ f[B] \in Nat
        BY <3>7
      <4> HIDE DEF a
      <4> QED BY <4>1
    <3>10. f[A \cup B] = F[x] + (a + f[B])
      BY <3>3, <3>6, <3>8
    <3>11. f[A] + f[B] = (F[x] + a) + f[B]
      BY <3>2
    <3> QED BY <3>9, <3>10, <3>11
  <2> QED BY <2>1, <2>2
<1>2. \A A \in SUBSET S : A \in T
  <2> HIDE DEF T
  <2> QED BY <1>1, PartsInduction
<1> QED BY <1>2

\* Larger summands, larger sums.
LEMMA SumGrows ==
  ASSUME NEW S, IsFiniteSet(S), NEW F \in [S -> Nat], NEW G \in [S -> Nat],
         \A x \in S : F[x] <= G[x],
         NEW f \in [SUBSET S -> Nat], Unfolds(f, F, S),
         NEW g \in [SUBSET S -> Nat], Unfolds(g, G, S)
  PROVE  \A s \in SUBSET S : f[s] <= g[s]
<1> DEFINE T == {s \in SUBSET S : f[s] <= g[s]}
<1>0. \A s \in SUBSET S : Begun(f, F, s) /\ Begun(g, G, s)
  <2>1. \A s \in SUBSET S : Begun(f, F, s)
    BY SumUnfolds
  <2>2. \A s \in SUBSET S : Begun(g, G, s)
    BY SumUnfolds
  <2> QED BY <2>1, <2>2
<1>1. ASSUME NEW s \in SUBSET S, \A r \in SUBSET s : r # s => r \in T
      PROVE  s \in T
  <2>1. CASE s = {}
    <3>1. f[s] = 0 /\ g[s] = 0
      BY <2>1, <1>0 DEF Begun
    <3> QED BY <3>1
  <2>2. CASE s # {}
    <3>1. Some(s) \in s /\ Some(s) \in S
      BY <2>2, AnyIn
    <3>2. s \ {Some(s)} \in T
      BY <1>1, <3>1
    <3>3. f[s] = F[Some(s)] + f[s \ {Some(s)}]
      BY <2>2, <1>0 DEF Begun
    <3>4. g[s] = G[Some(s)] + g[s \ {Some(s)}]
      BY <2>2, <1>0 DEF Begun
    <3>5. /\ F[Some(s)] \in Nat /\ G[Some(s)] \in Nat /\ F[Some(s)] <= G[Some(s)]
          /\ f[s \ {Some(s)}] \in Nat /\ g[s \ {Some(s)}] \in Nat
      BY <3>1
    <3> QED BY <3>2, <3>3, <3>4, <3>5
  <2> QED BY <2>1, <2>2
<1>2. \A s \in SUBSET S : s \in T
  <2> HIDE DEF T
  <2> QED BY <1>1, PartsInduction
<1> QED BY <1>2

-----------------------------------------------------------------------------
(* What printed, and what was credited of it.                              *)

Timelines == [Instants -> [price : Nat, volume : Nat]]

VolumeOf(p) == [t \in Instants |-> p[t].volume]
SumsOf(p) == CHOOSE f : IsSum(f, VolumeOf(p), Instants)

\* What is counted from one is finite.
LEMMA CountedIsFinite ==
  ASSUME NEW n \in Nat PROVE IsFiniteSet(1..n)
<1>1. 1 \in Int /\ n \in Int
  OBVIOUS
<1> QED BY <1>1, FS_Interval

LEMMA ReplayIsFinite == IsFiniteSet(1..LAST) /\ IsFiniteSet(1..MARKETS)
<1>1. LAST \in Nat /\ MARKETS \in Nat
  BY ReplayAssumption DEF ReplayAssumption
<1> QED BY <1>1, CountedIsFinite

\* The volumes printed in a market have sums.
LEMMA VolumesAddUp == ASSUME NEW p \in Timelines PROVE IsSum(SumsOf(p), VolumeOf(p), Instants)
<1>1. IsFiniteSet(Instants)
  BY ReplayIsFinite DEF Instants
<1>2. VolumeOf(p) \in [Instants -> Nat]
  BY DEF VolumeOf, Timelines
<1>3. \E f : IsSum(f, VolumeOf(p), Instants)
  BY <1>1, <1>2, SumExists DEF IsSum
<1> QED BY <1>3 DEF SumsOf

\* The sum the property is about.
LEMMA PrintedIs ==
  ASSUME NEW p \in Timelines
  PROVE  MapThenSumSet(LAMBDA t : p[t].volume, Instants) = SumsOf(p)[Instants]
<1> DEFINE F == VolumeOf(p)
           S == Instants
           f == CHOOSE f : f = [s \in SUBSET S |->
                    IF s = {} THEN 0 ELSE p[Some(s)].volume + f[s \ {Some(s)}]]
<1>1. IsSum(SumsOf(p), F, S)
  BY VolumesAddUp
<1>2. \A s \in SUBSET S : s # {} => F[Some(s)] = p[Some(s)].volume
  BY AnyIn DEF VolumeOf
<1>3. SumsOf(p) = [s \in SUBSET S |->
          IF s = {} THEN 0 ELSE p[Some(s)].volume + SumsOf(p)[s \ {Some(s)}]]
  <2> HIDE DEF F, S
  <2> QED BY <1>1, <1>2 DEF IsSum, Unfolds
<1>4. f = [s \in SUBSET S |-> IF s = {} THEN 0 ELSE p[Some(s)].volume + f[s \ {Some(s)}]]
  BY <1>3, Zenon
<1>5. MapThenSumSet(LAMBDA t : p[t].volume, S) = f[S]
  BY DEF MapThenSumSet, MapThenFoldSet, Some
<1> HIDE DEF f, F, S
<1>6. Unfolds(f, F, S)
  BY <1>2, <1>4 DEF Unfolds
<1>7. S \in SUBSET S /\ IsFiniteSet(S) /\ Unfolds(SumsOf(p), F, S)
  BY <1>1 DEF IsSum
<1>8. f[S] = SumsOf(p)[S]
  BY <1>6, <1>7, SumsAgree
<1> QED BY <1>5, <1>8 DEF S

\* What the fills of an order are taken from is at most what printed meanwhile.
LEMMA TradedIs ==
  ASSUME prints \in Timelines
  PROVE  Traded \in Nat /\ Traded <= SumsOf(prints)[Since(when)]
<1> DEFINE S == Since(when)
           V == [u \in S |-> prints[u].volume]
           F == [u \in S |-> IF prints[u].price <= pending.limit THEN prints[u].volume ELSE 0]
           f == CHOOSE f : f = [s \in SUBSET S |-> IF s = {} THEN 0 ELSE
                    (IF prints[Some(s)].price <= pending.limit THEN prints[Some(s)].volume ELSE 0)
                        + f[s \ {Some(s)}]]
<1>1. /\ IsSum(SumsOf(prints), VolumeOf(prints), Instants)
      /\ S \subseteq Instants /\ IsFiniteSet(S)
  BY VolumesAddUp, FS_Subset DEF IsSum, Since
<1>2. F \in [S -> Nat] /\ V \in [S -> Nat] /\ \A u \in S : F[u] <= V[u]
  BY <1>1 DEF Timelines
<1>3. PICK h \in [SUBSET S -> Nat] : Unfolds(h, F, S)
  BY <1>1, <1>2, SumExists
<1>4. PICK k \in [SUBSET S -> Nat] : Unfolds(k, V, S)
  BY <1>1, <1>2, SumExists
<1>5. \A s \in SUBSET S : s # {} =>
        F[Some(s)] = IF prints[Some(s)].price <= pending.limit THEN prints[Some(s)].volume ELSE 0
  BY AnyIn
<1>6. h = [s \in SUBSET S |-> IF s = {} THEN 0 ELSE
              (IF prints[Some(s)].price <= pending.limit THEN prints[Some(s)].volume ELSE 0)
                  + h[s \ {Some(s)}]]
  <2> HIDE DEF F, S
  <2> QED BY <1>3, <1>5 DEF Unfolds
<1>7. f = [s \in SUBSET S |-> IF s = {} THEN 0 ELSE
              (IF prints[Some(s)].price <= pending.limit THEN prints[Some(s)].volume ELSE 0)
                  + f[s \ {Some(s)}]]
  BY <1>6, Zenon
<1>8. Traded = f[S]
  BY DEF Traded, MapThenSumSet, MapThenFoldSet, Some
<1> HIDE DEF f, S
<1>9. f[S] = h[S]
  <2> HIDE DEF F
  <2>1. Unfolds(f, F, S)
    BY <1>5, <1>7 DEF Unfolds
  <2> QED BY <1>1, <1>3, <2>1, SumsAgree
<1>10. k[S] = SumsOf(prints)[S]
  <2>1. \A u \in S : V[u] = VolumeOf(prints)[u]
    BY <1>1 DEF VolumeOf
  <2>2. Unfolds(SumsOf(prints), VolumeOf(prints), Instants)
    BY <1>1 DEF IsSum
  <2> HIDE DEF V
  <2> QED BY <1>1, <1>4, <2>1, <2>2, SumsAgree
<1>11. h[S] <= k[S]
  <2> HIDE DEF F, V
  <2> QED BY <1>1, <1>2, <1>3, <1>4, SumGrows
<1>12. h[S] \in Nat
  BY <1>3
<1> QED BY <1>8, <1>9, <1>10, <1>11, <1>12 DEF S

\* A fill leaves to the others of the queue their share of what traded.
LEMMA FillIsAShare ==
  ASSUME Traded \in Nat, pending.size \in Nat
  PROVE  FillSize \in Nat /\ SHARE * FillSize <= Traded
<1> DEFINE q == Traded \div SHARE
<1>0. SHARE \in Nat \ {0}
  BY ReplayAssumption DEF ReplayAssumption
<1>1. q \in Nat /\ SHARE * q <= Traded
  <2>1. \A x \in Nat, e \in Nat \ {0} :
          x \div e \in Nat /\ x % e \in Nat /\ x = e * (x \div e) + (x % e)
    OBVIOUS
  <2>2. q \in Nat /\ Traded % SHARE \in Nat /\ Traded = SHARE * q + (Traded % SHARE)
    BY <1>0, <2>1
  <2>3. SHARE * q \in Nat
    BY <1>0, <2>2
  <2> HIDE DEF q
  <2> QED BY <2>2, <2>3
<1> HIDE DEF q
<1>2. CASE q < pending.size
  BY <1>1, <1>2 DEF FillSize, q
<1>3. CASE ~(q < pending.size)
  <2>1. FillSize = pending.size
    BY <1>3 DEF FillSize, q
  <2>2. PICK d \in Nat : q = pending.size + d
    <3>1. q - pending.size \in Nat /\ q = pending.size + (q - pending.size)
      BY <1>1, <1>3
    <3> QED BY <3>1
  <2>3. /\ SHARE * q = SHARE * pending.size + SHARE * d
        /\ SHARE * d \in Nat /\ SHARE * pending.size \in Nat
    BY <1>0, <2>2
  <2>4. SHARE * pending.size <= SHARE * q /\ SHARE * q \in Nat
    BY <2>3
  <2>5. SHARE * pending.size <= Traded
    BY <1>1, <2>3, <2>4
  <2> QED BY <2>1, <2>5
<1> QED BY <1>2, <1>3

-----------------------------------------------------------------------------
(* No print is credited twice.                                             *)

\* What printed by instant t.
By(p, t) == SumsOf(p)[1..t]

\* What has been credited was printed by now, or, while an order rests, by the
\* instant it was posted.
Credited ==
  /\ Resting => pending.posted <= when
  /\ SHARE * captured <= By(prints, IF Resting THEN pending.posted ELSE when)

\* What printed by then counts only what printed by then.
LEMMA PastIsPast ==
  ASSUME NEW p \in Timelines, NEW q \in Timelines, NEW t \in 0..LAST,
         \A u \in 1..t : p[u] = q[u]
  PROVE  By(p, t) = By(q, t)
<1>1. 1..t \subseteq Instants /\ IsFiniteSet(1..t)
  <2>1. 1..t \subseteq Instants
    BY ReplayAssumption DEF ReplayAssumption, Instants
  <2> QED BY <2>1, CountedIsFinite
<1>2. \A u \in 1..t : VolumeOf(p)[u] = VolumeOf(q)[u]
  BY <1>1 DEF VolumeOf
<1>3. /\ Unfolds(SumsOf(p), VolumeOf(p), Instants)
      /\ Unfolds(SumsOf(q), VolumeOf(q), Instants)
  BY VolumesAddUp DEF IsSum
<1>4. \A s \in SUBSET (1..t) : SumsOf(p)[s] = SumsOf(q)[s]
  <2> DEFINE R == 1..t
  <2>1. R \subseteq Instants /\ IsFiniteSet(R) /\ \A u \in R : VolumeOf(p)[u] = VolumeOf(q)[u]
    BY <1>1, <1>2
  <2>2. \A s \in SUBSET R : SumsOf(p)[s] = SumsOf(q)[s]
    <3> HIDE DEF R
    <3> QED BY <1>3, <2>1, SumsAgree
  <2> QED BY <2>2
<1> QED BY <1>4 DEF By

\* Printing goes on: what printed by a later instant is what printed by the
\* earlier one and in between.
LEMMA PrintsGoOn ==
  ASSUME NEW p \in Timelines, NEW t \in 0..LAST, NEW u \in 0..LAST, t <= u
  PROVE  /\ By(p, t) \in Nat /\ By(p, u) \in Nat /\ SumsOf(p)[(t + 1)..u] \in Nat
         /\ By(p, u) = By(p, t) + SumsOf(p)[(t + 1)..u]
<1>1. /\ 1..t \in SUBSET Instants /\ (t + 1)..u \in SUBSET Instants
      /\ 1..u = (1..t) \cup ((t + 1)..u) /\ (1..t) \cap ((t + 1)..u) = {}
  BY ReplayAssumption DEF ReplayAssumption, Instants
<1>2. IsSum(SumsOf(p), VolumeOf(p), Instants)
  BY VolumesAddUp
<1>3. SumsOf(p)[(1..t) \cup ((t + 1)..u)] = SumsOf(p)[1..t] + SumsOf(p)[(t + 1)..u]
  <2> DEFINE B == (t + 1)..u
  <2>1. B \in SUBSET Instants
    BY <1>1
  <2>2. \A A \in SUBSET Instants :
          A \cap B = {} => SumsOf(p)[A \cup B] = SumsOf(p)[A] + SumsOf(p)[B]
    <3> HIDE DEF B
    <3> QED BY <1>2, <2>1, SumIsAdditive
  <2> QED BY <1>1, <2>2
<1>4. SumsOf(p) \in [SUBSET Instants -> Nat] /\ 1..u \in SUBSET Instants
  BY <1>1, <1>2 DEF IsSum
<1> QED BY <1>1, <1>3, <1>4 DEF By

\* An order is credited only what printed after it was posted and before it left.
LEMMA CreditKeeps == ASSUME Inv, Credited, [ReplayNext]_replayVars PROVE Credited'
<1>0. /\ prints \in Timelines /\ captured \in Nat /\ when \in 0..LAST /\ SHARE \in Nat
      /\ pending \in Orders /\ pending.posted \in 0..LAST /\ pending.size \in Nat
  BY ReplayAssumption DEF ReplayAssumption, Inv, ReplayTypeOK, Timelines, Orders
<1>1. CASE NextInstant
  <2>1. PICK t \in (when + 1)..LAST, a \in [Kinds -> 0..MANY],
             p \in [price : Prices, volume : Volumes] :
          /\ when' = t
          /\ prints' = IF a["trade"] > 0 THEN [prints EXCEPT ![t] = p] ELSE prints
    BY <1>1 DEF NextInstant
  <2>2. prints' \in Timelines
    <3>1. Inv'
      BY <1>1, NextInstantKeeps
    <3> QED BY <3>1 DEF Inv, ReplayTypeOK, Timelines
  <2>3. t \in 0..LAST /\ when < t
    BY <1>0, <2>1
  <2>4. \A u \in 1..when : prints[u] = prints'[u]
    BY <1>0, <2>1, <2>3 DEF Timelines
  <2>5. UNCHANGED <<pending, captured>>
    BY <1>1 DEF NextInstant
  <2>6. By(prints, when) = By(prints', when)
    BY <1>0, <2>2, <2>4, PastIsPast
  <2>7. By(prints', when) <= By(prints', t)
    <3>1. By(prints', t) = By(prints', when) + SumsOf(prints')[(when + 1)..t]
          /\ By(prints', when) \in Nat /\ SumsOf(prints')[(when + 1)..t] \in Nat
      BY <1>0, <2>2, <2>3, PrintsGoOn
    <3> QED BY <3>1
  <2>8. CASE ~Resting
    <3>1. ~Resting'
      BY <2>5, <2>8 DEF Resting
    <3>2. SHARE * captured <= By(prints, when) /\ SHARE * captured \in Nat
      BY <1>0, <2>8 DEF Credited
    <3>3. By(prints', when) \in Nat /\ By(prints', t) \in Nat
      BY <1>0, <2>2, <2>3, PrintsGoOn
    <3>4. SHARE * captured <= By(prints', t)
      BY <2>6, <2>7, <3>2, <3>3
    <3> QED BY <2>1, <2>5, <3>1, <3>4 DEF Credited
  <2>9. CASE Resting
    <3>1. pending.posted <= when
      BY <2>9 DEF Credited
    <3>2. By(prints, pending.posted) = By(prints', pending.posted)
      <4>1. \A u \in 1..pending.posted : prints[u] = prints'[u]
        BY <1>0, <2>4, <3>1
      <4> QED BY <1>0, <2>2, <4>1, PastIsPast
    <3>3. Resting' /\ pending'.posted <= when'
      BY <1>0, <2>1, <2>3, <2>5, <2>9, <3>1 DEF Resting
    <3>4. SHARE * captured <= By(prints, pending.posted)
      BY <2>9 DEF Credited
    <3> QED BY <2>5, <3>2, <3>3, <3>4 DEF Credited
  <2> QED BY <2>8, <2>9
<1>2. CASE RestingFills
  <2>1. PICK fill \in 1..pending.size : fill = FillSize /\ captured' = captured + fill
    BY <1>2 DEF RestingFills
  <2>2. Resting /\ pending.posted <= when /\ SHARE * captured <= By(prints, pending.posted)
    BY <1>2 DEF RestingFills, Inv, PhaseOK, Credited
  <2>3. ~Resting' /\ prints' = prints /\ when' = when
    BY <1>2 DEF RestingFills, Withdrawn, Resting, NoOrder, timeline
  <2>4. SHARE * fill <= SumsOf(prints)[Since(when)]
    <3>1. /\ Traded \in Nat /\ Traded <= SumsOf(prints)[Since(when)]
          /\ FillSize \in Nat /\ SHARE * FillSize <= Traded
      BY <1>0, TradedIs, FillIsAShare
    <3>2. SHARE * fill \in Nat /\ SHARE * fill <= Traded
      BY <1>0, <2>1, <3>1
    <3>3. SumsOf(prints)[Since(when)] \in Nat
      BY <1>0, VolumesAddUp DEF IsSum, Since
    <3> QED BY <3>1, <3>2, <3>3
  <2>5. Since(when) = (pending.posted + 1)..when
    BY <1>0, ReplayAssumption DEF ReplayAssumption, Since, Instants
  <2>6. /\ By(prints, pending.posted) \in Nat /\ SumsOf(prints)[Since(when)] \in Nat
        /\ By(prints, when) = By(prints, pending.posted) + SumsOf(prints)[Since(when)]
    BY <1>0, <2>2, <2>5, PrintsGoOn
  <2>7. /\ SHARE * (captured + fill) = SHARE * captured + SHARE * fill
        /\ SHARE * captured \in Nat /\ SHARE * fill \in Nat
    BY <1>0
  <2>8. SHARE * captured' <= By(prints, when)
    BY <2>1, <2>2, <2>4, <2>6, <2>7
  <2> QED BY <2>3, <2>8 DEF Credited
<1>3. CASE EndTimeline
  <2>1. captured' = 0 /\ when' = 0 /\ prints' = Blank /\ ~Resting'
    BY <1>3 DEF EndTimeline, Resting, NoOrder
  <2>2. Blank \in Timelines /\ 0 \in 0..LAST
    BY ReplayAssumption DEF ReplayAssumption, Blank, Timelines
  <2>3. By(Blank, 0) \in Nat
    BY <2>2, PrintsGoOn
  <2>4. SHARE * 0 <= By(Blank, 0)
    BY <1>0, <2>3
  <2> QED BY <2>1, <2>4 DEF Credited
<1>4. CASE RestingExpires
  <2>1. Resting /\ pending.posted <= when /\ SHARE * captured <= By(prints, pending.posted)
    BY <1>4 DEF RestingExpires, Inv, PhaseOK, Credited
  <2>2. ~Resting' /\ UNCHANGED <<prints, when, captured>>
    BY <1>4 DEF RestingExpires, Withdrawn, Resting, NoOrder, timeline
  <2>3. SHARE * captured \in Nat
    BY <1>0
  <2>4. /\ By(prints, pending.posted) \in Nat
        /\ SumsOf(prints)[(pending.posted + 1)..when] \in Nat
        /\ By(prints, when) = By(prints, pending.posted)
                                 + SumsOf(prints)[(pending.posted + 1)..when]
    BY <1>0, <2>1, PrintsGoOn
  <2>5. SHARE * captured <= By(prints, when)
    BY <2>1, <2>3, <2>4
  <2> QED BY <2>2, <2>5 DEF Credited
<1>5. CASE Post
  <2>1. ~Resting /\ pending'.posted = when /\ UNCHANGED <<prints, when, captured>>
    BY <1>5 DEF Post, Free, timeline
  <2>2. SHARE * captured <= By(prints, when) /\ when <= when
    BY <1>0, <2>1 DEF Credited
  <2> QED BY <2>1, <2>2 DEF Credited
<1>6. ASSUME UNCHANGED <<pending, when, prints, captured>> PROVE Credited'
  BY <1>6 DEF Credited, Resting
<1>7. CASE NextEvent \/ RestingWaits \/ Settle \/ PassOver \/ Keep \/ Exit \/ Take
            \/ UNCHANGED replayVars
  <2>1. UNCHANGED <<pending, when, prints, captured>>
    BY <1>7 DEF NextEvent, RestingWaits, Settle, PassOver, Keep, Exit, Take, replayVars, timeline
  <2> QED BY <1>6, <2>1
<1> QED BY <1>1, <1>2, <1>3, <1>4, <1>5, <1>7 DEF ReplayNext

-----------------------------------------------------------------------------
(* The ledger is the open positions.                                       *)

\* What a change of one summand does to the sums.
LEMMA SumChanges ==
  ASSUME NEW S, NEW F, NEW f, IsSum(f, F, S), NEW G, NEW g, IsSum(g, G, S),
         NEW x \in S, \A y \in S : y # x => F[y] = G[y]
  PROVE  \A s \in SUBSET S : /\ x \notin s => g[s] = f[s]
                             /\ x \in s => g[s] = f[s] + (G[x] - F[x])
<1>1. \A s \in SUBSET (S \ {x}) : f[s] = g[s]
  <2> DEFINE R == S \ {x}
  <2>1. IsFiniteSet(R) /\ R \subseteq S /\ \A y \in R : F[y] = G[y]
    BY FS_Subset DEF IsSum
  <2>2. Unfolds(f, F, S) /\ Unfolds(g, G, S)
    BY DEF IsSum
  <2>3. \A s \in SUBSET R : f[s] = g[s]
    <3> HIDE DEF R
    <3> QED BY <2>1, <2>2, SumsAgree
  <2> QED BY <2>3
<1>2. TakesAny(f, F, S) /\ TakesAny(g, G, S)
  BY SumTakesAny
<1> SUFFICES ASSUME NEW s \in SUBSET S, x \in s PROVE g[s] = f[s] + (G[x] - F[x])
  BY <1>1
<1>3. f[s] = F[x] + f[s \ {x}] /\ g[s] = G[x] + g[s \ {x}]
  BY <1>2 DEF TakesAny
<1>4. g[s \ {x}] = f[s \ {x}]
  BY <1>1
<1>5. F[x] \in Nat /\ G[x] \in Nat /\ f[s \ {x}] \in Nat
  BY DEF IsSum
<1> DEFINE c == f[s \ {x}]
<1>6. G[x] + c = (F[x] + c) + (G[x] - F[x])
  <2>1. F[x] \in Nat /\ G[x] \in Nat /\ c \in Nat
    BY <1>5
  <2> HIDE DEF c
  <2> QED BY <2>1
<1> QED BY <1>3, <1>4, <1>6

Replayed == 1..MARKETS
MarketsOf(b) == {m \in Replayed : b \in BucketsOf[m]}
Shown == [m \in Replayed |-> Exposure(m)]
Exposures(E) == CHOOSE f : IsSum(f, E, Replayed)

LEMMA ExposuresAddUp ==
  ASSUME NEW E \in [Replayed -> Nat] PROVE IsSum(Exposures(E), E, Replayed)
<1>1. IsFiniteSet(Replayed)
  BY ReplayIsFinite DEF Replayed
<1>2. \E f : IsSum(f, E, Replayed)
  BY <1>1, SumExists DEF IsSum
<1> QED BY <1>2 DEF Exposures

\* Every bucket holds what its markets are exposed to, and what is still to be
\* replayed has left nothing open.
LedgerFits ==
  /\ \A b \in Buckets : ledger[b] = Exposures(Shown)[MarketsOf(b)]
  /\ \A m \in Replayed : m >= market => left[m] = 0

LEMMA ShownIs ==
  ASSUME Inv
  PROVE  /\ Shown \in [Replayed -> Nat] /\ Notional(position) \in Nat
         /\ left \in [Replayed -> Nat] /\ ledger \in [Buckets -> Nat]
<1>1. /\ left \in [Replayed -> Nat] /\ Notional(position) \in Nat
      /\ ledger \in [Buckets -> Nat]
  BY DEF Inv, ReplayTypeOK, Replayed, Notional, Positions
<1> QED BY <1>1 DEF Shown, Exposure

\* The position of the market in hand changes in worth by d, and so do its buckets.
LEMMA BooksFollow ==
  ASSUME Inv, Inv', LedgerFits, market \in Replayed, UNCHANGED <<market, left>>,
         NEW d \in Int, Notional(position') = Notional(position) + d,
         \A b \in Buckets : ledger'[b] = IF b \in BucketsOf[market]
                                         THEN ledger[b] + d ELSE ledger[b]
  PROVE  LedgerFits'
<1>1. Shown \in [Replayed -> Nat] /\ Notional(position) \in Nat /\ left \in [Replayed -> Nat]
  BY ShownIs
<1>2. Shown' \in [Replayed -> Nat]
  <2>1. left' \in [Replayed -> Nat] /\ position' \in Positions
    BY DEF Inv, ReplayTypeOK, Replayed
  <2>2. Notional(position') \in Nat
    BY <2>1 DEF Notional, Positions
  <2>3. \A m \in Replayed : Exposure(m)' \in Nat
    BY <2>1, <2>2 DEF Exposure, Notional
  <2> QED BY <2>3 DEF Shown
<1>3. /\ \A m \in Replayed : m # market => Shown[m] = Shown'[m]
      /\ Shown'[market] - Shown[market] = d
  <2>1. \A m \in Replayed : /\ Shown[m] = left[m] + IF m = market THEN Notional(position) ELSE 0
                            /\ Shown'[m] = left[m] + IF m = market
                                                     THEN Notional(position) + d ELSE 0
    BY DEF Shown, Exposure, Notional
  <2> QED BY <1>1, <2>1
<1> DEFINE f == Exposures(Shown)
           g == Exposures(Shown')
<1>4. IsSum(f, Shown, Replayed) /\ IsSum(g, Shown', Replayed)
  BY <1>1, <1>2, ExposuresAddUp
<1> HIDE DEF f, g
<1>5. \A s \in SUBSET Replayed :
        /\ market \notin s => g[s] = f[s]
        /\ market \in s => g[s] = f[s] + (Shown'[market] - Shown[market])
  BY <1>3, <1>4, SumChanges
<1>6. ASSUME NEW b \in Buckets PROVE ledger'[b] = g[MarketsOf(b)]
  <2>1. MarketsOf(b) \in SUBSET Replayed /\ (market \in MarketsOf(b) <=> b \in BucketsOf[market])
    BY DEF MarketsOf
  <2>2. ledger[b] = f[MarketsOf(b)]
    BY DEF LedgerFits, f
  <2> QED BY <1>3, <1>5, <2>1, <2>2
<1> QED BY <1>6 DEF LedgerFits, g, MarketsOf

\* Nothing sums to nothing.
LEMMA NothingSums ==
  ASSUME NEW S, NEW F, NEW f, IsSum(f, F, S), \A x \in S : F[x] = 0
  PROVE  \A s \in SUBSET S : f[s] = 0
<1> DEFINE T == {s \in SUBSET S : f[s] = 0}
<1>0. \A s \in SUBSET S : Begun(f, F, s)
  BY SumUnfolds DEF IsSum
<1>1. ASSUME NEW s \in SUBSET S, \A r \in SUBSET s : r # s => r \in T
      PROVE  s \in T
  <2>1. CASE s = {}
    BY <1>0, <2>1 DEF Begun
  <2>2. CASE s # {}
    <3>1. Some(s) \in s /\ F[Some(s)] = 0
      BY <2>2, AnyIn
    <3>2. f[s \ {Some(s)}] = 0
      BY <1>1, <3>1
    <3>3. f[s] = F[Some(s)] + f[s \ {Some(s)}]
      BY <1>0, <2>2 DEF Begun
    <3> QED BY <3>1, <3>2, <3>3
  <2> QED BY <2>1, <2>2
<1>2. \A s \in SUBSET S : s \in T
  <2>1. IsFiniteSet(S)
    BY DEF IsSum
  <2> HIDE DEF T
  <2> QED BY <1>1, <2>1, PartsInduction
<1> QED BY <1>2

\* The sums the property is about.
LEMMA LedgerIs == ASSUME Inv, LedgerFits PROVE LedgerMatches
<1> SUFFICES ASSUME NEW b \in Buckets
             PROVE  ledger[b] = MapThenSumSet(Exposure, MarketsOf(b))
  BY DEF LedgerMatches, MarketsOf, Replayed
<1> DEFINE S == MarketsOf(b)
           F == [m \in S |-> Exposure(m)]
           f == CHOOSE f : f = [s \in SUBSET S |->
                    IF s = {} THEN 0 ELSE Exposure(Some(s)) + f[s \ {Some(s)}]]
<1>1. IsSum(Exposures(Shown), Shown, Replayed) /\ Shown \in [Replayed -> Nat]
  BY ShownIs, ExposuresAddUp
<1>2. S \subseteq Replayed /\ IsFiniteSet(S)
  BY <1>1, FS_Subset DEF IsSum, MarketsOf
<1>3. \A m \in S : F[m] = Shown[m] /\ F[m] = Exposure(m) /\ F[m] \in Nat
  BY <1>1, <1>2 DEF Shown
<1>4. F \in [S -> Nat]
  BY <1>3
<1>5. PICK h \in [SUBSET S -> Nat] : Unfolds(h, F, S)
  <2> HIDE DEF F, S
  <2> QED BY <1>2, <1>4, SumExists
<1>6. \A s \in SUBSET S : s # {} => F[Some(s)] = Exposure(Some(s))
  BY <1>3, AnyIn
<1>7. h = [s \in SUBSET S |-> IF s = {} THEN 0 ELSE Exposure(Some(s)) + h[s \ {Some(s)}]]
  <2> HIDE DEF F, S
  <2> QED BY <1>5, <1>6 DEF Unfolds
<1>8. f = [s \in SUBSET S |-> IF s = {} THEN 0 ELSE Exposure(Some(s)) + f[s \ {Some(s)}]]
  BY <1>7, Zenon
<1>9. MapThenSumSet(Exposure, S) = f[S]
  BY DEF MapThenSumSet, MapThenFoldSet, Some
<1> HIDE DEF f, F, S
<1>10. Unfolds(f, F, S)
  BY <1>6, <1>8 DEF Unfolds
<1>11. f[S] = Exposures(Shown)[S]
  <2>1. Unfolds(Exposures(Shown), Shown, Replayed) /\ \A m \in S : F[m] = Shown[m]
    BY <1>1, <1>3 DEF IsSum
  <2> QED BY <1>2, <1>10, <2>1, SumsAgree
<1> QED BY <1>9, <1>11 DEF LedgerFits, S

\* What is taken from the buckets is what was put there, and what stays open when
\* a timeline ends stays in them.
LEMMA LedgerKeeps == ASSUME Inv, LedgerFits, [ReplayNext]_replayVars PROVE LedgerFits'
<1>0. Inv'
  BY InvKeeps
<1>1. CASE RestingFills \/ Take
  <2>1. PICK f \in Nat, q \in Nat, p \in Nat, d \in Days :
           /\ position' = [contracts |-> f, price |-> p]
           /\ Commit([contracts |-> f, price |-> p], q, d)
    <3>1. CASE RestingFills
      <4>1. PICK f \in 1..pending.size :
               /\ position' = [contracts |-> f, price |-> pending.limit]
               /\ Commit([contracts |-> f, price |-> pending.limit],
                         pending.quoted, DayOf[pending.posted])
        BY <3>1 DEF RestingFills
      <4>2. /\ pending.size \in Nat /\ pending.quoted \in Nat /\ pending.limit \in Nat
            /\ DayOf[pending.posted] \in Days
        BY ReplayAssumption DEF ReplayAssumption, Inv, ReplayTypeOK, Orders
      <4> QED BY <4>1, <4>2
    <3>2. CASE Take
      <4>1. PICK quoted \in Prices, share \in Capacities, paid \in Prices :
               \E n \in Sized(quoted, share) : \E filled \in 1..n :
                 /\ position' = [contracts |-> filled, price |-> paid]
                 /\ Commit([contracts |-> filled, price |-> paid], quoted, DayOf[when])
        BY <3>2 DEF Take
      <4>2. PICK n \in Sized(quoted, share), filled \in Nat :
               /\ position' = [contracts |-> filled, price |-> paid]
               /\ Commit([contracts |-> filled, price |-> paid], quoted, DayOf[when])
        BY <4>1
      <4>3. quoted \in Nat /\ paid \in Nat /\ DayOf[when] \in Days
        BY ReplayAssumption DEF ReplayAssumption, Inv, ReplayTypeOK
      <4> QED BY <4>2, <4>3
    <3> QED BY <1>1, <3>1, <3>2
  <2>2. ~Holding /\ phase # "next" /\ UNCHANGED <<market, left>>
    BY <1>1 DEF RestingFills, Take, Free, Deciding, Inv, PhaseOK, OneAtATime
  <2>3. market \in Replayed
    BY <2>2, InHand DEF Replayed
  <2>4. Notional(position) = 0
    <3>1. position.contracts = 0 /\ position.price \in Nat
      BY <2>2 DEF Holding, Inv, ReplayTypeOK, Positions
    <3> QED BY <3>1 DEF Notional
  <2>5. Notional([contracts |-> f, price |-> p]) = f * p /\ f * p \in Nat
    BY DEF Notional
  <2>6. Notional(position') = Notional(position) + f * p
    BY <2>1, <2>4, <2>5
  <2>7. \A b \in Buckets : ledger'[b] = IF b \in BucketsOf[market]
                                        THEN ledger[b] + f * p ELSE ledger[b]
    BY <2>1, <2>5 DEF Commit
  <2>8. f * p \in Int
    BY <2>5
  <2> DEFINE e == f * p
  <2> HIDE DEF e
  <2> QED BY <1>0, <2>2, <2>3, <2>6, <2>7, <2>8, BooksFollow DEF e
<1>2. CASE Settle \/ Exit
  <2>1. /\ Holding /\ phase # "next" /\ UNCHANGED <<market, left>>
        /\ position' = NoPosition /\ Release
    BY <1>2 DEF Settle, Exit, Deciding
  <2>2. market \in Replayed
    BY <2>1, InHand DEF Replayed
  <2>3. Notional(position) \in Nat /\ Notional(position') = 0 /\ ledger \in [Buckets -> Nat]
    BY <2>1, ShownIs DEF NoPosition, Notional
  <2>4. \A b \in BucketsOf[market] : ledger[b] >= Notional(position)
    <3>1. market <= MARKETS
      BY <2>2, ReplayAssumption DEF ReplayAssumption, Replayed
    <3>2. \A b \in BucketsOf[market] : b \in Buckets
      BY <2>2, MarketBuckets DEF Replayed
    <3> QED BY <2>3, <3>1, <3>2 DEF Inv, Backed
  <2>5. \A b \in Buckets : ledger'[b] = IF b \in BucketsOf[market]
                                        THEN ledger[b] + -Notional(position) ELSE ledger[b]
    BY <2>1, <2>3, <2>4 DEF Release, Freed
  <2>6. /\ -Notional(position) \in Int
        /\ Notional(position') = Notional(position) + -Notional(position)
    BY <2>3
  <2> DEFINE e == -Notional(position)
  <2> HIDE DEF e
  <2> QED BY <1>0, <2>1, <2>2, <2>5, <2>6, BooksFollow DEF e
<1>3. CASE EndTimeline
  <2>1. /\ market \in Replayed /\ market' = market + 1
        /\ left' = [left EXCEPT ![market] = Notional(position)]
        /\ position' = NoPosition /\ UNCHANGED ledger
    BY <1>3, ReplayAssumption DEF ReplayAssumption, EndTimeline, books, Replayed, Inv, ReplayTypeOK
  <2>2. Notional(position) \in Nat /\ left \in [Replayed -> Nat] /\ left[market] = 0
    <3>1. market >= market
      BY <2>1, ReplayAssumption DEF ReplayAssumption, Replayed
    <3> QED BY <2>1, <3>1, ShownIs DEF LedgerFits
  <2>3. Notional(position') = 0
    BY <2>1 DEF NoPosition, Notional
  <2>4. \A m \in Replayed : m >= market + 1 => m # market /\ m >= market
    BY <2>1, ReplayAssumption DEF ReplayAssumption, Replayed
  <2>5. \A m \in Replayed : m >= market' => left'[m] = 0
    BY <2>1, <2>2, <2>4 DEF LedgerFits
  <2>6. \A m \in Replayed : Exposure(m)' = Exposure(m)
    <3> SUFFICES ASSUME NEW m \in Replayed PROVE Exposure(m)' = Exposure(m)
      OBVIOUS
    <3>0. m \in Nat /\ market \in Nat
      BY <2>1, ReplayAssumption DEF ReplayAssumption, Replayed
    <3>1. /\ Exposure(m) = left[m] + IF m = market THEN Notional(position) ELSE 0
          /\ Exposure(m)' = left'[m]
      <4>1. Exposure(m)' = left'[m] + IF m = market' THEN Notional(position') ELSE 0
        BY DEF Exposure, Notional
      <4>2. left'[m] \in Nat
        BY <2>1, <2>2
      <4> QED BY <2>3, <4>1, <4>2 DEF Exposure
    <3>2. CASE m = market
      <4>1. left'[m] = Notional(position) /\ left[m] = 0
        BY <2>1, <2>2, <3>2
      <4> QED BY <2>2, <3>1, <3>2, <4>1
    <3>3. CASE m # market
      BY <2>1, <2>2, <3>1, <3>3
    <3> QED BY <3>2, <3>3
  <2>7. Shown' = Shown
    BY <2>6 DEF Shown
  <2>8. \A b \in Buckets : ledger'[b] = Exposures(Shown')[MarketsOf(b)]
    BY <2>1, <2>7 DEF LedgerFits
  <2> QED BY <2>5, <2>8 DEF LedgerFits, MarketsOf
<1>4. CASE NextInstant \/ NextEvent \/ RestingExpires \/ RestingWaits \/ PassOver \/ Keep \/ Post
            \/ UNCHANGED replayVars
  <2>1. UNCHANGED <<market, position, ledger, left>>
    BY <1>4 DEF NextInstant, NextEvent, RestingExpires, RestingWaits, PassOver, Keep, Post,
       replayVars, books
  <2> QED BY <2>1 DEF LedgerFits, Shown, Exposure, Notional, MarketsOf
<1> QED BY <1>1, <1>2, <1>3, <1>4 DEF ReplayNext

-----------------------------------------------------------------------------
(* The theorems.                                                           *)

\* Inv holds before the first market and no step of the replay breaks it.
THEOREM ReplayInvariant == ReplaySpec => []Inv
<1>1. ReplayInit => Inv
  <2> SUFFICES ASSUME ReplayInit PROVE Inv
    OBVIOUS
  <2>1. NoOrder \in Orders /\ NoPosition \in Positions /\ 0 \in 0..LAST
    BY ReplayAssumption DEF ReplayAssumption, NoOrder, NoPosition, Orders, Positions
  <2>2. ~Resting /\ ~Holding /\ Notional(position) = 0
    BY DEF ReplayInit, Resting, Holding, Notional, NoOrder, NoPosition
  <2>3. ReplayTypeOK
    <3>1. /\ market \in 1..(MARKETS + 1) /\ phase = "next"
          /\ agenda \in [Kinds -> Nat] /\ event = "none" /\ settled \in BOOLEAN
      <4>1. MARKETS \in Nat
        BY ReplayAssumption DEF ReplayAssumption
      <4>2. agenda \in [Kinds -> Nat]
        BY DEF ReplayInit
      <4>3. settled \in BOOLEAN
        BY Zenon DEF ReplayInit
      <4>4. market = 1 /\ phase = "next" /\ event = "none"
        BY DEF ReplayInit
      <4> QED BY <4>1, <4>2, <4>3, <4>4
    <3>2. prints \in [Instants -> [price : Nat, volume : Nat]]
      BY DEF ReplayInit, Blank
    <3>3. /\ ledger \in [Buckets -> Nat] /\ deployed \in [Days -> Nat]
          /\ left \in [1..MARKETS -> Nat]
          /\ {owed, vanished} \subseteq Nat /\ {captured, overpaid, moved} \subseteq Nat
      BY DEF ReplayInit
    <3> QED BY <2>1, <3>1, <3>2, <3>3 DEF ReplayInit, ReplayTypeOK
  <2>4. CapsHold
    BY ReplayAssumption DEF ReplayAssumption, ReplayInit, CapsHold
  <2>5. Backed
    <3> SUFFICES ASSUME market <= MARKETS, NEW b \in BucketsOf[market]
                 PROVE  0 <= ledger[b]
      BY <2>2 DEF Backed
    <3>1. market \in 1..MARKETS
      BY <2>3, ReplayAssumption DEF ReplayAssumption, ReplayTypeOK
    <3> QED BY <2>3, <3>1, MarketBuckets DEF ReplayTypeOK
  <2> QED BY <2>2, <2>3, <2>4, <2>5
          DEF ReplayInit, Inv, OneAtATime, EveryDecisionCounts, OneIf, PendingFits, PhaseOK
<1>2. Inv /\ [ReplayNext]_replayVars => Inv'
  BY InvKeeps
<1> QED BY <1>1, <1>2, PTL DEF ReplaySpec

\* The variables keep their types for every list of markets and every ceiling.
THEOREM ReplayTypeCorrect == ReplaySpec => []ReplayTypeOK
<1>1. Inv => ReplayTypeOK
  BY DEF Inv
<1> QED BY <1>1, ReplayInvariant, PTL

\* A resting order and an open position exclude each other (simulator.py:385).
THEOREM NeverBoth == ReplaySpec => []OneAtATime
<1>1. Inv => OneAtATime
  BY DEF Inv
<1> QED BY <1>1, ReplayInvariant, PTL

\* The ceilings of size_position hold but for what was paid above the quote and
\* what filled on another day, whatever the prices and the timelines.
THEOREM CeilingsHold == ReplaySpec => []CapsHold
<1>1. Inv => CapsHold
  BY DEF Inv
<1> QED BY <1>1, ReplayInvariant, PTL

\* Signals evaluated are tallied, resting, open or among the vanished.
THEOREM DecisionsCount == ReplaySpec => []EveryDecisionCounts
<1>1. Inv => EveryDecisionCounts
  BY DEF Inv
<1> QED BY <1>1, ReplayInvariant, PTL

\* max(ZERO, ...) in release never cuts anything off (sizing.py:174).
THEOREM ReleasesAreBacked == ReplaySpec => []Backed
<1>1. Inv => Backed
  BY DEF Inv
<1> QED BY <1>1, ReplayInvariant, PTL

\* However orders follow each other in a market and whatever prints, the fills
\* credited are at most the share of what printed (events.py:193-211).
THEOREM PrintsAreCreditedOnce == ReplaySpec => []PrintsCountOnce
<1>1. ReplayInit => Credited
  <2> SUFFICES ASSUME ReplayInit PROVE Credited
    OBVIOUS
  <2>1. captured = 0 /\ when = 0 /\ prints = Blank /\ ~Resting
    BY DEF ReplayInit, Resting, NoOrder
  <2>2. Blank \in Timelines /\ 0 \in 0..LAST /\ SHARE \in Nat
    BY ReplayAssumption DEF ReplayAssumption, Blank, Timelines
  <2>3. By(Blank, 0) \in Nat
    BY <2>2, PrintsGoOn
  <2>4. SHARE * 0 <= By(Blank, 0)
    BY <2>2, <2>3
  <2> QED BY <2>1, <2>4 DEF Credited
<1>2. Inv /\ Credited /\ [ReplayNext]_replayVars => Credited'
  BY CreditKeeps
<1>3. Inv /\ Credited => PrintsCountOnce
  <2> SUFFICES ASSUME Inv, Credited PROVE PrintsCountOnce
    OBVIOUS
  <2> DEFINE t == IF Resting THEN pending.posted ELSE when
  <2>1. /\ prints \in Timelines /\ t \in 0..LAST /\ LAST \in 0..LAST
        /\ SHARE \in Nat /\ captured \in Nat
    <3>1. /\ prints \in Timelines /\ captured \in Nat /\ when \in 0..LAST
          /\ pending.posted \in 0..LAST
      BY DEF Inv, ReplayTypeOK, Timelines, Orders
    <3>2. LAST \in 0..LAST /\ SHARE \in Nat
      BY ReplayAssumption DEF ReplayAssumption
    <3> QED BY <3>1, <3>2
  <2>2. SHARE * captured <= By(prints, t) /\ SHARE * captured \in Nat
    BY <2>1 DEF Credited
  <2> HIDE DEF t
  <2>3. /\ By(prints, t) \in Nat /\ SumsOf(prints)[(t + 1)..LAST] \in Nat
        /\ By(prints, LAST) = By(prints, t) + SumsOf(prints)[(t + 1)..LAST]
    BY <2>1, PrintsGoOn
  <2>4. MapThenSumSet(LAMBDA u : prints[u].volume, Instants) = By(prints, LAST)
    BY <2>1, PrintedIs DEF By, Instants
  <2>5. SHARE * captured <= By(prints, LAST)
    BY <2>2, <2>3
  <2> QED BY <2>4, <2>5 DEF PrintsCountOnce
<1> QED BY <1>1, <1>2, <1>3, ReplayInvariant, PTL DEF ReplaySpec

\* The ledger is the open positions, those left by ended timelines included: every
\* release takes back what its opening committed (simulator.py:529-559).
THEOREM LedgerIsItsPositions == ReplaySpec => []LedgerMatches
<1>1. ReplayInit => LedgerFits
  <2> SUFFICES ASSUME ReplayInit PROVE LedgerFits
    OBVIOUS
  <2>1. /\ \A m \in Replayed : left[m] = 0 /\ Exposure(m) = 0
        /\ \A b \in Buckets : ledger[b] = 0
    BY DEF ReplayInit, Replayed, Exposure, Notional, NoPosition
  <2>2. Shown \in [Replayed -> Nat] /\ \A m \in Replayed : Shown[m] = 0
    BY <2>1 DEF Shown
  <2>3. IsSum(Exposures(Shown), Shown, Replayed)
    BY <2>2, ExposuresAddUp
  <2>4. \A s \in SUBSET Replayed : Exposures(Shown)[s] = 0
    BY <2>2, <2>3, NothingSums
  <2> QED BY <2>1, <2>4 DEF LedgerFits, MarketsOf
<1>2. Inv /\ LedgerFits /\ [ReplayNext]_replayVars => LedgerFits'
  BY LedgerKeeps
<1>3. Inv /\ LedgerFits => LedgerMatches
  BY LedgerIs
<1> QED BY <1>1, <1>2, <1>3, ReplayInvariant, PTL DEF ReplaySpec

\* Ceilings and tallies hold together, for every price and timeline.
THEOREM BooksAlwaysBalance == ReplaySpec => []BooksBalance
<1>1. Inv => BooksBalance
  BY DEF Inv, BooksBalance
<1> QED BY <1>1, ReplayInvariant, PTL

-----------------------------------------------------------------------------
(* Sums along a ladder.                                                    *)

\* Induction up to a bound.
LEMMA UpToBound ==
  ASSUME NEW n \in Nat, NEW T, 0 \in T, \A i \in 1..n : i - 1 \in T => i \in T
  PROVE  \A i \in 0..n : i \in T
<1> SUFFICES ASSUME NEW m \in 0..n, m \notin T PROVE FALSE
  OBVIOUS
<1> DEFINE Bad == {i \in 0..n : i \notin T}
<1>1. PICK i \in Bad : \A k \in Bad : i <= k
  <2>1. Bad \subseteq Nat /\ Bad # {}
    OBVIOUS
  <2> HIDE DEF Bad
  <2> QED BY <2>1, LeastIs
<1>2. i \in 1..n /\ i - 1 \in 0..n /\ ~(i <= i - 1)
  OBVIOUS
<1>3. i - 1 \in T
  BY <1>1, <1>2
<1> QED BY <1>2, <1>3

\* g[i] is the sum of the first i values of f, up to n.
Accrues(g, f, n) == /\ g \in [0..n -> Int] /\ g[0] = 0
                    /\ \A i \in 1..n : g[i] = g[i - 1] + f[i]

\* The first n values of f are numbers.
Summable(f, n) == \A i \in 1..n : f[i] \in Int

LEMMA AccrualExists ==
  ASSUME NEW n \in Nat, NEW f, Summable(f, n)
  PROVE  \E g : Accrues(g, f, n)
<1> DEFINE T == {k \in 0..n : \E g : Accrues(g, f, k)}
<1>1. 0 \in T
  <2> DEFINE g == [i \in 0..0 |-> 0]
  <2>1. Accrues(g, f, 0)
    BY DEF Accrues
  <2> QED BY <2>1
<1>2. ASSUME NEW i \in 1..n, i - 1 \in T PROVE i \in T
  <2>1. PICK g : Accrues(g, f, i - 1)
    BY <1>2
  <2> DEFINE h == [k \in 0..i |-> IF k = i THEN g[i - 1] + f[i] ELSE g[k]]
  <2>2. f[i] \in Int /\ g[i - 1] \in Int
    BY <2>1 DEF Accrues, Summable
  <2>3. h \in [0..i -> Int] /\ h[0] = 0
    BY <2>1, <2>2 DEF Accrues
  <2>4. \A k \in 1..i : h[k] = h[k - 1] + f[k]
    BY <2>1, <2>2 DEF Accrues
  <2>5. Accrues(h, f, i)
    BY <2>3, <2>4 DEF Accrues
  <2> QED BY <2>5
<1>3. n \in T
  <2> HIDE DEF T
  <2> QED BY <1>1, <1>2, UpToBound
<1> QED BY <1>3

\* The recursion of Total.
Recurs(s, f, n) == s = [i \in 0..n |-> IF i = 0 THEN 0 ELSE s[i - 1] + f[i]]

LEMMA TotalAccrues ==
  ASSUME NEW n \in Nat, NEW f, Summable(f, n)
  PROVE  \E s : Accrues(s, f, n) /\ Total(f, n) = s[n]
<1> DEFINE s == CHOOSE s : Recurs(s, f, n)
<1>1. PICK g : Accrues(g, f, n)
  BY AccrualExists
<1>2. Recurs(g, f, n)
  <2>1. g = [i \in 0..n |-> g[i]]
    BY <1>1 DEF Accrues
  <2>2. \A i \in 0..n : g[i] = IF i = 0 THEN 0 ELSE g[i - 1] + f[i]
    BY <1>1 DEF Accrues
  <2> QED BY <2>1, <2>2, Zenon DEF Recurs
<1>3. Recurs(s, f, n)
  BY <1>2
<1>4. Total(f, n) = s[n]
  BY Zenon DEF Total, Recurs
<1> HIDE DEF s
<1>5. s[0] = 0 /\ \A i \in 1..n : s[i] = s[i - 1] + f[i]
  BY <1>3 DEF Recurs
<1>6. \A i \in 0..n : s[i] = g[i]
  <2> DEFINE T == {i \in 0..n : s[i] = g[i]}
  <2>1. 0 \in T
    BY <1>1, <1>5 DEF Accrues
  <2>2. \A i \in 1..n : i - 1 \in T => i \in T
    BY <1>1, <1>5 DEF Accrues
  <2>3. \A i \in 0..n : i \in T
    <3> HIDE DEF T
    <3> QED BY <2>1, <2>2, UpToBound
  <2> QED BY <2>3
<1> QED BY <1>1, <1>4, <1>6

\* Two accruals of the same values agree as far as both go.
LEMMA AccrualsAgree ==
  ASSUME NEW n \in Nat, NEW m \in 0..n, NEW f, NEW g, NEW h, Accrues(g, f, n), Accrues(h, f, m)
  PROVE  g[m] = h[m]
<1> DEFINE T == {i \in 0..m : g[i] = h[i]}
<1>1. 0 \in T
  BY DEF Accrues
<1>2. \A i \in 1..m : i - 1 \in T => i \in T
  BY DEF Accrues
<1>3. \A i \in 0..m : i \in T
  <2> HIDE DEF T
  <2> QED BY <1>1, <1>2, UpToBound
<1> QED BY <1>3

\* What Total computes.
LEMMA Totals ==
  ASSUME NEW n \in Nat, NEW f, Summable(f, n)
  PROVE  /\ Total(f, 0) = 0
         /\ \A i \in 0..n : Total(f, i) \in Int
         /\ \A i \in 1..n : Total(f, i) = Total(f, i - 1) + f[i]
<1>1. PICK g : Accrues(g, f, n)
  BY AccrualExists
<1>2. ASSUME NEW i \in 0..n PROVE Total(f, i) = g[i]
  <2>1. i \in Nat /\ Summable(f, i)
    BY DEF Summable
  <2>2. PICK s : Accrues(s, f, i) /\ Total(f, i) = s[i]
    BY <2>1, TotalAccrues
  <2> QED BY <1>1, <2>2, AccrualsAgree
<1>3. Total(f, 0) = 0 /\ \A i \in 0..n : Total(f, i) \in Int
  BY <1>1, <1>2 DEF Accrues
<1>4. \A i \in 1..n : Total(f, i) = Total(f, i - 1) + f[i]
  BY <1>1, <1>2 DEF Accrues
<1> QED BY <1>3, <1>4

\* A sum is linear in its terms.
LEMMA TotalIsLinear ==
  ASSUME NEW n \in Nat, NEW a \in Int, NEW f, NEW g, NEW h, Summable(f, n), Summable(g, n),
         Summable(h, n), \A i \in 1..n : h[i] = a * f[i] + g[i]
  PROVE  Total(h, n) = a * Total(f, n) + Total(g, n)
<1> DEFINE T == {i \in 0..n : Total(h, i) = a * Total(f, i) + Total(g, i)}
<1>1. /\ Total(f, 0) = 0 /\ Total(g, 0) = 0 /\ Total(h, 0) = 0
      /\ \A i \in 1..n : /\ Total(f, i) = Total(f, i - 1) + f[i]
                         /\ Total(g, i) = Total(g, i - 1) + g[i]
                         /\ Total(h, i) = Total(h, i - 1) + h[i]
      /\ \A i \in 0..n : Total(f, i) \in Int /\ Total(g, i) \in Int /\ Total(h, i) \in Int
  BY Totals
<1>2. 0 \in T
  BY <1>1
<1>3. ASSUME NEW i \in 1..n, i - 1 \in T PROVE i \in T
  <2> DEFINE fi == f[i]  gi == g[i]  F == Total(f, i - 1)  G == Total(g, i - 1)
  <2>1. fi \in Int /\ gi \in Int /\ F \in Int /\ G \in Int /\ Total(h, i - 1) = a * F + G
    BY <1>1, <1>3 DEF Summable
  <2>2. Total(h, i) = (a * F + G) + (a * fi + gi)
    BY <1>1, <2>1
  <2>3. (a * F + G) + (a * fi + gi) = a * (F + fi) + (G + gi)
    <3> HIDE DEF F, G, fi, gi
    <3> QED BY <2>1
  <2>4. Total(f, i) = F + fi /\ Total(g, i) = G + gi
    BY <1>1
  <2> QED BY <2>2, <2>3, <2>4
<1>4. \A i \in 0..n : i \in T
  <2> HIDE DEF T
  <2> QED BY <1>2, <1>3, UpToBound
<1>5. n \in 0..n
  OBVIOUS
<1> QED BY <1>4, <1>5

\* A sum grows with its terms.
LEMMA TotalGrows ==
  ASSUME NEW n \in Nat, NEW f, NEW g, Summable(f, n), Summable(g, n),
         \A i \in 1..n : f[i] <= g[i]
  PROVE  \A i \in 0..n : Total(f, i) <= Total(g, i)
<1> DEFINE T == {i \in 0..n : Total(f, i) <= Total(g, i)}
<1>1. /\ Total(f, 0) = 0 /\ Total(g, 0) = 0
      /\ \A i \in 1..n : /\ Total(f, i) = Total(f, i - 1) + f[i]
                         /\ Total(g, i) = Total(g, i - 1) + g[i]
      /\ \A i \in 0..n : Total(f, i) \in Int /\ Total(g, i) \in Int
  BY Totals
<1>2. 0 \in T
  BY <1>1
<1>3. \A i \in 1..n : i - 1 \in T => i \in T
  BY <1>1 DEF Summable
<1>4. \A i \in 0..n : i \in T
  <2> HIDE DEF T
  <2> QED BY <1>2, <1>3, UpToBound
<1> QED BY <1>4

LEMMA TotalIsPositive ==
  ASSUME NEW n \in Nat, NEW f, Summable(f, n), \A i \in 1..n : f[i] >= 0
  PROVE  \A i \in 0..n : Total(f, i) >= 0
<1> DEFINE T == {i \in 0..n : Total(f, i) >= 0}
<1>1. /\ Total(f, 0) = 0
      /\ \A i \in 1..n : Total(f, i) = Total(f, i - 1) + f[i]
      /\ \A i \in 0..n : Total(f, i) \in Int
  BY Totals
<1>2. 0 \in T
  BY <1>1
<1>3. \A i \in 1..n : i - 1 \in T => i \in T
  BY <1>1 DEF Summable
<1>4. \A i \in 0..n : i \in T
  <2> HIDE DEF T
  <2> QED BY <1>2, <1>3, UpToBound
<1> QED BY <1>4

LEMMA TotalsAgree ==
  ASSUME NEW n \in Nat, NEW f, NEW g, Summable(f, n), Summable(g, n),
         \A i \in 1..n : f[i] = g[i]
  PROVE  Total(f, n) = Total(g, n)
<1>1. \A i \in 1..n : f[i] <= g[i] /\ g[i] <= f[i]
  BY DEF Summable
<1>2. Total(f, n) <= Total(g, n) /\ Total(g, n) <= Total(f, n)
  BY <1>1, TotalGrows
<1>3. Total(f, n) \in Int /\ Total(g, n) \in Int
  BY Totals
<1> QED BY <1>2, <1>3

-----------------------------------------------------------------------------
(* A walk down a ladder.                                                   *)

LEMMA MaxOfTwo ==
  ASSUME NEW a \in Int, NEW b \in Int PROVE Max({a, b}) = IF a >= b THEN a ELSE b
BY DEF Max

LEMMA MinOfTwo ==
  ASSUME NEW a \in Int, NEW b \in Int PROVE Min({a, b}) = IF a <= b THEN a ELSE b
BY DEF Min

Lesser(a, b) == IF a <= b THEN a ELSE b


LEMMA SizesAre ==
  ASSUME NEW ls \in Ladders
  PROVE  /\ Len(ls) \in Nat /\ DOMAIN ls = 1..Len(ls)
         /\ \A i \in 1..Len(ls) : ls[i].size \in Nat /\ ls[i].price \in Nat
         /\ \A i \in 1..Len(ls) : Sizes(ls)[i] = ls[i].size
         /\ Summable(Sizes(ls), Len(ls))
<1>1. Len(ls) \in Nat /\ DOMAIN ls = 1..Len(ls)
  BY DEF Ladders
<1>2. \A i \in 1..Len(ls) : ls[i] \in BookLevels
  BY DEF Ladders
<1>3. \A i \in 1..Len(ls) : ls[i].size \in Nat /\ ls[i].price \in Nat
  BY <1>2 DEF BookLevels
<1>4. \A i \in 1..Len(ls) : Sizes(ls)[i] = ls[i].size
  BY <1>1 DEF Sizes
<1> QED BY <1>1, <1>3, <1>4 DEF Summable

\* Depths grow by the sizes of the levels.
LEMMA Depths ==
  ASSUME NEW ls \in Ladders
  PROVE  /\ DepthTo(ls, 0) = 0
         /\ \A i \in 0..Len(ls) : DepthTo(ls, i) \in Nat
         /\ \A i \in 1..Len(ls) : DepthTo(ls, i) = DepthTo(ls, i - 1) + ls[i].size
         /\ Depth(ls) \in Nat
<1>1. /\ DepthTo(ls, 0) = 0
      /\ \A i \in 0..Len(ls) : DepthTo(ls, i) \in Int
      /\ \A i \in 1..Len(ls) : DepthTo(ls, i) = DepthTo(ls, i - 1) + ls[i].size
  BY SizesAre, Totals DEF DepthTo
<1>2. \A i \in 0..Len(ls) : DepthTo(ls, i) >= 0
  <2>1. \A i \in 1..Len(ls) : Sizes(ls)[i] >= 0
    BY SizesAre
  <2> QED BY <2>1, SizesAre, TotalIsPositive DEF DepthTo
<1> QED BY <1>1, <1>2, SizesAre DEF Depth

\* What a walk takes of one level.
LEMMA TakenIs ==
  ASSUME NEW ls \in Ladders, NEW t \in Nat, NEW i \in 1..Len(ls)
  PROVE  /\ Taken(ls, t)[i] \in Nat
         /\ Taken(ls, t)[i] = IF t <= DepthTo(ls, i - 1) THEN 0
                              ELSE Lesser(t - DepthTo(ls, i - 1), ls[i].size)
<1> DEFINE d == DepthTo(ls, i - 1)  z == ls[i].size
<1>1. d \in Nat /\ z \in Nat
  BY Depths, SizesAre
<1>2. Taken(ls, t)[i] = Max({0, Min({t - d, z})})
  BY SizesAre DEF Taken
<1> HIDE DEF d, z
<1>3. Min({t - d, z}) = Lesser(t - d, z) /\ Lesser(t - d, z) \in Int
  BY <1>1, MinOfTwo DEF Lesser
<1>4. Taken(ls, t)[i] = IF 0 >= Lesser(t - d, z) THEN 0 ELSE Lesser(t - d, z)
  <2>1. Taken(ls, t)[i] = Max({0, Lesser(t - d, z)})
    BY <1>2, <1>3
  <2>2. \A x \in Int : Max({0, x}) = IF 0 >= x THEN 0 ELSE x
    BY MaxOfTwo
  <2> QED BY <1>3, <2>1, <2>2
<1>5. /\ Taken(ls, t)[i] \in Nat
      /\ Taken(ls, t)[i] = IF t <= d THEN 0 ELSE Lesser(t - d, z)
  BY <1>1, <1>4 DEF Lesser
<1> QED BY <1>5 DEF d, z

LEMMA TakenSums ==
  ASSUME NEW ls \in Ladders, NEW t \in Nat
  PROVE  /\ Summable(Taken(ls, t), Len(ls))
         /\ \A i \in 0..Len(ls) : Total(Taken(ls, t), i) = Lesser(t, DepthTo(ls, i))
<1> DEFINE f == Taken(ls, t)
           T == {i \in 0..Len(ls) : Total(f, i) = Lesser(t, DepthTo(ls, i))}
<1>1. Summable(f, Len(ls))
  BY TakenIs DEF Summable
<1>2. /\ Total(f, 0) = 0
      /\ \A i \in 1..Len(ls) : Total(f, i) = Total(f, i - 1) + f[i]
  BY <1>1, SizesAre, Totals
<1>3. 0 \in T
  BY <1>2, Depths, SizesAre DEF Lesser
<1>4. ASSUME NEW i \in 1..Len(ls), i - 1 \in T PROVE i \in T
  <2> DEFINE d == DepthTo(ls, i - 1)  e == DepthTo(ls, i)  z == ls[i].size
  <2>1. d \in Nat /\ e \in Nat /\ z \in Nat /\ e = d + z
    BY SizesAre, Depths
  <2>2. f[i] = IF t <= d THEN 0 ELSE Lesser(t - d, z)
    BY TakenIs
  <2>3. Total(f, i) = Lesser(t, d) + f[i]
    BY <1>2, <1>4
  <2>4. Total(f, i) = Lesser(t, e)
    <3> HIDE DEF d, e, z, f
    <3> QED BY <2>1, <2>2, <2>3 DEF Lesser
  <2>5. i \in 0..Len(ls)
    BY SizesAre
  <2> QED BY <2>4, <2>5
<1>5. \A i \in 0..Len(ls) : i \in T
  <2> HIDE DEF T
  <2> QED BY <1>3, <1>4, UpToBound, SizesAre
<1> QED BY <1>1, <1>5

\* A walk fills what was asked for, or all there is.
LEMMA WalkFills ==
  ASSUME NEW ls \in Ladders, NEW t \in Nat
  PROVE  Walk(ls, t).filled = Lesser(t, Depth(ls))
<1>1. Len(ls) \in 0..Len(ls)
  BY SizesAre
<1> QED BY <1>1, TakenSums DEF Walk, Depth

LEMMA WorthIs ==
  ASSUME NEW ls \in Ladders, NEW f, Summable(f, Len(ls))
  PROVE  /\ Summable(Worth(ls, f), Len(ls))
         /\ \A i \in 1..Len(ls) : Worth(ls, f)[i] = Money * f[i] * ls[i].price
<1>1. \A i \in 1..Len(ls) : Worth(ls, f)[i] = Money * f[i] * ls[i].price
  BY SizesAre DEF Worth
<1>2. \A i \in 1..Len(ls) : Money * f[i] * ls[i].price \in Int
  BY SizesAre DEF Summable, Money
<1> QED BY <1>1, <1>2 DEF Summable

LEMMA NotionalIs ==
  ASSUME NEW ls \in Ladders, NEW t \in Nat
  PROVE  Walk(ls, t).notional \in Nat
<1> DEFINE f == Taken(ls, t)
<1>1. Summable(Worth(ls, f), Len(ls))
  BY TakenSums, WorthIs
<1>2. ASSUME NEW i \in 1..Len(ls) PROVE Worth(ls, f)[i] >= 0
  <2> DEFINE p == ls[i].price  n == f[i]
  <2>1. Worth(ls, f)[i] = Money * n * p /\ n \in Nat /\ p \in Nat
    BY TakenSums, WorthIs, TakenIs, SizesAre
  <2>2. Money * n * p >= 0
    <3> HIDE DEF n, p
    <3> QED BY <2>1 DEF Money
  <2> QED BY <2>1, <2>2
<1>3. Total(Worth(ls, f), Len(ls)) \in Int /\ Total(Worth(ls, f), Len(ls)) >= 0
  <2>1. Len(ls) \in Nat /\ Len(ls) \in 0..Len(ls)
    BY SizesAre
  <2> QED BY <1>1, <1>2, <2>1, Totals, TotalIsPositive
<1> QED BY <1>3 DEF Walk

-----------------------------------------------------------------------------
(* Entries kept.                                                           *)

\* How many of some positions come up to i.
Upto(K, i) == {j \in K : j <= i}

LEMMA PositionsCount ==
  ASSUME NEW n \in Nat, NEW K \in SUBSET (1..n)
  PROVE  /\ IsFiniteSet(K) /\ Cardinality(K) \in Nat
         /\ \A i \in 0..n : IsFiniteSet(Upto(K, i)) /\ Cardinality(Upto(K, i)) \in Nat
         /\ Cardinality(Upto(K, 0)) = 0 /\ Upto(K, n) = K
         /\ \A i \in 1..n : Cardinality(Upto(K, i)) =
                IF i \in K THEN Cardinality(Upto(K, i - 1)) + 1
                ELSE Cardinality(Upto(K, i - 1))
         /\ \A i, k \in 0..n : i <= k => Cardinality(Upto(K, i)) <= Cardinality(Upto(K, k))
<1>1. \A j : j \in K => j \in Int /\ 1 <= j /\ j <= n
  <2>1. \A j : j \in K => j \in 1..n
    BY Zenon
  <2>2. \A j : j \in 1..n => j \in Int /\ 1 <= j /\ j <= n
    OBVIOUS
  <2> QED BY <2>1, <2>2, Zenon
<1>u. \A i, j : j \in Upto(K, i) <=> j \in K /\ j <= i
  BY Zenon DEF Upto
<1>2. IsFiniteSet(K)
  <2>1. IsFiniteSet(1..n)
    BY CountedIsFinite
  <2> QED BY <2>1, FS_Subset
<1>3. ASSUME NEW i \in 0..n PROVE IsFiniteSet(Upto(K, i)) /\ Cardinality(Upto(K, i)) \in Nat
  <2>1. Upto(K, i) \in SUBSET K
    BY DEF Upto
  <2>2. IsFiniteSet(Upto(K, i))
    BY <1>2, <2>1, FS_Subset
  <2> QED BY <2>2, FS_CardinalityType
<1>4. Upto(K, 0) = {} /\ Upto(K, n) = K
  <2>1. \A j : j \notin Upto(K, 0)
    BY <1>1, <1>u
  <2>2. \A j : j \in Upto(K, n) <=> j \in K
    BY <1>1, <1>u
  <2> QED BY <2>1, <2>2
<1>5. ASSUME NEW i \in 1..n
      PROVE  Cardinality(Upto(K, i)) = IF i \in K THEN Cardinality(Upto(K, i - 1)) + 1
                                       ELSE Cardinality(Upto(K, i - 1))
  <2>1. i - 1 \in 0..n /\ i \notin Upto(K, i - 1)
    BY DEF Upto
  <2>2. CASE i \in K
    <3>1. \A j : j \in Upto(K, i) <=> j \in Upto(K, i - 1) \/ j = i
      BY <1>1, <1>u, <2>2
    <3>2. Upto(K, i) = Upto(K, i - 1) \cup {i}
      BY <3>1
    <3>3. IsFiniteSet(Upto(K, i - 1))
      BY <1>3, <2>1
    <3>4. Cardinality(Upto(K, i - 1) \cup {i}) = Cardinality(Upto(K, i - 1)) + 1
      BY <2>1, <3>3, FS_AddElement
    <3> QED BY <2>2, <3>2, <3>4
  <2>3. CASE i \notin K
    <3>1. \A j : j \in Upto(K, i) <=> j \in Upto(K, i - 1)
      BY <1>1, <1>u, <2>3
    <3> QED BY <2>3, <3>1
  <2> QED BY <2>2, <2>3
<1>6. ASSUME NEW i \in 0..n, NEW k \in 0..n, i <= k
      PROVE  Cardinality(Upto(K, i)) <= Cardinality(Upto(K, k))
  <2>1. Upto(K, i) \in SUBSET Upto(K, k)
    <3>1. \A j : j \in Upto(K, i) => j \in Upto(K, k)
      BY <1>1, <1>u, <1>6
    <3> QED BY <3>1
  <2>2. IsFiniteSet(Upto(K, k))
    BY <1>3
  <2> QED BY <2>1, <2>2, FS_Subset
<1>7. Cardinality({}) = 0
  BY FS_EmptySet
<1> QED BY <1>2, <1>3, <1>4, <1>5, <1>6, <1>7, FS_CardinalityType

\* The positions kept, in order.
Enumerates(nth, K) ==
  /\ nth \in [1..Cardinality(K) -> K]
  /\ \A a, b \in 1..Cardinality(K) : a < b => nth[a] < nth[b]
  /\ \A i \in K : \E a \in 1..Cardinality(K) : nth[a] = i

KeptOf(t, s, K) ==
  \E nth : Enumerates(nth, K) /\ t = [a \in 1..Cardinality(K) |-> s[nth[a]]]

LEMMA AtPicks ==
  ASSUME NEW n \in Nat, NEW K \in SUBSET (1..n), NEW s
  PROVE  KeptOf(At(s, K), s, K)
<1> DEFINE c(i) == Cardinality(Upto(K, i))
           nth == [a \in 1..Cardinality(K) |-> CHOOSE i \in K : c(i) = a]
<1>1. /\ Cardinality(K) \in Nat
      /\ \A i \in 0..n : c(i) \in Nat
      /\ c(0) = 0 /\ c(n) = Cardinality(K)
      /\ \A i \in 1..n : c(i) = IF i \in K THEN c(i - 1) + 1 ELSE c(i - 1)
      /\ \A i, k \in 0..n : i <= k => c(i) <= c(k)
  BY PositionsCount
<1>2. ASSUME NEW a \in 1..Cardinality(K) PROVE \E i \in K : c(i) = a
  <2> DEFINE High == {i \in 0..n : c(i) >= a}
  <2> HIDE DEF c
  <2>1. PICK i \in High : \A k \in High : i <= k
    <3>1. High \subseteq Nat /\ n \in High
      <4>1. n \in 0..n /\ c(n) >= a
        BY <1>1
      <4> QED BY <4>1
    <3> HIDE DEF High
    <3> QED BY <3>1, LeastIs
  <2>2. i \in 1..n /\ i - 1 \in 0..n
    BY <1>1
  <2>3. c(i - 1) < a
    <3>1. i - 1 \notin High
      BY <2>1, <2>2
    <3> QED BY <1>1, <2>2, <3>1
  <2>4. i \in K /\ c(i) = a
    BY <1>1, <2>2, <2>3
  <2> QED BY <2>4
<1>3. \A a \in 1..Cardinality(K) : nth[a] \in K /\ c(nth[a]) = a
  <2> HIDE DEF c
  <2> QED BY <1>2
<1>4. At(s, K) = [a \in 1..Cardinality(K) |-> s[nth[a]]]
  BY DEF At, Upto
<1> HIDE DEF nth
<1>5. nth \in [1..Cardinality(K) -> K]
  <2>1. nth = [a \in 1..Cardinality(K) |-> nth[a]]
    BY DEF nth
  <2> QED BY <1>3, <2>1
<1>6. ASSUME NEW a \in 1..Cardinality(K), NEW b \in 1..Cardinality(K), a < b
      PROVE  nth[a] < nth[b]
  <2> HIDE DEF c
  <2>1. nth[a] \in 0..n /\ nth[b] \in 0..n
    <3>1. nth[a] \in K /\ nth[b] \in K
      BY <1>3
    <3>2. \A j \in K : j \in 0..n
      OBVIOUS
    <3> QED BY <3>1, <3>2, Zenon
  <2> QED BY <1>1, <1>3, <1>6, <2>1
<1>7. ASSUME NEW i \in K PROVE \E a \in 1..Cardinality(K) : nth[a] = i
  <2> HIDE DEF c
  <2>1. i \in 1..n /\ c(i) \in Nat /\ c(i) >= 1 /\ c(i) <= Cardinality(K)
    BY <1>1
  <2> DEFINE k == nth[c(i)]
  <2>2. k \in K /\ c(k) = c(i)
    BY <1>3, <2>1
  <2> HIDE DEF k
  <2>3. ASSUME k < i PROVE FALSE
    <3>1. k \in 0..n /\ i - 1 \in 0..n /\ k <= i - 1
      BY <2>1, <2>2, <2>3
    <3>2. c(k) <= c(i - 1)
      BY <1>1, <3>1
    <3>3. c(i) = c(i - 1) + 1
      BY <1>1, <2>1
    <3> QED BY <1>1, <2>2, <3>1, <3>2, <3>3
  <2>4. ASSUME i < k PROVE FALSE
    <3>1. i \in 0..n /\ k - 1 \in 0..n /\ i <= k - 1 /\ k \in 1..n
      BY <2>1, <2>2, <2>4
    <3>2. c(i) <= c(k - 1)
      BY <1>1, <3>1
    <3>3. c(k) = c(k - 1) + 1
      BY <1>1, <2>2, <3>1
    <3> QED BY <1>1, <2>2, <3>1, <3>2, <3>3
  <2>5. k = i
    <3>1. k \in Int /\ i \in Int
      BY <2>1, <2>2
    <3> QED BY <2>3, <2>4, <3>1
  <2> QED BY <2>1, <2>5 DEF k
<1>8. Enumerates(nth, K)
  BY <1>5, <1>6, <1>7 DEF Enumerates
<1> QED BY <1>4, <1>8 DEF KeptOf

\* What is kept is a sequence of the same things; it is empty when nothing is kept.
Picks(t, s, K, S) ==
  /\ t \in Seq(S) /\ Len(t) = Cardinality(K)
  /\ \A a \in 1..Len(t) : \E i \in K : t[a] = s[i]
  /\ t = <<>> <=> K = {}

LEMMA AtIsSeq ==
  ASSUME NEW S, NEW s, NEW n \in Nat, NEW K \in SUBSET (1..n), \A i \in K : s[i] \in S
  PROVE  Picks(At(s, K), s, K, S)
<1>1. PICK nth : Enumerates(nth, K) /\ At(s, K) = [a \in 1..Cardinality(K) |-> s[nth[a]]]
  <2>1. KeptOf(At(s, K), s, K)
    BY AtPicks
  <2> QED BY <2>1, Zenon DEF KeptOf
<1>2. Cardinality(K) \in Nat /\ (Cardinality(K) = 0 <=> K = {})
  BY PositionsCount, FS_EmptySet
<1>3. \A a \in 1..Cardinality(K) : nth[a] \in K
  BY <1>1 DEF Enumerates
<1>4. At(s, K) \in [1..Cardinality(K) -> S]
  BY <1>1, <1>3
<1>5. At(s, K) \in Seq(S) /\ Len(At(s, K)) = Cardinality(K)
  BY <1>2, <1>4
<1>6. At(s, K) = <<>> <=> K = {}
  BY <1>2, <1>5
<1>7. \A a \in 1..Len(At(s, K)) : \E i \in K : At(s, K)[a] = s[i]
  BY <1>1, <1>3, <1>5
<1> QED BY <1>5, <1>6, <1>7 DEF Picks

\* What is kept stays in order.
LEMMA AtKeepsOrder ==
  ASSUME NEW s, NEW n \in Nat, NEW K \in SUBSET (1..n),
         \A i, k \in 1..n : i < k => s[k].price <= s[i].price
  PROVE  \A a, b \in 1..Cardinality(K) : a < b => At(s, K)[b].price <= At(s, K)[a].price
<1>1. PICK nth : Enumerates(nth, K) /\ At(s, K) = [a \in 1..Cardinality(K) |-> s[nth[a]]]
  <2>1. KeptOf(At(s, K), s, K)
    BY AtPicks
  <2> QED BY <2>1, Zenon DEF KeptOf
<1>2. ASSUME NEW a \in 1..Cardinality(K), NEW b \in 1..Cardinality(K), a < b
      PROVE  At(s, K)[b].price <= At(s, K)[a].price
  <2>1. nth[a] \in K /\ nth[b] \in K /\ nth[a] < nth[b]
    BY <1>1, <1>2 DEF Enumerates
  <2>2. nth[a] \in 1..n /\ nth[b] \in 1..n
    BY <2>1, Zenon
  <2> QED BY <1>1, <2>1, <2>2
<1> QED BY <1>2

-----------------------------------------------------------------------------
(* Rounding and fees.                                                      *)

LEMMA DivIs ==
  ASSUME NEW x \in Int, NEW d \in Nat, d > 0
  PROVE  x \div d \in Int /\ d * (x \div d) <= x /\ x < d * (x \div d) + d
OBVIOUS

LEMMA HalfUpIs ==
  ASSUME NEW a \in Int, NEW b \in Nat, b > 0
  PROVE  /\ HalfUp(a, b) \in Int
         /\ 2 * (b * HalfUp(a, b)) <= 2 * a + b /\ 2 * a < 2 * (b * HalfUp(a, b)) + b
<1> DEFINE x == 2 * a + b  d == 2 * b  h == x \div d
<1>1. x \in Int /\ d \in Nat /\ d > 0
  OBVIOUS
<1>2. h \in Int /\ d * h <= x /\ x < d * h + d
  <2> HIDE DEF x, d
  <2> QED BY <1>1, DivIs
<1>3. d * h = 2 * (b * h)
  <2> HIDE DEF h
  <2> QED BY <1>2
<1> HIDE DEF h
<1>4. HalfUp(a, b) = h
  BY DEF HalfUp, h
<1> QED BY <1>2, <1>3, <1>4

\* A product of natural numbers, and how it grows.
LEMMA ProductIs ==
  ASSUME NEW a \in Nat, NEW b \in Nat PROVE a * b \in Nat
OBVIOUS

LEMMA ProductGrows ==
  ASSUME NEW a \in Nat, NEW b \in Int, NEW c \in Int, b <= c
  PROVE  a * b <= a * c /\ (a > 0 /\ b < c => a * b < a * c)
<1>1. PICK d \in Nat : c = b + d
  <2>1. c - b \in Nat /\ c = b + (c - b)
    OBVIOUS
  <2> QED BY <2>1
<1>2. a * c = a * b + a * d /\ a * d \in Nat
  BY <1>1
<1>3. a > 0 /\ d > 0 => a * d > 0
  BY <1>1
<1> QED BY <1>1, <1>2, <1>3

LEMMA HalfUpAtMost ==
  ASSUME NEW a \in Int, NEW b \in Nat, b > 0, NEW p \in Int, a <= b * p
  PROVE  HalfUp(a, b) <= p
<1> DEFINE h == HalfUp(a, b)
<1>1. h \in Int /\ 2 * (b * h) <= 2 * a + b
  BY HalfUpIs
<1> HIDE DEF h
<1>2. ASSUME p + 1 <= h PROVE FALSE
  <2>1. b * (p + 1) <= b * h
    BY <1>1, <1>2, ProductGrows
  <2>2. b * (p + 1) = b * p + b /\ b * p \in Int /\ b * h \in Int
    BY <1>1
  <2> QED BY <1>1, <2>1, <2>2
<1> QED BY <1>1, <1>2 DEF h

LEMMA HalfUpAtLeast ==
  ASSUME NEW a \in Int, NEW b \in Nat, b > 0, NEW p \in Int, b * p <= a
  PROVE  p <= HalfUp(a, b)
<1> DEFINE h == HalfUp(a, b)
<1>1. h \in Int /\ 2 * a < 2 * (b * h) + b
  BY HalfUpIs
<1> HIDE DEF h
<1>2. ASSUME h + 1 <= p PROVE FALSE
  <2>1. b * (h + 1) <= b * p
    BY <1>1, <1>2, ProductGrows
  <2>2. b * (h + 1) = b * h + b /\ b * p \in Int /\ b * h \in Int
    BY <1>1
  <2> QED BY <1>1, <2>1, <2>2
<1> QED BY <1>1, <1>2 DEF h

LEMMA CeilDivIs ==
  ASSUME NEW a \in Int, NEW b \in Nat, b > 0
  PROVE  CeilDiv(a, b) \in Int /\ a <= b * CeilDiv(a, b) /\ b * CeilDiv(a, b) < a + b
<1> DEFINE x == -a  h == x \div b
<1>1. x \in Int
  OBVIOUS
<1>2. h \in Int /\ b * h <= x /\ x < b * h + b
  <2> HIDE DEF x
  <2> QED BY <1>1, DivIs
<1>3. b * (-h) = -(b * h) /\ b * h \in Int
  <2> HIDE DEF h
  <2> QED BY <1>2
<1> HIDE DEF h
<1>4. CeilDiv(a, b) = -h
  BY DEF CeilDiv, h
<1> QED BY <1>2, <1>3, <1>4

LEMMA CeilDivIsNat ==
  ASSUME NEW a \in Nat, NEW b \in Nat, b > 0
  PROVE  CeilDiv(a, b) \in Nat
<1> DEFINE c == CeilDiv(a, b)
<1>1. c \in Int /\ a <= b * c
  BY CeilDivIs
<1> HIDE DEF c
<1>2. ASSUME c <= -1 PROVE FALSE
  <2>1. b * c <= b * (-1)
    BY <1>1, <1>2, ProductGrows
  <2>2. b * (-1) = -b /\ b * c \in Int
    BY <1>1
  <2> QED BY <1>1, <2>1, <2>2
<1> QED BY <1>1, <1>2 DEF c

LEMMA HalfUpIsNat ==
  ASSUME NEW a \in Nat, NEW b \in Nat, b > 0
  PROVE  HalfUp(a, b) \in Nat
<1>1. b * 0 <= a /\ 0 \in Int
  OBVIOUS
<1>2. HalfUp(a, b) \in Int /\ 0 <= HalfUp(a, b)
  BY <1>1, HalfUpIs, HalfUpAtLeast
<1> QED BY <1>2

LEMMA Units == One \in Nat /\ One > 0 /\ Cent \in Nat /\ Cent > 0 /\ 10 * One = 100 * Cent
<1>1. One \in Nat \ {0} /\ One % 100 = 0
  BY PricingAssumption DEF PricingAssumption
<1>2. One = 100 * (One \div 100) /\ One \div 100 \in Int
  BY <1>1
<1> QED BY <1>1, <1>2 DEF Cent, Money

\* A fee is never negative.
LEMMA FeeIsNat ==
  ASSUME NEW m, m.rate \in Nat, NEW n \in Nat, NEW p \in Int
  PROVE  TakerFee(m, n, p) \in Nat /\ KalshiFee(n, p, m.rate) \in Nat
<1> DEFINE x == m.rate * n * p * (One - p)
<1>1. CASE n <= 0 \/ p <= 0 \/ p >= One \/ m.rate <= 0
  <2>1. KalshiFee(n, p, m.rate) = 0 /\ PolymarketFee(n, p, m.rate) = 0
    BY <1>1 DEF KalshiFee, PolymarketFee
  <2>2. Cent * m.rate * n \in Nat
    BY Units, ProductIs
  <2> QED BY <2>1, <2>2 DEF TakerFee
<1>2. CASE ~(n <= 0 \/ p <= 0 \/ p >= One \/ m.rate <= 0)
  <2>1. p \in Nat /\ One - p \in Nat
    BY <1>2, Units
  <2>2. m.rate * n \in Nat
    BY ProductIs
  <2>3. m.rate * n * p \in Nat
    BY <2>1, <2>2, ProductIs
  <2>4. x \in Nat
    BY <2>1, <2>3, ProductIs
  <2>5. One * One \in Nat /\ One * One > 0 /\ 100 * One \in Nat /\ 100 * One > 0
    BY Units
  <2>6. x * Money \in Nat
    <3> HIDE DEF x
    <3> QED BY <2>4 DEF Money
  <2>7. KalshiFee(n, p, m.rate) = Cent * CeilDiv(x, One * One)
    BY <1>2 DEF KalshiFee
  <2>8. PolymarketFee(n, p, m.rate) = HalfUp(x * Money, 100 * One)
    BY <1>2 DEF PolymarketFee
  <2>9. CeilDiv(x, One * One) \in Nat
    <3> HIDE DEF x
    <3> QED BY <2>4, <2>5, CeilDivIsNat
  <2>10. HalfUp(x * Money, 100 * One) \in Nat
    <3> HIDE DEF x
    <3> QED BY <2>5, <2>6, HalfUpIsNat
  <2>11. Cent * CeilDiv(x, One * One) \in Nat
    <3> HIDE DEF x
    <3> QED BY <2>9, Units, ProductIs
  <2>12. Cent * m.rate * n \in Nat
    BY Units, ProductIs
  <2> HIDE DEF x
  <2> QED BY <2>7, <2>8, <2>10, <2>11, <2>12 DEF TakerFee
<1> QED BY <1>1, <1>2

-----------------------------------------------------------------------------
(* Average prices.                                                         *)

\* The terms of a walk's notional.
LEMMA NotionalTerms ==
  ASSUME NEW ls \in Ladders, NEW t \in Nat
  PROVE  /\ Summable(Taken(ls, t), Len(ls)) /\ Summable(Worth(ls, Taken(ls, t)), Len(ls))
         /\ Walk(ls, t).notional = Total(Worth(ls, Taken(ls, t)), Len(ls))
         /\ Walk(ls, t).filled = Total(Taken(ls, t), Len(ls))
         /\ \A i \in 1..Len(ls) : /\ Taken(ls, t)[i] \in Nat
                                  /\ Worth(ls, Taken(ls, t))[i] = 10 * (Taken(ls, t)[i] * ls[i].price)
<1>1. \A i \in 1..Len(ls) : /\ Taken(ls, t)[i] \in Nat
                            /\ Worth(ls, Taken(ls, t))[i] = Money * Taken(ls, t)[i] * ls[i].price
  BY TakenSums, WorthIs, TakenIs
<1>2. ASSUME NEW i \in 1..Len(ls)
      PROVE  Worth(ls, Taken(ls, t))[i] = 10 * (Taken(ls, t)[i] * ls[i].price)
  <2> DEFINE a == Taken(ls, t)[i]  b == ls[i].price
  <2>1. a \in Nat /\ b \in Nat /\ Worth(ls, Taken(ls, t))[i] = Money * a * b
    BY <1>1, SizesAre
  <2> HIDE DEF a, b
  <2>2. Money * a * b = 10 * (a * b)
    BY <2>1 DEF Money
  <2> QED BY <2>1, <2>2 DEF a, b
<1> QED BY <1>1, <1>2, TakenSums, WorthIs DEF Walk

\* If no level costs more than p, nor less than q, no contract does.
LEMMA PriceBounds ==
  ASSUME NEW ls \in Ladders, NEW t \in Nat, NEW p \in Int
  PROVE  /\ (\A i \in 1..Len(ls) : ls[i].price <= p) =>
               Walk(ls, t).notional <= 10 * (Walk(ls, t).filled * p)
         /\ (\A i \in 1..Len(ls) : p <= ls[i].price) =>
               10 * (Walk(ls, t).filled * p) <= Walk(ls, t).notional
<1> DEFINE f == Taken(ls, t)
           w == Worth(ls, f)
           h == [i \in 1..Len(ls) |-> (10 * p) * f[i] + 0]
           z == [i \in 1..Len(ls) |-> 0]
           n == Len(ls)
<1>1. /\ n \in Nat /\ Summable(f, n) /\ Summable(w, n)
      /\ \A i \in 1..n : f[i] \in Nat /\ w[i] = 10 * (f[i] * ls[i].price) /\ ls[i].price \in Nat
      /\ Walk(ls, t).notional = Total(w, n) /\ Walk(ls, t).filled = Total(f, n)
  BY NotionalTerms, SizesAre
<1> HIDE DEF f, w, n
<1>2. Summable(h, n) /\ Summable(z, n)
  BY <1>1 DEF Summable, n
<1>3. Total(h, n) = (10 * p) * Total(f, n) + Total(z, n)
  <2>1. \A i \in 1..n : h[i] = (10 * p) * f[i] + z[i]
    BY <1>1 DEF n
  <2>2. 10 * p \in Int
    OBVIOUS
  <2> HIDE DEF h, z
  <2> QED BY <1>1, <1>2, <2>1, <2>2, TotalIsLinear
<1>4. Total(z, n) = 0
  <2>1. \A i \in 1..n : z[i] = 0 * f[i] + z[i] /\ z[i] <= 0 /\ z[i] >= 0
    BY <1>1 DEF n
  <2>2. \A i \in 1..n : z[i] >= 0
    BY <2>1
  <2>3. n \in 0..n
    BY <1>1
  <2>4. Total(z, n) >= 0
    BY <1>1, <1>2, <2>2, <2>3, TotalIsPositive
  <2>5. Total(z, n) = (-1) * Total(z, n) + Total(z, n)
    <3>1. \A i \in 1..n : z[i] = (-1) * z[i] + z[i]
      BY DEF n
    <3> HIDE DEF z
    <3> QED BY <1>1, <1>2, <3>1, TotalIsLinear
  <2>6. Total(z, n) \in Int
    BY <1>1, <1>2, <2>3, Totals
  <2> QED BY <2>5, <2>6
<1>5. Total(h, n) = 10 * (Walk(ls, t).filled * p)
  <2>1. Total(f, n) \in Int
    <3>1. n \in 0..n
      BY <1>1
    <3> QED BY <1>1, <3>1, Totals
  <2> DEFINE T == Total(f, n)
  <2>2. (10 * p) * T = 10 * (T * p)
    <3> HIDE DEF T
    <3> QED BY <2>1 DEF T
  <2> QED BY <1>1, <1>3, <1>4, <2>1, <2>2
<1>6. ASSUME NEW i \in 1..n
      PROVE  /\ ls[i].price <= p => w[i] <= h[i]
             /\ p <= ls[i].price => h[i] <= w[i]
  <2> DEFINE a == f[i]  b == ls[i].price
  <2>1. a \in Nat /\ b \in Nat /\ w[i] = 10 * (a * b) /\ h[i] = (10 * p) * a + 0
    BY <1>1 DEF n
  <2> HIDE DEF a, b, h
  <2>2. (10 * p) * a = 10 * (a * p) /\ a * b \in Int /\ a * p \in Int
    BY <2>1
  <2>3. b <= p => a * b <= a * p
    BY <2>1, ProductGrows
  <2>4. p <= b => a * p <= a * b
    BY <2>1, ProductGrows
  <2> QED BY <2>1, <2>2, <2>3, <2>4 DEF b
<1>7. n \in 0..n
  BY <1>1
<1> HIDE DEF h
<1>8. ASSUME \A i \in 1..n : ls[i].price <= p PROVE Total(w, n) <= Total(h, n)
  BY <1>1, <1>2, <1>6, <1>7, <1>8, TotalGrows
<1>9. ASSUME \A i \in 1..n : p <= ls[i].price PROVE Total(h, n) <= Total(w, n)
  BY <1>1, <1>2, <1>6, <1>7, <1>9, TotalGrows
<1> QED BY <1>1, <1>5, <1>8, <1>9 DEF n

-----------------------------------------------------------------------------
(* Capacity: what a book can hold.                                         *)

Kept(l) == 0 < l.price /\ l.price < One /\ l.size > 0

\* A kept ladder.
Sound(ls) == ls \in Ladders /\ \A i \in 1..Len(ls) : Kept(ls[i])

SoundBook(book) ==
  /\ Sound(book.asks) /\ Sound(book.bids) /\ book.asks # <<>> /\ book.bids # <<>>
  /\ \A i \in 1..Len(book.bids) : book.bids[i].price <= book.bids[1].price

LEMMA KeptRows ==
  ASSUME NEW rows \in StoredRows
  PROVE  /\ Sound(LevelsFromRows(rows))
         /\ (\A i, k \in DOMAIN rows : i < k => rows[k].price <= rows[i].price) =>
               \A i \in 1..Len(LevelsFromRows(rows)) :
                   LevelsFromRows(rows)[i].price <= LevelsFromRows(rows)[1].price
<1> DEFINE n == Len(rows)
           Proper(i) == 0 < rows[i].price /\ rows[i].price < One /\ rows[i].size > 0
           K == {i \in DOMAIN rows : Proper(i)}
           ls == At(rows, K)
<1>1. /\ n \in Nat /\ DOMAIN rows = 1..n
      /\ \A i \in 1..n : rows[i] \in [price : Int, size : Int]
  <2> HIDE DEF Proper, K, ls
  <2> DEFINE R == [price : Int, size : Int]
  <2>1. rows \in Seq(R)
    BY DEF StoredRows
  <2> HIDE DEF R
  <2>2. Len(rows) \in Nat /\ DOMAIN rows = 1..Len(rows) /\ \A i \in 1..Len(rows) : rows[i] \in R
    BY <2>1
  <2> QED BY <2>2 DEF R
<1>2. \A i \in 1..n : Proper(i) => rows[i] \in BookLevels /\ Kept(rows[i])
  BY <1>1, Units DEF BookLevels, Kept
<1> HIDE DEF n, Proper
<1>3. K \in SUBSET (1..n) /\ \A i \in K : rows[i] \in BookLevels /\ Kept(rows[i])
  BY <1>1, <1>2
<1>4. LevelsFromRows(rows) = ls
  BY DEF LevelsFromRows, Proper
<1> HIDE DEF K
<1>5. Picks(ls, rows, K, BookLevels)
  BY <1>1, <1>3, AtIsSeq
<1>6. Len(ls) = Cardinality(K)
  BY <1>5 DEF Picks
<1>7. \A a \in 1..Len(ls) : ls[a] \in BookLevels /\ Kept(ls[a])
  BY <1>3, <1>5 DEF Picks
<1>8. Sound(ls)
  BY <1>5, <1>7 DEF Sound, Ladders, Picks
<1>9. ASSUME \A i, k \in DOMAIN rows : i < k => rows[k].price <= rows[i].price,
             NEW a \in 1..Len(ls)
      PROVE  ls[a].price <= ls[1].price
  <2>1. \A b, c \in 1..Cardinality(K) : b < c => ls[c].price <= ls[b].price
    <3>1. \A i, k \in 1..n : i < k => rows[k].price <= rows[i].price
      BY <1>1, <1>9
    <3> HIDE DEF ls
    <3> QED BY <1>1, <1>3, <3>1, AtKeepsOrder DEF ls
  <2> HIDE DEF ls
  <2>2. 1 \in 1..Len(ls) /\ a \in Int
    BY <1>5 DEF Picks
  <2>3. ls[1] \in BookLevels
    BY <1>7, <2>2
  <2>4. ls[1].price \in Nat
    BY <2>3 DEF BookLevels
  <2> QED BY <1>6, <2>1, <2>2, <2>4
<1> QED BY <1>4, <1>8, <1>9

\* A kept ladder that is not empty can fill something.
LEMMA SomeDepth ==
  ASSUME NEW ls, Sound(ls), ls # <<>>
  PROVE  ls \in Ladders /\ 1 \in 1..Len(ls) /\ Depth(ls) \in Nat /\ Depth(ls) > 0
<1>1. ls \in Ladders /\ 1 \in 1..Len(ls) /\ ls[1].size > 0
  BY DEF Sound, Kept, Ladders
<1>2. Total(Sizes(ls), 0) = 0 /\ Len(ls) \in Nat /\ Len(ls) \in 0..Len(ls)
  BY <1>1, SizesAre, Totals
<1> DEFINE z == [i \in 1..Len(ls) |-> IF i = 1 THEN 1 ELSE 0]
<1>3. Summable(z, Len(ls)) /\ \A i \in 1..Len(ls) : z[i] <= Sizes(ls)[i]
  BY <1>1, SizesAre DEF Summable
<1>4. Total(z, Len(ls)) <= Depth(ls)
  <2> HIDE DEF z
  <2> QED BY <1>1, <1>2, <1>3, SizesAre, TotalGrows DEF Depth, DepthTo
<1>5. Total(z, Len(ls)) >= 1
  <2> DEFINE T == {i \in 0..Len(ls) : i = 0 \/ Total(z, i) >= 1}
  <2>1. /\ Total(z, 0) = 0
        /\ \A i \in 1..Len(ls) : Total(z, i) = Total(z, i - 1) + z[i]
        /\ \A i \in 0..Len(ls) : Total(z, i) \in Int
    <3> HIDE DEF z
    <3> QED BY <1>2, <1>3, Totals
  <2>2. 0 \in T
    BY <1>2
  <2>3. ASSUME NEW i \in 1..Len(ls), i - 1 \in T PROVE i \in T
    <3>1. CASE i = 1
      BY <2>1, <3>1
    <3>2. CASE i # 1
      <4>1. Total(z, i) = Total(z, i - 1) + 0
        BY <2>1, <3>2
      <4>2. Total(z, i - 1) >= 1 /\ Total(z, i - 1) \in Int
        BY <2>1, <2>3, <3>2
      <4> QED BY <4>1, <4>2
    <3> QED BY <3>1, <3>2
  <2>4. \A i \in 0..Len(ls) : i \in T
    <3> HIDE DEF T
    <3> QED BY <1>2, <2>2, <2>3, UpToBound
  <2> QED BY <1>1, <1>2, <2>4
<1>6. Depth(ls) \in Nat
  BY <1>1, Depths
<1>7. Total(z, Len(ls)) \in Int
  <2> HIDE DEF z
  <2> QED BY <1>2, <1>3, Totals
<1> QED BY <1>1, <1>4, <1>5, <1>6, <1>7

\* What an observation is made of.
Observed(o) ==
  /\ o.m \in FeeMarkets /\ SoundBook(o.book)
  /\ o.positive = [a \in Alphas |-> MaxExecutableSize(o.m, o.book, a, 0)]
  /\ o.strict = [a \in Alphas |-> MaxExecutableSize(o.m, o.book, a, EdgeFloor)]

LEMMA ObservationsAre ==
  ASSUME NEW c \in StoredBooks
  PROVE  /\ ObservationsOf(c) \in Seq({ObservationsOf(c)[i] : i \in DOMAIN ObservationsOf(c)})
         /\ \A i \in DOMAIN ObservationsOf(c) : Observed(ObservationsOf(c)[i])
<1> DEFINE both == <<"yes", "no">>
           K == {i \in 1..2 : TwoSided(BookOf(c, both[i]))}
           sides == At(both, K)
           S == {s \in {"yes", "no"} : TwoSided(BookOf(c, s))}
<1>1. K \in SUBSET (1..2) /\ \A i \in K : both[i] \in S
  <2>1. \A i \in 1..2 : both[i] \in {"yes", "no"}
    OBVIOUS
  <2> QED BY <2>1
<1>2. ObservationsOf(c) = [i \in DOMAIN sides |-> Observation(c, sides[i])]
  BY DEF ObservationsOf
<1>3. sides \in Seq(S)
  <2> HIDE DEF K, both, S
  <2>1. Picks(sides, both, K, S)
    BY <1>1, AtIsSeq
  <2> QED BY <2>1 DEF Picks
<1> HIDE DEF sides
<1>4. DOMAIN sides = 1..Len(sides) /\ Len(sides) \in Nat
  BY <1>3
<1>5. ASSUME NEW i \in DOMAIN sides PROVE Observed(Observation(c, sides[i]))
  <2> DEFINE s == sides[i]
  <2>1. s \in {"yes", "no"} /\ TwoSided(BookOf(c, s))
    BY <1>3, <1>4
  <2>2. c.m \in FeeMarkets /\ c[s] \in StoredSides
    <3> HIDE DEF s
    <3>1. CASE s = "yes"
      BY <3>1 DEF StoredBooks
    <3>2. CASE s = "no"
      BY <3>2 DEF StoredBooks
    <3> QED BY <2>1, <3>1, <3>2
  <2> HIDE DEF s
  <2>3. /\ c[s].asks \in StoredRows /\ c[s].bids \in StoredRows
        /\ \A j, k \in DOMAIN c[s].bids : j < k => c[s].bids[k].price <= c[s].bids[j].price
    BY <2>2 DEF StoredSides
  <2>4. SoundBook(BookOf(c, s))
    BY <2>1, <2>3, KeptRows DEF SoundBook, BookOf, TwoSided
  <2>5. Observed(Observation(c, s))
    BY <2>2, <2>4 DEF Observed, Observation
  <2> QED BY <2>5 DEF s
<1>6. ObservationsOf(c) \in Seq({ObservationsOf(c)[i] : i \in DOMAIN ObservationsOf(c)})
  BY <1>2, <1>4
<1> QED BY <1>2, <1>5, <1>6

\* A bounded set of numbers has a maximum.
LEMMA MaxIs ==
  ASSUME NEW S \in SUBSET Nat, S # {}, NEW b \in Nat, \A x \in S : x <= b
  PROVE  Max(S) \in S /\ \A x \in S : x <= Max(S)
<1> DEFINE T == {b - x : x \in S}
<1>1. PICK t \in T : \A y \in T : t <= y
  <2>1. \A x : x \in S => b - x \in Nat
    OBVIOUS
  <2>2. T \subseteq Nat /\ T # {}
    BY <2>1, Zenon
  <2> HIDE DEF T
  <2> QED BY <2>2, LeastIs
<1>2. PICK x \in S : t = b - x
  OBVIOUS
<1>3. \A y \in S : x >= y
  <2> SUFFICES ASSUME NEW y \in S PROVE x >= y
    OBVIOUS
  <2>1. t <= b - y
    BY <1>1
  <2> QED BY <1>2, <2>1
<1>4. Max(S) \in S /\ \A y \in S : Max(S) >= y
  BY <1>2, <1>3 DEF Max
<1>5. \A y \in S : y <= Max(S)
  BY <1>4
<1> QED BY <1>4, <1>5

\* The parts of a priced order, of any size from 1.
LEMMA OrderIs ==
  ASSUME NEW m \in FeeMarkets, NEW ls, Sound(ls), ls # <<>>, NEW n \in Nat, n > 0
  PROVE  LET q == Walk(ls, n) IN
         /\ q.filled = Lesser(n, Depth(ls)) /\ q.filled \in Nat /\ q.filled > 0
         /\ q.notional \in Nat /\ AveragePrice(q) \in Nat
         /\ TakerFee(m, q.filled, AveragePrice(q)) \in Nat
         /\ FeeEach(m, q) \in Nat
<1> DEFINE q == Walk(ls, n)
<1>1. ls \in Ladders /\ Depth(ls) \in Nat /\ Depth(ls) > 0
  BY SomeDepth
<1>2. q.filled = Lesser(n, Depth(ls)) /\ q.notional \in Nat
  BY <1>1, WalkFills, NotionalIs
<1>3. q.filled \in Nat /\ q.filled > 0
  BY <1>1, <1>2 DEF Lesser
<1> HIDE DEF q
<1>4. AveragePrice(q) \in Nat
  <2>1. 10 * q.filled \in Nat /\ 10 * q.filled > 0
    BY <1>3
  <2>2. HalfUp(q.notional, 10 * q.filled) \in Nat
    BY <1>2, <2>1, HalfUpIsNat
  <2> QED BY <2>2 DEF AveragePrice, Money
<1> DEFINE F == TakerFee(m, q.filled, AveragePrice(q))
<1>5. F \in Nat
  <2>1. m.rate \in Nat /\ AveragePrice(q) \in Int
    BY <1>4 DEF FeeMarkets
  <2> QED BY <1>3, <2>1, FeeIsNat
<1>6. FeeEach(m, q) \in Nat
  <2>1. FeeEach(m, q) = HalfUp(2 * F, q.filled)
    BY DEF FeeEach
  <2> HIDE DEF F
  <2>2. 2 * F \in Nat
    BY <1>5
  <2> QED BY <1>3, <2>1, <2>2, HalfUpIsNat
<1> QED BY <1>2, <1>3, <1>4, <1>5, <1>6 DEF q

LEMMA MidIs ==
  ASSUME NEW book, SoundBook(book)
  PROVE  /\ TwiceMid(book) = book.asks[1].price + book.bids[1].price
         /\ book.asks[1].price \in Nat /\ book.bids[1].price \in Nat
         /\ Head(book.bids).price = book.bids[1].price /\ BestAsk(book.asks) = book.asks[1].price
<1>1. /\ book.asks \in Ladders /\ book.bids \in Ladders
      /\ 1 \in 1..Len(book.asks) /\ 1 \in 1..Len(book.bids)
  BY SomeDepth DEF SoundBook
<1>2. Head(book.bids) = book.bids[1] /\ Head(book.asks) = book.asks[1]
  BY <1>1 DEF Ladders
<1>3. book.asks[1].price \in Nat /\ book.bids[1].price \in Nat
  BY <1>1, SizesAre
<1> QED BY <1>2, <1>3 DEF TwiceMid, BestAsk

LEMMA EdgeIs ==
  ASSUME NEW m \in FeeMarkets, NEW book, SoundBook(book), NEW a \in Nat, NEW n \in Nat, n > 0
  PROVE  /\ NetEdge(m, book, a, n) \in Int
         /\ NetEdge(m, book, a, n) =
               20 * a - (10 * (2 * AveragePrice(Walk(book.asks, n)) - TwiceMid(book))
                         + FeeEach(m, Walk(book.asks, n)))
<1> DEFINE q == Walk(book.asks, n)
<1>1. AveragePrice(q) \in Nat /\ FeeEach(m, q) \in Nat /\ TwiceMid(book) \in Int
  <2>1. Sound(book.asks) /\ book.asks # <<>>
    BY DEF SoundBook
  <2>2. TwiceMid(book) \in Int
    BY MidIs
  <2>3. AveragePrice(q) \in Nat /\ FeeEach(m, q) \in Nat
    BY <2>1, OrderIs
  <2> QED BY <2>2, <2>3
<1>2. NetEdge(m, book, a, n) =
        2 * Money * a - (Money * (2 * AveragePrice(q) - TwiceMid(book)) + FeeEach(m, q))
  BY DEF NetEdge, EntryCost
<1> HIDE DEF q
<1>3. 2 * Money * a = 20 * a /\ 20 * a \in Int
  BY DEF Money
<1> QED BY <1>1, <1>2, <1>3 DEF q, Money

\* A greater edge is worth more, at every size.
LEMMA EdgeGrows ==
  ASSUME NEW m \in FeeMarkets, NEW book, SoundBook(book), NEW a \in Nat, NEW b \in Nat, a <= b,
         NEW n \in Nat, n > 0
  PROVE  NetEdge(m, book, a, n) <= NetEdge(m, book, b, n)
<1> DEFINE q == Walk(book.asks, n)
<1>1. AveragePrice(q) \in Nat /\ FeeEach(m, q) \in Nat /\ TwiceMid(book) \in Int
  <2>1. Sound(book.asks) /\ book.asks # <<>>
    BY DEF SoundBook
  <2>2. TwiceMid(book) \in Int
    BY MidIs
  <2>3. AveragePrice(q) \in Nat /\ FeeEach(m, q) \in Nat
    BY <2>1, OrderIs
  <2> QED BY <2>2, <2>3
<1>2. \A c \in Nat : NetEdge(m, book, c, n) =
        20 * c - (10 * (2 * AveragePrice(q) - TwiceMid(book)) + FeeEach(m, q))
  BY EdgeIs
<1> HIDE DEF q
<1> QED BY <1>1, <1>2

\* What averages hide: the gain told and the gain had differ by less than the slack.
LEMMA GainIs ==
  ASSUME NEW o, Observed(o), NEW a \in Nat, NEW n \in Nat, n > 0, n <= Depth(o.book.asks)
  PROVE  /\ TwiceGain(o, a, n) \in Int /\ TwiceSlack(o, n) \in Int
         /\ n * NetEdge(o.m, o.book, a, n) - TwiceSlack(o, n) < TwiceGain(o, a, n)
         /\ TwiceGain(o, a, n) < n * NetEdge(o.m, o.book, a, n) + TwiceSlack(o, n)
<1> DEFINE ls == o.book.asks
           q == Walk(ls, n)
           A == AveragePrice(q)
           F == TakerFee(o.m, n, A)
           f == FeeEach(o.m, q)
           w == q.notional
           M == TwiceMid(o.book)
           E == NetEdge(o.m, o.book, a, n)
           h == w - 10 * A * n
<1>1. o.m \in FeeMarkets /\ SoundBook(o.book) /\ Sound(ls) /\ ls # <<>>
  BY DEF Observed, SoundBook
<1>2. q.filled = n
  BY <1>1, OrderIs, SomeDepth DEF Lesser
<1>3. w \in Nat /\ A \in Nat /\ f \in Nat
  BY <1>1, OrderIs
<1>4. F \in Nat
  <2>1. TakerFee(o.m, q.filled, A) \in Nat
    BY <1>1, OrderIs
  <2> QED BY <1>2, <2>1
<1>5. f = HalfUp(2 * F, n)
  BY <1>2 DEF FeeEach
<1>6. M \in Int
  BY <1>1, MidIs
<1>7. E = 20 * a - (10 * (2 * A - M) + f)
  BY <1>1, EdgeIs
<1>8. TwiceGain(o, a, n) = 10 * n * (M + 2 * a) - 2 * (w + F)
  BY DEF TwiceGain, Money
<1>9. TwiceSlack(o, n) = 2 * Max({h, -h}) + n
  BY DEF TwiceSlack, Money
<1> HIDE DEF ls, q, A, F, f, w, M, E
<1>10. 2 * (n * f) <= 4 * F + n /\ 4 * F < 2 * (n * f) + n
  <2>1. 2 * F \in Int
    BY <1>4
  <2>2. 2 * (n * HalfUp(2 * F, n)) <= 2 * (2 * F) + n /\ 2 * (2 * F) < 2 * (n * HalfUp(2 * F, n)) + n
    BY <2>1, HalfUpIs
  <2> QED BY <1>4, <1>5, <2>2
<1>11. h \in Int
  BY <1>3
<1>12. Max({h, -h}) \in Int /\ h <= Max({h, -h}) /\ -h <= Max({h, -h})
  <2> HIDE DEF h
  <2>1. -h \in Int
    BY <1>11
  <2>2. Max({h, -h}) = IF h >= -h THEN h ELSE -h
    BY <1>11, <2>1, MaxOfTwo
  <2> QED BY <1>11, <2>2
<1>13. n * E = 20 * (a * n) + 10 * (M * n) - 20 * (A * n) - n * f
  BY <1>3, <1>6, <1>7
<1>14. 10 * n * (M + 2 * a) = 10 * (M * n) + 20 * (a * n)
  BY <1>6
<1>15. 10 * A * n = 10 * (A * n)
  BY <1>3
<1>16. a * n \in Int /\ M * n \in Int /\ A * n \in Int /\ n * f \in Int
  BY <1>3, <1>6
<1>17. h = w - 10 * (A * n)
  BY <1>15
<1> HIDE DEF h
<1> QED BY <1>3, <1>4, <1>8, <1>9, <1>10, <1>11, <1>12, <1>13, <1>14, <1>16, <1>17 DEF E

\* Every size that could be bought was priced.
LEMMA BuyableIsAsked ==
  ASSUME NEW o, Observed(o), NEW n \in Buyable(o), n > 0
  PROVE  n \in Nat /\ \E g \in Asked(o.book) : Walk(o.book.asks, g).filled = n
<1> DEFINE ls == o.book.asks  D == Depth(ls)
<1>1. ls \in Ladders /\ D \in Nat /\ D > 0
  BY SomeDepth DEF Observed, SoundBook
<1>2. \A g : g \in Grid => g \in Nat /\ g > 0
  BY CapacityAssumption DEF CapacityAssumption
<1>3. n \in Grid \cup {D} /\ n <= D /\ \E g \in Grid : n <= g
  BY DEF Buyable
<1>4. \A g : g \in Grid => Walk(ls, g).filled = Lesser(g, D)
  BY <1>1, <1>2, WalkFills
<1> HIDE DEF D
<1>5. n \in Nat
  BY <1>1, <1>2, <1>3
<1>6. \A g : g \in Asked(o.book) <=> g \in Grid /\ \A h \in Grid : h < g => h <= D
  BY Zenon DEF Asked, D
<1>7. CASE n \in Grid
  <2>1. \A h \in Grid : h < n => h <= D
    BY <1>1, <1>2, <1>3, <1>5
  <2>2. n \in Asked(o.book)
    BY <1>6, <1>7, <2>1
  <2>3. Walk(ls, n).filled = n
    BY <1>1, <1>3, <1>4, <1>7 DEF Lesser
  <2> QED BY <1>5, <2>2, <2>3
<1>8. CASE n = D
  <2> DEFINE T == {g \in Grid : n <= g}
  <2>1. PICK g \in T : \A h \in T : g <= h
    <3>1. \A g : g \in T => g \in Nat
      BY <1>2
    <3>2. T # {}
      BY <1>3
    <3>3. T \subseteq Nat
      BY <3>1, Zenon
    <3> HIDE DEF T
    <3> QED BY <3>2, <3>3, LeastIs
  <2>2. g \in Grid /\ n <= g /\ g \in Nat
    BY <1>2
  <2>3. \A h \in Grid : h < g => h <= D
    <3> SUFFICES ASSUME NEW h \in Grid, h < g, ~(h <= D) PROVE FALSE
      OBVIOUS
    <3>1. h \in Nat
      BY <1>2
    <3>2. h \in T
      BY <1>1, <1>8, <3>1
    <3>3. g <= h
      BY <2>1, <3>2
    <3> QED BY <2>2, <3>1, <3>3
  <2>4. g \in Asked(o.book)
    BY <1>6, <2>2, <2>3
  <2>5. Walk(ls, g).filled = n
    BY <1>1, <1>4, <1>8, <2>2 DEF Lesser
  <2> QED BY <1>5, <2>4, <2>5
<1> QED BY <1>3, <1>7, <1>8

\* The size chosen: zero, or one that qualifies; and every one that qualifies is at most it.
LEMMA LargestIs ==
  ASSUME NEW m \in FeeMarkets, NEW book, SoundBook(book), NEW a \in Nat, NEW floor \in Nat
  PROVE  LET size == MaxExecutableSize(m, book, a, floor)
             Q == Qualifying(m, book, a, floor)
         IN  /\ size \in Nat /\ size \in {0} \cup Q
             /\ \A n : n \in Q => n \in Nat /\ n > 0 /\ n <= Depth(book.asks) /\ n <= size
<1> DEFINE ls == book.asks  D == Depth(ls)  Q == Qualifying(m, book, a, floor)  S == {0} \cup Q
<1>1. ls \in Ladders /\ D \in Nat /\ D > 0
  BY SomeDepth DEF SoundBook
<1>2. \A g : g \in Asked(book) => g \in Nat /\ g > 0
  BY CapacityAssumption DEF CapacityAssumption, Asked
<1>3. \A g : g \in Asked(book) => Walk(ls, g).filled = Lesser(g, D)
  BY <1>1, <1>2, WalkFills
<1>4. \A n : n \in Q => \E g : g \in Asked(book) /\ n = Walk(ls, g).filled
  BY Zenon DEF Qualifying
<1> HIDE DEF Q, D
<1>5. \A n : n \in Q => n \in Nat /\ n > 0 /\ n <= D
  BY <1>1, <1>2, <1>3, <1>4 DEF Lesser
<1>6. S \in SUBSET Nat /\ S # {} /\ \A x \in S : x <= D
  BY <1>1, <1>5
<1>7. Max(S) \in S /\ \A x \in S : x <= Max(S)
  <2> HIDE DEF S
  <2> QED BY <1>1, <1>6, MaxIs
<1>8. MaxExecutableSize(m, book, a, floor) = Max(S)
  BY DEF MaxExecutableSize, Q
<1> HIDE DEF S
<1>9. Max(S) \in Nat
  BY <1>6, <1>7
<1>10. \A n : n \in Q => n <= Max(S)
  BY <1>7 DEF S
<1>11. Max(S) \in {0} \cup Q
  BY <1>7 DEF S
<1> QED BY <1>5, <1>8, <1>9, <1>10, <1>11 DEF D, Q

LEMMA QualifyingIs ==
  ASSUME NEW m, NEW book, NEW a, NEW floor, NEW n
  PROVE  n \in Qualifying(m, book, a, floor) <=>
            /\ \E g \in Asked(book) : Walk(book.asks, g).filled = n
            /\ NetEdge(m, book, a, n) >= 2 * Money * floor
BY DEF Qualifying

\* The size told pays what it is told to, and no larger one that could be bought does.
LEMMA LargestPays ==
  ASSUME NEW o, Observed(o), NEW a \in Nat, NEW floor \in Nat
  PROVE  SizePays(o, a, floor, MaxExecutableSize(o.m, o.book, a, floor))
<1> DEFINE size == MaxExecutableSize(o.m, o.book, a, floor)
           Q == Qualifying(o.m, o.book, a, floor)
           E(n) == NetEdge(o.m, o.book, a, n)
<1>1. o.m \in FeeMarkets /\ SoundBook(o.book)
  BY DEF Observed
<1>2. /\ size \in Nat /\ size \in {0} \cup Q
      /\ \A n : n \in Q => n \in Nat /\ n > 0 /\ n <= Depth(o.book.asks) /\ n <= size
  BY <1>1, LargestIs
<1>3. \A n \in Nat : n > 0 => E(n) \in Int
  BY <1>1, EdgeIs
<1>4. \A n : n \in Q <=> /\ \E g \in Asked(o.book) : Walk(o.book.asks, g).filled = n
                         /\ E(n) >= 2 * Money * floor
  BY QualifyingIs
<1>5. \A n \in Nat : 2 * Money * floor * n = n * (20 * floor) /\ n * (20 * floor) \in Int
                     /\ 2 * Money * floor = 20 * floor
  BY DEF Money
<1>6. \A n \in Nat : n > 0 /\ n <= Depth(o.book.asks) =>
         /\ TwiceGain(o, a, n) \in Int /\ TwiceSlack(o, n) \in Int
         /\ n * E(n) - TwiceSlack(o, n) < TwiceGain(o, a, n)
         /\ TwiceGain(o, a, n) < n * E(n) + TwiceSlack(o, n)
  BY GainIs
<1> HIDE DEF size, Q, E
<1>7. ASSUME size > 0
      PROVE  TwiceGain(o, a, size) >= 2 * Money * floor * size - TwiceSlack(o, size)
  <2>1. size \in Q
    BY <1>2, <1>7
  <2>2. E(size) >= 20 * floor /\ E(size) \in Int /\ 20 * floor \in Int
    BY <1>2, <1>3, <1>4, <1>5, <1>7, <2>1
  <2>3. size * (20 * floor) <= size * E(size)
    BY <1>2, <2>2, ProductGrows
  <2>4. size * E(size) \in Int
    BY <1>2, <2>2
  <2>5. /\ TwiceGain(o, a, size) \in Int /\ TwiceSlack(o, size) \in Int
        /\ size * E(size) - TwiceSlack(o, size) < TwiceGain(o, a, size)
    BY <1>2, <1>6, <1>7, <2>1
  <2> QED BY <1>2, <1>5, <2>3, <2>4, <2>5
<1>8. ASSUME NEW n \in Buyable(o), n > size
      PROVE  TwiceGain(o, a, n) < 2 * Money * floor * n + TwiceSlack(o, n)
  <2>1. n \in Nat /\ n <= Depth(o.book.asks)
    <3>1. n \in Grid \cup {Depth(o.book.asks)} /\ n <= Depth(o.book.asks)
      BY DEF Buyable
    <3>2. Grid \subseteq Nat
      BY CapacityAssumption DEF CapacityAssumption
    <3>3. Depth(o.book.asks) \in Nat
      BY <1>1, SomeDepth DEF SoundBook
    <3> QED BY <3>1, <3>2, <3>3
  <2>2. n > 0
    BY <1>2, <1>8, <2>1
  <2>3. \E g \in Asked(o.book) : Walk(o.book.asks, g).filled = n
    BY <2>2, BuyableIsAsked
  <2>4. n \notin Q
    BY <1>2, <1>8, <2>1
  <2>5. E(n) < 20 * floor /\ E(n) \in Int /\ 20 * floor \in Int
    BY <1>3, <1>4, <1>5, <2>1, <2>2, <2>3, <2>4
  <2>6. n * E(n) < n * (20 * floor)
    BY <2>1, <2>2, <2>5, ProductGrows
  <2>7. n * E(n) \in Int
    BY <2>1, <2>5
  <2>8. /\ TwiceGain(o, a, n) \in Int /\ TwiceSlack(o, n) \in Int
        /\ TwiceGain(o, a, n) < n * E(n) + TwiceSlack(o, n)
    BY <1>6, <2>1, <2>2
  <2> QED BY <1>5, <2>1, <2>6, <2>7, <2>8
<1> QED BY <1>7, <1>8 DEF SizePays, size

\* A stricter floor never buys more, a greater edge never less.
LEMMA LargestIsOrdered ==
  ASSUME NEW m \in FeeMarkets, NEW book, SoundBook(book), NEW a \in Nat, NEW b \in Nat, a <= b,
         NEW f \in Nat, NEW g \in Nat, f <= g
  PROVE  MaxExecutableSize(m, book, a, g) <= MaxExecutableSize(m, book, b, f)
<1> DEFINE s == MaxExecutableSize(m, book, a, g)  t == MaxExecutableSize(m, book, b, f)
<1>1. /\ s \in Nat /\ s \in {0} \cup Qualifying(m, book, a, g)
      /\ \A n : n \in Qualifying(m, book, a, g) => n \in Nat /\ n > 0
  BY LargestIs
<1>2. t \in Nat /\ \A n : n \in Qualifying(m, book, b, f) => n <= t
  BY LargestIs
<1>3. ASSUME s \in Qualifying(m, book, a, g) PROVE s \in Qualifying(m, book, b, f)
  <2>1. s \in Nat /\ s > 0
    BY <1>1, <1>3
  <2>2. /\ \E h \in Asked(book) : Walk(book.asks, h).filled = s
        /\ NetEdge(m, book, a, s) >= 2 * Money * g
    BY <1>3, QualifyingIs
  <2>3. NetEdge(m, book, a, s) \in Int /\ NetEdge(m, book, b, s) \in Int
    BY <2>1, EdgeIs
  <2>4. NetEdge(m, book, a, s) <= NetEdge(m, book, b, s)
    BY <2>1, EdgeGrows
  <2>5. 2 * Money * f <= 2 * Money * g
    BY DEF Money
  <2>6. NetEdge(m, book, b, s) >= 2 * Money * f
    <3> DEFINE x == 2 * Money * f  y == 2 * Money * g
    <3>1. x \in Int /\ y \in Int
      BY DEF Money
    <3> HIDE DEF x, y, s
    <3> QED BY <2>2, <2>3, <2>4, <2>5, <3>1 DEF x, y
  <2> QED BY <2>2, <2>6, QualifyingIs
<1> HIDE DEF s, t
<1>4. s <= t
  BY <1>1, <1>2, <1>3
<1> QED BY <1>4 DEF s, t

\* Leaving an uncrossed book never pays.
LEMMA ExitCosts ==
  ASSUME NEW m \in FeeMarkets, NEW book, SoundBook(book), book.bids[1].price < book.asks[1].price,
         NEW n \in Nat, n > 0
  PROVE  ExitCost(m, book, n) \in Nat
<1> DEFINE k == Walk(book.asks, n).filled
           q == Walk(book.bids, k)
           b == book.bids[1].price
           A == AveragePrice(q)
           f == FeeEach(m, q)
<1>1. Sound(book.asks) /\ book.asks # <<>> /\ Sound(book.bids) /\ book.bids # <<>>
  BY DEF SoundBook
<1>2. k \in Nat /\ k > 0
  BY <1>1, OrderIs
<1>3. ExitCost(m, book, n) = Money * (TwiceMid(book) - 2 * A) + f
  BY DEF ExitCost
<1>4. b \in Nat /\ TwiceMid(book) = book.asks[1].price + b /\ book.asks[1].price \in Nat
  BY MidIs
<1> HIDE DEF k
<1>5. q.filled \in Nat /\ q.filled > 0 /\ q.notional \in Nat /\ A \in Nat /\ f \in Nat
  BY <1>1, <1>2, OrderIs
<1>6. q.notional <= 10 * (q.filled * b)
  <2>1. \A i \in 1..Len(book.bids) : book.bids[i].price <= b
    BY DEF SoundBook
  <2>2. book.bids \in Ladders /\ b \in Int
    BY <1>1, <1>4 DEF Sound
  <2> HIDE DEF b, A, f
  <2> QED BY <1>2, <2>1, <2>2, PriceBounds
<1> HIDE DEF q, f
<1>7. A <= b
  <2>1. 10 * q.filled \in Nat /\ 10 * q.filled > 0 /\ b \in Int
    BY <1>4, <1>5
  <2>2. q.notional <= (10 * q.filled) * b
    <3> HIDE DEF b
    <3> QED BY <1>4, <1>5, <1>6
  <2>3. A = HalfUp(q.notional, 10 * q.filled)
    BY DEF AveragePrice, Money
  <2> HIDE DEF b, A
  <2> QED BY <1>5, <2>1, <2>2, <2>3, HalfUpAtMost
<1> HIDE DEF A
<1>8. TwiceMid(book) - 2 * A >= 0 /\ TwiceMid(book) - 2 * A \in Int
  BY <1>4, <1>5, <1>7
<1> QED BY <1>3, <1>5, <1>8 DEF Money

\* What was seen: observations, in a row.
Seen(s) == \E S : s \in Seq(S) /\ \A o \in S : Observed(o)

LEMMA SeenAre ==
  ASSUME NEW s, Seen(s)
  PROVE  /\ Len(s) \in Nat /\ DOMAIN s = 1..Len(s) /\ IsFiniteSet(DOMAIN s)
         /\ \A i \in DOMAIN s : Observed(s[i])
<1>1. PICK S : s \in Seq(S) /\ \A o \in S : Observed(o)
  BY DEF Seen
<1>2. Len(s) \in Nat /\ DOMAIN s = 1..Len(s) /\ \A i \in 1..Len(s) : s[i] \in S
  BY <1>1
<1>3. IsFiniteSet(1..Len(s))
  BY <1>2, CountedIsFinite
<1> QED BY <1>1, <1>2, <1>3

\* What a preflight is at: not begun or given up, reading, or reporting what it saw.
CapacityInv ==
  \/ capacity.did \in {"none", "refused", "insufficient"}
  \/ \E s, t : Seen(s) /\ t \in Seq(StoredBooks)
               /\ capacity = [did |-> "reading", seen |-> s, todo |-> t]
  \/ \E s : Seen(s) /\ capacity = Report(s)

LEMMA CapacityBegins == CapacityInit => CapacityInv
BY DEF CapacityInit, CapacityInv

LEMMA WhileReading ==
  ASSUME CapacityInv, capacity.did = "reading"
  PROVE  \E s, t : Seen(s) /\ t \in Seq(StoredBooks)
                  /\ capacity = [did |-> "reading", seen |-> s, todo |-> t]
<1>1. \A s : Report(s).did = "reported"
  BY DEF Report
<1> QED BY <1>1 DEF CapacityInv

LEMMA CapacityGoesOn == CapacityInv /\ [CapacityNext]_capacityVars => CapacityInv'
<1> SUFFICES ASSUME CapacityInv, [CapacityNext]_capacityVars PROVE CapacityInv'
  OBVIOUS
<1>1. CASE StartPreflight
  <2>1. PICK cs \in Captures :
          capacity' = [did |-> "reading", seen |-> <<>>,
                       todo |-> At(cs, {i \in DOMAIN cs : cs[i].live})]
    BY <1>1 DEF StartPreflight
  <2>2. cs \in Seq(StoredBooks)
    BY CapacityAssumption DEF CapacityAssumption
  <2> DEFINE K == {i \in DOMAIN cs : cs[i].live}
  <2>3. Len(cs) \in Nat /\ K \in SUBSET (1..Len(cs)) /\ \A i \in K : cs[i] \in StoredBooks
    <3> HIDE DEF K
    <3>1. Len(cs) \in Nat /\ DOMAIN cs = 1..Len(cs) /\ \A i \in 1..Len(cs) : cs[i] \in StoredBooks
      BY <2>2
    <3>2. K \in SUBSET DOMAIN cs
      BY DEF K
    <3> QED BY <3>1, <3>2
  <2> HIDE DEF K
  <2>4. Picks(At(cs, K), cs, K, StoredBooks)
    BY <2>3, AtIsSeq
  <2>5. At(cs, K) \in Seq(StoredBooks)
    BY <2>4 DEF Picks
  <2>6. Seen(<<>>)
    <3> DEFINE e == <<>>  S == {}
    <3>1. e \in Seq(S) /\ \A o \in S : Observed(o)
      OBVIOUS
    <3> HIDE DEF e, S
    <3>2. Seen(e)
      BY <3>1, Zenon DEF Seen
    <3> QED BY <3>2 DEF e
  <2> QED BY <2>1, <2>5, <2>6 DEF CapacityInv, K
<1>2. CASE PriceCapture
  <2>1. PICK s, t : Seen(s) /\ t \in Seq(StoredBooks)
                    /\ capacity = [did |-> "reading", seen |-> s, todo |-> t]
    BY <1>2, WhileReading DEF PriceCapture
  <2>2. t # <<>> /\ capacity' = IF ~Head(t).marketLive THEN [did |-> "refused"]
                   ELSE [did |-> "reading", seen |-> s \o ObservationsOf(Head(t)), todo |-> Tail(t)]
    <3>1. capacity.todo = t /\ capacity.seen = s /\ capacity.did = "reading"
      BY <2>1
    <3>2. capacity' = IF ~Head(t).marketLive THEN [did |-> "refused"]
                      ELSE [did |-> "reading", seen |-> s \o ObservationsOf(Head(t)), todo |-> Tail(t)]
      BY <1>2, <3>1, Zenon DEF PriceCapture
    <3>3. t # <<>>
      BY <1>2, <3>1 DEF PriceCapture
    <3> QED BY <3>2, <3>3
  <2>3. Head(t) \in StoredBooks /\ Tail(t) \in Seq(StoredBooks)
    <3> DEFINE S == StoredBooks
    <3>1. t \in Seq(S) /\ t # <<>>
      BY <2>1, <2>2
    <3> HIDE DEF S
    <3>2. Head(t) \in S /\ Tail(t) \in Seq(S)
      BY <3>1
    <3> QED BY <3>2 DEF S
  <2>4. Seen(s \o ObservationsOf(Head(t)))
    <3> DEFINE u == ObservationsOf(Head(t))
    <3>1. u \in Seq({u[i] : i \in DOMAIN u}) /\ \A i \in DOMAIN u : Observed(u[i])
      BY <2>3, ObservationsAre
    <3>2. PICK S : s \in Seq(S) /\ \A o \in S : Observed(o)
      BY <2>1 DEF Seen
    <3> HIDE DEF u
    <3> DEFINE T == {u[i] : i \in DOMAIN u}
    <3>3. \A o \in S \cup T : Observed(o)
      BY <3>1, <3>2
    <3>4. u \in Seq(T)
      BY <3>1
    <3> HIDE DEF T
    <3>5. s \o u \in Seq(S \cup T)
      BY <3>2, <3>4
    <3> QED BY <3>3, <3>5 DEF Seen, u
  <2>5. CASE ~Head(t).marketLive
    BY <2>2, <2>5 DEF CapacityInv
  <2>6. CASE Head(t).marketLive
    BY <2>2, <2>3, <2>4, <2>6 DEF CapacityInv
  <2> QED BY <2>5, <2>6
<1>3. CASE PruneCapture
  <2>1. PICK s, t : Seen(s) /\ t \in Seq(StoredBooks)
                    /\ capacity = [did |-> "reading", seen |-> s, todo |-> t]
    BY <1>3, WhileReading DEF PruneCapture
  <2> DEFINE none == [asks |-> <<>>, bids |-> <<>>]
             Gone(c) == [c EXCEPT !.yes = none, !.no = none]
  <2>2. PICK i \in DOMAIN t :
          capacity' = [capacity EXCEPT !.todo[i].yes = [asks |-> <<>>, bids |-> <<>>],
                                       !.todo[i].no = [asks |-> <<>>, bids |-> <<>>]]
    BY <1>3, <2>1 DEF PruneCapture
  <2>3. capacity' = [did |-> "reading", seen |-> s, todo |-> [t EXCEPT ![i] = Gone(t[i])]]
    BY <2>1, <2>2
  <2>4. \A c \in StoredBooks : Gone(c) \in StoredBooks
    <3>1. none \in StoredSides
      BY DEF StoredSides, StoredRows
    <3> HIDE DEF none
    <3> QED BY <3>1 DEF StoredBooks
  <2>5. [t EXCEPT ![i] = Gone(t[i])] \in Seq(StoredBooks)
    <3> DEFINE S == StoredBooks  g == Gone(t[i])
    <3>1. t \in Seq(S) /\ i \in 1..Len(t) /\ t[i] \in S
      BY <2>1
    <3>2. g \in S
      BY <2>4, <3>1
    <3> HIDE DEF S, g
    <3>3. [t EXCEPT ![i] = g] \in Seq(S)
      BY <3>1, <3>2
    <3> QED BY <3>3 DEF S, g
  <2> HIDE DEF Gone
  <2> QED BY <2>1, <2>3, <2>5 DEF CapacityInv
<1>4. CASE ReportCapacity
  <2>1. PICK s, t : Seen(s) /\ t \in Seq(StoredBooks)
                    /\ capacity = [did |-> "reading", seen |-> s, todo |-> t]
    BY <1>4, WhileReading DEF ReportCapacity
  <2>2. capacity' = IF s = <<>> THEN [did |-> "insufficient"] ELSE Report(s)
    BY <1>4, <2>1 DEF ReportCapacity
  <2> QED BY <2>1, <2>2 DEF CapacityInv
<1>5. CASE UNCHANGED capacityVars
  BY <1>5 DEF CapacityInv, capacityVars
<1> QED BY <1>1, <1>2, <1>3, <1>4, <1>5 DEF CapacityNext

\* What passes a test is no more than what passes a weaker one.
LEMMA CountsAreOrdered ==
  ASSUME NEW D, IsFiniteSet(D), NEW P, NEW Q, P \in SUBSET D, Q \in SUBSET D, P \subseteq Q
  PROVE  Cardinality(P) <= Cardinality(Q)
<1>1. IsFiniteSet(Q) /\ P \in SUBSET Q
  BY FS_Subset
<1> QED BY <1>1, FS_Subset

LEMMA ReportHolds ==
  ASSUME NEW s, Seen(s), capacity = Report(s)
  PROVE  CapacityCanBeHad
<1> DEFINE D == DOMAIN s
           Positive(a) == {i \in D : s[i].positive[a] > 0}
           Gaining(a) == {i \in D : NetEdge(s[i].m, s[i].book, a, ReportSize) > 0}
           RoundTrip(a) == {i \in D : RoundTripEdge(s[i].m, s[i].book, a, ReportSize) > 0}
<1>1. /\ capacity.did = "reported" /\ capacity.seen = s
      /\ \A a \in Alphas : /\ capacity.tradeable[a] = Cardinality(Positive(a))
                           /\ capacity.holding[a] = Cardinality(Gaining(a))
                           /\ capacity.roundTrip[a] = Cardinality(RoundTrip(a))
  BY DEF Report, CountOf
<1>2. IsFiniteSet(D) /\ \A i \in D : Observed(s[i])
  BY SeenAre
<1>3. Alphas \subseteq Nat /\ EdgeFloor \in Nat /\ ReportSize \in Nat /\ ReportSize > 0
  BY CapacityAssumption DEF CapacityAssumption
<1>4. ASSUME NEW i \in D, NEW a \in Alphas
      PROVE  /\ SizePays(s[i], a, 0, s[i].positive[a]) /\ SizePays(s[i], a, EdgeFloor, s[i].strict[a])
             /\ s[i].strict[a] <= s[i].positive[a]
             /\ \A b \in Alphas : a < b => s[i].positive[a] <= s[i].positive[b]
             /\ s[i].positive[a] \in Nat
  <2> DEFINE o == s[i]
  <2>1. Observed(o) /\ a \in Nat
    BY <1>2, <1>3
  <2> HIDE DEF o
  <2>2. /\ o.m \in FeeMarkets /\ SoundBook(o.book)
        /\ o.strict[a] = MaxExecutableSize(o.m, o.book, a, EdgeFloor)
        /\ \A b \in Alphas : o.positive[b] = MaxExecutableSize(o.m, o.book, b, 0)
    BY <2>1 DEF Observed
  <2>3. SizePays(o, a, 0, o.positive[a]) /\ SizePays(o, a, EdgeFloor, o.strict[a])
    BY <1>3, <2>1, <2>2, LargestPays
  <2>4. o.strict[a] <= o.positive[a]
    BY <1>3, <2>1, <2>2, LargestIsOrdered
  <2>5. ASSUME NEW b \in Alphas, a < b PROVE o.positive[a] <= o.positive[b]
    <3>1. b \in Nat /\ a <= b
      BY <1>3, <2>1, <2>5
    <3> QED BY <2>1, <2>2, <3>1, LargestIsOrdered
  <2>6. o.positive[a] \in Nat
    <3>1. o.positive[a] = MaxExecutableSize(o.m, o.book, a, 0) /\ 0 \in Nat
      BY <2>2
    <3>2. MaxExecutableSize(o.m, o.book, a, 0) \in Nat
      BY <2>1, <2>2, <3>1, LargestIs
    <3> QED BY <3>1, <3>2
  <2> QED BY <2>3, <2>4, <2>5, <2>6 DEF o
<1>5. ASSUME NEW a \in Alphas,
             \A i \in D : Head(s[i].book.bids).price < BestAsk(s[i].book.asks)
      PROVE  capacity.roundTrip[a] <= capacity.holding[a]
  <2>1. ASSUME NEW i \in RoundTrip(a) PROVE i \in Gaining(a)
    <3> DEFINE o == s[i]
    <3>1. i \in D /\ Observed(o) /\ RoundTripEdge(o.m, o.book, a, ReportSize) > 0 /\ a \in Nat
      BY <1>2, <1>3, <2>1
    <3>2. Head(o.book.bids).price < BestAsk(o.book.asks)
      BY <1>5, <3>1
    <3> HIDE DEF o
    <3>3. o.m \in FeeMarkets /\ SoundBook(o.book)
      BY <3>1 DEF Observed
    <3>4. o.book.bids[1].price < o.book.asks[1].price
      BY <3>2, <3>3, MidIs
    <3>5. ExitCost(o.m, o.book, ReportSize) \in Nat
      BY <1>3, <3>3, <3>4, ExitCosts
    <3>6. NetEdge(o.m, o.book, a, ReportSize) \in Int
      BY <1>3, <3>1, <3>3, EdgeIs
    <3>7. NetEdge(o.m, o.book, a, ReportSize) > 0
      BY <3>1, <3>5, <3>6 DEF RoundTripEdge
    <3> QED BY <3>1, <3>7 DEF o
  <2>2. Gaining(a) \in SUBSET D /\ RoundTrip(a) \in SUBSET D
    OBVIOUS
  <2>3. RoundTrip(a) \subseteq Gaining(a)
    BY <2>1
  <2> HIDE DEF Gaining, RoundTrip, D
  <2>4. Cardinality(RoundTrip(a)) <= Cardinality(Gaining(a))
    BY <1>2, <2>2, <2>3, CountsAreOrdered
  <2> QED BY <1>1, <2>4
<1>6. ASSUME NEW a \in Alphas, NEW b \in Alphas, a < b
      PROVE  capacity.tradeable[a] <= capacity.tradeable[b]
  <2>1. ASSUME NEW i \in Positive(a) PROVE i \in Positive(b)
    <3>1. i \in D /\ s[i].positive[a] > 0 /\ s[i].positive[a] <= s[i].positive[b]
          /\ s[i].positive[a] \in Nat /\ s[i].positive[b] \in Nat
      BY <1>4, <1>6, <2>1
    <3> QED BY <3>1
  <2>2. Positive(a) \in SUBSET D /\ Positive(b) \in SUBSET D
    OBVIOUS
  <2>3. Positive(a) \subseteq Positive(b)
    BY <2>1
  <2> HIDE DEF Positive, D
  <2>4. Cardinality(Positive(a)) <= Cardinality(Positive(b))
    BY <1>2, <2>2, <2>3, CountsAreOrdered
  <2> QED BY <1>1, <2>4
<1> HIDE DEF Positive, Gaining, RoundTrip
<1>7. \A i \in DOMAIN capacity.seen : LET o == capacity.seen[i] IN
        \A a \in Alphas :
           /\ SizePays(o, a, 0, o.positive[a]) /\ SizePays(o, a, EdgeFloor, o.strict[a])
           /\ o.strict[a] <= o.positive[a]
           /\ \A b \in Alphas : a < b => o.positive[a] <= o.positive[b]
  BY <1>1, <1>4
<1>8. \A a \in Alphas :
        (\A i \in DOMAIN capacity.seen :
            LET book == capacity.seen[i].book IN Head(book.bids).price < BestAsk(book.asks))
        => capacity.roundTrip[a] <= capacity.holding[a]
  BY <1>1, <1>5
<1>9. \A a \in Alphas, b \in Alphas : a < b => capacity.tradeable[a] <= capacity.tradeable[b]
  BY <1>6
<1> HIDE DEF D
<1> QED BY <1>7, <1>8, <1>9, Zenon DEF CapacityCanBeHad

\* For every set of captures, every grid of sizes, every fee and every edge: the sizes a
\* preflight reports can be bought at the profit they are told with, up to what
\* averaging hides, and no larger size of the grid can; a greater edge never buys
\* less, a round trip on uncrossed books never beats holding
\* (alpha/capacity.py, scripts/capacity_preflight.py).
THEOREM CapacitiesHold == CapacitySpec => []CapacityCanBeHad
<1>1. CapacityInv => CapacityCanBeHad
  <2> SUFFICES ASSUME CapacityInv, capacity.did = "reported" PROVE CapacityCanBeHad
    BY DEF CapacityCanBeHad
  <2>1. PICK s : Seen(s) /\ capacity = Report(s)
    BY DEF CapacityInv
  <2> QED BY <2>1, ReportHolds
<1> QED BY <1>1, CapacityBegins, CapacityGoesOn, PTL DEF CapacitySpec

-----------------------------------------------------------------------------
(* Orders that pay their way: arithmetic.                                  *)

\* A common factor.
LEMMA Cancels ==
  ASSUME NEW a \in Nat, a > 0, NEW b \in Int, NEW c \in Int
  PROVE  (a * b < a * c => b < c) /\ (a * b <= a * c => b <= c)
<1>1. ASSUME c <= b PROVE a * c <= a * b
  BY <1>1, ProductGrows
<1>2. ASSUME c < b PROVE a * c < a * b
  BY <1>2, ProductGrows
<1>3. a * b \in Int /\ a * c \in Int
  OBVIOUS
<1> QED BY <1>1, <1>2, <1>3

\* Along the fee curve nothing rises faster than the price falls.
LEMMA FeeCurve ==
  ASSUME NEW o \in Nat, NEW p \in Nat, NEW q \in Nat, p <= q, q <= o
  PROVE  p * (o - p) <= q * (o - q) + o * (q - p)
<1> DEFINE d == q - p  e == 2 * (o - p) - d
<1>1. d \in Nat /\ e \in Nat /\ q = p + d
  OBVIOUS
<1>2. d * e \in Nat
  <2> HIDE DEF d, e
  <2> QED BY <1>1, ProductIs
<1>3. q * (o - q) + o * (q - p) - p * (o - p) = d * e
  OBVIOUS
<1>4. q * (o - q) \in Int /\ o * (q - p) \in Int /\ p * (o - p) \in Int
  OBVIOUS
<1> HIDE DEF d, e
<1> QED BY <1>2, <1>3, <1>4

\* If n contracts at price q leave at least an edge of a cent each after a fee rounded
\* up, so does any number k of them at no more than q, less than the edge excepted.
LEMMA RoundedUpPays ==
  ASSUME NEW u \in Nat, u > 0, NEW rate \in Nat, rate <= 100, NEW e \in Int, u <= e,
         NEW c \in Int, NEW p \in Nat, NEW q \in Nat, p <= q, q <= 100 * u,
         NEW k \in Nat, k > 0, NEW n \in Nat, n > 0, NEW x \in Int, NEW y \in Int,
         rate * n * q * (100 * u - q) <= (100 * u) * (100 * u) * x,
         (100 * u) * (100 * u) * y < rate * k * p * (100 * u - p) + (100 * u) * (100 * u),
         n * (c - q) - u * x >= n * e
  PROVE  u * y < k * (c - p)
<1> DEFINE o == 100 * u
           Q == o * o
           H == q * (o - q)  h == p * (o - p)
           G == rate * H     g == rate * h
           cq == c - q       cp == c - p   d == q - p
<1>1. o \in Nat /\ Q \in Nat /\ Q > 0 /\ H \in Int /\ h \in Int /\ cq \in Int /\ cp \in Int /\ d \in Nat
      /\ cp = cq + d
  <2>1. o \in Nat /\ o > 0 /\ cq \in Int /\ cp \in Int /\ d \in Nat /\ o - q \in Int /\ o - p \in Int
        /\ cp = cq + d
    OBVIOUS
  <2> HIDE DEF o, cq, cp, d
  <2>2. Q \in Nat /\ Q > 0
    BY <2>1
  <2>3. H \in Int /\ h \in Int
    BY <2>1
  <2> QED BY <2>1, <2>2, <2>3
<1>2. rate * n * q * (o - q) = n * G /\ rate * k * p * (o - p) = k * g
  <2> HIDE DEF o
  <2> QED BY <1>1
<1>3. h <= H + o * d
  <2> HIDE DEF o
  <2> QED BY <1>1, FeeCurve DEF d, o
<1>4. n * G <= Q * x /\ Q * y < k * g + Q /\ n * cq - u * x >= n * e
  BY <1>2
<1> HIDE DEF Q, H, h, cq, cp, d
<1>5. G \in Int /\ g \in Int
  BY <1>1
<1>6. g <= G + rate * (o * d)
  <2>1. H + o * d \in Int /\ o * d \in Int
    BY <1>1
  <2>2. rate * h <= rate * (H + o * d)
    BY <1>1, <1>3, <2>1, ProductGrows
  <2>3. rate * (H + o * d) = rate * H + rate * (o * d)
    BY <1>1, <2>1
  <2> QED BY <2>2, <2>3
<1>7. u * g <= u * G + Q * d
  <2> DEFINE od == o * d
  <2>1. od \in Nat
    BY <1>1, ProductIs
  <2>2. u * g <= u * (G + rate * od)
    <3>1. G + rate * od \in Int
      <4> HIDE DEF od, G
      <4> QED BY <1>5, <2>1
    <3> HIDE DEF G, g, od
    <3> QED BY <1>5, <1>6, <3>1, ProductGrows DEF od
  <2>3. u * (G + rate * od) = u * G + od * (u * rate)
    <3> HIDE DEF od, G
    <3> QED BY <1>5, <2>1
  <2>4. od * (u * rate) <= od * o
    <3>1. u * rate <= u * 100
      BY ProductGrows
    <3>2. u * rate <= o /\ u * rate \in Int
      BY <3>1
    <3> HIDE DEF od, o
    <3> QED BY <1>1, <2>1, <3>2, ProductGrows
  <2>5. od * o = Q * d
    <3> HIDE DEF o
    <3> QED BY <1>1 DEF Q
  <2>6. u * g \in Int /\ u * G \in Int /\ od * (u * rate) \in Int /\ Q * d \in Int
    <3> HIDE DEF od, g, G
    <3> QED BY <1>1, <1>5, <2>1
  <2> HIDE DEF od, g, G, o
  <2> QED BY <2>2, <2>3, <2>4, <2>5, <2>6
<1> HIDE DEF G, g, o
<1>8. Q * e + u * G <= Q * cq
  <2>1. Q * (n * e) <= Q * (n * cq - u * x)
    <3>1. n * e \in Int /\ n * cq - u * x \in Int
      BY <1>1
    <3> QED BY <1>1, <1>4, <3>1, ProductGrows
  <2>2. u * (n * G) <= u * (Q * x)
    <3>1. n * G \in Int /\ Q * x \in Int
      BY <1>1, <1>5
    <3> QED BY <1>4, <3>1, ProductGrows
  <2>3. /\ Q * (n * cq - u * x) = n * (Q * cq) - u * (Q * x)
        /\ Q * (n * e) = n * (Q * e) /\ u * (n * G) = n * (u * G)
    BY <1>1, <1>5
  <2>4. n * (Q * e + u * G) = n * (Q * e) + n * (u * G)
    BY <1>1, <1>5
  <2>5. n * (Q * e) \in Int /\ n * (u * G) \in Int /\ n * (Q * cq) \in Int /\ u * (Q * x) \in Int
    BY <1>1, <1>5
  <2>6. n * (Q * e + u * G) <= n * (Q * cq)
    BY <2>1, <2>2, <2>3, <2>4, <2>5
  <2>7. Q * e + u * G \in Int /\ Q * cq \in Int
    BY <1>1, <1>5
  <2> QED BY <2>6, <2>7, Cancels
<1>9. Q * e + u * g <= Q * cp
  <2>1. Q * cp = Q * cq + Q * d
    BY <1>1
  <2>2. Q * e \in Int /\ u * g \in Int /\ u * G \in Int /\ Q * cq \in Int /\ Q * d \in Int
    BY <1>1, <1>5
  <2> QED BY <1>7, <1>8, <2>1, <2>2
<1>10. Q * (u * y) < Q * (k * cp)
  <2>1. k * (Q * e + u * g) <= k * (Q * cp)
    <3>1. Q * e + u * g \in Int /\ Q * cp \in Int
      BY <1>1, <1>5
    <3> QED BY <1>9, <3>1, ProductGrows
  <2>2. u * (Q * y) < u * (k * g + Q)
    <3>1. Q * y \in Int /\ k * g + Q \in Int
      BY <1>1, <1>5
    <3> QED BY <1>4, <3>1, ProductGrows
  <2>3. Q * u <= k * (Q * e)
    <3>1. Q * u <= Q * e
      BY <1>1, ProductGrows
    <3>2. Q * e \in Nat
      BY <1>1
    <3>3. (Q * e) * 1 <= (Q * e) * k
      BY <3>2, ProductGrows
    <3>4. (Q * e) * k = k * (Q * e) /\ (Q * e) * 1 = Q * e
      BY <3>2
    <3>5. Q * u \in Int /\ k * (Q * e) \in Int
      BY <1>1, <3>2
    <3> QED BY <3>1, <3>2, <3>3, <3>4, <3>5
  <2>4. /\ k * (Q * e + u * g) = k * (Q * e) + u * (k * g)
        /\ u * (k * g + Q) = u * (k * g) + Q * u
        /\ u * (Q * y) = Q * (u * y) /\ k * (Q * cp) = Q * (k * cp)
    BY <1>1, <1>5
  <2>5. k * (Q * e) \in Int /\ u * (k * g) \in Int /\ Q * u \in Int /\ Q * (u * y) \in Int
        /\ Q * (k * cp) \in Int
    BY <1>1, <1>5
  <2> QED BY <2>1, <2>2, <2>3, <2>4, <2>5
<1>11. u * y \in Int /\ k * cp \in Int
  BY <1>1
<1>12. u * y < k * cp
  BY <1>1, <1>10, <1>11, Cancels
<1> QED BY <1>12 DEF cp

\* The same of a fee rounded half up, for no more than n contracts.
LEMMA RoundedHalfPays ==
  ASSUME NEW o \in Nat, o > 0, NEW rate \in Nat, rate <= 100, NEW e \in Int, 1 <= e,
         NEW c \in Int, NEW p \in Nat, NEW q \in Nat, p <= q, q <= o,
         NEW k \in Nat, k > 0, NEW n \in Nat, k <= n, NEW x \in Int, NEW y \in Int,
         rate * n * q * (o - q) < 10 * (o * x) + 5 * o,
         10 * (o * y) <= rate * k * p * (o - p) + 5 * o,
         10 * (n * (c - q)) - x >= n * (10 * e)
  PROVE  y < 10 * (k * (c - p))
<1> DEFINE H == q * (o - q)  h == p * (o - p)
           G == rate * H     g == rate * h
           cq == c - q       cp == c - p   d == q - p
           E == 100 * (o * e)  CQ == 100 * (o * cq)  CP == 100 * (o * cp)  D == 100 * (o * d)
           Z == CP - E - g
<1>1. H \in Int /\ h \in Int /\ cq \in Int /\ cp \in Int /\ d \in Nat /\ cp = cq + d
  <2>1. cq \in Int /\ cp \in Int /\ d \in Nat /\ o - q \in Int /\ o - p \in Int /\ cp = cq + d
    OBVIOUS
  <2> HIDE DEF cq, cp, d
  <2>2. H \in Int /\ h \in Int
    BY <2>1
  <2> QED BY <2>1, <2>2
<1>2. rate * n * q * (o - q) = n * G /\ rate * k * p * (o - p) = k * g
  <2>1. o - q \in Int /\ o - p \in Int
    OBVIOUS
  <2> QED BY <1>1
<1>3. h <= H + o * d
  BY <1>1, FeeCurve DEF d
<1>4. n * G < 10 * (o * x) + 5 * o /\ 10 * (o * y) <= k * g + 5 * o /\ 10 * (n * cq) - x >= n * (10 * e)
  BY <1>2
<1> HIDE DEF H, h, cq, cp, d
<1>5. G \in Int /\ g \in Int /\ E \in Int /\ CQ \in Int /\ CP \in Int /\ D \in Int /\ CP = CQ + D
  BY <1>1
<1>6. g <= G + D
  <2> DEFINE od == o * d
  <2>1. od \in Nat
    BY <1>1, ProductIs
  <2>2. rate * h <= rate * (H + od)
    <3>1. H + od \in Int
      <4> HIDE DEF od
      <4> QED BY <1>1, <2>1
    <3> HIDE DEF od
    <3> QED BY <1>1, <1>3, <3>1, ProductGrows DEF od
  <2>3. rate * (H + od) = rate * H + od * rate
    <3> HIDE DEF od
    <3> QED BY <1>1, <2>1
  <2>4. od * rate <= od * 100
    <3> HIDE DEF od
    <3> QED BY <2>1, ProductGrows
  <2>5. od * rate \in Int /\ rate * H \in Int
    <3> HIDE DEF od
    <3> QED BY <1>1, <2>1
  <2>6. D = od * 100
    BY <1>1
  <2> HIDE DEF od, D
  <2> QED BY <1>1, <1>5, <2>1, <2>2, <2>3, <2>4, <2>5, <2>6
<1>7. n * E <= n * CQ - 10 * (o * x)
  <2> DEFINE l == n * (10 * e)  r == 10 * (n * cq) - x  t == 10 * o
  <2>1. l \in Int /\ r \in Int /\ l <= r /\ t \in Nat
    BY <1>1, <1>4
  <2>2. t * l <= t * r
    <3> HIDE DEF l, r, t
    <3> QED BY <2>1, ProductGrows
  <2>3. t * l = n * E
    OBVIOUS
  <2>4. t * r = n * CQ - 10 * (o * x)
    BY <1>1
  <2> QED BY <2>2, <2>3, <2>4
<1> HIDE DEF G, g, E, CQ, CP, D
<1>8. n * (CQ - E - G) > -(5 * o)
  <2>1. n * (CQ - E - G) = n * CQ - n * E - n * G
    BY <1>5
  <2>2. n * CQ \in Int /\ n * E \in Int /\ n * G \in Int /\ o * x \in Int
    BY <1>5
  <2> QED BY <1>4, <1>7, <2>1, <2>2
<1>9. Z \in Int /\ CQ - E - G <= Z /\ CQ - E - G \in Int
  BY <1>5, <1>6
<1>10. k * g = k * CP - k * E - k * Z
  BY <1>5
<1> HIDE DEF Z
<1>11. k * Z > -(5 * o)
  <2>1. n * (CQ - E - G) <= n * Z
    BY <1>9, ProductGrows
  <2>2. n * Z > -(5 * o)
    <3>1. n * Z \in Int /\ n * (CQ - E - G) \in Int
      BY <1>9
    <3> QED BY <1>8, <2>1, <3>1
  <2>3. CASE Z >= 0
    <3>1. k * Z \in Nat
      BY <1>9, <2>3, ProductIs
    <3> QED BY <3>1
  <2>4. CASE Z < 0
    <3>1. -Z \in Nat
      BY <1>9, <2>4
    <3>2. (-Z) * k <= (-Z) * n
      BY <3>1, ProductGrows
    <3>3. (-Z) * k = -(k * Z) /\ (-Z) * n = -(n * Z) /\ k * Z \in Int /\ n * Z \in Int
      BY <1>9
    <3> QED BY <2>2, <3>2, <3>3
  <2> QED BY <1>9, <2>3, <2>4
<1>12. 100 * o <= k * E
  <2>1. o * 1 <= o * e
    BY ProductGrows
  <2>2. E \in Nat /\ 100 * o <= E
    BY <2>1 DEF E
  <2>3. E * 1 <= E * k
    BY <2>2, ProductGrows
  <2>4. E * k = k * E /\ E * 1 = E
    BY <2>2
  <2> QED BY <2>2, <2>3, <2>4
<1>13. 10 * (o * y) < k * CP
  <2>1. k * CP \in Int /\ k * E \in Int /\ k * Z \in Int /\ o * y \in Int
    BY <1>5, <1>9
  <2> QED BY <1>4, <1>10, <1>11, <1>12, <2>1
<1>14. (10 * o) * y < (10 * o) * (10 * (k * cp))
  <2>1. k * CP = (10 * o) * (10 * (k * cp)) /\ (10 * o) * y = 10 * (o * y)
    BY <1>1 DEF CP
  <2> QED BY <1>13, <2>1
<1>15. y < 10 * (k * cp)
  <2>1. 10 * (k * cp) \in Int /\ 10 * o \in Nat /\ 10 * o > 0
    BY <1>1
  <2> QED BY <1>14, <2>1, Cancels
<1> QED BY <1>15 DEF cp


Cheap(c, p, q, k, n) ==
  /\ c \in Int /\ p \in Nat /\ q \in Nat /\ 0 < p /\ p <= q /\ q < One
  /\ k \in Nat /\ 0 < k /\ n \in Nat /\ k <= n

LEMMA Edges == 100 * (One \div 100) = One /\ One \div 100 \in Nat /\ One \div 100 > 0
               /\ Cent = 10 * (One \div 100) /\ MinEdge \in Nat /\ One \div 100 <= MinEdge /\ MinEdge > 0
<1>1. One \in Nat \ {0} /\ One % 100 = 0
  BY PricingAssumption DEF PricingAssumption
<1>2. One = 100 * (One \div 100) /\ One \div 100 \in Int
  BY <1>1
<1>3. MinEdge \in Nat /\ One <= 100 * MinEdge
  BY SourceLagAssumption DEF SourceLagAssumption
<1> QED BY <1>1, <1>2, <1>3 DEF Cent, Money

LEMMA KalshiCarries ==
  ASSUME NEW rate \in Nat, rate <= 100, NEW c, NEW p, NEW q, NEW k, NEW n, Cheap(c, p, q, k, n),
         10 * (c - q) * n - KalshiFee(n, q, rate) >= 10 * MinEdge * n
  PROVE  10 * (c - p) * k > KalshiFee(k, p, rate)
<1> DEFINE u == One \div 100
           X == rate * n * q * (One - q)  Y == rate * k * p * (One - p)
           x == CeilDiv(X, One * One)  y == CeilDiv(Y, One * One)
<1>1. One = 100 * u /\ u \in Nat /\ u > 0 /\ Cent = 10 * u /\ MinEdge \in Nat /\ u <= MinEdge
  BY Edges
<1>2. /\ c \in Int /\ p \in Nat /\ q \in Nat /\ 0 < p /\ p <= q /\ q < One
      /\ k \in Nat /\ 0 < k /\ n \in Nat /\ n > 0
  BY DEF Cheap
<1> HIDE DEF u
<1>3. One * One \in Nat /\ One * One > 0
  BY <1>1
<1>4. X \in Nat /\ Y \in Nat
  <2>1. One - q \in Nat /\ One - p \in Nat
    BY <1>1, <1>2
  <2>2. rate * n \in Nat /\ rate * k \in Nat
    BY <1>2, ProductIs
  <2>3. rate * n * q \in Nat /\ rate * k * p \in Nat
    BY <1>2, <2>2, ProductIs
  <2> QED BY <2>1, <2>3, ProductIs
<1>5. /\ x \in Int /\ X <= One * One * x
      /\ y \in Int /\ One * One * y < Y + One * One
  <2> DEFINE Q == One * One
  <2>1. Q \in Nat /\ Q > 0
    BY <1>3
  <2> HIDE DEF X, Y, Q
  <2>2. CeilDiv(X, Q) \in Int /\ X <= Q * CeilDiv(X, Q)
    <3>1. X \in Int
      BY <1>4
    <3> QED BY <2>1, <3>1, CeilDivIs
  <2>3. CeilDiv(Y, Q) \in Int /\ Q * CeilDiv(Y, Q) < Y + Q
    <3>1. Y \in Int
      BY <1>4
    <3> QED BY <2>1, <3>1, CeilDivIs
  <2> QED BY <2>2, <2>3 DEF Q
<1>6. CASE rate = 0
  <2>1. KalshiFee(n, q, rate) = 0 /\ KalshiFee(k, p, rate) = 0
    BY <1>6 DEF KalshiFee
  <2>2. (c - q) * n >= MinEdge * n
    <3>1. 10 * (c - q) * n = 10 * ((c - q) * n) /\ 10 * MinEdge * n = 10 * (MinEdge * n)
          /\ (c - q) * n \in Int /\ MinEdge * n \in Int
      BY <1>1, <1>2
    <3> QED BY <2>1, <3>1
  <2>3. n * MinEdge <= n * (c - q)
    BY <1>1, <1>2, <2>2
  <2>4. MinEdge <= c - q
    BY <1>1, <1>2, <2>3, Cancels
  <2>5. c - p \in Nat /\ c - p > 0
    BY <1>1, <1>2, <2>4
  <2>6. (c - p) * k > 0
    BY <1>2, <2>5
  <2>7. 10 * (c - p) * k = 10 * ((c - p) * k)
    BY <1>2
  <2> QED BY <1>2, <2>1, <2>5, <2>6, <2>7
<1>7. CASE rate > 0
  <2>1. KalshiFee(n, q, rate) = Cent * x /\ KalshiFee(k, p, rate) = Cent * y
    BY <1>1, <1>2, <1>7 DEF KalshiFee
  <2> HIDE DEF x, y
  <2>2. n * (c - q) - u * x >= n * MinEdge
    <3>1. /\ 10 * (c - q) * n = 10 * (n * (c - q)) /\ 10 * MinEdge * n = 10 * (n * MinEdge)
          /\ Cent * x = 10 * (u * x)
          /\ n * (c - q) \in Int /\ u * x \in Int /\ n * MinEdge \in Int
      BY <1>1, <1>2, <1>5
    <3> QED BY <2>1, <3>1
  <2>3. u * y < k * (c - p)
    <3>1. q <= 100 * u /\ MinEdge \in Int
      BY <1>1, <1>2
    <3>2. /\ rate * n * q * (100 * u - q) <= (100 * u) * (100 * u) * x
          /\ (100 * u) * (100 * u) * y < rate * k * p * (100 * u - p) + (100 * u) * (100 * u)
      BY <1>1, <1>5
    <3> QED BY <1>1, <1>2, <1>5, <2>2, <3>1, <3>2, RoundedUpPays
  <2>4. /\ 10 * (c - p) * k = 10 * (k * (c - p)) /\ Cent * y = 10 * (u * y)
        /\ k * (c - p) \in Int /\ u * y \in Int
    BY <1>1, <1>2, <1>5
  <2> QED BY <2>1, <2>3, <2>4
<1> QED BY <1>6, <1>7

LEMMA PolymarketCarries ==
  ASSUME NEW rate \in Nat, rate <= 100, NEW c, NEW p, NEW q, NEW k, NEW n, Cheap(c, p, q, k, n),
         10 * (c - q) * n - PolymarketFee(n, q, rate) >= 10 * MinEdge * n
  PROVE  10 * (c - p) * k > PolymarketFee(k, p, rate)
<1> DEFINE X == rate * n * q * (One - q)  Y == rate * k * p * (One - p)
           x == HalfUp(X * Money, 100 * One)  y == HalfUp(Y * Money, 100 * One)
<1>1. One \in Nat /\ One > 0 /\ MinEdge \in Nat /\ MinEdge > 0
  BY Edges, Units
<1>2. /\ c \in Int /\ p \in Nat /\ q \in Nat /\ 0 < p /\ p <= q /\ q < One
      /\ k \in Nat /\ 0 < k /\ n \in Nat /\ n > 0 /\ k <= n
  BY DEF Cheap
<1>4. X \in Nat /\ Y \in Nat
  <2>1. One - q \in Nat /\ One - p \in Nat
    BY <1>1, <1>2
  <2>2. rate * n \in Nat /\ rate * k \in Nat
    BY <1>2, ProductIs
  <2>3. rate * n * q \in Nat /\ rate * k * p \in Nat
    BY <1>2, <2>2, ProductIs
  <2> QED BY <2>1, <2>3, ProductIs
<1>5. /\ x \in Int /\ X < 10 * (One * x) + 5 * One
      /\ y \in Int /\ 10 * (One * y) <= Y + 5 * One
  <2> HIDE DEF X, Y
  <2>1. X * Money \in Int /\ Y * Money \in Int /\ 100 * One \in Nat /\ 100 * One > 0
    BY <1>1, <1>4 DEF Money
  <2>2. /\ x \in Int /\ 2 * (X * Money) < 2 * ((100 * One) * x) + 100 * One
        /\ y \in Int /\ 2 * ((100 * One) * y) <= 2 * (Y * Money) + 100 * One
    BY <2>1, HalfUpIs
  <2> HIDE DEF x, y
  <2>3. X * Money = 10 * X /\ Y * Money = 10 * Y
        /\ (100 * One) * x = 100 * (One * x) /\ (100 * One) * y = 100 * (One * y)
        /\ One * x \in Int /\ One * y \in Int
    BY <1>1, <1>4, <2>2 DEF Money
  <2> QED BY <1>1, <1>4, <2>2, <2>3
<1>6. CASE rate = 0
  <2>1. PolymarketFee(n, q, rate) = 0 /\ PolymarketFee(k, p, rate) = 0
    BY <1>6 DEF PolymarketFee
  <2>2. KalshiFee(n, q, rate) = 0 /\ KalshiFee(k, p, rate) = 0
    BY <1>6 DEF KalshiFee
  <2> QED BY <2>1, <2>2, KalshiCarries
<1>7. CASE rate > 0
  <2>1. PolymarketFee(n, q, rate) = x /\ PolymarketFee(k, p, rate) = y
    BY <1>1, <1>2, <1>7 DEF PolymarketFee
  <2> HIDE DEF x, y
  <2>2. 10 * (n * (c - q)) - x >= n * (10 * MinEdge)
    <3>1. 10 * (c - q) * n = 10 * (n * (c - q)) /\ 10 * MinEdge * n = n * (10 * MinEdge)
      BY <1>1, <1>2
    <3> QED BY <2>1, <3>1
  <2>3. y < 10 * (k * (c - p))
    <3>1. q <= One /\ MinEdge \in Int /\ 1 <= MinEdge
      BY <1>1, <1>2
    <3> QED BY <1>1, <1>2, <1>5, <2>2, <3>1, RoundedHalfPays
  <2>4. 10 * (c - p) * k = 10 * (k * (c - p))
    BY <1>2
  <2> QED BY <2>1, <2>3, <2>4
<1> QED BY <1>6, <1>7

LEMMA FlatCarries ==
  ASSUME NEW rate \in Nat, NEW c, NEW p, NEW q, NEW k, NEW n, Cheap(c, p, q, k, n),
         10 * (c - q) * n - Cent * rate * n >= 10 * MinEdge * n
  PROVE  10 * (c - p) * k > Cent * rate * k
<1> DEFINE r == Cent * rate  cq == 10 * (c - q)  cp == 10 * (c - p)  e == 10 * MinEdge
<1>1. MinEdge \in Nat /\ MinEdge > 0 /\ r \in Nat
  BY Edges, Units, ProductIs
<1>2. /\ c \in Int /\ p \in Nat /\ q \in Nat /\ p <= q
      /\ k \in Nat /\ 0 < k /\ n \in Nat /\ n > 0
  BY DEF Cheap
<1>3. cq \in Int /\ cp \in Int /\ e \in Int /\ e > 0 /\ cq <= cp /\ cq * n - r * n >= e * n
  BY <1>1, <1>2
<1> HIDE DEF r, cq, cp, e
<1>4. n * (e + r) <= n * cq
  BY <1>1, <1>2, <1>3
<1>5. e + r <= cq
  <2>1. e + r \in Int
    BY <1>1, <1>3
  <2> QED BY <1>2, <1>3, <1>4, <2>1, Cancels
<1>6. k * r < k * cp
  BY <1>1, <1>2, <1>3, <1>5, ProductGrows
<1>7. k * r = r * k /\ k * cp = cp * k
  BY <1>1, <1>2, <1>3
<1> QED BY <1>6, <1>7 DEF r, cp

-----------------------------------------------------------------------------
(* The average price of a walk grows with its size.                        *)

LEMMA DepthGrows ==
  ASSUME NEW ls \in Ladders, NEW i \in 0..Len(ls), NEW k \in 0..Len(ls), i <= k
  PROVE  DepthTo(ls, i) <= DepthTo(ls, k)
<1> DEFINE T == {x \in 0..Len(ls) : x <= i \/ DepthTo(ls, i) <= DepthTo(ls, x)}
<1>1. /\ \A x \in 0..Len(ls) : DepthTo(ls, x) \in Nat
      /\ \A x \in 1..Len(ls) : DepthTo(ls, x) = DepthTo(ls, x - 1) + ls[x].size
      /\ \A x \in 1..Len(ls) : ls[x].size \in Nat
      /\ Len(ls) \in Nat
  BY Depths, SizesAre
<1>2. 0 \in T
  BY <1>1
<1>3. ASSUME NEW x \in 1..Len(ls), x - 1 \in T PROVE x \in T
  <2> DEFINE a == DepthTo(ls, i)  b == DepthTo(ls, x - 1)  c == DepthTo(ls, x)  z == ls[x].size
  <2>1. a \in Nat /\ b \in Nat /\ c \in Nat /\ z \in Nat /\ c = b + z
    BY <1>1
  <2>2. x - 1 <= i \/ a <= b
    BY <1>3
  <2>3. CASE x <= i
    BY <2>3
  <2>4. CASE x - 1 = i
    BY <2>1, <2>4
  <2>5. CASE a <= b
    BY <2>1, <2>5
  <2> QED BY <2>2, <2>3, <2>4, <2>5
<1>4. \A x \in 0..Len(ls) : x \in T
  <2> HIDE DEF T
  <2> QED BY <1>1, <1>2, <1>3, UpToBound
<1>5. i = k \/ DepthTo(ls, i) <= DepthTo(ls, k)
  BY <1>4
<1> QED BY <1>1, <1>5

\* Asking for more than there is comes to the same.
LEMMA AskingForMore ==
  ASSUME NEW ls \in Ladders, NEW t \in Nat, NEW r \in Nat, Depth(ls) <= t, Depth(ls) <= r
  PROVE  Walk(ls, t) = Walk(ls, r)
<1>1. ASSUME NEW i \in 1..Len(ls), NEW s \in {t, r} PROVE Taken(ls, s)[i] = ls[i].size
  <2> DEFINE d == DepthTo(ls, i - 1)  e == DepthTo(ls, i)  z == ls[i].size
  <2>1. d \in Nat /\ z \in Nat /\ e = d + z
    BY Depths, SizesAre
  <2>2. e <= Depth(ls) /\ Depth(ls) \in Nat
    <3>1. i \in 0..Len(ls) /\ Len(ls) \in 0..Len(ls) /\ i <= Len(ls)
      BY SizesAre
    <3> QED BY <3>1, DepthGrows, Depths DEF Depth
  <2>3. s \in Nat /\ Depth(ls) <= s
    OBVIOUS
  <2>4. Taken(ls, s)[i] = IF s <= d THEN 0 ELSE Lesser(s - d, z)
    BY <2>3, TakenIs
  <2> HIDE DEF d, e, z
  <2>5. Taken(ls, s)[i] = z
    BY <2>1, <2>2, <2>3, <2>4 DEF Lesser
  <2> QED BY <2>5 DEF z
<1>2. DOMAIN ls = 1..Len(ls)
  BY SizesAre
<1>3. \A i \in 1..Len(ls) : Taken(ls, t)[i] = Taken(ls, r)[i]
  BY <1>1
<1>4. Taken(ls, t) = Taken(ls, r)
  <2>1. /\ Taken(ls, t) = [i \in 1..Len(ls) |-> Taken(ls, t)[i]]
        /\ Taken(ls, r) = [i \in 1..Len(ls) |-> Taken(ls, r)[i]]
    BY <1>2 DEF Taken
  <2> QED BY <1>3, <2>1
<1> QED BY <1>4 DEF Walk

\* Best price first.
Ascending(ls) == \A i, k \in 1..Len(ls) : i < k => ls[i].price <= ls[k].price

LEMMA TotalScales ==
  ASSUME NEW n \in Nat, NEW a \in Int, NEW f, Summable(f, n)
  PROVE  /\ Summable([i \in 1..n |-> a * f[i]], n)
         /\ Total([i \in 1..n |-> a * f[i]], n) = a * Total(f, n)
<1> DEFINE h == [i \in 1..n |-> a * f[i]]  z == [i \in 1..n |-> 0]
<1>1. Summable(h, n) /\ Summable(z, n)
  BY DEF Summable
<1>2. n \in 0..n
  OBVIOUS
<1>3. \A i \in 1..n : h[i] = a * f[i] + z[i]
  BY DEF Summable
<1>4. \A i \in 1..n : z[i] = (-1) * z[i] + z[i]
  OBVIOUS
<1> HIDE DEF h, z
<1>5. Total(h, n) = a * Total(f, n) + Total(z, n)
  BY <1>1, <1>3, TotalIsLinear
<1>6. Total(z, n) = (-1) * Total(z, n) + Total(z, n)
  BY <1>1, <1>4, TotalIsLinear
<1>7. Total(z, n) \in Int /\ Total(f, n) \in Int
  BY <1>1, <1>2, Totals
<1>8. a * Total(f, n) \in Int
  <2> DEFINE T == Total(f, n)
  <2>1. T \in Int
    BY <1>7
  <2> HIDE DEF T
  <2> QED BY <2>1 DEF T
<1>9. Total(h, n) = a * Total(f, n)
  BY <1>5, <1>6, <1>7, <1>8
<1> QED BY <1>1, <1>9 DEF h

\* What the first k contracts come to, and the first n of them.
LEMMA Dearer ==
  ASSUME NEW ls \in Ladders, Ascending(ls), NEW k \in Nat, 0 < k, NEW n \in Nat, k <= n, n <= Depth(ls)
  PROVE  n * Walk(ls, k).notional <= k * Walk(ls, n).notional
<1> DEFINE m == Len(ls)
           a == Taken(ls, k)         b == Taken(ls, n)
           wa == Worth(ls, a)        wb == Worth(ls, b)
<1>1. m \in Nat /\ Len(ls) = m /\ m \in 0..m /\ Depth(ls) = DepthTo(ls, m)
  BY SizesAre DEF Depth
<1>2. /\ \A i \in 0..m : DepthTo(ls, i) \in Nat
      /\ \A i \in 1..m : DepthTo(ls, i) = DepthTo(ls, i - 1) + ls[i].size
      /\ \A i \in 1..m : ls[i].size \in Nat /\ ls[i].price \in Nat
      /\ DepthTo(ls, 0) = 0
  BY Depths, SizesAre
<1>3. /\ Summable(a, m) /\ Summable(wa, m)
      /\ Walk(ls, k).notional = Total(wa, m) /\ Total(a, m) = Walk(ls, k).filled
      /\ \A i \in 1..m : a[i] \in Nat /\ wa[i] = 10 * (a[i] * ls[i].price)
  BY NotionalTerms
<1>4. /\ Summable(b, m) /\ Summable(wb, m)
      /\ Walk(ls, n).notional = Total(wb, m) /\ Total(b, m) = Walk(ls, n).filled
      /\ \A i \in 1..m : b[i] \in Nat /\ wb[i] = 10 * (b[i] * ls[i].price)
  BY NotionalTerms
<1>5. Total(a, m) = k /\ Total(b, m) = n
  <2>1. Walk(ls, k).filled = Lesser(k, Depth(ls)) /\ Walk(ls, n).filled = Lesser(n, Depth(ls))
    BY WalkFills
  <2>2. Depth(ls) \in Nat
    BY Depths
  <2> QED BY <1>3, <1>4, <2>1, <2>2 DEF Lesser
<1>6. \A i \in 1..m :
        /\ a[i] = IF k <= DepthTo(ls, i - 1) THEN 0 ELSE Lesser(k - DepthTo(ls, i - 1), ls[i].size)
        /\ b[i] = IF n <= DepthTo(ls, i - 1) THEN 0 ELSE Lesser(n - DepthTo(ls, i - 1), ls[i].size)
  BY TakenIs
<1> HIDE DEF m, a, b, wa, wb
<1>7. PICK j \in 1..m : k <= DepthTo(ls, j) /\ \A i \in 1..m : i < j => DepthTo(ls, i) < k
  <2> DEFINE T == {i \in 0..m : k <= DepthTo(ls, i)}
  <2>1. T \subseteq Nat /\ m \in T
    BY <1>1, <1>2
  <2>2. PICK j \in T : \A i \in T : j <= i
    <3> HIDE DEF T
    <3> QED BY <2>1, LeastIs
  <2>3. j \in 1..m
    BY <1>1, <1>2, <2>2
  <2>4. ASSUME NEW i \in 1..m, i < j PROVE DepthTo(ls, i) < k
    <3>1. i \notin T
      BY <2>2, <2>3, <2>4
    <3>2. i \in 0..m /\ DepthTo(ls, i) \in Nat
      BY <1>1, <1>2
    <3> QED BY <3>1, <3>2
  <2> QED BY <2>2, <2>3, <2>4
<1> DEFINE p == ls[j].price
           f1 == [i \in 1..m |-> (10 * (p * n)) * a[i]]
           f2 == [i \in 1..m |-> (10 * (p * k)) * b[i]]
           h1 == [i \in 1..m |-> k * wb[i] + f1[i]]
           h2 == [i \in 1..m |-> n * wa[i] + f2[i]]
<1>8. p \in Nat /\ 10 * (p * n) \in Int /\ 10 * (p * k) \in Int
  BY <1>2
<1>9. ASSUME NEW i \in 1..m PROVE h2[i] <= h1[i]
  <2> DEFINE x == a[i]  y == b[i]  q == ls[i].price  z == ls[i].size  d == DepthTo(ls, i - 1)
  <2>1. x \in Nat /\ y \in Nat /\ q \in Nat /\ z \in Nat /\ d \in Nat
    <3>1. i - 1 \in 0..m
      BY <1>1
    <3> QED BY <1>2, <1>3, <1>4, <3>1
  <2>2. h1[i] = k * (10 * (y * q)) + (10 * (p * n)) * x /\ h2[i] = n * (10 * (x * q)) + (10 * (p * k)) * y
    BY <1>3, <1>4
  <2>3. /\ x = IF k <= d THEN 0 ELSE Lesser(k - d, z)
        /\ y = IF n <= d THEN 0 ELSE Lesser(n - d, z)
    BY <1>6
  <2>4. i < j => d + z < k
    BY <1>2, <1>7
  <2>5. j < i => k <= d
    <3> SUFFICES ASSUME j < i PROVE k <= d
      OBVIOUS
    <3>1. j \in 0..m /\ i - 1 \in 0..m /\ j <= i - 1
      BY <1>1
    <3>2. DepthTo(ls, j) <= d
      BY <1>1, <3>1, DepthGrows
    <3>3. DepthTo(ls, j) \in Nat
      BY <1>2, <3>1
    <3> QED BY <1>7, <2>1, <3>2, <3>3
  <2>6. (i < j => q <= p) /\ (j < i => p <= q)
    BY <1>1 DEF Ascending
  <2>7. i < j \/ j < i \/ i = j
    OBVIOUS
  <2>8. i = j => q = p
    OBVIOUS
  <2>9. h1[i] - h2[i] = 10 * ((k * y - n * x) * (q - p)) /\ h1[i] \in Int /\ h2[i] \in Int
    <3> HIDE DEF p, x, y, q, h1, h2
    <3> QED BY <1>8, <2>1, <2>2
  <2> HIDE DEF p, x, y, q, z, d
  <2>10. (k * y - n * x) * (q - p) >= 0
    <3>1. CASE i < j
      <4>1. x = z /\ y = z
        BY <2>1, <2>3, <2>4, <3>1 DEF Lesser
      <4>2. z * k <= z * n
        BY <2>1, ProductGrows
      <4>3. n * z - k * z \in Nat /\ p - q \in Nat
        BY <1>8, <2>1, <2>6, <3>1, <4>2
      <4>4. (n * z - k * z) * (p - q) \in Nat
        BY <4>3, ProductIs
      <4>5. (k * z - n * z) * (q - p) = (n * z - k * z) * (p - q)
        BY <1>8, <2>1
      <4> QED BY <4>1, <4>4, <4>5
    <3>2. CASE j < i
      <4>1. x = 0
        BY <2>1, <2>3, <2>5, <3>2
      <4>2. k * y \in Nat /\ q - p \in Nat
        BY <1>8, <2>1, <2>6, <3>2
      <4>3. (k * y) * (q - p) \in Nat
        BY <4>2, ProductIs
      <4>4. k * y - n * x = k * y
        BY <2>1, <4>1, <4>2
      <4> QED BY <4>3, <4>4
    <3>3. CASE i = j
      <4>1. q - p = 0 /\ k * y - n * x \in Int
        BY <1>8, <2>1, <2>8, <3>3
      <4> QED BY <4>1
    <3> QED BY <2>7, <3>1, <3>2, <3>3
  <2> DEFINE e == (k * y - n * x) * (q - p)
  <2>11. e \in Int /\ e >= 0 /\ h1[i] - h2[i] = 10 * e
    <3>1. (k * y - n * x) * (q - p) \in Int
      BY <1>8, <2>1
    <3> QED BY <2>9, <2>10, <3>1
  <2> HIDE DEF e, h1, h2
  <2> QED BY <2>9, <2>11
<1>10. /\ Summable(f1, m) /\ Total(f1, m) = (10 * (p * n)) * k
       /\ Summable(f2, m) /\ Total(f2, m) = (10 * (p * k)) * n
  <2> DEFINE c1 == 10 * (p * n)  c2 == 10 * (p * k)
  <2>1. c1 \in Int /\ c2 \in Int
    BY <1>8
  <2> HIDE DEF c1, c2
  <2>2. /\ Summable([i \in 1..m |-> c1 * a[i]], m) /\ Total([i \in 1..m |-> c1 * a[i]], m) = c1 * Total(a, m)
        /\ Summable([i \in 1..m |-> c2 * b[i]], m) /\ Total([i \in 1..m |-> c2 * b[i]], m) = c2 * Total(b, m)
    BY <1>1, <1>3, <1>4, <2>1, TotalScales
  <2> QED BY <1>5, <2>2 DEF c1, c2
<1>11. Summable(h1, m) /\ Summable(h2, m)
  <2>1. \A i \in 1..m : f1[i] \in Int /\ f2[i] \in Int /\ wa[i] \in Int /\ wb[i] \in Int
    BY <1>3, <1>4, <1>10 DEF Summable
  <2> HIDE DEF f1, f2
  <2>2. \A i \in 1..m : h1[i] \in Int /\ h2[i] \in Int
    BY <2>1
  <2> QED BY <2>2 DEF Summable
<1>12. \A i \in 1..m : h1[i] = k * wb[i] + f1[i] /\ h2[i] = n * wa[i] + f2[i]
  OBVIOUS
<1> HIDE DEF f1, f2, h1, h2
<1>13. Total(h1, m) = k * Total(wb, m) + Total(f1, m)
  BY <1>1, <1>4, <1>10, <1>11, <1>12, TotalIsLinear
<1>14. Total(h2, m) = n * Total(wa, m) + Total(f2, m)
  BY <1>1, <1>3, <1>10, <1>11, <1>12, TotalIsLinear
<1>15. Total(h2, m) <= Total(h1, m)
  BY <1>1, <1>9, <1>11, TotalGrows
<1>16. Total(wa, m) \in Int /\ Total(wb, m) \in Int
  BY <1>1, <1>3, <1>4, Totals
<1> DEFINE A == Total(wa, m)  B == Total(wb, m)
<1>17. n * A <= k * B
  <2>1. n * A + (10 * (p * k)) * n <= k * B + (10 * (p * n)) * k
    BY <1>10, <1>13, <1>14, <1>15
  <2>2. (10 * (p * k)) * n = (10 * (p * n)) * k /\ (10 * (p * k)) * n \in Int
    <3> HIDE DEF p
    <3> QED BY <1>8
  <2>3. n * A \in Int /\ k * B \in Int
    <3>1. A \in Int /\ B \in Int
      BY <1>16
    <3> HIDE DEF A, B
    <3> QED BY <3>1
  <2> HIDE DEF A, B, p
  <2> QED BY <2>1, <2>2, <2>3
<1> QED BY <1>3, <1>4, <1>17

LEMMA AverageGrows ==
  ASSUME NEW ls \in Ladders, Ascending(ls), NEW k \in Nat, 0 < k, NEW n \in Nat, k <= n, n <= Depth(ls)
  PROVE  AveragePrice(Walk(ls, k)) <= AveragePrice(Walk(ls, n))
<1> DEFINE A == Walk(ls, k).notional  B == Walk(ls, n).notional
           p == HalfUp(A, 10 * k)  q == HalfUp(B, 10 * n)
<1>1. A \in Nat /\ B \in Nat /\ n * A <= k * B
  BY Dearer, NotionalIs
<1>2. Walk(ls, k).filled = k /\ Walk(ls, n).filled = n
  <2>1. Walk(ls, k).filled = Lesser(k, Depth(ls)) /\ Walk(ls, n).filled = Lesser(n, Depth(ls))
    BY WalkFills
  <2>2. Depth(ls) \in Nat
    BY Depths
  <2> QED BY <2>1, <2>2 DEF Lesser
<1>3. AveragePrice(Walk(ls, k)) = p /\ AveragePrice(Walk(ls, n)) = q
  BY <1>2 DEF AveragePrice, Money
<1> HIDE DEF A, B
<1>4. p \in Int /\ 2 * ((10 * k) * p) <= 2 * A + 10 * k
  <2> DEFINE d == 10 * k
  <2>1. d \in Nat /\ d > 0 /\ A \in Int
    BY <1>1
  <2> HIDE DEF d
  <2>2. HalfUp(A, d) \in Int /\ 2 * (d * HalfUp(A, d)) <= 2 * A + d
    BY <2>1, HalfUpIs
  <2> QED BY <2>2 DEF d
<1>5. q \in Int /\ 2 * B < 2 * ((10 * n) * q) + 10 * n
  <2> DEFINE d == 10 * n
  <2>1. d \in Nat /\ d > 0 /\ B \in Int
    BY <1>1
  <2> HIDE DEF d
  <2>2. HalfUp(B, d) \in Int /\ 2 * B < 2 * (d * HalfUp(B, d)) + d
    BY <2>1, HalfUpIs
  <2> QED BY <2>2 DEF d
<1> HIDE DEF p, q
<1>6. ASSUME q + 1 <= p PROVE FALSE
  <2> DEFINE c == k * n
  <2>1. c \in Nat /\ c > 0
    BY ProductIs
  <2>2. n * (2 * ((10 * k) * p)) <= n * (2 * A + 10 * k)
    <3> DEFINE l == 2 * ((10 * k) * p)  r == 2 * A + 10 * k
    <3>1. l \in Int /\ r \in Int /\ l <= r
      BY <1>1, <1>4
    <3> HIDE DEF l, r
    <3>2. n * l <= n * r
      BY <3>1, ProductGrows
    <3> QED BY <3>2 DEF l, r
  <2>3. k * (2 * B) < k * (2 * ((10 * n) * q) + 10 * n)
    <3> DEFINE l == 2 * B  r == 2 * ((10 * n) * q) + 10 * n
    <3>1. l \in Int /\ r \in Int /\ l < r
      BY <1>1, <1>5
    <3> HIDE DEF l, r
    <3>2. k * l < k * r
      BY <3>1, ProductGrows
    <3> QED BY <3>2 DEF l, r
  <2>4. n * (2 * ((10 * k) * p)) = 20 * (c * p) /\ n * (2 * A + 10 * k) = 2 * (n * A) + 10 * c
    BY <1>1, <1>4
  <2>5. k * (2 * B) = 2 * (k * B) /\ k * (2 * ((10 * n) * q) + 10 * n) = 20 * (c * q) + 10 * c
    BY <1>1, <1>5
  <2>6. n * A \in Int /\ k * B \in Int
    BY <1>1
  <2> HIDE DEF c
  <2>7. c * (q + 1) <= c * p /\ c * (q + 1) = c * q + c /\ c * p \in Int /\ c * q \in Int
    BY <1>4, <1>5, <1>6, <2>1, ProductGrows
  <2> QED BY <1>1, <2>1, <2>2, <2>3, <2>4, <2>5, <2>6, <2>7
<1>7. p <= q
  BY <1>4, <1>5, <1>6
<1> QED BY <1>3, <1>7

\* If every level is between two prices, so is the average.
LEMMA AverageIsBetween ==
  ASSUME NEW ls \in Ladders, NEW t \in Nat, t > 0, Depth(ls) > 0, NEW a \in Int, NEW b \in Int,
         \A i \in 1..Len(ls) : a <= ls[i].price /\ ls[i].price <= b
  PROVE  AveragePrice(Walk(ls, t)) \in Int /\ a <= AveragePrice(Walk(ls, t)) /\ AveragePrice(Walk(ls, t)) <= b
<1> DEFINE w == Walk(ls, t).notional  f == Walk(ls, t).filled
<1>1. w \in Nat /\ f \in Nat /\ f > 0
  <2>1. f = Lesser(t, Depth(ls)) /\ Depth(ls) \in Nat
    BY WalkFills, Depths
  <2> QED BY <2>1, NotionalIs DEF Lesser
<1>2. 10 * (f * a) <= w /\ w <= 10 * (f * b)
  BY PriceBounds
<1>3. AveragePrice(Walk(ls, t)) = HalfUp(w, 10 * f)
  BY DEF AveragePrice, Money
<1> HIDE DEF w, f
<1>4. 10 * f \in Nat /\ 10 * f > 0 /\ (10 * f) * a <= w /\ w <= (10 * f) * b
  BY <1>1, <1>2
<1>5. HalfUp(w, 10 * f) \in Int /\ a <= HalfUp(w, 10 * f) /\ HalfUp(w, 10 * f) <= b
  BY <1>1, <1>4, HalfUpIs, HalfUpAtMost, HalfUpAtLeast
<1> QED BY <1>3, <1>5

-----------------------------------------------------------------------------
(* The strategy's decisions.                                               *)

\* A ladder that may be quoted.
QuotedLadder(ls) ==
  /\ ls \in Ladders /\ Ascending(ls)
  /\ \A i \in 1..Len(ls) : 0 < ls[i].price /\ ls[i].price < One /\ ls[i].size > 0

Situated(s) ==
  /\ s.m \in QuotedMarkets /\ s.fair \in Estimates
  /\ QuotedLadder(s.book["yes"]) /\ QuotedLadder(s.book["no"])
  /\ OnLattice(s.m, s.book) /\ s.headroom \in Int

LEMMA BooksAre ==
  ASSUME NEW book \in QuotedBooks
  PROVE  QuotedLadder(book["yes"]) /\ QuotedLadder(book["no"])
<1> DEFINE Quotes == [price : 1..(One - 1), size : Nat \ {0}]
           WellQuoted == {ls \in Seq(Quotes) :
                        \A i, k \in DOMAIN ls : i < k => ls[i].price <= ls[k].price}
<1>1. book \in [yes : WellQuoted, no : WellQuoted]
  BY DEF QuotedBooks
<1>2. book["yes"] \in WellQuoted /\ book["no"] \in WellQuoted
  <2> HIDE DEF WellQuoted
  <2> QED BY <1>1
<1>3. ASSUME NEW ls \in WellQuoted PROVE QuotedLadder(ls)
  <2>1. ls \in Seq(Quotes) /\ \A i, k \in DOMAIN ls : i < k => ls[i].price <= ls[k].price
    OBVIOUS
  <2> HIDE DEF Quotes
  <2>2. DOMAIN ls = 1..Len(ls) /\ Len(ls) \in Nat /\ \A i \in 1..Len(ls) : ls[i] \in Quotes
    BY <2>1
  <2>3. \A q \in Quotes : q \in BookLevels /\ 0 < q.price /\ q.price < One /\ q.size > 0
    BY Units DEF Quotes, BookLevels
  <2>4. Quotes \subseteq BookLevels
    BY <2>3
  <2>5. ls \in Seq(BookLevels)
    BY <2>1, <2>2, <2>4
  <2> QED BY <2>1, <2>2, <2>3, <2>5 DEF QuotedLadder, Ladders, Ascending
<1> HIDE DEF WellQuoted
<1> QED BY <1>2, <1>3

LEMMA SituationsAre == \A s \in Situations : Situated(s)
<1> SUFFICES ASSUME NEW s \in Situations PROVE Situated(s)
  OBVIOUS
<1> DEFINE S == Seq(0..One)  R == SUBSET (0..One)
           T == [m : QuotedMarkets, book : QuotedBooks, fair : Estimates, source : S,
                 fresh : BOOLEAN, before : R, after : R, headroom : Int]
<1>1. Situations \subseteq {x \in T : OnLattice(x.m, x.book)}
  BY SourceLagAssumption DEF SourceLagAssumption
<1> HIDE DEF S, R
<1>2. s \in T /\ OnLattice(s.m, s.book)
  <2> HIDE DEF T
  <2> QED BY <1>1
<1>3. s.m \in QuotedMarkets /\ s.book \in QuotedBooks /\ s.fair \in Estimates /\ s.headroom \in Int
  BY <1>2
<1> QED BY <1>2, <1>3, BooksAre DEF Situated

LEMMA ReviewsAre == \A r \in Reviews : r.fair \in Estimates /\ r.book \in QuotedBooks
<1>1. Reviews \subseteq [fair : Estimates, book : QuotedBooks, fresh : BOOLEAN, held : Nat, left : Int]
  BY SourceLagAssumption DEF SourceLagAssumption
<1> QED BY <1>1

\* A price, where there is one, is of the lattice's inside.
LEMMA PricesAre ==
  ASSUME NEW book, NEW side \in {"yes", "no"}, QuotedLadder(book[side]), NEW n \in Nat, n > 0,
         NEW p \in PriceOf(book, side, n)
  PROVE  /\ book[side] # <<>> /\ p = AveragePrice(Walk(book[side], n))
         /\ p \in Nat /\ 0 < p /\ p < One
         /\ Depth(book[side]) \in Nat /\ Depth(book[side]) > 0
<1> DEFINE ls == book[side]
<1>1. ls # <<>> /\ p = AveragePrice(Walk(ls, n))
  BY DEF PriceOf, Asks
<1>2. ls \in Ladders /\ Sound(ls)
  BY DEF QuotedLadder, Sound, Kept
<1>3. Depth(ls) \in Nat /\ Depth(ls) > 0
  BY <1>1, <1>2, SomeDepth
<1>4. \A i \in 1..Len(ls) : 1 <= ls[i].price /\ ls[i].price <= One - 1
  BY <1>2, SizesAre, Units DEF QuotedLadder
<1>5. One - 1 \in Int /\ 1 \in Int
  BY Units
<1> HIDE DEF ls
<1>6. AveragePrice(Walk(ls, n)) \in Int /\ 1 <= AveragePrice(Walk(ls, n))
      /\ AveragePrice(Walk(ls, n)) <= One - 1
  BY <1>2, <1>3, <1>4, <1>5, AverageIsBetween
<1> QED BY <1>1, <1>3, <1>6, Units DEF ls

\* The side, the bound that gates it, and the probabilities of the interval.
LEMMA BoundIs ==
  ASSUME NEW f \in Estimates, NEW side \in {"yes", "no"}
  PROVE  /\ Conservative(f, side) \in Int
         /\ \A p \in {f.low, f.high} :
               Conservative(f, side) <= (IF side = "yes" THEN p ELSE One - p) /\ p \in Int
BY Units DEF Conservative, Estimates

\* What a touch is.
LEMMA TouchIs ==
  ASSUME NEW s, Situated(s), NEW side \in {"yes", "no"}, NEW t \in Touch(s, side)
  PROVE  /\ t.ask = s.book[side][1].price /\ t.bid = One - s.book[Other(side)][1].price
         /\ 1 \in 1..Len(s.book[side]) /\ 1 \in 1..Len(s.book[Other(side)])
         /\ t.ask \in Nat /\ 0 < t.ask /\ t.ask < One
         /\ t.bid \in Nat /\ 0 < t.bid /\ t.bid < One
<1>1. PICK b \in Bid(s.book, side), a \in Ask(s.book, side) : t = [bid |-> b, ask |-> a]
  BY DEF Touch
<1>2. \A x : \A p \in Ask(s.book, x) : 1 \in DOMAIN s.book[x] /\ p = s.book[x][1].price
  BY DEF Ask, Asks
<1>3. Other(side) \in {"yes", "no"}
  BY DEF Other
<1>4. \A x \in {"yes", "no"} : \A p \in Ask(s.book, x) :
        1 \in 1..Len(s.book[x]) /\ p = s.book[x][1].price /\ p \in Nat /\ 0 < p /\ p < One
  <2> SUFFICES ASSUME NEW x \in {"yes", "no"}, NEW p \in Ask(s.book, x)
               PROVE  1 \in 1..Len(s.book[x]) /\ p = s.book[x][1].price /\ p \in Nat /\ 0 < p /\ p < One
    OBVIOUS
  <2>1. QuotedLadder(s.book[x])
    BY DEF Situated
  <2>2. 1 \in DOMAIN s.book[x] /\ p = s.book[x][1].price
    BY <1>2
  <2>3. s.book[x] \in Ladders /\ 1 \in 1..Len(s.book[x])
    BY <2>1, <2>2, SizesAre DEF QuotedLadder
  <2>4. s.book[x][1].price \in Nat /\ 0 < s.book[x][1].price /\ s.book[x][1].price < One
    BY <2>1, <2>3, SizesAre DEF QuotedLadder
  <2> QED BY <2>2, <2>3, <2>4
<1>5. PICK p \in Ask(s.book, Other(side)) : b = One - p
  BY DEF Bid
<1>6. t.ask = a /\ t.bid = One - p
  BY <1>1, <1>5
<1>7. 1 \in 1..Len(s.book[side]) /\ a = s.book[side][1].price /\ a \in Nat /\ 0 < a /\ a < One
  BY <1>4
<1>8. /\ 1 \in 1..Len(s.book[Other(side)]) /\ p = s.book[Other(side)][1].price
      /\ p \in Nat /\ 0 < p /\ p < One
  BY <1>3, <1>4
<1>9. One - p \in Nat /\ 0 < One - p /\ One - p < One
  BY <1>8, Units
<1> QED BY <1>6, <1>7, <1>8, <1>9

\* A signal is of a situation that has a price.
LEMMA SignalHasPrice ==
  ASSUME NEW s, Score(s) # {}
  PROVE  Executable(s.fair, s.book) # {}
BY DEF Score, ScoreOf, Gap

\* Prices a tick apart.
LEMMA TicksApart ==
  ASSUME NEW t \in Nat, t > 0, NEW a \in Nat, NEW b \in Nat, NEW o \in Nat,
         a % t = 0, b % t = 0, o % t = 0, (o - b) + t < a
  PROVE  (o - b) + t <= a - t
<1> DEFINE x == a \div t  y == b \div t  z == o \div t
<1>1. /\ x \in Int /\ y \in Int /\ z \in Int
      /\ a = t * x /\ b = t * y /\ o = t * z
  OBVIOUS
<1> HIDE DEF x, y, z
<1>2. t * (z - y + 1) < t * x
  <2>1. t * (z - y + 1) = (o - b) + t
    BY <1>1
  <2> QED BY <1>1, <2>1
<1>3. z - y + 1 < x
  <2>1. z - y + 1 \in Int
    BY <1>1
  <2> QED BY <1>1, <1>2, <2>1, Cancels
<1>4. t * (z - y + 2) <= t * x
  <2>1. z - y + 2 \in Int /\ z - y + 2 <= x
    BY <1>1, <1>3
  <2> QED BY <1>1, <2>1, ProductGrows
<1>5. t * (z - y + 2) = (o - b) + t + t
  BY <1>1
<1> QED BY <1>1, <1>4, <1>5

LEMMA TakerCarries ==
  ASSUME NEW m \in QuotedMarkets, NEW c, NEW p, NEW q, NEW k, NEW n, Cheap(c, p, q, k, n),
         10 * (c - q) * n - TakerFee(m, n, q) >= 10 * MinEdge * n
  PROVE  10 * (c - p) * k > TakerFee(m, k, p)
<1>1. m.rate \in Nat /\ m.rate <= 100
  BY DEF QuotedMarkets
<1>2. CASE m.venue = "polymarket"
  BY <1>1, <1>2, PolymarketCarries DEF TakerFee
<1>3. CASE m.venue # "polymarket" /\ m.flat
  BY <1>1, <1>3, FlatCarries DEF TakerFee
<1>4. CASE m.venue # "polymarket" /\ ~m.flat
  BY <1>1, <1>4, KalshiCarries DEF TakerFee
<1> QED BY <1>2, <1>3, <1>4

LEMMA MakerCarries ==
  ASSUME NEW m \in QuotedMarkets, NEW c, NEW p, NEW k, NEW n, Cheap(c, p, p, k, n),
         10 * (c - p) * n - MakerFee(m, n, p) >= 10 * MinEdge * n
  PROVE  10 * (c - p) * k > MakerFee(m, k, p)
<1>1. m.maker \in Nat /\ m.maker <= 100
  BY DEF QuotedMarkets
<1>2. CASE m.venue = "kalshi"
  BY <1>1, <1>2, KalshiCarries DEF MakerFee
<1>3. CASE m.venue # "kalshi"
  <2>1. \A j : KalshiFee(j, p, 0) = 0
    BY DEF KalshiFee
  <2>2. MakerFee(m, n, p) = KalshiFee(n, p, 0) /\ MakerFee(m, k, p) = KalshiFee(k, p, 0)
    BY <1>3, <2>1 DEF MakerFee
  <2>3. 0 \in Nat /\ 0 <= 100
    OBVIOUS
  <2> QED BY <2>2, <2>3, KalshiCarries
<1> QED BY <1>2, <1>3

\* What an order bought gains.
Gains(s, side, n, price, fee) ==
  \A p \in {s.fair.low, s.fair.high} :
      Money * (IF side = "yes" THEN p ELSE One - p) * n > Money * price * n + fee

LEMMA GainsIf ==
  ASSUME NEW s, Situated(s), NEW side \in {"yes", "no"}, NEW n \in Nat, NEW price \in Nat,
         NEW fee \in Nat, 10 * (Conservative(s.fair, side) - price) * n > fee
  PROVE  Gains(s, side, n, price, fee)
<1> SUFFICES ASSUME NEW p \in {s.fair.low, s.fair.high}
             PROVE  Money * (IF side = "yes" THEN p ELSE One - p) * n > Money * price * n + fee
  BY DEF Gains
<1> DEFINE c == Conservative(s.fair, side)  w == IF side = "yes" THEN p ELSE One - p
<1>1. c \in Int /\ w \in Int /\ c <= w
  BY BoundIs, Units DEF Situated
<1> HIDE DEF c, w
<1>2. n * c <= n * w
  BY <1>1, ProductGrows
<1>3. /\ 10 * (c - price) * n = 10 * (n * c) - 10 * (n * price)
      /\ Money * w * n = 10 * (n * w) /\ Money * price * n = 10 * (n * price)
      /\ n * c \in Int /\ n * w \in Int /\ n * price \in Int
  BY <1>1 DEF Money
<1>4. 10 * (c - price) * n > fee
  BY DEF c
<1>5. Money * w * n > Money * price * n + fee
  BY <1>2, <1>3, <1>4
<1> QED BY <1>5 DEF w

LEMMA TakerPays ==
  ASSUME NEW s, Situated(s), NEW side \in {"yes", "no"}, Actionable(s, side),
         Liquidity(s, side) = "taker", NEW t \in Nat, t > 0
  PROVE  LET q == Walk(Asks(s.book, side), t) IN
         q.filled <= ResearchSize =>
            Gains(s, side, q.filled, AveragePrice(q), TakerFee(s.m, q.filled, AveragePrice(q)))
<1> DEFINE ls == s.book[side]  R == ResearchSize  D == Depth(ls)
           k == Lesser(t, D)  n == Lesser(R, D)
           P == AveragePrice(Walk(ls, n))  A == AveragePrice(Walk(ls, k))
           c == Conservative(s.fair, side)
<1> SUFFICES ASSUME Walk(ls, t).filled <= R
             PROVE  Gains(s, side, Walk(ls, t).filled, AveragePrice(Walk(ls, t)),
                          TakerFee(s.m, Walk(ls, t).filled, AveragePrice(Walk(ls, t))))
  BY DEF Asks
<1>1. R \in Nat /\ R > 0 /\ MinEdge \in Nat
  BY SourceLagAssumption DEF SourceLagAssumption
<1>2. QuotedLadder(ls) /\ ls \in Ladders /\ Ascending(ls)
  BY DEF Situated, QuotedLadder
<1>3. PICK p \in PriceOf(s.book, side, R) :
        LET e == LeftAfter(s.fair, side, p, TakerFee(s.m, Walk(ls, R).filled, p), Walk(ls, R).filled)
        IN  e >= Money * MinEdge * Walk(ls, R).filled
  BY DEF Actionable, EdgeOf, TakerEdge, Asks
<1>4. /\ ls # <<>> /\ p = AveragePrice(Walk(ls, R)) /\ p \in Nat /\ 0 < p /\ p < One
      /\ D \in Nat /\ D > 0
  BY <1>1, <1>2, PricesAre
<1>5. \A x \in Nat : Walk(ls, x).filled = Lesser(x, D) /\ Walk(ls, x) = Walk(ls, Lesser(x, D))
  <2> SUFFICES ASSUME NEW x \in Nat
               PROVE  Walk(ls, x).filled = Lesser(x, D) /\ Walk(ls, x) = Walk(ls, Lesser(x, D))
    OBVIOUS
  <2>1. Walk(ls, x).filled = Lesser(x, D)
    BY <1>2, WalkFills
  <2>2. CASE x <= D
    BY <2>1, <2>2 DEF Lesser
  <2>3. CASE ~(x <= D)
    <3>1. D <= x /\ D <= D /\ Lesser(x, D) = D
      BY <1>4, <2>3 DEF Lesser
    <3>2. Walk(ls, x) = Walk(ls, D)
      BY <1>2, <1>4, <3>1, AskingForMore
    <3> QED BY <2>1, <3>1, <3>2
  <2> QED BY <2>2, <2>3
<1>6. k \in Nat /\ 0 < k /\ n \in Nat /\ k <= n /\ n <= D
  <2>1. k <= R
    BY <1>5
  <2> HIDE DEF D
  <2> QED BY <1>1, <1>4, <2>1 DEF Lesser
<1>7. A <= P
  <2> HIDE DEF k, n
  <2> QED BY <1>2, <1>6, AverageGrows
<1>8. A \in Nat /\ 0 < A /\ A < One
  <2>1. AveragePrice(Walk(ls, k)) \in PriceOf(s.book, side, k)
    BY <1>4 DEF PriceOf, Asks
  <2> HIDE DEF ls, k
  <2> QED BY <1>2, <1>6, <2>1, PricesAre DEF ls
<1>9. c \in Int
  BY BoundIs DEF Situated
<1>10. p = P /\ Walk(ls, R).filled = n
  BY <1>1, <1>4, <1>5
<1>11. 10 * (c - P) * n - TakerFee(s.m, n, P) >= 10 * MinEdge * n
  <2>1. LeftAfter(s.fair, side, P, TakerFee(s.m, n, P), n) >= Money * MinEdge * n
    BY <1>3, <1>10
  <2>2. LeftAfter(s.fair, side, P, TakerFee(s.m, n, P), n) = Money * (c - P) * n - TakerFee(s.m, n, P)
    BY DEF LeftAfter
  <2>3. Money = 10
    BY DEF Money
  <2> HIDE DEF n, P, c
  <2> QED BY <2>1, <2>2, <2>3
<1>12. Walk(ls, t).filled = k /\ AveragePrice(Walk(ls, t)) = A
  BY <1>5
<1> HIDE DEF k, n, P, A, c, D
<1>13. Cheap(c, A, P, k, n)
  BY <1>4, <1>6, <1>7, <1>8, <1>9, <1>10 DEF Cheap
<1>14. s.m \in QuotedMarkets
  BY DEF Situated
<1>15. 10 * (c - A) * k > TakerFee(s.m, k, A)
  BY <1>11, <1>13, <1>14, TakerCarries
<1>16. TakerFee(s.m, k, A) \in Nat
  <2> DEFINE m == s.m
  <2>1. m.rate \in Nat /\ A \in Int /\ k \in Nat
    BY <1>6, <1>8, <1>14 DEF QuotedMarkets
  <2> HIDE DEF m
  <2>2. TakerFee(m, k, A) \in Nat
    BY <2>1, FeeIsNat
  <2> QED BY <2>2 DEF m
<1> HIDE DEF ls
<1>17. Gains(s, side, k, A, TakerFee(s.m, k, A))
  BY <1>6, <1>8, <1>15, <1>16, GainsIf DEF c
<1> QED BY <1>12, <1>17

\* Where an order may rest.
Rests(s, side, limit) ==
  \A t \in Touch(s, side) :
      limit = Proposed(s.m, t) /\ t.bid < limit /\ limit < t.ask

LEMMA MakerRests ==
  ASSUME NEW s, Situated(s), NEW side \in {"yes", "no"}, Liquidity(s, side) = "maker",
         NEW limit \in LimitOf(s, side)
  PROVE  Rests(s, side, limit) /\ limit \in Nat /\ 0 < limit /\ limit < One
<1>1. PICK u \in Touch(s, side) : u.bid + s.m.tick < u.ask /\ limit = u.bid + s.m.tick
  BY DEF LimitOf
<1>2. /\ u.ask = s.book[side][1].price /\ u.bid = One - s.book[Other(side)][1].price
      /\ 1 \in 1..Len(s.book[side]) /\ 1 \in 1..Len(s.book[Other(side)])
      /\ u.ask \in Nat /\ 0 < u.ask /\ u.ask < One
      /\ u.bid \in Nat /\ 0 < u.bid /\ u.bid < One
  BY TouchIs
<1> DEFINE k == s.m.tick  a == s.book[side][1].price  b == s.book[Other(side)][1].price
<1>3. k \in Nat /\ k > 0
  BY DEF Situated, QuotedMarkets
<1>4. a \in Nat /\ b \in Nat /\ a % k = 0 /\ b % k = 0 /\ One % k = 0
  <2>1. Other(side) \in {"yes", "no"}
    BY DEF Other
  <2>2. \A x \in {"yes", "no"} : s.book[x] \in Ladders /\ \A i \in DOMAIN s.book[x] :
          One % k = 0 /\ s.book[x][i].price % k = 0
    BY DEF Situated, OnLattice, QuotedLadder
  <2>3. \A x \in {"yes", "no"} : DOMAIN s.book[x] = 1..Len(s.book[x])
    BY <2>2, SizesAre
  <2>4. a % k = 0 /\ b % k = 0 /\ One % k = 0
    BY <1>2, <2>1, <2>2, <2>3
  <2>5. a \in Nat /\ b \in Nat
    BY <1>2, <2>1, <2>2, SizesAre
  <2> QED BY <2>4, <2>5
<1> HIDE DEF k, a, b
<1>5. (One - b) + k <= a - k
  <2>1. (One - b) + k < a
    BY <1>1, <1>2 DEF k, a, b
  <2> QED BY <1>3, <1>4, <2>1, TicksApart, Units
<1>6. limit = (One - b) + k /\ u.bid = One - b /\ u.ask = a
  BY <1>1, <1>2 DEF k, a, b
<1>7. ASSUME NEW t \in Touch(s, side)
      PROVE  limit = Proposed(s.m, t) /\ t.bid < limit /\ limit < t.ask
  <2>1. t.ask = a /\ t.bid = One - b
    BY TouchIs DEF a, b
  <2>2. Min({t.bid + k, t.ask - k}) = t.bid + k
    <3> DEFINE x == t.bid + k  y == t.ask - k
    <3>1. x \in Int /\ y \in Int /\ x <= y
      BY <1>3, <1>4, <1>5, <2>1, Units
    <3> HIDE DEF x, y
    <3>2. Min({x, y}) = x
      BY <3>1, MinOfTwo
    <3> QED BY <3>2 DEF x, y
  <2>3. t.ask - k > t.bid
    BY <1>3, <1>4, <1>5, <2>1, Units
  <2>4. Proposed(s.m, t) = t.bid + k
    BY <2>2, <2>3 DEF Proposed, k
  <2>5. k > 0 /\ k \in Int /\ t.bid \in Int /\ t.ask \in Int
    BY <1>3, <1>4, <2>1, Units
  <2>6. limit = t.bid + k /\ t.bid + k <= t.ask - k
    BY <1>5, <1>6, <2>1
  <2> DEFINE x == t.bid  y == t.ask
  <2>7. t.bid < t.bid + k /\ t.bid + k < t.ask
    <3> HIDE DEF x, y
    <3>1. x \in Int /\ y \in Int /\ x + k <= y - k
      BY <2>5, <2>6 DEF x, y
    <3>2. x < x + k /\ x + k < y
      BY <2>5, <3>1
    <3> QED BY <3>2 DEF x, y
  <2> QED BY <2>4, <2>6, <2>7
<1>8. limit \in Nat /\ 0 < limit /\ limit < One
  <2> DEFINE x == u.bid  y == u.ask
  <2>1. limit = x + k /\ x + k < y
    BY <1>1 DEF k
  <2>2. x \in Nat /\ 0 < x /\ y \in Nat /\ y < One
    BY <1>2
  <2> HIDE DEF x, y
  <2> QED BY <1>3, <2>1, <2>2, Units
<1> QED BY <1>7, <1>8 DEF Rests

LEMMA MakerPays ==
  ASSUME NEW s, Situated(s), NEW side \in {"yes", "no"}, Actionable(s, side),
         Liquidity(s, side) = "maker", NEW limit \in LimitOf(s, side),
         NEW k \in Nat, 0 < k, k <= ResearchSize
  PROVE  Gains(s, side, k, limit, MakerFee(s.m, k, limit))
<1> DEFINE R == ResearchSize  c == Conservative(s.fair, side)
<1>1. R \in Nat /\ R > 0 /\ MinEdge \in Nat
  BY SourceLagAssumption DEF SourceLagAssumption
<1>2. PICK t \in Touch(s, side) :
        LeftAfter(s.fair, side, Proposed(s.m, t), MakerFee(s.m, R, Proposed(s.m, t)), R)
            >= Money * MinEdge * R
  BY DEF Actionable, EdgeOf, MakerEdge
<1>3. Rests(s, side, limit) /\ limit \in Nat /\ 0 < limit /\ limit < One
  BY MakerRests
<1>4. Proposed(s.m, t) = limit
  BY <1>3 DEF Rests
<1>5. 10 * (c - limit) * R - MakerFee(s.m, R, limit) >= 10 * MinEdge * R
  BY <1>2, <1>4 DEF LeftAfter, Money
<1>6. c \in Int
  BY BoundIs DEF Situated
<1> HIDE DEF c, R
<1>7. Cheap(c, limit, limit, k, R)
  BY <1>1, <1>3, <1>6 DEF Cheap, R
<1>8. s.m \in QuotedMarkets
  BY DEF Situated
<1>9. 10 * (c - limit) * k > MakerFee(s.m, k, limit)
  BY <1>5, <1>7, <1>8, MakerCarries
<1>10. MakerFee(s.m, k, limit) \in Nat
  <2>1. s.m.maker \in Nat /\ limit \in Int
    BY <1>3, <1>8 DEF QuotedMarkets
  <2> DEFINE z == [s.m EXCEPT !.rate = s.m.maker]
  <2>2. z.rate = s.m.maker
    BY <1>8 DEF QuotedMarkets
  <2>3. KalshiFee(k, limit, z.rate) \in Nat
    BY <2>1, <2>2, FeeIsNat
  <2> QED BY <2>2, <2>3 DEF MakerFee
<1> QED BY <1>3, <1>9, <1>10, GainsIf DEF c

\* An order sized is a number of contracts.
LEMMA SizeIs ==
  ASSUME NEW s, Situated(s), NEW side \in {"yes", "no"}, Actionable(s, side)
  PROVE  SizePosition(s, side) \in Int
<1> DEFINE price == CHOOSE p \in Executable(s.fair, s.book) : TRUE
           held == DepthMoney(UpTo(Asks(s.book, side), Conservative(s.fair, side)))
           h == Min({Base, held \div ShareOf, s.headroom})
<1>1. price \in Nat /\ (0 < price)
  <2>1. Executable(s.fair, s.book) # {}
    BY SignalHasPrice DEF Actionable
  <2>2. price \in Executable(s.fair, s.book)
    BY <2>1
  <2> HIDE DEF price
  <2>3. PICK x \in {"yes", "no"} : price \in PriceOf(s.book, x, ResearchSize)
    BY <2>2 DEF Executable
  <2>4. QuotedLadder(s.book[x]) /\ ResearchSize \in Nat /\ ResearchSize > 0
    BY SourceLagAssumption DEF SourceLagAssumption, Situated
  <2> QED BY <2>3, <2>4, PricesAre
<1>2. held \in Int
  <2> DEFINE ls == s.book[side]  limit == Conservative(s.fair, side)
             K == {i \in DOMAIN ls : ls[i].price <= limit}
             up == At(ls, K)
  <2>1. ls \in Seq(BookLevels)
    BY DEF Situated, QuotedLadder, Ladders
  <2>2. Len(ls) \in Nat /\ K \in SUBSET (1..Len(ls)) /\ \A i \in K : ls[i] \in BookLevels
    <3> HIDE DEF ls, limit
    <3>1. Len(ls) \in Nat /\ DOMAIN ls = 1..Len(ls) /\ \A i \in 1..Len(ls) : ls[i] \in BookLevels
      BY <2>1
    <3> QED BY <3>1
  <2>3. held = DepthMoney(up)
    BY DEF UpTo, Asks
  <2> HIDE DEF ls, K
  <2>4. Picks(up, ls, K, BookLevels)
    BY <2>2, AtIsSeq
  <2> HIDE DEF up
  <2>5. up \in Ladders
    BY <2>4 DEF Picks, Ladders
  <2>6. Summable(Sizes(up), Len(up)) /\ Len(up) \in 0..Len(up) /\ Len(up) \in Nat
    BY <2>5, SizesAre
  <2>7. Summable(Worth(up, Sizes(up)), Len(up))
    BY <2>5, <2>6, WorthIs
  <2>8. Total(Worth(up, Sizes(up)), Len(up)) \in Int
    BY <2>6, <2>7, Totals
  <2> QED BY <2>3, <2>8 DEF DepthMoney
<1>3. SizePosition(s, side) = IF price <= 0 \/ price >= One \/ s.fair.high - s.fair.low > MaxWidth \/ h <= 0
                           THEN 0 ELSE h \div (Money * price)
  BY DEF SizePosition, Capacity
<1> HIDE DEF price, held
<1>4. h \in Int
  <2>1. Base \in Int /\ s.headroom \in Int /\ ShareOf \in Nat /\ ShareOf > 0
    BY SourceLagAssumption DEF SourceLagAssumption, Situated
  <2> DEFINE d == held \div ShareOf  x == s.headroom
  <2>2. d \in Int /\ x \in Int
    BY <1>2, <2>1, DivIs
  <2> HIDE DEF d, x
  <2>3. \E y \in {Base, d, x} : \A z \in {Base, d, x} : y <= z
    BY <2>1, <2>2
  <2>4. Min({Base, d, x}) \in {Base, d, x}
    BY <2>3 DEF Min
  <2> QED BY <2>1, <2>2, <2>4 DEF d, x
<1> HIDE DEF h
<1>5. h \div (Money * price) \in Int
  <2>1. Money * price \in Nat /\ Money * price > 0
    BY <1>1 DEF Money
  <2> HIDE DEF price
  <2> QED BY <1>4, <2>1, DivIs
<1> QED BY <1>3, <1>5

\* A position pays its way.
Pays(pos) == pos.n <= ResearchSize => Gains(pos.s, pos.side, pos.n, pos.price, pos.fee)

\* What becomes of a situation: an order that can pay, a position that does, and its review.
LagInv ==
  \/ lag.did \in {"none", "declined", "unsized", "no_room"}
  \/ \E s \in Situations : /\ lag = DecideOn(s) /\ lag.did \in {"taker", "maker"}
                           /\ lag.s = s /\ lag.side \in {"yes", "no"} /\ Actionable(s, lag.side)
                           /\ lag.did = Liquidity(s, lag.side)
                           /\ lag.n \in Nat /\ lag.n > 0
                           /\ lag.did = "maker" => lag.limit \in LimitOf(s, lag.side)
  \/ lag.did = "open" /\ Pays(lag)
  \/ \E pos, r : /\ lag = [did |-> "reviewed", pos |-> pos, r |-> r, trigger |-> ExitOf(pos, pos.s, r)]
                 /\ pos.did = "open" /\ Pays(pos) /\ r \in Reviews

LEMMA LagBegins == LagInit => LagInv
BY DEF LagInit, LagInv, NoDecision

LEMMA Decides ==
  ASSUME NEW s \in Situations, lag' = DecideOn(s)
  PROVE  LagInv'
<1> DEFINE side == SideFor(s.fair, s.book)  n == SizePosition(s, side)
<1>1. side \in {"yes", "no"}
  BY DEF SideFor
<1>2. DecideOn(s) = IF ~Actionable(s, side) THEN [did |-> "declined", s |-> s]
                    ELSE IF n < 1 THEN [did |-> "unsized", s |-> s]
                    ELSE IF LimitOf(s, side) = {} THEN [did |-> "no_room", s |-> s]
                    ELSE [did |-> Liquidity(s, side), s |-> s, side |-> side, n |-> n,
                          limit |-> CHOOSE p \in LimitOf(s, side) : TRUE]
  BY DEF DecideOn
<1> HIDE DEF side, n
<1>3. CASE ~Actionable(s, side) \/ n < 1 \/ LimitOf(s, side) = {}
  <2>1. DecideOn(s).did \in {"declined", "unsized", "no_room"}
    BY <1>2, <1>3
  <2> QED BY <2>1 DEF LagInv
<1>4. CASE Actionable(s, side) /\ ~(n < 1) /\ LimitOf(s, side) # {}
  <2>1. DecideOn(s) = [did |-> Liquidity(s, side), s |-> s, side |-> side, n |-> n,
                       limit |-> CHOOSE p \in LimitOf(s, side) : TRUE]
    BY <1>2, <1>4
  <2>2. Liquidity(s, side) \in {"taker", "maker"}
    BY DEF Liquidity
  <2>3. n \in Nat /\ n > 0
    <3>1. Situated(s)
      BY SituationsAre
    <3>2. n \in Int
      BY <1>1, <1>4, <3>1, SizeIs DEF n
    <3> QED BY <1>4, <3>2
  <2>4. (CHOOSE p \in LimitOf(s, side) : TRUE) \in LimitOf(s, side)
    BY <1>4
  <2> DEFINE l == CHOOSE p \in LimitOf(s, side) : TRUE
  <2> HIDE DEF l
  <2>5. lag' = [did |-> Liquidity(s, side), s |-> s, side |-> side, n |-> n, limit |-> l]
    BY <2>1 DEF l
  <2>6. l \in LimitOf(s, side)
    BY <2>4 DEF l
  <2>7. /\ lag'.s = s /\ lag'.side = side /\ lag'.n = n /\ lag'.did = Liquidity(s, side)
        /\ lag'.limit = l
    BY <2>5
  <2> QED BY <1>1, <1>4, <2>2, <2>3, <2>6, <2>7 DEF LagInv
<1> QED BY <1>3, <1>4

LEMMA Opens ==
  ASSUME LagInv, OpenLag
  PROVE  LagInv'
<1>1. PICK s \in Situations : /\ lag.did \in {"taker", "maker"}
                              /\ lag.s = s /\ lag.side \in {"yes", "no"} /\ Actionable(s, lag.side)
                              /\ lag.did = Liquidity(s, lag.side)
                              /\ lag.n \in Nat /\ lag.n > 0
                              /\ lag.did = "maker" => lag.limit \in LimitOf(s, lag.side)
  BY DEF LagInv, OpenLag
<1> DEFINE side == lag.side  q == Walk(Asks(s.book, side), lag.n)  A == AveragePrice(q)
<1>2. PICK n \in 1..lag.n :
        /\ lag.did = "taker" => n = q.filled
        /\ lag' = [did |-> "open", s |-> s, side |-> side, n |-> n,
                   price |-> IF lag.did = "taker" THEN A ELSE lag.limit,
                   fee |-> IF lag.did = "taker" THEN TakerFee(s.m, n, A)
                           ELSE MakerFee(s.m, n, lag.limit),
                   gap |-> CHOOSE g \in Gap(s.fair, s.book) : TRUE]
  BY <1>1 DEF OpenLag
<1>3. Situated(s) /\ n \in Nat /\ 0 < n
  BY <1>1, SituationsAre
<1>4. CASE lag.did = "taker"
  <2>1. q.filled <= ResearchSize =>
          Gains(s, side, q.filled, A, TakerFee(s.m, q.filled, A))
    BY <1>1, <1>3, <1>4, TakerPays
  <2>2. /\ lag'.did = "open" /\ lag'.s = s /\ lag'.side = side /\ lag'.n = q.filled
        /\ lag'.price = A /\ lag'.fee = TakerFee(s.m, q.filled, A)
    BY <1>2, <1>4
  <2> HIDE DEF q, A
  <2> QED BY <2>1, <2>2 DEF LagInv, Pays
<1>5. CASE lag.did = "maker"
  <2>1. n <= ResearchSize => Gains(s, side, n, lag.limit, MakerFee(s.m, n, lag.limit))
    BY <1>1, <1>3, <1>5, MakerPays
  <2>2. /\ lag'.did = "open" /\ lag'.s = s /\ lag'.side = side /\ lag'.n = n
        /\ lag'.price = lag.limit /\ lag'.fee = MakerFee(s.m, n, lag.limit)
    BY <1>2, <1>5
  <2> HIDE DEF q, A
  <2> QED BY <2>1, <2>2 DEF LagInv, Pays
<1> QED BY <1>1, <1>4, <1>5

LEMMA LagGoesOn == LagInv /\ [LagNext]_lagVars => LagInv'
<1> SUFFICES ASSUME LagInv, [LagNext]_lagVars PROVE LagInv'
  OBVIOUS
<1>1. CASE DecideLag
  BY <1>1, Decides DEF DecideLag
<1>2. CASE OpenLag
  BY <1>2, Opens
<1>3. CASE ReviewLag
  <2>1. lag.did = "open" /\ Pays(lag)
    BY <1>3 DEF LagInv, ReviewLag
  <2>2. PICK r \in Reviews :
          lag' = [did |-> "reviewed", pos |-> lag, r |-> r, trigger |-> ExitOf(lag, lag.s, r)]
    BY <1>3 DEF ReviewLag
  <2> QED BY <2>1, <2>2 DEF LagInv
<1>4. CASE HoldOn
  <2>1. PICK pos, r : /\ lag = [did |-> "reviewed", pos |-> pos, r |-> r,
                                trigger |-> ExitOf(pos, pos.s, r)]
                      /\ pos.did = "open" /\ Pays(pos)
    BY <1>4 DEF LagInv, HoldOn
  <2>2. lag' = pos
    BY <1>4, <2>1 DEF HoldOn
  <2> QED BY <2>1, <2>2 DEF LagInv
<1>5. CASE UNCHANGED lagVars
  BY <1>5 DEF LagInv, lagVars
<1> QED BY <1>1, <1>2, <1>3, <1>4, <1>5 DEF LagNext

LEMMA LagHolds == LagInv => SignalsAreHonest
<1> SUFFICES ASSUME LagInv PROVE SignalsAreHonest
  OBVIOUS
<1>1. OrdersPayTheirWay
  <2> SUFFICES ASSUME lag.did = "open", lag.n <= ResearchSize
               PROVE  \A p \in {lag.s.fair.low, lag.s.fair.high} :
                        Money * (IF lag.side = "yes" THEN p ELSE One - p) * lag.n
                          > Money * lag.price * lag.n + lag.fee
    BY DEF OrdersPayTheirWay
  <2>1. Pays(lag)
    BY DEF LagInv
  <2> QED BY <2>1 DEF Pays, Gains
<1>2. RestsWherePriced
  <2> SUFFICES ASSUME lag.did = "maker"
               PROVE  \A t \in Touch(lag.s, lag.side) :
                        lag.limit = Proposed(lag.s.m, t) /\ t.bid < lag.limit /\ lag.limit < t.ask
    BY DEF RestsWherePriced
  <2>1. PICK s \in Situations : /\ lag.s = s /\ lag.side \in {"yes", "no"}
                                /\ Liquidity(s, lag.side) = "maker" /\ lag.limit \in LimitOf(s, lag.side)
    BY DEF LagInv
  <2>2. Situated(s)
    BY SituationsAre
  <2>3. Rests(s, lag.side, lag.limit)
    BY <2>1, <2>2, MakerRests
  <2> QED BY <2>1, <2>3 DEF Rests
<1>3. WrongIsCalledWrong
  <2> SUFFICES ASSUME lag.did = "reviewed", lag.trigger # "signal_invalidated",
                      NEW g \in Gap(lag.r.fair, lag.r.book)
               PROVE  /\ lag.pos.gap > 0 => g >= -Invalidation
                      /\ lag.pos.gap < 0 => g <= Invalidation
    BY DEF WrongIsCalledWrong
  <2>1. PICK pos, r : /\ lag = [did |-> "reviewed", pos |-> pos, r |-> r,
                                trigger |-> ExitOf(pos, pos.s, r)]
                      /\ r \in Reviews
    BY DEF LagInv
  <2>2. lag.pos = pos /\ lag.r = r /\ lag.trigger = ExitOf(pos, pos.s, r)
    BY <2>1
  <2>3. ~Reversed(pos.gap, g)
    BY <2>2, Zenon DEF ExitOf
  <2>4. g \in Int /\ Invalidation \in Int
    <3>1. PICK p \in Executable(r.fair, r.book) : g = r.fair.mid - p
      BY <2>2 DEF Gap
    <3>2. r.fair \in Estimates /\ r.book \in QuotedBooks
      BY <2>1, ReviewsAre
    <3>3. PICK x \in {"yes", "no"} : p \in PriceOf(r.book, x, ResearchSize)
      BY DEF Executable
    <3>4. QuotedLadder(r.book[x])
      BY <3>2, BooksAre
    <3>5. ResearchSize \in Nat /\ ResearchSize > 0 /\ Invalidation \in Int
      BY SourceLagAssumption DEF SourceLagAssumption
    <3>6. p \in Nat
      BY <3>3, <3>4, <3>5, PricesAre
    <3>7. r.fair.mid \in Int
      BY <3>2, Units DEF Estimates
    <3> QED BY <3>1, <3>5, <3>6, <3>7
  <2> QED BY <2>2, <2>3, <2>4 DEF Reversed
<1> QED BY <1>1, <1>2, <1>3 DEF SignalsAreHonest

\* For every market, book and estimate the strategy may decide on: an order no larger than
\* the size its edge was computed for gains at every probability of the estimate's interval,
\* at the price and the fee it really pays and however little of it fills; a resting order
\* rests at the price its edge was computed for; a thesis that reversed is told as wrong
\* (alpha/strategy.py, alpha/simulator.py).
THEOREM SignalsHold == LagSpec => []SignalsAreHonest
BY LagBegins, LagGoesOn, LagHolds, PTL DEF LagSpec
-----------------------------------------------------------------------------
(* The guarantees of the scanners.                                         *)

\* Two or three legs, each with its market's fees and its asks.
Basket(legs) ==
  /\ Len(legs) \in {2, 3} /\ DOMAIN legs = 1..Len(legs)
  /\ \A i \in 1..Len(legs) : legs[i].m \in Markets /\ legs[i].levels \in Ladders

\* A bounded set of sizes has one whose result is the best.
LEMMA BestIs ==
  ASSUME NEW N \in Nat, NEW S \in SUBSET (1..N), S # {}, NEW g, \A k \in S : g[k] \in Int
  PROVE  \E n \in S : \A k \in S : g[k] <= g[n]
<1> DEFINE Below(i) == {k \in S : k <= i}
           T == {i \in 0..N : Below(i) = {} \/ \E n \in Below(i) : \A k \in Below(i) : g[k] <= g[n]}
<1>0. \A k \in S : k \in Int /\ 1 <= k /\ k <= N
  OBVIOUS
<1>1. 0 \in T
  <2>1. \A k \in S : ~(k <= 0)
    BY <1>0
  <2>2. Below(0) = {}
    BY <2>1
  <2> QED BY <2>2
<1>2. ASSUME NEW i \in 1..N, i - 1 \in T PROVE i \in T
  <2>1. CASE i \notin S
    <3>1. \A k \in S : k <= i <=> k <= i - 1
      BY <1>0, <2>1
    <3>2. Below(i) = Below(i - 1)
      BY <3>1
    <3>3. Below(i) = {} \/ \E n \in Below(i) : \A k \in Below(i) : g[k] <= g[n]
      BY <1>2, <3>2
    <3> QED BY <3>3
  <2>2. CASE i \in S
    <3>1. \A k \in Below(i) : k = i \/ k \in Below(i - 1)
      BY <1>0
    <3>2. CASE Below(i - 1) = {}
      <4>1. i \in Below(i) /\ \A k \in Below(i) : g[k] <= g[i]
        BY <2>2, <3>1, <3>2
      <4> QED BY <4>1
    <3>3. CASE Below(i - 1) # {}
      <4>1. PICK n \in Below(i - 1) : \A k \in Below(i - 1) : g[k] <= g[n]
        BY <1>2, <3>3
      <4>2. n \in Below(i) /\ i \in Below(i) /\ g[n] \in Int /\ g[i] \in Int
        BY <2>2
      <4>3. CASE g[i] <= g[n]
        BY <3>1, <4>1, <4>2, <4>3
      <4>4. CASE ~(g[i] <= g[n])
        <5>1. \A k \in Below(i) : g[k] \in Int
          OBVIOUS
        <5>2. \A k \in Below(i) : g[k] <= g[i]
          BY <3>1, <4>1, <4>2, <4>4, <5>1
        <5> QED BY <4>2, <5>2
      <4> QED BY <4>3, <4>4
    <3> QED BY <3>2, <3>3
  <2> QED BY <2>1, <2>2
<1>3. N \in T
  <2> HIDE DEF T
  <2> QED BY <1>1, <1>2, UpToBound
<1>4. \A k : k \in S <=> k \in Below(N)
  BY <1>0
<1>5. Below(N) = S
  BY <1>4
<1> QED BY <1>3, <1>5

\* The smallest and the largest of the best sizes are among the paying ones.
LEMMA SmallestIs ==
  ASSUME NEW N \in Nat, NEW net, DOMAIN net \in SUBSET (1..N), \A k \in DOMAIN net : net[k] \in Int
  PROVE  SmallestBest(net) # 0 =>
            SmallestBest(net) \in DOMAIN net /\ net[SmallestBest(net)] > 0
<1> DEFINE paying == {k \in DOMAIN net : net[k] > 0}
           best == {k \in paying : \A j \in paying : net[j] <= net[k]}
<1>1. SmallestBest(net) = IF paying = {} THEN 0 ELSE Min(best)
  BY DEF SmallestBest
<1>2. ASSUME paying # {} PROVE Min(best) \in paying
  <2>1. best # {} /\ best \subseteq Nat
    <3>1. paying \in SUBSET (1..N) /\ \A k \in paying : net[k] \in Int
      OBVIOUS
    <3>2. \E k \in paying : \A j \in paying : net[j] <= net[k]
      <4> HIDE DEF paying
      <4> QED BY <1>2, <3>1, BestIs
    <3> QED BY <3>1, <3>2
  <2>2. \E x \in best : \A y \in best : x <= y
    <3> HIDE DEF best
    <3> QED BY <2>1, LeastIs
  <2> HIDE DEF best
  <2>3. Min(best) \in best
    BY <2>2 DEF Min
  <2> USE DEF best
  <2> QED BY <2>3
<1> QED BY <1>1, <1>2

LEMMA LargestIsPaying ==
  ASSUME NEW N \in Nat, NEW net, DOMAIN net \in SUBSET (1..N), \A k \in DOMAIN net : net[k] \in Int
  PROVE  LargestBest(net) # 0 =>
            LargestBest(net) \in DOMAIN net /\ net[LargestBest(net)] > 0
<1> DEFINE paying == {k \in DOMAIN net : net[k] > 0}
           best == {k \in paying : \A j \in paying : net[j] <= net[k]}
<1>1. LargestBest(net) = IF paying = {} THEN 0 ELSE Max(best)
  BY DEF LargestBest
<1>2. ASSUME paying # {} PROVE Max(best) \in paying
  <2>1. best # {} /\ best \in SUBSET Nat /\ \A x \in best : x <= N
    <3>1. paying \in SUBSET (1..N) /\ \A k \in paying : net[k] \in Int
      OBVIOUS
    <3>2. \E k \in paying : \A j \in paying : net[j] <= net[k]
      <4> HIDE DEF paying
      <4> QED BY <1>2, <3>1, BestIs
    <3> QED BY <3>1, <3>2
  <2>2. Max(best) \in best
    <3> HIDE DEF best
    <3> QED BY <2>1, MaxIs
  <2> QED BY <2>2
<1> QED BY <1>1, <1>2

\* A sum over two or three values.
LEMMA SumsOfFew ==
  ASSUME NEW f, NEW n \in {2, 3}, Summable(f, n)
  PROVE  /\ n = 2 => Total(f, n) = f[1] + f[2]
         /\ n = 3 => Total(f, n) = f[1] + f[2] + f[3]
<1>1. /\ Total(f, 0) = 0
      /\ \A i \in 0..n : Total(f, i) \in Int
      /\ \A i \in 1..n : Total(f, i) = Total(f, i - 1) + f[i]
  BY Totals
<1>2. 1 \in 1..n /\ 2 \in 1..n /\ f[1] \in Int /\ f[2] \in Int
  BY DEF Summable
<1>3. Total(f, 1) = f[1] /\ Total(f, 2) = f[1] + f[2]
  <2>1. Total(f, 1) = Total(f, 1 - 1) + f[1] /\ Total(f, 2) = Total(f, 2 - 1) + f[2]
    BY <1>1, <1>2
  <2> QED BY <1>1, <1>2, <2>1
<1>4. n = 3 => Total(f, 3) = f[1] + f[2] + f[3]
  <2>1. n = 3 => 3 \in 1..n
    OBVIOUS
  <2>2. n = 3 => Total(f, 3) = Total(f, 3 - 1) + f[3]
    BY <1>1, <2>1
  <2> QED BY <1>3, <2>2
<1> QED BY <1>3, <1>4

\* The units of a basket are what its shallowest book holds.
LEMMA UnitsAre ==
  ASSUME NEW legs, Basket(legs)
  PROVE  /\ MaxUnits(legs) \in Nat
         /\ \A i \in 1..Len(legs) : /\ Depth(legs[i].levels) \in Nat
                                    /\ MaxUnits(legs) <= Depth(legs[i].levels)
<1> DEFINE D == {Depth(legs[i].levels) : i \in DOMAIN legs}
<1>1. \A i \in 1..Len(legs) : Depth(legs[i].levels) \in Nat
  BY Depths DEF Basket
<1>2. D \subseteq Nat /\ D # {} /\ \A i \in 1..Len(legs) : Depth(legs[i].levels) \in D
  <2>1. DOMAIN legs = 1..Len(legs) /\ 1 \in 1..Len(legs)
    BY DEF Basket
  <2> QED BY <1>1, <2>1
<1>3. legs # <<>>
  BY DEF Basket
<1>4. MaxUnits(legs) = Min(D)
  BY <1>3 DEF MaxUnits
<1>5. \E x \in D : \A y \in D : x <= y
  <2> HIDE DEF D
  <2> QED BY <1>2, LeastIs
<1>6. Min(D) \in D /\ \A y \in D : Min(D) <= y
  <2> HIDE DEF D
  <2> QED BY <1>5 DEF Min
<1> HIDE DEF D
<1> QED BY <1>1, <1>2, <1>4, <1>6

\* What each leg of a basket costs: its notional at the books' prices, its notional at
\* the rounded average, its fee and its pad.
Notionals(legs, n) == [i \in DOMAIN legs |-> Walk(legs[i].levels, n).notional]
Averages(legs, n) == [i \in DOMAIN legs |-> AveragePrice(Walk(legs[i].levels, n))]
RoundedNotionals(legs, n) == [i \in DOMAIN legs |-> Money * AveragePrice(Walk(legs[i].levels, n)) * n]
LegFees(legs, n) ==
  [i \in DOMAIN legs |-> TakerFee(legs[i].m, n, AveragePrice(Walk(legs[i].levels, n)))]
LegPads(legs, n) == [i \in DOMAIN legs |-> LatencyPad(legs[i].m, n)]
Transfers(legs) == [i \in DOMAIN legs |-> TransferOf(legs[i].m)]
Naturals(f, n) == \A i \in 1..n : f[i] \in Nat

LEMMA LegTerms ==
  ASSUME NEW legs, Basket(legs), NEW n \in Nat, n > 0, n <= MaxUnits(legs)
  PROVE  /\ Naturals(Notionals(legs, n), Len(legs)) /\ Naturals(Averages(legs, n), Len(legs))
         /\ Naturals(RoundedNotionals(legs, n), Len(legs)) /\ Naturals(LegFees(legs, n), Len(legs))
         /\ Naturals(LegPads(legs, n), Len(legs)) /\ Naturals(Transfers(legs), Len(legs))
         /\ \A i \in 1..Len(legs) :
               /\ Notionals(legs, n)[i] <= RoundedNotionals(legs, n)[i] + 5 * n
               /\ LegPads(legs, n)[i] = 10 * (legs[i].m.tick * SlippageTicks * n)
<1> SUFFICES ASSUME NEW i \in 1..Len(legs)
             PROVE  /\ Notionals(legs, n)[i] \in Nat /\ Averages(legs, n)[i] \in Nat
                    /\ RoundedNotionals(legs, n)[i] \in Nat /\ LegFees(legs, n)[i] \in Nat
                    /\ LegPads(legs, n)[i] \in Nat /\ Transfers(legs)[i] \in Nat
                    /\ Notionals(legs, n)[i] <= RoundedNotionals(legs, n)[i] + 5 * n
                    /\ LegPads(legs, n)[i] = 10 * (legs[i].m.tick * SlippageTicks * n)
  BY Zenon DEF Naturals
<1> DEFINE ls == legs[i].levels
           m == legs[i].m
           q == Walk(ls, n)
           p == AveragePrice(q)
<1>1. ls \in Ladders /\ m \in Markets /\ i \in DOMAIN legs
  BY DEF Basket
<1>2. m.rate \in Nat /\ m.tick \in Nat
  BY <1>1, ArbitrageAssumption DEF FeeMarkets
<1>3. /\ Notionals(legs, n)[i] = q.notional /\ Averages(legs, n)[i] = p
      /\ RoundedNotionals(legs, n)[i] = Money * p * n /\ LegFees(legs, n)[i] = TakerFee(m, n, p)
      /\ LegPads(legs, n)[i] = LatencyPad(m, n) /\ Transfers(legs)[i] = TransferOf(m)
  BY <1>1 DEF Notionals, Averages, RoundedNotionals, LegFees, LegPads, Transfers
<1>4. q.notional \in Nat /\ q.filled = n
  <2>1. Depth(ls) \in Nat /\ n <= Depth(ls)
    BY UnitsAre
  <2>2. q.filled = Lesser(n, Depth(ls)) /\ q.notional \in Nat
    <3> HIDE DEF ls
    <3> QED BY <1>1, WalkFills, NotionalIs
  <2> QED BY <2>1, <2>2 DEF Lesser
<1> HIDE DEF ls, m, q
<1>5. p \in Nat /\ q.notional <= 10 * (n * p) + 5 * n
  <2> DEFINE d == 10 * n
  <2>1. d \in Nat /\ d > 0 /\ p = HalfUp(q.notional, d)
    BY <1>4 DEF AveragePrice, Money
  <2> HIDE DEF d, p
  <2>2. p \in Nat
    BY <1>4, <2>1, HalfUpIsNat
  <2>3. 2 * q.notional < 2 * (d * p) + d
    <3>1. q.notional \in Int
      BY <1>4
    <3>2. 2 * q.notional < 2 * (d * HalfUp(q.notional, d)) + d
      BY <2>1, <3>1, HalfUpIs
    <3> QED BY <2>1, <3>2
  <2>4. d * p = 10 * (n * p) /\ n * p \in Nat
    BY <2>2, ProductIs DEF d
  <2> QED BY <1>4, <2>2, <2>3, <2>4 DEF d
<1> HIDE DEF p
<1>6. TakerFee(m, n, p) \in Nat
  <2>1. p \in Int
    BY <1>5
  <2> QED BY <1>2, <2>1, FeeIsNat
<1>7. Money * p * n = 10 * (n * p) /\ n * p \in Nat
  BY <1>5, ProductIs DEF Money
<1>8. /\ LatencyPad(m, n) = 10 * (m.tick * SlippageTicks * n)
      /\ m.tick * SlippageTicks * n \in Nat
  <2>1. SlippageTicks \in Nat
    BY PricingAssumption
  <2>2. m.tick * SlippageTicks \in Nat
    BY <1>2, <2>1, ProductIs
  <2>3. m.tick * SlippageTicks * n \in Nat
    BY <2>2, ProductIs
  <2> QED BY <1>2, <2>1, <2>3 DEF LatencyPad, Money
<1>9. TransferOf(m) \in Nat
  BY PricingAssumption DEF TransferOf
<1>10. LegPads(legs, n)[i] = 10 * (legs[i].m.tick * SlippageTicks * n)
  BY <1>3, <1>8 DEF m
<1>11. /\ Money * p * n \in Nat /\ LatencyPad(m, n) \in Nat
       /\ q.notional <= Money * p * n + 5 * n
  BY <1>5, <1>7, <1>8
<1> QED BY <1>3, <1>4, <1>5, <1>6, <1>9, <1>10, <1>11

\* The scanners' pads cover what a rounded average price can hide.
PadsCover == SlippageTicks >= 1 /\ \A m \in Markets : m.tick >= 1

\* The terms of a basket's cost.
LEMMA CostTerms ==
  ASSUME NEW legs, Basket(legs), NEW n \in Nat, n > 0, n <= MaxUnits(legs)
  PROVE  /\ NotionalOf(legs, n) \in Nat /\ RoundedNotionalOf(legs, n) \in Nat
         /\ FeesOf(legs, n) \in Nat /\ PadsOf(legs, n) \in Nat /\ TransfersOf(legs) \in Nat
         /\ CapitalOf(legs, n) \in Nat /\ TransferOf(legs[1].m) \in Nat
         /\ PadsCover => NotionalOf(legs, n) <= RoundedNotionalOf(legs, n) + PadsOf(legs, n)
<1> DEFINE len == Len(legs)
           avg == Total(Averages(legs, n), len)
<1>1. len \in Nat /\ 1 \in 1..len /\ DOMAIN legs = 1..len
  BY DEF Basket
<1>2. /\ Naturals(Notionals(legs, n), len) /\ Naturals(Averages(legs, n), len)
      /\ Naturals(RoundedNotionals(legs, n), len) /\ Naturals(LegFees(legs, n), len)
      /\ Naturals(LegPads(legs, n), len) /\ Naturals(Transfers(legs), len)
      /\ \A i \in 1..len : /\ Notionals(legs, n)[i] <= RoundedNotionals(legs, n)[i] + 5 * n
                           /\ LegPads(legs, n)[i] = 10 * (legs[i].m.tick * SlippageTicks * n)
  BY LegTerms
<1>3. /\ NotionalOf(legs, n) = Total(Notionals(legs, n), len)
      /\ RoundedNotionalOf(legs, n) = Total(RoundedNotionals(legs, n), len)
      /\ FeesOf(legs, n) = Total(LegFees(legs, n), len)
      /\ PadsOf(legs, n) = Total(LegPads(legs, n), len)
      /\ TransfersOf(legs) = Total(Transfers(legs), len)
      /\ CapitalOf(legs, n) = CapitalCost(avg, n)
      /\ TransferOf(legs[1].m) = Transfers(legs)[1]
  BY <1>1 DEF NotionalOf, RoundedNotionalOf, FeesOf, PadsOf, TransfersOf, CapitalOf, SumOver,
     Notionals, RoundedNotionals, LegFees, LegPads, Transfers, Averages
<1> HIDE DEF len, avg
<1>4. ASSUME NEW f, Naturals(f, len) PROVE Total(f, len) \in Nat /\ Summable(f, len)
  <2>1. Summable(f, len) /\ \A i \in 1..len : f[i] >= 0
    BY <1>4 DEF Summable, Naturals
  <2>2. \A i \in 0..len : Total(f, i) >= 0
    BY <1>1, <2>1, TotalIsPositive
  <2>3. \A i \in 0..len : Total(f, i) \in Int
    BY <1>1, <2>1, Totals
  <2> QED BY <1>1, <2>1, <2>2, <2>3
<1>5. avg \in Nat
  BY <1>2, <1>4 DEF avg
<1>6. CapitalCost(avg, n) \in Nat
  <2>1. Interest \in Nat
    BY PricingAssumption
  <2>2. avg * Money \in Nat
    BY <1>5 DEF Money
  <2>3. avg * Money * Interest \in Nat
    BY <2>1, <2>2, ProductIs
  <2>4. avg * Money * Interest * n \in Nat
    BY <2>3, ProductIs
  <2> DEFINE x == avg * Money * Interest * n
  <2>5. x \in Nat
    BY <2>4
  <2> HIDE DEF x
  <2>6. x \div 100 \in Nat
    BY <2>5
  <2> QED BY <2>6 DEF CapitalCost, x
<1>7. Transfers(legs)[1] \in Nat
  BY <1>1, <1>2 DEF Naturals
<1>8. PadsCover => NotionalOf(legs, n) <= RoundedNotionalOf(legs, n) + PadsOf(legs, n)
  <2> SUFFICES ASSUME PadsCover
               PROVE  Total(Notionals(legs, n), len)
                        <= Total(RoundedNotionals(legs, n), len) + Total(LegPads(legs, n), len)
    BY <1>3
  <2> DEFINE f == RoundedNotionals(legs, n)
             g == LegPads(legs, n)
             h == [i \in 1..len |-> f[i] + g[i]]
  <2>1. \A i \in 1..len : 5 * n <= g[i]
    <3> SUFFICES ASSUME NEW i \in 1..len PROVE 5 * n <= g[i]
      OBVIOUS
    <3> DEFINE t == legs[i].m.tick
    <3>1. legs[i].m \in Markets
      BY DEF Basket, len
    <3>2. t \in Nat /\ t >= 1 /\ SlippageTicks \in Nat /\ SlippageTicks >= 1
      BY <3>1, ArbitrageAssumption, PricingAssumption DEF FeeMarkets, PadsCover
    <3> HIDE DEF t
    <3>3. t * 1 <= t * SlippageTicks /\ t * SlippageTicks \in Nat
      BY <3>2, ProductGrows, ProductIs
    <3> DEFINE u == t * SlippageTicks
    <3>4. u \in Nat /\ 1 <= u
      BY <3>2, <3>3
    <3>5. g[i] = 10 * (u * n)
      BY <1>2 DEF t
    <3> HIDE DEF u, g
    <3>6. n * 1 <= n * u /\ n * u = u * n /\ n * u \in Nat
      BY <3>4, ProductGrows, ProductIs
    <3> QED BY <3>5, <3>6
  <2>2. /\ Summable(f, len) /\ Summable(g, len) /\ Summable(Notionals(legs, n), len)
        /\ \A i \in 1..len : f[i] \in Nat /\ g[i] \in Nat /\ Notionals(legs, n)[i] \in Nat
    BY <1>2, <1>4 DEF Naturals
  <2>3. \A i \in 1..len : h[i] = 1 * f[i] + g[i] /\ h[i] \in Int /\ Notionals(legs, n)[i] <= h[i]
    <3> SUFFICES ASSUME NEW i \in 1..len
                 PROVE  h[i] = 1 * f[i] + g[i] /\ h[i] \in Int /\ Notionals(legs, n)[i] <= h[i]
      OBVIOUS
    <3>1. f[i] \in Nat /\ g[i] \in Nat /\ Notionals(legs, n)[i] \in Nat /\ h[i] = f[i] + g[i]
      BY <2>2
    <3>2. 5 * n <= g[i] /\ Notionals(legs, n)[i] <= f[i] + 5 * n
      BY <1>2, <2>1
    <3> HIDE DEF f, g, h
    <3> QED BY <3>1, <3>2
  <2> HIDE DEF f, g, h
  <2>4. Summable(h, len)
    BY <2>3 DEF Summable
  <2>5. Total(h, len) = 1 * Total(f, len) + Total(g, len)
    BY <1>1, <2>2, <2>3, <2>4, TotalIsLinear
  <2>6. Total(Notionals(legs, n), len) <= Total(h, len)
    <3>1. \A i \in 0..len : Total(Notionals(legs, n), i) <= Total(h, i)
      BY <1>1, <2>2, <2>3, <2>4, TotalGrows
    <3> QED BY <1>1, <3>1
  <2>7. Total(f, len) \in Nat /\ Total(g, len) \in Nat
    BY <1>2, <1>4 DEF f, g
  <2> QED BY <2>5, <2>6, <2>7 DEF f, g
<1> QED BY <1>2, <1>3, <1>4, <1>6, <1>7, <1>8

\* What leg i pays of a dollar when YES of its market pays v.
Pays1(legs, i, v) == IF legs[i].side = "yes" THEN v ELSE One - v
Resolutions(legs) == [DOMAIN legs -> {0, Half, One}]
Guaranteed(s) ==
  s.label = "EXECUTABLE" =>
      \A w \in {v \in Resolutions(s.legs) : Admits(s, v)} : s.sets * PayoffPerSet(s, w) > Paid(s)

LEMMA Halves == Half \in Nat /\ 2 * Half = One /\ One > 0 /\ One \in Nat /\ Half # 0 /\ Half # One
<1>1. One \in Nat /\ One > 0 /\ One % 100 = 0
  BY PricingAssumption
<1>2. One = 100 * (One \div 100) /\ One \div 100 \in Nat
  BY <1>1
<1>3. 2 * (One \div 2) = One /\ One \div 2 \in Nat
  BY <1>2
<1> QED BY <1>1, <1>3 DEF Half

LEMMA PayoffIs ==
  ASSUME NEW s, Basket(s.legs), NEW w \in Resolutions(s.legs)
  PROVE  LET pay(i) == Pays1(s.legs, i, w[i]) IN
         /\ \A i \in 1..Len(s.legs) : w[i] \in {0, Half, One} /\ pay(i) \in Nat
         /\ Len(w) = Len(s.legs) /\ DOMAIN w = 1..Len(s.legs)
         /\ Len(s.legs) = 2 => PayoffPerSet(s, w) = 10 * (pay(1) + pay(2))
         /\ Len(s.legs) = 3 => PayoffPerSet(s, w) = 10 * (pay(1) + pay(2) + pay(3))
<1> DEFINE pay(i) == Pays1(s.legs, i, w[i])
           len == Len(s.legs)
           f == [i \in DOMAIN w |-> IF s.legs[i].side = "yes" THEN w[i] ELSE One - w[i]]
<1>1. len \in {2, 3} /\ DOMAIN s.legs = 1..len
  BY DEF Basket
<1>2. DOMAIN w = 1..len /\ w \in [1..len -> {0, Half, One}]
  BY <1>1 DEF Resolutions
<1>3. Len(w) = len
  <2>1. w \in Seq({0, Half, One})
    BY <1>1, <1>2
  <2> QED BY <1>1, <1>2, <2>1
<1>4. \A i \in 1..len : w[i] \in {0, Half, One} /\ pay(i) \in Nat /\ f[i] = pay(i)
  <2> SUFFICES ASSUME NEW i \in 1..len PROVE w[i] \in {0, Half, One} /\ pay(i) \in Nat /\ f[i] = pay(i)
    OBVIOUS
  <2>1. w[i] \in {0, Half, One}
    BY <1>2
  <2>2. w[i] \in Nat /\ One - w[i] \in Nat
    BY <2>1, Halves
  <2> QED BY <1>2, <2>1, <2>2 DEF Pays1
<1>5. PayoffPerSet(s, w) = 10 * Total(f, len)
  BY <1>3 DEF PayoffPerSet, Money
<1> HIDE DEF len, f, pay
<1>6. Summable(f, len)
  BY <1>4 DEF Summable
<1>7. /\ len = 2 => Total(f, len) = f[1] + f[2]
      /\ len = 3 => Total(f, len) = f[1] + f[2] + f[3]
  BY <1>1, <1>6, SumsOfFew
<1>8. /\ len = 2 => Total(f, len) = pay(1) + pay(2)
      /\ len = 3 => Total(f, len) = pay(1) + pay(2) + pay(3)
  BY <1>1, <1>4, <1>7
<1> QED BY <1>2, <1>3, <1>4, <1>5, <1>8 DEF len, pay

\* What a net result above zero comes to in every resolution.
LEMMA PaysIf ==
  ASSUME NEW n \in Nat, NEW least \in Nat, NEW pay \in Int, Dollar * least <= pay,
         NEW paid \in Int, NEW cost \in Int, paid <= cost, Dollar * n * least - cost > 0
  PROVE  n * pay > paid
<1>1. Dollar \in Nat /\ Dollar * least \in Nat
  BY Units, ProductIs DEF Dollar, Money
<1> DEFINE d == Dollar * least
<1>2. d \in Nat /\ d <= pay
  BY <1>1
<1>3. Dollar * n * least = n * d
  BY <1>1
<1> HIDE DEF d
<1>4. n * d <= n * pay /\ n * d \in Nat /\ n * pay \in Int
  BY <1>2, ProductGrows, ProductIs
<1> QED BY <1>3, <1>4

LEMMA LabelIs ==
  ASSUME NEW base, NEW c, NEW money, FillLabel(base, c, money) = "EXECUTABLE"
  PROVE  base = "EXECUTABLE"
BY DEF FillLabel

LEMMA MatchedAre ==
  ASSUME NEW legs, Basket(legs)
  PROVE  MatchedSizes(legs) \in SUBSET (1..MaxUnits(legs))
BY DEF MatchedSizes

LEMMA BooksHaveLadders ==
  ASSUME NEW book \in Books, NEW side \in {"yes", "no"}
  PROVE  book[side] \in Ladders /\ book.yes \in Ladders /\ book.no \in Ladders
BY ArbitrageAssumption

\* The complete set: a net result above zero at a size the books can fill.
LEMMA CompleteSizePays ==
  ASSUME NEW legs, Basket(legs), CompleteSetSize(legs) # 0
  PROVE  LET n == CompleteSetSize(legs) IN
         /\ n \in Nat /\ NotionalOf(legs, n) + FeesOf(legs, n) \in Int
         /\ CompleteSetCost(legs, n) \in Int
         /\ NotionalOf(legs, n) + FeesOf(legs, n) <= CompleteSetCost(legs, n)
         /\ Dollar * n * 1 - CompleteSetCost(legs, n) > 0
<1> DEFINE n == CompleteSetSize(legs)
           net == [k \in MatchedSizes(legs) |-> CompleteSetNet(legs, k)]
           N == MaxUnits(legs)
<1>1. N \in Nat /\ DOMAIN net \in SUBSET (1..N) /\ MatchedSizes(legs) \in SUBSET (1..N)
  BY UnitsAre, MatchedAre
<1>2. ASSUME NEW k \in MatchedSizes(legs)
      PROVE  /\ k \in Nat /\ NotionalOf(legs, k) + FeesOf(legs, k) \in Int
             /\ CompleteSetCost(legs, k) \in Int
             /\ NotionalOf(legs, k) + FeesOf(legs, k) <= CompleteSetCost(legs, k)
             /\ CompleteSetNet(legs, k) \in Int
             /\ CompleteSetNet(legs, k) = Dollar * k * 1 - CompleteSetCost(legs, k)
  <2>1. k \in Nat /\ k > 0 /\ k <= MaxUnits(legs)
    BY <1>1
  <2>2. /\ NotionalOf(legs, k) \in Nat /\ FeesOf(legs, k) \in Nat /\ PadsOf(legs, k) \in Nat
        /\ CapitalOf(legs, k) \in Nat /\ TransferOf(legs[1].m) \in Nat
    BY <2>1, CostTerms
  <2>3. Dollar \in Nat /\ Dollar * k \in Nat
    BY <2>1, Units, ProductIs DEF Dollar, Money
  <2> QED BY <2>1, <2>2, <2>3 DEF CompleteSetCost, CompleteSetNet
<1>3. n = SmallestBest(net)
  BY DEF CompleteSetSize
<1>4. n \in MatchedSizes(legs) /\ CompleteSetNet(legs, n) > 0
  <2>1. DOMAIN net = MatchedSizes(legs) /\ \A k \in DOMAIN net : net[k] = CompleteSetNet(legs, k)
    OBVIOUS
  <2>2. \A k \in DOMAIN net : net[k] \in Int
    BY <1>2, <2>1
  <2> HIDE DEF net, n
  <2>3. n \in DOMAIN net /\ net[n] > 0
    BY <1>1, <1>3, <2>2, SmallestIs DEF n
  <2> QED BY <2>1, <2>3
<1> QED BY <1>2, <1>4

LEMMA CompleteSetGuaranteed ==
  ASSUME NEW m \in Markets, NEW book \in Books, NEW c, NEW s,
         LET legs == <<Leg(m, "yes", book.yes), Leg(m, "no", book.no)>>
             n == CompleteSetSize(legs)
         IN  s = [kind |-> "complete", legs |-> legs, sets |-> n,
                  label |-> IF n = 0 THEN "none"
                            ELSE FillLabel("EXECUTABLE", c, CompleteSetCost(legs, n))]
  PROVE  Guaranteed(s)
<1> DEFINE legs == <<Leg(m, "yes", book.yes), Leg(m, "no", book.no)>>
           n == CompleteSetSize(legs)
<1> SUFFICES ASSUME s.label = "EXECUTABLE", NEW w \in Resolutions(s.legs), Admits(s, w)
             PROVE  s.sets * PayoffPerSet(s, w) > Paid(s)
  BY DEF Guaranteed
<1>1. s.legs = legs /\ s.sets = n /\ s.kind = "complete" /\ n # 0
  OBVIOUS
<1>2. Basket(legs) /\ legs[1].side = "yes" /\ legs[2].side = "no" /\ Len(legs) = 2
  BY BooksHaveLadders DEF Basket, Leg
<1> HIDE DEF legs, n
<1>3. /\ n \in Nat /\ NotionalOf(legs, n) + FeesOf(legs, n) \in Int
      /\ CompleteSetCost(legs, n) \in Int
      /\ NotionalOf(legs, n) + FeesOf(legs, n) <= CompleteSetCost(legs, n)
      /\ Dollar * n * 1 - CompleteSetCost(legs, n) > 0
  BY <1>1, <1>2, CompleteSizePays DEF n
<1>4. PayoffPerSet(s, w) = 10 * One
  <2>1. /\ \A i \in 1..2 : w[i] \in {0, Half, One}
        /\ PayoffPerSet(s, w) = 10 * (Pays1(legs, 1, w[1]) + Pays1(legs, 2, w[2]))
    BY <1>1, <1>2, PayoffIs
  <2>2. w[1] = w[2]
    BY <1>1 DEF Admits
  <2> QED BY <1>2, <2>1, <2>2, Halves DEF Pays1
<1>5. n * PayoffPerSet(s, w) > NotionalOf(legs, n) + FeesOf(legs, n)
  <2>1. Dollar * 1 <= PayoffPerSet(s, w) /\ PayoffPerSet(s, w) \in Int
    BY <1>4, Halves DEF Dollar, Money
  <2> QED BY <1>3, <2>1, PaysIf
<1> QED BY <1>1, <1>5 DEF Paid

\* A basket of one leg per outcome: the size, the premise and the legs' payout.
LEMMA BasketSizePays ==
  ASSUME PadsCover, NEW legs, Basket(legs), BasketSize(legs) # 0, PayoutPerSet(legs) \in Nat
  PROVE  LET n == BasketSize(legs) IN
         /\ n \in Nat /\ NotionalOf(legs, n) + FeesOf(legs, n) \in Int
         /\ BasketCost(legs, n) \in Int
         /\ NotionalOf(legs, n) + FeesOf(legs, n) <= BasketCost(legs, n)
         /\ Dollar * n * PayoutPerSet(legs) - BasketCost(legs, n) > 0
<1> DEFINE n == BasketSize(legs)
           net == [k \in BasketSizes(legs) |-> BasketNet(legs, k)]
           N == MaxUnits(legs)
<1>0. N \in Nat
  BY UnitsAre
<1>1. BasketSizes(legs) \in SUBSET (1..N)
  <2>1. \A i \in 1..Len(legs) : \A k \in Boundaries(legs[i].levels) : k \in Nat
    BY Depths DEF Basket, Boundaries
  <2>2. DOMAIN legs = 1..Len(legs)
    BY DEF Basket
  <2>3. \A k \in BasketSizes(legs) : k \in Nat /\ 1 <= k /\ k <= N
    BY <1>0, <2>1, <2>2 DEF BasketSizes
  <2> QED BY <1>0, <2>3
<1>2. ASSUME NEW k \in BasketSizes(legs)
      PROVE  /\ k \in Nat /\ NotionalOf(legs, k) + FeesOf(legs, k) \in Int
             /\ BasketCost(legs, k) \in Int
             /\ NotionalOf(legs, k) + FeesOf(legs, k) <= BasketCost(legs, k)
             /\ BasketNet(legs, k) \in Int
             /\ BasketNet(legs, k) = Dollar * k * PayoutPerSet(legs) - BasketCost(legs, k)
  <2>1. k \in Nat /\ k > 0 /\ k <= MaxUnits(legs)
    BY <1>0, <1>1
  <2>2. /\ NotionalOf(legs, k) \in Nat /\ RoundedNotionalOf(legs, k) \in Nat
        /\ FeesOf(legs, k) \in Nat /\ PadsOf(legs, k) \in Nat /\ TransfersOf(legs) \in Nat
        /\ NotionalOf(legs, k) <= RoundedNotionalOf(legs, k) + PadsOf(legs, k)
    BY <2>1, CostTerms
  <2>3. Dollar \in Nat /\ Dollar * k \in Nat /\ Dollar * k * PayoutPerSet(legs) \in Nat
    <3>1. Dollar \in Nat
      BY Units DEF Dollar, Money
    <3>2. Dollar * k \in Nat
      BY <2>1, <3>1, ProductIs
    <3> QED BY <3>1, <3>2, ProductIs
  <2> QED BY <2>1, <2>2, <2>3 DEF BasketCost, BasketNet
<1>3. n = LargestBest(net)
  BY DEF BasketSize
<1>4. n \in BasketSizes(legs) /\ BasketNet(legs, n) > 0
  <2>1. DOMAIN net = BasketSizes(legs) /\ \A k \in DOMAIN net : net[k] = BasketNet(legs, k)
    OBVIOUS
  <2>2. \A k \in DOMAIN net : net[k] \in Int
    BY <1>2, <2>1
  <2> HIDE DEF net, n
  <2>3. n \in DOMAIN net /\ net[n] > 0
    BY <1>0, <1>1, <1>3, <2>1, <2>2, LargestIsPaying DEF n
  <2> QED BY <2>1, <2>3
<1> QED BY <1>2, <1>4

\* Two winners among the outcomes are one winner too many.
LEMMA OneWinner ==
  ASSUME NEW W, IsFiniteSet(W), Cardinality(W) <= 1, NEW a \in W, NEW b \in W
  PROVE  a = b
<1> SUFFICES ASSUME a # b PROVE FALSE
  OBVIOUS
<1>1. {a, b} \subseteq W
  OBVIOUS
<1>2. IsFiniteSet({a, b}) /\ Cardinality({a, b}) <= Cardinality(W)
  BY <1>1, FS_Subset
<1>3. Cardinality({a, b}) = 2
  <2>1. IsFiniteSet({a}) /\ Cardinality({a}) = 1
    BY FS_Singleton
  <2>2. Cardinality({a} \cup {b}) = Cardinality({a}) + 1
    BY <2>1, FS_AddElement
  <2>3. {a} \cup {b} = {a, b}
    OBVIOUS
  <2> QED BY <2>1, <2>2, <2>3
<1>4. Cardinality(W) \in Nat
  BY FS_CardinalityType
<1> QED BY <1>2, <1>3, <1>4

\* What the premise of a basket makes of its legs in every resolution.
LEMMA BasketPayoff ==
  ASSUME NEW s, Basket(s.legs), s.kind = "multi", CountAgrees(s.legs, s.outcomes),
         NEW side \in {"yes", "no"}, \A i \in 1..Len(s.legs) : s.legs[i].side = side,
         PremiseHolds(s.legs, s.ev), NEW w \in Resolutions(s.legs), Admits(s, w)
  PROVE  /\ PayoutPerSet(s.legs) \in Nat /\ PayoffPerSet(s, w) \in Int
         /\ Dollar * PayoutPerSet(s.legs) <= PayoffPerSet(s, w)
<1> DEFINE legs == s.legs
           len == Len(legs)
           p(i) == Pays1(legs, i, w[i])
<1>1. len \in {2, 3} /\ 1 \in 1..len /\ 2 \in 1..len /\ (len = 3 => 3 \in 1..len)
  <2>1. len \in {2, 3}
    BY DEF Basket
  <2> HIDE DEF len
  <2> QED BY <2>1
<1>2. /\ \A i \in 1..len : w[i] \in {0, Half, One} /\ p(i) \in Nat
      /\ Len(w) = len /\ DOMAIN w = 1..len
      /\ len = 2 => PayoffPerSet(s, w) = 10 * (p(1) + p(2))
      /\ len = 3 => PayoffPerSet(s, w) = 10 * (p(1) + p(2) + p(3))
  BY PayoffIs
<1>3. \A i \in 1..len : p(i) = IF side = "yes" THEN w[i] ELSE One - w[i]
  BY DEF Pays1
<1>4. legs[1].side = side /\ s.outcomes = len
  BY <1>1 DEF CountAgrees
<1>5. PayoutPerSet(legs) = (IF side = "yes" THEN 1 ELSE len - 1) /\ PayoutPerSet(legs) \in Nat
  BY <1>1, <1>4 DEF PayoutPerSet
<1>6. Dollar = 10 * One
  BY DEF Dollar, Money
<1>7. \/ ~s.ev.negativeRisk /\ \A i \in DOMAIN w : w[i] = Half
      \/ /\ \A i \in DOMAIN w : w[i] # Half
         /\ s.ev.exclusive => Cardinality(Winners(w)) <= 1
         /\ (s.ev.exhaustive \/ s.ev.negativeRisk) => Winners(w) # {}
  <2>1. ~(s.outcomes < Len(w)) /\ s.outcomes <= Len(w)
    BY <1>1, <1>2, <1>4
  <2>2. Winners(w) \ {} = Winners(w)
    OBVIOUS
  <2> QED BY <2>1, <2>2 DEF Admits
<1>8. PayoffPerSet(s, w) \in Int
  BY <1>1, <1>2
<1>9. CASE side = "yes"
  <2>1. s.ev.exhaustive \/ s.ev.negativeRisk
    BY <1>4, <1>9 DEF PremiseHolds
  <2>2. CASE \A i \in DOMAIN w : w[i] = Half
    <3>1. p(1) = Half /\ p(2) = Half
      BY <1>1, <1>2, <1>3, <1>9, <2>2
    <3>2. len = 3 => p(3) \in Nat
      BY <1>1, <1>2
    <3> HIDE DEF p, len
    <3> QED BY <1>1, <1>2, <1>5, <1>6, <1>8, <1>9, <3>1, <3>2, Halves
  <2>3. CASE Winners(w) # {}
    <3>1. PICK i \in DOMAIN w : w[i] = One
      BY <2>3 DEF Winners
    <3>2. i \in 1..len /\ p(i) = One
      BY <1>2, <1>3, <1>9, <3>1
    <3>3. p(1) \in Nat /\ p(2) \in Nat /\ (len = 3 => p(3) \in Nat)
      BY <1>1, <1>2
    <3>4. i = 1 \/ i = 2 \/ (len = 3 /\ i = 3)
      BY <1>1, <3>2
    <3>5. p(1) = One \/ p(2) = One \/ (len = 3 /\ p(3) = One)
      BY <3>2, <3>4
    <3> DEFINE a == p(1)
               b == p(2)
               d == p(3)
    <3>6. One <= (IF len = 2 THEN a + b ELSE a + b + d)
      <4>1. a \in Nat /\ b \in Nat /\ (len = 3 => d \in Nat)
        BY <3>3
      <4>2. a = One \/ b = One \/ (len = 3 /\ d = One)
        BY <3>5
      <4> HIDE DEF a, b, d, len
      <4> QED BY <1>1, <4>1, <4>2, Halves
    <3>7. PayoffPerSet(s, w) = 10 * (IF len = 2 THEN a + b ELSE a + b + d)
      BY <1>1, <1>2
    <3>8. PayoutPerSet(legs) = 1
      BY <1>5, <1>9
    <3> DEFINE t == IF len = 2 THEN a + b ELSE a + b + d
    <3>9. One <= t /\ PayoffPerSet(s, w) = 10 * t /\ t \in Int
      <4>1. a \in Nat /\ b \in Nat /\ (len = 3 => d \in Nat)
        BY <3>3
      <4>2. t \in Int
        <5> HIDE DEF a, b, d, len
        <5> QED BY <1>1, <4>1
      <4> QED BY <3>6, <3>7, <4>2
    <3> HIDE DEF t, legs
    <3>10. Dollar * PayoutPerSet(legs) <= 10 * t
      BY <1>6, <3>8, <3>9, Halves
    <3> QED BY <1>5, <1>8, <3>9, <3>10 DEF legs
  <2> QED BY <1>7, <2>1, <2>2, <2>3
<1>10. CASE side = "no"
  <2>1. s.ev.exclusive /\ (s.ev.negativeRisk \/ len = 2)
    BY <1>4, <1>10 DEF PremiseHolds
  <2>2. CASE ~s.ev.negativeRisk /\ \A i \in DOMAIN w : w[i] = Half
    <3>1. p(1) = One - Half /\ p(2) = One - Half /\ len = 2
      BY <1>1, <1>2, <1>3, <1>10, <2>1, <2>2
    <3> HIDE DEF p, len, legs
    <3>2. PayoutPerSet(legs) = 1
      BY <1>5, <1>10, <3>1
    <3>3. PayoffPerSet(s, w) = 10 * ((One - Half) + (One - Half))
      BY <1>2, <3>1
    <3>4. Dollar * 1 <= 10 * ((One - Half) + (One - Half))
      BY <1>6, Halves
    <3>5. Dollar * PayoutPerSet(legs) <= PayoffPerSet(s, w)
      BY <3>2, <3>3, <3>4
    <3> QED BY <1>5, <1>8, <3>5 DEF legs
  <2>3. CASE (\A i \in DOMAIN w : w[i] # Half) /\ Cardinality(Winners(w)) <= 1
    <3>1. IsFiniteSet(Winners(w))
      <4>1. IsFiniteSet(1..len)
        <5>1. len \in Int /\ 1 \in Int
          BY <1>1
        <5> HIDE DEF len
        <5> QED BY <5>1, FS_Interval
      <4>2. Winners(w) \subseteq 1..len
        BY <1>2 DEF Winners
      <4> QED BY <4>1, <4>2, FS_Subset
    <3>2. \A i, k \in 1..len : w[i] = One /\ w[k] = One => i = k
      <4> SUFFICES ASSUME NEW i \in 1..len, NEW k \in 1..len, w[i] = One, w[k] = One PROVE i = k
        OBVIOUS
      <4>1. i \in Winners(w) /\ k \in Winners(w)
        BY <1>2 DEF Winners
      <4> QED BY <2>3, <3>1, <4>1, OneWinner
    <3>3. \A i \in 1..len : p(i) = One - w[i] /\ w[i] \in {0, One}
      BY <1>2, <1>3, <1>10, <2>3
    <3>4. ~(w[1] = One /\ w[2] = One) /\ (len = 3 => ~(w[1] = One /\ w[3] = One) /\ ~(w[2] = One /\ w[3] = One))
      <4>1. 1 # 2 /\ 1 # 3 /\ 2 # 3
        OBVIOUS
      <4> QED BY <1>1, <3>2, <4>1
    <3>5. /\ p(1) = One - w[1] /\ w[1] \in {0, One} /\ p(2) = One - w[2] /\ w[2] \in {0, One}
          /\ len = 3 => p(3) = One - w[3] /\ w[3] \in {0, One}
      BY <1>1, <3>3
    <3> DEFINE a == w[1]  b == w[2]  d == w[3]
    <3>6. ASSUME len = 2 PROVE Dollar * PayoutPerSet(legs) <= PayoffPerSet(s, w)
      <4>1. PayoutPerSet(legs) = 1
        BY <1>5, <1>10, <3>6
      <4>2. PayoffPerSet(s, w) = 10 * ((One - a) + (One - b))
        BY <1>2, <3>5, <3>6
      <4>3. a \in {0, One} /\ b \in {0, One} /\ ~(a = One /\ b = One)
        BY <3>4, <3>5
      <4> HIDE DEF a, b, legs
      <4>4. Dollar * 1 <= 10 * ((One - a) + (One - b))
        BY <1>6, <4>3, Halves
      <4> QED BY <4>1, <4>2, <4>4
    <3>7. ASSUME len = 3 PROVE Dollar * PayoutPerSet(legs) <= PayoffPerSet(s, w)
      <4>1. PayoutPerSet(legs) = 2
        BY <1>5, <1>10, <3>7
      <4>2. PayoffPerSet(s, w) = 10 * ((One - a) + (One - b) + (One - d))
        BY <1>2, <3>5, <3>7
      <4>3. /\ a \in {0, One} /\ b \in {0, One} /\ d \in {0, One}
            /\ ~(a = One /\ b = One) /\ ~(a = One /\ d = One) /\ ~(b = One /\ d = One)
        BY <3>4, <3>5, <3>7
      <4> HIDE DEF a, b, d, legs
      <4>4. One + One <= (One - a) + (One - b) + (One - d)
        <5>1. One \in Int /\ One > 0
          BY Halves
        <5>2. CASE a = One
          <6>1. b = 0 /\ d = 0
            BY <4>3, <5>1, <5>2
          <6> QED BY <5>1, <5>2, <6>1
        <5>3. CASE b = One
          <6>1. a = 0 /\ d = 0
            BY <4>3, <5>1, <5>3
          <6> QED BY <5>1, <5>3, <6>1
        <5>4. CASE a = 0 /\ b = 0
          BY <4>3, <5>1, <5>4
        <5> QED BY <4>3, <5>2, <5>3, <5>4
      <4>5. Dollar * 2 <= 10 * ((One - a) + (One - b) + (One - d))
        <5> DEFINE t == (One - a) + (One - b) + (One - d)
        <5>1. One + One <= t /\ t \in Int /\ One \in Int
          BY <4>3, <4>4, Halves
        <5> HIDE DEF t
        <5>2. Dollar * 2 <= 10 * t
          BY <1>6, <5>1
        <5> QED BY <5>2 DEF t
      <4> QED BY <4>1, <4>2, <4>5
    <3>8. Dollar * PayoutPerSet(legs) <= PayoffPerSet(s, w)
      BY <1>1, <3>6, <3>7
    <3> HIDE DEF legs
    <3> QED BY <1>5, <1>8, <3>8 DEF legs
  <2> QED BY <1>7, <2>1, <2>2, <2>3
<1> QED BY <1>9, <1>10

LEMMA BetterBasketIs ==
  ASSUME NEW m \in Markets, NEW k \in {2, 3}, NEW quoting \in [1..k -> Books]
  PROVE  /\ Basket(BetterBasket(m, quoting)) /\ Len(BetterBasket(m, quoting)) = k
         /\ \E side \in {"yes", "no"} :
               \A i \in 1..k : BetterBasket(m, quoting)[i].side = side
<1> DEFINE long == [i \in DOMAIN quoting |-> Leg(m, "yes", quoting[i].yes)]
           short == [i \in DOMAIN quoting |-> Leg(m, "no", quoting[i].no)]
<1>1. DOMAIN quoting = 1..k /\ \A i \in 1..k : quoting[i] \in Books
  OBVIOUS
<1>2. \A i \in 1..k : quoting[i].yes \in Ladders /\ quoting[i].no \in Ladders
  BY <1>1, BooksHaveLadders
<1>3. /\ DOMAIN long = 1..k /\ DOMAIN short = 1..k
      /\ \A i \in 1..k : /\ long[i].m \in Markets /\ long[i].side = "yes" /\ long[i].levels \in Ladders
                         /\ short[i].m \in Markets /\ short[i].side = "no" /\ short[i].levels \in Ladders
  BY <1>1, <1>2 DEF Leg
<1>4. Len(long) = k /\ Len(short) = k
  <2> DEFINE L == {long[i] : i \in 1..k}
             S == {short[i] : i \in 1..k}
  <2>1. long \in [1..k -> L] /\ short \in [1..k -> S]
    BY <1>1
  <2> HIDE DEF long, short, L, S
  <2>2. k \in Nat
    OBVIOUS
  <2>3. long \in Seq(L) /\ short \in Seq(S)
    BY <2>1, <2>2
  <2> QED BY <1>3, <2>2, <2>3
<1>5. BetterBasket(m, quoting) = long \/ BetterBasket(m, quoting) = short
  BY DEF BetterBasket
<1> HIDE DEF long, short
<1> QED BY <1>3, <1>4, <1>5 DEF Basket

LEMMA MultiOutcomeGuaranteed ==
  ASSUME PadsCover, NEW m \in Markets, NEW k \in {2, 3}, NEW quoting \in [1..k -> Books],
         NEW ev, NEW outcomes, NEW c, NEW s,
         LET legs == BetterBasket(m, quoting)
             n == IF CountAgrees(legs, outcomes) THEN BasketSize(legs) ELSE 0
         IN  s = [kind |-> "multi", legs |-> legs, sets |-> n, ev |-> ev,
                  outcomes |-> outcomes, label |-> BasketLabel(legs, ev, n, c)]
  PROVE  Guaranteed(s)
<1> DEFINE legs == BetterBasket(m, quoting)
           n == IF CountAgrees(legs, outcomes) THEN BasketSize(legs) ELSE 0
<1> SUFFICES ASSUME s.label = "EXECUTABLE", NEW w \in Resolutions(s.legs), Admits(s, w)
             PROVE  s.sets * PayoffPerSet(s, w) > Paid(s)
  BY DEF Guaranteed
<1>1. /\ s.legs = legs /\ s.sets = n /\ s.kind = "multi" /\ s.ev = ev /\ s.outcomes = outcomes
      /\ BasketLabel(legs, ev, n, c) = "EXECUTABLE"
  OBVIOUS
<1>2. n # 0 /\ PremiseHolds(legs, ev)
  <2> HIDE DEF n, legs
  <2> QED BY <1>1 DEF BasketLabel
<1>3. n = BasketSize(legs) /\ CountAgrees(legs, outcomes)
  BY <1>2
<1>4. Basket(legs)
  BY BetterBasketIs
<1>5. PICK side \in {"yes", "no"} : \A i \in 1..Len(legs) : legs[i].side = side
  BY BetterBasketIs
<1> HIDE DEF legs, n
<1>6. /\ PayoutPerSet(legs) \in Nat /\ PayoffPerSet(s, w) \in Int
      /\ Dollar * PayoutPerSet(legs) <= PayoffPerSet(s, w)
  BY <1>1, <1>2, <1>3, <1>4, <1>5, BasketPayoff
<1>7. /\ n \in Nat /\ NotionalOf(legs, n) + FeesOf(legs, n) \in Int
      /\ BasketCost(legs, n) \in Int
      /\ NotionalOf(legs, n) + FeesOf(legs, n) <= BasketCost(legs, n)
      /\ Dollar * n * PayoutPerSet(legs) - BasketCost(legs, n) > 0
  BY <1>2, <1>3, <1>4, <1>6, BasketSizePays
<1>8. n * PayoffPerSet(s, w) > NotionalOf(legs, n) + FeesOf(legs, n)
  BY <1>6, <1>7, PaysIf
<1> QED BY <1>1, <1>8 DEF Paid

\* A pair across the venues.
LEMMA PairSizePays ==
  ASSUME NEW legs, Basket(legs), PairSize(legs) # 0
  PROVE  LET n == PairSize(legs) IN
         /\ n \in Nat /\ NotionalOf(legs, n) + FeesOf(legs, n) \in Int
         /\ PairCost(legs, n) \in Int
         /\ NotionalOf(legs, n) + FeesOf(legs, n) <= PairCost(legs, n)
         /\ Dollar * n * 1 - PairCost(legs, n) > 0
<1> DEFINE sizes == {BasketUnits(legs, k) : k \in MatchedSizes(legs)}
           net == [k \in sizes |-> PairNet(legs, k)]
           best == SmallestBest(net)
           n == PairSize(legs)
           N == MaxUnits(legs)
<1>0. N \in Nat /\ \A k \in MatchedSizes(legs) : k \in 1..N
  BY UnitsAre, MatchedAre
<1>1. sizes \in SUBSET (1..N)
  <2>1. \A k \in MatchedSizes(legs) : BasketUnits(legs, k) = k
    <3> SUFFICES ASSUME NEW k \in MatchedSizes(legs) PROVE BasketUnits(legs, k) = k
      OBVIOUS
    <3>1. k \in Int /\ k <= N /\ N \in Int
      BY <1>0
    <3> HIDE DEF N
    <3>2. Min({k, N}) = k
      BY <3>1, MinOfTwo
    <3> QED BY <3>2 DEF BasketUnits, N
  <2> QED BY <1>0, <2>1
<1>2. ASSUME NEW k \in sizes
      PROVE  /\ k \in Nat /\ NotionalOf(legs, k) + FeesOf(legs, k) \in Int
             /\ PairCost(legs, k) \in Int
             /\ NotionalOf(legs, k) + FeesOf(legs, k) <= PairCost(legs, k)
             /\ PairNet(legs, k) \in Int
             /\ PairNet(legs, k) = Dollar * k * 1 - PairCost(legs, k)
  <2>1. k \in Nat /\ k > 0 /\ k <= MaxUnits(legs)
    <3> HIDE DEF sizes
    <3> QED BY <1>0, <1>1
  <2>2. /\ NotionalOf(legs, k) \in Nat /\ FeesOf(legs, k) \in Nat /\ PadsOf(legs, k) \in Nat
        /\ CapitalOf(legs, k) \in Nat /\ TransfersOf(legs) \in Nat
    BY <2>1, CostTerms
  <2>3. Dollar \in Nat /\ Dollar * k \in Nat /\ ExecutionRisk * k \in Nat
    BY <2>1, Units, ProductIs, ArbitrageAssumption DEF Dollar, Money
  <2> QED BY <2>1, <2>2, <2>3 DEF PairCost, PairNet
<1>3. n = best
  BY DEF PairSize
<1>4. n \in sizes /\ PairNet(legs, n) > 0
  <2>1. DOMAIN net = sizes /\ \A k \in DOMAIN net : net[k] = PairNet(legs, k)
    OBVIOUS
  <2>2. \A k \in DOMAIN net : net[k] \in Int
    <3> HIDE DEF sizes
    <3> QED BY <1>2, <2>1
  <2> HIDE DEF net, n, sizes
  <2>3. n \in DOMAIN net /\ net[n] > 0
    BY <1>0, <1>1, <1>3, <2>1, <2>2, SmallestIs DEF n
  <2> QED BY <2>1, <2>3
<1> HIDE DEF sizes
<1> QED BY <1>2, <1>4

LEMMA BetterOrientationIs ==
  ASSUME NEW a \in [m : Markets, book : Books], NEW b \in [m : Markets, book : Books],
         NEW inverted \in BOOLEAN
  PROVE  LET legs == BetterOrientation(a, b, inverted) IN
         /\ Basket(legs) /\ Len(legs) = 2
         /\ legs[1].side \in {"yes", "no"} /\ legs[2].side = HedgingSide(legs[1].side, inverted)
<1> SUFFICES ASSUME NEW side \in {"yes", "no"}
             PROVE  LET legs == Orientation(a, b, side, inverted) IN
                    /\ Basket(legs) /\ Len(legs) = 2
                    /\ legs[1].side \in {"yes", "no"}
                    /\ legs[2].side = HedgingSide(legs[1].side, inverted)
  BY DEF BetterOrientation
<1>1. HedgingSide(side, inverted) \in {"yes", "no"}
  BY DEF HedgingSide, Flip
<1>2. a.m \in Markets /\ b.m \in Markets /\ a.book \in Books /\ b.book \in Books
  OBVIOUS
<1>3. a.book[side] \in Ladders /\ b.book[HedgingSide(side, inverted)] \in Ladders
  BY <1>1, <1>2, BooksHaveLadders
<1> QED BY <1>2, <1>3 DEF Orientation, Basket, Leg

LEMMA CrossPlatformGuaranteed ==
  ASSUME NEW a \in [m : Markets, book : Books], NEW b \in [m : Markets, book : Books],
         NEW inverted \in BOOLEAN, NEW verdict, NEW c, NEW s,
         LET legs == BetterOrientation(a, b, inverted)
             n == IF verdict = "REJECTED" THEN 0 ELSE PairSize(legs)
         IN  s = [kind |-> "cross", legs |-> legs, sets |-> n, inverted |-> inverted,
                  label |-> PairLabel(legs, verdict, n, c)]
  PROVE  Guaranteed(s)
<1> DEFINE legs == BetterOrientation(a, b, inverted)
           n == IF verdict = "REJECTED" THEN 0 ELSE PairSize(legs)
<1> SUFFICES ASSUME s.label = "EXECUTABLE", NEW w \in Resolutions(s.legs), Admits(s, w)
             PROVE  s.sets * PayoffPerSet(s, w) > Paid(s)
  BY DEF Guaranteed
<1>1. /\ s.legs = legs /\ s.sets = n /\ s.kind = "cross" /\ s.inverted = inverted
      /\ PairLabel(legs, verdict, n, c) = "EXECUTABLE"
  OBVIOUS
<1>2. n # 0
  <2> HIDE DEF n, legs
  <2> QED BY <1>1 DEF PairLabel
<1>3. n = PairSize(legs)
  BY <1>2
<1>4. /\ Basket(legs) /\ Len(legs) = 2
      /\ legs[1].side \in {"yes", "no"} /\ legs[2].side = HedgingSide(legs[1].side, inverted)
  BY BetterOrientationIs
<1> HIDE DEF legs, n
<1>5. PayoffPerSet(s, w) = 10 * One
  <2>1. /\ w[1] \in {0, Half, One} /\ w[2] \in {0, Half, One}
        /\ PayoffPerSet(s, w) = 10 * (Pays1(legs, 1, w[1]) + Pays1(legs, 2, w[2]))
    <3>1. /\ \A i \in 1..2 : w[i] \in {0, Half, One}
          /\ PayoffPerSet(s, w) = 10 * (Pays1(legs, 1, w[1]) + Pays1(legs, 2, w[2]))
      BY <1>1, <1>4, PayoffIs
    <3> QED BY <3>1
  <2>2. w[2] = IF inverted THEN One - w[1] ELSE w[1]
    BY <1>1 DEF Admits
  <2>3. legs[2].side = IF inverted THEN legs[1].side ELSE IF legs[1].side = "yes" THEN "no" ELSE "yes"
    BY <1>4 DEF HedgingSide, Flip
  <2> QED BY <1>4, <2>1, <2>2, <2>3, Halves DEF Pays1
<1>6. /\ n \in Nat /\ NotionalOf(legs, n) + FeesOf(legs, n) \in Int
      /\ PairCost(legs, n) \in Int
      /\ NotionalOf(legs, n) + FeesOf(legs, n) <= PairCost(legs, n)
      /\ Dollar * n * 1 - PairCost(legs, n) > 0
  BY <1>2, <1>3, <1>4, PairSizePays
<1>7. Dollar * 1 <= PayoffPerSet(s, w) /\ PayoffPerSet(s, w) \in Int
  BY <1>5, Halves DEF Dollar, Money
<1>8. n * PayoffPerSet(s, w) > NotionalOf(legs, n) + FeesOf(legs, n)
  BY <1>6, <1>7, PaysIf
<1> QED BY <1>1, <1>8 DEF Paid

\* A hedge of two neighbouring strikes.
LEMMA HedgeSizeIs ==
  ASSUME NEW legs, Basket(legs), HedgeSize(legs) # 0
  PROVE  HedgeSize(legs) \in 1..MaxUnits(legs)
<1> DEFINE cheap == {n \in 1..MaxUnits(legs) :
                       SumOver(legs, LAMBDA l : AveragePrice(Walk(l.levels, n))) < One}
           N == MaxUnits(legs)
<1>1. HedgeSize(legs) = Max(cheap) /\ cheap # {}
  BY DEF HedgeSize
<1>2. N \in Nat /\ cheap \in SUBSET (1..N)
  BY UnitsAre
<1>3. cheap \in SUBSET Nat /\ \A x \in cheap : x <= N
  <2>1. \A x \in cheap : x \in Nat /\ x <= N
    <3> HIDE DEF cheap, N
    <3> QED BY <1>2
  <2> QED BY <2>1
<1>4. Max(cheap) \in cheap
  <2> HIDE DEF cheap, N
  <2> QED BY <1>1, <1>2, <1>3, MaxIs
<1> HIDE DEF cheap
<1> QED BY <1>1, <1>2, <1>4

LEMMA MonotonicityGuaranteed ==
  ASSUME PadsCover, NEW m \in Markets, NEW weaker \in Books, NEW stronger \in Books, NEW c, NEW s,
         LET legs == <<Leg(m, "yes", weaker.yes), Leg(m, "no", stronger.no)>>
             n == HedgeSize(legs)
             cost == HedgeCost(legs, n)
             base == IF Dollar * n > cost THEN "EXECUTABLE" ELSE "LOGICAL_MISPRICING"
         IN  s = [kind |-> "logical", legs |-> legs, sets |-> n,
                  label |-> IF n = 0 THEN "LOGICAL_MISPRICING" ELSE FillLabel(base, c, cost)]
  PROVE  Guaranteed(s)
<1> DEFINE legs == <<Leg(m, "yes", weaker.yes), Leg(m, "no", stronger.no)>>
           n == HedgeSize(legs)
           cost == HedgeCost(legs, n)
           base == IF Dollar * n > cost THEN "EXECUTABLE" ELSE "LOGICAL_MISPRICING"
<1> SUFFICES ASSUME s.label = "EXECUTABLE", NEW w \in Resolutions(s.legs), Admits(s, w)
             PROVE  s.sets * PayoffPerSet(s, w) > Paid(s)
  BY DEF Guaranteed
<1>1. /\ s.legs = legs /\ s.sets = n /\ s.kind = "logical" /\ n # 0
      /\ FillLabel(base, c, cost) = "EXECUTABLE"
  OBVIOUS
<1>2. Basket(legs) /\ legs[1].side = "yes" /\ legs[2].side = "no" /\ Len(legs) = 2
  BY BooksHaveLadders DEF Basket, Leg
<1>3. Dollar * n > cost
  <2>1. base = "EXECUTABLE"
    <3> HIDE DEF base, cost
    <3> QED BY <1>1, LabelIs
  <2> QED BY <2>1
<1> HIDE DEF legs, n, cost, base
<1>4. n \in Nat /\ n > 0 /\ n <= MaxUnits(legs)
  <2>1. n \in 1..MaxUnits(legs) /\ MaxUnits(legs) \in Nat
    BY <1>1, <1>2, HedgeSizeIs, UnitsAre DEF n
  <2> QED BY <2>1
<1>5. /\ NotionalOf(legs, n) \in Nat /\ RoundedNotionalOf(legs, n) \in Nat
      /\ FeesOf(legs, n) \in Nat /\ PadsOf(legs, n) \in Nat
      /\ NotionalOf(legs, n) <= RoundedNotionalOf(legs, n) + PadsOf(legs, n)
  BY <1>2, <1>4, CostTerms
<1>6. /\ NotionalOf(legs, n) + FeesOf(legs, n) \in Int /\ cost \in Int
      /\ NotionalOf(legs, n) + FeesOf(legs, n) <= cost
  BY <1>5 DEF cost, HedgeCost
<1>7. Dollar * n * 1 - cost > 0
  <2>1. Dollar \in Nat /\ Dollar * n \in Nat
    BY <1>4, Units, ProductIs DEF Dollar, Money
  <2> QED BY <1>3, <1>6, <2>1
<1>8. Dollar * 1 <= PayoffPerSet(s, w) /\ PayoffPerSet(s, w) \in Int
  <2>1. /\ Pays1(legs, 1, w[1]) \in Nat /\ Pays1(legs, 2, w[2]) \in Nat
        /\ PayoffPerSet(s, w) = 10 * (Pays1(legs, 1, w[1]) + Pays1(legs, 2, w[2]))
    <3>1. /\ \A i \in 1..2 : Pays1(legs, i, w[i]) \in Nat
          /\ PayoffPerSet(s, w) = 10 * (Pays1(legs, 1, w[1]) + Pays1(legs, 2, w[2]))
      BY <1>1, <1>2, PayoffIs
    <3> QED BY <3>1
  <2>2. Pays1(legs, 1, w[1]) = w[1] /\ Pays1(legs, 2, w[2]) = One - w[2]
    BY <1>2 DEF Pays1
  <2>3. \/ w[1] = 0 /\ w[2] = 0
        \/ w[1] = One /\ w[2] = 0
        \/ w[1] = One /\ w[2] = One
        \/ w[1] = Half /\ w[2] = Half
    <3>1. w \in {<<0, 0>>, <<One, 0>>, <<One, One>>, <<Half, Half>>}
      BY <1>1 DEF Admits
    <3>2. w = <<0, 0>> \/ w = <<One, 0>> \/ w = <<One, One>> \/ w = <<Half, Half>>
      BY <3>1
    <3>3. \A x, y : w = <<x, y>> => w[1] = x /\ w[2] = y
      OBVIOUS
    <3>4. /\ w = <<0, 0>> => w[1] = 0 /\ w[2] = 0
          /\ w = <<One, 0>> => w[1] = One /\ w[2] = 0
          /\ w = <<One, One>> => w[1] = One /\ w[2] = One
          /\ w = <<Half, Half>> => w[1] = Half /\ w[2] = Half
      BY <3>3, Zenon
    <3> QED BY <3>2, <3>4, Zenon
  <2> QED BY <2>1, <2>2, <2>3, Halves DEF Dollar, Money
<1>9. n * PayoffPerSet(s, w) > NotionalOf(legs, n) + FeesOf(legs, n)
  BY <1>4, <1>6, <1>7, <1>8, PaysIf
<1> QED BY <1>1, <1>9 DEF Paid

LEMMA ScanBegins == ScanInit => GuaranteeHolds
BY DEF ScanInit, NoScan, GuaranteeHolds

LEMMA ScanGoesOn == PadsCover /\ GuaranteeHolds /\ [ScanNext]_scanVars => GuaranteeHolds'
<1> SUFFICES ASSUME PadsCover, GuaranteeHolds, [ScanNext]_scanVars PROVE GuaranteeHolds'
  OBVIOUS
<1>0. Guaranteed(scan') => GuaranteeHolds'
  BY DEF Guaranteed, GuaranteeHolds, Resolutions
<1>1. CASE ScanCompleteSet
  <2>1. Guaranteed(scan')
    BY <1>1, CompleteSetGuaranteed DEF ScanCompleteSet
  <2> QED BY <1>0, <2>1
<1>2. CASE ScanMultiOutcome
  <2>1. PICK m \in Markets, k \in {2, 3} : \E quoting \in [1..k -> Books] :
          \E legs \in {BetterBasket(m, quoting)} : \E size \in {BasketSize(legs)} :
          \E ev \in EventKinds, outcomes \in {k - 1, k, k + 1}, c \in Conditions :
            LET n == IF CountAgrees(legs, outcomes) THEN size ELSE 0 IN
            scan' = [kind |-> "multi", legs |-> legs, sets |-> n, ev |-> ev,
                     outcomes |-> outcomes, label |-> BasketLabel(legs, ev, n, c)]
    BY <1>2 DEF ScanMultiOutcome
  <2>2. PICK quoting \in [1..k -> Books] :
          \E ev \in EventKinds, outcomes \in {k - 1, k, k + 1}, c \in Conditions :
            LET legs == BetterBasket(m, quoting)
                n == IF CountAgrees(legs, outcomes) THEN BasketSize(legs) ELSE 0 IN
            scan' = [kind |-> "multi", legs |-> legs, sets |-> n, ev |-> ev,
                     outcomes |-> outcomes, label |-> BasketLabel(legs, ev, n, c)]
    BY <2>1
  <2>3. Guaranteed(scan')
    BY <2>2, MultiOutcomeGuaranteed
  <2> QED BY <1>0, <2>3
<1>3. CASE ScanCrossPlatform
  <2>1. Guaranteed(scan')
    BY <1>3, CrossPlatformGuaranteed DEF ScanCrossPlatform
  <2> QED BY <1>0, <2>1
<1>4. CASE ScanMonotonicity
  <2>1. PICK m \in Markets, weaker \in Books, stronger \in Books, c \in Conditions :
          LET legs == <<Leg(m, "yes", weaker.yes), Leg(m, "no", stronger.no)>>
              n == HedgeSize(legs)
              cost == HedgeCost(legs, n)
              base == IF Dollar * n > cost THEN "EXECUTABLE" ELSE "LOGICAL_MISPRICING"
          IN  scan' = [kind |-> "logical", legs |-> legs, sets |-> n,
                       label |-> IF n = 0 THEN "LOGICAL_MISPRICING" ELSE FillLabel(base, c, cost)]
    BY <1>4 DEF ScanMonotonicity
  <2>2. Guaranteed(scan')
    BY <2>1, MonotonicityGuaranteed
  <2> QED BY <1>0, <2>2
<1>5. CASE scan' = NoScan \/ ScanStaleQuote \/ AskCapacity
  <2>1. scan'.label # "EXECUTABLE"
    BY <1>5 DEF NoScan, ScanStaleQuote, AskCapacity
  <2> QED BY <1>0, <2>1 DEF Guaranteed
<1>6. CASE UNCHANGED scanVars
  BY <1>6 DEF scanVars, GuaranteeHolds, PayoffPerSet, Admits, Paid
<1> QED BY <1>1, <1>2, <1>3, <1>4, <1>5, <1>6 DEF ScanNext

\* No label EXECUTABLE without a payout above the price in every resolution
\* (scan_complete_set, _scan_basket, _scan_orientation, _build_logical_result), for all
\* books, fees and rounding units, as long as the slippage pad covers the rounding of the
\* average prices: at least one tick of at least one price step.
THEOREM GuaranteesHold ==
  ASSUME PadsCover PROVE ScanSpec => []GuaranteeHolds
<1>1. ScanInit => GuaranteeHolds
  BY ScanBegins
<1>2. GuaranteeHolds /\ [ScanNext]_scanVars => GuaranteeHolds'
  BY ScanGoesOn
<1> QED BY <1>1, <1>2, PTL DEF ScanSpec

-----------------------------------------------------------------------------
(* What an entry costs.                                                    *)

LEMMA CostLaddersAre ==
  ASSUME NEW ls \in CostLadders
  PROVE  QuotedLadder(ls)
<1> DEFINE Quotes == [price : 1..(One - 1), size : Nat \ {0}]
<1>1. ls \in Seq(Quotes) /\ \A i, k \in DOMAIN ls : i < k => ls[i].price <= ls[k].price
  BY DEF CostLadders
<1> HIDE DEF Quotes
<1>2. DOMAIN ls = 1..Len(ls) /\ Len(ls) \in Nat /\ \A i \in 1..Len(ls) : ls[i] \in Quotes
  BY <1>1
<1>3. \A q \in Quotes : q \in BookLevels /\ 0 < q.price /\ q.price < One /\ q.size > 0
  BY Units DEF Quotes, BookLevels
<1>4. Quotes \subseteq BookLevels
  BY <1>3
<1>5. ls \in Seq(BookLevels)
  BY <1>1, <1>2, <1>4
<1> QED BY <1>1, <1>2, <1>3, <1>5 DEF QuotedLadder, Ladders, Ascending

\* The interest on an average price, times the contracts, against that on the price
\* of the order.
LEMMA InterestAdds ==
  ASSUME NEW f \in Nat, f > 0, NEW n \in Nat, NEW a \in Int, NEW i \in Nat,
         2 * (f * a) <= 2 * n + 10 * f, 2 * n <= 2 * (f * a) + 10 * f
  PROVE  LET c == (a * i) \div 100
             d == (n * i) \div 100
             j == i \div 20
         IN  /\ c \in Int /\ d \in Int /\ j \in Nat
             /\ 100 * (f * c) <= 100 * d + 100 * (f * j) + 95 * f + 100
             /\ 100 * d <= 100 * (f * c) + 100 * (f * j) + 195 * f
<1> DEFINE c == (a * i) \div 100  d == (n * i) \div 100  j == i \div 20
           A == f * a
<1>1. a * i \in Int /\ n * i \in Int /\ A \in Int
  OBVIOUS
<1>2. c \in Int /\ 100 * c <= a * i /\ a * i < 100 * c + 100
  <2> DEFINE x == a * i
  <2>1. x \in Int
    OBVIOUS
  <2> HIDE DEF x
  <2>2. x \div 100 \in Int /\ 100 * (x \div 100) <= x /\ x < 100 * (x \div 100) + 100
    BY <2>1
  <2> QED BY <2>2 DEF x
<1>3. d \in Int /\ 100 * d <= n * i /\ n * i < 100 * d + 100
  <2> DEFINE x == n * i
  <2>1. x \in Int
    OBVIOUS
  <2> HIDE DEF x
  <2>2. x \div 100 \in Int /\ 100 * (x \div 100) <= x /\ x < 100 * (x \div 100) + 100
    BY <2>1
  <2> QED BY <2>2 DEF x
<1>4. j \in Nat /\ i <= 20 * j + 19
  OBVIOUS
<1> HIDE DEF c, d, j, A
<1>5. f * (100 * c) <= f * (a * i) /\ f * (a * i) <= f * (100 * c + 100)
  BY <1>1, <1>2, ProductGrows
<1>6. f * (a * i) = i * A /\ f * (100 * c) = 100 * (f * c) /\ f * (100 * c + 100) = 100 * (f * c) + 100 * f
  BY <1>1, <1>2 DEF A
<1>7. i * (2 * A) <= i * (2 * n + 10 * f) /\ i * (2 * n) <= i * (2 * A + 10 * f)
  BY <1>1, ProductGrows DEF A
<1>8. /\ i * (2 * A) = 2 * (i * A) /\ i * (2 * n + 10 * f) = 2 * (n * i) + 10 * (i * f)
      /\ i * (2 * n) = 2 * (n * i) /\ i * (2 * A + 10 * f) = 2 * (i * A) + 10 * (i * f)
  BY <1>1
<1>9. i * f <= 20 * (f * j) + 19 * f
  <2>1. f * i <= f * (20 * j + 19)
    BY <1>4, ProductGrows
  <2>2. f * (20 * j + 19) = 20 * (f * j) + 19 * f /\ f * i = i * f
    BY <1>4
  <2> QED BY <2>1, <2>2
<1>10. i * A \in Int /\ n * i \in Int /\ i * f \in Int /\ f * c \in Int /\ f * j \in Int
  BY <1>1, <1>2, <1>4
<1> DEFINE ia == i * A  ni == n * i  if == i * f  fc == f * c  fj == f * j
<1>11. /\ 100 * fc <= ia /\ ia <= 100 * fc + 100 * f
       /\ 2 * ia <= 2 * ni + 10 * if /\ 2 * ni <= 2 * ia + 10 * if
       /\ if <= 20 * fj + 19 * f /\ 100 * d <= ni /\ ni < 100 * d + 100
       /\ ia \in Int /\ ni \in Int /\ if \in Int /\ fc \in Int /\ fj \in Int
  BY <1>3, <1>5, <1>6, <1>7, <1>8, <1>9, <1>10
<1> HIDE DEF ia, ni, if, fc, fj
<1>12. 100 * fc <= 100 * d + 100 * fj + 95 * f + 100 /\ 100 * d <= 100 * fc + 100 * fj + 195 * f
  BY <1>3, <1>11
<1> QED BY <1>2, <1>3, <1>4, <1>12 DEF c, d, j, fc, fj

\* A total divided by a number of contracts and taken as often again.
LEMMA SharedOut ==
  ASSUME NEW x \in Nat, NEW f \in Nat, f > 0
  PROVE  /\ HalfUp(x, f) \in Int
         /\ 2 * (f * HalfUp(x, f)) <= 2 * x + f /\ 2 * x <= 2 * (f * HalfUp(x, f)) + f
<1>1. /\ HalfUp(x, f) \in Int
      /\ 2 * (f * HalfUp(x, f)) <= 2 * x + f /\ 2 * x < 2 * (f * HalfUp(x, f)) + f
  BY HalfUpIs
<1> DEFINE h == HalfUp(x, f)
<1> HIDE DEF h
<1>2. h \in Int => f * h \in Int
  OBVIOUS
<1> QED BY <1>1, <1>2 DEF h

\* What an order of f contracts costs each at a price, with its fee, its transfer and, if
\* it is told when the market resolves, its interest.
CostEach(price, fee, transfer, resolves, f) ==
  10 * price + HalfUp(fee, f) + HalfUp(transfer, f)
     + (IF resolves THEN ((10 * price) * Interest) \div 100 ELSE 0)

\* The cash an order at an average price comes to.
CashOf(notional, fee, transfer, resolves) ==
  notional + fee + transfer + (IF resolves THEN (notional * Interest) \div 100 ELSE 0)

\* One figure is within a slack of the other.
Near(a, b, slack) == a - b <= slack /\ b - a <= slack

\* What is told per contract, times the contracts, against the cash.
LEMMA OutlayAdds ==
  ASSUME NEW f \in Nat, f > 0, NEW n \in Nat, NEW p \in Nat,
         2 * (f * (10 * p)) <= 2 * n + 10 * f, 2 * n <= 2 * (f * (10 * p)) + 10 * f,
         NEW x \in Nat, NEW t \in Nat, NEW r
  PROVE  Near(CostEach(p, x, t, r, f) * f, CashOf(n, x, t, r), CostSlack(f))
<1> DEFINE a == 10 * p  h == HalfUp(x, f)  k == HalfUp(t, f)  j == Interest \div 20
           c == (a * Interest) \div 100  d == (n * Interest) \div 100
<1>1. Interest \in Nat /\ a \in Nat
  BY PricingAssumption DEF PricingAssumption
<1>2. /\ c \in Int /\ d \in Int /\ j \in Nat
      /\ 100 * (f * c) <= 100 * d + 100 * (f * j) + 95 * f + 100
      /\ 100 * d <= 100 * (f * c) + 100 * (f * j) + 195 * f
  <2> HIDE DEF a
  <2>1. 2 * (f * a) <= 2 * n + 10 * f /\ 2 * n <= 2 * (f * a) + 10 * f
    BY DEF a
  <2> QED BY <1>1, <2>1, InterestAdds
<1>3. /\ h \in Int /\ k \in Int
      /\ 2 * (f * h) <= 2 * x + f /\ 2 * x <= 2 * (f * h) + f
      /\ 2 * (f * k) <= 2 * t + f /\ 2 * t <= 2 * (f * k) + f
  BY SharedOut
<1>4. 2 * (f * a) <= 2 * n + 10 * f /\ 2 * n <= 2 * (f * a) + 10 * f
  OBVIOUS
<1>5. CostSlack(f) = 8 * f + f * j
  <2> HIDE DEF j
  <2>1. CostSlack(f) = f * (5 + j + 3)
    BY DEF CostSlack, Money, j
  <2> QED BY <1>2, <2>1
<1> HIDE DEF a, h, k, j, c, d
<1>6. CASE r
  <2>1. (a + h + k + c) * f = f * a + f * h + f * k + f * c
    BY <1>1, <1>2, <1>3
  <2>2. f * a \in Int /\ f * h \in Int /\ f * k \in Int /\ f * c \in Int /\ f * j \in Int
    BY <1>1, <1>2, <1>3
  <2> DEFINE fa == f * a  fh == f * h  fk == f * k  fc == f * c  fj == f * j
  <2> HIDE DEF fa, fh, fk, fc, fj
  <2>3. /\ (fa + fh + fk + fc) - (n + x + t + d) <= 8 * f + fj
        /\ (n + x + t + d) - (fa + fh + fk + fc) <= 8 * f + fj
    BY <1>2, <1>3, <1>4, <2>2 DEF fa, fh, fk, fc, fj
  <2> QED BY <1>5, <1>6, <2>1, <2>3 DEF Near, CashOf, CostEach, fa, fh, fk, fc, fj, a, h, k, c, d
<1>7. CASE ~r
  <2>1. (a + h + k + 0) * f = f * a + f * h + f * k
    BY <1>1, <1>3
  <2>2. f * a \in Int /\ f * h \in Int /\ f * k \in Int /\ f * j \in Nat
    BY <1>1, <1>2, <1>3, ProductIs
  <2> DEFINE fa == f * a  fh == f * h  fk == f * k  fj == f * j
  <2> HIDE DEF fa, fh, fk, fj
  <2>3. /\ (fa + fh + fk) - (n + x + t + 0) <= 8 * f + fj
        /\ (n + x + t + 0) - (fa + fh + fk) <= 8 * f + fj
    BY <1>3, <1>4, <2>2 DEF fa, fh, fk, fj
  <2> QED BY <1>5, <1>7, <2>1, <2>3 DEF Near, CashOf, CostEach, fa, fh, fk, fj, a, h, k
<1> QED BY <1>6, <1>7

\* What an order walked down a ladder fills, and the average it pays.
LEMMA FilledAtAverage ==
  ASSUME NEW ls, QuotedLadder(ls), ls # <<>>, NEW n \in Nat, n > 0
  PROVE  LET q == Walk(ls, n)
             p == AveragePrice(q)
         IN  /\ q.filled \in Nat /\ q.filled > 0 /\ q.filled <= n /\ q.notional \in Nat
             /\ p \in Nat /\ p < One /\ 0 < BestAsk(ls) /\ BestAsk(ls) \in Nat /\ BestAsk(ls) <= p
             /\ p = HalfUp(q.notional, 10 * q.filled)
             /\ 10 * (q.filled * BestAsk(ls)) <= q.notional
             /\ 2 * (q.filled * (10 * p)) <= 2 * q.notional + 10 * q.filled
             /\ 2 * q.notional <= 2 * (q.filled * (10 * p)) + 10 * q.filled
<1> DEFINE q == Walk(ls, n)  p == AveragePrice(q)  b == BestAsk(ls)
<1>1. /\ ls \in Ladders /\ Len(ls) \in Nat /\ Len(ls) > 0
      /\ \A i \in 1..Len(ls) : ls[i].price \in Nat /\ 0 < ls[i].price /\ ls[i].price <= One - 1
                               /\ ls[i].size \in Nat /\ ls[i].size > 0
      /\ Ascending(ls)
  <2>1. ls \in Ladders /\ Ascending(ls)
        /\ \A i \in 1..Len(ls) : 0 < ls[i].price /\ ls[i].price < One /\ ls[i].size > 0
    BY DEF QuotedLadder
  <2>2. Len(ls) > 0
    BY <2>1 DEF Ladders
  <2> QED BY <2>1, <2>2, SizesAre, Units
<1>2. b = ls[1].price /\ 1 \in 1..Len(ls)
  BY <1>1 DEF BestAsk, Ladders
<1>3. \A i \in 1..Len(ls) : b <= ls[i].price /\ ls[i].price <= One - 1
  BY <1>1, <1>2 DEF Ascending
<1>4. Depth(ls) \in Nat /\ Depth(ls) > 0
  <2>1. /\ \A i \in 0..Len(ls) : DepthTo(ls, i) \in Nat
        /\ \A i \in 1..Len(ls) : DepthTo(ls, i) = DepthTo(ls, i - 1) + ls[i].size
    BY <1>1, Depths
  <2>2. Len(ls) \in 1..Len(ls) /\ Len(ls) - 1 \in 0..Len(ls)
    BY <1>1
  <2> QED BY <1>1, <2>1, <2>2 DEF Depth
<1>5. q.filled = Lesser(n, Depth(ls)) /\ q.notional \in Nat
  BY <1>1, WalkFills, NotionalIs
<1>6. q.filled \in Nat /\ q.filled > 0 /\ q.filled <= n
  BY <1>4, <1>5 DEF Lesser
<1>7. b \in Int /\ One - 1 \in Int
  BY <1>1, <1>2, Units
<1>8. p \in Int /\ b <= p /\ p <= One - 1
  <2> HIDE DEF b
  <2> QED BY <1>1, <1>3, <1>4, <1>7, AverageIsBetween
<1>9. 10 * (q.filled * b) <= q.notional
  <2> HIDE DEF b
  <2> QED BY <1>1, <1>3, <1>7, PriceBounds
<1> DEFINE f == q.filled  w == q.notional
<1>10. p = HalfUp(w, 10 * f)
  BY DEF AveragePrice, Money
<1> HIDE DEF f, w, p, q, b
<1>11. 2 * (f * (10 * p)) <= 2 * w + 10 * f /\ 2 * w <= 2 * (f * (10 * p)) + 10 * f
  <2>1. w \in Int /\ 10 * f \in Nat /\ 10 * f > 0
    BY <1>5, <1>6 DEF f, w
  <2>2. 2 * ((10 * f) * p) <= 2 * w + 10 * f /\ 2 * w < 2 * ((10 * f) * p) + 10 * f
    BY <1>10, <2>1, HalfUpIs
  <2>3. (10 * f) * p = f * (10 * p) /\ (10 * f) * p \in Int
    BY <1>6, <1>8 DEF f
  <2> QED BY <2>1, <2>2, <2>3
<1>12. 0 < b /\ b \in Nat /\ p \in Nat /\ p < One
  BY <1>1, <1>2, <1>8, Units
<1> QED BY <1>5, <1>6, <1>8, <1>9, <1>10, <1>11, <1>12 DEF f, w, p, q, b

\* A contract that can be costed, and what is told of n of it.
Costed(c) ==
  /\ c.m \in CostMarkets /\ Costable(c)
  /\ c.levels = <<>> => \E a \in 1..One : c.summary = {a}
  /\ c.levels # <<>> => QuotedLadder(c.levels)

LEMMA ContractsAre ==
  ASSUME NEW c \in CostContracts, Costable(c)
  PROVE  Costed(c)
<1>1. /\ c.m \in CostMarkets /\ c.levels \in CostLadders
      /\ c.summary \in {{}} \cup {{a} : a \in 0..One}
  BY DEF CostContracts
<1>2. ASSUME c.levels = <<>> PROVE \E a \in 1..One : c.summary = {a}
  <2>1. PICK a \in c.summary : a > 0
    BY <1>2 DEF Costable
  <2>2. PICK b \in 0..One : c.summary = {b}
    BY <1>1, <2>1
  <2>3. b \in 1..One
    BY <2>1, <2>2, Units
  <2> QED BY <2>2, <2>3
<1> QED BY <1>1, <1>2, CostLaddersAre DEF Costed

\* A cost is told per contract, at a price, of what fills.
CostedAt(c, e, n, w, p) ==
  /\ n > 0 /\ e.filled \in Nat /\ e.filled > 0 /\ w \in Nat /\ p \in Nat /\ e.size = n
  /\ e.measured = CostEach(p, TakerFee(c.m, e.filled, p), TransferOf(c.m), c.m.resolves, e.filled)
  /\ p = HalfUp(w, 10 * e.filled)
  /\ 2 * (e.filled * (10 * p)) <= 2 * w + 10 * e.filled
  /\ 2 * w <= 2 * (e.filled * (10 * p)) + 10 * e.filled
  /\ w = IF c.levels = <<>> THEN 10 * e.nominal * e.size ELSE Walk(c.levels, e.size).notional

\* A stack of costs, by its parts.
StackOf(e, m, asked, filled, full, nominal, price) ==
  /\ e.size = asked /\ e.filled = filled /\ e.full = full /\ e.nominal = nominal
  /\ e.measured = CostEach(price, TakerFee(m, filled, price), TransferOf(m), m.resolves, filled)

LEMMA StackIs ==
  ASSUME NEW m, NEW asked, NEW filled, NEW full, NEW nominal, NEW price \in Int, NEW depth
  PROVE  StackOf(Stack(m, asked, filled, full, nominal, price, depth),
                 m, asked, filled, full, nominal, price)
<1>1. Interest \in Nat
  BY PricingAssumption DEF PricingAssumption
<1>2. price * Money * Interest * 1 = (10 * price) * Interest
  BY <1>1 DEF Money
<1>3. CapitalEach(m, price) = IF m.resolves THEN ((10 * price) * Interest) \div 100 ELSE 0
  BY <1>2 DEF CapitalEach, CapitalCost
<1> QED BY <1>3 DEF Stack, StackOf, Amortised, CostEach, Money

LEMMA CostIs ==
  ASSUME NEW c, Costed(c), NEW n \in Nat, n > 0
  PROVE  \E w, p : CostedAt(c, CostOfSize(c, n), n, w, p)
<1> DEFINE e == CostOfSize(c, n)
<1>1. CASE c.levels # <<>>
  <2> DEFINE q == Walk(c.levels, n)  p == AveragePrice(q)
  <2>1. /\ q.filled \in Nat /\ q.filled > 0 /\ q.notional \in Nat /\ p \in Nat
        /\ p = HalfUp(q.notional, 10 * q.filled) /\ BestAsk(c.levels) \in Nat
        /\ 2 * (q.filled * (10 * p)) <= 2 * q.notional + 10 * q.filled
        /\ 2 * q.notional <= 2 * (q.filled * (10 * p)) + 10 * q.filled
    BY <1>1, FilledAtAverage DEF Costed
  <2>2. e = Stack(c.m, n, q.filled, q.filled = n, BestAsk(c.levels), p, {p - BestAsk(c.levels)})
    BY <1>1 DEF CostOfSize, BookCost
  <2> HIDE DEF p, q, e
  <2>3. /\ e.size = n /\ e.filled = q.filled
        /\ e.measured = CostEach(p, TakerFee(c.m, q.filled, p), TransferOf(c.m), c.m.resolves, q.filled)
    <3>1. StackOf(e, c.m, n, q.filled, q.filled = n, BestAsk(c.levels), p)
      BY <2>1, <2>2, StackIs
    <3> QED BY <3>1 DEF StackOf
  <2>4. q.notional = Walk(c.levels, e.size).notional
    BY <2>3 DEF q
  <2>5. CostedAt(c, e, n, q.notional, p)
    BY <1>1, <2>1, <2>3, <2>4 DEF CostedAt
  <2> QED BY <2>5 DEF e
<1>2. CASE c.levels = <<>>
  <2>1. PICK a \in 1..One : c.summary = {a}
    BY <1>2 DEF Costed
  <2>2. (CHOOSE x \in c.summary : TRUE) = a /\ a \in Nat /\ a > 0
    BY <2>1, Units
  <2>3. e = Stack(c.m, n, n, FALSE, a, a, {})
    BY <1>2, <2>2 DEF CostOfSize, SummaryCost
  <2> HIDE DEF e
  <2>4. /\ e.size = n /\ e.filled = n /\ e.nominal = a
        /\ e.measured = CostEach(a, TakerFee(c.m, n, a), TransferOf(c.m), c.m.resolves, n)
    <3> DEFINE no == FALSE
    <3>1. e = Stack(c.m, n, n, no, a, a, {}) /\ a \in Int
      BY <2>2, <2>3
    <3> HIDE DEF no
    <3>2. StackOf(e, c.m, n, n, no, a, a)
      BY <3>1, StackIs
    <3> QED BY <3>2 DEF StackOf
  <2> DEFINE w == 10 * a * n
  <2>5. w \in Nat /\ w = (10 * n) * a /\ n * (10 * a) = w /\ 10 * n \in Nat /\ 10 * n > 0
    BY <2>2
  <2>6. HalfUp(w, 10 * n) = a
    <3> HIDE DEF w
    <3> DEFINE k == 10 * n
    <3>1. w \in Int /\ k \in Nat /\ k > 0 /\ w <= k * a /\ k * a <= w /\ a \in Int
      BY <2>2, <2>5
    <3> HIDE DEF k
    <3>2. HalfUp(w, k) <= a
      BY <3>1, HalfUpAtMost
    <3>3. a <= HalfUp(w, k)
      BY <3>1, HalfUpAtLeast
    <3>4. HalfUp(w, k) \in Int
      BY <3>1, HalfUpIs
    <3> QED BY <3>1, <3>2, <3>3, <3>4 DEF k
  <2> HIDE DEF w
  <2>7. CostedAt(c, e, n, w, a)
    BY <1>2, <2>2, <2>4, <2>5, <2>6 DEF CostedAt, w
  <2> QED BY <2>7 DEF e
<1> QED BY <1>1, <1>2

\* The cost told per contract, times what fills, is the cash.
LEMMA CashIsTold ==
  ASSUME NEW c, Costed(c), NEW n \in Nat, n > 0
  PROVE  LET e == CostOfSize(c, n)
             out == e.measured * e.filled
             cash == CashFor(c, e)
         IN  out - cash <= CostSlack(e.filled) /\ cash - out <= CostSlack(e.filled)
<1> DEFINE e == CostOfSize(c, n)
<1>1. PICK w, p : CostedAt(c, e, n, w, p)
  BY CostIs
<1> HIDE DEF e
<1> DEFINE f == e.filled  x == TakerFee(c.m, f, p)  t == TransferOf(c.m)  r == c.m.resolves
<1>2. f \in Nat /\ f > 0 /\ w \in Nat /\ p \in Nat /\ p = HalfUp(w, 10 * f)
      /\ 2 * (f * (10 * p)) <= 2 * w + 10 * f /\ 2 * w <= 2 * (f * (10 * p)) + 10 * f
      /\ e.measured = CostEach(p, x, t, r, f)
  BY <1>1 DEF CostedAt
<1>3. x \in Nat
  <2>1. c.m \in CostMarkets
    BY DEF Costed
  <2>2. c.m.rate \in Nat
    BY <2>1 DEF CostMarkets
  <2>3. f \in Nat /\ p \in Int
    BY <1>2
  <2> DEFINE m == c.m
  <2> HIDE DEF f, m
  <2>4. TakerFee(m, f, p) \in Nat
    BY <2>2, <2>3, FeeIsNat DEF m
  <2> QED BY <2>4 DEF x, m
<1>4. t \in Nat
  BY PricingAssumption DEF TransferOf, PricingAssumption
<1>5. CashFor(c, e) = CashOf(w, x, t, r)
  <2>1. w = IF c.levels = <<>> THEN Money * e.nominal * e.size ELSE Walk(c.levels, e.size).notional
    BY <1>1 DEF CostedAt, Money
  <2>2. HalfUp(w, Money * e.filled) = p
    BY <1>2 DEF Money
  <2> QED BY <2>1, <2>2 DEF CashFor, CashOf
<1> HIDE DEF f, x, t, r
<1>6. Near(CostEach(p, x, t, r, f) * f, CashOf(w, x, t, r), CostSlack(f))
  BY <1>2, <1>3, <1>4, OutlayAdds
<1>7. Near(e.measured * f, CashFor(c, e), CostSlack(f))
  BY <1>2, <1>5, <1>6, Zenon
<1> QED BY <1>7 DEF Near, f, e

\* Rounding keeps the distance of whole steps.
LEMMA CeilDivShifts ==
  ASSUME NEW x \in Int, NEW y \in Int, NEW k \in Nat, k > 0, NEW d \in Int, x <= y + k * d
  PROVE  CeilDiv(x, k) <= CeilDiv(y, k) + d
<1> DEFINE a == CeilDiv(x, k)  b == CeilDiv(y, k)
<1>1. a \in Int /\ b \in Int /\ k * a < x + k /\ y <= k * b
  BY CeilDivIs
<1> HIDE DEF a, b
<1>2. ASSUME b + d + 1 <= a PROVE FALSE
  <2>1. k * (b + d + 1) <= k * a
    BY <1>1, <1>2, ProductGrows
  <2>2. k * (b + d + 1) = k * b + k * d + k /\ k * b \in Int /\ k * d \in Int /\ k * a \in Int
    BY <1>1
  <2> QED BY <1>1, <2>1, <2>2
<1> QED BY <1>1, <1>2 DEF a, b

LEMMA HalfUpShifts ==
  ASSUME NEW x \in Int, NEW y \in Int, NEW k \in Nat, k > 0, NEW d \in Int, x <= y + k * d
  PROVE  HalfUp(x, k) <= HalfUp(y, k) + d
<1> DEFINE a == HalfUp(x, k)  b == HalfUp(y, k)
<1>1. a \in Int /\ b \in Int /\ 2 * (k * a) <= 2 * x + k /\ 2 * y < 2 * (k * b) + k
  BY HalfUpIs
<1> HIDE DEF a, b
<1>2. ASSUME b + d + 1 <= a PROVE FALSE
  <2>1. k * (b + d + 1) <= k * a
    BY <1>1, <1>2, ProductGrows
  <2>2. k * (b + d + 1) = k * b + k * d + k /\ k * b \in Int /\ k * d \in Int /\ k * a \in Int
    BY <1>1
  <2> QED BY <1>1, <2>1, <2>2
<1> QED BY <1>1, <1>2 DEF a, b

\* A fee of at most half the price falls by no more than half of what the price rises by.
LEMMA FeeFallsSlowly ==
  ASSUME NEW rate \in 0..50, NEW n \in Nat, NEW b \in Nat, NEW p \in Nat, b <= p, p <= One,
         NEW d \in Nat, 5 * (n * (p - b)) <= Cent * d
  PROVE  LET x == rate * n * b * (One - b)
             y == rate * n * p * (One - p)
         IN  x \in Int /\ y \in Int /\ x <= y + (One * One) * d
<1> DEFINE g == b * (One - b)  h == p * (One - p)  v == p - b  k == rate * n
<1>1. One \in Nat /\ One = 10 * Cent /\ Cent \in Nat
  BY Units
<1>2. g \in Int /\ h \in Int /\ v \in Nat /\ k \in Nat /\ rate \in Nat
  BY <1>1, ProductIs
<1>3. g <= h + One * v
  BY <1>1, FeeCurve
<1> HIDE DEF g, h, v, k
<1>4. k * g <= k * (h + One * v) /\ k * (h + One * v) = k * h + One * (k * v)
  <2>1. h + One * v \in Int
    BY <1>1, <1>2
  <2>2. k * g <= k * (h + One * v)
    BY <1>2, <1>3, <2>1, ProductGrows
  <2>3. k * (h + One * v) = k * h + One * (k * v)
    BY <1>1, <1>2
  <2> QED BY <2>2, <2>3
<1>5. k * v <= One * d
  <2> DEFINE z == n * v
  <2>1. z \in Nat /\ k * v = z * rate
    BY <1>2, ProductIs DEF k
  <2>2. 5 * z <= Cent * d /\ Cent * d \in Nat
    BY <1>1, ProductIs DEF v
  <2> HIDE DEF z
  <2>3. z * rate <= z * 50
    BY <1>2, <2>1, ProductGrows
  <2>4. One * d = 10 * (Cent * d)
    BY <1>1
  <2> QED BY <2>1, <2>2, <2>3, <2>4
<1>6. One * (k * v) <= One * (One * d)
  <2>1. k * v \in Int /\ One * d \in Int
    BY <1>1, <1>2
  <2> QED BY <1>1, <1>5, <2>1, ProductGrows
<1>7. One * (One * d) = (One * One) * d
  BY <1>1
<1>8. k * g \in Int /\ k * h \in Int /\ One * (k * v) \in Int /\ (One * One) * d \in Int
  BY <1>1, <1>2
<1>9. k * g <= k * h + (One * One) * d
  BY <1>4, <1>6, <1>7, <1>8
<1>10. rate * n * b * (One - b) = k * g /\ rate * n * p * (One - p) = k * h
  <2>1. One - b \in Int /\ One - p \in Int
    BY <1>1
  <2> QED BY <1>2, <2>1 DEF k, g, h
<1> QED BY <1>8, <1>9, <1>10

\* The fee at the best price exceeds that at the average by no more than what the
\* average is above the best price, in whole cents.
LEMMA FeeAtTheBest ==
  ASSUME NEW m \in CostMarkets, NEW n \in Nat, n > 0, NEW b \in Nat, NEW p \in Nat,
         0 < b, b <= p, p < One, NEW d \in Nat, 5 * (n * (p - b)) <= Cent * d
  PROVE  TakerFee(m, n, b) <= TakerFee(m, n, p) + Cent * d
<1> DEFINE r == m.rate
           x == r * n * b * (One - b)  y == r * n * p * (One - p)
<1>1. One \in Nat /\ One > 0 /\ One = 10 * Cent /\ Cent \in Nat
  BY Units
<1>2. r \in 0..50 /\ m.venue \in {"kalshi", "polymarket"}
  BY DEF CostMarkets
<1> HIDE DEF r
<1>3. x \in Int /\ y \in Int /\ x <= y + (One * One) * d
  BY <1>1, <1>2, FeeFallsSlowly
<1> HIDE DEF x, y
<1>4. Cent * d \in Nat
  BY <1>1, ProductIs
<1>5. KalshiFee(n, b, r) <= KalshiFee(n, p, r) + Cent * d
  <2>1. CASE r <= 0
    <3>1. KalshiFee(n, b, r) = 0 /\ KalshiFee(n, p, r) = 0
      BY <2>1 DEF KalshiFee
    <3> QED BY <1>4, <3>1
  <2>2. CASE r > 0
    <3> DEFINE q == One * One  s == CeilDiv(x, q)  t == CeilDiv(y, q)
    <3>1. q \in Nat /\ q > 0
      BY <1>1
    <3> HIDE DEF q
    <3>2. s \in Int /\ t \in Int /\ s <= t + d
      <4>1. x <= y + q * d
        BY <1>3 DEF q
      <4> QED BY <1>3, <3>1, <4>1, CeilDivIs, CeilDivShifts
    <3> HIDE DEF s, t
    <3>3. Cent * s <= Cent * (t + d) /\ Cent * (t + d) = Cent * t + Cent * d
      BY <1>1, <3>2, ProductGrows
    <3>4. KalshiFee(n, b, r) = Cent * s /\ KalshiFee(n, p, r) = Cent * t
      <4>1. ~(n <= 0 \/ b <= 0 \/ b >= One \/ r <= 0) /\ ~(n <= 0 \/ p <= 0 \/ p >= One \/ r <= 0)
        BY <1>1, <1>2, <2>2
      <4> QED BY <4>1 DEF KalshiFee, s, t, q, x, y
    <3> QED BY <3>3, <3>4
  <2> QED BY <1>2, <2>1, <2>2
<1>6. PolymarketFee(n, b, r) <= PolymarketFee(n, p, r) + Cent * d
  <2>1. CASE r <= 0
    <3>1. PolymarketFee(n, b, r) = 0 /\ PolymarketFee(n, p, r) = 0
      BY <2>1 DEF PolymarketFee
    <3> QED BY <1>4, <3>1
  <2>2. CASE r > 0
    <3> DEFINE k == 100 * One  e == Cent * d
    <3>1. k \in Nat /\ k > 0 /\ x * Money \in Int /\ y * Money \in Int
      BY <1>1, <1>3 DEF Money
    <3>2. x * Money <= y * Money + k * e
      <4>1. k * e = 10 * ((One * One) * d)
        BY <1>1
      <4> DEFINE w == (One * One) * d
      <4>2. w \in Int
        BY <1>1
      <4> HIDE DEF w, k, e
      <4> QED BY <1>3, <4>1, <4>2 DEF Money, w
    <3> DEFINE xx == x * Money  yy == y * Money
    <3> HIDE DEF k, e, xx, yy
    <3>3. HalfUp(xx, k) <= HalfUp(yy, k) + e
      <4>1. e \in Int
        BY <1>4 DEF e
      <4> QED BY <3>1, <3>2, <4>1, HalfUpShifts DEF xx, yy
    <3>4. PolymarketFee(n, b, r) = HalfUp(xx, k) /\ PolymarketFee(n, p, r) = HalfUp(yy, k)
      <4>1. ~(n <= 0 \/ b <= 0 \/ b >= One \/ r <= 0) /\ ~(n <= 0 \/ p <= 0 \/ p >= One \/ r <= 0)
        BY <1>1, <1>2, <2>2
      <4> QED BY <4>1 DEF PolymarketFee, xx, yy, k, x, y
    <3> QED BY <3>3, <3>4 DEF e
  <2> QED BY <1>2, <2>1, <2>2
<1>7. Cent * r * n \in Nat
  <2>1. Cent * r \in Nat
    BY <1>1, <1>2, ProductIs
  <2> QED BY <2>1, ProductIs
<1> QED BY <1>2, <1>4, <1>5, <1>6, <1>7 DEF TakerFee, r

\* On a ladder of whole cents an order costs whole cents.
LEMMA WholeCents ==
  ASSUME NEW ls, QuotedLadder(ls), NEW n \in Nat,
         \A i \in DOMAIN ls : ls[i].price % (One \div 100) = 0
  PROVE  \E s \in Int : Walk(ls, n).notional = Cent * s
<1> DEFINE u == One \div 100
           f == Taken(ls, n)
           w == Worth(ls, f)
           g == [i \in 1..Len(ls) |-> f[i] * (ls[i].price \div u)]
           z == [i \in 1..Len(ls) |-> 0]
<1>1. u \in Nat /\ u > 0 /\ Cent = 10 * u
  <2>1. One \in Nat \ {0} /\ One % 100 = 0
    BY PricingAssumption DEF PricingAssumption
  <2> QED BY <2>1 DEF Cent, Money
<1>2. /\ ls \in Ladders /\ Len(ls) \in Nat /\ DOMAIN ls = 1..Len(ls)
      /\ \A i \in 1..Len(ls) : ls[i].price \in Nat
  BY SizesAre DEF QuotedLadder
<1>3. /\ Summable(w, Len(ls)) /\ Walk(ls, n).notional = Total(w, Len(ls))
      /\ \A i \in 1..Len(ls) : f[i] \in Nat /\ w[i] = 10 * (f[i] * ls[i].price)
  BY <1>2, NotionalTerms
<1> HIDE DEF u, f, w
<1>4. ASSUME NEW i \in 1..Len(ls) PROVE g[i] \in Int /\ w[i] = Cent * g[i] + z[i]
  <2> DEFINE p == ls[i].price  k == f[i]  c == p \div u
  <2>1. p \in Nat /\ k \in Nat /\ p % u = 0
    BY <1>2, <1>3 DEF u
  <2> HIDE DEF p
  <2>2. p = u * c /\ c \in Int
    BY <1>1, <2>1
  <2>3. g[i] = k * c /\ z[i] = 0 /\ w[i] = 10 * (k * p)
    BY <1>3 DEF p
  <2> HIDE DEF k, c
  <2>4. 10 * (k * p) = (10 * u) * (k * c) /\ k * c \in Int
    BY <1>1, <2>1, <2>2
  <2>5. Cent * (k * c) = Cent * (k * c) + 0
    BY <1>1, <2>4
  <2> HIDE DEF g, z
  <2> QED BY <1>1, <2>3, <2>4, <2>5
<1>5. Summable(g, Len(ls)) /\ Summable(z, Len(ls))
  <2>1. \A i \in 1..Len(ls) : g[i] \in Int
    BY <1>4
  <2>2. \A i \in 1..Len(ls) : z[i] \in Int
    OBVIOUS
  <2> HIDE DEF g, z
  <2> QED BY <2>1, <2>2 DEF Summable
<1>6. \A i \in 1..Len(ls) : z[i] <= 0 /\ z[i] >= 0
  OBVIOUS
<1>7. \A i \in 1..Len(ls) : w[i] = Cent * g[i] + z[i]
  BY <1>4
<1> HIDE DEF g, z
<1>8. Total(w, Len(ls)) = Cent * Total(g, Len(ls)) + Total(z, Len(ls))
  BY <1>1, <1>2, <1>3, <1>5, <1>7, TotalIsLinear
<1>9. Total(z, Len(ls)) = 0
  <2>1. \A i \in 1..Len(ls) : z[i] = z[i] + z[i] /\ z[i] = 1 * z[i] + z[i]
    BY <1>5, <1>6 DEF Summable
  <2>2. Total(z, Len(ls)) = 1 * Total(z, Len(ls)) + Total(z, Len(ls))
    BY <1>2, <1>5, <2>1, TotalIsLinear
  <2>3. Total(z, Len(ls)) \in Int
    BY <1>2, <1>5, Totals
  <2> QED BY <2>2, <2>3
<1>10. Total(g, Len(ls)) \in Int
  BY <1>2, <1>5, Totals
<1> DEFINE t == Total(g, Len(ls))
<1>11. t \in Int /\ Walk(ls, n).notional = Cent * t + 0
  BY <1>3, <1>8, <1>9, <1>10
<1> HIDE DEF t
<1>12. Cent * t + 0 = Cent * t
  BY <1>1, <1>11
<1> QED BY <1>11, <1>12

\* What a price told without a book leaves out is not negative.
LEMMA FloorAdds ==
  ASSUME NEW n \in Nat, n > 0, NEW b \in Nat, NEW p \in Nat, b <= p,
         NEW x \in Nat, NEW y \in Nat, NEW t \in Nat, NEW r, NEW d \in Nat,
         x <= y + d, 2 * d <= 2 * (n * (10 * (p - b))) + 10 * n
  PROVE  CostEach(b, x, t, r, n) * n <= CostEach(p, y, t, r, n) * n + CostSlack(n)
<1> DEFINE h == HalfUp(x, n)  k == HalfUp(y, n)  l == HalfUp(t, n)
           c == IF r THEN ((10 * b) * Interest) \div 100 ELSE 0
           e == IF r THEN ((10 * p) * Interest) \div 100 ELSE 0
           j == Interest \div 20
<1>1. Interest \in Nat
  BY PricingAssumption DEF PricingAssumption
<1>2. /\ h \in Int /\ k \in Int /\ l \in Int
      /\ 2 * (n * h) <= 2 * x + n /\ 2 * y <= 2 * (n * k) + n
  BY SharedOut
<1>3. c \in Int /\ e \in Int /\ c <= e
  <2> DEFINE u == (10 * b) * Interest  v == (10 * p) * Interest
  <2>1. Interest * (10 * b) <= Interest * (10 * p)
    BY <1>1, ProductGrows
  <2>2. u \in Int /\ v \in Int /\ u <= v
    BY <1>1, <2>1
  <2> HIDE DEF u, v
  <2>3. u \div 100 \in Int /\ v \div 100 \in Int /\ u \div 100 <= v \div 100
    BY <2>2
  <2> QED BY <2>3 DEF u, v
<1>4. j \in Nat
  BY <1>1
<1>5. CostSlack(n) = 8 * n + n * j
  <2> HIDE DEF j
  <2>1. CostSlack(n) = n * (5 + j + 3)
    BY DEF CostSlack, Money, j
  <2> QED BY <1>4, <2>1
<1> DEFINE v == p - b
<1>6. v \in Nat
  OBVIOUS
<1>7. 10 * p = 10 * b + 10 * v
  OBVIOUS
<1> HIDE DEF h, k, l, c, e, j, v
<1>8. n * c <= n * e
  BY <1>3, ProductGrows
<1>9. /\ (10 * b + h + l + c) * n = 10 * (b * n) + n * h + n * l + n * c
      /\ (10 * p + k + l + e) * n = 10 * (b * n) + 10 * (n * v) + n * k + n * l + n * e
  <2>1. (10 * b + h + l + c) * n = 10 * (b * n) + n * h + n * l + n * c
    BY <1>2, <1>3
  <2>2. (10 * b + 10 * v + k + l + e) * n = 10 * (b * n) + 10 * (n * v) + n * k + n * l + n * e
    BY <1>2, <1>3, <1>6
  <2> QED BY <1>7, <2>1, <2>2
<1>10. /\ b * n \in Int /\ n * v \in Int /\ n * h \in Int /\ n * k \in Int /\ n * l \in Int
       /\ n * c \in Int /\ n * e \in Int /\ n * j \in Nat
  BY <1>2, <1>3, <1>4, <1>6, ProductIs
<1>11. 2 * d <= 20 * (n * v) + 10 * n
  <2>1. n * (10 * v) = 10 * (n * v)
    BY <1>6
  <2> QED BY <1>10, <2>1 DEF v
<1> DEFINE bn == b * n  nv == n * v  nh == n * h  nk == n * k  nl == n * l
           nc == n * c  ne == n * e  nj == n * j
<1> HIDE DEF bn, nv, nh, nk, nl, nc, ne, nj
<1>12. 10 * bn + nh + nl + nc <= 10 * bn + 10 * nv + nk + nl + ne + 8 * n + nj
  BY <1>2, <1>8, <1>10, <1>11 DEF bn, nv, nh, nk, nl, nc, ne, nj
<1>13. (10 * b + h + l + c) * n <= (10 * p + k + l + e) * n + CostSlack(n)
  BY <1>5, <1>9, <1>10, <1>12 DEF bn, nv, nh, nk, nl, nc, ne, nj
<1> QED BY <1>13 DEF CostEach, h, k, l, c, e

\* Told without a book, an order that a ladder of whole cents fills costs no more than
\* with it.
LEMMA FloorHolds ==
  ASSUME NEW c, Costed(c), NEW n \in Nat, n > 0, CostOfSize(c, n).full,
         \A i \in DOMAIN c.levels : c.levels[i].price % (One \div 100) = 0
  PROVE  LET e == CostOfSize(c, n) IN
         SummaryCost(c.m, e.nominal, e.size).measured * e.size
            <= e.measured * e.size + CostSlack(e.size)
<1> DEFINE e == CostOfSize(c, n)  ls == c.levels  m == c.m
           q == Walk(ls, n)  p == AveragePrice(q)  b == BestAsk(ls)
           x == TakerFee(m, n, b)  y == TakerFee(m, n, p)  t == TransferOf(m)  r == m.resolves
           no == FALSE
<1>1. ls # <<>>
  <2> SUFFICES ASSUME ls = <<>> PROVE FALSE
    OBVIOUS
  <2>1. ~ e.full
    BY DEF CostOfSize, SummaryCost, Stack
  <2> QED BY <2>1
<1>2. QuotedLadder(ls) /\ m \in CostMarkets
  BY <1>1 DEF Costed
<1>3. /\ q.filled \in Nat /\ q.filled > 0 /\ q.notional \in Nat /\ p \in Nat /\ p < One
      /\ 0 < b /\ b \in Nat /\ b <= p
      /\ 10 * (q.filled * b) <= q.notional
      /\ 2 * (q.filled * (10 * p)) <= 2 * q.notional + 10 * q.filled
      /\ 2 * q.notional <= 2 * (q.filled * (10 * p)) + 10 * q.filled
  BY <1>1, <1>2, FilledAtAverage
<1>4. PICK s \in Int : q.notional = Cent * s
  BY <1>2, WholeCents
<1>5. e = Stack(m, n, q.filled, q.filled = n, b, p, {p - b})
  BY <1>1 DEF CostOfSize, BookCost
<1>6. SummaryCost(m, b, n) = Stack(m, n, n, no, b, b, {})
  BY DEF SummaryCost
<1> HIDE DEF e, ls, q, p, b, m, no
<1>7. p \in Int /\ b \in Int
  BY <1>3
<1>8. /\ e.size = n /\ e.filled = q.filled /\ e.nominal = b /\ (e.full <=> q.filled = n)
      /\ e.measured = CostEach(p, TakerFee(m, q.filled, p), t, r, q.filled)
  <2> DEFINE full == q.filled = n
  <2>1. e = Stack(m, n, q.filled, full, b, p, {p - b})
    BY <1>5
  <2> HIDE DEF full
  <2>2. StackOf(e, m, n, q.filled, full, b, p)
    BY <1>7, <2>1, StackIs
  <2> QED BY <2>2 DEF StackOf, full
<1>9. q.filled = n
  BY <1>8 DEF e
<1>10. SummaryCost(m, b, n).measured = CostEach(b, x, t, r, n)
  <2>1. StackOf(SummaryCost(m, b, n), m, n, n, no, b, b)
    BY <1>6, <1>7, StackIs
  <2> QED BY <2>1 DEF StackOf
<1>11. e.measured = CostEach(p, y, t, r, n)
  BY <1>8, <1>9
<1>12. x \in Nat /\ y \in Nat /\ t \in Nat
  <2>1. m.rate \in Nat
    BY <1>2 DEF CostMarkets
  <2>2. x \in Nat /\ y \in Nat
    BY <1>7, <2>1, FeeIsNat
  <2>3. t \in Nat
    BY PricingAssumption DEF TransferOf, PricingAssumption
  <2> QED BY <2>2, <2>3
<1> DEFINE v == p - b
<1>13. v \in Nat
  BY <1>3
<1>14. \E d \in Nat : x <= y + d /\ 2 * d <= 2 * (n * (10 * v)) + 10 * n
  <2>1. CASE p = b
    <3>1. x <= y + 0 /\ 2 * 0 <= 2 * (n * (10 * v)) + 10 * n
      <4>1. n * (10 * v) \in Nat
        BY <1>13, ProductIs
      <4> QED BY <1>12, <2>1, <4>1
    <3> QED BY <3>1
  <2>2. CASE p # b
    <3> DEFINE u == One \div 100  a == b \div u  k == s - n * a  nv == n * v  nb == n * b
               w == q.notional
    <3>1. v >= 1
      BY <1>3, <2>2
    <3>2. u \in Nat /\ u > 0 /\ Cent = 10 * u
      <4>1. One \in Nat \ {0} /\ One % 100 = 0
        BY PricingAssumption DEF PricingAssumption
      <4> QED BY <4>1 DEF Cent, Money
    <3>3. b = u * a /\ a \in Int
      <4>1. b % u = 0
        <5>1. 1 \in DOMAIN ls /\ b = ls[1].price
          BY <1>1, <1>2 DEF b, BestAsk, QuotedLadder, Ladders
        <5> QED BY <5>1 DEF ls, u
      <4> HIDE DEF u
      <4> QED BY <1>3, <3>2, <4>1
    <3> HIDE DEF u, a
    <3>4. n * a \in Int /\ Cent * (n * a) = 10 * nb
      BY <3>2, <3>3
    <3>5. k \in Int /\ nv \in Nat /\ nb \in Nat /\ w \in Nat
      BY <1>3, <1>4, <1>13, <3>4, ProductIs
    <3>6. Cent * k = w - 10 * nb
      <4>1. Cent * k = Cent * s - Cent * (n * a)
        BY <1>4, <3>2, <3>4
      <4> QED BY <1>4, <3>4, <4>1
    <3>7. n <= nv
      <4>1. n * 1 <= n * v
        BY <1>13, <3>1, ProductGrows
      <4> QED BY <4>1
    <3>8. n * (10 * p) = 10 * nb + 10 * nv /\ n * (10 * v) = 10 * nv
      <4>1. p = b + v
        BY <1>3
      <4> HIDE DEF v
      <4>2. n * (10 * (b + v)) = 10 * (n * b) + 10 * (n * v) /\ n * (10 * v) = 10 * (n * v)
        BY <1>3, <1>13
      <4> QED BY <4>1, <4>2
    <3> HIDE DEF k, nv, nb, w
    <3>9. 10 * nb <= w /\ 2 * (10 * nb + 10 * nv) <= 2 * w + 10 * n
          /\ 2 * w <= 2 * (10 * nb + 10 * nv) + 10 * n
      BY <1>3, <1>9, <3>8 DEF w, nb
    <3>10. Cent * k >= 0 /\ 5 * nv <= Cent * k /\ 2 * (Cent * k) <= 2 * (10 * nv) + 10 * n
      BY <3>5, <3>6, <3>7, <3>9
    <3>11. k \in Nat
      <4>1. ASSUME k <= -1 PROVE FALSE
        <5>1. Cent * k <= Cent * (-1)
          BY <3>2, <3>5, <4>1, ProductGrows
        <5>2. Cent \in Nat /\ Cent > 0
          BY Units
        <5>3. Cent * (-1) = -Cent /\ Cent * k \in Int
          BY <3>5, <5>2
        <5> QED BY <3>10, <5>1, <5>2, <5>3
      <4> QED BY <3>5, <4>1
    <3>12. x <= y + Cent * k
      <4>1. 5 * (n * (p - b)) <= Cent * k
        BY <3>10 DEF nv, v
      <4> QED BY <1>2, <1>3, <3>11, <4>1, FeeAtTheBest
    <3>13. Cent * k \in Nat
      BY <3>2, <3>11, ProductIs
    <3> QED BY <3>8, <3>10, <3>12, <3>13
  <2> QED BY <2>1, <2>2
<1>15. PICK d \in Nat : x <= y + d /\ 2 * d <= 2 * (n * (10 * (p - b))) + 10 * n
  BY <1>14
<1> HIDE DEF x, y, t, r
<1>16. CostEach(b, x, t, r, n) * n <= CostEach(p, y, t, r, n) * n + CostSlack(n)
  <2>1. /\ b \in Nat /\ p \in Nat /\ b <= p /\ x \in Nat /\ y \in Nat /\ t \in Nat
        /\ x <= y + d /\ 2 * d <= 2 * (n * (10 * (p - b))) + 10 * n
    BY <1>3, <1>12, <1>15
  <2> QED BY <2>1, FloorAdds
<1>17. SummaryCost(m, b, n).measured * n <= e.measured * n + CostSlack(n)
  BY <1>10, <1>11, <1>16
<1> QED BY <1>8, <1>17 DEF e, m

-----------------------------------------------------------------------------
(* Numbers in order.                                                       *)

\* Parts of the positions 1..n are finite, and a part of a part is no larger.
LEMMA PartsCount ==
  ASSUME NEW n \in Nat, NEW T \in SUBSET (1..n)
  PROVE  /\ IsFiniteSet(T) /\ Cardinality(T) \in 0..n /\ Cardinality(1..n) = n
         /\ Cardinality((1..n) \ T) = n - Cardinality(T)
         /\ \A P \in SUBSET T : Cardinality(P) \in Nat /\ Cardinality(P) <= Cardinality(T)
         /\ \A P \in SUBSET T : P # T => Cardinality(P) < Cardinality(T)
         /\ T # {} => Cardinality(T) > 0
<1>1. IsFiniteSet(1..n) /\ Cardinality(1..n) = n
  <2>1. 1 \in Int /\ n \in Int /\ n - 1 + 1 = n /\ (1 > n => n = 0)
    OBVIOUS
  <2> QED BY <2>1, FS_Interval
<1>2. IsFiniteSet(T) /\ Cardinality(T) <= n
  BY <1>1, FS_Subset
<1>3. Cardinality(T) \in 0..n
  BY <1>2, FS_CardinalityType
<1>4. Cardinality((1..n) \ T) = n - Cardinality(T)
  <2> DEFINE N == 1..n
  <2>1. N \cap T = T /\ IsFiniteSet(N) /\ Cardinality(N) = n
    BY <1>1
  <2> HIDE DEF N
  <2>2. Cardinality(N \ T) = Cardinality(N) - Cardinality(N \cap T)
    BY <2>1, FS_Difference
  <2> QED BY <2>1, <2>2 DEF N
<1>5. \A P \in SUBSET T : IsFiniteSet(P) /\ Cardinality(P) <= Cardinality(T)
                          /\ (Cardinality(P) = Cardinality(T) => T = P)
  BY <1>2, FS_Subset
<1>6. \A P \in SUBSET T : Cardinality(P) \in Nat
  BY <1>5, FS_CardinalityType
<1>7. T # {} => Cardinality(T) > 0
  BY <1>2, <1>3, FS_EmptySet
<1>8. \A P \in SUBSET T : P # T => Cardinality(P) < Cardinality(T)
  BY <1>3, <1>5, <1>6
<1> QED BY <1>1, <1>2, <1>3, <1>4, <1>5, <1>6, <1>7, <1>8

\* The positions of some numbers under a bound, and up to it.
Under(f, v) == {i \in DOMAIN f : f[i] < v}
Within(f, v) == {i \in DOMAIN f : f[i] <= v}

LEMMA WithinGrows ==
  ASSUME NEW n \in Nat, NEW f \in [1..n -> Int], NEW u \in Int, NEW v \in Int
  PROVE  /\ Under(f, v) \in SUBSET (1..n) /\ Within(f, v) \in SUBSET (1..n)
         /\ u <= v => Within(f, u) \subseteq Within(f, v)
         /\ u < v => Within(f, u) \subseteq Under(f, v)
BY DEF Under, Within

\* Some of the numbers have a greatest.
LEMMA GreatestIs ==
  ASSUME NEW n \in Nat, NEW f \in [1..n -> Int], NEW S \in SUBSET (1..n), S # {}
  PROVE  \E j \in S : \A l \in S : f[l] <= f[j]
<1> DEFINE size(j) == Cardinality(Within(f, f[j]))
           T == {size(j) : j \in S}
<1>1. \A j \in 1..n : size(j) \in 0..n
  <2> SUFFICES ASSUME NEW j \in 1..n PROVE size(j) \in 0..n
    OBVIOUS
  <2>1. Within(f, f[j]) \in SUBSET (1..n)
    BY DEF Within
  <2> QED BY <2>1, PartsCount
<1>2. Max(T) \in T /\ \A x \in T : x <= Max(T)
  <2> HIDE DEF size
  <2>1. \A x \in T : x \in Nat /\ x <= n
    BY <1>1
  <2>2. T # {}
    OBVIOUS
  <2> HIDE DEF T
  <2>3. T \in SUBSET Nat
    BY <2>1
  <2> QED BY <2>1, <2>2, <2>3, MaxIs
<1>3. PICK j \in S : \A l \in S : size(l) <= size(j)
  <2> HIDE DEF size
  <2> QED BY <1>2
<1>4. ASSUME NEW l \in S, ~(f[l] <= f[j]) PROVE FALSE
  <2>1. f[l] \in Int /\ f[j] \in Int /\ f[j] < f[l]
    BY <1>4
  <2>2. Within(f, f[j]) \subseteq Within(f, f[l]) /\ Within(f, f[l]) \in SUBSET (1..n)
    BY <2>1, WithinGrows
  <2>3. l \in Within(f, f[l]) /\ l \notin Within(f, f[j])
    BY <2>1 DEF Within
  <2>4. size(j) < size(l)
    BY <2>2, <2>3, PartsCount
  <2>5. size(j) \in 0..n /\ size(l) \in 0..n /\ size(l) <= size(j)
    BY <1>1, <1>3
  <2> HIDE DEF size
  <2> QED BY <2>4, <2>5
<1> QED BY <1>4

\* A number of a rank: fewer are under it, and as many are within it.
RankIs(f, k, v) ==
  /\ v \in {f[i] : i \in DOMAIN f}
  /\ Cardinality(Under(f, v)) < k /\ k <= Cardinality(Within(f, v))

LEMMA RankedIs ==
  ASSUME NEW n \in Nat, NEW f \in [1..n -> Int], NEW k \in 1..n
  PROVE  RankIs(f, k, Ranked(f, k)) /\ Ranked(f, k) \in Int
<1> DEFINE size(i) == Cardinality(Within(f, f[i]))
           Enough == {i \in 1..n : k <= size(i)}
           T == {size(i) : i \in Enough}
<1>1. \A i \in 1..n : size(i) \in 0..n
  <2> SUFFICES ASSUME NEW i \in 1..n PROVE size(i) \in 0..n
    OBVIOUS
  <2>1. Within(f, f[i]) \in SUBSET (1..n)
    BY DEF Within
  <2> QED BY <2>1, PartsCount
<1>2. Enough # {}
  <2>1. 1..n # {} /\ 1..n \in SUBSET (1..n)
    OBVIOUS
  <2>2. PICK j \in 1..n : \A l \in 1..n : f[l] <= f[j]
    BY <2>1, GreatestIs
  <2>3. Within(f, f[j]) = 1..n
    BY <2>2 DEF Within
  <2>4. Cardinality(1..n) = n
    BY <2>1, PartsCount
  <2>5. k <= size(j)
    BY <2>3, <2>4
  <2> QED BY <2>5
<1>3. PICK i \in Enough : \A l \in Enough : size(i) <= size(l)
  <2> HIDE DEF size
  <2>1. \A x \in T : x \in Nat
    BY <1>1
  <2>2. T # {}
    BY <1>2
  <2> HIDE DEF T
  <2>3. T \subseteq Nat
    BY <2>1
  <2>4. PICK x \in T : \A y \in T : x <= y
    BY <2>2, <2>3, LeastIs
  <2> QED BY <2>4 DEF T
<1>4. i \in 1..n /\ k <= size(i) /\ f[i] \in Int
  <2> HIDE DEF size
  <2> QED OBVIOUS
<1> DEFINE Low == Under(f, f[i])
<1>5. Low \in SUBSET (1..n) /\ Cardinality(Low) \in 0..n
  <2>1. Low \in SUBSET (1..n)
    BY DEF Under
  <2> QED BY <2>1, PartsCount
<1>6. Cardinality(Low) < k
  <2> SUFFICES ASSUME k <= Cardinality(Low) PROVE FALSE
    BY <1>5
  <2>1. Low # {}
    <3> SUFFICES ASSUME Low = {} PROVE FALSE
      OBVIOUS
    <3>1. Cardinality(Low) = 0
      BY FS_EmptySet
    <3> QED BY <3>1
  <2>2. PICK j \in Low : \A l \in Low : f[l] <= f[j]
    BY <1>5, <2>1, GreatestIs
  <2>3. j \in 1..n /\ f[j] \in Int /\ f[j] < f[i]
    BY <1>5 DEF Under
  <2>4. Low \subseteq Within(f, f[j])
    BY <1>5, <2>2 DEF Within
  <2>5. Within(f, f[j]) \in SUBSET (1..n) /\ Within(f, f[i]) \in SUBSET (1..n)
        /\ Within(f, f[j]) \subseteq Within(f, f[i])
    BY <1>4, <2>3, WithinGrows
  <2>6. Cardinality(Low) <= size(j)
    BY <2>4, <2>5, PartsCount
  <2>7. i \in Within(f, f[i]) /\ i \notin Within(f, f[j])
    BY <1>4, <2>3 DEF Within
  <2>8. size(j) < size(i)
    BY <2>5, <2>7, PartsCount
  <2>9. size(j) \in 0..n /\ size(i) \in 0..n
    BY <1>1, <1>4, <2>3
  <2> HIDE DEF size, Low
  <2>10. j \in Enough
    BY <1>5, <2>3, <2>6, <2>9
  <2>11. size(i) <= size(j)
    BY <1>3, <2>10
  <2> QED BY <2>8, <2>9, <2>11
<1>7. RankIs(f, k, f[i])
  BY <1>4, <1>6 DEF RankIs
<1>8. Ranked(f, k) = CHOOSE v \in {f[j] : j \in DOMAIN f} :
                        Cardinality(Under(f, v)) < k /\ k <= Cardinality(Within(f, v))
  BY DEF Ranked, Under, Within
<1>9. RankIs(f, k, Ranked(f, k))
  BY <1>7, <1>8 DEF RankIs
<1>10. \A v \in {f[j] : j \in DOMAIN f} : v \in Int
  OBVIOUS
<1> QED BY <1>9, <1>10 DEF RankIs

\* What ranks higher is no less.
LEMMA RankedGrows ==
  ASSUME NEW n \in Nat, NEW f \in [1..n -> Int], NEW k \in 1..n, NEW l \in 1..n, k <= l
  PROVE  Ranked(f, k) <= Ranked(f, l)
<1> DEFINE a == Ranked(f, k)  b == Ranked(f, l)
<1>1. a \in Int /\ b \in Int /\ RankIs(f, k, a) /\ RankIs(f, l, b)
  BY RankedIs
<1> HIDE DEF a, b
<1> SUFFICES ASSUME b < a PROVE FALSE
  BY <1>1 DEF a, b
<1>2. Within(f, b) \subseteq Under(f, a) /\ Under(f, a) \in SUBSET (1..n)
      /\ Within(f, b) \in SUBSET (1..n)
  BY <1>1, WithinGrows
<1>3. Cardinality(Within(f, b)) <= Cardinality(Under(f, a)) /\ Cardinality(Within(f, b)) \in Nat
      /\ Cardinality(Under(f, a)) \in 0..n
  BY <1>2, PartsCount
<1> QED BY <1>1, <1>3 DEF RankIs

\* At least half of some numbers are on either side of their median, which lies between
\* their quarters.
LEMMA MedianIsMiddle ==
  ASSUME NEW n \in Nat, n > 0, NEW f \in [1..n -> Int], Len(f) = n
  PROVE  /\ 2 * Cardinality({i \in 1..n : 2 * f[i] <= TwiceMedian(f)}) >= n
         /\ 2 * Cardinality({i \in 1..n : 2 * f[i] >= TwiceMedian(f)}) >= n
         /\ 2 * Ranked(f, n \div 4 + 1) <= TwiceMedian(f)
         /\ TwiceMedian(f) <= 2 * Ranked(f, (3 * n) \div 4 + 1)
<1> DEFINE half == n \div 2  t == TwiceMedian(f)
           odd == n % 2 = 1  lo == IF odd THEN half + 1 ELSE half
           a == Ranked(f, lo)  b == Ranked(f, half + 1)
<1>1. /\ lo \in 1..n /\ half + 1 \in 1..n /\ lo <= half + 1 /\ half \in Nat
      /\ n \div 4 + 1 \in 1..n /\ (3 * n) \div 4 + 1 \in 1..n
      /\ n \div 4 + 1 <= lo /\ half + 1 <= (3 * n) \div 4 + 1
      /\ 2 * lo >= n /\ 2 * (n - half) >= n
  OBVIOUS
<1>2. t = a + b /\ a \in Int /\ b \in Int
  <2>1. a \in Int /\ b \in Int
    <3> HIDE DEF lo, half
    <3> QED BY <1>1, RankedIs
  <2>2. t = IF odd THEN 2 * b ELSE Ranked(f, half) + b
    BY DEF TwiceMedian
  <2>3. CASE odd
    <3>1. t = 2 * b /\ a = b
      BY <2>2, <2>3
    <3> HIDE DEF t, a, b
    <3> QED BY <2>1, <3>1
  <2>4. CASE ~odd
    <3>1. t = a + b
      BY <2>2, <2>4
    <3> HIDE DEF t, a, b
    <3> QED BY <2>1, <3>1
  <2> QED BY <2>3, <2>4
<1>3. RankIs(f, lo, a) /\ RankIs(f, half + 1, b) /\ a <= b
  <2> HIDE DEF lo, half
  <2> QED BY <1>1, RankedIs, RankedGrows
<1> DEFINE p == Ranked(f, n \div 4 + 1)  q == Ranked(f, (3 * n) \div 4 + 1)
<1>4. p \in Int /\ q \in Int /\ p <= a /\ b <= q
  <2> DEFINE k == n \div 4 + 1  l == (3 * n) \div 4 + 1
  <2>1. k \in 1..n /\ l \in 1..n /\ k <= lo /\ half + 1 <= l /\ lo \in 1..n /\ half + 1 \in 1..n
    BY <1>1
  <2> HIDE DEF k, l, lo, half
  <2>2. Ranked(f, k) \in Int /\ Ranked(f, l) \in Int /\ Ranked(f, k) <= a /\ b <= Ranked(f, l)
    BY <2>1, RankedIs, RankedGrows
  <2> QED BY <2>2 DEF k, l
<1> DEFINE Upper == {i \in 1..n : 2 * f[i] >= t}  Lower == {i \in 1..n : 2 * f[i] <= t}
<1> HIDE DEF a, b, lo, half, t, p, q
<1>5. 2 * Cardinality(Lower) >= n
  <2>1. Within(f, a) \subseteq Lower /\ Lower \in SUBSET (1..n)
    BY <1>2, <1>3 DEF Within
  <2> HIDE DEF Lower
  <2>2. Cardinality(Within(f, a)) <= Cardinality(Lower) /\ Cardinality(Within(f, a)) \in Nat
        /\ Cardinality(Lower) \in 0..n
    BY <2>1, PartsCount
  <2>3. lo <= Cardinality(Within(f, a))
    BY <1>3 DEF RankIs
  <2> QED BY <1>1, <2>2, <2>3
<1>6. 2 * Cardinality(Upper) >= n
  <2>1. (1..n) \ Under(f, b) \subseteq Upper /\ Upper \in SUBSET (1..n)
        /\ Under(f, b) \in SUBSET (1..n)
    BY <1>2, <1>3 DEF Under
  <2> HIDE DEF Upper
  <2>2. Cardinality((1..n) \ Under(f, b)) = n - Cardinality(Under(f, b))
        /\ Cardinality(Under(f, b)) \in 0..n
    BY <2>1, PartsCount
  <2>3. Cardinality((1..n) \ Under(f, b)) <= Cardinality(Upper) /\ Cardinality(Upper) \in 0..n
    BY <2>1, PartsCount
  <2>4. Cardinality(Under(f, b)) <= half
    BY <1>1, <1>3, <2>2 DEF RankIs
  <2> QED BY <1>1, <2>2, <2>3, <2>4
<1>7. 2 * p <= t /\ t <= 2 * q
  BY <1>2, <1>3, <1>4
<1> QED BY <1>5, <1>6, <1>7 DEF p, q, t

-----------------------------------------------------------------------------
(* The tables of categories.                                               *)

\* The premium told of a contract is a number.
LEMMA RatioIs ==
  ASSUME NEW c, Costed(c), NEW n \in Nat, n > 0
  PROVE  PremiumRatio(CostOfSize(c, n)) \in Int
<1> DEFINE e == CostOfSize(c, n)
<1>1. PICK w, p : CostedAt(c, e, n, w, p)
  BY CostIs
<1>2. e.nominal \in Nat /\ e.nominal > 0
  <2>1. CASE c.levels # <<>>
    <3>1. e.nominal = BestAsk(c.levels)
      BY <2>1 DEF CostOfSize, BookCost, Stack
    <3>2. BestAsk(c.levels) \in Nat /\ 0 < BestAsk(c.levels)
      BY <2>1, FilledAtAverage DEF Costed
    <3> QED BY <3>1, <3>2
  <2>2. CASE c.levels = <<>>
    <3>1. PICK a \in 1..One : c.summary = {a}
      BY <2>2 DEF Costed
    <3>2. (CHOOSE x \in c.summary : TRUE) = a /\ a \in Nat /\ a > 0
      BY <3>1, Units
    <3>3. e.nominal = a
      BY <2>2, <3>2 DEF CostOfSize, SummaryCost, Stack
    <3> QED BY <3>2, <3>3
  <2> QED BY <2>1, <2>2
<1> HIDE DEF e
<1> DEFINE f == e.filled  x == TakerFee(c.m, f, p)  t == TransferOf(c.m)  r == c.m.resolves
<1>3. f \in Nat /\ f > 0 /\ p \in Nat /\ e.measured = CostEach(p, x, t, r, f)
  BY <1>1 DEF CostedAt
<1>4. x \in Nat /\ t \in Nat /\ Interest \in Nat
  <2>0. c.m \in CostMarkets
    BY DEF Costed
  <2>1. c.m.rate \in Nat
    BY <2>0 DEF CostMarkets
  <2> DEFINE m == c.m
  <2>2. f \in Nat /\ p \in Int
    BY <1>3
  <2> HIDE DEF f, m
  <2>3. TakerFee(m, f, p) \in Nat
    BY <2>1, <2>2, FeeIsNat DEF m
  <2>4. t \in Nat /\ Interest \in Nat
    BY PricingAssumption DEF TransferOf, PricingAssumption
  <2> QED BY <2>3, <2>4 DEF x, m
<1> HIDE DEF f, x, t, r
<1>5. HalfUp(x, f) \in Int /\ HalfUp(t, f) \in Int
  BY <1>3, <1>4, SharedOut
<1>6. ((10 * p) * Interest) \div 100 \in Int
  <2> DEFINE y == (10 * p) * Interest
  <2>1. y \in Int
    BY <1>3, <1>4
  <2> HIDE DEF y
  <2>2. y \div 100 \in Int
    BY <2>1
  <2> QED BY <2>2 DEF y
<1>7. e.measured \in Int
  <2> DEFINE y == ((10 * p) * Interest) \div 100  h == HalfUp(x, f)  k == HalfUp(t, f)
  <2>1. e.measured = 10 * p + h + k + (IF r THEN y ELSE 0)
    BY <1>3 DEF CostEach
  <2>2. y \in Int /\ h \in Int /\ k \in Int
    BY <1>5, <1>6
  <2> HIDE DEF y, h, k
  <2> QED BY <1>3, <2>1, <2>2
<1> DEFINE u == 1000 * Premium(e)  v == Money * e.nominal
<1>8. u \in Int /\ v \in Nat /\ v > 0
  BY <1>2, <1>7 DEF Premium, Money
<1>9. PremiumRatio(e) = u \div v
  BY DEF PremiumRatio
<1> HIDE DEF u, v
<1>10. u \div v \in Int
  BY <1>8, DivIs
<1> QED BY <1>9, <1>10 DEF e

\* A sample: the first of the contracts of a category that can be compared.
Comparables(table, category, n) ==
  {i \in 1..Len(table) : Costable(table[i]) /\ ComparedAt(table[i], n)
                         /\ table[i].category = category}

\* The contracts of some positions, in order, are those of the positions, and as many
\* of them as asked for are the first.
SampledFrom(t, table, K, cap) ==
  /\ t \in Seq(CostContracts)
  /\ \A a \in 1..Len(t) : \E i \in K : t[a] = table[i]
  /\ \A i \in K : Cardinality(Upto(K, i)) <= cap => \E a \in 1..Len(t) : t[a] = table[i]

LEMMA SampleIs ==
  ASSUME NEW table \in Seq(CostContracts), NEW category, NEW n
  PROVE  SampledFrom(SampleOf(table, category, n), table, Comparables(table, category, n), SampleCap)
<1> DEFINE K == Comparables(table, category, n)  N == Len(table)
           rows == At(table, K)  m == Min({SampleCap, Len(rows)})
           t == SubSeq(rows, 1, m)
<1>1. N \in Nat /\ K \in SUBSET (1..N) /\ \A i \in K : table[i] \in CostContracts
  BY DEF Comparables
<1>2. SampleOf(table, category, n) = t
  <2>1. DOMAIN table = 1..N
    OBVIOUS
  <2>2. {i \in Comparable(table, n) : table[i].category = category} = K
    BY <2>1 DEF Comparable, Comparables
  <2> QED BY <2>2 DEF SampleOf
<1> HIDE DEF K, N
<1>3. Picks(rows, table, K, CostContracts)
  BY <1>1, AtIsSeq
<1>4. rows \in Seq(CostContracts) /\ Len(rows) = Cardinality(K) /\ Len(rows) \in Nat
      /\ \A a \in 1..Len(rows) : \E i \in K : rows[a] = table[i]
  BY <1>3 DEF Picks
<1>4a. \A j \in K : j \in Int
  BY <1>1
<1>5. PICK nth : Enumerates(nth, K) /\ rows = [a \in 1..Cardinality(K) |-> table[nth[a]]]
  <2>1. KeptOf(At(table, K), table, K)
    BY <1>1, AtPicks
  <2> QED BY <2>1, Zenon DEF KeptOf
<1>6. m = (IF SampleCap <= Len(rows) THEN SampleCap ELSE Len(rows)) /\ SampleCap \in Nat
  <2>1. SampleCap \in Nat
    BY EntryCostAssumption DEF EntryCostAssumption
  <2> DEFINE l == Len(rows)
  <2>2. l \in Nat
    BY <1>4
  <2> HIDE DEF l
  <2>3. Min({SampleCap, l}) = IF SampleCap <= l THEN SampleCap ELSE l
    BY <2>1, <2>2, MinOfTwo
  <2> QED BY <2>1, <2>3 DEF l
<1> HIDE DEF rows, m
<1>7. m \in Nat /\ m <= Len(rows) /\ m <= SampleCap
  BY <1>4, <1>6
<1>8. t \in Seq(CostContracts) /\ Len(t) = m /\ \A a \in 1..m : t[a] = rows[a]
  BY <1>4, <1>7
<1> HIDE DEF t
<1>9. \A a \in 1..Len(t) : \E i \in K : t[a] = table[i]
  BY <1>4, <1>7, <1>8
<1>10. ASSUME NEW i \in K, Cardinality(Upto(K, i)) <= SampleCap
       PROVE  \E a \in 1..Len(t) : t[a] = table[i]
  <2>1. PICK a \in 1..Cardinality(K) : nth[a] = i
    BY <1>5 DEF Enumerates
  <2>2. a \in Nat /\ a >= 1 /\ a <= Len(rows) /\ \A x \in 1..a : x \in 1..Cardinality(K)
    BY <1>4
  <2> DEFINE first == [x \in 1..a |-> nth[x]]
  <2>3. \A x \in 1..a : nth[x] \in Upto(K, i)
    <3> SUFFICES ASSUME NEW x \in 1..a PROVE nth[x] \in Upto(K, i)
      OBVIOUS
    <3>1. nth[x] \in K /\ (x < a => nth[x] < nth[a])
      BY <1>5, <2>2 DEF Enumerates
    <3>2. x = a \/ x < a
      BY <2>2
    <3>3. nth[x] \in Int /\ i \in Int
      BY <1>4a, <3>1
    <3> QED BY <2>1, <3>1, <3>2, <3>3 DEF Upto
  <2>4. \A x, y \in 1..a : x # y => nth[x] # nth[y]
    <3> SUFFICES ASSUME NEW x \in 1..a, NEW y \in 1..a, x < y PROVE nth[x] # nth[y]
      OBVIOUS
    <3>1. nth[x] \in K /\ nth[y] \in K /\ nth[x] < nth[y]
      BY <1>5, <2>2 DEF Enumerates
    <3>2. nth[x] \in Int /\ nth[y] \in Int
      BY <1>4a, <3>1
    <3> QED BY <3>1, <3>2
  <2>5. first \in Injection(1..a, Upto(K, i))
    BY <2>3, <2>4 DEF Injection, IsInjective
  <2>6. IsFiniteSet(Upto(K, i)) /\ Cardinality(Upto(K, i)) \in Nat
    <3>1. i \in 0..N
      BY <1>1
    <3> QED BY <1>1, <3>1, PositionsCount
  <2>7. Cardinality(1..a) <= Cardinality(Upto(K, i))
    <3> HIDE DEF first
    <3> QED BY <2>5, <2>6, FS_Injection
  <2>8. Cardinality(1..a) = a
    <3>1. 1 \in Int /\ a \in Int /\ ~(1 > a) /\ a - 1 + 1 = a
      BY <2>2
    <3> QED BY <3>1, FS_Interval
  <2>9. a <= SampleCap
    BY <1>6, <1>10, <2>2, <2>6, <2>7, <2>8
  <2>10. a \in 1..m
    BY <1>6, <2>2, <2>9
  <2>11. rows[a] = table[i]
    BY <1>5, <2>1
  <2> QED BY <1>8, <2>10, <2>11
<1>11. SampledFrom(t, table, K, SampleCap)
  BY <1>8, <1>9, <1>10 DEF SampledFrom
<1> QED BY <1>2, <1>11 DEF K

\* A row of the table by category: its sample is told truly.
SectorHolds(s, table, n) ==
  LET ratio(i) == 2 * PremiumRatio(CostOfSize(s.sample[i], n))
      upTo(i) == {j \in 1..i : table[j].category = s.sample[1].category
                               /\ Costable(table[j]) /\ ComparedAt(table[j], n)}
  IN  /\ 2 * Cardinality({i \in DOMAIN s.sample : ratio(i) <= s.twiceMedian}) >= s.n
      /\ 2 * Cardinality({i \in DOMAIN s.sample : ratio(i) >= s.twiceMedian}) >= s.n
      /\ 2 * s.p25 <= s.twiceMedian /\ s.twiceMedian <= 2 * s.p75
      /\ \A i \in DOMAIN table :
            i \in upTo(i) /\ Cardinality(upTo(i)) <= SampleCap
                => \E k \in DOMAIN s.sample : s.sample[k] = table[i]

LEMMA SectorsHold ==
  ASSUME NEW table \in Seq(CostContracts), NEW n \in Nat, n > 0, NEW s \in SectorsOf(table, n)
  PROVE  SectorHolds(s, table, n)
<1>1. PICK category : s = SectorOf(SampleOf(table, category, n), n)
                      /\ Len(SampleOf(table, category, n)) >= SectorMin
  BY DEF SectorsOf
<1> DEFINE t == SampleOf(table, category, n)  K == Comparables(table, category, n)
           ratios == RatiosOf(t, n)  m == Len(t)
<1>2. SampledFrom(t, table, K, SampleCap)
  BY SampleIs
<1>3. SectorMin \in Nat /\ SectorMin > 0
  BY EntryCostAssumption DEF EntryCostAssumption
<1>4. /\ s.n = Len(t) /\ s.sample = t /\ s.twiceMedian = TwiceMedian(RatiosOf(t, n))
      /\ s.p25 = Ranked(RatiosOf(t, n), Len(t) \div 4 + 1)
      /\ s.p75 = Ranked(RatiosOf(t, n), (3 * Len(t)) \div 4 + 1)
  BY <1>1 DEF SectorOf
<1>5. Len(t) >= SectorMin
  BY <1>1
<1> HIDE DEF t
<1>6. t \in Seq(CostContracts) /\ m \in Nat /\ m > 0 /\ DOMAIN t = 1..m
  BY <1>2, <1>3, <1>5 DEF SampledFrom
<1>7. \A a \in 1..m : \E i \in K : t[a] = table[i]
  BY <1>2 DEF SampledFrom
<1>8. \A a \in 1..m : PremiumRatio(CostOfSize(t[a], n)) \in Int
  <2> SUFFICES ASSUME NEW a \in 1..m PROVE PremiumRatio(CostOfSize(t[a], n)) \in Int
    OBVIOUS
  <2>1. PICK i \in K : t[a] = table[i]
    BY <1>7
  <2>2. table[i] \in CostContracts /\ Costable(table[i])
    BY DEF Comparables
  <2>3. Costed(table[i])
    BY <2>2, ContractsAre
  <2> QED BY <2>1, <2>3, RatioIs
<1>9. ratios = [a \in 1..m |-> PremiumRatio(CostOfSize(t[a], n))]
  BY <1>6 DEF RatiosOf
<1>10. ratios \in [1..m -> Int] /\ Len(ratios) = m
  BY <1>6, <1>8, <1>9
<1> HIDE DEF ratios, m
<1>11. /\ 2 * Cardinality({i \in 1..m : 2 * ratios[i] <= TwiceMedian(ratios)}) >= m
       /\ 2 * Cardinality({i \in 1..m : 2 * ratios[i] >= TwiceMedian(ratios)}) >= m
       /\ 2 * Ranked(ratios, m \div 4 + 1) <= TwiceMedian(ratios)
       /\ TwiceMedian(ratios) <= 2 * Ranked(ratios, (3 * m) \div 4 + 1)
  BY <1>6, <1>10, MedianIsMiddle
<1> DEFINE ratio(i) == 2 * PremiumRatio(CostOfSize(s.sample[i], n))
           upTo(i) == {j \in 1..i : table[j].category = s.sample[1].category
                                    /\ Costable(table[j]) /\ ComparedAt(table[j], n)}
<1>12. /\ s.n = m /\ s.sample = t /\ s.twiceMedian = TwiceMedian(ratios)
       /\ s.p25 = Ranked(ratios, m \div 4 + 1) /\ s.p75 = Ranked(ratios, (3 * m) \div 4 + 1)
  BY <1>4 DEF ratios, m
<1>13. \A i \in 1..m : ratio(i) = 2 * ratios[i]
  BY <1>9, <1>12
<1>14. /\ {i \in DOMAIN s.sample : ratio(i) <= s.twiceMedian}
             = {i \in 1..m : 2 * ratios[i] <= TwiceMedian(ratios)}
       /\ {i \in DOMAIN s.sample : ratio(i) >= s.twiceMedian}
             = {i \in 1..m : 2 * ratios[i] >= TwiceMedian(ratios)}
  <2> HIDE DEF ratio
  <2> QED BY <1>6, <1>12, <1>13
<1>15. ASSUME NEW i \in DOMAIN table, i \in upTo(i), Cardinality(upTo(i)) <= SampleCap
       PROVE  \E k \in DOMAIN s.sample : s.sample[k] = table[i]
  <2>1. PICK j \in K : t[1] = table[j]
    BY <1>6, <1>7
  <2>2. s.sample[1].category = category
    BY <1>12, <2>1 DEF Comparables
  <2>3. i \in 1..Len(table) /\ \A x \in 1..i : x \in 1..Len(table) /\ x <= i
    OBVIOUS
  <2>4. \A x \in 1..Len(table) : x <= i => x \in 1..i
    BY <2>3
  <2>5. upTo(i) = Upto(K, i)
    BY <2>2, <2>3, <2>4 DEF Upto, Comparables
  <2>6. i \in K
    BY <1>15, <2>5 DEF Upto
  <2>7. \E k \in 1..Len(t) : t[k] = table[i]
    BY <1>2, <1>15, <2>5, <2>6 DEF SampledFrom
  <2> QED BY <1>6, <1>12, <2>7 DEF m
<1> HIDE DEF ratio, upTo
<1>16. /\ 2 * Cardinality({i \in DOMAIN s.sample : ratio(i) <= s.twiceMedian}) >= s.n
       /\ 2 * Cardinality({i \in DOMAIN s.sample : ratio(i) >= s.twiceMedian}) >= s.n
       /\ 2 * s.p25 <= s.twiceMedian /\ s.twiceMedian <= 2 * s.p75
  BY <1>11, <1>12, <1>14
<1> QED BY <1>15, <1>16 DEF SectorHolds, ratio, upTo

-----------------------------------------------------------------------------
(* The answers.                                                            *)

\* What is told of one contract at one size.
ToldTruly(c, e) ==
  /\ Near(e.measured * e.filled, CashFor(c, e), CostSlack(e.filled))
  /\ (\A i \in DOMAIN c.levels : c.levels[i].price % (One \div 100) = 0) /\ e.full =>
        SummaryCost(c.m, e.nominal, e.size).measured * e.size
            <= e.measured * e.size + CostSlack(e.size)

LEMMA AnalysisHolds ==
  ASSUME NEW c \in Contracts, Costable(c), NEW wanted \in SUBSET Int, ~ SizeRefused(wanted),
         NEW e \in AnalyseCost(c, wanted, Ladder).requested \cup AnalyseCost(c, wanted, Ladder).ladder
  PROVE  ToldTruly(c, e)
<1>1. PICK n \in Ladder \cup wanted : e = CostOfSize(c, n)
  BY DEF AnalyseCost
<1>2. n \in Nat /\ n > 0
  BY EntryCostAssumption DEF EntryCostAssumption, SizeRefused
<1>3. Costed(c)
  BY ContractsAre, EntryCostAssumption DEF EntryCostAssumption
<1>4. Near(e.measured * e.filled, CashFor(c, e), CostSlack(e.filled))
  BY <1>1, <1>2, <1>3, CashIsTold DEF Near
<1>5. ASSUME \A i \in DOMAIN c.levels : c.levels[i].price % (One \div 100) = 0, e.full
      PROVE  SummaryCost(c.m, e.nominal, e.size).measured * e.size
                <= e.measured * e.size + CostSlack(e.size)
  BY <1>1, <1>2, <1>3, <1>5, FloorHolds
<1> QED BY <1>4, <1>5 DEF ToldTruly

LEMMA TellCostHolds == ASSUME TellCost PROVE CostsAddUp'
<1>1. PICK c \in Contracts, wanted \in {{}} \cup {{n} : n \in Wanted} :
         entry' = IF SizeRefused(wanted) THEN [did |-> "refused"]
                  ELSE IF ~ Costable(c) THEN [did |-> "unpriced", c |-> c]
                  ELSE [did |-> "told", c |-> c, truth |-> AnalyseCost(c, wanted, Ladder)]
  BY DEF TellCost
<1>2. wanted \in SUBSET Int
  BY EntryCostAssumption DEF EntryCostAssumption
<1>3. CASE SizeRefused(wanted) \/ ~ Costable(c)
  <2>1. entry'.did # "told" /\ entry'.did # "compared"
    BY <1>1, <1>3
  <2> QED BY <2>1 DEF CostsAddUp
<1>4. CASE ~ SizeRefused(wanted) /\ Costable(c)
  <2>1. entry'.did = "told" /\ entry'.c = c /\ entry'.truth = AnalyseCost(c, wanted, Ladder)
    BY <1>1, <1>4
  <2>2. \A e \in EntriesTold' : ToldTruly(c, e)
    BY <1>2, <1>4, <2>1, AnalysisHolds DEF EntriesTold
  <2>3. OutlayIsTheCash'
    BY <2>1, <2>2 DEF OutlayIsTheCash, ToldTruly, Near
  <2>4. SummaryIsAFloor'
    BY <2>1, <2>2 DEF SummaryIsAFloor, ToldTruly
  <2> QED BY <2>1, <2>3, <2>4 DEF CostsAddUp
<1> QED BY <1>3, <1>4

LEMMA CompareCostsHolds == ASSUME CompareCosts PROVE CostsAddUp'
<1>1. PICK t \in Tables, n \in {k \in Wanted : ~ SizeRefused({k})} :
         entry' = [did |-> "compared", table |-> t, n |-> n, index |-> IndexOf(t, n),
                   sectors |-> SectorsOf(t, n)]
  BY DEF CompareCosts
<1>2. entry'.did = "compared" /\ entry'.table = t /\ entry'.n = n /\ entry'.sectors = SectorsOf(t, n)
  BY <1>1
<1>3. t \in Seq(CostContracts) /\ n \in Nat /\ n > 0
  BY EntryCostAssumption DEF EntryCostAssumption, SizeRefused
<1>4. \A s \in entry'.sectors : SectorHolds(s, entry'.table, entry'.n)
  BY <1>2, <1>3, SectorsHold
<1>5. SectorsAreTheirContracts'
  BY <1>4 DEF SectorsAreTheirContracts, SectorHolds
<1> QED BY <1>2, <1>5 DEF CostsAddUp

(* The cost told per contract, times what fills, is the cash the order takes within   *)
(* the rounding of its parts; what is told without a book is a floor under what a     *)
(* book gives; a category's median and quarters are those of its most traded          *)
(* comparable contracts: for every contract, ladder, table and size                   *)
(* (pricing/cost_truth.py, routers/cost.py).                                          *)
THEOREM CostsHold == EntrySpec => []CostsAddUp
<1>1. EntryInit => CostsAddUp
  BY DEF EntryInit, CostsAddUp
<1>2. CostsAddUp /\ [EntryNext]_entryVars => CostsAddUp'
  <2> SUFFICES ASSUME CostsAddUp, [EntryNext]_entryVars PROVE CostsAddUp'
    OBVIOUS
  <2>1. CASE TellCost
    BY <2>1, TellCostHolds
  <2>2. CASE CompareCosts
    BY <2>2, CompareCostsHolds
  <2>3. CASE UNCHANGED entryVars
    <3>1. entry' = entry
      BY <2>3 DEF entryVars
    <3>2. OutlayIsTheCash' = OutlayIsTheCash
      BY <3>1 DEF OutlayIsTheCash, EntriesTold
    <3>3. SummaryIsAFloor' = SummaryIsAFloor
      BY <3>1 DEF SummaryIsAFloor, EntriesTold
    <3>4. SectorsAreTheirContracts' = SectorsAreTheirContracts
      BY <3>1 DEF SectorsAreTheirContracts
    <3> QED BY <3>1, <3>2, <3>3, <3>4 DEF CostsAddUp
  <2> QED BY <2>1, <2>2, <2>3 DEF EntryNext
<1> QED BY <1>1, <1>2, PTL DEF EntrySpec
=============================================================================
