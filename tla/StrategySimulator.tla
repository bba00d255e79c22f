------------------------- MODULE StrategySimulator -------------------------
(***************************************************************************)
(* The replay loop of alpha/simulator.py with the exposure ledger of       *)
(* alpha/sizing.py and the resting-order rule of alpha/execution.py.       *)
(* Markets are replayed one after the other; inside a market the events    *)
(* come by instant and, in one instant, by the rank of their kind.  A      *)
(* timeline is chosen as the replay reaches it, an instant at a time.      *)
(*                                                                         *)
(* Prices, sizes and notionals are integers (ticks, contracts and          *)
(* ticks*contracts).  Factors, alpha scores and exit rules are data: a     *)
(* signal may be refused or taken, a position kept or closed.  One event   *)
(* is two or three steps, the parts of the loop body in their order.       *)
(***************************************************************************)
EXTENDS Integers, FiniteSetsExt

CONSTANTS
  MARKETS,     \* how many histories the run is given
  Buckets,     \* the markets, categories, strategies and groups of the ledger
  BucketsOf,   \* the buckets a market's positions count in
  Cap,         \* the ceiling of a bucket
  BASE,        \* base_notional_usd
  DAY_CAP,     \* max_daily_deployment_usd
  Prices,      \* the prices quoted, rested at and paid
  Capacities,  \* max_share_of_capacity of the depth seen
  Volumes,     \* the volumes that print in one instant
  SHARE,       \* a resting order is credited one SHARE-th of the prints
  REVIEW,      \* review_interval, in instants
  LAST,        \* instants in a timeline
  MANY,        \* events of one kind in one instant
  Days,        \* calendar days
  DayOf        \* the day of an instant

ASSUME ReplayAssumption ==
  /\ {MARKETS, BASE, DAY_CAP, LAST, MANY} \subseteq Nat
  /\ {SHARE, REVIEW} \subseteq Nat \ {0}
  /\ Prices \subseteq Nat \ {0}
  /\ Capacities \subseteq Nat
  /\ Volumes \subseteq Nat \ {0}
  /\ BucketsOf \in [1..MARKETS -> SUBSET Buckets]
  /\ Cap \in [Buckets -> Nat]
  /\ DayOf \in [0..LAST -> Days]

Instants == 1..LAST

\* The kinds the loop tells apart, in the order of EventKind.
Rank == [order_book |-> 1, trade |-> 2, source_observation |-> 3, settlement |-> 4]
Kinds == DOMAIN Rank

NoOrder == [size |-> 0, limit |-> 0, quoted |-> 0, posted |-> 0]
NoPosition == [contracts |-> 0, price |-> 0]
Notional(pos) == pos.contracts * pos.price

VARIABLES
  market,    \* the history being replayed; MARKETS + 1 when the run is over
  when,      \* the instant reached
  agenda,    \* the events of this instant still to come, by kind
  event,     \* the kind of the event in hand
  phase,     \* "next", or the part of the loop body reached: "resting", "dispatch"
  prints,    \* what traded at each instant: price and volume
  settled,   \* the venue's settlement is on the timeline already
  pending,   \* the resting order
  position,  \* the open position
  lastReview,\* instant of the last review, 0 before the first
  ledger,    \* open notional by bucket
  deployed,  \* notional committed by day
  owed,      \* signals evaluated that no tally of SimulationResult holds yet
  vanished,  \* history: positions dropped without a trade
  left,      \* notional of the position a finished timeline left open
  captured,  \* history: contracts of this market filled by resting orders
  overpaid,  \* history: notional paid above the quotes orders were sized at
  moved      \* history: notional committed to another day than was checked

timeline == <<when, agenda, prints, settled>>
books    == <<ledger, deployed, overpaid, moved>>
tallies  == <<owed, vanished>>
replayVars == <<market, timeline, event, phase, pending, position, lastReview, books, tallies,
          left, captured>>

Blank == [t \in Instants |-> [price |-> 0, volume |-> 0]]

ReplayInit ==
  /\ market = 1 /\ when = 0
  /\ agenda = [k \in Kinds |-> 0] /\ event = "none" /\ phase = "next"
  /\ prints = Blank /\ settled = FALSE
  /\ pending = NoOrder /\ position = NoPosition /\ lastReview = 0
  /\ ledger = [b \in Buckets |-> 0] /\ deployed = [d \in Days |-> 0]
  /\ owed = 0 /\ vanished = 0
  /\ left = [m \in 1..MARKETS |-> 0]
  /\ captured = 0 /\ overpaid = 0 /\ moved = 0

OneIf(b) == IF b THEN 1 ELSE 0

\* The signal in hand becomes a trade, a refusal, an unfilled order or a note.
Tallied == owed' = owed - 1 /\ UNCHANGED vanished
Resting == pending.size > 0
Holding == position.contracts > 0

-----------------------------------------------------------------------------
(* The timeline: sorted by instant, then by rank.                          *)

Quiet == \A k \in Kinds : agenda[k] = 0

\* The next instant at which something of this market becomes available.
NextInstant ==
  /\ market <= MARKETS /\ phase = "next" /\ Quiet /\ when < LAST
  /\ \E t \in (when + 1)..LAST, a \in [Kinds -> 0..MANY],
       p \in [price : Prices, volume : Volumes] :
       /\ \E k \in Kinds : a[k] > 0
       /\ a["settlement"] <= IF settled THEN 0 ELSE 1
       /\ when' = t
       /\ agenda' = a
       /\ prints' = IF a["trade"] > 0 THEN [prints EXCEPT ![t] = p] ELSE prints
       /\ settled' = (settled \/ a["settlement"] > 0)
  /\ UNCHANGED <<market, event, phase, pending, position, lastReview, books,
                 tallies, left, captured>>

\* Is k the kind of the next event of the instant?
IsFirst(k) == /\ agenda[k] > 0
              /\ \A j \in Kinds : agenda[j] > 0 => Rank[k] <= Rank[j]

NextEvent ==
  /\ market <= MARKETS /\ phase = "next"
  /\ \E k \in Kinds :
       /\ IsFirst(k)
       /\ event' = k
       /\ agenda' = [agenda EXCEPT ![k] = @ - 1]
       /\ phase' = IF Resting /\ k \in {"trade", "order_book"}
                   THEN "resting" ELSE "dispatch"
  /\ UNCHANGED <<market, when, prints, settled, pending, position, lastReview,
                 books, tallies, left, captured>>

-----------------------------------------------------------------------------
(* The ledger.                                                             *)

\* commit, for a position of the market in hand that was sized at `quoted` in
\* the headroom of day `checked`.
Commit(pos, quoted, checked) ==
  /\ ledger' = [b \in Buckets |-> IF b \in BucketsOf[market]
                                  THEN ledger[b] + Notional(pos) ELSE ledger[b]]
  /\ deployed' = [deployed EXCEPT ![DayOf[when]] = @ + Notional(pos)]
  /\ overpaid' = overpaid + IF pos.price > quoted
                            THEN (pos.price - quoted) * pos.contracts ELSE 0
  /\ moved' = moved + IF DayOf[when] = checked THEN 0 ELSE Notional(pos)

\* Mutant of Freed: the bucket is cleared, not reduced.
FreedWhole(b) == 0

\* release: exposure is freed, the day's deployment is not.
Freed(b) == IF ledger[b] >= Notional(position)
            THEN ledger[b] - Notional(position) ELSE 0

Release ==
  /\ ledger' = [b \in Buckets |-> IF b \in BucketsOf[market]
                                  THEN Freed(b) ELSE ledger[b]]
  /\ UNCHANGED <<deployed, overpaid, moved>>

\* Mutant of Fits: the ceilings are compared with the order alone.
FitsFresh(notional, capacity) ==
  /\ notional <= BASE
  /\ notional <= capacity
  /\ \A b \in BucketsOf[market] : notional <= Cap[b]
  /\ notional <= DAY_CAP - deployed[DayOf[when]]

\* Does a notional fit below every ceiling of size_position?
Fits(notional, capacity) ==
  /\ notional <= BASE
  /\ notional <= capacity
  /\ \A b \in BucketsOf[market] : notional <= Cap[b] - ledger[b]
  /\ notional <= DAY_CAP - deployed[DayOf[when]]

\* The contracts size_position grants at a quoted price: as many whole ones as
\* the smallest headroom buys.
Sized(quoted, capacity) ==
  {n \in 1..BASE : /\ Fits(n * quoted, capacity)
                   /\ ~Fits((n + 1) * quoted, capacity)}

-----------------------------------------------------------------------------
(* A resting order is checked against what printed since it was posted.    *)

\* Mutant of Since: the instant of posting is included.
SinceClosed(t) == {u \in Instants : pending.posted <= u /\ u <= t}

Since(t) == {u \in Instants : pending.posted < u /\ u <= t}

Traded == MapThenSumSet(LAMBDA u : IF prints[u].price <= pending.limit
                                   THEN prints[u].volume ELSE 0, Since(when))

\* The share a queue position could have captured, in whole contracts.
FillSize == LET share == Traded \div SHARE
            IN  IF share < pending.size THEN share ELSE pending.size

\* Mutant of Withdrawn: the order stays on the book.
WithdrawnNot == UNCHANGED pending

\* The order leaves the book: a partial fill gives up the rest of its size.
Withdrawn == pending' = NoOrder

RestingFills ==
  /\ phase = "resting"
  /\ \E fill \in 1..pending.size :
       /\ fill = FillSize
       /\ position' = [contracts |-> fill, price |-> pending.limit]
       /\ Commit([contracts |-> fill, price |-> pending.limit],
                 pending.quoted, DayOf[pending.posted])
       /\ captured' = captured + fill
  /\ Withdrawn
  /\ phase' = "dispatch"
  /\ UNCHANGED <<market, timeline, event, lastReview, tallies, left>>

RestingExpires ==
  /\ phase = "resting" /\ FillSize = 0 /\ when - pending.posted >= REVIEW
  /\ Withdrawn
  /\ Tallied
  /\ phase' = "dispatch"
  /\ UNCHANGED <<market, timeline, event, position, lastReview, books, left, captured>>

RestingWaits ==
  /\ phase = "resting" /\ FillSize = 0 /\ when - pending.posted < REVIEW
  /\ phase' = "dispatch"
  /\ UNCHANGED <<market, timeline, event, pending, position, lastReview, books, tallies,
                 left, captured>>

-----------------------------------------------------------------------------
(* What the event calls for.                                               *)

Done == phase' = "next" /\ event' = "none"

Settle ==
  /\ phase = "dispatch" /\ event = "settlement" /\ Holding
  /\ Tallied
  /\ Release
  /\ position' = NoPosition
  /\ Done
  /\ UNCHANGED <<market, timeline, pending, lastReview, left, captured>>

DueForReview == Holding /\ (lastReview = 0 \/ when - lastReview >= REVIEW)
ShouldDecide == event = "source_observation" \/ DueForReview
Deciding == phase = "dispatch" /\ ShouldDecide
            /\ ~(event = "settlement" /\ Holding)

\* Nothing to decide on this event, no book or estimate to decide from, an order
\* resting already, or a signal tallied at once: declined, not worth a contract,
\* without room to rest inside the touch or an ask ladder to fill from.
PassOver ==
  /\ phase = "dispatch"
  /\ ~(event = "settlement" /\ Holding)
  /\ Done
  /\ UNCHANGED <<market, timeline, pending, position, lastReview, books, tallies,
                 left, captured>>

Keep ==
  /\ Deciding /\ Holding
  /\ lastReview' = when
  /\ Done
  /\ UNCHANGED <<market, timeline, pending, position, books, tallies, left, captured>>

\* _close returns a trade, or nothing when the book has no bid.
Close == Tallied \/ (vanished' = vanished + 1 /\ UNCHANGED owed)

\* The exit rule fires: trade or none, the position is released and dropped.
Exit ==
  /\ Deciding /\ Holding
  /\ lastReview' = when
  /\ Close
  /\ Release
  /\ position' = NoPosition
  /\ Done
  /\ UNCHANGED <<market, timeline, pending, left, captured>>

\* May a new signal be evaluated?
Free == Deciding /\ ~Holding /\ ~Resting

\* The ladder fills all or part of the size, at its average price.
Take ==
  /\ Free
  /\ \E quoted \in Prices, capacity \in Capacities, paid \in Prices :
       \E n \in Sized(quoted, capacity) : \E filled \in 1..n :
         /\ position' = [contracts |-> filled, price |-> paid]
         /\ Commit([contracts |-> filled, price |-> paid], quoted, DayOf[when])
  /\ owed' = owed + 1 /\ UNCHANGED vanished
  /\ Done
  /\ UNCHANGED <<market, timeline, pending, lastReview, left, captured>>

Post ==
  /\ Free
  /\ \E quoted \in Prices, capacity \in Capacities, limit \in Prices :
       \E n \in Sized(quoted, capacity) :
         pending' = [size |-> n, limit |-> limit, quoted |-> quoted, posted |-> when]
  /\ owed' = owed + 1 /\ UNCHANGED vanished
  /\ Done
  /\ UNCHANGED <<market, timeline, position, lastReview, books, left, captured>>

\* Mutant of Unfinished: an order still resting is forgotten.
UnfinishedHeld == OneIf(Holding)

Unfinished == OneIf(Resting) + OneIf(Holding)

\* The timeline ended: an open position is excluded, not marked, and stays in
\* the ledger, with a note; an order still resting is counted as unfilled.
EndTimeline ==
  /\ market <= MARKETS /\ phase = "next" /\ Quiet
  /\ left' = [left EXCEPT ![market] = Notional(position)]
  /\ owed' = owed - Unfinished
  /\ market' = market + 1
  /\ when' = 0 /\ event' = "none" /\ prints' = Blank /\ settled' = FALSE
  /\ pending' = NoOrder /\ position' = NoPosition /\ lastReview' = 0
  /\ captured' = 0
  /\ UNCHANGED <<agenda, phase, books, vanished>>

ReplayNext ==
  \/ NextInstant \/ NextEvent
  \/ RestingFills \/ RestingExpires \/ RestingWaits
  \/ Settle \/ PassOver
  \/ Keep \/ Exit
  \/ Take \/ Post
  \/ EndTimeline

ReplaySpec == ReplayInit /\ [][ReplayNext]_replayVars

-----------------------------------------------------------------------------
Orders    == [size : Nat, limit : Nat, quoted : Nat, posted : 0..LAST]
Positions == [contracts : Nat, price : Nat]

(* Every variable keeps its type, and no event is in hand once every history *)
(* of the run has been replayed.                                             *)
ReplayTypeOK ==
  /\ market \in 1..(MARKETS + 1) /\ when \in 0..LAST
  /\ agenda \in [Kinds -> Nat] /\ event \in Kinds \cup {"none"}
  /\ phase \in {"next", "resting", "dispatch"}
  /\ prints \in [Instants -> [price : Nat, volume : Nat]]
  /\ settled \in BOOLEAN
  /\ pending \in Orders /\ position \in Positions /\ lastReview \in 0..LAST
  /\ ledger \in [Buckets -> Nat] /\ deployed \in [Days -> Nat]
  /\ {owed, vanished} \subseteq Nat /\ left \in [1..MARKETS -> Nat]
  /\ {captured, overpaid, moved} \subseteq Nat
  /\ phase # "next" => market <= MARKETS

(* A market never has an order resting and a position open: the headroom an  *)
(* order was sized in is still there when it fills (simulator.py:385).       *)
OneAtATime == ~(Resting /\ Holding)

(* The ledger is the open positions, those left by ended timelines included: *)
(* every release takes back exactly what its opening committed, though the   *)
(* amounts are worked out apart (simulator.py:529-559).                      *)
Exposure(m) == left[m] + IF m = market THEN Notional(position) ELSE 0
LedgerMatches ==
  \A b \in Buckets :
    ledger[b] = MapThenSumSet(Exposure, {m \in 1..MARKETS : b \in BucketsOf[m]})

(* A bucket goes above its ceiling by no more than what orders paid above    *)
(* the quote they were sized at, and a day by that and by what was sized in  *)
(* the headroom of another day (sizing.py:230-269, simulator.py:541).        *)
CapsHold ==
  /\ \A b \in Buckets : ledger[b] <= Cap[b] + overpaid
  /\ \A d \in Days : deployed[d] <= DAY_CAP + overpaid + moved

(* No print is credited twice: over all the orders that rest in a market,    *)
(* one after the other, fills are at most the share of what printed          *)
(* (events.py:193-211).                                                      *)
PrintsCountOnce ==
  SHARE * captured <= MapThenSumSet(LAMBDA t : prints[t].volume, Instants)

(* Every signal evaluated is in one tally of the result, still resting, still *)
(* open, or one of the positions that vanished (simulator.py:138-146).       *)
EveryDecisionCounts ==
  owed = OneIf(Resting) + OneIf(Holding) + vanished

\* What the replay reports adds up: exposure stays under its ceilings but for what
\* was paid above a quote or filled on another day, and no decision is lost from the
\* tallies but through the exit that finds no bid.
BooksBalance == CapsHold /\ EveryDecisionCounts
=============================================================================
