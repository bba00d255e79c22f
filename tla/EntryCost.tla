------------------------------- MODULE EntryCost -------------------------------
(***************************************************************************)
(* What it costs to get in: the analysis of one contract at one size and    *)
(* across a ladder of sizes (pricing/cost_truth.py), and the two tables the *)
(* API makes of many contracts, ranked by premium and by category           *)
(* (routers/cost.py).                                                      *)
(*                                                                         *)
(* A contract is [m, levels, summary, category, age]: the market m also has *)
(* its minimum order and whether it says when it resolves; levels is the    *)
(* ask ladder of the side, <<>> when no book was captured; summary is the   *)
(* venue's ask and age that of the quote, the empty set when unknown.       *)
(***************************************************************************)
EXTENDS BookPricing, FiniteSets, TLC

CONSTANTS
    Contracts,     \* what may be analysed
    Tables,        \* sequences of contracts, by volume, that may be compared
    Ladder,        \* DEFAULT_LADDER
    Wanted,        \* sizes a request may name
    CostMaxSize,   \* MAX_SIZE
    IndexLimit,    \* rows of the ranked table
    SampleCap,     \* SECTOR_SAMPLE_PER_CATEGORY
    SectorMin,     \* SECTOR_MIN_SAMPLE
    StaleAfter     \* STALE_QUOTE_SECONDS

\* What may be analysed: fees of at most half the price (fees.py: 0.07 times a series'
\* multiplier), asks sorted, best first (parse_orderbook, _parse_book_sides).
CostMarkets ==
    [venue : {"kalshi", "polymarket"}, rate : 0..50, flat : BOOLEAN, tick : Nat,
     minOrder : Nat, resolves : BOOLEAN]
CostLadders ==
    {ls \in Seq([price : 1..(One - 1), size : Nat \ {0}]) :
        \A i, k \in DOMAIN ls : i < k => ls[i].price <= ls[k].price}
CostContracts ==
    [m : CostMarkets, levels : CostLadders, summary : {{}} \cup {{a} : a \in 0..One},
     category : STRING, age : SUBSET Nat]

ASSUME EntryCostAssumption ==
    /\ Contracts \subseteq CostContracts /\ Tables \subseteq Seq(CostContracts)
    /\ Ladder \subseteq Nat \ {0} /\ Wanted \subseteq Int
    /\ {CostMaxSize, IndexLimit, SampleCap, StaleAfter} \subseteq Nat /\ SectorMin \in Nat \ {0}

VARIABLE entry

entryVars == <<entry>>

-----------------------------------------------------------------------------
(* The cost stack of one size, per contract *)

\* Mutant of Amortised: over what was asked for, not what fills.
AmortisedOverAsked(total, asked, filled) == HalfUp(total, asked)

Amortised(total, asked, filled) == HalfUp(total, filled)

CapitalEach(m, price) == IF m.resolves THEN CapitalCost(price, 1) ELSE 0

\* CostAtSize: depth impact is unknown, not zero, when no ladder was walked.
Stack(m, asked, filled, full, nominal, price, depth) ==
    [size |-> asked, filled |-> filled, full |-> full, nominal |-> nominal,
     depth |-> depth, below |-> asked < m.minOrder,
     measured |-> Money * price
                  + Amortised(TakerFee(m, filled, price), asked, filled)
                  + Amortised(TransferOf(m), asked, filled)
                  + CapitalEach(m, price)]

SummaryCost(m, ask, n) == Stack(m, n, n, FALSE, ask, ask, {})

BookCost(m, levels, n) ==
    LET q == Walk(levels, n)
        price == AveragePrice(q)
    IN  Stack(m, n, q.filled, q.filled = n, BestAsk(levels), price, {price - BestAsk(levels)})

Premium(e) == e.measured - Money * e.nominal
\* In parts per thousand.
PremiumRatio(e) == (1000 * Premium(e)) \div (Money * e.nominal)

-----------------------------------------------------------------------------
(* The analysis: a ladder that was observed, or else the venue's summary. *)

Costable(c) == c.levels # <<>> \/ \E a \in c.summary : a > 0

CostOfSize(c, n) ==
    IF c.levels # <<>> THEN BookCost(c.m, c.levels, n)
    ELSE SummaryCost(c.m, CHOOSE a \in c.summary : TRUE, n)

Nominal(c) == IF c.levels # <<>> THEN BestAsk(c.levels) ELSE CHOOSE a \in c.summary : TRUE

\* A size the venue refuses is answered when asked for, never compared.
AnalyseCost(c, wanted, ladder) ==
    LET entries == {CostOfSize(c, n) : n \in ladder \cup wanted} IN
    [nominal |-> Nominal(c), depthKnown |-> c.levels # <<>>,
     stale |-> \E a \in c.age : a > StaleAfter,
     fillable |-> IF c.levels # <<>> THEN {Depth(c.levels)} ELSE {},
     requested |-> {e \in entries : e.size \in wanted},
     ladder |-> {e \in entries : e.size \in ladder /\ ~ e.below}]

\* _parse_size
SizeRefused(wanted) == \E n \in wanted : n <= 0 \/ n > CostMaxSize

-----------------------------------------------------------------------------
(* The tables: contracts that can be compared at a size. *)

ComparedAt(c, n) == ~ CostOfSize(c, n).below

Comparable(table, n) ==
    {i \in DOMAIN table : Costable(table[i]) /\ ComparedAt(table[i], n)}

\* cost_index
IndexOf(table, n) ==
    LET rows == SortSeq(At(table, Comparable(table, n)),
                        LAMBDA c, d : PremiumRatio(CostOfSize(c, n)) > PremiumRatio(CostOfSize(d, n)))
    IN  SubSeq(rows, 1, Min({IndexLimit, Len(rows)}))

\* The sample of a category: its most traded contracts that can be compared.
SampleOf(table, category, n) ==
    LET rows == At(table, {i \in Comparable(table, n) : table[i].category = category})
    IN  SubSeq(rows, 1, Min({SampleCap, Len(rows)}))

RatiosOf(sample, n) == [i \in DOMAIN sample |-> PremiumRatio(CostOfSize(sample[i], n))]

\* The k-th of some numbers in ascending order.
Ranked(numbers, k) ==
    CHOOSE v \in {numbers[i] : i \in DOMAIN numbers} :
        /\ Cardinality({i \in DOMAIN numbers : numbers[i] < v}) < k
        /\ k <= Cardinality({i \in DOMAIN numbers : numbers[i] <= v})

\* The middle of some numbers, doubled.
TwiceMedian(numbers) ==
    LET half == Len(numbers) \div 2 IN
    IF Len(numbers) % 2 = 1 THEN 2 * Ranked(numbers, half + 1)
    ELSE Ranked(numbers, half) + Ranked(numbers, half + 1)

SectorOf(sample, n) ==
    LET ratios == RatiosOf(sample, n) IN
    [n |-> Len(sample), sample |-> sample, twiceMedian |-> TwiceMedian(ratios),
     p25 |-> Ranked(ratios, Len(sample) \div 4 + 1),
     p75 |-> Ranked(ratios, (3 * Len(sample)) \div 4 + 1),
     withBook |-> Cardinality({i \in DOMAIN sample : sample[i].levels # <<>>})]

\* cost_by_category
SectorsOf(table, n) ==
    LET samples == {SampleOf(table, k, n) : k \in {table[i].category : i \in DOMAIN table}}
    IN  {SectorOf(s, n) : s \in {t \in samples : Len(t) >= SectorMin}}

-----------------------------------------------------------------------------

EntryInit == entry = [did |-> "none"]

\* market_cost, and cost_ladder when no size is wanted.
TellCost ==
    /\ entry.did = "none"
    /\ \E c \in Contracts, wanted \in {{}} \cup {{n} : n \in Wanted} :
          entry' = IF SizeRefused(wanted) THEN [did |-> "refused"]
                   ELSE IF ~ Costable(c) THEN [did |-> "unpriced", c |-> c]
                   ELSE [did |-> "told", c |-> c, truth |-> AnalyseCost(c, wanted, Ladder)]

CompareCosts ==
    /\ entry.did = "none"
    /\ \E t \in Tables, n \in {k \in Wanted : ~ SizeRefused({k})} :
          entry' = [did |-> "compared", table |-> t, n |-> n, index |-> IndexOf(t, n),
                    sectors |-> SectorsOf(t, n)]

EntryNext == TellCost \/ CompareCosts

EntrySpec == EntryInit /\ [][EntryNext]_entryVars

-----------------------------------------------------------------------------

\* The cash that leaves for an order, from the ladder and not from an average, and
\* what holding it costs.
CashFor(c, e) ==
    LET paid == IF c.levels = <<>> THEN Money * e.nominal * e.size
                ELSE Walk(c.levels, e.size).notional
    IN  paid + TakerFee(c.m, e.filled, HalfUp(paid, Money * e.filled)) + TransferOf(c.m)
           + (IF c.m.resolves THEN (paid * Interest) \div 100 ELSE 0)

\* What a cost per contract may hide: half a step of the average, the interest on
\* that, and a unit each for fee, transfer and capital.
CostSlack(n) == n * (Money \div 2 + Interest \div 20 + 3)

EntriesTold == entry.truth.requested \cup entry.truth.ladder

\* The cost told per contract, times what fills, is the cash the order takes and
\* what holding it costs, however little of it fills and whatever is fixed or
\* rounded on the whole order; it is told as the price at which buying breaks even.
OutlayIsTheCash ==
    \A e \in EntriesTold :
        LET out == e.measured * e.filled
            cash == CashFor(entry.c, e)
        IN  out - cash <= CostSlack(e.filled) /\ cash - out <= CostSlack(e.filled)

\* What is told without a book is a floor, as the note says: had a whole-cent
\* ladder with that ask been there, an order it fills would have cost no less.
SummaryIsAFloor ==
    (\A i \in DOMAIN entry.c.levels : entry.c.levels[i].price % (One \div 100) = 0) =>
        \A e \in EntriesTold :
            e.full => SummaryCost(entry.c.m, e.nominal, e.size).measured * e.size
                          <= e.measured * e.size + CostSlack(e.size)

\* At least half of a category's sample is on either side of its median, and of its
\* most traded comparable contracts none is passed over for a lesser one.
SectorsAreTheirContracts ==
    \A s \in entry.sectors :
        LET ratio(i) == 2 * PremiumRatio(CostOfSize(s.sample[i], entry.n))
            upTo(i) == {j \in 1..i : entry.table[j].category = s.sample[1].category
                                     /\ Costable(entry.table[j]) /\ ComparedAt(entry.table[j], entry.n)}
        IN  /\ 2 * Cardinality({i \in DOMAIN s.sample : ratio(i) <= s.twiceMedian}) >= s.n
            /\ 2 * Cardinality({i \in DOMAIN s.sample : ratio(i) >= s.twiceMedian}) >= s.n
            /\ 2 * s.p25 <= s.twiceMedian /\ s.twiceMedian <= 2 * s.p75
            /\ \A i \in DOMAIN entry.table :
                  i \in upTo(i) /\ Cardinality(upTo(i)) <= SampleCap
                      => \E k \in DOMAIN s.sample : s.sample[k] = entry.table[i]

CostsAddUp ==
    /\ entry.did = "told" => OutlayIsTheCash /\ SummaryIsAFloor
    /\ entry.did = "compared" => SectorsAreTheirContracts
================================================================================
