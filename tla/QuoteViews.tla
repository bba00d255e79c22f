----------------------------- MODULE QuoteViews -----------------------------
(***************************************************************************)
(* The prices the API tells of a market: quotes.py, routers/markets.py,     *)
(* routers/cost.py and pricing/cost_truth.py.                               *)
(*                                                                         *)
(* Two writers leave a market's row, its summary, at what one of them saw   *)
(* last; captured books are kept and the old ones pruned.  A view reads the *)
(* row, then the newest book's header, then its levels, in statements of    *)
(* their own.  A snapshot deployment serves one file for the life of its    *)
(* process, any other the tables the writers are writing.                   *)
(***************************************************************************)
EXTENDS Integers, FiniteSets

CONSTANTS
  QuotedMarkets,
  Asks, Bids,  \* what the side may be asked and bid at
  Serving,     \* the deployments considered: "snapshot" or "live"
  MinSample,   \* SECTOR_MIN_SAMPLE
  MaxSightings,\* bound: observations of a market
  LastMoment,  \* bound: when a sighting can be of
  NoPrice

ASSUME QuoteAssumption ==
  /\ Asks \cup Bids \subseteq Nat /\ Asks # {} /\ NoPrice \notin Nat
  /\ Serving \subseteq {"snapshot", "live"} /\ Serving # {}
  /\ {MinSample, MaxSightings, LastMoment} \subseteq Nat

VARIABLES
  serving,   \* Settings.snapshot_mode
  up,        \* does a process serve?
  sightings, \* history: every observation of a market that was stored
  spreadOf,  \* market |-> Market.spread
  cutoff,    \* books observed before this are pruned
  sector,    \* _SECTOR_CACHE
  view       \* the request under way, or its answer

quoteVars == <<serving, up, sightings, spreadOf, cutoff, sector, view>>
tables == <<sightings, spreadOf, cutoff>>

\* A sighting is of a listing or of a book, both sides or one of them or none.
\* nth is the order in which they were stored.
Sighting == [of : QuotedMarkets, book : BOOLEAN, at : 0..LastMoment,
             ask : Asks \cup {NoPrice}, bid : Bids \cup {NoPrice}, nth : 1..MaxSightings]

Idle == [step |-> "idle"]

QuoteInit ==
  /\ serving \in Serving /\ up = FALSE
  /\ sightings = {} /\ cutoff = 0
  /\ spreadOf = [m \in QuotedMarkets |-> NoPrice]
  /\ sector = {} /\ view = Idle

-----------------------------------------------------------------------------
(* What is in the tables. *)

SightingsOf(m) == {s \in sightings : s.of = m}

\* The row holds what was stored last, whichever writer it was.
HasRow(m) == SightingsOf(m) # {}
Row(m) == CHOOSE s \in SightingsOf(m) : \A r \in SightingsOf(m) : r.nth <= s.nth

Books(m) == {s \in SightingsOf(m) : s.book /\ s.at >= cutoff}

Spread(s) == IF NoPrice \in {s.ask, s.bid} THEN NoPrice ELSE s.ask - s.bid

-----------------------------------------------------------------------------
(* The writers.  The file of a snapshot is written while no process serves it. *)

Writable == serving = "live" \/ ~ up

\* What was fetched is stored, whatever was fetched or stored since.
Store(m, book) ==
  /\ Writable /\ Cardinality(SightingsOf(m)) < MaxSightings
  /\ \E at \in 0..LastMoment,
        ask \in Asks \cup {NoPrice}, bid \in Bids \cup {NoPrice} :
       LET s == [of |-> m, book |-> book, at |-> at, ask |-> ask, bid |-> bid,
                 nth |-> Cardinality(SightingsOf(m)) + 1] IN
         /\ NoPrice \notin {ask, bid} => bid < ask
         /\ \A b \in Books(m) : book => b.at # at   \* clocks of microseconds
         /\ sightings' = sightings \cup {s}
         /\ spreadOf' = IF book /\ Spread(s) = NoPrice THEN spreadOf
                        ELSE [spreadOf EXCEPT ![m] = Spread(s)]

\* upsert_markets: the summary.
StoreListing(m) ==
  /\ Store(m, FALSE)
  /\ UNCHANGED <<serving, up, cutoff, sector, view>>

\* store_orderbooks, of a market that is on file.
StoreBook(m) ==
  /\ HasRow(m) /\ Store(m, TRUE)
  /\ UNCHANGED <<serving, up, cutoff, sector, view>>

\* prune_orderbook_snapshots: the cutoff follows the clock.
Prune ==
  /\ Writable /\ cutoff < LastMoment
  /\ cutoff' = cutoff + 1
  /\ UNCHANGED <<serving, up, sightings, spreadOf, sector, view>>

\* A process starts with nothing memoised, on whatever file it was deployed with.
Restart ==
  /\ up' = ~ up
  /\ sector' = {} /\ view' = Idle
  /\ UNCHANGED <<serving, tables>>

-----------------------------------------------------------------------------
(* A quote, and the cost of one market. *)

\* The row, if there is one in this data mode.
ReadRow(m, kind) ==
  /\ up /\ view.step = "idle" /\ HasRow(m)
  /\ view' = [step |-> "row", kind |-> kind, row |-> Row(m)]
  /\ UNCHANGED <<serving, up, sector, tables>>

\* Mutant of Newest: the book that was stored last.
NewestStored(bs) == {b \in bs : \A c \in bs : c.nth <= b.nth}

Newest(bs) == {b \in bs : \A c \in bs : c.at <= b.at}

\* The header of the newest book; none is the empty set.
ReadBook ==
  /\ view.step = "row"
  /\ view' = [step |-> "book", kind |-> view.kind, row |-> view.row,
              book |-> Newest(Books(view.row.of)),
              known |-> Books(view.row.of)]
  /\ UNCHANGED <<serving, up, sector, tables>>

\* The book whose levels are still there, if it has any.
Levels == {b \in view.book : b \in Books(b.of) /\ {b.ask, b.bid} # {NoPrice}}

\* Mutant of SummarySpread: the venue's own column.
SpreadColumn(row) == spreadOf[row.of]

SummarySpread(row) == Spread(row)

\* _quote_from_snapshot, or _summary_quote: every price from one or the other.
QuoteOf(row, levels) ==
  IF levels = {}
  THEN [source |-> IF row.ask = NoPrice THEN "none" ELSE "venue_summary",
        at |-> row.at, ask |-> row.ask, bid |-> row.bid, spread |-> SummarySpread(row)]
  ELSE LET b == CHOOSE b \in levels : TRUE IN
       [source |-> "orderbook", at |-> b.at, ask |-> b.ask, bid |-> b.bid,
        spread |-> Spread(b)]

\* The endpoints take a book that is not empty, and date the answer by it.  The
\* analysis wants one that is asked on this side, and else takes the row's ask.
CostOf(row, levels) ==
  LET dated == IF levels = {} THEN row ELSE CHOOSE b \in levels : TRUE
      price == IF dated.ask # NoPrice THEN dated.ask ELSE row.ask IN
  [source |-> IF levels # {} /\ dated.ask # NoPrice THEN "orderbook"
              ELSE IF price = NoPrice THEN "none" ELSE "venue_summary",
   at |-> dated.at, ask |-> price]

ReadLevels ==
  /\ view.step = "book"
  /\ view' = [step |-> "told", kind |-> view.kind, row |-> view.row,
              book |-> view.book, known |-> view.known, levels |-> Levels,
              answer |-> IF view.kind = "quote" THEN QuoteOf(view.row, Levels)
                         ELSE CostOf(view.row, Levels)]
  /\ UNCHANGED <<serving, up, sector, tables>>

-----------------------------------------------------------------------------
(* cost_by_category, which prices the markets one after the other; here, at once. *)

CostNow(m) == CostOf(Row(m), {b \in Newest(Books(m)) : {b.ask, b.bid} # {NoPrice}})

\* The open markets that have a price.
Priced == {m \in QuotedMarkets : HasRow(m) /\ CostNow(m).ask # NoPrice}

SectorNow ==
  IF Cardinality(Priced) < MinSample THEN {}
  ELSE {[of |-> m, ask |-> CostNow(m).ask] : m \in Priced}

\* Mutant of Cacheable: memoised wherever it is served.
CacheableAnywhere == TRUE

Cacheable == serving = "snapshot"

\* The memo is looked up first; what is computed is kept where it may be.
TellSector ==
  /\ up /\ view.step \in {"idle", "told"}
  /\ LET rows == IF Cacheable /\ sector # {}
                 THEN CHOOSE s \in sector : TRUE ELSE SectorNow IN
       /\ view' = [step |-> "told", kind |-> "sector", answer |-> rows,
                   fresh |-> rows = SectorNow]
       /\ sector' = IF Cacheable THEN {rows} ELSE sector
  /\ UNCHANGED <<serving, up, tables>>

QuoteNext ==
  \/ \E m \in QuotedMarkets : StoreListing(m) \/ StoreBook(m)
  \/ Prune \/ Restart
  \/ \E m \in QuotedMarkets, k \in {"quote", "cost"} : ReadRow(m, k)
  \/ ReadBook \/ ReadLevels \/ TellSector

QuoteSpec == QuoteInit /\ [][QuoteNext]_quoteVars

-----------------------------------------------------------------------------
(* Properties. *)

QuoteTypeOK ==
  /\ serving \in Serving /\ up \in BOOLEAN
  /\ cutoff \in 0..LastMoment
  /\ sightings \subseteq Sighting
  /\ view.step \in {"idle", "row", "book", "told"}

Answered(kind) == view.step = "told" /\ view.kind = kind

\* The observation an answer may be of.
Source == view.levels \cup {view.row}

\* The bid, the ask, the distance between them and their age are of one sighting.
\* It is no older than a book that was on file, unless the newest was empty or was
\* pruned before its levels were read.
QuoteIsOneSighting ==
  Answered("quote") =>
    LET q == view.answer IN
    /\ \E s \in Source : /\ q.ask = s.ask /\ q.bid = s.bid /\ q.at = s.at
                         /\ q.spread = Spread(s)
    /\ q.source = "orderbook" => \A b \in view.known : b.at <= q.at
    /\ q.source # "orderbook" => view.levels = {}

\* A cost is of the sighting that dates it, or the newest book is not asked on
\* this side: then the price is the row's and the date is the book's.
CostIsDated ==
  Answered("cost") /\ view.answer.source # "none" =>
    \/ \E s \in Source : view.answer.ask = s.ask /\ view.answer.at = s.at
    \/ \E b \in view.levels : b.ask = NoPrice /\ view.answer.at = b.at

\* What was memoised is still what would be computed.
SectorIsCurrent == Answered("sector") => view.fresh

PricesAreObservations == QuoteIsOneSighting /\ CostIsDated /\ SectorIsCurrent

=============================================================================
