---------------------------- MODULE RankingViews ----------------------------
(***************************************************************************)
(* What the API lists of the rankings (routers/opportunities.py), beside    *)
(* the jobs that write them: value/pipeline.py, ranking.py and the refresh   *)
(* of states in backtest/settlement.py.                                    *)
(*                                                                         *)
(* A ranking run scores the open markets, keeps what passes the gates and    *)
(* publishes one batch, all in one transaction that others may overlap.     *)
(* Settlement commits results, grades, and says of every recommendation      *)
(* whether its market can still be bought and at what edge.                  *)
(***************************************************************************)
EXTENDS Integers, FiniteSets

CONSTANTS
  Candidates,  \* the markets in scope
  HorizonOf,   \* market |-> its tightest horizon
  Rankers,     \* ranking runs that may be under way at a time
  TOP_N,
  MaxRuns,     \* bound: ranking runs
  MaxChanges   \* bound: listings, settlements

ASSUME RankingAssumption ==
  /\ TOP_N \in Nat /\ MaxRuns \in Nat /\ MaxChanges \in Nat
  /\ IsFiniteSet(Candidates)

VARIABLES
  statusOf,    \* market |-> of its row
  edge,      \* market |-> what its ask leaves of the edge it was published at
  judgeable, \* market |-> its event is ahead, and its quote two-sided and tight enough
  estimates, \* predictions on file
  ranker,    \* worker |-> what its transaction has written, none if it has none
  recs,      \* recommendations on file
  runs,      \* ranking runs so far; a run is known by its number
  changes,
  believed   \* history: market |-> its status when last published or refreshed

rankingVars == <<statusOf, edge, judgeable, estimates, ranker, recs, runs, changes, believed>>

Horizons == {HorizonOf[m] : m \in Candidates}
Edges == {"whole", "halved", "gone", "unpriced"}
Actionable == {"still_actionable", "edge_reduced"}

Free == [run |-> 0, scored |-> {}]

RankingInit ==
  /\ statusOf = [m \in Candidates |-> "open"]
  /\ edge = [m \in Candidates |-> "whole"]
  /\ judgeable = [m \in Candidates |-> TRUE]
  /\ estimates = {} /\ recs = {}
  /\ ranker = [w \in Rankers |-> Free]
  /\ runs = 0 /\ changes = 0
  /\ believed = [m \in Candidates |-> "unpublished"]

-----------------------------------------------------------------------------
(* The jobs. *)

Moved == changes < MaxChanges /\ changes' = changes + 1

\* A listing or a book: the ask moves, or the bid, or the event is over, or the market
\* closes; a late listing can open it again.
MoveMarket(m) ==
  /\ Moved /\ statusOf[m] # "settled"
  /\ \/ /\ \E e \in Edges \ {edge[m]} : edge' = [edge EXCEPT ![m] = e]
        /\ UNCHANGED <<statusOf, judgeable>>
     \/ /\ judgeable' = [judgeable EXCEPT ![m] = ~ @]
        /\ UNCHANGED <<statusOf, edge>>
     \/ /\ statusOf' = [statusOf EXCEPT ![m] = IF @ = "open" THEN "closed" ELSE "open"]
        /\ UNCHANGED <<edge, judgeable>>
  /\ UNCHANGED <<estimates, ranker, recs, runs, believed>>

\* score_markets: an estimate of every open market that has a price, with or without
\* an independent prior, apart from the implied price (by min_divergence, 0.03, or
\* more) or not; made is the order of created_at.
Score(w) ==
  /\ ranker[w] = Free /\ runs < MaxRuns
  /\ runs' = runs + 1
  /\ LET scoreable == {m \in Candidates : statusOf[m] = "open" /\ edge[m] # "unpriced"} IN
       \E independent \in SUBSET scoreable : \E apart \in SUBSET independent :
         ranker' = [ranker EXCEPT ![w] = [run |-> runs + 1, scored |->
           {[of |-> m, made |-> runs + 1, independent |-> m \in independent,
             apart |-> m \in apart] : m \in scoreable}]]
  /\ UNCHANGED <<statusOf, edge, judgeable, estimates, recs, changes, believed>>

\* The estimate of m with the latest created_at.
LatestOf(m, es) ==
  CHOOSE e \in es : e.of = m /\ \A d \in es : d.of = m => d.made <= e.made

\* rank_candidates: what may be ranked, best first, one entry a market.
Eligible(scored, h) == {e.of : e \in {x \in scored : x.independent /\ HorizonOf[x.of] = h}}

\* The best TOP_N in any order of scores; conservative EV rejects any of them.
Tops(scored, h) ==
  {s \in SUBSET Eligible(scored, h) : Cardinality(s) <= TOP_N}

\* Batches that have rows: a run that recommended nothing wrote none.
BatchesWithRows == Cardinality({r.batch : r \in recs})

\* publish_recommendations, which reads the clock, and the commit.
PublishBatch(w) ==
  /\ ranker[w] # Free
  /\ LET mine == ranker[w].scored
         file == estimates \cup mine IN
       \E top \in [Horizons -> SUBSET Candidates] :
         /\ \A h \in Horizons : top[h] \in Tops(mine, h)
         /\ estimates' = file
         /\ recs' = recs \cup
              {[batch |-> ranker[w].run, nth |-> BatchesWithRows + 1, market |-> m,
                horizon |-> HorizonOf[m],
                state |-> "still_actionable", cites |-> LatestOf(m, file).made] :
                 m \in UNION {top[h] : h \in Horizons}}
         /\ believed' = [m \in Candidates |->
              IF \E h \in Horizons : m \in top[h] THEN "open" ELSE believed[m]]
  /\ ranker' = [ranker EXCEPT ![w] = Free]
  /\ UNCHANGED <<statusOf, edge, judgeable, runs, changes>>

\* The transaction is rolled back.
AbortRanking(w) ==
  /\ ranker[w] # Free
  /\ ranker' = [ranker EXCEPT ![w] = Free]
  /\ UNCHANGED <<statusOf, edge, judgeable, estimates, recs, runs, changes, believed>>

\* Mutant of StateOf: a market that is closed keeps the state its last ask gave it.
StateOfPrice(m, st) ==
  IF st[m] = "settled" THEN "settled"
  ELSE IF edge[m] \in {"unpriced", "gone"} THEN "no_longer_actionable"
  ELSE IF edge[m] = "halved" THEN "edge_reduced"
  ELSE "still_actionable"

StateOf(m, st) ==
  IF st[m] = "settled" THEN "settled"
  ELSE IF st[m] = "closed" THEN "market_closed"
  ELSE IF edge[m] \in {"unpriced", "gone"} THEN "no_longer_actionable"
  ELSE IF edge[m] = "halved" THEN "edge_reduced"
  ELSE "still_actionable"

\* sync_settlements: some closed markets get results, everything on a market with a
\* result is graded, and what is not settled is looked at again.
SettleAndRefresh ==
  /\ Moved
  /\ \E done \in SUBSET {m \in Candidates : statusOf[m] = "closed"} :
       LET st == [m \in Candidates |-> IF m \in done THEN "settled" ELSE statusOf[m]] IN
         /\ statusOf' = st
         /\ recs' = {IF r.state = "settled" THEN r
                     ELSE [r EXCEPT !.state = StateOf(r.market, st)] : r \in recs}
         /\ believed' = [m \in Candidates |->
              IF believed[m] = "unpublished" THEN "unpublished" ELSE st[m]]
  /\ UNCHANGED <<edge, judgeable, estimates, ranker, runs>>

-----------------------------------------------------------------------------
(* The endpoints. *)

\* The batch of the newest row.
LatestBatch == {r.batch : r \in {x \in recs : x.nth = BatchesWithRows}}

\* list_opportunities, with no filter but the horizon.
ListRows(h) ==
  {r \in recs : r.batch \in LatestBatch /\ r.horizon = h /\ r.state \in Actionable}

\* Mutant of Counts: every recommendation of the batch, whatever its state.
CountsOfAll == [h \in Horizons |->
  Cardinality({r \in recs : r.batch \in LatestBatch /\ r.horizon = h})]

\* summary, the tabs above the lists.
Counts == [h \in Horizons |->
  Cardinality({r \in recs : r.batch \in LatestBatch /\ r.state \in Actionable
                            /\ r.horizon = h})]

Estimated == {e.of : e \in estimates}

\* Mutant of DisagreementRows: superseded estimates are looked at too.
DisagreementRowsOfAny(h) ==
  {m \in Estimated :
     /\ statusOf[m] = "open" /\ judgeable[m] /\ HorizonOf[m] = h
     /\ \E e \in estimates : e.of = m /\ e.independent /\ e.apart}

\* disagreements: the newest estimate first, and then whether it is independent; the
\* markets that may be listed, of which the answer has the furthest apart.
DisagreementRows(h) ==
  {m \in Estimated :
     /\ statusOf[m] = "open" /\ judgeable[m] /\ HorizonOf[m] = h
     /\ LatestOf(m, estimates).independent /\ LatestOf(m, estimates).apart}

\* funnel: open, with a book, scored, independent.
Funnel(h) ==
  LET inWindow == {m \in Candidates : statusOf[m] = "open" /\ HorizonOf[m] = h}
      withBook == {m \in inWindow : edge[m] # "unpriced"}
      scored   == withBook \cap Estimated
  IN <<inWindow, withBook, scored,
       {m \in scored : LatestOf(m, estimates).independent}>>

RankingNext ==
  \/ \E m \in Candidates : MoveMarket(m)
  \/ \E w \in Rankers : Score(w) \/ PublishBatch(w) \/ AbortRanking(w)
  \/ SettleAndRefresh

RankingSpec == RankingInit /\ [][RankingNext]_rankingVars

-----------------------------------------------------------------------------
(* Properties. *)

RankingTypeOK ==
  /\ statusOf \in [Candidates -> {"open", "closed", "settled"}]
  /\ edge \in [Candidates -> Edges] /\ judgeable \in [Candidates -> BOOLEAN]
  /\ runs \in 0..MaxRuns /\ changes \in 0..MaxChanges
  /\ \A r \in recs : r.market \in Candidates /\ r.batch \in 1..MaxRuns

\* A tab advertises exactly what its list holds, which is at most TOP_N, one entry
\* a market (the docstring of summary; rank_candidates).
TabsMatchLists ==
  \A h \in Horizons :
    /\ Counts[h] = Cardinality(ListRows(h)) /\ Counts[h] <= TOP_N
    /\ \A r, s \in ListRows(h) : r.market = s.market => r = s

\* No market is offered that the last look at it, a publication or a settlement
\* run, found closed or settled, whatever was published in flight.
OfferedWasOpen == \A h \in Horizons : \A r \in ListRows(h) : believed[r.market] = "open"

\* The newest estimates of a market, among all on file.
CurrentOf(m) == {e \in estimates : e.of = m /\ \A d \in estimates : d.of = m => d.made <= e.made}

\* An estimate that was superseded is not told as the current one, to a reader of
\* the disagreements or in the last stage of the funnel (the comment at the query of
\* disagreements); and the two agree: a market on the list is in the funnel's window,
\* and if it has a book, among the independent estimates the funnel counts.
NoSupersededEstimate ==
  \A h \in Horizons :
    /\ \A m \in DisagreementRows(h) \cup Funnel(h)[4] :
          CurrentOf(m) # {} /\ \A e \in CurrentOf(m) : e.independent
    /\ DisagreementRows(h) \subseteq Funnel(h)[1]
    /\ DisagreementRows(h) \cap Funnel(h)[2] \subseteq Funnel(h)[4]

\* A recommendation cites the estimate it was made from, or a newer one that a run
\* that overlapped it committed: never an older one.
CitesItsEstimate == \A r \in recs : r.cites >= r.batch

RankingsAreToldTruly ==
  TabsMatchLists /\ OfferedWasOpen /\ NoSupersededEstimate /\ CitesItsEstimate

=============================================================================
