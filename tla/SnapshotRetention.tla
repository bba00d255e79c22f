-------------------------- MODULE SnapshotRetention --------------------------
(***************************************************************************)
(* What the published snapshot keeps: scripts/build_snapshot.py (selection),  *)
(* shared/snapshot_retention.py (budgets), over the runs of the automated     *)
(* pipeline, each of which seeds its database from the snapshot before it.    *)
(*                                                                         *)
(* The jobs that fill the database are reduced to the rows they write.  Every *)
(* row remembers, as history, the listing it was written about: SQLite gives   *)
(* a new row the id after the greatest one in use, so the id of a market that *)
(* was dropped comes back for another.                                       *)
(***************************************************************************)
EXTENDS Integers, Sequences, FiniteSets, FiniteSetsExt

CONSTANTS
    Feed,       \* what a venue lists, in the order of its feed
    EndOf,      \* listing |-> when it closes and when it settles, in any order of feed
    Ladder,         \* the rungs, each [live, resolved], non-increasing
    MarketSize,     \* the bytes of a market and its children
    TextSize,       \* the bytes of its free text
    TargetSize,     \* retention tightens above this
    MaxSize,        \* and gives up above this
    MaxPicks,       \* bound: recommendations of a run
    MaxBuilds       \* bound: runs of the pipeline

ASSUME RetentionAssumption ==
    /\ {MarketSize, TextSize, TargetSize, MaxSize, MaxPicks, MaxBuilds} \subseteq Nat
    /\ Feed \subseteq Nat /\ IsFiniteSet(Feed)
    /\ EndOf \in [Feed -> [closed : Nat, settled : Nat]]
    /\ TargetSize <= MaxSize
    /\ Ladder \in Seq([live : Nat, resolved : Nat]) /\ Len(Ladder) > 0
    /\ \A i \in 2..Len(Ladder) : /\ Ladder[i].live <= Ladder[i - 1].live
                                 /\ Ladder[i].resolved <= Ladder[i - 1].resolved

VARIABLES
    board,      \* what each listing is at its venue
    db,         \* the database of the run, then the candidate
    artefact,  \* the snapshot the next run seeds from
    job,        \* the next step of the run
    rung,       \* the rungs applied
    selected,   \* history: the candidate when its size was first looked at
    builds      \* runs so far

retentionVars == <<board, db, artefact, job, rung, selected, builds>>

\* The tables with one row a market are sets of [market, about]; a prediction has
\* an id of its own, and a recommendation names the prediction it was made from.
Empty == [markets |-> {}, details |-> {}, books |-> {}, predictions |-> {},
          recommendations |-> {}, frozen |-> {}, settlements |-> {}]

Null == 0
RowOf(m) == [market |-> m.id, about |-> m.about]
Ids(rows) == {r.id : r \in rows}
NextId(rows) == IF rows = {} THEN 1 ELSE Max(Ids(rows)) + 1
Rows(markets) == {RowOf(m) : m \in markets}

LiveOf(markets) == {m \in markets : m.status = "open"}
ResolvedOf(markets) == {m \in markets : m.status \in {"closed", "settled"}}

RetentionInit ==
    /\ board = [l \in Feed |-> "unlisted"]
    /\ db = Empty /\ artefact = Empty
    /\ job = "ingest" /\ rung = 0 /\ selected = Empty /\ builds = 0

-----------------------------------------------------------------------------
(* The jobs, as far as they write what a snapshot holds *)

Stays == UNCHANGED <<board, artefact, rung, selected, builds>>

\* A listing opens, then closes; an open one is in the feed, traded today or not.
After == [unlisted |-> {"unlisted", "open"}, open |-> {"open", "closed"},
          closed |-> {"closed"}]

Known(markets) == {m.about : m \in markets}

SeenAgain(m, now, traded) ==
    IF now[m.about] = "open"
    THEN [m EXCEPT !.traded = m.about \in traded, !.text = TRUE]
    ELSE [m EXCEPT !.traded = FALSE, !.status = IF @ = "open" THEN "closed" ELSE @]

NewMarket(l, id, traded) ==
    [id |-> id, about |-> l, status |-> "open", traded |-> l \in traded, text |-> TRUE]

\* New rows are inserted one after the other, in the order of the feed.
Place(x, rows) == Cardinality({y \in rows : y < x})

Ingest ==
    /\ job = "ingest" /\ builds < MaxBuilds
    /\ \E now \in [Feed -> {"unlisted", "open", "closed"}] :
          /\ \A l \in Feed : now[l] \in After[board[l]]
          /\ LET open == {l \in Feed : now[l] = "open"}
                 fresh == open \ Known(db.markets)
             IN \E traded \in SUBSET open :
                   LET markets ==
                           {SeenAgain(m, now, traded) : m \in db.markets}
                           \cup {NewMarket(l, NextId(db.markets) + Place(l, fresh), traded) :
                                 l \in fresh}
                   IN db' = [db EXCEPT !.markets = markets,
                                       !.details = @ \cup Rows(LiveOf(markets))]
          /\ board' = now
    /\ job' = "orderbooks"
    /\ UNCHANGED <<artefact, rung, selected, builds>>

\* Books of some of the open markets; the latest of each is the one that counts.
Orderbooks ==
    /\ job = "orderbooks"
    /\ \E captured \in SUBSET LiveOf(db.markets) :
          db' = [db EXCEPT !.books = @ \cup Rows(captured)]
    /\ job' = "settle"
    /\ Stays

\* A closed market may settle: the row carries the venue's id and the market's.
SettleMarkets ==
    /\ job = "settle"
    /\ \E resolved \in SUBSET {m \in db.markets : m.status = "closed"} :
          db' = [db EXCEPT !.markets = (@ \ resolved)
                               \cup {[m EXCEPT !.status = "settled"] : m \in resolved},
                           !.settlements = @ \cup Rows(resolved)]
    /\ job' = "score"
    /\ Stays

\* Open markets with a book, however old, get a new prediction.
Scoreable == {m \in LiveOf(db.markets) : RowOf(m) \in db.books}

Score ==
    /\ job = "score"
    /\ db' = [db EXCEPT !.predictions = @ \cup
                 {[id |-> NextId(db.predictions) + Place(m.id, Ids(Scoreable)),
                   market |-> m.id, about |-> m.about] : m \in Scoreable}]
    /\ job' = "rank"
    /\ Stays

\* The top of the ranking names the newest prediction of its market, and is frozen.
NewestOf(predictions, market) ==
    Max({p.id : p \in {q \in predictions : q.market = market}})

RankMarkets ==
    /\ job = "rank"
    /\ \E top \in {t \in SUBSET Scoreable : Cardinality(t) <= MaxPicks} :
          db' = [db EXCEPT
                    !.recommendations = @ \cup
                        {[market |-> m.id, about |-> m.about,
                          prediction |-> NewestOf(db.predictions, m.id)] : m \in top},
                    !.frozen = @ \cup Rows(top)]
    /\ job' = "prune"
    /\ Stays

\* Books that are too old go.
Prune ==
    /\ job = "prune"
    /\ \E old \in SUBSET (db.books \ Rows(LiveOf(db.markets))) : db' = [db EXCEPT !.books = @ \ old]
    /\ job' = "select"
    /\ Stays

-----------------------------------------------------------------------------
(* Selection *)

NewestPredictions(predictions) == {p \in predictions : p.id = NewestOf(predictions, p.market)}

\* The newest of each market; of one that resolved, only what is recommended.
KeptPredictions(d) ==
    {p \in NewestPredictions(d.predictions) :
        \/ p.market \notin Ids(ResolvedOf(d.markets))
        \/ p.id \in {r.prediction : r \in d.recommendations}}

Referred(rows) == {r.market : r \in rows}

\* What earns a market its place: a child that matters, or a reader who may look.
Selected(d) ==
    {m \in d.markets :
        \/ m.id \in Referred(d.books) \cup Referred(KeptPredictions(d))
                    \cup Referred(d.recommendations) \cup Referred(d.settlements)
        \/ m.status = "open" /\ m.traded}

Within(rows, markets) == {r \in rows : r.market \in Ids(markets)}

SelectMarkets ==
    /\ job = "select"
    /\ db' = [db EXCEPT !.predictions = KeptPredictions(db),
                        !.markets = Selected(db),
                        !.details = Within(@, Selected(db))]
    /\ job' = "bound"
    /\ Stays

-----------------------------------------------------------------------------
(* Retention *)

\* The markets of the audit trail, which no budget drops.
Audit(d) == {m \in d.markets : m.id \in Referred(d.recommendations) \cup Referred(d.frozen)}

\* Resolved markets outside the audit trail lose their text; the histories are
\* capped, which leaves each market with its newest rows.
Bound ==
    /\ job = "bound"
    /\ LET bare == ResolvedOf(db.markets) \ Audit(db) IN
          db' = [db EXCEPT !.markets = (@ \ bare) \cup {[m EXCEPT !.text = FALSE] : m \in bare}]
    /\ selected' = db'
    /\ job' = "tighten"
    /\ UNCHANGED <<board, artefact, rung, builds>>

SizeOf(markets) ==
    MarketSize * Cardinality(markets)
    + TextSize * Cardinality({m \in markets : m.text})

\* Live markets by volume, then the older id; resolved ones by when they settled, or
\* closed as long as they have not, then the later id.
Busier(m, n) == (m.traded /\ ~ n.traded) \/ (m.traded = n.traded /\ m.id < n.id)
Ended(m) == IF m.status = "settled" THEN EndOf[m.about].settled ELSE EndOf[m.about].closed
Later(m, n) == Ended(m) > Ended(n) \/ (Ended(m) = Ended(n) /\ m.id > n.id)

Top(markets, Before(_, _), budget) ==
    {m \in markets : Cardinality({n \in markets : Before(n, m)}) < budget}

\* Mutant of Kept: the audit trail has to fit the budget like the rest.
KeptByRank(d, r) ==
    Top(LiveOf(d.markets), Busier, r.live) \cup Top(ResolvedOf(d.markets), Later, r.resolved)

Kept(d, r) ==
    Audit(d) \cup Top(LiveOf(d.markets), Busier, r.live)
             \cup Top(ResolvedOf(d.markets), Later, r.resolved)

\* Mutant of Cascade: the books stay.
CascadeWithoutBooks(d, markets) ==
    [d EXCEPT !.markets = markets, !.details = Within(@, markets), !.predictions = Within(@, markets),
              !.settlements = {IF r.market \in Ids(markets) THEN r
                               ELSE [r EXCEPT !.market = Null] : r \in @}]

\* The children of what is left; a settlement survives its market.
Cascade(d, markets) ==
    [d EXCEPT !.markets = markets, !.details = Within(@, markets), !.books = Within(@, markets),
              !.predictions = Within(@, markets),
              !.settlements = {IF r.market \in Ids(markets) THEN r
                               ELSE [r EXCEPT !.market = Null] : r \in @}]

Tighten ==
    /\ job = "tighten"
    /\ SizeOf(db.markets) > TargetSize /\ rung < Len(Ladder)
    /\ db' = Cascade(db, Kept(db, Ladder[rung + 1]))
    /\ rung' = rung + 1
    /\ UNCHANGED <<board, artefact, job, selected, builds>>

\* The candidate is published, or dropped; the next run starts from what is.
Conclude ==
    /\ job = "tighten"
    /\ SizeOf(db.markets) <= TargetSize \/ rung = Len(Ladder)
    /\ \E promoted \in BOOLEAN :
          /\ promoted => SizeOf(db.markets) <= MaxSize
          /\ artefact' = IF promoted THEN db ELSE artefact
    /\ db' = artefact'
    /\ job' = "ingest" /\ rung' = 0 /\ selected' = Empty /\ builds' = builds + 1
    /\ UNCHANGED board

RetentionNext ==
    \/ Ingest \/ Orderbooks \/ SettleMarkets \/ Score \/ RankMarkets \/ Prune
    \/ SelectMarkets \/ Bound \/ Tighten \/ Conclude

RetentionSpec == RetentionInit /\ [][RetentionNext]_retentionVars

-----------------------------------------------------------------------------
(* Properties *)

\* No row is taken for a row of another market, though ids come back: whatever a
\* detail, a book, a prediction, a recommendation, a frozen pick or a settlement
\* was written about is the market its id finds (snapshot_retention.py
\* MARKET_SCOPED_TABLES and _AUDIT_MARKETS_SQL, build_snapshot.py's selection).
NamesItsMarket(rows) ==
    \A r \in rows : r.market # Null =>
        \E m \in db.markets : m.id = r.market /\ m.about = r.about

RowsNameTheirMarket ==
    \A rows \in {db.details, db.books, db.predictions, db.recommendations, db.frozen,
                 db.settlements} : NamesItsMarket(rows)

\* What a build at a rung makes of the candidate, which has seen no other rung.
BuiltAt(r) == IF r = 0 THEN selected ELSE Cascade(selected, Kept(selected, Ladder[r]))

\* What is given up for size is given up in order, and only for size: never a
\* market of the audit trail, never one that ranks above another that stayed; each
\* rung leaves with the children what a build at that rung would leave, though it
\* starts from what the ones before it left; and builds at those would all be too
\* large (snapshot_retention.py:188-194, 521).
SacrificeIsOrderly ==
    job = "tighten" =>
        LET dropped == {m \in selected.markets : m.id \notin Ids(db.markets)}
            audited == Referred(db.recommendations) \cup Referred(db.frozen)
            ranked == {m \in db.markets : m.id \notin audited}
        IN /\ \A m \in dropped : m.id \notin audited
           /\ \A m \in dropped, n \in ranked :
                 /\ {m, n} \subseteq LiveOf(selected.markets) => ~ Busier(m, n)
                 /\ {m, n} \subseteq ResolvedOf(selected.markets) => ~ Later(m, n)
           /\ rung > 0 => /\ Cardinality(LiveOf(ranked)) <= Ladder[rung].live
                          /\ Cardinality(ResolvedOf(ranked)) <= Ladder[rung].resolved
           /\ db = BuiltAt(rung)
           /\ \A r \in 0..(rung - 1) : SizeOf(BuiltAt(r).markets) > TargetSize

\* A recommendation whose market has resolved still leads to the prediction it was
\* made from (build_snapshot.py:143-146).
RecommendedEstimatesAreKept ==
    \A r \in artefact.recommendations :
        \E p \in artefact.predictions : p.id = r.prediction /\ p.about = r.about
=============================================================================
