---------------------------- MODULE WalkForward ----------------------------
(***************************************************************************)
(* What is computed from the frozen claims once they are graded: the daily  *)
(* walk-forward backtest (engine.py), the calibration map (calibration.py), *)
(* the distance still to go (readiness.py), and the demo history that may    *)
(* stand beside the live one (demo/seed.py).                                *)
(*                                                                         *)
(* Prices, probabilities and payouts are in 1/One of a dollar, contracts in *)
(* 1/Cents of one.  Every job reads and writes in one transaction.          *)
(***************************************************************************)
EXTENDS Integers, Sequences, FiniteSets, FiniteSetsExt

CONSTANTS
  One, Cents,       \* the lattices above
  LiveBatches,      \* bound: the batches a day may publish, sequences of claims
  DemoHistories,    \* bound: the histories seed_demo_history may write
  Tradables,        \* markets of the live claims
  Outcomes,         \* Outcomes[m]: what its venue may settle it to, [result, pays]
  Strategies,       \* default_strategies
  BetaMaps,         \* bound: the maps fit_beta may converge to
  MIN_FIT_SAMPLES,
  Noise,            \* (SPURIOUS_IMPROVEMENT_CONSTANT * One * One) squared
  STALL,            \* STALL_THRESHOLD, in days
  LastDay, MaxClaims, \* bounds: days, claims frozen
  MaxJobs           \* bound: backtests, fits and readings

\* A settlement, and a claim as it is frozen.
Verdicts == [result : {"yes", "no", "fifty_fifty", "unknown"}, pays : 0..One]
Estimates == 0..One
Claims ==
  [market : Tradables, side : {"yes", "no"}, p : Estimates, low : Int, cost : Int, size : Int,
   horizon : STRING, platform : STRING, confidence : Int, asks : SUBSET STRING,
   best : SUBSET STRING]
\* One of the demo history, with what its market is settled to.
DemoClaims ==
  [market : STRING, side : {"yes", "no"}, p : Estimates, low : Int, cost : Int, size : Int,
   horizon : STRING, platform : STRING, confidence : Int, asks : SUBSET STRING,
   best : SUBSET STRING, settled : Verdicts]

\* What is paid agrees with the result, where the result says it: by the client's doing
\* for Polymarket (polymarket.py:541-551), by the venue's for Kalshi, whose own value is
\* taken where it gives one (kalshi.py:912).  Neither client reports a void.
Agrees(o) ==
  /\ o.result = "yes" => o.pays = One
  /\ o.result = "no" => o.pays = 0
  /\ o.result = "fifty_fifty" => o.pays = One \div 2

ASSUME WalkForwardAssumption ==
  /\ One \in Nat /\ Cents \in Nat /\ MIN_FIT_SAMPLES \in Nat \ {0, 1} /\ Noise \in Nat
  /\ STALL \in Nat /\ LastDay \in Nat /\ MaxClaims \in Nat /\ MaxJobs \in Nat
  /\ \A m \in Tradables : \A o \in Outcomes[m] : o \in Verdicts /\ Agrees(o)
  /\ LiveBatches \subseteq Seq(Claims)
  /\ DemoHistories \subseteq Seq(DemoClaims)
  /\ \A h \in DemoHistories : \A i \in 1..Len(h) : Agrees(h[i].settled)
  /\ BetaMaps \subseteq [Estimates -> Int]
  /\ \A st, other \in Strategies : st.name = other.name => st = other
  /\ \A st \in Strategies : st.top \in Nat

VARIABLES
  today,      \* the date
  outcome,    \* market |-> its Settlement row, in a set
  record,     \* recommendation_snapshots
  marks,      \* rows written so far, and among them the live ones, for the properties
  backtests,  \* backtest_runs
  trades,     \* backtest_trades
  fit,        \* ModelVersion.calibration, in a set
  reading,    \* a readiness report that has counted the published claims
  told,       \* the last readiness report, in a set
  jobs,       \* jobs run
  lastRun     \* the date of the last that succeeded

walkVars == <<today, outcome, record, marks, backtests, trades, fit, reading, told, jobs, lastRun>>

WalkInit ==
  /\ today = 1
  /\ outcome = [m \in Tradables |-> {}]
  /\ record = {} /\ marks = [all |-> 0, live |-> {}]
  /\ backtests = {} /\ trades = {} /\ fit = {}
  /\ reading = {} /\ told = {}
  /\ jobs = 0 /\ lastRun = 0

-----------------------------------------------------------------------------
(* Claims are frozen, and graded once their market has settled. *)

\* publish_recommendations counts the ranks of each horizon from one, so that claims
\* of one batch may be of one rank.
RankOf(claims, i) == Cardinality({k \in 1..i : claims[k].horizon = claims[i].horizon})

\* seed_demo_history counts those of a day, whatever their horizon.
Frozen(claims, day, by, table) ==
  LET next == 1 + (IF table = {} THEN 0 ELSE Max({r.id : r \in table})) IN
  {[claim |-> claims[i], day |-> day, by |-> by, id |-> next + i - 1, mark |-> marks.all + i,
    rank |-> IF by = "demo" THEN i ELSE RankOf(claims, i),
    result |-> "none", profit |-> 0] : i \in DOMAIN claims}

PayoutForSide(side, pays) == IF side = "yes" THEN pays ELSE One - pays

\* grade_recommendations, of one row.
Graded(r, o) ==
  [r EXCEPT !.result = o.result, !.profit = PayoutForSide(r.claim.side, o.pays) - r.claim.cost]

\* The daily snapshot; another batch of the same day is only logged.
PublishDay ==
  \E batch \in LiveBatches, day \in {today, today + 1} :
    /\ day <= LastDay /\ marks.all + Len(batch) <= MaxClaims
    /\ today' = day
    /\ record' = record \cup Frozen(batch, day, "live", record)
    /\ marks' = [all |-> marks.all + Len(batch),
                 live |-> marks.live \cup (marks.all + 1)..(marks.all + Len(batch))]
    /\ UNCHANGED <<outcome, backtests, trades, fit, reading, told, jobs, lastRun>>

\* A settlement run grades what is not graded yet, with what it has just learned of
\* a market or with nothing new.
SyncSettlements ==
  /\ \/ \E m \in Tradables : outcome[m] = {} /\ \E o \in Outcomes[m] :
          outcome' = [outcome EXCEPT ![m] = {o}]
     \/ UNCHANGED outcome
  /\ record' = {r \in record : r.result # "none" \/ outcome'[r.claim.market] = {}}
             \cup UNION {{Graded(r, o) : o \in outcome'[r.claim.market]} :
                         r \in {q \in record : q.result = "none"}}
  /\ UNCHANGED <<today, marks, backtests, trades, fit, reading, told, jobs, lastRun>>

-----------------------------------------------------------------------------
(* Synthetic rows come graded, and go together. *)

Real(table) == {r \in table : r.by # "demo"}

\* purge_demo_data looks for the trades of runs named demo-..., and no run is.
Purge(history) ==
  /\ record' = Real(record) \cup {Graded(r, r.claim.settled) :
                                r \in Frozen(history, 1, "demo", Real(record))}
  /\ backtests' = Real(backtests)
  /\ marks' = [marks EXCEPT !.all = @ + Len(history)]
  /\ UNCHANGED <<today, outcome, trades, fit, reading, told, jobs, lastRun>>

PurgeDemo == Real(record) # record /\ Purge(<<>>)

SeedDemo == \E h \in DemoHistories : marks.all + Len(h) <= MaxClaims /\ Purge(h)

-----------------------------------------------------------------------------
(* The backtest. *)

\* load_snapshots: the settled rows of a provenance by day and rank.  Nothing says in
\* which order rows of one day and rank come, so that each load may bring another.
Earlier(r, q) == r.day < q.day \/ (r.day = q.day /\ r.rank < q.rank)

History(by) == {r \in record : r.by = by /\ r.result # "none"}

RowsIn(load) == {load[k] : k \in DOMAIN load}

Loads(rows) ==
  {load \in [1..Cardinality(rows) -> rows] :
     /\ \A k \in DOMAIN load : \A i \in 1..(k - 1) : ~ Earlier(load[k], load[i])
     /\ RowsIn(load) = rows}

Eligible(st, r) ==
  /\ r.claim.horizon \in st.horizons /\ r.claim.platform \in st.platforms
  /\ r.claim.confidence >= st.minConfidence

\* The rows a load brings before another.
Preceding(load, r) ==
  {load[i] : i \in {j \in DOMAIN load : \A k \in DOMAIN load : load[k] = r => j < k}}

\* The selector works within a day of the rows it is given, which are the settled ones.
\* It sorts them by rank, and leaves those of one rank in the order of the load.
Picked(st, load) ==
  {r \in RowsIn(load) : Eligible(st, r) /\ Cardinality({q \in Preceding(load, r) :
                         Eligible(st, q) /\ q.day = r.day}) < st.top}

\* fractional_kelly of the lower bound, or a fixed sum; never more than the book
\* showed, unless it showed nothing.
Stake(st, c) ==
  IF ~ st.kelly THEN st.stake
  ELSE IF c.cost >= One \/ c.low <= c.cost THEN 0
  ELSE (st.stake * (c.low - c.cost)) \div (4 * (One - c.cost))
Contracts(st, c) ==
  IF c.cost <= 0 THEN 0
  ELSE LET wanted == (Stake(st, c) * Cents) \div c.cost IN
       IF c.size > 0 THEN Min({wanted, c.size * Cents}) ELSE wanted

\* Mutant of Payout: a claim on NO is paid when YES wins.
PayoutOfYes(r) ==
  CASE r.result = "yes" -> {One}
    [] r.result = "no" -> {0}
    [] r.result = "fifty_fifty" -> {One \div 2}
    [] r.result = "void" -> {r.claim.cost}
    [] OTHER -> {}

\* _payout_per_contract, in a set: nothing is known of some results.
Payout(r) ==
  CASE r.result = "yes" -> {PayoutForSide(r.claim.side, One)}
    [] r.result = "no" -> {PayoutForSide(r.claim.side, 0)}
    [] r.result = "fifty_fifty" -> {PayoutForSide(r.claim.side, One \div 2)}
    [] r.result = "void" -> {r.claim.cost}
    [] OTHER -> {}

\* _snapshot_quality, from worst to best.
Quality(c) ==
  IF c.side \in c.asks THEN 3 ELSE IF c.best # {} THEN 2 ELSE 0

\* The sums of the first of some numbers: of none, of one, ...
Sums(numbers) ==
  LET sum[i \in 0..Len(numbers)] == IF i = 0 THEN 0 ELSE sum[i - 1] + numbers[i] IN sum

\* The largest decline of the cumulative profit from its peak, which begins at nothing.
MaxDrawdown(gains) ==
  LET sum == Sums(gains) IN
  Min(UNION {{sum[k] - sum[j] : j \in 0..k} : k \in DOMAIN sum})

Summarize(gains) ==
  [total |-> Sums(gains)[Len(gains)],
   wins |-> Cardinality({i \in DOMAIN gains : gains[i] > 0}),
   drawdown |-> MaxDrawdown(gains)]

Bought(st, load) ==
  {r \in Picked(st, load) : Contracts(st, r.claim) > 0 /\ Payout(r) # {}}
Gain(st, r) == Contracts(st, r.claim) * ((CHOOSE x \in Payout(r) : TRUE) - r.claim.cost)

\* run_strategy over the history of a pool as it was loaded, with its trades.
Run(st, pool, load) ==
  LET traded == Bought(st, load)
      id == [number |-> jobs, strategy |-> st.name, pool |-> pool]
      gains == [k \in DOMAIN load |-> IF load[k] \in traded THEN Gain(st, load[k]) ELSE 0]
  IN [run |-> [id |-> id, over |-> {r.mark : r \in RowsIn(load)},
               listed |-> Cardinality(Picked(st, load)), settled |-> Cardinality(traded),
               by |-> IF \E r \in RowsIn(load) : Eligible(st, r) /\ r.by = "demo"
                      THEN "demo" ELSE "live",
               quality |-> IF traded = {} THEN 0 ELSE Min({Quality(r.claim) : r \in traded}),
               metrics |-> Summarize(gains)],
      trades |-> {[run |-> id, mark |-> r.mark, gain |-> Gain(st, r)] : r \in traded}]

Job == jobs < MaxJobs /\ jobs' = jobs + 1 /\ lastRun' = today

\* run_backtest: each provenance apart, and empty runs if nothing has settled.
Backtest ==
  /\ Job
  /\ \E live \in Loads(History("live")), demo \in Loads(History("demo")) :
       LET load == [live |-> live, demo |-> demo, none |-> <<>>]
           found == {by \in {"live", "demo"} : History(by) # {}}
           pools == IF found = {} THEN {"none"} ELSE found
           made == {Run(st, pool, load[pool]) : st \in Strategies, pool \in pools}
       IN /\ backtests' = backtests \cup {m.run : m \in made}
          /\ trades' = trades \cup UNION {m.trades : m \in made}
  /\ UNCHANGED <<today, outcome, record, marks, fit, reading, told>>

\* GET /backtest: the newest run of each strategy, then those of the mode.
Shown(mode) ==
  {r \in backtests : /\ r.by = mode
                /\ \A q \in backtests : q.id.strategy = r.id.strategy => q.id.number <= r.id.number}

-----------------------------------------------------------------------------
(* The calibration map. *)

\* _outcome_value: what is known of no result counts as half.
OutcomeValue(r) ==
  CASE r.result \in {"yes", "no"} -> IF r.result = r.claim.side THEN One ELSE 0
    [] OTHER -> One \div 2

Points(history) == [i \in DOMAIN history |-> [p |-> history[i].claim.p, y |-> OutcomeValue(history[i])]]

\* The two topmost blocks of a stack are pooled while they do not ascend.
Descends(stack) ==
  LET k == Len(stack) IN
  k > 1 /\ stack[k - 1].y * stack[k].n >= stack[k].y * stack[k - 1].n
Pooled(stack) ==
  LET k == Len(stack) IN
  [i \in 1..(k - 1) |->
     IF i < k - 1 THEN stack[i]
     ELSE [y |-> stack[i].y + stack[k].y, n |-> stack[i].n + stack[k].n, x |-> stack[k].x]]
PoolTop(stack) ==
  LET after[k \in 0..Len(stack)] ==
        IF k = 0 THEN stack
        ELSE IF Descends(after[k - 1]) THEN Pooled(after[k - 1]) ELSE after[k - 1]
  IN after[Len(stack)]

\* fit_isotonic: points of equal probability keep the order they came in.
ByProbability(points) ==
  LET first(i) == {k \in DOMAIN points : \/ points[k].p < points[i].p
                                         \/ points[k].p = points[i].p /\ k < i}
  IN [n \in DOMAIN points |-> points[CHOOSE i \in DOMAIN points : Cardinality(first(i)) = n - 1]]

\* The blocks left once the first k points are pooled.
Blocks(s) ==
  LET after[k \in 0..Len(s)] ==
        IF k = 0 THEN <<>>
        ELSE PoolTop(Append(after[k - 1], [y |-> s[k].y, n |-> 1, x |-> s[k].p]))
  IN after

FitIsotonic(points) ==
  LET blocks == Blocks(ByProbability(points))[Len(points)]
  IN [i \in DOMAIN blocks |-> [x |-> blocks[i].x, y |-> blocks[i].y \div blocks[i].n]]

\* apply_isotonic: between two knots a straight line.
ApplyIsotonic(knots, p) ==
  IF p <= knots[1].x THEN knots[1].y
  ELSE IF p >= knots[Len(knots)].x THEN knots[Len(knots)].y
  ELSE LET i == Min({k \in DOMAIN knots : p <= knots[k].x}) IN
       knots[i - 1].y + ((p - knots[i - 1].x) * (knots[i].y - knots[i - 1].y))
                            \div (knots[i].x - knots[i - 1].x)

\* calibrator_from: a refusal is the identity.
Calibrated(map, p) ==
  CASE map.method = "isotonic" -> ApplyIsotonic(map.knots, p)
    [] map.method = "beta" -> map.beta[p]
    [] OTHER -> p

\* _brier, as a sum.
Loss(map, points) ==
  LET miss(q) == Calibrated(map, q.p) - q.y
  IN Sums([i \in DOMAIN points |-> miss(points[i]) * miss(points[i])])[Len(points)]

Identity == [method |-> "identity", knots |-> <<>>, beta |-> <<>>]

\* How much better than the identity a map must be over so many claims.
BeatsNoise(gained, held) == gained >= 0 /\ gained * gained >= Noise * held

\* TRAIN_FRACTION of the claims, the earlier ones.
Split(n) == (7 * n) \div 10

\* fit_calibration; fit_beta converges to some map or to none.
FitCalibration(points, betas) ==
  LET n == Len(points)
      train == SubSeq(points, 1, Split(n))
      held == SubSeq(points, Split(n) + 1, n)
      isotonic == [Identity EXCEPT !.method = "isotonic", !.knots = FitIsotonic(train)]
      candidates == {isotonic} \cup {[Identity EXCEPT !.method = "beta", !.beta = b] : b \in betas}
      best == CHOOSE c \in candidates : \A d \in candidates :
                Loss(c, held) < Loss(d, held) \/ (Loss(c, held) = Loss(d, held) /\ c.method # "beta")
                \/ c = d
  IN IF n < MIN_FIT_SAMPLES \/ held = <<>> THEN Identity
     ELSE IF BeatsNoise(Loss(Identity, held) - Loss(best, held), Len(held)) THEN best ELSE Identity

\* fit_and_store, on live claims only; a refusal is stored too.
Calibrate ==
  /\ Job
  /\ \E betas \in {{}} \cup {{b} : b \in BetaMaps}, basis \in Loads(History("live")) :
       fit' = {[map |-> FitCalibration(Points(basis), betas), basis |-> basis]}
  /\ UNCHANGED <<today, outcome, record, marks, backtests, trades, reading, told>>

-----------------------------------------------------------------------------
(* How far the live record has come: two counts, one after the other. *)

LiveRows == {r \in record : r.by = "live"}

CountPublished ==
  /\ reading = {} /\ jobs < MaxJobs /\ jobs' = jobs + 1
  /\ reading' = {Cardinality(LiveRows)}
  /\ UNCHANGED <<today, outcome, record, marks, backtests, trades, fit, told, lastRun>>

\* A milestone: is it met, and if not, is a date for it projected?  A stalled pipeline
\* has no rate, and one that has settled nothing has none either.
Milestone(settled, stalled) ==
  [mayFit |-> settled >= MIN_FIT_SAMPLES,
   projects |-> settled < MIN_FIT_SAMPLES /\ settled > 0 /\ ~ stalled]

\* track_record_readiness, and what as_dict makes of it.
CountSettled ==
  /\ reading # {}
  /\ \E published \in reading :
       LET settled == Cardinality({r \in LiveRows : r.result # "none"})
           stalled == lastRun = 0 \/ today - lastRun > STALL
       IN told' = {[published |-> published, settled |-> settled, stalled |-> stalled,
                    milestone |-> Milestone(settled, stalled)]}
  /\ reading' = {}
  /\ UNCHANGED <<today, outcome, record, marks, backtests, trades, fit, jobs, lastRun>>

WalkNext ==
  \/ PublishDay \/ SyncSettlements \/ SeedDemo \/ PurgeDemo
  \/ Backtest \/ Calibrate \/ CountPublished \/ CountSettled

WalkSpec == WalkInit /\ [][WalkNext]_walkVars

-----------------------------------------------------------------------------
(* Properties *)

TradesOf(run) == {t \in trades : t.run = run.id}
LiveRuns == {r \in backtests : r.id.pool = "live"}

\* What a run tells of a claim: what it gained, if it bought it.
TellsOf(run, r) == {t.gain : t \in {u \in TradesOf(run) : u.mark = r.mark}}

\* The limit of a strategy parts a claim from others of its rank, so that it may fall
\* on either side.
OnTheCut(st, rows, r) ==
  /\ Cardinality({q \in rows : Eligible(st, q) /\ q.rank < r.rank}) < st.top
  /\ Cardinality({q \in rows : Eligible(st, q) /\ q.rank <= r.rank}) > st.top

\* A backtest is of the record.  No live claim is lost from it; each trade gains what
\* the settlement job graded its claim with, on as many contracts, though the two work
\* the payout out in different ways; a later run retells a day of which nothing more
\* has settled just as the earlier one told it, but for claims of the one rank that the
\* strategy's limit cuts through, since a load brings those in any order; and nothing
\* synthetic passes for live, nor does it hide what is (engine.py:9-22, :112-116,
\* :214-216 and :324-332, settlement.py:222).
BacktestIsOfTheRecord ==
  /\ marks.live = {r.mark : r \in LiveRows}
  /\ \A t \in trades, r \in record, st \in Strategies :
       t.mark = r.mark /\ t.run.strategy = st.name =>
         t.gain = Contracts(st, r.claim) * r.profit
  /\ \A a, b \in LiveRuns, st \in Strategies, day \in 1..LastDay :
       LET settled(run) == {r \in LiveRows : r.day = day /\ r.mark \in run.over} IN
       a.id.strategy = st.name /\ b.id.strategy = st.name /\ settled(a) = settled(b) =>
         \A r \in settled(a) : TellsOf(a, r) = TellsOf(b, r) \/ OnTheCut(st, settled(a), r)
  /\ \A r \in backtests : r.by = "live" => \A t \in TradesOf(r) : t.mark \in marks.live
  /\ \A a \in LiveRuns : \E b \in LiveRuns \cap Shown("live") :
       b.id.strategy = a.id.strategy

\* The isotonic regression of some points by its closed form: a step ends where every
\* run of points up to there has a lower mean than every run after it, and its value
\* is the mean of its points.
Regression(points) ==
  LET s == ByProbability(points)
      sum == Sums([i \in DOMAIN s |-> s[i].y])
      of(i, k) == sum[k] - sum[i]
      ends == {i \in DOMAIN s : \A j \in 0..(i - 1), k \in (i + 1)..Len(s) :
                 of(j, i) * (k - i) < of(i, k) * (i - j)}
      start(i) == Max({0} \cup {k \in ends : k < i})
  IN {[x |-> s[i].p, y |-> of(start(i), i) \div (i - start(i))] : i \in ends}

\* A map is adopted for future estimates only if the record earns it: on live, settled
\* claims, enough of them; as the best ascending fit to some first part of them; and
\* because on the rest, published later, it does better than the plain estimates by
\* more than noise.  And no report says that the record is long enough for a fit
\* before it is (calibration.py:15-29, readiness.py:222).
FitIsEarned ==
  /\ \A f \in fit : f.map.method # "identity" =>
       /\ \A i \in DOMAIN f.basis : f.basis[i].by = "live" /\ f.basis[i].result # "none"
       /\ Len(f.basis) >= MIN_FIT_SAMPLES
       /\ \E cut \in 1..(Len(f.basis) - 1) :
            LET fitted == Points(SubSeq(f.basis, 1, cut))
                later == Points(SubSeq(f.basis, cut + 1, Len(f.basis)))
            IN /\ \A i \in 1..cut, k \in (cut + 1)..Len(f.basis) : f.basis[i].day <= f.basis[k].day
               /\ BeatsNoise(Loss(Identity, later) - Loss(f.map, later), Len(later))
               /\ f.map.method = "isotonic" =>
                    /\ {f.map.knots[i] : i \in DOMAIN f.map.knots} = Regression(fitted)
                    /\ \A p, q \in 0..One : p <= q =>
                         Calibrated(f.map, p) <= Calibrated(f.map, q)
  /\ \A t \in told : t.milestone.mayFit => Cardinality(History("live")) >= MIN_FIT_SAMPLES

\* What is made of the record of published claims.
RecordIsWellUsed == BacktestIsOfTheRecord /\ FitIsEarned
=============================================================================
