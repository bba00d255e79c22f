----------------------------- MODULE MCAlgorithms -----------------------------
(***************************************************************************)
(* Small instances of the snapshot run, of the decision procedures, each asked *)
(* about every input of a small set, and of the paid reports, by two generators *)
(* around a publication.  They share nothing, so a behaviour is a behaviour of  *)
(* one of them: which names it, and the others keep their initial states.      *)
(***************************************************************************)
EXTENDS SnapshotPipeline, ArbitrageScan, RuleMatching, PilotReport, SourceLag, ExecutableCapacity

VARIABLE which

Procedures == {"pipeline", "scan", "match", "reports", "lag", "capacity"}

AlgorithmsInit ==
    /\ which \in Procedures
    /\ Init /\ ScanInit /\ MatchInit /\ PilotInit /\ LagInit /\ CapacityInit
    /\ which = "pipeline" \/ scope = [event |-> "workflow_dispatch", wanted |-> FALSE,
                                      workflow |-> FALSE, inherited |-> "none"]
    /\ which = "match" \/ terms = [m \in Matchables |-> CHOOSE t \in Terms[m] : TRUE]

Of(name, step) == which = name /\ step

AlgorithmsNext ==
    /\ UNCHANGED which
    /\ \/ Of("pipeline", Next) /\ UNCHANGED <<scanVars, matchVars, pilotVars, lagVars, capacityVars>>
       \/ Of("scan", ScanNext) /\ UNCHANGED <<vars, matchVars, pilotVars, lagVars, capacityVars>>
       \/ Of("match", MatchNext) /\ UNCHANGED <<vars, scanVars, pilotVars, lagVars, capacityVars>>
       \/ Of("reports", PilotNext) /\ UNCHANGED <<vars, scanVars, matchVars, lagVars, capacityVars>>
       \/ Of("lag", LagNext) /\ UNCHANGED <<vars, scanVars, matchVars, pilotVars, capacityVars>>
       \/ Of("capacity", CapacityNext) /\ UNCHANGED <<vars, scanVars, matchVars, pilotVars, lagVars>>
       \* Refreshes and reports come to an end; the pipeline's end is its own.
       \/ which # "pipeline" /\ UNCHANGED <<vars, scanVars, matchVars, pilotVars, lagVars, capacityVars>>

AlgorithmsSpec ==
    AlgorithmsInit /\ [][AlgorithmsNext]_<<which, vars, scanVars, matchVars,
                                           pilotVars, lagVars, capacityVars>>

-----------------------------------------------------------------------------
(* Books with one and two levels, crossed and uncrossed, and an empty side. *)

One1(p, n) == <<[price |-> p, size |-> n]>>
Two(p, n, q, k) == <<[price |-> p, size |-> n], [price |-> q, size |-> k]>>

MCBooks ==
    {[yes |-> One1(31, 2), no |-> Two(43, 1, 62, 3)],
     [yes |-> Two(20, 1, 66, 3), no |-> One1(31, 2)],
     [yes |-> Two(43, 3, 48, 1), no |-> One1(52, 3)],
     [yes |-> Two(25, 1, 38, 2), no |-> Two(20, 1, 66, 3)],
     [yes |-> One1(52, 3), no |-> <<>>]}

MCMarkets ==
    {[venue |-> "kalshi", rate |-> 7, flat |-> FALSE, tick |-> 1],
     [venue |-> "polymarket", rate |-> 5, flat |-> FALSE, tick |-> 1]}

MCConditions ==
    {[stale |-> FALSE, open |-> TRUE, apart |-> FALSE],
     [stale |-> TRUE, open |-> TRUE, apart |-> FALSE],
     [stale |-> FALSE, open |-> FALSE, apart |-> FALSE],
     [stale |-> FALSE, open |-> TRUE, apart |-> TRUE]}

-----------------------------------------------------------------------------
(* What the source-lag strategy decides on: narrow and wide books, one without *)
(* bids, certain and uncertain estimates, sources that moved up, down or once. *)

LagBooks ==
    {[yes |-> Two(38, 4, 44, 12), no |-> Two(63, 6, 70, 6)],
     [yes |-> One1(55, 8), no |-> Two(46, 3, 52, 9)],
     [yes |-> Two(20, 3, 24, 20), no |-> One1(90, 20)],
     [yes |-> Two(64, 2, 66, 20), no |-> Two(37, 3, 40, 20)],
     [yes |-> One1(40, 30), no |-> <<>>],
     [yes |-> One1(44, 9), no |-> One1(58, 9)]}
LagMarkets ==
    {[venue |-> "kalshi", rate |-> 7, flat |-> FALSE, tick |-> 1, maker |-> 2],
     [venue |-> "polymarket", rate |-> 5, flat |-> FALSE, tick |-> 1, maker |-> 0],
     [venue |-> "polymarket", rate |-> 5, flat |-> FALSE, tick |-> 2, maker |-> 0]}
Fairs == {[low |-> m - w, mid |-> m, high |-> m + w, independent |-> i] :
            m \in {22, 34, 48, 56, 70}, w \in {3, 10, 20}, i \in {TRUE}}
          \cup {[low |-> 40, mid |-> 45, high |-> 50, independent |-> FALSE]}
MCSituations == {s \in
    {[m |-> m, book |-> b, fair |-> f, source |-> o, fresh |-> fr, before |-> be, after |-> af,
      headroom |-> h] :
      m \in LagMarkets, b \in LagBooks, f \in Fairs, o \in {<<50>>, <<40, 50>>, <<50, 40>>},
      fr \in BOOLEAN, be \in {{45}}, af \in {{}, {47}, {54}}, h \in {2000, 20000}} : s.m.tick = 2 => s.book = [yes |-> One1(44, 9), no |-> One1(58, 9)]}
MCReviews ==
    {[fair |-> f, book |-> b, fresh |-> TRUE, held |-> h[1], left |-> h[2]] :
       f \in Fairs, b \in LagBooks, h \in {<<1, 9>>, <<48, 9>>, <<1, 2>>}}
-----------------------------------------------------------------------------
(* Captures of one book on both sides, then of two of which one may be of     *)
(* other provenance; a crossed book, a malformed level, a side without bids.  *)

CapSides ==
    {[asks |-> Two(38, 4, 44, 12), bids |-> Two(37, 2, 30, 6)],
     [asks |-> Two(55, 1, 56, 30), bids |-> One1(53, 8)],
     [asks |-> Two(20, 3, 24, 20), bids |-> One1(10, 20)],
     [asks |-> Two(90, 0, 92, 7), bids |-> One1(91, 50)],
     [asks |-> One1(8, 30), bids |-> Two(7, 9, 5, 9)],
     [asks |-> One1(44, 9), bids |-> One1(45, 9)],
     [asks |-> Two(3, 8, 4, 20), bids |-> One1(2, 9)],
     [asks |-> One1(40, 30), bids |-> <<>>]}

CapturesOf(m, y, n) ==
    [m |-> m, live |-> TRUE, marketLive |-> TRUE, yes |-> y, no |-> n]

MCCaptures ==
    {<<CapturesOf(m, y, n)>> : m \in MCMarkets, y \in CapSides, n \in CapSides}
    \cup {<<CapturesOf(m, y, y),
            [CapturesOf(m, z, z) EXCEPT !.live = p[1], !.marketLive = p[2]]>> :
             m \in MCMarkets, y \in CapSides, z \in CapSides,
             p \in {<<TRUE, TRUE>>, <<TRUE, FALSE>>, <<FALSE, FALSE>>}}

-----------------------------------------------------------------------------
(* One Kalshi market against two of Polymarket, of which one is a distraction. *)

Plain == [subject |-> "rain", names |-> "nyc", fixture |-> "", competitor |-> "",
          comparator |-> "gt", threshold |-> 2000, cap |-> 3000, lattice |-> TRUE,
          basis |-> "close", cutoff |-> 10, source |-> "nws", overtime |-> "",
          revised |-> "", cancel |-> "void", postpone |-> "", scheduled |-> FALSE]
Game == [Plain EXCEPT !.subject = "game", !.fixture = "sdsf", !.competitor = "sd",
                      !.comparator = "", !.threshold = Unstated, !.basis = "",
                      !.scheduled = TRUE]

KalshiTerms ==
    {Plain, Game,
     [Plain EXCEPT !.comparator = "gte"], [Plain EXCEPT !.comparator = "lt"],
     [Plain EXCEPT !.comparator = "between"], [Plain EXCEPT !.lattice = FALSE],
     [Plain EXCEPT !.scheduled = TRUE, !.postpone = "extended"],
     [Plain EXCEPT !.cancel = ""], [Plain EXCEPT !.overtime = "yes"]}

PolymarketTerms ==
    {Plain, Game, [Game EXCEPT !.competitor = "sf"],
     [Plain EXCEPT !.comparator = "lte"],
     [Plain EXCEPT !.comparator = "gte", !.lattice = FALSE],
     [Plain EXCEPT !.comparator = "between", !.cap = 2000],
     [Plain EXCEPT !.threshold = 1000], [Plain EXCEPT !.threshold = 2001],
     [Plain EXCEPT !.threshold = 2001, !.comparator = "lte"], [Plain EXCEPT !.cutoff = 11],
     [Plain EXCEPT !.cutoff = 20], [Plain EXCEPT !.source = "ibm"],
     [Plain EXCEPT !.basis = "touch"], [Plain EXCEPT !.cancel = "resolve"],
     [Plain EXCEPT !.overtime = "no"], [Plain EXCEPT !.postpone = "extended"]}

MCTerms ==
    [m \in {"k1", "p1", "p2"} |->
        CASE m = "k1" -> KalshiTerms
          [] m = "p1" -> PolymarketTerms
          [] OTHER -> {[Plain EXCEPT !.subject = "rainy", !.cutoff = Unstated]}]

Subjects == {"rain", "rainy", "game"}
MCSimilarity ==
    [s \in Subjects |-> [t \in Subjects |->
        IF s = t THEN 90 ELSE IF "game" \in {s, t} THEN 10 ELSE 50]]
MCOverlap == [s \in Subjects |-> [t \in Subjects |-> IF s = t THEN 90 ELSE 40]]
=============================================================================
