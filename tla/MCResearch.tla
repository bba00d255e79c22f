------------------------------ MODULE MCResearch ------------------------------
(***************************************************************************)
(* Small instances of the research side: what is collected, what it may be    *)
(* used for, what a line of snapshots keeps, the replay that trades on it, the *)
(* schedule that runs the jobs, and what is made of the graded claims.          *)
(* They share nothing, so a behaviour is a behaviour of one of them: which      *)
(* names it, and the others keep their initial states.                        *)
(***************************************************************************)
EXTENDS StrategySimulator, ResearchCollector, ObservationStore, SnapshotRetention,
        WorkerSchedule, WalkForward

LOCAL INSTANCE TLC

VARIABLE which

ResearchInit ==
    /\ which \in {"replay", "books", "observations", "retention", "schedule",
                "history"}
    /\ ReplayInit /\ CollectorInit /\ ObservationInit /\ RetentionInit
    /\ ScheduleInit /\ WalkInit
    /\ which = "books" \/ issued = {}
    /\ which = "schedule" \/ followed = {"arbitrage"}

Of(name, step) == which = name /\ step

ResearchNext ==
    /\ UNCHANGED which
    /\ \/ /\ Of("replay", ReplayNext)
          /\ UNCHANGED <<collectorVars, observationVars, retentionVars, scheduleVars, walkVars>>
       \/ /\ Of("books", CollectorNext)
          /\ UNCHANGED <<replayVars, observationVars, retentionVars, scheduleVars, walkVars>>
       \/ /\ Of("observations", ObservationNext)
          /\ UNCHANGED <<replayVars, collectorVars, retentionVars, scheduleVars, walkVars>>
       \/ /\ Of("retention", RetentionNext)
          /\ UNCHANGED <<replayVars, collectorVars, observationVars, scheduleVars, walkVars>>
       \/ /\ Of("schedule", ScheduleNext)
          /\ UNCHANGED <<replayVars, collectorVars, observationVars, retentionVars, walkVars>>
       \/ /\ Of("history", WalkNext)
          /\ UNCHANGED <<replayVars, collectorVars, observationVars, retentionVars,
                         scheduleVars>>

ResearchSpec ==
    /\ ResearchInit
    /\ [][ResearchNext]_<<which, replayVars, collectorVars, observationVars, retentionVars,
                        scheduleVars, walkVars>>

-----------------------------------------------------------------------------
(* Two markets, each with a ceiling of its own, and one group they share. *)

MCBuckets == {"first", "second", "group"}
MCBucketsOf == <<{"first", "group"}, {"second", "group"}>>
MCDayOf == [t \in 0..LAST |-> t \div 2]
MCCap == [first |-> 2, second |-> 2, group |-> 3]

-----------------------------------------------------------------------------
(* One book near its resolution and one far from it; no publications, and a   *)
(* schedule that the health report can observe.                               *)

MCResolution == [m \in Tracked |-> IF m = "b1" THEN 5 ELSE 30]
MCHistories == {{}, {-11, -3}}

(* A frequent job, and the two of a day that follow each other; a period and   *)
(* a day are a few hours long.                                               *)

MCFollowed == {{"arbitrage"}, {"snapshot", "backtest"}}
MCEvery == [arbitrage |-> 2, snapshot |-> 4, backtest |-> 4]
MCAt == [snapshot |-> 1, backtest |-> 3]
MCGrace == [arbitrage |-> 0, snapshot |-> 1, backtest |-> 1]
MCStallAfter == [snapshot |-> 6, backtest |-> 6]
MCDaily == <<"snapshot", "backtest">>

\* The first listing settles after the second, though it closes before it.
MCEndOf == (1 :> [closed |-> 1, settled |-> 4]) @@ (2 :> [closed |-> 2, settled |-> 3])
           @@ (3 :> [closed |-> 2, settled |-> 3])

MCLadder == <<[live |-> 1, resolved |-> 1], [live |-> 1, resolved |-> 0],
              [live |-> 0, resolved |-> 0]>>

-----------------------------------------------------------------------------
(* One batch a day of two claims, each sure of itself and each the first of its   *)
(* horizon; one is right, the other's market settles to a half or to what the    *)
(* grading does not know.  A synthetic claim may stand beside them.            *)

Said(m, side, p, cost, platform, horizon) ==
    [market |-> m, side |-> side, p |-> p, low |-> p - 2, cost |-> cost, size |-> 2,
     horizon |-> horizon, platform |-> platform, confidence |-> 5, asks |-> {"yes"},
     best |-> {"yes", "no"}]

MCLiveBatches ==
    {<<Said("k1", "yes", 54, 40, "kalshi", "24h"), Said("p1", "no", 36, 20, "polymarket", "7d")>>}

Settles(r, pays) == [result |-> r, pays |-> pays]

MCDemoHistories ==
    {<<Said("d", "no", 40, 20, "kalshi", "7d") @@ [settled |-> Settles("no", 0)]>>}

MCOutcomes ==
    [m \in {"k1", "p1"} |->
        IF m = "k1" THEN {Settles("fifty_fifty", 30), Settles("unknown", 20)}
        ELSE {Settles("no", 0)}]

Strategy(name, top, kelly, stake, horizons) ==
    [name |-> name, top |-> top, kelly |-> kelly, stake |-> stake, minConfidence |-> 0,
     horizons |-> horizons, platforms |-> {"kalshi", "polymarket"}]
MCStrategies ==
    {Strategy("top1", 1, FALSE, 100, {"24h", "7d"}), Strategy("kelly", 3, TRUE, 1000, {"7d"})}

\* Nothing keeps a fitted slope from being negative.
MCBetaMaps == {[p \in 0..60 |-> 60 - (p * p) \div 100]}
=============================================================================
