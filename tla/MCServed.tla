------------------------------ MODULE MCServed ------------------------------
(***************************************************************************)
(* The published files, and what the API tells of the database in them.  A   *)
(* behaviour is one of six machines, named by which; the others stay at     *)
(* their initial states:                                                   *)
(*   files     three runs and one API process over the published pair;       *)
(*   checks    two candidates with flaws on their way to publication, with two *)
(*             deaths or damaged files;                                    *)
(*   scans     a request for the arbitrage list during two scans;           *)
(*   quotes    requests for the prices of a market between three            *)
(*             observations of it, on a snapshot and on a live deployment;   *)
(*   rankings  the lists of recommendations, with two rankings of two        *)
(*             markets that may overlap and two changes of the markets;       *)
(*   costs     one answer about the cost of a contract, or of three compared.  *)
(***************************************************************************)
EXTENDS SnapshotFiles, SnapshotValidation, ScanReport, QuoteViews, RankingViews, EntryCost

CONSTANTS m1, m2

VARIABLE which

\* A machine that is not chosen has one initial state.
ServedInit ==
  /\ which \in {"files", "checks", "scans", "quotes", "rankings", "costs"}
  /\ Init /\ ValidationInit /\ ReportInit /\ QuoteInit /\ RankingInit /\ EntryInit
  /\ which = "files" \/ gz = Genesis
  /\ which = "quotes" \/ serving = "live"

Of(name, step) == which = name /\ step

ServedNext ==
  /\ UNCHANGED which
  /\ \/ Of("files", Next) /\ UNCHANGED <<validationVars, reportVars, quoteVars, rankingVars, entryVars>>
     \/ Of("checks", ValidationNext) /\ UNCHANGED <<vars, reportVars, quoteVars, rankingVars, entryVars>>
     \/ Of("scans", ReportNext) /\ UNCHANGED <<vars, validationVars, quoteVars, rankingVars, entryVars>>
     \/ Of("quotes", QuoteNext) /\ UNCHANGED <<vars, validationVars, reportVars, rankingVars, entryVars>>
     \/ Of("rankings", RankingNext) /\ UNCHANGED <<vars, validationVars, reportVars, quoteVars, entryVars>>
     \/ Of("costs", EntryNext)
        /\ UNCHANGED <<vars, validationVars, reportVars, quoteVars, rankingVars>>

\* The fairness is that of the files, and so is the liveness: a behaviour of another
\* machine, which leaves a reader of the files waiting, is not a fair one.
ServedSpec ==
  /\ ServedInit
  /\ [][ServedNext]_<<which, vars, validationVars, reportVars, quoteVars, rankingVars, entryVars>>
  /\ Fairness

\* Ladders of one or two levels, with cheap, dear and sub-cent prices.
Rungs(p, n) == <<[price |-> p, size |-> n]>>
TwoRungs(p, n, q, k) == Rungs(p, n) \o Rungs(q, k)
AskLadders ==
  {<<>>, Rungs(10, 30), Rungs(500, 4), TwoRungs(820, 3, 840, 20), TwoRungs(340, 5, 410, 7),
   TwoRungs(20, 1, 30, 2), TwoRungs(985, 2, 990, 40), TwoRungs(341, 1, 348, 9)}
Terms(venue, rate, flat, minOrder, resolves) ==
  [venue |-> venue, rate |-> rate, flat |-> flat, tick |-> 10, minOrder |-> minOrder,
   resolves |-> resolves]
MCContracts ==
  [m : {Terms("kalshi", 7, FALSE, 1, TRUE), Terms("kalshi", 1, TRUE, 1, FALSE),
        Terms("polymarket", 5, FALSE, 5, TRUE), Terms("polymarket", 0, FALSE, 1, FALSE)},
   levels : AskLadders, summary : {{}, {340}, {820}}, category : {"weather"}, age : {{}, {1}, {4}}]
Traded ==
  [m : {Terms("kalshi", 7, FALSE, 1, TRUE), Terms("polymarket", 5, FALSE, 5, TRUE)},
   levels : {<<>>, Rungs(10, 30), TwoRungs(820, 3, 840, 20)}, summary : {{340}},
   category : {"weather", "sports"}, age : {{}}]
MCTables == {<<a, b, c>> : a \in Traded, b \in Traded, c \in Traded}

MCHorizons == [m \in {m1, m2} |-> "24h"]
=============================================================================
