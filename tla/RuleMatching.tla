------------------------------ MODULE RuleMatching ------------------------------
(***************************************************************************)
(* Cross-venue matching: what verify_match and score_equivalence conclude    *)
(* from the normalised rules of two markets, and the store of pairings that  *)
(* refresh_matches keeps while venues reword their rules and markets come    *)
(* into and out of the horizon.                                              *)
(*                                                                         *)
(* Terms are what the rules say, as normalize_rules reads them: "" and        *)
(* Unstated stand for a term the text does not establish.  subject stands for  *)
(* the title, cap for a between market's upper bound, which is never compared. *)
(***************************************************************************)
EXTENDS Integers, FiniteSets, FiniteSetsExt

CONSTANTS Kalshi,        \* the markets of one venue
          Polymarket,    \* the markets of the other
          Terms,         \* [market -> what its rules may say]
          Similarity,    \* [subject -> [subject -> 0..100]], over title tokens
          Overlap,       \* [subject -> [subject -> 0..100]], over named entities
          Readings,      \* the values a settlement source may publish
          MaxPerMarket,  \* max_candidates_per_market
          MaxPairs       \* max_pairs of refresh_matches

ASSUME MatchAssumption ==
    /\ Readings \subseteq Int
    /\ \A m \in Kalshi \cup Polymarket : \A t \in Terms[m] : t.threshold \in Int

VARIABLES terms,    \* [market -> what its rules say now]
          inScope,    \* the markets that are open and inside a horizon
          matches,  \* [pair -> its stored row, or NoRow]
          unseen    \* pairs changed since a refresh last looked at both markets

matchVars == <<terms, inScope, matches, unseen>>

Matchables == Kalshi \cup Polymarket
Pairs == Kalshi \X Polymarket
Unstated == -1
NoRow == [level |-> 4, verdict |-> "", inverted |-> FALSE]

IDENTICAL == 0
EQUIVALENT == 1
SIMILAR == 2
INCOMPATIBLE == 3

-----------------------------------------------------------------------------
(* verify_match: one terms record against another. *)

SameContest(s, t) == s.fixture # "" /\ s.fixture = t.fixture
Distance(x, y) == IF x > y THEN x - y ELSE y - x
BothStated(x, y) == x # "" /\ y # ""
Contradict(x, y) == BothStated(x, y) /\ x # y
OneSided(x, y) == (x = "") # (y = "")

\* Strikes within a thousandth of the larger are taken for one strike.
Magnitude(x) == Distance(x, 0)
ThresholdsDiffer(s, t) ==
    /\ s.threshold # Unstated /\ t.threshold # Unstated
    /\ 1000 * Distance(s.threshold, t.threshold) >
          Max({Magnitude(s.threshold), Magnitude(t.threshold)})
ThresholdUnknown(s, t) == s.threshold = Unstated \/ t.threshold = Unstated

Opposites == {<<"gt", "lte">>, <<"lte", "gt">>, <<"gte", "lt">>, <<"lt", "gte">>}
SameOffLattice == {<<"gt", "gte">>, <<"gte", "gt">>, <<"lt", "lte">>, <<"lte", "lt">>}

Inverts(s, t) ==
    IF SameContest(s, t) THEN s.competitor # t.competitor
    ELSE <<s.comparator, t.comparator>> \in Opposites

ComparatorsMatch(s, t) ==
    \/ ~BothStated(s.comparator, t.comparator)
    \/ s.comparator = t.comparator
    \/ ~s.lattice /\ ~t.lattice /\ <<s.comparator, t.comparator>> \in SameOffLattice
    \/ <<s.comparator, t.comparator>> \in Opposites

CutoffUnknown(s, t) == s.cutoff = Unstated \/ t.cutoff = Unstated
CutoffsWithin(s, t, hours) ==
    ~CutoffUnknown(s, t) /\ Distance(s.cutoff, t.cutoff) <= hours

\* Every check that demotes: the level it demotes to, and when.
Checks(s, t) ==
    LET strike == ~SameContest(s, t)     \* the checks a moneyline does not have
    IN  { <<INCOMPATIBLE, s.names # t.names>>,
          <<SIMILAR, strike /\ Similarity[s.subject][t.subject] < 35>>,
          <<SIMILAR, strike /\ Overlap[s.subject][t.subject] < 30>>,
          <<INCOMPATIBLE, strike /\ ThresholdsDiffer(s, t)>>,
          <<SIMILAR, strike /\ ThresholdUnknown(s, t)>>,
          <<INCOMPATIBLE, strike /\ ~ComparatorsMatch(s, t)>>,
          <<EQUIVALENT, strike /\ ~BothStated(s.comparator, t.comparator)>>,
          <<INCOMPATIBLE, strike /\ Contradict(s.basis, t.basis)>>,
          <<EQUIVALENT, strike /\ OneSided(s.basis, t.basis)>>,
          <<EQUIVALENT, strike /\ ~CutoffsWithin(s, t, 1)>>,
          <<INCOMPATIBLE, strike /\ ~CutoffUnknown(s, t) /\ ~CutoffsWithin(s, t, 24)>>,
          <<SIMILAR, Contradict(s.source, t.source)>>,
          <<EQUIVALENT, ~BothStated(s.source, t.source)>>,
          <<INCOMPATIBLE, Contradict(s.overtime, t.overtime)>>,
          <<SIMILAR, Contradict(s.revised, t.revised)>> }

\* Mutant of Digest: the strike is left to the check that compares it.
DigestOfWords(t) == <<t.names, t.comparator, t.basis, t.cutoff, t.source, t.overtime, t.revised>>

\* hash_payload: neither the upper bound nor the void policies are in it.
Digest(t) == <<t.names, t.comparator, t.threshold, t.basis, t.cutoff, t.source,
               t.overtime, t.revised>>

Level(s, t) ==
    LET failed == {c[1] : c \in {k \in Checks(s, t) : k[2]}} IN
    IF failed = {} THEN (IF Digest(s) = Digest(t) THEN IDENTICAL ELSE EQUIVALENT)
    ELSE Max(failed)

-----------------------------------------------------------------------------
(* score_equivalence: the components, and the verdict derived from them. *)

Schedulable(t) == t.scheduled \/ t.fixture # ""

CancellationMatches(s, t) ==
    /\ BothStated(s.cancel, t.cancel) /\ s.cancel = t.cancel
    /\ ~Contradict(s.postpone, t.postpone)
    /\ Schedulable(s) \/ Schedulable(t) => BothStated(s.postpone, t.postpone)

Mismatched(s, t) ==
    LET strike == ~SameContest(s, t) IN
    {c \in {"entity", "event", "term"} :
        \/ c = "entity" /\ strike
              /\ (s.names # t.names \/ Overlap[s.subject][t.subject] < 30)
        \/ c = "event" /\ strike /\ Similarity[s.subject][t.subject] < 35
        \/ c = "term"
              /\ \/ strike /\ ThresholdsDiffer(s, t)
                 \/ strike /\ ~ComparatorsMatch(s, t)
                 \/ strike /\ ~CutoffUnknown(s, t) /\ ~CutoffsWithin(s, t, 24)
                 \/ Contradict(s.source, t.source)
                 \/ strike /\ (\/ Contradict(s.basis, t.basis)
                               \/ Contradict(s.overtime, t.overtime)
                               \/ Contradict(s.revised, t.revised))
                 \/ Contradict(s.cancel, t.cancel) \/ Contradict(s.postpone, t.postpone)}

Unconfirmed(s, t) ==
    \/ ~BothStated(s.source, t.source)
    \/ ~SameContest(s, t)
         /\ \/ ThresholdUnknown(s, t) \/ ~BothStated(s.comparator, t.comparator)
            \/ ~CutoffsWithin(s, t, 1) \/ ~BothStated(s.basis, t.basis)

\* Mutant of Verdict: the verifier's own level is not consulted once every
\* component matches.
ComponentVerdict(s, t) ==
    IF Level(s, t) = INCOMPATIBLE \/ Mismatched(s, t) \cap {"entity", "event"} # {}
    THEN "REJECTED"
    ELSE IF Mismatched(s, t) # {} THEN "RELATED_NOT_EQUIVALENT"
    ELSE IF Unconfirmed(s, t) THEN "PROBABLE_MATCH"
    ELSE IF ~CancellationMatches(s, t) \/ SameContest(s, t)
    THEN "VERIFIED_EQUIVALENT_STANDARD" ELSE "VERIFIED_EQUIVALENT_STRICT"

Verdict(s, t) ==
    IF Level(s, t) = INCOMPATIBLE \/ Mismatched(s, t) \cap {"entity", "event"} # {}
    THEN "REJECTED"
    ELSE IF Mismatched(s, t) # {} THEN "RELATED_NOT_EQUIVALENT"
    ELSE IF Unconfirmed(s, t) \/ Level(s, t) # IDENTICAL THEN "PROBABLE_MATCH"
    ELSE IF ~CancellationMatches(s, t) \/ SameContest(s, t)
    THEN "VERIFIED_EQUIVALENT_STANDARD" ELSE "VERIFIED_EQUIVALENT_STRICT"

Row(s, t) == [level |-> Level(s, t), verdict |-> Verdict(s, t), inverted |-> Inverts(s, t)]

Claims(row) == row.level < INCOMPATIBLE
WithdrawnRow(row) == [row EXCEPT !.level = INCOMPATIBLE, !.verdict = "REJECTED"]

-----------------------------------------------------------------------------
(* Candidate generation, and the store. *)

ByWords(s, t) ==
    /\ Similarity[s.subject][t.subject] >= 28
    /\ CutoffUnknown(s, t) \/ CutoffsWithin(s, t, 72)

Prescreen(s, t) == 6 * Similarity[s.subject][t.subject] + 4 * Overlap[s.subject][t.subject]

\* The best few counterparts of each market by words, and every shared contest.
Candidates ==
    LET worded(a) == {b \in inScope \cap Polymarket : ByWords(terms[a], terms[b])}
        best(a) == {b \in worded(a) :
                       Cardinality({c \in worded(a) : Prescreen(terms[a], terms[c]) >
                                                      Prescreen(terms[a], terms[b])})
                           < MaxPerMarket}
    IN  {p \in (inScope \cap Kalshi) \X (inScope \cap Polymarket) :
            p[2] \in best(p[1]) \/ SameContest(terms[p[1]], terms[p[2]])}

\* The row of a pair after a refresh that verified the pairs in seen.
\* Mutant of Refreshed: a pair that verifies as incompatible is skipped before
\* its row is touched.
SkipIncompatible(p, seen) ==
    LET row == Row(terms[p[1]], terms[p[2]]) IN
    IF p \in seen THEN (IF ~Claims(row) THEN matches[p] ELSE row)
    ELSE IF p[1] \in inScope /\ p[2] \in inScope /\ Claims(matches[p])
    THEN WithdrawnRow(matches[p]) ELSE matches[p]

Refreshed(p, seen) ==
    LET row == Row(terms[p[1]], terms[p[2]]) IN
    IF p \in seen THEN (IF matches[p] = NoRow /\ ~Claims(row) THEN NoRow ELSE row)
    ELSE IF p[1] \in inScope /\ p[2] \in inScope /\ Claims(matches[p])
    THEN WithdrawnRow(matches[p]) ELSE matches[p]

RefreshMatches ==
    /\ inScope \cap Kalshi # {} /\ inScope \cap Polymarket # {}
    /\ \E seen \in SUBSET Candidates :
          /\ Cardinality(seen) = Min({MaxPairs, Cardinality(Candidates)})
          /\ matches' = [p \in Pairs |-> Refreshed(p, seen)]
    /\ unseen' = {p \in unseen : p[1] \notin inScope \/ p[2] \notin inScope}
    /\ UNCHANGED <<terms, inScope>>

\* A venue's next payload carries different rules for the market.
Reword(m, t) ==
    /\ terms[m] # t
    /\ terms' = [terms EXCEPT ![m] = t]
    /\ unseen' = unseen \cup {p \in Pairs : m \in {p[1], p[2]}}
    /\ UNCHANGED <<inScope, matches>>

\* A market opens, closes, or crosses a horizon's edge.
MoveScope(m) ==
    /\ inScope' = IF m \in inScope THEN inScope \ {m} ELSE inScope \cup {m}
    /\ unseen' = unseen \cup {p \in Pairs : m \in {p[1], p[2]} /\ m \notin inScope}
    /\ UNCHANGED <<terms, matches>>

MatchInit ==
    /\ terms \in {f \in [Matchables -> UNION {Terms[m] : m \in Matchables}] :
                    \A m \in Matchables : f[m] \in Terms[m]}
    /\ inScope = Matchables
    /\ matches = [p \in Pairs |-> NoRow]
    /\ unseen = Pairs

MatchNext ==
    \/ RefreshMatches
    \/ \E m \in Matchables : \E t \in Terms[m] : Reword(m, t)
    \/ \E m \in Matchables : MoveScope(m)

MatchSpec == MatchInit /\ [][MatchNext]_matchVars

-----------------------------------------------------------------------------
(* What the store promises. *)

\* Whether the market pays YES when the source publishes the reading.
Pays(t, reading) ==
    CASE t.comparator = "gt"  -> reading > t.threshold
      [] t.comparator = "gte" -> reading >= t.threshold
      [] t.comparator = "lt"  -> reading < t.threshold
      [] t.comparator = "lte" -> reading <= t.threshold
      [] t.comparator = "between" -> reading >= t.threshold /\ reading <= t.cap
      [] OTHER -> FALSE

\* A reading a market's source may publish: never the strike itself off a lattice.
Reachable(t) == IF t.lattice THEN Readings ELSE Readings \ {t.threshold}

\* The two contracts look at the same thing, at the same hour.
SameObservation(s, t) ==
    <<s.names, s.source, s.basis, s.cutoff, s.overtime, s.revised>> =
    <<t.names, t.source, t.basis, t.cutoff, t.overtime, t.revised>>

SameWhenVoid(s, t) ==
    /\ s.cancel = t.cancel /\ s.cancel # ""
    /\ Schedulable(s) \/ Schedulable(t) => s.postpone = t.postpone

SettleAlike(s, t) ==
    /\ SameObservation(s, t) /\ SameWhenVoid(s, t)
    /\ \A reading \in Reachable(s) : Pays(s, reading) = Pays(t, reading)

\* The source publishes a value from one strike to the other, both included, where
\* they are not the same: two strikes that are taken for one do not part it alike.
AmongStrikes(s, t, reading) ==
    /\ s.threshold # t.threshold
    /\ \/ s.threshold <= reading /\ reading <= t.threshold
       \/ t.threshold <= reading /\ reading <= s.threshold

\* A pair stored as strictly equivalent, and so as a guaranteed arbitrage
\* (allows_guaranteed_arbitrage), was rated so on rules under which both markets
\* pay the same in every outcome, a cancelled or a postponed one included; and a
\* pair stored as any kind of match with both strikes known never pays the other
\* way round than its polarity says (comparators_match, outcome_mapping), unless the
\* value falls among two strikes the tolerance took for one (compare_thresholds).
\* A strict pair has no such values: its digests are equal, and the strike is in them.
\* Between markets are left out: their upper bound is never compared.
RatedPairsSettleAlike ==
    \A p \in Pairs \ unseen :
        LET s == terms[p[1]]
            t == terms[p[2]]
            row == matches[p]
        IN  {p[1], p[2]} \subseteq inScope /\ "between" \notin {s.comparator, t.comparator} =>
              /\ row.verdict = "VERIFIED_EQUIVALENT_STRICT" =>
                    SettleAlike(s, t) /\ ~row.inverted /\ ~SameContest(s, t)
              /\ Claims(row) /\ ~SameContest(s, t) /\ ~ThresholdUnknown(s, t)
                    /\ BothStated(s.comparator, t.comparator) =>
                    \A reading \in Reachable(s) \cap Reachable(t) :
                        AmongStrikes(s, t, reading) \/
                        (Pays(s, reading) = Pays(t, reading)) = ~row.inverted

\* Once a refresh has looked at both markets of a pair, what is stored claims no
\* more than their present rules allow: the stored row is the verdict of the
\* rules as they read now, or a rejection.  A pairing that stops being compatible,
\* or stops being proposed, leaves no stale claim behind (refresh_matches).
NoStaleClaim ==
    \A p \in Pairs \ unseen :
        {p[1], p[2]} \subseteq inScope /\ Claims(matches[p]) =>
            matches[p] = Row(terms[p[1]], terms[p[2]])

\* What is stored of a pair is true of the rules, and of the rules as they are.
PairsAreTrue == RatedPairsSettleAlike /\ NoStaleClaim

=============================================================================
