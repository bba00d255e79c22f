------------------------- MODULE TrackRecordProofs -------------------------
(***************************************************************************)
(* Proofs about TrackRecord for any markets, window, limit and bounds.     *)
(*                                                                         *)
(* TrackInv is inductive.  OneVerdict needs to know that a settlement run  *)
(* asks only about markets without a settlement and that nobody else       *)
(* writes settlements (AskedAreOpen); NoHindsight needs to know that what  *)
(* is settled is past its expected time (FiledArePast), which the clock    *)
(* then keeps and only a stale listing can undo.                           *)
(***************************************************************************)
EXTENDS TrackRecord, TLAPS

\* A ranking run in flight has a batch number left.
RankHasRoom == loaded # {} => batch < MAX_BATCHES

\* Past its expected time, or given a later one behind a settlement run's back.
PastOrRevived(m) == expected[m] < clock \/ m \in revived

\* A settlement run asks about markets that have no settlement and are past their
\* expected time, or were when it asked.
AskedAreOpen ==
  settling => \A m \in DOMAIN answers : settlement[m] = NoResult /\ PastOrRevived(m)

\* Whatever is settled is past its expected time, or was until a stale listing put
\* it off.
FiledArePast == \A m \in Markets : settlement[m] # NoResult => PastOrRevived(m)

\* Batches that are not published yet have no recommendations.
FutureIsBlank == \A r \in Rows : r[1] > batch => rec[r] = "none"

\* A market row that says settled has its settlement; the converse fails after
\* a late ingest.
StatusHasProof == \A m \in Markets : status[m] = "settled" => settlement[m] # NoResult

TrackInv ==
  /\ TypeOK /\ RankHasRoom /\ FutureIsBlank
  /\ AskedAreOpen /\ FiledArePast /\ StatusHasProof
  /\ OneVerdict /\ FrozenOnce

\* A row names a batch and a market.
LEMMA RowParts == \A r \in Rows : r[1] \in Batches /\ r[2] \in Markets
  BY DEF Rows

\* No answers are answers of an empty set of markets.
LEMMA NoAnswersAre == NoAnswers \in AnswerSheets
  <1>1. NoAnswers \in [{} -> Results \cup {Waiting, NoNews}]
    BY DEF NoAnswers
  <1>2. {} \in SUBSET Markets
    OBVIOUS
  <1>. QED
    BY <1>1, <1>2 DEF AnswerSheets

\* Nothing fetched is a listing of no market.
LEMMA NoListingIs == NoListing \in Listings
  <1>1. NoListing \in [{} -> Nat]
    BY DEF NoListing
  <1>2. {} \in SUBSET Markets
    OBVIOUS
  <1>. QED
    BY <1>1, <1>2 DEF Listings

\* The first state satisfies the invariant: nothing is published or settled.
LEMMA InitTrack == Init => TrackInv
  <1>. SUFFICES ASSUME Init PROVE TrackInv
    OBVIOUS
  <1>. USE DEF Init
  <1>1. TypeOK
    <2>1. answers \in AnswerSheets
      BY NoAnswersAre
    <2>2. /\ clock \in 0..LAST /\ batch \in 0..MAX_BATCHES /\ errors \in 0..MAX_ERRORS
          /\ frozen \in [Rows -> 0..2] /\ corrected \in Nat
          /\ expected \in [Markets -> Nat] /\ listing \in Listings
      BY TrackAssumption, NoListingIs
    <2>. QED
      BY <2>1, <2>2 DEF TypeOK, Outcomes
  <1>2. RankHasRoom /\ FutureIsBlank /\ AskedAreOpen /\ FiledArePast /\ StatusHasProof
    BY DEF RankHasRoom, FutureIsBlank, AskedAreOpen, FiledArePast, PastOrRevived, StatusHasProof
  <1>3. OneVerdict /\ FrozenOnce
    <2>. SUFFICES ASSUME NEW r \in Rows
                  PROVE  /\ grade[r] = NoResult /\ frozenGrade[r] = NoResult
                         /\ rec[r] # "settled" /\ frozen[r] = 0
      BY DEF OneVerdict, FrozenOnce
    <2>. QED
      OBVIOUS
  <1>. QED
    BY <1>1, <1>2, <1>3 DEF TrackInv

\* What a settlement run has on file is an outcome.
LEMMA OnFileType == TypeOK => \A m \in Markets : OnFile(m) \in Outcomes
  BY DEF TypeOK, OnFile, Answered, Outcomes

\* Every step keeps the types.
LEMMA StepTypes == TypeOK /\ RankHasRoom /\ [Next]_vars => TypeOK'
  <1>. SUFFICES ASSUME TypeOK /\ RankHasRoom, [Next]_vars PROVE TypeOK'
    OBVIOUS
  <1>1. ASSUME NEW m \in Markets, NEW result \in FirstResults, VenueResolve(m, result) PROVE TypeOK'
    BY <1>1, TrackAssumption DEF VenueResolve, localVars, bookVars, runVars, TypeOK, Outcomes
  <1>2. ASSUME NEW m \in Markets, NEW result \in Results, VenueCorrect(m, result) PROVE TypeOK'
    BY <1>2, TrackAssumption DEF VenueCorrect, localVars, bookVars, runVars, TypeOK, Outcomes
  <1>3. ASSUME NEW m \in Markets, Answer(m) PROVE TypeOK'
    <2>1. PICK ms \in SUBSET Markets : answers \in [ms -> Results \cup {Waiting, NoNews}]
      BY DEF TypeOK, AnswerSheets
    <2>2. answers' \in [ms -> Results \cup {Waiting, NoNews}]
      BY <1>3, <2>1 DEF Answer, TypeOK, Outcomes
    <2>3. answers' \in AnswerSheets
      BY <2>2 DEF AnswerSheets
    <2>. QED
      BY <1>3, <2>3, TrackAssumption DEF Answer, venueVars, localVars, bookVars, TypeOK
  <1>4. ASSUME Fetch PROVE TypeOK'
    <2>1. PICK ms \in SUBSET Markets :
             \E times \in [ms -> UNION {Announced[m] : m \in ms}] : listing' = times
      BY <1>4 DEF Fetch
    <2>2. UNION {Announced[m] : m \in ms} \subseteq Nat
      BY <2>1, TrackAssumption
    <2>3. listing' \in [ms -> Nat]
      BY <2>1, <2>2
    <2>4. listing' \in Listings
      BY <2>1, <2>3 DEF Listings
    <2>. QED
      BY <1>4, <2>4 DEF Fetch, venueVars, localVars, bookVars, runVars, TypeOK
  <1>5. ASSUME Store PROVE TypeOK'
    <2>1. PICK ms \in SUBSET Markets : listing \in [ms -> Nat]
      BY DEF TypeOK, Listings
    <2>2. expected' \in [Markets -> Nat]
      BY <1>5, <2>1 DEF Store, TimeAfter, Listed, TypeOK
    <2>3. listing' \in Listings
      BY <1>5, NoListingIs DEF Store
    <2>4. revived' \subseteq Markets /\ prompt' \subseteq Markets
      BY <1>5, <2>1 DEF Store, Listed, TypeOK
    <2>5. status' \in [Markets -> {"open", "settled"}]
      BY <1>5 DEF Store, TypeOK
    <2>. QED
      BY <1>5, <2>2, <2>3, <2>4, <2>5 DEF Store, bookVars, runVars, TypeOK
  <1>6. ASSUME StartRank PROVE TypeOK'
    BY <1>6 DEF StartRank, Scoreable, venueVars, localVars, bookVars, runVars, TypeOK
  <1>7. ASSUME Publish PROVE TypeOK'
    <2>1. batch + 1 \in 0..MAX_BATCHES
      BY <1>7, TrackAssumption DEF Publish, RankHasRoom, TypeOK
    <2>2. batch' \in 0..MAX_BATCHES
      BY <1>7, <2>1 DEF Publish, TypeOK
    <2>3. rec' \in [Rows -> {"none", "open", "settled"}]
      BY <1>7 DEF Publish, TypeOK
    <2>. QED
      BY <1>7, <2>2, <2>3 DEF Publish, venueVars, localVars, runVars, TypeOK
  <1>8. ASSUME Freeze PROVE TypeOK'
    <2>1. frozen' \in [Rows -> 0..2]
      BY <1>8 DEF Freeze, Unfrozen, TypeOK
    <2>. QED
      BY <1>8, <2>1 DEF Freeze, venueVars, localVars, runVars, TypeOK
  <1>9. ASSUME StartSettle PROVE TypeOK'
    <2>1. PICK pending \in SUBSET Due : answers' = [m \in pending |-> Waiting]
      BY <1>9 DEF StartSettle
    <2>2. pending \in SUBSET Markets
      BY DEF Due
    <2>3. answers' \in [pending -> Results \cup {Waiting, NoNews}]
      BY <2>1
    <2>4. answers' \in AnswerSheets
      BY <2>2, <2>3 DEF AnswerSheets
    <2>5. crowded' \subseteq Markets
      BY <1>9 DEF StartSettle, Due, TypeOK
    <2>. QED
      BY <1>9, <2>4, <2>5 DEF StartSettle, venueVars, localVars, bookVars, TypeOK
  <1>10. ASSUME CommitSettle PROVE TypeOK'
    <2>1. settlement' \in [Markets -> Outcomes]
      BY <1>10, OnFileType DEF CommitSettle
    <2>2. /\ grade' \in [Rows -> Outcomes] /\ frozenGrade' \in [Rows -> Outcomes]
      BY <1>10, OnFileType, RowParts DEF CommitSettle, Graded, TypeOK
    <2>3. /\ status' \in [Markets -> {"open", "settled"}]
          /\ rec' \in [Rows -> {"none", "open", "settled"}]
      BY <1>10 DEF CommitSettle, StatusAfter, TypeOK
    <2>4. answers' \in AnswerSheets
      BY <1>10, NoAnswersAre DEF CommitSettle
    <2>. QED
      BY <1>10, <2>1, <2>2, <2>3, <2>4 DEF CommitSettle, venueVars, TypeOK
  <1>11. ASSUME AbortSettle PROVE TypeOK'
    <2>1. answers' \in AnswerSheets
      BY <1>11, NoAnswersAre DEF AbortSettle
    <2>2. errors' \in 0..MAX_ERRORS
      BY <1>11, TrackAssumption DEF AbortSettle, TypeOK
    <2>. QED
      BY <1>11, <2>1, <2>2 DEF AbortSettle, venueVars, localVars, bookVars, TypeOK
  <1>12. ASSUME Tick PROVE TypeOK'
    <2>1. clock' \in 0..LAST
      BY <1>12, TrackAssumption DEF Tick, TypeOK
    <2>. QED
      BY <1>12, <2>1 DEF Tick, venueVars, localVars, bookVars, TypeOK
  <1>13. ASSUME UNCHANGED vars PROVE TypeOK'
    BY <1>13, TrackAssumption DEF vars, venueVars, localVars, bookVars, runVars, TypeOK, Outcomes
  <1>. QED
    BY <1>1, <1>2, <1>3, <1>4, <1>5, <1>6, <1>7, <1>8, <1>9, <1>10, <1>11, <1>12, <1>13 DEF Next

\* A ranking run starts with a batch number left, and only it takes one.
LEMMA StepRoom == TypeOK /\ RankHasRoom /\ [Next]_vars => RankHasRoom'
  <1>. SUFFICES ASSUME TypeOK /\ RankHasRoom, [Next]_vars PROVE RankHasRoom'
    OBVIOUS
  <1>1. ASSUME NEW m \in Markets, NEW result \in FirstResults, VenueResolve(m, result) PROVE RankHasRoom'
    BY <1>1 DEF VenueResolve, localVars, bookVars, runVars, RankHasRoom
  <1>2. ASSUME NEW m \in Markets, NEW result \in Results, VenueCorrect(m, result) PROVE RankHasRoom'
    BY <1>2 DEF VenueCorrect, localVars, bookVars, runVars, RankHasRoom
  <1>3. ASSUME NEW m \in Markets, Answer(m) PROVE RankHasRoom'
    BY <1>3 DEF Answer, venueVars, localVars, bookVars, RankHasRoom
  <1>4. ASSUME Fetch PROVE RankHasRoom'
    BY <1>4 DEF Fetch, venueVars, localVars, bookVars, runVars, RankHasRoom
  <1>5. ASSUME Store PROVE RankHasRoom'
    BY <1>5 DEF Store, bookVars, runVars, RankHasRoom
  <1>6. ASSUME StartRank PROVE RankHasRoom'
    BY <1>6 DEF StartRank, venueVars, localVars, bookVars, runVars, RankHasRoom
  <1>7. ASSUME Publish PROVE RankHasRoom'
    BY <1>7 DEF Publish, venueVars, localVars, runVars, RankHasRoom
  <1>8. ASSUME Freeze PROVE RankHasRoom'
    BY <1>8 DEF Freeze, venueVars, localVars, runVars, RankHasRoom
  <1>9. ASSUME StartSettle PROVE RankHasRoom'
    BY <1>9 DEF StartSettle, venueVars, localVars, bookVars, RankHasRoom
  <1>10. ASSUME CommitSettle PROVE RankHasRoom'
    BY <1>10 DEF CommitSettle, venueVars, RankHasRoom
  <1>11. ASSUME AbortSettle PROVE RankHasRoom'
    BY <1>11 DEF AbortSettle, venueVars, localVars, bookVars, RankHasRoom
  <1>12. ASSUME Tick PROVE RankHasRoom'
    BY <1>12 DEF Tick, venueVars, localVars, bookVars, RankHasRoom
  <1>13. ASSUME UNCHANGED vars PROVE RankHasRoom'
    BY <1>13 DEF vars, venueVars, localVars, bookVars, runVars, RankHasRoom
  <1>. QED
    BY <1>1, <1>2, <1>3, <1>4, <1>5, <1>6, <1>7, <1>8, <1>9, <1>10, <1>11, <1>12, <1>13 DEF Next

\* Only publishing uses a batch number, the next one.
LEMMA StepBlank == TypeOK /\ FutureIsBlank /\ [Next]_vars => FutureIsBlank'
  <1>. SUFFICES ASSUME TypeOK, FutureIsBlank, [Next]_vars PROVE FutureIsBlank'
    OBVIOUS
  <1>1. CASE Publish
    BY <1>1, RowParts DEF Publish, FutureIsBlank, TypeOK, Batches
  <1>2. CASE CommitSettle
    BY <1>2 DEF CommitSettle, Settled, FutureIsBlank, TypeOK
  <1>3. CASE ~ Publish /\ ~ CommitSettle
    <2>1. batch' = batch /\ rec' = rec
      BY <1>3 DEF Next, vars, bookVars, VenueResolve, VenueCorrect, Answer, Fetch, Store,
         StartRank, Freeze, StartSettle, AbortSettle, Tick
    <2>. QED
      BY <2>1 DEF FutureIsBlank
  <1>. QED
    BY <1>1, <1>2, <1>3

\* What a listing puts off while its outcome is asked for or on file is remembered.
LEMMA StorePutsOff ==
  TypeOK /\ Store =>
    \A m \in Markets : AskedOrFiled(m) /\ PastOrRevived(m) => PastOrRevived(m)'
  <1>. SUFFICES ASSUME TypeOK, Store, NEW m \in Markets, AskedOrFiled(m), PastOrRevived(m)
                PROVE  expected'[m] < clock' \/ m \in revived'
    BY DEF PastOrRevived
  <1>1. PICK ms \in SUBSET Markets : listing \in [ms -> Nat]
    BY DEF TypeOK, Listings
  <1>2. /\ clock' = clock /\ clock \in Int /\ expected'[m] = TimeAfter(m)
        /\ revived' = revived \cup {k \in Listed : AskedOrFiled(k) /\ TimeAfter(k) >= clock}
    BY DEF Store, TypeOK
  <1>3. CASE m \in Listed
    <2>1. TimeAfter(m) \in Nat
      BY <1>1, <1>3 DEF TimeAfter, Listed
    <2>. QED
      BY <1>2, <1>3, <2>1
  <1>4. CASE m \notin Listed
    BY <1>2, <1>4 DEF TimeAfter, PastOrRevived
  <1>. QED
    BY <1>3, <1>4

\* Nobody else writes the settlements a run asks for, and the clock only grows.
LEMMA StepAsked == TypeOK /\ AskedAreOpen /\ [Next]_vars => AskedAreOpen'
  <1>. SUFFICES ASSUME TypeOK /\ AskedAreOpen, [Next]_vars PROVE AskedAreOpen'
    OBVIOUS
  <1>1. ASSUME NEW m \in Markets, NEW result \in FirstResults, VenueResolve(m, result) PROVE AskedAreOpen'
    BY <1>1 DEF VenueResolve, localVars, bookVars, runVars, AskedAreOpen, PastOrRevived
  <1>2. ASSUME NEW m \in Markets, NEW result \in Results, VenueCorrect(m, result) PROVE AskedAreOpen'
    BY <1>2 DEF VenueCorrect, localVars, bookVars, runVars, AskedAreOpen, PastOrRevived
  <1>3. ASSUME NEW m \in Markets, Answer(m) PROVE AskedAreOpen'
    BY <1>3 DEF Answer, localVars, AskedAreOpen, PastOrRevived, TypeOK, AnswerSheets
  <1>4. ASSUME Fetch PROVE AskedAreOpen'
    BY <1>4 DEF Fetch, venueVars, localVars, bookVars, runVars, AskedAreOpen, PastOrRevived
  <1>5. ASSUME Store PROVE AskedAreOpen'
    <2>1. ASSUME NEW m \in DOMAIN answers, settling PROVE settlement[m] = NoResult /\ PastOrRevived(m)'
      <3>1. m \in Markets /\ settlement[m] = NoResult /\ PastOrRevived(m)
        BY <2>1 DEF AskedAreOpen, TypeOK, AnswerSheets
      <3>2. AskedOrFiled(m)
        BY <2>1 DEF AskedOrFiled
      <3>. QED
        BY <1>5, <3>1, <3>2, StorePutsOff
    <2>. QED
      BY <1>5, <2>1 DEF Store, runVars, AskedAreOpen
  <1>6. ASSUME StartRank PROVE AskedAreOpen'
    BY <1>6 DEF StartRank, venueVars, localVars, bookVars, runVars, AskedAreOpen, PastOrRevived
  <1>7. ASSUME Publish PROVE AskedAreOpen'
    BY <1>7 DEF Publish, venueVars, localVars, runVars, AskedAreOpen, PastOrRevived
  <1>8. ASSUME Freeze PROVE AskedAreOpen'
    BY <1>8 DEF Freeze, venueVars, localVars, runVars, AskedAreOpen, PastOrRevived
  <1>9. ASSUME StartSettle PROVE AskedAreOpen'
    BY <1>9 DEF StartSettle, Due, InWindow, localVars, AskedAreOpen, PastOrRevived
  <1>10. ASSUME CommitSettle PROVE AskedAreOpen'
    BY <1>10 DEF CommitSettle, venueVars, AskedAreOpen, PastOrRevived
  <1>11. ASSUME AbortSettle PROVE AskedAreOpen'
    BY <1>11 DEF AbortSettle, venueVars, localVars, bookVars, AskedAreOpen, PastOrRevived
  <1>12. ASSUME Tick PROVE AskedAreOpen'
    BY <1>12 DEF Tick, AskedAreOpen, PastOrRevived
  <1>13. ASSUME UNCHANGED vars PROVE AskedAreOpen'
    BY <1>13 DEF vars, venueVars, localVars, bookVars, runVars, AskedAreOpen, PastOrRevived
  <1>. QED
    BY <1>1, <1>2, <1>3, <1>4, <1>5, <1>6, <1>7, <1>8, <1>9, <1>10, <1>11, <1>12, <1>13 DEF Next

\* Only what a run asked about is settled.
LEMMA StepPast == TypeOK /\ AskedAreOpen /\ FiledArePast /\ [Next]_vars => FiledArePast'
  <1>. SUFFICES ASSUME TypeOK /\ AskedAreOpen /\ FiledArePast, [Next]_vars PROVE FiledArePast'
    OBVIOUS
  <1>1. ASSUME NEW m \in Markets, NEW result \in FirstResults, VenueResolve(m, result) PROVE FiledArePast'
    BY <1>1 DEF VenueResolve, localVars, bookVars, runVars, FiledArePast, PastOrRevived
  <1>2. ASSUME NEW m \in Markets, NEW result \in Results, VenueCorrect(m, result) PROVE FiledArePast'
    BY <1>2 DEF VenueCorrect, localVars, bookVars, runVars, FiledArePast, PastOrRevived
  <1>3. ASSUME NEW m \in Markets, Answer(m) PROVE FiledArePast'
    BY <1>3 DEF Answer, venueVars, localVars, bookVars, FiledArePast, PastOrRevived
  <1>4. ASSUME Fetch PROVE FiledArePast'
    BY <1>4 DEF Fetch, venueVars, localVars, bookVars, runVars, FiledArePast, PastOrRevived
  <1>5. ASSUME Store PROVE FiledArePast'
    <2>1. ASSUME NEW m \in Markets, settlement[m] # NoResult PROVE PastOrRevived(m)'
      BY <1>5, <2>1, StorePutsOff DEF FiledArePast, AskedOrFiled
    <2>. QED
      BY <1>5, <2>1 DEF Store, FiledArePast
  <1>6. ASSUME StartRank PROVE FiledArePast'
    BY <1>6 DEF StartRank, venueVars, localVars, bookVars, runVars, FiledArePast, PastOrRevived
  <1>7. ASSUME Publish PROVE FiledArePast'
    BY <1>7 DEF Publish, venueVars, localVars, runVars, FiledArePast, PastOrRevived
  <1>8. ASSUME Freeze PROVE FiledArePast'
    BY <1>8 DEF Freeze, venueVars, localVars, runVars, FiledArePast, PastOrRevived
  <1>9. ASSUME StartSettle PROVE FiledArePast'
    BY <1>9 DEF StartSettle, venueVars, localVars, bookVars, FiledArePast, PastOrRevived
  <1>10. ASSUME CommitSettle PROVE FiledArePast'
    BY <1>10 DEF CommitSettle, OnFile, Answered, AskedAreOpen, FiledArePast, PastOrRevived, TypeOK
  <1>11. ASSUME AbortSettle PROVE FiledArePast'
    BY <1>11 DEF AbortSettle, venueVars, localVars, bookVars, FiledArePast, PastOrRevived
  <1>12. ASSUME Tick PROVE FiledArePast'
    BY <1>12, TrackAssumption DEF Tick, localVars, FiledArePast, PastOrRevived, TypeOK
  <1>13. ASSUME UNCHANGED vars PROVE FiledArePast'
    BY <1>13 DEF vars, venueVars, localVars, bookVars, runVars, FiledArePast, PastOrRevived
  <1>. QED
    BY <1>1, <1>2, <1>3, <1>4, <1>5, <1>6, <1>7, <1>8, <1>9, <1>10, <1>11, <1>12, <1>13 DEF Next

\* A status of settled is written with a settlement, and settlements stay.
LEMMA StepProof == TypeOK /\ StatusHasProof /\ [Next]_vars => StatusHasProof'
  <1>. SUFFICES ASSUME TypeOK, StatusHasProof, [Next]_vars PROVE StatusHasProof'
    OBVIOUS
  <1>1. CASE Store
    BY <1>1 DEF Store, StatusHasProof
  <1>2. CASE CommitSettle
    BY <1>2, TrackAssumption DEF CommitSettle, StatusAfter, OnFile, Answered, StatusHasProof
  <1>3. CASE ~ Store /\ ~ CommitSettle
    <2>1. status' = status /\ settlement' = settlement
      BY <1>3 DEF Next, vars, localVars, VenueResolve, VenueCorrect, Answer, Fetch,
         StartRank, Publish, Freeze, StartSettle, AbortSettle, Tick
    <2>. QED
      BY <2>1 DEF StatusHasProof
  <1>. QED
    BY <1>1, <1>2, <1>3

\* A settlement is written once, and what is graded is graded with it.
LEMMA StepVerdict == TrackInv /\ [Next]_vars => OneVerdict'
  <1>. SUFFICES ASSUME TypeOK, FutureIsBlank, AskedAreOpen, StatusHasProof, OneVerdict,
                       [Next]_vars
                PROVE  OneVerdict'
    BY DEF TrackInv
  <1>1. ASSUME NEW m \in Markets, NEW result \in FirstResults, VenueResolve(m, result) PROVE OneVerdict'
    BY <1>1 DEF VenueResolve, localVars, bookVars, runVars, OneVerdict
  <1>2. ASSUME NEW m \in Markets, NEW result \in Results, VenueCorrect(m, result) PROVE OneVerdict'
    BY <1>2 DEF VenueCorrect, localVars, bookVars, runVars, OneVerdict
  <1>3. ASSUME NEW m \in Markets, Answer(m) PROVE OneVerdict'
    BY <1>3 DEF Answer, venueVars, localVars, bookVars, OneVerdict
  <1>4. ASSUME Fetch PROVE OneVerdict'
    BY <1>4 DEF Fetch, venueVars, localVars, bookVars, runVars, OneVerdict
  <1>5. ASSUME Store PROVE OneVerdict'
    BY <1>5 DEF Store, bookVars, runVars, OneVerdict
  <1>6. ASSUME StartRank PROVE OneVerdict'
    BY <1>6 DEF StartRank, venueVars, localVars, bookVars, runVars, OneVerdict
  <1>7. ASSUME Publish PROVE OneVerdict'
    <2>. SUFFICES ASSUME NEW r \in Rows
                  PROVE  /\ grade[r] \in {NoResult, settlement[r[2]]}
                         /\ frozenGrade[r] \in {NoResult, settlement[r[2]]}
                         /\ rec'[r] = "settled" <=> grade[r] # NoResult
      BY <1>7 DEF Publish, localVars, OneVerdict
    <2>1. CASE rec'[r] = rec[r]
      BY <2>1 DEF OneVerdict
    <2>2. CASE rec'[r] # rec[r]
      <3>1. r[1] = batch + 1 /\ rec'[r] = "open"
        BY <1>7, <2>2 DEF Publish
      <3>2. rec[r] = "none"
        BY <3>1 DEF FutureIsBlank, TypeOK
      <3>. QED
        BY <3>1, <3>2 DEF OneVerdict
    <2>. QED
      BY <2>1, <2>2
  <1>8. ASSUME Freeze PROVE OneVerdict'
    BY <1>8 DEF Freeze, venueVars, localVars, runVars, OneVerdict
  <1>9. ASSUME StartSettle PROVE OneVerdict'
    BY <1>9 DEF StartSettle, venueVars, localVars, bookVars, OneVerdict
  <1>10. ASSUME CommitSettle PROVE OneVerdict'
    <2>. SUFFICES ASSUME NEW r \in Rows
                  PROVE  /\ grade'[r] \in {NoResult, settlement'[r[2]]}
                         /\ frozenGrade'[r] \in {NoResult, settlement'[r[2]]}
                         /\ rec'[r] = "settled" <=> grade'[r] # NoResult
      BY DEF OneVerdict
    <2>1. settlement'[r[2]] = OnFile(r[2]) /\ settlement[r[2]] \in {NoResult, OnFile(r[2])}
      BY <1>10, RowParts DEF CommitSettle, OnFile, Answered, AskedAreOpen, PastOrRevived
    <2>2. /\ grade'[r] = Graded(grade[r], rec[r] # "none", r)
          /\ frozenGrade'[r] = Graded(frozenGrade[r], frozen[r] > 0, r)
          /\ rec'[r] = IF Settled(r) THEN "settled" ELSE rec[r]
      BY <1>10 DEF CommitSettle
    <2>3. /\ grade'[r] \in {NoResult, settlement'[r[2]]}
          /\ frozenGrade'[r] \in {NoResult, settlement'[r[2]]}
      BY <2>1, <2>2 DEF Graded, OneVerdict
    <2>4. rec'[r] = "settled" <=> grade'[r] # NoResult
      <3>1. StatusAfter(r[2]) = "settled" => OnFile(r[2]) # NoResult
        BY RowParts, TrackAssumption DEF StatusAfter, StatusHasProof, OnFile, Answered
      <3>2. rec[r] = "none" => grade[r] = NoResult
        BY DEF OneVerdict
      <3>3. grade[r] # NoResult => rec[r] = "settled"
        BY DEF OneVerdict
      <3>4. CASE rec[r] = "none"
        BY <2>2, <3>2, <3>4 DEF Graded, Settled
      <3>5. CASE rec[r] # "none" /\ grade[r] # NoResult
        BY <2>2, <3>3, <3>5 DEF Graded, Settled
      <3>6. CASE rec[r] # "none" /\ grade[r] = NoResult
        <4>1. rec[r] # "settled"
          BY <3>6 DEF OneVerdict
        <4>. QED
          BY <2>2, <3>1, <3>6, <4>1 DEF Graded, Settled
      <3>. QED
        BY <3>4, <3>5, <3>6
    <2>. QED
      BY <2>3, <2>4
  <1>11. ASSUME AbortSettle PROVE OneVerdict'
    BY <1>11 DEF AbortSettle, venueVars, localVars, bookVars, OneVerdict
  <1>12. ASSUME Tick PROVE OneVerdict'
    BY <1>12 DEF Tick, venueVars, localVars, bookVars, OneVerdict
  <1>13. ASSUME UNCHANGED vars PROVE OneVerdict'
    BY <1>13 DEF vars, venueVars, localVars, bookVars, runVars, OneVerdict
  <1>. QED
    BY <1>1, <1>2, <1>3, <1>4, <1>5, <1>6, <1>7, <1>8, <1>9, <1>10, <1>11, <1>12, <1>13 DEF Next

\* A snapshot is written only where there is none, of what is published.
LEMMA StepFrozen == TypeOK /\ FrozenOnce /\ [Next]_vars => FrozenOnce'
  <1>. SUFFICES ASSUME TypeOK /\ FrozenOnce, [Next]_vars PROVE FrozenOnce'
    OBVIOUS
  <1>1. ASSUME NEW m \in Markets, NEW result \in FirstResults, VenueResolve(m, result) PROVE FrozenOnce'
    BY <1>1 DEF VenueResolve, localVars, bookVars, runVars, FrozenOnce
  <1>2. ASSUME NEW m \in Markets, NEW result \in Results, VenueCorrect(m, result) PROVE FrozenOnce'
    BY <1>2 DEF VenueCorrect, localVars, bookVars, runVars, FrozenOnce
  <1>3. ASSUME NEW m \in Markets, Answer(m) PROVE FrozenOnce'
    BY <1>3 DEF Answer, venueVars, localVars, bookVars, FrozenOnce
  <1>4. ASSUME Fetch PROVE FrozenOnce'
    BY <1>4 DEF Fetch, venueVars, localVars, bookVars, runVars, FrozenOnce
  <1>5. ASSUME Store PROVE FrozenOnce'
    BY <1>5 DEF Store, bookVars, runVars, FrozenOnce
  <1>6. ASSUME StartRank PROVE FrozenOnce'
    BY <1>6 DEF StartRank, venueVars, localVars, bookVars, runVars, FrozenOnce
  <1>7. ASSUME Publish PROVE FrozenOnce'
    BY <1>7 DEF Publish, FrozenOnce, TypeOK
  <1>8. ASSUME Freeze PROVE FrozenOnce'
    BY <1>8 DEF Freeze, Unfrozen, FrozenOnce, TypeOK
  <1>9. ASSUME StartSettle PROVE FrozenOnce'
    BY <1>9 DEF StartSettle, venueVars, localVars, bookVars, FrozenOnce
  <1>10. ASSUME CommitSettle PROVE FrozenOnce'
    BY <1>10 DEF CommitSettle, FrozenOnce, TypeOK
  <1>11. ASSUME AbortSettle PROVE FrozenOnce'
    BY <1>11 DEF AbortSettle, venueVars, localVars, bookVars, FrozenOnce
  <1>12. ASSUME Tick PROVE FrozenOnce'
    BY <1>12 DEF Tick, venueVars, localVars, bookVars, FrozenOnce
  <1>13. ASSUME UNCHANGED vars PROVE FrozenOnce'
    BY <1>13 DEF vars, venueVars, localVars, bookVars, runVars, FrozenOnce
  <1>. QED
    BY <1>1, <1>2, <1>3, <1>4, <1>5, <1>6, <1>7, <1>8, <1>9, <1>10, <1>11, <1>12, <1>13 DEF Next

\* The invariant is inductive.
LEMMA StepTrack == TrackInv /\ [Next]_vars => TrackInv'
  BY StepTypes, StepRoom, StepBlank, StepAsked, StepPast, StepProof, StepVerdict, StepFrozen
  DEF TrackInv

\* Every reachable state satisfies it.
THEOREM TrackInvariant == Spec => []TrackInv
  BY InitTrack, StepTrack, PTL DEF Spec

\* The tables keep their types, whatever the jobs do in whatever order.
THEOREM TrackTypeCorrect == Spec => []TypeOK
  <1>1. TrackInv => TypeOK
    BY DEF TrackInv
  <1>. QED
    BY <1>1, TrackInvariant, PTL

\* Recommendations and snapshots of a market, of any number of batches, carry
\* one verdict: the settlement on file (settlement.py).
THEOREM VerdictsAgree == Spec => []OneVerdict
  <1>1. TrackInv => OneVerdict
    BY DEF TrackInv
  <1>. QED
    BY <1>1, TrackInvariant, PTL

\* No recommendation is frozen twice, and nothing else is frozen (snapshots.py).
THEOREM SnapshotsAreOnce == Spec => []FrozenOnce
  <1>1. TrackInv => FrozenOnce
    BY DEF TrackInv
  <1>. QED
    BY <1>1, TrackInvariant, PTL

\* One snapshot and one verdict for each claim, for every calendar and venue.
THEOREM RecordsAreFinal == Spec => []RecordIsFinal
  <1>1. TrackInv => RecordIsFinal
    BY DEF TrackInv, RecordIsFinal
  <1>. QED
    BY <1>1, TrackInvariant, PTL

\* The horizon guard of load_scoreable_markets is enough: what is settled is past
\* its expected time, so no ranking run loads it, but for what a listing older than
\* the outcome has put off again (ingest/store.py: upsert_markets).
THEOREM RankingLacksHindsight == Spec => NoHindsight
  <1>1. TrackInv /\ [Next]_vars => [\A m \in loaded' \ loaded : settlement[m] = NoResult \/ m \in revived]_vars
    <2>. SUFFICES ASSUME TrackInv, Next PROVE \A m \in loaded' \ loaded : settlement[m] = NoResult \/ m \in revived
      OBVIOUS
    <2>1. CASE StartRank
      BY <2>1, TrackAssumption DEF StartRank, Scoreable, TrackInv, FiledArePast, PastOrRevived, TypeOK
    <2>2. CASE ~ StartRank
      BY <2>2 DEF Next, VenueResolve, VenueCorrect, Answer, Fetch, Store, Publish, Freeze,
         StartSettle, CommitSettle, AbortSettle, Tick
    <2>. QED
      BY <2>1, <2>2
  <1>. QED
    BY <1>1, TrackInvariant, PTL DEF Spec, NoHindsight

-----------------------------------------------------------------------------
(* Nothing slips out of the lookback.                                       *)

\* While a market the venue has resolved has no settlement, every value of the
\* clock in its window at which settlement has run has cost a failure; the run
\* in progress asks about it, and has its failure already if its answer is lost.
MissesArePaid ==
  \A m \in prompt :
    settlement[m] = NoResult /\ m \notin crowded /\ expected[m] < clock =>
      /\ clock < expected[m] + LOOKBACK =>
           errors >= clock - expected[m] - (IF swept THEN 0 ELSE 1)
      /\ clock >= expected[m] + LOOKBACK => errors >= LOOKBACK - 1
      /\ settling /\ InWindow(m) =>
           /\ m \in DOMAIN answers
           /\ answers[m] = NoNews => errors >= clock - expected[m]

\* What the venue resolved in time has a result, whatever is corrected later.
PromptIsResolved == \A m \in prompt : venue[m] # NoResult

SlipInv == TypeOK /\ PromptIsResolved /\ MissesArePaid

LEMMA InitSlip == Init => PromptIsResolved /\ MissesArePaid
  BY DEF Init, PromptIsResolved, MissesArePaid

\* Only a market that has resolved becomes prompt, and no result is taken back.
LEMMA StepResolved == TypeOK /\ PromptIsResolved /\ [Next]_vars => PromptIsResolved'
  <1>. SUFFICES ASSUME TypeOK, PromptIsResolved, [Next]_vars PROVE PromptIsResolved'
    OBVIOUS
  <1>1. ASSUME NEW m \in Markets, NEW result \in FirstResults, VenueResolve(m, result)
        PROVE  PromptIsResolved'
    BY <1>1, TrackAssumption DEF VenueResolve, PromptIsResolved, TypeOK
  <1>2. ASSUME NEW m \in Markets, NEW result \in Results, VenueCorrect(m, result)
        PROVE  PromptIsResolved'
    BY <1>2, TrackAssumption DEF VenueCorrect, PromptIsResolved, TypeOK
  <1>3. CASE venue' = venue /\ prompt' \subseteq prompt
    BY <1>3 DEF PromptIsResolved
  <1>4. [Next]_vars => \/ venue' = venue /\ prompt' \subseteq prompt
                      \/ \E m \in Markets : \/ \E result \in FirstResults : VenueResolve(m, result)
                                            \/ \E result \in Results : VenueCorrect(m, result)
    BY DEF Next, vars, venueVars, Answer, Fetch, Store, StartRank, Publish, Freeze, StartSettle,
       CommitSettle, AbortSettle, Tick
  <1>. QED
    BY <1>1, <1>2, <1>3, <1>4

\* A run that has nothing to settle for a market of its batch has had a failure; a
\* market not in its batch is settled, crowded out or outside its window.
LEMMA StepMisses ==
  TypeOK /\ TypeOK' /\ PromptIsResolved /\ MissesArePaid /\ [Next]_vars => MissesArePaid'
  <1>. SUFFICES ASSUME TypeOK, TypeOK', PromptIsResolved, MissesArePaid, [Next]_vars,
                       NEW m \in prompt',
                       settlement'[m] = NoResult, m \notin crowded', expected'[m] < clock'
                PROVE  /\ clock' < expected'[m] + LOOKBACK =>
                            errors' >= clock' - expected'[m] - (IF swept' THEN 0 ELSE 1)
                       /\ clock' >= expected'[m] + LOOKBACK => errors' >= LOOKBACK - 1
                       /\ settling' /\ InWindow(m)' =>
                            /\ m \in DOMAIN answers'
                            /\ answers'[m] = NoNews => errors' >= clock' - expected'[m]
    BY DEF MissesArePaid
  <1>0. /\ m \in Markets /\ expected[m] \in Nat /\ expected'[m] \in Nat /\ clock \in Nat /\ clock' \in Nat
        /\ errors \in Nat /\ errors' \in Nat /\ LOOKBACK \in Nat
    BY TrackAssumption DEF TypeOK
  <1>. USE <1>0
  <1>. DEFINE Same == /\ clock' = clock /\ settlement' = settlement /\ crowded' = crowded
                      /\ errors' = errors /\ swept' = swept /\ settling' = settling
                      /\ answers' = answers /\ expected'[m] = expected[m]
  <1>1. CASE Same /\ m \in prompt
    BY <1>1 DEF MissesArePaid, InWindow
  <1>2. ASSUME NEW k \in Markets, NEW result \in FirstResults, VenueResolve(k, result)
        PROVE  Same /\ m \in prompt
    BY <1>2 DEF VenueResolve, localVars, runVars
  <1>3. ASSUME NEW k \in Markets, Answer(k)
        PROVE  /\ clock < expected[m] + LOOKBACK =>
                    errors' >= clock - expected[m] - (IF swept THEN 0 ELSE 1)
               /\ clock >= expected[m] + LOOKBACK => errors' >= LOOKBACK - 1
               /\ settling /\ InWindow(m) =>
                    /\ m \in DOMAIN answers'
                    /\ answers'[m] = NoNews => errors' >= clock - expected[m]
    <2>1. /\ m \in prompt /\ settlement[m] = NoResult /\ m \notin crowded /\ expected[m] < clock /\ expected'[m] = expected[m]
          /\ errors' >= errors /\ settling
      BY <1>3 DEF Answer, venueVars, localVars
    <2>2. /\ clock < expected[m] + LOOKBACK =>
               errors >= clock - expected[m] - (IF swept THEN 0 ELSE 1)
          /\ clock >= expected[m] + LOOKBACK => errors >= LOOKBACK - 1
          /\ settling /\ InWindow(m) =>
               /\ m \in DOMAIN answers
               /\ answers[m] = NoNews => errors >= clock - expected[m]
      BY <2>1 DEF MissesArePaid
    <2>3. ASSUME InWindow(m), answers'[m] = NoNews, m \in DOMAIN answers
          PROVE  errors' >= clock - expected[m]
      <3>1. CASE k # m
        BY <1>3, <2>1, <2>2, <2>3, <3>1 DEF Answer
      <3>2. CASE k = m
        <4>1. venue[m] \in Results
          BY <2>1 DEF PromptIsResolved, TypeOK, Outcomes
        <4>2. errors' = errors + 1
          BY <1>3, <2>3, <3>2, <4>1, TrackAssumption DEF Answer, NoNews
        <4>. QED
          BY <2>2, <2>3, <4>2 DEF InWindow
      <3>. QED
        BY <3>1, <3>2
    <2>4. InWindow(m) => m \in DOMAIN answers'
      BY <1>3, <2>1, <2>2 DEF Answer
    <2>. QED
      BY <2>1, <2>2, <2>3, <2>4
  <1>4. ASSUME StartSettle
        PROVE  settling' /\ InWindow(m) => m \in DOMAIN answers' /\ answers'[m] # NoNews
    <2>1. PICK pending \in SUBSET Due : /\ answers' = [k \in pending |-> Waiting]
                                       /\ crowded' = crowded \cup (Due \ pending)
      BY <1>4 DEF StartSettle
    <2>2. settlement[m] = NoResult
      BY <1>4 DEF StartSettle, localVars
    <2>. QED
      BY <2>1, <2>2 DEF Due, Waiting, NoNews
  <1>5. CASE StartSettle
    <2>1. /\ m \in prompt /\ settlement[m] = NoResult /\ m \notin crowded /\ expected[m] < clock /\ expected'[m] = expected[m]
          /\ UNCHANGED <<clock, errors, swept>>
      BY <1>5 DEF StartSettle, venueVars, localVars
    <2>. QED
      BY <1>4, <1>5, <2>1 DEF MissesArePaid, InWindow
  <1>6. CASE CommitSettle
    <2>1. /\ m \in prompt /\ m \notin crowded /\ expected[m] < clock /\ expected'[m] = expected[m]
          /\ UNCHANGED <<clock, errors>> /\ swept' = TRUE /\ settling' = FALSE /\ settling
          /\ OnFile(m) = NoResult
      BY <1>6 DEF CommitSettle, venueVars
    <2>2. settlement[m] = NoResult /\ m \notin Answered
      BY <2>1, TrackAssumption DEF OnFile, Answered
    <2>3. InWindow(m) => m \in DOMAIN answers /\ answers[m] = NoNews
      <3>1. InWindow(m) => m \in DOMAIN answers
        BY <2>1, <2>2 DEF MissesArePaid
      <3>2. m \in DOMAIN answers => answers[m] \in Results \cup {Waiting, NoNews}
        BY DEF TypeOK, AnswerSheets
      <3>3. m \in DOMAIN answers => answers[m] # Waiting
        BY <1>6 DEF CommitSettle
      <3>. QED
        BY <2>2, <3>1, <3>2, <3>3 DEF Answered
    <2>. QED
      BY <2>1, <2>2, <2>3 DEF MissesArePaid, InWindow
  <1>7. CASE AbortSettle
    <2>1. /\ m \in prompt /\ settlement[m] = NoResult /\ m \notin crowded /\ expected[m] < clock /\ expected'[m] = expected[m]
          /\ clock' = clock /\ errors' = errors + 1 /\ swept' = TRUE /\ settling' = FALSE
      BY <1>7 DEF AbortSettle, venueVars, localVars
    <2>. QED
      BY <2>1 DEF MissesArePaid
  <1>8. CASE Tick
    <2>1. /\ m \in prompt /\ settlement[m] = NoResult /\ m \notin crowded
          /\ clock' = clock + 1 /\ expected' = expected /\ errors' = errors /\ swept = TRUE /\ swept' = FALSE
          /\ settling' = FALSE
      BY <1>8 DEF Tick, venueVars, localVars, TypeOK
    <2>2. CASE expected[m] < clock
      BY <2>1, <2>2 DEF MissesArePaid
    <2>3. CASE clock <= expected[m]
      BY <2>1, <2>3
    <2>. QED
      BY <2>2, <2>3
  <1>9. CASE Same /\ prompt' = prompt
    BY <1>1, <1>9
  <1>12. ASSUME Store PROVE Same /\ m \in prompt
    <2>1. expected'[m] = TimeAfter(m) /\ clock' = clock
      BY <1>12 DEF Store, runVars
    <2>2. m \in prompt /\ (TimeAfter(m) = expected[m] \/ TimeAfter(m) >= clock)
      BY <1>12 DEF Store
    <2>3. expected'[m] = expected[m]
      BY <2>1, <2>2
    <2>. QED
      BY <1>12, <2>2, <2>3 DEF Store, runVars
  <1>10. ASSUME NEW k \in Markets, Answer(k)
         PROVE  UNCHANGED <<clock, settling, swept, expected>>
    BY <1>10 DEF Answer, localVars
  <1>11. [Next]_vars => \/ Same /\ prompt' = prompt
                       \/ Store
                       \/ \E k \in Markets : \/ \E result \in FirstResults : VenueResolve(k, result)
                                             \/ Answer(k)
                       \/ StartSettle \/ CommitSettle \/ AbortSettle \/ Tick
    BY DEF Next, vars, venueVars, localVars, bookVars, runVars, VenueCorrect, Fetch,
       StartRank, Publish, Freeze
  <1>. QED
    BY <1>1, <1>2, <1>3, <1>5, <1>6, <1>7, <1>8, <1>9, <1>10, <1>11, <1>12 DEF InWindow

\* A market the venue resolved in time is settled before its window closes, or a
\* batch was full: settlement runs at every value of the clock, so each one it is
\* missed at has cost one of the failures, and there are too few of them
\* (settlement.py: sync_settlements, its lookback and its limit).
THEOREM NoSettlementIsLost == Spec => []NoneSlipsOut
  <1>1. SlipInv => NoneSlipsOut
    <2>. SUFFICES ASSUME SlipInv, MAX_ERRORS < LOOKBACK - 1,
                         NEW m \in Markets, SlippedOut(m), m \notin crowded
                  PROVE  FALSE
      BY DEF NoneSlipsOut
    <2>1. expected[m] < clock /\ errors >= LOOKBACK - 1
      BY TrackAssumption DEF SlipInv, MissesArePaid, SlippedOut, TypeOK
    <2>. QED
      BY <2>1, TrackAssumption DEF SlipInv, TypeOK
  <1>2. Init => SlipInv
    BY InitTrack, InitSlip DEF SlipInv, TrackInv
  <1>3. SlipInv /\ TypeOK' /\ [Next]_vars => SlipInv'
    BY StepResolved, StepMisses DEF SlipInv
  <1>. QED
    BY <1>1, <1>2, <1>3, TrackTypeCorrect, PTL DEF Spec

=============================================================================
