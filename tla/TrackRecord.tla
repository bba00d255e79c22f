---------------------------- MODULE TrackRecord ----------------------------
(***************************************************************************)
(* The public track record: markets are ingested and ranked, the ranking   *)
(* is published as a batch of recommendations, a daily job freezes the     *)
(* latest batch into immutable snapshots, and a settlement job asks the    *)
(* venues for outcomes and grades recommendations and snapshots.           *)
(*                                                                         *)
(* The four jobs hold different leases, so they interleave; each has one   *)
(* run at a time (JobLease) and commits once (session_scope).  Every await *)
(* between a job's reads and its commit is a step boundary here.  The      *)
(* venue is external: it resolves a market and may correct a result.       *)
(***************************************************************************)
EXTENDS Integers, FiniteSets

CONSTANTS
  Markets,      \* markets with a row in the database
  Expected,     \* market |-> the expected_resolution_time it was first listed with
  Announced,    \* market |-> the times a venue may expect its resolution at
  Results,      \* what a venue may say a market resolved to
  FirstResults, \* bound: those it may say first, before any correction
  NoResult,     \* "no outcome on file"
  LOOKBACK,     \* lookback_days of the settlement job
  LIMIT,        \* how many markets one settlement run asks about
  MAX_BATCHES,  \* bound: batches published
  LAST,         \* bound: the last value of the clock
  MAX_ERRORS,   \* bound: failed questions and aborted settlement runs
  CORRECTIONS   \* bound: results a venue changes after the fact

ASSUME TrackAssumption ==
  /\ IsFiniteSet(Markets)
  /\ Expected \in [Markets -> Nat] /\ \A m \in Markets : Announced[m] \subseteq Nat
  /\ NoResult \notin Results /\ "waiting" \notin Results /\ "no_news" \notin Results
  /\ FirstResults \subseteq Results
  /\ LOOKBACK \in Nat /\ LIMIT \in Nat /\ MAX_BATCHES \in Nat
  /\ LAST \in Nat /\ MAX_ERRORS \in Nat /\ CORRECTIONS \in Nat

VARIABLES
  clock,        \* utcnow()
  venue,        \* market |-> result at the venue, NoResult while it trades
  prompt,       \* markets resolved by their expected time, for the properties
  revived,      \* markets given a later time when their outcome was asked for or filed
  corrected,    \* corrections made so far
  status,       \* market |-> Market.status
  expected,     \* market |-> Market.expected_resolution_time
  settlement,   \* market |-> result of its Settlement row
  listing,      \* market an ingest run has fetched and not stored yet |-> its time there
  loaded,       \* markets a ranking run has loaded and not published yet
  batch,        \* number of the latest batch, 0 before the first
  rec,          \* <<batch, market>> |-> Recommendation.state
  grade,        \* <<batch, market>> |-> Recommendation.settlement_result
  frozen,       \* <<batch, market>> |-> RecommendationSnapshot rows of it
  frozenGrade,  \* <<batch, market>> |-> their final_result
  settling,     \* is a settlement run asking the venues?
  answers,      \* market it asked about |-> answer so far
  errors,       \* failures so far
  swept,        \* has a settlement run begun and ended at this clock value?
  crowded       \* markets some run left out because the batch was full

venueVars == <<venue, prompt, corrected>>
localVars == <<status, expected, revived, settlement>>
bookVars  == <<batch, rec, grade, frozen, frozenGrade>>
runVars   == <<settling, answers, errors, swept, crowded>>
vars == <<clock, venueVars, localVars, listing, loaded, bookVars, runVars>>

Batches == 1..MAX_BATCHES
Rows    == Batches \X Markets
Waiting == "waiting"     \* the venue has not answered yet
NoNews  == "no_news"     \* not resolved, or the question failed
NoAnswers == [m \in {} |-> NoNews]
NoListing == [m \in {} |-> 0]

-----------------------------------------------------------------------------
Init ==
  /\ clock = 0
  /\ venue = [m \in Markets |-> NoResult]
  /\ prompt = {}
  /\ corrected = 0
  /\ status = [m \in Markets |-> "open"]
  /\ expected = Expected
  /\ revived = {}
  /\ settlement = [m \in Markets |-> NoResult]
  /\ listing = NoListing /\ loaded = {}
  /\ batch = 0
  /\ rec = [r \in Rows |-> "none"]
  /\ grade = [r \in Rows |-> NoResult]
  /\ frozen = [r \in Rows |-> 0]
  /\ frozenGrade = [r \in Rows |-> NoResult]
  /\ settling = FALSE /\ answers = NoAnswers
  /\ errors = 0 /\ swept = FALSE /\ crowded = {}

\* The venue resolves a market.
VenueResolve(m, result) ==
  /\ venue[m] = NoResult
  /\ venue' = [venue EXCEPT ![m] = result]
  /\ prompt' = IF clock <= expected[m] THEN prompt \cup {m} ELSE prompt
  /\ UNCHANGED <<clock, corrected, localVars, listing, loaded, bookVars, runVars>>

\* The venue changes a result after a dispute.
VenueCorrect(m, result) ==
  /\ venue[m] \notin {NoResult, result}
  /\ corrected < CORRECTIONS
  /\ venue' = [venue EXCEPT ![m] = result]
  /\ corrected' = corrected + 1
  /\ UNCHANGED <<clock, prompt, localVars, listing, loaded, bookVars, runVars>>

-----------------------------------------------------------------------------
(* Ingest: a listing holds markets that traded when it was fetched, with the  *)
(* time the venue then expected them to resolve at.                        *)

Fetch ==
  /\ listing = NoListing
  /\ \E ms \in SUBSET {m \in Markets : venue[m] = NoResult} :
     \E times \in [ms -> UNION {Announced[m] : m \in ms}] :
       /\ \A m \in ms : times[m] \in Announced[m]
       /\ listing' = times
  /\ UNCHANGED <<clock, venueVars, localVars, loaded, bookVars, runVars>>

Listed == DOMAIN listing
TimeAfter(m) == IF m \in Listed THEN listing[m] ELSE expected[m]

\* The outcome of the market is on file, or a run is asking for it.
AskedOrFiled(m) == settlement[m] # NoResult \/ (settling /\ m \in DOMAIN answers)

\* upsert_markets overwrites the row with what the listing said, however old it is:
\* the status and the expected time.
Store ==
  /\ listing # NoListing
  /\ status' = [m \in Markets |-> IF m \in Listed THEN "open" ELSE status[m]]
  /\ expected' = [m \in Markets |-> TimeAfter(m)]
  /\ listing' = NoListing
  /\ revived' = revived \cup {m \in Listed : AskedOrFiled(m) /\ TimeAfter(m) >= clock}
  /\ prompt' = {m \in prompt : TimeAfter(m) = expected[m] \/ TimeAfter(m) >= clock}
  /\ UNCHANGED <<clock, venue, corrected, settlement, loaded, bookVars, runVars>>

-----------------------------------------------------------------------------
(* Ranking. *)

\* Mutant of Scoreable: no horizon guard.
ScoreableOpen == {m \in Markets : status[m] = "open"}

\* load_scoreable_markets: open, and not past its expected resolution.
Scoreable == {m \in Markets : status[m] = "open" /\ expected[m] > clock}

StartRank ==
  /\ loaded = {} /\ batch < MAX_BATCHES
  /\ loaded' = Scoreable
  /\ UNCHANGED <<clock, venueVars, localVars, listing, bookVars, runVars>>

\* publish_recommendations writes the top of what was loaded; a ranking run
\* that fails, or that finds no candidate, writes nothing.
Publish ==
  /\ loaded # {}
  /\ loaded' = {}
  /\ \E top \in SUBSET loaded :
       /\ batch' = IF top = {} THEN batch ELSE batch + 1
       /\ rec' = [r \in Rows |-> IF r[1] = batch + 1 /\ r[2] \in top
                                 THEN "open" ELSE rec[r]]
  /\ UNCHANGED <<clock, venueVars, localVars, listing,
                 grade, frozen, frozenGrade, runVars>>

-----------------------------------------------------------------------------
(* The daily snapshot of the latest batch; re-running it adds nothing. *)

\* Mutant of Unfrozen: no look for an existing snapshot.
UnfrozenOrNot == {r \in Rows : r[1] = batch /\ rec[r] # "none"}

Unfrozen == {r \in Rows : r[1] = batch /\ rec[r] # "none" /\ frozen[r] = 0}

Freeze ==
  /\ Unfrozen # {}
  /\ frozen' = [r \in Rows |-> frozen[r] + (IF r \in Unfrozen THEN 1 ELSE 0)]
  /\ UNCHANGED <<clock, venueVars, localVars, listing, loaded,
                 batch, rec, grade, frozenGrade, runVars>>

-----------------------------------------------------------------------------
(* Settlement. *)

InWindow(m) == expected[m] < clock /\ clock < expected[m] + LOOKBACK

\* Mutant of Due: settlements on file are asked about again.
DueAgain == {m \in Markets : InWindow(m)}

\* Mutant of Due: the window closes a clock value early.
DueShort == {m \in Markets : /\ expected[m] < clock
                             /\ clock < expected[m] + LOOKBACK - 1
                             /\ settlement[m] = NoResult}

\* Past its expected resolution, inside the lookback, without a settlement.
Due == {m \in Markets : InWindow(m) /\ settlement[m] = NoResult}

\* The query has no ORDER BY: a full batch is any LIMIT of the rows.
StartSettle ==
  /\ ~settling
  /\ \E pending \in SUBSET Due :
       /\ \/ pending = Due /\ Cardinality(Due) <= LIMIT
          \/ Cardinality(Due) > LIMIT /\ Cardinality(pending) = LIMIT
       /\ answers' = [m \in pending |-> Waiting]
       /\ crowded' = crowded \cup (Due \ pending)
  /\ settling' = TRUE
  /\ UNCHANGED <<clock, venueVars, localVars, listing, loaded, bookVars, errors, swept>>

\* get_resolution of one market: all of them are awaited together.
Answer(m) ==
  /\ settling /\ m \in DOMAIN answers
  /\ answers[m] = Waiting
  /\ \/ /\ answers' = [answers EXCEPT ![m] = IF venue[m] = NoResult THEN NoNews ELSE venue[m]]
        /\ UNCHANGED errors
     \/ /\ errors < MAX_ERRORS /\ errors' = errors + 1
        /\ answers' = [answers EXCEPT ![m] = NoNews]
  /\ UNCHANGED <<clock, venueVars, localVars, listing, loaded, bookVars,
                 settling, swept, crowded>>

Answered == {m \in DOMAIN answers : answers[m] \in Results}

\* What the run has on file once it has written its answers.
OnFile(m) == IF m \in Answered THEN answers[m] ELSE settlement[m]

\* Mutant of Graded: only the markets this run has settled.
GradedNow(old, present, r) ==
  IF present /\ old = NoResult /\ r[2] \in Answered THEN OnFile(r[2]) ELSE old

\* Mutant of Graded: outcomes are written over outcomes.
GradedOver(old, present, r) ==
  IF present /\ r[2] \in Answered THEN OnFile(r[2]) ELSE old

\* grade_recommendations: every row of a settled market that has no outcome.
Graded(old, present, r) ==
  IF present /\ old = NoResult THEN OnFile(r[2]) ELSE old

StatusAfter(m) == IF m \in Answered THEN "settled" ELSE status[m]

\* A recommendation is settled by its grade, or by refresh_recommendation_states
\* when its market is.
Settled(r) == /\ rec[r] # "none"
              /\ \/ rec[r] = "settled"
                 \/ Graded(grade[r], TRUE, r) # NoResult
                 \/ StatusAfter(r[2]) = "settled"

\* One transaction: the settlements, the grades and the states.
CommitSettle ==
  /\ settling
  /\ \A m \in DOMAIN answers : answers[m] # Waiting
  /\ settlement' = [m \in Markets |-> OnFile(m)]
  /\ status' = [m \in Markets |-> StatusAfter(m)]
  /\ grade' = [r \in Rows |-> Graded(grade[r], rec[r] # "none", r)]
  /\ frozenGrade' = [r \in Rows |-> Graded(frozenGrade[r], frozen[r] > 0, r)]
  /\ rec' = [r \in Rows |-> IF Settled(r) THEN "settled" ELSE rec[r]]
  /\ settling' = FALSE /\ answers' = NoAnswers /\ swept' = TRUE
  /\ UNCHANGED <<clock, venueVars, expected, revived, listing, loaded, batch, frozen, errors,
                 crowded>>

\* The job dies or raises before its commit: the transaction is rolled back.
AbortSettle ==
  /\ settling /\ errors < MAX_ERRORS
  /\ errors' = errors + 1
  /\ settling' = FALSE /\ answers' = NoAnswers /\ swept' = TRUE
  /\ UNCHANGED <<clock, venueVars, localVars, listing, loaded, bookVars, crowded>>

\* The settlement job runs every half hour and the lookback is 45 days: at
\* least one run begins and ends at every value of the clock.
Tick ==
  /\ clock < LAST
  /\ swept /\ ~settling
  /\ clock' = clock + 1
  /\ swept' = FALSE
  /\ UNCHANGED <<venueVars, localVars, listing, loaded, bookVars,
                 settling, answers, errors, crowded>>

-----------------------------------------------------------------------------
Next ==
  \/ \E m \in Markets : \/ \E result \in FirstResults : VenueResolve(m, result)
                        \/ \E result \in Results : VenueCorrect(m, result)
                        \/ Answer(m)
  \/ Fetch \/ Store \/ StartRank \/ Publish \/ Freeze
  \/ StartSettle \/ CommitSettle \/ AbortSettle \/ Tick

Spec == Init /\ [][Next]_vars

\* The scheduler keeps starting settlement runs, and a run that has started
\* gets its answers (the HTTP client has timeouts) and commits.
Fairness ==
  /\ WF_vars(StartSettle) /\ WF_vars(CommitSettle)
  /\ \A m \in Markets : WF_vars(Answer(m))

FairSpec == Spec /\ Fairness

-----------------------------------------------------------------------------
(* Properties. *)

Outcomes == Results \cup {NoResult}
Listings == UNION {[ms -> Nat] : ms \in SUBSET Markets}
AnswerSheets == UNION {[ms -> Results \cup {Waiting, NoNews}] : ms \in SUBSET Markets}

\* Every variable keeps its type, the tables of value/pipeline.py, snapshots.py
\* and settlement.py included.
TypeOK ==
  /\ clock \in 0..LAST
  /\ venue \in [Markets -> Outcomes] /\ settlement \in [Markets -> Outcomes]
  /\ prompt \subseteq Markets /\ corrected \in Nat
  /\ status \in [Markets -> {"open", "settled"}]
  /\ expected \in [Markets -> Nat] /\ listing \in Listings
  /\ revived \subseteq Markets /\ loaded \subseteq Markets
  /\ batch \in 0..MAX_BATCHES
  /\ rec \in [Rows -> {"none", "open", "settled"}]
  /\ grade \in [Rows -> Outcomes] /\ frozenGrade \in [Rows -> Outcomes]
  /\ frozen \in [Rows -> 0..2]
  /\ settling \in BOOLEAN /\ swept \in BOOLEAN
  /\ answers \in AnswerSheets
  /\ errors \in 0..MAX_ERRORS
  /\ crowded \subseteq Markets

\* One verdict: every grade of a market, on its recommendations and on their
\* immutable snapshots, of whatever batch and whenever it was written, is the
\* settlement on file, and a recommendation is in state settled exactly when it
\* has a grade (settlement.py: _write_settlement, grade_recommendations and
\* refresh_recommendation_states), even if the venue corrects the result.
OneVerdict ==
  \A r \in Rows :
    /\ grade[r] \in {NoResult, settlement[r[2]]}
    /\ frozenGrade[r] \in {NoResult, settlement[r[2]]}
    /\ rec[r] = "settled" <=> grade[r] # NoResult

\* The daily job runs again and again over the same batch, but a published
\* recommendation has at most one snapshot, and only published ones have any
\* (write_daily_snapshot).
FrozenOnce == \A r \in Rows : frozen[r] <= 1 /\ (frozen[r] = 1 => rec[r] # "none")

\* The track record is final: published claims are frozen once and judged by one
\* verdict, in both tables, whatever runs how often, late, or beside a ranking.
RecordIsFinal == OneVerdict /\ FrozenOnce

\* A ranking run loads no market whose outcome is on file, even when a late ingest
\* has put its status back to open (load_scoreable_markets against sync_settlements
\* and upsert_markets): but for one way, a listing fetched before the venue resolved
\* that is stored once the outcome is on file, or asked for, and that puts the
\* expected time ahead again.
NoHindsight ==
  [][\A m \in loaded' \ loaded : settlement[m] = NoResult \/ m \in revived]_vars

SlippedOut(m) ==
  /\ m \in prompt
  /\ clock >= expected[m] + LOOKBACK
  /\ settlement[m] = NoResult

\* A market the venue has resolved by its expected time, which no listing then moves
\* into the past, does not leave the lookback without a settlement, when failures are
\* fewer than the runs it is due for, unless a full batch of sync_settlements had no
\* room for it.
NoneSlipsOut ==
  MAX_ERRORS < LOOKBACK - 1 => \A m \in Markets : SlippedOut(m) => m \in crowded

Ungraded(r) ==
  /\ settlement[r[2]] # NoResult
  /\ \/ rec[r] # "none" /\ grade[r] = NoResult
     \/ frozen[r] > 0 /\ frozenGrade[r] = NoResult

\* Whatever is published or frozen on a market, also after its settlement was
\* written, is graded in the end: again and again nothing is left to grade
\* (grade_recommendations runs over everything, not over what this run settled).
GradingCatchesUp == []<>(\A r \in Rows : ~ Ungraded(r))

=============================================================================
