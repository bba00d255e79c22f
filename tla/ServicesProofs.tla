---------------------------- MODULE ServicesProofs ----------------------------
(***************************************************************************)
(* Proofs about the parts that several callers, sessions, runs or reloads    *)
(* use at once: VenueClient, IngestStore, GitPublication and CostOverlay,      *)
(* each for any number of users and any bounds; about RuleMatching, for any    *)
(* rules; and about MarketIngest, for any markets and shares of the budget.    *)
(* They share nothing, so each is proved of its own specification.             *)
(***************************************************************************)
EXTENDS VenueClient, IngestStore, GitPublication, CostOverlay, RuleMatching, MarketIngest,
        FiniteSetTheorems, WellFoundedInduction, TLAPS

-----------------------------------------------------------------------------
(* The circuit breaker.                                                     *)

\* What the breaker counts is the streak, until it has tripped.
BreakerCounts ==
    /\ DOMAIN breaker = {"open", "failures", "age"} /\ breaker.failures \in Nat
    /\ streak \in 0..Threshold
    /\ breaker.open => streak = Threshold
    /\ ~breaker.open => breaker.failures = IF streak = Threshold THEN Threshold - 1 ELSE streak

LEMMA ThresholdIsPositive == Threshold \in Nat /\ Threshold > 0
  <1>1. Threshold \in Nat \ {0}
    BY ClientAssumption, Zenon
  <1>. QED
    BY <1>1

\* The steps that leave the breaker as it is.
BreakerUntouched == UNCHANGED <<breaker, streak>>

\* A call that begins checks the breaker, which may let it through half-open.
LEMMA BeginBreaker ==
    ASSUME BreakerCounts, NEW c \in Callers, GetJson(c)
    PROVE  BreakerCounts'
  <1>1. streak' = streak
    BY DEF GetJson
  <1>2. breaker' = breaker \/ breaker' = Checked
    BY Zenon DEF GetJson, Begin, Ends
  <1>3. CASE breaker' = breaker
    BY <1>1, <1>3 DEF BreakerCounts
  <1>4. CASE breaker.open /\ breaker' = Checked
    <2>1. breaker' = [open |-> FALSE, failures |-> Threshold - 1, age |-> 0]
      BY <1>4 DEF Checked
    <2>2. ~breaker'.open
      BY <2>1, Zenon
    <2>3. streak' = Threshold
      BY <1>1, <1>4 DEF BreakerCounts
    <2>. QED
      BY <2>1, <2>2, <2>3, ThresholdIsPositive DEF BreakerCounts
  <1>5. CASE ~breaker.open /\ breaker' = Checked
    BY <1>3, <1>5 DEF Checked
  <1>. QED
    BY <1>2, <1>3, <1>4, <1>5

LEMMA StepBreaker == BreakerCounts /\ [ClientNext]_clientVars => BreakerCounts'
  <1>. SUFFICES ASSUME BreakerCounts, [ClientNext]_clientVars PROVE BreakerCounts'
    OBVIOUS
  <1>1. ASSUME NEW c \in Callers, GetJson(c) PROVE BreakerCounts'
    BY <1>1, BeginBreaker
  <1>2. ASSUME NEW c \in Callers, Acquire(c) PROVE BreakerUntouched
    BY <1>2 DEF Acquire, BreakerUntouched
  <1>3. ASSUME NEW c \in Callers, Send(c) PROVE BreakerUntouched
    BY <1>3 DEF Send, BreakerUntouched
  <1>4. ASSUME NEW c \in Callers, Retry(c) PROVE BreakerUntouched
    BY <1>4 DEF Retry, BreakerUntouched
  <1>5. ASSUME NEW c \in Callers, Answered(c) PROVE BreakerCounts'
    <2>1. breaker' = [open |-> FALSE, failures |-> 0, age |-> 0] /\ streak' = 0
      BY <1>5 DEF Answered, RecordSuccess
    <2>2. ~breaker'.open
      BY <2>1, Zenon
    <2>. QED
      BY <2>1, <2>2, ThresholdIsPositive DEF BreakerCounts
  <1>6. ASSUME NEW c \in Callers, Throttled(c) PROVE BreakerUntouched
    BY <1>6 DEF Throttled, BreakerUntouched
  <1>7. ASSUME NEW c \in Callers, Failed(c) PROVE BreakerCounts'
    <2>1. streak' = IF streak < Threshold THEN streak + 1 ELSE streak
      BY <1>7 DEF Failed
    <2>2. CASE breaker.open
      <3>1. breaker' = [breaker EXCEPT !.failures = breaker.failures + 1]
        BY <1>7, <2>2 DEF Failed, RecordFailure
      <3>. QED
        BY <2>1, <2>2, <3>1, ThresholdIsPositive DEF BreakerCounts
    <2>3. CASE ~breaker.open /\ breaker.failures + 1 >= Threshold
      <3>1. breaker' = [open |-> TRUE, failures |-> breaker.failures + 1, age |-> 0]
        BY <1>7, <2>3 DEF Failed, RecordFailure
      <3>. QED
        BY <2>1, <2>3, <3>1, ThresholdIsPositive DEF BreakerCounts
    <2>4. CASE ~breaker.open /\ ~(breaker.failures + 1 >= Threshold)
      <3>1. breaker' = [breaker EXCEPT !.failures = breaker.failures + 1]
        BY <1>7, <2>4 DEF Failed, RecordFailure
      <3>. QED
        BY <2>1, <2>4, <3>1, ThresholdIsPositive DEF BreakerCounts
    <2>. QED
      BY <2>2, <2>3, <2>4
  <1>8. CASE Elapse
    BY <1>8, ThresholdIsPositive DEF Elapse, Aged, BreakerCounts
  <1>9. CASE BreakerUntouched
    BY <1>9 DEF BreakerUntouched, BreakerCounts
  <1>10. CASE UNCHANGED clientVars
    BY <1>9, <1>10 DEF clientVars, BreakerUntouched
  <1>. QED
    BY <1>1, <1>2, <1>3, <1>4, <1>5, <1>6, <1>7, <1>8, <1>9, <1>10 DEF ClientNext

\* However many calls overlap, the breaker trips after exactly Threshold failed calls
\* with no success between them, and after a cooldown one more failure trips it again
\* (http.py: CircuitBreaker).
THEOREM BreakerTrips == ClientSpec => []TripsOnAStreak
  <1>1. ClientInit => BreakerCounts
    BY ThresholdIsPositive DEF ClientInit, BreakerCounts
  <1>2. BreakerCounts => TripsOnAStreak
    BY ThresholdIsPositive DEF BreakerCounts, TripsOnAStreak
  <1>. QED
    BY <1>1, <1>2, StepBreaker, PTL DEF ClientSpec

-----------------------------------------------------------------------------
(* The keyed upserts of the ingest.                                         *)

Has(s, key) == \E r \in table : r.key = key /\ r.by \in {s, Committed}
Owns(s, key) == \E r \in table : r.key = key /\ r.by = s
Stored(key) == \E r \in table : r.key = key /\ r.by = Committed

\* A key has one row, whoever wrote it and whether or not it is committed.
RowsAreRows ==
    /\ \A q, r \in table : q.key = r.key => q = r
    /\ \A r \in table : DOMAIN r = {"key", "by", "version"}
SessionsAreSessions ==
    /\ session = [s \in Writers |-> session[s]]
    /\ \A s \in Writers : DOMAIN session[s] = {"pc", "wording", "trade", "missed", "version", "wrote"}
\* A session past a look-up can see the row it looked for.
PastMarket(s) == session[s].pc \in {"rule", "trade", "commit"} \/ (session[s].pc = "market" /\ ~session[s].missed)
PastRule(s) == session[s].pc \in {"trade", "commit"} \/ (session[s].pc = "rule" /\ ~session[s].missed)
WhatWasSeenIsThere ==
    \A s \in Writers : /\ PastMarket(s) => Has(s, MarketKey)
                       /\ PastRule(s) => Has(s, RuleKey(session[s].wording))
\* What a session will count is what it has inserted.
CountsAreInserts ==
    \A s \in Writers : /\ session[s].pc # "commit" => session[s].wrote = {}
                       /\ \A t \in Trades : t \in session[s].wrote <=> Owns(s, TradeKey(t))
TradesAreCounted ==
    /\ DOMAIN counted = Trades
    /\ \A t \in Trades : counted[t] = IF Stored(TradeKey(t)) THEN 1 ELSE 0
KeptIsStored == \A w \in kept : Stored(RuleKey(w)) /\ Stored(MarketKey)

StoreInv == /\ RowsAreRows /\ SessionsAreSessions /\ WhatWasSeenIsThere
            /\ CountsAreInserts /\ TradesAreCounted /\ KeptIsStored

LEMMA KeysDiffer ==
    /\ \A w : MarketKey # RuleKey(w) /\ MarketKey # TradeKey(w)
    /\ \A v, w : RuleKey(v) # TradeKey(w)
    /\ \A v, w : RuleKey(v) = RuleKey(w) => v = w
    /\ \A v, w : TradeKey(v) = TradeKey(w) => v = w
  BY DEF MarketKey, RuleKey, TradeKey

LEMMA NoWriterIsCommitted == \A s \in Writers : s # Committed
  BY StoreAssumption DEF Committed

\* An INSERT that nothing stands in the way of leaves its key to this session's eyes,
\* keeps every row, and adds at most a row of its own under a key that had none.
Insertion(s, key) ==
    /\ table \subseteq table'
    /\ \A r \in table' \ table : r.key = key /\ r.by = s /\ DOMAIN r = {"key", "by", "version"}
    /\ table' # table => ~(\E r \in table : r.key = key)
    /\ \A q, r \in table' \ table : q = r

LEMMA InsertedIsAnInsertion ==
    ASSUME NEW s \in Writers, NEW key, NEW version, NEW novel,
           table' = IF novel THEN Inserted(s, key, version) ELSE table
    PROVE  /\ Insertion(s, key)
           /\ novel /\ ~Blocked(s, key) => Has(s, key)'
           /\ novel /\ ~(\E r \in table : r.key = key) => Owns(s, key)'
           /\ ~(novel /\ ~(\E r \in table : r.key = key)) => table' = table
  <1>1. CASE novel /\ ~(\E r \in table : r.key = key)
    <2> DEFINE new == [key |-> key, by |-> s, version |-> version]
    <2>1. table' = table \cup {new}
      BY <1>1 DEF Inserted
    <2>2. new.key = key /\ new.by = s /\ DOMAIN new = {"key", "by", "version"}
      OBVIOUS
    <2>3. new \notin table
      BY <1>1, <2>2
    <2>. HIDE DEF new
    <2>. QED
      BY <1>1, <2>1, <2>2, <2>3 DEF Insertion, Has, Owns
  <1>2. CASE ~(novel /\ ~(\E r \in table : r.key = key))
    <2>1. table' = table
      BY <1>2 DEF Inserted
    <2>. QED
      BY <1>2, <2>1 DEF Insertion, Has, Blocked
  <1>. QED
    BY <1>1, <1>2

\* What an insertion of a session keeps of the rows and of what the others rely on.
LEMMA InsertionKeeps ==
    ASSUME RowsAreRows, NEW s \in Writers, NEW key, Insertion(s, key)
    PROVE  /\ RowsAreRows'
           /\ \A q \in Writers : \A k : Has(q, k) => Has(q, k)'
           /\ \A k : Stored(k)' <=> Stored(k)
           /\ \A q \in Writers : \A k : q # s \/ k # key => (Owns(q, k)' <=> Owns(q, k))
  <1>1. RowsAreRows'
    BY DEF RowsAreRows, Insertion
  <1>2. \A q \in Writers : \A k : Has(q, k) => Has(q, k)'
    BY DEF Insertion, Has
  <1>3. \A k : Stored(k)' <=> Stored(k)
    BY NoWriterIsCommitted DEF Insertion, Stored
  <1>4. \A q \in Writers : \A k : q # s \/ k # key => (Owns(q, k)' <=> Owns(q, k))
    BY DEF Insertion, Owns
  <1>. QED
    BY <1>1, <1>2, <1>3, <1>4

LEMMA SeesIsHas == \A s, key : Sees(s, key) <=> Has(s, key)
  BY DEF Sees, Visible, Has

\* The row a session has just gone past, and what the steps of a transaction share.
OthersWait(s) == \A q \in Writers \ {s} : session'[q] = session[q]

LEMMA StartKeeps == ASSUME StoreInv, NEW s \in Writers, StartWrite(s) PROVE StoreInv'
  <1>1. PICK t \in Trades :
          session' = [session EXCEPT ![s] = [pc |-> "market", wording |-> venue.wording,
                                           trade |-> t, missed |-> ~Sees(s, MarketKey),
                                           version |-> 0, wrote |-> {}]]
    BY DEF StartWrite
  <1> DEFINE new == [pc |-> "market", wording |-> venue.wording, trade |-> t,
                     missed |-> ~Sees(s, MarketKey), version |-> 0, wrote |-> {}]
  <1>2. /\ DOMAIN new = {"pc", "wording", "trade", "missed", "version", "wrote"}
        /\ new.pc = "market" /\ new.wrote = {}
    OBVIOUS
  <1>3. new.missed <=> ~Sees(s, MarketKey)
    BY Zenon
  <1>4. session' = [session EXCEPT ![s] = new]
    BY <1>1
  <1>. HIDE DEF new
  <1>5. session'[s] = new /\ OthersWait(s) /\ SessionsAreSessions'
    BY <1>2, <1>4 DEF StoreInv, SessionsAreSessions, OthersWait
  <1>6. table' = table /\ kept' = kept /\ counted' = counted /\ session[s].wrote = {}
    BY DEF StartWrite, StoreInv, CountsAreInserts
  <1>7. WhatWasSeenIsThere'
    BY <1>2, <1>3, <1>5, <1>6, SeesIsHas DEF StoreInv, WhatWasSeenIsThere, PastMarket, PastRule, OthersWait, Has
  <1>8. CountsAreInserts'
    BY <1>2, <1>5, <1>6 DEF StoreInv, CountsAreInserts, OthersWait, Owns
  <1>. QED
    BY <1>5, <1>6, <1>7, <1>8 DEF StoreInv, RowsAreRows, TradesAreCounted, KeptIsStored, Stored

LEMMA UpsertKeeps == ASSUME StoreInv, NEW s \in Writers, UpsertMarket(s) PROVE StoreInv'
  <1>1. /\ session'[s].pc = "rule" /\ session'[s].wording = session[s].wording
        /\ session'[s].wrote = session[s].wrote
        /\ OthersWait(s) /\ SessionsAreSessions'
    BY DEF UpsertMarket, StoreInv, SessionsAreSessions, OthersWait
  <1>2. session'[s].missed = ~Sees(s, RuleKey(session[s].wording))
    BY Zenon DEF UpsertMarket, StoreInv, SessionsAreSessions
  <1>3. /\ Insertion(s, MarketKey)
        /\ session[s].missed => Has(s, MarketKey)'
    BY InsertedIsAnInsertion DEF UpsertMarket
  <1>4. /\ RowsAreRows'
        /\ \A q \in Writers : \A k : Has(q, k) => Has(q, k)'
        /\ \A k : Stored(k)' <=> Stored(k)
        /\ \A q \in Writers : \A k : q # s \/ k # MarketKey => (Owns(q, k)' <=> Owns(q, k))
    BY <1>3, InsertionKeeps DEF StoreInv
  <1>5. Has(s, MarketKey)'
    BY <1>3, <1>4 DEF UpsertMarket, StoreInv, WhatWasSeenIsThere, PastMarket
  <1>6. WhatWasSeenIsThere'
    <2>1. ASSUME NEW q \in Writers PROVE PastMarket(q)' => Has(q, MarketKey)'
      BY <1>4, <1>5, <1>1 DEF StoreInv, WhatWasSeenIsThere, PastMarket, OthersWait
    <2>2. ASSUME NEW q \in Writers, PastRule(q)' PROVE Has(q, RuleKey(session[q].wording))'
      <3>1. session'[q].wording = session[q].wording
        BY <1>1 DEF OthersWait
      <3>2. Has(q, RuleKey(session[q].wording))
        BY <1>1, <1>2, <2>2, SeesIsHas DEF StoreInv, WhatWasSeenIsThere, PastRule, OthersWait
      <3>. QED
        <4> DEFINE k == RuleKey(session[q].wording)
        <4>1. \E r \in table' : r.key = k /\ r.by \in {q, Committed}
          BY <3>2, <1>4 DEF Has
        <4>. QED
          BY <4>1, <3>1 DEF Has
    <2>. QED
      BY <2>1, <2>2 DEF WhatWasSeenIsThere
  <1>7. CountsAreInserts'
    <2>1. session[s].pc = "market"
      BY DEF UpsertMarket
    <2>. QED
      BY <1>1, <1>4, <2>1, KeysDiffer DEF StoreInv, CountsAreInserts, OthersWait
  <1>8. TradesAreCounted' /\ KeptIsStored'
    BY <1>4 DEF StoreInv, TradesAreCounted, KeptIsStored, UpsertMarket
  <1>. QED
    BY <1>1, <1>4, <1>6, <1>7, <1>8 DEF StoreInv

LEMMA RecordKeeps == ASSUME StoreInv, NEW s \in Writers, RecordVersion(s) PROVE StoreInv'
  <1>0. PICK key : key = RuleKey(session[s].wording)
    OBVIOUS
  <1>1. /\ session'[s].pc = "trade" /\ session'[s].wording = session[s].wording
        /\ session'[s].wrote = session[s].wrote
        /\ OthersWait(s) /\ SessionsAreSessions'
    BY DEF RecordVersion, StoreInv, SessionsAreSessions, OthersWait
  <1>2. session[s].pc = "rule"
    BY DEF RecordVersion
  <1>3. /\ Insertion(s, key)
        /\ session[s].missed => Has(s, key)'
    <2>1. /\ table' = IF session[s].missed THEN Inserted(s, key, session[s].version) ELSE table
          /\ session[s].missed => ~Blocked(s, key)
      BY <1>0 DEF RecordVersion
    <2>. QED
      BY <2>1, InsertedIsAnInsertion
  <1>4. /\ RowsAreRows'
        /\ \A q \in Writers : \A k : Has(q, k) => Has(q, k)'
        /\ \A k : Stored(k)' <=> Stored(k)
        /\ \A q \in Writers : \A k : q # s \/ k # key => (Owns(q, k)' <=> Owns(q, k))
    BY <1>3, InsertionKeeps DEF StoreInv
  <1>5. Has(s, key)'
    BY <1>0, <1>2, <1>3, <1>4 DEF StoreInv, WhatWasSeenIsThere, PastRule, Has
  <1>6. WhatWasSeenIsThere'
    <2>1. ASSUME NEW q \in Writers PROVE PastMarket(q)' => Has(q, MarketKey)'
      BY <1>1, <1>2, <1>4 DEF StoreInv, WhatWasSeenIsThere, PastMarket, OthersWait
    <2>2. ASSUME NEW q \in Writers, PastRule(q)' PROVE Has(q, RuleKey(session[q].wording))'
      <3>1. session'[q].wording = session[q].wording
        BY <1>1 DEF OthersWait
      <3> DEFINE k == RuleKey(session[q].wording)
      <3>2. \E r \in table' : r.key = k /\ r.by \in {q, Committed}
        BY <1>0, <1>1, <1>4, <1>5, <2>2 DEF StoreInv, WhatWasSeenIsThere, PastRule, OthersWait, Has
      <3>. QED
        BY <3>1, <3>2 DEF Has
    <2>. QED
      BY <2>1, <2>2 DEF WhatWasSeenIsThere
  <1>7. CountsAreInserts'
    <2>1. \A t : key # TradeKey(t)
      BY <1>0, KeysDiffer
    <2>. QED
      BY <1>1, <1>2, <1>4, <2>1 DEF StoreInv, CountsAreInserts, OthersWait
  <1>8. TradesAreCounted' /\ KeptIsStored'
    BY <1>4 DEF StoreInv, TradesAreCounted, KeptIsStored, RecordVersion
  <1>. QED
    BY <1>1, <1>4, <1>6, <1>7, <1>8 DEF StoreInv

LEMMA TradeKeeps == ASSUME StoreInv, NEW s \in Writers, StoreTrade(s) PROVE StoreInv'
  <1>0. PICK key : key = TradeKey(session[s].trade)
    OBVIOUS
  <1>1. /\ session'[s].pc = "commit" /\ session'[s].wording = session[s].wording
        /\ session'[s].wrote = Wrote(s, key)
        /\ OthersWait(s) /\ SessionsAreSessions'
    BY <1>0 DEF StoreTrade, StoreInv, SessionsAreSessions, OthersWait
  <1>2. session[s].pc = "trade"
    BY DEF StoreTrade
  <1>3. /\ Insertion(s, key)
        /\ session[s].missed /\ ~(\E r \in table : r.key = key) => Owns(s, key)'
        /\ ~(session[s].missed /\ ~(\E r \in table : r.key = key)) => table' = table
    <2>1. table' = IF session[s].missed THEN Inserted(s, key, 0) ELSE table
      BY <1>0 DEF StoreTrade
    <2>. QED
      BY <2>1, InsertedIsAnInsertion
  <1>4. /\ RowsAreRows'
        /\ \A q \in Writers : \A k : Has(q, k) => Has(q, k)'
        /\ \A k : Stored(k)' <=> Stored(k)
        /\ \A q \in Writers : \A k : q # s \/ k # key => (Owns(q, k)' <=> Owns(q, k))
    BY <1>3, InsertionKeeps DEF StoreInv
  <1>5. WhatWasSeenIsThere'
    <2>1. ASSUME NEW q \in Writers PROVE PastMarket(q)' => Has(q, MarketKey)'
      BY <1>1, <1>2, <1>4 DEF StoreInv, WhatWasSeenIsThere, PastMarket, OthersWait
    <2>2. ASSUME NEW q \in Writers, PastRule(q)' PROVE Has(q, RuleKey(session[q].wording))'
      <3>1. session'[q].wording = session[q].wording
        BY <1>1 DEF OthersWait
      <3> DEFINE k == RuleKey(session[q].wording)
      <3>2. \E r \in table' : r.key = k /\ r.by \in {q, Committed}
        BY <1>1, <1>2, <1>4, <2>2 DEF StoreInv, WhatWasSeenIsThere, PastRule, OthersWait, Has
      <3>. QED
        BY <3>1, <3>2 DEF Has
    <2>. QED
      BY <2>1, <2>2 DEF WhatWasSeenIsThere
  <1>6. \A t \in Trades : ~Owns(s, TradeKey(t))
    BY <1>2 DEF StoreInv, CountsAreInserts
  <1>7. \A t \in Trades : t \in Wrote(s, key) <=> Owns(s, TradeKey(t))'
    <2>1. \A t : key = TradeKey(t) <=> t = session[s].trade
      BY <1>0, KeysDiffer
    <2>2. CASE session[s].missed /\ ~(\E r \in table : r.key = key)
      <3>1. Wrote(s, key) = {session[s].trade}
        BY <2>2 DEF Wrote
      <3>. QED
        BY <1>3, <1>4, <1>6, <2>1, <2>2, <3>1 DEF Owns
    <2>3. CASE ~(session[s].missed /\ ~(\E r \in table : r.key = key))
      <3>1. Wrote(s, key) = {}
        BY <2>3 DEF Wrote
      <3>. QED
        BY <1>3, <1>6, <2>3, <3>1 DEF Owns
    <2>. QED
      BY <2>2, <2>3
  <1>8. CountsAreInserts'
    BY <1>1, <1>4, <1>7 DEF StoreInv, CountsAreInserts, OthersWait
  <1>9. TradesAreCounted' /\ KeptIsStored'
    BY <1>4 DEF StoreInv, TradesAreCounted, KeptIsStored, StoreTrade
  <1>. QED
    BY <1>1, <1>4, <1>5, <1>8, <1>9 DEF StoreInv

LEMMA AwayIsAway ==
    /\ Away.pc = "away" /\ Away.wrote = {}
    /\ DOMAIN Away = {"pc", "wording", "trade", "missed", "version", "wrote"}
  BY DEF Away

\* A session that ends.
LEMMA SessionEnds ==
    ASSUME SessionsAreSessions, NEW s \in Writers, session' = [session EXCEPT ![s] = Away]
    PROVE  /\ SessionsAreSessions' /\ OthersWait(s)
           /\ session'[s].pc = "away" /\ session'[s].wrote = {}
  BY AwayIsAway DEF SessionsAreSessions, OthersWait

LEMMA RollbackKeeps == ASSUME StoreInv, NEW s \in Writers, Rollback(s) PROVE StoreInv'
  <1>1. /\ SessionsAreSessions' /\ OthersWait(s)
        /\ session'[s].pc = "away" /\ session'[s].wrote = {}
    BY SessionEnds DEF Rollback, StoreInv
  <1>2. table' = {r \in table : r.by # s} /\ kept' = kept /\ counted' = counted
    BY DEF Rollback
  <1>3. /\ RowsAreRows'
        /\ \A q \in Writers \ {s} : \A k : (Has(q, k) => Has(q, k)') /\ (Owns(q, k)' <=> Owns(q, k))
        /\ \A k : Stored(k)' <=> Stored(k)
        /\ \A k : ~Owns(s, k)'
    BY <1>2, NoWriterIsCommitted DEF StoreInv, RowsAreRows, Has, Owns, Stored
  <1>4. WhatWasSeenIsThere'
    <2>1. ASSUME NEW q \in Writers PROVE PastMarket(q)' => Has(q, MarketKey)'
      BY <1>1, <1>3 DEF StoreInv, WhatWasSeenIsThere, PastMarket, OthersWait
    <2>2. ASSUME NEW q \in Writers, PastRule(q)' PROVE Has(q, RuleKey(session[q].wording))'
      <3>1. q # s /\ session'[q] = session[q]
        BY <1>1, <2>2 DEF OthersWait, PastRule
      <3> DEFINE k == RuleKey(session[q].wording)
      <3>2. \E r \in table' : r.key = k /\ r.by \in {q, Committed}
        BY <1>3, <2>2, <3>1 DEF StoreInv, WhatWasSeenIsThere, PastRule, Has
      <3>. QED
        BY <3>1, <3>2 DEF Has
    <2>. QED
      BY <2>1, <2>2 DEF WhatWasSeenIsThere
  <1>5. CountsAreInserts'
    BY <1>1, <1>3 DEF StoreInv, CountsAreInserts, OthersWait
  <1>6. TradesAreCounted' /\ KeptIsStored'
    BY <1>2, <1>3 DEF StoreInv, TradesAreCounted, KeptIsStored
  <1>. QED
    BY <1>1, <1>3, <1>4, <1>5, <1>6 DEF StoreInv

LEMMA CommitKeeps == ASSUME StoreInv, NEW s \in Writers, CommitWrite(s) PROVE StoreInv'
  <1> DEFINE Done(r) == IF r.by = s THEN [r EXCEPT !.by = Committed] ELSE r
  <1>1. /\ SessionsAreSessions' /\ OthersWait(s)
        /\ session'[s].pc = "away" /\ session'[s].wrote = {}
    BY SessionEnds DEF CommitWrite, StoreInv
  <1>2. table' = {Done(r) : r \in table}
    BY DEF CommitWrite
  <1>3. \A r \in table : /\ Done(r).key = r.key /\ DOMAIN Done(r) = {"key", "by", "version"}
                         /\ Done(r).by = IF r.by = s THEN Committed ELSE r.by
    BY DEF StoreInv, RowsAreRows
  <1>. HIDE DEF Done
  <1>4. RowsAreRows'
    BY <1>2, <1>3 DEF StoreInv, RowsAreRows
  <1>5. \A k : Stored(k)' <=> Stored(k) \/ Owns(s, k)
    BY <1>2, <1>3 DEF Stored, Owns
  <1>6. \A q \in Writers \ {s} : \A k : (Has(q, k) => Has(q, k)') /\ (Owns(q, k)' <=> Owns(q, k))
    BY <1>2, <1>3, NoWriterIsCommitted DEF Has, Owns
  <1>7. \A k : ~Owns(s, k)'
    BY <1>2, <1>3, NoWriterIsCommitted DEF Owns
  <1>8. WhatWasSeenIsThere'
    <2>1. ASSUME NEW q \in Writers PROVE PastMarket(q)' => Has(q, MarketKey)'
      BY <1>1, <1>6 DEF StoreInv, WhatWasSeenIsThere, PastMarket, OthersWait
    <2>2. ASSUME NEW q \in Writers, PastRule(q)' PROVE Has(q, RuleKey(session[q].wording))'
      <3>1. q # s /\ session'[q] = session[q]
        BY <1>1, <2>2 DEF OthersWait, PastRule
      <3> DEFINE k == RuleKey(session[q].wording)
      <3>2. \E r \in table' : r.key = k /\ r.by \in {q, Committed}
        BY <1>6, <2>2, <3>1 DEF StoreInv, WhatWasSeenIsThere, PastRule, Has
      <3>. QED
        BY <3>1, <3>2 DEF Has
    <2>. QED
      BY <2>1, <2>2 DEF WhatWasSeenIsThere
  <1>9. CountsAreInserts'
    BY <1>1, <1>6, <1>7 DEF StoreInv, CountsAreInserts, OthersWait
  <1>10. TradesAreCounted'
    <2>1. counted' = [t \in Trades |-> IF t \in session[s].wrote THEN counted[t] + 1 ELSE counted[t]]
      BY DEF CommitWrite
    <2>2. ASSUME NEW t \in Trades
          PROVE  counted'[t] = IF Stored(TradeKey(t))' THEN 1 ELSE 0
      <3>1. CASE t \in session[s].wrote
        <4>1. Owns(s, TradeKey(t))
          BY <3>1 DEF StoreInv, CountsAreInserts
        <4>2. ~Stored(TradeKey(t))
          BY <4>1, NoWriterIsCommitted DEF StoreInv, RowsAreRows, Owns, Stored
        <4>. QED
          BY <2>1, <3>1, <4>1, <4>2, <1>5 DEF StoreInv, TradesAreCounted
      <3>2. CASE t \notin session[s].wrote
        BY <2>1, <3>2, <1>5 DEF StoreInv, TradesAreCounted, CountsAreInserts
      <3>. QED
        BY <3>1, <3>2
    <2>. QED
      BY <2>1, <2>2 DEF TradesAreCounted
  <1>11. KeptIsStored'
    <2>1. kept' = kept \cup {session[s].wording} /\ session[s].pc = "commit"
      BY DEF CommitWrite
    <2>2. Has(s, MarketKey) /\ Has(s, RuleKey(session[s].wording))
      BY <2>1 DEF StoreInv, WhatWasSeenIsThere, PastMarket, PastRule
    <2>. QED
      BY <2>1, <2>2, <1>5 DEF StoreInv, KeptIsStored, Has, Owns, Stored
  <1>. QED
    BY <1>1, <1>4, <1>8, <1>9, <1>10, <1>11 DEF StoreInv

LEMMA StepStore == StoreInv /\ [StoreNext]_storeVars => StoreInv'
  <1>. SUFFICES ASSUME StoreInv, [StoreNext]_storeVars PROVE StoreInv'
    OBVIOUS
  <1>1. CASE UNCHANGED <<table, session, kept, counted>>
    BY <1>1 DEF StoreInv, RowsAreRows, SessionsAreSessions, WhatWasSeenIsThere, CountsAreInserts,
             TradesAreCounted, KeptIsStored, PastMarket, PastRule, Has, Owns, Stored
  <1>2. CASE Reworded
    BY <1>1, <1>2 DEF Reworded
  <1>3. CASE UNCHANGED storeVars
    BY <1>1, <1>3 DEF storeVars
  <1>. QED
    BY <1>2, <1>3, StartKeeps, UpsertKeeps, RecordKeeps, TradeKeeps, CommitKeeps, RollbackKeeps
       DEF StoreNext

\* What the keys say of the number of rows.
LEMMA StoredOnce ==
    ASSUME RowsAreRows, NEW key
    PROVE  Cardinality({r \in table : r.key = key /\ r.by = Committed}) = IF Stored(key) THEN 1 ELSE 0
  <1> DEFINE stored == {r \in table : r.key = key /\ r.by = Committed}
  <1>1. CASE Stored(key)
    <2>1. PICK q \in stored : TRUE
      BY <1>1 DEF Stored
    <2>2. stored = {q}
      BY <2>1 DEF RowsAreRows
    <2>. QED
      BY <1>1, <2>2, FS_Singleton
  <1>2. CASE ~Stored(key)
    <2>1. stored = {}
      BY <1>2 DEF Stored
    <2>. QED
      BY <1>2, <2>1, FS_EmptySet
  <1>. QED
    BY <1>1, <1>2

\* Whatever sessions overlap, die or find that another was faster: of the ingests that
\* committed the market and each wording have one row, and each print was counted as
\* written by exactly one (ingest/store.py, rule_history.py).
THEOREM IngestWritesOnce == StoreSpec => []WritesHappenOnce
  <1>1. StoreInit => StoreInv
    <2>. SUFFICES ASSUME StoreInit PROVE StoreInv
      OBVIOUS
    <2>1. SessionsAreSessions /\ \A s \in Writers : session[s].pc = "away" /\ session[s].wrote = {}
      BY AwayIsAway DEF StoreInit, SessionsAreSessions
    <2>. QED
      BY <2>1 DEF StoreInit, StoreInv, RowsAreRows, WhatWasSeenIsThere, CountsAreInserts,
               TradesAreCounted, KeptIsStored, PastMarket, PastRule, Has, Owns, Stored
  <1>2. StoreInv => WritesHappenOnce
    <2>. SUFFICES ASSUME StoreInv PROVE WritesHappenOnce
      OBVIOUS
    <2> DEFINE stored(key) == Cardinality({r \in table : r.key = key /\ r.by = Committed})
    <2>1. \A key : stored(key) = IF Stored(key) THEN 1 ELSE 0
      BY StoredOnce DEF StoreInv
    <2>. HIDE DEF stored
    <2>2. /\ kept # {} => stored(MarketKey) = 1
          /\ \A w \in kept : stored(RuleKey(w)) = 1
          /\ \A t \in Trades : counted[t] = stored(TradeKey(t))
      BY <2>1 DEF StoreInv, KeptIsStored, TradesAreCounted
    <2>. QED
      BY <2>2 DEF WritesHappenOnce, stored
  <1>. QED
    BY <1>1, <1>2, StepStore, PTL DEF StoreSpec

-----------------------------------------------------------------------------
(* The cost panel.                                                          *)

PageIsPage ==
    /\ page = [url |-> page.url, outcome |-> page.outcome, side |-> page.side]
    /\ page.url \in Urls /\ page.side \in Sides \cup {"none"}
    /\ page.outcome \in Outcomes
OverlayFlights == [token : Nat, url : Urls, outcome : Outcomes, side : Sides,
                   at : {"identify", "book"}]
FlightsAreFlights ==
    /\ generation \in Nat /\ clicks \in Nat
    /\ \A f \in flights : /\ f \in OverlayFlights /\ f.token \in Nat /\ f.token <= generation
                         /\ f.url \in Urls /\ f.side \in Sides /\ f.outcome \in Outcomes
\* A reload that waits for a book is of an outcome the order panel named.
BooksAreNamed == \A f \in flights : f.at = "book" => f.outcome # Unnamed
\* What is painted is the book in hand, and that is of such an outcome too.
PanelIsLoaded ==
    /\ panel.kind = "costs" => loaded # NoBook /\ panel.book = loaded
    /\ loaded # NoBook => loaded.outcome # Unnamed
Landed == ~\E f \in flights : IsCurrent(f)
\* A ticket that cannot be read has no book, unless it was drawn unnoticed.
UnreadHasNoBook == page.side = "none" => missed \/ (Landed /\ loaded = NoBook)
\* On a tab in view whose watchers have run, what is on its way, or has landed, is of
\* the address on screen, and of the ticket's outcome and side if they have not moved.
UrlHolds ==
    ~hidden /\ lastUrl = page.url =>
        /\ \A f \in flights : IsCurrent(f) => f.url = page.url
        /\ Landed /\ loaded # NoBook => loaded.url = page.url
OutcomeHolds ==
    ~hidden /\ lastUrl = page.url /\ ~strayed =>
        /\ \A f \in flights : IsCurrent(f) => f.outcome = page.outcome
        /\ Landed /\ loaded # NoBook => loaded.outcome = page.outcome
SideHolds ==
    ~hidden /\ clicks = 0 /\ ~missed =>
        /\ \A f \in flights : IsCurrent(f) => f.side = page.side
        /\ Landed /\ loaded # NoBook => loaded.side = page.side

OverlayInv == /\ PageIsPage /\ FlightsAreFlights /\ BooksAreNamed /\ PanelIsLoaded
              /\ UnreadHasNoBook /\ UrlHolds /\ OutcomeHolds /\ SideHolds

LEMMA PanelKinds == /\ Absent.kind # "costs" /\ Message.kind # "costs"
                    /\ \A b : Costs(b).kind = "costs" /\ Costs(b).book = b
  BY DEF Absent, Message, Costs

\* A reload that begins.
Begun ==
    /\ generation' = generation + 1
    /\ missed' = FALSE /\ strayed' = FALSE
    /\ IF page'.side = "none"
       THEN /\ loaded' = NoBook /\ panel' = Message
            /\ UNCHANGED flights
       ELSE /\ flights' = flights \cup {Flight(generation + 1, page')}
            /\ UNCHANGED <<loaded, panel>>

LEMMA BegunHolds ==
    ASSUME OverlayInv, Begun, PageIsPage', clicks' \in Nat PROVE OverlayInv'
  <1>1. CASE page'.side = "none"
    <2>0. generation' = generation + 1 /\ UNCHANGED flights /\ loaded' = NoBook /\ panel' = Message
      BY <1>1 DEF Begun, Flight
    <2>1. Landed' /\ FlightsAreFlights'
      BY <2>0 DEF OverlayInv, Landed, IsCurrent, FlightsAreFlights
    <2>2. PanelIsLoaded' /\ BooksAreNamed'
      BY <2>0, PanelKinds DEF OverlayInv, PanelIsLoaded, BooksAreNamed
    <2>. QED
      BY <2>0, <2>1, <2>2 DEF OverlayInv, UnreadHasNoBook, UrlHolds, OutcomeHolds, SideHolds, Landed
  <1>2. CASE page'.side # "none"
    <2> DEFINE new == Flight(generation + 1, page')
    <2>1. /\ new \in OverlayFlights /\ new.token = generation + 1 /\ new.at # "book"
          /\ page'.url \in Urls /\ page'.outcome \in Outcomes /\ page'.side \in Sides
          /\ new.url = page'.url /\ new.outcome = page'.outcome /\ new.side = page'.side
      <3>1. generation \in Nat /\ page'.url \in Urls /\ page'.outcome \in Outcomes /\ page'.side \in Sides
        BY <1>2 DEF OverlayInv, FlightsAreFlights, PageIsPage
      <3>. QED
        BY <3>1 DEF Flight, OverlayFlights
    <2>2. flights' = flights \cup {new} /\ generation' = generation + 1 /\ generation \in Nat
      BY <1>2 DEF Begun, OverlayInv, FlightsAreFlights
    <2>. HIDE DEF new
    <2>3. FlightsAreFlights'
      BY <2>1, <2>2 DEF OverlayInv, FlightsAreFlights
    <2>4. ~Landed' /\ \A f \in flights' : IsCurrent(f)' => /\ f.url = page'.url
                                                          /\ f.outcome = page'.outcome
                                                          /\ f.side = page'.side
      BY <2>1, <2>2 DEF OverlayInv, FlightsAreFlights, OverlayFlights, Landed, IsCurrent
    <2>5. PanelIsLoaded'
      BY <1>2 DEF OverlayInv, Begun, PanelIsLoaded
    <2>6. BooksAreNamed'
      BY <2>1, <2>2 DEF OverlayInv, BooksAreNamed
    <2>. QED
      BY <1>2, <2>3, <2>4, <2>5, <2>6 DEF OverlayInv, UnreadHasNoBook, UrlHolds, OutcomeHolds, SideHolds, Landed, IsCurrent
  <1>. QED
    BY <1>1, <1>2

\* Any reload, of a tab in view or not.
LEMMA ReloadHolds ==
    ASSUME OverlayInv, Reload, UNCHANGED page, clicks' \in Nat
    PROVE  \/ OverlayInv'
           \/ hidden /\ UNCHANGED <<generation, flights, loaded, panel, missed, strayed>>
  <1>1. CASE hidden
    BY <1>1 DEF Reload
  <1>2. CASE ~hidden
    <2>1. Begun
      BY <1>2 DEF Reload, Begun
    <2>. QED
      BY <2>1, BegunHolds DEF OverlayInv, PageIsPage
  <1>. QED
    BY <1>1, <1>2

\* An answer, which takes a reload from its first call to its second, or ends it.
LEMMA IdentifiedHolds ==
    ASSUME OverlayInv, NEW f \in flights, Identified(f) PROVE OverlayInv'
  <1>1. UNCHANGED <<page, hidden, lastUrl, clicks, generation, moves, missed, strayed>>
    BY DEF Identified
  <1>2. CASE ~IsCurrent(f) /\ flights' = flights \ {f} /\ UNCHANGED <<loaded, panel>>
    <2>1. Landed' <=> Landed
      BY <1>1, <1>2 DEF Landed, IsCurrent
    <2>. QED
      BY <1>1, <1>2, <2>1 DEF OverlayInv, PageIsPage, FlightsAreFlights, BooksAreNamed, PanelIsLoaded, UnreadHasNoBook,
               UrlHolds, OutcomeHolds, SideHolds, IsCurrent
  <1>3. CASE /\ IsCurrent(f) /\ f.outcome # Unnamed
             /\ flights' = (flights \ {f}) \cup {[f EXCEPT !.at = "book"]}
             /\ UNCHANGED <<loaded, panel>>
    <2> DEFINE new == [f EXCEPT !.at = "book"]
    <2>1. /\ new \in OverlayFlights /\ new.token = f.token /\ new.url = f.url
          /\ new.outcome = f.outcome /\ new.side = f.side
      BY DEF OverlayInv, FlightsAreFlights, OverlayFlights
    <2>2. flights' = (flights \ {f}) \cup {new}
      BY <1>3
    <2>. HIDE DEF new
    <2>3. ~Landed' /\ ~Landed
      BY <1>1, <1>3, <2>1, <2>2 DEF Landed, IsCurrent
    <2>4. FlightsAreFlights' /\ BooksAreNamed'
      BY <1>1, <1>3, <2>1, <2>2 DEF OverlayInv, FlightsAreFlights, BooksAreNamed
    <2>. QED
      BY <1>1, <1>3, <2>1, <2>2, <2>3, <2>4 DEF OverlayInv, PageIsPage, PanelIsLoaded, UnreadHasNoBook,
               UrlHolds, OutcomeHolds, SideHolds, IsCurrent
  <1>4. CASE IsCurrent(f) /\ flights' = flights \ {f} /\ loaded' = NoBook /\ panel' = Absent
    <2>1. ~Landed
      BY <1>4 DEF Landed
    <2>2. PanelIsLoaded'
      BY <1>4, PanelKinds DEF PanelIsLoaded
    <2>. QED
      BY <1>1, <1>4, <2>1, <2>2 DEF OverlayInv, PageIsPage, FlightsAreFlights, BooksAreNamed, UnreadHasNoBook,
               UrlHolds, OutcomeHolds, SideHolds, IsCurrent
  <1>. QED
    BY <1>2, <1>3, <1>4 DEF Identified

LEMMA BookHolds ==
    ASSUME OverlayInv, NEW f \in flights, BookRead(f) PROVE OverlayInv'
  <1>1. /\ UNCHANGED <<page, hidden, lastUrl, clicks, generation, moves, missed, strayed>>
        /\ flights' = flights \ {f}
    BY DEF BookRead
  <1>2. CASE ~IsCurrent(f) /\ UNCHANGED <<loaded, panel>>
    <2>1. Landed' <=> Landed
      BY <1>1, <1>2 DEF Landed, IsCurrent
    <2>. QED
      BY <1>1, <1>2, <2>1 DEF OverlayInv, PageIsPage, FlightsAreFlights, BooksAreNamed, PanelIsLoaded, UnreadHasNoBook,
               UrlHolds, OutcomeHolds, SideHolds, IsCurrent
  <1>3. CASE /\ IsCurrent(f) /\ panel' = Costs(loaded')
             /\ loaded' = [url |-> f.url, outcome |-> f.outcome, side |-> f.side]
    <2> DEFINE book == [url |-> f.url, outcome |-> f.outcome, side |-> f.side]
    <2>1. book.url = f.url /\ book.outcome = f.outcome /\ book.side = f.side
      OBVIOUS
    <2>2. book # NoBook /\ f.outcome # Unnamed
      <3>1. book \in Books /\ f.outcome # Unnamed
        BY DEF OverlayInv, FlightsAreFlights, OverlayFlights, BooksAreNamed, BookRead, Books
      <3>. QED
        BY <3>1, OverlayAssumption
    <2>3. loaded' = book /\ panel' = Costs(book)
      BY <1>3
    <2>. HIDE DEF book
    <2>4. ~Landed
      BY <1>3 DEF Landed
    <2>5. PanelIsLoaded'
      BY <2>1, <2>2, <2>3, PanelKinds DEF PanelIsLoaded
    <2>. QED
      BY <1>1, <1>3, <2>1, <2>3, <2>4, <2>5 DEF OverlayInv, PageIsPage, FlightsAreFlights, BooksAreNamed, UnreadHasNoBook,
               UrlHolds, OutcomeHolds, SideHolds, IsCurrent
  <1>4. CASE IsCurrent(f) /\ loaded' = NoBook /\ panel' = Message
    <2>1. ~Landed
      BY <1>4 DEF Landed
    <2>2. PanelIsLoaded'
      BY <1>4, PanelKinds DEF PanelIsLoaded
    <2>. QED
      BY <1>1, <1>4, <2>1, <2>2 DEF OverlayInv, PageIsPage, FlightsAreFlights, BooksAreNamed, UnreadHasNoBook,
               UrlHolds, OutcomeHolds, SideHolds, IsCurrent
  <1>. QED
    BY <1>2, <1>3, <1>4 DEF BookRead

\* What moves the page and starts no reload, on a tab in view or not.
Still == UNCHANGED <<generation, flights, loaded, panel>>

LEMMA MovesHold ==
    ASSUME OverlayInv PROVE (Toggle \/ Choose \/ Navigate \/ Render \/ Hide \/ Typed) => OverlayInv'
  <1>2. ASSUME Still PROVE /\ (Landed' <=> Landed) /\ PanelIsLoaded' /\ BooksAreNamed'
                           /\ \A f : IsCurrent(f)' <=> IsCurrent(f)
    BY <1>2 DEF Still, OverlayInv, PanelIsLoaded, BooksAreNamed, Landed, IsCurrent
  <1>3. CASE Toggle
    <2>1. /\ Still /\ UNCHANGED <<hidden, lastUrl, missed, strayed>> /\ clicks' = clicks + 1
          /\ page' = [page EXCEPT !.side = IF page.side = "yes" THEN "no" ELSE "yes"]
          /\ page.side # "none"
      BY <1>3 DEF Toggle, Still
    <2>2. PageIsPage' /\ page'.url = page.url /\ page'.outcome = page.outcome /\ page'.side # "none"
      BY <2>1 DEF OverlayInv, PageIsPage, Sides
    <2>3. clicks' # 0 /\ FlightsAreFlights'
      BY <2>1 DEF OverlayInv, FlightsAreFlights, Still
    <2>. QED
      BY <1>2, <2>1, <2>2, <2>3 DEF OverlayInv, UnreadHasNoBook, UrlHolds, OutcomeHolds, SideHolds, Still
  <1>8. CASE Choose
    <2>1. /\ Still /\ UNCHANGED <<hidden, lastUrl, missed>> /\ clicks' = clicks + 1 /\ strayed'
      BY <1>8 DEF Choose, Still
    <2>2. PICK o \in Selections[page.url] \ {page.outcome}, s \in Sides :
              page' = [page EXCEPT !.outcome = o, !.side = s]
      BY <1>8 DEF Choose
    <2>3. PageIsPage' /\ page'.url = page.url /\ page'.side # "none"
      BY <2>2 DEF OverlayInv, PageIsPage, Outcomes, Sides
    <2>4. clicks' # 0 /\ FlightsAreFlights'
      BY <2>1 DEF OverlayInv, FlightsAreFlights, Still
    <2>. QED
      BY <1>2, <2>1, <2>3, <2>4 DEF OverlayInv, UnreadHasNoBook, UrlHolds, OutcomeHolds, SideHolds, Still
  <1>4. CASE Navigate
    <2>1. /\ Still /\ UNCHANGED <<hidden, lastUrl, clicks, missed, strayed>> /\ lastUrl = page.url
      BY <1>4 DEF Navigate, Still
    <2>2. PICK u \in Urls \ {page.url} : \E o \in Selections[u] :
              page' = [page EXCEPT !.url = u, !.outcome = o]
      BY <1>4 DEF Navigate
    <2>3. PageIsPage' /\ page'.url # page.url /\ page'.side = page.side
      BY <2>2 DEF OverlayInv, PageIsPage, Outcomes
    <2>4. FlightsAreFlights'
      BY <2>1 DEF OverlayInv, FlightsAreFlights, Still
    <2>. QED
      BY <1>2, <2>1, <2>3, <2>4 DEF OverlayInv, UnreadHasNoBook, UrlHolds, OutcomeHolds, SideHolds, Still
  <1>5. CASE Render
    <2>1. /\ Still /\ UNCHANGED <<hidden, lastUrl, clicks>>
          /\ ~missed' => ~missed /\ page'.side = page.side
          /\ ~strayed' => ~strayed /\ page'.outcome = page.outcome
          /\ missed => missed'
      BY <1>5 DEF Render, Still
    <2>2. PICK o \in Selections[page.url], s \in Sides \cup {"none"} :
              page' = [page EXCEPT !.outcome = o, !.side = s]
      BY <1>5 DEF Render
    <2>3. PageIsPage' /\ page'.url = page.url
      BY <2>2 DEF OverlayInv, PageIsPage, Outcomes
    <2>4. FlightsAreFlights'
      BY <2>1 DEF OverlayInv, FlightsAreFlights, Still
    <2>. QED
      BY <1>2, <2>1, <2>3, <2>4 DEF OverlayInv, UnreadHasNoBook, UrlHolds, OutcomeHolds, SideHolds, Still
  <1>6. CASE Hide
    <2>1. Still /\ UNCHANGED <<page, lastUrl, clicks, missed, strayed>> /\ hidden'
      BY <1>6 DEF Hide, Still
    <2>2. FlightsAreFlights' /\ PageIsPage'
      BY <2>1 DEF OverlayInv, FlightsAreFlights, PageIsPage, Still
    <2>. QED
      BY <1>2, <2>1, <2>2 DEF OverlayInv, UnreadHasNoBook, UrlHolds, OutcomeHolds, SideHolds, Still
  <1>7. CASE Typed
    <2>1. /\ UNCHANGED <<page, hidden, lastUrl, clicks, generation, flights, loaded, missed, strayed>>
          /\ loaded # NoBook /\ panel' = Costs(loaded)
      BY <1>7 DEF Typed
    <2>2. PanelIsLoaded'
      BY <2>1, PanelKinds DEF OverlayInv, PanelIsLoaded
    <2>3. PageIsPage' /\ FlightsAreFlights'
      BY <2>1 DEF OverlayInv, PageIsPage, FlightsAreFlights
    <2>4. BooksAreNamed'
      BY <2>1 DEF OverlayInv, BooksAreNamed
    <2>5. UnreadHasNoBook' /\ UrlHolds' /\ OutcomeHolds' /\ SideHolds'
      BY <2>1 DEF OverlayInv, UnreadHasNoBook, UrlHolds, OutcomeHolds, SideHolds, Landed, IsCurrent
    <2>. QED
      BY <2>2, <2>3, <2>4, <2>5 DEF OverlayInv
  <1>. QED
    BY <1>3, <1>4, <1>5, <1>6, <1>7, <1>8

LEMMA ClickHolds == ASSUME OverlayInv, ClickSettles PROVE OverlayInv'
  <1>1. /\ clicks \in Nat /\ clicks > 0 /\ clicks' = clicks - 1 /\ clicks' \in Nat
        /\ UNCHANGED <<page, hidden, lastUrl>>
    BY DEF ClickSettles, OverlayInv, FlightsAreFlights
  <1>2. CASE hidden /\ UNCHANGED <<generation, flights, loaded, panel, missed, strayed>>
    BY <1>1, <1>2 DEF OverlayInv, PageIsPage, FlightsAreFlights, BooksAreNamed, PanelIsLoaded, UnreadHasNoBook, UrlHolds,
             OutcomeHolds, SideHolds, Landed, IsCurrent
  <1>3. CASE SideMoved /\ Reload
    BY <1>1, <1>2, <1>3, ReloadHolds
  <1>4. CASE /\ ~SideMoved /\ UNCHANGED <<generation, flights, loaded, panel, strayed>>
             /\ missed' = (missed \/ \E s \in Sides \ {page.side} : InFlight(s))
    <2>1. (Landed' <=> Landed) /\ \A f : IsCurrent(f)' <=> IsCurrent(f)
      BY <1>4 DEF Landed, IsCurrent
    <2>2. missed => missed'
      BY <1>4
    <2>3. /\ PageIsPage' /\ FlightsAreFlights' /\ BooksAreNamed' /\ PanelIsLoaded'
          /\ UnreadHasNoBook' /\ UrlHolds' /\ OutcomeHolds'
      BY <1>1, <1>4, <2>1, <2>2 DEF OverlayInv, PageIsPage, FlightsAreFlights, BooksAreNamed, PanelIsLoaded,
                  UnreadHasNoBook, UrlHolds, OutcomeHolds
    <2>4. ASSUME ~missed' PROVE /\ \A f \in flights : IsCurrent(f) => f.side = page.side
                                /\ Landed /\ loaded # NoBook => loaded.side = page.side
      <3>1. ~missed /\ ~\E s \in Sides \ {page.side} : InFlight(s)
        BY <1>4, <2>4
      <3>2. \A f \in flights : IsCurrent(f) => f.side = page.side
        BY <3>1 DEF InFlight, OverlayInv, FlightsAreFlights, OverlayFlights
      <3>3. Landed /\ loaded # NoBook => loaded.side = page.side
        BY <1>4, <3>1 DEF SideMoved, OverlayInv, UnreadHasNoBook
      <3>. QED
        BY <3>2, <3>3
    <2>5. SideHolds'
      BY <1>1, <1>4, <2>1, <2>4 DEF SideHolds
    <2>. QED
      BY <2>3, <2>5 DEF OverlayInv
  <1>. QED
    BY <1>3, <1>4 DEF ClickSettles

LEMMA StepOverlay == OverlayInv /\ [OverlayNext]_overlayVars => OverlayInv'
  <1>. SUFFICES ASSUME OverlayInv, [OverlayNext]_overlayVars PROVE OverlayInv'
    OBVIOUS
  <1>1. clicks \in Nat
    BY DEF OverlayInv, FlightsAreFlights
  <1>2. CASE hidden /\ UNCHANGED <<page, hidden, clicks, generation, flights, loaded, panel, missed, strayed>>
    BY <1>2 DEF OverlayInv, PageIsPage, FlightsAreFlights, BooksAreNamed, PanelIsLoaded, UnreadHasNoBook, UrlHolds,
             OutcomeHolds, SideHolds, Landed, IsCurrent
  <1>3. CASE Refresh
    BY <1>1, <1>2, <1>3, ReloadHolds DEF Refresh
  <1>4. CASE Observed
    BY <1>1, <1>2, <1>4, ReloadHolds DEF Observed
  <1>5. CASE Show
    <2>1. Begun /\ UNCHANGED <<page, clicks>>
      BY <1>5 DEF Show, Seen, Begun
    <2>. QED
      BY <1>1, <2>1, BegunHolds DEF OverlayInv, PageIsPage
  <1>6. CASE UNCHANGED overlayVars
    BY <1>6 DEF overlayVars, OverlayInv, PageIsPage, FlightsAreFlights, BooksAreNamed, PanelIsLoaded, UnreadHasNoBook,
             UrlHolds, OutcomeHolds, SideHolds, Landed, IsCurrent
  <1>. QED
    BY <1>3, <1>4, <1>5, <1>6, MovesHold, ClickHolds, IdentifiedHolds, BookHolds DEF OverlayNext

\* However reloads, clicks, navigations and answers overlap: once every watcher has run,
\* the costs on the page are of the address on screen and of an outcome its order panel
\* named, which is the ticket's unless the ticket has gone to another outcome of the event
\* since the newest reload began (nothing watches for that at one address), and of the
\* ticket's side unless it moved unnoticed (apps/extension/src/content.ts, latest.ts;
\* venues.ts: identify).
THEOREM PanelPricesTheTicket == OverlaySpec => []PricesTheTicket
  <1>1. OverlayInit => OverlayInv
    <2>. SUFFICES ASSUME OverlayInit PROVE OverlayInv
      OBVIOUS
    <2>1. PageIsPage /\ clicks = 0 /\ generation = 1 /\ loaded = NoBook
      BY DEF OverlayInit, PageIsPage
    <2>2. PanelIsLoaded
      BY PanelKinds DEF OverlayInit, PanelIsLoaded
    <2>3. CASE page.side = "none"
      <3>1. flights = {}
        BY <2>3 DEF OverlayInit
      <3>. QED
        BY <2>1, <2>2, <3>1 DEF OverlayInv, FlightsAreFlights, BooksAreNamed, UnreadHasNoBook, UrlHolds, OutcomeHolds, SideHolds, Landed
    <2>4. CASE page.side # "none"
      <3> DEFINE new == Flight(1, page)
      <3>1. /\ new \in OverlayFlights /\ new.token = 1 /\ new.at # "book"
            /\ new.url = page.url /\ new.outcome = page.outcome /\ new.side = page.side
        BY <2>1, <2>4 DEF Flight, OverlayFlights, PageIsPage
      <3>2. flights = {new}
        BY <2>4 DEF OverlayInit
      <3>. HIDE DEF new
      <3>3. ~Landed
        BY <2>1, <3>1, <3>2 DEF Landed, IsCurrent
      <3>. QED
        BY <2>1, <2>2, <2>4, <3>1, <3>2, <3>3
           DEF OverlayInv, PageIsPage, FlightsAreFlights, BooksAreNamed, UnreadHasNoBook, UrlHolds, OutcomeHolds, SideHolds
    <2>. QED
      BY <2>3, <2>4
  <1>2. OverlayInv => PricesTheTicket
    BY DEF OverlayInv, PricesTheTicket, Settled, PanelIsLoaded, UrlHolds, OutcomeHolds, SideHolds, Landed
  <1>. QED
    BY <1>1, <1>2, StepOverlay, PTL DEF OverlaySpec

-----------------------------------------------------------------------------
(* Publication to the repository.                                           *)

Commits == \E S : main \in Seq(S) /\ Len(main) > 0
RunsAreRuns ==
    /\ runs = [r \in Runs |-> runs[r]]
    /\ \A r \in Runs : /\ DOMAIN runs[r] = {"pc", "sha", "attempt", "wanted", "built"}
                       /\ runs[r].attempt \in Nat /\ runs[r].built \in Nat
                       /\ runs[r].pc # "none" => runs[r].sha \in 1..Len(main)
                                               /\ runs[r].attempt > 0
                       /\ runs[r].pc = "none" => runs[r].attempt = 0

\* What a candidate of a run names is what the run's commit holds, and main only grows.
Names(p, r, n) == /\ p.snapshot = Candidate(r, n)
                  /\ p = [snapshot |-> p.snapshot, code |-> Checkout(r).code,
                          parent |-> Checkout(r).snapshot]
PedigreeIsTrue ==
    \A p \in pedigree : \E r \in Runs, n \in Nat : Names(p, r, n) /\ runs[r].pc # "none"

\* A run that has been verified built its candidate in this very attempt.
VerifiedIsBuilt ==
    \A r \in Runs : runs[r].pc \in {"verified", "confirmed"} =>
        /\ runs[r].built = runs[r].attempt
        /\ \E p \in pedigree : p.snapshot = Candidate(r, runs[r].built)

\* What main has published of a run was built by an attempt that is over.
Over(r, n) == n < runs[r].attempt \/ (n = runs[r].attempt /\ runs[r].pc \in RunEnded)
PublishedIsOver ==
    \A j \in 1..Len(main) : \/ main[j].snapshot = Genesis
                            \/ \E r \in Runs, n \in Nat : main[j].snapshot = Candidate(r, n) /\ Over(r, n)

PublicationInv == /\ Commits /\ RunsAreRuns /\ PedigreeIsTrue /\ VerifiedIsBuilt
                  /\ PublishedIsOver /\ PublicationsChain

LEMMA CandidatesDiffer ==
    /\ \A r, n : Candidate(r, n).run = r /\ Candidate(r, n).attempt = n
    /\ \A r, n : n # 0 => Candidate(r, n) # Genesis
  <1>1. \A r, n : Candidate(r, n).run = r /\ Candidate(r, n).attempt = n
    BY DEF Candidate
  <1>2. Genesis.attempt = 0
    BY DEF Genesis
  <1>. QED
    BY <1>1, <1>2

\* A commit of main is added at its end.
LEMMA OneMoreCommit ==
    ASSUME Commits, NEW c, main' = Append(main, c)
    PROVE  /\ Commits' /\ Len(main) \in Nat /\ Len(main)' = Len(main) + 1
           /\ \A i \in 1..Len(main) : main'[i] = main[i]
           /\ main'[Len(main) + 1] = c
           /\ DOMAIN main = 1..Len(main) /\ DOMAIN main' = 1..(Len(main) + 1)
  <1>1. PICK S : main \in Seq(S) /\ Len(main) > 0
    BY DEF Commits
  <1>2. main \in Seq(S \cup {c}) /\ c \in S \cup {c}
    BY <1>1
  <1>3. main' \in Seq(S \cup {c}) /\ Len(main)' = Len(main) + 1
    BY <1>2
  <1>. QED
    BY <1>1, <1>2, <1>3 DEF Commits

LEMMA CommitsAreNumbered == Commits => Len(main) \in Nat /\ Len(main) > 0 /\ DOMAIN main = 1..Len(main)
  BY DEF Commits

\* Steps of the runs only: no commit, and no candidate is withdrawn.
RunStep ==
    /\ main' = main /\ pedigree' = pedigree
    /\ \A r \in Runs : runs[r].pc # "none" => runs'[r].pc # "none" /\ runs'[r].sha = runs[r].sha
    /\ \A r \in Runs, n \in Nat : Over(r, n) => Over(r, n)'

LEMMA RunStepHolds ==
    ASSUME PublicationInv, RunStep, RunsAreRuns', VerifiedIsBuilt' PROVE PublicationInv'
  <1>1. PedigreeIsTrue'
    BY DEF PublicationInv, RunStep, PedigreeIsTrue, Names, Checkout
  <1>2. PublishedIsOver'
    BY DEF PublicationInv, RunStep, PublishedIsOver
  <1>3. Commits' /\ PublicationsChain'
    BY DEF PublicationInv, RunStep, Commits, PublicationsChain
  <1>. QED
    BY <1>1, <1>2, <1>3 DEF PublicationInv

\* A run joins the queue, and the one that waited there is cancelled.
LEMMA QueueHolds ==
    ASSUME PublicationInv, NEW r \in Runs, NEW run, runs' = Enqueued(r, run),
           UNCHANGED <<main, pedigree>>, runs[r].pc \in {"none"} \cup RunEnded,
           DOMAIN run = {"pc", "sha", "attempt", "wanted", "built"},
           run.pc = "queued", run.attempt = runs[r].attempt + 1, run.built \in Nat,
           run.sha \in 1..Len(main), runs[r].pc # "none" => run.sha = runs[r].sha
    PROVE  PublicationInv'
  <1>1. /\ runs'[r] = run
        /\ \A s \in Runs \ {r} : runs'[s] = IF runs[s].pc = "queued" THEN [runs[s] EXCEPT !.pc = "failed"] ELSE runs[s]
        /\ runs' = [s \in Runs |-> runs'[s]]
    BY DEF Enqueued
  <1>2. \A s \in Runs \ {r} :
          /\ DOMAIN runs'[s] = DOMAIN runs[s]
          /\ runs'[s].pc = IF runs[s].pc = "queued" THEN "failed" ELSE runs[s].pc
          /\ runs'[s].sha = runs[s].sha /\ runs'[s].attempt = runs[s].attempt /\ runs'[s].built = runs[s].built
    BY <1>1 DEF PublicationInv, RunsAreRuns
  <1>3. RunsAreRuns'
    BY <1>1, <1>2 DEF PublicationInv, RunsAreRuns
  <1>4. VerifiedIsBuilt'
    BY <1>1, <1>2 DEF PublicationInv, VerifiedIsBuilt
  <1>5. \A s \in Runs, n \in Nat : Over(s, n) => Over(s, n)'
    <2>1. ASSUME NEW n \in Nat, Over(r, n) PROVE Over(r, n)'
      BY <1>1, <2>1 DEF Over, PublicationInv, RunsAreRuns
    <2>2. ASSUME NEW s \in Runs \ {r}, NEW n \in Nat, Over(s, n) PROVE Over(s, n)'
      BY <1>2, <2>2 DEF Over, RunEnded
    <2>. QED
      BY <2>1, <2>2
  <1>6. RunStep
    BY <1>1, <1>2, <1>5 DEF RunStep
  <1>. QED
    BY <1>3, <1>4, <1>6, RunStepHolds

LEMMA DispatchHolds == ASSUME PublicationInv, NEW r \in Runs, Dispatch(r) PROVE PublicationInv'
  <1>1. PICK wanted \in BOOLEAN :
          runs' = Enqueued(r, [Fresh EXCEPT !.pc = "queued", !.sha = Len(main),
                                            !.attempt = 1, !.wanted = wanted])
    BY DEF Dispatch
  <1> DEFINE run == [Fresh EXCEPT !.pc = "queued", !.sha = Len(main), !.attempt = 1, !.wanted = wanted]
  <1>2. DOMAIN Fresh = {"pc", "sha", "attempt", "wanted", "built"} /\ Fresh.built = 0
    BY Zenon DEF Fresh
  <1>3. /\ DOMAIN run = {"pc", "sha", "attempt", "wanted", "built"} /\ run.pc = "queued"
        /\ run.attempt = 1 /\ run.built = 0 /\ run.sha = Len(main)
    BY <1>2
  <1>4. runs' = Enqueued(r, run) /\ runs[r].pc = "none" /\ runs[r].attempt = 0 /\ UNCHANGED <<main, pedigree>>
    BY <1>1 DEF Dispatch, PublicationInv, RunsAreRuns
  <1>. HIDE DEF run
  <1>5. Len(main) \in 1..Len(main)
    BY CommitsAreNumbered DEF PublicationInv
  <1>. QED
    BY <1>3, <1>4, <1>5, QueueHolds

LEMMA RerunHolds == ASSUME PublicationInv, NEW r \in Runs, Rerun(r) PROVE PublicationInv'
  <1>1. PICK built \in {0, runs[r].built} :
          runs' = Enqueued(r, [runs[r] EXCEPT !.pc = "queued", !.attempt = @ + 1, !.built = built])
    BY DEF Rerun
  <1> DEFINE run == [runs[r] EXCEPT !.pc = "queued", !.attempt = @ + 1, !.built = built]
  <1>2. /\ DOMAIN run = {"pc", "sha", "attempt", "wanted", "built"} /\ run.pc = "queued"
        /\ run.attempt = runs[r].attempt + 1 /\ run.built \in Nat /\ run.sha = runs[r].sha
    BY DEF PublicationInv, RunsAreRuns
  <1>3. runs' = Enqueued(r, run) /\ runs[r].pc \in RunEnded /\ UNCHANGED <<main, pedigree>>
    BY <1>1 DEF Rerun
  <1>. HIDE DEF run
  <1>4. run.sha \in 1..Len(main)
    BY <1>2, <1>3 DEF PublicationInv, RunsAreRuns, RunEnded
  <1>. QED
    BY <1>2, <1>3, <1>4, QueueHolds

\* A run goes from one state of its jobs to another.
Goes(r, pc) ==
    /\ runs' = [runs EXCEPT ![r].pc = pc]
    /\ UNCHANGED <<main, pedigree>>
    /\ pc # "none" /\ runs[r].pc # "none" /\ (runs[r].pc \in RunEnded => pc \in RunEnded)
    /\ pc = "verified" => Verified(r)
    /\ pc = "confirmed" => runs[r].pc = "verified"

LEMMA GoesHolds == ASSUME PublicationInv, NEW r \in Runs, NEW pc, Goes(r, pc) PROVE PublicationInv'
  <1>1. /\ runs'[r].pc = pc /\ runs'[r].sha = runs[r].sha /\ runs'[r].attempt = runs[r].attempt
        /\ runs'[r].built = runs[r].built /\ DOMAIN runs'[r] = DOMAIN runs[r]
        /\ \A s \in Runs \ {r} : runs'[s] = runs[s]
        /\ runs' = [s \in Runs |-> runs'[s]]
    BY DEF Goes, PublicationInv, RunsAreRuns
  <1>2. RunsAreRuns'
    BY <1>1 DEF Goes, PublicationInv, RunsAreRuns
  <1>3. VerifiedIsBuilt'
    BY <1>1 DEF Goes, PublicationInv, VerifiedIsBuilt, Verified
  <1>4. RunStep
    BY <1>1 DEF Goes, RunStep, Over
  <1>. QED
    BY <1>2, <1>3, <1>4, RunStepHolds

LEMMA ResearchHolds == ASSUME PublicationInv, NEW r \in Runs, Research(r) PROVE PublicationInv'
  <1>1. PICK pc \in {"handed", "done"} :
          runs' = [runs EXCEPT ![r].pc = pc, ![r].built = runs[r].attempt]
    BY DEF Research
  <1>2. main' = main /\ runs[r].pc = "research"
    BY DEF Research
  <1>3. /\ runs'[r].pc = pc /\ runs'[r].sha = runs[r].sha /\ runs'[r].attempt = runs[r].attempt
        /\ runs'[r].built = runs[r].attempt /\ DOMAIN runs'[r] = DOMAIN runs[r]
        /\ \A s \in Runs \ {r} : runs'[s] = runs[s]
        /\ runs' = [s \in Runs |-> runs'[s]]
    BY <1>1 DEF PublicationInv, RunsAreRuns
  <1> DEFINE new == [snapshot |-> Candidate(r, runs[r].attempt), code |-> Checkout(r).code,
                     parent |-> Checkout(r).snapshot]
  <1>4. pedigree' = pedigree \cup {new}
    BY DEF Research
  <1>5. Names(new, r, runs[r].attempt)
    BY DEF Names
  <1>. HIDE DEF new
  <1>6. RunsAreRuns'
    BY <1>2, <1>3 DEF PublicationInv, RunsAreRuns
  <1>7. \A s \in Runs : runs'[s].sha = runs[s].sha /\ (runs[s].pc # "none" => runs'[s].pc # "none")
    BY <1>3
  <1>8. PedigreeIsTrue'
    <2>1. \A p, s, n : s \in Runs => (Names(p, s, n)' <=> Names(p, s, n))
      BY <1>2, <1>7 DEF Names, Checkout
    <2>2. runs[r].attempt \in Nat
      BY DEF PublicationInv, RunsAreRuns
    <2>. QED
      BY <1>2, <1>4, <1>5, <1>7, <2>1, <2>2 DEF PublicationInv, PedigreeIsTrue
  <1>9. VerifiedIsBuilt'
    <2>1. ASSUME NEW s \in Runs, runs'[s].pc \in {"verified", "confirmed"}
          PROVE  s # r
      BY <1>3, <2>1
    <2>2. ASSUME NEW s \in Runs \ {r}, runs[s].pc \in {"verified", "confirmed"}
          PROVE  /\ runs[s].built = runs[s].attempt
                 /\ \E p \in pedigree' : p.snapshot = Candidate(s, runs[s].built)
      BY <1>4, <2>2 DEF PublicationInv, VerifiedIsBuilt
    <2>. QED
      BY <1>3, <2>1, <2>2 DEF VerifiedIsBuilt
  <1>10. PublishedIsOver'
    <2>1. \A s \in Runs, n \in Nat : Over(s, n) => Over(s, n)'
      BY <1>2, <1>3 DEF Over, RunEnded
    <2>. QED
      BY <1>2, <2>1 DEF PublicationInv, PublishedIsOver
  <1>11. Commits' /\ PublicationsChain'
    BY <1>2, <1>4 DEF PublicationInv, Commits, PublicationsChain
  <1>. QED
    BY <1>6, <1>8, <1>9, <1>10, <1>11 DEF PublicationInv

\* A commit more, which is all that a push or a person changes of main.
Grows(n, c) == /\ Commits' /\ n \in Nat /\ Len(main) = n /\ Len(main)' = n + 1
               /\ \A i \in 1..n : main'[i] = main[i]
               /\ main'[n + 1] = c
               /\ DOMAIN main = 1..n /\ DOMAIN main' = 1..(n + 1)

\* The push that arrives: the commit it appends, on the very commit of its checkout.
LEMMA PushHolds ==
    ASSUME PublicationInv, NEW r \in Runs, runs[r].pc = "confirmed", MainUnmoved(r),
           NEW n, NEW c, Grows(n, c),
           c.code = main[n].code, c.snapshot = Candidate(r, runs[r].built),
           runs' = [runs EXCEPT ![r].pc = "pushed"], pedigree' = pedigree
    PROVE  PublicationInv'
  <1>0. n = Len(main)
    BY DEF Grows
  <1>1. c.code = main[n].code /\ c.snapshot = Candidate(r, runs[r].built)
    OBVIOUS
  <1>3. /\ Commits' /\ n \in Nat /\ Len(main)' = n + 1
        /\ \A i \in 1..n : main'[i] = main[i]
        /\ main'[n + 1] = c
        /\ DOMAIN main = 1..n /\ DOMAIN main' = 1..(n + 1)
    BY DEF Grows
  <1>4. /\ runs[r].built = runs[r].attempt /\ runs[r].attempt \in Nat /\ runs[r].attempt > 0
        /\ runs[r].sha = n /\ n \in 1..n
    BY <1>0 DEF PublicationInv, VerifiedIsBuilt, RunsAreRuns, MainUnmoved
  <1>5. /\ \A s \in Runs \ {r} : runs'[s] = runs[s]
        /\ runs'[r].pc = "pushed" /\ runs'[r].sha = runs[r].sha /\ runs'[r].attempt = runs[r].attempt
        /\ runs'[r].built = runs[r].built /\ DOMAIN runs'[r] = DOMAIN runs[r]
        /\ runs' = [s \in Runs |-> runs'[s]]
    BY DEF PublicationInv, RunsAreRuns
  <1>6. RunsAreRuns'
    <2>1. Len(main)' = n + 1
      BY <1>3
    <2>. QED
      BY <1>0, <1>3, <1>5, <2>1 DEF PublicationInv, RunsAreRuns
  <1>7. VerifiedIsBuilt'
    BY <1>5 DEF PublicationInv, VerifiedIsBuilt
  <1>8. PedigreeIsTrue'
    <2>1. \A s \in Runs : runs[s].pc # "none" => main'[runs'[s].sha] = main[runs[s].sha] /\ runs'[s].pc # "none"
      BY <1>0, <1>3, <1>5 DEF PublicationInv, RunsAreRuns
    <2>. QED
      BY <2>1 DEF PublicationInv, PedigreeIsTrue, Names, Checkout
  <1>9. PublishedIsOver'
    <2>1. \A s \in Runs, m \in Nat : Over(s, m) => Over(s, m)'
      BY <1>5 DEF Over, RunEnded
    <2>2. Over(r, runs[r].built)'
      BY <1>4, <1>5 DEF Over, RunEnded
    <2>3. ASSUME NEW j \in 1..n
          PROVE  \/ main'[j].snapshot = Genesis
                 \/ \E s \in Runs, m \in Nat : main'[j].snapshot = Candidate(s, m) /\ Over(s, m)'
      BY <1>0, <1>3, <2>1 DEF PublicationInv, PublishedIsOver
    <2>4. \E s \in Runs, m \in Nat : main'[n + 1].snapshot = Candidate(s, m) /\ Over(s, m)'
      BY <1>1, <1>3, <1>4, <2>2
    <2>. QED
      BY <1>3, <2>3, <2>4 DEF PublishedIsOver
  <1>10. PublicationsChain'
    <2>1. PICK p \in pedigree : p.snapshot = Candidate(r, runs[r].built)
      BY DEF PublicationInv, VerifiedIsBuilt
    <2>2. PICK s \in Runs, m \in Nat : Names(p, s, m)
      BY DEF PublicationInv, PedigreeIsTrue
    <2>3. s = r
      <3>1. Candidate(s, m) = Candidate(r, runs[r].built)
        BY <2>1, <2>2 DEF Names
      <3>. QED
        BY <3>1, CandidatesDiffer
    <2>4. p = [snapshot |-> c.snapshot, code |-> c.code, parent |-> main[n].snapshot]
      BY <1>1, <1>4, <2>1, <2>2, <2>3 DEF Names, Checkout
    <2>5. \A j \in 1..n : main[j].snapshot # c.snapshot
      <3>1. SUFFICES ASSUME NEW j \in 1..n, main[j].snapshot = c.snapshot PROVE FALSE
        OBVIOUS
      <3>2. main[j].snapshot # Genesis
        BY <1>1, <1>4, <3>1, CandidatesDiffer
      <3>3. PICK q \in Runs, k \in Nat : main[j].snapshot = Candidate(q, k) /\ Over(q, k)
        BY <1>0, <1>3, <3>1, <3>2 DEF PublicationInv, PublishedIsOver
      <3>4. Candidate(q, k) = Candidate(r, runs[r].built)
        BY <1>1, <3>1, <3>3
      <3>5. q = r /\ k = runs[r].built
        BY <3>4, CandidatesDiffer
      <3>. QED
        BY <1>4, <3>3, <3>5 DEF Over, RunEnded
    <2>6. ASSUME NEW i \in 1..(n + 1), main'[i].published
          PROVE  /\ i > 1
                 /\ [snapshot |-> main'[i].snapshot, code |-> main'[i].code,
                     parent |-> main'[i - 1].snapshot] \in pedigree'
                 /\ \A j \in 1..(i - 1) : main'[j].snapshot # main'[i].snapshot
      <3>1. CASE i = n + 1
        BY <1>3, <1>4, <2>4, <2>5, <3>1
      <3>2. CASE i # n + 1
        <4>1. i \in 1..n /\ i \in DOMAIN main /\ main[i].published
          BY <1>3, <2>6, <3>2
        <4>2. /\ i > 1
              /\ [snapshot |-> main[i].snapshot, code |-> main[i].code,
                  parent |-> main[i - 1].snapshot] \in pedigree
              /\ \A j \in 1..(i - 1) : main[j].snapshot # main[i].snapshot
          BY <4>1 DEF PublicationInv, PublicationsChain
        <4>3. main'[i - 1] = main[i - 1] /\ main'[i] = main[i] /\ \A j \in 1..(i - 1) : main'[j] = main[j]
          BY <1>3, <4>1, <4>2
        <4>. QED
          BY <4>2, <4>3
      <3>. QED
        BY <3>1, <3>2
    <2>. QED
      BY <1>3, <2>6 DEF PublicationsChain
  <1>. QED
    BY <1>3, <1>6, <1>7, <1>8, <1>9, <1>10 DEF PublicationInv

LEMMA AppendGrows ==
    ASSUME Commits, NEW c, main' = Append(main, c) PROVE Grows(Len(main), c)
  BY OneMoreCommit DEF Grows

LEMMA PushStepHolds == ASSUME PublicationInv, NEW r \in Runs, Push(r) PROVE PublicationInv'
  <1>1. pedigree' = pedigree /\ runs[r].pc = "confirmed"
    BY DEF Push
  <1>2. CASE Sound(Checkout(r)) /\ MainUnmoved(r)
    <2> DEFINE c == Commit(main[Len(main)].code, Candidate(r, runs[r].built), Packed, TRUE)
    <2>1. c.code = main[Len(main)].code /\ c.snapshot = Candidate(r, runs[r].built)
      BY DEF Commit
    <2>2. main' = Append(main, c) /\ runs' = [runs EXCEPT ![r].pc = "pushed"]
      BY <1>2 DEF Push
    <2>. HIDE DEF c
    <2>3. Grows(Len(main), c)
      BY <2>2, AppendGrows DEF PublicationInv
    <2>. QED
      BY <1>1, <1>2, <2>1, <2>2, <2>3, PushHolds
  <1>3. CASE ~(Sound(Checkout(r)) /\ MainUnmoved(r))
    <2>1. Goes(r, "failed")
      BY <1>1, <1>3 DEF Push, Goes, RunEnded
    <2>. QED
      BY <2>1, GoesHolds
  <1>. QED
    BY <1>2, <1>3

\* What people push: a snapshot main has had.
LEMMA PersonHolds ==
    ASSUME PublicationInv, NEW n, NEW c, Grows(n, c), NEW i \in DOMAIN main,
           c.snapshot = main[i].snapshot, ~c.published, UNCHANGED <<runs, pedigree>>
    PROVE  PublicationInv'
  <1>1. /\ Commits' /\ n \in Nat /\ Len(main) = n /\ Len(main)' = n + 1
        /\ \A j \in 1..n : main'[j] = main[j]
        /\ main'[n + 1] = c
        /\ DOMAIN main = 1..n /\ DOMAIN main' = 1..(n + 1) /\ i \in 1..n
    BY DEF Grows
  <1>2. RunsAreRuns' /\ VerifiedIsBuilt'
    BY <1>1 DEF PublicationInv, RunsAreRuns, VerifiedIsBuilt
  <1>3. PedigreeIsTrue'
    <2>1. \A s \in Runs : runs[s].pc # "none" => main'[runs'[s].sha] = main[runs[s].sha]
      BY <1>1 DEF PublicationInv, RunsAreRuns
    <2>. QED
      BY <2>1 DEF PublicationInv, PedigreeIsTrue, Names, Checkout
  <1>4. PublishedIsOver'
    <2>1. \A s \in Runs, m \in Nat : Over(s, m)' <=> Over(s, m)
      BY DEF Over
    <2>2. ASSUME NEW j \in 1..(n + 1) PROVE \E k \in 1..n : main'[j].snapshot = main[k].snapshot
      BY <1>1, <2>2
    <2>3. ASSUME NEW j \in 1..(n + 1)
          PROVE  \/ main'[j].snapshot = Genesis
                 \/ \E r \in Runs, m \in Nat : main'[j].snapshot = Candidate(r, m) /\ Over(r, m)'
      <3>1. PICK k \in 1..n : main'[j].snapshot = main[k].snapshot
        BY <2>2
      <3>2. \/ main[k].snapshot = Genesis
            \/ \E r \in Runs, m \in Nat : main[k].snapshot = Candidate(r, m) /\ Over(r, m)
        BY <1>1 DEF PublicationInv, PublishedIsOver
      <3>. QED
        BY <2>1, <3>1, <3>2, Zenon
    <2>. QED
      BY <1>1, <2>3, Zenon DEF PublishedIsOver, Candidate
  <1>5. PublicationsChain'
    <2>1. ASSUME NEW j \in 1..(n + 1), main'[j].published
          PROVE  /\ j > 1
                 /\ [snapshot |-> main'[j].snapshot, code |-> main'[j].code,
                     parent |-> main'[j - 1].snapshot] \in pedigree'
                 /\ \A k \in 1..(j - 1) : main'[k].snapshot # main'[j].snapshot
      <3>1. j \in 1..n /\ j \in DOMAIN main /\ main[j].published
        BY <1>1, <2>1
      <3>2. /\ j > 1
            /\ [snapshot |-> main[j].snapshot, code |-> main[j].code,
                parent |-> main[j - 1].snapshot] \in pedigree
            /\ \A k \in 1..(j - 1) : main[k].snapshot # main[j].snapshot
        BY <3>1 DEF PublicationInv, PublicationsChain
      <3>3. main'[j - 1] = main[j - 1] /\ main'[j] = main[j] /\ \A k \in 1..(j - 1) : main'[k] = main[k]
        BY <1>1, <3>1, <3>2
      <3>. QED
        BY <3>2, <3>3
    <2>. QED
      BY <1>1, <2>1 DEF PublicationsChain
  <1>. QED
    BY <1>1, <1>2, <1>3, <1>4, <1>5 DEF PublicationInv

LEMMA PeopleHold == ASSUME PublicationInv, People PROVE PublicationInv'
  <1>1. PICK i \in DOMAIN main :
          main' = Append(main, Commit(IF i = Len(main) THEN main[Len(main)].code + 1 ELSE main[Len(main)].code,
                                      main[i].snapshot, main[i].files, FALSE))
    BY DEF People
  <1>2. PICK c : c.snapshot = main[i].snapshot /\ ~c.published /\ main' = Append(main, c)
    <2> DEFINE d == Commit(IF i = Len(main) THEN main[Len(main)].code + 1 ELSE main[Len(main)].code,
                           main[i].snapshot, main[i].files, FALSE)
    <2>1. d.snapshot = main[i].snapshot
      BY DEF Commit
    <2>2. ~d.published
      BY Zenon DEF Commit
    <2>. QED
      BY <1>1, <2>1, <2>2, Zenon
  <1>3. PICK n : n = Len(main)
    OBVIOUS
  <1>4. Grows(n, c)
    BY <1>2, <1>3, AppendGrows DEF PublicationInv
  <1>5. runs' = runs /\ pedigree' = pedigree /\ i \in DOMAIN main
    BY <1>1 DEF People
  <1>. QED
    BY <1>2, <1>4, <1>5, PersonHolds

\* However runs are dispatched, repeated, cancelled and overtaken by people: a snapshot
\* is published on the commit it was computed from, once (.github/workflows/pipeline.yml,
\* scripts/verify_candidate.py).
THEOREM PublicationsFormAChain == PublicationSpec => []PublicationsChain
  <1>1. PublicationInit => PublicationInv
    <2>. SUFFICES ASSUME PublicationInit PROVE PublicationInv
      OBVIOUS
    <2> DEFINE c == Commit(1, Genesis, Legacy, FALSE)
    <2>1. c.snapshot = Genesis
      BY DEF Commit
    <2>2. ~c.published
      BY Zenon DEF Commit
    <2>3. main = <<c>>
      BY DEF PublicationInit
    <2>. HIDE DEF c
    <2>4. Commits /\ Len(main) = 1 /\ main[1] = c /\ DOMAIN main = 1..1
      <3>0. 1 > 0
        OBVIOUS
      <3>1. main \in Seq({c})
        BY <2>3
      <3>2. Len(main) = 1 /\ main[1] = c /\ DOMAIN main = 1..1
        BY <2>3
      <3>. QED
        BY <3>0, <3>1, <3>2, Zenon DEF Commits
    <2>5. \A r \in Runs : /\ runs[r].pc = "none" /\ runs[r].attempt = 0 /\ runs[r].built = 0
                         /\ DOMAIN runs[r] = {"pc", "sha", "attempt", "wanted", "built"}
      <3>1. Fresh.pc = "none" /\ Fresh.attempt = 0 /\ Fresh.built = 0
            /\ DOMAIN Fresh = {"pc", "sha", "attempt", "wanted", "built"}
        BY Zenon DEF Fresh
      <3>. QED
        BY <3>1 DEF PublicationInit
    <2>6. RunsAreRuns
      BY <2>5 DEF PublicationInit, RunsAreRuns
    <2>7. PublishedIsOver /\ PublicationsChain
      BY <2>1, <2>2, <2>4 DEF PublishedIsOver, PublicationsChain
    <2>. QED
      BY <2>4, <2>5, <2>6, <2>7 DEF PublicationInit, PublicationInv, PedigreeIsTrue, VerifiedIsBuilt
  <1>2. PublicationInv /\ [PublicationNext]_publicationVars => PublicationInv'
    <2>. SUFFICES ASSUME PublicationInv, [PublicationNext]_publicationVars PROVE PublicationInv'
      OBVIOUS
    <2>1. ASSUME NEW r \in Runs, Start(r) PROVE PublicationInv'
      <3>1. PICK pc \in {"research", "handed"} : Goes(r, pc)
        BY <2>1 DEF Start, Goes, RunEnded
      <3>. QED
        BY <3>1, GoesHolds
    <2>2. ASSUME NEW r \in Runs, Breaks(r) PROVE PublicationInv'
      <3>1. Goes(r, "failed")
        BY <2>2 DEF Breaks, Goes, RunEnded, Active
      <3>. QED
        BY <3>1, GoesHolds
    <2>3. ASSUME NEW r \in Runs, Revalidate(r) PROVE PublicationInv'
      <3>1. PICK pc \in {"verified", "failed"} : Goes(r, pc)
        BY <2>3 DEF Revalidate, Goes, RunEnded
      <3>. QED
        BY <3>1, GoesHolds
    <2>4. ASSUME NEW r \in Runs, ConfirmMain(r) PROVE PublicationInv'
      <3>1. PICK pc \in {"confirmed", "failed"} : Goes(r, pc)
        BY <2>4 DEF ConfirmMain, Goes, RunEnded
      <3>. QED
        BY <3>1, GoesHolds
    <2>5. ASSUME NEW r \in Runs, PushUnreported(r) PROVE PublicationInv'
      <3>1. Goes(r, "failed")
        BY <2>5 DEF PushUnreported, Goes, RunEnded
      <3>. QED
        BY <3>1, GoesHolds
    <2>6. CASE UNCHANGED publicationVars
      BY <2>6 DEF publicationVars, PublicationInv, Commits, RunsAreRuns, PedigreeIsTrue, Names, Checkout,
               VerifiedIsBuilt, PublishedIsOver, Over, PublicationsChain
    <2>. QED
      BY <2>1, <2>2, <2>3, <2>4, <2>5, <2>6, DispatchHolds, RerunHolds, ResearchHolds, PushStepHolds, PeopleHold
         DEF PublicationNext
  <1>3. PublicationInv => PublicationsChain
    BY DEF PublicationInv
  <1>. QED
    BY <1>1, <1>2, <1>3, PTL DEF PublicationSpec

-----------------------------------------------------------------------------
(* Cross-venue matching.                                                     *)

\* The levels of the checks that fail, as Level takes them.
Demotions(s, t) == {c[1] : c \in {k \in Checks(s, t) : k[2]}}

LEMMA FailedLevels == \A s, t : Demotions(s, t) \subseteq {EQUIVALENT, SIMILAR, INCOMPATIBLE}
<1> SUFFICES ASSUME NEW s, NEW t, NEW c \in Checks(s, t)
             PROVE c[1] \in {EQUIVALENT, SIMILAR, INCOMPATIBLE}
  BY Zenon DEF Demotions
<1>1. \E b : c = <<INCOMPATIBLE, b>> \/ c = <<SIMILAR, b>> \/ c = <<EQUIVALENT, b>>
  BY ZenonT(60) DEF Checks
<1>2. c[1] = INCOMPATIBLE \/ c[1] = SIMILAR \/ c[1] = EQUIVALENT
  BY <1>1
<1> QED
  BY <1>2

LEMMA LevelIs == \A s, t : Level(s, t) =
    IF Demotions(s, t) = {} THEN (IF Digest(s) = Digest(t) THEN IDENTICAL ELSE EQUIVALENT)
    ELSE Max(Demotions(s, t))
  BY DEF Level, Demotions

\* A check that fails counts.
LEMMA StrikeChecks ==
    \A s, t : ~SameContest(s, t) /\ (ThresholdsDiffer(s, t) \/ ~ComparatorsMatch(s, t)) =>
        INCOMPATIBLE \in Demotions(s, t)
<1> SUFFICES ASSUME NEW s, NEW t, ~SameContest(s, t),
                    ThresholdsDiffer(s, t) \/ ~ComparatorsMatch(s, t)
             PROVE INCOMPATIBLE \in Demotions(s, t)
  OBVIOUS
<1>1. PICK c \in Checks(s, t) : c[1] = INCOMPATIBLE /\ c[2]
  BY Zenon DEF Checks
<1> QED
  BY <1>1, Zenon DEF Demotions

LEMMA GreatestLevel ==
    ASSUME NEW S, S \subseteq {EQUIVALENT, SIMILAR, INCOMPATIBLE}, S # {}
    PROVE  Max(S) \in S /\ \A y \in S : Max(S) >= y
<1>1. \E x \in S : \A y \in S : x >= y
  <2>1. CASE INCOMPATIBLE \in S
    BY <2>1 DEF EQUIVALENT, SIMILAR, INCOMPATIBLE
  <2>2. CASE INCOMPATIBLE \notin S /\ SIMILAR \in S
    BY <2>2 DEF EQUIVALENT, SIMILAR, INCOMPATIBLE
  <2>3. CASE INCOMPATIBLE \notin S /\ SIMILAR \notin S
    <3>1. S = {EQUIVALENT}
      BY <2>3, Zenon
    <3> QED
      BY <3>1 DEF EQUIVALENT
  <2> QED
    BY <2>1, <2>2, <2>3
<1> QED
  BY <1>1, Zenon DEF Max

\* Below the last level the strikes agree; at the first, every digested term does.
LEMMA LevelsMean ==
    \A s, t :
      /\ Level(s, t) \in 0..3
      /\ Level(s, t) = IDENTICAL => Digest(s) = Digest(t)
      /\ Level(s, t) # INCOMPATIBLE /\ ~SameContest(s, t) =>
            ~ThresholdsDiffer(s, t) /\ ComparatorsMatch(s, t)
<1> SUFFICES ASSUME NEW s, NEW t
             PROVE  /\ Level(s, t) \in 0..3
                    /\ Level(s, t) = IDENTICAL => Digest(s) = Digest(t)
                    /\ INCOMPATIBLE \in Demotions(s, t) => Level(s, t) = INCOMPATIBLE
  BY StrikeChecks
<1>1. CASE Demotions(s, t) = {}
  BY <1>1, LevelIs DEF IDENTICAL, EQUIVALENT
<1>2. CASE Demotions(s, t) # {}
  <2>1. Level(s, t) = Max(Demotions(s, t))
    BY <1>2, LevelIs
  <2>2. Level(s, t) \in Demotions(s, t) /\ \A y \in Demotions(s, t) : Level(s, t) >= y
    BY <1>2, <2>1, FailedLevels, GreatestLevel
  <2>3. Level(s, t) \in {EQUIVALENT, SIMILAR, INCOMPATIBLE}
    BY <2>2, FailedLevels
  <2> QED
    BY <2>2, <2>3 DEF IDENTICAL, EQUIVALENT, SIMILAR, INCOMPATIBLE
<1> QED
  BY <1>1, <1>2

LEMMA RowParts ==
    \A s, t : /\ Row(s, t).level = Level(s, t)
              /\ Row(s, t).verdict = Verdict(s, t)
              /\ Row(s, t).inverted = Inverts(s, t)
  BY Zenon DEF Row

\* A strict verdict is of two like contracts, none of them a contest.
LEMMA StrictMeans ==
    ASSUME NEW s, NEW t, Verdict(s, t) = "VERIFIED_EQUIVALENT_STRICT"
    PROVE  /\ Level(s, t) = IDENTICAL /\ ~SameContest(s, t)
           /\ CancellationMatches(s, t) /\ ~Unconfirmed(s, t)
  BY Zenon DEF Verdict

-----------------------------------------------------------------------------
(* What the rules of two markets make of each other. *)

LEMMA DigestMeans ==
    \A s, t : Digest(s) = Digest(t) =>
        /\ s.names = t.names /\ s.comparator = t.comparator /\ s.threshold = t.threshold
        /\ s.basis = t.basis /\ s.cutoff = t.cutoff /\ s.source = t.source
        /\ s.overtime = t.overtime /\ s.revised = t.revised
  BY DEF Digest

LEMMA SameObserved ==
    ASSUME NEW s, NEW t, Digest(s) = Digest(t) PROVE SameObservation(s, t)
  BY DigestMeans DEF SameObservation

LEMMA SameVoid ==
    ASSUME NEW s, NEW t, CancellationMatches(s, t) PROVE SameWhenVoid(s, t)
<1>1. /\ s.cancel = t.cancel /\ s.cancel # ""
      /\ Schedulable(s) \/ Schedulable(t) => BothStated(s.postpone, t.postpone)
      /\ ~Contradict(s.postpone, t.postpone)
  BY Zenon DEF CancellationMatches, BothStated
<1>2. BothStated(s.postpone, t.postpone) => s.postpone = t.postpone
  BY <1>1, Zenon DEF Contradict
<1> QED
  BY <1>1, <1>2, Zenon DEF SameWhenVoid

\* The same rule pays the same; a market with an upper bound is another matter.
LEMMA SamePay ==
    ASSUME NEW s, NEW t, NEW reading, s.comparator # "between",
           s.comparator = t.comparator, s.threshold = t.threshold
    PROVE  Pays(s, reading) = Pays(t, reading)
  BY Zenon DEF Pays

LEMMA PaysMeans ==
    \A t, reading :
      /\ t.comparator = "gt" => (Pays(t, reading) <=> reading > t.threshold)
      /\ t.comparator = "gte" => (Pays(t, reading) <=> reading >= t.threshold)
      /\ t.comparator = "lt" => (Pays(t, reading) <=> reading < t.threshold)
      /\ t.comparator = "lte" => (Pays(t, reading) <=> reading <= t.threshold)
  BY DEF Pays

LEMMA PaysIsBoolean ==
    ASSUME NEW t, NEW reading \in Int, t.threshold \in Int, t.comparator # "between"
    PROVE  Pays(t, reading) \in BOOLEAN
<1>1. \/ Pays(t, reading) = (reading > t.threshold)
      \/ Pays(t, reading) = (reading >= t.threshold)
      \/ Pays(t, reading) = (reading < t.threshold)
      \/ Pays(t, reading) = (reading <= t.threshold)
      \/ Pays(t, reading) = FALSE
  BY Zenon DEF Pays
<1>2. /\ (reading > t.threshold) \in BOOLEAN /\ (reading >= t.threshold) \in BOOLEAN
      /\ (reading < t.threshold) \in BOOLEAN /\ (reading <= t.threshold) \in BOOLEAN
      /\ FALSE \in BOOLEAN
  OBVIOUS
<1> QED
  BY <1>1, <1>2, Zenon

\* Rules off a lattice of readings, or opposite ones, of one strike or of two that
\* the reading is on one side of.
LEMMA ComparatorsPay ==
    ASSUME NEW s, NEW t, NEW reading \in Int, s.threshold \in Int, t.threshold \in Int,
           \/ s.threshold = t.threshold
           \/ reading < s.threshold /\ reading < t.threshold
           \/ reading > s.threshold /\ reading > t.threshold,
           ComparatorsMatch(s, t), BothStated(s.comparator, t.comparator),
           "between" \notin {s.comparator, t.comparator},
           ~s.lattice => reading # s.threshold
    PROVE  (Pays(s, reading) = Pays(t, reading)) = (<<s.comparator, t.comparator>> \notin Opposites)
<1>1. CASE s.comparator = t.comparator
  <2>1. <<s.comparator, t.comparator>> \notin Opposites
    BY <1>1 DEF Opposites
  <2>2. Pays(s, reading) <=> Pays(t, reading)
    <3>1. CASE s.threshold = t.threshold
      BY <1>1, <3>1, SamePay
    <3>2. CASE s.comparator \in {"gt", "gte", "lt", "lte"} /\ s.threshold # t.threshold
      BY <1>1, <3>2, PaysMeans
    <3>3. CASE s.comparator \notin {"gt", "gte", "lt", "lte"}
      BY <1>1, <3>3, Zenon DEF Pays
    <3> QED
      BY <3>1, <3>2, <3>3
  <2> QED
    BY <2>1, <2>2, PaysIsBoolean, Zenon
<1>2. CASE <<s.comparator, t.comparator>> \in Opposites
  <2>1. Pays(s, reading) <=> ~Pays(t, reading)
    BY <1>2, PaysMeans DEF Opposites
  <2> QED
    BY <1>2, <2>1, PaysIsBoolean, Zenon
<1>3. CASE /\ ~s.lattice /\ ~t.lattice /\ <<s.comparator, t.comparator>> \in SameOffLattice
           /\ s.comparator # t.comparator
  <2>1. <<s.comparator, t.comparator>> \notin Opposites
    BY <1>3 DEF Opposites, SameOffLattice
  <2>2. Pays(s, reading) <=> Pays(t, reading)
    BY <1>3, PaysMeans DEF SameOffLattice
  <2> QED
    BY <2>1, <2>2, PaysIsBoolean, Zenon
<1> QED
  BY <1>1, <1>2, <1>3, Zenon DEF ComparatorsMatch

\* What makes the claims of the store inductive: rules are rules the market may
\* have, and a stored row that is strict has not been withdrawn.
PairsInv ==
    /\ DOMAIN terms = Matchables /\ \A m \in Matchables : terms[m] \in Terms[m]
    /\ DOMAIN matches = Pairs
    /\ \A p \in Pairs : /\ DOMAIN matches[p] = {"level", "verdict", "inverted"}
                        /\ matches[p].verdict = "VERIFIED_EQUIVALENT_STRICT" =>
                              Claims(matches[p])
    /\ NoStaleClaim

LEMMA RowsOfPairs ==
    /\ DOMAIN NoRow = {"level", "verdict", "inverted"} /\ ~Claims(NoRow)
    /\ NoRow.verdict # "VERIFIED_EQUIVALENT_STRICT"
    /\ \A s, t : /\ DOMAIN Row(s, t) = {"level", "verdict", "inverted"}
                 /\ Row(s, t).verdict = "VERIFIED_EQUIVALENT_STRICT" => Claims(Row(s, t))
    /\ \A row : DOMAIN row = {"level", "verdict", "inverted"} =>
          /\ DOMAIN WithdrawnRow(row) = {"level", "verdict", "inverted"}
          /\ ~Claims(WithdrawnRow(row))
          /\ WithdrawnRow(row).verdict # "VERIFIED_EQUIVALENT_STRICT"
<1>1. /\ DOMAIN NoRow = {"level", "verdict", "inverted"} /\ NoRow.level = 4
      /\ NoRow.verdict # "VERIFIED_EQUIVALENT_STRICT"
  BY Zenon DEF NoRow
<1>2. \A s, t : DOMAIN Row(s, t) = {"level", "verdict", "inverted"}
  BY Zenon DEF Row
<1>3. \A s, t : Row(s, t).verdict = "VERIFIED_EQUIVALENT_STRICT" => Claims(Row(s, t))
  BY RowParts, StrictMeans DEF Claims, IDENTICAL, INCOMPATIBLE
<1>4. \A row : DOMAIN row = {"level", "verdict", "inverted"} =>
          /\ DOMAIN WithdrawnRow(row) = {"level", "verdict", "inverted"}
          /\ WithdrawnRow(row).level = INCOMPATIBLE
          /\ WithdrawnRow(row).verdict = "REJECTED"
  BY DEF WithdrawnRow
<1> QED
  BY <1>1, <1>2, <1>3, <1>4 DEF Claims, INCOMPATIBLE

LEMMA RefreshKeeps == ASSUME PairsInv, RefreshMatches PROVE PairsInv'
<1>1. PICK seen : matches' = [p \in Pairs |-> Refreshed(p, seen)]
  BY Zenon DEF RefreshMatches
<1>2. UNCHANGED <<terms, inScope>> /\ unseen' = {p \in unseen : p[1] \notin inScope \/ p[2] \notin inScope}
  BY DEF RefreshMatches
<1>3. ASSUME NEW p \in Pairs
      PROVE  /\ DOMAIN matches'[p] = {"level", "verdict", "inverted"}
             /\ matches'[p].verdict = "VERIFIED_EQUIVALENT_STRICT" => Claims(matches'[p])
             /\ {p[1], p[2]} \subseteq inScope /\ Claims(matches'[p]) =>
                   matches'[p] = Row(terms[p[1]], terms[p[2]])
  <2> DEFINE row == Row(terms[p[1]], terms[p[2]])
  <2>1. matches'[p] = Refreshed(p, seen)
    BY <1>1
  <2>2. \/ matches'[p] = NoRow
        \/ matches'[p] = row
        \/ matches'[p] = WithdrawnRow(matches[p])
        \/ /\ matches'[p] = matches[p]
           /\ ~({p[1], p[2]} \subseteq inScope /\ Claims(matches[p]))
    BY <2>1, Zenon DEF Refreshed
  <2>3. /\ DOMAIN matches[p] = {"level", "verdict", "inverted"}
        /\ matches[p].verdict = "VERIFIED_EQUIVALENT_STRICT" => Claims(matches[p])
    BY DEF PairsInv
  <2>4. CASE matches'[p] = WithdrawnRow(matches[p])
    BY <2>3, <2>4, RowsOfPairs, Zenon
  <2>5. CASE matches'[p] = row
    BY <2>5, RowsOfPairs, Zenon
  <2>6. CASE matches'[p] = NoRow
    BY <2>6, RowsOfPairs, Zenon
  <2> QED
    BY <2>2, <2>3, <2>4, <2>5, <2>6, Zenon
<1>4. DOMAIN matches' = Pairs
  BY <1>1
<1>5. NoStaleClaim'
  BY <1>2, <1>3, Zenon DEF NoStaleClaim
<1> QED
  BY <1>2, <1>3, <1>4, <1>5, Zenon DEF PairsInv

LEMMA RewordKeeps ==
    ASSUME PairsInv, NEW m \in Matchables, NEW t \in Terms[m], Reword(m, t) PROVE PairsInv'
<1>1. /\ terms' = [terms EXCEPT ![m] = t] /\ UNCHANGED <<inScope, matches>>
      /\ unseen' = unseen \cup {p \in Pairs : m \in {p[1], p[2]}}
  BY DEF Reword
<1>2. DOMAIN terms' = Matchables /\ \A n \in Matchables : terms'[n] \in Terms[n]
  BY <1>1 DEF PairsInv
<1>3. NoStaleClaim'
  <2> SUFFICES ASSUME NEW p \in Pairs, p \notin unseen', {p[1], p[2]} \subseteq inScope,
                      Claims(matches[p])
               PROVE  matches[p] = Row(terms'[p[1]], terms'[p[2]])
    BY <1>1, Zenon DEF NoStaleClaim
  <2>1. p[1] # m /\ p[2] # m /\ p \notin unseen
    BY <1>1, Zenon
  <2>2. terms'[p[1]] = terms[p[1]] /\ terms'[p[2]] = terms[p[2]]
    BY <1>1, <2>1 DEF Pairs, Matchables, PairsInv
  <2> QED
    BY <2>1, <2>2, Zenon DEF NoStaleClaim, PairsInv
<1> QED
  BY <1>1, <1>2, <1>3, Zenon DEF PairsInv

LEMMA ScopeKeeps == ASSUME PairsInv, NEW m \in Matchables, MoveScope(m) PROVE PairsInv'
<1>1. /\ inScope' = IF m \in inScope THEN inScope \ {m} ELSE inScope \cup {m}
      /\ unseen' = unseen \cup {p \in Pairs : m \in {p[1], p[2]} /\ m \notin inScope}
      /\ UNCHANGED <<terms, matches>>
  BY DEF MoveScope
<1>2. NoStaleClaim'
  <2> SUFFICES ASSUME NEW p \in Pairs, p \notin unseen', {p[1], p[2]} \subseteq inScope',
                      Claims(matches[p])
               PROVE  matches[p] = Row(terms[p[1]], terms[p[2]])
    BY <1>1, Zenon DEF NoStaleClaim
  <2>1. p \notin unseen /\ {p[1], p[2]} \subseteq inScope
    BY <1>1
  <2> QED
    BY <2>1, Zenon DEF NoStaleClaim, PairsInv
<1> QED
  BY <1>1, <1>2, Zenon DEF PairsInv

LEMMA StepPairs == PairsInv /\ [MatchNext]_matchVars => PairsInv'
<1> SUFFICES ASSUME PairsInv, [MatchNext]_matchVars PROVE PairsInv'
  OBVIOUS
<1>1. CASE RefreshMatches
  BY <1>1, RefreshKeeps
<1>2. CASE \E m \in Matchables : \E t \in Terms[m] : Reword(m, t)
  BY <1>2, RewordKeeps, Zenon
<1>3. CASE \E m \in Matchables : MoveScope(m)
  BY <1>3, ScopeKeeps, Zenon
<1>4. CASE UNCHANGED matchVars
  <2>1. terms' = terms /\ inScope' = inScope /\ matches' = matches /\ unseen' = unseen
    BY <1>4 DEF matchVars
  <2> QED
    BY <2>1, Zenon DEF PairsInv, NoStaleClaim
<1> QED
  BY <1>1, <1>2, <1>3, <1>4 DEF MatchNext

LEMMA InitPairs == MatchInit => PairsInv
<1> SUFFICES ASSUME MatchInit PROVE PairsInv
  OBVIOUS
<1>1. DOMAIN terms = Matchables /\ \A m \in Matchables : terms[m] \in Terms[m]
  BY DEF MatchInit
<1>2. matches = [p \in Pairs |-> NoRow] /\ unseen = Pairs
  BY DEF MatchInit
<1>3. \A p \in Pairs : matches[p] = NoRow
  BY <1>2
<1>4. NoStaleClaim
  BY <1>2, Zenon DEF NoStaleClaim
<1> QED
  BY <1>1, <1>2, <1>3, <1>4, RowsOfPairs, Zenon DEF PairsInv

\* What a strict row, and what any claim, says of the two rules it was made from.
LEMMA StrictSettles ==
    ASSUME NEW s, NEW t, "between" \notin {s.comparator, t.comparator},
           Row(s, t).verdict = "VERIFIED_EQUIVALENT_STRICT"
    PROVE  SettleAlike(s, t) /\ ~Row(s, t).inverted /\ ~SameContest(s, t)
<1>1. Level(s, t) = IDENTICAL /\ ~SameContest(s, t) /\ CancellationMatches(s, t)
  BY RowParts, StrictMeans
<1>2. Digest(s) = Digest(t)
  BY <1>1, LevelsMean
<1>3. SameObservation(s, t) /\ SameWhenVoid(s, t)
  BY <1>1, <1>2, SameObserved, SameVoid
<1>4. \A reading \in Reachable(s) : Pays(s, reading) = Pays(t, reading)
  BY <1>2, DigestMeans, SamePay
<1>5. <<s.comparator, t.comparator>> \notin Opposites
  <2>1. s.comparator = t.comparator
    BY <1>2, DigestMeans
  <2> QED
    BY <2>1 DEF Opposites
<1>6. ~Row(s, t).inverted
  BY <1>1, <1>5, RowParts, Zenon DEF Inverts
<1> QED
  BY <1>1, <1>3, <1>4, <1>6, Zenon DEF SettleAlike

LEMMA ClaimsPay ==
    ASSUME NEW s, NEW t, NEW reading \in Reachable(s) \cap Reachable(t), Readings \subseteq Int,
           s.threshold \in Int, t.threshold \in Int,
           "between" \notin {s.comparator, t.comparator}, ~AmongStrikes(s, t, reading),
           Claims(Row(s, t)), ~SameContest(s, t), ~ThresholdUnknown(s, t),
           BothStated(s.comparator, t.comparator)
    PROVE  (Pays(s, reading) = Pays(t, reading)) = ~Row(s, t).inverted
<1>1. Level(s, t) # INCOMPATIBLE
  BY RowParts DEF Claims, INCOMPATIBLE
<1>2. ~ThresholdsDiffer(s, t) /\ ComparatorsMatch(s, t)
  BY <1>1, LevelsMean
<1>3. \/ s.threshold = t.threshold
      \/ reading < s.threshold /\ reading < t.threshold
      \/ reading > s.threshold /\ reading > t.threshold
  <2>1. reading \in Int
    BY DEF Reachable
  <2> QED
    BY <2>1 DEF AmongStrikes
<1>4. reading \in Int /\ (~s.lattice => reading # s.threshold)
  BY Zenon DEF Reachable
<1>5. (Pays(s, reading) = Pays(t, reading)) = (<<s.comparator, t.comparator>> \notin Opposites)
  BY <1>2, <1>3, <1>4, ComparatorsPay
<1>6. Row(s, t).inverted = (<<s.comparator, t.comparator>> \in Opposites)
  BY RowParts, Zenon DEF Inverts
<1> QED
  BY <1>5, <1>6, Zenon

LEMMA StoredPairsSettle == PairsInv => RatedPairsSettleAlike
<1> SUFFICES ASSUME PairsInv, NEW p \in Pairs \ unseen, {p[1], p[2]} \subseteq inScope,
                    "between" \notin {terms[p[1]].comparator, terms[p[2]].comparator}
             PROVE  /\ matches[p].verdict = "VERIFIED_EQUIVALENT_STRICT" =>
                         /\ SettleAlike(terms[p[1]], terms[p[2]]) /\ ~matches[p].inverted
                         /\ ~SameContest(terms[p[1]], terms[p[2]])
                    /\ Claims(matches[p]) /\ ~SameContest(terms[p[1]], terms[p[2]])
                          /\ ~ThresholdUnknown(terms[p[1]], terms[p[2]])
                          /\ BothStated(terms[p[1]].comparator, terms[p[2]].comparator) =>
                          \A reading \in Reachable(terms[p[1]]) \cap Reachable(terms[p[2]]) :
                            AmongStrikes(terms[p[1]], terms[p[2]], reading) \/
                            (Pays(terms[p[1]], reading) = Pays(terms[p[2]], reading)) =
                                ~matches[p].inverted
  BY Zenon DEF RatedPairsSettleAlike
<1> DEFINE s == terms[p[1]]
           t == terms[p[2]]
<1>1. Claims(matches[p]) => matches[p] = Row(s, t)
  BY Zenon DEF PairsInv, NoStaleClaim
<1>2. matches[p].verdict = "VERIFIED_EQUIVALENT_STRICT" => Claims(matches[p])
  BY DEF PairsInv
<1>3. Readings \subseteq Int /\ s.threshold \in Int /\ t.threshold \in Int
  BY MatchAssumption DEF PairsInv, Pairs, Matchables
<1> HIDE DEF s, t
<1>4. ASSUME matches[p].verdict = "VERIFIED_EQUIVALENT_STRICT"
      PROVE  SettleAlike(s, t) /\ ~matches[p].inverted /\ ~SameContest(s, t)
  <2>1. matches[p] = Row(s, t)
    BY <1>1, <1>2, <1>4
  <2>2. "between" \notin {s.comparator, t.comparator}
    BY DEF s, t
  <2>3. Row(s, t).verdict = "VERIFIED_EQUIVALENT_STRICT"
    BY <1>4, <2>1
  <2>4. SettleAlike(s, t) /\ ~Row(s, t).inverted /\ ~SameContest(s, t)
    BY <2>2, <2>3, StrictSettles
  <2> QED
    BY <2>1, <2>4
<1>5. ASSUME Claims(matches[p]), ~SameContest(s, t), ~ThresholdUnknown(s, t),
             BothStated(s.comparator, t.comparator),
             NEW reading \in Reachable(s) \cap Reachable(t), ~AmongStrikes(s, t, reading)
      PROVE  (Pays(s, reading) = Pays(t, reading)) = ~matches[p].inverted
  <2>1. matches[p] = Row(s, t)
    BY <1>1, <1>5
  <2>2. "between" \notin {s.comparator, t.comparator}
    BY DEF s, t
  <2>3. Claims(Row(s, t))
    BY <1>5, <2>1
  <2>4. (Pays(s, reading) = Pays(t, reading)) = ~Row(s, t).inverted
    BY <1>3, <1>5, <2>2, <2>3, ClaimsPay
  <2> QED
    BY <2>1, <2>4
<1> QED
  BY <1>4, <1>5, Zenon DEF s, t

\* However the venues reword their rules and whatever a refresh finds time for, a pair
\* both of whose markets it has seen is stored as strict only if the two contracts pay
\* alike, and as anything only what their present rules allow (refresh_matches,
\* verify_match, score_equivalence).
THEOREM PairsStayTrue == MatchSpec => []PairsAreTrue
<1>1. PairsInv => PairsAreTrue
  BY StoredPairsSettle, Zenon DEF PairsInv, PairsAreTrue
<1> QED
  BY <1>1, InitPairs, StepPairs, PTL DEF MatchSpec

-----------------------------------------------------------------------------
(* The shares of the order-book budget.                                    *)

\* Some number of a set of them is the least.
LEMMA LeastIs ==
    ASSUME NEW T, T \subseteq Nat, T # {} PROVE \E x \in T : \A y \in T : x <= y
<1>1. IsWellFoundedOn(OpToRel(<, Nat), Nat)
  BY NatLessThanWellFounded
<1>2. \A x, y \in Nat : <<y, x>> \in OpToRel(<, Nat) <=> y < x
  BY DEF OpToRel
<1>3. PICK less : /\ IsWellFoundedOn(less, Nat)
                  /\ \A x, y \in Nat : <<y, x>> \in less <=> y < x
  BY <1>1, <1>2, Zenon
<1>4. PICK x \in T : \A y \in T : ~(<<y, x>> \in less)
  BY <1>3, WFMin
<1>5. ASSUME NEW y \in T PROVE x <= y
  <2>1. ~(y < x)
    BY <1>3, <1>4
  <2> QED BY <2>1
<1> QED BY <1>5

\* Induction up to a bound.
LEMMA UpToBound ==
  ASSUME NEW n \in Nat, NEW T, 0 \in T, \A i \in 1..n : i - 1 \in T => i \in T
  PROVE  \A i \in 0..n : i \in T
<1> SUFFICES ASSUME NEW m \in 0..n, m \notin T PROVE FALSE
  OBVIOUS
<1> DEFINE Bad == {i \in 0..n : i \notin T}
<1>1. PICK i \in Bad : \A k \in Bad : i <= k
  <2>1. Bad \subseteq Nat /\ Bad # {}
    OBVIOUS
  <2> HIDE DEF Bad
  <2> QED BY <2>1, LeastIs
<1>2. i \in 1..n /\ i - 1 \in 0..n /\ ~(i <= i - 1)
  OBVIOUS
<1>3. i - 1 \in T
  BY <1>1, <1>2
<1> QED BY <1>2, <1>3

\* A function that starts at a value and is defined from each value to the next.
Iterated(N, D, a, step) ==
  \E f \in [0..N -> D] : f[0] = a /\ \A n \in 1..N : f[n] = step[<<n, f[n - 1]>>]

LEMMA Iterates ==
  ASSUME NEW N \in Nat, NEW D, NEW a \in D, NEW step \in [(1..N) \X D -> D]
  PROVE  Iterated(N, D, a, step)
<1> DEFINE Iterate(f, i) == f \in [0..i -> D] /\ f[0] = a /\ \A n \in 1..i : f[n] = step[<<n, f[n - 1]>>]
           T == {i \in 0..N : \E f : Iterate(f, i)}
<1>1. 0 \in T
  <2> DEFINE f == [j \in 0..0 |-> a]
  <2>1. Iterate(f, 0)
    OBVIOUS
  <2> HIDE DEF f
  <2>2. \E g : Iterate(g, 0)
    BY <2>1
  <2> HIDE DEF Iterate
  <2> QED BY <2>2
<1>2. ASSUME NEW i \in 1..N, i - 1 \in T PROVE i \in T
  <2>1. PICK f : Iterate(f, i - 1)
    BY <1>2
  <2> DEFINE next == step[<<i, f[i - 1]>>]
             g == [j \in 0..i |-> IF j = i THEN next ELSE f[j]]
  <2>2. f[i - 1] \in D /\ \A j \in 0..(i - 1) : f[j] \in D
    BY <2>1
  <2>3. next \in D
    BY <2>2
  <2>4. g \in [0..i -> D] /\ g[0] = a
    <3>1. \A j \in 0..i : j = i \/ j \in 0..(i - 1)
      OBVIOUS
    <3> HIDE DEF next
    <3> QED BY <2>1, <2>2, <2>3, <3>1
  <2>5. \A n \in 1..i : g[n] = step[<<n, g[n - 1]>>]
    <3> SUFFICES ASSUME NEW n \in 1..i PROVE g[n] = step[<<n, g[n - 1]>>]
      OBVIOUS
    <3>1. n \in 0..i /\ n - 1 \in 0..i /\ n - 1 # i
      OBVIOUS
    <3>2. g[n - 1] = f[n - 1]
      BY <3>1
    <3>3. CASE n = i
      BY <3>1, <3>2, <3>3
    <3>4. CASE n # i
      <4>1. n \in 1..(i - 1) /\ g[n] = f[n]
        BY <3>1, <3>4
      <4>2. f[n] = step[<<n, f[n - 1]>>]
        BY <2>1, <4>1
      <4> QED BY <3>2, <4>1, <4>2
    <3> QED BY <3>3, <3>4
  <2> HIDE DEF g
  <2> QED BY <2>4, <2>5
<1>3. N \in T
  <2> HIDE DEF T
  <2> QED BY <1>1, <1>2, UpToBound
<1> QED BY <1>3 DEF Iterated

-----------------------------------------------------------------------------
(* The order of the markets.                                               *)

Keys == {Traded, Modelled, Horizon}

LEMMA KeysAreNumbers == \A key \in Keys, m \in Listed : key[m] \in Int
BY IngestAssumption DEF Keys, Traded, Modelled, Horizon

LEMMA PartsAreFinite ==
  ASSUME NEW S \in SUBSET Listed
  PROVE  IsFiniteSet(S) /\ Cardinality(S) \in Nat /\ (Cardinality(S) = 0 <=> S = {})
<1>1. IsFiniteSet(S)
  BY IngestAssumption, FS_Subset
<1> QED BY <1>1, FS_CardinalityType, FS_EmptySet

\* Of some markets, some have the least key.
LEMMA SomeLeast ==
  ASSUME NEW S \in SUBSET Listed, S # {}, NEW key \in Keys
  PROVE  Least(S, key) # {} /\ Least(S, key) \in SUBSET S
<1>1. PICK N \in Nat : ExistsBijection(1..N, S)
  BY PartsAreFinite, FS_NatBijection
<1>2. PICK b : b \in Bijection(1..N, S)
  BY <1>1 DEF ExistsBijection
<1>3. /\ b \in [1..N -> S] /\ \A m \in S : \E i \in 1..N : b[i] = m
  BY <1>2 DEF Bijection, Injection, Surjection
<1> DEFINE Best(i) == \E m \in S : key[m] \in Int /\ \A j \in 1..i : key[m] <= key[b[j]]
           T == {i \in 0..N : Best(i)}
<1>4. \A m \in S : key[m] \in Int
  BY KeysAreNumbers
<1>5. 0 \in T
  BY <1>4
<1>6. ASSUME NEW i \in 1..N, i - 1 \in T PROVE i \in T
  <2>1. PICK m \in S : key[m] \in Int /\ \A j \in 1..(i - 1) : key[m] <= key[b[j]]
    BY <1>6
  <2>2. b[i] \in S /\ key[b[i]] \in Int
    BY <1>3, <1>4
  <2>3. \A j \in 1..i : b[j] \in S /\ key[b[j]] \in Int /\ (j = i \/ j \in 1..(i - 1))
    BY <1>3, <1>4
  <2>4. CASE key[m] <= key[b[i]]
    <3>1. \A j \in 1..i : key[m] <= key[b[j]]
      BY <2>1, <2>3, <2>4
    <3> QED BY <2>1, <3>1
  <2>5. CASE ~(key[m] <= key[b[i]])
    <3>1. \A j \in 1..i : key[b[i]] <= key[b[j]]
      BY <2>1, <2>2, <2>3, <2>5
    <3> QED BY <2>2, <3>1
  <2> QED BY <2>4, <2>5
<1>7. N \in T
  <2> HIDE DEF T
  <2> QED BY <1>5, <1>6, UpToBound
<1>8. PICK m \in S : \A j \in 1..N : key[m] <= key[b[j]]
  BY <1>7
<1>9. \A k \in S : key[m] <= key[k]
  BY <1>3, <1>8
<1> QED BY <1>9 DEF Least

LEMMA FirstIs ==
  ASSUME NEW S \in SUBSET Listed, S # {}, NEW priority
  PROVE  /\ First(S, priority) \in S
         /\ priority = "coverage" => \A k \in S : Traded[First(S, priority)] <= Traded[k]
<1>1. Foremost(S, priority) # {} /\ Foremost(S, priority) \in SUBSET S
  <2>1. Traded \in Keys /\ Modelled \in Keys /\ Horizon \in Keys
    BY DEF Keys
  <2>2. Least(S, Traded) # {} /\ Least(S, Traded) \in SUBSET S
    BY <2>1, SomeLeast
  <2> DEFINE A == Least(S, Modelled)
             B == Least(A, Horizon)
             C == Least(B, Traded)
  <2>3. A # {} /\ A \in SUBSET S
    BY <2>1, SomeLeast
  <2>4. B # {} /\ B \in SUBSET A
    <3> HIDE DEF A
    <3> QED BY <2>1, <2>3, SomeLeast
  <2>5. C # {} /\ C \in SUBSET B
    <3> HIDE DEF A, B
    <3> QED BY <2>1, <2>3, <2>4, SomeLeast
  <2> QED BY <2>2, <2>3, <2>4, <2>5 DEF Foremost
<1>2. First(S, priority) \in Foremost(S, priority)
  BY <1>1 DEF First
<1>3. priority = "coverage" => Foremost(S, priority) = Least(S, Traded)
  BY DEF Foremost
<1> QED BY <1>1, <1>2, <1>3 DEF Least

\* What a queue of some markets is: all of them, one at a time, in order of volume when
\* that is the priority.
Queued(q, S, priority) ==
  /\ q \in Seq(S) /\ Len(q) = Cardinality(S) /\ DOMAIN q = 1..Len(q)
  /\ \A m \in S : \E i \in 1..Len(q) : q[i] = m
  /\ \A i, k \in 1..Len(q) : i # k => q[i] # q[k]
  /\ priority = "coverage" => \A i, k \in 1..Len(q) : i <= k => Traded[q[i]] <= Traded[q[k]]

\* What is left of the markets, turn by turn.
Leaves(left, S, priority) ==
  /\ left[0] = S
  /\ \A n \in 0..Cardinality(S) : left[n] \in SUBSET S
  /\ \A n \in 1..Cardinality(S) : left[n] = left[n - 1] \ {First(left[n - 1], priority)}

LEMMA SortedLeaves ==
  ASSUME NEW S \in SUBSET Listed, NEW priority
  PROVE  \E left : /\ Leaves(left, S, priority)
                   /\ Sorted(S, priority) = [n \in 1..Cardinality(S) |-> First(left[n - 1], priority)]
<1> DEFINE N == Cardinality(S)
           Drop(rest) == rest \ {First(rest, priority)}
           F(left) == [n \in 0..N |-> IF n = 0 THEN S ELSE Drop(left[n - 1])]
           left == CHOOSE f : f = F(f)
           step == [x \in (1..N) \X (SUBSET S) |-> Drop(x[2])]
<1>1. N \in Nat
  BY PartsAreFinite
<1>2. \E f : f = F(f)
  <2> DEFINE D == SUBSET S
  <2> HIDE DEF N
  <2>1. step \in [(1..N) \X D -> D] /\ S \in D
    OBVIOUS
  <2>2. DOMAIN step = (1..N) \X D /\ \A x \in DOMAIN step : step[x] = Drop(x[2])
    OBVIOUS
  <2> HIDE DEF step, D, Drop
  <2>3. Iterated(N, D, S, step)
    BY <1>1, <2>1, Iterates
  <2>4. PICK f \in [0..N -> D] : f[0] = S /\ \A n \in 1..N : f[n] = step[<<n, f[n - 1]>>]
    BY <2>3 DEF Iterated
  <2>5. \A n \in 1..N : f[n] = Drop(f[n - 1])
    <3> SUFFICES ASSUME NEW n \in 1..N PROVE f[n] = Drop(f[n - 1])
      OBVIOUS
    <3>1. n - 1 \in 0..N
      BY <1>1
    <3>2. <<n, f[n - 1]>> \in (1..N) \X D
      BY <2>4, <3>1
    <3> QED BY <2>2, <2>4, <3>2
  <2>6. \A n \in 0..N : n = 0 \/ n \in 1..N
    BY <1>1
  <2>7. \A n \in 0..N : f[n] = IF n = 0 THEN S ELSE Drop(f[n - 1])
    BY <2>4, <2>5, <2>6
  <2>8. f = F(f)
    BY <2>4, <2>7
  <2> QED BY <2>8
<1>3. left = F(left)
  <2> HIDE DEF F
  <2> QED BY <1>2
<1>4. left[0] = S /\ \A n \in 1..N : left[n] = Drop(left[n - 1])
  <2>1. 0 \in 0..N /\ \A n \in 1..N : n \in 0..N /\ n # 0
    BY <1>1
  <2>2. \A n \in 0..N : left[n] = IF n = 0 THEN S ELSE Drop(left[n - 1])
    <3> HIDE DEF left, Drop
    <3> QED BY <1>3
  <2> HIDE DEF left, Drop
  <2> QED BY <2>1, <2>2
<1>5. \A n \in 0..N : left[n] \in SUBSET S
  <2> DEFINE T == {n \in 0..N : left[n] \in SUBSET S}
  <2>1. 0 \in T
    <3> HIDE DEF left
    <3>1. 0 \in 0..N /\ left[0] \in SUBSET S
      BY <1>1, <1>4
    <3> QED BY <3>1
  <2>2. \A n \in 1..N : n - 1 \in T => n \in T
    <3> HIDE DEF left
    <3> QED BY <1>1, <1>4
  <2>3. \A n \in 0..N : n \in T
    <3> HIDE DEF T, left
    <3> QED BY <1>1, <2>1, <2>2, UpToBound
  <2> QED BY <2>3
<1>6. Sorted(S, priority) = [n \in 1..N |-> First(left[n - 1], priority)]
  BY DEF Sorted
<1> HIDE DEF left
<1>7. Leaves(left, S, priority)
  BY <1>4, <1>5 DEF Leaves
<1> QED BY <1>6, <1>7

LEMMA QueueIs ==
  ASSUME NEW S \in SUBSET Listed, NEW priority PROVE Queued(Sorted(S, priority), S, priority)
<1> DEFINE N == Cardinality(S)
           q == Sorted(S, priority)
<1>1. PICK left : /\ Leaves(left, S, priority)
                  /\ q = [n \in 1..N |-> First(left[n - 1], priority)]
  BY SortedLeaves
<1>2. N \in Nat /\ IsFiniteSet(S)
  BY PartsAreFinite
<1> HIDE DEF q, N
<1>3. /\ left[0] = S
      /\ \A n \in 0..N : left[n] \in SUBSET S
      /\ \A n \in 1..N : left[n] = left[n - 1] \ {q[n]} /\ q[n] = First(left[n - 1], priority)
  BY <1>1 DEF Leaves, N
<1>4. \A n \in 0..N : Cardinality(left[n]) = N - n
  <2> DEFINE T == {n \in 0..N : Cardinality(left[n]) = N - n}
  <2>1. 0 \in T
    BY <1>2, <1>3 DEF N
  <2>2. ASSUME NEW n \in 1..N, n - 1 \in T PROVE n \in T
    <3>1. n - 1 \in 0..N /\ Cardinality(left[n - 1]) = N - (n - 1)
      BY <2>2
    <3>2. left[n - 1] \in SUBSET Listed /\ IsFiniteSet(left[n - 1])
      BY <1>3, <3>1, PartsAreFinite
    <3>3. left[n - 1] # {}
      <4>1. Cardinality(left[n - 1]) # 0
        BY <1>2, <3>1
      <4> QED BY <3>2, <4>1, PartsAreFinite
    <3>4. q[n] \in left[n - 1]
      <4> DEFINE r == left[n - 1]
      <4>1. r \in SUBSET Listed /\ r # {}
        BY <3>2, <3>3
      <4>2. q[n] = First(r, priority)
        BY <1>3
      <4> HIDE DEF r
      <4>3. First(r, priority) \in r
        BY <4>1, FirstIs
      <4>4. q[n] \in r
        BY <4>2, <4>3
      <4> QED BY <4>4 DEF r
    <3>5. Cardinality(left[n]) = Cardinality(left[n - 1]) - 1
      <4>1. left[n] = left[n - 1] \ {q[n]}
        BY <1>3
      <4> QED BY <3>2, <3>4, <4>1, FS_RemoveElement
    <3>6. Cardinality(left[n]) = N - n
      BY <1>2, <3>1, <3>5
    <3> QED BY <3>6
  <2>3. \A n \in 0..N : n \in T
    <3> HIDE DEF T
    <3> QED BY <1>2, <2>1, <2>2, UpToBound
  <2> QED BY <2>3
<1>5. ASSUME NEW n \in 1..N
      PROVE  /\ n - 1 \in 0..N /\ q[n] \in left[n - 1] /\ q[n] \in S
             /\ priority = "coverage" => \A k \in left[n - 1] : Traded[q[n]] <= Traded[k]
  <2>1. n - 1 \in 0..N /\ N - (n - 1) # 0
    BY <1>2
  <2>2. Cardinality(left[n - 1]) # 0 /\ left[n - 1] \in SUBSET S
    BY <1>3, <1>4, <2>1
  <2>3. left[n - 1] # {} /\ left[n - 1] \in SUBSET Listed
    BY <2>2, PartsAreFinite
  <2> DEFINE r == left[n - 1]
  <2>4. r \in SUBSET Listed /\ r # {} /\ r \in SUBSET S
    BY <2>2, <2>3
  <2>5. q[n] = First(r, priority)
    BY <1>3
  <2> HIDE DEF r
  <2>6. /\ First(r, priority) \in r
        /\ priority = "coverage" => \A k \in r : Traded[First(r, priority)] <= Traded[k]
    BY <2>4, FirstIs
  <2>7. /\ q[n] \in r /\ q[n] \in S
        /\ priority = "coverage" => \A k \in r : Traded[q[n]] <= Traded[k]
    BY <2>4, <2>5, <2>6
  <2> QED BY <2>1, <2>7 DEF r
<1>6. ASSUME NEW k \in 0..N PROVE \A i \in 0..k : left[k] \subseteq left[i]
  <2> DEFINE T == {j \in 0..N : \A i \in 0..j : left[j] \subseteq left[i]}
  <2>1. 0 \in T
    BY <1>2
  <2>2. ASSUME NEW j \in 1..N, j - 1 \in T PROVE j \in T
    <3>1. \A i \in 0..j : i = j \/ i \in 0..(j - 1)
      OBVIOUS
    <3>2. left[j] \subseteq left[j - 1]
      BY <1>3
    <3>3. \A i \in 0..(j - 1) : left[j - 1] \subseteq left[i]
      BY <2>2
    <3> QED BY <3>1, <3>2, <3>3
  <2>3. \A j \in 0..N : j \in T
    <3> HIDE DEF T
    <3> QED BY <1>2, <2>1, <2>2, UpToBound
  <2> QED BY <2>3
<1>7. left[N] = {}
  <2>1. Cardinality(left[N]) = 0 /\ left[N] \in SUBSET Listed
    BY <1>2, <1>3, <1>4
  <2> QED BY <2>1, PartsAreFinite
<1>8. ASSUME NEW m \in S PROVE \E i \in 1..N : q[i] = m
  <2> SUFFICES ASSUME \A i \in 1..N : q[i] # m PROVE FALSE
    OBVIOUS
  <2> DEFINE T == {n \in 0..N : m \in left[n]}
  <2>1. 0 \in T
    BY <1>2, <1>3
  <2>2. \A n \in 1..N : n - 1 \in T => n \in T
    BY <1>3
  <2>3. \A n \in 0..N : n \in T
    <3> HIDE DEF T
    <3> QED BY <1>2, <2>1, <2>2, UpToBound
  <2> QED BY <1>2, <1>7, <2>3
<1>9. ASSUME NEW i \in 1..N, NEW k \in 1..N, i < k PROVE q[i] # q[k]
  <2>1. k - 1 \in 0..N /\ i \in 0..(k - 1)
    BY <1>2, <1>9
  <2>2. q[k] \in left[i]
    BY <1>5, <1>6, <2>1
  <2> QED BY <1>3, <2>2
<1>10. ASSUME priority = "coverage", NEW i \in 1..N, NEW k \in 1..N, i <= k
       PROVE  Traded[q[i]] <= Traded[q[k]]
  <2>1. k - 1 \in 0..N /\ i - 1 \in 0..(k - 1)
    BY <1>2, <1>10
  <2>2. q[k] \in left[i - 1]
    BY <1>5, <1>6, <2>1
  <2> QED BY <1>5, <1>10, <2>2
<1>11. q \in Seq(S) /\ Len(q) = N /\ DOMAIN q = 1..N
  <2>1. q \in [1..N -> S]
    BY <1>1, <1>3, <1>5
  <2> QED BY <1>2, <2>1
<1>12. \A i, k \in 1..N : i # k => q[i] # q[k]
  <2>1. \A i, k \in 1..N : i # k => i < k \/ k < i
    BY <1>2
  <2> QED BY <1>9, <2>1
<1> QED
  <2>1. Len(q) = Cardinality(S) /\ 1..Len(q) = 1..N
    BY <1>11 DEF N
  <2>2. priority = "coverage" => \A i, k \in 1..N : i <= k => Traded[q[i]] <= Traded[q[k]]
    BY <1>10
  <2>3. Queued(q, S, priority)
    BY <1>8, <1>11, <1>12, <2>1, <2>2 DEF Queued
  <2> QED BY <2>3 DEF q

-----------------------------------------------------------------------------
(* Filling the budget.                                                     *)

\* What one market's turn does to the chosen ones.
Takes(t, m, budget, c) ==
  /\ c \subseteq t /\ t \in SUBSET Listed
  /\ t = c \/ Cardinality(t) <= budget
  /\ m \in c \/ ~(Cardinality(Series(m, c)) < SeriesCap) => t = c
  /\ Cardinality(c) < budget /\ Cardinality(Series(m, c)) < SeriesCap => m \in t

LEMMA UnionIsFinite ==
  ASSUME NEW S \in SUBSET Listed, NEW T \in SUBSET Listed
  PROVE  /\ S \cup T \in SUBSET Listed
         /\ Cardinality(S \cup T) <= Cardinality(S) + Cardinality(T)
         /\ S \subseteq T => Cardinality(S) <= Cardinality(T)
<1>1. IsFiniteSet(S) /\ IsFiniteSet(T) /\ Cardinality(S) \in Nat /\ Cardinality(T) \in Nat
  BY PartsAreFinite
<1>2. S \cap T \in SUBSET Listed
  OBVIOUS
<1>3. Cardinality(S \cap T) \in Nat
  BY <1>2, PartsAreFinite
<1>4. Cardinality(S \cup T) = Cardinality(S) + Cardinality(T) - Cardinality(S \cap T)
  BY <1>1, FS_Union
<1>5. Cardinality(S \cup T) <= Cardinality(S) + Cardinality(T)
  BY <1>1, <1>3, <1>4
<1>6. S \subseteq T => Cardinality(S) <= Cardinality(T)
  BY <1>1, FS_Subset
<1> QED BY <1>5, <1>6

LEMMA TakeIs ==
  ASSUME NEW pool \in SUBSET Listed, NEW c \in SUBSET Listed, NEW m \in pool, NEW budget \in Nat
  PROVE  Takes(Take(m, budget, pool, c), m, budget, c)
<1> DEFINE group == Group(m, pool)
           near == Series(m, c)
<1>1. group \in SUBSET Listed /\ {m} \in SUBSET Listed /\ m \in group /\ near \in SUBSET Listed
  BY DEF Group, Series
<1>2. /\ Cardinality(group) \in Nat /\ Cardinality(c) \in Nat /\ Cardinality(near) \in Nat
      /\ Cardinality({m}) = 1
  <2> HIDE DEF group, near
  <2>1. Cardinality({m}) = 1
    BY FS_Singleton
  <2> QED BY <1>1, <2>1, PartsAreFinite
<1>3. Cardinality(c \cup group) <= Cardinality(c) + Cardinality(group)
  <2> HIDE DEF group
  <2> QED BY <1>1, UnionIsFinite
<1>4. Cardinality(c \cup {m}) <= Cardinality(c) + 1
  <2>1. Cardinality(c \cup {m}) <= Cardinality(c) + Cardinality({m})
    BY <1>1, UnionIsFinite
  <2> QED BY <1>2, <2>1
<1>5. /\ c \cup group \in SUBSET Listed /\ Cardinality(c \cup group) \in Nat
      /\ c \cup {m} \in SUBSET Listed /\ Cardinality(c \cup {m}) \in Nat
  <2> HIDE DEF group
  <2>1. c \cup group \in SUBSET Listed /\ c \cup {m} \in SUBSET Listed
    BY <1>1
  <2> QED BY <2>1, PartsAreFinite
<1>6. SeriesCap \in Nat
  BY IngestAssumption
<1> DEFINE full == Cardinality(c) >= budget \/ m \in c \/ Cardinality(near) >= SeriesCap
           whole == /\ Cardinality(c) + Cardinality(group) <= budget
                    /\ Cardinality(near) + Cardinality(group) <= SeriesCap
           t == Take(m, budget, pool, c)
<1>7. t = IF full THEN c ELSE IF whole THEN c \cup group ELSE c \cup {m}
  BY DEF Take
<1> HIDE DEF group, t
<1>8. CASE full
  <2>1. t = c
    BY <1>7, <1>8
  <2>2. Cardinality(c) < budget /\ Cardinality(near) < SeriesCap => m \in t
    BY <1>2, <1>6, <1>8, <2>1
  <2> QED BY <2>1, <2>2 DEF Takes, t
<1>9. CASE ~full /\ whole
  <2>1. t = c \cup group
    BY <1>7, <1>9
  <2>2. Cardinality(t) <= budget
    <3>1. Cardinality(t) <= Cardinality(c) + Cardinality(group)
      BY <1>3, <2>1
    <3>2. Cardinality(c) + Cardinality(group) <= budget
      BY <1>9
    <3>3. Cardinality(t) \in Nat
      BY <1>5, <2>1
    <3> QED BY <1>2, <3>1, <3>2, <3>3
  <2>3. ~(m \in c) /\ Cardinality(near) < SeriesCap
    BY <1>2, <1>6, <1>9
  <2> QED BY <1>1, <1>5, <2>1, <2>2, <2>3 DEF Takes, t
<1>10. CASE ~full /\ ~whole
  <2>1. t = c \cup {m}
    BY <1>7, <1>10
  <2>2. Cardinality(t) <= budget
    <3>1. Cardinality(t) <= Cardinality(c) + 1
      BY <1>4, <2>1
    <3>2. Cardinality(c) < budget
      BY <1>2, <1>10
    <3>3. Cardinality(t) \in Nat
      BY <1>5, <2>1
    <3> QED BY <1>2, <3>1, <3>2, <3>3
  <2>3. ~(m \in c) /\ Cardinality(near) < SeriesCap
    BY <1>2, <1>6, <1>10
  <2> QED BY <1>1, <1>5, <2>1, <2>2, <2>3 DEF Takes, t
<1> QED BY <1>8, <1>9, <1>10

\* What filling a budget along a queue leaves, turn by turn.
Turns(taken, q, budget, chosen) ==
  /\ taken[0] = chosen
  /\ \A n \in 0..Len(q) : taken[n] \in SUBSET Listed
  /\ \A n \in 1..Len(q) : Takes(taken[n], q[n], budget, taken[n - 1])

LEMMA FillTurns ==
  ASSUME NEW pool \in SUBSET Listed, NEW chosen \in SUBSET Listed, NEW q \in Seq(pool),
         NEW budget \in Nat
  PROVE  \E taken : /\ Turns(taken, q, budget, chosen)
                    /\ Fill(q, budget, pool, chosen) = taken[Len(q)]
<1> DEFINE N == Len(q)
           D == SUBSET Listed
           Next1(n, c) == Take(q[n], budget, pool, c)
           F(taken) == [n \in 0..N |-> IF n = 0 THEN chosen ELSE Next1(n, taken[n - 1])]
           taken == CHOOSE f : f = F(f)
           step == [x \in (1..N) \X D |-> Next1(x[1], x[2])]
<1>1. N \in Nat /\ \A n \in 1..N : q[n] \in pool
  OBVIOUS
<1> HIDE DEF N
<1>2. ASSUME NEW n \in 1..N, NEW c \in D
      PROVE  Next1(n, c) \in D /\ Takes(Next1(n, c), q[n], budget, c)
  <2>1. Takes(Next1(n, c), q[n], budget, c)
    BY <1>1, TakeIs
  <2> HIDE DEF Next1
  <2> QED BY <2>1 DEF Takes
<1> HIDE DEF Next1
<1>3. \E f : f = F(f)
  <2>1. step \in [(1..N) \X D -> D] /\ chosen \in D
    BY <1>2
  <2> HIDE DEF step, D
  <2>2. Iterated(N, D, chosen, step)
    BY <1>1, <2>1, Iterates
  <2>3. PICK f \in [0..N -> D] : f[0] = chosen /\ \A n \in 1..N : f[n] = step[<<n, f[n - 1]>>]
    BY <2>2 DEF Iterated
  <2>4. \A n \in 1..N : f[n] = Next1(n, f[n - 1])
    <3> SUFFICES ASSUME NEW n \in 1..N PROVE f[n] = Next1(n, f[n - 1])
      OBVIOUS
    <3>1. n - 1 \in 0..N
      BY <1>1
    <3>2. <<n, f[n - 1]>> \in (1..N) \X D
      BY <2>3, <3>1
    <3>3. step[<<n, f[n - 1]>>] = Next1(n, f[n - 1])
      BY <3>2 DEF step
    <3> QED BY <2>3, <3>3
  <2>5. \A n \in 0..N : n = 0 \/ n \in 1..N
    BY <1>1
  <2>6. \A n \in 0..N : f[n] = IF n = 0 THEN chosen ELSE Next1(n, f[n - 1])
    BY <2>3, <2>4, <2>5
  <2>7. f = F(f)
    BY <2>3, <2>6
  <2> QED BY <2>7
<1>4. taken = F(taken)
  <2> HIDE DEF F
  <2> QED BY <1>3
<1>5. taken[0] = chosen /\ \A n \in 1..N : taken[n] = Next1(n, taken[n - 1])
  <2>1. 0 \in 0..N /\ \A n \in 1..N : n \in 0..N /\ n # 0
    BY <1>1
  <2>2. \A n \in 0..N : taken[n] = IF n = 0 THEN chosen ELSE Next1(n, taken[n - 1])
    <3> HIDE DEF taken
    <3> QED BY <1>4
  <2> HIDE DEF taken
  <2> QED BY <2>1, <2>2
<1>6. Fill(q, budget, pool, chosen) = taken[N]
  BY DEF Fill, N, Next1
<1> HIDE DEF taken
<1>7. \A n \in 0..N : taken[n] \in D
  <2> DEFINE T == {n \in 0..N : taken[n] \in D}
  <2>1. 0 \in T
    BY <1>1, <1>5
  <2>2. \A n \in 1..N : n - 1 \in T => n \in T
    <3> HIDE DEF D
    <3> QED BY <1>1, <1>2, <1>5
  <2>3. \A n \in 0..N : n \in T
    <3> HIDE DEF T
    <3> QED BY <1>1, <2>1, <2>2, UpToBound
  <2> QED BY <2>3
<1>8. \A n \in 1..N : Takes(taken[n], q[n], budget, taken[n - 1])
  <2> SUFFICES ASSUME NEW n \in 1..N PROVE Takes(taken[n], q[n], budget, taken[n - 1])
    OBVIOUS
  <2>1. n - 1 \in 0..N
    BY <1>1
  <2>2. taken[n - 1] \in D
    BY <1>7, <2>1
  <2> QED BY <1>2, <1>5, <2>2
<1>9. Turns(taken, q, budget, chosen)
  BY <1>5, <1>7, <1>8 DEF Turns, N
<1> QED BY <1>6, <1>9 DEF N

Within(c, budget, chosen) == c = chosen \/ Cardinality(c) <= budget

\* The chosen ones only grow, and never past the budget.
LEMMA TurnsGrow ==
  ASSUME NEW q, Len(q) \in Nat, NEW budget \in Nat, NEW chosen \in SUBSET Listed, NEW taken,
         Turns(taken, q, budget, chosen), NEW k \in 0..Len(q)
  PROVE  /\ \A i \in 0..k : taken[i] \subseteq taken[k]
         /\ Within(taken[k], budget, chosen)
<1> DEFINE N == Len(q)
           T == {j \in 0..N : /\ \A i \in 0..j : taken[i] \subseteq taken[j]
                              /\ taken[j] = chosen \/ Cardinality(taken[j]) <= budget}
<1> HIDE DEF N
<1>1. N \in Nat /\ k \in 0..N
  BY DEF N
<1>2. 0 \in T
  BY <1>1 DEF Turns
<1>3. ASSUME NEW j \in 1..N, j - 1 \in T PROVE j \in T
  <2>1. Takes(taken[j], q[j], budget, taken[j - 1])
    BY DEF Turns, N
  <2>2. taken[j - 1] \subseteq taken[j]
    BY <2>1 DEF Takes
  <2>3. \A i \in 0..j : i = j \/ i \in 0..(j - 1)
    BY <1>1
  <2>4. \A i \in 0..(j - 1) : taken[i] \subseteq taken[j - 1]
    BY <1>3
  <2>5. taken[j] = chosen \/ Cardinality(taken[j]) <= budget
    BY <1>3, <2>1 DEF Takes
  <2>6. \A i \in 0..j : taken[i] \subseteq taken[j]
    BY <2>2, <2>3, <2>4
  <2> QED BY <1>1, <2>5, <2>6
<1>4. \A j \in 0..N : j \in T
  <2> HIDE DEF T
  <2> QED BY <1>1, <1>2, <1>3, UpToBound
<1> QED BY <1>1, <1>4 DEF Within

\* A market that all those before it in the queue leave the budget to is chosen.
LEMMA TurnComes ==
  ASSUME NEW q, Len(q) \in Nat, NEW budget \in Nat, NEW chosen \in SUBSET Listed, NEW taken,
         Turns(taken, q, budget, chosen), NEW k \in 1..Len(q),
         Cardinality(chosen) < budget, Cardinality(Series(q[k], chosen)) < SeriesCap,
         \A i \in 1..(k - 1) :
            q[i] \in chosen \/ ~(Cardinality(Series(q[i], chosen)) < SeriesCap)
  PROVE  q[k] \in taken[Len(q)]
<1> DEFINE N == Len(q)
           T == {j \in 0..(k - 1) : taken[j] = chosen}
<1> HIDE DEF N
<1>1. N \in Nat /\ k \in 1..N /\ k - 1 \in Nat
  BY DEF N
<1>2. 0 \in T
  BY <1>1 DEF Turns
<1>3. ASSUME NEW j \in 1..(k - 1), j - 1 \in T PROVE j \in T
  <2>1. j \in 1..N
    BY <1>1
  <2>2. Takes(taken[j], q[j], budget, taken[j - 1])
    BY <2>1 DEF Turns, N
  <2>3. taken[j] = chosen
    BY <1>3, <2>2 DEF Takes
  <2> QED BY <1>1, <2>3
<1>4. \A j \in 0..(k - 1) : j \in T
  <2> HIDE DEF T
  <2> QED BY <1>1, <1>2, <1>3, UpToBound
<1>5. taken[k - 1] = chosen
  BY <1>1, <1>4
<1>6. Takes(taken[k], q[k], budget, taken[k - 1])
  BY <1>1 DEF Turns, N
<1>7. q[k] \in taken[k]
  BY <1>5, <1>6 DEF Takes
<1>8. taken[k] \subseteq taken[N]
  <2>1. N \in 0..N /\ k \in 0..N
    BY <1>1
  <2>2. \A i \in 0..N : taken[i] \subseteq taken[N]
    BY <2>1, TurnsGrow DEF N
  <2> QED BY <2>1, <2>2
<1> QED BY <1>7, <1>8 DEF N

\* What filling the rest of the budget along a queue leaves.
Spends(r, q, chosen) ==
  /\ chosen \subseteq r /\ r \in SUBSET Listed
  /\ Cardinality(r) <= BookBudget
  /\ Cardinality(r) < BookBudget => \A n \in 1..Len(q) : q[n] \in r

LEMMA LeftoverSpends ==
  ASSUME NEW pool \in SUBSET Listed, NEW chosen \in SUBSET Listed, Cardinality(chosen) <= BookBudget
  PROVE  Spends(Leftover(pool, chosen), Sorted(ScoringEligible(pool), "score"), chosen)
<1> DEFINE q == Sorted(ScoringEligible(pool), "score")
           N == Len(q)
           D == SUBSET Listed
           Next1(n, c) == IF Cardinality(c) >= BookBudget THEN c ELSE c \cup {q[n]}
           F(taken) == [n \in 0..N |-> IF n = 0 THEN chosen ELSE Next1(n, taken[n - 1])]
           taken == CHOOSE f : f = F(f)
           step == [x \in (1..N) \X D |-> Next1(x[1], x[2])]
<1>1. N \in Nat /\ \A n \in 1..N : q[n] \in Listed
  <2>1. ScoringEligible(pool) \in SUBSET Listed
    BY DEF ScoringEligible, Tradeable
  <2>2. Queued(q, ScoringEligible(pool), "score")
    <3> DEFINE S == ScoringEligible(pool)
    <3> HIDE DEF S
    <3>1. Queued(Sorted(S, "score"), S, "score")
      BY <2>1, QueueIs DEF S
    <3> QED BY <3>1 DEF S
  <2>3. q \in Seq(Listed)
    <3> HIDE DEF q
    <3>1. q \in Seq(ScoringEligible(pool))
      BY <2>2 DEF Queued
    <3> QED BY <2>1, <3>1
  <2> HIDE DEF q
  <2> QED BY <2>3
<1> HIDE DEF q
<1> HIDE DEF N
<1>2. ASSUME NEW n \in 1..N, NEW c \in D, Cardinality(c) <= BookBudget
      PROVE  /\ Next1(n, c) \in D /\ c \subseteq Next1(n, c)
             /\ Cardinality(Next1(n, c)) <= BookBudget
             /\ Cardinality(c) < BookBudget => q[n] \in Next1(n, c)
  <2>1. {q[n]} \in SUBSET Listed
    BY <1>1
  <2>2. Cardinality(c \cup {q[n]}) <= Cardinality(c) + 1
    <3>1. Cardinality(c \cup {q[n]}) <= Cardinality(c) + Cardinality({q[n]})
      BY <2>1, UnionIsFinite
    <3>2. Cardinality({q[n]}) = 1
      BY FS_Singleton
    <3> QED BY <3>1, <3>2
  <2>3. c \cup {q[n]} \in SUBSET Listed
    BY <2>1
  <2>4. Cardinality(c) \in Nat /\ Cardinality(c \cup {q[n]}) \in Nat /\ BookBudget \in Nat
    BY <2>3, PartsAreFinite, IngestAssumption
  <2>5. CASE Cardinality(c) >= BookBudget
    <3>1. Next1(n, c) = c
      BY <2>5
    <3>2. ~(Cardinality(c) < BookBudget)
      BY <2>4, <2>5
    <3> QED BY <1>2, <3>1, <3>2
  <2>6. CASE ~(Cardinality(c) >= BookBudget)
    <3>1. Next1(n, c) = c \cup {q[n]}
      BY <2>6
    <3>2. Cardinality(c \cup {q[n]}) <= BookBudget
      BY <2>2, <2>4, <2>6
    <3> HIDE DEF Next1
    <3> QED BY <2>3, <3>1, <3>2
  <2> QED BY <2>5, <2>6
<1> HIDE DEF Next1
<1>3. \E f : f = F(f)
  <2> DEFINE E == {c \in D : Cardinality(c) <= BookBudget}
             step1 == [x \in (1..N) \X E |-> Next1(x[1], x[2])]
  <2>1. step1 \in [(1..N) \X E -> E] /\ chosen \in E
    BY <1>2
  <2> HIDE DEF step1, E
  <2>2. Iterated(N, E, chosen, step1)
    BY <1>1, <2>1, Iterates
  <2>3. PICK f \in [0..N -> E] : f[0] = chosen /\ \A n \in 1..N : f[n] = step1[<<n, f[n - 1]>>]
    BY <2>2 DEF Iterated
  <2>4. \A n \in 1..N : f[n] = Next1(n, f[n - 1])
    <3> SUFFICES ASSUME NEW n \in 1..N PROVE f[n] = Next1(n, f[n - 1])
      OBVIOUS
    <3>1. n - 1 \in 0..N
      BY <1>1
    <3>2. <<n, f[n - 1]>> \in (1..N) \X E
      BY <2>3, <3>1
    <3>3. step1[<<n, f[n - 1]>>] = Next1(n, f[n - 1])
      BY <3>2 DEF step1
    <3> QED BY <2>3, <3>3
  <2>5. \A n \in 0..N : n = 0 \/ n \in 1..N
    BY <1>1
  <2>6. \A n \in 0..N : f[n] = IF n = 0 THEN chosen ELSE Next1(n, f[n - 1])
    BY <2>3, <2>4, <2>5
  <2>7. f = F(f)
    BY <2>3, <2>6
  <2> QED BY <2>7
<1>4. taken = F(taken)
  <2> HIDE DEF F
  <2> QED BY <1>3
<1>5. taken[0] = chosen /\ \A n \in 1..N : taken[n] = Next1(n, taken[n - 1])
  <2>1. 0 \in 0..N /\ \A n \in 1..N : n \in 0..N /\ n # 0
    BY <1>1
  <2>2. \A n \in 0..N : taken[n] = IF n = 0 THEN chosen ELSE Next1(n, taken[n - 1])
    <3> HIDE DEF taken
    <3> QED BY <1>4
  <2> HIDE DEF taken
  <2> QED BY <2>1, <2>2
<1>6. Leftover(pool, chosen) = taken[N]
  BY DEF Leftover, N, Next1, q
<1> HIDE DEF taken
<1>7. \A n \in 0..N : taken[n] \in D /\ Cardinality(taken[n]) <= BookBudget
  <2> DEFINE T == {n \in 0..N : taken[n] \in D /\ Cardinality(taken[n]) <= BookBudget}
  <2>1. 0 \in T
    BY <1>1, <1>5
  <2>2. \A n \in 1..N : n - 1 \in T => n \in T
    <3> HIDE DEF D
    <3> QED BY <1>1, <1>2, <1>5
  <2>3. \A n \in 0..N : n \in T
    <3> HIDE DEF T
    <3> QED BY <1>1, <2>1, <2>2, UpToBound
  <2> QED BY <2>3
<1>8. ASSUME NEW n \in 1..N
      PROVE  /\ n - 1 \in 0..N /\ taken[n - 1] \subseteq taken[n]
             /\ Cardinality(taken[n - 1]) < BookBudget => q[n] \in taken[n]
  <2>1. n - 1 \in 0..N
    BY <1>1
  <2>2. taken[n - 1] \in D /\ Cardinality(taken[n - 1]) <= BookBudget
    BY <1>7, <2>1
  <2> QED BY <1>2, <1>5, <2>1, <2>2
<1>9. \A n \in 0..N : \A i \in 0..n : taken[i] \subseteq taken[n]
  <2> DEFINE T == {n \in 0..N : \A i \in 0..n : taken[i] \subseteq taken[n]}
  <2>1. 0 \in T
    BY <1>1
  <2>2. ASSUME NEW n \in 1..N, n - 1 \in T PROVE n \in T
    <3>1. \A i \in 0..n : i = n \/ i \in 0..(n - 1)
      BY <1>1
    <3>2. \A i \in 0..(n - 1) : taken[i] \subseteq taken[n - 1]
      BY <2>2
    <3> QED BY <1>1, <1>8, <3>1, <3>2
  <2>3. \A n \in 0..N : n \in T
    <3> HIDE DEF T
    <3> QED BY <1>1, <2>1, <2>2, UpToBound
  <2> QED BY <2>3
<1>10. N \in 0..N /\ 0 \in 0..N /\ \A n \in 1..N : n \in 0..N /\ n - 1 \in 0..N
  BY <1>1
<1>11. ASSUME Cardinality(taken[N]) < BookBudget, NEW n \in 1..N PROVE q[n] \in taken[N]
  <2>1. taken[n - 1] \in D /\ taken[N] \in D /\ taken[n - 1] \subseteq taken[N] /\ taken[n] \subseteq taken[N]
    BY <1>7, <1>9, <1>10
  <2>2. Cardinality(taken[n - 1]) <= Cardinality(taken[N])
    BY <2>1, UnionIsFinite
  <2>3. Cardinality(taken[n - 1]) < BookBudget
    BY <1>11, <2>1, <2>2, PartsAreFinite, IngestAssumption
  <2> QED BY <1>8, <2>1, <2>3
<1>12. Spends(taken[N], q, chosen)
  <2>1. chosen \subseteq taken[N] /\ taken[N] \in D /\ Cardinality(taken[N]) <= BookBudget
    BY <1>5, <1>7, <1>9, <1>10
  <2> QED BY <1>11, <2>1 DEF Spends, N
<1> QED BY <1>6, <1>12 DEF q

\* The matched legs are at most their share of the budget.
LEMMA LegsAreFew ==
  ASSUME NEW pool \in SUBSET Listed
  PROVE  MatchedLegs(pool) \in SUBSET pool /\ Cardinality(MatchedLegs(pool)) <= MatchBudget
<1> DEFINE S == Tradeable(pool) \cap matched
           q == Sorted(S, "coverage")
           I == {j \in DOMAIN q : j <= MatchBudget}
           R == {q[i] : i \in I}
           f == [i \in I |-> q[i]]
<1>1. MatchBudget \in Nat
  BY IngestAssumption
<1>2. S \in SUBSET Listed /\ S \in SUBSET pool
  BY DEF Tradeable
<1>3. Queued(q, S, "coverage")
  <2> HIDE DEF S
  <2> QED BY <1>2, QueueIs
<1> HIDE DEF S, q
<1>4. q \in Seq(S) /\ DOMAIN q = 1..Len(q) /\ Len(q) \in Nat
  BY <1>3 DEF Queued
<1>5. \A i \in I : q[i] \in S
  BY <1>4
<1>6. IsFiniteSet(I) /\ Cardinality(I) <= MatchBudget
  <2>1. I \in SUBSET (1..MatchBudget)
    BY <1>1, <1>4
  <2>2. IsFiniteSet(1..MatchBudget) /\ Cardinality(1..MatchBudget) = MatchBudget
    <3>1. IsFiniteSet(1..MatchBudget) /\ Cardinality(1..MatchBudget) = IF 1 > MatchBudget THEN 0 ELSE MatchBudget - 1 + 1
      BY <1>1, FS_Interval
    <3> QED BY <1>1, <3>1
  <2> HIDE DEF I
  <2>3. IsFiniteSet(I) /\ Cardinality(I) <= Cardinality(1..MatchBudget)
    BY <2>1, <2>2, FS_Subset
  <2> QED BY <2>2, <2>3
<1>7. f \in Surjection(I, R)
  BY DEF Surjection
<1>8. Cardinality(R) <= Cardinality(I) /\ IsFiniteSet(R)
  <2> HIDE DEF f, I, R
  <2> QED BY <1>6, <1>7, FS_Surjection
<1>9. R \in SUBSET S
  BY <1>5
<1>10. Cardinality(R) <= MatchBudget
  <2>1. Cardinality(R) \in Nat /\ Cardinality(I) \in Nat
    <3> HIDE DEF I, R
    <3> QED BY <1>6, <1>8, FS_CardinalityType
  <2> HIDE DEF I, R
  <2> QED BY <1>1, <1>6, <1>8, <2>1
<1>11. MatchedLegs(pool) = R
  BY DEF MatchedLegs, S, q
<1> HIDE DEF R
<1> QED BY <1>2, <1>9, <1>10, <1>11

\* What ReservesAreFloors says of the books picked out of a pool.
Floors(pool, picked) ==
  LET legs == MatchedLegs(pool)
      spent == ScoringPass(pool, legs)
      rest == {m \in Tradeable(pool) \ spent : Cardinality(Series(m, spent)) < SeriesCap}
  IN  /\ Cardinality(picked) <= BookBudget
      /\ legs \subseteq picked
      /\ Cardinality(spent) <= BookBudget - CoverageReserve \/ spent = legs
      /\ Cardinality(picked) < BookBudget => ScoringEligible(pool) \subseteq picked
      /\ CoverageReserve > 0 /\ Cardinality(spent) < BookBudget =>
            \A m \in rest : (\A k \in rest \ {m} : MarketOf[k].volume < MarketOf[m].volume)
                                => m \in picked

\* A pass that fills a budget keeps what was chosen and stays within it.
LEMMA FillKeeps ==
  ASSUME NEW pool \in SUBSET Listed, NEW chosen \in SUBSET Listed, NEW q \in Seq(pool),
         NEW budget \in Nat
  PROVE  /\ Fill(q, budget, pool, chosen) \in SUBSET Listed
         /\ chosen \subseteq Fill(q, budget, pool, chosen)
         /\ \/ Fill(q, budget, pool, chosen) = chosen
            \/ Cardinality(Fill(q, budget, pool, chosen)) <= budget
<1>1. PICK taken : /\ Turns(taken, q, budget, chosen)
                   /\ Fill(q, budget, pool, chosen) = taken[Len(q)]
  BY FillTurns
<1>2. Len(q) \in Nat /\ Len(q) \in 0..Len(q) /\ 0 \in 0..Len(q)
  OBVIOUS
<1>3. /\ \A i \in 0..Len(q) : taken[i] \subseteq taken[Len(q)]
      /\ taken[Len(q)] = chosen \/ Cardinality(taken[Len(q)]) <= budget
  <2> DEFINE k == Len(q)
  <2>1. k \in 0..Len(q)
    BY <1>2
  <2> HIDE DEF k
  <2>2. \A i \in 0..k : taken[i] \subseteq taken[k]
    BY <1>1, <1>2, <2>1, TurnsGrow
  <2>3. Within(taken[k], budget, chosen)
    BY <1>1, <1>2, <2>1, TurnsGrow
  <2> QED BY <2>2, <2>3 DEF k, Within
<1>4. taken[0] = chosen /\ taken[Len(q)] \in SUBSET Listed
  BY <1>1, <1>2 DEF Turns
<1> QED BY <1>1, <1>2, <1>3, <1>4

\* The queue of the coverage pass holds every market that could be traded, and a market
\* with more volume than any the pass could still choose is the first it chooses.
LEMMA CoverageReaches ==
  ASSUME NEW pool \in SUBSET Listed, NEW spent \in SUBSET Listed, NEW m \in Tradeable(pool) \ spent,
         CoverageReserve > 0, Cardinality(spent) < BookBudget,
         Cardinality(Series(m, spent)) < SeriesCap,
         \A k \in {x \in Tradeable(pool) \ spent : Cardinality(Series(x, spent)) < SeriesCap} \ {m} :
            MarketOf[k].volume < MarketOf[m].volume
  PROVE  m \in CoveragePass(pool, spent)
<1> DEFINE S == Tradeable(pool)
           q == Sorted(S, "coverage")
<1>1. S \in SUBSET Listed /\ S \in SUBSET pool
  BY DEF Tradeable
<1>2. Queued(q, S, "coverage")
  <2> HIDE DEF S
  <2> QED BY <1>1, QueueIs
<1>3. CoveragePass(pool, spent) = Fill(q, BookBudget, pool, spent)
  <2>1. ~(CoverageReserve <= 0)
    BY IngestAssumption
  <2> QED BY <2>1 DEF CoveragePass
<1>4. m \in S /\ m \notin spent
  OBVIOUS
<1>5. \A k \in S : k # m /\ ~(k \in spent) /\ Cardinality(Series(k, spent)) < SeriesCap
                      => MarketOf[k].volume < MarketOf[m].volume
  OBVIOUS
<1> HIDE DEF q
<1> HIDE DEF S
<1>6. /\ q \in Seq(pool) /\ Len(q) \in Nat
      /\ \A k, j \in 1..Len(q) : k # j => q[k] # q[j]
      /\ \A k, j \in 1..Len(q) : k <= j => Traded[q[k]] <= Traded[q[j]]
      /\ \A k \in 1..Len(q) : q[k] \in S
  <2>1. q \in Seq(S)
    BY <1>2 DEF Queued
  <2>2. q \in Seq(pool) /\ Len(q) \in Nat /\ \A k \in 1..Len(q) : q[k] \in S
    BY <1>1, <2>1
  <2> QED BY <1>2, <2>2 DEF Queued
<1>7. PICK n \in 1..Len(q) : q[n] = m
  BY <1>2, <1>4 DEF Queued
<1>8. ASSUME NEW i \in 1..(n - 1)
      PROVE  q[i] \in spent \/ ~(Cardinality(Series(q[i], spent)) < SeriesCap)
  <2>1. i \in 1..Len(q) /\ i <= n /\ i # n
    BY <1>6
  <2>2. q[i] \in S /\ q[i] # m /\ Traded[q[i]] <= Traded[m]
    BY <1>6, <1>7, <2>1
  <2>3. q[i] \in Listed /\ m \in Listed
    BY <1>1, <1>4, <2>2
  <2>4. -MarketOf[q[i]].volume <= -MarketOf[m].volume
    BY <2>2, <2>3 DEF Traded
  <2>5. MarketOf[q[i]].volume \in Nat /\ MarketOf[m].volume \in Nat
    BY <2>3, IngestAssumption
  <2>6. ~(MarketOf[q[i]].volume < MarketOf[m].volume)
    BY <2>4, <2>5
  <2> QED BY <1>5, <2>2, <2>6
<1>9. PICK taken : /\ Turns(taken, q, BookBudget, spent)
                   /\ Fill(q, BookBudget, pool, spent) = taken[Len(q)]
  BY <1>6, FillTurns, IngestAssumption
<1>10. q[n] \in taken[Len(q)]
  <2>1. BookBudget \in Nat /\ Cardinality(Series(q[n], spent)) < SeriesCap
    BY <1>7, IngestAssumption
  <2> QED BY <1>6, <1>8, <1>9, <2>1, TurnComes
<1> QED BY <1>3, <1>7, <1>9, <1>10

LEMMA SelectHolds ==
  ASSUME NEW pool \in SUBSET Listed
  PROVE  Floors(pool, Select(pool)) /\ Select(pool) \in SUBSET Listed
<1> DEFINE legs == MatchedLegs(pool)
           spent == ScoringPass(pool, legs)
           covered == CoveragePass(pool, spent)
           picked == Select(pool)
           rest == {m \in Tradeable(pool) \ spent : Cardinality(Series(m, spent)) < SeriesCap}
           budget == IF BookBudget > CoverageReserve THEN BookBudget - CoverageReserve ELSE 0
<1>1. BookBudget \in Nat /\ CoverageReserve \in 0..BookBudget /\ MatchBudget \in 0..BookBudget
  BY IngestAssumption
<1>2. budget \in Nat /\ budget = BookBudget - CoverageReserve
  BY <1>1
<1>3. legs \in SUBSET Listed /\ Cardinality(legs) <= MatchBudget /\ Cardinality(legs) \in Nat
  <2>1. legs \in SUBSET Listed /\ Cardinality(legs) <= MatchBudget
    BY LegsAreFew
  <2> HIDE DEF legs
  <2> QED BY <2>1, PartsAreFinite
<1>4. picked = Leftover(pool, covered)
  BY DEF Select
<1> HIDE DEF legs
<1>5. /\ spent \in SUBSET Listed /\ legs \subseteq spent
      /\ spent = legs \/ Cardinality(spent) <= budget
  <2> DEFINE S == ScoringEligible(pool)
             q == Sorted(S, "score")
  <2>1. S \in SUBSET pool
    BY DEF ScoringEligible, Tradeable
  <2>2. spent = Fill(q, budget, pool, legs)
    BY DEF ScoringPass
  <2> HIDE DEF S
  <2>3. Queued(q, S, "score")
    BY <2>1, QueueIs
  <2> HIDE DEF q
  <2>4. q \in Seq(S)
    BY <2>3 DEF Queued
  <2>5. q \in Seq(pool)
    BY <2>1, <2>4
  <2> HIDE DEF spent, budget
  <2> QED BY <1>2, <1>3, <2>2, <2>5, FillKeeps
<1>6. Cardinality(spent) <= BookBudget /\ Cardinality(spent) \in Nat
  <2>1. Cardinality(spent) \in Nat
    <3> HIDE DEF spent
    <3> QED BY <1>5, PartsAreFinite
  <2> HIDE DEF spent, budget
  <2>2. CASE spent = legs
    BY <1>1, <1>3, <2>1, <2>2
  <2>3. CASE Cardinality(spent) <= budget
    BY <1>1, <1>2, <2>1, <2>3
  <2> QED BY <1>5, <2>1, <2>2, <2>3
<1>7. /\ covered \in SUBSET Listed /\ spent \subseteq covered
      /\ covered = spent \/ Cardinality(covered) <= BookBudget
  <2> DEFINE S == Tradeable(pool)
             q == Sorted(S, "coverage")
  <2>1. S \in SUBSET pool
    BY DEF Tradeable
  <2>2. covered = spent \/ covered = Fill(q, BookBudget, pool, spent)
    <3> HIDE DEF spent
    <3> QED BY DEF CoveragePass
  <2> HIDE DEF S
  <2>3. Queued(q, S, "coverage")
    BY <2>1, QueueIs
  <2> HIDE DEF q
  <2>4. q \in Seq(S)
    BY <2>3 DEF Queued
  <2>5. q \in Seq(pool)
    BY <2>1, <2>4
  <2> HIDE DEF spent, covered
  <2>6. /\ Fill(q, BookBudget, pool, spent) \in SUBSET Listed
        /\ spent \subseteq Fill(q, BookBudget, pool, spent)
        /\ \/ Fill(q, BookBudget, pool, spent) = spent
           \/ Cardinality(Fill(q, BookBudget, pool, spent)) <= BookBudget
    BY <1>1, <1>5, <2>5, FillKeeps
  <2> QED BY <1>5, <2>2, <2>6
<1>8. Cardinality(covered) <= BookBudget
  <2> HIDE DEF spent, covered
  <2> QED BY <1>6, <1>7
<1> DEFINE T == ScoringEligible(pool)
           q == Sorted(T, "score")
<1>9. Queued(q, T, "score")
  <2>1. T \in SUBSET Listed
    BY DEF ScoringEligible, Tradeable
  <2> HIDE DEF T
  <2> QED BY <2>1, QueueIs
<1>10. Spends(picked, q, covered)
  <2> HIDE DEF spent, covered, picked
  <2> QED BY <1>4, <1>7, <1>8, LeftoverSpends
<1>11. \A m \in rest : (\A k \in rest \ {m} : MarketOf[k].volume < MarketOf[m].volume)
           => (CoverageReserve > 0 /\ Cardinality(spent) < BookBudget => m \in covered)
  <2> HIDE DEF spent
  <2> SUFFICES ASSUME NEW m \in rest, CoverageReserve > 0, Cardinality(spent) < BookBudget,
                      \A k \in rest \ {m} : MarketOf[k].volume < MarketOf[m].volume
               PROVE  m \in covered
    OBVIOUS
  <2>1. m \in Tradeable(pool) \ spent /\ Cardinality(Series(m, spent)) < SeriesCap
    OBVIOUS
  <2> QED BY <1>5, <2>1, CoverageReaches
<1>12. Cardinality(picked) < BookBudget => T \subseteq picked
  <2> HIDE DEF T, q, picked
  <2> SUFFICES ASSUME Cardinality(picked) < BookBudget, NEW m \in T PROVE m \in picked
    OBVIOUS
  <2>1. PICK n \in 1..Len(q) : q[n] = m
    BY <1>9 DEF Queued
  <2> QED BY <1>10, <2>1 DEF Spends
<1>13. /\ covered \subseteq picked /\ picked \in SUBSET Listed /\ Cardinality(picked) <= BookBudget
  <2> HIDE DEF picked, covered
  <2> QED BY <1>10 DEF Spends
<1>14. /\ legs \subseteq picked
       /\ Cardinality(spent) <= BookBudget - CoverageReserve \/ spent = legs
  <2> HIDE DEF spent, covered, picked, budget
  <2> QED BY <1>2, <1>5, <1>7, <1>13
<1>15. CoverageReserve > 0 /\ Cardinality(spent) < BookBudget =>
         \A m \in rest : (\A k \in rest \ {m} : MarketOf[k].volume < MarketOf[m].volume)
                              => m \in picked
  <2> HIDE DEF spent, covered, picked, rest
  <2> QED BY <1>11, <1>13
<1>16. Floors(pool, picked)
  <2> HIDE DEF picked
  <2> QED BY <1>12, <1>13, <1>14, <1>15 DEF Floors, legs
<1> QED BY <1>13, <1>16

-----------------------------------------------------------------------------
(* The inductive invariant.                                                *)

Cycles == [n : Nat, phase : {"idle", "selected", "fetched", "stored"},
           listing : SUBSET Listed, picked : SUBSET Listed, books : SUBSET Listed]

IngestInv ==
  /\ rows \subseteq Listed /\ cycle \in Cycles
  /\ cycle.phase = "selected" => cycle.picked = Select(cycle.listing \cup (matched \cap rows))

\* The shares of the order-book budget that select_for_orderbooks keeps for the legs of
\* verified matches and for the most traded markets are floors, whatever a cycle lists
\* and whatever the matcher verified before it, and no cycle asks for more books than
\* its budget: the pools the cycles meet, and what the three passes and the leftover of
\* the budget make of each, are those of the run's property.
THEOREM BudgetIsShared == IngestSpec => []ReservesAreFloors
<1>1. IngestInit => IngestInv
  <2> SUFFICES ASSUME IngestInit PROVE IngestInv
    OBVIOUS
  <2>1. cycle.phase = "idle" /\ cycle \in Cycles
    BY DEF IngestInit, Cycles
  <2> QED BY <2>1 DEF IngestInit, IngestInv
<1>2. IngestInv /\ [IngestNext]_ingestVars => IngestInv'
  <2> SUFFICES ASSUME IngestInv, [IngestNext]_ingestVars PROVE IngestInv'
    OBVIOUS
  <2>1. CASE FetchListing
    <3>1. PICK listing \in Listings :
             cycle' = [n |-> cycle.n + 1, phase |-> "selected", listing |-> listing,
                       picked |-> Select(listing \cup (matched \cap rows)), books |-> {}]
      BY <2>1 DEF FetchListing
    <3>2. rows' = rows /\ matched' = matched
      BY <2>1 DEF FetchListing
    <3>3. (cycle.listing)' = listing
          /\ (cycle.picked)' = Select(listing \cup (matched \cap rows))
      BY <3>1
    <3>4. cycle' \in Cycles
      <4>1. listing \in SUBSET Listed /\ listing \cup (matched \cap rows) \in SUBSET Listed
        BY IngestAssumption DEF IngestInv
      <4>2. Select(listing \cup (matched \cap rows)) \in SUBSET Listed
        BY <4>1, SelectHolds
      <4>3. cycle.n + 1 \in Nat
        BY DEF IngestInv, Cycles
      <4> QED BY <3>1, <4>1, <4>2, <4>3 DEF Cycles
    <3> DEFINE pool == cycle.listing \cup (matched \cap rows)
    <3>5. pool' = listing \cup (matched \cap rows)
      BY <3>2, <3>3
    <3>6. Select(pool)' = Select(listing \cup (matched \cap rows))
      <4> HIDE DEF pool
      <4> QED BY <3>2, <3>5 DEF Select, MatchedLegs
    <3> QED BY <3>2, <3>3, <3>4, <3>6 DEF IngestInv
  <2>2. CASE FetchBooks
    <3>1. PICK books \in SUBSET cycle.picked :
             cycle' = [cycle EXCEPT !.phase = "fetched", !.books = books]
      BY <2>2 DEF FetchBooks
    <3>2. cycle' = [n |-> cycle.n, phase |-> "fetched", listing |-> cycle.listing,
                    picked |-> cycle.picked, books |-> books]
      BY <3>1 DEF IngestInv, Cycles
    <3>3. cycle' \in Cycles /\ (cycle.phase)' = "fetched"
      BY <3>2 DEF IngestInv, Cycles
    <3> QED BY <2>2, <3>3 DEF FetchBooks, IngestInv
  <2>3. CASE Persist
    <3>1. cycle' = [cycle EXCEPT !.phase = "stored"] /\ rows' = rows \cup cycle.listing
      BY <2>3 DEF Persist
    <3>2. cycle' = [n |-> cycle.n, phase |-> "stored", listing |-> cycle.listing,
                    picked |-> cycle.picked, books |-> cycle.books]
      BY <3>1 DEF IngestInv, Cycles
    <3>3. cycle' \in Cycles /\ (cycle.phase)' = "stored" /\ rows' \subseteq Listed
      BY <3>1, <3>2 DEF IngestInv, Cycles
    <3> QED BY <3>3 DEF IngestInv
  <2>4. CASE Rematch
    <3>1. /\ cycle' = [cycle EXCEPT !.phase = "idle", !.listing = {}, !.picked = {}, !.books = {}]
          /\ rows' = rows
      BY <2>4 DEF Rematch
    <3>2. cycle' = [n |-> cycle.n, phase |-> "idle", listing |-> {}, picked |-> {}, books |-> {}]
      BY <3>1 DEF IngestInv, Cycles
    <3>3. cycle' \in Cycles /\ (cycle.phase)' = "idle"
      BY <3>2 DEF IngestInv, Cycles
    <3> QED BY <3>1, <3>3 DEF IngestInv
  <2>5. CASE UNCHANGED ingestVars
    <3>1. rows' = rows /\ matched' = matched /\ cycle' = cycle
      BY <2>5 DEF ingestVars
    <3> DEFINE pool == cycle.listing \cup (matched \cap rows)
    <3>2. pool' = pool
      BY <3>1
    <3>3. Select(pool)' = Select(pool)
      <4> HIDE DEF pool
      <4> QED BY <3>1, <3>2 DEF Select, MatchedLegs
    <3> QED BY <3>1, <3>3 DEF IngestInv
  <2> QED BY <2>1, <2>2, <2>3, <2>4, <2>5 DEF IngestNext
<1>3. IngestInv => ReservesAreFloors
  <2> SUFFICES ASSUME IngestInv, cycle.phase = "selected" PROVE ReservesAreFloors
    BY DEF ReservesAreFloors
  <2> DEFINE pool == cycle.listing \cup (matched \cap rows)
  <2>1. pool \in SUBSET Listed /\ cycle.picked = Select(pool)
    BY DEF IngestInv, Cycles
  <2>2. Floors(pool, cycle.picked)
    <3> HIDE DEF pool
    <3> QED BY <2>1, SelectHolds
  <2> QED BY <2>2 DEF Floors, ReservesAreFloors
<1> QED BY <1>1, <1>2, <1>3, PTL DEF IngestSpec
=============================================================================
