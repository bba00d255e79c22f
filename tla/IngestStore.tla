------------------------------ MODULE IngestStore ------------------------------
(***************************************************************************)
(* The keyed upserts of the ingest (ingest/store.py, rule_history.py) when     *)
(* two sessions write the same market at once: a SELECT, an INSERT that skips  *)
(* when the key is taken (insert_or_skip), a reload, and an update in place.   *)
(*                                                                         *)
(* An uncommitted row is invisible to the other session's SELECT, and an        *)
(* INSERT of the same key waits for its fate: PostgreSQL's unique index at      *)
(* READ COMMITTED; SQLite's single writer allows fewer interleavings.          *)
(***************************************************************************)
EXTENDS Integers, FiniteSets, FiniteSetsExt

CONSTANTS Writers,    \* sessions ingesting the market
          Wordings,   \* the texts its rules take
          Trades,     \* the prints it has
          Rewordings  \* how often the venue rewords it: a bound of the model

ASSUME StoreAssumption == "committed" \notin Writers

VARIABLES table,    \* rows [key, by, version]: by is the writer until it commits
          session,   \* [writer -> what its session is doing]
          venue,    \* [wording, changes]: the venue's present text
          kept,     \* wordings of committed ingests
          counted   \* [trade -> committed ingests that counted it as written]

storeVars == <<table, session, venue, kept, counted>>

Committed == "committed"
MarketKey == <<"market", "itself">>
RuleKey(w) == <<"rule", w>>
TradeKey(t) == <<"trade", t>>

\* What a session sees, and what stands in the way of its INSERT.
Visible(s) == {r \in table : r.by \in {s, Committed}}
Sees(s, key) == \E r \in Visible(s) : r.key = key
Blocked(s, key) == \E r \in table : r.key = key /\ r.by \notin {s, Committed}

Versions(rows) == {r.version : r \in {q \in rows : q.key[1] = "rule"}}
NextVersion(s) == Max(Versions(Visible(s)) \cup {0}) + 1

Away == [pc |-> "away", wording |-> "none", trade |-> "none", missed |-> FALSE, version |-> 0,
         wrote |-> {}]

StoreInit ==
    /\ table = {} /\ kept = {}
    /\ session = [s \in Writers |-> Away]
    /\ venue \in [wording : Wordings, changes : {0}]
    /\ counted = [t \in Trades |-> 0]

Reworded ==
    /\ venue.changes < Rewordings
    /\ \E w \in Wordings \ {venue.wording} :
          venue' = [wording |-> w, changes |-> venue.changes + 1]
    /\ UNCHANGED <<table, session, kept, counted>>

\* A cycle begins with the text and the print the venue returns now, and looks the
\* market up.
StartWrite(s) ==
    /\ session[s].pc = "away"
    /\ \E t \in Trades :
          session' = [session EXCEPT ![s] = [pc |-> "market", wording |-> venue.wording,
                                           trade |-> t, missed |-> ~Sees(s, MarketKey),
                                           version |-> 0, wrote |-> {}]]
    /\ UNCHANGED <<table, venue, kept, counted>>

\* insert_or_skip, and whether this writer inserted.
Inserted(s, key, version) ==
    IF \E r \in table : r.key = key THEN table
    ELSE table \cup {[key |-> key, by |-> s, version |-> version]}

\* upsert_markets (upsert_events, _upsert_outcomes and _upsert_rule likewise):
\* the row is created if it was missed, and overwritten either way; then
\* record_rule_version looks the wording up, and the version it would follow.
UpsertMarket(s) ==
    /\ session[s].pc = "market"
    /\ session[s].missed => ~Blocked(s, MarketKey)
    /\ table' = IF session[s].missed THEN Inserted(s, MarketKey, 0) ELSE table
    /\ session' = [session EXCEPT ![s].pc = "rule",
                                ![s].missed = ~Sees(s, RuleKey(session[s].wording)),
                                ![s].version = NextVersion(s)]
    /\ UNCHANGED <<venue, kept, counted>>

\* record_rule_version: a wording seen before only has its last_observed_at moved.
RecordVersion(s) ==
    LET key == RuleKey(session[s].wording) IN
    /\ session[s].pc = "rule"
    /\ session[s].missed => ~Blocked(s, key)
    /\ table' = IF session[s].missed THEN Inserted(s, key, session[s].version) ELSE table
    /\ session' = [session EXCEPT ![s].pc = "trade",
                                ![s].missed = ~Sees(s, TradeKey(session[s].trade))]
    /\ UNCHANGED <<venue, kept, counted>>

\* Mutant of Wrote: a print counts as written whenever the SELECT missed it.
WroteOnMiss(s, key) == IF session[s].missed THEN {session[s].trade} ELSE {}

\* store_trades counts a print only if its own INSERT put it there.
Wrote(s, key) ==
    IF session[s].missed /\ ~(\E r \in table : r.key = key) THEN {session[s].trade} ELSE {}

StoreTrade(s) ==
    LET key == TradeKey(session[s].trade) IN
    /\ session[s].pc = "trade"
    /\ session[s].missed => ~Blocked(s, key)
    /\ table' = IF session[s].missed THEN Inserted(s, key, 0) ELSE table
    /\ session' = [session EXCEPT ![s].pc = "commit", ![s].wrote = Wrote(s, key)]
    /\ UNCHANGED <<venue, kept, counted>>

CommitWrite(s) ==
    /\ session[s].pc = "commit"
    /\ table' = {IF r.by = s THEN [r EXCEPT !.by = Committed] ELSE r : r \in table}
    /\ kept' = kept \cup {session[s].wording}
    /\ counted' = [t \in Trades |-> IF t \in session[s].wrote THEN counted[t] + 1
                                    ELSE counted[t]]
    /\ session' = [session EXCEPT ![s] = Away]
    /\ UNCHANGED venue

\* The session is lost, and its transaction with it.
Rollback(s) ==
    /\ session[s].pc # "away"
    /\ table' = {r \in table : r.by # s}
    /\ session' = [session EXCEPT ![s] = Away]
    /\ UNCHANGED <<venue, kept, counted>>

StoreNext ==
    \/ Reworded
    \/ \E s \in Writers : \/ StartWrite(s) \/ UpsertMarket(s) \/ RecordVersion(s)
                          \/ StoreTrade(s) \/ CommitWrite(s) \/ Rollback(s)

StoreSpec == StoreInit /\ [][StoreNext]_storeVars

-----------------------------------------------------------------------------
(* What the store keeps, whoever wrote it. *)

\* Of every ingest that committed, the market has one row, the wording it saw has
\* one row in the rule history, which no later ingest removes, and each print
\* stored was counted as written by exactly one ingest (upsert_markets,
\* record_rule_version, store_trades).
WritesHappenOnce ==
    LET stored(key) == Cardinality({r \in table : r.key = key /\ r.by = Committed}) IN
    /\ kept # {} => stored(MarketKey) = 1
    /\ \A w \in kept : stored(RuleKey(w)) = 1
    /\ \A t \in Trades : counted[t] = stored(TradeKey(t))

=============================================================================
