---------------------------- MODULE ObservationStore ----------------------------
(***************************************************************************)
(* The point-in-time record of a source, and the shadow decisions that rest   *)
(* on it: the forecast poll (jobs.py job_forecast_observations with            *)
(* alpha/collection.py), the payload store, the view as of an instant          *)
(* (alpha/pit.py), and the ledger of sealed decisions (alpha/store.py).       *)
(*                                                                         *)
(* A source issues forecasts; a poll takes time, may fail, and may read a      *)
(* publication time that our clock has not reached.  Research passes decide    *)
(* at the present instant or run again for an earlier one.                    *)
(***************************************************************************)
EXTENDS Integers, Sequences, FiniteSets, FiniteSetsExt

CONSTANTS
    Values,             \* what a forecast can say
    Skews,              \* how far the source's clock is ahead of ours
    LastInstant,        \* bound: the last instant
    MaxRows,            \* bound: recorded observations
    MaxDecisions,       \* bound: published decisions
    MaxOutcomes         \* bound: appended outcomes

ASSUME ObservationAssumption == Skews \subseteq Nat

VARIABLES clock, source, poll, payloads, observations, decisions, outcomes
observationVars ==
    <<clock, source, poll, payloads, observations, decisions, outcomes>>

NoPoll == [pc |-> "none", started |-> 0, read |-> 0, completed |-> 0, forecast |-> [value |-> 0, published |-> 0]]

ObservationInit ==
    /\ clock = 0
    /\ source \in [value : Values, published : {0}]
    /\ poll = NoPoll
    /\ payloads = {}
    /\ observations = <<>>
    /\ decisions = {}
    /\ outcomes = {}

-----------------------------------------------------------------------------
(* The source and one poll *)

Tick ==
    /\ clock < LastInstant
    /\ clock' = clock + 1
    /\ UNCHANGED <<source, poll, payloads, observations, decisions, outcomes>>

\* A new forecast, stamped by the source's own clock; its value may be an old one.
Issue ==
    /\ \E v \in Values, skew \in Skews :
          /\ clock + skew > source.published
          /\ source' = [value |-> v, published |-> clock + skew]
    /\ UNCHANGED <<clock, poll, payloads, observations, decisions, outcomes>>

StartPoll ==
    /\ poll.pc = "none"
    /\ Len(observations) < MaxRows
    /\ poll' = [NoPoll EXCEPT !.pc = "asked", !.started = clock]
    /\ UNCHANGED <<clock, source, payloads, observations, decisions, outcomes>>

\* The source answers somewhere inside the request.
Answer ==
    /\ poll.pc = "asked"
    /\ poll' = [poll EXCEPT !.pc = "answered", !.read = clock, !.forecast = source]
    /\ UNCHANGED <<clock, source, payloads, observations, decisions, outcomes>>

\* PollWindow.finish: the instant the answer is in hand.
FinishPoll ==
    /\ poll.pc = "answered"
    /\ poll' = [poll EXCEPT !.pc = "finished", !.completed = clock]
    /\ UNCHANGED <<clock, source, payloads, observations, decisions, outcomes>>

\* A request that fails leaves a row of poll_attempts, a log that is left out.
PollFails ==
    /\ poll.pc = "asked"
    /\ poll' = NoPoll
    /\ UNCHANGED <<clock, source, payloads, observations, decisions, outcomes>>

\* Mutant of AvailableAt: usable from the start of the request.
FromTheStart(p) == p.started

\* Usable from the completion of the poll, never from publication or start.
AvailableAt(p) == p.completed

\* A source that published after we finished reading it is refused: the
\* exception takes the transaction, with the poll's log row, and the job along.
Undisciplined(p) == p.forecast.published > AvailableAt(p)

Refuse ==
    /\ poll.pc = "finished" /\ Undisciplined(poll)
    /\ poll' = NoPoll
    /\ UNCHANGED <<clock, source, payloads, observations, decisions, outcomes>>

\* PayloadStore.put, before the row: bytes that are there already are left alone.
Put ==
    /\ poll.pc = "finished" /\ ~Undisciplined(poll)
    /\ payloads' = payloads \cup {poll.forecast}
    /\ poll' = [poll EXCEPT !.pc = "stored"]
    /\ UNCHANGED <<clock, source, observations, decisions, outcomes>>

\* One row for the value and the instant it became available; an observation of
\* the same instant is a duplicate, and its savepoint is rolled back.
Record ==
    /\ poll.pc = "stored"
    /\ observations' =
          IF \E i \in DOMAIN observations : observations[i].available = AvailableAt(poll)
          THEN observations
          ELSE Append(observations, [forecast |-> poll.forecast, available |-> AvailableAt(poll),
                                     read |-> poll.read])
    /\ poll' = NoPoll
    /\ UNCHANGED <<clock, source, payloads, decisions, outcomes>>

\* The worker dies: a stored payload without a row is all that can be left.
PollDies ==
    /\ poll.pc # "none"
    /\ poll' = NoPoll
    /\ UNCHANGED <<clock, source, payloads, observations, decisions, outcomes>>

-----------------------------------------------------------------------------
(* What was known at an instant, and decisions *)

KnownBy(observation, t) == observation.available <= t

AsOf(t) == {observations[i] : i \in {j \in DOMAIN observations : KnownBy(observations[j], t)}}

\* The two newest of a view: what a change of the source is measured from.
Newest(view) == {o \in view : Cardinality({p \in view : p.available > o.available}) < 2}

\* A pass decides for an instant, now or again for an earlier one: its identity
\* is the instant, and its content the evidence it froze.
Decide ==
    /\ Cardinality(decisions) < MaxDecisions
    /\ \E t \in 0..clock :
          /\ Newest(AsOf(t)) # {}
          \* Published already: the same content is a no-op, another is refused.
          /\ \A d \in decisions : d.for # t
          /\ decisions' = decisions \cup {[for |-> t, at |-> clock, evidence |-> Newest(AsOf(t))]}
    /\ UNCHANGED <<clock, source, poll, payloads, observations, outcomes>>

\* Something that happened after a decision, never before it.
AppendOutcome ==
    /\ Cardinality(outcomes) < MaxOutcomes
    /\ \E d \in decisions, t \in 0..clock :
          /\ t >= d.for
          /\ outcomes' = outcomes \cup {[of |-> d.for, observed |-> t]}
    /\ UNCHANGED <<clock, source, poll, payloads, observations, decisions>>

ObservationNext ==
    \/ Tick \/ Issue \/ StartPoll \/ Answer \/ FinishPoll \/ PollFails \/ Refuse
    \/ Put \/ Record \/ PollDies \/ Decide \/ AppendOutcome

ObservationSpec == ObservationInit /\ [][ObservationNext]_observationVars

-----------------------------------------------------------------------------
(* Properties *)

\* A decision, live or run again, rests on what this system had read by its
\* instant and can show: no forecast issued or read later, and each with its
\* payload (alpha/pit.py:1, collection.py:75, payload_store.py:1).
EvidenceCanBeShown ==
    \A d \in decisions : \A o \in d.evidence :
        /\ o.read <= d.for
        /\ o.forecast.published <= d.for
        /\ o.forecast \in payloads
=============================================================================
