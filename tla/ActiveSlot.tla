----------------------------- MODULE ActiveSlot -----------------------------
(***************************************************************************)
(* What the run lease promises, with no rows, clocks or transactions: one  *)
(* slot per idempotency key, held by at most one invocation, given up by   *)
(* its holder or taken over from a holder that no longer proves it is      *)
(* alive (uq_jobrun_active_key and the comments of _claim_active_key).     *)
(***************************************************************************)
CONSTANTS Runs, Nobody

VARIABLES holder,   \* the invocation whose row is running, or Nobody
          lost      \* the invocations that died or stopped proving liveness

slotVars == <<holder, lost>>

Init == holder = Nobody /\ lost = {}

Acquire(r) == holder = Nobody /\ holder' = r /\ lost' = lost

Release == holder' = Nobody /\ lost' = lost

TakeOver(r) == holder \in lost /\ holder' = r /\ lost' = lost

Lose(r) == lost' = lost \cup {r} /\ holder' = holder

\* The identifier of a lost invocation that holds nothing is used again.
Recycle(r) == r # holder /\ lost' = lost \ {r} /\ holder' = holder

Next == Release \/ \E r \in Runs : Acquire(r) \/ TakeOver(r) \/ Lose(r) \/ Recycle(r)

Spec == Init /\ [][Next]_slotVars
=============================================================================
