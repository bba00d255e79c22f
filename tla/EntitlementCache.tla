-------------------------- MODULE EntitlementCache --------------------------
(***************************************************************************)
(* The entitlement cache of the web app: the subscription of one user as   *)
(* the Stripe webhook last wrote it into Clerk metadata.                   *)
(*                                                                         *)
(* Stripe delivers events at least once and in any order, several handlers *)
(* run at a time, and every await in route.ts and entitlement.ts is a step *)
(* boundary: retrieve the subscription, read the metadata and guard, write,*)
(* read back.  Clerk's write is unconditional.  The checkout route writes  *)
(* the customer id, under a key of its own.                                *)
(*                                                                         *)
(* Event e announces the e-th state of the subscription, so events are     *)
(* numbers and a number is also the state a handler retrieved.  0 stands   *)
(* for no event and for no subscription.                                   *)
(***************************************************************************)
EXTENDS Integers

CONSTANTS
  N,          \* bound: events Stripe creates
  Created,    \* event |-> event.created, in seconds
  Handlers,   \* webhook invocations that may run at a time
  ATTEMPTS,   \* LOST_UPDATE_ATTEMPTS
  MAX_DUPES,  \* bound: deliveries Stripe did not need
  MAX_FAULTS  \* bound: calls that fail, handlers that die

Events == 1..N

ASSUME EntitlementAssumption ==
  /\ N \in Nat /\ ATTEMPTS \in Nat \ {0}
  /\ MAX_DUPES \in Nat /\ MAX_FAULTS \in Nat
  /\ Created \in [Events -> Nat]
  /\ \A d, e \in Events : d <= e => Created[d] <= Created[e]

VARIABLES
  stripe,    \* the subscription at Stripe; events 1..stripe exist
  acked,     \* events Stripe got a 200 for
  record,    \* billing.lastStripeEventId and with it lastStripeEventCreated
  cached,    \* the rest of billing: the subscription the handler retrieved
  customer,  \* is billingCustomer set?
  checkout,  \* what a checkout that remembers the customer id has read
  pc,        \* handler |-> where it is
  event,     \* handler |-> the event it handles
  next,      \* handler |-> the subscription it retrieved
  seen,      \* handler |-> the record its guards passed
  attempt,   \* handler |-> passes of applyEntitlement
  dupes, faults,
  excuses    \* why an acknowledged event may be missing, for the properties

handlerVars == <<pc, event, next, seen, attempt>>
vars == <<stripe, acked, record, cached, customer, checkout, handlerVars,
          dupes, faults, excuses>>

NoRead == -1   \* getPrivateMetadata failed and answered {}
NotChecking == [record |-> NoRead, cached |-> NoRead]

-----------------------------------------------------------------------------
Init ==
  /\ stripe = 0 /\ acked = {}
  /\ record = 0 /\ cached = 0
  /\ customer = FALSE /\ checkout = NotChecking
  /\ pc = [h \in Handlers |-> "idle"]
  /\ event = [h \in Handlers |-> 0]
  /\ next = [h \in Handlers |-> 0]
  /\ seen = [h \in Handlers |-> 0]
  /\ attempt = [h \in Handlers |-> 0]
  /\ dupes = 0 /\ faults = 0 /\ excuses = {}

\* The subscription changes at Stripe, which creates an event.
Change ==
  /\ stripe < N
  /\ stripe' = stripe + 1
  /\ UNCHANGED <<acked, record, cached, customer, checkout, handlerVars,
                 dupes, faults, excuses>>

Fault == faults < MAX_FAULTS /\ faults' = faults + 1

\* A handler is done with its event.
Leave(h) ==
  /\ pc' = [pc EXCEPT ![h] = "idle"]
  /\ event' = [event EXCEPT ![h] = 0]
  /\ next' = [next EXCEPT ![h] = 0]
  /\ seen' = [seen EXCEPT ![h] = 0]
  /\ attempt' = [attempt EXCEPT ![h] = 0]

\* 200: Stripe will not deliver the event again on its own.
Ack(h) == Leave(h) /\ acked' = acked \cup {event[h]}

\* A non-2xx, or no answer at all: Stripe will redeliver.
Nack(h) == Leave(h) /\ UNCHANGED acked

Receive(h, e) ==
  /\ e <= stripe /\ pc[h] = "idle"
  /\ pc' = [pc EXCEPT ![h] = "received"]
  /\ event' = [event EXCEPT ![h] = e]
  /\ UNCHANGED <<stripe, acked, record, cached, customer, checkout,
                 next, seen, attempt, faults, excuses>>

\* Stripe delivers an event it has no 200 for,
Deliver(h, e) ==
  /\ e \notin acked /\ \A g \in Handlers : event[g] # e
  /\ Receive(h, e)
  /\ UNCHANGED dupes

\* and any event once more: it promises at least once.
Duplicate(h, e) ==
  /\ dupes < MAX_DUPES /\ dupes' = dupes + 1
  /\ Receive(h, e)

\* handleEvent reads the subscription back and resolves the user.
Retrieve(h) ==
  /\ pc[h] = "received"
  /\ next' = [next EXCEPT ![h] = stripe]
  /\ pc' = [pc EXCEPT ![h] = "guard"]
  /\ UNCHANGED <<stripe, acked, record, cached, customer, checkout,
                 event, seen, attempt, dupes, faults, excuses>>

\* userExists and the customer lookup answer "no" when the call fails, and a
\* skipped event is answered with 200.
SkipUser(h) ==
  /\ pc[h] = "received"
  /\ Fault
  /\ Ack(h)
  /\ excuses' = excuses \cup {"skipped"}
  /\ UNCHANGED <<stripe, record, cached, customer, checkout, dupes>>

\* The two guards of applyEntitlement against the record they read.
Passes(e, r) == r # e /\ ~ (r \in Events /\ Created[e] < Created[r])

\* Mutant of Dropped: a stale event asks to be delivered again.
DroppedStale(h, r) == IF r = event[h] THEN Ack(h) ELSE Nack(h)

\* duplicate and stale, or applied on a later pass: all are 200.
Dropped(h, r) == Ack(h)

\* Read the metadata; a failed read looks like an empty cache.
Guard(h) ==
  /\ pc[h] = "guard"
  /\ \E r \in {record, NoRead} :
       /\ IF r = record THEN UNCHANGED faults ELSE Fault
       /\ \/ /\ ~ Passes(event[h], r)
             /\ Dropped(h, r)
          \/ /\ Passes(event[h], r)
             /\ pc' = [pc EXCEPT ![h] = "write"]
             /\ seen' = [seen EXCEPT ![h] = r]
             /\ UNCHANGED <<acked, event, next, attempt>>
  /\ UNCHANGED <<stripe, record, cached, customer, checkout, dupes, excuses>>

\* Why a write that puts the event of h over a later, acknowledged one may do so.
Excuse(h) ==
  IF seen[h] = NoRead THEN {"unread"}
  ELSE IF seen[h] # record THEN {"overtaken"}
  ELSE IF Created[seen[h]] = Created[event[h]] THEN {"tie"}
  ELSE {}

Clobbers(h) == \E e \in acked : event[h] < e /\ e <= record

\* updateUserMetadata replaces billing, whatever it holds by now.
Write(h) ==
  /\ pc[h] = "write"
  /\ record' = event[h] /\ cached' = next[h] /\ customer' = TRUE
  /\ excuses' = IF Clobbers(h) THEN excuses \cup Excuse(h) ELSE excuses
  /\ pc' = [pc EXCEPT ![h] = "readback"]
  /\ UNCHANGED <<stripe, acked, checkout, event, next, seen, attempt, dupes, faults>>

\* failed: answered with 503.  (A write that lands and whose answer is lost is
\* Write and then Die.)
WriteFails(h) ==
  /\ pc[h] = "write"
  /\ Fault
  /\ Nack(h)
  /\ UNCHANGED <<stripe, record, cached, customer, checkout, dupes, excuses>>

\* Did the write survive, or a newer one replace it?
Landed(e, r) == r = e \/ (r \in Events /\ Created[r] > Created[e])

\* Mutant of Lost: one pass too many.
LostOffByOne(h) ==
  \/ /\ attempt[h] < ATTEMPTS
     /\ attempt' = [attempt EXCEPT ![h] = attempt[h] + 1]
     /\ pc' = [pc EXCEPT ![h] = "guard"]
     /\ seen' = [seen EXCEPT ![h] = 0]
     /\ UNCHANGED <<acked, event, next>>
  \/ attempt[h] = ATTEMPTS /\ Nack(h)

\* Go round again, or report conflict, which is answered with 503.
Lost(h) ==
  \/ /\ attempt[h] + 1 < ATTEMPTS
     /\ attempt' = [attempt EXCEPT ![h] = attempt[h] + 1]
     /\ pc' = [pc EXCEPT ![h] = "guard"]
     /\ seen' = [seen EXCEPT ![h] = 0]
     /\ UNCHANGED <<acked, event, next>>
  \/ attempt[h] + 1 = ATTEMPTS /\ Nack(h)

ReadBack(h) ==
  /\ pc[h] = "readback"
  /\ \E r \in {record, NoRead} :
       /\ IF r = record THEN UNCHANGED faults ELSE Fault
       /\ IF Landed(event[h], r) THEN Ack(h) ELSE Lost(h)
  /\ UNCHANGED <<stripe, record, cached, customer, checkout, dupes, excuses>>

\* The function instance dies, or a call to Stripe raises: no answer or a 500.
Die(h) ==
  /\ pc[h] # "idle"
  /\ Fault
  /\ Nack(h)
  /\ UNCHANGED <<stripe, record, cached, customer, checkout, dupes, excuses>>

-----------------------------------------------------------------------------
(* rememberStripeCustomerId: reads the metadata, writes billingCustomer. *)

CheckoutRead ==
  /\ checkout = NotChecking /\ ~ customer
  /\ checkout' = [record |-> record, cached |-> cached]
  /\ UNCHANGED <<stripe, acked, record, cached, customer, handlerVars,
                 dupes, faults, excuses>>

\* Mutant of Remember: the layout before the keys were split.
RememberInBilling ==
  customer' = TRUE /\ record' = checkout.record /\ cached' = checkout.cached

Remember == customer' = TRUE /\ UNCHANGED <<record, cached>>

CheckoutWrite ==
  /\ checkout # NotChecking
  /\ Remember
  /\ checkout' = NotChecking
  /\ UNCHANGED <<stripe, acked, handlerVars, dupes, faults, excuses>>

-----------------------------------------------------------------------------
Work(h) == Retrieve(h) \/ Guard(h) \/ Write(h) \/ ReadBack(h)

Next ==
  \/ Change \/ CheckoutRead \/ CheckoutWrite
  \/ \E h \in Handlers :
       \/ \E e \in Events : Deliver(h, e) \/ Duplicate(h, e)
       \/ Work(h) \/ SkipUser(h) \/ WriteFails(h) \/ Die(h)

Spec == Init /\ [][Next]_vars

\* Stripe keeps redelivering what it has no 200 for, whenever a function
\* instance is free, and an invocation that does not fail runs to its answer.
Fairness ==
  /\ \A h \in Handlers : WF_vars(Work(h))
  /\ \A e \in Events : SF_vars(\E h \in Handlers : Deliver(h, e))

FairSpec == Spec /\ Fairness

-----------------------------------------------------------------------------
(* Properties. *)

Places == {"idle", "received", "guard", "write", "readback"}
Excuses == {"skipped", "unread", "overtaken", "tie"}

\* The cache and every webhook invocation keep their types (entitlement.ts,
\* route.ts); what is cached is a state Stripe has had.
TypeOK ==
  /\ stripe \in 0..N /\ acked \subseteq 1..stripe
  /\ record \in 0..stripe /\ cached \in 0..stripe
  /\ customer \in BOOLEAN
  /\ checkout \in [record : NoRead..stripe, cached : NoRead..stripe]
  /\ pc \in [Handlers -> Places]
  /\ event \in [Handlers -> 0..stripe] /\ next \in [Handlers -> 0..stripe]
  /\ seen \in [Handlers -> NoRead..stripe]
  /\ attempt \in [Handlers -> 0..(ATTEMPTS - 1)]
  /\ dupes \in 0..MAX_DUPES /\ faults \in 0..MAX_FAULTS
  /\ excuses \subseteq Excuses

\* What Stripe was told is handled is in the cache: the subscription cached is
\* at least as new as every acknowledged event.  The exceptions are an event
\* that was skipped because a lookup failed, and a write over a later event that
\* was acknowledged already, by a handler whose guards read before that event
\* was recorded, could not read, or saw the same second (route.ts: POST and
\* handleEvent, entitlement.ts: applyEntitlement).
AcknowledgedIsReflected == excuses # {} \/ \A e \in acked : e <= cached

\* docs/stripe-entitlement-concurrency.md: writes are eventually correct through
\* redelivery, and a write that lands after the newer writer has finished, and
\* that never saw what it clobbered, is the window that remains.
OnlyTheDocumentedWindow == "overtaken" \in excuses \/ \A e \in acked : e <= cached

\* The events that share their second with no other.
Alone == {e \in Events : \A d \in Events \ {e} : Created[d] # Created[e]}

\* Each of them is answered with 200 in the end: no outcome asks for redelivery
\* for ever (NEEDS_REDELIVERY in route.ts).
EventsAreAnswered == \A e \in Alone : e <= stripe ~> e \in acked

=============================================================================
