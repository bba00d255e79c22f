-------------------------- MODULE BillingCheckout --------------------------
(***************************************************************************)
(* Buying a subscription: the checkout route of the web app, Stripe, and   *)
(* the cache the webhook keeps (apps/web), for one signed-in user with     *)
(* several tabs.                                                           *)
(*                                                                         *)
(* The route refuses a user whose cached subscription is live, and then    *)
(* makes a session under an idempotency key of the plan and the minute.    *)
(* The cache hears of a payment only from the webhook, later and in any    *)
(* order.  A webhook invocation is one step here; EntitlementCache takes   *)
(* it apart, with the writes of the customer id.                           *)
(***************************************************************************)
EXTENDS Integers

CONSTANTS
  Tabs,        \* submissions of the form that may run at a time
  PLAN_IDS,
  LastMinute,  \* bound: minutes that pass
  LastEvent,   \* bound: events Stripe creates
  NoTab        \* a tab that has submitted nothing

ASSUME CheckoutAssumption == LastMinute \in Nat /\ LastEvent \in Nat

\* A session is named by its idempotency key, its subscription by the session.
Keys == [plan : PLAN_IDS, minute : 0..LastMinute]

VARIABLES
  minute,
  form,      \* tab |-> the plan whose checks passed, and against what
  session,   \* key |-> the session at Stripe
  sub,       \* key |-> its subscription at Stripe
  pending,   \* events with no 200 yet: the subscription and event.created
  stamp,     \* event.created of the newest event
  onFile,    \* the billing cache: subscription, its status, lastStripeEventCreated
  against,   \* key |-> subscriptions that should have stopped it, for the property
  doubled    \* have two subscriptions ever been live at once?

checkoutVars == <<minute, form, session, sub, pending, stamp, onFile, against, doubled>>

-----------------------------------------------------------------------------
CheckoutInit ==
  /\ minute = 0
  /\ form = [t \in Tabs |-> NoTab]
  /\ session = [k \in Keys |-> "none"]
  /\ sub = [k \in Keys |-> "none"]
  /\ pending = {} /\ stamp = 0
  /\ onFile = [key |-> NoTab, status |-> "none", created |-> 0]
  /\ against = [k \in Keys |-> {}]
  /\ doubled = FALSE

\* Mutant of LiveStatuses: the statuses that grant access.
GrantingStatuses == {"active"}

\* LIVE_SUBSCRIPTION_STATUSES; "trialing" and "unpaid" are sold to nobody.
LiveStatuses == {"active", "past_due"}

LiveNow == {k \in Keys : sub[k] \in {"active", "past_due"}}

\* Is k the subscription on record, every event of it heard?
OnFile(k) == onFile.key = k /\ ~ \E e \in pending : e.key = k

Tick ==
  /\ minute < LastMinute
  /\ minute' = minute + 1
  /\ UNCHANGED <<form, session, sub, pending, stamp, onFile, against, doubled>>

\* POST, up to the refusal of a second subscription.
Submit(t, p) ==
  /\ form[t] = NoTab
  /\ onFile.status \notin LiveStatuses
  /\ form' = [form EXCEPT ![t] =
                [plan |-> p, against |-> {k \in LiveNow : OnFile(k)}]]
  /\ UNCHANGED <<minute, session, sub, pending, stamp, onFile, against, doubled>>

\* sessions.create: the key answers a second request with the first's session.
Create(t) ==
  /\ form[t] # NoTab
  /\ LET k == [plan |-> form[t].plan, minute |-> minute] IN
       /\ session' = [session EXCEPT ![k] = IF @ = "none" THEN "open" ELSE @]
       /\ against' = [against EXCEPT ![k] =
                        IF session[k] = "none" THEN form[t].against ELSE @]
  /\ form' = [form EXCEPT ![t] = NoTab]
  /\ UNCHANGED <<minute, sub, pending, stamp, onFile, doubled>>

\* The tab is closed, or Stripe answers with an error.
Abandon(t) ==
  /\ form[t] # NoTab
  /\ form' = [form EXCEPT ![t] = NoTab]
  /\ UNCHANGED <<minute, session, sub, pending, stamp, onFile, against, doubled>>

\* A subscription changes at Stripe, which creates an event.
Becomes(k, status) ==
  /\ stamp < LastEvent
  /\ stamp' = stamp + 1
  /\ sub' = [sub EXCEPT ![k] = status]
  /\ pending' = pending \cup {[key |-> k, created |-> stamp + 1]}
  /\ doubled' = (doubled \/ \E o \in LiveNow : o # k /\ status # "canceled")
  /\ UNCHANGED <<minute, form, onFile, against>>

Pay(k) ==
  /\ session[k] = "open"
  /\ session' = [session EXCEPT ![k] = "complete"]
  /\ Becomes(k, "active")

PaymentFails(k) ==
  /\ sub[k] = "active"
  /\ Becomes(k, "past_due") /\ UNCHANGED session

PaymentRecovers(k) ==
  /\ sub[k] = "past_due"
  /\ Becomes(k, "active") /\ UNCHANGED session

\* In the customer portal, or by Stripe when it stops collecting.
Cancel(k) ==
  /\ sub[k] \in {"active", "past_due"}
  /\ Becomes(k, "canceled") /\ UNCHANGED session

\* Mutant of IsStale: delivery is taken to be ordered.
IsStaleNever(e) == FALSE

\* applyEntitlement: older than the last event applied to this user.
IsStale(e) == e.created < onFile.created

\* The webhook: the subscription is read back from Stripe, so an event writes
\* the state of now.  A duplicate changes nothing.
Webhook(e) ==
  /\ e \in pending
  /\ pending' = pending \ {e}
  /\ onFile' = IF IsStale(e) THEN onFile
               ELSE [key |-> e.key, status |-> sub[e.key], created |-> e.created]
  /\ UNCHANGED <<minute, form, session, sub, stamp, against, doubled>>

CheckoutNext ==
  \/ Tick
  \/ \E t \in Tabs : (\E p \in PLAN_IDS : Submit(t, p)) \/ Create(t) \/ Abandon(t)
  \/ \E k \in Keys : Pay(k) \/ PaymentFails(k) \/ PaymentRecovers(k) \/ Cancel(k)
  \/ \E e \in pending : Webhook(e)

CheckoutSpec == CheckoutInit /\ [][CheckoutNext]_checkoutVars

-----------------------------------------------------------------------------
(* Properties. *)

\* A user whose webhooks have all been answered and who pays for a subscription
\* is served, unless two subscriptions were live at once: then the cache shows
\* the one whose event came last, and its end hides the other.  Two live
\* subscriptions come about only while the cache cannot know: no session is made
\* by a check at which the other subscription was live and on record
\* (checkout/route.ts: POST; entitlement.ts: isLiveSubscriptionStatus,
\* applyEntitlement).
OnlyDoublesGoUnserved ==
  /\ (pending = {} /\ \E k \in Keys : sub[k] = "active") =>
       onFile.status = "active" \/ doubled
  /\ \A a, b \in LiveNow : a \notin against[b]

=============================================================================
