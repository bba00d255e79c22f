------------------------- MODULE MCEntitlementCache -------------------------
(***************************************************************************)
(* Billing: the webhook handlers on an event and two more of a later second, *)
(* with two invocations, and beside them the purchases of a user with two    *)
(* tabs.  A behaviour is one of them, named by part; the other stays at its  *)
(* initial state.                                                            *)
(***************************************************************************)
EXTENDS EntitlementCache, BillingCheckout

CONSTANTS h1, h2

VARIABLE part

BillingInit == part \in {"cache", "checkout"} /\ Init /\ CheckoutInit

BillingNext ==
  /\ UNCHANGED part
  /\ \/ part = "cache" /\ Next /\ UNCHANGED checkoutVars
     \/ part = "checkout" /\ CheckoutNext /\ UNCHANGED vars

\* Nothing that is fair is enabled before a first event.
BillingSpec ==
  /\ BillingInit
  /\ [][BillingNext]_<<part, vars, checkoutVars>>
  /\ Fairness

MCCreated    == <<1, 2, 2>>
MCSameSecond == <<1, 1>>
=============================================================================
