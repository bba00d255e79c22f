------------------------------ MODULE MCServices ------------------------------
(***************************************************************************)
(* Small instances of the parts that several callers or sessions use at once. *)
(* They share nothing, so a behaviour is a behaviour of one of them: which     *)
(* names it, and the others keep their initial states.                        *)
(***************************************************************************)
EXTENDS VenueClient, MarketIngest, IngestStore, GitPublication,
        CostOverlay

VARIABLE which

ServicesInit ==
    /\ which \in {"client", "ingest", "store", "publication", "overlay"}
    /\ ClientInit /\ IngestInit /\ StoreInit /\ PublicationInit
    /\ OverlayInit
    /\ which = "overlay" \/ page = [url |-> "A", outcome |-> "x", side |-> "none"]

Of(name, step) == which = name /\ step

ServicesNext ==
    /\ UNCHANGED which
    /\ \/ /\ Of("client", ClientNext)
          /\ UNCHANGED <<ingestVars, storeVars, publicationVars, overlayVars>>
       \/ /\ Of("ingest", IngestNext)
          /\ UNCHANGED <<clientVars, storeVars, publicationVars, overlayVars>>
       \/ /\ Of("store", StoreNext)
          /\ UNCHANGED <<clientVars, ingestVars, publicationVars, overlayVars>>
       \/ /\ Of("publication", PublicationNext)
          /\ UNCHANGED <<clientVars, ingestVars, storeVars, overlayVars>>
       \/ /\ Of("overlay", OverlayNext)
          /\ UNCHANGED <<clientVars, ingestVars, storeVars, publicationVars>>

\* Nothing that is fair is enabled in a client that has not begun.
ServicesSpec ==
    /\ ServicesInit
    /\ [][ServicesNext]_<<which, clientVars, ingestVars, storeVars, publicationVars,
                        overlayVars>>
    /\ ClientFairness

-----------------------------------------------------------------------------
(* A weather event of three markets, a bitcoin event of two, a far sports one. *)

Listing(e, s, v, md, b, l) ==
    [event |-> e, series |-> s, volume |-> v, modellable |-> md, bucket |-> b, liquid |-> l]

MCMarketOf ==
    [m \in {"w1", "w2", "w3", "b1", "b2", "s1"} |->
        CASE m = "w1" -> Listing("E1", "W", 5, TRUE, 0, TRUE)
          [] m = "w2" -> Listing("E1", "W", 3, TRUE, 0, FALSE)
          [] m = "w3" -> Listing("E1", "W", 6, TRUE, 0, TRUE)
          [] m = "b1" -> Listing("E2", "B", 4, TRUE, 1, TRUE)
          [] m = "b2" -> Listing("E2", "B", 7, TRUE, 1, TRUE)
          [] m = "s1" -> Listing("E3", "S", 9, FALSE, 3, TRUE)]

\* An event of two outcomes at one address, a single market at the other.
MCSelections == [u \in {"A", "B"} |-> IF u = "A" THEN {"x", "y", Unnamed} ELSE {"z"}]

MCListings == {{"w1", "w2", "w3", "b1", "b2", "s1"}, {"w1", "w2", "w3", "b1"},
               {"s1", "b1", "b2"}, {"w2", "s1"}}
=============================================================================
