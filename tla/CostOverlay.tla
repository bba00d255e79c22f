---------------------------- MODULE CostOverlay ----------------------------
(***************************************************************************)
(* The browser extension's cost panel on one tab (apps/extension/src).     *)
(*                                                                         *)
(* reload() reads the page, asks the venue twice, for the contract and for *)
(* its book, and paints.  A timer, the URL watcher, the side toggle and    *)
(* the tab's visibility all start one, so reloads overlap; each holds the  *)
(* number Latest gave it and may paint only while that is the newest.      *)
(*                                                                         *)
(* A book is named by the address, the outcome and the side it was asked   *)
(* for: a Kalshi address is an event, and which of its markets is meant is *)
(* what the order panel names.  What a book costs is arithmetic on it.     *)
(***************************************************************************)
EXTENDS Integers

CONSTANTS
  Urls,        \* the addresses the tab can be at
  Selections,  \* by address: the outcomes its order panel can name
  Unnamed,     \* the panel names no outcome, or two equally often
  MaxReloads,  \* bound: reloads
  MaxMoves,    \* bound: clicks, navigations, tickets drawn, tabs hidden
  NoBook       \* loaded = null

Sides == {"yes", "no"}
Outcomes == UNION {Selections[u] : u \in Urls}
Books == [url : Urls, outcome : Outcomes, side : Sides]

ASSUME OverlayAssumption ==
  /\ MaxReloads \in Nat \ {0} /\ MaxMoves \in Nat
  /\ NoBook \notin Books

VARIABLES
  page,        \* the address, and the outcome and side of its ticket; the side is
               \* "none" if unreadable
  hidden,      \* document.hidden
  lastUrl,     \* of watchNavigation
  clicks,      \* clicks whose 120 ms have not passed
  generation,  \* of Latest
  flights,     \* reloads waiting for the venue
  loaded,      \* the book in hand
  panel,       \* what is on the page
  moves,
  missed,      \* has the side moved unnoticed since the newest reload began?
  strayed      \* has the ticket gone to another outcome since then?

overlayVars == <<page, hidden, lastUrl, clicks, generation, flights, loaded,
                 panel, moves, missed, strayed>>

Absent == [kind |-> "absent"]
Message == [kind |-> "message"]

\* draw: the panel shows the book in hand.
Costs(book) == [kind |-> "costs", book |-> book]

-----------------------------------------------------------------------------
\* A reload that sets out for the ticket as it is now.
Flight(token, ticket) ==
  [token |-> token, url |-> ticket.url, outcome |-> ticket.outcome,
   side |-> ticket.side, at |-> "identify"]

\* reload, up to its first await.
Reload ==
  IF hidden THEN UNCHANGED <<generation, flights, loaded, panel, missed, strayed>>
  ELSE /\ generation < MaxReloads
       /\ generation' = generation + 1
       /\ missed' = FALSE /\ strayed' = FALSE
       /\ IF page'.side = "none"
          THEN /\ loaded' = NoBook /\ panel' = Message
               /\ UNCHANGED flights
          ELSE /\ flights' = flights \cup {Flight(generation + 1, page')}
               /\ UNCHANGED <<loaded, panel>>

\* The script starts on a page that is loaded, and reloads at once.
OverlayInit ==
  /\ page \in [url : Urls, outcome : Outcomes, side : Sides \cup {"none"}]
  /\ page.outcome \in Selections[page.url]
  /\ hidden = FALSE
  /\ lastUrl = page.url
  /\ clicks = 0 /\ moves = 0
  /\ generation = 1
  /\ flights = IF page.side = "none" THEN {} ELSE {Flight(1, page)}
  /\ loaded = NoBook
  /\ panel = IF page.side = "none" THEN Message ELSE Absent
  /\ missed = FALSE /\ strayed = FALSE

\* Mutant of IsCurrent: no guard, the last answer wins.
IsAnything(f) == TRUE

IsCurrent(f) == f.token = generation

\* identify answers.  A call that fails is a contract that was not found, and so
\* is one the order panel did not name.
Identified(f) ==
  /\ f \in flights /\ f.at = "identify"
  /\ \/ /\ ~ IsCurrent(f)
        /\ flights' = flights \ {f}
        /\ UNCHANGED <<loaded, panel>>
     \/ /\ IsCurrent(f) /\ f.outcome # Unnamed
        /\ flights' = (flights \ {f}) \cup {[f EXCEPT !.at = "book"]}
        /\ UNCHANGED <<loaded, panel>>
     \/ /\ IsCurrent(f)
        /\ flights' = flights \ {f}
        /\ loaded' = NoBook /\ panel' = Absent
  /\ UNCHANGED <<page, hidden, lastUrl, clicks, generation, moves, missed, strayed>>

\* loadBook answers with a book, with none, or fails.
BookRead(f) ==
  /\ f \in flights /\ f.at = "book"
  /\ flights' = flights \ {f}
  /\ \/ ~ IsCurrent(f) /\ UNCHANGED <<loaded, panel>>
     \/ /\ IsCurrent(f)
        /\ LET book == [url |-> f.url, outcome |-> f.outcome, side |-> f.side] IN
             loaded' = book /\ panel' = Costs(book)
     \/ IsCurrent(f) /\ loaded' = NoBook /\ panel' = Message
  /\ UNCHANGED <<page, hidden, lastUrl, clicks, generation, moves, missed, strayed>>

\* The refresh timer, every REFRESH_MS.
Refresh ==
  /\ UNCHANGED page
  /\ Reload
  /\ UNCHANGED <<hidden, lastUrl, clicks, moves>>

\* A size is typed: watchOrderForm draws the book in hand.
Typed ==
  /\ loaded # NoBook
  /\ panel' = Costs(loaded)
  /\ UNCHANGED <<page, hidden, lastUrl, clicks, generation, flights, loaded,
                 moves, missed, strayed>>

Move == moves < MaxMoves /\ moves' = moves + 1

\* The trader clicks the other side; the venue's own handler runs first.
Toggle ==
  /\ Move
  /\ page.side # "none"
  /\ page' = [page EXCEPT !.side = IF @ = "yes" THEN "no" ELSE "yes"]
  /\ clicks' = clicks + 1
  /\ UNCHANGED <<hidden, lastUrl, generation, flights, loaded, panel, missed, strayed>>

\* The trader clicks another outcome of the event, on either side.  The address is
\* the event's, and does not change.
Choose ==
  /\ Move
  /\ \E o \in Selections[page.url] \ {page.outcome}, s \in Sides :
       page' = [page EXCEPT !.outcome = o, !.side = s]
  /\ strayed' = TRUE
  /\ clicks' = clicks + 1
  /\ UNCHANGED <<hidden, lastUrl, generation, flights, loaded, panel, missed>>

\* Is the side the ticket shows another than the one loaded?
SideMoved == loaded # NoBook /\ page.side # "none" /\ page.side # loaded.side

\* Has a reload begun on another side, or is it about to paint one?
InFlight(side) == \E f \in flights : IsCurrent(f) /\ f.side = side

\* The 120 ms of a click pass: watchSideToggle.
ClickSettles ==
  /\ clicks > 0 /\ clicks' = clicks - 1
  /\ UNCHANGED page
  /\ \/ SideMoved /\ Reload
     \/ /\ ~ SideMoved
        /\ missed' = (missed \/ \E s \in Sides \ {page.side} : InFlight(s))
        /\ UNCHANGED <<generation, flights, loaded, panel, strayed>>
  /\ UNCHANGED <<hidden, lastUrl, moves>>

\* The single-page app goes to another address; the page changes with it, which
\* the observer sees before the trader can go on,
Navigate ==
  /\ Move
  /\ lastUrl = page.url
  /\ \E u \in Urls \ {page.url} : \E o \in Selections[u] :
       page' = [page EXCEPT !.url = u, !.outcome = o]
  /\ UNCHANGED <<hidden, lastUrl, clicks, generation, flights, loaded, panel, missed,
                 strayed>>

\* and draws its ticket when it is ready, or takes it away: nothing watches that.
Render ==
  /\ Move
  /\ \E o \in Selections[page.url], s \in Sides \cup {"none"} :
       page' = [page EXCEPT !.outcome = o, !.side = s]
  /\ missed' = (missed \/ page'.side # page.side)
  /\ strayed' = (strayed \/ page'.outcome # page.outcome)
  /\ UNCHANGED <<hidden, lastUrl, clicks, generation, flights, loaded, panel>>

\* The mutation observer sees the address changed: watchNavigation.
Observed ==
  /\ page.url # lastUrl
  /\ lastUrl' = page.url
  /\ UNCHANGED page
  /\ Reload
  /\ UNCHANGED <<hidden, clicks, moves>>

Hide ==
  /\ Move /\ ~ hidden
  /\ hidden' = TRUE
  /\ UNCHANGED <<page, lastUrl, clicks, generation, flights, loaded, panel, missed,
                 strayed>>

\* Mutant of Seen: the tab comes back and nothing is read again.
SeenIgnored == UNCHANGED <<generation, flights, loaded, panel, missed, strayed>>

\* reload, on a tab that can be laid out again.
Seen ==
  /\ generation < MaxReloads
  /\ generation' = generation + 1
  /\ missed' = FALSE /\ strayed' = FALSE
  /\ IF page.side = "none"
     THEN /\ loaded' = NoBook /\ panel' = Message
          /\ UNCHANGED flights
     ELSE /\ flights' = flights \cup {Flight(generation + 1, page)}
          /\ UNCHANGED <<loaded, panel>>

\* watchVisibility.
Show ==
  /\ hidden /\ hidden' = FALSE
  /\ Seen
  /\ UNCHANGED <<page, lastUrl, clicks, moves>>

OverlayNext ==
  \/ Refresh \/ Typed \/ Toggle \/ Choose \/ ClickSettles
  \/ Navigate \/ Render \/ Observed \/ Hide \/ Show
  \/ \E f \in flights : Identified(f) \/ BookRead(f)

OverlaySpec == OverlayInit /\ [][OverlayNext]_overlayVars

-----------------------------------------------------------------------------
(* Properties. *)

OverlayTypeOK ==
  /\ page \in [url : Urls, outcome : Outcomes, side : Sides \cup {"none"}]
  /\ hidden \in BOOLEAN /\ missed \in BOOLEAN /\ strayed \in BOOLEAN
  /\ lastUrl \in Urls
  /\ clicks \in 0..MaxMoves /\ moves \in 0..MaxMoves
  /\ generation \in 0..MaxReloads
  /\ flights \subseteq [token : 1..MaxReloads, url : Urls, outcome : Outcomes,
                        side : Sides, at : {"identify", "book"}]
  /\ loaded \in Books \cup {NoBook}
  /\ panel \in {Absent, Message} \cup {Costs(b) : b \in Books}

\* Nothing is left that would reload: every watcher has run, and no reload that
\* may still paint is waiting for the venue.
Settled ==
  /\ ~ hidden /\ clicks = 0 /\ lastUrl = page.url
  /\ ~ \E f \in flights : IsCurrent(f)

\* Once every watcher has run, the costs the trader is left looking at are of the
\* address on screen (content.ts: reload, watchNavigation, watchVisibility, and
\* latest.ts), and of the outcome and the side its ticket had when the newest
\* reload began, never those of an earlier one whose answer came late.  The ticket
\* may since have gone on to
\*   - another outcome of the event: on Kalshi the address does not say which, so
\*     neither watchNavigation nor, at the same side, watchSideToggle reloads, and
\*     the panel prices the outcome left behind until the timer fires;
\*   - another side, drawn with no click, or by a click that watchSideToggle let
\*     pass: it compares the ticket with the side loaded, though a reload of the
\*     other side was on its way.
\* Where neither has happened, the panel prices the ticket; and never an outcome
\* that the order panel did not name (venues.ts: identify).
PricesTheTicket ==
  Settled /\ panel.kind = "costs" =>
    /\ panel.book.url = page.url /\ panel.book.outcome # Unnamed
    /\ panel.book.outcome = page.outcome \/ strayed
    /\ panel.book.side = page.side \/ missed

=============================================================================
