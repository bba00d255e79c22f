------------------------- MODULE PublishedSnapshot -------------------------
(* What the published snapshot promises to whoever uses it: there is one    *)
(* current snapshot, each new one is a child of the one it replaces and is  *)
(* published once, and a user that asks is given, whole, the snapshot that  *)
(* was current when it asked, or nothing.                                   *)

CONSTANTS Snapshots, Users, Genesis, Nothing

VARIABLES
    current,    \* the published snapshot, or Nothing before the first
    parentOf,   \* the parent each published snapshot names
    published,  \* Genesis, and every snapshot published since
    asked,      \* what was current when the user asked
    given       \* what the user was given since, or Nothing

absVars == <<current, parentOf, published, asked, given>>

Init ==
    /\ current \in {Genesis, Nothing}
    /\ published = {Genesis}
    /\ parentOf = [s \in Snapshots |-> Nothing]
    /\ asked = [u \in Users |-> Nothing]
    /\ given = [u \in Users |-> Nothing]

\* A child of the current snapshot takes its place.
Publish(s) ==
    /\ s \notin published
    /\ published' = published \cup {s}
    /\ parentOf' = [parentOf EXCEPT ![s] = current]
    /\ current' = s
    /\ UNCHANGED <<asked, given>>

Ask(u) ==
    /\ asked' = [asked EXCEPT ![u] = current]
    /\ given' = [given EXCEPT ![u] = Nothing]
    /\ UNCHANGED <<current, parentOf, published>>

Leave(u) ==
    /\ asked' = [asked EXCEPT ![u] = Nothing]
    /\ given' = [given EXCEPT ![u] = Nothing]
    /\ UNCHANGED <<current, parentOf, published>>

Give(u) ==
    /\ given' = [given EXCEPT ![u] = asked[u]]
    /\ UNCHANGED <<current, parentOf, published, asked>>

Next == \/ \E s \in Snapshots : Publish(s)
        \/ \E u \in Users : Ask(u) \/ Give(u) \/ Leave(u)

Spec == Init /\ [][Next]_absVars
=============================================================================
