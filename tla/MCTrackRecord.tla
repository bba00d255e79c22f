-------------------------- MODULE MCTrackRecord --------------------------
(* Two markets, due at the same time unless one is put off, and one batch. *)
EXTENDS TrackRecord, TLC

CONSTANTS m1, m2, yes, no, none

MCMarkets  == {m1, m2}
MCExpected  == (m1 :> 0) @@ (m2 :> 1)
MCAnnounced == (m1 :> {2}) @@ (m2 :> {1})
MCResults  == {yes, no}
MCFirst    == {yes}
=============================================================================
