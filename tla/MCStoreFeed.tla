----------------------------- MODULE MCStoreFeed -----------------------------
(***************************************************************************)
(* Streams over a few players; the suspect store is sound, or corrupt from *)
(* the first or from a later game.                                         *)
(***************************************************************************)
EXTENDS StoreFeed

MCBugs == {NoBug, 0, 1}
=============================================================================
