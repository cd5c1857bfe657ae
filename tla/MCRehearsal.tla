---------------------------- MODULE MCRehearsal ----------------------------
(***************************************************************************)
(* Three strategies, three games; every combination of flaws, and bugs     *)
(* that start in the first game, in the last, or after the tournament.     *)
(***************************************************************************)
EXTENDS Rehearsal

MCStrategies == <<"flipper", "retaliator", "copy-leader">>
MCDraw == [id \in Nat |-> 2 * id + 1]
MCDefects == [flaws : SUBSET Flaw, bug : {NoBug, 0, MaxGames - 1, MaxGames}]
=============================================================================
