---------------------------- MODULE MCTournament ----------------------------
(***************************************************************************)
(* Small sessions for TLC: two strategies, named instances, draws chosen   *)
(* so that the pairing alternates.                                         *)
(***************************************************************************)
EXTENDS Tournament

\* The bug or flaw, if any, and the instances that carry it.
CONSTANTS Flawed, Flaws1, Corrupt, CorruptFrom

MCStrategies == <<"flipper", "copy-leader">>
MCDraw == [id \in Nat |-> id + 2]

\* inj*, flip*, copy*, track* name their component.
MCCompOf ==
  [i \in Instance |->
     CASE i \in {"inj1", "inj2", "inj3"} -> InjectorName
       [] i \in {"flip1", "flip2", "flip3"} -> "flipper"
       [] i \in {"copy1", "copy2", "copy3"} -> "copy-leader"
       [] i = "track1" -> TrackerName]
MCFlaws == [i \in Instance |-> IF i \in Flawed THEN Flaws1 ELSE {}]
MCBugFrom == [i \in Instance |-> IF i \in Corrupt THEN CorruptFrom ELSE NoBug]
=============================================================================
