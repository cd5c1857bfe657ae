------------------------------- MODULE TurnLog -------------------------------
(***************************************************************************)
(* What the platform promises its components, with no replicas, channels   *)
(* or races in sight: one log, which grows by one event at a time, and     *)
(* whose next event is always one that the log so far allows.              *)
(***************************************************************************)
EXTENDS Sequences

CONSTANT Allowed(_)   \* Allowed(h): the events that may follow the log h

VARIABLE log

Init == log = <<>>

Extend == \E e \in Allowed(log) : log' = Append(log, e)

Spec == Init /\ [][Extend]_log
=============================================================================
