----------------------------- MODULE MCPlatform -----------------------------
(***************************************************************************)
(* The platform with the smallest handlers that take turns: component      *)
(* "a" opens the stream and the two components alternate.  Honest          *)
(* instances answer "x"; those of Faulty may answer "x" or "y"; those of    *)
(* Corrupt answer "x" from a state that a validator refuses.               *)
(***************************************************************************)
EXTENDS ActiveActive

CONSTANTS Faulty,      \* instances with a nondeterministic defect
          Corrupt,     \* instances whose state is wrong from the second event on
          Turns        \* bound: the length of the stream

MCSpeaks(h) == IF Len(h) >= Turns THEN NoComponent
               ELSE IF Len(h) % 2 = 0 THEN "a" ELSE "b"

Computes(i, h) == IF i \in Faulty THEN {"x", "y"} ELSE {"x"}

MCReply(i, h) == IF MCSpeaks(h) = CompOf[i] THEN Computes(i, h) ELSE {NoPayload}
MCBoot(i, h) == IF h = <<>> /\ MCSpeaks(h) = CompOf[i] THEN Computes(i, h)
                ELSE {NoPayload}
MCValid(i, h) == i \notin Corrupt \/ Len(h) < 2

MCCompOf == [i \in Instance |-> IF i \in {"a1", "a2", "a3"} THEN "a" ELSE "b"]
=============================================================================
