----------------------------- MODULE FirstWins ------------------------------
(***************************************************************************)
(* What the golden file promises (src/internal/golden/store.go Verify):    *)
(* the first outcome recorded for a key stays its record for good.         *)
(***************************************************************************)
CONSTANT Outcome

VARIABLE record   \* what is on record: a function on the keys seen so far

Init == record = [k \in {} |-> CHOOSE h \in Outcome : TRUE]

\* Keys are added, never changed or lost.
Next ==
  /\ DOMAIN record \subseteq DOMAIN record'
  /\ \A k \in DOMAIN record : record'[k] = record[k]
  /\ \A k \in DOMAIN record' : record'[k] \in Outcome

Spec == Init /\ [][Next]_record
=============================================================================
