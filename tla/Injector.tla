------------------------------ MODULE Injector ------------------------------
(***************************************************************************)
(* The game injector (src/internal/injector/game_injector.go): which pair  *)
(* plays next, and when the next game is put on the stream.                *)
(***************************************************************************)
EXTENDS GameStore

CONSTANTS
  AllStrategies,  \* the strategies in their canonical order
  Draw,           \* Draw[id] = mix(seed ^ mix(id)), the session's draw for game id
  MaxGames        \* 0 runs forever

ASSUME InjectorAssumption ==
  /\ AllStrategies \in Seq(Strategy)
  /\ Len(AllStrategies) >= 2
  /\ \A j, k \in 1..Len(AllStrategies) : AllStrategies[j] = AllStrategies[k] => j = k
  /\ MaxGames \in Nat

\* pairing on a draw h: indices into AllStrategies, which Go counts from 0.
FirstOf(h) == h % Len(AllStrategies)
SecondOf(h) ==
  LET n == Len(AllStrategies)
      b == (h \div n) % (n - 1)
  IN IF b >= FirstOf(h) THEN b + 1 ELSE b

NextPairing(id) ==
  NewGame(id, AllStrategies[FirstOf(Draw[id]) + 1], AllStrategies[SecondOf(Draw[id]) + 1])

\* Variant: the marker always bootstraps, also in the middle of a stream.
InjectorBootsAlways(st) == {NextPairing(st.nextGameId)}

\* HandleEvent on the marker: only a stream that is empty is bootstrapped.
InjectorBoots(st) == IF st.appliedSeq < 0 THEN {NextPairing(st.nextGameId)} ELSE {}

\* HandleEvent on an event the store has applied: the next game follows the
\* completion of the last one, until maxGames have completed.
InjectorEmits(st) ==
  IF JustCompleted(st) /\ ~(MaxGames > 0 /\ Len(st.completed) >= MaxGames)
  THEN {NextPairing(st.nextGameId)}
  ELSE {}
=============================================================================
