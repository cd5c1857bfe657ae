----------------------------- MODULE Strategies -----------------------------
(***************************************************************************)
(* The players (src/internal/strategy): what each strategy decides, the    *)
(* defects a replica can be given, and the handler that gates and emits    *)
(* the decision.  A defect list is a subset of Flaw, as in Config; the     *)
(* CorruptPayoff flaw is the store's, see GameStore's `bug`.               *)
(***************************************************************************)
EXTENDS GameStore

Flaw == {"SkipWatermark", "ImpureClock", "WrongDecision"}

Cooperate == "cooperate"

Flip(st, self) ==
  LET previous == LastCompletedGameFor(st, self)
  IN IF previous # Nil /\ DecisionOf(previous, self) = "cooperate"
     THEN "cheat" ELSE "cooperate"

Retaliate(st, self, game) ==
  LET them == Opponent(game, self)
      previous == LastCompletedGameBetween(st, self, them)
  IN IF previous # Nil /\ DecisionOf(previous, them) = "cheat"
     THEN "cheat" ELSE "cooperate"

\* What a read of the leader's last move yields: nothing known means cooperate.
Copied(d) == IF d = Nil THEN "cooperate" ELSE d

CopyLeaderWatermarked(st, game) ==
  IF ~ResolvedBefore(st, game.seq) THEN Unknown
  ELSE LET leader == LeaderBefore(st, game.seq)
       IN IF leader = NoStrategy THEN "cooperate"
          ELSE Copied(LastDecisionBefore(st, leader, game.seq))

CopyLeaderNewest(st) ==
  LET leader == LeadingStrategy(st)
      previous == LastCompletedGameFor(st, leader)
  IN IF leader = NoStrategy \/ previous = Nil THEN "cooperate"
     ELSE DecisionOf(previous, leader)

HonestDecision(self, flaws, st, game) ==
  CASE self = "cooperator" -> Cooperate
    [] self = "flipper" -> Flip(st, self)
    [] self = "retaliator" -> Retaliate(st, self, game)
    [] self = "copy-leader" -> IF "SkipWatermark" \in flaws THEN CopyLeaderNewest(st)
                               ELSE CopyLeaderWatermarked(st, game)

Inverted(d) == IF d = "cooperate" THEN "cheat" ELSE "cooperate"

\* DecideFor: the decisions the wrapped function can return; the clock's
\* parity decides between two when the impure wrapper is on.
DecideFor(self, flaws, st, game) ==
  LET honest == HonestDecision(self, flaws, st, game)
      d == IF "WrongDecision" \in flaws THEN Inverted(honest) ELSE honest
  IN IF "ImpureClock" \in flaws THEN {d, Inverted(d)} ELSE {d}

ShouldRespond(game, s) == NextToMove(game) = s /\ s # NoStrategy

\* Player.HandleEvent once the store has applied the event: the decisions it
\* may emit, none when it is not this player's turn or it must wait.
PlayerEmits(self, flaws, st) ==
  IF ~ShouldRespond(st.current, self) THEN {}
  ELSE {GameDecision(self, d) : d \in DecideFor(self, flaws, st, st.current) \ {Unknown}}
=============================================================================
