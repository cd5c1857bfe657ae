------------------------------ MODULE GameStore ------------------------------
(***************************************************************************)
(* The replicated state machine every component folds the log into         *)
(* (src/internal/fsm/game_store.go, game_events.go), as pure operators on  *)
(* a store record.  A replica's store is Rebuild of the events it has      *)
(* applied.                                                                *)
(*                                                                         *)
(* The chained checksum is modelled as the sequence of the digests folded  *)
(* into it, that is, as a hash with no collisions.                         *)
(***************************************************************************)
EXTENDS Integers, Sequences, SequencesExt, FiniteSets

CONSTANT Nil   \* a *Decision or *Game pointer that is nil

Strategy == {"cooperator", "flipper", "retaliator", "copy-leader"}

\* The names in the order < gives the Go strings: the tie-break.
ByName == <<"cooperator", "copy-leader", "flipper", "retaliator">>
NamedBefore(s, t) == \E j, k \in 1..Len(ByName) : j < k /\ ByName[j] = s /\ ByName[k] = t

NoStrategy == ""
Decision == {"cooperate", "cheat"}
Unknown == "unknown"
NoBug == -1       \* a store without an injected Bug; else the Bug's FromGame

\* A nil pointer is neither a decision nor a game.
ASSUME NilAssumption ==
  /\ Nil \notin Decision
  /\ Nil \notin [id : Nat, seq : Nat,
                a : Strategy, decA : Decision \cup {Nil}, payA : Int,
                b : Strategy, decB : Decision \cup {Nil}, payB : Int]

\* Payloads.
NewGame(id, a, b) == [kind |-> "NewGame", id |-> id, a |-> a, b |-> b]
GameDecision(s, d) == [kind |-> "GameDecision", strategy |-> s, decision |-> d]

\* A game's fields; the payoffs are zero until it completes.
Game(id, seq, a, b) == [id |-> id, seq |-> seq, a |-> a, decA |-> Nil, payA |-> 0,
                        b |-> b, decB |-> Nil, payB |-> 0]

EmptyStore == [current |-> Nil, completed |-> <<>>, leaderboard |-> <<>>,
               nextGameId |-> 0, appliedSeq |-> -1, chain |-> <<>>, panicked |-> FALSE]

-----------------------------------------------------------------------------
\* Accessors of a game.
DecisionOf(game, s) == CASE s = game.a -> game.decA
                         [] s # game.a /\ s = game.b -> game.decB
                         [] OTHER -> Nil
Opponent(game, s) == CASE s = game.a -> game.b
                       [] s # game.a /\ s = game.b -> game.a
                       [] OTHER -> NoStrategy
Involves(game, s) == s \in {game.a, game.b}

\* Decisions are taken in order: A, then B.
NextToMove(game) == CASE game = Nil -> NoStrategy
                      [] game # Nil /\ game.decA = Nil -> game.a
                      [] game # Nil /\ game.decA # Nil /\ game.decB = Nil -> game.b
                      [] OTHER -> NoStrategy

-----------------------------------------------------------------------------
\* calculatePayoff, and corrupt for a store whose Bug starts at game `bug`.
Payoff(dA, dB) == CASE dA = "cooperate" /\ dB = "cooperate" -> <<2, 2>>
                    [] dA = "cooperate" /\ dB = "cheat" -> <<-1, 3>>
                    [] dA = "cheat" /\ dB = "cooperate" -> <<3, -1>>
                    [] OTHER -> <<0, 0>>
Corruption(bug, game) == IF bug # NoBug /\ game.id >= bug THEN 1 ELSE 0

Paid(bug, game) ==
  [game EXCEPT !.payA = Payoff(game.decA, game.decB)[1] + Corruption(bug, game),
               !.payB = Payoff(game.decA, game.decB)[2]]

\* leaderboard[s] += n: a name appears on the board when it is first credited.
Credit(board, s, n) ==
  [t \in DOMAIN board \cup {s} |->
     (IF t \in DOMAIN board THEN board[t] ELSE 0) + (IF t = s THEN n ELSE 0)]
CreditGame(board, game) ==
  Credit(Credit(board, game.a, game.payA), game.b, game.payB)

\* rehash: the chain covers derived state only, the board in ranked order
\* (a function of the board, so the board itself stands for it).
Digest(st) == [applied |-> st.appliedSeq, next |-> st.nextGameId,
               completed |-> Len(st.completed), board |-> st.leaderboard,
               current |-> IF st.current = Nil THEN Nil
                           ELSE <<st.current.id, st.current.seq, st.current.a,
                                  st.current.b, st.current.decA, st.current.decB>>]
\* Variant: a checksum of the current state alone, not chained.
RehashUnchained(st) == [st EXCEPT !.chain = <<Digest(st)>>]
Rehash(st) == [st EXCEPT !.chain = Append(@, Digest(st))]

Panic(st) == [st EXCEPT !.panicked = TRUE]

ApplyNewGame(st, seq, v) ==
  IF st.current # Nil THEN Panic(st)
  ELSE Rehash([st EXCEPT !.appliedSeq = seq, !.nextGameId = v.id + 1,
                         !.current = Game(v.id, seq, v.a, v.b)])

\* A decision fills the sender's half; one for a half already filled, or from
\* a strategy that is not playing, changes nothing.
Decided(game, v) ==
  CASE v.strategy = game.a /\ game.decA = Nil -> [game EXCEPT !.decA = v.decision]
    [] ~(v.strategy = game.a /\ game.decA = Nil)
       /\ v.strategy = game.b /\ game.decB = Nil -> [game EXCEPT !.decB = v.decision]
    [] OTHER -> game

\* Variant: the board is credited before the payoffs are known.
ApplyDecisionUnpaid(bug, st, seq, v) ==
  IF st.current = Nil THEN Panic(st)
  ELSE LET game == Decided(st.current, v)
           applied == [st EXCEPT !.appliedSeq = seq, !.current = game]
       IN IF game.decA = Nil \/ game.decB = Nil
          THEN Rehash(applied)
          ELSE Rehash([applied EXCEPT !.current = Nil,
                                      !.leaderboard = CreditGame(@, game),
                                      !.completed = Append(@, Paid(bug, game))])

ApplyDecision(bug, st, seq, v) ==
  IF st.current = Nil THEN Panic(st)
  ELSE LET game == Decided(st.current, v)
           applied == [st EXCEPT !.appliedSeq = seq, !.current = game]
           paid == Paid(bug, game)
       IN IF game.decA = Nil \/ game.decB = Nil
          THEN Rehash(applied)
          ELSE Rehash([applied EXCEPT !.current = Nil,
                                      !.leaderboard = CreditGame(@, paid),
                                      !.completed = Append(@, paid)])

ApplyEvent(bug, st, seq, v) ==
  CASE st.panicked -> st
    [] ~st.panicked /\ v.kind = "NewGame" -> ApplyNewGame(st, seq, v)
    [] ~st.panicked /\ v.kind = "GameDecision" -> ApplyDecision(bug, st, seq, v)

\* The store after the events whose payloads are h, in order.
Rebuild(bug, h) ==
  LET upto[k \in 0..Len(h)] ==
        IF k = 0 THEN EmptyStore ELSE ApplyEvent(bug, upto[k - 1], k - 1, h[k])
  IN upto[Len(h)]

\* ApplyEvent's result: whether the last event applied completed a game.
JustCompleted(st) ==
  /\ st.completed # <<>>
  /\ st.current = Nil

-----------------------------------------------------------------------------
\* Reads.  Every one of them scans the completed games or ranks a score board.
LastWhere(games, Test(_)) ==
  LET k == SelectLastInSeq(games, Test) IN IF k = 0 THEN Nil ELSE games[k]

LastCompletedGameFor(st, s) == LastWhere(st.completed, LAMBDA g : Involves(g, s))
LastCompletedGameBetween(st, s, t) ==
  LastWhere(st.completed, LAMBDA g : Involves(g, s) /\ Involves(g, t))

Ahead(scores, s, t) ==
  scores[s] > scores[t] \/ (scores[s] = scores[t] /\ NamedBefore(s, t))
LeaderOf(scores) ==
  IF DOMAIN scores = {} THEN NoStrategy
  ELSE CHOOSE s \in DOMAIN scores :
         \A t \in DOMAIN scores \ {s} : Ahead(scores, s, t)

LeadingStrategy(st) == IF st.completed = <<>> THEN NoStrategy ELSE LeaderOf(st.leaderboard)

\* Variant: the game being decided counts as one that might still resolve.
ResolvedUpTo(st, seq) == st.current = Nil \/ st.current.seq > seq

\* The watermark: reads scoped to the games admitted before seq.
ResolvedBefore(st, seq) == st.current = Nil \/ st.current.seq >= seq

LeaderBefore(st, seq) ==
  LET Scored(board, g) == IF g.seq < seq THEN CreditGame(board, g) ELSE board
  IN LeaderOf(FoldLeft(Scored, <<>>, st.completed))

\* "Most recent" by admission, not by completion; Nil for (Unknown, false).
LastDecisionBefore(st, s, seq) ==
  LET past == {k \in 1..Len(st.completed) :
                 /\ st.completed[k].seq < seq
                 /\ DecisionOf(st.completed[k], s) # Nil}
      latest == CHOOSE k \in past :
                  \A m \in past : st.completed[m].seq <= st.completed[k].seq
  IN IF past = {} THEN Nil ELSE DecisionOf(st.completed[latest], s)
=============================================================================
