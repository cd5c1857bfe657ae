----------------------------- MODULE StoreFeedProofs -----------------------------
(***************************************************************************)
(* Proofs about the game store (GameStore), fed with every stream the      *)
(* platform can produce (StoreFeed): the checksum chain tells streams      *)
(* apart, the board is the total of the completed games, and a read at a   *)
(* watermark answers what the newest read does.                            *)
(***************************************************************************)
EXTENDS StoreFeed, SequenceTheorems, WellFoundedInduction, TLAPS

-----------------------------------------------------------------------------
\* A game in flight, one that is over, and a store that holds them; S, any set in which
\* the digests of its chain are.
InFlight ==
  {g \in [id : Nat, seq : Nat, a : Players, decA : Decision \cup {Nil}, payA : {0},
          b : Players, decB : {Nil}, payB : {0}] : g.a # g.b}
Over == [id : Nat, seq : Nat, a : Players, decA : Decision, payA : Int,
         b : Players, decB : Decision, payB : Int]
Board == UNION {[D -> Int] : D \in SUBSET Players}
Store(S) ==
  [current : InFlight \cup {Nil}, completed : Seq(Over), leaderboard : Board,
   nextGameId : Nat, appliedSeq : Nat \cup {-1}, chain : Seq(S), panicked : {FALSE}]

\* The invariant.  While the chains agree the stores are the same, fed the same and paid
\* the same; and stores fed and paid the same are the same.
Fed == \E S : sound \in Store(S) /\ suspect \in Store(S)
Agree == sound.chain = suspect.chain => sound = suspect /\ ~parted /\ ~Corrupted
Alike == ~parted /\ ~Corrupted => sound = suspect

IInv == Fed /\ Agree /\ Alike

-----------------------------------------------------------------------------
\* Stores written out field by field.
Made(current, completed, board, next, seq, chain, panicked) ==
  [current |-> current, completed |-> completed, leaderboard |-> board, nextGameId |-> next,
   appliedSeq |-> seq, chain |-> chain, panicked |-> panicked]

LEMMA StoreIsMade ==
  ASSUME NEW S, NEW st \in Store(S)
  PROVE  /\ st = Made(st.current, st.completed, st.leaderboard, st.nextGameId,
                      st.appliedSeq, st.chain, st.panicked)
         /\ st.current \in InFlight \cup {Nil} /\ st.completed \in Seq(Over)
         /\ st.leaderboard \in Board /\ st.nextGameId \in Nat
         /\ st.appliedSeq \in Nat \cup {-1} /\ st.chain \in Seq(S) /\ ~st.panicked
  BY DEF Store, Made

LEMMA MadeIsStore ==
  ASSUME NEW S, NEW c \in InFlight \cup {Nil}, NEW d \in Seq(Over), NEW l \in Board, NEW n \in Nat,
         NEW q \in Nat \cup {-1}, NEW h \in Seq(S), NEW p \in {FALSE}
  PROVE  Made(c, d, l, n, q, h, p) \in Store(S)
  BY DEF Store, Made

LEMMA Fields ==
  ASSUME NEW c, NEW d, NEW l, NEW n, NEW q, NEW h, NEW p, NEW x
  PROVE  LET st == Made(c, d, l, n, q, h, p)
         IN  /\ st.current = c /\ st.completed = d /\ st.leaderboard = l
             /\ st.nextGameId = n /\ st.appliedSeq = q /\ st.chain = h
             /\ [st EXCEPT !.current = x] = Made(x, d, l, n, q, h, p)
             /\ [st EXCEPT !.completed = x] = Made(c, x, l, n, q, h, p)
             /\ [st EXCEPT !.leaderboard = x] = Made(c, d, x, n, q, h, p)
             /\ [st EXCEPT !.nextGameId = x] = Made(c, d, l, x, q, h, p)
             /\ [st EXCEPT !.appliedSeq = x] = Made(c, d, l, n, x, h, p)
             /\ [st EXCEPT !.chain = x] = Made(c, d, l, n, q, x, p)
<1> DEFINE st == Made(c, d, l, n, q, h, p)
<1>1. /\ st.current = c /\ st.completed = d /\ st.leaderboard = l
      /\ st.nextGameId = n /\ st.appliedSeq = q /\ st.chain = h
  BY DEF Made
<1>2. [st EXCEPT !.current = x] = Made(x, d, l, n, q, h, p)
  BY DEF Made
<1>3. [st EXCEPT !.completed = x] = Made(c, x, l, n, q, h, p)
  BY DEF Made
<1>4. [st EXCEPT !.leaderboard = x] = Made(c, d, x, n, q, h, p)
  BY DEF Made
<1>5. [st EXCEPT !.nextGameId = x] = Made(c, d, l, x, q, h, p)
  BY DEF Made
<1>6. [st EXCEPT !.appliedSeq = x] = Made(c, d, l, n, x, h, p)
  BY DEF Made
<1>7. [st EXCEPT !.chain = x] = Made(c, d, l, n, q, x, p)
  BY DEF Made
<1> QED
  BY <1>1, <1>2, <1>3, <1>4, <1>5, <1>6, <1>7

-----------------------------------------------------------------------------
\* What a board says of a strategy; one that is not on it has nothing.
Score(board, s) == IF s \in DOMAIN board THEN board[s] ELSE 0

LEMMA Credited ==
  ASSUME NEW board \in Board, NEW s \in Players, NEW n \in Int
  PROVE  /\ Credit(board, s, n) \in Board
         /\ Score(Credit(board, s, n), s) = Score(board, s) + n
         /\ \A t \in Players \ {s} : Score(Credit(board, s, n), t) = Score(board, t)
         /\ \A t \in Players : Score(board, t) \in Int
<1>1. PICK D \in SUBSET Players : board \in [D -> Int]
  BY DEF Board
<1>2. DOMAIN board = D /\ \A t \in D : board[t] \in Int
  BY <1>1
<1> DEFINE more == Credit(board, s, n)
<1>3. more \in [D \cup {s} -> Int]
  BY <1>2 DEF Credit
<1>4. DOMAIN more = D \cup {s}
  BY <1>3
<1>5. \A t \in D \cup {s} : more[t] = Score(board, t) + (IF t = s THEN n ELSE 0)
  BY <1>2 DEF Credit, Score
<1>6. \A t \in Players : Score(board, t) \in Int
  BY <1>2 DEF Score
<1> HIDE DEF more
<1>7. more \in Board
  BY <1>3 DEF Board
<1>8. Score(more, s) = Score(board, s) + n
  <2>1. Score(more, s) = more[s]
    BY <1>4 DEF Score
  <2> QED
    BY <1>5, <2>1
<1>9. ASSUME NEW t \in Players \ {s} PROVE Score(more, t) = Score(board, t)
  <2>1. CASE t \in D
    <3>1. Score(more, t) = more[t] /\ more[t] = Score(board, t) + 0
      BY <1>4, <1>5, <2>1 DEF Score
    <3> QED
      BY <1>6, <3>1
  <2>2. CASE t \notin D
    BY <1>2, <1>4, <2>2 DEF Score
  <2> QED
    BY <2>1, <2>2
<1> QED
  BY <1>6, <1>7, <1>8, <1>9 DEF more

LEMMA BothCredited ==
  ASSUME NEW board \in Board, NEW a \in Players, NEW b \in Players, a # b, NEW m \in Int, NEW n \in Int
  PROVE  LET both == Credit(Credit(board, a, m), b, n)
         IN  /\ both \in Board
             /\ Score(both, a) = Score(board, a) + m
             /\ Score(both, b) = Score(board, b) + n
<1> DEFINE first == Credit(board, a, m)
           both == Credit(first, b, n)
<1>1. /\ first \in Board /\ Score(first, a) = Score(board, a) + m
      /\ Score(first, b) = Score(board, b)
  BY Credited
<1> HIDE DEF first
<1>2. both \in Board /\ Score(both, b) = Score(first, b) + n
  BY <1>1, Credited
<1>3. Score(both, a) = Score(first, a)
  BY <1>1, Credited
<1> QED
  BY <1>1, <1>2, <1>3 DEF first

\* The board tells what the two players of a game have got.
LEMMA BoardTells ==
  ASSUME NEW board \in Board, NEW g \in Over, NEW h \in Over,
         g.a # g.b, h.a = g.a, h.b = g.b
  PROVE  /\ CreditGame(board, g) \in Board
         /\ CreditGame(board, g) = CreditGame(board, h) => g.payA = h.payA /\ g.payB = h.payB
<1>1. PICK a \in Players, b \in Players, i \in Int, j \in Int, m \in Int, n \in Int :
        /\ g.a = a /\ g.b = b /\ g.payA = i /\ g.payB = j
        /\ h.a = a /\ h.b = b /\ h.payA = m /\ h.payB = n
        /\ a # b
  BY DEF Over
<1>2. PICK p \in Int, q \in Int : p = Score(board, a) /\ q = Score(board, b)
  BY Credited
<1> DEFINE one == CreditGame(board, g)
           two == CreditGame(board, h)
<1>3. one \in Board /\ Score(one, a) = p + i /\ Score(one, b) = q + j
  BY <1>1, <1>2, BothCredited DEF CreditGame
<1>4. Score(two, a) = p + m /\ Score(two, b) = q + n
  BY <1>1, <1>2, BothCredited DEF CreditGame
<1> HIDE DEF one, two
<1>5. one = two => p + i = p + m /\ q + j = q + n
  BY <1>3, <1>4
<1>6. one = two => i = m /\ j = n
  BY <1>1, <1>2, <1>5
<1> QED
  BY <1>1, <1>3, <1>6 DEF one, two

-----------------------------------------------------------------------------
\* What the digest shows.
Shown(game) == IF game = Nil THEN Nil
               ELSE <<game.id, game.seq, game.a, game.b, game.decA, game.decB>>
Summary(current, games, board, next, seq) ==
  [applied |-> seq, next |-> next, completed |-> games, board |-> board, current |-> Shown(current)]

LEMMA DigestOf ==
  ASSUME NEW c, NEW d, NEW l, NEW n, NEW q, NEW h, NEW p
  PROVE  /\ Digest(Made(c, d, l, n, q, h, p)) = Summary(c, Len(d), l, n, q)
         /\ Rehash(Made(c, d, l, n, q, h, p))
              = Made(c, d, l, n, q, Append(h, Summary(c, Len(d), l, n, q)), p)
<1> DEFINE st == Made(c, d, l, n, q, h, p)
           sum == Summary(c, Len(d), l, n, q)
<1>1. /\ st.current = c /\ st.completed = d /\ st.leaderboard = l
      /\ st.nextGameId = n /\ st.appliedSeq = q /\ st.chain = h
  BY Fields
<1>2. [st EXCEPT !.chain = Append(h, sum)] = Made(c, d, l, n, q, Append(h, sum), p)
  <2>1. ASSUME NEW x PROVE [st EXCEPT !.chain = x] = Made(c, d, l, n, q, x, p)
    BY Fields
  <2> QED
    BY <2>1, Zenon
<1> HIDE DEF st
<1>3. Digest(st) = sum
  BY <1>1 DEF Digest, Summary, Shown
<1>4. Rehash(st) = [st EXCEPT !.chain = Append(h, sum)]
  BY <1>1, <1>3, Zenon DEF Rehash
<1> QED
  BY <1>2, <1>3, <1>4 DEF st

LEMMA SummariesDiffer ==
  ASSUME NEW c, NEW d, NEW l, NEW n, NEW q, NEW e, NEW f, NEW m, NEW o, NEW r,
         Summary(c, d, l, n, q) = Summary(e, f, m, o, r)
  PROVE  Shown(c) = Shown(e) /\ l = m
  BY DEF Summary

Second(game, d) == [game EXCEPT !.decB = d]

\* The three steps of a game, each on a store it can be taken on.
Admitted(st, a, b) ==
  Rehash([st EXCEPT !.appliedSeq = st.appliedSeq + 1, !.nextGameId = st.nextGameId + 1,
                    !.current = Game(st.nextGameId, st.appliedSeq + 1, a, b)])
Opened(st, d) ==
  Rehash([st EXCEPT !.appliedSeq = st.appliedSeq + 1, !.current = [st.current EXCEPT !.decA = d]])
Closed(from, st, d) ==
  LET paid == Paid(from, [st.current EXCEPT !.decB = d])
  IN Rehash([[st EXCEPT !.appliedSeq = st.appliedSeq + 1, !.current = [st.current EXCEPT !.decB = d]]
               EXCEPT !.current = Nil, !.leaderboard = CreditGame(@, paid),
                      !.completed = Append(@, paid)])

LEMMA DecisionsAreNotNil == Nil \notin Decision /\ Nil \notin InFlight
<1>1. InFlight \subseteq [id : Nat, seq : Nat,
                a : Strategy, decA : Decision \cup {Nil}, payA : Int,
                b : Strategy, decB : Decision \cup {Nil}, payB : Int]
  BY FeedAssumption DEF InFlight
<1> QED
  BY <1>1, NilAssumption

\* Every payload the platform may produce is one of the three.
LEMMA ThreeSteps ==
  ASSUME NEW S, NEW st \in Store(S), NEW p \in NextPayloads(st)
  PROVE  \/ /\ st.current = Nil
            /\ \E a, b \in Players :
                 /\ a # b /\ p = NewGame(st.nextGameId, a, b)
                 /\ \A from : ApplyEvent(from, st, st.appliedSeq + 1, p) = Admitted(st, a, b)
         \/ /\ st.current \in InFlight /\ st.current.decA = Nil
            /\ \E d \in Decision :
                 /\ p = GameDecision(st.current.a, d)
                 /\ \A from : ApplyEvent(from, st, st.appliedSeq + 1, p) = Opened(st, d)
         \/ /\ st.current \in InFlight /\ st.current.decA \in Decision
            /\ \E d \in Decision :
                 /\ p = GameDecision(st.current.b, d)
                 /\ \A from : ApplyEvent(from, st, st.appliedSeq + 1, p) = Closed(from, st, d)
<1>0. st.current \in InFlight \cup {Nil} /\ ~st.panicked
  BY StoreIsMade
<1>1. CASE st.current = Nil
  <2>1. PICK a, b \in Players :
          /\ p = NewGame(st.nextGameId, a, b)
          /\ p \notin {NewGame(st.nextGameId, x, x) : x \in Players}
    BY <1>1 DEF NextPayloads
  <2>2. a # b
    BY <2>1
  <2>3. p.kind = "NewGame" /\ p.id = st.nextGameId /\ p.a = a /\ p.b = b
    BY <2>1 DEF NewGame
  <2>4. \A from : ApplyEvent(from, st, st.appliedSeq + 1, p)
                   = ApplyNewGame(st, st.appliedSeq + 1, p)
    BY <1>0, <2>3 DEF ApplyEvent
  <2>5. ApplyNewGame(st, st.appliedSeq + 1, p) = Admitted(st, a, b)
    BY <1>1, <2>3, Zenon DEF ApplyNewGame, Admitted
  <2> QED
    BY <1>1, <2>1, <2>2, <2>4, <2>5
<1>2. CASE st.current # Nil
  <2>0. PICK g \in InFlight : g = st.current
    BY <1>0, <1>2
  <2>1. g.a # g.b /\ g.decA \in Decision \cup {Nil} /\ g.decB = Nil /\ g.a \in Players /\ g.b \in Players
    BY <2>0 DEF InFlight
  <2>2. PICK d \in Decision : p = GameDecision(NextToMove(g), d)
    BY <1>2, <2>0 DEF NextPayloads
  <2>3. p.kind = "GameDecision" /\ p.strategy = NextToMove(g) /\ p.decision = d
    BY <2>2 DEF GameDecision
  <2>4. \A from : ApplyEvent(from, st, st.appliedSeq + 1, p)
                   = ApplyDecision(from, st, st.appliedSeq + 1, p)
    BY <1>0, <2>3 DEF ApplyEvent
  <2>5. CASE g.decA = Nil
    <3>1. NextToMove(g) = g.a
      BY <1>2, <2>0, <2>5 DEF NextToMove
    <3>2. Decided(g, p) = [g EXCEPT !.decA = d]
      BY <2>3, <2>5, <3>1 DEF Decided
    <3>3. [g EXCEPT !.decA = d].decB = Nil
      BY <2>0, <2>1 DEF InFlight
    <3>4. \A from : ApplyDecision(from, st, st.appliedSeq + 1, p) = Opened(st, d)
      BY <1>2, <2>0, <3>2, <3>3, Zenon DEF ApplyDecision, Opened
    <3> QED
      BY <2>0, <2>2, <2>4, <2>5, <3>1, <3>4
  <2>6. CASE g.decA \in Decision
    <3>0. g.decA # Nil /\ d # Nil
      BY <2>2, <2>6, DecisionsAreNotNil
    <3>1. NextToMove(g) = g.b
      BY <1>2, <2>0, <2>1, <3>0 DEF NextToMove
    <3>2. Decided(g, p) = [g EXCEPT !.decB = d]
      BY <2>1, <2>3, <3>0, <3>1 DEF Decided
    <3>3. [g EXCEPT !.decB = d].decA = g.decA /\ [g EXCEPT !.decB = d].decB = d
      BY <2>0 DEF InFlight
    <3>4. \A from : ApplyDecision(from, st, st.appliedSeq + 1, p) = Closed(from, st, d)
      BY <1>2, <2>0, <3>0, <3>2, <3>3, Zenon DEF ApplyDecision, Closed
    <3> QED
      BY <2>0, <2>2, <2>4, <2>6, <3>1, <3>4
  <2> QED
    BY <2>1, <2>5, <2>6
<1> QED
  BY <1>1, <1>2

\* What the three steps make of a store.
LEMMA AdmittedIs ==
  ASSUME NEW c, NEW d, NEW l, NEW n, NEW q, NEW h, NEW p, NEW a, NEW b,
         NEW next, next = n + 1, NEW seq, seq = q + 1, NEW game, game = Game(n, seq, a, b)
  PROVE  Admitted(Made(c, d, l, n, q, h, p), a, b)
           = Made(game, d, l, next, seq, Append(h, Summary(game, Len(d), l, next, seq)), p)
<1> DEFINE st == Made(c, d, l, n, q, h, p)
           to == Made(game, d, l, next, seq, h, p)
<1>1. st.nextGameId = n /\ st.appliedSeq = q
  BY Fields
<1>2. [st EXCEPT !.appliedSeq = seq, !.nextGameId = next, !.current = game] = to
  <2>1. [st EXCEPT !.appliedSeq = seq] = Made(c, d, l, n, seq, h, p)
    BY DEF Made
  <2>2. [Made(c, d, l, n, seq, h, p) EXCEPT !.nextGameId = next] = Made(c, d, l, next, seq, h, p)
    BY DEF Made
  <2>3. [Made(c, d, l, next, seq, h, p) EXCEPT !.current = game] = to
    BY DEF Made
  <2> HIDE DEF st, to
  <2> QED
    BY ONLY <2>1, <2>2, <2>3, Zenon
<1>3. Rehash(to) = Made(game, d, l, next, seq, Append(h, Summary(game, Len(d), l, next, seq)), p)
  BY ONLY DigestOf
<1> HIDE DEF st, to
<1>4. Admitted(st, a, b) = Rehash(to)
  BY <1>1, <1>2, Zenon DEF Admitted
<1> QED
  BY <1>3, <1>4, Zenon DEF st

LEMMA OpenedIs ==
  ASSUME NEW d, NEW l, NEW n, NEW q, NEW h, NEW p, NEW g, NEW x,
         NEW seq, seq = q + 1, NEW game, game = [g EXCEPT !.decA = x]
  PROVE  Opened(Made(g, d, l, n, q, h, p), x)
           = Made(game, d, l, n, seq, Append(h, Summary(game, Len(d), l, n, seq)), p)
<1> DEFINE st == Made(g, d, l, n, q, h, p)
           to == Made(game, d, l, n, seq, h, p)
<1>1. st.current = g /\ st.appliedSeq = q
  BY Fields
<1>2. [st EXCEPT !.appliedSeq = seq, !.current = game] = to
  <2>1. [st EXCEPT !.appliedSeq = seq] = Made(g, d, l, n, seq, h, p)
    BY DEF Made
  <2>2. [Made(g, d, l, n, seq, h, p) EXCEPT !.current = game] = to
    BY DEF Made
  <2> HIDE DEF st, to
  <2> QED
    BY ONLY <2>1, <2>2, Zenon
<1>3. Rehash(to) = Made(game, d, l, n, seq, Append(h, Summary(game, Len(d), l, n, seq)), p)
  BY ONLY DigestOf
<1> HIDE DEF st, to
<1>4. Opened(st, x) = Rehash(to)
  BY <1>1, <1>2, Zenon DEF Opened
<1> QED
  BY <1>3, <1>4, Zenon DEF st

LEMMA ClosedIs ==
  ASSUME NEW d, NEW l, NEW n, NEW q, NEW h, NEW p, NEW g, NEW x, NEW b,
         NEW seq, seq = q + 1
  PROVE  LET paid == Paid(b, Second(g, x))
             board == CreditGame(l, paid)
             games == Append(d, paid)
         IN  Closed(b, Made(g, d, l, n, q, h, p), x)
               = Made(Nil, games, board, n, seq,
                      Append(h, Summary(Nil, Len(games), board, n, seq)), p)
<1> SUFFICES ASSUME NEW paid, paid = Paid(b, Second(g, x)),
                    NEW board, board = CreditGame(l, paid), NEW games, games = Append(d, paid)
             PROVE  Closed(b, Made(g, d, l, n, q, h, p), x)
                      = Made(Nil, games, board, n, seq,
                             Append(h, Summary(Nil, Len(games), board, n, seq)), p)
  OBVIOUS
<1>0. PICK game : game = [g EXCEPT !.decB = x]
  OBVIOUS
<1> DEFINE st == Made(g, d, l, n, q, h, p)
           applied == Made(game, d, l, n, seq, h, p)
           to == Made(Nil, games, board, n, seq, h, p)
<1>1. st.current = g /\ st.appliedSeq = q
  BY Fields
<1>2. [st EXCEPT !.appliedSeq = seq, !.current = game] = applied
  <2>1. [st EXCEPT !.appliedSeq = seq] = Made(g, d, l, n, seq, h, p)
    BY DEF Made
  <2>2. [Made(g, d, l, n, seq, h, p) EXCEPT !.current = game] = applied
    BY DEF Made
  <2> HIDE DEF st, applied
  <2> QED
    BY ONLY <2>1, <2>2, Zenon
<1>3. applied.leaderboard = l /\ applied.completed = d
  BY Fields
<1>4. [applied EXCEPT !.current = Nil, !.leaderboard = board, !.completed = games] = to
  <2>1. [applied EXCEPT !.current = Nil] = Made(Nil, d, l, n, seq, h, p)
    BY DEF Made
  <2>2. [Made(Nil, d, l, n, seq, h, p) EXCEPT !.leaderboard = board] = Made(Nil, d, board, n, seq, h, p)
    BY DEF Made
  <2>3. [Made(Nil, d, board, n, seq, h, p) EXCEPT !.completed = games] = to
    <3>1. ASSUME NEW y
          PROVE  [Made(Nil, d, board, n, seq, h, p) EXCEPT !.completed = y]
                   = Made(Nil, y, board, n, seq, h, p)
      BY DEF Made
    <3> QED
      BY <3>1, Zenon
  <2> HIDE DEF applied, to
  <2> QED
    BY ONLY <2>1, <2>2, <2>3, Zenon
<1>5. Rehash(to) = Made(Nil, games, board, n, seq,
                        Append(h, Summary(Nil, Len(games), board, n, seq)), p)
  BY ONLY DigestOf
<1> HIDE DEF st, to, applied
<1>6. Closed(b, st, x) = Rehash(to)
  BY <1>0, <1>1, <1>2, <1>3, <1>4, Zenon DEF Closed, Second
<1> QED
  BY <1>5, <1>6, Zenon DEF st

LEMMA PaidIs ==
  ASSUME NEW g \in InFlight, g.decA \in Decision, NEW x \in Decision, NEW b
  PROVE  LET paid == Paid(b, [g EXCEPT !.decB = x])
         IN  /\ paid \in Over
             /\ paid.a = g.a /\ paid.b = g.b /\ paid.id = g.id
             /\ paid.payA = Payoff(g.decA, x)[1] + Corruption(b, g)
             /\ paid.payB = Payoff(g.decA, x)[2]
<1> DEFINE game == [g EXCEPT !.decB = x]
           m == Payoff(g.decA, x)[1] + Corruption(b, g)
           n == Payoff(g.decA, x)[2]
<1>1. /\ game \in [id : Nat, seq : Nat, a : Players, decA : Decision, payA : {0},
                   b : Players, decB : Decision, payB : {0}]
      /\ game.a = g.a /\ game.b = g.b /\ game.id = g.id /\ game.decA = g.decA /\ game.decB = x
  BY DEF InFlight
<1>2. m \in Int /\ n \in Int
  BY DEF Payoff, Corruption, Decision
<1>3. Corruption(b, game) = Corruption(b, g)
  BY <1>1 DEF Corruption
<1> HIDE DEF game, m, n
<1>4. Paid(b, game) = [game EXCEPT !.payA = m, !.payB = n]
  BY <1>1, <1>3, Zenon DEF Paid, m, n
<1>5. PICK first : /\ first = [game EXCEPT !.payA = m]
                   /\ first \in [id : Nat, seq : Nat, a : Players, decA : Decision, payA : Int,
                                 b : Players, decB : Decision, payB : {0}]
                   /\ first.a = g.a /\ first.b = g.b /\ first.id = g.id /\ first.payA = m
  <2>1. /\ [game EXCEPT !.payA = m] \in
             [id : Nat, seq : Nat, a : Players, decA : Decision, payA : Int,
                                 b : Players, decB : Decision, payB : {0}]
        /\ [game EXCEPT !.payA = m].a = g.a /\ [game EXCEPT !.payA = m].b = g.b
        /\ [game EXCEPT !.payA = m].id = g.id /\ [game EXCEPT !.payA = m].payA = m
    BY <1>1, <1>2
  <2> QED
    BY <2>1
<1>6. /\ [first EXCEPT !.payB = n] \in Over
      /\ [first EXCEPT !.payB = n].a = g.a /\ [first EXCEPT !.payB = n].b = g.b
      /\ [first EXCEPT !.payB = n].id = g.id /\ [first EXCEPT !.payB = n].payA = m
      /\ [first EXCEPT !.payB = n].payB = n
  BY <1>2, <1>5 DEF Over
<1>7. Paid(b, game) = [first EXCEPT !.payB = n]
  BY <1>4, <1>5, Zenon
<1> QED
  BY <1>6, <1>7 DEF game, m, n

-----------------------------------------------------------------------------
\* Whether a sequence of games has one that the bug has paid.
Tainted(b, games) == b # NoBug /\ \E k \in 1..Len(games) : games[k].id >= b

LEMMA TaintGrows ==
  ASSUME NEW games \in Seq(Over), NEW game \in Over, NEW b
  PROVE  Tainted(b, Append(games, game))
           <=> Tainted(b, games) \/ (b # NoBug /\ game.id >= b)
<1> DEFINE more == Append(games, game)
<1>1. /\ Len(games) \in Nat /\ Len(more) = Len(games) + 1
      /\ \A k \in 1..Len(games) : more[k] = games[k]
      /\ more[Len(games) + 1] = game
  BY AppendProperties, LenProperties
<1> HIDE DEF more
<1>2. \A k \in 1..Len(more) : k \in 1..Len(games) \/ k = Len(games) + 1
  BY <1>1
<1>3. Len(games) + 1 \in 1..Len(more) /\ \A k \in 1..Len(games) : k \in 1..Len(more)
  BY <1>1
<1> QED
  BY <1>1, <1>2, <1>3 DEF more, Tainted

\* Every step leaves a store, with one more digest in its chain, of that store.
Follows(S, st, to) ==
  \E e : /\ to \in Store(S \cup {e})
         /\ to.chain = Append(st.chain, e)
         /\ \/ to.completed = st.completed
            \/ \E game \in Over : to.completed = Append(st.completed, game)

LEMMA StepKeeps ==
  ASSUME NEW S, NEW st \in Store(S), NEW p \in NextPayloads(st), NEW b
  PROVE  Follows(S, st, ApplyEvent(b, st, st.appliedSeq + 1, p))
<1> DEFINE to == ApplyEvent(b, st, st.appliedSeq + 1, p)
<1>1. PICK c, d, l, n, q, h, no :
        /\ c = st.current /\ d = st.completed /\ l = st.leaderboard /\ n = st.nextGameId
        /\ q = st.appliedSeq /\ h = st.chain /\ no = st.panicked
  OBVIOUS
<1>2. /\ st = Made(c, d, l, n, q, h, no)
      /\ c \in InFlight \cup {Nil} /\ d \in Seq(Over) /\ l \in Board /\ n \in Nat
      /\ q \in Nat \cup {-1} /\ h \in Seq(S) /\ no \in {FALSE}
  BY <1>1, StoreIsMade DEF Store
<1>3. PICK seq \in Nat : seq = q + 1
  BY <1>2
<1>4. ASSUME NEW x \in InFlight \cup {Nil}, NEW y \in Seq(Over), NEW z \in Board, NEW m \in Nat, NEW e,
             to = Made(x, y, z, m, seq, Append(h, e), no),
             y = d \/ \E game \in Over : y = Append(d, game)
      PROVE  Follows(S, st, to)
  <2>1. Append(h, e) \in Seq(S \cup {e})
    <3>1. h \in Seq(S \cup {e})
      BY <1>2, SeqMonotonic
    <3> QED
      BY <3>1, AppendProperties
  <2>2. Made(x, y, z, m, seq, Append(h, e), no) \in Store(S \cup {e})
    BY <1>2, <1>3, <2>1, MadeIsStore
  <2>3. to.chain = Append(h, e) /\ to.completed = y
    <3> DEFINE w == Append(h, e)
    <3> HIDE DEF w
    <3>1. Made(x, y, z, m, seq, w, no).chain = w /\ Made(x, y, z, m, seq, w, no).completed = y
      BY DEF Made
    <3> QED
      BY <1>4, <3>1, Zenon DEF w
  <2> HIDE DEF to
  <2> QED
    BY <1>1, <1>4, <2>2, <2>3 DEF Follows
<1> HIDE DEF to
<1>5. ASSUME NEW a \in Players, NEW o \in Players, a # o, to = Admitted(st, a, o)
      PROVE  Follows(S, st, to)
  <2>0. PICK next \in Nat : next = n + 1
    BY <1>2
  <2>1. PICK game, e :
          game = Game(n, seq, a, o) /\ e = Summary(game, Len(d), l, next, seq)
    OBVIOUS
  <2>2. game \in InFlight
    BY <1>2, <1>3, <1>5, <2>1 DEF Game, InFlight
  <2>3. to = Made(game, d, l, next, seq, Append(h, e), no)
    <3>1. Admitted(Made(c, d, l, n, q, h, no), a, o)
            = Made(game, d, l, next, seq, Append(h, Summary(game, Len(d), l, next, seq)), no)
      BY <1>3, <2>0, <2>1, AdmittedIs
    <3> QED
      BY <1>2, <1>5, <2>1, <3>1, Zenon
  <2> QED
    BY <1>2, <1>4, <2>0, <2>2, <2>3
<1>6. ASSUME NEW x \in Decision, st.current \in InFlight, to = Opened(st, x)
      PROVE  Follows(S, st, to)
  <2>1. PICK game, e :
          /\ game = [c EXCEPT !.decA = x]
          /\ e = Summary(game, Len(d), l, n, seq)
    OBVIOUS
  <2>2. game \in InFlight
    BY <1>1, <1>6, <2>1 DEF InFlight
  <2>3. to = Made(game, d, l, n, seq, Append(h, e), no)
    <3>1. Opened(Made(c, d, l, n, q, h, no), x)
            = Made(game, d, l, n, seq, Append(h, Summary(game, Len(d), l, n, seq)), no)
      BY <1>3, <2>1, OpenedIs
    <3> QED
      BY <1>2, <1>6, <2>1, <3>1, Zenon
  <2> QED
    BY <1>2, <1>4, <2>2, <2>3
<1>7. ASSUME NEW x \in Decision, st.current \in InFlight, st.current.decA \in Decision,
             to = Closed(b, st, x)
      PROVE  Follows(S, st, to)
  <2>1. PICK paid, board, games, e :
          /\ paid = Paid(b, Second(c, x))
          /\ board = CreditGame(l, paid) /\ games = Append(d, paid)
          /\ e = Summary(Nil, Len(games), board, n, seq)
    OBVIOUS
  <2>2. paid \in Over /\ paid.a # paid.b
    BY <1>1, <1>7, <2>1, PaidIs DEF InFlight, Second
  <2>3. board \in Board
    BY <1>2, <2>1, <2>2, BoardTells
  <2>4. games \in Seq(Over)
    BY <1>2, <2>1, <2>2, AppendProperties
  <2>5. to = Made(Nil, games, board, n, seq, Append(h, e), no)
    <3>1. Closed(b, Made(c, d, l, n, q, h, no), x)
            = Made(Nil, games, board, n, seq,
                   Append(h, Summary(Nil, Len(games), board, n, seq)), no)
      BY <1>3, <2>1, ClosedIs
    <3> QED
      BY <1>2, <1>7, <2>1, <3>1, Zenon
  <2> QED
    BY <1>2, <1>4, <2>1, <2>2, <2>3, <2>4, <2>5
<1> QED
  BY <1>5, <1>6, <1>7, ThreeSteps DEF to

LEMMA LastDigest ==
  ASSUME NEW S, NEW h \in Seq(S), NEW e, NEW f, Append(h, e) = Append(h, f)
  PROVE  e = f
<1>1. h \in Seq(S \cup {e, f})
  BY SeqMonotonic
<1> QED
  BY <1>1, AppendInjective

LEMMA PayoffsTell ==
  ASSUME NEW d \in Decision, NEW x \in Decision, NEW y \in Decision
  PROVE  /\ Payoff(d, x)[1] \in Int
         /\ Payoff(d, x)[2] = Payoff(d, y)[2] => x = y
<1>1. \A z \in Decision : z = "cooperate" \/ z = "cheat"
  BY DEF Decision
<1>2. CASE d = "cooperate"
  <2>1. /\ Payoff(d, "cooperate") = <<2, 2>>
        /\ Payoff(d, "cheat") = <<-1, 3>>
    BY <1>2 DEF Payoff
  <2> QED
    BY <1>1, <2>1
<1>3. CASE d = "cheat"
  <2>1. /\ Payoff(d, "cooperate") = <<3, -1>>
        /\ Payoff(d, "cheat") = <<0, 0>>
    BY <1>3 DEF Payoff
  <2> QED
    BY <1>1, <2>1
<1> QED
  BY <1>1, <1>2, <1>3

\* From the same store, the digests agree just when the payloads do and the bug does not
\* pay: and then so do the stores.
LEMMA StepTells ==
  ASSUME NEW S, NEW st \in Store(S), NEW p \in NextPayloads(st), NEW r \in NextPayloads(st),
         NEW b, ~Tainted(b, st.completed)
  PROVE  LET one == ApplyEvent(NoBug, st, st.appliedSeq + 1, p)
             two == ApplyEvent(b, st, st.appliedSeq + 1, r)
         IN  /\ p = r /\ ~Tainted(b, two.completed) => one = two
             /\ one.chain = two.chain => p = r /\ ~Tainted(b, two.completed)
<1> DEFINE one == ApplyEvent(NoBug, st, st.appliedSeq + 1, p)
           two == ApplyEvent(b, st, st.appliedSeq + 1, r)
           Goal == /\ p = r /\ ~Tainted(b, two.completed) => one = two
                   /\ one.chain = two.chain => p = r /\ ~Tainted(b, two.completed)
<1>1. PICK c, d, l, n, q, h, no :
        /\ c = st.current /\ d = st.completed /\ l = st.leaderboard /\ n = st.nextGameId
        /\ q = st.appliedSeq /\ h = st.chain /\ no = st.panicked
  OBVIOUS
<1>2. /\ st = Made(c, d, l, n, q, h, no)
      /\ c \in InFlight \cup {Nil} /\ d \in Seq(Over) /\ l \in Board /\ n \in Nat
      /\ q \in Nat \cup {-1} /\ h \in Seq(S)
  BY <1>1, StoreIsMade
<1>3. PICK seq \in Nat : seq = q + 1
  BY <1>2
<1> HIDE DEF one, two
<1>5. ASSUME NEW a \in Players, NEW o \in Players, a # o, NEW i \in Players, NEW j \in Players, i # j,
             p = NewGame(st.nextGameId, a, o), r = NewGame(st.nextGameId, i, j),
             one = Admitted(st, a, o), two = Admitted(st, i, j)
      PROVE  Goal
  <2>0. PICK next \in Nat : next = n + 1
    BY <1>2
  <2>1. PICK g, k, e, f :
          /\ g = Game(n, seq, a, o) /\ k = Game(n, seq, i, j)
          /\ e = Summary(g, Len(d), l, next, seq) /\ f = Summary(k, Len(d), l, next, seq)
    OBVIOUS
  <2>2. g \in InFlight /\ k \in InFlight /\ g.a = a /\ g.b = o /\ k.a = i /\ k.b = j
    BY <1>2, <1>3, <1>5, <2>1 DEF Game, InFlight
  <2>3. one = Made(g, d, l, next, seq, Append(h, e), no)
    <3>1. Admitted(Made(c, d, l, n, q, h, no), a, o)
            = Made(g, d, l, next, seq, Append(h, Summary(g, Len(d), l, next, seq)), no)
      BY <1>3, <2>0, <2>1, AdmittedIs
    <3> QED
      BY <1>2, <1>5, <2>1, <3>1, Zenon
  <2>4. two = Made(k, d, l, next, seq, Append(h, f), no)
    <3>1. Admitted(Made(c, d, l, n, q, h, no), i, j)
            = Made(k, d, l, next, seq, Append(h, Summary(k, Len(d), l, next, seq)), no)
      BY <1>3, <2>0, <2>1, AdmittedIs
    <3> QED
      BY <1>2, <1>5, <2>1, <3>1, Zenon
  <2>5. one.chain = Append(h, e) /\ two.chain = Append(h, f) /\ two.completed = d
    <3> DEFINE s == Append(h, e)
               t == Append(h, f)
    <3>1. one = Made(g, d, l, next, seq, s, no) /\ two = Made(k, d, l, next, seq, t, no)
      BY <2>3, <2>4
    <3> HIDE DEF s, t
    <3>2. one.chain = s /\ two.chain = t /\ two.completed = d
      BY <3>1 DEF Made
    <3> QED
      BY <3>2 DEF s, t
  <2>6. ~Tainted(b, two.completed)
    BY <1>1, <2>5
  <2>7. ASSUME one.chain = two.chain PROVE p = r
    <3>1. e = f
      BY <1>2, <2>5, <2>7, LastDigest
    <3>2. Shown(g) = Shown(k)
      <4>1. Summary(g, Len(d), l, next, seq) = Summary(k, Len(d), l, next, seq)
        BY <2>1, <3>1
      <4> QED
        BY ONLY <4>1 DEF Summary
    <3>3. a = i /\ o = j
      BY <2>2, <3>2, DecisionsAreNotNil DEF Shown
    <3> QED
      BY <1>5, <3>3
  <2>8. ASSUME p = r PROVE one = two
    <3>1. a = i /\ o = j
      BY <1>5, <2>8 DEF NewGame
    <3> QED
      BY <1>5, <3>1
  <2> QED
    BY <2>6, <2>7, <2>8
<1>6. ASSUME NEW x \in Decision, NEW y \in Decision, st.current \in InFlight,
             p = GameDecision(st.current.a, x), r = GameDecision(st.current.a, y),
             one = Opened(st, x), two = Opened(st, y)
      PROVE  Goal
  <2>1. PICK g, k, e, f :
          /\ g = [c EXCEPT !.decA = x] /\ k = [c EXCEPT !.decA = y]
          /\ e = Summary(g, Len(d), l, n, seq) /\ f = Summary(k, Len(d), l, n, seq)
    OBVIOUS
  <2>2. g \in InFlight /\ k \in InFlight /\ g.decA = x /\ k.decA = y
    BY <1>1, <1>6, <2>1 DEF InFlight
  <2>3. one = Made(g, d, l, n, seq, Append(h, e), no)
    <3>1. Opened(Made(c, d, l, n, q, h, no), x)
            = Made(g, d, l, n, seq, Append(h, Summary(g, Len(d), l, n, seq)), no)
      BY <1>3, <2>1, OpenedIs
    <3> QED
      BY <1>2, <1>6, <2>1, <3>1, Zenon
  <2>4. two = Made(k, d, l, n, seq, Append(h, f), no)
    <3>1. Opened(Made(c, d, l, n, q, h, no), y)
            = Made(k, d, l, n, seq, Append(h, Summary(k, Len(d), l, n, seq)), no)
      BY <1>3, <2>1, OpenedIs
    <3> QED
      BY <1>2, <1>6, <2>1, <3>1, Zenon
  <2>5. one.chain = Append(h, e) /\ two.chain = Append(h, f) /\ two.completed = d
    <3> DEFINE s == Append(h, e)
               t == Append(h, f)
    <3>1. one = Made(g, d, l, n, seq, s, no) /\ two = Made(k, d, l, n, seq, t, no)
      BY <2>3, <2>4
    <3> HIDE DEF s, t
    <3>2. one.chain = s /\ two.chain = t /\ two.completed = d
      BY <3>1 DEF Made
    <3> QED
      BY <3>2 DEF s, t
  <2>6. ~Tainted(b, two.completed)
    BY <1>1, <2>5
  <2>7. ASSUME one.chain = two.chain PROVE p = r
    <3>1. e = f
      BY <1>2, <2>5, <2>7, LastDigest
    <3>2. Shown(g) = Shown(k)
      <4>1. Summary(g, Len(d), l, n, seq) = Summary(k, Len(d), l, n, seq)
        BY <2>1, <3>1
      <4> QED
        BY ONLY <4>1 DEF Summary
    <3>3. x = y
      BY <2>2, <3>2, DecisionsAreNotNil DEF Shown
    <3> QED
      BY <1>6, <3>3
  <2>8. ASSUME p = r PROVE one = two
    <3>1. x = y
      BY <1>6, <2>8 DEF GameDecision
    <3> QED
      BY <1>6, <3>1
  <2> QED
    BY <2>6, <2>7, <2>8
<1>7. ASSUME NEW x \in Decision, NEW y \in Decision,
             st.current \in InFlight, st.current.decA \in Decision,
             p = GameDecision(st.current.b, x), r = GameDecision(st.current.b, y),
             one = Closed(NoBug, st, x), two = Closed(b, st, y)
      PROVE  Goal
  <2>1. PICK g, k :
          /\ g = Paid(NoBug, Second(c, x)) /\ k = Paid(b, Second(c, y))
    OBVIOUS
  <2>2. PICK i, j, u, v, e, f :
          /\ i = CreditGame(l, g) /\ j = CreditGame(l, k)
          /\ u = Append(d, g) /\ v = Append(d, k)
          /\ e = Summary(Nil, Len(u), i, n, seq) /\ f = Summary(Nil, Len(v), j, n, seq)
    OBVIOUS
  <2>3. /\ g \in Over /\ k \in Over /\ g.a = c.a /\ g.b = c.b /\ k.a = c.a /\ k.b = c.b
        /\ k.id = c.id /\ c.a # c.b
        /\ g.payA = Payoff(c.decA, x)[1] + Corruption(NoBug, c)
        /\ g.payB = Payoff(c.decA, x)[2]
        /\ k.payA = Payoff(c.decA, y)[1] + Corruption(b, c)
        /\ k.payB = Payoff(c.decA, y)[2]
    BY <1>1, <1>7, <2>1, PaidIs DEF InFlight, Second
  <2>4. one = Made(Nil, u, i, n, seq, Append(h, e), no)
    <3>1. Closed(NoBug, Made(c, d, l, n, q, h, no), x)
            = Made(Nil, u, i, n, seq, Append(h, Summary(Nil, Len(u), i, n, seq)), no)
      BY <1>3, <2>1, <2>2, ClosedIs
    <3> QED
      BY <1>2, <1>7, <2>2, <3>1, Zenon
  <2>5. two = Made(Nil, v, j, n, seq, Append(h, f), no)
    <3>1. Closed(b, Made(c, d, l, n, q, h, no), y)
            = Made(Nil, v, j, n, seq, Append(h, Summary(Nil, Len(v), j, n, seq)), no)
      BY <1>3, <2>1, <2>2, ClosedIs
    <3> QED
      BY <1>2, <1>7, <2>2, <3>1, Zenon
  <2>6. one.chain = Append(h, e) /\ two.chain = Append(h, f) /\ two.completed = v
    <3> DEFINE s == Append(h, e)
               t == Append(h, f)
    <3>1. one = Made(Nil, u, i, n, seq, s, no) /\ two = Made(Nil, v, j, n, seq, t, no)
      BY <2>4, <2>5
    <3> HIDE DEF s, t
    <3>2. one.chain = s /\ two.chain = t /\ two.completed = v
      BY <3>1 DEF Made
    <3> QED
      BY <3>2 DEF s, t
  <2>7. Tainted(b, two.completed) <=> Corruption(b, c) # 0
    <3>1. Tainted(b, v) <=> b # NoBug /\ k.id >= b
      <4>1. d \in Seq(Over) /\ k \in Over /\ ~Tainted(b, d) /\ v = Append(d, k)
        BY <1>1, <1>2, <2>2, <2>3
      <4> QED
        BY ONLY <4>1, TaintGrows
    <3>2. Corruption(b, c) # 0 <=> b # NoBug /\ c.id >= b
      BY DEF Corruption
    <3> QED
      BY <2>3, <2>6, <3>1, <3>2
  <2>8. ASSUME one.chain = two.chain PROVE p = r /\ ~Tainted(b, two.completed)
    <3>1. e = f
      BY <1>2, <2>6, <2>8, LastDigest
    <3>2. i = j
      <4>1. Summary(Nil, Len(u), i, n, seq) = Summary(Nil, Len(v), j, n, seq)
        BY <2>2, <3>1
      <4> QED
        BY ONLY <4>1 DEF Summary
    <3>3. g.payA = k.payA /\ g.payB = k.payB
      <4>1. CreditGame(l, g) = CreditGame(l, k)
        BY <2>2, <3>2
      <4>2. g.a # g.b /\ k.a = g.a /\ k.b = g.b
        BY <2>3
      <4> QED
        BY <1>2, <2>3, <4>1, <4>2, BoardTells
    <3>4. x = y
      <4>1. c.decA \in Decision /\ Payoff(c.decA, x)[2] = Payoff(c.decA, y)[2]
        BY <1>1, <1>7, <2>3, <3>3
      <4> QED
        BY <4>1, PayoffsTell
    <3>5. Corruption(NoBug, c) = 0 /\ Corruption(b, c) \in Int
      BY DEF Corruption
    <3>6. Corruption(b, c) = 0
      <4>1. PICK w \in Int : w = Payoff(c.decA, x)[1]
        BY <1>1, <1>7, PayoffsTell
      <4>2. w + Corruption(b, c) = w + 0
        BY <2>3, <3>3, <3>4, <3>5, <4>1
      <4> QED
        BY <3>5, <4>1, <4>2
    <3> QED
      BY <1>7, <2>7, <3>4, <3>6
  <2>9. ASSUME p = r, ~Tainted(b, two.completed) PROVE one = two
    <3>1. x = y
      BY <1>7, <2>9 DEF GameDecision
    <3>2. Corruption(b, Second(c, x)) = 0 /\ Corruption(NoBug, Second(c, x)) = 0
      <4>1. Corruption(b, c) = 0
        BY <2>7, <2>9
      <4>2. Second(c, x).id = c.id
        BY <1>1, <1>7 DEF InFlight, Second
      <4> QED
        BY <4>1, <4>2 DEF Corruption
    <3>3. g = k
      BY <2>1, <3>1, <3>2, Zenon DEF Paid
    <3> QED
      BY <2>2, <2>4, <2>5, <3>3
  <2> QED
    BY <2>8, <2>9
<1>8. Goal
  <2> HIDE DEF Goal
  <2> QED
    BY <1>5, <1>6, <1>7, ThreeSteps, DecisionsAreNotNil DEF one, two
<1> QED
  BY <1>8 DEF one, two

-----------------------------------------------------------------------------
LEMMA Widened ==
  ASSUME NEW S, NEW R, S \subseteq R, NEW st \in Store(S)
  PROVE  st \in Store(R)
<1>1. st.chain \in Seq(R)
  BY StoreIsMade, SeqMonotonic
<1>2. st \in [current : InFlight \cup {Nil}, completed : Seq(Over), leaderboard : Board,
              nextGameId : Nat, appliedSeq : Nat \cup {-1}, chain : {st.chain}, panicked : {FALSE}]
  BY DEF Store
<1> QED
  BY <1>1, <1>2 DEF Store

LEMMA ShorterChains ==
  ASSUME NEW S, NEW h \in Seq(S), NEW k \in Seq(S), NEW e, NEW f, Append(h, e) = Append(k, f)
  PROVE  h = k
<1>1. h \in Seq(S \cup {e, f}) /\ k \in Seq(S \cup {e, f})
  BY SeqMonotonic
<1> QED
  BY <1>1, AppendInjective

LEMMA NothingFed == Init => IInv
<1> SUFFICES ASSUME Init PROVE IInv
  OBVIOUS
<1>1. EmptyStore \in Store({})
  <2>1. <<>> \in Board
    BY DEF Board
  <2> QED
    BY <2>1 DEF EmptyStore, Store
<1>2. Fed
  BY <1>1 DEF Init, Fed
<1>3. ~Corrupted
  <2>1. Len(suspect.completed) = 0
    BY DEF Init, EmptyStore
  <2> QED
    BY <2>1 DEF Corrupted
<1> QED
  BY <1>2, <1>3 DEF Init, IInv, Agree, Alike

\* One event more on both streams.
LEMMA EventKeeps ==
  ASSUME IInv, NEW p \in NextPayloads(sound), NEW r \in NextPayloads(suspect),
         sound' = ApplyEvent(NoBug, sound, sound.appliedSeq + 1, p),
         suspect' = ApplyEvent(bug, suspect, suspect.appliedSeq + 1, r),
         parted' = (parted \/ p # r), bug' = bug
  PROVE  IInv'
<1>1. PICK S, s, t, b, one, two :
        /\ s = sound /\ t = suspect /\ b = bug /\ one = sound' /\ two = suspect'
        /\ s \in Store(S) /\ t \in Store(S)
  BY DEF IInv, Fed
<1>2. /\ p \in NextPayloads(s) /\ one = ApplyEvent(NoBug, s, s.appliedSeq + 1, p)
      /\ r \in NextPayloads(t) /\ two = ApplyEvent(b, t, t.appliedSeq + 1, r)
  BY <1>1
<1>3. /\ (Corrupted <=> Tainted(b, t.completed))
      /\ (Corrupted' <=> Tainted(b, two.completed))
  BY <1>1 DEF Corrupted, Tainted
<1>4. PICK e : one \in Store(S \cup {e}) /\ one.chain = Append(s.chain, e)
  <2> DEFINE to == ApplyEvent(NoBug, s, s.appliedSeq + 1, p)
  <2>1. Follows(S, s, to)
    BY <1>1, <1>2, StepKeeps
  <2> HIDE DEF to
  <2> QED
    BY <1>2, <2>1 DEF to, Follows
<1>5. PICK f : /\ two \in Store(S \cup {f}) /\ two.chain = Append(t.chain, f)
               /\ \/ two.completed = t.completed
                  \/ \E game \in Over : two.completed = Append(t.completed, game)
  <2> DEFINE to == ApplyEvent(b, t, t.appliedSeq + 1, r)
  <2>1. Follows(S, t, to)
    BY <1>1, <1>2, StepKeeps
  <2> HIDE DEF to
  <2> QED
    BY <1>2, <2>1 DEF to, Follows
<1>6. Fed'
  <2>1. one \in Store(S \cup {e, f}) /\ two \in Store(S \cup {e, f})
    <3>1. S \cup {e} \subseteq S \cup {e, f} /\ S \cup {f} \subseteq S \cup {e, f}
      OBVIOUS
    <3> QED
      BY <1>4, <1>5, <3>1, Widened
  <2> QED
    BY <1>1, <2>1 DEF Fed
<1>7. CASE s.chain = t.chain
  <2>1. s = t /\ ~parted /\ ~Tainted(b, t.completed)
    BY <1>1, <1>3, <1>7 DEF IInv, Agree
  <2>2. /\ p = r /\ ~Tainted(b, two.completed) => one = two
        /\ one.chain = two.chain => p = r /\ ~Tainted(b, two.completed)
    BY <1>1, <1>2, <2>1, StepTells
  <2>3. parted' <=> p # r
    BY <2>1
  <2> QED
    BY <1>1, <1>3, <1>6, <2>2, <2>3 DEF IInv, Agree, Alike
<1>8. CASE s.chain # t.chain
  <2>1. parted \/ Tainted(b, t.completed)
    BY <1>1, <1>3, <1>8 DEF IInv, Alike
  <2>2. one.chain # two.chain
    <3>1. s.chain \in Seq(S) /\ t.chain \in Seq(S)
      BY <1>1, StoreIsMade
    <3>2. PICK h \in Seq(S), k \in Seq(S) : h = s.chain /\ k = t.chain
      BY <3>1
    <3>3. Append(h, e) # Append(k, f)
      BY <1>8, <3>2, ShorterChains
    <3> QED
      BY <1>4, <1>5, <3>2, <3>3
  <2>3. Tainted(b, t.completed) => Tainted(b, two.completed)
    BY <1>1, <1>5, TaintGrows, StoreIsMade
  <2> QED
    BY <1>1, <1>3, <1>6, <2>1, <2>2, <2>3 DEF IInv, Agree, Alike
<1> QED
  BY <1>7, <1>8

(* However the streams run, and for whatever bug: as long as the chains of  *)
(* the two stores agree the stores themselves are the same, and stores fed  *)
(* the same events and paid the same are the same.                          *)
THEOREM Chained == Spec => []IInv
<1>1. IInv /\ [Next]_vars => IInv'
  <2> SUFFICES ASSUME IInv, [Next]_vars PROVE IInv'
    OBVIOUS
  <2>1. CASE Apply
    BY <2>1, EventKeeps DEF Apply
  <2>2. CASE UNCHANGED vars
    BY <2>2 DEF vars, IInv, Fed, Agree, Alike, Corrupted
  <2> QED
    BY <2>1, <2>2 DEF Next
<1> QED
  BY NothingFed, <1>1, PTL DEF Spec

(* The chains agree exactly when the stores were fed the same stream and    *)
(* the bug has not yet paid a game (game_store.go rehash): for every number *)
(* of games, every pairing and every bug.                                   *)
THEOREM ChainsTellApart == Spec => []ChainTellsApart
<1>1. IInv => ChainTellsApart
  BY DEF IInv, Agree, Alike, ChainTellsApart
<1> QED
  BY Chained, <1>1, PTL

-----------------------------------------------------------------------------
\* Induction over the numbers, for sets of numbers.
LEMMA LeastNatural ==
  ASSUME NEW S, S \subseteq Nat, S # {}
  PROVE  \E n \in S : \A m \in S : n <= m
<1> DEFINE R == {p \in Nat \X Nat : p[1] < p[2]}
<1>1. IsWellFoundedOn(R, Nat)
  BY NatLessThanWellFounded DEF OpToRel
<1> HIDE DEF R
<1>2. PICK n \in S : \A m \in S : ~(<<m, n>> \in R)
  BY <1>1, WFMin
<1>3. \A m \in S : ~(m < n)
  BY <1>2 DEF R
<1> QED
  BY <1>3

LEMMA Induction ==
  ASSUME NEW S, 0 \in S, \A n \in Nat : n \in S => n + 1 \in S
  PROVE  \A n \in Nat : n \in S
<1> SUFFICES ASSUME Nat \ S # {} PROVE FALSE
  OBVIOUS
<1>1. PICK n \in Nat \ S : \A m \in Nat \ S : n <= m
  BY LeastNatural
<1>2. n # 0
  BY <1>1
<1>3. n - 1 \in Nat /\ n - 1 \in S
  BY <1>1, <1>2
<1> QED
  BY <1>1, <1>3


LEMMA MaxIsIt ==
  ASSUME NEW n \in Nat, NEW S, S \subseteq 1..n, S # {}
  PROVE  Max(S) \in S /\ \A m \in S : Max(S) >= m
<1>1. PICK d \in {n - k : k \in S} : \A e \in {n - k : k \in S} : d <= e
  <2> DEFINE D == {n - k : k \in S}
  <2>1. D \subseteq Nat
    <3>1. \A k \in S : n - k \in Nat
      OBVIOUS
    <3> QED
      BY <3>1
  <2>2. D # {}
    OBVIOUS
  <2> HIDE DEF D
  <2>3. \E d \in D : \A e \in D : d <= e
    BY <2>1, <2>2, LeastNatural
  <2> QED
    BY <2>3 DEF D
<1>2. PICK k \in S : d = n - k
  BY <1>1
<1>3. \A m \in S : d <= n - m
  BY <1>1
<1>4. \E x \in S : \A m \in S : x >= m
  BY <1>2, <1>3
<1> QED
  BY <1>4 DEF Max

\* A fold over the numbers up to n, as the community modules define it.
IsFold(f, n, base, F) ==
  \A s \in SUBSET (1..n) : f[s] = IF s = {} THEN base ELSE F[Max(s)][f[s \ {Max(s)}]]

LEMMA FoldExists ==
  ASSUME NEW n \in Nat, NEW B, NEW base \in B, NEW F \in [1..n -> [B -> B]]
  PROVE  \E f \in [SUBSET (1..n) -> B] : IsFold(f, n, base, F)
<1> DEFINE Is(f, m) ==
             \A s \in SUBSET (1..m) : f[s] = IF s = {} THEN base ELSE F[Max(s)][f[s \ {Max(s)}]]
           Folds(m) == m <= n => \E f \in [SUBSET (1..m) -> B] : Is(f, m)
           S == {m \in Nat : Folds(m)}
<1> HIDE DEF Is, Folds
<1>1. 0 \in S
  <2> DEFINE f == [s \in SUBSET (1..0) |-> base]
  <2>1. f \in [SUBSET (1..0) -> B] /\ Is(f, 0)
    <3>1. \A s \in SUBSET (1..0) : s = {}
      OBVIOUS
    <3> QED
      BY <3>1 DEF Is
  <2> HIDE DEF f
  <2>2. Folds(0)
    BY <2>1 DEF Folds
  <2> QED
    BY <2>2
<1>2. ASSUME NEW m \in Nat, m \in S PROVE m + 1 \in S
  <2> SUFFICES ASSUME m + 1 <= n PROVE \E f \in [SUBSET (1..(m + 1)) -> B] : Is(f, m + 1)
    <3>1. Folds(m + 1) => m + 1 \in S
      OBVIOUS
    <3> QED
      BY <3>1 DEF Folds
  <2>0. Folds(m) /\ m <= n
    BY <1>2
  <2>1. PICK f \in [SUBSET (1..m) -> B] : Is(f, m)
    BY <2>0, Zenon DEF Folds
  <2> DEFINE g == [s \in SUBSET (1..(m + 1)) |->
                    IF m + 1 \in s THEN F[m + 1][f[s \ {m + 1}]] ELSE f[s]]
  <2>2. ASSUME NEW s \in SUBSET (1..(m + 1)), m + 1 \notin s
        PROVE  s \in SUBSET (1..m)
    <3>1. \A k \in s : k \in 1..(m + 1) /\ k # m + 1
      BY <2>2
    <3>2. \A k \in s : k \in 1..m
      BY <3>1
    <3> QED
      BY <3>2
  <2>3. ASSUME NEW s \in SUBSET (1..(m + 1)), m + 1 \in s
        PROVE  s \ {m + 1} \in SUBSET (1..m) /\ Max(s) = m + 1
    <3>1. Max(s) \in s /\ Max(s) >= m + 1
      <4>1. m + 1 \in Nat /\ s \subseteq 1..(m + 1) /\ s # {}
        BY <2>3
      <4> QED
        BY <2>3, <4>1, MaxIsIt
    <3>2. Max(s) = m + 1
      <4>1. PICK k \in 1..(m + 1) : k = Max(s)
        BY <3>1
      <4> QED
        BY <3>1, <4>1
    <3>3. s \ {m + 1} \in SUBSET (1..(m + 1)) /\ m + 1 \notin s \ {m + 1}
      OBVIOUS
    <3> QED
      BY <2>2, <3>2, <3>3
  <2>4. g \in [SUBSET (1..(m + 1)) -> B]
    <3>1. ASSUME NEW s \in SUBSET (1..(m + 1)) PROVE g[s] \in B
      <4>1. CASE m + 1 \in s
        <5>1. f[s \ {m + 1}] \in B /\ m + 1 \in 1..n
          BY <2>1, <2>3, <4>1
        <5>2. F[m + 1] \in [B -> B]
          BY <5>1
        <5>3. F[m + 1][f[s \ {m + 1}]] \in B
          BY <5>1, <5>2
        <5> QED
          BY <4>1, <5>3
      <4>2. CASE m + 1 \notin s
        <5>1. f[s] \in B
          BY <2>1, <2>2, <4>2
        <5> QED
          BY <4>2, <5>1
      <4> QED
        BY <4>1, <4>2
    <3> QED
      BY <3>1
  <2>5. Is(g, m + 1)
    <3> SUFFICES ASSUME NEW s \in SUBSET (1..(m + 1))
                 PROVE  g[s] = IF s = {} THEN base ELSE F[Max(s)][g[s \ {Max(s)}]]
      BY DEF Is
    <3>1. CASE m + 1 \in s
      <4>1. g[s] = F[m + 1][f[s \ {m + 1}]]
        BY <3>1
      <4>2. s \ {m + 1} \in SUBSET (1..(m + 1)) /\ m + 1 \notin s \ {m + 1}
        OBVIOUS
      <4>3. g[s \ {m + 1}] = f[s \ {m + 1}]
        BY <4>2
      <4> QED
        BY <2>3, <3>1, <4>1, <4>3
    <3>2. CASE m + 1 \notin s
      <4>1. s \in SUBSET (1..m) /\ g[s] = f[s]
        BY <2>2, <3>2
      <4>2. s # {} => g[s \ {Max(s)}] = f[s \ {Max(s)}]
        BY <3>2
      <4>3. f[s] = IF s = {} THEN base ELSE F[Max(s)][f[s \ {Max(s)}]]
        BY <2>1, <4>1 DEF Is
      <4> QED
        BY <4>1, <4>2, <4>3
    <3> QED
      BY <3>1, <3>2
  <2> HIDE DEF g
  <2> QED
    BY <2>4, <2>5
<1>3. n \in S
  <2> HIDE DEF S
  <2> QED
    BY <1>1, <1>2, Induction
<1>4. Folds(n) /\ n <= n
  BY <1>3
<1>5. \E f \in [SUBSET (1..n) -> B] : Is(f, n)
  BY <1>4, Zenon DEF Folds
<1> QED
  BY <1>5, Zenon DEF Is, IsFold

-----------------------------------------------------------------------------
\* The board that adding up games one by one gives, and the one that leaves out those
\* admitted at seq or later: the folds that stand for the two loops.
Adding(d) ==
  CHOOSE f : f = [s \in SUBSET DOMAIN d |->
                    IF s = {} THEN <<>> ELSE CreditGame(f[s \ {Max(s)}], d[Max(s)])]
Scored(board, g, seq) == IF g.seq < seq THEN CreditGame(board, g) ELSE board
AddingBefore(d, seq) ==
  CHOOSE f : f = [s \in SUBSET DOMAIN d |->
                    IF s = {} THEN <<>> ELSE Scored(f[s \ {Max(s)}], d[Max(s)], seq)]

Total(d) == FoldLeft(CreditGame, <<>>, d)

LEMMA TotalIs ==
  ASSUME NEW d
  PROVE  Total(d) = Adding(d)[DOMAIN d]
BY DEF Total, Adding, FoldLeft, MapThenFoldSet

LEMMA LeaderBeforeIs ==
  ASSUME NEW st, NEW seq
  PROVE  LeaderBefore(st, seq) = LeaderOf(AddingBefore(st.completed, seq)[DOMAIN st.completed])
BY DEF LeaderBefore, AddingBefore, Scored, FoldLeft, MapThenFoldSet

LEMMA NothingIsBoard == <<>> \in Board
BY DEF Board

LEMMA BoardGrows ==
  ASSUME NEW board \in Board, NEW g \in Over, NEW seq
  PROVE  CreditGame(board, g) \in Board /\ Scored(board, g, seq) \in Board
<1>1. g.a \in Players /\ g.b \in Players /\ g.payA \in Int /\ g.payB \in Int
  BY DEF Over
<1>2. Credit(board, g.a, g.payA) \in Board
  BY <1>1, Credited
<1>3. Credit(Credit(board, g.a, g.payA), g.b, g.payB) \in Board
  BY <1>1, <1>2, Credited
<1> QED
  BY <1>3 DEF CreditGame, Scored

LEMMA Added ==
  ASSUME NEW d \in Seq(Over)
  PROVE  /\ Adding(d)[{}] = <<>>
         /\ \A k \in 1..Len(d) :
              LET v == Adding(d)[1..(k - 1)]
              IN  v \in Board /\ Adding(d)[1..k] = CreditGame(v, d[k])
<1> DEFINE n == Len(d)
           F == [k \in 1..n |-> [v \in Board |-> CreditGame(v, d[k])]]
           Is(f) == f = [s \in SUBSET DOMAIN d |->
                           IF s = {} THEN <<>>
                           ELSE CreditGame(f[s \ {Max(s)}], d[Max(s)])]
<1>1. n \in Nat /\ DOMAIN d = 1..n
  BY LenProperties
<1>2. <<>> \in Board
  BY NothingIsBoard
<1>3. ASSUME NEW k \in 1..n, NEW v \in Board PROVE CreditGame(v, d[k]) \in Board
  BY BoardGrows
<1>4. F \in [1..n -> [Board -> Board]]
  BY <1>3
<1> HIDE DEF n
<1>5. PICK f \in [SUBSET (1..n) -> Board] :
        \A s \in SUBSET (1..n) : f[s] = IF s = {} THEN <<>> ELSE F[Max(s)][f[s \ {Max(s)}]]
  <2>1. PICK none \in Board : none = <<>>
    BY <1>2
  <2> HIDE DEF F
  <2>2. \E f \in [SUBSET (1..n) -> Board] : IsFold(f, n, none, F)
    BY <1>1, <1>4, FoldExists
  <2> QED
    BY <2>1, <2>2, Zenon DEF IsFold
<1>6. \A s \in SUBSET (1..n) :
        f[s] = IF s = {} THEN <<>> ELSE CreditGame(f[s \ {Max(s)}], d[Max(s)])
  <2> SUFFICES ASSUME NEW s \in SUBSET (1..n), s # {}
               PROVE  f[s] = CreditGame(f[s \ {Max(s)}], d[Max(s)])
    BY <1>5
  <2>1. PICK k \in 1..n : k = Max(s)
    BY <1>1, MaxIsIt
  <2>2. PICK v \in Board : v = f[s \ {k}]
    OBVIOUS
  <2>3. F[k][v] = CreditGame(v, d[k])
    OBVIOUS
  <2> QED
    BY <1>5, <2>1, <2>2, <2>3
<1>7. Is(f)
  BY <1>1, <1>6
<1>8. Is(Adding(d))
  <2> HIDE DEF Is
  <2>1. \E g : Is(g)
    BY <1>7
  <2>2. Adding(d) = CHOOSE g : Is(g)
    BY DEF Adding, Is
  <2> QED
    BY <2>1, <2>2, Zenon
<1>9. PICK g : g = Adding(d) /\ Is(g)
  BY <1>8
<1>10. \A s \in SUBSET (1..n) :
        g[s] = IF s = {} THEN <<>> ELSE CreditGame(g[s \ {Max(s)}], d[Max(s)])
  BY <1>1, <1>9
<1>11. ASSUME NEW k \in 1..n
       PROVE  g[1..k] = CreditGame(g[1..(k - 1)], d[k])
  <2>1. 1..k \in SUBSET (1..n) /\ 1..k # {} /\ k \in Nat
    <3>1. k \in Nat /\ k \in 1..k /\ \A m \in 1..k : m \in 1..n
      BY <1>1
    <3> QED
      BY <3>1
  <2>2. Max(1..k) = k
    <3>1. Max(1..k) \in 1..k /\ \A m \in 1..k : Max(1..k) >= m
      BY <2>1, MaxIsIt
    <3>2. PICK m \in 1..k : m = Max(1..k)
      BY <3>1
    <3> QED
      BY <2>1, <3>1, <3>2
  <2>3. (1..k) \ {k} = 1..(k - 1)
    BY <2>1
  <2> QED
    BY <1>10, <2>1, <2>2, <2>3
<1>12. \A k \in Nat : k <= n => g[1..k] \in Board
  <2> DEFINE S == {k \in Nat : k <= n => g[1..k] \in Board}
  <2>1. 0 \in S
    <3>1. 1..0 = {} /\ {} \in SUBSET (1..n)
      OBVIOUS
    <3>2. g[{}] = <<>>
      BY <1>10, <3>1
    <3> QED
      BY <1>2, <3>1, <3>2
  <2>2. ASSUME NEW k \in Nat, k \in S PROVE k + 1 \in S
    <3> SUFFICES ASSUME k + 1 <= n PROVE g[1..(k + 1)] \in Board
      OBVIOUS
    <3>1. k + 1 \in 1..n /\ (k + 1) - 1 = k /\ g[1..k] \in Board
      BY <1>1, <2>2
    <3> QED
      BY <1>3, <1>11, <3>1
  <2> HIDE DEF S
  <2>3. \A k \in Nat : k \in S
    BY <2>1, <2>2, Induction
  <2> QED
    BY <2>3 DEF S
<1>13. ASSUME NEW k \in 1..n PROVE k - 1 \in Nat /\ k - 1 <= n
  BY <1>1
<1>14. g[{}] = <<>>
  BY <1>10
<1> QED
  BY <1>9, <1>11, <1>12, <1>13, <1>14 DEF n

LEMMA AddedBefore ==
  ASSUME NEW d \in Seq(Over), NEW seq
  PROVE  /\ AddingBefore(d, seq)[{}] = <<>>
         /\ \A k \in 1..Len(d) :
              LET v == AddingBefore(d, seq)[1..(k - 1)]
              IN  v \in Board /\ AddingBefore(d, seq)[1..k] = Scored(v, d[k], seq)
<1> DEFINE n == Len(d)
           F == [k \in 1..n |-> [v \in Board |-> Scored(v, d[k], seq)]]
           Is(f) == f = [s \in SUBSET DOMAIN d |->
                           IF s = {} THEN <<>>
                           ELSE Scored(f[s \ {Max(s)}], d[Max(s)], seq)]
<1>1. n \in Nat /\ DOMAIN d = 1..n
  BY LenProperties
<1>2. <<>> \in Board
  BY NothingIsBoard
<1>3. ASSUME NEW k \in 1..n, NEW v \in Board PROVE Scored(v, d[k], seq) \in Board
  BY BoardGrows
<1>4. F \in [1..n -> [Board -> Board]]
  BY <1>3
<1> HIDE DEF n
<1>5. PICK f \in [SUBSET (1..n) -> Board] :
        \A s \in SUBSET (1..n) : f[s] = IF s = {} THEN <<>> ELSE F[Max(s)][f[s \ {Max(s)}]]
  <2>1. PICK none \in Board : none = <<>>
    BY <1>2
  <2> HIDE DEF F
  <2>2. \E f \in [SUBSET (1..n) -> Board] : IsFold(f, n, none, F)
    BY <1>1, <1>4, FoldExists
  <2> QED
    BY <2>1, <2>2, Zenon DEF IsFold
<1>6. \A s \in SUBSET (1..n) :
        f[s] = IF s = {} THEN <<>> ELSE Scored(f[s \ {Max(s)}], d[Max(s)], seq)
  <2> SUFFICES ASSUME NEW s \in SUBSET (1..n), s # {}
               PROVE  f[s] = Scored(f[s \ {Max(s)}], d[Max(s)], seq)
    BY <1>5
  <2>1. PICK k \in 1..n : k = Max(s)
    BY <1>1, MaxIsIt
  <2>2. PICK v \in Board : v = f[s \ {k}]
    OBVIOUS
  <2>3. F[k][v] = Scored(v, d[k], seq)
    OBVIOUS
  <2> QED
    BY <1>5, <2>1, <2>2, <2>3
<1>7. Is(f)
  BY <1>1, <1>6
<1>8. Is(AddingBefore(d, seq))
  <2> HIDE DEF Is
  <2>1. \E g : Is(g)
    BY <1>7
  <2>2. AddingBefore(d, seq) = CHOOSE g : Is(g)
    BY DEF AddingBefore, Is
  <2> QED
    BY <2>1, <2>2, Zenon
<1>9. PICK g : g = AddingBefore(d, seq) /\ Is(g)
  BY <1>8
<1>10. \A s \in SUBSET (1..n) :
        g[s] = IF s = {} THEN <<>> ELSE Scored(g[s \ {Max(s)}], d[Max(s)], seq)
  BY <1>1, <1>9
<1>11. ASSUME NEW k \in 1..n
       PROVE  g[1..k] = Scored(g[1..(k - 1)], d[k], seq)
  <2>1. 1..k \in SUBSET (1..n) /\ 1..k # {} /\ k \in Nat
    <3>1. k \in Nat /\ k \in 1..k /\ \A m \in 1..k : m \in 1..n
      BY <1>1
    <3> QED
      BY <3>1
  <2>2. Max(1..k) = k
    <3>1. Max(1..k) \in 1..k /\ \A m \in 1..k : Max(1..k) >= m
      BY <2>1, MaxIsIt
    <3>2. PICK m \in 1..k : m = Max(1..k)
      BY <3>1
    <3> QED
      BY <2>1, <3>1, <3>2
  <2>3. (1..k) \ {k} = 1..(k - 1)
    BY <2>1
  <2> QED
    BY <1>10, <2>1, <2>2, <2>3
<1>12. \A k \in Nat : k <= n => g[1..k] \in Board
  <2> DEFINE S == {k \in Nat : k <= n => g[1..k] \in Board}
  <2>1. 0 \in S
    <3>1. 1..0 = {} /\ {} \in SUBSET (1..n)
      OBVIOUS
    <3>2. g[{}] = <<>>
      BY <1>10, <3>1
    <3> QED
      BY <1>2, <3>1, <3>2
  <2>2. ASSUME NEW k \in Nat, k \in S PROVE k + 1 \in S
    <3> SUFFICES ASSUME k + 1 <= n PROVE g[1..(k + 1)] \in Board
      OBVIOUS
    <3>1. k + 1 \in 1..n /\ (k + 1) - 1 = k /\ g[1..k] \in Board
      BY <1>1, <2>2
    <3> QED
      BY <1>3, <1>11, <3>1
  <2> HIDE DEF S
  <2>3. \A k \in Nat : k \in S
    BY <2>1, <2>2, Induction
  <2> QED
    BY <2>3 DEF S
<1>13. ASSUME NEW k \in 1..n PROVE k - 1 \in Nat /\ k - 1 <= n
  BY <1>1
<1>14. g[{}] = <<>>
  BY <1>10
<1> QED
  BY <1>9, <1>11, <1>12, <1>13, <1>14 DEF n

LEMMA TotalNothing == Total(<<>>) = <<>>
<1>1. PICK d \in Seq(Over) : d = <<>>
  BY EmptySeq
<1>2. DOMAIN d = {}
  BY <1>1
<1>3. Adding(d)[{}] = <<>>
  BY Added
<1> QED
  BY <1>1, <1>2, <1>3, TotalIs

LEMMA TotalStep ==
  ASSUME NEW d \in Seq(Over), NEW g \in Over
  PROVE  Total(Append(d, g)) = CreditGame(Total(d), g)
<1>0. PICK more \in Seq(Over) : more = Append(d, g)
  BY AppendProperties
<1>1. PICK n \in Nat :
        /\ n = Len(d) /\ Len(more) = n + 1 /\ more[n + 1] = g
        /\ \A k \in 1..n : more[k] = d[k]
        /\ DOMAIN d = 1..n /\ DOMAIN more = 1..(n + 1)
  <2>1. /\ Len(d) \in Nat /\ Len(more) = Len(d) + 1 /\ more[Len(d) + 1] = g
        /\ \A k \in 1..Len(d) : more[k] = d[k]
    BY <1>0, AppendProperties, LenProperties
  <2>2. DOMAIN d = 1..Len(d) /\ DOMAIN more = 1..Len(more)
    BY LenProperties
  <2> QED
    BY <2>1, <2>2
<1>2. /\ Adding(d)[{}] = <<>> /\ Adding(more)[{}] = <<>>
      /\ \A k \in 1..n : Adding(d)[1..k] = CreditGame(Adding(d)[1..(k - 1)], d[k])
      /\ \A k \in 1..(n + 1) : Adding(more)[1..k] = CreditGame(Adding(more)[1..(k - 1)], more[k])
  BY <1>1, Added
<1> DEFINE S == {k \in Nat : k <= n => Adding(more)[1..k] = Adding(d)[1..k]}
<1>3. 0 \in S
  <2>1. 1..0 = {}
    OBVIOUS
  <2> QED
    BY <1>2, <2>1
<1>4. ASSUME NEW k \in Nat, k \in S PROVE k + 1 \in S
  <2> SUFFICES ASSUME k + 1 <= n PROVE Adding(more)[1..(k + 1)] = Adding(d)[1..(k + 1)]
    OBVIOUS
  <2>1. k + 1 \in 1..n /\ k + 1 \in 1..(n + 1) /\ (k + 1) - 1 = k
        /\ Adding(more)[1..k] = Adding(d)[1..k]
    BY <1>1, <1>4
  <2> QED
    BY <1>1, <1>2, <2>1
<1> HIDE DEF S
<1>5. \A k \in Nat : k \in S
  BY <1>3, <1>4, Induction
<1>6. Adding(more)[1..n] = Adding(d)[1..n]
  BY <1>1, <1>5 DEF S
<1>7. Adding(more)[1..(n + 1)] = CreditGame(Adding(more)[1..n], g)
  <2>1. n + 1 \in 1..(n + 1) /\ (n + 1) - 1 = n
    BY <1>1
  <2> QED
    BY <1>1, <1>2, <2>1
<1> QED
  BY <1>0, <1>1, <1>6, <1>7, TotalIs

\* Leaving out what is not there changes nothing.
LEMMA TotalBefore ==
  ASSUME NEW d \in Seq(Over), NEW seq, \A k \in 1..Len(d) : d[k].seq < seq
  PROVE  AddingBefore(d, seq)[DOMAIN d] = Total(d)
<1>1. PICK n \in Nat : n = Len(d) /\ DOMAIN d = 1..n
  BY LenProperties
<1>2. /\ Adding(d)[{}] = <<>> /\ AddingBefore(d, seq)[{}] = <<>>
      /\ \A k \in 1..n : Adding(d)[1..k] = CreditGame(Adding(d)[1..(k - 1)], d[k])
      /\ \A k \in 1..n : AddingBefore(d, seq)[1..k] = Scored(AddingBefore(d, seq)[1..(k - 1)], d[k], seq)
  BY <1>1, Added, AddedBefore
<1> DEFINE S == {k \in Nat : k <= n => AddingBefore(d, seq)[1..k] = Adding(d)[1..k]}
<1>3. 0 \in S
  <2>1. 1..0 = {}
    OBVIOUS
  <2> QED
    BY <1>2, <2>1
<1>4. ASSUME NEW k \in Nat, k \in S PROVE k + 1 \in S
  <2> SUFFICES ASSUME k + 1 <= n PROVE AddingBefore(d, seq)[1..(k + 1)] = Adding(d)[1..(k + 1)]
    OBVIOUS
  <2>1. k + 1 \in 1..n /\ (k + 1) - 1 = k /\ AddingBefore(d, seq)[1..k] = Adding(d)[1..k]
    BY <1>1, <1>4
  <2> QED
    BY <1>1, <1>2, <2>1 DEF Scored
<1> HIDE DEF S
<1>5. \A k \in Nat : k \in S
  BY <1>3, <1>4, Induction
<1>6. AddingBefore(d, seq)[1..n] = Adding(d)[1..n]
  BY <1>1, <1>5 DEF S
<1> QED
  BY <1>1, <1>6, TotalIs

-----------------------------------------------------------------------------
\* What one store keeps, whatever it is fed: the games in flight and completed are in the
\* order of their admission, the board is their total, and three events make a game.
Moves(game) == IF game = Nil THEN 0 ELSE IF game.decA = Nil THEN 1 ELSE 2
Ordered(st) ==
  /\ \A j, k \in 1..Len(st.completed) : j < k => st.completed[j].seq < st.completed[k].seq
  /\ \A k \in 1..Len(st.completed) :
       /\ st.completed[k].seq <= st.appliedSeq
       /\ st.current # Nil => st.completed[k].seq < st.current.seq
  /\ st.current # Nil => st.current.seq <= st.appliedSeq
Totalled(st) ==
  /\ st.leaderboard = Total(st.completed)
  /\ \A k \in 1..Len(st.completed) :
       {st.completed[k].a, st.completed[k].b} \subseteq DOMAIN st.leaderboard
Paced(st) ==
  /\ st.appliedSeq + 1 = 3 * Len(st.completed) + Moves(st.current)
  /\ st.nextGameId = Len(st.completed) + (IF st.current = Nil THEN 0 ELSE 1)
Steady(st) == Ordered(st) /\ Totalled(st) /\ Paced(st)

\* The same, of a store written out.
SteadyFields(c, d, l, n, q) ==
  /\ \A j, k \in 1..Len(d) : j < k => d[j].seq < d[k].seq
  /\ \A k \in 1..Len(d) : d[k].seq <= q /\ (c # Nil => d[k].seq < c.seq)
  /\ c # Nil => c.seq <= q
  /\ l = Total(d)
  /\ \A k \in 1..Len(d) : {d[k].a, d[k].b} \subseteq DOMAIN l
  /\ q + 1 = 3 * Len(d) + Moves(c)
  /\ n = Len(d) + (IF c = Nil THEN 0 ELSE 1)

LEMMA SteadyIs ==
  ASSUME NEW c, NEW d, NEW l, NEW n, NEW q, NEW h, NEW p
  PROVE  Steady(Made(c, d, l, n, q, h, p)) <=> SteadyFields(c, d, l, n, q)
<1>1. PICK st : st = Made(c, d, l, n, q, h, p)
  OBVIOUS
<1>2. /\ st.current = c /\ st.completed = d /\ st.leaderboard = l
      /\ st.nextGameId = n /\ st.appliedSeq = q
  BY <1>1 DEF Made
<1>3. Steady(st) <=> SteadyFields(c, d, l, n, q)
  BY ONLY <1>2, Zenon DEF Steady, Ordered, Totalled, Paced, SteadyFields
<1> QED
  BY <1>1, <1>3

LEMMA NewGameIsSteady ==
  ASSUME NEW d \in Seq(Over), NEW l, NEW n \in Nat, NEW q \in Nat \cup {-1}, NEW a, NEW b,
         SteadyFields(Nil, d, l, n, q), Game(n, q + 1, a, b) # Nil
  PROVE  SteadyFields(Game(n, q + 1, a, b), d, l, n + 1, q + 1)
<1>0. PICK m \in Nat, seq \in Nat : m = Len(d) /\ seq = q + 1
  BY LenProperties
<1>1. PICK g : g = Game(n, q + 1, a, b) /\ m = Len(d) /\ seq = q + 1
  BY <1>0
<1>2. m \in Nat /\ g # Nil /\ g.seq = seq /\ g.decA = Nil
  BY <1>1, LenProperties DEF Game
<1>3. Moves(g) = 1 /\ Moves(Nil) = 0
  BY <1>2 DEF Moves
<1>4. \A k \in 1..m : d[k].seq \in Nat
  <2>1. \A k \in 1..m : d[k] \in Over
    BY <1>1
  <2> QED
    BY <2>1 DEF Over
<1>5. /\ \A j, k \in 1..m : j < k => d[j].seq < d[k].seq
      /\ \A k \in 1..m : d[k].seq <= q
      /\ l = Total(d)
      /\ \A k \in 1..m : {d[k].a, d[k].b} \subseteq DOMAIN l
      /\ q + 1 = 3 * m /\ n = m
  BY <1>1, <1>2, <1>3 DEF SteadyFields
<1>6. \A k \in 1..m : d[k].seq <= seq /\ d[k].seq < g.seq
  BY <1>1, <1>2, <1>4, <1>5
<1>7. seq + 1 = 3 * m + Moves(g) /\ n + 1 = m + 1 /\ g.seq <= seq
  BY <1>1, <1>2, <1>3, <1>5
<1>8. SteadyFields(g, d, l, n + 1, seq)
  BY <1>1, <1>2, <1>5, <1>6, <1>7 DEF SteadyFields
<1> QED
  BY <1>1, <1>8

LEMMA FirstMoveIsSteady ==
  ASSUME NEW d \in Seq(Over), NEW l, NEW n \in Nat, NEW q \in Nat \cup {-1}, NEW g \in InFlight,
         NEW x \in Decision, g.decA = Nil, SteadyFields(g, d, l, n, q)
  PROVE  SteadyFields([g EXCEPT !.decA = x], d, l, n, q + 1)
<1>0. PICK m \in Nat, seq \in Nat : m = Len(d) /\ seq = q + 1
  BY LenProperties
<1>1. PICK to : to = [g EXCEPT !.decA = x] /\ m = Len(d) /\ seq = q + 1
  BY <1>0
<1>2. to \in InFlight /\ to.seq = g.seq /\ to.decA = x /\ g.seq \in Nat
  BY <1>1 DEF InFlight
<1>3. m \in Nat /\ g # Nil /\ to # Nil /\ x # Nil
  BY <1>1, <1>2, LenProperties, DecisionsAreNotNil
<1>4. Moves(g) = 1 /\ Moves(to) = 2
  BY <1>2, <1>3 DEF Moves
<1>5. \A k \in 1..m : d[k].seq \in Nat
  <2>1. \A k \in 1..m : d[k] \in Over
    BY <1>1
  <2> QED
    BY <2>1 DEF Over
<1>6. /\ \A j, k \in 1..m : j < k => d[j].seq < d[k].seq
      /\ \A k \in 1..m : d[k].seq <= q /\ d[k].seq < g.seq
      /\ g.seq <= q
      /\ l = Total(d)
      /\ \A k \in 1..m : {d[k].a, d[k].b} \subseteq DOMAIN l
      /\ q + 1 = 3 * m + 1 /\ n = m + 1
  BY <1>1, <1>3, <1>4 DEF SteadyFields
<1>7. \A k \in 1..m : d[k].seq <= seq /\ d[k].seq < to.seq
  BY <1>1, <1>2, <1>5, <1>6
<1>8. seq + 1 = 3 * m + Moves(to) /\ to.seq <= seq
  BY <1>1, <1>2, <1>3, <1>4, <1>6
<1>9. SteadyFields(to, d, l, n, seq)
  BY <1>1, <1>3, <1>6, <1>7, <1>8 DEF SteadyFields
<1> QED
  BY <1>1, <1>9

LEMMA CreditedAppear ==
  ASSUME NEW board, NEW g
  PROVE  DOMAIN CreditGame(board, g) = DOMAIN board \cup {g.a, g.b}
BY DEF CreditGame, Credit

LEMMA SecondMoveIsSteady ==
  ASSUME NEW d \in Seq(Over), NEW l, NEW n \in Nat, NEW q \in Nat \cup {-1}, NEW g \in InFlight,
         NEW paid \in Over, paid.seq = g.seq, g.decA \in Decision, SteadyFields(g, d, l, n, q)
  PROVE  SteadyFields(Nil, Append(d, paid), CreditGame(l, paid), n, q + 1)
<1>0. PICK more \in Seq(Over), m \in Nat, seq \in Nat :
        more = Append(d, paid) /\ m = Len(d) /\ seq = q + 1
  <2>1. Append(d, paid) \in Seq(Over) /\ Len(d) \in Nat /\ q + 1 \in Nat
    BY AppendProperties, LenProperties
  <2> QED
    BY <2>1, Zenon
<1>1. PICK board :
        /\ more = Append(d, paid) /\ m = Len(d) /\ seq = q + 1 /\ board = CreditGame(l, paid)
        /\ Len(more) = m + 1 /\ more[m + 1] = paid
        /\ \A k \in 1..m : more[k] = d[k]
  <2>1. Len(more) = m + 1 /\ more[m + 1] = paid /\ \A k \in 1..m : more[k] = d[k]
    BY <1>0, AppendProperties
  <2> QED
    BY <1>0, <2>1
<1>2. g # Nil /\ g.decA # Nil /\ g.seq \in Nat
  BY DecisionsAreNotNil DEF InFlight
<1>3. Moves(g) = 2 /\ Moves(Nil) = 0
  BY <1>2 DEF Moves
<1>4. \A k \in 1..m : d[k].seq \in Nat
  <2>1. \A k \in 1..m : d[k] \in Over
    BY <1>1
  <2> QED
    BY <2>1 DEF Over
<1>5. /\ \A j, k \in 1..m : j < k => d[j].seq < d[k].seq
      /\ \A k \in 1..m : d[k].seq <= q /\ d[k].seq < g.seq
      /\ g.seq <= q
      /\ l = Total(d)
      /\ \A k \in 1..m : {d[k].a, d[k].b} \subseteq DOMAIN l
      /\ q + 1 = 3 * m + 2 /\ n = m + 1
  BY <1>1, <1>2, <1>3 DEF SteadyFields
<1>6. \A k \in 1..(m + 1) : k \in 1..m \/ k = m + 1
  BY <1>1
<1>7. \A j, k \in 1..(m + 1) : j < k => more[j].seq < more[k].seq
  BY <1>1, <1>4, <1>5, <1>6
<1>8. \A k \in 1..(m + 1) : more[k].seq <= seq
  BY <1>1, <1>2, <1>4, <1>5, <1>6
<1>9. board = Total(more)
  BY <1>1, <1>5, TotalStep
<1>10. \A k \in 1..(m + 1) : {more[k].a, more[k].b} \subseteq DOMAIN board
  <2>1. DOMAIN board = DOMAIN l \cup {paid.a, paid.b}
    BY <1>1, CreditedAppear
  <2> QED
    BY <1>1, <1>5, <1>6, <2>1
<1>11. seq + 1 = 3 * (m + 1) + Moves(Nil) /\ n = (m + 1) + 0
  BY <1>1, <1>3, <1>5
<1>12. SteadyFields(Nil, more, board, n, seq)
  BY <1>1, <1>7, <1>8, <1>9, <1>10, <1>11 DEF SteadyFields
<1> QED
  BY <1>1, <1>12

LEMMA PaidInOrder ==
  ASSUME NEW g \in InFlight, NEW x \in Decision, g.decA \in Decision, NEW b
  PROVE  Paid(b, Second(g, x)).seq = g.seq
<1>1. PICK game : game = Second(g, x)
  OBVIOUS
<1>2. game.seq = g.seq /\ "seq" \in DOMAIN game
  BY <1>1 DEF Second, InFlight
<1>3. ASSUME NEW h, NEW y, NEW z, "seq" \in DOMAIN h
      PROVE  [h EXCEPT !.payA = y, !.payB = z].seq = h.seq
  <2>1. PICK f : f = [h EXCEPT !.payA = y]
    OBVIOUS
  <2>2. f.seq = h.seq /\ "seq" \in DOMAIN f
    BY <1>3, <2>1
  <2>3. [f EXCEPT !.payB = z].seq = f.seq
    BY <2>2
  <2>4. [h EXCEPT !.payA = y, !.payB = z] = [f EXCEPT !.payB = z]
    BY <2>1, Zenon
  <2> QED
    BY <2>2, <2>3, <2>4, Zenon
<1>4. Paid(b, game).seq = game.seq
  BY <1>2, <1>3, Zenon DEF Paid
<1> QED
  BY <1>1, <1>2, <1>4

LEMMA StepIsSteady ==
  ASSUME NEW S, NEW st \in Store(S), Steady(st), NEW p \in NextPayloads(st), NEW b
  PROVE  /\ Steady(ApplyEvent(b, st, st.appliedSeq + 1, p))
         /\ ApplyEvent(b, st, st.appliedSeq + 1, p).appliedSeq = st.appliedSeq + 1
<1> DEFINE to == ApplyEvent(b, st, st.appliedSeq + 1, p)
<1>1. PICK c, d, l, n, q, h, no :
        /\ c = st.current /\ d = st.completed /\ l = st.leaderboard /\ n = st.nextGameId
        /\ q = st.appliedSeq /\ h = st.chain /\ no = st.panicked
  OBVIOUS
<1>2. /\ st = Made(c, d, l, n, q, h, no)
      /\ c \in InFlight \cup {Nil} /\ d \in Seq(Over) /\ l \in Board /\ n \in Nat
      /\ q \in Nat \cup {-1}
  BY <1>1, StoreIsMade DEF Store
<1>3. PICK seq \in Nat : seq = q + 1
  BY <1>2
<1>4. SteadyFields(c, d, l, n, q)
  BY <1>2, SteadyIs
<1>5. ASSUME NEW x, NEW y, NEW z, NEW m, NEW e,
             to = Made(x, y, z, m, seq, e, no), SteadyFields(x, y, z, m, seq)
      PROVE  Steady(to) /\ to.appliedSeq = st.appliedSeq + 1
  <2>1. Made(x, y, z, m, seq, e, no).appliedSeq = seq
    BY DEF Made
  <2> HIDE DEF to
  <2> QED
    BY <1>1, <1>3, <1>5, <2>1, SteadyIs
<1> HIDE DEF to
<1>6. ASSUME NEW a \in Players, NEW o \in Players, a # o, c = Nil, to = Admitted(st, a, o)
      PROVE  Steady(to) /\ to.appliedSeq = st.appliedSeq + 1
  <2>1. PICK game, next, e :
          /\ game = Game(n, seq, a, o) /\ next = n + 1
          /\ e = Append(h, Summary(game, Len(d), l, next, seq))
    OBVIOUS
  <2>2. game \in InFlight
    BY <1>2, <1>3, <1>6, <2>1 DEF Game, InFlight
  <2>3. to = Made(game, d, l, next, seq, e, no)
    <3>1. Admitted(Made(c, d, l, n, q, h, no), a, o)
            = Made(game, d, l, next, seq, Append(h, Summary(game, Len(d), l, next, seq)), no)
      BY <1>3, <2>1, AdmittedIs
    <3> QED
      BY <1>2, <1>6, <2>1, <3>1, Zenon
  <2>4. SteadyFields(game, d, l, next, seq)
    <3>1. Game(n, q + 1, a, o) # Nil
      BY <1>3, <2>1, <2>2, DecisionsAreNotNil
    <3>2. SteadyFields(Nil, d, l, n, q)
      BY <1>4, <1>6
    <3>3. SteadyFields(Game(n, q + 1, a, o), d, l, n + 1, q + 1)
      BY <1>2, <3>1, <3>2, NewGameIsSteady
    <3> QED
      BY <1>3, <2>1, <3>3
  <2> QED
    BY <1>5, <2>3, <2>4
<1>7. ASSUME NEW x \in Decision, c \in InFlight, c.decA = Nil, to = Opened(st, x)
      PROVE  Steady(to) /\ to.appliedSeq = st.appliedSeq + 1
  <2>1. PICK game, e :
          /\ game = [c EXCEPT !.decA = x]
          /\ e = Append(h, Summary(game, Len(d), l, n, seq))
    OBVIOUS
  <2>2. to = Made(game, d, l, n, seq, e, no)
    <3>1. Opened(Made(c, d, l, n, q, h, no), x)
            = Made(game, d, l, n, seq, Append(h, Summary(game, Len(d), l, n, seq)), no)
      BY <1>3, <2>1, OpenedIs
    <3> QED
      BY <1>2, <1>7, <2>1, <3>1, Zenon
  <2>3. SteadyFields(game, d, l, n, seq)
    <3>1. SteadyFields([c EXCEPT !.decA = x], d, l, n, q + 1)
      BY <1>2, <1>4, <1>7, FirstMoveIsSteady
    <3> QED
      BY <1>3, <2>1, <3>1
  <2> QED
    BY <1>5, <2>2, <2>3
<1>8. ASSUME NEW x \in Decision, c \in InFlight, c.decA \in Decision, to = Closed(b, st, x)
      PROVE  Steady(to) /\ to.appliedSeq = st.appliedSeq + 1
  <2>1. PICK paid, board, games, e :
          /\ paid = Paid(b, Second(c, x))
          /\ board = CreditGame(l, paid) /\ games = Append(d, paid)
          /\ e = Append(h, Summary(Nil, Len(games), board, n, seq))
    OBVIOUS
  <2>2. paid \in Over /\ paid.seq = c.seq
    BY <1>8, <2>1, PaidIs, PaidInOrder DEF Second
  <2>3. to = Made(Nil, games, board, n, seq, e, no)
    <3>1. Closed(b, Made(c, d, l, n, q, h, no), x)
            = Made(Nil, games, board, n, seq,
                   Append(h, Summary(Nil, Len(games), board, n, seq)), no)
      BY <1>3, <2>1, ClosedIs
    <3> QED
      BY <1>2, <1>8, <2>1, <3>1, Zenon
  <2>4. SteadyFields(Nil, games, board, n, seq)
    <3>1. SteadyFields(Nil, Append(d, paid), CreditGame(l, paid), n, q + 1)
      BY <1>2, <1>4, <1>8, <2>2, SecondMoveIsSteady
    <3> QED
      BY <1>3, <2>1, <3>1
  <2> QED
    BY <1>5, <2>3, <2>4
<1>9. \/ c = Nil /\ \E a, o \in Players : a # o /\ to = Admitted(st, a, o)
      \/ c \in InFlight /\ c.decA = Nil /\ \E x \in Decision : to = Opened(st, x)
      \/ c \in InFlight /\ c.decA \in Decision /\ \E x \in Decision : to = Closed(b, st, x)
  BY <1>1, ThreeSteps, Zenon DEF to
<1>10. Steady(to) /\ to.appliedSeq = st.appliedSeq + 1
  BY <1>6, <1>7, <1>8, <1>9
<1> QED
  BY <1>10 DEF to

LEMMA NothingIsSteady == Steady(EmptyStore)
<1>1. EmptyStore = Made(Nil, <<>>, <<>>, 0, -1, <<>>, FALSE)
  BY DEF EmptyStore, Made
<1>2. Len(<<>>) = 0 /\ Moves(Nil) = 0 /\ Total(<<>>) = <<>>
  BY TotalNothing DEF Moves
<1>3. SteadyFields(Nil, <<>>, <<>>, 0, -1)
  BY <1>2 DEF SteadyFields
<1> QED
  BY <1>1, <1>3, SteadyIs

-----------------------------------------------------------------------------
\* The games that a strategy has played.
Played(d, s) == {k \in 1..Len(d) : Involves(d[k], s)}

LEMMA MovesOfOver ==
  ASSUME NEW g \in Over, NEW s
  PROVE  /\ g # Nil
         /\ Involves(g, s) => DecisionOf(g, s) \in Decision /\ DecisionOf(g, s) # Nil
         /\ ~Involves(g, s) => DecisionOf(g, s) = Nil
<1>1. Over \subseteq [id : Nat, seq : Nat,
                a : Strategy, decA : Decision \cup {Nil}, payA : Int,
                b : Strategy, decB : Decision \cup {Nil}, payB : Int]
  BY FeedAssumption DEF Over
<1>2. g # Nil /\ Nil \notin Decision
  BY <1>1, NilAssumption
<1> QED
  BY <1>2 DEF Over, DecisionOf, Involves

LEMMA NewestIs ==
  ASSUME NEW st, st.completed \in Seq(Over), NEW s
  PROVE  LastCompletedGameFor(st, s)
           = IF Played(st.completed, s) = {} THEN Nil
             ELSE st.completed[Max(Played(st.completed, s))]
<1>1. PICK d \in Seq(Over) : d = st.completed /\ Len(d) \in Nat
  BY LenProperties
<1>2. LastCompletedGameFor(st, s)
        = LET last == IF Played(d, s) # {} THEN Max(Played(d, s)) ELSE 0
          IN  IF last = 0 THEN Nil ELSE d[last]
  BY <1>1, Zenon DEF LastCompletedGameFor, LastWhere, SelectLastInSeq, Played
<1>3. ASSUME Played(d, s) # {} PROVE Max(Played(d, s)) # 0
  <2>1. Played(d, s) \subseteq 1..Len(d)
    BY DEF Played
  <2>2. Max(Played(d, s)) \in 1..Len(d)
    BY <1>1, <1>3, <2>1, MaxIsIt
  <2> QED
    BY <1>1, <2>2
<1> QED
  BY <1>1, <1>2, <1>3

LEMMA ScopedIs ==
  ASSUME NEW st, st.completed \in Seq(Over), Ordered(st), NEW s, NEW seq,
         \A k \in 1..Len(st.completed) : st.completed[k].seq < seq
  PROVE  LastDecisionBefore(st, s, seq)
           = IF Played(st.completed, s) = {} THEN Nil
             ELSE DecisionOf(st.completed[Max(Played(st.completed, s))], s)
<1>1. PICK d \in Seq(Over) : d = st.completed /\ Len(d) \in Nat
  BY LenProperties
<1> DEFINE Past(x) == {k \in 1..Len(x) : x[k].seq < seq /\ DecisionOf(x[k], s) # Nil}
           Latest(x) == CHOOSE k \in Past(x) : \A m \in Past(x) : x[m].seq <= x[k].seq
           Move(x) == IF Past(x) = {} THEN Nil ELSE DecisionOf(x[Latest(x)], s)
<1>2. LastDecisionBefore(st, s, seq) = Move(st.completed)
  BY Zenon DEF LastDecisionBefore
<1>3. ASSUME NEW k \in 1..Len(d)
      PROVE  d[k].seq < seq /\ d[k].seq \in Nat /\ (DecisionOf(d[k], s) # Nil <=> Involves(d[k], s))
  <2>1. d[k] \in Over
    BY <1>1
  <2>2. d[k].seq \in Nat
    BY <2>1 DEF Over
  <2> QED
    BY <1>1, <2>1, <2>2, MovesOfOver
<1>4. Past(d) = Played(d, s)
  BY <1>3 DEF Played
<1>5. \A j, k \in 1..Len(d) : j < k => d[j].seq < d[k].seq
  BY <1>1 DEF Ordered
<1>6. ASSUME Played(d, s) # {} PROVE Latest(d) = Max(Played(d, s))
  <2>0. Played(d, s) \subseteq 1..Len(d)
    BY DEF Played
  <2>1. PICK P : P = Played(d, s) /\ P \subseteq 1..Len(d) /\ P # {}
    BY <1>6, <2>0
  <2>2. PICK k \in P : k = Max(P) /\ \A m \in P : k >= m
    BY <1>1, <2>1, MaxIsIt
  <2>3. \A m \in P : m = k \/ m < k
    BY <1>1, <2>1, <2>2
  <2>4. \A m \in P : d[m].seq \in Nat /\ d[m].seq <= d[k].seq /\ (m # k => d[m].seq < d[k].seq)
    BY <1>3, <1>5, <2>1, <2>3
  <2>5. \A m \in P : (\A o \in P : d[o].seq <= d[m].seq) => m = k
    BY <2>4
  <2>6. (CHOOSE m \in P : \A o \in P : d[o].seq <= d[m].seq) = k
    BY <2>4, <2>5
  <2> QED
    BY <1>4, <2>1, <2>2, <2>6
<1> HIDE DEF Latest, Past
<1>7. LastDecisionBefore(st, s, seq)
        = IF Past(d) = {} THEN Nil ELSE DecisionOf(d[Latest(d)], s)
  BY <1>1, <1>2
<1> QED
  BY <1>1, <1>4, <1>6, <1>7

(* With one game in flight the scoped reads answer what the newest reads do. *)
LEMMA ScopedIsNewest ==
  ASSUME NEW S, NEW st \in Store(S), Steady(st), st.current # Nil
  PROVE  /\ CopyLeaderWatermarked(st, st.current) # Unknown
         /\ CopyLeaderWatermarked(st, st.current) = CopyLeaderNewest(st)
<1>1. PICK d \in Seq(Over), g \in InFlight :
        /\ d = st.completed /\ g = st.current /\ st.completed \in Seq(Over)
  BY StoreIsMade
<1>2. PICK seq \in Nat : seq = g.seq
  BY DEF InFlight
<1>3. /\ Ordered(st) /\ st.leaderboard = Total(d)
      /\ \A k \in 1..Len(d) : d[k].seq < seq
  BY <1>1, <1>2 DEF Steady, Ordered, Totalled
<1>4. ResolvedBefore(st, seq)
  BY <1>1, <1>2 DEF ResolvedBefore
<1>5. PICK leader : leader = LeaderOf(Total(d))
  OBVIOUS
<1>6. LeaderBefore(st, seq) = leader
  BY <1>1, <1>3, <1>5, LeaderBeforeIs, TotalBefore
<1>7. LeadingStrategy(st) = leader
  <2>1. CASE d = <<>>
    <3>1. Total(d) = <<>> /\ DOMAIN Total(d) = {}
      BY <2>1, TotalNothing
    <3>2. leader = NoStrategy
      BY <1>5, <3>1 DEF LeaderOf
    <3> QED
      BY <1>1, <2>1, <3>2 DEF LeadingStrategy
  <2>2. CASE d # <<>>
    BY <1>1, <1>3, <1>5, <2>2 DEF LeadingStrategy
  <2> QED
    BY <2>1, <2>2
<1>8. PICK move, newest :
        /\ move = LastDecisionBefore(st, leader, seq)
        /\ newest = LastCompletedGameFor(st, leader)
  OBVIOUS
<1>9. CopyLeaderWatermarked(st, g) = IF leader = NoStrategy THEN "cooperate" ELSE Copied(move)
  BY <1>2, <1>4, <1>6, <1>8, Zenon DEF CopyLeaderWatermarked
<1>10. CopyLeaderNewest(st) = IF leader = NoStrategy \/ newest = Nil THEN "cooperate"
                              ELSE DecisionOf(newest, leader)
  BY <1>7, <1>8, Zenon DEF CopyLeaderNewest
<1>11. /\ move = IF Played(d, leader) = {} THEN Nil
                 ELSE DecisionOf(d[Max(Played(d, leader))], leader)
       /\ newest = IF Played(d, leader) = {} THEN Nil ELSE d[Max(Played(d, leader))]
  BY <1>1, <1>3, <1>8, NewestIs, ScopedIs
<1>12. CASE Played(d, leader) = {}
  <2>1. move = Nil /\ newest = Nil
    BY <1>11, <1>12
  <2> QED
    BY <1>1, <1>9, <1>10, <2>1 DEF Copied, Unknown
<1>13. CASE Played(d, leader) # {}
  <2>1. PICK k \in 1..Len(d) : k = Max(Played(d, leader)) /\ Involves(d[k], leader)
    <3>1. Played(d, leader) \subseteq 1..Len(d) /\ Len(d) \in Nat
      BY LenProperties DEF Played
    <3>2. Max(Played(d, leader)) \in Played(d, leader)
      BY <1>13, <3>1, MaxIsIt
    <3> QED
      BY <3>2 DEF Played
  <2>2. PICK over \in Over : over = d[k]
    BY <2>1
  <2>3. /\ over # Nil /\ DecisionOf(over, leader) \in Decision /\ DecisionOf(over, leader) # Nil
    BY <2>1, <2>2, MovesOfOver
  <2>4. move = DecisionOf(over, leader) /\ newest = over
    BY <1>11, <1>13, <2>1, <2>2
  <2> QED
    BY <1>1, <1>9, <1>10, <2>3, <2>4 DEF Copied, Unknown, Decision
<1> QED
  BY <1>12, <1>13

-----------------------------------------------------------------------------
\* How far a store is, from the number of events it has applied.
LEMMA PaceIs ==
  ASSUME NEW S, NEW st \in Store(S), Steady(st)
  PROVE  \E m \in Nat, v \in {0, 1, 2} :
           /\ st.appliedSeq + 1 = 3 * m + v /\ m = Len(st.completed)
           /\ st.nextGameId = m + (IF v = 0 THEN 0 ELSE 1)
           /\ st.current = Nil <=> v = 0
<1>1. PICK m \in Nat : m = Len(st.completed)
  BY StoreIsMade, LenProperties
<1>2. PICK v \in {0, 1, 2} : v = Moves(st.current) /\ (st.current = Nil <=> v = 0)
  BY DEF Moves
<1> QED
  BY <1>1, <1>2 DEF Steady, Paced

LEMMA SamePace ==
  ASSUME NEW S, NEW st \in Store(S), NEW R, NEW other \in Store(R), Steady(st), Steady(other),
         st.appliedSeq = other.appliedSeq
  PROVE  st.nextGameId = other.nextGameId
<1>1. PICK m \in Nat, v \in {0, 1, 2} :
        st.appliedSeq + 1 = 3 * m + v /\ st.nextGameId = m + (IF v = 0 THEN 0 ELSE 1)
  BY PaceIs, Zenon
<1>2. PICK n \in Nat, w \in {0, 1, 2} :
        other.appliedSeq + 1 = 3 * n + w /\ other.nextGameId = n + (IF w = 0 THEN 0 ELSE 1)
  BY PaceIs, Zenon
<1>3. 3 * m + v = 3 * n + w
  BY <1>1, <1>2
<1>4. m = n /\ v = w
  BY <1>3
<1> QED
  BY <1>1, <1>2, <1>4

LEMMA NextPace ==
  ASSUME NEW S, NEW st \in Store(S), NEW R, NEW to \in Store(R), Steady(st), Steady(to),
         to.appliedSeq = st.appliedSeq + 1, More(st), st.nextGameId <= Games
  PROVE  to.nextGameId <= Games
<1>1. PICK m \in Nat, v \in {0, 1, 2} :
        /\ st.appliedSeq + 1 = 3 * m + v /\ st.nextGameId = m + (IF v = 0 THEN 0 ELSE 1)
        /\ st.current = Nil <=> v = 0
  BY PaceIs, Zenon
<1>2. PICK n \in Nat, w \in {0, 1, 2} :
        to.appliedSeq + 1 = 3 * n + w /\ to.nextGameId = n + (IF w = 0 THEN 0 ELSE 1)
  BY PaceIs, Zenon
<1>3. PICK q \in Nat \cup {-1} : q = st.appliedSeq
  BY StoreIsMade
<1>4. 3 * n + w = (3 * m + v) + 1
  BY <1>1, <1>2, <1>3
<1>5. CASE v = 0
  <2>1. m < Games
    BY <1>1, <1>5 DEF More
  <2>2. n = m /\ w = 1
    BY <1>4, <1>5
  <2> QED
    BY <1>2, <2>1, <2>2, FeedAssumption
<1>6. CASE v = 1
  BY <1>1, <1>2, <1>4, <1>6
<1>7. CASE v = 2
  BY <1>1, <1>2, <1>4, <1>7
<1> QED
  BY <1>5, <1>6, <1>7

LEMMA PaceIsBounded ==
  ASSUME NEW S, NEW st \in Store(S), Steady(st), st.nextGameId <= Games
  PROVE  /\ st.appliedSeq \in -1..(3 * Games) /\ st.nextGameId \in 0..Games
         /\ DOMAIN st.leaderboard \subseteq Players
<1>1. PICK m \in Nat, v \in {0, 1, 2} :
        st.appliedSeq + 1 = 3 * m + v /\ st.nextGameId = m + (IF v = 0 THEN 0 ELSE 1)
  BY PaceIs, Zenon
<1>2. PICK q \in Nat \cup {-1} : q = st.appliedSeq
  BY StoreIsMade
<1>3. st.leaderboard \in Board
  BY StoreIsMade
<1>4. DOMAIN st.leaderboard \subseteq Players
  BY <1>3 DEF Board
<1>5. 3 * m + v <= 3 * Games
  BY <1>1, FeedAssumption
<1> QED
  BY <1>1, <1>2, <1>4, <1>5, FeedAssumption

\* The games of a store that is fed legally are numbered from 0.
Numbered(st) ==
  /\ \A k \in 1..Len(st.completed) : st.completed[k].id = k - 1
  /\ st.current # Nil => st.current.id = Len(st.completed)

LEMMA StepIsNumbered ==
  ASSUME NEW S, NEW st \in Store(S), Steady(st), Numbered(st), NEW p \in NextPayloads(st), NEW b
  PROVE  Numbered(ApplyEvent(b, st, st.appliedSeq + 1, p))
<1> DEFINE to == ApplyEvent(b, st, st.appliedSeq + 1, p)
<1>1. PICK c, d, l, n, q, h, no :
        /\ c = st.current /\ d = st.completed /\ l = st.leaderboard /\ n = st.nextGameId
        /\ q = st.appliedSeq /\ h = st.chain /\ no = st.panicked
  OBVIOUS
<1>2. /\ st = Made(c, d, l, n, q, h, no)
      /\ c \in InFlight \cup {Nil} /\ d \in Seq(Over)
  BY <1>1, StoreIsMade DEF Store
<1>3. PICK seq : seq = q + 1
  OBVIOUS
<1>4. (c = Nil => n = Len(d)) /\ (c # Nil => c.id = Len(d)) /\ \A k \in 1..Len(d) : d[k].id = k - 1
  <2>1. PICK m \in Nat, v \in {0, 1, 2} :
          m = Len(d) /\ n = m + (IF v = 0 THEN 0 ELSE 1) /\ (c = Nil <=> v = 0)
    BY <1>1, PaceIs
  <2>2. c = Nil => n = Len(d)
    BY <2>1
  <2> QED
    BY <1>1, <2>2 DEF Numbered
<1>5. Nil \notin InFlight /\ Nil \notin Decision
  BY DecisionsAreNotNil
<1> HIDE DEF to
<1>6. ASSUME NEW a \in Players, NEW o \in Players, a # o, c = Nil, to = Admitted(st, a, o)
      PROVE  Numbered(to)
  <2>1. PICK game, next, e :
          /\ game = Game(n, seq, a, o) /\ next = n + 1
          /\ e = Append(h, Summary(game, Len(d), l, next, seq))
    OBVIOUS
  <2>2. game.id = n
    BY <2>1 DEF Game
  <2>3. to = Made(game, d, l, next, seq, e, no)
    <3>1. Admitted(Made(c, d, l, n, q, h, no), a, o)
            = Made(game, d, l, next, seq, Append(h, Summary(game, Len(d), l, next, seq)), no)
      BY <1>3, <2>1, AdmittedIs
    <3> QED
      BY <1>2, <1>6, <2>1, <3>1, Zenon
  <2>4. to.current = game /\ to.completed = d
    BY <2>3 DEF Made
  <2> QED
    BY <1>4, <1>6, <2>2, <2>4 DEF Numbered
<1>7. ASSUME NEW x \in Decision, c \in InFlight, to = Opened(st, x)
      PROVE  Numbered(to)
  <2>1. PICK game, e :
          /\ game = [c EXCEPT !.decA = x]
          /\ e = Append(h, Summary(game, Len(d), l, n, seq))
    OBVIOUS
  <2>2. game.id = c.id
    BY <1>7, <2>1 DEF InFlight
  <2>3. to = Made(game, d, l, n, seq, e, no)
    <3>1. Opened(Made(c, d, l, n, q, h, no), x)
            = Made(game, d, l, n, seq, Append(h, Summary(game, Len(d), l, n, seq)), no)
      BY <1>3, <2>1, OpenedIs
    <3> QED
      BY <1>2, <1>7, <2>1, <3>1, Zenon
  <2>4. to.current = game /\ to.completed = d
    BY <2>3 DEF Made
  <2> QED
    BY <1>4, <1>5, <1>7, <2>2, <2>4 DEF Numbered
<1>8. ASSUME NEW x \in Decision, c \in InFlight, c.decA \in Decision, to = Closed(b, st, x)
      PROVE  Numbered(to)
  <2>1. PICK paid, board, games, e :
          /\ paid = Paid(b, Second(c, x))
          /\ board = CreditGame(l, paid) /\ games = Append(d, paid)
          /\ e = Append(h, Summary(Nil, Len(games), board, n, seq))
    OBVIOUS
  <2>2. paid \in Over /\ paid.id = c.id
    BY <1>8, <2>1, PaidIs DEF Second
  <2>3. to = Made(Nil, games, board, n, seq, e, no)
    <3>1. Closed(b, Made(c, d, l, n, q, h, no), x)
            = Made(Nil, games, board, n, seq,
                   Append(h, Summary(Nil, Len(games), board, n, seq)), no)
      BY <1>3, <2>1, ClosedIs
    <3> QED
      BY <1>2, <1>8, <2>1, <3>1, Zenon
  <2>4. to.current = Nil /\ to.completed = games
    BY <2>3 DEF Made
  <2>5. /\ Len(games) = Len(d) + 1 /\ Len(d) \in Nat /\ games[Len(d) + 1] = paid
        /\ \A k \in 1..Len(d) : games[k] = d[k]
    BY <1>2, <2>1, <2>2, AppendProperties, LenProperties
  <2>6. c.id = Len(d)
    BY <1>4, <1>5, <1>8
  <2>7. ASSUME NEW k \in 1..Len(games) PROVE games[k].id = k - 1
    <3>1. CASE k \in 1..Len(d)
      BY <1>4, <2>5, <3>1
    <3>2. CASE k = Len(d) + 1
      BY <2>2, <2>5, <2>6, <3>2
    <3> QED
      BY <2>5, <3>1, <3>2
  <2> QED
    BY <2>4, <2>7 DEF Numbered
<1>9. \/ c = Nil /\ \E a, o \in Players : a # o /\ to = Admitted(st, a, o)
      \/ c \in InFlight /\ c.decA = Nil /\ \E x \in Decision : to = Opened(st, x)
      \/ c \in InFlight /\ c.decA \in Decision /\ \E x \in Decision : to = Closed(b, st, x)
  BY <1>1, ThreeSteps, Zenon DEF to
<1>10. Numbered(to)
  BY <1>6, <1>7, <1>8, <1>9
<1> QED
  BY <1>10 DEF to

\* So a store whose game `bug` has been paid for shows it.
LEMMA PaidShows ==
  ASSUME NEW S, NEW st \in Store(S), Numbered(st), NEW b \in Nat, ~Tainted(b, st.completed)
  PROVE  Len(st.completed) <= b
<1>1. PICK m \in Nat : m = Len(st.completed)
  BY StoreIsMade, LenProperties
<1>2. \A k \in 1..m : st.completed[k].id = k - 1 /\ ~(st.completed[k].id >= b)
  BY <1>1 DEF Numbered, Tainted, NoBug
<1>3. m > 0 => ~(m - 1 >= b)
  BY <1>2
<1> QED
  BY <1>1, <1>3

\* The invariant of the two stores, whether they still agree or not.
SteadyInv ==
  /\ Fed
  /\ bug \in Bugs /\ parted \in BOOLEAN
  /\ Steady(sound) /\ Steady(suspect)
  /\ sound.appliedSeq = suspect.appliedSeq
  /\ sound.nextGameId <= Games

LEMMA SteadyInit == Init => SteadyInv
<1> SUFFICES ASSUME Init PROVE SteadyInv
  OBVIOUS
<1>1. Fed
  BY NothingFed DEF IInv
<1>2. EmptyStore.nextGameId = 0
  BY DEF EmptyStore
<1>3. sound = EmptyStore /\ suspect = EmptyStore /\ bug \in Bugs /\ parted \in BOOLEAN
  BY DEF Init
<1>4. Steady(sound) /\ Steady(suspect)
  BY <1>3, NothingIsSteady, Zenon
<1>5. sound.appliedSeq = suspect.appliedSeq /\ sound.nextGameId = 0
  BY <1>2, <1>3, Zenon
<1>6. sound.nextGameId <= Games
  BY <1>5, FeedAssumption
<1> QED
  BY <1>1, <1>3, <1>4, <1>5, <1>6, Zenon DEF SteadyInv

LEMMA SteadyStep == Fed' /\ SteadyInv /\ [Next]_vars => SteadyInv'
<1> SUFFICES ASSUME Fed', SteadyInv, [Next]_vars PROVE SteadyInv'
  OBVIOUS
<1>1. CASE UNCHANGED vars
  BY <1>1 DEF vars, SteadyInv, Fed
<1>2. CASE Apply
  <2>1. PICK p \in NextPayloads(sound), r \in NextPayloads(suspect) :
          /\ sound' = ApplyEvent(NoBug, sound, sound.appliedSeq + 1, p)
          /\ suspect' = ApplyEvent(bug, suspect, suspect.appliedSeq + 1, r)
          /\ parted' = (parted \/ p # r) /\ bug' = bug /\ More(sound)
    BY <1>2, Zenon DEF Apply
  <2>2. PICK S, R : /\ sound \in Store(S) /\ suspect \in Store(S)
                    /\ sound' \in Store(R) /\ suspect' \in Store(R)
    BY DEF SteadyInv, Fed
  <2>3. Steady(sound') /\ sound'.appliedSeq = sound.appliedSeq + 1
    <3>1. Steady(sound)
      BY DEF SteadyInv
    <3> QED
      BY <2>1, <2>2, <3>1, StepIsSteady
  <2>4. Steady(suspect') /\ suspect'.appliedSeq = suspect.appliedSeq + 1
    <3>1. Steady(suspect)
      BY DEF SteadyInv
    <3> QED
      BY <2>1, <2>2, <3>1, StepIsSteady
  <2>5. sound'.nextGameId <= Games
    BY <2>1, <2>2, <2>3, NextPace DEF SteadyInv
  <2>6. Steady(sound)' /\ Steady(suspect)'
    BY <2>3, <2>4
  <2>7. parted' \in BOOLEAN /\ bug' \in Bugs
    BY <2>1 DEF SteadyInv
  <2> QED
    BY <2>3, <2>4, <2>5, <2>6, <2>7 DEF SteadyInv
<1> QED
  BY <1>1, <1>2 DEF Next

(* Whatever a store is fed, and whatever its bug: its games are in the      *)
(* order of their admission, its board is their total, and three events     *)
(* make a game.                                                             *)
THEOREM StoresAreSteady == Spec => []SteadyInv
<1>1. IInv => Fed
  BY DEF IInv
<1> QED
  BY Chained, SteadyInit, SteadyStep, <1>1, PTL DEF Spec

(* The board is what re-adding every completed game gives, for any number   *)
(* of games and any bug, and every player of a completed game is on it      *)
(* (GameStore.LeaderBefore against the board kept by ApplyEvent).           *)
THEOREM BoardAddsUp == Spec => []BoardIsTheSum
<1>1. SteadyInv => BoardIsTheSum
  <2> SUFFICES ASSUME SteadyInv PROVE BoardIsTheSum
    OBVIOUS
  <2>1. PICK S : sound \in Store(S) /\ suspect \in Store(S)
    BY DEF SteadyInv, Fed
  <2>2. Steady(sound) /\ Steady(suspect) /\ sound.nextGameId <= Games
    BY DEF SteadyInv
  <2>3. suspect.nextGameId <= Games
    BY <2>1, <2>2, SamePace DEF SteadyInv
  <2>4. TypeOK
    BY <2>1, <2>2, <2>3, PaceIsBounded DEF SteadyInv, TypeOK
  <2>5. Totalled(sound) /\ Totalled(suspect)
    BY <2>2 DEF Steady
  <2> QED
    BY <2>4, <2>5 DEF BoardIsTheSum, Totalled, Total
<1> QED
  BY StoresAreSteady, <1>1, PTL

(* With one game in flight the watermark costs nothing, for any number of   *)
(* games and any bug: CopyLeader never has to wait, and its scoped read     *)
(* answers what the newest read does (Config.SkipWatermark).                *)
THEOREM WatermarkCostsNothing == Spec => []WatermarkIsDormant
<1>1. SteadyInv => WatermarkIsDormant
  <2> SUFFICES ASSUME SteadyInv PROVE WatermarkIsDormant
    OBVIOUS
  <2>1. PICK S : sound \in Store(S) /\ suspect \in Store(S)
    BY DEF SteadyInv, Fed
  <2>2. Steady(sound) /\ Steady(suspect)
    BY DEF SteadyInv
  <2>3. ASSUME NEW st \in {sound, suspect}, st.current # Nil
        PROVE  /\ CopyLeaderWatermarked(st, st.current) # Unknown
               /\ CopyLeaderWatermarked(st, st.current) = CopyLeaderNewest(st)
    BY <2>1, <2>2, <2>3, ScopedIsNewest
  <2> QED
    BY <2>3, Zenon DEF WatermarkIsDormant
<1> QED
  BY StoresAreSteady, <1>1, PTL
=============================================================================
