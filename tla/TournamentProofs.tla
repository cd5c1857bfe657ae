-------------------------- MODULE TournamentProofs --------------------------
(***************************************************************************)
(* Proofs about the tournament's own handlers: they keep the discipline    *)
(* the theorems about the platform ask for, whatever the session is; what  *)
(* those theorems then say of the tournament and its canonical log; and,   *)
(* in the last three sections, whom the rehearsal over that log admits.    *)
(***************************************************************************)
EXTENDS Tournament, Rehearsal, SequenceTheorems, FiniteSetTheorems, WellFoundedInduction, TLAPS

-----------------------------------------------------------------------------
\* Induction over the numbers, for sets of numbers.
LEMMA LeastNatural ==
  ASSUME NEW S, S \subseteq Nat, S # {}
  PROVE  \E n \in S : \A m \in S : n <= m
<1> DEFINE R == {p \in Nat \X Nat : p[1] < p[2]}
<1>1. IsWellFoundedOn(R, Nat)
  BY NatLessThanWellFounded DEF OpToRel
<1> HIDE DEF R
<1>2. PICK n \in S : \A m \in S : ~(<<m, n>> \in R)
  BY <1>1, WFMin
<1>3. \A m \in S : ~(m < n)
  BY <1>2 DEF R
<1> QED
  BY <1>3

LEMMA Induction ==
  ASSUME NEW S, 0 \in S, \A n \in Nat : n \in S => n + 1 \in S
  PROVE  \A n \in Nat : n \in S
<1> SUFFICES ASSUME Nat \ S # {} PROVE FALSE
  OBVIOUS
<1>1. PICK n \in Nat \ S : \A m \in Nat \ S : n <= m
  BY LeastNatural
<1>2. n # 0
  BY <1>1
<1>3. n - 1 \in Nat /\ n - 1 \in S
  BY <1>1, <1>2
<1> QED
  BY <1>1, <1>3

LEMMA Greatest ==
  ASSUME NEW n \in Nat, NEW S, S \subseteq 1..n, S # {}
  PROVE  \E k \in S : \A m \in S : k >= m
<1>1. PICK d \in {n - k : k \in S} : \A e \in {n - k : k \in S} : d <= e
  <2> DEFINE D == {n - k : k \in S}
  <2>1. D \subseteq Nat
    <3>1. \A k \in S : n - k \in Nat
      OBVIOUS
    <3> QED
      BY <3>1
  <2>2. D # {}
    OBVIOUS
  <2> HIDE DEF D
  <2>3. \E d \in D : \A e \in D : d <= e
    BY <2>1, <2>2, LeastNatural
  <2> QED
    BY <2>3 DEF D
<1>2. PICK k \in S : d = n - k
  BY <1>1
<1>3. \A m \in S : d <= n - m
  BY <1>1
<1> QED
  BY <1>2, <1>3

-----------------------------------------------------------------------------
\* Rebuild, event by event.
Upto(bug, h) ==
  CHOOSE f : f = [k \in 0..Len(h) |->
                    IF k = 0 THEN EmptyStore ELSE ApplyEvent(bug, f[k - 1], k - 1, h[k])]

LEMMA RebuildIsUpto ==
  ASSUME NEW bug, NEW h
  PROVE  Rebuild(bug, h) = Upto(bug, h)[Len(h)]
BY DEF Rebuild, Upto

LEMMA UptoIs ==
  ASSUME NEW bug, NEW h, Len(h) \in Nat
  PROVE  /\ Upto(bug, h)[0] = EmptyStore
         /\ \A k \in 1..Len(h) : Upto(bug, h)[k] = ApplyEvent(bug, Upto(bug, h)[k - 1], k - 1, h[k])
<1> DEFINE Is(f, n) == f = [k \in 0..n |->
                             IF k = 0 THEN EmptyStore ELSE ApplyEvent(bug, f[k - 1], k - 1, h[k])]
           S == {n \in Nat : \E f : Is(f, n)}
<1>1. 0 \in S
  <2> DEFINE f == [k \in 0..0 |-> EmptyStore]
  <2>1. Is(f, 0)
    OBVIOUS
  <2> QED
    BY <2>1
<1>2. ASSUME NEW n \in Nat, n \in S PROVE n + 1 \in S
  <2>1. PICK f : Is(f, n)
    BY <1>2
  <2> DEFINE g == [k \in 0..(n + 1) |-> IF k <= n THEN f[k] ELSE ApplyEvent(bug, f[n], n, h[n + 1])]
  <2>2. \A k \in 0..n : f[k] = IF k = 0 THEN EmptyStore ELSE ApplyEvent(bug, f[k - 1], k - 1, h[k])
    BY <2>1
  <2>3. \A k \in 0..(n + 1) :
          g[k] = IF k = 0 THEN EmptyStore ELSE ApplyEvent(bug, g[k - 1], k - 1, h[k])
    BY <2>2
  <2>4. Is(g, n + 1)
    <3> HIDE DEF g
    <3>1. g = [k \in 0..(n + 1) |-> g[k]]
      BY DEF g
    <3> QED
      BY <2>3, <3>1
  <2> HIDE DEF g, Is
  <2> QED
    BY <2>4
<1>3. Len(h) \in S
  BY <1>1, <1>2, Induction
<1>4. Is(Upto(bug, h), Len(h))
  BY <1>3 DEF Upto
<1> QED
  BY <1>4

LEMMA UptoPrefix ==
  ASSUME NEW bug, NEW E, NEW h \in Seq(E), NEW p \in E
  PROVE  \A k \in 0..Len(h) : Upto(bug, Append(h, p))[k] = Upto(bug, h)[k]
<1> DEFINE more == Append(h, p)
           S == {k \in Nat : k <= Len(h) => Upto(bug, more)[k] = Upto(bug, h)[k]}
<1>1. /\ Len(h) \in Nat /\ Len(more) = Len(h) + 1
      /\ \A k \in 1..Len(h) : more[k] = h[k]
  BY AppendProperties, LenProperties
<1> HIDE DEF more
<1>2. /\ Upto(bug, more)[0] = EmptyStore /\ Upto(bug, h)[0] = EmptyStore
      /\ \A k \in 1..Len(h) :
           /\ Upto(bug, h)[k] = ApplyEvent(bug, Upto(bug, h)[k - 1], k - 1, h[k])
           /\ Upto(bug, more)[k] = ApplyEvent(bug, Upto(bug, more)[k - 1], k - 1, more[k])
  BY <1>1, UptoIs
<1>3. 0 \in S
  BY <1>2
<1>4. ASSUME NEW n \in Nat, n \in S PROVE n + 1 \in S
  <2> SUFFICES ASSUME n + 1 <= Len(h) PROVE Upto(bug, more)[n + 1] = Upto(bug, h)[n + 1]
    OBVIOUS
  <2>1. n + 1 \in 1..Len(h) /\ (n + 1) - 1 = n /\ Upto(bug, more)[n] = Upto(bug, h)[n]
    BY <1>1, <1>4
  <2> QED
    BY <1>1, <1>2, <2>1
<1>5. \A k \in Nat : k \in S
  BY <1>3, <1>4, Induction
<1> QED
  BY <1>1, <1>5 DEF more

\* The store after no event, and after one more.
LEMMA RebuildStep ==
  ASSUME NEW bug, NEW E, NEW h \in Seq(E), NEW p \in E
  PROVE  Rebuild(bug, Append(h, p)) = ApplyEvent(bug, Rebuild(bug, h), Len(h), p)
<1> DEFINE more == Append(h, p)
<1>1. Len(h) \in Nat /\ Len(more) = Len(h) + 1 /\ more[Len(h) + 1] = p
  BY AppendProperties, LenProperties
<1>2. Upto(bug, more)[Len(h)] = Upto(bug, h)[Len(h)]
  BY <1>1, UptoPrefix
<1> HIDE DEF more
<1>3. Upto(bug, more)[Len(h) + 1] = ApplyEvent(bug, Upto(bug, more)[Len(h)], Len(h), p)
  <2>1. Len(h) + 1 \in 1..Len(more) /\ (Len(h) + 1) - 1 = Len(h)
    BY <1>1
  <2> QED
    BY <1>1, <2>1, UptoIs
<1> QED
  BY <1>1, <1>2, <1>3, RebuildIsUpto DEF more

LEMMA RebuildNothing ==
  ASSUME NEW bug
  PROVE  Rebuild(bug, <<>>) = EmptyStore
BY RebuildIsUpto, UptoIs

\* Induction over sequences, for sets of sequences.
LEMMA SeqInduction ==
  ASSUME NEW E, NEW S, <<>> \in S,
         \A h \in Seq(E) : \A p \in E : h \in S => Append(h, p) \in S
  PROVE  \A h \in Seq(E) : h \in S
<1> DEFINE N == {n \in Nat : \A h \in Seq(E) : Len(h) = n => h \in S}
<1>1. 0 \in N
  BY EmptySeq
<1>2. ASSUME NEW n \in Nat, n \in N PROVE n + 1 \in N
  <2> SUFFICES ASSUME NEW h \in Seq(E), Len(h) = n + 1 PROVE h \in S
    OBVIOUS
  <2>1. PICK f \in Seq(E), p \in E : h = Append(f, p)
    BY SequenceEmptyOrAppend
  <2>2. Len(f) = n
    BY <2>1, AppendProperties, LenProperties
  <2> QED
    BY <1>2, <2>1, <2>2
<1>3. \A n \in Nat : n \in N
  BY <1>1, <1>2, Induction
<1> QED
  BY <1>3, LenProperties

-----------------------------------------------------------------------------
\* What decides what happens next: a store without its board, payoffs and chain.
Ctl(st) == [current |-> st.current, games |-> Len(st.completed), next |-> st.nextGameId,
            applied |-> st.appliedSeq, panicked |-> st.panicked]
Control(current, games, next, applied, panicked) ==
  [current |-> current, games |-> games, next |-> next, applied |-> applied, panicked |-> panicked]

\* What an event makes of it.
Steer(c, seq, v) ==
  CASE c.panicked -> c
    [] ~c.panicked /\ v.kind = "NewGame" ->
         IF c.current # Nil THEN Control(c.current, c.games, c.next, c.applied, TRUE)
         ELSE Control(Game(v.id, seq, v.a, v.b), c.games, v.id + 1, seq, FALSE)
    [] ~c.panicked /\ v.kind = "GameDecision" ->
         IF c.current = Nil THEN Control(Nil, c.games, c.next, c.applied, TRUE)
         ELSE LET game == Decided(c.current, v)
              IN IF game.decA = Nil \/ game.decB = Nil
                 THEN Control(game, c.games, c.next, seq, FALSE)
                 ELSE Control(Nil, c.games + 1, c.next, seq, FALSE)

\* Stores as any sequence of payloads leaves them.
Pending ==
  [id : Nat, seq : Nat, a : Strategy, decA : Decision \cup {Nil}, payA : Int,
   b : Strategy, decB : Decision \cup {Nil}, payB : Int]
Over == [id : Nat, seq : Nat, a : Strategy, decA : Decision, payA : Int,
         b : Strategy, decB : Decision, payB : Int]
Stores(B, C) ==
  [current : Pending \cup {Nil}, completed : Seq(Over), leaderboard : B,
   nextGameId : Nat, appliedSeq : Nat \cup {-1}, chain : C, panicked : BOOLEAN]
Sane(st) == st \in Stores({st.leaderboard}, {st.chain})

Made(current, completed, board, next, seq, chain, panicked) ==
  [current |-> current, completed |-> completed, leaderboard |-> board, nextGameId |-> next,
   appliedSeq |-> seq, chain |-> chain, panicked |-> panicked]

LEMMA SaneIsMade ==
  ASSUME NEW st, Sane(st)
  PROVE  /\ st = Made(st.current, st.completed, st.leaderboard, st.nextGameId,
                      st.appliedSeq, st.chain, st.panicked)
         /\ st.current \in Pending \cup {Nil} /\ st.completed \in Seq(Over)
         /\ st.nextGameId \in Nat /\ st.appliedSeq \in Nat \cup {-1} /\ st.panicked \in BOOLEAN
  BY DEF Sane, Stores, Made

LEMMA MadeIsSane ==
  ASSUME NEW c \in Pending \cup {Nil}, NEW d \in Seq(Over), NEW l, NEW n \in Nat,
         NEW q \in Nat \cup {-1}, NEW h, NEW p \in BOOLEAN
  PROVE  /\ Sane(Made(c, d, l, n, q, h, p))
         /\ Ctl(Made(c, d, l, n, q, h, p)) = Control(c, Len(d), n, q, p)
  BY DEF Sane, Stores, Made, Ctl, Control

\* Rehash touches the chain only.
LEMMA RehashIs ==
  ASSUME NEW c, NEW d, NEW l, NEW n, NEW q, NEW h, NEW p
  PROVE  \E k : Rehash(Made(c, d, l, n, q, h, p)) = Made(c, d, l, n, q, k, p)
<1> DEFINE st == Made(c, d, l, n, q, h, p)
<1>1. st.chain = h
  BY DEF Made
<1>2. ASSUME NEW x PROVE [st EXCEPT !.chain = x] = Made(c, d, l, n, q, x, p)
  BY DEF Made
<1> HIDE DEF st
<1>3. PICK k : k = Append(st.chain, Digest(st))
  OBVIOUS
<1>4. Rehash(st) = [st EXCEPT !.chain = k]
  BY <1>3, Zenon DEF Rehash
<1> QED
  BY <1>2, <1>4, Zenon DEF st

\* What the assignments of ApplyNewGame and ApplyDecision make of a store.
NewGameTo(st, seq, next, game) ==
  [st EXCEPT !.appliedSeq = seq, !.nextGameId = next, !.current = game]
DecisionTo(st, seq, game) == [st EXCEPT !.appliedSeq = seq, !.current = game]
EndTo(st, board, games) ==
  [st EXCEPT !.current = Nil, !.leaderboard = board, !.completed = games]

LEMMA NewGameSets ==
  ASSUME NEW c, NEW d, NEW l, NEW n, NEW q, NEW h, NEW p, NEW g, NEW m, NEW s
  PROVE  NewGameTo(Made(c, d, l, n, q, h, p), s, m, g) = Made(g, d, l, m, s, h, p)
<1>1. [Made(c, d, l, n, q, h, p) EXCEPT !.appliedSeq = s] = Made(c, d, l, n, s, h, p)
  BY DEF Made
<1>2. [Made(c, d, l, n, s, h, p) EXCEPT !.nextGameId = m] = Made(c, d, l, m, s, h, p)
  BY DEF Made
<1>3. [Made(c, d, l, m, s, h, p) EXCEPT !.current = g] = Made(g, d, l, m, s, h, p)
  BY DEF Made
<1> QED
  BY ONLY <1>1, <1>2, <1>3, Zenon DEF NewGameTo

LEMMA DecisionSets ==
  ASSUME NEW c, NEW d, NEW l, NEW n, NEW q, NEW h, NEW p, NEW g, NEW s
  PROVE  DecisionTo(Made(c, d, l, n, q, h, p), s, g) = Made(g, d, l, n, s, h, p)
<1>1. [Made(c, d, l, n, q, h, p) EXCEPT !.appliedSeq = s] = Made(c, d, l, n, s, h, p)
  BY DEF Made
<1>2. [Made(c, d, l, n, s, h, p) EXCEPT !.current = g] = Made(g, d, l, n, s, h, p)
  BY DEF Made
<1> QED
  BY ONLY <1>1, <1>2, Zenon DEF DecisionTo

LEMMA EndSets ==
  ASSUME NEW c, NEW d, NEW l, NEW n, NEW q, NEW h, NEW p, NEW games, NEW board
  PROVE  EndTo(Made(c, d, l, n, q, h, p), board, games) = Made(Nil, games, board, n, q, h, p)
<1>1. [Made(c, d, l, n, q, h, p) EXCEPT !.current = Nil] = Made(Nil, d, l, n, q, h, p)
  BY DEF Made
<1>2. [Made(Nil, d, l, n, q, h, p) EXCEPT !.leaderboard = board] = Made(Nil, d, board, n, q, h, p)
  BY DEF Made
<1>3. [Made(Nil, d, board, n, q, h, p) EXCEPT !.completed = games] = Made(Nil, games, board, n, q, h, p)
  BY DEF Made
<1> QED
  BY ONLY <1>1, <1>2, <1>3, Zenon DEF EndTo

LEMMA PanicSets ==
  ASSUME NEW c, NEW d, NEW l, NEW n, NEW q, NEW h, NEW p
  PROVE  Panic(Made(c, d, l, n, q, h, p)) = Made(c, d, l, n, q, h, TRUE)
<1>1. ASSUME NEW x PROVE [Made(c, d, l, n, q, h, p) EXCEPT !.panicked = x] = Made(c, d, l, n, q, h, x)
  BY DEF Made
<1>2. Panic(Made(c, d, l, n, q, h, p)) = [Made(c, d, l, n, q, h, p) EXCEPT !.panicked = TRUE]
  BY Zenon DEF Panic
<1>3. [Made(c, d, l, n, q, h, p) EXCEPT !.panicked = TRUE] = Made(c, d, l, n, q, h, TRUE)
  BY <1>1, Zenon
<1> QED
  BY ONLY <1>2, <1>3, Zenon

\* A game that is paid, and a game with one more decision.
LEMMA PaidIsOver ==
  ASSUME NEW g \in Pending, g.decA # Nil, g.decB # Nil, NEW b
  PROVE  Paid(b, g) \in Over
<1>1. g.decA \in Decision /\ g.decB \in Decision
  BY DEF Pending
<1>2. PICK m \in Int, n \in Int : /\ m = Payoff(g.decA, g.decB)[1] + Corruption(b, g)
                                 /\ n = Payoff(g.decA, g.decB)[2]
  <2>1. Payoff(g.decA, g.decB)[1] \in Int /\ Payoff(g.decA, g.decB)[2] \in Int
    BY DEF Payoff
  <2>2. Corruption(b, g) \in Int
    BY DEF Corruption
  <2> QED
    BY <2>1, <2>2
<1>3. Paid(b, g) = [g EXCEPT !.payA = m, !.payB = n]
  BY <1>2, Zenon DEF Paid
<1>4. [g EXCEPT !.payA = m] \in [id : Nat, seq : Nat, a : Strategy, decA : Decision, payA : Int,
                                 b : Strategy, decB : Decision, payB : Int]
  BY <1>1 DEF Pending
<1>5. PICK one : one = [g EXCEPT !.payA = m] /\ one \in Over
  BY <1>4 DEF Over
<1>6. [one EXCEPT !.payB = n] \in Over
  BY <1>5 DEF Over
<1>7. Paid(b, g) = [one EXCEPT !.payB = n]
  BY <1>3, <1>5, Zenon
<1> QED
  BY <1>6, <1>7, Zenon

LEMMA DecidedIsPending ==
  ASSUME NEW g \in Pending, NEW v, v.decision \in Decision
  PROVE  /\ Decided(g, v) \in Pending
         /\ Decided(g, v).a = g.a /\ Decided(g, v).b = g.b
BY DEF Decided, Pending

\* The event steers the store, whatever the store's bug.
LEMMA EventSteers ==
  ASSUME NEW st, Sane(st), NEW v \in Payload, NEW seq \in Nat, NEW bug
  PROVE  /\ Sane(ApplyEvent(bug, st, seq, v))
         /\ Ctl(ApplyEvent(bug, st, seq, v)) = Steer(Ctl(st), seq, v)
<1> DEFINE to == ApplyEvent(bug, st, seq, v)
           Goal == Sane(to) /\ Ctl(to) = Steer(Ctl(st), seq, v)
<1>1. PICK c, d, l, n, q, h, p :
        /\ c = st.current /\ d = st.completed /\ l = st.leaderboard /\ n = st.nextGameId
        /\ q = st.appliedSeq /\ h = st.chain /\ p = st.panicked
  OBVIOUS
<1>2. /\ st = Made(c, d, l, n, q, h, p)
      /\ c \in Pending \cup {Nil} /\ d \in Seq(Over) /\ n \in Nat
      /\ q \in Nat \cup {-1} /\ p \in BOOLEAN
  BY <1>1, SaneIsMade
<1>3. PICK k : k = Ctl(st) /\ k = Control(c, Len(d), n, q, p)
  BY <1>1 DEF Ctl, Control
<1>4. k.current = c /\ k.games = Len(d) /\ k.next = n /\ k.applied = q /\ (k.panicked <=> p)
  BY <1>3 DEF Control
<1>5. ASSUME NEW c1 \in Pending \cup {Nil}, NEW d1 \in Seq(Over), NEW l1, NEW n1 \in Nat,
             NEW q1 \in Nat \cup {-1}, NEW h1, NEW p1 \in BOOLEAN,
             to = Made(c1, d1, l1, n1, q1, h1, p1),
             Steer(k, seq, v) = Control(c1, Len(d1), n1, q1, p1)
      PROVE  Goal
  BY <1>3, <1>5, MadeIsSane
<1> HIDE DEF Goal
<1>p. Panic(Made(c, d, l, n, q, h, p)) = Made(c, d, l, n, q, h, TRUE)
  BY ONLY PanicSets
<1>6. ASSUME p PROVE Goal
  <2>1. to = st
    BY <1>1, <1>6 DEF ApplyEvent
  <2>2. Steer(k, seq, v) = k
    BY <1>4, <1>6 DEF Steer
  <2>3. Sane(to) /\ Ctl(to) = Steer(Ctl(st), seq, v)
    BY <1>3, <2>1, <2>2
  <2> QED
    BY <2>3 DEF Goal
<1>7. ASSUME ~p, v.kind = "NewGame", c # Nil PROVE Goal
  <2>1. to = Panic(st)
    BY <1>1, <1>7 DEF ApplyEvent, ApplyNewGame
  <2>2. to = Made(c, d, l, n, q, h, TRUE)
    BY ONLY <1>2, <2>1, <1>p, Zenon
  <2>3. Steer(k, seq, v) = Control(c, Len(d), n, q, TRUE)
    BY <1>4, <1>7 DEF Steer
  <2> QED
    BY <1>2, <1>5, <2>2, <2>3
<1>8. ASSUME ~p, v.kind = "NewGame", c = Nil PROVE Goal
  <2>1. v.id \in Nat /\ v.a \in Strategy /\ v.b \in Strategy
    BY <1>8 DEF Payload
  <2>2. PICK m \in Nat : m = v.id + 1
    BY <2>1
  <2>g. PICK g : g = Game(v.id, seq, v.a, v.b)
    OBVIOUS
  <2>3. g \in Pending
    BY <2>1, <2>g DEF Game, Pending
  <2>4. to = Rehash(NewGameTo(st, seq, m, g))
    <3>1. to = ApplyNewGame(st, seq, v)
      BY <1>1, <1>8 DEF ApplyEvent
    <3>2. st.current = Nil
      BY <1>1, <1>8
    <3> QED
      BY <2>2, <2>g, <3>1, <3>2, Zenon DEF ApplyNewGame, NewGameTo
  <2>n. NewGameTo(Made(c, d, l, n, q, h, p), seq, m, g) = Made(g, d, l, m, seq, h, p)
    BY ONLY NewGameSets
  <2>5. to = Rehash(Made(g, d, l, m, seq, h, p))
    BY ONLY <1>2, <2>4, <2>n, Zenon
  <2>6. PICK x : to = Made(g, d, l, m, seq, x, p)
    BY <2>5, RehashIs
  <2>7. Steer(k, seq, v) = Control(g, Len(d), m, seq, p)
    BY <1>2, <1>4, <1>8, <2>2, <2>g DEF Steer
  <2> QED
    BY <1>2, <1>5, <2>3, <2>6, <2>7
<1>9. ASSUME ~p, v.kind = "GameDecision", c = Nil PROVE Goal
  <2>1. to = Panic(st)
    BY <1>1, <1>9 DEF ApplyEvent, ApplyDecision
  <2>2. to = Made(c, d, l, n, q, h, TRUE)
    BY ONLY <1>2, <2>1, <1>p, Zenon
  <2>3. Steer(k, seq, v) = Control(c, Len(d), n, q, TRUE)
    BY <1>4, <1>9 DEF Steer
  <2> QED
    BY <1>2, <1>5, <2>2, <2>3
<1>10. ASSUME ~p, v.kind = "GameDecision", c \in Pending PROVE Goal
  <2>0. c # Nil
    BY <1>10, NilAssumption DEF Pending
  <2>1. v.decision \in Decision
    BY <1>10 DEF Payload
  <2>2. PICK g : g = Decided(c, v) /\ g \in Pending
    BY <1>10, <2>1, DecidedIsPending
  <2>3. to = ApplyDecision(bug, st, seq, v) /\ st.current = c
    BY <1>1, <1>10 DEF ApplyEvent
  <2>4. ASSUME g.decA = Nil \/ g.decB = Nil PROVE Goal
    <3>1. to = Rehash(DecisionTo(st, seq, g))
      BY <2>0, <2>2, <2>3, <2>4, Zenon DEF ApplyDecision, DecisionTo
    <3>n. DecisionTo(Made(c, d, l, n, q, h, p), seq, g) = Made(g, d, l, n, seq, h, p)
      BY ONLY DecisionSets
    <3>2. to = Rehash(Made(g, d, l, n, seq, h, p))
      BY ONLY <1>2, <3>1, <3>n, Zenon
    <3>3. PICK x : to = Made(g, d, l, n, seq, x, p)
      BY <3>2, RehashIs
    <3>4. Steer(k, seq, v) = Control(g, Len(d), n, seq, p)
      BY <1>2, <1>4, <1>10, <2>0, <2>2, <2>4 DEF Steer
    <3> QED
      BY <1>2, <1>5, <2>2, <3>3, <3>4
  <2>5. ASSUME ~(g.decA = Nil \/ g.decB = Nil) PROVE Goal
    <3>1. PICK paid, board, games :
            paid = Paid(bug, g) /\ board = CreditGame(l, paid) /\ games = Append(d, paid)
      OBVIOUS
    <3>2. paid \in Over
      BY <2>2, <2>5, <3>1, PaidIsOver
    <3>3. games \in Seq(Over) /\ Len(games) = Len(d) + 1
      BY <1>2, <3>1, <3>2, AppendProperties, LenProperties
    <3>4. PICK mid : mid = Made(g, d, l, n, seq, h, p)
      OBVIOUS
    <3>n. DecisionTo(Made(c, d, l, n, q, h, p), seq, g) = Made(g, d, l, n, seq, h, p)
      BY ONLY DecisionSets
    <3>5. mid = DecisionTo(st, seq, g)
      BY ONLY <1>2, <3>4, <3>n, Zenon
    <3>f. mid.leaderboard = l /\ mid.completed = d
      BY <3>4 DEF Made
    <3>6. to = Rehash(EndTo(mid, board, games))
      <4>1. to = Rehash(EndTo(DecisionTo(st, seq, g),
                              CreditGame(DecisionTo(st, seq, g).leaderboard, paid),
                              Append(DecisionTo(st, seq, g).completed, paid)))
        BY <2>0, <2>2, <2>3, <2>5, <3>1, Zenon DEF ApplyDecision, DecisionTo, EndTo
      <4>2. to = Rehash(EndTo(mid, CreditGame(mid.leaderboard, paid), Append(mid.completed, paid)))
        BY ONLY <3>5, <4>1, Zenon
      <4> QED
        BY ONLY <3>1, <3>f, <4>2, Zenon
    <3>m. EndTo(Made(g, d, l, n, seq, h, p), board, games) = Made(Nil, games, board, n, seq, h, p)
      BY ONLY EndSets
    <3>7. to = Rehash(Made(Nil, games, board, n, seq, h, p))
      BY ONLY <3>4, <3>6, <3>m, Zenon
    <3>8. PICK x : to = Made(Nil, games, board, n, seq, x, p)
      BY <3>7, RehashIs
    <3>9. Steer(k, seq, v) = Control(Nil, Len(games), n, seq, p)
      BY <1>2, <1>4, <1>10, <2>0, <2>2, <2>5, <3>3 DEF Steer
    <3> QED
      BY <1>2, <1>5, <3>3, <3>8, <3>9
  <2> QED
    BY <2>4, <2>5
<1>11. v.kind = "NewGame" \/ v.kind = "GameDecision"
  BY DEF Payload
<1>12. Goal
  BY <1>2, <1>6, <1>7, <1>8, <1>9, <1>10, <1>11
<1> QED
  BY <1>12 DEF Goal

-----------------------------------------------------------------------------
\* What the fold of any sequence of payloads is like.
Open(game) == game # Nil => game.decA = Nil \/ game.decB = Nil

LEMMA NothingSteers == Sane(EmptyStore) /\ Ctl(EmptyStore) = Control(Nil, 0, 0, -1, FALSE)
<1>1. EmptyStore = Made(Nil, <<>>, <<>>, 0, -1, <<>>, FALSE)
  BY DEF EmptyStore, Made
<1>2. PICK c, d, l, n, q, p : c = Nil /\ d = <<>> /\ l = <<>> /\ n = 0 /\ q = -1 /\ p = FALSE
  OBVIOUS
<1>3. c \in Pending \cup {Nil} /\ n \in Nat /\ q \in Nat \cup {-1} /\ p \in BOOLEAN
  BY <1>2
<1>4. d \in Seq(Over) /\ Len(d) = 0
  BY <1>2, EmptySeq
<1>5. /\ Sane(Made(c, d, l, n, q, l, p))
      /\ Ctl(Made(c, d, l, n, q, l, p)) = Control(c, Len(d), n, q, p)
  BY <1>3, <1>4 DEF Sane, Stores, Made, Ctl, Control
<1> QED
  BY <1>1, <1>2, <1>4, <1>5

LEMMA StaysOpen ==
  ASSUME NEW c, Open(c.current), NEW seq \in Nat, NEW v \in Payload
  PROVE  Open(Steer(c, seq, v).current)
<1> DEFINE to == Steer(c, seq, v)
<1>1. CASE c.panicked
  BY <1>1 DEF Steer
<1>2. CASE ~c.panicked /\ v.kind = "NewGame"
  <2>1. CASE c.current # Nil
    <3>1. to = Control(c.current, c.games, c.next, c.applied, TRUE)
      BY <1>2, <2>1 DEF Steer
    <3>2. to.current = c.current
      BY <3>1 DEF Control
    <3> QED
      BY <3>2
  <2>2. CASE c.current = Nil
    <3>1. to = Control(Game(v.id, seq, v.a, v.b), c.games, v.id + 1, seq, FALSE)
      BY <1>2, <2>2 DEF Steer
    <3>2. to.current = Game(v.id, seq, v.a, v.b)
      BY <3>1 DEF Control
    <3>3. Game(v.id, seq, v.a, v.b).decA = Nil
      BY DEF Game
    <3> QED
      BY <3>2, <3>3 DEF Open
  <2> QED
    BY <2>1, <2>2
<1>3. CASE ~c.panicked /\ v.kind = "GameDecision"
  <2>0. PICK game : game = Decided(c.current, v)
    OBVIOUS
  <2>1. CASE c.current = Nil
    <3>1. to = Control(Nil, c.games, c.next, c.applied, TRUE)
      BY <1>3, <2>1 DEF Steer
    <3>2. to.current = Nil
      BY <3>1 DEF Control
    <3> QED
      BY <3>2 DEF Open
  <2>2. CASE c.current # Nil /\ (game.decA = Nil \/ game.decB = Nil)
    <3>1. to = Control(game, c.games, c.next, seq, FALSE)
      BY <1>3, <2>0, <2>2 DEF Steer
    <3>2. to.current = game
      BY <3>1 DEF Control
    <3> QED
      BY <2>2, <3>2 DEF Open
  <2>3. CASE c.current # Nil /\ ~(game.decA = Nil \/ game.decB = Nil)
    <3>1. to = Control(Nil, c.games + 1, c.next, seq, FALSE)
      BY <1>3, <2>0, <2>3 DEF Steer
    <3>2. to.current = Nil
      BY <3>1 DEF Control
    <3> QED
      BY <3>2 DEF Open
  <2> QED
    BY <2>1, <2>2, <2>3
<1>4. v.kind = "NewGame" \/ v.kind = "GameDecision"
  BY DEF Payload
<1> QED
  BY <1>1, <1>2, <1>3, <1>4

\* Every instance of every component agrees on what happens next, whatever is
\* wrong with its store.
LEMMA StoresAgree ==
  ASSUME NEW bug, NEW h \in Seq(Payload)
  PROVE  /\ Sane(Rebuild(bug, h)) /\ Open(Rebuild(bug, h).current)
         /\ Ctl(Rebuild(bug, h)) = Ctl(Rebuild(NoBug, h))
<1> DEFINE Agree(g) == /\ Sane(Rebuild(bug, g)) /\ Sane(Rebuild(NoBug, g))
                       /\ Ctl(Rebuild(bug, g)) = Ctl(Rebuild(NoBug, g))
                       /\ Open(Ctl(Rebuild(bug, g)).current)
           S == {g \in Seq(Payload) : Agree(g)}
<1>0. \A st : Ctl(st).current = st.current
  BY DEF Ctl
<1>1. <<>> \in S
  <2>1. Open(Ctl(EmptyStore).current)
    BY NothingSteers DEF Open, Control
  <2>2. <<>> \in Seq(Payload)
    BY EmptySeq
  <2>3. Agree(<<>>)
    BY <2>1, RebuildNothing, NothingSteers
  <2> QED
    BY <2>2, <2>3
<1>2. ASSUME NEW g \in Seq(Payload), NEW p \in Payload, g \in S
      PROVE  Append(g, p) \in S
  <2>1. PICK more, x, y : more = Append(g, p) /\ x = Rebuild(bug, g) /\ y = Rebuild(NoBug, g)
    OBVIOUS
  <2>2. more \in Seq(Payload) /\ Len(g) \in Nat
    BY <2>1, AppendProperties, LenProperties
  <2>3. Sane(x) /\ Sane(y) /\ Ctl(x) = Ctl(y) /\ Open(Ctl(x).current)
    BY <1>2, <2>1
  <2>4. /\ Rebuild(bug, more) = ApplyEvent(bug, x, Len(g), p)
        /\ Rebuild(NoBug, more) = ApplyEvent(NoBug, y, Len(g), p)
    BY <2>1, RebuildStep
  <2>5. /\ Sane(ApplyEvent(bug, x, Len(g), p)) /\ Sane(ApplyEvent(NoBug, y, Len(g), p))
        /\ Ctl(ApplyEvent(bug, x, Len(g), p)) = Steer(Ctl(x), Len(g), p)
        /\ Ctl(ApplyEvent(NoBug, y, Len(g), p)) = Steer(Ctl(y), Len(g), p)
    BY <2>2, <2>3, EventSteers
  <2>6. Open(Steer(Ctl(x), Len(g), p).current)
    BY <2>2, <2>3, StaysOpen
  <2>7. Agree(more)
    BY <2>3, <2>4, <2>5, <2>6
  <2> QED
    BY <2>1, <2>2, <2>7
<1> HIDE DEF S
<1>3. h \in S
  BY <1>1, <1>2, SeqInduction
<1> QED
  BY <1>0, <1>3 DEF S

-----------------------------------------------------------------------------
\* What the players decide.
LEMMA DecisionsOfOver ==
  ASSUME NEW g \in Over, NEW s
  PROVE  /\ DecisionOf(g, s) \in Decision \cup {Nil}
         /\ Involves(g, s) => DecisionOf(g, s) \in Decision
BY DEF Over, DecisionOf, Involves

LEMMA MaxIsMember ==
  ASSUME NEW n \in Nat, NEW S, S \subseteq 1..n, S # {}
  PROVE  Max(S) \in S
<1>1. \E k \in S : \A m \in S : k >= m
  BY Greatest
<1> QED
  BY <1>1 DEF Max

LEMMA LastGameFor ==
  ASSUME NEW st, Sane(st), NEW s
  PROVE  \/ LastCompletedGameFor(st, s) = Nil
         \/ /\ LastCompletedGameFor(st, s) \in Over
            /\ Involves(LastCompletedGameFor(st, s), s)
<1>1. PICK d \in Seq(Over) : d = st.completed /\ Len(d) \in Nat
  BY SaneIsMade, LenProperties
<1> DEFINE I == {k \in 1..Len(d) : Involves(d[k], s)}
           last == IF I # {} THEN Max(I) ELSE 0
<1>2. LastCompletedGameFor(st, s) = IF last = 0 THEN Nil ELSE d[last]
  BY <1>1, Zenon DEF LastCompletedGameFor, LastWhere, SelectLastInSeq
<1>3. CASE I = {}
  BY <1>2, <1>3
<1>4. CASE I # {}
  <2>1. PICK m : m = Max(I) /\ m \in I
    BY <1>1, <1>4, MaxIsMember
  <2>2. m \in 1..Len(d) /\ Involves(d[m], s)
    BY <2>1
  <2>3. m # 0 /\ d[m] \in Over
    BY <1>1, <2>2
  <2>4. last = m
    BY <1>4, <2>1
  <2> QED
    BY <1>2, <2>2, <2>3, <2>4
<1> QED
  BY <1>3, <1>4

LEMMA LastGameBetween ==
  ASSUME NEW st, Sane(st), NEW s, NEW t
  PROVE  \/ LastCompletedGameBetween(st, s, t) = Nil
         \/ LastCompletedGameBetween(st, s, t) \in Over
<1>1. PICK d \in Seq(Over) : d = st.completed /\ Len(d) \in Nat
  BY SaneIsMade, LenProperties
<1> DEFINE I == {k \in 1..Len(d) : Involves(d[k], s) /\ Involves(d[k], t)}
           last == IF I # {} THEN Max(I) ELSE 0
<1>2. LastCompletedGameBetween(st, s, t) = IF last = 0 THEN Nil ELSE d[last]
  BY <1>1, Zenon DEF LastCompletedGameBetween, LastWhere, SelectLastInSeq
<1>3. CASE I = {}
  BY <1>2, <1>3
<1>4. CASE I # {}
  <2>1. PICK m : m = Max(I) /\ m \in I
    BY <1>1, <1>4, MaxIsMember
  <2>2. m \in 1..Len(d)
    BY <2>1
  <2>3. m # 0 /\ d[m] \in Over
    BY <1>1, <2>2
  <2>4. last = m
    BY <1>4, <2>1
  <2> QED
    BY <1>2, <2>2, <2>3, <2>4
<1> QED
  BY <1>3, <1>4

LEMMA LastMoveBefore ==
  ASSUME NEW st, Sane(st), NEW s, NEW seq \in Nat
  PROVE  LastDecisionBefore(st, s, seq) \in Decision \cup {Nil}
<1> DEFINE Past(d) == {k \in 1..Len(d) : d[k].seq < seq /\ DecisionOf(d[k], s) # Nil}
           Latest(d) == CHOOSE k \in Past(d) : \A m \in Past(d) : d[m].seq <= d[k].seq
           Move(d) == IF Past(d) = {} THEN Nil ELSE DecisionOf(d[Latest(d)], s)
<1>0. LastDecisionBefore(st, s, seq) = Move(st.completed)
  BY Zenon DEF LastDecisionBefore
<1>1. PICK d \in Seq(Over) : d = st.completed /\ Len(d) \in Nat
  BY SaneIsMade, LenProperties
<1> DEFINE past == Past(d)
           latest == Latest(d)
<1>2. LastDecisionBefore(st, s, seq) = IF past = {} THEN Nil ELSE DecisionOf(d[latest], s)
  <2> HIDE DEF Move
  <2>1. LastDecisionBefore(st, s, seq) = Move(d)
    BY <1>0, <1>1
  <2> QED
    BY <2>1 DEF Move
<1>3. ASSUME past # {} PROVE latest \in past
  <2> DEFINE ages == {seq - d[k].seq : k \in past}
  <2>1. \A k \in past : d[k].seq \in Nat /\ d[k].seq < seq
    <3> SUFFICES ASSUME NEW k \in past PROVE d[k].seq \in Nat /\ d[k].seq < seq
      OBVIOUS
    <3>1. d[k] \in Over /\ d[k].seq < seq
      BY <1>1
    <3> QED
      BY <3>1 DEF Over
  <2> HIDE DEF past
  <2>2. ages \subseteq Nat /\ ages # {}
    <3>1. \A k \in past : seq - d[k].seq \in Nat
      BY <2>1
    <3> QED
      BY <1>3, <3>1
  <2> HIDE DEF ages
  <2>3. PICK n \in ages : \A m \in ages : n <= m
    BY <2>2, LeastNatural
  <2>4. PICK k \in past : n = seq - d[k].seq
    BY <2>3 DEF ages
  <2>5. \A m \in past : seq - d[k].seq <= seq - d[m].seq
    BY <2>3, <2>4 DEF ages
  <2>6. \A m \in past : d[m].seq <= d[k].seq
    BY <2>1, <2>4, <2>5
  <2>7. \E e \in past : \A m \in past : d[m].seq <= d[e].seq
    BY <2>4, <2>6
  <2> QED
    BY <2>7 DEF past
<1>4. CASE past = {}
  BY <1>2, <1>4
<1>5. CASE past # {}
  <2>1. latest \in past
    BY <1>3, <1>5
  <2>2. d[latest] \in Over
    <3> HIDE DEF latest
    <3> QED
      BY <1>1, <2>1
  <2>3. DecisionOf(d[latest], s) \in Decision \cup {Nil}
    BY <2>2, DecisionsOfOver
  <2> QED
    BY <1>2, <1>5, <2>3
<1> QED
  BY <1>4, <1>5

\* A player whose turn it is decides, and never has to wait for its own game.
LEMMA HonestIsDecision ==
  ASSUME NEW st, Sane(st), st.current \in Pending, NEW self \in Strategy, NEW flaws
  PROVE  HonestDecision(self, flaws, st, st.current) \in Decision
<1> DEFINE game == st.current
<1>1. Flip(st, self) \in Decision
  BY DEF Flip, Decision
<1>2. Retaliate(st, self, game) \in Decision
  BY DEF Retaliate, Decision
<1>3. CopyLeaderNewest(st) \in Decision
  <2>1. PICK leader, previous : /\ leader = LeadingStrategy(st)
                                /\ previous = LastCompletedGameFor(st, leader)
    OBVIOUS
  <2>2. CopyLeaderNewest(st) = IF leader = NoStrategy \/ previous = Nil THEN "cooperate"
                               ELSE DecisionOf(previous, leader)
    BY <2>1, Zenon DEF CopyLeaderNewest
  <2>3. previous # Nil => previous \in Over /\ Involves(previous, leader)
    <3>1. \/ LastCompletedGameFor(st, leader) = Nil
          \/ /\ LastCompletedGameFor(st, leader) \in Over
             /\ Involves(LastCompletedGameFor(st, leader), leader)
      BY ONLY Sane(st), LastGameFor, Zenon
    <3> QED
      BY ONLY <2>1, <3>1, Zenon
  <2> QED
    BY <2>2, <2>3, DecisionsOfOver DEF Decision
<1>4. CopyLeaderWatermarked(st, game) \in Decision
  <2>1. PICK n \in Nat : n = game.seq
    BY DEF Pending
  <2>2. ResolvedBefore(st, game.seq)
    BY <2>1 DEF ResolvedBefore
  <2>3. PICK leader, move : /\ leader = LeaderBefore(st, game.seq)
                            /\ move = LastDecisionBefore(st, leader, game.seq)
    OBVIOUS
  <2>4. CopyLeaderWatermarked(st, game) = IF leader = NoStrategy THEN "cooperate" ELSE Copied(move)
    BY <2>2, <2>3, Zenon DEF CopyLeaderWatermarked
  <2>5. move \in Decision \cup {Nil}
    BY <2>1, <2>3, LastMoveBefore
  <2> QED
    BY <2>4, <2>5 DEF Copied, Decision
<1>5. Cooperate \in Decision
  BY DEF Cooperate, Decision
<1> HIDE DEF game
<1> QED
  BY <1>1, <1>2, <1>3, <1>4, <1>5 DEF HonestDecision, Strategy, game

LEMMA PlayerAnswers ==
  ASSUME NEW st, Sane(st), NEW self \in Strategy, NEW flaws
  PROVE  /\ PlayerEmits(self, flaws, st) \subseteq {GameDecision(self, d) : d \in Decision}
         /\ NextToMove(st.current) = self <=> PlayerEmits(self, flaws, st) # {}
<1>0. self # NoStrategy
  BY DEF Strategy, NoStrategy
<1>1. CASE NextToMove(st.current) # self
  BY <1>1 DEF PlayerEmits, ShouldRespond
<1>2. CASE NextToMove(st.current) = self
  <2>1. st.current \in Pending
    <3>1. st.current # Nil
      BY <1>0, <1>2 DEF NextToMove
    <3> QED
      BY <3>1, SaneIsMade
  <2>2. PICK honest : honest = HonestDecision(self, flaws, st, st.current) /\ honest \in Decision
    BY <2>1, HonestIsDecision
  <2>3. PICK D : D = DecideFor(self, flaws, st, st.current)
    OBVIOUS
  <2>4. \A d \in Decision : Inverted(d) \in Decision
    BY DEF Inverted, Decision
  <2>5. PICK d \in Decision : D = IF "ImpureClock" \in flaws THEN {d, Inverted(d)} ELSE {d}
    BY <2>2, <2>3, <2>4 DEF DecideFor
  <2>6. D \subseteq Decision /\ D # {}
    BY <2>4, <2>5
  <2>7. D \ {Unknown} = D
    BY <2>6 DEF Decision, Unknown
  <2>8. PlayerEmits(self, flaws, st) = {GameDecision(self, e) : e \in D}
    BY <1>0, <1>2, <2>3, <2>7 DEF PlayerEmits, ShouldRespond
  <2> QED
    BY <1>2, <2>6, <2>8
<1> QED
  BY <1>1, <1>2

-----------------------------------------------------------------------------
\* What the injector puts on the stream.
LEMMA Remainder ==
  ASSUME NEW m \in Nat, NEW n \in Nat, n > 0
  PROVE  m % n \in 0..(n - 1) /\ m \div n \in Nat
OBVIOUS

LEMMA PairingIsPayload ==
  ASSUME Draw \in [Nat -> Nat], NEW id \in Nat
  PROVE  NextPairing(id) \in Payload /\ NextPairing(id).kind = "NewGame"
<1>1. PICK n \in Nat, d \in Nat : n = Len(AllStrategies) /\ d = Draw[id]
  BY InjectorAssumption, LenProperties
<1>2. n >= 2
  BY <1>1, InjectorAssumption
<1>3. FirstOf(d) \in 0..(n - 1)
  <2>1. FirstOf(d) = d % n
    BY <1>1 DEF FirstOf
  <2>2. n > 0
    BY <1>2
  <2>3. d % n \in 0..(n - 1)
    BY <2>2, Remainder
  <2> QED
    BY <2>1, <2>3
<1>4. SecondOf(d) \in 0..(n - 1)
  <2>1. PICK b : b = (d \div n) % (n - 1) /\ b \in 0..(n - 2)
    <3>1. d \div n \in Nat /\ n - 1 \in Nat /\ n - 1 > 0 /\ (n - 1) - 1 = n - 2
      BY <1>2, Remainder
    <3> QED
      BY <3>1, Remainder
  <2>2. SecondOf(d) = IF b >= FirstOf(d) THEN b + 1 ELSE b
    BY <1>1, <2>1 DEF SecondOf
  <2> QED
    BY <1>2, <1>3, <2>1, <2>2
<1>5. \A k \in 0..(n - 1) : AllStrategies[k + 1] \in Strategy
  BY <1>1, InjectorAssumption
<1> QED
  BY <1>1, <1>3, <1>4, <1>5 DEF NextPairing, NewGame, Payload

LEMMA InjectorPairs ==
  ASSUME Draw \in [Nat -> Nat], NEW st, Sane(st)
  PROVE  /\ InjectorBoots(st) \cup InjectorEmits(st) \subseteq {p \in Payload : p.kind = "NewGame"}
         /\ st.current # Nil => InjectorEmits(st) = {}
         /\ st.appliedSeq >= 0 => InjectorBoots(st) = {}
<1>1. st.nextGameId \in Nat /\ st.appliedSeq \in Nat \cup {-1}
  BY SaneIsMade
<1>2. NextPairing(st.nextGameId) \in {p \in Payload : p.kind = "NewGame"}
  BY <1>1, PairingIsPayload
<1>3. InjectorBoots(st) \cup InjectorEmits(st) \subseteq {NextPairing(st.nextGameId)}
  BY DEF InjectorBoots, InjectorEmits
<1>4. st.current # Nil => InjectorEmits(st) = {}
  BY DEF InjectorEmits, JustCompleted
<1>5. st.appliedSeq >= 0 => InjectorBoots(st) = {}
  BY <1>1 DEF InjectorBoots
<1> QED
  BY <1>2, <1>3, <1>4, <1>5

\* Stores of the same control look the same to every component.
LEMMA LooksTheSame ==
  ASSUME NEW st, Sane(st), NEW su, Sane(su), Ctl(st) = Ctl(su)
  PROVE  /\ st.current = su.current /\ st.appliedSeq = su.appliedSeq
         /\ st.panicked = su.panicked
         /\ InjectorBoots(st) = InjectorBoots(su)
         /\ InjectorEmits(st) = InjectorEmits(su)
<1>1. /\ st.current = su.current /\ Len(st.completed) = Len(su.completed)
      /\ st.nextGameId = su.nextGameId /\ st.appliedSeq = su.appliedSeq
      /\ st.panicked = su.panicked
  BY DEF Ctl
<1>2. st.completed \in Seq(Over) /\ su.completed \in Seq(Over)
  BY SaneIsMade
<1>3. (st.completed = <<>>) = (su.completed = <<>>)
  BY <1>1, <1>2, EmptySeq, LenProperties
<1>4. JustCompleted(st) = JustCompleted(su)
  BY <1>1, <1>3 DEF JustCompleted
<1>5. InjectorBoots(st) = InjectorBoots(su)
  BY <1>1 DEF InjectorBoots
<1>6. InjectorEmits(st) = InjectorEmits(su)
  BY <1>1, <1>4 DEF InjectorEmits
<1> QED
  BY <1>1, <1>5, <1>6

\* Whose turn a store shows.
LEMMA TurnShown ==
  ASSUME NEW st, Sane(st), Open(st.current)
  PROVE  /\ st.current # Nil => /\ TurnOf(st) = NextToMove(st.current)
                               /\ TurnOf(st) \in Strategy
         /\ st.current = Nil =>
              /\ NextToMove(st.current) = NoStrategy
              /\ TurnOf(st) = IF InjectorBoots(st) \cup InjectorEmits(st) # {}
                              THEN InjectorName ELSE NoComponent
<1>1. ASSUME st.current # Nil
      PROVE  TurnOf(st) = NextToMove(st.current) /\ TurnOf(st) \in Strategy
  <2>1. PICK g \in Pending : g = st.current /\ (g.decA = Nil \/ g.decB = Nil)
    BY <1>1, SaneIsMade DEF Open
  <2>2. g # Nil
    BY <1>1, <2>1
  <2>3. (g.decA = Nil => NextToMove(g) = g.a) /\ (g.decA # Nil => NextToMove(g) = g.b)
    BY <2>1, <2>2 DEF NextToMove
  <2>4. NextToMove(g) \in Strategy
    <3>1. g.a \in Strategy /\ g.b \in Strategy
      BY <2>1 DEF Pending
    <3> QED
      BY <2>3, <3>1
  <2>5. TurnOf(st) = NextToMove(st.current)
    BY <1>1 DEF TurnOf
  <2> QED
    BY <2>1, <2>4, <2>5
<1>2. ASSUME st.current = Nil
      PROVE  /\ NextToMove(st.current) = NoStrategy
             /\ TurnOf(st) = IF InjectorBoots(st) \cup InjectorEmits(st) # {}
                             THEN InjectorName ELSE NoComponent
  <2>1. NextToMove(st.current) = NoStrategy
    BY <1>2 DEF NextToMove
  <2> QED
    BY <1>2, <2>1 DEF TurnOf
<1> QED
  BY <1>1, <1>2

-----------------------------------------------------------------------------
\* The payloads of a log, and the sound store after it.
SoundStore(h) == Rebuild(NoBug, Payloads(h))

LEMMA PayloadsOf ==
  ASSUME NEW h \in Seq(Event)
  PROVE  /\ Payloads(h) \in Seq(Payload) /\ Len(Payloads(h)) = Len(h) /\ Len(h) \in Nat
         /\ \A k \in 1..Len(h) : Payloads(h)[k] = h[k].payload
<1>1. Len(h) \in Nat /\ \A k \in 1..Len(h) : h[k] \in Event
  BY LenProperties
<1>2. \A e \in Event : e.payload \in Payload
  BY DEF Event
<1> QED
  BY <1>1, <1>2 DEF Payloads

LEMMA PayloadsAppend ==
  ASSUME NEW h \in Seq(Event), NEW e \in Event
  PROVE  Payloads(Append(h, e)) = Append(Payloads(h), e.payload)
<1>a. /\ Append(h, e) \in Seq(Event) /\ Len(Append(h, e)) = Len(h) + 1
      /\ Append(h, e)[Len(h) + 1] = e
      /\ \A k \in 1..Len(h) : Append(h, e)[k] = h[k]
  BY AppendProperties, LenProperties
<1>1. PICK more \in Seq(Event) : /\ more = Append(h, e) /\ Len(more) = Len(h) + 1
                                 /\ more[Len(h) + 1] = e
                                 /\ \A k \in 1..Len(h) : more[k] = h[k]
  BY <1>a
<1>2. e.payload \in Payload
  BY DEF Event
<1>3. PICK s \in Seq(Payload) : s = Append(Payloads(h), e.payload)
  BY <1>2, PayloadsOf, AppendProperties
<1>4. Len(s) = Len(h) + 1 /\ s[Len(h) + 1] = e.payload
      /\ \A k \in 1..Len(h) : s[k] = h[k].payload
  BY <1>2, <1>3, PayloadsOf, AppendProperties
<1>5. /\ Payloads(more) \in Seq(Payload) /\ Len(Payloads(more)) = Len(h) + 1
      /\ \A k \in 1..(Len(h) + 1) : Payloads(more)[k] = more[k].payload
  BY <1>1, PayloadsOf
<1>6. \A k \in 1..(Len(h) + 1) : Payloads(more)[k] = s[k]
  BY <1>1, <1>4, <1>5, LenProperties
<1>7. Payloads(more) = s
  BY <1>4, <1>5, <1>6, SeqEqual
<1> QED
  BY <1>1, <1>3, <1>7

LEMMA Shown ==
  ASSUME NEW i \in Instance, NEW h \in Seq(Event)
  PROVE  /\ Sane(SoundStore(h)) /\ Open(SoundStore(h).current)
         /\ Sane(StoreOf(i, h))
         /\ Ctl(StoreOf(i, h)) = Ctl(SoundStore(h))
         /\ Speaks(h) = TurnOf(SoundStore(h))
BY PayloadsOf, StoresAgree DEF SoundStore, StoreOf, Speaks

\* The handlers of the players, of the injector and of the tracker.
LEMMA PlayersTakeTurns ==
  ASSUME NEW i \in Instance, NEW h \in Seq(Event), CompOf[i] \in Strategy
  PROVE  /\ HandleMarker(i, h) = {NoPayload}
         /\ HandleEvent(i, h) \subseteq {p \in Payload : p.kind = "GameDecision"} \cup {NoPayload}
         /\ Speaks(h) = CompOf[i] =>
              SoundStore(h).current # Nil /\ NoPayload \notin HandleEvent(i, h)
         /\ Speaks(h) # CompOf[i] => HandleEvent(i, h) = {NoPayload}
<1>0. PICK c \in Strategy : c = CompOf[i]
  OBVIOUS
<1>1. PICK st, su : st = StoreOf(i, h) /\ su = SoundStore(h)
  OBVIOUS
<1>2. /\ Sane(st) /\ Sane(su) /\ Open(su.current) /\ Ctl(st) = Ctl(su)
      /\ Speaks(h) = TurnOf(su)
  BY <1>1, Shown
<1>3. st.current = su.current
  BY <1>2, LooksTheSame
<1>4. c # InjectorName /\ c # TrackerName /\ c # NoComponent /\ c # NoStrategy
  BY DEF Strategy, InjectorName, TrackerName, NoComponent, NoStrategy
<1>5. PICK D : D = PlayerEmits(c, Flaws[i], st)
  OBVIOUS
<1>6. HandleEvent(i, h) = IF D = {} THEN {NoPayload} ELSE D
  BY <1>0, <1>1, <1>4, <1>5 DEF HandleEvent, OrNothing
<1>7. HandleMarker(i, h) = {NoPayload}
  BY <1>0, <1>4 DEF HandleMarker, OrNothing
<1>8. /\ D \subseteq {GameDecision(c, d) : d \in Decision}
      /\ NextToMove(su.current) = c <=> D # {}
  BY <1>2, <1>3, <1>5, PlayerAnswers
<1>9. D \subseteq {p \in Payload : p.kind = "GameDecision"}
  <2>1. \A d \in Decision : GameDecision(c, d) \in Payload /\ GameDecision(c, d).kind = "GameDecision"
    BY DEF GameDecision, Payload
  <2> QED
    BY <1>8, <2>1
<1>10. TurnOf(su) = c <=> NextToMove(su.current) = c
  BY <1>2, <1>4, TurnShown
<1>11. TurnOf(su) = c => su.current # Nil
  BY <1>2, <1>4, TurnShown
<1>12. NoPayload \notin D
  BY <1>9, TournamentAssumption
<1> QED
  BY <1>0, <1>1, <1>2, <1>6, <1>7, <1>8, <1>9, <1>10, <1>11, <1>12

LEMMA InjectorTakesTurns ==
  ASSUME Draw \in [Nat -> Nat], NEW i \in Instance, NEW h \in Seq(Event), CompOf[i] = InjectorName
  PROVE  /\ HandleEvent(i, h) \cup HandleMarker(i, h)
              \subseteq {p \in Payload : p.kind = "NewGame"} \cup {NoPayload}
         /\ HandleMarker(i, h) = OrNothing(InjectorBoots(SoundStore(h)))
         /\ HandleEvent(i, h) = OrNothing(InjectorEmits(SoundStore(h)))
         /\ Speaks(h) = InjectorName =>
              /\ SoundStore(h).current = Nil
              /\ InjectorBoots(SoundStore(h)) \cup InjectorEmits(SoundStore(h)) # {}
         /\ Speaks(h) # InjectorName => HandleEvent(i, h) = {NoPayload}
<1>1. PICK st, su : st = StoreOf(i, h) /\ su = SoundStore(h)
  OBVIOUS
<1>2. /\ Sane(st) /\ Sane(su) /\ Open(su.current) /\ Ctl(st) = Ctl(su)
      /\ Speaks(h) = TurnOf(su)
  BY <1>1, Shown
<1>3. InjectorBoots(st) = InjectorBoots(su) /\ InjectorEmits(st) = InjectorEmits(su)
  BY <1>2, LooksTheSame
<1>4. HandleEvent(i, h) = OrNothing(InjectorEmits(su))
  <2>1. InjectorName # TrackerName
    BY DEF InjectorName, TrackerName
  <2>2. HandleEvent(i, h) = OrNothing(InjectorEmits(st))
    BY <1>1, <2>1 DEF HandleEvent
  <2> QED
    BY <1>3, <2>2
<1>5. HandleMarker(i, h) = OrNothing(InjectorBoots(su))
  BY <1>1, <1>3 DEF HandleMarker
<1>6. InjectorBoots(su) \cup InjectorEmits(su) \subseteq {p \in Payload : p.kind = "NewGame"}
  BY <1>2, InjectorPairs
<1>7. HandleEvent(i, h) \cup HandleMarker(i, h)
        \subseteq {p \in Payload : p.kind = "NewGame"} \cup {NoPayload}
  BY <1>4, <1>5, <1>6 DEF OrNothing
<1>8. InjectorName \notin Strategy /\ InjectorName # NoComponent
  BY DEF InjectorName, Strategy, NoComponent
<1>9. TurnOf(su) = InjectorName =>
        su.current = Nil /\ InjectorBoots(su) \cup InjectorEmits(su) # {}
  BY <1>2, <1>8, TurnShown
<1>10. TurnOf(su) # InjectorName => InjectorEmits(su) = {}
  BY <1>2, TurnShown, InjectorPairs
<1>11. TurnOf(su) # InjectorName => HandleEvent(i, h) = {NoPayload}
  BY <1>4, <1>10 DEF OrNothing
<1> QED
  BY <1>1, <1>2, <1>4, <1>5, <1>7, <1>9, <1>11

LEMMA TrackerIsSilent ==
  ASSUME NEW i \in Instance, NEW h \in Seq(Event), CompOf[i] = TrackerName
  PROVE  /\ HandleEvent(i, h) = {NoPayload} /\ HandleMarker(i, h) = {NoPayload}
         /\ Speaks(h) # TrackerName
<1>1. TrackerName # InjectorName /\ TrackerName \notin Strategy /\ TrackerName # NoComponent
  BY DEF TrackerName, InjectorName, Strategy, NoComponent
<1>2. HandleEvent(i, h) = {NoPayload} /\ HandleMarker(i, h) = {NoPayload}
  BY <1>1 DEF HandleEvent, HandleMarker, OrNothing
<1>3. Speaks(h) # TrackerName
  <2>1. PICK su : su = SoundStore(h) /\ Sane(su) /\ Open(su.current) /\ Speaks(h) = TurnOf(su)
    BY Shown
  <2> QED
    BY <1>1, <2>1, TurnShown
<1> QED
  BY <1>2, <1>3

-----------------------------------------------------------------------------
\* A log that has grown by allowed answers never makes a store panic.
LEMMA SteersOn ==
  ASSUME NEW c, ~c.panicked, NEW seq, NEW v,
         \/ v.kind = "NewGame" /\ c.current = Nil
         \/ v.kind = "GameDecision" /\ c.current # Nil
  PROVE  ~Steer(c, seq, v).panicked /\ Steer(c, seq, v).applied = seq
<1> DEFINE to == Steer(c, seq, v)
<1>1. CASE v.kind = "NewGame" /\ c.current = Nil
  <2>1. to = Control(Game(v.id, seq, v.a, v.b), c.games, v.id + 1, seq, FALSE)
    BY <1>1 DEF Steer
  <2> QED
    BY <2>1 DEF Control
<1>2. CASE v.kind = "GameDecision" /\ c.current # Nil
  <2>0. PICK game : game = Decided(c.current, v)
    OBVIOUS
  <2>1. \/ to = Control(game, c.games, c.next, seq, FALSE)
        \/ to = Control(Nil, c.games + 1, c.next, seq, FALSE)
    BY <1>2, <2>0 DEF Steer
  <2> QED
    BY <2>1 DEF Control
<1> QED
  BY <1>1, <1>2

LEMMA ComponentOf ==
  ASSUME NEW i \in Instance
  PROVE  CompOf[i] = InjectorName \/ CompOf[i] = TrackerName \/ CompOf[i] \in Strategy
BY TournamentAssumption DEF Component

LEMMA AllowedSteers ==
  ASSUME Draw \in [Nat -> Nat], NEW h \in Seq(Event), NEW e \in Event,
         ~SoundStore(h).panicked, e \in Allowed(h)
  PROVE  ~SoundStore(Append(h, e)).panicked /\ SoundStore(Append(h, e)).appliedSeq >= 0
<1>1. PICK i \in Instance : CompOf[i] = Speaks(h) /\
        \E p \in (HandleEvent(i, h) \cup HandleMarker(i, h)) \ {NoPayload} :
          e = [comp |-> CompOf[i], sender |-> i, slot |-> Spoken(h, CompOf[i]), payload |-> p]
  BY Zenon DEF Allowed
<1>2. PICK p \in HandleEvent(i, h) \cup HandleMarker(i, h) : p # NoPayload /\ e.payload = p
  BY <1>1
<1>3. PICK su, n : /\ su = SoundStore(h) /\ Sane(su) /\ ~su.panicked
                   /\ n = Len(h) /\ n \in Nat
  BY Shown, <1>1, LenProperties
<1>4. /\ p \in Payload
      /\ \/ p.kind = "NewGame" /\ su.current = Nil
         \/ p.kind = "GameDecision" /\ su.current # Nil
  <2>1. CASE CompOf[i] \in Strategy
    BY <1>1, <1>2, <1>3, <2>1, PlayersTakeTurns
  <2>2. CASE CompOf[i] = InjectorName
    BY <1>1, <1>2, <1>3, <2>2, InjectorTakesTurns
  <2>3. CASE CompOf[i] = TrackerName
    BY <1>1, <2>3, TrackerIsSilent
  <2> QED
    BY <2>1, <2>2, <2>3, ComponentOf
<1>5. PICK sv : sv = SoundStore(Append(h, e)) /\ sv = ApplyEvent(NoBug, su, n, p)
  <2>1. Payloads(h) \in Seq(Payload) /\ Len(Payloads(h)) = n
    BY <1>3, PayloadsOf
  <2>2. Rebuild(NoBug, Append(Payloads(h), p)) = ApplyEvent(NoBug, Rebuild(NoBug, Payloads(h)), n, p)
    BY <1>4, <2>1, RebuildStep
  <2> QED
    BY <1>2, <1>3, <2>2, PayloadsAppend DEF SoundStore
<1>6. Sane(sv) /\ Ctl(sv) = Steer(Ctl(su), n, p)
  BY <1>3, <1>4, <1>5, EventSteers
<1>7. Ctl(su).current = su.current /\ Ctl(su).panicked = su.panicked
      /\ Ctl(sv).panicked = sv.panicked /\ Ctl(sv).applied = sv.appliedSeq
  BY DEF Ctl
<1>8. ~Steer(Ctl(su), n, p).panicked /\ Steer(Ctl(su), n, p).applied = n
  BY <1>3, <1>4, <1>7, SteersOn
<1> QED
  BY <1>3, <1>5, <1>6, <1>7, <1>8

LEMMA LegalGrows ==
  ASSUME NEW h \in Seq(Event), NEW e \in Event, Legal(Append(h, e))
  PROVE  Legal(h) /\ e \in Allowed(h)
<1> DEFINE more == Append(h, e)
<1>1. Len(h) \in Nat /\ Len(more) = Len(h) + 1 /\ more[Len(h) + 1] = e
  BY AppendProperties, LenProperties
<1>2. \A k \in 1..Len(h) : more[k] = h[k] /\ SubSeq(more, 1, k - 1) = SubSeq(h, 1, k - 1)
  OBVIOUS
<1>3. SubSeq(more, 1, Len(h)) = h
  OBVIOUS
<1>4. ASSUME NEW k \in 1..Len(h) PROVE h[k] \in Allowed(SubSeq(h, 1, k - 1))
  <2>1. k \in 1..Len(more)
    BY <1>1
  <2>2. more[k] \in Allowed(SubSeq(more, 1, k - 1))
    BY <2>1 DEF Legal
  <2> QED
    BY <1>2, <2>2
<1>5. e \in Allowed(h)
  <2>1. Len(h) + 1 \in 1..Len(more) /\ (Len(h) + 1) - 1 = Len(h)
    BY <1>1
  <2>2. more[Len(h) + 1] \in Allowed(SubSeq(more, 1, (Len(h) + 1) - 1))
    BY <2>1 DEF Legal
  <2> QED
    BY <1>1, <1>3, <2>1, <2>2
<1> QED
  BY <1>4, <1>5 DEF Legal

LEMMA LegalIsAwake ==
  ASSUME Draw \in [Nat -> Nat], NEW h \in Seq(Event), Legal(h)
  PROVE  ~SoundStore(h).panicked /\ (h # <<>> => SoundStore(h).appliedSeq >= 0)
<1> DEFINE Awake(g) == ~SoundStore(g).panicked /\ (g # <<>> => SoundStore(g).appliedSeq >= 0)
           S == {g \in Seq(Event) : Legal(g) => Awake(g)}
<1>1. <<>> \in S
  <2>1. <<>> \in Seq(Event)
    BY EmptySeq
  <2>2. Payloads(<<>>) = <<>>
    BY <2>1, PayloadsOf, EmptySeq, LenProperties
  <2>3. SoundStore(<<>>) = EmptyStore
    BY <2>2, RebuildNothing DEF SoundStore
  <2>4. ~EmptyStore.panicked
    BY DEF EmptyStore
  <2> QED
    BY <2>1, <2>3, <2>4
<1>2. ASSUME NEW g \in Seq(Event), NEW e \in Event, g \in S PROVE Append(g, e) \in S
  <2>1. Append(g, e) \in Seq(Event)
    BY AppendProperties
  <2> SUFFICES ASSUME Legal(Append(g, e)) PROVE Awake(Append(g, e))
    BY <2>1
  <2>2. Legal(g) /\ e \in Allowed(g)
    BY LegalGrows
  <2>3. ~SoundStore(g).panicked
    BY <1>2, <2>2
  <2> QED
    BY <2>2, <2>3, AllowedSteers
<1> HIDE DEF S
<1>3. h \in S
  BY <1>1, <1>2, SeqInduction
<1> QED
  BY <1>3 DEF S

-----------------------------------------------------------------------------
(* The handlers of the tournament keep the discipline the theorems about    *)
(* the platform ask for: at every log that can come about, whatever the     *)
(* number of games, the draws, the strategies in play and the defects of    *)
(* the instances, exactly the component whose turn it is answers, and only  *)
(* an empty stream is bootstrapped (ShouldRespond, the two HandleEvents,    *)
(* GameStore.ApplyEvent).                                                   *)
THEOREM HandlersKeepDiscipline ==
  ASSUME Draw \in [Nat -> Nat]
  PROVE  OneSpeaker /\ EveryoneAnswers
<1>1. ASSUME NEW i \in Instance, NEW h \in Seq(Event)
      PROVE  /\ HandleEvent(i, h) \subseteq Payload \cup {NoPayload}
             /\ HandleMarker(i, h) \subseteq Payload \cup {NoPayload}
  <2>1. CASE CompOf[i] \in Strategy
    BY <2>1, PlayersTakeTurns
  <2>2. CASE CompOf[i] = InjectorName
    BY <2>2, InjectorTakesTurns
  <2>3. CASE CompOf[i] = TrackerName
    BY <2>3, TrackerIsSilent
  <2> QED
    BY <2>1, <2>2, <2>3, ComponentOf
<1>2. ASSUME NEW i \in Instance, NEW h \in Seq(Event), Legal(h)
      PROVE  TakesTurns(i, h) /\ Answers(i, h)
  <2>1. PICK su : /\ su = SoundStore(h) /\ Sane(su) /\ Open(su.current) /\ Speaks(h) = TurnOf(su)
                  /\ (h # <<>> => su.appliedSeq >= 0)
    BY <1>2, Shown, LegalIsAwake
  <2>2. h # <<>> => InjectorBoots(su) = {}
    BY <2>1, InjectorPairs
  <2>3. ASSUME h = <<>>
        PROVE  Speaks(h) = InjectorName /\ InjectorBoots(su) # {} /\ su.current = Nil
    <3>1. Payloads(h) = <<>>
      BY <2>3, PayloadsOf, EmptySeq, LenProperties
    <3>2. su = EmptyStore
      BY <2>1, <3>1, RebuildNothing DEF SoundStore
    <3>3. su.current = Nil /\ su.appliedSeq = -1
      BY <3>2 DEF EmptyStore
    <3>4. InjectorBoots(su) # {}
      BY <3>3 DEF InjectorBoots
    <3> QED
      BY <2>1, <3>3, <3>4, TurnShown
  <2>4. CASE CompOf[i] \in Strategy
    <3>1. InjectorName \notin Strategy
      BY DEF InjectorName, Strategy
    <3>2. CompOf[i] # InjectorName
      BY <2>4, <3>1
    <3> QED
      BY <2>3, <2>4, <3>2, PlayersTakeTurns DEF TakesTurns, Answers
  <2>5. CASE CompOf[i] = InjectorName
    <3>1. /\ HandleMarker(i, h) = OrNothing(InjectorBoots(su))
          /\ HandleEvent(i, h) = OrNothing(InjectorEmits(su))
          /\ Speaks(h) = InjectorName => InjectorBoots(su) \cup InjectorEmits(su) # {}
          /\ Speaks(h) # InjectorName => HandleEvent(i, h) = {NoPayload}
      BY <2>1, <2>5, InjectorTakesTurns
    <3>2. InjectorBoots(su) \cup InjectorEmits(su) \subseteq Payload
      BY <2>1, InjectorPairs
    <3>3. NoPayload \notin InjectorBoots(su) /\ NoPayload \notin InjectorEmits(su)
      BY <3>2, TournamentAssumption
    <3>4. TakesTurns(i, h)
      BY <2>2, <2>3, <2>5, <3>1 DEF TakesTurns, OrNothing
    <3>5. Answers(i, h)
      BY <2>2, <2>3, <2>5, <3>1, <3>3 DEF Answers, OrNothing
    <3> QED
      BY <3>4, <3>5
  <2>6. CASE CompOf[i] = TrackerName
    BY <2>6, TrackerIsSilent DEF TakesTurns, Answers
  <2> QED
    BY <2>4, <2>5, <2>6, ComponentOf
<1> QED
  BY <1>1, <1>2 DEF OneSpeaker, EveryoneAnswers

\* What is proved about the platform, for these handlers.
TP == INSTANCE PlatformProofs WITH Reply <- HandleEvent, Boot <- HandleMarker, Valid <- Validate

LEMMA SameSequencer == SequencerStep \/ SeqExit <=> TP!SequencerStep \/ TP!SeqExit
<1>1. SeqJoin <=> TP!SeqJoin
  BY DEF SeqJoin, TP!SeqJoin, Selecting, TP!Selecting, Replayed, TP!Replayed, seqVars,
      TP!seqVars, loopVars, TP!loopVars
<1>2. SeqLeave <=> TP!SeqLeave
  BY DEF SeqLeave, TP!SeqLeave, Selecting, TP!Selecting, loopVars, TP!loopVars
<1>3. SeqAdmit <=> TP!SeqAdmit
  BY DEF SeqAdmit, TP!SeqAdmit, Selecting, TP!Selecting, Admissible, TP!Admissible, loopVars,
      TP!loopVars
<1>4. SeqReject <=> TP!SeqReject
  BY DEF SeqReject, TP!SeqReject, Selecting, TP!Selecting, Admissible, TP!Admissible, seqVars,
      TP!seqVars, loopVars, TP!loopVars
<1>5. SeqSequence <=> TP!SeqSequence
  BY DEF SeqSequence, TP!SeqSequence, FannedOut, TP!FannedOut
<1>6. SeqExit <=> TP!SeqExit
  BY DEF SeqExit, TP!SeqExit, loopVars, TP!loopVars
<1> QED
  BY <1>1, <1>2, <1>3, <1>4, <1>5, <1>6 DEF SequencerStep, TP!SequencerStep

LEMMA SameReplica ==
  ASSUME NEW i \in Instance
  PROVE  Start(i) \/ Read(i) \/ Stop(i) <=> TP!Start(i) \/ TP!Read(i) \/ TP!Stop(i)
<1>1. Start(i) <=> TP!Start(i)
  BY DEF Start, TP!Start, seqVars, TP!seqVars
<1>2. ReadMarker(i) <=> TP!ReadMarker(i)
  BY DEF ReadMarker, TP!ReadMarker, Emit, TP!Emit, seqVars, TP!seqVars
<1>3. ReadDivergent(i) <=> TP!ReadDivergent(i)
  BY DEF ReadDivergent, TP!ReadDivergent, Disagrees, TP!Disagrees, NextSlot, TP!NextSlot,
      Settled, TP!Settled, Leave, TP!Leave, seqVars, TP!seqVars
<1>4. ReadInvalid(i) <=> TP!ReadInvalid(i)
  BY DEF ReadInvalid, TP!ReadInvalid, Disagrees, TP!Disagrees, Refused, TP!Refused, NextSlot,
      TP!NextSlot, Settled, TP!Settled, Leave, TP!Leave, seqVars, TP!seqVars
<1>5. ReadEvent(i) <=> TP!ReadEvent(i)
  BY DEF ReadEvent, TP!ReadEvent, Disagrees, TP!Disagrees, Refused, TP!Refused, NextSlot,
      TP!NextSlot, Settled, TP!Settled, Emit, TP!Emit, seqVars, TP!seqVars
<1>6. Stop(i) <=> TP!Stop(i)
  BY DEF Stop, TP!Stop, Leave, TP!Leave, seqVars, TP!seqVars
<1> QED
  BY <1>1, <1>2, <1>3, <1>4, <1>5, <1>6 DEF Read, TP!Read

LEMMA SpecIsPlatforms == Spec => TP!Spec
<1>1. Init => TP!Init
  BY DEF Init, TP!Init
<1>2. Next <=> TP!Next
  BY SameSequencer, SameReplica DEF Next, TP!Next
<1>3. UNCHANGED vars <=> UNCHANGED TP!vars
  BY DEF vars, TP!vars
<1>4. [Next]_vars => [TP!Next]_(TP!vars)
  BY <1>2, <1>3
<1> QED
  BY <1>1, <1>4, PTL DEF Spec, TP!Spec

LEMMA PlatformAssumptionHolds == TP!PlatformAssumption
BY TournamentAssumption DEF TP!PlatformAssumption, TP!Event, Event

LEMMA DisciplineHolds ==
  ASSUME Draw \in [Nat -> Nat]
  PROVE  TP!OneSpeaker /\ TP!EveryoneAnswers
<1>1. OneSpeaker => TP!OneSpeaker
  BY DEF OneSpeaker, TP!OneSpeaker, TP!TakesTurns, TakesTurns, Legal, TP!Legal, TP!Allowed,
         Allowed, TP!Spoken, Spoken, TP!Event, Event, Cardinality, TP!Cardinality
<1>2. EveryoneAnswers => TP!EveryoneAnswers
  BY DEF EveryoneAnswers, TP!EveryoneAnswers, TP!Answers, Answers, Legal, TP!Legal, TP!Allowed,
         Allowed, TP!Spoken, Spoken, TP!Event, Event, Cardinality, TP!Cardinality
<1> QED
  BY <1>1, <1>2, HandlersKeepDiscipline

(* The discipline, at every log the session comes to, and that no store     *)
(* panics on it.                                                            *)
THEOREM DisciplineIsKept ==
  ASSUME Draw \in [Nat -> Nat]
  PROVE  Spec => []HandlersTakeTurns
<1>1. TP!Readers /\ TP!Turns => HandlersTakeTurns
  <2> SUFFICES ASSUME TP!Readers, TP!Turns PROVE HandlersTakeTurns
    OBVIOUS
  <2>1. log \in Seq(Event)
    BY DEF TP!Readers, TP!Data, TP!Event, Event
  <2>2. Legal(log)
    BY DEF TP!Turns, TP!Legal, Legal, TP!Allowed, Allowed, TP!Spoken, Spoken, Cardinality,
           TP!Cardinality
  <2>3. ~SoundStore(log).panicked
    BY <2>1, <2>2, LegalIsAwake
  <2>4. ASSUME NEW i \in Instance
        PROVE  TakesTurns(i, log) /\ Answers(i, log) /\ ~StoreOf(i, log).panicked
    <3>1. TakesTurns(i, log) /\ Answers(i, log)
      BY <2>1, <2>2, HandlersKeepDiscipline DEF OneSpeaker, EveryoneAnswers
    <3>2. StoreOf(i, log).panicked = SoundStore(log).panicked
      BY <2>1, Shown, LooksTheSame
    <3> QED
      BY <2>3, <3>1, <3>2
  <2> QED
    BY <2>4 DEF HandlersTakeTurns
<1>2. TP!OneSpeaker
  BY DisciplineHolds
<1>3. TP!Spec => [](TP!Readers /\ TP!Turns)
  BY <1>2, PlatformAssumptionHolds, TP!TurnsHold
<1> QED
  BY <1>1, <1>3, SpecIsPlatforms, PTL

(* What running every component more than once must not change, for the     *)
(* tournament's own handlers: every reader reads the log, each event once   *)
(* and in order, the slots of a component are consecutive, no emission is   *)
(* ahead of the log or sent twice, the author of a component's latest event *)
(* stays, and the stream stalls only where nobody is left to answer.        *)
THEOREM TournamentKeepsPromises ==
  ASSUME Draw \in [Nat -> Nat]
  PROVE  Spec => [](/\ ExactlyOnceInOrder /\ SlotsConsecutive /\ NoGaps
                    /\ SendNeverPanics /\ WinnerSurvives /\ StallsOnlyUnserved)
<1>0. TP!OneSpeaker /\ TP!EveryoneAnswers
  BY DisciplineHolds
<1>1. TP!Spec => [](TP!Readers /\ TP!Turns)
  BY <1>0, PlatformAssumptionHolds, TP!TurnsHold
<1>2. TP!Spec => []TP!SlotsConsecutive
  BY <1>0, PlatformAssumptionHolds, TP!SlotsInOrder
<1>3. TP!Spec => []TP!NoGaps
  BY <1>0, PlatformAssumptionHolds, TP!GapsAreUnreachable
<1>4. TP!Spec => []TP!StallsOnlyUnserved
  BY <1>0, PlatformAssumptionHolds, TP!NothingIsSwallowed
<1>5. TP!Readers => ExactlyOnceInOrder
  BY DEF TP!Readers, TP!ExactlyOnceInOrder, ExactlyOnceInOrder, TP!Feed, Feed, TP!LiveFeed, LiveFeed,
         TP!MarkedFeed, MarkedFeed
<1>6. TP!SlotsConsecutive => SlotsConsecutive
  BY DEF TP!SlotsConsecutive, SlotsConsecutive, TP!Spoken, Spoken, TP!Cardinality, Cardinality
<1>7. TP!NoGaps => NoGaps
  BY DEF TP!NoGaps, NoGaps
<1>8. TP!Turns => SendNeverPanics /\ WinnerSurvives
  BY DEF TP!Turns, TP!SendNeverPanics, SendNeverPanics, TP!WinnerSurvives, WinnerSurvives
<1>9. TP!StallsOnlyUnserved => StallsOnlyUnserved
  BY DEF TP!StallsOnlyUnserved, StallsOnlyUnserved, TP!Quiet, Quiet, TP!InService, InService
<1> QED
  BY <1>1, <1>2, <1>3, <1>4, <1>5, <1>6, <1>7, <1>8, <1>9, SpecIsPlatforms, PTL

-----------------------------------------------------------------------------
\* What a sound instance may say is what the solo tournament may say.
SoundPlayers == \A i \in Instance : CompOf[i] \in Strategy => Flaws[i] = {} /\ BugFrom[i] = NoBug

LEMMA AllowedIsSolo ==
  ASSUME Draw \in [Nat -> Nat], SoundPlayers, NEW h \in Seq(Event), NEW e \in Allowed(h)
  PROVE  e.payload \in SoloNext(Payloads(h))
<1>1. PICK i \in Instance : CompOf[i] = Speaks(h) /\
        \E p \in (HandleEvent(i, h) \cup HandleMarker(i, h)) \ {NoPayload} :
          e = [comp |-> CompOf[i], sender |-> i, slot |-> Spoken(h, CompOf[i]), payload |-> p]
  BY Zenon DEF Allowed
<1>2. PICK p \in HandleEvent(i, h) \cup HandleMarker(i, h) : p # NoPayload /\ e.payload = p
  BY <1>1
<1>3. PICK su : su = SoundStore(h)
  OBVIOUS
<1>4. SoloNext(Payloads(h)) = InjectorBoots(su) \cup InjectorEmits(su)
                                \cup UNION {PlayerEmits(s, {}, su) : s \in Strategy}
  BY <1>3, Zenon DEF SoloNext, SoundStore
<1>5. CASE CompOf[i] \in Strategy
  <2>1. PICK s \in Strategy : s = CompOf[i]
    BY <1>5
  <2>2. s # InjectorName /\ s # TrackerName
    BY DEF Strategy, InjectorName, TrackerName
  <2>3. StoreOf(i, h) = su /\ Flaws[i] = {}
    BY <1>3, <1>5 DEF SoundPlayers, StoreOf, SoundStore
  <2>4. HandleEvent(i, h) = OrNothing(PlayerEmits(s, {}, su))
    BY <2>1, <2>2, <2>3 DEF HandleEvent
  <2>5. HandleMarker(i, h) = {NoPayload}
    BY <1>5, PlayersTakeTurns
  <2>6. p \in PlayerEmits(s, {}, su)
    BY <1>2, <2>4, <2>5 DEF OrNothing
  <2> QED
    BY <1>2, <1>4, <2>6
<1>6. CASE CompOf[i] = InjectorName
  <2>1. /\ HandleMarker(i, h) = OrNothing(InjectorBoots(su))
        /\ HandleEvent(i, h) = OrNothing(InjectorEmits(su))
    BY <1>3, <1>6, InjectorTakesTurns
  <2>2. p \in InjectorBoots(su) \cup InjectorEmits(su)
    BY <1>2, <2>1 DEF OrNothing
  <2> QED
    BY <1>2, <1>4, <2>2
<1>7. CASE CompOf[i] = TrackerName
  BY <1>2, <1>7, TrackerIsSilent
<1> QED
  BY <1>5, <1>6, <1>7, ComponentOf

(* With sound players, any number of instances of each, failing, late or    *)
(* restarted, write a log that one instance of each could have written;     *)
(* what is wrong with the store of an injector or a tracker does not show   *)
(* (README's invariant 1; sequencer.go, strategy.go, game_injector.go).     *)
THEOREM TeamsAreSolo ==
  ASSUME Draw \in [Nat -> Nat], SoundPlayers
  PROVE  Spec => ImplementsSolo
<1>0. TP!OneSpeaker /\ TP!EveryoneAnswers
  BY DisciplineHolds
<1>1. TP!Spec => TP!ImplementsTurnLog
  BY <1>0, PlatformAssumptionHolds, TP!RefinesTurnLog
<1>2. TP!Spec => [](TP!Readers /\ TP!Turns)
  BY <1>0, PlatformAssumptionHolds, TP!TurnsHold
<1>3. Init => Solo!Init
  <2> SUFFICES ASSUME Init PROVE Solo!Init
    OBVIOUS
  <2>1. log = <<>>
    BY DEF Init
  <2>2. Payloads(log) = <<>>
    <3>1. log \in Seq(Event)
      BY <2>1, EmptySeq
    <3> QED
      BY <2>1, <3>1, PayloadsOf, EmptySeq, LenProperties
  <2> QED
    BY <2>2 DEF Solo!Init
<1>4. TP!Readers /\ TP!Readers' /\ [TP!TL!Extend]_log => [Solo!Extend]_(Payloads(log))
  <2> SUFFICES ASSUME TP!Readers, TP!Readers', [TP!TL!Extend]_log
               PROVE  [Solo!Extend]_(Payloads(log))
    OBVIOUS
  <2>1. log \in Seq(Event) /\ log' \in Seq(Event)
    BY DEF TP!Readers, TP!Data, TP!Event, Event
  <2>2. CASE UNCHANGED log
    BY <2>2 DEF Payloads
  <2>3. CASE TP!TL!Extend
    <3>1. PICK e \in TP!Allowed(log) : log' = Append(log, e)
      BY <2>3 DEF TP!TL!Extend
    <3>2. e \in Allowed(log)
      BY <3>1 DEF TP!Allowed, Allowed, TP!Spoken, Spoken, TP!Cardinality, Cardinality
    <3>3. e \in Event
      <4>1. PICK more \in Seq(Event), n \in Nat : more = log' /\ n = Len(log) + 1
        BY <2>1, LenProperties
      <4>2. n \in 1..Len(more) /\ more[n] = e
        BY <2>1, <3>1, <4>1, AppendProperties, LenProperties
      <4>3. \A k \in 1..Len(more) : more[k] \in Event
        BY <4>1, LenProperties
      <4> QED
        BY <4>2, <4>3
    <3>4. Payloads(log') = Append(Payloads(log), e.payload)
      BY <2>1, <3>1, <3>3, PayloadsAppend
    <3>5. e.payload \in SoloNext(Payloads(log))
      BY <2>1, <3>2, AllowedIsSolo
    <3> QED
      BY <3>4, <3>5 DEF Solo!Extend
  <2> QED
    BY <2>2, <2>3
<1>5. TP!Spec => TP!TL!Init /\ [][TP!TL!Extend]_log
  BY <1>1, PTL DEF TP!ImplementsTurnLog, TP!TL!Spec
<1>6. [](TP!Readers /\ TP!Turns) /\ [][TP!TL!Extend]_log => [][Solo!Extend]_(Payloads(log))
  BY <1>4, PTL
<1>7. Spec => Solo!Init /\ [][Solo!Extend]_(Payloads(log))
  BY <1>2, <1>3, <1>5, <1>6, SpecIsPlatforms, PTL DEF Spec
<1> QED
  BY <1>7 DEF ImplementsSolo, Solo!Spec

-----------------------------------------------------------------------------
\* The state of an instance that is replaying has been accepted.
Accepted ==
  \A i \in Instance :
    replaying[i] /\ status[i] \in {"new", "running"} => Validate(i, hist[i])
Loops == DOMAIN status = Instance /\ DOMAIN replaying = Instance /\ DOMAIN hist = Instance

LEMMA NothingIsAccepted ==
  ASSUME NEW i \in Instance
  PROVE  Validate(i, <<>>)
<1>1. Payloads(<<>>) = <<>> /\ Len(<<>>) = 0
  <2>1. <<>> \in Seq(Event)
    BY EmptySeq
  <2> QED
    BY <2>1, PayloadsOf, EmptySeq, LenProperties
<1>2. StoreOf(i, <<>>) = EmptyStore
  BY <1>1, RebuildNothing DEF StoreOf
<1>3. EmptyStore.chain = <<>>
  BY DEF EmptyStore
<1>4. SubSeq(CanonicalChain, 1, 0) = <<>>
  BY SubSeqEmpty
<1> QED
  BY <1>1, <1>2, <1>3, <1>4 DEF Validate, MatchesReference

LEMMA AcceptedStep == Loops /\ Accepted /\ [Next]_vars => Accepted'
<1> SUFFICES ASSUME Loops, Accepted, [Next]_vars,
                    NEW i \in Instance, replaying'[i], status'[i] \in {"new", "running"}
             PROVE  Validate(i, hist'[i])
  BY DEF Accepted, Validate
<1>1. replaying[i] /\ status[i] \in {"new", "running"} => Validate(i, hist[i])
  BY DEF Accepted
<1>2. ASSUME UNCHANGED <<status, replaying, hist>> PROVE Validate(i, hist'[i])
  BY <1>1, <1>2
<1>3. CASE SequencerStep \/ SeqExit \/ UNCHANGED vars
  BY <1>2, <1>3 DEF SequencerStep, SeqJoin, SeqLeave, SeqAdmit, SeqReject, SeqSequence, SeqExit,
                    loopVars, vars
<1>4. ASSUME NEW j \in Instance, Start(j) \/ Stop(j) PROVE Validate(i, hist'[i])
  <2>1. hist' = hist /\ replaying' = replaying
    BY <1>4 DEF Start, Stop
  <2>2. status[i] \in {"new", "running"}
    BY <1>4 DEF Start, Stop, Leave, Loops
  <2> QED
    BY <1>1, <2>1, <2>2
<1>5. ASSUME NEW j \in Instance, ReadMarker(j) PROVE Validate(i, hist'[i])
  <2>1. hist' = hist
    BY <1>5 DEF ReadMarker
  <2>2. replaying[i]
    BY <1>5 DEF ReadMarker, Loops
  <2>3. status[i] \in {"new", "running"}
    BY <1>5 DEF ReadMarker, Emit, Loops
  <2> QED
    BY <1>1, <2>1, <2>2, <2>3
<1>6. ASSUME NEW j \in Instance, ReadDivergent(j) \/ ReadInvalid(j) PROVE Validate(i, hist'[i])
  <2>1. replaying' = replaying /\ status' = [status EXCEPT ![j] = "quarantined"]
    BY <1>6 DEF ReadDivergent, ReadInvalid, Leave
  <2>2. i # j
    BY <2>1 DEF Loops
  <2>3. hist'[i] = hist[i] /\ status'[i] = status[i]
    BY <1>6, <2>1, <2>2 DEF ReadDivergent, ReadInvalid, Loops
  <2> QED
    BY <1>1, <2>1, <2>3
<1>7. ASSUME NEW j \in Instance, ReadEvent(j) PROVE Validate(i, hist'[i])
  <2>1. PICK h : /\ hist' = [hist EXCEPT ![j] = h] /\ replaying' = replaying
                 /\ ~Refused(j, h) /\ status[j] = "running"
    BY <1>7 DEF ReadEvent
  <2>2. status[i] \in {"new", "running"}
    BY <1>7, <2>1 DEF ReadEvent, Emit, Loops
  <2>3. CASE i = j
    BY <2>1, <2>3 DEF Refused, Loops
  <2>4. CASE i # j
    BY <1>1, <2>1, <2>2, <2>4 DEF Loops
  <2> QED
    BY <2>3, <2>4
<1> QED
  BY <1>3, <1>4, <1>5, <1>6, <1>7 DEF Next, Read

(* Admission control: whatever the log and the defects of an instance, it   *)
(* turns live, and answers an event it replays, only with a state that      *)
(* agrees with the canonical chain as far as that goes (eventloop.go Run,   *)
(* validateState, golden.Validator).                                        *)
THEOREM AdmittedIsCanonical ==
  ASSUME Draw \in [Nat -> Nat]
  PROVE  Spec => LiveOnlyIfCanonical
<1>0. TP!OneSpeaker
  BY DisciplineHolds
<1>1. TP!Spec => [](TP!Readers /\ TP!Turns)
  BY <1>0, PlatformAssumptionHolds, TP!TurnsHold
<1>2. TP!Readers => Loops
  BY DEF TP!Readers, TP!Data, Loops
<1>3. Init => Accepted
  BY NothingIsAccepted DEF Init, Accepted
<1>4. Loops /\ Accepted /\ [Next]_vars
        => [\A i \in Instance :
              replaying[i] /\ (TurnsLive(i) \/ AnswersAnEvent(i)) => Validate(i, hist'[i])]_vars
  <2> SUFFICES ASSUME Loops, Accepted, Next,
                      NEW i \in Instance, replaying[i], TurnsLive(i) \/ AnswersAnEvent(i)
               PROVE  Validate(i, hist'[i])
    BY DEF vars
  <2>1. CASE TurnsLive(i)
    <3>1. PICK j \in Instance : ReadMarker(j)
      BY <2>1 DEF TurnsLive, Next, SequencerStep, SeqJoin, SeqLeave, SeqAdmit, SeqReject,
         SeqSequence, SeqExit, loopVars, Start, Stop, Read, ReadDivergent, ReadInvalid, ReadEvent
    <3>2. status[i] = "running" /\ hist' = hist
      BY <2>1, <3>1 DEF TurnsLive, ReadMarker, Loops
    <3> QED
      BY <3>2 DEF Accepted
  <2>2. CASE AnswersAnEvent(i)
    <3>1. PICK j \in Instance : ReadEvent(j)
      BY <2>2 DEF AnswersAnEvent, Next, SequencerStep, SeqJoin, SeqLeave, SeqAdmit, SeqReject,
         SeqSequence, SeqExit, loopVars, Start, Stop, Read, ReadMarker, ReadDivergent, ReadInvalid
    <3>2. PICK h : hist' = [hist EXCEPT ![j] = h] /\ ~Refused(j, h)
      BY <3>1 DEF ReadEvent
    <3>3. i = j
      BY <2>2, <3>2 DEF AnswersAnEvent, Loops
    <3> QED
      BY <3>2, <3>3 DEF Refused, Loops
  <2> QED
    BY <2>1, <2>2
<1> QED
  BY <1>1, <1>2, <1>3, <1>4, AcceptedStep, SpecIsPlatforms, PTL DEF Spec, LiveOnlyIfCanonical

-----------------------------------------------------------------------------
\* What is proved about stores that are fed legally, for the store of a tournament.
SF == INSTANCE StoreFeedProofs
        WITH Players <- Strategy, Bugs <- {NoBug}, Games <- MaxGames,
             sound <- EmptyStore, suspect <- EmptyStore, bug <- NoBug, parted <- FALSE

LEMMA FeedAssumptionHolds == SF!FeedAssumption /\ SF!NilAssumption
BY InjectorAssumption, NilAssumption
   DEF SF!FeedAssumption, SF!NilAssumption, SF!Strategy, Strategy, SF!Decision, Decision

LEMMA SameGame ==
  ASSUME NEW game, NEW v, NEW board, NEW bug, NEW st
  PROVE  /\ SF!Decided(game, v) = Decided(game, v)
         /\ SF!Paid(bug, game) = Paid(bug, game)
         /\ SF!CreditGame(board, game) = CreditGame(board, game)
         /\ SF!Rehash(st) = Rehash(st)
         /\ SF!NextToMove(game) = NextToMove(game)
<1>1. SF!Decided(game, v) = Decided(game, v)
  BY DEF SF!Decided, Decided
<1>2. SF!Paid(bug, game) = Paid(bug, game)
  BY DEF SF!Paid, Paid, SF!Payoff, Payoff, SF!Corruption, Corruption, SF!NoBug, NoBug
<1>3. SF!CreditGame(board, game) = CreditGame(board, game)
  BY DEF SF!CreditGame, CreditGame, SF!Credit, Credit
<1>4. SF!Rehash(st) = Rehash(st)
  BY DEF SF!Rehash, Rehash, SF!Digest, Digest
<1>5. SF!NextToMove(game) = NextToMove(game)
  BY DEF SF!NextToMove, NextToMove, SF!NoStrategy, NoStrategy
<1> QED
  BY <1>1, <1>2, <1>3, <1>4, <1>5

LEMMA SameDecision ==
  ASSUME NEW bug, NEW st, NEW seq, NEW v
  PROVE  SF!ApplyDecision(bug, st, seq, v) = ApplyDecision(bug, st, seq, v)
<1>1. PICK game : game = Decided(st.current, v) /\ game = SF!Decided(st.current, v)
  BY SameGame, Zenon
<1>2. PICK paid : paid = Paid(bug, game) /\ paid = SF!Paid(bug, game)
  BY SameGame, Zenon
<1>3. CASE st.current = Nil
  <2>1. SF!ApplyDecision(bug, st, seq, v) = SF!Panic(st)
    BY <1>3, Zenon DEF SF!ApplyDecision
  <2>2. ApplyDecision(bug, st, seq, v) = Panic(st)
    BY <1>3, Zenon DEF ApplyDecision
  <2>3. SF!Panic(st) = Panic(st)
    BY Zenon DEF SF!Panic, Panic
  <2> QED
    BY <2>1, <2>2, <2>3, Zenon
<1>4. CASE st.current # Nil /\ (game.decA = Nil \/ game.decB = Nil)
  <2>1. SF!ApplyDecision(bug, st, seq, v) = SF!Rehash(DecisionTo(st, seq, game))
    BY <1>1, <1>4, Zenon DEF SF!ApplyDecision, DecisionTo
  <2>2. ApplyDecision(bug, st, seq, v) = Rehash(DecisionTo(st, seq, game))
    BY <1>1, <1>4, Zenon DEF ApplyDecision, DecisionTo
  <2> QED
    BY <2>1, <2>2, SameGame, Zenon
<1>5. CASE st.current # Nil /\ ~(game.decA = Nil \/ game.decB = Nil)
  <2>1. PICK to : to = DecisionTo(st, seq, game)
    OBVIOUS
  <2>2. PICK board : /\ board = CreditGame(to.leaderboard, paid)
                     /\ board = SF!CreditGame(to.leaderboard, paid)
    BY SameGame, Zenon
  <2>3. SF!ApplyDecision(bug, st, seq, v) = SF!Rehash(EndTo(to, board, Append(to.completed, paid)))
    BY <1>1, <1>2, <1>5, <2>1, <2>2, Zenon DEF SF!ApplyDecision, DecisionTo, EndTo
  <2>4. ApplyDecision(bug, st, seq, v) = Rehash(EndTo(to, board, Append(to.completed, paid)))
    BY <1>1, <1>2, <1>5, <2>1, <2>2, Zenon DEF ApplyDecision, DecisionTo, EndTo
  <2> QED
    BY <2>3, <2>4, SameGame, Zenon
<1> QED
  BY <1>3, <1>4, <1>5

LEMMA SameNewGame ==
  ASSUME NEW st, NEW seq, NEW v
  PROVE  SF!ApplyNewGame(st, seq, v) = ApplyNewGame(st, seq, v)
<1>1. PICK g : g = Game(v.id, seq, v.a, v.b) /\ g = SF!Game(v.id, seq, v.a, v.b)
  BY Zenon DEF Game, SF!Game
<1>2. PICK next : next = v.id + 1
  OBVIOUS
<1>3. CASE st.current # Nil
  <2>1. SF!ApplyNewGame(st, seq, v) = SF!Panic(st)
    BY <1>3, Zenon DEF SF!ApplyNewGame
  <2>2. ApplyNewGame(st, seq, v) = Panic(st)
    BY <1>3, Zenon DEF ApplyNewGame
  <2>3. SF!Panic(st) = Panic(st)
    BY Zenon DEF SF!Panic, Panic
  <2> QED
    BY <2>1, <2>2, <2>3, Zenon
<1>4. CASE st.current = Nil
  <2>1. SF!ApplyNewGame(st, seq, v) = SF!Rehash(NewGameTo(st, seq, next, g))
    BY <1>1, <1>2, <1>4, Zenon DEF SF!ApplyNewGame, NewGameTo
  <2>2. ApplyNewGame(st, seq, v) = Rehash(NewGameTo(st, seq, next, g))
    BY <1>1, <1>2, <1>4, Zenon DEF ApplyNewGame, NewGameTo
  <2> QED
    BY <2>1, <2>2, SameGame, Zenon
<1> QED
  BY <1>3, <1>4

LEMMA SameStore ==
  ASSUME NEW bug, NEW st, NEW seq, NEW v
  PROVE  SF!ApplyEvent(bug, st, seq, v) = ApplyEvent(bug, st, seq, v)
BY SameNewGame, SameDecision, Zenon DEF SF!ApplyEvent, ApplyEvent

LEMMA SameBoard ==
  ASSUME NEW st, NEW seq
  PROVE  SF!LeaderBefore(st, seq) = LeaderBefore(st, seq)
BY Zenon DEF SF!LeaderBefore, LeaderBefore, SF!LeaderOf, LeaderOf, SF!NoStrategy, NoStrategy,
       SF!Ahead, Ahead, SF!NamedBefore, NamedBefore, SF!ByName, ByName, SF!CreditGame, CreditGame,
       SF!Credit, Credit, SF!FoldLeft, FoldLeft, SF!MapThenFoldSet, MapThenFoldSet, SF!Max, Max

LEMMA SameLeader ==
  ASSUME NEW st
  PROVE  SF!LeadingStrategy(st) = LeadingStrategy(st)
BY Zenon DEF SF!LeadingStrategy, LeadingStrategy, SF!LeaderOf, LeaderOf, SF!NoStrategy, NoStrategy,
       SF!Ahead, Ahead, SF!NamedBefore, NamedBefore, SF!ByName, ByName

LEMMA SameMoves ==
  ASSUME NEW st, NEW s, NEW seq, NEW g
  PROVE  /\ SF!DecisionOf(g, s) = DecisionOf(g, s)
         /\ SF!LastDecisionBefore(st, s, seq) = LastDecisionBefore(st, s, seq)
         /\ SF!LastCompletedGameFor(st, s) = LastCompletedGameFor(st, s)
<1>1. SF!DecisionOf(g, s) = DecisionOf(g, s)
  BY DEF SF!DecisionOf, DecisionOf
<1>2. SF!LastDecisionBefore(st, s, seq) = LastDecisionBefore(st, s, seq)
  BY Zenon DEF SF!LastDecisionBefore, LastDecisionBefore, SF!DecisionOf, DecisionOf
<1>3. SF!LastCompletedGameFor(st, s) = LastCompletedGameFor(st, s)
  BY Zenon DEF SF!LastCompletedGameFor, LastCompletedGameFor, SF!LastWhere, LastWhere,
      SF!SelectLastInSeq, SelectLastInSeq, SF!Involves, Involves, SF!Max, Max
<1> QED
  BY <1>1, <1>2, <1>3

LEMMA SameCopies ==
  ASSUME NEW st, NEW game
  PROVE  /\ SF!CopyLeaderWatermarked(st, game) = CopyLeaderWatermarked(st, game)
         /\ SF!CopyLeaderNewest(st) = CopyLeaderNewest(st)
<1>0. SF!NoStrategy = NoStrategy
  BY DEF SF!NoStrategy, NoStrategy
<1>1. PICK leader : leader = LeaderBefore(st, game.seq) /\ leader = SF!LeaderBefore(st, game.seq)
  BY SameBoard, Zenon
<1>2. PICK move : /\ move = LastDecisionBefore(st, leader, game.seq)
                  /\ move = SF!LastDecisionBefore(st, leader, game.seq)
  BY SameMoves, Zenon
<1>3. PICK copied : copied = Copied(move) /\ copied = SF!Copied(move)
  BY Zenon DEF Copied, SF!Copied
<1>4. SF!ResolvedBefore(st, game.seq) = ResolvedBefore(st, game.seq)
  BY DEF SF!ResolvedBefore, ResolvedBefore
<1>5. SF!Unknown = Unknown
  BY DEF SF!Unknown, Unknown
<1>6. SF!CopyLeaderWatermarked(st, game) = CopyLeaderWatermarked(st, game)
  BY <1>0, <1>1, <1>2, <1>3, <1>4, <1>5, Zenon DEF SF!CopyLeaderWatermarked, CopyLeaderWatermarked
<1>7. PICK first : first = LeadingStrategy(st) /\ first = SF!LeadingStrategy(st)
  BY SameLeader, Zenon
<1>8. PICK last : last = LastCompletedGameFor(st, first) /\ last = SF!LastCompletedGameFor(st, first)
  BY SameMoves, Zenon
<1>9. SF!DecisionOf(last, first) = DecisionOf(last, first)
  BY SameMoves, Zenon
<1>10. SF!CopyLeaderNewest(st) = CopyLeaderNewest(st)
  BY <1>0, <1>7, <1>8, <1>9, Zenon DEF SF!CopyLeaderNewest, CopyLeaderNewest
<1> QED
  BY <1>6, <1>10

-----------------------------------------------------------------------------
\* A store that has been fed legally.
Calm(st) == \E S : st \in SF!Store(S) /\ SF!Steady(st)

LEMMA CalmIs ==
  ASSUME NEW st, Calm(st)
  PROVE  /\ st.nextGameId \in Nat /\ st.appliedSeq \in Nat \cup {-1}
         /\ st.current # Nil => st.appliedSeq >= 0
         /\ st.current \in SF!InFlight \cup {Nil}
         /\ st.current # Nil => CopyLeaderWatermarked(st, st.current) = CopyLeaderNewest(st)
<1>1. PICK S : st \in SF!Store(S) /\ SF!Steady(st)
  BY Zenon DEF Calm
<1>2. /\ st.nextGameId \in Nat /\ st.appliedSeq \in Nat \cup {-1}
      /\ st.current \in SF!InFlight \cup {Nil}
  BY <1>1, SF!StoreIsMade, FeedAssumptionHolds
<1>3. ASSUME st.current # Nil PROVE st.appliedSeq >= 0
  <2>1. PICK m \in Nat, v \in {0, 1, 2} : st.appliedSeq + 1 = 3 * m + v /\ (st.current = Nil <=> v = 0)
    BY <1>1, SF!PaceIs, FeedAssumptionHolds
  <2>2. PICK q \in Nat \cup {-1} : q = st.appliedSeq
    BY <1>2
  <2> QED
    BY <1>3, <2>1, <2>2
<1>4. ASSUME st.current # Nil PROVE CopyLeaderWatermarked(st, st.current) = CopyLeaderNewest(st)
  <2>1. SF!CopyLeaderWatermarked(st, st.current) = SF!CopyLeaderNewest(st)
    BY <1>1, <1>4, SF!ScopedIsNewest, FeedAssumptionHolds
  <2> QED
    BY <2>1, SameCopies, Zenon
<1> QED
  BY <1>2, <1>3, <1>4

LEMMA NothingIsCalm == Calm(EmptyStore)
<1>1. SF!EmptyStore = EmptyStore
  BY DEF SF!EmptyStore, EmptyStore, SF!NoBug, NoBug
<1>2. SF!Steady(EmptyStore)
  BY <1>1, SF!NothingIsSteady, FeedAssumptionHolds
<1>3. SF!IInv
  BY <1>1, SF!NothingFed, FeedAssumptionHolds DEF SF!Init, SF!NoBug, NoBug
<1>4. \E S : EmptyStore \in SF!Store(S)
  BY <1>3 DEF SF!IInv, SF!Fed
<1> QED
  BY <1>2, <1>4 DEF Calm

LEMMA CalmStep ==
  ASSUME NEW st, Calm(st), NEW p \in SF!NextPayloads(st), NEW bug
  PROVE  LET to == ApplyEvent(bug, st, st.appliedSeq + 1, p)
         IN  /\ Calm(to) /\ to.appliedSeq = st.appliedSeq + 1
             /\ SF!Numbered(st) => SF!Numbered(to)
             /\ \E S, e : st.chain \in Seq(S) /\ e \in S /\ to.chain = Append(st.chain, e)
<1> DEFINE to == ApplyEvent(bug, st, st.appliedSeq + 1, p)
<1>1. PICK S : st \in SF!Store(S) /\ SF!Steady(st)
  BY Zenon DEF Calm
<1>2. to = SF!ApplyEvent(bug, st, st.appliedSeq + 1, p)
  BY SameStore, Zenon
<1> HIDE DEF to
<1>3. SF!Steady(to) /\ to.appliedSeq = st.appliedSeq + 1
  BY <1>1, <1>2, SF!StepIsSteady, FeedAssumptionHolds
<1>4. SF!Follows(S, st, to)
  BY <1>1, <1>2, SF!StepKeeps, FeedAssumptionHolds
<1>5. PICK e : to \in SF!Store(S \cup {e}) /\ to.chain = Append(st.chain, e)
  BY <1>4 DEF SF!Follows
<1>6. st.chain \in Seq(S)
  BY <1>1, SF!StoreIsMade, FeedAssumptionHolds
<1>7. st.chain \in Seq(S \cup {e})
  BY <1>6, SeqMonotonic
<1>8. Calm(to)
  BY <1>3, <1>5, Zenon DEF Calm
<1>9. ASSUME SF!Numbered(st) PROVE SF!Numbered(to)
  BY <1>1, <1>2, <1>9, SF!StepIsNumbered, FeedAssumptionHolds
<1> QED
  BY <1>3, <1>5, <1>7, <1>8, <1>9 DEF to

\* A watermark that is skipped changes no decision.
LEMMA SkippingIsNothing ==
  ASSUME NEW st, Calm(st), Sane(st), NEW s \in Strategy, NEW flaws, NextToMove(st.current) = s
  PROVE  /\ HonestDecision(s, {}, st, st.current) \in Decision
         /\ HonestDecision(s, flaws, st, st.current) = HonestDecision(s, {}, st, st.current)
<1>1. st.current # Nil
  BY DEF NextToMove, Strategy, NoStrategy
<1>2. st.current \in Pending
  BY <1>1, SaneIsMade
<1>3. PICK d \in Decision : d = HonestDecision(s, {}, st, st.current)
  BY <1>2, HonestIsDecision
<1>4. CopyLeaderWatermarked(st, st.current) = CopyLeaderNewest(st)
  BY <1>1, CalmIs
<1>5. HonestDecision(s, flaws, st, st.current) = d
  <2>1. "SkipWatermark" \notin {}
    OBVIOUS
  <2>2. CASE s = "cooperator" \/ s = "flipper" \/ s = "retaliator"
    BY <1>3, <2>2 DEF HonestDecision
  <2>3. CASE s = "copy-leader"
    BY <1>3, <1>4, <2>1, <2>3 DEF HonestDecision
  <2> QED
    BY <2>2, <2>3 DEF Strategy
<1> QED
  BY <1>3, <1>5

\* What a player with nothing wrong with it says.
LEMMA SoundPlayerSays ==
  ASSUME NEW st, Calm(st), Sane(st), NEW s \in Strategy, NEW flaws, flaws \subseteq {"SkipWatermark"}
  PROVE  /\ NextToMove(st.current) = s => HonestDecision(s, {}, st, st.current) \in Decision
         /\ PlayerEmits(s, flaws, st)
              = IF NextToMove(st.current) = s
                THEN {GameDecision(s, HonestDecision(s, {}, st, st.current))} ELSE {}
<1>0. s # NoStrategy
  BY DEF Strategy, NoStrategy
<1>1. CASE NextToMove(st.current) # s
  BY <1>1 DEF PlayerEmits, ShouldRespond
<1>2. CASE NextToMove(st.current) = s
  <2>1. PICK d \in Decision : d = HonestDecision(s, {}, st, st.current)
    BY <1>2, SkippingIsNothing
  <2>2. HonestDecision(s, flaws, st, st.current) = d
    BY <1>2, <2>1, SkippingIsNothing
  <2>3. "WrongDecision" \notin flaws /\ "ImpureClock" \notin flaws
    OBVIOUS
  <2>4. DecideFor(s, flaws, st, st.current) = {d}
    BY <2>2, <2>3 DEF DecideFor
  <2>5. d # Unknown
    BY DEF Decision, Unknown
  <2>6. PlayerEmits(s, flaws, st) = {GameDecision(s, d)}
    BY <1>0, <1>2, <2>4, <2>5 DEF PlayerEmits, ShouldRespond
  <2> QED
    BY <1>2, <2>1, <2>6
<1> QED
  BY <1>1, <1>2

LEMMA PairedApart ==
  ASSUME Draw \in [Nat -> Nat], NEW id \in Nat
  PROVE  \E a, b \in Strategy : a # b /\ NextPairing(id) = NewGame(id, a, b)
<1>1. PICK n \in Nat, d \in Nat : n = Len(AllStrategies) /\ d = Draw[id]
  BY InjectorAssumption, LenProperties
<1>2. n >= 2
  BY <1>1, InjectorAssumption
<1>3. PICK j \in 0..(n - 1) : j = FirstOf(d)
  <2>1. FirstOf(d) = d % n
    BY <1>1 DEF FirstOf
  <2>2. d % n \in 0..(n - 1)
    BY <1>2, Remainder
  <2> QED
    BY <2>1, <2>2
<1>4. PICK k \in 0..(n - 1) : k = SecondOf(d) /\ k # j
  <2>1. PICK b : b = (d \div n) % (n - 1) /\ b \in 0..(n - 2)
    <3>1. d \div n \in Nat /\ n - 1 \in Nat /\ n - 1 > 0 /\ (n - 1) - 1 = n - 2
      BY <1>2, Remainder
    <3> QED
      BY <3>1, Remainder
  <2>2. SecondOf(d) = IF b >= j THEN b + 1 ELSE b
    BY <1>1, <1>3, <2>1 DEF SecondOf
  <2>3. (IF b >= j THEN b + 1 ELSE b) \in 0..(n - 1) /\ (IF b >= j THEN b + 1 ELSE b) # j
    BY <1>2, <1>3, <2>1
  <2> QED
    BY <2>2, <2>3
<1>5. AllStrategies[j + 1] \in Strategy /\ AllStrategies[k + 1] \in Strategy
  <2>1. \A m \in 1..n : AllStrategies[m] \in Strategy
    BY <1>1, InjectorAssumption, LenProperties
  <2>2. j + 1 \in 1..n /\ k + 1 \in 1..n
    BY <1>3, <1>4
  <2> QED
    BY <2>1, <2>2
<1>6. AllStrategies[j + 1] # AllStrategies[k + 1]
  <2>1. j + 1 \in 1..n /\ k + 1 \in 1..n /\ j + 1 # k + 1
    BY <1>3, <1>4
  <2> QED
    BY <1>1, <2>1, InjectorAssumption
<1>7. NextPairing(id) = NewGame(id, AllStrategies[j + 1], AllStrategies[k + 1])
  BY <1>1, <1>3, <1>4 DEF NextPairing
<1> QED
  BY <1>5, <1>6, <1>7

-----------------------------------------------------------------------------
\* What the sound components say to a store: one thing at most, and it is legal.
Voices(st) ==
  InjectorBoots(st) \cup InjectorEmits(st) \cup UNION {PlayerEmits(s, {}, st) : s \in Strategy}

LEMMA OneVoice ==
  ASSUME Draw \in [Nat -> Nat], NEW st, Calm(st), Sane(st)
  PROVE  \/ Voices(st) = {}
         \/ \E p \in SF!NextPayloads(st) : p \in Payload /\ Voices(st) = {p}
<1>1. CASE st.current = Nil
  <2>1. \A s \in Strategy : PlayerEmits(s, {}, st) = {}
    <3>1. NextToMove(st.current) = NoStrategy
      BY <1>1 DEF NextToMove
    <3> QED
      BY <3>1 DEF PlayerEmits, ShouldRespond
  <2>2. st.nextGameId \in Nat
    BY CalmIs
  <2>3. PICK p : p = NextPairing(st.nextGameId) /\ p \in Payload
    BY <2>2, PairingIsPayload
  <2>4. p \in SF!NextPayloads(st)
    <3>1. PICK n \in Nat : n = st.nextGameId
      BY <2>2
    <3>2. PICK a \in Strategy, b \in Strategy : a # b /\ p = NewGame(n, a, b)
      BY <2>3, <3>1, PairedApart
    <3>3. \A x, y \in Strategy : SF!NewGame(n, x, y) = NewGame(n, x, y)
      BY DEF SF!NewGame, NewGame
    <3>4. \A x \in Strategy : p # NewGame(n, x, x)
      BY <3>2 DEF NewGame
    <3>5. p = SF!NewGame(n, a, b)
      BY <3>2, <3>3, Zenon
    <3>6. \A x \in Strategy : p # SF!NewGame(n, x, x)
      BY <3>3, <3>4, Zenon
    <3> QED
      BY <1>1, <3>1, <3>5, <3>6, SMT DEF SF!NextPayloads
  <2>5. InjectorBoots(st) \cup InjectorEmits(st) \subseteq {p}
    BY <2>3 DEF InjectorBoots, InjectorEmits
  <2>6. Voices(st) \subseteq {p}
    BY <2>1, <2>5 DEF Voices
  <2> QED
    BY <2>3, <2>4, <2>6
<1>2. CASE st.current # Nil
  <2>1. InjectorBoots(st) = {} /\ InjectorEmits(st) = {}
    BY <1>2, CalmIs, InjectorPairs
  <2>2. PICK t : t = NextToMove(st.current)
    OBVIOUS
  <2>3. \A s \in Strategy :
          PlayerEmits(s, {}, st)
            = IF t = s THEN {GameDecision(s, HonestDecision(s, {}, st, st.current))} ELSE {}
    BY <2>2, SoundPlayerSays
  <2>4. CASE t \notin Strategy
    BY <2>1, <2>3, <2>4 DEF Voices
  <2>5. CASE t \in Strategy
    <3>1. PICK d \in Decision : d = HonestDecision(t, {}, st, st.current)
      BY <2>2, <2>5, SoundPlayerSays
    <3>2. PICK p : p = GameDecision(t, d)
      OBVIOUS
    <3>3. Voices(st) = {p}
      <4>1. PlayerEmits(t, {}, st) = {p} /\ \A s \in Strategy \ {t} : PlayerEmits(s, {}, st) = {}
        BY <2>3, <2>5, <3>1, <3>2
      <4> QED
        BY <2>1, <2>5, <4>1 DEF Voices
    <3>4. p \in Payload
      BY <2>5, <3>2 DEF GameDecision, Payload
    <3>5. p \in SF!NextPayloads(st)
      <4>1. SF!NextToMove(st.current) = t /\ SF!GameDecision(t, d) = p
        BY <2>2, <3>2, SameGame DEF SF!GameDecision, GameDecision
      <4>2. d \in SF!Decision
        BY DEF SF!Decision, Decision
      <4> QED
        BY <1>2, <4>1, <4>2, SMT DEF SF!NextPayloads
    <3> QED
      BY <3>3, <3>4, <3>5
  <2> QED
    BY <2>4, <2>5
<1> QED
  BY <1>1, <1>2

-----------------------------------------------------------------------------
\* The canonical log: each event of it is what the sound components say to what precedes it.
Canon(h) == \A k \in 1..Len(h) : h[k] \in SoloNext(SubSeq(h, 1, k - 1))

LEMMA SoloIsVoices ==
  ASSUME NEW h
  PROVE  SoloNext(h) = Voices(Rebuild(NoBug, h))
BY Zenon DEF SoloNext, Voices

LEMMA CanonGrows ==
  ASSUME NEW h \in Seq(Payload), NEW p \in Payload
  PROVE  Canon(Append(h, p)) <=> Canon(h) /\ p \in SoloNext(h)
<1> DEFINE more == Append(h, p)
<1>1. Len(h) \in Nat /\ Len(more) = Len(h) + 1 /\ more[Len(h) + 1] = p
  BY AppendProperties, LenProperties
<1>2. \A k \in 1..Len(h) : more[k] = h[k] /\ SubSeq(more, 1, k - 1) = SubSeq(h, 1, k - 1)
  OBVIOUS
<1>3. SubSeq(more, 1, (Len(h) + 1) - 1) = h
  OBVIOUS
<1> HIDE DEF more
<1>4. \A k \in 1..Len(more) : k \in 1..Len(h) \/ k = Len(h) + 1
  BY <1>1
<1>5. \A k \in 1..Len(h) : k \in 1..Len(more)
  BY <1>1
<1>6. Len(h) + 1 \in 1..Len(more)
  BY <1>1
<1>7. Canon(more) <=> /\ \A k \in 1..Len(h) : more[k] \in SoloNext(SubSeq(more, 1, k - 1))
                      /\ more[Len(h) + 1] \in SoloNext(SubSeq(more, 1, (Len(h) + 1) - 1))
  BY <1>4, <1>5, <1>6, Zenon DEF Canon
<1>8. (\A k \in 1..Len(h) : more[k] \in SoloNext(SubSeq(more, 1, k - 1))) <=> Canon(h)
  BY <1>2, Zenon DEF Canon
<1>9. more[Len(h) + 1] \in SoloNext(SubSeq(more, 1, (Len(h) + 1) - 1)) <=> p \in SoloNext(h)
  BY <1>1, <1>3, Zenon
<1> QED
  BY <1>7, <1>8, <1>9 DEF more

LEMMA SameBeginning ==
  ASSUME NEW E, NEW s \in Seq(E), NEW e \in E, NEW k \in 0..Len(s)
  PROVE  SubSeq(Append(s, e), 1, k) = SubSeq(s, 1, k)
OBVIOUS

LEMMA AppendIs ==
  ASSUME NEW E, NEW s \in Seq(E), NEW e \in E
  PROVE  Append(s, e) \in Seq(E) /\ Len(Append(s, e)) = Len(s) + 1 /\ Len(s) \in Nat
BY AppendProperties, LenProperties

\* Its store, and the chain of its store, event by event.
Links(h) ==
  /\ Calm(Rebuild(NoBug, h)) /\ SF!Numbered(Rebuild(NoBug, h))
  /\ Rebuild(NoBug, h).appliedSeq = Len(h) - 1
  /\ \E S : Rebuild(NoBug, h).chain \in Seq(S)
  /\ Len(Rebuild(NoBug, h).chain) = Len(h)
  /\ \A k \in 0..Len(h) : Rebuild(NoBug, SubSeq(h, 1, k)).chain = SubSeq(Rebuild(NoBug, h).chain, 1, k)

LEMMA NothingLinks == Links(<<>>)
<1>1. PICK none : none = <<>> /\ none \in Seq({}) /\ Len(none) = 0
  BY EmptySeq
<1>2. Rebuild(NoBug, none) = EmptyStore
  BY <1>1, RebuildNothing
<1>3. EmptyStore.chain = none /\ EmptyStore.appliedSeq = -1
  BY <1>1 DEF EmptyStore
<1>4. SubSeq(none, 1, 0) = none
  BY <1>1, SubSeqEmpty
<1>5. \A k \in 0..0 : k = 0
  OBVIOUS
<1>6. -1 = 0 - 1
  OBVIOUS
<1>7. SF!Numbered(EmptyStore)
  <2>1. EmptyStore.completed = none /\ EmptyStore.current = Nil
    BY <1>1 DEF EmptyStore
  <2> QED
    BY <1>1, <2>1 DEF SF!Numbered
<1> QED
  BY <1>1, <1>2, <1>3, <1>4, <1>5, <1>6, <1>7, NothingIsCalm DEF Links

LEMMA CanonLinks ==
  ASSUME Draw \in [Nat -> Nat], NEW h \in Seq(Payload), Canon(h)
  PROVE  Links(h)
<1> DEFINE S == {g \in Seq(Payload) : Canon(g) => Links(g)}
<1>1. <<>> \in S
  BY NothingLinks, EmptySeq
<1>2. ASSUME NEW g \in Seq(Payload), NEW p \in Payload, g \in S PROVE Append(g, p) \in S
  <2>1. PICK more : more = Append(g, p)
    OBVIOUS
  <2>2. /\ more \in Seq(Payload) /\ Len(g) \in Nat /\ Len(more) = Len(g) + 1
    BY <2>1, AppendProperties, LenProperties
  <2>3. SUFFICES ASSUME Canon(more) PROVE Links(more)
    BY <2>1, <2>2
  <2>4. Links(g) /\ p \in SoloNext(g)
    BY <1>2, <2>1, <2>3, CanonGrows
  <2>5. PICK st : /\ st = Rebuild(NoBug, g) /\ Calm(st) /\ st.appliedSeq = Len(g) - 1
                  /\ SF!Numbered(st) /\ Len(st.chain) = Len(g)
                  /\ \A k \in 0..Len(g) : Rebuild(NoBug, SubSeq(g, 1, k)).chain = SubSeq(st.chain, 1, k)
    BY <2>4 DEF Links
  <2>6. Sane(st)
    BY <2>5, StoresAgree
  <2>7. p \in SF!NextPayloads(st)
    BY <2>4, <2>5, <2>6, SoloIsVoices, OneVoice
  <2>8. PICK to : to = Rebuild(NoBug, more) /\ to = ApplyEvent(NoBug, st, st.appliedSeq + 1, p)
    <3>1. st.appliedSeq + 1 = Len(g)
      BY <2>2, <2>5
    <3> QED
      BY <2>1, <2>5, <3>1, RebuildStep
  <2>9. /\ Calm(to) /\ to.appliedSeq = st.appliedSeq + 1 /\ SF!Numbered(to)
        /\ \E R, e : st.chain \in Seq(R) /\ e \in R /\ to.chain = Append(st.chain, e)
    BY <2>5, <2>7, <2>8, CalmStep
  <2>10. to.appliedSeq = Len(more) - 1
    BY <2>2, <2>5, <2>9
  <2>11. PICK R, e : st.chain \in Seq(R) /\ e \in R /\ to.chain = Append(st.chain, e)
    BY <2>9
  <2>12. to.chain \in Seq(R) /\ Len(to.chain) = Len(more)
    <3>1. to.chain \in Seq(R) /\ Len(to.chain) = Len(st.chain) + 1
      BY <2>11, AppendIs
    <3> QED
      BY <2>2, <2>5, <3>1
  <2>13. ASSUME NEW k \in 0..Len(more)
         PROVE  Rebuild(NoBug, SubSeq(more, 1, k)).chain = SubSeq(to.chain, 1, k)
    <3>1. CASE k \in 0..Len(g)
      <4>1. SubSeq(more, 1, k) = SubSeq(g, 1, k)
        BY <2>1, <3>1
      <4>2. SubSeq(to.chain, 1, k) = SubSeq(st.chain, 1, k)
        <5>1. k \in 0..Len(st.chain)
          BY <2>5, <3>1
        <5>2. SubSeq(Append(st.chain, e), 1, k) = SubSeq(st.chain, 1, k)
          BY ONLY <2>11, <5>1, SameBeginning
        <5> QED
          BY <2>11, <5>2
      <4> QED
        BY <2>5, <3>1, <4>1, <4>2
    <3>2. CASE k = Len(more)
      <4>1. SubSeq(more, 1, k) = more /\ SubSeq(to.chain, 1, k) = to.chain
        BY <2>2, <2>12, <3>2, SubSeqFull
      <4> QED
        BY <2>8, <4>1
    <3>3. k \in 0..Len(g) \/ k = Len(more)
      BY <2>2
    <3> QED
      BY <3>1, <3>2, <3>3
  <2> QED
    BY <2>8, <2>9, <2>10, <2>12, <2>13, Zenon DEF Links
<1> HIDE DEF S
<1>3. h \in S
  BY <1>1, <1>2, SeqInduction
<1> QED
  BY <1>3 DEF S

LEMMA SeqOfNothing == SetToSeq({}) = <<>>
<1>1. Cardinality({}) = 0
  BY FS_EmptySet
<1>2. <<>> \in [1..0 -> {}] /\ IsInjective(<<>>)
  BY DEF IsInjective
<1>3. \A f \in [1..0 -> {}] : f = <<>>
  OBVIOUS
<1> QED
  BY <1>1, <1>2, <1>3 DEF SetToSeq

LEMMA SeqOfOne ==
  ASSUME NEW p
  PROVE  SetToSeq({p}) = <<p>>
<1>1. Cardinality({p}) = 1
  BY FS_Singleton
<1>2. PICK f : f = [k \in 1..1 |-> p]
  OBVIOUS
<1>3. f \in [1..1 -> {p}] /\ IsInjective(f)
  BY <1>2 DEF IsInjective
<1>4. \A g \in [1..1 -> {p}] : g = f
  BY <1>2
<1>5. SetToSeq({p}) = f
  BY <1>1, <1>3, <1>4 DEF SetToSeq
<1>6. f = <<p>>
  BY <1>2
<1> QED
  BY <1>5, <1>6

\* Until the games are played somebody speaks.
LEMMA SomeVoice ==
  ASSUME NEW st, Calm(st), Sane(st), st.appliedSeq + 1 < 3 * MaxGames
  PROVE  Voices(st) # {}
<1>1. PICK S : st \in SF!Store(S) /\ SF!Steady(st)
  BY Zenon DEF Calm
<1>2. PICK m \in Nat, v \in {0, 1, 2} :
        /\ st.appliedSeq + 1 = 3 * m + v /\ m = Len(st.completed)
        /\ st.current = Nil <=> v = 0
  BY <1>1, SF!PaceIs, FeedAssumptionHolds
<1>3. CASE st.current = Nil
  <2>1. m < MaxGames
    BY <1>2, <1>3, InjectorAssumption
  <2>2. CASE m = 0
    <3>1. st.appliedSeq < 0
      <4>1. PICK q \in Nat \cup {-1} : q = st.appliedSeq
        BY CalmIs
      <4> QED
        BY <1>2, <1>3, <2>2, <4>1
    <3> QED
      BY <3>1 DEF Voices, InjectorBoots
  <2>3. CASE m # 0
    <3>1. st.completed # <<>>
      BY <1>2, <2>3
    <3>2. ~(MaxGames > 0 /\ Len(st.completed) >= MaxGames)
      BY <1>2, <2>1, InjectorAssumption
    <3> QED
      BY <1>3, <3>1, <3>2 DEF Voices, InjectorEmits, JustCompleted
  <2> QED
    BY <2>2, <2>3
<1>4. CASE st.current # Nil
  <2>1. st.current \in SF!InFlight
    BY <1>4, CalmIs
  <2>2. /\ st.current.a \in Strategy /\ st.current.b \in Strategy /\ st.current.decB = Nil
    BY <2>1 DEF SF!InFlight
  <2>3. NextToMove(st.current) \in {st.current.a, st.current.b}
    BY <1>4, <2>2 DEF NextToMove
  <2>4. PICK s \in Strategy : NextToMove(st.current) = s
    BY <2>2, <2>3
  <2>5. PlayerEmits(s, {}, st) # {}
    BY <2>4, SoundPlayerSays
  <2> QED
    BY <2>5 DEF Voices
<1> QED
  BY <1>3, <1>4

\* A canonical log goes on as far as the sound components do.
LEMMA CanonGoesOn ==
  ASSUME Draw \in [Nat -> Nat], NEW h \in Seq(Payload), Canon(h), Len(h) < 3 * MaxGames
  PROVE  LET more == h \o SetToSeq(SoloNext(h))
         IN  more \in Seq(Payload) /\ Canon(more) /\ Len(more) = Len(h) + 1
<1>1. PICK st : st = Rebuild(NoBug, h) /\ Calm(st) /\ Sane(st) /\ st.appliedSeq = Len(h) - 1
  BY CanonLinks, StoresAgree DEF Links
<1>2. Voices(st) # {}
  <2>1. st.appliedSeq + 1 = Len(h)
    BY <1>1, LenProperties
  <2> QED
    BY <1>1, <2>1, SomeVoice
<1>3. ASSUME NEW p \in Payload, Voices(st) = {p}
      PROVE  LET more == h \o SetToSeq(SoloNext(h))
             IN  more \in Seq(Payload) /\ Canon(more) /\ Len(more) = Len(h) + 1
  <2>1. SoloNext(h) = {p}
    BY <1>1, <1>3, SoloIsVoices
  <2>2. SetToSeq(SoloNext(h)) = <<p>>
    BY <2>1, SeqOfOne
  <2>3. h \o <<p>> = Append(h, p)
    BY AppendIsConcat
  <2>4. /\ Append(h, p) \in Seq(Payload) /\ Canon(Append(h, p))
        /\ Len(Append(h, p)) = Len(h) + 1
    BY <2>1, CanonGrows, AppendIs
  <2> QED
    BY <2>2, <2>3, <2>4
<1> QED
  BY <1>1, <1>2, <1>3, OneVoice

LEMMA CanonicalIs ==
  ASSUME Draw \in [Nat -> Nat]
  PROVE  CanonicalLog \in Seq(Payload) /\ Canon(CanonicalLog) /\ Len(CanonicalLog) = 3 * MaxGames
<1> DEFINE More(h) == h \o SetToSeq(SoloNext(h))
           Is(f, n) == f = [k \in 0..n |-> IF k = 0 THEN <<>> ELSE More(f[k - 1])]
           S == {n \in Nat : \E f : Is(f, n)}
           upto == CHOOSE f : Is(f, 3 * MaxGames)
           Fine(k) == upto[k] \in Seq(Payload) /\ Canon(upto[k]) /\ Len(upto[k]) = k
           G == {k \in Nat : k <= 3 * MaxGames => Fine(k)}
<1> HIDE DEF More
<1>1. 0 \in S
  <2> DEFINE f == [k \in 0..0 |-> <<>>]
  <2>1. Is(f, 0)
    OBVIOUS
  <2> QED
    BY <2>1
<1>2. ASSUME NEW n \in Nat, n \in S PROVE n + 1 \in S
  <2>1. PICK f : Is(f, n)
    BY <1>2
  <2> DEFINE g == [k \in 0..(n + 1) |-> IF k <= n THEN f[k] ELSE More(f[n])]
  <2>2. \A k \in 0..n : f[k] = IF k = 0 THEN <<>> ELSE More(f[k - 1])
    BY <2>1
  <2>3. \A k \in 0..(n + 1) : g[k] = IF k = 0 THEN <<>> ELSE More(g[k - 1])
    <3>1. ASSUME NEW k \in 0..n PROVE g[k] = f[k]
      OBVIOUS
    <3>2. g[n + 1] = More(f[n]) /\ (n + 1) - 1 = n /\ n + 1 # 0 /\ n \in 0..n
      OBVIOUS
    <3> HIDE DEF g
    <3>3. g[n + 1] = More(g[(n + 1) - 1])
      BY <3>1, <3>2
    <3>4. ASSUME NEW k \in 0..n PROVE g[k] = IF k = 0 THEN <<>> ELSE More(g[k - 1])
      <4>1. k # 0 => k - 1 \in 0..n
        OBVIOUS
      <4> QED
        BY <2>2, <3>1, <4>1
    <3>5. \A k \in 0..(n + 1) : k \in 0..n \/ k = n + 1
      OBVIOUS
    <3> QED
      BY <3>2, <3>3, <3>4, <3>5
  <2>4. Is(g, n + 1)
    <3> HIDE DEF g
    <3>1. g = [k \in 0..(n + 1) |-> g[k]]
      BY DEF g
    <3> QED
      BY <2>3, <3>1
  <2> HIDE DEF g, Is
  <2> QED
    BY <2>4
<1>3. 3 * MaxGames \in S
  <2>1. 3 * MaxGames \in Nat
    BY InjectorAssumption
  <2> HIDE DEF S
  <2> QED
    BY <1>1, <1>2, <2>1, Induction
<1>4. Is(upto, 3 * MaxGames)
  BY <1>3
<1>5. CanonicalLog = upto[3 * MaxGames]
  BY DEF CanonicalLog, More
<1> HIDE DEF upto, Fine
<1>6. 0 \in G
  <2>1. upto[0] = <<>>
    BY <1>4, InjectorAssumption
  <2>2. <<>> \in Seq(Payload) /\ Len(<<>>) = 0
    BY EmptySeq
  <2>3. Canon(<<>>)
    BY DEF Canon
  <2> QED
    BY <2>1, <2>2, <2>3 DEF Fine
<1>7. ASSUME NEW n \in Nat, n \in G PROVE n + 1 \in G
  <2> SUFFICES ASSUME n + 1 <= 3 * MaxGames
               PROVE  Fine(n + 1)
    OBVIOUS
  <2>1. n < 3 * MaxGames /\ n <= 3 * MaxGames /\ n + 1 \in 0..(3 * MaxGames) /\ n + 1 # 0 /\ (n + 1) - 1 = n
    BY InjectorAssumption
  <2>2. upto[n] \in Seq(Payload) /\ Canon(upto[n]) /\ Len(upto[n]) = n
    BY <1>7, <2>1 DEF Fine
  <2>3. upto[n + 1] = More(upto[n])
    BY <1>4, <2>1
  <2> QED
    BY <2>1, <2>2, <2>3, CanonGoesOn DEF More, Fine
<1>8. 3 * MaxGames \in G
  <2>1. 3 * MaxGames \in Nat
    BY InjectorAssumption
  <2> HIDE DEF G
  <2> QED
    BY <1>6, <1>7, <2>1, Induction
<1>9. Fine(3 * MaxGames)
  <2>1. 3 * MaxGames \in Nat /\ 3 * MaxGames <= 3 * MaxGames
    BY InjectorAssumption
  <2> QED
    BY <1>8, <2>1
<1> QED
  BY <1>5, <1>9 DEF Fine

-----------------------------------------------------------------------------
\* The beginnings of a log that goes as the canonical one does.
OnCourse(g) == Len(g) <= Len(CanonicalLog) /\ Payloads(g) = SubSeq(CanonicalLog, 1, Len(g))

LEMMA Beginning ==
  ASSUME NEW E, NEW s \in Seq(E), NEW n \in 0..Len(s)
  PROVE  /\ SubSeq(s, 1, n) \in Seq(E) /\ Len(SubSeq(s, 1, n)) = n
         /\ \A k \in 1..n : SubSeq(s, 1, n)[k] = s[k]
<1>1. Len(s) \in Nat /\ n \in Nat /\ n <= Len(s) /\ \A k \in 1..Len(s) : s[k] \in E
  BY LenProperties
<1>2. \A k \in 1..n : s[k] \in E
  BY <1>1
<1>3. /\ SubSeq(s, 1, n) \in Seq(E)
      /\ Len(SubSeq(s, 1, n)) = IF 1 <= n THEN n - 1 + 1 ELSE 0
      /\ \A k \in 1..(n - 1 + 1) : SubSeq(s, 1, n)[k] = s[1 + k - 1]
  BY <1>1, <1>2, SubSeqProperties
<1>4. n - 1 + 1 = n /\ (~(1 <= n) => n = 0) /\ \A k \in 1..n : 1 + k - 1 = k
  BY <1>1
<1> QED
  BY <1>3, <1>4

LEMMA ShorterBeginning ==
  ASSUME NEW E, NEW s \in Seq(E), NEW n \in 0..Len(s), NEW k \in 1..n
  PROVE  SubSeq(SubSeq(s, 1, n), 1, k - 1) = SubSeq(s, 1, k - 1)
<1>1. PICK g \in Seq(E) : g = SubSeq(s, 1, n) /\ Len(g) = n /\ \A m \in 1..n : g[m] = s[m]
  BY Beginning
<1>2. k - 1 \in 0..Len(g) /\ k - 1 \in 0..Len(s) /\ k - 1 \in 0..n
  BY <1>1, LenProperties
<1>3. PICK f \in Seq(E) : /\ f = SubSeq(g, 1, k - 1) /\ Len(f) = k - 1
                          /\ \A m \in 1..(k - 1) : f[m] = g[m]
  BY <1>2, Beginning
<1>4. PICK d \in Seq(E) : /\ d = SubSeq(s, 1, k - 1) /\ Len(d) = k - 1
                          /\ \A m \in 1..(k - 1) : d[m] = s[m]
  BY <1>2, Beginning
<1>5. \A m \in 1..Len(f) : f[m] = d[m]
  BY <1>1, <1>2, <1>3, <1>4
<1>6. f = d
  BY <1>3, <1>4, <1>5, SeqEqual
<1> QED
  BY <1>1, <1>3, <1>4, <1>6

LEMMA CourseIs ==
  ASSUME Draw \in [Nat -> Nat], NEW h \in Seq(Event), IsPrefix(Payloads(h), CanonicalLog),
         NEW n \in 0..Len(h), NEW g, g = SubSeq(h, 1, n)
  PROVE  g \in Seq(Event) /\ Len(g) = n /\ OnCourse(g)
<1>1. PICK C \in Seq(Payload) : C = CanonicalLog
  BY CanonicalIs
<1>2. PICK P \in Seq(Payload) : /\ P = Payloads(h) /\ Len(P) = Len(h)
                                /\ \A k \in 1..Len(h) : P[k] = h[k].payload
  BY PayloadsOf
<1>3. Len(P) <= Len(C) /\ SubSeq(P, 1, Len(P)) = SubSeq(C, 1, Len(P))
  BY <1>1, <1>2 DEF IsPrefix
<1>4. Len(h) \in Nat /\ Len(C) \in Nat /\ Len(P) \in Nat
  BY LenProperties
<1>5. \A k \in 1..Len(h) : P[k] = C[k]
  <2>1. \A k \in 1..Len(P) : SubSeq(P, 1, Len(P))[k] = P[k] /\ SubSeq(C, 1, Len(P))[k] = C[k]
    BY <1>3, <1>4
  <2> QED
    BY <1>2, <1>3, <2>1
<1>6. g \in Seq(Event) /\ Len(g) = n /\ \A k \in 1..n : g[k] = h[k]
  BY Beginning
<1>7. PICK Q \in Seq(Payload) : /\ Q = Payloads(g) /\ Len(Q) = n
                                /\ \A k \in 1..n : Q[k] = g[k].payload
  BY <1>6, PayloadsOf
<1>8. PICK D \in Seq(Payload) : D = SubSeq(C, 1, n) /\ Len(D) = n /\ \A k \in 1..n : D[k] = C[k]
  <2>1. n \in 0..Len(C)
    BY <1>2, <1>3, <1>4
  <2> QED
    BY <2>1, Beginning
<1>9. \A k \in 1..n : Q[k] = D[k]
  BY <1>2, <1>4, <1>5, <1>6, <1>7, <1>8
<1>10. Q = D
  BY <1>7, <1>8, <1>9, SeqEqual
<1>11. n <= Len(C)
  BY <1>2, <1>3, <1>4
<1>12. Len(g) <= Len(CanonicalLog) /\ Payloads(g) = SubSeq(CanonicalLog, 1, Len(g))
  BY <1>1, <1>6, <1>7, <1>8, <1>10, <1>11
<1> QED
  BY <1>6, <1>12 DEF OnCourse

LEMMA CourseEnds ==
  ASSUME Draw \in [Nat -> Nat], NEW h \in Seq(Event), NEW e \in Event,
         IsPrefix(Payloads(Append(h, e)), CanonicalLog)
  PROVE  IsPrefix(Payloads(h), CanonicalLog)
<1>1. PICK more \in Seq(Event) : more = Append(h, e) /\ Len(more) = Len(h) + 1 /\ Len(h) \in Nat
  BY AppendIs
<1>2. h = SubSeq(more, 1, Len(h))
  BY <1>1
<1>3. OnCourse(h)
  <2>1. Len(h) \in 0..Len(more)
    BY <1>1
  <2>2. IsPrefix(Payloads(more), CanonicalLog)
    BY <1>1
  <2> QED
    BY <1>2, <2>1, <2>2, CourseIs
<1>4. PICK P \in Seq(Payload) : P = Payloads(h) /\ Len(P) = Len(h)
  BY PayloadsOf
<1>5. SubSeq(P, 1, Len(P)) = P
  BY SubSeqFull
<1> QED
  BY <1>3, <1>4, <1>5 DEF OnCourse, IsPrefix

\* Canonical logs begin with canonical logs, and go on with what is said then.
LEMMA CanonBegins ==
  ASSUME NEW h \in Seq(Payload), Canon(h), NEW n \in 0..Len(h)
  PROVE  Canon(SubSeq(h, 1, n)) /\ SubSeq(h, 1, n) \in Seq(Payload)
<1>1. PICK g : /\ g = SubSeq(h, 1, n) /\ g \in Seq(Payload) /\ Len(g) = n
               /\ \A k \in 1..n : g[k] = h[k] /\ SubSeq(g, 1, k - 1) = SubSeq(h, 1, k - 1)
  <2>1. PICK g \in Seq(Payload) : g = SubSeq(h, 1, n) /\ Len(g) = n /\ \A k \in 1..n : g[k] = h[k]
    BY Beginning
  <2>2. ASSUME NEW k \in 1..n PROVE SubSeq(g, 1, k - 1) = SubSeq(h, 1, k - 1)
    BY <2>1, LenProperties, ShorterBeginning
  <2> QED
    BY <2>1, <2>2
<1>2. \A k \in 1..n : k \in 1..Len(h)
  BY LenProperties
<1>3. \A k \in 1..Len(g) : g[k] \in SoloNext(SubSeq(g, 1, k - 1))
  BY <1>1, <1>2, Zenon DEF Canon
<1> QED
  BY <1>1, <1>3 DEF Canon

\* A sound instance says what the canonical log goes on with, and accepts it.
LEMMA SoundAccepts ==
  ASSUME Draw \in [Nat -> Nat], NEW i \in Instance, BugFrom[i] = NoBug,
         NEW g \in Seq(Event), OnCourse(g)
  PROVE  Validate(i, g)
<1>1. PICK C \in Seq(Payload) : C = CanonicalLog /\ Canon(C) /\ Links(C)
  BY CanonicalIs, CanonLinks
<1>2. PICK n \in 0..Len(C) : n = Len(g)
  BY <1>1, LenProperties DEF OnCourse
<1>3. StoreOf(i, g) = Rebuild(NoBug, SubSeq(C, 1, n))
  BY <1>1, <1>2 DEF StoreOf, OnCourse
<1>4. StoreOf(i, g).chain = SubSeq(Rebuild(NoBug, C).chain, 1, n)
  BY <1>1, <1>3 DEF Links
<1>5. StoreOf(i, g).chain = SubSeq(CanonicalChain, 1, Len(g))
  BY <1>1, <1>2, <1>4, Zenon DEF CanonicalChain
<1> QED
  BY <1>5 DEF Validate, MatchesReference

LEMMA CourseGoesOn ==
  ASSUME Draw \in [Nat -> Nat], NEW h \in Seq(Event), IsPrefix(Payloads(h), CanonicalLog),
         NEW n \in 0..Len(h), n + 1 \in 0..Len(h)
  PROVE  h[n + 1].payload \in SoloNext(Payloads(SubSeq(h, 1, n)))
<1>1. PICK C \in Seq(Payload) : C = CanonicalLog /\ Canon(C)
  BY CanonicalIs
<1>2. PICK g, f : g = SubSeq(h, 1, n) /\ f = SubSeq(h, 1, n + 1)
  OBVIOUS
<1>3. /\ g \in Seq(Event) /\ Len(g) = n /\ OnCourse(g)
      /\ f \in Seq(Event) /\ Len(f) = n + 1 /\ OnCourse(f)
  BY <1>2, CourseIs
<1>4. n + 1 \in 1..Len(C) /\ n + 1 \in 0..Len(C) /\ n + 1 \in 1..(n + 1) /\ (n + 1) - 1 = n
  BY <1>1, <1>3, LenProperties DEF OnCourse
<1>5. f[n + 1] = h[n + 1]
  BY <1>2, <1>4, Beginning
<1>6. Payloads(f)[n + 1] = f[n + 1].payload
  BY <1>3, <1>4, PayloadsOf
<1>7. Payloads(f) = SubSeq(C, 1, n + 1)
  BY <1>1, <1>3 DEF OnCourse
<1>8. SubSeq(C, 1, n + 1)[n + 1] = C[n + 1]
  BY <1>4, Beginning
<1>9. C[n + 1] \in SoloNext(SubSeq(C, 1, (n + 1) - 1))
  BY <1>1, <1>4 DEF Canon
<1>10. Payloads(g) = SubSeq(C, 1, n)
  BY <1>1, <1>3 DEF OnCourse
<1> QED
  BY <1>2, <1>4, <1>5, <1>6, <1>7, <1>8, <1>9, <1>10

LEMMA SoundSays ==
  ASSUME Draw \in [Nat -> Nat], NEW i \in Instance, Sound(i),
         NEW g \in Seq(Event), OnCourse(g),
         NEW p \in HandleEvent(i, g) \cup HandleMarker(i, g), p # NoPayload
  PROVE  SoloNext(Payloads(g)) = {p}
<1>1. PICK C \in Seq(Payload) : C = CanonicalLog /\ Canon(C)
  BY CanonicalIs
<1>2. PICK n \in 0..Len(C) : n = Len(g)
  BY <1>1, LenProperties DEF OnCourse
<1>3. PICK D \in Seq(Payload) : D = Payloads(g) /\ Canon(D)
  <2>1. Payloads(g) = SubSeq(C, 1, n)
    BY <1>1, <1>2 DEF OnCourse
  <2> QED
    BY <1>1, <2>1, CanonBegins
<1>4. PICK su : su = Rebuild(NoBug, D) /\ Calm(su) /\ Sane(su)
  BY <1>3, CanonLinks, StoresAgree DEF Links
<1>5. StoreOf(i, g) = su /\ SoundStore(g) = su
  BY <1>3, <1>4 DEF StoreOf, Sound, SoundStore
<1>6. p \in Voices(su)
  <2>1. CASE CompOf[i] \in Strategy
    <3>1. PICK s \in Strategy : s = CompOf[i]
      BY <2>1
    <3>2. s # InjectorName /\ s # TrackerName
      BY DEF Strategy, InjectorName, TrackerName
    <3>3. HandleEvent(i, g) = OrNothing(PlayerEmits(s, Flaws[i], su))
      BY <1>5, <3>1, <3>2 DEF HandleEvent
    <3>4. HandleMarker(i, g) = {NoPayload}
      BY <2>1, PlayersTakeTurns
    <3>5. p \in PlayerEmits(s, Flaws[i], su)
      BY <3>3, <3>4 DEF OrNothing
    <3>6. PlayerEmits(s, Flaws[i], su) = PlayerEmits(s, {}, su)
      <4>1. PICK f : f = Flaws[i] /\ f \subseteq {"SkipWatermark"}
        BY DEF Sound
      <4>2. {} \subseteq {"SkipWatermark"}
        OBVIOUS
      <4> QED
        BY <1>4, <4>1, <4>2, SoundPlayerSays
    <3> QED
      BY <3>5, <3>6 DEF Voices
  <2>2. CASE CompOf[i] = InjectorName
    <3>1. /\ HandleMarker(i, g) = OrNothing(InjectorBoots(su))
          /\ HandleEvent(i, g) = OrNothing(InjectorEmits(su))
      BY <1>5, <2>2, InjectorTakesTurns
    <3> QED
      BY <3>1 DEF OrNothing, Voices
  <2>3. CompOf[i] # TrackerName
    <3>1. CompOf[i] = TrackerName => HandleEvent(i, g) \cup HandleMarker(i, g) = {NoPayload}
      BY TrackerIsSilent
    <3> QED
      BY <3>1
  <2> QED
    BY <2>1, <2>2, <2>3, ComponentOf
<1>7. Voices(su) = {p}
  BY <1>4, <1>6, OneVoice
<1> QED
  BY <1>3, <1>4, <1>7, SoloIsVoices

-----------------------------------------------------------------------------
\* What an instance waits for is its answer to what it has read.
Asked ==
  \A i \in Instance : status[i] # "quarantined" =>
    inflight[i] \in {NoPayload} \cup HandleEvent(i, hist[i]) \cup HandleMarker(i, hist[i])
Typed ==
  /\ log \in Seq(Event)
  /\ status \in [Instance -> Status] /\ replaying \in [Instance -> BOOLEAN]
  /\ hist \in [Instance -> Seq(Event)] /\ inflight \in [Instance -> Payload \cup {NoPayload}]

LEMMA ReadersAreTyped == TP!Readers => Typed
BY DEF TP!Readers, TP!Data, Typed, TP!Event, Event, TP!Status, Status

LEMMA NextWithin ==
  ASSUME NEW k \in Nat, NEW m \in Nat, k < m
  PROVE  k \in 0..m /\ k + 1 \in 0..m
OBVIOUS

\* An instance reads on where it has got to; what it then waited for is settled.
LEMMA ReadsOn ==
  ASSUME Draw \in [Nat -> Nat], TP!Readers, TP!Turns, NEW i \in Instance, status[i] = "running",
         egressCh[i] # <<>>, Head(egressCh[i]) # Marker
  PROVE  LET n == Len(hist[i])
             e == Head(egressCh[i])
             h == Append(hist[i], e)
         IN /\ n \in 0..Len(log) /\ n + 1 \in 0..Len(log) /\ e = log[n + 1] /\ e \in Event
            /\ hist[i] = SubSeq(log, 1, n) /\ h = SubSeq(log, 1, n + 1)
            /\ e \in Allowed(hist[i]) /\ Settled(i, e) = NoPayload
<1> DEFINE n == Len(hist[i])
           e == Head(egressCh[i])
           h == Append(hist[i], e)
<1>0. TP!OneSpeaker /\ TP!PlatformAssumption
  BY DisciplineHolds, PlatformAssumptionHolds
<1>1. /\ n \in Nat /\ n < Len(log) /\ e = log[n + 1] /\ e \in TP!Event
      /\ h \in Seq(TP!Event) /\ Len(h) = n + 1 /\ h = TP!Prefix(n + 1) /\ TP!Legal(h)
      /\ TP!Settled(i, e) = NoPayload
  BY <1>0, TP!ReadsNext
<1>2. log \in Seq(Event) /\ Len(log) \in Nat /\ hist[i] \in Seq(Event)
  BY ReadersAreTyped, LenProperties DEF Typed
<1>3. n \in 0..Len(log) /\ n + 1 \in 0..Len(log)
  <2>0. n \in Nat /\ n < Len(log)
    BY <1>1, Zenon
  <2> QED
    BY <1>2, <2>0, NextWithin, Zenon
<1>4. hist[i] = SubSeq(log, 1, n)
  BY DEF TP!Readers, TP!ExactlyOnceInOrder
<1>5. e \in Event /\ Settled(i, e) = NoPayload /\ h = SubSeq(log, 1, n + 1)
  BY <1>1 DEF TP!Event, Event, TP!Settled, Settled, TP!Prefix
<1>6. Legal(h)
  BY <1>1 DEF TP!Legal, Legal, TP!Allowed, Allowed, TP!Spoken, Spoken, TP!Cardinality, Cardinality
<1>7. e \in Allowed(hist[i])
  BY <1>2, <1>5, <1>6, LegalGrows
<1> QED
  BY <1>1, <1>3, <1>4, <1>5, <1>7

LEMMA AskedInit == Init => Asked
BY DEF Init, Asked

LEMMA AskedStep ==
  ASSUME Draw \in [Nat -> Nat], TP!Readers, TP!Turns, Asked, [Next]_vars
  PROVE  Asked'
<1> SUFFICES ASSUME NEW i \in Instance, status'[i] # "quarantined"
             PROVE  inflight'[i] \in {NoPayload} \cup HandleEvent(i, hist'[i])
                                        \cup HandleMarker(i, hist'[i])
  BY DEF Asked, HandleEvent, HandleMarker, StoreOf
<1>0. Typed
  BY ReadersAreTyped
<1>1. status[i] # "quarantined" =>
        inflight[i] \in {NoPayload} \cup HandleEvent(i, hist[i]) \cup HandleMarker(i, hist[i])
  BY DEF Asked
<1>2. CASE inflight'[i] = inflight[i] /\ hist'[i] = hist[i] /\ status[i] # "quarantined"
  BY <1>1, <1>2
<1>3. CASE SequencerStep \/ SeqExit \/ UNCHANGED vars
  BY <1>2, <1>3 DEF SequencerStep, SeqJoin, SeqLeave, SeqAdmit, SeqReject, SeqSequence, SeqExit,
                    loopVars, vars
<1>4. ASSUME NEW j \in Instance, Start(j) \/ Stop(j)
      PROVE  inflight'[i] = inflight[i] /\ hist'[i] = hist[i] /\ status[i] # "quarantined"
  BY <1>0, <1>4 DEF Start, Stop, Leave, Typed
<1>5. ASSUME NEW j \in Instance, j # i, Read(j)
      PROVE  inflight'[i] = inflight[i] /\ hist'[i] = hist[i] /\ status[i] # "quarantined"
  <2>1. CASE ReadMarker(j)
    BY <1>0, <1>5, <2>1 DEF ReadMarker, Emit, Typed
  <2>2. CASE ReadDivergent(j)
    BY <1>0, <1>5, <2>2 DEF ReadDivergent, Leave, Typed
  <2>3. CASE ReadInvalid(j)
    BY <1>0, <1>5, <2>3 DEF ReadInvalid, Leave, Typed
  <2>4. CASE ReadEvent(j)
    BY <1>0, <1>5, <2>4 DEF ReadEvent, Emit, Typed
  <2> QED
    BY <1>5, <2>1, <2>2, <2>3, <2>4 DEF Read
<1>6. CASE ReadMarker(i)
  <2>1. PICK p \in HandleMarker(i, hist[i]) : Emit(i, p, inflight[i], senderSeq[i])
    BY <1>6 DEF ReadMarker
  <2>2. hist' = hist /\ status[i] = "running"
    BY <1>6 DEF ReadMarker
  <2>3. inflight'[i] = inflight[i] \/ inflight'[i] = p
    BY <1>0, <2>1 DEF Emit, Typed
  <2> QED
    BY <1>1, <2>1, <2>2, <2>3
<1>7. CASE ReadEvent(i)
  <2>1. PICK e, h : e = Head(egressCh[i]) /\ h = Append(hist[i], e)
    OBVIOUS
  <2>2. PICK p \in HandleEvent(i, h) : Emit(i, p, Settled(i, e), NextSlot(i, e))
    BY <1>7, <2>1 DEF ReadEvent
  <2>3. hist'[i] = h
    BY <1>0, <1>7, <2>1 DEF ReadEvent, Typed
  <2>4. Settled(i, e) = NoPayload
    BY <1>7, <2>1, ReadsOn DEF ReadEvent
  <2>5. inflight'[i] = NoPayload \/ inflight'[i] = p
    BY <1>0, <2>2, <2>4 DEF Emit, Typed
  <2> QED
    BY <2>2, <2>3, <2>5
<1>8. ~ReadDivergent(i) /\ ~ReadInvalid(i)
  BY <1>0 DEF ReadDivergent, ReadInvalid, Leave, Typed
<1> QED
  BY <1>2, <1>3, <1>4, <1>5, <1>6, <1>7, <1>8 DEF Next, Read

\* While the log is canonical a sound instance agrees with it, in both checks.
LEMMA SoundAgrees ==
  ASSUME Draw \in [Nat -> Nat], TP!Readers, TP!Turns, Asked,
         IsPrefix(Payloads(log), CanonicalLog), NEW i \in Instance, Sound(i)
  PROVE  ~ReadDivergent(i) /\ ~ReadInvalid(i)
<1> SUFFICES ASSUME ReadDivergent(i) \/ ReadInvalid(i) PROVE FALSE
  OBVIOUS
<1>1. /\ status[i] = "running" /\ egressCh[i] # <<>> /\ Head(egressCh[i]) # Marker
  BY DEF ReadDivergent, ReadInvalid
<1>2. PICK n, e, h, g : n = Len(hist[i]) /\ e = Head(egressCh[i]) /\ h = Append(hist[i], e)
                        /\ g = hist[i]
  OBVIOUS
<1>3. /\ n \in 0..Len(log) /\ n + 1 \in 0..Len(log) /\ e = log[n + 1] /\ e \in Event
      /\ g = SubSeq(log, 1, n) /\ h = SubSeq(log, 1, n + 1)
      /\ e \in Allowed(g) /\ Settled(i, e) = NoPayload
  BY <1>1, <1>2, ReadsOn
<1>4. log \in Seq(Event)
  BY ReadersAreTyped DEF Typed
<1>5. g \in Seq(Event) /\ Len(g) = n /\ OnCourse(g) /\ h \in Seq(Event) /\ OnCourse(h)
  BY <1>3, <1>4, CourseIs
<1>6. CASE ReadInvalid(i)
  <2>1. ~Validate(i, h)
    BY <1>2, <1>6 DEF ReadInvalid, Refused
  <2> QED
    BY <1>5, <2>1, SoundAccepts DEF Sound
<1>7. CASE ReadDivergent(i)
  <2>1. inflight[i] # NoPayload /\ inflight[i] # e.payload
    BY <1>2, <1>7 DEF ReadDivergent, Disagrees
  <2>2. inflight[i] \in HandleEvent(i, g) \cup HandleMarker(i, g)
    BY <1>1, <1>2, <2>1 DEF Asked
  <2>3. SoloNext(Payloads(g)) = {inflight[i]}
    BY <1>5, <2>1, <2>2, SoundSays
  <2>4. e.payload \in SoloNext(Payloads(g))
    BY <1>3, <1>4, <1>5, CourseGoesOn
  <2> QED
    BY <2>1, <2>3, <2>4
<1> QED
  BY <1>6, <1>7

LEMMA SoundStep ==
  ASSUME Draw \in [Nat -> Nat], TP!Readers, TP!Readers', TP!Turns, Asked, SoundStaysInService, [Next]_vars
  PROVE  SoundStaysInService'
<1>0. Typed /\ log' \in Seq(Event)
  BY ReadersAreTyped DEF TP!Readers, TP!Data, TP!Event, Event
<1> SUFFICES ASSUME IsPrefix(Payloads(log'), CanonicalLog), NEW i \in Instance, Sound(i)
             PROVE  status'[i] # "quarantined"
  BY DEF SoundStaysInService, Payloads
<1>1. IsPrefix(Payloads(log), CanonicalLog)
  <2>1. CASE log' = log
    BY <2>1
  <2>2. CASE SeqSequence
    <3>1. admitted \in Event /\ log' = Append(log, admitted)
      BY <2>2 DEF SeqSequence, TP!Readers, TP!Data, TP!Event, Event
    <3> QED
      BY <1>0, <3>1, CourseEnds DEF Typed
  <2>3. log' = log \/ SeqSequence
    BY DEF Next, SequencerStep, SeqJoin, SeqLeave, SeqAdmit, SeqReject, SeqExit, Start, Stop, Read,
           ReadMarker, ReadDivergent, ReadInvalid, ReadEvent, seqVars, vars
  <2> QED
    BY <2>1, <2>2, <2>3
<1>2. status[i] # "quarantined"
  BY <1>1 DEF SoundStaysInService
<1>3. ~ReadDivergent(i) /\ ~ReadInvalid(i)
  BY <1>1, SoundAgrees
<1>4. CASE SequencerStep \/ SeqExit \/ UNCHANGED vars
  BY <1>2, <1>4 DEF SequencerStep, SeqJoin, SeqLeave, SeqAdmit, SeqReject, SeqSequence, SeqExit,
                    loopVars, vars
<1>5. ASSUME NEW j \in Instance, Start(j) \/ Stop(j) \/ ReadMarker(j) \/ ReadEvent(j)
      PROVE  status'[i] # "quarantined"
  <2>1. CASE Start(j) \/ Stop(j)
    BY <1>0, <1>2, <2>1 DEF Start, Stop, Leave, Typed
  <2>2. CASE ReadMarker(j)
    BY <1>0, <1>2, <2>2 DEF ReadMarker, Emit, Typed
  <2>3. CASE ReadEvent(j)
    BY <1>0, <1>2, <2>3 DEF ReadEvent, Emit, Typed
  <2> QED
    BY <1>5, <2>1, <2>2, <2>3
<1>6. ASSUME NEW j \in Instance, ReadDivergent(j) \/ ReadInvalid(j)
      PROVE  status'[i] # "quarantined"
  <2>1. j # i
    BY <1>3, <1>6
  <2> QED
    BY <1>0, <1>2, <1>6, <2>1 DEF ReadDivergent, ReadInvalid, Leave, Typed
<1> QED
  BY <1>4, <1>5, <1>6 DEF Next, Read

(* Only an instance with an injected defect is ever quarantined while the   *)
(* log is canonical: by neither check, whatever the number of instances,    *)
(* their joins, restarts and races (checkInflight, StateValidator).         *)
THEOREM SoundInstancesStay ==
  ASSUME Draw \in [Nat -> Nat]
  PROVE  Spec => []SoundStaysInService
<1>0. TP!OneSpeaker
  BY DisciplineHolds
<1>1. TP!Spec => [](TP!Readers /\ TP!Turns)
  BY <1>0, PlatformAssumptionHolds, TP!TurnsHold
<1>2. Init => Asked /\ SoundStaysInService
  BY AskedInit DEF Init, SoundStaysInService
<1>3. /\ TP!Readers /\ TP!Readers' /\ TP!Turns /\ Asked /\ SoundStaysInService
      /\ [Next]_vars
      => Asked' /\ SoundStaysInService'
  BY AskedStep, SoundStep
<1> QED
  BY <1>1, <1>2, <1>3, SpecIsPlatforms, PTL DEF Spec

-----------------------------------------------------------------------------
\* The store of a sound replica that has applied n events of the canonical log.
At(n) == Rebuild(NoBug, SubSeq(CanonicalLog, 1, n))

LEMMA CanonAt ==
  ASSUME Draw \in [Nat -> Nat], NEW n \in 0..Len(CanonicalLog)
  PROVE  /\ Calm(At(n)) /\ Sane(At(n)) /\ Open(At(n).current) /\ SF!Numbered(At(n))
         /\ At(n).appliedSeq = n - 1
         /\ At(n).chain = SubSeq(CanonicalChain, 1, n)
<1>1. PICK C \in Seq(Payload) : C = CanonicalLog /\ Canon(C) /\ Links(C)
  BY CanonicalIs, CanonLinks
<1>2. PICK D \in Seq(Payload) : D = SubSeq(C, 1, n) /\ Len(D) = n /\ Canon(D) /\ Links(D)
  <2>1. SubSeq(C, 1, n) \in Seq(Payload) /\ Len(SubSeq(C, 1, n)) = n
    BY <1>1, Beginning
  <2>2. Canon(SubSeq(C, 1, n))
    BY <1>1, CanonBegins
  <2>3. Links(SubSeq(C, 1, n))
    BY <2>1, <2>2, CanonLinks
  <2> QED
    BY <2>1, <2>2, <2>3
<1>3. PICK st : st = Rebuild(NoBug, D) /\ st = At(n)
  BY <1>1, <1>2, Zenon DEF At
<1>4. Calm(st) /\ SF!Numbered(st) /\ st.appliedSeq = n - 1
  BY <1>2, <1>3 DEF Links
<1>5. Sane(st) /\ Open(st.current)
  BY <1>3, StoresAgree
<1>6. st.chain = SubSeq(Rebuild(NoBug, C).chain, 1, n)
  BY <1>1, <1>2, <1>3 DEF Links
<1>7. st.chain = SubSeq(CanonicalChain, 1, n)
  BY <1>1, <1>6, Zenon DEF CanonicalChain
<1> QED
  BY <1>3, <1>4, <1>5, <1>7

LEMMA ChainLength ==
  ASSUME Draw \in [Nat -> Nat]
  PROVE  Len(CanonicalChain) = Len(CanonicalLog)
<1>1. PICK C \in Seq(Payload) : C = CanonicalLog /\ Links(C)
  BY CanonicalIs, CanonLinks
<1>2. Len(Rebuild(NoBug, C).chain) = Len(C)
  BY <1>1 DEF Links
<1> QED
  BY <1>1, <1>2, Zenon DEF CanonicalChain

LEMMA OneMore ==
  ASSUME NEW E, NEW s \in Seq(E), NEW n \in 0..Len(s), n < Len(s)
  PROVE  SubSeq(s, 1, n + 1) = Append(SubSeq(s, 1, n), s[n + 1]) /\ s[n + 1] \in E
<1>1. Len(s) \in Nat /\ n + 1 \in 0..Len(s) /\ n + 1 \in 1..Len(s)
  BY LenProperties
<1>2. s[n + 1] \in E
  BY <1>1
<1>3. PICK g \in Seq(E) : /\ g = SubSeq(s, 1, n) /\ Len(g) = n
                          /\ \A k \in 1..n : g[k] = s[k]
  BY Beginning
<1>4. PICK f \in Seq(E) : /\ f = SubSeq(s, 1, n + 1) /\ Len(f) = n + 1
                          /\ \A k \in 1..(n + 1) : f[k] = s[k]
  BY <1>1, Beginning
<1>5. PICK h \in Seq(E) : /\ h = Append(g, s[n + 1]) /\ Len(h) = n + 1 /\ h[n + 1] = s[n + 1]
                          /\ \A k \in 1..n : h[k] = g[k]
  <2>1. PICK e \in E : e = s[n + 1]
    BY <1>2
  <2>2. /\ Append(g, e) \in Seq(E) /\ Len(Append(g, e)) = n + 1 /\ Append(g, e)[n + 1] = e
        /\ \A k \in 1..n : Append(g, e)[k] = g[k]
    BY <1>3, AppendProperties
  <2> QED
    BY <2>1, <2>2
<1>6. \A k \in 1..(n + 1) : k \in 1..n \/ k = n + 1
  BY <1>1
<1>7. \A k \in 1..Len(f) : f[k] = h[k]
  BY <1>1, <1>3, <1>4, <1>5, <1>6
<1>8. f = h
  BY <1>4, <1>5, <1>7, SeqEqual
<1> QED
  BY <1>2, <1>3, <1>4, <1>5, <1>8

LEMMA CanonNext ==
  ASSUME Draw \in [Nat -> Nat], NEW n \in 0..Len(CanonicalLog), n < Len(CanonicalLog)
  PROVE  LET p == CanonicalLog[n + 1]
         IN  /\ p \in Payload /\ p \in SF!NextPayloads(At(n)) /\ Voices(At(n)) = {p}
             /\ At(n + 1) = ApplyEvent(NoBug, At(n), n, p)
<1>1. PICK C \in Seq(Payload) : C = CanonicalLog /\ Canon(C) /\ Len(C) \in Nat
  BY CanonicalIs, LenProperties
<1>2. PICK p \in Payload : p = C[n + 1] /\ SubSeq(C, 1, n + 1) = Append(SubSeq(C, 1, n), p)
  BY <1>1, OneMore
<1>3. PICK D \in Seq(Payload) : D = SubSeq(C, 1, n) /\ Len(D) = n
  BY <1>1, Beginning
<1>4. PICK st : st = At(n) /\ st = Rebuild(NoBug, D) /\ Calm(st) /\ Sane(st)
  BY <1>1, <1>3, CanonAt DEF At
<1>5. p \in Voices(st)
  <2>1. n + 1 \in 1..Len(C) /\ (n + 1) - 1 = n
    BY <1>1
  <2>2. C[n + 1] \in SoloNext(SubSeq(C, 1, (n + 1) - 1))
    BY <1>1, <2>1 DEF Canon
  <2>3. p \in SoloNext(D)
    BY <1>2, <1>3, <2>1, <2>2
  <2> QED
    BY <1>4, <2>3, SoloIsVoices
<1>6. Voices(st) = {p} /\ p \in SF!NextPayloads(st)
  BY <1>4, <1>5, OneVoice
<1>7. At(n + 1) = ApplyEvent(NoBug, st, n, p)
  <2>1. Rebuild(NoBug, Append(D, p)) = ApplyEvent(NoBug, st, n, p)
    BY <1>3, <1>4, RebuildStep
  <2>2. At(n + 1) = Rebuild(NoBug, Append(D, p))
    BY <1>1, <1>2, <1>3, Zenon DEF At
  <2> QED
    BY <2>1, <2>2
<1> QED
  BY <1>1, <1>2, <1>4, <1>6, <1>7

\* A candidate that has computed the canonical state so far, and its next event: the
\* state is still the canonical one just when its bug has not paid a game.
LEMMA ReplayTells ==
  ASSUME Draw \in [Nat -> Nat], NEW n \in 0..Len(CanonicalLog), n < Len(CanonicalLog),
         NEW b, ~SF!Tainted(b, At(n).completed),
         NEW st, st = ApplyEvent(b, At(n), n, CanonicalLog[n + 1])
  PROVE  /\ st.appliedSeq = n
         /\ MatchesReference(st, n + 1) <=> ~SF!Tainted(b, st.completed)
         /\ MatchesReference(st, n + 1) => st = At(n + 1)
<1>1. PICK p : /\ p = CanonicalLog[n + 1] /\ p \in SF!NextPayloads(At(n))
               /\ At(n + 1) = ApplyEvent(NoBug, At(n), n, p)
  BY CanonNext
<1>2. PICK was : was = At(n) /\ Calm(was) /\ was.appliedSeq + 1 = n
  <2>1. n - 1 + 1 = n
    OBVIOUS
  <2> QED
    BY <2>1, CanonAt
<1>3. PICK S : was \in SF!Store(S)
  BY <1>2, Zenon DEF Calm
<1>4. st = SF!ApplyEvent(b, was, was.appliedSeq + 1, p)
  BY <1>1, <1>2, SameStore, Zenon
<1>5. At(n + 1) = SF!ApplyEvent(SF!NoBug, was, was.appliedSeq + 1, p)
  <2>1. SF!NoBug = NoBug
    BY DEF SF!NoBug, NoBug
  <2> QED
    BY <1>1, <1>2, <2>1, SameStore, Zenon
<1>6. /\ ~SF!Tainted(b, st.completed) => At(n + 1) = st
      /\ At(n + 1).chain = st.chain => ~SF!Tainted(b, st.completed)
  <2>1. PICK one, two : one = At(n + 1) /\ two = st
    OBVIOUS
  <2>2. /\ one = SF!ApplyEvent(SF!NoBug, was, was.appliedSeq + 1, p)
        /\ two = SF!ApplyEvent(b, was, was.appliedSeq + 1, p)
    BY <1>4, <1>5, <2>1, Zenon
  <2>3. p \in SF!NextPayloads(was) /\ ~SF!Tainted(b, was.completed)
    BY <1>1, <1>2, Zenon
  <2>4. /\ ~SF!Tainted(b, two.completed) => one = two
        /\ one.chain = two.chain => ~SF!Tainted(b, two.completed)
    BY ONLY <1>3, <2>2, <2>3, SF!StepTells, FeedAssumptionHolds
  <2> QED
    BY <2>1, <2>4, Zenon
<1>7. st.appliedSeq = n
  <2>1. st = ApplyEvent(b, was, was.appliedSeq + 1, p)
    BY <1>1, <1>2, Zenon
  <2>2. Calm(was) /\ p \in SF!NextPayloads(was)
    BY <1>1, <1>2, Zenon
  <2>3. ApplyEvent(b, was, was.appliedSeq + 1, p).appliedSeq = was.appliedSeq + 1
    BY ONLY <2>2, CalmStep
  <2> QED
    BY <1>2, <2>1, <2>3, Zenon
<1>8. MatchesReference(st, n + 1) <=> st.chain = At(n + 1).chain
  <2>1. n + 1 \in 0..Len(CanonicalLog) /\ ~(n + 1 > Len(CanonicalLog))
    <3>1. PICK m \in Nat : m = Len(CanonicalLog)
      BY CanonicalIs, LenProperties
    <3>2. n \in 0..m /\ n < m
      BY <3>1, Zenon
    <3>3. n + 1 \in 0..m /\ ~(n + 1 > m)
      BY ONLY m \in Nat, <3>2
    <3> QED
      BY <3>1, <3>3, Zenon
  <2>2. ~(n + 1 > Len(CanonicalChain))
    BY <2>1, ChainLength
  <2>3. At(n + 1).chain = SubSeq(CanonicalChain, 1, n + 1)
    BY <2>1, CanonAt
  <2> QED
    BY <2>2, <2>3, Zenon DEF MatchesReference
<1>9. MatchesReference(st, n + 1) <=> ~SF!Tainted(b, st.completed)
  BY <1>6, <1>8, Zenon
<1> QED
  BY <1>6, <1>7, <1>9, Zenon

\* At the end of the log all the games are played.
LEMMA OverAtEnd ==
  ASSUME Draw \in [Nat -> Nat]
  PROVE  At(Len(CanonicalLog)).current = Nil /\ Len(At(Len(CanonicalLog)).completed) = MaxGames
<1>1. PICK n \in Nat : n = Len(CanonicalLog) /\ n = 3 * MaxGames
  BY CanonicalIs, LenProperties
<1>2. PICK st : st = At(n) /\ Calm(st) /\ st.appliedSeq + 1 = n
  <2>1. n \in 0..Len(CanonicalLog) /\ n - 1 + 1 = n
    BY <1>1
  <2> QED
    BY <2>1, CanonAt
<1>3. PICK S : st \in SF!Store(S) /\ SF!Steady(st)
  BY <1>2, Zenon DEF Calm
<1>4. PICK m \in Nat, v \in {0, 1, 2} :
        /\ st.appliedSeq + 1 = 3 * m + v /\ m = Len(st.completed)
        /\ st.current = Nil <=> v = 0
  BY <1>3, SF!PaceIs, FeedAssumptionHolds
<1>5. PICK M \in Nat : M = MaxGames /\ 3 * M = 3 * m + v
  BY <1>1, <1>2, <1>4, InjectorAssumption, Zenon
<1>6. v = 0 /\ m = MaxGames
  <2>1. v = 0 /\ m = M
    BY ONLY <1>5, v \in {0, 1, 2}, m \in Nat, M \in Nat
  <2> QED
    BY <1>5, <2>1
<1> QED
  BY <1>1, <1>2, <1>4, <1>6

\* The positions of a component's entries in the log; how many of them come before one.
Own(c) == {k \in 1..Len(CanonicalLog) : SenderOf(CanonicalLog[k]) = c}
OwnBefore(c, k) == Cardinality({m \in Own(c) : m < k})

\* A player's turn is where the log has its entry.
LEMMA TurnOnLog ==
  ASSUME Draw \in [Nat -> Nat], NEW n \in 0..Len(CanonicalLog), NEW s \in Strategy
  PROVE  NextToMove(At(n).current) = s <=> n + 1 \in Own(s)
<1>0. s # NoStrategy /\ s # InjectorName
  BY DEF Strategy, NoStrategy, InjectorName
<1>1. PICK N \in Nat : N = Len(CanonicalLog)
  BY CanonicalIs, LenProperties
<1>2. PICK st : st = At(n) /\ Calm(st) /\ Sane(st)
  BY CanonAt
<1>3. CASE n = N
  <2>1. NextToMove(st.current) = NoStrategy
    BY <1>1, <1>2, <1>3, OverAtEnd DEF NextToMove
  <2>2. n + 1 \notin 1..N
    BY <1>3
  <2> QED
    BY <1>0, <1>1, <1>2, <2>1, <2>2 DEF Own
<1>4. CASE n < N
  <2>1. PICK p \in Payload : p = CanonicalLog[n + 1] /\ Voices(st) = {p}
    BY <1>1, <1>2, <1>4, CanonNext
  <2>2. n + 1 \in Own(s) <=> SenderOf(p) = s
    <3>1. n + 1 \in 1..N
      BY <1>1, <1>4
    <3> QED
      BY <1>1, <2>1, <3>1 DEF Own
  <2>3. \A t \in Strategy : \A q \in PlayerEmits(t, {}, st) : SenderOf(q) = t
    <3>1. \A t \in Strategy : PlayerEmits(t, {}, st) \subseteq {GameDecision(t, d) : d \in Decision}
      BY <1>2, PlayerAnswers
    <3>2. \A t \in Strategy, d \in Decision : SenderOf(GameDecision(t, d)) = t
      BY DEF SenderOf, GameDecision
    <3> QED
      BY <3>1, <3>2
  <2>4. \A t \in Strategy : NextToMove(st.current) = t <=> PlayerEmits(t, {}, st) # {}
    BY <1>2, PlayerAnswers
  <2>5. ASSUME NextToMove(st.current) = s PROVE SenderOf(p) = s
    <3>1. PICK q : q \in PlayerEmits(s, {}, st)
      BY <2>4, <2>5
    <3>2. q \in Voices(st)
      BY <3>1 DEF Voices
    <3> QED
      BY <2>1, <2>3, <3>1, <3>2
  <2>6. ASSUME SenderOf(p) = s PROVE NextToMove(st.current) = s
    <3>1. p.kind # "NewGame"
      BY <1>0, <2>6 DEF SenderOf
    <3>2. \A q \in InjectorBoots(st) \cup InjectorEmits(st) : q.kind = "NewGame"
      BY <1>2, InjectorPairs
    <3>3. PICK t \in Strategy : p \in PlayerEmits(t, {}, st)
      <4>1. p \in Voices(st) /\ p \notin InjectorBoots(st) \cup InjectorEmits(st)
        BY <2>1, <3>1, <3>2
      <4>2. p \in UNION {PlayerEmits(t, {}, st) : t \in Strategy}
        BY <4>1, Zenon DEF Voices
      <4> QED
        BY <4>2, Zenon
    <3>4. t = s
      BY <2>3, <2>6, <3>3
    <3> QED
      BY <2>4, <3>3, <3>4
  <2> QED
    BY <1>2, <2>2, <2>5, <2>6
<1>5. n = N \/ n < N
  BY <1>1
<1> QED
  BY <1>3, <1>4, <1>5

LEMMA FirstIsPairing ==
  ASSUME Draw \in [Nat -> Nat], NEW s \in Strategy
  PROVE  1 \notin Own(s)
<1>1. 0 \in 0..Len(CanonicalLog) /\ 0 + 1 = 1
  BY CanonicalIs, LenProperties
<1>2. PICK st : st = At(0) /\ Calm(st) /\ st.appliedSeq = -1
  BY <1>1, CanonAt
<1>3. st.current = Nil
  BY <1>2, CalmIs
<1>4. NextToMove(st.current) # s
  BY <1>3 DEF NextToMove, NoStrategy, Strategy
<1> QED
  BY <1>1, <1>2, <1>4, TurnOnLog

LEMMA Counts ==
  ASSUME Draw \in [Nat -> Nat], NEW c
  PROVE  /\ IsFiniteSet(Own(c)) /\ Cardinality(Own(c)) \in Nat
         /\ \A k \in Nat : /\ OwnBefore(c, k) \in Nat
                           /\ OwnBefore(c, k) <= Cardinality(Own(c))
                           /\ OwnBefore(c, k + 1)
                                = OwnBefore(c, k) + (IF k \in Own(c) THEN 1 ELSE 0)
                           /\ k > Len(CanonicalLog) => OwnBefore(c, k) = Cardinality(Own(c))
         /\ \A j, k \in Own(c) : j < k => OwnBefore(c, j) < OwnBefore(c, k)
<1>1. PICK N \in Nat : N = Len(CanonicalLog)
  BY CanonicalIs, LenProperties
<1>2. Own(c) \subseteq 1..N
  BY <1>1 DEF Own
<1>3. IsFiniteSet(Own(c)) /\ Cardinality(Own(c)) \in Nat
  <2>1. IsFiniteSet(1..N)
    BY FS_Interval
  <2>2. IsFiniteSet(Own(c))
    BY <1>2, <2>1, FS_Subset
  <2> QED
    BY <2>2, FS_CardinalityType
<1>4. PICK O : O = Own(c)
  OBVIOUS
<1>5. ASSUME NEW P \in SUBSET O
      PROVE  IsFiniteSet(P) /\ Cardinality(P) \in Nat /\ Cardinality(P) <= Cardinality(O)
  BY <1>3, <1>4, FS_Subset, FS_CardinalityType
<1>6. ASSUME NEW k \in Nat
      PROVE  OwnBefore(c, k) \in Nat /\ OwnBefore(c, k) <= Cardinality(Own(c))
  <2>1. PICK P \in SUBSET O : P = {m \in O : m < k}
    OBVIOUS
  <2> QED
    BY <1>4, <1>5, <2>1 DEF OwnBefore
<1>7. ASSUME NEW k \in Nat
      PROVE  OwnBefore(c, k + 1) = OwnBefore(c, k) + (IF k \in Own(c) THEN 1 ELSE 0)
  <2>1. PICK P, Q : P = {m \in O : m < k} /\ Q = {m \in O : m < k + 1}
    OBVIOUS
  <2>2. \A m \in O : m \in Nat
    BY <1>2, <1>4
  <2>3. Q = IF k \in O THEN P \cup {k} ELSE P
    BY <2>1, <2>2
  <2>4. k \notin P /\ IsFiniteSet(P)
    BY <1>5, <2>1
  <2>5. Cardinality(P \cup {k}) = Cardinality(P) + 1
    BY <2>4, FS_AddElement
  <2>6. OwnBefore(c, k) = Cardinality(P) /\ OwnBefore(c, k + 1) = Cardinality(Q)
    BY <1>4, <2>1 DEF OwnBefore
  <2>7. CASE k \in O
    BY <1>4, <2>3, <2>5, <2>6, <2>7
  <2>8. CASE k \notin O
    <3>1. Cardinality(P) \in Nat
      BY <1>5, <2>1
    <3> QED
      BY <1>4, <2>3, <2>6, <2>8, <3>1
  <2> QED
    BY <2>7, <2>8
<1>8. ASSUME NEW k \in Nat, k > Len(CanonicalLog) PROVE OwnBefore(c, k) = Cardinality(Own(c))
  <2>1. k > N
    BY <1>1, <1>8
  <2>2. ASSUME NEW m \in O PROVE m < k
    <3>1. m \in 1..N
      BY <1>2, <1>4
    <3> QED
      BY ONLY N \in Nat, k \in Nat, <2>1, <3>1
  <2>3. {m \in O : m < k} = O
    BY <2>2
  <2> QED
    BY <1>4, <2>3 DEF OwnBefore
<1>9. ASSUME NEW j \in Own(c), NEW k \in Own(c), j < k PROVE OwnBefore(c, j) < OwnBefore(c, k)
  <2>1. PICK P, Q : P = {m \in O : m < j} /\ Q = {m \in O : m < k}
    OBVIOUS
  <2>2. \A m \in O : m \in Nat
    BY <1>2, <1>4
  <2>3. P \subseteq Q /\ j \in Q /\ j \notin P
    BY <1>4, <1>9, <2>1, <2>2
  <2>4. IsFiniteSet(Q) /\ Cardinality(Q) \in Nat /\ Cardinality(P) \in Nat
    BY <1>5, <2>1
  <2>5. Cardinality(P) <= Cardinality(Q) /\ Cardinality(P) # Cardinality(Q)
    BY <2>3, <2>4, FS_Subset
  <2>6. OwnBefore(c, j) = Cardinality(P) /\ OwnBefore(c, k) = Cardinality(Q)
    BY <1>4, <2>1 DEF OwnBefore
  <2> QED
    BY <2>4, <2>5, <2>6
<1> QED
  BY <1>3, <1>6, <1>7, <1>8, <1>9

-----------------------------------------------------------------------------
\* What candidates answer at the point the examination has got to.
LEMMA WrongPlayerSays ==
  ASSUME NEW st, Calm(st), Sane(st), NEW s \in Strategy,
         NEW flaws, "WrongDecision" \in flaws, "ImpureClock" \notin flaws
  PROVE  \A q \in PlayerEmits(s, flaws, st) : q \notin PlayerEmits(s, {}, st)
<1> SUFFICES ASSUME NEW q, q \in PlayerEmits(s, flaws, st) PROVE q \notin PlayerEmits(s, {}, st)
  OBVIOUS
<1>1. NextToMove(st.current) = s
  BY PlayerAnswers
<1>2. PICK d \in Decision : /\ d = HonestDecision(s, {}, st, st.current)
                            /\ d = HonestDecision(s, flaws, st, st.current)
  BY <1>1, SkippingIsNothing
<1>3. PICK e \in Decision : e = Inverted(d) /\ e # d
  BY DEF Inverted, Decision
<1>4. DecideFor(s, flaws, st, st.current) = {e}
  BY <1>2, <1>3 DEF DecideFor
<1>5. q = GameDecision(s, e)
  BY <1>4 DEF PlayerEmits
<1>6. PlayerEmits(s, {}, st) = {GameDecision(s, d)}
  <2>1. {} \subseteq {"SkipWatermark"}
    OBVIOUS
  <2> QED
    BY <1>1, <1>2, <2>1, SoundPlayerSays
<1>7. GameDecision(s, e) # GameDecision(s, d)
  BY <1>3 DEF GameDecision
<1> QED
  BY <1>5, <1>6, <1>7

\* A player is asked exactly where the log has its next entry: that is what a sound one
\* answers, and what one that inverts never does.
AnswersAt(k, s, flaws, says) ==
  /\ says # {} <=> k \in Own(s)
  /\ flaws \subseteq {"SkipWatermark"} => \A q \in says : q = CanonicalLog[k]
  /\ "WrongDecision" \in flaws /\ "ImpureClock" \notin flaws => \A q \in says : q # CanonicalLog[k]

LEMMA CandidateSays ==
  ASSUME Draw \in [Nat -> Nat], NEW n \in 0..Len(CanonicalLog), NEW s \in Strategy, NEW flaws,
         NEW says, says = PlayerEmits(s, flaws, At(n))
  PROVE  AnswersAt(n + 1, s, flaws, says)
<1>1. PICK st : st = At(n) /\ Calm(st) /\ Sane(st)
  BY CanonAt
<1>2. says # {} <=> n + 1 \in Own(s)
  BY <1>1, PlayerAnswers, TurnOnLog
<1>3. ASSUME n + 1 \in Own(s) PROVE PlayerEmits(s, {}, st) = {CanonicalLog[n + 1]}
  <2>1. n < Len(CanonicalLog)
    <3>1. PICK N \in Nat : N = Len(CanonicalLog)
      BY CanonicalIs, LenProperties
    <3>2. n + 1 \in 1..N
      BY <1>3, <3>1 DEF Own
    <3> QED
      BY <3>1, <3>2
  <2>2. Voices(st) = {CanonicalLog[n + 1]}
    BY <1>1, <2>1, CanonNext
  <2>3. PlayerEmits(s, {}, st) # {}
    BY <1>1, <1>3, PlayerAnswers, TurnOnLog
  <2>4. PlayerEmits(s, {}, st) \subseteq Voices(st)
    BY DEF Voices
  <2> QED
    BY <2>2, <2>3, <2>4
<1>4. ASSUME flaws \subseteq {"SkipWatermark"}, NEW q \in says PROVE q = CanonicalLog[n + 1]
  <2>1. {} \subseteq {"SkipWatermark"}
    OBVIOUS
  <2>2. says = PlayerEmits(s, {}, st)
    BY <1>1, <1>4, <2>1, SoundPlayerSays
  <2> QED
    BY <1>2, <1>3, <1>4, <2>2
<1>5. ASSUME "WrongDecision" \in flaws, "ImpureClock" \notin flaws, NEW q \in says
      PROVE  q # CanonicalLog[n + 1]
  BY <1>1, <1>2, <1>3, <1>5, WrongPlayerSays
<1> QED
  BY <1>2, <1>4, <1>5 DEF AnswersAt

LEMMA FreshCandidate ==
  ASSUME Draw \in [Nat -> Nat]
  PROVE  /\ At(0) = EmptyStore /\ EmptyStore.appliedSeq + 1 = 0
         /\ \A b : ~SF!Tainted(b, EmptyStore.completed)
         /\ \A s \in Strategy : OwnBefore(s, 2) = 0
<1>1. PICK none : none = <<>> /\ Len(none) = 0 /\ none = EmptyStore.completed
  BY DEF EmptyStore
<1>2. At(0) = EmptyStore
  <2>1. PICK D \in Seq(Payload) : D = SubSeq(CanonicalLog, 1, 0) /\ Len(D) = 0
    <3>1. PICK C \in Seq(Payload) : C = CanonicalLog
      BY CanonicalIs
    <3>2. 0 \in 0..Len(C)
      BY LenProperties
    <3>3. SubSeq(C, 1, 0) \in Seq(Payload) /\ Len(SubSeq(C, 1, 0)) = 0
      BY <3>2, Beginning
    <3> QED
      BY <3>1, <3>3
  <2>2. D = <<>>
    BY <2>1, EmptySeq
  <2> QED
    BY <2>1, <2>2, RebuildNothing DEF At
<1>3. EmptyStore.appliedSeq + 1 = 0
  BY DEF EmptyStore
<1>4. \A b : ~SF!Tainted(b, EmptyStore.completed)
  BY <1>1 DEF SF!Tainted
<1>5. ASSUME NEW s \in Strategy PROVE OwnBefore(s, 2) = 0
  <2>1. PICK N \in Nat : N = Len(CanonicalLog)
    BY CanonicalIs, LenProperties
  <2>2. \A m \in Own(s) : m \in 1..N /\ m # 1
    BY <2>1, FirstIsPairing DEF Own
  <2>3. {m \in Own(s) : m < 2} = {}
    BY <2>2
  <2> QED
    BY <2>3, FS_EmptySet DEF OwnBefore
<1> QED
  BY <1>2, <1>3, <1>4, <1>5

-----------------------------------------------------------------------------
\* The invariant of an examination: the candidate has computed the canonical states and
\* answered where the canonical log has its entries.
Wrong ==
  /\ component \in Strategy
  /\ "WrongDecision" \in defect.flaws /\ "ImpureClock" \notin defect.flaws
OnTrack ==
  /\ pass < RehearsalPasses
  /\ store = At(Position) /\ ~SF!Tainted(defect.bug, store.completed)
  /\ component \in Strategy => emitted = OwnBefore(component, Position + 2)
  /\ Wrong => emitted = 0
Deserved ==
  /\ Wrong => Own(component) = {}
  /\ defect.bug # NoBug => defect.bug >= MaxGames
Examined ==
  /\ RehearsalTypeOK
  /\ component \notin Strategy => defect.flaws = {}
  /\ verdict = "examining" => OnTrack
  /\ verdict = "admitted" => Deserved
  /\ SoundPlayersPass

LEMMA ExpectedIsOwn ==
  /\ Expected = Own(component)
  /\ \A k : ExpectedBefore(k) = OwnBefore(component, k)
BY DEF Expected, ExpectedBefore, Own, OwnBefore

LEMMA ExaminedInit ==
  ASSUME Draw \in [Nat -> Nat], RehearsalInit
  PROVE  Examined
<1>1. PICK N \in Nat, E \in Nat : N = Len(CanonicalLog) /\ E = Cardinality(Own(component))
  BY CanonicalIs, LenProperties, Counts
<1>2. Position = 0 /\ store = At(0) /\ ~SF!Tainted(defect.bug, store.completed)
  BY FreshCandidate DEF RehearsalInit, Position
<1>3. RehearsalTypeOK
  <2>1. Expected = Own(component)
    BY ExpectedIsOwn
  <2>2. 0 \in 0..N /\ 0 \in 0..E /\ 0 \in 0..RehearsalPasses
    BY DEF RehearsalPasses
  <2> QED
    BY <1>1, <1>2, <2>1, <2>2 DEF RehearsalTypeOK, RehearsalInit
<1>4. OnTrack
  <2>1. component \in Strategy => emitted = OwnBefore(component, Position + 2)
    <3>1. Position + 2 = 2
      BY <1>2
    <3> QED
      BY <3>1, FreshCandidate DEF RehearsalInit
  <2>2. pass < RehearsalPasses
    BY DEF RehearsalInit, RehearsalPasses
  <2> QED
    <3>1. Wrong => emitted = 0
      BY DEF RehearsalInit
    <3> QED
      BY <1>2, <2>1, <2>2, <3>1, Zenon DEF OnTrack
<1>5. component \notin Strategy => defect.flaws = {}
  BY DEF RehearsalInit
<1> QED
  BY <1>3, <1>4, <1>5 DEF Examined, SoundPlayersPass, RehearsalInit

LEMMA ReplayIs ==
  ASSUME Draw \in [Nat -> Nat], Examined, Replay
  PROVE  \E n \in 0..Len(CanonicalLog) :
           /\ n = Position /\ n + 1 \in 0..Len(CanonicalLog) /\ Position' = n + 1
           /\ verdict = "examining" /\ OnTrack
           /\ component' = component /\ defect' = defect /\ pass' = pass
           /\ \/ /\ CandidateEmits(store') = {} /\ emitted' = emitted
                 /\ verdict' = IF MatchesReference(store', n + 1) THEN "examining" ELSE "refused"
              \/ \E q \in CandidateEmits(store') :
                   /\ emitted' = IF CanonicalNext(q) THEN emitted + 1 ELSE emitted
                   /\ verdict' = IF CanonicalNext(q) /\ MatchesReference(store', n + 1)
                                 THEN "examining" ELSE "refused"
           /\ MatchesReference(store', n + 1) <=> ~SF!Tainted(defect.bug, store'.completed)
           /\ MatchesReference(store', n + 1) => store' = At(n + 1)
<1>1. PICK N \in Nat : N = Len(CanonicalLog)
  BY CanonicalIs, LenProperties
<1>2. PICK n \in 0..N : n = Position /\ n < N /\ n + 1 \in 0..N
  <2>1. Position \in 0..N /\ Position < N
    BY <1>1 DEF Examined, RehearsalTypeOK, Replay
  <2> QED
    BY <2>1
<1>3. verdict = "examining" /\ OnTrack
  BY DEF Replay, Examined
<1>4. PICK st : st = store' /\ st = ApplyEvent(defect.bug, At(n), n, CanonicalLog[n + 1])
  <2>1. store' = ApplyEvent(defect.bug, store, Position, CanonicalLog[Position + 1])
    BY DEF Replay
  <2>2. store = At(n)
    BY <1>2, <1>3 DEF OnTrack
  <2> QED
    BY <1>2, <2>1, <2>2
<1>5. ~SF!Tainted(defect.bug, At(n).completed)
  BY <1>2, <1>3 DEF OnTrack
<1>6. /\ st.appliedSeq = n
      /\ MatchesReference(st, n + 1) <=> ~SF!Tainted(defect.bug, st.completed)
      /\ MatchesReference(st, n + 1) => st = At(n + 1)
  BY <1>1, <1>2, <1>4, <1>5, ReplayTells
<1>7. Position' = n + 1
  BY <1>4, <1>6 DEF Position
<1>8. \/ /\ CandidateEmits(st) = {} /\ emitted' = emitted
         /\ verdict' = IF MatchesReference(st, n + 1) THEN "examining" ELSE "refused"
      \/ \E q \in CandidateEmits(st) :
           /\ emitted' = IF CanonicalNext(q) THEN emitted + 1 ELSE emitted
           /\ verdict' = IF CanonicalNext(q) /\ MatchesReference(st, n + 1)
                         THEN "examining" ELSE "refused"
  BY <1>2, <1>4, Zenon DEF Replay
<1>9. component' = component /\ defect' = defect /\ pass' = pass
  BY DEF Replay
<1> QED
  BY <1>1, <1>2, <1>3, <1>4, <1>6, <1>7, <1>8, <1>9, Zenon

\* An answer that is the next entry of the log is counted, and there was room for it.
LEMMA AnswerIsCounted ==
  ASSUME Draw \in [Nat -> Nat], NEW q, CanonicalNext(q), emitted \in Nat
  PROVE  /\ emitted + 1 <= Cardinality(Own(component))
         /\ \A k \in Own(component) : emitted = OwnBefore(component, k) => q = CanonicalLog[k]
<1>1. PICK j \in Own(component) : OwnBefore(component, j) = emitted /\ q = CanonicalLog[j]
  BY ExpectedIsOwn DEF CanonicalNext
<1>2. PICK N \in Nat : N = Len(CanonicalLog)
  BY CanonicalIs, LenProperties
<1>3. \A k \in Own(component) : k \in Nat
  BY <1>2 DEF Own
<1>4. PICK E \in Nat : E = Cardinality(Own(component))
  BY Counts
<1>5. emitted + 1 <= E
  <2>1. OwnBefore(component, j + 1) = OwnBefore(component, j) + 1
    BY <1>1, <1>3, Counts
  <2>2. OwnBefore(component, j + 1) <= E
    <3>1. j + 1 \in Nat
      BY <1>3
    <3> QED
      BY <1>4, <3>1, Counts
  <2> QED
    BY <1>1, <2>1, <2>2
<1>6. ASSUME NEW k \in Own(component), emitted = OwnBefore(component, k) PROVE q = CanonicalLog[k]
  <2>1. ~(j < k) /\ ~(k < j)
    <3>1. ~(OwnBefore(component, j) < OwnBefore(component, k))
      BY <1>1, <1>6
    <3>2. ~(OwnBefore(component, k) < OwnBefore(component, j))
      BY <1>1, <1>6
    <3> QED
      BY <3>1, <3>2, Counts
  <2>2. j = k
    BY <1>3, <2>1
  <2> QED
    BY <1>1, <2>2
<1> QED
  BY <1>4, <1>5, <1>6

\* The next own entry, when it is the answer, is canonical.
LEMMA AnswerIsNext ==
  ASSUME NEW k \in Own(component), emitted = OwnBefore(component, k)
  PROVE  CanonicalNext(CanonicalLog[k])
BY ExpectedIsOwn DEF CanonicalNext

LEMMA ReplayKeepsType ==
  ASSUME Draw \in [Nat -> Nat], Examined, Replay
  PROVE  RehearsalTypeOK'
<1>1. PICK N \in Nat, E \in Nat : N = Len(CanonicalLog) /\ E = Cardinality(Own(component))
  BY CanonicalIs, LenProperties, Counts
<1>2. PICK n \in 0..N :
        /\ n + 1 \in 0..N /\ Position' = n + 1
        /\ component' = component /\ defect' = defect /\ pass' = pass
        /\ verdict' \in {"examining", "refused", "admitted"}
        /\ emitted' = emitted \/ (emitted' = emitted + 1 /\ \E q : CanonicalNext(q))
  <2>1. PICK n \in 0..Len(CanonicalLog) :
           /\ n + 1 \in 0..Len(CanonicalLog) /\ Position' = n + 1
           /\ component' = component /\ defect' = defect /\ pass' = pass
           /\ \/ /\ emitted' = emitted
                 /\ verdict' = IF MatchesReference(store', n + 1) THEN "examining" ELSE "refused"
              \/ \E q \in CandidateEmits(store') :
                   /\ emitted' = IF CanonicalNext(q) THEN emitted + 1 ELSE emitted
                   /\ verdict' = IF CanonicalNext(q) /\ MatchesReference(store', n + 1)
                                 THEN "examining" ELSE "refused"
    BY ReplayIs, Zenon
  <2>2. verdict' \in {"examining", "refused", "admitted"}
    <3>1. \/ verdict' = IF MatchesReference(store', n + 1) THEN "examining" ELSE "refused"
          \/ \E q : verdict' = IF CanonicalNext(q) /\ MatchesReference(store', n + 1)
                              THEN "examining" ELSE "refused"
      BY <2>1, Zenon
    <3> QED
      BY <3>1
  <2>3. emitted' = emitted \/ (emitted' = emitted + 1 /\ \E q : CanonicalNext(q))
    <3>1. emitted' = emitted \/ \E q : emitted' = IF CanonicalNext(q) THEN emitted + 1 ELSE emitted
      BY <2>1, Zenon
    <3>2. CASE emitted' # emitted
      <4>1. PICK q : emitted' = IF CanonicalNext(q) THEN emitted + 1 ELSE emitted
        BY <3>1, <3>2
      <4>2. CanonicalNext(q)
        BY <3>2, <4>1
      <4>3. emitted' = emitted + 1
        BY <4>1, <4>2, Zenon
      <4> QED
        BY <4>2, <4>3, Zenon
    <3> QED
      BY <3>2, Zenon
  <2> QED
    BY <1>1, <2>1, <2>2, <2>3
<1>3. /\ component \in Candidates /\ defect \in Defects /\ pass \in 0..RehearsalPasses
      /\ emitted \in 0..E
  BY <1>1, ExpectedIsOwn DEF Examined, RehearsalTypeOK
<1>4. emitted' \in 0..E
  <2>1. CASE emitted' = emitted
    BY <1>3, <2>1
  <2>2. ASSUME emitted' = emitted + 1, NEW q, CanonicalNext(q) PROVE emitted' \in 0..E
    <3>1. emitted \in Nat
      BY <1>3
    <3>2. emitted + 1 <= E
      BY <1>1, <2>2, <3>1, AnswerIsCounted
    <3> QED
      BY <2>2, <3>1, <3>2
  <2> QED
    BY <1>2, <2>1, <2>2
<1>5. Expected' = Own(component)
  BY <1>2 DEF Expected, Own
<1>6. Position' \in 0..Len(CanonicalLog)
  BY <1>1, <1>2
<1> QED
  BY <1>1, <1>2, <1>3, <1>4, <1>5, <1>6 DEF RehearsalTypeOK

\* A candidate that is not refused is still on track.
LEMMA ReplayStaysOnTrack ==
  ASSUME Draw \in [Nat -> Nat], Examined, Replay, verdict' = "examining"
  PROVE  OnTrack'
<1>1. PICK n \in 0..Len(CanonicalLog) :
        /\ n = Position /\ n + 1 \in 0..Len(CanonicalLog) /\ Position' = n + 1 /\ OnTrack
        /\ component' = component /\ defect' = defect /\ pass' = pass
        /\ \/ CandidateEmits(store') = {} /\ emitted' = emitted
           \/ \E q \in CandidateEmits(store') : CanonicalNext(q) /\ emitted' = emitted + 1
        /\ ~SF!Tainted(defect.bug, store'.completed) /\ store' = At(n + 1)
  <2>0. "examining" # "refused"
    OBVIOUS
  <2>1. PICK n \in 0..Len(CanonicalLog) :
           /\ n = Position /\ n + 1 \in 0..Len(CanonicalLog) /\ Position' = n + 1 /\ OnTrack
           /\ component' = component /\ defect' = defect /\ pass' = pass
           /\ \/ /\ CandidateEmits(store') = {} /\ emitted' = emitted
                 /\ verdict' = IF MatchesReference(store', n + 1) THEN "examining" ELSE "refused"
              \/ \E q \in CandidateEmits(store') :
                   /\ emitted' = IF CanonicalNext(q) THEN emitted + 1 ELSE emitted
                   /\ verdict' = IF CanonicalNext(q) /\ MatchesReference(store', n + 1)
                                 THEN "examining" ELSE "refused"
           /\ MatchesReference(store', n + 1) <=> ~SF!Tainted(defect.bug, store'.completed)
           /\ MatchesReference(store', n + 1) => store' = At(n + 1)
    BY ReplayIs, Zenon
  <2>2. MatchesReference(store', n + 1)
    BY <2>0, <2>1, Zenon
  <2>3. \/ CandidateEmits(store') = {} /\ emitted' = emitted
        \/ \E q \in CandidateEmits(store') : CanonicalNext(q) /\ emitted' = emitted + 1
    BY <2>0, <2>1, Zenon
  <2> QED
    BY <2>1, <2>2, <2>3, Zenon
<1>2. pass < RehearsalPasses /\ emitted \in Nat
  <2>1. pass < RehearsalPasses
    BY <1>1 DEF OnTrack
  <2>2. emitted \in 0..Cardinality(Own(component))
    BY ExpectedIsOwn DEF Examined, RehearsalTypeOK
  <2> QED
    BY <2>1, <2>2
<1>3. ASSUME component \in Strategy
      PROVE  emitted' = OwnBefore(component, n + 3) /\ (Wrong => emitted' = 0)
  <2>1. PICK s, flaws : s \in Strategy /\ s = component /\ flaws = defect.flaws
    BY <1>3
  <2>2. s # InjectorName
    BY <2>1 DEF Strategy, InjectorName
  <2>3. PICK says : says = PlayerEmits(s, flaws, At(n + 1)) /\ says = CandidateEmits(store')
    BY <1>1, <2>1, <2>2 DEF CandidateEmits
  <2>4. PICK k \in Nat : k = (n + 1) + 1 /\ k = Position + 2 /\ k + 1 = n + 3
    <3>1. n \in Nat
      BY CanonicalIs, LenProperties
    <3> QED
      BY <1>1, <3>1
  <2>5. /\ says # {} <=> k \in Own(s)
        /\ "WrongDecision" \in flaws /\ "ImpureClock" \notin flaws => \A q \in says : q # CanonicalLog[k]
    <3>1. PICK m \in 0..Len(CanonicalLog) : m = n + 1
      BY <1>1
    <3>2. says = PlayerEmits(s, flaws, At(m)) /\ k = m + 1
      BY <2>3, <2>4, <3>1
    <3>3. AnswersAt(m + 1, s, flaws, says)
      BY <2>1, <3>2, CandidateSays
    <3> QED
      BY <3>2, <3>3 DEF AnswersAt
  <2>6. emitted = OwnBefore(s, k) /\ (Wrong => emitted = 0)
    BY <1>1, <2>1, <2>4 DEF OnTrack
  <2>7. OwnBefore(s, k + 1) = OwnBefore(s, k) + (IF k \in Own(s) THEN 1 ELSE 0)
    BY <2>4, Counts
  <2>8. CASE CandidateEmits(store') = {} /\ emitted' = emitted
    <3>1. k \notin Own(s)
      BY <2>3, <2>5, <2>8
    <3>2. OwnBefore(s, k + 1) = emitted
      BY <1>2, <2>6, <2>7, <3>1
    <3> QED
      BY <2>1, <2>4, <2>6, <2>8, <3>2
  <2>9. ASSUME NEW q \in says, CanonicalNext(q), emitted' = emitted + 1
        PROVE  emitted' = OwnBefore(component, n + 3) /\ (Wrong => emitted' = 0)
    <3>1. k \in Own(s)
      BY <2>5, <2>9
    <3>2. q = CanonicalLog[k]
      BY <1>2, <2>1, <2>6, <2>9, <3>1, AnswerIsCounted
    <3>3. ~Wrong
      BY <2>1, <2>5, <3>2 DEF Wrong
    <3>4. OwnBefore(s, k + 1) = emitted + 1
      BY <2>6, <2>7, <3>1
    <3> QED
      BY <2>1, <2>4, <2>9, <3>3, <3>4
  <2> QED
    BY <1>1, <2>3, <2>8, <2>9
<1>4. Wrong' <=> Wrong
  BY <1>1 DEF Wrong
<1>5. Position' + 2 = n + 3
  <2>1. n \in Nat
    BY CanonicalIs, LenProperties
  <2> QED
    BY <1>1, <2>1
<1>6. Wrong' => emitted' = 0
  BY <1>3, <1>4 DEF Wrong
<1>7. component' \in Strategy => emitted' = OwnBefore(component', Position' + 2)
  BY <1>1, <1>3, <1>5
<1>8. store' = At(Position') /\ ~SF!Tainted(defect'.bug, store'.completed) /\ pass' < RehearsalPasses
  BY <1>1, <1>2
<1> QED
  BY <1>6, <1>7, <1>8 DEF OnTrack, At, OwnBefore, Own, SF!Tainted

\* A player with nothing wrong with it is not refused.
LEMMA ReplayPasses ==
  ASSUME Draw \in [Nat -> Nat], Examined, Replay
  PROVE  SoundPlayersPass'
<1> SUFFICES ASSUME component \in Strategy, SoundCandidate PROVE verdict' # "refused"
  BY DEF Replay, SoundPlayersPass, SoundCandidate
<1>0. "examining" # "refused"
  OBVIOUS
<1>1. PICK n \in 0..Len(CanonicalLog) :
        /\ n = Position /\ n + 1 \in 0..Len(CanonicalLog) /\ OnTrack
        /\ \/ verdict' = IF MatchesReference(store', n + 1) THEN "examining" ELSE "refused"
           \/ \E q \in CandidateEmits(store') :
                verdict' = IF CanonicalNext(q) /\ MatchesReference(store', n + 1)
                           THEN "examining" ELSE "refused"
        /\ MatchesReference(store', n + 1) <=> ~SF!Tainted(defect.bug, store'.completed)
        /\ MatchesReference(store', n + 1) => store' = At(n + 1)
  BY ReplayIs, Zenon
<1>2. MatchesReference(store', n + 1) /\ store' = At(n + 1)
  <2>1. defect.bug = NoBug /\ SF!NoBug = NoBug
    BY DEF SoundCandidate, SF!NoBug, NoBug
  <2>2. ~SF!Tainted(defect.bug, store'.completed)
    BY <2>1 DEF SF!Tainted
  <2> QED
    BY <1>1, <2>2, Zenon
<1>3. ASSUME NEW q \in CandidateEmits(store') PROVE CanonicalNext(q)
  <2>1. PICK s, flaws : s \in Strategy /\ s = component /\ flaws = defect.flaws /\ flaws \subseteq {"SkipWatermark"}
    BY DEF SoundCandidate
  <2>2. s # InjectorName
    BY <2>1 DEF Strategy, InjectorName
  <2>3. PICK says : says = PlayerEmits(s, flaws, At(n + 1)) /\ q \in says
    BY <1>2, <1>3, <2>1, <2>2 DEF CandidateEmits
  <2>4. PICK k : k = (n + 1) + 1 /\ k = Position + 2
    <3>1. n \in Nat
      BY CanonicalIs, LenProperties
    <3> QED
      BY <1>1, <3>1
  <2>5. k \in Own(s) /\ q = CanonicalLog[k]
    <3>1. PICK m \in 0..Len(CanonicalLog) : m = n + 1
      BY <1>1
    <3>2. says = PlayerEmits(s, flaws, At(m)) /\ k = m + 1
      BY <2>3, <2>4, <3>1
    <3>3. AnswersAt(m + 1, s, flaws, says)
      BY <2>1, <3>2, CandidateSays
    <3> QED
      BY <2>1, <2>3, <3>2, <3>3 DEF AnswersAt
  <2>6. emitted = OwnBefore(s, k)
    BY <1>1, <2>1, <2>4 DEF OnTrack
  <2> QED
    BY <2>1, <2>5, <2>6, AnswerIsNext
<1>4. verdict' = "examining"
  BY <1>1, <1>2, <1>3, Zenon
<1> QED
  BY <1>0, <1>4
LEMMA ReplayKeeps ==
  ASSUME Draw \in [Nat -> Nat], Examined, Replay
  PROVE  Examined'
<1>1. RehearsalTypeOK'
  BY ReplayKeepsType
<1>2. component' = component /\ defect' = defect
  BY DEF Replay
<1>3. component' \notin Strategy => defect'.flaws = {}
  BY <1>2 DEF Examined
<1>4. verdict' = "examining" => OnTrack'
  BY ReplayStaysOnTrack
<1>5. verdict' # "admitted"
  <2>1. \/ \E n : verdict' = IF MatchesReference(store', n + 1) THEN "examining" ELSE "refused"
        \/ \E n, q : verdict' = IF CanonicalNext(q) /\ MatchesReference(store', n + 1)
                                THEN "examining" ELSE "refused"
    BY ReplayIs, Zenon
  <2>2. verdict' = "examining" \/ verdict' = "refused"
    BY <2>1, Zenon
  <2> QED
    BY <2>2
<1>6. SoundPlayersPass'
  BY ReplayPasses
<1> QED
  BY <1>1, <1>3, <1>4, <1>5, <1>6 DEF Examined

\* When the log is replayed, a player that is on track has emitted everything it should.
LEMMA AllEmitted ==
  ASSUME Draw \in [Nat -> Nat], OnTrack, Position = Len(CanonicalLog), component \in Strategy
  PROVE  emitted = Cardinality(Expected)
<1>1. PICK N \in Nat : N = Len(CanonicalLog)
  BY CanonicalIs, LenProperties
<1>2. PICK k \in Nat : k = Position + 2 /\ k > Len(CanonicalLog)
  BY <1>1
<1>3. emitted = OwnBefore(component, k)
  BY <1>2 DEF OnTrack
<1>4. OwnBefore(component, k) = Cardinality(Own(component))
  BY <1>2, Counts
<1> QED
  BY <1>3, <1>4, ExpectedIsOwn

\* Whoever is on track to the end deserves to be admitted.
LEMMA OnTrackDeserves ==
  ASSUME Draw \in [Nat -> Nat], RehearsalTypeOK, OnTrack, Position = Len(CanonicalLog)
  PROVE  Deserved
<1>1. ASSUME Wrong PROVE Own(component) = {}
  <2>1. emitted = 0 /\ component \in Strategy
    BY <1>1 DEF OnTrack, Wrong
  <2>2. Cardinality(Own(component)) = 0
    BY <2>1, AllEmitted, ExpectedIsOwn
  <2> QED
    BY <2>2, Counts, FS_EmptySet
<1>2. ASSUME defect.bug # NoBug PROVE defect.bug >= MaxGames
  <2>1. PICK b \in Nat : b = defect.bug
    BY <1>2, RehearsalAssumption DEF RehearsalTypeOK
  <2>2. PICK n \in 0..Len(CanonicalLog) : n = Len(CanonicalLog)
    <3>1. PICK N \in Nat : N = Len(CanonicalLog)
      BY CanonicalIs, LenProperties
    <3> QED
      BY <3>1
  <2>3. PICK st : st = At(n) /\ Calm(st) /\ SF!Numbered(st)
    BY <2>2, CanonAt
  <2>4. Len(st.completed) = MaxGames
    BY <2>2, <2>3, OverAtEnd
  <2>5. ~SF!Tainted(b, st.completed)
    <3>1. store = st
      BY <2>2, <2>3 DEF OnTrack
    <3> QED
      BY <2>1, <3>1 DEF OnTrack
  <2>6. PICK S : st \in SF!Store(S)
    BY <2>3, Zenon DEF Calm
  <2>7. Len(st.completed) <= b
    BY <2>3, <2>5, <2>6, SF!PaidShows, FeedAssumptionHolds
  <2> QED
    BY <2>1, <2>4, <2>7, InjectorAssumption
<1> QED
  BY <1>1, <1>2 DEF Deserved

LEMMA EndPassKeeps ==
  ASSUME Draw \in [Nat -> Nat], Examined, EndPass
  PROVE  Examined'
<1>1. /\ verdict = "examining" /\ Position = Len(CanonicalLog)
      /\ component' = component /\ defect' = defect
      /\ \/ /\ emitted # Cardinality(Expected) /\ verdict' = "refused"
            /\ pass' = pass /\ store' = store /\ emitted' = emitted
         \/ /\ emitted = Cardinality(Expected) /\ pass' = pass + 1
            /\ verdict' = IF LastPass THEN "admitted" ELSE "examining"
            /\ store' = EmptyStore /\ emitted' = 0
  BY DEF EndPass, NextCandidate
<1>2. OnTrack /\ RehearsalTypeOK /\ (component \notin Strategy => defect.flaws = {})
  BY <1>1 DEF Examined
<1>3. component' \notin Strategy => defect'.flaws = {}
  BY <1>1, <1>2
<1>4. pass \in 0..RehearsalPasses /\ pass < RehearsalPasses /\ RehearsalPasses = 3
  BY <1>2 DEF OnTrack, RehearsalTypeOK, RehearsalPasses
<1>5. PICK N \in Nat, E \in Nat : N = Len(CanonicalLog) /\ E = Cardinality(Own(component))
  BY CanonicalIs, LenProperties, Counts
<1>6. Expected' = Own(component)
  BY <1>1 DEF Expected, Own
<1>7. CASE /\ emitted # Cardinality(Expected) /\ verdict' = "refused"
           /\ pass' = pass /\ store' = store /\ emitted' = emitted
  <2>1. component \notin Strategy
    BY <1>1, <1>2, <1>7, AllEmitted
  <2>2. RehearsalTypeOK'
    <3>1. Position' = Position
      BY <1>7 DEF Position
    <3>2. emitted \in 0..Cardinality(Own(component))
      BY <1>2, ExpectedIsOwn DEF RehearsalTypeOK
    <3> QED
      BY <1>1, <1>2, <1>6, <1>7, <3>1, <3>2 DEF RehearsalTypeOK
  <2>3. SoundPlayersPass'
    BY <1>1, <2>1 DEF SoundPlayersPass
  <2> QED
    BY <1>3, <1>7, <2>2, <2>3 DEF Examined
<1>8. CASE /\ emitted = Cardinality(Expected) /\ pass' = pass + 1
           /\ verdict' = IF LastPass THEN "admitted" ELSE "examining"
           /\ store' = EmptyStore /\ emitted' = 0
  <2>1. Position' = 0
    BY <1>8, FreshCandidate DEF Position
  <2>2. verdict' = "admitted" \/ (verdict' = "examining" /\ ~LastPass)
    BY <1>8
  <2>3. pass' \in 0..RehearsalPasses /\ (~LastPass => pass' < RehearsalPasses)
    BY <1>4, <1>8 DEF LastPass
  <2>4. RehearsalTypeOK'
    <3>1. 0 \in 0..N /\ 0 \in 0..E
      OBVIOUS
    <3> QED
      BY <1>1, <1>2, <1>5, <1>6, <1>8, <2>1, <2>2, <2>3, <3>1 DEF RehearsalTypeOK
  <2>5. ASSUME verdict' = "examining" PROVE OnTrack'
    <3>1. pass' < RehearsalPasses
      BY <2>2, <2>3, <2>5
    <3>2. store' = At(Position') /\ ~SF!Tainted(defect'.bug, store'.completed)
      BY <1>8, <2>1, FreshCandidate
    <3>3. component' \in Strategy => emitted' = OwnBefore(component', Position' + 2)
      <4>1. Position' + 2 = 2
        BY <2>1
      <4> QED
        BY <1>8, <4>1, FreshCandidate
    <3>4. Wrong' => emitted' = 0
      BY <1>8
    <3> QED
      BY <3>1, <3>2, <3>3, <3>4 DEF OnTrack, At, OwnBefore, Own, SF!Tainted
  <2>6. Deserved'
    <3>1. Deserved
      BY <1>1, <1>2, OnTrackDeserves
    <3> QED
      BY <1>1, <3>1 DEF Deserved, Wrong, Own
  <2>7. SoundPlayersPass'
    BY <2>2 DEF SoundPlayersPass
  <2> QED
    BY <1>3, <2>4, <2>5, <2>6, <2>7 DEF Examined
<1> QED
  BY <1>1, <1>7, <1>8

LEMMA ExaminedStutter ==
  ASSUME Examined, UNCHANGED rehearsalVars
  PROVE  Examined'
BY DEF Examined, rehearsalVars, RehearsalTypeOK, Expected, Position, OnTrack, Deserved, Wrong,
       SoundPlayersPass, SoundCandidate, At, Own, OwnBefore, SF!Tainted

LEMMA ExaminedIsKept ==
  ASSUME Draw \in [Nat -> Nat]
  PROVE  RehearsalSpec => []Examined
<1>1. RehearsalInit => Examined
  BY ExaminedInit
<1>2. Examined /\ [RehearsalNext]_rehearsalVars => Examined'
  BY ReplayKeeps, EndPassKeeps, ExaminedStutter DEF RehearsalNext
<1> QED
  BY <1>1, <1>2, PTL DEF RehearsalSpec

\* A player with nothing wrong with it passes its examination, whatever the tournament:
\* at every event it is silent or says the log's own entry, and its chain is the
\* canonical one (session.go Restart; rehearsal.go).
THEOREM SoundPlayersAreAdmitted ==
  ASSUME Draw \in [Nat -> Nat]
  PROVE  RehearsalSpec => []SoundPlayersPass
<1>1. Examined => SoundPlayersPass
  BY DEF Examined
<1> QED
  BY <1>1, ExaminedIsKept, PTL

\* A player that inverts its decisions is admitted only if the tournament never asks it
\* anything, and one whose transition function is corrupted only if the tournament is
\* over before the corruption sets in (Config.WrongDecision, rehearse's comparisons).
THEOREM DefectivePlayersAreCaught ==
  ASSUME Draw \in [Nat -> Nat]
  PROVE  RehearsalSpec => []DefectsCaught
<1>1. ASSUME Examined PROVE DefectsCaught
  <2>1. RehearsalTypeOK /\ (verdict = "admitted" => Deserved)
    BY <1>1 DEF Examined
  <2>2. ASSUME verdict = "admitted", "WrongDecision" \in defect.flaws,
               "ImpureClock" \notin defect.flaws
        PROVE  ~Plays
    <3>1. component \in Strategy
      BY <1>1, <2>2 DEF Examined
    <3>2. Own(component) = {}
      BY <2>1, <2>2, <3>1 DEF Deserved, Wrong
    <3> QED
      BY <3>2, ExpectedIsOwn DEF Plays
  <2>3. ASSUME verdict = "admitted" PROVE defect.bug \in {NoBug} \cup {n \in Nat : n >= MaxGames}
    <3>1. defect.bug \in Nat \cup {NoBug}
      BY <2>1, RehearsalAssumption DEF RehearsalTypeOK
    <3> QED
      BY <2>1, <2>3, <3>1 DEF Deserved
  <2> QED
    BY <2>1, <2>2, <2>3 DEF DefectsCaught
<1>2. Examined => DefectsCaught
  BY <1>1
<1> QED
  BY <1>2, ExaminedIsKept, PTL
=============================================================================
