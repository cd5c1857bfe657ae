---------------------------- MODULE StreamProofs ----------------------------
(***************************************************************************)
(* Proofs about the event stream and the page that folds it (Stream).      *)
(***************************************************************************)
EXTENDS Stream, SequenceTheorems, TLAPS

\* A sequence of feed events that are those of the tournament from the first on.
Whole(feed) ==
  \A i \in 1..Len(feed) : i <= 4 * Games /\ feed[i] = WholeFeed[i]

-----------------------------------------------------------------------------
\* The invariant.  A tracker's snapshot is whole: the feed goes as far as its sequenced
\* events, a game that is completed has all its four.
Published ==
  \A t \in Tournament :
    /\ snapshot[t].completed = snapshot[t].seq \div 3
    /\ Len(snapshot[t].feed) = 4 * (snapshot[t].seq \div 3) + (snapshot[t].seq % 3)
    /\ Whole(snapshot[t].feed)

\* mark[i] is how many events the page will have applied once it has read i frames of the
\* wire: each feed frame is the next event, each status only tells what goes before it.
Tracks(mark, frames, applied) ==
  /\ mark \in [0..Len(frames) -> Nat]
  /\ mark[0] = applied
  /\ \A i \in 1..Len(frames) :
       \/ /\ frames[i].kind = "feed"
          /\ frames[i].index = mark[i - 1]
          /\ mark[i] = mark[i - 1] + 1
          /\ mark[i] <= 4 * Games
          /\ frames[i].event = WholeFeed[mark[i]]
       \/ /\ frames[i].kind = "status"
          /\ mark[i] = mark[i - 1]
          /\ 4 * frames[i].completed <= mark[i]
       \/ /\ frames[i].kind = "open"
          /\ mark[i] = mark[i - 1]

\* The handler is where the page will be after all the frames on the wire.
InFlight ==
  \E mark : /\ Tracks(mark, wire, page.nextIndex)
            /\ stream # NoStream => stream.from = mark[Len(wire)]
Linked ==
  /\ conn # "open" => stream = NoStream /\ wire = <<>>
  /\ conn # "closed" => page.retries <= MaxRetries

\* The status it is about to send tells no more than it has sent.
Pending ==
  stream # NoStream /\ stream.next = "status" => 4 * stream.completed <= stream.from

Applied == page.nextIndex = Len(page.folded) /\ Whole(page.folded)

IInv == TypeOK /\ Published /\ InFlight /\ Linked /\ Pending /\ Applied /\ NoSpoiler

-----------------------------------------------------------------------------
\* Arithmetic of games: three sequenced events a game, four events of the feed.
LEMMA Thirds ==
  ASSUME NEW n \in Nat
  PROVE  \E g \in Nat, r \in 0..2 : n = 3 * g + r /\ n \div 3 = g /\ n % 3 = r
  OBVIOUS

LEMMA Event ==
  ASSUME NEW g \in 0..(Games - 1), NEW p \in 0..3
  PROVE  /\ 4 * g + p + 1 \in 1..(4 * Games)
         /\ WholeFeed[4 * g + p + 1] =
              [seq |-> 3 * g + (IF p = 3 THEN 2 ELSE p),
               kind |-> <<"new-game", "decision", "decision", "game-completed">>[p + 1],
               game |-> g]
         /\ WholeFeed[4 * g + p + 1] \in FeedEvent
<1> Games \in Nat \ {0}
  BY StreamAssumption
<1>1. 4 * g + p + 1 \in 1..(4 * Games)
  OBVIOUS
<1>2. (4 * g + p + 1 - 1) % 4 = p /\ (4 * g + p + 1 - 1) \div 4 = g
  OBVIOUS
<1>3. WholeFeed[4 * g + p + 1] =
        [seq |-> 3 * g + (IF p = 3 THEN 2 ELSE p),
         kind |-> <<"new-game", "decision", "decision", "game-completed">>[p + 1],
         game |-> g]
  BY <1>1, <1>2 DEF WholeFeed
<1>4. 3 * g + (IF p = 3 THEN 2 ELSE p) \in Nat
  OBVIOUS
<1>5. <<"new-game", "decision", "decision", "game-completed">>[p + 1]
        \in {"new-game", "decision", "game-completed"}
  <2>1. p = 0 \/ p = 1 \/ p = 2 \/ p = 3
    OBVIOUS
  <2> QED
    BY <2>1
<1> QED
  BY <1>1, <1>3, <1>4, <1>5 DEF FeedEvent

LEMMA Quarters ==
  ASSUME NEW i \in 1..(4 * Games)
  PROVE  \E g \in 0..(Games - 1), p \in 0..3 : i = 4 * g + p + 1
<1> Games \in Nat \ {0}
  BY StreamAssumption
<1>1. (i - 1) \div 4 \in 0..(Games - 1) /\ (i - 1) % 4 \in 0..3
  OBVIOUS
<1>2. i = 4 * ((i - 1) \div 4) + ((i - 1) % 4) + 1
  OBVIOUS
<1> QED
  BY <1>1, <1>2

LEMMA WholeFeedType ==
  /\ WholeFeed \in Seq(FeedEvent)
  /\ Len(WholeFeed) = 4 * Games
<1>1. 4 * Games \in Nat
  BY StreamAssumption
<1>2. ASSUME NEW i \in 1..(4 * Games) PROVE WholeFeed[i] \in FeedEvent
  <2>1. PICK g \in 0..(Games - 1), p \in 0..3 : i = 4 * g + p + 1
    BY Quarters
  <2> QED
    BY <2>1, Event
<1>3. WholeFeed = [i \in 1..(4 * Games) |-> WholeFeed[i]]
  BY DEF WholeFeed
<1> QED
  BY <1>1, <1>2, <1>3, IsASeq

\* What record makes of an event is what comes next in the feed of the tournament.
LEMMA NextEvents ==
  ASSUME NEW g \in 0..(Games - 1), NEW r \in 0..2
  PROVE  /\ Recorded(3 * g + r) \in Seq(FeedEvent)
         /\ 4 * g + r + Len(Recorded(3 * g + r))
              = IF r = 2 THEN 4 * (g + 1) ELSE 4 * g + (r + 1)
         /\ \A k \in 1..Len(Recorded(3 * g + r)) :
              /\ 4 * g + r + k <= 4 * Games
              /\ Recorded(3 * g + r)[k] = WholeFeed[4 * g + r + k]
<1> Games \in Nat \ {0}
  BY StreamAssumption
<1> DEFINE E(p) == WholeFeed[4 * g + p + 1]
<1>1. (3 * g + r) \div 3 = g /\ (3 * g + r) % 3 = r
  OBVIOUS
<1>2. /\ E(0) = [seq |-> 3 * g, kind |-> "new-game", game |-> g]
      /\ E(1) = [seq |-> 3 * g + 1, kind |-> "decision", game |-> g]
      /\ E(2) = [seq |-> 3 * g + 2, kind |-> "decision", game |-> g]
      /\ E(3) = [seq |-> 3 * g + 2, kind |-> "game-completed", game |-> g]
  <2>1. \A p \in 0..3 :
          E(p) = [seq |-> 3 * g + (IF p = 3 THEN 2 ELSE p),
                  kind |-> <<"new-game", "decision", "decision", "game-completed">>[p + 1],
                  game |-> g]
    BY Event
  <2> HIDE DEF E
  <2>2. 0 \in 0..3 /\ 1 \in 0..3 /\ 2 \in 0..3 /\ 3 \in 0..3
    OBVIOUS
  <2>3. E(0) = [seq |-> 3 * g, kind |-> "new-game", game |-> g]
    BY <2>1, <2>2
  <2>4. E(1) = [seq |-> 3 * g + 1, kind |-> "decision", game |-> g]
    BY <2>1, <2>2
  <2>5. E(2) = [seq |-> 3 * g + 2, kind |-> "decision", game |-> g]
    BY <2>1, <2>2
  <2>6. E(3) = [seq |-> 3 * g + 2, kind |-> "game-completed", game |-> g]
    BY <2>1, <2>2
  <2> QED
    BY <2>3, <2>4, <2>5, <2>6
<1>3. ASSUME NEW p \in 0..3 PROVE E(p) \in FeedEvent /\ 4 * g + p + 1 <= 4 * Games
  <2>1. 4 * g + p + 1 \in 1..(4 * Games) /\ WholeFeed[4 * g + p + 1] \in FeedEvent
    BY Event
  <2> QED
    BY <2>1
<1> HIDE DEF E
<1>4. CASE r = 0
  <2>1. Recorded(3 * g + r) = <<E(0)>>
    BY <1>1, <1>2, <1>4 DEF Recorded
  <2>2. Len(<<E(0)>>) = 1 /\ <<E(0)>>[1] = E(0) /\ <<E(0)>> \in Seq(FeedEvent)
    BY <1>3
  <2>3. WholeFeed[4 * g + r + 1] = E(0) /\ 4 * g + r + 1 <= 4 * Games
    BY <1>3, <1>4 DEF E
  <2> DEFINE R == Recorded(3 * g + r)
  <2>4. R \in Seq(FeedEvent) /\ Len(R) = 1 /\ R[1] = WholeFeed[4 * g + r + 1]
    BY <2>1, <2>2, <2>3
  <2> HIDE DEF R
  <2>5. \A k \in 1..Len(R) : 4 * g + r + k <= 4 * Games /\ R[k] = WholeFeed[4 * g + r + k]
    <3>1. \A k \in 1..Len(R) : k = 1
      BY <2>4
    <3> QED
      BY <2>3, <2>4, <3>1
  <2>6. 4 * g + r + Len(R) = IF r = 2 THEN 4 * (g + 1) ELSE 4 * g + (r + 1)
    BY <1>4, <2>4
  <2> QED
    BY <2>4, <2>5, <2>6 DEF R
<1>5. CASE r = 1
  <2>1. Recorded(3 * g + r) = <<E(1)>>
    BY <1>1, <1>2, <1>5 DEF Recorded
  <2>2. Len(<<E(1)>>) = 1 /\ <<E(1)>>[1] = E(1) /\ <<E(1)>> \in Seq(FeedEvent)
    BY <1>3
  <2>3. WholeFeed[4 * g + r + 1] = E(1) /\ 4 * g + r + 1 <= 4 * Games
    BY <1>3, <1>5 DEF E
  <2> DEFINE R == Recorded(3 * g + r)
  <2>4. R \in Seq(FeedEvent) /\ Len(R) = 1 /\ R[1] = WholeFeed[4 * g + r + 1]
    BY <2>1, <2>2, <2>3
  <2> HIDE DEF R
  <2>5. \A k \in 1..Len(R) : 4 * g + r + k <= 4 * Games /\ R[k] = WholeFeed[4 * g + r + k]
    <3>1. \A k \in 1..Len(R) : k = 1
      BY <2>4
    <3> QED
      BY <2>3, <2>4, <3>1
  <2>6. 4 * g + r + Len(R) = IF r = 2 THEN 4 * (g + 1) ELSE 4 * g + (r + 1)
    BY <1>5, <2>4
  <2> QED
    BY <2>4, <2>5, <2>6 DEF R
<1>6. CASE r = 2
  <2>1. Recorded(3 * g + r) = <<E(2), E(3)>>
    BY <1>1, <1>2, <1>6 DEF Recorded
  <2>2. /\ Len(<<E(2), E(3)>>) = 2
        /\ <<E(2), E(3)>>[1] = E(2) /\ <<E(2), E(3)>>[2] = E(3)
        /\ <<E(2), E(3)>> \in Seq(FeedEvent)
    BY <1>3
  <2>3. /\ WholeFeed[4 * g + r + 1] = E(2) /\ 4 * g + r + 1 <= 4 * Games
        /\ WholeFeed[4 * g + r + 2] = E(3) /\ 4 * g + r + 2 <= 4 * Games
    BY <1>3, <1>6 DEF E
  <2> DEFINE R == Recorded(3 * g + r)
  <2>4. /\ R \in Seq(FeedEvent) /\ Len(R) = 2
        /\ R[1] = WholeFeed[4 * g + r + 1] /\ R[2] = WholeFeed[4 * g + r + 2]
    BY <2>1, <2>2, <2>3
  <2> HIDE DEF R
  <2>5. \A k \in 1..Len(R) : 4 * g + r + k <= 4 * Games /\ R[k] = WholeFeed[4 * g + r + k]
    <3>1. \A k \in 1..Len(R) : k = 1 \/ k = 2
      BY <2>4
    <3> QED
      BY <2>3, <2>4, <3>1
  <2>6. 4 * g + r + Len(R) = IF r = 2 THEN 4 * (g + 1) ELSE 4 * g + (r + 1)
    BY <1>6, <2>4
  <2> QED
    BY <2>4, <2>5, <2>6 DEF R
<1> QED
  BY <1>4, <1>5, <1>6

\* A sequence of feed events grows by the ones that come next.
LEMMA WholeGrows ==
  ASSUME NEW feed \in Seq(FeedEvent), NEW more \in Seq(FeedEvent), Whole(feed),
         \A k \in 1..Len(more) : /\ Len(feed) + k <= 4 * Games
                                 /\ more[k] = WholeFeed[Len(feed) + k]
  PROVE  /\ Whole(feed \o more)
         /\ feed \o more \in Seq(FeedEvent)
         /\ Len(feed \o more) = Len(feed) + Len(more)
<1>1. /\ feed \o more \in Seq(FeedEvent)
      /\ Len(feed \o more) = Len(feed) + Len(more)
      /\ \A i \in 1..(Len(feed) + Len(more)) :
           (feed \o more)[i] = IF i <= Len(feed) THEN feed[i] ELSE more[i - Len(feed)]
  BY ConcatProperties
<1>2. ASSUME NEW i \in 1..Len(feed \o more)
      PROVE  i <= 4 * Games /\ (feed \o more)[i] = WholeFeed[i]
  <2>1. CASE i <= Len(feed)
    BY <1>1, <2>1 DEF Whole
  <2>2. CASE ~(i <= Len(feed))
    <3>1. i - Len(feed) \in 1..Len(more) /\ Len(feed) + (i - Len(feed)) = i
      BY <1>1, <2>2
    <3> QED
      BY <1>1, <2>2, <3>1
  <2> QED
    BY <2>1, <2>2
<1> QED
  BY <1>1, <1>2 DEF Whole

LEMMA WholeIsPrefix ==
  ASSUME NEW feed \in Seq(FeedEvent), Whole(feed)
  PROVE  feed = SubSeq(WholeFeed, 1, Len(feed)) /\ Len(feed) <= 4 * Games
<1> DEFINE n == Len(feed)
<1>0. n \in Nat /\ 4 * Games \in Nat
  BY StreamAssumption, LenProperties
<1>1. n <= 4 * Games
  <2>1. CASE n = 0
    BY <1>0, <2>1
  <2>2. CASE n # 0
    BY <1>0, <2>2 DEF Whole
  <2> QED
    BY <2>1, <2>2
<1>2. \A i \in 1..n : WholeFeed[i] \in FeedEvent
  BY <1>0, <1>1, WholeFeedType, LenProperties
<1> HIDE DEF n
<1>3. /\ SubSeq(WholeFeed, 1, n) \in Seq(FeedEvent)
      /\ Len(SubSeq(WholeFeed, 1, n)) = IF 1 <= n THEN n - 1 + 1 ELSE 0
      /\ \A i \in 1..(n - 1 + 1) : SubSeq(WholeFeed, 1, n)[i] = WholeFeed[1 + i - 1]
  BY <1>0, <1>2, SubSeqProperties
<1>4. Len(SubSeq(WholeFeed, 1, n)) = n /\ \A i \in 1..n : SubSeq(WholeFeed, 1, n)[i] = feed[i]
  BY <1>0, <1>3 DEF n, Whole
<1> QED
  BY <1>0, <1>1, <1>3, <1>4, SeqEqual DEF n

-----------------------------------------------------------------------------
\* The wire: the first frames, the frame that is read, the ones that are written.
LEMMA TracksStart ==
  ASSUME NEW applied \in Nat
  PROVE  /\ \E mark : Tracks(mark, <<>>, applied) /\ mark[Len(<<>>)] = applied
         /\ <<[kind |-> "open"]>> \in Seq(Frame)
         /\ \E mark : /\ Tracks(mark, <<[kind |-> "open"]>>, applied)
                      /\ mark[Len(<<[kind |-> "open"]>>)] = applied
<1>1. Tracks([i \in 0..0 |-> applied], <<>>, applied) /\ [i \in 0..0 |-> applied][Len(<<>>)] = applied
  BY DEF Tracks
<1> DEFINE open == [kind |-> "open"]
<1>2. open \in Frame /\ open.kind = "open"
  BY DEF Frame
<1> HIDE DEF open
<1>3. <<open>> \in Seq(Frame) /\ Len(<<open>>) = 1 /\ <<open>>[1] = open
  BY <1>2
<1>4. /\ Tracks([i \in 0..1 |-> applied], <<open>>, applied)
      /\ [i \in 0..1 |-> applied][Len(<<open>>)] = applied
  <2>1. \A i \in 1..1 : i = 1 /\ i \in 0..1 /\ i - 1 \in 0..1
    OBVIOUS
  <2> QED
    BY <1>2, <1>3, <2>1 DEF Tracks
<1> QED
  BY <1>1, <1>3, <1>4 DEF open

LEMMA TracksTail ==
  ASSUME NEW frames \in Seq(Frame), frames # <<>>, NEW mark, NEW applied,
         Tracks(mark, frames, applied)
  PROVE  \E m : /\ Tracks(m, Tail(frames), mark[1])
                /\ m[Len(Tail(frames))] = mark[Len(frames)]
<1> DEFINE n == Len(Tail(frames))
           m == [i \in 0..n |-> mark[i + 1]]
<1>1. /\ n \in Nat /\ Len(frames) = n + 1
      /\ \A i \in 1..n : Tail(frames)[i] = frames[i + 1]
  BY HeadTailProperties, LenProperties
<1> HIDE DEF n
<1>2. /\ mark \in [0..(n + 1) -> Nat]
      /\ \A i \in 1..(n + 1) :
           \/ /\ frames[i].kind = "feed"
              /\ frames[i].index = mark[i - 1]
              /\ mark[i] = mark[i - 1] + 1
              /\ mark[i] <= 4 * Games
              /\ frames[i].event = WholeFeed[mark[i]]
           \/ /\ frames[i].kind = "status"
              /\ mark[i] = mark[i - 1]
              /\ 4 * frames[i].completed <= mark[i]
           \/ /\ frames[i].kind = "open"
              /\ mark[i] = mark[i - 1]
  BY <1>1 DEF Tracks
<1>3. m \in [0..n -> Nat] /\ m[0] = mark[1] /\ m[n] = mark[n + 1]
  BY <1>1, <1>2
<1>4. ASSUME NEW i \in 1..n
      PROVE  /\ i + 1 \in 1..(n + 1) /\ Tail(frames)[i] = frames[i + 1]
             /\ m[i] = mark[i + 1] /\ m[i - 1] = mark[(i + 1) - 1]
  <2>1. i \in 0..n /\ i - 1 \in 0..n /\ (i - 1) + 1 = i /\ (i + 1) - 1 = i /\ i + 1 \in 1..(n + 1)
    BY <1>1
  <2> QED
    BY <1>1, <2>1
<1> HIDE DEF m
<1>5. Tracks(m, Tail(frames), mark[1])
  <2>1. \A i \in 1..n :
           \/ /\ Tail(frames)[i].kind = "feed"
              /\ Tail(frames)[i].index = m[i - 1]
              /\ m[i] = m[i - 1] + 1
              /\ m[i] <= 4 * Games
              /\ Tail(frames)[i].event = WholeFeed[m[i]]
           \/ /\ Tail(frames)[i].kind = "status"
              /\ m[i] = m[i - 1]
              /\ 4 * Tail(frames)[i].completed <= m[i]
           \/ /\ Tail(frames)[i].kind = "open"
              /\ m[i] = m[i - 1]
    BY <1>2, <1>4
  <2> QED
    BY <1>3, <2>1 DEF Tracks, n
<1> QED
  BY <1>1, <1>3, <1>5 DEF n

LEMMA TracksGrows ==
  ASSUME NEW frames \in Seq(Frame), NEW more \in Seq(Frame), NEW mark, NEW applied,
         NEW count \in [0..Len(more) -> Nat],
         Tracks(mark, frames, applied),
         Tracks(count, more, mark[Len(frames)])
  PROVE  \E m : /\ Tracks(m, frames \o more, applied)
                /\ m[Len(frames \o more)] = count[Len(more)]
<1> DEFINE n == Len(frames)
           k == Len(more)
           all == frames \o more
           m == [i \in 0..(n + k) |-> IF i <= n THEN mark[i] ELSE count[i - n]]
<1>1. /\ n \in Nat /\ k \in Nat /\ Len(all) = n + k
      /\ \A i \in 1..(n + k) : all[i] = IF i <= n THEN frames[i] ELSE more[i - n]
  BY ConcatProperties, LenProperties
<1>2. mark \in [0..n -> Nat] /\ mark[0] = applied /\ count \in [0..k -> Nat] /\ count[0] = mark[n]
  BY DEF Tracks
<1> DEFINE OK(f, a, b) ==
             \/ /\ f.kind = "feed" /\ f.index = a
                /\ b = a + 1 /\ b <= 4 * Games
                /\ f.event = WholeFeed[b]
             \/ f.kind = "status" /\ b = a /\ 4 * f.completed <= b
             \/ f.kind = "open" /\ b = a
<1>3. /\ \A i \in 1..n : OK(frames[i], mark[i - 1], mark[i])
      /\ \A i \in 1..k : OK(more[i], count[i - 1], count[i])
  BY DEF Tracks
<1> HIDE DEF OK, n, k, all
<1>4. m \in [0..(n + k) -> Nat] /\ m[0] = applied /\ m[n + k] = count[k]
  <2>1. \A i \in 0..(n + k) : IF i <= n THEN i \in 0..n ELSE i - n \in 0..k
    BY <1>1
  <2>2. m \in [0..(n + k) -> Nat]
    BY <1>2, <2>1
  <2>3. m[0] = applied
    BY <1>1, <1>2
  <2>4. m[n + k] = count[k]
    <3>1. CASE k = 0
      BY <1>1, <1>2, <3>1
    <3>2. CASE k # 0
      <4>1. ~(n + k <= n) /\ (n + k) - n = k /\ n + k \in 0..(n + k)
        BY <1>1, <3>2
      <4> QED
        BY <4>1
    <3> QED
      BY <3>1, <3>2
  <2> QED
    BY <2>2, <2>3, <2>4
<1>5. ASSUME NEW i \in 1..(n + k)
      PROVE  OK(all[i], m[i - 1], m[i])
  <2>1. i \in 0..(n + k) /\ i - 1 \in 0..(n + k)
    BY <1>1
  <2>2. CASE i <= n
    <3>1. i \in 1..n /\ i - 1 <= n /\ m[i] = mark[i] /\ m[i - 1] = mark[i - 1]
      BY <1>1, <2>1, <2>2
    <3> HIDE DEF m
    <3> QED
      BY <1>1, <1>3, <2>2, <3>1
  <2>3. CASE ~(i <= n)
    <3>1. i - n \in 1..k /\ m[i] = count[i - n]
      BY <1>1, <2>1, <2>3
    <3>2. m[i - 1] = count[(i - n) - 1]
      <4>1. CASE i - 1 = n
        <5>1. m[i - 1] = mark[n] /\ (i - n) - 1 = 0
          BY <1>1, <2>1, <4>1
        <5> QED
          BY <1>2, <5>1
      <4>2. CASE i - 1 # n
        <5>1. ~(i - 1 <= n) /\ (i - 1) - n = (i - n) - 1
          BY <1>1, <2>3, <4>2
        <5> QED
          BY <2>1, <5>1
      <4> QED
        BY <4>1, <4>2
    <3> HIDE DEF m
    <3> QED
      BY <1>1, <1>3, <2>3, <3>1, <3>2
  <2> QED
    BY <2>2, <2>3
<1> HIDE DEF m
<1>6. Tracks(m, all, applied)
  BY <1>1, <1>4, <1>5 DEF Tracks, OK
<1> QED
  BY <1>1, <1>4, <1>6 DEF n, k, all

\* A status that tells no more than what goes before it.
LEMMA TracksStatus ==
  ASSUME NEW frames \in Seq(Frame), NEW mark, NEW applied, Tracks(mark, frames, applied),
         NEW c \in 0..Games, 4 * c <= mark[Len(frames)]
  PROVE  LET told == Append(frames, [kind |-> "status", completed |-> c])
         IN  /\ told \in Seq(Frame)
             /\ \E m : Tracks(m, told, applied) /\ m[Len(told)] = mark[Len(frames)]
<1> DEFINE status == [kind |-> "status", completed |-> c]
           at == mark[Len(frames)]
           count == [i \in 0..1 |-> at]
<1>1. status \in Frame /\ status.kind = "status" /\ status.completed = c
  BY DEF Frame
<1>2. at \in Nat /\ c \in Nat /\ 4 * c <= at
  BY StreamAssumption, LenProperties DEF Tracks
<1> HIDE DEF status, at
<1>3. <<status>> \in Seq(Frame) /\ Len(<<status>>) = 1 /\ <<status>>[1] = status
  BY <1>1
<1>4. count \in [0..Len(<<status>>) -> Nat] /\ Tracks(count, <<status>>, at) /\ count[1] = at
  <2>1. \A i \in 1..1 : i = 1 /\ i \in 0..1 /\ i - 1 \in 0..1
    OBVIOUS
  <2> QED
    BY <1>1, <1>2, <1>3, <2>1 DEF Tracks
<1> HIDE DEF count
<1>5. PICK m : /\ Tracks(m, frames \o <<status>>, applied)
               /\ m[Len(frames \o <<status>>)] = count[Len(<<status>>)]
  <2>1. Tracks(count, <<status>>, mark[Len(frames)])
    BY <1>4 DEF at
  <2> QED
    BY <1>3, <1>4, <2>1, TracksGrows
<1>6. frames \o <<status>> = Append(frames, status) /\ Append(frames, status) \in Seq(Frame)
  BY <1>1, AppendProperties, AppendIsConcat
<1> QED
  BY <1>3, <1>4, <1>5, <1>6 DEF status, at

\* The events of a snapshot that have not been sent, from where the handler is.
Unsent(feed, from) ==
  [k \in 1..(Len(feed) - from) |->
    [kind |-> "feed", index |-> from + k - 1, event |-> feed[from + k]]]
Sent(feed, from) == IF from < Len(feed) THEN Len(feed) ELSE from

LEMMA TracksFeed ==
  ASSUME NEW frames \in Seq(Frame), NEW mark, NEW applied, Tracks(mark, frames, applied),
         NEW feed \in Seq(FeedEvent), Whole(feed)
  PROVE  LET told == frames \o Unsent(feed, mark[Len(frames)])
         IN  /\ told \in Seq(Frame)
             /\ \E m : /\ Tracks(m, told, applied)
                       /\ m[Len(told)] = Sent(feed, mark[Len(frames)])
<1>0. PICK from \in Nat : from = mark[Len(frames)]
  BY LenProperties DEF Tracks
<1> DEFINE d == IF from < Len(feed) THEN Len(feed) - from ELSE 0
           event(k) == [kind |-> "feed", index |-> from + k - 1, event |-> feed[from + k]]
           more == [k \in 1..d |-> event(k)]
           count == [i \in 0..d |-> from + i]
<1>1. /\ d \in Nat /\ from + d = IF from < Len(feed) THEN Len(feed) ELSE from
      /\ 1..(Len(feed) - from) = 1..d
      /\ \A k \in 1..d : from + k \in 1..Len(feed)
  <2>0. Len(feed) \in Nat
    BY LenProperties
  <2>1. CASE from < Len(feed)
    BY <2>0, <2>1
  <2>2. CASE ~(from < Len(feed))
    <3>1. d = 0 /\ 1..(Len(feed) - from) = {} /\ 1..0 = {}
      BY <2>0, <2>2
    <3> HIDE DEF d
    <3> QED
      BY <2>2, <3>1
  <2> QED
    BY <2>1, <2>2
<1> HIDE DEF d
<1>2. ASSUME NEW k \in 1..d
      PROVE  /\ event(k) \in Frame
             /\ event(k).kind = "feed" /\ event(k).index = from + (k - 1)
             /\ event(k).event = WholeFeed[from + k]
             /\ from + k <= 4 * Games
  <2>1. feed[from + k] \in FeedEvent /\ feed[from + k] = WholeFeed[from + k] /\ from + k <= 4 * Games
    BY <1>1, LenProperties DEF Whole
  <2>2. from + k - 1 \in Nat /\ from + k - 1 = from + (k - 1)
    OBVIOUS
  <2> QED
    BY <2>1, <2>2 DEF Frame
<1> HIDE DEF event
<1>3. more \in Seq(Frame) /\ Len(more) = d /\ \A k \in 1..d : more[k] = event(k)
  BY <1>1, <1>2, IsASeq
<1>4. count \in [0..d -> Nat] /\ count[0] = from /\ count[d] = from + d
  BY <1>1
<1>5. ASSUME NEW k \in 1..d
      PROVE  count[k] = from + k /\ count[k - 1] = from + (k - 1) /\ count[k] = count[k - 1] + 1
  BY <1>1
<1> HIDE DEF count, more
<1>6. Tracks(count, more, from)
  BY <1>2, <1>3, <1>4, <1>5 DEF Tracks
<1>7. PICK m : Tracks(m, frames \o more, applied) /\ m[Len(frames \o more)] = count[Len(more)]
  BY <1>0, <1>3, <1>4, <1>6, TracksGrows
<1>8. frames \o more \in Seq(Frame)
  BY <1>3, ConcatProperties
<1>9. more = Unsent(feed, from) /\ from + d = Sent(feed, from)
  BY <1>1 DEF more, event, Unsent, Sent
<1> QED
  BY <1>0, <1>3, <1>4, <1>7, <1>8, <1>9

-----------------------------------------------------------------------------
\* The sets the variables of the stream and the page range over.
StreamState == [of : Tournament, from : Nat, told : -1..Games,
                next : {"poll", "status"}, completed : 0..Games]
PageState == [nextIndex : Nat, folded : Seq(FeedEvent), completed : 0..Games,
              retries : 0..(MaxRetries + 1), lost : BOOLEAN]
ViewState == [feed : Seq(FeedEvent), seq : 0..(3 * Games), completed : 0..Games]

LEMMA InitOK == Init => IInv
<1> SUFFICES ASSUME Init PROVE IInv
  OBVIOUS
<1> USE DEF Init
<1>1. Games \in Nat \ {0} /\ MaxRetries \in Nat /\ Own \in Tournament
      /\ MaxBreaks \in Nat /\ MaxRestarts \in Nat
  BY StreamAssumption
<1>2. <<>> \in Seq(FeedEvent) /\ <<>> \in Seq(Frame) /\ Len(<<>>) = 0
  OBVIOUS
<1>3. NoEvents \in ViewState /\ NoEvents.feed = <<>> /\ NoEvents.seq = 0 /\ NoEvents.completed = 0
  BY <1>1, <1>2 DEF NoEvents, ViewState
<1>4. /\ NewPage \in PageState /\ NewPage.nextIndex = 0 /\ NewPage.folded = <<>>
      /\ NewPage.completed = 0 /\ NewPage.retries = 0
  BY <1>1, <1>2 DEF NewPage, PageState
<1>5. TypeOK
  <2>1. snapshot \in [Tournament -> ViewState] /\ page \in PageState
    BY <1>3, <1>4
  <2>2. <<Own>> \in Seq(Tournament \cup {NoSession})
    BY <1>1
  <2> QED
    BY <1>1, <1>2, <2>1, <2>2 DEF TypeOK, ViewState, PageState
<1>6. Published
  <2>1. 0 \div 3 = 0 /\ 0 % 3 = 0
    OBVIOUS
  <2> QED
    BY <1>2, <1>3, <2>1 DEF Published, Whole
<1>7. InFlight
  BY <1>2, <1>4, TracksStart DEF InFlight
<1>8. Linked /\ Pending /\ Applied /\ NoSpoiler
  BY <1>1, <1>2, <1>4 DEF Linked, Pending, Applied, NoSpoiler, Whole
<1> QED
  BY <1>5, <1>6, <1>7, <1>8 DEF IInv

LEMMA HandleEventOK ==
  ASSUME IInv, NEW t \in Tournament, HandleEvent(t)
  PROVE  IInv'
<1> USE DEF IInv, HandleEvent
<1>0. /\ snapshot \in [Tournament -> ViewState] /\ Games \in Nat \ {0}
      /\ UNCHANGED <<created, sessions, restarts, stream, wire, conn, breaks, page>>
  BY StreamAssumption DEF TypeOK, ViewState, linkVars
<1>1. PICK was \in ViewState : was = snapshot[t]
  BY <1>0
<1>2. /\ was.seq \in 0..(3 * Games) /\ was.completed \in 0..Games /\ was.feed \in Seq(FeedEvent)
      /\ was.completed = was.seq \div 3 /\ was.completed < Games
      /\ Len(was.feed) = 4 * (was.seq \div 3) + (was.seq % 3)
      /\ Whole(was.feed)
      /\ snapshot' = [snapshot EXCEPT ![t] =
           [feed |-> was.feed \o Recorded(was.seq),
            seq |-> was.seq + 1,
            completed |-> (was.seq + 1) \div 3]]
  BY <1>1 DEF ViewState, Published
<1>3. PICK g \in Nat, r \in 0..2 : was.seq = 3 * g + r /\ was.seq \div 3 = g /\ was.seq % 3 = r
  <2>1. was.seq \in Nat
    BY <1>0, <1>2
  <2> QED
    BY <2>1, Thirds
<1>4. g \in 0..(Games - 1) /\ Len(was.feed) = 4 * g + r
  BY <1>0, <1>2, <1>3
<1> DEFINE more == Recorded(was.seq)
           now == [feed |-> was.feed \o more,
                   seq |-> was.seq + 1,
                   completed |-> (was.seq + 1) \div 3]
<1>5. /\ more \in Seq(FeedEvent)
      /\ 4 * g + r + Len(more) = IF r = 2 THEN 4 * (g + 1) ELSE 4 * g + (r + 1)
      /\ \A k \in 1..Len(more) :
              /\ 4 * g + r + k <= 4 * Games
              /\ more[k] = WholeFeed[4 * g + r + k]
  <2>1. /\ Recorded(3 * g + r) \in Seq(FeedEvent)
        /\ 4 * g + r + Len(Recorded(3 * g + r))
             = IF r = 2 THEN 4 * (g + 1) ELSE 4 * g + (r + 1)
        /\ \A k \in 1..Len(Recorded(3 * g + r)) :
             /\ 4 * g + r + k <= 4 * Games
             /\ Recorded(3 * g + r)[k] = WholeFeed[4 * g + r + k]
    BY <1>4, NextEvents
  <2>2. more = Recorded(3 * g + r)
    BY <1>3
  <2> HIDE DEF more
  <2> QED
    BY <2>1, <2>2
<1> HIDE DEF more
<1>6. /\ Whole(was.feed \o more) /\ was.feed \o more \in Seq(FeedEvent)
      /\ Len(was.feed \o more) = 4 * g + r + Len(more)
  <2>1. \A k \in 1..Len(more) : /\ Len(was.feed) + k <= 4 * Games
                                 /\ more[k] = WholeFeed[Len(was.feed) + k]
    BY <1>4, <1>5
  <2>2. was.feed \in Seq(FeedEvent) /\ more \in Seq(FeedEvent) /\ Whole(was.feed)
    BY <1>2, <1>5
  <2>3. /\ Whole(was.feed \o more) /\ was.feed \o more \in Seq(FeedEvent)
        /\ Len(was.feed \o more) = Len(was.feed) + Len(more)
    BY <2>1, <2>2, WholeGrows
  <2> QED
    BY <1>4, <2>3
<1>7. /\ was.seq + 1 \in 0..(3 * Games) /\ (was.seq + 1) \div 3 \in 0..Games
      /\ 4 * g + r + Len(more) = 4 * ((was.seq + 1) \div 3) + ((was.seq + 1) % 3)
  <2>1. CASE r = 2
    <3>1. was.seq + 1 = 3 * (g + 1)
      BY <1>3, <2>1
    <3>2. (was.seq + 1) \div 3 = g + 1 /\ (was.seq + 1) % 3 = 0
      BY <3>1
    <3>3. g + 1 \in 0..Games /\ 3 * (g + 1) \in 0..(3 * Games)
      BY <1>0, <1>4
    <3>4. 4 * g + r + Len(more) = 4 * (g + 1)
      BY <1>5, <2>1
    <3> QED
      BY <3>1, <3>2, <3>3, <3>4
  <2>2. CASE r # 2
    <3>1. was.seq + 1 = 3 * g + (r + 1) /\ r + 1 \in 0..2
      BY <1>3, <2>2
    <3>2. (was.seq + 1) \div 3 = g /\ (was.seq + 1) % 3 = r + 1
      BY <3>1
    <3>3. g \in 0..Games /\ 3 * g + (r + 1) \in 0..(3 * Games)
      BY <1>0, <1>4, <3>1
    <3>4. 4 * g + r + Len(more) = 4 * g + (r + 1)
      BY <1>5, <2>2
    <3> QED
      BY <3>1, <3>2, <3>3, <3>4
  <2> QED
    BY <2>1, <2>2
<1>8. /\ now \in ViewState /\ now.completed = now.seq \div 3
      /\ Len(now.feed) = 4 * (now.seq \div 3) + (now.seq % 3)
      /\ Whole(now.feed)
  BY <1>6, <1>7 DEF ViewState
<1>9. snapshot' = [snapshot EXCEPT ![t] = now]
  BY <1>2 DEF more
<1> HIDE DEF now
<1>10. snapshot' \in [Tournament -> ViewState]
  BY <1>0, <1>8, <1>9
<1>11. Published'
  <2>1. ASSUME NEW u \in Tournament
        PROVE  /\ snapshot'[u].completed = snapshot'[u].seq \div 3
               /\ Len(snapshot'[u].feed) = 4 * (snapshot'[u].seq \div 3) + (snapshot'[u].seq % 3)
               /\ Whole(snapshot'[u].feed)
    <3>1. CASE u = t
      BY <1>0, <1>8, <1>9, <3>1
    <3>2. CASE u # t
      <4>1. snapshot'[u] = snapshot[u]
        BY <1>0, <1>9, <3>2
      <4> QED
        BY <4>1 DEF Published
    <3> QED
      BY <3>1, <3>2
  <2> QED
    BY <2>1 DEF Published, Whole
<1>12. TypeOK'
  BY <1>0, <1>10 DEF TypeOK, ViewState
<1>13. (InFlight /\ Linked /\ Pending /\ Applied /\ NoSpoiler)'
  BY <1>0 DEF InFlight, Linked, Pending, Applied, NoSpoiler, Whole
<1> QED
  BY <1>11, <1>12, <1>13

\* The registry's own steps touch nothing of the stream.
LEMMA RegistryOK ==
  ASSUME IInv, (\E t \in Tournament : OtherCreates(t)) \/ (\E id \in 1..Len(sessions) : Removed(id))
  PROVE  IInv'
<1>1. UNCHANGED <<snapshot, restarts, stream, wire, conn, breaks, page>>
  BY DEF OtherCreates, Removed, linkVars
<1>2. created' \subseteq Tournament /\ sessions' \in Seq(Tournament \cup {NoSession})
  <2>0. created \subseteq Tournament /\ sessions \in Seq(Tournament \cup {NoSession})
    BY DEF IInv, TypeOK
  <2>1. ASSUME NEW t \in Tournament, OtherCreates(t)
        PROVE  created' \subseteq Tournament /\ sessions' \in Seq(Tournament \cup {NoSession})
    BY <2>0, <2>1 DEF OtherCreates
  <2>2. ASSUME NEW id \in 1..Len(sessions), Removed(id)
        PROVE  created' \subseteq Tournament /\ sessions' \in Seq(Tournament \cup {NoSession})
    BY <2>0, <2>2, ExceptSeq DEF Removed
  <2> QED
    BY <2>1, <2>2
<1> QED
  BY <1>1, <1>2 DEF IInv, TypeOK, Published, InFlight, Linked, Pending, Applied, NoSpoiler, Whole

\* An error changes what the page knows of its connection, not what it has folded.
SameFold == /\ page'.nextIndex = page.nextIndex
            /\ page'.folded = page.folded
            /\ page'.completed = page.completed

LEMMA OnErrorOK ==
  ASSUME IInv, conn # "closed", OnError
  PROVE  /\ page' \in PageState /\ SameFold
         /\ conn' \in {"waiting", "closed"}
         /\ conn' # "closed" => page'.retries <= MaxRetries
<1>0. /\ page \in PageState /\ page.retries <= MaxRetries /\ MaxRetries \in Nat
      /\ page.retries \in Nat
  BY StreamAssumption DEF IInv, TypeOK, Linked, PageState
<1>1. page.retries + 1 \in 0..(MaxRetries + 1)
  BY <1>0
<1>2. CASE Finished /\ conn' = "closed" /\ UNCHANGED page
  BY <1>0, <1>2 DEF SameFold
<1>3. CASE /\ page' = [page EXCEPT !.retries = page.retries + 1, !.lost = TRUE]
           /\ conn' = "closed"
  BY <1>0, <1>1, <1>3 DEF SameFold, PageState
<1>4. CASE /\ page.retries + 1 <= MaxRetries
           /\ page' = [page EXCEPT !.retries = page.retries + 1]
           /\ conn' = "waiting"
  BY <1>0, <1>1, <1>4 DEF SameFold, PageState
<1> QED
  BY <1>2, <1>3, <1>4 DEF OnError

\* Wherever a connection ends, the next one starts from what is folded.
LEMMA Ends ==
  ASSUME IInv, snapshot' = snapshot, created' = created,
         sessions' \in Seq(Tournament \cup {NoSession}),
         breaks' \in 0..MaxBreaks, restarts' \in 0..MaxRestarts,
         stream' = NoStream, wire' = <<>>,
         page' \in PageState, SameFold,
         conn' \in {"connecting", "open", "waiting", "closed"},
         conn' # "closed" => page'.retries <= MaxRetries
  PROVE  IInv'
<1>1. TypeOK'
  <2>1. <<>> \in Seq(Frame)
    OBVIOUS
  <2> QED
    BY <2>1 DEF IInv, TypeOK, PageState
<1>2. InFlight'
  <2>1. page.nextIndex \in Nat
    BY DEF IInv, TypeOK
  <2>2. \E mark : Tracks(mark, <<>>, page.nextIndex)
    BY <2>1, TracksStart
  <2> QED
    BY <2>2 DEF InFlight, SameFold
<1>3. Published' /\ Applied' /\ NoSpoiler'
  BY DEF IInv, Published, Applied, NoSpoiler, Whole, SameFold
<1>4. Linked' /\ Pending'
  BY DEF Linked, Pending
<1> QED
  BY <1>1, <1>2, <1>3, <1>4 DEF IInv

LEMMA EndsOK ==
  ASSUME IInv, NoSuchSession \/ PageSeesEnd \/ Breaks \/ ServerRestarts \/ ControlNotFound
  PROVE  IInv'
<1>0. /\ TypeOK /\ Linked /\ page \in PageState
      /\ sessions \in Seq(Tournament \cup {NoSession}) /\ <<>> \in Seq(Tournament \cup {NoSession})
      /\ conn \in {"connecting", "open", "waiting", "closed"}
      /\ breaks \in 0..MaxBreaks /\ restarts \in 0..MaxRestarts
      /\ MaxBreaks \in Nat /\ MaxRestarts \in Nat
  BY StreamAssumption DEF IInv, TypeOK, PageState
<1>1. CASE NoSuchSession
  <2>1. OnError /\ conn # "closed" /\ stream = NoStream /\ wire = <<>>
        /\ UNCHANGED <<snapshot, created, sessions, restarts, breaks, stream, wire>>
    BY <1>0, <1>1 DEF NoSuchSession, Linked, serverVars
  <2> QED
    BY <1>0, <2>1, OnErrorOK, Ends
<1>2. CASE PageSeesEnd
  <2>1. OnError /\ conn # "closed" /\ stream = NoStream /\ wire = <<>>
        /\ UNCHANGED <<snapshot, created, sessions, restarts, breaks, stream, wire>>
    BY <1>2 DEF PageSeesEnd, serverVars
  <2> QED
    BY <1>0, <2>1, OnErrorOK, Ends
<1>3. CASE Breaks
  <2>1. /\ OnError /\ conn # "closed" /\ stream' = NoStream /\ wire' = <<>>
        /\ UNCHANGED <<snapshot, created, sessions, restarts>>
        /\ breaks' \in 0..MaxBreaks
    BY <1>0, <1>3 DEF Breaks, Cut, serverVars
  <2> QED
    BY <1>0, <2>1, OnErrorOK, Ends
<1>4. CASE ServerRestarts
  <2>1. /\ stream' = NoStream /\ wire' = <<>> /\ sessions' = <<>>
        /\ UNCHANGED <<snapshot, created, breaks>>
        /\ restarts' \in 0..MaxRestarts
    BY <1>0, <1>4 DEF ServerRestarts, Cut
  <2>2. CASE OnError /\ conn # "closed"
    BY <1>0, <2>1, <2>2, OnErrorOK, Ends
  <2>3. CASE UNCHANGED <<conn, page>>
    <3>1. SameFold /\ page' \in PageState /\ conn' \in {"connecting", "open", "waiting", "closed"}
          /\ (conn' # "closed" => page'.retries <= MaxRetries)
      BY <1>0, <2>3 DEF SameFold, Linked
    <3> QED
      BY <1>0, <2>1, <3>1, Ends
  <2> QED
    BY <1>4, <2>2, <2>3 DEF ServerRestarts
<1>5. CASE ControlNotFound
  <2>1. /\ stream' = NoStream /\ wire' = <<>> /\ conn' = "closed"
        /\ UNCHANGED <<snapshot, created, sessions, restarts, breaks>>
        /\ page' = [page EXCEPT !.lost = TRUE]
    BY <1>5 DEF ControlNotFound, Cut, serverVars
  <2>2. page' \in PageState /\ SameFold
    BY <1>0, <2>1 DEF PageState, SameFold
  <2> QED
    BY <1>0, <2>1, <2>2, Ends
<1> QED
  BY <1>1, <1>2, <1>3, <1>4, <1>5

LEMMA ReconnectOK ==
  ASSUME IInv, Reconnect
  PROVE  IInv'
<1>1. /\ UNCHANGED <<snapshot, created, sessions, restarts, stream, wire, breaks, page>>
      /\ conn = "waiting" /\ conn' = "connecting"
  BY DEF Reconnect, serverVars
<1> QED
  BY <1>1 DEF IInv, TypeOK, Published, InFlight, Linked, Pending, Applied, NoSpoiler, Whole

\* The handler starts where the page says that it is.
LEMMA StreamOpensOK ==
  ASSUME IInv, StreamOpens
  PROVE  IInv'
<1>0. /\ UNCHANGED <<snapshot, created, sessions, restarts, breaks, page>>
      /\ conn = "connecting" /\ conn' = "open" /\ Mine # NoSession
      /\ stream' = [of |-> Mine, from |-> page.nextIndex, told |-> -1, next |-> "poll", completed |-> 0]
      /\ wire' = <<[kind |-> "open"]>>
  BY DEF StreamOpens, ResumeAt, serverVars
<1>1. Mine \in Tournament /\ Games \in Nat /\ page.nextIndex \in Nat
  <2>1. sessions \in Seq(Tournament \cup {NoSession})
    BY DEF IInv, TypeOK
  <2>2. sessions # <<>> => sessions[1] \in Tournament \cup {NoSession}
    BY <2>1
  <2> QED
    BY <1>0, <2>2, StreamAssumption DEF Mine, IInv, TypeOK
<1>2. stream' \in StreamState /\ stream'.from = page.nextIndex /\ stream'.next = "poll"
  BY <1>0, <1>1 DEF StreamState
<1>3. TypeOK'
  <2>1. wire' \in Seq(Frame)
    BY <1>0, <1>1, TracksStart
  <2> QED
    BY <1>0, <1>2, <2>1 DEF IInv, TypeOK, StreamState
<1>4. InFlight'
  <2>1. \E mark : Tracks(mark, wire', page.nextIndex) /\ mark[Len(wire')] = page.nextIndex
    BY <1>0, <1>1, TracksStart
  <2> QED
    BY <1>0, <1>2, <2>1 DEF InFlight
<1>5. Linked' /\ Pending'
  BY <1>0, <1>2 DEF IInv, Linked, Pending
<1>6. Published' /\ Applied' /\ NoSpoiler'
  BY <1>0 DEF IInv, Published, Applied, NoSpoiler, Whole
<1> QED
  BY <1>3, <1>4, <1>5, <1>6 DEF IInv

\* What is written continues what is on the wire, and the status that will follow is of
\* the same snapshot, of which everything has been sent by then.
LEMMA StreamPollsOK ==
  ASSUME IInv, StreamPolls
  PROVE  IInv'
<1>0. /\ UNCHANGED <<snapshot, created, sessions, restarts, conn, breaks, page>>
      /\ stream # NoStream /\ stream \in StreamState /\ wire \in Seq(Frame)
  BY DEF IInv, TypeOK, StreamPolls, StreamState, serverVars
<1>1. CASE stream' = NoStream /\ UNCHANGED wire
  BY <1>0, <1>1 DEF IInv, TypeOK, Published, InFlight, Linked, Pending, Applied, NoSpoiler, Whole
<1>2. CASE ~(stream' = NoStream /\ UNCHANGED wire)
  <2>1. PICK view \in ViewState, from \in Nat, s \in StreamState :
          /\ view = snapshot[stream.of] /\ from = stream.from /\ s = stream
          /\ view.completed = view.seq \div 3
          /\ Len(view.feed) = 4 * (view.seq \div 3) + (view.seq % 3)
          /\ Whole(view.feed)
    <3>1. stream.of \in Tournament /\ stream.from \in Nat
      BY <1>0 DEF StreamState
    <3>2. snapshot[stream.of] \in ViewState
      BY <3>1 DEF IInv, TypeOK, ViewState
    <3> QED
      BY <1>0, <3>1, <3>2 DEF IInv, Published
  <2> DEFINE last == Sent(view.feed, from)
             told == wire \o Unsent(view.feed, from)
  <2>2. /\ wire' = told
        /\ stream' = [s EXCEPT !.next = "status", !.completed = view.completed, !.from = last]
    BY <1>2, <2>1 DEF StreamPolls, Sent, Unsent
  <2>3. /\ view.feed \in Seq(FeedEvent) /\ view.completed \in 0..Games /\ Len(view.feed) \in Nat
        /\ view.seq \in 0..(3 * Games)
    BY LenProperties DEF ViewState
  <2>4. 4 * view.completed <= last /\ last \in Nat
    <3>1. view.seq \in Nat
      BY <2>3, StreamAssumption
    <3>2. view.seq \div 3 \in Nat /\ view.seq % 3 \in Nat
      BY <3>1
    <3> QED
      BY <2>1, <2>3, <3>2 DEF Sent
  <2>5. PICK mark : Tracks(mark, wire, page.nextIndex) /\ from = mark[Len(wire)]
    BY <1>0, <2>1 DEF IInv, InFlight
  <2>6. told \in Seq(Frame) /\ \E m : Tracks(m, told, page.nextIndex) /\ m[Len(told)] = last
    <3>1. /\ Tracks(mark, wire, page.nextIndex)
          /\ view.feed \in Seq(FeedEvent) /\ Whole(view.feed)
          /\ from \in Nat /\ from = mark[Len(wire)]
      BY <2>1, <2>3, <2>5
    <3> QED
      BY <1>0, <3>1, TracksFeed
  <2> HIDE DEF last, told
  <2>7. /\ stream' \in StreamState /\ stream'.from = last
        /\ stream'.completed = view.completed
    BY <2>2, <2>3, <2>4 DEF StreamState
  <2>8. TypeOK'
    BY <1>0, <2>2, <2>6, <2>7 DEF IInv, TypeOK, StreamState
  <2>9. InFlight'
    BY <1>0, <2>2, <2>6, <2>7 DEF InFlight
  <2>10. Linked'
    BY <1>0 DEF IInv, Linked
  <2>11. Pending'
    BY <2>4, <2>7 DEF Pending
  <2>12. Published' /\ Applied' /\ NoSpoiler'
    BY <1>0 DEF IInv, Published, Applied, NoSpoiler, Whole
  <2> QED
    BY <2>8, <2>9, <2>10, <2>11, <2>12 DEF IInv
<1> QED
  BY <1>1, <1>2

LEMMA StreamStatusOK ==
  ASSUME IInv, StreamStatus
  PROVE  IInv'
<1>0. /\ UNCHANGED <<snapshot, created, sessions, restarts, conn, breaks, page>>
      /\ stream # NoStream /\ stream \in StreamState /\ wire \in Seq(Frame)
      /\ stream.next = "status" /\ Linked /\ conn = "open"
  BY DEF IInv, TypeOK, StreamStatus, StreamState, serverVars, Linked
<1>1. PICK s \in StreamState, n \in 0..Games : s = stream /\ n = stream.completed
  BY <1>0 DEF StreamState
<1>2. 4 * n <= s.from
  BY <1>0, <1>1 DEF IInv, Pending
<1>3. PICK mark : Tracks(mark, wire, page.nextIndex) /\ s.from = mark[Len(wire)]
  BY <1>0, <1>1 DEF IInv, InFlight
<1>4. /\ wire' \in Seq(Frame)
      /\ \E m : Tracks(m, wire', page.nextIndex) /\ m[Len(wire')] = s.from
  <2>1. CASE wire' = wire
    BY <1>0, <1>3, <2>1
  <2>2. CASE wire' = Append(wire, [kind |-> "status", completed |-> n])
    <3>1. 4 * n <= mark[Len(wire)]
      BY <1>2, <1>3
    <3>2. LET told == Append(wire, [kind |-> "status", completed |-> n])
          IN  /\ told \in Seq(Frame)
              /\ \E m : Tracks(m, told, page.nextIndex) /\ m[Len(told)] = mark[Len(wire)]
      BY <1>0, <1>3, <3>1, TracksStatus
    <3> QED
      BY <1>3, <2>2, <3>2
  <2> QED
    BY <1>1, <2>1, <2>2 DEF StreamStatus, SnapshotCompleted
<1>5. /\ stream' # NoStream => stream' \in StreamState /\ stream'.from = s.from /\ stream'.next = "poll"
      /\ stream' = NoStream \/ stream' \in StreamState
  <2>1. CASE stream' = NoStream
    BY <2>1
  <2>2. CASE stream' = [s EXCEPT !.next = "poll", !.told = n, !.completed = 0]
    <3>1. n \in -1..Games /\ 0 \in 0..Games
      BY StreamAssumption
    <3> QED
      BY <2>2, <3>1 DEF StreamState
  <2> QED
    BY <1>1, <2>1, <2>2 DEF StreamStatus, SnapshotCompleted
<1>6. TypeOK'
  BY <1>0, <1>4, <1>5 DEF IInv, TypeOK, StreamState
<1>7. InFlight'
  BY <1>0, <1>4, <1>5 DEF InFlight
<1>8. Linked' /\ Pending'
  BY <1>0, <1>5 DEF Linked, Pending
<1>9. Published' /\ Applied' /\ NoSpoiler'
  BY <1>0 DEF IInv, Published, Applied, NoSpoiler, Whole
<1> QED
  BY <1>6, <1>7, <1>8, <1>9 DEF IInv

\* The page applies the frame that comes next: the next event, or a status that tells no
\* more than it has applied.
LEMMA PageReadsOK ==
  ASSUME IInv, PageReads
  PROVE  IInv'
<1>0. /\ UNCHANGED <<snapshot, created, sessions, restarts, stream, conn, breaks>>
      /\ wire \in Seq(Frame) /\ wire # <<>> /\ wire' = Tail(wire)
      /\ page' = Fold(Head(wire)) /\ page \in PageState /\ conn = "open"
  BY DEF IInv, TypeOK, PageReads, PageState, serverVars
<1>1. PICK frame \in Frame, p \in PageState, n \in Nat :
        frame = wire[1] /\ frame = Head(wire) /\ p = page /\ n = page.nextIndex
  <2>1. Head(wire) = wire[1] /\ Head(wire) \in Frame
    BY <1>0, HeadTailProperties
  <2>2. page.nextIndex \in Nat
    BY <1>0 DEF PageState
  <2> QED
    BY <1>0, <2>1, <2>2
<1>2. PICK mark : Tracks(mark, wire, n) /\ (stream # NoStream => stream.from = mark[Len(wire)])
  BY <1>1 DEF IInv, InFlight
<1>3. /\ mark[0] = n /\ mark[1] \in Nat
      /\ \/ /\ frame.kind = "feed" /\ frame.index = n
            /\ mark[1] = n + 1 /\ n + 1 <= 4 * Games
            /\ frame.event = WholeFeed[n + 1]
         \/ frame.kind = "status" /\ mark[1] = n /\ 4 * frame.completed <= n
         \/ frame.kind = "open" /\ mark[1] = n
  <2>1. Len(wire) \in Nat \ {0}
    BY <1>0, EmptySeq
  <2>2. 1 \in 1..Len(wire) /\ 1 \in 0..Len(wire) /\ 1 - 1 = 0
    BY <2>1
  <2> QED
    BY <1>1, <1>2, <2>2 DEF Tracks
<1>4. PICK m : /\ Tracks(m, Tail(wire), mark[1])
               /\ m[Len(Tail(wire))] = mark[Len(wire)]
  BY <1>0, <1>2, TracksTail
<1>5. Len(p.folded) = n /\ Whole(p.folded) /\ p.nextIndex = n /\ 4 * p.completed <= n
      /\ p.folded \in Seq(FeedEvent)
  BY <1>1 DEF IInv, Applied, NoSpoiler, PageState
<1>6. /\ page' \in PageState
      /\ page'.nextIndex = mark[1]
      /\ Len(page'.folded) = mark[1] /\ Whole(page'.folded)
      /\ 4 * page'.completed <= mark[1]
      /\ page'.retries = p.retries \/ page'.retries = 0
  <2>1. CASE frame.kind = "feed" /\ frame.index = n /\ mark[1] = n + 1 /\ n + 1 <= 4 * Games
             /\ frame.event = WholeFeed[n + 1]
    <3>1. frame.event \in FeedEvent
      <4>1. n + 1 \in 1..(4 * Games)
        BY <2>1, StreamAssumption
      <4> QED
        BY <2>1, <4>1, WholeFeedType, ElementOfSeq
    <3>2. page' = [p EXCEPT !.nextIndex = n + 1, !.folded = Append(p.folded, frame.event)]
      <4>1. /\ frame.kind # "open" /\ frame.kind # "status" /\ ~(frame.index < page.nextIndex)
            /\ frame.index = n
        BY <1>1, <2>1
      <4>2. Fold(frame) = [page EXCEPT !.nextIndex = frame.index + 1,
                                       !.folded = Append(page.folded, frame.event)]
        BY <4>1, Zenon DEF Fold
      <4> QED
        BY <1>0, <1>1, <4>1, <4>2, Zenon
    <3>3. /\ Whole(Append(p.folded, frame.event))
          /\ Append(p.folded, frame.event) \in Seq(FeedEvent)
          /\ Len(Append(p.folded, frame.event)) = n + 1
      <4>1. <<frame.event>> \in Seq(FeedEvent) /\ Len(<<frame.event>>) = 1
            /\ <<frame.event>>[1] = frame.event
        BY <3>1
      <4>2. \A k \in 1..Len(<<frame.event>>) :
              /\ Len(p.folded) + k <= 4 * Games
              /\ <<frame.event>>[k] = WholeFeed[Len(p.folded) + k]
        <5>1. \A k \in 1..1 : k = 1
          OBVIOUS
        <5> QED
          BY <1>5, <2>1, <4>1, <5>1
      <4>3. /\ Whole(p.folded \o <<frame.event>>)
            /\ p.folded \o <<frame.event>> \in Seq(FeedEvent)
            /\ Len(p.folded \o <<frame.event>>) = Len(p.folded) + Len(<<frame.event>>)
        BY <1>5, <4>1, <4>2, WholeGrows
      <4> QED
        BY <1>5, <3>1, <4>1, <4>3, AppendIsConcat
    <3> DEFINE longer == Append(p.folded, frame.event)
    <3> HIDE DEF longer
    <3>4. PICK q \in PageState : /\ q = [p EXCEPT !.nextIndex = n + 1]
                                 /\ q.nextIndex = n + 1
                                 /\ q.completed = p.completed /\ q.retries = p.retries
      <4>1. /\ [p EXCEPT !.nextIndex = n + 1] \in PageState
            /\ [p EXCEPT !.nextIndex = n + 1].nextIndex = n + 1
            /\ [p EXCEPT !.nextIndex = n + 1].completed = p.completed
            /\ [p EXCEPT !.nextIndex = n + 1].retries = p.retries
        BY DEF PageState
      <4> QED
        BY <4>1
    <3>5. /\ [q EXCEPT !.folded = longer] \in PageState
          /\ [q EXCEPT !.folded = longer].folded = longer
          /\ [q EXCEPT !.folded = longer].nextIndex = n + 1
          /\ [q EXCEPT !.folded = longer].completed = p.completed
          /\ [q EXCEPT !.folded = longer].retries = p.retries
      BY <3>3, <3>4 DEF PageState, longer
    <3>6. page' = [q EXCEPT !.folded = longer]
      BY <3>2, <3>4, Zenon DEF longer
    <3>7. p.completed \in Nat /\ 4 * p.completed <= n + 1
      BY <1>5, StreamAssumption DEF PageState
    <3>8. Len(longer) = n + 1 /\ Whole(longer)
      BY <3>3 DEF longer
    <3> QED
      BY <2>1, <3>5, <3>6, <3>7, <3>8
  <2>2. CASE frame.kind = "status" /\ mark[1] = n /\ 4 * frame.completed <= n
    <3>1. frame.completed \in 0..Games
      BY <2>2 DEF Frame
    <3>2. page' = [p EXCEPT !.completed = frame.completed]
      BY <1>0, <1>1, <2>2 DEF Fold
    <3>3. /\ page' \in PageState /\ page'.nextIndex = n /\ page'.folded = p.folded
          /\ page'.completed = frame.completed /\ page'.retries = p.retries
      BY <1>5, <3>1, <3>2 DEF PageState
    <3> QED
      BY <1>5, <2>2, <3>3
  <2>3. CASE frame.kind = "open" /\ mark[1] = n
    <3>1. page' = [p EXCEPT !.retries = 0]
      BY <1>0, <1>1, <2>3 DEF Fold
    <3>2. 0 \in 0..(MaxRetries + 1)
      BY StreamAssumption
    <3>3. /\ page' \in PageState /\ page'.nextIndex = n /\ page'.folded = p.folded
          /\ page'.completed = p.completed /\ page'.retries = 0
      BY <1>5, <3>1, <3>2 DEF PageState
    <3> QED
      BY <1>5, <2>3, <3>3
  <2> QED
    BY <1>3, <2>1, <2>2, <2>3
<1>7. TypeOK'
  <2>1. wire' \in Seq(Frame)
    BY <1>0, HeadTailProperties
  <2> QED
    BY <1>0, <1>6, <2>1 DEF IInv, TypeOK, PageState
<1>8. InFlight'
  BY <1>0, <1>2, <1>4, <1>6 DEF InFlight
<1>9. Linked'
  <2>1. p.retries \in Nat /\ p.retries <= MaxRetries /\ MaxRetries \in Nat
    BY <1>0, <1>1, StreamAssumption DEF IInv, Linked, PageState
  <2> QED
    BY <1>0, <1>6, <2>1 DEF Linked
<1>10. Applied' /\ NoSpoiler'
  BY <1>3, <1>6 DEF Applied, NoSpoiler, Whole
<1>11. Published' /\ Pending'
  BY <1>0 DEF IInv, Published, Pending, Whole
<1> QED
  BY <1>7, <1>8, <1>9, <1>10, <1>11 DEF IInv

-----------------------------------------------------------------------------
(* However often the stream breaks and resumes, the invariant holds: what  *)
(* is on the wire is what the page wants next (server.go stream, app.js).  *)
THEOREM Streamed == Spec => []IInv
<1>1. Init => IInv
  BY InitOK
<1>2. IInv /\ [Next]_vars => IInv'
  <2> SUFFICES ASSUME IInv, [Next]_vars PROVE IInv'
    OBVIOUS
  <2>1. CASE \E t \in Tournament : HandleEvent(t)
    BY <2>1, HandleEventOK
  <2>2. CASE \/ \E t \in Tournament : OtherCreates(t)
             \/ \E id \in 1..Len(sessions) : Removed(id)
    BY <2>2, RegistryOK
  <2>3. CASE NoSuchSession \/ PageSeesEnd \/ Breaks \/ ServerRestarts \/ ControlNotFound
    BY <2>3, EndsOK
  <2>4. CASE Reconnect
    BY <2>4, ReconnectOK
  <2>5. CASE StreamOpens
    BY <2>5, StreamOpensOK
  <2>6. CASE StreamPolls
    BY <2>6, StreamPollsOK
  <2>7. CASE StreamStatus
    BY <2>7, StreamStatusOK
  <2>8. CASE PageReads
    BY <2>8, PageReadsOK
  <2>9. CASE UNCHANGED vars
    BY <2>9 DEF vars, IInv, TypeOK, Published, InFlight, Linked, Pending, Applied, NoSpoiler, Whole
  <2> QED
    BY <2>1, <2>2, <2>3, <2>4, <2>5, <2>6, <2>7, <2>8, <2>9 DEF Next
<1> QED
  BY <1>1, <1>2, PTL DEF Spec

(* For any number of games, tournaments, breaks and restarts, the page has *)
(* applied the events of the tournament from the first on, in order, none  *)
(* twice and none skipped (server.go eventsFrom; app.js connect).          *)
THEOREM FoldsInOrder == Spec => []FoldIsPrefix
<1>1. IInv => FoldIsPrefix
  <2> SUFFICES ASSUME IInv PROVE FoldIsPrefix
    OBVIOUS
  <2>1. TypeOK /\ page.nextIndex = Len(page.folded) /\ Whole(page.folded)
    BY DEF IInv, Applied
  <2>2. page.folded \in Seq(FeedEvent)
    BY <2>1 DEF TypeOK
  <2> QED
    BY <2>1, <2>2, WholeIsPrefix DEF FoldIsPrefix
<1> QED
  BY <1>1, Streamed, PTL

(* And no status ever tells the page of the end of a game whose events it  *)
(* has not applied (server.go stream: the status follows the events of the *)
(* snapshot it is of).                                                     *)
THEOREM NothingIsSpoiled == Spec => []NoSpoiler
<1>1. IInv => NoSpoiler
  BY DEF IInv
<1> QED
  BY <1>1, Streamed, PTL
=============================================================================
