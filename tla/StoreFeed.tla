------------------------------ MODULE StoreFeed ------------------------------
(***************************************************************************)
(* Two stores fed side by side with every stream the platform can produce: *)
(* any pairing, either decision of whoever moves next.  One is sound, the  *)
(* other may have the CorruptPayoff bug; they may be fed the same stream   *)
(* or streams that part at some event.  This is where the claims           *)
(* game_store.go makes of its reads and of its checksum chain are checked. *)
(***************************************************************************)
EXTENDS Strategies

CONSTANTS
  Players,   \* the strategies that are paired
  Bugs,      \* the bugs of the suspect store, a subset of Nat \cup {NoBug}
  Games      \* bound: games per stream

ASSUME FeedAssumption == Players \subseteq Strategy /\ Games \in Nat

VARIABLES
  sound,     \* store fed the stream
  suspect,   \* store fed the suspect's stream
  bug,       \* the suspect's Bug
  parted     \* the two streams have differed

vars == <<sound, suspect, bug, parted>>

\* The payloads an injector or a player may put next on a stream in state st.
NextPayloads(st) ==
  IF st.current = Nil
  THEN {NewGame(st.nextGameId, a, b) : a, b \in Players}
         \ {NewGame(st.nextGameId, a, a) : a \in Players}
  ELSE {GameDecision(NextToMove(st.current), d) : d \in Decision}

More(st) == st.current # Nil \/ st.nextGameId < Games

TypeOK ==
  /\ bug \in Bugs
  /\ parted \in BOOLEAN
  /\ \A st \in {sound, suspect} :
       /\ st.appliedSeq \in -1..(3 * Games)
       /\ st.nextGameId \in 0..Games
       /\ DOMAIN st.leaderboard \subseteq Players

Init ==
  /\ sound = EmptyStore
  /\ suspect = EmptyStore
  /\ bug \in Bugs
  /\ parted = FALSE

\* Both stores apply the event at the same position of their streams.
Apply ==
  /\ More(sound)
  /\ \E p \in NextPayloads(sound), q \in NextPayloads(suspect) :
       /\ sound' = ApplyEvent(NoBug, sound, sound.appliedSeq + 1, p)
       /\ suspect' = ApplyEvent(bug, suspect, suspect.appliedSeq + 1, q)
       /\ parted' = (parted \/ p # q)
  /\ UNCHANGED bug

Next == Apply

Spec == Init /\ [][Next]_vars

-----------------------------------------------------------------------------
(* The chains agree exactly when the stores were fed the same stream and    *)
(* the bug has not yet paid a game: a divergence is never lost again, even  *)
(* where the two states have become equal (game_store.go rehash).           *)
Corrupted == bug # NoBug /\ \E k \in 1..Len(suspect.completed) : suspect.completed[k].id >= bug
ChainTellsApart == (sound.chain = suspect.chain) <=> (~parted /\ ~Corrupted)

(* With one game in flight the watermark costs nothing: CopyLeader never    *)
(* has to wait, and its scoped read answers what the newest read answers    *)
(* (strategy.go CopyLeader and Config.SkipWatermark; game_store.go).        *)
WatermarkIsDormant ==
  \A st \in {sound, suspect} :
    st.current # Nil =>
      /\ CopyLeaderWatermarked(st, st.current) # Unknown
      /\ CopyLeaderWatermarked(st, st.current) = CopyLeaderNewest(st)

(* The board, credited game by game, is what re-adding every completed      *)
(* game's payoffs gives, and it never forgets a player (LeaderBefore        *)
(* recomputes it).                                                          *)
BoardIsTheSum ==
  /\ TypeOK
  /\ \A st \in {sound, suspect} :
       /\ st.leaderboard = FoldLeft(CreditGame, <<>>, st.completed)
       /\ \A k \in 1..Len(st.completed) :
            {st.completed[k].a, st.completed[k].b} \subseteq DOMAIN st.leaderboard
=============================================================================
