----------------------------- MODULE Rehearsal -----------------------------
(***************************************************************************)
(* The private examination a restarted replica has to pass before it is    *)
(* started (src/internal/session/rehearsal.go; the loop over passes in     *)
(* session.go restart): it replays the whole canonical log, and both what  *)
(* it emits and the state it computes must be the canonical ones.  Names   *)
(* are its own, so that one module can extend this one and Tournament.     *)
(***************************************************************************)
EXTENDS Canonical

CONSTANTS
  Candidates,   \* the components whose replicas are restarted
  Defects       \* [flaws : SUBSET Flaw, bug : Nat \cup {NoBug}]: what they are built with

\* The tracker is not restartable.
ASSUME RehearsalAssumption ==
  /\ Candidates \subseteq Component \ {TrackerName}
  /\ Defects \subseteq [flaws : SUBSET Flaw, bug : Nat \cup {NoBug}]

VARIABLES
  component,   \* the component the candidate is a replica of
  defect,      \* what it was built with
  pass,        \* passes completed
  store,       \* its game store; as many events applied as the pass has replayed
  emitted,     \* how many payloads it has emitted in this pass
  verdict      \* "examining", "refused" (quarantined), or "admitted" (started)

rehearsalVars == <<component, defect, pass, store, emitted, verdict>>

RehearsalPasses == 3

\* Everything this component is supposed to emit: the positions of its own entries in
\* the canonical log, and how many of them come before position k.
Expected == {k \in 1..Len(CanonicalLog) : SenderOf(CanonicalLog[k]) = component}
ExpectedBefore(k) == Cardinality({m \in Expected : m < k})

Position == store.appliedSeq + 1

RehearsalTypeOK ==
  /\ component \in Candidates
  /\ defect \in Defects
  /\ pass \in 0..RehearsalPasses
  /\ Position \in 0..Len(CanonicalLog)
  /\ emitted \in 0..Cardinality(Expected)
  /\ verdict \in {"examining", "refused", "admitted"}

RehearsalInit ==
  /\ component \in Candidates
  /\ defect \in Defects
  /\ component \notin Strategy => defect = [flaws |-> {}, bug |-> NoBug]
  /\ pass = 0
  /\ store = EmptyStore
  /\ emitted = 0
  /\ verdict = "examining"

\* What the candidate's HandleEvent may return with its store in state st.
\* The canonical log holds no marker.
CandidateEmits(st) ==
  IF component = InjectorName THEN InjectorEmits(st)
  ELSE PlayerEmits(component, defect.flaws, st)

\* Variant: answers are counted, not compared.
CanonicalCount(p) == emitted < Cardinality(Expected)

\* The canonical log has p as the component's next emission.
CanonicalNext(p) == \E k \in Expected : ExpectedBefore(k) = emitted /\ p = CanonicalLog[k]

\* One event of the canonical log.
Replay ==
  /\ verdict = "examining"
  /\ Position < Len(CanonicalLog)
  /\ store' = ApplyEvent(defect.bug, store, Position, CanonicalLog[Position + 1])
  /\ \E rightState \in {MatchesReference(store', Position + 1)} :
       \/ /\ CandidateEmits(store') = {}
          /\ emitted' = emitted
          /\ verdict' = IF rightState THEN "examining" ELSE "refused"
       \/ \E p \in CandidateEmits(store') :
            /\ emitted' = IF CanonicalNext(p) THEN emitted + 1 ELSE emitted
            /\ verdict' = IF CanonicalNext(p) /\ rightState THEN "examining" ELSE "refused"
  /\ UNCHANGED <<component, defect, pass>>

LastPass == pass + 1 = RehearsalPasses

\* Variant: the count of emissions outlives the pass it was made in.
NextCandidateKeepsCount == store' = EmptyStore /\ UNCHANGED emitted
\* Each pass examines a candidate built anew.
NextCandidate == store' = EmptyStore /\ emitted' = 0

\* The log is replayed: a silent candidate is refused too.  Otherwise a fresh
\* candidate takes the next pass, and after the last one the replica starts.
EndPass ==
  /\ verdict = "examining"
  /\ Position = Len(CanonicalLog)
  /\ \/ /\ emitted # Cardinality(Expected)
        /\ verdict' = "refused"
        /\ UNCHANGED <<pass, store, emitted>>
     \/ /\ emitted = Cardinality(Expected)
        /\ pass' = pass + 1
        /\ verdict' = IF LastPass THEN "admitted" ELSE "examining"
        /\ NextCandidate
  /\ UNCHANGED <<component, defect>>

RehearsalNext == Replay \/ EndPass

RehearsalSpec == RehearsalInit /\ [][RehearsalNext]_rehearsalVars

-----------------------------------------------------------------------------
SoundCandidate == defect.flaws \subseteq {"SkipWatermark"} /\ defect.bug = NoBug
Plays == Expected # {}

(* A player with nothing wrong with it is never refused (session.go        *)
(* Restart; rehearsal.go).                                                  *)
SoundPlayersPass == component \in Strategy /\ SoundCandidate => verdict # "refused"

(* A defective player never gets in: not one whose decisions are always      *)
(* inverted, provided the canonical tournament asks it anything, nor one     *)
(* whose transition function is corrupted within the canonical tournament    *)
(* (Config.WrongDecision, rehearse's two comparisons).                       *)
DefectsCaught ==
  /\ RehearsalTypeOK
  /\ verdict = "admitted" =>
       /\ "WrongDecision" \in defect.flaws => "ImpureClock" \in defect.flaws \/ ~Plays
       /\ defect.bug \in {NoBug} \cup {n \in Nat : n >= MaxGames}

(* session.go Restart: a restarted replica "rejoins its pair -- unless its  *)
(* replay disagrees with what the log records or with the canonical chain". *)
SoundReplicasRejoin == SoundCandidate => verdict # "refused"
=============================================================================
