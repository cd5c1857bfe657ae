----------------------------- MODULE Tournament -----------------------------
(***************************************************************************)
(* One session's tournament: the injector, the strategies and the tracker, *)
(* each replica an event loop of the platform, answering with the handlers *)
(* of Injector and Strategies (src/internal/session/session.go New wires   *)
(* them; fault injection gives an instance flaws or a store bug).          *)
(***************************************************************************)
EXTENDS Canonical

CONSTANTS
  Instance,        \* instances of replicas
  CompOf,          \* [Instance -> Component]
  Flaws,           \* [Instance -> SUBSET Flaw]: the Config it was built with
  BugFrom,         \* [Instance -> Nat \cup {NoBug}]: CorruptPayoff, CorruptFromGame
  Referenced,      \* whether the session has a canonical Reference
  MayCancel, SequencerStops, NoPayload, NoEvent, Marker

VARIABLES log, hwm, clients, subCh, ingressCh, admitted, seqUp, status,
          egressCh, senderSeq, inflight, replaying, hist

Payloads(h) == [k \in 1..Len(h) |-> h[k].payload]

\* The store instance i holds after applying h.
StoreOf(i, h) == Rebuild(BugFrom[i], Payloads(h))

OrNothing(S) == IF S = {} THEN {NoPayload} ELSE S

\* HandleEvent of each component on an event, the last of h.
HandleEvent(i, h) ==
  OrNothing(CASE CompOf[i] = InjectorName -> InjectorEmits(StoreOf(i, h))
              [] CompOf[i] = TrackerName -> {}
              [] OTHER -> PlayerEmits(CompOf[i], Flaws[i], StoreOf(i, h)))

\* HandleEvent of each component on the marker: only the injector bootstraps.
HandleMarker(i, h) ==
  OrNothing(IF CompOf[i] = InjectorName THEN InjectorBoots(StoreOf(i, h)) ELSE {})

\* The component the tournament waits for, seen from a sound store.
TurnOf(st) ==
  CASE st.current # Nil -> NextToMove(st.current)
    [] st.current = Nil /\ InjectorBoots(st) \cup InjectorEmits(st) # {} -> InjectorName
    [] OTHER -> NoComponent
Speaks(h) == TurnOf(Rebuild(NoBug, Payloads(h)))

-----------------------------------------------------------------------------
\* The validator New wires in when the session has a Reference; the tracker
\* has none.
Validate(i, h) ==
  \/ ~Referenced
  \/ CompOf[i] = TrackerName
  \/ MatchesReference(StoreOf(i, h), Len(h))

INSTANCE ActiveActive WITH Reply <- HandleEvent, Boot <- HandleMarker, Valid <- Validate

ASSUME TournamentAssumption ==
  /\ CompOf \in [Instance -> Component]
  /\ Flaws \in [Instance -> SUBSET Flaw]
  /\ BugFrom \in [Instance -> Nat \cup {NoBug}]
  /\ MayCancel \subseteq Instance
  /\ SequencerStops \in BOOLEAN
  /\ NoPayload \notin Payload
  /\ NoEvent \notin Event
  /\ Marker \notin Event

-----------------------------------------------------------------------------
(* Running everything more than once changes nothing: the payloads of the   *)
(* log are, event for event, those of the tournament with one instance of   *)
(* each component (README's invariant 1; sequencer.go, strategy.go).        *)
Solo == INSTANCE TurnLog WITH log <- Payloads(log), Allowed <- SoloNext
ImplementsSolo == Solo!Spec

(* The components keep the discipline the theorems about the platform ask   *)
(* of handlers: at every log the session comes to, exactly the component    *)
(* whose turn a sound store shows answers, whatever the store of the        *)
(* instance holds; nobody else does, and only an empty stream is            *)
(* bootstrapped.  Nor does a store meet an event it panics on, a new game   *)
(* while one is in flight or a decision with none (ShouldRespond,           *)
(* Injector.HandleEvent, Tracker.HandleEvent, GameStore.ApplyEvent).        *)
HandlersTakeTurns ==
  \A i \in Instance :
    /\ TakesTurns(i, log)
    /\ Answers(i, log)
    /\ ~StoreOf(i, log).panicked

(* Only an instance with an injected defect is ever quarantined when the    *)
(* log is canonical (README; checkInflight, StateValidator).                *)
Sound(i) == Flaws[i] \subseteq {"SkipWatermark"} /\ BugFrom[i] = NoBug
SoundStaysInService ==
  IsPrefix(Payloads(log), CanonicalLog) =>
    \A i \in Instance : Sound(i) => status[i] # "quarantined"

(* Admission control: an instance that replays turns live, or answers an    *)
(* event, only with a state that agrees with the canonical chain at the     *)
(* last event it has applied (eventloop.go Run, which validates before it   *)
(* sends; validateState, golden.Validator).                                 *)
TurnsLive(i) == ~replaying'[i]
AnswersAnEvent(i) == hist'[i] # hist[i] /\ ingressCh' # ingressCh
LiveOnlyIfCanonical ==
  [][\A i \in Instance :
       replaying[i] /\ (TurnsLive(i) \/ AnswersAnEvent(i)) => Validate(i, hist'[i])]_vars
=============================================================================
