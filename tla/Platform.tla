------------------------------ MODULE Platform ------------------------------
(***************************************************************************)
(* The active-active platform: one sequencer goroutine, one event loop per *)
(* replica instance, and the FIFO channels between them                    *)
(* (src/internal/platform: sequencer.go, sequencer_client.go,              *)
(* eventloop.go, sequencer_events.go).                                     *)
(*                                                                         *)
(* An instance is one run of Eventloop.Run: a component restarted in a     *)
(* replica slot is a further instance with a fresh client.  What the       *)
(* handler of an instance answers is a constant operator of the history    *)
(* the instance has applied, because the handler is a function of the      *)
(* events it was given; it yields a set of payloads so that an instance    *)
(* with a nondeterministic defect can be one of them.                      *)
(***************************************************************************)
EXTENDS Integers, Sequences, FiniteSets

CONSTANTS
  Component,      \* logical components (Header.SenderComponent)
  Instance,       \* every run of an event loop (Header.SenderId plus incarnation)
  CompOf,         \* [Instance -> Component]
  Payload,        \* what handlers may emit
  NoPayload,      \* a handler's nil answer, a client's nil inflight event
  NoEvent,        \* the sequencer holds no admitted event
  Marker,         \* the in-band ReplayComplete event
  Reply(_, _),    \* Reply(i, h): i's possible answers on reading the last event of h
  Boot(_, _),     \* Boot(i, h): i's possible answers to the marker after reading h
  Valid(_, _),    \* Valid(i, h): i's validator accepts the state i computes from h
  MayCancel,      \* instances whose context may be cancelled
  SequencerStops  \* whether the sequencer's context may be cancelled

Event == [comp : Component, sender : Instance, slot : Nat, payload : Payload]
Membership == [client : Instance, join : BOOLEAN]
Status == {"new", "running", "stopped", "quarantined", "panicked"}

ASSUME PlatformAssumption ==
  /\ CompOf \in [Instance -> Component]
  /\ MayCancel \subseteq Instance
  /\ SequencerStops \in BOOLEAN
  /\ NoPayload \notin Payload
  /\ NoEvent \notin Event
  /\ Marker \notin Event

VARIABLES
  log,         \* Sequencer.eventLog; an event's Header.Seq is its index minus one
  hwm,         \* Sequencer.senderSeqHwm; -1 where the map has no entry
  clients,     \* Sequencer.clients
  subCh,       \* join and leave requests
  ingressCh,   \* emissions not yet seen by the sequencer
  admitted,    \* the event between admit and its sequencing (pacer.Wait blocks there)
  seqUp,       \* Sequencer.Run has not returned
  status,      \* where the instance's Eventloop.Run is
  egressCh,    \* SequencerClient.egressCh
  senderSeq,   \* SequencerClient.senderSeq
  inflight,    \* payload of SequencerClient.inflightEvent
  replaying,   \* Eventloop.replaying
  hist         \* the events the handler has applied, from which it computes

seqVars == <<log, hwm, clients, admitted, seqUp>>
loopVars == <<status, egressCh, senderSeq, inflight, replaying, hist>>
vars == <<log, hwm, clients, subCh, ingressCh, admitted, seqUp, status,
          egressCh, senderSeq, inflight, replaying, hist>>

TypeOK ==
  /\ log \in Seq(Event)
  /\ hwm \in [Component -> Int]
  /\ clients \subseteq Instance
  /\ subCh \in Seq(Membership)
  /\ ingressCh \in Seq(Event)
  /\ admitted \in Event \cup {NoEvent}
  /\ seqUp \in BOOLEAN
  /\ status \in [Instance -> Status]
  /\ egressCh \in [Instance -> Seq(Event \cup {Marker})]
  /\ senderSeq \in [Instance -> Nat]
  /\ inflight \in [Instance -> Payload \cup {NoPayload}]
  /\ replaying \in [Instance -> BOOLEAN]
  /\ hist \in [Instance -> Seq(Event)]

Init ==
  /\ log = <<>>
  /\ hwm = [c \in Component |-> -1]
  /\ clients = {}
  /\ subCh = <<>>
  /\ ingressCh = <<>>
  /\ admitted = NoEvent
  /\ seqUp = TRUE
  /\ status = [i \in Instance |-> "new"]
  /\ egressCh = [i \in Instance |-> <<>>]
  /\ senderSeq = [i \in Instance |-> 0]
  /\ inflight = [i \in Instance |-> NoPayload]
  /\ replaying = [i \in Instance |-> TRUE]
  /\ hist = [i \in Instance |-> <<>>]

-----------------------------------------------------------------------------
(***************************************************************************)
(* The sequencer's goroutine.  Its select takes any ready case; between    *)
(* admit and the fan-out it may block in pacer.Wait, so these are two      *)
(* steps and nothing else of the sequencer happens between them.           *)
(***************************************************************************)

\* select needs the goroutine to be back at the top of its loop.
Selecting == seqUp /\ admitted = NoEvent

\* Variant: a late joiner is told it has caught up without being replayed to.
ReplayedNothing(i) == Append(egressCh[i], Marker)

\* What a joining client's channel holds: the whole log, then the marker.
Replayed(i) == Append(egressCh[i] \o log, Marker)

SeqJoin ==
  /\ Selecting
  /\ subCh # <<>>
  /\ Head(subCh).join
  /\ LET i == Head(subCh).client
     IN /\ clients' = clients \cup {i}
        /\ egressCh' = [egressCh EXCEPT ![i] = Replayed(i)]
  /\ subCh' = Tail(subCh)
  /\ UNCHANGED <<log, hwm, ingressCh, admitted, seqUp, status, senderSeq,
                 inflight, replaying, hist>>

SeqLeave ==
  /\ Selecting
  /\ subCh # <<>>
  /\ ~Head(subCh).join
  /\ clients' = clients \ {Head(subCh).client}
  /\ subCh' = Tail(subCh)
  /\ UNCHANGED <<log, hwm, ingressCh, admitted, seqUp>>
  /\ UNCHANGED loopVars

\* Variants: the second copy of a decision is sequenced too; a component never
\* seen before has no slot to start from.
AdmissibleAgain(e) == e.slot <= hwm[e.comp] + 1
AdmissibleOnceSeen(e) == hwm[e.comp] >= 0 /\ e.slot = hwm[e.comp] + 1

\* admit: with -1 for "never seen", the first slot and the next slot are one case.
Admissible(e) == e.slot = hwm[e.comp] + 1

SeqAdmit ==
  /\ Selecting
  /\ ingressCh # <<>>
  /\ Admissible(Head(ingressCh))
  /\ hwm' = [hwm EXCEPT ![Head(ingressCh).comp] = Head(ingressCh).slot]
  /\ admitted' = Head(ingressCh)
  /\ ingressCh' = Tail(ingressCh)
  /\ UNCHANGED <<log, clients, subCh, seqUp>>
  /\ UNCHANGED loopVars

\* A duplicate of a position already taken, or a gap: dropped, never paced.
SeqReject ==
  /\ Selecting
  /\ ingressCh # <<>>
  /\ ~Admissible(Head(ingressCh))
  /\ ingressCh' = Tail(ingressCh)
  /\ UNCHANGED <<subCh>>
  /\ UNCHANGED seqVars
  /\ UNCHANGED loopVars

\* Variant: the sender is left out of the fan-out of its own event.
FannedOutToOthers(i) == IF i \in clients /\ i # admitted.sender
                        THEN Append(egressCh[i], admitted) ELSE egressCh[i]

\* The fan-out, as seen by instance i.
FannedOut(i) == IF i \in clients THEN Append(egressCh[i], admitted) ELSE egressCh[i]

\* The pacer let the admitted event through: log it and fan it out.
SeqSequence ==
  /\ seqUp
  /\ admitted # NoEvent
  /\ log' = Append(log, admitted)
  /\ egressCh' = [i \in Instance |-> FannedOut(i)]
  /\ admitted' = NoEvent
  /\ UNCHANGED <<hwm, clients, subCh, ingressCh, seqUp, status, senderSeq,
                 inflight, replaying, hist>>

\* ctx.Done wins the select, or pacer.Wait reports the cancellation: Run
\* returns, and an event it had admitted but not sequenced is gone.
SeqExit ==
  /\ SequencerStops
  /\ seqUp
  /\ seqUp' = FALSE
  /\ admitted' = NoEvent
  /\ UNCHANGED <<log, hwm, clients, subCh, ingressCh>>
  /\ UNCHANGED loopVars

SequencerStep == SeqJoin \/ SeqLeave \/ SeqAdmit \/ SeqReject \/ SeqSequence

-----------------------------------------------------------------------------
(***************************************************************************)
(* The event loops.  Reading one event, applying it, validating and        *)
(* sending is one step: the instance's goroutine shares nothing with the   *)
(* others but the channel it takes the event from, of which it is the only *)
(* reader, and the channel it puts its one emission into.                  *)
(***************************************************************************)

\* Run subscribes before its loop.
Start(i) ==
  /\ status[i] = "new"
  /\ status' = [status EXCEPT ![i] = "running"]
  /\ subCh' = Append(subCh, [client |-> i, join |-> TRUE])
  /\ UNCHANGED <<ingressCh, egressCh, senderSeq, inflight, replaying, hist>>
  /\ UNCHANGED seqVars

\* Eventloop.Run returns with the given status; Close is deferred in it.
Leave(i, why) ==
  /\ status' = [status EXCEPT ![i] = why]
  /\ subCh' = Append(subCh, [client |-> i, join |-> FALSE])

\* SequencerClient.Send, or nothing when the handler answered nil.  `settled` is
\* the inflight payload at that point, `slot` the sender sequence.
Emit(i, p, settled, slot) ==
  IF p = NoPayload
    THEN /\ inflight' = [inflight EXCEPT ![i] = settled]
         /\ UNCHANGED <<status, ingressCh>>
    ELSE IF settled # NoPayload
      THEN /\ status' = [status EXCEPT ![i] = "panicked"]
           /\ inflight' = [inflight EXCEPT ![i] = settled]
           /\ UNCHANGED ingressCh
      ELSE /\ inflight' = [inflight EXCEPT ![i] = p]
           /\ ingressCh' = Append(ingressCh,
                [comp |-> CompOf[i], sender |-> i, slot |-> slot, payload |-> p])
           /\ UNCHANGED status

ReadMarker(i) ==
  /\ status[i] = "running"
  /\ egressCh[i] # <<>>
  /\ Head(egressCh[i]) = Marker
  /\ egressCh' = [egressCh EXCEPT ![i] = Tail(@)]
  /\ replaying' = [replaying EXCEPT ![i] = FALSE]
  /\ \E p \in Boot(i, hist[i]) : Emit(i, p, inflight[i], senderSeq[i])
  /\ UNCHANGED <<subCh, senderSeq, hist>>
  /\ UNCHANGED seqVars

\* Variants of Read's bookkeeping: off by one in either direction; a lost race does
\* not move the slot.
NextSlotBehind(i, e) == IF e.comp = CompOf[i] THEN e.slot - 1 ELSE senderSeq[i]
NextSlotAhead(i, e) == IF e.comp = CompOf[i] THEN e.slot + 2 ELSE senderSeq[i]
NextSlotOfWinner(i, e) == IF e.sender = i THEN e.slot + 1 ELSE senderSeq[i]

\* Read's bookkeeping: an own-component event moves the next slot behind it.
NextSlot(i, e) == IF e.comp = CompOf[i] THEN e.slot + 1 ELSE senderSeq[i]

\* Variants of checkInflight: a lost race never settles; a lost race counts as a
\* disagreement.
SettledByOwn(i, e) == IF e.sender = i THEN NoPayload ELSE inflight[i]
DisagreesOnLoss(i, e) ==
  e.comp = CompOf[i] /\ inflight[i] # NoPayload /\ e.sender # i

\* checkInflight: an own-component event settles the emission outstanding.
Settled(i, e) == IF e.comp = CompOf[i] THEN NoPayload ELSE inflight[i]
Disagrees(i, e) ==
  /\ e.comp = CompOf[i]
  /\ inflight[i] # NoPayload
  /\ inflight[i] # e.payload

\* The log disagrees with what the instance computed for this position.
ReadDivergent(i) ==
  /\ status[i] = "running"
  /\ egressCh[i] # <<>>
  /\ Head(egressCh[i]) # Marker
  /\ LET e == Head(egressCh[i])
     IN /\ Disagrees(i, e)
        /\ senderSeq' = [senderSeq EXCEPT ![i] = NextSlot(i, e)]
        /\ inflight' = [inflight EXCEPT ![i] = Settled(i, e)]
  /\ egressCh' = [egressCh EXCEPT ![i] = Tail(@)]
  /\ Leave(i, "quarantined")
  /\ UNCHANGED <<ingressCh, replaying, hist>>
  /\ UNCHANGED seqVars

\* Variant: the chain is checked only once the instance is live.
RefusedLive(i, h) == ~replaying[i] /\ ~Valid(i, h)

\* validateState: the chain is checked for what the instance replays, no more.
Refused(i, h) == replaying[i] /\ ~Valid(i, h)

\* The state the handler computed is refused: nothing is sent.
ReadInvalid(i) ==
  /\ status[i] = "running"
  /\ egressCh[i] # <<>>
  /\ Head(egressCh[i]) # Marker
  /\ LET e == Head(egressCh[i])
         h == Append(hist[i], e)
     IN /\ ~Disagrees(i, e)
        /\ Refused(i, h)
        /\ hist' = [hist EXCEPT ![i] = h]
        /\ senderSeq' = [senderSeq EXCEPT ![i] = NextSlot(i, e)]
        /\ inflight' = [inflight EXCEPT ![i] = Settled(i, e)]
  /\ egressCh' = [egressCh EXCEPT ![i] = Tail(@)]
  /\ Leave(i, "quarantined")
  /\ UNCHANGED <<ingressCh, replaying>>
  /\ UNCHANGED seqVars

ReadEvent(i) ==
  /\ status[i] = "running"
  /\ egressCh[i] # <<>>
  /\ Head(egressCh[i]) # Marker
  /\ LET e == Head(egressCh[i])
         h == Append(hist[i], e)
     IN /\ ~Disagrees(i, e)
        /\ ~Refused(i, h)
        /\ hist' = [hist EXCEPT ![i] = h]
        /\ senderSeq' = [senderSeq EXCEPT ![i] = NextSlot(i, e)]
        /\ \E p \in Reply(i, h) : Emit(i, p, Settled(i, e), NextSlot(i, e))
  /\ egressCh' = [egressCh EXCEPT ![i] = Tail(@)]
  /\ UNCHANGED <<subCh, replaying>>
  /\ UNCHANGED seqVars

\* The instance's context is cancelled and Run sees it, at the top of its loop
\* or in Read: it returns without quarantine.
Stop(i) ==
  /\ i \in MayCancel
  /\ status[i] = "running"
  /\ Leave(i, "stopped")
  /\ UNCHANGED <<ingressCh, egressCh, senderSeq, inflight, replaying, hist>>
  /\ UNCHANGED seqVars

Read(i) == ReadMarker(i) \/ ReadDivergent(i) \/ ReadInvalid(i) \/ ReadEvent(i)

Next ==
  \/ SequencerStep
  \/ SeqExit
  \/ \E i \in Instance : Start(i) \/ Read(i) \/ Stop(i)

Spec == Init /\ [][Next]_vars

\* Every goroutine runs: the sequencer serves its channels, a started instance
\* reads.  Instances that nothing cancels are the ones a session starts, so they
\* do start; a context is never obliged to be cancelled.
Fairness ==
  /\ WF_vars(SequencerStep)
  /\ \A i \in Instance : WF_vars(Read(i))
  /\ \A i \in Instance \ MayCancel : WF_vars(Start(i))

FairSpec == Spec /\ Fairness
=============================================================================
