---------------------------- MODULE ActiveActive ----------------------------
(***************************************************************************)
(* What running every component more than once must not change: the        *)
(* properties of Platform for handlers that take turns.                    *)
(*                                                                         *)
(* Speaks(h) is the one component with something to say after the log h    *)
(* (NoComponent once the stream is over).  The platform does not compute   *)
(* it: it is the discipline the handlers bring (flow_control.go, the       *)
(* injector), stated as OneSpeaker.                                        *)
(***************************************************************************)
EXTENDS Platform

CONSTANTS Speaks(_), NoComponent

\* How many events of component c the log h holds.
Spoken(h, c) == Cardinality({k \in 1..Len(h) : h[k].comp = c})

\* What may follow the log h: an answer that some instance of the component
\* whose turn it is computes from h itself, at that component's next slot.
Allowed(h) ==
  UNION {{[comp |-> CompOf[i], sender |-> i, slot |-> Spoken(h, CompOf[i]),
           payload |-> p] : p \in (Reply(i, h) \cup Boot(i, h)) \ {NoPayload}} :
         i \in {j \in Instance : CompOf[j] = Speaks(h)}}

\* A log that has grown by what was allowed only.
Legal(h) == \A k \in 1..Len(h) : h[k] \in Allowed(SubSeq(h, 1, k - 1))

\* The discipline of a handler at the log h: it answers an event only if that
\* makes it its component's turn, and bootstraps an empty stream only.
TakesTurns(i, h) ==
  /\ Speaks(h) # CompOf[i] => Reply(i, h) \subseteq {NoPayload}
  /\ Speaks(h) # CompOf[i] \/ h # <<>> => Boot(i, h) \subseteq {NoPayload}

\* And it does answer then.
Answers(i, h) ==
  Speaks(h) = CompOf[i] =>
    NoPayload \notin (IF h = <<>> THEN Boot(i, h) ELSE Reply(i, h))

\* What the theorems ask of the handlers; nothing is asked of what they do with a
\* log that cannot come about, except that they answer with a payload or nothing.
OneSpeaker ==
  \A i \in Instance : \A h \in Seq(Event) :
    /\ Reply(i, h) \subseteq Payload \cup {NoPayload}
    /\ Boot(i, h) \subseteq Payload \cup {NoPayload}
    /\ Legal(h) => TakesTurns(i, h)
EveryoneAnswers == \A i \in Instance : \A h \in Seq(Event) : Legal(h) => Answers(i, h)

TL == INSTANCE TurnLog

(* The whole platform, with its replicas, restarts and races, extends the   *)
(* log as TurnLog does: each event is an answer computed from exactly the   *)
(* log it was appended to, never from an older one, by a component whose    *)
(* turn it is (Sequencer.admit, Eventloop.Run, SequencerClient).            *)
ImplementsTurnLog == TL!Spec

-----------------------------------------------------------------------------
(* Send's assertion never fires: no handler answers while an earlier        *)
(* emission of its own is unsettled (sequencer_client.go Send).             *)
SendNeverPanics == \A i \in Instance : status[i] # "panicked"

\* What is queued for a reader follows, in the log, what it has applied: live,
\* or with the marker as the m-th of the queue.
LiveFeed(i) ==
  \A k \in 1..Len(egressCh[i]) :
    /\ Len(hist[i]) + k <= Len(log)
    /\ egressCh[i][k] = log[Len(hist[i]) + k]
MarkedFeed(i, m) ==
  /\ egressCh[i][m] = Marker
  /\ \A k \in 1..(m - 1) : /\ Len(hist[i]) + k <= Len(log)
                           /\ egressCh[i][k] = log[Len(hist[i]) + k]
  /\ \A k \in (m + 1)..Len(egressCh[i]) : /\ Len(hist[i]) + k - 1 <= Len(log)
                                          /\ egressCh[i][k] = log[Len(hist[i]) + k - 1]
Feed(i) ==
  \/ replaying[i] /\ i \notin clients /\ hist[i] = <<>> /\ egressCh[i] = <<>>
  \/ replaying[i] /\ \E m \in 1..Len(egressCh[i]) : MarkedFeed(i, m)
  \/ ~replaying[i] /\ LiveFeed(i)

(* Every reader has applied a prefix of the log, and is about to read what  *)
(* comes next, in order, each event once, with exactly one marker between   *)
(* replay and live events; a subscriber misses nothing (Sequencer.Run's     *)
(* join, fan-out and select comment; a quarantined reader has consumed an   *)
(* event it did not apply).                                                 *)
ExactlyOnceInOrder ==
  \A i \in Instance :
    /\ Len(hist[i]) <= Len(log)
    /\ hist[i] = SubSeq(log, 1, Len(hist[i]))
    /\ status[i] # "quarantined" =>
         /\ Feed(i)
         /\ i \in clients => Len(hist[i]) + Len(egressCh[i])
                               = Len(log) + (IF replaying[i] THEN 1 ELSE 0)

(* A component's events in the log carry the slots 0, 1, 2 ...: a decision   *)
(* both replicas emit enters once, and none is lost (Sequencer.admit).      *)
SlotsConsecutive ==
  \A k \in 1..Len(log) :
    log[k].slot = Spoken(SubSeq(log, 1, k - 1), log[k].comp)

(* The gap branch of admit is never taken: whatever instances of a component *)
(* are dead, late or rejoining, no emission is ahead of the next slot.      *)
NoGaps ==
  \A k \in 1..Len(ingressCh) : ingressCh[k].slot <= hwm[ingressCh[k].comp] + 1

(* The instance whose answer is a component's latest event in the log has   *)
(* not quarantined itself: a pair that disagrees never loses both halves to *)
(* the disagreement (Read, checkInflight; eventloop.go Run's comment).      *)
WinnerSurvives ==
  \A k \in 1..Len(log) :
    (\A m \in k+1..Len(log) : log[m].comp # log[k].comp)
      => status[log[k].sender] # "quarantined"

(* When nothing is left in any channel the stream is over, unless the       *)
(* component it waits for has no instance in service: no decision is ever   *)
(* swallowed by a lost race, a late join or a leave (SequencerClient.Send's *)
(* comment on unconditional emission; session.go Stalled).                  *)
Quiet ==
  /\ subCh = <<>> /\ ingressCh = <<>> /\ admitted = NoEvent
  /\ \A i \in Instance : status[i] = "running" => egressCh[i] = <<>>
InService(c) == \E i \in Instance : CompOf[i] = c /\ status[i] = "running"
StallsOnlyUnserved ==
  seqUp /\ Quiet => Speaks(log) = NoComponent \/ ~InService(Speaks(log))

(* An instance that keeps running ends up having applied the whole log.     *)
EveryReaderCatchesUp ==
  <>[](\A i \in Instance : status[i] = "running" => hist[i] = log /\ ~replaying[i])

(* The stream runs to its end: no interleaving of joins, lost races,        *)
(* duplicate emissions, self-quarantines and the death of whoever won keeps *)
(* a component from speaking again, as long as whoever may die has another  *)
(* instance that answers as it does and may not (Eventloop.Run).            *)
RunsToTheEnd == <>(Speaks(log) = NoComponent)
=============================================================================
