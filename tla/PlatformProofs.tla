--------------------------- MODULE PlatformProofs ---------------------------
(***************************************************************************)
(* Proofs about Platform and ActiveActive, for any components, instances,  *)
(* payloads, validators and cancellations, and for any handlers that take  *)
(* turns (OneSpeaker): the typing, every reader's feed, then what running  *)
(* every component more than once must not change.                         *)
(***************************************************************************)
EXTENDS ActiveActive, FiniteSetTheorems, TLAPS

-----------------------------------------------------------------------------
\* Typing.  seqUp is kept apart from the variables that hold data.
Data ==
  /\ log \in Seq(Event)
  /\ hwm \in [Component -> Int]
  /\ clients \subseteq Instance
  /\ subCh \in Seq(Membership)
  /\ ingressCh \in Seq(Event)
  /\ admitted \in Event \cup {NoEvent}
  /\ status \in [Instance -> Status]
  /\ egressCh \in [Instance -> Seq(Event \cup {Marker})]
  /\ senderSeq \in [Instance -> Nat]
  /\ inflight \in [Instance -> Payload \cup {NoPayload}]
  /\ replaying \in [Instance -> BOOLEAN]
  /\ hist \in [Instance -> Seq(Event)]

LEMMA TypeSplit == TypeOK <=> seqUp \in BOOLEAN /\ Data
BY Zenon DEF TypeOK, Data

LEMMA FlagStep == seqUp \in BOOLEAN /\ [Next]_vars => seqUp' \in BOOLEAN
BY Zenon DEF Next, SequencerStep, SeqJoin, SeqLeave, SeqAdmit, SeqReject, SeqSequence,
             SeqExit, Start, Read, ReadMarker, ReadDivergent, ReadInvalid, ReadEvent,
             Stop, seqVars, vars

LEMMA DataInit == Init => Data
BY PlatformAssumption DEF Init, Data, Status

LEMMA EventFields ==
  ASSUME NEW e \in Event
  PROVE  e.comp \in Component /\ e.slot \in Nat
BY DEF Event

\* What leaves the sequencer's own variables alone and touches instance i's.
LEMMA SendKeepsTypes ==
  ASSUME Data, NEW i \in Instance, NEW p \in Payload \cup {NoPayload},
         NEW settled \in Payload \cup {NoPayload}, NEW slot \in Nat,
         Emit(i, p, settled, slot)
  PROVE  /\ inflight' \in [Instance -> Payload \cup {NoPayload}]
         /\ status' \in [Instance -> Status]
         /\ ingressCh' \in Seq(Event)
<1> USE DEF Data
<1>1. CASE p = NoPayload
  BY <1>1 DEF Emit
<1>2. CASE p # NoPayload /\ settled # NoPayload
  BY <1>2 DEF Emit, Status
<1>3. CASE p # NoPayload /\ settled = NoPayload
  <2> DEFINE e == [comp |-> CompOf[i], sender |-> i, slot |-> slot, payload |-> p]
  <2>1. e \in Event
    BY <1>3, PlatformAssumption DEF Event
  <2> HIDE DEF e
  <2>2. ingressCh' = Append(ingressCh, e) /\ UNCHANGED status
        /\ inflight' = [inflight EXCEPT ![i] = p]
    BY <1>3 DEF Emit, e
  <2> QED
    BY <2>1, <2>2
<1> QED
  BY <1>1, <1>2, <1>3

LEMMA SequencerKeepsTypes == Data /\ (SequencerStep \/ SeqExit) => Data'
<1> SUFFICES ASSUME Data, SequencerStep \/ SeqExit PROVE Data'
  OBVIOUS
<1> USE DEF Data, loopVars, seqVars
<1>1. CASE SeqJoin
  <2> DEFINE i == Head(subCh).client
  <2>a. Head(subCh) \in Membership /\ Tail(subCh) \in Seq(Membership)
    BY <1>1 DEF SeqJoin
  <2>1. i \in Instance
    BY <2>a DEF Membership
  <2>2. Replayed(i) \in Seq(Event \cup {Marker})
    BY <2>1 DEF Replayed
  <2> HIDE DEF i
  <2>3. /\ clients' = clients \cup {i}
        /\ egressCh' = [egressCh EXCEPT ![i] = Replayed(i)]
    BY <1>1 DEF SeqJoin, i
  <2> QED
    BY <1>1, <2>a, <2>1, <2>2, <2>3 DEF SeqJoin
<1>2. CASE SeqLeave
  BY <1>2 DEF SeqLeave
<1>3. CASE SeqAdmit
  <2>1. Head(ingressCh) \in Event /\ Tail(ingressCh) \in Seq(Event)
    BY <1>3 DEF SeqAdmit
  <2>2. Head(ingressCh).comp \in Component /\ Head(ingressCh).slot \in Int
    BY <2>1, EventFields
  <2> QED
    BY <1>3, <2>1, <2>2 DEF SeqAdmit
<1>4. CASE SeqReject
  BY <1>4 DEF SeqReject
<1>5. CASE SeqSequence
  BY <1>5 DEF SeqSequence, FannedOut
<1>6. CASE SeqExit
  BY <1>6 DEF SeqExit
<1> QED
  BY <1>1, <1>2, <1>3, <1>4, <1>5, <1>6 DEF SequencerStep

LEMMA TailIsQueue ==
  ASSUME Data, NEW i \in Instance, egressCh[i] # <<>>,
         egressCh' = [egressCh EXCEPT ![i] = Tail(@)]
  PROVE  egressCh' \in [Instance -> Seq(Event \cup {Marker})]
BY DEF Data

LEMMA BookkeepingIsTyped ==
  ASSUME Data, NEW i \in Instance, NEW e \in Event
  PROVE  Settled(i, e) \in Payload \cup {NoPayload} /\ NextSlot(i, e) \in Nat
BY DEF Data, Settled, NextSlot, Event

LEMMA LeavingIsTyped ==
  ASSUME Data, NEW i \in Instance, NEW why \in Status, Leave(i, why)
  PROVE  subCh' \in Seq(Membership) /\ status' \in [Instance -> Status]
BY DEF Data, Leave, Membership

LEMMA InstancesKeepTypes ==
  ASSUME OneSpeaker, Data, NEW i \in Instance, Start(i) \/ Read(i) \/ Stop(i)
  PROVE  Data'
<1> USE DEF Data, seqVars
<1>1. CASE Start(i)
  BY <1>1 DEF Start, Membership, Status
<1>2. CASE Stop(i)
  BY <1>2 DEF Stop, Leave, Membership, Status
<1>3. CASE ReadMarker(i)
  <2>1. PICK p \in Boot(i, hist[i]) : Emit(i, p, inflight[i], senderSeq[i])
    BY <1>3 DEF ReadMarker
  <2>2. p \in Payload \cup {NoPayload}
    BY <2>1 DEF OneSpeaker
  <2>3. /\ inflight' \in [Instance -> Payload \cup {NoPayload}]
        /\ status' \in [Instance -> Status]
        /\ ingressCh' \in Seq(Event)
    BY <2>1, <2>2, SendKeepsTypes
  <2>4. egressCh' \in [Instance -> Seq(Event \cup {Marker})]
    BY <1>3, TailIsQueue DEF ReadMarker
  <2> QED
    BY <1>3, <2>3, <2>4 DEF ReadMarker
<1>4. CASE ReadDivergent(i)
  <2> DEFINE e == Head(egressCh[i])
  <2>1. e \in Event
    BY <1>4 DEF ReadDivergent
  <2>2. egressCh' \in [Instance -> Seq(Event \cup {Marker})]
    BY <1>4, TailIsQueue DEF ReadDivergent
  <2>3. subCh' \in Seq(Membership) /\ status' \in [Instance -> Status]
    BY <1>4, LeavingIsTyped DEF ReadDivergent, Status
  <2> QED
    BY <1>4, <2>1, <2>2, <2>3, BookkeepingIsTyped DEF ReadDivergent
<1>5. CASE ReadInvalid(i)
  <2> DEFINE e == Head(egressCh[i])
             h == Append(hist[i], e)
  <2>1. e \in Event /\ h \in Seq(Event)
    BY <1>5 DEF ReadInvalid
  <2>2. egressCh' \in [Instance -> Seq(Event \cup {Marker})]
    BY <1>5, TailIsQueue DEF ReadInvalid
  <2>3. subCh' \in Seq(Membership) /\ status' \in [Instance -> Status]
    BY <1>5, LeavingIsTyped DEF ReadInvalid, Status
  <2> QED
    BY <1>5, <2>1, <2>2, <2>3, BookkeepingIsTyped DEF ReadInvalid
<1>6. CASE ReadEvent(i)
  <2> DEFINE e == Head(egressCh[i])
             h == Append(hist[i], e)
  <2>1. PICK p \in Reply(i, h) : Emit(i, p, Settled(i, e), NextSlot(i, e))
    BY <1>6 DEF ReadEvent
  <2>2. e \in Event /\ h \in Seq(Event)
    BY <1>6 DEF ReadEvent
  <2>3. p \in Payload \cup {NoPayload}
    BY <2>1, <2>2 DEF OneSpeaker
  <2>4. Settled(i, e) \in Payload \cup {NoPayload} /\ NextSlot(i, e) \in Nat
    BY <2>2, BookkeepingIsTyped
  <2>5. /\ inflight' \in [Instance -> Payload \cup {NoPayload}]
        /\ status' \in [Instance -> Status]
        /\ ingressCh' \in Seq(Event)
    BY <2>1, <2>3, <2>4, SendKeepsTypes
  <2>6. egressCh' \in [Instance -> Seq(Event \cup {Marker})]
    BY <1>6, TailIsQueue DEF ReadEvent
  <2> QED
    BY <1>6, <2>2, <2>4, <2>5, <2>6 DEF ReadEvent
<1> QED
  BY <1>1, <1>2, <1>3, <1>4, <1>5, <1>6 DEF Read

LEMMA DataStep == OneSpeaker /\ Data /\ [Next]_vars => Data'
<1> SUFFICES ASSUME OneSpeaker, Data, [Next]_vars PROVE Data'
  OBVIOUS
<1>1. CASE UNCHANGED vars
  BY <1>1 DEF Data, vars
<1>2. CASE Next
  BY <1>2, SequencerKeepsTypes, InstancesKeepTypes DEF Next
<1> QED
  BY <1>1, <1>2

(* Every variable of the platform keeps its type, whatever handlers that    *)
(* take turns run on it.                                                    *)
THEOREM Typing == OneSpeaker => (Spec => []TypeOK)
<1> SUFFICES ASSUME OneSpeaker PROVE Spec => []TypeOK
  OBVIOUS
<1>1. Init => TypeOK
  BY DataInit, TypeSplit, Zenon DEF Init
<1>2. TypeOK /\ [Next]_vars => TypeOK'
  BY FlagStep, DataStep, Zenon DEF TypeOK, Data
<1> QED
  BY <1>1, <1>2, PTL DEF Spec

-----------------------------------------------------------------------------
\* Prefixes of a sequence.
LEMMA PrefixOfAppend ==
  ASSUME NEW S, NEW s \in Seq(S), NEW e \in S, NEW n \in 0..Len(s)
  PROVE  SubSeq(Append(s, e), 1, n) = SubSeq(s, 1, n)
OBVIOUS

LEMMA PrefixNext ==
  ASSUME NEW S, NEW s \in Seq(S), NEW n \in 0..(Len(s) - 1)
  PROVE  Append(SubSeq(s, 1, n), s[n + 1]) = SubSeq(s, 1, n + 1)
OBVIOUS

LEMMA PrefixFull ==
  ASSUME NEW S, NEW s \in Seq(S)
  PROVE  SubSeq(s, 1, Len(s)) = s
OBVIOUS

LEMMA PrefixIsSeq ==
  ASSUME NEW S, NEW s \in Seq(S), NEW n \in 0..Len(s)
  PROVE  SubSeq(s, 1, n) \in Seq(S) /\ Len(SubSeq(s, 1, n)) = n
OBVIOUS

-----------------------------------------------------------------------------
\* Readers.  An instance nothing has been delivered to:
Fresh(i) ==
  /\ i \notin clients
  /\ egressCh[i] = <<>>
  /\ hist[i] = <<>>
  /\ replaying[i]
  /\ inflight[i] = NoPayload
  /\ senderSeq[i] = 0

\* An instance asks to join once, and nothing reaches it before that request
\* is served.
Subscriptions ==
  /\ \A i \in Instance : status[i] = "new" =>
       Fresh(i) /\ \A k \in 1..Len(subCh) : subCh[k].client # i
  /\ \A k \in 1..Len(subCh) : subCh[k].join => Fresh(subCh[k].client)
  /\ \A k, l \in 1..Len(subCh) :
       subCh[k].join /\ subCh[l].join /\ subCh[k].client = subCh[l].client => k = l

LEMMA ClientsAreInstances ==
  ASSUME Data
  PROVE  \A k \in 1..Len(subCh) : subCh[k].client \in Instance
<1>1. \A k \in 1..Len(subCh) : subCh[k] \in Membership
  BY DEF Data
<1> QED
  BY <1>1 DEF Membership

LEMMA Appended ==
  ASSUME NEW S, NEW s \in Seq(S), NEW e
  PROVE  /\ Len(Append(s, e)) = Len(s) + 1
         /\ \A k \in 1..Len(s) : Append(s, e)[k] = s[k]
         /\ Append(s, e)[Len(s) + 1] = e
OBVIOUS

LEMMA SubscriptionsInit == Init => Subscriptions
BY DEF Init, Subscriptions, Fresh

LEMMA LeavingKeepsSubscriptions ==
  ASSUME Data, Subscriptions, NEW i \in Instance,
         subCh' = Append(subCh, [client |-> i, join |-> FALSE]),
         \A j \in Instance : status'[j] = "new" => j # i /\ status[j] = "new",
         \A j \in Instance :
           Fresh(j) => Fresh(j)' \/ (j = i /\ \A k \in 1..Len(subCh) :
                                                subCh[k].join => subCh[k].client # i)
  PROVE  Subscriptions'
<1> DEFINE m == [client |-> i, join |-> FALSE]
<1>1. /\ Len(subCh') = Len(subCh) + 1
      /\ \A k \in 1..Len(subCh) : subCh'[k] = subCh[k]
      /\ subCh'[Len(subCh) + 1] = m
  BY Appended DEF Data
<1>2. m.client = i /\ ~m.join /\ Len(subCh) \in Nat
  BY DEF Data
<1> HIDE DEF m
<1> QED
  BY <1>1, <1>2, ClientsAreInstances DEF Subscriptions

LEMMA SubscriptionsStep == Data /\ Subscriptions /\ [Next]_vars => Subscriptions'
<1> SUFFICES ASSUME Data, Subscriptions, [Next]_vars PROVE Subscriptions'
  OBVIOUS
<1>1. CASE SeqJoin
  <2> DEFINE c == Head(subCh).client
  <2>1. /\ c \in Instance
        /\ subCh[1].join /\ subCh[1].client = c
        /\ subCh' = Tail(subCh) /\ Len(subCh) >= 1
    BY <1>1, ClientsAreInstances DEF SeqJoin, Data
  <2>5. \A j \in Instance : j # c /\ Fresh(j) => Fresh(j)'
    BY <1>1, <2>1 DEF SeqJoin, Data, Fresh
  <2>2. \A k \in 1..Len(subCh') : subCh'[k] = subCh[k + 1] /\ k + 1 \in 1..Len(subCh)
    BY <2>1 DEF Data
  <2>3. \A k \in 1..Len(subCh) : subCh[k].client \in Instance
    BY ClientsAreInstances
  <2>4. UNCHANGED status /\ status[c] # "new"
    BY <1>1, <2>1 DEF SeqJoin, Subscriptions
  <2> HIDE DEF c
  <2> QED
    BY <2>1, <2>2, <2>3, <2>4, <2>5 DEF Subscriptions
<1>2. CASE SeqLeave
  <2>1. \A j \in Instance : Fresh(j) => Fresh(j)'
    BY <1>2 DEF SeqLeave, Fresh, loopVars
  <2>2. \A k \in 1..Len(subCh') : subCh'[k] = subCh[k + 1] /\ k + 1 \in 1..Len(subCh)
    BY <1>2 DEF SeqLeave, Data
  <2>3. \A k \in 1..Len(subCh) : subCh[k].client \in Instance
    BY ClientsAreInstances
  <2> QED
    BY <1>2, <2>1, <2>2, <2>3 DEF SeqLeave, Subscriptions, loopVars
<1>3. CASE SeqAdmit \/ SeqReject \/ SeqExit
  BY <1>3 DEF SeqAdmit, SeqReject, SeqExit, Subscriptions, Fresh, loopVars, seqVars
<1>4. CASE SeqSequence
  <2>1. UNCHANGED <<status, subCh>>
    BY <1>4 DEF SeqSequence
  <2>2. \A j \in Instance : Fresh(j) => Fresh(j)'
    BY <1>4 DEF SeqSequence, FannedOut, Fresh
  <2> QED
    BY <2>1, <2>2, ClientsAreInstances DEF Subscriptions
<1>5. ASSUME NEW i \in Instance, Start(i) PROVE Subscriptions'
  <2>1. /\ status[i] = "new" /\ status' = [status EXCEPT ![i] = "running"]
        /\ subCh' = Append(subCh, [client |-> i, join |-> TRUE])
        /\ \A j : Fresh(j) => Fresh(j)'
    BY <1>5 DEF Start, Fresh, seqVars
  <2>2. Fresh(i) /\ \A k \in 1..Len(subCh) : subCh[k].client # i
    BY <2>1 DEF Subscriptions
  <2> DEFINE m == [client |-> i, join |-> TRUE]
  <2>3. /\ Len(subCh') = Len(subCh) + 1
        /\ \A k \in 1..Len(subCh) : subCh'[k] = subCh[k]
        /\ subCh'[Len(subCh) + 1] = m
    BY <2>1, Appended DEF Data
  <2>4. m.client = i /\ Len(subCh) \in Nat
    BY DEF Data
  <2>5. \A j \in Instance : status'[j] = "new" => j # i /\ status[j] = "new"
    BY <2>1 DEF Data
  <2> HIDE DEF m
  <2> QED
    BY <2>1, <2>2, <2>3, <2>4, <2>5, ClientsAreInstances DEF Subscriptions
<1>6. ASSUME NEW i \in Instance, Stop(i) PROVE Subscriptions'
  <2>1. /\ status[i] = "running" /\ status' = [status EXCEPT ![i] = "stopped"]
        /\ subCh' = Append(subCh, [client |-> i, join |-> FALSE])
        /\ \A j : Fresh(j) => Fresh(j)'
    BY <1>6 DEF Stop, Leave, Fresh, seqVars
  <2>2. \A j \in Instance : status'[j] = "new" => j # i /\ status[j] = "new"
    BY <2>1 DEF Data
  <2> QED
    BY <2>1, <2>2, LeavingKeepsSubscriptions
<1>7. ASSUME NEW i \in Instance, Read(i) PROVE Subscriptions'
  <2>1. /\ ~Fresh(i) /\ status[i] # "new"
        /\ \A j \in Instance : j # i /\ Fresh(j) => Fresh(j)'
        /\ \A j \in Instance : j # i /\ status'[j] = "new" => status[j] = "new"
        /\ status'[i] # "new"
        /\ \/ UNCHANGED subCh
           \/ subCh' = Append(subCh, [client |-> i, join |-> FALSE])
    <3>1. CASE ReadMarker(i)
      BY <3>1 DEF ReadMarker, Emit, Fresh, Data, seqVars
    <3>2. CASE ReadDivergent(i)
      BY <3>2 DEF ReadDivergent, Leave, Fresh, Data, seqVars
    <3>3. CASE ReadInvalid(i)
      BY <3>3 DEF ReadInvalid, Leave, Fresh, Data, seqVars
    <3>4. CASE ReadEvent(i)
      BY <3>4 DEF ReadEvent, Emit, Fresh, Data, seqVars
    <3> QED
      BY <1>7, <3>1, <3>2, <3>3, <3>4 DEF Read
  <2>2. \A k \in 1..Len(subCh) : subCh[k].client \in Instance
    BY ClientsAreInstances
  <2>3. CASE UNCHANGED subCh
    BY <2>1, <2>2, <2>3 DEF Subscriptions
  <2>4. CASE subCh' = Append(subCh, [client |-> i, join |-> FALSE])
    <3>1. \A j \in Instance : status'[j] = "new" => j # i /\ status[j] = "new"
      BY <2>1
    <3>2. \A k \in 1..Len(subCh) : subCh[k].join => subCh[k].client # i
      BY <2>1 DEF Subscriptions
    <3> QED
      BY <2>1, <2>2, <2>4, <3>1, <3>2, LeavingKeepsSubscriptions
  <2> QED
    BY <2>1, <2>3, <2>4
<1>8. CASE UNCHANGED vars
  BY <1>8 DEF vars, Subscriptions, Fresh
<1> QED
  BY <1>1, <1>2, <1>3, <1>4, <1>5, <1>6, <1>7, <1>8 DEF Next, SequencerStep

-----------------------------------------------------------------------------
\* The two halves of ExactlyOnceInOrder.
Applied(i) ==
  /\ Len(hist[i]) <= Len(log)
  /\ hist[i] = SubSeq(log, 1, Len(hist[i]))
Owed(i) == IF replaying[i] THEN 1 ELSE 0
Queued(i) ==
  /\ Feed(i)
  /\ i \in clients => Len(hist[i]) + Len(egressCh[i]) = Len(log) + Owed(i)

LEMMA ReadersSplit ==
  ExactlyOnceInOrder <=>
    \A i \in Instance : Applied(i) /\ (status[i] # "quarantined" => Queued(i))
BY DEF ExactlyOnceInOrder, Applied, Queued, Owed

LEMMA ReadersInit == Init => ExactlyOnceInOrder
BY DEF Init, ExactlyOnceInOrder, Feed

\* A step that touches neither the log nor what the reader holds.
LEMMA ReaderUntouched ==
  ASSUME NEW i \in Instance, UNCHANGED log,
         hist'[i] = hist[i], egressCh'[i] = egressCh[i], replaying'[i] = replaying[i],
         i \in clients' => i \in clients
  PROVE  (Applied(i) => Applied(i)') /\ (Queued(i) => Queued(i)')
<1>1. Applied(i) => Applied(i)'
  BY DEF Applied
<1>2. LiveFeed(i) => LiveFeed(i)'
  BY DEF LiveFeed
<1>3. \A m : MarkedFeed(i, m) => MarkedFeed(i, m)'
  BY DEF MarkedFeed
<1>4. Feed(i) => Feed(i)'
  BY <1>2, <1>3, Zenon DEF Feed
<1>5. Owed(i)' = Owed(i)
  BY Zenon DEF Owed
<1> QED
  BY <1>1, <1>4, <1>5, Zenon DEF Queued

\* The event the reader is about to take is the next of the log.
LEMMA HeadIsNext ==
  ASSUME Data, NEW i \in Instance, Applied(i), Queued(i),
         egressCh[i] # <<>>, Head(egressCh[i]) # Marker
  PROVE  /\ Len(hist[i]) < Len(log)
         /\ Head(egressCh[i]) = log[Len(hist[i]) + 1]
         /\ Append(hist[i], Head(egressCh[i])) = SubSeq(log, 1, Len(hist[i]) + 1)
<1>1. Len(egressCh[i]) >= 1 /\ Head(egressCh[i]) = egressCh[i][1]
  BY DEF Data
<1>2. Len(hist[i]) + 1 <= Len(log) /\ egressCh[i][1] = log[Len(hist[i]) + 1]
  <2>1. CASE ~replaying[i] /\ LiveFeed(i)
    BY <1>1, <2>1 DEF LiveFeed, Data
  <2>2. CASE replaying[i] /\ \E m \in 1..Len(egressCh[i]) : MarkedFeed(i, m)
    <3>1. PICK m \in 1..Len(egressCh[i]) : MarkedFeed(i, m)
      BY <2>2
    <3>2. m # 1 /\ m - 1 >= 1
      BY <1>1, <3>1 DEF MarkedFeed, Data
    <3> QED
      BY <3>1, <3>2 DEF MarkedFeed, Data
  <2> QED
    BY <1>1, <2>1, <2>2 DEF Queued, Feed
<1>3. Len(hist[i]) \in 0..(Len(log) - 1) /\ log \in Seq(Event)
  BY <1>2 DEF Data
<1> QED
  BY <1>1, <1>2, <1>3, PrefixNext DEF Applied

\* Taking it leaves a queue that follows what is now applied.
LEMMA TakeOne ==
  ASSUME Data, NEW i \in Instance, Applied(i), Queued(i),
         egressCh[i] # <<>>, Head(egressCh[i]) # Marker,
         hist' = [hist EXCEPT ![i] = Append(hist[i], Head(egressCh[i]))],
         egressCh' = [egressCh EXCEPT ![i] = Tail(@)],
         UNCHANGED <<log, clients, replaying>>
  PROVE  Applied(i)' /\ Queued(i)'
<1> DEFINE q == egressCh[i]
           n == Len(hist[i])
<1>1. /\ q \in Seq(Event \cup {Marker}) /\ n \in Nat /\ Len(q) \in Nat /\ Len(q) >= 1
      /\ egressCh'[i] = Tail(q) /\ Len(hist'[i]) = n + 1
      /\ hist'[i] = Append(hist[i], Head(q))
  BY DEF Data
<1>2. Len(Tail(q)) = Len(q) - 1 /\ \A k \in 1..(Len(q) - 1) : Tail(q)[k] = q[k + 1]
  BY <1>1
<1>a. n < Len(log) /\ Append(hist[i], Head(q)) = SubSeq(log, 1, n + 1)
      /\ Len(log) \in Nat /\ UNCHANGED log
  BY HeadIsNext DEF Data
<1>3. Applied(i)'
  BY <1>1, <1>a DEF Applied
<1>c. Owed(i)' = Owed(i)
  BY Zenon DEF Owed
<1>d. i \in clients => n + Len(q) = Len(log) + Owed(i)
  BY DEF Queued
<1>e. i \in clients' => Len(hist'[i]) + Len(egressCh'[i]) = Len(log') + Owed(i)
  <2>1. Len(egressCh'[i]) = Len(q) - 1
    BY <1>1, <1>2, Zenon
  <2>2. Len(hist'[i]) = n + 1 /\ Len(log') = Len(log) /\ clients' = clients
    BY <1>1, <1>a
  <2> HIDE DEF q, n
  <2>3. (n + 1) + (Len(q) - 1) = n + Len(q)
    BY <1>1
  <2> QED
    BY <1>d, <2>1, <2>2, <2>3, Zenon
<1>b. Feed(i)' => Queued(i)'
  BY <1>c, <1>e DEF Queued
<1>4. CASE ~replaying[i] /\ LiveFeed(i)
  <2>1. LiveFeed(i)'
    BY <1>1, <1>2, <1>4 DEF LiveFeed, Data
  <2>2. Feed(i)'
    BY <1>4, <2>1, Zenon DEF Feed
  <2> QED
    BY <1>b, <1>3, <2>2
<1>5. CASE replaying[i] /\ \E m \in 1..Len(egressCh[i]) : MarkedFeed(i, m)
  <2>1. PICK m \in 1..Len(q) : MarkedFeed(i, m)
    BY <1>5
  <2>2. m # 1
    BY <1>1, <2>1 DEF MarkedFeed
  <2>3. m - 1 \in 1..Len(Tail(q))
    BY <1>1, <1>2, <2>2
  <2>4. MarkedFeed(i, m - 1)'
    BY <1>1, <1>2, <2>1, <2>2, <2>3 DEF MarkedFeed, Data
  <2>5. Feed(i)'
    BY <1>1, <1>5, <2>3, <2>4 DEF Feed
  <2> QED
    BY <1>b, <1>3, <2>5
<1> QED
  BY <1>4, <1>5 DEF Queued, Feed

LEMMA TakeMarker ==
  ASSUME Data, NEW i \in Instance, Applied(i), Queued(i), ReadMarker(i)
  PROVE  Applied(i)' /\ Queued(i)'
<1> DEFINE q == egressCh[i]
           n == Len(hist[i])
<1>1. /\ q \in Seq(Event \cup {Marker}) /\ n \in Nat /\ Len(q) \in Nat /\ Len(q) >= 1
      /\ egressCh'[i] = Tail(q) /\ hist'[i] = hist[i] /\ ~replaying'[i]
      /\ UNCHANGED <<log, clients>> /\ q[1] = Marker
  BY DEF ReadMarker, Data, seqVars
<1>2. Len(Tail(q)) = Len(q) - 1 /\ \A k \in 1..(Len(q) - 1) : Tail(q)[k] = q[k + 1]
  BY <1>1
<1>3. Len(log) \in Nat /\ \A k \in 1..Len(log) : log[k] # Marker
  BY PlatformAssumption DEF Data
<1>4. replaying[i] /\ MarkedFeed(i, 1)
  <2>1. CASE ~replaying[i] /\ LiveFeed(i)
    BY <1>1, <1>3, <2>1 DEF LiveFeed
  <2>2. CASE replaying[i] /\ \E m \in 1..Len(egressCh[i]) : MarkedFeed(i, m)
    <3>1. PICK m \in 1..Len(q) : MarkedFeed(i, m)
      BY <2>2
    <3>2. CASE m # 1
      BY <1>1, <1>3, <3>1, <3>2 DEF MarkedFeed
    <3> QED
      BY <2>2, <3>1, <3>2
  <2> QED
    BY <1>1, <2>1, <2>2 DEF Queued, Feed
<1>5. LiveFeed(i)'
  BY <1>1, <1>2, <1>4 DEF MarkedFeed, LiveFeed, Data
<1>6. Applied(i)' /\ Feed(i)'
  BY <1>1, <1>5 DEF Applied, Feed
<1>7. Owed(i) = 1 /\ Owed(i)' = 0
  BY <1>1, <1>4, Zenon DEF Owed
<1>8. i \in clients => n + Len(q) = Len(log) + 1
  BY <1>7 DEF Queued
<1>9. i \in clients' => Len(hist'[i]) + Len(egressCh'[i]) = Len(log') + 0
  <2>1. Len(egressCh'[i]) = Len(q) - 1
    BY <1>1, <1>2, Zenon
  <2>2. Len(hist'[i]) = n /\ Len(log') = Len(log) /\ clients' = clients
    BY <1>1
  <2> HIDE DEF q, n
  <2> QED
    BY <1>1, <1>3, <1>8, <2>1, <2>2
<1> QED
  BY <1>6, <1>7, <1>9 DEF Queued

\* A subscription served: the reader is handed the log and the marker.
LEMMA Joined ==
  ASSUME Data, Subscriptions, NEW i \in Instance, SeqJoin, i = Head(subCh).client
  PROVE  Applied(i)' /\ Queued(i)'
<1>1. Fresh(i)
  <2>1. Head(subCh) = subCh[1] /\ Len(subCh) >= 1 /\ Head(subCh).join
    BY DEF SeqJoin, Data
  <2> QED
    BY <2>1 DEF Subscriptions
<1>2. /\ egressCh'[i] = Append(<<>> \o log, Marker) /\ hist'[i] = <<>>
      /\ UNCHANGED <<log, replaying>>
  BY <1>1 DEF SeqJoin, Replayed, Fresh, Data
<1>3. <<>> \o log = log /\ log \in Seq(Event) /\ Len(log) \in Nat
  BY DEF Data
<1>4. /\ Len(egressCh'[i]) = Len(log) + 1
      /\ \A k \in 1..Len(log) : egressCh'[i][k] = log[k]
      /\ egressCh'[i][Len(log) + 1] = Marker
  BY <1>2, <1>3, Appended
<1>5. Applied(i)'
  BY <1>2, <1>3 DEF Applied
<1>6. MarkedFeed(i, Len(log) + 1)'
  BY <1>2, <1>3, <1>4 DEF MarkedFeed
<1>7. Len(log) + 1 \in 1..Len(egressCh'[i])
  BY <1>3, <1>4
<1>8. replaying'[i] /\ Owed(i)' = 1
  BY <1>1, <1>2, Zenon DEF Fresh, Owed
<1>9. Feed(i)'
  BY <1>2, <1>6, <1>7, <1>8 DEF Feed
<1>10. Len(hist'[i]) + Len(egressCh'[i]) = Len(log') + 1
  BY <1>2, <1>3, <1>4
<1> QED
  BY <1>5, <1>8, <1>9, <1>10 DEF Queued

\* An event sequenced: every client, and nobody else, is sent it.
LEMMA Sequenced ==
  ASSUME Data, NEW i \in Instance, SeqSequence
  PROVE  (Applied(i) => Applied(i)') /\ (Queued(i) => Queued(i)')
<1> DEFINE q == egressCh[i]
           n == Len(hist[i])
           N == Len(log)
<1>1. /\ q \in Seq(Event \cup {Marker}) /\ log \in Seq(Event) /\ hist[i] \in Seq(Event)
      /\ n \in Nat /\ N \in Nat /\ Len(q) \in Nat /\ admitted \in Event
      /\ hist'[i] = hist[i] /\ replaying' = replaying /\ clients' = clients
      /\ log' = Append(log, admitted)
  BY DEF SeqSequence, Data
<1>2. /\ Len(log') = N + 1 /\ log'[N + 1] = admitted
      /\ \A k \in 1..N : log'[k] = log[k]
  BY <1>1, Appended
<1>3. Applied(i) => Applied(i)'
  <2> HAVE Applied(i)
  <2>1. n \in 0..N /\ hist[i] = SubSeq(log, 1, n)
    BY <1>1 DEF Applied
  <2>2. SubSeq(log', 1, n) = SubSeq(log, 1, n)
    BY <1>1, <2>1, PrefixOfAppend
  <2> QED
    BY <1>1, <1>2, <2>1, <2>2 DEF Applied
<1>t. n \in Nat /\ N \in Nat /\ Len(q) \in Nat
  BY <1>1
<1>o. Owed(i)' = Owed(i)
  BY <1>1, Zenon DEF Owed
<1>4. CASE i \notin clients
  <2>1. egressCh'[i] = q
    BY <1>4 DEF SeqSequence, FannedOut
  <2>2. LiveFeed(i) => LiveFeed(i)'
    BY <1>1, <1>2, <2>1 DEF LiveFeed
  <2>3. \A m \in 1..Len(q) : MarkedFeed(i, m) => MarkedFeed(i, m)'
    BY <1>1, <1>2, <2>1 DEF MarkedFeed
  <2>4. Feed(i) => Feed(i)'
    BY <1>1, <2>1, <2>2, <2>3, Zenon DEF Feed
  <2> QED
    BY <1>1, <1>3, <1>4, <2>4 DEF Queued
<1>5. CASE i \in clients
  <2>1. egressCh'[i] = Append(q, admitted)
    BY <1>5 DEF SeqSequence, FannedOut
  <2>2. /\ Len(egressCh'[i]) = Len(q) + 1 /\ egressCh'[i][Len(q) + 1] = admitted
        /\ \A k \in 1..Len(q) : egressCh'[i][k] = q[k]
    BY <1>1, <2>1, Appended
  <2>3. ASSUME Queued(i), ~replaying[i] PROVE Queued(i)'
    <3>1. LiveFeed(i) /\ Owed(i) = 0 /\ Owed(i)' = 0
      BY <1>o, <2>3, Zenon DEF Queued, Feed, Owed
    <3>a. n + Len(q) = N + 0
      BY <1>5, <2>3, <3>1, Zenon DEF Queued
    <3> HIDE DEF q, n, N
    <3>2. n + Len(q) = N
      BY <1>t, <3>a
    <3>3. LiveFeed(i)'
      <4>1. \A k \in 1..Len(q) : n + k <= N /\ q[k] = log[n + k]
        BY <3>1 DEF LiveFeed, q, n, N
      <4>2. \A k \in 1..(Len(q) + 1) : /\ n + k <= N + 1
                                       /\ egressCh'[i][k] = log'[n + k]
        <5> SUFFICES ASSUME NEW k \in 1..(Len(q) + 1)
                     PROVE  n + k <= N + 1 /\ egressCh'[i][k] = log'[n + k]
          OBVIOUS
        <5>1. CASE k = Len(q) + 1
          <6>1. n + k = N + 1
            BY <1>t, <3>2, <5>1
          <6> QED
            BY <1>t, <1>2, <2>2, <5>1, <6>1
        <5>2. CASE k # Len(q) + 1
          <6>1. k \in 1..Len(q)
            BY <1>t, <5>2
          <6>2. n + k \in 1..N
            BY <1>t, <4>1, <6>1
          <6>3. egressCh'[i][k] = q[k] /\ log'[n + k] = log[n + k]
            BY <1>2, <2>2, <6>1, <6>2
          <6> QED
            BY <1>t, <4>1, <6>1, <6>2, <6>3
        <5> QED
          BY <5>1, <5>2
      <4> QED
        BY <1>1, <1>2, <2>2, <4>2, Zenon DEF LiveFeed, q, n, N
    <3>4. Feed(i)'
      BY <1>1, <2>3, <3>3, Zenon DEF Feed, q, n, N
    <3>5. Len(hist'[i]) + Len(egressCh'[i]) = Len(log') + 0
      <4>1. n + (Len(q) + 1) = (N + 1) + 0
        BY <1>t, <3>2
      <4> QED
        BY <1>1, <1>2, <2>2, <4>1, Zenon DEF q, n, N
    <3> QED
      BY <3>1, <3>4, <3>5 DEF Queued, q, n, N
  <2>4. ASSUME Queued(i), replaying[i] PROVE Queued(i)'
    <3>1. (\E m \in 1..Len(q) : MarkedFeed(i, m)) /\ Owed(i) = 1 /\ Owed(i)' = 1
      BY <1>o, <1>5, <2>4, Zenon DEF Queued, Feed, Owed
    <3>2. PICK m \in 1..Len(q) : MarkedFeed(i, m)
      BY <3>1
    <3>3. n + Len(q) = N + 1
      BY <1>5, <2>4, <3>1, Zenon DEF Queued
    <3> HIDE DEF q, n, N
    <3>4. MarkedFeed(i, m)' /\ m \in 1..Len(egressCh'[i])
      <4>1. /\ q[m] = Marker
            /\ \A k \in 1..(m - 1) : n + k <= N /\ q[k] = log[n + k]
            /\ \A k \in (m + 1)..Len(q) : n + k - 1 <= N /\ q[k] = log[n + k - 1]
        BY <3>2 DEF MarkedFeed, q, n, N
      <4>2. /\ m \in 1..(Len(q) + 1) /\ egressCh'[i][m] = Marker
            /\ \A k \in 1..(m - 1) : /\ n + k <= N + 1
                                     /\ egressCh'[i][k] = log'[n + k]
        <5>1. m \in 1..(Len(q) + 1) /\ m \in 1..Len(q)
          BY <1>t
        <5>2. ASSUME NEW k \in 1..(m - 1)
              PROVE  n + k <= N + 1 /\ egressCh'[i][k] = log'[n + k]
          <6>1. k \in 1..Len(q)
            BY <1>t, <5>1
          <6>2. n + k \in 1..N
            BY <1>t, <4>1, <6>1
          <6>3. egressCh'[i][k] = q[k] /\ log'[n + k] = log[n + k]
            BY <1>2, <2>2, <6>1, <6>2
          <6> QED
            BY <1>t, <4>1, <6>1, <6>2, <6>3
        <5> QED
          BY <2>2, <4>1, <5>1, <5>2
      <4>3. \A k \in (m + 1)..(Len(q) + 1) : /\ n + k - 1 <= N + 1
                                             /\ egressCh'[i][k] = log'[n + k - 1]
        <5> SUFFICES ASSUME NEW k \in (m + 1)..(Len(q) + 1)
                     PROVE  n + k - 1 <= N + 1 /\ egressCh'[i][k] = log'[n + k - 1]
          OBVIOUS
        <5>1. m \in 1..Len(q) /\ k \in Nat /\ n + k - 1 \in 1..(n + Len(q))
          BY <1>t
        <5>2. CASE k = Len(q) + 1
          <6>1. n + k - 1 = N + 1
            BY <1>t, <3>3, <5>2
          <6> QED
            BY <1>t, <1>2, <2>2, <5>2, <6>1
        <5>3. CASE k # Len(q) + 1
          <6>1. k \in (m + 1)..Len(q) /\ k \in 1..Len(q)
            BY <1>t, <5>1, <5>3
          <6>2. n + k - 1 \in 1..N
            BY <1>t, <4>1, <5>1, <6>1
          <6>3. egressCh'[i][k] = q[k] /\ log'[n + k - 1] = log[n + k - 1]
            BY <1>2, <2>2, <6>1, <6>2
          <6> QED
            BY <1>t, <4>1, <6>1, <6>2, <6>3
        <5> QED
          BY <5>2, <5>3
      <4> QED
        BY <1>1, <1>2, <2>2, <4>2, <4>3, Zenon DEF MarkedFeed, q, n, N
    <3>5. Feed(i)'
      BY <1>1, <2>4, <3>4, Zenon DEF Feed, q, n, N
    <3>6. Len(hist'[i]) + Len(egressCh'[i]) = Len(log') + 1
      <4>1. n + (Len(q) + 1) = (N + 1) + 1
        BY <1>t, <3>3
      <4> QED
        BY <1>1, <1>2, <2>2, <4>1, Zenon DEF q, n, N
    <3> QED
      BY <3>1, <3>5, <3>6 DEF Queued, q, n, N
  <2> QED
    BY <1>3, <2>3, <2>4
<1> QED
  BY <1>4, <1>5

\* A step of an instance concerns no other reader.
LEMMA OthersUntouched ==
  ASSUME Data, NEW i \in Instance, NEW j \in Instance, j # i,
         Start(i) \/ Read(i) \/ Stop(i)
  PROVE  /\ UNCHANGED <<log, clients>>
         /\ hist'[j] = hist[j] /\ egressCh'[j] = egressCh[j]
         /\ replaying'[j] = replaying[j] /\ status'[j] = status[j]
<1> USE DEF Data, seqVars
<1>1. CASE Start(i)
  BY <1>1 DEF Start
<1>2. CASE Stop(i)
  BY <1>2 DEF Stop, Leave
<1>3. CASE ReadMarker(i)
  BY <1>3 DEF ReadMarker, Emit
<1>4. CASE ReadDivergent(i)
  BY <1>4 DEF ReadDivergent, Leave
<1>5. CASE ReadInvalid(i)
  BY <1>5 DEF ReadInvalid, Leave
<1>6. CASE ReadEvent(i)
  BY <1>6 DEF ReadEvent, Emit
<1> QED
  BY <1>1, <1>2, <1>3, <1>4, <1>5, <1>6 DEF Read

\* What an instance's own step leaves of its feed.
LEMMA OwnStep ==
  ASSUME Data, NEW i \in Instance, Start(i) \/ Read(i) \/ Stop(i),
         Applied(i), status[i] # "quarantined" => Queued(i)
  PROVE  Applied(i)' /\ (status'[i] # "quarantined" => Queued(i)')
<1>1. CASE Start(i) \/ Stop(i)
  <2>1. /\ UNCHANGED <<log, hist, egressCh, replaying, clients>>
        /\ status[i] # "quarantined"
    BY <1>1 DEF Start, Stop, seqVars
  <2> QED
    BY <2>1, ReaderUntouched
<1>2. ASSUME Read(i) PROVE Queued(i)
  BY <1>2 DEF Read, ReadMarker, ReadDivergent, ReadInvalid, ReadEvent
<1>3. CASE ReadMarker(i)
  BY <1>2, <1>3, TakeMarker DEF Read
<1>4. CASE ReadDivergent(i)
  <2>1. UNCHANGED <<log, hist>> /\ status'[i] = "quarantined"
    BY <1>4 DEF ReadDivergent, Leave, seqVars, Data
  <2> QED
    BY <2>1 DEF Applied
<1>5. CASE ReadInvalid(i) \/ ReadEvent(i)
  <2>1. /\ egressCh[i] # <<>> /\ Head(egressCh[i]) # Marker
        /\ hist' = [hist EXCEPT ![i] = Append(hist[i], Head(egressCh[i]))]
        /\ egressCh' = [egressCh EXCEPT ![i] = Tail(@)]
        /\ UNCHANGED <<log, clients, replaying>>
    BY <1>5 DEF ReadInvalid, ReadEvent, seqVars
  <2> QED
    BY <1>2, <1>5, <2>1, TakeOne DEF Read
<1> QED
  BY <1>1, <1>3, <1>4, <1>5 DEF Read

LEMMA ReadersStep ==
  Data /\ Subscriptions /\ ExactlyOnceInOrder /\ [Next]_vars => ExactlyOnceInOrder'
<1> SUFFICES ASSUME Data, Subscriptions, ExactlyOnceInOrder, [Next]_vars,
                    NEW j \in Instance
             PROVE  Applied(j)' /\ (status'[j] # "quarantined" => Queued(j)')
  BY DEF ExactlyOnceInOrder, Applied, Queued, Owed
<1>1. Applied(j) /\ (status[j] # "quarantined" => Queued(j))
  BY ReadersSplit
<1>2. CASE SeqJoin
  <2>1. CASE j = Head(subCh).client
    BY <1>2, <2>1, Joined
  <2>2. CASE j # Head(subCh).client
    <3>1. /\ UNCHANGED <<log, hist, replaying, status>>
          /\ egressCh'[j] = egressCh[j] /\ (j \in clients' => j \in clients)
      BY <1>2, <2>2 DEF SeqJoin, Data
    <3> QED
      BY <1>1, <3>1, ReaderUntouched
  <2> QED
    BY <2>1, <2>2
<1>3. CASE SeqLeave \/ SeqAdmit \/ SeqReject \/ SeqExit \/ UNCHANGED vars
  <2>1. /\ UNCHANGED <<log, hist, replaying, status, egressCh>>
        /\ j \in clients' => j \in clients
    BY <1>3 DEF SeqLeave, SeqAdmit, SeqReject, SeqExit, loopVars, seqVars, vars
  <2> QED
    BY <1>1, <2>1, ReaderUntouched
<1>4. CASE SeqSequence
  BY <1>1, <1>4, Sequenced DEF SeqSequence
<1>5. ASSUME NEW i \in Instance, Start(i) \/ Read(i) \/ Stop(i)
      PROVE  Applied(j)' /\ (status'[j] # "quarantined" => Queued(j)')
  <2>1. CASE j = i
    BY <1>1, <1>5, <2>1, OwnStep
  <2>2. CASE j # i
    BY <1>1, <1>5, <2>2, OthersUntouched, ReaderUntouched
  <2> QED
    BY <2>1, <2>2
<1> QED
  BY <1>2, <1>3, <1>4, <1>5 DEF Next, SequencerStep

(* Every reader of the log applies it in order, each event once, with one   *)
(* marker between what it replays and what it lives through, whatever       *)
(* restarts, cancellations, quarantines and leaves happen around it.        *)
THEOREM ReadersInOrder == OneSpeaker => (Spec => []ExactlyOnceInOrder)
<1> SUFFICES ASSUME OneSpeaker PROVE Spec => []ExactlyOnceInOrder
  OBVIOUS
<1> DEFINE Inv == Data /\ Subscriptions /\ ExactlyOnceInOrder
<1>1. Init => Inv
  BY DataInit, SubscriptionsInit, ReadersInit
<1>2. Inv /\ [Next]_vars => Inv'
  BY DataStep, SubscriptionsStep, ReadersStep
<1>3. Inv => ExactlyOnceInOrder
  OBVIOUS
<1> QED
  BY <1>1, <1>2, <1>3, PTL DEF Spec

-----------------------------------------------------------------------------
\* Counting what a component has said.
LEMMA SpokenIsNat ==
  ASSUME NEW h \in Seq(Event), NEW c
  PROVE  /\ IsFiniteSet({k \in 1..Len(h) : h[k].comp = c})
         /\ Spoken(h, c) \in Nat
<1>1. IsFiniteSet(1..Len(h))
  BY FS_Interval
<1>2. {k \in 1..Len(h) : h[k].comp = c} \subseteq 1..Len(h)
  OBVIOUS
<1>3. IsFiniteSet({k \in 1..Len(h) : h[k].comp = c})
  BY <1>1, <1>2, FS_Subset
<1> QED
  BY <1>3, FS_CardinalityType DEF Spoken

LEMMA SpokenNothing ==
  ASSUME NEW c
  PROVE  Spoken(<<>>, c) = 0
<1>1. {k \in 1..Len(<<>>) : <<>>[k].comp = c} = {}
  OBVIOUS
<1> QED
  BY <1>1, FS_EmptySet DEF Spoken

LEMMA SpokenAppend ==
  ASSUME NEW h \in Seq(Event), NEW e \in Event, NEW c
  PROVE  Spoken(Append(h, e), c) = IF e.comp = c THEN Spoken(h, c) + 1 ELSE Spoken(h, c)
<1> DEFINE S == {k \in 1..Len(h) : h[k].comp = c}
           T == {k \in 1..Len(Append(h, e)) : Append(h, e)[k].comp = c}
           n == Len(h) + 1
<1>1. /\ Len(Append(h, e)) = n /\ Append(h, e)[n] = e /\ Len(h) \in Nat
      /\ \A k \in 1..Len(h) : Append(h, e)[k] = h[k]
  BY Appended
<1>2. n \notin S
  BY <1>1
<1>3. IsFiniteSet(S)
  BY SpokenIsNat
<1>4. CASE e.comp = c
  <2>1. T = S \cup {n}
    BY <1>1, <1>4
  <2> QED
    BY <1>2, <1>3, <1>4, <2>1, FS_AddElement DEF Spoken
<1>5. CASE e.comp # c
  <2>1. T = S
    BY <1>1, <1>5
  <2> QED
    BY <1>5, <2>1 DEF Spoken
<1> QED
  BY <1>4, <1>5

LEMMA SpokenPrefix ==
  ASSUME NEW h \in Seq(Event), NEW n \in 0..Len(h), NEW c
  PROVE  /\ Spoken(SubSeq(h, 1, n), c) <= Spoken(h, c)
         /\ n < Len(h) /\ h[n + 1].comp = c => Spoken(SubSeq(h, 1, n), c) < Spoken(h, c)
<1> DEFINE g == SubSeq(h, 1, n)
           S == {k \in 1..Len(h) : h[k].comp = c}
           T == {k \in 1..Len(g) : g[k].comp = c}
<1>1. g \in Seq(Event) /\ Len(g) = n /\ \A k \in 1..n : g[k] = h[k]
  OBVIOUS
<1>2. T \subseteq S
  BY <1>1
<1>3. IsFiniteSet(S) /\ Cardinality(S) \in Nat /\ Cardinality(T) \in Nat
  BY <1>1, SpokenIsNat DEF Spoken
<1>4. Cardinality(T) <= Cardinality(S) /\ (Cardinality(S) = Cardinality(T) => S = T)
  BY <1>2, <1>3, FS_Subset
<1>5. ASSUME n < Len(h), h[n + 1].comp = c PROVE S # T
  <2>1. n + 1 \in S /\ n + 1 \notin T
    BY <1>1, <1>5
  <2> QED
    BY <2>1
<1>6. Spoken(g, c) = Cardinality(T) /\ Spoken(h, c) = Cardinality(S)
  BY DEF Spoken
<1>7. Len(h) \in Nat /\ n \in Nat
  OBVIOUS
<1> HIDE DEF S, T
<1> QED
  BY <1>3, <1>4, <1>5, <1>6, <1>7

-----------------------------------------------------------------------------
\* What may follow a log.
LEMMA AllowedIsAnswer ==
  ASSUME OneSpeaker, NEW h \in Seq(Event), NEW e \in Allowed(h)
  PROVE  /\ e \in Event
         /\ e.sender \in Instance
         /\ e.comp = CompOf[e.sender] /\ e.comp = Speaks(h)
         /\ e.slot = Spoken(h, e.comp)
         /\ e.payload # NoPayload
<1>1. PICK i \in Instance : CompOf[i] = Speaks(h) /\
        \E p \in (Reply(i, h) \cup Boot(i, h)) \ {NoPayload} :
          e = [comp |-> CompOf[i], sender |-> i, slot |-> Spoken(h, CompOf[i]), payload |-> p]
  BY Zenon DEF Allowed
<1>p. PICK p \in (Reply(i, h) \cup Boot(i, h)) \ {NoPayload} :
        e = [comp |-> CompOf[i], sender |-> i, slot |-> Spoken(h, CompOf[i]), payload |-> p]
  BY <1>1
<1>2. p \in Payload /\ p # NoPayload
  BY <1>p DEF OneSpeaker
<1>3. Spoken(h, CompOf[i]) \in Nat /\ CompOf[i] \in Component
  BY SpokenIsNat, PlatformAssumption
<1> QED
  BY <1>1, <1>p, <1>2, <1>3 DEF Event

LEMMA AnswerIsAllowed ==
  ASSUME NEW h, NEW i \in Instance, CompOf[i] = Speaks(h),
         NEW p \in Reply(i, h) \cup Boot(i, h), p # NoPayload
  PROVE  [comp |-> CompOf[i], sender |-> i, slot |-> Spoken(h, CompOf[i]), payload |-> p]
           \in Allowed(h)
<1> DEFINE Of(j) == {[comp |-> CompOf[j], sender |-> j, slot |-> Spoken(h, CompOf[j]),
                      payload |-> q] : q \in (Reply(j, h) \cup Boot(j, h)) \ {NoPayload}}
           e == [comp |-> CompOf[i], sender |-> i, slot |-> Spoken(h, CompOf[i]), payload |-> p]
<1>1. e \in Of(i)
  BY Zenon
<1>2. Allowed(h) = UNION {Of(j) : j \in {k \in Instance : CompOf[k] = Speaks(h)}}
  BY Zenon DEF Allowed
<1>3. i \in {k \in Instance : CompOf[k] = Speaks(h)}
  OBVIOUS
<1> HIDE DEF Of, e
<1>4. e \in Allowed(h)
  BY <1>1, <1>2, <1>3
<1> QED
  BY <1>4 DEF e

-----------------------------------------------------------------------------
\* The invariant.  The sender of e still stands by it:
Stands(e) == inflight[e.sender] = e.payload /\ status[e.sender] # "quarantined"

Prefix(n) == SubSeq(log, 1, n)

\* An emission was computed from a prefix of the log that its sender has applied;
\* if that is the whole log, it is what its sender is waiting for.
Computed(e) ==
  \E n \in 0..Len(hist[e.sender]) :
    /\ e \in Allowed(Prefix(n))
    /\ n = Len(log) => Stands(e)
Due(e) == e \in Allowed(log) /\ Len(hist[e.sender]) = Len(log) /\ Stands(e)

InChannel == \A k \in 1..Len(ingressCh) : Computed(ingressCh[k])
Emissions ==
  /\ InChannel
  /\ admitted # NoEvent => Due(admitted)

\* The high-water marks count what is in the log and what is on its way into it; a
\* sequencer that has stopped may have dropped the latter.
Taken(c) == IF admitted # NoEvent /\ admitted.comp = c THEN 1 ELSE 0
Positions ==
  \A c \in Component :
    /\ hwm[c] >= Spoken(log, c) - 1
    /\ seqUp => hwm[c] = Spoken(log, c) - 1 + Taken(c)

\* A client counts what it has read, and waits for an answer only while the log it
\* has read makes it its turn.
Turn(i) ==
  status[i] # "quarantined" =>
    /\ senderSeq[i] = Spoken(hist[i], CompOf[i])
    /\ inflight[i] # NoPayload =>
         Speaks(hist[i]) = CompOf[i] /\ ~(replaying[i] /\ hist[i] = <<>>)

\* The author of an event of the log has read what came before it, and until it has
\* read the event itself it is in service and waits for it.
Author(i) ==
  \A k \in 1..Len(log) : log[k].sender = i =>
    /\ k - 1 <= Len(hist[i])
    /\ k - 1 = Len(hist[i]) => Stands(log[k])

\* Nothing is heard of an instance that has read nothing yet, and nothing of it is
\* in the log while it still replays.
Mute(i) ==
  /\ \A k \in 1..Len(log) : log[k].sender # i
  /\ \A k \in 1..Len(ingressCh) : ingressCh[k].sender # i
  /\ admitted # NoEvent => admitted.sender # i
Unheard(i) == replaying[i] /\ hist[i] = <<>> => Mute(i)
Catching(i) ==
  /\ replaying[i] /\ status[i] # "quarantined"
  /\ egressCh[i] # <<>> /\ Head(egressCh[i]) # Marker
Absent(i) == Catching(i) => \A k \in 1..Len(log) : log[k].sender # i

Turns ==
  /\ Legal(log)
  /\ Emissions
  /\ Positions
  /\ \A i \in Instance : Turn(i) /\ Author(i) /\ Unheard(i) /\ Absent(i)
  /\ SendNeverPanics
  /\ WinnerSurvives

Readers == Data /\ Subscriptions /\ ExactlyOnceInOrder

LEMMA TurnsInit == Init => Turns
<1> SUFFICES ASSUME Init PROVE Turns
  OBVIOUS
<1>1. Legal(log) /\ Emissions /\ SendNeverPanics /\ WinnerSurvives
  BY DEF Init, Legal, Emissions, InChannel, SendNeverPanics, WinnerSurvives
<1>2. ASSUME NEW c \in Component PROVE hwm[c] = -1 /\ Spoken(log, c) = 0 /\ Taken(c) = 0
  BY SpokenNothing DEF Init, Taken
<1>3. Positions
  BY <1>2 DEF Positions
<1>4. ASSUME NEW i \in Instance PROVE Turn(i) /\ Author(i) /\ Unheard(i) /\ Absent(i)
  <2>1. /\ senderSeq[i] = 0 /\ inflight[i] = NoPayload /\ hist[i] = <<>> /\ egressCh[i] = <<>>
        /\ log = <<>> /\ ingressCh = <<>> /\ admitted = NoEvent
    BY DEF Init
  <2>2. Turn(i)
    BY <2>1, SpokenNothing DEF Turn
  <2>3. Author(i) /\ Mute(i) /\ Absent(i)
    BY <2>1 DEF Author, Mute, Absent
  <2> QED
    BY <2>2, <2>3 DEF Unheard
<1> QED
  BY <1>1, <1>3, <1>4 DEF Turns

-----------------------------------------------------------------------------
\* Prefixes of the log.
LEMMA PrefixOfLog ==
  ASSUME Data, Legal(log), NEW n \in 0..Len(log)
  PROVE  /\ Prefix(n) \in Seq(Event) /\ Len(Prefix(n)) = n /\ Legal(Prefix(n))
         /\ n < Len(log) => log[n + 1] \in Allowed(Prefix(n))
         /\ n = Len(log) => Prefix(n) = log
<1>1. log \in Seq(Event) /\ Len(log) \in Nat
  BY DEF Data
<1>2. Prefix(n) \in Seq(Event) /\ Len(Prefix(n)) = n
  BY <1>1, PrefixIsSeq DEF Prefix
<1>3. n = Len(log) => Prefix(n) = log
  BY <1>1, PrefixFull DEF Prefix
<1>4. ASSUME n < Len(log) PROVE log[n + 1] \in Allowed(Prefix(n))
  <2>1. n + 1 \in 1..Len(log) /\ (n + 1) - 1 = n
    BY <1>1, <1>4
  <2>2. log[n + 1] \in Allowed(SubSeq(log, 1, (n + 1) - 1))
    BY <2>1 DEF Legal
  <2> QED
    BY <2>1, <2>2 DEF Prefix
<1>5. Legal(Prefix(n))
  <2> SUFFICES ASSUME NEW k \in 1..n
               PROVE  Prefix(n)[k] \in Allowed(SubSeq(Prefix(n), 1, k - 1))
    BY <1>2 DEF Legal
  <2>1. Prefix(n)[k] = log[k] /\ SubSeq(Prefix(n), 1, k - 1) = SubSeq(log, 1, k - 1)
    BY <1>1 DEF Prefix
  <2>2. k \in 1..Len(log)
    BY <1>1
  <2> QED
    BY <2>1, <2>2 DEF Legal
<1> QED
  BY <1>2, <1>3, <1>4, <1>5

LEMMA HistIsPrefix ==
  ASSUME Data, ExactlyOnceInOrder, NEW i \in Instance
  PROVE  /\ Len(hist[i]) \in 0..Len(log) /\ hist[i] = Prefix(Len(hist[i]))
         /\ Len(hist[i]) = Len(log) => hist[i] = log
<1>1. Len(hist[i]) \in 0..Len(log) /\ hist[i] = Prefix(Len(hist[i]))
  BY ReadersSplit DEF Applied, Prefix, Data
<1>2. log \in Seq(Event)
  BY DEF Data
<1> QED
  BY <1>1, <1>2, PrefixFull DEF Prefix

-----------------------------------------------------------------------------
LEMMA SendersAreInstances ==
  ASSUME Data
  PROVE  /\ \A k \in 1..Len(log) : log[k] \in Event /\ log[k].sender \in Instance
         /\ \A k \in 1..Len(ingressCh) : ingressCh[k] \in Event /\ ingressCh[k].sender \in Instance
         /\ admitted # NoEvent => admitted \in Event /\ admitted.sender \in Instance
<1>1. \A e \in Event : e.sender \in Instance
  BY DEF Event
<1>2. /\ \A k \in 1..Len(log) : log[k] \in Event
      /\ \A k \in 1..Len(ingressCh) : ingressCh[k] \in Event
      /\ admitted # NoEvent => admitted \in Event
  BY DEF Data
<1> QED
  BY <1>1, <1>2

-----------------------------------------------------------------------------
\* The sequencer's steps.

\* A step that changes none of what the invariant is about.
LEMMA Undisturbed ==
  ASSUME Turns,
         UNCHANGED <<log, hwm, ingressCh, admitted, seqUp, hist, inflight, senderSeq, replaying>>,
         \A i \in Instance : /\ status'[i] = "quarantined" <=> status[i] = "quarantined"
                             /\ status'[i] = "panicked" => status[i] = "panicked"
                             /\ Absent(i)',
         OneSpeaker, Data, ExactlyOnceInOrder
  PROVE  Turns'
<1>1. Legal(log)'
  BY DEF Turns
<1>2. \A k \in 1..Len(log) : log[k].sender \in Instance
  BY SendersAreInstances
<1>3. \A k \in 1..Len(ingressCh) : ingressCh[k].sender \in Instance
  BY SendersAreInstances
<1>4. admitted # NoEvent => admitted.sender \in Instance
  BY SendersAreInstances
<1>5. \A e : e.sender \in Instance /\ Stands(e) => Stands(e)'
  BY DEF Stands
<1>6. Emissions'
  BY <1>3, <1>4, <1>5 DEF Turns, Emissions, InChannel, Computed, Due, Prefix
<1>7. Positions'
  BY DEF Turns, Positions, Taken
<1>8. ASSUME NEW i \in Instance PROVE Turn(i)' /\ Author(i)' /\ Unheard(i)'
  BY <1>2, <1>5, <1>8 DEF Turns, Turn, Author, Unheard, Mute
<1>9. SendNeverPanics'
  BY DEF Turns, SendNeverPanics
<1>10. WinnerSurvives'
  BY <1>2 DEF Turns, WinnerSurvives
<1> QED
  BY <1>1, <1>6, <1>7, <1>8, <1>9, <1>10 DEF Turns

LEMMA JoinTurns == OneSpeaker /\ Readers /\ Turns /\ SeqJoin => Turns'
<1> SUFFICES ASSUME OneSpeaker, Readers, Turns, SeqJoin PROVE Turns'
  OBVIOUS
<1> DEFINE c == Head(subCh).client
<1>1. c \in Instance /\ Fresh(c)
  <2>1. subCh[1].join /\ subCh[1] = Head(subCh) /\ Len(subCh) >= 1
    BY DEF SeqJoin, Readers, Data
  <2> QED
    BY <2>1, ClientsAreInstances DEF Readers, Subscriptions
<1>2. /\ UNCHANGED <<log, hwm, ingressCh, admitted, seqUp, hist, inflight, senderSeq, replaying, status>>
      /\ \A i \in Instance \ {c} : egressCh'[i] = egressCh[i]
  BY DEF SeqJoin, Readers, Data
<1>3. \A k \in 1..Len(log) : log[k].sender # c
  BY <1>1 DEF Turns, Unheard, Mute, Fresh
<1> HIDE DEF c
<1>4. ASSUME NEW i \in Instance PROVE Absent(i)'
  BY <1>1, <1>2, <1>3, <1>4 DEF Turns, Absent, Catching
<1> QED
  BY <1>2, <1>4, Undisturbed DEF Readers

LEMMA LeaveTurns == OneSpeaker /\ Readers /\ Turns /\ SeqLeave => Turns'
<1> SUFFICES ASSUME OneSpeaker, Readers, Turns, SeqLeave PROVE Turns'
  OBVIOUS
<1>1. UNCHANGED <<log, hwm, ingressCh, admitted, seqUp, hist, inflight, senderSeq, replaying,
                  status, egressCh>>
  BY DEF SeqLeave, loopVars
<1>2. ASSUME NEW i \in Instance PROVE Absent(i)'
  BY <1>1 DEF Turns, Absent, Catching
<1> QED
  BY <1>1, <1>2, Undisturbed DEF Readers

\* What of the invariant a change of the channel, the marks and the admitted event
\* leaves alone.
LEMMA SequencerOnly ==
  ASSUME Turns, UNCHANGED <<log, loopVars>>,
         \A k \in 1..Len(ingressCh') :
           \E l \in 1..Len(ingressCh) : ingressCh'[k] = ingressCh[l],
         admitted' # NoEvent =>
           \/ admitted' = admitted
           \/ \E l \in 1..Len(ingressCh) : admitted' = ingressCh[l]
  PROVE  /\ Legal(log)' /\ SendNeverPanics' /\ WinnerSurvives'
         /\ \A i \in Instance : Turn(i)' /\ Author(i)' /\ Unheard(i)' /\ Absent(i)'
         /\ InChannel'
<1>1. \A e : Stands(e)' <=> Stands(e)
  BY DEF Stands, loopVars
<1>2. \A e : Computed(e)' <=> Computed(e)
  BY <1>1 DEF Computed, Prefix, loopVars
<1>3. InChannel'
  BY <1>2 DEF Turns, Emissions, InChannel
<1>4. Legal(log)' /\ SendNeverPanics' /\ WinnerSurvives'
  BY DEF Turns, SendNeverPanics, WinnerSurvives, loopVars
<1>5. ASSUME NEW i \in Instance PROVE Turn(i)' /\ Author(i)' /\ Absent(i)'
  BY <1>1, <1>5 DEF Turns, Turn, Author, Absent, Catching, loopVars
<1>6. ASSUME NEW i \in Instance PROVE Unheard(i)'
  <2>1. Mute(i) => Mute(i)'
    BY DEF Mute
  <2> QED
    BY <2>1 DEF Turns, Unheard, loopVars
<1> QED
  BY <1>3, <1>4, <1>5, <1>6

\* An emission at its component's next position was computed from the whole log.
LEMMA AdmissibleIsDue ==
  ASSUME OneSpeaker, Readers, Turns, SeqAdmit
  PROVE  LET e == Head(ingressCh)
         IN e \in Event /\ Due(e) /\ hwm[e.comp] = Spoken(log, e.comp) - 1
<1> DEFINE e == Head(ingressCh)
<1>1. e = ingressCh[1] /\ Len(ingressCh) >= 1 /\ e \in Event /\ log \in Seq(Event)
  BY DEF SeqAdmit, Readers, Data
<1>2. Computed(e) /\ e.slot = hwm[e.comp] + 1 /\ seqUp /\ admitted = NoEvent
  BY <1>1 DEF Turns, Emissions, InChannel, SeqAdmit, Admissible, Selecting
<1> HIDE DEF e
<1>3. e.sender \in Instance /\ e.comp \in Component
  BY <1>1 DEF Event
<1>4. Spoken(log, e.comp) \in Nat /\ Taken(e.comp) = 0
  BY <1>1, <1>2, SpokenIsNat DEF Taken
<1>5. hwm[e.comp] = Spoken(log, e.comp) - 1
  BY <1>2, <1>3, <1>4 DEF Turns, Positions
<1>6. PICK n \in 0..Len(hist[e.sender]) : e \in Allowed(Prefix(n)) /\ (n = Len(log) => Stands(e))
  BY <1>2 DEF Computed
<1>7. Len(hist[e.sender]) \in 0..Len(log) /\ Len(log) \in Nat
  BY <1>1, <1>3, HistIsPrefix DEF Readers
<1>8. n \in 0..Len(log) /\ n \in Nat
  BY <1>6, <1>7
<1>9. e.slot = Spoken(Prefix(n), e.comp) /\ e.comp = Speaks(Prefix(n))
  BY <1>6, <1>8, PrefixOfLog, AllowedIsAnswer DEF Readers, Turns
<1>10. n = Len(log)
  <2> SUFFICES ASSUME n # Len(log) PROVE FALSE
    OBVIOUS
  <2>1. n < Len(log)
    BY <1>7, <1>8
  <2>2. log[n + 1].comp = e.comp
    BY <1>8, <1>9, <2>1, PrefixOfLog, AllowedIsAnswer DEF Readers, Turns
  <2>3. Spoken(Prefix(n), e.comp) < Spoken(log, e.comp)
    BY <1>1, <1>8, <2>1, <2>2, SpokenPrefix DEF Prefix
  <2>4. Spoken(Prefix(n), e.comp) \in Nat
    BY <1>8, PrefixOfLog, SpokenIsNat DEF Readers, Turns
  <2> QED
    BY <1>2, <1>4, <1>5, <1>9, <2>3, <2>4
<1>11. e \in Allowed(log) /\ Stands(e)
  BY <1>6, <1>8, <1>10, PrefixOfLog DEF Readers, Turns
<1>12. Len(hist[e.sender]) = Len(log)
  BY <1>6, <1>7, <1>10
<1> QED
  BY <1>1, <1>5, <1>11, <1>12 DEF Due, e

LEMMA AdmitTurns == OneSpeaker /\ Readers /\ Turns /\ SeqAdmit => Turns'
<1> SUFFICES ASSUME OneSpeaker, Readers, Turns, SeqAdmit PROVE Turns'
  OBVIOUS
<1> DEFINE e == Head(ingressCh)
<1>1. e = ingressCh[1] /\ Len(ingressCh) >= 1
      /\ \A k \in 1..Len(Tail(ingressCh)) :
           k + 1 \in 1..Len(ingressCh) /\ Tail(ingressCh)[k] = ingressCh[k + 1]
  BY DEF SeqAdmit, Readers, Data
<1>2. /\ admitted' = e /\ ingressCh' = Tail(ingressCh) /\ hwm' = [hwm EXCEPT ![e.comp] = e.slot]
      /\ UNCHANGED <<log, loopVars, seqUp>> /\ e.slot = hwm[e.comp] + 1
  BY DEF SeqAdmit, Admissible
<1>3. e \in Event /\ Due(e) /\ hwm[e.comp] = Spoken(log, e.comp) - 1
  BY AdmissibleIsDue
<1>0. admitted = NoEvent
  BY DEF SeqAdmit, Selecting
<1> HIDE DEF e
<1>4. /\ Legal(log)' /\ SendNeverPanics' /\ WinnerSurvives'
      /\ \A i \in Instance : Turn(i)' /\ Author(i)' /\ Unheard(i)' /\ Absent(i)'
      /\ InChannel'
  <2>1. \A k \in 1..Len(ingressCh') :
           \E l \in 1..Len(ingressCh) : ingressCh'[k] = ingressCh[l]
    BY <1>1, <1>2
  <2>2. \E l \in 1..Len(ingressCh) : admitted' = ingressCh[l]
    <3>1. Len(ingressCh) \in Nat
      BY DEF Readers, Data
    <3>2. 1 \in 1..Len(ingressCh)
      BY <1>1, <3>1
    <3> QED
      BY <1>1, <1>2, <3>2
  <2> QED
    BY <1>2, <2>1, <2>2, SequencerOnly
<1>5. Emissions'
  BY <1>2, <1>3, <1>4 DEF Emissions, Due, Stands, loopVars
<1>6. Positions'
  <2> SUFFICES ASSUME NEW c \in Component
               PROVE  (hwm[c] >= Spoken(log, c) - 1 /\ hwm[c] = Spoken(log, c) - 1 + Taken(c))'
    BY DEF Positions
  <2>1. seqUp /\ e.comp \in Component /\ e # NoEvent
    BY <1>3, PlatformAssumption DEF SeqAdmit, Selecting, Event
  <2>2. Spoken(log, c) \in Nat
    BY SpokenIsNat DEF Readers, Data
  <2>3. CASE c = e.comp
    <3>1. Taken(c)' = 1 /\ hwm'[c] = Spoken(log, c)
      BY <1>2, <1>3, <2>1, <2>2, <2>3 DEF Taken, Readers, Data
    <3> QED
      BY <1>2, <2>2, <3>1
  <2>4. CASE c # e.comp
    <3>1. Taken(c)' = 0 /\ Taken(c) = 0 /\ hwm'[c] = hwm[c]
      BY <1>2, <1>0, <2>1, <2>4 DEF Taken, Readers, Data
    <3> QED
      BY <1>2, <2>1, <2>2, <3>1 DEF Turns, Positions
  <2> QED
    BY <2>3, <2>4
<1> QED
  BY <1>4, <1>5, <1>6 DEF Turns

LEMMA RejectTurns == OneSpeaker /\ Readers /\ Turns /\ SeqReject => Turns'
<1> SUFFICES ASSUME OneSpeaker, Readers, Turns, SeqReject PROVE Turns'
  OBVIOUS
<1>1. /\ ingressCh' = Tail(ingressCh) /\ UNCHANGED <<log, loopVars, seqUp, hwm, admitted>>
      /\ \A k \in 1..Len(Tail(ingressCh)) :
           k + 1 \in 1..Len(ingressCh) /\ Tail(ingressCh)[k] = ingressCh[k + 1]
  BY DEF SeqReject, Readers, Data, seqVars
<1>2. /\ Legal(log)' /\ SendNeverPanics' /\ WinnerSurvives'
      /\ \A i \in Instance : Turn(i)' /\ Author(i)' /\ Unheard(i)' /\ Absent(i)'
      /\ InChannel'
  BY <1>1, SequencerOnly
<1>3. Emissions' /\ Positions'
  BY <1>1, <1>2 DEF Turns, Emissions, Due, Stands, loopVars, Positions, Taken
<1> QED
  BY <1>2, <1>3 DEF Turns

LEMMA ExitTurns == OneSpeaker /\ Readers /\ Turns /\ SeqExit => Turns'
<1> SUFFICES ASSUME OneSpeaker, Readers, Turns, SeqExit PROVE Turns'
  OBVIOUS
<1>1. UNCHANGED <<log, loopVars, hwm, ingressCh>> /\ ~seqUp' /\ admitted' = NoEvent
  BY DEF SeqExit
<1>2. /\ Legal(log)' /\ SendNeverPanics' /\ WinnerSurvives'
      /\ \A i \in Instance : Turn(i)' /\ Author(i)' /\ Unheard(i)' /\ Absent(i)'
      /\ InChannel'
  BY <1>1, SequencerOnly
<1>3. Emissions' /\ Positions'
  BY <1>1, <1>2 DEF Turns, Emissions, Positions
<1> QED
  BY <1>2, <1>3 DEF Turns

\* The event admitted is appended, and its author has not read it yet.
LEMMA SequenceTurns == OneSpeaker /\ Readers /\ Turns /\ SeqSequence => Turns'
<1> SUFFICES ASSUME OneSpeaker, Readers, Turns, SeqSequence PROVE Turns'
  OBVIOUS
<1> DEFINE N == Len(log)
           a == admitted
<1>1. /\ log \in Seq(Event) /\ N \in Nat /\ a \in Event /\ a # NoEvent
      /\ log' = Append(log, a) /\ admitted' = NoEvent
      /\ UNCHANGED <<hwm, ingressCh, seqUp, status, senderSeq, inflight, replaying, hist, clients>>
  BY DEF SeqSequence, Readers, Data
<1>2. /\ Len(log') = N + 1 /\ log'[N + 1] = a
      /\ \A k \in 1..N : log'[k] = log[k]
  BY <1>1, Appended
<1>3. \A n \in 0..N : Prefix(n)' = Prefix(n)
  BY <1>1, PrefixOfAppend DEF Prefix
<1>4. /\ a \in Allowed(log) /\ Len(hist[a.sender]) = N /\ Stands(a)
      /\ a.sender \in Instance /\ a.comp \in Component
  BY <1>1, SendersAreInstances DEF Turns, Emissions, Due, Readers, Event
<1>5. \A e : Stands(e)' <=> Stands(e)
  BY <1>1 DEF Stands
<1>6. \A k \in 1..(N + 1) : k \in 1..N \/ k = N + 1
  BY <1>1
<1>7. \A i \in Instance : Len(hist[i]) \in 0..N
  BY HistIsPrefix DEF Readers
<1> HIDE DEF N, a
<1>8. Legal(log)'
  <2> SUFFICES ASSUME NEW k \in 1..(N + 1)
               PROVE  log'[k] \in Allowed(SubSeq(log', 1, k - 1))
    BY <1>2 DEF Legal
  <2>1. CASE k \in 1..N
    <3>1. k - 1 \in 0..N
      BY <1>1
    <3>2. SubSeq(log', 1, k - 1) = SubSeq(log, 1, k - 1)
      BY <1>3, <3>1 DEF Prefix
    <3> QED
      BY <1>2, <2>1, <3>2 DEF Turns, Legal, N
  <2>2. CASE k = N + 1
    <3>1. k - 1 = N /\ N \in 0..N
      BY <1>1, <2>2
    <3>2. SubSeq(log', 1, N) = SubSeq(log, 1, N)
      BY <1>1, <3>1, PrefixOfAppend DEF N
    <3>3. SubSeq(log, 1, N) = log
      BY <1>1, PrefixFull DEF N
    <3> QED
      BY <1>2, <1>4, <2>2, <3>1, <3>2, <3>3
  <2> QED
    BY <1>6, <2>1, <2>2
<1>9. Emissions'
  <2>1. ASSUME NEW e, e.sender \in Instance, Computed(e) PROVE Computed(e)'
    <3>1. PICK n \in 0..Len(hist[e.sender]) : e \in Allowed(Prefix(n))
      BY <2>1 DEF Computed
    <3>2. n \in 0..N /\ n # N + 1
      BY <1>1, <1>7, <2>1, <3>1
    <3>3. e \in Allowed(Prefix(n)')
      BY <1>3, <3>1, <3>2
    <3> QED
      BY <1>1, <1>2, <3>1, <3>2, <3>3 DEF Computed
  <2>2. InChannel'
    BY <1>1, <2>1, SendersAreInstances DEF Turns, Emissions, InChannel, Readers
  <2> QED
    BY <1>1, <2>2 DEF Emissions
<1>10. Positions'
  <2> SUFFICES ASSUME NEW c \in Component
               PROVE  /\ (hwm[c] >= Spoken(log, c) - 1)'
                      /\ (seqUp => hwm[c] = Spoken(log, c) - 1 + Taken(c))'
    BY DEF Positions
  <2>0. Spoken(log', c) = IF a.comp = c THEN Spoken(log, c) + 1 ELSE Spoken(log, c)
    BY <1>1, SpokenAppend
  <2>a. Spoken(log, c) \in Nat
    BY <1>1, SpokenIsNat
  <2>b. Taken(c) = IF a.comp = c THEN 1 ELSE 0
    BY <1>1 DEF Taken, a
  <2>1. Spoken(log', c) = Spoken(log, c) + Taken(c) /\ Spoken(log, c) \in Nat /\ Taken(c) \in Nat
    BY <2>0, <2>a, <2>b
  <2>2. Taken(c)' = 0
    BY <1>1 DEF Taken
  <2>3. seqUp
    BY DEF SeqSequence
  <2>4. hwm'[c] = Spoken(log, c) - 1 + Taken(c)
    BY <1>1, <2>3 DEF Turns, Positions
  <2> QED
    BY <2>1, <2>2, <2>4
<1>11. ASSUME NEW i \in Instance PROVE Turn(i)' /\ Author(i)' /\ Unheard(i)' /\ Absent(i)'
  <2>1. Turn(i)'
    BY <1>1 DEF Turns, Turn
  <2>2. Author(i)'
    <3> SUFFICES ASSUME NEW k \in 1..(N + 1), log'[k].sender = i
                 PROVE  /\ k - 1 <= Len(hist[i])
                        /\ k - 1 = Len(hist[i]) => Stands(log'[k])
      BY <1>1, <1>2 DEF Author, Stands
    <3>1. CASE k \in 1..N
      BY <1>2, <3>1 DEF Turns, Author, N
    <3>2. CASE k = N + 1
      BY <1>1, <1>2, <1>4, <3>2
    <3> QED
      BY <1>6, <3>1, <3>2
  <2>3. Unheard(i)'
    BY <1>1, <1>2, <1>6 DEF Turns, Unheard, Mute, N, a
  <2>4. Absent(i)'
    <3> SUFFICES ASSUME Catching(i)' PROVE \A k \in 1..(N + 1) : log'[k].sender # i
      BY <1>2 DEF Absent
    <3>1. Queued(i) /\ Applied(i)
      BY <1>1, ReadersSplit DEF Catching, Readers
    <3>2. egressCh[i] # <<>>
      <4> SUFFICES ASSUME egressCh[i] = <<>> PROVE FALSE
        OBVIOUS
      <4>1. i \notin clients
        BY <1>1, <3>1 DEF Queued, Feed, Catching
      <4> QED
        BY <4>1 DEF SeqSequence, FannedOut, Catching
    <3>3. Head(egressCh'[i]) = Head(egressCh[i])
      BY <3>2 DEF SeqSequence, FannedOut, Readers, Data
    <3>4. Catching(i)
      BY <1>1, <3>2, <3>3 DEF Catching
    <3>5. Len(hist[i]) < N
      BY <3>1, <3>4, HeadIsNext DEF Catching, Readers, N
    <3>6. a.sender # i
      BY <1>1, <1>4, <3>5
    <3> QED
      BY <1>2, <1>6, <3>4, <3>6 DEF Turns, Absent, N
  <2> QED
    BY <2>1, <2>2, <2>3, <2>4
<1>12. SendNeverPanics'
  BY <1>1 DEF Turns, SendNeverPanics
<1>13. WinnerSurvives'
  <2> SUFFICES ASSUME NEW k \in 1..(N + 1),
                      \A m \in (k + 1)..(N + 1) : log'[m].comp # log'[k].comp
               PROVE  status'[log'[k].sender] # "quarantined"
    BY <1>2 DEF WinnerSurvives
  <2>1. CASE k \in 1..N
    <3>1. \A m \in (k + 1)..N : m \in (k + 1)..(N + 1) /\ m \in 1..N
      BY <1>1
    <3>2. \A m \in (k + 1)..N : log[m].comp # log[k].comp
      BY <1>2, <2>1, <3>1
    <3> QED
      BY <1>1, <1>2, <2>1, <3>2 DEF Turns, WinnerSurvives, N
  <2>2. CASE k = N + 1
    BY <1>1, <1>2, <1>4, <2>2 DEF Stands
  <2> QED
    BY <1>6, <2>1, <2>2
<1> QED
  BY <1>8, <1>9, <1>10, <1>11, <1>12, <1>13 DEF Turns

-----------------------------------------------------------------------------
\* The instances' steps.
LEMMA StartStopTurns ==
  ASSUME OneSpeaker, Readers, Turns, NEW i \in Instance, Start(i) \/ Stop(i)
  PROVE  Turns'
<1>1. UNCHANGED <<log, hwm, ingressCh, admitted, seqUp, hist, inflight, senderSeq, replaying, egressCh>>
  BY DEF Start, Stop, seqVars
<1>2. \A j \in Instance :
        \/ status'[j] = status[j]
        \/ /\ status[j] # "quarantined" /\ status'[j] # "quarantined"
           /\ status'[j] # "panicked"
  BY DEF Start, Stop, Leave, Readers, Data
<1>3. ASSUME NEW j \in Instance PROVE Absent(j)'
  BY <1>1, <1>2 DEF Turns, Absent, Catching
<1> QED
  BY <1>1, <1>2, <1>3, Undisturbed DEF Readers

\* Sending says nothing, or puts an answer computed from h into the channel.
LEMMA SendsAllowed ==
  ASSUME OneSpeaker, NEW i \in Instance, NEW h \in Seq(Event), Legal(h),
         NEW p, p \in Reply(i, h) \/ p \in Boot(i, h),
         Emit(i, p, NoPayload, Spoken(h, CompOf[i]))
  PROVE  /\ UNCHANGED status
         /\ inflight' = [inflight EXCEPT ![i] = p]
         /\ \/ p = NoPayload /\ UNCHANGED ingressCh
            \/ /\ p # NoPayload /\ Speaks(h) = CompOf[i]
               /\ \E e \in Allowed(h) : /\ e.sender = i /\ e.payload = p
                                        /\ ingressCh' = Append(ingressCh, e)
<1>1. CASE p = NoPayload
  BY <1>1 DEF Emit
<1>2. CASE p # NoPayload
  <2> DEFINE e == [comp |-> CompOf[i], sender |-> i, slot |-> Spoken(h, CompOf[i]), payload |-> p]
  <2>1. Speaks(h) = CompOf[i]
    BY <1>2 DEF OneSpeaker, TakesTurns
  <2>2. e \in Allowed(h)
    BY <1>2, <2>1, AnswerIsAllowed
  <2>3. e.sender = i /\ e.payload = p
    OBVIOUS
  <2>4. /\ UNCHANGED status /\ inflight' = [inflight EXCEPT ![i] = p]
        /\ ingressCh' = Append(ingressCh, e)
    BY <1>2 DEF Emit
  <2> HIDE DEF e
  <2> QED
    BY <1>2, <2>1, <2>2, <2>3, <2>4
<1> QED
  BY <1>1, <1>2

\* An instance that is about to apply an event: the event is the next of the log,
\* counts, and settles what the instance waits for.
LEMMA ReadsNext ==
  ASSUME OneSpeaker, Readers, Turns, NEW i \in Instance, status[i] = "running",
         egressCh[i] # <<>>, Head(egressCh[i]) # Marker
  PROVE  LET n == Len(hist[i])
             e == Head(egressCh[i])
             h == Append(hist[i], e)
         IN /\ n \in Nat /\ n < Len(log) /\ e = log[n + 1] /\ e \in Event
            /\ h \in Seq(Event) /\ Len(h) = n + 1 /\ h = Prefix(n + 1) /\ Legal(h)
            /\ NextSlot(i, e) = Spoken(h, CompOf[i])
            /\ Settled(i, e) = NoPayload
<1> DEFINE n == Len(hist[i])
           e == Head(egressCh[i])
           h == Append(hist[i], e)
<1>1. Applied(i) /\ Queued(i)
  BY ReadersSplit DEF Readers
<1>2. n < Len(log) /\ e = log[n + 1] /\ h = Prefix(n + 1)
  BY <1>1, HeadIsNext DEF Readers, Prefix
<1>3. n \in Nat /\ Len(log) \in Nat /\ hist[i] \in Seq(Event) /\ e \in Event
  BY DEF Readers, Data
<1>4. n \in 0..Len(log) /\ n + 1 \in 0..Len(log)
  BY <1>2, <1>3
<1>5. h \in Seq(Event) /\ Len(h) = n + 1 /\ Legal(h)
  BY <1>2, <1>4, PrefixOfLog DEF Readers, Turns
<1>6. hist[i] = Prefix(n)
  BY HistIsPrefix DEF Readers
<1>7. e \in Allowed(hist[i])
  BY <1>2, <1>4, <1>6, PrefixOfLog DEF Readers, Turns
<1>8. e.comp = Speaks(hist[i]) /\ e.slot = Spoken(hist[i], e.comp)
  BY <1>3, <1>7, AllowedIsAnswer
<1>9. /\ senderSeq[i] = Spoken(hist[i], CompOf[i])
      /\ inflight[i] # NoPayload => Speaks(hist[i]) = CompOf[i]
  BY DEF Turns, Turn
<1> HIDE DEF n, e
<1>10. NextSlot(i, e) = Spoken(h, CompOf[i])
  BY <1>3, <1>8, <1>9, SpokenAppend DEF NextSlot
<1>11. Settled(i, e) = NoPayload
  BY <1>8, <1>9 DEF Settled
<1> QED
  BY <1>2, <1>3, <1>5, <1>10, <1>11 DEF n, e

\* The step of instance i changes nothing of the others.
LEMMA OthersKeep ==
  ASSUME Data, NEW i \in Instance, Read(i)
  PROVE  /\ UNCHANGED <<log, hwm, clients, admitted, seqUp>>
         /\ \A j \in Instance : j # i =>
              /\ hist'[j] = hist[j] /\ egressCh'[j] = egressCh[j]
              /\ replaying'[j] = replaying[j] /\ status'[j] = status[j]
              /\ inflight'[j] = inflight[j] /\ senderSeq'[j] = senderSeq[j]
<1> USE DEF Data, seqVars
<1>1. CASE ReadMarker(i)
  BY <1>1 DEF ReadMarker, Emit
<1>2. CASE ReadDivergent(i)
  BY <1>2 DEF ReadDivergent, Leave
<1>3. CASE ReadInvalid(i)
  BY <1>3 DEF ReadInvalid, Leave
<1>4. CASE ReadEvent(i)
  BY <1>4 DEF ReadEvent, Emit
<1> QED
  BY <1>1, <1>2, <1>3, <1>4 DEF Read

\* What a step of an instance owes the invariant: if it has read the whole log and
\* waits for an answer, it goes on waiting; what it emits was computed.
Waits(i) == Len(hist[i]) = Len(log) /\ inflight[i] # NoPayload

LEMMA ReadTurns ==
  ASSUME OneSpeaker, Readers, Turns, NEW i \in Instance, Read(i),
         Len(hist[i]) <= Len(hist'[i]),
         Waits(i) => inflight'[i] = inflight[i] /\ status'[i] # "quarantined"
                     /\ hist'[i] = hist[i],
         ingressCh' = ingressCh \/ \E e \in Event : /\ ingressCh' = Append(ingressCh, e)
                                                   /\ e.sender = i /\ Computed(e)'
  PROVE  /\ Legal(log)' /\ Emissions' /\ Positions'
         /\ \A j \in Instance : j # i => Turn(j)' /\ Author(j)' /\ Unheard(j)' /\ Absent(j)'
<1>1. /\ UNCHANGED <<log, hwm, clients, admitted, seqUp>>
      /\ \A j \in Instance : j # i =>
              /\ hist'[j] = hist[j] /\ egressCh'[j] = egressCh[j]
              /\ replaying'[j] = replaying[j] /\ status'[j] = status[j]
              /\ inflight'[j] = inflight[j] /\ senderSeq'[j] = senderSeq[j]
  BY OthersKeep DEF Readers
<1>2. \A e : e.sender \in Instance /\ e.sender # i /\ Stands(e) => Stands(e)'
  BY <1>1 DEF Stands
<1>3. \A j \in Instance : Len(hist[j]) \in 0..Len(log) /\ hist[j] \in Seq(Event)
  BY HistIsPrefix DEF Readers, Data
<1>4. ASSUME NEW e, e.sender \in Instance, Computed(e) PROVE Computed(e)'
  <2>1. PICK n \in 0..Len(hist[e.sender]) : e \in Allowed(Prefix(n)) /\ (n = Len(log) => Stands(e))
    BY <1>4 DEF Computed
  <2>2. n \in 0..Len(hist'[e.sender])
    BY <1>1, <1>3, <1>4, <2>1
  <2>3. Prefix(n)' = Prefix(n)
    BY <1>1 DEF Prefix
  <2>4. ASSUME n = Len(log) PROVE Stands(e)'
    <3>1. CASE e.sender # i
      BY <1>2, <1>4, <2>1, <2>4, <3>1
    <3>2. CASE e.sender = i
      <4>1. n \in 0..Len(log) /\ Len(hist[i]) = Len(log)
        BY <1>3, <2>1, <2>4, <3>2
      <4>2. Prefix(n) \in Seq(Event)
        BY <4>1, PrefixOfLog DEF Readers, Turns
      <4>3. e.payload # NoPayload
        BY <2>1, <4>2, AllowedIsAnswer
      <4> QED
        BY <2>1, <2>4, <3>2, <4>1, <4>3 DEF Stands, Waits
    <3> QED
      BY <3>1, <3>2
  <2> QED
    BY <1>1, <2>1, <2>2, <2>3, <2>4 DEF Computed
<1>5. InChannel'
  <2>1. CASE ingressCh' = ingressCh
    BY <1>4, <2>1, SendersAreInstances DEF Turns, Emissions, InChannel, Readers
  <2>2. CASE \E e \in Event : ingressCh' = Append(ingressCh, e) /\ e.sender = i /\ Computed(e)'
    <3>1. PICK e \in Event : ingressCh' = Append(ingressCh, e) /\ Computed(e)'
      BY <2>2
    <3>2. /\ Len(ingressCh') = Len(ingressCh) + 1 /\ ingressCh'[Len(ingressCh) + 1] = e
          /\ \A k \in 1..Len(ingressCh) : ingressCh'[k] = ingressCh[k]
          /\ Len(ingressCh) \in Nat
      BY <3>1, Appended DEF Readers, Data
    <3>3. \A k \in 1..Len(ingressCh) : Computed(ingressCh[k])'
      BY <1>4, SendersAreInstances DEF Turns, Emissions, InChannel, Readers
    <3> QED
      BY <3>1, <3>2, <3>3 DEF InChannel
  <2> QED
    BY <2>1, <2>2
<1>6. Emissions'
  <2> SUFFICES ASSUME admitted # NoEvent PROVE Due(admitted)'
    BY <1>1, <1>5 DEF Emissions
  <2>1. Due(admitted) /\ admitted.sender \in Instance /\ log \in Seq(Event)
    BY SendersAreInstances DEF Turns, Emissions, Readers, Data
  <2>2. CASE admitted.sender # i
    BY <1>1, <1>2, <2>1, <2>2 DEF Due
  <2>3. CASE admitted.sender = i
    <3>1. admitted.payload # NoPayload
      BY <2>1, AllowedIsAnswer DEF Due
    <3>2. Waits(i) /\ inflight[i] = admitted.payload
      BY <2>1, <2>3, <3>1 DEF Due, Stands, Waits
    <3>3. Len(hist'[i]) = Len(log) /\ Stands(admitted)'
      BY <1>1, <2>3, <3>2 DEF Waits, Stands
    <3> QED
      BY <1>1, <2>1, <2>3, <3>3 DEF Due
  <2> QED
    BY <2>2, <2>3
<1>7. Legal(log)' /\ Positions'
  BY <1>1 DEF Turns, Positions, Taken
<1>8. ASSUME NEW j \in Instance, j # i PROVE Turn(j)' /\ Author(j)' /\ Unheard(j)' /\ Absent(j)'
  <2>1. Turn(j)' /\ Absent(j)'
    BY <1>1, <1>8 DEF Turns, Turn, Absent, Catching
  <2>2. Author(j)'
    BY <1>1, <1>8 DEF Turns, Author, Stands
  <2>3. Mute(j) => Mute(j)'
    <3>1. ASSUME Mute(j), NEW k \in 1..Len(ingressCh') PROVE ingressCh'[k].sender # j
      <4>1. CASE ingressCh' = ingressCh
        BY <3>1, <4>1 DEF Mute
      <4>2. CASE \E e \in Event : ingressCh' = Append(ingressCh, e) /\ e.sender = i
        <5>1. PICK e \in Event : ingressCh' = Append(ingressCh, e) /\ e.sender = i
          BY <4>2
        <5>2. /\ Len(ingressCh') = Len(ingressCh) + 1 /\ ingressCh'[Len(ingressCh) + 1] = e
              /\ \A l \in 1..Len(ingressCh) : ingressCh'[l] = ingressCh[l]
              /\ Len(ingressCh) \in Nat
          BY <5>1, Appended DEF Readers, Data
        <5> QED
          BY <1>8, <3>1, <5>1, <5>2 DEF Mute
      <4> QED
        BY <4>1, <4>2
    <3> QED
      BY <1>1, <3>1 DEF Mute
  <2> QED
    BY <1>1, <1>8, <2>1, <2>2, <2>3 DEF Turns, Unheard
<1> QED
  BY <1>6, <1>7, <1>8

\* What an instance of the running platform owes after a step of its own.
OwnTurns(i) == Turn(i) /\ Author(i) /\ Unheard(i) /\ Absent(i) /\ SendNeverPanics /\ WinnerSurvives
Announced(i) ==
  /\ Len(hist[i]) <= Len(hist'[i])
  /\ Waits(i) => inflight'[i] = inflight[i] /\ status'[i] # "quarantined"
                 /\ hist'[i] = hist[i]
  /\ \/ ingressCh' = ingressCh
     \/ \E e \in Event : ingressCh' = Append(ingressCh, e) /\ e.sender = i /\ Computed(e)'

\* Applying an event: what the handler answers is all the instance waits for.
LEMMA EventSends ==
  ASSUME OneSpeaker, Readers, Turns, NEW i \in Instance, ReadEvent(i)
  PROVE  LET n == Len(hist[i])
             h == Append(hist[i], Head(egressCh[i]))
         IN /\ status[i] = "running" /\ egressCh[i] # <<>> /\ Head(egressCh[i]) # Marker
            /\ n \in Nat /\ n < Len(log) /\ h \in Seq(Event) /\ Len(h) = n + 1
            /\ h = Prefix(n + 1) /\ Legal(h)
            /\ hist'[i] = h /\ senderSeq'[i] = Spoken(h, CompOf[i])
            /\ UNCHANGED <<log, clients, admitted, seqUp, subCh, status, replaying>>
            /\ \E p \in Reply(i, h) :
                 /\ inflight'[i] = p
                 /\ \/ p = NoPayload /\ UNCHANGED ingressCh
                    \/ /\ p # NoPayload /\ Speaks(h) = CompOf[i]
                       /\ \E e \in Allowed(h) : /\ e.sender = i /\ e.payload = p
                                                /\ ingressCh' = Append(ingressCh, e)
<1> DEFINE n == Len(hist[i])
           h == Append(hist[i], Head(egressCh[i]))
<1>1. /\ status[i] = "running" /\ egressCh[i] # <<>> /\ Head(egressCh[i]) # Marker
      /\ hist'[i] = h /\ senderSeq'[i] = NextSlot(i, Head(egressCh[i]))
      /\ UNCHANGED <<log, clients, admitted, seqUp, subCh, replaying>>
  BY DEF ReadEvent, Readers, Data, seqVars
<1>2. /\ n \in Nat /\ n < Len(log) /\ h \in Seq(Event) /\ Len(h) = n + 1
      /\ h = Prefix(n + 1) /\ Legal(h)
      /\ NextSlot(i, Head(egressCh[i])) = Spoken(h, CompOf[i])
      /\ Settled(i, Head(egressCh[i])) = NoPayload
  BY <1>1, ReadsNext
<1>3. PICK p \in Reply(i, h) : Emit(i, p, NoPayload, Spoken(h, CompOf[i]))
  BY <1>2 DEF ReadEvent
<1> HIDE DEF h
<1>4. /\ UNCHANGED status
      /\ inflight' = [inflight EXCEPT ![i] = p]
      /\ \/ p = NoPayload /\ UNCHANGED ingressCh
         \/ /\ p # NoPayload /\ Speaks(h) = CompOf[i]
            /\ \E e \in Allowed(h) : /\ e.sender = i /\ e.payload = p
                                     /\ ingressCh' = Append(ingressCh, e)
  BY <1>2, <1>3, SendsAllowed
<1>5. inflight'[i] = p
  BY <1>4 DEF Readers, Data
<1> QED
  BY <1>1, <1>2, <1>4, <1>5 DEF h

LEMMA EventTurns ==
  ASSUME OneSpeaker, Readers, Turns, NEW i \in Instance, ReadEvent(i)
  PROVE  OwnTurns(i)' /\ Announced(i)
<1> DEFINE n == Len(hist[i])
           h == Append(hist[i], Head(egressCh[i]))
<1>1. /\ status[i] = "running" /\ egressCh[i] # <<>> /\ Head(egressCh[i]) # Marker
      /\ n \in Nat /\ n < Len(log) /\ h \in Seq(Event) /\ Len(h) = n + 1
      /\ h = Prefix(n + 1) /\ Legal(h)
      /\ hist'[i] = h /\ senderSeq'[i] = Spoken(h, CompOf[i])
      /\ UNCHANGED <<log, clients, admitted, seqUp, subCh, status, replaying>>
  BY EventSends
<1>2. PICK p \in Reply(i, h) :
        /\ inflight'[i] = p
        /\ \/ p = NoPayload /\ UNCHANGED ingressCh
           \/ /\ p # NoPayload /\ Speaks(h) = CompOf[i]
              /\ \E e \in Allowed(h) : /\ e.sender = i /\ e.payload = p
                                       /\ ingressCh' = Append(ingressCh, e)
  BY EventSends
<1> HIDE DEF n, h
<1>3. Turn(i)'
  BY <1>1, <1>2 DEF Turn
<1>4. Author(i)'
  <2> SUFFICES ASSUME NEW k \in 1..Len(log), log[k].sender = i
               PROVE  k - 1 <= n + 1 /\ k - 1 # n + 1
    BY <1>1 DEF Author
  <2>1. k - 1 <= n
    BY DEF Turns, Author, n
  <2> QED
    BY <1>1, <2>1
<1>5. Unheard(i)'
  BY <1>1 DEF Unheard
<1>6. Absent(i)'
  BY <1>1 DEF Turns, Absent, Catching
<1>7. SendNeverPanics' /\ WinnerSurvives'
  BY <1>1 DEF Turns, SendNeverPanics, WinnerSurvives
<1>8. Announced(i)
  <2>1. ASSUME NEW e \in Allowed(h), e.sender = i, e.payload = p PROVE e \in Event /\ Computed(e)'
    <3>1. e \in Event
      BY <1>1, AllowedIsAnswer
    <3>2. Stands(e)'
      BY <1>1, <1>2, <2>1 DEF Stands
    <3>3. PICK m \in Nat : m = n + 1
      BY <1>1
    <3>4. e \in Allowed(Prefix(m)') /\ m \in 0..Len(hist'[i])
      BY <1>1, <3>3 DEF Prefix
    <3>5. m = Len(log') => Stands(e)'
      BY <3>2
    <3> QED
      BY <2>1, <3>1, <3>4, <3>5 DEF Computed
  <2>2. \/ ingressCh' = ingressCh
        \/ \E e \in Event : ingressCh' = Append(ingressCh, e) /\ e.sender = i /\ Computed(e)'
    BY <1>2, <2>1
  <2>3. Len(hist[i]) <= Len(hist'[i]) /\ ~Waits(i)
    BY <1>1 DEF Waits, n
  <2> QED
    BY <2>2, <2>3 DEF Announced
<1> QED
  BY <1>3, <1>4, <1>5, <1>6, <1>7, <1>8 DEF OwnTurns

\* An instance whose chain is refused was replaying: none of the log is its own.
LEMMA InvalidTurns ==
  ASSUME OneSpeaker, Readers, Turns, NEW i \in Instance, ReadInvalid(i)
  PROVE  OwnTurns(i)' /\ Announced(i)
<1> DEFINE n == Len(hist[i])
           h == Append(hist[i], Head(egressCh[i]))
<1>1. /\ status[i] = "running" /\ egressCh[i] # <<>> /\ Head(egressCh[i]) # Marker
      /\ hist'[i] = h /\ replaying[i]
      /\ status' = [status EXCEPT ![i] = "quarantined"]
      /\ UNCHANGED <<log, replaying, ingressCh>>
  BY DEF ReadInvalid, Leave, Refused, Readers, Data, seqVars
<1>2. n \in Nat /\ n < Len(log) /\ Len(h) = n + 1
  BY <1>1, ReadsNext
<1>3. status'[i] = "quarantined" /\ \A j \in Instance : j # i => status'[j] = status[j]
  BY <1>1 DEF Readers, Data
<1>4. \A k \in 1..Len(log) : log[k].sender # i
  BY <1>1 DEF Turns, Absent, Catching
<1> HIDE DEF n, h
<1>5. Turn(i)' /\ Author(i)' /\ Unheard(i)' /\ Absent(i)'
  BY <1>1, <1>2, <1>3, <1>4 DEF Turn, Author, Unheard, Absent, Catching
<1>6. SendNeverPanics'
  BY <1>3 DEF Turns, SendNeverPanics
<1>7. WinnerSurvives'
  BY <1>1, <1>3, <1>4, SendersAreInstances DEF Turns, WinnerSurvives, Readers
<1>8. Announced(i)
  BY <1>1, <1>2 DEF Announced, Waits, n
<1> QED
  BY <1>5, <1>6, <1>7, <1>8 DEF OwnTurns

\* An instance the log disagrees with is not the author of the event it reads, and
\* that event is later than any it is the author of.
LEMMA DivergentTurns ==
  ASSUME OneSpeaker, Readers, Turns, NEW i \in Instance, ReadDivergent(i)
  PROVE  OwnTurns(i)' /\ Announced(i)
<1> DEFINE n == Len(hist[i])
           e == Head(egressCh[i])
<1>1. /\ status[i] = "running" /\ egressCh[i] # <<>> /\ e # Marker
      /\ e.comp = CompOf[i] /\ inflight[i] # e.payload
      /\ status' = [status EXCEPT ![i] = "quarantined"]
      /\ UNCHANGED <<log, replaying, ingressCh, hist, admitted>>
  BY DEF ReadDivergent, Leave, Disagrees, seqVars
<1>2. n \in Nat /\ n < Len(log) /\ e = log[n + 1]
  BY <1>1, ReadsNext
<1>3. status'[i] = "quarantined" /\ \A j \in Instance : j # i => status'[j] = status[j]
  BY <1>1 DEF Readers, Data
<1> HIDE DEF e
<1>4. \A k \in 1..Len(log) : log[k].sender = i => k <= n
  <2> SUFFICES ASSUME NEW k \in 1..Len(log), log[k].sender = i PROVE k <= n
    OBVIOUS
  <2>1. k - 1 <= n /\ (k - 1 = n => Stands(log[k]))
    BY DEF Turns, Author
  <2>2. k - 1 # n
    <3> SUFFICES ASSUME k - 1 = n PROVE FALSE
      OBVIOUS
    <3>1. log[k] = e
      BY <1>2
    <3> QED
      BY <1>1, <2>1, <3>1 DEF Stands
  <2> QED
    BY <1>2, <2>1, <2>2
<1>5. Turn(i)' /\ Author(i)' /\ Unheard(i)' /\ Absent(i)'
  <2>1. Author(i)'
    <3> SUFFICES ASSUME NEW k \in 1..Len(log), log[k].sender = i
                 PROVE  k - 1 <= n /\ k - 1 # n
      BY <1>1 DEF Author
    <3> QED
      BY <1>2, <1>4
  <2>2. Unheard(i)'
    BY <1>1 DEF Turns, Unheard, Mute
  <2> QED
    BY <1>3, <2>1, <2>2 DEF Turn, Absent, Catching
<1>6. SendNeverPanics'
  BY <1>3 DEF Turns, SendNeverPanics
<1>7. WinnerSurvives'
  <2> SUFFICES ASSUME NEW k \in 1..Len(log),
                      \A m \in (k + 1)..Len(log) : log[m].comp # log[k].comp
               PROVE  status'[log[k].sender] # "quarantined"
    BY <1>1 DEF WinnerSurvives
  <2>1. log[k].sender # i
    <3> SUFFICES ASSUME log[k].sender = i PROVE FALSE
      OBVIOUS
    <3>1. k - 1 \in 0..Len(log) /\ k - 1 < Len(log) /\ (k - 1) + 1 = k /\ k <= n
      BY <1>2, <1>4
    <3>2. log[k] \in Allowed(Prefix(k - 1)) /\ Prefix(k - 1) \in Seq(Event)
      BY <3>1, PrefixOfLog DEF Readers, Turns
    <3>3. log[k].comp = e.comp
      BY <1>1, <3>2, AllowedIsAnswer
    <3>4. n + 1 \in (k + 1)..Len(log)
      BY <1>2, <3>1 DEF Readers, Data
    <3> QED
      BY <1>2, <3>3, <3>4
  <2> QED
    BY <1>3, <2>1, SendersAreInstances DEF Turns, WinnerSurvives, Readers
<1>8. Announced(i)
  BY <1>1, <1>2 DEF Announced, Waits, n
<1> QED
  BY <1>5, <1>6, <1>7, <1>8 DEF OwnTurns

\* Only a reader that is still replaying has the marker before it.
LEMMA MarkerEndsReplay ==
  ASSUME Data, NEW i \in Instance, Queued(i), egressCh[i] # <<>>, Head(egressCh[i]) = Marker
  PROVE  replaying[i]
<1>1. egressCh[i][1] = Marker /\ 1 \in 1..Len(egressCh[i])
  BY DEF Data
<1>2. \A k \in 1..Len(log) : log[k] # Marker
  BY PlatformAssumption DEF Data
<1>3. Len(hist[i]) \in Nat /\ Len(log) \in Nat
  BY DEF Data
<1> QED
  BY <1>1, <1>2, <1>3 DEF Queued, Feed, LiveFeed

\* Reading the marker: a bootstrap of the empty stream is all the instance sends.
LEMMA MarkerSends ==
  ASSUME OneSpeaker, Readers, Turns, NEW i \in Instance, ReadMarker(i)
  PROVE  LET h == hist[i]
         IN /\ status[i] = "running" /\ replaying[i] /\ ~replaying'[i]
            /\ Len(h) \in 0..Len(log) /\ h \in Seq(Event) /\ h = Prefix(Len(h)) /\ Legal(h)
            /\ UNCHANGED <<log, clients, admitted, seqUp, subCh, status, hist, senderSeq>>
            /\ \E p \in Boot(i, h) :
                 \/ p = NoPayload /\ UNCHANGED ingressCh /\ inflight'[i] = inflight[i]
                 \/ /\ p # NoPayload /\ h = <<>> /\ Speaks(h) = CompOf[i]
                    /\ inflight[i] = NoPayload /\ inflight'[i] = p
                    /\ \E e \in Allowed(h) : /\ e.sender = i /\ e.payload = p
                                             /\ ingressCh' = Append(ingressCh, e)
<1> DEFINE h == hist[i]
<1>1. /\ status[i] = "running" /\ egressCh[i] # <<>> /\ Head(egressCh[i]) = Marker
      /\ ~replaying'[i]
      /\ UNCHANGED <<log, clients, admitted, seqUp, subCh, hist, senderSeq>>
  BY DEF ReadMarker, Readers, Data, seqVars
<1>2. PICK p \in Boot(i, h) : Emit(i, p, inflight[i], senderSeq[i])
  BY DEF ReadMarker
<1>3. /\ senderSeq[i] = Spoken(h, CompOf[i])
      /\ inflight[i] # NoPayload => Speaks(h) = CompOf[i] /\ ~(replaying[i] /\ h = <<>>)
  BY <1>1 DEF Turns, Turn
<1>4. replaying[i]
  BY <1>1, ReadersSplit, MarkerEndsReplay DEF Readers
<1>5. h \in Seq(Event) /\ Len(h) \in 0..Len(log) /\ h = Prefix(Len(h)) /\ Legal(h)
  <2>1. Len(h) \in 0..Len(log) /\ h = Prefix(Len(h))
    BY HistIsPrefix DEF Readers
  <2> QED
    BY <2>1, PrefixOfLog DEF Readers, Turns, Data
<1>6. CASE p = NoPayload
  <2>1. UNCHANGED <<status, ingressCh>> /\ inflight'[i] = inflight[i]
    BY <1>2, <1>6 DEF Emit, Readers, Data
  <2> HIDE DEF h
  <2> QED
    BY <1>1, <1>4, <1>5, <1>6, <2>1 DEF h
<1>7. CASE p # NoPayload
  <2>1. Speaks(h) = CompOf[i] /\ h = <<>>
    BY <1>5, <1>7 DEF OneSpeaker, TakesTurns
  <2>2. inflight[i] = NoPayload
    BY <1>3, <1>4, <2>1
  <2>3. /\ UNCHANGED status
        /\ inflight' = [inflight EXCEPT ![i] = p]
        /\ \/ p = NoPayload /\ UNCHANGED ingressCh
           \/ /\ p # NoPayload /\ Speaks(h) = CompOf[i]
              /\ \E e \in Allowed(h) : /\ e.sender = i /\ e.payload = p
                                       /\ ingressCh' = Append(ingressCh, e)
    BY <1>2, <1>3, <1>5, <2>2, SendsAllowed
  <2>4. inflight'[i] = p
    BY <2>3 DEF Readers, Data
  <2> HIDE DEF h
  <2> QED
    BY <1>1, <1>4, <1>5, <1>7, <2>1, <2>2, <2>3, <2>4 DEF h
<1> QED
  BY <1>6, <1>7

LEMMA MarkerTurns ==
  ASSUME OneSpeaker, Readers, Turns, NEW i \in Instance, ReadMarker(i)
  PROVE  OwnTurns(i)' /\ Announced(i)
<1> DEFINE h == hist[i]
<1>1. /\ status[i] = "running" /\ replaying[i] /\ ~replaying'[i]
      /\ Len(h) \in 0..Len(log) /\ h \in Seq(Event) /\ h = Prefix(Len(h)) /\ Legal(h)
      /\ UNCHANGED <<log, clients, admitted, seqUp, subCh, status, hist, senderSeq>>
  BY MarkerSends
<1>2. PICK p \in Boot(i, h) :
        \/ p = NoPayload /\ UNCHANGED ingressCh /\ inflight'[i] = inflight[i]
        \/ /\ p # NoPayload /\ h = <<>> /\ Speaks(h) = CompOf[i]
           /\ inflight[i] = NoPayload /\ inflight'[i] = p
           /\ \E e \in Allowed(h) : /\ e.sender = i /\ e.payload = p
                                    /\ ingressCh' = Append(ingressCh, e)
  BY MarkerSends
<1>3. /\ senderSeq[i] = Spoken(h, CompOf[i])
      /\ inflight[i] # NoPayload => Speaks(h) = CompOf[i]
  BY <1>1 DEF Turns, Turn
<1>4. Unheard(i)' /\ Absent(i)'
  BY <1>1 DEF Unheard, Absent, Catching
<1>5. SendNeverPanics' /\ WinnerSurvives'
  BY <1>1 DEF Turns, SendNeverPanics, WinnerSurvives
<1>6. Turn(i)'
  BY <1>1, <1>2, <1>3 DEF Turn
<1>7. CASE p = NoPayload
  <2>1. UNCHANGED ingressCh /\ inflight'[i] = inflight[i]
    BY <1>2, <1>7
  <2>2. Author(i)'
    BY <1>1, <2>1 DEF Turns, Author, Stands
  <2>3. Announced(i)
    BY <1>1, <2>1 DEF Announced
  <2> QED
    BY <1>4, <1>5, <1>6, <2>2, <2>3 DEF OwnTurns
<1>8. CASE p # NoPayload
  <2>1. h = <<>> /\ inflight[i] = NoPayload /\ inflight'[i] = p
    BY <1>2, <1>8
  <2>2. Author(i)'
    BY <1>1, <2>1 DEF Turns, Unheard, Author, Mute
  <2>3. PICK e \in Allowed(h) : e.sender = i /\ e.payload = p /\ ingressCh' = Append(ingressCh, e)
    BY <1>2, <1>8
  <2>4. e \in Event
    BY <1>1, AllowedIsAnswer
  <2>5. Computed(e)'
    <3>1. Stands(e)'
      BY <1>1, <2>1, <2>3 DEF Stands
    <3>2. PICK m \in Nat : m = Len(h)
      BY <1>1
    <3>3. Prefix(m)' = h
      <4>1. Prefix(m)' = Prefix(m)
        BY <1>1 DEF Prefix
      <4> QED
        BY <1>1, <3>2, <4>1
    <3>4. m \in 0..Len(hist'[i]) /\ e \in Allowed(Prefix(m)')
      BY <1>1, <3>2, <3>3
    <3> QED
      BY <2>3, <3>1, <3>4 DEF Computed
  <2>6. Announced(i)
    BY <1>1, <2>1, <2>3, <2>4, <2>5 DEF Announced, Waits
  <2> QED
    BY <1>4, <1>5, <1>6, <2>2, <2>6 DEF OwnTurns
<1> QED
  BY <1>7, <1>8

LEMMA ReaderTurns ==
  ASSUME OneSpeaker, Readers, Turns, NEW i \in Instance, Read(i)
  PROVE  Turns'
<1>1. OwnTurns(i)' /\ Announced(i)
  BY EventTurns, InvalidTurns, DivergentTurns, MarkerTurns DEF Read
<1>2. /\ Legal(log)' /\ Emissions' /\ Positions'
      /\ \A j \in Instance : j # i => Turn(j)' /\ Author(j)' /\ Unheard(j)' /\ Absent(j)'
  BY <1>1, ReadTurns DEF Announced
<1> QED
  BY <1>1, <1>2 DEF Turns, OwnTurns

LEMMA TurnsStep == OneSpeaker /\ Readers /\ Turns /\ [Next]_vars => Turns'
<1> SUFFICES ASSUME OneSpeaker, Readers, Turns, [Next]_vars PROVE Turns'
  OBVIOUS
<1>1. CASE SequencerStep
  BY <1>1, JoinTurns, LeaveTurns, AdmitTurns, RejectTurns, SequenceTurns DEF SequencerStep
<1>2. CASE SeqExit
  BY <1>2, ExitTurns
<1>3. CASE \E i \in Instance : Start(i) \/ Stop(i)
  BY <1>3, StartStopTurns
<1>4. CASE \E i \in Instance : Read(i)
  BY <1>4, ReaderTurns
<1>5. CASE UNCHANGED vars
  <2>1. UNCHANGED <<log, hwm, ingressCh, admitted, seqUp, hist, inflight, senderSeq,
                    replaying, status, egressCh>>
    BY <1>5 DEF vars
  <2>2. ASSUME NEW i \in Instance PROVE Absent(i)'
    BY <2>1 DEF Turns, Absent, Catching
  <2> QED
    BY <2>1, <2>2, Undisturbed DEF Readers
<1> QED
  BY <1>1, <1>2, <1>3, <1>4, <1>5 DEF Next

-----------------------------------------------------------------------------
\* What the invariant says of positions.
LEMMA LegalSlots == OneSpeaker /\ Readers /\ Turns => SlotsConsecutive
<1> SUFFICES ASSUME OneSpeaker, Readers, Turns, NEW k \in 1..Len(log)
             PROVE  log[k].slot = Spoken(SubSeq(log, 1, k - 1), log[k].comp)
  BY DEF SlotsConsecutive
<1>1. k - 1 \in 0..Len(log) /\ k - 1 < Len(log) /\ (k - 1) + 1 = k
  BY DEF Readers, Data
<1>2. log[k] \in Allowed(Prefix(k - 1)) /\ Prefix(k - 1) \in Seq(Event)
  BY <1>1, PrefixOfLog DEF Readers, Turns
<1> QED
  BY <1>2, AllowedIsAnswer DEF Prefix

LEMMA TurnsLeaveNoGaps == OneSpeaker /\ Readers /\ Turns => NoGaps
<1> SUFFICES ASSUME OneSpeaker, Readers, Turns, NEW k \in 1..Len(ingressCh)
             PROVE  ingressCh[k].slot <= hwm[ingressCh[k].comp] + 1
  BY DEF NoGaps
<1> DEFINE e == ingressCh[k]
           s == e.sender
<1>1. s \in Instance /\ log \in Seq(Event)
  BY SendersAreInstances DEF Readers, Data
<1>2. PICK n \in 0..Len(hist[s]) : e \in Allowed(Prefix(n))
  BY DEF Turns, Emissions, InChannel, Computed
<1>3. Len(hist[s]) \in 0..Len(log)
  BY <1>1, HistIsPrefix DEF Readers
<1> HIDE DEF e, s
<1>4. n \in 0..Len(log)
  BY <1>2, <1>3
<1>5. Prefix(n) \in Seq(Event)
  BY <1>4, PrefixOfLog DEF Readers, Turns
<1>6. e.slot = Spoken(Prefix(n), e.comp) /\ e \in Event
  BY <1>2, <1>5, AllowedIsAnswer
<1>7. Spoken(Prefix(n), e.comp) <= Spoken(log, e.comp)
  BY <1>1, <1>4, SpokenPrefix DEF Prefix
<1>8. Spoken(Prefix(n), e.comp) \in Nat /\ Spoken(log, e.comp) \in Nat
  BY <1>1, <1>5, SpokenIsNat
<1>9. e.comp \in Component /\ hwm[e.comp] \in Int
  BY <1>6 DEF Event, Readers, Data
<1>10. hwm[e.comp] >= Spoken(log, e.comp) - 1
  BY <1>9 DEF Turns, Positions
<1> QED
  BY <1>6, <1>7, <1>8, <1>9, <1>10 DEF e

-----------------------------------------------------------------------------
(* The invariant of the platform under handlers that take turns.            *)
THEOREM TurnsHold == OneSpeaker => (Spec => [](Readers /\ Turns))
<1> SUFFICES ASSUME OneSpeaker PROVE Spec => [](Readers /\ Turns)
  OBVIOUS
<1>1. Init => Readers /\ Turns
  BY DataInit, SubscriptionsInit, ReadersInit, TurnsInit DEF Readers
<1>2. Readers /\ Turns /\ [Next]_vars => (Readers /\ Turns)'
  BY DataStep, SubscriptionsStep, ReadersStep, TurnsStep DEF Readers
<1> QED
  BY <1>1, <1>2, PTL DEF Spec

(* Send's assertion never fires, for any number of instances of a component *)
(* and whatever joins, losing races and self-quarantines come between       *)
(* (sequencer_client.go Send).                                              *)
THEOREM SendIsSettled == OneSpeaker => (Spec => []SendNeverPanics)
<1> SUFFICES ASSUME OneSpeaker PROVE Spec => []SendNeverPanics
  OBVIOUS
<1>1. Readers /\ Turns => SendNeverPanics
  BY DEF Turns
<1> QED
  BY <1>1, TurnsHold, PTL

(* A component's events carry the slots 0, 1, 2 ...: what several replicas  *)
(* emit for one position enters the log once (Sequencer.admit).             *)
THEOREM SlotsInOrder == OneSpeaker => (Spec => []SlotsConsecutive)
<1> SUFFICES ASSUME OneSpeaker PROVE Spec => []SlotsConsecutive
  OBVIOUS
<1>1. Readers /\ Turns => SlotsConsecutive
  BY LegalSlots
<1> QED
  BY <1>1, TurnsHold, PTL

(* No emission is ever ahead of its component's next slot, so the gap       *)
(* branch of admit is never taken (Sequencer.admit).                        *)
THEOREM GapsAreUnreachable == OneSpeaker => (Spec => []NoGaps)
<1> SUFFICES ASSUME OneSpeaker PROVE Spec => []NoGaps
  OBVIOUS
<1>1. Readers /\ Turns => NoGaps
  BY TurnsLeaveNoGaps
<1> QED
  BY <1>1, TurnsHold, PTL

(* The instance whose answer won its component's latest position has not    *)
(* quarantined itself: a disagreement never costs a pair both halves        *)
(* (SequencerClient.Read, checkInflight).                                   *)
THEOREM WinnersStay == OneSpeaker => (Spec => []WinnerSurvives)
<1> SUFFICES ASSUME OneSpeaker PROVE Spec => []WinnerSurvives
  OBVIOUS
<1>1. Readers /\ Turns => WinnerSurvives
  BY DEF Turns
<1> QED
  BY <1>1, TurnsHold, PTL

(* The platform, with all its instances, restarts and races, implements the *)
(* log that grows by what it allows (Sequencer.Run, Eventloop.Run).         *)
THEOREM RefinesTurnLog == OneSpeaker => (Spec => ImplementsTurnLog)
<1> SUFFICES ASSUME OneSpeaker PROVE Spec => ImplementsTurnLog
  OBVIOUS
<1>1. Init => TL!Init
  BY DEF Init, TL!Init
<1>2. Readers /\ Turns /\ [Next]_vars => [TL!Extend]_log
  <2> SUFFICES ASSUME Readers, Turns, [Next]_vars PROVE [TL!Extend]_log
    OBVIOUS
  <2>1. CASE SeqSequence
    <3>1. admitted \in Allowed(log) /\ log' = Append(log, admitted)
      BY <2>1 DEF SeqSequence, Turns, Emissions, Due
    <3> QED
      BY <3>1 DEF TL!Extend
  <2>2. CASE SeqJoin \/ SeqLeave \/ SeqAdmit \/ SeqReject \/ SeqExit
    BY <2>2 DEF SeqJoin, SeqLeave, SeqAdmit, SeqReject, SeqExit, seqVars
  <2>3. CASE \E i \in Instance : Start(i) \/ Stop(i)
    BY <2>3 DEF Start, Stop, seqVars
  <2>4. CASE \E i \in Instance : Read(i)
    BY <2>4, OthersKeep DEF Readers
  <2>5. CASE UNCHANGED vars
    BY <2>5 DEF vars
  <2> QED
    BY <2>1, <2>2, <2>3, <2>4, <2>5 DEF Next, SequencerStep
<1> QED
  BY <1>1, <1>2, TurnsHold, PTL DEF Spec, ImplementsTurnLog, TL!Spec

-----------------------------------------------------------------------------
\* Stalls.  A running instance is subscribed, or has asked to be and not to leave.
Serving(i) ==
  status[i] = "running" =>
    /\ i \in clients \/ \E k \in 1..Len(subCh) : subCh[k].join /\ subCh[k].client = i
    /\ \A k \in 1..Len(subCh) : subCh[k].client = i => subCh[k].join

\* Where it has read that it is its turn, it waits for an answer.
Answered(i) ==
  status[i] = "running" /\ Speaks(hist[i]) = CompOf[i] /\ ~(replaying[i] /\ hist[i] = <<>>)
    => inflight[i] # NoPayload

\* What an instance waits for at the end of the log is on its way into it: its own
\* emission, or another's for the same position.
OnItsWay == admitted # NoEvent \/ \E k \in 1..Len(ingressCh) : ingressCh[k] \in Allowed(log)
Outstanding(i) ==
  seqUp /\ status[i] = "running" /\ Waits(i) => OnItsWay

Progress == \A i \in Instance : Serving(i) /\ Answered(i) /\ Outstanding(i)

LEMMA ProgressInit == Init => Progress
BY DEF Init, Progress, Serving, Answered, Outstanding

\* An instance whose own state a step leaves alone still waits where it did.
LEMMA AnsweredKept ==
  ASSUME NEW i \in Instance, Answered(i), status'[i] = "running" => status[i] = "running",
         UNCHANGED <<hist, inflight, replaying>>
  PROVE  Answered(i)'
BY DEF Answered

\* A queue that has only grown holds what it held.
LEMMA StillOnItsWay ==
  ASSUME Data, OnItsWay, UNCHANGED <<log, admitted>>,
         \/ ingressCh' = ingressCh
         \/ \E e \in Event : ingressCh' = Append(ingressCh, e)
  PROVE  OnItsWay'
<1>1. CASE ingressCh' = ingressCh
  BY <1>1 DEF OnItsWay
<1>2. CASE \E e \in Event : ingressCh' = Append(ingressCh, e)
  <2>1. PICK e \in Event : ingressCh' = Append(ingressCh, e)
    BY <1>2
  <2>2. /\ Len(ingressCh') = Len(ingressCh) + 1 /\ Len(ingressCh) \in Nat
        /\ \A k \in 1..Len(ingressCh) : ingressCh'[k] = ingressCh[k]
    BY <2>1, Appended DEF Data
  <2>3. \A k \in 1..Len(ingressCh) : k \in 1..Len(ingressCh')
    BY <2>2
  <2> QED
    BY <2>2, <2>3 DEF OnItsWay
<1> QED
  BY <1>1, <1>2

LEMMA SequencerProgress ==
  ASSUME OneSpeaker, Readers, Turns, Progress, SequencerStep \/ SeqExit
  PROVE  Progress'
<1> SUFFICES ASSUME NEW i \in Instance PROVE Serving(i)' /\ Answered(i)' /\ Outstanding(i)'
  BY DEF Progress
<1>1. Serving(i) /\ Answered(i) /\ Outstanding(i)
  BY DEF Progress
<1>2. UNCHANGED <<status, hist, inflight, replaying>>
  BY DEF SequencerStep, SeqJoin, SeqLeave, SeqAdmit, SeqReject, SeqSequence, SeqExit, loopVars
<1>3. Answered(i)'
  BY <1>1, <1>2, AnsweredKept
<1>4. CASE SeqJoin \/ SeqLeave
  <2>1. /\ subCh' = Tail(subCh) /\ Len(subCh) >= 1 /\ Head(subCh) = subCh[1]
        /\ Len(Tail(subCh)) = Len(subCh) - 1 /\ Len(subCh) \in Nat
        /\ \A k \in 1..Len(Tail(subCh)) : k + 1 \in 1..Len(subCh) /\ Tail(subCh)[k] = subCh[k + 1]
        /\ UNCHANGED <<log, admitted, ingressCh, seqUp>>
    BY <1>4 DEF SeqJoin, SeqLeave, Readers, Data
  <2>2. Outstanding(i)'
    BY <1>1, <1>2, <2>1 DEF Outstanding, OnItsWay, Waits
  <2>3. ASSUME status[i] = "running" PROVE Serving(i)'
    <3>1. \A k \in 1..Len(subCh') : subCh'[k].client = i => subCh'[k].join
      BY <1>1, <2>1, <2>3 DEF Serving
    <3>2. CASE i \in clients
      <4>1. Head(subCh).client = i => Head(subCh).join
        BY <1>1, <2>1, <2>3 DEF Serving
      <4>2. i \in clients'
        BY <1>4, <3>2, <4>1 DEF SeqJoin, SeqLeave
      <4> QED
        BY <3>1, <4>2 DEF Serving
    <3>3. CASE \E k \in 1..Len(subCh) : subCh[k].join /\ subCh[k].client = i
      <4>1. PICK k \in 1..Len(subCh) : subCh[k].join /\ subCh[k].client = i
        BY <3>3
      <4>2. CASE k = 1
        <5>1. i \in clients'
          BY <1>4, <2>1, <4>1, <4>2 DEF SeqJoin, SeqLeave
        <5> QED
          BY <3>1, <5>1 DEF Serving
      <4>3. CASE k # 1
        <5>1. k - 1 \in 1..Len(subCh') /\ subCh'[k - 1] = subCh[k]
          BY <2>1, <4>3
        <5> QED
          BY <3>1, <4>1, <5>1 DEF Serving
      <4> QED
        BY <4>2, <4>3
    <3> QED
      BY <1>1, <2>3, <3>2, <3>3 DEF Serving
  <2> QED
    BY <1>2, <1>3, <2>2, <2>3 DEF Serving
<1>5. CASE SeqAdmit \/ SeqReject \/ SeqSequence \/ SeqExit
  <2>1. UNCHANGED <<clients, subCh>>
    BY <1>5 DEF SeqAdmit, SeqReject, SeqSequence, SeqExit, seqVars
  <2>2. Serving(i)'
    BY <1>1, <1>2, <2>1 DEF Serving
  <2>3. CASE SeqAdmit
    <3>1. admitted' # NoEvent
      BY <2>3, PlatformAssumption DEF SeqAdmit, Readers, Data
    <3> QED
      BY <1>3, <2>2, <3>1 DEF Outstanding, OnItsWay
  <2>4. CASE SeqReject
    <3> SUFFICES ASSUME (seqUp /\ status[i] = "running" /\ Waits(i))' PROVE OnItsWay'
      BY <1>3, <2>2 DEF Outstanding
    <3>1. /\ admitted = NoEvent /\ UNCHANGED <<log, admitted, seqUp>> /\ seqUp
          /\ ingressCh' = Tail(ingressCh) /\ ~Admissible(Head(ingressCh))
          /\ Head(ingressCh) = ingressCh[1] /\ Len(ingressCh) \in Nat
          /\ \A k \in 1..Len(ingressCh) : k # 1 =>
               k - 1 \in 1..Len(Tail(ingressCh)) /\ Tail(ingressCh)[k - 1] = ingressCh[k]
      BY <2>4 DEF SeqReject, Selecting, seqVars, Readers, Data
    <3>2. PICK k \in 1..Len(ingressCh) : ingressCh[k] \in Allowed(log)
      BY <1>1, <1>2, <3>1 DEF Outstanding, OnItsWay, Waits
    <3>3. k # 1
      <4> SUFFICES ASSUME k = 1 PROVE FALSE
        OBVIOUS
      <4> DEFINE e == ingressCh[1]
      <4>1. e \in Allowed(log) /\ log \in Seq(Event)
        BY <3>2 DEF Readers, Data
      <4> HIDE DEF e
      <4>2. e.slot = Spoken(log, e.comp) /\ e.comp \in Component
        BY <4>1, AllowedIsAnswer DEF Event
      <4>3. Taken(e.comp) = 0 /\ Spoken(log, e.comp) \in Nat
        BY <3>1, <4>1, SpokenIsNat DEF Taken
      <4>4. hwm[e.comp] = Spoken(log, e.comp) - 1
        BY <3>1, <4>2, <4>3 DEF Turns, Positions
      <4>5. e.slot = hwm[e.comp] + 1
        BY <4>2, <4>3, <4>4
      <4> QED
        BY <3>1, <4>5 DEF Admissible, e
    <3> QED
      BY <3>1, <3>2, <3>3 DEF OnItsWay
  <2>5. CASE SeqSequence
    <3>1. Len(log') = Len(log) + 1 /\ Len(hist[i]) \in 0..Len(log)
      BY <2>5, HistIsPrefix DEF SeqSequence, Readers, Data
    <3>2. ~Waits(i)'
      BY <1>2, <3>1 DEF Waits
    <3> QED
      BY <1>3, <2>2, <3>2 DEF Outstanding
  <2>6. CASE SeqExit
    BY <1>3, <2>2, <2>6 DEF SeqExit, Outstanding
  <2> QED
    BY <1>5, <2>3, <2>4, <2>5, <2>6
<1> QED
  BY <1>4, <1>5 DEF SequencerStep

\* What instance i asks of the sequencer concerns no other instance.
LEMMA OthersProgress ==
  ASSUME Readers, Turns, Progress, NEW i \in Instance, Read(i),
         ingressCh' = ingressCh \/ \E e \in Event : ingressCh' = Append(ingressCh, e),
         subCh' = subCh \/ subCh' = Append(subCh, [client |-> i, join |-> FALSE]),
         NEW j \in Instance, j # i
  PROVE  Serving(j)' /\ Answered(j)' /\ Outstanding(j)'
<1>1. /\ UNCHANGED <<log, clients, admitted, seqUp>>
      /\ hist'[j] = hist[j] /\ replaying'[j] = replaying[j]
      /\ status'[j] = status[j] /\ inflight'[j] = inflight[j]
  BY OthersKeep DEF Readers
<1>2. Serving(j) /\ Answered(j) /\ Outstanding(j)
  BY DEF Progress
<1>3. Answered(j)'
  BY <1>1, <1>2 DEF Answered
<1>4. Outstanding(j)'
  <2>1. OnItsWay => OnItsWay'
    BY <1>1, StillOnItsWay DEF Readers
  <2> QED
    BY <1>1, <1>2, <2>1 DEF Outstanding, Waits
<1>5. Serving(j)'
  <2>1. CASE subCh' = subCh
    BY <1>1, <1>2, <2>1 DEF Serving
  <2>2. CASE subCh' = Append(subCh, [client |-> i, join |-> FALSE])
    <3>1. /\ Len(subCh') = Len(subCh) + 1 /\ Len(subCh) \in Nat
          /\ subCh'[Len(subCh) + 1].client = i
          /\ \A k \in 1..Len(subCh) : subCh'[k] = subCh[k]
      BY <2>2 DEF Readers, Data
    <3>2. \A k \in 1..Len(subCh') : k \in 1..Len(subCh) \/ k = Len(subCh) + 1
      BY <3>1
    <3>3. \A k \in 1..Len(subCh) : k \in 1..Len(subCh')
      BY <3>1
    <3> QED
      BY <1>1, <1>2, <3>1, <3>2, <3>3 DEF Serving
  <2> QED
    BY <2>1, <2>2
<1> QED
  BY <1>3, <1>4, <1>5

LEMMA ReaderProgress ==
  ASSUME OneSpeaker, EveryoneAnswers, Readers, Turns, Progress, NEW i \in Instance, Read(i)
  PROVE  Progress'
<1>0. Serving(i) /\ Answered(i) /\ Outstanding(i)
  BY DEF Progress
<1>1. CASE ReadDivergent(i) \/ ReadInvalid(i)
  <2>1. /\ UNCHANGED ingressCh /\ status'[i] # "running"
        /\ subCh' = Append(subCh, [client |-> i, join |-> FALSE])
    BY <1>1 DEF ReadDivergent, ReadInvalid, Leave, Readers, Data
  <2>2. Serving(i)' /\ Answered(i)' /\ Outstanding(i)'
    BY <2>1 DEF Serving, Answered, Outstanding
  <2> QED
    BY <2>1, <2>2, OthersProgress DEF Progress
<1>2. CASE ReadEvent(i)
  <2> DEFINE h == Append(hist[i], Head(egressCh[i]))
  <2>1. /\ h \in Seq(Event) /\ Legal(h) /\ h # <<>> /\ hist'[i] = h
        /\ Len(h) \in 0..Len(log) /\ h = Prefix(Len(h))
        /\ UNCHANGED <<log, clients, admitted, seqUp, subCh, status, replaying>>
    <3>1. Len(hist[i]) + 1 \in 0..Len(log)
      BY <1>2, EventSends DEF Readers, Data
    <3> QED
      BY <1>2, <3>1, EventSends
  <2>2. PICK p \in Reply(i, h) :
        /\ inflight'[i] = p
        /\ \/ p = NoPayload /\ UNCHANGED ingressCh
           \/ /\ p # NoPayload /\ Speaks(h) = CompOf[i]
              /\ \E e \in Allowed(h) : /\ e.sender = i /\ e.payload = p
                                       /\ ingressCh' = Append(ingressCh, e)
    BY <1>2, EventSends
  <2> HIDE DEF h
  <2>3. Serving(i)'
    BY <1>0, <2>1 DEF Serving
  <2>4. Speaks(h) = CompOf[i] => p # NoPayload
    BY <2>1 DEF EveryoneAnswers, Answers
  <2>5. Answered(i)'
    BY <2>1, <2>2, <2>4 DEF Answered
  <2>6. Outstanding(i)'
    <3> SUFFICES ASSUME Waits(i)' PROVE OnItsWay'
      BY DEF Outstanding
    <3>1. p # NoPayload /\ Len(h) = Len(log)
      BY <2>1, <2>2 DEF Waits
    <3>2. h = log
      BY <2>1, <3>1, PrefixOfLog DEF Readers, Turns
    <3>3. PICK e \in Allowed(log) : ingressCh' = Append(ingressCh, e)
      BY <2>2, <3>1, <3>2
    <3>4. e \in Event
      BY <2>1, <3>2, AllowedIsAnswer
    <3>5. Len(ingressCh') = Len(ingressCh) + 1 /\ Len(ingressCh) \in Nat
          /\ ingressCh'[Len(ingressCh) + 1] = e
      BY <3>3, <3>4, Appended DEF Readers, Data
    <3> QED
      BY <2>1, <3>3, <3>5 DEF OnItsWay
  <2>7. ingressCh' = ingressCh \/ \E e \in Event : ingressCh' = Append(ingressCh, e)
    BY <2>1, <2>2, AllowedIsAnswer
  <2> QED
    BY <2>1, <2>3, <2>5, <2>6, <2>7, OthersProgress DEF Progress
<1>3. CASE ReadMarker(i)
  <2> DEFINE h == hist[i]
  <2>1. /\ status[i] = "running" /\ replaying[i] /\ ~replaying'[i]
        /\ Len(h) \in 0..Len(log) /\ h \in Seq(Event) /\ h = Prefix(Len(h)) /\ Legal(h)
        /\ UNCHANGED <<log, clients, admitted, seqUp, subCh, status, hist, senderSeq>>
    BY <1>3, MarkerSends
  <2>2. PICK p \in Boot(i, h) :
        \/ p = NoPayload /\ UNCHANGED ingressCh /\ inflight'[i] = inflight[i]
        \/ /\ p # NoPayload /\ h = <<>> /\ Speaks(h) = CompOf[i]
           /\ inflight[i] = NoPayload /\ inflight'[i] = p
           /\ \E e \in Allowed(h) : /\ e.sender = i /\ e.payload = p
                                    /\ ingressCh' = Append(ingressCh, e)
    BY <1>3, MarkerSends
  <2>3. Serving(i)'
    BY <1>0, <2>1 DEF Serving
  <2>4. Answered(i)'
    <3> SUFFICES ASSUME Speaks(h) = CompOf[i] PROVE inflight'[i] # NoPayload
      BY <2>1 DEF Answered
    <3>1. CASE h = <<>>
      <4>1. p # NoPayload
        BY <2>1, <3>1 DEF EveryoneAnswers, Answers
      <4> QED
        BY <2>2, <4>1
    <3>2. CASE h # <<>>
      BY <1>0, <2>1, <2>2, <3>2 DEF Answered
    <3> QED
      BY <3>1, <3>2
  <2>5. ingressCh' = ingressCh \/ \E e \in Event : ingressCh' = Append(ingressCh, e)
    BY <2>1, <2>2, AllowedIsAnswer
  <2>6. Outstanding(i)'
    <3> SUFFICES ASSUME (seqUp /\ status[i] = "running" /\ Waits(i))' PROVE OnItsWay'
      BY DEF Outstanding
    <3>1. CASE p = NoPayload
      <4>1. OnItsWay
        BY <1>0, <2>1, <2>2, <3>1 DEF Outstanding, Waits
      <4> QED
        BY <2>1, <2>5, <4>1, StillOnItsWay DEF Readers
    <3>2. CASE p # NoPayload
      <4>1. Len(h) = Len(log)
        BY <2>1 DEF Waits
      <4>2. h = log
        BY <2>1, <4>1, PrefixOfLog DEF Readers, Turns
      <4>3. PICK e \in Allowed(log) : ingressCh' = Append(ingressCh, e)
        BY <2>2, <3>2, <4>2
      <4>4. e \in Event
        BY <2>1, <4>2, AllowedIsAnswer
      <4>5. Len(ingressCh') = Len(ingressCh) + 1 /\ Len(ingressCh) \in Nat
            /\ ingressCh'[Len(ingressCh) + 1] = e
        BY <4>3, <4>4, Appended DEF Readers, Data
      <4> QED
        BY <2>1, <4>3, <4>5 DEF OnItsWay
    <3> QED
      BY <3>1, <3>2
  <2> QED
    BY <2>1, <2>3, <2>4, <2>5, <2>6, OthersProgress DEF Progress
<1> QED
  BY <1>1, <1>2, <1>3 DEF Read

LEMMA StartStopProgress ==
  ASSUME Readers, Turns, Progress, NEW i \in Instance, Start(i) \/ Stop(i)
  PROVE  Progress'
<1> SUFFICES ASSUME NEW j \in Instance PROVE Serving(j)' /\ Answered(j)' /\ Outstanding(j)'
  BY DEF Progress
<1>0. Serving(j) /\ Answered(j) /\ Outstanding(j)
  BY DEF Progress
<1>1. /\ UNCHANGED <<log, clients, admitted, seqUp, ingressCh, hist, inflight, replaying>>
      /\ j # i => status'[j] = status[j]
  BY DEF Start, Stop, Leave, seqVars, Readers, Data
<1>2. PICK s \in BOOLEAN : subCh' = Append(subCh, [client |-> i, join |-> s]) /\ (s <=> Start(i))
  BY DEF Start, Stop, Leave
<1>3. /\ Len(subCh') = Len(subCh) + 1 /\ Len(subCh) \in Nat
      /\ subCh'[Len(subCh) + 1].client = i /\ subCh'[Len(subCh) + 1].join = s
      /\ \A k \in 1..Len(subCh) : subCh'[k] = subCh[k]
  BY <1>2 DEF Readers, Data
<1>4. \A k \in 1..Len(subCh') : k \in 1..Len(subCh) \/ k = Len(subCh) + 1
  BY <1>3
<1>5. /\ \A k \in 1..Len(subCh) : k \in 1..Len(subCh')
      /\ Len(subCh) + 1 \in 1..Len(subCh')
  BY <1>3
<1>6. CASE j # i
  <2>1. Serving(j)'
    BY <1>0, <1>1, <1>3, <1>4, <1>5, <1>6 DEF Serving
  <2>2. Answered(j)' /\ Outstanding(j)'
    BY <1>0, <1>1, <1>6 DEF Answered, Outstanding, OnItsWay, Waits
  <2> QED
    BY <2>1, <2>2
<1>7. CASE j = i /\ Start(i)
  <2>1. Fresh(i) /\ \A k \in 1..Len(subCh) : subCh[k].client # i
    BY <1>7 DEF Start, Readers, Subscriptions
  <2>2. Serving(i)'
    BY <1>2, <1>3, <1>4, <1>5, <1>7, <2>1 DEF Serving
  <2>3. Answered(i)' /\ Outstanding(i)'
    BY <1>1, <2>1 DEF Fresh, Answered, Outstanding, Waits
  <2> QED
    BY <1>7, <2>2, <2>3
<1>8. CASE j = i /\ Stop(i)
  <2>1. status'[i] # "running"
    BY <1>8 DEF Stop, Leave, Readers, Data
  <2> QED
    BY <1>8, <2>1 DEF Serving, Answered, Outstanding
<1> QED
  BY <1>6, <1>7, <1>8

LEMMA ProgressStep ==
  OneSpeaker /\ EveryoneAnswers /\ Readers /\ Turns /\ Progress /\ [Next]_vars => Progress'
<1> SUFFICES ASSUME OneSpeaker, EveryoneAnswers, Readers, Turns, Progress, [Next]_vars
             PROVE  Progress'
  OBVIOUS
<1>1. CASE UNCHANGED vars
  BY <1>1 DEF vars, Progress, Serving, Answered, Outstanding, OnItsWay, Waits
<1> QED
  BY <1>1, SequencerProgress, ReaderProgress, StartStopProgress DEF Next

\* A quiet platform waits for a component that has nobody in service.
LEMMA QuietIsUnserved == Readers /\ Turns /\ Progress => StallsOnlyUnserved
<1> SUFFICES ASSUME Readers, Progress, seqUp, Quiet, InService(Speaks(log)) PROVE FALSE
  BY DEF StallsOnlyUnserved
<1>1. PICK i \in Instance : CompOf[i] = Speaks(log) /\ status[i] = "running"
  BY DEF InService
<1>2. egressCh[i] = <<>> /\ subCh = <<>> /\ ingressCh = <<>> /\ admitted = NoEvent
  BY <1>1 DEF Quiet
<1>3. Serving(i) /\ Answered(i) /\ Outstanding(i)
  BY DEF Progress
<1>4. i \in clients
  BY <1>1, <1>2, <1>3 DEF Serving
<1>5. Queued(i)
  BY <1>1, ReadersSplit DEF Readers
<1>6. ~replaying[i]
  BY <1>2, <1>4, <1>5 DEF Queued, Feed
<1>7. Len(hist[i]) = Len(log)
  BY <1>2, <1>4, <1>5, <1>6 DEF Queued, Owed, Readers, Data
<1>8. hist[i] = log
  BY <1>7, HistIsPrefix DEF Readers
<1>9. Waits(i)
  BY <1>1, <1>3, <1>6, <1>7, <1>8 DEF Answered, Waits
<1> QED
  BY <1>1, <1>2, <1>3, <1>9 DEF Outstanding, OnItsWay

(* If the handlers also answer when it is their turn, the stream stops      *)
(* moving only when it is over or when nobody of the component it waits for *)
(* is in service: no decision is swallowed by a lost race, a late join, a   *)
(* duplicate or a leave (SequencerClient.Send's comment on unconditional    *)
(* emission, session.go Stalled).                                           *)
THEOREM NothingIsSwallowed == OneSpeaker /\ EveryoneAnswers => (Spec => []StallsOnlyUnserved)
<1> SUFFICES ASSUME OneSpeaker, EveryoneAnswers PROVE Spec => []StallsOnlyUnserved
  OBVIOUS
<1>1. Init => Readers /\ Turns /\ Progress
  BY DataInit, SubscriptionsInit, ReadersInit, TurnsInit, ProgressInit DEF Readers
<1>2. Readers /\ Turns /\ Progress /\ [Next]_vars => (Readers /\ Turns /\ Progress)'
  BY DataStep, SubscriptionsStep, ReadersStep, TurnsStep, ProgressStep DEF Readers
<1>3. Readers /\ Turns /\ Progress => StallsOnlyUnserved
  BY QuietIsUnserved
<1> QED
  BY <1>1, <1>2, <1>3, PTL DEF Spec
=============================================================================
