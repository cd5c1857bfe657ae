-------------------------- MODULE SupervisorProofs --------------------------
(***************************************************************************)
(* Proofs about the supervision of a session's replicas (Supervisor).      *)
(***************************************************************************)
EXTENDS Supervisor, TLAPS

Instance == [at : Stage, err : BOOLEAN, cancelled : BOOLEAN]
Last(s) == instances[s][Len(instances[s])]

-----------------------------------------------------------------------------
\* The invariant.  Nothing exists before Start, every slot has an instance after it.
Launched ==
  /\ ~started => /\ instances = [s \in Slot |-> <<>>]
                 /\ slots = [s \in Slot |-> Down]
                 /\ \A o \in Operator : ops[o].pc = "idle"
                 /\ shut = "waiting"
  /\ started => \A s \in Slot : instances[s] # <<>>

Singly ==
  \A s \in Slot : \A g \in 1..Len(instances[s]) :
    g < Len(instances[s]) => Over(instances[s][g])

\* An operator past its first section holds lifecycle: the instance it has read is
\* still the slot's last one and the session has not finished, however long it waits.
Holding == {"cancel", "join", "mark", "rehearse"}
Callers ==
  \A o \in Operator :
    /\ ops[o].pc \in Holding <=> lifecycle = o
    /\ ops[o].pc \in Holding => /\ ops[o].gen = Len(instances[ops[o].slot])
                                /\ ops[o].slot \in Restartable
                                /\ ~finished
    /\ ops[o].pc \in {"mark", "rehearse"} => Over(Last(ops[o].slot))

\* So does shutdown, from the moment it collects the channels it waits for.
Ends ==
  /\ shut \in {"join", "finish", "sequencer", "read"} <=> lifecycle = Shutdown
  /\ finished <=> shut \in {"sequencer", "read", "done"}
  /\ shut = "join" => waits = {<<s, Len(instances[s])>> : s \in Slot}
  /\ shut \in {"finish", "sequencer", "read", "done"} => \A s \in Slot : Last(s).at = "closed"
  /\ shut \in {"read", "done"} => sequencerDone

IInv ==
  TypeOK /\ Launched /\ Singly /\ SlotTellsTheTruth /\ Callers /\ Ends /\ ResultIsFinal

-----------------------------------------------------------------------------
\* What a slot can say.
Flags == [running : BOOLEAN, killed : BOOLEAN, quarantined : BOOLEAN]
SlotState == {Down, Up, Killed, Quarantined}

LEMMA SlotFields ==
  /\ SlotState \subseteq Flags
  /\ ~Down.running /\ ~Down.killed /\ ~Down.quarantined
  /\ Up.running /\ ~Up.killed /\ ~Up.quarantined
  /\ ~Killed.running /\ Killed.killed /\ ~Killed.quarantined
  /\ ~Quarantined.running /\ ~Quarantined.killed /\ Quarantined.quarantined
<1>1. Down \in Flags /\ ~Down.running /\ ~Down.killed /\ ~Down.quarantined
  BY DEF Flags, Down
<1>2. Up \in Flags /\ Up.running /\ ~Up.killed /\ ~Up.quarantined
  BY DEF Flags, Down, Up
<1>3. Killed \in Flags /\ ~Killed.running /\ Killed.killed /\ ~Killed.quarantined
  BY DEF Flags, Down, Killed
<1>4. Quarantined \in Flags /\ ~Quarantined.running /\ ~Quarantined.killed /\ Quarantined.quarantined
  BY DEF Flags, Down, Quarantined
<1> QED
  BY <1>1, <1>2, <1>3, <1>4 DEF SlotState

LEMMA SlotByFlags ==
  ASSUME NEW x \in Flags
  PROVE  /\ ~x.running /\ ~x.killed /\ ~x.quarantined => x = Down
         /\ ~x.running /\ x.killed /\ ~x.quarantined => x = Killed
         /\ ~x.running /\ ~x.killed /\ x.quarantined => x = Quarantined
<1>1. ASSUME NEW y \in Flags, x.running <=> y.running, x.killed <=> y.killed,
             x.quarantined <=> y.quarantined
      PROVE  x = y
  BY <1>1 DEF Flags
<1> QED
  BY <1>1, SlotFields DEF SlotState

LEMMA InitHolds == Init => IInv
<1> SUFFICES ASSUME Init PROVE IInv
  OBVIOUS
<1>1. Idle \in [pc : OpPc, kind : {"kill", "restart"}, slot : Slot, gen : Nat]
  BY SupervisorAssumption DEF Idle, OpPc
<1>2. TypeOK
  <2>1. ops \in [Operator -> [pc : OpPc, kind : {"kill", "restart"}, slot : Slot, gen : Nat]]
    BY <1>1 DEF Init
  <2>2. instances \in [Slot -> Seq(Instance)] /\ slots \in [Slot -> SlotState]
    BY DEF Init, SlotState
  <2>3. lifecycle \in Operator \cup {Shutdown, Nobody} /\ calls \in 0..MaxCalls /\ shut \in ShutPc
    BY SupervisorAssumption DEF Init, ShutPc
  <2> QED
    BY <2>1, <2>2, <2>3 DEF Init, TypeOK, Instance, SlotState
<1>3. Launched /\ Singly /\ SlotTellsTheTruth
  BY DEF Init, Launched, Singly, SlotTellsTheTruth, Idle
<1>4. Callers
  BY SupervisorAssumption DEF Init, Callers, Holding, Idle
<1>5. Ends /\ ResultIsFinal
  BY SupervisorAssumption DEF Init, Ends, ResultIsFinal
<1> QED
  BY <1>2, <1>3, <1>4, <1>5 DEF IInv

-----------------------------------------------------------------------------
\* One instance of slot s becomes r; the rest stay as they are.
Becomes(s, g, r) ==
  /\ instances' \in [Slot -> Seq(Instance)]
  /\ \A t \in Slot : Len(instances'[t]) = Len(instances[t])
  /\ instances'[s][g] = r
  /\ \A t \in Slot : \A h \in 1..Len(instances[t]) :
       t # s \/ h # g => instances'[t][h] = instances[t][h]

LEMMA Replaced ==
  ASSUME instances \in [Slot -> Seq(Instance)], NEW s \in Slot,
         NEW g \in 1..Len(instances[s]), NEW r \in Instance,
         instances' = [instances EXCEPT ![s] = [instances[s] EXCEPT ![g] = r]]
  PROVE  Becomes(s, g, r)
<1>1. instances[s] \in Seq(Instance)
  OBVIOUS
<1>2. /\ [instances[s] EXCEPT ![g] = r] \in Seq(Instance)
      /\ Len([instances[s] EXCEPT ![g] = r]) = Len(instances[s])
      /\ [instances[s] EXCEPT ![g] = r][g] = r
      /\ \A h \in 1..Len(instances[s]) : h # g => [instances[s] EXCEPT ![g] = r][h] = instances[s][h]
  BY <1>1
<1> QED
  BY <1>2 DEF Becomes

\* What an instance may become in a step of its own goroutine.
LEMMA InstanceMoves ==
  ASSUME TypeOK, NEW s \in Slot, NEW g \in 1..Len(instances[s]), InstanceStep(s, g)
  PROVE  /\ UNCHANGED <<envVars, lifecycle, opVars, shutVars>>
         /\ \E r \in Instance :
              /\ Becomes(s, g, r)
              /\ \/ /\ ~Over(instances[s][g]) /\ ~Over(r) /\ UNCHANGED slots
                 \/ /\ ~Over(instances[s][g]) /\ Over(r) /\ r.err = instances[s][g].err
                    /\ slots' = IF g = Len(instances[s])
                                THEN [slots EXCEPT ![s].running = FALSE,
                                                   ![s].quarantined = @ \/ r.err]
                                ELSE slots
                 \/ /\ Over(instances[s][g]) /\ Over(r) /\ r.err = instances[s][g].err
                    /\ instances[s][g].at # "closed" /\ UNCHANGED slots
<1> DEFINE x == instances[s][g]
<1>0. instances \in [Slot -> Seq(Instance)]
  BY DEF TypeOK, Instance
<1>1. x \in Instance /\ instances \in [Slot -> Seq(Instance)]
  <2>1. instances[s] \in Seq(Instance)
    BY <1>0
  <2> QED
    BY <1>0, <2>1
<1>2. CASE Returns(s, g)
  <2> DEFINE r == [x EXCEPT !.at = "returned"]
  <2>1. r \in Instance /\ r.at = "returned" /\ x.at = "running"
    BY <1>1, <1>2 DEF Returns, Instance, Stage
  <2>2. instances' = [instances EXCEPT ![s] = [instances[s] EXCEPT ![g] = r]]
    BY <1>1, <1>2 DEF Returns, Move
  <2>3. Becomes(s, g, r)
    BY <1>1, <2>1, <2>2, Replaced
  <2> HIDE DEF r, x
  <2> QED
    BY <1>2, <2>1, <2>3 DEF Over, Returns, x
<1>3. CASE Quarantines(s, g)
  <2> DEFINE r == [x EXCEPT !.at = "returned", !.err = TRUE]
  <2>1. r \in Instance /\ r.at = "returned" /\ x.at = "running"
    BY <1>1, <1>3 DEF Quarantines, Instance, Stage
  <2>2. instances' = [instances EXCEPT ![s] = [instances[s] EXCEPT ![g] = r]]
    BY <1>1, <1>3, Zenon DEF Quarantines
  <2>3. Becomes(s, g, r)
    BY <1>1, <2>1, <2>2, Replaced
  <2> HIDE DEF r, x
  <2> QED
    BY <1>3, <2>1, <2>3 DEF Over, Quarantines, x
<1>4. CASE Records(s, g)
  <2> DEFINE r == [x EXCEPT !.at = "recorded"]
  <2>1. r \in Instance /\ r.at = "recorded" /\ x.at = "returned" /\ r.err = x.err
    BY <1>1, <1>4 DEF Records, Instance, Stage
  <2>2. instances' = [instances EXCEPT ![s] = [instances[s] EXCEPT ![g] = r]]
    BY <1>1, <1>4 DEF Records, Move
  <2>3. Becomes(s, g, r)
    BY <1>1, <2>1, <2>2, Replaced
  <2>4. slots' = IF g = Len(instances[s])
                 THEN [slots EXCEPT ![s].running = FALSE, ![s].quarantined = @ \/ r.err]
                 ELSE slots
    BY <1>4, <2>1 DEF Records
  <2> HIDE DEF r, x
  <2> QED
    BY <1>4, <2>1, <2>3, <2>4 DEF Over, Records, x
<1>5. CASE Closes(s, g)
  <2> DEFINE r == [x EXCEPT !.at = "closed"]
  <2>1. r \in Instance /\ r.at = "closed" /\ x.at = "recorded" /\ r.err = x.err
    BY <1>1, <1>5 DEF Closes, Instance, Stage
  <2>2. instances' = [instances EXCEPT ![s] = [instances[s] EXCEPT ![g] = r]]
    BY <1>1, <1>5 DEF Closes, Move
  <2>3. Becomes(s, g, r)
    BY <1>1, <2>1, <2>2, Replaced
  <2> HIDE DEF r, x
  <2> QED
    BY <1>5, <2>1, <2>3 DEF Over, Closes, x
<1> QED
  BY <1>2, <1>3, <1>4, <1>5 DEF InstanceStep

\* The invariant's typed parts, as the steps below use them.
LEMMA Types ==
  ASSUME TypeOK
  PROVE  /\ instances \in [Slot -> Seq(Instance)]
         /\ slots \in [Slot -> SlotState]
         /\ \A s \in Slot : instances[s] \in Seq(Instance) /\ Len(instances[s]) \in Nat
         /\ \A o \in Operator : ops[o].slot \in Slot /\ ops[o].pc \in OpPc
<1>1. /\ instances \in [Slot -> Seq(Instance)]
      /\ slots \in [Slot -> SlotState]
      /\ ops \in [Operator -> [pc : OpPc, kind : {"kill", "restart"}, slot : Slot, gen : Nat]]
  BY DEF TypeOK, Instance, SlotState
<1>2. \A s \in Slot : instances[s] \in Seq(Instance)
  BY <1>1
<1> QED
  BY <1>1, <1>2

\* A step that appends to no slot's instances and undoes the end of none.
LEMMA NobodyIsBorn ==
  ASSUME IInv, instances' \in [Slot -> Seq(Instance)],
         \A t \in Slot : Len(instances'[t]) = Len(instances[t]),
         \A t \in Slot : \A h \in 1..Len(instances[t]) :
           /\ Over(instances[t][h]) => Over(instances'[t][h])
           /\ instances[t][h].at = "closed" => instances'[t][h].at = "closed"
  PROVE  /\ \A t \in Slot : instances[t] # <<>> => instances'[t] # <<>>
         /\ Singly'
         /\ \A t \in Slot : instances[t] # <<>> =>
              /\ Over(Last(t)) => Over(Last(t))'
              /\ Last(t).at = "closed" => Last(t)'.at = "closed"
<1>1. \A t \in Slot : instances[t] # <<>> => Len(instances[t]) \in 1..Len(instances[t])
  BY Types DEF IInv
<1>2. \A t \in Slot : instances[t] # <<>> => instances'[t] # <<>>
  BY <1>1
<1>3. Singly'
  BY DEF IInv, Singly, Over
<1>4. ASSUME NEW t \in Slot, instances[t] # <<>>
      PROVE  /\ Over(Last(t)) => Over(Last(t))'
             /\ Last(t).at = "closed" => Last(t)'.at = "closed"
  BY <1>1, <1>4 DEF Last, Over
<1> QED
  BY <1>2, <1>3, <1>4

LEMMA InstanceStepKeeps ==
  ASSUME IInv, NEW s \in Slot, NEW g \in 1..Len(instances[s]), InstanceStep(s, g)
  PROVE  IInv'
<1> DEFINE x == instances[s][g]
           L == Len(instances[s])
<1>1. UNCHANGED <<started, finished, ctxDone, trackerDone, sequencerDone, lifecycle, ops, calls,
                  shut, waits, result>>
  BY InstanceMoves DEF IInv, envVars, opVars, shutVars
<1>2. PICK r \in Instance :
        /\ Becomes(s, g, r)
        /\ \/ ~Over(x) /\ ~Over(r) /\ UNCHANGED slots
           \/ /\ ~Over(x) /\ Over(r) /\ r.err = x.err
              /\ slots' = IF g = L
                          THEN [slots EXCEPT ![s].running = FALSE, ![s].quarantined = @ \/ r.err]
                          ELSE slots
           \/ Over(x) /\ Over(r) /\ r.err = x.err /\ x.at # "closed" /\ UNCHANGED slots
  BY InstanceMoves DEF IInv
<1>3. /\ instances' \in [Slot -> Seq(Instance)]
      /\ \A t \in Slot : Len(instances'[t]) = Len(instances[t])
      /\ instances'[s][g] = r
      /\ \A t \in Slot : \A h \in 1..Len(instances[t]) :
           t # s \/ h # g => instances'[t][h] = instances[t][h]
  BY <1>2 DEF Becomes
<1>4. \A t \in Slot : \A h \in 1..Len(instances[t]) :
        /\ Over(instances[t][h]) => Over(instances'[t][h])
        /\ instances[t][h].at = "closed" => instances'[t][h].at = "closed"
  BY <1>2, <1>3 DEF Over
<1>5. /\ \A t \in Slot : instances[t] # <<>> => instances'[t] # <<>>
      /\ Singly'
      /\ \A t \in Slot : instances[t] # <<>> =>
           /\ Over(Last(t)) => Over(Last(t))'
           /\ Last(t).at = "closed" => Last(t)'.at = "closed"
  BY <1>3, <1>4, NobodyIsBorn
<1>6. /\ started /\ instances[s] # <<>> /\ L \in Nat /\ L >= 1 /\ g <= L
      /\ slots \in [Slot -> SlotState] /\ x \in Instance
      /\ \A t \in Slot : instances[t] # <<>>
  <2>1. instances[s] \in Seq(Instance) /\ slots \in [Slot -> SlotState]
    BY Types DEF IInv
  <2>2. instances[s] # <<>> /\ L \in Nat /\ L >= 1 /\ g <= L /\ x \in Instance
    BY <2>1
  <2> QED
    BY <2>1, <2>2 DEF IInv, Launched
<1> HIDE DEF x
<1>7. /\ slots' \in [Slot -> SlotState]
      /\ \/ slots' = slots /\ (g = L => (Over(x) <=> Over(r)) /\ (Over(x) => r.err = x.err))
         \/ (g = L /\ ~Over(x) /\ Over(r) /\ r.err = x.err
                            /\ ~slots'[s].running /\ (r.err => slots'[s].quarantined) /\ ~slots'[s].killed
                            /\ \A t \in Slot : t # s => slots'[t] = slots[t])
  <2>1. CASE ~(g = L /\ ~Over(x) /\ Over(r))
    BY <1>2, <1>6, <2>1
  <2>2. CASE g = L /\ ~Over(x) /\ Over(r)
    <3>1. /\ g = L /\ ~Over(x) /\ Over(r) /\ r.err = x.err
          /\ slots' = [slots EXCEPT ![s].running = FALSE, ![s].quarantined = @ \/ r.err]
      BY <1>2, <2>2
    <3>2. slots[s].running
      BY <1>6, <3>1 DEF IInv, SlotTellsTheTruth, x
    <3>3. slots[s] = Up
      BY <1>6, <3>2, SlotFields DEF SlotState
    <3>4. Up \in Flags /\ r.err \in BOOLEAN
      BY SlotFields DEF SlotState, Instance
    <3> DEFINE y == [[Up EXCEPT !.running = FALSE] EXCEPT !.quarantined = @ \/ r.err]
    <3>5. y \in Flags /\ ~y.running /\ (y.quarantined <=> r.err) /\ ~y.killed
      BY <3>4, SlotFields DEF Flags
    <3>6. slots' = [slots EXCEPT ![s] = y]
      BY <1>6, <3>1, <3>3
    <3> HIDE DEF y
    <3>7. y \in SlotState
      BY <3>5, SlotByFlags DEF SlotState
    <3> QED
      BY <1>6, <3>1, <3>5, <3>6, <3>7
  <2> QED
    BY <2>1, <2>2
<1>8. TypeOK'
  BY <1>1, <1>3, <1>7 DEF IInv, TypeOK, Instance, SlotState
<1>9. Launched'
  BY <1>1, <1>5, <1>6 DEF IInv, Launched
<1>10. SlotTellsTheTruth'
  <2> SUFFICES ASSUME NEW t \in Slot
               PROVE  /\ slots'[t].running <=> ~Over(Last(t)')
                      /\ Over(Last(t)') /\ Last(t)'.err => slots'[t].quarantined
                      /\ slots'[t].killed => Over(Last(t)') /\ ~Last(t)'.err /\ ~slots'[t].quarantined
    BY DEF SlotTellsTheTruth, Last
  <2>0. /\ slots[t].running <=> ~Over(Last(t))
        /\ Over(Last(t)) /\ Last(t).err => slots[t].quarantined
        /\ slots[t].killed => Over(Last(t)) /\ ~Last(t).err /\ ~slots[t].quarantined
    BY <1>6 DEF IInv, SlotTellsTheTruth, Last
  <2>1. CASE t = s /\ g = L
    <3>1. Last(t) = x /\ Last(t)' = r
      BY <1>3, <2>1 DEF Last, x
    <3>2. /\ slots[s].running <=> ~Over(x)
          /\ Over(x) /\ x.err => slots[s].quarantined
          /\ slots[s].killed => Over(x) /\ ~x.err /\ ~slots[s].quarantined
      BY <2>0, <2>1, <3>1
    <3>3. /\ slots'[s].running <=> ~Over(r)
          /\ Over(r) /\ r.err => slots'[s].quarantined
          /\ slots'[s].killed => Over(r) /\ ~r.err /\ ~slots'[s].quarantined
      <4>1. CASE slots' = slots /\ (Over(x) <=> Over(r)) /\ (Over(x) => r.err = x.err)
        BY <3>2, <4>1
      <4>2. CASE ~(slots' = slots /\ (Over(x) <=> Over(r)) /\ (Over(x) => r.err = x.err))
        BY <1>7, <2>1, <4>2
      <4> QED
        BY <4>1, <4>2
    <3> QED
      BY <2>1, <3>1, <3>3
  <2>2. CASE t # s \/ g # L
    <3>1. Len(instances[t]) \in 1..Len(instances[t])
      BY <1>6, Types DEF IInv
    <3>2. Last(t)' = Last(t)
      BY <1>3, <2>2, <3>1 DEF Last
    <3>3. slots'[t] = slots[t]
      BY <1>7, <2>2
    <3> QED
      BY <2>0, <3>2, <3>3
  <2> QED
    BY <2>1, <2>2
<1>11. Callers'
  BY <1>1, <1>3, <1>5, <1>6, Types DEF IInv, Callers
<1>12. Ends'
  BY <1>1, <1>3, <1>5, <1>6 DEF IInv, Ends
<1>13. ResultIsFinal'
  <2> SUFFICES ASSUME finished PROVE slots' = slots
    BY <1>1 DEF IInv, ResultIsFinal
  <2>1. Last(s).at = "closed"
    BY DEF IInv, Ends
  <2>2. g = L => Over(x)
    BY <2>1 DEF Last, Over, x
  <2> QED
    BY <1>7, <2>2
<1> QED
  BY <1>5, <1>8, <1>9, <1>10, <1>11, <1>12, <1>13 DEF IInv

-----------------------------------------------------------------------------
\* Before Start nothing can have happened; Start gives every slot its instance.
LEMMA StartKeeps == IInv /\ Start => IInv'
<1> SUFFICES ASSUME IInv, Start PROVE IInv'
  OBVIOUS
<1>1. /\ ~started /\ started' /\ UNCHANGED <<finished, ctxDone, trackerDone, sequencerDone,
                                              lifecycle, ops, calls, shut, waits, result>>
      /\ slots' = [s \in Slot |-> Up] /\ instances' = [s \in Slot |-> <<Fresh>>]
  BY DEF Start, opVars, shutVars
<1>2. Fresh \in Instance /\ ~Over(Fresh)
  BY DEF Fresh, Instance, Stage, Over
<1> HIDE DEF Fresh
<1>3. /\ instances' \in [Slot -> Seq(Instance)] /\ slots' \in [Slot -> SlotState]
      /\ \A s \in Slot : /\ Len(instances'[s]) = 1 /\ instances'[s] # <<>>
                         /\ instances'[s][1] = Fresh /\ slots'[s] = Up
  <2>1. <<Fresh>> \in Seq(Instance) /\ Len(<<Fresh>>) = 1 /\ <<Fresh>>[1] = Fresh
    BY <1>2
  <2> QED
    BY <1>1, <2>1 DEF SlotState
<1>4. shut = "waiting" /\ \A o \in Operator : ops[o].pc = "idle"
  BY <1>1 DEF IInv, Launched
<1>5. TypeOK'
  BY <1>1, <1>3 DEF IInv, TypeOK, Instance, SlotState
<1>6. Launched' /\ Singly'
  BY <1>1, <1>3 DEF Launched, Singly
<1>7. SlotTellsTheTruth'
  BY <1>2, <1>3, SlotFields DEF SlotTellsTheTruth
<1>8. Callers' /\ Ends' /\ ResultIsFinal'
  BY <1>1, <1>4 DEF IInv, Callers, Holding, Ends, ResultIsFinal
<1> QED
  BY <1>5, <1>6, <1>7, <1>8 DEF IInv

\* What the session's surroundings do.
LEMMA SurroundingsKeep ==
  IInv /\ (TargetReached \/ CallerCancels \/ SequencerReturns) => IInv'
<1> SUFFICES ASSUME IInv, TargetReached \/ CallerCancels \/ SequencerReturns PROVE IInv'
  OBVIOUS
<1>1. /\ UNCHANGED <<started, slots, instances, lifecycle, ops, calls, finished, shut, waits, result>>
      /\ ctxDone' \in BOOLEAN /\ trackerDone' \in BOOLEAN /\ sequencerDone' \in BOOLEAN
      /\ sequencerDone => sequencerDone'
  BY DEF TargetReached, CallerCancels, SequencerReturns, slotVars, opVars, shutVars, IInv, TypeOK
<1>2. TypeOK'
  BY <1>1 DEF IInv, TypeOK
<1>3. Launched' /\ Singly' /\ SlotTellsTheTruth' /\ Callers' /\ Ends' /\ ResultIsFinal'
  BY <1>1 DEF IInv, Launched, Singly, SlotTellsTheTruth, Callers, Ends, ResultIsFinal, Last
<1> QED
  BY <1>2, <1>3 DEF IInv

-----------------------------------------------------------------------------
\* The calls.
Op == [pc : OpPc, kind : {"kill", "restart"}, slot : Slot, gen : Nat]

LEMMA OpTypes ==
  ASSUME TypeOK
  PROVE  /\ ops \in [Operator -> Op]
         /\ Idle \in Op /\ Idle.pc = "idle"
         /\ \A pc \in OpPc, o \in Operator :
              /\ [ops EXCEPT ![o].pc = pc] = [ops EXCEPT ![o] = [ops[o] EXCEPT !.pc = pc]]
              /\ [ops[o] EXCEPT !.pc = pc] \in Op
<1>1. ops \in [Operator -> Op]
  BY DEF TypeOK, Op
<1>2. Idle \in Op /\ Idle.pc = "idle"
  BY SupervisorAssumption DEF Idle, Op, OpPc
<1>3. ASSUME NEW pc \in OpPc, NEW o \in Operator
      PROVE  /\ [ops EXCEPT ![o].pc = pc] = [ops EXCEPT ![o] = [ops[o] EXCEPT !.pc = pc]]
             /\ [ops[o] EXCEPT !.pc = pc] \in Op
  <2>1. ops[o] \in Op
    BY <1>1
  <2> QED
    BY <2>1 DEF Op
<1> QED
  BY <1>1, <1>2, <1>3

\* An operator past its first section is alone with its slot.
LEMMA Alone ==
  ASSUME IInv, NEW o \in Operator, ops[o].pc \in Holding
  PROVE  /\ lifecycle = o /\ lifecycle # Shutdown /\ ~finished /\ started
         /\ \A p \in Operator : p # o => ops[p].pc \notin Holding
         /\ shut \in {"waiting", "cancel", "lock"}
         /\ ops[o].slot \in Slot /\ ops[o].slot \in Restartable
         /\ ops[o].gen = Len(instances[ops[o].slot])
         /\ ops[o].gen \in 1..Len(instances[ops[o].slot])
         /\ instances[ops[o].slot] # <<>>
<1>1. /\ lifecycle = o /\ ~finished /\ ops[o].slot \in Restartable
      /\ ops[o].gen = Len(instances[ops[o].slot])
      /\ \A p \in Operator : p # o => ops[p].pc \notin Holding
  BY DEF IInv, Callers
<1>2. lifecycle # Shutdown
  BY <1>1, SupervisorAssumption
<1>3. started
  BY DEF IInv, Launched, Holding
<1>4. shut \in {"waiting", "cancel", "lock"}
  BY <1>1, <1>2 DEF IInv, Ends, TypeOK, ShutPc
<1>5. ops[o].slot \in Slot /\ instances[ops[o].slot] # <<>>
  BY <1>3, Types DEF IInv, Launched
<1>6. Len(instances[ops[o].slot]) \in 1..Len(instances[ops[o].slot])
  BY <1>5, Types DEF IInv
<1> QED
  BY <1>1, <1>2, <1>3, <1>4, <1>5, <1>6

\* A call goes from one wait to the next.
LEMMA CallGoesOn ==
  ASSUME IInv, NEW o \in Operator, ops[o].pc \in Holding, NEW pc \in Holding, Goto(o, pc),
         UNCHANGED <<started, finished, lifecycle, shut, waits, result, sequencerDone>>,
         \A s \in Slot : /\ Len(instances'[s]) = Len(instances[s])
                         /\ instances[s] # <<>> /\ Over(Last(s)) => Over(Last(s))',
         \A s \in Slot : s = ops[o].slot /\ pc \in {"mark", "rehearse"} => Over(Last(s))'
  PROVE  ops' \in [Operator -> Op] /\ Callers' /\ Ends' /\ ResultIsFinal'
<1>1. pc \in OpPc /\ ops \in [Operator -> Op] /\ ops[o] \in Op
  BY OpTypes DEF IInv, Holding, OpPc
<1>2. ops' = [ops EXCEPT ![o] = [ops[o] EXCEPT !.pc = pc]]
  BY <1>1, OpTypes DEF Goto, IInv
<1>3. /\ ops' \in [Operator -> Op] /\ ops'[o].pc = pc
      /\ ops'[o].slot = ops[o].slot /\ ops'[o].gen = ops[o].gen
      /\ \A p \in Operator : p # o => ops'[p] = ops[p]
  BY <1>1, <1>2 DEF Op
<1>4. /\ lifecycle = o /\ ~finished
      /\ \A p \in Operator : p # o => ops[p].pc \notin Holding
      /\ ops[o].slot \in Slot /\ ops[o].slot \in Restartable
      /\ ops[o].gen = Len(instances[ops[o].slot])
      /\ shut \in {"waiting", "cancel", "lock"}
  BY Alone
<1>5. Callers'
  <2> SUFFICES ASSUME NEW p \in Operator
               PROVE  /\ ops'[p].pc \in Holding <=> lifecycle = p
                      /\ ops'[p].pc \in Holding => /\ ops'[p].gen = Len(instances'[ops'[p].slot])
                                                   /\ ops'[p].slot \in Restartable /\ ~finished
                      /\ ops'[p].pc \in {"mark", "rehearse"} =>
                           Over(instances'[ops'[p].slot][Len(instances'[ops'[p].slot])])
    BY DEF Callers, Last
  <2>1. CASE p = o
    BY <1>3, <1>4, <2>1 DEF Last
  <2>2. CASE p # o
    BY <1>3, <1>4, <2>2 DEF Holding
  <2> QED
    BY <2>1, <2>2
<1>6. Ends' /\ ResultIsFinal'
  BY <1>4 DEF IInv, Ends, ResultIsFinal
<1> QED
  BY <1>3, <1>5, <1>6

\* A call is answered: lifecycle is free again, whatever has become of the slot.
LEMMA CallIsOver ==
  ASSUME IInv, NEW o \in Operator, ops[o].pc \in Holding, Answer(o),
         UNCHANGED <<started, finished, shut>>
  PROVE  ops' \in [Operator -> Op] /\ Callers' /\ Ends' /\ ResultIsFinal'
<1>1. /\ ops' = [ops EXCEPT ![o] = Idle] /\ lifecycle' = Nobody
      /\ ops \in [Operator -> Op] /\ Idle \in Op /\ Idle.pc = "idle"
  BY OpTypes DEF Answer, IInv
<1> HIDE DEF Idle
<1>2. /\ ops' \in [Operator -> Op] /\ ops'[o].pc = "idle"
      /\ \A p \in Operator : p # o => ops'[p] = ops[p]
  BY <1>1
<1>3. \A p \in Operator : ops'[p].pc \notin Holding
  BY <1>2, Alone DEF Holding
<1>4. Callers'
  BY <1>1, <1>3, SupervisorAssumption DEF Callers, Holding
<1>5. Ends' /\ ResultIsFinal'
  BY <1>1, Alone, SupervisorAssumption DEF IInv, Ends, ResultIsFinal
<1> QED
  BY <1>2, <1>4, <1>5

LEMMA CallKeeps == ASSUME IInv, NEW o \in Operator, Call(o) PROVE IInv'
<1>1. /\ started /\ ops[o].pc = "idle" /\ calls' = calls + 1 /\ calls < MaxCalls
      /\ UNCHANGED <<started, ctxDone, trackerDone, sequencerDone, lifecycle, slots, instances,
                     finished, shut, waits, result>>
  BY DEF Call, envVars, slotVars, shutVars
<1>2. PICK q \in Op : q.pc = "lock" /\ ops' = [ops EXCEPT ![o] = q]
  <2>1. PICK kind \in {"kill", "restart"}, s \in Slot :
          ops' = [ops EXCEPT ![o] = [pc |-> "lock", kind |-> kind, slot |-> s, gen |-> 0]]
    BY DEF Call
  <2>2. [pc |-> "lock", kind |-> kind, slot |-> s, gen |-> 0] \in Op
    BY DEF Op, OpPc
  <2> QED
    BY <2>1, <2>2
<1>3. /\ ops' \in [Operator -> Op] /\ ops'[o].pc = "lock"
      /\ \A p \in Operator : p # o => ops'[p] = ops[p]
  BY <1>2, OpTypes DEF IInv
<1>4. calls' \in 0..MaxCalls
  BY <1>1, SupervisorAssumption DEF IInv, TypeOK
<1>5. TypeOK'
  BY <1>1, <1>3, <1>4 DEF IInv, TypeOK, Op
<1>6. Callers'
  <2>1. lifecycle # o
    BY <1>1 DEF IInv, Callers, Holding
  <2> QED
    BY <1>1, <1>3, <2>1 DEF IInv, Callers, Holding, Last
<1>7. Launched' /\ Singly' /\ SlotTellsTheTruth' /\ Ends' /\ ResultIsFinal'
  BY <1>1 DEF IInv, Launched, Singly, SlotTellsTheTruth, Ends, ResultIsFinal, Last
<1> QED
  BY <1>5, <1>6, <1>7 DEF IInv

LEMMA LockKeeps == ASSUME IInv, NEW o \in Operator, Lock(o) PROVE IInv'
<1> DEFINE s == ops[o].slot
<1>1. /\ ops[o].pc = "lock" /\ lifecycle = Nobody
      /\ UNCHANGED <<started, ctxDone, trackerDone, sequencerDone, slots, instances, calls,
                     finished, shut, waits, result>>
  BY DEF Lock, envVars, slotVars, shutVars
<1>2. started /\ s \in Slot /\ ops \in [Operator -> Op] /\ instances[s] # <<>>
      /\ Len(instances[s]) \in Nat
  BY <1>1, OpTypes, Types DEF IInv, Launched
<1>3. \A p \in Operator : ops[p].pc \notin Holding
  BY <1>1, SupervisorAssumption DEF IInv, Callers
<1>4. shut \notin {"join", "finish", "sequencer", "read"}
  BY <1>1, SupervisorAssumption DEF IInv, Ends
<1>5. Launched' /\ Singly' /\ SlotTellsTheTruth' /\ ResultIsFinal'
  BY <1>1, <1>2 DEF IInv, Launched, Singly, SlotTellsTheTruth, ResultIsFinal
<1>6. CASE Refused(o)
  <2>1. lifecycle' = Nobody /\ ops' = [ops EXCEPT ![o] = Idle]
    BY <1>6 DEF Lock, Answer
  <2>2. /\ ops' \in [Operator -> Op]
        /\ \A p \in Operator : ops'[p].pc \notin Holding
    BY <1>2, <1>3, <2>1, OpTypes DEF IInv, Holding
  <2>3. TypeOK'
    BY <1>1, <2>1, <2>2 DEF IInv, TypeOK, Op
  <2>4. Callers'
    BY <2>1, <2>2, SupervisorAssumption DEF Callers, Holding
  <2>5. Ends'
    BY <1>1, <2>1 DEF IInv, Ends, Last
  <2> QED
    BY <1>5, <2>3, <2>4, <2>5 DEF IInv
<1>7. CASE ~Refused(o)
  <2> DEFINE pc == IF slots[s].running THEN "cancel" ELSE "rehearse"
             q == [[ops[o] EXCEPT !.gen = Len(instances[s])] EXCEPT !.pc = pc]
  <2>1. /\ lifecycle' = o /\ ~finished /\ s \in Restartable
        /\ ops' = [ops EXCEPT ![o].gen = Len(instances[s]), ![o].pc = pc]
    BY <1>7 DEF Lock, Refused
  <2>2. pc \in Holding /\ pc # "mark" /\ pc \in OpPc
    BY DEF Holding, OpPc
  <2>3. pc = "rehearse" => Over(Last(s))
    BY <1>2 DEF IInv, SlotTellsTheTruth, Last
  <2> HIDE DEF pc
  <2>4. q \in Op /\ q.pc = pc /\ q.gen = Len(instances[s]) /\ q.slot = s
    <3>1. ops[o] \in Op
      BY <1>2
    <3> QED
      BY <1>2, <2>2, <3>1 DEF Op
  <2>5. ops' = [ops EXCEPT ![o] = q]
    BY <1>2, <2>1
  <2> HIDE DEF q
  <2>6. /\ ops' \in [Operator -> Op] /\ ops'[o] = q
        /\ \A p \in Operator : p # o => ops'[p] = ops[p]
    BY <1>2, <2>4, <2>5
  <2>7. TypeOK'
    BY <1>1, <2>1, <2>6 DEF IInv, TypeOK, Op
  <2>8. Callers'
    <3> SUFFICES ASSUME NEW p \in Operator
                 PROVE  /\ ops'[p].pc \in Holding <=> o = p
                        /\ ops'[p].pc \in Holding => /\ ops'[p].gen = Len(instances[ops'[p].slot])
                                                     /\ ops'[p].slot \in Restartable /\ ~finished
                        /\ ops'[p].pc \in {"mark", "rehearse"} =>
                             Over(instances[ops'[p].slot][Len(instances[ops'[p].slot])])
      BY <1>1, <2>1 DEF Callers, Last
    <3>1. CASE p = o
      BY <2>1, <2>2, <2>3, <2>4, <2>6, <3>1 DEF Last
    <3>2. CASE p # o
      BY <1>3, <2>6, <3>2 DEF Holding
    <3> QED
      BY <3>1, <3>2
  <2>9. Ends'
    BY <1>1, <1>4, <2>1, SupervisorAssumption DEF IInv, Ends, Last
  <2> QED
    BY <1>5, <2>7, <2>8, <2>9 DEF IInv
<1> QED
  BY <1>6, <1>7

LEMMA CancelKeeps == ASSUME IInv, NEW o \in Operator, CancelInstance(o) PROVE IInv'
<1> DEFINE s == ops[o].slot
           g == ops[o].gen
           x == instances[s][g]
           r == [x EXCEPT !.cancelled = TRUE]
<1>1. /\ ops[o].pc = "cancel" /\ Goto(o, "join")
      /\ instances' = [instances EXCEPT ![s][g].cancelled = TRUE]
      /\ UNCHANGED <<started, ctxDone, trackerDone, sequencerDone, lifecycle, slots, calls,
                     finished, shut, waits, result>>
  BY DEF CancelInstance, envVars, shutVars
<1>2. "cancel" \in Holding /\ "join" \in Holding
  BY DEF Holding
<1>3. /\ started /\ s \in Slot /\ g \in 1..Len(instances[s]) /\ g = Len(instances[s])
  BY <1>1, <1>2, Alone
<1>4. x \in Instance /\ instances \in [Slot -> Seq(Instance)]
  <2>1. instances \in [Slot -> Seq(Instance)] /\ instances[s] \in Seq(Instance)
    BY <1>3, Types DEF IInv
  <2> QED
    BY <1>3, <2>1
<1>5. r \in Instance /\ r.at = x.at /\ r.err = x.err
  BY <1>4 DEF Instance
<1>6. instances' = [instances EXCEPT ![s] = [instances[s] EXCEPT ![g] = r]]
  BY <1>1, <1>3, <1>4
<1>7. Becomes(s, g, r)
  BY <1>3, <1>4, <1>5, <1>6, Replaced
<1> HIDE DEF s, g, x, r
<1>8. /\ instances' \in [Slot -> Seq(Instance)]
      /\ \A t \in Slot : Len(instances'[t]) = Len(instances[t])
      /\ \A t \in Slot : \A h \in 1..Len(instances[t]) :
           /\ instances'[t][h].at = instances[t][h].at
           /\ instances'[t][h].err = instances[t][h].err
  BY <1>5, <1>7 DEF Becomes, x
<1>9. /\ \A t \in Slot : instances[t] # <<>> => instances'[t] # <<>>
      /\ Singly'
      /\ \A t \in Slot : instances[t] # <<>> =>
           /\ Over(Last(t)) => Over(Last(t))'
           /\ Last(t).at = "closed" => Last(t)'.at = "closed"
  BY <1>8, NobodyIsBorn DEF Over
<1>10. ops' \in [Operator -> Op] /\ Callers' /\ Ends' /\ ResultIsFinal'
  BY <1>1, <1>2, <1>8, <1>9, CallGoesOn
<1>11. TypeOK'
  BY <1>1, <1>8, <1>10 DEF IInv, TypeOK, Op, Instance
<1>12. Launched'
  BY <1>1, <1>3, <1>9 DEF IInv, Launched
<1>13. SlotTellsTheTruth'
  <2> SUFFICES ASSUME NEW t \in Slot
               PROVE  /\ slots[t].running <=> ~Over(Last(t)')
                      /\ Over(Last(t)') /\ Last(t)'.err => slots[t].quarantined
                      /\ slots[t].killed => Over(Last(t)') /\ ~Last(t)'.err /\ ~slots[t].quarantined
    BY <1>1 DEF SlotTellsTheTruth, Last
  <2>1. instances[t] # <<>> /\ Len(instances[t]) \in 1..Len(instances[t])
    BY <1>3, Types DEF IInv, Launched
  <2>2. Last(t)'.at = Last(t).at /\ Last(t)'.err = Last(t).err
    BY <1>8, <2>1 DEF Last
  <2> QED
    BY <2>1, <2>2 DEF IInv, SlotTellsTheTruth, Over, Last
<1> QED
  BY <1>9, <1>10, <1>11, <1>12, <1>13 DEF IInv

LEMMA JoinKeeps == ASSUME IInv, NEW o \in Operator, Join(o) PROVE IInv'
<1> DEFINE s == ops[o].slot
           pc == IF ops[o].kind = "kill" THEN "mark" ELSE "rehearse"
<1>1. /\ ops[o].pc = "join" /\ Goto(o, pc) /\ instances[s][ops[o].gen].at = "closed"
      /\ UNCHANGED <<started, ctxDone, trackerDone, sequencerDone, lifecycle, slots, instances, calls,
                     finished, shut, waits, result>>
  BY DEF Join, Joined, envVars, slotVars, shutVars
<1>2. ops[o].pc \in Holding /\ pc \in Holding
  BY <1>1 DEF Holding
<1>3. started /\ ops[o].gen = Len(instances[s])
  BY <1>2, Alone
<1>4. Over(Last(s))
  BY <1>1, <1>3 DEF Last, Over
<1> HIDE DEF pc
<1>5. ops' \in [Operator -> Op] /\ Callers' /\ Ends' /\ ResultIsFinal'
  <2>1. \A t \in Slot : /\ Len(instances'[t]) = Len(instances[t])
                         /\ instances[t] # <<>> /\ Over(Last(t)) => Over(Last(t))'
    BY <1>1 DEF Last
  <2>2. \A t \in Slot : t = ops[o].slot /\ pc \in {"mark", "rehearse"} => Over(Last(t))'
    BY <1>1, <1>4 DEF Last
  <2>3. UNCHANGED <<started, finished, lifecycle, shut, waits, result, sequencerDone>>
    BY <1>1
  <2> HIDE DEF s
  <2> QED
    BY <1>1, <1>2, <2>1, <2>2, <2>3, CallGoesOn
<1>6. TypeOK'
  BY <1>1, <1>5 DEF IInv, TypeOK, Op
<1>7. Launched' /\ Singly' /\ SlotTellsTheTruth'
  BY <1>1, <1>3 DEF IInv, Launched, Singly, SlotTellsTheTruth
<1> QED
  BY <1>5, <1>6, <1>7 DEF IInv

\* The last section of Kill, and the refusal of a candidate: only what the slot says
\* changes, and only from one thing it can say of an instance that is over to another.
LEMMA SlotRetold ==
  ASSUME IInv, NEW o \in Operator, ops[o].pc \in {"mark", "rehearse"}, Answer(o),
         UNCHANGED <<envVars, instances, calls, shutVars>>,
         NEW y \in {Down, Killed, Quarantined}, slots' = [slots EXCEPT ![ops[o].slot] = y],
         Last(ops[o].slot).err => y.quarantined, y.killed => ~Last(ops[o].slot).err
  PROVE  IInv'
<1> DEFINE s == ops[o].slot
<1>1. UNCHANGED <<started, ctxDone, trackerDone, sequencerDone, instances, calls,
                  finished, shut, waits, result>>
  BY DEF envVars, shutVars
<1>2. ops[o].pc \in Holding
  BY DEF Holding
<1>3. started /\ s \in Slot /\ Over(Last(s))
  BY <1>2, Alone DEF IInv, Callers
<1>4. ops' \in [Operator -> Op] /\ Callers' /\ Ends' /\ ResultIsFinal'
  BY <1>1, <1>2, CallIsOver
<1>5. lifecycle' = Nobody
  BY DEF Answer
<1>6. /\ slots' \in [Slot -> SlotState] /\ slots'[s] = y
      /\ \A t \in Slot : t # s => slots'[t] = slots[t]
  BY <1>3, Types DEF IInv, SlotState
<1>7. TypeOK'
  BY <1>1, <1>4, <1>5, <1>6 DEF IInv, TypeOK, Op, SlotState
<1>8. Launched' /\ Singly'
  BY <1>1, <1>3 DEF IInv, Launched, Singly
<1>9. SlotTellsTheTruth'
  <2> SUFFICES ASSUME NEW t \in Slot
               PROVE  /\ slots'[t].running <=> ~Over(Last(t))
                      /\ Over(Last(t)) /\ Last(t).err => slots'[t].quarantined
                      /\ slots'[t].killed => Over(Last(t)) /\ ~Last(t).err /\ ~slots'[t].quarantined
    BY <1>1 DEF SlotTellsTheTruth, Last
  <2>1. CASE t = s
    BY <1>3, <1>6, <2>1, SlotFields
  <2>2. CASE t # s
    BY <1>3, <1>6, <2>2 DEF IInv, Launched, SlotTellsTheTruth, Last
  <2> QED
    BY <2>1, <2>2
<1> QED
  BY <1>4, <1>7, <1>8, <1>9 DEF IInv

LEMMA MarkKeeps == ASSUME IInv, NEW o \in Operator, MarkKilled(o) PROVE IInv'
<1> DEFINE s == ops[o].slot
           y == Marked(slots[s])
<1>1. /\ ops[o].pc = "mark" /\ Answer(o) /\ UNCHANGED <<envVars, instances, calls, shutVars>>
  BY DEF MarkKilled
<1>2. started /\ s \in Slot /\ instances[s] # <<>> /\ slots \in [Slot -> SlotState] /\ Over(Last(s))
  BY <1>1, Alone, Types DEF IInv, Callers, Holding
<1>3. slots' = [slots EXCEPT ![s] = y]
  BY <1>2 DEF MarkKilled
<1>4. ~slots[s].running /\ (Last(s).err => slots[s].quarantined)
  BY <1>2 DEF IInv, SlotTellsTheTruth, Last
<1>5. slots[s] \in {Down, Killed, Quarantined}
  BY <1>2, <1>4, SlotFields DEF SlotState
<1>6. CASE slots[s].quarantined
  <2>1. y = Quarantined
    BY <1>5, <1>6, SlotFields DEF Marked
  <2> QED
    BY <1>1, <1>3, <2>1, SlotFields, SlotRetold
<1>7. CASE ~slots[s].quarantined
  <2>1. slots[s] \in Flags
    BY <1>5, SlotFields DEF SlotState
  <2>2. y \in Flags /\ ~y.running /\ y.killed /\ ~y.quarantined
    BY <1>4, <1>7, <2>1 DEF Marked, Flags
  <2> HIDE DEF y
  <2>3. y = Killed
    BY <2>2, SlotByFlags
  <2> QED
    BY <1>1, <1>3, <1>4, <1>7, <2>3, SlotFields, SlotRetold
<1> QED
  BY <1>6, <1>7

LEMMA RefuseKeeps == ASSUME IInv, NEW o \in Operator, RefuseCandidate(o) PROVE IInv'
BY SlotFields, SlotRetold DEF RefuseCandidate

\* The candidate becomes the slot's instance: the one before it is over.
LEMMA CandidateKeeps == ASSUME IInv, NEW o \in Operator, StartCandidate(o) PROVE IInv'
<1> DEFINE s == ops[o].slot
           L == Len(instances[s])
<1>1. /\ ops[o].pc = "rehearse" /\ Answer(o)
      /\ UNCHANGED <<started, ctxDone, trackerDone, sequencerDone, calls,
                     finished, shut, waits, result>>
  BY DEF StartCandidate, envVars, shutVars
<1>2. /\ ops[o].pc \in Holding /\ started /\ ~finished /\ s \in Slot /\ Over(Last(s))
      /\ L \in Nat /\ instances[s] \in Seq(Instance) /\ instances \in [Slot -> Seq(Instance)]
      /\ slots \in [Slot -> SlotState]
  <2>1. ops[o].pc \in Holding
    BY <1>1 DEF Holding
  <2> QED
    BY <1>1, <2>1, Alone, Types DEF IInv, Callers
<1>3. /\ slots' = [slots EXCEPT ![s] = Up]
      /\ instances' = [instances EXCEPT ![s] = Append(instances[s], Fresh)]
  BY <1>2 DEF StartCandidate
<1>4. Fresh \in Instance /\ ~Over(Fresh)
  BY DEF Fresh, Instance, Stage, Over
<1>5. /\ Append(instances[s], Fresh) \in Seq(Instance) /\ Len(Append(instances[s], Fresh)) = L + 1
      /\ Append(instances[s], Fresh)[L + 1] = Fresh
      /\ \A h \in 1..L : Append(instances[s], Fresh)[h] = instances[s][h]
  BY <1>2, <1>4
<1> HIDE DEF Fresh
<1>6. /\ instances' \in [Slot -> Seq(Instance)] /\ slots' \in [Slot -> SlotState]
      /\ Len(instances'[s]) = L + 1 /\ instances'[s][L + 1] = Fresh /\ slots'[s] = Up
      /\ \A h \in 1..L : instances'[s][h] = instances[s][h]
      /\ \A t \in Slot : t # s => instances'[t] = instances[t] /\ slots'[t] = slots[t]
  BY <1>2, <1>3, <1>5 DEF SlotState
<1>7. ops' \in [Operator -> Op] /\ Callers' /\ Ends' /\ ResultIsFinal'
  BY <1>1, <1>2, CallIsOver
<1>8. lifecycle' = Nobody
  BY <1>1 DEF Answer
<1> HIDE DEF s, L
<1>9. TypeOK'
  BY <1>1, <1>6, <1>7, <1>8 DEF IInv, TypeOK, Op, Instance, SlotState
<1>10. Launched'
  <2>1. instances'[s] # <<>>
    BY <1>2, <1>6
  <2> QED
    BY <1>1, <1>2, <1>6, <2>1 DEF IInv, Launched
<1>11. Singly'
  <2> SUFFICES ASSUME NEW t \in Slot, NEW g \in 1..Len(instances'[t]), g < Len(instances'[t])
               PROVE  Over(instances'[t][g])
    BY DEF Singly
  <2>1. CASE t # s
    BY <1>6, <2>1 DEF IInv, Singly
  <2>2. CASE t = s
    <3>1. g \in 1..L
      BY <1>2, <1>6, <2>2
    <3>2. Over(instances[s][g])
      BY <1>2, <3>1 DEF IInv, Singly, Last, L
    <3> QED
      BY <1>6, <2>2, <3>1, <3>2
  <2> QED
    BY <2>1, <2>2
<1>12. SlotTellsTheTruth'
  <2> SUFFICES ASSUME NEW t \in Slot
               PROVE  /\ slots'[t].running <=> ~Over(Last(t)')
                      /\ Over(Last(t)') /\ Last(t)'.err => slots'[t].quarantined
                      /\ slots'[t].killed => Over(Last(t)') /\ ~Last(t)'.err /\ ~slots'[t].quarantined
    BY DEF SlotTellsTheTruth, Last
  <2>1. CASE t = s
    <3>1. Last(t)' = Fresh
      BY <1>6, <2>1 DEF Last
    <3> QED
      BY <1>4, <1>6, <2>1, <3>1, SlotFields
  <2>2. CASE t # s
    BY <1>2, <1>6, <2>2 DEF IInv, Launched, SlotTellsTheTruth, Last
  <2> QED
    BY <2>1, <2>2
<1> QED
  BY <1>7, <1>9, <1>10, <1>11, <1>12 DEF IInv

-----------------------------------------------------------------------------
\* shutdown.
LEMMA ShutdownKeeps == IInv /\ (ShutdownStep \/ LockLifecycle) => IInv'
<1> SUFFICES ASSUME IInv, ShutdownStep \/ LockLifecycle PROVE IInv'
  OBVIOUS
<1>1. /\ UNCHANGED <<started, trackerDone, sequencerDone, slots, instances, ops, calls>>
      /\ started
  BY DEF ShutdownStep, LockLifecycle, Collect, Notice, CancelSession, JoinAll, Finish, JoinSequencer,
         ReadLog, envVars, slotVars, opVars, IInv, Launched
<1>2. Launched' /\ Singly' /\ SlotTellsTheTruth'
  BY <1>1 DEF IInv, Launched, Singly, SlotTellsTheTruth
<1>3. \A s \in Slot : instances[s] # <<>> /\ Len(instances[s]) \in Nat
  BY <1>1, Types DEF IInv, Launched
<1>4. CASE Notice \/ CancelSession
  <2>1. UNCHANGED <<lifecycle, finished, waits, result>> /\ ctxDone' \in BOOLEAN
        /\ shut \in {"waiting", "cancel"} /\ shut' \in {"cancel", "lock"}
    BY <1>4 DEF Notice, CancelSession, envVars, IInv, TypeOK
  <2>2. TypeOK'
    BY <1>1, <2>1 DEF IInv, TypeOK, ShutPc
  <2>3. Callers' /\ Ends' /\ ResultIsFinal'
    BY <1>1, <2>1 DEF IInv, Callers, Ends, ResultIsFinal, Last
  <2> QED
    BY <1>2, <2>2, <2>3 DEF IInv
<1>5. CASE LockLifecycle
  <2>1. /\ shut = "lock" /\ shut' = "join" /\ lifecycle = Nobody /\ lifecycle' = Shutdown
        /\ waits' = {<<s, Len(instances[s])>> : s \in Slot}
        /\ UNCHANGED <<ctxDone, finished, result>>
    BY <1>3, <1>5 DEF LockLifecycle, Collect, envVars
  <2>2. waits' \subseteq Slot \X Nat
    BY <1>3, <2>1
  <2>3. TypeOK'
    BY <1>1, <2>1, <2>2 DEF IInv, TypeOK, ShutPc
  <2>4. Callers'
    BY <1>1, <2>1, SupervisorAssumption DEF IInv, Callers, Last
  <2>5. Ends' /\ ResultIsFinal'
    BY <1>1, <2>1, SupervisorAssumption DEF IInv, Ends, ResultIsFinal
  <2> QED
    BY <1>2, <2>3, <2>4, <2>5 DEF IInv
<1>6. CASE JoinAll
  <2>1. /\ shut = "join" /\ shut' = "finish" /\ UNCHANGED <<ctxDone, lifecycle, finished, waits, result>>
        /\ \A w \in waits : instances[w[1]][w[2]].at = "closed"
    BY <1>6 DEF JoinAll, envVars
  <2>2. \A s \in Slot : Last(s).at = "closed"
    <3>1. \A s \in Slot : <<s, Len(instances[s])>> \in waits
      BY <2>1 DEF IInv, Ends
    <3> QED
      BY <2>1, <3>1 DEF Last
  <2>3. TypeOK'
    BY <1>1, <2>1 DEF IInv, TypeOK, ShutPc
  <2>4. Callers' /\ Ends' /\ ResultIsFinal'
    BY <1>1, <2>1, <2>2 DEF IInv, Callers, Ends, ResultIsFinal, Last
  <2> QED
    BY <1>2, <2>3, <2>4 DEF IInv
<1>7. CASE Finish
  <2>1. /\ shut = "finish" /\ shut' = "sequencer" /\ finished'
        /\ UNCHANGED <<ctxDone, lifecycle, waits>>
        /\ result' = {s \in Slot : slots[s].quarantined}
    BY <1>7 DEF Finish, envVars
  <2>2. lifecycle = Shutdown
    BY <2>1 DEF IInv, Ends
  <2>3. TypeOK'
    BY <1>1, <2>1, <1>7 DEF IInv, TypeOK, ShutPc, Finish
  <2>4. Callers'
    BY <1>1, <2>1, <2>2, SupervisorAssumption DEF IInv, Callers, Holding, Last
  <2>5. Ends' /\ ResultIsFinal'
    BY <1>1, <2>1 DEF IInv, Ends, ResultIsFinal, Last
  <2> QED
    BY <1>2, <2>3, <2>4, <2>5 DEF IInv
<1>8. CASE JoinSequencer
  <2>1. /\ shut = "sequencer" /\ shut' = "read" /\ sequencerDone
        /\ UNCHANGED <<ctxDone, lifecycle, finished, waits, result>>
    BY <1>8 DEF JoinSequencer, envVars
  <2>2. TypeOK'
    BY <1>1, <2>1 DEF IInv, TypeOK, ShutPc
  <2>3. Callers' /\ Ends' /\ ResultIsFinal'
    BY <1>1, <2>1 DEF IInv, Callers, Ends, ResultIsFinal, Last
  <2> QED
    BY <1>2, <2>2, <2>3 DEF IInv
<1>9. CASE ReadLog
  <2>1. /\ shut = "read" /\ shut' = "done" /\ lifecycle' = Nobody
        /\ UNCHANGED <<ctxDone, finished, waits, result>>
    BY <1>9 DEF ReadLog, envVars
  <2>2. lifecycle = Shutdown
    BY <2>1 DEF IInv, Ends
  <2>3. TypeOK'
    BY <1>1, <2>1 DEF IInv, TypeOK, ShutPc
  <2>4. Callers'
    BY <1>1, <2>1, <2>2, SupervisorAssumption DEF IInv, Callers, Holding, Last
  <2>5. Ends' /\ ResultIsFinal'
    BY <1>1, <2>1, SupervisorAssumption DEF IInv, Ends, ResultIsFinal, Last
  <2> QED
    BY <1>2, <2>3, <2>4, <2>5 DEF IInv
<1> QED
  BY <1>4, <1>5, <1>6, <1>7, <1>8, <1>9 DEF ShutdownStep

LEMMA InvariantStep == IInv /\ [Next]_vars => IInv'
<1> SUFFICES ASSUME IInv, [Next]_vars PROVE IInv'
  OBVIOUS
<1>1. CASE \E s \in Slot : \E g \in 1..Len(instances[s]) : InstanceStep(s, g)
  BY <1>1, InstanceStepKeeps
<1>2. CASE \E o \in Operator : Call(o) \/ Lock(o) \/ InCall(o)
  BY <1>2, CallKeeps, LockKeeps, CancelKeeps, JoinKeeps, MarkKeeps, RefuseKeeps, CandidateKeeps
     DEF InCall
<1>3. CASE UNCHANGED vars
  <2>1. TypeOK'
    BY <1>3 DEF vars, IInv, TypeOK
  <2>2. Launched' /\ Singly' /\ SlotTellsTheTruth'
    BY <1>3 DEF vars, IInv, Launched, Singly, SlotTellsTheTruth
  <2>3. Callers' /\ Ends' /\ ResultIsFinal'
    BY <1>3 DEF vars, IInv, Callers, Ends, ResultIsFinal, Last
  <2> QED
    BY <2>1, <2>2, <2>3 DEF IInv
<1> QED
  BY <1>1, <1>2, <1>3, StartKeeps, SurroundingsKeep, ShutdownKeeps DEF Next

-----------------------------------------------------------------------------
(* The invariant of the supervision, for any slots, operators and calls.    *)
THEOREM Supervised == Spec => []IInv
BY InitHolds, InvariantStep, PTL DEF Spec

(* However many operators kill and restart, no replica slot ever runs two   *)
(* instances: the one before has stopped and been accounted for             *)
(* (session.go lifecycle, Kill, restart).                                   *)
THEOREM NeverTwoInstances == Spec => []OneInstancePerSlot
<1>1. IInv => OneInstancePerSlot
  BY DEF IInv, Singly, OneInstancePerSlot
<1> QED
  BY <1>1, Supervised, PTL

(* What a slot says is what became of its instance, whichever of the        *)
(* watcher and the operator comes first (startLocked's watcher, Kill).      *)
THEOREM SlotsAreTrue == Spec => []SlotTellsTheTruth
<1>1. IInv => SlotTellsTheTruth
  BY DEF IInv
<1> QED
  BY <1>1, Supervised, PTL

(* When shutdown reads what nothing locks, every instance ever started and  *)
(* the sequencer have stopped (shutdown: joining before reading).           *)
THEOREM ReadsAreSafe == Spec => []ReadsAreJoined
<1>1. IInv => ReadsAreJoined
  <2> SUFFICES ASSUME IInv, shut = "read", NEW s \in Slot, NEW g \in 1..Len(instances[s])
               PROVE  sequencerDone /\ Over(instances[s][g])
    BY DEF ReadsAreJoined, IInv, Ends
  <2>1. sequencerDone /\ Last(s).at = "closed"
    BY DEF IInv, Ends
  <2>2. CASE g < Len(instances[s])
    BY <2>1, <2>2 DEF IInv, Singly
  <2>3. CASE ~(g < Len(instances[s]))
    <3>1. g = Len(instances[s])
      BY <2>3, Types DEF IInv
    <3> QED
      BY <2>1, <3>1 DEF Last, Over
  <2> QED
    BY <2>2, <2>3
<1> QED
  BY <1>1, Supervised, PTL

(* The list of quarantined replicas in the result is final: no late watcher *)
(* and no operator that was waiting changes it (finished, Wait).            *)
THEOREM TheResultIsFinal == Spec => []ResultIsFinal
<1>1. IInv => ResultIsFinal
  BY DEF IInv
<1> QED
  BY <1>1, Supervised, PTL
=============================================================================
