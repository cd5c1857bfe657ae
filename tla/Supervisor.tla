----------------------------- MODULE Supervisor -----------------------------
(***************************************************************************)
(* The session's supervision of its replicas (src/internal/session,        *)
(* session.go): one watcher goroutine per instance, operators that kill    *)
(* and restart, and the one shutdown.  `lifecycle` is held across the      *)
(* waits of an operator; `mu` only inside sections that never block, so    *)
(* each of those is one step and mu itself is not a variable.  What a      *)
(* goroutine does on its own before a section (take lifecycle, rehearse a  *)
(* private candidate) is part of that section's step.                      *)
(*                                                                         *)
(* What an instance does on the log is Platform's matter; here it runs     *)
(* until its context is cancelled or it quarantines itself.                *)
(***************************************************************************)
EXTENDS Integers, Sequences, FiniteSets

CONSTANTS
  Slot,         \* the supervised replicas
  Restartable,  \* those that are fault-injectable: all but the tracker
  Operator,     \* goroutines that call Kill and Restart
  Referenced,   \* the session has a canonical Reference to rehearse against
  Shutdown,     \* the holder of lifecycle that is no operator
  Nobody,       \* lifecycle is free
  MaxCalls      \* bound: calls of all operators

ASSUME SupervisorAssumption ==
  /\ Slot # {}
  /\ Restartable \subseteq Slot
  /\ Shutdown \notin Operator
  /\ Nobody \notin Operator \cup {Shutdown}
  /\ Referenced \in BOOLEAN
  /\ MaxCalls \in Nat

VARIABLES
  started,        \* Session.started
  finished,       \* Session.finished
  ctxDone,        \* the session's context is cancelled
  lifecycle,      \* who holds Session.lifecycle
  slots,          \* running, killed, quarantined of each slot
  instances,      \* what each slot has started: slot.gen is the length
  ops,            \* where each operator is, and in which call
  calls,          \* calls made so far
  shut,           \* where shutdown is
  waits,          \* the done channels shutdown collected, as <<slot, gen>>
  result,         \* Result.Quarantined
  trackerDone,    \* the tracker has seen the target number of games
  sequencerDone   \* Sequencer.Run has returned

\* Who writes what: the session's surroundings, the slots, the operators, shutdown.
envVars == <<started, ctxDone, trackerDone, sequencerDone>>
slotVars == <<slots, instances>>
opVars == <<ops, calls>>
shutVars == <<finished, shut, waits, result>>
vars == <<started, finished, ctxDone, lifecycle, slots, instances, ops, calls,
          shut, waits, result, trackerDone, sequencerDone>>

\* An instance's goroutine: in Run, past it, past its record in the slot, past
\* close(done).
Stage == {"running", "returned", "recorded", "closed"}
OpPc == {"idle", "lock", "cancel", "join", "mark", "rehearse"}
ShutPc == {"waiting", "cancel", "lock", "join", "finish", "sequencer",
           "read", "done"}

\* What a slot can say: at most one of running, killed, quarantined.
Down == [running |-> FALSE, killed |-> FALSE, quarantined |-> FALSE]
Up == [Down EXCEPT !.running = TRUE]
Killed == [Down EXCEPT !.killed = TRUE]
Quarantined == [Down EXCEPT !.quarantined = TRUE]

TypeOK ==
  /\ started \in BOOLEAN /\ finished \in BOOLEAN /\ ctxDone \in BOOLEAN
  /\ trackerDone \in BOOLEAN /\ sequencerDone \in BOOLEAN
  /\ lifecycle \in Operator \cup {Shutdown, Nobody}
  /\ slots \in [Slot -> {Down, Up, Killed, Quarantined}]
  /\ instances \in [Slot -> Seq([at : Stage, err : BOOLEAN, cancelled : BOOLEAN])]
  /\ ops \in [Operator -> [pc : OpPc, kind : {"kill", "restart"}, slot : Slot, gen : Nat]]
  /\ calls \in 0..MaxCalls
  /\ shut \in ShutPc
  /\ waits \subseteq Slot \X Nat
  /\ result \subseteq Slot

Idle == [pc |-> "idle", kind |-> "kill", slot |-> CHOOSE s \in Slot : TRUE, gen |-> 0]

Init ==
  /\ started = FALSE /\ finished = FALSE /\ ctxDone = FALSE
  /\ trackerDone = FALSE /\ sequencerDone = FALSE
  /\ lifecycle = Nobody
  /\ slots = [s \in Slot |-> Down]
  /\ instances = [s \in Slot |-> <<>>]
  /\ ops = [o \in Operator |-> Idle]
  /\ calls = 0
  /\ shut = "waiting"
  /\ waits = {}
  /\ result = {}

-----------------------------------------------------------------------------
\* startLocked: a fresh instance, and the slot describes it from now on.
Fresh == [at |-> "running", err |-> FALSE, cancelled |-> FALSE]

Start ==
  /\ ~started
  /\ started' = TRUE
  /\ slots' = [s \in Slot |-> Up]
  /\ instances' = [s \in Slot |-> <<Fresh>>]
  /\ UNCHANGED <<ctxDone, trackerDone, sequencerDone, lifecycle, opVars, shutVars>>

\* The tracker, the one slot that is not restartable, sees the target; the
\* caller's context is cancelled; the sequencer sees the session's context.
TargetReached ==
  /\ \E s \in Slot \ Restartable : slots[s].running /\ instances[s][1].at = "running"
  /\ trackerDone' = TRUE
  /\ UNCHANGED <<started, ctxDone, sequencerDone, lifecycle, slotVars, opVars, shutVars>>
CallerCancels ==
  /\ started
  /\ ctxDone' = TRUE
  /\ UNCHANGED <<started, trackerDone, sequencerDone, lifecycle, slotVars, opVars, shutVars>>
SequencerReturns ==
  /\ ctxDone
  /\ sequencerDone' = TRUE
  /\ UNCHANGED <<started, ctxDone, trackerDone, lifecycle, slotVars, opVars, shutVars>>

-----------------------------------------------------------------------------
(***************************************************************************)
(* An instance's goroutine and the watcher around it.                      *)
(***************************************************************************)
Move(s, g, stage) == instances' = [instances EXCEPT ![s][g].at = stage]

\* Run returns nil: its own context, or the session's, is cancelled.
Returns(s, g) ==
  /\ instances[s][g].at = "running"
  /\ instances[s][g].cancelled \/ ctxDone
  /\ Move(s, g, "returned")
  /\ UNCHANGED <<envVars, lifecycle, slots, opVars, shutVars>>

\* Run returns an error: only what is arbitrated or validated can quarantine.
Quarantines(s, g) ==
  /\ s \in Restartable
  /\ instances[s][g].at = "running"
  /\ instances' = [instances EXCEPT ![s][g].at = "returned", ![s][g].err = TRUE]
  /\ UNCHANGED <<envVars, lifecycle, slots, opVars, shutVars>>

\* The watcher's locked section.
Records(s, g) ==
  /\ instances[s][g].at = "returned"
  /\ slots' = IF g = Len(instances[s])
              THEN [slots EXCEPT ![s].running = FALSE,
                                 ![s].quarantined = @ \/ instances[s][g].err]
              ELSE slots
  /\ Move(s, g, "recorded")
  /\ UNCHANGED <<envVars, lifecycle, opVars, shutVars>>

Closes(s, g) ==
  /\ instances[s][g].at = "recorded"
  /\ Move(s, g, "closed")
  /\ UNCHANGED <<envVars, lifecycle, slots, opVars, shutVars>>

InstanceStep(s, g) ==
  Returns(s, g) \/ Quarantines(s, g) \/ Records(s, g) \/ Closes(s, g)

-----------------------------------------------------------------------------
(***************************************************************************)
(* An operator's Kill or Restart.                                          *)
(***************************************************************************)
Goto(o, pc) == ops' = [ops EXCEPT ![o].pc = pc]

\* The call returns, and its deferred unlock runs.
Answer(o) == ops' = [ops EXCEPT ![o] = Idle] /\ lifecycle' = Nobody

Call(o) ==
  /\ started
  /\ ops[o].pc = "idle"
  /\ calls < MaxCalls
  /\ calls' = calls + 1
  /\ \E kind \in {"kill", "restart"}, s \in Slot :
       ops' = [ops EXCEPT ![o] = [pc |-> "lock", kind |-> kind, slot |-> s, gen |-> 0]]
  /\ UNCHANGED <<envVars, lifecycle, slotVars, shutVars>>

\* Variant: an operator action is accepted in a session that has finished.
RefusedUnfinished(o) ==
  LET s == ops[o].slot
  IN s \notin Restartable \/ (ops[o].kind = "kill" /\ ~slots[s].running)

\* The conditions under which the first locked section answers with an error.
Refused(o) ==
  LET s == ops[o].slot
  IN finished \/ s \notin Restartable \/ (ops[o].kind = "kill" /\ ~slots[s].running)

\* Both calls: lifecycle, then the first section under mu.
Lock(o) ==
  /\ ops[o].pc = "lock"
  /\ lifecycle = Nobody
  /\ IF Refused(o)
     THEN Answer(o)
     ELSE /\ ops' = [ops EXCEPT
                       ![o].gen = Len(instances[ops[o].slot]),
                       ![o].pc = IF slots[ops[o].slot].running THEN "cancel" ELSE "rehearse"]
          /\ lifecycle' = o
  /\ UNCHANGED <<envVars, slotVars, calls, shutVars>>

\* Variant: the instance is waited for without being cancelled.
CancelNobody(o) ==
  /\ ops[o].pc = "cancel"
  /\ Goto(o, "join")
  /\ UNCHANGED <<envVars, lifecycle, slotVars, calls, shutVars>>

CancelInstance(o) ==
  /\ ops[o].pc = "cancel"
  /\ instances' = [instances EXCEPT ![ops[o].slot][ops[o].gen].cancelled = TRUE]
  /\ Goto(o, "join")
  /\ UNCHANGED <<envVars, lifecycle, slots, calls, shutVars>>

\* Variant: what was cancelled is not waited for.
JoinedAtOnce(s, g) == TRUE
\* <-done.
Joined(s, g) == instances[s][g].at = "closed"

Join(o) ==
  /\ ops[o].pc = "join"
  /\ Joined(ops[o].slot, ops[o].gen)
  /\ Goto(o, IF ops[o].kind = "kill" THEN "mark" ELSE "rehearse")
  /\ UNCHANGED <<envVars, lifecycle, slotVars, calls, shutVars>>

\* Variant: whatever has stopped by the time Kill has waited was killed by it.
MarkedAnyway(slot) == [slot EXCEPT !.killed = TRUE]
\* Kill's last section: what had quarantined itself is not also killed.
Marked(slot) == IF slot.quarantined THEN slot ELSE [slot EXCEPT !.killed = TRUE]

MarkKilled(o) ==
  /\ ops[o].pc = "mark"
  /\ slots' = [slots EXCEPT ![ops[o].slot] = Marked(@)]
  /\ Answer(o)
  /\ UNCHANGED <<envVars, instances, calls, shutVars>>

\* How the rehearsals of a candidate end is Rehearsal's matter: here either way.
RefuseCandidate(o) ==
  /\ ops[o].pc = "rehearse"
  /\ Referenced
  /\ slots' = [slots EXCEPT ![ops[o].slot] = Quarantined]
  /\ Answer(o)
  /\ UNCHANGED <<envVars, instances, calls, shutVars>>

StartCandidate(o) ==
  /\ ops[o].pc = "rehearse"
  /\ IF finished
     THEN UNCHANGED slotVars
     ELSE /\ slots' = [slots EXCEPT ![ops[o].slot] = Up]
          /\ instances' = [instances EXCEPT ![ops[o].slot] = Append(@, Fresh)]
  /\ Answer(o)
  /\ UNCHANGED <<envVars, calls, shutVars>>

InCall(o) ==
  \/ CancelInstance(o) \/ Join(o) \/ MarkKilled(o)
  \/ RefuseCandidate(o) \/ StartCandidate(o)

-----------------------------------------------------------------------------
(***************************************************************************)
(* shutdown, run once by the first caller of Wait.                         *)
(***************************************************************************)
Notice ==
  /\ shut = "waiting" /\ started
  /\ trackerDone \/ ctxDone
  /\ shut' = "cancel"
  /\ UNCHANGED <<envVars, lifecycle, slotVars, opVars, finished, waits, result>>

\* Variant: shutdown waits for the replicas without cancelling them.
CancelNothing ==
  /\ shut = "cancel" /\ shut' = "lock"
  /\ UNCHANGED <<envVars, lifecycle, slotVars, opVars, finished, waits, result>>

CancelSession ==
  /\ shut = "cancel" /\ shut' = "lock"
  /\ ctxDone' = TRUE
  /\ UNCHANGED <<started, trackerDone, sequencerDone, lifecycle, slotVars, opVars,
                 finished, waits, result>>

Collect ==
  /\ shut = "lock" /\ shut' = "join"
  /\ waits' = {<<s, Len(instances[s])>> : s \in {t \in Slot : instances[t] # <<>>}}
  /\ UNCHANGED <<envVars, slotVars, opVars, finished, result>>

\* Variant: shutdown races the operator action in flight.
LockNothing == Collect /\ UNCHANGED lifecycle
\* lifecycle, then the section that collects the done channels.
LockLifecycle == Collect /\ lifecycle = Nobody /\ lifecycle' = Shutdown

JoinAll ==
  /\ shut = "join" /\ shut' = "finish"
  /\ \A w \in waits : instances[w[1]][w[2]].at = "closed"
  /\ UNCHANGED <<envVars, lifecycle, slotVars, opVars, finished, waits, result>>

Finish ==
  /\ shut = "finish" /\ shut' = "sequencer"
  /\ finished' = TRUE
  /\ result' = {s \in Slot : slots[s].quarantined}
  /\ UNCHANGED <<envVars, lifecycle, slotVars, opVars, waits>>

JoinSequencer ==
  /\ shut = "sequencer" /\ shut' = "read"
  /\ sequencerDone
  /\ UNCHANGED <<envVars, lifecycle, slotVars, opVars, finished, waits, result>>

\* The log and the tracker's store are read, unlocked, and the result returned.
ReadLog ==
  /\ shut = "read" /\ shut' = "done"
  /\ lifecycle' = Nobody
  /\ UNCHANGED <<envVars, slotVars, opVars, finished, waits, result>>

ShutdownStep ==
  \/ Notice \/ CancelSession \/ JoinAll \/ Finish \/ JoinSequencer \/ ReadLog

Next ==
  \/ Start \/ TargetReached \/ CallerCancels \/ SequencerReturns
  \/ \E s \in Slot : \E g \in 1..Len(instances[s]) : InstanceStep(s, g)
  \/ \E o \in Operator : Call(o) \/ Lock(o) \/ InCall(o)
  \/ ShutdownStep \/ LockLifecycle

Spec == Init /\ [][Next]_vars

\* Goroutines run; sync.Mutex hands a contended lock to whoever has waited long
\* enough, so nobody is passed over for ever.  Nothing obliges an instance to
\* quarantine itself, an operator to call, or the tournament to end.
Obliged(s, g) == Returns(s, g) \/ Records(s, g) \/ Closes(s, g)
Fairness ==
  /\ WF_vars(\E s \in Slot : \E g \in 1..Len(instances[s]) : Obliged(s, g))
  /\ WF_vars(\E o \in Operator : InCall(o))
  /\ \A o \in Operator : SF_vars(Lock(o))
  /\ WF_vars(ShutdownStep) /\ SF_vars(LockLifecycle)
  /\ WF_vars(SequencerReturns)

FairSpec == Spec /\ Fairness

-----------------------------------------------------------------------------
\* An instance that is over: its Run has returned and its slot has been told.
Over(instance) == instance.at \in {"recorded", "closed"}

(* Never two instances of a replica at once: whatever operators interleave, *)
(* an instance is started only when the one before it has stopped and been  *)
(* accounted for (session.go lifecycle: "leave a slot running two           *)
(* instances").                                                             *)
OneInstancePerSlot ==
  /\ TypeOK
  /\ \A s \in Slot : \A g \in 1..Len(instances[s]) :
       g < Len(instances[s]) => Over(instances[s][g])

(* What a slot says is what happened to the instance it stands for: running *)
(* until its watcher has recorded the end, quarantined if it quarantined    *)
(* itself, and killed only if it did not (startLocked's watcher, Kill).     *)
SlotTellsTheTruth ==
  \A s \in Slot : instances[s] # <<>> =>
    LET last == instances[s][Len(instances[s])]
    IN /\ slots[s].running <=> ~Over(last)
       /\ Over(last) /\ last.err => slots[s].quarantined
       /\ slots[s].killed => Over(last) /\ ~last.err /\ ~slots[s].quarantined

(* When shutdown reads the log and the tracker's store, which nothing locks, *)
(* every instance ever started and the sequencer have stopped (shutdown:     *)
(* "Joining before reading is what makes those reads safe").                 *)
ReadsAreJoined ==
  shut = "read" =>
    /\ sequencerDone
    /\ \A s \in Slot : \A g \in 1..Len(instances[s]) : Over(instances[s][g])

(* The result's list of quarantined replicas is, from then on, what the      *)
(* session reports: no late watcher and no operator changes it (finished,    *)
(* Wait: every caller gets the same Result).                                 *)
ResultIsFinal == finished => result = {s \in Slot : slots[s].quarantined}

(* A session whose tournament is over, or that is cancelled, does finish:    *)
(* operators holding lifecycle, watchers and the sequencer all let go        *)
(* (shutdown, Kill's comment on waiting outside mu).                         *)
ShutdownEnds == (trackerDone \/ ctxDone) ~> shut = "done"

(* Every call of Kill and Restart comes back, whatever the instance it waits *)
(* for is doing (Kill, restart).                                             *)
CallsReturn == \A o \in Operator : ops[o].pc # "idle" ~> ops[o].pc = "idle"
=============================================================================
