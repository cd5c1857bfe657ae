-------------------------------- MODULE Pacer --------------------------------
(***************************************************************************)
(* The admission throttle (src/internal/platform/pacer.go).  One waiter,   *)
(* the sequencer's goroutine, asks for each admitted event in turn; the    *)
(* operators' calls come from other goroutines.  The mutex makes each call *)
(* and each locked section of Wait one step; what Wait does after it has   *)
(* unlocked runs against those calls.                                      *)
(*                                                                         *)
(* Time is a timer that may fire at any moment of the wait.                *)
(***************************************************************************)
EXTENDS Integers

CONSTANTS
  Intervals,    \* the intervals an operator may set; 0 runs flat out
  MaxCredits    \* bound: unconsumed Step calls

ASSUME PacerAssumption ==
  /\ Intervals \subseteq Nat
  /\ Intervals # {}
  /\ MaxCredits \in Nat

VARIABLES
  running, interval, credits,   \* the Pacer's fields
  pc,         \* where the waiter is
  mine,       \* the interval Wait read in its last locked section
  woken,      \* the `resumed` channel Wait read there has been closed since
  cancelled,  \* the waiter's ctx is done
  held,       \* which call took admission from running to held, "none" if running
  allowance   \* admissions still owed while held: the credits outstanding
              \* when it was stopped, plus each Step, minus each admission

vars == <<running, interval, credits, pc, mine, woken, cancelled, held, allowance>>

\* idle: the sequencer has no event to admit; top: at the top of Wait's loop;
\* paused and timing: in its two selects; flat: unlocked, about to return
\* ctx.Err() == nil; done: Wait has returned false and the sequencer with it.
PC == {"idle", "top", "paused", "timing", "flat", "done"}

TypeOK ==
  /\ running \in BOOLEAN
  /\ interval \in Intervals
  /\ credits \in Nat
  /\ pc \in PC
  /\ mine \in Intervals
  /\ woken \in BOOLEAN
  /\ cancelled \in BOOLEAN
  /\ held \in {"none", "pause", "step"}
  /\ allowance \in Int

\* NewPacer, and a session that is StartPaused pauses it before anything runs.
Init ==
  /\ interval \in Intervals
  /\ mine = interval
  /\ credits = 0
  /\ pc = "idle"
  /\ woken = FALSE
  /\ cancelled = FALSE
  /\ allowance = 0
  /\ held \in {"none", "pause"}
  /\ running = (held = "none")

-----------------------------------------------------------------------------
\* Wait returns true: an event is admitted.
Admit ==
  /\ pc' = "idle"
  /\ allowance' = IF running THEN 0 ELSE allowance - 1

\* ... or ctx.Err() == nil was false: the sequencer returns.
Return == IF cancelled THEN pc' = "done" /\ UNCHANGED allowance ELSE Admit

\* The sequencer has admitted an event and calls Wait for it.
Call ==
  /\ pc = "idle"
  /\ pc' = "top"
  /\ UNCHANGED <<running, interval, credits, mine, woken, cancelled, held, allowance>>

\* Variants: a credit taken with none left; a credit not given back.
TakeCreditUnchecked ==
  /\ pc = "top"
  /\ credits' = credits - 1
  /\ Return
  /\ UNCHANGED <<running, interval, mine, woken, cancelled, held>>
TakeCreditKept ==
  /\ pc = "top"
  /\ credits > 0
  /\ Return
  /\ UNCHANGED <<running, interval, credits, mine, woken, cancelled, held>>

\* The locked section found a credit.
TakeCredit ==
  /\ pc = "top"
  /\ credits > 0
  /\ credits' = credits - 1
  /\ Return
  /\ UNCHANGED <<running, interval, mine, woken, cancelled, held>>

\* Variant: an interval of 0 runs flat out even while held.
LookHasty ==
  /\ pc = "top"
  /\ credits = 0
  /\ mine' = interval
  /\ woken' = FALSE
  /\ \/ interval = 0 /\ pc' = "flat"
     \/ interval # 0 /\ ~running /\ pc' = "paused"
     \/ interval # 0 /\ running /\ pc' = "timing"
  /\ UNCHANGED <<running, interval, credits, cancelled, held, allowance>>

\* The locked section found none: read running, interval and resumed.
Look ==
  /\ pc = "top"
  /\ credits = 0
  /\ mine' = interval
  /\ woken' = FALSE
  /\ \/ ~running /\ pc' = "paused"
     \/ running /\ interval = 0 /\ pc' = "flat"
     \/ running /\ interval # 0 /\ pc' = "timing"
  /\ UNCHANGED <<running, interval, credits, cancelled, held, allowance>>

ReturnFlat ==
  /\ pc = "flat"
  /\ Return
  /\ UNCHANGED <<running, interval, credits, mine, woken, cancelled, held>>

\* timer.C: Wait returns true without looking at the pacer again.
TimerFires ==
  /\ pc = "timing"
  /\ Admit
  /\ UNCHANGED <<running, interval, credits, mine, woken, cancelled, held>>

\* <-resumed, in either select: back to the top of the loop.
Wake ==
  /\ pc \in {"paused", "timing"}
  /\ woken
  /\ pc' = "top"
  /\ UNCHANGED <<running, interval, credits, mine, woken, cancelled, held, allowance>>

\* <-ctx.Done(), in either select.
Abort ==
  /\ pc \in {"paused", "timing"}
  /\ cancelled
  /\ pc' = "done"
  /\ UNCHANGED <<running, interval, credits, mine, woken, cancelled, held, allowance>>

-----------------------------------------------------------------------------
\* Variant: a call that changes the pacer wakes nobody.
WakeNobody == UNCHANGED woken
\* wakeLocked closes the channel; the next locked section reads a new one.
WakeLocked == woken' = TRUE

Pause ==
  /\ running' = FALSE
  /\ IF running THEN held' = "pause" /\ allowance' = credits
     ELSE UNCHANGED <<held, allowance>>
  /\ UNCHANGED <<interval, credits, pc, mine, woken, cancelled>>

Resume ==
  /\ ~running
  /\ running' = TRUE
  /\ WakeLocked
  /\ held' = "none"
  /\ allowance' = 0
  /\ UNCHANGED <<interval, credits, pc, mine, cancelled>>

SetInterval ==
  /\ interval' \in Intervals
  /\ WakeLocked
  /\ UNCHANGED <<running, credits, pc, mine, cancelled, held, allowance>>

Step ==
  /\ credits < MaxCredits
  /\ credits' = credits + 1
  /\ running' = FALSE
  /\ WakeLocked
  /\ IF running THEN held' = "step" /\ allowance' = credits + 1
     ELSE allowance' = allowance + 1 /\ UNCHANGED held
  /\ UNCHANGED <<interval, pc, mine, cancelled>>

Cancel ==
  /\ cancelled' = TRUE
  /\ UNCHANGED <<running, interval, credits, pc, mine, woken, held, allowance>>

Waiter == TakeCredit \/ Look \/ ReturnFlat \/ TimerFires \/ Wake \/ Abort
Next == Call \/ Waiter \/ Pause \/ Resume \/ SetInterval \/ Step \/ Cancel

Spec == Init /\ [][Next]_vars

\* The sequencer's goroutine runs, its timers fire, and it is never out of
\* events for good.
FairSpec == Spec /\ WF_vars(Waiter) /\ WF_vars(Call)

-----------------------------------------------------------------------------
(* A waiter asleep on a channel nobody has closed since has missed nothing: *)
(* while it sleeps out a pause there is no credit and no running pacer, and *)
(* while it sleeps out an interval that interval is still the one set, and  *)
(* no Step is waiting for it (Wait's copy of `resumed` under the lock, and  *)
(* wakeLocked's comment).                                                   *)
NoLostWakeup ==
  /\ pc = "paused" /\ ~woken => ~running /\ credits = 0
  /\ pc = "timing" /\ ~woken => mine = interval /\ credits = 0

(* Holding admission lets at most one event through that no Step asked for: *)
(* the one whose wait was in progress (Pause, Step, Wait's timer case).     *)
AtMostOneOverrun == allowance >= -1

(* A Step that finds admission held admits exactly one event: what is still *)
(* owed is what the credits say, unless one wait was in progress when it    *)
(* was held, and that one is gone (Step, Wait).                             *)
CreditsAreTheAllowance ==
  ~running /\ pc # "done" =>
    \/ allowance = credits
    \/ allowance = credits - 1 /\ pc \notin {"timing", "flat"}

(* Credits are drawn down as long as the sequencer has events to admit,     *)
(* whatever else is called meanwhile (Step, Wait).                          *)
StepsAreHonoured == credits = MaxCredits ~> (credits < MaxCredits \/ cancelled)

(* A waiter that slept through a pause does not sleep on once the pacer     *)
(* runs again (Resume, wakeLocked).                                         *)
ResumeReleases == pc = "paused" /\ running ~> pc # "paused"
=============================================================================
