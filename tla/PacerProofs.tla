---------------------------- MODULE PacerProofs ----------------------------
(***************************************************************************)
(* Proofs about Pacer, for any set of intervals and any bound on credits.  *)
(***************************************************************************)
EXTENDS Pacer, TLAPS

\* The Boolean variables of TypeOK, and the others.
Flags ==
  /\ running \in BOOLEAN
  /\ woken \in BOOLEAN
  /\ cancelled \in BOOLEAN

Data ==
  /\ interval \in Intervals
  /\ credits \in Nat
  /\ pc \in PC
  /\ mine \in Intervals
  /\ held \in {"none", "pause", "step"}
  /\ allowance \in Int

LEMMA TypeSplit == TypeOK <=> Flags /\ Data
BY Zenon DEF TypeOK, Flags, Data

LEMMA FlagsStep == Flags /\ [Next]_vars => Flags'
<1> SUFFICES ASSUME Flags, [Next]_vars PROVE Flags'
  OBVIOUS
<1> USE DEF Flags
<1>1. CASE Call \/ TakeCredit \/ Look \/ ReturnFlat
  BY <1>1, Zenon DEF Call, TakeCredit, Look, ReturnFlat
<1>2. CASE TimerFires \/ Wake \/ Abort
  BY <1>2, Zenon DEF TimerFires, Wake, Abort
<1>3. CASE Pause \/ Resume \/ SetInterval \/ Step \/ Cancel
  BY <1>3, Zenon DEF Pause, Resume, SetInterval, Step, Cancel, WakeLocked
<1>4. CASE UNCHANGED vars
  BY <1>4, Zenon DEF vars
<1> QED
  BY <1>1, <1>2, <1>3, <1>4, Zenon DEF Next, Waiter

LEMMA DataStep == Data /\ [Next]_vars => Data'
<1> SUFFICES ASSUME Data, [Next]_vars PROVE Data'
  OBVIOUS
<1> USE DEF Data, PC
<1>1. CASE Call
  BY <1>1 DEF Call
<1>2. CASE TakeCredit
  BY <1>2 DEF TakeCredit, Return, Admit
<1>3. CASE Look
  BY <1>3 DEF Look
<1>4. CASE ReturnFlat \/ TimerFires
  BY <1>4 DEF ReturnFlat, TimerFires, Return, Admit
<1>5. CASE Wake \/ Abort
  BY <1>5 DEF Wake, Abort
<1>6. CASE Pause \/ Resume
  BY <1>6 DEF Pause, Resume, WakeLocked
<1>7. CASE SetInterval \/ Step \/ Cancel
  BY <1>7 DEF SetInterval, Step, Cancel, WakeLocked
<1>8. CASE UNCHANGED vars
  BY <1>8 DEF vars
<1> QED
  BY <1>1, <1>2, <1>3, <1>4, <1>5, <1>6, <1>7, <1>8 DEF Next, Waiter

(* Every variable of the pacer and of its waiter keeps its type.            *)
THEOREM Typing == Spec => []TypeOK
<1>1. Init => Flags
  BY Zenon DEF Init, Flags
<1>2. Init => Data
  BY DEF Init, Data, PC
<1> QED
  BY <1>1, <1>2, FlagsStep, DataStep, TypeSplit, PTL DEF Spec

(* A waiter asleep on an open channel has missed no Step, no Resume and no  *)
(* change of speed.                                                         *)
THEOREM NoWakeupIsLost == Spec => []NoLostWakeup
<1>1. Init => NoLostWakeup
  BY DEF Init, NoLostWakeup
<1>2. TypeOK /\ NoLostWakeup /\ [Next]_vars => NoLostWakeup'
  <2> SUFFICES ASSUME TypeOK, NoLostWakeup, [Next]_vars PROVE NoLostWakeup'
    OBVIOUS
  <2> USE DEF NoLostWakeup, TypeOK, PC
  <2>1. CASE Call
    BY <2>1 DEF Call
  <2>2. CASE TakeCredit
    BY <2>2 DEF TakeCredit, Return, Admit
  <2>3. CASE Look
    BY <2>3 DEF Look
  <2>4. CASE ReturnFlat \/ TimerFires
    BY <2>4 DEF ReturnFlat, TimerFires, Return, Admit
  <2>5. CASE Wake \/ Abort
    BY <2>5 DEF Wake, Abort
  <2>6. CASE Pause \/ Resume
    BY <2>6 DEF Pause, Resume, WakeLocked
  <2>7. CASE SetInterval \/ Step \/ Cancel
    BY <2>7 DEF SetInterval, Step, Cancel, WakeLocked
  <2>8. CASE UNCHANGED vars
    BY <2>8 DEF vars
  <2> QED
    BY <2>1, <2>2, <2>3, <2>4, <2>5, <2>6, <2>7, <2>8 DEF Next, Waiter
<1> QED
  BY <1>1, <1>2, Typing, PTL DEF Spec

-----------------------------------------------------------------------------
\* What admission still owes while it is held, also after the waiter has gone:
\* never more than one event below what the credits say.
Owed ==
  /\ CreditsAreTheAllowance
  /\ ~running => allowance >= credits - 1
  /\ running => allowance = 0

LEMMA OwedInit == Init => Owed
BY DEF Init, Owed, CreditsAreTheAllowance

LEMMA OwedStep == TypeOK /\ Owed /\ [Next]_vars => Owed'
<1> SUFFICES ASSUME TypeOK, Owed, [Next]_vars PROVE Owed'
  OBVIOUS
<1> USE DEF Owed, CreditsAreTheAllowance, TypeOK, PC
<1>1. CASE Call
  BY <1>1 DEF Call
<1>2. CASE TakeCredit
  BY <1>2 DEF TakeCredit, Return, Admit
<1>3. CASE Look
  BY <1>3 DEF Look
<1>4. CASE ReturnFlat
  BY <1>4 DEF ReturnFlat, Return, Admit
<1>5. CASE TimerFires
  BY <1>5 DEF TimerFires, Admit
<1>6. CASE Wake \/ Abort
  BY <1>6 DEF Wake, Abort
<1>7. CASE Pause \/ Resume
  BY <1>7 DEF Pause, Resume, WakeLocked
<1>8. CASE Step
  BY <1>8 DEF Step, WakeLocked
<1>9. CASE SetInterval \/ Cancel
  BY <1>9 DEF SetInterval, Cancel, WakeLocked
<1>10. CASE UNCHANGED vars
  BY <1>10 DEF vars
<1> QED
  BY <1>1, <1>2, <1>3, <1>4, <1>5, <1>6, <1>7, <1>8, <1>9, <1>10 DEF Next, Waiter

(* While admission is held, what it still owes is its credits, or one less  *)
(* when a wait was in progress at the moment it was held.                   *)
THEOREM CreditsAccount == Spec => []CreditsAreTheAllowance
<1>1. Owed => CreditsAreTheAllowance
  BY DEF Owed
<1> QED
  BY <1>1, OwedInit, OwedStep, Typing, PTL DEF Spec

(* Holding admission, by Pause or by Step, lets at most one event through   *)
(* that no Step asked for.                                                  *)
THEOREM OneOverrunAtMost == Spec => []AtMostOneOverrun
<1>1. TypeOK /\ Owed => AtMostOneOverrun
  BY DEF TypeOK, Owed, AtMostOneOverrun
<1> QED
  BY <1>1, OwedInit, OwedStep, Typing, PTL DEF Spec
=============================================================================
