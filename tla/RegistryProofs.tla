--------------------------- MODULE RegistryProofs ---------------------------
(***************************************************************************)
(* Proofs about Registry, for any number of sessions, handlers and stuck   *)
(* tournaments, and any cap.                                               *)
(***************************************************************************)
EXTENDS Registry, FiniteSetTheorems, TLAPS

-----------------------------------------------------------------------------
\* Where the entries are.  Only a session whose creation has ended in its
\* registration can be in the map, over or finished.
Places ==
  /\ creation \in [Session -> CreationPc]
  /\ sessions \subseteq Registered
  /\ over \subseteq Registered
  /\ finished \subseteq over
  /\ released = (Registered \ sessions) \cup finished

LEMMA PlacesInit == Init => Places
BY DEF Init, Places, CreationPc, Registered

\* What a locked section takes out of the map is released from then on.
LEMMA TakeOutPlaces ==
  ASSUME Places, NEW w \in Worker, NEW S, S \subseteq sessions, TakeOut(w, S),
         UNCHANGED <<creation, over, finished>>
  PROVE  Places'
BY DEF Places, TakeOut, Release, Registered

LEMMA PlacesStep == Places /\ [Next]_vars => Places'
<1> SUFFICES ASSUME Places, [Next]_vars PROVE Places'
  OBVIOUS
<1>1. CASE UNCHANGED <<creation, sessions, over, finished, released>>
  BY <1>1 DEF Places, Registered
<1>2. ASSUME NEW s \in Session,
             Reserve(s) \/ Generate(s) \/ GenerateFails(s) \/ StartSession(s)
      PROVE  Places'
  <2>1. /\ creation' \in [Session -> CreationPc]
        /\ Registered' = Registered
        /\ UNCHANGED <<sessions, over, finished, released>>
    BY <1>2 DEF Reserve, Generate, GenerateFails, StartSession, Places, CreationPc, Registered
  <2> QED
    BY <2>1 DEF Places
<1>3. ASSUME NEW s \in Session, Register(s) PROVE Places'
  <2>1. creation' \in [Session -> CreationPc] /\ Registered' = Registered \cup {s} /\ s \notin Registered
    BY <1>3 DEF Register, Places, CreationPc, Registered
  <2>2. sessions' = sessions \cup {s} /\ UNCHANGED <<over, finished, released>>
    BY <1>3 DEF Register
  <2> QED
    BY <2>1, <2>2 DEF Places
<1>4. ASSUME NEW s \in Session, Ends(s) \/ Watch(s) PROVE Places'
  BY <1>4 DEF Ends, Watch, Release, Places, Registered
<1>5. ASSUME NEW s \in Session, Touch(s) \/ GoesStale(s) \/ GrowsOld(s) PROVE Places'
  BY <1>5, <1>1 DEF Touch, GoesStale, GrowsOld
<1>6. ASSUME NEW w \in Deleter, NEW s \in Session, StopSection(w, s) PROVE Places'
  BY <1>6, TakeOutPlaces DEF StopSection, Worker
<1>7. CASE EvictStep
  BY <1>7, <1>1, TakeOutPlaces DEF EvictStep, EvictReads, EvictSection, Expired, Worker
<1>8. CASE StopAllSection
  BY <1>8, TakeOutPlaces DEF StopAllSection, Worker
<1>9. ASSUME NEW w \in Worker, StopStep(w) PROVE Places'
  BY <1>9, <1>1 DEF StopStep, Cancel, StopReturns
<1> QED
  BY <1>1, <1>2, <1>3, <1>4, <1>5, <1>6, <1>7, <1>8, <1>9 DEF Next, CreateStep, vars

-----------------------------------------------------------------------------
\* What is counted is what holds a reservation, and never more than the cap.
Held == sessions \ finished
CountIsHeld == running = Cardinality(Creating) + Cardinality(Held)
Capped == MaxSessions > 0 => running <= MaxSessions
Counts == CountIsHeld /\ Capped

\* Everything counted is finite.
LEMMA Finite ==
  ASSUME NEW S, S \subseteq Session
  PROVE  IsFiniteSet(S) /\ Cardinality(S) \in Nat
BY FS_Subset, FS_CardinalityType, RegistryAssumption

LEMMA AddOne ==
  ASSUME NEW S, S \subseteq Session, NEW s \in Session, s \notin S
  PROVE  Cardinality(S \cup {s}) = Cardinality(S) + 1
BY Finite, FS_AddElement

LEMMA RemoveOne ==
  ASSUME NEW S, S \subseteq Session, NEW s \in S
  PROVE  Cardinality(S \ {s}) = Cardinality(S) - 1
BY Finite, FS_RemoveElement

\* The reservations given back at once are those of the set that are still held.
LEMMA ReleaseCounts ==
  ASSUME Places, Counts, NEW S, S \subseteq sessions, Release(S), Creating' = Creating,
         Held' = Held \ S
  PROVE  Counts'
<1>1. S \ released = Held \cap S
  BY DEF Places, Held
<1>2. Held \subseteq Session /\ Creating \subseteq Session
  BY DEF Places, Held, Registered, Creating
<1>3. Cardinality(Held \ S) = Cardinality(Held) - Cardinality(Held \cap S)
  BY <1>2, Finite, FS_Difference
<1>4. /\ Cardinality(Held) \in Nat /\ Cardinality(Creating) \in Nat
      /\ Cardinality(Held \cap S) \in Nat
  BY <1>2, Finite
<1>5. running' = running - Cardinality(Held \cap S)
  BY <1>1 DEF Release
<1>6. CountIsHeld'
  BY <1>3, <1>4, <1>5 DEF Counts, CountIsHeld
<1>7. Capped'
  BY <1>4, <1>5, RegistryAssumption DEF Counts, CountIsHeld, Capped
<1> QED
  BY <1>6, <1>7 DEF Counts

LEMMA TakeOutCounts ==
  ASSUME Places, Counts, NEW w \in Worker, NEW S, S \subseteq sessions, TakeOut(w, S),
         UNCHANGED <<creation, finished>>
  PROVE  Counts'
<1>1. Release(S) /\ Creating' = Creating /\ Held' = Held \ S
  BY DEF TakeOut, Creating, Held
<1> QED
  BY <1>1, ReleaseCounts

LEMMA CountsInit == Init => Counts
<1> SUFFICES ASSUME Init PROVE Counts
  OBVIOUS
<1>1. Creating = {} /\ Held = {} /\ running = 0
  BY DEF Init, Creating, Held
<1> QED
  BY <1>1, FS_EmptySet, RegistryAssumption DEF Counts, CountIsHeld, Capped

LEMMA CountsStep == Places /\ Counts /\ [Next]_vars => Counts'
<1> SUFFICES ASSUME Places, Counts, [Next]_vars PROVE Counts'
  OBVIOUS
<1>a. Held \subseteq Session /\ Creating \subseteq Session
  BY DEF Places, Held, Registered, Creating
<1>b. Cardinality(Held) \in Nat /\ Cardinality(Creating) \in Nat /\ MaxSessions \in Nat
  BY <1>a, Finite, RegistryAssumption
<1>1. CASE Creating' = Creating /\ UNCHANGED <<running, sessions, finished>>
  BY <1>1 DEF Counts, CountIsHeld, Capped, Held
<1>2. ASSUME NEW s \in Session, Reserve(s) PROVE Counts'
  <2>1. Creating' = Creating \cup {s} /\ s \notin Creating
    BY <1>2 DEF Reserve, Creating, Places
  <2>2. Cardinality(Creating') = Cardinality(Creating) + 1
    BY <2>1, <1>a, AddOne
  <2>3. Held' = Held /\ running' = running + 1 /\ HasRoom
    BY <1>2 DEF Reserve, Held
  <2> QED
    BY <2>2, <2>3, <1>b DEF Counts, CountIsHeld, Capped, HasRoom
<1>3. ASSUME NEW s \in Session, Generate(s) \/ StartSession(s) PROVE Counts'
  <2>1. Creating' = Creating /\ UNCHANGED <<running, sessions, finished>>
    BY <1>3 DEF Generate, StartSession, Creating, Places
  <2> QED
    BY <2>1, <1>1
<1>4. ASSUME NEW s \in Session, GenerateFails(s) PROVE Counts'
  <2>1. s \in Creating /\ Creating' = Creating \ {s}
    BY <1>4 DEF GenerateFails, Creating, Places
  <2>2. Cardinality(Creating') = Cardinality(Creating) - 1
    BY <2>1, <1>a, RemoveOne
  <2>3. Held' = Held /\ running' = running - 1
    BY <1>4 DEF GenerateFails, GivenBack, Held
  <2> QED
    BY <2>2, <2>3, <1>b DEF Counts, CountIsHeld, Capped
<1>5. ASSUME NEW s \in Session, Register(s) PROVE Counts'
  <2>1. s \in Creating /\ Creating' = Creating \ {s}
    BY <1>5 DEF Register, Creating, Places
  <2>2. Held' = Held \cup {s} /\ s \notin Held
    BY <1>5 DEF Register, Held, Places, Registered
  <2>3. Cardinality(Creating') = Cardinality(Creating) - 1
    BY <2>1, <1>a, RemoveOne
  <2>4. Cardinality(Held') = Cardinality(Held) + 1
    BY <2>2, <1>a, AddOne
  <2>5. running' = running
    BY <1>5 DEF Register
  <2> QED
    BY <2>3, <2>4, <2>5, <1>b DEF Counts, CountIsHeld, Capped
<1>6. ASSUME NEW s \in Session, Watch(s) PROVE Counts'
  <2>1. Creating' = Creating /\ Held' = Held \ {s} /\ Release({s})
    BY <1>6 DEF Watch, Creating, Held
  <2>2. CASE s \in sessions
    BY <2>1, <2>2, ReleaseCounts
  <2>3. CASE s \notin sessions
    <3>1. {s} \ released = {} /\ Held' = Held
      BY <1>6, <2>1, <2>3 DEF Watch, Places, Registered, Held
    <3>2. Cardinality({s} \ released) = 0
      BY <3>1, FS_EmptySet
    <3>3. running' = running
      BY <3>2, <2>1, <1>b DEF Release, Counts, CountIsHeld
    <3> QED
      BY <2>1, <3>1, <3>3 DEF Counts, CountIsHeld, Capped
  <2> QED
    BY <2>2, <2>3
<1>7. ASSUME NEW s \in Session, Ends(s) \/ Touch(s) \/ GoesStale(s) \/ GrowsOld(s) PROVE Counts'
  BY <1>7, <1>1 DEF Ends, Touch, GoesStale, GrowsOld, Creating
<1>8. ASSUME NEW w \in Deleter, NEW s \in Session, StopSection(w, s) PROVE Counts'
  BY <1>8, TakeOutCounts DEF StopSection, Worker
<1>9. CASE EvictStep
  BY <1>9, <1>1, TakeOutCounts DEF EvictStep, EvictReads, EvictSection, Expired, Worker, Creating
<1>10. CASE StopAllSection
  BY <1>10, TakeOutCounts DEF StopAllSection, Worker
<1>11. ASSUME NEW w \in Worker, StopStep(w) PROVE Counts'
  BY <1>11, <1>1 DEF StopStep, Cancel, StopReturns, Creating
<1>12. CASE UNCHANGED vars
  BY <1>12, <1>1 DEF vars, Creating
<1> QED
  BY <1>2, <1>3, <1>4, <1>5, <1>6, <1>7, <1>8, <1>9, <1>10, <1>11, <1>12 DEF Next, CreateStep

-----------------------------------------------------------------------------
\* What the reading of the clock says of an entry in the map is still true of it:
\* a session registered since is not in the reading, one touched since is out of it.
Ages ==
  /\ stale \subseteq sessions /\ old \subseteq sessions
  /\ clock \in [read : BOOLEAN, stale : SUBSET Session, old : SUBSET Session]
  /\ clock.stale \cup clock.old \subseteq Registered
  /\ sessions \cap clock.stale \subseteq stale
  /\ sessions \cap clock.old \subseteq old

ClockType == [read : BOOLEAN, stale : SUBSET Session, old : SUBSET Session]

LEMMA NoClockType == NoClock \in ClockType
BY DEF NoClock, ClockType

LEMMA AgesInit == Init => Ages
<1> SUFFICES ASSUME Init PROVE Ages
  OBVIOUS
<1>1. clock \in ClockType
  BY NoClockType DEF Init
<1>2. clock.stale = {} /\ clock.old = {}
  BY DEF Init, NoClock
<1> QED
  BY <1>1, <1>2 DEF Init, Ages, ClockType

LEMMA TakeOutAges ==
  ASSUME Ages, NEW w \in Worker, NEW S, TakeOut(w, S), UNCHANGED creation,
         clock' = clock \/ clock' = NoClock
  PROVE  Ages'
<1>1. clock' \in ClockType
  BY NoClockType, Zenon DEF Ages, ClockType
<1>2. clock'.stale \subseteq clock.stale /\ clock'.old \subseteq clock.old
  BY DEF NoClock
<1>3. Registered' = Registered
  BY DEF Registered
<1>4. sessions' = sessions \ S /\ stale' = stale \ S /\ old' = old \ S
  BY DEF TakeOut
<1> QED
  BY <1>1, <1>2, <1>3, <1>4 DEF Ages, ClockType

LEMMA AgesStep == Places /\ Ages /\ [Next]_vars => Ages'
<1> SUFFICES ASSUME Places, Ages, [Next]_vars PROVE Ages'
  OBVIOUS
<1>1. CASE Registered' = Registered /\ UNCHANGED <<sessions, stale, old, clock>>
  BY <1>1 DEF Ages
<1>2. ASSUME NEW s \in Session,
             Reserve(s) \/ Generate(s) \/ GenerateFails(s) \/ StartSession(s)
      PROVE  Ages'
  <2>1. Registered' = Registered
    BY <1>2 DEF Reserve, Generate, GenerateFails, StartSession, Places, Registered
  <2> QED
    BY <2>1, <1>1, <1>2 DEF Reserve, Generate, GenerateFails, StartSession, ageVars
<1>3. ASSUME NEW s \in Session, Register(s) PROVE Ages'
  <2>1. Registered' = Registered \cup {s} /\ s \notin Registered
    BY <1>3 DEF Register, Places, CreationPc, Registered
  <2>2. sessions' = sessions \cup {s} /\ UNCHANGED <<stale, old, clock>>
    BY <1>3 DEF Register, ageVars
  <2> QED
    BY <2>1, <2>2 DEF Ages
<1>4. ASSUME NEW s \in Session, Ends(s) \/ Watch(s) PROVE Ages'
  BY <1>4, <1>1 DEF Ends, Watch, Registered, ageVars
<1>5. ASSUME NEW s \in Session, Touch(s) PROVE Ages'
  <2>1. clock' \in [read : BOOLEAN, stale : SUBSET Session, old : SUBSET Session]
    BY <1>5 DEF Touch, Outdates, Ages
  <2>2. clock'.stale = clock.stale \ {s} /\ clock'.old = clock.old
    BY <1>5 DEF Touch, Outdates, Ages
  <2>3. stale' = stale \ {s} /\ UNCHANGED <<sessions, old, creation>>
    BY <1>5 DEF Touch
  <2> QED
    BY <2>1, <2>2, <2>3 DEF Ages, Registered
<1>6. ASSUME NEW s \in Session, GoesStale(s) \/ GrowsOld(s) PROVE Ages'
  BY <1>6 DEF GoesStale, GrowsOld, Ages, Registered
<1>7. ASSUME NEW w \in Deleter, NEW s \in Session, StopSection(w, s) PROVE Ages'
  BY <1>7, TakeOutAges DEF StopSection, Worker
<1>8. CASE EvictReads
  <2>1. stale \in SUBSET Session /\ old \in SUBSET Session
    BY DEF Ages, Places, Registered
  <2>2. clock' \in [read : BOOLEAN, stale : SUBSET Session, old : SUBSET Session]
    BY <1>8, <2>1 DEF EvictReads
  <2>3. clock'.stale = stale /\ clock'.old = old
    BY <1>8 DEF EvictReads
  <2>4. UNCHANGED <<sessions, stale, old, creation>>
    BY <1>8 DEF EvictReads
  <2> QED
    BY <2>2, <2>3, <2>4 DEF Ages, Places, Registered
<1>9. CASE EvictSection
  BY <1>9, TakeOutAges DEF EvictSection, Worker
<1>10. CASE StopAllSection
  BY <1>10, TakeOutAges DEF StopAllSection, Worker
<1>11. ASSUME NEW w \in Worker, StopStep(w) PROVE Ages'
  BY <1>11, <1>1 DEF StopStep, Cancel, StopReturns, Registered, ageVars
<1>12. CASE UNCHANGED vars
  BY <1>12, <1>1 DEF vars, Registered
<1> QED
  BY <1>2, <1>3, <1>4, <1>5, <1>6, <1>7, <1>8, <1>9, <1>10, <1>11, <1>12
  DEF Next, CreateStep, EvictStep

-----------------------------------------------------------------------------
\* A worker takes an entry off its list only once it has cancelled it.
Lists ==
  /\ work \in [Worker -> SUBSET Session]
  /\ stopping \in [Worker -> Session \cup {None}]
  /\ cancelled \subseteq Session
  /\ \A w \in Worker : stopping[w] # None => stopping[w] \in cancelled
  /\ NothingRunsUnseen

Listed == UNION {work[w] : w \in Worker}

LEMMA ListsInit == Init => Lists
BY DEF Init, Lists, NothingRunsUnseen, Playing

\* The lists only grow when a worker that has finished its own takes entries out.
LEMMA TakeOutLists ==
  ASSUME Places, Lists, NEW w \in Worker, NEW S, S \subseteq sessions, TakeOut(w, S),
         UNCHANGED <<creation, over, cancelled, stopping>>
  PROVE  Lists'
<1>1. S \subseteq Session
  BY DEF Places, Registered
<1>2. work' \in [Worker -> SUBSET Session]
  BY <1>1 DEF TakeOut, Lists
<1>3. sessions' = sessions \ S /\ Playing' = Playing /\ Creating' = Creating
  BY DEF TakeOut, Playing, Creating
<1>4. \A v \in Worker : work[v] \subseteq work'[v]
  BY DEF TakeOut, Lists
<1>5. S \subseteq work'[w]
  BY DEF TakeOut, Lists
<1>6. NothingRunsUnseen'
  <2> SUFFICES ASSUME NEW s \in Playing'
               PROVE s \in (sessions \cup Creating \cup cancelled \cup Listed)'
    BY DEF NothingRunsUnseen, Listed
  <2>1. s \in sessions \/ s \in Creating \/ s \in cancelled \/ \E v \in Worker : s \in work[v]
    BY <1>3 DEF Lists, NothingRunsUnseen
  <2> QED
    BY <2>1, <1>3, <1>4, <1>5 DEF Listed
<1> QED
  BY <1>2, <1>6 DEF Lists

LEMMA ListsStep == Places /\ Lists /\ [Next]_vars => Lists'
<1> SUFFICES ASSUME Places, Lists, [Next]_vars PROVE Lists'
  OBVIOUS
<1>1. CASE /\ UNCHANGED <<work, stopping, cancelled>>
           /\ sessions \subseteq sessions'
           /\ Playing' \subseteq Playing \cup Creating'
           /\ Creating \subseteq Creating' \cup sessions' \cup (Session \ Playing')
  <2>1. NothingRunsUnseen'
    BY <1>1 DEF Lists, NothingRunsUnseen
  <2> QED
    BY <1>1, <2>1 DEF Lists
<1>2. ASSUME NEW s \in Session,
             CreateStep(s) \/ Ends(s) \/ Watch(s) \/ Touch(s) \/ GoesStale(s) \/ GrowsOld(s)
      PROVE  Lists'
  <2>1. UNCHANGED <<work, stopping, cancelled>> /\ sessions \subseteq sessions'
    BY <1>2 DEF CreateStep, Reserve, Generate, GenerateFails, StartSession, Register, Ends,
                Watch, Touch, GoesStale, GrowsOld, workVars
  <2>2. CASE CreateStep(s)
    <3>1. over' = over /\ creation \in [Session -> CreationPc]
      BY <2>2 DEF CreateStep, Reserve, Generate, GenerateFails, StartSession, Register, Places
    <3>2. CASE Reserve(s) \/ Generate(s) \/ StartSession(s)
      <4>1. Creating \subseteq Creating' /\ Playing' \subseteq Playing \cup Creating'
        BY <3>1, <3>2 DEF Reserve, Generate, StartSession, Creating, Playing
      <4> QED
        BY <4>1, <2>1, <1>1
    <3>3. CASE GenerateFails(s)
      <4>1. Playing' \subseteq Playing /\ Creating \subseteq Creating' \cup (Session \ Playing')
        BY <3>1, <3>3 DEF GenerateFails, Creating, Playing
      <4> QED
        BY <4>1, <2>1, <1>1
    <3>4. CASE Register(s)
      <4>1. Playing' \subseteq Playing /\ Creating \subseteq Creating' \cup sessions'
        BY <3>1, <3>4 DEF Register, Creating, Playing
      <4> QED
        BY <4>1, <2>1, <1>1
    <3> QED
      BY <2>2, <3>2, <3>3, <3>4 DEF CreateStep
  <2>3. CASE Ends(s) \/ Watch(s) \/ Touch(s) \/ GoesStale(s) \/ GrowsOld(s)
    <3>1. Creating' = Creating /\ Playing' \subseteq Playing
      BY <2>3 DEF Ends, Watch, Touch, GoesStale, GrowsOld, Creating, Playing
    <3> QED
      BY <3>1, <2>1, <1>1
  <2> QED
    BY <1>2, <2>2, <2>3
<1>3. ASSUME NEW w \in Deleter, NEW s \in Session, StopSection(w, s) PROVE Lists'
  BY <1>3, TakeOutLists DEF StopSection, Worker
<1>4. CASE EvictStep
  <2>1. CASE EvictReads
    BY <2>1, <1>1 DEF EvictReads, workVars, Creating, Playing
  <2>2. CASE EvictSection
    BY <2>2, TakeOutLists DEF EvictSection, Expired, Worker
  <2> QED
    BY <1>4, <2>1, <2>2 DEF EvictStep
<1>5. CASE StopAllSection
  BY <1>5, TakeOutLists DEF StopAllSection, Worker
<1>6. ASSUME NEW w \in Worker, NEW s \in Session, Cancel(w, s) PROVE Lists'
  <2>1. /\ cancelled' = cancelled \cup {s}
        /\ stopping' = [stopping EXCEPT ![w] = s]
        /\ UNCHANGED <<work, sessions, creation, over>>
    BY <1>6 DEF Cancel
  <2>2. NothingRunsUnseen'
    BY <2>1 DEF Lists, NothingRunsUnseen, Playing, Creating
  <2> QED
    BY <2>1, <2>2 DEF Lists
<1>7. ASSUME NEW w \in Worker, StopReturns(w) PROVE Lists'
  <2>1. /\ stopping[w] \in cancelled
        /\ work' = [work EXCEPT ![w] = work[w] \ {stopping[w]}]
        /\ stopping' = [stopping EXCEPT ![w] = None]
        /\ UNCHANGED <<cancelled, sessions, creation, over>>
    BY <1>7 DEF StopReturns, Rest, Lists
  <2>2. \A v \in Worker : work[v] \subseteq work'[v] \cup cancelled'
    BY <2>1 DEF Lists
  <2>3. NothingRunsUnseen'
    <3> SUFFICES ASSUME NEW s \in Playing'
                 PROVE s \in (sessions \cup Creating \cup cancelled \cup Listed)'
      BY DEF NothingRunsUnseen, Listed
    <3>1. s \in sessions \/ s \in Creating \/ s \in cancelled \/ \E v \in Worker : s \in work[v]
      BY <2>1 DEF Lists, NothingRunsUnseen, Playing
    <3> QED
      BY <3>1, <2>1, <2>2 DEF Listed, Creating
  <2> QED
    BY <2>1, <2>3 DEF Lists
<1>8. CASE UNCHANGED vars
  BY <1>8, <1>1 DEF vars, Creating, Playing
<1> QED
  BY <1>2, <1>3, <1>4, <1>5, <1>6, <1>7, <1>8 DEF Next, StopStep

-----------------------------------------------------------------------------
\* The two flags, for which Zenon is enough.
Flags == cached \in BOOLEAN /\ exiting \in BOOLEAN

LEMMA FlagsStep == Flags /\ [Next]_vars => Flags'
<1> SUFFICES ASSUME Flags, [Next]_vars PROVE Flags'
  OBVIOUS
<1>1. (cached' = cached \/ cached' = TRUE) /\ (exiting' = exiting \/ exiting' = TRUE)
  BY Zenon DEF Next, CreateStep, Reserve, Generate, GenerateFails, StartSession, Register, Ends,
     Watch, Touch, GoesStale, GrowsOld, StopSection, EvictStep, EvictReads, EvictSection,
     StopAllSection, StopStep, Cancel, StopReturns, workVars, vars
<1> QED
  BY <1>1, Zenon DEF Flags

RegistryInv == Places /\ Counts /\ Ages /\ Lists /\ Flags

LEMMA RegistryInvariant == Spec => []RegistryInv
<1>1. Init => RegistryInv
  <2>1. Init => Flags
    BY Zenon DEF Init, Flags
  <2> QED
    BY <2>1, PlacesInit, CountsInit, AgesInit, ListsInit DEF RegistryInv
<1>2. RegistryInv /\ [Next]_vars => RegistryInv'
  BY PlacesStep, CountsStep, AgesStep, ListsStep, FlagsStep, Zenon DEF RegistryInv
<1> QED
  BY <1>1, <1>2, PTL DEF Spec

-----------------------------------------------------------------------------
(* For any number of sessions and workers, every reservation is given back  *)
(* exactly once, whoever comes first: the watcher, a DELETE, an eviction,   *)
(* the shutdown or a failed creation (registry.go running, releaseLocked).  *)
THEOREM EveryReservationAddsUp == Spec => []ReservationsAddUp
<1>1. RegistryInv => ReservationsAddUp
  <2> SUFFICES ASSUME RegistryInv PROVE ReservationsAddUp
    OBVIOUS
  <2>1. \A S \in {sessions, released, finished, over, cancelled, stale, old} : S \subseteq Session
    BY DEF RegistryInv, Places, Ages, Lists, Registered
  <2>2. Creating \subseteq Session /\ Held \subseteq Session
    BY <2>1 DEF Creating, Held
  <2>3. running \in Int
    BY <2>2, Finite DEF RegistryInv, Counts, CountIsHeld
  <2>4. TypeOK
    BY <2>1, <2>3, Zenon DEF RegistryInv, TypeOK, Places, Ages, Lists, Flags
  <2>5. running = Cardinality(Creating) + Cardinality(sessions \ finished)
    BY DEF RegistryInv, Counts, CountIsHeld, Held
  <2>6. released = (Registered \ sessions) \cup finished
    BY DEF RegistryInv, Places
  <2> QED
    BY <2>4, <2>5, <2>6 DEF ReservationsAddUp
<1> QED
  BY <1>1, RegistryInvariant, PTL

(* For any cap and any burst of creations, no more tournaments play among   *)
(* the sessions created or registered than the cap allows (registry.go      *)
(* MaxSessions).                                                            *)
THEOREM TheCapHolds == Spec => []CapHolds
<1>1. RegistryInv => CapHolds
  <2> SUFFICES ASSUME RegistryInv, MaxSessions > 0
               PROVE Cardinality({s \in Playing : s \in sessions \cup Creating}) <= MaxSessions
    BY DEF CapHolds
  <2> DEFINE P == {s \in Playing : s \in sessions \cup Creating}
  <2>1. Creating \subseteq Session /\ Held \subseteq Session
    BY DEF RegistryInv, Places, Registered, Creating, Held
  <2>2. P \subseteq Creating \cup Held
    BY DEF RegistryInv, Places, Playing, Held
  <2>3. /\ IsFiniteSet(Creating) /\ IsFiniteSet(Held) /\ IsFiniteSet(Creating \cup Held)
        /\ Cardinality(Creating) \in Nat /\ Cardinality(Held) \in Nat
        /\ Cardinality(Creating \cap Held) \in Nat
    BY <2>1, Finite
  <2>4. Cardinality(P) <= Cardinality(Creating \cup Held) /\ Cardinality(P) \in Nat
    BY <2>2, <2>3, FS_Subset, FS_CardinalityType
  <2>5. Cardinality(Creating \cup Held) =
          Cardinality(Creating) + Cardinality(Held) - Cardinality(Creating \cap Held)
    BY <2>3, FS_Union
  <2>6. Cardinality(Creating) + Cardinality(Held) <= MaxSessions
    BY DEF RegistryInv, Counts, CountIsHeld, Capped
  <2> QED
    BY <2>3, <2>4, <2>5, <2>6, RegistryAssumption
<1> QED
  BY <1>1, RegistryInvariant, PTL

(* For any interleaving of requests, evictions and the shutdown, no         *)
(* tournament is left running that nobody can find and nobody will stop     *)
(* (registry.go Create, Stop, Evict, StopAll).                              *)
THEOREM NothingIsLeftRunning == Spec => []NothingRunsUnseen
<1>1. RegistryInv => NothingRunsUnseen
  BY DEF RegistryInv, Lists
<1> QED
  BY <1>1, RegistryInvariant, PTL

(* Whatever happens between the reading of the clock and the lock, Evict    *)
(* takes out no session that is not idle or too old when it takes it out    *)
(* (registry.go Evict, Touch).                                              *)
THEOREM WatchedSessionsStay == Spec => WatchedStays
<1>1. RegistryInv /\ [Next]_vars =>
        [\A s \in sessions \ sessions' :
           s \in work'[Reclaimer] \ work[Reclaimer] => s \in stale \cup old]_vars
  <2> SUFFICES ASSUME RegistryInv, [Next]_vars,
                      NEW s \in sessions \ sessions', s \in work'[Reclaimer] \ work[Reclaimer]
               PROVE  s \in stale \cup old
    OBVIOUS
  <2>1. CASE EvictSection
    <3>1. work'[Reclaimer] = sessions \cap (clock.stale \cup clock.old)
      BY <2>1 DEF EvictSection, TakeOut, Expired, RegistryInv, Lists, Worker
    <3> QED
      BY <3>1 DEF RegistryInv, Ages
  <2>2. ASSUME NEW w \in Deleter, NEW t \in Session, StopSection(w, t) PROVE FALSE
    <3>1. w # Reclaimer
      BY RegistryAssumption
    <3> QED
      BY <2>2, <3>1 DEF StopSection, TakeOut, RegistryInv, Lists, Worker
  <2>3. CASE StopAllSection
    <3>1. Exit # Reclaimer
      BY RegistryAssumption
    <3> QED
      BY <2>3, <3>1 DEF StopAllSection, TakeOut, RegistryInv, Lists, Worker
  <2>4. CASE UNCHANGED work
    BY <2>4
  <2>5. ASSUME NEW w \in Worker, StopStep(w) PROVE FALSE
    BY <2>5 DEF StopStep, Cancel, StopReturns
  <2> QED
    BY <2>1, <2>2, <2>3, <2>4, <2>5
    DEF Next, CreateStep, Reserve, Generate, GenerateFails, StartSession, Register, Ends, Watch,
        Touch, GoesStale, GrowsOld, EvictStep, EvictReads, workVars, vars
<1> QED
  BY <1>1, RegistryInvariant, PTL DEF Spec, WatchedStays
=============================================================================
