------------------------------ MODULE Registry ------------------------------
(***************************************************************************)
(* The registry of live sessions (src/internal/session/registry.go) under  *)
(* the requests of the web server and the loop that reclaims idle sessions *)
(* (src/cmd/server/main.go).  r.mu is held only in sections that never     *)
(* block, so each section is one step and the lock needs no variable.      *)
(*                                                                         *)
(* Time is abstracted to what Evict compares: whether a session has gone   *)
(* untouched for `idle`, and whether it has lived for `maxAge`.            *)
(***************************************************************************)
EXTENDS Integers, FiniteSets

CONSTANTS
  Session,      \* one per call of Create that may succeed
  Stuck,        \* sessions whose tournament may ignore its context
  MaxSessions,  \* the cap; 0 for none
  Bounded,      \* stopTimeout > 0
  Deleter,      \* handlers of DELETE requests
  Reclaimer,    \* the goroutine of reclaim
  Exit,         \* main's deferred StopAll
  None

ASSUME RegistryAssumption ==
  /\ Stuck \subseteq Session
  /\ MaxSessions \in Nat
  /\ Bounded \in BOOLEAN
  /\ None \notin Session
  /\ Reclaimer \notin Deleter /\ Exit \notin Deleter \cup {Reclaimer}
  /\ IsFiniteSet(Session)

Worker == Deleter \cup {Reclaimer, Exit}

VARIABLES
  running,     \* r.running
  cached,      \* r.canonical holds the reference
  creation,    \* where Create is, for each session
  sessions,    \* r.sessions
  released,    \* entries whose reservation has been given back
  finished,    \* entries whose watcher has recorded the result
  over,        \* sessions whose goroutines are gone
  cancelled,   \* sessions whose context is cancelled
  stale, old,  \* untouched for idle; alive for maxAge
  clock,       \* the `now` of an Evict under way
  exiting,     \* the server is shutting down
  work,        \* entries each worker has taken out and is stopping
  stopping     \* the one of them each worker waits for

ageVars == <<stale, old, clock>>
workVars == <<work, stopping, exiting>>
vars == <<running, cached, creation, sessions, released, finished, over,
          cancelled, stale, old, clock, exiting, work, stopping>>

CreationPc == {"none", "reserved", "generating", "started", "registered"}

\* An Evict that has not read the clock; one that has: what that reading makes
\* of the entries it will find, as their times then stand.
NoClock == [read |-> FALSE, stale |-> {}, old |-> {}]

TypeOK ==
  /\ running \in Int
  /\ cached \in BOOLEAN /\ exiting \in BOOLEAN
  /\ creation \in [Session -> CreationPc]
  /\ \A S \in {sessions, released, finished, over, cancelled, stale, old} : S \subseteq Session
  /\ clock \in [read : BOOLEAN, stale : SUBSET Session, old : SUBSET Session]
  /\ work \in [Worker -> SUBSET Session]
  /\ stopping \in [Worker -> Session \cup {None}]

\* The server calls Prepare before it serves; the registry does not require it.
Init ==
  /\ running = 0
  /\ cached \in BOOLEAN
  /\ creation = [s \in Session |-> "none"]
  /\ sessions = {} /\ released = {} /\ finished = {} /\ over = {} /\ cancelled = {}
  /\ stale = {} /\ old = {} /\ clock = NoClock
  /\ exiting = FALSE
  /\ work = [w \in Worker |-> {}]
  /\ stopping = [w \in Worker |-> None]

-----------------------------------------------------------------------------
\* Create.

\* Variant: checks, and counts only what is registered.
HasRoomUncounted == MaxSessions = 0 \/ Cardinality(sessions) < MaxSessions
HasRoom == MaxSessions = 0 \/ running < MaxSessions

\* A full registry answers ErrTooManySessions and changes nothing.
Reserve(s) ==
  /\ creation[s] = "none"
  /\ HasRoom
  /\ running' = running + 1
  /\ creation' = [creation EXCEPT ![s] = "reserved"]
  /\ UNCHANGED <<cached, sessions, released, finished, over, cancelled, ageVars, workVars>>

\* reference finds nothing cached and runs the tournament; several may.
Generate(s) ==
  /\ creation[s] = "reserved"
  /\ ~cached
  /\ creation' = [creation EXCEPT ![s] = "generating"]
  /\ UNCHANGED <<running, cached, sessions, released, finished, over, cancelled, ageVars, workVars>>

\* Variant: an early return that forgets its reservation.
GivenBackNever == running' = running
GivenBack == running' = running - 1

\* The run is cut short by the request's context, or the store does not record it.
GenerateFails(s) ==
  /\ creation[s] = "generating"
  /\ GivenBack
  /\ creation' = [creation EXCEPT ![s] = "none"]
  /\ UNCHANGED <<cached, sessions, released, finished, over, cancelled, ageVars, workVars>>

\* The reference is there; the session is built and started on a context of its own.
StartSession(s) ==
  /\ \/ creation[s] = "reserved" /\ cached
     \/ creation[s] = "generating"
  /\ cached' = TRUE
  /\ creation' = [creation EXCEPT ![s] = "started"]
  /\ UNCHANGED <<running, sessions, released, finished, over, cancelled, ageVars, workVars>>

\* From here the entry can be found, and its watcher waits for the session.
Register(s) ==
  /\ creation[s] = "started"
  /\ creation' = [creation EXCEPT ![s] = "registered"]
  /\ sessions' = sessions \cup {s}
  /\ UNCHANGED <<running, cached, released, finished, over, cancelled, ageVars, workVars>>

-----------------------------------------------------------------------------
\* The tournament reaches its end, or its context is cancelled: its goroutines go.
\* A session starts paused and nobody can resume it before it is registered.
Ends(s) ==
  /\ creation[s] = "registered"
  /\ s \notin over
  /\ over' = over \cup {s}
  /\ UNCHANGED <<running, cached, creation, sessions, released, finished, cancelled,
                 ageVars, workVars>>

\* releaseLocked, for a set of entries at once.
\* Variant: gives the reservation back whoever gave it back before.
ReleaseAgain(S) ==
  /\ released' = released \cup S
  /\ running' = running - Cardinality(S)
Release(S) ==
  /\ released' = released \cup S
  /\ running' = running - Cardinality(S \ released)

\* The watcher's section, and the close of done behind it.
Watch(s) ==
  /\ creation[s] = "registered"
  /\ s \in over \ finished
  /\ finished' = finished \cup {s}
  /\ Release({s})
  /\ UNCHANGED <<cached, creation, sessions, over, cancelled, ageVars, workVars>>

-----------------------------------------------------------------------------
\* A touch is later than the `now` of an Evict under way.
\* Variant: Evict makes its list when it reads the clock, not under the lock.
OutdatesNothing(s) == clock' = clock
Outdates(s) == clock' = [clock EXCEPT !.stale = @ \ {s}]

\* Touch by an open stream, Get by any other request.
Touch(s) ==
  /\ s \in sessions
  /\ stale' = stale \ {s}
  /\ Outdates(s)
  /\ UNCHANGED <<running, cached, creation, sessions, released, finished, over,
                 cancelled, old, workVars>>

\* The idle window, or the maximum age, of an entry runs out.
GoesStale(s) ==
  /\ s \in sessions \ stale
  /\ stale' = stale \cup {s}
  /\ UNCHANGED <<running, cached, creation, sessions, released, finished, over,
                 cancelled, old, clock, workVars>>
GrowsOld(s) ==
  /\ s \in sessions \ old
  /\ old' = old \cup {s}
  /\ UNCHANGED <<running, cached, creation, sessions, released, finished, over,
                 cancelled, stale, clock, workVars>>

-----------------------------------------------------------------------------
\* The locked section of Stop, Evict and StopAll: the entries leave the map and
\* give back what they still hold.  The caller then stops them one by one.
TakeOut(w, S) ==
  /\ work[w] = {}
  /\ sessions' = sessions \ S
  /\ Release(S)
  /\ stale' = stale \ S /\ old' = old \ S
  /\ work' = [work EXCEPT ![w] = S]

StopSection(w, s) ==
  /\ s \in sessions
  /\ TakeOut(w, {s})
  /\ UNCHANGED <<cached, creation, finished, over, cancelled, clock, stopping, exiting>>

\* Evict reads the clock before it takes the lock.
EvictReads ==
  /\ ~exiting /\ ~clock.read /\ work[Reclaimer] = {}
  /\ clock' = [read |-> TRUE, stale |-> stale, old |-> old]
  /\ UNCHANGED <<running, cached, creation, sessions, released, finished, over,
                 cancelled, stale, old, workVars>>

Expired == sessions \cap (clock.stale \cup clock.old)

EvictSection ==
  /\ clock.read
  /\ TakeOut(Reclaimer, Expired)
  /\ clock' = NoClock
  /\ UNCHANGED <<cached, creation, finished, over, cancelled, stopping, exiting>>

StopAllSection ==
  /\ ~exiting
  /\ exiting' = TRUE
  /\ TakeOut(Exit, sessions)
  /\ UNCHANGED <<cached, creation, finished, over, cancelled, clock, stopping>>

\* stop: cancel, then wait for the watcher or for the timer.
Cancel(w, s) ==
  /\ stopping[w] = None
  /\ s \in work[w]
  /\ cancelled' = cancelled \cup {s}
  /\ stopping' = [stopping EXCEPT ![w] = s]
  /\ UNCHANGED <<running, cached, creation, sessions, released, finished, over,
                 ageVars, work, exiting>>

\* Variants: the rest of the list is forgotten when one stop returns; a stop
\* that waits for ever.
RestDropped(w) == {}
Rest(w) == work[w] \ {stopping[w]}
NeverTimesOut == FALSE
MayAbandon == Bounded

StopReturns(w) ==
  /\ stopping[w] # None
  /\ stopping[w] \in finished \/ MayAbandon
  /\ work' = [work EXCEPT ![w] = Rest(w)]
  /\ stopping' = [stopping EXCEPT ![w] = None]
  /\ UNCHANGED <<running, cached, creation, sessions, released, finished, over,
                 cancelled, ageVars, exiting>>

-----------------------------------------------------------------------------
CreateStep(s) ==
  \/ Reserve(s) \/ Generate(s) \/ GenerateFails(s) \/ StartSession(s) \/ Register(s)
StopStep(w) == (\E s \in Session : Cancel(w, s)) \/ StopReturns(w)
EvictStep == EvictReads \/ EvictSection

Next ==
  \/ \E s \in Session :
       \/ CreateStep(s) \/ Ends(s) \/ Watch(s)
       \/ Touch(s) \/ GoesStale(s) \/ GrowsOld(s)
  \/ \E w \in Deleter, s \in Session : StopSection(w, s)
  \/ EvictStep
  \/ StopAllSection
  \/ \E w \in Worker : StopStep(w)

\* Goroutines are scheduled, the ticker ticks and timers fire; a tournament that is
\* cancelled ends unless it is stuck.  Nobody is obliged to create, touch or stop.
Fairness ==
  /\ \A s \in Session :
       /\ WF_vars(StartSession(s)) /\ WF_vars(Register(s)) /\ WF_vars(Watch(s))
       /\ s \notin Stuck => WF_vars(s \in cancelled /\ Ends(s))
  /\ WF_vars(EvictStep)
  /\ \A w \in Worker : WF_vars(StopStep(w))

Spec == Init /\ [][Next]_vars
FairSpec == Spec /\ Fairness

-----------------------------------------------------------------------------
Creating == {s \in Session : creation[s] \in {"reserved", "generating", "started"}}
Registered == {s \in Session : creation[s] = "registered"}
Playing == {s \in Session : creation[s] \in {"started", "registered"} /\ s \notin over}

(* The count the cap is compared with is what is really reserved: creations *)
(* under way and entries that are still in the map and have not finished.   *)
(* Whoever gives a reservation back first, nobody gives it back again       *)
(* (registry.go running, entry.released, releaseLocked).                    *)
ReservationsAddUp ==
  /\ TypeOK
  /\ running = Cardinality(Creating) + Cardinality(sessions \ finished)
  /\ released = (Registered \ sessions) \cup finished

(* However a burst of creations, finished tournaments, stops and evictions  *)
(* interleave, no more than the cap are playing of those that are created   *)
(* or registered.  Those taken out of the map do not count: stop gives the  *)
(* slot back before the tournament has stopped (registry.go MaxSessions).   *)
CapHolds ==
  MaxSessions > 0 =>
    Cardinality({s \in Playing : s \in sessions \cup Creating}) <= MaxSessions

(* A tournament nobody can find any more has been told to stop, or a worker *)
(* has it on its list: none is left running in silence (Create, Stop,       *)
(* Evict, StopAll; the list is worked off also behind a stop that timed out). *)
NothingRunsUnseen ==
  \A s \in Playing :
    s \in sessions \cup Creating \cup cancelled \cup UNION {work[w] : w \in Worker}

(* The clock Evict compares with is read before the lock is taken, yet a    *)
(* session somebody has touched is never reclaimed under them (registry.go  *)
(* Touch, Evict: "reclaimed out from under themselves").                    *)
WatchedStays ==
  [][\A s \in sessions \ sessions' :
       s \in work'[Reclaimer] \ work[Reclaimer] => s \in stale \cup old]_vars

(* An idle session is reclaimed, whatever other session does not stop: the  *)
(* loop is never wedged (registry.go StopTimeout, reclaim).                 *)
IdleIsReclaimed ==
  \A s \in Session : []<>(exiting \/ ~(s \in sessions /\ s \in stale))
=============================================================================
