# order_of_things: a verification development

The repository runs an iterated prisoner's-dilemma tournament on an
*active-active* platform: every component exists more than once, all instances
read one sequenced log, all of them answer, and the first copy of each answer
wins. Nothing but the order of the log coordinates them. This directory models
that system in TLA+, checks it with TLC on small instances, and proves the parts
that TLAPS can reach for every value of the constants.

## 1. Inventory

| Component | Code | State it keeps | Operations | What makes it correct |
|---|---|---|---|---|
| Sequencer | `internal/platform/sequencer.go`, `sequencer_events.go` | `eventLog`, `senderSeqHwm`, `clients` | `Subscribe`/`unsubscribe` (join with replay and marker, leave), `admit`, log and fan out, exit | one answer per component and position; no slot lost or repeated; a joiner gets every event once, in order |
| Sequencer client | `internal/platform/sequencer_client.go` | `senderSeq`, `inflightEvent`, `egressCh` | `Send`, `Read` (slot derivation, `checkInflight`), `Close` | never two unsettled answers; a lost race settles; a disagreement takes out the loser only |
| Event loop | `internal/platform/eventloop.go` | `replaying`, the handler | `Run`, `validateState` | nothing is sent from a refused state; no turn is swallowed |
| Pacer | `internal/platform/pacer.go` | `running`, `interval`, `credits`, `resumed` | `Wait`, `Pause`, `Resume`, `Step`, `SetInterval` | no lost wake-up; holding admission holds it |
| Game store | `internal/fsm/game_store.go`, `game_events.go` | current game, completed games, board, checksum chain | `ApplyEvent`, reads | deterministic; the chain tells histories apart; scoped reads agree across replicas |
| Strategies | `internal/strategy/strategy.go`, `flow_control.go` | a store | `HandleEvent`, the decision functions, the defect wrappers | answers exactly when it is its turn |
| Game injector | `internal/injector/game_injector.go` | a store | bootstrap on the marker, next pairing on completion | games run one at a time; one bootstrap |
| Session | `internal/session/session.go` | replica slots, lifecycle | wiring, start, kill, restart, shutdown | what it reports about a replica is what happened to it; shutdown ends |
| Rehearsal | `internal/session/rehearsal.go`, `session.go` `restart` | a fresh candidate | three replays of the canonical log | a sound replica passes, a defective one does not |
| Golden reference | `internal/golden/store.go` | chains per seed, a file | `Open`, `Validator`, `Get`, `Verify`, `Record`, flush | a run is checked against the run it is a copy of; the file survives crashes; the first run stays on record |
| Registry | `internal/session/registry.go` | sessions, reservations | reference run, create, touch, stop, evict | the session cap; every slot given back once |
| Tracker | `internal/tracker/tracker.go` | a store, a snapshot | reads, publishes, signals the end | snapshots follow the log |
| Web server | `internal/web/server.go` | none of its own | routes, a resumable event stream | an event is neither skipped nor repeated over a reconnect |
| Browser page | `internal/web/static/app.js` | `nextIndex`, the fold, the last status, retries | connect, fold, reconnect, give up | it shows the whole tournament, or says that it is lost |
| Commands | `cmd/server/main.go`, `cmd/tournament/main.go` | none of their own | the reclaiming loop, shutdown; reference, run, verify | reclamation never wedges; a run that disagrees is never accepted |

How they interact. Each instance of a component is a goroutine (`Eventloop.Run`)
with a client of its own. It asks to join over the subscription channel; the
sequencer's goroutine replays the log into the client's egress channel, puts one
`ReplayComplete` marker behind it, and from then on fans every sequenced event
out to it. What a handler answers goes into the shared ingress channel, where
both halves of a pair race: the sequencer admits the first emission for a
component's next slot and drops the others. The pacer stands between admission
and the log. The session owns the goroutines; the golden reference supplies the
validator every replica runs while it replays; the registry runs a reference
session to obtain it. The tracker is one more reader that never answers;
it publishes a snapshot after every event, which the server's stream polls and
sends on to the page. Handlers, the reclaiming loop and the shutdown of the server
meet in the registry; processes meet in the golden file.

What is hard here: joins racing admissions in one `select`; the second copy of an
answer arriving any time, also from an instance that is gone; an answer computed
from an older log; a pair whose halves disagree; a replica that dies and
another that rejoins halfway; turns that exist only as a function of the log, so that one
swallowed event stops everything for good; a waiter that sleeps without the lock;
an entry that several goroutines finish, stop and evict at once; a file that processes rewrite
while others crash; a page that must not miss an event over a broken connection.
`PROJECT.json` lists these as hazards, each at its line with the properties that
guard it; two have none, and say why.

## 2. Modules

| Module | Models | Role |
|---|---|---|
| `TurnLog` | nothing: it is the promise | one log that grows by one allowed event at a time |
| `Platform` | sequencer, client, event loop, channels | the concurrent system, for arbitrary handlers |
| `ActiveActive` | - | properties of `Platform` for handlers that take turns; refinement of `TurnLog` |
| `PlatformProofs` | - | theorems: types, what a reader reads, turns and slots, refinement of `TurnLog`, no swallowed turn |
| `GameStore` | `internal/fsm` | pure operators on a store record |
| `Strategies` | `internal/strategy` | decisions, defects, the turn gate |
| `Injector` | `internal/injector` | pairing, bootstrap, emission |
| `Canonical` | `registry.go` `reference`, `golden` validator | the tournament with nothing replicated, its log and its chain |
| `Tournament`, `TournamentProofs` | `session.go` `New` | `Platform` with the real handlers plugged in; theorems |
| `StoreFeed`, `StoreFeedProofs` | `internal/fsm` reads and chain | two stores fed side by side with any legal stream; theorems |
| `Rehearsal` | `rehearsal.go`, the loop in `restart` | a candidate's examination; its theorems are in `TournamentProofs` |
| `Supervisor`, `SupervisorProofs` | `session.go` from `Start` to `restart` | slots, watchers, operators and shutdown; theorems |
| `Pacer`, `PacerProofs` | `pacer.go` | the waiter against its operators; theorems |
| `Registry`, `RegistryProofs` | `registry.go`, `reclaim` in `cmd/server` | reservations, entries, eviction and stopping; theorems |
| `FirstWins` | nothing: it is the promise | a map that only gains keys |
| `GoldenStore`, `GoldenStoreProofs` | `golden/store.go`, `cmd/tournament` | processes on one file, crash by crash; refines `FirstWins`; theorems |
| `Stream`, `StreamProofs` | `tracker.go`, `stream` in `server.go`, `connect` in `app.js` | feed, snapshots, frames and the page's fold; theorems |
| `MCPlatform`, `MCTournament`, `MCStoreFeed`, `MCRehearsal`, `MCGoldenStore` | - | constants for TLC |

**Platform.** `log`, `hwm`, `clients` are the sequencer's fields; `subCh` holds
join and leave requests, `ingressCh` emissions, `egressCh[i]` what instance `i`
has yet to read. `hwm[c] = -1` stands for a component `senderSeqHwm` has no entry
for, which makes `admit`'s two cases one. `status[i]` is where `Eventloop.Run` of
`i` is; `hist[i]` is the sequence of events its handler has applied. A handler is
a function of the events it was given (that is what the repository calls a
component), so its answer is a constant operator `Reply(i, hist[i])`, a set where
an injected defect makes it nondeterministic. Every incarnation of a
replica is an instance of its own, because a restart builds a fresh client and a
fresh component. The steps:

- `SeqJoin`, `SeqLeave`, `SeqAdmit`, `SeqReject` are the cases of the `select` in
  `Sequencer.Run`; `SeqSequence` is its second half. They are two steps because
  `pacer.Wait` blocks between them, and no other case is taken meanwhile
  (`Selecting`). `SeqExit` is the cancelled context, in either place; an admitted
  event is then gone although its slot was taken.
- `ReadMarker`, `ReadDivergent`, `ReadInvalid`, `ReadEvent` are the four ways one
  iteration of `Eventloop.Run` ends. One iteration is one step: what it touches
  is the instance's own, but for the head of a channel nobody else receives from
  and one send into the ingress channel, so any interleaving of its parts
  with other goroutines equals one with the send's moment.
- `Stop` is the context cancelled and noticed. Cancellation seen inside `Read` and
  at the top of the loop leave the same state.

Channels are unbounded queues, as `chann.New` makes them, so no send blocks. Joins are served from one queue in request
order, as from the code's `subscribeCh`.

**Tournament** instantiates `ActiveActive` with `HandleEvent` and `HandleMarker`
(the stores rebuilt from `hist[i]`, the turn gate, the decision, the injector) and
with the golden validator. `mix`, the injector's seeded hash, is an arbitrary
draw per game id: pairing is modelled from the draw on. The checksum is the
sequence of digests folded into it, that is, a hash without collisions.

**Pacer.** Each locked section of `Wait` is one step and so is each operator's
call; between them the waiter sits in one of its selects. `woken` says whether
the channel it holds has been closed since. `held` and `allowance` are history
variables: what admission still owes while it is held.

**Supervisor.** `slots` holds what a slot says (`running`, `killed`,
`quarantined`), `instances` what it has started, so `gen` is the length; an
instance is in `Run`, past it, past its watcher's locked section, or past
`close(done)`. A call of `Kill` or `Restart` is a thread `ops[o]` that goes from
one locked section to the next; `lifecycle` is held throughout, `mu` only inside
sections that never block, so each of those is one step and `mu` needs no
variable. What a goroutine does on its own before a section, such as taking a
free `lifecycle` or rehearsing a private candidate, belongs to that step: no other
goroutine sees a difference. `shut` is the program counter of `shutdown`. The watcher's generation
test (330) is modelled and, in every reachable state, true: an operator starts
an instance only after it has seen the earlier one's `done`, or found the slot
not running, which its watcher has said. `OneInstancePerSlot` is that fact; it
lets the earlier goroutine be before its `close(done)` still.

**Registry.** `running`, `sessions` and `released` are the fields of that name
(`released` a set of entries), `cached` is whether `canonical` has the reference.
`creation[s]` is where the call of `Create` for session `s` is; it works outside
the lock between its two locked sections, so other calls come in between. `Ends`
is a tournament whose goroutines are gone, `Watch` the watcher's section behind
`live.Wait()`. A worker (a `DELETE` handler, the reclaiming loop, the deferred
`StopAll`) takes entries out in one locked section (`TakeOut`) and then cancels
and waits for them one by one (`Cancel`, `StopReturns`), which a stop timeout may
cut short. Time is what `Evict` compares: `stale` and `old`; `clock` is the `now`
it has read before it takes the lock. Sessions in `Stuck` may ignore their cancelled
context. `finished` is also the closed `done`. `Get` and `Touch` are one action.

**GoldenStore.** `outcomes[p]` is the map of the store process `p` has opened, `file`
what is on disk, `temp[c]` the temporary file of caller `c`, and `call[c]` where it is
inside `Verify` or `Record`. A process holds `s.mu` from the change of the map to the end of
the flush (`Locked`); every file operation is a step of its own, at which
processes crash or the operation fails. `job` is what a process plays: a command's own result may
differ from the clean run. `alone` is chosen once: processes are run one at a time, or overlap.
The file system keeps what has been renamed: there is no `fsync` in the code, so a power loss is not covered.

**Stream.** `snapshot[t]` is what tournament `t`'s tracker has published, `sessions` the
registry's table by id, `stream` the handler of the page's connection (which tournament,
the next index, the status sent last, and the snapshot a turn of its loop works on), `wire`
the frames on their way, `conn` the `EventSource`, `page` what the page has. One turn of
the handler's loop is two steps with one snapshot between them. A break loses what is in
flight; a restart of the server loses the sessions and starts the ids again. Feed
entries are told apart by position, kind and game, the same in every
tournament: which tournament they come from is `ServedOwnSession`'s question.

## 3. Runs

| Run | Question | Bounds |
|---|---|---|
| `platform_crash` | does replication, with deaths, a defect that disagrees, a corrupt replay and the sequencer stopping anywhere, leave the log one turn-taking log, and never stall it while somebody can answer? | 2 components x 2 instances, 3 events; `a1` may die, `b1` answers either way, `b2` fails validation from the second event on |
| `platform_live` | does the stream reach its end and everybody in service catch up? | `a` with 3 instances and `b` with one, 3 events; `a1` may die, `a3` answers either way |
| `tournament` | the same with the real handlers: do they take turns, is the log the unreplicated tournament's, and is a corrupt replica, and only it, refused before it answers or turns live? | 2 strategies, 2 games, an injector pair: one half may die, the other is corrupt from game 0; the sequencer may stop |
| `store_feed` | do chain, scoped reads and board do what `game_store.go` says? | every pair of streams of 2 games over 3 players, bug from game 0, 1 or none |
| `pacer` | no lost wake-up, one overrun at most; steps and resumes take effect | 3 intervals, 2 credits |
| `rehearsal_players` | do sound players pass, wrong and corrupt ones not? | 4 players, 3 games, every set of flaws, bugs from the first, the last or no game |
| `rehearsal_injector` | (violated) does a sound injector rejoin? | 3 games |
| `supervisor` | one instance per slot, slots that tell the truth, joined reads, a final result; do shutdown and every call end? | the tracker and one replica, 2 operators, 2 calls, any number of quarantines |
| `registry` | are reservations given back once, does the cap hold, is nothing left running unseen, is the watched kept and the idle reclaimed? | 3 creations, a cap of 2, 1 deleter, the reclaimer, the shutdown, 1 stuck tournament |
| `golden` | does the file stay whole, what was accepted on record, and does the first run win? | 1 server with 2 requests, 1 command, 2 keys, 2 outcomes; crashes and failures unbounded |
| `stream` | does the page see every event once, no end before its events, and come to rest? | 2 games, 2 tournaments, 2 breaks, 2 retries, 1 restart |
| `stream_restart` | (violated) is a page only ever served its own session? | 1 game, no breaks, 1 restart |

Why the bounds are enough. Three events make a component speak, lose the turn and speak
again, which is what slots, late duplicates and stale emissions need; two instances make
every race there is between halves, and four instances with joins in any order put a
late joiner at each position. A lost turn (a stall) shows at the first event that is
swallowed. In `platform_live` the third event asks `a` to speak again after everything that may have
happened to it: `a2` has lost the race to `a1`, which then died, or to `a3`, with which it
disagreed. Three instances are what it takes to have a death and a disagreement in one component
and still somebody to go on, and only a component that does speak again shows a slot that
a lost race has not moved. In the store a strategy reads at most the previous games and two games have a
previous one; in the rehearsal three games have a first, a middle and a last. Slots are
independent but for `lifecycle` and shutdown, so one replica beside the tracker has
every order of kill, restart, quarantine and shutdown; two operators make the lock
contended. Three creations over a cap of two make a full registry, one that becomes free
and one more that wants in, and two workers beside the shutdown take out the same
entries. Two keys make a write that must carry another's record along; two requests of
one process contend for its lock and the command is the second process. Two games have
an event that is the last of a game and not of the tournament; two breaks and a restart
are more interruptions than the two retries, so the page can reconnect, and give up. In
`tournament` the tracker is left out, because one more reader makes the graph many times
as large. `Turns`, `MaxGames`, `Games`, `MaxCredits`, `MaxCalls`, `MaxBreaks` and
`MaxRestarts` are the bounds; the first two stand for the tournament's own length, which
is finite in the code too (`maxGames`). Deadlock is off where the stream ends: the
goroutines then wait for an event that does not come, by design; the
`StallsOnlyUnserved` property says when that is legitimate. In `Pacer` the waiter
returns on cancellation; in `Registry` the server may exit, in `Stream` the page comes
to rest.

What the less obvious properties say:

- `ImplementsTurnLog`: every step of the platform, mapped to its log, is a step of
  `TurnLog`: an event that enters the log was computed from exactly the log it
  is appended to. No emission that is stale can slip in, whoever sent it.
- `NoGaps`: `admit`'s gap case is never taken, whoever is dead or late.
- `WinnerSurvives`: a disagreement costs the half that lost the race only.
- `StallsOnlyUnserved`: when all channels are empty the stream is over or the
  component it waits for has nobody left. It stands in for a liveness check of the
  whole tournament, whose graph is too large for TLC's liveness algorithm: it is checked on
  the abstract handlers and proved for all that take turns and answer. `platform_live`
  checks liveness on the abstract handlers.
- `HandlersTakeTurns`: at every log the session comes to, the real handlers meet what the theorems
  about the platform ask of handlers (section 4), so the tournament cannot stall either; and no
  store meets an event it panics on, such as a game started inside a game.
- `LiveOnlyIfCanonical`: speaks of the two moments at which a wrong state could leave a replica that
  replays: when it answers the event it has just applied, and when it turns live.
- `ImplementsSolo`: the same log as with one instance of everything.
- `ChainTellsApart`: two stores' chains are equal exactly while they were fed the
  same stream and no corrupted game was paid.
- `ReservationsAddUp`: `running` is the number of creations under way and entries in the map that
  have not finished, and an entry is `released` exactly when it has left the map or finished.
- `CapHolds`: bounds what can be found. What was taken out may still be playing (section 5).
- `WatchedStays`: a touch between `Evict`'s reading of the clock and its lock counts, because
  the list is made under the lock.
- `FirstRunWins`: `GoldenStore` implements `FirstWins` where processes do not overlap.
- `AcceptedIsOnRecord`: of processes run one at a time, two whose results disagree are never both accepted.
- `PageComesToRest`: on the condition that every tournament ends or goes away.
- `WatermarkIsDormant`: with one game in flight `CopyLeader` never waits and the
  scoped read equals the newest read, as `Config.SkipWatermark` claims.

Fairness. `FairSpec` of `Platform` gives weak fairness to the sequencer's
goroutine, to each instance's reads and to the start of instances nothing
cancels: goroutines are scheduled, `select` does not wait on a ready case for
ever, and a session starts every replica it wires. One weak fairness condition
covers the whole `select`: nothing is assumed about which ready case it prefers.
A context is never obliged to be cancelled. In `Pacer`, fairness covers the
waiter's goroutine and its timers and the arrival of further events; none of the
operators' calls is fair. In `Supervisor`, watchers, shutdown, the sequencer's
goroutine and an operator that is inside a call are weakly fair; taking
`lifecycle` is strongly fair, because a `sync.Mutex` passes the lock to a waiter
that has starved. Instances are not obliged to quarantine themselves, operators
not to call, the tournament not to end. In `Registry`, goroutines run, the
reclaimer's ticker ticks, stop timers fire and a cancelled tournament ends unless it
is stuck; nobody is obliged to create, touch or delete. In `Stream`, the handler and
its ticker, the page's reads and its reconnect timer are fair; tournaments, visitors,
reclamation and clicks are not. `GoldenStore` has safety only: a command may crash for ever.

## 4. Proofs

Eight modules are checked by tlapm, for every value of the constants under the assumptions
the modules name. The theorems about the platform have the discipline of the handlers as their
hypothesis, because it is the handlers that bring it (`flow_control.go`, the injector).
`OneSpeaker`: handlers answer with payloads, and at a log that can come about (`Legal`:
each event was allowed by what precedes it) only the component whose turn it is answers, and
bootstraps only an empty stream. `EveryoneAnswers`: it then does answer. That the real
handlers are such is a theorem too (`TournamentProofs!HandlersKeepDiscipline`), so the
platform's theorems hold of the tournament without it.

- `PlatformProofs!Typing`: `OneSpeaker => (Spec => []TypeOK)`.
- `PlatformProofs!ReadersInOrder`: `ExactlyOnceInOrder` always holds. The
  property is not inductive: the join of an instance must find it untouched. The
  strengthening is `Data /\ Subscriptions /\ ExactlyOnceInOrder`, where
  `Subscriptions` says that an instance asks to join once and that nothing
  reaches it before that request is served. `Joined`, `Sequenced`, `TakeOne` and
  `TakeMarker` are the four steps that move a feed; `ReaderUntouched` is all
  the others.
- `PlatformProofs!RefinesTurnLog` (`Spec => TL!Spec`), and `SendIsSettled`, `SlotsInOrder`,
  `GapsAreUnreachable` and `WinnersStay`, all from `Readers /\ Turns` (`TurnsHold`). `Readers` is the
  invariant above. `Turns` says what an emission is: `Computed` from a prefix of the log by
  an author that has read that prefix; if the prefix is the whole log, the author still
  stands by it (in service, waiting for its answer). What was admitted is `Due`: computed from
  all of the log. `Positions`: a high-water mark counts what its component has said and what is about to
  enter. `Turn(i)`: a client's slot counts what it has read of its component, and it waits for an answer
  only at its turn. `Author(i)` and `Unheard(i)` carry this over the log; `Absent(i)` is about a
  joiner: while it replays nothing of it is in the log. `Legal(log)` then follows event by event.
- `PlatformProofs!NothingIsSwallowed`: `StallsOnlyUnserved`, under `EveryoneAnswers` too, from `Readers /\ Turns /\
  Progress`. `Progress` says of an instance that runs and has read the whole log at its turn that its answer
  is in the ingress channel, or admitted, or that another's is; with all channels empty nobody is in that place.
- `TournamentProofs!HandlersKeepDiscipline`: `OneSpeaker` and `EveryoneAnswers` of the real handlers, for any
  number of games, any draws, players and instances, and any defects. A turn is read from a part of the store
  only, the game in flight with its decisions and the count of games (`Ctl`), and that part is steered by the events alone
  (`EventSteers`): it is the same in every store that was given the same events, corrupt or not
  (`StoresAgree`). A legal log steers it from one turn to the next and never into a panic
  (`AllowedSteers`, `LegalIsAwake`); a player answers exactly when the game in flight
  waits for it, the injector exactly when there is none (`PlayersTakeTurns`, `InjectorTakesTurns`).
- `TournamentProofs!DisciplineIsKept` and `TournamentKeepsPromises`: `HandlersTakeTurns`, and the platform's theorems
  for the tournament, through an instance of `PlatformProofs`.
- `TournamentProofs!TeamsAreSolo`: `ImplementsSolo` with sound players (`SoundPlayers`); the stores of
  injectors and trackers may be corrupt, as they read the part above only.
- `TournamentProofs!AdmittedIsCanonical`: `LiveOnlyIfCanonical`, from `Accepted`: a replica in service that still
  replays has passed at every event so far, the latest included.
- `TournamentProofs!SoundInstancesStay`: `SoundStaysInService`. The canonical log is shown to be what its construction
  means (`CanonicalIs`): each event of it is what the sound components say to what precedes it (`Canon`), and that is one thing
  at most (`OneVoice`). The stores on the way are `Calm`, as legally fed ones of `StoreFeedProofs` are,
  so a watermark may be skipped unseen (`SoundPlayerSays`), and their chains are the beginnings of the canonical chain (`Links`).
  What an instance waits for is its answer to what it has read (`Asked`); if it is sound and the log canonical so far,
  that is the next event of the log (`SoundAgrees`).
  These theorems assume `TournamentAssumption`, `InjectorAssumption` and `NilAssumption`, and that the draw is a
  function of the game's id (`Draw \in [Nat -> Nat]`), as `mix` is total in the code.
- `TournamentProofs!SoundPlayersAreAdmitted` and `DefectivePlayersAreCaught`: `SoundPlayersPass` and `DefectsCaught` from
  `Examined`. While a candidate is examined (`OnTrack`) its store is the one `n` events of the canonical log make (`At`),
  its bug has paid no game, it has emitted as often as the log has entries of its own so far (`OwnBefore`), and not at
  all if it inverts. The log's next event is the one answer to it so far (`CanonNext`), so a player is asked exactly where
  the log has its next entry, answers that entry if sound and never if it inverts (`CandidateSays`); and one event tells a
  corrupted store from the canonical one (`ReplayTells`, from `StepTells`). At the end of the log all the games are
  completed (`OverAtEnd`) and numbered in order (`SF!PaidShows`), so a bug that has shown in none starts after the last.
  They assume `RehearsalAssumption` besides: the tracker is not restartable, and a defect is a set of flaws and a bug.
- `PacerProofs`: `Typing`; `NoWakeupIsLost` (`NoLostWakeup`, inductive
  together with the types); `CreditsAccount` and `OneOverrunAtMost`, both from
  `Owed`, which adds what admission owes after the waiter has gone.
- `GoldenStoreProofs!FileStaysWhole`: from `Memory /\ Disk`: maps hold records, and a
  temporary file is whole when its caller comes to rename it.
- `GoldenStoreProofs!StoreImplementsFirstWins` and `AcceptedStaysOnRecord`: from `IInv /\ Kept`.
  `Calls` adds that one caller of a process flushes at a time, `Maps` that what is written
  is what the process's map holds and that a request which found nothing records what
  anybody of its process has recorded since, and `Kept`, for processes run one at a time, that
  the map of the one that is up extends the file, and equals it in a command that is not
  flushing. A step then extends the file or leaves it (`IInvStep`).
- `RegistryProofs`: `EveryReservationAddsUp`, `TheCapHolds`, `NothingIsLeftRunning` and
  `WatchedSessionsStay`, all from `RegistryInv`, a conjunction of five parts. `Places`: what is
  released is what has left the map or finished, so a section that releases a set gives back
  just what of it is still held (`ReleaseCounts`). `Counts`: the count is what is held and is
  within the cap. `Ages`: what an eviction's reading of the clock says of an entry still in the
  map is still so, since a touch outdates it and a later entry is not in it. `Lists`: a worker
  drops only what it has cancelled. `Flags`: the types of the two flags.

- `SupervisorProofs`: `NeverTwoInstances`, `SlotsAreTrue`, `ReadsAreSafe` and `TheResultIsFinal` from one `IInv`.
  `Singly`: all instances of a slot but the last are over. `Callers`: an operator between its first
  section and its last holds `lifecycle`, and the generation it has read is still the slot's last, however
  long it waits; `Ends` says the same of shutdown and the channels it has collected. Nothing is assumed but
  that there is a slot (the tracker) and that `Shutdown` and `Nobody` name no operator.
- `StreamProofs`: `FoldsInOrder` and `NothingIsSpoiled` from `IInv`. `Published`: a snapshot has all the events
  of the games it calls completed. `InFlight`: there is a function (`mark`) from the frames on the wire
  to how far the page will be after each; every feed frame is the next event, every status frame tells no more than
  what goes before it, and the handler is where the page will be at the end. Breaking a connection empties the wire and drops
  the handler; the new one starts from the page's own `nextIndex`.
- `StoreFeedProofs!ChainsTellApart`: `ChainTellsApart` says no more than whether two chains are
  equal, which is not inductive. `IInv` adds that the stores are then the same (`Agree`) and that stores fed and paid
  alike are the same (`Alike`). The heart is `StepTells`: from the same store, the next digests
  agree exactly when the payloads do and the bug does not pay, since the digest shows pairing and decisions while
  a game is on, and the board it leaves tells the payoffs (`BoardTells`) and the payoffs the last decision
  (`PayoffsTell`). Once the chains differ they differ for ever (`ShorterChains`), also when the stores become equal again.
  `NilAssumption` says that a nil pointer is neither a decision nor a game.

- `StoreFeedProofs!BoardAddsUp` and `WatermarkCostsNothing`: `BoardIsTheSum` and `WatermarkIsDormant`, both from
  `SteadyInv`, of which the heart is `Steady`: completed games stand in the order of their admission, each before what is
  applied next (`Ordered`); the board is the fold over them (`Totalled`); and three events make a game (`Paced`), which
  bounds the stream by the games. So every completed game is before the one in flight, the scoped fold leaves
  none out (`ScopedIsNewest`), and the last decision before it is the newest.

What `Rebuild` and a fold compute at every length needs induction over data, and the library's theorems for it take an
operator parameter that the provers cannot instantiate. The proofs use instead that a set of numbers has a least
member (`LeastNatural`, from `WFMin`): `Induction` over the set of lengths at which a fact holds.

Only model-checked, and why:

- Liveness and `ENABLED`: `EveryReaderCatchesUp`, `RunsToTheEnd`, `StepsAreHonoured`, `ResumeReleases`, `ShutdownEnds`,
  `CallsReturn`, `IdleIsReclaimed`, `PageComesToRest`.

`TypeOK` of `Platform`, `Pacer`, `GoldenStore`, `Registry`, `Supervisor` and `Stream` is proved; in the other modules it is
a conjunct of a checked invariant.

## 5. What the modelling found

Two runs have the outcome `violation`, quoted in `PROJECT.json`:

1. `rehearsal_injector`: a sound injector is refused when it is restarted in a
   session with a reference. The rehearsal replays the log without the marker on
   which the injector emits game 0, so its first answer, game 1, is compared
   with game 0.
2. `stream_restart`: session ids are numbered from a counter in memory. A page that
   is open over a restart of the server, and reconnects after another visitor has created
   a session, is not answered 404: it is served, and controls, that visitor's tournament.

What else the code does and a reader of its comments may not expect:

- A `Step` on a running pacer can admit two events (pacer.go:110-112), because the wait in
  progress may end by its timer and leave the credit for the next event. `Pause` lets
  the event whose wait was in progress through in the same way. `OneOverrunAtMost` proves that one is all.
- The validator runs during replay only (eventloop.go:128-135), while `Config.Validator`'s
  comment says "after every applied event". A corrupted instance that was live before its
  first wrong payoff keeps running.
- `finished` is to refuse a restart into a cancelled context (session.go:181), but the context is
  cancelled (363, or by the caller) well before it is set (383). A `Restart` in that
  window answers nil and has started an instance that stops at once.
- `Stop`, `Evict` and `StopAll` give a session's slot back before its tournament has
  stopped, so more than `MaxSessions` may be playing for the while a stop takes, or for good
  if it is abandoned (registry.go:23-31, 379, 443).
- A flush that fails leaves its outcome in memory (store.go:239-243, 257-258): `Get` then
  finds a record that is not on disk, until a later flush writes it.
- Overlapping processes lose each other's records: each writes the map it loaded when it
  opened the store (store.go:188, 266).

## 6. Not modelled

- Control requests over HTTP: `Pacer` and `Supervisor` have them as their operators' calls.
- The setters of the registry and of sessions, which run before anything is served.
- The tracker's wins, recent games and board: copies for drawing.
- `Score` and the rendering of entries, the drawing of the page, HTTP routing, flags, logging:
  presentation, with no state the rest depends on.
- 64-bit arithmetic of the hash and of the mixer: they are abstracted as said above.
- Seeds, and wall-clock time beyond "a timer may fire"; ids only where they are reused (`Stream`).
- Golden records without a chain or a log, as other builds may have left them: `Store.Validator` treats one as missing, so
  a tournament command that needs a reference replaces it (a server asks `Get`, and does not). Every record this build
  writes has both.
- What a file system does on power loss.

## 7. Plan

1. Done: `TurnLog`, `Platform`, `ActiveActive`; `GameStore`, `Strategies`, `Injector`,
   `Canonical`, `Tournament`; `StoreFeed`; `Pacer`; `Rehearsal`; `Supervisor`;
   `Registry`; `FirstWins`, `GoldenStore`; `Stream`; the theorems of section 4.
2. Every invariant and every safety property a passing run checks is stated by a theorem; only liveness is left to TLC.
