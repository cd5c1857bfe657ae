------------------------------- MODULE Stream -------------------------------
(***************************************************************************)
(* A page that watches a tournament: the tracker's feed and snapshots      *)
(* (src/internal/tracker/tracker.go), the handler that streams them        *)
(* (src/internal/web/server.go stream) and the page that folds them and    *)
(* reconnects (src/internal/web/static/app.js).  Connections break with    *)
(* frames in flight, sessions are reclaimed, the server restarts and hands *)
(* its ids out from the start again.                                       *)
(***************************************************************************)
EXTENDS Integers, Sequences, FiniteSets

CONSTANTS
  Tournament,   \* the sessions ever created, the page's own among them
  Own,          \* the one the page has created
  Games,        \* games of a tournament
  MaxRetries,   \* 5 in app.js
  MaxBreaks,    \* bound: connections that break
  MaxRestarts,  \* bound: restarts of the server
  NoStream, NoSession

ASSUME StreamAssumption ==
  /\ Own \in Tournament
  /\ Games \in Nat \ {0}
  /\ MaxRetries \in Nat /\ MaxBreaks \in Nat /\ MaxRestarts \in Nat
  /\ NoSession \notin Tournament
  /\ IsFiniteSet(Tournament)

VARIABLES
  snapshot,   \* what each tournament's tracker has published
  created,    \* tournaments that have been created
  sessions,   \* Registry.sessions: the tournament under each id, from 1 on
  stream,     \* the handler of the page's connection
  wire,       \* frames on their way to the page
  conn,       \* the page's EventSource
  page,       \* the page's state
  breaks, restarts

serverVars == <<snapshot, created, sessions, restarts>>
linkVars == <<stream, wire, conn, breaks>>
vars == <<snapshot, created, sessions, stream, wire, conn, page, breaks, restarts>>

\* What a tracker knows: the feed so far, sequenced events, games completed.
NoEvents == [feed |-> <<>>, seq |-> 0, completed |-> 0]

FeedEvent == [seq : Nat, kind : {"new-game", "decision", "game-completed"}, game : 0..(Games - 1)]
Frame == [kind : {"open"}]
         \cup [kind : {"feed"}, index : Nat, event : FeedEvent]
         \cup [kind : {"status"}, completed : 0..Games]

\* The page before any frame; nextIndex, the events applied, the last status, the
\* retries since the connection last opened, lost.
NewPage == [nextIndex |-> 0, folded |-> <<>>, completed |-> 0, retries |-> 0, lost |-> FALSE]

TypeOK ==
  /\ snapshot \in [Tournament -> [feed : Seq(FeedEvent), seq : 0..(3 * Games), completed : 0..Games]]
  /\ created \subseteq Tournament
  /\ sessions \in Seq(Tournament \cup {NoSession})
  /\ stream = NoStream \/ stream \in [of : Tournament, from : Nat, told : -1..Games,
                                      next : {"poll", "status"}, completed : 0..Games]
  /\ wire \in Seq(Frame)
  /\ conn \in {"connecting", "open", "waiting", "closed"}
  /\ page \in [nextIndex : Nat, folded : Seq(FeedEvent), completed : 0..Games,
               retries : 0..(MaxRetries + 1), lost : BOOLEAN]
  /\ breaks \in 0..MaxBreaks /\ restarts \in 0..MaxRestarts

\* The page has created its session and opens its first stream.
Init ==
  /\ snapshot = [t \in Tournament |-> NoEvents]
  /\ created = {Own}
  /\ sessions = <<Own>>
  /\ stream = NoStream
  /\ wire = <<>>
  /\ conn = "connecting"
  /\ page = NewPage
  /\ breaks = 0 /\ restarts = 0

Live(t) == \E id \in 1..Len(sessions) : sessions[id] = t
\* The page's id is the first that a server gives out.
Mine == IF sessions = <<>> THEN NoSession ELSE sessions[1]

-----------------------------------------------------------------------------
\* Tracker.HandleEvent.  Event n of the log belongs to game n \div 3; record turns
\* it into one feed event, or two when it completes its game.
Recorded(n) ==
  LET game == n \div 3
      event(kind) == [seq |-> n, kind |-> kind, game |-> game]
  IN CASE n % 3 = 0 -> <<event("new-game")>>
       [] n % 3 = 1 -> <<event("decision")>>
       [] n % 3 = 2 -> <<event("decision"), event("game-completed")>>

\* Store and snapshot are one step: nobody sees the store itself.  A stopped session
\* applies nothing more.
HandleEvent(t) ==
  LET was == snapshot[t] IN
  /\ Live(t)
  /\ was.completed < Games
  /\ snapshot' = [snapshot EXCEPT ![t] =
       [feed |-> was.feed \o Recorded(was.seq),
        seq |-> was.seq + 1,
        completed |-> (was.seq + 1) \div 3]]
  /\ UNCHANGED <<created, sessions, restarts, linkVars, page>>

\* The registry (a module of its own): another visitor's session, a session stopped or
\* reclaimed.  Ids are handed out in order.
OtherCreates(t) ==
  /\ t \notin created
  /\ created' = created \cup {t}
  /\ sessions' = Append(sessions, t)
  /\ UNCHANGED <<snapshot, restarts, linkVars, page>>
Removed(id) ==
  /\ id \in 1..Len(sessions) /\ sessions[id] # NoSession
  /\ sessions' = [sessions EXCEPT ![id] = NoSession]
  /\ UNCHANGED <<snapshot, created, restarts, linkVars, page>>

-----------------------------------------------------------------------------
\* app.js onerror: the source is closed; a page that knows the tournament is over stays
\* as it is, another one tries again, until it gives up.
Finished == page.completed = Games

OnError ==
  LET retries == page.retries + 1 IN
  \/ /\ Finished
     /\ conn' = "closed"
     /\ UNCHANGED page
  \/ /\ ~Finished
     /\ retries > MaxRetries
     /\ page' = [page EXCEPT !.retries = retries, !.lost = TRUE]
     /\ conn' = "closed"
  \/ /\ ~Finished
     /\ retries <= MaxRetries
     /\ page' = [page EXCEPT !.retries = retries]
     /\ conn' = "waiting"

\* connect, 800 ms later.
Reconnect ==
  /\ conn = "waiting"
  /\ conn' = "connecting"
  /\ UNCHANGED <<serverVars, stream, wire, breaks, page>>

\* Variant: takes what the page wants next for what it has last seen.
ResumeBehind == page.nextIndex + 1
ResumeAt == page.nextIndex

\* Get: the handler resumes from the page's nextIndex, or there is no such session.
StreamOpens ==
  /\ conn = "connecting"
  /\ Mine # NoSession
  /\ conn' = "open"
  /\ stream' = [of |-> Mine, from |-> ResumeAt, told |-> -1, next |-> "poll", completed |-> 0]
  /\ wire' = <<[kind |-> "open"]>>
  /\ UNCHANGED <<serverVars, breaks, page>>
NoSuchSession ==
  /\ conn = "connecting"
  /\ Mine = NoSession
  /\ OnError
  /\ UNCHANGED <<serverVars, stream, wire, breaks>>

\* Touch fails when the session is gone.  Otherwise one snapshot serves the whole
\* turn of the loop: first the events not sent yet ...
StreamPolls ==
  /\ stream # NoStream /\ stream.next = "poll"
  /\ LET view == snapshot[stream.of]
         from == stream.from
     IN \/ /\ Mine = NoSession
           /\ stream' = NoStream
           /\ UNCHANGED wire
        \/ /\ Mine # NoSession
           /\ wire' = wire \o [k \in 1..(Len(view.feed) - from) |->
                                [kind |-> "feed", index |-> from + k - 1, event |-> view.feed[from + k]]]
           /\ stream' = [stream EXCEPT !.next = "status", !.completed = view.completed,
                           !.from = IF from < Len(view.feed) THEN Len(view.feed) ELSE from]
  /\ UNCHANGED <<serverVars, conn, breaks, page>>

\* ... then the status, if it is news; a tournament that is over ends the stream.
\* Variant: the status is of now, not of the snapshot.
NowCompleted == snapshot[stream.of].completed
SnapshotCompleted == stream.completed

\* Variant: a finished tournament keeps its stream open.
EndsNever(n) == FALSE
EndsStream(n) == n = Games

StreamStatus ==
  /\ stream # NoStream /\ stream.next = "status"
  /\ LET n == SnapshotCompleted IN
       /\ wire' = IF n = stream.told THEN wire
                  ELSE Append(wire, [kind |-> "status", completed |-> n])
       /\ stream' = IF EndsStream(n) THEN NoStream
                    ELSE [stream EXCEPT !.next = "poll", !.told = n, !.completed = 0]
  /\ UNCHANGED <<serverVars, conn, breaks, page>>

-----------------------------------------------------------------------------
\* The page's handlers of open, feed and status, one frame at a time.
Fold(frame) ==
  CASE frame.kind = "open" -> [page EXCEPT !.retries = 0]
    [] frame.kind = "status" -> [page EXCEPT !.completed = frame.completed]
    [] frame.kind = "feed" /\ frame.index < page.nextIndex -> page
    [] OTHER -> [page EXCEPT !.nextIndex = frame.index + 1,
                             !.folded = Append(@, frame.event)]

PageReads ==
  /\ conn = "open" /\ wire # <<>>
  /\ page' = Fold(Head(wire))
  /\ wire' = Tail(wire)
  /\ UNCHANGED <<serverVars, stream, conn, breaks>>

\* The handler has returned and everything it wrote has been read.
PageSeesEnd ==
  /\ conn = "open" /\ wire = <<>> /\ stream = NoStream
  /\ OnError
  /\ UNCHANGED <<serverVars, stream, wire, breaks>>

\* The connection breaks, or cannot be made; what is in flight is lost.
Cut ==
  /\ stream' = NoStream
  /\ wire' = <<>>
Breaks ==
  /\ conn \in {"connecting", "open"}
  /\ breaks < MaxBreaks
  /\ breaks' = breaks + 1
  /\ Cut
  /\ OnError
  /\ UNCHANGED serverVars

\* The server goes and comes back: no sessions, and the next id is the first again.
ServerRestarts ==
  /\ restarts < MaxRestarts
  /\ restarts' = restarts + 1
  /\ sessions' = <<>>
  /\ Cut
  /\ IF conn \in {"connecting", "open"} THEN OnError ELSE UNCHANGED <<conn, page>>
  /\ UNCHANGED <<snapshot, created, breaks>>

\* send: a control request that is answered 404 ends the page.
ControlNotFound ==
  /\ Mine = NoSession
  /\ ~page.lost
  /\ page' = [page EXCEPT !.lost = TRUE]
  /\ conn' = "closed"
  /\ Cut
  /\ UNCHANGED <<serverVars, breaks>>

-----------------------------------------------------------------------------
Next ==
  \/ \E t \in Tournament : HandleEvent(t) \/ OtherCreates(t)
  \/ \E id \in 1..Len(sessions) : Removed(id)
  \/ StreamOpens \/ NoSuchSession \/ StreamPolls \/ StreamStatus
  \/ Reconnect \/ PageReads \/ PageSeesEnd \/ ControlNotFound
  \/ Breaks \/ ServerRestarts

\* The server answers and its ticker ticks; the browser delivers events and timers.
\* Tournaments, visitors and clicks are not obliged to anything.
Fairness ==
  /\ WF_vars(StreamOpens \/ NoSuchSession) /\ WF_vars(Reconnect)
  /\ WF_vars(StreamPolls \/ StreamStatus)
  /\ WF_vars(PageReads \/ PageSeesEnd)

Spec == Init /\ [][Next]_vars
FairSpec == Spec /\ Fairness

-----------------------------------------------------------------------------
\* The feed of the whole tournament: four events a game, two of them of one seq.
WholeFeed ==
  [i \in 1..(4 * Games) |->
    LET place == (i - 1) % 4
        game == (i - 1) \div 4
    IN [seq |-> 3 * game + (IF place = 3 THEN 2 ELSE place),
        kind |-> <<"new-game", "decision", "decision", "game-completed">>[place + 1],
        game |-> game]]

(* However often the stream breaks and resumes, the page has applied the    *)
(* events of the tournament from the first on, in order, none twice, none   *)
(* skipped (server.go stream, eventsFrom; app.js connect: "resume from      *)
(* where the fold got to").                                                 *)
FoldIsPrefix ==
  /\ TypeOK
  /\ page.folded = SubSeq(WholeFeed, 1, Len(page.folded))
  /\ page.nextIndex = Len(page.folded)

(* What the status says is over, the page has already seen, the last game   *)
(* included (server.go stream: "the page never learns a game is over before *)
(* it has been told how it went").                                          *)
NoSpoiler == 4 * page.completed <= Len(page.folded)

(* When every tournament has ended or is gone, the page comes to rest: it   *)
(* has the whole feed, or says that the session is lost, and no stream is   *)
(* left that would keep a finished session alive (app.js onerror; server.go *)
(* stream's return when Done).                                              *)
AtRest ==
  /\ stream = NoStream
  /\ page.lost \/ page.folded = WholeFeed
PageComesToRest ==
  (\A t \in Tournament : <>[](Live(t) => snapshot[t].completed = Games)) => <>[]AtRest

(* app.js send: "A 404 means this session no longer exists -- the server    *)
(* has been restarted, or it was reclaimed": a page is never served another *)
(* session under its id.                                                    *)
ServedOwnSession == stream # NoStream => stream.of = Own
=============================================================================
