---------------------------- MODULE GoldenStore -----------------------------
(***************************************************************************)
(* The golden file and the stores that processes open on it                *)
(* (src/internal/golden/store.go), used the way the two commands use them: *)
(* a server records the reference its requests are missing (registry.go    *)
(* reference), a tournament verifies its result and exits                  *)
(* (src/cmd/tournament/main.go).  Processes crash anywhere, file           *)
(* operations fail; the file system keeps what has been renamed.           *)
(***************************************************************************)
EXTENDS FiniteSets

CONSTANTS
  Key,        \* seed and number of games
  Outcome,    \* outcomes, told apart by their StateHash
  Server,     \* processes that run the server
  Command,    \* processes that run one tournament
  Caller,     \* goroutines that use a store
  ProcOf,     \* [Caller -> Server \cup Command]
  Torn        \* a file that is not what somebody marshalled

\* What a file or a map may hold: an outcome for each of some keys.
Records == UNION {[K -> Outcome] : K \in SUBSET Key}

ASSUME GoldenStoreAssumption ==
  /\ Server \cap Command = {}
  /\ ProcOf \in [Caller -> Server \cup Command]
  /\ \A p \in Command : Cardinality({c \in Caller : ProcOf[c] = p}) = 1
  /\ Key # {} /\ Outcome # {}
  /\ Torn \notin Records

Process == Server \cup Command

VARIABLES
  file,       \* the file: its records, a function on some keys, or Torn
  temp,       \* the temporary file of each caller
  up,         \* processes that have opened the store
  job,        \* what each plays: its key, the clean run, its own result
  outcomes,   \* Store.outcomes of each process
  call,       \* where each caller is, and in which call
  onRecord,   \* history: outcomes a caller was told are the record
  alone       \* whether processes are run one at a time

vars == <<file, temp, up, job, outcomes, call, onRecord, alone>>

Nothing == [k \in {} |-> CHOOSE h \in Outcome : TRUE]
Put(f, k, h) == [x \in DOMAIN f \cup {k} |-> IF x = k THEN h ELSE f[x]]

Job == [key : Key, clean : Outcome, result : Outcome, bug : BOOLEAN]
NoJob == CHOOSE j \in Job : TRUE

\* idle: outside the store.  missing: Get has found nothing.  reference, verify:
\* a tournament about to make that call.  The rest is flushLocked, under s.mu.
Flushing == {"create", "write", "rename"}
CallPc == {"idle", "missing", "reference", "verify"} \cup Flushing
Idle == [pc |-> "idle", of |-> "reference"]

TypeOK ==
  /\ file \in Records \cup {Torn}
  /\ temp \in [Caller -> Records \cup {Torn}]
  /\ up \subseteq Process
  /\ job \in [Process -> Job]
  /\ outcomes \in [Process -> Records]
  /\ call \in [Caller -> [pc : CallPc, of : {"reference", "verify"}]]
  /\ onRecord \subseteq Key \X Outcome
  /\ alone \in BOOLEAN

Init ==
  /\ file = Nothing
  /\ temp = [c \in Caller |-> Nothing]
  /\ up = {}
  /\ job = [p \in Process |-> NoJob]
  /\ outcomes = [p \in Process |-> Nothing]
  /\ call = [c \in Caller |-> Idle]
  /\ onRecord = {}
  /\ alone \in BOOLEAN

Callers(p) == {c \in Caller : ProcOf[c] = p}
Locked(p) == \E c \in Callers(p) : call[c].pc \in Flushing
KeyOf(c) == job[ProcOf[c]].key
Known(c) == KeyOf(c) \in DOMAIN outcomes[ProcOf[c]]

-----------------------------------------------------------------------------
\* Open loads the file; a file that does not parse ends the process there.
Launch(p) ==
  /\ p \notin up
  /\ alone => up = {}
  /\ file # Torn
  /\ up' = up \cup {p}
  /\ outcomes' = [outcomes EXCEPT ![p] = file]
  /\ \E j \in Job :
       /\ p \in Server => j.result = j.clean /\ ~j.bug
       /\ job' = [job EXCEPT ![p] = j]
       /\ call' = [c \in Caller |->
                    IF c \in Callers(p) /\ p \in Command
                    THEN [Idle EXCEPT !.pc = IF j.bug THEN "reference" ELSE "verify"]
                    ELSE call[c]]
  /\ UNCHANGED <<file, temp, onRecord, alone>>

\* The process is gone, with what it had in memory.  A temporary file it leaves
\* has a name nobody uses again.
Gone(p) ==
  /\ up' = up \ {p}
  /\ job' = [job EXCEPT ![p] = NoJob]
  /\ outcomes' = [outcomes EXCEPT ![p] = Nothing]
  /\ call' = [c \in Caller |-> IF c \in Callers(p) THEN Idle ELSE call[c]]

Crash(p) ==
  /\ p \in up
  /\ Gone(p)
  /\ temp' = [c \in Caller |-> IF c \in Callers(p) THEN Nothing ELSE temp[c]]
  /\ UNCHANGED <<file, onRecord, alone>>

\* What a caller does once its call has returned an error, or nil: a server's
\* request ends, a tournament goes from the reference to its run and then exits.
Fails(c) ==
  IF ProcOf[c] \in Command THEN Gone(ProcOf[c])
  ELSE call' = [call EXCEPT ![c] = Idle] /\ UNCHANGED <<up, job, outcomes>>
Succeeds(c) ==
  IF ProcOf[c] \in Command /\ call[c].of = "reference"
  THEN call' = [call EXCEPT ![c].pc = "verify"] /\ UNCHANGED <<up, job, outcomes>>
  ELSE Fails(c)

-----------------------------------------------------------------------------
\* registry.reference: Get finds nothing; Record is a later call.
GetMissing(c) ==
  /\ ProcOf[c] \in Server \cap up
  /\ call[c].pc = "idle" /\ ~Locked(ProcOf[c])
  /\ ~Known(c)
  /\ call' = [call EXCEPT ![c].pc = "missing"]
  /\ UNCHANGED <<file, temp, up, job, outcomes, onRecord, alone>>

\* An outcome goes into the map, and s.mu is held until the flush is over.
Keep(c, of, h) ==
  /\ ~Locked(ProcOf[c])
  /\ outcomes' = [outcomes EXCEPT ![ProcOf[c]] = Put(@, KeyOf(c), h)]
  /\ call' = [call EXCEPT ![c] = [pc |-> "create", of |-> of]]
  /\ UNCHANGED <<file, temp, up, job, onRecord, alone>>

\* Record replaces whatever is there.
Record(c) ==
  /\ \/ call[c].pc = "missing"
     \/ call[c].pc = "reference" /\ ~Known(c)
  /\ Keep(c, "reference", job[ProcOf[c]].clean)

\* The tournament's reference is in the store already.
ReferenceFound(c) ==
  /\ call[c].pc = "reference"
  /\ Known(c)
  /\ call' = [call EXCEPT ![c].pc = "verify"]
  /\ UNCHANGED <<file, temp, up, job, outcomes, onRecord, alone>>

\* Variant: a run that disagrees becomes the record.
FirstRunAlways(c) ==
  Known(c) => outcomes[ProcOf[c]][KeyOf(c)] # job[ProcOf[c]].result
FirstRun(c) == ~Known(c)

VerifyFirst(c) ==
  /\ call[c].pc = "verify"
  /\ FirstRun(c)
  /\ Keep(c, "verify", job[ProcOf[c]].result)

\* A later run: it agrees with the record, or MismatchError; the process exits.
VerifyAgain(c) ==
  LET p == ProcOf[c] IN
  /\ call[c].pc = "verify" /\ ~Locked(p)
  /\ ~FirstRun(c)
  /\ onRecord' = IF outcomes[p][KeyOf(c)] = job[p].result
                 THEN onRecord \cup {<<KeyOf(c), job[p].result>>} ELSE onRecord
  /\ Gone(p)
  /\ UNCHANGED <<file, temp, alone>>

-----------------------------------------------------------------------------
\* flushLocked.

\* Variant: one name for everybody's temporary file.
TempShared(c) == CHOOSE d \in Caller : TRUE
TempOf(c) == c

CreateTemp(c) ==
  /\ call[c].pc = "create"
  /\ temp' = [temp EXCEPT ![TempOf(c)] = Torn]
  /\ call' = [call EXCEPT ![c].pc = "write"]
  /\ UNCHANGED <<file, up, job, outcomes, onRecord, alone>>

\* Until Write has returned the file holds some prefix of the data.
WriteTemp(c) ==
  /\ call[c].pc = "write"
  /\ temp' = [temp EXCEPT ![TempOf(c)] = outcomes[ProcOf[c]]]
  /\ call' = [call EXCEPT ![c].pc = "rename"]
  /\ UNCHANGED <<file, up, job, outcomes, onRecord, alone>>

RenameTemp(c) ==
  /\ call[c].pc = "rename"
  /\ file' = temp[TempOf(c)]
  /\ temp' = [temp EXCEPT ![TempOf(c)] = Nothing]
  /\ onRecord' = onRecord \cup {<<KeyOf(c), outcomes[ProcOf[c]][KeyOf(c)]>>}
  /\ Succeeds(c)
  /\ UNCHANGED alone

\* Variant: the error of a failed write is not returned.
FailureHidden(c) ==
  /\ onRecord' = onRecord \cup {<<KeyOf(c), outcomes[ProcOf[c]][KeyOf(c)]>>}
  /\ Succeeds(c)
FailureReported(c) == Fails(c) /\ UNCHANGED onRecord

\* Any step fails; the temporary file is removed, the map keeps the outcome.
FlushFails(c) ==
  /\ call[c].pc \in Flushing
  /\ temp' = [temp EXCEPT ![TempOf(c)] = Nothing]
  /\ FailureReported(c)
  /\ UNCHANGED <<file, alone>>

-----------------------------------------------------------------------------
Next ==
  \/ \E p \in Process : Launch(p) \/ Crash(p)
  \/ \E c \in Caller :
       \/ GetMissing(c) \/ Record(c) \/ ReferenceFound(c)
       \/ VerifyFirst(c) \/ VerifyAgain(c)
       \/ CreateTemp(c) \/ WriteTemp(c) \/ RenameTemp(c) \/ FlushFails(c)

Spec == Init /\ [][Next]_vars

-----------------------------------------------------------------------------
(* Whoever crashes wherever, and however many processes share the file:     *)
(* nobody ever opens a file that does not parse (store.go flushLocked: "a   *)
(* crash mid-write cannot leave a truncated reference").                    *)
FileIsWhole == file # Torn

(* Processes run one at a time: what a caller was told is the record, or    *)
(* agrees with it, is in the file for good, so no two runs that disagree    *)
(* are ever both accepted, across failed writes, crashes and restarts       *)
(* (store.go Verify, Record; main.go verify).                               *)
AcceptedIsOnRecord ==
  /\ TypeOK
  /\ alone => \A r \in onRecord : r[1] \in DOMAIN file /\ file[r[1]] = r[2]

(* Processes run one at a time: the file is a map in which the first run    *)
(* wins.  Where they overlap it is not, and the mapping says nothing.       *)
First == INSTANCE FirstWins WITH record <- IF alone THEN file ELSE Nothing
FirstRunWins == First!Spec
=============================================================================
