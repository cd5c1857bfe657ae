------------------------- MODULE GoldenStoreProofs -------------------------
(***************************************************************************)
(* Proofs about GoldenStore, for any keys, outcomes, processes and callers *)
(* and any number of crashes and failures.                                 *)
(***************************************************************************)
EXTENDS GoldenStore, TLAPS

-----------------------------------------------------------------------------
\* What the model's data are built from.
LEMMA NothingIsRecords == Nothing \in Records
BY Z3 DEF Nothing, Records

LEMMA PutIsRecords ==
  ASSUME NEW f \in Records, NEW k \in Key, NEW h \in Outcome
  PROVE  Put(f, k, h) \in Records
<1>1. PICK K \in SUBSET Key : f \in [K -> Outcome]
  BY DEF Records
<1>2. Put(f, k, h) \in [K \cup {k} -> Outcome]
  BY <1>1 DEF Put
<1>3. K \cup {k} \in SUBSET Key
  OBVIOUS
<1> QED
  BY <1>2, <1>3 DEF Records

LEMMA NoJobIsJob == NoJob \in Job
<1>1. PICK k \in Key, h \in Outcome : TRUE
  BY GoldenStoreAssumption
<1>2. [key |-> k, clean |-> h, result |-> h, bug |-> FALSE] \in Job
  BY <1>1 DEF Job
<1> QED
  BY <1>2 DEF NoJob

LEMMA ProcIsProcess == \A c \in Caller : ProcOf[c] \in Process
BY GoldenStoreAssumption DEF Process

-----------------------------------------------------------------------------
\* What the processes have in memory.
Memory ==
  /\ job \in [Process -> Job]
  /\ outcomes \in [Process -> Records]

\* Nobody renames a file that is still being written: only between its creation
\* and the return of Write is a temporary file torn, and it is its caller's alone.
Disk ==
  /\ file \in Records
  /\ temp \in [Caller -> Records \cup {Torn}]
  /\ call \in [Caller -> [pc : CallPc, of : {"reference", "verify"}]]
  /\ \A c \in Caller : call[c].pc = "rename" => temp[c] \in Records

LEMMA GoneMemory ==
  ASSUME Memory, NEW p \in Process, Gone(p)
  PROVE  Memory'
BY NothingIsRecords, NoJobIsJob DEF Memory, Gone

LEMMA MemoryStep == Memory /\ Disk /\ [Next]_vars => Memory'
<1> SUFFICES ASSUME Memory, Disk, [Next]_vars PROVE Memory'
  OBVIOUS
<1>1. CASE UNCHANGED <<job, outcomes>>
  BY <1>1 DEF Memory
<1>2. CASE \E p \in Process : Launch(p)
  BY <1>2 DEF Memory, Disk, Launch
<1>3. CASE \E p \in Process : Gone(p)
  BY <1>3, GoneMemory
<1>4. CASE \E c \in Caller, of \in {"reference", "verify"}, h \in Outcome : Keep(c, of, h)
  <2>1. PICK c \in Caller, of \in {"reference", "verify"}, h \in Outcome : Keep(c, of, h)
    BY <1>4
  <2>2. ProcOf[c] \in Process /\ KeyOf(c) \in Key
    BY ProcIsProcess DEF Memory, KeyOf, Job
  <2>3. Put(outcomes[ProcOf[c]], KeyOf(c), h) \in Records
    BY <2>2, PutIsRecords DEF Memory
  <2> QED
    BY <2>1, <2>2, <2>3 DEF Memory, Keep
<1>5. CASE \E c \in Caller : Record(c) \/ VerifyFirst(c)
  <2>1. PICK c \in Caller : Record(c) \/ VerifyFirst(c)
    BY <1>5
  <2>2. job[ProcOf[c]].clean \in Outcome /\ job[ProcOf[c]].result \in Outcome
    BY ProcIsProcess DEF Memory, Job
  <2> QED
    BY <2>1, <2>2, <1>4 DEF Record, VerifyFirst
<1>6. CASE \E c \in Caller : Fails(c) \/ Succeeds(c)
  BY <1>6, <1>1, <1>3, ProcIsProcess DEF Fails, Succeeds
<1>7. CASE \E c \in Caller : GetMissing(c) \/ ReferenceFound(c) \/ CreateTemp(c) \/ WriteTemp(c)
  BY <1>7, <1>1 DEF GetMissing, ReferenceFound, CreateTemp, WriteTemp
<1> QED
  BY <1>1, <1>2, <1>3, <1>5, <1>6, <1>7, ProcIsProcess
  DEF Next, vars, Crash, VerifyAgain, RenameTemp, FlushFails, FailureReported

-----------------------------------------------------------------------------
\* The calls of a process that goes are over; the others' are where they were.
LEMMA GoneDisk ==
  ASSUME Disk, NEW p \in Process, Gone(p)
  PROVE  /\ call' \in [Caller -> [pc : CallPc, of : {"reference", "verify"}]]
         /\ \A c \in Caller : call'[c].pc = "rename" => call[c].pc = "rename"
         /\ \A c \in Callers(p) : call'[c].pc = "idle"
BY DEF Disk, Gone, Callers, Idle, CallPc, Flushing

\* A call that returns puts nobody else before a rename.
LEMMA ReturnDisk ==
  ASSUME Disk, NEW c \in Caller, Fails(c) \/ Succeeds(c)
  PROVE  /\ call' \in [Caller -> [pc : CallPc, of : {"reference", "verify"}]]
         /\ \A d \in Caller : call'[d].pc = "rename" => call[d].pc = "rename" /\ d # c
<1>1. CASE Gone(ProcOf[c])
  <2>1. c \in Callers(ProcOf[c])
    BY DEF Callers
  <2> QED
    BY <1>1, <2>1, GoneDisk, ProcIsProcess
<1>2. CASE call' = [call EXCEPT ![c] = Idle]
  BY <1>2 DEF Disk, Idle, CallPc, Flushing
<1>3. CASE call' = [call EXCEPT ![c].pc = "verify"]
  BY <1>3 DEF Disk, CallPc, Flushing
<1> QED
  BY <1>1, <1>2, <1>3 DEF Fails, Succeeds

LEMMA DiskStep == Memory /\ Disk /\ [Next]_vars => Disk'
<1> SUFFICES ASSUME Memory, Disk, [Next]_vars PROVE Disk'
  OBVIOUS
<1>1. CASE UNCHANGED vars
  BY <1>1 DEF Disk, vars
<1>2. ASSUME NEW p \in Process, Launch(p) PROVE Disk'
  <2>1. \A c \in Caller : call'[c] = call[c] \/ call'[c].pc \in {"reference", "verify"}
    BY <1>2 DEF Launch, Idle
  <2>2. call' \in [Caller -> [pc : CallPc, of : {"reference", "verify"}]]
    BY <1>2 DEF Launch, Idle, Disk, CallPc
  <2> QED
    BY <1>2, <2>1, <2>2 DEF Disk, Launch
<1>3. ASSUME NEW p \in Process, Crash(p) PROVE Disk'
  <2>1. Gone(p) /\ UNCHANGED file
    BY <1>3 DEF Crash
  <2>2. temp' = [c \in Caller |-> IF c \in Callers(p) THEN Nothing ELSE temp[c]]
    BY <1>3 DEF Crash
  <2> QED
    BY <2>1, <2>2, GoneDisk, NothingIsRecords DEF Disk
<1>4. ASSUME NEW c \in Caller, GetMissing(c) \/ ReferenceFound(c) PROVE Disk'
  BY <1>4 DEF GetMissing, ReferenceFound, Disk, CallPc
<1>5. ASSUME NEW c \in Caller, Record(c) \/ VerifyFirst(c) PROVE Disk'
  <2>1. /\ \E of \in {"reference", "verify"} : call' = [call EXCEPT ![c] = [pc |-> "create", of |-> of]]
        /\ UNCHANGED <<file, temp>>
    BY <1>5 DEF Record, VerifyFirst, Keep
  <2> QED
    BY <2>1 DEF Disk, CallPc, Flushing
<1>6. ASSUME NEW c \in Caller, VerifyAgain(c) PROVE Disk'
  <2>1. Gone(ProcOf[c]) /\ UNCHANGED <<file, temp>>
    BY <1>6 DEF VerifyAgain
  <2> QED
    BY <2>1, GoneDisk, ProcIsProcess DEF Disk
<1>7. ASSUME NEW c \in Caller, CreateTemp(c) PROVE Disk'
  BY <1>7 DEF CreateTemp, TempOf, Disk, CallPc, Flushing
<1>8. ASSUME NEW c \in Caller, WriteTemp(c) PROVE Disk'
  <2>1. outcomes[ProcOf[c]] \in Records
    BY ProcIsProcess DEF Memory
  <2> QED
    BY <1>8, <2>1 DEF WriteTemp, TempOf, Disk, CallPc, Flushing
<1>9. ASSUME NEW c \in Caller, RenameTemp(c) PROVE Disk'
  <2>1. /\ call[c].pc = "rename" /\ file' = temp[c]
        /\ temp' = [temp EXCEPT ![c] = Nothing]
        /\ Succeeds(c)
    BY <1>9 DEF RenameTemp, TempOf
  <2> QED
    BY <2>1, ReturnDisk, NothingIsRecords DEF Disk
<1>10. ASSUME NEW c \in Caller, FlushFails(c) PROVE Disk'
  <2>1. temp' = [temp EXCEPT ![c] = Nothing] /\ Fails(c) /\ UNCHANGED file
    BY <1>10 DEF FlushFails, FailureReported, TempOf
  <2> QED
    BY <2>1, ReturnDisk, NothingIsRecords DEF Disk
<1> QED
  BY <1>1, <1>2, <1>3, <1>4, <1>5, <1>6, <1>7, <1>8, <1>9, <1>10 DEF Next

(* However many processes share the file, whoever crashes and whatever      *)
(* fails: the golden file is at every moment a whole set of records, so no  *)
(* process ever fails to parse it (store.go flushLocked, Open).             *)
THEOREM FileStaysWhole == Spec => []FileIsWhole
<1>1. Init => Memory /\ Disk
  BY NothingIsRecords, NoJobIsJob DEF Init, Memory, Disk, Idle, CallPc, Flushing
<1>2. Memory /\ Disk /\ [Next]_vars => (Memory /\ Disk)'
  BY MemoryStep, DiskStep
<1>3. Disk => FileIsWhole
  BY GoldenStoreAssumption DEF Disk, FileIsWhole
<1> QED
  BY <1>1, <1>2, <1>3, PTL DEF Spec

-----------------------------------------------------------------------------
\* Whose turn it is: only processes that are up have calls under way, servers and
\* commands make their own calls, and one caller of a process at a time flushes.
Calls ==
  /\ up \subseteq Process
  /\ \A c \in Caller : call[c].pc # "idle" => ProcOf[c] \in up
  /\ \A c \in Caller : call[c].pc \in {"reference", "verify"} => ProcOf[c] \in Command
  /\ \A c \in Caller : call[c].pc = "missing" => ProcOf[c] \in Server
  /\ \A c, d \in Caller :
       call[c].pc \in Flushing /\ call[d].pc \in Flushing /\ ProcOf[c] = ProcOf[d] => c = d

\* What a caller may rely on in its process's map: what has been recorded since it
\* found nothing is what it will record, and what it writes is what is there.
Maps ==
  \A c \in Caller :
    /\ call[c].pc = "missing" /\ Known(c) =>
         outcomes[ProcOf[c]][KeyOf(c)] = job[ProcOf[c]].clean
    /\ call[c].pc \in Flushing => Known(c)
    /\ call[c].pc = "rename" => temp[c] = outcomes[ProcOf[c]]

Extends(f, g) ==
  /\ DOMAIN g \subseteq DOMAIN f
  /\ \A k \in DOMAIN g : f[k] = g[k]

\* Where processes do not overlap, the map of the one that is up is ahead of the
\* file, a command's only while it flushes, and the file has all that was accepted.
Kept ==
  alone =>
    /\ \A p, q \in up : p = q
    /\ \A p \in up : Extends(outcomes[p], file)
    /\ \A p \in up \cap Command : ~Locked(p) => outcomes[p] = file
    /\ \A r \in onRecord : r[1] \in DOMAIN file /\ file[r[1]] = r[2]

IInv == Memory /\ Disk /\ Calls /\ Maps

\* A process that goes takes its own calls with it and nobody else's.
LEMMA GoneKeeps ==
  ASSUME IInv, NEW p \in Process, Gone(p),
         \A c \in Caller \ Callers(p) : temp'[c] = temp[c]
  PROVE  Calls' /\ Maps'
<1> DEFINE Other(c) == /\ call'[c] = call[c] /\ ProcOf[c] # p
                       /\ job'[ProcOf[c]] = job[ProcOf[c]]
                       /\ outcomes'[ProcOf[c]] = outcomes[ProcOf[c]]
                       /\ temp'[c] = temp[c]
<1>1. \A c \in Caller : call'[c].pc = "idle" \/ Other(c)
  BY ProcIsProcess DEF IInv, Memory, Gone, Callers, Idle
<1>2. up' = up \ {p}
  BY DEF Gone
<1> HIDE DEF Other
<1>3. Calls'
  <2>1. \A c \in Caller : Other(c) => call'[c] = call[c] /\ ProcOf[c] # p
    BY DEF Other
  <2> QED
    BY <1>1, <1>2, <2>1 DEF IInv, Calls, Flushing
<1>4. Maps'
  <2> SUFFICES ASSUME NEW c \in Caller, call'[c].pc # "idle"
      PROVE  /\ call'[c].pc = "missing" /\ Known(c)' =>
                  outcomes'[ProcOf[c]][KeyOf(c)'] = job'[ProcOf[c]].clean
             /\ call'[c].pc \in Flushing => Known(c)'
             /\ call'[c].pc = "rename" => temp'[c] = outcomes'[ProcOf[c]]
    BY DEF Maps, Flushing
  <2> QED
    BY <1>1 DEF Other, IInv, Maps, Known, KeyOf
<1> QED
  BY <1>3, <1>4

\* A call that leaves the flush puts nobody else anywhere.
LEMMA ReturnKeeps ==
  ASSUME IInv, NEW c \in Caller, call[c].pc \in Flushing, Fails(c) \/ Succeeds(c),
         temp' = [temp EXCEPT ![c] = Nothing]
  PROVE  Calls' /\ Maps'
<1>1. \A d \in Caller : d # c => temp'[d] = temp[d]
  BY DEF IInv, Disk
<1>2. CASE Gone(ProcOf[c])
  <2>1. c \in Callers(ProcOf[c])
    BY DEF Callers
  <2> QED
    BY <1>1, <1>2, <2>1, GoneKeeps, ProcIsProcess
<1>3. CASE ~Gone(ProcOf[c])
  <2>1. /\ UNCHANGED <<up, job, outcomes>>
        /\ \A d \in Caller : d # c => call'[d] = call[d]
        /\ \/ call'[c].pc = "idle"
           \/ call'[c].pc = "verify" /\ ProcOf[c] \in Command
    BY <1>3 DEF Fails, Succeeds, Idle, IInv, Disk
  <2>2. Calls'
    BY <2>1 DEF IInv, Calls, Flushing
  <2>3. Maps'
    BY <1>1, <2>1 DEF IInv, Maps, Known, KeyOf, Flushing
  <2> QED
    BY <2>2, <2>3
<1> QED
  BY <1>2, <1>3

\* An outcome that goes into the map of a process is new there, or the one it has.
LEMMA KeepKeeps ==
  ASSUME IInv, NEW c \in Caller, NEW of \in {"reference", "verify"}, NEW h \in Outcome,
         Keep(c, of, h), ProcOf[c] \in up,
         Known(c) => outcomes[ProcOf[c]][KeyOf(c)] = h,
         ProcOf[c] \in Server => h = job[ProcOf[c]].clean
  PROVE  Calls' /\ Maps' /\ (Kept => Kept')
<1> DEFINE p == ProcOf[c]
           put == Put(outcomes[p], KeyOf(c), h)
<1>1. p \in Process
  BY ProcIsProcess
<1>2. /\ UNCHANGED <<file, temp, up, job, onRecord, alone>>
      /\ call'[c].pc = "create" /\ \A d \in Caller : d # c => call'[d] = call[d]
      /\ outcomes'[p] = put /\ \A q \in Process : q # p => outcomes'[q] = outcomes[q]
      /\ \A d \in Caller : ProcOf[d] = p => call[d].pc \notin Flushing
  BY <1>1 DEF Keep, IInv, Memory, Disk, Locked, Callers
<1>3. /\ DOMAIN put = DOMAIN outcomes[p] \cup {KeyOf(c)}
      /\ put[KeyOf(c)] = h
      /\ \A k \in DOMAIN outcomes[p] : put[k] = outcomes[p][k]
  BY DEF Put, Known
<1> HIDE DEF p, put
<1>4. Calls'
  BY <1>2 DEF IInv, Calls, Flushing, p
<1>5. Maps'
  <2> SUFFICES ASSUME NEW d \in Caller
      PROVE  /\ call'[d].pc = "missing" /\ Known(d)' =>
                  outcomes'[ProcOf[d]][KeyOf(d)'] = job'[ProcOf[d]].clean
             /\ call'[d].pc \in Flushing => Known(d)'
             /\ call'[d].pc = "rename" => temp'[d] = outcomes'[ProcOf[d]]
    BY DEF Maps
  <2>1. KeyOf(d)' = KeyOf(d) /\ (ProcOf[d] = p => KeyOf(d) = KeyOf(c))
    BY <1>2 DEF KeyOf, p
  <2>2. CASE ProcOf[d] # p
    BY <1>2, <2>1, <2>2, ProcIsProcess DEF IInv, Maps, Known, p
  <2>3. CASE ProcOf[d] = p
    BY <1>2, <1>3, <2>1, <2>3 DEF IInv, Calls, Known, Flushing, p
  <2> QED
    BY <2>2, <2>3
<1>6. Kept => Kept'
  <2> SUFFICES ASSUME Kept, alone PROVE Kept'
    BY <1>2 DEF Kept
  <2>1. \A q \in up : q = p
    BY DEF Kept, p
  <2>2. Extends(put, file)
    BY <1>3 DEF Kept, Extends, p
  <2>3. Locked(p)'
    BY <1>2 DEF Locked, Callers, Flushing, p
  <2> QED
    BY <1>2, <2>1, <2>2, <2>3 DEF Kept
<1> QED
  BY <1>4, <1>5, <1>6

LEMMA LaunchKeeps ==
  ASSUME IInv, NEW p \in Process, Launch(p)
  PROVE  Calls' /\ Maps' /\ (Kept => Kept')
<1>1. /\ UNCHANGED <<file, temp, onRecord, alone>>
      /\ p \notin up /\ up' = up \cup {p}
      /\ outcomes'[p] = file /\ \A q \in Process : q # p => outcomes'[q] = outcomes[q]
      /\ \A q \in Process : q # p => job'[q] = job[q]
      /\ alone => up = {}
  BY DEF Launch, IInv, Memory
<1>2. \A c \in Caller :
        \/ ProcOf[c] # p /\ call'[c] = call[c]
        \/ ProcOf[c] = p /\ call'[c].pc = "idle"
        \/ ProcOf[c] = p /\ p \in Command /\ call'[c].pc \in {"reference", "verify"}
  BY <1>1 DEF Launch, Callers, Idle, IInv, Calls
<1>3. Calls'
  BY <1>1, <1>2 DEF IInv, Calls, Flushing
<1>4. Maps'
  BY <1>1, <1>2, ProcIsProcess DEF IInv, Maps, Known, KeyOf, Flushing
<1>5. Kept => Kept'
  BY <1>1 DEF Kept, Extends
<1> QED
  BY <1>3, <1>4, <1>5

LEMMA RenameKeeps ==
  ASSUME IInv, NEW c \in Caller, RenameTemp(c)
  PROVE  /\ Calls' /\ Maps' /\ (Kept => Kept')
         /\ Kept /\ alone => Extends(file', file)
<1> DEFINE p == ProcOf[c]
<1>1. /\ call[c].pc = "rename" /\ p \in up /\ Known(c)
      /\ file' = outcomes[p]
      /\ temp' = [temp EXCEPT ![c] = Nothing]
      /\ onRecord' = onRecord \cup {<<KeyOf(c), outcomes[p][KeyOf(c)]>>}
      /\ alone' = alone
      /\ Succeeds(c)
  BY DEF RenameTemp, TempOf, IInv, Calls, Maps, Flushing
<1>2. Calls' /\ Maps'
  BY <1>1, ReturnKeeps DEF Flushing
<1>3. \/ up' = up \ {p}
      \/ up' = up /\ outcomes' = outcomes
  BY <1>1 DEF Succeeds, Fails, Gone
<1>4. ASSUME Kept, alone PROVE Kept' /\ Extends(file', file)
  <2>1. \A q \in up : q = p
    BY <1>1, <1>4 DEF Kept
  <2>2. Extends(file', file)
    BY <1>1, <1>4 DEF Kept
  <2>3. \A r \in onRecord' : r[1] \in DOMAIN file' /\ file'[r[1]] = r[2]
    BY <1>1, <1>4, <2>2 DEF Kept, Extends, Known
  <2>4. \A q \in up' : q = p /\ outcomes'[q] = file'
    BY <1>1, <1>3, <2>1
  <2>5. \A q \in up' : Extends(outcomes'[q], file')
    BY <2>4 DEF Extends
  <2> QED
    BY <2>2, <2>3, <2>4, <2>5 DEF Kept
<1> QED
  BY <1>1, <1>2, <1>4 DEF Kept

\* Steps that end a process, or a call, and leave the file alone.
LEMMA EndKeeps ==
  ASSUME IInv, UNCHANGED <<file, alone>>, Kept,
         \/ \E p \in Process : Gone(p)
         \/ /\ UNCHANGED <<up, outcomes>>
            /\ \A p \in up \cap Command : ~Locked(p)' => ~Locked(p),
         alone => \A r \in onRecord' : r[1] \in DOMAIN file /\ file[r[1]] = r[2]
  PROVE  Kept'
<1>1. CASE \E p \in Process : Gone(p)
  <2>1. PICK p \in Process : Gone(p)
    BY <1>1
  <2>2. up' = up \ {p} /\ \A q \in Process : q # p => outcomes'[q] = outcomes[q]
    BY <2>1 DEF Gone, IInv, Memory
  <2>3. \A q \in Process : q # p => (Locked(q)' <=> Locked(q))
    BY <2>1 DEF Gone, Locked, Callers
  <2> QED
    BY <2>2, <2>3 DEF Kept, IInv, Calls
<1>2. CASE /\ UNCHANGED <<up, outcomes>>
           /\ \A p \in up \cap Command : ~Locked(p)' => ~Locked(p)
  BY <1>2 DEF Kept
<1> QED
  BY <1>1, <1>2

\* A call that moves on inside its process, or ends, without a flush.
LEMMA MoveKeeps ==
  ASSUME IInv, NEW c \in Caller, ProcOf[c] \in up,
         GetMissing(c) \/ ReferenceFound(c) \/ CreateTemp(c) \/ WriteTemp(c)
  PROVE  Calls' /\ Maps' /\ (Kept => Kept')
<1>1. /\ UNCHANGED <<file, up, job, outcomes, onRecord, alone>>
      /\ \A d \in Caller : d # c => call'[d] = call[d] /\ temp'[d] = temp[d]
  BY DEF GetMissing, ReferenceFound, CreateTemp, WriteTemp, TempOf, IInv, Disk
<1>2. \/ call'[c].pc = "missing" /\ ~Known(c) /\ ProcOf[c] \in Server
         /\ call[c].pc \notin Flushing
      \/ call'[c].pc = "verify" /\ ProcOf[c] \in Command /\ call[c].pc \notin Flushing
      \/ /\ call[c].pc \in Flushing /\ call'[c].pc \in Flushing
         /\ call'[c].pc = "rename" => temp'[c] = outcomes[ProcOf[c]]
  BY DEF GetMissing, ReferenceFound, CreateTemp, WriteTemp, TempOf, IInv, Disk, Calls, Flushing
<1>3. Calls'
  BY <1>1, <1>2 DEF IInv, Calls, Flushing
<1>4. Maps'
  BY <1>1, <1>2 DEF IInv, Maps, Known, KeyOf, Flushing
<1>5. \A p \in Process : ~Locked(p)' => ~Locked(p)
  BY <1>1, <1>2 DEF Locked, Callers, Flushing
<1>6. Kept => Kept'
  BY <1>1, <1>5 DEF Kept, IInv, Calls
<1> QED
  BY <1>3, <1>4, <1>6

LEMMA FlushFailsKeeps ==
  ASSUME IInv, NEW c \in Caller, FlushFails(c)
  PROVE  Calls' /\ Maps' /\ (Kept => Kept')
<1>1. /\ call[c].pc \in Flushing /\ Fails(c)
      /\ temp' = [temp EXCEPT ![c] = Nothing]
      /\ UNCHANGED <<file, alone, onRecord>>
  BY DEF FlushFails, FailureReported, TempOf
<1>2. Calls' /\ Maps'
  BY <1>1, ReturnKeeps
<1>3. CASE Gone(ProcOf[c])
  BY <1>1, <1>2, <1>3, EndKeeps, ProcIsProcess DEF Kept
<1>4. CASE ~Gone(ProcOf[c])
  <2>1. /\ ProcOf[c] \notin Command /\ UNCHANGED <<up, outcomes>>
        /\ \A d \in Caller : d # c => call'[d] = call[d]
    BY <1>1, <1>4 DEF Fails, IInv, Disk
  <2>2. \A p \in Command : ~Locked(p)' => ~Locked(p)
    BY <2>1 DEF Locked, Callers
  <2> QED
    BY <1>1, <1>2, <2>1, <2>2, EndKeeps DEF Kept
<1> QED
  BY <1>3, <1>4

\* A result that agrees with the map of a command that is not flushing is on disk.
LEMMA VerifyAgainKeeps ==
  ASSUME IInv, NEW c \in Caller, VerifyAgain(c)
  PROVE  Calls' /\ Maps' /\ (Kept => Kept')
<1> DEFINE p == ProcOf[c]
<1>1. /\ p \in up \cap Command /\ ~Locked(p) /\ Known(c)
      /\ Gone(p) /\ UNCHANGED <<file, temp, alone>>
      /\ \A r \in onRecord' \ onRecord :
           r[1] = KeyOf(c) /\ r[2] = outcomes[p][KeyOf(c)]
  BY DEF VerifyAgain, FirstRun, IInv, Calls
<1>2. Calls' /\ Maps'
  BY <1>1, GoneKeeps, ProcIsProcess
<1>3. Kept /\ alone => \A r \in onRecord' : r[1] \in DOMAIN file /\ file[r[1]] = r[2]
  BY <1>1 DEF Kept, Known
<1> QED
  BY <1>1, <1>2, <1>3, EndKeeps, ProcIsProcess DEF Kept

LEMMA RecordKeeps ==
  ASSUME IInv, NEW c \in Caller, Record(c) \/ VerifyFirst(c)
  PROVE  Calls' /\ Maps' /\ (Kept => Kept')
<1>1. job[ProcOf[c]].clean \in Outcome /\ job[ProcOf[c]].result \in Outcome
  BY ProcIsProcess DEF IInv, Memory, Job
<1>2. ProcOf[c] \in up
  BY DEF Record, VerifyFirst, IInv, Calls
<1>3. Server \cap Command = {}
  BY GoldenStoreAssumption
<1>4. CASE Record(c)
  BY <1>1, <1>2, <1>4, KeepKeeps DEF Record, IInv, Maps
<1>5. CASE VerifyFirst(c)
  BY <1>1, <1>2, <1>3, <1>5, KeepKeeps DEF VerifyFirst, FirstRun, IInv, Calls
<1> QED
  BY <1>4, <1>5

LEMMA CrashKeeps ==
  ASSUME IInv, NEW p \in Process, Crash(p)
  PROVE  Calls' /\ Maps' /\ (Kept => Kept')
<1>1. /\ Gone(p) /\ UNCHANGED <<file, alone, onRecord>>
      /\ \A c \in Caller \ Callers(p) : temp'[c] = temp[c]
  BY DEF Crash
<1> QED
  BY <1>1, GoneKeeps, EndKeeps DEF Kept

LEMMA IInvStep ==
  IInv /\ Kept /\ [Next]_vars => IInv' /\ Kept' /\ alone' = alone /\ (alone => Extends(file', file))
<1> SUFFICES ASSUME IInv, Kept, [Next]_vars
    PROVE Calls' /\ Maps' /\ Kept' /\ alone' = alone /\ (alone => Extends(file', file))
  BY MemoryStep, DiskStep DEF IInv
<1>1. CASE UNCHANGED vars
  BY <1>1 DEF vars, IInv, Calls, Maps, Kept, Known, KeyOf, Locked, Extends
<1>2. ASSUME NEW p \in Process, Launch(p) \/ Crash(p)
      PROVE Calls' /\ Maps' /\ Kept' /\ alone' = alone /\ (alone => Extends(file', file))
  BY <1>2, LaunchKeeps, CrashKeeps DEF Launch, Crash, Extends
<1>3. ASSUME NEW c \in Caller,
             GetMissing(c) \/ ReferenceFound(c) \/ CreateTemp(c) \/ WriteTemp(c)
      PROVE Calls' /\ Maps' /\ Kept' /\ alone' = alone /\ (alone => Extends(file', file))
  <2>1. ProcOf[c] \in up /\ UNCHANGED <<file, alone>>
    BY <1>3 DEF GetMissing, ReferenceFound, CreateTemp, WriteTemp, IInv, Calls
  <2> QED
    BY <1>3, <2>1, MoveKeeps DEF Extends
<1>4. ASSUME NEW c \in Caller, Record(c) \/ VerifyFirst(c) \/ VerifyAgain(c) \/ FlushFails(c)
      PROVE Calls' /\ Maps' /\ Kept' /\ alone' = alone /\ (alone => Extends(file', file))
  <2>1. UNCHANGED <<file, alone>>
    BY <1>4 DEF Record, VerifyFirst, Keep, VerifyAgain, FlushFails
  <2> QED
    BY <1>4, <2>1, RecordKeeps, VerifyAgainKeeps, FlushFailsKeeps DEF Extends
<1>5. ASSUME NEW c \in Caller, RenameTemp(c)
      PROVE Calls' /\ Maps' /\ Kept' /\ alone' = alone /\ (alone => Extends(file', file))
  BY <1>5, RenameKeeps DEF RenameTemp
<1> QED
  BY <1>1, <1>2, <1>3, <1>4, <1>5 DEF Next

LEMMA IInvInit == Init => IInv /\ Kept
<1>1. Init => Memory /\ Disk
  BY NothingIsRecords, NoJobIsJob DEF Init, Memory, Disk, Idle, CallPc, Flushing
<1> QED
  BY <1>1 DEF Init, IInv, Calls, Maps, Kept, Idle, Flushing

(* For any processes run one at a time, the golden file is a map in which    *)
(* the first run wins: every step of the store is a step of FirstWins or     *)
(* changes nothing there (store.go Verify, Record, flushLocked).             *)
THEOREM StoreImplementsFirstWins == Spec => FirstRunWins
<1> DEFINE record == IF alone THEN file ELSE Nothing
<1>1. Init => First!Init
  BY DEF Init, First!Init, Nothing
<1>2. IInv /\ IInv' /\ alone' = alone /\ (alone => Extends(file', file))
        => [First!Next]_record
  <2> SUFFICES ASSUME IInv, IInv', alone' = alone, alone => Extends(file', file)
      PROVE  [First!Next]_record
    OBVIOUS
  <2>1. CASE ~alone
    BY <2>1
  <2>2. CASE alone
    <3>1. \A k \in DOMAIN file' : file'[k] \in Outcome
      BY DEF IInv, Disk, Records
    <3> QED
      BY <2>2, <3>1 DEF First!Next, Extends
  <2> QED
    BY <2>1, <2>2
<1>3. IInv /\ Kept /\ [Next]_vars => (IInv /\ Kept)' /\ [First!Next]_record
  BY <1>2, IInvStep
<1> QED
  BY <1>1, <1>3, IInvInit, PTL DEF Spec, FirstRunWins, First!Spec

-----------------------------------------------------------------------------
\* The variables IInv does not type.
Told ==
  /\ onRecord \subseteq Key \X Outcome
  /\ up \subseteq Process

LEMMA ToldStep == IInv /\ Told /\ [Next]_vars => onRecord' \subseteq Key \X Outcome
<1> SUFFICES ASSUME IInv, Told, [Next]_vars PROVE onRecord' \subseteq Key \X Outcome
  OBVIOUS
<1>1. ASSUME NEW c \in Caller, Known(c)
      PROVE <<KeyOf(c), outcomes[ProcOf[c]][KeyOf(c)]>> \in Key \X Outcome
  <2>1. outcomes[ProcOf[c]] \in Records
    BY ProcIsProcess DEF IInv, Memory
  <2>2. \A f \in Records : \A k \in DOMAIN f : k \in Key /\ f[k] \in Outcome
    BY DEF Records
  <2> QED
    BY <1>1, <2>1, <2>2 DEF Known
<1>2. CASE UNCHANGED onRecord
  BY <1>2 DEF Told
<1>3. ASSUME NEW c \in Caller, RenameTemp(c) PROVE onRecord' \subseteq Key \X Outcome
  BY <1>1, <1>3 DEF RenameTemp, IInv, Maps, Flushing, Told
<1>4. ASSUME NEW c \in Caller, VerifyAgain(c) PROVE onRecord' \subseteq Key \X Outcome
  BY <1>1, <1>4 DEF VerifyAgain, FirstRun, Told
<1> QED
  BY <1>2, <1>3, <1>4 DEF Next, vars, Launch, Crash, GetMissing, Record, Keep, ReferenceFound,
     VerifyFirst, CreateTemp, WriteTemp, FlushFails, FailureReported

LEMMA AloneStep == alone \in BOOLEAN /\ alone' = alone => alone' \in BOOLEAN
BY Zenon

LEMMA TypeFromParts ==
  IInv /\ onRecord \subseteq Key \X Outcome /\ alone \in BOOLEAN => TypeOK
BY Zenon DEF IInv, Memory, Disk, Calls, TypeOK

(* For any processes run one at a time, what a caller was told is the record *)
(* is in the file for good, across failed writes, crashes and restarts; and  *)
(* every variable keeps its type (store.go Verify, Record; main.go verify).  *)
THEOREM AcceptedStaysOnRecord == Spec => []AcceptedIsOnRecord
<1> DEFINE Inv == IInv /\ Kept /\ onRecord \subseteq Key \X Outcome /\ alone \in BOOLEAN
<1>1. Init => Inv
  <2>1. Init => onRecord \subseteq Key \X Outcome
    BY DEF Init
  <2>2. Init => alone \in BOOLEAN
    BY Zenon DEF Init
  <2> QED
    BY <2>1, <2>2, IInvInit, Zenon
<1>2. Inv /\ [Next]_vars => Inv'
  <2> SUFFICES ASSUME Inv, [Next]_vars PROVE Inv'
    OBVIOUS
  <2>1. IInv' /\ Kept' /\ alone' = alone
    BY IInvStep, Zenon
  <2>2. Told
    BY Zenon DEF Told, IInv, Calls
  <2>3. onRecord' \subseteq Key \X Outcome
    BY <2>2, ToldStep, Zenon
  <2>4. alone' \in BOOLEAN
    BY <2>1, AloneStep, Zenon
  <2> QED
    BY <2>1, <2>3, <2>4, Zenon
<1>3. Inv => AcceptedIsOnRecord
  <2>1. Inv => TypeOK
    BY TypeFromParts, Zenon
  <2>2. Kept => (alone => \A r \in onRecord : r[1] \in DOMAIN file /\ file[r[1]] = r[2])
    BY DEF Kept
  <2> QED
    BY <2>1, <2>2, Zenon DEF AcceptedIsOnRecord
<1> QED
  BY <1>1, <1>2, <1>3, PTL DEF Spec
=============================================================================
