---------------------------- MODULE ScanPipeline ----------------------------
(***************************************************************************)
(* Session::run_carve (reclaim-session) over CarveEngine::scan             *)
(* (reclaim-carve): the carve thread reads the source chunk by chunk and   *)
(* sends what it finds, and its cursor, over a bounded channel; the writer *)
(* thread stores the results and checkpoints the cursor in the session's   *)
(* SQLite database.  A session outlives its runs: a run may be             *)
(* interrupted, fail, crash with the process, lose power or its device,    *)
(* and the next run resumes from the checkpoint.                           *)
(*                                                                         *)
(* Abstractions.  An offset is a natural number, ChunkLen of them to a     *)
(* chunk (8 MiB in the code).  What the validators accept on the source is *)
(* a constant: Cand holds the offsets where one accepts, FileStart and     *)
(* FileEnd the range it reports, FullCand those it reports as Full.  A row *)
(* of the carved table is its candidate: the id is a hash of the range.    *)
(* Whether 5 s have passed or 1 GiB has been scanned since the last        *)
(* checkpoint is a free choice.  Event log, rates and counts are left out. *)
(***************************************************************************)
EXTENDS Integers, Sequences, FiniteSets

CONSTANTS
    NumChunks,      \* chunks of the source
    ChunkLen,       \* offsets of a chunk
    Cand,           \* offsets at which a validator accepts a file
    FileStart,      \* the start it reports: the offset, or before it (dmg)
    FileEnd,        \* the end it reports
    FullCand,       \* the candidates it reports as Full
    KeepCorrupted,  \* CarveOptions.keep_corrupted
    ChanCap,        \* capacity of the channel (BATCH * 4)
    Batch,          \* results buffered before an insert (BATCH)
    MaxFaults       \* how often each kind of fault may strike

FaultKind == {"interrupt", "crash", "power", "writer", "panic", "unplug"}

ASSUME ScanAssumption ==
    /\ NumChunks \in Nat \ {0}
    /\ ChunkLen \in Nat \ {0}
    /\ Cand \subseteq 0 .. (NumChunks * ChunkLen - 1)
    /\ FileStart \in [Cand -> Nat]
    /\ FileEnd \in [Cand -> Nat]
    /\ \A o \in Cand : FileStart[o] <= o /\ o < FileEnd[o]
    /\ FullCand \subseteq Cand
    /\ KeepCorrupted \in BOOLEAN
    /\ ChanCap \in Nat \ {0}
    /\ Batch \in Nat \ {0}
    /\ MaxFaults \in [FaultKind -> Nat]

VARIABLES
    scanner,    \* where the carve thread is
    pos,        \* its chunk
    todo,       \* candidates of the chunk it has yet to validate
    claims,     \* Full results whose range suppresses what starts inside
    stopped,    \* outcome.interrupted
    chan,       \* the channel, oldest message first
    rxOpen,     \* the writer still holds the receiving end
    writer,     \* where the writer is
    pending,    \* results received and not yet inserted
    cur,        \* cursor of the last progress message received
    cancel,     \* the cancellation flag
    intCount,   \* SIGINTs since the run started
    resumed,    \* this run continues from a stored cursor
    vanished,   \* the source has seen its device disappear (latched)
    plugged,    \* the open handle still has its device
    report,     \* how the last run ended
    db,         \* the database as the next statement sees it
    stale,      \* the states of it a power failure may bring back
    faults      \* faults so far, by kind

scanVars   == <<scanner, pos, todo, claims, stopped>>
writerVars == <<writer, pending, cur, resumed, report>>
storeVars  == <<db, stale>>
flagVars   == <<cancel, intCount, vanished, plugged>>
vars == <<scanVars, chan, rxOpen, writerVars, flagVars, storeVars, faults>>

-----------------------------------------------------------------------------
ChunkOf(o) == o \div ChunkLen

Emitted(o) == KeepCorrupted \/ o \in FullCand

\* `start > s && start < e` for some claim.
Suppressed(cl, o) == \E c \in cl : FileStart[c] < o /\ o < FileEnd[c]

FoundMsg(o)    == [type |-> "found", at |-> o]
ProgressMsg(k) == [type |-> "progress", at |-> k]
Msg == [type : {"found"}, at : Cand] \cup [type : {"progress"}, at : 0 .. NumChunks]

SavedKind == {"none", "partial", "complete"}
StoreState == [rows : SUBSET Cand, saved : SavedKind, cursor : 0 .. NumChunks]
EmptyStore == [rows |-> {}, saved |-> "none", cursor |-> 0]

Running == writer # "off"

\* One more fault of the kind.
Strike(kind) ==
    /\ faults[kind] < MaxFaults[kind]
    /\ faults' = [faults EXCEPT ![kind] = @ + 1]

Init ==
    /\ scanner = "off" /\ pos = 0 /\ todo = {} /\ claims = {} /\ stopped = FALSE
    /\ chan = <<>> /\ rxOpen = FALSE
    /\ writer = "off" /\ pending = {} /\ cur = 0
    /\ cancel = FALSE /\ intCount = 0 /\ resumed = FALSE
    /\ vanished = FALSE /\ plugged = TRUE
    /\ report = "none"
    /\ db = EmptyStore /\ stale = {}
    /\ faults = [k \in FaultKind |-> 0]

-----------------------------------------------------------------------------
(* A run starts: the planner reads the progress row.                       *)

\* A complete scan is reported again without a thread being started.
StartComplete ==
    /\ ~Running
    /\ db.saved = "complete"
    /\ report' = "complete"
    /\ UNCHANGED <<scanVars, chan, rxOpen, writer, pending, cur, resumed,
                   flagVars, storeVars, faults>>

\* Where a run starts: an interrupted scan is continued only when the caller
\* asks for it, else the scan starts over on the same database.
From(resume) == IF resume /\ db.saved = "partial" THEN db.cursor ELSE 0

\* The source is opened anew, and the two threads start.
Launch(resume, cursor) ==
    /\ pos' = From(resume)
    /\ cur' = cursor
    /\ resumed' = (resume /\ db.saved = "partial")
    /\ scanner' = "head" /\ todo' = {} /\ claims' = {} /\ stopped' = FALSE
    /\ chan' = <<>> /\ rxOpen' = TRUE
    /\ writer' = "poll" /\ pending' = {} /\ report' = "none"
    /\ cancel' = FALSE /\ intCount' = 0
    /\ vanished' = FALSE /\ plugged' = TRUE
    /\ UNCHANGED <<storeVars, faults>>

\* Wrong variants: the writer's cursor does not start at the stored one;
StartFromZero(resume) == ~Running /\ db.saved # "complete" /\ Launch(resume, 0)

\* the planner does not look whether the stored scan is complete.
StartAgain(resume) == ~Running /\ Launch(resume, From(resume))

Start(resume) ==
    /\ ~Running
    /\ db.saved # "complete"
    /\ Launch(resume, From(resume))

-----------------------------------------------------------------------------
(* The carve thread: CarveEngine::scan.                                    *)

\* `while pos < scan_end` and the cancel check at its head.
ScanExit ==
    /\ scanner = "head"
    /\ pos = NumChunks \/ cancel
    /\ scanner' = "exited"
    /\ stopped' = (pos < NumChunks)
    /\ UNCHANGED <<pos, todo, claims, chan, rxOpen, writerVars, flagVars,
                   storeVars, faults>>

\* Wrong variant: the loop runs one chunk too far.
ReadChunkPastEnd ==
    /\ scanner = "head"
    /\ ~cancel
    /\ scanner' = "chunk"
    /\ todo' = {o \in Cand : ChunkOf(o) = pos}
    /\ UNCHANGED <<pos, claims, stopped, chan, rxOpen, writerVars, flagVars,
                   storeVars, faults>>

\* A chunk is read and matched.  A device that is gone reads as zeros, which
\* hold no candidate, and the source latches that it vanished.
ReadChunk ==
    /\ scanner = "head"
    /\ pos < NumChunks /\ ~cancel
    /\ scanner' = "chunk"
    /\ todo' = IF plugged THEN {o \in Cand : ChunkOf(o) = pos} ELSE {}
    /\ vanished' = (vanished \/ ~plugged)
    /\ UNCHANGED <<pos, claims, stopped, chan, rxOpen, writerVars, cancel,
                   intCount, plugged, storeVars, faults>>

\* `send` blocks while the channel is full and fails, unnoticed, once the
\* receiver is gone.
Send(m) ==
    IF rxOpen
    THEN Len(chan) < ChanCap /\ chan' = Append(chan, m)
    ELSE UNCHANGED chan

NextCandidate(o) ==
    /\ scanner = "chunk"
    /\ o \in todo
    /\ \A p \in todo : o <= p
    /\ todo' = todo \ {o}

\* Inside a claim, or corrupted and not wanted: no result.
SkipCandidate(o) ==
    /\ NextCandidate(o)
    /\ Suppressed(claims, o) \/ ~Emitted(o)
    /\ UNCHANGED <<scanner, pos, claims, stopped, chan, rxOpen, writerVars,
                   flagVars, storeVars, faults>>

\* A result is sent; after it the claims are these.
Emit(o, claimed) ==
    /\ NextCandidate(o)
    /\ ~Suppressed(claims, o) /\ Emitted(o)
    /\ claims' = claimed
    /\ Send(FoundMsg(o))
    /\ UNCHANGED <<scanner, pos, stopped, rxOpen, writerVars, flagVars,
                   storeVars, faults>>

\* Wrong variants: a corrupted result claims its range too;
EmitClaimingAll(o) == Emit(o, {c \in claims \cup {o} : FileEnd[c] > o})

\* claims that have ended are kept.
EmitWithoutPruning(o) == Emit(o, claims \cup ({o} \cap FullCand))

\* A Full result claims its range; claims that have ended are pruned.
EmitCandidate(o) ==
    Emit(o, {c \in claims \cup ({o} \cap FullCand) : FileEnd[c] > o})

\* The validator reads zeros from a device that is gone and rejects.
LoseCandidate(o) ==
    /\ NextCandidate(o)
    /\ ~plugged
    /\ vanished' = TRUE
    /\ UNCHANGED <<scanner, pos, claims, stopped, chan, rxOpen, writerVars,
                   cancel, intCount, plugged, storeVars, faults>>

\* The chunk is done: the cursor moves past it and is reported.
EndChunk ==
    /\ scanner = "chunk"
    /\ todo = {}
    /\ pos' = pos + 1
    /\ Send(ProgressMsg(pos + 1))
    /\ scanner' = "head"
    /\ UNCHANGED <<todo, claims, stopped, rxOpen, writerVars, flagVars,
                   storeVars, faults>>

\* A validator panics: the thread unwinds and drops its end of the channel.
ScanPanic ==
    /\ scanner = "chunk"
    /\ Strike("panic")
    /\ scanner' = "panicked"
    /\ UNCHANGED <<pos, todo, claims, stopped, chan, rxOpen, writerVars,
                   flagVars, storeVars>>

ScannerStep ==
    \/ ScanExit \/ ReadChunk \/ EndChunk
    \/ \E o \in Cand : SkipCandidate(o) \/ EmitCandidate(o) \/ LoseCandidate(o)

-----------------------------------------------------------------------------
(* The writer: the loop of run_carve and what follows it.                  *)

\* Each turn of the loop polls the source first.
Poll ==
    /\ writer = "poll"
    /\ cancel' = (cancel \/ vanished)
    /\ writer' = "recv"
    /\ UNCHANGED <<scanVars, chan, rxOpen, pending, cur, resumed, report,
                   intCount, vanished, plugged, storeVars, faults>>

Receive ==
    /\ writer = "recv"
    /\ chan # <<>>
    /\ chan' = Tail(chan)

RecvFound ==
    /\ Receive
    /\ Head(chan).type = "found"
    /\ pending' = pending \cup {Head(chan).at}
    /\ writer' = IF Cardinality(pending') >= Batch THEN "flush" ELSE "poll"
    /\ UNCHANGED <<scanVars, rxOpen, cur, resumed, report, flagVars,
                   storeVars, faults>>

\* The checkpoint may be due or not.
RecvProgress ==
    /\ Receive
    /\ Head(chan).type = "progress"
    /\ cur' = Head(chan).at
    /\ writer' \in {"poll", "ckptFlush"}
    /\ UNCHANGED <<scanVars, rxOpen, pending, resumed, report, flagVars,
                   storeVars, faults>>

\* Nothing for 400 ms: checkpoint if one is due.
RecvTimeout ==
    /\ writer = "recv"
    /\ chan = <<>>
    /\ scanner \notin {"exited", "panicked"}
    /\ writer' \in {"poll", "ckptFlush"}
    /\ UNCHANGED <<scanVars, chan, rxOpen, pending, cur, resumed, report,
                   flagVars, storeVars, faults>>

\* The carve thread has gone and the channel is drained; it is joined.  The
\* error of a panic returns at once, with what was pending.
RunOver(how) ==
    /\ scanner' = "off" /\ pos' = 0 /\ todo' = {} /\ claims' = {} /\ stopped' = FALSE
    /\ chan' = <<>> /\ rxOpen' = FALSE
    /\ writer' = "off" /\ pending' = {} /\ cur' = 0 /\ resumed' = FALSE
    /\ cancel' = FALSE /\ intCount' = 0 /\ vanished' = FALSE /\ plugged' = TRUE
    /\ report' = how

Disconnected ==
    /\ writer = "recv"
    /\ chan = <<>>
    /\ \/ /\ scanner = "exited"
          /\ writer' = "lastFlush"
          /\ UNCHANGED <<scanVars, chan, rxOpen, pending, cur, resumed, report,
                         flagVars>>
       \/ /\ scanner = "panicked"
          /\ RunOver("error")
    /\ UNCHANGED <<storeVars, faults>>

\* One SQLite transaction: what was there before may still come back until
\* the write-ahead log is synced.
Commit(new) ==
    /\ db' = new
    /\ stale' = (stale \cup {db}) \ {new}

\* insert_carved of what is pending (INSERT OR IGNORE); no rows, no statement.
Flush(from, to) ==
    /\ writer = from
    /\ Commit([db EXCEPT !.rows = @ \cup pending])
    /\ pending' = {}
    /\ writer' = to
    /\ UNCHANGED <<scanVars, chan, rxOpen, cur, resumed, report, flagVars, faults>>

PutProgress(cursor, saved) ==
    Commit([db EXCEPT !.cursor = cursor, !.saved = saved])

FlushBatch == Flush("flush", "poll")

\* Wrong variant: the checkpoint does not store what is pending.
CheckpointWithoutFlush ==
    /\ writer = "ckptFlush"
    /\ writer' = "ckptPut"
    /\ UNCHANGED <<scanVars, chan, rxOpen, pending, cur, resumed, report,
                   flagVars, storeVars, faults>>

CheckpointFlush == Flush("ckptFlush", "ckptPut")
LastFlush == Flush("lastFlush", "lastPut")

\* Wrong variant: the checkpoint puts the carve thread's own cursor.
CheckpointPutScannerPos ==
    /\ writer = "ckptPut"
    /\ PutProgress(pos, "partial")
    /\ writer' = "poll"
    /\ UNCHANGED <<scanVars, chan, rxOpen, pending, cur, resumed, report,
                   flagVars, faults>>

CheckpointPut ==
    /\ writer = "ckptPut"
    /\ PutProgress(cur, "partial")
    /\ writer' = "poll"
    /\ UNCHANGED <<scanVars, chan, rxOpen, pending, cur, resumed, report,
                   flagVars, faults>>

\* Wrong variant: the last checkpoint is never marked complete.
LastPutPartial ==
    /\ writer = "lastPut"
    /\ PutProgress(pos, "partial")
    /\ RunOver(IF stopped THEN "interrupted" ELSE "complete")
    /\ UNCHANGED faults

\* The outcome of the scan is the last checkpoint.
LastPut ==
    /\ writer = "lastPut"
    /\ PutProgress(pos, IF stopped THEN "partial" ELSE "complete")
    /\ RunOver(IF stopped THEN "interrupted" ELSE "complete")
    /\ UNCHANGED faults

\* Wrong variant: the carve thread is joined with the receiver still open.
WriterFailsHoldingReceiver ==
    /\ writer \in {"flush", "ckptFlush", "ckptPut"}
    /\ Strike("writer")
    /\ cancel' = TRUE
    /\ writer' = "unwind"
    /\ UNCHANGED <<scanVars, chan, rxOpen, pending, cur, resumed, report,
                   intCount, vanished, plugged, storeVars>>

\* A statement fails inside the loop: set cancel, drop the receiver with what
\* it holds, and join the carve thread.
WriterFails ==
    /\ writer \in {"flush", "ckptFlush", "ckptPut"}
    /\ Strike("writer")
    /\ cancel' = TRUE
    /\ rxOpen' = FALSE /\ chan' = <<>>
    /\ writer' = "unwind"
    /\ UNCHANGED <<scanVars, pending, cur, resumed, report, intCount, vanished,
                   plugged, storeVars>>

JoinAfterError ==
    /\ writer = "unwind"
    /\ scanner \in {"exited", "panicked"}
    /\ RunOver("error")
    /\ UNCHANGED <<storeVars, faults>>

\* A statement after the loop fails: the error returns.
LastWriteFails ==
    /\ writer \in {"lastFlush", "lastPut"}
    /\ Strike("writer")
    /\ RunOver("error")
    /\ UNCHANGED storeVars

WriterStep ==
    \/ Poll \/ RecvFound \/ RecvProgress \/ RecvTimeout \/ Disconnected
    \/ FlushBatch \/ CheckpointFlush \/ CheckpointPut
    \/ LastFlush \/ LastPut \/ JoinAfterError

-----------------------------------------------------------------------------
(* The world around the run.                                               *)

\* on_sigint: the first asks the scan to stop, the second ends the process.
Sigint ==
    /\ Running
    /\ Strike("interrupt")
    /\ IF intCount >= 1
       THEN RunOver("killed")
       ELSE /\ cancel' = TRUE /\ intCount' = intCount + 1
            /\ UNCHANGED <<scanVars, chan, rxOpen, writerVars, vanished, plugged>>
    /\ UNCHANGED storeVars

\* The process dies; the database is what was committed.
Crash ==
    /\ Running
    /\ Strike("crash")
    /\ RunOver("killed")
    /\ UNCHANGED storeVars

\* The machine dies: with synchronous=NORMAL the last transactions may be gone,
\* never an earlier one without the later ones.
PowerLoss ==
    /\ Strike("power")
    /\ db' \in stale \cup {db}
    /\ stale' = {}
    /\ RunOver("killed")

\* SQLite syncs its write-ahead log (a WAL checkpoint).
WalSync ==
    /\ stale # {}
    /\ stale' = {}
    /\ UNCHANGED <<scanVars, chan, rxOpen, writerVars, flagVars, db, faults>>

Unplug ==
    /\ Running
    /\ plugged
    /\ Strike("unplug")
    /\ plugged' = FALSE
    /\ UNCHANGED <<scanVars, chan, rxOpen, writerVars, cancel, intCount,
                   vanished, storeVars>>

Next ==
    \/ StartComplete
    \/ \E resume \in BOOLEAN : Start(resume)
    \/ ScannerStep \/ ScanPanic
    \/ WriterStep \/ WriterFails \/ LastWriteFails
    \/ Sigint \/ Crash \/ PowerLoss \/ WalSync \/ Unplug

Spec == Init /\ [][Next]_vars

\* Both threads are scheduled by the OS and neither waits on the user; only
\* the user decides whether another run is made.
Fairness == WF_vars(ScannerStep) /\ WF_vars(WriterStep)
FairSpec == Spec /\ Fairness

\* A user who keeps resuming until the scan is complete.
ResumingSpec == FairSpec /\ WF_vars(Start(TRUE))

-----------------------------------------------------------------------------
(* Properties.                                                             *)

TypeOK ==
    /\ scanner \in {"off", "head", "chunk", "exited", "panicked"}
    /\ pos \in 0 .. NumChunks
    /\ todo \subseteq Cand /\ claims \subseteq FullCand
    /\ stopped \in BOOLEAN
    /\ chan \in Seq(Msg) /\ rxOpen \in BOOLEAN
    /\ writer \in {"off", "poll", "recv", "flush", "ckptFlush", "ckptPut",
                   "lastFlush", "lastPut", "unwind"}
    /\ pending \subseteq Cand
    /\ cur \in 0 .. NumChunks
    /\ cancel \in BOOLEAN /\ intCount \in {0, 1}
    /\ resumed \in BOOLEAN /\ vanished \in BOOLEAN /\ plugged \in BOOLEAN
    /\ report \in {"none", "complete", "interrupted", "error", "killed"}
    /\ db \in StoreState /\ stale \in SUBSET StoreState
    /\ faults \in [FaultKind -> Nat]

\* Results inside no Full file: every scan, resumed or not, reports them.
TopLevel == {o \in Cand : Emitted(o) /\ ~Suppressed(FullCand, o)}
Due(k) == {o \in TopLevel : ChunkOf(o) < k}

\* What one uninterrupted scan of the source reports: a result unless an
\* earlier Full result's range has it inside.
CleanUpTo[n \in 0 .. NumChunks * ChunkLen] ==
    IF n = 0
    THEN {}
    ELSE CleanUpTo[n - 1] \cup
         {o \in Cand : /\ o = n - 1
                       /\ Emitted(o)
                       /\ ~Suppressed(CleanUpTo[n - 1] \cap FullCand, o)}
CleanResults == CleanUpTo[NumChunks * ChunkLen]

Backed(s) ==
    /\ Due(s.cursor) \subseteq s.rows
    /\ s.saved = "complete" => s.cursor = NumChunks

\* The checkpoint never claims more than is stored: in the database, and in
\* every state of it a power failure may bring back, each result that starts
\* before the cursor is a row.  (run_carve flushes before it puts progress, and
\* puts the cursor of a message behind which the channel holds nothing older.)
CheckpointBacked == \A s \in stale \cup {db} : Backed(s)

\* A complete scan, however often it was interrupted and resumed, has the rows
\* of one uninterrupted scan.  (scan.rs: "so the result set is identical".)
ResultSetIdentical == db.saved = "complete" => db.rows = CleanResults

\* A complete scan has every result no other file hides.  (README, safety
\* promise 4: an unplug loses at most one checkpoint interval, and a resumed
\* scan finds that again.)
CompleteHoldsEverything == db.saved = "complete" => TopLevel \subseteq db.rows

\* No two Full results hold a claim at once, so the cap of 64 on the claims in
\* prune_claims never drops one that still suppresses.
OneOpenClaim == \A c, d \in claims : c = d

\* A resumed run never moves the stored cursor back; only starting over or a
\* power failure does.  (cur starts from the stored cursor, and a checkpoint on
\* a timeout puts cur.)
ResumeNeverRegresses ==
    [][resumed /\ faults'["power"] = faults["power"]
       => db'.cursor >= db.cursor]_vars

\* A complete scan stays as it is: no later run touches its rows or its progress.
CompleteIsFinal ==
    [][db.saved = "complete" /\ faults'["power"] = faults["power"]
       => db' = db]_vars

\* Every run ends, whatever fails: no thread waits on the other for good.  (The
\* writer's error path drops the receiver before it joins the carve thread.)
EveryRunEnds == Running ~> ~Running

\* The database of the session, under every fault but an unplug, is a
\* resumable scan: batches record, checkpoints advance, power failures forget.
Store == INSTANCE ResumableScan
    WITH Results <- Cand, Last <- NumChunks,
         Required <- [k \in 0 .. NumChunks |-> Due(k)],
         rows <- db.rows, position <- db.cursor, done <- (db.saved = "complete"),
         outages <- faults["power"]
ImplementsResumableScan == Store!Spec

\* A user who keeps resuming gets a complete scan once the faults stop.
EventuallyComplete == <>[](db.saved = "complete")
=============================================================================
