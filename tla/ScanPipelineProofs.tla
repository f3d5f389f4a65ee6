------------------------- MODULE ScanPipelineProofs -------------------------
(***************************************************************************)
(* Proofs about ScanPipeline for every source, channel capacity, batch     *)
(* size and number of faults.                                              *)
(*                                                                         *)
(* The type invariant and the shape of a run are inductive by themselves.  *)
(* That a checkpoint is backed by rows is not: a cursor travels through    *)
(* the channel and the writer before it is stored, and the results before  *)
(* it travel ahead of it.  Flow says so for each place a cursor can be.    *)
(***************************************************************************)
EXTENDS ScanPipeline, WellFoundedInduction, TLAPS

\* Where the threads can be with respect to each other.
Shape ==
    /\ scanner = "chunk" => pos < NumChunks
    /\ scanner = "exited" /\ ~stopped => pos = NumChunks
    /\ rxOpen => writer # "unwind"
    /\ writer \in {"poll", "recv", "flush", "ckptFlush", "ckptPut"} => rxOpen
    /\ writer \in {"lastFlush", "lastPut"} => scanner = "exited" /\ rxOpen /\ chan = <<>>
    /\ writer \in {"ckptPut", "lastPut"} => pending = {}

TypedShape == TypeOK /\ Shape

-----------------------------------------------------------------------------
LEMMA ChunkOfType == \A o \in Cand : ChunkOf(o) \in Nat
BY ScanAssumption DEF ChunkOf

LEMMA CommitType ==
    ASSUME NEW new \in StoreState, db \in StoreState, stale \in SUBSET StoreState,
           Commit(new)
    PROVE  db' \in StoreState /\ stale' \in SUBSET StoreState
BY DEF Commit

\* The end of a run puts every variable of it back where a run starts from.
LEMMA RunOverShape ==
    ASSUME NEW how \in {"complete", "interrupted", "error", "killed"},
           ScanAssumption, RunOver(how),
           db' \in StoreState, stale' \in SUBSET StoreState, faults' \in [FaultKind -> Nat]
    PROVE  TypedShape'
<1>1. <<>> \in Seq(Msg)
  OBVIOUS
<1>2. 0 \in 0 .. NumChunks
  BY DEF ScanAssumption
<1>3. cancel' \in BOOLEAN /\ resumed' \in BOOLEAN /\ vanished' \in BOOLEAN
      /\ plugged' \in BOOLEAN /\ stopped' \in BOOLEAN /\ rxOpen' \in BOOLEAN
  BY Zenon DEF RunOver
<1>4. TypeOK'
  BY <1>1, <1>2, <1>3, SMT DEF RunOver, TypeOK
<1>5. Shape'
  BY Zenon DEF RunOver, Shape
<1>6. QED
  BY <1>4, <1>5 DEF TypedShape

LEMMA StrikeType ==
    ASSUME NEW kind \in FaultKind, faults \in [FaultKind -> Nat], Strike(kind)
    PROVE  faults' \in [FaultKind -> Nat]
BY DEF Strike

LEMMA SendType ==
    ASSUME NEW m \in Msg, chan \in Seq(Msg), Send(m)
    PROVE  chan' \in Seq(Msg)
BY DEF Send

LEMMA TypedShapeInit == Init => TypedShape
<1>1. <<>> \in Seq(Msg)
  OBVIOUS
<1>2. 0 \in 0 .. NumChunks
  BY ScanAssumption DEF ScanAssumption
<1>3. EmptyStore \in StoreState
  BY <1>2 DEF EmptyStore, StoreState, SavedKind
<1>4. Init => /\ cancel \in BOOLEAN /\ resumed \in BOOLEAN /\ vanished \in BOOLEAN
              /\ plugged \in BOOLEAN /\ stopped \in BOOLEAN /\ rxOpen \in BOOLEAN
  BY Zenon DEF Init
<1>5. Init => faults \in [FaultKind -> Nat]
  BY DEF Init
<1>6. Init => TypeOK
  BY <1>1, <1>2, <1>3, <1>4, <1>5, SMT DEF Init, TypeOK
<1>7. Init => Shape
  BY DEF Init, Shape
<1>8. QED
  BY <1>6, <1>7 DEF TypedShape

\* Each action keeps every variable in its type and the two threads in step.
LEMMA TypedShapeStep == TypedShape /\ [Next]_vars => TypedShape'
<1> SUFFICES ASSUME TypedShape, [Next]_vars
             PROVE  TypedShape'
  OBVIOUS
<1> USE ScanAssumption
<1>1. CASE StartComplete
  BY <1>1 DEF StartComplete, TypedShape, TypeOK, Shape, Running, scanVars, flagVars, storeVars
<1>2. ASSUME NEW resume \in BOOLEAN, Start(resume)
      PROVE  TypedShape'
  <2>1. db.cursor \in 0 .. NumChunks /\ 0 \in 0 .. NumChunks
    BY DEF TypedShape, TypeOK, StoreState
  <2>2. <<>> \in Seq(Msg)
    OBVIOUS
  <2>3. QED
    BY <1>2, <2>1, <2>2 DEF Start, Launch, From, TypedShape, TypeOK, Shape, storeVars
<1>3. CASE ScanExit
  BY <1>3 DEF ScanExit, TypedShape, TypeOK, Shape, writerVars, flagVars, storeVars
<1>4. CASE ReadChunk
  BY <1>4 DEF ReadChunk, TypedShape, TypeOK, Shape, writerVars, storeVars
<1>5. CASE EndChunk
  <2>1. pos + 1 \in 0 .. NumChunks
    BY <1>5 DEF EndChunk, TypedShape, TypeOK, Shape
  <2>2. chan' \in Seq(Msg)
    BY <1>5, <2>1, SendType DEF EndChunk, TypedShape, TypeOK, ProgressMsg, Msg
  <2>3. QED
    BY <1>5, <2>1, <2>2 DEF EndChunk, TypedShape, TypeOK, Shape, writerVars, flagVars, storeVars
<1>6. ASSUME NEW o \in Cand, SkipCandidate(o)
      PROVE  TypedShape'
  BY <1>6 DEF SkipCandidate, NextCandidate, TypedShape, TypeOK, Shape, writerVars, flagVars, storeVars
<1>7. ASSUME NEW o \in Cand, EmitCandidate(o)
      PROVE  TypedShape'
  <2>1. chan' \in Seq(Msg)
    BY <1>7, SendType DEF EmitCandidate, Emit, TypedShape, TypeOK, FoundMsg, Msg
  <2>2. claims' \subseteq FullCand
    BY <1>7 DEF EmitCandidate, Emit, TypedShape, TypeOK
  <2>3. QED
    BY <1>7, <2>1, <2>2
       DEF EmitCandidate, Emit, NextCandidate, TypedShape, TypeOK, Shape, writerVars, flagVars, storeVars
<1>8. ASSUME NEW o \in Cand, LoseCandidate(o)
      PROVE  TypedShape'
  BY <1>8 DEF LoseCandidate, NextCandidate, TypedShape, TypeOK, Shape, writerVars, storeVars
<1>9. CASE ScanPanic
  <2>1. faults' \in [FaultKind -> Nat]
    BY <1>9, StrikeType DEF ScanPanic, TypedShape, TypeOK, FaultKind
  <2>2. QED
    BY <1>9, <2>1 DEF ScanPanic, TypedShape, TypeOK, Shape, writerVars, flagVars, storeVars
<1>10. CASE Poll
  BY <1>10 DEF Poll, TypedShape, TypeOK, Shape, scanVars, storeVars
<1>11. ASSUME Receive
       PROVE  Head(chan) \in Msg /\ chan' \in Seq(Msg)
  BY <1>11 DEF Receive, TypedShape, TypeOK
<1>12. CASE RecvFound
  <2>1. Receive /\ Head(chan).type = "found"
    BY <1>12, Zenon DEF RecvFound
  <2>2. Head(chan).at \in Cand /\ chan' \in Seq(Msg)
    BY <1>11, <2>1 DEF Msg
  <2>3. /\ writer = "recv" /\ pending' = pending \cup {Head(chan).at} /\ writer' \in {"flush", "poll"}
        /\ UNCHANGED <<scanVars, rxOpen, cur, resumed, report, flagVars, storeVars, faults>>
    BY <1>12 DEF RecvFound, Receive
  <2>4. pending' \subseteq Cand
    BY <2>2, <2>3 DEF TypedShape, TypeOK
  <2>5. TypeOK'
    BY <2>2, <2>3, <2>4 DEF TypedShape, TypeOK, scanVars, flagVars, storeVars
  <2>6. Shape'
    BY <2>3 DEF TypedShape, TypeOK, Shape, scanVars
  <2>7. QED
    BY <2>5, <2>6 DEF TypedShape
<1>13. CASE RecvProgress
  <2>1. Head(chan).at \in 0 .. NumChunks /\ chan' \in Seq(Msg)
    BY <1>11, <1>13 DEF RecvProgress, Msg
  <2>2. QED
    BY <1>13, <2>1 DEF RecvProgress, Receive, TypedShape, TypeOK, Shape, scanVars, flagVars, storeVars
<1>14. CASE RecvTimeout
  BY <1>14 DEF RecvTimeout, TypedShape, TypeOK, Shape, scanVars, flagVars, storeVars
<1>15. CASE Disconnected
  <2>1. CASE scanner = "exited" /\ writer' = "lastFlush"
             /\ UNCHANGED <<scanVars, chan, rxOpen, pending, cur, resumed, report, flagVars>>
    BY <1>15, <2>1 DEF Disconnected, TypedShape, TypeOK, Shape, scanVars, flagVars, storeVars
  <2>2. CASE RunOver("error")
    BY <1>15, <2>2, RunOverShape DEF Disconnected, TypedShape, TypeOK, storeVars
  <2>3. QED
    BY <1>15, <2>1, <2>2 DEF Disconnected
<1>16. ASSUME NEW from \in {"flush", "ckptFlush", "lastFlush"},
              NEW to \in {"poll", "ckptPut", "lastPut"},
              from = "lastFlush" <=> to = "lastPut",
              Flush(from, to)
       PROVE  TypedShape'
  <2>1. [db EXCEPT !.rows = @ \cup pending] \in StoreState
    BY DEF TypedShape, TypeOK, StoreState
  <2>2. db' \in StoreState /\ stale' \in SUBSET StoreState
    BY <1>16, <2>1, CommitType DEF Flush, TypedShape, TypeOK
  <2>3. QED
    BY <1>16, <2>2 DEF Flush, TypedShape, TypeOK, Shape, scanVars, flagVars
<1>17. CASE FlushBatch
  BY <1>16, <1>17 DEF FlushBatch
<1>18. CASE CheckpointFlush
  BY <1>16, <1>18 DEF CheckpointFlush
<1>19. CASE LastFlush
  BY <1>16, <1>19 DEF LastFlush
<1>20. ASSUME NEW k \in 0 .. NumChunks, NEW saved \in SavedKind, PutProgress(k, saved)
       PROVE  db' \in StoreState /\ stale' \in SUBSET StoreState
  <2>1. [db EXCEPT !.cursor = k, !.saved = saved] \in StoreState
    BY <1>20 DEF TypedShape, TypeOK, StoreState
  <2>2. QED
    BY <1>20, <2>1, CommitType DEF PutProgress, TypedShape, TypeOK
<1>21. CASE CheckpointPut
  <2>1. db' \in StoreState /\ stale' \in SUBSET StoreState
    BY <1>20, <1>21 DEF CheckpointPut, SavedKind, TypedShape, TypeOK
  <2>2. QED
    BY <1>21, <2>1 DEF CheckpointPut, TypedShape, TypeOK, Shape, scanVars, flagVars
<1>22. CASE LastPut
  <2>1. db' \in StoreState /\ stale' \in SUBSET StoreState
    BY <1>20, <1>22 DEF LastPut, SavedKind, TypedShape, TypeOK
  <2>2. QED
    BY <1>22, <2>1, RunOverShape DEF LastPut, TypedShape, TypeOK
<1>23. CASE JoinAfterError
  BY <1>23, RunOverShape DEF JoinAfterError, TypedShape, TypeOK, storeVars
<1>24. CASE WriterFails
  <2>1. faults' \in [FaultKind -> Nat] /\ <<>> \in Seq(Msg)
    BY <1>24, StrikeType DEF WriterFails, TypedShape, TypeOK, FaultKind
  <2>2. QED
    BY <1>24, <2>1 DEF WriterFails, TypedShape, TypeOK, Shape, scanVars, storeVars
<1>25. CASE LastWriteFails
  <2>1. faults' \in [FaultKind -> Nat]
    BY <1>25, StrikeType DEF LastWriteFails, TypedShape, TypeOK, FaultKind
  <2>2. QED
    BY <1>25, <2>1, RunOverShape DEF LastWriteFails, TypedShape, TypeOK, storeVars
<1>26. CASE Sigint
  <2>1. faults' \in [FaultKind -> Nat]
    BY <1>26, StrikeType DEF Sigint, TypedShape, TypeOK, FaultKind
  <2>2. CASE intCount >= 1
    BY <1>26, <2>1, <2>2, RunOverShape DEF Sigint, TypedShape, TypeOK, storeVars
  <2>3. CASE ~(intCount >= 1)
    <3>1. intCount' \in {0, 1} /\ cancel' \in BOOLEAN
      BY <1>26, <2>3 DEF Sigint, TypedShape, TypeOK
    <3>2. UNCHANGED <<scanVars, chan, rxOpen, writerVars, vanished, plugged, storeVars>>
      BY <1>26, <2>3 DEF Sigint
    <3>3. QED
      BY <2>1, <3>1, <3>2 DEF TypedShape, TypeOK, Shape, scanVars, writerVars, storeVars
  <2>4. QED
    BY <2>2, <2>3
<1>27. CASE Crash
  <2>1. faults' \in [FaultKind -> Nat]
    BY <1>27, StrikeType DEF Crash, TypedShape, TypeOK, FaultKind
  <2>2. QED
    BY <1>27, <2>1, RunOverShape DEF Crash, TypedShape, TypeOK, storeVars
<1>28. CASE PowerLoss
  <2>1. faults' \in [FaultKind -> Nat]
    BY <1>28, StrikeType DEF PowerLoss, TypedShape, TypeOK, FaultKind
  <2>2. db' \in StoreState /\ stale' \in SUBSET StoreState
    BY <1>28 DEF PowerLoss, TypedShape, TypeOK
  <2>3. QED
    BY <1>28, <2>1, <2>2, RunOverShape DEF PowerLoss
<1>29. CASE WalSync
  BY <1>29 DEF WalSync, TypedShape, TypeOK, Shape, scanVars, writerVars, flagVars
<1>30. CASE Unplug
  <2>1. faults' \in [FaultKind -> Nat]
    BY <1>30, StrikeType DEF Unplug, TypedShape, TypeOK, FaultKind
  <2>2. plugged' \in BOOLEAN
    BY <1>30 DEF Unplug
  <2>3. UNCHANGED <<scanVars, chan, rxOpen, writerVars, cancel, intCount, vanished, storeVars>>
    BY <1>30 DEF Unplug
  <2>4. QED
    BY <2>1, <2>2, <2>3 DEF TypedShape, TypeOK, Shape, scanVars, writerVars, storeVars
<1>31. CASE UNCHANGED vars
  BY <1>31 DEF vars, scanVars, writerVars, flagVars, storeVars, TypedShape, TypeOK, Shape
<1>32. QED
  BY <1>1, <1>2, <1>3, <1>4, <1>5, <1>6, <1>7, <1>8, <1>9, <1>10, <1>12, <1>13,
     <1>14, <1>15, <1>17, <1>18, <1>19, <1>21, <1>22, <1>23, <1>24, <1>25, <1>26,
     <1>27, <1>28, <1>29, <1>30, <1>31
     DEF Next, ScannerStep, WriterStep

\* Every variable keeps its type in every run, under every fault.
THEOREM TypeInvariant == Spec => []TypeOK
<1>1. Init => TypedShape
  BY TypedShapeInit
<1>2. TypedShape /\ [Next]_vars => TypedShape'
  BY TypedShapeStep
<1>3. TypedShape => TypeOK
  BY DEF TypedShape
<1>4. QED
  BY <1>1, <1>2, <1>3, PTL DEF Spec

-----------------------------------------------------------------------------
(* Where a result is before the cursor that covers it is stored.           *)

\* The results of R that start before chunk k.
DueOf(R, k) == {o \in R : ChunkOf(o) < k}

\* What is stored in s is not less than its cursor claims, of the results R.
BackedIn(R, s) ==
    /\ DueOf(R, s.cursor) \subseteq s.rows
    /\ s.saved = "complete" => s.cursor = NumChunks

BackedOf(R) == \A s \in stale \cup {db} : BackedIn(R, s)

\* The writer has it.
Held == db.rows \cup pending

\* It is in the channel, ahead of message i.
Before(ch, i) == {o \in Cand : \E j \in 1 .. Len(ch) : j < i /\ ch[j] = FoundMsg(o)}

\* The carve thread has passed it.
Passed(R, o) ==
    /\ o \in R
    /\ \/ ChunkOf(o) < pos
       \/ scanner = "chunk" /\ ChunkOf(o) = pos /\ o \notin todo

FlowOf(R) ==
    rxOpen =>
        /\ \A o : Passed(R, o) => o \in Held \cup Before(chan, Len(chan) + 1)
        /\ \A i \in 1 .. Len(chan) :
              chan[i].type = "progress" => DueOf(R, chan[i].at) \subseteq Held \cup Before(chan, i)
        /\ DueOf(R, cur) \subseteq Held

FlowInv(R) == TypedShape /\ plugged /\ BackedOf(R) /\ FlowOf(R)

LEMMA DueAtZero ==
    ASSUME NEW R \in SUBSET Cand
    PROVE  DueOf(R, 0) = {}
BY ChunkOfType DEF DueOf

\* What no Full file hides, no claim suppresses.
LEMMA TopLevelNotSuppressed ==
    ASSUME NEW o \in TopLevel, claims \subseteq FullCand
    PROVE  ~Suppressed(claims, o) /\ Emitted(o)
BY DEF TopLevel, Suppressed

\* Adding rows, or a backed cursor, to a backed database leaves it backed.
LEMMA CommitBacked ==
    ASSUME NEW R \in SUBSET Cand, BackedOf(R), NEW new, BackedIn(R, new), Commit(new)
    PROVE  BackedOf(R)'
BY DEF BackedOf, Commit, BackedIn, DueOf

\* The flow only depends on the carve thread's place, the channel and the writer.
LEMMA FlowStutter ==
    ASSUME NEW R \in SUBSET Cand, FlowOf(R), UNCHANGED <<pos, todo, chan, rxOpen, pending, cur, db>>,
           scanner' = "chunk" <=> scanner = "chunk"
    PROVE  FlowOf(R)'
BY DEF FlowOf, Passed, Held, Before

LEMMA BackedStutter ==
    ASSUME NEW R \in SUBSET Cand, BackedOf(R), UNCHANGED storeVars
    PROVE  BackedOf(R)'
BY DEF BackedOf, storeVars, BackedIn, DueOf

LEMMA FoundIsFoundMsg ==
    ASSUME NEW m \in Msg, m.type = "found"
    PROVE  m.at \in Cand /\ m = FoundMsg(m.at)
BY DEF Msg, FoundMsg

LEMMA ProgressIsNotFound ==
    ASSUME NEW m, m.type = "progress", NEW o
    PROVE  m # FoundMsg(o)
BY DEF FoundMsg

\* A message sent last changes nothing for those ahead of it.
LEMMA SendKeepsBefore ==
    ASSUME NEW m \in Msg, chan \in Seq(Msg), rxOpen, Send(m)
    PROVE  /\ Len(chan') = Len(chan) + 1
           /\ chan'[Len(chan) + 1] = m
           /\ \A i \in 1 .. Len(chan) : chan'[i] = chan[i]
           /\ \A i \in 1 .. Len(chan) + 1 : Before(chan', i) = Before(chan, i)
<1>1. /\ Len(chan') = Len(chan) + 1
      /\ chan'[Len(chan) + 1] = m
      /\ \A i \in 1 .. Len(chan) : chan'[i] = chan[i]
  BY DEF Send
<1>2. ASSUME NEW i \in 1 .. Len(chan) + 1
      PROVE  Before(chan', i) = Before(chan, i)
  BY <1>1 DEF Before
<1>3. QED
  BY <1>1, <1>2

\* A message received first: what was ahead of a later one is received, or is
\* still ahead of it.
LEMMA ReceiveShifts ==
    ASSUME chan \in Seq(Msg), Receive
    PROVE  /\ Len(chan') = Len(chan) - 1
           /\ \A i \in 1 .. Len(chan') : chan'[i] = chan[i + 1]
           /\ Before(chan, 1) = {}
           /\ \A i \in 1 .. Len(chan) :
                 Before(chan, i + 1) \subseteq Before(chan', i) \cup {o \in Cand : Head(chan) = FoundMsg(o)}
<1>1. /\ Len(chan') = Len(chan) - 1
      /\ \A i \in 1 .. Len(chan') : chan'[i] = chan[i + 1]
      /\ Head(chan) = chan[1]
      /\ Len(chan) \in Nat /\ Len(chan) > 0
  BY DEF Receive
<1>2. Before(chan, 1) = {}
  BY <1>1 DEF Before
<1>3. ASSUME NEW i \in 1 .. Len(chan), NEW o \in Before(chan, i + 1), Head(chan) # FoundMsg(o)
      PROVE  o \in Before(chan', i)
  <2>1. PICK j \in 1 .. Len(chan) : j < i + 1 /\ chan[j] = FoundMsg(o)
    BY <1>3 DEF Before
  <2>2. j # 1
    BY <1>1, <1>3, <2>1
  <2>3. j - 1 \in 1 .. Len(chan') /\ j - 1 < i /\ chan'[j - 1] = FoundMsg(o)
    BY <1>1, <2>1, <2>2
  <2>4. QED
    BY <1>3, <2>3 DEF Before
<1>4. QED
  BY <1>1, <1>2, <1>3 DEF Before

LEMMA RunOverFlow ==
    ASSUME NEW R \in SUBSET Cand, NEW how, RunOver(how)
    PROVE  plugged' /\ FlowOf(R)'
BY DEF RunOver, FlowOf

\* Without an unplug, each action keeps the flow: results go into the channel
\* before the cursor past them, and into the database before it is stored.
LEMMA FlowStep ==
    ASSUME MaxFaults["unplug"] = 0, NEW R \in SUBSET Cand,
           FlowInv(R), [Next]_vars, \A o \in Cand : SkipCandidate(o) => o \notin R
    PROVE  FlowInv(R)'
<1> USE ScanAssumption
<1>1. TypedShape /\ TypedShape' /\ TypeOK /\ Shape /\ plugged /\ BackedOf(R) /\ FlowOf(R)
  BY TypedShapeStep DEF FlowInv, TypedShape
<1>2. SUFFICES plugged' /\ BackedOf(R)' /\ FlowOf(R)'
  BY <1>1 DEF FlowInv
<1>3. CASE StartComplete
  BY <1>1, <1>3, FlowStutter, BackedStutter DEF StartComplete, scanVars, flagVars, storeVars
<1>4. ASSUME NEW resume \in BOOLEAN, Start(resume)
      PROVE  plugged' /\ BackedOf(R)' /\ FlowOf(R)'
  <2>1. BackedOf(R)' /\ plugged'
    BY <1>1, <1>4, BackedStutter DEF Start, Launch, From, storeVars
  <2>2. DueOf(R, pos') \subseteq db.rows
    BY <1>1, <1>4, DueAtZero DEF Start, Launch, From, BackedOf, BackedIn
  <2>3. pending' = {} /\ cur' = pos' /\ chan' = <<>> /\ scanner' = "head" /\ db' = db
    BY <1>4 DEF Start, Launch, From, storeVars
  <2>4. ASSUME NEW o, Passed(R, o)'
        PROVE  o \in db.rows
    BY <2>2, <2>3, <2>4 DEF Passed, DueOf
  <2>5. (DueOf(R, cur) \subseteq Held)'
    BY <2>2, <2>3 DEF Held, DueOf
  <2>6. QED
    BY <2>1, <2>3, <2>4, <2>5 DEF FlowOf, Held
<1>5. CASE ScanExit
  BY <1>1, <1>5, FlowStutter, BackedStutter DEF ScanExit, writerVars, flagVars, storeVars
<1>6. CASE ReadChunk
  <2>1. plugged' /\ BackedOf(R)'
    BY <1>1, <1>6, BackedStutter DEF ReadChunk, storeVars
  <2>2. ASSUME NEW o, Passed(R, o)'
        PROVE  Passed(R, o)
    BY <1>1, <1>6, <2>2 DEF ReadChunk, Passed
  <2>3. FlowOf(R)'
    BY <1>1, <1>6, <2>2 DEF ReadChunk, FlowOf, Held, Before, writerVars, storeVars
  <2>4. QED
    BY <2>1, <2>3
<1>7. CASE EndChunk
  <2>1. plugged' /\ BackedOf(R)'
    BY <1>1, <1>7, BackedStutter DEF EndChunk, flagVars, storeVars
  <2>2. pos \in Nat /\ pos' = pos + 1 /\ scanner = "chunk" /\ scanner' = "head" /\ todo = {}
    BY <1>1, <1>7 DEF EndChunk, TypeOK
  <2>3. \A o \in R : ChunkOf(o) < pos + 1 => Passed(R, o)
    BY <2>2, ChunkOfType DEF Passed
  <2>4. UNCHANGED <<pending, db, cur, rxOpen>>
    BY <1>7 DEF EndChunk, writerVars, storeVars
  <2>5. ASSUME rxOpen
        PROVE  FlowOf(R)'
    <3>1. ProgressMsg(pos + 1) \in Msg
      BY <1>1, <2>2 DEF TypeOK, Shape, Msg, ProgressMsg
    <3>2. /\ Len(chan') = Len(chan) + 1
          /\ chan'[Len(chan) + 1] = ProgressMsg(pos + 1)
          /\ \A i \in 1 .. Len(chan) : chan'[i] = chan[i]
          /\ \A i \in 1 .. Len(chan) + 1 : Before(chan', i) = Before(chan, i)
      BY <1>1, <1>7, <2>5, <3>1, SendKeepsBefore DEF EndChunk, TypeOK
    <3>3. Len(chan) \in Nat
      BY <1>1 DEF TypeOK
    <3>4. Held' = Held
      BY <2>4 DEF Held
    <3>5. Before(chan, Len(chan) + 1) \subseteq Before(chan', Len(chan) + 2)
      BY <3>2, <3>3 DEF Before
    <3>6. \A o : Passed(R, o)' => o \in Held' \cup Before(chan', Len(chan') + 1)
      <4>1. \A o : Passed(R, o)' => Passed(R, o)
        BY <2>2, <2>3 DEF Passed
      <4>2. QED
        BY <1>1, <2>5, <3>2, <3>3, <3>4, <3>5, <4>1 DEF FlowOf
    <3>7. ASSUME NEW i \in 1 .. Len(chan'), chan'[i].type = "progress"
          PROVE  DueOf(R, chan'[i].at) \subseteq Held' \cup Before(chan', i)
      <4>1. CASE i = Len(chan) + 1
        <5>1. chan'[i].at = pos + 1
          BY <3>2, <4>1 DEF ProgressMsg
        <5>2. DueOf(R, chan'[i].at) \subseteq {o \in R : Passed(R, o)}
          BY <2>3, <5>1 DEF DueOf
        <5>3. QED
          BY <1>1, <2>5, <3>2, <3>3, <3>4, <4>1, <5>2 DEF FlowOf
      <4>2. CASE i \in 1 .. Len(chan)
        BY <1>1, <2>5, <3>2, <3>4, <3>7, <4>2 DEF FlowOf
      <4>3. QED
        BY <3>2, <3>3, <3>7, <4>1, <4>2
    <3>8. DueOf(R, cur') \subseteq Held'
      BY <1>1, <2>4, <2>5, <3>4 DEF FlowOf
    <3>9. QED
      BY <3>6, <3>7, <3>8 DEF FlowOf, DueOf
  <2>6. QED
    BY <2>1, <2>4, <2>5 DEF FlowOf
<1>8. ASSUME NEW o \in Cand, SkipCandidate(o)
      PROVE  plugged' /\ BackedOf(R)' /\ FlowOf(R)'
  <2>1. plugged' /\ BackedOf(R)'
    BY <1>1, <1>8, BackedStutter DEF SkipCandidate, flagVars, storeVars
  <2>2. o \notin R
    BY <1>8
  <2>3. ASSUME NEW p, Passed(R, p)'
        PROVE  Passed(R, p)
    BY <1>8, <2>2, <2>3 DEF SkipCandidate, NextCandidate, Passed
  <2>4. FlowOf(R)'
    BY <1>1, <1>8, <2>3 DEF SkipCandidate, FlowOf, Held, Before, writerVars, storeVars
  <2>5. QED
    BY <2>1, <2>4
<1>9. ASSUME NEW o \in Cand, EmitCandidate(o)
      PROVE  plugged' /\ BackedOf(R)' /\ FlowOf(R)'
  <2>1. plugged' /\ BackedOf(R)'
    BY <1>1, <1>9, BackedStutter DEF EmitCandidate, Emit, flagVars, storeVars
  <2>2. UNCHANGED <<pending, db, cur, rxOpen, pos, scanner>> /\ todo' = todo \ {o}
    BY <1>9 DEF EmitCandidate, Emit, NextCandidate, writerVars, storeVars
  <2>3. ASSUME rxOpen
        PROVE  FlowOf(R)'
    <3>1. FoundMsg(o) \in Msg
      BY DEF Msg, FoundMsg
    <3>2. /\ Len(chan') = Len(chan) + 1
          /\ chan'[Len(chan) + 1] = FoundMsg(o)
          /\ \A i \in 1 .. Len(chan) : chan'[i] = chan[i]
          /\ \A i \in 1 .. Len(chan) + 1 : Before(chan', i) = Before(chan, i)
      BY <1>1, <1>9, <2>3, <3>1, SendKeepsBefore DEF EmitCandidate, Emit, TypeOK
    <3>3. Len(chan) \in Nat /\ Held' = Held
      BY <1>1, <2>2 DEF TypeOK, Held
    <3>4. Before(chan, Len(chan) + 1) \cup {o} \subseteq Before(chan', Len(chan) + 2)
      <4>1. Len(chan) + 1 \in 1 .. Len(chan') /\ Len(chan) + 1 < Len(chan) + 2
        BY <3>2, <3>3
      <4>2. o \in Before(chan', Len(chan) + 2)
        BY <3>2, <4>1 DEF Before
      <4>3. Before(chan, Len(chan) + 1) \subseteq Before(chan', Len(chan) + 2)
        BY <3>2, <3>3 DEF Before
      <4>4. QED
        BY <4>2, <4>3
    <3>5. \A p : Passed(R, p)' => p \in Held' \cup Before(chan', Len(chan') + 1)
      <4>1. \A p : Passed(R, p)' => Passed(R, p) \/ p = o
        BY <2>2 DEF Passed
      <4>2. QED
        BY <1>1, <2>3, <3>2, <3>3, <3>4, <4>1 DEF FlowOf
    <3>6. ASSUME NEW i \in 1 .. Len(chan'), chan'[i].type = "progress"
          PROVE  DueOf(R, chan'[i].at) \subseteq Held' \cup Before(chan', i)
      <4>1. i \in 1 .. Len(chan)
        BY <3>2, <3>3, <3>6 DEF FoundMsg
      <4>2. QED
        BY <1>1, <2>3, <3>2, <3>3, <3>6, <4>1 DEF FlowOf
    <3>7. DueOf(R, cur') \subseteq Held'
      BY <1>1, <2>2, <2>3, <3>3 DEF FlowOf
    <3>8. QED
      BY <3>5, <3>6, <3>7 DEF FlowOf, DueOf
  <2>4. QED
    BY <2>1, <2>2, <2>3 DEF FlowOf
<1>10. ASSUME NEW o \in Cand, LoseCandidate(o)
       PROVE  plugged' /\ BackedOf(R)' /\ FlowOf(R)'
  BY <1>1, <1>10 DEF LoseCandidate
<1>11. CASE ScanPanic
  <2>1. plugged' /\ BackedOf(R)'
    BY <1>1, <1>11, BackedStutter DEF ScanPanic, flagVars, storeVars
  <2>2. ASSUME NEW o, Passed(R, o)'
        PROVE  Passed(R, o)
    BY <1>11, <2>2 DEF ScanPanic, Passed
  <2>3. FlowOf(R)'
    BY <1>1, <1>11, <2>2 DEF ScanPanic, FlowOf, Held, Before, writerVars, storeVars
  <2>4. QED
    BY <2>1, <2>3
<1>12. CASE Poll
  BY <1>1, <1>12, FlowStutter, BackedStutter DEF Poll, scanVars, storeVars
<1>13. CASE RecvFound
  <2>1. plugged' /\ BackedOf(R)'
    BY <1>1, <1>13, BackedStutter DEF RecvFound, flagVars, storeVars
  <2>2. Receive /\ Head(chan).type = "found" /\ pending' = pending \cup {Head(chan).at}
        /\ UNCHANGED <<pos, todo, scanner, db, cur, rxOpen>>
    BY <1>13 DEF RecvFound, scanVars, storeVars
  <2>3. Head(chan) \in Msg
    BY <1>1, <2>2 DEF Receive, TypeOK
  <2>4. {o \in Cand : Head(chan) = FoundMsg(o)} \subseteq Held'
    BY <2>2, <2>3 DEF Held, FoundMsg
  <2>5. Held \subseteq Held'
    BY <2>2 DEF Held
  <2>6. /\ Len(chan') = Len(chan) - 1
        /\ \A i \in 1 .. Len(chan') : chan'[i] = chan[i + 1]
        /\ \A i \in 1 .. Len(chan) :
              Before(chan, i + 1) \subseteq Before(chan', i) \cup {o \in Cand : Head(chan) = FoundMsg(o)}
        /\ Len(chan) \in Nat /\ Len(chan) > 0
    BY <1>1, <2>2, ReceiveShifts DEF TypeOK, Receive
  <2>7. ASSUME rxOpen
        PROVE  FlowOf(R)'
    <3>1. \A o : Passed(R, o)' => o \in Held' \cup Before(chan', Len(chan') + 1)
      <4>1. \A o : Passed(R, o)' => Passed(R, o)
        BY <2>2 DEF Passed
      <4>2. QED
        BY <1>1, <2>4, <2>5, <2>6, <2>7, <4>1 DEF FlowOf
    <3>2. ASSUME NEW i \in 1 .. Len(chan'), chan'[i].type = "progress"
          PROVE  DueOf(R, chan'[i].at) \subseteq Held' \cup Before(chan', i)
      <4>1. i + 1 \in 1 .. Len(chan) /\ chan[i + 1] = chan'[i]
        BY <2>6, <3>2
      <4>2. DueOf(R, chan'[i].at) \subseteq Held \cup Before(chan, i + 1)
        BY <1>1, <2>7, <3>2, <4>1 DEF FlowOf
      <4>3. QED
        BY <2>4, <2>5, <2>6, <4>1, <4>2
    <3>3. DueOf(R, cur') \subseteq Held'
      BY <1>1, <2>2, <2>5, <2>7 DEF FlowOf
    <3>4. QED
      BY <3>1, <3>2, <3>3 DEF FlowOf, DueOf
  <2>8. QED
    BY <2>1, <2>2, <2>7 DEF FlowOf
<1>14. CASE RecvProgress
  <2>1. plugged' /\ BackedOf(R)'
    BY <1>1, <1>14, BackedStutter DEF RecvProgress, flagVars, storeVars
  <2>2. Receive /\ Head(chan).type = "progress" /\ cur' = Head(chan).at
        /\ UNCHANGED <<pos, todo, scanner, db, pending, rxOpen>>
    BY <1>14 DEF RecvProgress, scanVars, storeVars
  <2>3. Held' = Held
    BY <2>2 DEF Held
  <2>4. {o \in Cand : Head(chan) = FoundMsg(o)} = {}
    BY <2>2, ProgressIsNotFound
  <2>5. /\ Len(chan') = Len(chan) - 1
        /\ \A i \in 1 .. Len(chan') : chan'[i] = chan[i + 1]
        /\ Before(chan, 1) = {}
        /\ \A i \in 1 .. Len(chan) : Before(chan, i + 1) \subseteq Before(chan', i)
        /\ Len(chan) \in Nat /\ Len(chan) > 0
        /\ Head(chan) = chan[1]
    BY <1>1, <2>2, <2>4, ReceiveShifts DEF TypeOK, Receive
  <2>6. ASSUME rxOpen
        PROVE  FlowOf(R)'
    <3>1. \A o : Passed(R, o)' => o \in Held' \cup Before(chan', Len(chan') + 1)
      <4>1. \A o : Passed(R, o)' => Passed(R, o)
        BY <2>2 DEF Passed
      <4>2. QED
        BY <1>1, <2>3, <2>5, <2>6, <4>1 DEF FlowOf
    <3>2. ASSUME NEW i \in 1 .. Len(chan'), chan'[i].type = "progress"
          PROVE  DueOf(R, chan'[i].at) \subseteq Held' \cup Before(chan', i)
      <4>1. i + 1 \in 1 .. Len(chan) /\ chan[i + 1] = chan'[i]
        BY <2>5, <3>2
      <4>2. DueOf(R, chan'[i].at) \subseteq Held \cup Before(chan, i + 1)
        BY <1>1, <2>6, <3>2, <4>1 DEF FlowOf
      <4>3. QED
        BY <2>3, <2>5, <4>1, <4>2
    <3>3. DueOf(R, cur') \subseteq Held'
      <4>1. 1 \in 1 .. Len(chan) /\ chan[1].type = "progress" /\ cur' = chan[1].at
        BY <2>2, <2>5
      <4>2. DueOf(R, chan[1].at) \subseteq Held \cup Before(chan, 1)
        BY <1>1, <2>6, <4>1 DEF FlowOf
      <4>3. QED
        BY <2>3, <2>5, <4>1, <4>2
    <3>4. QED
      BY <3>1, <3>2, <3>3 DEF FlowOf, DueOf
  <2>7. QED
    BY <2>1, <2>2, <2>6 DEF FlowOf
<1>15. CASE RecvTimeout
  BY <1>1, <1>15, FlowStutter, BackedStutter DEF RecvTimeout, scanVars, flagVars, storeVars
<1>16. CASE Disconnected
  <2>1. BackedOf(R)'
    BY <1>1, <1>16, BackedStutter DEF Disconnected, storeVars
  <2>2. CASE RunOver("error")
    BY <2>1, <2>2, RunOverFlow
  <2>3. CASE UNCHANGED <<scanVars, chan, rxOpen, pending, cur, resumed, report, flagVars>>
    BY <1>1, <1>16, <2>1, <2>3, FlowStutter DEF Disconnected, scanVars, flagVars, storeVars
  <2>4. QED
    BY <1>16, <2>2, <2>3 DEF Disconnected
<1>17. ASSUME NEW from, NEW to, Flush(from, to)
       PROVE  plugged' /\ BackedOf(R)' /\ FlowOf(R)'
  <2>1. db \in StoreState /\ pending \subseteq Cand
    BY <1>1 DEF TypeOK
  <2>2. db' = [db EXCEPT !.rows = @ \cup pending] /\ pending' = {}
    BY <1>17 DEF Flush, Commit
  <2>3. BackedIn(R, [db EXCEPT !.rows = @ \cup pending])
    BY <1>1, <2>1 DEF BackedOf, BackedIn, StoreState
  <2>4. plugged' /\ BackedOf(R)'
    BY <1>1, <1>17, <2>3, CommitBacked DEF Flush, flagVars
  <2>5. Held' = Held
    BY <2>1, <2>2 DEF Held, StoreState
  <2>6. UNCHANGED <<pos, todo, scanner, chan, rxOpen, cur>>
    BY <1>17 DEF Flush, scanVars
  <2>7. FlowOf(R)'
    BY <1>1, <2>5, <2>6 DEF FlowOf, Passed, Before, DueOf
  <2>8. QED
    BY <2>4, <2>7
<1>18. ASSUME NEW k \in 0 .. NumChunks, NEW saved \in SavedKind,
              PutProgress(k, saved), pending = {},
              DueOf(R, k) \subseteq Held, saved = "complete" => k = NumChunks
       PROVE  BackedOf(R)' /\ db'.rows = db.rows
  <2>1. db \in StoreState
    BY <1>1 DEF TypeOK
  <2>2. BackedIn(R, [db EXCEPT !.cursor = k, !.saved = saved])
    BY <1>18, <2>1 DEF Held, BackedIn, StoreState
  <2>3. db' = [db EXCEPT !.cursor = k, !.saved = saved]
    BY <1>18 DEF PutProgress, Commit
  <2>4. QED
    BY <1>1, <1>18, <2>1, <2>2, <2>3, CommitBacked DEF PutProgress, StoreState
<1>19. CASE CheckpointPut
  <2>1. rxOpen /\ pending = {} /\ cur \in 0 .. NumChunks
    BY <1>1, <1>19 DEF CheckpointPut, Shape, TypeOK
  <2>2. DueOf(R, cur) \subseteq Held
    BY <1>1, <2>1 DEF FlowOf
  <2>3. BackedOf(R)' /\ db'.rows = db.rows
    BY <1>18, <1>19, <2>1, <2>2 DEF CheckpointPut, SavedKind
  <2>4. UNCHANGED <<pos, todo, scanner, chan, rxOpen, pending, cur, plugged>>
    BY <1>19 DEF CheckpointPut, scanVars, flagVars
  <2>5. Held' = Held
    BY <2>3, <2>4 DEF Held
  <2>6. FlowOf(R)'
    BY <1>1, <2>4, <2>5 DEF FlowOf, Passed, Before, DueOf
  <2>7. QED
    BY <1>1, <2>3, <2>4, <2>6
<1>20. CASE LastPut
  <2>1. rxOpen /\ pending = {} /\ chan = <<>> /\ scanner = "exited" /\ pos \in 0 .. NumChunks
    BY <1>1, <1>20 DEF LastPut, Shape, TypeOK
  <2>2. DueOf(R, pos) \subseteq Held
    BY <1>1, <2>1 DEF FlowOf, Passed, DueOf, Before
  <2>3. ~stopped => pos = NumChunks
    BY <1>1, <2>1 DEF Shape
  <2>4. BackedOf(R)'
    BY <1>18, <1>20, <2>1, <2>2, <2>3 DEF LastPut, SavedKind
  <2>5. QED
    BY <1>20, <2>4, RunOverFlow DEF LastPut
<1>21. CASE JoinAfterError
  BY <1>1, <1>21, RunOverFlow, BackedStutter DEF JoinAfterError, storeVars
<1>22. CASE WriterFails
  BY <1>1, <1>22, BackedStutter DEF WriterFails, FlowOf, storeVars
<1>23. CASE LastWriteFails
  BY <1>1, <1>23, RunOverFlow, BackedStutter DEF LastWriteFails
<1>24. CASE Sigint
  <2>1. BackedOf(R)'
    BY <1>1, <1>24, BackedStutter DEF Sigint
  <2>2. CASE intCount >= 1
    BY <1>24, <2>1, <2>2, RunOverFlow DEF Sigint
  <2>3. CASE ~(intCount >= 1)
    BY <1>1, <1>24, <2>1, <2>3, FlowStutter DEF Sigint, scanVars, writerVars, storeVars
  <2>4. QED
    BY <2>2, <2>3
<1>25. CASE Crash
  BY <1>1, <1>25, RunOverFlow, BackedStutter DEF Crash
<1>26. CASE PowerLoss
  <2>1. BackedOf(R)'
    BY <1>1, <1>26 DEF PowerLoss, BackedOf, BackedIn, DueOf
  <2>2. QED
    BY <1>26, <2>1, RunOverFlow DEF PowerLoss
<1>27. CASE WalSync
  <2>1. BackedOf(R)'
    BY <1>1, <1>27 DEF WalSync, BackedOf, BackedIn, DueOf
  <2>2. QED
    BY <1>1, <1>27, <2>1, FlowStutter DEF WalSync, scanVars, writerVars, flagVars
<1>28. CASE Unplug
  <2>1. faults["unplug"] \in Nat /\ faults["unplug"] < MaxFaults["unplug"]
    BY <1>1, <1>28 DEF Unplug, Strike, TypeOK, FaultKind
  <2>2. QED
    BY <2>1
<1>29. CASE UNCHANGED vars
  BY <1>1, <1>29, FlowStutter, BackedStutter
     DEF vars, scanVars, writerVars, flagVars, storeVars
<1>30. QED
  BY <1>3, <1>4, <1>5, <1>6, <1>7, <1>8, <1>9, <1>10, <1>11, <1>12, <1>13, <1>14,
     <1>15, <1>16, <1>17, <1>19, <1>20, <1>21, <1>22, <1>23, <1>24, <1>25, <1>26,
     <1>27, <1>28, <1>29
     DEF Next, ScannerStep, WriterStep, FlushBatch, CheckpointFlush, LastFlush

LEMMA FlowInit ==
    ASSUME NEW R \in SUBSET Cand
    PROVE  Init => FlowInv(R)
<1>1. Init => BackedOf(R)
  BY DueAtZero DEF Init, BackedOf, BackedIn, EmptyStore
<1>2. Init => plugged /\ FlowOf(R)
  BY DEF Init, FlowOf
<1>3. QED
  BY <1>1, <1>2, TypedShapeInit DEF FlowInv

(* The results no Full file hides: no claim suppresses them.                *)

IInv == FlowInv(TopLevel)

LEMMA IInvStep ==
    ASSUME MaxFaults["unplug"] = 0
    PROVE  IInv /\ [Next]_vars => IInv'
<1> SUFFICES ASSUME IInv, [Next]_vars
             PROVE  IInv'
  OBVIOUS
<1>1. TopLevel \in SUBSET Cand
  BY DEF TopLevel
<1>2. ASSUME NEW o \in Cand, SkipCandidate(o)
      PROVE  o \notin TopLevel
  BY <1>2, TopLevelNotSuppressed DEF IInv, FlowInv, TypedShape, TypeOK, SkipCandidate
<1>3. FlowInv(TopLevel)'
  BY <1>1, <1>2, FlowStep DEF IInv
<1>4. QED
  BY <1>3 DEF IInv

LEMMA IInvInit == Init => IInv
<1>1. TopLevel \in SUBSET Cand
  BY DEF TopLevel
<1>2. QED
  BY <1>1, FlowInit DEF IInv

LEMMA IInvBacked == IInv => CheckpointBacked /\ TypedShape
BY DEF IInv, FlowInv, BackedOf, BackedIn, DueOf, CheckpointBacked, Backed, Due

LEMMA SpecIInv ==
    ASSUME MaxFaults["unplug"] = 0
    PROVE  Spec => []IInv
<1>1. Init => IInv
  BY IInvInit
<1>2. IInv /\ [Next]_vars => IInv'
  BY IInvStep
<1>3. QED
  BY <1>1, <1>2, PTL DEF Spec

\* As long as no device is unplugged during a scan, a stored cursor is backed by
\* rows, through every interrupt, crash, power failure, panic and write error.
THEOREM CheckpointBackedAlways ==
    ASSUME MaxFaults["unplug"] = 0
    PROVE  Spec => []CheckpointBacked
<1>1. IInv => CheckpointBacked
  BY IInvBacked
<1>2. QED
  BY <1>1, SpecIInv, PTL

LEMMA BackedComplete ==
    ASSUME db \in StoreState, Backed(db)
    PROVE  CompleteHoldsEverything
<1>1. \A o \in Cand : ChunkOf(o) < NumChunks
  <2> SUFFICES ASSUME NEW o \in Cand
               PROVE  ChunkOf(o) < NumChunks
    OBVIOUS
  <2>1. o \in Nat /\ o < NumChunks * ChunkLen
    BY ScanAssumption DEF ScanAssumption
  <2>2. QED
    BY <2>1, ScanAssumption, SMTT(30) DEF ScanAssumption, ChunkOf
<1>2. QED
  BY <1>1 DEF CompleteHoldsEverything, Backed, Due, TopLevel

\* A complete scan then misses no result that no other file hides.
THEOREM CompleteHoldsEverythingAlways ==
    ASSUME MaxFaults["unplug"] = 0
    PROVE  Spec => []CompleteHoldsEverything
<1>1. IInv => CompleteHoldsEverything
  BY BackedComplete, IInvBacked DEF CheckpointBacked, TypedShape, TypeOK
<1>2. QED
  BY <1>1, SpecIInv, PTL

-----------------------------------------------------------------------------
(* Claims: the candidates are validated in order of their offset, so a new *)
(* claim starts where every older one has ended.                           *)

ClaimsBehind ==
    /\ scanner = "head" => \A c \in claims : ChunkOf(c) < pos
    /\ scanner = "chunk" =>
          /\ \A o \in todo : ChunkOf(o) = pos
          /\ \A c \in claims : ChunkOf(c) <= pos /\ \A o \in todo : c < o

LEMMA ChunksAreOrdered ==
    ASSUME NEW c \in Cand, NEW o \in Cand, ChunkOf(c) < ChunkOf(o)
    PROVE  c < o
BY ScanAssumption, SMTT(30) DEF ScanAssumption, ChunkOf

LEMMA ClaimsStep ==
    TypedShape /\ ClaimsBehind /\ OneOpenClaim /\ [Next]_vars
    => ClaimsBehind' /\ OneOpenClaim'
<1> SUFFICES ASSUME TypedShape, ClaimsBehind, OneOpenClaim, [Next]_vars
             PROVE  ClaimsBehind' /\ OneOpenClaim'
  OBVIOUS
<1>1. claims \subseteq Cand /\ todo \subseteq Cand /\ pos \in Nat
  BY ScanAssumption DEF ScanAssumption, TypedShape, TypeOK
<1>2. CASE UNCHANGED scanVars
  BY <1>2 DEF ClaimsBehind, OneOpenClaim, scanVars
<1>3. ASSUME NEW resume, Start(resume)
      PROVE  ClaimsBehind' /\ OneOpenClaim'
  BY <1>3 DEF Start, Launch, From, ClaimsBehind, OneOpenClaim
<1>4. CASE ScanExit \/ ScanPanic
  BY <1>4 DEF ScanExit, ScanPanic, ClaimsBehind, OneOpenClaim
<1>5. CASE ReadChunk
  <2>1. \A o \in todo' : o \in Cand /\ ChunkOf(o) = pos
    BY <1>5 DEF ReadChunk
  <2>2. \A c \in claims : ChunkOf(c) < pos
    BY <1>5 DEF ReadChunk, ClaimsBehind
  <2>3. \A c \in claims : \A o \in todo' : c < o
    BY <1>1, <2>1, <2>2, ChunksAreOrdered
  <2>4. \A c \in claims : ChunkOf(c) <= pos
    BY <1>1, <2>2, ChunkOfType
  <2>5. QED
    BY <1>5, <2>1, <2>3, <2>4 DEF ReadChunk, ClaimsBehind, OneOpenClaim
<1>6. CASE EndChunk
  BY <1>1, <1>6, ChunkOfType DEF EndChunk, ClaimsBehind, OneOpenClaim
<1>7. ASSUME NEW o \in Cand, SkipCandidate(o) \/ LoseCandidate(o)
      PROVE  ClaimsBehind' /\ OneOpenClaim'
  BY <1>7 DEF SkipCandidate, LoseCandidate, NextCandidate, ClaimsBehind, OneOpenClaim
<1>8. ASSUME NEW o \in Cand, EmitCandidate(o)
      PROVE  ClaimsBehind' /\ OneOpenClaim'
  <2>1. /\ scanner = "chunk" /\ scanner' = "chunk" /\ pos' = pos
        /\ o \in todo /\ todo' = todo \ {o} /\ \A p \in todo : o <= p
        /\ ~Suppressed(claims, o)
        /\ claims' = {c \in claims \cup ({o} \cap FullCand) : FileEnd[c] > o}
    BY <1>8 DEF EmitCandidate, Emit, NextCandidate
  <2>2. ASSUME NEW c \in claims
        PROVE  c < o /\ FileEnd[c] <= o
    <3>1. c < o /\ c \in Cand
      BY <1>1, <2>1 DEF ClaimsBehind
    <3>2. FileStart[c] <= c /\ FileStart[c] \in Nat /\ FileEnd[c] \in Nat
      BY <3>1, ScanAssumption DEF ScanAssumption
    <3>3. ~(FileStart[c] < o /\ o < FileEnd[c])
      BY <2>1, <2>2 DEF Suppressed
    <3>4. o \in Nat /\ c \in Nat
      BY <3>1, ScanAssumption DEF ScanAssumption
    <3>5. QED
      BY <3>1, <3>2, <3>3, <3>4
  <2>3. FileEnd[o] \in Nat /\ \A c \in claims : FileEnd[c] \in Nat
    BY <1>1, ScanAssumption DEF ScanAssumption
  <2>4. claims' \subseteq {o}
    <3>1. ASSUME NEW c \in claims', c # o
          PROVE  FALSE
      <4>1. c \in claims /\ FileEnd[c] > o
        BY <2>1, <3>1
      <4>2. o \in Nat
        BY ScanAssumption DEF ScanAssumption
      <4>3. QED
        BY <2>2, <2>3, <4>1, <4>2
    <3>2. QED
      BY <3>1
  <2>5. \A p \in todo' : o < p
    <3>1. o \in Nat /\ \A p \in todo : p \in Nat
      BY <1>1, ScanAssumption DEF ScanAssumption
    <3>2. QED
      BY <2>1, <3>1
  <2>6. ChunkOf(o) = pos /\ \A p \in todo' : ChunkOf(p) = pos
    BY <2>1 DEF ClaimsBehind
  <2>7. QED
    BY <1>1, <2>1, <2>4, <2>5, <2>6 DEF ClaimsBehind, OneOpenClaim
<1>9. ASSUME NEW how, RunOver(how)
      PROVE  ClaimsBehind' /\ OneOpenClaim'
  BY <1>9 DEF RunOver, ClaimsBehind, OneOpenClaim
<1>10. CASE StartComplete \/ Poll \/ RecvFound \/ RecvProgress \/ RecvTimeout
            \/ FlushBatch \/ CheckpointFlush \/ CheckpointPut \/ LastFlush
            \/ WriterFails \/ WalSync \/ Unplug
  BY <1>2, <1>10
     DEF StartComplete, Poll, RecvFound, RecvProgress, RecvTimeout, FlushBatch,
         CheckpointFlush, CheckpointPut, LastFlush, Flush, WriterFails, WalSync, Unplug
<1>11. CASE Disconnected \/ LastPut \/ JoinAfterError \/ LastWriteFails
            \/ Sigint \/ Crash \/ PowerLoss
  <2>1. UNCHANGED scanVars \/ \E how : RunOver(how)
    BY <1>11 DEF Disconnected, LastPut, JoinAfterError, LastWriteFails, Sigint, Crash, PowerLoss
  <2>2. QED
    BY <1>2, <1>9, <2>1
<1>12. CASE UNCHANGED vars
  BY <1>2, <1>12 DEF vars
<1>13. QED
  BY <1>3, <1>4, <1>5, <1>6, <1>7, <1>8, <1>10, <1>11, <1>12
     DEF Next, ScannerStep, WriterStep

\* The carve thread never holds two claims, whatever the files' ranges are, so
\* the bound prune_claims puts on their number never drops one.
THEOREM OneOpenClaimAlways == Spec => []OneOpenClaim
<1>1. Init => TypedShape /\ ClaimsBehind /\ OneOpenClaim
  BY TypedShapeInit DEF Init, ClaimsBehind, OneOpenClaim
<1>2. TypedShape /\ ClaimsBehind /\ OneOpenClaim /\ [Next]_vars
      => (TypedShape /\ ClaimsBehind /\ OneOpenClaim)'
  BY TypedShapeStep, ClaimsStep
<1>3. QED
  BY <1>1, <1>2, PTL DEF Spec

-----------------------------------------------------------------------------
(* What a step does to the database.                                       *)

\* A run only goes on while the scan is not complete.
OpenRun == Running => db.saved # "complete"

NoOutage == faults'["power"] = faults["power"]

LEMMA StrikeOther ==
    ASSUME TypeOK, NEW kind \in FaultKind \ {"power"}, Strike(kind)
    PROVE  NoOutage
BY DEF Strike, TypeOK, FaultKind, NoOutage

\* Apart from a power failure, a step adds rows, moves the cursor, or leaves the
\* database alone; the first two only in a run.
LEMMA StoreStep ==
    ASSUME TypedShape, [Next]_vars
    PROVE  \/ UNCHANGED db /\ stale' \subseteq stale /\ NoOutage
           \/ \E from, to : Flush(from, to) /\ Running /\ Running' /\ NoOutage
           \/ CheckpointPut /\ Running /\ NoOutage
           \/ LastPut /\ Running /\ NoOutage
           \/ PowerLoss
<1>1. TypeOK
  BY DEF TypedShape
<1>2. CASE UNCHANGED <<db, faults>> /\ stale' \subseteq stale
  BY <1>2 DEF NoOutage
<1>3. CASE FlushBatch \/ CheckpointFlush \/ LastFlush
  BY <1>3 DEF FlushBatch, CheckpointFlush, LastFlush, Flush, Running, NoOutage
<1>4. CASE CheckpointPut \/ LastPut
  BY <1>4 DEF CheckpointPut, LastPut, Running, NoOutage
<1>5. CASE ScanPanic \/ WriterFails \/ LastWriteFails \/ Sigint \/ Crash \/ Unplug
  <2>1. NoOutage
    BY <1>1, <1>5, StrikeOther
       DEF ScanPanic, WriterFails, LastWriteFails, Sigint, Crash, Unplug, FaultKind
  <2>2. UNCHANGED <<db, stale>>
    BY <1>5 DEF ScanPanic, WriterFails, LastWriteFails, Sigint, Crash, Unplug, storeVars
  <2>3. QED
    BY <2>1, <2>2
<1>6. ASSUME NEW resume, Start(resume)
      PROVE  UNCHANGED <<db, faults>> /\ stale' \subseteq stale
  BY <1>6 DEF Start, Launch, From, storeVars
<1>7. ASSUME NEW o, SkipCandidate(o) \/ EmitCandidate(o) \/ LoseCandidate(o)
      PROVE  UNCHANGED <<db, faults>> /\ stale' \subseteq stale
  BY <1>7 DEF SkipCandidate, EmitCandidate, Emit, LoseCandidate, storeVars
<1>8. ASSUME StartComplete \/ ScanExit \/ ReadChunk \/ EndChunk \/ Poll
             \/ RecvFound \/ RecvProgress \/ RecvTimeout \/ Disconnected
             \/ JoinAfterError \/ WalSync \/ UNCHANGED vars
      PROVE  UNCHANGED <<db, faults>> /\ stale' \subseteq stale
  BY <1>8 DEF StartComplete, ScanExit, ReadChunk, EndChunk, Poll, RecvFound,
              RecvProgress, RecvTimeout, Disconnected, JoinAfterError, WalSync,
              storeVars, vars
<1>9. QED
  BY <1>2, <1>3, <1>4, <1>5, <1>6, <1>7, <1>8 DEF Next, ScannerStep, WriterStep

LEMMA RunningStep ==
    ASSUME [Next]_vars, ~Running, Running'
    PROVE  db.saved # "complete" /\ UNCHANGED db
<1>1. ASSUME NEW resume, Start(resume)
      PROVE  db.saved # "complete" /\ UNCHANGED db
  BY <1>1 DEF Start, Launch, From, storeVars
<1>2. CASE \E o \in Cand : SkipCandidate(o) \/ EmitCandidate(o) \/ LoseCandidate(o)
  BY <1>2 DEF SkipCandidate, EmitCandidate, Emit, LoseCandidate, writerVars, Running
<1>3. CASE StartComplete \/ ScanExit \/ ReadChunk \/ EndChunk \/ ScanPanic
           \/ WalSync \/ Unplug \/ UNCHANGED vars
  BY <1>3 DEF StartComplete, ScanExit, ReadChunk, EndChunk, ScanPanic, WalSync,
              Unplug, vars, writerVars, Running
<1>4. CASE Poll \/ RecvFound \/ RecvProgress \/ RecvTimeout \/ Disconnected
           \/ FlushBatch \/ CheckpointFlush \/ CheckpointPut \/ LastFlush \/ LastPut
           \/ JoinAfterError \/ WriterFails \/ LastWriteFails
  BY <1>4 DEF Poll, RecvFound, RecvProgress, RecvTimeout, Receive, Disconnected,
              FlushBatch, CheckpointFlush, CheckpointPut, LastFlush, Flush, LastPut,
              JoinAfterError, WriterFails, LastWriteFails, Running
<1>5. CASE Sigint \/ Crash \/ PowerLoss
  BY <1>5 DEF Sigint, Crash, PowerLoss, RunOver, writerVars, Running
<1>6. QED
  BY <1>1, <1>2, <1>3, <1>4, <1>5 DEF Next, ScannerStep, WriterStep

LEMMA OpenRunStep == TypedShape /\ OpenRun /\ [Next]_vars => OpenRun'
<1> SUFFICES ASSUME TypedShape, OpenRun, [Next]_vars, Running'
             PROVE  db'.saved # "complete"
  BY DEF OpenRun
<1>1. CASE ~Running
  BY <1>1, RunningStep
<1>2. CASE Running
  <2>1. db.saved # "complete" /\ db \in StoreState
    BY <1>2 DEF OpenRun, TypedShape, TypeOK
  <2>2. CASE \E from, to : Flush(from, to)
    BY <2>1, <2>2 DEF Flush, Commit, StoreState
  <2>3. CASE CheckpointPut
    BY <2>1, <2>3 DEF CheckpointPut, PutProgress, Commit, StoreState
  <2>4. CASE LastPut \/ PowerLoss
    BY <2>4 DEF LastPut, PowerLoss, RunOver, Running
  <2>5. QED
    BY <2>1, <2>2, <2>3, <2>4, StoreStep
<1>3. QED
  BY <1>1, <1>2

\* Once a scan is complete, no later run of the session touches its rows or its
\* progress; only a power failure can.
THEOREM CompleteIsFinalAlways == Spec => CompleteIsFinal
<1>1. Init => TypedShape /\ OpenRun
  BY TypedShapeInit DEF Init, OpenRun, Running
<1>2. TypedShape /\ OpenRun /\ [Next]_vars => (TypedShape /\ OpenRun)'
  BY TypedShapeStep, OpenRunStep
<1>3. TypedShape /\ OpenRun /\ [Next]_vars
      => [db.saved = "complete" /\ faults'["power"] = faults["power"] => db' = db]_vars
  <2> SUFFICES ASSUME TypedShape, OpenRun, [Next]_vars,
                      db.saved = "complete", faults'["power"] = faults["power"]
               PROVE  db' = db
    OBVIOUS
  <2>1. ~PowerLoss
    BY DEF PowerLoss, Strike, TypedShape, TypeOK, FaultKind
  <2>2. QED
    BY <2>1, StoreStep DEF OpenRun
<1>4. QED
  BY <1>1, <1>2, <1>3, PTL DEF Spec, CompleteIsFinal

-----------------------------------------------------------------------------
(* A cursor only grows on its way: the carve thread's position, those in   *)
(* the channel, the writer's and, in a resumed run, the stored one are in  *)
(* this order.                                                             *)

Cursor(m, k) == m.type = "progress" /\ m.at = k

Rising ==
    /\ cur <= pos
    /\ \A i \in 1 .. Len(chan), k \in 0 .. NumChunks :
          Cursor(chan[i], k) => cur <= k /\ k <= pos
    /\ \A i \in 1 .. Len(chan), j \in 1 .. Len(chan), k \in 0 .. NumChunks, l \in 0 .. NumChunks :
          i < j /\ Cursor(chan[i], k) /\ Cursor(chan[j], l) => k <= l
    /\ resumed => db.cursor <= cur

LEMMA RunOverRising ==
    ASSUME NEW how, RunOver(how)
    PROVE  Rising'
BY DEF RunOver, Rising

LEMMA RisingStutter ==
    ASSUME Rising, UNCHANGED <<pos, chan, cur, resumed>>, db'.cursor = db.cursor
    PROVE  Rising'
BY DEF Rising

\* What is sent last does not precede a cursor already on its way.
LEMMA SendRising ==
    ASSUME TypeOK, Rising, UNCHANGED <<cur, resumed, db>>,
           NEW m \in Msg, Send(m), pos' \in 0 .. NumChunks, pos <= pos',
           \A k \in 0 .. NumChunks : Cursor(m, k) => pos <= k /\ k <= pos'
    PROVE  Rising'
<1>1. /\ cur \in 0 .. NumChunks /\ pos \in 0 .. NumChunks /\ chan \in Seq(Msg)
      /\ NumChunks \in Nat
  BY ScanAssumption DEF ScanAssumption, TypeOK
<1>2. CASE UNCHANGED chan
  BY <1>1, <1>2 DEF Rising
<1>3. CASE Len(chan') = Len(chan) + 1 /\ chan'[Len(chan) + 1] = m
           /\ \A i \in 1 .. Len(chan) : chan'[i] = chan[i]
  <2>1. Len(chan) \in Nat
    BY <1>1
  <2>2. ASSUME NEW i \in 1 .. Len(chan'), NEW k \in 0 .. NumChunks, Cursor(chan'[i], k)
        PROVE  cur <= k /\ k <= pos'
    <3>1. CASE i \in 1 .. Len(chan)
      BY <1>1, <1>3, <2>2, <3>1 DEF Rising
    <3>2. CASE i = Len(chan) + 1
      BY <1>1, <1>3, <2>2, <3>2 DEF Rising
    <3>3. QED
      BY <1>3, <2>1, <3>1, <3>2
  <2>3. ASSUME NEW i \in 1 .. Len(chan'), NEW j \in 1 .. Len(chan'),
               NEW k \in 0 .. NumChunks, NEW l \in 0 .. NumChunks,
               i < j, Cursor(chan'[i], k), Cursor(chan'[j], l)
        PROVE  k <= l
    <3>1. i \in 1 .. Len(chan)
      BY <1>3, <2>1, <2>3
    <3>2. Cursor(chan[i], k)
      BY <1>3, <2>3, <3>1
    <3>3. CASE j \in 1 .. Len(chan)
      BY <1>3, <2>3, <3>1, <3>2, <3>3 DEF Rising
    <3>4. CASE j = Len(chan) + 1
      <4>1. k <= pos
        BY <3>1, <3>2 DEF Rising
      <4>2. pos <= l
        BY <1>3, <2>3, <3>4
      <4>3. QED
        BY <1>1, <4>1, <4>2
    <3>5. QED
      BY <1>3, <2>1, <3>3, <3>4
  <2>4. cur' = cur /\ cur <= pos' /\ (resumed' => db'.cursor <= cur')
    BY <1>1 DEF Rising
  <2>5. QED
    BY <2>2, <2>3, <2>4 DEF Rising
<1>4. QED
  BY <1>1, <1>2, <1>3 DEF Send

\* What is received leaves the order of the rest.
LEMMA ReceiveRising ==
    ASSUME TypeOK, Rising, Receive, UNCHANGED <<pos, resumed, db>>,
           cur' = cur \/ Cursor(Head(chan), cur')
    PROVE  Rising'
<1>1. /\ cur \in 0 .. NumChunks /\ pos \in 0 .. NumChunks /\ chan \in Seq(Msg)
      /\ db.cursor \in 0 .. NumChunks /\ NumChunks \in Nat
  BY ScanAssumption DEF ScanAssumption, TypeOK, StoreState
<1>2. /\ Len(chan) \in Nat /\ 1 \in 1 .. Len(chan) /\ Head(chan) = chan[1]
      /\ Len(chan') = Len(chan) - 1
      /\ \A i \in 1 .. Len(chan') : chan'[i] = chan[i + 1] /\ i + 1 \in 1 .. Len(chan)
  BY <1>1 DEF Receive
<1>3. cur' \in 0 .. NumChunks /\ cur <= cur' /\ cur' <= pos
  <2>1. CASE cur' = cur
    BY <1>1, <2>1 DEF Rising
  <2>2. CASE Cursor(chan[1], cur')
    <3>1. chan[1] \in Msg /\ chan[1].type = "progress"
      BY <1>1, <1>2, <2>2 DEF Cursor
    <3>2. chan[1].at \in 0 .. NumChunks
      BY <3>1 DEF Msg
    <3>3. cur' \in 0 .. NumChunks
      BY <2>2, <3>2 DEF Cursor
    <3>4. QED
      BY <1>2, <2>2, <3>3 DEF Rising
  <2>3. QED
    BY <1>2, <2>1, <2>2
<1>4. ASSUME NEW i \in 1 .. Len(chan'), NEW k \in 0 .. NumChunks, Cursor(chan'[i], k)
      PROVE  cur' <= k /\ k <= pos
  <2>1. i + 1 \in 1 .. Len(chan) /\ Cursor(chan[i + 1], k)
    BY <1>2, <1>4
  <2>2. cur <= k /\ k <= pos
    BY <2>1 DEF Rising
  <2>3. CASE cur' = cur
    BY <2>2, <2>3
  <2>4. CASE Cursor(chan[1], cur')
    BY <1>2, <1>3, <2>1, <2>2, <2>4 DEF Rising
  <2>5. QED
    BY <1>2, <2>3, <2>4
<1>5. ASSUME NEW i \in 1 .. Len(chan'), NEW j \in 1 .. Len(chan'),
             NEW k \in 0 .. NumChunks, NEW l \in 0 .. NumChunks,
             i < j, Cursor(chan'[i], k), Cursor(chan'[j], l)
      PROVE  k <= l
  BY <1>2, <1>5 DEF Rising
<1>6. resumed' => db'.cursor <= cur'
  BY <1>1, <1>3 DEF Rising
<1>7. QED
  BY <1>3, <1>4, <1>5, <1>6 DEF Rising

LEMMA RisingStep == TypedShape /\ Rising /\ [Next]_vars => Rising'
<1> SUFFICES ASSUME TypedShape, Rising, [Next]_vars
             PROVE  Rising'
  OBVIOUS
<1> USE ScanAssumption
<1>1. TypeOK /\ Shape /\ TypeOK'
  BY TypedShapeStep DEF TypedShape
<1>2. ASSUME NEW resume \in BOOLEAN, Start(resume)
      PROVE  Rising'
  <2>1. db.cursor \in 0 .. NumChunks /\ NumChunks \in Nat
    BY <1>1 DEF TypeOK, StoreState, ScanAssumption
  <2>2. cur' = From(resume) /\ pos' = From(resume) /\ chan' = <<>> /\ db' = db
        /\ (resumed' => From(resume) = db.cursor)
    BY <1>2 DEF Start, Launch, From, storeVars
  <2>3. QED
    BY <2>1, <2>2 DEF Rising, From
<1>3. CASE StartComplete \/ ScanExit \/ ReadChunk \/ ScanPanic \/ Poll \/ RecvTimeout
           \/ WalSync \/ Unplug \/ UNCHANGED vars
  <2>1. UNCHANGED <<pos, chan, cur, resumed, db>>
    BY <1>3 DEF StartComplete, ScanExit, ReadChunk, ScanPanic, Poll, RecvTimeout,
                WalSync, Unplug, vars, scanVars, writerVars, storeVars
  <2>2. QED
    BY <2>1, RisingStutter
<1>4. ASSUME NEW o, SkipCandidate(o) \/ LoseCandidate(o)
      PROVE  Rising'
  BY <1>4, RisingStutter DEF SkipCandidate, LoseCandidate, writerVars, storeVars
<1>5. ASSUME NEW o \in Cand, EmitCandidate(o)
      PROVE  Rising'
  <2>1. FoundMsg(o) \in Msg /\ \A k : ~Cursor(FoundMsg(o), k)
    BY DEF FoundMsg, Msg, Cursor
  <2>2. Send(FoundMsg(o)) /\ UNCHANGED <<cur, resumed, db, pos>>
    BY <1>5 DEF EmitCandidate, Emit, writerVars, storeVars
  <2>3. pos' \in 0 .. NumChunks /\ pos <= pos'
    BY <1>1, <2>2 DEF TypeOK
  <2>4. QED
    BY <1>1, <2>1, <2>2, <2>3, SendRising
<1>6. CASE EndChunk
  <2>1. pos' = pos + 1 /\ pos \in 0 .. NumChunks /\ pos' \in 0 .. NumChunks
    BY <1>1, <1>6 DEF EndChunk, TypeOK
  <2>2. ProgressMsg(pos + 1) \in Msg
        /\ \A k \in 0 .. NumChunks : Cursor(ProgressMsg(pos + 1), k) => pos <= k /\ k <= pos'
    BY <2>1 DEF ProgressMsg, Msg, Cursor
  <2>3. Send(ProgressMsg(pos + 1)) /\ UNCHANGED <<cur, resumed, db>>
    BY <1>6 DEF EndChunk, writerVars, storeVars
  <2>4. pos <= pos'
    BY <2>1
  <2>5. QED
    BY <1>1, <2>1, <2>2, <2>3, <2>4, SendRising
<1>7. CASE RecvFound \/ RecvProgress
  <2>1. Receive /\ UNCHANGED <<pos, resumed, db>>
    BY <1>7 DEF RecvFound, RecvProgress, scanVars, storeVars
  <2>2. cur' = cur \/ Cursor(Head(chan), cur')
    BY <1>7 DEF RecvFound, RecvProgress, Cursor
  <2>3. QED
    BY <1>1, <2>1, <2>2, ReceiveRising
<1>8. ASSUME NEW from, NEW to, Flush(from, to)
      PROVE  Rising'
  <2>1. db'.cursor = db.cursor
    BY <1>1, <1>8 DEF Flush, Commit, TypeOK, StoreState
  <2>2. UNCHANGED <<pos, chan, cur, resumed>>
    BY <1>8 DEF Flush, scanVars
  <2>3. QED
    BY <2>1, <2>2, RisingStutter
<1>9. CASE CheckpointPut
  <2>1. db'.cursor = cur /\ cur \in Nat
    BY <1>1, <1>9 DEF CheckpointPut, PutProgress, Commit, TypeOK, StoreState
  <2>2. UNCHANGED <<pos, chan, cur, resumed>>
    BY <1>9 DEF CheckpointPut, scanVars
  <2>3. QED
    BY <2>1, <2>2 DEF Rising
<1>10. CASE WriterFails
  BY <1>10 DEF WriterFails, Rising, scanVars, storeVars
<1>11. CASE Disconnected \/ LastPut \/ JoinAfterError \/ LastWriteFails
            \/ Sigint \/ Crash \/ PowerLoss
  <2>1. UNCHANGED <<pos, chan, cur, resumed, db>> \/ \E how : RunOver(how)
    BY <1>11 DEF Disconnected, LastPut, JoinAfterError, LastWriteFails, Sigint, Crash,
                 PowerLoss, scanVars, writerVars, storeVars
  <2>2. QED
    BY <2>1, RunOverRising, RisingStutter
<1>12. QED
  BY <1>2, <1>3, <1>4, <1>5, <1>6, <1>7, <1>8, <1>9, <1>10, <1>11
     DEF Next, ScannerStep, WriterStep, FlushBatch, CheckpointFlush, LastFlush

\* No step of a resumed run, under any fault but a power failure, moves the
\* stored cursor back: neither a checkpoint on a timeout nor the last one.
THEOREM ResumeNeverRegressesAlways == Spec => ResumeNeverRegresses
<1>1. Init => TypedShape /\ Rising
  BY TypedShapeInit DEF Init, Rising
<1>2. TypedShape /\ Rising /\ [Next]_vars => (TypedShape /\ Rising)'
  BY TypedShapeStep, RisingStep
<1>3. TypedShape /\ Rising /\ [Next]_vars
      => [resumed /\ faults'["power"] = faults["power"] => db'.cursor >= db.cursor]_vars
  <2> SUFFICES ASSUME TypedShape, Rising, [Next]_vars,
                      resumed, faults'["power"] = faults["power"]
               PROVE  db'.cursor >= db.cursor
    OBVIOUS
  <2>1. db \in StoreState /\ cur \in Nat /\ pos \in Nat /\ db.cursor \in Nat
        /\ db.cursor <= cur /\ cur <= pos
    BY ScanAssumption DEF ScanAssumption, TypedShape, TypeOK, StoreState, Rising
  <2>2. ~PowerLoss
    BY DEF PowerLoss, Strike, TypedShape, TypeOK, FaultKind
  <2>3. CASE UNCHANGED db
    BY <2>1, <2>3
  <2>4. CASE \E from, to : Flush(from, to)
    BY <2>1, <2>4 DEF Flush, Commit, StoreState
  <2>5. CASE CheckpointPut
    BY <2>1, <2>5 DEF CheckpointPut, PutProgress, Commit, StoreState
  <2>6. CASE LastPut
    BY <2>1, <2>6 DEF LastPut, PutProgress, Commit, StoreState
  <2>7. QED
    BY <2>2, <2>3, <2>4, <2>5, <2>6, StoreStep
<1>4. QED
  BY <1>1, <1>2, <1>3, PTL DEF Spec, ResumeNeverRegresses

-----------------------------------------------------------------------------
(* What one uninterrupted scan reports.  CleanUpTo is a recursive function *)
(* on an interval of numbers: that it satisfies its equation is shown from *)
(* the least number up to which no function would.                         *)

Size == NumChunks * ChunkLen

\* The result that starts at n - 1, if there is one none of the earlier hides.
Fresh(n, earlier) ==
    {o \in Cand : o = n - 1 /\ Emitted(o) /\ ~Suppressed(earlier \cap FullCand, o)}

LEMMA SizeType == Size \in Nat /\ \A o \in Cand : o \in 0 .. Size - 1
BY ScanAssumption, SMTT(30) DEF ScanAssumption, Size

Less == {ss \in Nat \X Nat : ss[1] < ss[2]}

LEMMA LessWellFounded == IsWellFoundedOn(Less, Nat)
BY NatLessThanWellFounded, Zenon DEF OpToRel, Less

LEMMA LeastOf ==
    ASSUME NEW S \in SUBSET Nat, S # {}
    PROVE  \E x \in S : \A y \in S : x <= y
<1>1. PICK x \in S : \A y \in S : <<y, x>> \notin Less
  BY LessWellFounded, WFMin, Zenon
<1>2. \A y \in S : ~(y < x)
  BY <1>1 DEF Less
<1>3. QED
  BY <1>2

LEMMA CleanUpToExists ==
    \A m \in 0 .. Size :
       \E f : f = [n \in 0 .. m |-> IF n = 0 THEN {} ELSE f[n - 1] \cup Fresh(n, f[n - 1])]
<1> DEFINE Solves(f, m) ==
             f = [n \in 0 .. m |-> IF n = 0 THEN {} ELSE f[n - 1] \cup Fresh(n, f[n - 1])]
           Bad == {m \in 0 .. Size : ~\E f : Solves(f, m)}
<1>1. SUFFICES ASSUME Bad # {}
               PROVE  FALSE
  OBVIOUS
<1>2. Bad \in SUBSET Nat
  OBVIOUS
<1>3. PICK x \in Bad : \A y \in Bad : x <= y
  BY <1>1, <1>2, LeastOf, Zenon
<1>4. x \in 0 .. Size /\ ~\E f : Solves(f, x)
  BY <1>3
<1>5. x # 0
  <2> DEFINE f == [n \in 0 .. 0 |-> {}]
  <2>1. \A n \in 0 .. 0 : n = 0
    OBVIOUS
  <2>2. Solves(f, 0)
    BY <2>1
  <2>3. QED
    BY <1>4, <2>2
<1>6. x - 1 \in 0 .. Size /\ x - 1 \notin Bad
  <2>1. x \in Nat /\ Size \in Nat
    BY <1>2, <1>3, SizeType
  <2>2. x - 1 \in 0 .. Size /\ ~(x <= x - 1)
    BY <1>4, <1>5, <2>1
  <2>3. QED
    BY <1>3, <2>2
<1>7. PICK f : Solves(f, x - 1)
  BY <1>6
<1> DEFINE g == [n \in 0 .. x |-> IF n = x THEN f[x - 1] \cup Fresh(x, f[x - 1]) ELSE f[n]]
<1>8. Solves(g, x)
  <2>1. x \in Nat /\ x > 0
    BY <1>4, <1>5, SizeType
  <2>2. ASSUME NEW n \in 0 .. x
        PROVE  g[n] = IF n = 0 THEN {} ELSE g[n - 1] \cup Fresh(n, g[n - 1])
    <3>1. CASE n = x
      <4>1. n # 0 /\ n - 1 \in 0 .. x /\ n - 1 # x
        BY <2>1, <3>1
      <4>2. g[n - 1] = f[n - 1]
        BY <4>1
      <4>3. g[n] = f[n - 1] \cup Fresh(n, f[n - 1])
        BY <3>1
      <4>4. QED
        BY <4>1, <4>2, <4>3
    <3>2. CASE n # x
      <4>1. n \in 0 .. x - 1
        BY <2>1, <3>2
      <4>2. f[n] = IF n = 0 THEN {} ELSE f[n - 1] \cup Fresh(n, f[n - 1])
        BY <1>7, <4>1
      <4>3. g[n] = f[n]
        BY <3>2
      <4>4. n # 0 => g[n - 1] = f[n - 1]
        <5>1. n # 0 => n - 1 \in 0 .. x /\ n - 1 # x
          BY <2>1, <4>1
        <5>2. QED
          BY <5>1
      <4>5. QED
        BY <4>2, <4>3, <4>4
    <3>3. QED
      BY <3>1, <3>2
  <2>3. QED
    BY <2>2
<1>9. QED
  BY <1>4, <1>8

LEMMA CleanUpToValue ==
    /\ CleanUpTo[0] = {}
    /\ \A n \in 1 .. Size : CleanUpTo[n] = CleanUpTo[n - 1] \cup Fresh(n, CleanUpTo[n - 1])
<1>1. CleanUpTo = CHOOSE f : f = [n \in 0 .. Size |->
                    IF n = 0 THEN {} ELSE f[n - 1] \cup Fresh(n, f[n - 1])]
  BY DEF CleanUpTo, Fresh, Size
<1>2. CleanUpTo = [n \in 0 .. Size |->
         IF n = 0 THEN {} ELSE CleanUpTo[n - 1] \cup Fresh(n, CleanUpTo[n - 1])]
  <2>1. Size \in 0 .. Size
    BY SizeType
  <2>2. \E f : f = [n \in 0 .. Size |-> IF n = 0 THEN {} ELSE f[n - 1] \cup Fresh(n, f[n - 1])]
    BY <2>1, CleanUpToExists
  <2>3. QED
    BY <1>1, <2>2
<1>3. \A n \in 0 .. Size :
         CleanUpTo[n] = IF n = 0 THEN {} ELSE CleanUpTo[n - 1] \cup Fresh(n, CleanUpTo[n - 1])
  BY <1>2
<1>4. 0 \in 0 .. Size /\ \A n \in 1 .. Size : n \in 0 .. Size /\ n # 0
  BY SizeType
<1>5. CleanUpTo[0] = {}
  BY <1>3, <1>4
<1>6. ASSUME NEW n \in 1 .. Size
      PROVE  CleanUpTo[n] = CleanUpTo[n - 1] \cup Fresh(n, CleanUpTo[n - 1])
  BY <1>3, <1>4
<1>7. QED
  BY <1>5, <1>6

\* Only offsets before n are in CleanUpTo[n].
LEMMA CleanUpToBelow ==
    \A n \in 0 .. Size : CleanUpTo[n] \subseteq {o \in Cand : o < n}
<1> DEFINE Bad == {n \in 0 .. Size : ~(CleanUpTo[n] \subseteq {o \in Cand : o < n})}
<1>1. SUFFICES ASSUME Bad # {}
               PROVE  FALSE
  OBVIOUS
<1>2. Bad \in SUBSET Nat
  OBVIOUS
<1>3. PICK x \in Bad : \A y \in Bad : x <= y
  BY <1>1, <1>2, LeastOf, Zenon
<1>4. x \in 1 .. Size
  BY <1>3, CleanUpToValue, SizeType
<1>5. x - 1 \in 0 .. Size /\ x - 1 \notin Bad
  BY <1>3, <1>4, SizeType
<1>6. CleanUpTo[x - 1] \subseteq {o \in Cand : o < x - 1}
  BY <1>5
<1>7. CleanUpTo[x] = CleanUpTo[x - 1] \cup Fresh(x, CleanUpTo[x - 1])
  BY <1>4, CleanUpToValue
<1>8. CleanUpTo[x] \subseteq {o \in Cand : o < x}
  BY <1>4, <1>6, <1>7, SizeType DEF Fresh
<1>9. QED
  BY <1>3, <1>8

\* Whether o is in it is settled once n has passed o.
LEMMA CleanUpToSettled ==
    ASSUME NEW o \in Cand, NEW n \in 0 .. Size, o < n
    PROVE  o \in CleanUpTo[n] <=> o \in CleanUpTo[o + 1]
<1> DEFINE Bad == {m \in 0 .. Size : o < m /\ ~(o \in CleanUpTo[m] <=> o \in CleanUpTo[o + 1])}
<1>1. SUFFICES ASSUME Bad # {}
               PROVE  FALSE
  OBVIOUS
<1>2. Bad \in SUBSET Nat
  OBVIOUS
<1>3. PICK x \in Bad : \A y \in Bad : x <= y
  BY <1>1, <1>2, LeastOf, Zenon
<1>4. o \in Nat /\ x \in 0 .. Size /\ o < x /\ x # o + 1
  BY <1>3, SizeType
<1>5. x \in 1 .. Size /\ x - 1 \in 0 .. Size /\ o < x - 1 /\ ~(x <= x - 1)
  BY <1>4, SizeType
<1>6. x - 1 \notin Bad
  BY <1>3, <1>5
<1>7. o \in CleanUpTo[x - 1] <=> o \in CleanUpTo[o + 1]
  BY <1>5, <1>6
<1>8. CleanUpTo[x] = CleanUpTo[x - 1] \cup Fresh(x, CleanUpTo[x - 1])
  BY <1>5, CleanUpToValue
<1>9. o \notin Fresh(x, CleanUpTo[x - 1])
  BY <1>5 DEF Fresh
<1>10. QED
  BY <1>3, <1>7, <1>8, <1>9

CleanFull == CleanResults \cap FullCand
Earlier(o) == {c \in CleanFull : c < o}

\* A result of the clean scan is one no earlier Full result of it has inside.
LEMMA CleanResultsAre ==
    /\ CleanResults \in SUBSET Cand
    /\ \A o \in Cand : o \in CleanResults <=> Emitted(o) /\ ~Suppressed(Earlier(o), o)
<1>1. CleanResults \in SUBSET Cand
  BY CleanUpToBelow, SizeType DEF CleanResults, Size
<1>2. ASSUME NEW o \in Cand
      PROVE  o \in CleanResults <=> Emitted(o) /\ ~Suppressed(Earlier(o), o)
  <2>1. o \in Nat /\ o \in 0 .. Size /\ o + 1 \in 1 .. Size /\ o < Size /\ Size \in 0 .. Size
    BY SizeType
  <2>2. CleanUpTo[o] \cap FullCand = Earlier(o)
    <3>1. ASSUME NEW c \in Cand, c < o
          PROVE  c \in CleanUpTo[o] <=> c \in CleanResults
      <4>1. c < Size
        BY <3>1, SizeType
      <4>2. QED
        BY <2>1, <3>1, <4>1, CleanUpToSettled DEF CleanResults, Size
    <3>2. \A c \in CleanUpTo[o] : c \in Cand /\ c < o
      BY <2>1, CleanUpToBelow
    <3>3. QED
      BY <1>1, <3>1, <3>2 DEF Earlier, CleanFull
  <2>3. CleanUpTo[o + 1] = CleanUpTo[o] \cup Fresh(o + 1, CleanUpTo[o])
    BY <2>1, CleanUpToValue
  <2>4. o \notin CleanUpTo[o]
    BY <2>1, CleanUpToBelow
  <2>5. o \in CleanResults <=> o \in CleanUpTo[o + 1]
    BY <2>1, CleanUpToSettled DEF CleanResults, Size
  <2>6. o \in Fresh(o + 1, CleanUpTo[o]) <=> Emitted(o) /\ ~Suppressed(Earlier(o), o)
    <3>1. (o + 1) - 1 = o
      BY <2>1
    <3>2. Fresh(o + 1, CleanUpTo[o])
          = {p \in Cand : p = o /\ Emitted(p) /\ ~Suppressed(Earlier(o), p)}
      BY <2>2, <3>1, Zenon DEF Fresh
    <3>3. QED
      BY <3>2
  <2>7. QED
    BY <2>3, <2>4, <2>5, <2>6
<1>3. QED
  BY <1>1, <1>2

-----------------------------------------------------------------------------
(* A scan that is resumed reports what the clean scan does, if no claim    *)
(* was open at the chunk it resumes from: the new run starts without any.  *)

\* The carve thread has dealt with it.
Gone(o) ==
    \/ ChunkOf(o) < pos
    \/ scanner = "chunk" /\ ChunkOf(o) = pos /\ o \notin todo

\* No Full result of the clean scan that starts before chunk k has a candidate
\* of a later one inside.
Unstraddled(k) ==
    \A c \in CleanFull, o \in Cand :
       ChunkOf(c) < k /\ k <= ChunkOf(o) => ~Suppressed({c}, o)

ResumesUnstraddled == \A resume \in BOOLEAN : Start(resume) => Unstraddled(From(resume))

\* The candidates left in a chunk are the last of it.
TodoIsRest ==
    scanner = "chunk" =>
       \A o \in todo :
          /\ ChunkOf(o) = pos
          /\ \A c \in Cand : ChunkOf(c) = pos /\ c \notin todo => c < o

\* What is still ahead is suppressed by the claims exactly when the clean
\* results behind suppress it.
ClaimsAgree ==
    scanner \in {"head", "chunk"} =>
       \A p \in Cand : ~Gone(p) =>
          (Suppressed(claims, p) <=> Suppressed({c \in CleanFull : Gone(c)}, p))

\* No other result is on its way or stored.
OnlyClean ==
    /\ \A s \in stale \cup {db} : s.rows \subseteq CleanResults
    /\ pending \subseteq CleanResults
    /\ \A i \in 1 .. Len(chan), o \in Cand : chan[i] = FoundMsg(o) => o \in CleanResults

CleanInv == FlowInv(CleanResults) /\ TodoIsRest /\ ClaimsAgree /\ OnlyClean

LEMMA GoneIsBefore ==
    ASSUME TypedShape, TodoIsRest, NEW o \in Cand, NextCandidate(o)
    PROVE  \A c \in Cand : Gone(c) <=> c < o
<1>1. /\ scanner = "chunk" /\ o \in todo /\ ChunkOf(o) = pos /\ pos \in Nat
      /\ \A p \in todo : o <= p
      /\ \A c \in Cand : ChunkOf(c) = pos /\ c \notin todo => c < o
  BY ScanAssumption DEF ScanAssumption, NextCandidate, TodoIsRest, TypedShape, TypeOK
<1>2. ASSUME NEW c \in Cand, Gone(c)
      PROVE  c < o
  BY <1>1, <1>2, ChunksAreOrdered DEF Gone
<1>3. ASSUME NEW c \in Cand, c < o
      PROVE  Gone(c)
  <2>1. c \in Nat /\ o \in Nat
    BY ScanAssumption DEF ScanAssumption
  <2>2. ~(ChunkOf(o) < ChunkOf(c))
    BY <1>3, <2>1, ChunksAreOrdered
  <2>3. ChunkOf(c) \in Nat /\ ChunkOf(o) \in Nat
    BY ChunkOfType
  <2>4. ChunkOf(c) < pos \/ ChunkOf(c) = pos
    BY <1>1, <2>2, <2>3
  <2>5. c \notin todo
    BY <1>1, <1>3, <2>1
  <2>6. QED
    BY <1>1, <2>4, <2>5 DEF Gone
<1>4. QED
  BY <1>2, <1>3

\* So the claims decide over the next candidate as the clean scan does.
LEMMA NextIsClean ==
    ASSUME TypedShape, TodoIsRest, ClaimsAgree, NEW o \in Cand, NextCandidate(o)
    PROVE  o \in CleanResults <=> Emitted(o) /\ ~Suppressed(claims, o)
<1>1. \A c \in Cand : Gone(c) <=> c < o
  BY GoneIsBefore
<1>2. o \in Nat
  BY ScanAssumption DEF ScanAssumption
<1>3. {c \in CleanFull : Gone(c)} = Earlier(o)
  BY <1>1, CleanResultsAre DEF Earlier, CleanFull
<1>4. ~Gone(o) /\ scanner = "chunk"
  BY <1>1, <1>2 DEF NextCandidate
<1>5. Suppressed(claims, o) <=> Suppressed({c \in CleanFull : Gone(c)}, o)
  BY <1>4 DEF ClaimsAgree
<1>6. QED
  BY <1>3, <1>5, CleanResultsAre

LEMMA RunOverClean ==
    ASSUME NEW how, RunOver(how)
    PROVE  TodoIsRest' /\ ClaimsAgree'
BY DEF RunOver, TodoIsRest, ClaimsAgree

LEMMA TodoStep == TypedShape /\ TodoIsRest /\ [Next]_vars => TodoIsRest'
<1> SUFFICES ASSUME TypedShape, TodoIsRest, [Next]_vars
             PROVE  TodoIsRest'
  OBVIOUS
<1>1. CASE UNCHANGED <<scanner, pos, todo>>
  BY <1>1 DEF TodoIsRest
<1>2. ASSUME NEW resume, Start(resume)
      PROVE  TodoIsRest'
  BY <1>2 DEF Start, Launch, From, TodoIsRest
<1>3. CASE ScanExit \/ ScanPanic \/ EndChunk
  BY <1>3 DEF ScanExit, ScanPanic, EndChunk, TodoIsRest
<1>4. CASE ReadChunk
  <2>1. todo' \subseteq {o \in Cand : ChunkOf(o) = pos} /\ pos' = pos
    BY <1>4 DEF ReadChunk
  <2>2. todo' = {} \/ todo' = {o \in Cand : ChunkOf(o) = pos}
    BY <1>4 DEF ReadChunk
  <2>3. QED
    BY <2>1, <2>2 DEF TodoIsRest
<1>5. ASSUME NEW o \in Cand, NextCandidate(o), UNCHANGED <<scanner, pos>>
      PROVE  TodoIsRest'
  <2>1. /\ scanner = "chunk" /\ o \in todo /\ todo' = todo \ {o} /\ todo \subseteq Cand
        /\ \A p \in todo : o <= p
    BY <1>5 DEF NextCandidate, TypedShape, TypeOK
  <2>2. \A p \in todo' : p \in Nat /\ o \in Nat /\ o < p
    BY <2>1, ScanAssumption DEF ScanAssumption
  <2>3. QED
    BY <1>5, <2>1, <2>2 DEF TodoIsRest
<1>6. ASSUME NEW o \in Cand, SkipCandidate(o) \/ EmitCandidate(o) \/ LoseCandidate(o)
      PROVE  TodoIsRest'
  BY <1>5, <1>6 DEF SkipCandidate, EmitCandidate, Emit, LoseCandidate
<1>7. CASE StartComplete \/ Poll \/ RecvFound \/ RecvProgress \/ RecvTimeout
           \/ FlushBatch \/ CheckpointFlush \/ CheckpointPut \/ LastFlush
           \/ WriterFails \/ WalSync \/ Unplug \/ UNCHANGED vars
  BY <1>1, <1>7
     DEF StartComplete, Poll, RecvFound, RecvProgress, RecvTimeout, FlushBatch,
         CheckpointFlush, CheckpointPut, LastFlush, Flush, WriterFails, WalSync,
         Unplug, vars, scanVars
<1>8. CASE Disconnected \/ LastPut \/ JoinAfterError \/ LastWriteFails
           \/ Sigint \/ Crash \/ PowerLoss
  <2>1. UNCHANGED <<scanner, pos, todo>> \/ \E how : RunOver(how)
    BY <1>8 DEF Disconnected, LastPut, JoinAfterError, LastWriteFails, Sigint, Crash,
                PowerLoss, scanVars
  <2>2. QED
    BY <1>1, <2>1, RunOverClean
<1>9. QED
  BY <1>2, <1>3, <1>4, <1>6, <1>7, <1>8 DEF Next, ScannerStep, WriterStep

LEMMA ClaimsAgreeStep ==
    ASSUME TypedShape, TodoIsRest, ClaimsAgree, plugged, ResumesUnstraddled, [Next]_vars
    PROVE  ClaimsAgree'
<1> USE ScanAssumption
<1>1. TypeOK /\ Shape
  BY DEF TypedShape
<1>2. ASSUME UNCHANGED claims, scanner \in {"head", "chunk"}, \A c \in Cand : Gone(c)' <=> Gone(c)
      PROVE  ClaimsAgree'
  <2>1. {c \in CleanFull : Gone(c)'} = {c \in CleanFull : Gone(c)}
    BY <1>2, CleanResultsAre DEF CleanFull
  <2>2. ASSUME NEW p \in Cand, ~Gone(p)'
        PROVE  Suppressed(claims', p) <=> Suppressed({c \in CleanFull : Gone(c)'}, p)
    BY <1>2, <2>1, <2>2 DEF ClaimsAgree
  <2>3. QED
    BY <2>2 DEF ClaimsAgree, Suppressed, CleanFull
<1>3. CASE UNCHANGED <<scanner, pos, todo, claims>>
  BY <1>3 DEF ClaimsAgree, Gone, Suppressed, CleanFull
<1>4. ASSUME NEW resume \in BOOLEAN, Start(resume)
      PROVE  ClaimsAgree'
  <2>1. pos' = From(resume) /\ claims' = {} /\ scanner' = "head"
    BY <1>4 DEF Start, Launch
  <2>2. Unstraddled(From(resume)) /\ From(resume) \in Nat
    BY <1>1, <1>4 DEF ResumesUnstraddled, From, TypeOK, StoreState, ScanAssumption
  <2>3. \A c \in Cand : Gone(c)' <=> ChunkOf(c) < From(resume)
    BY <2>1 DEF Gone
  <2>4. ASSUME NEW p \in Cand, ~Gone(p)', NEW c \in CleanFull, Gone(c)'
        PROVE  ~Suppressed({c}, p)
    <3>1. c \in Cand
      BY CleanResultsAre DEF CleanFull
    <3>2. ChunkOf(c) < From(resume) /\ From(resume) <= ChunkOf(p)
      BY <2>2, <2>3, <2>4, <3>1, ChunkOfType
    <3>3. QED
      BY <2>2, <3>2 DEF Unstraddled
  <2>5. ASSUME NEW p \in Cand, ~Gone(p)'
        PROVE  ~Suppressed(claims', p) /\ ~Suppressed({c \in CleanFull : Gone(c)'}, p)
    BY <2>1, <2>4, <2>5 DEF Suppressed
  <2>6. QED
    BY <2>5 DEF ClaimsAgree, Suppressed, CleanFull
<1>5. CASE ScanExit \/ ScanPanic
  BY <1>5 DEF ScanExit, ScanPanic, ClaimsAgree
<1>6. CASE ReadChunk
  <2>1. /\ scanner = "head" /\ scanner' = "chunk" /\ UNCHANGED <<pos, claims>>
        /\ todo' = {o \in Cand : ChunkOf(o) = pos}
    BY <1>6 DEF ReadChunk
  <2>2. \A c \in Cand : Gone(c)' <=> Gone(c)
    BY <2>1 DEF Gone
  <2>3. QED
    BY <1>2, <2>1, <2>2
<1>7. CASE EndChunk
  <2>1. /\ scanner = "chunk" /\ scanner' = "head" /\ pos' = pos + 1 /\ UNCHANGED claims
        /\ todo = {} /\ pos \in Nat
    BY <1>1, <1>7 DEF EndChunk, TypeOK, ScanAssumption
  <2>2. \A c \in Cand : Gone(c)' <=> Gone(c)
    BY <2>1, ChunkOfType DEF Gone
  <2>3. QED
    BY <1>2, <2>1, <2>2
<1>8. ASSUME NEW o \in Cand, NextCandidate(o), UNCHANGED <<scanner, pos>>
      PROVE  /\ o \in Nat /\ scanner = "chunk" /\ ~Gone(o)
             /\ \A c \in Cand : Gone(c)' <=> Gone(c) \/ c = o
             /\ \A p \in Cand : ~Gone(p)' => ~Gone(p) /\ o < p
  <2>1. /\ scanner = "chunk" /\ o \in todo /\ todo' = todo \ {o} /\ ChunkOf(o) = pos
    BY <1>8 DEF NextCandidate, TodoIsRest
  <2>2. \A c \in Cand : Gone(c) <=> c < o
    BY <1>8, GoneIsBefore
  <2>3. \A c \in Cand : Gone(c)' <=> Gone(c) \/ c = o
    BY <1>8, <2>1 DEF Gone
  <2>4. o \in Nat /\ \A p \in Cand : p \in Nat
    BY DEF ScanAssumption
  <2>5. QED
    BY <2>1, <2>2, <2>3, <2>4
<1>9. ASSUME NEW o \in Cand, SkipCandidate(o)
      PROVE  ClaimsAgree'
  <2>1. NextCandidate(o) /\ UNCHANGED <<scanner, pos, claims>>
    BY <1>9 DEF SkipCandidate
  <2>2. o \notin CleanResults
    BY <1>9, <2>1, NextIsClean DEF SkipCandidate
  <2>3. {c \in CleanFull : Gone(c)'} = {c \in CleanFull : Gone(c)}
    BY <1>8, <2>1, <2>2, CleanResultsAre DEF CleanFull
  <2>4. ASSUME NEW p \in Cand, ~Gone(p)'
        PROVE  Suppressed(claims', p) <=> Suppressed({c \in CleanFull : Gone(c)'}, p)
    BY <1>8, <2>1, <2>3, <2>4 DEF ClaimsAgree
  <2>5. QED
    BY <2>4 DEF ClaimsAgree, Suppressed, CleanFull
<1>10. ASSUME NEW o \in Cand, EmitCandidate(o)
       PROVE  ClaimsAgree'
  <2>1. /\ NextCandidate(o) /\ UNCHANGED <<scanner, pos>>
        /\ claims' = {c \in claims \cup ({o} \cap FullCand) : FileEnd[c] > o}
    BY <1>10 DEF EmitCandidate, Emit
  <2>2. o \in CleanResults
    BY <1>10, <2>1, NextIsClean DEF EmitCandidate, Emit
  <2>3. {c \in CleanFull : Gone(c)'} = {c \in CleanFull : Gone(c)} \cup ({o} \cap FullCand)
    BY <1>8, <2>1, <2>2, CleanResultsAre DEF CleanFull
  <2>4. ASSUME NEW p \in Cand, ~Gone(p)'
        PROVE  Suppressed(claims', p) <=> Suppressed({c \in CleanFull : Gone(c)'}, p)
    <3>1. ~Gone(p) /\ o < p /\ scanner = "chunk"
      BY <1>8, <2>1, <2>4
    <3>2. Suppressed(claims, p) <=> Suppressed({c \in CleanFull : Gone(c)}, p)
      BY <3>1 DEF ClaimsAgree
    <3>3. Suppressed(claims', p) <=> Suppressed(claims, p) \/ Suppressed({o} \cap FullCand, p)
      <4>1. ASSUME NEW c \in claims \cup ({o} \cap FullCand), p < FileEnd[c]
            PROVE  FileEnd[c] > o
        <5>1. c \in Cand /\ FileEnd[c] \in Nat /\ o \in Nat /\ p \in Nat
          BY <1>1 DEF TypeOK, ScanAssumption
        <5>2. QED
          BY <3>1, <4>1, <5>1
      <4>2. QED
        BY <2>1, <4>1 DEF Suppressed
    <3>4. Suppressed({c \in CleanFull : Gone(c)'}, p)
          <=> Suppressed({c \in CleanFull : Gone(c)}, p) \/ Suppressed({o} \cap FullCand, p)
      BY <2>3 DEF Suppressed
    <3>5. QED
      BY <3>2, <3>3, <3>4
  <2>5. QED
    BY <2>4 DEF ClaimsAgree, Suppressed, CleanFull
<1>11. ASSUME NEW o \in Cand, LoseCandidate(o)
       PROVE  ClaimsAgree'
  BY <1>11 DEF LoseCandidate
<1>12. CASE StartComplete \/ Poll \/ RecvFound \/ RecvProgress \/ RecvTimeout
            \/ FlushBatch \/ CheckpointFlush \/ CheckpointPut \/ LastFlush
            \/ WriterFails \/ WalSync \/ Unplug \/ UNCHANGED vars
  BY <1>3, <1>12
     DEF StartComplete, Poll, RecvFound, RecvProgress, RecvTimeout, FlushBatch,
         CheckpointFlush, CheckpointPut, LastFlush, Flush, WriterFails, WalSync,
         Unplug, vars, scanVars
<1>13. CASE Disconnected \/ LastPut \/ JoinAfterError \/ LastWriteFails
            \/ Sigint \/ Crash \/ PowerLoss
  <2>1. UNCHANGED <<scanner, pos, todo, claims>> \/ \E how : RunOver(how)
    BY <1>13 DEF Disconnected, LastPut, JoinAfterError, LastWriteFails, Sigint, Crash,
                 PowerLoss, scanVars
  <2>2. QED
    BY <1>3, <2>1, RunOverClean
<1>14. QED
  BY <1>4, <1>5, <1>6, <1>7, <1>9, <1>10, <1>11, <1>12, <1>13
     DEF Next, ScannerStep, WriterStep

LEMMA OnlyCleanStep ==
    ASSUME TypedShape, TodoIsRest, ClaimsAgree, OnlyClean, [Next]_vars
    PROVE  OnlyClean'
<1>1. /\ chan \in Seq(Msg) /\ pending \subseteq Cand /\ db \in StoreState
      /\ cur \in 0 .. NumChunks /\ pos \in 0 .. NumChunks
  BY DEF TypedShape, TypeOK
<1>2. Len(chan) \in Nat
  BY <1>1
<1>3. CleanResults' = CleanResults
  BY DEF CleanResults, CleanUpTo, Emitted, Suppressed
<1>4. CASE /\ \A s \in stale' \cup {db'} : s.rows \subseteq CleanResults
           /\ pending' \subseteq CleanResults
           /\ UNCHANGED chan \/ chan' = <<>>
  BY <1>3, <1>4 DEF OnlyClean
<1>5. ASSUME NEW resume, Start(resume)
      PROVE  OnlyClean'
  BY <1>4, <1>5 DEF Start, Launch, From, storeVars, OnlyClean
<1>6. ASSUME NEW how, RunOver(how), \A s \in stale' \cup {db'} : s.rows \subseteq CleanResults
      PROVE  OnlyClean'
  BY <1>4, <1>6 DEF RunOver
<1>7. ASSUME NEW m \in Msg, Send(m), UNCHANGED <<pending, db, stale>>,
             \A o \in Cand : m = FoundMsg(o) => o \in CleanResults
      PROVE  OnlyClean'
  <2>1. CASE UNCHANGED chan
    BY <1>4, <1>7, <2>1 DEF OnlyClean
  <2>2. CASE /\ Len(chan') = Len(chan) + 1 /\ chan'[Len(chan) + 1] = m
             /\ \A i \in 1 .. Len(chan) : chan'[i] = chan[i]
    <3>1. ASSUME NEW i \in 1 .. Len(chan'), NEW o \in Cand, chan'[i] = FoundMsg(o)
          PROVE  o \in CleanResults
      BY <1>2, <1>7, <2>2, <3>1 DEF OnlyClean
    <3>2. QED
      BY <1>3, <1>7, <3>1 DEF OnlyClean
  <2>3. QED
    BY <1>1, <1>7, <2>1, <2>2 DEF Send
<1>8. ASSUME NEW o \in Cand, EmitCandidate(o)
      PROVE  OnlyClean'
  <2>1. NextCandidate(o) /\ Emitted(o) /\ ~Suppressed(claims, o) /\ Send(FoundMsg(o))
        /\ UNCHANGED <<pending, db, stale>>
    BY <1>8 DEF EmitCandidate, Emit, writerVars, storeVars
  <2>2. o \in CleanResults
    BY <2>1, NextIsClean
  <2>3. FoundMsg(o) \in Msg /\ \A p \in Cand : FoundMsg(o) = FoundMsg(p) => p = o
    BY DEF FoundMsg, Msg
  <2>4. QED
    BY <1>7, <2>1, <2>2, <2>3
<1>9. CASE EndChunk
  <2>1. Send(ProgressMsg(pos + 1)) /\ UNCHANGED <<pending, db, stale>>
    BY <1>9 DEF EndChunk, writerVars, storeVars
  <2>2. pos + 1 \in 0 .. NumChunks
    BY <1>1, <1>9, ScanAssumption DEF EndChunk, TypedShape, Shape, ScanAssumption
  <2>3. ProgressMsg(pos + 1) \in Msg /\ \A o : ProgressMsg(pos + 1) # FoundMsg(o)
    BY <2>2 DEF ProgressMsg, FoundMsg, Msg
  <2>4. QED
    BY <1>7, <2>1, <2>3
<1>10. CASE RecvFound \/ RecvProgress
  <2>1. Receive /\ UNCHANGED <<db, stale>>
    BY <1>10 DEF RecvFound, RecvProgress, storeVars
  <2>2. /\ Head(chan) = chan[1] /\ 1 \in 1 .. Len(chan) /\ Head(chan) \in Msg
        /\ Len(chan') = Len(chan) - 1
        /\ \A i \in 1 .. Len(chan') : chan'[i] = chan[i + 1] /\ i + 1 \in 1 .. Len(chan)
    BY <1>1, <2>1 DEF Receive
  <2>3. pending' \subseteq CleanResults
    <3>1. CASE RecvFound
      <4>1. Head(chan).at \in Cand /\ Head(chan) = FoundMsg(Head(chan).at)
        BY <2>2, <3>1, FoundIsFoundMsg DEF RecvFound
      <4>2. Head(chan).at \in CleanResults
        BY <2>2, <4>1 DEF OnlyClean
      <4>3. QED
        BY <3>1, <4>2 DEF RecvFound, OnlyClean
    <3>2. CASE RecvProgress
      BY <3>2 DEF RecvProgress, OnlyClean
    <3>3. QED
      BY <1>10, <3>1, <3>2
  <2>4. \A i \in 1 .. Len(chan'), o \in Cand : chan'[i] = FoundMsg(o) => o \in CleanResults
    BY <2>2 DEF OnlyClean
  <2>5. QED
    BY <1>3, <2>1, <2>3, <2>4 DEF OnlyClean
<1>11. ASSUME NEW from, NEW to, Flush(from, to)
       PROVE  OnlyClean'
  <2>1. db'.rows = db.rows \cup pending /\ stale' \subseteq stale \cup {db}
        /\ pending' = {} /\ UNCHANGED chan
    BY <1>1, <1>11 DEF Flush, Commit, StoreState
  <2>2. QED
    BY <1>4, <2>1 DEF OnlyClean
<1>12. CASE CheckpointPut \/ LastPut
  <2>1. db'.rows = db.rows /\ stale' \subseteq stale \cup {db}
    BY <1>1, <1>12 DEF CheckpointPut, LastPut, PutProgress, Commit, StoreState
  <2>2. \A s \in stale' \cup {db'} : s.rows \subseteq CleanResults
    BY <2>1 DEF OnlyClean
  <2>3. (UNCHANGED <<pending, chan>>) \/ \E how : RunOver(how)
    BY <1>12 DEF CheckpointPut, LastPut
  <2>4. QED
    BY <1>4, <1>6, <2>2, <2>3 DEF OnlyClean
<1>13. ASSUME NEW o, SkipCandidate(o) \/ LoseCandidate(o)
       PROVE  OnlyClean'
  BY <1>4, <1>13 DEF SkipCandidate, LoseCandidate, writerVars, storeVars, OnlyClean
<1>14. CASE StartComplete \/ ScanExit \/ ReadChunk \/ ScanPanic \/ Poll \/ RecvTimeout
            \/ WriterFails \/ WalSync \/ Unplug \/ UNCHANGED vars
  <2>1. UNCHANGED <<pending, db>> /\ stale' \subseteq stale /\ (UNCHANGED chan \/ chan' = <<>>)
    BY <1>14 DEF StartComplete, ScanExit, ReadChunk, ScanPanic, Poll, RecvTimeout,
                 WriterFails, WalSync, Unplug, vars, scanVars, writerVars, storeVars
  <2>2. QED
    BY <1>4, <2>1 DEF OnlyClean
<1>15. CASE Disconnected \/ JoinAfterError \/ LastWriteFails \/ Sigint \/ Crash \/ PowerLoss
  <2>1. db' \in stale \cup {db} /\ stale' \subseteq stale
    BY <1>15 DEF Disconnected, JoinAfterError, LastWriteFails, Sigint, Crash, PowerLoss,
                 storeVars
  <2>2. \A s \in stale' \cup {db'} : s.rows \subseteq CleanResults
    BY <2>1 DEF OnlyClean
  <2>3. (UNCHANGED <<pending, chan>>) \/ \E how : RunOver(how)
    BY <1>15 DEF Disconnected, JoinAfterError, LastWriteFails, Sigint, Crash, PowerLoss,
                 writerVars
  <2>4. QED
    BY <1>4, <1>6, <2>2, <2>3 DEF OnlyClean
<1>16. QED
  BY <1>5, <1>8, <1>9, <1>10, <1>11, <1>12, <1>13, <1>14, <1>15
     DEF Next, ScannerStep, WriterStep, FlushBatch, CheckpointFlush, LastFlush

LEMMA CleanInvInit == Init => CleanInv
<1>1. Init => FlowInv(CleanResults)
  BY CleanResultsAre, FlowInit
<1>2. Init => TodoIsRest /\ ClaimsAgree /\ OnlyClean
  BY DEF Init, TodoIsRest, ClaimsAgree, OnlyClean, EmptyStore
<1>3. QED
  BY <1>1, <1>2 DEF CleanInv

LEMMA CleanInvStep ==
    ASSUME MaxFaults["unplug"] = 0
    PROVE  CleanInv /\ ResumesUnstraddled /\ [Next]_vars => CleanInv'
<1> SUFFICES ASSUME CleanInv, ResumesUnstraddled, [Next]_vars
             PROVE  CleanInv'
  OBVIOUS
<1>1. /\ FlowInv(CleanResults) /\ TypedShape /\ plugged
      /\ TodoIsRest /\ ClaimsAgree /\ OnlyClean
  BY DEF CleanInv, FlowInv
<1>2. ASSUME NEW o \in Cand, SkipCandidate(o)
      PROVE  o \notin CleanResults
  BY <1>1, <1>2, NextIsClean DEF SkipCandidate
<1>3. FlowInv(CleanResults)'
  BY <1>1, <1>2, CleanResultsAre, FlowStep
<1>4. QED
  BY <1>1, <1>3, TodoStep, ClaimsAgreeStep, OnlyCleanStep DEF CleanInv

LEMMA CleanInvComplete == CleanInv => ResultSetIdentical
<1>1. \A o \in Cand : ChunkOf(o) < NumChunks
  <2> SUFFICES ASSUME NEW o \in Cand
               PROVE  ChunkOf(o) < NumChunks
    OBVIOUS
  <2>1. o \in Nat /\ o < NumChunks * ChunkLen
    BY ScanAssumption DEF ScanAssumption
  <2>2. QED
    BY <2>1, ScanAssumption, SMTT(30) DEF ScanAssumption, ChunkOf
<1>2. CleanResults \subseteq Cand
  BY CleanResultsAre
<1>3. QED
  BY <1>1, <1>2
     DEF CleanInv, FlowInv, BackedOf, BackedIn, DueOf, OnlyClean, ResultSetIdentical

\* A complete scan has the rows of one uninterrupted scan, however it was cut
\* short and resumed, as long as no device was unplugged and no run resumed at a
\* chunk into which a Full file reaches (starting over always qualifies).
THEOREM ResultSetIdenticalUnstraddled ==
    ASSUME MaxFaults["unplug"] = 0
    PROVE  Spec /\ [][ResumesUnstraddled]_vars => []ResultSetIdentical
<1>1. CleanInv /\ [Next]_vars /\ [ResumesUnstraddled]_vars => CleanInv'
  <2> SUFFICES ASSUME CleanInv, [Next]_vars, [ResumesUnstraddled]_vars
               PROVE  CleanInv'
    OBVIOUS
  <2>1. CASE ResumesUnstraddled
    BY <2>1, CleanInvStep
  <2>2. CASE UNCHANGED vars
    <3>1. \A resume \in BOOLEAN : ~Start(resume)
      BY <2>2 DEF vars, writerVars, scanVars, Start, Launch, Running
    <3>2. QED
      BY <3>1, CleanInvStep DEF ResumesUnstraddled
  <2>3. QED
    BY <2>1, <2>2
<1>2. QED
  BY <1>1, CleanInvInit, CleanInvComplete, PTL DEF Spec

\* On a source where no Full file reaches into the next chunk with a candidate
\* inside, that is every scan.
THEOREM ResultSetIdenticalAlways ==
    ASSUME MaxFaults["unplug"] = 0, \A k \in 0 .. NumChunks : Unstraddled(k)
    PROVE  Spec => []ResultSetIdentical
<1>1. CleanInv => ResumesUnstraddled
  <2> SUFFICES ASSUME CleanInv, NEW resume \in BOOLEAN
               PROVE  Unstraddled(From(resume))
    BY DEF ResumesUnstraddled
  <2>1. From(resume) \in 0 .. NumChunks
    BY ScanAssumption
       DEF ScanAssumption, CleanInv, FlowInv, TypedShape, TypeOK, StoreState, From
  <2>2. QED
    BY <2>1
<1>2. CleanInv /\ [Next]_vars => CleanInv'
  BY <1>1, CleanInvStep
<1>3. QED
  BY <1>2, CleanInvInit, CleanInvComplete, PTL DEF Spec

-----------------------------------------------------------------------------
(* The database implements ResumableScan.                                  *)

LEMMA BackedIsKept ==
    ASSUME NEW s \in StoreState, Backed(s)
    PROVE  Store!Kept(s.rows, s.cursor, s.saved = "complete")
BY DEF Store!Kept, StoreState, SavedKind, Backed

LEMMA StoreInit == Init => Store!Init
BY DEF Init, EmptyStore, Store!Init, FaultKind

\* What a power failure may bring back is older: it holds no row that is not
\* in the database now, since a session's rows are never deleted.
StaleOlder == \A s \in stale : s.rows \subseteq db.rows

LEMMA StaleOlderStep == TypedShape /\ StaleOlder /\ [Next]_vars => StaleOlder'
<1> SUFFICES ASSUME TypedShape, StaleOlder, [Next]_vars
             PROVE  StaleOlder'
  OBVIOUS
<1>1. ASSUME NEW new \in StoreState, Commit(new), db.rows \subseteq new.rows
      PROVE  StaleOlder'
  BY <1>1 DEF Commit, StaleOlder
<1>2. db \in StoreState /\ pending \subseteq Cand /\ cur \in 0 .. NumChunks
      /\ pos \in 0 .. NumChunks
  BY DEF TypedShape, TypeOK
<1>3. CASE UNCHANGED db /\ stale' \subseteq stale
  BY <1>3 DEF StaleOlder
<1>4. CASE \E from, to : Flush(from, to)
  <2>1. Commit([db EXCEPT !.rows = @ \cup pending])
    BY <1>4 DEF Flush
  <2>2. QED
    BY <1>1, <1>2, <2>1 DEF StoreState
<1>5. CASE CheckpointPut \/ LastPut
  <2>1. \E k \in 0 .. NumChunks, saved \in SavedKind :
           Commit([db EXCEPT !.cursor = k, !.saved = saved])
    BY <1>2, <1>5 DEF CheckpointPut, LastPut, PutProgress, SavedKind
  <2>2. QED
    BY <1>1, <1>2, <2>1 DEF StoreState
<1>6. CASE PowerLoss
  BY <1>6 DEF PowerLoss, StaleOlder
<1>7. QED
  BY <1>3, <1>4, <1>5, <1>6, StoreStep

LEMMA StoreRefines ==
    ASSUME IInv, IInv', OpenRun, StaleOlder, [Next]_vars
    PROVE  [Store!Next]_(Store!vars)
<1>now. TypedShape /\ TypedShape' /\ CheckpointBacked
  BY IInvBacked DEF IInv, FlowInv
<1>next. CheckpointBacked'
  BY DEF IInv, FlowInv, BackedOf, BackedIn, DueOf, CheckpointBacked, Backed, Due, TopLevel
<1>1. /\ db \in StoreState /\ db' \in StoreState /\ Backed(db)
      /\ Backed(db') /\ TypedShape /\ faults \in [FaultKind -> Nat]
  BY <1>now, <1>next DEF TypedShape, TypeOK, CheckpointBacked, Backed, Due
<1>2. Store!Kept(db'.rows, db'.cursor, db'.saved = "complete")
  BY <1>1, BackedIsKept
<1>3. CASE UNCHANGED db /\ NoOutage
  BY <1>3 DEF NoOutage, Store!vars
<1>4. ASSUME NEW from, NEW to, Flush(from, to), Running, NoOutage
      PROVE  Store!Record
  <2>1. db' = [db EXCEPT !.rows = @ \cup pending]
    BY <1>4 DEF Flush, Commit
  <2>2. db.rows \subseteq db'.rows /\ db'.rows \subseteq Cand
        /\ db'.cursor = db.cursor /\ db'.saved = db.saved
    BY <1>1, <2>1 DEF StoreState
  <2>3. QED
    BY <1>4, <2>2 DEF OpenRun, NoOutage, Store!Record
<1>5. ASSUME CheckpointPut \/ LastPut, Running, NoOutage
      PROVE  Store!Advance
  <2>1. \E k, saved : db' = [db EXCEPT !.cursor = k, !.saved = saved]
    BY <1>5 DEF CheckpointPut, LastPut, PutProgress, Commit
  <2>2. db'.rows = db.rows
    BY <1>1, <2>1 DEF StoreState
  <2>3. Store!Kept(db.rows, db'.cursor, db'.saved = "complete")
    BY <1>2, <2>2
  <2>4. db'.cursor \in 0 .. NumChunks
    BY <1>1 DEF StoreState
  <2>5. QED
    BY <1>5, <2>2, <2>3, <2>4 DEF OpenRun, NoOutage, Store!Advance
<1>6. CASE PowerLoss
  <2>1. faults'["power"] = faults["power"] + 1
    BY <1>1, <1>6 DEF PowerLoss, Strike, FaultKind
  <2>2. db'.rows \subseteq db.rows
    BY <1>6 DEF PowerLoss, StaleOlder
  <2>3. QED
    BY <1>2, <2>1, <2>2 DEF Store!Forget, Store!Next
<1>7. QED
  BY <1>1, <1>3, <1>4, <1>5, <1>6, StoreStep DEF Store!Next

\* The database of a session whose device stays plugged in is a resumable scan:
\* each transaction records results or moves the position within what is stored.
THEOREM StoreImplements ==
    ASSUME MaxFaults["unplug"] = 0
    PROVE  Spec => ImplementsResumableScan
<1>1. Init => IInv /\ OpenRun /\ StaleOlder /\ Store!Init
  BY IInvInit, StoreInit DEF Init, OpenRun, StaleOlder, Running
<1>2. IInv /\ OpenRun /\ StaleOlder /\ [Next]_vars
      => (IInv /\ OpenRun /\ StaleOlder)'
  BY IInvStep, IInvBacked, OpenRunStep, StaleOlderStep
<1>3. IInv /\ IInv' /\ OpenRun /\ StaleOlder /\ [Next]_vars => [Store!Next]_(Store!vars)
  BY StoreRefines
<1>4. QED
  BY <1>1, <1>2, <1>3, PTL DEF Spec, Store!Spec, ImplementsResumableScan
=============================================================================
