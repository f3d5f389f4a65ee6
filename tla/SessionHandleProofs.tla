-------------------------- MODULE SessionHandleProofs --------------------------
(***************************************************************************)
(* Proofs about SessionHandle for any number of runs and faults.  All but  *)
(* the type invariant need that Scan is clicked once: a second click while *)
(* the first waits for its device does start a second pipeline.            *)
(***************************************************************************)
EXTENDS SessionHandle, SequenceTheorems, TLAPS

\* Before the start that was clicked there is nothing to stop or to deliver.
Fresh ==
    clicks = 0 \/ starts > 0 =>
        /\ current = 0 /\ stage = NoThread /\ told = {} /\ queue = <<>>
        /\ ~ui.session /\ ~ui.scanning /\ ui.summary = "none"

\* A thread that has not ended is the one the handle holds; one that has told
\* of its carve is past it.
PastCarve == {"label", "stopping", "structure", "merge", "finished"}
OnlyCurrent ==
    /\ \A r \in Run : Live(r) => r = current
    /\ \A r \in told : stage[r] \in PastCarve

\* A complete row stays: only a carve writes it, and none begins on it.
RowComplete ==
    /\ \A r \in Run : stage[r] \in Carving => saved # "complete"
    /\ \A k \in DOMAIN queue : ~queue[k] => saved = "complete"
    /\ ui.summary = "complete" => saved = "complete"

\* While no stage has failed after a Done there is one Done to a run: before
\* it nothing is queued, and until it is delivered the app shows a scan.
OneDone ==
    faults["late"] = 0 =>
        /\ \A r \in Run : Live(r) /\ r \notin told => ui.scanning /\ queue = <<>>
        /\ queue = <<>> \/ (Len(queue) = 1 /\ ui.scanning)

\* What the app will show as the outcome once its queue is drained.
CompleteIsLast == IF queue = <<>> THEN ui.summary = "complete" ELSE ~queue[Len(queue)]

\* The last word of a full scan whose thread is done is `complete' only if
\* that thread has merged.
LastMerged ==
    /\ \A r \in Run : stage[r] = "stopping" => ~CompleteIsLast
    /\ opts = "full" /\ CompleteIsLast /\ (\A r \in Run : ~Live(r)) => ~unmerged

-----------------------------------------------------------------------------
LEMMA StrikeType ==
    ASSUME NEW kind \in FaultKind, faults \in [FaultKind -> Nat], Strike(kind)
    PROVE  /\ faults' \in [FaultKind -> Nat]
           /\ \A k \in FaultKind : faults'[k] = IF k = kind THEN faults[k] + 1 ELSE faults[k]
BY DEF Strike

\* A new run was idle, and is the one the handle holds.
LEMMA SpawnSets ==
    ASSUME stage \in [Run -> Stage], Spawn
    PROVE  \E r \in Run :
              /\ stage[r] = "idle"
              /\ current' = r
              /\ stage' \in [Run -> Stage]
              /\ stage'[r] \in {"planner", "quick"}
              /\ \A s \in Run : s # r => stage'[s] = stage[s]
              /\ cancelled' = cancelled /\ told' = told
BY DEF Spawn, Stage

LEMMA GotoType ==
    ASSUME NEW r \in Run, NEW next \in Stage, stage \in [Run -> Stage], Goto(r, next)
    PROVE  /\ stage' \in [Run -> Stage]
           /\ stage'[r] = next
           /\ \A s \in Run : s # r => stage'[s] = stage[s]
           /\ current' = current /\ cancelled' = cancelled
BY DEF Goto

LEMMA TailType ==
    ASSUME NEW s \in Seq(BOOLEAN), s # <<>>
    PROVE  /\ Tail(s) \in Seq(BOOLEAN)
           /\ Len(Tail(s)) = Len(s) - 1
           /\ Len(s) \in Nat /\ (Len(s) = 1 <=> Tail(s) = <<>>)
           /\ Head(s) = s[1] /\ 1 \in DOMAIN s
           /\ \A k \in DOMAIN Tail(s) : k + 1 \in DOMAIN s /\ Tail(s)[k] = s[k + 1]
<1>1. /\ Tail(s) \in Seq(BOOLEAN)
      /\ Len(s) \in Nat
      /\ Len(Tail(s)) = Len(s) - 1
      /\ Head(s) = s[1] /\ 1 \in DOMAIN s
      /\ \A k \in DOMAIN Tail(s) : k + 1 \in DOMAIN s /\ Tail(s)[k] = s[k + 1]
  OBVIOUS
<1>2. Len(s) = 1 <=> Tail(s) = <<>>
  <2>1. Tail(s) # <<>> => Len(Tail(s)) # 0
    BY <1>1, EmptySeq
  <2>2. Tail(s) = <<>> => Len(Tail(s)) = 0
    BY EmptySeq
  <2>3. QED
    BY <1>1, <2>1, <2>2
<1>3. QED
  BY <1>1, <1>2

LEMMA DoneType ==
    ASSUME NEW b \in BOOLEAN, queue \in Seq(BOOLEAN), Done(b)
    PROVE  /\ queue' \in Seq(BOOLEAN)
           /\ Len(queue') = Len(queue) + 1
           /\ queue'[Len(queue')] = b
           /\ \A k \in DOMAIN queue : queue'[k] = queue[k]
BY DEF Done

-----------------------------------------------------------------------------
\* The published state of the controller.
Ui == [session : BOOLEAN, scanning : BOOLEAN, paused : BOOLEAN,
       summary : {"none", "complete", "interrupted"}]

LEMMA NoSessionType == NoSession \in Ui /\ [NoSession EXCEPT !.session = TRUE, !.scanning = TRUE] \in Ui
BY DEF NoSession, Ui

LEMMA TypeInit == Init => TypeOK
<1>1. <<>> \in Seq(BOOLEAN)
  OBVIOUS
<1>2. Init => unmerged \in BOOLEAN
  BY Zenon DEF Init
<1>3. Init => faults \in [FaultKind -> Nat] /\ stage \in [Run -> Stage]
  BY DEF Init, NoThread, Stage
<1>4. QED
  BY <1>1, <1>2, <1>3, NoSessionType, HandleAssumption, SMT DEF HandleAssumption, Init, TypeOK, Ui, Passes

\* Each step keeps every variable in its type.
LEMMA TypeStep == TypeOK /\ [Next]_vars => TypeOK'
<1> SUFFICES ASSUME TypeOK, [Next]_vars
             PROVE  TypeOK'
  OBVIOUS
<1> USE HandleAssumption DEF HandleAssumption
<1>1. ASSUME NEW passes \in Passes, Click(passes)
      PROVE  TypeOK'
  BY <1>1 DEF Click, TypeOK, threadVars, sessionVars
<1>2. CASE StartScan
  <2>1. Spawn
    BY <1>2 DEF StartScan, BeginScan
  <2>2. PICK r \in Run : current' = r /\ stage' \in [Run -> Stage]
                         /\ cancelled' = cancelled /\ told' = told
    BY <2>1, SpawnSets DEF TypeOK
  <2>3. ui' \in Ui
    BY <1>2, NoSessionType DEF StartScan, BeginScan
  <2>4. starts' \in 0 .. clicks
    BY <1>2 DEF StartScan, BeginScan, TypeOK
  <2>5. QED
    BY <1>2, <2>2, <2>3, <2>4 DEF StartScan, BeginScan, Ui, TypeOK, sessionVars
<1>3. CASE StartFails
  BY <1>3, NoSessionType DEF StartFails, Ui, TypeOK, threadVars, sessionVars
<1>4. CASE Pause
  BY <1>4 DEF Pause, SignalCancel, TypeOK, userVars, sessionVars
<1>5. CASE Stop
  BY <1>5 DEF Stop, SignalCancel, TypeOK, userVars, sessionVars
<1>6. CASE Resume
  BY <1>6, SpawnSets DEF Resume, ContinueScan, TypeOK, userVars, sessionVars
<1>7. CASE HandleDone
  <2>1. queue' \in Seq(BOOLEAN)
    BY <1>7, TailType DEF HandleDone, TypeOK
  <2>2. ui' \in Ui
    <3> DEFINE how == IF Head(queue) THEN "interrupted" ELSE "complete"
    <3>1. how \in {"none", "complete", "interrupted"}
      OBVIOUS
    <3>2. ui' = [ui EXCEPT !.scanning = FALSE, !.summary = how]
      BY <1>7 DEF HandleDone
    <3> HIDE DEF how
    <3>3. QED
      BY <3>1, <3>2 DEF Ui, TypeOK
  <2>3. QED
    BY <1>7, <2>1, <2>2 DEF HandleDone, Ui, TypeOK, userVars, threadVars, sessionVars
<1>8. ASSUME NEW r \in Run, QuickPass(r)
      PROVE  TypeOK'
  <2>1. stage' \in [Run -> Stage]
    BY <1>8, GotoType DEF QuickPass, TypeOK, Stage
  <2>2. QED
    BY <1>8, <2>1 DEF QuickPass, Goto, TypeOK, userVars
<1>9. ASSUME NEW r \in Run, CarveStarts(r) \/ CarveLastChunk(r) \/ Label(r) \/ Structure(r)
      PROVE  TypeOK'
  <2>1. stage' \in [Run -> Stage]
    BY <1>9 DEF CarveStarts, CarveLastChunk, Label, Structure, Goto, TypeOK, Stage
  <2>2. QED
    BY <1>9, <2>1 DEF CarveStarts, CarveLastChunk, Label, Structure, Goto, TypeOK, userVars, sessionVars
<1>10. ASSUME NEW r \in Run, CarveCheckpoint(r)
       PROVE  TypeOK'
  BY <1>10 DEF CarveCheckpoint, TypeOK, userVars, threadVars
<1>11. ASSUME NEW r \in Run, CarveCompletes(r) \/ CarveStops(r)
       PROVE  TypeOK'
  <2>1. PICK b \in BOOLEAN : CarveReports(r, b)
    BY <1>11 DEF CarveCompletes, CarveStops
  <2>2. stage' \in [Run -> Stage]
    BY <2>1 DEF CarveReports, Goto, TypeOK, Stage
  <2>3. queue' \in Seq(BOOLEAN)
    BY <2>1, DoneType DEF CarveReports, TypeOK
  <2>4. faults' \in [FaultKind -> Nat]
    BY <1>11, StrikeType DEF CarveCompletes, CarveStops, TypeOK, FaultKind
  <2>5. QED
    BY <2>1, <2>2, <2>3, <2>4 DEF CarveReports, Goto, TypeOK, userVars
<1>12. ASSUME NEW r \in Run, MergeRows(r)
       PROVE  TypeOK'
  <2>1. stage' \in [Run -> Stage]
    BY <1>12 DEF MergeRows, Goto, TypeOK, Stage
  <2>2. QED
    BY <1>12, <2>1 DEF MergeRows, Goto, TypeOK, userVars
<1>13. ASSUME NEW r \in Run, Fails(r)
       PROVE  TypeOK'
  <2>1. stage' \in [Run -> Stage]
    BY <1>13 DEF Fails, Failed, Goto, TypeOK, Stage
  <2>2. queue' \in Seq(BOOLEAN)
    BY <1>13, DoneType DEF Fails, TypeOK
  <2>3. faults' \in [FaultKind -> Nat]
    BY <1>13, StrikeType DEF Fails, Failed, TypeOK, FaultKind
  <2>4. QED
    BY <1>13, <2>1, <2>2, <2>3 DEF Fails, Failed, Goto, TypeOK, userVars, sessionVars
<1>14. CASE Crash
  <2>1. faults' \in [FaultKind -> Nat]
    BY <1>14, StrikeType DEF Crash, TypeOK, FaultKind
  <2>2. <<>> \in Seq(BOOLEAN)
    OBVIOUS
  <2>3. QED
    BY <1>14, <2>1, <2>2, NoSessionType DEF Crash, Ui, NoThread, TypeOK, Stage, sessionVars
<1>15. CASE UNCHANGED vars
  BY <1>15 DEF vars, userVars, threadVars, sessionVars, TypeOK
<1>16. QED
  BY <1>1, <1>2, <1>3, <1>4, <1>5, <1>6, <1>7, <1>8, <1>9, <1>10, <1>11, <1>12, <1>13, <1>14, <1>15
     DEF Next, UserStep, PipelineStep

\* Every variable of the app, the handle, its threads and the session keeps
\* its type.
THEOREM TypeInvariant == Spec => []TypeOK
BY TypeInit, TypeStep, PTL DEF Spec

-----------------------------------------------------------------------------
\* A step of the thread of run r.
Advance(r) ==
    \/ QuickPass(r) \/ CarveStarts(r) \/ CarveCheckpoint(r) \/ CarveLastChunk(r)
    \/ CarveCompletes(r) \/ CarveStops(r) \/ Label(r) \/ Structure(r) \/ MergeRows(r)
    \/ Fails(r)

LEMMA NextCases ==
    ASSUME [Next]_vars
    PROVE  \/ \E passes \in Passes : Click(passes)
           \/ StartScan \/ StartFails \/ Pause \/ Stop \/ Resume \/ HandleDone
           \/ \E r \in Run : Advance(r)
           \/ Crash
           \/ UNCHANGED vars
BY DEF Next, UserStep, PipelineStep, Advance

\* A thread's step is the step of a live thread: it moves that thread alone,
\* and nothing of the user's and the controller's.
LEMMA AdvanceSets ==
    ASSUME TypeOK, OnlyCurrent, NEW r \in Run, Advance(r)
    PROVE  /\ Live(r)
           /\ \A s \in Run : s # r => stage'[s] = stage[s]
           /\ stage'[r] # "idle"
           /\ current' = current /\ cancelled' = cancelled
           /\ told \subseteq told' /\ told' \subseteq told \cup {r}
           /\ r \in told' => stage'[r] \in PastCarve
           /\ UNCHANGED <<userVars, ui>>
<1> USE DEF OnlyCurrent, PastCarve
<1>1. CASE CarveCheckpoint(r)
  BY <1>1 DEF CarveCheckpoint, Carving, Live, threadVars
<1>2. CASE \/ QuickPass(r) \/ CarveStarts(r) \/ CarveLastChunk(r)
           \/ Label(r) \/ Structure(r) \/ MergeRows(r)
  BY <1>2 DEF QuickPass, CarveStarts, CarveLastChunk, Label, Structure, MergeRows, Goto, Live, TypeOK
<1>3. CASE CarveCompletes(r) \/ CarveStops(r)
  BY <1>3 DEF CarveCompletes, CarveStops, CarveReports, Goto, Live, TypeOK
<1>4. CASE Fails(r)
  BY <1>4 DEF Fails, Failed, Goto, Live, TypeOK
<1>5. QED
  BY <1>1, <1>2, <1>3, <1>4 DEF Advance

-----------------------------------------------------------------------------
\* One click: nothing runs before the start it asked for.
LEMMA FreshStep ==
    ASSUME MaxClicks <= 1, TypeOK, Fresh, OnlyCurrent, [Next]_vars
    PROVE  Fresh'
<1> USE HandleAssumption DEF HandleAssumption
<1>1. ASSUME NEW passes \in Passes, Click(passes)
      PROVE  Fresh'
  BY <1>1 DEF Click, Fresh, TypeOK, threadVars
<1>2. CASE StartScan \/ StartFails
  BY <1>2 DEF StartScan, BeginScan, StartFails, Fresh, TypeOK
<1>3. CASE Pause \/ Stop \/ Resume \/ HandleDone
  BY <1>3 DEF Pause, Stop, Resume, ContinueScan, HandleDone, Fresh, userVars
<1>4. ASSUME NEW r \in Run, Advance(r)
      PROVE  Fresh'
  BY <1>4, AdvanceSets DEF Fresh, Live, NoThread, userVars
<1>5. CASE Crash
  BY <1>5 DEF Crash, NoSession, Fresh
<1>6. CASE UNCHANGED vars
  BY <1>6 DEF vars, userVars, threadVars, Fresh, NoThread
<1>7. QED
  BY <1>1, <1>2, <1>3, <1>4, <1>5, <1>6, NextCases

\* A new thread is started only when none is live.
LEMMA OnlyCurrentStep ==
    ASSUME MaxClicks <= 1, TypeOK, Fresh, OnlyCurrent, [Next]_vars
    PROVE  OnlyCurrent'
<1> USE HandleAssumption DEF HandleAssumption
<1>1. ASSUME NEW passes \in Passes, Click(passes)
      PROVE  OnlyCurrent'
  BY <1>1 DEF Click, OnlyCurrent, Live, threadVars
<1>2. ASSUME Spawn, \A r \in Run : ~Live(r)
      PROVE  OnlyCurrent'
  BY <1>2, SpawnSets DEF OnlyCurrent, PastCarve, Live, TypeOK
<1>3. CASE StartScan
  <2>1. \A r \in Run : ~Live(r)
    BY <1>3 DEF StartScan, Fresh, NoThread, Live
  <2>2. QED
    BY <1>2, <1>3, <2>1 DEF StartScan, BeginScan
<1>4. CASE Resume
  <2>1. \A r \in Run : ~Live(r)
    BY <1>4 DEF Resume, IsScanning, OnlyCurrent, Run
  <2>2. QED
    BY <1>2, <1>4, <2>1 DEF Resume, ContinueScan
<1>5. CASE StartFails \/ Pause \/ Stop \/ HandleDone
  BY <1>5 DEF StartFails, Pause, Stop, HandleDone, threadVars, OnlyCurrent, Live
<1>6. ASSUME NEW r \in Run, Advance(r)
      PROVE  OnlyCurrent'
  BY <1>6, AdvanceSets DEF OnlyCurrent, Live, TypeOK
<1>7. CASE Crash
  BY <1>7 DEF Crash, OnlyCurrent, NoThread, Live
<1>8. CASE UNCHANGED vars
  BY <1>8 DEF vars, threadVars, OnlyCurrent, Live
<1>9. QED
  BY <1>1, <1>3, <1>4, <1>5, <1>6, <1>7, <1>8, NextCases

\* No carve is at work on a complete row, so no carve takes `complete' back.
LEMMA RowCompleteStep ==
    ASSUME TypeOK, OnlyCurrent, RowComplete, [Next]_vars
    PROVE  RowComplete'
<1>1. ASSUME NEW passes \in Passes, Click(passes)
      PROVE  RowComplete'
  BY <1>1 DEF Click, RowComplete, threadVars, sessionVars
<1>2. ASSUME Spawn, UNCHANGED <<queue, saved>>, ui'.summary = "complete" => ui.summary = "complete"
      PROVE  RowComplete'
  BY <1>2, SpawnSets DEF RowComplete, Carving, TypeOK
<1>3. CASE StartScan
  BY <1>2, <1>3 DEF StartScan, BeginScan, NoSession, sessionVars
<1>4. CASE Resume
  BY <1>2, <1>4 DEF Resume, ContinueScan, sessionVars, TypeOK
<1>5. CASE StartFails \/ Pause \/ Stop
  BY <1>5 DEF StartFails, Pause, Stop, NoSession, threadVars, sessionVars, RowComplete, TypeOK
<1>6. CASE HandleDone
  <2>1. \A k \in DOMAIN queue' : k + 1 \in DOMAIN queue /\ queue'[k] = queue[k + 1]
    BY <1>6, TailType DEF HandleDone, TypeOK
  <2>2. ui'.summary = "complete" => ~queue[1] /\ 1 \in DOMAIN queue
    BY <1>6, TailType DEF HandleDone, TypeOK
  <2>3. QED
    BY <1>6, <2>1, <2>2 DEF HandleDone, threadVars, sessionVars, RowComplete
<1>7. ASSUME NEW r \in Run, Advance(r)
      PROVE  RowComplete'
  <2>1. Live(r) /\ r = current /\ \A s \in Run : s # r => ~Live(s) /\ stage'[s] = stage[s]
    BY <1>7, AdvanceSets DEF OnlyCurrent
  <2>2. \A s \in Run : stage'[s] \in Carving => s = r
    BY <2>1 DEF Live, Carving
  <2>3. CASE CarveCheckpoint(r)
    BY <2>3 DEF CarveCheckpoint, RowComplete, threadVars
  <2>4. CASE \/ QuickPass(r) \/ Label(r) \/ Structure(r) \/ MergeRows(r)
    BY <2>4 DEF QuickPass, Label, Structure, MergeRows, Goto, Carving, RowComplete, sessionVars, TypeOK
  <2>5. CASE CarveStarts(r) \/ CarveLastChunk(r)
    BY <2>5 DEF CarveStarts, CarveLastChunk, Goto, Carving, RowComplete, sessionVars, TypeOK
  <2>6. CASE CarveCompletes(r) \/ CarveStops(r)
    <3>1. PICK b \in BOOLEAN : CarveReports(r, b) /\ stage[r] \in Carving
      BY <2>6 DEF CarveCompletes, CarveStops, Carving
    <3>2. saved' = IF b THEN "partial" ELSE "complete"
      BY <3>1 DEF CarveReports
    <3>3. saved # "complete"
      BY <3>1 DEF RowComplete
    <3>4. \A s \in Run : stage'[s] \notin Carving
      BY <2>2, <3>1 DEF CarveReports, Goto, Carving, TypeOK
    <3>5. \A k \in DOMAIN queue : queue[k]
      BY <3>3 DEF RowComplete, TypeOK
    <3>6. queue' = Append(queue, b) /\ ui' = ui
      BY <3>1 DEF CarveReports, Done
    <3>7. \A k \in DOMAIN queue' : ~queue'[k] => ~b
      BY <3>5, <3>6 DEF TypeOK
    <3>8. QED
      BY <3>2, <3>3, <3>4, <3>6, <3>7 DEF RowComplete
  <2>7. CASE Fails(r)
    <3>1. \A s \in Run : stage'[s] \in Carving => stage[s] \in Carving
      BY <2>1, <2>7 DEF Fails, Failed, Goto, Carving, TypeOK
    <3>2. \A k \in DOMAIN queue' : ~queue'[k] => k \in DOMAIN queue /\ ~queue[k]
      BY <2>7 DEF Fails, Done, TypeOK
    <3>3. saved' = saved /\ ui' = ui
      BY <2>7 DEF Fails, Failed, sessionVars
    <3>4. QED
      BY <3>1, <3>2, <3>3 DEF RowComplete
  <2>8. QED
    BY <1>7, <2>3, <2>4, <2>5, <2>6, <2>7 DEF Advance
<1>8. CASE Crash
  BY <1>8 DEF Crash, NoSession, NoThread, Carving, RowComplete
<1>9. CASE UNCHANGED vars
  BY <1>9 DEF vars, threadVars, sessionVars, RowComplete
<1>10. QED
  BY <1>1, <1>3, <1>4, <1>5, <1>6, <1>7, <1>8, <1>9, NextCases

\* No Done is under way when a run begins, and a run sends one.
LEMMA OneDoneStep ==
    ASSUME MaxClicks <= 1, TypeOK, Fresh, OnlyCurrent, OneDone, [Next]_vars
    PROVE  OneDone'
<1>1. ASSUME NEW passes \in Passes, Click(passes)
      PROVE  OneDone'
  BY <1>1 DEF Click, OneDone, Live, threadVars
<1>2. ASSUME Spawn, ui'.scanning, queue = <<>>, UNCHANGED <<queue, faults>>
      PROVE  OneDone'
  BY <1>2 DEF OneDone
<1>3. CASE StartScan
  BY <1>2, <1>3 DEF StartScan, BeginScan, NoSession, Fresh
<1>4. CASE Resume /\ faults["late"] = 0
  <2>1. queue = <<>>
    BY <1>4 DEF Resume, ContinueScan, OneDone
  <2>2. ui'.scanning
    BY <1>4 DEF Resume, ContinueScan, TypeOK
  <2>3. QED
    BY <1>2, <1>4, <2>1, <2>2 DEF Resume, ContinueScan
<1>5. CASE Resume /\ faults["late"] # 0
  BY <1>5 DEF Resume, ContinueScan, OneDone
<1>6. CASE StartFails
  BY <1>6 DEF StartFails, Fresh, NoThread, Live, OneDone, threadVars
<1>7. CASE Pause \/ Stop
  BY <1>7 DEF Pause, Stop, Live, OneDone, TypeOK
<1>8. CASE HandleDone
  <2>1. faults["late"] = 0 => queue' = <<>>
    BY <1>8, TailType DEF HandleDone, OneDone, TypeOK
  <2>2. faults["late"] = 0 => \A r \in Run : Live(r) => r \in told
    BY <1>8 DEF HandleDone, OneDone
  <2>3. QED
    BY <1>8, <2>1, <2>2 DEF HandleDone, OneDone, Live, threadVars
<1>9. ASSUME NEW r \in Run, Advance(r)
      PROVE  OneDone'
  <2>1. /\ Live(r) /\ \A s \in Run : s # r => ~Live(s) /\ stage'[s] = stage[s]
        /\ ui' = ui /\ told \subseteq told'
    BY <1>9, AdvanceSets DEF OnlyCurrent
  <2>2. \A s \in Run : s # r => ~Live(s)'
    BY <2>1 DEF Live
  <2>3. CASE CarveCheckpoint(r)
    BY <2>3 DEF CarveCheckpoint, OneDone, Live, threadVars
  <2>4. CASE \/ QuickPass(r) \/ CarveStarts(r) \/ CarveLastChunk(r)
             \/ Label(r) \/ Structure(r) \/ MergeRows(r)
    <3>1. UNCHANGED <<queue, told, faults>>
      BY <2>4 DEF QuickPass, CarveStarts, CarveLastChunk, Label, Structure, MergeRows
    <3>2. QED
      BY <2>1, <2>2, <3>1 DEF OneDone
  <2>5. CASE CarveCompletes(r) \/ CarveStops(r)
    <3>1. PICK b \in BOOLEAN : CarveReports(r, b) /\ stage[r] \in Carving
      BY <2>5 DEF CarveCompletes, CarveStops, Carving
    <3>2. r \notin told /\ r \in told'
      BY <3>1 DEF CarveReports, OnlyCurrent, PastCarve, Carving
    <3>3. faults["late"] = 0 => queue = <<>> /\ ui.scanning
      BY <2>1, <3>2 DEF OneDone
    <3>4. Len(queue') = Len(queue) + 1
      BY <3>1, DoneType DEF CarveReports, TypeOK
    <3>5. faults'["late"] = faults["late"]
      BY <2>5, StrikeType DEF CarveCompletes, CarveStops, FaultKind, TypeOK
    <3>6. QED
      BY <2>1, <2>2, <3>2, <3>3, <3>4, <3>5 DEF OneDone
  <2>6. CASE Fails(r) /\ r \in told
    <3>1. faults'["late"] = faults["late"] + 1 /\ faults["late"] \in Nat
      BY <2>6, StrikeType DEF Fails, Failed, FaultKind, TypeOK
    <3>2. QED
      BY <3>1 DEF OneDone
  <2>7. CASE Fails(r) /\ r \notin told
    <3>1. faults'["late"] = faults["late"]
      BY <2>7, StrikeType DEF Fails, Failed, FaultKind, TypeOK
    <3>2. faults["late"] = 0 => queue = <<>> /\ ui.scanning
      BY <2>1, <2>7 DEF OneDone
    <3>3. Len(queue') = Len(queue) + 1
      BY <2>7, DoneType DEF Fails, TypeOK
    <3>4. ~Live(r)'
      BY <2>7 DEF Fails, Failed, Goto, Live, TypeOK
    <3>5. QED
      BY <2>1, <2>2, <3>1, <3>2, <3>3, <3>4 DEF OneDone
  <2>8. QED
    BY <1>9, <2>3, <2>4, <2>5, <2>6, <2>7 DEF Advance
<1>10. CASE Crash
  BY <1>10 DEF Crash, NoThread, Live, OneDone
<1>11. CASE UNCHANGED vars
  BY <1>11 DEF vars, threadVars, Live, OneDone
<1>12. QED
  BY <1>1, <1>3, <1>4, <1>5, <1>6, <1>7, <1>8, <1>9, <1>10, <1>11, NextCases

\* What ends a full scan's thread without a merge has the last word, and that
\* word is `interrupted'.
LEMMA LastMergedStep ==
    ASSUME MaxClicks <= 1, TypeOK, Fresh, OnlyCurrent, LastMerged, [Next]_vars
    PROVE  LastMerged'
<1> USE HandleAssumption DEF HandleAssumption
<1>1. ASSUME NEW passes \in Passes, Click(passes)
      PROVE  LastMerged'
  BY <1>1 DEF Click, Fresh, TypeOK, LastMerged, CompleteIsLast, Live, NoThread, threadVars
<1>2. CASE StartScan
  <2>1. ~CompleteIsLast' /\ ui'.summary = "none"
    BY <1>2 DEF StartScan, BeginScan, Fresh, NoSession, CompleteIsLast
  <2>2. QED
    BY <2>1 DEF LastMerged
<1>3. CASE StartFails
  <2>1. ~CompleteIsLast'
    BY <1>3 DEF StartFails, Fresh, NoSession, CompleteIsLast
  <2>2. QED
    BY <2>1 DEF LastMerged
<1>4. CASE Pause \/ Stop
  <2>1. CompleteIsLast' = CompleteIsLast
    BY <1>4 DEF Pause, Stop, CompleteIsLast, TypeOK
  <2>2. QED
    BY <1>4, <2>1 DEF Pause, Stop, LastMerged, Live, userVars, sessionVars
<1>5. CASE Resume
  <2>1. \A r \in Run : ~Live(r)
    BY <1>5 DEF Resume, IsScanning, OnlyCurrent, Run
  <2>2. Spawn
    BY <1>5 DEF Resume, ContinueScan
  <2>3. PICK r \in Run : /\ stage'[r] \in {"planner", "quick"}
                         /\ \A s \in Run : s # r => stage'[s] = stage[s]
    BY <2>2, SpawnSets DEF TypeOK
  <2>4. QED
    BY <2>1, <2>3 DEF LastMerged, Live
<1>6. CASE HandleDone
  <2>1. /\ queue # <<>> /\ queue' = Tail(queue)
        /\ ui'.summary = IF Head(queue) THEN "interrupted" ELSE "complete"
        /\ Head(queue) = queue[1] /\ Len(queue) \in Nat
    BY <1>6, TailType DEF HandleDone, TypeOK
  <2>2. CompleteIsLast' = CompleteIsLast
    <3>1. CASE Len(queue) = 1
      <4>1. queue' = <<>> /\ queue[Len(queue)] = Head(queue)
        BY <2>1, <3>1, TailType DEF TypeOK
      <4>2. CompleteIsLast <=> ~Head(queue)
        BY <2>1, <4>1 DEF CompleteIsLast
      <4>3. CompleteIsLast' <=> ui'.summary = "complete"
        BY <4>1 DEF CompleteIsLast
      <4>4. ui'.summary = "complete" <=> ~Head(queue)
        BY <2>1
      <4>5. QED
        BY <4>2, <4>3, <4>4 DEF CompleteIsLast
    <3>2. CASE Len(queue) # 1
      <4>1. Tail(queue) # <<>> /\ Len(Tail(queue)) = Len(queue) - 1
        BY <2>1, <3>2, TailType DEF TypeOK
      <4>2. Tail(queue)[Len(queue) - 1] = queue[Len(queue)]
        <5> DEFINE k == Len(queue) - 1
        <5>1. queue \in Seq(BOOLEAN) /\ Tail(queue) \in Seq(BOOLEAN)
          BY <2>1, TailType DEF TypeOK
        <5>2. k \in DOMAIN Tail(queue)
          <6>1. Len(Tail(queue)) = k /\ k \in Nat /\ k # 0
            BY <2>1, <4>1, <5>1, EmptySeq
          <6>2. QED
            BY <5>1, <6>1, LenProperties
        <5>3. Tail(queue)[k] = queue[k + 1]
          BY <2>1, <5>1, <5>2, TailType
        <5>4. Len(queue) \in Nat /\ k + 1 = Len(queue)
          BY <5>1, LenProperties
        <5>5. QED
          BY <5>3, <5>4
      <4>3. QED
        BY <2>1, <4>1, <4>2 DEF CompleteIsLast
    <3>3. QED
      BY <3>1, <3>2
  <2>3. QED
    BY <1>6, <2>2 DEF HandleDone, LastMerged, Live, userVars, threadVars, sessionVars
<1>7. ASSUME NEW r \in Run, Advance(r)
      PROVE  LastMerged'
  <2>1. /\ Live(r) /\ \A s \in Run : s # r => ~Live(s) /\ stage'[s] = stage[s]
        /\ ui' = ui /\ opts' = opts
    BY <1>7, AdvanceSets DEF OnlyCurrent, userVars
  <2>2. \A s \in Run : s # r => ~Live(s)' /\ stage'[s] # "stopping"
    BY <2>1 DEF Live
  <2>3. CASE \/ QuickPass(r) \/ CarveStarts(r) \/ CarveLastChunk(r) \/ CarveCheckpoint(r)
             \/ Label(r) \/ Structure(r) \/ MergeRows(r)
    <3>1. CompleteIsLast' = CompleteIsLast
      BY <2>1, <2>3 DEF QuickPass, CarveStarts, CarveLastChunk, CarveCheckpoint, Label,
                        Structure, MergeRows, CompleteIsLast
    <3>2. CASE QuickPass(r)
      BY <2>1, <2>2, <3>1, <3>2 DEF QuickPass, Goto, LastMerged, Live, TypeOK
    <3>3. CASE CarveStarts(r) \/ CarveLastChunk(r)
      BY <2>2, <3>3 DEF CarveStarts, CarveLastChunk, Goto, LastMerged, Live, TypeOK
    <3>4. CASE CarveCheckpoint(r)
      BY <2>2, <3>4 DEF CarveCheckpoint, Carving, LastMerged, Live, threadVars
    <3>5. CASE Label(r)
      BY <2>1, <2>2, <3>1, <3>5 DEF Label, Goto, LastMerged, Live, TypeOK
    <3>6. CASE Structure(r)
      BY <2>1, <2>2, <3>6 DEF Structure, Goto, LastMerged, Live, TypeOK
    <3>7. CASE MergeRows(r)
      BY <2>2, <3>7 DEF MergeRows, Goto, LastMerged, Live, TypeOK
    <3>8. QED
      BY <2>3, <3>2, <3>3, <3>4, <3>5, <3>6, <3>7
  <2>4. CASE CarveCompletes(r)
    BY <2>2, <2>4 DEF CarveCompletes, CarveReports, Goto, LastMerged, Live, TypeOK
  <2>5. ASSUME Done(TRUE)
        PROVE  ~CompleteIsLast'
    <3>1. queue \in Seq(BOOLEAN)
      BY DEF TypeOK
    <3>2. queue' \in Seq(BOOLEAN) /\ Len(queue') # 0 /\ queue'[Len(queue')] = TRUE
      BY <2>5, <3>1 DEF Done
    <3>3. queue' # <<>>
      BY <3>2
    <3>4. QED
      BY <3>2, <3>3 DEF CompleteIsLast
  <2>6. CASE CarveStops(r) \/ Fails(r)
    BY <2>5, <2>6 DEF CarveStops, CarveReports, Fails, LastMerged
  <2>7. QED
    BY <1>7, <2>3, <2>4, <2>6 DEF Advance
<1>8. CASE Crash
  BY <1>8 DEF Crash, NoSession, NoThread, CompleteIsLast, LastMerged
<1>9. CASE UNCHANGED vars
  <2>1. CompleteIsLast' = CompleteIsLast
    BY <1>9 DEF vars, CompleteIsLast
  <2>2. QED
    BY <1>9, <2>1 DEF vars, userVars, threadVars, sessionVars, LastMerged, Live
<1>10. QED
  BY <1>1, <1>2, <1>3, <1>4, <1>5, <1>6, <1>7, <1>8, <1>9, NextCases

-----------------------------------------------------------------------------
IInv == TypeOK /\ Fresh /\ OnlyCurrent /\ RowComplete /\ OneDone /\ LastMerged

LEMMA IInvInit == Init => IInv
<1> SUFFICES ASSUME Init PROVE IInv
  OBVIOUS
<1>1. Fresh /\ OnlyCurrent
  BY DEF Init, NoSession, NoThread, Fresh, OnlyCurrent, Live
<1>2. RowComplete /\ OneDone
  BY DEF Init, NoSession, NoThread, RowComplete, Carving, OneDone, Live
<1>3. LastMerged
  BY DEF Init, NoSession, LastMerged, CompleteIsLast
<1>4. QED
  BY <1>1, <1>2, <1>3, TypeInit DEF IInv

LEMMA IInvAlways == ASSUME MaxClicks <= 1 PROVE Spec => []IInv
<1>1. IInv /\ [Next]_vars => IInv'
  BY TypeStep, FreshStep, OnlyCurrentStep, RowCompleteStep, OneDoneStep, LastMergedStep DEF IInv
<1>2. QED
  BY <1>1, IInvInit, PTL DEF Spec

\* One pipeline at a time works on the session, however the user's resumes
\* fall against the end of the thread (resume_scan asks is_scanning).
THEOREM OneWriterAlways == ASSUME MaxClicks <= 1 PROVE Spec => []OneWriter
<1>1. IInv => OneWriter
  BY DEF IInv, OnlyCurrent, OneWriter, LiveRuns
<1>2. QED
  BY <1>1, IInvAlways, PTL

\* While a run has reading to do the app shows a scan, so it can be paused; a
\* Done never ends a later run (unless a stage failed after its Done).
THEOREM PauseReachableAlways == ASSUME MaxClicks <= 1 PROVE Spec => []PauseReachable
<1>1. IInv => PauseReachable
  BY DEF IInv, OnlyCurrent, OneDone, PauseReachable, PastCarve, Carving, Live
<1>2. QED
  BY <1>1, IInvAlways, PTL

\* A scan the app shows as complete is complete on disk, and stays so through
\* every resume of it.
THEOREM CompleteShownAlways == ASSUME MaxClicks <= 1 PROVE Spec => []CompleteShown
<1>1. IInv => CompleteShown
  BY DEF IInv, RowComplete, CompleteShown
<1>2. QED
  BY <1>1, IInvAlways, PTL

\* A full scan shown as complete has merged its rows once its thread is done.
THEOREM MergedWhenIdleAlways == ASSUME MaxClicks <= 1 PROVE Spec => []MergedWhenIdle
<1>1. IInv => MergedWhenIdle
  BY DEF IInv, LastMerged, CompleteIsLast, MergedWhenIdle, LiveRuns
<1>2. QED
  BY <1>1, IInvAlways, PTL
=============================================================================
