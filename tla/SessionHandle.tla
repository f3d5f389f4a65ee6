----------------------------- MODULE SessionHandle -----------------------------
(***************************************************************************)
(* The app's ScanController (Swift), the session handle it holds           *)
(* (reclaim-ffi Session) and the threads that handle spawns, each of which *)
(* runs the pipeline quick -> deep -> label -> structure -> merge on one   *)
(* session directory.  The threads tell the controller what happens by     *)
(* events, which the main queue delivers in order, some time later; the    *)
(* controller offers pause, stop and resume by what it was told.           *)
(*                                                                         *)
(* Abstractions.  The carve pass is its effect on the progress row of the  *)
(* session (ScanPipeline has the rest).  Events that change no control     *)
(* (found, progress, volume, warning) are left out.  A resume the handle   *)
(* refuses changes nothing but a message, so it is no step.  The user's    *)
(* click opens a device first, so a start comes some time after its click. *)
(***************************************************************************)
EXTENDS Integers, Sequences

CONSTANTS
    MaxClicks,  \* clicks on Scan before the results replace the plan
    MaxRuns,    \* threads spawned while the app lives
    MaxFaults   \* how often each kind of fault may strike

\* error: a stage fails before the carve reports; late: after it.
FaultKind == {"error", "late", "vanish", "crash"}
Run == 1 .. MaxRuns

ASSUME HandleAssumption ==
    /\ MaxClicks \in Nat
    /\ MaxRuns \in Nat
    /\ MaxFaults \in [FaultKind -> Nat]

VARIABLES
    starts,    \* starts clicked and not yet made
    clicks,    \* clicks since the app was launched
    opts,      \* the passes asked for
    ui,        \* the published state of the controller
    current,   \* the run whose thread and cancel flag the handle holds, or 0
    stage,     \* where each run's thread is
    cancelled, \* runs whose flag is set
    told,      \* runs whose carve has ended with a Done
    queue,     \* Done events on the main queue: TRUE for an interrupted one
    saved,     \* the progress row: none, partial or complete
    unmerged,  \* the session holds rows that no merge has seen
    faults

userVars    == <<starts, clicks, opts>>
threadVars  == <<current, stage, cancelled, told>>
sessionVars == <<saved, unmerged>>
vars == <<userVars, ui, threadVars, queue, sessionVars, faults>>

-----------------------------------------------------------------------------
Passes == {"quick", "deep", "full"}
Stage == {"idle", "quick", "planner", "carve", "lastChunk", "label", "stopping",
          "structure", "merge", "finished"}
Carving == {"carve", "lastChunk"}
Live(r) == stage[r] \notin {"idle", "finished"}
LiveRuns == {r \in Run : Live(r)}

\* is_scanning: the handle holds a thread that has not finished.
IsScanning == current # 0 /\ Live(current)

Strike(kind) ==
    /\ faults[kind] < MaxFaults[kind]
    /\ faults' = [faults EXCEPT ![kind] = @ + 1]

NoSession == [session |-> FALSE, scanning |-> FALSE, paused |-> FALSE, summary |-> "none"]
NoThread == [r \in Run |-> "idle"]

Init ==
    /\ starts = 0 /\ clicks = 0 /\ opts = "full"
    /\ ui = NoSession
    /\ current = 0 /\ stage = NoThread /\ cancelled = {} /\ told = {}
    /\ queue = <<>>
    /\ saved = "none" /\ unmerged = FALSE
    /\ faults = [k \in FaultKind |-> 0]

-----------------------------------------------------------------------------
(* The user and the controller: every step is one turn of the main thread. *)

\* Scan: the device is opened in a task of its own, with the plan still shown.
\* The plan is not edited in between.
Click(passes) ==
    /\ ~ui.session
    /\ clicks < MaxClicks
    /\ clicks' = clicks + 1
    /\ starts' = starts + 1
    /\ opts' = IF starts = 0 THEN passes ELSE opts
    /\ UNCHANGED <<ui, threadVars, queue, sessionVars, faults>>

\* spawn_scan: a new flag, a new thread.
Spawn ==
    \E r \in Run :
        /\ stage[r] = "idle" /\ \A s \in Run : s < r => stage[s] # "idle"
        /\ current' = r
        /\ stage' = [stage EXCEPT ![r] = IF opts = "deep" THEN "planner" ELSE "quick"]
        /\ UNCHANGED <<cancelled, told>>

\* ScanController.start: the state is reset, and the session is a new handle.
BeginScan ==
    /\ starts' = starts - 1
    /\ Spawn
    /\ ui' = [NoSession EXCEPT !.session = TRUE, !.scanning = TRUE]
    /\ UNCHANGED <<clicks, opts, queue, sessionVars, faults>>

\* Wrong variant: a start that no click asked for.
StartUnasked == BeginScan

StartScan == starts > 0 /\ BeginScan

\* start_scan fails to open the source, and the plan stays.
StartFails ==
    /\ starts > 0
    /\ starts' = starts - 1
    /\ ui' = NoSession
    /\ UNCHANGED <<clicks, opts, threadVars, queue, sessionVars, faults>>

\* signal_cancel: the flag of the thread spawned last.
SignalCancel == cancelled' = cancelled \cup ({current} \ {0})

\* The button is there while the controller is scanning.
Pause ==
    /\ ui.scanning
    /\ SignalCancel
    /\ ui' = [ui EXCEPT !.paused = TRUE]
    /\ UNCHANGED <<userVars, current, stage, told, queue, sessionVars, faults>>

\* Wrong variant: the controller calls the scan over when it is told to stop.
StopAtOnce ==
    /\ ui.scanning
    /\ SignalCancel
    /\ ui' = [ui EXCEPT !.scanning = FALSE]
    /\ UNCHANGED <<userVars, current, stage, told, queue, sessionVars, faults>>

Stop ==
    /\ ui.scanning
    /\ SignalCancel
    /\ UNCHANGED <<userVars, ui, current, stage, told, queue, sessionVars, faults>>

ContinueScan ==
    /\ ui.session /\ ~ui.scanning /\ ui.paused
    /\ Spawn
    /\ ui' = [ui EXCEPT !.paused = FALSE, !.scanning = TRUE]
    /\ UNCHANGED <<userVars, queue, sessionVars, faults>>

\* Wrong variant: resume_scan does not ask whether a scan is running.
ResumeUnchecked == ContinueScan

\* The button is there when a paused scan is over; the handle refuses while the
\* thread is still at work.
Resume == ~IsScanning /\ ContinueScan

\* The main queue delivers a Done to the controller.
HandleDone ==
    /\ queue # <<>>
    /\ ui' = [ui EXCEPT !.scanning = FALSE,
                        !.summary = IF Head(queue) THEN "interrupted" ELSE "complete"]
    /\ queue' = Tail(queue)
    /\ UNCHANGED <<userVars, threadVars, sessionVars, faults>>

-----------------------------------------------------------------------------
(* The pipeline of a run.                                                  *)

Goto(r, next) ==
    /\ stage' = [stage EXCEPT ![r] = next]
    /\ UNCHANGED <<current, cancelled>>

Done(interrupted) == queue' = Append(queue, interrupted)

\* run_quick stores entries; it has no cancel check, and no Done.
QuickPass(r) ==
    /\ stage[r] = "quick"
    /\ Goto(r, IF opts = "quick" THEN "finished" ELSE "planner")
    /\ unmerged' \in {unmerged, TRUE}
    /\ UNCHANGED <<userVars, ui, told, queue, saved, faults>>

\* Wrong variant: the planner does not look whether the scan is complete.
CarveAgain(r) ==
    /\ stage[r] = "planner"
    /\ Goto(r, "carve")
    /\ UNCHANGED <<userVars, ui, told, queue, sessionVars, faults>>

\* run_carve returns at once if the scan is complete, and has no Done for it.
CarveStarts(r) ==
    /\ stage[r] = "planner"
    /\ Goto(r, IF saved = "complete" THEN "label" ELSE "carve")
    /\ UNCHANGED <<userVars, ui, told, queue, sessionVars, faults>>

CarveCheckpoint(r) ==
    /\ stage[r] \in Carving
    /\ saved' = "partial" /\ unmerged' = TRUE
    /\ UNCHANGED <<userVars, ui, threadVars, queue, faults>>

\* The flag is looked at before every chunk, for the last time here.
CarveLastChunk(r) ==
    /\ stage[r] = "carve"
    /\ r \notin cancelled
    /\ Goto(r, "lastChunk")
    /\ UNCHANGED <<userVars, ui, told, queue, sessionVars, faults>>

\* The carve is over: the row says how, then the event.
CarveReports(r, interrupted) ==
    /\ saved' = IF interrupted THEN "partial" ELSE "complete"
    /\ unmerged' \in {unmerged, TRUE}
    /\ Done(interrupted)
    /\ told' = told \cup {r}
    /\ Goto(r, IF interrupted THEN "stopping" ELSE "label")
    /\ UNCHANGED <<userVars, ui>>

CarveCompletes(r) ==
    /\ stage[r] = "lastChunk"
    /\ CarveReports(r, FALSE)
    /\ UNCHANGED faults

\* Its flag stops it, or a device that vanishes.
CarveStops(r) ==
    /\ stage[r] = "carve"
    /\ IF r \in cancelled THEN UNCHANGED faults ELSE Strike("vanish")
    /\ CarveReports(r, TRUE)

\* label_carved; after an interrupted carve the run ends here.
Label(r) ==
    /\ \/ stage[r] = "label" /\ Goto(r, "structure")
       \/ stage[r] = "stopping" /\ Goto(r, "finished")
    /\ UNCHANGED <<userVars, ui, told, queue, sessionVars, faults>>

Structure(r) ==
    /\ stage[r] = "structure"
    /\ Goto(r, IF opts = "full" THEN "merge" ELSE "finished")
    /\ UNCHANGED <<userVars, ui, told, queue, sessionVars, faults>>

\* Wrong variant: a run that had nothing to carve has nothing to merge.
MergeIfCarved(r) ==
    /\ stage[r] = "merge"
    /\ Goto(r, "finished")
    /\ unmerged' = (unmerged /\ r \notin told)
    /\ UNCHANGED <<userVars, ui, told, queue, saved, faults>>

MergeRows(r) ==
    /\ stage[r] = "merge"
    /\ Goto(r, "finished")
    /\ unmerged' = FALSE
    /\ UNCHANGED <<userVars, ui, told, queue, saved, faults>>

\* A stage fails or panics and the thread ends.
Failed(r) ==
    /\ Live(r)
    /\ Strike(IF r \in told THEN "late" ELSE "error")
    /\ Goto(r, "finished")
    /\ UNCHANGED <<userVars, ui, told, sessionVars>>

\* Wrong variant: without a word.
FailsSilently(r) == Failed(r) /\ UNCHANGED queue

\* It says that the scan is over, as interrupted, whatever it said before.
Fails(r) == Failed(r) /\ Done(TRUE)

\* The app dies with its threads and its queue; the session stays on disk.
Crash ==
    /\ Strike("crash")
    /\ starts' = 0 /\ clicks' = 0
    /\ ui' = NoSession
    /\ current' = 0 /\ stage' = NoThread /\ cancelled' = {} /\ told' = {}
    /\ queue' = <<>>
    /\ UNCHANGED <<opts, sessionVars>>

PipelineStep ==
    \E r \in Run :
        \/ QuickPass(r) \/ CarveStarts(r) \/ CarveCheckpoint(r) \/ CarveLastChunk(r)
        \/ CarveCompletes(r) \/ CarveStops(r)
        \/ Label(r) \/ Structure(r) \/ MergeRows(r)

UserStep ==
    \/ \E passes \in Passes : Click(passes)
    \/ StartScan \/ StartFails \/ Pause \/ Stop \/ Resume

Next ==
    \/ UserStep \/ HandleDone
    \/ PipelineStep \/ \E r \in Run : Fails(r)
    \/ Crash

Spec == Init /\ [][Next]_vars

\* The threads run and the main queue is drained; the user may do nothing.
FairSpec == Spec /\ WF_vars(PipelineStep) /\ WF_vars(HandleDone)

-----------------------------------------------------------------------------
(* Properties.                                                             *)

TypeOK ==
    /\ clicks \in 0 .. MaxClicks /\ starts \in 0 .. clicks
    /\ opts \in Passes
    /\ ui \in [session : BOOLEAN, scanning : BOOLEAN, paused : BOOLEAN,
               summary : {"none", "complete", "interrupted"}]
    /\ current \in {0} \cup Run
    /\ stage \in [Run -> Stage]
    /\ cancelled \subseteq Run /\ told \subseteq Run
    /\ queue \in Seq(BOOLEAN)
    /\ saved \in {"none", "partial", "complete"}
    /\ unmerged \in BOOLEAN
    /\ faults \in [FaultKind -> Nat]

\* One pipeline at a time works on the session, whenever the user pauses and
\* resumes.  (scan.rs: a single SQLite writer; the app does not wait for the
\* thread, it asks is_scanning.)
OneWriter == \A r, s \in LiveRuns : r = s

\* While there is reading to do the app shows a scan, with its pause button:
\* no event of an earlier run ends a later one.  Only a stage that fails after
\* the carve's Done sends a second Done, which may come to a resumed run.
PauseReachable ==
    faults["late"] = 0 =>
        \A r \in Run : stage[r] \in {"quick", "planner"} \cup Carving => ui.scanning

\* What the app calls complete is complete on disk, and stays so.
CompleteShown == ui.summary = "complete" => saved = "complete"

\* Once a full scan is shown complete and its thread is done, its carved rows
\* have been merged with the files of the quick pass: no resume leaves rows
\* behind that no merge has seen.
MergedWhenIdle ==
    ui.summary = "complete" /\ opts = "full" /\ queue = <<>> /\ LiveRuns = {}
        => ~unmerged

\* The app learns of the end of every carve, also of one that fails.
CarveTold == \A r \in Run : stage[r] \in Carving ~> ~ui.scanning

\* The app does not show a scan for ever.  (spawn_scan: the pipeline must tell
\* the GUI that the scan is over, "or it spins on a progress bar forever".)
ScanningEnds == ui.scanning ~> ~ui.scanning
=============================================================================
