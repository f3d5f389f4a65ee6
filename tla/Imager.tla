------------------------------- MODULE Imager -------------------------------
(***************************************************************************)
(* imaging::image (reclaim-block): a source is copied chunk by chunk into  *)
(* an image file, with a sidecar map that says which chunks are done, what *)
(* they hashed to and which sectors stayed unreadable.  A run may be       *)
(* cancelled, fail or be killed; the next one resumes from the map.        *)
(*                                                                         *)
(* Abstractions.  Bytes are told apart only by whether they are zero: a    *)
(* buffer, an image and the source are the set of their sectors that hold  *)
(* data (NonZero, in the source), and the hash of a chunk is that set.     *)
(* Reads with their retries are one step that leaves some of the flaky     *)
(* sectors unread.  All zstd frames have one size, so a frame is placed by *)
(* its index.  Files survive the death of the process.                     *)
(***************************************************************************)
EXTENDS Integers, Sequences, FiniteSets

CONSTANTS
    NumChunks,    \* chunks of the source
    ChunkSectors, \* sectors of a chunk
    NonZero,      \* the source's sectors that hold data
    Flaky,        \* its sectors that a read may fail on
    CkptChunks,   \* chunks between two saves of the map (64)
    MaxFaults     \* how often each kind of fault may strike

FaultKind == {"cancel", "kill", "write", "save"}
Chunk == 0 .. NumChunks - 1
Sector == 0 .. NumChunks * ChunkSectors - 1
SectorsOf(c) == c * ChunkSectors .. (c + 1) * ChunkSectors - 1

ASSUME ImagerAssumption ==
    /\ NumChunks \in Nat \ {0}
    /\ ChunkSectors \in Nat \ {0}
    /\ NonZero \subseteq Sector
    /\ Flaky \subseteq Sector
    /\ CkptChunks \in Nat \ {0}
    /\ MaxFaults \in [FaultKind -> Nat]

VARIABLES
    out,       \* the image file
    saved,     \* the map on disk, as a set: empty, or the one map
    phase,     \* where the run is
    map,       \* its map
    frames,    \* its dest.frames: the chunk each frame holds
    sparse,    \* its opts.sparse
    i,         \* its chunk
    buf,       \* what it read of the chunk
    badTotal,  \* its count of bad sectors
    sinceCkpt, \* chunks written since the map was saved
    cancel,    \* its cancellation flag
    plugged,   \* its source is there
    outcome,   \* how the last run ended
    faults

runVars == <<phase, map, frames, sparse, i, buf, badTotal, sinceCkpt>>
vars == <<out, saved, runVars, cancel, plugged, outcome, faults>>

-----------------------------------------------------------------------------
Map == [zstd : BOOLEAN, done : SUBSET Chunk, hash : [Chunk -> SUBSET Sector],
        bad : SUBSET Sector, frames : Seq(Chunk), complete : BOOLEAN,
        whole : [Chunk -> SUBSET Sector]]

Blank == [c \in Chunk |-> {}]
NewMap(zstd) == [zstd |-> zstd, done |-> {}, hash |-> Blank, bad |-> {},
                 frames |-> <<>>, complete |-> FALSE, whole |-> Blank]

\* An image file: the data of a raw image, or the frames of a zstd one.
Image == [exists : BOOLEAN, raw : SUBSET Sector, slots : Seq(SUBSET Sector)]
NoImage == [exists |-> FALSE, raw |-> {}, slots |-> <<>>]
EmptyImage == [NoImage EXCEPT !.exists = TRUE]

\* MappedImage::read_at of a chunk: a raw image's bytes, or the bytes of the
\* frame that covers it, zeros if none does.
ReadBack(m, c) ==
    IF ~m.zstd
    THEN out.raw \cap SectorsOf(c)
    ELSE UNION {out.slots[k] : k \in {k \in DOMAIN m.frames : m.frames[k] = c}}

Strike(kind) ==
    /\ faults[kind] < MaxFaults[kind]
    /\ faults' = [faults EXCEPT ![kind] = @ + 1]

Init ==
    /\ out = NoImage /\ saved = {}
    /\ phase = "off" /\ map = NewMap(FALSE) /\ frames = <<>> /\ sparse = FALSE
    /\ i = 0 /\ buf = {} /\ badTotal = 0 /\ sinceCkpt = 0
    /\ cancel = FALSE /\ plugged = TRUE /\ outcome = "none"
    /\ faults = [k \in FaultKind |-> 0]

-----------------------------------------------------------------------------
(* The start of a run: the map is loaded or new, the image continued or    *)
(* truncated.                                                              *)

\* Wrong variant: a resumed run counts from nothing.
NoBadYet(m) == 0

BadSoFar(m) == Cardinality(m.bad)

\* Wrong variant: only a zstd image is known to have begun.
HasFrames(m) == m.frames # <<>>

\* The map says that something is in the image.
Begun(m) == m.frames # <<>> \/ m.done # {}

Open(m, append, sp) ==
    /\ phase = "off"
    /\ map' = m
    /\ frames' = IF append THEN m.frames ELSE <<>>
    /\ out' = IF append THEN out ELSE EmptyImage
    /\ sparse' = (sp /\ ~m.zstd)
    /\ phase' = "head" /\ i' = 0 /\ buf' = {}
    /\ badTotal' = BadSoFar(m) /\ sinceCkpt' = 0
    /\ cancel' = FALSE /\ plugged' = TRUE /\ outcome' = "none"
    /\ UNCHANGED <<saved, faults>>

\* No map to resume from, whatever the caller asks.
StartNew(zstd, sp) == saved = {} /\ Open(NewMap(zstd), FALSE, sp)

\* Wrong variant: a resumed run takes only the options of the map.
ResumeAfresh(sp) == \E m \in saved : Open(NewMap(m.zstd), FALSE, sp)

\* The map on disk is authoritative; the image it describes is continued.
Resume(sp) == \E m \in saved : Open(m, Begun(m) /\ out.exists, sp)

\* Without `resume' the caller starts over, and the old map stays on disk.
StartOver(zstd, sp) == saved # {} /\ Open(NewMap(zstd), FALSE, sp)

-----------------------------------------------------------------------------
(* One turn of the loop.                                                   *)

Stop(how) ==
    /\ phase' = "off" /\ outcome' = how
    /\ map' = NewMap(FALSE) /\ frames' = <<>> /\ sparse' = FALSE
    /\ i' = 0 /\ buf' = {} /\ badTotal' = 0 /\ sinceCkpt' = 0
    /\ cancel' = FALSE /\ plugged' = TRUE

\* ImageMap::save: a temporary file renamed over the map, so one that fails
\* leaves the old map.
Save(m) == saved' = {m} /\ UNCHANGED faults
SaveFails == Strike("save") /\ UNCHANGED saved

\* The cancel check; the result of the save is ignored.
Cancelled ==
    /\ phase = "head" /\ i < NumChunks
    /\ cancel
    /\ Save([map EXCEPT !.frames = frames]) \/ SaveFails
    /\ Stop("interrupted")
    /\ UNCHANGED out

SkipDone ==
    /\ phase = "head" /\ i < NumChunks
    /\ ~cancel
    /\ i \in map.done
    /\ i' = i + 1
    /\ UNCHANGED <<out, saved, phase, map, frames, sparse, buf, badTotal,
                   sinceCkpt, cancel, plugged, outcome, faults>>

\* Wrong variant: the chunk is hashed before its bad sectors are retried.
ReadAndHashFirst ==
    /\ phase = "head" /\ i < NumChunks
    /\ ~cancel
    /\ i \notin map.done
    /\ \E first, failed \in SUBSET (Flaky \cap SectorsOf(i)) :
          /\ failed \subseteq first
          /\ buf' = (NonZero \cap SectorsOf(i)) \ failed
          /\ map' = [map EXCEPT !.bad = @ \cup failed,
                                !.hash[i] = (NonZero \cap SectorsOf(i)) \ first,
                                !.done = @ \cup {i}]
          /\ badTotal' = badTotal + Cardinality(failed)
    /\ phase' = "write"
    /\ UNCHANGED <<out, saved, frames, sparse, i, sinceCkpt, cancel, plugged,
                   outcome, faults>>

\* The chunk is read, and its bad sectors retried; those that stay bad read as
\* zeros and are recorded.  A device that is gone fails every sector.
ReadChunk ==
    /\ phase = "head" /\ i < NumChunks
    /\ ~cancel
    /\ i \notin map.done
    /\ \E failed \in IF plugged THEN SUBSET (Flaky \cap SectorsOf(i))
                                ELSE {SectorsOf(i)} :
          /\ buf' = (NonZero \cap SectorsOf(i)) \ failed
          /\ map' = [map EXCEPT !.bad = @ \cup failed,
                                !.hash[i] = buf',
                                !.done = @ \cup {i}]
          /\ badTotal' = badTotal + Cardinality(failed)
    /\ phase' = "write"
    /\ UNCHANGED <<out, saved, frames, sparse, i, sinceCkpt, cancel, plugged,
                   outcome, faults>>

\* The chunk of a raw image holds this data.
PutRaw(data) == [out EXCEPT !.raw = (@ \ SectorsOf(i)) \cup data]

\* The next frame goes where the last one of the index ends.
PutFrame(data) ==
    [out EXCEPT !.slots = [k \in DOMAIN @ \cup {Len(frames) + 1} |->
                              IF k = Len(frames) + 1 THEN data ELSE @[k]]]

\* A sparse image leaves a hole for zeros.
Hole == ~map.zstd /\ sparse /\ buf = {}

\* dest.write_chunk: a zstd frame, or raw bytes.
WriteChunk ==
    /\ phase = "write"
    /\ IF map.zstd
       THEN out' = PutFrame(buf) /\ frames' = Append(frames, i)
       ELSE /\ out' = IF Hole THEN out ELSE PutRaw(buf)
            /\ UNCHANGED frames
    /\ sinceCkpt' = sinceCkpt + 1
    /\ phase' = "ckpt"
    /\ UNCHANGED <<saved, map, sparse, i, buf, badTotal, cancel, plugged,
                   outcome, faults>>

\* The disk is full: some sectors are written, the error returns, and the map
\* on disk says nothing of the chunk.
WriteFails ==
    /\ phase = "write"
    /\ ~Hole
    /\ Strike("write")
    /\ IF map.zstd
       THEN out' \in {out, PutFrame({})}
       ELSE \E written \in SUBSET SectorsOf(i) :
               out' = PutRaw((buf \cap written) \cup (out.raw \cap (SectorsOf(i) \ written)))
    /\ Stop("error")
    /\ UNCHANGED saved

\* Wrong variant: one chunk late.
PastInterval(n) == n > CkptChunks

IntervalOver(n) == n >= CkptChunks

\* Every CkptChunks chunks the map is saved; the result is ignored.
Checkpoint ==
    /\ phase = "ckpt"
    /\ IF IntervalOver(sinceCkpt)
       THEN /\ map' = [map EXCEPT !.frames = frames]
            /\ Save(map') \/ SaveFails
            /\ sinceCkpt' = 0
       ELSE UNCHANGED <<map, saved, sinceCkpt, faults>>
    /\ i' = i + 1
    /\ phase' = "head"
    /\ UNCHANGED <<out, frames, sparse, buf, badTotal, cancel, plugged, outcome>>

\* Wrong variant: a chunk with a bad sector is not done.
AllGood(m) == m.done = Chunk /\ m.bad = {}

AllDone(m) == m.done = Chunk

\* Wrong variant: the whole-image hash is put together from the chunks' hashes.
WholeOfHashes(m) == m.hash

\* compute_identity: the image is read back through the map.
WholeHash(m) == [c \in Chunk |-> ReadBack(m, c)]

\* After the last chunk: the whole-image hash is taken from the image, through
\* the map; the map is saved, and an error here is returned.
Finalize ==
    /\ phase = "head" /\ i = NumChunks
    /\ LET m == [map EXCEPT !.frames = frames]
           final == [m EXCEPT !.complete = AllDone(m),
                              !.whole = IF AllDone(m) THEN WholeHash(m) ELSE @]
       IN  \/ Save(final) /\ Stop(IF AllDone(m) THEN "complete" ELSE "interrupted")
           \/ SaveFails /\ Stop("error")
    /\ UNCHANGED out

-----------------------------------------------------------------------------
(* The world around the run.                                               *)

\* ImageJob::cancel.
Cancel ==
    /\ phase # "off" /\ ~cancel
    /\ Strike("cancel")
    /\ cancel' = TRUE
    /\ UNCHANGED <<out, saved, runVars, plugged, outcome>>

\* The process dies: a crash, or Ctrl-C, which `reclaim image' does not catch.
Kill ==
    /\ phase # "off"
    /\ Strike("kill")
    /\ Stop("killed")
    /\ UNCHANGED <<out, saved>>

Unplug ==
    /\ phase # "off" /\ plugged
    /\ plugged' = FALSE
    /\ UNCHANGED <<out, saved, runVars, cancel, outcome, faults>>

ImageStep ==
    \/ Cancelled \/ SkipDone \/ ReadChunk \/ WriteChunk \/ Checkpoint \/ Finalize

Next ==
    \/ \E sp \in BOOLEAN : Resume(sp) \/ \E zstd \in BOOLEAN : StartNew(zstd, sp)
    \/ ImageStep \/ WriteFails
    \/ Cancel \/ Kill

Spec == Init /\ [][Next]_vars

\* The imaging thread runs; a user who wants the image keeps resuming.
ResumingSpec ==
    Spec /\ WF_vars(ImageStep)
         /\ WF_vars(\E sp \in BOOLEAN : Resume(sp) /\ ~\E m \in saved : m.complete)
         /\ WF_vars(\E sp, zstd \in BOOLEAN : StartNew(zstd, sp))

\* Two things more that happen to an image: it is started over, and the source
\* is unplugged while it is read.
OverSpec == Init /\ [][Next \/ \E sp, zstd \in BOOLEAN : StartOver(zstd, sp)]_vars
UnplugSpec == Init /\ [][Next \/ Unplug]_vars

-----------------------------------------------------------------------------
(* Properties.                                                             *)

TypeOK ==
    /\ out \in Image
    /\ saved \in SUBSET Map /\ Cardinality(saved) <= 1
    /\ phase \in {"off", "head", "write", "ckpt"}
    /\ map \in Map
    /\ frames \in Seq(Chunk)
    /\ sparse \in BOOLEAN
    /\ i \in 0 .. NumChunks
    /\ buf \subseteq Sector
    /\ badTotal \in Nat
    /\ sinceCkpt \in 0 .. CkptChunks
    /\ cancel \in BOOLEAN /\ plugged \in BOOLEAN
    /\ outcome \in {"none", "interrupted", "complete", "error", "killed"}
    /\ faults \in [FaultKind -> Nat]

\* What the map on disk calls done and does not call bad reads back as the
\* source, whenever the process dies: a chunk is recorded only with its bytes
\* written, and no later run disturbs it.
DoneIsSource ==
    \A m \in saved : \A c \in m.done :
        ReadBack(m, c) \ m.bad = (NonZero \cap SectorsOf(c)) \ m.bad

\* The image verifies against the map on disk (verify_image), except where all
\* that was read of a chunk is zeros and some of it was bad: a sparse image
\* leaves there what an earlier run may have written.
DoneVerifies ==
    \A m \in saved : \A c \in m.done :
        \/ ReadBack(m, c) = m.hash[c]
        \/ m.hash[c] = {} /\ m.bad \cap SectorsOf(c) # {}

\* The hash of a complete image is the hash of the file as it is.
WholeVerifies ==
    \A m \in saved :
        m.complete => m.done = Chunk /\ m.whole = [c \in Chunk |-> ReadBack(m, c)]

\* Each bad sector is counted once, over all the runs of an image.
BadCounted == phase # "off" => badTotal = Cardinality(map.bad)

\* Progress is kept: a chunk done on disk stays done, with its hash and its bad
\* sectors, whatever the options and the end of later runs.
ProgressKept ==
    [][\A m \in saved, n \in saved' :
          /\ m.done \subseteq n.done /\ m.bad \subseteq n.bad
          /\ \A c \in m.done : n.hash[c] = m.hash[c]]_vars

\* A user who keeps resuming gets a complete image once the faults stop.
EventuallyImaged == <>(\E m \in saved : m.complete)

\* A complete image holds what its map says, without exception.  (imager.rs:
\* hashes persist in the map so that a resume skips completed chunks.)
CompleteVerifies ==
    \A m \in saved : m.complete => \A c \in Chunk : ReadBack(m, c) = m.hash[c]

\* Only a sector the source could not read is called bad.  (map.rs: `bad' are
\* unreadable sectors, `unread' those an interrupted run never read.)
BadIsUnreadable == \A m \in saved : m.bad \subseteq Flaky
=============================================================================
