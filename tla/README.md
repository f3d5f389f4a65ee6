# Reclaim in TLA+

Reclaim is a read-only disk and file recovery program: a Rust core
(`src/crates`), a command line (`reclaim`), a C/Swift binding and a macOS app.
Its promise is that nothing is lost between runs. A scan or an image is made in
as many runs as the disk, the user and the machine allow, and the result has to
be the one a single undisturbed run would have made. This directory models the
parts that keep that promise, and the parts that read the disk: how sectors reach
the program through its layers, how partitions, lost volumes, files and deleted
files are found, what is carved, and how results are copied out. All of it is
model-checked on small instances. For instances of any size it is proved what matters
most of the first, that recovery and the stack of block sources keep their promises, and of
the filesystem engines which volumes open and that no walk exceeds its limit.

Contents: [inventory](#inventory), [modules](#modules),
[runs](#runs-what-each-checks-and-what-it-shows), [fairness](#fairness),
[findings](#findings), [other differences](#other-differences-from-the-documentation),
[proofs](#proofs),
[what is only model-checked](#what-is-only-model-checked),
[what is not modelled](#what-is-not-modelled), [plan](#plan).

Every module is checked with `tlc -config X.cfg M` and proved with `tlapm M.tla`;
`PROJECT.json` names, for every definition that models code, the lines it models.

## Inventory

Status: **M** modelled, **P** partly, **-** not modelled.

| Component | State it keeps | Operations | Hard behaviour | What makes it correct | |
|---|---|---|---|---|---|
| Carve pipeline (`reclaim-session/src/scan.rs`, `reclaim-carve/src/engine.rs`) | cursor, claims, channel, pending results, cancel flag; `carved` and `progress` rows | start, resume, carve a chunk, receive, flush, checkpoint, end | two threads over a bounded channel; interrupt, panic, failing statement, crash, power loss, unplug at any step | a stored cursor never claims what is not stored; the result set does not depend on the interruptions; both threads always end | M |
| Imager (`reclaim-block/src/imaging`, `commands/image.rs`) | image file, sidecar map, frame index, bad sectors | open or resume, read and retry, write, checkpoint, finalize, cancel | kill between write and map save, ignored save errors, options that differ between runs, sparse holes | what the map calls done is in the image; progress is never lost; the hash is that of the file | P |
| Session store (`store.rs`, `id.rs`) | SQLite tables: carved, progress, proposals, events, sources | insert, label, merge, replace proposals, put progress, query | transactions and what lies between them; runs that repeat earlier work; power loss under WAL | deterministic ids make repetition harmless; rows are never lost | P |
| Metadata engines (`meta.rs`, `structs.rs`) | bitmaps of the run | quick pass, mounted pass, labels, lost structures | a volume that does not open, an error half way, several volumes with bitmaps | labels agree with the bitmaps; what is hidden has a reason | P |
| Session handle and app controller (`reclaim-ffi/src/session.rs`, `ScanController.swift`) | cancel flag, join handle; published state of the app | start, pause, stop, resume, the pipeline of stages, events | events arrive later than what they tell; a resume while the old thread ends | one pipeline at a time; what the app shows agrees with thread and disk | P |
| Session directory (`reclaim-session/src/lib.rs`) | `session.json`, log, database | create, reuse, open with an identity check | reuse of a directory that belongs to another source | a session is used with its own source only | - |
| Recovery (`recover.rs`, `reader.rs`, `resolve.rs`) | destination files and folders, manifest | check the destination, open, copy, verify, write the manifest; preview | names that collide with one another, the destination and the manifest; bad sectors; a full disk; a destination on the source | what was there is untouched; every recovered file is what was read, or marked | M |
| Block sources (`raw_device.rs`, `cache.rs`, `offset_view.rs`, `fault.rs`, `mapped.rs`, ...) | latch of a vanished device, read-ahead cache | aligned reads, retries by sector, zeros on failure | errors and an unplug seen through layers of wrappers | a good sector is the one that was asked for; only what fails is lost | P |
| Container images (`reclaim-block/src/container`) | segment map, decoded blocks | detect, parse, read | runs joined, blocks cut, tables and files missing | the guest is what the format describes, or bad | P |
| Carve engine (`reclaim-carve`) | claims, inferred block size | match, gate, identify, claim, text | headers across chunks; gates that are inferred; files in files | each file the gates let through is found once | M |
| Validators (`reclaim-carve`, `reclaim-sigs`) | none | parse a format | untrusted bytes | per-format rules | - |
| Partition tables (`reclaim-part`) | none | GPT and MBR, primary and backup, extended chains | damaged copies, loops, clamping | each partition is one window inside the source | P |
| Lost structures (`reclaim-structs`) | none | sweep for superblocks, judge, dedup | magics across steps; backups | each volume is proposed at its start, each copy judged once | M |
| Filesystem engines (`fs-*`, `reclaim-fs-core`) | none | probe, open, walk, sweep, bitmap | cycles, damaged metadata, reused space, one file met in several ways | live files are listed once, at their places; deleted ones are found, and marked where a guess | P |
| Command line, app model, helper, platform, preview, report | arguments, view state | | I/O and formatting | | - |

How they interact. A front end (the command line, or the app through the session
handle) runs one *pipeline* on a session directory: the quick pass of the
metadata engines, the carve pipeline, labels, the structure pass, the merge.
Every stage stores what it finds in the session store, which is the only state
that outlives a run; the next run decides from it what there is to do. The carve
and the metadata engines read through a stack of block sources, which tells the
carve that the device is gone by a latch. The app learns of a run's end by
events that the main queue delivers. The imager is on its own: its state is the
image and the map beside it, and a later scan reads the image through that map.
Recovery reads the chosen results' extents through the same sources and writes to
a directory of the user's.

`PROJECT.json` lists, under `hazards`, each place where this is hard to test, with
the properties that watch over it or the reason why none does.

## Modules

| Module | Models | Extends / used by |
|---|---|---|
| `ResumableScan` | what the store of a resumable scan promises (abstract) | instanced by `ScanPipeline` |
| `ScanPipeline` | carve thread, channel, writer thread, database, the world around them | `MCScanPipeline`, `ScanPipelineProofs` |
| `Imager` | image file, map, one run's loop, kills and resumes | `MCImager`, `ImagerProofs` |
| `SessionHandle` | app controller, handle, threads, event queue | `MCSessionHandle`, `SessionHandleProofs` |
| `ResultStore` | the result table through the runs of a session | `MCResultStore`, `ResultStoreProofs` |
| `Lists` | nothing of the code: sequence operators, by the names they have in `SequencesExt` (see the proofs) | extended by `FsCore` |
| `FsCore` | what the engines share: bitmap, score, extents, and `Falls`, how a rank goes down | extended by the readers below |
| `FatVolume`, `ExfatVolume`, `NtfsVolume`, `ExtVolume`, `HfsVolume`, `ApfsVolume`, `IsoVolume` | one filesystem engine each | `Readers` |
| `PartitionTables`, `LostVolumes` | windows of a source; proposals of the sweep | `Readers` |
| `Segments`, `Containers` | a guest image as segments over files; the formats' tables | `Readers` |
| `BlockStack` | base source, injected faults, window, cache | `BlockStackProofs` |
| `CarveEngine` | what the engine finds in a source | `Readers` |
| `Recovery` | copying results to a destination; previews | `RecoveryProofs` |
| `Readers` | all readers, each on its own sources; of `BlockStack` and `Recovery` it instantiates the modules of proofs, which extend them, so that their lemmas hold of its instances | `MCReaders` (with `MCSources`, `MCImages`, `MCCarve`, `MCRecovery`), `ReadersProofs` |
| `FoldInduction` | nothing of the code: induction over a fold of a sequence | instanced by `BlockStackProofs`, `ReadersProofs` |

In each module the *wrong variants* of an action (named so in their comment) are
plausible mistakes in the code it models. No specification uses them. They stand
there to show, one for each property, that the property would notice.

### ScanPipeline and ResumableScan

`Session::run_carve` starts a thread that runs `CarveEngine::scan` and becomes the
writer. The **carve thread** is `scanner`, `pos`, `todo`, `claims`: `ReadChunk` reads
a chunk, `SkipCandidate`, `EmitCandidate` and `LoseCandidate` are the match loop over
its candidates in ascending order, `EndChunk` moves the cursor and reports it,
`ScanExit` is the loop's condition and cancel check, `ScanPanic` a validator that
panics. The **channel** is the bounded `sync_channel`; `Send` blocks while it is full
and does nothing once the receiver is gone. The **writer** has one action per
statement of its loop that another thread or a crash could come between: `Poll`
(the source's `vanished`), `RecvFound`, `RecvProgress`, `RecvTimeout`,
`FlushBatch`, `CheckpointFlush` and `CheckpointPut`, then `Disconnected`, `LastFlush`,
`LastPut`; its error path is `WriterFails` and `JoinAfterError`. The **database** is one
record `db` that each transaction replaces; `stale` holds the states that a power
failure may bring back, since the store runs WAL with `synchronous=NORMAL`, until
`WalSync`. `Start(resume)` is the planner of the next run, `StartComplete` its early
return.

What the validators accept is a constant (`Cand`, `FileStart`, `FileEnd`, `FullCand`):
they are pure functions of the bytes. Whether five seconds or a gibibyte have passed
since the last checkpoint is a free choice in every place where the code asks.

`ResumableScan` has three variables (rows, position, done) and says: batches record
results, the position moves only within what is recorded, a scan is done only at the
end with everything required, a power failure forgets. `ScanPipeline` implements
it (`ImplementsResumableScan`) with `rows <- db.rows`, `position <- db.cursor`.

### Imager

`imaging::image`: `StartNew`, `Resume` and `StartOver` are the decisions at its
start (map loaded or new, image appended to or truncated), `Cancelled`, `SkipDone`,
`ReadChunk`, `WriteChunk`, `Checkpoint` one turn of its loop, `Finalize` what follows
it. A buffer is the set of its sectors that hold data, so a hash is that set and
zeros are the empty set; that is what sparse holes, bad sectors (read as zeros) and
stale bytes need to be told apart. Raw and zstd images are both modelled; a zstd
image is a sequence of frames and the map's frame index says which chunk is where.
`WriteFails` leaves any part of a chunk on disk. `SaveFails` is `ImageMap::save`
failing: the map is renamed into place, so the old one stays, and the loop ignores
the error as the code does. Files survive a kill; the page cache is not modelled.

`DoneVerifies` has one exception, which the code has too: when all that was read of a
chunk is zeros, some of it unreadable, a sparse image leaves a hole and with it
whatever a killed run had written there. Those bytes are the source's own (so
`DoneIsSource` holds), but not what the map's hash says.

### SessionHandle

One step of the main thread per user action: `Click` (the device is opened in a task),
`StartScan` and `StartFails`, `Pause`, `Stop`, `Resume`; `HandleDone` is the main queue
delivering an event. A run is a thread with its `stage` in the pipeline; the handle
holds only the thread spawned last (`current`). The carve is its effect on the
progress row; `CarveLastChunk` is the last look at the cancel flag, after which a
pause changes nothing. `Fails` is a stage that returns an error or panics, after
which the thread sends a Done. `told` are the runs whose carve has sent its Done, so
a failure after it (`late`) sends a second one.

### ResultStore

The result table through all the runs of one session. `Begin` chooses the options of a
run; `OpenVolume`, `SkipVolume`, `InsertEntries` are the quick pass (`run_quick`), a
transaction per batch; `InsertCarved`, `CarveEnds` the carve as a resumable scan;
`Label` is `label_carved`, `DeleteProposals` and `InsertProposal` the statements of
`replace_proposals`, `Merge` is `merge_carved_into_entries`. `Stop` ends a run between
any two transactions. Rows have deterministic ids (`Key`), and a second row with the
id of another is ignored, so of two clones with one first extent and one length the
first walked has the row.

### Readers

The parts that read a source are sequential programs over data nobody vouches for.
Each is a module of its own with the same six variables, so that one composition
can run them all: `pc` the phase, `disk` the source (never changed), `opts` the
request, `work` what the loop still has to do, `seen` what it remembers, `out` what
it has emitted. An action is one turn of the loop of the code: a directory, a
record of a table, a chunk of a sweep, a read. `Readers` has a seventh, `kind`, which
says which reader the behaviour is about; its properties are the conjunction of the
readers' own.

A **disk** is the structures on it, by the place they lie at, after the byte layout
is parsed: a superblock is a record with its fields, a directory block a sequence
of slots. What the code tells apart by damage (a checksum, a magic, a bad sector, a
field out of range) is a field. Beside them stands what the disk *means* for the
filesystem's own driver (`truth`: the place of every unit of a live file, or that it is in a hole;
`was`: those of a deleted one; `altered`: the units whose bytes are not what a driver returns for
them). The engines never look at those; properties compare with them.

- **FatVolume**, **ExfatVolume**, **IsoVolume**: a stack of directories; `WalkDir` reads one and
  scans its slots, `Return` is `walk_dir`'s early exit (depth, cap, been here). FAT has the
  fragments of long names, the first character inferred from siblings, the
  high word of a first cluster repaired, the two FATs, the bitmap; exFAT the sets of
  entries, its bitmap and the backup boot region.
- **NtfsVolume**: `ReadRecord` over the MFT's runs, `EmitRecord` with paths through parents,
  `ScanOrphan` over the volume for records outside, `MineName` of journal and index.
- **ExtVolume**: tree walk by inode, the journal's older inodes, `OrphanInode` over the inode table,
  `ScanNode` over free blocks. Backup superblocks in the order in which they are tried; extent trees and classic maps with
  holes, to the third level of pointers. A map is first unfolded to a list, in which a mark stands for each block of the map that
  is read; `Affordable` cuts the list where the budget of `MAX_MAP_NODES` reads ends, `FirstBlocks` at `MAX_FILE_BLOCKS`.
- **HfsVolume**: `WalkNode` along the chain of leaves, `EmitLive`, `SweepRecord` chunk by chunk with an
  overlap, which has to skip what the catalog has. A fork has the extents of its record (`InlineExtents`).
- **ApfsVolume**: the checkpoint ring, object maps by transaction, `WalkLive`, `WalkHistory`, `WalkSnapshot`,
  `OrphanScan`, all out of one budget of nodes; `DiffVolume` is `diff_from`.
- **PartitionTables**: `Tables` chooses between the GPT headers and the MBR, `Link` and `Break` follow the
  chain of extended records, `Windows` clamps. **LostVolumes**: `ScanGpt`, then `Sweep`, a step of
  the source at a time with an overlap; each hit is judged by its geometry.
- **Segments** is `map.rs`: a guest as segments, joined where they continue one another, and
  the cache of decoded blocks. **Containers** has the tables of VDI, sparse images, VHD, VHDX, qcow2,
  VMDK (also by descriptor), EWF, DMG and split images, and the order of their magics.
- **BlockStack**: a device, an image file, memory or a mapped image; over it injected faults, a
  window, the read-ahead cache. A read returns one token for each sector, which
  says where its bytes came from. `Unplug` comes between any two reads.
- **CarveEngine**: `Infer` finds the block size from the whole files at the beginning, `Step` is one
  chunk: hits of the automaton on the anchors, headers checked around them, the
  alignment and uniform gates, one verdict for each validator, the best of them, claims,
  text. Verdicts are given for each place (`disk.verdicts`). `ScanPipeline` has the same loop
  from the outside: its storage and its interruptions.
- **Recovery**: `Check` is the destination guard (the same disk, also behind a partition or a
  synthesized container); `Blocked`, `NotOpened` and `Open` what happens to one record, `Copy` and
  `Finish` its bytes in pieces and its verification, `WriteManifest` the end. `Preview` and `Extract` are
  `extract_to_temp`. If the disk is `faulty`, any write may fail.

## Runs: what each checks and what it shows

Every passing run visits all reachable states. State counts are in parentheses.

**scan_faults** (`ScanFaults.cfg`, 1,038,884). Two chunks of three offsets, four candidates:
a Full file with another inside it, a corrupted one that spans a third, one whose
start lies before its signature. Two interrupts (so the second SIGINT, which kills the
process, happens), one panic, one power failure, any number of resumes and fresh
starts. Channel and batch of two: the channel fills, a batch is left half full, and a
checkpoint finds results before and behind it. More chunks repeat the same
crossings. `CheckpointBacked`: no stored cursor, also none that a power failure may
bring back, has a result before it that is not stored. `ResultSetIdentical`: the rows of
a complete scan are those of one clean scan. `OneOpenClaim`: at most one claim is open,
so the cap of 64 loses none. `ResumeNeverRegresses`, `CompleteIsFinal`: what a resume and
a complete scan never do. `ImplementsResumableScan`.

**scan_live** (`ScanLive.cfg`, 316,301). Two candidates, channel and batch of one, a crash, a failing
statement, an unplug. `EveryRunEnds`: no thread waits for the other for good, on any path.
`EventuallyComplete`: a user who keeps resuming gets there.

**scan_straddle**, **scan_unplug** (violations). See [findings](#findings).

**imager_resume** (`ImagerResume.cfg`, 18,749). Three chunks of two sectors: data, zeros, both. A map
save every second chunk, so a run can die with a chunk written and not in the map, or
with one frame behind the index. One cancel, failed write and failed save, two kills,
every option on every run. `DoneIsSource` and `DoneVerifies` relate map and image at every
moment, `WholeVerifies` the final hash, `BadCounted` the count over the runs,
`ProgressKept` what a later run may not undo, `EventuallyImaged` that resuming gets there.
Three chunks are enough for a first, a middle and a last one around one save.

**imager_over**, **imager_unplug** (violations).

**session_runs** (`SessionRuns.cfg`, 22,315). One click on Scan, three runs (a scan, its resume, the
resume of that), one fault of each kind, a crash of the app with the session kept.
`OneWriter`: never two pipelines on one session. `PauseReachable`: while there is reading to do
the app shows a scan, with its pause button. `CompleteShown`, `MergedWhenIdle`: what is shown as
complete is complete on disk and merged. `CarveTold`: the app learns of the end of every
carve. Three runs are the least in which an event of one run can reach another that
resumed it. Deadlock is not checked: the user may stop clicking.
The limits are stated with the properties: two clicks on Scan while the device is
being opened start two pipelines (`MaxClicks = 1` excludes that), and a stage that fails
after the carve's Done may end a resumed scan's display (`PauseReachable` is claimed
only where no stage has).

**session_spins** (violation).

**result_runs** (`ResultRuns.cfg`, 103,958). Two volumes of four clusters, one with a bitmap; four files,
one fragmented and one a clone of it in a later batch; four carves (in a file's first
extent, in a later one, in free space, in used space without a file); two lost volumes;
one volume that does not open, one stop; any number of quick, deep and full runs
with and without `unallocated_only`. `IdenticalView`: after one full run of all volumes the results
are those of a single undisturbed run, whatever came before, and stay so.
`UnallocatedIsFree` and `FreeIsShown`: labels and hidden rows agree with the bitmaps.
`ProposalsNumbered`: `adopt <N>` never finds a lost volume under another's number, also in a
half-written list. `RowsKept`: no row is lost, renamed or shown again.

**result_hides** (violation).

**readers** (`Readers.cfg`, 368,952). All readers, on every source and request of the `MC` modules
(21,788 initial states): recovery 182,567 states, ext 57,280, FAT 56,074, HFS+ 34,560, exFAT 12,864,
carving 10,218, block stacks 7,522, containers 2,457, NTFS 1,932, APFS 1,427, ISO 1,068, lost
volumes 692, partition tables 291. Deadlock is not checked: a reader ends.

| Property | Shows |
|---|---|
| `Listed` | every live file is emitted exactly once, whatever loops, torn structures and deleted records there are |
| `Placed` | the extents of a live file are the places that the filesystem has for its data, in the file's order, without those of holes; of a map that is larger than the engine reads, its beginning. A file given at 90 % or more is all that a driver reads, but for the files of which an engine is sure and wrong (`Misread`; see [other differences](#other-differences-from-the-documentation)) |
| `Revived` | the extents of a deleted file are those it had, unless they are marked as assumed; of ext, those of one of the copies of its inode that are left (which one is not said: the journal's first is taken); what the volume still describes is found, on HFS+ unless it starts in the last bytes of a step of the sweep |
| `NoTwice` | a file met in the tree, a table, a journal, an older transaction and a sweep is emitted once |
| `Capped` | `max_entries` is a hard cap wherever the walk stands (HFS+ and APFS ignore it, see below) |
| `Opened` | a torn first superblock does not lose a volume of which a good copy is left; of checkpoints the newest intact one is taken |
| `VolumesFound` | one good copy of a partition table is enough, loops end, windows lie in the source; each superblock is judged once, and proposed at its volume's start, wherever the steps fall |
| `Carved` | every file that no gate refuses is found once, wherever the chunks and windows fall; nothing in a whole file and no second piece of a text is emitted |
| `GuestRead` | a guest is what its format describes or its sectors are bad; nothing stale, shifted or of another block is returned as good; no more decoded blocks are kept than may be |
| `SectorsRead` | through faults, window and cache a good sector is the one asked for, and only what fails is lost; no more chunks are kept than may be, and none twice |
| `Recovered` | what was chosen is copied into files of its own, as it was read or marked; what was there is untouched; the destination is never on the source's disk; a preview is the head of its file |
| `AlwaysShrinks` | each step decreases a rank, so no disk holds a reader for ever |

The bounds are chosen so that each boundary of the code lies inside the instance.
Volumes have a few clusters of two sectors, so that a chain can loop, be cut, be
reused and skip; the widths of FAT change at 3 and 5 clusters instead of 4085 and 65525,
and a first cluster has high words; sweeps move on by 16 units with 6 (HFS+) or 4
(lost volumes) beyond, and a magic or a stale record lies at every place around the edges (the record at each
of the 30 places of two steps where it fits); of an ext map 4 nodes are read and 6 data blocks kept, of an HFS+ fork
3 extents, and there are files with more of each; the journal has two usable copies of one inode; node and tree
budgets are above what the intact part needs and below what loops would
take; containers have blocks of two sectors and a cache of two decoded blocks;
the block cache has two chunks of two sectors; the carve has chunks of 8 with
headers of up to 6 before their anchor, two claims, and whole files enough to infer
a block size; a copy moves 4 units a time over a bad sector in the middle; two suffixes
are tried for a name and up to three names collide. Larger volumes repeat the same
neighbourhoods: no rule of the code looks at more than a record and its neighbours,
a chunk and its overlap, or a name and the names before it.

## Fairness

- `ScanPipeline`: weak fairness of the carve thread and of the writer. Both are threads
  the operating system schedules, and neither waits for the user. `ResumingSpec` adds a
  user who resumes whenever no run is going; `EventuallyComplete` is about that user.
- `Imager`: weak fairness of the imaging thread's steps and, for `EventuallyImaged`, of a user
  who resumes an image that is not complete.
- `SessionHandle`: weak fairness of the pipeline's threads and of the main queue. Nothing
  is assumed of the user, nor that a stage fails.
- `Readers`: none. That a walk ends is `AlwaysShrinks`, a safety property: each step of an engine lowers
  its rank, a list of numbers of which the first that changes goes down from more than 0 (`Falls`).

Faults are never fair, and their number is bounded (`MaxFaults`): liveness is about what
happens once they stop. Safety properties hold for any bound, which the proofs show.

## Findings

Each is a run in which TLC finds the behaviour; the quotes are in `PROJECT.json`.

- **scan_straddle.** A Full file suppresses matches inside it by a *claim* that is not
  part of the checkpoint. If the file reaches into the next chunk and the scan is
  resumed there, the claim is gone and what is inside is reported: the result set is
  not the one of an uninterrupted scan, which `scan.rs` promises. `scan_faults` shows the other
  side: where Full files end in their own chunk the sets agree.
- **scan_unplug.** The writer polls `vanished` while the carve thread goes on: a chunk read as
  zeros is reported as done, its cursor is in the last checkpoint, and the resumed
  scan skips it. The README promises that an unplug loses at most one checkpoint interval.
- **imager_over.** An image that is started over is truncated, and its old map stays until
  the first save. Killed before it, the next `--resume` trusts the old map.
- **imager_unplug.** The imager never asks whether its source vanished: every sector after an
  unplug is recorded as bad and its chunk as done, and no resume reads it again.
- **session_spins.** A carve that finds its scan complete, and a quick scan, send no Done, so
  the app shows a scan for ever. One way there: pause after the last chunk, then resume.
- **result_hides.** An offset outside a bitmap's volume counts as allocated, and one bitmap
  is enough: with two volumes `--unallocated-only` hides every carved row.

## Other differences from the documentation

Met while modelling, each at the line named. Where a model has the code's behaviour, its
properties except the case by name (in the `Gated`, `Due`, `Kept` and like definitions).

- *Filesystems.* `Entry::id` is called unique within one walk (`reclaim-fs-core/src/lib.rs:132`); those of
  two empty FAT files in two directories may be equal. HFS+ and APFS do not look at `max_entries`, the "hard cap" (`:238`). The FAT bitmap starts two
  clusters before the data, and is shifted if there is no room for them (`fs-fat/src/lib.rs:396`). A FAT volume is
  not opened from its backup boot sector, which the module's head promises (`:4`). ext files in
  directories without file types are not listed. NTFS paths do not check the parent's
  sequence number. The APFS orphan scan reports live files of *other* volumes as orphaned.
- *Files that are given at 90 % or more and are not what a driver reads* (`reclaim-fs-core/src/lib.rs:156` calls the confidence
  "how sure the engine is this record is real and its extents are right"). Each is on a disk of the run, and named in its
  engine's `Misread`; without the name `Placed` is violated.
  - ext joins blocks by where they lie; where they belong in the file only orders them (`fs-ext/src/inode.rs:226`). Holes are left out and what
    follows moves up; blocks that were allocated and never written are taken for data (`:131`); what lies behind
    4096 map nodes or 8 Mi blocks is left out (`:26`, `:30`).
  - APFS leaves holes out as well (`fs-apfs/src/lib.rs:727`), though "recovering exactly `size` bytes matches the original" (`:737`).
  - NTFS gives data in a record at "its absolute on-disk location" (`fs-ntfs/src/lib.rs:404`). The last two bytes of a sector hold the
    record's update sequence number there; the file's are put back in the engine's own copy only (`record.rs:285`).
  - HFS+ reads the eight extents in a file's record (`fs-hfs/src/record.rs:71`) and not the overflow file, which the plan lists
    (`docs/plan/04-filesystem-support-matrix.md:27`); of a live file in more pieces the rest is left out.
- *What is not found.* The HFS+ sweep has an overlap since "a record can straddle a chunk boundary" (`fs-hfs/src/lib.rs:423`),
  but tests a place only if eight bytes follow it within the step: a stale record that starts in the last
  seven bytes of a MiB is missed (`:434`; `OnSeam` excepts it in `Revived`). Of a deleted ext file the first usable
  copy of its inode in the journal is taken, which may be older than the last or of an earlier file with
  its number (`fs-ext/src/journal.rs:211`).
- *On no disk of the run.* ext data in the inode itself is taken for a map, and encrypted files as they are
  stored. The HFS+ catalog and allocation file are also cut after eight extents, and a hard link is given without its
  data. Extents of an NTFS file in further records (an attribute list) are not followed; it is read past its
  initialized length, as exFAT's files are. The extents of an APFS file whose inode keeps them under another number
  (`private_id`) are not found. An ISO file in several extents is listed once for each, an interleaved one is read as one run.
- *Partitions and lost volumes.* With a hybrid MBR the extended chains are not followed; with
  only an extended partition in the MBR its logical ones are lost. A GPT's proposals are
  not deduplicated (`reclaim-structs/src/gpt.rs`) and may exceed the cap. Backup superblocks of ext, FAT
  and NTFS are proposed at a wrong start.
- *Containers and sources.* An EWF table that cannot be read, an unknown VMDK extent and a
  split part that is no multiple of a sector shift what follows. A DMG chunk of unknown
  kind reads as good zeros. One bad sector makes the whole part of a request in its segment bad.
  The read-ahead cache turns unread sectors into good zeros (`cache.rs:93`); no wrapper forwards `vanished`.
- *Carving.* The gate that is inferred from the first 128 MiB and twelve files refuses
  later files of another alignment. An inferred distance above 1 MiB is cut, and then
  refuses the very headers it came from. The uniform gate refuses an ISO image whose system
  area is blank. A short text is never offered, as the sample is filled with what follows it.
- *Recovery.* A read past the end of the source is not flagged (`reclaim-carve/src/reader.rs:63`), so such a result is
  called full. A recovered file named `manifest.json` is replaced by the manifest, under every policy; a
  folder of that name fails the call after all files are written. Nobody checks the free
  space that `recover.rs:12` leaves to the caller.
- *Sessions.* `create` reuses a directory that belongs to another source (`lib.rs:120`).

## Proofs

All theorems are proved by TLAPS for every value of the constants that satisfies the
module's named assumption, or what the theorem itself assumes. `NextCases` lemmas split a step
into the actions; for each invariant there is one lemma that a step preserves it, with a step
per action.

| Component | Proved of every instance | Assumed besides the types of the constants |
|---|---|---|
| `ScanPipeline` | `TypeOK`, `OneOpenClaim`, `CompleteIsFinal`, `ResumeNeverRegresses`, each step is one of `ResumableScan` | |
| | `CheckpointBacked`, `CompleteHoldsEverything` | no unplug |
| | `ResultSetIdentical` | no unplug; no run resumes where a Full file reaches in from the chunk before |
| `Imager` | all its safety and action properties | |
| `SessionHandle` | `OneWriter`, `PauseReachable`, `CompleteShown`, `MergedWhenIdle` | one click on Scan |
| `ResultStore` | all its safety and action properties | `FreeIsShown`: one bitmap |
| `Recovery` | all seven conjuncts of `Recovered` | four of them: `JobsOk` |
| `BlockStack` | `Placed`, `Listed`, `Capped`, hence `SectorsRead` | `StacksOk` |
| exFAT, ext, HFS+, APFS | `Opened` | copies are where the format puts them (`DisksOk`) |
| FAT, exFAT, NTFS, ext, ISO | `Capped` | what is parsed are lists with numbers (`DisksOk`) |
| all readers | each step lowers the rank, `AlwaysShrinks` | the same, and a disk has finitely many records (`DisksOk`, `RequestsOk`) |

**ScanPipelineProofs** (from `ScanAssumption`).
`TypeInvariant` needs to know which components of a run are idle together (`TypedShape`).
`CheckpointBackedAlways` is the heart. `CheckpointBacked` is not inductive: that a cursor may be
put depends on where the results before it are. `Flow` follows them. For the carve thread: what is due before
its position, apart from the candidates still to do, is in the channel, in `pending` or
in the database. For each progress message in the channel: what is due before its cursor
is ahead of it in the channel, in `pending` or stored. For the writer's `cur`: what is due before it
is in `pending` or stored, and stored alone once a checkpoint has flushed. `IInv` is `Flow` with the
types and `CheckpointBacked`. `CompleteHoldsEverythingAlways` follows. Both assume
`MaxFaults["unplug"] = 0`; `scan_unplug` shows why they must.
`ResultSetIdenticalUnstraddled` compares what two threads, a channel and any number of runs have made of
the database with a clean scan, `CleanUpTo`, a recursive function over the offsets. That it is the
function its equation says (`CleanUpToExists`, `CleanUpToValue`) is well-founded induction over the
offsets. The invariant (`CleanInv`) says that the candidates still to do are the rest of the chunk
(`TodoIsRest`), that the run's claims suppress what the clean scan's would from here on (`ClaimsAgree`), and
that nothing but results of the clean scan is on its way or stored (`OnlyClean`); `CheckpointBacked` has the
other half. Claims are not part of a checkpoint, so `ClaimsAgree` holds at a resume only if no Full file that began
before the cursor suppresses a candidate behind it: `ResumesUnstraddled` asks that of each run that starts, and
`scan_straddle` shows why it must. `ResultSetIdenticalAlways` is the case of a source on which
no chunk is reached into. `ResumeNeverRegressesAlways` follows a cursor through the channel as
`Flow` does, but compares it with the stored one (`Rising`); a power failure is excepted by the property itself.
`OneOpenClaimAlways` needs only that candidates are visited in order and claims
lie behind them; it holds for any file ranges. `CompleteIsFinalAlways` needs that a run exists only while the
scan is not complete (`OpenRun`). `StoreImplements` is the refinement: the initial states map, and each
step is a step of `ResumableScan` or a stutter; a power failure may go back to any
state in `stale`, which are all older (`StaleOlder`).

**SessionHandleProofs** (from `HandleAssumption`; all but the types assume `MaxClicks <= 1`).
The five invariants are proved together: `OneWriter` needs that only the current run is live and
that a start waits only while no run does (`OnlyCurrent`), that runs not yet spawned are untouched (`Fresh`); what is shown
needs that a complete row stays complete (`RowComplete`), that at most one Done is under way and whose it is
(`OneDone`), and that the last stage of a complete full run is a merge (`LastMerged`).

**ResultStoreProofs** (from `StoreAssumption`).
`UnallocatedIsFreeAlways`: what one bitmap calls free lies in its volume, hence in no
other (`FreeOfOne`). `FreeIsShownAlways` assumes that at most one volume has a bitmap; `result_hides` shows
why. `ProposalsNumberedAlways` adds that a list being written holds the volumes before the next.
`IdenticalViewAlways` is about every history of runs. Its invariant: named rows are first files of their id
(`OnlyFirst`); of a volume opened in this run every file has a row, its own or that of its id, but for those
still to store (`Walked`); a run goes past the carve only with a complete one (`CarveDone`); unless labels hid some,
hidden rows are twins of named ones (`OnlyTwins`). That a batch stores *some* row for each of its ids needs
the least index with that id (`LeastOf`), which is where well-foundedness comes in.

**ImagerProofs** (from `ImagerAssumption`; about `Spec`, runs that start or resume an image; `imager_over` and
`imager_unplug` show what starting over and unplugging break). All but the types say something about the saved
map only, which no run changes between two saves, so the invariant says the same of the map a run *would* save
(`RunMap`): it is as sound as the one on disk, but for the chunk that was read and not yet
written (`RunSound`, `AtChunk`). `Behind` keeps the two together: the map on disk is an earlier state of the
run's, with no more frames, and without the chunk under way; so what is written next, or
is left behind by a write that fails, lies in another chunk's sectors or past the frames that map knows
(`SparedSound`). A raw image holds no data but the source's (`FromSource`), which is why the stale bytes in a
sparse hole are bad sectors and not wrong ones. That sectors of two chunks are apart (`ChunksApart`) is the only
arithmetic.

**RecoveryProofs** (any source, records, destination, piece size and number of names tried, any failures).
`KeptAlways`, `VerifiedAlways` and `ApartAlways` assume nothing and are proved together, since each
needs the others' facts. The point is where a file under way may lie (`New`): under Rename and Skip a
collision is resolved before the file is created, so its path is none of the
destination's (but for an earlier manifest) and none that is listed; hence a write
changes neither. `Listed` adds that listed files stay, `Sound` that what verified has the
bytes that were hashed until the manifest is written, which is the one write
that asks for no free name. Under Overwrite nothing of this is claimed: that policy replaces
files, also those of the same run.
The other four assume `JobsOk`, what the model's jobs mean: ids are unique (they are the table's primary key);
`truth` lists the positions of a record's extents in their order (it is defined by them; the code has no such
list, and so no say in it); a name without a separator is not given one when it is cleaned, and no file of
the destination is called `..`; `media` are the physical disks that the source and the destination are on,
of which the guard sees only names and stores. `ToldAlways` says how far a copy has come: what was
written is the first part of the truth, what is left to do describes the rest (`Laid`), which a piece or a bad sector
divides anywhere. `AccountedAlways` keeps the records chosen, listed, skipped and still to do apart and complete,
`InsideAlways` needs that suffixes and cleaned names stay proper, `PreviewedAlways` is `Told` for
extents cut at the preview's length. `Readers` assumes `JobsOk`, so TLC evaluates it for every job of the run.

**BlockStackProofs** (from `StacksOk`: a chunk of the cache is whole sectors and one is kept, both of which
`with_capacity` sees to; a compressed image's frames lie in it).
Each layer is a function from a read to sectors, and has a lemma that its result is *sound*: each sector is
bad, the one asked for, or a hole where an image's map has nothing; and it is the one asked for if nothing
fails it (`Readable`) and the device is there. The base sources (`BaseReads`) have it by their loops, the
injected faults (`FaultyReads`) and the window (`ViewReads`) keep it.
The cache answers from chunks that were read at other offsets, in earlier reads, some before the
device vanished. The invariant (`StackInv`, `ChunkOk`) says of each sector of each chunk kept that it is sound at its own place. A
read uses the chunks it needs one after the other, each use moving one up or fetching it: a fold whose
turns keep `ChunksOk`, and after which every chunk needed is there, so that each sector of the answer comes from
the chunk it lies in (`FromChunksOk`). Then the cache is cut to its capacity (`EvictOk`). No chunk is
kept twice, since one is fetched only if it is not there.

**FoldInduction** (any operator, any sequence). The code's loops over what was parsed are folds in the
model, and a fold has as many turns as the sequence is long. `FoldSteps` says that a fold is the one turn by
turn, `FoldKeeps` that what each turn keeps holds at the end. The library states induction with an operator as a
parameter, which the provers cannot instantiate; here it is a CONSTANT of the module, so an
`INSTANCE ... WITH` names the operator, and the instance's theorems are first-order facts.

**ReadersProofs** (from the assumptions of `Readers`). `SectorsReadAlways` and `RecoveredAlways` are the theorems above for
the stacks and jobs of `Readers`. `OpenedAlways` is about choosing among copies of a superblock: that an intact copy
at its place is found by the search, with the search's order, and is the one used. It assumes of the volumes
(`DisksOk` of each) what the format guarantees and the engine cannot check: an intact backup lies where its block size and
group (ext) or sector size (exFAT) put it, an exFAT volume has no boot sector where volumes of other sector sizes have
theirs, APFS superblocks have transaction numbers.
`CappedAlways`: whatever the volume holds, no walk of five engines emits more than `max_entries`. Every place that emits
asks `Full` first, one record at a time; the proof is that indeed each record is a turn that asks. A directory is
a fold over its records, so for each engine what the walk goes through must be shown to be a list, from
the cluster chain (FAT, exFAT), the extent tree or the classic map, unfolded level by level, cut at its budget, sorted, joined and
cut to the size (ext), down to the records: `FlattenIsList` says that lists joined are a list, `ExtFlattens` that no item is made up.
FAT, exFAT, NTFS and ISO need nothing more of the volume than that the limit is a number
(`RequestAssumption`) and that slots are lists; ext needs that blocks have a size and that nodes, maps and directory blocks are lists
whose lengths are numbers (`BlocksOk`): they are integers of fixed width in slices of bytes.

`ShrinksAlways`: no volume, image or source makes a reader go on for ever. Each reader has a rank, a list of
numbers: the phases still to come, then what is left in the phase. What an action does to the list is one lemma for each
reader (`FatFalls` to `CarveFalls`); that the numbers are numbers is its invariant
(`WalksHold` has all of them, together with those of `Capped`). Each place has its own reason. A walk of FAT, exFAT or ISO may
be led in a circle, and its stack grows at each directory; but a directory is pushed only if its start was not seen
before, and the starts that the disk names are finitely many, so the rank begins with how many of
them are unseen (`Starts`, `FewerLeft`). Ext has the same with its inodes. The leaf
chain of HFS+ ends at a leaf read before or at the limit of nodes; APFS goes through its volumes, and in each through a
list of checkpoints and one of snapshots. The NTFS reading of records ends at `max_entries` and some spare, its sweep advances by the record's
size, which `Open` has checked to be more than 0. A chain of extended records has a limit
(`MaxChain`), a sweep for lost volumes and a carving advance by a chunk. The stack of block sources and a copy have
their own (`ShrinksHolds` of `BlockStackProofs` and `RecoveryProofs`).
What it assumes of a disk (`FatAssumption` to `CarveAssumption`, which TLC evaluates for each source of the run) is
that what is parsed are lists, lengths and limits are numbers, and a disk has finitely many records: it is finite. Nothing is
assumed of where its structures point.

How the models are written owes something to the proofs. No module but the abstract ones and the wrong variants depends on it, and
none declares a RECURSIVE operator: loops are folds, searches are CHOOSE among the places that qualify, and
`Only`, `NewestFirst` and `InOrder` say what `SelectSeq` and `SortSeq` compute, which `tlapm` does not expand. `Lists` has the few
operators of `SequencesExt` that the readers use: that module extends `Bags` and through it the prover's own
definitions, and an obligation of `ReadersProofs` has one copy of them for each of thirteen
instances, which made the proofs more than twice as slow.

## What is only model-checked

- Liveness (`EveryRunEnds`, `EventuallyComplete`, `EventuallyImaged`, `CarveTold`): the prover has no
  support for fairness and ENABLED.
- `Listed`, `Placed`, `Revived` of the filesystem engines. They compare a walk with `truth`, which is not computed from
  the disk but given with it. To prove them one would have to say of *every* volume when `truth` is what
  its structures mean, that is, write the driver of each filesystem as a predicate; TLC needs it for the volumes
  of the instance only.
- `VolumesFound`, `Carved`: sweeps. Their windows overlap so that a match is in exactly one of them whole, but what is proposed from
  the matches is sorted and thinned out by `SortSeq` and `SelectSeq`. `Carved` also has the gates that are inferred, which choose among folds of remainders.
- `GuestRead`: seven formats of container, each with its own table, and a cache of decoded blocks below them.
- `NoTwice` of the engines. That `seen` keeps a file from being emitted twice within one pass is simple; across
  passes it is the disk that must say so: that an MFT's extents are disjoint, that a catalog names each key once, that
  checkpoints of one file agree on its object. What follows from it goes through `SortSeq` and `SelectSeq`, whose results are
  recursive functions that are not expanded.
- That the modules fit together: each takes the others by their effect. `CarveEngine` and
  `ScanPipeline` model one loop, from inside and outside; `LostVolumes` yields what `ResultStore` stores;
  `BlockStack` the reads of all the others.

## What is not modelled

- The byte layout of structures, character sets, times; the validators of file formats and the
  codecs of containers: pure functions of bytes, constants here.
- Of the engines: the space manager's bitmap and the recovery points of APFS (reports);
  the mounted pass (`run_mounted`), which reads through the operating system; the choice of
  an engine by the best probe. Apple partition maps and the detection of LVM, RAID and
  encrypted containers only report.
- Session directories: create, open and reuse are three sequential calls around one comparison of
  ids. What goes wrong there is a rule the code lacks, not an order of steps (see below the
  hazards in `PROJECT.json`).
- The hash of result ids, the event log, counts, rates, scores, texts and queries.
- The page cache under the imager: what a *power failure* does to an image and its map.
- An image file deleted under its map; `wait` on the handle; two threads calling one
  handle; a second click on Scan; two volumes with files without extents of one path and
  length (their ids are equal, `StoreAssumption` excludes them).
- The command line, the app's views, the privileged helper, disk enumeration, image
  decoding, reports: arguments, I/O through the operating system and formatting.

## Plan

1. *(done)* `ResumableScan`, `ScanPipeline` and proofs; `Imager`; `SessionHandle` and proofs;
   `ResultStore` and proofs.
2. *(done)* `Recovery` and proofs; `BlockStack`; `Containers`; `PartitionTables`; `LostVolumes`; the seven
   filesystem engines; `CarveEngine`; their composition `Readers`.
3. *(done)* Proofs of `Imager`; the last properties of `ScanPipeline` and `Recovery`; `BlockStack`; of the
   engines `Opened` and `Capped`.
4. *(done)* `AlwaysShrinks` of all readers.
5. `NoTwice` of the sweep for lost volumes and of the carve engine, whose hits are in order, then of the engines, each
   with a predicate for what its disk must not say twice. `Capped` of the container images.
   The check of `ReadersProofs` takes a quarter of an hour, as every step is checked among thirteen instances; what
   concerns one engine is better proved beside that engine, and only concluded there.
6. The composition of `Recovery` with `BlockStack`: what a copy through a window and a cache writes
   when the device is unplugged in the middle.
7. Power failures in `Imager`; `OneWriter` with two clicks as a run of its own.
