----------------------------- MODULE FatVolume -----------------------------
(* The FAT12/16/32 engine (fs-fat).  A disk is its boot sector, a FAT and the *)
(* contents of the clusters that hold directories; a slot of a directory is   *)
(* the end mark, a piece of a long name, a volume label or a record of a file *)
(* or a subdirectory.  Sectors are the unit of offsets and sizes.             *)
EXTENDS FsCore

CONSTANTS
    Disks,         \* the volumes the engine is given
    Requests,      \* the options of a walk
    Fat16From,     \* clusters from which the FAT is 16 bits wide (4085)
    Fat32From,     \* ... and 32 bits wide (65525)
    LoSpan,        \* cluster numbers that fit the low word (2^16)
    HiSpan,        \* high words the repair tries (256)
    MaxDirClusters,\* clusters read of one directory (8 MiB)
    MaxDepth       \* depth of the walk (64)

VARIABLES
    pc,      \* probe, open, walk, done or refused
    disk,
    opts,
    work,    \* directories still to be walked, the next one first
    seen,    \* first clusters of the directories it entered
    out      \* what it emitted, in order

vars == <<pc, disk, opts, work, seen, out>>

-----------------------------------------------------------------------------
(* Geometry, from the boot sector's parameters (BPB).                      *)
ValidBpb(b) ==
    /\ b.sector > 0 /\ b.perCluster > 0 /\ b.reserved > 0
    /\ b.fats \in 1..2 /\ b.total > 0 /\ b.fatSize > 0

FirstData(b) == b.reserved + b.fats * b.fatSize + b.rootSectors

ClusterCount(b) == Monus(b.total, FirstData(b)) \div b.perCluster

Kind(b) == IF ClusterCount(b) < Fat16From THEN "fat12"
           ELSE IF ClusterCount(b) < Fat32From THEN "fat16" ELSE "fat32"

\* A boot sector: signed, or torn; with a foreign name (NTFS, EXFAT) or not.
ProbeOk(d) ==
    /\ d.signed /\ ValidBpb(d.bpb) /\ ~d.foreign
    /\ ClusterCount(d.bpb) # 0

\* open: the primary BPB, else the one at the backup sector the primary names.
OpenedBpb(d) == IF d.signed /\ ValidBpb(d.bpb) THEN d.bpb ELSE d.backup

Bpb == OpenedBpb(disk)
Block == Bpb.perCluster
Count == ClusterCount(Bpb)
InHeap(c) == 2 <= c /\ c < Count + 2
OffsetOf(c) == FirstData(Bpb) + (c - 2) * Block

-----------------------------------------------------------------------------
(* The FAT.  An end mark and a bad mark are numbers outside the heap.      *)
FatEntry(c) == IF c \in DOMAIN disk.fat THEN disk.fat[c] ELSE 0

Follow(c, cap) == FollowChain(FatEntry, InHeap, c, cap)

Chain(c, max) == Follow(c, IF max = 0 THEN 1 ELSE Least(max, Count + 2))

\* fat_bitmap: bit c is cluster c, and bit 0 lies two clusters before the heap.
FatBitmap ==
    LET n == Least(Count, Monus(disk.entries, 2))
    IN  IF n = 0 THEN NoBitmap
        ELSE [block |-> Block, base |-> Monus(OffsetOf(2), 2 * Block),
              count |-> n + 2, have |-> 8 * CeilDiv(n + 2, 8),
              bits |-> {c \in 2 .. n + 1 : FatEntry(c) # 0}]

-----------------------------------------------------------------------------
(* Directories.                                                            *)
SlotsOn(d) == ToSet(d.root) \cup UNION {ToSet(d.slots[c]) : c \in DOMAIN d.slots}

\* Directories are lists, there is only so much on a disk, and the parameters are
\* numbers of the boot sector.
DisksOk ==
    /\ MaxDirClusters \in Nat
    /\ \A d \in Disks :
        /\ IsSeq(d.root) /\ (\A c \in DOMAIN d.slots : IsSeq(d.slots[c])) /\ IsFiniteSet(SlotsOn(d))
        /\ {d.bpb.perCluster, d.bpb.reserved, d.bpb.fats, d.bpb.fatSize, d.bpb.rootSectors, d.bpb.total}
             \subseteq Nat

Zeroed == <<[k |-> "end"]>>

\* A cluster that cannot be read is zeros, the end mark.
SlotsOf(c) == IF c \in disk.bad \/ c \notin DOMAIN disk.slots THEN Zeroed ELSE disk.slots[c]

ReadDirectory(dir) ==
    LET all == IF dir.fixed THEN disk.root
               ELSE FlattenSeq([i \in DOMAIN Chain(dir.first, MaxDirClusters)
                                  |-> SlotsOf(Chain(dir.first, MaxDirClusters)[i])])
    IN  SubSeq(all, 1, SelectInSeq(all \o Zeroed, LAMBDA s : s.k = "end") - 1)

\* The short names that a deleted sibling's first character is inferred from.
SfnNames(slots) == SelectSeq(slots, LAMBDA s : s.k # "lfn" /\ ~s.deleted /\ s.char # ".")

\* The most frequent first character among those with the same next three;
\* among equals, the one that appears first the latest.
InferFirstChar(key, names) ==
    LET like == SelectSeq(names, LAMBDA s : s.key = key /\ s.char # " ")
        Times(ch) == Cardinality({i \in DOMAIN like : like[i].char = ch})
        First(ch) == SelectInSeq(like, LAMBDA s : s.char = ch)
        chars == {like[i].char : i \in DOMAIN like}
        most == {ch \in chars : \A o \in chars : Times(o) <= Times(ch)}
    IN  IF chars = {} THEN "_"
        ELSE CHOOSE ch \in most : \A o \in most : First(o) <= First(ch)

ShortName(s, names) ==
    <<IF s.deleted THEN InferFirstChar(s.key, names) ELSE s.char, s.key>>

\* The pieces of a long name lie last first.
NameOf(s, pieces, names) == IF pieces = <<>> THEN ShortName(s, names) ELSE Reverse(pieces)

NameConf(s, pieces, name) ==
    IF pieces # <<>> THEN 100 ELSE IF s.deleted /\ name[1] = "_" THEN 70 ELSE 90

-----------------------------------------------------------------------------
(* Extents.                                                                *)
\* A live file has its chain; else it is taken to lie in one piece, which is
\* an assumption if it has more than one cluster.
ResolveExtents(first, size, deleted) ==
    LET need == CeilDiv(size, Block)
        chain == Chain(first, need + 2)
        ext == Coalesce([i \in DOMAIN chain |-> OffsetOf(chain[i])], Block, size)
    IN  IF size = 0 \/ first < 2 THEN [ext |-> <<>>, assumed |-> FALSE]
        ELSE IF ~deleted /\ ext # <<>> THEN [ext |-> ext, assumed |-> FALSE]
        ELSE [ext |-> IF InHeap(first)
                      THEN OnePiece(OffsetOf(first), Block, size, Bpb.total) ELSE <<>>,
              assumed |-> need > 1]

Head16(c) == IF c \in DOMAIN disk.head THEN disk.head[c] ELSE 0

\* Windows zeroes the high word of a deleted file's first cluster on FAT32: the
\* free cluster with the fullest head is taken, if the head of the low one is empty.
RepairFirst(hi, lo) ==
    LET first == hi * LoSpan + lo
        better == {k \in 1 .. HiSpan - 1 :
                      /\ lo + k * LoSpan < Count + 2
                      /\ FatEntry(lo + k * LoSpan) = 0
                      /\ InHeap(lo + k * LoSpan) /\ Head16(lo + k * LoSpan) > 0}
        fullest == {k \in better : \A j \in better :
                      Head16(lo + j * LoSpan) <= Head16(lo + k * LoSpan)}
        keep == \/ Kind(Bpb) # "fat32" \/ hi # 0 \/ lo = 0 \/ Count < LoSpan
                \/ InHeap(first) /\ Head16(first) > 0
    IN  IF keep \/ better = {} THEN first
        ELSE lo + LoSpan * (CHOOSE k \in fullest : \A j \in fullest : k <= j)

-----------------------------------------------------------------------------
(* The walk of one directory.                                              *)
FirstOf(s) == IF s.deleted THEN RepairFirst(s.hi, s.lo) ELSE s.hi * LoSpan + s.lo

EntryOf(s, at, dir, name, conf) ==
    LET first == FirstOf(s)
        res == IF s.dir THEN [ext |-> <<>>, assumed |-> FALSE]
               ELSE ResolveExtents(first, s.size, s.deleted)
        base == IF s.dir THEN (conf * 9) \div 10
                ELSE IF disk.fatsMatch THEN conf ELSE (conf * 9) \div 10
    IN  [id |-> <<first, at>>, dirAt |-> <<dir.first, at>>, path |-> Append(dir.path, name),
         dir |-> s.dir, state |-> IF s.deleted THEN "deleted" ELSE "live",
         size |-> IF s.dir THEN 0 ELSE s.size, ext |-> res.ext, assumed |-> res.assumed,
         alloc |-> /\ ~s.dir /\ FatBitmap # NoBitmap
                   /\ OffsetAllocated(FatBitmap, IF res.ext = <<>> THEN 0 ELSE res.ext[1][1]),
         conf |-> IF res.assumed THEN (base * 8) \div 10 ELSE base]

\* One slot, after those before it: pieces are the long name so far.  A live
\* subdirectory is walked after this directory.
Slot(acc, s, at, dir, names) ==
    LET name == NameOf(s, acc.pieces, names)
        first == FirstOf(s)
    IN  IF Full(opts, acc.out) THEN acc
        ELSE IF s.k = "lfn" THEN [acc EXCEPT !.pieces = Append(@, s.char)]
        ELSE IF s.k = "label" \/ name[1] = "." THEN [acc EXCEPT !.pieces = <<>>]
        ELSE [pieces |-> <<>>,
              out |-> IF Wanted(opts, s.deleted)
                      THEN Append(acc.out, EntryOf(s, at, dir, name, NameConf(s, acc.pieces, name)))
                      ELSE acc.out,
              subs |-> IF s.dir /\ ~s.deleted /\ first >= 2
                       THEN Append(acc.subs, [first |-> first, fixed |-> FALSE, depth |-> dir.depth + 1,
                                              path |-> Append(dir.path, name)])
                       ELSE acc.subs]

Scan(dir) ==
    LET slots == ReadDirectory(dir)
        names == SfnNames(slots)
    IN  FoldLeftDomain(LAMBDA acc, i : Slot(acc, slots[i], i, dir, names),
                       [pieces |-> <<>>, out |-> out, subs |-> <<>>], slots)

\* Wrong variant: a directory may be entered again.
SkipsDeep(dir) == dir.depth > MaxDepth \/ Full(opts, out)

\* walk_dir returns at once: too deep, enough emitted, or been here before.
Skips(dir) == \/ dir.depth > MaxDepth \/ Full(opts, out)
              \/ ~dir.fixed /\ dir.first \in seen

-----------------------------------------------------------------------------
Init ==
    /\ pc = "probe" /\ disk \in Disks /\ opts \in Requests
    /\ work = <<>> /\ seen = {} /\ out = <<>>

Probe ==
    /\ pc = "probe"
    /\ pc' = IF ProbeOk(disk) THEN "open" ELSE "refused"
    /\ UNCHANGED <<disk, opts, work, seen, out>>

RootDir ==
    IF Kind(Bpb) = "fat32"
    THEN [first |-> Bpb.rootCluster, fixed |-> FALSE, depth |-> 0, path |-> <<>>]
    ELSE [first |-> 0, fixed |-> TRUE, depth |-> 0, path |-> <<>>]

Open ==
    /\ pc = "open" /\ pc' = "walk" /\ work' = <<RootDir>>
    /\ UNCHANGED <<disk, opts, seen, out>>

Return ==
    /\ pc = "walk" /\ work # <<>> /\ Skips(Head(work))
    /\ work' = Tail(work)
    /\ UNCHANGED <<pc, disk, opts, seen, out>>

WalkDir ==
    /\ pc = "walk" /\ work # <<>> /\ ~Skips(Head(work))
    /\ \E scan \in {Scan(Head(work))} :
        /\ seen' = IF Head(work).fixed THEN seen ELSE seen \cup {Head(work).first}
        /\ out' = scan.out
        /\ work' = scan.subs \o Tail(work)
    /\ UNCHANGED <<pc, disk, opts>>

Finish ==
    /\ pc = "walk" /\ work = <<>> /\ pc' = "done"
    /\ UNCHANGED <<disk, opts, work, seen, out>>

Next == Probe \/ Open \/ Return \/ WalkDir \/ Finish
Spec == Init /\ [][Next]_vars

-----------------------------------------------------------------------------
(* What the walk promises.                                                 *)
DriverClusters(e) == DriverChain(FatEntry, e.id[1], CeilDiv(e.size, Block))

\* Directories that live records lead to.
IsLive(s) == s.k = "rec" /\ ~s.deleted /\ s.char # "."
LiveSubs(dir) ==
    {[dir EXCEPT !.fixed = FALSE, !.first = FirstOf(s)] :
        s \in {t \in ToSet(ReadDirectory(dir)) : IsLive(t) /\ t.dir /\ FirstOf(t) >= 2}}
\* A directory starts at a cluster, so that no way to one is longer than the heap.
Reach(dirs) ==
    Repeat(LAMBDA ds : ds \cup UNION {LiveSubs(d) : d \in ds}, dirs, Count + 1)

\* Every live record of every directory is emitted once, whatever the loops.
Listed ==
    pc = "done" /\ opts.live /\ ~Full(opts, out) =>
        \A d \in Reach({RootDir}) : \A i \in DOMAIN ReadDirectory(d) :
            IsLive(ReadDirectory(d)[i]) => Once(LAMBDA e : e.dirAt = <<d.first, i>>, out)

\* A live file's extents are the bytes the driver reads, in order.
Placed ==
    \A n \in DOMAIN out : LET e == out[n] IN
        e.state = "live" /\ ~e.dir /\ e.size > 0
        /\ ToSet(DriverClusters(e)) \subseteq 2 .. Count + 1 /\ Distinct(DriverClusters(e)) =>
            ~e.assumed /\ UnitsOf(e.ext) = UnitsIn(DriverClusters(e), OffsetOf, Block, e.size)

\* A deleted file lies where it lay, or is marked as an assumption; `was' is
\* the clusters it had, and its first cluster number is still in the record.
Marked ==
    \A n \in DOMAIN out : LET e == out[n] IN
        e.state = "deleted" /\ ~e.dir /\ ~e.assumed /\ e.id[1] \in DOMAIN disk.was =>
            UnitsOf(e.ext) = UnitsIn(disk.was[e.id[1]], OffsetOf, Block, e.size)

\* Never more than was asked for.
Capped == Len(out) <= opts.max

\* Where the directories start that the disk names.
StartsOn(d) ==
    {IF Kind(OpenedBpb(d)) = "fat32" THEN OpenedBpb(d).rootCluster ELSE 0} \cup
    {s.hi * LoSpan + s.lo : s \in {t \in SlotsOn(d) : t.k \notin {"end", "lfn", "label"} /\ t.dir /\ ~t.deleted}}
Starts == StartsOn(disk)

\* Every step leaves less to do, so loops on the disk cannot hold the walk: it
\* enters each directory that a record names once, and the fixed root once.
Rank == <<CASE pc = "probe" -> 3 [] pc = "open" -> 2 [] pc = "walk" -> 1 [] OTHER -> 0,
          Cardinality(Starts \ seen),
          IF work = <<>> THEN 0 ELSE IF work[1].fixed THEN 1 ELSE 0,
          Len(work)>>
Shrinks == Falls(Rank, Rank')
=============================================================================
