---------------------------- MODULE ExfatVolume ----------------------------
(* The exFAT engine (fs-exfat).  A disk is its boot sectors, a FAT, and the   *)
(* 32-byte entries of the clusters that hold directories; a file is a set of  *)
(* them: a file entry, a stream entry and name entries.  An entry without its *)
(* in-use bit is deleted.                                                     *)
EXTENDS FsCore

CONSTANTS
    Disks,         \* the volumes the engine is given
    Requests,      \* the options of a walk
    Shifts,        \* plausible sector shifts (9..12)
    MaxDirClusters,\* clusters read of one directory (32 MiB)
    MaxDepth       \* depth of the walk (64)

VARIABLES
    pc,      \* probe, open, walk, done or refused
    disk,
    opts,
    work,    \* directories still to be walked, the next one first
    seen,    \* first clusters of the directories it entered
    out      \* what it emitted, in order

vars == <<pc, disk, opts, work, seen, out>>

-----------------------------------------------------------------------------
(* The boot sector: the main one, else the first backup that lies where its *)
(* own sector shift puts it.                                               *)
InPlace(d) == {s \in Shifts \cap DOMAIN d.backup : d.backup[s].named /\ d.backup[s].shift = s}

ReadBoot(d) ==
    IF d.main.named THEN d.main
    ELSE IF InPlace(d) = {} THEN d.main
    ELSE d.backup[CHOOSE s \in InPlace(d) : \A t \in InPlace(d) : s <= t]

Plausible(b) == b.named /\ b.shift \in Shifts /\ b.shift + b.perCluster <= 25

OpenOk(d) == Plausible(ReadBoot(d)) /\ ReadBoot(d).rootCluster >= 2

SlotsOn(d) == UNION {ToSet(d.slots[c]) : c \in DOMAIN d.slots}

\* At the places that backups have on volumes of other sectors a volume has no
\* boot sectors; directories are lists, and there is only so much on a disk.
DisksOk ==
    /\ Shifts \subseteq Nat /\ MaxDirClusters \in Nat
    /\ \A d \in Disks :
        /\ \A s, t \in InPlace(d) : s = t
        /\ ReadBoot(d).count \in Nat
        /\ (\A c \in DOMAIN d.slots : IsSeq(d.slots[c])) /\ IsFiniteSet(SlotsOn(d))

Boot == ReadBoot(disk)
Block == Boot.cluster
Count == Boot.count
InHeap(c) == 2 <= c /\ c < Count + 2
OffsetOf(c) == Boot.heap + (c - 2) * Block

FatNext(c) == IF c \in DOMAIN disk.fat THEN disk.fat[c] ELSE 0

Follow(c, cap) == FollowChain(FatNext, InHeap, c, cap)

Chain(c, max) == Follow(c, IF max = 0 THEN 1 ELSE Least(max, Count + 2))

-----------------------------------------------------------------------------
(* Directories, and the bitmap that the root directory names.              *)
End == [k |-> "end"]

\* A cluster that cannot be read is zeros, the end mark.
EntriesOf(c) == IF c \in disk.bad \/ c \notin DOMAIN disk.slots THEN <<End>> ELSE disk.slots[c]

ReadDirectory(first) ==
    LET chain == Chain(first, MaxDirClusters)
        all == FlattenSeq([i \in DOMAIN chain |-> EntriesOf(chain[i])])
    IN  SubSeq(all, 1, SelectInSeq(Append(all, End), LAMBDA s : s.k = "end") - 1)

LoadBitmap ==
    LET root == ReadDirectory(Boot.rootCluster)
        at == SelectInSeq(root, LAMBDA s : s.k = "bitmap")
    IN  IF at = 0 \/ ~InHeap(root[at].first) THEN NoBitmap
        ELSE [block |-> Block, base |-> Boot.heap, count |-> Count,
              have |-> 8 * Least(root[at].len, CeilDiv(Count, 8) + 8), bits |-> disk.bits]

-----------------------------------------------------------------------------
(* Extents.                                                                *)
OneRun(first, size) ==
    IF InHeap(first) THEN OnePiece(OffsetOf(first), Block, size, Boot.total) ELSE <<>>

ExtentsAlong(chain, size) == Coalesce([i \in DOMAIN chain |-> OffsetOf(chain[i])], Block, size)

\* In one piece if the stream says so; else its chain, unless a deleted file's
\* chain is too short, when one piece is assumed.
ResolveExtents(first, size, noChain, deleted) ==
    LET need == CeilDiv(size, Block)
        chain == Chain(first, need + 2)
    IN  IF size = 0 \/ first < 2 THEN [ext |-> <<>>, assumed |-> FALSE]
        ELSE IF noChain THEN [ext |-> OneRun(first, size), assumed |-> FALSE]
        ELSE IF chain = <<>> \/ (deleted /\ Len(chain) < need)
             THEN [ext |-> OneRun(first, size), assumed |-> need > 1]
             ELSE [ext |-> ExtentsAlong(chain, size), assumed |-> FALSE]

-----------------------------------------------------------------------------
(* The walk of one directory.                                              *)
\* The names after a stream entry: at most so many, until another kind.
ReadName(slots, i, left) ==
    LET next == SubSeq(slots, i, Least(Len(slots), i + left - 1))
        names == SelectInSeq(Append(next, End), LAMBDA s : s.k # "name") - 1
    IN  [n \in 1 .. names |-> next[n].piece]

IsSet(slots, i) == slots[i].k = "file" /\ i < Len(slots) /\ slots[i + 1].k = "stream"

NameAt(slots, i) ==
    ReadName(slots, i + 2, Least(Monus(slots[i].secondary, 1), slots[i + 1].names))

EntryAt(slots, i, dir) ==
    LET f == slots[i]
        s == slots[i + 1]
        res == IF f.dir THEN [ext |-> <<>>, assumed |-> FALSE]
               ELSE ResolveExtents(s.first, s.len, s.noChain, f.deleted)
        base == IF f.dir THEN 85 ELSE 80
    IN  [id |-> <<IF f.dir THEN dir.first ELSE s.first, i>>, dirAt |-> <<dir.first, i>>,
         path |-> Append(dir.path, NameAt(slots, i)), dir |-> f.dir,
         first |-> s.first, noChain |-> s.noChain,
         state |-> IF f.deleted THEN "deleted" ELSE "live",
         size |-> IF f.dir THEN 0 ELSE s.len, ext |-> res.ext, assumed |-> res.assumed,
         alloc |-> /\ ~f.dir /\ LoadBitmap # NoBitmap
                   /\ OffsetAllocated(LoadBitmap, IF res.ext = <<>> THEN 0 ELSE res.ext[1][1]),
         conf |-> LET c == IF disk.checksum THEN base + 10 ELSE base
                  IN  IF res.assumed THEN (c * 3) \div 4 ELSE c]

\* A deleted subdirectory is walked while its first cluster is free.
Descends(f, s) ==
    /\ s.first >= 2
    /\ \/ ~f.deleted
       \/ LoadBitmap = NoBitmap
       \/ ~InHeap(s.first)
       \/ ~OffsetAllocated(LoadBitmap, OffsetOf(s.first))

\* Entry i; a set is passed as a whole, to the entry where the next may be.
ScanEntry(acc, slots, i, dir) ==
    IF i < acc.next \/ Full(opts, acc.out) \/ ~IsSet(slots, i) THEN acc
    ELSE LET f == slots[i]
             s == slots[i + 1]
             emits == Wanted(opts, f.deleted) /\ (f.dir => NameAt(slots, i) # <<>>)
         IN  [next |-> i + 1 + (IF f.secondary = 0 THEN 1 ELSE f.secondary),
              out |-> IF emits THEN Append(acc.out, EntryAt(slots, i, dir)) ELSE acc.out,
              subs |-> IF f.dir /\ Descends(f, s)
                       THEN Append(acc.subs, [first |-> s.first, depth |-> dir.depth + 1,
                                              path |-> Append(dir.path, NameAt(slots, i))])
                       ELSE acc.subs]

Scan(dir) ==
    LET slots == ReadDirectory(dir.first)
    IN  FoldLeft(LAMBDA acc, i : ScanEntry(acc, slots, i, dir),
                 [next |-> 1, out |-> out, subs |-> <<>>], [i \in DOMAIN slots |-> i])

Skips(dir) == dir.depth > MaxDepth \/ Full(opts, out) \/ dir.first \in seen

-----------------------------------------------------------------------------
Init ==
    /\ pc = "probe" /\ disk \in Disks /\ opts \in Requests
    /\ work = <<>> /\ seen = {} /\ out = <<>>

Probe ==
    /\ pc = "probe"
    /\ pc' = IF Plausible(ReadBoot(disk)) THEN "open" ELSE "refused"
    /\ UNCHANGED <<disk, opts, work, seen, out>>

Open ==
    /\ pc = "open"
    /\ IF OpenOk(disk)
       THEN pc' = "walk" /\ work' = <<[first |-> Boot.rootCluster, depth |-> 0, path |-> <<>>]>>
       ELSE pc' = "refused" /\ UNCHANGED work
    /\ UNCHANGED <<disk, opts, seen, out>>

Return ==
    /\ pc = "walk" /\ work # <<>> /\ Skips(Head(work))
    /\ work' = Tail(work)
    /\ UNCHANGED <<pc, disk, opts, seen, out>>

WalkDir ==
    /\ pc = "walk" /\ work # <<>> /\ ~Skips(Head(work))
    /\ \E scan \in {Scan(Head(work))} :
        /\ seen' = seen \cup {Head(work).first}
        /\ out' = scan.out
        /\ work' = scan.subs \o Tail(work)
    /\ UNCHANGED <<pc, disk, opts>>

Finish ==
    /\ pc = "walk" /\ work = <<>> /\ pc' = "done"
    /\ UNCHANGED <<disk, opts, work, seen, out>>

Next == Probe \/ Open \/ Return \/ WalkDir \/ Finish
Spec == Init /\ [][Next]_vars

-----------------------------------------------------------------------------
(* What the walk promises.                                                 *)
LiveAt(slots) == {i \in DOMAIN slots : IsSet(slots, i) /\ ~slots[i].deleted}

\* A directory starts at a cluster, so that no way to one is longer than the heap.
Reach(dirs) ==
    LET Subs(d) == {ReadDirectory(d)[i + 1].first :
                      i \in {j \in LiveAt(ReadDirectory(d)) : ReadDirectory(d)[j].dir}}
    IN  Repeat(LAMBDA ds : ds \cup UNION {Subs(d) : d \in ds}, dirs, Count + 1)

\* A set is emitted once, also when the deleted ones around it were cut by
\* sets stored later.
Listed ==
    pc = "done" /\ opts.live /\ ~Full(opts, out) =>
        \A d \in Reach({Boot.rootCluster}) : \A i \in LiveAt(ReadDirectory(d)) :
            Once(LAMBDA e : e.dirAt = <<d, i>>, out)

DriverClusters(e) ==
    DriverChain(LAMBDA c : IF e.noChain THEN c + 1 ELSE FatNext(c), e.first, CeilDiv(e.size, Block))

\* A live file's extents are the bytes the driver reads, in order.
Placed ==
    \A n \in DOMAIN out : LET e == out[n] IN
        e.state = "live" /\ ~e.dir /\ ToSet(DriverClusters(e)) \subseteq 2 .. Count + 1
        /\ Distinct(DriverClusters(e)) =>
            ~e.assumed /\ UnitsOf(e.ext) = UnitsIn(DriverClusters(e), OffsetOf, Block, e.size)

\* A deleted file lies where it lay (`was'), or is marked as an assumption,
\* unless a file stored later has taken one of its clusters.
Marked ==
    \A n \in DOMAIN out : LET e == out[n] IN
        e.state = "deleted" /\ ~e.dir /\ ~e.assumed /\ e.first \in DOMAIN disk.was =>
            UnitsOf(e.ext) = UnitsIn(disk.was[e.first], OffsetOf, Block, e.size)

Capped == Len(out) <= opts.max

\* A volume whose main boot sector is zeroed opens, if a backup is in its place.
Opened ==
    pc = "refused" /\ ~disk.main.named => \A s \in DOMAIN disk.backup :
        LET b == disk.backup[s] IN ~(b.shift = s /\ Plausible(b) /\ b.rootCluster >= 2)

\* Every step leaves less to do: each directory that a stream entry names is
\* entered once.
StartsOn(d) == {ReadBoot(d).rootCluster} \cup {s.first : s \in {t \in SlotsOn(d) : t.k = "stream"}}
Starts == StartsOn(disk)
Rank == <<CASE pc = "probe" -> 3 [] pc = "open" -> 2 [] pc = "walk" -> 1 [] OTHER -> 0,
          Cardinality(Starts \ seen), Len(work)>>
Shrinks == Falls(Rank, Rank')
=============================================================================
