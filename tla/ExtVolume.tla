----------------------------- MODULE ExtVolume -----------------------------
(* The ext2/3/4 engine (fs-ext).  A disk has superblocks, inodes, directory   *)
(* blocks and map blocks.  A directory block is a sequence of records, each   *)
(* with the deleted records that lie in its slack; the journal is a sequence  *)
(* of blocks, a descriptor before the inode blocks it names.                  *)
EXTENDS FsCore

CONSTANTS
    Disks,       \* the volumes the engine is given
    Requests,    \* the options of a walk
    FirstIno,    \* first inode of a file (11)
    MaxTree,     \* depth of an extent tree (5)
    MaxMapNodes, \* nodes and indirect blocks read of one map (4096)
    MaxFileBlocks, \* blocks of one file, and one more (8 Mi)
    MaxDirs      \* directories walked (2,000,000)

VARIABLES
    pc,      \* probe, walk, orphans, nodes, done or refused
    disk,
    opts,
    work,    \* directories to walk (the last one next), journal copies, a cursor
    seen,    \* directories walked and inodes emitted
    out

vars == <<pc, disk, opts, work, seen, out>>

RootIno == 2

-----------------------------------------------------------------------------
(* The superblock: the primary, or the first backup that is where a backup  *)
(* with its block size lies: block size and group number tell the place.   *)
FirstDataBlock(bs) == IF bs = 1 THEN 1 ELSE 0
\* Wrong variant: the first block of the volume counts as block 0 for every size.
BackupPlaceZero(g, bs) == g * 8 * bs * bs

BackupPlace(g, bs) == (g * 8 * bs + FirstDataBlock(bs)) * bs

Valid(sb) == sb.magic /\ sb.perGroup > 0 /\ sb.inodesPerGroup > 0 /\ sb.groups > 0

\* Groups in order (1, then powers of 3, 5 and 7), each with the list of sizes.
PlaceOf(d, p) == BackupPlace(p[1], d.blockSizes[p[2]])

Backups(d) ==
    {p \in d.backupGroups \X DOMAIN d.blockSizes :
        LET off == PlaceOf(d, p) IN
        IF off \in DOMAIN d.supers
        THEN Valid(d.supers[off]) /\ d.supers[off].block = d.blockSizes[p[2]] ELSE FALSE}

Earlier(p, q) == p[1] < q[1] \/ (p[1] = q[1] /\ p[2] <= q[2])

ReadSuperblock(d) ==
    IF Valid(d.primary) THEN d.primary
    ELSE LET first == CHOOSE p \in Backups(d) : \A q \in Backups(d) : Earlier(p, q)
         IN  IF Backups(d) = {} THEN d.primary ELSE d.supers[PlaceOf(d, first)]

\* A copy that is intact is where the format has it: in a group that has one, one
\* block further if blocks are of one unit.
CopiesOk(d) ==
    /\ d.backupGroups \subseteq Nat /\ d.blockSizes \in Seq(Nat)
    /\ \A at \in d.intact :
        /\ at \in DOMAIN d.supers /\ Valid(d.supers[at])
        /\ \E g \in d.backupGroups, bs \in ToSet(d.blockSizes) :
            d.supers[at].block = bs /\ at = IF bs = 1 THEN g * 8 + 1 ELSE g * 8 * bs * bs

\* A block has a size (1024 << log); nodes, maps and directories are lists.
NodeOk(n) ==
    IsSeq(n.entries) /\ (n.depth = 0 => \A i \in DOMAIN n.entries : n.entries[i].len \in Nat)

MapOk(map) ==
    /\ map.kind = "tree" => NodeOk(map)
    /\ map.kind \notin {"tree", "zero"} => IsSeq(map.direct)

BlocksOk(d) ==
    /\ d.primary.block \in Nat \ {0} /\ \A at \in DOMAIN d.supers : d.supers[at].block \in Nat \ {0}
    /\ \A n \in DOMAIN d.inodes : d.inodes[n].size \in Nat /\ MapOk(d.inodes[n].map)
    /\ \A b \in DOMAIN d.nodes : NodeOk(d.nodes[b])
    /\ d.ppb \in Nat /\ \A b \in DOMAIN d.indirect : IsSeq(d.indirect[b])
    /\ \A b \in DOMAIN d.dirs :
        IsSeq(d.dirs[b]) /\ \A i \in DOMAIN d.dirs[b] : IsSeq(d.dirs[b][i].slack)

\* What the superblock counts are numbers, and there is only so much on a disk.
SizesOk(d) ==
    LET sb == ReadSuperblock(d) IN
    /\ {sb.inodes, sb.groups, sb.inodesPerGroup, sb.blocks, d.addressable} \subseteq Nat
    /\ IsFiniteSet(DOMAIN d.inodes)

DisksOk ==
    MaxTree \in Nat /\ FirstIno \in Nat /\ MaxFileBlocks \in Nat /\ \A d \in Disks : CopiesOk(d) /\ BlocksOk(d) /\ SizesOk(d)

Sb == ReadSuperblock(disk)
Block == Sb.block

\* Inodes that the group table can address.
HasInode(ino) == ino > 0 /\ ino <= Sb.groups * Sb.inodesPerGroup /\ ino \in DOMAIN disk.inodes

LooksDeleted(inode) == inode.dtime \/ inode.links = 0

BlockBitmap ==
    LET n == Least(Sb.blocks, disk.addressable)
    IN  IF n = 0 THEN NoBitmap
        ELSE [block |-> Block, base |-> 0, count |-> n, have |-> n,
              bits |-> disk.used \cup 0 .. FirstDataBlock(Block) - 1]

-----------------------------------------------------------------------------
(* Maps.  A node of an extent tree is a leaf (depth 0) of [log, len, phys],  *)
(* or an index of blocks; the classic map has direct and indirect pointers.  *)
(* A list made of a map has a mark in front of what each block of the map     *)
(* holds: a map is read in this order until it has had its number of blocks.  *)
Affordable(list, marks) ==
    SubSeq(list, 1, Cardinality({i \in DOMAIN list : Cardinality(marks \cap 1 .. i) <= MaxMapNodes}))

NoNode == [magic |-> FALSE, depth |-> 1, max |-> 0, entries |-> <<>>]

\* What a node holds, in order: the blocks of a leaf, the nodes of an index.  That
\* a run is not written yet is not asked.
Under(node) ==
    IF ~node.magic \/ Len(node.entries) > node.max THEN <<>>
    ELSE FlattenSeq([i \in DOMAIN node.entries |->
            LET e == node.entries[i] IN
            IF node.depth = 0
            THEN [b \in 1 .. e.len |-> [k |-> "block", at |-> <<e.log + b - 1, e.phys + b - 1>>]]
            ELSE <<[k |-> "node", at |-> IF e \in DOMAIN disk.nodes THEN disk.nodes[e] ELSE NoNode]>>])

Lower(items) ==
    FlattenSeq([i \in DOMAIN items |->
        IF items[i].k = "node" THEN <<[k |-> "mark"]>> \o Under(items[i].at) ELSE <<items[i]>>])

\* Level by level, to the depth at which a tree is given up.
TreeBlocks(root) ==
    LET Blocks(items) == FlattenSeq([i \in DOMAIN items |->
                            IF items[i].k = "block" THEN <<items[i].at>> ELSE <<>>])
        All(items) == Blocks(Affordable(items, {i \in DOMAIN items : items[i].k = "mark"}))
    IN  All(Repeat(Lower, <<[k |-> "node", at |-> root]>>, MaxTree + 1))

\* The pointers in a block: zeros are holes.  A block that is not there is not
\* read, and the pointers it would have had are not counted.
Mark == -1
PointersIn(block) ==
    CASE block = 0 -> <<>>
      [] block = Mark -> <<Mark>>
      [] OTHER -> <<Mark>> \o (IF block \in DOMAIN disk.indirect THEN disk.indirect[block]
                               ELSE [i \in 1 .. disk.ppb |-> 0])

Deeper(ptrs) == FlattenSeq([i \in DOMAIN ptrs |-> PointersIn(ptrs[i])])
Pointers(block, level) == Repeat(Deeper, <<block>>, level)

ClassicBlocks(map) ==
    LET list == IF map.kind = "zero" THEN <<>>
                ELSE map.direct \o Pointers(map.single, 1) \o Pointers(map.double, 2) \o Pointers(map.triple, 3)
        marks == {i \in DOMAIN list : list[i] = Mark}
        Number(i) == i - 1 - Cardinality(marks \cap 1 .. i)
        Numbered(all) == FlattenSeq([i \in DOMAIN all |->
                            IF all[i] \in {0, Mark} THEN <<>> ELSE <<<<Number(i), all[i]>>>>])
    IN  Numbered(Affordable(list, marks))

\* Runs in the order of the file, cut to the size.
Trim(acc, x) ==
    [left |-> Monus(acc.left, x[2]),
     ext |-> IF acc.left = 0 THEN acc.ext ELSE Append(acc.ext, <<x[1], Least(x[2], acc.left)>>)]

TrimToSize(ext, size) == FoldLeft(Trim, [left |-> size, ext |-> <<>>], ext).ext

InOrder(blocks) ==
    LET Before(i) == {j \in DOMAIN blocks : \/ blocks[j][1] < blocks[i][1]
                                            \/ blocks[j][1] = blocks[i][1] /\ j < i}
    IN  [n \in 1 .. Len(blocks) |-> blocks[CHOOSE i \in DOMAIN blocks : Cardinality(Before(i)) = n - 1]]

Join(ext, p) ==
    IF ext # <<>> /\ Last(ext)[1] + Last(ext)[2] = p[2] * Block
    THEN [ext EXCEPT ![Len(ext)][2] = @ + Block]
    ELSE Append(ext, <<p[2] * Block, Block>>)

RunsToExtents(blocks, size) == TrimToSize(FoldLeft(Join, <<>>, InOrder(blocks)), size)

\* The blocks that are kept, holes not counted.
FirstBlocks(blocks) == SubSeq(blocks, 1, Least(Len(blocks), MaxFileBlocks + 1))

ExtentsOf(inode) ==
    RunsToExtents(FirstBlocks(IF inode.map.kind = "tree" THEN TreeBlocks(inode.map)
                          ELSE ClassicBlocks(inode.map)), inode.size)

EmptyMap(map) == map = [kind |-> "zero"]

-----------------------------------------------------------------------------
(* Directories.                                                            *)
Deleted(s) == [ino |-> s.ino, name |-> s.name, type |-> s.type, deleted |-> TRUE]
Live(r) == [ino |-> r.ino, name |-> r.name, type |-> r.type, deleted |-> FALSE]

\* A record in use, then what lies in its slack; a record without an inode is
\* slack only.
ParseDirBlock(recs) ==
    LET InUse(r) == IF r.ino # 0 /\ r.name \notin {".", ".."} THEN <<Live(r)>> ELSE <<>>
        Slack(s) == IF s.ino \in 1 .. Sb.inodes THEN <<Deleted(s)>> ELSE <<>>
    IN  FlattenSeq([i \in DOMAIN recs |->
            InUse(recs[i]) \o FlattenSeq([k \in DOMAIN recs[i].slack |-> Slack(recs[i].slack[k])])])

DirBlocks(ext) ==
    FlattenSeq([i \in DOMAIN ext |->
        [k \in 1 .. CeilDiv(ext[i][2], Block) |-> (ext[i][1] \div Block) + k - 1]])

Records(blocks) ==
    FlattenSeq([i \in DOMAIN blocks |->
        IF blocks[i] \in DOMAIN disk.dirs THEN ParseDirBlock(disk.dirs[blocks[i]]) ELSE <<>>])

ReadDir(inode) == Records(DirBlocks(ExtentsOf(inode)))

-----------------------------------------------------------------------------
(* The journal: of each inode the first copy that has a size and a map.    *)
\* A descriptor is passed with the blocks it tags.
Harvest(acc, i) ==
    IF i < acc.next \/ disk.journal[i].k # "descriptor" THEN acc
    ELSE LET data == SubSeq(disk.journal, i + 1, i + disk.journal[i].tags)
             Add(found, blk) ==
                 IF blk.k # "inodes" THEN found
                 ELSE [n \in DOMAIN found \cup {m \in DOMAIN blk.inodes :
                                                 blk.inodes[m].size > 0 /\ ~EmptyMap(blk.inodes[m].map)}
                         |-> IF n \in DOMAIN found THEN found[n] ELSE blk.inodes[n]]
         IN  [next |-> i + 1 + disk.journal[i].tags, found |-> FoldLeft(Add, acc.found, data)]

RecoverFromJournal ==
    FoldLeft(Harvest, [next |-> 1, found |-> <<>>], [i \in DOMAIN disk.journal |-> i]).found

-----------------------------------------------------------------------------
(* The walk.                                                               *)
\* Wrong variant: the journal's copy is not asked for.
InodeNow(e) == IF HasInode(e.ino) THEN disk.inodes[e.ino] ELSE [type |-> "none"]

\* A deleted file with a zeroed map has the journal's copy of its inode.
InodeFor(e) ==
    LET now == disk.inodes[e.ino]
        gone == IF HasInode(e.ino) THEN EmptyMap(now.map) ELSE TRUE
    IN  IF e.deleted /\ gone /\ e.ino \in DOMAIN work.journal THEN work.journal[e.ino]
        ELSE IF HasInode(e.ino) THEN now ELSE [type |-> "none"]

EntryOf(e, path) ==
    LET Named(inode, ext) ==
        [id |-> e.ino, path |-> path, dir |-> FALSE, state |-> IF e.deleted THEN "deleted" ELSE "live",
         size |-> IF inode.size > 0 THEN inode.size ELSE ExtentBytes(ext), ext |-> ext,
         assumed |-> FALSE, alloc |-> FALSE,
         conf |-> IF ~e.deleted THEN 100 ELSE IF LooksDeleted(inode) THEN 85 ELSE 60]
    IN  Named(InodeFor(e), ExtentsOf(InodeFor(e)))

\* One directory's records.  The options are not asked here.
Visit(acc, e, path) ==
    IF Full(opts, acc.out) \/ e.name = "lost+found" THEN acc
    ELSE IF ~e.deleted /\ e.type = "dir"
         THEN [acc EXCEPT !.subs = Append(@, [ino |-> e.ino, path |-> Append(path, e.name)])]
    ELSE IF InodeFor(e).type \in {"none", "dir"} THEN acc
    ELSE [acc EXCEPT !.out = Append(@, EntryOf(e, Append(path, e.name)))]

\* The tree's walk stops between two directories.
TreeOver == Full(opts, out) \/ Cardinality({s \in seen : s[1] = "dir"}) > MaxDirs

EmittedIds(new) == {new[i].id : i \in DOMAIN new}

Init ==
    /\ pc = "probe" /\ disk \in Disks /\ opts \in Requests
    /\ work = [dirs |-> <<>>, journal |-> <<>>, at |-> 0] /\ seen = {} /\ out = <<>>

Probe ==
    /\ pc = "probe"
    /\ pc' = IF Valid(Sb) THEN "open" ELSE "refused"
    /\ UNCHANGED <<disk, opts, work, seen, out>>

Open ==
    /\ pc = "open" /\ pc' = "walk"
    /\ work' = [work EXCEPT !.journal = RecoverFromJournal, !.dirs = <<[ino |-> RootIno, path |-> <<>>]>>]
    /\ UNCHANGED <<disk, opts, seen, out>>

\* Been here, or it is no directory.
Skips(ino) ==
    \/ <<"dir", ino>> \in seen
    \/ (IF HasInode(ino) THEN disk.inodes[ino].type # "dir" ELSE TRUE)

SkipDir ==
    /\ pc = "walk" /\ work.dirs # <<>> /\ ~TreeOver /\ Skips(Last(work.dirs).ino)
    /\ work' = [work EXCEPT !.dirs = Front(@)]
    /\ seen' = seen \cup {<<"dir", Last(work.dirs).ino>>}
    /\ UNCHANGED <<pc, disk, opts, out>>

WalkDir ==
    /\ pc = "walk" /\ work.dirs # <<>> /\ ~TreeOver /\ ~Skips(Last(work.dirs).ino)
    /\ LET dir == Last(work.dirs) IN
       \E acc \in {FoldLeft(LAMBDA a, e : Visit(a, e, dir.path), [out |-> out, subs |-> <<>>],
                            ReadDir(disk.inodes[dir.ino]))} :
           /\ out' = acc.out
           /\ work' = [work EXCEPT !.dirs = Front(@) \o acc.subs]
           /\ seen' = seen \cup {<<"dir", dir.ino>>} \cup {<<"file", n>> : n \in EmittedIds(acc.out)}
    /\ UNCHANGED <<pc, disk, opts>>

EndWalk ==
    /\ pc = "walk" /\ (work.dirs = <<>> \/ TreeOver)
    /\ pc' = IF opts.deleted THEN "orphans" ELSE "done"
    /\ work' = [work EXCEPT !.at = FirstIno, !.dirs = <<>>]
    /\ UNCHANGED <<disk, opts, seen, out>>

\* Deleted inodes that no directory names.
LastIno == Least(Sb.inodes, Sb.groups * Sb.inodesPerGroup)

IsOrphan(ino) ==
    /\ <<"dir", ino>> \notin seen /\ <<"file", ino>> \notin seen /\ HasInode(ino)
    /\ LET inode == disk.inodes[ino] IN
        inode.type = "file" /\ LooksDeleted(inode) /\ inode.size > 0 /\ ExtentsOf(inode) # <<>>

Unnamed(id, size, ext, conf) ==
    [id |-> id, path |-> <<>>, dir |-> FALSE, state |-> "orphaned", size |-> size, ext |-> ext,
     assumed |-> FALSE, alloc |-> FALSE, conf |-> conf]

OrphanInode ==
    /\ pc = "orphans" /\ work.at <= LastIno /\ ~Full(opts, out)
    /\ work' = [work EXCEPT !.at = @ + 1]
    /\ IF IsOrphan(work.at)
       THEN LET inode == disk.inodes[work.at] IN
            /\ out' = Append(out, Unnamed(work.at, inode.size, ExtentsOf(inode), 60))
            /\ seen' = seen \cup {<<"file", work.at>>}
       ELSE UNCHANGED <<out, seen>>
    /\ UNCHANGED <<pc, disk, opts>>

EndOrphans ==
    /\ pc = "orphans" /\ (work.at > LastIno \/ Full(opts, out))
    /\ pc' = IF Full(opts, out) THEN "done" ELSE "nodes"
    /\ work' = [work EXCEPT !.at = FirstDataBlock(Block)]
    /\ UNCHANGED <<disk, opts, seen, out>>

\* Leaves of extent trees in free blocks.
LeafExtents(node) ==
    LET real == SelectSeq(node.entries, LAMBDA e : e.len > 0 /\ e.phys > 0 /\ e.phys < Sb.blocks)
    IN  [i \in DOMAIN real |-> <<real[i].phys * Block, real[i].len * Block>>]

ScanNode ==
    /\ pc = "nodes" /\ work.at < BlockBitmap.count /\ ~Full(opts, out)
    /\ LET b == work.at
           leaf == IF BlockAllocated(BlockBitmap, b) \/ b \notin DOMAIN disk.nodes THEN <<>>
                   ELSE IF ~disk.nodes[b].magic \/ disk.nodes[b].depth # 0 THEN <<>>
                   ELSE LeafExtents(disk.nodes[b])
       IN  out' = IF leaf = <<>> THEN out
                  ELSE Append(out, Unnamed(1000 + b, ExtentBytes(leaf), leaf, 40))
    /\ work' = [work EXCEPT !.at = @ + 1]
    /\ UNCHANGED <<pc, disk, opts, seen>>

EndNodes ==
    /\ pc = "nodes" /\ (work.at >= BlockBitmap.count \/ Full(opts, out)) /\ pc' = "done"
    /\ UNCHANGED <<disk, opts, work, seen, out>>

Next == \/ Probe \/ Open \/ SkipDir \/ WalkDir \/ EndWalk
        \/ OrphanInode \/ EndOrphans \/ ScanNode \/ EndNodes
Spec == Init /\ [][Next]_vars

-----------------------------------------------------------------------------
(* What the walk promises.  truth is what the filesystem has of the files   *)
(* the tree names: their paths, with the place of each unit of their data   *)
(* (in blocks that are not written yet too: those are altered, their bytes  *)
(* read as zeros) and the nodes of their maps.  was has, of deleted files   *)
(* that the slack of a directory names, the places in each copy of the      *)
(* inode that is left.                                                      *)
Listed ==
    pc = "done" /\ ~Full(opts, out) =>
        \A path \in DOMAIN disk.truth : Once(LAMBDA e : e.state = "live" /\ e.path = path, out)

WithinLimits(t) == t.nodes <= MaxMapNodes /\ Len(Solid(t.units)) <= (MaxFileBlocks + 1) * Block

\* A file with a hole, with blocks that are not written yet, or larger than is read.
Misread(t) == NoPlace \in ToSet(t.units) \/ ToSet(t.units) \cap disk.altered # {} \/ ~WithinLimits(t)

\* Of a file with a larger map than is read, its beginning.
Placed ==
    \A i \in DOMAIN out : LET e == out[i] IN
        e.state = "live" /\ e.path \in DOMAIN disk.truth =>
            LET t == disk.truth[e.path] IN
            /\ WithinLimits(t) => PlacedAs(e.ext, t.units)
            /\ ~WithinLimits(t) => StartsWith(Solid(t.units), UnitsOf(e.ext))
            /\ Sure(e) /\ ~Misread(t) => ReadAs(UnitsOf(e.ext), t.units, disk.altered)

\* Found, with all that one copy of its inode has; which copy is not said.
Revived ==
    /\ pc = "done" /\ ~Full(opts, out) =>
        \A path \in DOMAIN disk.was : Once(LAMBDA e : e.state = "deleted" /\ e.path = path, out)
    /\ \A i \in DOMAIN out :
        out[i].state = "deleted" /\ out[i].path \in DOMAIN disk.was =>
            UnitsOf(out[i].ext) \in disk.was[out[i].path]

\* An inode that a directory names is no orphan too.
NoTwice ==
    \A i, j \in DOMAIN out : i # j /\ out[i].id = out[j].id =>
        out[i].path # out[j].path /\ out[i].path # <<>>

Capped == Len(out) <= opts.max

\* A damaged primary superblock does not lose the volume.
Opened == pc = "refused" => ~Valid(disk.primary) /\ disk.intact = {}

Rank == CASE pc = "probe" -> <<6, 0, 0>>
          [] pc = "open" -> <<5, 0, 0>>
          [] pc = "walk" -> <<4, Cardinality({n \in DOMAIN disk.inodes : <<"dir", n>> \notin seen}),
                                Len(work.dirs)>>
          [] pc = "orphans" -> <<3, LastIno - work.at + 1, 0>>
          [] pc = "nodes" -> <<2, BlockBitmap.count - work.at, 0>>
          [] OTHER -> <<0, 0, 0>>
Shrinks == Falls(Rank, Rank')
=============================================================================
