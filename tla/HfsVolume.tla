----------------------------- MODULE HfsVolume -----------------------------
(* The HFS+ engine (fs-hfs): the chain of the catalog's leaf nodes, and then *)
(* a sweep of the whole volume for file records that the catalog no longer    *)
(* has.  A disk has two volume headers, the nodes that lie on it (by the      *)
(* places of their units) and the file records found anywhere (by offset).    *)
EXTENDS FsCore

CONSTANTS
    Disks,      \* the volumes the engine is given
    Requests,   \* the options of a walk
    NodeLimit,  \* nodes read of the leaf chain (2 000 000)
    MaxParents, \* steps to the root (128)
    InlineExtents, \* extents that a fork has in its record (8)
    FirstFile,  \* smallest id of a file (16)
    Chunk,      \* units the sweep moves on by (1 MiB)
    Overlap,    \* ... and reads beyond, for a record that straddles (1024)
    KeyMin      \* bytes a key has before its name (8)

VARIABLES
    pc,      \* probe, open, catalog, live, sweep, done or refused
    disk,
    opts,
    work,    \* the node to read, nodes read, records of the catalog, a cursor
    seen,    \* keys that have been emitted by the sweep
    out

vars == <<pc, disk, opts, work, seen, out>>

RootParent == 1
RootFolder == 2

-----------------------------------------------------------------------------
(* The volume header at 1024, else the alternate one 1024 before the end.   *)
Valid(h) == h.signed /\ h.block > 0 /\ h.catalog # <<>>

HeaderOf(d) == IF Valid(d.header) THEN d.header ELSE d.alternate

Vh == HeaderOf(disk)

\* The extents <<start, count>> of blocks that are in the record, until one is
\* empty; the overflow file, which has the others, is not read.
Inline(ext) ==
    LET here == SubSeq(ext, 1, Least(Len(ext), InlineExtents))
    IN  SubSeq(here, 1, SelectInSeq(Append(here, <<0, 0>>), LAMBDA x : x[2] = 0) - 1)

\* Unit n of a fork, through the extents.
ForkUnits(ext) ==
    UnitsOf([i \in DOMAIN Inline(ext) |-> <<ext[i][1] * Vh.block, ext[i][2] * Vh.block>>])

\* A node is stitched from the places of its units; past the fork it is zeros.
NoNode == [leaf |-> FALSE, link |-> 0, recs |-> <<>>]

\* Wrong variant: a node lies in one piece.
NodeInOnePiece(n) ==
    LET at == (n * Vh.node) + (IF Vh.catalog = <<>> THEN 0 ELSE Vh.catalog[1][1] * Vh.block)
        places == [u \in 1 .. Vh.node |-> at + u - 1]
    IN  IF places \in DOMAIN disk.nodes THEN disk.nodes[places] ELSE NoNode

ReadNode(n) ==
    LET places == SubSeq(ForkUnits(Vh.catalog), n * Vh.node + 1, (n + 1) * Vh.node)
    IN  IF places \in DOMAIN disk.nodes THEN disk.nodes[places] ELSE NoNode

Allocation ==
    IF Inline(Vh.alloc) = <<>> \/ Vh.blocks = 0 THEN NoBitmap
    ELSE [block |-> Vh.block, base |-> 0, count |-> Vh.blocks,
          have |-> 8 * CeilDiv(Vh.blocks, 8), bits |-> disk.bits]

-----------------------------------------------------------------------------
(* Records.                                                                *)
\* A folder or a file; a thread record is no entry.
CatalogEntry(rec) == rec.k \in {"folder", "file"}

CnidMap == [n \in {work.entries[i].cnid : i \in DOMAIN work.entries} |->
               LET at == SelectLastInSeq(work.entries, LAMBDA e : e.cnid = n)
               IN  [parent |-> work.entries[at].parent, name |-> work.entries[at].name]]

PathUp(at, map) ==
    IF at.cur \in {RootFolder, RootParent, 0} \/ at.cur \notin DOMAIN map THEN at
    ELSE [cur |-> map[at.cur].parent, path |-> <<map[at.cur].name>> \o at.path]

PathOf(e) ==
    Repeat(LAMBDA at : PathUp(at, CnidMap), [cur |-> e.parent, path |-> <<e.name>>], MaxParents).path

\* The inline extents only.  While the size is used up the last extent is cut;
\* an extent after that is taken whole.
ForkExtents(ext, size) ==
    LET Step(acc, x) ==
            LET len == x[2] * Vh.block
            IN  [left |-> Monus(acc.left, len),
                 ext |-> Append(acc.ext, <<x[1] * Vh.block,
                                           IF acc.left = 0 THEN len ELSE Least(len, acc.left)>>)]
    IN  FoldLeft(Step, [left |-> size, ext |-> <<>>], Inline(ext)).ext

ToEntry(e, state, conf) ==
    [id |-> e.cnid, path |-> PathOf(e), state |-> state, size |-> e.size, dir |-> FALSE,
     ext |-> ForkExtents(e.ext, e.size), assumed |-> FALSE, alloc |-> FALSE, conf |-> conf]

Key(e) == <<e.parent, e.name>>
LiveKeys == {Key(work.entries[i]) : i \in DOMAIN work.entries}

-----------------------------------------------------------------------------
(* The sweep: from each chunk's start, as far as the record's first bytes   *)
(* are before the overlap.                                                  *)
Swept(off) ==
    \E k \in 0 .. disk.total \div Chunk :
        LET pos == k * Chunk
            want == Least(Chunk + Overlap, Monus(disk.total, pos))
            to == want - (IF pos + want >= disk.total THEN 0 ELSE Overlap)
        IN  pos <= off /\ (off - pos) + KeyMin <= to

\* A file record that is plausible: id, dates, an extent inside the volume.
Plausible(r) ==
    /\ r.parent >= RootFolder /\ r.text /\ r.cnid >= FirstFile /\ r.dated
    /\ Inline(r.ext) # <<>> /\ Inline(r.ext)[1][1] < Vh.blocks

Stale(r) == Plausible(r) /\ Key(r) \notin LiveKeys /\ Key(r) \notin seen

-----------------------------------------------------------------------------
\* What the sweep comes past is a list.
DisksOk == NodeLimit \in Nat /\ \A d \in Disks : IsSeq(d.sweep)

Init ==
    /\ pc = "probe" /\ disk \in Disks /\ opts \in Requests
    /\ work = [node |-> 0, read |-> {}, entries |-> <<>>, at |-> 1] /\ seen = {} /\ out = <<>>

Probe ==
    /\ pc = "probe"
    /\ pc' = IF Valid(HeaderOf(disk)) THEN "open" ELSE "refused"
    /\ UNCHANGED <<disk, opts, work, seen, out>>

\* catalog_geometry: without a node size there is nothing to walk.
Open ==
    /\ pc = "open" /\ pc' = "catalog"
    /\ work' = [work EXCEPT !.node = IF Vh.node > 0 THEN Vh.firstLeaf ELSE 0]
    /\ UNCHANGED <<disk, opts, seen, out>>

MoreNodes == work.node # 0 /\ Cardinality(work.read) < NodeLimit /\ work.node \notin work.read

WalkNode ==
    /\ pc = "catalog" /\ MoreNodes
    /\ LET node == ReadNode(work.node) IN
        work' = [work EXCEPT !.node = node.link, !.read = @ \cup {work.node},
                             !.entries = IF node.leaf THEN @ \o SelectSeq(node.recs, CatalogEntry)
                                         ELSE @]
    /\ UNCHANGED <<pc, disk, opts, seen, out>>

EndCatalog ==
    /\ pc = "catalog" /\ ~MoreNodes /\ pc' = "live"
    /\ UNCHANGED <<disk, opts, work, seen, out>>

\* The limit of entries is not asked, here or in the sweep.
EmitLive ==
    /\ pc = "live"
    /\ pc' = IF opts.deleted THEN "sweep" ELSE "done"
    /\ LET files == SelectSeq(work.entries, LAMBDA e : e.k = "file")
       IN  out' = IF opts.live THEN [i \in DOMAIN files |-> ToEntry(files[i], "live", 95)] ELSE <<>>
    /\ UNCHANGED <<disk, opts, work, seen>>

SweepRecord ==
    /\ pc = "sweep" /\ work.at <= Len(disk.sweep)
    /\ work' = [work EXCEPT !.at = @ + 1]
    /\ LET r == disk.sweep[work.at] IN
        IF Swept(r.at) /\ Stale(r)
        THEN out' = Append(out, ToEntry(r, "orphaned", 60)) /\ seen' = seen \cup {Key(r)}
        ELSE UNCHANGED <<out, seen>>
    /\ UNCHANGED <<pc, disk, opts>>

EndSweep ==
    /\ pc = "sweep" /\ work.at > Len(disk.sweep) /\ pc' = "done"
    /\ UNCHANGED <<disk, opts, work, seen, out>>

Next == Probe \/ Open \/ WalkNode \/ EndCatalog \/ EmitLive \/ SweepRecord \/ EndSweep
Spec == Init /\ [][Next]_vars

-----------------------------------------------------------------------------
(* What the walk promises.  truth is what the filesystem has of a file: its *)
(* path, the place of each unit and the number of its extents.              *)
Listed ==
    pc = "done" /\ opts.live =>
        \A n \in DOMAIN disk.truth :
            Once(LAMBDA e : e.id = n /\ e.state = "live" /\ e.path = disk.truth[n].path, out)

\* The file's bytes are the first of the extents (a writer stops at the size).
Taken(e) == SubSeq(UnitsOf(e.ext), 1, Least(ExtentBytes(e.ext), e.size))

\* A file in more extents than its record holds.
Misread(t) == t.pieces > InlineExtents

\* Of such a file it is the beginning.
Placed ==
    \A i \in DOMAIN out : LET e == out[i] IN
        e.state = "live" /\ e.id \in DOMAIN disk.truth =>
            LET t == disk.truth[e.id] IN
            /\ StartsWith(t.units, Taken(e))
            /\ Sure(e) /\ ~Misread(t) => ReadAs(Taken(e), t.units, {})

\* Each stale record that is whole in the volume is found, once.
Found(r) ==
    r.k = "file" /\ Plausible(r) /\ Key(r) \notin LiveKeys /\ r.whole =>
        Once(LAMBDA e : e.state = "orphaned" /\ Last(e.path) = r.name /\ e.size = r.size, out)

\* But the bytes of a key before its name must lie within one step: the overlap
\* is there for the rest of a record only.
OnSeam(r) == (r.at % Chunk) + KeyMin > Chunk

Revived ==
    pc = "done" /\ opts.deleted =>
        \A i \in DOMAIN disk.sweep : ~OnSeam(disk.sweep[i]) => Found(disk.sweep[i])

\* A name of the catalog is not an orphan too.
NoTwice ==
    \A i, j \in DOMAIN out : i # j /\ out[i].path = out[j].path => out[i].id # out[j].id

Capped == Len(out) <= opts.max

Opened == pc = "refused" => ~Valid(disk.header) /\ ~Valid(disk.alternate)

Rank == CASE pc = "probe" -> <<5, 0>>
          [] pc = "open" -> <<4, 0>>
          [] pc = "catalog" -> <<3, NodeLimit - Cardinality(work.read)>>
          [] pc = "live" -> <<2, 0>>
          [] pc = "sweep" -> <<1, Len(disk.sweep) - work.at + 1>>
          [] OTHER -> <<0, 0>>
Shrinks == Falls(Rank, Rank')
=============================================================================
