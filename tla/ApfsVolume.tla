----------------------------- MODULE ApfsVolume -----------------------------
(* The APFS engine (fs-apfs): the container's superblocks of the checkpoint  *)
(* ring, and for each volume the current tree, the trees of older checkpoints *)
(* and of snapshots, and the leaves that no tree has any more.  A disk maps a *)
(* block number to the object that lies there; `sum' says its checksum holds. *)
EXTENDS FsCore

CONSTANTS
    Disks,        \* the containers the engine is given
    Requests,     \* the options of a walk, and the point of a diff (0: a walk)
    NodeBudget,   \* nodes one walk of a tree visits (64 000)
    TotalBudget,  \* nodes all the walks visit (500 000)
    MaxRing,      \* blocks of the ring looked at (1024)
    MaxHistory,   \* checkpoints looked at (32)
    MaxParents    \* steps to the root (128)

VARIABLES
    pc,      \* probe, open, targets, live, history, snapshots, orphans, diff, done or refused
    disk,
    opts,
    work,    \* superblocks, volumes, the tree walked, the budget left, a cursor
    seen,    \* (parent, name) emitted as deleted for this volume
    out

vars == <<pc, disk, opts, work, seen, out>>

RootDir == 2
None == [k |-> "none"]

-----------------------------------------------------------------------------
BlockAt(p) == IF p \in DOMAIN disk.blocks THEN disk.blocks[p] ELSE None
Intact(p) == IF BlockAt(p) = None THEN FALSE ELSE BlockAt(p).sum

\* open: block 0 if it is intact, and the intact superblocks of the ring it
\* names with the same block size; one of each transaction, newest first.
Ring(nx) == {nx.descBase + i : i \in 0 .. Least(nx.descBlocks, MaxRing) - 1}

\* Superblocks of different transactions, the newest first.
NewestFirst(supers) ==
    [n \in 1 .. Cardinality(supers) |->
        CHOOSE a \in supers : Cardinality({b \in supers : b.xid > a.xid}) = n - 1]

HistoryOf(d) ==
    LET zero == d.blocks[0]
        places == {p \in Ring(zero) \cap DOMAIN d.blocks :
                      d.blocks[p].k = "nxsb" /\ d.blocks[p].sum
                      /\ d.blocks[p].block = zero.block}
                  \cup (IF zero.sum THEN {0} ELSE {})
        first == {p \in places : \A q \in places : d.blocks[p].xid = d.blocks[q].xid => p <= q}
    IN  NewestFirst({d.blocks[p] : p \in first})

\* A superblock has the number of its transaction and a ring of blocks.
DisksOk ==
    /\ MaxRing \in Nat /\ MaxHistory \in Nat
    /\ \A d \in Disks : \A p \in DOMAIN d.blocks : LET b == d.blocks[p] IN
          b.k = "nxsb" => b.xid \in Nat /\ b.descBase \in Nat /\ b.descBlocks \in Nat

Newest(hist) == IF hist = <<>> THEN disk.blocks[0] ELSE hist[1]

-----------------------------------------------------------------------------
(* Trees.  A walk returns the records of the leaves, last child first, and   *)
(* what is left of its budget.  No child twice, and each lower than its node. *)
FetchBlock(p) == IF Intact(p) THEN BlockAt(p) ELSE None

\* A child is named by its block, or by its id in a view that says where each
\* object was: a block that is another object by now is not a node of the tree.
Physical == [k |-> "physical"]
View(at, xid) == [k |-> "virtual", at |-> at, xid |-> xid]
NodeOf(view, id) ==
    IF view.k = "physical" THEN FetchBlock(id)
    ELSE IF id \notin DOMAIN view.at THEN None
    ELSE LET b == FetchBlock(view.at[id])
         IN  IF b = None THEN None ELSE IF b.oid = id /\ b.xid <= view.xid THEN b ELSE None

\* The node on top of the stack; w is the stack, the children met, the records
\* read and the nodes that may still be read.
WalkNode(w, view) ==
    IF w.stack = <<>> THEN w
    ELSE LET node == Last(w.stack)
             left == [w EXCEPT !.stack = Front(w.stack), !.left = @ - 1]
             Fresh(new, c) == IF c \in w.met \cup ToSet(new) THEN new ELSE Append(new, c)
             fresh == FoldLeft(Fresh, <<>>, node.recs)
             kids == SelectSeq([i \in DOMAIN fresh |-> NodeOf(view, fresh[i])], LAMBDA n : n # None)
             lower == SelectSeq(kids, LAMBDA n : n.k = "node" /\ n.level < node.level)
         IN  IF node.level = 0 THEN [left EXCEPT !.recs = @ \o node.recs]
             ELSE [left EXCEPT !.stack = @ \o lower, !.met = @ \cup ToSet(fresh)]

WalkLeaves(root, view, cap) ==
    Repeat(LAMBDA w : WalkNode(w, view), [stack |-> <<root>>, met |-> {}, recs |-> <<>>, left |-> cap], cap)

\* budgeted_walk: from the budget that all walks share.
Walk(root, view, left) ==
    IF root = None \/ left = 0 THEN [recs |-> <<>>, left |-> left]
    ELSE IF root.k # "node" THEN [recs |-> <<>>, left |-> left]
    ELSE LET cap == Least(left, NodeBudget)
             w == WalkLeaves(root, view, cap)
         IN  [recs |-> w.recs, left |-> left - (cap - w.left)]

\* omap_index: where each object was at a transaction, or before it.
OmapIndex(omap, xid, left) ==
    LET tree == IF BlockAt(omap) = None THEN 0 ELSE BlockAt(omap).tree
        Latest(upTo) ==
            [o \in {r.oid : r \in upTo} |->
                (CHOOSE r \in upTo : r.oid = o /\ \A q \in upTo : q.oid = o => q.xid <= r.xid).at]
        Index(w) == [left |-> w.left, at |-> Latest({r \in ToSet(w.recs) : r.xid <= xid})]
    IN  Index(IF tree = 0 THEN [recs |-> <<>>, left |-> left] ELSE Walk(BlockAt(tree), Physical, left))

ResolveVolume(omap, fs, xid, left) ==
    LET VolumeOf(b) == IF b.k = "apsb" THEN b ELSE None
        In(idx) == [left |-> idx.left,
                    vol |-> IF fs \in DOMAIN idx.at THEN VolumeOf(BlockAt(idx.at[fs])) ELSE None]
    IN  In(OmapIndex(omap, xid, left))

\* walk_fs_tree.
ViewOf(vol, xid, left) ==
    LET In(idx) == IF vol.root \notin DOMAIN idx.at THEN [recs |-> <<>>, left |-> idx.left]
                   ELSE Walk(BlockAt(idx.at[vol.root]), View(idx.at, xid), idx.left)
    IN  In(OmapIndex(vol.omap, xid, left))

-----------------------------------------------------------------------------
(* What a view holds.                                                      *)
Drecs(recs) == SelectSeq(recs, LAMBDA r : r.t = "drec")
Key(d) == <<d.parent, d.name>>
PresentNames(recs) == {Key(d) : d \in ToSet(Drecs(recs))}
LiveIds(recs) == {r.id : r \in {q \in ToSet(recs) : q.t \in {"drec", "inode"}}}

\* Of records with the same key the last one read counts.
EdgeTo(recs, id) == SelectLastInSeq(recs, LAMBDA r : r.t = "drec" /\ r.id = id)

\* An object without a name has no path, and that of one below it is lost.
PathUp(p, recs) ==
    LET at == EdgeTo(recs, p.id)
    IN  IF ~p.more THEN p
        ELSE IF at = 0 THEN [p EXCEPT !.path = <<>>, !.more = FALSE]
        ELSE [id |-> recs[at].parent, path |-> <<recs[at].name>> \o p.path,
              more |-> recs[at].parent \notin {RootDir, 0}]

PathOf(recs, id) ==
    Repeat(LAMBDA p : PathUp(p, recs), [id |-> id, path |-> <<>>, more |-> TRUE], MaxParents).path

SizeOf(recs, id) ==
    LET at == SelectLastInSeq(recs, LAMBDA r : r.t = "inode" /\ r.id = id)
    IN  IF at = 0 THEN 0 ELSE recs[at].size

\* One extent for each logical address, in their order, without the holes.
ExtentsOf(recs, id) ==
    LET mine == {i \in DOMAIN recs : recs[i].t = "extent" /\ recs[i].id = id}
        kept == {i \in mine : \A j \in mine : recs[j].logical = recs[i].logical => j <= i}
        sorted == SortSeq(SetToSeq({recs[i] : i \in {j \in kept : recs[j].phys # 0 /\ recs[j].len # 0}}),
                          LAMBDA a, b : a.logical < b.logical)
    IN  [i \in DOMAIN sorted |-> <<sorted[i].phys * disk.blocks[0].block, sorted[i].len>>]

TrimTo(ext, size) ==
    FoldLeft(LAMBDA acc, x : IF acc.left = 0 THEN acc
                             ELSE [left |-> Monus(acc.left, x[2]),
                                   ext |-> Append(acc.ext, <<x[1], Least(x[2], acc.left)>>)],
             [left |-> size, ext |-> <<>>], ext).ext

BuildEntry(d, recs, state, conf) ==
    LET all == ExtentsOf(recs, d.id)
        size == SizeOf(recs, d.id)
    IN  [id |-> d.id, key |-> Key(d), path |-> PathOf(recs, d.id), dir |-> FALSE,
         state |-> state, size |-> IF size = 0 THEN ExtentBytes(all) ELSE size,
         ext |-> IF size = 0 THEN all ELSE TrimTo(all, size),
         assumed |-> FALSE, alloc |-> FALSE, conf |-> conf, vol |-> work.v]

\* By name: a file that was only renamed counts too.
GoneByName(recs, cur, emitted) ==
    SelectSeq(Drecs(recs), LAMBDA d : ~d.dir /\ Key(d) \notin PresentNames(cur) \cup emitted)

\* The files of a view that the current tree has under no name; each key once.
Gone(recs, cur, emitted) ==
    LET d == Drecs(recs)
        gone == {i \in DOMAIN d : ~d[i].dir /\ d[i].id \notin LiveIds(cur)
                                  /\ Key(d[i]) \notin PresentNames(cur) \cup emitted}
        first == {i \in gone : \A j \in gone : Key(d[i]) = Key(d[j]) => i <= j}
    IN  [n \in 1 .. Cardinality(first) |-> d[SetToSortSeq(first, <)[n]]]

Emit(recs, state, conf) ==
    LET gone == Gone(recs, work.cur, seen)
    IN  /\ out' = out \o [i \in DOMAIN gone |-> BuildEntry(gone[i], recs, state, conf)]
        /\ seen' = seen \cup {Key(gone[i]) : i \in DOMAIN gone}

\* Blocks that a current file of the volume has its data in.
LiveBlocks(recs) ==
    UNION {r.phys .. (r.phys + CeilDiv(r.len, disk.blocks[0].block) - 1) :
             r \in {q \in ToSet(recs) : q.t = "extent" /\ q.phys # 0}}

\* Leaves of file trees in all other blocks, in the order of the blocks.
OrphanRecords(cur) ==
    LET leaves == {p \in DOMAIN disk.blocks \ LiveBlocks(cur) :
                     /\ p < Newest(work.hist).blocks /\ disk.blocks[p].k = "node" /\ disk.blocks[p].sum
                     /\ disk.blocks[p].sub = "fstree" /\ disk.blocks[p].level = 0}
    IN  FlattenSeq([n \in 1 .. Cardinality(leaves) |-> disk.blocks[SetToSortSeq(leaves, <)[n]].recs])

-----------------------------------------------------------------------------
Init ==
    /\ pc = "probe" /\ disk \in Disks /\ opts \in Requests
    /\ work = [hist |-> <<>>, vols |-> <<>>, v |-> 1, cur |-> <<>>, snaps |-> <<>>, at |-> 1,
               left |-> TotalBudget]
    /\ seen = {} /\ out = <<>>

Probe ==
    /\ pc = "probe"
    /\ pc' = IF BlockAt(0).k = "nxsb" THEN "open" ELSE "refused"
    /\ UNCHANGED <<disk, opts, work, seen, out>>

Open ==
    /\ pc = "open" /\ pc' = "targets"
    /\ work' = [work EXCEPT !.hist = HistoryOf(disk)]
    /\ UNCHANGED <<disk, opts, seen, out>>

\* The volumes of the newest superblock, without the system volume unless there
\* is no other.
Targets ==
    /\ pc = "targets"
    /\ LET nx == Newest(work.hist)
           Keep(acc, fs, r) ==
               [left |-> r.left,
                vols |-> IF r.vol = None THEN acc.vols ELSE Append(acc.vols, <<fs, r.vol>>)]
           Resolve(acc, fs) == Keep(acc, fs, ResolveVolume(nx.omap, fs, nx.xid, acc.left))
           All(left) == FoldLeft(Resolve, [left |-> left, vols |-> <<>>], nx.fs)
           User(vols) == SelectSeq(vols, LAMBDA v : opts.system \/ ~v[2].system)
           Chosen(r) == IF User(r.vols) # <<>> THEN [r EXCEPT !.vols = User(@)] ELSE All(r.left)
           Take(r) == work' = [work EXCEPT !.vols = r.vols, !.left = r.left]
       IN  /\ Take(Chosen(All(work.left)))
           /\ pc' = IF work'.vols = <<>> THEN "done" ELSE IF opts.from = 0 THEN "live" ELSE "diff"
    /\ UNCHANGED <<disk, opts, seen, out>>

Volume == work.vols[work.v]

\* The cursor goes to the next volume, or the walk is over.
NextVolume(w, again) ==
    /\ pc' = IF work.v < Len(work.vols) THEN again ELSE "done"
    /\ work' = [w EXCEPT !.v = @ + 1, !.at = 1]
    /\ seen' = {}

WalkLive ==
    /\ pc = "live"
    /\ \E view \in {ViewOf(Volume[2], Newest(work.hist).xid, work.left)} :
       LET files == SelectSeq(Drecs(view.recs), LAMBDA d : ~d.dir)
           w == [work EXCEPT !.cur = view.recs, !.left = view.left, !.at = 1]
       IN  /\ out' = out \o (IF ~opts.live THEN <<>>
                             ELSE [i \in DOMAIN files |-> BuildEntry(files[i], view.recs, "live", 95)])
           /\ IF opts.deleted THEN pc' = "history" /\ work' = w /\ seen' = {}
              ELSE NextVolume(w, "live")
    /\ UNCHANGED <<disk, opts>>

Older == SelectSeq(work.hist, LAMBDA n : n.xid < Newest(work.hist).xid)

\* An older checkpoint's tree of the same volume.
WalkHistory ==
    /\ pc = "history" /\ work.at <= Len(Older) /\ work.at <= MaxHistory
    /\ LET nx == Older[work.at]
           Walked(r) == IF r.vol = None THEN [recs |-> <<>>, left |-> r.left]
                        ELSE ViewOf(r.vol, nx.xid, r.left)
       IN  \E view \in {Walked(ResolveVolume(nx.omap, Volume[1], nx.xid, work.left))} :
           /\ Emit(view.recs, "historical", 85)
           /\ work' = [work EXCEPT !.at = @ + 1, !.left = view.left]
    /\ UNCHANGED <<pc, disk, opts>>

\* snapshot_points: the leaves of the snapshot tree that name a superblock.
SnapshotPoints(vol, left) ==
    LET w == IF vol.snaps = 0 THEN [recs |-> <<>>, left |-> left]
             ELSE Walk(BlockAt(vol.snaps), Physical, left)
    IN  [left |-> w.left, recs |-> SelectSeq(w.recs, LAMBDA r : r.sblock # 0)]

EndHistory ==
    /\ pc = "history" /\ (work.at > Len(Older) \/ work.at > MaxHistory) /\ pc' = "snapshots"
    /\ LET s == SnapshotPoints(Volume[2], work.left)
       IN  work' = [work EXCEPT !.at = 1, !.snaps = s.recs, !.left = s.left]
    /\ UNCHANGED <<disk, opts, seen, out>>

WalkSnapshot ==
    /\ pc = "snapshots" /\ work.at <= Len(work.snaps)
    /\ LET s == work.snaps[work.at]
           vol == BlockAt(s.sblock)
       IN  \E view \in {IF vol.k # "apsb" THEN [recs |-> <<>>, left |-> work.left]
                         ELSE ViewOf(vol, s.xid, work.left)} :
           /\ Emit(view.recs, "historical", 90)
           /\ work' = [work EXCEPT !.at = @ + 1, !.left = view.left]
    /\ UNCHANGED <<pc, disk, opts>>

EndSnapshots ==
    /\ pc = "snapshots" /\ work.at > Len(work.snaps) /\ pc' = "orphans"
    /\ UNCHANGED <<disk, opts, work, seen, out>>

OrphanScan ==
    /\ pc = "orphans"
    /\ LET recs == OrphanRecords(work.cur)
           gone == Gone(recs, work.cur, seen)
       IN  out' = out \o [i \in DOMAIN gone |-> BuildEntry(gone[i], recs, "orphaned", 60)]
    /\ NextVolume(work, "live")
    /\ UNCHANGED <<disk, opts>>

\* diff_from: what a snapshot, else a checkpoint, has and the volume has not.
\* Names decide, not ids.
DiffVolume ==
    /\ pc = "diff"
    /\ LET cur == ViewOf(Volume[2], Newest(work.hist).xid, work.left)
           check == SelectInSeq(work.hist, LAMBDA n : n.xid = opts.from)
           Old(points) ==
               LET snap == SelectInSeq(points.recs, LAMBDA s : s.xid = opts.from)
               IN  IF snap # 0 THEN [vol |-> BlockAt(points.recs[snap].sblock), left |-> points.left]
                   ELSE IF check # 0
                   THEN ResolveVolume(work.hist[check].omap, Volume[1], opts.from, points.left)
                   ELSE [vol |-> None, left |-> points.left]
           Walked(old) == IF old.vol.k = "apsb" THEN ViewOf(old.vol, opts.from, old.left)
                          ELSE [recs |-> <<>>, left |-> old.left]
       IN  \E view \in {Walked(Old(SnapshotPoints(Volume[2], cur.left)))} :
           \E gone \in {GoneByName(view.recs, cur.recs, {})} :
               /\ out' = out \o [i \in DOMAIN gone |-> BuildEntry(gone[i], view.recs, "historical", 90)]
               /\ NextVolume([work EXCEPT !.left = view.left], "diff")
    /\ UNCHANGED <<disk, opts>>

Next == \/ Probe \/ Open \/ Targets \/ WalkLive \/ WalkHistory \/ EndHistory
        \/ WalkSnapshot \/ EndSnapshots \/ OrphanScan \/ DiffVolume
Spec == Init /\ [][Next]_vars

-----------------------------------------------------------------------------
(* What the walk promises.  truth maps the path of a file of the current    *)
(* volumes to the places of its units, was the path of one that was deleted *)
(* since.                                                                   *)
Listed ==
    pc = "done" /\ opts.live /\ opts.from = 0 =>
        \A path \in DOMAIN disk.truth : Once(LAMBDA e : e.state = "live" /\ e.path = path, out)

\* A file with a hole.
Misread(units) == NoPlace \in ToSet(units)

Placed ==
    \A i \in DOMAIN out :
        out[i].state = "live" /\ out[i].path \in DOMAIN disk.truth =>
            LET units == disk.truth[out[i].path] IN
            /\ PlacedAs(out[i].ext, units)
            /\ Sure(out[i]) /\ ~Misread(units) => ReadAs(UnitsOf(out[i].ext), units, {})

\* A file of an older checkpoint or snapshot comes back as it was then.
Revived ==
    pc = "done" /\ opts.deleted => \A path \in DOMAIN disk.was :
        \E i \in DOMAIN out : out[i].path = path /\ out[i].state = "historical"
                              /\ UnitsOf(out[i].ext) = disk.was[path]

\* Of one volume no file is both live and deleted, and none is deleted twice
\* under one name.
NoTwice ==
    opts.from = 0 => \A i, j \in DOMAIN out : i # j /\ out[i].vol = out[j].vol =>
        /\ out[i].key # out[j].key
        /\ out[i].id = out[j].id => (out[i].state = "live" <=> out[j].state = "live")

\* A torn superblock is never the current one, and the newest intact one is.
Opened ==
    pc \notin {"probe", "open", "refused"} =>
        \A p \in Ring(disk.blocks[0]) \cap DOMAIN disk.blocks :
            disk.blocks[p].k = "nxsb" /\ disk.blocks[p].sum
            /\ disk.blocks[p].block = disk.blocks[0].block =>
                Newest(work.hist).sum /\ disk.blocks[p].xid <= Newest(work.hist).xid

Rank == CASE pc = "probe" -> <<4, 0, 0, 0>>
          [] pc = "open" -> <<3, 0, 0, 0>>
          [] pc = "targets" -> <<2, 0, 0, 0>>
          [] pc \in {"live", "diff"} -> <<1, Len(work.vols) - work.v + 1, 4, 0>>
          [] pc = "history" -> <<1, Len(work.vols) - work.v + 1, 3, MaxHistory - work.at + 1>>
          [] pc = "snapshots" -> <<1, Len(work.vols) - work.v + 1, 2, Len(work.snaps) - work.at + 1>>
          [] pc = "orphans" -> <<1, Len(work.vols) - work.v + 1, 1, 0>>
          [] OTHER -> <<0, 0, 0, 0>>
Shrinks == Falls(Rank, Rank')
=============================================================================
