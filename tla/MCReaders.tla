----------------------------- MODULE MCReaders -----------------------------
(* Small volumes of every kind for TLC: each set has the shapes in which a    *)
(* walk can go wrong (loops, torn structures, reused space, copies).  The     *)
(* other sources are in MCSources, MCImages, MCRecovery and MCCarve.         *)
EXTENDS Readers, TLC

Tables == INSTANCE MCSources
Guests == INSTANCE MCImages
Copies == INSTANCE MCRecovery
Carves == INSTANCE MCCarve

MCKinds == {"fat", "exfat", "ntfs", "ext", "hfs", "apfs", "iso", "parts", "lost", "image", "stack", "recover",
            "carve"}

Req(l, d, m) == [live |-> l, deleted |-> d, max |-> m, system |-> FALSE, from |-> 0]
MCRequests ==
    {Req(TRUE, TRUE, 9), Req(TRUE, TRUE, 2), Req(FALSE, TRUE, 9), Req(TRUE, FALSE, 9),
     [Req(TRUE, TRUE, 9) EXCEPT !.from = 4]}

MCTableDisks == Tables!MCTables
MCLostDisks == Tables!MCLost
MCInternal == Tables!MCInternal
MCImages == Guests!MCImages
MCImageReads == Guests!MCImageReads
MCStacks == Guests!MCStacks
MCStackReads == Guests!MCStackReads
MCJobs == Copies!MCJobs
MCAsks == Copies!MCAsks
MCCarved == Carves!MCMedia
MCScans == Carves!MCScans

-----------------------------------------------------------------------------
(* FAT: clusters 2 to 6 of two sectors.                                    *)
FatRec(del, dir, ch, key, hi, lo, size) ==
    [k |-> "rec", deleted |-> del, dir |-> dir, char |-> ch, key |-> key,
     hi |-> hi, lo |-> lo, size |-> size]
Piece(p) == [k |-> "lfn", char |-> p]
Label == [k |-> "label", deleted |-> FALSE, char |-> "V", key |-> "k"]

Bpb16 == [sector |-> 1, perCluster |-> 2, reserved |-> 1, fats |-> 2, fatSize |-> 1,
          rootSectors |-> 1, total |-> 12, rootCluster |-> 0]
Bpb32 == [Bpb16 EXCEPT !.reserved = 2, !.fats = 1, !.fatSize = 2, !.rootSectors = 0,
                       !.total = 14, !.rootCluster = 2]
EndMark == 99
FatTables ==
    {(2 :> a) @@ (3 :> b) @@ (4 :> c) @@ (5 :> e) @@ (6 :> f) :
        a \in {EndMark, 3}, b \in {0, 4, 2, EndMark}, c \in {0, 3, 6}, e \in {0, EndMark},
        f \in {0, EndMark}}

FA == FatRec(FALSE, FALSE, "A", "k", 0, 3, 3)
FB == FatRec(TRUE, FALSE, "?", "k", 0, 4, 3)
FC == FatRec(TRUE, FALSE, "?", "k", 0, 1, 2)
FD == FatRec(FALSE, TRUE, "D", "d", 1, 1, 0)
FL == FatRec(FALSE, TRUE, "L", "d", 0, 2, 0)
FDot == FatRec(FALSE, TRUE, ".", "", 0, 2, 0)
FatRoots == {<<Piece("q"), Piece("p"), FA, FB>>, <<FL, FA, FC, FD>>, <<FD, FL, [k |-> "end"], FA>>,
             <<Label, Piece("p"), FC, FD, FL>>}
FatSubs == {<<FDot, FA, FL>>, <<FDot, FD, FB>>}

FatDisk(fat, root, sub, bpb) ==
    [bpb |-> bpb, backup |-> Bpb32, signed |-> TRUE, foreign |-> FALSE, fat |-> fat, entries |-> 9,
     fatsMatch |-> TRUE, root |-> IF bpb = Bpb16 THEN root ELSE <<>>,
     slots |-> (2 :> IF bpb = Bpb16 THEN sub ELSE root) @@ (5 :> sub), bad |-> {},
     head |-> 5 :> 1, was |-> (4 :> <<4, 5>>) @@ (5 :> <<5>>)]
MCFatDisks ==
    {FatDisk(fat, root, sub, bpb) :
        fat \in FatTables, root \in FatRoots, sub \in FatSubs, bpb \in {Bpb16, Bpb32}}
    \cup {[FatDisk(2 :> 0, <<FA>>, <<FA>>, Bpb16) EXCEPT !.signed = FALSE]}

-----------------------------------------------------------------------------
(* exFAT: clusters 2 to 6 of two sectors; the root is cluster 2.            *)
ExSet(del, dir, name, first, len, noChain) ==
    <<[k |-> "file", deleted |-> del, dir |-> dir, secondary |-> 2],
      [k |-> "stream", first |-> first, len |-> len, noChain |-> noChain, names |-> 1],
      [k |-> "name", piece |-> name]>>
ExBoot(shift) == [named |-> TRUE, shift |-> shift, perCluster |-> 1, cluster |-> 2, count |-> 5,
                  heap |-> 4, total |-> 14, rootCluster |-> 2]
Torn(boot) == [boot EXCEPT !.named = FALSE]
ExBoots ==
    {[main |-> ExBoot(1), backup |-> <<>>],
     [main |-> Torn(ExBoot(1)), backup |-> (1 :> ExBoot(2)) @@ (2 :> ExBoot(2))],
     [main |-> Torn(ExBoot(1)), backup |-> 1 :> ExBoot(2)]}
ExBitmap == <<[k |-> "bitmap", first |-> 6, len |-> 1]>>
ExRoots ==
    {ExBitmap \o ExSet(FALSE, FALSE, "a", 3, 3, FALSE) \o ExSet(TRUE, FALSE, "b", 4, 4, FALSE),
     ExSet(FALSE, TRUE, "s", 5, 2, TRUE) \o ExSet(TRUE, FALSE, "b", 4, 3, TRUE),
     ExBitmap \o ExSet(TRUE, TRUE, "x", 5, 2, FALSE) \o ExSet(FALSE, TRUE, "l", 2, 2, FALSE),
     \* a deleted set whose first entry a new set has taken
     ExSet(FALSE, FALSE, "e", 6, 1, TRUE) \o SubSeq(ExSet(TRUE, FALSE, "b", 4, 3, FALSE), 2, 3) \o ExSet(FALSE, FALSE, "a", 3, 2, TRUE)}
ExSubs == {ExSet(FALSE, FALSE, "c", 3, 2, FALSE) \o ExSet(FALSE, TRUE, "m", 5, 2, FALSE),
           ExSet(TRUE, FALSE, "d", 3, 3, FALSE)}
ExFats == {(2 :> EndMark) @@ (3 :> b) @@ (4 :> c) @@ (5 :> EndMark) @@ (6 :> EndMark) :
             b \in {4, EndMark, 3}, c \in {0, 5}}
MCExfatDisks ==
    {[main |-> boot.main, backup |-> boot.backup, fat |-> fat, slots |-> (2 :> root) @@ (5 :> sub),
      bad |-> bad, bits |-> bits, checksum |-> TRUE, was |-> 4 :> <<4, 5>>] :
        boot \in ExBoots, fat \in ExFats, root \in ExRoots, sub \in ExSubs, bad \in {{}, {5}},
        bits \in {{0, 1, 4}, {0, 1, 3, 4}}}

-----------------------------------------------------------------------------
(* NTFS: clusters of four units, records of two sectors of two units, of each *)
(* of which the last is altered.  The MFT is in two runs.                     *)
Run(delta, len) == [hole |-> FALSE, delta |-> delta, len |-> len]
Hole(len) == [hole |-> TRUE, delta |-> 0, len |-> len]
Data(size, runs) == [name |-> "", resident |-> FALSE, size |-> size, runs |-> runs, at |-> 0,
                     sparse |-> \E i \in DOMAIN runs : runs[i].hole]
Here(size) == [name |-> "", resident |-> TRUE, size |-> size, runs |-> <<>>, at |-> 2, sparse |-> FALSE]
NtRec(live, dir, name, parent, attrs) ==
    [live |-> live, dir |-> dir, attrs |-> attrs, index |-> <<>>,
     names |-> <<[name |-> name \o "~1", type |-> 2, parent |-> parent],
                 [name |-> name, type |-> 1, parent |-> parent]>>]
NtUser == {<<NtRec(TRUE, TRUE, "d", 5, <<>>), NtRec(TRUE, FALSE, "a", 1, <<Data(9, <<Run(12, 1), Hole(1), Run(-1, 1)>>)>>)>>,
           <<NtRec(TRUE, TRUE, "d", 3, <<>>), NtRec(TRUE, FALSE, "a", 5, <<Data(5, <<Run(11, 2)>>)>>)>>,
           <<NtRec(TRUE, TRUE, "d", 1, <<>>), NtRec(TRUE, FALSE, "a", 5, <<Here(1)>>)>>,
           <<NtRec(TRUE, TRUE, "d", 5, <<>>), NtRec(TRUE, FALSE, "a", 1, <<Here(2)>>)>>}
NtThird == {NtRec(FALSE, FALSE, "b", 1, <<Here(1)>>), NtRec(FALSE, TRUE, "e", 1, <<>>),
            [NtRec(TRUE, FALSE, "b", 1, <<>>) EXCEPT !.names = <<>>]}
Name(ref, name, parent) == [ref |-> ref, name |-> name, parent |-> parent]
NtUnits(size) ==
    CASE size = 9 -> <<48, 49, 50, 51, -1, -1, -1, -1, 44>>
      [] size = 5 -> <<44, 45, 46, 47, 48>>
      [] OTHER -> SubSeq(<<18, 19>>, 1, size)
NtDisk(user, third, mftRuns) ==
    LET records ==
            (8 :> NtRec(TRUE, FALSE, "$MFT", 5, <<Data(28, mftRuns)>>)) @@ (12 :> [user[1] EXCEPT
                  !.index = <<Name(9, "gone", 1), Name(2, "a", 1)>>]) @@ (16 :> user[2])
            @@ (20 :> third) @@ (28 :> [NtRec(TRUE, FALSE, "$UsnJrnl", 5, <<>>) EXCEPT
                  !.attrs = <<[Here(1) EXCEPT !.name = "$J"]>>])
            @@ (32 :> NtRec(TRUE, TRUE, "r", 5, <<>>)) @@ (36 :> NtRec(TRUE, FALSE, "$Bitmap", 5, <<Here(2)>>))
            @@ (52 :> NtRec(TRUE, FALSE, "o", 5, <<Data(2, <<Run(10, 1)>>)>>))
    IN  [oem |-> "NTFS", signed |-> TRUE, cluster |-> 4, record |-> 4, total |-> 60, mft |-> 8,
         records |-> records, altered |-> UNION {{off + 1, off + 3} : off \in DOMAIN records},
         journal |-> <<Name(9, "gone", 1), Name(9, "old", 5), Name(2, "a", 1)>>,
         bitCount |-> 15, bits |-> {2, 3, 4, 5, 7, 8, 9},
         truth |-> 2 :> [path |-> IF user[2].names[1].parent = 1 THEN <<"d", "a">> ELSE <<"a">>,
                         units |-> NtUnits(user[2].attrs[1].size)]]
MCNtfsDisks ==
    {NtDisk(user, third, <<Run(2, 4), Run(5, 3)>>) : user \in NtUser, third \in NtThird}
    \cup {[NtDisk(user, NtRec(FALSE, FALSE, "b", 1, <<Here(1)>>), <<Run(2, 4), Run(5, 3)>>)
             EXCEPT !.oem = o] : user \in NtUser, o \in {"NTFS", "zero"}}

-----------------------------------------------------------------------------
(* ext: blocks of one unit or two; the root directory is block 20.           *)
ExtSb(valid, bs) == [magic |-> valid, perGroup |-> 8, inodesPerGroup |-> 16, groups |-> 1, block |-> bs,
                     blocks |-> 40, inodes |-> 16]
Leaf(log, len, phys) == [log |-> log, len |-> len, phys |-> phys]
Tree(depth, entries) == [kind |-> "tree", magic |-> TRUE, max |-> 4, depth |-> depth, entries |-> entries]
Classic(direct, single, double, triple) ==
    [kind |-> "classic", direct |-> direct, single |-> single, double |-> double, triple |-> triple]
Zero == [kind |-> "zero"]
Inode(type, size, map, links) == [type |-> type, size |-> size, map |-> map, links |-> links, dtime |-> links = 0]
DirRec(ino, name, type, slack) == [ino |-> ino, name |-> name, type |-> type, slack |-> slack]
Slack(ino, name) == [ino |-> ino, name |-> name, type |-> "file"]
ExtUnits(blocks, bs, size) ==
    [u \in 1 .. size |-> LET b == blocks[1 + ((u - 1) \div bs)] IN IF b = -1 THEN -1 ELSE b * bs + ((u - 1) % bs)]

\* A map, the nodes it takes, the blocks the file has, and those not written yet.
ExtMap(map, nodes, blocks, unwritten) ==
    [map |-> map, nodes |-> nodes, blocks |-> blocks, unwritten |-> unwritten]
ExtMaps ==
    {ExtMap(Tree(1, <<30>>), 2, <<26, 27, 28>>, {}),
     ExtMap(Classic(<<21, 25>>, 22, 0, 0), 1, <<21, 25, 23, 24>>, {}),
     \* one that is a double and one that is a triple indirect block, with holes
     ExtMap(Classic(<<21, 0>>, 22, 27, 0), 4, <<21, -1, 23, 24, -1, -1, 32>>, {}),
     ExtMap(Classic(<<0, 21>>, 0, 0, 31), 3, <<-1, 21, -1, -1, -1, -1, -1, -1, 32>>, {}),
     \* a gap, and runs that are not written yet
     ExtMap(Tree(0, <<Leaf(2, 1, 25), Leaf(0, 1, 21)>>), 1, <<21, -1, 25>>, {}),
     ExtMap(Tree(0, <<Leaf(0, 1, 21), Leaf(1, 2, 25)>>), 1, <<21, 25, 26>>, {25, 26}),
     \* more nodes and more blocks than are read
     ExtMap(Tree(2, <<28, 32>>), 6, <<21, 25, 23, 24>>, {}),
     ExtMap(Tree(0, <<Leaf(0, 7, 21)>>), 1, <<21, 22, 23, 24, 25, 26, 27>>, {})}
ExtSupers == {<<ExtSb(TRUE, 1), <<>>>>, <<ExtSb(FALSE, 1), 9 :> ExtSb(TRUE, 1)>>, <<ExtSb(TRUE, 2), <<>>>>,
              <<ExtSb(FALSE, 1), (9 :> ExtSb(TRUE, 2)) @@ (8 :> ExtSb(TRUE, 1))>>,
              <<ExtSb(FALSE, 2), (9 :> ExtSb(TRUE, 2)) @@ (32 :> ExtSb(TRUE, 2))>>}
\* The journal has one copy of inode 13, or that of a shorter file before it.
ExtCopy(blocks) == [k |-> "inodes", inodes |-> 13 :> Inode("file", blocks, Tree(0, <<Leaf(0, 2, 37)>>), 1)]
ExtJournals == {<<ExtCopy(2)>>, <<ExtCopy(1), ExtCopy(2)>>}
ExtDisk(sb, m, gone, loop, copies) ==
    LET bs == sb[1].block
        odd(blocks) == Len(blocks) * bs - bs + 1
    IN
    [primary |-> sb[1], supers |-> sb[2], backupGroups |-> {1}, blockSizes |-> <<1, 4, 2>>,
     intact |-> {at \in DOMAIN sb[2] : at = IF sb[2][at].block = 1 THEN 9 ELSE 32},
     addressable |-> 40, used |-> 20 .. 32,
     inodes |-> (2 :> Inode("dir", bs, Tree(0, <<Leaf(0, 1, 20)>>), 2))
                @@ (11 :> Inode("file", odd(m.blocks), m.map, 1))
                @@ (12 :> Inode("dir", bs, Tree(0, <<Leaf(0, 1, 31)>>), 2))
                @@ (13 :> Inode("file", 0, Zero, 0)) @@ (14 :> gone)
                @@ (15 :> Inode("file", 2, Tree(0, <<Leaf(0, 2, 34)>>), 0)),
     nodes |-> (30 :> Tree(0, <<Leaf(0, 2, 26), Leaf(2, 1, 28)>>)) @@ (33 :> Tree(0, <<Leaf(0, 1, 36)>>))
               @@ (28 :> Tree(1, <<27, 22>>)) @@ (27 :> Tree(0, <<Leaf(0, 1, 21)>>))
               @@ (22 :> Tree(0, <<Leaf(1, 1, 25)>>)) @@ (32 :> Tree(1, <<29>>))
               @@ (29 :> Tree(0, <<Leaf(2, 2, 23)>>)),
     indirect |-> (22 :> <<23, 24>>) @@ (27 :> <<0, 28>>) @@ (28 :> <<32, 0>>) @@ (31 :> <<0, 27>>), ppb |-> 2,
     dirs |-> (20 :> <<DirRec(2, ".", "dir", <<>>), DirRec(12, "d", "dir", <<>>),
                       DirRec(11, "f", "file", <<Slack(13, "x"), Slack(99, "z")>>)>>)
              @@ (31 :> <<DirRec(0, "", "file", <<Slack(14, "y")>>), DirRec(loop, "r", "dir", <<>>)>>),
     journal |-> <<[k |-> "super"], [k |-> "descriptor", tags |-> Len(copies) + 1]>> \o copies
                 \o <<[k |-> "other"], [k |-> "descriptor", tags |-> 1],
                      [k |-> "inodes", inodes |-> 13 :> Inode("file", 0, Zero, 0)]>>,
     altered |-> {b * bs + u : b \in m.unwritten, u \in 0 .. bs - 1},
     truth |-> <<"f">> :> [nodes |-> m.nodes, units |-> ExtUnits(m.blocks, bs, odd(m.blocks))],
     was |-> <<"x">> :> {ExtUnits(<<37, 38>>, bs, copies[i].inodes[13].size) : i \in DOMAIN copies}]
ExtGone == Inode("file", 1, Tree(0, <<Leaf(0, 1, 39)>>), 0)
MCExtDisks ==
    {ExtDisk(sb, m, gone, loop, <<ExtCopy(2)>>) : sb \in ExtSupers, m \in ExtMaps, loop \in {2, 12, 9},
        gone \in {ExtGone, Inode("dir", 1, Zero, 2), Inode("file", 0, Zero, 0)}}
    \cup {ExtDisk(sb, m, ExtGone, 9, copies) : sb \in ExtSupers, m \in ExtMaps, copies \in ExtJournals}

-----------------------------------------------------------------------------
(* HFS+: blocks of two units, nodes of two blocks in three extents.         *)
ForkOf(ext) == [u \in 1 .. 2 * Len(ext) |-> 2 * ext[1 + ((u - 1) \div 2)][1] + ((u - 1) % 2)]
HfsHeader(valid) ==
    [signed |-> valid, block |-> 2, blocks |-> 16, node |-> 4, firstLeaf |-> 1,
     catalog |-> <<<<3, 1>>, <<6, 4>>, <<12, 1>>>>, alloc |-> <<<<2, 1>>>>]
File(parent, name, cnid, size, ext) ==
    [k |-> "file", parent |-> parent, name |-> name, cnid |-> cnid, size |-> size, ext |-> ext,
     text |-> TRUE, dated |-> TRUE, at |-> 0, whole |-> TRUE]
Folder(parent, name, cnid) == [File(parent, name, cnid, 0, <<>>) EXCEPT !.k = "folder"]
\* The third file has one extent more than its record holds.
HfsFiles == {File(2, "a", 17, 3, <<<<4, 1>>, <<14, 1>>>>), File(18, "a", 17, 2, <<<<5, 1>>, <<15, 1>>>>),
             File(2, "a", 17, 7, <<<<4, 1>>, <<14, 1>>, <<5, 1>>, <<15, 1>>>>)}
HfsTruth(f) == [path |-> IF f.parent = 2 THEN <<"a">> ELSE <<"d", "a">>, pieces |-> Len(f.ext),
                units |-> SubSeq(ForkOf(f.ext), 1, f.size)]
At(r, off) == [r EXCEPT !.at = off]
HfsSweeps(f) == {<<At(File(2, "x", 19, 2, <<<<5, 1>>>>), off), At(f, 13), At(File(2, "x", 19, 2, <<<<5, 1>>>>), 17),
                   [At(File(2, "y", 20, 2, <<<<15, 1>>>>), last) EXCEPT !.dated = dated]>> :
                     off \in {3, 12}, last \in {22, 29}, dated \in BOOLEAN}
                \cup {<<At(File(2, "x", 19, 2, <<<<5, 1>>>>), off)>> : off \in 0 .. 29}
HfsDisk(first, second, f, link, sweep) ==
    [total |-> 32, header |-> HfsHeader(first), alternate |-> HfsHeader(second), bits |-> {3, 6, 7},
     nodes |-> (<<14, 15, 16, 17>> :> [leaf |-> TRUE, link |-> 2, recs |-> <<[k |-> "thread"], Folder(2, "d", 18)>>])
               @@ (<<18, 19, 24, 25>> :> [leaf |-> TRUE, link |-> link, recs |-> <<f>>]),
     sweep |-> sweep, truth |-> 17 :> HfsTruth(f)]
MCHfsDisks ==
    UNION {{HfsDisk(up[1], up[2], f, link, sweep) : link \in {0, 1, 2}, sweep \in HfsSweeps(f)} :
             f \in HfsFiles, up \in {<<TRUE, TRUE>>, <<FALSE, TRUE>>, <<FALSE, FALSE>>}}

-----------------------------------------------------------------------------
(* APFS: transactions 4 and 5, blocks of two units, files from block 50 on. *)
Nx(xid, sum, fs) ==
    [k |-> "nxsb", sum |-> sum, xid |-> xid, block |-> 2, blocks |-> 60, omap |-> 10, fs |-> fs,
     descBase |-> 1, descBlocks |-> 3]
Omap(tree) == [k |-> "omap", sum |-> TRUE, tree |-> tree]
Node(oid, xid, level, sub, recs) ==
    [k |-> "node", sum |-> TRUE, oid |-> oid, xid |-> xid, level |-> level, sub |-> sub, recs |-> recs]
Place(oid, xid, at) == [oid |-> oid, xid |-> xid, at |-> at]
Apsb(snaps, system) ==
    [k |-> "apsb", sum |-> TRUE, omap |-> 30, root |-> 200, snaps |-> snaps, system |-> system]
Drec(parent, name, id, dir) == [t |-> "drec", parent |-> parent, name |-> name, id |-> id, dir |-> dir]
Ino(id, size) == [t |-> "inode", id |-> id, size |-> size]
Ext1(id, logical, phys, len) == [t |-> "extent", id |-> id, logical |-> logical, phys |-> phys, len |-> len]

ApA == <<Drec(2, "a", 20, FALSE), Ino(20, 5), Ext1(20, 4, 52, 2), Ext1(20, 0, 50, 4)>>
ApB == <<Drec(17, "b", 21, FALSE), Ino(21, 0), Ext1(21, 0, 54, 2)>>
ApD == <<Drec(2, "d", 17, TRUE), Ino(17, 0)>>
ApHole == <<Drec(2, "h", 22, FALSE), Ino(22, 6), Ext1(22, 0, 52, 2), Ext1(22, 2, 0, 2), Ext1(22, 4, 56, 2)>>
ApRenamed == <<Drec(2, "e", 20, FALSE), Ino(20, 5), Ext1(20, 4, 52, 2), Ext1(20, 0, 50, 4)>>

\* The ring, and what the tree of transaction 5 has: the file renamed or not,
\* a second leaf in place or its block reused, by a copy that is a transaction late.
ApfsDisk(torn, now, reused, snaps, systems) ==
    [blocks |->
        (0 :> Nx(4, ~torn, <<100>>)) @@ (1 :> Nx(4, TRUE, <<100>>))
        @@ (2 :> Nx(5, TRUE, <<100, 101>>)) @@ (3 :> Nx(6, FALSE, <<100>>)) @@ (10 :> Omap(11))
        @@ (11 :> Node(11, 5, 0, "omap", <<Place(100, 5, 21), Place(100, 4, 20), Place(101, 5, 22)>>))
        @@ (20 :> Apsb(0, FALSE)) @@ (21 :> Apsb(snaps, 1 \in systems)) @@ (22 :> [Apsb(0, 2 \in systems) EXCEPT !.omap = 32])
        @@ (30 :> Omap(31)) @@ (32 :> Omap(0))
        @@ (31 :> Node(31, 5, 0, "omap", <<Place(200, 4, 40), Place(200, 5, 41), Place(201, 4, 42), Place(202, 5, 43)>>))
        @@ (40 :> Node(200, 4, 1, "fstree", <<201>>)) @@ (41 :> Node(200, 5, 1, "fstree", <<202, 201, 202, 203>>))
        @@ (42 :> IF reused THEN Node(299, 5, 0, "fstree", ApB) ELSE Node(201, 4, 0, "fstree", ApA \o ApD \o ApB))
        @@ (43 :> Node(202, 5, 0, "fstree", now)) @@ (44 :> Node(201, 3, 0, "fstree", ApB))
        @@ (45 :> Node(45, 5, 0, "snap", <<[xid |-> 4, sblock |-> 20], [xid |-> 3, sblock |-> 0]>>)),
     truth |-> IF reused THEN (IF now = ApA THEN <<"a">> :> <<100, 101, 102, 103, 104>>
                               ELSE IF now = ApRenamed THEN <<"e">> :> <<100, 101, 102, 103, 104>> ELSE <<>>)
               ELSE <<"d", "b">> :> <<108, 109>>,
     was |-> <<>>]
\* The same with the leaf of transaction 4 not in the tree of transaction 5.
ApfsDeleted(now, snaps) ==
    LET d == ApfsDisk(FALSE, now, FALSE, snaps, {2})
    IN  [d EXCEPT !.blocks = (41 :> Node(200, 5, 1, "fstree", <<202>>)) @@ @,
                  !.truth = IF now = ApA THEN <<"a">> :> <<100, 101, 102, 103, 104>>
                            ELSE IF now = ApHole THEN <<"h">> :> <<104, 105, -1, -1, 112, 113>>
                            ELSE <<"e">> :> <<100, 101, 102, 103, 104>>,
                  !.was = <<"d", "b">> :> <<108, 109>>]
MCApfsDisks ==
    {ApfsDisk(torn, ApD, reused, snaps, systems) :
        torn \in BOOLEAN, reused \in BOOLEAN, snaps \in {0, 45}, systems \in {{}, {2}, {1, 2}}}
    \cup {ApfsDeleted(now, snaps) : now \in {ApA, ApRenamed, ApHole}, snaps \in {0, 45}}

-----------------------------------------------------------------------------
(* ISO 9660: blocks of two units.                                          *)
Vd(type, at) == [cd001 |-> TRUE, type |-> type, at |-> at, len |-> 2, block |-> 2]
IsoRec(dir, name, at, len) == [k |-> "rec", dir |-> dir, name |-> name, at |-> at, len |-> len]
IsoSelf == [k |-> "self", name |-> "."]
IsoDirs == {<<IsoSelf, IsoRec(FALSE, "f", 9, 3), IsoRec(TRUE, "d", 6, 1)>>,
            <<IsoSelf, IsoRec(TRUE, "d", 4, 2), IsoRec(FALSE, "", 9, 3), IsoRec(FALSE, "f", 9, 3)>>,
            <<IsoRec(FALSE, "f", 9, 3), [k |-> "cut"], IsoRec(FALSE, "h", 9, 3)>>}
IsoDescriptors == {<<Vd("primary", 4), Vd("joliet", 7), Vd("end", 0)>>, <<Vd("primary", 7), Vd("end", 0), Vd("joliet", 4)>>,
                   <<Vd("primary", 0), Vd("end", 0)>>, <<>>}
IsoRoot(vds) == IF vds = <<>> THEN 0 ELSE IF Len(vds) = 3 /\ vds[2].type = "joliet" THEN 7 ELSE vds[1].at
MCIsoDisks ==
    {[descriptors |-> vds, udf |-> udf, sector |-> 2,
      sectors |-> (4 :> <<IsoSelf>>) @@ (6 :> <<IsoRec(FALSE, "g", 10, 1), IsoRec(TRUE, "u", 7, 2)>>)
                  @@ (7 :> recs) @@ (8 :> more),
      truth |-> IF IsoRoot(vds) = 7 THEN <<"f">> :> <<18, 19, 20>> ELSE <<>>] :
        vds \in IsoDescriptors, recs \in IsoDirs, more \in {<<>>, <<IsoRec(TRUE, "d", 6, 1)>>}, udf \in BOOLEAN}
=============================================================================
