------------------------------ MODULE MCImages ------------------------------
(* Small images of every container format, with what their formats say the   *)
(* guest is, and stacks of block sources with their faults.                  *)
EXTENDS Integers, Sequences, TLC

-----------------------------------------------------------------------------
(* Container images: sectors of 2 units, blocks of 4.                        *)
Z(n) == [i \in 1 .. n |-> <<"zero">>]
R(file, pos, n) == [i \in 1 .. n |-> <<"raw", file, pos + i - 1>>]
S(file, pos, n) == [i \in 1 .. n |-> <<"stream", file, pos, i - 1>>]

Nothing == [x \in {} |-> 0]
File(len) == [len |-> len, bad |-> {}, streams |-> Nothing]
Image(magics, files, guest) == [magics |-> magics, files |-> files, guest |-> guest, whole |-> TRUE, absent |-> {}]
Stream(need, gives) == [need |-> need, gives |-> gives]

VdiOf(bat, size) == File(14) @@ [block |-> 4, blocks |-> 3, size |-> size, bat |-> bat, data |-> 2]
VdiImages ==
    {Image({"vdi"}, <<VdiOf(<<1, -1, 0>>, 11)>>, R(1, 6, 4) \o Z(4) \o R(1, 2, 3)),
     Image({"vdi"}, <<VdiOf(<<0, 1, 2>>, 12)>>, R(1, 2, 12)),
     Image({"vdi"}, <<VdiOf(<<2, 1, 0>>, 14)>>, R(1, 10, 4) \o R(1, 6, 4) \o R(1, 2, 4) \o Z(2)),
     Image({"vdi"}, <<VdiOf(<<0, 1>>, 12)>>, <<>>)}

SparseOf(bat, size) == File(16) @@ [block |-> 4, size |-> size, bat |-> bat, data |-> 4, room |-> 4]
SparseImages ==
    {Image({"sparse"}, <<SparseOf(<<2, 0, 1>>, 10)>>, R(1, 8, 4) \o Z(4) \o R(1, 4, 2)),
     Image({"sparse"}, <<SparseOf(<<2, 3>>, 12)>>, R(1, 8, 8) \o Z(4)),
     Image({"sparse"}, <<SparseOf(<<1>>, 40)>>, <<>>)}

VhdOf(type, bat, bitmaps) ==
    File(20) @@ [footer |-> TRUE, dynamic |-> TRUE, type |-> type, block |-> 4, blocks |-> 3, size |-> 10,
                 bat |-> bat, bitmaps |-> bitmaps, span |-> 2]
VhdImages ==
    {Image({"vhd"}, <<VhdOf(2, <<>>, Nothing)>>, R(1, 0, 10)),
     Image({"vhd"}, <<VhdOf(3, <<8, -1, 2>>, (2 :> {0}) @@ (8 :> {1}))>>, Z(2) \o R(1, 12, 2) \o Z(4) \o R(1, 4, 2)),
     Image({"vhd"}, <<VhdOf(4, <<2, 8, -1>>, (2 :> {0, 1}) @@ (8 :> {0, 1}))>>, R(1, 4, 4) \o R(1, 10, 4) \o Z(2)),
     Image({"vhd"}, <<VhdOf(5, <<>>, Nothing)>>, <<>>)}

Bat(state, at) == [state |-> state, at |-> at]
VhdxOf(regions, bat) ==
    File(24) @@ [regions |-> regions, meta |-> TRUE, block |-> 4, size |-> 10, ratio |-> 2, bat |-> bat]
VhdxImages ==
    {Image({"vhdx"}, <<VhdxOf(<<[ok |-> FALSE], [ok |-> TRUE]>>, <<Bat(6, 12), Bat(2, 4), Bat(6, 20), Bat(6, 4)>>)>>,
           R(1, 12, 4) \o Z(4) \o R(1, 4, 2)),
     Image({"vhdx"}, <<VhdxOf(<<[ok |-> TRUE]>>, <<Bat(6, 12), Bat(6, 16)>>)>>, R(1, 12, 8) \o Z(2)),
     Image({"vhdx"}, <<VhdxOf(<<[ok |-> FALSE], [ok |-> FALSE]>>, <<>>)>>, <<>>)}

RawAt(pos) == [k |-> "raw", pos |-> pos]
PackedAt(pos, sectors) == [k |-> "packed", pos |-> pos, sectors |-> sectors]
None == [k |-> "none"]
QcowOf(directory, tables) ==
    [File(24) EXCEPT !.streams = (5 :> Stream(3, 4)) @@ (8 :> Stream(2, 4)) @@ (16 :> Stream(4, 4))]
    @@ [sane |-> TRUE, block |-> 4, size |-> 14, perTable |-> 2, directory |-> directory, tables |-> tables]
QcowImages ==
    {Image({"qcow2", "raw"},
           <<QcowOf(<<20, 22>>, (20 :> <<PackedAt(5, 2), PackedAt(8, 1)>>) @@ (22 :> <<PackedAt(16, 2), RawAt(12)>>))>>,
           S(1, 5, 4) \o S(1, 8, 4) \o S(1, 16, 4) \o R(1, 12, 2)),
     Image({"qcow2"}, <<QcowOf(<<20, 0>>, 20 :> <<RawAt(12), RawAt(8)>>)>>, R(1, 12, 4) \o R(1, 8, 4) \o Z(6)),
     Image({"qcow2"}, <<QcowOf(<<20, 21>>, 20 :> <<None, None>>)>>, <<>>)}
    \cup {[Image({"qcow2"}, <<[QcowOf(<<20>>, 20 :> <<PackedAt(5, 1), PackedAt(8, 9)>>) EXCEPT !.bad = {4, 11}]>>,
                 S(1, 5, 4) \o S(1, 8, 4) \o Z(6)) EXCEPT !.whole = FALSE]}

VmdkOf(directory, tables) ==
    File(24) @@ [sane |-> TRUE, block |-> 4, size |-> 10, perTable |-> 2, directory |-> directory, tables |-> tables]
Vmdk1 == VmdkOf(<<20, 0>>, 20 :> <<RawAt(8), RawAt(12)>>)
VmdkImages ==
    {Image({"vmdk"}, <<Vmdk1>>, R(1, 8, 8) \o Z(2)),
     Image({"vmdk"}, <<VmdkOf(<<20, 23>>, 20 :> <<None, None>>)>>, <<>>)}

Line(kind, file, pos, len) == [kind |-> kind, file |-> file, pos |-> pos, len |-> len]
Descriptor(lines, files, guest) ==
    Image({"descriptor"}, <<File(3) @@ [lines |-> lines]>> \o files, guest)
DescriptorImages ==
    {Descriptor(<<Line("flat", 2, 4, 4), Line("zero", 0, 0, 2), Line("sparse", 3, 0, 10)>>, <<File(8), Vmdk1>>,
                R(2, 4, 4) \o Z(2) \o R(3, 8, 8) \o Z(2)),
     Descriptor(<<Line("flat", 2, 2, 6)>>, <<File(8)>>, R(2, 2, 6)),
     Descriptor(<<Line("flat", 2, 2, 7)>>, <<File(8)>>, <<>>),
     Descriptor(<<Line("flat", 2, 0, 4), Line("sparse", 3, 0, 10)>>, <<File(8)>>, <<>>)}

SplitOf(absent, guest) == [Image({"split"}, <<File(4), File(6), File(3)>>, guest) EXCEPT !.absent = absent]
SplitImages ==
    {SplitOf({}, R(1, 0, 4) \o R(2, 0, 6) \o R(3, 0, 2)), SplitOf({3}, R(1, 0, 4) \o R(2, 0, 6)), SplitOf({2}, R(1, 0, 4))}

Block(type, at, len, pos, clen) == [type |-> type, at |-> at, len |-> len, pos |-> pos, clen |-> clen]
BlkxOf(first, data, chunks) == 
    [mish |-> TRUE, closed |-> TRUE, first |-> first, data |-> data, chunks |-> chunks]
Plist == [BlkxOf(0, 0, <<Block("raw", 0, 4, 4, 4)>>) EXCEPT !.mish = FALSE]
DmgOf(blobs, size) ==
    [File(24) EXCEPT !.streams = (6 :> Stream(3, 4)) @@ (9 :> Stream(2, 2))]
    @@ [footer |-> TRUE, fork |-> 2, blobs |-> blobs, size |-> size]
DmgImages ==
    {Image({"dmg"},
           <<DmgOf(<<Plist, BlkxOf(6, 2, <<Block("zero", 0, 2, 0, 0), Block("packed", 2, 2, 5, 2), Block("raw", 6, 2, 10, 2),
                                    Block("end", 8, 0, 0, 0)>>),
                     BlkxOf(0, 0, <<Block("packed", 0, 4, 4, 3), Block("raw", 4, 2, 10, 2)>>)>>, 16)>>,
           S(1, 6, 4) \o R(1, 12, 2) \o Z(2) \o S(1, 9, 2) \o Z(2) \o R(1, 14, 2) \o Z(2)),
     Image({"dmg"}, <<DmgOf(<<BlkxOf(0, 0, <<Block("raw", 0, 4, 4, 4), Block("raw", 4, 4, 8, 4)>>)>>, 0)>>, R(1, 6, 8)),
     Image({"dmg"}, <<DmgOf(<<Plist, [BlkxOf(0, 0, <<>>) EXCEPT !.closed = FALSE]>>, 4)>>, <<>>)}

Section(k, next) ==
    [k |-> k, next |-> next, ok |-> TRUE, chunk |-> 4, chunks |-> 4, size |-> 14, base |-> 10, entries |-> <<>>]
Cells(next, entries) == [Section("table", next) EXCEPT !.entries = entries]
Cell(at, packed) == [at |-> at, packed |-> packed]
EwfOne ==
    [File(20) EXCEPT !.streams = 10 :> Stream(3, 4)]
    @@ [footer |-> TRUE,
        sections |-> (1 :> Section("volume", 3)) @@ (3 :> Cells(5, <<Cell(0, TRUE), Cell(3, FALSE)>>))
                     @@ (5 :> Section("next", 5))]
EwfTwo(next, packed) ==
    [File(20) EXCEPT !.streams = (10 :> Stream(3, 4)) @@ (14 :> Stream(2, 2))]
    @@ [footer |-> TRUE,
        sections |-> (1 :> Section("volume", 3)) @@ (3 :> Cells(next, <<Cell(0, TRUE), Cell(4, packed)>>))
                     @@ (6 :> Section("done", 6))]
EwfImages ==
    {Image({"ewf"}, <<EwfOne, EwfTwo(next, packed)>>,
           S(1, 10, 4) \o R(1, 13, 4) \o S(2, 10, 4) \o (IF packed THEN S(2, 14, 2) ELSE R(2, 14, 2))) :
        next \in {6, 2}, packed \in BOOLEAN}
    \cup {Image({"ewf"}, <<EwfOne, File(9) @@ [footer |-> FALSE, sections |-> Nothing]>>, <<>>)}

WholeImages ==
    UNION {VdiImages, SparseImages, VhdImages, VhdxImages, QcowImages, VmdkImages, DescriptorImages, SplitImages,
           DmgImages, EwfImages, {Image({}, <<File(7)>>, R(1, 0, 7))}}
\* The same with a sector of the first file that cannot be read.
Scratched ==
    {[d EXCEPT !.files[1].bad = {b}, !.whole = FALSE] : d \in {x \in WholeImages : x.whole}, b \in {2, 4, 6}}
MCImages == WholeImages \cup Scratched

MCImageReads ==
    {<<<<0, 16>>>>, <<<<2, 4>>, <<0, 6>>, <<6, 8>>, <<2, 4>>>>, <<<<1, 3>>, <<4, 3>>, <<8, 20>>, <<40, 2>>>>}

-----------------------------------------------------------------------------
(* Block stacks: sectors of 2 units, chunks of 4 in the cache.               *)
NoMap == [bad |-> {}, unread |-> {}, done |-> {}, frames |-> {}, chunk |-> 4]
Stack(base, len, have, bad, faults, view, cached) ==
    [base |-> base, len |-> len, have |-> have, bad |-> bad, faults |-> faults, view |-> view,
     cached |-> cached, map |-> NoMap]
MCStacks ==
    {Stack(base, 15, have, bad, faults, view, cached) :
        base \in {"device", "image", "memory"}, have \in {15, 9}, bad \in {{}, {1, 2}, {5}},
        faults \in {{}, {3}}, view \in {<<>>, <<4, 8>>, <<2, 4>>}, cached \in BOOLEAN}
    \cup {Stack("device", 15, 15, {}, {}, view, TRUE) : view \in {<<3, 4>>, <<8, 8>>, <<4, 5>>}}
    \cup {[Stack("mapped", 15, 15, {4}, {}, view, cached) EXCEPT !.map = map] :
            view \in {<<>>, <<4, 8>>}, cached \in BOOLEAN,
            map \in {[NoMap EXCEPT !.bad = {1}, !.unread = {1, 3, 6}, !.done = {0, 1, 2}],
                     [NoMap EXCEPT !.unread = {5}, !.done = {0, 1, 2, 3},
                                   !.frames = {[at |-> 0, len |-> 6, ok |-> TRUE], [at |-> 6, len |-> 9, ok |-> FALSE]}]}}
MCStackReads ==
    {<<<<0, 16>>>>, <<<<2, 7>>, <<0, 3>>, <<8, 6>>, <<2, 2>>>>, <<<<1, 4>>, <<6, 9>>, <<14, 4>>, <<20, 2>>>>}
=============================================================================
