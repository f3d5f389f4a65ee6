----------------------------- MODULE Containers -----------------------------
(* The container images of reclaim-block: each format's tables become parts   *)
(* of segments, and the guest image is read through them.  A disk has files,  *)
(* the first is the one that was opened; absent are those that are not there, *)
(* and a table that cannot be read is <<>>.                                   *)
EXTENDS Segments

CONSTANTS
    Disks,     \* the images given to the program
    Requests,  \* the reads asked of one: <<offset, length>> in order
    MaxBlocks, \* blocks, clusters, grains or chunks of an image
    MaxSections\* sections followed of a segment file (100,000)

VARIABLES
    pc,     \* probe, open, walk, done or refused
    disk,
    opts,   \* the requests
    work,   \* how many of them are left
    seen,   \* the decoded blocks, in order of use
    out     \* what was read: [off, got], and the parts [parts]

vars == <<pc, disk, opts, work, seen, out>>

-----------------------------------------------------------------------------
\* The order in which the magics are tried; a descriptor is text.
Order == <<"qcow2", "vmdk", "descriptor", "vhdx", "ewf", "sparse", "vdi", "dmg", "vhd", "split">>
LooksLikeSplit(d) == "split" \in d.magics /\ 2 \in DOMAIN d.files \ d.absent
Kind(d) ==
    LET i == SelectInSeq(Order, LAMBDA m : IF m = "split" THEN LooksLikeSplit(d) ELSE m \in d.magics)
    IN  IF i = 0 THEN "raw" ELSE Order[i]

Refused == [ok |-> FALSE]
Opened(parts) == [ok |-> TRUE, parts |-> parts]

-----------------------------------------------------------------------------
(* The formats with a table of blocks: each block of the guest is a sequence *)
(* of pieces <<length, piece>>; what is past the table is zero.              *)
\* The units of block i, of which the last one may be cut.
Span(f, i) == Least(f.block, Monus(f.size, i * f.block))
Grid(blocks, size) ==
    LET Block(segs, pieces) == FoldLeft(LAMBDA s, p : Push(s, p[1], p[2]), segs, pieces)
    IN  PadTo(FoldLeft(Block, <<>>, blocks), size)

Entry(table, i) == IF i + 1 \in DOMAIN table THEN table[i + 1] ELSE 0

OpenVdi(f) ==
    LET Piece(i) == <<<<Span(f, i), IF f.bat[i + 1] < 0 THEN Zero ELSE Raw(f.data + f.bat[i + 1] * f.block)>>>>
    IN  IF f.block = 0 \/ f.blocks = 0 \/ f.blocks > MaxBlocks \/ Len(f.bat) < f.blocks THEN Refused
        ELSE Opened(<<Part(1, Grid([i \in 1 .. f.blocks |-> Piece(i - 1)], f.size), f.size)>>)

\* Entry N of the band table is the Nth slot of the data.
OpenSparse(f) ==
    LET bands == CeilDiv(f.size, f.block)
        Piece(i) ==
            <<<<Span(f, i), IF Entry(f.bat, i) = 0 THEN Zero ELSE Raw(f.data + (Entry(f.bat, i) - 1) * f.block)>>>>
    IN  IF f.block = 0 \/ f.size = 0 \/ bands > f.room THEN Refused
        ELSE Opened(<<Part(1, Grid([i \in 1 .. bands |-> Piece(i - 1)], f.size), f.size)>>)

\* A block of a dynamic disk: a bitmap of the sectors that are present, and the
\* sectors.  A bitmap that cannot be read has none.
VhdBlock(f, i) ==
    LET at == Entry(f.bat, i)
        n == Span(f, i)
        bits == IF at \in DOMAIN f.bitmaps THEN f.bitmaps[at] ELSE {}
        Sec(s) == <<Least(Sector, n - s * Sector), IF s \in bits THEN Raw(at + f.span + s * Sector) ELSE Zero>>
    IN  IF at < 0 THEN <<<<n, Zero>>>> ELSE [s \in 1 .. CeilDiv(n, Sector) |-> Sec(s - 1)]

OpenVhd(f) ==
    IF ~f.footer THEN Refused
    ELSE IF f.type = 2 THEN Opened(<<Part(1, Push(<<>>, f.size, Raw(0)), f.size)>>)
    ELSE IF f.type \notin {3, 4} \/ ~f.dynamic \/ f.block = 0 \/ f.block % Sector # 0
            \/ f.blocks \notin 1 .. MaxBlocks \/ Len(f.bat) < f.blocks THEN Refused
    ELSE Opened(<<Part(1, Grid([i \in 1 .. f.blocks |-> VhdBlock(f, i - 1)], f.size), f.size)>>)

RegionTable(f) == SelectInSeq(f.regions, LAMBDA r : r.ok)
Metadata(f) == f.meta /\ f.block > 0 /\ f.size > 0

\* The first region table that is whole; the block table has an entry for a
\* sector bitmap after every ratio blocks.
OpenVhdx(f) ==
    LET at(i) == i + (i \div f.ratio)
        Present(i) == LET e == IF at(i) + 1 \in DOMAIN f.bat THEN f.bat[at(i) + 1] ELSE [state |-> 0, at |-> 0]
                      IN  IF e.state = 6 /\ e.at # 0 THEN Raw(e.at) ELSE Zero
        Piece(i) == <<<<Span(f, i), Present(i)>>>>
        count == CeilDiv(f.size, f.block)
    IN  IF RegionTable(f) = 0 \/ ~Metadata(f) THEN Refused
        ELSE IF count > MaxBlocks THEN Refused
        ELSE Opened(<<Part(1, Grid([i \in 1 .. count |-> Piece(i - 1)], f.size), f.size)>>)

\* Two levels: directory has the places of tables, a table those of clusters.
TwoLevels(f, i) ==
    LET at == Entry(f.directory, i \div f.perTable)
    IN  IF at = 0 \/ at \notin DOMAIN f.tables THEN [k |-> "none"] ELSE f.tables[at][1 + (i % f.perTable)]

Unreadable(f, count) ==
    \E i \in 0 .. count - 1 :
        LET at == Entry(f.directory, i \div f.perTable) IN at # 0 /\ at \notin DOMAIN f.tables

OpenQcow2(f) ==
    LET count == CeilDiv(f.size, f.block)
        Piece(i) ==
            LET e == TwoLevels(f, i)
            IN  <<<<Span(f, i), CASE e.k = "raw" -> Raw(e.pos)
                         [] e.k = "packed" -> Packed(e.pos, e.sectors * Sector)
                         [] OTHER -> Zero>>>>
    IN  IF ~f.sane \/ count > MaxBlocks \/ Unreadable(f, count) THEN Refused
        ELSE Opened(<<Part(1, Grid([i \in 1 .. count |-> Piece(i - 1)], f.size), f.size)>>)

VmdkSegs(f) ==
    LET Piece(i) == <<<<Span(f, i), IF TwoLevels(f, i).k = "raw" THEN Raw(TwoLevels(f, i).pos) ELSE Zero>>>>
    IN  Grid([i \in 1 .. CeilDiv(f.size, f.block) |-> Piece(i - 1)], f.size)

OpenVmdk(f) ==
    IF ~f.sane \/ CeilDiv(f.size, f.block) > MaxBlocks \/ Unreadable(f, CeilDiv(f.size, f.block)) THEN Refused
    ELSE Opened(<<Part(1, VmdkSegs(f), f.size)>>)

-----------------------------------------------------------------------------
\* A descriptor's extents, in the order of its lines; one of a kind that is not
\* known is left out.  A file that is missing or outside refuses the image.
Extent(d, line) ==
    CASE line.kind = "zero" -> <<Part(1, Push(<<>>, line.len, Zero), line.len)>>
      [] line.kind = "flat" -> <<PlainPart(line.file, line.pos, line.len)>>
      [] line.kind = "sparse" -> <<Part(line.file, VmdkSegs(d.files[line.file]), d.files[line.file].size)>>
      [] OTHER -> <<>>

Missing(d, line) ==
    /\ line.kind \in {"flat", "sparse"}
    /\ \/ line.file \notin DOMAIN d.files
       \/ line.kind = "flat" /\ line.pos + line.len > d.files[line.file].len

OpenDescriptor(d) ==
    LET lines == d.files[1].lines
        parts == FlattenSeq([i \in DOMAIN lines |-> IF Missing(d, lines[i]) THEN <<>> ELSE Extent(d, lines[i])])
    IN  IF parts = <<>> \/ (\E i \in DOMAIN lines : Missing(d, lines[i])) THEN Refused
        ELSE Opened(IF Len(parts) = 1 THEN parts ELSE Concat(parts))

\* The numbered files that follow one another, up to the first that is absent.
SegmentPaths(d) ==
    LET gaps == {i \in DOMAIN d.files : i \in d.absent}
    IN  SelectSeq([i \in DOMAIN d.files |-> i], LAMBDA i : \A g \in gaps : i < g)

OpenSplit(d) ==
    Opened(Concat([i \in DOMAIN SegmentPaths(d) |-> PlainPart(i, 0, d.files[i].len)]))

-----------------------------------------------------------------------------
(* DMG: the block tables in order of their first sector.                     *)
Chunk(f, table, segs, c) ==
    LET gap == PadTo(segs, table.first + c.at)
        piece == CASE c.type = "raw" -> Raw(f.fork + table.data + c.pos)
                   [] c.type = "packed" -> Packed(f.fork + table.data + c.pos, c.clen)
                   [] OTHER -> Zero
    IN  IF c.type = "end" \/ c.len = 0 THEN segs ELSE Push(gap, c.len, piece)

\* The blobs of the property list that are block tables; a blob that is not
\* closed ends the list.
BlockTables(f) ==
    LET cut == SelectInSeq(f.blobs, LAMBDA b : ~b.closed)
    IN  SelectSeq(IF cut = 0 THEN f.blobs ELSE SubSeq(f.blobs, 1, cut - 1), LAMBDA b : b.mish)

OpenDmg(f) ==
    LET tables == SortSeq(BlockTables(f), LAMBDA a, b : a.first < b.first)
        Table(segs, t) == FoldLeft(LAMBDA s, c : Chunk(f, t, s, c), segs, t.chunks)
        segs == PadTo(FoldLeft(Table, <<>>, tables), f.size)
    IN  IF ~f.footer \/ tables = <<>> THEN Refused
        ELSE IF FoldLeft(LAMBDA n, t : n + Len(t.chunks), 0, tables) > MaxBlocks THEN Refused
        ELSE Opened(<<Part(1, segs, IF f.size = 0 THEN OutLen(segs) ELSE f.size)>>)

-----------------------------------------------------------------------------
(* EWF: a segment file is a chain of sections, by the place of each.         *)
Sections(f) ==
    LET Step(acc, n) ==
            IF acc.at = 0 \/ acc.at \notin DOMAIN f.sections THEN [acc EXCEPT !.at = 0]
            ELSE LET s == f.sections[acc.at]
                 IN  [all |-> Append(acc.all, s),
                      at |-> IF s.k \in {"next", "done"} \/ s.next <= acc.at \/ s.next >= f.len THEN 0 ELSE s.next]
    IN  FoldLeft(Step, [all |-> <<>>, at |-> 1], [n \in 1 .. MaxSections |-> n]).all

\* Tables that cannot be read are left out, and so is a volume without geometry.
TablesOf(f) == SelectSeq(Sections(f), LAMBDA s : s.k = "table" /\ s.ok)
VolumesOf(f) == SelectSeq(Sections(f), LAMBDA s : s.k = "volume" /\ s.chunk > 0)
MediaSize(v) == IF v.size = 0 THEN v.chunks * v.chunk ELSE v.size

\* A chunk goes up to the next one of its table, the last one up to the end of
\* the file.
NextOffset(f, t, i) == IF i < Len(t.entries) THEN t.base + t.entries[i + 1].at ELSE f.len

EwfChunk(f, acc, t, i) ==
    LET n == Least(acc.chunk, acc.left)
        pos == t.base + t.entries[i].at
        end == NextOffset(f, t, i)
        clen == IF end > pos THEN end - pos ELSE 1
    IN  IF n = 0 THEN acc
        ELSE [acc EXCEPT !.left = @ - n,
                         !.segs = Push(@, n, IF t.entries[i].packed THEN Packed(pos, clen) ELSE Raw(pos))]

\* One segment file after another; the first geometry says how much there is.
EwfFile(d, acc, i) ==
    LET f == d.files[i]
        vols == VolumesOf(f)
        chunk == IF vols = <<>> THEN acc.chunk ELSE Last(vols).chunk
        left == IF vols = <<>> \/ acc.size > 0 THEN acc.left ELSE MediaSize(Last(vols))
        Add(all) == [acc EXCEPT !.chunk = all.chunk, !.left = all.left, !.size = 1,
                         !.parts = IF all.segs = <<>> THEN @ ELSE Append(@, Part(i, all.segs, OutLen(all.segs)))]
    IN  IF ~acc.ok \/ ~f.footer \/ chunk = 0 THEN [acc EXCEPT !.ok = FALSE]
        ELSE Add(FoldLeft(LAMBDA a, t : FoldLeftDomain(LAMBDA b, n : EwfChunk(f, b, t, n), a, t.entries),
                          [segs |-> <<>>, chunk |-> chunk, left |-> left], TablesOf(f)))

OpenEwf(d) ==
    LET Whole(all) == IF ~all.ok \/ all.parts = <<>> THEN Refused
                      ELSE Opened(IF Len(all.parts) = 1 THEN all.parts ELSE Concat(all.parts))
        chunks == FoldLeft(LAMBDA n, i : FoldLeft(LAMBDA k, t : k + Len(t.entries), n, TablesOf(d.files[i])),
                           0, SegmentPaths(d))
    IN  IF chunks > MaxBlocks THEN Refused
        ELSE Whole(FoldLeft(LAMBDA acc, i : EwfFile(d, acc, i),
                            [ok |-> TRUE, chunk |-> 0, left |-> 0, size |-> 0, parts |-> <<>>], SegmentPaths(d)))

OpenKind(d) ==
    LET f == d.files[1]
        kind == Kind(d)
    IN  CASE kind = "qcow2" -> OpenQcow2(f)
          [] kind = "vmdk" -> OpenVmdk(f)
          [] kind = "descriptor" -> OpenDescriptor(d)
          [] kind = "vhdx" -> OpenVhdx(f)
          [] kind = "ewf" -> OpenEwf(d)
          [] kind = "sparse" -> OpenSparse(f)
          [] kind = "vdi" -> OpenVdi(f)
          [] kind = "dmg" -> OpenDmg(f)
          [] kind = "vhd" -> OpenVhd(f)
          [] kind = "split" -> OpenSplit(d)

-----------------------------------------------------------------------------
\* The reads asked for are a list.
RequestsOk == \A r \in Requests : IsSeq(r)

Init ==
    /\ pc = "probe" /\ disk \in Disks /\ opts \in Requests
    /\ work = Len(opts) /\ seen = <<>> /\ out = [parts |-> <<>>, reads |-> <<>>]

\* A plain image is read as it is.
Detect ==
    /\ pc = "probe"
    /\ IF Kind(disk) = "raw"
       THEN pc' = "walk" /\ out' = [out EXCEPT !.parts = <<PlainPart(1, 0, disk.files[1].len)>>]
       ELSE pc' = "open" /\ UNCHANGED out
    /\ UNCHANGED <<disk, opts, work, seen>>

Open ==
    /\ pc = "open"
    /\ \E all \in {OpenKind(disk)} :
        IF all.ok THEN pc' = "walk" /\ out' = [out EXCEPT !.parts = all.parts]
        ELSE pc' = "refused" /\ UNCHANGED out
    /\ UNCHANGED <<disk, opts, work, seen>>

Read ==
    /\ pc = "walk" /\ work > 0
    /\ LET r == opts[Len(opts) - work + 1] IN
        /\ out' = [out EXCEPT !.reads = Append(@, [off |-> r[1], got |-> ReadAt(out.parts, disk.files, r[1], r[2])])]
        /\ seen' = FoldLeft(Put, seen, Decoded(out.parts, disk.files, r[1], r[2]))
    /\ work' = work - 1
    /\ UNCHANGED <<pc, disk, opts>>

Close ==
    /\ pc = "walk" /\ work = 0 /\ pc' = "done"
    /\ UNCHANGED <<disk, opts, work, seen, out>>

Next == Detect \/ Open \/ Read \/ Close
Spec == Init /\ [][Next]_vars

-----------------------------------------------------------------------------
(* guest is what the format says the image is, unit by unit.                 *)
\* A unit that is read as good is the guest's unit at that offset: neither
\* shifted, nor of another block, nor a hole where there is data.
Placed ==
    \A i \in DOMAIN out.reads :
        \A k \in DOMAIN out.reads[i].got :
            \/ out.reads[i].got[k] = Bad
            \/ /\ out.reads[i].off + k \in DOMAIN disk.guest
               /\ out.reads[i].got[k] = disk.guest[out.reads[i].off + k]

\* An image whose files are whole is read without a bad sector, up to its end.
Listed ==
    disk.whole =>
        \A i \in DOMAIN out.reads : \A k \in DOMAIN out.reads[i].got :
            out.reads[i].off % Sector = 0 /\ out.reads[i].off + k <= Len(disk.guest) - (Len(disk.guest) % Sector) => out.reads[i].got[k] # Bad

Capped == Len(seen) <= CacheBlocks

Rank == <<CASE pc = "probe" -> 3 [] pc = "open" -> 2 [] pc = "walk" -> 1 [] OTHER -> 0, work>>
Shrinks == Falls(Rank, Rank')
=============================================================================
