------------------------------ MODULE Segments ------------------------------
(* What the container formats share (reclaim-block's container/map.rs,        *)
(* concat.rs and codec.rs): a guest image described by segments over files,   *)
(* and a read of it.  A unit is less than a sector; Sector units are one.     *)
(* What a read returns of a unit is where it came from, or Bad.               *)
EXTENDS FsCore

CONSTANTS
    Sector,      \* units of a sector (512 bytes)
    CacheBlocks, \* decoded blocks kept (16)
    Slack,       \* units read past what a block decodes to (1 MiB)
    MaxBlockOut  \* units a block may decode to (64 MiB)

Zero == [k |-> "zero"]
Raw(pos) == [k |-> "raw", pos |-> pos]
Packed(pos, clen) == [k |-> "packed", pos |-> pos, clen |-> clen]

OutLen(segs) == IF segs = <<>> THEN 0 ELSE Last(segs).start + Last(segs).len

\* Wrong variant: runs are joined whether they follow one another or not.
PushAny(segs, len, piece) ==
    LET joins == segs # <<>> /\ Last(segs).piece.k = piece.k /\ piece.k # "packed"
    IN  IF len = 0 THEN segs
        ELSE IF joins THEN [segs EXCEPT ![Len(segs)].len = @ + len]
        ELSE Append(segs, [start |-> OutLen(segs), len |-> len, piece |-> piece])

\* Holes that follow one another are one, and so are runs that do in the file.
Push(segs, len, piece) ==
    LET joins == segs # <<>> /\ Last(segs).piece.k = piece.k
                 /\ \/ piece.k = "zero"
                    \/ piece.k = "raw" /\ Last(segs).piece.pos + Last(segs).len = piece.pos
    IN  IF len = 0 THEN segs
        ELSE IF joins THEN [segs EXCEPT ![Len(segs)].len = @ + len]
        ELSE Append(segs, [start |-> OutLen(segs), len |-> len, piece |-> piece])

PadTo(segs, size) == Push(segs, Monus(size, OutLen(segs)), Zero)

\* A part is segments over a file; plain is a file read without a map.
Part(file, segs, len) == [file |-> file, segs |-> segs, len |-> len, plain |-> FALSE]
PlainPart(file, pos, len) == [Part(file, Push(<<>>, len, Raw(pos)), len) EXCEPT !.plain = TRUE]

\* Parts end to end: each is cut to whole sectors, an empty one is left out.
Concat(parts) ==
    SelectSeq([i \in DOMAIN parts |-> [parts[i] EXCEPT !.len = @ - (@ % Sector)]], LAMBDA p : p.len > 0)

TotalLen(parts) == FoldLeft(LAMBDA sum, p : sum + p.len, 0, parts)
StartOf(parts, i) == TotalLen(SubSeq(parts, 1, i - 1))

-----------------------------------------------------------------------------
(* Reading.  A file has a length, its bad sectors, and, by place, the streams *)
(* that decode: the units they need and the units they give.                  *)
\* Everything asked for is there and lies in good sectors.
FileRead(file, at, n) ==
    /\ at + n <= file.len
    /\ \A s \in (at \div Sector) .. ((at + n - 1) \div Sector) : s \notin file.bad

\* Whichever the codec, a stream that is cut or that gives another length than
\* what is expected is an error.
Decompress(stream, room, len) == stream.need <= room /\ stream.gives = len /\ len <= MaxBlockOut

\* The length stated is an upper bound, cut at the end of the file and near
\* what the block decodes to.
Decodes(file, seg) ==
    LET p == seg.piece
        room == Least(Least(p.clen, Monus(file.len, p.pos)), seg.len + (seg.len \div 8) + Slack)
    IN  /\ room = 0 \/ FileRead(file, p.pos, room)
        /\ p.pos \in DOMAIN file.streams /\ Decompress(file.streams[p.pos], room, seg.len)

\* Can the units from lo to hi of the segment be had?  All or none of them.
Fills(part, file, seg, lo, hi) ==
    CASE seg.piece.k = "zero" -> TRUE
      [] seg.piece.k = "raw" -> FileRead(file, seg.piece.pos + lo - seg.start, hi - lo + 1)
      [] OTHER -> Decodes(file, seg)

UnitFrom(part, seg, u) ==
    CASE seg.piece.k = "zero" -> <<"zero">>
      [] seg.piece.k = "raw" -> <<"raw", part.file, seg.piece.pos + u - seg.start>>
      [] OTHER -> <<"stream", part.file, seg.piece.pos, u - seg.start>>

Bad == <<"bad">>
SegFor(segs, u) == SelectInSeq(segs, LAMBDA s : s.start <= u /\ u < s.start + s.len)

\* The units from lo to hi of a part, as far as each segment goes; a segment
\* that starts before the end of the image is read to its own end.
PartUnit(part, file, lo, hi, u) ==
    LET i == SegFor(part.segs, u)
        from == IF lo > part.segs[i].start THEN lo ELSE part.segs[i].start
        to == Least(hi, part.segs[i].start + part.segs[i].len - 1)
        ok == IF part.plain THEN FileRead(file, part.segs[i].piece.pos + u, 1)
              ELSE Fills(part, file, part.segs[i], from, to)
    IN  IF i = 0 THEN Bad
        ELSE IF from >= part.len \/ ~ok THEN Bad
        ELSE UnitFrom(part, part.segs[i], u)

\* A read of n units: whole sectors are bad if any of their units is.
ReadAt(parts, files, off, n) ==
    LET Unit(u) ==
            LET i == SelectInSeq([j \in DOMAIN parts |-> j], LAMBDA j :
                        StartOf(parts, j) <= u /\ u < StartOf(parts, j) + parts[j].len)
                base == StartOf(parts, i)
            IN  IF i = 0 THEN Bad
                ELSE PartUnit(parts[i], files[parts[i].file], Monus(off, base),
                              Least(off + n - base, parts[i].len) - 1, u - base)
        Single(u) == PartUnit(parts[1], files[parts[1].file], off, off + n - 1, u)
        got == [k \in 1 .. n |-> IF Len(parts) = 1 THEN Single(off + k - 1) ELSE Unit(off + k - 1)]
        SectorBad(k) == \E j \in 1 .. n : (j - 1) \div Sector = (k - 1) \div Sector /\ got[j] = Bad
    IN  IF off % Sector # 0 \/ off >= TotalLen(parts) THEN [k \in 1 .. n |-> Bad]
        ELSE [k \in 1 .. n |-> IF SectorBad(k) THEN Bad ELSE got[k]]

-----------------------------------------------------------------------------
(* The decoded blocks, the one used longest ago first.                       *)
Touch(order, key) == Append(SelectSeq(order, LAMBDA k : k # key), key)

Put(order, key) ==
    IF key \in ToSet(order) THEN Touch(order, key)
    ELSE LET all == Append(order, key) IN SubSeq(all, 1 + Monus(Len(all), CacheBlocks), Len(all))

\* The blocks a read decodes, in order.
Decoded(parts, files, off, n) ==
    LET Of(p) ==
            SelectSeq([i \in DOMAIN parts[p].segs |-> <<p, i>>], LAMBDA key :
                LET seg == parts[p].segs[key[2]]
                    at == StartOf(parts, p) + seg.start
                IN  /\ seg.piece.k = "packed" /\ at < off + n /\ off < at + seg.len
                    /\ Decodes(files[parts[p].file], seg))
    IN  FlattenSeq([p \in DOMAIN parts |-> Of(p)])
=============================================================================
