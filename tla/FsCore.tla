------------------------------- MODULE FsCore -------------------------------
(* What the filesystem engines share (reclaim-fs-core): the allocation        *)
(* bitmap, the score of an entry, and the way a list of clusters becomes a    *)
(* list of extents.  Offsets and sizes are in the units of the instance, and  *)
(* a fraction is in thousandths.                                              *)
EXTENDS Lists

CeilDiv(a, b) == (a + b - 1) \div b
Least(a, b) == IF a < b THEN a ELSE b
Monus(a, b) == IF a < b THEN 0 ELSE a - b

\* A list, whatever it holds.
IsSeq(s) == s \in Seq(ToSet(s))

\* What n steps make of acc; a step that finds nothing to do leaves it.
Repeat(Step(_), acc, n) == FoldLeft(LAMBDA a, i : Step(a), acc, [i \in 1 .. n |-> i])

\* The clusters that a chain runs through, until it leaves the heap or stands
\* still, or the cap.
FollowChain(Next(_), InHeap(_), c, cap) ==
    LET Step(chain) ==
            LET next == IF chain = <<>> THEN c ELSE Next(Last(chain))
                moves == chain = <<>> \/ next # Last(chain)
            IN  IF InHeap(next) /\ moves THEN Append(chain, next) ELSE chain
    IN  Repeat(Step, <<>>, cap)

-----------------------------------------------------------------------------
\* A bitmap: bit i is the block at base + i * block; have bits are present.
BlockAllocated(bm, i) == i >= bm.count \/ i >= bm.have \/ i \in bm.bits

OffsetAllocated(bm, off) ==
    off < bm.base \/ BlockAllocated(bm, (off - bm.base) \div bm.block)

\* One sample for each multiple of the block that the range touches.
FreeFraction(bm, off, len) ==
    IF len = 0 THEN 1000
    ELSE LET blocks == (off \div bm.block) .. ((off + len - 1) \div bm.block)
             free == {b \in blocks : ~OffsetAllocated(bm, b * bm.block)}
         IN  (1000 * Cardinality(free)) \div Cardinality(blocks)

AllocatedCount(bm) == Cardinality({i \in bm.bits : i < Least(bm.count, bm.have)})

-----------------------------------------------------------------------------
\* An extent is <<offset, length>>.
ExtentBytes(ext) == FoldLeft(LAMBDA sum, x : sum + x[2], 0, ext)

\* Every block a list of extents touches.
BlocksOf(ext, block) ==
    UNION {(x[1] \div block) .. ((x[1] + x[2] - 1) \div block) : x \in ToSet(ext)}

\* The structural confidence, times the free share of the extents' bytes, times
\* 0.7 if the extents are an assumption.  NoBitmap is no bitmap.
NoBitmap == [count |-> 0]

Recoverability(e, bm) ==
    LET share == IF bm = NoBitmap \/ e.ext = <<>> THEN 850
                 ELSE IF ExtentBytes(e.ext) = 0 THEN 1000
                 ELSE FoldLeft(LAMBDA sum, x : sum + x[2] * FreeFraction(bm, x[1], x[2]), 0, e.ext)
                        \div ExtentBytes(e.ext)
    IN  IF e.state = "live" THEN (e.conf * 99) \div 100
        ELSE (e.conf * share * (IF e.assumed THEN 7 ELSE 10)) \div 10000

\* The clusters (by their offsets) that hold size, runs of neighbours joined, the
\* last one cut.
Coalesce(offsets, block, size) ==
    LET used == SubSeq(offsets, 1, Least(Len(offsets), CeilDiv(size, block)))
        Join(ext, o) ==
            IF ext # <<>> /\ Last(ext)[1] + Last(ext)[2] = o
            THEN [ext EXCEPT ![Len(ext)][2] = @ + block]
            ELSE Append(ext, <<o, block>>)
        all == FoldLeft(Join, <<>>, used)
    IN  IF all = <<>> THEN all
        ELSE [all EXCEPT ![Len(all)][2] = @ - Monus(Len(used) * block, size)]

\* The file assumed to lie in one piece, clamped to the end of the volume.
OnePiece(start, block, size, total) == <<<<start, Least(size, Monus(total, start))>>>>

-----------------------------------------------------------------------------
(* The options a walk obeys.                                               *)
Wanted(opts, deleted) == IF deleted THEN opts.deleted ELSE opts.live

\* Wrong variant: the limit is asked after one more entry.
FullLate(opts, out) == Len(out) > opts.max

Full(opts, out) == Len(out) >= opts.max

-----------------------------------------------------------------------------
(* What the properties of the engines speak of.                            *)
\* The place of each unit of a list of extents, and of a list of clusters.
UnitsOf(ext) == FoldLeft(LAMBDA all, x : all \o [u \in 1 .. x[2] |-> x[1] + u - 1], <<>>, ext)

UnitsIn(clusters, OffsetOf(_), block, size) ==
    [u \in 1 .. size |-> OffsetOf(clusters[1 + ((u - 1) \div block)]) + ((u - 1) % block)]

\* The n clusters that follow one another from first, as a driver reads them.
DriverChain(Next(_), first, n) ==
    LET at[i \in 1 .. n] == IF i = 1 THEN first ELSE Next(at[i - 1])
    IN  at

\* A unit in a hole has no place.
NoPlace == -1
Solid(units) == SelectSeq(units, LAMBDA u : u # NoPlace)

StartsWith(long, short) == Len(short) <= Len(long) /\ SubSeq(long, 1, Len(short)) = short

\* The places of a file in its order, without those of the holes; what a hole
\* leaves of the size may be filled with places after them.
PlacedAs(ext, units) ==
    /\ StartsWith(UnitsOf(ext), Solid(units))
    /\ NoPlace \notin ToSet(units) => UnitsOf(ext) = units

\* The engine says that a live file is right; what it gives is what a driver reads:
\* no hole, nothing left out, and no unit that reads otherwise than it is stored.
\* Each engine names the files of which it is sure and wrong (Misread).
Sure(e) == e.state = "live" /\ e.conf >= 90
ReadAs(places, units, stored) == places = units /\ ToSet(units) \cap stored = {}

Once(P(_), seq) == Cardinality({n \in DOMAIN seq : P(seq[n])}) = 1

Distinct(s) == Cardinality(ToSet(s)) = Len(s)

\* The lexicographic order of lists of numbers of the same length.
LexLess(a, b) ==
    \E i \in DOMAIN a : a[i] < b[i] /\ \A j \in 1 .. i - 1 : a[j] = b[j]

\* From one list to a smaller one, where the first number that differs had not
\* run out: this cannot happen for ever.
Falls(from, to) ==
    \E i \in DOMAIN from : to[i] < from[i] /\ 0 < from[i] /\ \A j \in 1 .. i - 1 : to[j] = from[j]
=============================================================================
