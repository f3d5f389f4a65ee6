----------------------------- MODULE BlockStack -----------------------------
(* The block sources of reclaim-block and the layers between them and their   *)
(* readers: a device, an image file, memory or an image with its map; over it *)
(* faults that are injected, the window of a partition, and the read-ahead    *)
(* cache every scan reads through.  A unit is less than a sector, and a read  *)
(* returns one token a sector: Bad, Unread, or where its bytes came from.     *)
EXTENDS FsCore

CONSTANTS
    Disks,    \* the stacks given to the program
    Requests, \* the reads asked of one: <<offset, length>> in order
    Sector,   \* units of a sector
    Chunk,    \* units of a chunk of the cache (1 MiB), whole sectors
    Capacity  \* chunks kept (64)

VARIABLES
    pc,     \* probe (the view), walk, done or refused
    disk,
    opts,   \* the requests
    work,   \* reads left, device gone
    seen,   \* the chunks kept, the one used longest ago first
    out     \* what was read: [off, got, gone]

vars == <<pc, disk, opts, work, seen, out>>

\* A chunk is whole sectors and one is kept (with_capacity); have is how much of
\* len can be read; the frames of a compressed image are within it.
DiskOk(d) ==
    /\ d.base \in {"device", "image", "memory", "mapped"}
    /\ d.len \in Nat /\ d.have \in Nat
    /\ d.view = <<>> \/ d.view \in Nat \X Nat
    /\ d.cached \in BOOLEAN
    /\ d.map.chunk \in Nat \ {0}
    /\ \A f \in d.map.frames : f.at \in Nat /\ f.len \in Nat /\ f.ok \in BOOLEAN /\ f.at + f.len <= d.len

StacksOk ==
    /\ Sector \in Nat \ {0} /\ Capacity \in Nat \ {0}
    /\ Chunk \in Nat \ {0} /\ Chunk % Sector = 0
    /\ \A d \in Disks : DiskOk(d)
    /\ Requests \subseteq Seq(Nat \X Nat)

-----------------------------------------------------------------------------
Bad == <<"bad">>
Unread == <<"unread">>
Hole == <<"hole">>          \* zeros, said to be good
Good(pos) == <<"good", pos>>

Sectors(n) == CeilDiv(n, Sector)
AllBad(n) == [i \in 1 .. Sectors(n) |-> Bad]

\* A sector is lost if one of the bytes asked of it is at from or after it.
BadFrom(got, n, from) == [i \in DOMAIN got |-> IF Least(i * Sector, n) > from THEN Bad ELSE got[i]]

Straight(off, n) == [i \in 1 .. Sectors(n) |-> Good(off + (i - 1) * Sector)]

InSector(off, i) == (off \div Sector) + i - 1

-----------------------------------------------------------------------------
\* One read of all there is; after a hard error, sector by sector, so that only
\* those that fail are lost.  A sector that ends early is lost in either way.
Device(off, n, gone) ==
    LET avail == Least(n, disk.len - off)
        Lost(i) == gone \/ InSector(off, i) \in disk.bad
    IN  IF off % Sector # 0 \/ off >= disk.len THEN AllBad(n)
        ELSE LET whole == BadFrom(Straight(off, n), n, Least(avail, Monus(disk.have, off)))
             IN  [i \in DOMAIN whole |-> IF Lost(i) THEN Bad ELSE whole[i]]

\* A file: what follows an error is lost, and early says that the error comes
\* for the whole read, not for what precedes it.
Image(off, n, early) ==
    LET lost == {i \in 1 .. Sectors(n) : InSector(off, i) \in disk.bad}
        upTo == IF lost = {} THEN n
                ELSE IF early THEN 0 ELSE ((CHOOSE i \in lost : \A j \in lost : i <= j) - 1) * Sector
    IN  IF off % Sector # 0 \/ off >= disk.len THEN AllBad(n)
        ELSE BadFrom(Straight(off, n), n, Least(upTo, Monus(Least(disk.len, disk.have), off)))

\* Memory: a last sector that is cut short is good, and zeros complete it.
Memory(off, n) ==
    IF off % Sector # 0 THEN AllBad(n)
    ELSE [i \in 1 .. Sectors(n) |->
            IF off + (i - 1) * Sector >= disk.len THEN Bad ELSE Good(off + (i - 1) * Sector)]

-----------------------------------------------------------------------------
(* An image and its map: the sectors it has recorded as bad and unread, the   *)
(* chunks that are done, and the frames if it is compressed.                  *)
Frames(off, n) ==
    [i \in 1 .. Sectors(n) |->
        LET at == off + (i - 1) * Sector
        IN  IF \E f \in disk.map.frames : f.ok /\ f.at <= at /\ at < f.at + f.len THEN Good(at) ELSE Hole]

Overlay(off, got) ==
    LET sector(i) == InSector(off, i)
        done(i) == ((sector(i) * Sector) \div disk.map.chunk) \in disk.map.done
    IN  [i \in DOMAIN got |->
            IF got[i] = Bad \/ sector(i) \in disk.map.bad THEN Bad
            ELSE IF sector(i) \in disk.map.unread \/ ~done(i) THEN Unread ELSE got[i]]

Mapped(off, n, early) ==
    IF off % Sector # 0 THEN AllBad(n)
    ELSE Overlay(off, IF disk.map.frames = {} THEN Image(off, n, early) ELSE Frames(off, n))

Base(off, n, gone, early) ==
    CASE disk.base = "device" -> Device(off, n, gone)
      [] disk.base = "image" -> Image(off, n, early)
      [] disk.base = "memory" -> Memory(off, n)
      [] disk.base = "mapped" -> Mapped(off, n, early)

-----------------------------------------------------------------------------
\* The sectors whose read is made to fail.
Faulty(off, n, gone, early) ==
    LET got == Base(off, n, gone, early)
    IN  IF off % Sector # 0 THEN got
        ELSE [i \in DOMAIN got |-> IF InSector(off, i) \in disk.faults THEN Bad ELSE got[i]]

\* The window of a partition; it must be aligned and fit, and a read is cut at
\* its end, so that nothing of the next partition is returned.
Fits == disk.view[1] % Sector = 0 /\ disk.view[1] + disk.view[2] <= disk.len

\* Wrong variant: only where a read starts is looked at.
ViewUncut(off, n, gone, early) ==
    IF disk.view = <<>> THEN Faulty(off, n, gone, early)
    ELSE IF off >= disk.view[2] \/ off % Sector # 0 THEN AllBad(n)
    ELSE Faulty(disk.view[1] + off, n, gone, early)

View(off, n, gone, early) ==
    IF disk.view = <<>> THEN Faulty(off, n, gone, early)
    ELSE IF off >= disk.view[2] \/ off % Sector # 0 THEN AllBad(n)
    ELSE LET avail == Least(n, disk.view[2] - off)
             head == Faulty(disk.view[1] + off, avail, gone, early)
         IN  BadFrom([i \in 1 .. Sectors(n) |-> IF i \in DOMAIN head THEN head[i] ELSE Bad], n, avail)

\* Where a read at off arrives below the view.
Below(off) == IF disk.view = <<>> THEN off ELSE disk.view[1] + off
Length == IF disk.view = <<>> THEN disk.len ELSE disk.view[2]

-----------------------------------------------------------------------------
\* A chunk of the cache keeps which of its sectors are bad, and nothing else of
\* their state: those that were never read become zeros.
Fetch(idx, gone, early) ==
    LET got == View(idx * Chunk, Least(Chunk, Monus(Length, idx * Chunk)), gone, early)
    IN  [idx |-> idx, got |-> [i \in DOMAIN got |-> IF got[i] = Unread THEN Hole ELSE got[i]]]

Use(chunks, idx, gone, early) ==
    LET places == {i \in DOMAIN chunks : chunks[i].idx = idx}
        at == CHOOSE i \in places : TRUE
    IN  IF places = {} THEN Append(chunks, Fetch(idx, gone, early))
        ELSE Append(RemoveAt(chunks, at), chunks[at])

Evict(chunks) == SubSeq(chunks, 1 + Monus(Len(chunks), Capacity), Len(chunks))

\* The chunks a read needs, in order, and what it takes of them.
Needed(off, n) ==
    LET last == Least(off + n, Length) - 1
    IN  [k \in 1 .. (last \div Chunk) - (off \div Chunk) + 1 |-> (off \div Chunk) + k - 1]

Filled(off, n, gone, early) ==
    FoldLeft(LAMBDA chunks, idx : Use(chunks, idx, gone, early), seen, Needed(off, n))

FromChunks(chunks, off, n) ==
    LET Sec(i) ==
            LET at == off + (i - 1) * Sector
                c == CHOOSE x \in ToSet(chunks) : x.idx = at \div Chunk
            IN  IF at >= Length THEN Bad ELSE c.got[1 + ((at % Chunk) \div Sector)]
    IN  BadFrom([i \in 1 .. Sectors(n) |-> Sec(i)], n, Least(n, Length - off))

Outside(off) == off % Sector # 0 \/ off >= Length

-----------------------------------------------------------------------------
Init ==
    /\ pc = "probe" /\ disk \in Disks /\ opts \in Requests
    /\ work = [left |-> Len(opts), gone |-> FALSE] /\ seen = <<>> /\ out = <<>>

Open ==
    /\ pc = "probe"
    /\ pc' = IF disk.view = <<>> \/ Fits THEN "walk" ELSE "refused"
    /\ UNCHANGED <<disk, opts, work, seen, out>>

\* A read through the cache asks the source below only for chunks it has not.
Read(early) ==
    /\ pc = "walk" /\ work.left > 0
    /\ LET r == opts[Len(opts) - work.left + 1]
           through == disk.cached /\ ~Outside(r[1])
           Got(chunks) == IF ~disk.cached THEN View(r[1], r[2], work.gone, early)
                  ELSE IF Outside(r[1]) THEN AllBad(r[2]) ELSE FromChunks(chunks, r[1], r[2])
       IN  \E chunks \in {IF through THEN Filled(r[1], r[2], work.gone, early) ELSE seen} :
           /\ out' = Append(out, [off |-> r[1], got |-> Got(chunks), gone |-> work.gone])
           /\ seen' = IF through THEN Evict(chunks) ELSE seen
           /\ work' = [work EXCEPT !.left = @ - 1]
    /\ UNCHANGED <<pc, disk, opts>>

\* The device is unplugged between two reads.
Unplug ==
    /\ pc = "walk" /\ disk.base = "device" /\ ~work.gone
    /\ work' = [work EXCEPT !.gone = TRUE]
    /\ UNCHANGED <<pc, disk, opts, seen, out>>

Close ==
    /\ pc = "walk" /\ work.left = 0 /\ pc' = "done"
    /\ UNCHANGED <<disk, opts, work, seen, out>>

Next == Open \/ (\E early \in BOOLEAN : Read(early)) \/ Unplug \/ Close
Spec == Init /\ [][Next]_vars

-----------------------------------------------------------------------------
Each(P(_, _)) == \A i \in DOMAIN out : \A k \in DOMAIN out[i].got : P(out[i], k)
Place(r, k) == r.off + (k - 1) * Sector

\* What an image's map does not know as read, and its frames do not hold.
NotThere(at) ==
    LET sector == at \div Sector
    IN  \/ sector \in disk.map.unread \/ ((sector * Sector) \div disk.map.chunk) \notin disk.map.done
        \/ disk.map.frames # {} /\ \A f \in disk.map.frames : f.ok => at \notin f.at .. f.at + f.len - 1

\* A sector that is returned as good is the one that was asked for, within the
\* window; zeros stand only for what an image's map or frames do not have.
Placed ==
    Each(LAMBDA r, k :
        LET at == Place(r, k) IN
        /\ r.got[k][1] = "good" => at < Length /\ r.got[k] = Good(Below(at))
        /\ r.got[k] = Hole => disk.base = "mapped" /\ NotThere(Below(at)))

\* A sector that can be read is returned, whatever fails around it: of an image
\* file this holds only up to the first error of what is asked below, and a
\* sector that the end of the window cuts is lost.
Listed ==
    Each(LAMBDA r, k :
        LET at == Below(Place(r, k)) IN
        /\ disk.base \in {"device", "memory"} /\ ~r.gone /\ r.off % Sector = 0
        /\ Place(r, k) + Sector <= Length /\ at + Sector <= Least(disk.len, disk.have)
        /\ (at \div Sector) \notin disk.bad \cup disk.faults
        => r.got[k] = Good(at))

\* The cache keeps no more than it is given, and no chunk twice.
Capped == Len(seen) <= Capacity /\ Cardinality({seen[i].idx : i \in DOMAIN seen}) = Len(seen)

Rank == <<CASE pc = "probe" -> 2 [] pc = "walk" -> 1 [] OTHER -> 0, work.left, IF work.gone THEN 0 ELSE 1>>
Shrinks == Falls(Rank, Rank')
=============================================================================
