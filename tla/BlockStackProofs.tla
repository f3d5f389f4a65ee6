-------------------------- MODULE BlockStackProofs --------------------------
(***************************************************************************)
(* Proofs about BlockStack for any sector and chunk size, any capacity of  *)
(* the cache and any stack and reads that StacksOk describes.              *)
(***************************************************************************)
EXTENDS BlockStack, FiniteSetTheorems, SequenceTheorems, TLAPS

-----------------------------------------------------------------------------
(* What a read returns, sector by sector: nothing, the bytes that are there *)
(* or, of an image with a map, what it does not have.                       *)
Tokens == {Bad, Unread, Hole} \cup {Good(pos) : pos \in Nat}

Absent(pos) == disk.base = "mapped" /\ NotThere(pos)

\* Where sector i of a read starts; most facts below need no more of it than
\* that it is a number.
Before(i) == (i - 1) * Sector

\* Of the source below the window, and of the window.
SoundBelow(t, pos) == t = Bad \/ (t = Good(pos) /\ pos < disk.len) \/ (t \in {Hole, Unread} /\ Absent(pos))
Sound(t, p) == t = Bad \/ (t = Good(Below(p)) /\ p < Length) \/ (t \in {Hole, Unread} /\ Absent(Below(p)))

\* A sector that has to be returned: nothing fails it, in the base, with the
\* faults injected, in the window.
ReadsBelow(pos) ==
    /\ disk.base \in {"device", "memory"} /\ pos + Sector <= Least(disk.len, disk.have)
    /\ pos \div Sector \notin disk.bad
Reads(pos) == ReadsBelow(pos) /\ pos \div Sector \notin disk.faults
Readable(p) == Reads(Below(p)) /\ p + Sector <= Length

Opened == disk.view = <<>> \/ Fits

-----------------------------------------------------------------------------
(* What the cache keeps.                                                   *)
Chunks == [idx : Nat, got : UNION {[1 .. m -> Tokens] : m \in Nat}]

ChunkOk(c) ==
    /\ c.idx * Chunk < Length
    /\ DOMAIN c.got = 1 .. Sectors(Least(Chunk, Length - c.idx * Chunk))
    /\ \A i \in DOMAIN c.got :
        LET p == c.idx * Chunk + Before(i)
        IN  /\ Sound(c.got[i], p)
            /\ Readable(p) /\ ~work.gone => c.got[i] = Good(Below(p))

ChunksOk(s) ==
    /\ s \in Seq(Chunks)
    /\ \A i \in 1 .. Len(s) : ChunkOk(s[i])
    /\ \A i, j \in 1 .. Len(s) : s[i].idx = s[j].idx => i = j

Has(s, idx) == \E i \in 1 .. Len(s) : s[i].idx = idx

\* The read that comes next, what a chunk's use makes of the chunks kept, and
\* what the uses of the read keep.
Asked == opts[Len(opts) - work.left + 1]
StackOp(early, chunks, idx) == Use(chunks, idx, work.gone, early)
StackKeeps(early, chunks, k) ==
    ChunksOk(chunks) /\ \A j \in 1 .. k : Has(chunks, Needed(Asked[1], Asked[2])[j])

Uses == INSTANCE FoldInduction WITH Op <- StackOp, Keeps <- StackKeeps

-----------------------------------------------------------------------------
(* Numbers.                                                                *)
LEMMA DivIs ==
    ASSUME NEW a \in Nat, NEW b \in Nat \ {0}
    PROVE  /\ a \div b \in Nat /\ a % b \in Nat /\ a % b < b
           /\ b * (a \div b) <= a /\ a < b * (a \div b) + b
           /\ a % b = a - b * (a \div b)
OBVIOUS
LEMMA DivUnique ==
    ASSUME NEW a \in Nat, NEW b \in Nat \ {0}, NEW q \in Nat, b * q <= a, a < b * q + b
    PROVE  a \div b = q
<1>1. PICK r \in 0 .. b - 1 : a = b * q + r
  <2>1. b * q \in Nat
    OBVIOUS
  <2>2. a - b * q \in 0 .. b - 1
    BY <2>1
  <2>3. QED
    BY <2>1, <2>2
<1>2. QED
  BY <1>1
LEMMA DivExact ==
    ASSUME NEW a \in Nat, NEW b \in Nat \ {0}, a % b = 0
    PROVE  a \div b \in Nat /\ a = b * (a \div b)
<1> DEFINE q == a \div b
<1>1. q \in Nat /\ a % b = a - b * q
  BY DivIs
<1> HIDE DEF q
<1>2. b * q \in Nat
  BY <1>1
<1>3. QED
  BY <1>1, <1>2 DEF q

LEMMA SumExact ==
    ASSUME NEW a \in Nat, NEW c \in Nat, NEW b \in Nat \ {0}, NEW q \in Nat, NEW r \in Nat,
           a = b * q, c = b * r
    PROVE  a + c \in Nat /\ (a + c) % b = 0 /\ (a + c) \div b = q + r
<1> DEFINE s == a + c
<1>1. s \in Nat /\ s = b * (q + r) /\ q + r \in Nat
  OBVIOUS
<1> HIDE DEF s
<1>2. s \div b = q + r
  BY <1>1, DivUnique
<1>3. s % b = s - b * (s \div b)
  BY <1>1, DivIs
<1>4. s % b = 0
  BY <1>1, <1>2, <1>3
<1>5. QED
  BY <1>1, <1>2, <1>4 DEF s

LEMMA TimesMonotone ==
    ASSUME NEW a \in Nat, NEW b \in Nat, NEW c \in Nat, a <= b
    PROVE  c * a <= c * b
OBVIOUS
LEMMA TimesStrict ==
    ASSUME NEW a \in Nat, NEW b \in Nat, NEW c \in Nat, c * a < c * b
    PROVE  a < b
OBVIOUS
LEMMA TimesNat ==
    ASSUME NEW a \in Nat, NEW b \in Nat
    PROVE  a * b \in Nat /\ a * b = b * a
OBVIOUS
LEMMA Less ==
    ASSUME NEW a \in Nat, NEW b \in Nat, NEW c \in Nat \ {0}, c * a < c * b + c
    PROVE  a <= b
<1>1. c * (b + 1) = c * b + c
  OBVIOUS
<1>2. b + 1 \in Nat 
  OBVIOUS
<1>3. a < b + 1
  BY <1>1, <1>2, TimesStrict
<1>4. QED BY <1>3
LEMMA SumAligned ==
    ASSUME NEW a \in Nat, NEW c \in Nat, NEW b \in Nat \ {0}, a % b = 0, c % b = 0
    PROVE  a + c \in Nat /\ (a + c) % b = 0
<1>1. PICK q \in Nat : a = b * q
  BY DivExact
<1>2. PICK r \in Nat : c = b * r
  BY DivExact
<1>3. QED
  BY <1>1, <1>2, SumExact

LEMMA TimesAligned ==
    ASSUME NEW a \in Nat, NEW c \in Nat, NEW b \in Nat \ {0}, a % b = 0
    PROVE  c * a \in Nat /\ (c * a) % b = 0
<1>1. PICK q \in Nat : a = b * q
  BY DivExact
<1> DEFINE p == c * a
<1>2. c * q \in Nat /\ p = b * (c * q) /\ p \in Nat
  BY <1>1
<1> HIDE DEF p
<1>3. p \div b = c * q
  BY <1>2, DivUnique
<1>4. p % b = p - b * (p \div b)
  BY <1>2, DivIs
<1>5. p % b = 0
  BY <1>2, <1>3, <1>4
<1>6. QED
  BY <1>2, <1>5 DEF p

LEMMA LessAligned ==
    ASSUME NEW a \in Nat, NEW c \in Nat, NEW b \in Nat \ {0}, a % b = 0, c % b = 0, c <= a
    PROVE  a - c \in Nat /\ (a - c) % b = 0
<1>1. PICK q \in Nat : a = b * q
  BY DivExact
<1>2. PICK r \in Nat : c = b * r
  BY DivExact
<1> DEFINE p == a - c
<1>3. r <= q
  BY <1>1, <1>2, Less
<1>4. p \in Nat /\ q - r \in Nat /\ p = b * (q - r)
  BY <1>1, <1>2, <1>3
<1> HIDE DEF p
<1>5. p \div b = q - r
  BY <1>4, DivUnique
<1>6. p % b = p - b * (p \div b)
  BY <1>4, DivIs
<1>7. p % b = 0
  BY <1>4, <1>5, <1>6
<1>8. QED
  BY <1>4, <1>7 DEF p

LEMMA SectorsAre ==
    ASSUME NEW n \in Nat, NEW S \in Nat \ {0}
    PROVE  /\ CeilDiv(n, S) \in Nat
           /\ \A i \in Nat \ {0} : i <= CeilDiv(n, S) <=> (i - 1) * S < n
<1> DEFINE a == n + S - 1
           c == a \div S
<1>1. a \in Nat /\ CeilDiv(n, S) = c
  BY DEF CeilDiv
<1>2. c \in Nat /\ S * c <= a /\ a < S * c + S
  BY <1>1, DivIs
<1> HIDE DEF c
<1>3. ASSUME NEW i \in Nat \ {0}, i <= c PROVE (i - 1) * S < n
  <2>1. S * i <= S * c
    BY <1>2, <1>3, TimesMonotone
  <2>2. (i - 1) * S = S * i - S /\ S * i \in Nat /\ S * c \in Nat
    BY <1>2
  <2>3. QED
    BY <1>2, <2>1, <2>2
<1>4. ASSUME NEW i \in Nat \ {0}, (i - 1) * S < n PROVE i <= c
  <2>2. (i - 1) * S = S * i - S /\ S * i \in Nat /\ S * c \in Nat
    BY <1>2
  <2>3. S * i < S * c + S
    BY <1>2, <1>4, <2>2
  <2>4. QED
    BY <1>2, <2>3, Less
<1>5. QED
  BY <1>1, <1>2, <1>3, <1>4

-----------------------------------------------------------------------------
LEMMA Place1 ==
    ASSUME NEW off \in Nat, off % Sector = 0, NEW i \in Nat \ {0}, Sector \in Nat \ {0}
    PROVE  /\ (i - 1) * Sector \in Nat /\ i * Sector = (i - 1) * Sector + Sector
           /\ InSector(off, i) = (off + (i - 1) * Sector) \div Sector
           /\ InSector(off, i) * Sector = off + (i - 1) * Sector
           /\ (off + (i - 1) * Sector) % Sector = 0
<1> DEFINE q == off \div Sector
           p == off + (i - 1) * Sector
<1>1. q \in Nat /\ off = Sector * q
  <2>1. off % Sector = off - Sector * q /\ q \in Nat
    BY DivIs
  <2>2. Sector * q \in Nat
    BY <2>1
  <2> HIDE DEF q
  <2>3. QED
    BY <2>1, <2>2
<1>2. InSector(off, i) = q + i - 1
  BY DEF InSector
<1> HIDE DEF q
<1>3. (i - 1) * Sector \in Nat /\ i * Sector = (i - 1) * Sector + Sector
  <2>1. i - 1 \in Nat /\ i = (i - 1) + 1
    OBVIOUS
  <2>2. QED
    BY <2>1
<1>4. Sector * (q + i - 1) = p /\ q + i - 1 \in Nat
  BY <1>1
<1>5. p \in Nat
  BY <1>3
<1>6. p \div Sector = q + i - 1
  BY <1>4, <1>5, DivUnique
<1>7. p % Sector = 0
  <2>1. p % Sector = p - Sector * (p \div Sector)
    BY <1>5, DivIs
  <2> HIDE DEF p
  <2>2. QED
    BY <1>4, <1>5, <1>6, <2>1
<1>8. (q + i - 1) * Sector = p
  BY <1>4
<1>9. QED
  BY <1>2, <1>3, <1>6, <1>7, <1>8

LEMMA SectorsOf ==
    ASSUME NEW n \in Nat, Sector \in Nat \ {0}
    PROVE  /\ Sectors(n) \in Nat
           /\ \A i \in Nat \ {0} : i \in 1 .. Sectors(n) <=> Before(i) < n
<1>1. Sectors(n) \in Nat /\ \A i \in Nat \ {0} : i <= Sectors(n) <=> Before(i) < n
  BY SectorsAre DEF Sectors, Before
<1>2. QED
  BY <1>1

LEMMA BeforeIs ==
    ASSUME NEW i \in Nat \ {0}, Sector \in Nat \ {0}
    PROVE  Before(i) \in Nat /\ i * Sector = Before(i) + Sector
<1>1. i - 1 \in Nat /\ i = (i - 1) + 1
  OBVIOUS
<1>2. QED
  BY <1>1 DEF Before

LEMMA SectorAt ==
    ASSUME NEW off \in Nat, off % Sector = 0, NEW n \in Nat, NEW i \in 1 .. Sectors(n), Sector \in Nat \ {0}
    PROVE  /\ i \in Nat \ {0} /\ Before(i) \in Nat /\ Before(i) < n
           /\ InSector(off, i) = (off + Before(i)) \div Sector
           /\ InSector(off, i) * Sector = off + Before(i)
           /\ (off + Before(i)) % Sector = 0
<1>1. i \in Nat \ {0} /\ Before(i) < n
  <2>1. Sectors(n) \in Nat
    BY SectorsOf
  <2>2. i \in Nat \ {0}
    BY <2>1
  <2>3. QED
    BY <2>2, SectorsOf
<1>2. Before(i) \in Nat
  BY <1>1, BeforeIs
<1>3. /\ InSector(off, i) = (off + Before(i)) \div Sector
      /\ InSector(off, i) * Sector = off + Before(i)
      /\ (off + Before(i)) % Sector = 0
  BY <1>1, Place1 DEF Before
<1>4. QED
  BY <1>1, <1>2, <1>3

LEMMA CutIs ==
    ASSUME NEW got, NEW n, NEW from, NEW m \in Nat, DOMAIN got = 1 .. m, Sector \in Nat \ {0}
    PROVE  /\ DOMAIN BadFrom(got, n, from) = 1 .. m
           /\ \A i \in 1 .. m :
                BadFrom(got, n, from)[i] = IF Least(Before(i) + Sector, n) > from THEN Bad ELSE got[i]
<1>1. /\ DOMAIN BadFrom(got, n, from) = 1 .. m
      /\ \A i \in 1 .. m : BadFrom(got, n, from)[i] = IF Least(i * Sector, n) > from THEN Bad ELSE got[i]
  BY DEF BadFrom
<1>2. \A i \in 1 .. m : i * Sector = Before(i) + Sector
  BY BeforeIs
<1>3. QED
  BY <1>1, <1>2

LEMMA StraightIs ==
    ASSUME NEW off, NEW n
    PROVE  /\ DOMAIN Straight(off, n) = 1 .. Sectors(n)
           /\ \A i \in 1 .. Sectors(n) : Straight(off, n)[i] = Good(off + Before(i))
BY DEF Straight, Before

LEMMA AllBadIs ==
    ASSUME NEW n
    PROVE  DOMAIN AllBad(n) = 1 .. Sectors(n) /\ \A i \in 1 .. Sectors(n) : AllBad(n)[i] = Bad
BY DEF AllBad

\* A straight read of which what is after the cut is lost.
LEMMA CutStraight ==
    ASSUME NEW off \in Nat, NEW n \in Nat, NEW from \in Nat, Sector \in Nat \ {0}, off % Sector = 0
    PROVE  LET whole == BadFrom(Straight(off, n), n, from) IN
           /\ DOMAIN whole = 1 .. Sectors(n)
           /\ \A i \in 1 .. Sectors(n) :
                /\ whole[i] = Bad \/ (whole[i] = Good(off + Before(i)) /\ off + Before(i) < off + from)
                /\ Least(Before(i) + Sector, n) <= from => whole[i] = Good(off + Before(i))
<1> DEFINE whole == BadFrom(Straight(off, n), n, from)
<1>1. Sectors(n) \in Nat
  BY SectorsOf
<1>2. DOMAIN whole = 1 .. Sectors(n)
      /\ \A i \in 1 .. Sectors(n) :
           whole[i] = IF Least(Before(i) + Sector, n) > from THEN Bad ELSE Good(off + Before(i))
  <2>1. DOMAIN whole = 1 .. Sectors(n)
        /\ \A i \in 1 .. Sectors(n) :
             whole[i] = IF Least(Before(i) + Sector, n) > from THEN Bad ELSE Straight(off, n)[i]
    BY <1>1, CutIs, StraightIs
  <2>2. QED
    BY <2>1, StraightIs
<1>3. ASSUME NEW i \in 1 .. Sectors(n)
      PROVE  /\ Least(Before(i) + Sector, n) > from \/ off + Before(i) < off + from
             /\ Least(Before(i) + Sector, n) <= from => ~(Least(Before(i) + Sector, n) > from)
  <2>1. Before(i) \in Nat /\ Before(i) < n
    BY SectorAt
  <2>2. QED
    BY <2>1 DEF Least
<1> HIDE DEF whole
<1>4. QED
  BY <1>2, <1>3 DEF whole

LEMMA DeviceReads ==
    ASSUME NEW off \in Nat, NEW n \in Nat, NEW gone, off % Sector = 0, Sector \in Nat \ {0}, DiskOk(disk)
    PROVE  /\ DOMAIN Device(off, n, gone) = 1 .. Sectors(n)
           /\ \A i \in 1 .. Sectors(n) :
                LET t == Device(off, n, gone)[i]
                    pos == off + Before(i)
                IN  /\ t = Bad \/ (t = Good(pos) /\ pos < disk.len)
                    /\ pos + Sector <= Least(disk.len, disk.have) /\ ~gone
                         /\ pos \div Sector \notin disk.bad => t = Good(pos)
<1> DEFINE c == Least(Least(n, disk.len - off), Monus(disk.have, off))
           D == Device(off, n, gone)
           whole == BadFrom(Straight(off, n), n, c)
<1>1. disk.len \in Nat /\ disk.have \in Nat
  BY DEF DiskOk
<1>2. CASE off >= disk.len
  <2>1. D = AllBad(n)
    BY <1>2 DEF Device
  <2>2. ASSUME NEW i \in 1 .. Sectors(n), off + Before(i) + Sector <= Least(disk.len, disk.have)
        PROVE  FALSE
    <3>1. Before(i) \in Nat
      BY SectorAt
    <3>2. QED
      BY <1>1, <1>2, <2>2, <3>1 DEF Least
  <2>3. QED
    BY <2>1, <2>2, AllBadIs
<1>3. CASE off < disk.len
  <2>1. D = [i \in DOMAIN whole |-> IF gone \/ InSector(off, i) \in disk.bad THEN Bad ELSE whole[i]]
    <3>1. ~(off % Sector # 0 \/ off >= disk.len)
      BY <1>1, <1>3
    <3>2. QED
      BY <3>1, Zenon DEF Device
  <2>2. c \in Nat /\ off + c <= disk.len /\ c <= n
    BY <1>1, <1>3 DEF Least, Monus
  <2>3. ASSUME NEW i \in 1 .. Sectors(n)
        PROVE  /\ off + Before(i) < off + c => off + Before(i) < disk.len
               /\ off + Before(i) + Sector <= Least(disk.len, disk.have) => Least(Before(i) + Sector, n) <= c
               /\ InSector(off, i) = (off + Before(i)) \div Sector
    <3>1. Before(i) \in Nat /\ InSector(off, i) = (off + Before(i)) \div Sector
      BY SectorAt
    <3>2. QED
      BY <1>1, <1>3, <2>2, <3>1 DEF Least, Monus
  <2> HIDE DEF c
  <2>4. /\ DOMAIN whole = 1 .. Sectors(n)
        /\ \A i \in 1 .. Sectors(n) :
                /\ whole[i] = Bad \/ (whole[i] = Good(off + Before(i)) /\ off + Before(i) < off + c)
                /\ Least(Before(i) + Sector, n) <= c => whole[i] = Good(off + Before(i))
    BY <2>2, CutStraight
  <2> HIDE DEF D, whole
  <2>5. QED
    BY <2>1, <2>3, <2>4 DEF D
<1>4. QED
  BY <1>1, <1>2, <1>3

LEMMA ImageReadsBelow ==
    ASSUME NEW off \in Nat, NEW n \in Nat, NEW early \in BOOLEAN, off % Sector = 0, Sector \in Nat \ {0},
           DiskOk(disk)
    PROVE  /\ DOMAIN Image(off, n, early) = 1 .. Sectors(n)
           /\ \A i \in 1 .. Sectors(n) :
                LET t == Image(off, n, early)[i]
                IN  t = Bad \/ (t = Good(off + Before(i)) /\ off + Before(i) < disk.len)
<1> DEFINE lost == {i \in 1 .. Sectors(n) : InSector(off, i) \in disk.bad}
           first == CHOOSE i \in lost : \A j \in lost : i <= j
           upTo == IF lost = {} THEN n ELSE IF early THEN 0 ELSE (first - 1) * Sector
           rest == Monus(Least(disk.len, disk.have), off)
           I == Image(off, n, early)
           whole == BadFrom(Straight(off, n), n, Least(upTo, rest))
<1>1. disk.len \in Nat /\ disk.have \in Nat
  BY DEF DiskOk
<1>2. CASE off >= disk.len
  <2>1. I = AllBad(n)
    BY <1>2 DEF Image
  <2>2. QED
    BY <2>1, AllBadIs
<1>3. CASE off < disk.len
  <2>1. I = whole
    <3>1. ~(off % Sector # 0 \/ off >= disk.len)
      BY <1>1, <1>3
    <3>2. QED
      BY <3>1, Zenon DEF Image
  <2>2. upTo \in Nat
    <3>1. CASE lost = {}
      BY <3>1
    <3>2. CASE lost # {}
      <4>1. lost \in SUBSET Nat /\ \A i \in lost : i \in Nat \ {0}
        BY SectorsOf
      <4>2. \E i \in lost : \A j \in lost : i <= j
        <5> HIDE DEF lost
        <5>1. QED
          BY <3>2, <4>1, Uses!LeastOf
      <4>3. first \in lost
        <5> HIDE DEF lost
        <5>1. QED
          BY <4>2
      <4>4. first \in Nat \ {0}
        <5> HIDE DEF lost, first
        <5>1. QED
          BY <4>1, <4>3
      <4> HIDE DEF lost, first
      <4>5. (first - 1) * Sector \in Nat
        BY <4>4, BeforeIs DEF Before
      <4>6. QED
        BY <4>5
    <3>3. QED
      BY <3>1, <3>2
  <2>3. rest \in Nat /\ off + rest <= disk.len
    BY <1>1, <1>3 DEF Least, Monus
  <2> HIDE DEF upTo, rest
  <2>4. Least(upTo, rest) \in Nat /\ off + Least(upTo, rest) <= disk.len
    BY <1>1, <2>2, <2>3 DEF Least
  <2> DEFINE c == Least(upTo, rest)
  <2>5. c \in Nat /\ off + c <= disk.len
    BY <2>4
  <2> HIDE DEF c
  <2>6. /\ DOMAIN whole = 1 .. Sectors(n)
        /\ \A i \in 1 .. Sectors(n) :
             whole[i] = Bad \/ (whole[i] = Good(off + Before(i)) /\ off + Before(i) < off + c)
    BY <2>5, CutStraight DEF c
  <2>7. \A i \in 1 .. Sectors(n) : Before(i) \in Nat
    BY SectorAt
  <2> HIDE DEF whole, I
  <2>8. QED
    BY <1>1, <2>1, <2>5, <2>6, <2>7 DEF I
<1>4. QED
  BY <1>1, <1>2, <1>3

LEMMA MemoryReads ==
    ASSUME NEW off \in Nat, NEW n \in Nat, off % Sector = 0, Sector \in Nat \ {0}, DiskOk(disk)
    PROVE  /\ DOMAIN Memory(off, n) = 1 .. Sectors(n)
           /\ \A i \in 1 .. Sectors(n) :
                LET t == Memory(off, n)[i]
                    pos == off + Before(i)
                IN  /\ t = Bad \/ (t = Good(pos) /\ pos < disk.len)
                    /\ pos + Sector <= disk.len => t = Good(pos)
<1>1. Memory(off, n) = [i \in 1 .. Sectors(n) |->
            IF off + Before(i) >= disk.len THEN Bad ELSE Good(off + Before(i))]
  BY DEF Memory, Before
<1>2. disk.len \in Nat
  BY DEF DiskOk
<1>3. \A i \in 1 .. Sectors(n) : Before(i) \in Nat
  BY SectorAt
<1>4. QED
  BY <1>1, <1>2, <1>3

\* An image with a map: what is not good is bad or absent.
LEMMA FramesRead ==
    ASSUME NEW off \in Nat, NEW n \in Nat, off % Sector = 0, Sector \in Nat \ {0}, DiskOk(disk),
           disk.map.frames # {}
    PROVE  /\ DOMAIN Frames(off, n) = 1 .. Sectors(n)
           /\ \A i \in 1 .. Sectors(n) :
                LET t == Frames(off, n)[i]
                    pos == off + Before(i)
                IN  (t = Good(pos) /\ pos < disk.len) \/ (t = Hole /\ NotThere(pos))
<1>1. Frames(off, n) = [i \in 1 .. Sectors(n) |->
         IF \E f \in disk.map.frames : f.ok /\ f.at <= off + Before(i) /\ off + Before(i) < f.at + f.len
         THEN Good(off + Before(i)) ELSE Hole]
  BY DEF Frames, Before
<1>2. ASSUME NEW i \in 1 .. Sectors(n) PROVE off + Before(i) \in Nat
  BY SectorAt
<1>3. ASSUME NEW pos \in Nat, NEW f \in disk.map.frames, f.ok, f.at <= pos, pos < f.at + f.len
      PROVE  pos < disk.len
  BY <1>3 DEF DiskOk
<1>4. ASSUME NEW pos \in Nat, ~\E f \in disk.map.frames : f.ok /\ f.at <= pos /\ pos < f.at + f.len
      PROVE  NotThere(pos)
  <2>1. ASSUME NEW f \in disk.map.frames, f.ok, pos \in f.at .. f.at + f.len - 1
        PROVE  FALSE
    <3>1. f.at \in Nat /\ f.len \in Nat
      BY DEF DiskOk
    <3>2. QED
      BY <1>4, <2>1, <3>1
  <2>2. QED
    BY <2>1 DEF NotThere
<1>5. QED
  BY <1>1, <1>2, <1>3, <1>4

LEMMA MappedReads ==
    ASSUME NEW off \in Nat, NEW n \in Nat, NEW early \in BOOLEAN, off % Sector = 0, Sector \in Nat \ {0},
           DiskOk(disk)
    PROVE  /\ DOMAIN Mapped(off, n, early) = 1 .. Sectors(n)
           /\ \A i \in 1 .. Sectors(n) :
                LET t == Mapped(off, n, early)[i]
                    pos == off + Before(i)
                IN  t = Bad \/ (t = Good(pos) /\ pos < disk.len) \/ (t \in {Hole, Unread} /\ NotThere(pos))
<1> DEFINE got == IF disk.map.frames = {} THEN Image(off, n, early) ELSE Frames(off, n)
<1>1. Mapped(off, n, early) = Overlay(off, got)
  BY DEF Mapped
<1>2. DOMAIN got = 1 .. Sectors(n)
      /\ \A i \in 1 .. Sectors(n) :
           \/ got[i] = Bad \/ (got[i] = Good(off + Before(i)) /\ off + Before(i) < disk.len)
           \/ got[i] = Hole /\ NotThere(off + Before(i))
  <2>1. CASE disk.map.frames = {}
    BY <2>1, ImageReadsBelow
  <2>2. CASE disk.map.frames # {}
    BY <2>2, FramesRead
  <2>3. QED
    BY <2>1, <2>2
<1> HIDE DEF got
<1> DEFINE O == Overlay(off, got)
<1>3. O = [i \in DOMAIN got |->
             IF got[i] = Bad \/ InSector(off, i) \in disk.map.bad THEN Bad
             ELSE IF InSector(off, i) \in disk.map.unread
                       \/ ~(((InSector(off, i) * Sector) \div disk.map.chunk) \in disk.map.done)
                  THEN Unread ELSE got[i]]
  BY Zenon DEF Overlay
<1>4. \A i \in 1 .. Sectors(n) : InSector(off, i) = (off + Before(i)) \div Sector
  BY SectorAt
<1>5. ASSUME NEW i \in 1 .. Sectors(n),
             \/ InSector(off, i) \in disk.map.unread
             \/ ~(((InSector(off, i) * Sector) \div disk.map.chunk) \in disk.map.done)
      PROVE  NotThere(off + Before(i))
  BY <1>4, <1>5, Zenon DEF NotThere
<1> HIDE DEF O
<1>6. QED
  BY <1>1, <1>2, <1>3, <1>5 DEF O

LEMMA BaseReads ==
    ASSUME NEW off \in Nat, NEW n \in Nat, NEW gone, NEW early \in BOOLEAN, off % Sector = 0,
           Sector \in Nat \ {0}, DiskOk(disk)
    PROVE  /\ DOMAIN Base(off, n, gone, early) = 1 .. Sectors(n)
           /\ \A i \in 1 .. Sectors(n) :
                LET t == Base(off, n, gone, early)[i]
                    pos == off + Before(i)
                IN  SoundBelow(t, pos) /\ (ReadsBelow(pos) /\ ~gone => t = Good(pos))
<1>1. disk.base \in {"device", "image", "memory", "mapped"}
  BY DEF DiskOk
<1>2. CASE disk.base = "device"
  <2>1. Base(off, n, gone, early) = Device(off, n, gone)
    BY <1>2 DEF Base
  <2>2. QED
    BY <2>1, DeviceReads DEF SoundBelow, ReadsBelow
<1>3. CASE disk.base = "image"
  <2>1. Base(off, n, gone, early) = Image(off, n, early)
    BY <1>3 DEF Base
  <2>2. QED
    BY <1>3, <2>1, ImageReadsBelow DEF SoundBelow, ReadsBelow
<1>4. CASE disk.base = "memory"
  <2>1. Base(off, n, gone, early) = Memory(off, n)
    BY <1>4 DEF Base
  <2>2. \A pos \in Nat : ReadsBelow(pos) => pos + Sector <= disk.len
    BY DEF DiskOk, ReadsBelow, Least
  <2>3. \A i \in 1 .. Sectors(n) : off + Before(i) \in Nat
    BY SectorAt
  <2>4. QED
    BY <2>1, <2>2, <2>3, MemoryReads DEF SoundBelow
<1>5. CASE disk.base = "mapped"
  <2>1. Base(off, n, gone, early) = Mapped(off, n, early)
    BY <1>5 DEF Base
  <2>2. QED
    BY <1>5, <2>1, MappedReads DEF SoundBelow, Absent, ReadsBelow
<1>6. QED
  BY <1>1, <1>2, <1>3, <1>4, <1>5

LEMMA FaultyReads ==
    ASSUME NEW off \in Nat, NEW n \in Nat, NEW gone, NEW early \in BOOLEAN, off % Sector = 0,
           Sector \in Nat \ {0}, DiskOk(disk)
    PROVE  /\ DOMAIN Faulty(off, n, gone, early) = 1 .. Sectors(n)
           /\ \A i \in 1 .. Sectors(n) :
                LET t == Faulty(off, n, gone, early)[i]
                    pos == off + Before(i)
                IN  SoundBelow(t, pos) /\ (Reads(pos) /\ ~gone => t = Good(pos))
<1> DEFINE got == Base(off, n, gone, early)
           F == Faulty(off, n, gone, early)
<1>1. F = [i \in DOMAIN got |-> IF InSector(off, i) \in disk.faults THEN Bad ELSE got[i]]
  BY Zenon DEF Faulty
<1>2. /\ DOMAIN got = 1 .. Sectors(n)
      /\ \A i \in 1 .. Sectors(n) : SoundBelow(got[i], off + Before(i))
           /\ (ReadsBelow(off + Before(i)) /\ ~gone => got[i] = Good(off + Before(i)))
  BY BaseReads
<1>3. \A i \in 1 .. Sectors(n) : InSector(off, i) = (off + Before(i)) \div Sector
  BY SectorAt
<1>4. \A pos : Reads(pos) => ReadsBelow(pos) /\ pos \div Sector \notin disk.faults
  BY DEF Reads, ReadsBelow
<1>5. \A pos : SoundBelow(Bad, pos)
  BY DEF SoundBelow
<1> HIDE DEF got, F
<1>6. QED
  BY <1>1, <1>2, <1>3, <1>4, <1>5 DEF F

-----------------------------------------------------------------------------
(* The window.                                                             *)
LEMMA LengthIs ==
    ASSUME DiskOk(disk)
    PROVE  Length \in Nat /\ \A p \in Nat : Below(p) \in Nat
BY DEF DiskOk, Length, Below

LEMMA ViewReads ==
    ASSUME NEW off \in Nat, NEW n \in Nat, NEW gone, NEW early \in BOOLEAN, off % Sector = 0,
           Sector \in Nat \ {0}, DiskOk(disk), Opened
    PROVE  /\ DOMAIN View(off, n, gone, early) = 1 .. Sectors(n)
           /\ \A i \in 1 .. Sectors(n) :
                LET t == View(off, n, gone, early)[i]
                    p == off + Before(i)
                IN  Sound(t, p) /\ (Readable(p) /\ ~gone => t = Good(Below(p)))
<1> DEFINE V == View(off, n, gone, early)
<1>1. CASE disk.view = <<>>
  <2>1. V = Faulty(off, n, gone, early)
    BY <1>1 DEF View
  <2>2. Length = disk.len /\ \A p \in Nat : Below(p) = p
    BY <1>1 DEF Length, Below
  <2>3. \A p \in Nat : (Readable(p) => Reads(p)) /\ \A t : SoundBelow(t, p) => Sound(t, p)
    BY <2>2 DEF Sound, SoundBelow, Readable
  <2>4. \A i \in 1 .. Sectors(n) : off + Before(i) \in Nat
    BY SectorAt
  <2> HIDE DEF V
  <2>5. QED
    BY <2>1, <2>2, <2>3, <2>4, FaultyReads DEF V
<1>2. CASE disk.view # <<>>
  <2> DEFINE start == disk.view[1]
             size == disk.view[2]
  <2>1. start \in Nat /\ size \in Nat /\ disk.len \in Nat /\ start % Sector = 0 /\ start + size <= disk.len
    BY <1>2 DEF Opened, Fits, DiskOk
  <2>2. Length = size /\ \A p : Below(p) = start + p
    BY <1>2 DEF Length, Below
  <2> HIDE DEF start, size
  <2>3. CASE off >= size
    <3>1. V = AllBad(n)
      BY <1>2, <2>3 DEF View, size
    <3>2. ASSUME NEW i \in 1 .. Sectors(n) PROVE ~Readable(off + Before(i))
      <4>1. Before(i) \in Nat
        BY SectorAt
      <4>2. QED
        BY <2>1, <2>2, <2>3, <4>1 DEF Readable
    <3>3. \A p : Sound(Bad, p)
      BY DEF Sound
    <3>4. QED
      BY <3>1, <3>2, <3>3, AllBadIs
  <2>4. CASE off < size
    <3> DEFINE avail == Least(n, size - off)
               head == Faulty(start + off, avail, gone, early)
               got == [i \in 1 .. Sectors(n) |-> IF i \in DOMAIN head THEN head[i] ELSE Bad]
    <3>1. V = BadFrom(got, n, avail)
      <4>1. ~(off >= size \/ off % Sector # 0)
        BY <2>1, <2>4
      <4>2. QED
        BY <1>2, <4>1, Zenon DEF View, start, size
    <3>2. avail \in Nat /\ avail <= n /\ off + avail <= size
      BY <2>1, <2>4 DEF Least
    <3>3. start + off \in Nat /\ (start + off) % Sector = 0
      BY <2>1, SumAligned
    <3>4. Sectors(n) \in Nat /\ Sectors(avail) \in Nat
      BY <3>2, SectorsOf
    <3>5. ASSUME NEW i \in 1 .. Sectors(n)
          PROVE  /\ Before(i) \in Nat /\ Before(i) < n /\ off + Before(i) \in Nat
                 /\ i \in 1 .. Sectors(avail) <=> Before(i) < avail
      <4>1. i \in Nat \ {0} /\ Before(i) \in Nat /\ Before(i) < n
        BY SectorAt
      <4> HIDE DEF avail
      <4>2. QED
        BY <3>2, <4>1, SectorsOf
    <3>6. /\ DOMAIN head = 1 .. Sectors(avail)
          /\ \A i \in 1 .. Sectors(avail) :
               /\ SoundBelow(head[i], start + off + Before(i))
               /\ Reads(start + off + Before(i)) /\ ~gone => head[i] = Good(start + off + Before(i))
      <4> HIDE DEF avail
      <4>1. QED
        BY <3>2, <3>3, FaultyReads
    <3>7. /\ DOMAIN V = 1 .. Sectors(n)
          /\ \A i \in 1 .. Sectors(n) :
               V[i] = IF Least(Before(i) + Sector, n) > avail THEN Bad ELSE got[i]
      <4> HIDE DEF avail, got, V
      <4>1. DOMAIN got = 1 .. Sectors(n)
        BY DEF got
      <4>2. QED
        BY <3>1, <3>4, <4>1, CutIs
    <3> HIDE DEF head, V
    <3>8. ASSUME NEW i \in 1 .. Sectors(n)
          PROVE  Sound(V[i], off + Before(i)) /\ (Readable(off + Before(i)) /\ ~gone => V[i] = Good(Below(off + Before(i))))
      <4> DEFINE p == off + Before(i)
      <4>1. p \in Nat /\ Below(p) = start + off + Before(i)
        BY <2>1, <2>2, <3>5
      <4>2. CASE Before(i) < avail
        <5>1. got[i] = head[i] /\ i \in 1 .. Sectors(avail)
          BY <3>5, <3>6, <4>2
        <5>2. p < size
          BY <2>1, <3>2, <3>5, <4>2
        <5>3. SoundBelow(head[i], Below(p)) /\ (Reads(Below(p)) /\ ~gone => head[i] = Good(Below(p)))
          BY <3>6, <4>1, <5>1
        <5> HIDE DEF p
        <5>4. Sound(head[i], p) /\ Sound(Bad, p)
          BY <2>2, <5>2, <5>3 DEF Sound, SoundBelow
        <5>5. p + Sector <= size => ~(Least(Before(i) + Sector, n) > avail)
          BY <2>1, <3>2, <3>5 DEF p, Least, avail
        <5>6. QED
          BY <2>2, <3>7, <5>1, <5>3, <5>4, <5>5 DEF Readable, p
      <4>3. CASE ~(Before(i) < avail)
        <5>1. got[i] = Bad
          BY <3>5, <3>6, <4>3
        <5>2. V[i] = Bad
          <6> HIDE DEF got
          <6>1. QED
            BY <3>7, <5>1
        <5>3. ~(p + Sector <= size)
          BY <2>1, <2>4, <3>2, <3>5, <4>3 DEF Least
        <5>4. QED
          BY <2>2, <5>2, <5>3 DEF Sound, Readable
      <4>4. QED
        BY <4>2, <4>3
    <3>9. QED
      BY <3>7, <3>8 DEF V
  <2>5. QED
    BY <2>1, <2>3, <2>4
<1>3. QED
  BY <1>1, <1>2

-----------------------------------------------------------------------------
(* The cache.                                                              *)
Sizes ==
    /\ Sector \in Nat \ {0} /\ Capacity \in Nat \ {0}
    /\ Chunk \in Nat \ {0} /\ Chunk % Sector = 0

Ready == Sizes /\ DiskOk(disk) /\ Opened

LEMMA SoundToken ==
    ASSUME DiskOk(disk), NEW p \in Nat, NEW t, Sound(t, p)
    PROVE  t \in Tokens
BY LengthIs DEF Sound, Tokens

LEMMA TokensDiffer ==
    /\ Bad # Unread /\ Bad # Hole /\ Hole # Unread
    /\ \A pos : Good(pos) # Bad /\ Good(pos) # Unread /\ Good(pos) # Hole /\ Good(pos)[1] = "good"
    /\ Bad[1] # "good" /\ Hole[1] # "good" /\ Unread[1] # "good"
BY DEF Good, Bad, Hole, Unread

LEMMA FetchOk ==
    ASSUME Ready, NEW idx \in Nat, idx * Chunk < Length, NEW early \in BOOLEAN
    PROVE  /\ Fetch(idx, work.gone, early) \in Chunks /\ ChunkOk(Fetch(idx, work.gone, early))
           /\ Fetch(idx, work.gone, early).idx = idx
<1> DEFINE start == idx * Chunk
           n == Least(Chunk, Length - start)
           V == View(start, n, work.gone, early)
           F == Fetch(idx, work.gone, early)
           got == [i \in DOMAIN V |-> IF V[i] = Unread THEN Hole ELSE V[i]]
<1>1. Length \in Nat /\ start \in Nat /\ start % Sector = 0
  BY LengthIs, TimesAligned DEF Ready, Sizes
<1>2. n \in Nat /\ n = Least(Chunk, Monus(Length, start))
  BY <1>1 DEF Ready, Sizes, Least, Monus
<1>3. F = [idx |-> idx, got |-> got]
  BY <1>2 DEF Fetch
<1> HIDE DEF start, n
<1>4. /\ DOMAIN V = 1 .. Sectors(n)
      /\ \A i \in 1 .. Sectors(n) :
           /\ Sound(V[i], start + Before(i))
           /\ Readable(start + Before(i)) /\ ~work.gone => V[i] = Good(Below(start + Before(i)))
  <2>1. Sector \in Nat \ {0} /\ DiskOk(disk) /\ Opened
    BY DEF Ready, Sizes
  <2>2. QED
    BY <1>1, <1>2, <2>1, ViewReads
<1>5. Sectors(n) \in Nat /\ \A i \in 1 .. Sectors(n) : start + Before(i) \in Nat
  <2>1. Sector \in Nat \ {0}
    BY DEF Ready, Sizes
  <2>2. Sectors(n) \in Nat
    BY <1>2, <2>1, SectorsOf
  <2>3. ASSUME NEW i \in 1 .. Sectors(n) PROVE Before(i) \in Nat
    BY <1>1, <1>2, <2>1, SectorAt
  <2>4. QED
    BY <1>1, <2>2, <2>3
<1> HIDE DEF V
<1>6. DOMAIN got = 1 .. Sectors(n)
      /\ \A i \in 1 .. Sectors(n) : got[i] = IF V[i] = Unread THEN Hole ELSE V[i]
  BY <1>4
<1> HIDE DEF got
<1>7. ASSUME NEW i \in 1 .. Sectors(n)
      PROVE  /\ Sound(got[i], start + Before(i)) /\ got[i] \in Tokens
             /\ Readable(start + Before(i)) /\ ~work.gone => got[i] = Good(Below(start + Before(i)))
  <2>1. Sound(got[i], start + Before(i))
    <3>1. Sound(Unread, start + Before(i)) => Sound(Hole, start + Before(i))
      BY TokensDiffer DEF Sound
    <3>2. QED
      BY <1>4, <1>6, <3>1
  <2>2. got[i] \in Tokens
    BY <1>5, <2>1, SoundToken DEF Ready
  <2>3. QED
    BY <1>4, <1>6, <2>1, <2>2, TokensDiffer
<1>8. got \in [1 .. Sectors(n) -> Tokens]
  <2>1. got = [i \in DOMAIN V |-> IF V[i] = Unread THEN Hole ELSE V[i]]
    BY DEF got
  <2>2. got = [i \in 1 .. Sectors(n) |-> got[i]]
    BY <1>4, <1>6, <2>1
  <2>3. QED
    BY <1>7, <2>2
<1> HIDE DEF F
<1>9. F \in Chunks
  BY <1>3, <1>5, <1>8 DEF Chunks
<1>10. F.idx = idx /\ F.got = got
  BY <1>3
<1>11. ChunkOk(F)
  BY <1>6, <1>7, <1>10 DEF ChunkOk, start, n
<1>12. QED
  BY <1>9, <1>10, <1>11 DEF F

\* A chunk that is used again goes to the end.
LEMMA MovedIs ==
    ASSUME NEW S, NEW s \in Seq(S), NEW at \in 1 .. Len(s)
    PROVE  LET m == Append(RemoveAt(s, at), s[at]) IN
           /\ m \in Seq(S) /\ Len(m) = Len(s)
           /\ \A i \in 1 .. Len(s) : m[i] = s[IF i = Len(s) THEN at ELSE IF i < at THEN i ELSE i + 1]
<1> DEFINE a == SubSeq(s, 1, at - 1)
           b == SubSeq(s, at + 1, Len(s))
           m == Append(RemoveAt(s, at), s[at])
<1>1. Len(s) \in Nat /\ at \in Nat /\ at >= 1 /\ at <= Len(s) /\ s[at] \in S
  OBVIOUS
<1>2. a \in Seq(S) /\ Len(a) = at - 1 /\ \A i \in 1 .. at - 1 : a[i] = s[i]
  <2>1. \A i \in 1 .. at - 1 : s[i] \in S
    BY <1>1
  <2>2. QED
    BY <1>1, <2>1, SubSeqProperties
<1>3. b \in Seq(S) /\ Len(b) = Len(s) - at /\ \A i \in 1 .. Len(s) - at : b[i] = s[at + i]
  <2>1. \A i \in at + 1 .. Len(s) : s[i] \in S
    BY <1>1
  <2>2. QED
    BY <1>1, <2>1, SubSeqProperties
<1>4. RemoveAt(s, at) = a \o b
  BY DEF RemoveAt
<1> HIDE DEF a, b
<1>5. /\ a \o b \in Seq(S) /\ Len(a \o b) = Len(s) - 1
      /\ \A i \in 1 .. Len(s) - 1 : (a \o b)[i] = IF i < at THEN s[i] ELSE s[i + 1]
  <2>1. /\ a \o b \in Seq(S) /\ Len(a \o b) = Len(a) + Len(b)
        /\ \A i \in 1 .. Len(a) + Len(b) : (a \o b)[i] = IF i <= Len(a) THEN a[i] ELSE b[i - Len(a)]
    BY <1>2, <1>3, ConcatProperties
  <2>2. QED
    BY <1>1, <1>2, <1>3, <2>1
<1>6. /\ m \in Seq(S) /\ Len(m) = Len(s) /\ m[Len(s)] = s[at]
      /\ \A i \in 1 .. Len(s) - 1 : m[i] = (a \o b)[i]
  BY <1>1, <1>4, <1>5, AppendProperties
<1> HIDE DEF m
<1>7. ASSUME NEW i \in 1 .. Len(s)
      PROVE  m[i] = s[IF i = Len(s) THEN at ELSE IF i < at THEN i ELSE i + 1]
  <2>1. CASE i = Len(s)
    BY <1>6, <2>1
  <2>2. CASE i # Len(s)
    <3>1. i \in 1 .. Len(s) - 1
      BY <1>1, <2>2
    <3>2. m[i] = IF i < at THEN s[i] ELSE s[i + 1]
      BY <1>5, <1>6, <3>1
    <3>3. QED
      BY <2>2, <3>2
  <2>3. QED
    BY <2>1, <2>2
<1>8. QED
  BY <1>6, <1>7 DEF m

\* After a use the chunk is there, and so is every other one that was.
LEMMA UseOk ==
    ASSUME Ready, NEW s, ChunksOk(s), NEW idx \in Nat, idx * Chunk < Length, NEW early \in BOOLEAN
    PROVE  /\ ChunksOk(Use(s, idx, work.gone, early))
           /\ Has(Use(s, idx, work.gone, early), idx)
           /\ \A x : Has(s, x) => Has(Use(s, idx, work.gone, early), x)
<1> DEFINE U == Use(s, idx, work.gone, early)
           F == Fetch(idx, work.gone, early)
           places == {i \in DOMAIN s : s[i].idx = idx}
           at == CHOOSE i \in places : TRUE
<1>1. s \in Seq(Chunks) /\ Len(s) \in Nat /\ DOMAIN s = 1 .. Len(s)
  BY DEF ChunksOk
<1>2. U = IF places = {} THEN Append(s, F) ELSE Append(RemoveAt(s, at), s[at])
  BY DEF Use
<1>3. CASE places = {}
  <2>1. F \in Chunks /\ ChunkOk(F) /\ F.idx = idx
    BY FetchOk
  <2>2. \A i \in 1 .. Len(s) : s[i].idx # idx
    BY <1>1, <1>3
  <2> HIDE DEF F
  <2>3. /\ U \in Seq(Chunks) /\ Len(U) = Len(s) + 1
        /\ \A i \in 1 .. Len(s) : U[i] = s[i]
        /\ U[Len(s) + 1] = F
    BY <1>1, <1>2, <1>3, <2>1, AppendProperties
  <2> HIDE DEF U, places
  <2>4. ASSUME NEW i \in 1 .. Len(U), i # Len(s) + 1
        PROVE  i \in 1 .. Len(s) /\ U[i] = s[i]
    BY <1>1, <2>3, <2>4
  <2>5. \A i \in 1 .. Len(U) : ChunkOk(U[i])
    BY <2>1, <2>3, <2>4 DEF ChunksOk
  <2>6. \A i, j \in 1 .. Len(U) : U[i].idx = U[j].idx => i = j
    BY <2>1, <2>2, <2>3, <2>4 DEF ChunksOk
  <2>7. Len(s) + 1 \in 1 .. Len(U) /\ \A i \in 1 .. Len(s) : i \in 1 .. Len(U)
    BY <1>1, <2>3
  <2>8. QED
    BY <2>1, <2>3, <2>5, <2>6, <2>7 DEF ChunksOk, Has, U
<1>4. CASE places # {}
  <2>1. at \in 1 .. Len(s) /\ s[at].idx = idx
    <3>1. at \in places
      <4> HIDE DEF places
      <4>1. QED
        BY <1>4
    <3>2. QED
      BY <1>1, <3>1
  <2> DEFINE From(i) == IF i = Len(s) THEN at ELSE IF i < at THEN i ELSE i + 1
             Back(i) == IF i = at THEN Len(s) ELSE IF i < at THEN i ELSE i - 1
  <2> HIDE DEF at
  <2>2. U = Append(RemoveAt(s, at), s[at])
    BY <1>2, <1>4
  <2> HIDE DEF U, places
  <2>3. U \in Seq(Chunks) /\ Len(U) = Len(s) /\ \A i \in 1 .. Len(s) : U[i] = s[From(i)]
    BY <1>1, <2>1, <2>2, MovedIs
  <2>4. \A i \in 1 .. Len(s) : From(i) \in 1 .. Len(s) /\ Back(i) \in 1 .. Len(s) /\ From(Back(i)) = i
    <3> DEFINE L == Len(s)
    <3>1. L \in Nat /\ at \in 1 .. L
      BY <1>1, <2>1
    <3> HIDE DEF L
    <3>2. ASSUME NEW i \in 1 .. L
          PROVE  /\ (IF i = L THEN at ELSE IF i < at THEN i ELSE i + 1) \in 1 .. L
                 /\ (IF i = at THEN L ELSE IF i < at THEN i ELSE i - 1) \in 1 .. L
      BY <3>1
    <3>3. ASSUME NEW i \in 1 .. L, NEW b \in 1 .. L, b = IF i = at THEN L ELSE IF i < at THEN i ELSE i - 1
          PROVE  (IF b = L THEN at ELSE IF b < at THEN b ELSE b + 1) = i
      <4>1. CASE i = at
        BY <3>1, <3>3, <4>1
      <4>2. CASE i < at
        BY <3>1, <3>3, <4>2
      <4>3. CASE i > at
        BY <3>1, <3>3, <4>3
      <4>4. QED
        BY <3>1, <4>1, <4>2, <4>3
    <3>4. QED
      BY <3>2, <3>3 DEF L
  <2>5. \A i, j \in 1 .. Len(s) : From(i) = From(j) => i = j
    <3> DEFINE L == Len(s)
    <3>1. L \in Nat /\ at \in 1 .. L
      BY <1>1, <2>1
    <3> HIDE DEF L
    <3>2. ASSUME NEW i \in 1 .. L
          PROVE  i = IF From(i) = at THEN L ELSE IF From(i) < at THEN From(i) ELSE From(i) - 1
      <4>1. CASE i = L
        BY <4>1 DEF L
      <4>2. CASE i # L /\ i < at
        BY <3>1, <4>2 DEF L
      <4>3. CASE i # L /\ ~(i < at)
        <5>1. From(i) = i + 1
          BY <4>3 DEF L
        <5> HIDE DEF From
        <5>2. QED
          BY <3>1, <4>3, <5>1
      <4>4. QED
        BY <4>1, <4>2, <4>3
    <3> HIDE DEF From
    <3>3. \A i, j \in 1 .. L : From(i) = From(j) => i = j
      BY <3>2, Zenon
    <3>4. QED
      BY <3>3 DEF L
  <2> HIDE DEF From, Back
  <2>12. /\ \A i \in 1 .. Len(s) : ChunkOk(s[i])
         /\ \A i, j \in 1 .. Len(s) : s[i].idx = s[j].idx => i = j
    BY DEF ChunksOk
  <2>6. \A i \in 1 .. Len(U) : ChunkOk(U[i])
    BY <2>3, <2>4, <2>12
  <2>7. \A i, j \in 1 .. Len(U) : U[i].idx = U[j].idx => i = j
    <3>1. ASSUME NEW i \in 1 .. Len(s), NEW j \in 1 .. Len(s), U[i].idx = U[j].idx
          PROVE  i = j
      <4>1. s[From(i)].idx = s[From(j)].idx
        BY <2>3, <3>1
      <4>2. From(i) = From(j)
        BY <2>4, <2>12, <4>1
      <4>3. QED
        BY <2>5, <4>2
    <3>2. QED
      BY <2>3, <3>1
  <2>8. ASSUME NEW x, Has(s, x) PROVE Has(U, x)
    <3>1. PICK i \in 1 .. Len(s) : s[i].idx = x
      BY <2>8 DEF Has
    <3>2. Back(i) \in 1 .. Len(s) /\ U[Back(i)] = s[i]
      BY <2>3, <2>4
    <3>3. QED
      BY <2>3, <3>1, <3>2 DEF Has
  <2>9. Has(s, idx)
    BY <2>1 DEF Has
  <2>10. QED
    BY <2>3, <2>6, <2>7, <2>8, <2>9 DEF ChunksOk, U
<1>5. QED
  BY <1>3, <1>4

LEMMA DivMono ==
    ASSUME NEW a \in Nat, NEW b \in Nat, NEW c \in Nat \ {0}, a <= b
    PROVE  a \div c \in Nat /\ b \div c \in Nat /\ a \div c <= b \div c
OBVIOUS

\* The chunks of a read are those of its first byte, of its last and all between.
LEMMA NeededIs ==
    ASSUME Ready, NEW off \in Nat, NEW n \in Nat, off < Length
    PROVE  LET N == Needed(off, n) IN
           /\ Len(N) \in Nat /\ DOMAIN N = 1 .. Len(N)
           /\ \A k \in 1 .. Len(N) : N[k] \in Nat /\ N[k] * Chunk < Length
           /\ \A at \in Nat : off <= at /\ at < off + n /\ at < Length
                => \E k \in 1 .. Len(N) : N[k] = at \div Chunk
<1> DEFINE last == Least(off + n, Length) - 1
           first == off \div Chunk
           end == last \div Chunk
           m == end - first + 1
           N == Needed(off, n)
<1>1. Chunk \in Nat \ {0} /\ Length \in Nat
  BY LengthIs DEF Ready, Sizes
<1>2. last \in Int /\ last < Length /\ last >= off - 1
  BY <1>1 DEF Least
<1>3. first \in Nat /\ Chunk * first <= off
  BY <1>1, DivIs
<1>4. N = [k \in 1 .. m |-> first + k - 1]
  BY DEF Needed
<1> HIDE DEF last, first
<1>5. m \in Nat /\ end \in Int /\ (last \in Nat => Chunk * end <= last)
  <2>1. CASE last \in Nat /\ off <= last
    <3>1. end \in Nat /\ Chunk * end <= last
      BY <1>1, <2>1, DivIs
    <3>2. first <= end
      BY <1>1, <2>1, DivMono DEF first
    <3> HIDE DEF end
    <3>3. QED
      BY <1>3, <3>1, <3>2
  <2>2. CASE last \in Nat /\ last = off - 1
    <3>1. end \in Nat /\ Chunk * end <= last
      BY <1>1, <2>2, DivIs
    <3>2. Chunk * first < Chunk * end + Chunk + 1
      BY <1>1, <1>3, <2>2, <3>1, DivIs
    <3>3. last < Chunk * end + Chunk
      BY <1>1, <2>2, DivIs
    <3> HIDE DEF end
    <3>4. Chunk * first < Chunk * (end + 1) + Chunk /\ end + 1 \in Nat
      BY <1>1, <1>3, <2>2, <3>1, <3>3
    <3>5. first <= end + 1
      BY <1>1, <1>3, <3>4, Less
    <3>6. QED
      BY <1>3, <3>1, <3>5
  <2>3. CASE last = -1
    <3>1. end = -1
      BY <1>1, <2>3
    <3>2. off = 0
      BY <1>2, <2>3
    <3>3. first = 0
      BY <1>1, <3>2 DEF first
    <3>4. QED
      BY <2>3, <3>1, <3>3
  <2>4. QED
    BY <1>2, <2>1, <2>2, <2>3
<1> HIDE DEF end
<1>6. Len(N) = m /\ DOMAIN N = 1 .. m /\ \A k \in 1 .. m : N[k] = first + k - 1
  <2> HIDE DEF N
  <2>1. QED
    BY <1>3, <1>4, <1>5
<1> HIDE DEF N
<1>7. ASSUME NEW k \in 1 .. m
      PROVE  N[k] \in Nat /\ N[k] * Chunk < Length
  <2>1. N[k] = first + k - 1 /\ N[k] \in Nat /\ N[k] <= end /\ end \in Nat
    BY <1>3, <1>5, <1>6
  <2>2. Chunk * N[k] <= Chunk * end
    BY <1>1, <2>1, TimesMonotone
  <2>3. N[k] * Chunk = Chunk * N[k] /\ Chunk * N[k] \in Nat /\ Chunk * end \in Nat
    BY <1>1, <2>1
  <2>4. last \in Nat
    <3>1. CASE last = -1
      <4>1. end = -1
        BY <1>1, <3>1 DEF end
      <4>2. QED
        BY <2>1, <4>1
    <3>2. QED
      BY <1>2, <3>1
  <2>5. Chunk * end <= last
    BY <1>5, <2>4
  <2> DEFINE x == N[k] * Chunk
             y == Chunk * end
  <2>6. x \in Nat /\ y \in Nat /\ x <= y /\ y <= last
    BY <2>2, <2>3, <2>5
  <2> HIDE DEF x, y
  <2>7. x < Length
    BY <1>1, <1>2, <2>6
  <2>8. QED
    BY <2>1, <2>7 DEF x
<1>8. ASSUME NEW at \in Nat, off <= at, at < off + n, at < Length
      PROVE  \E k \in 1 .. m : N[k] = at \div Chunk
  <2>1. at <= last /\ last \in Nat
    BY <1>1, <1>2, <1>8 DEF last, Least
  <2>2. first <= at \div Chunk /\ at \div Chunk \in Nat /\ at \div Chunk <= end /\ end \in Nat
    BY <1>1, <1>8, <2>1, DivMono DEF first, end
  <2> DEFINE j == at \div Chunk
  <2> HIDE DEF j
  <2>3. j - first + 1 \in 1 .. m
    BY <1>3, <2>2 DEF j
  <2>4. N[j - first + 1] = j
    BY <1>3, <1>6, <2>2, <2>3 DEF j
  <2>5. QED
    BY <2>3, <2>4 DEF j
<1>9. QED
  BY <1>5, <1>6, <1>7, <1>8 DEF N

LEMMA FilledOk ==
    ASSUME Ready, ChunksOk(seen), Asked \in Nat \X Nat, Asked[1] < Length, NEW early \in BOOLEAN
    PROVE  LET filled == Filled(Asked[1], Asked[2], work.gone, early) IN
           /\ ChunksOk(filled)
           /\ \A at \in Nat : Asked[1] <= at /\ at < Asked[1] + Asked[2] /\ at < Length => Has(filled, at \div Chunk)
<1> DEFINE off == Asked[1]
           n == Asked[2]
           N == Needed(off, n)
           filled == Filled(off, n, work.gone, early)
<1>1. off \in Nat /\ n \in Nat /\ off < Length
  OBVIOUS
<1>2. filled = Uses!Fold(early, seen, N)
  BY DEF Filled, Uses!Fold, FoldLeft, StackOp, MapThenFoldSet, Uses!MapThenFoldSet, Uses!Max, Max
<1>3. /\ Len(N) \in Nat /\ DOMAIN N = 1 .. Len(N)
      /\ \A k \in 1 .. Len(N) : N[k] \in Nat /\ N[k] * Chunk < Length
      /\ \A at \in Nat : off <= at /\ at < off + n /\ at < Length => \E k \in 1 .. Len(N) : N[k] = at \div Chunk
  <2> HIDE DEF off, n
  <2>1. QED
    BY <1>1, NeededIs
<1>4. StackKeeps(early, seen, 0)
  BY DEF StackKeeps
<1>5. ASSUME NEW k \in 1 .. Len(N), NEW acc, StackKeeps(early, acc, k - 1)
      PROVE  StackKeeps(early, StackOp(early, acc, N[k]), k)
  <2> DEFINE U == StackOp(early, acc, N[k])
  <2>1. ChunksOk(acc) /\ \A j \in 1 .. k - 1 : Has(acc, N[j])
    BY <1>5 DEF StackKeeps
  <2> HIDE DEF N
  <2>2. ChunksOk(U) /\ Has(U, N[k]) /\ \A x : Has(acc, x) => Has(U, x)
    BY <1>3, <2>1, UseOk DEF StackOp
  <2> HIDE DEF U
  <2>3. \A j \in 1 .. k : Has(U, N[j])
    <3>1. \A j \in 1 .. k : j = k \/ j \in 1 .. k - 1
      BY <1>3
    <3>2. QED
      BY <2>1, <2>2, <3>1
  <2>4. QED
    BY <2>2, <2>3 DEF StackKeeps, U, N, off, n
<1> HIDE DEF N
<1>6. StackKeeps(early, Uses!Fold(early, seen, N), Len(N))
  BY <1>3, <1>4, <1>5, Uses!FoldKeeps
<1> HIDE DEF filled
<1>7. ChunksOk(filled) /\ \A j \in 1 .. Len(N) : Has(filled, N[j])
  BY <1>2, <1>6 DEF StackKeeps, N, off, n
<1>8. QED
  <2> HIDE DEF off, n
  <2>1. QED
    BY <1>3, <1>7 DEF filled, off, n

LEMMA EvictOk ==
    ASSUME Ready, NEW s, ChunksOk(s)
    PROVE  ChunksOk(Evict(s)) /\ Len(Evict(s)) <= Capacity
<1> DEFINE d == Monus(Len(s), Capacity)
           e == Evict(s)
<1>1. s \in Seq(Chunks) /\ Len(s) \in Nat /\ Capacity \in Nat /\ DOMAIN s = 1 .. Len(s)
  BY DEF ChunksOk, Ready, Sizes
<1>2. d \in Nat /\ d <= Len(s) /\ Len(s) - d <= Capacity
  BY <1>1 DEF Monus
<1>3. e = SubSeq(s, 1 + d, Len(s))
  BY DEF Evict
<1> HIDE DEF d, e
<1>4. e \in Seq(Chunks) /\ Len(e) = Len(s) - d /\ \A i \in 1 .. Len(s) - d : e[i] = s[d + i]
  <2>1. \A i \in 1 + d .. Len(s) : s[i] \in Chunks
    BY <1>1, <1>2
  <2> DEFINE a == 1 + d
             b == Len(s)
  <2>2. a \in Int /\ b \in Int /\ \A i \in a .. b : s[i] \in Chunks
    BY <1>1, <1>2, <2>1
  <2> HIDE DEF a, b
  <2>3. /\ SubSeq(s, a, b) \in Seq(Chunks)
        /\ Len(SubSeq(s, a, b)) = IF a <= b THEN b - a + 1 ELSE 0
        /\ \A i \in 1 .. b - a + 1 : SubSeq(s, a, b)[i] = s[a + i - 1]
    BY <2>2, SubSeqProperties
  <2>4. e = SubSeq(s, a, b)
    BY <1>3 DEF a, b
  <2>5. a = 1 + d /\ b = Len(s)
    BY DEF a, b
  <2> DEFINE L == Len(s)
  <2>6. L \in Nat /\ L = Len(s)
    BY <1>1
  <2> HIDE DEF L
  <2>7. (IF a <= b THEN b - a + 1 ELSE 0) = L - d /\ b - a + 1 = L - d
    BY <1>2, <2>5, <2>6
  <2>8. ASSUME NEW i \in 1 .. L - d PROVE e[i] = s[d + i]
    <3>1. a + i - 1 = d + i
      BY <1>2, <2>5, <2>6
    <3>2. QED
      BY <2>3, <2>4, <2>7, <3>1
  <2>9. Len(e) = L - d
    BY <2>3, <2>4, <2>7
  <2>10. QED
    BY <2>3, <2>4, <2>6, <2>8, <2>9
<1>5. \A i \in 1 .. Len(e) : d + i \in 1 .. Len(s) /\ e[i] = s[d + i]
  BY <1>1, <1>2, <1>4
<1>6. /\ \A i \in 1 .. Len(s) : ChunkOk(s[i])
      /\ \A i, j \in 1 .. Len(s) : s[i].idx = s[j].idx => i = j
  BY DEF ChunksOk
<1>7. \A i \in 1 .. Len(e) : ChunkOk(e[i])
  BY <1>5, <1>6
<1>8. ASSUME NEW i \in 1 .. Len(e), NEW j \in 1 .. Len(e), e[i].idx = e[j].idx
      PROVE  i = j
  <2>1. d + i = d + j
    BY <1>5, <1>6, <1>8
  <2>2. Len(e) \in Nat
    BY <1>4
  <2>3. QED
    BY <1>2, <2>1, <2>2
<1>9. ChunksOk(e)
  BY <1>4, <1>7, <1>8 DEF ChunksOk
<1>10. QED
  BY <1>2, <1>4, <1>9 DEF e

\* Where a sector that is asked for lies in its chunk.
LEMMA InChunk ==
    ASSUME Sizes, NEW at \in Nat, at % Sector = 0
    PROVE  LET j == at \div Chunk
               k == 1 + ((at % Chunk) \div Sector)
           IN  /\ j \in Nat /\ j * Chunk \in Nat /\ k \in Nat \ {0}
               /\ Before(k) \in Nat /\ j * Chunk + Before(k) = at /\ Before(k) < Chunk
<1> DEFINE j == at \div Chunk
           x == at % Chunk
           q == x \div Sector
<1>1. Sector \in Nat \ {0} /\ Chunk \in Nat \ {0} /\ Chunk % Sector = 0
  BY DEF Sizes
<1>2. j \in Nat /\ x \in Nat /\ x < Chunk /\ x = at - Chunk * j /\ Chunk * j <= at
  <2>1. at \div Chunk \in Nat /\ at % Chunk \in Nat /\ at % Chunk < Chunk
    BY <1>1, DivIs
  <2>2. Chunk * (at \div Chunk) <= at
    BY <1>1, DivIs
  <2>3. at % Chunk = at - Chunk * (at \div Chunk)
    BY <1>1, DivIs
  <2>4. QED
    BY <2>1, <2>2, <2>3
<1> HIDE DEF j, x
<1>3. j * Chunk \in Nat /\ (j * Chunk) % Sector = 0 /\ j * Chunk = Chunk * j
  <2>1. j * Chunk \in Nat /\ (j * Chunk) % Sector = 0
    BY <1>1, <1>2, TimesAligned
  <2>2. j * Chunk = Chunk * j
    BY <1>1, <1>2
  <2>3. QED
    BY <2>1, <2>2
<1>4. x % Sector = 0
  <2> DEFINE c == j * Chunk
  <2>1. c \in Nat /\ c % Sector = 0 /\ c <= at /\ x = at - c
    BY <1>2, <1>3
  <2> HIDE DEF c
  <2>2. QED
    BY <1>1, <2>1, LessAligned
<1>5. q \in Nat /\ x = Sector * q
  BY <1>1, <1>2, <1>4, DivExact
<1> HIDE DEF q
<1>6. Before(1 + q) = x
  <2>1. (1 + q) - 1 = q
    BY <1>5
  <2>2. Before(1 + q) = q * Sector
    BY <2>1 DEF Before
  <2>3. QED
    BY <1>1, <1>5, <2>2
<1>7. QED
  <2>1. j * Chunk + x = at
    BY <1>2, <1>3
  <2>2. QED
    BY <1>2, <1>3, <1>5, <1>6, <2>1 DEF j, x, q

\* The chunks of a read are there, and what it is made of them.
Covered(s, off, n) == \A at \in Nat : off <= at /\ at < off + n /\ at < Length => Has(s, at \div Chunk)

Serves(f, off, n, gone) ==
    /\ DOMAIN f = 1 .. Sectors(n)
    /\ \A i \in 1 .. Sectors(n) :
        LET p == off + Before(i)
        IN  Sound(f[i], p) /\ (Readable(p) /\ ~gone => f[i] = Good(Below(p)))

LEMMA FromChunksOk ==
    ASSUME Ready, NEW s, ChunksOk(s), NEW off \in Nat, NEW n \in Nat, off < Length, off % Sector = 0,
           Covered(s, off, n)
    PROVE  Serves(FromChunks(s, off, n), off, n, work.gone)
<1> DEFINE Of(at) == CHOOSE x \in ToSet(s) : x.idx = at \div Chunk
           Sec(at) == IF at >= Length THEN Bad ELSE Of(at).got[1 + ((at % Chunk) \div Sector)]
           got == [i \in 1 .. Sectors(n) |-> Sec(off + Before(i))]
           c == Least(n, Length - off)
           R == FromChunks(s, off, n)
<1>1. Sector \in Nat \ {0} /\ Chunk \in Nat \ {0} /\ Length \in Nat /\ DiskOk(disk)
  BY LengthIs DEF Ready, Sizes
<1>2. R = BadFrom(got, n, c)
  BY Zenon DEF FromChunks, Before
<1>3. Sectors(n) \in Nat
  BY <1>1, SectorsOf
<1>4. c \in Nat /\ c <= n /\ off + c <= Length
  BY <1>1 DEF Least
<1>5. ASSUME NEW i \in 1 .. Sectors(n)
      PROVE  /\ Before(i) \in Nat /\ Before(i) < n /\ off + Before(i) \in Nat /\ off <= off + Before(i)
             /\ off + Before(i) < off + n /\ (off + Before(i)) % Sector = 0
  <2>1. Before(i) \in Nat /\ Before(i) < n /\ (off + Before(i)) % Sector = 0
    BY <1>1, SectorAt
  <2>2. QED
    BY <2>1
<1>6. ASSUME NEW at \in Nat, at < Length, at % Sector = 0, Has(s, at \div Chunk)
      PROVE  Sound(Sec(at), at) /\ (Readable(at) /\ ~work.gone => Sec(at) = Good(Below(at)))
  <2> DEFINE j == at \div Chunk
             k == 1 + ((at % Chunk) \div Sector)
             x == Of(at)
             size == Least(Chunk, Length - j * Chunk)
  <2>1. x \in ToSet(s) /\ x.idx = j
    <3>1. PICK i \in 1 .. Len(s) : s[i].idx = j
      BY <1>6 DEF Has
    <3>2. s[i] \in ToSet(s)
      <4>1. DOMAIN s = 1 .. Len(s)
        BY DEF ChunksOk
      <4>2. QED
        BY <4>1 DEF ToSet
    <3>3. \E y \in ToSet(s) : y.idx = at \div Chunk
      BY <3>1, <3>2
    <3>4. QED
      BY <3>3, Zenon
  <2>2. ChunkOk(x)
    <3> HIDE DEF x
    <3>1. DOMAIN s = 1 .. Len(s)
      BY DEF ChunksOk
    <3>2. QED
      BY <2>1, <3>1 DEF ChunksOk, ToSet
  <2>3. j \in Nat /\ j * Chunk \in Nat /\ k \in Nat \ {0} /\ Before(k) \in Nat /\ j * Chunk + Before(k) = at /\ Before(k) < Chunk
    BY <1>6, InChunk DEF Ready
  <2>4. Sec(at) = x.got[k]
    BY <1>1, <1>6
  <2> HIDE DEF j, k, x, Sec
  <2> DEFINE start == j * Chunk
  <2>5. start \in Nat /\ start + Before(k) = at /\ size = Least(Chunk, Length - start)
    BY <2>3
  <2>6. size \in Nat /\ Before(k) < size
    <3> HIDE DEF start
    <3>1. QED
      BY <1>1, <1>6, <2>3, <2>5 DEF Least
  <2> HIDE DEF size
  <2>7. k \in 1 .. Sectors(size)
    BY <1>1, <2>3, <2>6, SectorsOf
  <2>8. DOMAIN x.got = 1 .. Sectors(size)
    BY <2>1, <2>2 DEF ChunkOk, size
  <2>9. Sound(x.got[k], j * Chunk + Before(k))
        /\ (Readable(j * Chunk + Before(k)) /\ ~work.gone => x.got[k] = Good(Below(j * Chunk + Before(k))))
    BY <2>1, <2>2, <2>7, <2>8 DEF ChunkOk
  <2>10. QED
    BY <2>3, <2>4, <2>9
<1>7. ASSUME NEW at \in Nat, ~(at < Length)
      PROVE  Sec(at) = Bad
  BY <1>1, <1>7
<1> HIDE DEF Sec, c
<1>8. DOMAIN R = 1 .. Sectors(n)
      /\ \A i \in 1 .. Sectors(n) :
           R[i] = IF Least(Before(i) + Sector, n) > c THEN Bad ELSE Sec(off + Before(i))
  <2>1. DOMAIN got = 1 .. Sectors(n) /\ \A i \in 1 .. Sectors(n) : got[i] = Sec(off + Before(i))
    OBVIOUS
  <2> HIDE DEF got, R
  <2>2. QED
    BY <1>1, <1>2, <1>3, <2>1, CutIs
<1> HIDE DEF R
<1>9. ASSUME NEW i \in 1 .. Sectors(n)
      PROVE  LET p == off + Before(i)
             IN  Sound(R[i], p) /\ (Readable(p) /\ ~work.gone => R[i] = Good(Below(p)))
  <2> DEFINE p == off + Before(i)
  <2>1. p \in Nat /\ off <= p /\ p < off + n /\ p % Sector = 0
    BY <1>5
  <2>2. CASE p < Length
    <3>1. Sound(Sec(p), p) /\ (Readable(p) /\ ~work.gone => Sec(p) = Good(Below(p)))
      <4> HIDE DEF p
      <4>1. Has(s, p \div Chunk)
        BY <2>1, <2>2 DEF Covered
      <4>2. QED
        BY <1>6, <2>1, <2>2, <4>1
    <3>2. Readable(p) => ~(Least(Before(i) + Sector, n) > c)
      <4>1. Readable(p) => p + Sector <= Length
        BY DEF Readable
      <4>2. QED
        BY <1>1, <1>5, <4>1 DEF c, Least
    <3>3. Sound(Bad, p)
      BY DEF Sound
    <3>4. QED
      BY <1>8, <3>1, <3>2, <3>3
  <2>3. CASE ~(p < Length)
    <3>1. Sec(p) = Bad
      BY <1>7, <2>1, <2>3
    <3>2. R[i] = Bad
      BY <1>8, <3>1
    <3>3. ~Readable(p)
      BY <1>1, <2>1, <2>3 DEF Readable
    <3>4. QED
      BY <3>2, <3>3 DEF Sound
  <2>4. QED
    BY <2>2, <2>3
<1>10. QED
  BY <1>8, <1>9 DEF R, Serves

-----------------------------------------------------------------------------
(* The invariant: what the cache keeps and what was returned stays true of  *)
(* the disk, which does not change; a chunk may lack what can be read only  *)
(* when the device is gone.                                                 *)
Answers == [off : Nat, got : UNION {[1 .. m -> Tokens] : m \in Nat}, gone : BOOLEAN]

SectorOk(r, k) ==
    IF r.off % Sector = 0
    THEN LET p == r.off + Before(k)
         IN  Sound(r.got[k], p) /\ (Readable(p) /\ ~r.gone => r.got[k] = Good(Below(p)))
    ELSE r.got[k] = Bad

AnswerOk(r) == \A k \in DOMAIN r.got : SectorOk(r, k)

State ==
    /\ disk \in Disks /\ opts \in Requests
    /\ work \in [left : 0 .. Len(opts), gone : BOOLEAN]
    /\ pc \in {"walk", "done"} => Opened

Cache == ChunksOk(seen) /\ Len(seen) <= Capacity

Output == out \in Seq(Answers) /\ \A i \in 1 .. Len(out) : AnswerOk(out[i])

StackInv == State /\ Cache /\ Output

LEMMA SoundStays ==
    ASSUME UNCHANGED disk
    PROVE  /\ \A t, p : Sound(t, p) => Sound(t, p)'
           /\ \A p : Readable(p)' => Readable(p)
           /\ \A p : (Good(Below(p)))' = Good(Below(p))
           /\ Length' = Length
<1>1. /\ \A p : Below(p)' = Below(p)
      /\ Length' = Length
  BY DEF Below, Length
<1>2. \A pos : Absent(pos) <=> Absent(pos)'
  BY DEF Absent, NotThere
<1>3. \A t, p : Sound(t, p) => Sound(t, p)'
  BY <1>1, <1>2 DEF Sound, Absent, NotThere, Below, Length, Good, Bad, Hole, Unread
<1>4. \A p : Readable(p)' => Readable(p)
  BY DEF Readable, Reads, ReadsBelow, Below, Length
<1>5. \A p : (Good(Below(p)))' = Good(Below(p))
  BY <1>1 DEF Good, Below
<1>6. QED
  BY <1>1, <1>3, <1>4, <1>5

LEMMA ChunkStays ==
    ASSUME UNCHANGED disk, work.gone => work'.gone
    PROVE  \A c : ChunkOk(c) => ChunkOk(c)'
BY SoundStays DEF ChunkOk

LEMMA ChunksStay ==
    ASSUME UNCHANGED disk, work.gone => work'.gone, ChunksOk(seen')
    PROVE  ChunksOk(seen)'
BY ChunkStays DEF ChunksOk

LEMMA AnswerStays ==
    ASSUME UNCHANGED disk
    PROVE  \A r : AnswerOk(r) => AnswerOk(r)'
BY SoundStays DEF AnswerOk, SectorOk

LEMMA StackInit ==
    ASSUME StacksOk, Init
    PROVE  StackInv
<1>1. opts \in Seq(Nat \X Nat)
  BY DEF Init, StacksOk
<1>2. State
  <2>1. Len(opts) \in 0 .. Len(opts)
    BY <1>1
  <2>2. QED
    BY <2>1 DEF Init, State
<1>3. Cache
  BY DEF Init, Cache, ChunksOk, StacksOk
<1>4. Output
  BY DEF Init, Output
<1>5. QED
  BY <1>2, <1>3, <1>4 DEF StackInv

\* A read that starts within a sector or after the end returns nothing.
LEMMA UnalignedView ==
    ASSUME NEW off \in Nat, NEW n \in Nat, NEW gone, NEW early, off % Sector # 0, DiskOk(disk)
    PROVE  View(off, n, gone, early) = AllBad(n)
<1>1. CASE disk.view = <<>>
  <2>1. View(off, n, gone, early) = Base(off, n, gone, early)
    BY <1>1 DEF View, Faulty
  <2>2. Base(off, n, gone, early) = AllBad(n)
    BY DEF Base, Device, Image, Memory, Mapped, DiskOk
  <2>3. QED
    BY <2>1, <2>2
<1>2. CASE disk.view # <<>>
  BY <1>2 DEF View
<1>3. QED
  BY <1>1, <1>2

\* What one read returns, through the cache or not.
LEMMA GotOk ==
    ASSUME Ready, NEW off \in Nat, NEW n \in Nat, NEW got, NEW gone \in BOOLEAN,
           \/ off % Sector = 0 /\ DOMAIN got = 1 .. Sectors(n)
              /\ \A i \in 1 .. Sectors(n) :
                   LET p == off + Before(i)
                   IN  Sound(got[i], p) /\ (Readable(p) /\ ~gone => got[i] = Good(Below(p)))
           \/ got = AllBad(n) /\ (off % Sector = 0 => off >= Length)
    PROVE  LET r == [off |-> off, got |-> got, gone |-> gone]
           IN  (got = [i \in DOMAIN got |-> got[i]] => r \in Answers) /\ AnswerOk(r)
<1> DEFINE r == [off |-> off, got |-> got, gone |-> gone]
<1>1. Sectors(n) \in Nat /\ Length \in Nat /\ Sector \in Nat \ {0}
  BY SectorsOf, LengthIs DEF Ready, Sizes
<1>2. DOMAIN got = 1 .. Sectors(n) /\ \A i \in 1 .. Sectors(n) : got[i] \in Tokens /\ SectorOk(r, i)
  <2>1. CASE off % Sector = 0 /\ DOMAIN got = 1 .. Sectors(n)
              /\ \A i \in 1 .. Sectors(n) :
                   LET p == off + Before(i)
                   IN  Sound(got[i], p) /\ (Readable(p) /\ ~gone => got[i] = Good(Below(p)))
    <3>1. ASSUME NEW i \in 1 .. Sectors(n) PROVE off + Before(i) \in Nat
      BY <1>1, <2>1, SectorAt
    <3>2. QED
      BY <2>1, <3>1, SoundToken DEF SectorOk, Ready
  <2>2. CASE got = AllBad(n) /\ (off % Sector = 0 => off >= Length)
    <3>1. DOMAIN got = 1 .. Sectors(n) /\ \A i \in 1 .. Sectors(n) : got[i] = Bad /\ got[i] \in Tokens
      BY <2>2, AllBadIs DEF Tokens
    <3>2. ASSUME NEW i \in 1 .. Sectors(n), off % Sector = 0
          PROVE  Sound(Bad, off + Before(i)) /\ ~Readable(off + Before(i))
      <4>1. Before(i) \in Nat
        BY <1>1, <3>2, SectorAt
      <4>2. QED
        BY <1>1, <2>2, <3>2, <4>1 DEF Sound, Readable
    <3>3. QED
      BY <3>1, <3>2 DEF SectorOk
  <2>3. QED
    BY <2>1, <2>2
<1>3. AnswerOk(r)
  BY <1>2 DEF AnswerOk
<1>4. ASSUME got = [i \in DOMAIN got |-> got[i]]
      PROVE  r \in Answers
  <2>1. got \in [1 .. Sectors(n) -> Tokens]
    BY <1>2, <1>4
  <2>2. QED
    BY <1>1, <2>1 DEF Answers
<1>5. QED
  BY <1>3, <1>4

\* What each of the two ways to read makes is a function on its sectors.
LEMMA IsFunction ==
    ASSUME NEW off, NEW n, NEW gone, NEW early, NEW s
    PROVE  /\ FromChunks(s, off, n) = [i \in DOMAIN FromChunks(s, off, n) |-> FromChunks(s, off, n)[i]]
           /\ AllBad(n) = [i \in DOMAIN AllBad(n) |-> AllBad(n)[i]]
BY DEF FromChunks, BadFrom, AllBad

LEMMA ViewIsFunction ==
    ASSUME NEW off \in Nat, NEW n \in Nat, NEW gone, NEW early, DiskOk(disk)
    PROVE  LET V == View(off, n, gone, early) IN V = [i \in DOMAIN V |-> V[i]]
<1> DEFINE V == View(off, n, gone, early)
           Whole(f) == f = [i \in DOMAIN f |-> f[i]]
<1>1. Whole(AllBad(n))
  BY IsFunction
<1>2. \A got, from : Whole(BadFrom(got, n, from))
  BY DEF BadFrom
<1>3. CASE off % Sector # 0
  BY <1>1, <1>3, UnalignedView
<1>4. CASE off % Sector = 0
  <2>1. CASE disk.view = <<>>
    <3> DEFINE got == Base(off, n, gone, early)
    <3>1. V = [i \in DOMAIN got |-> IF InSector(off, i) \in disk.faults THEN Bad ELSE got[i]]
      BY <1>4, <2>1, Zenon DEF View, Faulty
    <3> HIDE DEF V, got
    <3>2. Whole(V)
      BY <3>1
    <3>3. QED
      BY <3>2 DEF V
  <2>2. CASE disk.view # <<>>
    <3>1. V = AllBad(n) \/ \E got, from : V = BadFrom(got, n, from)
      BY <2>2, Zenon DEF View
    <3> HIDE DEF V, Whole
    <3>2. Whole(V)
      BY <1>1, <1>2, <3>1
    <3>3. QED
      BY <3>2 DEF V, Whole
  <2>3. QED
    BY <2>1, <2>2
<1>5. QED
  BY <1>3, <1>4

LEMMA ReadStep ==
    ASSUME StacksOk, StackInv, NEW early \in BOOLEAN, Read(early)
    PROVE  StackInv'
<1> DEFINE r == opts[Len(opts) - work.left + 1]
           off == r[1]
           n == r[2]
           through == disk.cached /\ ~Outside(off)
           Got(chunks) == IF ~disk.cached THEN View(off, n, work.gone, early)
                          ELSE IF Outside(off) THEN AllBad(n) ELSE FromChunks(chunks, off, n)
           filled == Filled(off, n, work.gone, early)
<1>1. PICK chunks \in {IF through THEN filled ELSE seen} :
        /\ out' = Append(out, [off |-> off, got |-> Got(chunks), gone |-> work.gone])
        /\ seen' = IF through THEN Evict(chunks) ELSE seen
        /\ work' = [work EXCEPT !.left = @ - 1]
  BY Zenon DEF Read
<1>2. pc = "walk" /\ work.left > 0 /\ UNCHANGED <<pc, disk, opts>>
  BY DEF Read
<1>3. /\ disk \in Disks /\ opts \in Requests /\ work \in [left : 0 .. Len(opts), gone : BOOLEAN]
      /\ Opened /\ ChunksOk(seen) /\ Len(seen) <= Capacity
      /\ out \in Seq(Answers) /\ \A i \in 1 .. Len(out) : AnswerOk(out[i])
  BY <1>2 DEF StackInv, State, Cache, Output
<1>4. DiskOk(disk) /\ Sizes /\ Ready /\ opts \in Seq(Nat \X Nat)
  BY <1>3 DEF StacksOk, Sizes, Ready
<1>5. r = Asked /\ r \in Nat \X Nat
  <2>1. Len(opts) - work.left + 1 \in 1 .. Len(opts)
    BY <1>2, <1>3, <1>4
  <2>2. QED
    BY <1>4, <2>1 DEF Asked
<1>6. off \in Nat /\ n \in Nat /\ off = Asked[1] /\ n = Asked[2]
  BY <1>5
<1> HIDE DEF r
<1>7. Length \in Nat /\ work.gone \in BOOLEAN
  BY <1>3, <1>4, LengthIs
<1>8. Outside(off) <=> (off % Sector # 0 \/ off >= Length)
  BY DEF Outside
<1>9. through => off % Sector = 0 /\ off < Length
  BY <1>6, <1>7, <1>8
<1>10. ChunksOk(chunks)
        /\ (through => \A at \in Nat : off <= at /\ at < off + n /\ at < Length => Has(chunks, at \div Chunk))
  <2>1. CASE through
    <3>1. Asked \in Nat \X Nat /\ Asked[1] < Length
      BY <1>5, <1>6, <1>9, <2>1
    <3>2. chunks = Filled(Asked[1], Asked[2], work.gone, early)
      BY <1>1, <1>6, <2>1
    <3>3. QED
      BY <1>3, <1>4, <1>6, <3>1, <3>2, FilledOk
  <2>2. CASE ~through
    BY <1>1, <1>3, <2>2
  <2>3. QED
    BY <2>1, <2>2
<1> DEFINE g == Got(chunks)
<1>11. \/ off % Sector = 0 /\ DOMAIN g = 1 .. Sectors(n)
              /\ \A i \in 1 .. Sectors(n) :
                   LET p == off + Before(i)
                   IN  Sound(g[i], p) /\ (Readable(p) /\ ~work.gone => g[i] = Good(Below(p)))
       \/ g = AllBad(n) /\ (off % Sector = 0 => off >= Length)
  <2>1. CASE ~disk.cached /\ off % Sector = 0
    <3>1. g = View(off, n, work.gone, early)
      BY <2>1
    <3> HIDE DEF g
    <3>2. Sector \in Nat \ {0}
      BY <1>4 DEF Sizes
    <3>3. QED
      BY <1>3, <1>4, <1>6, <2>1, <3>1, <3>2, ViewReads
  <2>2. CASE ~disk.cached /\ off % Sector # 0
    BY <1>4, <1>6, <2>2, UnalignedView
  <2>3. CASE disk.cached /\ Outside(off)
    BY <1>6, <1>7, <1>8, <2>3
  <2>4. CASE through
    <3>1. g = FromChunks(chunks, off, n)
      BY <2>4
    <3>2. ChunksOk(chunks) /\ off < Length /\ off % Sector = 0 /\ Covered(chunks, off, n)
      BY <1>9, <1>10, <2>4 DEF Covered
    <3> HIDE DEF g, off, n
    <3>3. Serves(FromChunks(chunks, off, n), off, n, work.gone)
      BY <1>4, <1>6, <3>2, FromChunksOk
    <3>4. QED
      BY <3>1, <3>2, <3>3 DEF Serves
  <2>5. QED
    BY <2>1, <2>2, <2>3, <2>4
<1>12. g = [i \in DOMAIN g |-> g[i]]
  <2>1. CASE ~disk.cached
    <3>1. g = View(off, n, work.gone, early)
      BY <2>1
    <3> HIDE DEF g
    <3>2. QED
      BY <1>4, <1>6, <3>1, ViewIsFunction
  <2>2. CASE disk.cached
    <3>1. g = AllBad(n) \/ g = FromChunks(chunks, off, n)
      BY <2>2
    <3> HIDE DEF g
    <3>2. QED
      BY <3>1, IsFunction
  <2>3. QED
    BY <2>1, <2>2
<1> DEFINE a == [off |-> off, got |-> g, gone |-> work.gone]
<1>13. a \in Answers /\ AnswerOk(a)
  <2> HIDE DEF g
  <2>1. QED
    BY <1>4, <1>6, <1>7, <1>11, <1>12, GotOk
<1>14. out' = Append(out, a)
  BY <1>1
<1> HIDE DEF a, g, through, Got
<1>15. Output'
  <2>1. /\ out' \in Seq(Answers) /\ Len(out') = Len(out) + 1 /\ Len(out) \in Nat
        /\ \A i \in 1 .. Len(out) : out'[i] = out[i]
        /\ out'[Len(out) + 1] = a
    BY <1>3, <1>13, <1>14, AppendProperties
  <2>2. \A i \in 1 .. Len(out') : AnswerOk(out'[i])
    BY <1>3, <1>13, <2>1
  <2>3. QED
    BY <1>2, <2>1, <2>2, AnswerStays DEF Output
<1>16. work'.gone = work.gone /\ work' \in [left : 0 .. Len(opts), gone : BOOLEAN]
  <2>1. Len(opts) \in Nat
    BY <1>4
  <2>2. QED
    BY <1>1, <1>2, <1>3, <2>1
<1>17. ChunksOk(seen') /\ Len(seen') <= Capacity
  <2>1. CASE through
    BY <1>1, <1>4, <1>10, <2>1, EvictOk
  <2>2. CASE ~through
    BY <1>1, <1>3, <2>2
  <2>3. QED
    BY <2>1, <2>2
<1>18. Cache'
  BY <1>2, <1>16, <1>17, ChunksStay DEF Cache
<1>19. State'
  BY <1>2, <1>3, <1>16 DEF State, Opened, Fits
<1>20. QED
  BY <1>15, <1>18, <1>19 DEF StackInv

LEMMA StackStep ==
    ASSUME StacksOk, StackInv, [Next]_vars
    PROVE  StackInv'
<1>1. CASE Open
  <2>1. UNCHANGED <<disk, opts, work, seen, out>> /\ (pc' = "walk" => Opened) /\ pc' # "done"
    BY <1>1 DEF Open, Opened
  <2>2. State'
    BY <2>1 DEF StackInv, State, Opened, Fits
  <2>3. Cache'
    BY <2>1, ChunksStay DEF StackInv, Cache
  <2>4. Output'
    BY <2>1, AnswerStays DEF StackInv, Output
  <2>5. QED
    BY <2>2, <2>3, <2>4 DEF StackInv
<1>2. CASE \E early \in BOOLEAN : Read(early)
  BY <1>2, ReadStep
<1>3. CASE Unplug
  <2>1. UNCHANGED <<pc, disk, opts, seen, out>> /\ work' = [work EXCEPT !.gone = TRUE] /\ ~work.gone
    BY <1>3 DEF Unplug
  <2>2. State'
    BY <2>1 DEF StackInv, State, Opened, Fits
  <2>3. Cache'
    BY <2>1, ChunksStay DEF StackInv, Cache
  <2>4. Output'
    BY <2>1, AnswerStays DEF StackInv, Output
  <2>5. QED
    BY <2>2, <2>3, <2>4 DEF StackInv
<1>4. CASE Close
  <2>1. UNCHANGED <<disk, opts, work, seen, out>> /\ pc = "walk" /\ pc' = "done"
    BY <1>4 DEF Close
  <2>2. State'
    BY <2>1 DEF StackInv, State, Opened, Fits
  <2>3. Cache'
    BY <2>1, ChunksStay DEF StackInv, Cache
  <2>4. Output'
    BY <2>1, AnswerStays DEF StackInv, Output
  <2>5. QED
    BY <2>2, <2>3, <2>4 DEF StackInv
<1>5. CASE UNCHANGED vars
  <2>1. UNCHANGED <<pc, disk, opts, work, seen, out>>
    BY <1>5 DEF vars
  <2>2. State'
    BY <2>1 DEF StackInv, State, Opened, Fits
  <2>3. Cache'
    BY <2>1, ChunksStay DEF StackInv, Cache
  <2>4. Output'
    BY <2>1, AnswerStays DEF StackInv, Output
  <2>5. QED
    BY <2>2, <2>3, <2>4 DEF StackInv
<1>6. QED
  BY <1>1, <1>2, <1>3, <1>4, <1>5 DEF Next

-----------------------------------------------------------------------------
(* What the invariant says of what was read and of the cache.              *)
LEMMA OutputIs ==
    ASSUME StacksOk, StackInv, NEW i \in DOMAIN out, NEW k \in DOMAIN out[i].got
    PROVE  LET r == out[i]
               at == Place(r, k)
           IN  /\ r.off \in Nat /\ at = r.off + Before(k) /\ SectorOk(r, k)
<1>1. out \in Seq(Answers) /\ DOMAIN out = 1 .. Len(out) /\ \A j \in 1 .. Len(out) : AnswerOk(out[j])
  BY DEF StackInv, Output
<1>2. out[i] \in Answers /\ AnswerOk(out[i])
  BY <1>1
<1>3. out[i].off \in Nat
  BY <1>2 DEF Answers
<1>4. QED
  BY <1>2, <1>3 DEF AnswerOk, Place, Before

LEMMA PlacedHolds == StacksOk /\ StackInv => Placed
<1> SUFFICES ASSUME StacksOk, StackInv PROVE Placed
  OBVIOUS
<1>1. ASSUME NEW i \in DOMAIN out, NEW k \in DOMAIN out[i].got
      PROVE  LET at == Place(out[i], k) IN
             /\ out[i].got[k][1] = "good" => at < Length /\ out[i].got[k] = Good(Below(at))
             /\ out[i].got[k] = Hole => disk.base = "mapped" /\ NotThere(Below(at))
  <2> DEFINE at == Place(out[i], k)
             t == out[i].got[k]
  <2>1. at = out[i].off + Before(k) /\ SectorOk(out[i], k)
    BY <1>1, OutputIs
  <2>2. Sound(t, at) \/ t = Bad
    BY <2>1 DEF SectorOk
  <2> HIDE DEF at, t
  <2>3. /\ t[1] = "good" => at < Length /\ t = Good(Below(at))
        /\ t = Hole => disk.base = "mapped" /\ NotThere(Below(at))
    BY <2>2, TokensDiffer DEF Sound, Absent
  <2>4. QED
    BY <2>3 DEF at, t
<1>2. QED
  BY <1>1 DEF Placed, Each

LEMMA ListedHolds == StacksOk /\ StackInv => Listed
<1> SUFFICES ASSUME StacksOk, StackInv PROVE Listed
  OBVIOUS
<1>1. ASSUME NEW i \in DOMAIN out, NEW k \in DOMAIN out[i].got
      PROVE  LET r == out[i]
                 at == Below(Place(r, k)) IN
             /\ disk.base \in {"device", "memory"} /\ ~r.gone /\ r.off % Sector = 0
             /\ Place(r, k) + Sector <= Length /\ at + Sector <= Least(disk.len, disk.have)
             /\ (at \div Sector) \notin disk.bad \cup disk.faults
             => r.got[k] = Good(at)
  <2>1. Place(out[i], k) = out[i].off + Before(k) /\ SectorOk(out[i], k)
    BY <1>1, OutputIs
  <2>2. QED
    BY <2>1 DEF SectorOk, Readable, Reads, ReadsBelow
<1>2. QED
  BY <1>1 DEF Listed, Each

LEMMA CappedHolds == StacksOk /\ StackInv => Capped
<1> SUFFICES ASSUME StacksOk, StackInv PROVE Capped
  OBVIOUS
<1> DEFINE T == {seen[i].idx : i \in DOMAIN seen}
           f == [i \in 1 .. Len(seen) |-> seen[i].idx]
<1>1. /\ Len(seen) <= Capacity /\ Len(seen) \in Nat /\ DOMAIN seen = 1 .. Len(seen)
      /\ \A i, j \in 1 .. Len(seen) : seen[i].idx = seen[j].idx => i = j
  BY DEF StackInv, Cache, ChunksOk
<1>2. f \in Bijection(1 .. Len(seen), T)
  <2>1. f \in [1 .. Len(seen) -> T]
    BY <1>1
  <2>2. \A i, j \in DOMAIN f : f[i] = f[j] => i = j
    BY <1>1
  <2>3. \A t \in T : \E i \in 1 .. Len(seen) : f[i] = t
    BY <1>1
  <2> HIDE DEF f, T
  <2>4. QED
    BY <2>1, <2>2, <2>3 DEF Bijection, Injection, Surjection, IsInjective
<1> HIDE DEF T, f
<1>3. ExistsBijection(1 .. Len(seen), T)
  BY <1>2 DEF ExistsBijection
<1>4. Cardinality(T) = Len(seen)
  BY <1>1, <1>3, FS_CountingElements
<1>5. QED
  BY <1>1, <1>4 DEF Capped, T

-----------------------------------------------------------------------------
(* Whatever stack is given, whatever reads are asked of it in whatever order *)
(* and whenever the device is unplugged.                                    *)

\* A read is one less to do, and the device is unplugged once.
LEMMA ShrinksHolds ==
    ASSUME StackInv, Next
    PROVE  Shrinks
<1> DEFINE phase == CASE pc = "probe" -> 2 [] pc = "walk" -> 1 [] OTHER -> 0
           left == work.left
           there == IF work.gone THEN 0 ELSE 1
<1>1. Rank = <<phase, left, there>> /\ Rank' = <<phase', left', there'>>
  BY Zenon DEF Rank
<1>2. work \in [left : 0 .. Len(opts), gone : BOOLEAN] /\ Len(opts) \in Nat
  BY DEF StackInv, State
<1>3. \/ pc = "probe" /\ pc' \in {"walk", "refused"}
      \/ pc = "walk" /\ pc' = pc /\ work.left > 0 /\ work' = [work EXCEPT !.left = @ - 1]
      \/ pc = "walk" /\ pc' = pc /\ ~work.gone /\ work' = [work EXCEPT !.gone = TRUE]
      \/ pc = "walk" /\ pc' = "done"
  BY Zenon DEF Next, Open, Read, Unplug, Close
<1>4. \/ phase' < phase /\ 0 < phase
      \/ phase' = phase /\ left' < left /\ 0 < left
      \/ phase' = phase /\ left' = left /\ there' < there /\ 0 < there
  BY <1>2, <1>3
<1> HIDE DEF phase, left, there
<1>5. QED
  BY <1>1, <1>4 DEF Shrinks, Falls

\* The invariant of the stack: each chunk kept in the cache is what a read of it
\* through window and faults gave at some time, and what is out is what the reads
\* asked for (ReadAheadCache::read_at over OffsetView over FaultInjector).
THEOREM StackInvariant == ASSUME StacksOk PROVE Spec => []StackInv
<1>1. Init => StackInv
  BY StackInit
<1>2. StackInv /\ [Next]_vars => StackInv'
  BY StackStep
<1>3. QED
  BY <1>1, <1>2, PTL DEF Spec

\* What is returned as good is the sector that was asked for, within the window
\* and the source, through the window, the injected faults and a cache that keeps
\* chunks from earlier reads; zeros that are said to be good stand only for what
\* the map or the frames of an image do not have (overlay_status, read_zstd).
THEOREM PlacedAlways == ASSUME StacksOk PROVE Spec => []Placed
BY StackInvariant, PlacedHolds, PTL

\* A sector of a device or of memory that nothing fails is returned, whatever
\* fails around it, whichever chunk it comes from and whenever that was fetched:
\* a device that is gone takes back nothing that was read before.
THEOREM ListedAlways == ASSUME StacksOk PROVE Spec => []Listed
BY StackInvariant, ListedHolds, PTL

\* The cache never keeps more chunks than its capacity, nor one chunk twice, in
\* whatever order chunks are used, fetched and evicted (ReadAheadCache).
THEOREM CappedAlways == ASSUME StacksOk PROVE Spec => []Capped
BY StackInvariant, CappedHolds, PTL
=============================================================================
