----------------------------- MODULE MCSources -----------------------------
(* Small sources for TLC: partition tables that are intact, damaged, looping  *)
(* or doubled; superblocks around the steps of a sweep.                       *)
EXTENDS Integers, Sequences, TLC

-----------------------------------------------------------------------------
(* Partition tables: 64 units; a chain of EBRs starts at 24.               *)
GptHead(crc, table) == [k |-> "gpt", crc |-> crc, table |-> table, num |-> 4]
GptPart(type, first, last) == [type |-> type, first |-> first, last |-> last]
GptTable(es) == [k |-> "table", entries |-> es]
Slot(type, start, num) == [type |-> type, start |-> start, num |-> num]
Boot(slots) == [k |-> "mbr", slots |-> slots]
Ebr(type, start, num, next) == Boot(<<Slot(type, start, num), Slot(IF next = 0 THEN "unused" ELSE "ext-lba", next, 9)>>)
Zeroed == [k |-> "zero"]

Whole64 == Slot("protective", 1, 63)
Entries == <<GptPart("fs", 8, 15), GptPart("unused", 0, 0), GptPart("fs", 20, 31)>>
Stale == <<GptPart("fs", 4, 30), GptPart("fs", 8, 80)>>
Garbage == <<GptPart("fs", 30, 20), GptPart("fs", 90, 95), GptPart("fs", 60, 70), GptPart("fs", 8, 9), GptPart("fs", 1, 2)>>

Table(total, sector, at, truth, sound) ==
    [total |-> total, sector |-> sector, at |-> at, truth |-> truth, sound |-> sound]

Hybrid == Boot(<<Whole64, Slot("fs", 8, 8), Slot("ext-chs", 40, 8)>>)
Two == {<<8, 8, "gpt">>, <<20, 12, "gpt">>}
GptDisks ==
    {Table(64, 1, (0 :> boot) @@ (1 :> first) @@ (2 :> GptTable(es)) @@ (60 :> GptTable(Entries)) @@ (63 :> last),
           IF first.k = "gpt" /\ first.crc /\ es # Entries THEN {}
           ELSE IF first.k = "gpt" /\ first.crc THEN Two
           ELSE IF last.k = "gpt" /\ last.crc THEN Two
           ELSE {},
           es # Stale /\ (boot = Hybrid => first.k = "gpt" \/ last.k = "gpt")) :
        boot \in {Zeroed, Boot(<<Whole64>>), Hybrid},
        first \in {GptHead(TRUE, 2), GptHead(FALSE, 2), Zeroed},
        es \in {Entries, Stale, Garbage},
        last \in {GptHead(TRUE, 60), GptHead(FALSE, 60), Zeroed}}

Wide == Table(64, 8, (8 :> GptHead(TRUE, 2)) @@ (16 :> GptTable(<<GptPart("fs", 3, 4)>>)) @@ (0 :> Boot(<<Whole64>>)), {<<24, 16, "gpt">>}, TRUE)

\* The primary partition, and what the chain gives.
Dos(chain, truth, sound) ==
    Table(64, 1, (0 :> Boot(<<Slot("fs", 4, 16), Slot("ext-lba", 24, 40)>>)) @@ chain, {<<4, 16, "mbr">>} \cup truth, sound)
MbrDisks ==
    {Dos((24 :> Ebr("fs", 1, 4, 8)) @@ (32 :> Ebr("fs", 1, 5, 16)) @@ (40 :> Ebr("fs", 2, 6, 0)),
         {<<25, 4, "mbr">>, <<33, 5, "mbr">>, <<42, 6, "mbr">>}, TRUE),
     Dos((24 :> Ebr("fs", 1, 4, 8)) @@ (32 :> Ebr("fs", 1, 5, 8)), {<<25, 4, "mbr">>, <<33, 5, "mbr">>}, TRUE),
     Dos((24 :> Ebr("fs", 1, 4, 16)) @@ (40 :> Ebr("unused", 0, 0, 8)) @@ (32 :> Ebr("fs", 1, 5, 16)), {<<25, 4, "mbr">>}, TRUE),
     Dos((24 :> Ebr("fs", 1, 4, 8)) @@ (32 :> Ebr("fs", 1, 5, 12)) @@ (36 :> Ebr("fs", 2, 1, 20)) @@
         (44 :> Ebr("fs", 1, 1, 24)) @@ (48 :> Ebr("fs", 1, 1, 28)) @@ (52 :> Ebr("fs", 1, 1, 0)),
         {<<25, 4, "mbr">>, <<33, 5, "mbr">>, <<38, 1, "mbr">>, <<45, 1, "mbr">>}, TRUE),
     Dos((24 :> Ebr("fs", 1, 90, 8)) @@ (32 :> Zeroed), {}, TRUE),
     Dos((24 :> Ebr("fs", 1, 4, 90)), {<<25, 4, "mbr">>}, TRUE),
     Table(64, 1, 0 :> Boot(<<Slot("ext-lba", 24, 40)>>) @@ (24 :> Ebr("fs", 1, 4, 0)), {}, TRUE),
     Table(64, 1, 5 :> Zeroed, {<<0, 64, "none">>}, TRUE),
     Table(64, 1, 0 :> Boot(<<Slot("fs", 70, 4), Slot("unused", 1, 1), Slot("fs", 60, 9)>>), {<<60, 4, "mbr">>}, TRUE)}

MCTables == GptDisks \cup MbrDisks \cup {Wide}

-----------------------------------------------------------------------------
(* Lost volumes: chunks of 16 units, magics of 2, 64 units in all.          *)
Sb(magic, block, blocks) == [magic |-> magic, block |-> block, blocks |-> blocks, short |-> 0, sane |-> TRUE]
Bogus(magic, block) == [Sb(magic, block, 9) EXCEPT !.sane = FALSE]
MCInternal == [m \in {"NTFS", "EXFAT", "XFSB", "zfs", "vmfs"} |-> 0]
    @@ [m \in {"NXSB", "APSB"} |-> 1] @@ [m \in {"H+", "HX", "ext", "f2fs"} |-> 2] @@ [m \in {"FAT32", "FAT1"} |-> 3]
    @@ [m \in {"CD001", "ufs1"} |-> 4] @@ [m \in {"btrfs", "ufs2"} |-> 9]
Lost(magics, truth, whole, primary, backup) ==
    [total |-> 64, magics |-> magics, primary |-> primary, backup |-> backup, truth |-> truth, whole |-> whole]
Vol(start, fs) == [start |-> start, fs |-> fs]
NoMagic == [x \in {} |-> Zeroed]

\* An ext superblock at every place, around every step of the sweep.
ExtAt == {Lost(s :> Sb("ext", 2, 10), {Vol(s - 2, "ext")}, {}, <<>>, <<>>) : s \in 2 .. 62}
\* The two boot regions of an exFAT, 3 units apart, and the two headers of an
\* HFS+ volume of 30 units: both there, one gone, the other gone.
Pair(a, b, sb, v) ==
    {Lost((a :> sb) @@ (b :> sb), {v}, {v}, <<>>, <<>>), Lost(a :> sb, {v}, {}, <<>>, <<>>),
     Lost(b :> sb, {v}, {}, <<>>, <<>>)}
ExfatAt == UNION {Pair(s, s + 3, Sb("EXFAT", 1, 12), Vol(s, "exfat")) : s \in {0, 4, 12, 14, 29, 40}}
HfsAt == UNION {Pair(s + 2, s + 28, Sb("H+", 2, 15), Vol(s, "H+")) : s \in {0, 13, 14, 18, 32}}
Mixed ==
    {Lost((1 :> Sb("NXSB", 2, 20)) @@ (5 :> Sb("APSB", 0, 0)) @@ (17 :> Sb("NTFS", 2, 9)) @@
          (20 :> [Sb("FAT32", 2, 100) EXCEPT !.short = 7]) @@ (25 :> Bogus("CD001", 1)) @@ (33 :> Sb("XFSB", 0, 9)) @@
          (40 :> Sb("vmfs", 0, 0)) @@ (45 :> Sb("btrfs", 1, 12)) @@ (47 :> Sb("f2fs", 0, 30)) @@
          (50 :> Bogus("zfs", 0)) @@ (52 :> Sb("ufs1", 0, 0)) @@ (2 :> Sb("CD001", 1, 9)) @@ (60 :> Sb("XFSB", 1, 3)),
          {}, {}, p, b) : p \in {<<>>, Entries}, b \in {<<>>, Entries \o <<GptPart("fs", 0, 3)>>}}
    \cup {Lost((3 :> Sb("FAT1", 1, 900)) @@ (8 :> Sb("HX", 2, 5)) @@ (14 :> Sb("HX", 2, 5)) @@ (24 :> Sb("ufs2", 0, 0))
               @@ (30 :> Sb("CD001", 0, 9)), {}, {}, <<>>, <<>>)}
MCLost == ExtAt \cup ExfatAt \cup HfsAt \cup Mixed \cup {Lost(NoMagic, {}, {}, Entries, <<>>)}
=============================================================================
