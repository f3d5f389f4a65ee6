---------------------------- MODULE LostVolumes ----------------------------
(* The sweep for lost volumes (reclaim-structs): the entries of both GPT      *)
(* headers, then a sweep of the source for the magics of superblocks, each    *)
(* judged by the geometry around it.  magics has the superblocks by the unit  *)
(* their magic starts at: [magic, block, blocks, short, sane].                *)
EXTENDS FsCore

CONSTANTS
    Disks,        \* the sources given to the program
    Chunk,        \* units of a step of the sweep (1 MiB)
    Overlap,      \* units read past it (4096 bytes), longer than a magic
    Magic,        \* units of a magic
    Internal,     \* where each magic lies in its volume
    BackupGap,    \* from an exFAT boot region to its backup (12 sectors)
    Near,         \* starts closer than this are one volume (512 bytes)
    MaxProposals, \* (4096)
    MaxEntries    \* entries taken from a GPT header (4096)

VARIABLES
    pc,     \* probe (GPT), walk (the sweep), done
    disk,
    opts,   \* not used here
    work,   \* where the next chunk starts
    seen,   \* the magics it has judged, with how often
    out     \* proposals [start, len, fs, conf, at], at the evidence

vars == <<pc, disk, opts, work, seen, out>>

-----------------------------------------------------------------------------
At(pos) == IF pos \in DOMAIN disk.magics THEN disk.magics[pos] ELSE [magic |-> "none"]

\* The magics, in the order in which each chunk is searched for them.
Anchors == <<"NXSB", "APSB", "H+", "HX", "NTFS", "EXFAT", "FAT32", "FAT1", "ext", "XFSB", "btrfs",
             "f2fs", "CD001", "ufs1", "ufs2", "zfs", "vmfs">>

Proposal(start, len, fs, conf, at) == [start |-> start, len |-> len, fs |-> fs, conf |-> conf, at |-> at]

\* Not empty, and not absurdly past the end: twice the source is room enough,
\* for what has been cut.
PlausibleLen(start, len) == len > 0 /\ start + len <= (IF 2 * disk.total > len THEN 2 * disk.total ELSE len)

\* One proposal at the start of the volume, if the fields make sense.
Sized(ok, start, len, fs, conf, pos) ==
    IF ok /\ PlausibleLen(start, len) THEN {Proposal(start, len, fs, conf, pos)} ELSE {}

\* Reported where it is, whatever its length.
Detected(ok, start, len, fs, conf, pos) == IF ok THEN {Proposal(start, len, fs, conf, pos)} ELSE {}

\* block is 0 if it is no power of two; sane stands for the other fixed fields.
ApfsContainer(pos, sb, start) == Sized(sb.block > 0, start, sb.blocks * sb.block, "apfs", 90, pos)
ApfsVolume(pos, sb, start) == Detected(TRUE, start, 0, "apfs-volume", 50, pos)

\* A volume header at pos is the main one, or the one that ends the volume; it
\* is the one whose partner is where it should be, or both are proposed.
HfsPlus(pos, sb, start) ==
    LET len == sb.blocks * sb.block
        alt == pos + Internal["H+"] - len
        Matches(at) == At(at).magic = sb.magic /\ At(at).blocks = sb.blocks
        main == PlausibleLen(start, len) /\ Matches(start + len - Internal["H+"])
        other == alt >= 0 /\ PlausibleLen(alt, len) /\ Matches(alt + Internal["H+"])
        Of(s, ok, conf) == Sized(ok, s, len, sb.magic, conf, pos)
    IN  IF ~sb.sane \/ sb.block = 0 \/ sb.blocks = 0 THEN {}
        ELSE IF main # other THEN {Proposal(IF main THEN start ELSE alt, len, sb.magic, 95, pos)}
        ELSE Of(start, TRUE, 70) \cup Of(alt, alt >= 0 /\ alt # start, 72)

\* The backup boot sector is counted as well.
Ntfs(pos, sb, start) == Sized(sb.sane /\ sb.block > 0, start, (sb.blocks + 1) * sb.block, "ntfs", 92, pos)

\* A boot sector is the main one if its backup follows it, the backup if the
\* main one precedes it; alone it may be either.
ExFat(pos, sb, start) ==
    LET len == sb.blocks * sb.block
        IsExfat(at) == at < disk.total /\ At(at).magic = "EXFAT"
        Of(s, conf) == Proposal(s, len, "exfat", conf, pos)
    IN  IF ~sb.sane \/ ~PlausibleLen(start, len) THEN {}
        ELSE IF IsExfat(pos + BackupGap) THEN {Of(start, 95)}
        ELSE IF start >= BackupGap /\ IsExfat(pos - BackupGap) THEN {Of(start - BackupGap, 90)}
        ELSE {Of(start, 65)} \cup (IF start >= BackupGap THEN {Of(start - BackupGap, 70)} ELSE {})

\* Two counts of sectors: the short one if it is there.
Fat(pos, sb, start) ==
    LET sectors == IF sb.short > 0 THEN sb.short ELSE sb.blocks
        kind == IF sb.magic = "FAT32" THEN "fat32" ELSE "fat"
    IN  Sized(sb.sane /\ sb.block > 0, start, sectors * sb.block, kind, 85, pos)

Ext(pos, sb, start) == Sized(sb.sane /\ sb.blocks > 0, start, sb.blocks * sb.block, "ext", 90, pos)
Iso(pos, sb, start) == Sized(sb.sane, start, sb.blocks * (IF sb.block > 0 THEN sb.block ELSE 1), "iso9660", 90, pos)
Xfs(pos, sb, start) == Sized(sb.block > 0, start, sb.blocks * sb.block, "xfs", 85, pos)
Btrfs(pos, sb, start) == Sized(sb.sane /\ sb.block > 0, start, sb.blocks, "btrfs", 85, pos)
F2fs(pos, sb, start) == Detected(sb.sane, start, sb.blocks * (IF sb.block > 0 THEN sb.block ELSE 1), "f2fs", 80, pos)
Ufs(pos, sb, start) == Detected(TRUE, start, 0, "ufs", 70, pos)
Zfs(pos, sb, start) == Detected(sb.sane, start, 0, "zfs", 60, pos)
Vmfs(pos, sb, start) == Detected(TRUE, start, 0, "vmfs", 60, pos)

Validate(pos) ==
    LET sb == At(pos)
        start == pos - Internal[sb.magic]
    IN  CASE sb.magic = "NXSB" -> ApfsContainer(pos, sb, start)
          [] sb.magic = "APSB" -> ApfsVolume(pos, sb, start)
          [] sb.magic \in {"H+", "HX"} -> HfsPlus(pos, sb, start)
          [] sb.magic = "NTFS" -> Ntfs(pos, sb, start)
          [] sb.magic = "EXFAT" -> ExFat(pos, sb, start)
          [] sb.magic \in {"FAT32", "FAT1"} -> Fat(pos, sb, start)
          [] sb.magic = "ext" -> Ext(pos, sb, start)
          [] sb.magic = "CD001" -> Iso(pos, sb, start)
          [] sb.magic = "XFSB" -> Xfs(pos, sb, start)
          [] sb.magic = "btrfs" -> Btrfs(pos, sb, start)
          [] sb.magic = "f2fs" -> F2fs(pos, sb, start)
          [] sb.magic \in {"ufs1", "ufs2"} -> Ufs(pos, sb, start)
          [] sb.magic = "zfs" -> Zfs(pos, sb, start)
          [] sb.magic = "vmfs" -> Vmfs(pos, sb, start)

-----------------------------------------------------------------------------
Close(a, b) == a - b < Near /\ b - a < Near

\* Kept once for a file system and a start: the more confident of the two.
DedupPush(all, p) ==
    LET i == SelectInSeq(all, LAMBDA q : q.fs = p.fs /\ Close(q.start, p.start))
    IN  IF i = 0 THEN Append(all, p)
        ELSE IF p.conf > all[i].conf THEN [all EXCEPT ![i] = p] ELSE all

\* Wrong variant: a chunk looks only at what it steps over.
HitsInside(from) ==
    {pos \in DOMAIN disk.magics :
        /\ pos >= from /\ pos + Magic <= Least(from + Chunk, disk.total)
        /\ pos >= Internal[disk.magics[pos].magic]}

\* The magics of a chunk; those that start past it are left to the next one.
HitsIn(from) ==
    {pos \in DOMAIN disk.magics :
        /\ pos >= from /\ pos + Magic <= Least(from + Chunk + Overlap, disk.total)
        /\ pos < from + Chunk \/ from + Chunk >= disk.total
        /\ pos >= Internal[disk.magics[pos].magic]}

Ordered(set, Before(_, _)) == SetToSortSeq(set, Before)

\* Each magic in turn, and of each the hits in order of place.
Hits(from) == Ordered(HitsIn(from), LAMBDA a, b :
                 LET Rnk(p) == SelectInSeq(Anchors, LAMBDA m : m = At(p).magic)
                 IN  Rnk(a) < Rnk(b) \/ (Rnk(a) = Rnk(b) /\ a < b))

\* The limit ends the hits of a magic, not those of the next one.
Hit(acc, pos) ==
    IF At(pos).magic = acc.stopped THEN acc
    ELSE LET props == Ordered(Validate(pos), LAMBDA a, b : a.conf < b.conf)
             all == FoldLeft(DedupPush, acc.out, props)
         IN  [out |-> all, judged |-> Append(acc.judged, pos),
              stopped |-> IF Len(all) >= MaxProposals THEN At(pos).magic ELSE acc.stopped]

GptProposals(header, conf) ==
    LET es == SelectSeq(SubSeq(header, 1, Least(Len(header), MaxEntries)),
                        LAMBDA e : e.type # "unused" /\ e.first # 0 /\ e.first <= e.last)
    IN  [i \in DOMAIN es |-> Proposal(es[i].first, es[i].last - es[i].first + 1, es[i].type, conf, -1)]

-----------------------------------------------------------------------------
\* A sweep moves on, and a source has a size.
DisksOk == Chunk \in Nat \ {0} /\ \A d \in Disks : d.total \in Nat

Init ==
    /\ pc = "probe" /\ disk \in Disks /\ opts = [max |-> MaxProposals]
    /\ work = 0 /\ seen = <<>> /\ out = <<>>

\* Entries of both headers, without a look at what is there already.
ScanGpt ==
    /\ pc = "probe" /\ pc' = "walk"
    /\ out' = GptProposals(disk.primary, 90) \o GptProposals(disk.backup, 85)
    /\ UNCHANGED <<disk, opts, work, seen>>

Over == work >= disk.total \/ Len(out) >= MaxProposals

Sweep ==
    /\ pc = "walk" /\ ~Over
    /\ \E all \in {FoldLeft(Hit, [out |-> out, judged |-> seen, stopped |-> "none"], Hits(work))} :
        /\ out' = all.out
        /\ seen' = all.judged
    /\ work' = work + Chunk
    /\ UNCHANGED <<pc, disk, opts>>

\* The best first.
Finish ==
    /\ pc = "walk" /\ Over /\ pc' = "done"
    /\ out' = SortSeq(out, LAMBDA a, b : a.conf > b.conf \/ (a.conf = b.conf /\ a.start < b.start))
    /\ UNCHANGED <<disk, opts, work, seen>>

Next == ScanGpt \/ Sweep \/ Finish
Spec == Init /\ [][Next]_vars

-----------------------------------------------------------------------------
(* truth has the volumes [start, fs] that were on the disk.                   *)
Proposed(v) == \E i \in DOMAIN out : out[i].start = v.start /\ out[i].fs = v.fs

\* Every volume of which one copy of its superblock is left is proposed, at its
\* own start.
Opened == pc = "done" /\ Len(out) < MaxProposals => \A v \in disk.truth : Proposed(v)

\* A magic is judged once, wherever it lies with respect to the chunks.
NoTwice == Distinct(seen)
Listed ==
    pc = "done" /\ Len(out) < MaxProposals =>
        \A pos \in DOMAIN disk.magics :
            pos >= Internal[disk.magics[pos].magic] /\ pos + Magic <= disk.total => pos \in ToSet(seen)

\* With both copies there, no other place is proposed for the volume.
Placed ==
    pc = "done" => \A i \in DOMAIN out :
        out[i].fs \in {"exfat", "H+"} /\ (\E v \in disk.whole : v.fs = out[i].fs) =>
            \E v \in disk.whole : v.start = out[i].start /\ v.fs = out[i].fs

Rank == <<CASE pc = "probe" -> 2 [] pc = "walk" -> 1 [] OTHER -> 0, disk.total - work>>
Shrinks == Falls(Rank, Rank')
=============================================================================
