----------------------------- MODULE NtfsVolume -----------------------------
(* The NTFS engine (fs-ntfs): the master file table (MFT) is read record by   *)
(* record, then the volume is searched for records outside it, then names are *)
(* mined from the change journal ($UsnJrnl) and from directory indexes.  A    *)
(* disk maps offsets to the FILE records that start there.                    *)
EXTENDS FsCore

CONSTANTS
    Disks,      \* the volumes the engine is given
    Requests,   \* the options of a walk
    Spare,      \* records read beyond max_entries (64)
    MaxParents, \* steps to the root (256)
    System,     \* records below it are metafiles (16)
    Dollar      \* the names that start with a dollar sign

VARIABLES
    pc,      \* probe, open, read, emit, orphans, mine, done or refused
    disk,
    opts,
    work,    \* the MFT's extents, a cursor, records read, what names are mined from
    seen,    \* record numbers that have an entry of their own
    out

vars == <<pc, disk, opts, work, seen, out>>

RootRef == 5
Orphan == 1000      \* added to an offset: the id of an orphan (0xFFFF << 48)

-----------------------------------------------------------------------------
(* Runs: lengths with the distance to the run before, or holes.            *)
\* Wrong variant: each distance counts from the start of the volume.
DecodeAbsolute(runs) ==
    [i \in DOMAIN runs |-> [lcn |-> IF runs[i].hole THEN 0 ELSE runs[i].delta,
                            len |-> runs[i].len, hole |-> runs[i].hole]]

DecodeRuns(runs) ==
    LET Step(acc, r) ==
            IF acc.stop THEN acc
            ELSE IF r.hole THEN [acc EXCEPT !.runs = Append(@, [lcn |-> 0, len |-> r.len, hole |-> TRUE])]
            ELSE IF acc.lcn + r.delta < 0 THEN [acc EXCEPT !.stop = TRUE]
            ELSE [stop |-> FALSE, lcn |-> acc.lcn + r.delta,
                  runs |-> Append(acc.runs, [lcn |-> acc.lcn + r.delta, len |-> r.len, hole |-> FALSE])]
    IN  FoldLeft(Step, [stop |-> FALSE, lcn |-> 0, runs |-> <<>>], runs).runs

\* A hole takes its share of the size and leaves no extent.
RunsToExtents(runs, size) ==
    LET Step(acc, r) ==
            LET take == Least(r.len * disk.cluster, acc.left)
            IN  [left |-> acc.left - take,
                 ext |-> IF r.hole \/ acc.left = 0 THEN acc.ext
                         ELSE Append(acc.ext, <<r.lcn * disk.cluster, take>>)]
    IN  FoldLeft(Step, [left |-> size, ext |-> <<>>], DecodeRuns(runs)).ext

-----------------------------------------------------------------------------
(* Records.                                                                *)
HasRecord(off) == off \in DOMAIN disk.records

\* The name to show: Win32 before POSIX before DOS; the first among equals.
NameRank(n) == CASE n.type \in {1, 3} -> 0 [] n.type = 0 -> 1 [] n.type = 2 -> 2 [] OTHER -> 3

BestFileName(rec) ==
    LET best == {i \in DOMAIN rec.names : \A j \in DOMAIN rec.names :
                    NameRank(rec.names[i]) <= NameRank(rec.names[j])}
    IN  rec.names[CHOOSE i \in best : \A j \in best : i <= j]

\* The first unnamed data attribute.
UnnamedData(rec) == SelectInSeq(rec.attrs, LAMBDA a : a.name = "")
NamedData(rec, name) == SelectInSeq(rec.attrs, LAMBDA a : a.name = name)

MftExtents ==
    LET rec == disk.records[disk.mft]
        at == IF HasRecord(disk.mft) THEN UnnamedData(rec) ELSE 0
        ext == IF at = 0 THEN <<>>
               ELSE IF rec.attrs[at].resident THEN <<>>
               ELSE RunsToExtents(rec.attrs[at].runs, rec.attrs[at].size)
    IN  IF ext # <<>> THEN ext ELSE <<<<disk.mft, Monus(disk.total, disk.mft)>>>>

RecordCount == ExtentBytes(work.mft) \div disk.record

\* The byte n * record of the extents, which open has read.
RecordOffset(n) ==
    LET Step(acc, x) ==
            IF acc.at # -1 THEN acc
            ELSE IF acc.left < x[2] THEN [acc EXCEPT !.at = x[1] + acc.left]
            ELSE [acc EXCEPT !.left = @ - x[2]]
    IN  FoldLeft(Step, [left |-> n * disk.record, at |-> -1], work.mft).at

InMft(off) == \E x \in ToSet(work.mft) : x[1] <= off /\ off < x[1] + x[2]

\* $Bitmap is record 6.
LoadBitmap ==
    LET off == RecordOffset(6) IN
    IF ~HasRecord(off) THEN NoBitmap
    ELSE IF UnnamedData(disk.records[off]) = 0 THEN NoBitmap
    ELSE [block |-> disk.cluster, base |-> 0, count |-> disk.bitCount,
          have |-> disk.bitCount, bits |-> disk.bits]

\* What the walk keeps of a record.  Resident data lies in the record itself: its
\* extent is the place on the disk, where the sectors' last bytes are not its own.
ToRaw(n, rec) ==
    LET name == BestFileName(rec)
        at == UnnamedData(rec)
        a == rec.attrs[at]
    IN  [ref |-> n, name |-> name.name, parent |-> name.parent, dir |-> rec.dir,
         live |-> rec.live, place |-> RecordOffset(n),
         size |-> IF at = 0 THEN 0 ELSE a.size,
         ext |-> IF at = 0 THEN <<>>
                 ELSE IF ~a.resident THEN RunsToExtents(a.runs, a.size)
                 ELSE IF a.size = 0 THEN <<>> ELSE <<<<RecordOffset(n) + a.at, a.size>>>>,
         conf |-> IF at = 0 THEN 90 ELSE IF a.resident THEN 97 ELSE IF a.sparse THEN 54 ELSE 90]

-----------------------------------------------------------------------------
(* Paths: up the parents of the records read, as far as they are known.    *)
PathUp(at, ref, dirs) ==
    IF at.cur = RootRef \/ at.cur = ref \/ at.cur \notin DOMAIN dirs THEN at
    ELSE [cur |-> dirs[at.cur].parent, path |-> <<dirs[at.cur].name>> \o at.path]

ResolvePath(ref, parent, name, dirs) ==
    Repeat(LAMBDA at : PathUp(at, ref, dirs), [cur |-> parent, path |-> <<name>>], MaxParents).path

Dirs == [n \in {work.raws[i].ref : i \in DOMAIN work.raws} |->
            work.raws[SelectInSeq(work.raws, LAMBDA r : r.ref = n)]]

-----------------------------------------------------------------------------
\* The boot sector's numbers are numbers, the lists on the disk are lists.
DisksOk ==
    /\ Spare \in Nat
    /\ \A d \in Disks :
        /\ d.total \in Nat /\ d.record \in Nat /\ IsSeq(d.journal)
        /\ \A off \in DOMAIN d.records : d.records[off].dir => IsSeq(d.records[off].index)

Init ==
    /\ pc = "probe" /\ disk \in Disks /\ opts \in Requests
    /\ work = [mft |-> <<>>, at |-> 0, raws |-> <<>>, journal |-> <<>>, index |-> <<>>, used |-> {}]
    /\ seen = {} /\ out = <<>>

Probe ==
    /\ pc = "probe"
    /\ pc' = IF disk.oem = "NTFS" /\ disk.signed /\ disk.cluster > 0 THEN "open" ELSE "refused"
    /\ UNCHANGED <<disk, opts, work, seen, out>>

Open ==
    /\ pc = "open"
    /\ IF disk.record > 0
       THEN pc' = "read" /\ work' = [work EXCEPT !.mft = MftExtents]
       ELSE pc' = "refused" /\ UNCHANGED work
    /\ UNCHANGED <<disk, opts, seen, out>>

\* Pass 1: a record with a name is kept.  The first $UsnJrnl is the journal; the
\* index blocks of every directory are kept for their names.
ReadRecord ==
    /\ pc = "read" /\ work.at < RecordCount /\ work.at < opts.max + Spare
    /\ LET n == work.at
           off == RecordOffset(n)
           rec == disk.records[off]
           keep == IF HasRecord(off) THEN rec.names # <<>> ELSE FALSE
           journal == keep /\ work.journal = <<>> /\ BestFileName(rec).name = "$UsnJrnl"
                        /\ NamedData(rec, "$J") # 0
       IN  work' = [work EXCEPT
                      !.at = n + 1,
                      !.raws = IF keep THEN Append(@, ToRaw(n, rec)) ELSE @,
                      !.journal = IF journal THEN disk.journal ELSE @,
                      !.index = IF keep /\ rec.dir THEN @ \o rec.index ELSE @]
    /\ UNCHANGED <<pc, disk, opts, seen, out>>

EndRead ==
    /\ pc = "read" /\ (work.at >= RecordCount \/ work.at >= opts.max + Spare)
    /\ pc' = "emit" /\ work' = [work EXCEPT !.at = 1]
    /\ UNCHANGED <<disk, opts, seen, out>>

EntryOf(r) ==
    [id |-> r.ref, place |-> r.place, path |-> ResolvePath(r.ref, r.parent, r.name, Dirs),
     dir |-> r.dir, state |-> IF r.live THEN "live" ELSE "deleted", size |-> r.size,
     ext |-> r.ext, assumed |-> FALSE, conf |-> r.conf,
     alloc |-> /\ LoadBitmap # NoBitmap
               /\ OffsetAllocated(LoadBitmap, IF r.ext = <<>> THEN 0 ELSE r.ext[1][1])]

\* Pass 2: metafiles in use are left out.
Shown(r) == Wanted(opts, ~r.live) /\ ~(r.live /\ r.name \in Dollar /\ r.ref < System)

EmitRecord ==
    /\ pc = "emit" /\ work.at <= Len(work.raws) /\ ~Full(opts, out)
    /\ LET r == work.raws[work.at] IN
        /\ seen' = seen \cup {r.ref}
        /\ out' = IF Shown(r) THEN Append(out, EntryOf(r)) ELSE out
    /\ work' = [work EXCEPT !.at = @ + 1]
    /\ UNCHANGED <<pc, disk, opts>>

EndEmit ==
    /\ pc = "emit" /\ (work.at > Len(work.raws) \/ Full(opts, out))
    /\ pc' = IF opts.deleted THEN "orphans" ELSE "done"
    /\ work' = [work EXCEPT !.at = 0]
    /\ UNCHANGED <<disk, opts, seen, out>>

\* Records outside the MFT: after a new format the old ones are still there.
OrphanAt(off) ==
    LET rec == disk.records[off]
        name == BestFileName(rec)
        at == UnnamedData(rec)
        far == IF at = 0 THEN FALSE ELSE ~rec.attrs[at].resident
    IN  [id |-> Orphan + off, place |-> off, path |-> <<>>, dir |-> FALSE, state |-> "orphaned",
         size |-> IF far THEN rec.attrs[at].size ELSE 0,
         ext |-> IF far THEN RunsToExtents(rec.attrs[at].runs, rec.attrs[at].size) ELSE <<>>,
         assumed |-> FALSE, conf |-> 55, alloc |-> FALSE]

ScanOrphan ==
    /\ pc = "orphans" /\ work.at < disk.total /\ ~Full(opts, out)
    /\ LET off == work.at
           found == IF InMft(off) \/ ~HasRecord(off) THEN FALSE
                    ELSE IF disk.records[off].names = <<>> THEN FALSE
                    ELSE BestFileName(disk.records[off]).name \notin Dollar
       IN  out' = IF found THEN Append(out, OrphanAt(off)) ELSE out
    /\ work' = [work EXCEPT !.at = @ + disk.record]
    /\ UNCHANGED <<pc, disk, opts, seen>>

EndOrphans ==
    /\ pc = "orphans" /\ (work.at >= disk.total \/ Full(opts, out))
    /\ pc' = "mine" /\ work' = [work EXCEPT !.at = 1]
    /\ UNCHANGED <<disk, opts, seen, out>>

\* Names of files that have no record: once each.
Mined == work.journal \o work.index

MineName ==
    /\ pc = "mine" /\ work.at <= Len(Mined) /\ ~Full(opts, out)
    /\ LET m == Mined[work.at]
           fresh == m.ref \notin seen /\ <<m.ref, m.name>> \notin work.used
       IN  /\ work' = [work EXCEPT !.at = @ + 1,
                                   !.used = IF m.ref \in seen THEN @ ELSE @ \cup {<<m.ref, m.name>>}]
           /\ out' = IF fresh
                     THEN Append(out, [id |-> m.ref, place |-> -1,
                                       path |-> ResolvePath(m.ref, m.parent, m.name, Dirs), dir |-> FALSE,
                                       state |-> "historical", size |-> 0, ext |-> <<>>,
                                       assumed |-> FALSE, conf |-> 40, alloc |-> FALSE])
                     ELSE out
    /\ UNCHANGED <<pc, disk, opts, seen>>

EndMine ==
    /\ pc = "mine" /\ (work.at > Len(Mined) \/ Full(opts, out)) /\ pc' = "done"
    /\ UNCHANGED <<disk, opts, work, seen, out>>

Next == \/ Probe \/ Open \/ ReadRecord \/ EndRead \/ EmitRecord \/ EndEmit
        \/ ScanOrphan \/ EndOrphans \/ MineName \/ EndMine
Spec == Init /\ [][Next]_vars

-----------------------------------------------------------------------------
(* What the walk promises.  truth is what the filesystem has of a live file: *)
(* its path, and for each unit of its data the place, if it has one.  At the *)
(* end of each sector of a record a number is stored in place of the bytes   *)
(* that belong there (altered), which are kept at the record's head.         *)
Listed ==
    pc = "done" /\ opts.live /\ ~Full(opts, out) =>
        \A n \in DOMAIN disk.truth :
            Once(LAMBDA e : e.id = n /\ e.state = "live" /\ e.path = disk.truth[n].path, out)

\* Data in the record that comes to the end of a sector.
Misread(t) == ToSet(t.units) \cap disk.altered # {}

\* The places in order; a file with holes has them without the holes, and its
\* confidence is lowered.
Placed ==
    \A i \in DOMAIN out : LET e == out[i] IN
        e.state = "live" /\ e.id \in DOMAIN disk.truth =>
            LET t == disk.truth[e.id] IN
            /\ UnitsOf(e.ext) = Solid(t.units)
            /\ Sure(e) /\ ~Misread(t) => ReadAs(UnitsOf(e.ext), t.units, disk.altered)

\* One entry for a record, wherever it lies; one for a mined name, and none
\* for a file that has a record.
NoTwice ==
    \A i, j \in DOMAIN out : i # j =>
        /\ out[i].place # -1 => out[i].place # out[j].place
        /\ out[i].id = out[j].id => out[i].place = -1 /\ out[i].path # out[j].path

Capped == Len(out) <= opts.max

\* Every step leaves less to do.
Rank == CASE pc = "probe" -> <<6, 0>>
          [] pc = "open" -> <<5, 0>>
          [] pc = "read" -> <<4, opts.max + Spare - work.at>>
          [] pc = "emit" -> <<3, Len(work.raws) - work.at + 1>>
          [] pc = "orphans" -> <<2, disk.total - work.at>>
          [] pc = "mine" -> <<1, Len(Mined) - work.at + 1>>
          [] OTHER -> <<0, 0>>
Shrinks == Falls(Rank, Rank')
=============================================================================
