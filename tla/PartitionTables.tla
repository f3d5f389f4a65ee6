-------------------------- MODULE PartitionTables --------------------------
(* The partition tables of a source and the volume windows they give          *)
(* (reclaim-part).  at has the structures on the disk by the 512-byte unit    *)
(* they start at: an MBR or EBR (its slots), a GPT header, a table of GPT     *)
(* entries, an Apple map.  sector is the sector size, in units.               *)
EXTENDS FsCore

CONSTANTS
    Disks,      \* the sources given to the program
    MaxEntries, \* entries a GPT may have (4096)
    TableRoom,  \* entries that are read of a table (1 MiB)
    MaxChain    \* links followed of a chain of EBRs (256)

VARIABLES
    pc,     \* probe (the tables), walk (the chains), done
    disk,
    opts,   \* not used here
    work,   \* chains still to be followed: [base, cur, left]
    seen,   \* not used here
    out     \* windows [start, len, scheme]

vars == <<pc, disk, opts, work, seen, out>>

-----------------------------------------------------------------------------
\* Units past the end, and units that cannot be read, are zeros.
At(o) == IF o < disk.total /\ o \in DOMAIN disk.at THEN disk.at[o] ELSE [k |-> "zero"]

\* A window of len units, cut at the end of the source; none if nothing is left.
Window(start, len, scheme) ==
    LET room == Least(len, Monus(disk.total, start))
    IN  IF room = 0 THEN <<>> ELSE <<[start |-> start, len |-> room, scheme |-> scheme]>>

Primary == At(disk.sector)
Backup == At(Monus(disk.total, disk.sector))

\* The primary if its checksum is right, or the backup if its own is; else the
\* first that has the signature.
Chosen ==
    LET headers == SelectSeq(<<Primary, Backup>>, LAMBDA h : h.k = "gpt")
        good == SelectSeq(headers, LAMBDA h : h.crc)
    IN  IF good # <<>> THEN Head(good) ELSE IF headers # <<>> THEN Head(headers) ELSE [k |-> "zero"]

\* What is read of a table; one that is out of reach or no table is all zeros.
TableOf(h) ==
    LET t == At(h.table * disk.sector)
    IN  IF h.num \in 1 .. MaxEntries /\ t.k = "table"
        THEN SubSeq(t.entries, 1, Least(Least(h.num, TableRoom), Len(t.entries)))
        ELSE <<>>

GptWindow(e) ==
    IF e.type = "unused" \/ e.last < e.first THEN <<>>
    ELSE Window(e.first * disk.sector, (e.last - e.first + 1) * disk.sector, "gpt")

GptWindows(h) == FlattenSeq([i \in DOMAIN TableOf(h) |-> GptWindow(TableOf(h)[i])])

-----------------------------------------------------------------------------
Extended == {"ext-chs", "ext-lba"}

\* MBR addresses are in units of 512 bytes, whatever the sector.
Slots == IF At(0).k = "mbr" THEN At(0).slots ELSE <<>>

MbrWindow(slot) ==
    IF slot.type = "unused" \/ slot.type \in Extended THEN <<>>
    ELSE Window(slot.start, slot.num, "mbr")

WindowsOf(slots) == FlattenSeq([i \in DOMAIN slots |-> MbrWindow(slots[i])])

\* A hybrid MBR repeats partitions of the GPT; the protective one covers them all.
Hybrid == WindowsOf(SelectSeq(Slots, LAMBDA s : s.type # "protective"))

Chains ==
    LET ext == SelectSeq(Slots, LAMBDA s : s.type \in Extended)
    IN  [i \in DOMAIN ext |-> [base |-> ext[i].start, cur |-> ext[i].start, left |-> MaxChain]]

\* An EBR: a logical partition, from the EBR on, and the next EBR, from the base
\* on; the chain must move forward.
Logical(chain) ==
    LET s == At(chain.cur).slots[1]
    IN  IF s.type = "unused" THEN <<>> ELSE Window(chain.cur + s.start, s.num, "mbr")

Follow(chain) ==
    LET s == At(chain.cur).slots[2]
    IN  IF s.type = "unused" \/ s.start = 0 \/ chain.base + s.start <= chain.cur \/ chain.left = 1 THEN <<>>
        ELSE <<[chain EXCEPT !.cur = chain.base + s.start, !.left = @ - 1]>>

Broken(chain) == At(chain.cur).k # "mbr"

-----------------------------------------------------------------------------
\* A record has a list of slots.
DisksOk ==
    /\ MaxChain \in Nat \ {0}
    /\ \A d \in Disks : \A o \in DOMAIN d.at : d.at[o].k = "mbr" => IsSeq(d.at[o].slots)

Init ==
    /\ pc = "probe" /\ disk \in Disks /\ opts = [max |-> 0]
    /\ work = <<>> /\ seen = {} /\ out = <<>>

\* The GPT, with the windows of a hybrid MBR; an MBR is used, and its chains are
\* followed, if there is no GPT and it has a window itself.
Tables ==
    /\ pc = "probe" /\ pc' = "walk"
    /\ IF Chosen.k = "gpt"
       THEN out' = GptWindows(Chosen) \o Hybrid /\ work' = <<>>
       ELSE /\ out' = WindowsOf(Slots)
            /\ work' = IF out' = <<>> THEN <<>> ELSE Chains
    /\ UNCHANGED <<disk, opts, seen>>

Link ==
    /\ pc = "walk" /\ work # <<>> /\ ~Broken(Head(work))
    /\ out' = out \o Logical(Head(work))
    /\ work' = Follow(Head(work)) \o Tail(work)
    /\ UNCHANGED <<pc, disk, opts, seen>>

Break ==
    /\ pc = "walk" /\ work # <<>> /\ Broken(Head(work))
    /\ work' = Tail(work)
    /\ UNCHANGED <<pc, disk, opts, seen, out>>

\* Without a table the source is one volume.
Windows ==
    /\ pc = "walk" /\ work = <<>> /\ pc' = "done"
    /\ out' = IF out = <<>> THEN <<[start |-> 0, len |-> disk.total, scheme |-> "none"]>> ELSE out
    /\ UNCHANGED <<disk, opts, work, seen>>

Next == Tables \/ Link \/ Break \/ Windows
Spec == Init /\ [][Next]_vars

-----------------------------------------------------------------------------
(* truth has the partitions <<start, len, scheme>> of the disk, if one copy  *)
(* of its tables is left; sound: those tables do not overlap themselves.         *)
Same(w, p) == w.start = p[1] /\ w.len = p[2] /\ w.scheme = p[3]

\* Every partition is one window, also when one of the GPT's headers is lost.
Listed ==
    pc = "done" => \A p \in disk.truth : Cardinality({i \in DOMAIN out : Same(out[i], p)}) = 1

\* A window lies within the source, and only what a hybrid MBR repeats overlaps.
Placed ==
    pc = "done" =>
        /\ \A i \in DOMAIN out : out[i].len > 0 /\ out[i].start + out[i].len <= disk.total
        /\ disk.sound => \A i, j \in DOMAIN out :
               i < j /\ out[i].scheme = out[j].scheme =>
                   out[i].start + out[i].len <= out[j].start \/ out[j].start + out[j].len <= out[i].start

Rank == <<CASE pc = "probe" -> 2 [] pc = "walk" -> 1 [] OTHER -> 0,
          Len(work), IF work = <<>> THEN 0 ELSE work[1].left>>
Shrinks == Falls(Rank, Rank')
=============================================================================
