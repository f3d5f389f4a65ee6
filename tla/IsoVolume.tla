----------------------------- MODULE IsoVolume -----------------------------
(* The ISO 9660 / Joliet engine (fs-iso).  A disk has volume descriptors from *)
(* sector 16 on and the sectors of its directories; a sector is a sequence of *)
(* records, its rest is padding.  Nothing is ever deleted.                    *)
EXTENDS FsCore

CONSTANTS
    Disks,         \* the volumes the engine is given
    Requests,      \* the options of a walk
    MaxDescriptors,\* descriptors looked at (32)
    MaxDirBlocks,  \* blocks read of one directory (16 MiB)
    MaxDepth       \* depth of the walk (64)

VARIABLES
    pc,      \* probe, open, walk, done or refused
    disk,
    opts,
    work,    \* directories still to be walked, the next one first
    seen,    \* first blocks of the directories it entered
    out

vars == <<pc, disk, opts, work, seen, out>>

-----------------------------------------------------------------------------
(* Descriptors: until one is not CD001 or is the terminator.                *)
Descriptors(d) ==
    LET all == SubSeq(d.descriptors, 1, Least(Len(d.descriptors), MaxDescriptors))
        stop == SelectInSeq(all, LAMBDA v : ~v.cd001 \/ v.type = "end")
    IN  IF stop = 0 THEN all ELSE SubSeq(all, 1, stop - 1)

HasIso(d) == IF d.descriptors = <<>> THEN FALSE ELSE d.descriptors[1].cd001

\* An anchor at sector 256, or NSR0 in the recognition sequence.
HasUdf(d) == d.udf

LastOf(d, type) == SelectLastInSeq(Descriptors(d), LAMBDA v : v.type = type)

\* The directory of a Joliet descriptor has the real names.
RootType(d) == IF LastOf(d, "joliet") # 0 THEN "joliet" ELSE "primary"

RootOf(d) == IF LastOf(d, RootType(d)) = 0 THEN [at |-> 0, len |-> 0]
             ELSE LET v == Descriptors(d)[LastOf(d, RootType(d))] IN [at |-> v.at, len |-> v.len]

BlockOf(d) == IF LastOf(d, "primary") = 0 THEN d.sector ELSE Descriptors(d)[LastOf(d, "primary")].block

-----------------------------------------------------------------------------
(* Directories.                                                            *)
RecordsOn(d) == UNION {ToSet(d.sectors[n]) : n \in DOMAIN d.sectors}

\* Directories are lists, there is only so much on a disk, and lengths are numbers.
DisksOk ==
    /\ MaxDirBlocks \in Nat
    /\ \A d \in Disks :
        /\ (\A n \in DOMAIN d.sectors : IsSeq(d.sectors[n])) /\ IsFiniteSet(RecordsOn(d))
        /\ RootOf(d).len \in Nat /\ \A r \in RecordsOn(d) : r.k = "rec" => r.len \in Nat

SectorOf(n) == IF n \in DOMAIN disk.sectors THEN disk.sectors[n] ELSE <<>>

\* The records of len blocks, up to one that reaches past them.
ReadDirectory(dir) ==
    LET n == Least(dir.len, MaxDirBlocks)
        all == FlattenSeq([i \in 1 .. n |-> SectorOf(dir.at + i - 1)])
        end == SelectInSeq(Append(all, [k |-> "cut"]), LAMBDA r : r.k = "cut")
    IN  SubSeq(all, 1, end - 1)

\* Not "." or "..", and a name is left when the version is stripped.
Named(r) == r.k = "rec" /\ r.name # ""

EntryOf(r, dir, at) ==
    [id |-> <<dir.at, at>>, path |-> Append(dir.path, r.name), dir |-> FALSE, state |-> "live",
     size |-> r.len, assumed |-> FALSE, alloc |-> FALSE, conf |-> 100,
     ext |-> IF r.at # 0 /\ r.len # 0 THEN <<<<r.at * BlockOf(disk), r.len>>>> ELSE <<>>]

Record(acc, r, dir, at) ==
    IF Full(opts, acc.out) \/ ~Named(r) THEN acc
    ELSE IF ~r.dir THEN [acc EXCEPT !.out = Append(@, EntryOf(r, dir, at))]
    ELSE IF r.at = 0 \/ r.len = 0 THEN acc
    ELSE [acc EXCEPT !.subs = Append(@, [at |-> r.at, len |-> r.len, depth |-> dir.depth + 1,
                                         path |-> Append(dir.path, r.name)])]

Scan(dir) ==
    LET recs == ReadDirectory(dir)
    IN  FoldLeftDomain(LAMBDA acc, i : Record(acc, recs[i], dir, i), [out |-> out, subs |-> <<>>], recs)

Skips(dir) == dir.depth > MaxDepth \/ Full(opts, out) \/ dir.at \in seen

-----------------------------------------------------------------------------
Init ==
    /\ pc = "probe" /\ disk \in Disks /\ opts \in Requests
    /\ work = <<>> /\ seen = {} /\ out = <<>>

Probe ==
    /\ pc = "probe"
    /\ pc' = IF HasIso(disk) \/ HasUdf(disk) THEN "open" ELSE "refused"
    /\ UNCHANGED <<disk, opts, work, seen, out>>

\* A UDF volume without an ISO tree opens with nothing to walk.
Open ==
    /\ pc = "open"
    /\ LET root == RootOf(disk) IN
        IF HasIso(disk) /\ root.at = 0 THEN pc' = "refused" /\ UNCHANGED work
        ELSE /\ pc' = "walk"
             /\ work' = IF HasIso(disk) /\ opts.live
                        THEN <<[at |-> root.at, len |-> root.len, depth |-> 0, path |-> <<>>]>>
                        ELSE <<>>
    /\ UNCHANGED <<disk, opts, seen, out>>

Return ==
    /\ pc = "walk" /\ work # <<>> /\ Skips(Head(work))
    /\ work' = Tail(work)
    /\ UNCHANGED <<pc, disk, opts, seen, out>>

WalkDir ==
    /\ pc = "walk" /\ work # <<>> /\ ~Skips(Head(work))
    /\ LET scan == Scan(Head(work)) IN
        /\ seen' = seen \cup {Head(work).at}
        /\ out' = scan.out
        /\ work' = scan.subs \o Tail(work)
    /\ UNCHANGED <<pc, disk, opts>>

Finish ==
    /\ pc = "walk" /\ work = <<>> /\ pc' = "done"
    /\ UNCHANGED <<disk, opts, work, seen, out>>

Next == Probe \/ Open \/ Return \/ WalkDir \/ Finish
Spec == Init /\ [][Next]_vars

-----------------------------------------------------------------------------
(* What the walk promises.  truth maps a path to the units of the file.     *)
Listed ==
    pc = "done" /\ opts.live /\ ~Full(opts, out) =>
        \A path \in DOMAIN disk.truth : Once(LAMBDA e : e.path = path, out)

Placed ==
    \A i \in DOMAIN out :
        out[i].path \in DOMAIN disk.truth => UnitsOf(out[i].ext) = disk.truth[out[i].path]

Capped == Len(out) <= opts.max

\* Every step leaves less to do: each directory that a record names is entered once.
StartsOn(d) == {RootOf(d).at} \cup {r.at : r \in {q \in RecordsOn(d) : q.k = "rec" /\ q.dir}}
Starts == StartsOn(disk)
Rank == <<CASE pc = "probe" -> 3 [] pc = "open" -> 2 [] pc = "walk" -> 1 [] OTHER -> 0,
          Cardinality(Starts \ seen), Len(work)>>
Shrinks == Falls(Rank, Rank')
=============================================================================
