------------------------------ MODULE Recovery ------------------------------
(* Recovery of chosen results (SessionHandle::recover, reclaim-session's      *)
(* recover.rs) and the extraction of one result for a preview.  A disk is the *)
(* session's records and source with the tree the destination has before; a   *)
(* path is a sequence of names, a name has a stem, the numbers appended to it *)
(* and an extension.  A unit of the source is its position; a unit that is    *)
(* not read is Zero.                                                          *)
EXTENDS Integers, Sequences, FiniteSets

CONSTANTS
    Disks,
    Requests,    \* the operation, the chosen ids and the options
    Piece,       \* units copied at a time (CHUNK, 4 MiB)
    Sector,      \* units of a sector
    MaxSuffix    \* the last number Rename appends (99 999)

VARIABLES
    pc,      \* check, next, copy, preview, done, failed or refused
    disk,
    opts,
    work,    \* the records left and the copy of the first
    seen,    \* the files and folders of the destination
    out      \* the files of the summary, the number skipped, the preview

vars == <<pc, disk, opts, work, seen, out>>

Zero == -1
Rot == -2
Manifest == <<[stem |-> "manifest", tail |-> <<>>, ext |-> "json"]>>
Unnamed == <<[stem |-> "unnamed", tail |-> <<>>, ext |-> ""]>>

Smaller(a, b) == IF a < b THEN a ELSE b

\* The elements of s that are in S, in their order.
Only(s, S) ==
    LET kept[n \in 0 .. Len(s)] ==
            IF n = 0 THEN <<>> ELSE IF s[n] \in S THEN Append(kept[n - 1], s[n]) ELSE kept[n - 1]
    IN  kept[Len(s)]

Elements(s) == {s[i] : i \in DOMAIN s}

-----------------------------------------------------------------------------
(* The same disk.  stores are the physical disks of a synthesized container. *)
PhysicalSet(stores, whole) == {whole} \cup (IF whole \in DOMAIN stores THEN stores[whole] ELSE {})

\* Inner is what an adopted volume is a window of, <<>> when it is not known.
SameDisk(source, dest) ==
    CASE source.kind = "image" -> source.fs = dest.fs /\ dest.fs # ""
      [] source.kind = "device" -> \/ ~source.named \/ dest.whole = ""
                                   \/ PhysicalSet(disk.stores, source.whole) \cap PhysicalSet(disk.stores, dest.whole) # {}

SourceOf(source) == IF source.kind = "volume" THEN source.inner ELSE <<source>>

Opens == SourceOf(disk.source) # <<>>

Refused == LET inner == SourceOf(disk.source) IN inner # <<>> /\ SameDisk(inner[1], disk.target)

-----------------------------------------------------------------------------
(* Names.                                                                  *)
SynthPath(r) == IF r.path # <<>> THEN r.path ELSE r.suggested

Clean(name) == IF name \in DOMAIN disk.clean THEN disk.clean[name] ELSE name

\* A name of something inside the folder it is in.
Outward == {"", ".", ".."}
Proper(name) == name.stem \notin Outward

\* Nothing of the path leads out of the destination.
SafePath(path, flat) ==
    LET comps == Only(path, {c \in Elements(path) : Proper(c)})
        kept == IF flat /\ comps # <<>> THEN <<comps[Len(comps)]>> ELSE comps
    IN  IF kept = <<>> THEN Unnamed ELSE [i \in DOMAIN kept |-> Clean(kept[i])]

OutPath(r) == SafePath(SynthPath(r), opts.flat \/ ~opts.preserve)

Parents(path) == {SubSeq(path, 1, n) : n \in 1 .. Len(path) - 1}

Exists(path, tree) == path \in DOMAIN tree.files \/ path \in tree.dirs

Suffixed(path, n) == [path EXCEPT ![Len(path)] = [stem |-> @.stem, tail |-> Append(@.tail, n), ext |-> @.ext]]

\* Wrong: the first number is taken to be free.
ResolveFirst(path, at, tree) ==
    \/ ~Exists(path, tree) /\ at = path
    \/ Exists(path, tree) /\ opts.collision = "overwrite" /\ at = path
    \/ Exists(path, tree) /\ opts.collision = "rename" /\ at = Suffixed(path, 1)

\* The name a file is written under; no name is left when none is related.
ResolveCollision(path, at, tree) ==
    \/ ~Exists(path, tree) /\ at = path
    \/ Exists(path, tree) /\ opts.collision = "overwrite" /\ at = path
    \/ /\ Exists(path, tree) /\ opts.collision = "rename"
       /\ \E n \in 1 .. MaxSuffix :
            /\ at = Suffixed(path, n) /\ ~Exists(at, tree)
            /\ \A m \in 1 .. n - 1 : Exists(Suffixed(path, m), tree)

NoName(path, tree) ==
    /\ Exists(path, tree)
    /\ \/ opts.collision = "skip"
       \/ opts.collision = "rename" /\ \A n \in 1 .. MaxSuffix : Exists(Suffixed(path, n), tree)

-----------------------------------------------------------------------------
(* The source, read in whole sectors (SourceReader).                        *)
Read(p) == IF p < disk.len /\ p \div Sector \notin disk.bad THEN p ELSE Zero

Window(off, n) == [i \in 1 .. n |-> Read(off + i - 1)]

\* A read past the end is not flagged; one across it is.
Flagged(off, n) ==
    /\ n > 0 /\ off < disk.len
    /\ \E s \in (off \div Sector) .. ((off + n - 1) \div Sector) : s \in disk.bad \/ s * Sector >= disk.len

ExtentsOf(r) == IF r.extents # <<>> THEN r.extents
                ELSE IF r.len > 0 THEN <<<<r.off, r.len>>>> ELSE <<>>

\* What is left of the extents when n units of the first are done.
After(todo, n) == IF n < todo[1][2] THEN <<<<todo[1][1] + n, todo[1][2] - n>>>> \o Tail(todo) ELSE Tail(todo)

Stored(tree, at, units) ==
    [files |-> [p \in DOMAIN tree.files \cup {at} |-> IF p = at THEN units ELSE tree.files[p]],
     dirs |-> tree.dirs]

Chosen == Only(disk.records, {r \in Elements(disk.records) : r.id \in opts.ids})
Idle == [left |-> <<>>, at |-> <<>>, todo |-> <<>>, hash |-> <<>>, suspect |-> FALSE]

-----------------------------------------------------------------------------
Init ==
    /\ pc = "check" /\ disk \in Disks /\ opts \in Requests
    /\ work = Idle /\ seen = [files |-> disk.dest.files, dirs |-> disk.dest.dirs]
    /\ out = [files |-> {}, skipped |-> 0, preview |-> <<>>]

\* Nothing chosen, the source's own disk, no such record, or a source or a
\* destination that does not open: nothing is done.
Check ==
    /\ pc = "check" /\ opts.op = "recover"
    /\ \/ /\ opts.ids = {} \/ (~opts.sameDevice /\ Refused)
          /\ pc' = "refused" /\ UNCHANGED work
       \/ /\ opts.ids # {} /\ (opts.sameDevice \/ ~Refused)
          /\ \/ Chosen # <<>> /\ Opens /\ pc' = "next" /\ work' = [Idle EXCEPT !.left = Chosen]
             \/ (Chosen = <<>> \/ ~Opens \/ disk.faulty) /\ pc' = "failed" /\ UNCHANGED work
    /\ UNCHANGED <<disk, opts, seen, out>>

PassOver == /\ pc' = "next" /\ work' = [Idle EXCEPT !.left = Tail(work.left)]
            /\ out' = [out EXCEPT !.skipped = @ + 1]

\* The folder of the file cannot be made: a file has the name of one of its parents.
Blocked ==
    /\ pc = "next" /\ work.left # <<>>
    /\ \/ \E p \in Parents(OutPath(work.left[1])) : p \in DOMAIN seen.files
       \/ disk.faulty
    /\ PassOver /\ UNCHANGED <<disk, opts, seen>>

Foldered == [files |-> seen.files, dirs |-> seen.dirs \cup Parents(OutPath(work.left[1]))]

\* The policy leaves no name, or the file does not open (a folder has its name).
NotOpened ==
    /\ pc = "next" /\ work.left # <<>>
    /\ \A p \in Parents(OutPath(work.left[1])) : p \notin DOMAIN seen.files
    /\ LET path == OutPath(work.left[1]) IN
        \/ NoName(path, Foldered)
        \/ ~NoName(path, Foldered) /\ (disk.faulty \/ (ResolveCollision(path, path, Foldered) /\ path \in Foldered.dirs))
    /\ seen' = Foldered /\ PassOver /\ UNCHANGED <<disk, opts>>

Open ==
    /\ pc = "next" /\ work.left # <<>>
    /\ LET path == OutPath(work.left[1]) IN
        /\ \A p \in Parents(path) : p \notin DOMAIN seen.files
        /\ \E at \in {path} \cup {Suffixed(path, n) : n \in 1 .. MaxSuffix} :
            /\ ResolveCollision(path, at, Foldered) /\ at \notin Foldered.dirs
            /\ seen' = Stored(Foldered, at, <<>>)
            /\ work' = [work EXCEPT !.at = at, !.todo = ExtentsOf(work.left[1])]
    /\ pc' = "copy"
    /\ UNCHANGED <<disk, opts, out>>

\* A piece of the first extent; a failing destination stores something else,
\* or part of the piece, which ends the file.
Copy ==
    /\ pc = "copy" /\ work.todo # <<>>
    /\ LET off == work.todo[1][1]
           n == Smaller(Piece, work.todo[1][2])
           had == seen.files[work.at]
           more == [work EXCEPT !.todo = After(@, n), !.hash = @ \o Window(off, n),
                                !.suspect = @ \/ Flagged(off, n)]
       IN \/ /\ work' = more
             /\ \/ seen' = Stored(seen, work.at, had \o Window(off, n))
                \/ disk.faulty /\ seen' = Stored(seen, work.at, had \o [i \in 1 .. n |-> Rot])
             /\ UNCHANGED <<pc, out>>
          \/ /\ disk.faulty
             /\ \E k \in {0, n - 1} : seen' = Stored(seen, work.at, had \o SubSeq(Window(off, n), 1, k))
             /\ PassOver
    /\ UNCHANGED <<disk, opts>>

\* What was written has the bytes that were read.
Intact == seen.files[work.at] = work.hash

\* What is written is read again when that was asked for.
Finish ==
    /\ pc = "copy" /\ work.todo = <<>>
    /\ LET r == work.left[1] IN
        \E verified \in IF ~opts.verify THEN {"unasked"}
                        ELSE IF ~Intact THEN {"no"}
                        ELSE IF disk.faulty THEN {"yes", "no"} ELSE {"yes"} :
            out' = [out EXCEPT !.files = @ \cup {
                [id |-> r.id, path |-> work.at, hash |-> work.hash, verified |-> verified,
                 validity |-> IF work.suspect /\ r.validity = "full" THEN "suspect" ELSE r.validity]}]
    /\ pc' = "next" /\ work' = [Idle EXCEPT !.left = Tail(work.left)]
    /\ UNCHANGED <<disk, opts, seen>>

\* The manifest takes its name whatever has it; without it the call fails.
WriteManifest ==
    /\ pc = "next" /\ work.left = <<>>
    /\ \/ Manifest \notin seen.dirs /\ pc' = "done" /\ seen' = Stored(seen, Manifest, <<Zero>>)
       \/ Manifest \in seen.dirs /\ pc' = "failed" /\ UNCHANGED seen
       \/ disk.faulty /\ Manifest \notin seen.dirs /\ pc' = "failed" /\ seen' \in {seen, Stored(seen, Manifest, <<>>)}
    /\ UNCHANGED <<disk, opts, work, out>>

Preview ==
    /\ pc = "check" /\ opts.op = "preview"
    /\ \/ Chosen # <<>> /\ Opens /\ pc' = "preview" /\ work' = [Idle EXCEPT !.todo = ExtentsOf(Chosen[1])]
       \/ (Chosen = <<>> \/ ~Opens \/ disk.faulty) /\ pc' = "failed" /\ UNCHANGED work
    /\ UNCHANGED <<disk, opts, seen, out>>

Extract ==
    /\ pc = "preview"
    /\ IF work.todo = <<>> \/ Len(out.preview) >= opts.max
       THEN pc' = "done" /\ UNCHANGED <<work, out>>
       ELSE LET n == Smaller(Piece, Smaller(work.todo[1][2], opts.max - Len(out.preview))) IN
            \/ /\ out' = [out EXCEPT !.preview = @ \o Window(work.todo[1][1], n)]
               /\ work' = [work EXCEPT !.todo = After(@, n)] /\ UNCHANGED pc
            \/ disk.faulty /\ pc' = "failed" /\ UNCHANGED <<work, out>>
    /\ UNCHANGED <<disk, opts, seen>>

Next == Check \/ Blocked \/ NotOpened \/ Open \/ Copy \/ Finish \/ WriteManifest \/ Preview \/ Extract
Spec == Init /\ [][Next]_vars

-----------------------------------------------------------------------------
(* What a job describes.  truth is the source positions of each record's      *)
(* bytes, media the disks that the source and the destination lie on.         *)

\* After the first done, the positions are those of the extents in their order.
Laid(t, extents, done) ==
    \E ends \in [0 .. Len(extents) -> 0 .. Len(t)] :
        /\ ends[0] = done /\ ends[Len(extents)] = Len(t)
        /\ \A i \in 1 .. Len(extents) :
            /\ ends[i] = ends[i - 1] + extents[i][2]
            /\ \A j \in 1 .. extents[i][2] : t[ends[i - 1] + j] = extents[i][1] + j - 1

RecordsOk(d) ==
    /\ d.records \in Seq(Elements(d.records))
    /\ \A i, j \in DOMAIN d.records : d.records[i].id = d.records[j].id => i = j
    /\ \A r \in Elements(d.records) :
        /\ d.truth[r.id] \in Seq(Nat) /\ ExtentsOf(r) \in Seq(Nat \X Nat)
        /\ Laid(d.truth[r.id], ExtentsOf(r), 0)

\* A name that leads nowhere else does not when it is cleaned.
NamesOk(d) ==
    /\ \A p \in DOMAIN d.dest.files : \A i \in DOMAIN p : Proper(p[i])
    /\ d.dest = [files |-> d.dest.files, dirs |-> d.dest.dirs]
    /\ \A r \in Elements(d.records) : SynthPath(r) \in Seq(Elements(SynthPath(r)))
    /\ \A name \in DOMAIN d.clean : Proper(name) => Proper(d.clean[name])

\* A disk is on the physical disks it is made of, a file on those of its filesystem.
MediaOk(d) ==
    /\ SourceOf(d.source) \in Seq(Elements(SourceOf(d.source)))
    /\ \A source \in Elements(SourceOf(d.source)) :
           \/ /\ source.kind = "device"
              /\ source.named /\ d.target.whole # "" =>
                   /\ d.media \subseteq PhysicalSet(d.stores, source.whole)
                   /\ d.target.media \subseteq PhysicalSet(d.stores, d.target.whole)
           \/ /\ source.kind = "image"
              /\ d.media \cap d.target.media # {} => source.fs = d.target.fs /\ d.target.fs # ""

JobsOk ==
    /\ Piece \in Nat \ {0} /\ Sector \in Nat \ {0}
    /\ \A o \in Requests : o.max \in Nat
    /\ \A d \in Disks : d.len \in Nat /\ RecordsOk(d) /\ NamesOk(d) /\ MediaOk(d)

-----------------------------------------------------------------------------
Ended == pc \in {"done", "failed"}

\* What the destination had is untouched, but for the manifest and for what
\* the Overwrite policy was asked to replace.
Kept ==
    \A p \in DOMAIN disk.dest.files :
        \/ p = Manifest
        \/ opts.collision = "overwrite"
        \/ p \in DOMAIN seen.files /\ seen.files[p] = disk.dest.files[p]

\* A file that is listed is there, no later one has taken its place, and what
\* verifies is what was read from the source.
Verified ==
    opts.collision # "overwrite" =>
        \A f \in out.files :
            /\ f.path \in DOMAIN seen.files
            /\ f.verified = "yes" /\ ~(Ended /\ f.path = Manifest) => seen.files[f.path] = f.hash

\* A file has each byte of its extents in its place; one that is "full" has
\* no byte of the source that was not read.
Told ==
    \A f \in out.files :
        LET t == disk.truth[f.id]
        IN  /\ Len(f.hash) = Len(t)
            /\ \A k \in DOMAIN t : f.hash[k] = t[k] \/ f.hash[k] = Zero
            /\ f.validity = "full" => \A k \in DOMAIN t : f.hash[k] = Zero => t[k] >= disk.len

\* Each chosen record is listed or counted as skipped, once.
Accounted ==
    pc \in {"next", "copy"} => Cardinality(out.files) + out.skipped + Len(work.left) = Len(Chosen)

\* No two of the files listed are one file.
Apart ==
    opts.collision # "overwrite" =>
        \A f, g \in out.files : f.path = g.path => f = g

\* Every file of the run is inside the destination, and none is written on
\* the medium the lost files are on.
Inside ==
    /\ \A p \in DOMAIN seen.files : \A i \in DOMAIN p : Proper(p[i])
    /\ (seen # disk.dest /\ ~opts.sameDevice) => disk.media \cap disk.target.media = {}

\* A preview is the head of the file.
Previewed ==
    (pc = "done" /\ opts.op = "preview") =>
        LET t == disk.truth[Chosen[1].id]
        IN  out.preview = [k \in 1 .. Smaller(opts.max, Len(t)) |-> Read(t[k])]

Recovered == Kept /\ Verified /\ Told /\ Accounted /\ Apart /\ Inside /\ Previewed

Units(todo) == IF todo = <<>> THEN 0 ELSE todo[1][2]
Phase == CASE pc = "check" -> 3 [] pc = "next" -> 2 [] pc \in {"copy", "preview"} -> 1 [] OTHER -> 0
Shrinks ==
    \/ pc = "check" /\ pc' # "check"
    \/ /\ pc # "check" /\ Phase' <= 2
       /\ \/ Len(work'.left) < Len(work.left)
          \/ /\ Len(work'.left) = Len(work.left)
             /\ \/ Phase' < Phase
                \/ Phase' = Phase /\ Len(work'.todo) < Len(work.todo)
                \/ Phase' = Phase /\ work'.todo # <<>> /\ Tail(work'.todo) = Tail(work.todo) /\ Units(work'.todo) < Units(work.todo)
=============================================================================
