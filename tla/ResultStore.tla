------------------------------ MODULE ResultStore ------------------------------
(***************************************************************************)
(* The result table of a session and what `reclaim scan' does to it, run   *)
(* after run: the quick pass stores the named files of each volume, the    *)
(* carve stores what it finds, labels say whether a carved row lies in     *)
(* allocated space, the structure pass replaces the list of lost volumes,  *)
(* and the merge hides the carved rows that a named file stands for.  A    *)
(* run may end between any two transactions; the next one does it again.   *)
(*                                                                         *)
(* Abstractions.  An offset is a cluster number.  What the engines find on *)
(* the source is constant: a run that reads a volume finds the same files. *)
(* The id of a row is a hash of its engine, first offset and length; here  *)
(* it is the two numbers, and no two volumes share an offset.  The carve   *)
(* is a scan that stores what it finds in any order and keeps its progress *)
(* (ScanPipeline has the rest).                                            *)
(***************************************************************************)
EXTENDS Integers, Sequences

CONSTANTS
    NumVolumes, \* volumes of the source, in the order they are walked
    Base,       \* the first cluster of each
    Clusters,   \* how many its bitmap describes
    Used,       \* those in use, counted from the base
    HasBitmap,  \* the volumes whose engine gives its bitmap
    File,       \* named files
    Walk,       \* the files of each volume, as its engine emits them
    Extents,    \* where the extents of a file start, a sequence
    Size,       \* how long it is
    Carve,      \* what a carve of the whole source finds
    CarveAt,    \* where it starts
    NumLost,    \* lost volumes that the structure pass finds
    Batch,      \* files stored in one transaction (1024)
    MaxFaults   \* how often each kind of fault may strike

\* open: a volume does not open; stop: a stage fails or the process dies.
FaultKind == {"open", "stop"}
Volume == 1 .. NumVolumes
Span(v) == Base[v] .. Base[v] + Clusters[v] - 1

ASSUME StoreAssumption ==
    /\ NumVolumes \in Nat
    /\ Base \in [Volume -> Nat] /\ Clusters \in [Volume -> Nat]
    /\ Used \in [Volume -> SUBSET Nat] /\ \A v \in Volume : Used[v] \subseteq 0 .. Clusters[v] - 1
    /\ HasBitmap \subseteq Volume
    /\ Walk \in [Volume -> Seq(File)]
    /\ \A f \in File : Extents[f] \in Seq(Nat) /\ Extents[f] # <<>> /\ Size[f] \in Nat
    /\ \A v, w \in Volume : v # w =>
          /\ Span(v) \cap Span(w) = {}
          /\ \A j \in DOMAIN Walk[v], k \in DOMAIN Walk[w] :
                Extents[Walk[v][j]][1] # Extents[Walk[w][k]][1]
    /\ CarveAt \in [Carve -> Nat]
    /\ NumLost \in Nat
    /\ Batch \in Nat \ {0}
    /\ MaxFaults \in [FaultKind -> Nat]

VARIABLES
    named,     \* files with a row of their own
    carved,    \* carved rows
    labels,    \* the state of a carved row: none, allocated or unallocated
    hidden,    \* carved rows with `merged' set, left out of the results
    progress,  \* the carve's progress row: none, partial or complete
    lost,      \* the list of lost volumes
    phase,     \* where the run is
    opts,      \* its options
    vol,       \* its volume
    at,        \* the file, or lost volume, it stores next
    opened,    \* volumes it opened
    settled,   \* a full run of all volumes has come to its end
    hid,       \* labels have hidden rows
    faults

tableVars == <<named, carved, labels, hidden>>
runVars == <<phase, opts, vol, at, opened>>
history == <<settled, hid>>
vars == <<tableVars, progress, lost, runVars, history, faults>>

-----------------------------------------------------------------------------
Options == [quick : BOOLEAN, deep : BOOLEAN, unallocatedOnly : BOOLEAN]
Idle == [quick |-> FALSE, deep |-> FALSE, unallocatedOnly |-> FALSE]

Key(f) == <<Extents[f][1], Size[f]>>

\* Wrong variant: a cluster is looked up by its offset on the source.
UsedOnSource(v, off) == off >= Clusters[v] \/ off \in Used[v]

\* Wrong variant: space that the bitmap does not describe is free.
UsedInside(v, off) == off - Base[v] \in Used[v]

\* AbsBitmap::is_allocated: outside the volume counts as allocated.
IsAllocated(v, off) ==
    \/ off < Base[v]
    \/ off - Base[v] >= Clusters[v]
    \/ off - Base[v] \in Used[v]

Bitmaps == opened \cap HasBitmap

LabelOf(c) == IF \E v \in Bitmaps : IsAllocated(v, CarveAt[c]) THEN "allocated" ELSE "unallocated"

Strike(kind) ==
    /\ faults[kind] < MaxFaults[kind]
    /\ faults' = [faults EXCEPT ![kind] = @ + 1]

Init ==
    /\ named = {} /\ carved = {} /\ hidden = {}
    /\ labels = [c \in Carve |-> "none"]
    /\ progress = "none" /\ lost = <<>>
    /\ phase = "off" /\ opts = Idle /\ vol = 0 /\ at = 0 /\ opened = {}
    /\ settled = FALSE /\ hid = FALSE
    /\ faults = [k \in FaultKind |-> 0]

-----------------------------------------------------------------------------
(* A run: the passes it is asked for.  Both, if none is named.             *)
Begin(o) ==
    /\ phase = "off"
    /\ o.quick \/ o.deep
    /\ opts' = o
    /\ phase' = IF o.quick THEN "volume" ELSE "carve"
    /\ vol' = 1 /\ at' = 1 /\ opened' = {}
    /\ UNCHANGED <<tableVars, progress, lost, history, faults>>

Over == phase' = "off" /\ opts' = Idle /\ vol' = 0 /\ at' = 0 /\ opened' = {}

GoTo(p) == phase' = p /\ UNCHANGED <<opts, vol, at, opened>>

\* A volume opens, and is walked to its end before a file is stored.
OpenVolume ==
    /\ phase = "volume" /\ vol <= NumVolumes
    /\ opened' = opened \cup {vol}
    /\ phase' = "store" /\ at' = 1
    /\ UNCHANGED <<tableVars, progress, lost, opts, vol, history, faults>>

\* A volume that does not open is left out, and the pass goes on.
SkipVolume ==
    /\ phase = "volume" /\ vol <= NumVolumes
    /\ Strike("open")
    /\ vol' = vol + 1
    /\ UNCHANGED <<tableVars, progress, lost, phase, opts, at, opened, history>>

\* The files of the batch.
InBatch == {Walk[vol][k] : k \in {k \in DOMAIN Walk[vol] : at <= k /\ k < at + Batch}}

\* INSERT OR IGNORE: the first file of an id has the row.
FirstOfId(f) ==
    /\ \A g \in named : Key(g) # Key(f)
    /\ \E k \in DOMAIN Walk[vol] :
          Walk[vol][k] = f /\ \A j \in at .. k - 1 : Key(Walk[vol][j]) # Key(f)

StoreFiles(rows) ==
    /\ phase = "store"
    /\ named' = rows
    /\ IF at + Batch > Len(Walk[vol])
       THEN phase' = "volume" /\ vol' = vol + 1 /\ at' = 1
       ELSE at' = at + Batch /\ UNCHANGED <<phase, vol>>
    /\ UNCHANGED <<carved, labels, hidden, progress, lost, opts, opened, history, faults>>

\* Wrong variant: INSERT OR REPLACE.
ReplaceEntries == StoreFiles({g \in named : \A f \in InBatch : Key(f) # Key(g)} \cup InBatch)

InsertEntries == StoreFiles(named \cup {f \in InBatch : FirstOfId(f)})

QuickDone ==
    /\ phase = "volume" /\ vol > NumVolumes
    /\ IF opts.deep THEN GoTo("carve") ELSE Over
    /\ UNCHANGED <<tableVars, progress, lost, history, faults>>

\* The carve stores a batch, or checkpoints.
InsertCarved ==
    /\ phase = "carve" /\ progress # "complete"
    /\ \E found \in SUBSET (Carve \ carved) : carved' = carved \cup found
    /\ progress' \in {progress, "partial"}
    /\ UNCHANGED <<named, labels, hidden, lost, runVars, history, faults>>

\* It is over, now or since an earlier run; or it was interrupted.
CarveEnds ==
    /\ phase = "carve"
    /\ \/ carved = Carve /\ progress' = "complete" /\ GoTo("label")
       \/ progress # "complete" /\ progress' = "partial" /\ GoTo("stopping")
    /\ UNCHANGED <<tableVars, lost, history, faults>>

\* label_carved: every carved row, if there is a bitmap; with unallocated_only
\* the allocated ones are hidden.  An interrupted run ends here.
Label ==
    /\ phase \in {"label", "stopping"}
    /\ IF Bitmaps = {}
       THEN UNCHANGED <<labels, hidden, hid>>
       ELSE /\ labels' = [c \in Carve |-> IF c \in carved THEN LabelOf(c) ELSE labels[c]]
            /\ hidden' = IF opts.unallocatedOnly
                         THEN hidden \cup {c \in carved : labels'[c] = "allocated"}
                         ELSE hidden
            /\ hid' = (hid \/ opts.unallocatedOnly)
    /\ IF phase = "label" THEN GoTo("delete") ELSE Over
    /\ UNCHANGED <<named, carved, progress, lost, settled, faults>>

\* The list is written anew, one statement for each lost volume.
Propose == phase' = "propose" /\ at' = 1 /\ UNCHANGED <<opts, vol, opened>>

\* Wrong variant: the old list is not deleted.
KeepProposals ==
    /\ phase = "delete"
    /\ Propose
    /\ UNCHANGED <<tableVars, progress, lost, history, faults>>

DeleteProposals ==
    /\ phase = "delete"
    /\ lost' = <<>>
    /\ Propose
    /\ UNCHANGED <<tableVars, progress, history, faults>>

Proposal(last) ==
    /\ phase = "propose" /\ at <= last
    /\ lost' = Append(lost, at)
    /\ at' = at + 1
    /\ UNCHANGED <<tableVars, progress, phase, opts, vol, opened, history, faults>>

\* Wrong variant: one volume too many.
ProposalPastEnd == Proposal(NumLost + 1)

InsertProposal == Proposal(NumLost)

\* Without a quick pass there is nothing to merge with.
StructureDone ==
    /\ phase = "propose" /\ at > NumLost
    /\ IF opts.quick THEN GoTo("merge") ELSE Over
    /\ UNCHANGED <<tableVars, progress, lost, history, faults>>

\* Where the extents of these files start.
StartsOf(files) == UNION {{Extents[f][k] : k \in DOMAIN Extents[f]} : f \in files}
TwinsOf(files) == {c \in Carve : CarveAt[c] \in StartsOf(files)}

\* merge_carved_into_entries hides carved rows, of any run.
MergeRows(twins) ==
    /\ phase = "merge"
    /\ hidden' = hidden \cup (carved \cap twins)
    /\ settled' = (settled \/ opened = Volume)
    /\ Over
    /\ UNCHANGED <<named, carved, labels, progress, lost, hid, faults>>

\* Wrong variant: only the first extent of a file counts.
MergeFirstExtents == MergeRows({c \in Carve : \E f \in named : CarveAt[c] = Extents[f][1]})

\* Those that begin where an extent of a stored file does.
Merge == MergeRows(TwinsOf(named))

\* A stage fails, or the process dies, between two transactions.
Stop ==
    /\ phase # "off"
    /\ Strike("stop")
    /\ Over
    /\ UNCHANGED <<tableVars, progress, lost, history>>

Next ==
    \/ \E o \in Options : Begin(o)
    \/ OpenVolume \/ SkipVolume \/ InsertEntries \/ QuickDone
    \/ InsertCarved \/ CarveEnds \/ Label
    \/ DeleteProposals \/ InsertProposal \/ StructureDone
    \/ Merge
    \/ Stop

Spec == Init /\ [][Next]_vars

-----------------------------------------------------------------------------
(* Properties.                                                             *)

TypeOK ==
    /\ named \subseteq File /\ carved \subseteq Carve /\ hidden \subseteq carved
    /\ labels \in [Carve -> {"none", "allocated", "unallocated"}]
    /\ progress \in {"none", "partial", "complete"}
    /\ lost \in Seq(1 .. NumLost)
    /\ phase \in {"off", "volume", "store", "carve", "label", "stopping", "delete",
                  "propose", "merge"}
    /\ opts \in Options
    /\ vol \in 0 .. NumVolumes + 1
    /\ at \in Nat
    /\ opened \subseteq Volume
    /\ settled \in BOOLEAN /\ hid \in BOOLEAN
    /\ faults \in [FaultKind -> Nat]

\* The files a single quick pass of all volumes stores: of the files with one
\* first extent and one length, the first that is walked.
FirstNames ==
    {f \in File : \E v \in Volume : \E k \in DOMAIN Walk[v] :
        /\ Walk[v][k] = f
        /\ \A j \in 1 .. k - 1 : Key(Walk[v][j]) # Key(f)}

\* Whatever happened to the runs before it, once a full run of all volumes has
\* come to its end the results are those of a single run that nothing stopped,
\* and they stay so through every later run.  (id.rs: the same input yields
\* identical ids across runs, and a resume is idempotent.)
IdenticalView ==
    settled =>
        /\ named = FirstNames /\ carved = Carve
        /\ TwinsOf(FirstNames) \subseteq hidden
        /\ ~hid => hidden = TwinsOf(FirstNames)

InUse(v, off) == off - Base[v] \in Used[v]
IsFree(v, off) == off \in Span(v) /\ ~InUse(v, off)

\* What is labelled unallocated lies in no volume's used space, also if that
\* volume did not open in this run or has no bitmap.
UnallocatedIsFree ==
    \A c \in carved : labels[c] = "unallocated" => \A v \in Volume : ~InUse(v, CarveAt[c])

\* What lies in the free space of a volume with a bitmap stays in the results,
\* unless a named file stands for it: unallocated_only hides the content of
\* live files.  (scan.rs: "hide the allocated ones (a live file's content is
\* not a deletion)".)
FreeIsShown ==
    \A c \in hidden \ TwinsOf(named) : \A v \in HasBitmap : ~IsFree(v, CarveAt[c])

\* A result that was stored keeps its id, its name and its place: no later run
\* takes a row away, gives it another file's name or shows a hidden one again.
RowsKept ==
    [][named \subseteq named' /\ carved \subseteq carved' /\ hidden \subseteq hidden']_vars

\* Whoever reads the list of lost volumes, at any moment of a run that writes
\* it or after one that stopped there, finds a volume under its own number or
\* none.  (`adopt <N>' and session:<dir>/volume/<n> name a volume by it.)
ProposalsNumbered == \A n \in DOMAIN lost : lost[n] = n
=============================================================================
