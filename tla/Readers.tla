------------------------------ MODULE Readers ------------------------------
(* Everything the program reads a source with, each part on its own sources:  *)
(* the filesystem engines behind one interface (reclaim-fs-core's FileSystem, *)
(* the registry of reclaim-session's meta.rs), the partition tables, the sweep*)
(* for lost volumes, the container images and the stack of block sources; and *)
(* the copy of what was found to a destination.                               *)
EXTENDS Integers, Sequences

CONSTANTS
    Kinds,       \* the kinds of sources given to the program
    FatDisks, ExfatDisks, NtfsDisks, ExtDisks, HfsDisks, ApfsDisks, IsoDisks,
    Requests,    \* the options of a walk
    Fat16From, Fat32From, LoSpan, HiSpan, Shifts, MaxDirBlocks, MaxDepth,
    Spare, System, Dollar, MaxParents,
    FirstIno, MaxTree, MaxMapNodes, MaxFileBlocks, MaxDirs,
    NodeLimit, InlineExtents, FirstFile, SweepChunk, SweepOverlap, KeyMin,
    NodeBudget, TotalBudget, MaxRing, MaxHistory,
    MaxDescriptors,
    TableDisks, MaxEntries, TableRoom, MaxChain,
    LostDisks, LostChunk, Beyond, Magic, Internal, BackupGap, Near, MaxProposals,
    Images, ImageReads, Sector, CacheBlocks, DecodeSlack, MaxBlockOut, MaxBlocks, MaxSections,
    Stacks, StackReads, CacheChunk, Capacity,
    Jobs, Asks, CopyPiece, MaxSuffix,
    Sources, Scans, CarveChunk, Wild, TextSymbols, MinAnchor, HeadLen, TextLen, MinSample, MinRun,
    TaintLen, FallbackCap, FooterWindow, MaxFile, MaxClaims, Prefix, FewFiles, EnoughFiles, MaxBlock

VARIABLES kind, pc, disk, opts, work, seen, out

vars == <<kind, pc, disk, opts, work, seen, out>>

(* Recover and Stack are instances of the modules of proofs, which extend the *)
(* components, so that ReadersProofs has their lemmas for these instances.    *)
Fat == INSTANCE FatVolume WITH Disks <- FatDisks, MaxDirClusters <- MaxDirBlocks
Exfat == INSTANCE ExfatVolume WITH Disks <- ExfatDisks, MaxDirClusters <- MaxDirBlocks
Ntfs == INSTANCE NtfsVolume WITH Disks <- NtfsDisks
Ext == INSTANCE ExtVolume WITH Disks <- ExtDisks
Hfs == INSTANCE HfsVolume WITH Disks <- HfsDisks, Chunk <- SweepChunk, Overlap <- SweepOverlap
Apfs == INSTANCE ApfsVolume WITH Disks <- ApfsDisks
Iso == INSTANCE IsoVolume WITH Disks <- IsoDisks
Parts == INSTANCE PartitionTables WITH Disks <- TableDisks
Lost == INSTANCE LostVolumes WITH Disks <- LostDisks, Chunk <- LostChunk, Overlap <- Beyond
Image == INSTANCE Containers WITH Disks <- Images, Requests <- ImageReads, Slack <- DecodeSlack
Stack == INSTANCE BlockStackProofs WITH Disks <- Stacks, Requests <- StackReads, Chunk <- CacheChunk
Recover == INSTANCE RecoveryProofs WITH Disks <- Jobs, Requests <- Asks, Piece <- CopyPiece
Carve == INSTANCE CarveEngine WITH Disks <- Sources, Requests <- Scans, Chunk <- CarveChunk

ASSUME RequestAssumption == \A o \in Requests : o.max \in Nat
ASSUME FatAssumption == Fat!DisksOk
ASSUME ExfatAssumption == Exfat!DisksOk
ASSUME NtfsAssumption == Ntfs!DisksOk
ASSUME ExtAssumption == Ext!DisksOk
ASSUME HfsAssumption == Hfs!DisksOk
ASSUME ApfsAssumption == Apfs!DisksOk
ASSUME IsoAssumption == Iso!DisksOk
ASSUME PartsAssumption == Parts!DisksOk
ASSUME LostAssumption == Lost!DisksOk
ASSUME ImageAssumption == Image!RequestsOk
ASSUME CarveAssumption == Carve!RequestsOk
ASSUME JobAssumption == Recover!JobsOk
ASSUME StackAssumption == Stack!StacksOk

-----------------------------------------------------------------------------
Init ==
    /\ kind \in Kinds
    /\ \/ kind = "fat" /\ Fat!Init
       \/ kind = "exfat" /\ Exfat!Init
       \/ kind = "ntfs" /\ Ntfs!Init
       \/ kind = "ext" /\ Ext!Init
       \/ kind = "hfs" /\ Hfs!Init
       \/ kind = "apfs" /\ Apfs!Init
       \/ kind = "iso" /\ Iso!Init
       \/ kind = "parts" /\ Parts!Init
       \/ kind = "lost" /\ Lost!Init
       \/ kind = "image" /\ Image!Init
       \/ kind = "stack" /\ Stack!Init
       \/ kind = "recover" /\ Recover!Init
       \/ kind = "carve" /\ Carve!Init

Next ==
    /\ \/ kind = "fat" /\ Fat!Next
       \/ kind = "exfat" /\ Exfat!Next
       \/ kind = "ntfs" /\ Ntfs!Next
       \/ kind = "ext" /\ Ext!Next
       \/ kind = "hfs" /\ Hfs!Next
       \/ kind = "apfs" /\ Apfs!Next
       \/ kind = "iso" /\ Iso!Next
       \/ kind = "parts" /\ Parts!Next
       \/ kind = "lost" /\ Lost!Next
       \/ kind = "image" /\ Image!Next
       \/ kind = "stack" /\ Stack!Next
       \/ kind = "recover" /\ Recover!Next
       \/ kind = "carve" /\ Carve!Next
    /\ UNCHANGED kind

Spec == Init /\ [][Next]_vars

-----------------------------------------------------------------------------
(* What the engines promise, each property for the engines that have it.    *)

\* Every live file is emitted exactly once, whatever loops, torn structures and
\* deleted records the volume has.
Listed ==
    /\ kind = "fat" => Fat!Listed
    /\ kind = "exfat" => Exfat!Listed
    /\ kind = "ntfs" => Ntfs!Listed
    /\ kind = "ext" => Ext!Listed
    /\ kind = "hfs" => Hfs!Listed
    /\ kind = "apfs" => Apfs!Listed
    /\ kind = "iso" => Iso!Listed

\* The extents of a live file are the places that the filesystem has for its
\* data, in the file's order.  Holes are left out, and of a map that is larger
\* than the engine reads (ext: 4096 nodes, 8 Mi blocks; HFS+: 8 extents) it is
\* the beginning.  A file that is given at 90 % or more is what a driver reads,
\* unless it is one of those (NTFS: a sparse one is given at less), has blocks
\* that are not written yet (ext), or lies in its record up to the end of a
\* sector, where the record's fix-ups are stored (NTFS).
Placed ==
    /\ kind = "fat" => Fat!Placed
    /\ kind = "exfat" => Exfat!Placed
    /\ kind = "ntfs" => Ntfs!Placed
    /\ kind = "ext" => Ext!Placed
    /\ kind = "hfs" => Hfs!Placed
    /\ kind = "apfs" => Apfs!Placed
    /\ kind = "iso" => Iso!Placed

\* The extents of a deleted file that are not marked as assumed are those it
\* had (ext: those of one of the copies of its inode), and the deleted files the
\* volume still describes are found (HFS+: unless the record's first bytes are at
\* the end of a step of the sweep).
Revived ==
    /\ kind = "fat" => Fat!Marked
    /\ kind = "exfat" => Exfat!Marked
    /\ kind = "ext" => Ext!Revived
    /\ kind = "hfs" => Hfs!Revived
    /\ kind = "apfs" => Apfs!Revived

\* A file found in two ways (tree, table, journal, sweep) is emitted once.
NoTwice ==
    /\ kind = "ntfs" => Ntfs!NoTwice
    /\ kind = "ext" => Ext!NoTwice
    /\ kind = "hfs" => Hfs!NoTwice
    /\ kind = "apfs" => Apfs!NoTwice

\* max_entries is a hard cap, wherever the walk stands.
Capped ==
    /\ kind = "fat" => Fat!Capped
    /\ kind = "exfat" => Exfat!Capped
    /\ kind = "ntfs" => Ntfs!Capped
    /\ kind = "ext" => Ext!Capped
    /\ kind = "iso" => Iso!Capped

\* A damaged first superblock does not lose a volume that has a good copy.
Opened ==
    /\ kind = "exfat" => Exfat!Opened
    /\ kind = "ext" => Ext!Opened
    /\ kind = "hfs" => Hfs!Opened
    /\ kind = "apfs" => Apfs!Opened

\* Each partition of a table of which one copy is left is one window of the
\* source, and each volume of which one superblock is left is proposed at its
\* own start, wherever the steps of the sweep fall.
VolumesFound ==
    /\ kind = "parts" => Parts!Listed /\ Parts!Placed
    /\ kind = "lost" => Lost!Opened /\ Lost!Listed /\ Lost!NoTwice /\ Lost!Placed

\* Every file whose header no gate refuses is carved once, wherever the chunks
\* and windows fall, and nothing is emitted twice or from inside a whole file.
Carved == kind = "carve" => Carve!Listed /\ Carve!NoTwice /\ Carve!TextOnce

\* A guest image is read as its format describes it, or the sectors are bad;
\* what is shifted, stale or of another block is never returned as good.  The
\* decoded blocks kept are no more than they may be.
GuestRead == kind = "image" => Image!Placed /\ Image!Listed /\ Image!Capped

\* Through window, injected faults and cache a good sector is the one asked
\* for, and only the sectors that fail are lost.  The read-ahead cache holds no
\* more chunks than it may, in whatever order they are used.
SectorsRead == kind = "stack" => Stack!Placed /\ Stack!Listed /\ Stack!Capped

\* What was chosen is copied into files of its own, byte for byte or marked,
\* nothing that was there is lost, and a preview is the head of its file.
Recovered == kind = "recover" => Recover!Recovered

\* Every step leaves less to do, so a volume cannot hold a walk for ever.
Shrinks ==
    /\ kind = "fat" => Fat!Shrinks
    /\ kind = "exfat" => Exfat!Shrinks
    /\ kind = "ntfs" => Ntfs!Shrinks
    /\ kind = "ext" => Ext!Shrinks
    /\ kind = "hfs" => Hfs!Shrinks
    /\ kind = "apfs" => Apfs!Shrinks
    /\ kind = "iso" => Iso!Shrinks
    /\ kind = "parts" => Parts!Shrinks
    /\ kind = "lost" => Lost!Shrinks
    /\ kind = "image" => Image!Shrinks
    /\ kind = "stack" => Stack!Shrinks
    /\ kind = "recover" => Recover!Shrinks
    /\ kind = "carve" => Carve!Shrinks
AlwaysShrinks == [][Shrinks]_vars
=============================================================================
