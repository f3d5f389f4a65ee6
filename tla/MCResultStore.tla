---------------------------- MODULE MCResultStore ----------------------------
(* Two volumes of four clusters.  The first gives no bitmap; the second has a *)
(* fragmented live file, a deleted file, and a clone of the live one, stored  *)
(* in the next batch.  Carves start at the first cluster of files, at a later *)
(* extent, in free space, and in used space that no file of the walk covers.  *)
EXTENDS ResultStore

MCBase == <<0, 4>>
MCClusters == <<4, 4>>
MCUsed == <<{0, 1}, {0, 2}>>
MCSecond == {2}
MCBoth == {1, 2}
MCFile == {"photo", "video", "clone", "deleted"}
MCWalk == <<<<"photo">>, <<"video", "deleted", "clone">>>>
MCExtents == [f \in MCFile |->
    CASE f = "photo" -> <<0>> [] f \in {"video", "clone"} -> <<4, 6>> [] f = "deleted" -> <<7>>]
MCSize == [f \in MCFile |-> 1]
MCCarve == {0, 1, 5, 6}
MCCarveAt == [c \in MCCarve |-> c]
MCFaults == [open |-> 1, stop |-> 1]
MCNone == [open |-> 0, stop |-> 0]
=============================================================================
