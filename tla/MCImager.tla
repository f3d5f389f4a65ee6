------------------------------ MODULE MCImager ------------------------------
(* Three chunks of two sectors: one of data, one of zeros, one of data and    *)
(* zeros.  The map is saved every second chunk, so a run can die with a chunk *)
(* written that no map knows of, and the next may fail to read that chunk.    *)
EXTENDS Imager

MCNonZero == {0, 1, 4}
MCFlaky == {0, 4, 5}
NoSector == {}

AtMost(n, kinds) == [k \in FaultKind |-> IF k \in kinds THEN n ELSE 0]
MCFaults == [AtMost(1, FaultKind) EXCEPT !["kill"] = 2]
MCKill == AtMost(1, {"kill"})
MCNone == AtMost(0, {})
=============================================================================
