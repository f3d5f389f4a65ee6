--------------------------- MODULE MCScanPipeline ---------------------------
(* A source of chunks of three offsets.  `Inner' lies inside a Full file of   *)
(* its own chunk, so every scan suppresses it; in the straddling layout the   *)
(* Full file reaches into the next chunk and hides `Broken' there.  `Broken'  *)
(* spans the image, which it must not hide; the image (a dmg) starts before   *)
(* the offset of its signature.                                               *)
EXTENDS ScanPipeline

Outer == 0
Inner == 1
Broken == 3
Image == 5

MCCand == {Outer, Inner, Broken, Image}
MCFull == {Outer, Inner, Image}
MCStart == [o \in MCCand |-> IF o = Image THEN 4 ELSE o]
MCEnd == [o \in MCCand |-> IF o = Broken THEN 6 ELSE o + 2]
MCStraddlingEnd == [MCEnd EXCEPT ![Outer] = 4]

\* A smaller source for the temporal properties.
MCTwo == {Outer, Broken}
MCTwoStart == [o \in MCTwo |-> o]
MCTwoEnd == [o \in MCTwo |-> o + 2]

\* The faults of a run: one of each kind named, and a second SIGINT.
AtMostOne(kinds) == [k \in FaultKind |-> IF k \in kinds THEN 1 ELSE 0]
MCFaults == [AtMostOne({"interrupt", "panic", "power"}) EXCEPT !["interrupt"] = 2]
MCLiveFaults == AtMostOne({"crash", "writer", "unplug"})
MCInterrupt == AtMostOne({"interrupt"})
MCUnplug == AtMostOne({"interrupt", "unplug"})
=============================================================================
