--------------------------- MODULE MCSessionHandle ---------------------------
(* Three runs: a scan, one that resumes it, and one that resumes that.       *)
EXTENDS SessionHandle

MCFaults == [k \in FaultKind |-> 1]
MCNone == [k \in FaultKind |-> 0]
=============================================================================
