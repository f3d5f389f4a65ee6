---------------------------- MODULE ResumableScan ----------------------------
(***************************************************************************)
(* What a session promises of an interruptible scan, whatever happens to   *)
(* the process that runs it: the database holds results and a position up  *)
(* to which the scan need not be repeated.  It only moves its position to  *)
(* where every result it requires is stored; once done it stays so; and    *)
(* what a power failure leaves behind keeps the same promise.              *)
(***************************************************************************)
EXTENDS Integers

CONSTANTS
    Results,   \* what a scan may find
    Last,      \* the position of the end, a natural number
    Required   \* Required[k]: the results to store before position k (0 .. Last)

VARIABLES
    rows, position, done,
    outages    \* power failures so far

vars == <<rows, position, done, outages>>

Kept(r, p, d) ==
    /\ r \subseteq Results
    /\ p \in 0 .. Last
    /\ Required[p] \subseteq r
    /\ d \in BOOLEAN /\ (d => p = Last)

Init == rows = {} /\ position = 0 /\ done = FALSE /\ outages = 0

\* Results are added; none is taken away.
Record ==
    /\ ~done
    /\ rows \subseteq rows' /\ rows' \subseteq Results
    /\ UNCHANGED <<position, done, outages>>

\* The position moves, forwards or, when a scan starts over, back.
Advance ==
    /\ ~done
    /\ \E p \in 0 .. Last, d \in BOOLEAN :
          Kept(rows, p, d) /\ position' = p /\ done' = d
    /\ UNCHANGED <<rows, outages>>

\* A power failure takes back the latest changes.
Forget ==
    /\ outages' = outages + 1
    /\ rows' \subseteq rows
    /\ Kept(rows', position', done')

Next == Record \/ Advance \/ Forget

Spec == Init /\ [][Next]_vars
=============================================================================
