--------------------------- MODULE RecoveryProofs ---------------------------
(***************************************************************************)
(* Proofs about Recovery for any source, records, destination, piece size  *)
(* and number of names tried, and any failures of the destination.  IInv   *)
(* says what is where in the destination, with nothing assumed of the      *)
(* jobs; RInv how much of each record is copied and listed, for jobs that  *)
(* are what JobsOk says.                                                   *)
(***************************************************************************)
EXTENDS Recovery, FiniteSetTheorems, SequenceTheorems, WellFoundedInduction, TLAPS

\* A step of one operation or another.
LEMMA NextCases ==
    ASSUME [Next]_vars
    PROVE  \/ Check \/ Blocked \/ NotOpened \/ Open \/ Copy \/ Finish \/ WriteManifest
           \/ Preview \/ Extract \/ UNCHANGED vars
BY DEF Next

-----------------------------------------------------------------------------
(* The records of the state keep their fields.                             *)
SeenShape == seen = [files |-> seen.files, dirs |-> seen.dirs]
OutShape == out = [files |-> out.files, skipped |-> out.skipped, preview |-> out.preview]
WorkShape == work = [left |-> work.left, at |-> work.at, todo |-> work.todo, hash |-> work.hash,
                     suspect |-> work.suspect]
Shape == SeenShape /\ OutShape /\ WorkShape

LEMMA ShapeInit == Init => Shape
BY DEF Init, Shape, SeenShape, OutShape, WorkShape, Idle

\* What a file is stored in is a tree in which only that file differs.
LEMMA StoredTree ==
    ASSUME NEW tree, NEW at, NEW units
    PROVE  /\ Stored(tree, at, units) = [files |-> Stored(tree, at, units).files, dirs |-> tree.dirs]
           /\ DOMAIN Stored(tree, at, units).files = DOMAIN tree.files \cup {at}
           /\ \A p \in DOMAIN tree.files : p # at => Stored(tree, at, units).files[p] = tree.files[p]
           /\ Stored(tree, at, units).files[at] = units
BY DEF Stored

LEMMA PassOverShape ==
    ASSUME Shape, PassOver
    PROVE  /\ OutShape' /\ WorkShape' /\ out'.files = out.files
           /\ pc' = "next"
BY DEF Shape, OutShape, PassOver, WorkShape, Idle

LEMMA ShapeStep == Shape /\ [Next]_vars => Shape'
<1> SUFFICES ASSUME Shape, [Next]_vars PROVE Shape'
  OBVIOUS
<1>1. CASE Check
  BY <1>1 DEF Check, Shape, SeenShape, OutShape, WorkShape, Idle
<1>2. CASE Blocked
  BY <1>2, PassOverShape DEF Blocked, Shape, SeenShape
<1>3. CASE NotOpened
  BY <1>3, PassOverShape DEF NotOpened, Shape, SeenShape, Foldered
<1>4. CASE Open
  <2>1. PICK at : seen' = Stored(Foldered, at, <<>>)
                  /\ work' = [work EXCEPT !.at = at, !.todo = ExtentsOf(work.left[1])]
    BY <1>4 DEF Open
  <2>2. SeenShape'
    BY <2>1, StoredTree DEF SeenShape
  <2>3. OutShape' /\ WorkShape'
    BY <1>4, <2>1 DEF Open, Shape, OutShape, WorkShape
  <2>4. QED
    BY <2>2, <2>3 DEF Shape
<1>5. CASE Copy
  <2>1. SeenShape'
    BY <1>5, StoredTree DEF Copy, SeenShape, Shape
  <2>2. OutShape' /\ WorkShape'
    BY <1>5, PassOverShape DEF Copy, Shape, OutShape, WorkShape
  <2>3. QED
    BY <2>1, <2>2 DEF Shape
<1>6. CASE Finish
  BY <1>6 DEF Finish, Shape, SeenShape, OutShape, WorkShape, Idle
<1>7. CASE WriteManifest
  BY <1>7, StoredTree DEF WriteManifest, Shape, SeenShape, OutShape, WorkShape
<1>8. CASE Preview
  BY <1>8 DEF Preview, Shape, SeenShape, OutShape, WorkShape, Idle
<1>9. CASE Extract
  BY <1>9 DEF Extract, Shape, SeenShape, OutShape, WorkShape
<1>10. CASE UNCHANGED vars
  BY <1>10 DEF vars, Shape, SeenShape, OutShape, WorkShape
<1>11. QED
  BY <1>1, <1>2, <1>3, <1>4, <1>5, <1>6, <1>7, <1>8, <1>9, <1>10, NextCases

-----------------------------------------------------------------------------
(* The invariant: a file being written is a new one, unless the policy is to  *)
(* overwrite, so neither a file the destination had nor one that is listed    *)
(* is written to.                                                             *)
Renaming == opts.collision # "overwrite"

\* The file being written.
New ==
    pc = "copy" =>
        /\ work.at \in DOMAIN seen.files
        /\ Renaming => /\ work.at \notin DOMAIN disk.dest.files \/ work.at = Manifest
                       /\ \A f \in out.files : f.path # work.at

\* The files of the summary.
Listed == Renaming => \A f \in out.files : f.path \in DOMAIN seen.files

\* Before the manifest is written, every file that verified is as it was read.
Sound == Renaming => \A f \in out.files :
            f.verified = "yes" /\ ~(Ended /\ f.path = Manifest) => seen.files[f.path] = f.hash

IInv == Shape /\ Kept /\ New /\ Listed /\ Sound /\ Apart

LEMMA IInvInit == Init => IInv
<1> SUFFICES ASSUME Init PROVE IInv
  OBVIOUS
<1>1. out.files = {} /\ pc # "copy" /\ seen.files = disk.dest.files
  BY DEF Init
<1>2. QED
  BY <1>1, ShapeInit DEF IInv, Kept, New, Listed, Sound, Apart

\* Every file that was there when a step began is as it was, but for one.
LEMMA StoredKeeps ==
    ASSUME NEW at, NEW units, NEW tree, tree.files = seen.files, seen' = Stored(tree, at, units),
           UNCHANGED <<disk, opts>>, Kept, Listed, out'.files = out.files,
           \/ opts.collision = "overwrite" \/ at = Manifest \/ at \notin DOMAIN disk.dest.files
    PROVE  Kept' /\ Listed'
<1>1. /\ DOMAIN seen'.files = DOMAIN seen.files \cup {at}
      /\ \A p \in DOMAIN seen.files : p # at => seen'.files[p] = seen.files[p]
  BY StoredTree
<1>2. Kept'
  BY <1>1 DEF Kept
<1>3. Listed'
  BY <1>1 DEF Listed, Renaming
<1>4. QED
  BY <1>2, <1>3

\* The name chosen is nobody's, unless the policy is to overwrite.
LEMMA ResolvedFree ==
    ASSUME NEW path, NEW at, NEW tree, ResolveCollision(path, at, tree), Renaming
    PROVE  at \notin DOMAIN tree.files
BY DEF ResolveCollision, Exists, Renaming

\* A step that writes no file and lists none.
LEMMA QuietStep ==
    ASSUME IInv, Shape', UNCHANGED <<disk, opts>>, seen'.files = seen.files, out'.files = out.files,
           pc' # "copy", ~Ended
    PROVE  IInv'
BY DEF IInv, Kept, New, Listed, Sound, Apart, Renaming

LEMMA OpenStep == ASSUME IInv, Shape', Open PROVE IInv'
<1>1. PICK at : /\ \E path : ResolveCollision(path, at, Foldered)
                /\ seen' = Stored(Foldered, at, <<>>)
                /\ work' = [work EXCEPT !.at = at, !.todo = ExtentsOf(work.left[1])]
  BY DEF Open
<1>2. /\ pc' = "copy" /\ UNCHANGED <<disk, opts, out>> /\ pc = "next"
      /\ Foldered.files = seen.files /\ work'.at = at
  BY <1>1 DEF Open, Foldered, IInv, Shape, WorkShape
<1>3. Renaming => at \notin DOMAIN seen.files
  BY <1>1, <1>2, ResolvedFree
<1>4. Renaming => at \notin DOMAIN disk.dest.files \/ at = Manifest
  BY <1>3 DEF IInv, Kept, Renaming
<1>5. Kept' /\ Listed'
  BY <1>1, <1>2, <1>4, StoredKeeps DEF IInv, Renaming
<1>6. /\ DOMAIN seen'.files = DOMAIN seen.files \cup {at}
      /\ \A p \in DOMAIN seen.files : p # at => seen'.files[p] = seen.files[p]
  BY <1>1, <1>2, StoredTree
<1>7. New'
  BY <1>2, <1>3, <1>4, <1>6 DEF New, IInv, Listed, Renaming
<1>8. Sound'
  BY <1>2, <1>3, <1>6 DEF Sound, IInv, Listed, Renaming, Ended
<1>9. Apart'
  BY <1>2 DEF Apart, IInv
<1>10. QED
  BY <1>5, <1>7, <1>8, <1>9 DEF IInv

LEMMA CopyStep == ASSUME IInv, Shape', Copy PROVE IInv'
<1>1. PICK units : seen' = Stored(seen, work.at, units)
  BY DEF Copy
<1>2. /\ UNCHANGED <<disk, opts>> /\ pc = "copy" /\ out'.files = out.files
      /\ \/ pc' = "copy" /\ work'.at = work.at
         \/ pc' = "next"
  BY PassOverShape DEF Copy, IInv, Shape, WorkShape
<1>3. /\ work.at \in DOMAIN seen.files
      /\ Renaming => /\ work.at \notin DOMAIN disk.dest.files \/ work.at = Manifest
                     /\ \A f \in out.files : f.path # work.at
  BY <1>2 DEF IInv, New
<1>4. Kept' /\ Listed'
  BY <1>1, <1>2, <1>3, StoredKeeps DEF IInv, Renaming
<1>5. /\ DOMAIN seen'.files = DOMAIN seen.files \cup {work.at}
      /\ \A p \in DOMAIN seen.files : p # work.at => seen'.files[p] = seen.files[p]
  BY <1>1, StoredTree
<1>6. New'
  BY <1>2, <1>3, <1>5 DEF New, Renaming
<1>7. Sound'
  BY <1>2, <1>3, <1>5 DEF Sound, IInv, Listed, Renaming, Ended
<1>8. Apart'
  BY <1>2 DEF Apart, IInv
<1>9. QED
  BY <1>4, <1>6, <1>7, <1>8 DEF IInv

LEMMA FinishStep == ASSUME IInv, Shape', Finish PROVE IInv'
<1>1. PICK f : /\ out'.files = out.files \cup {f} /\ f.path = work.at
               /\ f.verified = "yes" => seen.files[work.at] = f.hash
  <2>1. PICK verified \in IF ~opts.verify THEN {"unasked"}
                          ELSE IF ~Intact THEN {"no"}
                          ELSE IF disk.faulty THEN {"yes", "no"} ELSE {"yes"} :
          out' = [out EXCEPT !.files = @ \cup {
                [id |-> work.left[1].id, path |-> work.at, hash |-> work.hash, verified |-> verified,
                 validity |-> IF work.suspect /\ work.left[1].validity = "full" THEN "suspect"
                              ELSE work.left[1].validity]}]
    BY DEF Finish
  <2>2. verified = "yes" => seen.files[work.at] = work.hash
    BY <2>1 DEF Intact
  <2> DEFINE g == [id |-> work.left[1].id, path |-> work.at, hash |-> work.hash, verified |-> verified,
                   validity |-> IF work.suspect /\ work.left[1].validity = "full" THEN "suspect"
                                ELSE work.left[1].validity]
  <2>3. g.path = work.at /\ g.verified = verified /\ g.hash = work.hash
    OBVIOUS
  <2>4. out' = [out EXCEPT !.files = @ \cup {g}]
    BY <2>1
  <2> HIDE DEF g
  <2>5. out'.files = out.files \cup {g}
    BY <2>4 DEF IInv, Shape, OutShape
  <2>6. QED
    BY <2>2, <2>3, <2>5
<1>2. UNCHANGED <<disk, opts, seen>> /\ pc = "copy" /\ pc' = "next"
  BY DEF Finish
<1>3. /\ work.at \in DOMAIN seen.files
      /\ Renaming => \A g \in out.files : g.path # work.at
  BY <1>2 DEF IInv, New
<1>4. Kept' /\ New'
  BY <1>2 DEF IInv, Kept, New
<1>5. Listed'
  BY <1>1, <1>2, <1>3 DEF IInv, Listed, Renaming
<1>6. Sound'
  BY <1>1, <1>2 DEF IInv, Sound, Renaming, Ended
<1>7. Apart'
  BY <1>1, <1>2, <1>3 DEF IInv, Apart, Renaming
<1>8. QED
  BY <1>4, <1>5, <1>6, <1>7 DEF IInv

LEMMA ManifestStep == ASSUME IInv, Shape', WriteManifest PROVE IInv'
<1>1. UNCHANGED <<disk, opts, work, out>> /\ pc' \in {"done", "failed"} /\ pc = "next"
  BY DEF WriteManifest
<1>2. CASE seen' = seen
  BY <1>1, <1>2 DEF IInv, Kept, New, Listed, Sound, Apart, Renaming, Ended
<1>3. CASE \E units : seen' = Stored(seen, Manifest, units)
  <2>1. PICK units : seen' = Stored(seen, Manifest, units)
    BY <1>3
  <2>2. Kept' /\ Listed'
    BY <1>1, <2>1, StoredKeeps DEF IInv
  <2>3. \A p \in DOMAIN seen.files : p # Manifest => seen'.files[p] = seen.files[p]
    BY <2>1, StoredTree
  <2>4. Sound'
    BY <1>1, <2>3 DEF Sound, IInv, Listed, Renaming, Ended
  <2>5. New' /\ Apart'
    BY <1>1 DEF New, Apart, IInv
  <2>6. QED
    BY <2>2, <2>4, <2>5 DEF IInv
<1>4. QED
  BY <1>2, <1>3 DEF WriteManifest

LEMMA IInvStep == IInv /\ [Next]_vars => IInv'
<1> SUFFICES ASSUME IInv, [Next]_vars PROVE IInv'
  OBVIOUS
<1>1. Shape'
  BY ShapeStep DEF IInv
<1>2. CASE Check
  BY <1>1, <1>2, QuietStep DEF Check, Ended
<1>3. CASE Blocked
  BY <1>1, <1>3, QuietStep, PassOverShape DEF Blocked, Ended, IInv
<1>4. CASE NotOpened
  BY <1>1, <1>4, QuietStep, PassOverShape DEF NotOpened, Ended, IInv, Foldered
<1>5. CASE Open
  BY <1>1, <1>5, OpenStep
<1>6. CASE Copy
  BY <1>1, <1>6, CopyStep
<1>7. CASE Finish
  BY <1>1, <1>7, FinishStep
<1>8. CASE WriteManifest
  BY <1>1, <1>8, ManifestStep
<1>9. CASE Preview
  BY <1>1, <1>9, QuietStep DEF Preview, Ended
<1>10. CASE Extract
  BY <1>1, <1>10, QuietStep DEF Extract, Ended, IInv, Shape, OutShape
<1>11. CASE UNCHANGED vars
  BY <1>1, <1>11 DEF vars, IInv, Kept, New, Listed, Sound, Apart, Renaming, Ended
<1>12. QED
  BY <1>2, <1>3, <1>4, <1>5, <1>6, <1>7, <1>8, <1>9, <1>10, <1>11, NextCases

LEMMA IInvAlways == Spec => []IInv
  BY IInvInit, IInvStep, PTL DEF Spec

\* Recovery into a folder that has files already takes nothing from it: under
\* Rename and Skip only the manifest of an earlier recovery is replaced
\* (resolve_collision, and the open with truncate that follows it).
THEOREM KeptAlways == Spec => []Kept
<1>1. IInv => Kept
  BY DEF IInv
<1>2. QED
  BY <1>1, IInvAlways, PTL

\* A file the summary lists is there to the end; when it verified it has what
\* was read from the source, whatever later records are called and whatever the
\* destination does with what is written (verify_file).
THEOREM VerifiedAlways == Spec => []Verified
<1>1. IInv => Verified
  BY DEF IInv, Listed, Sound, Renaming, Verified
<1>2. QED
  BY <1>1, IInvAlways, PTL

\* No two records are written to one file (Rename, "to avoid clobbering").
THEOREM ApartAlways == Spec => []Apart
<1>1. IInv => Apart
  BY DEF IInv
<1>2. QED
  BY <1>1, IInvAlways, PTL

-----------------------------------------------------------------------------
(* What is chosen of a sequence.  kept is a recursive function: that it exists, *)
(* and what it is up to n, follow from the least n for which they would not.    *)
Less == {ss \in Nat \X Nat : ss[1] < ss[2]}

LEMMA LessWellFounded == IsWellFoundedOn(Less, Nat)
BY NatLessThanWellFounded, Zenon DEF OpToRel, Less

LEMMA LeastOf ==
    ASSUME NEW S \in SUBSET Nat, S # {}
    PROVE  \E x \in S : \A y \in S : x <= y
<1>1. PICK x \in S : \A y \in S : <<y, x>> \notin Less
  BY LessWellFounded, WFMin, Zenon
<1>2. \A y \in S : ~(y < x)
  BY <1>1 DEF Less
<1>3. QED
  BY <1>2

\* What is kept of one more element.
More(f, s, S, n) == IF s[n] \in S THEN Append(f[n - 1], s[n]) ELSE f[n - 1]

KeptUpTo(f, s, S, m) == f = [n \in 0 .. m |-> IF n = 0 THEN <<>> ELSE More(f, s, S, n)]

LEMMA KeptExists ==
    ASSUME NEW s, NEW S, Len(s) \in Nat
    PROVE  \E f : KeptUpTo(f, s, S, Len(s))
<1> DEFINE Bad == {m \in 0 .. Len(s) : ~\E f : KeptUpTo(f, s, S, m)}
<1>1. SUFFICES ASSUME Bad # {}
               PROVE  FALSE
  <2>1. Len(s) \in 0 .. Len(s)
    OBVIOUS
  <2>2. QED
    BY <2>1
<1>2. Bad \in SUBSET Nat
  OBVIOUS
<1>3. PICK x \in Bad : \A y \in Bad : x <= y
  BY <1>1, <1>2, LeastOf, Zenon
<1>4. x \in 0 .. Len(s) /\ ~\E f : KeptUpTo(f, s, S, x)
  BY <1>3
<1>5. x # 0
  <2> DEFINE f == [n \in 0 .. 0 |-> <<>>]
  <2>1. \A n \in 0 .. 0 : n = 0
    OBVIOUS
  <2>2. KeptUpTo(f, s, S, 0)
    BY <2>1 DEF KeptUpTo
  <2>3. QED
    BY <1>4, <2>2
<1>6. x - 1 \in 0 .. Len(s) /\ x - 1 \notin Bad
  <2>1. x - 1 \in 0 .. Len(s) /\ ~(x <= x - 1)
    BY <1>4, <1>5
  <2>2. QED
    BY <1>3, <2>1
<1>7. PICK f : KeptUpTo(f, s, S, x - 1)
  BY <1>6
<1> DEFINE g == [n \in 0 .. x |-> IF n = x THEN More(f, s, S, x) ELSE f[n]]
<1>8. KeptUpTo(g, s, S, x)
  <2>1. x \in Nat /\ x > 0
    BY <1>4, <1>5
  <2>2. ASSUME NEW n \in 0 .. x
        PROVE  g[n] = IF n = 0 THEN <<>> ELSE More(g, s, S, n)
    <3>1. n # 0 => g[n - 1] = f[n - 1]
      <4>1. n # 0 => n - 1 \in 0 .. x /\ n - 1 # x
        BY <2>1
      <4>2. QED
        BY <4>1
    <3>2. n # 0 => More(g, s, S, n) = More(f, s, S, n)
      BY <3>1 DEF More
    <3>3. CASE n = x
      BY <2>1, <3>2, <3>3
    <3>4. CASE n # x
      <4>1. n \in 0 .. x - 1
        BY <2>1, <3>4
      <4>2. f[n] = IF n = 0 THEN <<>> ELSE More(f, s, S, n)
        BY <1>7, <4>1 DEF KeptUpTo
      <4>3. g[n] = f[n]
        BY <3>4
      <4>4. QED
        BY <3>2, <4>2, <4>3
    <3>5. QED
      BY <3>3, <3>4
  <2>3. QED
    BY <2>2 DEF KeptUpTo
<1>9. QED
  BY <1>4, <1>8

\* The function Only is the last value of.
LEMMA OnlyIs ==
    ASSUME NEW s, NEW S, Len(s) \in Nat
    PROVE  \E f : KeptUpTo(f, s, S, Len(s)) /\ Only(s, S) = f[Len(s)]
<1> DEFINE kept == CHOOSE f : KeptUpTo(f, s, S, Len(s))
<1>1. Only(s, S) = kept[Len(s)]
  BY DEF Only, KeptUpTo, More
<1>2. KeptUpTo(kept, s, S, Len(s))
  BY KeptExists
<1>3. QED
  BY <1>1, <1>2

\* The elements of o are those of s at the places pos, each of them in S.
Picks(o, s, S, n, pos) ==
    /\ o \in Seq(Elements(s))
    /\ pos \in [1 .. Len(o) -> 1 .. n]
    /\ \A k \in 1 .. Len(o) : o[k] = s[pos[k]] /\ o[k] \in S
    /\ \A k, l \in 1 .. Len(o) : k < l => pos[k] < pos[l]

LEMMA OnlyPicks ==
    ASSUME NEW s, NEW S, s \in Seq(Elements(s))
    PROVE  \E pos : Picks(Only(s, S), s, S, Len(s), pos)
<1>0. Len(s) \in Nat /\ DOMAIN s = 1 .. Len(s) /\ \A i \in 1 .. Len(s) : s[i] \in Elements(s)
  BY DEF Elements
<1>1. PICK f : KeptUpTo(f, s, S, Len(s)) /\ Only(s, S) = f[Len(s)]
  BY <1>0, OnlyIs
<1> DEFINE Bad == {n \in 0 .. Len(s) : ~\E pos : Picks(f[n], s, S, n, pos)}
<1>2. SUFFICES ASSUME Bad # {}
               PROVE  FALSE
  <2>1. Len(s) \in 0 .. Len(s)
    BY <1>0
  <2>2. QED
    BY <1>1, <2>1
<1>3. Bad \in SUBSET Nat
  BY <1>0
<1>4. PICK x \in Bad : \A y \in Bad : x <= y
  BY <1>2, <1>3, LeastOf, Zenon
<1>5. x \in 0 .. Len(s) /\ ~\E pos : Picks(f[x], s, S, x, pos)
  BY <1>4
<1>6. x # 0
  <2>1. 0 \in 0 .. Len(s)
    BY <1>0
  <2>2. f[0] = <<>>
    BY <1>1, <2>1 DEF KeptUpTo
  <2>3. Picks(<<>>, s, S, 0, [k \in 1 .. 0 |-> 0])
    BY DEF Picks
  <2>4. QED
    BY <1>5, <2>2, <2>3
<1>7. x - 1 \in 0 .. Len(s) /\ x - 1 \notin Bad /\ x \in 1 .. Len(s)
  <2>1. x - 1 \in 0 .. Len(s) /\ ~(x <= x - 1) /\ x \in 1 .. Len(s)
    BY <1>0, <1>5, <1>6
  <2>2. QED
    BY <1>4, <2>1
<1>8. PICK pos : Picks(f[x - 1], s, S, x - 1, pos)
  BY <1>7
<1> DEFINE had == f[x - 1]
<1>9. f[x] = IF s[x] \in S THEN Append(had, s[x]) ELSE had
  BY <1>1, <1>5, <1>6 DEF KeptUpTo, More
<1>10. /\ had \in Seq(Elements(s)) /\ Len(had) \in Nat
       /\ pos \in [1 .. Len(had) -> 1 .. x - 1]
       /\ \A k \in 1 .. Len(had) : had[k] = s[pos[k]] /\ had[k] \in S
       /\ \A k, l \in 1 .. Len(had) : k < l => pos[k] < pos[l]
  BY <1>8 DEF Picks
<1> HIDE DEF had
<1>11. CASE s[x] \notin S
  <2>1. pos \in [1 .. Len(had) -> 1 .. x]
    BY <1>7, <1>10
  <2>2. Picks(had, s, S, x, pos)
    BY <1>10, <2>1 DEF Picks
  <2>3. QED
    BY <1>5, <1>9, <1>11, <2>2
<1>12. CASE s[x] \in S
  <2> DEFINE o == Append(had, s[x])
             at == [k \in 1 .. Len(had) + 1 |-> IF k = Len(had) + 1 THEN x ELSE pos[k]]
  <2>1. /\ o \in Seq(Elements(s)) /\ Len(o) = Len(had) + 1
        /\ o[Len(had) + 1] = s[x] /\ \A k \in 1 .. Len(had) : o[k] = had[k]
    BY <1>0, <1>7, <1>10
  <2>2. at \in [1 .. Len(had) + 1 -> 1 .. x]
    BY <1>7, <1>10
  <2>3. ASSUME NEW k \in 1 .. Len(had) + 1
        PROVE  o[k] = s[at[k]] /\ o[k] \in S
    <3>1. CASE k = Len(had) + 1
      BY <1>12, <2>1, <3>1
    <3>2. CASE k # Len(had) + 1
      <4>1. k \in 1 .. Len(had)
        BY <1>10, <3>2
      <4>2. QED
        BY <1>10, <2>1, <3>2, <4>1
    <3>3. QED
      BY <3>1, <3>2
  <2>4. ASSUME NEW k \in 1 .. Len(had) + 1, NEW l \in 1 .. Len(had) + 1, k < l
        PROVE  at[k] < at[l]
    <3>1. k \in 1 .. Len(had) /\ k # Len(had) + 1
      BY <1>10, <2>4
    <3>2. at[k] = pos[k] /\ pos[k] \in 1 .. x - 1
      BY <1>10, <3>1
    <3>3. CASE l = Len(had) + 1
      BY <1>7, <3>2, <3>3
    <3>4. CASE l # Len(had) + 1
      <4>1. l \in 1 .. Len(had) /\ at[l] = pos[l]
        <5>1. l \in 1 .. Len(had)
          BY <1>10, <3>4
        <5>2. QED
          BY <3>4, <5>1
      <4>2. pos[k] < pos[l]
        BY <1>10, <2>4, <3>1, <4>1
      <4>3. QED
        BY <3>2, <4>1, <4>2
    <3>5. QED
      BY <3>3, <3>4
  <2>5. Picks(o, s, S, x, at)
    BY <2>1, <2>2, <2>3, <2>4 DEF Picks
  <2>6. QED
    BY <1>5, <1>9, <1>12, <2>5
<1>13. QED
  BY <1>11, <1>12

-----------------------------------------------------------------------------
(* The units of a file, piece by piece.                                    *)
LEMMA DivMono ==
    ASSUME NEW a \in Nat, NEW b \in Nat, NEW S \in Nat \ {0}, a <= b
    PROVE  a \div S <= b \div S /\ a \div S \in Nat /\ b \div S \in Nat
OBVIOUS

\* A piece of the first extent is the bytes that come next.
LEMMA LaidStep ==
    ASSUME NEW t \in Seq(Nat), NEW todo \in Seq(Nat \X Nat), todo # <<>>,
           NEW ready \in Nat, Laid(t, todo, ready), NEW n \in Nat, n <= todo[1][2]
    PROVE  /\ After(todo, n) \in Seq(Nat \X Nat)
           /\ ready + n <= Len(t)
           /\ \A j \in 1 .. n : t[ready + j] = todo[1][1] + j - 1
           /\ Laid(t, After(todo, n), ready + n)
<1> DEFINE L == Len(todo)
           at == todo[1][1]
           size == todo[1][2]
<1>1. L \in Nat /\ L >= 1 /\ todo[1] \in Nat \X Nat
  OBVIOUS
<1>2. /\ at \in Nat /\ size \in Nat /\ n \in Nat /\ n <= size /\ ready \in Nat
      /\ todo[1][1] = at /\ todo[1][2] = size /\ L = Len(todo)
  BY <1>1
<1>3. PICK ends \in [0 .. L -> 0 .. Len(t)] :
         /\ ends[0] = ready /\ ends[L] = Len(t)
         /\ \A i \in 1 .. L :
             /\ ends[i] = ends[i - 1] + todo[i][2]
             /\ \A j \in 1 .. todo[i][2] : t[ends[i - 1] + j] = todo[i][1] + j - 1
  BY DEF Laid
<1> HIDE DEF L, at, size
<1>4. ends[1] = ready + size /\ \A j \in 1 .. size : t[ready + j] = at + j - 1
  <2>1. 1 \in 1 .. L /\ 1 - 1 = 0
    BY <1>1
  <2>2. QED
    BY <1>2, <1>3, <2>1
<1>5. ready + n <= Len(t) /\ \A j \in 1 .. n : t[ready + j] = at + j - 1
  <2>1. ends[1] \in 0 .. Len(t)
    BY <1>1, <1>3
  <2>2. Len(t) \in Nat /\ \A j \in 1 .. n : j \in 1 .. size
    BY <1>2
  <2>3. ready + n <= Len(t)
    BY <1>2, <1>4, <2>1, <2>2
  <2>4. QED
    BY <1>4, <2>2, <2>3
<1>6. Tail(todo) \in Seq(Nat \X Nat) /\ Len(Tail(todo)) = L - 1 /\ \A i \in 1 .. L - 1 : Tail(todo)[i] = todo[i + 1]
  BY <1>1, <1>2
<1>7. CASE n < size
  <2> DEFINE rest == <<at + n, size - n>>
             after == <<rest>> \o Tail(todo)
  <2>1. rest \in Nat \X Nat /\ rest[1] = at + n /\ rest[2] = size - n
    BY <1>2, <1>7
  <2>2. After(todo, n) = after
    BY <1>2, <1>7 DEF After
  <2> HIDE DEF rest
  <2>3. after \in Seq(Nat \X Nat) /\ Len(after) = L /\ after[1] = rest
    BY <1>1, <1>6, <2>1
  <2>4. \A i \in 2 .. L : after[i] = todo[i]
    <3>1. ASSUME NEW i \in 2 .. L PROVE after[i] = todo[i]
      <4>1. i - 1 \in 1 .. L - 1 /\ (i - 1) + 1 = i
        BY <1>1
      <4>2. after[i] = Tail(todo)[i - 1]
        BY <1>1, <1>6, <2>1
      <4>3. QED
        BY <1>6, <4>1, <4>2
    <3>2. QED
      BY <3>1
  <2> HIDE DEF after
  <2> DEFINE from == [i \in 0 .. L |-> IF i = 0 THEN ready + n ELSE ends[i]]
  <2>5. from \in [0 .. L -> 0 .. Len(t)] /\ from[0] = ready + n /\ from[L] = Len(t)
    BY <1>1, <1>3, <1>5
  <2>6. ASSUME NEW i \in 1 .. L
        PROVE  /\ from[i] = from[i - 1] + after[i][2]
               /\ \A j \in 1 .. after[i][2] : t[from[i - 1] + j] = after[i][1] + j - 1
    <3>1. CASE i = 1
      <4>1. from[i] = ready + size /\ from[i - 1] = ready + n /\ after[i] = rest
        BY <1>1, <1>4, <2>3, <3>1
      <4>2. from[i] = from[i - 1] + after[i][2]
        BY <1>2, <2>1, <4>1
      <4>3. ASSUME NEW j \in 1 .. size - n
            PROVE  t[(ready + n) + j] = (at + n) + j - 1
        <5>1. n + j \in 1 .. size /\ ready + (n + j) = (ready + n) + j /\ at + (n + j) - 1 = (at + n) + j - 1
          BY <1>2
        <5>2. QED
          BY <1>4, <5>1
      <4>4. QED
        BY <2>1, <4>1, <4>2, <4>3
    <3>2. CASE i # 1
      <4>1. i \in 2 .. L /\ i - 1 \in 0 .. L /\ i - 1 # 0
        BY <1>1, <3>2
      <4>2. from[i] = ends[i] /\ from[i - 1] = ends[i - 1] /\ after[i] = todo[i]
        BY <2>4, <4>1
      <4>3. QED
        BY <1>3, <4>2
    <3>3. QED
      BY <3>1, <3>2
  <2> HIDE DEF from
  <2>7. Laid(t, after, ready + n)
    BY <2>3, <2>5, <2>6 DEF Laid
  <2>8. QED
    BY <1>2, <1>5, <2>2, <2>3, <2>7
<1>8. CASE ~(n < size)
  <2> DEFINE after == Tail(todo)
  <2>1. n = size /\ After(todo, n) = after
    BY <1>2, <1>8 DEF After
  <2>tail. after \in Seq(Nat \X Nat) /\ Len(after) = L - 1 /\ \A i \in 1 .. L - 1 : after[i] = todo[i + 1]
    BY <1>6
  <2> HIDE DEF after
  <2> DEFINE from == [i \in 0 .. L - 1 |-> ends[i + 1]]
  <2>2. from \in [0 .. L - 1 -> 0 .. Len(t)] /\ from[0] = ready + n /\ from[L - 1] = Len(t)
    <3>1. from \in [0 .. L - 1 -> 0 .. Len(t)]
      <4>1. \A i \in 0 .. L - 1 : i + 1 \in 0 .. L
        BY <1>1
      <4>2. QED
        BY <1>3, <4>1
    <3>2. 0 \in 0 .. L - 1 /\ L - 1 \in 0 .. L - 1 /\ (L - 1) + 1 = L
      BY <1>1
    <3>3. QED
      BY <1>3, <1>4, <2>1, <3>1, <3>2
  <2>3. ASSUME NEW i \in 1 .. L - 1
        PROVE  /\ from[i] = from[i - 1] + after[i][2]
               /\ \A j \in 1 .. after[i][2] : t[from[i - 1] + j] = after[i][1] + j - 1
    <3>1. i + 1 \in 1 .. L /\ i \in 0 .. L - 1 /\ i - 1 \in 0 .. L - 1 /\ (i + 1) - 1 = i /\ (i - 1) + 1 = i
      BY <1>1
    <3>2. from[i] = ends[i + 1] /\ from[i - 1] = ends[i] /\ after[i] = todo[i + 1]
      BY <2>tail, <3>1
    <3>3. QED
      BY <1>3, <3>1, <3>2
  <2> HIDE DEF from
  <2>4. Laid(t, after, ready + n)
    <3>1. from \in [0 .. Len(after) -> 0 .. Len(t)] /\ from[0] = ready + n /\ from[Len(after)] = Len(t)
      BY <2>tail, <2>2
    <3>2. \A i \in 1 .. Len(after) :
             /\ from[i] = from[i - 1] + after[i][2]
             /\ \A j \in 1 .. after[i][2] : t[from[i - 1] + j] = after[i][1] + j - 1
      BY <2>tail, <2>3
    <3>3. QED
      BY <3>1, <3>2 DEF Laid
  <2>5. QED
    BY <1>2, <1>5, <2>tail, <2>1, <2>4
<1>9. QED
  BY <1>2, <1>5, <1>7, <1>8

\* When no extent is left, all of the file is done.
LEMMA LaidEnd ==
    ASSUME NEW t \in Seq(Nat), NEW todo, NEW ready \in Nat, Laid(t, todo, ready)
    PROVE  ready <= Len(t) /\ (todo = <<>> => ready = Len(t))
<1>1. PICK ends \in [0 .. Len(todo) -> 0 .. Len(t)] : ends[0] = ready /\ ends[Len(todo)] = Len(t)
  BY DEF Laid
<1>2. CASE todo = <<>>
  BY <1>1, <1>2
<1>3. QED
  BY <1>1, <1>2

-----------------------------------------------------------------------------
(* The second invariant: which records are left, how much of the one at hand  *)
(* is copied, and where.                                                      *)
Working == pc \in {"next", "copy"}

Truth(r) == disk.truth[r.id]

Given == disk \in Disks /\ opts \in Requests

\* What is left is the end of what was chosen.
EndOfChosen ==
    Working =>
        /\ opts.op = "recover"
        /\ work.left \in Seq(Elements(disk.records)) /\ Len(work.left) <= Len(Chosen)
        /\ \A i \in 1 .. Len(work.left) : work.left[i] = Chosen[Len(Chosen) - Len(work.left) + i]
        /\ pc = "copy" => work.left # <<>>

\* units are the first of the bytes of t, and todo is where the others are.
CopiedTo(units, t, todo) ==
    /\ units \in Seq(Int) /\ todo \in Seq(Nat \X Nat) /\ Laid(t, todo, Len(units))
    /\ \A k \in 1 .. Len(units) : units[k] = Read(t[k])

\* Only what is past the end of the source is missing.
Whole(units, t) == \A k \in 1 .. Len(units) : units[k] = Zero => t[k] >= disk.len

Copied ==
    /\ pc = "next" => work.hash = <<>>
    /\ pc = "copy" =>
        /\ CopiedTo(work.hash, Truth(work.left[1]), work.todo)
        /\ ~work.suspect => Whole(work.hash, Truth(work.left[1]))

Extracted ==
    /\ pc = "check" => out.preview = <<>>
    /\ pc = "preview" =>
        /\ opts.op = "preview" /\ Chosen # <<>>
        /\ CopiedTo(out.preview, Truth(Chosen[1]), work.todo) /\ Len(out.preview) <= opts.max

\* The files listed are of records before those that are left.
ListedBefore ==
    /\ IsFiniteSet(out.files) /\ out.skipped \in Nat
    /\ pc = "check" => out.files = {} /\ out.skipped = 0
    /\ Working => \A f \in out.files : \E k \in 1 .. Len(Chosen) - Len(work.left) : f.id = Chosen[k].id

\* A run that goes on is not onto the medium it reads.
Elsewhere ==
    /\ pc = "check" => seen = disk.dest
    /\ Working /\ ~opts.sameDevice => disk.media \cap disk.target.media = {}

RInv ==
    /\ Given /\ EndOfChosen /\ Copied /\ Extracted /\ ListedBefore /\ Elsewhere
    /\ Told /\ Accounted /\ Inside /\ Previewed

\* A piece read and added to what was copied.
LEMMA CopiedStep ==
    ASSUME NEW units, NEW t \in Seq(Nat), NEW todo, CopiedTo(units, t, todo), todo # <<>>,
           NEW n \in Nat, n <= todo[1][2]
    PROVE  /\ CopiedTo(units \o Window(todo[1][1], n), t, After(todo, n))
           /\ Len(units \o Window(todo[1][1], n)) = Len(units) + n
           /\ \A k \in 1 .. Len(units) : (units \o Window(todo[1][1], n))[k] = units[k]
           /\ \A k \in Len(units) + 1 .. Len(units) + n :
                t[k] = todo[1][1] + (k - Len(units)) - 1 /\ k \in DOMAIN t
<1> DEFINE off == todo[1][1]
           w == Window(off, n)
           all == units \o w
<1>1. /\ units \in Seq(Int) /\ todo \in Seq(Nat \X Nat) /\ Laid(t, todo, Len(units)) /\ Len(units) \in Nat
      /\ \A k \in 1 .. Len(units) : units[k] = Read(t[k])
  BY DEF CopiedTo
<1>2. /\ After(todo, n) \in Seq(Nat \X Nat) /\ Len(units) + n <= Len(t)
      /\ \A j \in 1 .. n : t[Len(units) + j] = off + j - 1
      /\ Laid(t, After(todo, n), Len(units) + n)
  BY <1>1, LaidStep
<1>3. off \in Nat
  BY <1>1
<1> HIDE DEF off
<1>4. w \in Seq(Int) /\ Len(w) = n /\ \A j \in 1 .. n : w[j] = Read(off + j - 1)
  <2>1. \A j \in 1 .. n : Read(off + j - 1) \in Int
    BY <1>3 DEF Read, Zero
  <2>2. w = [j \in 1 .. n |-> Read(off + j - 1)]
    BY DEF Window
  <2>3. QED
    BY <2>1, <2>2
<1> HIDE DEF w
<1>5. /\ all \in Seq(Int) /\ Len(all) = Len(units) + n
      /\ \A k \in 1 .. Len(units) : all[k] = units[k]
      /\ \A j \in 1 .. n : all[Len(units) + j] = w[j]
  <2>1. all \in Seq(Int) /\ Len(all) = Len(units) + n
    BY <1>1, <1>4, ConcatProperties
  <2>2. \A i \in 1 .. Len(units) + n : all[i] = IF i <= Len(units) THEN units[i] ELSE w[i - Len(units)]
    BY <1>1, <1>4, ConcatProperties
  <2> HIDE DEF all
  <2>3. ASSUME NEW k \in 1 .. Len(units)
        PROVE  all[k] = units[k]
    <3>1. k \in 1 .. Len(units) + n /\ k <= Len(units)
      BY <1>1
    <3>2. QED
      BY <2>2, <3>1
  <2>4. ASSUME NEW j \in 1 .. n
        PROVE  all[Len(units) + j] = w[j]
    <3>1. /\ Len(units) + j \in 1 .. Len(units) + n /\ ~(Len(units) + j <= Len(units))
          /\ (Len(units) + j) - Len(units) = j
      BY <1>1
    <3>2. QED
      BY <2>2, <3>1
  <2>5. QED
    BY <2>1, <2>3, <2>4
<1> HIDE DEF all
<1>6. ASSUME NEW k \in Len(units) + 1 .. Len(units) + n
      PROVE  k - Len(units) \in 1 .. n /\ Len(units) + (k - Len(units)) = k /\ k \in DOMAIN t
  BY <1>1, <1>2
<1>7. \A k \in Len(units) + 1 .. Len(units) + n : t[k] = off + (k - Len(units)) - 1 /\ k \in DOMAIN t
  BY <1>2, <1>6
<1>8. ASSUME NEW k \in 1 .. Len(units) + n
      PROVE  all[k] = Read(t[k])
  <2>1. CASE k \in 1 .. Len(units)
    BY <1>1, <1>5, <2>1
  <2>2. CASE k \in Len(units) + 1 .. Len(units) + n
    <3>1. all[k] = w[k - Len(units)] /\ w[k - Len(units)] = Read(off + (k - Len(units)) - 1)
      BY <1>4, <1>5, <1>6, <2>2
    <3>2. QED
      BY <1>7, <2>2, <3>1
  <2>3. QED
    BY <1>1, <2>1, <2>2
<1>9. CopiedTo(all, t, After(todo, n))
  BY <1>2, <1>5, <1>8 DEF CopiedTo
<1>10. QED
  BY <1>5, <1>7, <1>9 DEF all, w, off

\* A unit of the source that is missing is one whose sector was flagged.
LEMMA WholeStep ==
    ASSUME disk.len \in Nat, Sector \in Nat \ {0},
           NEW units, NEW t \in Seq(Nat), NEW todo, CopiedTo(units, t, todo), todo # <<>>,
           NEW n \in Nat, n <= todo[1][2], Whole(units, t), ~Flagged(todo[1][1], n)
    PROVE  Whole(units \o Window(todo[1][1], n), t)
<1> DEFINE off == todo[1][1]
           all == units \o Window(todo[1][1], n)
<1>1. /\ Len(all) = Len(units) + n
      /\ \A k \in 1 .. Len(units) : all[k] = units[k]
      /\ \A k \in Len(units) + 1 .. Len(units) + n : t[k] = off + (k - Len(units)) - 1 /\ k \in DOMAIN t
      /\ \A k \in 1 .. Len(all) : all[k] = Read(t[k])
      /\ Len(units) \in Nat /\ off \in Nat
  <2>1. CopiedTo(all, t, After(todo, n))
    BY CopiedStep
  <2>2. \A k \in 1 .. Len(all) : all[k] = Read(t[k])
    BY <2>1 DEF CopiedTo
  <2>3. todo \in Seq(Nat \X Nat) /\ Len(units) \in Nat
    BY DEF CopiedTo
  <2>4. QED
    BY <2>2, <2>3, CopiedStep
<1>2. ~Flagged(off, n)
  OBVIOUS
<1> HIDE DEF off, all
<1>3. ASSUME NEW k \in 1 .. Len(units) + n, all[k] = Zero, k \notin 1 .. Len(units)
      PROVE  t[k] >= disk.len
  <2>1. k \in Len(units) + 1 .. Len(units) + n
    BY <1>1, <1>3
  <2>2. t[k] = off + (k - Len(units)) - 1 /\ t[k] \in Nat
    BY <1>1, <2>1
  <2>3. SUFFICES ASSUME t[k] < disk.len PROVE FALSE
    BY <2>2
  <2>4. Read(t[k]) = Zero /\ t[k] # Zero
    BY <1>1, <1>3, <2>2 DEF Zero
  <2>5. t[k] \div Sector \in disk.bad
    BY <2>3, <2>4 DEF Read
  <2>6. n > 0 /\ off < disk.len /\ off <= t[k] /\ t[k] <= off + n - 1
    BY <1>1, <2>1, <2>2, <2>3
  <2>7. /\ off \div Sector <= t[k] \div Sector /\ t[k] \div Sector <= (off + n - 1) \div Sector
        /\ off \div Sector \in Nat /\ t[k] \div Sector \in Nat /\ (off + n - 1) \div Sector \in Nat
    <3>1. off + n - 1 \in Nat
      BY <1>1, <2>6
    <3>2. QED
      BY <1>1, <2>2, <2>6, <3>1, DivMono
  <2>8. t[k] \div Sector \in (off \div Sector) .. ((off + n - 1) \div Sector)
    BY <2>7
  <2>9. Flagged(off, n)
    BY <2>5, <2>6, <2>8 DEF Flagged
  <2>10. QED
    BY <1>2, <2>9
<1>4. ASSUME NEW k \in 1 .. Len(units), all[k] = Zero
      PROVE  t[k] >= disk.len
  BY <1>1, <1>4 DEF Whole
<1>5. Whole(all, t)
  BY <1>1, <1>3, <1>4 DEF Whole
<1>6. QED
  BY <1>5 DEF all

-----------------------------------------------------------------------------
(* What the jobs give.                                                     *)
LEMMA JobFacts ==
    ASSUME JobsOk, Given
    PROVE  /\ disk.len \in Nat /\ RecordsOk(disk) /\ NamesOk(disk) /\ MediaOk(disk)
           /\ opts.max \in Nat /\ Piece \in Nat /\ Sector \in Nat \ {0}
BY DEF JobsOk, Given

\* The records chosen are records of the session, each once.
LEMMA ChosenIs ==
    ASSUME JobsOk, Given
    PROVE  /\ Chosen \in Seq(Elements(disk.records)) /\ Len(Chosen) \in Nat
           /\ \A k, l \in 1 .. Len(Chosen) : k # l => Chosen[k].id # Chosen[l].id
<1> DEFINE s == disk.records
           S == {r \in Elements(s) : r.id \in opts.ids}
           o == Only(s, S)
<1>1. s \in Seq(Elements(s)) /\ \A i, j \in DOMAIN s : s[i].id = s[j].id => i = j
  BY JobFacts DEF RecordsOk
<1>2. o = Chosen
  BY DEF Chosen
<1> HIDE DEF S, s
<1>3. PICK pos : Picks(o, s, S, Len(s), pos)
  BY <1>1, OnlyPicks
<1> HIDE DEF o
<1>4. /\ o \in Seq(Elements(s)) /\ Len(o) \in Nat
      /\ pos \in [1 .. Len(o) -> 1 .. Len(s)]
      /\ \A k \in 1 .. Len(o) : o[k] = s[pos[k]]
      /\ \A k, l \in 1 .. Len(o) : k < l => pos[k] < pos[l]
  BY <1>3 DEF Picks
<1>5. ASSUME NEW k \in 1 .. Len(o), NEW l \in 1 .. Len(o), k # l
      PROVE  o[k].id # o[l].id
  <2>1. pos[k] \in 1 .. Len(s) /\ pos[l] \in 1 .. Len(s) /\ DOMAIN s = 1 .. Len(s)
    BY <1>1, <1>4
  <2>2. pos[k] # pos[l]
    <3>1. k < l \/ l < k
      BY <1>4, <1>5
    <3>2. QED
      BY <1>4, <2>1, <3>1
  <2>3. QED
    BY <1>1, <1>4, <2>1, <2>2
<1>6. QED
  BY <1>2, <1>4, <1>5 DEF s

\* Nothing of a record is copied at first.
LEMMA RecordIs ==
    ASSUME JobsOk, Given, NEW r \in Elements(disk.records)
    PROVE  /\ Truth(r) \in Seq(Nat)
           /\ CopiedTo(<<>>, Truth(r), ExtentsOf(r)) /\ Whole(<<>>, Truth(r))
<1>1. /\ Truth(r) \in Seq(Nat) /\ ExtentsOf(r) \in Seq(Nat \X Nat)
      /\ Laid(Truth(r), ExtentsOf(r), 0)
  BY JobFacts DEF RecordsOk, Truth
<1>2. <<>> \in Seq(Int) /\ Len(<<>>) = 0
  OBVIOUS
<1>3. QED
  BY <1>1, <1>2 DEF CopiedTo, Whole

LEMMA LeftIs ==
    ASSUME JobsOk, Given, EndOfChosen, Working, work.left # <<>>
    PROVE  /\ work.left[1] \in Elements(disk.records) /\ Len(work.left) \in Nat /\ Len(work.left) >= 1
           /\ Len(Chosen) - Len(work.left) + 1 \in 1 .. Len(Chosen)
           /\ work.left[1] = Chosen[Len(Chosen) - Len(work.left) + 1]
           /\ Len(Tail(work.left)) = Len(work.left) - 1
           /\ Tail(work.left) \in Seq(Elements(disk.records))
           /\ \A i \in 1 .. Len(Tail(work.left)) : Tail(work.left)[i] = work.left[i + 1]
<1> DEFINE l == work.left
<1>1. /\ l \in Seq(Elements(disk.records)) /\ Len(l) <= Len(Chosen) /\ l # <<>>
      /\ \A i \in 1 .. Len(l) : l[i] = Chosen[Len(Chosen) - Len(l) + i]
  BY DEF EndOfChosen
<1> HIDE DEF l
<1>2. Len(Chosen) \in Nat
  BY ChosenIs
<1>3. Len(l) \in Nat /\ Len(l) >= 1 /\ l[1] \in Elements(disk.records)
  BY <1>1
<1>4. Len(Tail(l)) = Len(l) - 1 /\ Tail(l) \in Seq(Elements(disk.records))
      /\ \A i \in 1 .. Len(Tail(l)) : Tail(l)[i] = l[i + 1]
  BY <1>1
<1>5. Len(Chosen) - Len(l) + 1 \in 1 .. Len(Chosen)
  BY <1>1, <1>2, <1>3
<1>6. 1 \in 1 .. Len(l)
  BY <1>3
<1>7. QED
  BY <1>1, <1>3, <1>4, <1>5, <1>6 DEF l

\* The places of the names written to.
ProperPath(p) == \A i \in DOMAIN p : Proper(p[i])

LEMMA OneName ==
    ASSUME NEW stem, NEW ext
    PROVE  /\ DOMAIN <<[stem |-> stem, tail |-> <<>>, ext |-> ext]>> = {1}
           /\ <<[stem |-> stem, tail |-> <<>>, ext |-> ext]>>[1].stem = stem
OBVIOUS

LEMMA OwnNamesProper == ProperPath(Unnamed) /\ ProperPath(Manifest)
<1>1. "unnamed" \notin Outward /\ "manifest" \notin Outward
  BY Zenon DEF Outward
<1>2. DOMAIN Unnamed = {1} /\ Unnamed[1].stem = "unnamed"
  BY OneName, Zenon DEF Unnamed
<1>3. DOMAIN Manifest = {1} /\ Manifest[1].stem = "manifest"
  BY OneName, Zenon DEF Manifest
<1>4. QED
  BY <1>1, <1>2, <1>3 DEF ProperPath, Proper

LEMMA CleanProper ==
    ASSUME JobsOk, Given, NEW name, Proper(name)
    PROVE  Proper(Clean(name))
BY JobFacts DEF NamesOk, Clean

LEMMA SafePathProper ==
    ASSUME JobsOk, Given, NEW path, NEW flat, path \in Seq(Elements(path))
    PROVE  ProperPath(SafePath(path, flat))
<1> DEFINE S == {c \in Elements(path) : Proper(c)}
           comps == Only(path, S)
           kept == IF flat /\ comps # <<>> THEN <<comps[Len(comps)]>> ELSE comps
<1>1. PICK pos : Picks(comps, path, S, Len(path), pos)
  BY OnlyPicks
<1>2. comps \in Seq(Elements(path)) /\ \A k \in 1 .. Len(comps) : Proper(comps[k])
  BY <1>1 DEF Picks
<1>3. SafePath(path, flat) = IF kept = <<>> THEN Unnamed ELSE [i \in DOMAIN kept |-> Clean(kept[i])]
  BY DEF SafePath
<1> HIDE DEF comps, S
<1>4. \A i \in DOMAIN kept : Proper(kept[i])
  <2>1. CASE flat /\ comps # <<>>
    <3>1. Len(comps) \in 1 .. Len(comps)
      BY <1>2, <2>1
    <3>2. kept = <<comps[Len(comps)]>>
      BY <2>1
    <3>3. QED
      BY <1>2, <3>1, <3>2
  <2>2. CASE ~(flat /\ comps # <<>>)
    BY <1>2, <2>2
  <2>3. QED
    BY <2>1, <2>2
<1> HIDE DEF kept
<1>5. CASE kept = <<>>
  <2>1. SafePath(path, flat) = Unnamed
    BY <1>3, <1>5
  <2>2. ProperPath(Unnamed)
    BY OwnNamesProper
  <2>3. QED
    BY <2>1, <2>2
<1>6. CASE kept # <<>>
  <2>1. SafePath(path, flat) = [i \in DOMAIN kept |-> Clean(kept[i])]
    BY <1>3, <1>6
  <2>2. QED
    BY <1>4, <2>1, CleanProper DEF ProperPath
<1>7. QED
  BY <1>5, <1>6

LEMMA OutPathProper ==
    ASSUME JobsOk, Given, NEW r \in Elements(disk.records)
    PROVE  ProperPath(OutPath(r))
<1>1. SynthPath(r) \in Seq(Elements(SynthPath(r)))
  BY JobFacts DEF NamesOk
<1>2. QED
  BY <1>1, SafePathProper DEF OutPath

LEMMA SuffixedProper ==
    ASSUME NEW path, NEW n, ProperPath(path)
    PROVE  ProperPath(Suffixed(path, n))
<1> DEFINE last == [stem |-> path[Len(path)].stem, tail |-> Append(path[Len(path)].tail, n), ext |-> path[Len(path)].ext]
<1>1. Suffixed(path, n) = [path EXCEPT ![Len(path)] = last]
  BY DEF Suffixed
<1>2. last.stem = path[Len(path)].stem
  OBVIOUS
<1> HIDE DEF last
<1>3. DOMAIN Suffixed(path, n) = DOMAIN path
  BY <1>1
<1>4. ASSUME NEW i \in DOMAIN path
      PROVE  Proper(Suffixed(path, n)[i])
  <2>1. CASE i = Len(path)
    BY <1>1, <1>2, <2>1 DEF ProperPath, Proper
  <2>2. CASE i # Len(path)
    BY <1>1, <2>2 DEF ProperPath
  <2>3. QED
    BY <2>1, <2>2
<1>5. QED
  BY <1>3, <1>4 DEF ProperPath

-----------------------------------------------------------------------------
(* The steps.                                                              *)
LEMMA RInvInit == JobsOk /\ Init => RInv
<1> SUFFICES ASSUME JobsOk, Init PROVE RInv
  OBVIOUS
<1>1. /\ pc = "check" /\ Given /\ out.files = {} /\ out.skipped = 0 /\ out.preview = <<>>
      /\ seen = [files |-> disk.dest.files, dirs |-> disk.dest.dirs]
  BY DEF Init, Given
<1>2. seen = disk.dest /\ \A p \in DOMAIN disk.dest.files : ProperPath(p)
  BY <1>1, JobFacts DEF NamesOk, ProperPath
<1>3. Inside /\ Elsewhere
  BY <1>1, <1>2 DEF Inside, Elsewhere, Working, ProperPath
<1>4. EndOfChosen /\ Copied /\ Extracted /\ ListedBefore
  BY <1>1, FS_EmptySet DEF EndOfChosen, Copied, Extracted, ListedBefore, Working
<1>5. Told /\ Accounted /\ Previewed
  BY <1>1 DEF Told, Accounted, Previewed
<1>6. QED
  BY <1>1, <1>3, <1>4, <1>5 DEF RInv

\* The jobs and what is asked of them do not change.
LEMMA Fixed ==
    ASSUME [Next]_vars
    PROVE  disk' = disk /\ opts' = opts
BY DEF Next, vars, Check, Blocked, NotOpened, Open, Copy, Finish, WriteManifest, Preview, Extract

\* Files with names inside the destination are added, in a run that goes on.
LEMMA AddsInside ==
    ASSUME RInv, disk' = disk, opts' = opts, Working, pc' # "check",
           \A p \in DOMAIN seen'.files : p \in DOMAIN seen.files \/ ProperPath(p)
    PROVE  Inside' /\ Elsewhere'
BY DEF RInv, Inside, Elsewhere, Working, ProperPath

\* A step that lists nothing and adds nothing to a copy.
LEMMA EndStep ==
    ASSUME RInv, disk' = disk, opts' = opts, seen' = seen, out' = out,
           pc' \in {"refused", "failed"}
    PROVE  RInv'
<1>1. Inside' /\ Elsewhere' /\ Given'
  BY DEF RInv, Inside, Elsewhere, Working, Given
<1>2. EndOfChosen' /\ Copied' /\ Extracted' /\ ListedBefore'
  BY DEF RInv, EndOfChosen, Copied, Extracted, ListedBefore, Working
<1>3. Told' /\ Accounted' /\ Previewed'
  BY DEF RInv, Told, Accounted, Previewed
<1>4. QED
  BY <1>1, <1>2, <1>3 DEF RInv

LEMMA IdleWith ==
    ASSUME NEW l
    PROVE  /\ [Idle EXCEPT !.left = l].left = l /\ [Idle EXCEPT !.left = l].hash = <<>>
           /\ [Idle EXCEPT !.todo = l].todo = l
BY DEF Idle

LEMMA CheckR == ASSUME JobsOk, RInv, Check PROVE RInv'
<1>1. disk' = disk /\ opts' = opts /\ seen' = seen /\ out' = out /\ pc = "check" /\ opts.op = "recover"
  BY DEF Check
<1>2. CASE pc' \in {"refused", "failed"}
  BY <1>1, <1>2, EndStep
<1>3. CASE pc' = "next"
  <2>1. work' = [Idle EXCEPT !.left = Chosen] /\ Chosen # <<>> /\ Opens /\ (opts.sameDevice \/ ~Refused)
    BY <1>3 DEF Check
  <2>2. work'.left = Chosen /\ work'.hash = <<>> /\ Chosen' = Chosen
    BY <1>1, <2>1, IdleWith DEF Chosen
  <2>3. Chosen \in Seq(Elements(disk.records)) /\ Len(Chosen) \in Nat
    BY ChosenIs DEF RInv
  <2>4. EndOfChosen'
    BY <1>1, <1>3, <2>2, <2>3 DEF EndOfChosen
  <2>5. out.files = {} /\ out.skipped = 0
    BY <1>1 DEF RInv, ListedBefore
  <2>6. Accounted' /\ ListedBefore'
    BY <1>1, <1>3, <2>2, <2>3, <2>5, FS_EmptySet DEF Accounted, ListedBefore
  <2>7. Told' /\ Copied' /\ Extracted' /\ Previewed' /\ Given'
    BY <1>1, <1>3, <2>2, <2>5 DEF Told, Copied, Extracted, Previewed, Given, RInv
  <2>8. ~opts.sameDevice => disk.media \cap disk.target.media = {}
    <3> DEFINE inner == SourceOf(disk.source)
    <3>1. SUFFICES ASSUME ~opts.sameDevice PROVE disk.media \cap disk.target.media = {}
      OBVIOUS
    <3>2. inner # <<>> /\ ~SameDisk(inner[1], disk.target)
      BY <2>1, <3>1 DEF Opens, Refused
    <3>3. inner[1] \in Elements(inner)
      <4>1. inner \in Seq(Elements(inner))
        BY JobFacts, Zenon DEF MediaOk, RInv
      <4>2. QED
        BY <3>2, <4>1 DEF Elements
    <3>4. \/ /\ inner[1].kind = "device"
             /\ inner[1].named /\ disk.target.whole # "" =>
                  /\ disk.media \subseteq PhysicalSet(disk.stores, inner[1].whole)
                  /\ disk.target.media \subseteq PhysicalSet(disk.stores, disk.target.whole)
          \/ /\ inner[1].kind = "image"
             /\ disk.media \cap disk.target.media # {} => inner[1].fs = disk.target.fs /\ disk.target.fs # ""
      BY <3>3, JobFacts, Zenon DEF MediaOk, RInv
    <3> HIDE DEF inner
    <3>5. CASE inner[1].kind = "device"
      <4>1. inner[1].kind # "image"
        BY <3>5
      <4>2. ~(\/ ~inner[1].named \/ disk.target.whole = ""
              \/ PhysicalSet(disk.stores, inner[1].whole) \cap PhysicalSet(disk.stores, disk.target.whole) # {})
        BY <3>2, <3>5, <4>1, Zenon DEF SameDisk
      <4>3. QED
        BY <3>4, <4>1, <4>2, Zenon
    <3>6. CASE inner[1].kind = "image"
      <4>1. ~(inner[1].fs = disk.target.fs /\ disk.target.fs # "")
        BY <3>2, <3>6, Zenon DEF SameDisk
      <4>2. inner[1].kind # "device"
        BY <3>6
      <4>3. QED
        BY <3>4, <4>1, <4>2, Zenon
    <3>7. QED
      BY <3>4, <3>5, <3>6, Zenon
  <2>9. seen = disk.dest
    BY <1>1 DEF RInv, Elsewhere
  <2>10. Inside' /\ Elsewhere'
    BY <1>1, <1>3, <2>8, <2>9 DEF RInv, Inside, Elsewhere
  <2>11. QED
    BY <2>4, <2>6, <2>7, <2>10 DEF RInv
<1>4. QED
  BY <1>2, <1>3 DEF Check

\* A record passed over is counted, and the next is at hand.
LEMMA PassOverR ==
    ASSUME JobsOk, RInv, Shape, PassOver, disk' = disk, opts' = opts, Working, work.left # <<>>
    PROVE  /\ Given' /\ EndOfChosen' /\ Copied' /\ Extracted' /\ ListedBefore'
           /\ Told' /\ Accounted' /\ Previewed'
<1>1. /\ pc' = "next" /\ work' = [Idle EXCEPT !.left = Tail(work.left)]
      /\ out' = [out EXCEPT !.skipped = @ + 1]
  BY DEF PassOver
<1>2. work'.left = Tail(work.left) /\ work'.hash = <<>> /\ Chosen' = Chosen
  BY <1>1, IdleWith DEF Chosen
<1>3. out'.files = out.files /\ out'.skipped = out.skipped + 1
  BY <1>1 DEF Shape, OutShape
<1> DEFINE l == work.left
           tail == Tail(work.left)
<1>4. /\ Len(Chosen) \in Nat /\ Len(l) \in Nat /\ Len(l) >= 1 /\ Len(l) <= Len(Chosen)
      /\ Len(tail) = Len(l) - 1 /\ tail \in Seq(Elements(disk.records))
      /\ \A i \in 1 .. Len(tail) : tail[i] = l[i + 1]
      /\ \A i \in 1 .. Len(l) : l[i] = Chosen[Len(Chosen) - Len(l) + i]
      /\ opts.op = "recover"
  BY LeftIs, ChosenIs DEF RInv, EndOfChosen
<1>5. work'.left = tail
  BY <1>2
<1>6. Cardinality(out.files) + out.skipped + Len(l) = Len(Chosen) /\ out.skipped \in Nat
  BY DEF RInv, Accounted, ListedBefore, Working
<1>7. Cardinality(out.files) \in Nat
  BY FS_CardinalityType DEF RInv, ListedBefore
<1>8. \A f \in out.files : \E k \in 1 .. Len(Chosen) - Len(l) : f.id = Chosen[k].id
  BY DEF RInv, ListedBefore
<1> HIDE DEF l, tail
<1>9. EndOfChosen'
  <2>1. Len(tail) <= Len(Chosen)
    BY <1>4
  <2>2. ASSUME NEW i \in 1 .. Len(tail)
        PROVE  tail[i] = Chosen[Len(Chosen) - Len(tail) + i]
    <3>1. i + 1 \in 1 .. Len(l) /\ Len(Chosen) - Len(l) + (i + 1) = Len(Chosen) - Len(tail) + i
      BY <1>4
    <3>2. tail[i] = l[i + 1]
      BY <1>4
    <3>3. l[i + 1] = Chosen[Len(Chosen) - Len(l) + (i + 1)]
      BY <1>4, <3>1
    <3>4. QED
      BY <3>1, <3>2, <3>3
  <2>3. QED
    BY <1>1, <1>2, <1>4, <1>5, <2>1, <2>2 DEF EndOfChosen
<1>10. Accounted'
  <2>1. Cardinality(out.files) + (out.skipped + 1) + Len(tail) = Len(Chosen)
    BY <1>4, <1>6, <1>7
  <2>2. (Cardinality(out.files) + out.skipped + Len(work.left) = Len(Chosen))'
    BY <1>2, <1>3, <1>5, <2>1
  <2>3. QED
    BY <2>2 DEF Accounted
<1>11. ListedBefore'
  <2>1. \A k \in 1 .. Len(Chosen) - Len(l) : k \in 1 .. Len(Chosen) - Len(tail)
    BY <1>4
  <2>2. \A f \in out.files : \E k \in 1 .. Len(Chosen) - Len(tail) : f.id = Chosen[k].id
    BY <1>8, <2>1
  <2>3. IsFiniteSet(out.files)
    BY DEF RInv, ListedBefore
  <2>4. QED
    BY <1>1, <1>2, <1>3, <1>5, <1>6, <2>2, <2>3 DEF ListedBefore
<1>12. Given' /\ Copied' /\ Extracted' /\ Told' /\ Previewed'
  BY <1>1, <1>2, <1>3 DEF RInv, Given, Copied, Extracted, Told, Previewed
<1>13. QED
  BY <1>9, <1>10, <1>11, <1>12

LEMMA BlockedR == ASSUME JobsOk, RInv, Shape, Blocked PROVE RInv'
<1>1. disk' = disk /\ opts' = opts /\ seen' = seen /\ PassOver /\ Working /\ work.left # <<>> /\ pc' = "next"
  BY DEF Blocked, Working, PassOver
<1>2. Inside' /\ Elsewhere'
  BY <1>1, AddsInside
<1>3. QED
  BY <1>1, <1>2, PassOverR DEF RInv

LEMMA NotOpenedR == ASSUME JobsOk, RInv, Shape, NotOpened PROVE RInv'
<1>1. disk' = disk /\ opts' = opts /\ seen' = Foldered /\ PassOver /\ Working /\ work.left # <<>> /\ pc' = "next"
  BY DEF NotOpened, Working, PassOver
<1>2. seen'.files = seen.files
  BY <1>1 DEF Foldered
<1>3. Inside' /\ Elsewhere'
  BY <1>1, <1>2, AddsInside
<1>4. QED
  BY <1>1, <1>3, PassOverR DEF RInv

LEMMA OpenR == ASSUME JobsOk, RInv, Shape, Open PROVE RInv'
<1> DEFINE r == work.left[1]
<1>1. PICK at \in {OutPath(r)} \cup {Suffixed(OutPath(r), n) : n \in 1 .. MaxSuffix} :
         /\ seen' = Stored(Foldered, at, <<>>)
         /\ work' = [work EXCEPT !.at = at, !.todo = ExtentsOf(r)]
  BY DEF Open
<1>2. /\ disk' = disk /\ opts' = opts /\ out' = out /\ pc = "next" /\ pc' = "copy" /\ work.left # <<>>
      /\ Working /\ Given /\ EndOfChosen
  BY DEF Open, Working, RInv
<1>3. r \in Elements(disk.records)
  BY <1>2, LeftIs
<1>4. ProperPath(at)
  BY <1>1, <1>2, <1>3, OutPathProper, SuffixedProper
<1>5. DOMAIN seen'.files = DOMAIN seen.files \cup {at}
  BY <1>1, StoredTree DEF Foldered
<1>6. Inside' /\ Elsewhere'
  BY <1>2, <1>4, <1>5, AddsInside
<1>7. work'.left = work.left /\ work'.todo = ExtentsOf(r) /\ work'.hash = work.hash /\ work'.suspect = work.suspect
  BY <1>1 DEF Shape, WorkShape
<1>8. Chosen' = Chosen
  BY <1>2 DEF Chosen
<1>9. EndOfChosen' /\ ListedBefore' /\ Accounted'
  BY <1>2, <1>7, <1>8 DEF RInv, EndOfChosen, ListedBefore, Accounted, Working
<1>10. Copied'
  <2>1. work.hash = <<>>
    BY <1>2 DEF RInv, Copied
  <2>2. CopiedTo(<<>>, Truth(r), ExtentsOf(r)) /\ Whole(<<>>, Truth(r))
    BY <1>2, <1>3, RecordIs
  <2>3. Truth(work.left[1])' = Truth(r) /\ work'.todo = ExtentsOf(r) /\ work'.hash = <<>>
    BY <1>2, <1>7, <2>1 DEF Truth
  <2>4. CopiedTo(work.hash, Truth(work.left[1]), work.todo)'
    BY <1>2, <2>2, <2>3 DEF CopiedTo, Read
  <2>5. Whole(work.hash, Truth(work.left[1]))'
    BY <1>2, <2>2, <2>3 DEF Whole
  <2>6. QED
    BY <1>2, <2>4, <2>5 DEF Copied
<1>11. Given' /\ Extracted' /\ Told' /\ Previewed'
  BY <1>2 DEF RInv, Given, Extracted, Told, Previewed
<1>12. QED
  BY <1>6, <1>9, <1>10, <1>11 DEF RInv

\* The piece copied next is no longer than its extent.
LEMMA PieceFits ==
    ASSUME NEW todo \in Seq(Nat \X Nat), todo # <<>>, NEW most \in Nat
    PROVE  Smaller(most, todo[1][2]) \in Nat /\ Smaller(most, todo[1][2]) <= todo[1][2]
           /\ Smaller(most, todo[1][2]) <= most
<1>1. todo[1][2] \in Nat
  OBVIOUS
<1>2. QED
  BY <1>1 DEF Smaller

LEMMA CopyR == ASSUME JobsOk, RInv, Shape, New, Copy PROVE RInv'
<1> DEFINE off == work.todo[1][1]
           n == Smaller(Piece, work.todo[1][2])
           w == Window(off, n)
           r == work.left[1]
           t == Truth(r)
<1>1. /\ disk' = disk /\ opts' = opts /\ pc = "copy" /\ work.todo # <<>> /\ Working /\ Given /\ EndOfChosen
      /\ work.left # <<>>
  BY DEF Copy, Working, RInv, EndOfChosen
<1>2. work.at \in DOMAIN seen.files
  BY <1>1 DEF New
<1>3. PICK units : seen' = Stored(seen, work.at, units)
  BY DEF Copy
<1>4. DOMAIN seen'.files = DOMAIN seen.files
  BY <1>2, <1>3, StoredTree
<1>5. CASE PassOver
  <2>1. pc' = "next"
    BY <1>5 DEF PassOver
  <2>2. Inside' /\ Elsewhere'
    BY <1>1, <1>4, <2>1, AddsInside
  <2>3. QED
    BY <1>1, <1>5, <2>2, PassOverR DEF RInv
<1>6. CASE /\ work' = [work EXCEPT !.todo = After(@, n), !.hash = @ \o w, !.suspect = @ \/ Flagged(off, n)]
           /\ UNCHANGED <<pc, out>>
  <2>1. /\ work'.left = work.left /\ work'.todo = After(work.todo, n) /\ work'.hash = work.hash \o w
        /\ work'.suspect = (work.suspect \/ Flagged(off, n)) /\ pc' = pc /\ out' = out
    BY <1>6 DEF Shape, WorkShape
  <2>2. Inside' /\ Elsewhere'
    BY <1>1, <1>4, <2>1, AddsInside
  <2>3. Chosen' = Chosen
    BY <1>1 DEF Chosen
  <2>4. EndOfChosen' /\ ListedBefore' /\ Accounted'
    BY <1>1, <2>1, <2>3 DEF RInv, EndOfChosen, ListedBefore, Accounted, Working
  <2>5. Given' /\ Extracted' /\ Told' /\ Previewed'
    BY <1>1, <2>1 DEF RInv, Given, Extracted, Told, Previewed
  <2>6. r \in Elements(disk.records)
    BY <1>1, LeftIs
  <2>7. t \in Seq(Nat)
    BY <1>1, <2>6, RecordIs
  <2>8. CopiedTo(work.hash, t, work.todo) /\ (~work.suspect => Whole(work.hash, t))
    BY <1>1 DEF RInv, Copied
  <2>9. n \in Nat /\ n <= work.todo[1][2]
    BY <1>1, <2>8, PieceFits, JobFacts DEF CopiedTo
  <2> HIDE DEF n
  <2>10. CopiedTo(work.hash \o w, t, After(work.todo, n))
    BY <1>1, <2>7, <2>8, <2>9, CopiedStep
  <2>11. ~work.suspect /\ ~Flagged(off, n) => Whole(work.hash \o w, t)
    BY <1>1, <2>7, <2>8, <2>9, WholeStep, JobFacts
  <2> HIDE DEF w, off
  <2>12. Truth(work.left[1])' = t
    BY <1>1, <2>1 DEF Truth
  <2> HIDE DEF t, r
  <2>13. CopiedTo(work.hash, Truth(work.left[1]), work.todo)'
    BY <1>1, <2>1, <2>10, <2>12 DEF CopiedTo, Read
  <2>14. ~work'.suspect => Whole(work.hash, Truth(work.left[1]))'
    BY <1>1, <2>1, <2>11, <2>12 DEF Whole
  <2>15. Copied'
    BY <1>1, <2>1, <2>13, <2>14 DEF Copied
  <2>16. QED
    BY <2>2, <2>4, <2>5, <2>15 DEF RInv
<1>7. QED
  BY <1>5, <1>6 DEF Copy

LEMMA FinishR == ASSUME JobsOk, RInv, Shape, Finish PROVE RInv'
<1> DEFINE r == work.left[1]
           t == Truth(r)
           l == work.left
           tail == Tail(work.left)
<1>1. PICK g : /\ out' = [out EXCEPT !.files = @ \cup {g}]
               /\ g.id = r.id /\ g.hash = work.hash
               /\ g.validity = "full" => ~work.suspect
  <2>1. PICK verified \in IF ~opts.verify THEN {"unasked"}
                          ELSE IF ~Intact THEN {"no"}
                          ELSE IF disk.faulty THEN {"yes", "no"} ELSE {"yes"} :
          out' = [out EXCEPT !.files = @ \cup {
                [id |-> r.id, path |-> work.at, hash |-> work.hash, verified |-> verified,
                 validity |-> IF work.suspect /\ r.validity = "full" THEN "suspect" ELSE r.validity]}]
    BY DEF Finish
  <2> DEFINE g == [id |-> r.id, path |-> work.at, hash |-> work.hash, verified |-> verified,
                   validity |-> IF work.suspect /\ r.validity = "full" THEN "suspect" ELSE r.validity]
  <2>2. g.id = r.id /\ g.hash = work.hash
    OBVIOUS
  <2>3. g.validity = "full" => ~work.suspect
    <3>1. g.validity = IF work.suspect /\ r.validity = "full" THEN "suspect" ELSE r.validity
      OBVIOUS
    <3> HIDE DEF g
    <3>2. QED
      BY <3>1
  <2>4. out' = [out EXCEPT !.files = @ \cup {g}]
    BY <2>1
  <2> HIDE DEF g
  <2>5. QED
    BY <2>2, <2>3, <2>4
<1>2. out'.files = out.files \cup {g} /\ out'.skipped = out.skipped
  BY <1>1 DEF Shape, OutShape
<1>3. /\ disk' = disk /\ opts' = opts /\ seen' = seen /\ pc = "copy" /\ pc' = "next" /\ work.todo = <<>>
      /\ work' = [Idle EXCEPT !.left = Tail(work.left)] /\ Working /\ Given /\ EndOfChosen /\ work.left # <<>>
  BY DEF Finish, Working, RInv, EndOfChosen
<1>4. work'.left = tail /\ work'.hash = <<>> /\ Chosen' = Chosen
  BY <1>3, IdleWith DEF Chosen
<1>5. /\ Len(Chosen) \in Nat /\ Len(l) \in Nat /\ Len(l) >= 1 /\ Len(l) <= Len(Chosen)
      /\ Len(tail) = Len(l) - 1 /\ tail \in Seq(Elements(disk.records))
      /\ \A i \in 1 .. Len(tail) : tail[i] = l[i + 1]
      /\ \A i \in 1 .. Len(l) : l[i] = Chosen[Len(Chosen) - Len(l) + i]
      /\ opts.op = "recover"
      /\ Len(Chosen) - Len(l) + 1 \in 1 .. Len(Chosen)
      /\ r = Chosen[Len(Chosen) - Len(l) + 1] /\ r \in Elements(disk.records)
  BY <1>3, LeftIs, ChosenIs DEF EndOfChosen
<1>6. t \in Seq(Nat) /\ CopiedTo(work.hash, t, work.todo) /\ (~work.suspect => Whole(work.hash, t))
  BY <1>3, <1>5, RecordIs DEF RInv, Copied
<1>7. t = disk.truth[g.id]
  BY <1>1 DEF Truth
<1>8. /\ Cardinality(out.files) + out.skipped + Len(l) = Len(Chosen) /\ out.skipped \in Nat
      /\ IsFiniteSet(out.files)
      /\ \A f \in out.files : \E k \in 1 .. Len(Chosen) - Len(l) : f.id = Chosen[k].id
  BY <1>3 DEF RInv, Accounted, ListedBefore
<1>9. Told /\ Given /\ Inside /\ Elsewhere
  BY DEF RInv
<1> HIDE DEF l, tail, t, r
<1>10. EndOfChosen'
  <2>1. Len(tail) <= Len(Chosen)
    BY <1>5
  <2>2. ASSUME NEW i \in 1 .. Len(tail)
        PROVE  tail[i] = Chosen[Len(Chosen) - Len(tail) + i]
    <3>1. i + 1 \in 1 .. Len(l) /\ Len(Chosen) - Len(l) + (i + 1) = Len(Chosen) - Len(tail) + i
      BY <1>5
    <3>2. tail[i] = l[i + 1]
      BY <1>5
    <3>3. l[i + 1] = Chosen[Len(Chosen) - Len(l) + (i + 1)]
      BY <1>5, <3>1
    <3>4. QED
      BY <3>1, <3>2, <3>3
  <2>3. QED
    BY <1>3, <1>4, <1>5, <2>1, <2>2 DEF EndOfChosen
<1>11. ListedBefore'
  <2>1. ASSUME NEW f \in out.files \cup {g}
        PROVE  \E k \in 1 .. Len(Chosen) - Len(tail) : f.id = Chosen[k].id
    <3>1. CASE f \in out.files
      <4>1. PICK k \in 1 .. Len(Chosen) - Len(l) : f.id = Chosen[k].id
        BY <1>8, <3>1
      <4>2. k \in 1 .. Len(Chosen) - Len(tail)
        BY <1>5
      <4>3. QED
        BY <4>1, <4>2
    <3>2. CASE f = g
      <4>1. Len(Chosen) - Len(l) + 1 \in 1 .. Len(Chosen) - Len(tail)
        BY <1>5
      <4>2. QED
        BY <1>1, <1>5, <3>2, <4>1
    <3>3. QED
      BY <3>1, <3>2
  <2>2. IsFiniteSet(out.files \cup {g})
    BY <1>8, FS_AddElement
  <2>3. QED
    BY <1>2, <1>3, <1>4, <1>8, <2>1, <2>2 DEF ListedBefore
<1>12. g \notin out.files
  <2>1. SUFFICES ASSUME g \in out.files PROVE FALSE
    OBVIOUS
  <2>2. PICK k \in 1 .. Len(Chosen) - Len(l) : g.id = Chosen[k].id
    BY <1>8, <2>1
  <2>3. k \in 1 .. Len(Chosen) /\ k # Len(Chosen) - Len(l) + 1
    BY <1>5
  <2>4. Chosen[k].id # Chosen[Len(Chosen) - Len(l) + 1].id
    BY <1>3, <1>5, <2>3, ChosenIs
  <2>5. QED
    BY <1>1, <1>5, <2>2, <2>4
<1>13. Accounted'
  <2>1. Cardinality(out.files \cup {g}) = Cardinality(out.files) + 1
    BY <1>8, <1>12, FS_AddElement
  <2>2. Cardinality(out.files) \in Nat
    BY <1>8, FS_CardinalityType
  <2>3. Len(tail) = Len(l) - 1 /\ Len(l) \in Nat
    BY <1>5
  <2>4. Cardinality(out.files) + out.skipped + Len(l) = Len(Chosen) /\ out.skipped \in Nat
    BY <1>8
  <2>5. (Cardinality(out.files) + 1) + out.skipped + Len(tail) = Len(Chosen)
    BY <2>2, <2>3, <2>4
  <2>6. Cardinality(out'.files) + out'.skipped + Len(work'.left) = Len(Chosen')
    BY <1>2, <1>4, <2>1, <2>5
  <2>7. QED
    BY <2>6 DEF Accounted
<1>14. Told'
  <2>1. Len(g.hash) = Len(t)
    BY <1>1, <1>3, <1>6, LaidEnd DEF CopiedTo
  <2>2. \A k \in DOMAIN t : g.hash[k] = Read(t[k]) /\ t[k] \in Nat /\ k \in 1 .. Len(g.hash)
    BY <1>1, <1>6, <2>1 DEF CopiedTo
  <2>3. \A k \in DOMAIN t : g.hash[k] = t[k] \/ g.hash[k] = Zero
    BY <2>2 DEF Read
  <2>4. g.validity = "full" => \A k \in DOMAIN t : g.hash[k] = Zero => t[k] >= disk.len
    BY <1>1, <1>6, <2>2 DEF Whole
  <2>5. QED
    BY <1>2, <1>3, <1>7, <1>9, <2>1, <2>3, <2>4 DEF Told
<1>15. Inside' /\ Elsewhere'
  BY <1>3, AddsInside
<1>16. Given' /\ Copied' /\ Extracted' /\ Previewed'
  BY <1>3, <1>4, <1>9 DEF Given, Copied, Extracted, Previewed
<1>17. QED
  BY <1>10, <1>11, <1>13, <1>14, <1>15, <1>16 DEF RInv

LEMMA ManifestR == ASSUME JobsOk, RInv, Shape, WriteManifest PROVE RInv'
<1>1. /\ disk' = disk /\ opts' = opts /\ out' = out /\ work' = work /\ pc = "next" /\ pc' \in {"done", "failed"}
      /\ Working /\ opts.op = "recover"
  BY DEF WriteManifest, Working, RInv, EndOfChosen
<1>2. \A p \in DOMAIN seen'.files : p \in DOMAIN seen.files \/ ProperPath(p)
  <2>1. CASE seen' = seen
    BY <2>1
  <2>2. CASE \E units : seen' = Stored(seen, Manifest, units)
    <3>1. DOMAIN seen'.files = DOMAIN seen.files \cup {Manifest}
      BY <2>2, StoredTree
    <3>2. QED
      BY <3>1, OwnNamesProper
  <2>3. QED
    BY <2>1, <2>2 DEF WriteManifest
<1>3. Inside' /\ Elsewhere'
  BY <1>1, <1>2, AddsInside
<1>4. EndOfChosen' /\ Copied' /\ Extracted' /\ ListedBefore'
  BY <1>1 DEF RInv, EndOfChosen, Copied, Extracted, ListedBefore, Working
<1>5. Told' /\ Accounted' /\ Previewed' /\ Given'
  <2>1. opts.op # "preview"
    BY <1>1
  <2>2. QED
    BY <1>1, <2>1 DEF RInv, Told, Accounted, Previewed, Given
<1>6. QED
  BY <1>3, <1>4, <1>5 DEF RInv

LEMMA PreviewR == ASSUME JobsOk, RInv, Preview PROVE RInv'
<1>1. /\ disk' = disk /\ opts' = opts /\ seen' = seen /\ out' = out /\ pc = "check" /\ opts.op = "preview" /\ Given
  BY DEF Preview, RInv
<1>2. CASE pc' = "failed"
  BY <1>1, <1>2, EndStep
<1>3. CASE pc' = "preview"
  <2>1. Chosen # <<>> /\ work' = [Idle EXCEPT !.todo = ExtentsOf(Chosen[1])]
    BY <1>3 DEF Preview
  <2>2. work'.todo = ExtentsOf(Chosen[1]) /\ Chosen' = Chosen
    BY <1>1, <2>1, IdleWith DEF Chosen
  <2>3. Chosen[1] \in Elements(disk.records)
    BY <1>1, <2>1, ChosenIs
  <2>4. CopiedTo(<<>>, Truth(Chosen[1]), ExtentsOf(Chosen[1])) /\ out.preview = <<>>
    BY <1>1, <2>3, RecordIs DEF RInv, Extracted
  <2>5. Truth(Chosen[1])' = Truth(Chosen[1]) /\ out'.preview = <<>>
    BY <1>1, <2>2, <2>4 DEF Truth
  <2>6. CopiedTo(out.preview, Truth(Chosen[1]), work.todo)'
    BY <1>1, <2>2, <2>4, <2>5 DEF CopiedTo, Read
  <2>7. Len(out'.preview) <= opts.max
    BY <1>1, <2>5, JobFacts
  <2>8. Extracted'
    BY <1>1, <1>3, <2>1, <2>2, <2>6, <2>7 DEF Extracted
  <2>9. Inside' /\ Elsewhere' /\ Given' /\ EndOfChosen' /\ Copied' /\ ListedBefore'
    BY <1>1, <1>3 DEF RInv, Inside, Elsewhere, Working, Given, EndOfChosen, Copied, ListedBefore
  <2>10. Told' /\ Accounted' /\ Previewed'
    BY <1>1, <1>3 DEF RInv, Told, Accounted, Previewed
  <2>11. QED
    BY <2>8, <2>9, <2>10 DEF RInv
<1>4. QED
  BY <1>2, <1>3 DEF Preview

LEMMA SmallerIs ==
    ASSUME NEW a \in Nat, NEW b \in Nat, NEW c \in Nat, c <= a, c <= b, c = a \/ c = b
    PROVE  c = Smaller(a, b)
BY DEF Smaller

LEMMA ExtractR == ASSUME JobsOk, RInv, Shape, Extract PROVE RInv'
<1> DEFINE t == Truth(Chosen[1])
           p == out.preview
           todo == work.todo
<1>1. /\ disk' = disk /\ opts' = opts /\ seen' = seen /\ pc = "preview" /\ Given /\ Chosen' = Chosen
  BY DEF Extract, RInv, Chosen
<1>2. /\ opts.op = "preview" /\ Chosen # <<>> /\ CopiedTo(p, t, todo) /\ Len(p) <= opts.max
  BY <1>1 DEF RInv, Extracted
<1>3. Chosen[1] \in Elements(disk.records)
  BY <1>1, <1>2, ChosenIs
<1>4. t \in Seq(Nat) /\ opts.max \in Nat /\ Piece \in Nat
  BY <1>1, <1>3, RecordIs, JobFacts
<1>5. p \in Seq(Int) /\ todo \in Seq(Nat \X Nat) /\ Laid(t, todo, Len(p)) /\ Len(p) \in Nat
      /\ \A k \in 1 .. Len(p) : p[k] = Read(t[k])
  BY <1>2 DEF CopiedTo
<1>6. t = disk.truth[Chosen[1].id]
  BY DEF Truth
<1>7. CASE todo = <<>> \/ Len(p) >= opts.max
  <2>1. pc' = "done" /\ UNCHANGED <<work, out>>
    BY <1>7 DEF Extract
  <2>2. Len(p) <= Len(t) /\ (todo = <<>> => Len(p) = Len(t))
    BY <1>4, <1>5, LaidEnd
  <2>3. Len(p) = Smaller(opts.max, Len(t))
    <3>1. Len(t) \in Nat /\ opts.max \in Nat /\ Len(p) \in Nat /\ Len(p) <= opts.max
      BY <1>2, <1>4, <1>5
    <3>2. Len(p) = Len(t) \/ Len(p) = opts.max
      BY <1>7, <2>2, <3>1
    <3>3. Len(p) <= Len(t)
      BY <2>2
    <3> HIDE DEF p, t
    <3>4. QED
      BY <3>1, <3>2, <3>3, SmallerIs
  <2>4. p = [k \in 1 .. Len(p) |-> Read(t[k])]
    <3> DEFINE head == [k \in 1 .. Len(p) |-> Read(t[k])]
    <3>1. p \in [1 .. Len(p) -> Int] /\ \A k \in 1 .. Len(p) : p[k] = head[k]
      BY <1>5
    <3>2. head \in [1 .. Len(p) -> Int]
      BY <1>5, <3>1
    <3> HIDE DEF head, p
    <3>3. p = head
      BY <3>1, <3>2
    <3>4. QED
      BY <3>3 DEF head
  <2>5. p = [k \in 1 .. Smaller(opts.max, Len(t)) |-> Read(t[k])]
    BY <2>3, <2>4
  <2> HIDE DEF t
  <2>6. Previewed'
    <3>1. disk'.truth[Chosen'[1].id] = t /\ out'.preview = p /\ opts' = opts
      BY <1>1, <1>6, <2>1
    <3>2. \A k : Read(k)' = Read(k)
      BY <1>1 DEF Read
    <3>3. out'.preview = [k \in 1 .. Smaller(opts'.max, Len(disk'.truth[Chosen'[1].id])) |->
                            Read(disk.truth[Chosen[1].id][k])']
      BY <2>5, <3>1, <3>2
    <3>4. QED
      BY <3>3 DEF Previewed
  <2>7. Inside' /\ Elsewhere' /\ Given' /\ EndOfChosen' /\ Copied' /\ ListedBefore'
    BY <1>1, <2>1 DEF RInv, Inside, Elsewhere, Working, Given, EndOfChosen, Copied, ListedBefore
  <2>8. Told' /\ Accounted' /\ Extracted'
    BY <1>1, <2>1 DEF RInv, Told, Accounted, Extracted
  <2>9. QED
    BY <2>6, <2>7, <2>8 DEF RInv
<1>8. CASE ~(todo = <<>> \/ Len(p) >= opts.max)
  <2> DEFINE most == Smaller(todo[1][2], opts.max - Len(p))
             n == Smaller(Piece, most)
             w == Window(todo[1][1], n)
  <2>1. \/ out' = [out EXCEPT !.preview = @ \o w] /\ work' = [work EXCEPT !.todo = After(@, n)] /\ pc' = pc
        \/ pc' = "failed" /\ UNCHANGED <<work, out>>
    BY <1>8 DEF Extract
  <2>2. CASE pc' = "failed" /\ UNCHANGED <<work, out>>
    BY <1>1, <2>2, EndStep
  <2>3. CASE out' = [out EXCEPT !.preview = @ \o w] /\ work' = [work EXCEPT !.todo = After(@, n)] /\ pc' = pc
    <3>1. /\ out'.preview = p \o w /\ out'.files = out.files /\ out'.skipped = out.skipped
          /\ work'.todo = After(todo, n)
      BY <2>3 DEF Shape, OutShape, WorkShape
    <3>2. n \in Nat /\ n <= todo[1][2] /\ n <= opts.max - Len(p)
      <4>1. todo[1][2] \in Nat /\ opts.max - Len(p) \in Nat
        BY <1>2, <1>4, <1>5, <1>8
      <4>2. most \in Nat /\ most <= todo[1][2] /\ most <= opts.max - Len(p)
        BY <4>1 DEF Smaller
      <4> HIDE DEF most
      <4>3. n \in Nat /\ n <= most
        BY <1>4, <4>2 DEF Smaller
      <4> HIDE DEF n
      <4>4. QED
        BY <4>1, <4>2, <4>3
    <3> HIDE DEF n, most
    <3>3. /\ CopiedTo(p \o w, t, After(todo, n)) /\ Len(p \o w) = Len(p) + n
      <4>1. todo # <<>> /\ CopiedTo(p, t, todo) /\ t \in Seq(Nat)
        BY <1>2, <1>4, <1>8
      <4> HIDE DEF p, t, todo
      <4>2. QED
        BY <3>2, <4>1, CopiedStep
    <3>4. Len(p \o w) <= opts.max
      BY <1>4, <1>5, <3>2, <3>3
    <3> HIDE DEF w
    <3>5. Truth(Chosen[1])' = t
      BY <1>1 DEF Truth
    <3> HIDE DEF t
    <3>6. CopiedTo(out.preview, Truth(Chosen[1]), work.todo)'
      BY <1>1, <3>1, <3>3, <3>5 DEF CopiedTo, Read
    <3>7. Extracted'
      BY <1>1, <1>2, <2>3, <3>1, <3>4, <3>6 DEF Extracted
    <3>8. Inside' /\ Elsewhere' /\ Given' /\ EndOfChosen' /\ Copied' /\ ListedBefore'
      BY <1>1, <2>3, <3>1 DEF RInv, Inside, Elsewhere, Working, Given, EndOfChosen, Copied, ListedBefore
    <3>9. Told' /\ Accounted' /\ Previewed'
      BY <1>1, <2>3, <3>1 DEF RInv, Told, Accounted, Previewed
    <3>10. QED
      BY <3>7, <3>8, <3>9 DEF RInv
  <2>4. QED
    BY <2>1, <2>2, <2>3
<1>9. QED
  BY <1>7, <1>8

LEMMA RInvStep == JobsOk /\ IInv /\ RInv /\ [Next]_vars => RInv'
<1> SUFFICES ASSUME JobsOk, IInv, RInv, [Next]_vars PROVE RInv'
  OBVIOUS
<1>1. Shape /\ New
  BY DEF IInv
<1>2. CASE Check
  BY <1>2, CheckR
<1>3. CASE Blocked
  BY <1>1, <1>3, BlockedR
<1>4. CASE NotOpened
  BY <1>1, <1>4, NotOpenedR
<1>5. CASE Open
  BY <1>1, <1>5, OpenR
<1>6. CASE Copy
  BY <1>1, <1>6, CopyR
<1>7. CASE Finish
  BY <1>1, <1>7, FinishR
<1>8. CASE WriteManifest
  BY <1>1, <1>8, ManifestR
<1>9. CASE Preview
  BY <1>9, PreviewR
<1>10. CASE Extract
  BY <1>1, <1>10, ExtractR
<1>11. CASE UNCHANGED vars
  <2>1. /\ pc' = pc /\ disk' = disk /\ opts' = opts /\ work' = work /\ seen' = seen /\ out' = out
        /\ Chosen' = Chosen
    BY <1>11 DEF vars, Chosen
  <2>2. Given' /\ EndOfChosen' /\ ListedBefore' /\ Elsewhere' /\ Inside'
    BY <2>1 DEF RInv, Given, EndOfChosen, ListedBefore, Elsewhere, Inside, Working
  <2>3. Copied' /\ Extracted'
    BY <2>1 DEF RInv, Copied, Extracted, CopiedTo, Whole, Truth, Read
  <2>4. Told' /\ Accounted'
    BY <2>1 DEF RInv, Told, Accounted
  <2>5. Previewed'
    BY <2>1 DEF RInv, Previewed, Read
  <2>6. QED
    BY <2>2, <2>3, <2>4, <2>5 DEF RInv
<1>12. QED
  BY <1>2, <1>3, <1>4, <1>5, <1>6, <1>7, <1>8, <1>9, <1>10, <1>11, NextCases

LEMMA RInvAlways == ASSUME JobsOk PROVE Spec => []RInv
<1>1. Init => RInv
  BY RInvInit
<1>2. IInv /\ RInv /\ [Next]_vars => RInv'
  BY RInvStep
<1>3. QED
  BY <1>1, <1>2, IInvAlways, PTL DEF Spec

\* A list with another first element.
LEMMA WithHead ==
    ASSUME NEW S, NEW e \in S, NEW t \in Seq(S)
    PROVE  LET s == <<e>> \o t IN s # <<>> /\ s[1] = e /\ Len(s) = Len(t) + 1 /\ Tail(s) = t
<1> DEFINE s == <<e>> \o t
<1>1. s \in Seq(S) /\ Len(s) = Len(t) + 1 /\ \A i \in 1 .. Len(s) : s[i] = IF i <= 1 THEN e ELSE t[i - 1]
  OBVIOUS
<1>2. Len(t) \in Nat
  OBVIOUS
<1> HIDE DEF s
<1>3. s # <<>> /\ s[1] = e
  BY <1>1, <1>2
<1>4. Tail(s) \in Seq(S) /\ Len(Tail(s)) = Len(t) /\ \A i \in 1 .. Len(t) : Tail(s)[i] = s[i + 1]
  BY <1>1, <1>2, <1>3
<1>5. \A i \in 1 .. Len(t) : Tail(s)[i] = t[i]
  BY <1>1, <1>2, <1>4
<1>6. Tail(s) = t
  BY <1>4, <1>5
<1>7. QED
  BY <1>1, <1>3, <1>6 DEF s

\* What is left of the extents is shorter, or its first is.
LEMMA AfterIs ==
    ASSUME NEW todo \in Seq(Nat \X Nat), todo # <<>>, NEW n \in Nat, n <= todo[1][2], n = 0 => todo[1][2] = 0
    PROVE  LET rest == After(todo, n)
           IN  \/ Len(rest) < Len(todo)
               \/ /\ rest # <<>> /\ Tail(rest) = Tail(todo) /\ Len(rest) = Len(todo)
                  /\ Units(rest) < Units(todo)
<1> DEFINE e == <<todo[1][1] + n, todo[1][2] - n>>
<1>1. /\ todo[1] \in Nat \X Nat /\ Tail(todo) \in Seq(Nat \X Nat) /\ Len(todo) = Len(Tail(todo)) + 1
      /\ Len(Tail(todo)) \in Nat
  OBVIOUS
<1>2. CASE n < todo[1][2]
  <2>1. After(todo, n) = <<e>> \o Tail(todo) /\ e \in Nat \X Nat /\ e[2] < todo[1][2]
    BY <1>1, <1>2 DEF After
  <2> HIDE DEF e
  <2> DEFINE rest == After(todo, n)
  <2> HIDE DEF rest
  <2>2. rest # <<>> /\ rest[1] = e /\ Len(rest) = Len(todo) /\ Tail(rest) = Tail(todo)
    <3>1. rest = <<e>> \o Tail(todo)
      BY <2>1, Zenon DEF rest
    <3>2. QED
      BY <1>1, <2>1, <3>1, WithHead
  <2>3. Units(rest) < Units(todo)
    BY <2>1, <2>2 DEF Units
  <2>4. QED
    BY <2>2, <2>3, Zenon DEF rest
<1>3. CASE ~(n < todo[1][2])
  <2>1. After(todo, n) = Tail(todo)
    BY <1>3, Zenon DEF After
  <2>2. Len(Tail(todo)) < Len(todo)
    BY <1>1
  <2>3. QED
    BY <2>1, <2>2, Zenon
<1>4. QED
  BY <1>2, <1>3

\* Each step of a run copies a piece, ends a file or ends the run.
LEMMA ShrinksHolds ==
    ASSUME JobsOk, IInv, RInv, Next
    PROVE  Shrinks
<1>1. CASE Check \/ Preview
  BY <1>1 DEF Check, Preview, Shrinks
<1>2. CASE Blocked \/ NotOpened \/ Finish \/ (Copy /\ PassOver)
  <2>1. /\ pc' = "next" /\ work'.left = Tail(work.left) /\ work.left # <<>> /\ pc # "check"
        /\ work.left \in Seq(Elements(disk.records))
    BY <1>2, IdleWith DEF Blocked, NotOpened, PassOver, Finish, Copy, RInv, EndOfChosen, Working
  <2>2. Len(work'.left) < Len(work.left)
    BY <2>1
  <2>3. QED
    BY <2>1, <2>2 DEF Shrinks, Phase
<1>3. CASE Open \/ WriteManifest
  <2>1. /\ pc = "next" /\ pc' \in {"copy", "done", "failed"} /\ work'.left = work.left
    BY <1>3 DEF Open, WriteManifest, IInv, Shape, WorkShape
  <2>2. QED
    BY <2>1 DEF Shrinks, Phase
<1>4. ASSUME NEW n \in Nat, n <= work.todo[1][2], n = 0 => work.todo[1][2] = 0,
             work.todo # <<>>, work.todo \in Seq(Nat \X Nat), pc \in {"copy", "preview"}, pc' = pc,
             work'.left = work.left, work'.todo = After(work.todo, n)
      PROVE  Shrinks
  <2>1. \/ Len(work'.todo) < Len(work.todo)
        \/ work'.todo # <<>> /\ Tail(work'.todo) = Tail(work.todo) /\ Units(work'.todo) < Units(work.todo)
    BY <1>4, AfterIs
  <2>2. Phase' = Phase /\ Phase = 1 /\ Len(work'.left) = Len(work.left) /\ pc # "check"
    BY <1>4 DEF Phase
  <2>3. Phase' <= 2 /\ Len(work'.left) = Len(work.left)
    BY <2>2
  <2>4. QED
    BY <2>1, <2>2, <2>3, Zenon DEF Shrinks
<1>5. CASE Copy /\ ~PassOver
  <2> DEFINE n == Smaller(Piece, work.todo[1][2])
  <2>1. /\ pc = "copy" /\ pc' = pc /\ work.todo # <<>> /\ work.todo \in Seq(Nat \X Nat)
        /\ work'.left = work.left /\ work'.todo = After(work.todo, n)
    BY <1>5 DEF Copy, IInv, Shape, WorkShape, RInv, Copied, CopiedTo
  <2>2. n \in Nat /\ n <= work.todo[1][2] /\ (n = 0 => work.todo[1][2] = 0)
    BY <2>1 DEF Smaller, JobsOk
  <2>3. QED
    BY <1>4, <2>1, <2>2
<1>6. CASE Extract
  <2>1. /\ pc = "preview" /\ work.todo \in Seq(Nat \X Nat) /\ Len(out.preview) \in Nat /\ opts.max \in Nat
    BY <1>6, JobFacts DEF Extract, RInv, Given, Extracted, CopiedTo
  <2>2. CASE pc' \in {"done", "failed"} /\ work' = work
    BY <2>1, <2>2 DEF Shrinks, Phase
  <2>3. CASE ~(pc' \in {"done", "failed"} /\ work' = work)
    <3> DEFINE n == Smaller(Piece, Smaller(work.todo[1][2], opts.max - Len(out.preview)))
    <3>1. /\ pc' = pc /\ work.todo # <<>> /\ ~(Len(out.preview) >= opts.max)
          /\ work'.left = work.left /\ work'.todo = After(work.todo, n)
      BY <1>6, <2>3 DEF Extract, IInv, Shape, WorkShape
    <3>2. n \in Nat /\ n <= work.todo[1][2] /\ (n = 0 => work.todo[1][2] = 0)
      BY <2>1, <3>1 DEF Smaller, JobsOk
    <3>3. QED
      BY <1>4, <2>1, <3>1, <3>2
  <2>4. QED
    BY <2>2, <2>3
<1>7. QED
  BY <1>1, <1>2, <1>3, <1>5, <1>6 DEF Next

\* A file has each byte of its extents in its place, or a zero for one that was
\* not read; one whose validity stays "full" has nothing missing but what is past
\* the end of the source (write_extent and the suspect flag it returns).
THEOREM ToldAlways == ASSUME JobsOk PROVE Spec => []Told
<1>1. RInv => Told
  BY DEF RInv
<1>2. QED
  BY <1>1, RInvAlways, PTL

\* No record that was chosen is lost from the summary: it is listed, or counted
\* as skipped, once, whichever step of writing it fails (recover_records).
THEOREM AccountedAlways == ASSUME JobsOk PROVE Spec => []Accounted
<1>1. RInv => Accounted
  BY DEF RInv
<1>2. QED
  BY <1>1, RInvAlways, PTL

\* Whatever the names of the records, no file of the run leads out of the
\* destination (safe_rel_path, resolve_collision), and unless that was asked for
\* none is on a medium of the source (dest_on_same_disk).
THEOREM InsideAlways == ASSUME JobsOk PROVE Spec => []Inside
<1>1. RInv => Inside
  BY DEF RInv
<1>2. QED
  BY <1>1, RInvAlways, PTL

\* A preview is the first bytes of the file, however its extents and the pieces
\* they are read in divide it (extract_to_temp).
THEOREM PreviewedAlways == ASSUME JobsOk PROVE Spec => []Previewed
<1>1. RInv => Previewed
  BY DEF RInv
<1>2. QED
  BY <1>1, RInvAlways, PTL

\* All that a recovery promises, of any records with distinct ids whose extents
\* describe their bytes, any names, and any failures of source and destination.
THEOREM RecoveredAlways == ASSUME JobsOk PROVE Spec => []Recovered
<1>1. IInv /\ RInv => Recovered
  BY DEF IInv, RInv, Recovered, Listed, Sound, Renaming, Verified
<1>2. QED
  BY <1>1, IInvAlways, RInvAlways, PTL
=============================================================================
