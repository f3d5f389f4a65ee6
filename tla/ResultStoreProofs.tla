--------------------------- MODULE ResultStoreProofs ---------------------------
(***************************************************************************)
(* Proofs about ResultStore for any volumes, files, carves and bitmaps,    *)
(* and any number of runs and faults.                                      *)
(***************************************************************************)
EXTENDS ResultStore, SequenceTheorems, WellFoundedInduction, TLAPS

\* A run of one step or another.
LEMMA NextCases ==
    ASSUME [Next]_vars
    PROVE  \/ \E o \in Options : Begin(o)
           \/ OpenVolume \/ SkipVolume \/ InsertEntries \/ QuickDone
           \/ InsertCarved \/ CarveEnds \/ Label
           \/ DeleteProposals \/ InsertProposal \/ StructureDone \/ Merge \/ Stop
           \/ UNCHANGED vars
BY DEF Next

LEMMA WalkType ==
    ASSUME NEW v \in Volume
    PROVE  /\ Walk[v] \in Seq(File) /\ Len(Walk[v]) \in Nat
           /\ DOMAIN Walk[v] = 1 .. Len(Walk[v])
           /\ \A k \in DOMAIN Walk[v] : Walk[v][k] \in File
<1>1. Walk[v] \in Seq(File)
  BY StoreAssumption DEF StoreAssumption
<1>2. Len(Walk[v]) \in Nat /\ DOMAIN Walk[v] = 1 .. Len(Walk[v])
  BY <1>1, LenProperties
<1>3. \A k \in DOMAIN Walk[v] : Walk[v][k] \in File
  BY <1>1, <1>2, ElementOfSeq
<1>4. QED
  BY <1>1, <1>2, <1>3

LEMMA Numbers ==
    /\ NumVolumes \in Nat /\ NumLost \in Nat /\ Batch \in Nat /\ Batch > 0
    /\ HasBitmap \subseteq Volume
BY StoreAssumption DEF StoreAssumption

LEMMA OptionsType ==
    /\ Idle \in Options
    /\ \A o \in Options : o.quick \in BOOLEAN /\ o.deep \in BOOLEAN /\ o.unallocatedOnly \in BOOLEAN
BY DEF Options, Idle

LEMMA StrikeType ==
    ASSUME NEW kind \in FaultKind, faults \in [FaultKind -> Nat], Strike(kind)
    PROVE  faults' \in [FaultKind -> Nat]
BY DEF Strike

LEMMA EmptyList == <<>> \in Seq(1 .. NumLost)
BY EmptySeq

-----------------------------------------------------------------------------
(* Types.                                                                  *)

\* A volume is open while its files are stored, and no run is before its first
\* volume or the first line of a list.
Shape ==
    /\ phase # "off" => vol \in 1 .. NumVolumes + 1 /\ at \in Nat \ {0}
    /\ phase = "store" => vol \in opened
TypedShape == TypeOK /\ Shape

LEMMA TypedShapeInit == Init => TypedShape
<1> SUFFICES ASSUME Init PROVE TypedShape
  OBVIOUS
<1>1. faults \in [FaultKind -> Nat] /\ labels \in [Carve -> {"none", "allocated", "unallocated"}]
  BY DEF Init
<1>2. lost \in Seq(1 .. NumLost)
  BY EmptyList DEF Init
<1>3. opts \in Options /\ vol \in 0 .. NumVolumes + 1 /\ at \in Nat
  BY OptionsType, Numbers DEF Init
<1>4. TypeOK
  BY <1>1, <1>2, <1>3 DEF Init, TypeOK
<1>5. Shape
  BY DEF Init, Shape
<1>6. QED
  BY <1>4, <1>5 DEF TypedShape

LEMMA TypedShapeStep == TypedShape /\ [Next]_vars => TypedShape'
<1> SUFFICES ASSUME TypedShape, [Next]_vars PROVE TypedShape'
  OBVIOUS
<1> USE Numbers, OptionsType DEF TypedShape, TypeOK, Shape
<1>1. ASSUME NEW o \in Options, Begin(o) PROVE TypedShape'
  BY <1>1 DEF Begin, tableVars, history
<1>2. CASE OpenVolume
  BY <1>2 DEF OpenVolume, tableVars, history, Volume
<1>3. CASE SkipVolume
  <2>1. faults' \in [FaultKind -> Nat]
    BY <1>3, StrikeType DEF SkipVolume, FaultKind
  <2>2. QED
    BY <1>3, <2>1 DEF SkipVolume, tableVars, history
<1>4. CASE InsertEntries
  <2>1. vol \in Volume /\ phase = "store"
    BY <1>4 DEF InsertEntries, StoreFiles
  <2>2. Len(Walk[vol]) \in Nat /\ \A k \in DOMAIN Walk[vol] : Walk[vol][k] \in File
    BY <2>1, WalkType
  <2>3. named' \subseteq File
    BY <1>4, <2>2 DEF InsertEntries, StoreFiles, InBatch
  <2>4. /\ phase' \in {"store", "volume"} /\ vol' \in 1 .. NumVolumes + 1 /\ at' \in Nat \ {0}
        /\ phase' = "store" => vol' = vol
    BY <1>4, <2>1, <2>2 DEF InsertEntries, StoreFiles, Volume
  <2>5. QED
    BY <1>4, <2>1, <2>3, <2>4 DEF InsertEntries, StoreFiles, history
<1>5. CASE QuickDone
  BY <1>5 DEF QuickDone, GoTo, Over, tableVars, history
<1>6. CASE InsertCarved
  BY <1>6 DEF InsertCarved, runVars, history
<1>7. CASE CarveEnds
  BY <1>7 DEF CarveEnds, GoTo, tableVars, history
<1>8. CASE Label
  <2>1. labels' \in [Carve -> {"none", "allocated", "unallocated"}]
    BY <1>8 DEF Label, LabelOf
  <2>2. hidden' \subseteq carved'
    BY <1>8 DEF Label
  <2>3. hid' \in BOOLEAN
    BY <1>8 DEF Label
  <2>4. QED
    BY <1>8, <2>1, <2>2, <2>3 DEF Label, GoTo, Over
<1>9. CASE DeleteProposals
  BY <1>9, EmptyList DEF DeleteProposals, Propose, tableVars, history
<1>10. CASE InsertProposal
  <2>1. at \in 1 .. NumLost /\ lost' = Append(lost, at)
    BY <1>10 DEF InsertProposal, Proposal
  <2>2. lost' \in Seq(1 .. NumLost)
    BY <2>1, AppendProperties
  <2>3. QED
    BY <1>10, <2>2 DEF InsertProposal, Proposal, tableVars, history
<1>11. CASE StructureDone
  BY <1>11 DEF StructureDone, GoTo, Over, tableVars, history
<1>12. CASE Merge
  <2>1. hidden' \subseteq carved' /\ settled' \in BOOLEAN
    BY <1>12 DEF Merge, MergeRows
  <2>2. QED
    BY <1>12, <2>1 DEF Merge, MergeRows, Over
<1>13. CASE Stop
  <2>1. faults' \in [FaultKind -> Nat]
    BY <1>13, StrikeType DEF Stop, FaultKind
  <2>2. QED
    BY <1>13, <2>1 DEF Stop, Over, tableVars, history
<1>14. CASE UNCHANGED vars
  BY <1>14 DEF vars, tableVars, runVars, history
<1>15. QED
  BY <1>1, <1>2, <1>3, <1>4, <1>5, <1>6, <1>7, <1>8, <1>9, <1>10, <1>11, <1>12, <1>13, <1>14,
     NextCases

\* The variables of the table and of the run keep their types.
THEOREM TypeInvariant == Spec => []TypeOK
<1>1. TypedShape => TypeOK
  BY DEF TypedShape
<1>2. QED
  BY <1>1, TypedShapeInit, TypedShapeStep, PTL DEF Spec

-----------------------------------------------------------------------------
(* What a step does to the rows.                                           *)

\* Most steps leave every row as it is.
LEMMA QuietSteps ==
    ASSUME [Next]_vars
    PROVE  \/ InsertEntries \/ InsertCarved \/ Label \/ Merge
           \/ UNCHANGED tableVars
<1>1. ASSUME NEW o \in Options, Begin(o) PROVE UNCHANGED tableVars
  BY <1>1 DEF Begin
<1>2. CASE OpenVolume \/ SkipVolume \/ QuickDone
  BY <1>2 DEF OpenVolume, SkipVolume, QuickDone
<1>3. CASE CarveEnds \/ DeleteProposals \/ InsertProposal \/ StructureDone \/ Stop
  BY <1>3 DEF CarveEnds, DeleteProposals, InsertProposal, Proposal, StructureDone, Stop
<1>4. CASE UNCHANGED vars
  BY <1>4 DEF vars
<1>5. QED
  BY <1>1, <1>2, <1>3, <1>4, NextCases

LEMMA RowsKeptStep ==
    ASSUME [Next]_vars
    PROVE  named \subseteq named' /\ carved \subseteq carved' /\ hidden \subseteq hidden'
<1>1. CASE InsertEntries
  BY <1>1 DEF InsertEntries, StoreFiles
<1>2. CASE InsertCarved
  BY <1>2 DEF InsertCarved
<1>3. CASE Label
  BY <1>3 DEF Label
<1>4. CASE Merge
  BY <1>4 DEF Merge, MergeRows
<1>5. CASE UNCHANGED tableVars
  BY <1>5 DEF tableVars
<1>6. QED
  BY <1>1, <1>2, <1>3, <1>4, <1>5, QuietSteps

\* No step of any run takes a row away, replaces a named one or shows a hidden
\* one again.
THEOREM RowsKeptAlways == Spec => RowsKept
<1>1. [Next]_vars => [named \subseteq named' /\ carved \subseteq carved' /\ hidden \subseteq hidden']_vars
  BY RowsKeptStep
<1>2. QED
  BY <1>1, PTL DEF Spec, RowsKept

-----------------------------------------------------------------------------
(* Labels.                                                                 *)

LEMMA VolumeType ==
    ASSUME NEW v \in Volume
    PROVE  /\ Base[v] \in Nat /\ Clusters[v] \in Nat
           /\ \A u \in Used[v] : u \in 0 .. Clusters[v] - 1
           /\ \A w \in Volume : v # w => Span(v) \cap Span(w) = {}
BY StoreAssumption DEF StoreAssumption

LEMMA CarveType == \A c \in Carve : CarveAt[c] \in Nat
BY StoreAssumption DEF StoreAssumption

\* What one bitmap calls free is in use in no volume: the others are elsewhere.
LEMMA FreeOfOne ==
    ASSUME NEW v \in Volume, NEW off \in Nat, ~IsAllocated(v, off), NEW w \in Volume
    PROVE  ~InUse(w, off)
<1>1. off \in Span(v) /\ off - Base[v] \notin Used[v]
  BY VolumeType DEF IsAllocated, Span
<1>2. CASE w = v
  BY <1>1, <1>2 DEF InUse
<1>3. CASE w # v
  <2>1. off \notin Span(w)
    BY <1>1, <1>3, VolumeType
  <2>2. off - Base[w] \in 0 .. Clusters[w] - 1 => off \in Span(w)
    BY VolumeType DEF Span
  <2>3. QED
    BY <2>1, <2>2, VolumeType DEF InUse
<1>4. QED
  BY <1>2, <1>3

\* UnallocatedIsFree of every carve, also of one without a row yet.
FreeLabels ==
    \A c \in Carve : labels[c] = "unallocated" => \A v \in Volume : ~InUse(v, CarveAt[c])

LEMMA LabelIsFree ==
    ASSUME TypeOK, NEW c \in Carve, Bitmaps # {}, LabelOf(c) = "unallocated"
    PROVE  \A v \in Volume : ~InUse(v, CarveAt[c])
<1>1. PICK v \in Bitmaps : ~IsAllocated(v, CarveAt[c])
  BY DEF LabelOf
<1>2. v \in Volume
  BY <1>1, Numbers DEF Bitmaps
<1>3. QED
  BY <1>1, <1>2, CarveType, FreeOfOne

LEMMA FreeLabelsStep == TypeOK /\ FreeLabels /\ [Next]_vars => FreeLabels'
<1> SUFFICES ASSUME TypeOK, FreeLabels, [Next]_vars PROVE FreeLabels'
  OBVIOUS
<1>1. CASE Label
  <2> SUFFICES ASSUME NEW c \in Carve, labels'[c] = "unallocated"
               PROVE  \A v \in Volume : ~InUse(v, CarveAt[c])
    BY DEF FreeLabels, InUse
  <2>1. CASE labels'[c] = labels[c]
    BY <2>1 DEF FreeLabels
  <2>2. CASE labels'[c] # labels[c]
    <3>1. Bitmaps # {} /\ labels'[c] = LabelOf(c)
      BY <1>1, <2>2 DEF Label, TypeOK
    <3>2. QED
      BY <3>1, LabelIsFree
  <2>3. QED
    BY <2>1, <2>2
<1>2. CASE ~Label
  <2>1. UNCHANGED labels
    BY <1>2, QuietSteps DEF InsertEntries, StoreFiles, InsertCarved, Merge, MergeRows, tableVars
  <2>2. QED
    BY <2>1 DEF FreeLabels, InUse
<1>3. QED
  BY <1>1, <1>2

\* A carved row is labelled unallocated only if it lies in the used space of no
\* volume, open in this run or not, with a bitmap or without.
THEOREM UnallocatedIsFreeAlways == Spec => []UnallocatedIsFree
<1>1. Init => FreeLabels
  BY DEF Init, FreeLabels
<1>2. TypeOK /\ FreeLabels => UnallocatedIsFree
  BY DEF TypeOK, FreeLabels, UnallocatedIsFree
<1>3. QED
  BY <1>1, <1>2, FreeLabelsStep, TypeInvariant, PTL DEF Spec

\* The wider of two sets of files hides more.
LEMMA TwinsMonotone ==
    ASSUME NEW A, NEW B, A \subseteq B
    PROVE  TwinsOf(A) \subseteq TwinsOf(B)
BY DEF TwinsOf, StartsOf

LEMMA FreeIsShownStep ==
    ASSUME \A v, w \in HasBitmap : v = w, TypeOK, FreeIsShown, [Next]_vars
    PROVE  FreeIsShown'
<1> SUFFICES ASSUME NEW c \in hidden', c \notin TwinsOf(named)', NEW v \in HasBitmap
             PROVE  ~IsFree(v, CarveAt[c])
  BY DEF FreeIsShown, IsFree, InUse, Span
<1>1. c \notin TwinsOf(named)
  BY RowsKeptStep, TwinsMonotone, TwinsOf(named)' = TwinsOf(named') DEF TwinsOf, StartsOf
<1>2. CASE c \in hidden
  BY <1>1, <1>2 DEF FreeIsShown
<1>3. CASE c \notin hidden
  <2>1. Label
    BY <1>1, <1>3, QuietSteps DEF InsertEntries, StoreFiles, InsertCarved, Merge, MergeRows, tableVars
  <2>2. c \in Carve /\ labels'[c] = "allocated" /\ c \in carved /\ Bitmaps # {}
    BY <1>3, <2>1 DEF Label, TypeOK
  <2>3. LabelOf(c) = "allocated"
    BY <2>1, <2>2 DEF Label
  <2>4. PICK w \in Bitmaps : IsAllocated(w, CarveAt[c])
    BY <2>3 DEF LabelOf
  <2>5. w = v /\ v \in Volume
    BY Numbers DEF Bitmaps
  <2>6. QED
    BY <2>2, <2>4, <2>5, CarveType, VolumeType DEF IsAllocated, IsFree, InUse, Span
<1>4. QED
  BY <1>2, <1>3

\* With one volume that has a bitmap, what lies in its free space and has no
\* named twin is never hidden.
THEOREM FreeIsShownAlways ==
    ASSUME \A v, w \in HasBitmap : v = w
    PROVE  Spec => []FreeIsShown
<1>1. Init => FreeIsShown
  BY DEF Init, FreeIsShown
<1>2. TypeOK /\ FreeIsShown /\ [Next]_vars => FreeIsShown'
  BY FreeIsShownStep
<1>3. QED
  BY <1>1, <1>2, TypeInvariant, PTL DEF Spec

-----------------------------------------------------------------------------
(* The list of lost volumes.                                               *)

\* While the list is written, it holds the volumes before the next one.
Numbered == ProposalsNumbered /\ (phase = "propose" => Len(lost) = at - 1)

\* Most steps leave the list as it is, and are not about to write it.
LEMMA ListSteps ==
    ASSUME [Next]_vars
    PROVE  \/ DeleteProposals \/ InsertProposal
           \/ UNCHANGED lost /\ (phase' # "propose" \/ UNCHANGED <<phase, at>>)
<1>1. ASSUME NEW o \in Options, Begin(o) PROVE UNCHANGED lost /\ phase' # "propose"
  BY <1>1 DEF Begin
<1>2. CASE OpenVolume \/ SkipVolume \/ InsertEntries \/ QuickDone
  BY <1>2 DEF OpenVolume, SkipVolume, InsertEntries, StoreFiles, QuickDone, GoTo, Over
<1>3. CASE InsertCarved \/ CarveEnds \/ Label
  BY <1>3 DEF InsertCarved, CarveEnds, Label, runVars, GoTo, Over
<1>4. CASE StructureDone \/ Merge \/ Stop
  BY <1>4 DEF StructureDone, Merge, MergeRows, Stop, GoTo, Over
<1>5. CASE UNCHANGED vars
  BY <1>5 DEF vars, runVars
<1>6. QED
  BY <1>1, <1>2, <1>3, <1>4, <1>5, NextCases

LEMMA NumberedStep == TypedShape /\ Numbered /\ [Next]_vars => Numbered'
<1> SUFFICES ASSUME TypedShape, Numbered, [Next]_vars PROVE Numbered'
  OBVIOUS
<1> USE DEF Numbered, ProposalsNumbered
<1>1. CASE DeleteProposals
  <2>1. lost' = <<>> /\ at' = 1 /\ Len(<<>>) = 0 /\ DOMAIN <<>> = {}
    BY <1>1 DEF DeleteProposals, Propose
  <2>2. QED
    BY <2>1
<1>2. CASE InsertProposal
  <2>1. /\ at \in 1 .. NumLost /\ at \in Nat /\ lost' = Append(lost, at) /\ at' = at + 1
        /\ phase = "propose" /\ lost \in Seq(1 .. NumLost)
    BY <1>2, Numbers DEF InsertProposal, Proposal, TypedShape, TypeOK, Shape
  <2>2. /\ Len(lost') = Len(lost) + 1
        /\ \A n \in 1 .. Len(lost) : lost'[n] = lost[n]
        /\ lost'[Len(lost) + 1] = at
    BY <2>1, AppendProperties
  <2>3. DOMAIN lost' = 1 .. Len(lost) + 1 /\ Len(lost) = at - 1 /\ DOMAIN lost = 1 .. Len(lost)
    BY <2>1, <2>2, AppendProperties, LenProperties
  <2>4. QED
    BY <2>1, <2>2, <2>3
<1>3. CASE UNCHANGED lost /\ (phase' # "propose" \/ UNCHANGED <<phase, at>>)
  BY <1>3
<1>4. QED
  BY <1>1, <1>2, <1>3, ListSteps

\* Wherever a run stands that writes the list, and wherever one stopped, a lost
\* volume stands under its own number.
THEOREM ProposalsNumberedAlways == Spec => []ProposalsNumbered
<1>1. Init => Numbered
  BY DOMAIN <<>> = {} DEF Init, Numbered, ProposalsNumbered
<1>2. Numbered => ProposalsNumbered
  BY DEF Numbered
<1>3. QED
  BY <1>1, <1>2, NumberedStep, TypedShapeInit, TypedShapeStep, PTL DEF Spec

-----------------------------------------------------------------------------
(* The first of the files with one id.                                     *)

Less == {ss \in Nat \X Nat : ss[1] < ss[2]}

LEMMA LessWellFounded == IsWellFoundedOn(Less, Nat)
BY NatLessThanWellFounded, Zenon DEF OpToRel, Less

LEMMA LeastOf ==
    ASSUME NEW S \in SUBSET Nat, S # {}
    PROVE  \E x \in S : \A y \in S : x <= y
<1>1. PICK x \in S : \A y \in S : <<y, x>> \notin Less
  BY LessWellFounded, WFMin, Zenon
<1>2. \A y \in S : ~(y < x)
  BY <1>1 DEF Less
<1>3. QED
  BY <1>2

\* Files of two volumes never have one id.
LEMMA KeysApart ==
    ASSUME NEW v \in Volume, NEW w \in Volume, v # w,
           NEW j \in DOMAIN Walk[v], NEW k \in DOMAIN Walk[w]
    PROVE  Key(Walk[v][j]) # Key(Walk[w][k])
BY StoreAssumption DEF StoreAssumption, Key

\* Two first files of one id are one file.
LEMMA FirstUnique ==
    ASSUME NEW f \in FirstNames, NEW g \in FirstNames, Key(f) = Key(g)
    PROVE  f = g
<1>1. PICK v \in Volume : \E k \in DOMAIN Walk[v] :
        Walk[v][k] = f /\ \A j \in 1 .. k - 1 : Key(Walk[v][j]) # Key(f)
  BY DEF FirstNames
<1>2. PICK k \in DOMAIN Walk[v] :
        Walk[v][k] = f /\ \A j \in 1 .. k - 1 : Key(Walk[v][j]) # Key(f)
  BY <1>1
<1>3. PICK w \in Volume : \E i \in DOMAIN Walk[w] :
        Walk[w][i] = g /\ \A j \in 1 .. i - 1 : Key(Walk[w][j]) # Key(g)
  BY DEF FirstNames
<1>4. PICK i \in DOMAIN Walk[w] :
        Walk[w][i] = g /\ \A j \in 1 .. i - 1 : Key(Walk[w][j]) # Key(g)
  BY <1>3
<1>5. v = w
  BY <1>2, <1>4, KeysApart
<1>6. k \in Nat /\ i \in Nat /\ k >= 1 /\ i >= 1
  BY <1>5, WalkType
<1>7. ~(i < k) /\ ~(k < i)
  BY <1>2, <1>4, <1>5, <1>6
<1>8. QED
  BY <1>2, <1>4, <1>5, <1>6, <1>7

-----------------------------------------------------------------------------
(* The results of a full run.                                              *)

Stored(v, k) == \E g \in named : Key(g) = Key(Walk[v][k])

\* Every row is the first file of its id.
OnlyFirst == named \subseteq FirstNames

\* Of each volume that the run opened, the files have rows: all but those that
\* it has yet to store.
Walked ==
    \A v \in opened : \A k \in DOMAIN Walk[v] :
        (v = vol /\ phase = "store" => k < at) => Stored(v, k)

\* A run goes on to labels, the structure pass and the merge only with a
\* complete carve.
CarveDone ==
    /\ progress = "complete" => carved = Carve
    /\ phase \in {"label", "delete", "propose", "merge"} => progress = "complete"

\* Unless labels hid some, the hidden rows are twins of named ones.
OnlyTwins == ~hid => hidden \subseteq TwinsOf(named)

Results == OnlyFirst /\ Walked /\ CarveDone /\ OnlyTwins /\ IdenticalView

\* A row that the quick pass adds is the first file of its id: those before it
\* in the walk have rows, in this batch or before.
LEMMA AddedIsFirst ==
    ASSUME TypedShape, Walked, phase = "store",
           NEW f \in InBatch, FirstOfId(f)
    PROVE  f \in FirstNames
<1>1. vol \in Volume /\ vol \in opened /\ at \in Nat \ {0}
  BY DEF TypedShape, TypeOK, Shape
<1>2. PICK k \in DOMAIN Walk[vol] :
        Walk[vol][k] = f /\ \A j \in at .. k - 1 : Key(Walk[vol][j]) # Key(f)
  BY DEF FirstOfId
<1>3. f \in File /\ k \in Nat /\ k >= 1 /\ DOMAIN Walk[vol] = 1 .. Len(Walk[vol]) /\ Len(Walk[vol]) \in Nat
  BY <1>1, <1>2, WalkType
<1>4. ASSUME NEW j \in 1 .. k - 1 PROVE Key(Walk[vol][j]) # Key(f)
  <2>1. CASE j >= at
    BY <1>1, <1>2, <1>3, <2>1
  <2>2. CASE j < at
    <3>1. j \in DOMAIN Walk[vol]
      BY <1>2, <1>3
    <3>2. Stored(vol, j)
      BY <1>1, <2>2, <3>1 DEF Walked
    <3>3. QED
      BY <3>2 DEF Stored, FirstOfId
  <2>3. QED
    BY <1>1, <2>1, <2>2
<1>5. QED
  BY <1>1, <1>2, <1>3, <1>4 DEF FirstNames

\* Every file of a batch has a row after it, its own or that of its id.
LEMMA BatchStored ==
    ASSUME TypedShape, InsertEntries, NEW k \in DOMAIN Walk[vol], at <= k, k < at + Batch
    PROVE  \E g \in named' : Key(g) = Key(Walk[vol][k])
<1> DEFINE f == Walk[vol][k]
           Same == {j \in DOMAIN Walk[vol] : at <= j /\ Key(Walk[vol][j]) = Key(f)}
<1>1. vol \in Volume /\ at \in Nat \ {0} /\ Batch \in Nat
  BY Numbers DEF InsertEntries, StoreFiles, TypedShape, TypeOK, Shape, Volume
<1>2. named' = named \cup {g \in InBatch : FirstOfId(g)}
  BY DEF InsertEntries, StoreFiles
<1>3. CASE \E g \in named : Key(g) = Key(f)
  BY <1>2, <1>3
<1>4. CASE \A g \in named : Key(g) # Key(f)
  <2>1. DOMAIN Walk[vol] = 1 .. Len(Walk[vol]) /\ Len(Walk[vol]) \in Nat
    BY <1>1, WalkType
  <2>2. Same \in SUBSET Nat /\ Same # {}
    BY <2>1
  <2>3. PICK i \in Same : \A j \in Same : i <= j
    BY <2>2, LeastOf, Zenon
  <2>4. i \in DOMAIN Walk[vol] /\ at <= i /\ Key(Walk[vol][i]) = Key(f)
    BY <2>3
  <2>5. i <= k /\ i < at + Batch
    <3>1. k \in Same
      OBVIOUS
    <3>2. i <= k /\ i \in Int /\ k \in Int
      BY <2>1, <2>3, <2>4, <3>1
    <3>3. QED
      BY <1>1, <3>2
  <2>6. \A j \in at .. i - 1 : Key(Walk[vol][j]) # Key(f)
    BY <1>1, <2>1, <2>3, <2>4
  <2>7. Walk[vol][i] \in InBatch
    BY <2>4, <2>5 DEF InBatch
  <2>8. FirstOfId(Walk[vol][i])
    BY <1>4, <2>4, <2>6 DEF FirstOfId
  <2>9. QED
    BY <1>2, <2>4, <2>7, <2>8
<1>5. QED
  BY <1>3, <1>4

LEMMA OnlyFirstStep == TypedShape /\ OnlyFirst /\ Walked /\ [Next]_vars => OnlyFirst'
<1> SUFFICES ASSUME TypedShape, OnlyFirst, Walked, [Next]_vars PROVE OnlyFirst'
  OBVIOUS
<1>1. FirstNames' = FirstNames
  BY DEF FirstNames, Key
<1>2. CASE InsertEntries
  <2>1. phase = "store" /\ named' = named \cup {f \in InBatch : FirstOfId(f)}
    BY <1>2 DEF InsertEntries, StoreFiles
  <2>2. QED
    BY <1>1, <2>1, AddedIsFirst DEF OnlyFirst
<1>3. CASE ~InsertEntries
  <2>1. UNCHANGED named
    BY <1>3, QuietSteps DEF InsertCarved, Label, Merge, MergeRows, tableVars
  <2>2. QED
    BY <1>1, <2>1 DEF OnlyFirst
<1>4. QED
  BY <1>2, <1>3

LEMMA StoredKept ==
    ASSUME [Next]_vars, NEW v, NEW k, Stored(v, k)
    PROVE  Stored(v, k)'
BY RowsKeptStep DEF Stored, Key

\* Every step but three leaves the walk where it is, or ends it.
LEMMA WalkSteps ==
    ASSUME [Next]_vars
    PROVE  \/ OpenVolume \/ SkipVolume \/ InsertEntries
           \/ opened' = {}
           \/ UNCHANGED <<opened, vol, at, phase>>
           \/ opened' = opened /\ phase # "store" /\ phase' # "store"
<1>1. ASSUME NEW o \in Options, Begin(o) PROVE opened' = {}
  BY <1>1 DEF Begin
<1>2. CASE QuickDone \/ Merge \/ Stop
  BY <1>2 DEF QuickDone, Merge, MergeRows, Stop, GoTo, Over
<1>3. CASE InsertCarved \/ CarveEnds \/ Label
  BY <1>3 DEF InsertCarved, CarveEnds, Label, runVars, GoTo, Over
<1>4. CASE DeleteProposals \/ InsertProposal \/ StructureDone
  BY <1>4 DEF DeleteProposals, Propose, InsertProposal, Proposal, StructureDone, GoTo, Over
<1>5. CASE UNCHANGED vars
  BY <1>5 DEF vars, runVars
<1>6. QED
  BY <1>1, <1>2, <1>3, <1>4, <1>5, NextCases

LEMMA WalkedStep == TypedShape /\ Walked /\ [Next]_vars => Walked'
<1> SUFFICES ASSUME TypedShape, Walked, [Next]_vars,
                    NEW v \in opened', NEW k \in DOMAIN Walk[v],
                    v = vol' /\ phase' = "store" => k < at'
             PROVE  Stored(v, k)'
  BY DEF Walked
<1>1. CASE OpenVolume
  <2>1. phase = "volume" /\ vol' = vol /\ phase' = "store" /\ at' = 1 /\ opened' = opened \cup {vol}
    BY <1>1 DEF OpenVolume
  <2>2. v \in Volume /\ v # vol
    <3>1. v \in Volume
      BY <1>1, <2>1 DEF OpenVolume, TypedShape, TypeOK, Shape, Volume
    <3>2. k >= 1
      BY <3>1, WalkType
    <3>3. QED
      BY <2>1, <3>1, <3>2, WalkType
  <2>3. Stored(v, k)
    BY <2>1, <2>2 DEF Walked
  <2>4. QED
    BY <2>3, StoredKept
<1>2. CASE SkipVolume
  <2>1. phase = "volume" /\ opened' = opened
    BY <1>2 DEF SkipVolume
  <2>2. Stored(v, k)
    BY <2>1 DEF Walked
  <2>3. QED
    BY <2>2, StoredKept
<1>3. CASE InsertEntries
  <2>1. /\ opened' = opened /\ phase = "store" /\ vol \in opened
        /\ vol \in Volume /\ at \in Nat /\ Batch \in Nat
    BY <1>3, Numbers DEF InsertEntries, StoreFiles, TypedShape, TypeOK, Shape
  <2>2. CASE v # vol \/ k < at
    <3>1. Stored(v, k)
      BY <2>1, <2>2 DEF Walked
    <3>2. QED
      BY <3>1, StoredKept
  <2>3. CASE v = vol /\ ~(k < at)
    <3>1. k \in Nat /\ k <= Len(Walk[vol]) /\ Len(Walk[vol]) \in Nat
      BY <2>1, <2>3, WalkType
    <3>2. at <= k /\ k < at + Batch
      <4>1. CASE at + Batch > Len(Walk[vol])
        BY <2>1, <2>3, <3>1, <4>1
      <4>2. CASE ~(at + Batch > Len(Walk[vol]))
        <5>1. at' = at + Batch /\ vol' = vol /\ phase' = "store"
          BY <1>3, <2>1, <4>2 DEF InsertEntries, StoreFiles
        <5>2. QED
          BY <2>1, <2>3, <3>1, <5>1
      <4>3. QED
        BY <4>1, <4>2
    <3>3. QED
      BY <1>3, <2>3, <3>2, BatchStored DEF Stored, Key
  <2>4. QED
    BY <2>2, <2>3
<1>4. CASE opened' = {}
  BY <1>4
<1>5. CASE UNCHANGED <<opened, vol, at, phase>>
  <2>1. Stored(v, k)
    BY <1>5 DEF Walked
  <2>2. QED
    BY <2>1, StoredKept
<1>6. CASE opened' = opened /\ phase # "store" /\ phase' # "store"
  <2>1. Stored(v, k)
    BY <1>6 DEF Walked
  <2>2. QED
    BY <2>1, StoredKept
<1>7. QED
  BY <1>1, <1>2, <1>3, <1>4, <1>5, <1>6, WalkSteps

LEMMA CarveDoneStep == TypeOK /\ CarveDone /\ [Next]_vars => CarveDone'
<1> SUFFICES ASSUME TypeOK, CarveDone, [Next]_vars PROVE CarveDone'
  OBVIOUS
<1> USE DEF CarveDone, GoTo, Over
<1>1. ASSUME NEW o \in Options, Begin(o) PROVE CarveDone'
  BY <1>1 DEF Begin, tableVars
<1>2. CASE OpenVolume \/ SkipVolume \/ QuickDone
  BY <1>2 DEF OpenVolume, SkipVolume, QuickDone, tableVars
<1>3. CASE InsertEntries
  BY <1>3 DEF InsertEntries, StoreFiles
<1>4. CASE InsertCarved
  BY <1>4 DEF InsertCarved, runVars
<1>5. CASE CarveEnds
  BY <1>5 DEF CarveEnds, tableVars
<1>6. CASE Label
  BY <1>6 DEF Label
<1>7. CASE DeleteProposals \/ InsertProposal \/ StructureDone
  BY <1>7 DEF DeleteProposals, Propose, InsertProposal, Proposal, StructureDone, tableVars
<1>8. CASE Merge
  BY <1>8 DEF Merge, MergeRows
<1>9. CASE Stop
  BY <1>9 DEF Stop, tableVars
<1>10. CASE UNCHANGED vars
  BY <1>10 DEF vars, tableVars, runVars
<1>11. QED
  BY <1>1, <1>2, <1>3, <1>4, <1>5, <1>6, <1>7, <1>8, <1>9, <1>10, NextCases

LEMMA OnlyTwinsStep == OnlyTwins /\ [Next]_vars => OnlyTwins'
<1> SUFFICES ASSUME OnlyTwins, [Next]_vars, ~hid' PROVE hidden' \subseteq TwinsOf(named')
  BY DEF OnlyTwins, TwinsOf, StartsOf
<1>1. TwinsOf(named) \subseteq TwinsOf(named')
  BY RowsKeptStep, TwinsMonotone
<1>2. ~hid /\ hidden' \subseteq hidden \cup TwinsOf(named)
  <2>1. CASE Label
    BY <2>1 DEF Label
  <2>2. CASE Merge
    BY <2>2 DEF Merge, MergeRows
  <2>3. CASE ~Label /\ ~Merge
    <3>1. UNCHANGED hidden
      BY <2>3, QuietSteps DEF InsertEntries, StoreFiles, InsertCarved, tableVars
    <3>2. UNCHANGED hid
      <4>1. ASSUME NEW o \in Options, Begin(o) PROVE UNCHANGED hid
        BY <4>1 DEF Begin, history
      <4>2. CASE OpenVolume \/ SkipVolume \/ InsertEntries \/ QuickDone
        BY <4>2 DEF OpenVolume, SkipVolume, InsertEntries, StoreFiles, QuickDone, history
      <4>3. CASE InsertCarved \/ CarveEnds
        BY <4>3 DEF InsertCarved, CarveEnds, history
      <4>4. CASE DeleteProposals \/ InsertProposal \/ StructureDone \/ Stop
        BY <4>4 DEF DeleteProposals, InsertProposal, Proposal, StructureDone, Stop, history
      <4>5. CASE UNCHANGED vars
        BY <4>5 DEF vars, history
      <4>6. QED
        BY <2>3, <4>1, <4>2, <4>3, <4>4, <4>5, NextCases
    <3>3. QED
      BY <3>1, <3>2
  <2>4. QED
    BY <2>1, <2>2, <2>3
<1>3. QED
  BY <1>1, <1>2 DEF OnlyTwins

\* After a walk of all volumes each first file has its row.
LEMMA AllStored ==
    ASSUME OnlyFirst, Walked, opened = Volume, phase # "store"
    PROVE  named = FirstNames
<1> SUFFICES ASSUME NEW f \in FirstNames PROVE f \in named
  BY DEF OnlyFirst
<1>1. PICK v \in Volume : \E k \in DOMAIN Walk[v] : Walk[v][k] = f
  BY DEF FirstNames
<1>2. PICK k \in DOMAIN Walk[v] : Walk[v][k] = f
  BY <1>1
<1>3. PICK g \in named : Key(g) = Key(f)
  BY <1>2 DEF Walked, Stored
<1>4. QED
  BY <1>3, FirstUnique DEF OnlyFirst

LEMMA IdenticalViewStep ==
    TypedShape /\ Results /\ OnlyFirst' /\ OnlyTwins' /\ TypeOK' /\ [Next]_vars => IdenticalView'
<1> SUFFICES ASSUME TypedShape, Results, OnlyFirst', OnlyTwins', TypeOK', [Next]_vars, settled'
             PROVE  /\ named' = FirstNames /\ carved' = Carve
                    /\ TwinsOf(FirstNames) \subseteq hidden'
                    /\ ~hid' => hidden' = TwinsOf(FirstNames)
  BY DEF IdenticalView, FirstNames, TwinsOf, StartsOf, Key
<1>1. named' \subseteq FirstNames /\ (~hid' => hidden' \subseteq TwinsOf(named'))
  BY DEF OnlyFirst, OnlyTwins, FirstNames, Key, TwinsOf, StartsOf
<1>2. carved' \subseteq Carve
  BY DEF TypeOK
<1>3. CASE settled
  <2>1. /\ named = FirstNames /\ carved = Carve
        /\ TwinsOf(FirstNames) \subseteq hidden
    BY <1>3 DEF Results, IdenticalView
  <2>2. named' = FirstNames /\ carved' = Carve /\ TwinsOf(FirstNames) \subseteq hidden'
    BY <1>1, <1>2, <2>1, RowsKeptStep
  <2>3. QED
    BY <1>1, <2>2
<1>4. CASE ~settled
  <2>1. Merge
    <3>1. ASSUME NEW o \in Options, Begin(o) PROVE FALSE
      BY <1>4, <3>1 DEF Begin, history
    <3>2. CASE OpenVolume \/ SkipVolume \/ InsertEntries \/ QuickDone
      BY <1>4, <3>2 DEF OpenVolume, SkipVolume, InsertEntries, StoreFiles, QuickDone, history
    <3>3. CASE InsertCarved \/ CarveEnds \/ Label
      BY <1>4, <3>3 DEF InsertCarved, CarveEnds, Label, history
    <3>4. CASE DeleteProposals \/ InsertProposal \/ StructureDone \/ Stop
      BY <1>4, <3>4 DEF DeleteProposals, InsertProposal, Proposal, StructureDone, Stop, history
    <3>5. CASE UNCHANGED vars
      BY <1>4, <3>5 DEF vars, history
    <3>6. QED
      BY <3>1, <3>2, <3>3, <3>4, <3>5, NextCases
  <2>2. /\ phase = "merge" /\ hidden' = hidden \cup (carved \cap TwinsOf(named))
        /\ opened = Volume /\ UNCHANGED <<named, carved>>
    BY <1>4, <2>1 DEF Merge, MergeRows, TypedShape, TypeOK
  <2>3. named = FirstNames
    BY <2>2, AllStored DEF Results
  <2>4. carved = Carve
    BY <2>2 DEF Results, CarveDone
  <2>5. TwinsOf(FirstNames) \subseteq hidden'
    BY <2>2, <2>3, <2>4 DEF TwinsOf
  <2>6. QED
    BY <1>1, <2>2, <2>3, <2>4, <2>5
<1>5. QED
  BY <1>3, <1>4

\* Whatever runs came before, stopped wherever they were and without the volumes
\* that did not open, after a full run of all volumes the results are those of
\* one run that nothing disturbed.
THEOREM IdenticalViewAlways == Spec => []IdenticalView
<1>1. Init => Results
  BY DEF Init, Results, OnlyFirst, Walked, CarveDone, OnlyTwins, IdenticalView
<1>2. TypedShape /\ Results /\ [Next]_vars => Results'
  <2>1. TypedShape => TypeOK
    BY DEF TypedShape
  <2>2. TypedShape' => TypeOK'
    BY DEF TypedShape
  <2>3. QED
    BY <2>1, <2>2, TypedShapeStep, OnlyFirstStep, WalkedStep, CarveDoneStep, OnlyTwinsStep,
       IdenticalViewStep DEF Results
<1>3. Results => IdenticalView
  BY DEF Results
<1>4. QED
  BY <1>1, <1>2, <1>3, TypedShapeInit, TypedShapeStep, PTL DEF Spec
=============================================================================
