--------------------------- MODULE ReadersProofs ----------------------------
(***************************************************************************)
(* Proofs about Readers, for every source that the assumptions on its      *)
(* constants allow: the invariant of each part holds for the sources of    *)
(* its kind, whatever the other parts do.                                  *)
(***************************************************************************)
EXTENDS Readers, FiniteSetTheorems, TLAPS

-----------------------------------------------------------------------------
(* The stack of block sources.                                             *)
StacksHold == kind = "stack" => Stack!StackInv

LEMMA StacksInit == Init => StacksHold
BY StackAssumption, Stack!StackInit, Zenon DEF Init, StacksHold

LEMMA StacksStep == StacksHold /\ [Next]_vars => StacksHold'
<1> SUFFICES ASSUME StacksHold, [Next]_vars, kind' = "stack" PROVE Stack!StackInv'
  BY DEF StacksHold
<1>1. kind = "stack" /\ [Stack!Next]_Stack!vars
  BY Zenon DEF Next, vars, Stack!vars
<1>2. QED
  BY <1>1, StackAssumption, Stack!StackStep DEF StacksHold

LEMMA StacksAlways == Spec => []StacksHold
BY StacksInit, StacksStep, PTL DEF Spec

\* Every read of every stack, through window, injected faults and cache, gives
\* the sectors that were asked for and loses only those that fail (BlockSource).
THEOREM SectorsReadAlways == Spec => []SectorsRead
<1>1. StacksHold => SectorsRead
  BY StackAssumption, Stack!PlacedHolds, Stack!ListedHolds, Stack!CappedHolds DEF StacksHold, SectorsRead
<1>2. QED
  BY <1>1, StacksAlways, PTL

-----------------------------------------------------------------------------
(* Recovery.                                                               *)
JobsHold == kind = "recover" => Recover!IInv /\ Recover!RInv

LEMMA JobsInit == Init => JobsHold
BY JobAssumption, Recover!IInvInit, Recover!RInvInit, Zenon DEF Init, JobsHold

LEMMA JobsStep == JobsHold /\ [Next]_vars => JobsHold'
<1> SUFFICES ASSUME JobsHold, [Next]_vars, kind' = "recover" PROVE Recover!IInv' /\ Recover!RInv'
  BY DEF JobsHold
<1>1. kind = "recover" /\ [Recover!Next]_Recover!vars
  BY Zenon DEF Next, vars, Recover!vars
<1>2. QED
  BY <1>1, JobAssumption, Recover!IInvStep, Recover!RInvStep DEF JobsHold

LEMMA JobsAlways == Spec => []JobsHold
BY JobsInit, JobsStep, PTL DEF Spec

\* Whatever is recovered from whatever source to whatever destination, with
\* failures of either: each file is the bytes of its record or is marked, each
\* record is listed or counted as skipped, nothing that was there is lost, no
\* file leaves the destination, and a preview is the head of its file.
THEOREM RecoveredAlways == Spec => []Recovered
<1>1. JobsHold => Recovered
  BY Zenon DEF JobsHold, Recovered, Recover!Recovered, Recover!IInv, Recover!RInv,
        Recover!Listed, Recover!Sound, Recover!Renaming, Recover!Verified
<1>2. QED
  BY <1>1, JobsAlways, PTL

-----------------------------------------------------------------------------
(* The first superblock and its copies.                                    *)
ExfatHolds == kind = "exfat" => disk \in ExfatDisks /\ (pc = "refused" => ~Exfat!OpenOk(disk))
ExtHolds == kind = "ext" => disk \in ExtDisks /\ (pc = "refused" => ~Ext!Valid(Ext!Sb))
HfsHolds == kind = "hfs" => (pc = "refused" => ~Hfs!Valid(Hfs!Vh))
ApfsHolds ==
    kind = "apfs" =>
        /\ disk \in ApfsDisks
        /\ pc \notin {"probe", "refused"} => 0 \in DOMAIN disk.blocks /\ disk.blocks[0].k = "nxsb"
        /\ "hist" \in DOMAIN work
        /\ pc \notin {"probe", "open", "refused"} => work.hist = Apfs!HistoryOf(disk)

CopiesHold == ExfatHolds /\ ExtHolds /\ HfsHolds /\ ApfsHolds

LEMMA CopiesInit == Init => CopiesHold
<1> SUFFICES ASSUME Init PROVE CopiesHold
  OBVIOUS
<1>1. ExfatHolds
  BY DEF Init, ExfatHolds, Exfat!Init
<1>2. ExtHolds
  BY DEF Init, ExtHolds, Ext!Init
<1>3. HfsHolds
  BY DEF Init, HfsHolds, Hfs!Init
<1>4. ApfsHolds
  BY DEF Init, ApfsHolds, Apfs!Init
<1>5. QED
  BY <1>1, <1>2, <1>3, <1>4 DEF CopiesHold

LEMMA ExfatStep == ExfatHolds /\ [Next]_vars => ExfatHolds'
<1> SUFFICES ASSUME ExfatHolds, [Next]_vars, kind' = "exfat" PROVE (ExfatHolds)'
  BY DEF ExfatHolds
<1>1. kind = "exfat" /\ [Exfat!Next]_vars
  BY Zenon DEF Next, vars
<1>2. disk' = disk
  BY <1>1 DEF vars, Exfat!Next, Exfat!Probe, Exfat!Open, Exfat!Return, Exfat!WalkDir, Exfat!Finish
<1>3. pc' = "refused" => pc = "refused" \/ ~Exfat!OpenOk(disk)
  BY <1>1 DEF vars, Exfat!Next, Exfat!Probe, Exfat!Open, Exfat!Return, Exfat!WalkDir, Exfat!Finish, Exfat!OpenOk
<1>4. QED
  BY <1>1, <1>2, <1>3 DEF ExfatHolds

LEMMA ExtStep == ExtHolds /\ [Next]_vars => ExtHolds'
<1> SUFFICES ASSUME ExtHolds, [Next]_vars, kind' = "ext" PROVE (ExtHolds)'
  BY DEF ExtHolds
<1>1. kind = "ext" /\ [Ext!Next]_vars
  BY Zenon DEF Next, vars
<1>2. disk' = disk
  BY <1>1, ZenonT(60) DEF vars, Ext!Next, Ext!Probe, Ext!Open, Ext!SkipDir, Ext!WalkDir, Ext!EndWalk,
              Ext!OrphanInode, Ext!EndOrphans, Ext!ScanNode, Ext!EndNodes
<1>3. pc' = "refused" => pc = "refused" \/ ~Ext!Valid(Ext!Sb)
  BY <1>1, ZenonT(60) DEF vars, Ext!Next, Ext!Probe, Ext!Open, Ext!SkipDir, Ext!WalkDir, Ext!EndWalk,
              Ext!OrphanInode, Ext!EndOrphans, Ext!ScanNode, Ext!EndNodes
<1>4. Ext!Sb' = Ext!Sb
  BY <1>2 DEF Ext!Sb
<1>5. QED
  BY <1>1, <1>2, <1>3, <1>4 DEF ExtHolds

LEMMA HfsStep == HfsHolds /\ [Next]_vars => HfsHolds'
<1> SUFFICES ASSUME HfsHolds, [Next]_vars, kind' = "hfs" PROVE (HfsHolds)'
  BY DEF HfsHolds
<1>1. kind = "hfs" /\ [Hfs!Next]_vars
  BY Zenon DEF Next, vars
<1>2. disk' = disk
  BY <1>1 DEF vars, Hfs!Next, Hfs!Probe, Hfs!Open, Hfs!WalkNode, Hfs!EndCatalog, Hfs!EmitLive,
              Hfs!SweepRecord, Hfs!EndSweep
<1>3. pc' = "refused" => pc = "refused" \/ ~Hfs!Valid(Hfs!Vh)
  BY <1>1 DEF vars, Hfs!Next, Hfs!Probe, Hfs!Open, Hfs!WalkNode, Hfs!EndCatalog, Hfs!EmitLive,
              Hfs!SweepRecord, Hfs!EndSweep, Hfs!Vh
<1>4. Hfs!Vh' = Hfs!Vh
  BY <1>2 DEF Hfs!Vh
<1>5. QED
  BY <1>1, <1>2, <1>3, <1>4 DEF HfsHolds

LEMMA ApfsStep == ApfsHolds /\ [Next]_vars => ApfsHolds'
<1> SUFFICES ASSUME ApfsHolds, [Next]_vars, kind' = "apfs" PROVE (ApfsHolds)'
  BY DEF ApfsHolds
<1>1. kind = "apfs" /\ [Apfs!Next]_vars
  BY Zenon DEF Next, vars
<1>2. disk' = disk
  BY <1>1 DEF vars, Apfs!Next, Apfs!Probe, Apfs!Open, Apfs!Targets, Apfs!WalkLive, Apfs!WalkHistory, Apfs!EndHistory,
              Apfs!WalkSnapshot, Apfs!EndSnapshots, Apfs!OrphanScan, Apfs!DiffVolume, Apfs!NextVolume, Apfs!Emit
<1>3. ASSUME pc' \notin {"probe", "refused"}
      PROVE  0 \in DOMAIN disk.blocks /\ disk.blocks[0].k = "nxsb"
  <2>1. CASE pc \in {"probe", "refused"}
    BY <1>1, <1>3, <2>1 DEF vars, Apfs!Next, Apfs!Probe, Apfs!Open, Apfs!Targets, Apfs!WalkLive, Apfs!WalkHistory, Apfs!EndHistory,
              Apfs!WalkSnapshot, Apfs!EndSnapshots, Apfs!OrphanScan, Apfs!DiffVolume, Apfs!NextVolume, Apfs!Emit, Apfs!BlockAt, Apfs!None
  <2>2. CASE pc \notin {"probe", "refused"}
    BY <1>1, <2>2 DEF ApfsHolds
  <2>3. QED
    BY <2>1, <2>2
<1>4. "hist" \in DOMAIN work'
  <2>1. "hist" \in DOMAIN work
    BY <1>1 DEF ApfsHolds
  <2>2. QED
    BY <1>1, <2>1 DEF vars, Apfs!Next, Apfs!Probe, Apfs!Open, Apfs!Targets, Apfs!WalkLive, Apfs!WalkHistory, Apfs!EndHistory,
              Apfs!WalkSnapshot, Apfs!EndSnapshots, Apfs!OrphanScan, Apfs!DiffVolume, Apfs!NextVolume, Apfs!Emit
<1>5. ASSUME pc' \notin {"probe", "open", "refused"}
      PROVE  work'.hist = Apfs!HistoryOf(disk)
  <2>1. "hist" \in DOMAIN work
    BY <1>1 DEF ApfsHolds
  <2>2. CASE pc = "open"
    BY <1>1, <1>5, <2>1, <2>2 DEF vars, Apfs!Next, Apfs!Probe, Apfs!Open, Apfs!Targets, Apfs!WalkLive, Apfs!WalkHistory, Apfs!EndHistory,
              Apfs!WalkSnapshot, Apfs!EndSnapshots, Apfs!OrphanScan, Apfs!DiffVolume, Apfs!NextVolume, Apfs!Emit
  <2>3. CASE pc \notin {"probe", "open", "refused"}
    <3>1. work.hist = Apfs!HistoryOf(disk)
      BY <1>1, <2>3 DEF ApfsHolds
    <3>2. work'.hist = work.hist
      BY <1>1, <2>1, <2>3 DEF vars, Apfs!Next, Apfs!Probe, Apfs!Open, Apfs!Targets, Apfs!WalkLive, Apfs!WalkHistory, Apfs!EndHistory,
              Apfs!WalkSnapshot, Apfs!EndSnapshots, Apfs!OrphanScan, Apfs!DiffVolume, Apfs!NextVolume, Apfs!Emit
    <3>3. QED
      BY <3>1, <3>2
  <2>4. CASE pc \in {"probe", "refused"}
    BY <1>1, <1>5, <2>4 DEF vars, Apfs!Next, Apfs!Probe, Apfs!Open, Apfs!Targets, Apfs!WalkLive, Apfs!WalkHistory, Apfs!EndHistory,
              Apfs!WalkSnapshot, Apfs!EndSnapshots, Apfs!OrphanScan, Apfs!DiffVolume, Apfs!NextVolume, Apfs!Emit
  <2>5. QED
    BY <2>2, <2>3, <2>4
<1>6. QED
  BY <1>1, <1>2, <1>3, <1>4, <1>5 DEF ApfsHolds

LEMMA CopiesAlways == Spec => []CopiesHold
<1>1. CopiesHold /\ [Next]_vars => CopiesHold'
  BY ExfatStep, ExtStep, HfsStep, ApfsStep DEF CopiesHold
<1>2. QED
  BY <1>1, CopiesInit, PTL DEF Spec

LEMMA ExfatOpens ==
    ASSUME ExfatHolds, kind = "exfat"
    PROVE  Exfat!Opened
<1> SUFFICES ASSUME pc = "refused", ~disk.main.named, NEW s \in DOMAIN disk.backup,
                    disk.backup[s].shift = s, Exfat!Plausible(disk.backup[s]), disk.backup[s].rootCluster >= 2
             PROVE  FALSE
  BY DEF Exfat!Opened
<1>1. disk \in ExfatDisks /\ ~Exfat!OpenOk(disk)
  BY DEF ExfatHolds
<1>2. s \in Exfat!InPlace(disk)
  BY DEF Exfat!InPlace, Exfat!Plausible
<1>3. Exfat!InPlace(disk) = {s} /\ s \in Nat
  BY <1>1, <1>2, ExfatAssumption DEF Exfat!DisksOk, Exfat!InPlace
<1>4. (CHOOSE p \in Exfat!InPlace(disk) : \A t \in Exfat!InPlace(disk) : p <= t) = s
  BY <1>3
<1>5. Exfat!ReadBoot(disk) = disk.backup[s]
  BY <1>3, <1>4 DEF Exfat!ReadBoot
<1>6. QED
  BY <1>1, <1>5 DEF Exfat!OpenOk

ExtDisk == disk \in ExtDisks

\* The copy that is read is one of those in place.
LEMMA ExtFirstBackup ==
    ASSUME ExtDisk, Ext!Backups(disk) # {}
    PROVE  (CHOOSE p \in Ext!Backups(disk) : \A q \in Ext!Backups(disk) : Ext!Earlier(p, q)) \in Ext!Backups(disk)
<1> DEFINE B == Ext!Backups(disk)
           Gs == {p[1] : p \in B}
<1>1. \A p \in B : p[1] \in Nat /\ p[2] \in Nat
  <2>1. disk.backupGroups \subseteq Nat /\ disk.blockSizes \in Seq(Nat)
    BY ExtAssumption DEF ExtDisk, Ext!DisksOk, Ext!CopiesOk
  <2>2. DOMAIN disk.blockSizes \subseteq Nat
    BY <2>1
  <2>3. B \subseteq disk.backupGroups \X DOMAIN disk.blockSizes
    BY Zenon DEF Ext!Backups
  <2>4. QED
    BY <2>1, <2>2, <2>3
<1> HIDE DEF B
<1>2. Gs \in SUBSET Nat /\ Gs # {}
  BY <1>1 DEF B
<1>3. PICK n \in Gs : \A m \in Gs : n <= m
  BY <1>2, Stack!Uses!LeastOf, Zenon
<1> DEFINE Is == {p[2] : p \in {q \in B : q[1] = n}}
<1>4. Is \in SUBSET Nat /\ Is # {}
  BY <1>1, <1>3
<1>5. PICK k \in Is : \A m \in Is : k <= m
  BY <1>4, Stack!Uses!LeastOf, Zenon
<1>6. PICK p \in B : p[1] = n /\ p[2] = k
  BY <1>5
<1>7. ASSUME NEW q \in B PROVE Ext!Earlier(p, q)
  <2>1. n <= q[1] /\ n \in Nat /\ q[1] \in Nat
    BY <1>1, <1>3, <1>6
  <2>2. q[1] = n => k <= q[2]
    BY <1>5
  <2>3. QED
    BY <2>1, <2>2, <1>6 DEF Ext!Earlier
<1>8. QED
  BY <1>6, <1>7, Zenon DEF B

LEMMA ExtOpens ==
    ASSUME ExtHolds, kind = "ext"
    PROVE  Ext!Opened
<1> SUFFICES ASSUME pc = "refused" PROVE ~Ext!Valid(disk.primary) /\ disk.intact = {}
  BY DEF Ext!Opened
<1>1. disk \in ExtDisks /\ ~Ext!Valid(Ext!ReadSuperblock(disk))
  BY DEF ExtHolds, Ext!Sb
<1>2. ~Ext!Valid(disk.primary)
  BY <1>1 DEF Ext!ReadSuperblock
<1>3. ASSUME NEW at \in disk.intact PROVE FALSE
  <2> DEFINE B == Ext!Backups(disk)
             first == CHOOSE p \in B : \A q \in B : Ext!Earlier(p, q)
  <2>1. at \in DOMAIN disk.supers /\ Ext!Valid(disk.supers[at])
        /\ disk.backupGroups \subseteq Nat /\ disk.blockSizes \in Seq(Nat)
    BY <1>1, ExtAssumption DEF Ext!DisksOk, Ext!CopiesOk
  <2>2. PICK g \in disk.backupGroups, bs \in Ext!ToSet(disk.blockSizes) :
          disk.supers[at].block = bs /\ at = IF bs = 1 THEN g * 8 + 1 ELSE g * 8 * bs * bs
    BY <1>1, ExtAssumption DEF Ext!DisksOk, Ext!CopiesOk
  <2>9. PICK k \in DOMAIN disk.blockSizes : bs = disk.blockSizes[k]
    BY DEF Ext!ToSet
  <2>10. g \in Nat /\ bs \in Nat
    BY <2>1, <2>9
  <2>3. at = Ext!BackupPlace(g, bs)
    <3>1. CASE bs = 1
      BY <2>10, <2>2, <3>1 DEF Ext!BackupPlace, Ext!FirstDataBlock
    <3>2. CASE bs # 1
      <4>1. Ext!FirstDataBlock(bs) = 0
        BY <3>2 DEF Ext!FirstDataBlock
      <4>2. g * 8 * bs + 0 = g * 8 * bs
        BY <2>10
      <4>3. QED
        BY <2>2, <3>2, <4>1, <4>2 DEF Ext!BackupPlace
    <3>3. QED
      BY <3>1, <3>2
  <2>4. <<g, k>> \in B
    <3>1. Ext!PlaceOf(disk, <<g, k>>) = at
      BY <2>3, <2>9 DEF Ext!PlaceOf
    <3>2. QED
      BY <2>1, <2>2, <2>9, <3>1 DEF Ext!Backups
  <2>5. first \in B
    BY <1>1, <2>4, ExtFirstBackup, Zenon DEF ExtDisk
  <2>6. Ext!ReadSuperblock(disk) = disk.supers[Ext!PlaceOf(disk, first)]
    BY <1>2, <2>4 DEF Ext!ReadSuperblock
  <2> HIDE DEF first
  <2>7. Ext!Valid(disk.supers[Ext!PlaceOf(disk, first)])
    BY <2>5 DEF Ext!Backups
  <2>8. QED
    BY <1>1, <2>6, <2>7
<1>4. QED
  BY <1>2, <1>3

LEMMA HfsOpens ==
    ASSUME HfsHolds, kind = "hfs"
    PROVE  Hfs!Opened
BY DEF HfsHolds, Hfs!Opened, Hfs!Vh, Hfs!HeaderOf, Hfs!Valid

\* Cardinality is the same operator in an instance.
LEMMA ApfsCardinality == \A S : Apfs!Cardinality(S) = Cardinality(S)
BY Zenon DEF Apfs!Cardinality, Cardinality

LEMMA NewestFirstHasGreatest ==
    ASSUME NEW S, IsFiniteSet(S), S # {}, \A b \in S : b.xid \in Nat
    PROVE  /\ Apfs!NewestFirst(S) # <<>> /\ Apfs!NewestFirst(S)[1] \in S
           /\ \A b \in S : b.xid <= Apfs!NewestFirst(S)[1].xid
<1> DEFINE Over(a) == {b \in S : b.xid > a.xid}
<1>1. \A a : Over(a) \in SUBSET S
  OBVIOUS
<1>2. \A a : IsFiniteSet(Over(a)) /\ Cardinality(Over(a)) \in Nat
  BY <1>1, FS_Subset, FS_CardinalityType
<1>3. \E a \in S : Over(a) = {}
  <2>1. {Cardinality(Over(a)) : a \in S} \in SUBSET Nat /\ {Cardinality(Over(a)) : a \in S} # {}
    BY <1>2
  <2>2. PICK n \in {Cardinality(Over(a)) : a \in S} : \A m \in {Cardinality(Over(a)) : a \in S} : n <= m
    BY <2>1, Stack!Uses!LeastOf, Zenon
  <2>3. PICK a \in S : Cardinality(Over(a)) = n
    BY <2>2
  <2>4. ASSUME NEW c \in Over(a) PROVE FALSE
    <3>1. c \in S /\ c \in Over(a) /\ c \notin Over(c) /\ Over(c) \in SUBSET Over(a)
      OBVIOUS
    <3>2. Cardinality(Over(c)) <= Cardinality(Over(a)) /\ Cardinality(Over(c)) # Cardinality(Over(a))
      BY <1>2, <3>1, FS_Subset
    <3>3. n <= Cardinality(Over(c))
      BY <2>2, <3>1
    <3> HIDE DEF Over
    <3>4. QED
      BY <1>2, <2>3, <3>2, <3>3
  <2>5. QED
    BY <2>4
<1>4. \A a : Apfs!Cardinality(Over(a)) = 1 - 1 <=> Over(a) = {}
  <2> HIDE DEF Over
  <2>1. 1 - 1 = 0
    OBVIOUS
  <2>2. QED
    BY <1>2, <2>1, FS_EmptySet, ApfsCardinality
<1> DEFINE first == CHOOSE a \in S : Apfs!Cardinality({b \in S : b.xid > a.xid}) = 1 - 1
<1>5. first \in S /\ Over(first) = {}
  <2> DEFINE P(a) == Apfs!Cardinality({b \in S : b.xid > a.xid}) = 1 - 1
  <2>1. \E a \in S : P(a)
    BY <1>3, <1>4
  <2>2. first \in S /\ P(first)
    <3> HIDE DEF P
    <3>1. first = CHOOSE a \in S : P(a)
      BY DEF P
    <3>2. QED
      BY <2>1, <3>1
  <2>3. QED
    BY <1>4, <2>2
<1>6. Cardinality(S) \in Nat /\ Cardinality(S) # 0
  BY FS_CardinalityType, FS_EmptySet
<1>7. Apfs!NewestFirst(S)[1] = first /\ DOMAIN Apfs!NewestFirst(S) = 1 .. Cardinality(S)
  <2> DEFINE N(n) == CHOOSE a \in S : Apfs!Cardinality({b \in S : b.xid > a.xid}) = n - 1
  <2>1. Apfs!NewestFirst(S) = [n \in 1 .. Apfs!Cardinality(S) |-> N(n)]
    BY DEF Apfs!NewestFirst
  <2>2. N(1) = first
    BY Zenon
  <2>3. 1 \in 1 .. Cardinality(S)
    BY <1>6
  <2> HIDE DEF N, first
  <2>4. QED
    BY <2>1, <2>2, <2>3, ApfsCardinality
<1>8. Apfs!NewestFirst(S) # <<>>
  BY <1>6, <1>7
<1>9. \A b \in S : b.xid <= first.xid
  <2> HIDE DEF first
  <2>1. QED
    BY <1>5
<1>10. QED
  BY <1>5, <1>7, <1>8, <1>9

LEMMA ApfsOpens ==
    ASSUME ApfsHolds, kind = "apfs"
    PROVE  Apfs!Opened
<1> DEFINE b == disk.blocks
           zero == b[0]
           ring == {p \in Apfs!Ring(zero) \cap DOMAIN b : b[p].k = "nxsb" /\ b[p].sum /\ b[p].block = zero.block}
           places == ring \cup (IF zero.sum THEN {0} ELSE {})
           first == {p \in places : \A q \in places : b[p].xid = b[q].xid => p <= q}
           supers == {b[p] : p \in first}
<1>1. SUFFICES ASSUME pc \notin {"probe", "open", "refused"}, NEW p \in ring
               PROVE  Apfs!Newest(work.hist).sum /\ b[p].xid <= Apfs!Newest(work.hist).xid
  BY DEF Apfs!Opened
<1>2. disk \in ApfsDisks /\ 0 \in DOMAIN b /\ zero.k = "nxsb" /\ work.hist = Apfs!HistoryOf(disk)
  BY <1>1 DEF ApfsHolds
<1>3. /\ MaxRing \in Nat
      /\ \A q \in DOMAIN b : b[q].k = "nxsb" => b[q].xid \in Nat /\ b[q].descBase \in Nat /\ b[q].descBlocks \in Nat
  BY <1>2, ApfsAssumption DEF Apfs!DisksOk
<1>4. work.hist = Apfs!NewestFirst(supers)
  BY <1>2 DEF Apfs!HistoryOf
<1>5. places \in SUBSET Nat /\ \A q \in places : q \in DOMAIN b /\ b[q].k = "nxsb" /\ b[q].sum /\ b[q].xid \in Nat
  <2>1. Apfs!Ring(zero) \in SUBSET Nat
    BY <1>2, <1>3 DEF Apfs!Ring, Apfs!Least
  <2>2. QED
    BY <1>2, <1>3, <2>1
<1>6. IsFiniteSet(places)
  <2> DEFINE n == Apfs!Least(zero.descBlocks, MaxRing)
             last == zero.descBase + n
  <2>1. zero.descBase \in Nat /\ zero.descBlocks \in Nat
    BY <1>2, <1>3
  <2>2. n \in Nat
    BY <1>3, <2>1 DEF Apfs!Least
  <2>3. places \subseteq Apfs!Ring(zero) \cup {0}
    OBVIOUS
  <2>4. Apfs!Ring(zero) = {zero.descBase + i : i \in 0 .. n - 1}
    BY DEF Apfs!Ring
  <2> HIDE DEF places, n
  <2>5. places \in SUBSET (0 .. last) /\ last \in Int
    BY <2>1, <2>2, <2>3, <2>4
  <2> HIDE DEF last
  <2>6. IsFiniteSet(0 .. last)
    BY <2>5, FS_Interval
  <2>7. QED
    BY <2>5, <2>6, FS_Subset
<1>7. IsFiniteSet(supers)
  <2>1. IsFiniteSet(first)
    BY <1>6, FS_Subset
  <2> DEFINE at == [q \in first |-> b[q]]
  <2>2. at \in Surjection(first, supers)
    BY DEF Surjection
  <2> HIDE DEF at, first, supers
  <2>3. QED
    BY <2>1, <2>2, FS_Surjection, Zenon
<1>8. \A s \in supers : s.xid \in Nat /\ s.sum
  BY <1>5
<1>9. \E q \in first : b[q].xid = b[p].xid
  <2> DEFINE same == {q \in places : b[q].xid = b[p].xid}
  <2>1. same \in SUBSET Nat /\ p \in same
    BY <1>1, <1>5
  <2>2. PICK q \in same : \A t \in same : q <= t
    BY <2>1, Stack!Uses!LeastOf, Zenon
  <2>3. q \in first
    BY <2>2
  <2>4. QED
    BY <2>2, <2>3
<1>10. PICK s \in supers : s.xid = b[p].xid
  BY <1>9
<1> HIDE DEF supers
<1>11. /\ work.hist # <<>> /\ work.hist[1] \in supers
       /\ \A t \in supers : t.xid <= work.hist[1].xid
  BY <1>4, <1>7, <1>8, <1>10, NewestFirstHasGreatest
<1>12. Apfs!Newest(work.hist) = work.hist[1]
  BY <1>11 DEF Apfs!Newest
<1>13. QED
  BY <1>8, <1>10, <1>11, <1>12

\* Whatever is damaged of an exFAT, ext, HFS+ or APFS volume, it opens if one copy
\* of its superblock is intact and in its place; of the superblocks of an APFS
\* container the newest intact one is used, and a torn one never (read_boot,
\* read_superblock, header_or_alternate, open).
THEOREM OpenedAlways == Spec => []Opened
<1>1. CopiesHold => Opened
  BY ExfatOpens, ExtOpens, HfsOpens, ApfsOpens DEF CopiesHold, Opened
<1>2. QED
  BY <1>1, CopiesAlways, PTL

-----------------------------------------------------------------------------
(* Lists.  A list is a sequence of whatever it holds; Within is one of at most *)
(* max elements.                                                              *)
IsList(s) == \E S : s \in Seq(S)
Within(s, max) == IsList(s) /\ Len(s) <= max

\* What SelectInSeq finds is a place, or 0.
LEMMA LeastIs ==
    ASSUME NEW I \in SUBSET Nat, I # {}
    PROVE  (CHOOSE x \in I : \A y \in I : x <= y) \in Nat
BY Stack!Uses!LeastOf, Zenon

\* The places of a list, in order.
LEMMA Indices ==
    ASSUME NEW k \in Int, NEW s, DOMAIN s = 1 .. k
    PROVE  LET at == [i \in DOMAIN s |-> i] IN
           /\ Len(at) \in Nat /\ DOMAIN at = 1 .. Len(at)
           /\ \A i \in 1 .. Len(at) : at[i] = i
<1> DEFINE n == IF k < 0 THEN 0 ELSE k
<1>1. n \in Nat /\ 1 .. k = 1 .. n
  OBVIOUS
<1>2. [i \in DOMAIN s |-> i] = [i \in 1 .. n |-> i]
  BY <1>1, Zenon
<1> HIDE DEF n
<1>3. Len([i \in 1 .. n |-> i]) = n
  BY <1>1
<1>4. QED
  BY <1>1, <1>2, <1>3

\* A list is a function on the first places, and only that.
LEMMA ListIs ==
    ASSUME NEW s
    PROVE  IsList(s) <=> Len(s) \in Nat /\ s = [i \in 1 .. Len(s) |-> s[i]]
<1>1. ASSUME IsList(s) PROVE Len(s) \in Nat /\ s = [i \in 1 .. Len(s) |-> s[i]]
  BY <1>1 DEF IsList
<1>2. ASSUME Len(s) \in Nat, s = [i \in 1 .. Len(s) |-> s[i]] PROVE IsList(s)
  <2>1. s \in [1 .. Len(s) -> {s[i] : i \in 1 .. Len(s)}]
    BY <1>2
  <2>2. s \in Seq({s[i] : i \in 1 .. Len(s)})
    BY <1>2, <2>1
  <2>3. QED
    BY <2>2 DEF IsList
<1>3. QED
  BY <1>1, <1>2

LEMMA ListOn ==
    ASSUME NEW n \in Nat, NEW f, f = [i \in 1 .. n |-> f[i]]
    PROVE  IsList(f) /\ Len(f) = n
<1>1. f \in [1 .. n -> {f[i] : i \in 1 .. n}]
  OBVIOUS
<1>2. f \in Seq({f[i] : i \in 1 .. n}) /\ Len(f) = n
  BY <1>1
<1>3. QED
  BY <1>2 DEF IsList

LEMMA ListNone == IsList(<<>>) /\ Len(<<>>) = 0
<1>1. <<>> \in Seq({}) /\ Len(<<>>) = 0
  OBVIOUS
<1>2. QED
  BY <1>1 DEF IsList

LEMMA ListOne == \A x : IsList(<<x>>) /\ Len(<<x>>) = 1 /\ <<x>>[1] = x
<1> SUFFICES ASSUME NEW x PROVE IsList(<<x>>) /\ Len(<<x>>) = 1 /\ <<x>>[1] = x
  BY Zenon
<1>1. <<x>> \in Seq({x}) /\ Len(<<x>>) = 1 /\ <<x>>[1] = x
  OBVIOUS
<1>2. QED
  BY <1>1 DEF IsList

LEMMA ListAppend ==
    ASSUME NEW s, NEW e, IsList(s)
    PROVE  /\ IsList(Append(s, e)) /\ Len(Append(s, e)) = Len(s) + 1 /\ Len(s) \in Nat
           /\ \A n \in 1 .. Len(s) + 1 : Append(s, e)[n] = IF n \in 1 .. Len(s) THEN s[n] ELSE e
<1>1. PICK S : s \in Seq(S)
  BY DEF IsList
<1>2. s \in Seq(S \cup {e}) /\ e \in S \cup {e}
  BY <1>1
<1>3. /\ Append(s, e) \in Seq(S \cup {e}) /\ Len(Append(s, e)) = Len(s) + 1
      /\ \A n \in 1 .. Len(s) + 1 : Append(s, e)[n] = IF n \in 1 .. Len(s) THEN s[n] ELSE e
  BY <1>2
<1>4. QED
  BY <1>1, <1>3 DEF IsList

LEMMA ListJoin ==
    ASSUME NEW s, NEW t, IsList(s), IsList(t)
    PROVE  /\ IsList(s \o t) /\ Len(s \o t) = Len(s) + Len(t)
           /\ \A n \in 1 .. Len(s) + Len(t) : (s \o t)[n] = IF n <= Len(s) THEN s[n] ELSE t[n - Len(s)]
<1>1. PICK S : s \in Seq(S)
  BY DEF IsList
<1>2. PICK T : t \in Seq(T)
  BY DEF IsList
<1>3. s \in Seq(S \cup T) /\ t \in Seq(S \cup T)
  BY <1>1, <1>2
<1>4. /\ s \o t \in Seq(S \cup T) /\ Len(s \o t) = Len(s) + Len(t)
      /\ \A n \in 1 .. Len(s) + Len(t) : (s \o t)[n] = IF n <= Len(s) THEN s[n] ELSE t[n - Len(s)]
  BY <1>3
<1>5. QED
  BY <1>4 DEF IsList

LEMMA ListTail ==
    ASSUME NEW s, IsList(s), s # <<>>
    PROVE  /\ IsList(Tail(s)) /\ Len(Tail(s)) = Len(s) - 1 /\ Len(s) \in Nat \ {0} /\ Head(s) = s[1]
           /\ \A n \in 1 .. Len(s) - 1 : Tail(s)[n] = s[n + 1]
<1>1. PICK S : s \in Seq(S)
  BY DEF IsList
<1>2. /\ Tail(s) \in Seq(S) /\ Len(Tail(s)) = Len(s) - 1 /\ Len(s) \in Nat \ {0} /\ Head(s) = s[1]
      /\ \A n \in 1 .. Len(s) - 1 : Tail(s)[n] = s[n + 1]
  BY <1>1
<1>3. QED
  BY <1>2 DEF IsList

LEMMA ListCut ==
    ASSUME NEW s, IsList(s), NEW n \in 1 .. Len(s) + 1
    PROVE  LET cut == SubSeq(s, 1, n - 1) IN
           IsList(cut) /\ Len(cut) = n - 1 /\ \A i \in 1 .. Len(cut) : cut[i] = s[i] /\ i \in 1 .. Len(s)
<1>1. PICK S : s \in Seq(S)
  BY DEF IsList
<1>2. /\ SubSeq(s, 1, n - 1) \in Seq(S) /\ Len(SubSeq(s, 1, n - 1)) = n - 1
      /\ \A i \in 1 .. n - 1 : SubSeq(s, 1, n - 1)[i] = s[i] /\ i \in 1 .. Len(s)
  BY <1>1
<1>3. QED
  BY <1>2 DEF IsList

LEMMA WithinAppend ==
    ASSUME NEW max \in Nat, NEW s, NEW e, Within(s, max), ~(Len(s) >= max)
    PROVE  Within(Append(s, e), max)
BY ListAppend DEF Within

LEMMA WithinNone == \A max \in Nat : Within(<<>>, max)
<1>1. Len(<<>>) = 0
  OBVIOUS
<1>2. QED
  BY <1>1, ListNone DEF Within

\* What is left of a finite set is less with one member less.
LEMMA FewerLeft ==
    ASSUME NEW S, IsFiniteSet(S), NEW T
    PROVE  /\ Cardinality(S \ T) \in Nat
           /\ \A x \in S \ T : Cardinality(S \ (T \cup {x})) < Cardinality(S \ T) /\ 0 < Cardinality(S \ T)
<1>1. IsFiniteSet(S \ T)
  BY FS_Subset
<1>2. Cardinality(S \ T) \in Nat
  BY <1>1, FS_CardinalityType
<1>3. ASSUME NEW x \in S \ T
      PROVE  Cardinality(S \ (T \cup {x})) < Cardinality(S \ T) /\ 0 < Cardinality(S \ T)
  <2>1. S \ (T \cup {x}) = (S \ T) \ {x}
    OBVIOUS
  <2>2. /\ IsFiniteSet((S \ T) \ {x})
        /\ Cardinality((S \ T) \ {x}) = IF x \in S \ T THEN Cardinality(S \ T) - 1 ELSE Cardinality(S \ T)
    BY <1>1, FS_RemoveElement, Zenon
  <2>3. Cardinality((S \ T) \ {x}) \in Nat
    BY <2>2, FS_CardinalityType, Zenon
  <2>4. QED
    BY <1>2, <2>1, <2>2, <2>3
<1>4. QED
  BY <1>2, <1>3, Zenon

\* What the members of a finite set are mapped to is a finite set.
LEMMA ImageFinite ==
    ASSUME NEW S, IsFiniteSet(S), NEW f, f = [x \in S |-> f[x]]
    PROVE  IsFiniteSet({f[x] : x \in S})
<1>1. f \in Surjection(S, {f[x] : x \in S})
  BY DEF Surjection
<1>2. QED
  BY <1>1, FS_Surjection, Zenon

-----------------------------------------------------------------------------
(* What goes down.  The numbers of a rank, the first that changes goes down   *)
(* from more than 0.                                                          *)
LEMMA FallsOfTwo ==
    ASSUME NEW a, NEW b, NEW aa, NEW bb,
           (aa < a /\ 0 < a) \/ (aa = a /\ bb < b /\ 0 < b)
    PROVE  Ext!Falls(<<a, b>>, <<aa, bb>>)
BY DEF Ext!Falls

LEMMA FallsOfThree ==
    ASSUME NEW a, NEW b, NEW c, NEW aa, NEW bb, NEW cc,
           \/ aa < a /\ 0 < a
           \/ aa = a /\ bb < b /\ 0 < b
           \/ aa = a /\ bb = b /\ cc < c /\ 0 < c
    PROVE  Ext!Falls(<<a, b, c>>, <<aa, bb, cc>>)
BY DEF Ext!Falls

LEMMA FallsOfFour ==
    ASSUME NEW a, NEW b, NEW c, NEW d, NEW aa, NEW bb, NEW cc, NEW dd,
           \/ aa < a /\ 0 < a
           \/ aa = a /\ bb < b /\ 0 < b
           \/ aa = a /\ bb = b /\ cc < c /\ 0 < c
           \/ aa = a /\ bb = b /\ cc = c /\ dd < d /\ 0 < d
    PROVE  Ext!Falls(<<a, b, c, d>>, <<aa, bb, cc, dd>>)
BY DEF Ext!Falls

-----------------------------------------------------------------------------
(* The engines that go through a list or by a count: each step moves on.      *)
NtfsInv ==
    /\ disk \in NtfsDisks /\ opts.max \in Nat /\ Within(out, opts.max)
    /\ {"at", "mft", "raws", "journal", "index", "used"} \subseteq DOMAIN work /\ work.at \in Int
    /\ pc \in {"probe", "open", "refused"} \/ disk.record > 0

LEMMA NtfsFalls ==
    ASSUME NtfsInv, [Ntfs!Next]_vars
    PROVE  NtfsInv' /\ (Ntfs!Next => Ntfs!Shrinks)
<1> DEFINE phase == CASE pc = "probe" -> 6 [] pc = "open" -> 5 [] pc = "read" -> 4 [] pc = "emit" -> 3
                    [] pc = "orphans" -> 2 [] pc = "mine" -> 1 [] OTHER -> 0
           names == Len(Ntfs!Mined)
           todo == CASE pc = "read" -> opts.max + Spare - work.at [] pc = "emit" -> Len(work.raws) - work.at + 1
                   [] pc = "orphans" -> disk.total - work.at [] pc = "mine" -> names - work.at + 1 [] OTHER -> 0
<1>1. disk' = disk /\ opts' = opts
  BY DEF vars, Ntfs!Next, Ntfs!Probe, Ntfs!Open, Ntfs!ReadRecord, Ntfs!EndRead, Ntfs!EmitRecord, Ntfs!EndEmit,
              Ntfs!ScanOrphan, Ntfs!EndOrphans, Ntfs!MineName, Ntfs!EndMine
<1>2. out' = out \/ (~(Len(out) >= opts.max) /\ \E e : out' = Append(out, e))
  BY DEF vars, Ntfs!Next, Ntfs!Probe, Ntfs!Open, Ntfs!ReadRecord, Ntfs!EndRead, Ntfs!EmitRecord, Ntfs!EndEmit,
              Ntfs!ScanOrphan, Ntfs!EndOrphans, Ntfs!MineName, Ntfs!EndMine, Ntfs!Full
<1>3. Within(out', opts.max)
  BY <1>2, WithinAppend DEF NtfsInv
<1>4. Spare \in Nat /\ disk.total \in Nat /\ disk.record \in Nat /\ names \in Nat /\ names' \in Nat
      /\ Len(work.raws) \in Nat
  BY NtfsAssumption DEF NtfsInv, Ntfs!DisksOk
<1>5. Ntfs!Rank = <<phase, todo>> /\ Ntfs!Rank' = <<phase', todo'>>
  BY DEF Ntfs!Rank
<1>6. DOMAIN work' = DOMAIN work
  BY DEF vars, Ntfs!Next, Ntfs!Probe, Ntfs!Open, Ntfs!ReadRecord, Ntfs!EndRead, Ntfs!EmitRecord, Ntfs!EndEmit,
              Ntfs!ScanOrphan, Ntfs!EndOrphans, Ntfs!MineName, Ntfs!EndMine
<1>7. \/ pc = "probe" /\ pc' \in {"open", "refused"} /\ work' = work
      \/ pc = "open" /\ pc' = "read" /\ disk.record > 0 /\ work'.at = work.at
      \/ pc = "open" /\ pc' = "refused" /\ work' = work
      \/ pc = "read" /\ pc' = "read" /\ work.at < opts.max + Spare /\ work'.at = work.at + 1
      \/ pc = "read" /\ pc' = "emit" /\ work'.at = 1
      \/ pc = "emit" /\ pc' = "emit" /\ work.at <= Len(work.raws) /\ work'.at = work.at + 1 /\ work'.raws = work.raws
      \/ pc = "emit" /\ pc' \in {"orphans", "done"} /\ work'.at = 0
      \/ pc = "orphans" /\ pc' = "orphans" /\ work.at < disk.total /\ work'.at = work.at + disk.record
      \/ pc = "orphans" /\ pc' = "mine" /\ work'.at = 1
      \/ pc = "mine" /\ pc' = "mine" /\ work.at <= names /\ work'.at = work.at + 1 /\ names' = names
      \/ pc = "mine" /\ pc' = "done" /\ work' = work
      \/ UNCHANGED vars /\ ~Ntfs!Next
  <2>1. CASE Ntfs!Probe \/ Ntfs!Open
    BY <2>1 DEF Ntfs!Probe, Ntfs!Open, NtfsInv
  <2>2. CASE Ntfs!ReadRecord \/ Ntfs!EndRead
    BY <2>2, Zenon DEF Ntfs!ReadRecord, Ntfs!EndRead, NtfsInv
  <2>3. CASE Ntfs!EmitRecord \/ Ntfs!EndEmit
    BY <2>3 DEF Ntfs!EmitRecord, Ntfs!EndEmit, NtfsInv
  <2>4. CASE Ntfs!ScanOrphan \/ Ntfs!EndOrphans
    BY <2>4 DEF Ntfs!ScanOrphan, Ntfs!EndOrphans, NtfsInv
  <2>5. CASE Ntfs!MineName \/ Ntfs!EndMine
    BY <2>5 DEF Ntfs!MineName, Ntfs!EndMine, Ntfs!Mined, NtfsInv
  <2>6. QED
    BY <2>1, <2>2, <2>3, <2>4, <2>5, Zenon DEF Ntfs!Next
<1> HIDE DEF names
<1>8. NtfsInv'
  BY <1>1, <1>3, <1>4, <1>6, <1>7 DEF NtfsInv, vars
<1>9. ASSUME Ntfs!Next
      PROVE  (phase' < phase /\ 0 < phase) \/ (phase' = phase /\ todo' < todo /\ 0 < todo)
  BY <1>1, <1>4, <1>7, <1>9, SMTT(30) DEF NtfsInv
<1> HIDE DEF phase, todo
<1>10. QED
  BY <1>5, <1>8, <1>9, FallsOfTwo DEF Ntfs!Shrinks, Ntfs!Falls, Ext!Falls

HfsInv ==
    /\ {"node", "read", "at"} \subseteq DOMAIN work /\ IsFiniteSet(work.read) /\ work.at \in Int

LEMMA HfsFalls ==
    ASSUME HfsInv, [Hfs!Next]_vars
    PROVE  HfsInv' /\ (Hfs!Next => Hfs!Shrinks)
<1> DEFINE phase == CASE pc = "probe" -> 5 [] pc = "open" -> 4 [] pc = "catalog" -> 3 [] pc = "live" -> 2
                    [] pc = "sweep" -> 1 [] OTHER -> 0
           read == Cardinality(work.read)
           records == Len(disk.sweep)
           todo == CASE pc = "catalog" -> NodeLimit - read [] pc = "sweep" -> records - work.at + 1 [] OTHER -> 0
<1>1. Hfs!Rank = <<phase, todo>> /\ Hfs!Rank' = <<phase', todo'>>
  BY DEF Hfs!Rank, Hfs!Cardinality, Cardinality
<1>2. /\ disk' = disk /\ DOMAIN work' = DOMAIN work
      /\ \/ pc = "probe" /\ pc' \in {"open", "refused"} /\ work' = work
         \/ pc = "open" /\ pc' = "catalog" /\ work'.read = work.read /\ work'.at = work.at
         \/ pc = "catalog" /\ pc' = "catalog" /\ Hfs!MoreNodes /\ work'.read = work.read \cup {work.node}
            /\ work'.at = work.at
         \/ pc = "catalog" /\ pc' = "live" /\ work' = work
         \/ pc = "live" /\ pc' \in {"sweep", "done"} /\ work' = work
         \/ pc = "sweep" /\ pc' = "sweep" /\ work.at <= records /\ work'.at = work.at + 1 /\ work'.read = work.read
         \/ pc = "sweep" /\ pc' = "done" /\ work' = work
         \/ UNCHANGED vars /\ ~Hfs!Next
  <2>1. CASE Hfs!WalkNode
    <3>1. /\ pc = "catalog" /\ pc' = pc /\ disk' = disk /\ Hfs!MoreNodes
          /\ \E a, b : work' = [work EXCEPT !.node = a, !.read = @ \cup {work.node}, !.entries = b]
      BY <2>1, Zenon DEF Hfs!WalkNode
    <3>2. QED
      BY <3>1 DEF HfsInv
  <2>2. CASE Hfs!SweepRecord
    BY <2>2 DEF Hfs!SweepRecord, HfsInv
  <2>3. CASE Hfs!Next /\ ~Hfs!WalkNode /\ ~Hfs!SweepRecord
    <3>1. CASE Hfs!EmitLive
      BY <3>1, Zenon DEF Hfs!EmitLive
    <3>2. CASE ~Hfs!EmitLive
      BY <2>3, <3>2 DEF Hfs!Next, Hfs!Probe, Hfs!Open, Hfs!EndCatalog, Hfs!EndSweep, HfsInv
    <3>3. QED
      BY <3>1, <3>2
  <2>4. QED
    BY <2>1, <2>2, <2>3, Zenon DEF vars, Hfs!Next
<1>3. Hfs!MoreNodes => read < NodeLimit /\ work.node \notin work.read
  BY Zenon DEF Hfs!MoreNodes, Hfs!Cardinality, Cardinality
<1>4. IsFiniteSet(work.read) => read \in Nat
  BY FS_CardinalityType
<1>5. IsFiniteSet(work.read) /\ work.node \notin work.read =>
         IsFiniteSet(work.read \cup {work.node}) /\ Cardinality(work.read \cup {work.node}) = read + 1
  BY FS_AddElement
<1>6. HfsInv' /\ (Hfs!Next /\ pc = "catalog" /\ pc' = "catalog" => Hfs!MoreNodes /\ read' = read + 1)
  <2> HIDE DEF read, records
  <2>1. \/ work'.read = work.read
        \/ work'.read = work.read \cup {work.node} /\ work.node \notin work.read
    BY <1>2, <1>3, Zenon DEF vars
  <2>2. IsFiniteSet(work'.read)
    BY <1>5, <2>1 DEF HfsInv
  <2>3. work'.at \in Int /\ DOMAIN work' = DOMAIN work
    BY <1>2 DEF HfsInv, vars
  <2>4. QED
    BY <1>2, <1>3, <1>5, <2>2, <2>3, Zenon DEF HfsInv, read
<1>7. read \in Nat /\ read' \in Nat /\ records' = records /\ records \in Nat /\ NodeLimit \in Nat
  <2>1. records' = records
    BY <1>2, Zenon
  <2>2. read \in Nat /\ read' \in Nat
    BY <1>4, <1>6, FS_CardinalityType, Zenon DEF HfsInv
  <2>3. QED
    BY <2>1, <2>2, HfsAssumption DEF Hfs!DisksOk
<1> HIDE DEF read, records
<1>8. ASSUME Hfs!Next
      PROVE  (phase' < phase /\ 0 < phase) \/ (phase' = phase /\ todo' < todo /\ 0 < todo)
  BY <1>2, <1>3, <1>6, <1>7, <1>8 DEF HfsInv
<1> HIDE DEF phase, todo
<1>9. QED
  BY <1>1, <1>6, <1>8, FallsOfTwo DEF Hfs!Shrinks, Hfs!Falls, Ext!Falls

ApfsInv == {"hist", "vols", "v", "cur", "snaps", "at", "left"} \subseteq DOMAIN work /\ work.v \in Int /\ work.at \in Int

\* Where a step leads, with the volume and the place in it that it counts.
ApfsMoves ==
    /\ DOMAIN work' = DOMAIN work
    /\ \/ pc = "probe" /\ pc' \in {"open", "refused"} /\ work' = work
       \/ pc = "open" /\ pc' = "targets" /\ work'.v = work.v /\ work'.at = work.at
       \/ pc = "targets" /\ pc' \in {"done", "live", "diff"} /\ work'.v = work.v /\ work'.at = work.at
       \/ pc = "live" /\ pc' = "history" /\ work'.at = 1 /\ work'.v = work.v /\ work'.vols = work.vols
       \/ /\ pc \in {"live", "orphans", "diff"} /\ work'.v = work.v + 1 /\ work'.at = 1
          /\ pc' = "done" \/ (pc' \in {"live", "diff"} /\ work.v < Len(work.vols) /\ work'.vols = work.vols)
       \/ /\ pc = "history" /\ pc' = "history" /\ work.at <= MaxHistory
          /\ work'.at = work.at + 1 /\ work'.v = work.v /\ work'.vols = work.vols
       \/ pc = "history" /\ pc' = "snapshots" /\ work'.at = 1 /\ work'.v = work.v /\ work'.vols = work.vols
       \/ /\ pc = "snapshots" /\ pc' = "snapshots" /\ work.at <= Len(work.snaps)
          /\ work'.at = work.at + 1 /\ work'.v = work.v /\ work'.vols = work.vols /\ work'.snaps = work.snaps
       \/ pc = "snapshots" /\ pc' = "orphans" /\ work' = work

LEMMA ApfsMove ==
    ASSUME ApfsInv, Apfs!Next
    PROVE  ApfsMoves
<1>1. CASE Apfs!Probe \/ Apfs!Open \/ Apfs!EndSnapshots
  <2>1. \/ pc = "probe" /\ pc' \in {"open", "refused"} /\ work' = work
        \/ pc = "open" /\ pc' = "targets" /\ \E h : work' = [work EXCEPT !.hist = h]
        \/ pc = "snapshots" /\ pc' = "orphans" /\ work' = work
    BY <1>1, Zenon DEF Apfs!Probe, Apfs!Open, Apfs!EndSnapshots
  <2>2. QED
    BY <2>1 DEF ApfsInv, ApfsMoves
<1>2. CASE Apfs!Targets
  <2>1. pc = "targets" /\ pc' \in {"done", "live", "diff"} /\ \E c, l : work' = [work EXCEPT !.vols = c, !.left = l]
    BY <1>2, Zenon DEF Apfs!Targets
  <2>2. QED
    BY <2>1 DEF ApfsInv, ApfsMoves
<1>3. CASE Apfs!WalkLive
  <2>1. pc = "live" /\ \E c, l : \/ pc' = "history" /\ work' = [work EXCEPT !.cur = c, !.left = l, !.at = 1]
                                 \/ Apfs!NextVolume([work EXCEPT !.cur = c, !.left = l, !.at = 1], "live")
    BY <1>3, Zenon DEF Apfs!WalkLive
  <2>2. QED
    BY <2>1 DEF Apfs!NextVolume, ApfsInv, ApfsMoves
<1>4. CASE Apfs!WalkHistory \/ Apfs!EndHistory
  <2>1. /\ pc = "history"
        /\ \/ pc' = pc /\ work.at <= MaxHistory /\ \E l : work' = [work EXCEPT !.at = @ + 1, !.left = l]
           \/ pc' = "snapshots" /\ \E s, l : work' = [work EXCEPT !.at = 1, !.snaps = s, !.left = l]
    BY <1>4, Zenon DEF Apfs!WalkHistory, Apfs!EndHistory
  <2>2. QED
    BY <2>1 DEF ApfsInv, ApfsMoves
<1>5. CASE Apfs!WalkSnapshot
  <2>1. /\ pc = "snapshots" /\ pc' = pc /\ work.at <= Len(work.snaps)
        /\ \E l : work' = [work EXCEPT !.at = @ + 1, !.left = l]
    BY <1>5, Zenon DEF Apfs!WalkSnapshot
  <2>2. QED
    BY <2>1 DEF ApfsInv, ApfsMoves
<1>6. CASE Apfs!OrphanScan \/ Apfs!DiffVolume
  <2>1. \/ pc = "orphans" /\ Apfs!NextVolume(work, "live")
        \/ pc = "diff" /\ \E l : Apfs!NextVolume([work EXCEPT !.left = l], "diff")
    BY <1>6, Zenon DEF Apfs!OrphanScan, Apfs!DiffVolume
  <2>2. QED
    BY <2>1 DEF Apfs!NextVolume, ApfsInv, ApfsMoves
<1>7. QED
  BY <1>1, <1>2, <1>3, <1>4, <1>5, <1>6, Zenon DEF Apfs!Next

LEMMA ApfsFalls ==
    ASSUME ApfsInv, [Apfs!Next]_vars
    PROVE  ApfsInv' /\ (Apfs!Next => Apfs!Shrinks)
<1> DEFINE walks == {"live", "diff", "history", "snapshots", "orphans"}
           vols == Len(work.vols)
           snaps == Len(work.snaps)
           phase == CASE pc = "probe" -> 4 [] pc = "open" -> 3 [] pc = "targets" -> 2 [] pc \in walks -> 1 [] OTHER -> 0
           volume == IF pc \in walks THEN vols - work.v + 1 ELSE 0
           part == CASE pc \in {"live", "diff"} -> 4 [] pc = "history" -> 3 [] pc = "snapshots" -> 2
                   [] pc = "orphans" -> 1 [] OTHER -> 0
           point == CASE pc = "history" -> MaxHistory - work.at + 1 [] pc = "snapshots" -> snaps - work.at + 1
                    [] OTHER -> 0
<1>1. /\ Apfs!Rank = <<phase, volume, part, point>> /\ Apfs!Rank' = <<phase', volume', part', point'>>
      /\ vols \in Nat /\ snaps \in Nat /\ vols' \in Nat /\ snaps' \in Nat /\ MaxHistory \in Nat
  BY ApfsAssumption DEF Apfs!Rank, Apfs!DisksOk
<1>2. work'.vols = work.vols => vols' = vols
  BY Zenon
<1>3. work'.snaps = work.snaps => snaps' = snaps
  BY Zenon
<1> HIDE DEF vols, snaps
<1>4. ASSUME Apfs!Next
      PROVE  /\ ApfsInv'
             /\ \/ phase' < phase /\ 0 < phase
                \/ phase' = phase /\ volume' < volume /\ 0 < volume
                \/ phase' = phase /\ volume' = volume /\ part' < part /\ 0 < part
                \/ phase' = phase /\ volume' = volume /\ part' = part /\ point' < point /\ 0 < point
  <2>1. ApfsMoves /\ ApfsInv'
    BY <1>4, ApfsMove DEF ApfsMoves, ApfsInv
  <2>2. work.v < Len(work.vols) => work.v < vols
    BY Zenon DEF vols
  <2>3. work.at <= Len(work.snaps) => work.at <= snaps
    BY Zenon DEF snaps
  <2>4. CASE pc \in {"probe", "open", "targets"}
    BY <2>1, <2>4 DEF ApfsMoves
  <2>5. CASE pc \in {"live", "diff", "orphans"}
    <3>1. \/ pc' = "done"
          \/ pc = "live" /\ pc' = "history" /\ work'.v = work.v /\ vols' = vols
          \/ pc' \in {"live", "diff"} /\ work.v < vols /\ work'.v = work.v + 1 /\ vols' = vols
      BY <1>2, <2>1, <2>2, <2>5 DEF ApfsMoves
    <3>2. QED
      BY <1>1, <2>1, <2>5, <3>1 DEF ApfsInv
  <2>6. CASE pc \in {"history", "snapshots"}
    <3>1. /\ work'.v = work.v /\ vols' = vols
          /\ \/ pc = "history" /\ pc' = "history" /\ work.at <= MaxHistory /\ work'.at = work.at + 1
             \/ pc = "history" /\ pc' = "snapshots"
             \/ pc = "snapshots" /\ pc' = "snapshots" /\ work.at <= snaps /\ work'.at = work.at + 1 /\ snaps' = snaps
             \/ pc = "snapshots" /\ pc' = "orphans"
      BY <1>2, <1>3, <2>1, <2>3, <2>6 DEF ApfsMoves
    <3>2. QED
      BY <1>1, <2>1, <2>6, <3>1 DEF ApfsInv
  <2>7. QED
    BY <2>1, <2>4, <2>5, <2>6 DEF ApfsMoves
<1>5. CASE UNCHANGED vars /\ ~Apfs!Next
  BY <1>5 DEF vars, ApfsInv
<1> HIDE DEF phase, volume, part, point
<1>6. QED
  BY <1>1, <1>4, <1>5, FallsOfFour DEF Apfs!Shrinks, Apfs!Falls, Ext!Falls

PartsInv == IsList(work) /\ \A i \in 1 .. Len(work) : {"base", "cur", "left"} \subseteq DOMAIN work[i] /\ work[i].left \in Nat \ {0}

LEMMA PartsChains == IsList(Parts!Chains) /\ \A i \in 1 .. Len(Parts!Chains) :
    {"base", "cur", "left"} \subseteq DOMAIN Parts!Chains[i] /\ Parts!Chains[i].left \in Nat \ {0}
<1> DEFINE ext == SelectSeq(Parts!Slots, LAMBDA s : s.type \in Parts!Extended)
           chain(i) == [base |-> ext[i].start, cur |-> ext[i].start, left |-> MaxChain]
<1>1. DOMAIN ext = 1 .. Len(ext) /\ Len(ext) \in Nat
  OBVIOUS
<1>2. Parts!Chains = [i \in DOMAIN ext |-> chain(i)]
  BY Zenon DEF Parts!Chains
<1>3. \A i : {"base", "cur", "left"} \subseteq DOMAIN chain(i) /\ chain(i).left \in Nat \ {0}
  BY PartsAssumption DEF Parts!DisksOk
<1> HIDE DEF chain, ext
<1>4. QED
  BY <1>1, <1>2, <1>3, ListOn

LEMMA PartsFollow ==
    ASSUME NEW c, {"base", "cur", "left"} \subseteq DOMAIN c, c.left \in Nat \ {0}
    PROVE  \/ Parts!Follow(c) = <<>>
           \/ \E e : /\ Parts!Follow(c) = <<e>> /\ {"base", "cur", "left"} \subseteq DOMAIN e
                     /\ e.left \in Nat \ {0} /\ e.left < c.left
<1> DEFINE e == [c EXCEPT !.cur = c.base + Parts!At(c.cur).slots[2].start, !.left = @ - 1]
<1>1. Parts!Follow(c) = <<>> \/ (Parts!Follow(c) = <<e>> /\ c.left # 1)
  BY Zenon DEF Parts!Follow
<1>2. {"base", "cur", "left"} \subseteq DOMAIN e /\ (c.left # 1 => e.left \in Nat \ {0} /\ e.left < c.left)
  OBVIOUS
<1> HIDE DEF e
<1>3. QED
  BY <1>1, <1>2, Zenon

LEMMA PartsFalls ==
    ASSUME PartsInv, [Parts!Next]_vars
    PROVE  PartsInv' /\ (Parts!Next => Parts!Shrinks)
<1> DEFINE phase == CASE pc = "probe" -> 2 [] pc = "walk" -> 1 [] OTHER -> 0
           left == IF work = <<>> THEN 0 ELSE work[1].left
<1>1. Parts!Rank = <<phase, Len(work), left>> /\ Parts!Rank' = <<phase', Len(work'), left'>>
  BY Zenon DEF Parts!Rank
<1>2. CASE Parts!Tables \/ Parts!Windows
  <2>1. /\ work' = work \/ work' = <<>> \/ work' = Parts!Chains
        /\ \/ pc = "probe" /\ pc' = "walk"
           \/ pc = "walk" /\ pc' = "done"
    BY <1>2, Zenon DEF Parts!Tables, Parts!Windows
  <2>2. PartsInv'
    BY <2>1, PartsChains, ListNone DEF PartsInv
  <2>3. phase' < phase /\ 0 < phase
    BY <2>1
  <2> HIDE DEF phase, left
  <2>4. QED
    BY <1>1, <2>2, <2>3, FallsOfThree DEF Parts!Shrinks, Parts!Falls, Ext!Falls
<1>3. CASE Parts!Link \/ Parts!Break
  <2>1. /\ pc = "walk" /\ pc' = pc /\ work # <<>>
        /\ work' = Tail(work) \/ work' = Parts!Follow(Head(work)) \o Tail(work)
    BY <1>3, Zenon DEF Parts!Link, Parts!Break
  <2>2. /\ IsList(Tail(work)) /\ Len(Tail(work)) = Len(work) - 1 /\ Len(work) \in Nat \ {0}
        /\ Head(work) = work[1] /\ \A n \in 1 .. Len(work) - 1 : Tail(work)[n] = work[n + 1]
    BY <2>1, ListTail DEF PartsInv
  <2>3. /\ {"base", "cur", "left"} \subseteq DOMAIN work[1] /\ work[1].left \in Nat \ {0}
        /\ \A n \in 1 .. Len(Tail(work)) : /\ {"base", "cur", "left"} \subseteq DOMAIN Tail(work)[n]
                                           /\ Tail(work)[n].left \in Nat \ {0}
    BY <2>2 DEF PartsInv
  <2>4. \/ work' = Tail(work)
        \/ work' = <<>> \o Tail(work)
        \/ \E e : /\ work' = <<e>> \o Tail(work) /\ {"base", "cur", "left"} \subseteq DOMAIN e
                  /\ e.left \in Nat \ {0} /\ e.left < work[1].left
    BY <2>1, <2>2, <2>3, PartsFollow, Zenon
  <2>5. phase' = phase /\ left = work[1].left
    BY <2>1
  <2> HIDE DEF phase
  <2>6. CASE work' = Tail(work) \/ work' = <<>> \o Tail(work)
    <3>1. work' = Tail(work)
      BY <2>2, <2>6, ListJoin, ListNone, ListIs
    <3>2. PartsInv' /\ Len(work') < Len(work) /\ 0 < Len(work)
      BY <2>2, <2>3, <3>1 DEF PartsInv
    <3> HIDE DEF left
    <3>3. QED
      BY <1>1, <2>5, <3>2, FallsOfThree DEF Parts!Shrinks, Parts!Falls, Ext!Falls
  <2>7. ASSUME NEW e, work' = <<e>> \o Tail(work), {"base", "cur", "left"} \subseteq DOMAIN e,
               e.left \in Nat \ {0}, e.left < work[1].left
        PROVE  PartsInv' /\ Parts!Shrinks
    <3>1. /\ IsList(work') /\ Len(work') = Len(work) /\ work'[1] = e
          /\ \A n \in 1 .. Len(work') : n # 1 => work'[n] = Tail(work)[n - 1]
      BY <2>2, <2>7, ListJoin, ListOne
    <3>2. PartsInv'
      BY <2>2, <2>3, <2>7, <3>1 DEF PartsInv
    <3>3. work' # <<>>
      BY <2>2, <3>1
    <3>4. left' < left /\ 0 < left
      BY <2>3, <2>5, <2>7, <3>1, <3>3
    <3> HIDE DEF left
    <3>5. Ext!Falls(Parts!Rank, Parts!Rank')
      BY <1>1, <2>5, <3>1, <3>4, FallsOfThree
    <3>6. QED
      BY <3>2, <3>5, Zenon DEF Parts!Shrinks, Parts!Falls, Ext!Falls
  <2>8. QED
    BY <2>4, <2>6, <2>7
<1>4. CASE UNCHANGED vars /\ ~Parts!Next
  BY <1>4 DEF vars, PartsInv
<1>5. QED
  BY <1>2, <1>3, <1>4, Zenon DEF Parts!Next

LostInv == disk \in LostDisks /\ work \in Int

LEMMA LostFalls ==
    ASSUME LostInv, [Lost!Next]_vars
    PROVE  LostInv' /\ (Lost!Next => Lost!Shrinks)
<1> DEFINE phase == CASE pc = "probe" -> 2 [] pc = "walk" -> 1 [] OTHER -> 0
           left == disk.total - work
<1>1. Lost!Rank = <<phase, left>> /\ Lost!Rank' = <<phase', left'>>
  BY Zenon DEF Lost!Rank
<1>2. LostChunk \in Nat \ {0} /\ disk.total \in Nat
  BY LostAssumption DEF LostInv, Lost!DisksOk
<1>3. /\ disk' = disk
      /\ \/ pc = "probe" /\ pc' = "walk" /\ work' = work
         \/ pc = "walk" /\ pc' = pc /\ work' = work + LostChunk /\ ~(work >= disk.total)
         \/ pc = "walk" /\ pc' = "done" /\ work' = work
         \/ UNCHANGED vars /\ ~Lost!Next
  BY Zenon DEF vars, Lost!Next, Lost!ScanGpt, Lost!Sweep, Lost!Finish, Lost!Over
<1>4. LostInv' /\ (Lost!Next => (phase' < phase /\ 0 < phase) \/ (phase' = phase /\ left' < left /\ 0 < left))
  BY <1>2, <1>3 DEF LostInv, vars
<1> HIDE DEF phase, left
<1>5. QED
  BY <1>1, <1>4, FallsOfTwo DEF Lost!Shrinks, Lost!Falls, Ext!Falls

ImageInv == work \in Int

LEMMA ImageFalls ==
    ASSUME ImageInv, [Image!Next]_vars
    PROVE  ImageInv' /\ (Image!Next => Image!Shrinks)
<1> DEFINE phase == CASE pc = "probe" -> 3 [] pc = "open" -> 2 [] pc = "walk" -> 1 [] OTHER -> 0
<1>1. Image!Rank = <<phase, work>> /\ Image!Rank' = <<phase', work'>>
  BY Zenon DEF Image!Rank
<1>2. \/ pc = "probe" /\ pc' \in {"open", "walk"} /\ work' = work
      \/ pc = "open" /\ pc' \in {"walk", "refused"} /\ work' = work
      \/ pc = "walk" /\ pc' = pc /\ work > 0 /\ work' = work - 1
      \/ pc = "walk" /\ pc' = "done" /\ work' = work
      \/ UNCHANGED vars /\ ~Image!Next
  BY Zenon DEF vars, Image!Next, Image!Detect, Image!Open, Image!Read, Image!Close
<1>3. ImageInv' /\ (Image!Next => (phase' < phase /\ 0 < phase) \/ (phase' = phase /\ work' < work /\ 0 < work))
  BY <1>2 DEF ImageInv, vars
<1> HIDE DEF phase
<1>4. QED
  BY <1>1, <1>3, FallsOfTwo DEF Image!Shrinks, Image!Falls, Ext!Falls

CarveInv == opts \in Scans /\ {"pos", "block"} \subseteq DOMAIN work /\ work.pos \in Int

LEMMA CarveFalls ==
    ASSUME CarveInv, [Carve!Next]_vars
    PROVE  CarveInv' /\ (Carve!Next => Carve!Shrinks)
<1> DEFINE phase == CASE pc = "infer" -> 2 [] pc = "scan" -> 1 [] OTHER -> 0
           left == opts.to - work.pos
<1>1. Carve!Rank = <<phase, left>> /\ Carve!Rank' = <<phase', left'>>
  BY Zenon DEF Carve!Rank
<1>2. CarveChunk \in Nat \ {0} /\ opts.to \in Nat
  BY CarveAssumption DEF CarveInv, Carve!RequestsOk
<1>3. /\ opts' = opts
      /\ \/ pc = "infer" /\ pc' = "scan" /\ \E b : work' = [work EXCEPT !.block = b]
         \/ pc = "scan" /\ pc' = pc /\ work.pos < opts.to /\ work' = [work EXCEPT !.pos = @ + CarveChunk]
         \/ pc = "scan" /\ pc' = "done" /\ work' = work
         \/ UNCHANGED vars /\ ~Carve!Next
  BY Zenon DEF vars, Carve!Next, Carve!Infer, Carve!Step, Carve!End
<1>4. CarveInv' /\ (Carve!Next => (phase' < phase /\ 0 < phase) \/ (phase' = phase /\ left' < left /\ 0 < left))
  BY <1>2, <1>3 DEF CarveInv, vars
<1> HIDE DEF phase, left
<1>5. QED
  BY <1>1, <1>4, FallsOfTwo DEF Carve!Shrinks, Carve!Falls, Ext!Falls

-----------------------------------------------------------------------------
(* The joining of a list of lists is a fold.                                  *)
JoinOp(arg, acc, s) == acc \o s
JoinKeeps(arg, acc, k) == acc \in Seq(arg)
Joins == INSTANCE FoldInduction WITH Op <- JoinOp, Keeps <- JoinKeeps

\* What FlattenSeq joins is a list of what the lists joined hold.
LEMMA FlattenIsList ==
    ASSUME NEW seqs, IsList(seqs), \A i \in 1 .. Len(seqs) : IsList(seqs[i])
    PROVE  LET flat == Ext!FlattenSeq(seqs) IN
           /\ IsList(flat)
           /\ \A k \in 1 .. Len(flat) : \E i \in 1 .. Len(seqs) : \E j \in 1 .. Len(seqs[i]) :
                flat[k] = seqs[i][j]
<1> DEFINE n == Len(seqs)
           S == UNION {{seqs[i][k] : k \in 1 .. Len(seqs[i])} : i \in 1 .. n}
<1>1. n \in Nat /\ seqs = [i \in 1 .. n |-> seqs[i]]
  BY ListIs
<1>2. \A i \in 1 .. n : seqs[i] \in Seq(S)
  <2> TAKE i \in 1 .. n
  <2>1. Len(seqs[i]) \in Nat /\ seqs[i] = [k \in 1 .. Len(seqs[i]) |-> seqs[i][k]]
    BY ListIs
  <2>2. \A k \in 1 .. Len(seqs[i]) : seqs[i][k] \in S
    OBVIOUS
  <2> HIDE DEF S
  <2>3. QED
    BY <2>1, <2>2
<1>3. \A x \in S : \E i \in 1 .. n : \E k \in 1 .. Len(seqs[i]) : x = seqs[i][k]
  OBVIOUS
<1> HIDE DEF S
<1>4. Ext!FlattenSeq(seqs) = Joins!Fold(S, <<>>, seqs)
  BY Zenon DEF Ext!FlattenSeq, Ext!FoldLeft, Ext!MapThenFoldSet, Ext!Max, Joins!Fold, JoinOp, Joins!MapThenFoldSet,
     Joins!Max
<1>5. /\ JoinKeeps(S, <<>>, 0)
      /\ \A k \in 1 .. n : \A acc : JoinKeeps(S, acc, k - 1) => JoinKeeps(S, JoinOp(S, acc, seqs[k]), k)
  BY <1>2 DEF JoinKeeps, JoinOp
<1>6. Joins!Fold(S, <<>>, seqs) \in Seq(S)
  BY <1>1, <1>5, Joins!FoldKeeps, Zenon DEF JoinKeeps
<1> DEFINE flat == Joins!Fold(S, <<>>, seqs)
<1> HIDE DEF flat, n
<1>7. IsList(flat) /\ \A k \in 1 .. Len(flat) : flat[k] \in S
  BY <1>6 DEF IsList, flat
<1>8. \A k \in 1 .. Len(flat) : \E i \in 1 .. n : \E j \in 1 .. Len(seqs[i]) : flat[k] = seqs[i][j]
  BY <1>3, <1>7, Zenon
<1>9. QED
  BY <1>4, <1>7, <1>8, ZenonT(40) DEF flat, n

-----------------------------------------------------------------------------
(* The walks of FAT, exFAT and ISO: each record of a directory is a turn of   *)
(* the fold, asks the limit before it emits, and gives directories that are   *)
(* on the disk.                                                               *)
\* The fold of a walk: what a directory's records make of what was emitted.
CapKeeps(arg, acc, k) == "out" \in DOMAIN acc /\ Within(acc.out, opts.max)

\* A turn keeps the cap if it emits nothing, or one entry where the limit allows it.
LEMMA CapTurn ==
    ASSUME opts.max \in Nat, NEW arg, NEW acc, NEW new, NEW k, CapKeeps(arg, acc, k - 1), "out" \in DOMAIN new,
           new.out = acc.out \/ (~(Len(acc.out) >= opts.max) /\ \E e : new.out = Append(acc.out, e))
    PROVE  CapKeeps(arg, new, k)
BY WithinAppend DEF CapKeeps

FatOp(dir, acc, i) ==
    Fat!Slot(acc, Fat!ReadDirectory(dir)[i], i, dir, Fat!SfnNames(Fat!ReadDirectory(dir)))

FatChainOp(c, chain, i) ==
    LET next == IF chain = <<>> THEN c ELSE Fat!FatEntry(Fat!Last(chain))
        moves == chain = <<>> \/ next # Fat!Last(chain)
    IN  IF Fat!InHeap(next) /\ moves THEN Append(chain, next) ELSE chain
ListKeeps(arg, acc, k) == IsList(acc)
FatChains == INSTANCE FoldInduction WITH Op <- FatChainOp, Keeps <- ListKeeps

\* A chain is a list.
LEMMA FatFollow == ASSUME NEW c, NEW cap \in Nat PROVE IsList(Fat!Follow(c, cap))
<1> DEFINE at == [i \in 1 .. cap |-> i]
<1>1. Len(at) \in Nat /\ DOMAIN at = 1 .. Len(at)
  OBVIOUS
<1>2. ListKeeps(c, <<>>, 0) /\ \A j \in 1 .. Len(at) : \A acc : ListKeeps(c, acc, j - 1) => ListKeeps(c, FatChainOp(c, acc, at[j]), j)
  BY ListNone, ListAppend, Zenon DEF ListKeeps, FatChainOp
<1> HIDE DEF at
<1>3. ListKeeps(c, FatChains!Fold(c, <<>>, at), Len(at))
  BY <1>1, <1>2, FatChains!FoldKeeps
<1>4. Fat!Follow(c, cap) = FatChains!Fold(c, <<>>, at)
  BY Zenon DEF at, Fat!Follow, Fat!FollowChain, Fat!Repeat, FatChains!Fold, FatChainOp, Fat!FoldLeft, Fat!MapThenFoldSet,
     Fat!Max, FatChains!MapThenFoldSet, FatChains!Max
<1>5. QED
  BY <1>3, <1>4 DEF ListKeeps

\* A directory has places, whatever the disk holds: the end mark is looked for, and
\* what is before it are slots on the disk.
LEMMA FatSlots ==
    ASSUME disk \in FatDisks, Fat!ProbeOk(disk), NEW dir
    PROVE  /\ IsList(Fat!ReadDirectory(dir))
           /\ \A n \in 1 .. Len(Fat!ReadDirectory(dir)) :
                Fat!ReadDirectory(dir)[n] \in Fat!SlotsOn(disk) /\ Fat!ReadDirectory(dir)[n].k # "end"
<1> DEFINE chain == Fat!Chain(dir.first, MaxDirBlocks)
           read == [i \in DOMAIN chain |-> Fat!SlotsOf(chain[i])]
           all == IF dir.fixed THEN disk.root ELSE Fat!FlattenSeq(read)
           t == all \o Fat!Zeroed
           I == {i \in 1 .. Len(t) : t[i].k = "end"}
           at == IF I # {} THEN (CHOOSE x \in I : \A y \in I : x <= y) ELSE 0
<1>1. Fat!ReadDirectory(dir) = SubSeq(all, 1, at - 1)
  BY Zenon DEF Fat!ReadDirectory, Fat!SelectInSeq, Fat!Min
<1>2. IsList(disk.root) /\ \A c \in DOMAIN disk.slots : IsList(disk.slots[c])
  BY FatAssumption, Zenon DEF Fat!DisksOk, Fat!IsSeq, IsList
<1>3. IsList(chain)
  <2>1. Fat!Count \in Nat /\ MaxDirBlocks \in Nat
    BY FatAssumption DEF Fat!DisksOk, Fat!ProbeOk, Fat!ValidBpb, Fat!Count, Fat!Bpb, Fat!OpenedBpb, Fat!ClusterCount, Fat!Monus, Fat!FirstData
  <2>2. (IF MaxDirBlocks = 0 THEN 1 ELSE Fat!Least(MaxDirBlocks, Fat!Count + 2)) \in Nat
    BY <2>1 DEF Fat!Least
  <2>3. QED
    BY <2>2, FatFollow, Zenon DEF Fat!Chain
<1> HIDE DEF chain
<1>4. \A c : IsList(Fat!SlotsOf(c)) /\ \A j \in 1 .. Len(Fat!SlotsOf(c)) :
           Fat!SlotsOf(c)[j] \in Fat!SlotsOn(disk) \/ Fat!SlotsOf(c)[j].k = "end"
  <2> TAKE c
  <2>1. CASE c \in disk.bad \/ c \notin DOMAIN disk.slots
    BY <2>1, ListOne DEF Fat!SlotsOf, Fat!Zeroed
  <2>2. CASE ~(c \in disk.bad \/ c \notin DOMAIN disk.slots)
    <3>1. \A j \in DOMAIN disk.slots[c] : disk.slots[c][j] \in Fat!SlotsOn(disk)
      <4>1. \A j \in DOMAIN disk.slots[c] : disk.slots[c][j] \in Fat!ToSet(disk.slots[c])
        BY DEF Fat!ToSet
      <4>2. QED
        BY <2>2, <4>1 DEF Fat!SlotsOn
    <3>2. QED
      BY <1>2, <2>2, <3>1, ListIs DEF Fat!SlotsOf
  <2>3. QED
    BY <2>1, <2>2
<1>5. IsList(all) /\ \A j \in 1 .. Len(all) : all[j] \in Fat!SlotsOn(disk) \/ all[j].k = "end"
  <2>1. CASE dir.fixed
    BY <2>1, <1>2, ListIs DEF Fat!SlotsOn, Fat!ToSet
  <2>2. CASE ~dir.fixed
    <3>1. Len(chain) \in Nat /\ DOMAIN chain = 1 .. Len(chain)
      BY <1>3, ListIs
    <3>2. IsList(read) /\ Len(read) = Len(chain)
      BY <3>1, ListOn
    <3>3. Fat!FlattenSeq(read) = Ext!FlattenSeq(read)
      BY Zenon DEF Fat!FlattenSeq, Fat!FoldLeft, Fat!MapThenFoldSet, Fat!Max, Ext!FlattenSeq, Ext!FoldLeft,
                   Ext!MapThenFoldSet, Ext!Max
    <3>4. \A i \in 1 .. Len(read) : read[i] = Fat!SlotsOf(chain[i])
      BY <3>1, <3>2
    <3> HIDE DEF read
    <3>5. \A i \in 1 .. Len(read) : IsList(read[i])
      BY <1>4, <3>4, Zenon
    <3> DEFINE flat == Ext!FlattenSeq(read)
    <3>6. /\ IsList(flat)
          /\ \A k \in 1 .. Len(flat) : \E i \in 1 .. Len(read) : \E j \in 1 .. Len(read[i]) : flat[k] = read[i][j]
      BY <3>2, <3>5, FlattenIsList, Zenon
    <3> HIDE DEF flat
    <3>7. ASSUME NEW k \in 1 .. Len(flat)
          PROVE  flat[k] \in Fat!SlotsOn(disk) \/ flat[k].k = "end"
      <4>1. PICK i \in 1 .. Len(read) : \E j \in 1 .. Len(read[i]) : flat[k] = read[i][j]
        BY <3>6, Zenon
      <4>2. read[i] = Fat!SlotsOf(chain[i])
        BY <3>4, Zenon
      <4>3. QED
        BY <1>4, <4>1, <4>2, Zenon
    <3>8. all = flat
      BY <2>2, <3>3, Zenon DEF flat
    <3> HIDE DEF all
    <3>9. QED
      BY <3>6, <3>7, <3>8, Zenon
  <2>3. QED
    BY <2>1, <2>2
<1> HIDE DEF all
<1>6. at \in 1 .. Len(all) + 1 /\ \A j \in 1 .. at - 1 : all[j].k # "end"
  <2>1. /\ Len(all) \in Nat /\ Len(t) = Len(all) + 1
        /\ \A n \in 1 .. Len(all) + 1 : t[n] = IF n \in 1 .. Len(all) THEN all[n] ELSE Fat!Zeroed[1]
    <3>1. IsList(Fat!Zeroed) /\ Len(Fat!Zeroed) = 1
      BY ListOne, Zenon DEF Fat!Zeroed
    <3>2. /\ Len(t) = Len(all) + Len(Fat!Zeroed)
          /\ \A n \in 1 .. Len(all) + Len(Fat!Zeroed) :
                t[n] = IF n <= Len(all) THEN all[n] ELSE Fat!Zeroed[n - Len(all)]
      BY <1>5, <3>1, ListJoin, Zenon
    <3>3. Len(all) \in Nat
      BY <1>5, ListIs
    <3> HIDE DEF t
    <3>4. QED
      BY <3>1, <3>2, <3>3
  <2>2. I \in SUBSET Nat /\ Len(t) \in I
    BY <2>1 DEF Fat!Zeroed
  <2>3. at \in I /\ \A y \in I : at <= y
    BY <2>2, Joins!LeastOf
  <2> HIDE DEF at, t
  <2>4. at \in 1 .. Len(all) + 1
    BY <2>1, <2>3
  <2>5. ASSUME NEW j \in 1 .. at - 1
        PROVE  all[j].k # "end"
    <3>1. j \in 1 .. Len(all) /\ j \in 1 .. Len(t) /\ ~(at <= j)
      BY <2>1, <2>4
    <3>2. t[j] = all[j]
      BY <2>1, <3>1
    <3>3. j \notin I
      BY <2>3, <3>1, Zenon
    <3>4. QED
      BY <3>1, <3>2, <3>3, Zenon
  <2>6. QED
    BY <2>4, <2>5, Zenon
<1> HIDE DEF at
<1>7. /\ IsList(SubSeq(all, 1, at - 1)) /\ Len(SubSeq(all, 1, at - 1)) = at - 1
      /\ \A n \in 1 .. Len(SubSeq(all, 1, at - 1)) : SubSeq(all, 1, at - 1)[n] = all[n] /\ n \in 1 .. Len(all)
  BY <1>5, <1>6, ListCut
<1>8. \A n \in 1 .. Len(SubSeq(all, 1, at - 1)) :
        SubSeq(all, 1, at - 1)[n] \in Fat!SlotsOn(disk) /\ SubSeq(all, 1, at - 1)[n].k # "end"
  BY <1>5, <1>6, <1>7
<1>9. QED
  BY <1>1, <1>7, <1>8

\* The directories to walk: each starts where the disk says, and is not the fixed root.
FatDirs(dirs) == IsList(dirs) /\ \A n \in 1 .. Len(dirs) : dirs[n].first \in Fat!Starts /\ ~dirs[n].fixed
FatKeeps(dir, acc, k) == CapKeeps(dir, acc, k) /\ "subs" \in DOMAIN acc /\ FatDirs(acc.subs)
FatTurns == INSTANCE FoldInduction WITH Op <- FatOp, Keeps <- FatKeeps
FatSound == disk \in FatDisks /\ Fat!ProbeOk(disk) /\ opts.max \in Nat

LEMMA FatTurn ==
    ASSUME FatSound, NEW dir, NEW k, NEW i \in 1 .. Len(Fat!ReadDirectory(dir)), NEW acc, FatKeeps(dir, acc, k - 1)
    PROVE  FatKeeps(dir, FatOp(dir, acc, i), k)
<1> DEFINE new == FatOp(dir, acc, i)
           s == Fat!ReadDirectory(dir)[i]
           name == Fat!NameOf(s, acc.pieces, Fat!SfnNames(Fat!ReadDirectory(dir)))
           first == Fat!FirstOf(s)
           entry == Fat!EntryOf(s, i, dir, name, Fat!NameConf(s, acc.pieces, name))
           emitted == IF Fat!Wanted(opts, s.deleted) THEN Append(acc.out, entry) ELSE acc.out
           next == [first |-> first, fixed |-> FALSE, depth |-> dir.depth + 1, path |-> Append(dir.path, name)]
           subs == IF s.dir /\ ~s.deleted /\ first >= 2 THEN Append(acc.subs, next) ELSE acc.subs
<1>1. new = IF Len(acc.out) >= opts.max THEN acc
            ELSE IF s.k = "lfn" THEN [acc EXCEPT !.pieces = Append(@, s.char)]
            ELSE IF s.k = "label" \/ name[1] = "." THEN [acc EXCEPT !.pieces = <<>>]
            ELSE [pieces |-> <<>>, out |-> emitted, subs |-> subs]
  BY Zenon DEF FatOp, Fat!Slot, Fat!Full
<1>2. emitted = acc.out \/ emitted = Append(acc.out, entry)
  OBVIOUS
<1>3. CapKeeps(dir, acc, k - 1) /\ "subs" \in DOMAIN acc /\ FatDirs(acc.subs)
  BY DEF FatKeeps
<1>4. ASSUME s.k \notin {"lfn", "label"} PROVE FatDirs(subs)
  <2>1. CASE s.dir /\ ~s.deleted /\ first >= 2
    <3>1. first \in Fat!Starts
      BY <1>4, <2>1, FatSlots DEF Fat!Starts, Fat!StartsOn, Fat!FirstOf, FatSound
    <3>2. next.first = first /\ ~next.fixed
      OBVIOUS
    <3> HIDE DEF next
    <3>3. FatDirs(Append(acc.subs, next))
      BY <1>3, <3>1, <3>2, ListAppend DEF FatDirs
    <3>4. QED
      BY <2>1, <3>3
  <2>2. QED
    BY <1>3, <2>1
<1> HIDE DEF new, s, name, first, entry, emitted, subs
<1>5. "out" \in DOMAIN new /\ (new.out = acc.out \/ (~(Len(acc.out) >= opts.max) /\ \E e : new.out = Append(acc.out, e)))
      /\ "subs" \in DOMAIN new /\ FatDirs(new.subs)
  BY <1>1, <1>2, <1>3, <1>4 DEF CapKeeps
<1>6. QED
  BY <1>3, <1>5, CapTurn DEF FatKeeps, FatSound, new

LEMMA FatScan ==
    ASSUME FatSound, Within(out, opts.max), NEW dir
    PROVE  Within(Fat!Scan(dir).out, opts.max) /\ FatDirs(Fat!Scan(dir).subs)
<1> DEFINE slots == Fat!ReadDirectory(dir)
           base == [pieces |-> <<>>, out |-> out, subs |-> <<>>]
           at == [i \in DOMAIN slots |-> i]
<1>1. Len(at) \in Nat /\ DOMAIN at = 1 .. Len(at) /\ \A j \in 1 .. Len(at) : at[j] \in 1 .. Len(slots)
  <2>1. Len(slots) \in Nat /\ DOMAIN slots = 1 .. Len(slots)
    BY FatSlots, ListIs DEF FatSound
  <2>2. QED
    BY <2>1, Indices
<1>2. FatKeeps(dir, base, 0)
  BY ListNone DEF FatKeeps, CapKeeps, FatDirs
<1>3. FatKeeps(dir, FatTurns!Fold(dir, base, at), Len(at))
  <2> HIDE DEF base, at
  <2>1. \A j \in 1 .. Len(at) : \A acc : FatKeeps(dir, acc, j - 1) => FatKeeps(dir, FatOp(dir, acc, at[j]), j)
    BY <1>1, FatTurn
  <2>2. QED
    BY <1>1, <1>2, <2>1, FatTurns!FoldKeeps
<1>4. Fat!Scan(dir) = FatTurns!Fold(dir, base, at)
  BY Zenon DEF Fat!Scan, FatTurns!Fold, FatOp, Fat!FoldLeftDomain, Fat!FoldLeft, Fat!MapThenFoldSet, Fat!Max,
     FatTurns!MapThenFoldSet, FatTurns!Max
<1> HIDE DEF base, at
<1>5. QED
  BY <1>3, <1>4 DEF FatKeeps, CapKeeps

FatWork ==
    IsList(work) /\ \A n \in 1 .. Len(work) : work[n].first \in Fat!Starts /\ (n > 1 => ~work[n].fixed)
FatInv ==
    /\ disk \in FatDisks /\ opts.max \in Nat /\ Within(out, opts.max)
    /\ pc \in {"open", "walk"} => Fat!ProbeOk(disk)
    /\ FatWork

LEMMA FatFinite == ASSUME disk \in FatDisks PROVE IsFiniteSet(Fat!Starts)
<1> DEFINE S == {t \in Fat!SlotsOn(disk) : t.k \notin {"end", "lfn", "label"} /\ t.dir /\ ~t.deleted}
           f == [s \in S |-> s.hi * LoSpan + s.lo]
<1>1. IsFiniteSet(Fat!SlotsOn(disk))
  BY FatAssumption, Zenon DEF Fat!DisksOk, Fat!IsFiniteSet, IsFiniteSet
<1>2. IsFiniteSet(S)
  BY <1>1, FS_Subset, Zenon
<1>3. \E x : Fat!Starts = {f[s] : s \in S} \cup {x}
  BY DEF Fat!Starts, Fat!StartsOn
<1>4. f = [s \in S |-> f[s]]
  OBVIOUS
<1> HIDE DEF S, f
<1>5. IsFiniteSet({f[s] : s \in S})
  BY <1>2, <1>4, ImageFinite, Zenon
<1>6. QED
  BY <1>3, <1>5, FS_AddElement, Zenon

LEMMA FatFalls ==
    ASSUME FatInv, [Fat!Next]_vars
    PROVE  FatInv' /\ (Fat!Next => Fat!Shrinks)
<1> DEFINE phase == CASE pc = "probe" -> 3 [] pc = "open" -> 2 [] pc = "walk" -> 1 [] OTHER -> 0
           left == Cardinality(Fat!Starts \ seen)
           fixed == IF work = <<>> THEN 0 ELSE IF work[1].fixed THEN 1 ELSE 0
<1>1. disk' = disk /\ opts' = opts /\ (pc' \in {"open", "walk"} => Fat!ProbeOk(disk))
  BY DEF FatInv, Fat!Next, vars, Fat!Probe, Fat!Open, Fat!Return, Fat!WalkDir, Fat!Finish
<1>0. Fat!Starts' = Fat!Starts
  BY <1>1 DEF Fat!Starts
<1>2. Fat!Rank = <<phase, left, fixed, Len(work)>> /\ Fat!Rank' = <<phase', left', fixed', Len(work')>>
  BY Zenon DEF Fat!Rank, Fat!Cardinality, Cardinality
<1>3. Fat!Shrinks = Ext!Falls(Fat!Rank, Fat!Rank')
  BY Zenon DEF Fat!Shrinks, Fat!Falls, Ext!Falls
<1>4. CASE Fat!Next /\ pc # "walk"
  <2>0. /\ out' = out /\ (work' = work \/ work' = <<Fat!RootDir>>)
        /\ (pc = "probe" /\ pc' \in {"open", "refused"}) \/ (pc = "open" /\ pc' = "walk")
    BY <1>4 DEF Fat!Next, Fat!Probe, Fat!Open, Fat!Return, Fat!WalkDir, Fat!Finish
  <2>1. FatWork' /\ Within(out', opts.max)
    <3>2. Fat!RootDir.first \in Fat!Starts
      <4>1. Fat!RootDir.first = IF Fat!Kind(Fat!OpenedBpb(disk)) = "fat32" THEN Fat!OpenedBpb(disk).rootCluster ELSE 0
        BY DEF Fat!RootDir, Fat!Bpb
      <4>2. QED
        BY <4>1, Zenon DEF Fat!Starts, Fat!StartsOn
    <3>3. CASE work' = <<Fat!RootDir>>
      <4>1. IsList(work') /\ Len(work') = 1 /\ work'[1] = Fat!RootDir
        BY <3>3, ListOne, Zenon
      <4>2. \A n \in 1 .. Len(work') : n = 1 /\ ~(n > 1)
        BY <4>1
      <4>3. QED
        BY <1>0, <2>0, <3>2, <4>1, <4>2 DEF FatInv, FatWork
    <3>4. QED
      BY <1>0, <2>0, <3>3 DEF FatInv, FatWork
  <2>2. phase' < phase /\ 0 < phase
    BY <2>0
  <2> HIDE DEF phase, left, fixed
  <2>3. QED
    BY <1>1, <1>2, <1>3, <2>1, <2>2, FallsOfFour DEF FatInv
<1>5. CASE Fat!Return
  <2>1. work # <<>> /\ work' = Tail(work) /\ out' = out /\ seen' = seen /\ pc' = pc /\ IsList(work)
    BY <1>5 DEF Fat!Return, FatInv, FatWork
  <2>2. FatWork' /\ Len(work') < Len(work) /\ 0 < Len(work) /\ fixed' = 0
    BY <1>0, <1>1, <2>1, ListTail DEF FatInv, FatWork
  <2>3. phase' = phase /\ left' = left /\ fixed \in 0 .. 1
    BY <1>0, <1>1, <2>1
  <2> HIDE DEF phase, left, fixed
  <2>4. QED
    BY <1>1, <1>2, <1>3, <2>1, <2>2, <2>3, FallsOfFour DEF FatInv
<1>6. CASE Fat!WalkDir
  <2> DEFINE dir == work[1]
             scan == Fat!Scan(dir)
  <2>1. /\ work # <<>> /\ IsList(work) /\ pc' = pc /\ pc = "walk" /\ Head(work) = dir /\ 1 \in 1 .. Len(work)
    BY <1>6, ListTail DEF Fat!WalkDir, FatInv, FatWork
  <2>2. /\ ~Fat!Skips(dir) /\ work' = scan.subs \o Tail(work) /\ out' = scan.out
        /\ seen' = IF dir.fixed THEN seen ELSE seen \cup {dir.first}
    BY <1>6, <2>1, Zenon DEF Fat!WalkDir
  <2>3. Within(out', opts.max) /\ FatDirs(scan.subs)
    BY <2>1, <2>2, FatScan DEF FatInv, FatSound
  <2> HIDE DEF scan
  <2>4. IsList(work') /\ \A n \in 1 .. Len(work') : work'[n].first \in Fat!Starts /\ ~work'[n].fixed
    BY <2>1, <2>2, <2>3, ListTail, ListJoin DEF FatDirs, FatInv, FatWork
  <2>5. FatWork' /\ fixed' = 0 /\ phase' = phase
    BY <1>0, <1>1, <2>1, <2>4, ListIs DEF FatWork
  <2>6. (dir.fixed /\ left' = left /\ fixed = 1) \/ (left' < left /\ 0 < left)
    BY <1>0, <1>1, <2>1, <2>2, FatFinite, FewerLeft DEF FatInv, FatWork, Fat!Skips
  <2> HIDE DEF phase, left, fixed
  <2>7. QED
    BY <1>1, <1>2, <1>3, <2>3, <2>5, <2>6, FallsOfFour DEF FatInv
<1>7. CASE Fat!Finish
  <2>1. FatWork' /\ Within(out', opts.max) /\ phase' < phase /\ 0 < phase
    BY <1>0, <1>1, <1>7 DEF FatInv, FatWork, Fat!Finish
  <2> HIDE DEF phase, left, fixed
  <2>2. QED
    BY <1>1, <1>2, <1>3, <2>1, FallsOfFour DEF FatInv
<1>8. CASE UNCHANGED vars /\ ~Fat!Next
  BY <1>0, <1>1, <1>8 DEF vars, FatInv, FatWork
<1>9. QED
  BY <1>4, <1>5, <1>6, <1>7, <1>8 DEF Fat!Next, Fat!Probe, Fat!Open

ExfatChainOp(c, chain, i) ==
    LET next == IF chain = <<>> THEN c ELSE Exfat!FatNext(Exfat!Last(chain))
        moves == chain = <<>> \/ next # Exfat!Last(chain)
    IN  IF Exfat!InHeap(next) /\ moves THEN Append(chain, next) ELSE chain
ExfatChains == INSTANCE FoldInduction WITH Op <- ExfatChainOp, Keeps <- ListKeeps

LEMMA ExfatFollow == ASSUME NEW c, NEW cap \in Nat PROVE IsList(Exfat!Follow(c, cap))
<1> DEFINE at == [i \in 1 .. cap |-> i]
<1>1. Len(at) \in Nat /\ DOMAIN at = 1 .. Len(at)
  OBVIOUS
<1>2. /\ ListKeeps(c, <<>>, 0)
      /\ \A j \in 1 .. Len(at) : \A acc : ListKeeps(c, acc, j - 1) => ListKeeps(c, ExfatChainOp(c, acc, at[j]), j)
  BY ListNone, ListAppend, Zenon DEF ListKeeps, ExfatChainOp
<1> HIDE DEF at
<1>3. ListKeeps(c, ExfatChains!Fold(c, <<>>, at), Len(at))
  BY <1>1, <1>2, ExfatChains!FoldKeeps
<1>4. Exfat!Follow(c, cap) = ExfatChains!Fold(c, <<>>, at)
  BY Zenon DEF at, Exfat!Follow, Exfat!FollowChain, Exfat!Repeat, ExfatChains!Fold, ExfatChainOp, Exfat!FoldLeft,
     Exfat!MapThenFoldSet, Exfat!Max, ExfatChains!MapThenFoldSet, ExfatChains!Max
<1>5. QED
  BY <1>3, <1>4 DEF ListKeeps

\* The same for exFAT, whose entries are sets of neighbours.
LEMMA ExfatSlots ==
    ASSUME disk \in ExfatDisks, NEW first
    PROVE  /\ IsList(Exfat!ReadDirectory(first))
           /\ \A n \in 1 .. Len(Exfat!ReadDirectory(first)) :
                \/ Exfat!ReadDirectory(first)[n] \in Exfat!SlotsOn(disk)
                \/ Exfat!ReadDirectory(first)[n].k = "end"
<1> DEFINE chain == Exfat!Chain(first, MaxDirBlocks)
           read == [i \in DOMAIN chain |-> Exfat!EntriesOf(chain[i])]
           all == Exfat!FlattenSeq(read)
           t == Append(all, Exfat!End)
           I == {i \in 1 .. Len(t) : t[i].k = "end"}
           at == IF I # {} THEN (CHOOSE x \in I : \A y \in I : x <= y) ELSE 0
<1>1. Exfat!ReadDirectory(first) = SubSeq(all, 1, at - 1)
  BY Zenon DEF Exfat!ReadDirectory, Exfat!SelectInSeq, Exfat!Min
<1>2. IsList(chain)
  <2>1. Exfat!Count \in Nat /\ MaxDirBlocks \in Nat
    BY ExfatAssumption, Zenon DEF Exfat!DisksOk, Exfat!Count, Exfat!Boot
  <2>2. (IF MaxDirBlocks = 0 THEN 1 ELSE Exfat!Least(MaxDirBlocks, Exfat!Count + 2)) \in Nat
    BY <2>1 DEF Exfat!Least
  <2>3. QED
    BY <2>2, ExfatFollow, Zenon DEF Exfat!Chain
<1> HIDE DEF chain
<1>3. \A c : IsList(Exfat!EntriesOf(c)) /\ \A j \in 1 .. Len(Exfat!EntriesOf(c)) :
           Exfat!EntriesOf(c)[j] \in Exfat!SlotsOn(disk) \/ Exfat!EntriesOf(c)[j].k = "end"
  <2> TAKE c
  <2>1. CASE c \in disk.bad \/ c \notin DOMAIN disk.slots
    BY <2>1, ListOne DEF Exfat!EntriesOf, Exfat!End
  <2>2. CASE ~(c \in disk.bad \/ c \notin DOMAIN disk.slots)
    <3>1. IsList(disk.slots[c])
      BY <2>2, ExfatAssumption, Zenon DEF Exfat!DisksOk, Exfat!IsSeq, IsList
    <3>2. \A j \in DOMAIN disk.slots[c] : disk.slots[c][j] \in Exfat!ToSet(disk.slots[c])
      BY DEF Exfat!ToSet
    <3>3. QED
      BY <2>2, <3>1, <3>2, ListIs DEF Exfat!EntriesOf, Exfat!SlotsOn
  <2>3. QED
    BY <2>1, <2>2
<1>4. IsList(all) /\ \A j \in 1 .. Len(all) : all[j] \in Exfat!SlotsOn(disk) \/ all[j].k = "end"
  <2>1. Len(chain) \in Nat /\ DOMAIN chain = 1 .. Len(chain)
    BY <1>2, ListIs
  <2>2. IsList(read) /\ Len(read) = Len(chain)
    BY <2>1, ListOn
  <2>3. all = Ext!FlattenSeq(read)
    BY Zenon DEF Exfat!FlattenSeq, Exfat!FoldLeft, Exfat!MapThenFoldSet, Exfat!Max, Ext!FlattenSeq, Ext!FoldLeft,
                   Ext!MapThenFoldSet, Ext!Max
  <2>4. \A i \in 1 .. Len(read) : read[i] = Exfat!EntriesOf(chain[i])
    BY <2>1, <2>2
  <2> HIDE DEF read, all
  <2>5. \A i \in 1 .. Len(read) : IsList(read[i])
    BY <1>3, <2>4, Zenon
  <2>6. /\ IsList(all)
        /\ \A k \in 1 .. Len(all) : \E i \in 1 .. Len(read) : \E j \in 1 .. Len(read[i]) : all[k] = read[i][j]
    BY <2>2, <2>3, <2>5, FlattenIsList, Zenon
  <2>7. ASSUME NEW k \in 1 .. Len(all)
        PROVE  all[k] \in Exfat!SlotsOn(disk) \/ all[k].k = "end"
    <3>1. PICK i \in 1 .. Len(read) : \E j \in 1 .. Len(read[i]) : all[k] = read[i][j]
      BY <2>6, Zenon
    <3>2. read[i] = Exfat!EntriesOf(chain[i])
      BY <2>4, Zenon
    <3>3. QED
      BY <1>3, <3>1, <3>2, Zenon
  <2>8. QED
    BY <2>6, <2>7, Zenon
<1> HIDE DEF all
<1>5. at \in 1 .. Len(all) + 1
  <2>1. Len(t) = Len(all) + 1 /\ t[Len(t)].k = "end" /\ Len(all) \in Nat
    <3>1. /\ Len(all) \in Nat /\ Len(t) = Len(all) + 1
          /\ \A n \in 1 .. Len(all) + 1 : t[n] = IF n \in 1 .. Len(all) THEN all[n] ELSE Exfat!End
      BY <1>4, ListAppend, Zenon
    <3>2. QED
      BY <3>1 DEF Exfat!End
  <2>2. I \in SUBSET Nat /\ Len(t) \in I
    BY <2>1
  <2>3. at \in I /\ \A y \in I : at <= y
    BY <2>2, Joins!LeastOf
  <2> HIDE DEF at, t
  <2>4. QED
    BY <2>1, <2>2, <2>3
<1> HIDE DEF at
<1>6. /\ IsList(SubSeq(all, 1, at - 1))
      /\ \A n \in 1 .. Len(SubSeq(all, 1, at - 1)) : SubSeq(all, 1, at - 1)[n] = all[n] /\ n \in 1 .. Len(all)
  BY <1>4, <1>5, ListCut
<1>7. QED
  BY <1>1, <1>4, <1>6, Zenon

ExfatOp(dir, acc, i) == Exfat!ScanEntry(acc, Exfat!ReadDirectory(dir.first), i, dir)
ExfatDirs(dirs) == IsList(dirs) /\ \A n \in 1 .. Len(dirs) : dirs[n].first \in Exfat!Starts
ExfatKeeps(dir, acc, k) == CapKeeps(dir, acc, k) /\ "subs" \in DOMAIN acc /\ ExfatDirs(acc.subs)
ExfatTurns == INSTANCE FoldInduction WITH Op <- ExfatOp, Keeps <- ExfatKeeps

ExfatSound == disk \in ExfatDisks /\ opts.max \in Nat

LEMMA ExfatTurn ==
    ASSUME ExfatSound, NEW dir, NEW k, NEW i \in 1 .. Len(Exfat!ReadDirectory(dir.first)), NEW acc,
           ExfatKeeps(dir, acc, k - 1)
    PROVE  ExfatKeeps(dir, ExfatOp(dir, acc, i), k)
<1> DEFINE new == ExfatOp(dir, acc, i)
           slots == Exfat!ReadDirectory(dir.first)
           f == slots[i]
           s == slots[i + 1]
           emits == Exfat!Wanted(opts, f.deleted) /\ (f.dir => Exfat!NameAt(slots, i) # <<>>)
           entry == Exfat!EntryAt(slots, i, dir)
           after == i + 1 + (IF f.secondary = 0 THEN 1 ELSE f.secondary)
           emitted == IF emits THEN Append(acc.out, entry) ELSE acc.out
           next == [first |-> s.first, depth |-> dir.depth + 1, path |-> Append(dir.path, Exfat!NameAt(slots, i))]
           subs == IF f.dir /\ Exfat!Descends(f, s) THEN Append(acc.subs, next) ELSE acc.subs
<1>1. new = IF i < acc.next \/ Len(acc.out) >= opts.max \/ ~Exfat!IsSet(slots, i) THEN acc
            ELSE [next |-> after, out |-> emitted, subs |-> subs]
  BY Zenon DEF ExfatOp, Exfat!ScanEntry, Exfat!Full
<1>2. emitted = acc.out \/ emitted = Append(acc.out, entry)
  OBVIOUS
<1>3. CapKeeps(dir, acc, k - 1) /\ "subs" \in DOMAIN acc /\ ExfatDirs(acc.subs)
  BY DEF ExfatKeeps
<1>4. ASSUME Exfat!IsSet(slots, i) PROVE ExfatDirs(subs)
  <2>1. s.first \in Exfat!Starts
    <3>1. i + 1 \in 1 .. Len(slots) /\ s.k = "stream"
      BY <1>4, ExfatSlots, ListIs DEF ExfatSound, Exfat!IsSet
    <3>2. s \in Exfat!SlotsOn(disk)
      BY <3>1, ExfatSlots DEF ExfatSound
    <3>3. QED
      BY <3>1, <3>2, Zenon DEF Exfat!Starts, Exfat!StartsOn
  <2>2. next.first = s.first
    OBVIOUS
  <2> HIDE DEF next, s
  <2>3. ExfatDirs(Append(acc.subs, next))
    BY <1>3, <2>1, <2>2, ListAppend DEF ExfatDirs
  <2>4. QED
    BY <1>3, <2>3
<1> HIDE DEF new, slots, f, s, emits, entry, after, emitted, subs
<1>5. "out" \in DOMAIN new /\ (new.out = acc.out \/ (~(Len(acc.out) >= opts.max) /\ \E e : new.out = Append(acc.out, e)))
      /\ "subs" \in DOMAIN new /\ ExfatDirs(new.subs)
  BY <1>1, <1>2, <1>3, <1>4 DEF CapKeeps
<1>6. QED
  BY <1>3, <1>5, CapTurn DEF ExfatKeeps, ExfatSound, new

LEMMA ExfatScan ==
    ASSUME ExfatSound, Within(out, opts.max), NEW dir
    PROVE  Within(Exfat!Scan(dir).out, opts.max) /\ ExfatDirs(Exfat!Scan(dir).subs)
<1> DEFINE slots == Exfat!ReadDirectory(dir.first)
           base == [next |-> 1, out |-> out, subs |-> <<>>]
           at == [i \in DOMAIN slots |-> i]
<1>1. Len(at) \in Nat /\ DOMAIN at = 1 .. Len(at) /\ \A j \in 1 .. Len(at) : at[j] \in 1 .. Len(slots)
  <2>1. Len(slots) \in Nat /\ DOMAIN slots = 1 .. Len(slots)
    BY ExfatSlots, ListIs DEF ExfatSound
  <2>2. QED
    BY <2>1, Indices
<1>2. ExfatKeeps(dir, base, 0)
  BY ListNone DEF ExfatKeeps, CapKeeps, ExfatDirs
<1>3. ExfatKeeps(dir, ExfatTurns!Fold(dir, base, at), Len(at))
  <2> HIDE DEF base, at
  <2>1. \A j \in 1 .. Len(at) : \A acc : ExfatKeeps(dir, acc, j - 1) => ExfatKeeps(dir, ExfatOp(dir, acc, at[j]), j)
    BY <1>1, ExfatTurn
  <2>2. QED
    BY <1>1, <1>2, <2>1, ExfatTurns!FoldKeeps
<1>4. Exfat!Scan(dir) = ExfatTurns!Fold(dir, base, at)
  BY Zenon DEF Exfat!Scan, ExfatTurns!Fold, ExfatOp, Exfat!FoldLeft, Exfat!MapThenFoldSet, Exfat!Max,
     ExfatTurns!MapThenFoldSet, ExfatTurns!Max
<1> HIDE DEF base, at
<1>5. QED
  BY <1>3, <1>4 DEF ExfatKeeps, CapKeeps

ExfatInv == disk \in ExfatDisks /\ opts.max \in Nat /\ Within(out, opts.max) /\ ExfatDirs(work)

LEMMA ExfatFinite == ASSUME disk \in ExfatDisks PROVE IsFiniteSet(Exfat!Starts)
<1> DEFINE S == {t \in Exfat!SlotsOn(disk) : t.k = "stream"}
           f == [s \in S |-> s.first]
<1>1. IsFiniteSet(Exfat!SlotsOn(disk))
  BY ExfatAssumption, Zenon DEF Exfat!DisksOk, Exfat!IsFiniteSet, IsFiniteSet
<1>2. IsFiniteSet(S)
  BY <1>1, FS_Subset, Zenon
<1>3. \E x : Exfat!Starts = {f[s] : s \in S} \cup {x}
  BY DEF Exfat!Starts, Exfat!StartsOn
<1>4. f = [s \in S |-> f[s]]
  OBVIOUS
<1> HIDE DEF S, f
<1>5. IsFiniteSet({f[s] : s \in S})
  BY <1>2, <1>4, ImageFinite, Zenon
<1>6. QED
  BY <1>3, <1>5, FS_AddElement, Zenon

LEMMA ExfatFalls ==
    ASSUME ExfatInv, [Exfat!Next]_vars
    PROVE  ExfatInv' /\ (Exfat!Next => Exfat!Shrinks)
<1> DEFINE phase == CASE pc = "probe" -> 3 [] pc = "open" -> 2 [] pc = "walk" -> 1 [] OTHER -> 0
           left == Cardinality(Exfat!Starts \ seen)
<1>1. disk' = disk /\ opts' = opts
  BY DEF Exfat!Next, vars, Exfat!Probe, Exfat!Open, Exfat!Return, Exfat!WalkDir, Exfat!Finish
<1>2. Exfat!Starts' = Exfat!Starts
  BY <1>1 DEF Exfat!Starts
<1>3. Exfat!Rank = <<phase, left, Len(work)>> /\ Exfat!Rank' = <<phase', left', Len(work')>>
  BY Zenon DEF Exfat!Rank, Exfat!Cardinality, Cardinality
<1>4. Exfat!Shrinks = Ext!Falls(Exfat!Rank, Exfat!Rank')
  BY Zenon DEF Exfat!Shrinks, Exfat!Falls, Ext!Falls
<1>5. CASE (Exfat!Next /\ pc # "walk") \/ Exfat!Finish
  <2>1. /\ out' = out /\ (work' = work \/ work' = <<[first |-> Exfat!Boot.rootCluster, depth |-> 0, path |-> <<>>]>>)
        /\ \/ pc = "probe" /\ pc' \in {"open", "refused"}
           \/ pc = "open" /\ pc' \in {"walk", "refused"}
           \/ pc = "walk" /\ pc' = "done"
    BY <1>5 DEF Exfat!Next, Exfat!Probe, Exfat!Open, Exfat!Return, Exfat!WalkDir, Exfat!Finish
  <2>2. Exfat!Boot.rootCluster \in Exfat!Starts
    BY Zenon DEF Exfat!Starts, Exfat!StartsOn, Exfat!Boot
  <2>3. ExfatDirs(work')
    BY <1>2, <2>1, <2>2, ListOne DEF ExfatInv, ExfatDirs
  <2>4. phase' < phase /\ 0 < phase
    BY <2>1
  <2> HIDE DEF phase, left
  <2>5. QED
    BY <1>1, <1>2, <1>3, <1>4, <2>1, <2>3, <2>4, FallsOfThree DEF ExfatInv, ExfatDirs
<1>6. CASE Exfat!Return
  <2>1. work # <<>> /\ work' = Tail(work) /\ out' = out /\ seen' = seen /\ pc' = pc
    BY <1>6 DEF Exfat!Return
  <2>2. ExfatDirs(work') /\ Len(work') < Len(work) /\ 0 < Len(work)
    BY <2>1, ListTail DEF ExfatInv, ExfatDirs
  <2>3. phase' = phase /\ left' = left
    BY <1>2, <2>1
  <2> HIDE DEF phase, left
  <2>4. QED
    BY <1>1, <1>2, <1>3, <1>4, <2>1, <2>2, <2>3, FallsOfThree DEF ExfatInv, ExfatDirs
<1>7. CASE Exfat!WalkDir
  <2> DEFINE dir == work[1]
             scan == Exfat!Scan(dir)
  <2>1. /\ work # <<>> /\ pc' = pc /\ Head(work) = dir /\ dir.first \in Exfat!Starts
    BY <1>7, ListTail DEF Exfat!WalkDir, ExfatInv, ExfatDirs
  <2>2. /\ ~Exfat!Skips(dir) /\ work' = scan.subs \o Tail(work) /\ out' = scan.out
        /\ seen' = seen \cup {dir.first}
    BY <1>7, <2>1, Zenon DEF Exfat!WalkDir
  <2>3. Within(out', opts.max) /\ ExfatDirs(scan.subs)
    BY <2>2, ExfatScan DEF ExfatInv, ExfatSound
  <2> HIDE DEF scan
  <2>4. ExfatDirs(work')
    BY <2>1, <2>2, <2>3, ListTail, ListJoin DEF ExfatDirs, ExfatInv
  <2>5. left' < left /\ 0 < left
    BY <1>2, <2>1, <2>2, ExfatFinite, FewerLeft DEF ExfatInv, Exfat!Skips
  <2>6. phase' = phase
    BY <2>1
  <2> HIDE DEF phase, left
  <2>7. QED
    BY <1>1, <1>2, <1>3, <1>4, <2>3, <2>4, <2>5, <2>6, FallsOfThree DEF ExfatInv, ExfatDirs
<1>8. CASE UNCHANGED vars /\ ~Exfat!Next
  BY <1>1, <1>2, <1>8 DEF vars, ExfatInv, ExfatDirs
<1>9. QED
  BY <1>5, <1>6, <1>7, <1>8 DEF Exfat!Next, Exfat!Probe, Exfat!Open

\* The same for ISO, whose directories lie in one piece.
LEMMA IsoSlots ==
    ASSUME disk \in IsoDisks, NEW dir, dir.len \in Nat
    PROVE  /\ IsList(Iso!ReadDirectory(dir))
           /\ \A n \in 1 .. Len(Iso!ReadDirectory(dir)) : Iso!ReadDirectory(dir)[n] \in Iso!RecordsOn(disk)
<1> DEFINE len == Iso!Least(dir.len, MaxDirBlocks)
           read == [i \in 1 .. len |-> Iso!SectorOf(dir.at + i - 1)]
           all == Iso!FlattenSeq(read)
           t == Append(all, [k |-> "cut"])
           I == {i \in 1 .. Len(t) : t[i].k = "cut"}
           at == IF I # {} THEN (CHOOSE x \in I : \A y \in I : x <= y) ELSE 0
<1>1. Iso!ReadDirectory(dir) = SubSeq(all, 1, at - 1)
  BY Zenon DEF Iso!ReadDirectory, Iso!SelectInSeq, Iso!Min
<1>2. len \in Nat
  BY IsoAssumption DEF Iso!DisksOk, Iso!Least
<1> HIDE DEF len
<1>3. \A n : IsList(Iso!SectorOf(n)) /\ \A j \in 1 .. Len(Iso!SectorOf(n)) : Iso!SectorOf(n)[j] \in Iso!RecordsOn(disk)
  <2> TAKE n
  <2>1. CASE n \notin DOMAIN disk.sectors
    BY <2>1, ListNone DEF Iso!SectorOf
  <2>2. CASE n \in DOMAIN disk.sectors
    <3>1. IsList(disk.sectors[n])
      BY <2>2, IsoAssumption, Zenon DEF Iso!DisksOk, Iso!IsSeq, IsList
    <3>2. \A j \in DOMAIN disk.sectors[n] : disk.sectors[n][j] \in Iso!ToSet(disk.sectors[n])
      BY DEF Iso!ToSet
    <3>3. QED
      BY <2>2, <3>1, <3>2, ListIs DEF Iso!SectorOf, Iso!RecordsOn
  <2>3. QED
    BY <2>1, <2>2
<1>4. IsList(all) /\ \A j \in 1 .. Len(all) : all[j] \in Iso!RecordsOn(disk)
  <2>1. IsList(read) /\ Len(read) = len
    BY <1>2, ListOn
  <2>2. all = Ext!FlattenSeq(read)
    BY Zenon DEF Iso!FlattenSeq, Iso!FoldLeft, Iso!MapThenFoldSet, Iso!Max, Ext!FlattenSeq, Ext!FoldLeft,
                   Ext!MapThenFoldSet, Ext!Max
  <2>3. \A i \in 1 .. Len(read) : read[i] = Iso!SectorOf(dir.at + i - 1)
    BY <2>1
  <2> HIDE DEF read, all
  <2>4. \A i \in 1 .. Len(read) : IsList(read[i]) /\ \A j \in 1 .. Len(read[i]) : read[i][j] \in Iso!RecordsOn(disk)
    BY <1>3, <2>3
  <2>5. /\ IsList(all)
        /\ \A k \in 1 .. Len(all) : \E i \in 1 .. Len(read) : \E j \in 1 .. Len(read[i]) : all[k] = read[i][j]
    BY <2>1, <2>2, <2>4, FlattenIsList, Zenon
  <2>6. QED
    BY <2>4, <2>5
<1> HIDE DEF all
<1>5. at \in 1 .. Len(all) + 1
  <2>1. Len(t) = Len(all) + 1 /\ t[Len(t)].k = "cut" /\ Len(all) \in Nat
    <3>1. /\ Len(all) \in Nat /\ Len(t) = Len(all) + 1
          /\ \A n \in 1 .. Len(all) + 1 : t[n] = IF n \in 1 .. Len(all) THEN all[n] ELSE [k |-> "cut"]
      BY <1>4, ListAppend, Zenon
    <3>2. QED
      BY <3>1
  <2>2. I \in SUBSET Nat /\ Len(t) \in I
    BY <2>1
  <2>3. at \in I /\ \A y \in I : at <= y
    BY <2>2, Joins!LeastOf
  <2> HIDE DEF at, t
  <2>4. QED
    BY <2>1, <2>2, <2>3
<1> HIDE DEF at
<1>6. /\ IsList(SubSeq(all, 1, at - 1))
      /\ \A n \in 1 .. Len(SubSeq(all, 1, at - 1)) : SubSeq(all, 1, at - 1)[n] = all[n] /\ n \in 1 .. Len(all)
  BY <1>4, <1>5, ListCut
<1>7. QED
  BY <1>1, <1>4, <1>6, Zenon

IsoOp(dir, acc, i) == Iso!Record(acc, Iso!ReadDirectory(dir)[i], dir, i)
IsoDirs(dirs) == IsList(dirs) /\ \A n \in 1 .. Len(dirs) : dirs[n].at \in Iso!Starts /\ dirs[n].len \in Nat
IsoKeeps(dir, acc, k) == CapKeeps(dir, acc, k) /\ "subs" \in DOMAIN acc /\ IsoDirs(acc.subs)
IsoTurns == INSTANCE FoldInduction WITH Op <- IsoOp, Keeps <- IsoKeeps
IsoSound(dir) == disk \in IsoDisks /\ opts.max \in Nat /\ dir.len \in Nat

LEMMA IsoTurn ==
    ASSUME NEW dir, IsoSound(dir), NEW k, NEW i \in 1 .. Len(Iso!ReadDirectory(dir)), NEW acc, IsoKeeps(dir, acc, k - 1)
    PROVE  IsoKeeps(dir, IsoOp(dir, acc, i), k)
<1> DEFINE new == IsoOp(dir, acc, i)
           r == Iso!ReadDirectory(dir)[i]
           entry == Iso!EntryOf(r, dir, i)
           next == [at |-> r.at, len |-> r.len, depth |-> dir.depth + 1, path |-> Append(dir.path, r.name)]
<1>1. new = IF Len(acc.out) >= opts.max \/ ~Iso!Named(r) THEN acc
            ELSE IF ~r.dir THEN [acc EXCEPT !.out = Append(@, entry)]
            ELSE IF r.at = 0 \/ r.len = 0 THEN acc
            ELSE [acc EXCEPT !.subs = Append(acc.subs, next)]
  BY DEF IsoOp, Iso!Record, Iso!Full
<1>2. CapKeeps(dir, acc, k - 1) /\ "subs" \in DOMAIN acc /\ IsoDirs(acc.subs)
  BY DEF IsoKeeps
<1>3. ASSUME Iso!Named(r), r.dir PROVE IsoDirs(Append(acc.subs, next))
  <2>1. r \in Iso!RecordsOn(disk) /\ r.k = "rec"
    BY <1>3, IsoSlots DEF IsoSound, Iso!Named
  <2>2. r.at \in Iso!Starts /\ r.len \in Nat
    BY <1>3, <2>1, IsoAssumption, Zenon DEF Iso!Starts, Iso!StartsOn, Iso!DisksOk, IsoSound
  <2>3. next.at = r.at /\ next.len = r.len
    OBVIOUS
  <2> HIDE DEF next, r
  <2>4. QED
    BY <1>2, <2>2, <2>3, ListAppend DEF IsoDirs
<1> HIDE DEF new, r, entry, next
<1>4. "out" \in DOMAIN new /\ (new.out = acc.out \/ (~(Len(acc.out) >= opts.max) /\ \E e : new.out = Append(acc.out, e)))
      /\ "subs" \in DOMAIN new /\ IsoDirs(new.subs)
  BY <1>1, <1>2, <1>3 DEF CapKeeps
<1>5. QED
  BY <1>2, <1>4, CapTurn DEF IsoKeeps, IsoSound, new

LEMMA IsoScan ==
    ASSUME NEW dir, IsoSound(dir), Within(out, opts.max)
    PROVE  Within(Iso!Scan(dir).out, opts.max) /\ IsoDirs(Iso!Scan(dir).subs)
<1> DEFINE slots == Iso!ReadDirectory(dir)
           base == [out |-> out, subs |-> <<>>]
           at == [i \in DOMAIN slots |-> i]
<1>1. Len(at) \in Nat /\ DOMAIN at = 1 .. Len(at) /\ \A j \in 1 .. Len(at) : at[j] \in 1 .. Len(slots)
  <2>1. Len(slots) \in Nat /\ DOMAIN slots = 1 .. Len(slots)
    BY IsoSlots, ListIs DEF IsoSound
  <2>2. QED
    BY <2>1, Indices
<1>2. IsoKeeps(dir, base, 0)
  BY ListNone DEF IsoKeeps, CapKeeps, IsoDirs
<1>3. IsoKeeps(dir, IsoTurns!Fold(dir, base, at), Len(at))
  <2> HIDE DEF base, at
  <2>1. \A j \in 1 .. Len(at) : \A acc : IsoKeeps(dir, acc, j - 1) => IsoKeeps(dir, IsoOp(dir, acc, at[j]), j)
    BY <1>1, IsoTurn
  <2>2. QED
    BY <1>1, <1>2, <2>1, IsoTurns!FoldKeeps
<1>4. Iso!Scan(dir) = IsoTurns!Fold(dir, base, at)
  BY Zenon DEF Iso!Scan, IsoTurns!Fold, IsoOp, Iso!FoldLeftDomain, Iso!FoldLeft, Iso!MapThenFoldSet, Iso!Max,
     IsoTurns!MapThenFoldSet, IsoTurns!Max
<1> HIDE DEF base, at
<1>5. QED
  BY <1>3, <1>4 DEF IsoKeeps, CapKeeps

IsoInv == disk \in IsoDisks /\ opts.max \in Nat /\ Within(out, opts.max) /\ IsoDirs(work)

LEMMA IsoFinite == ASSUME disk \in IsoDisks PROVE IsFiniteSet(Iso!Starts)
<1> DEFINE S == {t \in Iso!RecordsOn(disk) : t.k = "rec" /\ t.dir}
           f == [s \in S |-> s.at]
<1>1. IsFiniteSet(Iso!RecordsOn(disk))
  BY IsoAssumption, Zenon DEF Iso!DisksOk, Iso!IsFiniteSet, IsFiniteSet
<1>2. IsFiniteSet(S)
  BY <1>1, FS_Subset, Zenon
<1>3. \E x : Iso!Starts = {f[s] : s \in S} \cup {x}
  BY DEF Iso!Starts, Iso!StartsOn
<1>4. f = [s \in S |-> f[s]]
  OBVIOUS
<1> HIDE DEF S, f
<1>5. IsFiniteSet({f[s] : s \in S})
  BY <1>2, <1>4, ImageFinite, Zenon
<1>6. QED
  BY <1>3, <1>5, FS_AddElement, Zenon

LEMMA IsoFalls ==
    ASSUME IsoInv, [Iso!Next]_vars
    PROVE  IsoInv' /\ (Iso!Next => Iso!Shrinks)
<1> DEFINE phase == CASE pc = "probe" -> 3 [] pc = "open" -> 2 [] pc = "walk" -> 1 [] OTHER -> 0
           left == Cardinality(Iso!Starts \ seen)
<1>1. disk' = disk /\ opts' = opts
  BY DEF Iso!Next, vars, Iso!Probe, Iso!Open, Iso!Return, Iso!WalkDir, Iso!Finish
<1>2. Iso!Starts' = Iso!Starts
  BY <1>1 DEF Iso!Starts
<1>3. Iso!Rank = <<phase, left, Len(work)>> /\ Iso!Rank' = <<phase', left', Len(work')>>
  BY Zenon DEF Iso!Rank, Iso!Cardinality, Cardinality
<1>4. Iso!Shrinks = Ext!Falls(Iso!Rank, Iso!Rank')
  BY Zenon DEF Iso!Shrinks, Iso!Falls, Ext!Falls
<1>5. CASE (Iso!Next /\ pc # "walk") \/ Iso!Finish
  <2> DEFINE root == [at |-> Iso!RootOf(disk).at, len |-> Iso!RootOf(disk).len, depth |-> 0, path |-> <<>>]
  <2>1. /\ out' = out /\ (work' = work \/ work' = <<>> \/ work' = <<root>>)
        /\ \/ pc = "probe" /\ pc' \in {"open", "refused"}
           \/ pc = "open" /\ pc' \in {"walk", "refused"}
           \/ pc = "walk" /\ pc' = "done"
    BY <1>5 DEF Iso!Next, Iso!Probe, Iso!Open, Iso!Return, Iso!WalkDir, Iso!Finish
  <2>2. root.at \in Iso!Starts /\ root.len \in Nat
    <3>1. Iso!RootOf(disk).at \in Iso!Starts /\ Iso!RootOf(disk).len \in Nat
      BY IsoAssumption, Zenon DEF Iso!Starts, Iso!StartsOn, IsoInv, Iso!DisksOk
    <3>2. QED
      BY <3>1
  <2> HIDE DEF root
  <2>3. IsoDirs(work')
    BY <1>2, <2>1, <2>2, ListOne, ListNone DEF IsoInv, IsoDirs
  <2>4. phase' < phase /\ 0 < phase
    BY <2>1
  <2> HIDE DEF phase, left
  <2>5. QED
    BY <1>1, <1>2, <1>3, <1>4, <2>1, <2>3, <2>4, FallsOfThree DEF IsoInv, IsoDirs
<1>6. CASE Iso!Return
  <2>1. work # <<>> /\ work' = Tail(work) /\ out' = out /\ seen' = seen /\ pc' = pc
    BY <1>6 DEF Iso!Return
  <2>2. IsoDirs(work') /\ Len(work') < Len(work) /\ 0 < Len(work)
    BY <2>1, ListTail DEF IsoInv, IsoDirs
  <2>3. phase' = phase /\ left' = left
    BY <1>2, <2>1
  <2> HIDE DEF phase, left
  <2>4. QED
    BY <1>1, <1>2, <1>3, <1>4, <2>1, <2>2, <2>3, FallsOfThree DEF IsoInv, IsoDirs
<1>7. CASE Iso!WalkDir
  <2> DEFINE dir == work[1]
             scan == Iso!Scan(dir)
  <2>1. /\ work # <<>> /\ pc' = pc /\ Head(work) = dir /\ dir.at \in Iso!Starts /\ dir.len \in Nat
    BY <1>7, ListTail DEF Iso!WalkDir, IsoInv, IsoDirs
  <2>2. /\ ~Iso!Skips(dir) /\ work' = scan.subs \o Tail(work) /\ out' = scan.out
        /\ seen' = seen \cup {dir.at}
    BY <1>7, <2>1, Zenon DEF Iso!WalkDir
  <2>3. Within(out', opts.max) /\ IsoDirs(scan.subs)
    BY <2>1, <2>2, IsoScan DEF IsoInv, IsoSound
  <2> HIDE DEF scan
  <2>4. IsoDirs(work')
    BY <2>1, <2>2, <2>3, ListTail, ListJoin DEF IsoDirs, IsoInv
  <2>5. left' < left /\ 0 < left
    BY <1>2, <2>1, <2>2, IsoFinite, FewerLeft DEF IsoInv, Iso!Skips
  <2>6. phase' = phase
    BY <2>1
  <2> HIDE DEF phase, left
  <2>7. QED
    BY <1>1, <1>2, <1>3, <1>4, <2>3, <2>4, <2>5, <2>6, FallsOfThree DEF IsoInv, IsoDirs
<1>8. CASE UNCHANGED vars /\ ~Iso!Next
  BY <1>1, <1>2, <1>8 DEF vars, IsoInv, IsoDirs
<1>9. QED
  BY <1>5, <1>6, <1>7, <1>8 DEF Iso!Next, Iso!Probe, Iso!Open

-----------------------------------------------------------------------------
(* The ext walk: what it goes through are lists, so that its fold has turns:  *)
(* the levels of an extent tree, the pointers of a classic map, the runs, the *)
(* blocks of a directory and its records.                                     *)
LEMMA ExtIsSeq == \A s : Ext!IsSeq(s) => IsList(s)
BY Zenon DEF Ext!IsSeq, IsList

JoinOf(flat, s, f) ==
    /\ IsList(flat)
    /\ \A k \in 1 .. Len(flat) : \E i \in 1 .. Len(s) : \E j \in 1 .. Len(f[i]) : flat[k] = f[i][j]

\* The same for ext, whose lists are made place by place of another list.
LEMMA ExtFlattens ==
    ASSUME NEW s, IsList(s), NEW f, f = [i \in DOMAIN s |-> f[i]], \A i \in 1 .. Len(s) : IsList(f[i])
    PROVE  JoinOf(Ext!FlattenSeq(f), s, f)
<1>1. Len(s) \in Nat /\ DOMAIN s = 1 .. Len(s)
  BY ListIs
<1>2. f = [i \in 1 .. Len(s) |-> f[i]]
  BY <1>1
<1>3. IsList(f) /\ Len(f) = Len(s)
  BY <1>1, <1>2, ListOn
<1>4. \A i \in 1 .. Len(f) : IsList(f[i])
  BY <1>3
<1>5. /\ IsList(Ext!FlattenSeq(f))
      /\ \A k \in 1 .. Len(Ext!FlattenSeq(f)) : \E i \in 1 .. Len(f) : \E j \in 1 .. Len(f[i]) :
                Ext!FlattenSeq(f)[k] = f[i][j]
  BY <1>3, <1>4, FlattenIsList, Zenon
<1>6. QED
  BY <1>3, <1>5 DEF JoinOf

\* The front of a list is a list of its elements.
LEMMA ListFront ==
    ASSUME NEW s, IsList(s), NEW n \in 0 .. Len(s)
    PROVE  /\ IsList(SubSeq(s, 1, n)) /\ Len(SubSeq(s, 1, n)) = n /\ n <= Len(s)
           /\ \A i \in 1 .. n : SubSeq(s, 1, n)[i] = s[i]
<1>1. PICK S : s \in Seq(S)
  BY DEF IsList
<1> DEFINE t == SubSeq(s, 1, n)
<1>2. n \in Nat /\ Len(s) \in Nat /\ n <= Len(s)
  BY <1>1
<1>3. t \in Seq(S) /\ Len(t) = n /\ \A i \in 1 .. n : t[i] = s[i]
  BY <1>1, <1>2
<1> HIDE DEF t
<1>4. IsList(t)
  BY <1>3, Zenon DEF IsList
<1>5. QED
  BY <1>2, <1>3, <1>4 DEF t

\* What of a map is read is the front of the list.
LEMMA ExtAffordable ==
    ASSUME NEW list, IsList(list), NEW marks
    PROVE  \E n \in 0 .. Len(list) : Ext!Affordable(list, marks) = SubSeq(list, 1, n)
<1> DEFINE Spent(i) == Ext!Cardinality(marks \cap 1 .. i)
           kept == {i \in DOMAIN list : Spent(i) <= MaxMapNodes}
<1>1. Len(list) \in Nat /\ DOMAIN list = 1 .. Len(list)
  BY ListIs
<1>2. Ext!Affordable(list, marks) = SubSeq(list, 1, Ext!Cardinality(kept))
  BY DEF Ext!Affordable
<1> HIDE DEF Spent
<1>3. kept \subseteq 1 .. Len(list)
  BY <1>1
<1> HIDE DEF kept
<1>4. IsFiniteSet(1 .. Len(list)) /\ Cardinality(1 .. Len(list)) = Len(list)
  <2> DEFINE n == Len(list)
  <2>1. n \in Int /\ 1 \in Int
    BY <1>1
  <2> HIDE DEF n
  <2>2. IsFiniteSet(1 .. n) /\ Cardinality(1 .. n) = IF 1 > n THEN 0 ELSE n - 1 + 1
    BY <2>1, FS_Interval, Zenon
  <2>3. n \in Nat => (IF 1 > n THEN 0 ELSE n - 1 + 1) = n
    BY <2>1
  <2>4. QED
    BY <1>1, <2>2, <2>3 DEF n
<1>5. Cardinality(kept) \in Nat /\ Cardinality(kept) <= Len(list)
  BY <1>3, <1>4, FS_Subset, FS_CardinalityType
<1>6. Ext!Cardinality(kept) = Cardinality(kept)
  BY Zenon DEF Ext!Cardinality, Cardinality
<1>7. QED
  BY <1>1, <1>2, <1>5, <1>6

-----------------------------------------------------------------------------
\* A level of an extent tree.
ItemsOk(items) == IsList(items) /\ \A i \in 1 .. Len(items) : items[i].k = "node" => Ext!NodeOk(items[i].at)

LEMMA ItemsNone == ItemsOk(<<>>)
BY ListNone DEF ItemsOk

LEMMA ItemsOne ==
    ASSUME NEW x, x.k = "node" => Ext!NodeOk(x.at)
    PROVE  ItemsOk(<<x>>)
<1> DEFINE s == <<x>>
<1>1. IsList(s) /\ Len(s) = 1 /\ s[1] = x
  BY ListOne
<1> HIDE DEF s
<1>2. ItemsOk(s)
  BY <1>1 DEF ItemsOk
<1>3. QED
  BY <1>2 DEF s

LEMMA ItemsFlat ==
    ASSUME NEW s, IsList(s), NEW f, f = [i \in DOMAIN s |-> f[i]], \A i \in 1 .. Len(s) : ItemsOk(f[i])
    PROVE  ItemsOk(Ext!FlattenSeq(f))
<1>1. \A i \in 1 .. Len(s) : IsList(f[i])
  BY DEF ItemsOk
<1> DEFINE flat == Ext!FlattenSeq(f)
<1>2. JoinOf(flat, s, f)
  BY <1>1, ExtFlattens, Zenon
<1> HIDE DEF flat
<1>3. ASSUME NEW k \in 1 .. Len(flat), flat[k].k = "node"
      PROVE  Ext!NodeOk(flat[k].at)
  <2>1. PICK i \in 1 .. Len(s) : \E j \in 1 .. Len(f[i]) : flat[k] = f[i][j]
    BY <1>2, Zenon DEF JoinOf
  <2>2. PICK j \in 1 .. Len(f[i]) : flat[k] = f[i][j]
    BY <2>1
  <2>3. QED
    BY <1>3, <2>2, Zenon DEF ItemsOk
<1>4. IsList(flat)
  BY <1>2 DEF JoinOf
<1>5. QED
  BY <1>3, <1>4, Zenon DEF ItemsOk, flat

LEMMA ExtNoNode == Ext!NodeOk(Ext!NoNode)
<1> DEFINE none == <<>>
<1>1. none \in Seq(Ext!ToSet(none))
  OBVIOUS
<1>2. Ext!NoNode.entries = none /\ Ext!NoNode.depth = 1
  BY DEF Ext!NoNode
<1>3. QED
  BY <1>1, <1>2 DEF Ext!NodeOk, Ext!IsSeq

LEMMA ExtUnder ==
    ASSUME ExtDisk, NEW node, Ext!NodeOk(node)
    PROVE  ItemsOk(Ext!Under(node))
<1> DEFINE es == node.entries
           Leaf(e) == [b \in 1 .. e.len |-> [k |-> "block", at |-> <<e.log + b - 1, e.phys + b - 1>>]]
           Child(e) == IF e \in DOMAIN disk.nodes THEN disk.nodes[e] ELSE Ext!NoNode
           f == [i \in DOMAIN es |->
                   IF node.depth = 0 THEN Leaf(es[i])
                   ELSE <<[k |-> "node", at |-> Child(es[i])]>>]
<1>1. Ext!Under(node) = IF ~node.magic \/ Len(es) > node.max THEN <<>> ELSE Ext!FlattenSeq(f)
  BY Zenon DEF Ext!Under
<1>2. IsList(es) /\ DOMAIN es = 1 .. Len(es) /\ Len(es) \in Nat
  BY ExtIsSeq, ListIs DEF Ext!NodeOk
<1>3. \A i \in 1 .. Len(es) :
        f[i] = IF node.depth = 0 THEN Leaf(es[i])
               ELSE <<[k |-> "node", at |-> Child(es[i])]>>
  BY <1>2, Zenon
<1>4. f = [i \in DOMAIN es |-> f[i]]
  BY Zenon
<1> HIDE DEF f
<1>5. ASSUME NEW i \in 1 .. Len(es)
      PROVE  ItemsOk(f[i])
  <2>1. CASE node.depth = 0
    <3>1. es[i].len \in Nat
      BY <1>2, <2>1 DEF Ext!NodeOk
    <3> DEFINE n == es[i].len
               l == Leaf(es[i])
    <3>2. f[i] = l
      BY <1>3, <2>1, Zenon
    <3>3. l = [b \in 1 .. n |-> l[b]]
      OBVIOUS
    <3>4. \A b \in 1 .. n : l[b].k = "block"
      OBVIOUS
    <3> HIDE DEF l, n
    <3>5. n \in Nat
      BY <3>1 DEF n
    <3>6. IsList(l) /\ Len(l) = n
      BY <3>3, <3>5, ListOn
    <3>7. ItemsOk(l)
      BY <3>4, <3>6 DEF ItemsOk
    <3>8. QED
      BY <3>2, <3>7
  <2>2. CASE node.depth # 0
    <3> DEFINE x == [k |-> "node", at |-> Child(es[i])]
    <3>1. f[i] = <<x>>
      BY <1>3, <2>2, Zenon
    <3>2. Ext!NodeOk(x.at)
      <4>1. es[i] \in DOMAIN disk.nodes => Ext!NodeOk(disk.nodes[es[i]])
        BY ExtAssumption DEF ExtDisk, Ext!DisksOk, Ext!BlocksOk
      <4>2. QED
        BY <4>1, ExtNoNode
    <3> HIDE DEF x
    <3>3. ItemsOk(<<x>>)
      BY <3>2, ItemsOne
    <3>4. QED
      BY <3>1, <3>3
  <2>3. QED
    BY <2>1, <2>2
<1> HIDE DEF es
<1>6. ItemsOk(Ext!FlattenSeq(f))
  BY <1>2, <1>4, <1>5, ItemsFlat, Zenon
<1>7. QED
  BY <1>1, <1>6, ItemsNone

\* The mark and what the node holds.
LEMMA ItemsMarked ==
    ASSUME NEW items, ItemsOk(items)
    PROVE  ItemsOk(<<[k |-> "mark"]>> \o items)
<1> DEFINE m == <<[k |-> "mark"]>>
           all == m \o items
<1>1. IsList(m) /\ Len(m) = 1 /\ m[1].k = "mark"
  BY ListOne
<1> HIDE DEF m
<1>2. IsList(items) /\ Len(items) \in Nat
  BY ListIs DEF ItemsOk
<1>3. /\ IsList(all) /\ Len(all) = 1 + Len(items)
      /\ \A n \in 1 .. 1 + Len(items) : all[n] = IF n <= 1 THEN m[n] ELSE items[n - 1]
  BY <1>1, <1>2, ListJoin, ZenonT(40)
<1> HIDE DEF all
<1>4. ASSUME NEW n \in 1 .. Len(all), all[n].k = "node"
      PROVE  Ext!NodeOk(all[n].at)
  <2>1. n # 1
    BY <1>1, <1>2, <1>3, <1>4
  <2>2. n - 1 \in 1 .. Len(items) /\ all[n] = items[n - 1]
    BY <1>2, <1>3, <2>1
  <2>3. QED
    BY <1>4, <2>2 DEF ItemsOk
<1>5. ItemsOk(all)
  BY <1>3, <1>4 DEF ItemsOk
<1>6. QED
  BY <1>5 DEF all, m

LEMMA ExtLower ==
    ASSUME ExtDisk, NEW items, ItemsOk(items)
    PROVE  ItemsOk(Ext!Lower(items))
<1> DEFINE f == [i \in DOMAIN items |-> IF items[i].k = "node" THEN <<[k |-> "mark"]>> \o Ext!Under(items[i].at) ELSE <<items[i]>>]
<1>1. Ext!Lower(items) = Ext!FlattenSeq(f)
  BY Zenon DEF Ext!Lower
<1>2. IsList(items) /\ DOMAIN items = 1 .. Len(items)
  BY ListIs DEF ItemsOk
<1>3. \A i \in 1 .. Len(items) :
        f[i] = IF items[i].k = "node" THEN <<[k |-> "mark"]>> \o Ext!Under(items[i].at) ELSE <<items[i]>>
  BY <1>2, Zenon
<1>4. f = [i \in DOMAIN items |-> f[i]]
  BY Zenon
<1> HIDE DEF f
<1>5. ASSUME NEW i \in 1 .. Len(items)
      PROVE  ItemsOk(f[i])
  <2>1. CASE items[i].k = "node"
    <3>1. f[i] = <<[k |-> "mark"]>> \o Ext!Under(items[i].at)
      BY <1>3, <2>1, Zenon
    <3>2. Ext!NodeOk(items[i].at)
      BY <2>1 DEF ItemsOk
    <3>3. QED
      BY <3>1, <3>2, ExtUnder, ItemsMarked, Zenon
  <2>2. CASE items[i].k # "node"
    <3>1. f[i] = <<items[i]>>
      BY <1>3, <2>2, Zenon
    <3>2. ItemsOk(<<items[i]>>)
      BY <2>2, ItemsOne, Zenon
    <3>3. QED
      BY <3>1, <3>2, Zenon
  <2>3. QED
    BY <2>1, <2>2
<1>6. QED
  BY <1>1, <1>2, <1>4, <1>5, ItemsFlat, Zenon

LevelOp(arg, acc, i) == Ext!Lower(acc)
LevelKeeps(arg, acc, k) == ItemsOk(acc)
Levels == INSTANCE FoldInduction WITH Op <- LevelOp, Keeps <- LevelKeeps

\* The blocks of an extent tree, level by level.
LEMMA ExtTreeBlocks ==
    ASSUME ExtDisk, NEW root, Ext!NodeOk(root)
    PROVE  IsList(Ext!TreeBlocks(root))
<1> DEFINE base == <<[k |-> "node", at |-> root]>>
           at == [i \in 1 .. MaxTree + 1 |-> i]
           items == Levels!Fold(0, base, at)
           read == Ext!Affordable(items, {i \in DOMAIN items : items[i].k = "mark"})
           f == [i \in DOMAIN read |-> IF read[i].k = "block" THEN <<read[i].at>> ELSE <<>>]
<1>1. MaxTree + 1 \in Nat
  BY ExtAssumption DEF Ext!DisksOk
<1>2. Len(at) \in Nat /\ DOMAIN at = 1 .. Len(at)
  BY <1>1
<1>3. ItemsOk(base)
  <2> DEFINE x == [k |-> "node", at |-> root]
  <2>1. x.at = root
    OBVIOUS
  <2>2. base = <<x>>
    OBVIOUS
  <2> HIDE DEF x, base
  <2>3. QED
    BY <2>1, <2>2, ItemsOne
<1>4. ItemsOk(items)
  <2> HIDE DEF base, at
  <2>1. \A j \in 1 .. Len(at) : \A acc : LevelKeeps(0, acc, j - 1) => LevelKeeps(0, LevelOp(0, acc, at[j]), j)
    BY ExtLower DEF LevelKeeps, LevelOp
  <2>2. LevelKeeps(0, base, 0)
    BY <1>3 DEF LevelKeeps
  <2>3. LevelKeeps(0, items, Len(at))
    BY <1>2, <2>1, <2>2, Levels!FoldKeeps
  <2>4. QED
    BY <2>3 DEF LevelKeeps
<1>5. Ext!Repeat(Ext!Lower, base, MaxTree + 1) = items
  BY Zenon DEF Ext!Repeat, Levels!Fold, LevelOp, Ext!FoldLeft, Ext!MapThenFoldSet, Ext!Max,
     Levels!MapThenFoldSet, Levels!Max
<1>6. Ext!TreeBlocks(root) = Ext!FlattenSeq(f)
  <2> HIDE DEF items
  <2>1. QED
    BY <1>5, Zenon DEF Ext!TreeBlocks
<1> HIDE DEF items
<1>7. IsList(read) /\ DOMAIN read = 1 .. Len(read)
  <2>1. PICK n \in 0 .. Len(items) : read = SubSeq(items, 1, n)
    BY <1>4, ExtAffordable DEF ItemsOk
  <2>2. IsList(read)
    BY <1>4, <2>1, ListFront DEF ItemsOk
  <2> HIDE DEF read
  <2>3. QED
    BY <2>2, ListIs
<1> HIDE DEF read
<1>8. ASSUME NEW i \in 1 .. Len(read)
      PROVE  IsList(f[i])
  <2>1. f[i] = <<read[i].at>> \/ f[i] = <<>>
    BY <1>7
  <2> HIDE DEF f
  <2>2. QED
    BY <2>1, ListOne, ItemsNone, Zenon DEF ItemsOk
<1>9. f = [i \in DOMAIN read |-> f[i]]
  OBVIOUS
<1> HIDE DEF f
<1>10. QED
  BY <1>6, <1>7, <1>8, <1>9, ExtFlattens, Zenon DEF JoinOf

\* The superblock that is used has a block size.
LEMMA ExtBlock ==
    ASSUME ExtDisk
    PROVE  Ext!Block \in Nat \ {0}
<1>1. /\ disk.primary.block \in Nat \ {0} /\ \A at \in DOMAIN disk.supers : disk.supers[at].block \in Nat \ {0}
      /\ disk.backupGroups \subseteq Nat
  BY ExtAssumption DEF ExtDisk, Ext!DisksOk, Ext!BlocksOk, Ext!CopiesOk
<1> DEFINE B == Ext!Backups(disk)
           first == CHOOSE p \in B : \A q \in B : Ext!Earlier(p, q)
<1>2. ASSUME B # {} PROVE first \in B
  BY <1>2, ExtFirstBackup, Zenon
<1>3. Ext!Sb = disk.primary \/ (B # {} /\ Ext!Sb = disk.supers[Ext!PlaceOf(disk, first)])
  BY DEF Ext!Sb, Ext!ReadSuperblock
<1> HIDE DEF first
<1>4. B # {} => Ext!PlaceOf(disk, first) \in DOMAIN disk.supers
  BY <1>2 DEF Ext!Backups
<1> HIDE DEF B
<1>5. QED
  BY <1>1, <1>3, <1>4 DEF Ext!Block

\* The pointers of the classic map.
LEMMA ExtDeeper ==
    ASSUME ExtDisk, NEW ptrs, IsList(ptrs)
    PROVE  IsList(Ext!Deeper(ptrs))
<1> DEFINE f == [i \in DOMAIN ptrs |-> Ext!PointersIn(ptrs[i])]
<1>1. Ext!Deeper(ptrs) = Ext!FlattenSeq(f)
  BY Zenon DEF Ext!Deeper
<1>2. DOMAIN ptrs = 1 .. Len(ptrs)
  BY ListIs
<1>3. \A i \in 1 .. Len(ptrs) : f[i] = Ext!PointersIn(ptrs[i])
  BY <1>2, Zenon
<1>4. f = [i \in DOMAIN ptrs |-> f[i]]
  BY Zenon
<1> HIDE DEF f
<1>5. disk.ppb \in Nat /\ \A b \in DOMAIN disk.indirect : IsList(disk.indirect[b])
  BY ExtIsSeq, ExtAssumption DEF ExtDisk, Ext!DisksOk, Ext!BlocksOk
<1>6. IsList([i \in 1 .. disk.ppb |-> 0])
  <2> DEFINE l == [i \in 1 .. disk.ppb |-> 0]
  <2>1. l = [i \in 1 .. disk.ppb |-> l[i]]
    OBVIOUS
  <2> HIDE DEF l
  <2>2. IsList(l)
    BY <1>5, <2>1, ListOn
  <2>3. QED
    BY <2>2 DEF l
<1>7. \A b : IsList(Ext!PointersIn(b))
  <2> SUFFICES ASSUME NEW b PROVE IsList(Ext!PointersIn(b))
    OBVIOUS
  <2> DEFINE zeros == [i \in 1 .. disk.ppb |-> 0]
             ptrsIn == IF b \in DOMAIN disk.indirect THEN disk.indirect[b] ELSE zeros
             mark == <<Ext!Mark>>
  <2>1. Ext!PointersIn(b) = <<>> \/ Ext!PointersIn(b) = mark \/ Ext!PointersIn(b) = mark \o ptrsIn
    <3>1. CASE b = 0
      BY <3>1 DEF Ext!PointersIn, Ext!Mark
    <3>2. CASE b = Ext!Mark
      BY <3>2 DEF Ext!PointersIn, Ext!Mark
    <3>3. CASE b # 0 /\ b # Ext!Mark
      BY <3>3 DEF Ext!PointersIn
    <3>4. QED
      BY <3>1, <3>2, <3>3
  <2>2. IsList(ptrsIn)
    BY <1>5, <1>6
  <2>3. IsList(mark)
    BY ListOne
  <2> HIDE DEF ptrsIn, mark
  <2>4. IsList(mark \o ptrsIn)
    BY <2>2, <2>3, ListJoin
  <2>5. QED
    BY <2>1, <2>3, <2>4, ListNone
<1>8. \A i \in 1 .. Len(ptrs) : IsList(f[i])
  BY <1>3, <1>7
<1>9. QED
  BY <1>1, <1>2, <1>4, <1>8, ExtFlattens, Zenon DEF JoinOf

PointerOp(arg, acc, i) == Ext!Deeper(acc)
PointerKeeps(arg, acc, k) == IsList(acc)
PointerTurns == INSTANCE FoldInduction WITH Op <- PointerOp, Keeps <- PointerKeeps

LEMMA ExtPointers ==
    ASSUME ExtDisk, NEW block, NEW level \in Nat
    PROVE  IsList(Ext!Pointers(block, level))
<1> DEFINE base == <<block>>
           at == [i \in 1 .. level |-> i]
<1>1. Len(at) \in Nat /\ DOMAIN at = 1 .. Len(at)
  OBVIOUS
<1>2. Ext!Pointers(block, level) = PointerTurns!Fold(0, base, at)
  BY Zenon DEF Ext!Pointers, Ext!Repeat, PointerTurns!Fold, PointerOp, Ext!FoldLeft, Ext!MapThenFoldSet, Ext!Max,
     PointerTurns!MapThenFoldSet, PointerTurns!Max
<1>3. PointerKeeps(0, base, 0)
  BY ListOne, Zenon DEF PointerKeeps
<1> HIDE DEF base, at
<1>4. \A j \in 1 .. Len(at) : \A acc : PointerKeeps(0, acc, j - 1) => PointerKeeps(0, PointerOp(0, acc, at[j]), j)
  BY ExtDeeper DEF PointerKeeps, PointerOp
<1>5. PointerKeeps(0, PointerTurns!Fold(0, base, at), Len(at))
  BY <1>1, <1>3, <1>4, PointerTurns!FoldKeeps
<1>6. QED
  BY <1>2, <1>5 DEF PointerKeeps

LEMMA ExtClassicBlocks ==
    ASSUME ExtDisk, NEW map, Ext!MapOk(map), map.kind # "tree"
    PROVE  IsList(Ext!ClassicBlocks(map))
<1> DEFINE list == IF map.kind = "zero" THEN <<>>
                   ELSE map.direct \o Ext!Pointers(map.single, 1) \o Ext!Pointers(map.double, 2)
                          \o Ext!Pointers(map.triple, 3)
           marks == {i \in DOMAIN list : list[i] = Ext!Mark}
           Number(i) == i - 1 - Ext!Cardinality(marks \cap 1 .. i)
           all == Ext!Affordable(list, marks)
           f == [i \in DOMAIN all |-> IF all[i] \in {0, Ext!Mark} THEN <<>> ELSE <<<<Number(i), all[i]>>>>]
<1>1. Ext!ClassicBlocks(map) = Ext!FlattenSeq(f)
  BY Zenon DEF Ext!ClassicBlocks
<1>2. IsList(list)
  <2>1. CASE map.kind = "zero"
    BY <2>1, ListNone
  <2>2. CASE map.kind # "zero"
    <3>1. IsList(map.direct)
      BY <2>2, ExtIsSeq DEF Ext!MapOk
    <3>2. IsList(Ext!Pointers(map.single, 1)) /\ IsList(Ext!Pointers(map.double, 2))
          /\ IsList(Ext!Pointers(map.triple, 3))
      BY ExtPointers
    <3>3. IsList(map.direct \o Ext!Pointers(map.single, 1))
      BY <3>1, <3>2, ListJoin
    <3>4. IsList(map.direct \o Ext!Pointers(map.single, 1) \o Ext!Pointers(map.double, 2))
      BY <3>2, <3>3, ListJoin
    <3>5. IsList(map.direct \o Ext!Pointers(map.single, 1) \o Ext!Pointers(map.double, 2)
                   \o Ext!Pointers(map.triple, 3))
      BY <3>2, <3>4, ListJoin
    <3>6. QED
      BY <2>2, <3>5, Zenon
  <2>3. QED
    BY <2>1, <2>2
<1> HIDE DEF list, marks
<1>3. IsList(all) /\ DOMAIN all = 1 .. Len(all)
  <2>1. PICK n \in 0 .. Len(list) : all = SubSeq(list, 1, n)
    BY <1>2, ExtAffordable
  <2>2. IsList(all)
    BY <1>2, <2>1, ListFront
  <2> HIDE DEF all
  <2>3. QED
    BY <2>2, ListIs
<1> HIDE DEF all, Number
<1>4. \A i \in 1 .. Len(all) : f[i] = <<<<Number(i), all[i]>>>> \/ f[i] = <<>>
  BY <1>3
<1>5. f = [i \in DOMAIN all |-> f[i]]
  BY Zenon
<1> HIDE DEF f
<1>6. \A i \in 1 .. Len(all) : IsList(f[i])
  BY <1>4, ListOne, ListNone, Zenon
<1>7. QED
  BY <1>1, <1>3, <1>5, <1>6, ExtFlattens, Zenon DEF JoinOf

\* Runs.
RunsOk(ext) == IsList(ext) /\ \A i \in 1 .. Len(ext) : 2 \in DOMAIN ext[i] /\ ext[i][2] \in Int

LEMMA RunsNone == RunsOk(<<>>)
<1>1. Len(<<>>) = 0
  OBVIOUS
<1>2. QED
  BY <1>1, ListNone DEF RunsOk

LEMMA RunsAppend ==
    ASSUME NEW ext, RunsOk(ext), NEW x, 2 \in DOMAIN x, x[2] \in Int
    PROVE  RunsOk(Append(ext, x))
<1>1. PICK S : ext \in Seq(S)
  BY DEF RunsOk, IsList
<1> DEFINE new == Append(ext, x)
<1>2. ext \in Seq(S \cup {x}) /\ x \in S \cup {x}
  BY <1>1
<1>3. /\ new \in Seq(S \cup {x}) /\ Len(new) = Len(ext) + 1 /\ Len(ext) \in Nat
      /\ \A i \in 1 .. Len(ext) : new[i] = ext[i]
      /\ new[Len(ext) + 1] = x
  BY <1>2
<1>4. IsList(new)
  BY <1>3, Zenon DEF IsList
<1> HIDE DEF new
<1>5. ASSUME NEW i \in 1 .. Len(new) PROVE 2 \in DOMAIN new[i] /\ new[i][2] \in Int
  <2>1. CASE i = Len(ext) + 1
    BY <1>3, <2>1
  <2>2. CASE i # Len(ext) + 1
    BY <1>3, <2>2 DEF RunsOk
  <2>3. QED
    BY <2>1, <2>2
<1>6. RunsOk(new)
  BY <1>4, <1>5 DEF RunsOk
<1>7. QED
  BY <1>6 DEF new

LEMMA RunsExcept ==
    ASSUME NEW ext, RunsOk(ext), NEW n \in 1 .. Len(ext), NEW x, 2 \in DOMAIN x, x[2] \in Int
    PROVE  RunsOk([ext EXCEPT ![n] = x])
<1> DEFINE new == [ext EXCEPT ![n] = x]
<1>1. Len(ext) \in Nat /\ ext = [i \in 1 .. Len(ext) |-> ext[i]]
  BY ListIs DEF RunsOk
<1>2. DOMAIN ext = 1 .. Len(ext)
  BY <1>1
<1>3. new = [i \in 1 .. Len(ext) |-> new[i]]
  BY <1>2
<1>4. \A i \in 1 .. Len(ext) : new[i] = IF i = n THEN x ELSE ext[i]
  BY <1>2
<1> HIDE DEF new
<1>5. IsList(new) /\ Len(new) = Len(ext)
  BY <1>1, <1>3, ListOn
<1>6. RunsOk(new)
  BY <1>4, <1>5 DEF RunsOk
<1>7. QED
  BY <1>6 DEF new

RunOp(arg, acc, p) == Ext!Join(acc, p)
RunKeeps(arg, acc, k) == RunsOk(acc)
RunTurns == INSTANCE FoldInduction WITH Op <- RunOp, Keeps <- RunKeeps

LEMMA ExtJoin ==
    ASSUME Ext!Block \in Nat \ {0}, NEW ext, RunsOk(ext), NEW p
    PROVE  RunsOk(Ext!Join(ext, p))
<1> DEFINE n == Len(ext)
           x == [ext[n] EXCEPT ![2] = @ + Ext!Block]
           y == <<p[2] * Ext!Block, Ext!Block>>
<1>1. (ext # <<>> /\ Ext!Join(ext, p) = [ext EXCEPT ![n] = x]) \/ Ext!Join(ext, p) = Append(ext, y)
  BY DEF Ext!Join
<1>2. RunsOk(Append(ext, y))
  <2>1. 2 \in DOMAIN y /\ y[2] \in Int
    OBVIOUS
  <2> HIDE DEF y
  <2>2. QED
    BY <2>1, RunsAppend
<1>3. ASSUME ext # <<>>
      PROVE  RunsOk([ext EXCEPT ![n] = x])
  <2>1. n \in 1 .. Len(ext)
    BY <1>3 DEF RunsOk, IsList
  <2>2. 2 \in DOMAIN ext[n] /\ ext[n][2] \in Int
    BY <2>1 DEF RunsOk
  <2>3. 2 \in DOMAIN x /\ x[2] \in Int
    BY <2>2
  <2> HIDE DEF x, n
  <2>4. QED
    BY <2>1, <2>3, RunsExcept
<1> HIDE DEF x, y, n
<1>4. QED
  BY <1>1, <1>2, <1>3

\* The order of the file: as many as there are, whatever they are.
LEMMA ExtInOrder ==
    ASSUME NEW blocks, IsList(blocks)
    PROVE  IsList(Ext!InOrder(blocks))
<1> DEFINE Before(i) == {j \in DOMAIN blocks :
                           blocks[j][1] < blocks[i][1] \/ (blocks[j][1] = blocks[i][1] /\ j < i)}
           At(n) == blocks[CHOOSE i \in DOMAIN blocks : Ext!Cardinality(Before(i)) = n - 1]
           l == [n \in 1 .. Len(blocks) |-> At(n)]
<1>1. Ext!InOrder(blocks) = l
  BY Zenon DEF Ext!InOrder
<1> HIDE DEF At
<1>2. l = [n \in 1 .. Len(blocks) |-> l[n]]
  OBVIOUS
<1> HIDE DEF l
<1>3. QED
  BY <1>1, <1>2, ListIs, ListOn

LEMMA ExtJoined ==
    ASSUME Ext!Block \in Nat \ {0}, NEW list, IsList(list)
    PROVE  RunsOk(Ext!FoldLeft(Ext!Join, <<>>, list))
<1>1. Len(list) \in Nat /\ DOMAIN list = 1 .. Len(list)
  BY ListIs
<1>2. Ext!FoldLeft(Ext!Join, <<>>, list) = RunTurns!Fold(0, <<>>, list)
  BY Zenon DEF RunTurns!Fold, RunOp, Ext!FoldLeft, Ext!MapThenFoldSet, Ext!Max,
     RunTurns!MapThenFoldSet, RunTurns!Max
<1>3. RunKeeps(0, <<>>, 0)
  BY RunsNone DEF RunKeeps
<1>4. \A j \in 1 .. Len(list) : \A acc : RunKeeps(0, acc, j - 1) => RunKeeps(0, RunOp(0, acc, list[j]), j)
  BY ExtJoin DEF RunKeeps, RunOp
<1>5. RunKeeps(0, RunTurns!Fold(0, <<>>, list), Len(list))
  BY <1>1, <1>3, <1>4, RunTurns!FoldKeeps
<1>6. QED
  BY <1>2, <1>5 DEF RunKeeps

CutOp(arg, acc, x) == Ext!Trim(acc, x)
CutKeeps(arg, acc, k) == "left" \in DOMAIN acc /\ acc.left \in Int /\ RunsOk(acc.ext)
CutTurns == INSTANCE FoldInduction WITH Op <- CutOp, Keeps <- CutKeeps

LEMMA ExtTrim ==
    ASSUME NEW acc, CutKeeps(0, acc, 0), NEW x, x[2] \in Int
    PROVE  CutKeeps(0, Ext!Trim(acc, x), 1)
<1> DEFINE y == <<x[1], Ext!Least(x[2], acc.left)>>
           ext == IF acc.left = 0 THEN acc.ext ELSE Append(acc.ext, y)
           left == Ext!Monus(acc.left, x[2])
<1>1. acc.left \in Int /\ RunsOk(acc.ext)
  BY DEF CutKeeps
<1>2. left \in Int
  BY <1>1 DEF Ext!Monus
<1>3. 2 \in DOMAIN y /\ y[2] \in Int
  BY <1>1 DEF Ext!Least
<1> HIDE DEF y
<1>4. RunsOk(Append(acc.ext, y))
  BY <1>1, <1>3, RunsAppend
<1>5. RunsOk(ext)
  BY <1>1, <1>4
<1>6. Ext!Trim(acc, x) = [left |-> left, ext |-> ext]
  BY Zenon DEF Ext!Trim, y
<1> HIDE DEF left, ext
<1>7. QED
  BY <1>2, <1>5, <1>6 DEF CutKeeps

LEMMA ExtTrimToSize ==
    ASSUME NEW ext, RunsOk(ext), NEW size \in Int
    PROVE  RunsOk(Ext!TrimToSize(ext, size))
<1> DEFINE base == [left |-> size, ext |-> <<>>]
<1>1. Len(ext) \in Nat /\ DOMAIN ext = 1 .. Len(ext)
  BY ListIs DEF RunsOk
<1>2. Ext!TrimToSize(ext, size) = CutTurns!Fold(0, base, ext).ext
  BY Zenon DEF Ext!TrimToSize, CutTurns!Fold, CutOp, Ext!FoldLeft, Ext!MapThenFoldSet, Ext!Max,
     CutTurns!MapThenFoldSet, CutTurns!Max
<1>3. CutKeeps(0, base, 0)
  BY RunsNone DEF CutKeeps
<1> HIDE DEF base
<1>4. \A j \in 1 .. Len(ext) : \A acc : CutKeeps(0, acc, j - 1) => CutKeeps(0, CutOp(0, acc, ext[j]), j)
  BY ExtTrim DEF CutKeeps, CutOp, RunsOk
<1>5. CutKeeps(0, CutTurns!Fold(0, base, ext), Len(ext))
  BY <1>1, <1>3, <1>4, CutTurns!FoldKeeps
<1>6. QED
  BY <1>2, <1>5 DEF CutKeeps

\* The runs of an inode of the tables: lengths are numbers.
LEMMA ExtExtents ==
    ASSUME ExtDisk, NEW n \in DOMAIN disk.inodes
    PROVE  RunsOk(Ext!ExtentsOf(disk.inodes[n]))
<1> DEFINE inode == disk.inodes[n]
           read == IF inode.map.kind = "tree" THEN Ext!TreeBlocks(inode.map) ELSE Ext!ClassicBlocks(inode.map)
           blocks == Ext!FirstBlocks(read)
           joined == Ext!FoldLeft(Ext!Join, <<>>, Ext!InOrder(blocks))
<1>1. inode.size \in Int /\ Ext!MapOk(inode.map)
  BY ExtAssumption DEF ExtDisk, Ext!DisksOk, Ext!BlocksOk
<1>2. Ext!ExtentsOf(inode) = Ext!TrimToSize(joined, inode.size)
  BY Zenon DEF Ext!ExtentsOf, Ext!RunsToExtents
<1> HIDE DEF inode
<1>3. inode.map.kind = "tree" => Ext!NodeOk(inode.map)
  BY <1>1 DEF Ext!MapOk
<1>4. IsList(blocks)
  <2>1. IsList(read)
    BY <1>1, <1>3, ExtTreeBlocks, ExtClassicBlocks
  <2> HIDE DEF read
  <2>2. Len(read) \in Nat /\ MaxFileBlocks \in Nat
    BY <2>1, ListIs, ExtAssumption DEF Ext!DisksOk
  <2>3. Ext!Least(Len(read), MaxFileBlocks + 1) \in 0 .. Len(read)
    BY <2>2 DEF Ext!Least
  <2>4. QED
    BY <2>1, <2>3, ListFront DEF Ext!FirstBlocks
<1> HIDE DEF blocks
<1>5. IsList(Ext!InOrder(blocks))
  BY <1>4, ExtInOrder
<1>6. RunsOk(joined)
  BY <1>5, ExtBlock, ExtJoined
<1> HIDE DEF joined
<1>7. QED
  BY <1>1, <1>2, <1>6, ExtTrimToSize DEF inode

\* Directories.
LEMMA ExtDirBlocks ==
    ASSUME ExtDisk, NEW ext, RunsOk(ext)
    PROVE  IsList(Ext!DirBlocks(ext))
<1> DEFINE N(i) == Ext!CeilDiv(ext[i][2], Ext!Block)
           G(i) == [k \in 1 .. N(i) |-> (ext[i][1] \div Ext!Block) + k - 1]
           f == [i \in DOMAIN ext |-> G(i)]
<1>1. Ext!DirBlocks(ext) = Ext!FlattenSeq(f)
  BY Zenon DEF Ext!DirBlocks
<1>2. IsList(ext) /\ DOMAIN ext = 1 .. Len(ext)
  BY ListIs DEF RunsOk
<1>3. f = [i \in DOMAIN ext |-> f[i]]
  BY Zenon
<1>4. \A i \in 1 .. Len(ext) : f[i] = G(i)
  BY <1>2, Zenon
<1> HIDE DEF f
<1>5. ASSUME NEW i \in 1 .. Len(ext)
      PROVE  IsList(G(i))
  <2>1. N(i) \in Int
    BY ExtBlock DEF RunsOk, Ext!CeilDiv
  <2>2. G(i) = [k \in 1 .. N(i) |-> G(i)[k]]
    BY Zenon
  <2> DEFINE g == G(i)
             m == IF N(i) < 0 THEN 0 ELSE N(i)
  <2> HIDE DEF G, N
  <2>3. m \in Nat /\ 1 .. N(i) = 1 .. m
    BY <2>1
  <2>4. g = [k \in 1 .. m |-> g[k]]
    BY <2>2, <2>3, Zenon
  <2> HIDE DEF g, m
  <2>5. IsList(g)
    BY <2>3, <2>4, ListOn
  <2>6. QED
    BY <2>5, Zenon DEF g
<1> HIDE DEF G
<1>6. \A i \in 1 .. Len(ext) : IsList(f[i])
  BY <1>4, <1>5, Zenon
<1>7. QED
  BY <1>1, <1>2, <1>3, <1>6, ExtFlattens, Zenon DEF JoinOf

LEMMA ExtParse ==
    ASSUME NEW recs, IsList(recs), \A i \in 1 .. Len(recs) : IsList(recs[i].slack)
    PROVE  IsList(Ext!ParseDirBlock(recs))
<1> DEFINE InUse(r) == IF r.ino # 0 /\ r.name \notin {".", ".."} THEN <<Ext!Live(r)>> ELSE <<>>
           Slack(s) == IF s.ino \in 1 .. Ext!Sb.inodes THEN <<Ext!Deleted(s)>> ELSE <<>>
           G(i) == [k \in DOMAIN recs[i].slack |-> Slack(recs[i].slack[k])]
           f == [i \in DOMAIN recs |-> InUse(recs[i]) \o Ext!FlattenSeq(G(i))]
<1>1. Ext!ParseDirBlock(recs) = Ext!FlattenSeq(f)
  BY Zenon DEF Ext!ParseDirBlock
<1>2. DOMAIN recs = 1 .. Len(recs)
  BY ListIs
<1>3. f = [i \in DOMAIN recs |-> f[i]]
  BY Zenon
<1>4. \A i \in 1 .. Len(recs) : f[i] = InUse(recs[i]) \o Ext!FlattenSeq(G(i))
  BY <1>2, Zenon
<1> HIDE DEF f
<1>5. \A r : InUse(r) = <<Ext!Live(r)>> \/ InUse(r) = <<>>
  BY Zenon
<1>6. \A r : IsList(InUse(r))
  <2> HIDE DEF InUse
  <2>1. QED
    BY <1>5, ListOne, ListNone, Zenon
<1>7. \A s : Slack(s) = <<Ext!Deleted(s)>> \/ Slack(s) = <<>>
  BY Zenon
<1>8. \A s : IsList(Slack(s))
  <2> HIDE DEF Slack
  <2>1. QED
    BY <1>7, ListOne, ListNone, Zenon
<1> HIDE DEF InUse, Slack
<1>9. ASSUME NEW i \in 1 .. Len(recs)
      PROVE  IsList(Ext!FlattenSeq(G(i)))
  <2> DEFINE s == recs[i].slack
             g == [k \in DOMAIN s |-> Slack(s[k])]
  <2>1. IsList(s) /\ DOMAIN s = 1 .. Len(s)
    BY ListIs
  <2>2. g = [k \in DOMAIN s |-> g[k]]
    BY Zenon
  <2>3. \A k \in 1 .. Len(s) : g[k] = Slack(s[k])
    BY <2>1, Zenon
  <2> HIDE DEF g
  <2>4. \A k \in 1 .. Len(s) : IsList(g[k])
    BY <1>8, <2>3, Zenon
  <2>5. IsList(Ext!FlattenSeq(g))
    BY <2>1, <2>2, <2>4, ExtFlattens, Zenon DEF JoinOf
  <2>6. QED
    BY <2>5, Zenon DEF g
<1> HIDE DEF G
<1>10. \A i \in 1 .. Len(recs) : IsList(f[i])
  BY <1>4, <1>6, <1>9, ListJoin
<1>11. QED
  BY <1>1, <1>3, <1>10, ExtFlattens, Zenon DEF JoinOf

LEMMA ExtRecords ==
    ASSUME ExtDisk, NEW blocks, IsList(blocks)
    PROVE  IsList(Ext!Records(blocks))
<1> DEFINE f == [i \in DOMAIN blocks |->
                   IF blocks[i] \in DOMAIN disk.dirs THEN Ext!ParseDirBlock(disk.dirs[blocks[i]]) ELSE <<>>]
<1>1. Ext!Records(blocks) = Ext!FlattenSeq(f)
  BY Zenon DEF Ext!Records
<1>2. DOMAIN blocks = 1 .. Len(blocks)
  BY ListIs
<1>3. f = [i \in DOMAIN blocks |-> f[i]]
  BY Zenon
<1>4. \A i \in 1 .. Len(blocks) : f[i] =
        IF blocks[i] \in DOMAIN disk.dirs THEN Ext!ParseDirBlock(disk.dirs[blocks[i]]) ELSE <<>>
  BY <1>2, Zenon
<1> HIDE DEF f
<1>5. \A b \in DOMAIN disk.dirs : IsList(disk.dirs[b]) /\ \A i \in 1 .. Len(disk.dirs[b]) : IsList(disk.dirs[b][i].slack)
  <2> TAKE b \in DOMAIN disk.dirs
  <2>1. Ext!IsSeq(disk.dirs[b]) /\ \A i \in DOMAIN disk.dirs[b] : Ext!IsSeq(disk.dirs[b][i].slack)
    BY ExtAssumption DEF ExtDisk, Ext!DisksOk, Ext!BlocksOk
  <2>2. IsList(disk.dirs[b])
    BY <2>1, ExtIsSeq
  <2>3. DOMAIN disk.dirs[b] = 1 .. Len(disk.dirs[b])
    BY <2>2, ListIs
  <2>4. QED
    BY <2>1, <2>2, <2>3, ExtIsSeq
<1>6. \A b \in DOMAIN disk.dirs : IsList(Ext!ParseDirBlock(disk.dirs[b]))
  BY <1>5, ExtParse
<1>7. \A i \in 1 .. Len(blocks) : IsList(f[i])
  BY <1>4, <1>6, ListNone
<1>8. QED
  BY <1>1, <1>3, <1>7, ExtFlattens, Zenon DEF JoinOf

LEMMA ExtReadDir ==
    ASSUME ExtDisk, NEW n \in DOMAIN disk.inodes
    PROVE  IsList(Ext!ReadDir(disk.inodes[n]))
BY ExtExtents, ExtDirBlocks, ExtRecords, Zenon DEF Ext!ReadDir

VisitOp(path, acc, e) == Ext!Visit(acc, e, path)
VisitKeeps(path, acc, k) == CapKeeps(path, acc, k) /\ "subs" \in DOMAIN acc /\ IsList(acc.subs)
VisitTurns == INSTANCE FoldInduction WITH Op <- VisitOp, Keeps <- VisitKeeps

LEMMA ExtVisit ==
    ASSUME opts.max \in Nat, NEW path, NEW k, NEW e, NEW acc, VisitKeeps(path, acc, k - 1)
    PROVE  VisitKeeps(path, VisitOp(path, acc, e), k)
<1> DEFINE new == VisitOp(path, acc, e)
           entry == Ext!EntryOf(e, Append(path, e.name))
           subs == Append(acc.subs, [ino |-> e.ino, path |-> Append(path, e.name)])
           type == Ext!InodeFor(e).type
<1>1. new = IF Len(acc.out) >= opts.max \/ e.name = "lost+found" THEN acc
            ELSE IF ~e.deleted /\ e.type = "dir" THEN [acc EXCEPT !.subs = subs]
            ELSE IF type \in {"none", "dir"} THEN acc
            ELSE [acc EXCEPT !.out = Append(@, entry)]
  BY DEF VisitOp, Ext!Visit, Ext!Full
<1>2. "out" \in DOMAIN acc /\ "subs" \in DOMAIN acc /\ IsList(acc.subs) /\ IsList(subs)
  BY ListAppend DEF VisitKeeps, CapKeeps
<1> HIDE DEF new, entry, subs, type
<1>3. "out" \in DOMAIN new /\ "subs" \in DOMAIN new /\ IsList(new.subs)
      /\ (new.out = acc.out \/ (~(Len(acc.out) >= opts.max) /\ \E x : new.out = Append(acc.out, x)))
  BY <1>1, <1>2
<1>4. VisitKeeps(path, new, k)
  BY <1>3, CapTurn DEF VisitKeeps
<1>5. QED
  BY <1>4, Zenon DEF new

ExtWalked(path, n) ==
    Ext!FoldLeft(LAMBDA a, e : Ext!Visit(a, e, path), [out |-> out, subs |-> <<>>], Ext!ReadDir(disk.inodes[n]))

\* A directory of the tree is walked within the limit.
LEMMA ExtWalk ==
    ASSUME ExtDisk, opts.max \in Nat, Within(out, opts.max), NEW n \in DOMAIN disk.inodes, NEW path
    PROVE  Within(ExtWalked(path, n).out, opts.max) /\ IsList(ExtWalked(path, n).subs)
<1> DEFINE list == Ext!ReadDir(disk.inodes[n])
           base == [out |-> out, subs |-> <<>>]
<1>1. Len(list) \in Nat /\ DOMAIN list = 1 .. Len(list)
  BY ExtReadDir, ListIs
<1>2. VisitKeeps(path, base, 0)
  BY ListNone DEF VisitKeeps, CapKeeps
<1>3. ExtWalked(path, n) = VisitTurns!Fold(path, base, list)
  BY Zenon DEF ExtWalked, VisitTurns!Fold, VisitOp, Ext!FoldLeft, Ext!MapThenFoldSet, Ext!Max,
     VisitTurns!MapThenFoldSet, VisitTurns!Max
<1> HIDE DEF base, list
<1>4. \A j \in 1 .. Len(list) : \A acc : VisitKeeps(path, acc, j - 1) => VisitKeeps(path, VisitOp(path, acc, list[j]), j)
  BY ExtVisit
<1>5. VisitKeeps(path, VisitTurns!Fold(path, base, list), Len(list))
  BY <1>1, <1>2, <1>4, VisitTurns!FoldKeeps
<1>6. QED
  BY <1>3, <1>5 DEF VisitKeeps, CapKeeps

ExtInv ==
    /\ ExtDisk /\ opts.max \in Nat /\ Within(out, opts.max)
    /\ {"dirs", "at"} \subseteq DOMAIN work /\ IsList(work.dirs)
    /\ pc \in {"orphans", "nodes"} => work.at \in Int

LEMMA ExtFront ==
    ASSUME NEW s, IsList(s), s # <<>>
    PROVE  IsList(Ext!Front(s)) /\ Len(Ext!Front(s)) < Len(s) /\ 0 < Len(s)
<1>1. PICK S : s \in Seq(S)
  BY DEF IsList
<1>2. SubSeq(s, 1, Len(s) - 1) \in Seq(S) /\ Len(SubSeq(s, 1, Len(s) - 1)) < Len(s) /\ 0 < Len(s)
  BY <1>1
<1>3. QED
  BY <1>2 DEF IsList, Ext!Front

LEMMA ExtNumbers ==
    ASSUME ExtDisk
    PROVE  Ext!LastIno \in Int /\ Ext!BlockBitmap.count \in Int /\ IsFiniteSet(DOMAIN disk.inodes)
<1>1. /\ {Ext!Sb.inodes, Ext!Sb.groups, Ext!Sb.inodesPerGroup, Ext!Sb.blocks, disk.addressable} \subseteq Nat
      /\ IsFiniteSet(DOMAIN disk.inodes)
  BY ExtAssumption, Zenon DEF Ext!DisksOk, Ext!SizesOk, Ext!Sb, ExtDisk, Ext!IsFiniteSet, IsFiniteSet
<1>2. QED
  BY <1>1 DEF Ext!LastIno, Ext!BlockBitmap, Ext!NoBitmap, Ext!Least

LEMMA ExtFalls ==
    ASSUME ExtInv, [Ext!Next]_vars
    PROVE  ExtInv' /\ (Ext!Next => Ext!Shrinks)
<1> DEFINE left == Cardinality({n \in DOMAIN disk.inodes : <<"dir", n>> \notin seen})
           last == Ext!LastIno
           count == Ext!BlockBitmap.count
<1>1. disk' = disk /\ opts' = opts
  BY ZenonT(60) DEF vars, Ext!Next, Ext!Probe, Ext!Open, Ext!SkipDir, Ext!WalkDir, Ext!EndWalk,
              Ext!OrphanInode, Ext!EndOrphans, Ext!ScanNode, Ext!EndNodes
<1>2. last' = last /\ count' = count /\ last \in Int /\ count \in Int
  BY <1>1, ExtNumbers DEF Ext!LastIno, Ext!BlockBitmap, Ext!Sb, Ext!Block, ExtInv
<1> DEFINE phase == CASE pc = "probe" -> 6 [] pc = "open" -> 5 [] pc = "walk" -> 4
                    [] pc = "orphans" -> 3 [] pc = "nodes" -> 2 [] OTHER -> 0
           todo == CASE pc = "walk" -> left [] pc = "orphans" -> last - work.at + 1
                   [] pc = "nodes" -> count - work.at [] OTHER -> 0
           dirs == IF pc = "walk" THEN Len(work.dirs) ELSE 0
<1>3. Ext!Rank = <<phase, todo, dirs>> /\ Ext!Rank' = <<phase', todo', dirs'>>
  BY DEF Ext!Rank, Ext!Cardinality, Cardinality
<1>4. left \in Nat /\ left' \in Nat
  BY <1>1, ExtNumbers, FS_Subset, FS_CardinalityType DEF ExtInv
<1> HIDE DEF last, count
<1>5. CASE Ext!WalkDir
  <2> DEFINE dir == Ext!Last(work.dirs)
             walked == ExtWalked(dir.path, dir.ino)
  <2>1. /\ out' = walked.out /\ work' = [work EXCEPT !.dirs = Ext!Front(@) \o walked.subs]
        /\ seen \cup {<<"dir", dir.ino>>} \subseteq seen' /\ ~Ext!Skips(dir.ino) /\ pc = "walk" /\ pc' = "walk"
    BY <1>5, Zenon DEF Ext!WalkDir, ExtWalked
  <2>2. dir.ino \in DOMAIN disk.inodes /\ <<"dir", dir.ino>> \notin seen
    BY <2>1 DEF Ext!Skips, Ext!HasInode
  <2>3. Within(out', opts.max) /\ IsList(walked.subs)
    BY <2>1, <2>2, ExtWalk DEF ExtInv
  <2> HIDE DEF walked
  <2>4. IsList(Ext!Front(work.dirs))
    <3>1. work.dirs # <<>>
      BY <1>5, Zenon DEF Ext!WalkDir
    <3>2. QED
      BY <3>1, ExtFront DEF ExtInv
  <2>5. ExtInv'
    BY <1>1, <2>1, <2>3, <2>4, ListJoin DEF ExtInv, ExtDisk
  <2>6. left' < left /\ 0 < left
    <3> DEFINE S == {n \in DOMAIN disk.inodes : <<"dir", n>> \notin seen}
    <3>1. IsFiniteSet(S) /\ IsFiniteSet(S \ {dir.ino}) /\ dir.ino \in S
      BY <2>2, ExtNumbers, FS_Subset DEF ExtInv
    <3>2. {n \in DOMAIN disk.inodes' : <<"dir", n>> \notin seen'} \subseteq S \ {dir.ino}
      BY <1>1, <2>1
    <3> HIDE DEF dir, S
    <3>3. Cardinality(S \ {dir.ino}) = Cardinality(S) - 1 /\ left' <= Cardinality(S \ {dir.ino})
      BY <3>1, <3>2, FS_RemoveElement, FS_Subset
    <3>4. QED
      BY <1>4, <3>3 DEF S
  <2> HIDE DEF left
  <2>7. QED
    BY <1>3, <2>1, <2>5, <2>6, FallsOfThree DEF Ext!Shrinks
<1>6. CASE Ext!SkipDir
  <2>1. /\ work' = [work EXCEPT !.dirs = Ext!Front(@)] /\ pc = "walk" /\ pc' = pc /\ out' = out /\ work.dirs # <<>>
        /\ seen \subseteq seen'
    BY <1>6 DEF Ext!SkipDir
  <2>2. IsList(Ext!Front(work.dirs)) /\ Len(Ext!Front(work.dirs)) < Len(work.dirs) /\ 0 < Len(work.dirs)
    BY <2>1, ExtFront DEF ExtInv
  <2>3. ExtInv' /\ Len(work'.dirs) < Len(work.dirs)
    BY <1>1, <2>1, <2>2 DEF ExtInv, ExtDisk
  <2>4. left' <= left
    BY <1>1, <2>1, ExtNumbers, FS_Subset DEF ExtInv
  <2> HIDE DEF left
  <2>5. QED
    BY <1>3, <1>4, <2>1, <2>2, <2>3, <2>4, FallsOfThree DEF Ext!Shrinks
<1>7. CASE Ext!Next /\ ~Ext!WalkDir /\ ~Ext!SkipDir
  <2>1. /\ out' = out \/ (~(Len(out) >= opts.max) /\ \E e : out' = Append(out, e))
    <3>1. CASE Ext!Probe \/ Ext!Open \/ Ext!EndWalk \/ Ext!EndOrphans \/ Ext!EndNodes
      BY <3>1, Zenon DEF Ext!Probe, Ext!Open, Ext!EndWalk, Ext!EndOrphans, Ext!EndNodes
    <3>2. CASE Ext!OrphanInode
      BY <3>2, Zenon DEF Ext!OrphanInode, Ext!Full
    <3>3. CASE Ext!ScanNode
      BY <3>3 DEF Ext!ScanNode, Ext!Full
    <3>4. QED
      BY <1>7, <3>1, <3>2, <3>3, Zenon DEF Ext!Next
  <2>2. Within(out', opts.max)
    BY <2>1, WithinAppend DEF ExtInv
  <2>3. /\ {"dirs", "at"} \subseteq DOMAIN work'
        /\ work'.dirs = work.dirs \/ work'.dirs = <<>> \/ \E x : work'.dirs = <<x>>
    BY <1>7 DEF ExtInv, Ext!Next, Ext!Probe, Ext!Open, Ext!EndWalk,
              Ext!OrphanInode, Ext!EndOrphans, Ext!ScanNode, Ext!EndNodes
  <2>4. IsList(work'.dirs)
    BY <2>3, ListNone, ListOne DEF ExtInv
  <2>5. \/ pc = "probe" /\ pc' \in {"open", "refused"}
        \/ pc = "open" /\ pc' = "walk"
        \/ pc = "walk" /\ pc' \in {"orphans", "done"} /\ (pc' = "orphans" => work'.at \in Int)
        \/ pc = "orphans" /\ pc' = "orphans" /\ work.at <= last /\ work'.at = work.at + 1
        \/ pc = "orphans" /\ pc' \in {"nodes", "done"} /\ (pc' = "nodes" => work'.at \in Int)
        \/ pc = "nodes" /\ pc' = "nodes" /\ work.at < count /\ work'.at = work.at + 1
        \/ pc = "nodes" /\ pc' = "done"
    <3>1. FirstIno \in Int /\ Ext!FirstDataBlock(Ext!Block) \in Int
      BY ExtAssumption DEF Ext!DisksOk, Ext!FirstDataBlock
    <3>2. CASE Ext!Probe \/ Ext!Open
      BY <3>2 DEF Ext!Probe, Ext!Open
    <3>3. CASE Ext!EndWalk
      BY <3>1, <3>3 DEF ExtInv, Ext!EndWalk
    <3>4. CASE Ext!OrphanInode
      <4>1. pc = "orphans" /\ pc' = pc /\ work.at <= last /\ work' = [work EXCEPT !.at = @ + 1]
        BY <3>4, Zenon DEF Ext!OrphanInode, last
      <4>2. QED
        BY <4>1 DEF ExtInv
    <3>5. CASE Ext!EndOrphans
      BY <3>1, <3>5 DEF ExtInv, Ext!EndOrphans
    <3>6. CASE Ext!ScanNode
      <4>1. pc = "nodes" /\ pc' = pc /\ work.at < count /\ work' = [work EXCEPT !.at = @ + 1]
        BY <3>6, Zenon DEF Ext!ScanNode, count
      <4>2. QED
        BY <4>1 DEF ExtInv
    <3>7. CASE Ext!EndNodes
      BY <3>7 DEF Ext!EndNodes
    <3>8. QED
      BY <1>7, <3>2, <3>3, <3>4, <3>5, <3>6, <3>7, Zenon DEF Ext!Next
  <2>6. ExtInv'
    BY <1>1, <2>2, <2>3, <2>4, <2>5 DEF ExtInv, ExtDisk
  <2> HIDE DEF left
  <2>7. Ext!Falls(Ext!Rank, Ext!Rank')
    <3>1. \/ phase' < phase /\ 0 < phase
          \/ phase' = phase /\ todo' < todo /\ 0 < todo
      BY <1>2, <2>5 DEF ExtInv
    <3> HIDE DEF phase, todo, dirs
    <3>2. QED
      BY <1>3, <3>1, FallsOfThree
  <2>8. QED
    BY <2>6, <2>7 DEF Ext!Shrinks
<1>8. CASE UNCHANGED vars /\ ~Ext!Next
  BY <1>1, <1>8 DEF vars, ExtInv, ExtDisk
<1>9. QED
  BY <1>5, <1>6, <1>7, <1>8

-----------------------------------------------------------------------------
(* The invariant of every walk, and what follows: the cap, and that each step *)
(* leaves less to do.                                                         *)
WalksHold ==
    /\ kind = "fat" => FatInv
    /\ kind = "exfat" => ExfatInv
    /\ kind = "ntfs" => NtfsInv
    /\ kind = "ext" => ExtInv
    /\ kind = "hfs" => HfsInv
    /\ kind = "apfs" => ApfsInv
    /\ kind = "iso" => IsoInv
    /\ kind = "parts" => PartsInv
    /\ kind = "lost" => LostInv
    /\ kind = "image" => ImageInv
    /\ kind = "carve" => CarveInv

LEMMA CapsInit ==
    ASSUME Init, kind \in {"fat", "exfat", "ntfs", "ext", "iso"}
    PROVE  opts.max \in Nat /\ Within(out, opts.max)
<1>1. out = <<>> /\ opts \in Requests
  BY DEF Init, Fat!Init, Exfat!Init, Ntfs!Init, Ext!Init, Iso!Init
<1>2. QED
  BY <1>1, RequestAssumption, WithinNone

LEMMA WalksInit == Init => WalksHold
<1> SUFFICES ASSUME Init PROVE WalksHold
  OBVIOUS
<1>1. ASSUME kind = "fat" PROVE FatInv
  <2>1. Fat!Init
    BY <1>1, Zenon DEF Init
  <2>2. QED
    BY <1>1, <2>1, CapsInit, ListNone DEF Fat!Init, FatInv, FatWork, FatDirs
<1>2. ASSUME kind = "exfat" PROVE ExfatInv
  <2>1. Exfat!Init
    BY <1>2, Zenon DEF Init
  <2>2. QED
    BY <1>2, <2>1, CapsInit, ListNone DEF Exfat!Init, ExfatInv, ExfatDirs
<1>3. ASSUME kind = "iso" PROVE IsoInv
  <2>1. Iso!Init
    BY <1>3, Zenon DEF Init
  <2>2. QED
    BY <1>3, <2>1, CapsInit, ListNone DEF Iso!Init, IsoInv, IsoDirs
<1>4. ASSUME kind = "ntfs" PROVE NtfsInv
  <2>1. Ntfs!Init
    BY <1>4, Zenon DEF Init
  <2>2. QED
    BY <1>4, <2>1, CapsInit DEF Ntfs!Init, NtfsInv
<1>5. ASSUME kind = "ext" PROVE ExtInv
  <2>1. Ext!Init
    BY <1>5, Zenon DEF Init
  <2>2. QED
    BY <1>5, <2>1, CapsInit, ListNone DEF Ext!Init, ExtInv, ExtDisk
<1>6. ASSUME kind = "hfs" PROVE HfsInv
  <2>1. Hfs!Init
    BY <1>6, Zenon DEF Init
  <2>2. QED
    BY <2>1, FS_EmptySet DEF Hfs!Init, HfsInv
<1>7. /\ kind = "apfs" => ApfsInv
      /\ kind = "lost" => LostInv
      /\ kind = "carve" => CarveInv
  <2>1. ASSUME kind = "apfs" PROVE ApfsInv
    <3>1. Apfs!Init
      BY <2>1, Zenon DEF Init
    <3>2. QED
      BY <3>1 DEF Apfs!Init, ApfsInv
  <2>2. ASSUME kind = "lost" PROVE LostInv
    <3>1. Lost!Init
      BY <2>2, Zenon DEF Init
    <3>2. QED
      BY <3>1 DEF Lost!Init, LostInv
  <2>3. ASSUME kind = "carve" PROVE CarveInv
    <3>1. Carve!Init
      BY <2>3, Zenon DEF Init
    <3>2. QED
      BY <3>1, CarveAssumption DEF Carve!Init, CarveInv, Carve!RequestsOk
  <2>4. QED
    BY <2>1, <2>2, <2>3, Zenon
<1>8. ASSUME kind = "parts" PROVE PartsInv
  <2>1. Parts!Init
    BY <1>8, Zenon DEF Init
  <2>2. QED
    BY <2>1, ListNone DEF Parts!Init, PartsInv
<1>9. ASSUME kind = "image" PROVE ImageInv
  <2>1. work = Len(opts) /\ opts \in ImageReads
    BY <1>9, Zenon DEF Init, Image!Init
  <2>2. opts \in Seq(Image!ToSet(opts))
    BY <2>1, ImageAssumption, Zenon DEF Image!RequestsOk, Image!IsSeq
  <2>3. QED
    BY <2>1, <2>2 DEF ImageInv
<1>10. QED
  BY <1>1, <1>2, <1>3, <1>4, <1>5, <1>6, <1>7, <1>8, <1>9, Zenon DEF WalksHold

\* A step of the program is one of the part it is in.
LEMMA WalksMove ==
    ASSUME WalksHold, [Next]_vars
    PROVE  /\ kind' = "fat" => FatInv' /\ (Next => Fat!Shrinks)
           /\ kind' = "exfat" => ExfatInv' /\ (Next => Exfat!Shrinks)
           /\ kind' = "ntfs" => NtfsInv' /\ (Next => Ntfs!Shrinks)
           /\ kind' = "ext" => ExtInv' /\ (Next => Ext!Shrinks)
           /\ kind' = "hfs" => HfsInv' /\ (Next => Hfs!Shrinks)
           /\ kind' = "apfs" => ApfsInv' /\ (Next => Apfs!Shrinks)
           /\ kind' = "iso" => IsoInv' /\ (Next => Iso!Shrinks)
           /\ kind' = "parts" => PartsInv' /\ (Next => Parts!Shrinks)
           /\ kind' = "lost" => LostInv' /\ (Next => Lost!Shrinks)
           /\ kind' = "image" => ImageInv' /\ (Next => Image!Shrinks)
           /\ kind' = "carve" => CarveInv' /\ (Next => Carve!Shrinks)
<1>1. kind' = "fat" => FatInv' /\ (Next => Fat!Shrinks)
  <2>1. kind' = "fat" => FatInv /\ [Fat!Next]_vars /\ (Next => Fat!Next)
    BY Zenon DEF Next, vars, WalksHold
  <2>2. QED
    BY <2>1, FatFalls, Zenon
<1>2. kind' = "exfat" => ExfatInv' /\ (Next => Exfat!Shrinks)
  <2>1. kind' = "exfat" => ExfatInv /\ [Exfat!Next]_vars /\ (Next => Exfat!Next)
    BY Zenon DEF Next, vars, WalksHold
  <2>2. QED
    BY <2>1, ExfatFalls, Zenon
<1>3. kind' = "ntfs" => NtfsInv' /\ (Next => Ntfs!Shrinks)
  <2>1. kind' = "ntfs" => NtfsInv /\ [Ntfs!Next]_vars /\ (Next => Ntfs!Next)
    BY Zenon DEF Next, vars, WalksHold
  <2>2. QED
    BY <2>1, NtfsFalls, Zenon
<1>4. kind' = "ext" => ExtInv' /\ (Next => Ext!Shrinks)
  <2>1. kind' = "ext" => ExtInv /\ [Ext!Next]_vars /\ (Next => Ext!Next)
    BY Zenon DEF Next, vars, WalksHold
  <2>2. QED
    BY <2>1, ExtFalls, Zenon
<1>5. kind' = "hfs" => HfsInv' /\ (Next => Hfs!Shrinks)
  <2>1. kind' = "hfs" => HfsInv /\ [Hfs!Next]_vars /\ (Next => Hfs!Next)
    BY Zenon DEF Next, vars, WalksHold
  <2>2. QED
    BY <2>1, HfsFalls, Zenon
<1>6. kind' = "apfs" => ApfsInv' /\ (Next => Apfs!Shrinks)
  <2>1. kind' = "apfs" => ApfsInv /\ [Apfs!Next]_vars /\ (Next => Apfs!Next)
    BY Zenon DEF Next, vars, WalksHold
  <2>2. QED
    BY <2>1, ApfsFalls, Zenon
<1>7. kind' = "iso" => IsoInv' /\ (Next => Iso!Shrinks)
  <2>1. kind' = "iso" => IsoInv /\ [Iso!Next]_vars /\ (Next => Iso!Next)
    BY Zenon DEF Next, vars, WalksHold
  <2>2. QED
    BY <2>1, IsoFalls, Zenon
<1>8. kind' = "parts" => PartsInv' /\ (Next => Parts!Shrinks)
  <2>1. kind' = "parts" => PartsInv /\ [Parts!Next]_vars /\ (Next => Parts!Next)
    BY Zenon DEF Next, vars, WalksHold
  <2>2. QED
    BY <2>1, PartsFalls, Zenon
<1>9. kind' = "lost" => LostInv' /\ (Next => Lost!Shrinks)
  <2>1. kind' = "lost" => LostInv /\ [Lost!Next]_vars /\ (Next => Lost!Next)
    BY Zenon DEF Next, vars, WalksHold
  <2>2. QED
    BY <2>1, LostFalls, Zenon
<1>10. kind' = "image" => ImageInv' /\ (Next => Image!Shrinks)
  <2>1. kind' = "image" => ImageInv /\ [Image!Next]_vars /\ (Next => Image!Next)
    BY Zenon DEF Next, vars, WalksHold
  <2>2. QED
    BY <2>1, ImageFalls, Zenon
<1>11. kind' = "carve" => CarveInv' /\ (Next => Carve!Shrinks)
  <2>1. kind' = "carve" => CarveInv /\ [Carve!Next]_vars /\ (Next => Carve!Next)
    BY Zenon DEF Next, vars, WalksHold
  <2>2. QED
    BY <2>1, CarveFalls, Zenon
<1>12. QED
  BY <1>1, <1>2, <1>3, <1>4, <1>5, <1>6, <1>7, <1>8, <1>9, <1>10, <1>11, Zenon

LEMMA WalksStep == WalksHold /\ [Next]_vars => WalksHold'
BY WalksMove, Zenon DEF WalksHold

LEMMA WalksAlways == Spec => []WalksHold
BY WalksInit, WalksStep, PTL DEF Spec

\* No walk of a FAT, exFAT, NTFS, ext or ISO volume emits more than max_entries,
\* whatever the volume holds: every place that emits asks the limit first.
THEOREM CappedAlways == Spec => []Capped
<1>1. WalksHold => Capped
  BY Zenon DEF WalksHold, FatInv, ExfatInv, NtfsInv, ExtInv, IsoInv, Within,
               Capped, Fat!Capped, Exfat!Capped, Ntfs!Capped, Ext!Capped, Iso!Capped
<1>2. QED
  BY <1>1, WalksAlways, PTL

\* Every step of every engine, of the sweeps, of the stack, of a copy and of a
\* carving leaves less to do, in a number or list of numbers that cannot go down
\* for ever: a loop of clusters, directories, nodes or tables, or a disk that is
\* torn or made up, cannot hold a walk.
THEOREM ShrinksAlways == Spec => AlwaysShrinks
<1>1. ASSUME WalksHold, StacksHold, JobsHold, [Next]_vars
      PROVE  [Shrinks]_vars
  <2>1. CASE Next
    <3>1. kind = "stack" => Stack!Shrinks
      <4>1. kind = "stack" => Stack!Next /\ Stack!StackInv
        BY <1>1, <2>1, Zenon DEF Next, StacksHold
      <4>2. QED
        BY <4>1, Stack!ShrinksHolds, Zenon
    <3>2. kind = "recover" => Recover!Shrinks
      <4>1. kind = "recover" => Recover!Next /\ Recover!IInv /\ Recover!RInv
        BY <1>1, <2>1, Zenon DEF Next, JobsHold
      <4>2. QED
        BY <4>1, JobAssumption, Recover!ShrinksHolds, Zenon
    <3>3. kind' = kind
      BY <2>1, Zenon DEF Next
    <3>4. QED
      BY <1>1, <2>1, <3>1, <3>2, <3>3, WalksMove, Zenon DEF Shrinks
  <2>2. QED
    BY <1>1, <2>1
<1>2. QED
  BY <1>1, WalksAlways, StacksAlways, JobsAlways, PTL DEF Spec, AlwaysShrinks
=============================================================================
