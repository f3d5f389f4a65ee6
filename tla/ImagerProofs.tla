---------------------------- MODULE ImagerProofs ----------------------------
(***************************************************************************)
(* Proofs about Imager for any source, chunk size, save interval and any   *)
(* faults.  They are about runs that resume an image; that an image is     *)
(* started over over its old map, or unplugged, is what the runs           *)
(* imager_over and imager_unplug show.                                     *)
(***************************************************************************)
EXTENDS Imager, SequenceTheorems, FiniteSetTheorems, TLAPS

-----------------------------------------------------------------------------
(* The sectors of a chunk.                                                 *)
LEMMA Times == ASSUME NEW a \in Nat, NEW b \in Nat, a <= b, NEW s \in Nat PROVE a * s <= b * s
<1>1. PICK d \in Nat : b = a + d
  <2>1. b - a \in Nat /\ b = a + (b - a)
    OBVIOUS
  <2>2. QED
    BY <2>1
<1>2. b * s = a * s + d * s /\ d * s \in Nat /\ a * s \in Nat
  BY <1>1
<1>3. QED
  BY <1>2

LEMMA ChunkSectorsAre ==
    ASSUME NEW c \in Chunk
    PROVE  SectorsOf(c) \subseteq Sector /\ IsFiniteSet(SectorsOf(c))
<1>1. c \in Nat /\ c + 1 \in Nat /\ c + 1 <= NumChunks /\ ChunkSectors \in Nat /\ NumChunks \in Nat
  BY ImagerAssumption DEF Chunk
<1>2. (c + 1) * ChunkSectors <= NumChunks * ChunkSectors
  BY <1>1, Times
<1>3. c * ChunkSectors \in Nat /\ (c + 1) * ChunkSectors \in Nat /\ NumChunks * ChunkSectors \in Nat
  BY <1>1
<1>4. SectorsOf(c) \subseteq Sector
  BY <1>2, <1>3 DEF SectorsOf, Sector
<1>5. IsFiniteSet(SectorsOf(c))
  BY <1>3, FS_Interval DEF SectorsOf
<1>6. QED
  BY <1>4, <1>5

LEMMA ChunksApart ==
    ASSUME NEW c \in Chunk, NEW d \in Chunk, c # d
    PROVE  SectorsOf(c) \cap SectorsOf(d) = {}
<1> DEFINE s == ChunkSectors
<1>1. c \in Nat /\ d \in Nat /\ c + 1 \in Nat /\ d + 1 \in Nat /\ s \in Nat
  BY ImagerAssumption DEF Chunk
<1>2. c + 1 <= d \/ d + 1 <= c
  BY <1>1
<1>3. (c + 1) * s <= d * s \/ (d + 1) * s <= c * s
  BY <1>1, <1>2, Times
<1>4. c * s \in Nat /\ d * s \in Nat /\ (c + 1) * s \in Nat /\ (d + 1) * s \in Nat
  BY <1>1
<1>5. SectorsOf(c) = c * s .. (c + 1) * s - 1 /\ SectorsOf(d) = d * s .. (d + 1) * s - 1
  BY DEF SectorsOf
<1> HIDE DEF s
<1>6. QED
  BY <1>3, <1>4, <1>5

-----------------------------------------------------------------------------
(* What is in an image, of the maps that describe it.                      *)

\* A chunk, read through a map.
Back(o, m, c) ==
    IF ~m.zstd
    THEN o.raw \cap SectorsOf(c)
    ELSE UNION {o.slots[k] : k \in {k \in DOMAIN m.frames : m.frames[k] = c}}

\* A chunk that reads back as the source and verifies.
Good(o, m, c) ==
    /\ Back(o, m, c) \ m.bad = (NonZero \cap SectorsOf(c)) \ m.bad
    /\ \/ Back(o, m, c) = m.hash[c]
       \/ m.hash[c] = {} /\ m.bad \cap SectorsOf(c) # {}

\* The frames of a map are there and of chunks in S, and those are good.
Fits(o, m, S) ==
    /\ Len(m.frames) <= Len(o.slots)
    /\ \A k \in DOMAIN m.frames : m.frames[k] \in S
    /\ \A c \in S : Good(o, m, c)

\* Only a chunk that is done has bad sectors.
Clean(m) == \A c \in Chunk \ m.done : m.bad \cap SectorsOf(c) = {}

\* A map that is complete has every chunk and the hash of the image.
WholeIs(o, m) == m.complete => m.done = Chunk /\ m.whole = [c \in Chunk |-> Back(o, m, c)]

Sound(o, m) == o.exists /\ Fits(o, m, m.done) /\ Clean(m) /\ WholeIs(o, m)

\* The map of the run, as it would be saved; and its chunks that are written.
RunMap == [map EXCEPT !.frames = frames]
Written == IF phase = "write" THEN map.done \ {i} ELSE map.done

-----------------------------------------------------------------------------
(* The invariant.                                                          *)
OneMap == \A m, n \in saved : m = n

SavedSound == \A m \in saved : Sound(out, m)

\* The run's map is as sound as a saved one, but for the chunk it has read.
RunSound ==
    phase # "off" =>
        /\ out.exists
        /\ Fits(out, RunMap, Written)
        /\ Clean(map)
        /\ WholeIs(out, RunMap)
        /\ badTotal = Cardinality(map.bad)

\* Where the run is, and what it holds of its chunk.
AtChunk ==
    /\ phase \in {"head", "write"} => sinceCkpt < CkptChunks
    /\ phase \in {"write", "ckpt"} => i < NumChunks
    /\ phase = "write" =>
          /\ i \in map.done /\ ~map.complete
          /\ buf = map.hash[i]
          /\ buf = (NonZero \cap SectorsOf(i)) \ map.bad

\* The map on disk is an earlier state of the run's.
Earlier(m, n) ==
    /\ m.done \subseteq n.done /\ m.bad \subseteq n.bad
    /\ \A c \in m.done : n.hash[c] = m.hash[c]

Behind ==
    phase # "off" =>
        \A m \in saved :
            /\ Earlier(m, map)
            /\ Len(m.frames) <= Len(frames)
            /\ phase = "write" => i \notin m.done

\* No data in the image but the source's.
FromSource == out.raw \subseteq NonZero /\ plugged = TRUE

IInv ==
    /\ TypeOK /\ OneMap /\ SavedSound /\ RunSound /\ AtChunk /\ Behind /\ FromSource

-----------------------------------------------------------------------------
(* What leaves a chunk of an image as it is.                               *)

\* An image that differs at most in chunk j and past its first n frames.
Spares(o, p, j, n) ==
    /\ p.exists = o.exists
    /\ \A c \in Chunk \ {j} : p.raw \cap SectorsOf(c) = o.raw \cap SectorsOf(c)
    /\ Len(o.slots) <= Len(p.slots)
    /\ \A k \in 1 .. n : p.slots[k] = o.slots[k]

LEMMA SparedBack ==
    ASSUME NEW o \in Image, NEW p \in Image, NEW m \in Map, NEW j, NEW n \in Nat,
           Spares(o, p, j, n), Len(m.frames) <= n, NEW c \in Chunk, c # j
    PROVE  Back(p, m, c) = Back(o, m, c)
<1>1. DOMAIN m.frames \subseteq 1 .. n
  BY DEF Map
<1>2. \A k \in DOMAIN m.frames : p.slots[k] = o.slots[k]
  BY <1>1 DEF Spares
<1>3. p.raw \cap SectorsOf(c) = o.raw \cap SectorsOf(c)
  BY DEF Spares
<1>4. QED
  BY <1>2, <1>3 DEF Back

\* A sound map whose chunks are spared stays sound.
LEMMA SparedSound ==
    ASSUME NEW o \in Image, NEW p \in Image, NEW m \in Map, NEW j \in Chunk, NEW n \in Nat,
           Spares(o, p, j, n), Len(m.frames) <= n, j \notin m.done, Sound(o, m)
    PROVE  Sound(p, m)
<1>1. \A c \in m.done : Back(p, m, c) = Back(o, m, c)
  <2>1. SUFFICES ASSUME NEW c \in m.done PROVE Back(p, m, c) = Back(o, m, c)
    OBVIOUS
  <2>2. c \in Chunk /\ c # j
    BY DEF Map
  <2>3. QED
    BY <2>2, SparedBack
<1>2. Fits(p, m, m.done)
  <2>1. Len(m.frames) <= Len(p.slots)
    BY DEF Sound, Fits, Spares, Map, Image
  <2>2. QED
    BY <1>1, <2>1 DEF Sound, Fits, Good
<1>3. ~m.complete
  BY DEF Sound, WholeIs
<1>4. QED
  BY <1>2, <1>3 DEF Sound, Spares, WholeIs

-----------------------------------------------------------------------------
(* The fields of a map.                                                    *)
LEMMA MapFields ==
    ASSUME NEW m \in Map
    PROVE  /\ m.zstd \in BOOLEAN /\ m.done \subseteq Chunk /\ m.hash \in [Chunk -> SUBSET Sector]
           /\ m.bad \subseteq Sector /\ m.frames \in Seq(Chunk) /\ m.complete \in BOOLEAN
           /\ m.whole \in [Chunk -> SUBSET Sector]
           /\ Len(m.frames) \in Nat /\ DOMAIN m.frames = 1 .. Len(m.frames)
           /\ IsFiniteSet(m.bad)
<1>1. IsFiniteSet(Sector)
  <2>1. NumChunks * ChunkSectors - 1 \in Int
    BY ImagerAssumption
  <2>2. QED
    BY <2>1, FS_Interval DEF Sector
<1>2. m.bad \subseteq Sector
  BY DEF Map
<1>3. IsFiniteSet(m.bad)
  BY <1>1, <1>2, FS_Subset
<1>4. QED
  BY <1>3 DEF Map

LEMMA NewMapIs ==
    ASSUME NEW z \in BOOLEAN
    PROVE  /\ NewMap(z) \in Map
           /\ NewMap(z).done = {} /\ NewMap(z).bad = {} /\ NewMap(z).frames = <<>>
           /\ ~NewMap(z).complete /\ NewMap(z).zstd = z
BY DEF NewMap, Map, Blank

LEMMA RunMapIs ==
    ASSUME NEW m \in Map, NEW f \in Seq(Chunk)
    PROVE  LET n == [m EXCEPT !.frames = f]
           IN  /\ n \in Map
               /\ n.zstd = m.zstd /\ n.done = m.done /\ n.hash = m.hash /\ n.bad = m.bad
               /\ n.frames = f /\ n.complete = m.complete /\ n.whole = m.whole
BY DEF Map

LEMMA NoChunks == Chunk # {} /\ 0 \in Chunk
BY ImagerAssumption DEF Chunk

\* Maps that agree on all but their completion read an image alike.
LEMMA SameFits ==
    ASSUME NEW o, NEW m, NEW n, NEW S,
           n.zstd = m.zstd, n.hash = m.hash, n.bad = m.bad, n.frames = m.frames
    PROVE  (Fits(o, m, S) => Fits(o, n, S)) /\ \A c : Back(o, n, c) = Back(o, m, c)
<1>1. \A c : Back(o, n, c) = Back(o, m, c)
  BY DEF Back
<1>2. ASSUME Fits(o, m, S) PROVE Fits(o, n, S)
  BY <1>1, <1>2 DEF Fits, Good
<1>3. QED
  BY <1>1, <1>2

LEMMA OneOrNone ==
    ASSUME NEW S, \A m, n \in S : m = n
    PROVE  Cardinality(S) <= 1
<1>1. CASE S = {}
  BY <1>1, FS_EmptySet
<1>2. CASE S # {}
  <2>1. PICK m \in S : TRUE
    BY <1>2
  <2>2. S = {m}
    BY <2>1
  <2>3. Cardinality(S) = 1
    BY <2>2, FS_Singleton, Zenon
  <2>4. QED
    BY <2>3
<1>3. QED
  BY <1>1, <1>2

-----------------------------------------------------------------------------
(* The start.                                                              *)
LEMMA InitInv == Init => IInv
<1> SUFFICES ASSUME Init PROVE IInv
  OBVIOUS
<1>1. TypeOK
  <2>1. out \in Image
    BY DEF Init, NoImage, Image
  <2>2. map \in Map
    BY NewMapIs DEF Init
  <2>3. Cardinality(saved) <= 1
    BY OneOrNone DEF Init
  <2>4. i \in 0 .. NumChunks /\ sinceCkpt \in 0 .. CkptChunks
    BY ImagerAssumption DEF Init
  <2>5. frames \in Seq(Chunk) /\ faults \in [FaultKind -> Nat] /\ saved \in SUBSET Map
    BY DEF Init
  <2>6. QED
    BY <2>1, <2>2, <2>3, <2>4, <2>5 DEF Init, TypeOK
<1>2. OneMap /\ SavedSound /\ RunSound /\ AtChunk /\ Behind
  BY DEF Init, OneMap, SavedSound, RunSound, AtChunk, Behind
<1>3. FromSource
  BY DEF Init, FromSource, NoImage
<1>4. QED
  BY <1>1, <1>2, <1>3 DEF IInv

LEMMA EmptyImageIs ==
    EmptyImage \in Image /\ EmptyImage.exists /\ EmptyImage.raw = {} /\ EmptyImage.slots = <<>>
<1>1. NoImage \in Image /\ NoImage.raw = {} /\ NoImage.slots = <<>>
  BY DEF NoImage, Image
<1>2. QED
  BY <1>1 DEF EmptyImage, Image

\* A new image, for a map of which nothing is done.
LEMMA OpenedEmpty ==
    ASSUME IInv, NEW m \in Map, NEW sp \in BOOLEAN, Open(m, FALSE, sp),
           m.done = {}, m.frames = <<>>, ~m.complete, Clean(m),
           \A n \in saved : n = m
    PROVE  IInv'
<1> DEFINE o == EmptyImage
<1>1. out' = o /\ o \in Image /\ o.exists /\ o.raw = {} /\ o.slots = <<>>
  BY EmptyImageIs DEF Open
<1>2. /\ map' = m /\ frames' = <<>> /\ saved' = saved /\ phase' = "head" /\ i' = 0
      /\ badTotal' = Cardinality(m.bad) /\ sinceCkpt' = 0 /\ plugged' = TRUE
  BY DEF Open, BadSoFar
<1>3. /\ RunMap' \in Map /\ RunMap'.done = {} /\ RunMap'.frames = <<>> /\ ~RunMap'.complete
  BY <1>2, RunMapIs, MapFields DEF RunMap
<1>4. Written' = {}
  BY <1>2 DEF Written
<1>5. TypeOK'
  <2>1. badTotal' \in Nat
    BY <1>2, MapFields, FS_CardinalityType
  <2>2. i' \in 0 .. NumChunks /\ sinceCkpt' \in 0 .. CkptChunks
    BY <1>2, ImagerAssumption
  <2>3. /\ sparse' \in BOOLEAN /\ buf' \subseteq Sector /\ cancel' \in BOOLEAN
        /\ outcome' = "none" /\ faults' = faults
    BY MapFields DEF Open
  <2>4. frames' \in Seq(Chunk)
    BY <1>2
  <2>5. QED
    BY <1>1, <1>2, <2>1, <2>2, <2>3, <2>4 DEF IInv, TypeOK
<1>6. Fits(o, RunMap', {}) /\ WholeIs(o, RunMap')
  BY <1>1, <1>3 DEF Fits, WholeIs
<1>7. Fits(o, m, {}) /\ WholeIs(o, m)
  BY <1>1 DEF Fits, WholeIs
<1>8. OneMap' /\ SavedSound'
  BY <1>1, <1>2, <1>7 DEF IInv, OneMap, SavedSound, Sound
<1>9. RunSound'
  BY <1>1, <1>2, <1>4, <1>6 DEF RunSound, Clean
<1>10. AtChunk'
  BY <1>2, ImagerAssumption DEF AtChunk
<1>11. Behind'
  BY <1>2 DEF Behind, Earlier
<1>12. FromSource'
  BY <1>1, <1>2 DEF FromSource
<1>13. QED
  BY <1>5, <1>8, <1>9, <1>10, <1>11, <1>12 DEF IInv

LEMMA StartNewStep ==
    ASSUME IInv, NEW z \in BOOLEAN, NEW sp \in BOOLEAN, StartNew(z, sp)
    PROVE  IInv'
<1>1. saved = {} /\ Open(NewMap(z), FALSE, sp)
  BY DEF StartNew
<1>2. Clean(NewMap(z))
  BY NewMapIs DEF Clean
<1>3. QED
  BY <1>1, <1>2, NewMapIs, OpenedEmpty

\* The image is continued: the run's map is the one on disk.
LEMMA OpenedOn ==
    ASSUME IInv, NEW m \in saved, NEW sp \in BOOLEAN, Open(m, TRUE, sp)
    PROVE  IInv'
<1>1. m \in Map /\ Sound(out, m) /\ \A n \in saved : n = m
  BY DEF IInv, TypeOK, SavedSound, OneMap
<1>2. /\ map' = m /\ frames' = m.frames /\ saved' = saved /\ out' = out /\ phase' = "head"
      /\ i' = 0 /\ badTotal' = Cardinality(m.bad) /\ sinceCkpt' = 0 /\ plugged' = TRUE
  BY DEF Open, BadSoFar
<1>3. RunMap' = m /\ Written' = m.done
  BY <1>1, <1>2 DEF RunMap, Written, Map
<1>4. TypeOK'
  <2>1. badTotal' \in Nat
    BY <1>1, <1>2, MapFields, FS_CardinalityType
  <2>2. i' \in 0 .. NumChunks /\ sinceCkpt' \in 0 .. CkptChunks
    BY <1>2, ImagerAssumption
  <2>3. /\ sparse' \in BOOLEAN /\ buf' \subseteq Sector /\ cancel' \in BOOLEAN
        /\ outcome' = "none" /\ faults' = faults
    BY <1>1, MapFields DEF Open
  <2>4. frames' \in Seq(Chunk)
    BY <1>1, <1>2, MapFields
  <2>5. QED
    BY <1>1, <1>2, <2>1, <2>2, <2>3, <2>4 DEF IInv, TypeOK
<1>5. OneMap' /\ SavedSound' /\ FromSource'
  BY <1>2 DEF IInv, OneMap, SavedSound, FromSource
<1>6. RunSound'
  BY <1>1, <1>2, <1>3 DEF RunSound, Sound
<1>7. AtChunk'
  BY <1>2, ImagerAssumption DEF AtChunk
<1>8. Behind'
  BY <1>1, <1>2, MapFields DEF Behind, Earlier
<1>9. QED
  BY <1>4, <1>5, <1>6, <1>7, <1>8 DEF IInv

LEMMA ResumeStep == ASSUME IInv, NEW sp \in BOOLEAN, Resume(sp) PROVE IInv'
<1>1. PICK m \in saved : Open(m, Begun(m) /\ out.exists, sp)
  BY DEF Resume
<1>2. m \in Map /\ Sound(out, m) /\ \A n \in saved : n = m
  BY DEF IInv, TypeOK, SavedSound, OneMap
<1>3. out.exists = TRUE
  BY <1>2 DEF Sound, IInv, TypeOK, Image
<1>4. CASE Begun(m)
  <2>1. Open(m, TRUE, sp)
    BY <1>1, <1>3, <1>4 DEF Open
  <2>2. QED
    BY <2>1, OpenedOn
<1>5. CASE ~Begun(m)
  <2>1. Open(m, FALSE, sp)
    BY <1>1, <1>5 DEF Open
  <2>2. m.done = {} /\ m.frames = <<>>
    BY <1>5 DEF Begun
  <2>3. ~m.complete /\ Clean(m)
    BY <1>2, <2>2, NoChunks DEF Sound, WholeIs
  <2>4. QED
    BY <1>2, <2>1, <2>2, <2>3, OpenedEmpty
<1>6. QED
  BY <1>4, <1>5

-----------------------------------------------------------------------------
(* The end of a run.                                                       *)
LEMMA Stopped ==
    ASSUME IInv, NEW how \in {"interrupted", "complete", "error", "killed"}, Stop(how),
           out' \in Image, out'.raw \subseteq NonZero, faults' \in [FaultKind -> Nat],
           saved' \in SUBSET Map, OneMap', \A m \in saved' : Sound(out', m)
    PROVE  IInv'
<1>1. /\ phase' = "off" /\ outcome' = how /\ map' = NewMap(FALSE) /\ frames' = <<>>
      /\ sparse' = FALSE /\ i' = 0 /\ buf' = {} /\ badTotal' = 0 /\ sinceCkpt' = 0
      /\ cancel' = FALSE /\ plugged' = TRUE
  BY DEF Stop
<1>2. TypeOK'
  <2>1. map' \in Map
    BY <1>1, NewMapIs
  <2>2. Cardinality(saved') <= 1
    BY OneOrNone DEF OneMap
  <2>3. i' \in 0 .. NumChunks /\ sinceCkpt' \in 0 .. CkptChunks
    BY <1>1, ImagerAssumption
  <2>4. frames' \in Seq(Chunk)
    BY <1>1
  <2>5. QED
    BY <1>1, <2>1, <2>2, <2>3, <2>4 DEF TypeOK
<1>3. SavedSound'
  BY DEF SavedSound
<1>4. RunSound' /\ AtChunk' /\ Behind'
  BY <1>1 DEF RunSound, AtChunk, Behind
<1>5. FromSource'
  BY <1>1 DEF FromSource
<1>6. QED
  BY <1>2, <1>3, <1>4, <1>5 DEF IInv

LEMMA Struck ==
    ASSUME TypeOK, NEW kind \in FaultKind, Strike(kind)
    PROVE  faults' \in [FaultKind -> Nat]
BY DEF TypeOK, Strike

LEMMA KillStep == ASSUME IInv, Kill PROVE IInv'
<1>1. faults' \in [FaultKind -> Nat]
  BY Struck DEF Kill, FaultKind, IInv
<1>2. out' = out /\ saved' = saved /\ Stop("killed")
  BY DEF Kill
<1>3. OneMap'
  BY <1>2 DEF IInv, OneMap
<1>4. QED
  BY <1>1, <1>2, <1>3, Stopped DEF IInv, TypeOK, SavedSound, FromSource

\* What the run would save between two chunks is sound.
LEMMA RunMapSound ==
    ASSUME IInv, phase \in {"head", "ckpt"}
    PROVE  RunMap \in Map /\ RunMap.done = map.done /\ Sound(out, RunMap)
<1>1. map \in Map /\ frames \in Seq(Chunk)
  BY DEF IInv, TypeOK
<1>2. /\ RunMap \in Map /\ RunMap.done = map.done /\ RunMap.bad = map.bad
  BY <1>1, RunMapIs DEF RunMap
<1>3. Written = map.done
  BY DEF Written
<1>4. QED
  BY <1>2, <1>3 DEF IInv, RunSound, Sound, Clean

\* The map that is saved replaces the one there, or none does.
LEMMA SavedOr ==
    ASSUME TypeOK, OneMap, NEW m \in Map, Save(m) \/ SaveFails
    PROVE  /\ saved' \in SUBSET Map /\ OneMap' /\ faults' \in [FaultKind -> Nat]
           /\ \A n \in saved' : n = m \/ n \in saved
<1>1. CASE Save(m)
  <2>1. saved' = {m} /\ faults' = faults
    BY <1>1 DEF Save
  <2>2. QED
    BY <2>1 DEF TypeOK, OneMap
<1>2. CASE SaveFails
  <2>1. faults' \in [FaultKind -> Nat] /\ saved' = saved
    BY <1>2, Struck DEF SaveFails, FaultKind
  <2>2. QED
    BY <2>1 DEF TypeOK, OneMap
<1>3. QED
  BY <1>1, <1>2

LEMMA CancelledStep == ASSUME IInv, Cancelled PROVE IInv'
<1>1. RunMap \in Map /\ Sound(out, RunMap)
  BY RunMapSound DEF Cancelled
<1>2. (Save(RunMap) \/ SaveFails) /\ Stop("interrupted") /\ out' = out
  BY DEF Cancelled, RunMap
<1>3. /\ saved' \in SUBSET Map /\ OneMap' /\ faults' \in [FaultKind -> Nat]
      /\ \A n \in saved' : n = RunMap \/ n \in saved
  BY <1>1, <1>2, SavedOr DEF IInv
<1>4. \A n \in saved' : Sound(out', n)
  BY <1>1, <1>2, <1>3 DEF IInv, SavedSound
<1>5. QED
  BY <1>2, <1>3, <1>4, Stopped DEF IInv, TypeOK, FromSource

\* The map that ends a run.
Final == [RunMap EXCEPT !.complete = AllDone(RunMap),
                        !.whole = IF AllDone(RunMap) THEN WholeHash(RunMap) ELSE @]

LEMMA FinalSound ==
    ASSUME IInv, phase = "head"
    PROVE  Final \in Map /\ Sound(out, Final)
<1>1. RunMap \in Map /\ Sound(out, RunMap) /\ out \in Image
  BY RunMapSound DEF IInv, TypeOK
<1>2. \A c \in Chunk : ReadBack(RunMap, c) = Back(out, RunMap, c)
  BY DEF ReadBack, Back
<1>3. WholeHash(RunMap) = [c \in Chunk |-> Back(out, RunMap, c)]
  BY <1>2 DEF WholeHash
<1>4. \A c \in Chunk : Back(out, RunMap, c) \subseteq Sector
  <2>1. SUFFICES ASSUME NEW c \in Chunk PROVE Back(out, RunMap, c) \subseteq Sector
    OBVIOUS
  <2>2. \A k \in DOMAIN RunMap.frames : out.slots[k] \subseteq Sector
    BY <1>1, MapFields DEF Sound, Fits, Image
  <2>3. out.raw \subseteq Sector
    BY <1>1 DEF Image
  <2>4. QED
    BY <2>2, <2>3 DEF Back
<1>5. /\ Final \in Map /\ Final.zstd = RunMap.zstd /\ Final.done = RunMap.done
      /\ Final.hash = RunMap.hash /\ Final.bad = RunMap.bad /\ Final.frames = RunMap.frames
      /\ Final.complete = AllDone(RunMap)
      /\ AllDone(RunMap) => Final.whole = WholeHash(RunMap)
  <2>1. WholeHash(RunMap) \in [Chunk -> SUBSET Sector]
    BY <1>3, <1>4
  <2>2. AllDone(RunMap) \in BOOLEAN
    BY DEF AllDone
  <2>3. QED
    BY <1>1, <2>1, <2>2 DEF Final, Map
<1>6. Fits(out, Final, Final.done) /\ \A c : Back(out, Final, c) = Back(out, RunMap, c)
  BY <1>1, <1>5, SameFits DEF Sound
<1>7. Clean(Final)
  BY <1>1, <1>5 DEF Sound, Clean
<1>8. WholeIs(out, Final)
  BY <1>3, <1>5, <1>6 DEF WholeIs, AllDone
<1>9. QED
  BY <1>1, <1>5, <1>6, <1>7, <1>8 DEF Sound

LEMMA FinalizeStep == ASSUME IInv, Finalize PROVE IInv'
<1>1. Final \in Map /\ Sound(out, Final)
  BY FinalSound DEF Finalize
<1>2. /\ Save(Final) \/ SaveFails
      /\ \E how \in {"interrupted", "complete", "error", "killed"} : Stop(how)
      /\ out' = out
  BY DEF Finalize, Final, RunMap
<1>3. /\ saved' \in SUBSET Map /\ OneMap' /\ faults' \in [FaultKind -> Nat]
      /\ \A n \in saved' : n = Final \/ n \in saved
  BY <1>1, <1>2, SavedOr DEF IInv
<1>4. \A n \in saved' : Sound(out', n)
  BY <1>1, <1>2, <1>3 DEF IInv, SavedSound
<1>5. QED
  BY <1>2, <1>3, <1>4, Stopped DEF IInv, TypeOK, FromSource

-----------------------------------------------------------------------------
(* Between two chunks.                                                     *)

\* The image and what the run knows of it stay as they are.
LEMMA Quiet ==
    ASSUME IInv, TypeOK', UNCHANGED <<out, saved, map, frames, badTotal>>, AtChunk', plugged' = TRUE,
           \/ phase \in {"head", "ckpt"} /\ phase' = "head"
           \/ phase' = phase /\ i' = i
    PROVE  IInv'
<1>1. RunMap' = RunMap /\ Written' = Written
  BY DEF RunMap, Written
<1>2. OneMap' /\ SavedSound' /\ FromSource'
  BY DEF IInv, OneMap, SavedSound, FromSource
<1>3. RunSound'
  BY <1>1 DEF IInv, RunSound
<1>4. Behind'
  BY DEF IInv, Behind
<1>5. QED
  BY <1>2, <1>3, <1>4 DEF IInv

LEMMA SkipStep == ASSUME IInv, SkipDone PROVE IInv'
<1>1. TypeOK'
  <2>1. i' \in 0 .. NumChunks
    BY ImagerAssumption DEF IInv, TypeOK, SkipDone
  <2>2. QED
    BY <2>1 DEF IInv, TypeOK, SkipDone
<1>2. AtChunk'
  BY DEF IInv, AtChunk, SkipDone
<1>3. plugged' = TRUE
  BY DEF IInv, FromSource, SkipDone
<1>4. QED
  BY <1>1, <1>2, <1>3, Quiet DEF SkipDone

LEMMA CancelStep == ASSUME IInv, Cancel PROVE IInv'
<1>1. faults' \in [FaultKind -> Nat]
  BY Struck DEF Cancel, FaultKind, IInv
<1>2. TypeOK'
  BY <1>1 DEF IInv, TypeOK, Cancel, runVars
<1>3. AtChunk'
  BY DEF IInv, AtChunk, Cancel, runVars
<1>4. plugged' = TRUE
  BY DEF IInv, FromSource, Cancel
<1>5. QED
  BY <1>2, <1>3, <1>4, Quiet DEF Cancel, runVars

LEMMA StutterStep == ASSUME IInv, UNCHANGED vars PROVE IInv'
<1>1. TypeOK'
  BY DEF IInv, TypeOK, vars, runVars
<1>2. AtChunk'
  BY DEF IInv, AtChunk, vars, runVars
<1>3. plugged' = TRUE
  BY DEF IInv, FromSource, vars
<1>4. QED
  BY <1>1, <1>2, <1>3, Quiet DEF vars, runVars

LEMMA CheckpointStep == ASSUME IInv, Checkpoint PROVE IInv'
<1>1. RunMap \in Map /\ Sound(out, RunMap) /\ map \in Map /\ frames \in Seq(Chunk)
  BY RunMapSound DEF Checkpoint, IInv, TypeOK
<1>2. /\ RunMap.zstd = map.zstd /\ RunMap.done = map.done /\ RunMap.hash = map.hash
      /\ RunMap.bad = map.bad /\ RunMap.frames = frames
  BY <1>1, RunMapIs DEF RunMap
<1>3. /\ i' = i + 1 /\ phase = "ckpt" /\ phase' = "head" /\ badTotal' = badTotal
      /\ UNCHANGED <<out, frames, sparse, buf, cancel, plugged, outcome>>
  BY DEF Checkpoint
<1>4. i' \in 0 .. NumChunks /\ CkptChunks \in Nat \ {0} /\ sinceCkpt \in 0 .. CkptChunks
  BY <1>3, ImagerAssumption DEF IInv, TypeOK, AtChunk
<1>5. CASE IntervalOver(sinceCkpt)
  <2>1. map' = RunMap /\ (Save(RunMap) \/ SaveFails) /\ sinceCkpt' = 0
    BY <1>5 DEF Checkpoint, RunMap
  <2>2. /\ saved' \in SUBSET Map /\ OneMap' /\ faults' \in [FaultKind -> Nat]
        /\ \A n \in saved' : n = RunMap \/ n \in saved
    BY <1>1, <2>1, SavedOr DEF IInv
  <2>3. TypeOK'
    <3>1. Cardinality(saved') <= 1
      BY <2>2, OneOrNone DEF OneMap
    <3>2. sinceCkpt' \in 0 .. CkptChunks
      BY <1>4, <2>1
    <3>3. QED
      BY <1>1, <1>3, <1>4, <2>1, <2>2, <3>1, <3>2 DEF IInv, TypeOK
  <2>4. SavedSound'
    BY <1>1, <1>3, <2>2 DEF IInv, SavedSound
  <2>5. RunMap' = RunMap /\ Written' = RunMap.done
    BY <1>1, <1>3, <2>1 DEF RunMap, Written, Map
  <2>6. RunSound'
    BY <1>1, <1>2, <1>3, <2>1, <2>5 DEF IInv, RunSound, Sound
  <2>7. AtChunk'
    BY <1>3, <1>4, <2>1 DEF AtChunk
  <2>8. Behind'
    <3>1. \A m \in saved' : Earlier(m, RunMap) /\ Len(m.frames) <= Len(frames)
      BY <1>1, <1>2, <1>3, <2>2, MapFields DEF IInv, Behind, Earlier
    <3>2. QED
      BY <1>3, <2>1, <3>1 DEF Behind
  <2>9. FromSource'
    BY <1>3 DEF IInv, FromSource
  <2>10. QED
    BY <2>2, <2>3, <2>4, <2>6, <2>7, <2>8, <2>9 DEF IInv
<1>6. CASE ~IntervalOver(sinceCkpt)
  <2>1. UNCHANGED <<map, saved, sinceCkpt, faults>>
    BY <1>6 DEF Checkpoint
  <2>2. TypeOK'
    BY <1>3, <1>4, <2>1 DEF IInv, TypeOK
  <2>3. AtChunk'
    BY <1>3, <1>4, <1>6, <2>1 DEF AtChunk, IntervalOver
  <2>4. plugged' = TRUE
    BY <1>3 DEF IInv, FromSource
  <2>5. QED
    BY <1>3, <2>1, <2>2, <2>3, <2>4, Quiet
<1>7. QED
  BY <1>5, <1>6

-----------------------------------------------------------------------------
(* A chunk is read.                                                        *)

\* More sectors of another chunk are bad: a good chunk stays good.
LEMMA BadElsewhere ==
    ASSUME NEW o, NEW m \in Map, NEW n \in Map, NEW c \in Chunk, NEW j \in Chunk, c # j,
           NEW failed \in SUBSET SectorsOf(j), Good(o, m, c),
           n.zstd = m.zstd, n.frames = m.frames, n.bad = m.bad \cup failed, n.hash[c] = m.hash[c]
    PROVE  Good(o, n, c)
<1>1. Back(o, n, c) = Back(o, m, c)
  BY DEF Back
<1>2. QED
  BY <1>1 DEF Good

LEMMA ReadStep == ASSUME IInv, ReadChunk PROVE IInv'
<1>1. /\ phase = "head" /\ i < NumChunks /\ i \notin map.done /\ phase' = "write"
      /\ UNCHANGED <<out, saved, frames, sparse, i, sinceCkpt, cancel, plugged, outcome, faults>>
  BY DEF ReadChunk
<1>2. /\ i \in Chunk /\ map \in Map /\ frames \in Seq(Chunk) /\ out \in Image
      /\ saved \in SUBSET Map
  BY <1>1, ImagerAssumption DEF IInv, TypeOK, Chunk
<1>3. PICK failed \in SUBSET (Flaky \cap SectorsOf(i)) :
          /\ buf' = (NonZero \cap SectorsOf(i)) \ failed
          /\ map' = [map EXCEPT !.bad = @ \cup failed, !.hash[i] = buf', !.done = @ \cup {i}]
          /\ badTotal' = badTotal + Cardinality(failed)
  BY DEF ReadChunk, IInv, FromSource
<1>4. failed \subseteq SectorsOf(i) /\ failed \subseteq Sector /\ IsFiniteSet(failed)
  BY <1>2, ChunkSectorsAre, FS_Subset
<1>5. buf' \subseteq Sector
  BY <1>2, <1>3, ChunkSectorsAre
<1>6. /\ map' \in Map
      /\ map'.zstd = map.zstd /\ map'.done = map.done \cup {i} /\ map'.bad = map.bad \cup failed
      /\ map'.hash[i] = buf' /\ \A c \in Chunk : c # i => map'.hash[c] = map.hash[c]
      /\ map'.complete = map.complete /\ map'.whole = map.whole
  BY <1>2, <1>3, <1>4, <1>5 DEF Map
<1>7. map.bad \cap SectorsOf(i) = {} /\ ~map.complete
  <2>1. RunMap.complete = map.complete /\ RunMap.done = map.done
    BY <1>2, RunMapIs DEF RunMap
  <2>2. QED
    BY <1>1, <1>2, <2>1 DEF IInv, RunSound, Clean, WholeIs
<1>8. badTotal' = Cardinality(map'.bad) /\ badTotal' \in Nat
  <2>1. IsFiniteSet(map.bad) /\ Cardinality(map.bad) \in Nat /\ Cardinality(failed) \in Nat
    BY <1>2, <1>4, MapFields, FS_CardinalityType
  <2>2. map.bad \cap failed = {}
    BY <1>4, <1>7
  <2>3. Cardinality(map.bad \cup failed) = Cardinality(map.bad) + Cardinality(failed) - Cardinality({})
    BY <1>4, <2>1, <2>2, FS_Union
  <2>4. QED
    BY <1>1, <1>3, <1>6, <2>1, <2>3, FS_EmptySet DEF IInv, RunSound
<1>9. TypeOK'
  BY <1>1, <1>2, <1>5, <1>6, <1>8 DEF IInv, TypeOK
<1>10. OneMap' /\ SavedSound' /\ FromSource'
  BY <1>1 DEF IInv, OneMap, SavedSound, FromSource
<1>11. RunSound'
  <2>1. /\ RunMap \in Map /\ RunMap.zstd = map.zstd /\ RunMap.hash = map.hash
        /\ RunMap.bad = map.bad /\ RunMap.frames = frames
    BY <1>2, RunMapIs DEF RunMap
  <2>2. /\ RunMap' \in Map /\ RunMap'.zstd = map.zstd /\ RunMap'.hash = map'.hash
        /\ RunMap'.bad = map.bad \cup failed /\ RunMap'.frames = frames
        /\ RunMap'.complete = map.complete
    BY <1>1, <1>2, <1>6, RunMapIs DEF RunMap
  <2>3. Written = map.done /\ Written' = map.done
    BY <1>1, <1>6 DEF Written
  <2>4. \A c \in map.done : Good(out, RunMap', c)
    <3>1. SUFFICES ASSUME NEW c \in map.done PROVE Good(out, RunMap', c)
      OBVIOUS
    <3>2. Good(out, RunMap, c)
      BY <1>1, <2>3 DEF IInv, RunSound, Fits
    <3>3. c \in Chunk /\ c # i
      BY <1>1, <1>2, MapFields
    <3>4. QED
      BY <1>2, <1>4, <1>6, <2>1, <2>2, <3>2, <3>3, BadElsewhere
  <2>5. Fits(out, RunMap', map.done)
    BY <1>1, <2>1, <2>2, <2>3, <2>4 DEF IInv, RunSound, Fits
  <2>6. Clean(map')
    <3>1. SUFFICES ASSUME NEW c \in Chunk \ map'.done PROVE map'.bad \cap SectorsOf(c) = {}
      BY DEF Clean
    <3>2. c # i /\ map.bad \cap SectorsOf(c) = {}
      BY <1>1, <1>6, <3>1 DEF IInv, RunSound, Clean
    <3>3. SectorsOf(i) \cap SectorsOf(c) = {}
      BY <1>2, <3>1, <3>2, ChunksApart
    <3>4. QED
      BY <1>4, <1>6, <3>2, <3>3
  <2>7. QED
    BY <1>1, <1>7, <1>8, <2>2, <2>3, <2>5, <2>6 DEF IInv, RunSound, WholeIs
<1>12. AtChunk'
  <2>1. buf' = (NonZero \cap SectorsOf(i)) \ map'.bad
    BY <1>3, <1>6, <1>7
  <2>2. QED
    BY <1>1, <1>6, <1>7, <2>1 DEF IInv, AtChunk
<1>13. Behind'
  <2>1. SUFFICES ASSUME NEW m \in saved
                 PROVE  Earlier(m, map') /\ Len(m.frames) <= Len(frames) /\ i \notin m.done
    BY <1>1 DEF Behind
  <2>2. Earlier(m, map) /\ Len(m.frames) <= Len(frames) /\ m \in Map
    BY <1>1, <1>2 DEF IInv, Behind
  <2>3. i \notin m.done
    BY <1>1, <2>2 DEF Earlier
  <2>4. \A c \in m.done : map'.hash[c] = map.hash[c]
    BY <1>6, <2>2, <2>3, MapFields
  <2>5. QED
    BY <1>6, <2>2, <2>3, <2>4 DEF Earlier
<1>14. QED
  BY <1>9, <1>10, <1>11, <1>12, <1>13 DEF IInv

-----------------------------------------------------------------------------
(* A chunk is written.                                                     *)
LEMMA Placed ==
    ASSUME IInv, phase = "write"
    PROVE  /\ i \in Chunk /\ map \in Map /\ frames \in Seq(Chunk) /\ out \in Image
           /\ Len(frames) \in Nat /\ Len(frames) <= Len(out.slots)
           /\ buf \subseteq NonZero /\ buf \subseteq SectorsOf(i) /\ buf \subseteq Sector
<1>1. /\ i \in Chunk /\ map \in Map /\ frames \in Seq(Chunk) /\ out \in Image
      /\ buf = (NonZero \cap SectorsOf(i)) \ map.bad /\ buf \subseteq Sector
  BY ImagerAssumption DEF IInv, TypeOK, AtChunk, Chunk
<1>2. RunMap.frames = frames
  BY <1>1, RunMapIs DEF RunMap
<1>3. Len(frames) <= Len(out.slots)
  BY <1>2 DEF IInv, RunSound, Fits
<1>4. QED
  BY <1>1, <1>3

LEMMA FunIsSeq ==
    ASSUME NEW S, NEW n \in Nat, NEW f \in [1 .. n -> S]
    PROVE  f \in Seq(S) /\ Len(f) = n
<1>1. f \in Seq(S)
  OBVIOUS
<1>2. DOMAIN f = 1 .. n /\ DOMAIN f = 1 .. Len(f) /\ Len(f) \in Nat
  BY <1>1
<1>3. QED
  BY <1>1, <1>2

LEMMA PutFrameIs ==
    ASSUME IInv, phase = "write", NEW data \in SUBSET Sector
    PROVE  /\ PutFrame(data) \in Image
           /\ PutFrame(data).raw = out.raw
           /\ Len(frames) + 1 <= Len(PutFrame(data).slots)
           /\ PutFrame(data).slots[Len(frames) + 1] = data
           /\ Spares(out, PutFrame(data), i, Len(frames))
<1> DEFINE n == Len(frames)
           slots == [k \in DOMAIN out.slots \cup {n + 1} |-> IF k = n + 1 THEN data ELSE out.slots[k]]
<1>1. out \in Image /\ n \in Nat /\ n <= Len(out.slots)
  BY Placed
<1>2. out.slots \in Seq(SUBSET Sector) /\ Len(out.slots) \in Nat /\ DOMAIN out.slots = 1 .. Len(out.slots)
  BY <1>1 DEF Image
<1>3. PICK size \in Nat : /\ DOMAIN out.slots \cup {n + 1} = 1 .. size
                          /\ n + 1 <= size /\ Len(out.slots) <= size
  <2>1. CASE n < Len(out.slots)
    <3>1. DOMAIN out.slots \cup {n + 1} = 1 .. Len(out.slots)
      BY <1>1, <1>2, <2>1
    <3>2. QED
      BY <1>1, <1>2, <2>1, <3>1
  <2>2. CASE n = Len(out.slots)
    <3>1. DOMAIN out.slots \cup {n + 1} = 1 .. n + 1
      BY <1>1, <1>2, <2>2
    <3>2. QED
      BY <1>1, <1>2, <2>2, <3>1
  <2>3. QED
    BY <1>1, <1>2, <2>1, <2>2
<1>4. slots \in [1 .. size -> SUBSET Sector]
  BY <1>2, <1>3
<1>5. slots \in Seq(SUBSET Sector) /\ Len(slots) = size
  BY <1>4, FunIsSeq
<1>6. slots[n + 1] = data /\ \A k \in 1 .. n : slots[k] = out.slots[k]
  BY <1>1, <1>2
<1>7. PutFrame(data) = [out EXCEPT !.slots = slots]
  BY DEF PutFrame
<1> HIDE DEF slots
<1>8. /\ PutFrame(data) \in Image /\ PutFrame(data).slots = slots
      /\ PutFrame(data).raw = out.raw /\ PutFrame(data).exists = out.exists
  BY <1>1, <1>5, <1>7 DEF Image
<1>9. QED
  BY <1>3, <1>5, <1>6, <1>8 DEF Spares

LEMMA PutRawIs ==
    ASSUME IInv, phase = "write", NEW data \in SUBSET (NonZero \cap SectorsOf(i))
    PROVE  /\ PutRaw(data) \in Image
           /\ PutRaw(data).raw \subseteq NonZero
           /\ PutRaw(data).raw \cap SectorsOf(i) = data
           /\ Spares(out, PutRaw(data), i, Len(frames))
<1>1. out \in Image /\ i \in Chunk /\ out.raw \subseteq NonZero
  BY Placed DEF IInv, FromSource
<1>2. /\ PutRaw(data) \in Image /\ PutRaw(data).raw = (out.raw \ SectorsOf(i)) \cup data
      /\ PutRaw(data).slots = out.slots /\ PutRaw(data).exists = out.exists
  BY <1>1, ImagerAssumption DEF PutRaw, Image
<1>3. \A c \in Chunk \ {i} : SectorsOf(i) \cap SectorsOf(c) = {}
  BY <1>1, ChunksApart
<1>4. \A c \in Chunk \ {i} : PutRaw(data).raw \cap SectorsOf(c) = out.raw \cap SectorsOf(c)
  BY <1>2, <1>3
<1>5. Len(out.slots) \in Nat
  BY <1>1 DEF Image
<1>6. QED
  BY <1>1, <1>2, <1>4, <1>5 DEF Spares

\* What is written to chunk i is out of the way of the map on disk.
LEMMA SavedSpared ==
    ASSUME IInv, phase = "write", out' \in Image, Spares(out, out', i, Len(frames)),
           NEW m \in saved
    PROVE  Sound(out', m)
<1>1. m \in Map /\ Sound(out, m) /\ Len(m.frames) <= Len(frames) /\ i \notin m.done
  BY DEF IInv, TypeOK, SavedSound, Behind
<1>2. QED
  BY <1>1, Placed, SparedSound

LEMMA WriteFailsStep == ASSUME IInv, WriteFails PROVE IInv'
<1>1. /\ phase = "write" /\ Stop("error") /\ saved' = saved
      /\ faults' \in [FaultKind -> Nat]
  BY Struck DEF WriteFails, FaultKind, IInv
<1>2. out' \in Image /\ out'.raw \subseteq NonZero /\ Spares(out, out', i, Len(frames))
  <2>1. CASE out' = out
    BY <1>1, <2>1, Placed DEF IInv, FromSource, Spares, Image
  <2>2. CASE out' = PutFrame({})
    <3>1. {} \in SUBSET Sector
      OBVIOUS
    <3>2. QED
      BY <1>1, <2>2, <3>1, PutFrameIs DEF IInv, FromSource
  <2>3. ASSUME NEW written \in SUBSET SectorsOf(i),
               out' = PutRaw((buf \cap written) \cup (out.raw \cap (SectorsOf(i) \ written)))
        PROVE  out' \in Image /\ out'.raw \subseteq NonZero /\ Spares(out, out', i, Len(frames))
    <3>1. (buf \cap written) \cup (out.raw \cap (SectorsOf(i) \ written))
             \in SUBSET (NonZero \cap SectorsOf(i))
      BY <1>1, Placed DEF IInv, FromSource
    <3>2. QED
      BY <1>1, <2>3, <3>1, PutRawIs
  <2>4. QED
    BY <2>1, <2>2, <2>3 DEF WriteFails
<1>3. \A m \in saved' : Sound(out', m)
  BY <1>1, <1>2, SavedSpared
<1>4. saved' \in SUBSET Map /\ OneMap'
  BY <1>1 DEF IInv, TypeOK, OneMap
<1>5. QED
  BY <1>1, <1>2, <1>3, <1>4, Stopped

\* The chunk that was read is in the image, and the chunks written before are
\* as they were.
LEMMA WrittenIs ==
    ASSUME IInv, WriteChunk
    PROVE  /\ out' \in Image /\ out'.raw \subseteq NonZero /\ frames' \in Seq(Chunk)
           /\ Spares(out, out', i, Len(frames))
           /\ Len(frames) <= Len(frames') /\ Len(frames') <= Len(out'.slots)
           /\ \A k \in DOMAIN frames' : frames'[k] \in map.done
           /\ \A c \in map.done : Good(out', RunMap', c)
<1>1. phase = "write" /\ map' = map
  BY DEF WriteChunk
<1>2. /\ i \in Chunk /\ map \in Map /\ frames \in Seq(Chunk) /\ out \in Image
      /\ Len(frames) \in Nat /\ Len(frames) <= Len(out.slots)
      /\ buf \subseteq NonZero /\ buf \subseteq SectorsOf(i) /\ buf \subseteq Sector
  BY <1>1, Placed
<1>3. /\ RunMap \in Map /\ RunMap.zstd = map.zstd /\ RunMap.hash = map.hash
      /\ RunMap.bad = map.bad /\ RunMap.frames = frames
  BY <1>2, RunMapIs DEF RunMap
<1>4. /\ \A k \in DOMAIN frames : frames[k] \in map.done \ {i}
      /\ \A c \in map.done \ {i} : Good(out, RunMap, c)
  BY <1>1, <1>3 DEF IInv, RunSound, Fits, Written
<1>5. i \in map.done /\ buf = map.hash[i] /\ buf = (NonZero \cap SectorsOf(i)) \ map.bad
  BY <1>1 DEF IInv, AtChunk
<1>6. map.done \subseteq Chunk
  BY <1>2, MapFields
<1>7. CASE map.zstd
  <2> DEFINE n == Len(frames)
  <2>1. out' = PutFrame(buf) /\ frames' = Append(frames, i)
    BY <1>7 DEF WriteChunk
  <2>2. /\ out' \in Image /\ out'.raw = out.raw /\ n + 1 <= Len(out'.slots)
        /\ out'.slots[n + 1] = buf /\ Spares(out, out', i, n)
    BY <1>1, <1>2, <2>1, PutFrameIs
  <2>3. /\ frames' \in Seq(Chunk) /\ Len(frames') = n + 1 /\ DOMAIN frames' = 1 .. n + 1
        /\ DOMAIN frames = 1 .. n
        /\ frames'[n + 1] = i /\ \A k \in 1 .. n : frames'[k] = frames[k]
    BY <1>2, <2>1
  <2>4. /\ RunMap'.zstd /\ RunMap'.hash = map.hash /\ RunMap'.bad = map.bad
        /\ RunMap'.frames = frames'
    BY <1>1, <1>2, <1>7, <2>3, RunMapIs DEF RunMap
  <2>5. \A k \in 1 .. n : frames[k] # i /\ out'.slots[k] = out.slots[k]
    BY <1>4, <2>2, <2>3 DEF Spares
  <2>6. ASSUME NEW c \in map.done, c # i PROVE Good(out', RunMap', c)
    <3>1. {k \in DOMAIN frames' : frames'[k] = c} = {k \in DOMAIN frames : frames[k] = c}
      BY <1>2, <2>3, <2>6
    <3>2. Back(out', RunMap', c) = Back(out, RunMap, c)
      BY <1>3, <1>7, <2>3, <2>4, <2>5, <3>1 DEF Back
    <3>3. QED
      BY <1>3, <1>4, <2>4, <2>6, <3>2 DEF Good
  <2>7. Good(out', RunMap', i)
    <3>1. {k \in DOMAIN frames' : frames'[k] = i} = {n + 1}
      BY <1>2, <2>3, <2>5
    <3>2. Back(out', RunMap', i) = buf
      BY <2>2, <2>4, <3>1 DEF Back
    <3>3. QED
      BY <1>5, <2>4, <3>2 DEF Good
  <2>8. \A k \in DOMAIN frames' : frames'[k] \in map.done
    BY <1>2, <1>4, <1>5, <2>3
  <2>9. out'.raw \subseteq NonZero
    BY <2>2 DEF IInv, FromSource
  <2>10. QED
    BY <1>2, <2>2, <2>3, <2>6, <2>7, <2>8, <2>9
<1>8. CASE ~map.zstd
  <2>1. out' = (IF Hole THEN out ELSE PutRaw(buf)) /\ frames' = frames
    BY <1>8 DEF WriteChunk
  <2>2. RunMap' = RunMap
    BY <1>1, <2>1 DEF RunMap
  <2>3. buf \in SUBSET (NonZero \cap SectorsOf(i))
    BY <1>2
  <2>4. /\ out' \in Image /\ out'.raw \subseteq NonZero /\ Spares(out, out', i, Len(frames))
        /\ Len(out.slots) <= Len(out'.slots) /\ Len(out'.slots) \in Nat /\ Len(out.slots) \in Nat
    <3>1. CASE Hole
      BY <1>2, <2>1, <3>1 DEF IInv, FromSource, Spares, Image
    <3>2. CASE ~Hole
      <4>1. out' \in Image /\ out'.raw \subseteq NonZero /\ Spares(out, out', i, Len(frames))
        BY <1>1, <2>1, <2>3, <3>2, PutRawIs
      <4>2. QED
        BY <1>2, <4>1 DEF Spares, Image
    <3>3. QED
      BY <3>1, <3>2
  <2>5. ASSUME NEW c \in map.done, c # i PROVE Good(out', RunMap', c)
    <3>1. Back(out', RunMap, c) = Back(out, RunMap, c)
      BY <1>2, <1>3, <1>6, <2>4, <2>5, SparedBack
    <3>2. QED
      BY <1>4, <2>2, <2>5, <3>1 DEF Good
  <2>6. Good(out', RunMap', i)
    <3>1. Back(out', RunMap', i) = out'.raw \cap SectorsOf(i)
      BY <1>3, <1>8, <2>2 DEF Back
    <3>2. CASE Hole
      <4>1. buf = {} /\ out'.raw \cap SectorsOf(i) \subseteq map.bad
        BY <1>5, <2>4, <3>2 DEF Hole
      <4>2. QED
        BY <1>3, <1>5, <2>2, <3>1, <4>1 DEF Good
    <3>3. CASE ~Hole
      <4>1. out'.raw \cap SectorsOf(i) = buf
        BY <1>1, <2>1, <2>3, <3>3, PutRawIs
      <4>2. QED
        BY <1>3, <1>5, <2>2, <3>1, <4>1 DEF Good
    <3>4. QED
      BY <3>2, <3>3
  <2>7. QED
    BY <1>2, <1>4, <2>1, <2>4, <2>5, <2>6
<1>9. QED
  BY <1>7, <1>8

LEMMA WriteStep == ASSUME IInv, WriteChunk PROVE IInv'
<1>1. /\ phase = "write" /\ phase' = "ckpt" /\ sinceCkpt' = sinceCkpt + 1
      /\ UNCHANGED <<saved, map, sparse, i, buf, badTotal, cancel, plugged, outcome, faults>>
  BY DEF WriteChunk
<1>2. map \in Map /\ frames \in Seq(Chunk) /\ saved \in SUBSET Map /\ frames' \in Seq(Chunk)
  BY WrittenIs DEF IInv, TypeOK
<1>3. TypeOK'
  <2>1. sinceCkpt' \in 0 .. CkptChunks
    BY <1>1, ImagerAssumption DEF IInv, TypeOK, AtChunk
  <2>2. QED
    BY <1>1, <2>1, WrittenIs DEF IInv, TypeOK
<1>4. OneMap' /\ FromSource'
  BY <1>1, WrittenIs DEF IInv, OneMap, FromSource
<1>5. SavedSound'
  BY <1>1, WrittenIs, SavedSpared DEF SavedSound
<1>6. RunSound'
  <2>1. /\ RunMap'.frames = frames' /\ RunMap'.complete = map.complete
    BY <1>1, <1>2, RunMapIs DEF RunMap
  <2>2. Written' = map.done
    BY <1>1 DEF Written
  <2>3. Fits(out', RunMap', map.done)
    BY <2>1, WrittenIs DEF Fits
  <2>4. out'.exists
    BY <1>1, WrittenIs DEF IInv, RunSound, Spares
  <2>5. WholeIs(out', RunMap')
    BY <1>1, <2>1 DEF IInv, AtChunk, WholeIs
  <2>6. Clean(map') /\ badTotal' = Cardinality(map'.bad)
    BY <1>1 DEF IInv, RunSound
  <2>7. QED
    BY <2>2, <2>3, <2>4, <2>5, <2>6 DEF RunSound
<1>7. AtChunk'
  BY <1>1 DEF IInv, AtChunk
<1>8. Behind'
  <2>1. SUFFICES ASSUME NEW m \in saved
                 PROVE  Earlier(m, map) /\ Len(m.frames) <= Len(frames')
    BY <1>1 DEF Behind
  <2>2. Earlier(m, map) /\ Len(m.frames) <= Len(frames) /\ m \in Map
    BY <1>1, <1>2 DEF IInv, Behind
  <2>3. Len(m.frames) \in Nat /\ Len(frames) \in Nat /\ Len(frames') \in Nat
    BY <1>2, <2>2, MapFields
  <2>4. QED
    BY <2>2, <2>3, WrittenIs
<1>9. QED
  BY <1>3, <1>4, <1>5, <1>6, <1>7, <1>8 DEF IInv

-----------------------------------------------------------------------------
(* The theorems.                                                           *)
LEMMA NextCases ==
    ASSUME [Next]_vars
    PROVE  \/ \E sp \in BOOLEAN : Resume(sp)
           \/ \E sp, z \in BOOLEAN : StartNew(z, sp)
           \/ Cancelled \/ SkipDone \/ ReadChunk \/ WriteChunk \/ Checkpoint \/ Finalize
           \/ WriteFails \/ Cancel \/ Kill \/ UNCHANGED vars
BY DEF Next, ImageStep

LEMMA InvStep == IInv /\ [Next]_vars => IInv'
<1> SUFFICES ASSUME IInv, [Next]_vars PROVE IInv'
  OBVIOUS
<1>1. ASSUME NEW sp \in BOOLEAN, Resume(sp) PROVE IInv'
  BY <1>1, ResumeStep
<1>2. ASSUME NEW sp \in BOOLEAN, NEW z \in BOOLEAN, StartNew(z, sp) PROVE IInv'
  BY <1>2, StartNewStep
<1>3. CASE Cancelled
  BY <1>3, CancelledStep
<1>4. CASE SkipDone
  BY <1>4, SkipStep
<1>5. CASE ReadChunk
  BY <1>5, ReadStep
<1>6. CASE WriteChunk
  BY <1>6, WriteStep
<1>7. CASE Checkpoint
  BY <1>7, CheckpointStep
<1>8. CASE Finalize
  BY <1>8, FinalizeStep
<1>9. CASE WriteFails
  BY <1>9, WriteFailsStep
<1>10. CASE Cancel
  BY <1>10, CancelStep
<1>11. CASE Kill
  BY <1>11, KillStep
<1>12. CASE UNCHANGED vars
  BY <1>12, StutterStep
<1>13. QED
  BY <1>1, <1>2, <1>3, <1>4, <1>5, <1>6, <1>7, <1>8, <1>9, <1>10, <1>11, <1>12, NextCases

LEMMA IInvAlways == Spec => []IInv
BY InitInv, InvStep, PTL DEF Spec

\* The run, the image and the map keep their types (ImageMap, Dest), and there
\* is at most one map on disk.
THEOREM TypeInvariant == Spec => []TypeOK
<1>1. IInv => TypeOK
  BY DEF IInv
<1>2. QED
  BY <1>1, IInvAlways, PTL

LEMMA SavedGood ==
    ASSUME IInv, NEW m \in saved, NEW c \in m.done
    PROVE  Good(out, m, c) /\ ReadBack(m, c) = Back(out, m, c)
<1>1. Good(out, m, c)
  BY DEF IInv, SavedSound, Sound, Fits
<1>2. ReadBack(m, c) = Back(out, m, c)
  BY DEF ReadBack, Back
<1>3. QED
  BY <1>1, <1>2

\* What the map on disk calls done, and not bad, is the source's data at every
\* moment, whatever the run dies of and however often it is resumed (image()).
THEOREM DoneIsSourceAlways == Spec => []DoneIsSource
<1>1. IInv => DoneIsSource
  BY SavedGood DEF DoneIsSource, Good
<1>2. QED
  BY <1>1, IInvAlways, PTL

\* The chunks the map on disk calls done verify (verify_image), but for a chunk
\* read as zeros with bad sectors, where a sparse image leaves what was there.
THEOREM DoneVerifiesAlways == Spec => []DoneVerifies
<1>1. IInv => DoneVerifies
  BY SavedGood DEF DoneVerifies, Good
<1>2. QED
  BY <1>1, IInvAlways, PTL

\* The hash of a complete image is the hash of the file as it is, also while a
\* later run resumes it (compute_identity).
THEOREM WholeVerifiesAlways == Spec => []WholeVerifies
<1>1. \A m \in saved, c \in Chunk : ReadBack(m, c) = Back(out, m, c)
  BY DEF ReadBack, Back
<1>2. IInv => WholeVerifies
  BY <1>1 DEF IInv, SavedSound, Sound, WholeIs, WholeVerifies
<1>3. QED
  BY <1>2, IInvAlways, PTL

\* The bad sectors of an image are each counted once, over all its runs
\* (ImageSummary's count, which starts from the map's).
THEOREM BadCountedAlways == Spec => []BadCounted
<1>1. IInv => BadCounted
  BY DEF IInv, RunSound, BadCounted
<1>2. QED
  BY <1>1, IInvAlways, PTL

\* What a step saves is no less than what was saved.
LEMMA KeptStep ==
    ASSUME IInv, [Next]_vars, NEW m \in saved, NEW n \in saved'
    PROVE  Earlier(m, n)
<1>1. m \in Map /\ \A x \in saved : x = m
  BY DEF IInv, TypeOK, OneMap
<1>2. CASE saved' = saved
  BY <1>1, <1>2 DEF Earlier
<1>3. ASSUME phase # "off", NEW x, Save(x), x.done = map.done, x.bad = map.bad, x.hash = map.hash
      PROVE  Earlier(m, n)
  BY <1>3 DEF IInv, Behind, Earlier, Save
<1>4. map \in Map /\ frames \in Seq(Chunk)
  BY DEF IInv, TypeOK
<1>5. RunMap.done = map.done /\ RunMap.bad = map.bad /\ RunMap.hash = map.hash
  BY <1>4, RunMapIs DEF RunMap
<1>6. CASE Cancelled
  <2>1. phase # "off" /\ (Save(RunMap) \/ saved' = saved)
    BY <1>6 DEF Cancelled, SaveFails, RunMap
  <2>2. QED
    BY <1>2, <1>3, <1>5, <2>1
<1>7. CASE Checkpoint
  <2>1. phase # "off" /\ (Save(RunMap) \/ saved' = saved)
    BY <1>7 DEF Checkpoint, SaveFails, RunMap
  <2>2. QED
    BY <1>2, <1>3, <1>5, <2>1
<1>8. CASE Finalize
  <2>1. phase # "off" /\ (Save(Final) \/ saved' = saved)
    BY <1>8 DEF Finalize, SaveFails, RunMap, Final
  <2>2. Final.done = RunMap.done /\ Final.bad = RunMap.bad /\ Final.hash = RunMap.hash
    <3>1. RunMap \in Map
      BY <1>4, RunMapIs DEF RunMap
    <3>2. QED
      BY <3>1 DEF Final, Map
  <2>3. QED
    BY <1>2, <1>3, <1>5, <2>1, <2>2
<1>9. \/ saved' = saved \/ Cancelled \/ Checkpoint \/ Finalize
  <2>1. ASSUME NEW sp \in BOOLEAN, Resume(sp) PROVE saved' = saved
    BY <2>1 DEF Resume, Open
  <2>2. ASSUME NEW sp \in BOOLEAN, NEW z \in BOOLEAN, StartNew(z, sp) PROVE saved' = saved
    BY <2>2 DEF StartNew, Open
  <2>3. SkipDone \/ ReadChunk \/ WriteChunk \/ WriteFails \/ Cancel \/ Kill \/ UNCHANGED vars
           => saved' = saved
    BY DEF SkipDone, ReadChunk, WriteChunk, WriteFails, Cancel, Kill, vars
  <2>4. QED
    BY <2>1, <2>2, <2>3, NextCases
<1>10. QED
  BY <1>2, <1>6, <1>7, <1>8, <1>9

\* No later run takes back a chunk that is done on disk, its hash or its bad
\* sectors: the map is authoritative when the run resumes (image()).
THEOREM ProgressKeptAlways == Spec => ProgressKept
<1> DEFINE Keeps == \A m \in saved, n \in saved' :
                        /\ m.done \subseteq n.done /\ m.bad \subseteq n.bad
                        /\ \A c \in m.done : n.hash[c] = m.hash[c]
<1>1. IInv /\ [Next]_vars => [Keeps]_vars
  BY KeptStep DEF Earlier
<1>2. Spec => [][Keeps]_vars
  BY <1>1, IInvAlways, PTL DEF Spec
<1>3. QED
  BY <1>2 DEF ProgressKept
=============================================================================
