--------------------------- MODULE FoldInduction ----------------------------
(* Folds of a sequence, from the left: what a fold is, step by step, and what  *)
(* holds of its result because every step keeps it.  The operator and what it  *)
(* keeps are constants, so that an instance states both for one fold of the    *)
(* model; arg is what the operator is given besides the result so far and the  *)
(* element.                                                                    *)
EXTENDS Integers, Sequences, FiniteSetsExt, WellFoundedInduction, TLAPS

CONSTANTS
    Op(_, _, _),   \* arg, the result so far, the element
    Keeps(_, _, _) \* arg, the result of the first k elements, k

\* FoldLeft of Lists, by what it folds with.
Fold(arg, base, seq) ==
    MapThenFoldSet(LAMBDA x, acc : Op(arg, acc, x), base, LAMBDA i : seq[i], LAMBDA s : Max(s), DOMAIN seq)

-----------------------------------------------------------------------------
Below == {p \in Nat \X Nat : p[1] < p[2]}

LEMMA BelowWellFounded == IsWellFoundedOn(Below, Nat)
BY NatLessThanWellFounded, Zenon DEF OpToRel, Below

LEMMA LeastOf ==
    ASSUME NEW S \in SUBSET Nat, S # {}
    PROVE  \E x \in S : \A y \in S : x <= y
<1>1. PICK x \in S : \A y \in S : <<y, x>> \notin Below
  BY BelowWellFounded, WFMin
<1>2. \A y \in S : ~(y < x)
  BY <1>1 DEF Below
<1>3. QED
  BY <1>1, <1>2

-----------------------------------------------------------------------------
(* The fold goes down the sets of places, from the last place of each.       *)
FoldsTo(g, arg, base, seq, places) ==
    g = [s \in SUBSET places |->
           IF s = {} THEN base ELSE Op(arg, g[s \ {Max(s)}], seq[Max(s)])]

LEMMA MaxIs ==
    ASSUME NEW n \in Nat, NEW s \in SUBSET (1 .. n), n \in s
    PROVE  Max(s) = n
<1>1. n \in s /\ \A y \in s : n >= y
  OBVIOUS
<1>2. Max(s) \in s /\ \A y \in s : Max(s) >= y
  BY <1>1 DEF Max
<1>3. Max(s) \in 1 .. n
  BY <1>2
<1>4. QED
  BY <1>1, <1>2, <1>3

LEMMA FoldsToNext ==
    ASSUME NEW arg, NEW base, NEW seq, NEW n \in Nat \ {0}, NEW g, FoldsTo(g, arg, base, seq, 1 .. n - 1)
    PROVE  \E h : FoldsTo(h, arg, base, seq, 1 .. n)
<1> DEFINE Value(s, f) == IF s = {} THEN base ELSE Op(arg, f[s \ {Max(s)}], seq[Max(s)])
           h == [s \in SUBSET (1 .. n) |-> IF n \in s THEN Op(arg, g[s \ {n}], seq[n]) ELSE g[s]]
<1>1. \A s \in SUBSET (1 .. n) : n \notin s => s \in SUBSET (1 .. n - 1)
  OBVIOUS
<1>2. \A s \in SUBSET (1 .. n - 1) : s \in SUBSET (1 .. n) /\ n \notin s
  OBVIOUS
<1>3. \A s \in SUBSET (1 .. n - 1) : h[s] = g[s]
  BY <1>2
<1>4. \A s \in SUBSET (1 .. n - 1) : g[s] = Value(s, g)
  BY DEF FoldsTo
<1>5. ASSUME NEW s \in SUBSET (1 .. n)
      PROVE  h[s] = Value(s, h)
  <2>1. CASE n \in s
    <3>1. Max(s) = n /\ s # {}
      BY <2>1, MaxIs
    <3>2. s \ {n} \in SUBSET (1 .. n - 1)
      OBVIOUS
    <3>3. h[s \ {n}] = g[s \ {n}]
      BY <1>3, <3>2
    <3>4. h[s] = Op(arg, g[s \ {n}], seq[n])
      BY <2>1
    <3> HIDE DEF h
    <3>5. QED
      BY <3>1, <3>3, <3>4
  <2>2. CASE n \notin s
    <3>1. s \in SUBSET (1 .. n - 1) /\ s \ {Max(s)} \in SUBSET (1 .. n - 1)
      BY <1>1, <2>2
    <3>2. h[s] = g[s] /\ h[s \ {Max(s)}] = g[s \ {Max(s)}]
      BY <1>3, <3>1
    <3> HIDE DEF h
    <3>3. QED
      BY <1>4, <3>1, <3>2
  <2>3. QED
    BY <2>1, <2>2
<1>6. h = [s \in SUBSET (1 .. n) |-> h[s]]
  OBVIOUS
<1>7. h = [s \in SUBSET (1 .. n) |-> Value(s, h)]
  <2> HIDE DEF h, Value
  <2>1. QED
    BY <1>5, <1>6
<1>8. QED
  <2> HIDE DEF h
  <2>1. QED
    BY <1>7 DEF FoldsTo

LEMMA FoldExists ==
    ASSUME NEW arg, NEW base, NEW seq, NEW n \in Nat
    PROVE  \E g : FoldsTo(g, arg, base, seq, 1 .. n)
<1> DEFINE Bad == {m \in Nat : ~\E g : FoldsTo(g, arg, base, seq, 1 .. m)}
<1>1. SUFFICES ASSUME Bad # {} PROVE FALSE
  OBVIOUS
<1>2. PICK m \in Bad : \A y \in Bad : m <= y
  BY <1>1, LeastOf, Zenon
<1>3. m # 0
  <2> DEFINE g == [s \in SUBSET (1 .. 0) |-> base]
  <2>1. \A s \in SUBSET (1 .. 0) : s = {}
    OBVIOUS
  <2>2. g = [s \in SUBSET (1 .. 0) |->
               IF s = {} THEN base ELSE Op(arg, g[s \ {Max(s)}], seq[Max(s)])]
    BY <2>1
  <2>3. FoldsTo(g, arg, base, seq, 1 .. 0)
    BY <2>2 DEF FoldsTo
  <2>4. QED
    BY <2>3
<1>4. m \in Nat \ {0} /\ m - 1 \in Nat /\ m - 1 \notin Bad
  BY <1>2, <1>3
<1>5. PICK g : FoldsTo(g, arg, base, seq, 1 .. m - 1)
  BY <1>4
<1>6. QED
  BY <1>2, <1>4, <1>5, FoldsToNext

\* The results of the first elements, one after the other.
Steps(f, arg, base, seq) ==
    /\ f[0] = base
    /\ \A k \in 1 .. Len(seq) : f[k] = Op(arg, f[k - 1], seq[k])

\* A fold is the last of a row of results, each made of the one before and the
\* next element: what a loop over a list computes, one turn after the other.
THEOREM FoldSteps ==
    ASSUME NEW arg, NEW base, NEW seq, Len(seq) \in Nat, DOMAIN seq = 1 .. Len(seq)
    PROVE  \E f : Steps(f, arg, base, seq) /\ Fold(arg, base, seq) = f[Len(seq)]
<1> DEFINE g == CHOOSE h : FoldsTo(h, arg, base, seq, DOMAIN seq)
           f == [k \in 0 .. Len(seq) |-> g[1 .. k]]
<1>1. FoldsTo(g, arg, base, seq, 1 .. Len(seq))
  BY FoldExists
<1>2. Fold(arg, base, seq) = g[DOMAIN seq]
  BY DEF Fold, MapThenFoldSet, FoldsTo
<1> HIDE DEF g
<1>3. \A s \in SUBSET (1 .. Len(seq)) :
        g[s] = IF s = {} THEN base ELSE Op(arg, g[s \ {Max(s)}], seq[Max(s)])
  BY <1>1 DEF FoldsTo
<1>4. f[0] = base
  <2>1. f[0] = g[1 .. 0]
    OBVIOUS
  <2>2. 1 .. 0 = {} /\ {} \in SUBSET (1 .. Len(seq))
    OBVIOUS
  <2>3. g[{}] = base
    BY <1>3, <2>2
  <2> HIDE DEF f
  <2>4. QED
    BY <2>1, <2>2, <2>3
<1>5. ASSUME NEW k \in 1 .. Len(seq)
      PROVE  f[k] = Op(arg, f[k - 1], seq[k])
  <2>1. 1 .. k \in SUBSET (1 .. Len(seq)) /\ k \in 1 .. k /\ k \in Nat
    OBVIOUS
  <2>2. Max(1 .. k) = k
    BY <2>1, MaxIs
  <2>3. (1 .. k) \ {k} = 1 .. k - 1
    OBVIOUS
  <2>4. f[k] = g[1 .. k] /\ f[k - 1] = g[1 .. k - 1]
    OBVIOUS
  <2> HIDE DEF f
  <2>5. g[1 .. k] = Op(arg, g[(1 .. k) \ {Max(1 .. k)}], seq[Max(1 .. k)])
    BY <1>3, <2>1, 1 .. k # {}
  <2>6. QED
    BY <2>2, <2>3, <2>4, <2>5
<1>6. f[Len(seq)] = g[1 .. Len(seq)]
  OBVIOUS
<1> HIDE DEF f
<1>7. QED
  BY <1>2, <1>4, <1>5, <1>6 DEF Steps

\* What holds before a loop, and is kept by each turn of it, holds after the last:
\* the loops over chunks, blocks and records that are folds in the model.
THEOREM FoldKeeps ==
    ASSUME NEW arg, NEW base, NEW seq, Len(seq) \in Nat, DOMAIN seq = 1 .. Len(seq),
           Keeps(arg, base, 0),
           \A k \in 1 .. Len(seq) : \A acc : Keeps(arg, acc, k - 1) => Keeps(arg, Op(arg, acc, seq[k]), k)
    PROVE  Keeps(arg, Fold(arg, base, seq), Len(seq))
<1>1. PICK f : Steps(f, arg, base, seq) /\ Fold(arg, base, seq) = f[Len(seq)]
  BY FoldSteps
<1> DEFINE Bad == {k \in 0 .. Len(seq) : ~Keeps(arg, f[k], k)}
<1>2. SUFFICES ASSUME Bad # {} PROVE FALSE
  <2>1. Len(seq) \in 0 .. Len(seq)
    OBVIOUS
  <2>2. QED
    BY <1>1, <2>1
<1>3. Bad \in SUBSET Nat
  OBVIOUS
<1>4. PICK m \in Bad : \A y \in Bad : m <= y
  BY <1>2, <1>3, LeastOf, Zenon
<1>5. m # 0
  BY <1>1, <1>4 DEF Steps
<1>6. m \in 1 .. Len(seq) /\ m - 1 \in 0 .. Len(seq) /\ m - 1 \notin Bad
  BY <1>4, <1>5
<1>7. Keeps(arg, f[m - 1], m - 1)
  BY <1>6
<1>8. f[m] = Op(arg, f[m - 1], seq[m])
  BY <1>1, <1>6 DEF Steps
<1>9. QED
  BY <1>4, <1>6, <1>7, <1>8
=============================================================================
