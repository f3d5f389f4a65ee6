------------------------------- MODULE Lists --------------------------------
(* The sequence operators that the readers use, under the names they have in  *)
(* SequencesExt and with their meaning.  SequencesExt itself extends Bags and *)
(* with it the prover's own module, and the proofs about the readers meet one *)
(* copy of all that for each of thirteen instances: each step of a proof then *)
(* takes three times as long.                                                 *)
EXTENDS Integers, Sequences, FiniteSetsExt, TLC

ToSet(s) == {s[i] : i \in DOMAIN s}
Last(s) == s[Len(s)]
Front(s) == SubSeq(s, 1, Len(s) - 1)
RemoveAt(s, i) == SubSeq(s, 1, i - 1) \o SubSeq(s, i + 1, Len(s))
Reverse(s) == [i \in 1 .. Len(s) |-> s[Len(s) - i + 1]]

\* Where the first, or the last, element is that passes the test; 0 if none does.
SelectInSeq(s, Test(_)) ==
    LET at == {i \in 1 .. Len(s) : Test(s[i])} IN IF at # {} THEN Min(at) ELSE 0
SelectLastInSeq(s, Test(_)) ==
    LET at == {i \in 1 .. Len(s) : Test(s[i])} IN IF at # {} THEN Max(at) ELSE 0

\* The elements of a set, each once.
SetToSeq(S) == CHOOSE s \in [1 .. Cardinality(S) -> S] : IsInjective(s)
SetToSortSeq(S, Before(_, _)) == SortSeq(SetToSeq(S), Before)

\* A loop over a list, and over its places.
FoldLeft(op(_, _), base, seq) ==
    MapThenFoldSet(LAMBDA x, acc : op(acc, x), base, LAMBDA i : seq[i], LAMBDA S : Max(S), DOMAIN seq)
FoldLeftDomain(op(_, _), base, seq) == FoldLeft(op, base, [i \in DOMAIN seq |-> i])

FlattenSeq(seqs) == FoldLeft(LAMBDA all, s : all \o s, <<>>, seqs)
=============================================================================
