----------------------------- MODULE CarveEngine -----------------------------
(* What the carve engine finds in a source (reclaim-carve's engine, matcher   *)
(* and text detector): chunks with an overlap, the anchors in them, the gates *)
(* before a validator runs, the choice among verdicts and the claims of Full  *)
(* results.  A source is a sequence of symbols; a header has bytes, of which  *)
(* Wild matches all, and the literal run in them that the automaton looks for. *)
(* ScanPipeline has the same loop with its storage and interruptions.         *)
EXTENDS FsCore

CONSTANTS
    Disks,        \* the sources, their catalog and what its validators say
    Requests,     \* the options of a scan
    Chunk,        \* units per step (8 MiB)
    Wild,         \* the symbol a header masks out
    TextSymbols,  \* the symbols of text
    MinAnchor,    \* the shortest anchor looked for (2)
    HeadLen,      \* what is looked at for a uniform fill (64 bytes)
    TextLen,      \* the sample of the text detector (512 bytes)
    MinSample,    \* the shortest sample (16 bytes)
    MinRun,       \* the shortest text (32 bytes)
    TaintLen,     \* what is looked at for bad sectors (512 bytes)
    FallbackCap,  \* the cap of what cannot be sized (1 MiB)
    FooterWindow, \* what is searched at a time for a footer (1 MiB)
    MaxFile,      \* the longest file unless another limit is given (4 GiB)
    MaxClaims,    \* claims kept (64)
    Prefix,       \* the part the block size is inferred from (128 MiB)
    FewFiles, EnoughFiles, \* files it takes (3), and files that are enough (12)
    MaxBlock      \* the largest block size inferred (1 MiB)

VARIABLES
    pc,      \* infer, scan or done
    disk,
    opts,
    work,    \* the next chunk and the block size
    seen,    \* the claims
    out      \* the results, in the order they are emitted

vars == <<pc, disk, opts, work, seen, out>>

-----------------------------------------------------------------------------
(* The source.                                                             *)
Size == Len(disk.data)

Unread(p) == p >= Size \/ (p \div disk.sector) \in disk.bad

Symbol(p) == IF Unread(p) THEN 0 ELSE disk.data[p + 1]

Sample(p, n) == [i \in 1 .. n |-> Symbol(p + i - 1)]

Occurs(bytes, p) == \A i \in DOMAIN bytes : bytes[i] = Wild \/ bytes[i] = Symbol(p + i - 1)

-----------------------------------------------------------------------------
(* The matcher.                                                            *)
Anchor(h) == SubSeq(h.bytes, h.at + 1, h.at + h.len)

Headers == {sh \in (DOMAIN disk.sigs) \X (1 .. 2) : sh[2] \in DOMAIN disk.sigs[sh[1]].headers}
HeaderOf(sh) == disk.sigs[sh[1]].headers[sh[2]]

\* How far a header may reach from the start of its file.
MaxHeaderSpan ==
    CHOOSE n \in {HeaderOf(sh).offset + Len(HeaderOf(sh).bytes) : sh \in Headers} :
        \A sh \in Headers : HeaderOf(sh).offset + Len(HeaderOf(sh).bytes) <= n

\* Wrong: a unit too little.
OverlapShort == MaxHeaderSpan - 2
Overlap == MaxHeaderSpan - 1

\* A header cut by the edge of what is read is left to the validator.
Confirmed(h, p, base, n) == (base <= p /\ p + Len(h.bytes) <= base + n) => Occurs(h.bytes, p)

\* The anchors in n units from base, in the order the automaton reports them:
\* by their ends, the longest first, then as in the catalog.
Hits(base, n) ==
    LET at == {x \in (base .. base + n - 1) \X Headers :
                 /\ HeaderOf(x[2]).len >= MinAnchor
                 /\ x[1] + HeaderOf(x[2]).len <= base + n
                 /\ Occurs(Anchor(HeaderOf(x[2])), x[1])}
        hits == {[sig |-> x[2][1], start |-> x[1] - HeaderOf(x[2]).at - HeaderOf(x[2]).offset,
                  rank |-> <<x[1] + HeaderOf(x[2]).len, x[1], x[2][1], x[2][2]>>] :
                   x \in {y \in at : Confirmed(HeaderOf(y[2]), y[1] - HeaderOf(y[2]).at, base, n)}}
    IN  SetToSortSeq({hit \in hits : hit.start >= 0}, LAMBDA a, b : LexLess(a.rank, b.rank))

\* The signatures whose anchors say that a file starts at start.
SigsAt(hits, start) == [i \in DOMAIN SelectSeq(hits, LAMBDA x : x.start = start) |->
                          SelectSeq(hits, LAMBDA x : x.start = start)[i].sig]

-----------------------------------------------------------------------------
(* Text.                                                                   *)
LooksLikeText(sample) ==
    /\ Len(sample) >= MinSample /\ ToSet(sample) \subseteq TextSymbols
    /\ Cardinality(ToSet(sample)) > 1

\* A text starts at a block that looks like it, after one that does not; the
\* first block of a chunk has none before it.
TextStarts(base, n, block) ==
    LET bs == IF block > TextLen THEN block ELSE TextLen
        Look(b) == LooksLikeText(Sample(b, Least(TextLen, base + n - b)))
    IN  {b \in base .. Least(base + Chunk, opts.to) - 1 :
            /\ b % bs = 0 /\ Look(b) /\ (b >= base + bs => ~Look(b - bs))}

\* The text runs to the first symbol that is none.
TextVerdict(start, max) ==
    LET ends == {n \in 0 .. max - 1 : Symbol(start + n) \notin TextSymbols}
        run == IF ends = {} THEN max ELSE CHOOSE n \in ends : \A k \in ends : n <= k
    IN  [accept |-> run >= MinRun /\ LooksLikeText(Sample(start, Least(TextLen, run))), len |-> run,
         validity |-> IF ends = {} THEN "truncated" ELSE "full", score |-> IF ends = {} THEN 50 ELSE 68,
         start |-> start, id |-> "txt"]

-----------------------------------------------------------------------------
(* A candidate.                                                            *)
Suppressed(claims, start) == \E i \in DOMAIN claims : claims[i][1] < start /\ start < claims[i][2]

PruneClaims(claims, cursor) ==
    LET open == SelectSeq(claims, LAMBDA c : c[2] > cursor)
    IN  SubSeq(open, Monus(Len(open), MaxClaims) + 1, Len(open))

Allowed(sig, o) == o.families = {} \/ sig.family \in o.families

Uniform(start) == Cardinality(ToSet(Sample(start, HeadLen))) = 1

\* The nearest footer that one of the windows has in one piece.
FooterEnds(footer, start, search) ==
    {e \in Len(footer.bytes) .. search :
        /\ Occurs(footer.bytes, start + e - Len(footer.bytes))
        /\ \E k \in 0 .. search :
             LET w == k * (FooterWindow - Len(footer.bytes))
             IN  w < search /\ w <= e - Len(footer.bytes) /\ e <= Least(w + FooterWindow, search)}

\* What a signature without a validator gets.
Fallback(sig, start, max) ==
    LET ends == FooterEnds(sig.footer, start, Least(sig.footer.max, max))
        V(ok, len, validity, score) ==
            [accept |-> ok, len |-> len, validity |-> validity, score |-> score, start |-> start, id |-> sig.id]
    IN  IF ~sig.footered THEN V(~sig.anchored, Least(max, FallbackCap), "suspect", 30)
        ELSE IF ends = {} THEN V(TRUE, Least(max, FallbackCap), "truncated", 30)
        ELSE V(TRUE, CHOOSE e \in ends : \A k \in ends : e <= k, "full", 65)

Verdict(sig, start, max) ==
    IF sig.validator = "text" THEN TextVerdict(start, max)
    ELSE IF sig.validator = "" THEN Fallback(sig, start, max)
    ELSE IF <<sig.validator, start>> \in DOMAIN disk.verdicts THEN disk.verdicts[<<sig.validator, start>>]
    ELSE [accept |-> FALSE, len |-> 0, validity |-> "suspect", score |-> 0, start |-> start, id |-> sig.id]

Tainted(start, len) == \E p \in start .. start + Least(TaintLen, len) - 1 : Unread(p)

\* <<>>, or the file a signature makes of the candidate.
RunOne(sig, start, o) ==
    LET max == Least(Monus(Size, start), o.max)
        v == Verdict(sig, start, max)
    IN  IF max = 0 THEN <<>>
        ELSE IF ~v.accept \/ v.len = 0 \/ v.len < sig.min THEN <<>>
        ELSE <<[start |-> v.start, len |-> v.len, id |-> v.id, score |-> v.score,
                validity |-> IF v.validity = "full" /\ Tainted(v.start, v.len) THEN "suspect" ELSE v.validity]>>

Better(best, new) ==
    IF new = <<>> THEN best
    ELSE IF best = <<>> THEN new
    ELSE IF new[1].score > best[1].score \/ (new[1].score = best[1].score /\ new[1].len > best[1].len)
         THEN new ELSE best

\* Each validator runs once for one start; a header that should be at the
\* start of a block is not tried elsewhere.
Identify(start, sigs, block, o) ==
    LET Try(acc, s) ==
          LET sig == disk.sigs[s] IN
            IF \/ ~Allowed(sig, o) \/ (~o.brute /\ sig.aligned /\ start % block # 0)
               \/ (sig.validator # "" /\ sig.validator \in acc.tried)
            THEN acc
            ELSE [best |-> Better(acc.best, RunOne(sig, start, o)), tried |-> acc.tried \cup {sig.validator}]
    IN  IF ~o.brute /\ Uniform(start) THEN <<>>
        ELSE FoldLeft(Try, [best |-> <<>>, tried |-> {}], sigs).best

-----------------------------------------------------------------------------
(* The block size, from the whole files of the first chunks.                *)
\* The greatest common divisor; that of no numbers is 0.
Divides(d, n) == n % d = 0
Gcd(S) ==
    LET common == {d \in 1 .. Size : \A n \in S : Divides(d, n)}
    IN  IF S = {} THEN 0 ELSE CHOOSE d \in common : \A k \in common : k <= d

\* The options it is inferred with, whatever those of the scan.
Default == [brute |-> FALSE, families |-> {}, max |-> MaxFile]

\* The starts of one chunk, in their order.
Starts(base, limit) ==
    LET hits == Hits(base, Least(limit - base, Chunk + Overlap))
    IN  SetToSortSeq({hits[i].start : i \in {k \in DOMAIN hits : hits[k].start \in base .. base + Chunk - 1}}, <)

FileAt(start) == Identify(start, SigsAt(Hits(start, MaxHeaderSpan), start), disk.sector, Default)

InferBlock ==
    LET limit == Least(Size, Prefix)
        starts == FlattenSeq([k \in 1 .. CeilDiv(limit, Chunk) |-> Starts((k - 1) * Chunk, limit)])
        Files(at) == FlattenSeq([i \in DOMAIN at |-> FileAt(at[i])])
        Whole(files) == SelectSeq(files, LAMBDA cf : cf.validity = "full")
        First(whole) == SubSeq(whole, 1, Least(Len(whole), EnoughFiles))
        Aligned(g) == IF g < disk.sector \/ g % disk.sector # 0 THEN disk.sector ELSE Least(g, MaxBlock)
        Of(counted) == IF Len(counted) < FewFiles THEN disk.sector
                       ELSE Aligned(Gcd({counted[i].start : i \in DOMAIN counted} \ {0}))
    IN  Of(First(Whole(Files(starts))))

-----------------------------------------------------------------------------
(* One chunk.                                                              *)
Primary(start, pos) == start \in pos .. pos + Chunk - 1 \/ (start < pos /\ pos = opts.from)

\* The candidates of a chunk in the order of their starts, each with the
\* signatures that have it.
Candidates(pos) ==
    LET n == Least(opts.to - pos, Chunk + Overlap)
        hits == SelectSeq(Hits(pos, n), LAMBDA x : Primary(x.start, pos))
        text == IF opts.families = {} \/ "doc" \in opts.families THEN TextStarts(pos, n, work.block) ELSE {}
        starts == {hits[i].start : i \in DOMAIN hits} \cup text
        ofText == SelectInSeq(disk.sigs, LAMBDA s : s.validator = "text")
    IN  [i \in 1 .. Cardinality(starts) |->
           LET s == SetToSortSeq(starts, <)[i]
           IN  <<s, SigsAt(hits, s) \o (IF s \in text /\ ofText # 0 THEN <<ofText>> ELSE <<>>)>>]

\* A Full result claims what is in it; one that is not kept claims nothing.
Take(acc, c) ==
    LET Keep(cf) ==
            IF cf = <<>> THEN acc
            ELSE IF ~opts.keep /\ cf[1].validity # "full" THEN acc
            ELSE [claims |-> PruneClaims(IF cf[1].validity = "full"
                                         THEN Append(acc.claims, <<cf[1].start, cf[1].start + cf[1].len>>)
                                         ELSE acc.claims, c[1]),
                  found |-> Append(acc.found, cf[1])]
    IN  IF Suppressed(acc.claims, c[1]) THEN acc ELSE Keep(Identify(c[1], c[2], work.block, opts))

-----------------------------------------------------------------------------
\* A scan moves on, over a part of the source.
RequestsOk == Chunk \in Nat \ {0} /\ \A o \in Requests : o.from \in Nat /\ o.to \in Nat

Init ==
    /\ pc = "infer" /\ disk \in Disks /\ opts \in Requests
    /\ work = [pos |-> opts.from, block |-> 0] /\ seen = <<>> /\ out = <<>>

Infer ==
    /\ pc = "infer" /\ pc' = "scan"
    /\ work' = [work EXCEPT !.block = IF opts.block # 0 THEN opts.block ELSE InferBlock]
    /\ UNCHANGED <<disk, opts, seen, out>>

Step ==
    /\ pc = "scan" /\ work.pos < opts.to
    /\ \E done \in {FoldLeft(Take, [claims |-> seen, found |-> out], Candidates(work.pos))} :
           seen' = done.claims /\ out' = done.found
    /\ work' = [work EXCEPT !.pos = @ + Chunk]
    /\ UNCHANGED <<pc, disk, opts>>

End ==
    /\ pc = "scan" /\ work.pos >= opts.to /\ pc' = "done"
    /\ UNCHANGED <<disk, opts, work, seen, out>>

Next == Infer \/ Step \/ End
Spec == Init /\ [][Next]_vars

-----------------------------------------------------------------------------
(* files are the files the source holds: where their header says they start,  *)
(* the reach of their headers, their start and length and their signature.    *)
\* The gates in the way of a file.  One that is inferred lets the whole files
\* pass that it was inferred from: not those inside a sector, past the prefix or
\* past the first twelve, nor one that is found by its end, nor any if their
\* distance was cut to a limit.
Gated(f) ==
    /\ ~opts.brute
    /\ \/ Uniform(f.at)
       \/ f.sig.aligned /\ IF opts.block # 0 \/ f.at # f.start THEN f.at % work.block # 0
                          ELSE \/ f.validity # "full" \/ work.block = MaxBlock \/ f.at % disk.sector # 0
                               \/ f.start >= Prefix \/ Len(disk.files) > EnoughFiles

\* Inside a result that was whole.
Inside(f) == \E i \in DOMAIN out : /\ out[i].validity = "full" /\ out[i].start < f.at
                                   /\ f.at < out[i].start + out[i].len

Due(f) ==
    /\ opts.from <= f.at /\ f.at + f.span <= opts.to
    /\ Allowed(f.sig, opts) /\ (opts.keep \/ f.validity = "full") /\ f.len <= opts.max
    /\ ~Gated(f) /\ ~Inside(f)
    /\ \A p \in f.at .. f.at + f.span - 1 : ~Unread(p)

\* Every file that is due is found once, with its length, wherever the chunks
\* and the windows fall.
Listed ==
    pc = "done" =>
        \A f \in ToSet(disk.files) :
            Due(f) => Once(LAMBDA x : x.start = f.start /\ x.id = f.sig.id /\ x.len = f.len, out)

\* No place is emitted twice, and what is inside a whole result is not.
NoTwice ==
    \A i, j \in DOMAIN out : i < j =>
        /\ <<out[i].start, out[i].id>> # <<out[j].start, out[j].id>>
        /\ ~(out[i].validity = "full" /\ out[i].start < out[j].start /\ out[j].start < out[i].start + out[i].len)

\* A text that ends in the source is one result, however many chunks it spans.
TextOnce ==
    \A t \in disk.texts :
        (t[2] - t[1] < opts.max /\ \A p \in t[1] .. t[2] : ~Unread(p)) =>
            Cardinality({i \in DOMAIN out : out[i].start >= t[1] /\ out[i].start < t[2] /\ out[i].id = "txt"}) <= 1

Rank == <<CASE pc = "infer" -> 2 [] pc = "scan" -> 1 [] OTHER -> 0, opts.to - work.pos>>
Shrinks == Falls(Rank, Rank')
=============================================================================
