------------------------------- MODULE MCCarve -------------------------------
(* Small sources for the carve engine: files and texts across the edges of    *)
(* chunks and windows, in one another, on bad sectors and cut by the end.     *)
EXTENDS Integers, Sequences, TLC

Header(at, bytes, pos, len) == <<[offset |-> at, bytes |-> bytes, at |-> pos, len |-> len]>>
Sig(id, family, validator, headers) ==
    [id |-> id, family |-> family, validator |-> validator, min |-> 2, aligned |-> TRUE,
     footered |-> FALSE, footer |-> [bytes |-> <<7, 7>>, max |-> 16], anchored |-> FALSE, headers |-> headers]

\* 99 is the masked symbol.  The second header of the jpg is shorter than an
\* anchor may be; the mp4 and the heic share their anchor and their validator.
Jpg == Sig("jpg", "image", "jpeg", Header(0, <<1, 2>>, 0, 2) \o Header(0, <<3>>, 0, 1))
Iso == Sig("iso", "archive", "iso", Header(5, <<3, 3>>, 0, 2))
Mp4 == Sig("mp4", "video", "isobmff", Header(0, <<4, 5, 99, 6>>, 0, 2))
Heic == Sig("heic", "image", "isobmff", Header(0, <<4, 5, 99, 7>>, 0, 2))
Cam == [Sig("cam", "video", "", Header(0, <<6, 6>>, 0, 2)) EXCEPT !.footered = TRUE]
Raw == [Sig("raw", "image", "", Header(0, <<2, 10>>, 0, 2)) EXCEPT !.anchored = TRUE, !.aligned = FALSE]
Dmg == Sig("dmg", "archive", "dmg", Header(0, <<5, 5>>, 0, 2))
Txt == Sig("txt", "doc", "text", <<>>)
MCSigs == <<Jpg, Iso, Mp4, Heic, Cam, Raw, Dmg, Txt>>

\* n units of which some are given as <<place, symbols>>.
Units(n, parts) ==
    [u \in 1 .. n |->
        LET at == {p \in parts : p[1] < u /\ u <= p[1] + Len(p[2])}
        IN  IF at = {} THEN 0 ELSE LET p == CHOOSE p \in at : TRUE IN p[2][u - p[1]]]

Says(start, len, validity, score, id) ==
    [accept |-> TRUE, len |-> len, validity |-> validity, score |-> score, start |-> start, id |-> id]
File(at, span, start, len, validity, sig) ==
    [at |-> at, span |-> span, start |-> start, len |-> len, validity |-> validity, sig |-> sig]

\* A thumbnail in a film, an image that ends at an edge, an ISO that starts at
\* one (with a system area that is blank or not), a footer across two windows,
\* an image found by its end.
Media(bad, film, at, area, tail) ==
    [data |-> Units(32, {<<0, <<4, 5, 1, 6, 1, 2, 1, 2>>>>, <<at, area>>, <<at + 5, <<3, 3>>>>,
                         <<24, <<6, 6, 10, 7, 7>>>>, <<30, tail>>}),
     sector |-> 2, bad |-> bad, sigs |-> MCSigs, texts |-> {},
     verdicts |-> (<<"isobmff", 0>> :> Says(0, 6, film, 80, "mp4")) @@ (<<"jpeg", 4>> :> Says(4, 2, "full", 70, "jpg"))
                  @@ (<<"jpeg", 6>> :> Says(6, 3, "full", 70, "jpg")) @@ (<<"iso", at>> :> Says(at, 8, "full", 75, "iso"))
                  @@ (<<"dmg", 30>> :> Says(29, 3, "full", 80, "dmg")),
     files |-> <<File(0, 4, 0, 6, film, Mp4), File(4, 2, 4, 2, "full", Jpg), File(6, 2, 6, 3, "full", Jpg),
                 File(at, 7, at, 8, "full", Iso), File(24, 2, 24, 5, "full", Cam)>>
               \o (IF tail = <<5, 5>> THEN <<File(30, 2, 29, 3, "full", Dmg)>> ELSE <<>>)]

\* Images far apart by far, one of them after the prefix, one found by its end,
\* and a text over an edge.
Texts(far, over, bad) ==
    [data |-> Units(32, {<<i * far, <<1, 2>>>> : i \in 1 .. 3}
                        \cup {<<14, <<5, 5>>>>, <<16, <<8, 9, 8, 9, 8, 9, 8, 9>> \o over>>, <<30, <<1, 2>>>>}),
     sector |-> 2, bad |-> bad, sigs |-> MCSigs, texts |-> {<<16, 24 + Len(over)>>},
     verdicts |-> [x \in {<<"jpeg", i * far>> : i \in 1 .. 3} \cup {<<"jpeg", 30>>} |-> Says(x[2], 2, "full", 70, "jpg")]
                  @@ (<<"dmg", 14>> :> Says(2 * far, 16 - 2 * far, "full", 80, "dmg")),
     files |-> <<File(14, 2, 2 * far, 16 - 2 * far, "full", Dmg)>> \o [i \in 1 .. 4 |-> LET at == IF i = 4 THEN 30 ELSE i * far IN File(at, 2, at, 2, "full", Jpg)]]

\* Two images 10 units apart, and one at the start: a distance over the limit.
Apart(first) ==
    [data |-> Units(32, {<<first, <<4, 5, 1, 7>>>>, <<10, <<1, 2>>>>, <<20, <<1, 2>>>>}),
     sector |-> 2, bad |-> {}, sigs |-> MCSigs, texts |-> {},
     verdicts |-> (<<"jpeg", 10>> :> Says(10, 2, "full", 70, "jpg")) @@ (<<"jpeg", 20>> :> Says(20, 2, "full", 70, "jpg"))
                  @@ (<<"isobmff", first>> :> Says(first, 4, "full", 80, "heic")),
     files |-> <<File(first, 4, first, 4, "full", Heic), File(10, 2, 10, 2, "full", Jpg)>>]

MCMedia ==
    {Media(bad, film, at, area, tail) : bad \in {{}, {0}, {3}, {10}}, film \in {"full", "truncated"}, at \in {14, 15}, area \in {<<10>>, <<>>}, tail \in {<<5, 5>>, <<4, 5>>}}
    \cup {Texts(far, over, bad) : far \in {3, 4}, over \in {<<>>, <<8, 9, 8, 9>>}, bad \in {{}, {8}, {12}}}
    \cup {Apart(first) : first \in {0, 6}}

Scan(brute, block, families, keep, max, from, to) ==
    [brute |-> brute, block |-> block, families |-> families, keep |-> keep, max |-> max, from |-> from, to |-> to]
MCScans ==
    {Scan(brute, block, {}, keep, 20, 0, 32) : brute \in BOOLEAN, block \in {0, 4}, keep \in BOOLEAN}
    \cup {Scan(FALSE, 0, families, TRUE, 20, 0, 32) : families \in {{"image"}, {"doc"}, {"video", "archive"}}}
    \cup {Scan(FALSE, 2, {}, TRUE, max, from, to) : max \in {4, 20}, from \in {0, 6}, to \in {26, 32}}
=============================================================================
