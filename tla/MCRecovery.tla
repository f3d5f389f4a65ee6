----------------------------- MODULE MCRecovery -----------------------------
(* Small recoveries for TLC: records whose names collide with one another,    *)
(* with the manifest and with what the destination has, on a source of twelve *)
(* units whose second sector is bad.                                          *)
EXTENDS Integers, Sequences, TLC

N(stem, ext) == [stem |-> stem, tail |-> <<>>, ext |-> ext]
A == N("a", "jpg")
A1 == [A EXCEPT !.tail = <<1>>]
D == N("d", "")
Colon == N("a:", "jpg")

Rec(id, path, extents, validity) ==
    [id |-> id, path |-> path, suggested |-> <<N("image", ""), A>>, extents |-> extents,
     off |-> 4, len |-> 0, validity |-> validity]
InFolder == Rec("r1", <<D, A>>, <<<<0, 3>>, <<5, 6>>>>, "full")
AtTop == Rec("r2", <<N("..", ""), A>>, <<<<4, 5>>>>, "full")
Unclean == Rec("r3", <<N("", ""), Colon>>, <<<<4, 1>>>>, "truncated")
AsFolder == Rec("r4", <<D>>, <<<<10, 4>>>>, "full")
Taken == Rec("r5", <<A1>>, <<<<12, 2>>>>, "full")
Listing == Rec("r6", <<N("manifest", "json")>>, <<<<4, 2>>>>, "full")
Below == Rec("r7", <<N("manifest", "json"), A>>, <<<<4, 2>>>>, "full")
Carved == [Rec("r8", <<>>, <<>>, "full") EXCEPT !.len = 3]
Nameless == Rec("r9", <<N(".", "")>>, <<>>, "full")

Truth ==
    ("r1" :> <<0, 1, 2, 5, 6, 7, 8, 9, 10>>) @@ ("r2" :> <<4, 5, 6, 7, 8>>) @@ ("r3" :> <<4>>)
    @@ ("r4" :> <<10, 11, 12, 13>>) @@ ("r5" :> <<12, 13>>) @@ ("r6" :> <<4, 5>>) @@ ("r7" :> <<4, 5>>)
    @@ ("r8" :> <<4, 5, 6>>) @@ ("r9" :> <<>>)

Tree(files, dirs) == [files |-> files, dirs |-> dirs]
None == [p \in {} |-> <<>>]
Trees ==
    {Tree(None, {}), Tree(<<A>> :> <<-3>>, {}), Tree(<<D>> :> <<-3>>, {<<A1>>}),
     Tree((<<A>> :> <<-3>>) @@ (<<A1>> :> <<-3>>), {<<D>>})}

\* What the source is: a device that is not the destination's, one whose
\* synthesized container is, one without a name, an image, adopted volumes.
Device(named, whole) == [kind |-> "device", named |-> named, whole |-> whole]
Volume(inner) == [kind |-> "volume", inner |-> inner]
Target(whole, media) == [whole |-> whole, fs |-> "fs1", media |-> media]
Places ==
    {<<Device(TRUE, "disk4"), Target("disk3", {"disk0"}), {"disk4"}>>,
     <<Device(TRUE, "disk0"), Target("disk3", {"disk0"}), {"disk0"}>>,
     <<Volume(<<Device(TRUE, "disk3")>>), Target("disk0", {"disk0"}), {"disk0"}>>,
     <<Device(FALSE, "fd"), Target("disk3", {"disk0"}), {"disk0"}>>,
     <<[kind |-> "image", fs |-> "fs1"], Target("disk3", {"disk0"}), {"disk0"}>>,
     <<[kind |-> "image", fs |-> "fs2"], Target("disk3", {"disk0"}), {"disk4"}>>,
     <<Volume(<<>>), Target("", {"disk0"}), {"disk0"}>>}
Usual == <<Device(TRUE, "disk4"), Target("disk3", {"disk0"}), {"disk4"}>>

Job(records, dest, place, faulty) ==
    [records |-> records, dest |-> dest, source |-> place[1], target |-> place[2], media |-> place[3],
     stores |-> "disk3" :> {"disk0"}, clean |-> Colon :> N("a", "jpg"), len |-> 12, bad |-> {1},
     faulty |-> faulty, truth |-> Truth]
MCJobs ==
    {Job(records, tree, Usual, faulty) :
        records \in {<<InFolder, AtTop, Unclean>>, <<AsFolder, InFolder, Taken>>, <<AtTop, Taken, Unclean>>,
                     <<Listing, Carved, Nameless>>, <<Below, Listing>>},
        tree \in Trees, faulty \in BOOLEAN}
    \cup {Job(<<AtTop>>, Tree(None, {}), place, FALSE) : place \in Places}

Ask(op, ids, collision, preserve, flat, verify, same) ==
    [op |-> op, ids |-> ids, collision |-> collision, preserve |-> preserve, flat |-> flat,
     verify |-> verify, sameDevice |-> same, max |-> 6]
All == DOMAIN Truth
MCAsks ==
    {Ask("recover", All, collision, TRUE, flat, verify, FALSE) :
        collision \in {"rename", "skip", "overwrite"}, flat \in BOOLEAN, verify \in BOOLEAN}
    \cup {Ask("recover", {}, "rename", TRUE, FALSE, TRUE, FALSE), Ask("recover", {"r2"}, "rename", FALSE, FALSE, TRUE, TRUE)}
    \cup {Ask("preview", {id}, "rename", TRUE, FALSE, FALSE, FALSE) : id \in {"r1", "r2", "r4", "r8"}}
=============================================================================
