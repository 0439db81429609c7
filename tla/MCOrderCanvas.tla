---------------------------- MODULE MCOrderCanvas ----------------------------
(* Instance of OrderCanvas for TLC. *)
EXTENDS OrderCanvas

MCCoords == -1..4
MCSources == -1..3
MCClips == {NoClip, Rect(1, 0, 2, 2), Rect(2, 1, -1, 1)}
MCTile == <<<<"c">>, <<"d">>, <<"a">>, <<"b">>>>
MCInk == {<<0, 0>>, <<2, 0>>, <<1, 1>>}
MCSeeds == {NoRect, Rect(0, 0, 1, 2)}
=============================================================================
