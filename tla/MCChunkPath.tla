----------------------------- MODULE MCChunkPath -----------------------------
(* ChunkPath for TLC.  Chunks are 7 by 7 columns, the least for which the   *)
(* width of a height is found from the length of the array as in the code;  *)
(* sections are 4 blocks high.  World 1 has slopes and trees, some across   *)
(* the borders of chunks, world 2 a coast.                                  *)
EXTENDS ChunkPath, TLC

CONSTANTS c1, c2, c3

MCSize == [c \in {c1, c2, c3} |-> IF c = c2 THEN 2 ELSE 1]
MCPosition == (c1 :> <<-1, 0>>) @@ (c2 :> <<0, 0>>) @@ (c3 :> <<0, 1>>)
MCSpawnPosition == <<-1, -1>>

MCSectionY == -2..3
MCMinY == -8

MCSurface(w, x, z) == IF w = 1 THEN 2 + (((x + 2 * z) % 24) \div 6) ELSE (((x + 3 * z) % 12) \div 2) - 3
MCFalls(w, x, z) == (5 * x + 3 * z) % 11 = 0
MCGrowth(w, x, z) == (x + z) % 3

(* A chunk of another program: one section in the wrong place, one twice,   *)
(* one without blocks, one with names the server does not know, and one     *)
(* with more names than it keeps.                                           *)
Section(y, names) ==
    [y |-> y, names |-> names, indices |-> [i \in 0..195 |-> (i * 5) % Len(names)]]
Many(n) == [j \in 1..n |-> IF j % 3 = 0 THEN "fern" ELSE "stone"]
MCForeign ==
    [old |-> <<Section(1, <<"air", "planks", "tuff">>),
               Section(-2, <<"stone">>),
               Section(0, Many(40)),
               [y |-> 2, names |-> <<>>, indices |-> <<>>],
               Section(7, <<"sand">>),
               Section(-1, <<"fern", "log">>),
               Section(3, Many(260)),
               Section(1, <<"leaves", "fern", "air", "planks", "tuff">>)>>]
=============================================================================
