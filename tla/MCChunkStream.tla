--------------------------- MODULE MCChunkStream ---------------------------
(* ChunkStream for TLC: two stops whose areas overlap, far enough apart    *)
(* for the client to let go of the edge of the first; two blocks on that   *)
(* edge and two in the overlap.                                            *)
EXTENDS ChunkStream, TLC

CONSTANTS b1, b2, b3, b4

MCCenters == {<<0, 0>>, <<2, 1>>}
MCSpawn == <<0, 0>>
MCChunkOf == [b \in Block |-> IF b \in {b1, b2} THEN <<-1, 0>> ELSE <<1, 0>>]
MCNear == [c \in MCCenters |-> IF c = <<0, 0>> THEN Block ELSE {b3, b4}]

Neighbours == Permutations({b1, b2}) \cup Permutations({b3, b4})
=============================================================================
