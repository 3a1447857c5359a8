--------------------------- MODULE MCRegionStore ----------------------------
(* RegionStore for TLC: two chunks of one sector. *)
EXTENDS RegionStore

CONSTANTS c1, c2

MCSizeTwo == [c \in {c1, c2} |-> 1]
=============================================================================
