------------------------------ MODULE WorldGen ------------------------------
(***************************************************************************)
(* The generated world as a function of coordinates.  The server has it    *)
(* twice: chunk_sender.c makes packets from it, main.c makes the chunks of *)
(* the region file.  The two texts agree but for the sea level, a #define  *)
(* in the first and the numbers 64, 65 and 67 in the second, which is a    *)
(* parameter here.                                                         *)
(*                                                                         *)
(* Sines and hashes are left out: Surface is the height of a column, Falls *)
(* whether its hash falls on a tree, Growth the part of the hash a tree's  *)
(* height is taken from.                                                   *)
(***************************************************************************)
EXTENDS Integers

CONSTANTS
    Side,               \* blocks along a side of a chunk (16)
    TreeLine,           \* no trees from here on (100)
    World,              \* worlds
    Surface(_, _, _),   \* generated_world_surface_y, of a world at x, z
    Falls(_, _, _),     \* generated_world_hash modulo the chance
    Growth(_, _, _)     \* (generated_world_hash >> 8) % 3

Absolute(n) == IF n < 0 THEN 0 - n ELSE n

(* The remainder of C with its correction for negative coordinates, which  *)
(* is the % of TLA+.                                                       *)
Local(v) == v % Side

(* A tree stands on grass that is not steep, a column away from the border *)
(* of its chunk; its crown may cross the border.                           *)
HasTree(w, x, z, sea) ==
    LET s == Surface(w, x, z)
        Slope(dx, dz) == Absolute(s - Surface(w, x + dx, z + dz))
    IN  /\ s > sea + 1 /\ s < TreeLine
        /\ Local(x) \in 1..Side - 2 /\ Local(z) \in 1..Side - 2
        /\ Slope(1, 0) + Slope(-1, 0) + Slope(0, 1) + Slope(0, -1) <= 3
        /\ Falls(w, x, z)

(* What the tree of the trunk at x - dx, z - dz has at x, y, z: 4 to 6     *)
(* logs and a crown of four layers, the upper one a cross, the lower one   *)
(* without its corners.                                                    *)
Part(w, x, y, z, dx, dz) ==
    LET foot == Surface(w, x - dx, z - dz)
        top == foot + 4 + Growth(w, x - dx, z - dz)
        layer == y - (top - 2)
        far == Absolute(dx) + Absolute(dz)
    IN  IF dx = 0 /\ dz = 0 /\ y \in foot + 1..top THEN "log"
        ELSE IF layer \in 0..3 /\ (layer = 0 => far < 4) /\ (layer = 3 => far <= 1) THEN "leaves"
        ELSE "air"

(* Trunks are looked at row by row; the first that has a part here counts, *)
(* so that a trunk may be hidden in the crown of another.                  *)
TreeBlock(w, x, y, z, sea) ==
    LET near == {d \in (-2..2) \X (-2..2) :
                   /\ HasTree(w, x - d[1], z - d[2], sea)
                   /\ Part(w, x, y, z, d[1], d[2]) # "air"}
        First(d) == \A e \in near : 5 * d[2] + d[1] <= 5 * e[2] + e[1]
    IN  IF near = {} THEN "air"
        ELSE LET d == CHOOSE d \in near : First(d) IN Part(w, x, y, z, d[1], d[2])

Kind(w, x, y, z, sea) ==
    LET s == Surface(w, x, z)
    IN  CASE y = s                 -> IF s <= sea + 1 THEN "sand" ELSE "grass"
          [] y \in s - 3..s - 1    -> IF s <= sea + 3 THEN "sand" ELSE "dirt"
          [] y < s - 3             -> "stone"
          [] y > s /\ y <= sea     -> "water"
          [] y > s /\ y > sea      -> IF y <= s + 8 THEN TreeBlock(w, x, y, z, sea) ELSE "air"
=============================================================================
