---------------------------- MODULE MCModeration ----------------------------
(* Moderation for TLC: bob in two spellings, ann, and a name whose line is  *)
(* a comment.                                                              *)
EXTENDS Moderation, TLC

CONSTANTS ann, bob, BOB, hash, w1, w2

MCName == {ann, bob, BOB, hash}
MCFold == [n \in MCName |-> IF n = BOB THEN bob ELSE n]
MCCapacity == [l \in Lists |-> IF l = "moderators" THEN 2 ELSE 1]
MCCommands ==
    [list : {"moderators"}, add : BOOLEAN, name : {ann, bob, BOB}]
    \cup [list : {"muted"}, add : BOOLEAN, name : {BOB, hash}]
ModSymmetry == Permutations({w1, w2})
=============================================================================
