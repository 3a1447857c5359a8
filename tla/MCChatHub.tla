------------------------------ MODULE MCChatHub ------------------------------
(* ChatHub on a few threads and descriptors, interchangeable among         *)
(* themselves.                                                             *)
EXTENDS ChatHub, TLC

HubSymmetry == Permutations(Worker) \cup Permutations(Fd)
=============================================================================
