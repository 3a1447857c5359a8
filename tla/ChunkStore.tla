----------------------------- MODULE ChunkStore -----------------------------
(***************************************************************************)
(* What the generated world promises of its chunks, whatever the files     *)
(* look like: a chunk that is stored stays stored, and whoever asks for a  *)
(* chunk is given that chunk, whole.                                       *)
(***************************************************************************)
CONSTANTS Proc, Chunk, Nothing

VARIABLES
    stored,     \* the chunks that can be read back
    served      \* Proc -> the last request and what was sent for it

Init ==
    /\ stored = {}
    /\ served = [p \in Proc |-> [asked |-> Nothing, got |-> Nothing]]

Put(c) ==
    /\ stored' = stored \cup {c}
    /\ UNCHANGED served

Serve(p, c) ==
    /\ served' = [served EXCEPT ![p] = [asked |-> c, got |-> c]]
    /\ UNCHANGED stored

Next == \E c \in Chunk : Put(c) \/ \E p \in Proc : Serve(p, c)

Spec == Init /\ [][Next]_<<stored, served>>
=============================================================================
