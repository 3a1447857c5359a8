------------------------- MODULE ChunkPath_proofs --------------------------
(***************************************************************************)
(* Proofs about RegionStore and ChunkPath.                                 *)
(*                                                                         *)
(* RegionStore: Shared holds for any number of workers; the rest with one, *)
(* for every set of chunks, every size and any number of restarts.  Its    *)
(* inductive invariant IInv says, besides the types, what a save has done  *)
(* so far: the worker's copy of the table is the table, and what it has    *)
(* appended is a prefix of its chunk at the end of the file.               *)
(*                                                                         *)
(* ChunkPath: what was packed is read back (a number has its bits to       *)
(* itself, entries have their slots to themselves, a width that divides a  *)
(* long leaves no gap), a palette has each kind once, and the blocks of    *)
(* chunk, file, packet and client are the same; for every terrain and      *)
(* every size that keeps the assumptions of ChunkCodec and ChunkPath.      *)
(***************************************************************************)
EXTENDS ChunkPath, DataLemmas

(* There is one worker: what two of them do to a region file, run          *)
(* region_race shows.                                                      *)
OneWorker == \A p, q \in Proc : p = q

(* The types, and a worker that is not idle is about some chunk. *)
Types ==
    /\ TypeOK
    /\ \A p \in Proc : pc[p] # "idle" => want[p] \in Chunk

(* What holds for any number of workers: one that writes is at a part of   *)
(* what it writes, and a cache file has blocks of its own packet and holes. *)
Parts == \A p \in Proc :
    /\ pc[p] = "packet" => part[p] \in 1..PacketBlocks
    /\ pc[p] = "append" => at[p] # 0 /\ part[p] # 0
OwnBlocks == \A c \in Chunk : \A k \in 1..Len(cache[c]) : cache[c][k] \in {<<c, k>>, Hole}

Shared == Types /\ Parts /\ OwnBlocks

(* A file without a header has no chunks. *)
Empties ==
    /\ header # "full" => loc = NoChunks /\ data = <<>>
    /\ \A p \in Proc : (pc[p] = "create" => header = "absent")
                       /\ (pc[p] = "blank" => header = "empty")

(* A cache file is a prefix of its packet; the one being written ends      *)
(* where the worker is.                                                    *)
Beginnings ==
    /\ \A c \in Chunk : \A k \in 1..Len(cache[c]) : cache[c][k] = <<c, k>>
    /\ \A p \in Proc : pc[p] = "packet" =>
          part[p] \in 1..PacketBlocks /\ Len(cache[want[p]]) = part[p] - 1

(* A read that has found a location reads there. *)
Reading == \A p \in Proc : pc[p] = "fetch" => at[p] = loc[want[p]] /\ at[p] # 0

(* A save: the copied table is the table, the chunk is not in it, and what *)
(* has been appended of it ends the file.                                  *)
Saving == \A p \in Proc : pc[p] \in {"seek", "append", "commit"} =>
    /\ header = "full" /\ copy[p] = loc /\ loc[want[p]] = 0
    /\ pc[p] = "append" =>
          /\ at[p] # 0 /\ part[p] \in 1..Size[want[p]]
          /\ Len(data) = at[p] + part[p] - 2
          /\ \A k \in 1..(part[p] - 1) : data[at[p] + k - 1] = <<want[p], k>>
    /\ pc[p] = "commit" => WholeAt(want[p], at[p])

IInv == Types /\ Empties /\ Beginnings /\ Reading /\ Saving /\ EntriesReadable

-----------------------------------------------------------------------------
(* Writing after the last block appends, and leaves what is there alone.   *)
LEMMA WrittenAtEnd ==
    ASSUME NEW S, NEW blocks \in Seq(S), NEW b \in S,
           NEW i \in Nat, i = Len(blocks) + 1
    PROVE  /\ Written(blocks, i, b) \in Seq(S)
           /\ Len(Written(blocks, i, b)) = i
           /\ \A k \in 1..Len(blocks) : Written(blocks, i, b)[k] = blocks[k]
           /\ Written(blocks, i, b)[i] = b
<1> DEFINE w == Written(blocks, i, b)
<1>1. Len(blocks) \in Nat /\ i \in Nat \ {0} /\ i > Len(blocks)
  OBVIOUS
<1>2. w = [j \in 1..i |-> IF j = i THEN b ELSE blocks[j]]
  BY <1>1 DEF Written
<1>3. w \in [1..i -> S]
  BY <1>1, <1>2
<1>4. w \in Seq(S)
  BY <1>1, <1>3, SeqDef
<1>5. Len(w) = i
  BY <1>1, <1>3, <1>4
<1> QED BY <1>1, <1>2, <1>4, <1>5

(* Wherever a block is written, what was there stays, and holes fill a gap. *)
LEMMA WrittenAnywhere ==
    ASSUME NEW S, Hole \in S, NEW blocks \in Seq(S), NEW b \in S, NEW i \in Nat \ {0}
    PROVE  /\ Written(blocks, i, b) \in Seq(S)
           /\ Len(Written(blocks, i, b)) = IF i > Len(blocks) THEN i ELSE Len(blocks)
           /\ \A j \in 1..Len(Written(blocks, i, b)) :
                 Written(blocks, i, b)[j]
                   = IF j = i THEN b ELSE IF j <= Len(blocks) THEN blocks[j] ELSE Hole
<1> DEFINE n == IF i > Len(blocks) THEN i ELSE Len(blocks)
           w == Written(blocks, i, b)
<1>1. n \in Nat /\ Len(blocks) \in Nat
  OBVIOUS
<1>2. w = [j \in 1..n |-> IF j = i THEN b ELSE IF j <= Len(blocks) THEN blocks[j] ELSE Hole]
  BY DEF Written
<1>3. \A j \in 1..n : j <= Len(blocks) => blocks[j] \in S
  BY <1>1
<1> HIDE DEF n, w
<1>4. w \in [1..n -> S]
  BY <1>2, <1>3
<1>5. w \in Seq(S) /\ Len(w) = n
  BY <1>1, <1>4
<1>6. \A j \in 1..n : w[j] = IF j = i THEN b ELSE IF j <= Len(blocks) THEN blocks[j] ELSE Hole
  BY <1>2
<1> QED BY <1>5, <1>6 DEF n, w

(* A world without files satisfies the invariant. *)
LEMMA InitInvariant == Init => IInv
<1> SUFFICES ASSUME Init PROVE IInv
  OBVIOUS
<1>1. Types
  BY SizeAssumption, BoundAssumption DEF Init, Types, TypeOK, Steps, Block, NoChunks
<1>2. Empties /\ Beginnings /\ Reading /\ Saving
  BY DEF Init, Empties, Beginnings, Reading, Saving, NoChunks
<1>3. EntriesReadable
  BY DEF Init, EntriesReadable, NoChunks
<1> QED BY <1>1, <1>2, <1>3 DEF IInv

-----------------------------------------------------------------------------
(* One lemma for each part of IInv.                                        *)

(* Every step keeps the types. *)
LEMMA TypesInductive ==
    ASSUME Shared, Next
    PROVE  Types'
<1> USE DEF Types, TypeOK, Steps, Goto, Send, region
<1>a. Types
  BY DEF Shared
<1>b. ASSUME NEW p \in Proc, Return(p),
             UNCHANGED <<readsRegion, region, cache, crashes>>,
             served' \in [Proc -> [asked : Chunk \cup {Nothing}, got : Chunk \cup {Nothing, Broken}]]
      PROVE  Types'
  BY <1>a, <1>b DEF Return, NoChunks
<1>1. ASSUME NEW p \in Proc, Request(p) PROVE Types'
  BY <1>a, <1>1 DEF Request
<1>2. ASSUME NEW p \in Proc, Lookup(p) PROVE Types'
  BY <1>a, <1>2 DEF Lookup
<1>3. ASSUME NEW p \in Proc, Fetch(p) PROVE Types'
  <2>1. CASE (\E c \in Chunk : Send(p, c)) /\ Return(p)
    <3>1. want[p] \in Chunk
      BY <1>a, <1>3 DEF Fetch
    <3>2. served' \in [Proc -> [asked : Chunk \cup {Nothing}, got : Chunk \cup {Nothing, Broken}]]
      BY <1>a, <2>1, <3>1
    <3>3. UNCHANGED <<readsRegion, region, cache, crashes>>
      BY <1>3 DEF Fetch
    <3> QED BY <1>b, <2>1, <3>2, <3>3
  <2>2. CASE Goto(p, "load") /\ at' = [at EXCEPT ![p] = 0] /\ UNCHANGED <<want, copy, part, served>>
    <3>1. want[p] \in Chunk /\ UNCHANGED <<readsRegion, region, cache, crashes>>
      BY <1>a, <1>3 DEF Fetch
    <3> QED BY <1>a, <2>2, <3>1
  <2> QED BY <1>3, <2>1, <2>2 DEF Fetch
<1>4. ASSUME NEW p \in Proc, LoadHit(p) PROVE Types'
  BY <1>a, <1>4 DEF LoadHit, Packet
<1>5. ASSUME NEW p \in Proc, LoadMiss(p) PROVE Types'
  BY <1>a, <1>5 DEF LoadMiss
<1>6. ASSUME NEW p \in Proc, SaveOpen(p) PROVE Types'
  <2>1. cache' \in [Chunk -> Seq(Block)] /\ \A c \in Chunk : Len(cache'[c]) <= PacketBlocks
    BY <1>a, <1>6, SizeAssumption DEF SaveOpen
  <2> QED BY <1>a, <1>6, <2>1 DEF SaveOpen
<1>7. ASSUME NEW p \in Proc, SaveBlock(p) PROVE Types'
  <2> DEFINE c == want[p]
             b == <<c, part[p]>>
  <2>1. c \in Chunk /\ b \in Block /\ part[p] \in 1..PacketBlocks /\ Hole \in Block
    BY <1>a, <1>7 DEF SaveBlock, Shared, Parts, Block
  <2>2. /\ Written(cache[c], part[p], b) \in Seq(Block)
        /\ Len(Written(cache[c], part[p], b)) <= PacketBlocks
    <3>1. /\ part[p] \in Nat \ {0} /\ part[p] <= PacketBlocks
          /\ cache[c] \in Seq(Block) /\ Len(cache[c]) <= PacketBlocks
      BY <1>a, <2>1, SizeAssumption
    <3> DEFINE blocks == cache[c]
               i == part[p]
    <3>2. /\ i \in Nat \ {0} /\ i <= PacketBlocks /\ b \in Block /\ Hole \in Block
          /\ blocks \in Seq(Block) /\ Len(blocks) <= PacketBlocks /\ Len(blocks) \in Nat
      BY <2>1, <3>1
    <3> HIDE DEF b, c, blocks, i
    <3>3. /\ Written(blocks, i, b) \in Seq(Block)
          /\ Len(Written(blocks, i, b)) = IF i > Len(blocks) THEN i ELSE Len(blocks)
      BY <3>2, WrittenAnywhere
    <3> QED BY <3>2, <3>3 DEF blocks, i
  <2>3. cache' = [cache EXCEPT ![c] = Written(cache[c], part[p], b)]
    BY <1>7 DEF SaveBlock
  <2> HIDE DEF c, b
  <2>4. cache' \in [Chunk -> Seq(Block)] /\ \A d \in Chunk : Len(cache'[d]) <= PacketBlocks
    BY <1>a, <2>1, <2>2, <2>3, SizeAssumption
  <2>5. /\ \/ part' = [part EXCEPT ![p] = @ + 1] /\ pc' = pc
           \/ part' = [part EXCEPT ![p] = 0] /\ Goto(p, "probe")
        /\ pc[p] = "packet" /\ UNCHANGED <<readsRegion, region, want, copy, at, served, crashes>>
    BY <1>7 DEF SaveBlock
  <2>6. part' \in [Proc -> Nat] /\ pc' \in [Proc -> Steps] /\ want[p] \in Chunk
    <3>1. part \in [Proc -> Nat] /\ pc \in [Proc -> Steps] /\ part[p] + 1 \in Nat
      BY <1>a
    <3>2. part' \in [Proc -> Nat]
      BY <2>5, <3>1
    <3>3. pc' \in [Proc -> Steps]
      BY <2>5, <3>1
    <3> QED BY <1>a, <2>5, <3>2, <3>3
  <2>7. \A q \in Proc : pc'[q] # "idle" => want'[q] \in Chunk
    BY <1>a, <2>5, <2>6
  <2> QED BY <1>a, <2>4, <2>5, <2>6, <2>7
<1>8. ASSUME NEW p \in Proc, Probe(p) \/ Create(p) PROVE Types'
  <2>1. CASE Probe(p)
    BY <1>a, <2>1 DEF Probe
  <2>2. CASE Create(p)
    BY <1>a, <2>2 DEF Create, NoChunks
  <2> QED BY <1>8, <2>1, <2>2
<1>9. ASSUME NEW p \in Proc, WriteBlankHeader(p) PROVE Types'
  BY <1>a, <1>9 DEF WriteBlankHeader, NoChunks
<1>10. ASSUME NEW p \in Proc, OpenRegion(p) PROVE Types'
  <2>1. CASE header = "full" /\ loc[want[p]] = 0
    BY <1>a, <1>10, <2>1 DEF OpenRegion
  <2>2. CASE ~(header = "full" /\ loc[want[p]] = 0)
    BY <1>a, <1>b, <1>10, <2>2 DEF OpenRegion
  <2> QED BY <2>1, <2>2
<1>11. ASSUME NEW p \in Proc, SeekEnd(p) PROVE Types'
  BY <1>a, <1>11 DEF SeekEnd
<1>12. ASSUME NEW p \in Proc, AppendSector(p) PROVE Types'
  <2> DEFINE b == <<want[p], part[p]>>
             i == at[p] + part[p] - 1
  <2>1. want[p] \in Chunk /\ b \in Block /\ Hole \in Block /\ i \in Nat \ {0}
    BY <1>a, <1>12 DEF AppendSector, Shared, Parts, Block
  <2>2. Written(data, i, b) \in Seq(Block)
    <3>1. data \in Seq(Block)
      BY <1>a
    <3> HIDE DEF b, i
    <3> QED BY <2>1, <3>1, WrittenAnywhere
  <2>3. data' = Written(data, i, b)
    BY <1>12 DEF AppendSector
  <2> HIDE DEF b, i
  <2>4. /\ \/ part' = [part EXCEPT ![p] = @ + 1] /\ pc' = pc
           \/ Goto(p, "commit") /\ part' = part
        /\ pc[p] = "append" /\ header' = "full"
        /\ UNCHANGED <<readsRegion, loc, cache, want, copy, at, served, crashes>>
    BY <1>12 DEF AppendSector
  <2>5. data' \in Seq(Block)
    BY <2>2, <2>3
  <2>6. part' \in [Proc -> Nat] /\ pc' \in [Proc -> Steps]
    <3>1. part \in [Proc -> Nat] /\ pc \in [Proc -> Steps] /\ part[p] + 1 \in Nat
      BY <1>a
    <3>2. part' \in [Proc -> Nat]
      BY <2>4, <3>1
    <3>3. pc' \in [Proc -> Steps]
      BY <2>4, <3>1
    <3> QED BY <1>a, <2>4, <3>2, <3>3
  <2>7. \A q \in Proc : pc'[q] # "idle" => want'[q] \in Chunk
    BY <1>a, <2>4, <2>6
  <2> QED BY <1>a, <2>4, <2>5, <2>6, <2>7
<1>13. ASSUME NEW p \in Proc, WriteHeader(p) PROVE Types'
  BY <1>a, <1>13 DEF WriteHeader, Return, NoChunks
<1>14. ASSUME NEW p \in Proc, GiveUp(p) PROVE Types'
  BY <1>a, <1>b, <1>14 DEF GiveUp
<1>15. CASE Restart
  BY <1>a, <1>15, BoundAssumption DEF Restart, NoChunks
<1> QED
  BY <1>1, <1>2, <1>3, <1>4, <1>5, <1>6, <1>7, <1>8, <1>9, <1>10, <1>11, <1>12, <1>13,
     <1>14, <1>15 DEF Next, Read, Save, EnsureStub

(* Every step keeps the parts in their bounds, *)
LEMMA PartsInductive ==
    ASSUME Shared, Next
    PROVE  Parts'
<1> USE DEF Goto
<1>a. Parts
  BY DEF Shared
<1>b. /\ pc \in [Proc -> Steps] /\ want \in [Proc -> Chunk \cup {Nothing}]
      /\ at \in [Proc -> Nat] /\ part \in [Proc -> Nat]
  BY DEF Shared, Types, TypeOK
<1>1. ASSUME NEW p \in Proc,
             \A q \in Proc \ {p} : pc'[q] = pc[q] /\ at'[q] = at[q] /\ part'[q] = part[q],
             pc'[p] = "packet" => part'[p] \in 1..PacketBlocks,
             pc'[p] = "append" => at'[p] # 0 /\ part'[p] # 0
      PROVE  Parts'
  BY <1>a, <1>1 DEF Parts
<1>2. ASSUME NEW p \in Proc, Read(p) PROVE Parts'
  BY <1>b, <1>1, <1>2 DEF Read, Request, Lookup, Fetch, LoadHit, LoadMiss, Return
<1>3. ASSUME NEW p \in Proc, Save(p) PROVE Parts'
  <2>1. CASE SaveOpen(p)
    BY <1>b, <1>1, <2>1, SizeAssumption DEF SaveOpen
  <2>2. CASE SaveBlock(p)
    <3>1. part[p] \in 1..PacketBlocks /\ PacketBlocks \in Nat /\ pc[p] = "packet"
          /\ at' = at
      BY <1>a, <2>2, SizeAssumption DEF SaveBlock, Parts
    <3>2. CASE part[p] < PacketBlocks
      <4>1. part' = [part EXCEPT ![p] = @ + 1] /\ pc' = pc
        BY <2>2, <3>2 DEF SaveBlock
      <4>2. part'[p] \in 1..PacketBlocks
        BY <1>b, <3>1, <3>2, <4>1
      <4>3. pc'[p] = "packet"
        BY <3>1, <4>1
      <4>4. \A q \in Proc \ {p} : pc'[q] = pc[q] /\ at'[q] = at[q] /\ part'[q] = part[q]
        BY <1>b, <3>1, <4>1
      <4> QED BY <1>1, <4>2, <4>3, <4>4
    <3>3. CASE ~(part[p] < PacketBlocks)
      <4>1. part' = [part EXCEPT ![p] = 0] /\ pc' = [pc EXCEPT ![p] = "probe"]
        BY <2>2, <3>3 DEF SaveBlock
      <4> QED BY <1>b, <1>1, <3>1, <4>1
    <3> QED BY <3>2, <3>3
  <2> QED BY <1>3, <2>1, <2>2 DEF Save
<1>4. ASSUME NEW p \in Proc, Probe(p) \/ Create(p) \/ WriteBlankHeader(p) \/ OpenRegion(p)
      PROVE  Parts'
  BY <1>b, <1>1, <1>4 DEF Probe, Create, WriteBlankHeader, OpenRegion, Return
<1>5. ASSUME NEW p \in Proc, SeekEnd(p) PROVE Parts'
  <2>1. Len(data) + 1 # 0
    OBVIOUS
  <2> QED BY <1>b, <1>1, <1>5, <2>1 DEF SeekEnd
<1>6. ASSUME NEW p \in Proc, AppendSector(p) PROVE Parts'
  <2>1. at[p] # 0 /\ part[p] \in Nat /\ pc[p] = "append" /\ at' = at
    BY <1>a, <1>b, <1>6 DEF AppendSector, Parts
  <2>2. CASE part[p] < Size[want[p]]
    <3>1. part' = [part EXCEPT ![p] = @ + 1] /\ pc' = pc
      BY <1>6, <2>2 DEF AppendSector
    <3>2. pc'[p] = "append" /\ at'[p] # 0 /\ part'[p] # 0
      BY <1>b, <2>1, <3>1
    <3>3. \A q \in Proc \ {p} : pc'[q] = pc[q] /\ at'[q] = at[q] /\ part'[q] = part[q]
      BY <1>b, <2>1, <3>1
    <3> QED BY <1>1, <3>2, <3>3
  <2>3. CASE ~(part[p] < Size[want[p]])
    <3>1. part' = part /\ pc' = [pc EXCEPT ![p] = "commit"]
      BY <1>6, <2>3 DEF AppendSector
    <3> QED BY <1>b, <1>1, <2>1, <3>1
  <2> QED BY <2>2, <2>3
<1>7. ASSUME NEW p \in Proc, WriteHeader(p) \/ GiveUp(p) PROVE Parts'
  BY <1>b, <1>1, <1>7 DEF WriteHeader, GiveUp, Return
<1>8. CASE Restart
  BY <1>8 DEF Restart, Parts
<1> QED BY <1>2, <1>3, <1>4, <1>5, <1>6, <1>7, <1>8 DEF Next, EnsureStub

(* and no worker writes a block into the cache file of another chunk. *)
LEMMA OwnBlocksInductive ==
    ASSUME Shared, Next
    PROVE  OwnBlocks'
<1> USE DEF Shared, Types, TypeOK
<1>1. ASSUME cache' = cache PROVE OwnBlocks'
  BY <1>1 DEF OwnBlocks
<1>2. ASSUME NEW p \in Proc, SaveOpen(p) PROVE OwnBlocks'
  <2>1. want[p] \in Chunk /\ cache' = [cache EXCEPT ![want[p]] = <<>>]
    BY <1>2 DEF SaveOpen
  <2> QED BY <2>1 DEF OwnBlocks
<1>3. ASSUME NEW p \in Proc, SaveBlock(p) PROVE OwnBlocks'
  <2> DEFINE c == want[p]
             i == part[p]
             b == <<c, i>>
             blocks == cache[c]
             w == Written(blocks, i, b)
  <2>1. c \in Chunk /\ i \in Nat \ {0} /\ b \in Block /\ Hole \in Block /\ blocks \in Seq(Block)
    BY <1>3, SizeAssumption DEF SaveBlock, Parts, Block
  <2>2. cache' = [cache EXCEPT ![c] = w] /\ cache \in [Chunk -> Seq(Block)]
    BY <1>3 DEF SaveBlock
  <2>3. \A j \in 1..Len(blocks) : blocks[j] \in {<<c, j>>, Hole}
    BY <2>1 DEF OwnBlocks
  <2> HIDE DEF c, i, blocks
  <2>4. ASSUME NEW j \in 1..Len(w) PROVE w[j] \in {<<c, j>>, Hole}
    <3>1. w[j] = IF j = i THEN b ELSE IF j <= Len(blocks) THEN blocks[j] ELSE Hole
      <4> HIDE DEF b
      <4> QED BY <2>1, WrittenAnywhere
    <3>2. j \in Nat \ {0} /\ Len(blocks) \in Nat
      BY <2>1
    <3>3. j <= Len(blocks) => blocks[j] \in {<<c, j>>, Hole}
      BY <2>3, <3>2
    <3> QED BY <3>1, <3>3
  <2> HIDE DEF w
  <2>5. ASSUME NEW d \in Chunk, NEW k \in 1..Len(cache'[d]) PROVE cache'[d][k] \in {<<d, k>>, Hole}
    <3>1. CASE d = c
      <4>1. cache'[d] = w
        BY <2>2, <3>1
      <4> QED BY <2>4, <3>1, <4>1
    <3>2. CASE d # c
      <4>1. cache'[d] = cache[d]
        BY <2>2, <3>2
      <4> QED BY <4>1 DEF OwnBlocks
    <3> QED BY <3>1, <3>2
  <2> QED BY <2>5 DEF OwnBlocks
<1>4. ASSUME NEW p \in Proc, Read(p) \/ EnsureStub(p) \/ GiveUp(p) PROVE cache' = cache
  BY <1>4 DEF Read, Request, Lookup, Fetch, LoadHit, LoadMiss, EnsureStub, Probe, Create,
              WriteBlankHeader, OpenRegion, SeekEnd, AppendSector, WriteHeader, GiveUp
<1>5. Restart => cache' = cache
  BY DEF Restart
<1> QED BY <1>1, <1>2, <1>3, <1>4, <1>5 DEF Next, Save

(* Where the steps lead, and which of them leave the files alone. *)
LEMMA Control ==
    ASSUME Types, NEW p \in Proc
    PROVE  /\ Read(p) => /\ UNCHANGED <<region, cache>>
                         /\ pc'[p] \in {"lookup", "fetch", "idle", "load", "probe", "save"}
           /\ SaveOpen(p) => UNCHANGED region /\ pc'[p] = "packet"
           /\ SaveBlock(p) => UNCHANGED region /\ pc'[p] \in {"packet", "probe"}
           /\ Probe(p) => UNCHANGED <<region, cache>> /\ pc'[p] \in {"create", "open"}
           /\ Create(p) => cache' = cache /\ pc'[p] = "blank"
           /\ WriteBlankHeader(p) => cache' = cache /\ pc'[p] = "open"
           /\ OpenRegion(p) => UNCHANGED <<region, cache>> /\ pc'[p] \in {"seek", "idle"}
           /\ SeekEnd(p) => UNCHANGED <<region, cache>> /\ pc'[p] = "append"
           /\ AppendSector(p) => cache' = cache /\ pc'[p] \in {"append", "commit"}
           /\ WriteHeader(p) => cache' = cache /\ pc'[p] = "idle"
           /\ GiveUp(p) => UNCHANGED <<region, cache>> /\ pc'[p] = "idle"
<1> USE DEF Types, TypeOK, Goto, region
<1>1. Read(p) => UNCHANGED <<region, cache>>
  BY DEF Read, Request, Lookup, Fetch, LoadHit, LoadMiss
<1>2. Read(p) => pc'[p] \in {"lookup", "fetch", "idle", "load", "probe", "save"}
  BY DEF Read, Request, Lookup, Fetch, LoadHit, LoadMiss, Return
<1>3. /\ SaveOpen(p) => UNCHANGED region /\ pc'[p] = "packet"
      /\ SaveBlock(p) => UNCHANGED region /\ pc'[p] \in {"packet", "probe"}
  BY DEF SaveOpen, SaveBlock
<1>4. /\ Probe(p) => UNCHANGED <<region, cache>> /\ pc'[p] \in {"create", "open"}
      /\ Create(p) => cache' = cache /\ pc'[p] = "blank"
      /\ WriteBlankHeader(p) => cache' = cache /\ pc'[p] = "open"
  BY DEF Probe, Create, WriteBlankHeader
<1>5. /\ OpenRegion(p) => UNCHANGED <<region, cache>> /\ pc'[p] \in {"seek", "idle"}
      /\ SeekEnd(p) => UNCHANGED <<region, cache>> /\ pc'[p] = "append"
  BY DEF OpenRegion, SeekEnd, Return
<1>6. /\ AppendSector(p) => cache' = cache /\ pc'[p] \in {"append", "commit"}
      /\ WriteHeader(p) => cache' = cache /\ pc'[p] = "idle"
      /\ GiveUp(p) => UNCHANGED <<region, cache>> /\ pc'[p] = "idle"
  BY DEF AppendSector, WriteHeader, GiveUp, Return
<1> QED BY <1>1, <1>2, <1>3, <1>4, <1>5, <1>6

(* A restart touches no file, and every worker is idle after it. *)
LEMMA RestartControl ==
    ASSUME Restart
    PROVE  UNCHANGED <<region, cache>> /\ \A p \in Proc : pc'[p] = "idle"
BY DEF Restart, region

(* Chunks come only after the header. *)
LEMMA EmptiesInductive ==
    ASSUME OneWorker, IInv, Next
    PROVE  Empties'
<1> USE DEF OneWorker, Empties, region
<1>a. Types /\ Empties /\ Saving
  BY DEF IInv
<1>b. ASSUME NEW p \in Proc, UNCHANGED region, pc'[p] \notin {"create", "blank"}
      PROVE  Empties'
  BY <1>a, <1>b
<1>1. ASSUME NEW p \in Proc, Read(p) \/ SaveOpen(p) \/ SaveBlock(p) \/ OpenRegion(p) \/ SeekEnd(p) \/ GiveUp(p)
      PROVE  Empties'
  <2>1. UNCHANGED region /\ pc'[p] \notin {"create", "blank"}
    BY <1>a, <1>1, Control
  <2> QED BY <1>b, <2>1
<1>2. ASSUME NEW p \in Proc, Probe(p)
      PROVE  Empties'
  BY <1>a, <1>2 DEF Probe, Goto, Types, TypeOK
<1>3. ASSUME NEW p \in Proc, Create(p)
      PROVE  Empties'
  BY <1>a, <1>3, Control DEF Create
<1>4. ASSUME NEW p \in Proc, WriteBlankHeader(p) \/ AppendSector(p) \/ WriteHeader(p)
      PROVE  Empties'
  <2>1. header' = "full" /\ pc'[p] \notin {"create", "blank"}
    BY <1>a, <1>4, Control DEF WriteBlankHeader, AppendSector, WriteHeader
  <2> QED BY <2>1
<1>5. CASE Restart
  BY <1>a, <1>5, RestartControl
<1> QED BY <1>1, <1>2, <1>3, <1>4, <1>5 DEF Next, Save, EnsureStub

(* A cache file grows along its packet. *)
LEMMA BeginningsInductive ==
    ASSUME OneWorker, IInv, Next
    PROVE  Beginnings'
<1> USE DEF OneWorker, Beginnings
<1>a. Types /\ Beginnings
  BY DEF IInv
<1>1. ASSUME NEW p \in Proc, Read(p) \/ EnsureStub(p) \/ GiveUp(p)
      PROVE  Beginnings'
  <2>1. cache' = cache /\ pc'[p] # "packet"
    BY <1>a, <1>1, Control DEF EnsureStub
  <2> QED BY <1>a, <2>1
<1>2. ASSUME NEW p \in Proc, SaveOpen(p)
      PROVE  Beginnings'
  BY <1>a, <1>2, SizeAssumption DEF SaveOpen, Types, TypeOK
<1>3. ASSUME NEW p \in Proc, SaveBlock(p)
      PROVE  Beginnings'
  <2> DEFINE c == want[p]
             b == <<c, part[p]>>
  <2>1. c \in Chunk /\ cache[c] \in Seq(Block) /\ b \in Block
    BY <1>a, <1>3 DEF SaveBlock, Types, TypeOK, Block
  <2>2. part[p] = Len(cache[c]) + 1 /\ part[p] \in 1..PacketBlocks
    BY <1>a, <1>3, <2>1 DEF SaveBlock
  <2>3. cache' = [cache EXCEPT ![c] = Written(cache[c], part[p], b)]
    BY <1>3 DEF SaveBlock
  <2> DEFINE w == Written(cache[c], part[p], b)
  <2>4. /\ Len(w) = part[p]
        /\ \A k \in 1..Len(cache[c]) : w[k] = cache[c][k]
        /\ w[part[p]] = b
    <3> HIDE DEF b, c
    <3>1. /\ Len(Written(cache[c], part[p], b)) = part[p]
          /\ \A k \in 1..Len(cache[c]) : Written(cache[c], part[p], b)[k] = cache[c][k]
          /\ Written(cache[c], part[p], b)[part[p]] = b
      BY <2>1, <2>2, WrittenAtEnd
    <3> QED BY <3>1
  <2>5. \A k \in 1..part[p] : w[k] = <<c, k>>
    <3> HIDE DEF w
    <3> SUFFICES ASSUME NEW k \in 1..part[p] PROVE w[k] = <<c, k>>
      OBVIOUS
    <3>1. Len(cache[c]) \in Nat
      BY <2>1
    <3>2. CASE k = part[p]
      BY <2>4, <3>2
    <3>3. CASE k # part[p]
      <4>1. k \in 1..Len(cache[c])
        BY <2>2, <3>1, <3>3
      <4>2. cache[c][k] = <<c, k>>
        BY <1>a, <2>1, <4>1
      <4> QED BY <2>4, <4>1, <4>2
    <3> QED BY <3>2, <3>3
  <2>6. pc'[p] = "packet" => part'[p] = part[p] + 1 /\ part[p] < PacketBlocks
    BY <1>a, <1>3 DEF SaveBlock, Goto, Types, TypeOK
  <2>7. want' = want
    BY <1>3 DEF SaveBlock
  <2>8. cache'[c] = w /\ \A d \in Chunk \ {c} : cache'[d] = cache[d]
    BY <1>a, <2>1, <2>3 DEF Types, TypeOK
  <2> HIDE DEF b, c, w
  <2>9. \A d \in Chunk : \A k \in 1..Len(cache'[d]) : cache'[d][k] = <<d, k>>
    BY <1>a, <2>4, <2>5, <2>8
  <2>10. \A q \in Proc : pc'[q] = "packet" =>
            part'[q] \in 1..PacketBlocks /\ Len(cache'[want'[q]]) = part'[q] - 1
    BY <2>2, <2>4, <2>6, <2>7, <2>8, SizeAssumption DEF c
  <2> QED BY <2>9, <2>10
<1>4. CASE Restart
  BY <1>a, <1>4, RestartControl
<1> QED BY <1>1, <1>2, <1>3, <1>4 DEF Next, Save

(* The table does not change between a lookup and its read. *)
LEMMA ReadingInductive ==
    ASSUME OneWorker, IInv, Next
    PROVE  Reading'
<1> USE DEF OneWorker, Reading
<1>a. Types
  BY DEF IInv
<1>1. ASSUME NEW p \in Proc, Lookup(p)
      PROVE  Reading'
  BY <1>a, <1>1 DEF Lookup, Goto, region, Types, TypeOK
<1>2. ASSUME NEW p \in Proc,
             Request(p) \/ Fetch(p) \/ LoadHit(p) \/ LoadMiss(p) \/ Save(p) \/ EnsureStub(p) \/ GiveUp(p)
      PROVE  Reading'
  <2>1. pc'[p] # "fetch"
    <3>1. CASE Request(p) \/ Fetch(p) \/ LoadHit(p) \/ LoadMiss(p)
      BY <1>a, <3>1 DEF Request, Fetch, LoadHit, LoadMiss, Return, Goto, Types, TypeOK
    <3>2. CASE Save(p) \/ EnsureStub(p) \/ GiveUp(p)
      BY <1>a, <3>2, Control DEF Save, EnsureStub
    <3> QED BY <1>2, <3>1, <3>2
  <2> QED BY <2>1
<1>3. CASE Restart
  BY <1>3, RestartControl
<1> QED BY <1>1, <1>2, <1>3 DEF Next, Read

(* Every chunk has a size. *)
LEMMA SizeIsNat == \A c \in Chunk : Size[c] \in Nat /\ Size[c] > 0
BY SizeAssumption

(* The whole data of a chunk stay whole when the file grows. *)
LEMMA WholeKept ==
    ASSUME Types, Types', NEW c \in Chunk, NEW i \in Nat, WholeAt(c, i),
           Len(data) <= Len(data'), \A k \in 1..Len(data) : data'[k] = data[k]
    PROVE  WholeAt(c, i)'
<1>a. data \in Seq(Block) /\ data' \in Seq(Block)
  BY DEF Types, TypeOK
<1>1. Size[c] \in Nat /\ Len(data) \in Nat /\ Len(data') \in Nat
  BY <1>a, SizeIsNat, LenProperties
<1>2. i > 0 /\ i + Size[c] - 1 <= Len(data')
  BY <1>1 DEF WholeAt
<1>3. ASSUME NEW k \in 1..Size[c]
      PROVE  data'[i + k - 1] = <<c, k>>
  <2> DEFINE n == Size[c]
             m == Len(data)
  <2>1. i > 0 /\ i + n - 1 <= m /\ n \in Nat /\ m \in Nat /\ k \in 1..n
    BY <1>1 DEF WholeAt
  <2> HIDE DEF n, m
  <2>2. i + k - 1 \in 1..m
    BY <2>1
  <2> QED BY <2>2 DEF WholeAt, m
<1> QED BY <1>2, <1>3 DEF WholeAt

(* A sector goes to the end of the file, and the file grows by it. *)
LEMMA Appended ==
    ASSUME IInv, NEW p \in Proc, AppendSector(p)
    PROVE  /\ Len(data') = Len(data) + 1 /\ Len(data) \in Nat
           /\ \A k \in 1..Len(data) : data'[k] = data[k]
           /\ data'[at[p] + part[p] - 1] = <<want[p], part[p]>>
           /\ want[p] \in Chunk /\ at[p] \in Nat /\ part[p] \in Nat
<1>1. pc[p] = "append" /\ data' = Written(data, at[p] + part[p] - 1, <<want[p], part[p]>>)
  BY DEF AppendSector
<1>2. want[p] \in Chunk /\ part[p] \in Nat /\ at[p] \in Nat /\ data \in Seq(Block) /\ Len(data) \in Nat
  BY <1>1 DEF IInv, Types, TypeOK
<1> DEFINE b == <<want[p], part[p]>>
           i == at[p] + part[p] - 1
<1>3. i = Len(data) + 1 /\ i \in Nat
  BY <1>1, <1>2 DEF IInv, Saving
<1>4. b \in Block
  BY <1>2 DEF Block
<1>5. /\ Len(Written(data, i, b)) = i
      /\ \A k \in 1..Len(data) : Written(data, i, b)[k] = data[k]
      /\ Written(data, i, b)[i] = b
  <2> HIDE DEF b, i
  <2> QED BY <1>2, <1>3, <1>4, WrittenAtEnd
<1> QED BY <1>1, <1>2, <1>3, <1>5

(* A save appends its chunk in order, and its copy of the table stays true. *)
LEMMA SavingInductive ==
    ASSUME OneWorker, IInv, Next, Types'
    PROVE  Saving'
<1> USE DEF OneWorker, Goto, region
<1>a. Types /\ Saving
  BY DEF IInv
<1>1. ASSUME NEW p \in Proc, pc'[p] \notin {"seek", "append", "commit"}
      PROVE  Saving'
  BY <1>1 DEF Saving
<1>2. ASSUME NEW p \in Proc,
             Read(p) \/ Save(p) \/ Probe(p) \/ Create(p) \/ WriteBlankHeader(p) \/ WriteHeader(p) \/ GiveUp(p)
      PROVE  Saving'
  <2>1. pc'[p] \notin {"seek", "append", "commit"}
    BY <1>a, <1>2, Control DEF Save
  <2> QED BY <1>1, <2>1
<1>3. ASSUME NEW p \in Proc, OpenRegion(p)
      PROVE  Saving'
  <2>1. CASE header = "full" /\ loc[want[p]] = 0
    BY <1>a, <1>3, <2>1 DEF OpenRegion, Saving, Types, TypeOK
  <2>2. CASE ~(header = "full" /\ loc[want[p]] = 0)
    <3>1. pc'[p] = "idle"
      BY <1>a, <1>3, <2>2 DEF OpenRegion, Return, Types, TypeOK
    <3> QED BY <1>1, <3>1
  <2> QED BY <2>1, <2>2
<1>4. ASSUME NEW p \in Proc, SeekEnd(p)
      PROVE  Saving'
  <2>1. /\ pc[p] = "seek" /\ pc'[p] = "append" /\ at'[p] = Len(data) + 1 /\ part'[p] = 1
        /\ UNCHANGED <<header, loc, data, want, copy>>
    BY <1>a, <1>4 DEF SeekEnd, Types, TypeOK
  <2>2. want[p] \in Chunk /\ data \in Seq(Block)
    BY <1>a, <2>1 DEF Types, TypeOK
  <2>3. Len(data) \in Nat /\ Size[want[p]] \in Nat /\ Size[want[p]] > 0
    BY <2>2, SizeIsNat, LenProperties
  <2> QED BY <1>a, <2>1, <2>3 DEF Saving
<1>5. ASSUME NEW p \in Proc, AppendSector(p)
      PROVE  Saving'
  <2> DEFINE c == want[p]
  <2>1. /\ pc[p] = "append" /\ header' = "full"
        /\ UNCHANGED <<loc, want, copy, at>>
    BY <1>5 DEF AppendSector
  <2>2. /\ header = "full" /\ copy[p] = loc /\ loc[c] = 0 /\ at[p] # 0 /\ part[p] \in 1..Size[c]
        /\ Len(data) = at[p] + part[p] - 2
        /\ \A k \in 1..(part[p] - 1) : data[at[p] + k - 1] = <<c, k>>
    BY <1>a, <2>1 DEF Saving
  <2>3. /\ Len(data') = Len(data) + 1 /\ Len(data) \in Nat
        /\ \A k \in 1..Len(data) : data'[k] = data[k]
        /\ data'[at[p] + part[p] - 1] = <<c, part[p]>>
        /\ c \in Chunk /\ at[p] \in Nat /\ part[p] \in Nat
    BY <1>5, Appended
  <2>4. Size[c] \in Nat /\ Size[c] > 0
    BY <2>3, SizeIsNat
  <2>5. ASSUME NEW k \in 1..part[p]
        PROVE  data'[at[p] + k - 1] = <<c, k>>
    <3>1. CASE k = part[p]
      BY <2>3, <3>1
    <3>2. CASE k # part[p]
      <4>1. k \in 1..(part[p] - 1) /\ at[p] + k - 1 \in 1..Len(data)
        BY <2>2, <2>3, <3>2
      <4> QED BY <2>2, <2>3, <4>1
    <3> QED BY <3>1, <3>2
  <2>6. CASE part[p] < Size[c]
    <3>1. pc'[p] = "append" /\ part'[p] = part[p] + 1
      BY <1>a, <1>5, <2>1, <2>6 DEF AppendSector, Types, TypeOK
    <3>2. part'[p] \in 1..Size[c] /\ Len(data') = at[p] + part'[p] - 2 /\ part'[p] - 1 = part[p]
      <4>1. part[p] \in Nat /\ Size[c] \in Nat /\ at[p] \in Nat /\ Len(data) \in Nat
        BY <2>3, <2>4
      <4>2. Len(data') = Len(data) + 1 /\ Len(data) = at[p] + part[p] - 2
        BY <2>2, <2>3
      <4> DEFINE k == part[p]
                 l == part'[p]
                 n == Size[c]
                 a == at[p]
                 m == Len(data)
      <4>3. k < n /\ l = k + 1 /\ k \in Nat /\ n \in Nat /\ a \in Nat /\ m \in Nat
            /\ Len(data') = m + 1 /\ m = a + k - 2
        BY <2>6, <3>1, <4>1, <4>2
      <4> HIDE DEF c, k, l, n, a, m
      <4>4. l \in 1..n /\ Len(data') = a + l - 2 /\ l - 1 = k
        BY <4>3
      <4> QED BY <4>4 DEF k, l, n, a
    <3> QED BY <2>1, <2>2, <2>5, <3>1, <3>2 DEF Saving
  <2>7. CASE ~(part[p] < Size[c])
    <3>1. pc'[p] = "commit" /\ part[p] = Size[c]
      BY <1>a, <1>5, <2>2, <2>3, <2>4, <2>7 DEF AppendSector, Types, TypeOK
    <3>2. WholeAt(c, at[p])'
      <4>1. at[p] > 0 /\ at[p] + Size[c] - 1 <= Len(data')
        BY <2>2, <2>3, <2>4, <3>1
      <4>2. \A k \in 1..Size[c] : data'[at[p] + k - 1] = <<c, k>>
        BY <2>5, <3>1
      <4> QED BY <2>1, <4>1, <4>2 DEF WholeAt
    <3> QED BY <2>1, <2>2, <3>1, <3>2 DEF Saving
  <2> QED BY <2>6, <2>7
<1>6. CASE Restart
  BY <1>6, RestartControl DEF Saving
<1> QED BY <1>2, <1>3, <1>4, <1>5, <1>6 DEF Next, EnsureStub

(* An entry is written after the whole of its chunk. *)
LEMMA EntriesInductive ==
    ASSUME OneWorker, IInv, Next, Types'
    PROVE  EntriesReadable'
<1> USE DEF EntriesReadable, region
<1>a. Types /\ Empties /\ Saving /\ EntriesReadable
  BY DEF IInv
<1>b. ASSUME UNCHANGED region
      PROVE  EntriesReadable'
  BY <1>a, <1>b DEF Readable, WholeAt
<1>1. ASSUME NEW p \in Proc,
             Read(p) \/ Save(p) \/ Probe(p) \/ OpenRegion(p) \/ SeekEnd(p) \/ GiveUp(p)
      PROVE  EntriesReadable'
  <2>1. UNCHANGED region
    BY <1>a, <1>1, Control DEF Save
  <2> QED BY <1>b, <2>1
<1>2. ASSUME NEW p \in Proc, Create(p) \/ WriteBlankHeader(p)
      PROVE  EntriesReadable'
  BY <1>2 DEF Create, WriteBlankHeader, NoChunks
<1>3. ASSUME NEW p \in Proc, AppendSector(p)
      PROVE  EntriesReadable'
  <2>1. header' = "full" /\ loc' = loc
    BY <1>3 DEF AppendSector
  <2>2. ASSUME NEW c \in Chunk, loc[c] # 0
        PROVE  WholeAt(c, loc[c])'
    <3>1. WholeAt(c, loc[c]) /\ loc[c] \in Nat
      BY <1>a, <2>2 DEF Readable, Types, TypeOK
    <3>2. Len(data) <= Len(data') /\ \A k \in 1..Len(data) : data'[k] = data[k]
      BY <1>3, Appended
    <3>3. PICK i \in Nat : i = loc[c]
      BY <3>1
    <3>4. WholeAt(c, i)'
      BY <1>a, <3>1, <3>2, <3>3, WholeKept
    <3> QED BY <2>1, <3>3, <3>4 DEF WholeAt
  <2> QED BY <2>1, <2>2 DEF Readable
<1>4. ASSUME NEW p \in Proc, WriteHeader(p)
      PROVE  EntriesReadable'
  <2>1. /\ pc[p] = "commit" /\ header' = "full" /\ data' = data
        /\ loc' = [copy[p] EXCEPT ![want[p]] = at[p]]
    BY <1>4 DEF WriteHeader
  <2>2. want[p] \in Chunk /\ loc \in [Chunk -> Nat] /\ copy[p] = loc /\ WholeAt(want[p], at[p])
    BY <1>a, <2>1 DEF Saving, Types, TypeOK
  <2>3. ASSUME NEW c \in Chunk, loc'[c] # 0
        PROVE  WholeAt(c, loc[c])'
    <3>1. CASE c = want[p]
      BY <2>1, <2>2, <3>1 DEF WholeAt
    <3>2. CASE c # want[p]
      <4>1. loc'[c] = loc[c] /\ WholeAt(c, loc[c])
        BY <1>a, <2>1, <2>2, <2>3, <3>2 DEF Readable
      <4> QED BY <2>1, <4>1 DEF WholeAt
    <3> QED BY <3>1, <3>2
  <2> QED BY <2>1, <2>3 DEF Readable
<1>5. CASE Restart
  BY <1>b, <1>5, RestartControl
<1> QED BY <1>1, <1>2, <1>3, <1>4, <1>5 DEF Next, EnsureStub

-----------------------------------------------------------------------------
(* The theorems.                                                           *)

(* One step keeps the invariant. *)
LEMMA StepInvariant == OneWorker /\ IInv /\ [Next]_vars => IInv'
<1> SUFFICES ASSUME OneWorker, IInv, [Next]_vars PROVE IInv'
  OBVIOUS
<1>1. CASE Next
  <2>1. Types'
    <3>1. Parts
      BY DEF IInv, Beginnings, Saving, Parts
    <3>2. OwnBlocks
      BY DEF IInv, Beginnings, OwnBlocks
    <3> QED BY <1>1, <3>1, <3>2, TypesInductive DEF IInv, Shared
  <2> QED
    BY <1>1, <2>1, EmptiesInductive, BeginningsInductive, ReadingInductive, SavingInductive,
       EntriesInductive DEF IInv
<1>2. CASE UNCHANGED vars
  <2> USE <1>2 DEF vars, region, worker
  <2>1. Types' /\ Empties'
    BY DEF IInv, Types, TypeOK, Empties
  <2>2. Beginnings' /\ Reading'
    BY DEF IInv, Beginnings, Reading
  <2>3. Saving' /\ EntriesReadable'
    BY DEF IInv, Saving, EntriesReadable, Readable, WholeAt
  <2> QED BY <2>1, <2>2, <2>3 DEF IInv
<1> QED BY <1>1, <1>2

(* With one worker the invariant holds in every state, whatever the chunks, *)
(* their sizes and the number of deaths.                                    *)
THEOREM Invariance == ASSUME OneWorker PROVE Spec => []IInv
<1>1. Init => IInv
  BY InitInvariant
<1>2. IInv /\ [Next]_vars => IInv'
  BY StepInvariant
<1> QED BY <1>1, <1>2, PTL DEF Spec

(* Any number of workers, in any order and with any number of deaths,      *)
(* keeps the types and the cache files to their own packets.               *)
THEOREM SharedInvariance == Spec => []Shared
<1>1. Init => Shared
  <2> SUFFICES ASSUME Init PROVE Shared
    OBVIOUS
  <2>1. Types
    BY InitInvariant DEF IInv
  <2>2. Parts /\ OwnBlocks
    BY DEF Init, Parts, OwnBlocks
  <2> QED BY <2>1, <2>2 DEF Shared
<1>2. Shared /\ [Next]_vars => Shared'
  <2> SUFFICES ASSUME Shared, [Next]_vars PROVE Shared'
    OBVIOUS
  <2>1. CASE Next
    <3>1. Types' /\ Parts' /\ OwnBlocks'
      BY <2>1, TypesInductive, PartsInductive, OwnBlocksInductive
    <3> QED BY <3>1 DEF Shared
  <2>2. CASE UNCHANGED vars
    <3> USE <2>2 DEF vars, region, worker
    <3>1. Types'
      BY DEF Shared, Types, TypeOK
    <3>2. Parts' /\ OwnBlocks'
      BY DEF Shared, Parts, OwnBlocks
    <3> QED BY <3>1, <3>2 DEF Shared
  <2> QED BY <2>1, <2>2
<1> QED BY <1>1, <1>2, PTL DEF Spec

(* The types of the variables; no cache file outgrows its packet, however  *)
(* many workers write to it.                                               *)
THEOREM TypeCorrect == Spec => []TypeOK
<1>1. Shared => TypeOK
  BY DEF Shared, Types
<1> QED BY <1>1, SharedInvariance, PTL

(* A cached packet that is as long as it should be and has no hole is the  *)
(* packet of its chunk, block by block, whoever wrote it: what is sent     *)
(* from the cache may be broken, and is never another chunk.               *)
THEOREM CachedPacketIsOwn ==
    Spec => [](\A c \in Chunk : Hit(c) /\ Packet(c) = c =>
                 \A k \in 1..PacketBlocks : cache[c][k] = <<c, k>>)
<1>1. ASSUME Shared, NEW c \in Chunk, Hit(c), Packet(c) = c, NEW k \in 1..PacketBlocks
      PROVE  cache[c][k] = <<c, k>>
  <2>1. c # Broken
    BY NamesAssumption
  <2>2. Len(cache[c]) = PacketBlocks /\ \A j \in 1..Len(cache[c]) : cache[c][j] # Hole
    BY <1>1, <2>1 DEF Packet, Hit
  <2>3. cache[c][k] \in {<<c, k>>, Hole}
    BY <1>1, <2>2 DEF Shared, OwnBlocks
  <2> QED BY <2>2, <2>3
<1>2. Shared => \A c \in Chunk : Hit(c) /\ Packet(c) = c =>
                  \A k \in 1..PacketBlocks : cache[c][k] = <<c, k>>
  BY <1>1
<1> QED BY <1>2, SharedInvariance, PTL

(* A location in the region file always points to the whole of its chunk, *)
(* also in the middle of a save and after a death.                        *)
THEOREM Entries == ASSUME OneWorker PROVE Spec => []EntriesReadable
<1>1. IInv => EntriesReadable
  BY DEF IInv
<1> QED BY <1>1, Invariance, PTL

(* What can be read back is what has a location. *)
LEMMA StoredIsLocated ==
    ASSUME IInv
    PROVE  {c \in Chunk : Readable(c)} = {c \in Chunk : loc[c] # 0}
<1>1. ASSUME NEW c \in Chunk, Readable(c)
      PROVE  loc[c] # 0
  BY <1>1 DEF Readable, WholeAt
<1> QED BY <1>1 DEF IInv, EntriesReadable

(* Whatever is sent is the chunk that was asked for. *)
LEMMA SentIsAsked ==
    ASSUME IInv, NEW p \in Proc, Read(p), served' # served
    PROVE  want[p] \in Chunk /\ Send(p, want[p]) /\ UNCHANGED region
<1>1. pc[p] # "idle" => want[p] \in Chunk
  BY DEF IInv, Types
<1>2. CASE Fetch(p)
  <2>1. pc[p] = "fetch" /\ UNCHANGED region
    BY <1>2 DEF Fetch
  <2>2. at[p] = loc[want[p]] /\ at[p] # 0 /\ want[p] \in Chunk
    BY <1>1, <2>1 DEF IInv, Reading
  <2>3. PICK c \in Chunk : WholeAt(c, at[p]) /\ Send(p, c)
    BY <1>2 DEF Fetch
  <2>4. WholeAt(want[p], at[p])
    BY <2>2 DEF IInv, EntriesReadable, Readable
  <2>5. data[at[p] + 1 - 1] = <<want[p], 1>> /\ data[at[p] + 1 - 1] = <<c, 1>>
    <3>1. 1 \in 1..Size[want[p]] /\ 1 \in 1..Size[c]
      BY <2>2, <2>3, SizeIsNat
    <3> QED BY <2>3, <2>4, <3>1 DEF WholeAt
  <2> QED BY <2>1, <2>2, <2>3, <2>5
<1>3. CASE LoadHit(p)
  <2>1. /\ want[p] \in Chunk /\ Hit(want[p]) /\ UNCHANGED region
        /\ Send(p, Packet(want[p]))
    BY <1>1, <1>3 DEF LoadHit
  <2>2. ASSUME NEW k \in 1..Len(cache[want[p]])
        PROVE  cache[want[p]][k] # Hole
    <3>1. cache[want[p]][k] = <<want[p], k>> /\ k \in Nat
      BY <2>1 DEF IInv, Beginnings, Types, TypeOK
    <3> QED BY <2>1, <3>1, NamesAssumption
  <2>3. Packet(want[p]) = want[p]
    BY <2>1, <2>2 DEF Packet, Hit
  <2> QED BY <2>1, <2>3
<1>4. CASE LoadMiss(p)
  BY <1>1, <1>4 DEF LoadMiss
<1>5. CASE Request(p) \/ Lookup(p)
  BY <1>5 DEF Request, Lookup
<1> QED BY <1>2, <1>3, <1>4, <1>5 DEF Read

(* A step of the server is a step of ChunkStore or changes nothing of it. *)
LEMMA StepRefines ==
    ASSUME OneWorker, IInv, IInv', [Next]_vars
    PROVE  [Store!Next]_(<<{c \in Chunk : Readable(c)}, served>>)
<1> DEFINE located == {c \in Chunk : loc[c] # 0}
<1>a. {c \in Chunk : Readable(c)} = located
  BY StoredIsLocated
<1>b. {c \in Chunk : Readable(c)}' = located'
  <2>1. ASSUME NEW c \in Chunk, Readable(c)' PROVE loc'[c] # 0
    BY <2>1 DEF Readable, WholeAt
  <2> QED BY <2>1 DEF IInv, EntriesReadable
<1>c. ASSUME UNCHANGED <<loc, served>>
      PROVE  [Store!Next]_(<<{c \in Chunk : Readable(c)}, served>>)
  BY <1>a, <1>b, <1>c
<1>1. ASSUME NEW p \in Proc, Read(p)
      PROVE  [Store!Next]_(<<{c \in Chunk : Readable(c)}, served>>)
  <2>1. loc' = loc
    BY <1>1, Control DEF region, IInv
  <2>2. CASE served' = served
    BY <1>c, <2>1, <2>2
  <2>3. CASE served' # served
    <3>1. want[p] \in Chunk /\ Send(p, want[p])
      BY <1>1, <2>3, SentIsAsked
    <3>2. Store!Serve(p, want[p])
      BY <1>a, <1>b, <2>1, <3>1 DEF Store!Serve, Send
    <3> QED BY <3>1, <3>2 DEF Store!Next
  <2> QED BY <2>2, <2>3
<1>2. ASSUME NEW p \in Proc, Save(p) \/ Probe(p) \/ OpenRegion(p) \/ SeekEnd(p) \/ AppendSector(p) \/ GiveUp(p)
      PROVE  [Store!Next]_(<<{c \in Chunk : Readable(c)}, served>>)
  <2>1. UNCHANGED <<loc, served>>
    BY <1>2 DEF Save, SaveOpen, SaveBlock, Probe, OpenRegion, SeekEnd, AppendSector, GiveUp, region
  <2> QED BY <1>c, <2>1
<1>3. ASSUME NEW p \in Proc, Create(p) \/ WriteBlankHeader(p)
      PROVE  [Store!Next]_(<<{c \in Chunk : Readable(c)}, served>>)
  <2>1. header # "full"
    BY <1>3 DEF Create, WriteBlankHeader, IInv, Empties
  <2>2. loc = NoChunks /\ loc' = NoChunks /\ served' = served
    BY <1>3, <2>1 DEF Create, WriteBlankHeader, IInv, Empties
  <2> QED BY <1>c, <2>2
<1>4. ASSUME NEW p \in Proc, WriteHeader(p)
      PROVE  [Store!Next]_(<<{c \in Chunk : Readable(c)}, served>>)
  <2>1. /\ pc[p] = "commit" /\ served' = served
        /\ loc' = [copy[p] EXCEPT ![want[p]] = at[p]]
    BY <1>4 DEF WriteHeader
  <2>2. want[p] \in Chunk /\ loc \in [Chunk -> Nat] /\ copy[p] = loc /\ at[p] # 0
    BY <2>1 DEF IInv, Saving, WholeAt, Types, TypeOK
  <2>3. located' = located \cup {want[p]}
    BY <2>1, <2>2
  <2>4. Store!Put(want[p])
    BY <1>a, <1>b, <2>1, <2>3 DEF Store!Put
  <2> QED BY <2>2, <2>4 DEF Store!Next
<1>5. CASE Restart \/ UNCHANGED vars
  <2>1. UNCHANGED <<loc, served>>
    BY <1>5 DEF Restart, vars, region
  <2> QED BY <1>c, <2>1
<1> QED BY <1>1, <1>2, <1>3, <1>4, <1>5 DEF Next, EnsureStub

(* With one worker the files implement ChunkStore: what is stored stays    *)
(* stored, and every request is answered with its chunk.                   *)
THEOREM Refinement == ASSUME OneWorker PROVE Spec => KeepsPromise
<1>1. Init => Store!Init
  <2> SUFFICES ASSUME Init PROVE Store!Init
    OBVIOUS
  <2>1. {c \in Chunk : Readable(c)} = {}
    BY DEF Init, Readable
  <2> QED BY <2>1 DEF Init, Store!Init
<1>2. IInv /\ IInv' /\ [Next]_vars => [Store!Next]_(<<{c \in Chunk : Readable(c)}, served>>)
  BY StepRefines
<1> QED BY <1>1, <1>2, Invariance, PTL DEF Spec, KeepsPromise, Store!Spec

-----------------------------------------------------------------------------

(* The powers of two. *)
LEMMA Powers ==
    /\ TwoTo[0] = 1
    /\ \A n \in 0..LongBits : TwoTo[n] \in Nat \ {0}
    /\ \A n \in 1..LongBits : TwoTo[n] = 2 * TwoTo[n - 1]
<1> DEFINE T == Nat
           next == [i \in 1..LongBits |-> [r \in T |-> 2 * r]]
           Is(f) == f = [i \in 0..LongBits |-> IF i = 0 THEN 1 ELSE 2 * f[i - 1]]
<1>1. LongBits \in Nat /\ 1 \in T /\ next \in [1..LongBits -> [T -> T]]
  BY CodecAssumption
<1>2. PICK g \in [0..LongBits -> T] : CountsUp(g, LongBits, 1, next)
  BY <1>1, DefinedByCounting
<1>3. \A i \in 1..LongBits : g[i] = 2 * g[i - 1]
  <2> TAKE i \in 1..LongBits
  <2>1. g[i - 1] \in T
    BY <1>1
  <2> QED BY <1>2, <2>1 DEF CountsUp
<1>4. \A i \in 0..LongBits : i # 0 => i \in 1..LongBits
  BY <1>1
<1>5. g[0] = 1
  BY <1>2 DEF CountsUp
<1>6. Is(g)
  BY <1>3, <1>4, <1>5
<1>7. Is(TwoTo)
  <2>1. TwoTo = CHOOSE f : Is(f)
    BY DEF TwoTo
  <2> QED BY <1>6, <2>1
<1>8. \A n \in 1..LongBits : TwoTo[n] = 2 * TwoTo[n - 1]
  <2> TAKE n \in 1..LongBits
  <2>1. n \in 0..LongBits /\ n # 0
    BY <1>1
  <2> QED BY <1>7, <2>1
<1>9. TwoTo[0] = 1
  <2>1. 0 \in 0..LongBits
    BY <1>1
  <2> QED BY <1>7, <2>1
<1> DEFINE G == {n \in 0..LongBits : TwoTo[n] \in Nat \ {0}}
<1>10. 0 \in G
  BY <1>1, <1>9
<1>11. \A i \in 1..LongBits : i - 1 \in G => i \in G
  BY <1>1, <1>8
<1>12. \A n \in 0..LongBits : n \in G
  <2> HIDE DEF G
  <2> QED BY <1>1, <1>10, <1>11, CountUp
<1> QED BY <1>8, <1>9, <1>12

(* More bits hold more numbers. *)
LEMMA PowersGrow ==
    ASSUME NEW a \in 0..LongBits, NEW b \in 0..LongBits, a <= b
    PROVE  TwoTo[a] <= TwoTo[b]
<1> DEFINE G == {n \in 0..LongBits : a <= n => TwoTo[a] <= TwoTo[n]}
<1>1. LongBits \in Nat
  BY CodecAssumption
<1>2. 0 \in G
  BY <1>1, Powers
<1>3. \A i \in 1..LongBits : i - 1 \in G => i \in G
  <2> TAKE i \in 1..LongBits
  <2> HAVE i - 1 \in G
  <2>1. i \in 0..LongBits /\ i - 1 \in 0..LongBits
    BY <1>1
  <2>2. TwoTo[i] = 2 * TwoTo[i - 1] /\ TwoTo[i - 1] \in Nat /\ TwoTo[a] \in Nat
    BY <2>1, Powers
  <2>3. CASE a <= i - 1
    BY <2>1, <2>2, <2>3
  <2>4. CASE a > i - 1
    <3>1. a <= i => a = i
      BY <2>1, <2>4
    <3> QED BY <2>1, <2>2, <3>1
  <2> QED BY <2>1, <2>3, <2>4
<1>4. \A n \in 0..LongBits : n \in G
  <2> HIDE DEF G
  <2> QED BY <1>1, <1>2, <1>3, CountUp
<1> QED BY <1>4

(* Bit k + 1 of a number is bit k of its half. *)
LEMMA Halves ==
    ASSUME NEW a \in Nat, NEW k \in 0..(LongBits - 1)
    PROVE  (a \div 2) \div TwoTo[k] = a \div TwoTo[k + 1]
<1> DEFINE h == a \div 2
           m == TwoTo[k]
           q == h \div m
           r == h % m
           z == a % 2
<1>1. LongBits \in Nat /\ k \in 0..LongBits /\ k + 1 \in 1..LongBits /\ k + 1 - 1 = k
  BY CodecAssumption
<1>2. m \in Nat \ {0} /\ TwoTo[k + 1] = 2 * m
  BY <1>1, Powers
<1>3. h \in Int /\ z \in 0..1 /\ a = h * 2 + z
  BY Divided
<1> HIDE DEF h, m, z
<1>4. q \in Int /\ r \in 0..(m - 1) /\ h = q * m + r
  BY <1>2, <1>3, Divided
<1> HIDE DEF q, r
<1> DEFINE n == 2 * m
           t == 2 * r + z
<1>5. n \in Nat \ {0} /\ t \in 0..(n - 1)
  BY <1>2, <1>3, <1>4
<1>6. a = q * n + t
  BY <1>2, <1>3, <1>4
<1>7. TwoTo[k + 1] = n
  BY <1>2
<1> HIDE DEF n, t
<1>8. a \div n = q
  BY <1>4, <1>5, <1>6, Quotient
<1> QED BY <1>7, <1>8 DEF q, h, m

(* Numbers with the same bits are the same. *)
LEMMA SameBits ==
    ASSUME NEW w \in 0..LongBits, NEW a \in 0..(TwoTo[w] - 1), NEW b \in 0..(TwoTo[w] - 1),
           OneBits(a, w) = OneBits(b, w)
    PROVE  a = b
<1> DEFINE Same(n) == \A x, y \in 0..(TwoTo[n] - 1) : OneBits(x, n) = OneBits(y, n) => x = y
           G == {n \in 0..LongBits : Same(n)}
<1>1. LongBits \in Nat
  BY CodecAssumption
<1>2. 0 \in G
  BY <1>1, Powers
<1>3. ASSUME NEW n \in 1..LongBits, n - 1 \in G PROVE n \in G
  <2> SUFFICES ASSUME NEW x \in 0..(TwoTo[n] - 1), NEW y \in 0..(TwoTo[n] - 1),
                      OneBits(x, n) = OneBits(y, n)
               PROVE  x = y
    BY <1>1
  <2>1. /\ TwoTo[n] = 2 * TwoTo[n - 1] /\ TwoTo[n - 1] \in Nat \ {0}
        /\ TwoTo[n] \in Nat
    BY <1>1, Powers
  <2>2. ASSUME NEW v \in 0..(TwoTo[n] - 1)
        PROVE  /\ v \div 2 \in 0..(TwoTo[n - 1] - 1) /\ v % 2 \in 0..1
               /\ v = (v \div 2) * 2 + (v % 2)
               /\ v % 2 = 1 <=> 0 \in OneBits(v, n)
               /\ \A k \in 0..(n - 2) : k \in OneBits(v \div 2, n - 1) <=> k + 1 \in OneBits(v, n)
    <3>1. v \div 2 \in Int /\ v % 2 \in 0..1 /\ v = (v \div 2) * 2 + (v % 2) /\ v \in Nat
      BY <2>1, Divided
    <3>2. v \div 2 \in 0..(TwoTo[n - 1] - 1)
      BY <2>1, <3>1
    <3>3. v \div TwoTo[0] = v
      BY <3>1, Powers
    <3>4. v % 2 = 1 <=> 0 \in OneBits(v, n)
      BY <1>1, <3>1, <3>3 DEF OneBits
    <3>5. ASSUME NEW k \in 0..(n - 2)
          PROVE  k \in OneBits(v \div 2, n - 1) <=> k + 1 \in OneBits(v, n)
      <4>1. k \in 0..(LongBits - 1) /\ k + 1 \in 0..(n - 1) /\ k \in 0..((n - 1) - 1)
        BY <1>1
      <4>2. (v \div 2) \div TwoTo[k] = v \div TwoTo[k + 1]
        BY <3>1, <4>1, Halves
      <4> QED BY <4>1, <4>2 DEF OneBits
    <3> QED BY <3>1, <3>2, <3>4, <3>5
  <2> DEFINE p == x \div 2
             q == y \div 2
  <2>3. p \in 0..(TwoTo[n - 1] - 1) /\ q \in 0..(TwoTo[n - 1] - 1)
    BY <2>2
  <2>4. OneBits(p, n - 1) = OneBits(q, n - 1)
    <3>1. \A k \in 0..(n - 2) : k \in OneBits(p, n - 1) <=> k \in OneBits(q, n - 1)
      BY <2>2
    <3>2. OneBits(p, n - 1) \subseteq 0..(n - 2) /\ OneBits(q, n - 1) \subseteq 0..(n - 2)
      <4>1. (n - 1) - 1 = n - 2
        BY <1>1
      <4> QED BY <4>1 DEF OneBits
    <3> HIDE DEF p, q
    <3> QED BY <3>1, <3>2
  <2>5. p = q
    <3> HIDE DEF p, q
    <3> QED BY <1>3, <2>3, <2>4
  <2>6. x % 2 = y % 2
    BY <2>2
  <2>7. x = p * 2 + (x % 2) /\ y = q * 2 + (y % 2)
    BY <2>2
  <2> QED BY <2>5, <2>6, <2>7
<1>4. \A n \in 0..LongBits : n \in G
  <2> HIDE DEF G
  <2> QED BY <1>1, <1>2, <1>3, CountUp
<1> QED BY <1>4

(* Where entries lie: PerLong of them in a long, none in two. *)
LEMMA PerLongFits ==
    ASSUME NEW w \in 1..LongBits
    PROVE  PerLong(w) \in Nat \ {0} /\ PerLong(w) * w <= LongBits
<1>1. LongBits \in Nat \ {0}
  BY CodecAssumption
<1>2. /\ PerLong(w) \in Int /\ LongBits % w \in 0..(w - 1)
      /\ LongBits = PerLong(w) * w + (LongBits % w)
  BY <1>1, Divided DEF PerLong
<1>3. PerLong(w) >= 1
  <2> SUFFICES ASSUME PerLong(w) <= 0 PROVE FALSE
    BY <1>2
  <2>1. PerLong(w) * w <= 0 * w
    BY <1>2, OrderedProducts
  <2> QED BY <1>1, <1>2, <2>1
<1> QED BY <1>2, <1>3

(* A bit of a slot: its long, the place of the slot in it, and its place in *)
(* the slot, can be told from its number.                                   *)
LEMMA SlotParts ==
    ASSUME NEW w \in 1..LongBits, NEW i \in Nat, NEW k \in 0..(w - 1)
    PROVE  /\ Slot(i, w) + k \in Nat
           /\ (Slot(i, w) + k) \div LongBits = i \div PerLong(w)
           /\ ((Slot(i, w) + k) % LongBits) \div w = i % PerLong(w)
           /\ ((Slot(i, w) + k) % LongBits) % w = k
<1> DEFINE n == PerLong(w)
           q == i \div n
           r == i % n
           o == r * w + k
<1>1. LongBits \in Nat \ {0} /\ n \in Nat \ {0} /\ n * w <= LongBits
  BY CodecAssumption, PerLongFits
<1> HIDE DEF n
<1>2. q \in Int /\ r \in 0..(n - 1) /\ i = q * n + r
  BY <1>1, Divided
<1>3. q \in Nat
  <2> SUFFICES ASSUME q <= 0 - 1 PROVE FALSE
    BY <1>2
  <2> HIDE DEF q, r
  <2>1. q * n <= (0 - 1) * n
    BY <1>1, <1>2, OrderedProducts
  <2> QED BY <1>1, <1>2, <2>1
<1> HIDE DEF q, r
<1>4. o \in 0..(LongBits - 1)
  <2>1. r * w \in Nat
    BY <1>2
  <2>2. r * w <= (n - 1) * w
    BY <1>1, <1>2, OrderedProducts
  <2>3. (n - 1) * w = n * w - w
    BY <1>1
  <2> QED BY <1>1, <2>1, <2>2, <2>3
<1>5. Slot(i, w) + k = q * LongBits + o
  <2>1. Slot(i, w) = q * LongBits + r * w
    BY DEF Slot, q, r, n
  <2>2. q * LongBits \in Int /\ r * w \in Int
    BY <1>1, <1>2
  <2> QED BY <2>1, <2>2
<1>6. o \div w = r /\ o % w = k
  <2>1. w \in Nat \ {0} /\ r \in Int
    BY <1>1, <1>2
  <2> QED BY <2>1, Quotient
<1> HIDE DEF o
<1>7. (q * LongBits + o) \div LongBits = q /\ (q * LongBits + o) % LongBits = o
  BY <1>1, <1>2, <1>4, Quotient
<1>8. q * LongBits + o \in Nat
  <2>1. q * LongBits \in Nat
    BY <1>1, <1>3
  <2> QED BY <1>4, <2>1
<1> QED BY <1>5, <1>6, <1>7, <1>8 DEF q, r, n

(* No two entries share a bit. *)
LEMMA SlotsApart ==
    ASSUME NEW w \in 1..LongBits, NEW i \in Nat, NEW j \in Nat,
           NEW k \in 0..(w - 1), NEW l \in 0..(w - 1), Slot(i, w) + k = Slot(j, w) + l
    PROVE  i = j /\ k = l
<1> DEFINE n == PerLong(w)
<1>1. n \in Nat \ {0}
  BY PerLongFits
<1>2. i \div n = j \div n /\ i % n = j % n /\ k = l
  BY SlotParts
<1> HIDE DEF n
<1>3. i = (i \div n) * n + (i % n) /\ j = (j \div n) * n + (j % n)
  BY <1>1, Divided
<1> QED BY <1>2, <1>3

(* What was packed is read back. *)
LEMMA ReadBack ==
    ASSUME NEW w \in 1..LongBits, NEW values,
           \A i \in DOMAIN values : i \in Nat /\ values[i] \in 0..(TwoTo[w] - 1),
           NEW i \in DOMAIN values
    PROVE  EntryAt(Pack(values, w), Slot(i, w), w) = values[i]
<1> DEFINE ones == UNION {{Slot(j, w) + k : k \in OneBits(values[j], w)} : j \in DOMAIN values}
           here == {k \in 0..(w - 1) : Slot(i, w) + k \in ones}
<1>1. OneBits(values[i], w) = here
  <2>1. ASSUME NEW k \in OneBits(values[i], w) PROVE k \in here
    <3>1. k \in 0..(w - 1)
      BY DEF OneBits
    <3> QED BY <3>1
  <2>2. ASSUME NEW k \in here PROVE k \in OneBits(values[i], w)
    <3>1. PICK j \in DOMAIN values : \E l \in OneBits(values[j], w) : Slot(i, w) + k = Slot(j, w) + l
      OBVIOUS
    <3>2. PICK l \in OneBits(values[j], w) : Slot(i, w) + k = Slot(j, w) + l
      BY <3>1
    <3>3. l \in 0..(w - 1) /\ k \in 0..(w - 1)
      BY DEF OneBits
    <3>4. i = j /\ k = l
      BY <3>2, <3>3, SlotsApart
    <3> QED BY <3>2, <3>4
  <2>3. here \subseteq OneBits(values[i], w) /\ OneBits(values[i], w) \subseteq here
    <3> HIDE DEF here
    <3> QED BY <2>1, <2>2
  <2> QED BY <2>3
<1>2. Pack(values, w).ones = ones
  BY DEF Pack
<1> DEFINE Fits(v) == OneBits(v, w) = here
<1>3. EntryAt(Pack(values, w), Slot(i, w), w) = CHOOSE v \in 0..(TwoTo[w] - 1) : Fits(v)
  BY <1>2 DEF EntryAt
<1>4. values[i] \in 0..(TwoTo[w] - 1) /\ Fits(values[i])
  BY <1>1
<1>5. \A v \in 0..(TwoTo[w] - 1) : Fits(v) => v = values[i]
  <2> SUFFICES ASSUME NEW v \in 0..(TwoTo[w] - 1), OneBits(v, w) = here PROVE v = values[i]
    OBVIOUS
  <2>1. OneBits(v, w) = OneBits(values[i], w) /\ w \in 0..LongBits
    BY <1>1, CodecAssumption
  <2> HIDE DEF here
  <2> QED BY <1>4, <2>1, SameBits
<1> HIDE DEF Fits
<1> QED BY <1>3, <1>4, <1>5

-----------------------------------------------------------------------------
(* Widths.                                                                 *)

(* CeilLog2 finds bits enough, and not more than any number of bits that is *)
(* enough.                                                                  *)
LEMMA CeilFits ==
    ASSUME NEW b \in 1..LongBits, NEW n \in 2..TwoTo[b]
    PROVE  CeilLog2(n) \in 1..b /\ n <= TwoTo[CeilLog2(n)]
<1> DEFINE S == {x \in 0..LongBits : n <= TwoTo[x]}
           Is(x) == TwoTo[x - 1] < n /\ n <= TwoTo[x]
<1>1. /\ LongBits \in Nat /\ b \in 0..LongBits /\ TwoTo[b] \in Nat
      /\ \A x \in 0..LongBits : TwoTo[x] \in Nat
  <2>1. LongBits \in Nat /\ b \in 0..LongBits
    BY CodecAssumption
  <2> QED BY <2>1, Powers
<1>2. b \in S /\ S \in SUBSET Nat
  BY <1>1
<1>3. PICK c \in S : \A x \in S : c <= x
  <2> HIDE DEF S
  <2> QED BY <1>2, LeastNatural
<1>4. c # 0
  BY <1>1, <1>3, Powers
<1>5. c \in 1..LongBits /\ c - 1 \in 0..LongBits /\ c - 1 \notin S
  BY <1>1, <1>3, <1>4
<1>6. Is(c)
  BY <1>1, <1>3, <1>5
<1>7. CeilLog2(n) = CHOOSE x \in 1..LongBits : Is(x)
  BY <1>1 DEF CeilLog2
<1> DEFINE d == CeilLog2(n)
<1>8. d \in 1..LongBits /\ Is(d)
  <2> HIDE DEF Is
  <2> QED BY <1>5, <1>6, <1>7
<1> HIDE DEF d
<1>9. d <= b
  <2> SUFFICES ASSUME d > b PROVE FALSE
    BY <1>1, <1>8
  <2>1. d - 1 \in 0..LongBits /\ b <= d - 1
    BY <1>1, <1>8
  <2>2. TwoTo[b] <= TwoTo[d - 1]
    BY <1>1, <2>1, PowersGrow
  <2> QED BY <1>1, <1>8, <2>1, <2>2
<1> QED BY <1>8, <1>9 DEF d

(* An index into so many entries fits into the width that is taken for it. *)
LEMMA WidthFits ==
    ASSUME NEW b \in LeastWidth..LongBits, NEW n \in 2..TwoTo[b]
    PROVE  Width(n) \in LeastWidth..b /\ n <= TwoTo[Width(n)]
<1>1. LongBits \in Nat /\ LeastWidth \in Nat \ {0} /\ b \in 1..LongBits
  BY CodecAssumption
<1>2. CeilLog2(n) \in 1..b /\ n <= TwoTo[CeilLog2(n)]
  BY <1>1, CeilFits
<1> DEFINE c == CeilLog2(n)
<1>3. Width(n) = IF c > LeastWidth THEN c ELSE LeastWidth
  BY DEF Width, Larger
<1> HIDE DEF c
<1>4. Width(n) \in LeastWidth..b /\ c <= Width(n)
  BY <1>1, <1>2, <1>3 DEF c
<1>5. /\ c \in 0..LongBits /\ Width(n) \in 0..LongBits
      /\ TwoTo[c] \in Nat /\ TwoTo[Width(n)] \in Nat /\ TwoTo[b] \in Nat
  <2>1. c \in 0..LongBits /\ Width(n) \in 0..LongBits /\ b \in 0..LongBits
    BY <1>1, <1>2, <1>4 DEF c
  <2> QED BY <2>1, Powers
<1>6. TwoTo[c] <= TwoTo[Width(n)]
  BY <1>4, <1>5, PowersGrow
<1> QED BY <1>2, <1>4, <1>5, <1>6 DEF c

(* Indices into at most so many entries as the least width has have it. *)
LEMMA LeastWidthFits ==
    ASSUME NEW n \in Nat, n >= 2, n <= TwoTo[LeastWidth]
    PROVE  /\ Width(n) = LeastWidth /\ StoredWidth(n) = LeastWidth
           /\ LeastWidth \in 1..LongBits /\ TwoTo[LeastWidth] \in Nat
<1>1. LeastWidth \in 1..LongBits /\ LeastWidth \in LeastWidth..LongBits /\ LeastWidth \in 0..LongBits
  BY CodecAssumption
<1>2. TwoTo[LeastWidth] \in Nat
  BY <1>1, Powers
<1>3. Width(n) \in LeastWidth..LeastWidth
  BY <1>1, <1>2, WidthFits
<1> QED BY <1>1, <1>2, <1>3 DEF Width, StoredWidth

(* A width that divides a long leaves no gap in it, so that both ways of   *)
(* packing are one.                                                        *)
LEMMA NoGap ==
    ASSUME NEW w \in 1..LongBits, LongBits % w = 0,
           NEW values, DOMAIN values \subseteq Nat, Cardinality(DOMAIN values) \in Nat
    PROVE  PackAcross(values, w) = Pack(values, w)
<1> DEFINE n == PerLong(w)
           c == Cardinality(DOMAIN values)
<1>1. LongBits \in Nat \ {0} /\ w \in Nat \ {0} /\ n \in Nat \ {0} /\ c \in Nat
  BY CodecAssumption, PerLongFits
<1>2. LongBits = n * w
  BY <1>1, Divided DEF PerLong
<1> HIDE DEF n, c
<1>3. ASSUME NEW i \in Nat PROVE Slot(i, w) = i * w
  <2> DEFINE q == i \div n
             r == i % n
  <2>1. q \in Int /\ r \in Int /\ i = q * n + r
    BY <1>1, Divided
  <2>2. Slot(i, w) = q * LongBits + r * w
    BY DEF Slot, n
  <2> HIDE DEF q, r
  <2>3. (q * n + r) * w = q * (n * w) + r * w
    BY <1>1, <2>1
  <2> QED BY <1>2, <2>1, <2>2, <2>3
<1>4. Longs(c, w) = (c * w + LongBits - 1) \div LongBits
  <2> DEFINE a == c + n - 1
             q == a \div n
             r == a % n
             t == r * w + w - 1
  <2>0. a \in Int
    BY <1>1
  <2>1. q \in Int /\ r \in 0..(n - 1) /\ a = q * n + r
    <3> HIDE DEF a
    <3> QED BY <1>1, <2>0, Divided
  <2>2. Longs(c, w) = q
    BY DEF Longs, n
  <2> HIDE DEF q, r
  <2>3. t \in 0..(LongBits - 1)
    <3>1. r * w \in Nat /\ r * w <= (n - 1) * w
      BY <1>1, <2>1, OrderedProducts
    <3>2. (n - 1) * w = n * w - w
      BY <1>1
    <3> QED BY <1>1, <1>2, <3>1, <3>2
  <2>4. c * w + LongBits - 1 = q * LongBits + t
    <3>1. a * w = (q * n + r) * w
      BY <2>1
    <3>2. a * w = c * w + (n * w) - w
      BY <1>1
    <3>3. (q * n + r) * w = q * (n * w) + r * w
      BY <1>1, <2>1
    <3>4. c * w \in Int /\ r * w \in Int /\ n * w \in Int /\ q * (n * w) \in Int
      BY <1>1, <2>1
    <3> HIDE DEF a
    <3> QED BY <1>1, <1>2, <3>1, <3>2, <3>3, <3>4
  <2> HIDE DEF t
  <2>5. (q * LongBits + t) \div LongBits = q
    BY <1>1, <2>1, <2>3, Quotient
  <2> QED BY <2>2, <2>4, <2>5
<1>5. UNION {{Slot(i, w) + k : k \in OneBits(values[i], w)} : i \in DOMAIN values}
        = UNION {{i * w + k : k \in OneBits(values[i], w)} : i \in DOMAIN values}
  BY <1>3
<1> QED BY <1>4, <1>5 DEF Pack, PackAcross, c

-----------------------------------------------------------------------------
(* Palettes.                                                               *)

(* The kinds are so many that can be counted. *)
LEMMA KindsFinite == IsFiniteSet(Kinds) /\ Cardinality(Kinds) \in Nat
<1> DEFINE all == <<"air", "stone", "grass", "dirt", "water", "sand", "log", "leaves">>
<1>1. Kinds = {all[n] : n \in 1..8}
  <2>1. Kinds = {"air", "stone", "grass", "dirt", "water", "sand", "log", "leaves"}
    BY DEF Kinds, KindId
  <2>2. 1..8 = {1, 2, 3, 4, 5, 6, 7, 8}
    OBVIOUS
  <2> QED BY <2>1, <2>2
<1> DEFINE f == [n \in 1..8 |-> all[n]]
<1>2. f \in Surjection(1..8, Kinds)
  <2> HIDE DEF all
  <2>1. f \in [1..8 -> Kinds] /\ \A k \in Kinds : \E n \in 1..8 : f[n] = k
    BY <1>1
  <2> HIDE DEF f
  <2> QED BY <2>1 DEF Surjection
<1>3. ExistsSurjection(1..8, Kinds) /\ 8 \in Nat
  BY <1>2 DEF ExistsSurjection
<1> QED BY <1>3, FS_NatSurjection, FS_CardinalityType

(* The palette of a section has each of its kinds once. *)
LEMMA UsedOnce ==
    ASSUME NEW kinds, \A i \in Cell : kinds[i] \in Kinds
    PROVE  /\ Used(kinds) \in Seq(Kinds) /\ Len(Used(kinds)) \in 1..Cardinality(Kinds)
           /\ \A i \in Cell : \E n \in 1..Len(Used(kinds)) : Used(kinds)[n] = kinds[i]
<1> DEFINE first == {i \in Cell : \A j \in 0..(i - 1) : kinds[j] # kinds[i]}
           c == Cardinality(first)
           Rank(i) == Cardinality({j \in first : j < i})
           At(n) == CHOOSE i \in first : Rank(i) = n - 1
<1>1. Cells \in Nat \ {0} /\ Cell \in SUBSET Nat
  BY CodecAssumption DEF Cell
<1>2. first \in SUBSET Nat /\ IsFiniteSet(first)
  <2>1. IsFiniteSet(Cell)
    BY <1>1, FS_Interval DEF Cell
  <2>2. first \in SUBSET Cell
    OBVIOUS
  <2> HIDE DEF first
  <2> QED BY <1>1, <2>1, <2>2, FS_Subset
<1>3. Used(kinds) = [n \in 1..c |-> kinds[At(n)]]
  BY DEF Used
<1>4. ASSUME NEW i \in Cell PROVE \E f \in first : kinds[f] = kinds[i]
  <2> DEFINE S == {j \in Cell : kinds[j] = kinds[i]}
  <2>1. S \in SUBSET Nat /\ i \in S
    BY <1>1
  <2>2. PICK f \in S : \A j \in S : f <= j
    <3> HIDE DEF S
    <3> QED BY <2>1, LeastNatural
  <2>3. \A j \in 0..(f - 1) : kinds[j] # kinds[f]
    <3> TAKE j \in 0..(f - 1)
    <3>1. j \in Cell /\ ~(f <= j)
      BY <1>1, <2>2 DEF Cell
    <3> QED BY <2>2, <3>1
  <2> QED BY <2>2, <2>3
<1>5. /\ c \in Nat
      /\ \A r \in 0..(c - 1) : \E i \in first : Rank(i) = r
      /\ \A i, k \in first : Rank(i) = Rank(k) => i = k
  <2> HIDE DEF first
  <2> QED BY <1>2, Ranks
<1>6. ASSUME NEW i \in first PROVE Rank(i) \in 0..(c - 1)
  <2> DEFINE below == {j \in first : j < i}
  <2>1. below \in SUBSET first /\ below # first
    BY <1>2
  <2> HIDE DEF below, first
  <2>2. IsFiniteSet(below) /\ Cardinality(below) <= c /\ Cardinality(below) # c
    BY <1>2, <2>1, FS_Subset
  <2>3. Cardinality(below) \in Nat
    BY <2>2, FS_CardinalityType
  <2> HIDE DEF c
  <2>4. Cardinality(below) \in 0..(c - 1)
    BY <1>5, <2>2, <2>3
  <2> QED BY <2>4 DEF below
<1>7. ASSUME NEW n \in 1..c PROVE At(n) \in first /\ Rank(At(n)) = n - 1
  <2>1. n - 1 \in 0..(c - 1)
    BY <1>5
  <2>2. \E i \in first : Rank(i) = n - 1
    BY <1>5, <2>1
  <2> HIDE DEF Rank, first
  <2> QED BY <2>2
<1>8. ASSUME NEW i \in first PROVE \E n \in 1..c : At(n) = i
  <2> DEFINE n == Rank(i) + 1
  <2>1. n \in 1..c /\ n - 1 = Rank(i)
    <3> HIDE DEF Rank, c
    <3> QED BY <1>5, <1>6
  <2>2. At(n) \in first /\ Rank(At(n)) = Rank(i)
    <3> HIDE DEF Rank, c, At, first, n
    <3> QED BY <1>7, <2>1
  <2>3. At(n) = i
    <3> HIDE DEF Rank, At, n
    <3> QED BY <1>5, <2>2
  <2> HIDE DEF n, At, c
  <2> QED BY <2>1, <2>3
<1>9. ASSUME NEW i \in Cell PROVE \E n \in 1..c : kinds[At(n)] = kinds[i]
  <2>1. PICK f \in first : kinds[f] = kinds[i]
    BY <1>4
  <2> HIDE DEF At, c, first
  <2> QED BY <1>8, <2>1
<1>10. \A n \in 1..c : kinds[At(n)] \in Kinds
  <2> TAKE n \in 1..c
  <2>1. At(n) \in Cell
    BY <1>7
  <2> QED BY <2>1
<1>11. c <= Cardinality(Kinds)
  <2> DEFINE K == [i \in first |-> kinds[i]]
  <2>1. K \in [first -> Kinds]
    OBVIOUS
  <2>2. ASSUME NEW i \in first, NEW k \in first, K[i] = K[k] PROVE i = k
    <3>1. i \in Nat /\ k \in Nat /\ kinds[i] = kinds[k]
      BY <1>1, <2>2
    <3>2. ~(i < k)
      <4>1. i < k => i \in 0..(k - 1)
        BY <3>1
      <4> QED BY <3>1, <4>1
    <3>3. ~(k < i)
      <4>1. k < i => k \in 0..(i - 1)
        BY <3>1
      <4> QED BY <3>1, <4>1
    <3> QED BY <3>1, <3>2, <3>3
  <2>3. K \in Injection(first, Kinds)
    <3> HIDE DEF K, first
    <3> QED BY <2>1, <2>2 DEF Injection, IsInjective
  <2> HIDE DEF K, first
  <2> QED BY <2>3, KindsFinite, FS_Injection
<1>12. c >= 1
  <2>1. 0 \in Cell
    BY <1>1 DEF Cell
  <2>2. \E n \in 1..c : kinds[At(n)] = kinds[0]
    BY <1>9, <2>1
  <2> HIDE DEF c, At
  <2> QED BY <1>5, <2>2
<1> HIDE DEF c, At
<1>13. Used(kinds) \in [1..c -> Kinds] /\ \A n \in 1..c : Used(kinds)[n] = kinds[At(n)]
  BY <1>3, <1>10
<1>14. Used(kinds) \in Seq(Kinds) /\ Len(Used(kinds)) = c
  BY <1>5, <1>13
<1> QED BY <1>5, <1>9, <1>11, <1>12, <1>13, <1>14, KindsFinite

-----------------------------------------------------------------------------
(* Sections.                                                               *)

(* The cells of a section. *)
LEMMA CellsCounted ==
    IsFiniteSet(Cell) /\ Cardinality(Cell) = Cells /\ 0 \in Cell /\ Cell \in SUBSET Nat
<1>1. Cells \in Nat \ {0}
  BY CodecAssumption
<1>2. IsFiniteSet(Cell) /\ Cardinality(Cell) = Cells
  BY <1>1, FS_Interval DEF Cell
<1> QED BY <1>1, <1>2 DEF Cell

(* An index is the place of the cell's kind in the palette. *)
LEMMA IndicesPoint ==
    ASSUME NEW T, NEW palette \in Seq(T), NEW kinds,
           \A i \in Cell : \E n \in 1..Len(palette) : palette[n] = kinds[i]
    PROVE  /\ Indices(kinds, palette) \in [Cell -> 0..(Len(palette) - 1)]
           /\ \A i \in Cell : palette[Indices(kinds, palette)[i] + 1] = kinds[i]
<1> DEFINE all == {palette[j] : j \in DOMAIN palette}
           At(k) == CHOOSE j \in DOMAIN palette : palette[j] = k
           index == [k \in all |-> At(k) - 1]
<1>1. DOMAIN palette = 1..Len(palette) /\ Len(palette) \in Nat
  OBVIOUS
<1>2. Indices(kinds, palette) = [i \in Cell |-> index[kinds[i]]]
  BY DEF Indices
<1>3. ASSUME NEW i \in Cell
      PROVE  index[kinds[i]] \in 0..(Len(palette) - 1) /\ palette[index[kinds[i]] + 1] = kinds[i]
  <2> DEFINE k == kinds[i]
  <2>1. \E j \in DOMAIN palette : palette[j] = k
    BY <1>1
  <2>2. k \in all
    BY <2>1
  <2>3. index[k] = At(k) - 1
    BY <2>2
  <2>4. At(k) \in DOMAIN palette /\ palette[At(k)] = k
    <3> HIDE DEF k
    <3> QED BY <2>1
  <2> HIDE DEF At, index, all
  <2>5. At(k) - 1 \in 0..(Len(palette) - 1) /\ At(k) - 1 + 1 = At(k)
    BY <1>1, <2>4
  <2> HIDE DEF k
  <2>6. index[k] \in 0..(Len(palette) - 1) /\ palette[index[k] + 1] = k
    BY <2>3, <2>4, <2>5
  <2> QED BY <2>6 DEF k
<1> HIDE DEF index
<1> QED BY <1>2, <1>3

(* The longs reach as far as the entries. *)
LEMMA LongsReach ==
    ASSUME NEW w \in 1..LongBits, NEW n \in Nat, NEW i \in 0..(n - 1)
    PROVE  i \div PerLong(w) < Longs(n, w)
<1> DEFINE m == PerLong(w)
           a == n + m - 1
           p == i \div m
           q == a \div m
           r == i % m
           t == a % m
<1>1. m \in Nat \ {0}
  BY PerLongFits
<1> HIDE DEF m
<1>2. a \in Int /\ i \in Int /\ i + m <= a
  BY <1>1
<1>3. p \in Int /\ r \in 0..(m - 1) /\ i = p * m + r
  BY <1>1, <1>2, Divided
<1>4. q \in Int /\ t \in 0..(m - 1) /\ a = q * m + t
  <2> HIDE DEF a
  <2> QED BY <1>1, <1>2, Divided
<1>5. Longs(n, w) = q
  BY DEF Longs, m
<1> HIDE DEF a, p, q, r, t
<1>6. p < q
  <2> SUFFICES ASSUME q <= p PROVE FALSE
    BY <1>3, <1>4
  <2>1. q * m <= p * m
    BY <1>1, <1>3, <1>4, OrderedProducts
  <2>2. q * m \in Int /\ p * m \in Int
    BY <1>1, <1>3, <1>4
  <2> QED BY <1>1, <1>2, <1>3, <1>4, <2>1, <2>2
<1> QED BY <1>5, <1>6 DEF p, m

(* A palette of several entries and the packed indices into it. *)
LEMMA SeveralShown ==
    ASSUME NEW n \in 2..TwoTo[MostWidth], NEW palette, Len(palette) = n,
           NEW index \in [Cell -> 0..(n - 1)], NEW w, w = Width(n), NEW bits, bits = Pack(index, w)
    PROVE  /\ w \in 1..LongBits /\ bits.longs = Longs(Cells, w)
           /\ \A i \in Cell : EntryAt(bits, Slot(i, w), w) = index[i]
           /\ Shown(Container(palette, bits)) = [i \in Cell |-> palette[index[i] + 1]]
<1>1. /\ LongBits \in Nat /\ MostWidth \in LeastWidth..LongBits /\ MostWidth \in 0..LongBits
      /\ LeastWidth \in Nat \ {0}
  BY CodecAssumption
<1>2. w \in LeastWidth..MostWidth /\ n <= TwoTo[w]
  BY <1>1, WidthFits
<1>3. w \in 1..LongBits /\ TwoTo[w] \in Nat /\ w > 0 /\ w <= MostWidth /\ TwoTo[MostWidth] \in Nat
  <2>1. w \in 1..LongBits /\ w \in 0..LongBits /\ w > 0 /\ w <= MostWidth
    BY <1>1, <1>2
  <2> QED BY <1>1, <2>1, Powers
<1>4. n \in Nat /\ n > 1
  BY <1>3
<1>5. DOMAIN index = Cell
  OBVIOUS
<1>6. bits.longs = Longs(Cells, w)
  BY <1>5, CellsCounted DEF Pack
<1>7. ASSUME NEW i \in Cell PROVE EntryAt(bits, Slot(i, w), w) = index[i]
  <2>1. ASSUME NEW j \in Cell PROVE j \in Nat /\ index[j] \in 0..(TwoTo[w] - 1)
    BY <1>2, <1>3, <1>4, CellsCounted
  <2> QED BY <1>3, <1>5, <2>1, ReadBack
<1> DEFINE c == Container(palette, bits)
<1>8. c = [width |-> w, palette |-> palette, data |-> bits]
  <2>1. Len(palette) = n /\ Width(Len(palette)) = w
    OBVIOUS
  <2>2. ~(n = 0) /\ ~(n = 1) /\ ~(w > MostWidth)
    BY <1>1, <1>3, <1>4
  <2> QED BY <1>3, <1>4, <2>1, <2>2 DEF Container
<1> HIDE DEF c
<1>9. c.width = w /\ c.palette = palette /\ c.data = bits
  BY <1>8
<1>10. [i \in Cell |-> EntryAt(c.data, Slot(i, c.width), c.width)] = index
  BY <1>5, <1>7, <1>9
<1>11. \A i \in Cell : index[i] < Len(c.palette)
  BY <1>4, <1>9
<1>12. Shown(c) = [i \in Cell |-> palette[index[i] + 1]]
  <2>1. c.width > 0 /\ ~(c.width = 0) /\ c.data.longs = Longs(Cells, c.width)
    BY <1>3, <1>6, <1>9
  <2>2. Shown(c) = IF \A i \in Cell : index[i] < Len(c.palette)
                   THEN [i \in Cell |-> c.palette[index[i] + 1]] ELSE Garbled
    BY <2>1, <1>10 DEF Shown
  <2> QED BY <1>9, <1>11, <2>2
<1> QED BY <1>3, <1>6, <1>7, <1>12 DEF c

(* The table has the generator's names with its ids, and only air is 0. *)
LEMMA KindsKnown ==
    \A k \in Kinds : LookupBlockId(k) = KindId[k] /\ (KindId[k] = 0 <=> k = "air")
<1>1. Kinds = {"air", "stone", "grass", "dirt", "water", "sand", "log", "leaves"}
  BY DEF Kinds, KindId
<1>2. /\ KindId["air"] = 0 /\ KindId["stone"] = 1 /\ KindId["grass"] = 9 /\ KindId["dirt"] = 10
      /\ KindId["water"] = 86 /\ KindId["sand"] = 118 /\ KindId["log"] = 137
      /\ KindId["leaves"] = 279
  BY DEF KindId
<1>3. \A k \in Kinds : k \in DOMAIN BlockTable /\ BlockTable[k] = KindId[k]
  BY <1>1, <1>2 DEF BlockTable
<1>4. \A k \in Kinds : KindId[k] = 0 <=> k = "air"
  BY <1>1, <1>2
<1>5. \A k \in Kinds : LookupBlockId(k) = KindId[k]
  BY <1>3 DEF LookupBlockId
<1> QED BY <1>4, <1>5

(* The packet that is made from blocks shows them. *)
LEMMA DirectShown ==
    ASSUME NEW kinds, \A i \in Cell : kinds[i] \in Kinds
    PROVE  /\ Shown(Direct(kinds).container) = [i \in Cell |-> KindId[kinds[i]]]
           /\ Direct(kinds).count = Cardinality({i \in Cell : kinds[i] # "air"})
<1> DEFINE palette == Used(kinds)
           n == Len(palette)
           ids == [j \in DOMAIN palette |-> KindId[palette[j]]]
           index == Indices(kinds, palette)
           w == Width(n)
           c == Direct(kinds).container
<1>1. /\ palette \in Seq(Kinds) /\ n \in 1..Cardinality(Kinds) /\ Cardinality(Kinds) \in Nat
      /\ \A i \in Cell : \E j \in 1..n : palette[j] = kinds[i]
  BY UsedOnce, KindsFinite
<1>2. Width(Len(ids)) = w /\ Len(ids) = n /\ DOMAIN ids = 1..n
  <2> HIDE DEF palette
  <2> QED BY <1>1
<1>3. \A j \in 1..n : ids[j] = KindId[palette[j]]
  BY <1>2
<1>4. c = Container(ids, IF n = 1 THEN NoData ELSE Pack(index, w))
  BY DEF Direct
<1>5. Direct(kinds).count = Cardinality({i \in Cell : kinds[i] # "air"})
  BY DEF Direct
<1> HIDE DEF palette
<1>6. index \in [Cell -> 0..(n - 1)] /\ \A i \in Cell : palette[index[i] + 1] = kinds[i]
  BY <1>1, IndicesPoint
<1> HIDE DEF ids, index, c, n
<1>7. CASE n = 1
  <2>1. c = [width |-> 0, palette |-> ids, data |-> NoData]
    BY <1>2, <1>4, <1>7 DEF Container
  <2>2. Shown(c) = [i \in Cell |-> ids[1]]
    BY <2>1 DEF Shown
  <2>3. \A i \in Cell : ids[1] = KindId[kinds[i]]
    BY <1>1, <1>3, <1>7
  <2> QED BY <1>5, <2>2, <2>3 DEF c
<1>8. CASE n # 1
  <2>1. c = Container(ids, Pack(index, w))
    BY <1>4, <1>8
  <2>2. n \in 2..TwoTo[MostWidth]
    <3>1. MostWidth \in 0..LongBits /\ MaxPalette \in Nat
      BY CodecAssumption
    <3>2. TwoTo[MostWidth] \in Nat
      BY <3>1, Powers
    <3> QED BY <1>1, <1>8, <3>1, <3>2, KindsFit, WidthAssumption
  <2>3. Shown(c) = [i \in Cell |-> ids[index[i] + 1]]
    BY <1>2, <1>6, <2>1, <2>2, SeveralShown
  <2>4. \A i \in Cell : ids[index[i] + 1] = KindId[kinds[i]]
    <3> TAKE i \in Cell
    <3>1. index[i] + 1 \in 1..n
      BY <1>1, <1>6
    <3> QED BY <1>3, <1>6, <3>1
  <2> QED BY <1>5, <2>3, <2>4 DEF c
<1> QED BY <1>7, <1>8

(* The blocks a section says, by its names and an index for each cell. *)
Said(names, index) ==
    [i \in Cell |-> IF names = <<>> THEN 0 ELSE LookupBlockId(names[index[i] + 1])]

(* A section of such names, packed as the reader expects it. *)
Packed(section, names, index) ==
    /\ section.names = names
    /\ section.data = IF Len(names) <= 1 THEN NoData ELSE Pack(index, Width(Len(names)))

(* The packet that is made from the NBT of a section shows the blocks it   *)
(* says and counts them, if the palette is not cut.                        *)
LEMMA SectionShown ==
    ASSUME NEW T, NEW names \in Seq(T), Len(names) <= MaxPalette,
           NEW index, names # <<>> => index \in [Cell -> 0..(Len(names) - 1)],
           NEW section, Packed(section, names, index)
    PROVE  /\ Shown(Container(PaletteOf(section), section.data)) = Said(names, index)
           /\ NonAir(PaletteOf(section), section.data)
                = Cardinality({i \in Cell : Said(names, index)[i] # 0})
<1> DEFINE n == Len(names)
           palette == PaletteOf(section)
           bits == section.data
           w == Width(n)
           blocks == Said(names, index)
<1>1. n \in Nat /\ MaxPalette \in Nat /\ DOMAIN names = 1..n /\ n <= MaxPalette
  BY CodecAssumption
<1>2. /\ palette = [j \in 1..n |-> LookupBlockId(names[j])]
      /\ Len(palette) = n /\ DOMAIN palette = 1..n
  <2>1. Smaller(Len(section.names), MaxPalette) = n
    <3>1. Len(section.names) = n
      BY DEF Packed
    <3> HIDE DEF n
    <3> QED BY <1>1, <3>1 DEF Smaller
  <2>2. palette = [j \in 1..n |-> LookupBlockId(names[j])]
    <3>1. section.names = names
      BY DEF Packed
    <3> QED BY <2>1, <3>1 DEF PaletteOf
  <2> HIDE DEF palette, n
  <2> QED BY <1>1, <2>2
<1>3. \A j \in 1..n : palette[j] = LookupBlockId(names[j])
  BY <1>2
<1>4. n = 0 <=> names = <<>>
  BY EmptySeq
<1>5. blocks = [i \in Cell |-> IF names = <<>> THEN 0 ELSE LookupBlockId(names[index[i] + 1])]
  BY DEF Said
<1>9. w = Width(n)
  OBVIOUS
<1> HIDE DEF n, palette, bits, blocks, w
<1>6. CASE n = 0
  <2>1. Container(palette, bits) = [width |-> 0, palette |-> <<0>>, data |-> NoData]
    BY <1>2, <1>6 DEF Container
  <2>2. Shown(Container(palette, bits)) = [i \in Cell |-> 0]
    BY <2>1 DEF Shown
  <2>3. blocks = [i \in Cell |-> 0]
    BY <1>4, <1>5, <1>6
  <2>4. palette = <<>>
    <3> DEFINE S == {LookupBlockId(names[j]) : j \in 1..n}
    <3>1. palette \in [1..n -> S]
      BY <1>2
    <3>2. palette \in Seq(S)
      <4> HIDE DEF S
      <4> QED BY <1>1, <3>1
    <3> HIDE DEF S
    <3> QED BY <1>2, <1>6, <3>2, EmptySeq
  <2>5. NonAir(palette, bits) = 0
    BY <1>2, <1>6, <2>4 DEF NonAir
  <2>6. {i \in Cell : blocks[i] # 0} = {}
    BY <2>3
  <2> QED BY <2>2, <2>3, <2>5, <2>6, FS_EmptySet DEF palette, bits, blocks
<1>7. CASE n = 1
  <2>1. Container(palette, bits) = [width |-> 0, palette |-> palette, data |-> NoData]
    BY <1>2, <1>7 DEF Container
  <2>2. Shown(Container(palette, bits)) = [i \in Cell |-> palette[1]]
    BY <2>1 DEF Shown
  <2>3. \A i \in Cell : index[i] + 1 = 1
    <3> TAKE i \in Cell
    <3>1. index[i] \in 0..(n - 1)
      BY <1>4, <1>7 DEF n
    <3> QED BY <1>7, <3>1
  <2>4. blocks = [i \in Cell |-> palette[1]]
    <3>1. palette[1] = LookupBlockId(names[1]) /\ names # <<>>
      BY <1>3, <1>4, <1>7
    <3> QED BY <1>5, <2>3, <3>1
  <2>5. palette # <<>>
    BY <1>2, <1>7
  <2>6. NonAir(palette, bits) = IF palette[1] = 0 THEN 0 ELSE Cells
    BY <1>2, <1>7, <2>5 DEF NonAir
  <2>7. {i \in Cell : blocks[i] # 0} = IF palette[1] = 0 THEN {} ELSE Cell
    BY <2>4
  <2> QED BY <2>2, <2>4, <2>6, <2>7, FS_EmptySet, CellsCounted DEF palette, bits, blocks
<1>8. CASE n > 1
  <2>1. n \in 2..TwoTo[MostWidth]
    <3>1. MostWidth \in 0..LongBits
      BY CodecAssumption
    <3>2. TwoTo[MostWidth] \in Nat
      BY <3>1, Powers
    <3> QED BY <1>1, <1>8, <3>1, <3>2, WidthAssumption DEF n
  <2>2. names # <<>> /\ index \in [Cell -> 0..(n - 1)] /\ bits = Pack(index, w)
    <3>1. ~(n <= 1)
      BY <1>1, <1>8
    <3> QED BY <1>4, <1>8, <1>9, <3>1 DEF n, bits, Packed
  <2>3. /\ w \in 1..LongBits /\ bits.longs = Longs(Cells, w)
        /\ \A i \in Cell : EntryAt(bits, Slot(i, w), w) = index[i]
        /\ Shown(Container(palette, bits)) = [i \in Cell |-> palette[index[i] + 1]]
    <3>1. Len(palette) = n
      BY <1>2
    <3> QED BY <1>9, <2>1, <2>2, <3>1, SeveralShown
  <2>4. ASSUME NEW i \in Cell
        PROVE  /\ index[i] \in 0..(n - 1) /\ index[i] + 1 \in 1..n
               /\ palette[index[i] + 1] = blocks[i]
    <3>1. index[i] \in 0..(n - 1) /\ index[i] + 1 \in 1..n
      BY <1>1, <2>2
    <3> QED BY <1>3, <1>5, <2>2, <3>1
  <2>5. [i \in Cell |-> palette[index[i] + 1]] = blocks
    BY <1>5, <2>4
  <2> DEFINE air == {j - 1 : j \in {j \in DOMAIN palette : palette[j] = 0}}
  <2>6. ASSUME NEW i \in Cell
        PROVE  i \div PerLong(w) < bits.longs
               /\ (EntryAt(bits, Slot(i, w), w) \in (0..(n - 1)) \ air <=> blocks[i] # 0)
    <3>1. i \div PerLong(w) < bits.longs
      <4>1. Cells \in Nat /\ i \in 0..(Cells - 1)
        BY CodecAssumption DEF Cell
      <4> QED BY <2>3, <4>1, LongsReach
    <3>2. index[i] \in air <=> palette[index[i] + 1] = 0
      <4>1. ASSUME NEW j \in DOMAIN palette, j - 1 = index[i] PROVE j = index[i] + 1
        BY <1>2, <2>4, <4>1
      <4> DEFINE k == index[i] + 1
                 none == {j \in DOMAIN palette : palette[j] = 0}
      <4>2. k \in DOMAIN palette /\ k - 1 = index[i]
        BY <1>2, <2>4
      <4>3. index[i] \in air <=> \E j \in none : j - 1 = index[i]
        OBVIOUS
      <4>4. (\E j \in none : j - 1 = index[i]) <=> k \in none
        <5> HIDE DEF k
        <5>1. ASSUME NEW j \in none, j - 1 = index[i] PROVE k \in none
          BY <4>1, <5>1 DEF k
        <5>2. k \in none => \E j \in none : j - 1 = index[i]
          BY <4>2
        <5> HIDE DEF none
        <5> QED BY <5>1, <5>2
      <4> QED BY <4>2, <4>3, <4>4
    <3> QED BY <2>3, <2>4, <3>1, <3>2
  <2>7. NonAir(palette, bits)
          = Cardinality({i \in Cell : /\ i \div PerLong(w) < bits.longs
                                      /\ EntryAt(bits, Slot(i, w), w) \in (0..(n - 1)) \ air})
    <3>1. ~(n <= 1)
      BY <1>1, <1>8
    <3> QED BY <1>2, <1>9, <3>1 DEF NonAir
  <2> HIDE DEF air
  <2>8. NonAir(palette, bits) = Cardinality({i \in Cell : blocks[i] # 0})
    BY <2>6, <2>7
  <2> QED BY <2>3, <2>5, <2>8 DEF palette, bits, blocks
<1> QED BY <1>1, <1>6, <1>7, <1>8

(* What the generator of the file writes is such a section. *)
LEMMA StoredSection ==
    ASSUME NEW kinds, \A i \in Cell : kinds[i] \in Kinds, NEW y
    PROVE  Stored(y, kinds)
             = [y |-> y, names |-> Used(kinds),
                data |-> IF Len(Used(kinds)) <= 1 THEN NoData
                         ELSE Pack(Indices(kinds, Used(kinds)), Width(Len(Used(kinds))))]
<1> DEFINE names == Used(kinds)
           n == Len(names)
           index == Indices(kinds, names)
<1>1. n \in 1..Cardinality(Kinds) /\ Cardinality(Kinds) \in Nat
  BY UsedOnce, KindsFinite
<1>2. Stored(y, kinds) = [y |-> y, names |-> names,
                          data |-> IF n = 1 THEN NoData ELSE PackAcross(index, StoredWidth(n))]
  BY DEF Stored
<1>3. DOMAIN index = Cell
  BY DEF Indices
<1> HIDE DEF n, names, index
<1>4. ASSUME n # 1 PROVE PackAcross(index, StoredWidth(n)) = Pack(index, Width(n))
  <2>1. LeastWidth \in 1..LongBits /\ LeastWidth \in 0..LongBits
    BY CodecAssumption
  <2>2. n \in Nat /\ n >= 2 /\ n <= TwoTo[LeastWidth]
    BY <1>1, <1>4, <2>1, Powers, WidthAssumption
  <2>3. Width(n) = LeastWidth /\ StoredWidth(n) = LeastWidth
    BY <2>2, LeastWidthFits
  <2>4. Cardinality(DOMAIN index) \in Nat /\ DOMAIN index \subseteq Nat
    BY <1>3, CellsCounted, CodecAssumption
  <2>5. PackAcross(index, LeastWidth) = Pack(index, LeastWidth)
    BY <2>1, <2>4, NoGap, WidthAssumption
  <2> QED BY <2>3, <2>5
<1>5. n <= 1 <=> n = 1
  BY <1>1
<1> QED BY <1>2, <1>4, <1>5 DEF n, names, index

(* What was written to the file is shown as the blocks it was made of. *)
LEMMA StoredShown ==
    ASSUME NEW kinds, \A i \in Cell : kinds[i] \in Kinds, NEW y,
           NEW section, section = Stored(y, kinds)
    PROVE  /\ Shown(Container(PaletteOf(section), section.data)) = [i \in Cell |-> KindId[kinds[i]]]
           /\ NonAir(PaletteOf(section), section.data) = Cardinality({i \in Cell : kinds[i] # "air"})
<1> DEFINE names == Used(kinds)
           n == Len(names)
           index == Indices(kinds, names)
<1>1. /\ names \in Seq(Kinds) /\ n \in 1..Cardinality(Kinds) /\ Cardinality(Kinds) \in Nat
      /\ \A i \in Cell : \E j \in 1..n : names[j] = kinds[i]
  BY UsedOnce, KindsFinite
<1>2. Packed(section, names, index)
  <2>1. section = [y |-> y, names |-> names,
                   data |-> IF n <= 1 THEN NoData ELSE Pack(index, Width(n))]
    BY StoredSection
  <2> HIDE DEF names, index
  <2> QED BY <2>1 DEF Packed
<1> HIDE DEF names
<1>3. index \in [Cell -> 0..(n - 1)] /\ \A i \in Cell : names[index[i] + 1] = kinds[i]
  BY <1>1, IndicesPoint
<1>4. n <= MaxPalette
  BY <1>1, KindsFit, CodecAssumption
<1>5. names # <<>>
  BY <1>1
<1> HIDE DEF index
<1>9. names \in Seq(Kinds) /\ (names # <<>> => index \in [Cell -> 0..(Len(names) - 1)])
  BY <1>1, <1>3
<1>6. /\ Shown(Container(PaletteOf(section), section.data)) = Said(names, index)
      /\ NonAir(PaletteOf(section), section.data)
           = Cardinality({i \in Cell : Said(names, index)[i] # 0})
  BY <1>2, <1>4, <1>9, SectionShown
<1>7. Said(names, index) = [i \in Cell |-> KindId[kinds[i]]]
  BY <1>3, <1>5, KindsKnown DEF Said
<1>8. {i \in Cell : Said(names, index)[i] # 0} = {i \in Cell : kinds[i] # "air"}
  BY <1>7, KindsKnown
<1> QED BY <1>6, <1>7, <1>8

-----------------------------------------------------------------------------
(* The generated world.                                                    *)

(* What the proofs need of the terrain: it is as high as a number.  TLC    *)
(* cannot evaluate it, so it is a hypothesis of the theorems and not an    *)
(* assumption of the module.                                               *)
Terrain == \A w \in World, x, z \in Int : Surface(w, x, z) \in Int

(* A tree has logs and leaves only: of the trunks nearby that have a part   *)
(* here, one comes first.                                                   *)
LEMMA TreeParts ==
    ASSUME NEW w, NEW x, NEW y, NEW z, NEW sea
    PROVE  TreeBlock(w, x, y, z, sea) \in {"air", "log", "leaves"}
<1> DEFINE made(d) == Part(w, x, y, z, d[1], d[2])
           near == {d \in (-2..2) \X (-2..2) :
                      HasTree(w, x - d[1], z - d[2], sea) /\ made(d) # "air"}
           Row(d) == 5 * d[2] + d[1]
           First(d) == \A e \in near : Row(d) <= Row(e)
<1>1. TreeBlock(w, x, y, z, sea)
        = IF near = {} THEN "air" ELSE made(CHOOSE d \in near : First(d))
  BY DEF TreeBlock
<1>2. \A d \in near : made(d) \in {"log", "leaves"}
  BY DEF Part
<1>3. ASSUME near # {} PROVE \E d \in near : First(d)
  <2> DEFINE S == {Row(d) + 12 : d \in near}
  <2>1. ASSUME NEW d \in near PROVE Row(d) \in Int /\ Row(d) + 12 \in Nat
    <3>1. d[1] \in -2..2 /\ d[2] \in -2..2
      OBVIOUS
    <3> QED BY <3>1
  <2> HIDE DEF near, Row
  <2>2. S \in SUBSET Nat /\ S # {}
    BY <1>3, <2>1
  <2>3. PICK r \in S : \A t \in S : r <= t
    <3> HIDE DEF S
    <3> QED BY <2>2, LeastNatural
  <2>4. PICK d \in near : r = Row(d) + 12
    OBVIOUS
  <2>5. \A e \in near : Row(d) <= Row(e)
    <3> TAKE e \in near
    <3>1. Row(d) + 12 <= Row(e) + 12
      BY <2>3, <2>4
    <3> QED BY <2>1, <3>1
  <2> QED BY <2>5
<1>4. near # {} => (CHOOSE d \in near : First(d)) \in near
  <2> HIDE DEF near, First
  <2> QED BY <1>3
<1> HIDE DEF near, made, First
<1> QED BY <1>1, <1>2, <1>4

(* Every block of the world is of one of the kinds. *)
LEMMA KindKnown ==
    ASSUME Terrain, NEW w \in World, NEW x \in Int, NEW y \in Int, NEW z \in Int, NEW sea \in Int
    PROVE  Kind(w, x, y, z, sea) \in Kinds
<1> DEFINE s == Surface(w, x, z)
           tree == TreeBlock(w, x, y, z, sea)
<1>1. s \in Int
  BY DEF Terrain
<1>2. tree \in {"air", "log", "leaves"}
  BY TreeParts
<1>3. Kind(w, x, y, z, sea)
        = CASE y = s              -> IF s <= sea + 1 THEN "sand" ELSE "grass"
            [] y \in (s - 3)..(s - 1) -> IF s <= sea + 3 THEN "sand" ELSE "dirt"
            [] y < s - 3          -> "stone"
            [] y > s /\ y <= sea  -> "water"
            [] y > s /\ y > sea   -> IF y <= s + 8 THEN tree ELSE "air"
  BY DEF Kind
<1>4. Kinds = {"air", "stone", "grass", "dirt", "water", "sand", "log", "leaves"}
  BY DEF Kinds, KindId
<1> HIDE DEF s, tree
<1>5. CASE y = s
  BY <1>1, <1>3, <1>4, <1>5
<1>6. CASE y \in (s - 3)..(s - 1)
  BY <1>1, <1>3, <1>4, <1>6
<1>7. CASE y < s - 3
  BY <1>1, <1>3, <1>4, <1>7
<1>8. CASE y > s /\ y <= sea
  BY <1>1, <1>3, <1>4, <1>8
<1>9. CASE y > s /\ y > sea
  <2>1. Kind(w, x, y, z, sea) = IF y <= s + 8 THEN tree ELSE "air"
    BY <1>1, <1>3, <1>9
  <2> QED BY <1>2, <1>4, <2>1
<1> QED BY <1>1, <1>5, <1>6, <1>7, <1>8, <1>9

(* The sections are numbered from low to high, Tall blocks each. *)
Numbered(low, high) ==
    /\ low \in Int /\ high \in Int /\ low <= high
    /\ SectionY = low..high
    /\ MinY = low * Tall /\ MaxY = (high + 1) * Tall - 1
LEMMA SectionsNumbered == \E low, high \in SectionY : Numbered(low, high)
<1>1. PICK low, high \in SectionY :
        /\ SectionY = low..high
        /\ MinY = low * (Cells \div Columns) /\ MaxY = (high + 1) * (Cells \div Columns) - 1
  BY PathAssumption
<1>2. low \in Int /\ high \in Int
  BY PathAssumption
<1>3. low <= high
  BY <1>1, <1>2
<1>4. Numbered(low, high)
  BY <1>1, <1>2, <1>3 DEF Numbered, Tall
<1> QED BY <1>4

(* A section is layers of the columns of its chunk. *)
LEMMA Sizes ==
    /\ Cells \in Nat \ {0} /\ Columns \in Nat \ {0} /\ Side \in Nat \ {0} /\ Columns = Side * Side
    /\ Tall \in Nat \ {0} /\ Cells = Tall * Columns
<1>1. Cells \in Nat \ {0} /\ Columns \in Nat \ {0} /\ Side \in Nat \ {0} /\ Cells % Columns = 0
      /\ Columns = Side * Side
  BY CodecAssumption, PathAssumption
<1>2. Tall \in Int /\ Cells = Tall * Columns + (Cells % Columns)
  <2> DEFINE q == Cells \div Columns
             r == Cells % Columns
  <2>1. Cells \in Int
    BY <1>1
  <2>2. q \in Int /\ Cells = q * Columns + r
    BY <1>1, <2>1, Divided
  <2>3. Tall = q
    BY DEF Tall
  <2> HIDE DEF q
  <2> QED BY <2>2, <2>3
<1>3. Tall * Columns \in Int /\ Cells = Tall * Columns
  BY <1>1, <1>2
<1>4. Tall > 0
  <2> SUFFICES ASSUME Tall <= 0 PROVE FALSE
    BY <1>2
  <2>1. Tall * Columns <= 0 * Columns
    BY <1>1, <1>2, OrderedProducts
  <2> QED BY <1>1, <1>3, <2>1
<1> QED BY <1>1, <1>2, <1>3, <1>4

(* The same without the products, which the provers do better without. *)
LEMMA Positive ==
    /\ Cells \in Nat \ {0} /\ Columns \in Nat \ {0} /\ Side \in Nat \ {0} /\ Tall \in Nat \ {0}
BY Sizes

(* Every cell is somewhere. *)
LEMMA Coordinates ==
    ASSUME NEW position \in Int \X Int, NEW i \in Nat, NEW y \in Int
    PROVE  X(position, i) \in Int /\ Y(y, i) \in Int /\ Z(position, i) \in Int
<1> DEFINE a == i % Side
           b == i % Columns
           c == b \div Side
           d == i \div Columns
<1>1. position[1] \in Int /\ position[2] \in Int
  OBVIOUS
<1>2. a \in Int /\ b \in Int /\ d \in Int
  BY Positive, Divided
<1>3. c \in Int
  <2> HIDE DEF b
  <2> QED BY <1>2, Positive, Divided
<1>4. X(position, i) = position[1] * Side + a /\ Z(position, i) = position[2] * Side + c
      /\ Y(y, i) = y * Tall + d
  BY DEF X, Y, Z
<1> HIDE DEF a, c, d
<1> QED BY <1>1, <1>2, <1>3, <1>4, Sizes

(* The blocks of a section are of the kinds. *)
LEMMA KindsOfSection ==
    ASSUME Terrain, NEW w \in World, NEW position \in Int \X Int, NEW y \in Int, NEW sea \in Int
    PROVE  \A i \in Cell : KindsOf(w, position, y, sea)[i] \in Kinds
<1> TAKE i \in Cell
<1>1. i \in Nat
  BY CellsCounted
<1>2. KindsOf(w, position, y, sea)[i] = Kind(w, X(position, i), Y(y, i), Z(position, i), sea)
  BY DEF KindsOf
<1>3. X(position, i) \in Int /\ Y(y, i) \in Int /\ Z(position, i) \in Int
  BY <1>1, Coordinates
<1> QED BY <1>2, <1>3, KindKnown

(* The sections of the file are in their order, one for each y. *)
LEMMA StoredAt ==
    ASSUME NEW w, NEW position, NEW y \in SectionY
    PROVE  SectionOf(StoredSections(w, position), y) = Stored(y, KindsOf(w, position, y, StoredSea))
<1> DEFINE count == Cardinality(SectionY)
           least == CHOOSE v \in SectionY : \A z \in SectionY : v <= z
           made(v) == Stored(v, KindsOf(w, position, v, StoredSea))
           nbt == StoredSections(w, position)
           n == y - least + 1
           here == {j \in DOMAIN nbt : nbt[j].y = y}
<1>1. PICK low, high \in SectionY : Numbered(low, high)
  BY SectionsNumbered
<1>2. low \in Int /\ high \in Int /\ low <= high /\ SectionY = low..high /\ y \in Int
      /\ low <= y /\ y <= high
  BY <1>1 DEF Numbered
<1>3. count = high - low + 1
  BY <1>2, FS_Interval
<1>4. least = low
  <2> DEFINE Is(v) == \A z \in SectionY : v <= z
  <2>1. Is(low) /\ \A v \in SectionY : Is(v) => v = low
    BY <1>2
  <2> HIDE DEF Is
  <2>2. (CHOOSE v \in SectionY : Is(v)) = low
    BY <2>1
  <2> QED BY <2>2 DEF Is
<1>5. nbt = [j \in 1..count |-> made(least + j - 1)]
  BY DEF StoredSections
<1>6. \A v : made(v).y = v
  BY DEF Stored
<1> HIDE DEF count, least, made, nbt
<1>7. n \in 1..count /\ least + n - 1 = y
  BY <1>2, <1>3, <1>4
<1>8. DOMAIN nbt = 1..count /\ \A j \in 1..count : nbt[j] = made(least + j - 1)
  BY <1>5
<1>9. nbt[n] = made(y)
  BY <1>7, <1>8
<1>10. here = {n}
  <2>1. ASSUME NEW j \in 1..count, nbt[j].y = y PROVE j = n
    <3>1. least + j - 1 = y
      BY <1>6, <1>8, <2>1
    <3> QED BY <1>2, <1>4, <3>1
  <2> HIDE DEF n
  <2> QED BY <1>6, <1>7, <1>8, <1>9, <2>1
<1> HIDE DEF n, here
<1>11. Highest(here) = n
  <2>1. Highest({n}) \in {n}
    <3> DEFINE Is(m) == \A k \in {n} : k <= m
    <3>1. Is(n)
      BY <1>7, <1>2, <1>4
    <3>2. Highest({n}) = CHOOSE m \in {n} : Is(m)
      BY DEF Highest
    <3> HIDE DEF Is
    <3> QED BY <3>1, <3>2
  <2> QED BY <1>10, <2>1
<1>12. SectionOf(nbt, y) = nbt[n]
  <2>1. here # {}
    BY <1>10
  <2> QED BY <1>11, <2>1 DEF SectionOf, here
<1> QED BY <1>9, <1>12 DEF made, nbt

(* The sections of a generated chunk as they are read back. *)
LEMMA RebuiltAt ==
    ASSUME Terrain, NEW w \in World, NEW position \in Int \X Int, NEW y \in SectionY,
           NEW kinds, kinds = KindsOf(w, position, y, StoredSea)
    PROVE  LET section == Rebuilt(StoredSections(w, position))[y]
           IN  /\ Shown(section.container) = [i \in Cell |-> KindId[kinds[i]]]
               /\ section.count = Cardinality({i \in Cell : kinds[i] # "air"})
<1> DEFINE nbt == StoredSections(w, position)
           section == SectionOf(nbt, y)
           palette == PaletteOf(section)
<1>1. Rebuilt(nbt)[y] = [count |-> NonAir(palette, section.data),
                         container |-> Container(palette, section.data)]
  BY DEF Rebuilt
<1>2. section = Stored(y, kinds)
  BY StoredAt
<1>3. \A i \in Cell : kinds[i] \in Kinds
  <2>1. y \in Int /\ StoredSea \in Int
    BY PathAssumption
  <2> QED BY <2>1, KindsOfSection
<1> HIDE DEF section
<1>4. /\ Shown(Container(PaletteOf(section), section.data)) = [i \in Cell |-> KindId[kinds[i]]]
      /\ NonAir(PaletteOf(section), section.data) = Cardinality({i \in Cell : kinds[i] # "air"})
  BY <1>2, <1>3, StoredShown
<1> HIDE DEF palette, nbt
<1> QED BY <1>1, <1>4 DEF palette, nbt

(* A pair of InWorlds is a world and a chunk that has a place. *)
LEMMA RightPlace ==
    ASSUME NEW wc \in InWorlds
    PROVE  wc[1] \in World /\ Position[wc[2]] \in Int \X Int
<1>1. PICK w \in World, c \in Chunk : wc = <<w, c>>
  BY DEF InWorlds
<1>2. Position \in [Chunk -> Int \X Int]
  BY PathAssumption
<1>3. wc[1] = w /\ wc[2] = c
  BY <1>1
<1>4. Position[c] \in Int \X Int
  <2> DEFINE P == Int \X Int
  <2>1. Position \in [Chunk -> P]
    BY <1>2
  <2> HIDE DEF P
  <2>2. Position[c] \in P
    BY <2>1
  <2> QED BY <2>2 DEF P
<1> QED BY <1>3, <1>4

(* The packets of all generated chunks show the world. *)
LEMMA AllSent == Terrain => SentRight = InWorlds
<1> SUFFICES ASSUME Terrain, NEW wc \in InWorlds PROVE wc \in SentRight
  BY DEF SentRight
<1> DEFINE w == wc[1]
           position == Position[wc[2]]
           packet == SentPacket(w, position)
<1>1. w \in World /\ position \in Int \X Int
  BY RightPlace
<1> HIDE DEF w, position
<1> DEFINE kinds(y) == KindsOf(w, position, y, SentSea)
           shows(y) == [i \in Cell |-> KindId[kinds(y)[i]]]
           count(y) == Cardinality({i \in Cell : kinds(y)[i] # "air"})
<1>2. ASSUME NEW y \in SectionY
      PROVE  Shown(packet[y].container) = shows(y) /\ packet[y].count = count(y)
  <2>1. y \in Int /\ SentSea \in Int
    BY PathAssumption
  <2>2. \A i \in Cell : kinds(y)[i] \in Kinds
    BY <1>1, <2>1, KindsOfSection
  <2>3. packet[y] = Direct(kinds(y))
    BY DEF SentPacket
  <2> HIDE DEF kinds, packet
  <2> QED BY <2>2, <2>3, DirectShown
<1>3. DOMAIN packet = SectionY
  BY DEF SentPacket
<1>4. Drawn(packet) = [y \in SectionY |-> [blocks |-> Shown(packet[y].container),
                                           count |-> packet[y].count]]
  BY <1>3 DEF Drawn
<1>5. AsGenerated(w, position) = [y \in SectionY |-> [blocks |-> shows(y), count |-> count(y)]]
  BY DEF AsGenerated
<1> HIDE DEF shows, count, packet
<1>6. Drawn(packet) = AsGenerated(w, position)
  BY <1>2, <1>4, <1>5
<1> QED BY <1>6 DEF SentRight, w, position, packet

(* So do the packets that are made of the file. *)
LEMMA AllRebuilt == Terrain /\ StoredSea = SentSea => RebuiltRight = InWorlds
<1> SUFFICES ASSUME Terrain, StoredSea = SentSea, NEW wc \in InWorlds PROVE wc \in RebuiltRight
  BY DEF RebuiltRight
<1> DEFINE w == wc[1]
           position == Position[wc[2]]
           packet == Rebuilt(StoredSections(w, position))
<1>1. w \in World /\ position \in Int \X Int
  BY RightPlace
<1> HIDE DEF w, position
<1> DEFINE kinds(y) == KindsOf(w, position, y, SentSea)
           shows(y) == [i \in Cell |-> KindId[kinds(y)[i]]]
           count(y) == Cardinality({i \in Cell : kinds(y)[i] # "air"})
<1>2. ASSUME NEW y \in SectionY
      PROVE  Shown(packet[y].container) = shows(y) /\ packet[y].count = count(y)
  <2>1. kinds(y) = KindsOf(w, position, y, StoredSea)
    OBVIOUS
  <2> HIDE DEF kinds
  <2> QED BY <1>1, <2>1, RebuiltAt
<1>3. DOMAIN packet = SectionY
  BY DEF Rebuilt
<1>4. Drawn(packet) = [y \in SectionY |-> [blocks |-> Shown(packet[y].container),
                                           count |-> packet[y].count]]
  BY <1>3 DEF Drawn
<1>5. AsGenerated(w, position) = [y \in SectionY |-> [blocks |-> shows(y), count |-> count(y)]]
  BY DEF AsGenerated
<1> HIDE DEF shows, count, packet
<1>6. Drawn(packet) = AsGenerated(w, position)
  BY <1>2, <1>4, <1>5
<1> QED BY <1>6 DEF RebuiltRight, w, position, packet

-----------------------------------------------------------------------------
(* The highest number of a set.                                            *)

(* A highest number is the only one. *)
LEMMA HighestIs ==
    ASSUME NEW S \in SUBSET Int, NEW m \in S, \A k \in S : k <= m
    PROVE  Highest(S) = m
<1> DEFINE Is(n) == \A k \in S : k <= n
<1>1. Is(m) /\ \A n \in S : Is(n) => n = m
  <2>1. ASSUME NEW n \in S, Is(n) PROVE n = m
    <3>1. n <= m /\ m <= n /\ n \in Int /\ m \in Int
      BY <2>1
    <3> QED BY <3>1
  <2> QED BY <2>1
<1>2. Highest(S) = CHOOSE n \in S : Is(n)
  BY DEF Highest
<1> HIDE DEF Is
<1> QED BY <1>1, <1>2

(* Among numbers between two bounds there is one. *)
LEMMA HasHighest ==
    ASSUME NEW low \in Int, NEW high \in Int, NEW S \in SUBSET (low..high), S # {}
    PROVE  Highest(S) \in S /\ \A k \in S : k <= Highest(S)
<1> DEFINE T == {high - k : k \in S}
           Is(m) == \A k \in S : k <= m
<1>1. T \in SUBSET Nat /\ T # {}
  <2>1. \A k \in S : high - k \in Nat
    <3>1. \A k \in S : k \in Int /\ k <= high
      OBVIOUS
    <3> QED BY <3>1
  <2> QED BY <2>1
<1>2. PICK t \in T : \A u \in T : t <= u
  <2> HIDE DEF T
  <2> QED BY <1>1, LeastNatural
<1>3. PICK m \in S : t = high - m
  OBVIOUS
<1>4. Is(m)
  <2> SUFFICES ASSUME NEW k \in S PROVE k <= m
    OBVIOUS
  <2>1. high - m <= high - k /\ m \in Int /\ k \in Int
    BY <1>2, <1>3
  <2> QED BY <2>1
<1>5. Highest(S) = CHOOSE k \in S : Is(k)
  BY DEF Highest
<1>6. Highest(S) \in S /\ Is(Highest(S))
  <2> HIDE DEF Is
  <2> QED BY <1>4, <1>5
<1> QED BY <1>6

-----------------------------------------------------------------------------
(* The chunks of other programs.                                           *)

(* Sections that are not crowded are drawn as they say. *)
LEMMA AllForeign == ForeignRight = DOMAIN Foreign
<1> SUFFICES ASSUME NEW name \in DOMAIN Foreign, NEW y \in SectionY, ~Crowded(Foreign[name], y)
             PROVE  Drawn(Rebuilt(ForeignSections(name)))[y] = AsSaved(Foreign[name], y)
  BY DEF ForeignRight
<1> DEFINE all == Foreign[name]
           count == Len(all)
           nbt == ForeignSections(name)
           here == {n \in DOMAIN all : all[n].y = y}
           h == Highest(here)
           said == all[h]
           section == SectionOf(nbt, y)
           packet == Rebuilt(nbt)
           names == IF here = {} THEN <<>> ELSE said.names
           index == said.indices
           blocks == Said(names, index)
<1>1. /\ DOMAIN all = 1..count /\ count \in Nat
      /\ \A n \in 1..count :
           /\ all[n].names \in Seq(STRING)
           /\ all[n].names # <<>> => all[n].indices \in [Cell -> 0..(Len(all[n].names) - 1)]
  BY ForeignAssumption
<1>2. /\ DOMAIN nbt = DOMAIN all
      /\ \A n \in DOMAIN all :
           nbt[n].y = all[n].y /\ Packed(nbt[n], all[n].names, all[n].indices)
  BY DEF ForeignSections, Packed
<1>3. \A n \in here : Len(all[n].names) <= MaxPalette
  <2>1. ASSUME NEW n \in here PROVE ~(Len(all[n].names) > MaxPalette)
    BY DEF Crowded
  <2>2. \A n \in here : Len(all[n].names) \in Nat
    BY <1>1
  <2>3. MaxPalette \in Nat
    BY CodecAssumption
  <2> QED BY <2>1, <2>2, <2>3
<1>4. {n \in DOMAIN nbt : nbt[n].y = y} = here
  BY <1>2
<1>5. section = IF here = {} THEN NoSection ELSE nbt[h]
  BY <1>4 DEF SectionOf
<1>6. here # {} => h \in here
  <2>1. here \in SUBSET (1..count)
    BY <1>1
  <2>2. 1 \in Int /\ count \in Int
    BY <1>1
  <2> HIDE DEF here, count
  <2> QED BY <2>1, <2>2, HasHighest
<1>7. AsSaved(all, y)
        = [blocks |-> blocks, count |-> Cardinality({i \in Cell : blocks[i] # 0})]
  <2> DEFINE empty == here = {} \/ said.names = <<>>
             shown == [i \in Cell |-> IF empty THEN 0 ELSE LookupBlockId(said.names[index[i] + 1])]
  <2>1. AsSaved(all, y) = [blocks |-> shown, count |-> Cardinality({i \in Cell : shown[i] # 0})]
    BY DEF AsSaved
  <2>2. blocks = shown
    <3>1. names = <<>> <=> empty
      OBVIOUS
    <3>2. ~empty => names = said.names
      OBVIOUS
    <3> HIDE DEF names, empty
    <3> QED BY <3>1, <3>2 DEF Said
  <2> HIDE DEF shown, blocks
  <2> QED BY <2>1, <2>2
<1>8. /\ names \in Seq(STRING) /\ Len(names) <= MaxPalette
      /\ names # <<>> => index \in [Cell -> 0..(Len(names) - 1)]
      /\ Packed(section, names, index)
  <2>1. CASE here = {}
    <3>1. names = <<>> /\ section = NoSection
      BY <1>5, <2>1
    <3>2. Packed(NoSection, <<>>, index)
      BY DEF Packed, NoSection
    <3>3. MaxPalette \in Nat
      BY CodecAssumption
    <3> HIDE DEF names, index, section
    <3> QED BY <3>1, <3>2, <3>3
  <2>2. CASE here # {}
    <3>1. h \in here /\ h \in 1..count
      BY <1>1, <1>6, <2>2
    <3>2. names = said.names /\ section = nbt[h]
      BY <1>5, <2>2
    <3> HIDE DEF names, section, h, nbt
    <3> QED BY <1>1, <1>2, <1>3, <3>1, <3>2
  <2> QED BY <2>1, <2>2
<1> HIDE DEF names, index, section
<1>9. /\ Shown(Container(PaletteOf(section), section.data)) = blocks
      /\ NonAir(PaletteOf(section), section.data) = Cardinality({i \in Cell : blocks[i] # 0})
  BY <1>8, SectionShown
<1>10. packet[y] = [count |-> NonAir(PaletteOf(section), section.data),
                    container |-> Container(PaletteOf(section), section.data)]
       /\ DOMAIN packet = SectionY
  BY DEF Rebuilt, section
<1>11. Drawn(packet)[y] = [blocks |-> Shown(packet[y].container), count |-> packet[y].count]
  BY <1>10 DEF Drawn
<1> HIDE DEF packet, blocks, nbt
<1>12. Drawn(packet)[y] = AsSaved(all, y)
  BY <1>7, <1>9, <1>10, <1>11
<1> QED BY <1>12 DEF packet, nbt

-----------------------------------------------------------------------------
(* Heights.                                                                *)

(* A cell is in the column that it is in one layer below. *)
LEMMA SameColumn ==
    ASSUME NEW position, NEW i \in Nat, NEW c, c = i % Columns
    PROVE  c \in 0..(Columns - 1) /\ X(position, i) = X(position, c) /\ Z(position, i) = Z(position, c)
<1> DEFINE q == i \div Columns
           b == c \div Side
           a == c % Side
<1>1. q \in Int /\ c \in 0..(Columns - 1) /\ i = q * Columns + c
  <2> DEFINE r == i % Columns
  <2>1. i \in Int
    OBVIOUS
  <2>2. q \in Int /\ r \in 0..(Columns - 1) /\ i = q * Columns + r
    BY <2>1, Positive, Divided
  <2>3. c = r
    OBVIOUS
  <2> HIDE DEF q, r
  <2> QED BY <2>2, <2>3
<1>2. c \in Int
  BY <1>1, Positive
<1>3. b \in Int /\ a \in 0..(Side - 1) /\ c = b * Side + a
  BY <1>2, Positive, Divided
<1> HIDE DEF q, b, a
<1>4. i = (q * Side + b) * Side + a
  <2>1. q * Columns = (q * Side) * Side
    BY <1>1, Sizes
  <2>2. (q * Side) * Side + b * Side = (q * Side + b) * Side
    BY <1>1, <1>3, Sizes
  <2>3. q * Columns \in Int /\ b * Side \in Int /\ (q * Side) * Side \in Int
        /\ (q * Side + b) * Side \in Int
    BY <1>1, <1>3, Sizes
  <2> QED BY <1>1, <1>3, <2>1, <2>2, <2>3
<1>5. i % Side = a
  <2> DEFINE p == q * Side + b
  <2>1. p \in Int
    BY <1>1, <1>3, Sizes
  <2> HIDE DEF p
  <2>2. (p * Side + a) % Side = a
    BY <1>3, <2>1, Positive, Quotient
  <2> QED BY <1>4, <2>2 DEF p
<1>6. c % Columns = c
  <2> DEFINE p == c \div Columns
             r == c % Columns
  <2>1. p \in Int /\ r \in 0..(Columns - 1) /\ c = p * Columns + r
    BY <1>2, Positive, Divided
  <2>2. p = 0
    <3> HIDE DEF p, r
    <3>1. p >= 1 => p * Columns >= 1 * Columns
      BY <2>1, Positive
    <3>2. p <= -1 => p * Columns <= (-1) * Columns
      BY <2>1, Positive
    <3> QED BY <1>1, <2>1, <3>1, <3>2, Positive
  <2>3. c = r
    <3> HIDE DEF p, r
    <3> QED BY <2>1, <2>2, Positive
  <2> QED BY <2>3
<1> QED BY <1>1, <1>5, <1>6 DEF X, Z, a

(* The cells of a column in all sections are at all heights of the world,  *)
LEMMA CellInWorld ==
    ASSUME NEW y \in SectionY, NEW i \in Cell
    PROVE  Y(y, i) \in MinY..MaxY
<1> DEFINE q == i \div Columns
           r == i % Columns
<1>1. PICK low, high \in SectionY : Numbered(low, high)
  BY SectionsNumbered
<1>2. /\ low \in Int /\ high \in Int /\ y \in Int /\ low <= y /\ y <= high
      /\ MinY = low * Tall /\ MaxY = (high + 1) * Tall - 1
  BY <1>1 DEF Numbered
<1>3. i \in Nat /\ i < Cells
  BY Sizes DEF Cell
<1>4. q \in Int /\ r \in 0..(Columns - 1) /\ i = q * Columns + r
  BY <1>3, Positive, Divided
<1>5. Y(y, i) = y * Tall + q
  BY DEF Y
<1> HIDE DEF q, r
<1>6. q >= 0
  <2> SUFFICES ASSUME q <= -1 PROVE FALSE
    BY <1>4
  <2>1. q * Columns <= (-1) * Columns
    BY <1>4, Positive, OrderedProducts
  <2>2. q * Columns \in Int /\ (-1) * Columns = -Columns
    BY <1>4, Sizes
  <2> QED BY <1>3, <1>4, <2>1, <2>2, Sizes
<1>7. q < Tall
  <2> SUFFICES ASSUME Tall <= q PROVE FALSE
    BY <1>4, Sizes
  <2>1. Tall * Columns <= q * Columns
    BY <1>4, Positive, OrderedProducts
  <2>2. q * Columns \in Int
    BY <1>4, Sizes
  <2> QED BY <1>3, <1>4, <2>1, <2>2, Sizes
<1>8. low * Tall <= y * Tall /\ y * Tall <= high * Tall /\ (high + 1) * Tall = high * Tall + Tall
  BY <1>2, Positive, OrderedProducts
<1>9. low * Tall \in Int /\ y * Tall \in Int /\ high * Tall \in Int
  BY <1>2, Sizes
<1> QED BY <1>2, <1>4, <1>5, <1>6, <1>7, <1>8, <1>9, Sizes

(* and each height of the world is one of theirs. *)
LEMMA CellAtHeight ==
    ASSUME NEW c \in 0..(Columns - 1), NEW v \in MinY..MaxY
    PROVE  \E y \in SectionY, i \in Cell : i % Columns = c /\ Y(y, i) = v
<1> DEFINE y == v \div Tall
           r == v % Tall
           i == r * Columns + c
<1>1. PICK low, high \in SectionY : Numbered(low, high)
  BY SectionsNumbered
<1>2. /\ low \in Int /\ high \in Int /\ SectionY = low..high
      /\ MinY = low * Tall /\ MaxY = (high + 1) * Tall - 1
  BY <1>1 DEF Numbered
<1>3. v \in Int /\ low * Tall <= v /\ v <= (high + 1) * Tall - 1
      /\ low * Tall \in Int /\ (high + 1) * Tall \in Int
  <2>1. low * Tall \in Int /\ (high + 1) * Tall \in Int
    BY <1>2, Sizes
  <2> QED BY <1>2, <2>1
<1>4. y \in Int /\ r \in 0..(Tall - 1) /\ v = y * Tall + r
  BY <1>3, Positive, Divided
<1> HIDE DEF y, r
<1>5. y * Tall \in Int /\ (y + 1) * Tall = y * Tall + Tall /\ c \in Int /\ r \in Int
  BY <1>4, Sizes
<1>6. low <= y
  <2> SUFFICES ASSUME y + 1 <= low PROVE FALSE
    BY <1>2, <1>4
  <2>1. (y + 1) * Tall <= low * Tall
    BY <1>2, <1>4, Positive, OrderedProducts
  <2> QED BY <1>3, <1>4, <1>5, <2>1, Sizes
<1>7. y <= high
  <2> SUFFICES ASSUME high + 1 <= y PROVE FALSE
    BY <1>2, <1>4
  <2>1. (high + 1) * Tall <= y * Tall
    BY <1>2, <1>4, Positive, OrderedProducts
  <2> QED BY <1>3, <1>4, <1>5, <2>1, Sizes
<1>8. y \in SectionY
  BY <1>2, <1>4, <1>6, <1>7
<1>9. i \in Cell
  <2>1. r * Columns \in Nat /\ r * Columns <= (Tall - 1) * Columns
    BY <1>4, <1>5, Positive, OrderedProducts
  <2>2. (Tall - 1) * Columns = Tall * Columns - Columns
    BY Sizes
  <2> QED BY <1>5, <2>1, <2>2, Sizes DEF Cell
<1>10. i \div Columns = r /\ i % Columns = c
  BY <1>5, Positive, Quotient
<1> HIDE DEF i
<1>11. Y(y, i) = v
  BY <1>4, <1>10 DEF Y
<1> QED BY <1>8, <1>9, <1>10, <1>11

(* The server finds the height that was packed: 9 is the width that the    *)
(* length of the array gives, and it keeps a height from MinY to MaxY + 1. *)
LEMMA HeightFound ==
    ASSUME NEW tops, \A c \in 0..(Columns - 1) : tops[c] \in (MinY - 1)..MaxY,
           NEW c \in 0..(Columns - 1)
    PROVE  SafeSpawnY(Heights(tops), c) = tops[c] + 1
<1> DEFINE values == [i \in 0..(Columns - 1) |-> tops[i] + 1 - MinY]
           heights == Heights(tops)
           t == tops[c]
           entry == EntryAt(heights, Slot(c, 9), 9)
<1>1. MinY \in Int /\ MaxY \in Int /\ Columns \in Nat \ {0} /\ LongBits \in Nat
      /\ 9 \in 1..LongBits /\ 9 \in 0..LongBits
  <2>1. PICK low, high \in SectionY : Numbered(low, high)
    BY SectionsNumbered
  <2>2. MinY \in Int /\ MaxY \in Int
    <3>1. low * Tall \in Int /\ (high + 1) * Tall \in Int
      BY <2>1, Positive DEF Numbered
    <3> QED BY <2>1, <3>1 DEF Numbered
  <2> QED BY <2>2, Positive, CodecAssumption, HeightAssumption
<1>2. heights = Pack(values, 9)
  BY DEF Heights
<1>3. ASSUME NEW i \in 0..(Columns - 1)
      PROVE  i \in Nat /\ values[i] \in 0..(TwoTo[9] - 1) /\ values[i] = tops[i] + 1 - MinY
  <2> DEFINE u == tops[i]
             p == TwoTo[9]
  <2>1. u \in (MinY - 1)..MaxY /\ p \in Nat /\ MaxY + 1 - MinY < p
    BY <1>1, Powers, HeightAssumption
  <2>2. values[i] = u + 1 - MinY /\ i \in Nat
    OBVIOUS
  <2> HIDE DEF u, values, p
  <2>3. u + 1 - MinY \in 0..(p - 1)
    BY <1>1, <2>1
  <2> QED BY <2>2, <2>3 DEF u, p
<1>4. DOMAIN values = 0..(Columns - 1)
  OBVIOUS
<1> HIDE DEF values
<1>5. entry = values[c]
  <2>1. \A i \in DOMAIN values : i \in Nat /\ values[i] \in 0..(TwoTo[9] - 1)
    BY <1>3, <1>4
  <2> QED BY <1>1, <1>2, <1>4, <2>1, ReadBack
<1>6. heights.longs = Longs(Columns, 9)
  <2>1. Cardinality(DOMAIN values) = Columns
    <3>1. 0 \in Int /\ Columns - 1 \in Int /\ Columns - 1 - 0 + 1 = Columns /\ ~(0 > Columns - 1)
      BY <1>1
    <3> QED BY <1>4, <3>1, FS_Interval
  <2> QED BY <1>2, <2>1 DEF Pack
<1>7. (heights.longs * LongBits) \div Columns = 9
  BY <1>6, HeightAssumption
<1> HIDE DEF heights, entry
<1>8. SafeSpawnY(heights, c) = Larger(MinY - 1, Smaller(MinY + entry - 1, MaxY)) + 1
  BY <1>7 DEF SafeSpawnY, entry
<1>9. t \in (MinY - 1)..MaxY /\ entry = t + 1 - MinY
  BY <1>3, <1>5
<1> HIDE DEF t
<1>10. MinY + entry - 1 = t
  BY <1>1, <1>9
<1>11. Larger(MinY - 1, Smaller(t, MaxY)) = t
  <2>1. Smaller(t, MaxY) = t
    BY <1>1, <1>9 DEF Smaller
  <2> QED BY <1>1, <1>9, <2>1 DEF Larger
<1> QED BY <1>8, <1>10, <1>11 DEF heights, t

(* The blocks of a generated chunk that are drawn in a column are those    *)
(* the height of the column is taken from.                                 *)
LEMMA AllStand == Terrain => StandsRight = World
<1> SUFFICES ASSUME Terrain, NEW w \in World PROVE w \in StandsRight
  BY DEF StandsRight
<1> DEFINE spot == SpawnPosition
           block(c, v) == Kind(w, X(spot, c), v, Z(spot, c), StoredSea)
           solid(c) == {v \in MinY..MaxY : block(c, v) # "air"}
           tops == [c \in 0..(Columns - 1) |-> Highest({MinY - 1} \cup solid(c))]
           packet == Rebuilt(StoredSections(w, spot))
           drawn == [y \in SectionY |-> Shown(packet[y].container)]
           under(y, c) == {i \in Cell : i % Columns = c /\ drawn[y][i] # 0}
           heads(y, c) == {MinY} \cup {Y(y, i) + 1 : i \in under(y, c)}
           All(c) == {DrawnTop(drawn[y], y, c) : y \in SectionY}
<1>1. spot \in Int \X Int /\ StoredSea \in Int /\ SectionY \subseteq Int
  BY PathAssumption
<1>2. PICK low, high \in SectionY : Numbered(low, high)
  BY SectionsNumbered
<1>3. MinY \in Int /\ MaxY \in Int
  <2>1. low * Tall \in Int /\ (high + 1) * Tall \in Int
    BY <1>2, Positive DEF Numbered
  <2> QED BY <1>2, <2>1 DEF Numbered
<1>4. ASSUME NEW y \in SectionY, NEW i \in Cell
      PROVE  drawn[y][i] # 0 <=> block(i % Columns, Y(y, i)) # "air"
  <2> DEFINE kinds == KindsOf(w, spot, y, StoredSea)
             c == i % Columns
  <2>1. drawn[y] = [j \in Cell |-> KindId[kinds[j]]]
    <3>1. kinds = KindsOf(w, spot, y, StoredSea) /\ drawn[y] = Shown(packet[y].container)
      OBVIOUS
    <3> HIDE DEF kinds, drawn, spot
    <3>2. /\ Shown(packet[y].container) = [j \in Cell |-> KindId[kinds[j]]]
          /\ packet[y].count = Cardinality({j \in Cell : kinds[j] # "air"})
      BY <1>1, <3>1, RebuiltAt
    <3> QED BY <3>1, <3>2
  <2>2. i \in Nat
    BY CellsCounted
  <2>3. X(spot, i) = X(spot, c) /\ Z(spot, i) = Z(spot, c)
    BY <2>2, SameColumn
  <2>4. kinds[i] = Kind(w, X(spot, i), Y(y, i), Z(spot, i), StoredSea)
    BY DEF KindsOf
  <2>5. kinds[i] \in Kinds
    <3>1. y \in Int
      BY <1>1
    <3> QED BY <1>1, <3>1, KindsOfSection
  <2>6. drawn[y][i] = KindId[kinds[i]]
    BY <2>1
  <2> HIDE DEF kinds, c, drawn
  <2>7. kinds[i] = block(c, Y(y, i))
    BY <2>3, <2>4
  <2>8. KindId[kinds[i]] # 0 <=> kinds[i] # "air"
    BY <2>5, KindsKnown
  <2> QED BY <2>6, <2>7, <2>8 DEF c
<1>5. ASSUME NEW c \in 0..(Columns - 1)
      PROVE  /\ tops[c] \in {MinY - 1} \cup solid(c) /\ tops[c] \in (MinY - 1)..MaxY
             /\ \A v \in solid(c) : v <= tops[c]
  <2> DEFINE S == {MinY - 1} \cup solid(c)
  <2>1. tops[c] = Highest(S)
    OBVIOUS
  <2>2. S \in SUBSET ((MinY - 1)..MaxY)
    <3>1. MinY - 1 <= MaxY /\ MinY - 1 \in Int
      <4>1. low \in Int /\ high \in Int /\ low <= high /\ MinY = low * Tall
            /\ MaxY = (high + 1) * Tall - 1
        BY <1>2 DEF Numbered
      <4>2. low * Tall <= (high + 1) * Tall /\ (high + 1) * Tall \in Int /\ low * Tall \in Int
        BY <4>1, Positive, OrderedProducts
      <4> QED BY <4>1, <4>2
    <3>2. \A v \in solid(c) : v \in (MinY - 1)..MaxY
      BY <1>3
    <3>3. MinY - 1 \in (MinY - 1)..MaxY
      BY <1>3, <3>1
    <3> HIDE DEF solid
    <3> QED BY <3>2, <3>3
  <2>3. S # {} /\ MinY - 1 \in Int
    BY <1>3
  <2> HIDE DEF S
  <2>4. Highest(S) \in S /\ \A v \in S : v <= Highest(S)
    BY <1>3, <2>2, <2>3, HasHighest
  <2>5. \A v \in solid(c) : v \in S
    BY DEF S
  <2> HIDE DEF solid, tops
  <2> QED BY <2>1, <2>2, <2>4, <2>5 DEF S
<1>6. ASSUME NEW c \in 0..(Columns - 1)
      PROVE  Highest(All(c)) = tops[c] + 1
  <2> DEFINE t == tops[c]
  <2>1. t \in Int /\ MinY - 1 <= t /\ t <= MaxY
    <3>1. t \in (MinY - 1)..MaxY
      BY <1>5
    <3> HIDE DEF t
    <3> QED BY <1>3, <3>1
  <2>2. \A v \in solid(c) : v <= t
    BY <1>5
  <2>3. t = MinY - 1 \/ t \in solid(c)
    BY <1>5
  <2>4. ASSUME NEW y \in SectionY, NEW i \in under(y, c)
        PROVE  Y(y, i) \in solid(c)
    <3>1. i \in Cell /\ i % Columns = c /\ drawn[y][i] # 0
      OBVIOUS
    <3>2. block(c, Y(y, i)) # "air"
      BY <1>4, <3>1
    <3>3. Y(y, i) \in MinY..MaxY
      BY <3>1, CellInWorld
    <3> HIDE DEF block
    <3> QED BY <3>2, <3>3
  <2>5. ASSUME NEW v \in solid(c)
        PROVE  \E y \in SectionY : \E i \in under(y, c) : Y(y, i) = v
    <3>1. PICK y \in SectionY, i \in Cell : i % Columns = c /\ Y(y, i) = v
      BY CellAtHeight
    <3>2. drawn[y][i] # 0
      <4>1. block(i % Columns, Y(y, i)) # "air"
        BY <3>1
      <4> HIDE DEF drawn, block
      <4> QED BY <1>4, <4>1
    <3> HIDE DEF drawn
    <3> QED BY <3>1, <3>2
  <2>6. \A v \in solid(c) : v \in Int /\ MinY <= v
    BY <1>3
  <2> HIDE DEF t, solid, under
  <2>7. ASSUME NEW y \in SectionY
        PROVE  heads(y, c) \in SUBSET (MinY..(t + 1)) /\ heads(y, c) # {}
    <3>1. \A i \in under(y, c) : Y(y, i) + 1 \in MinY..(t + 1)
      <4> TAKE i \in under(y, c)
      <4>1. Y(y, i) \in Int /\ MinY <= Y(y, i) /\ Y(y, i) <= t
        BY <2>2, <2>4, <2>6
      <4> QED BY <1>3, <2>1, <4>1
    <3>2. MinY \in MinY..(t + 1)
      BY <1>3, <2>1
    <3> QED BY <3>1, <3>2
  <2>8. ASSUME NEW y \in SectionY
        PROVE  /\ DrawnTop(drawn[y], y, c) \in MinY..(t + 1)
               /\ \A k \in heads(y, c) : k <= DrawnTop(drawn[y], y, c)
    <3>1. DrawnTop(drawn[y], y, c) = Highest(heads(y, c))
      BY DEF DrawnTop, under
    <3>2. t + 1 \in Int
      BY <2>1
    <3> HIDE DEF heads, drawn
    <3>3. Highest(heads(y, c)) \in heads(y, c) /\ \A k \in heads(y, c) : k <= Highest(heads(y, c))
      BY <1>3, <2>7, <3>2, HasHighest
    <3> QED BY <2>7, <3>1, <3>3
  <2> HIDE DEF drawn
  <2>9. t + 1 \in All(c)
    <3>1. CASE t = MinY - 1
      <4> DEFINE d == DrawnTop(drawn[low], low, c)
      <4>1. d \in MinY..(t + 1)
        BY <2>8
      <4>2. d \in All(c)
        OBVIOUS
      <4> HIDE DEF d, All
      <4>3. d = t + 1
        BY <1>3, <2>1, <3>1, <4>1
      <4> QED BY <4>2, <4>3
    <3>2. CASE t \in solid(c)
      <4>1. PICK y \in SectionY : \E i \in under(y, c) : Y(y, i) = t
        BY <2>5, <3>2
      <4> DEFINE d == DrawnTop(drawn[y], y, c)
      <4>2. t + 1 \in heads(y, c)
        BY <4>1
      <4>3. d \in MinY..(t + 1) /\ t + 1 <= d
        BY <2>8, <4>2
      <4>4. d \in All(c)
        OBVIOUS
      <4> HIDE DEF d, All
      <4>5. d = t + 1
        BY <1>3, <2>1, <4>3
      <4> QED BY <4>4, <4>5
    <3> QED BY <2>3, <3>1, <3>2
  <2>10. \A k \in All(c) : k \in Int /\ k <= t + 1
    <3> TAKE k \in All(c)
    <3>1. k \in MinY..(t + 1)
      BY <2>8
    <3> QED BY <1>3, <2>1, <3>1
  <2>11. All(c) \in SUBSET Int /\ \A k \in All(c) : k <= t + 1
    BY <2>10
  <2> HIDE DEF All
  <2>12. Highest(All(c)) = t + 1
    BY <2>9, <2>11, HighestIs
  <2> QED BY <2>12 DEF t
<1> DEFINE heights == StoredHeights(w, spot)
<1>7. heights = Heights(tops)
  BY DEF StoredHeights
<1> HIDE DEF tops, All
<1>8. \A c \in 0..(Columns - 1) : SafeSpawnY(heights, c) = tops[c] + 1
  BY <1>5, <1>7, HeightFound
<1>9. \A c \in 0..(Columns - 1) : SafeSpawnY(heights, c) = Highest(All(c))
  BY <1>6, <1>8
<1> QED BY <1>9 DEF StandsRight, All

-----------------------------------------------------------------------------
(* The theorems about ChunkPath.                                           *)

(* The world and the chunk at spawn stay what they are. *)
Chosen == world \in World /\ spawn \in {"generated"} \cup DOMAIN Foreign

(* World and spawn are chosen once. *)
LEMMA PathChosen == PathSpec => []Chosen
<1>1. PathInit => Chosen
  BY DEF PathInit, Chosen
<1>2. Chosen /\ [PathNext]_pathVars => Chosen'
  BY DEF Chosen, PathNext, pathVars
<1> QED BY <1>1, <1>2, PTL DEF PathSpec

(* ChunkPath adds what is sent to RegionStore and changes none of its      *)
(* steps, so that all that is proved of RegionStore holds here.            *)
THEOREM PathImplementsStore == PathSpec => Spec
<1>1. PathInit => Init
  BY DEF PathInit
<1>2. [PathNext]_pathVars => [Next]_vars
  <2> SUFFICES ASSUME [PathNext]_pathVars PROVE [Next]_vars
    OBVIOUS
  <2>1. ASSUME NEW p \in Proc,
               \/ Request(p) \/ Lookup(p) \/ Fetch(p) \/ LoadHit(p) \/ LoadMiss(p)
               \/ Save(p) \/ EnsureStub(p) \/ GiveUp(p)
        PROVE  Next
    BY <2>1 DEF Next, Read
  <2>2. CASE OtherStep
    BY <2>1, <2>2 DEF OtherStep, Next
  <2>3. ASSUME NEW p \in Proc, ReadChunk(p) PROVE Next
    BY <2>1, <2>3 DEF ReadChunk
  <2>4. ASSUME NEW p \in Proc, MakeChunk(p) PROVE Next
    BY <2>1, <2>4 DEF MakeChunk
  <2>5. ASSUME NEW p \in Proc, ServeSpawn(p) PROVE UNCHANGED vars
    BY <2>5 DEF ServeSpawn
  <2>6. CASE UNCHANGED pathVars
    BY <2>6 DEF pathVars
  <2> QED BY <2>2, <2>3, <2>4, <2>5, <2>6 DEF PathNext
<1> QED BY <1>1, <1>2, PTL DEF PathSpec, Spec

(* With one worker, files and answers are as RegionStore has them while    *)
(* chunks are made in each of their ways.                                  *)
THEOREM PathKeepsPromise == ASSUME OneWorker PROVE PathSpec => KeepsPromise /\ []EntriesReadable
BY PathImplementsStore, Refinement, Entries, PTL

(* Whichever way a chunk takes to the client, it is the generated one: for *)
(* every terrain of integer heights, every size of chunk and section, and  *)
(* any number of workers, if both generators have the same sea level.      *)
THEOREM SameWorldOnEveryWay ==
    ASSUME Terrain, StoredSea = SentSea
    PROVE  PathSpec => []SameWorld
<1>1. Chosen => SameWorld
  BY AllSent, AllRebuilt DEF Chosen, SameWorld, InWorlds
<1> QED BY <1>1, PathChosen, PTL

(* Every chunk another program wrote is drawn as it says, but for sections *)
(* with more names than the palette has room for.                          *)
THEOREM ForeignChunksDrawn == PathSpec => []ForeignDrawn
<1>1. Chosen => ForeignDrawn
  BY AllForeign DEF Chosen, ForeignDrawn
<1> QED BY <1>1, PathChosen, PTL

(* In every generated world the height the server takes from the packed    *)
(* heights is that of the blocks the client draws.                         *)
THEOREM SpawnOnGround == ASSUME Terrain PROVE PathSpec => []SpawnStands
<1>1. Chosen => SpawnStands
  BY AllStand DEF Chosen, SpawnStands
<1> QED BY <1>1, PathChosen, PTL
=============================================================================
