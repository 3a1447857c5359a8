---------------------------- MODULE RegionStore -----------------------------
(***************************************************************************)
(* The files behind the generated world (main.c): one region file, with a  *)
(* table of locations and the chunks appended after it, and the packet     *)
(* cache, one file for each chunk.  Workers serve chunks                   *)
(* (send_stream_chunk) and write both files on the way, without any lock;  *)
(* main takes the same steps, less the sending, before it accepts          *)
(* (prewarm_generated_chunk_cache).  The process may die between any two   *)
(* writes.                                                                 *)
(*                                                                         *)
(* Files are written in blocks (stdio flushes 4096 bytes): the header with *)
(* its table is one write, a chunk Size[c] sectors, a cached packet        *)
(* PacketBlocks blocks, the first with its own header.  Index i of data is *)
(* sector i + 1 of the file.  A block nobody wrote is a Hole of zeros.     *)
(* Bytes are left out: a block is whose it is and which part it is.        *)
(***************************************************************************)
EXTENDS Integers, Sequences, FiniteSets

CONSTANTS
    Proc,           \* worker threads
    Chunk,          \* chunks of one region, without the one at spawn, which is read at startup
    Size,           \* Chunk -> sectors of its compressed data, a byte in the table
    PacketBlocks,   \* blocks of a cached packet
    Nothing,        \* no chunk
    Broken,         \* bytes that are no chunk
    Hole,           \* a block of zeros
    MaxCrashes      \* bound: restarts

ASSUME SizeAssumption == Size \in [Chunk -> 1..255] /\ PacketBlocks \in Nat \ {0}
ASSUME NamesAssumption == Nothing \notin Chunk /\ Broken \notin Chunk \cup {Nothing}
                          /\ Hole \notin Chunk \X Nat
ASSUME BoundAssumption == MaxCrashes \in Nat

VARIABLES
    readsRegion,    \* world_source auto with a world and real chunks enabled
    header,         \* the region file: "absent", "empty" (0 bytes) or "full"
    loc,            \* its table: Chunk -> index of the first sector, 0 if none
    data,           \* its sectors after the header
    cache,          \* generated_packets: Chunk -> the blocks of its file
    pc, want,       \* worker: its step and the chunk it is about
    copy,           \* worker: the table it read
    at, part,       \* worker: where it reads or writes, and which part
    served,         \* worker: what was asked and what was sent last
    crashes

region == <<header, loc, data>>
worker == <<pc, want, copy, at, part>>
vars == <<readsRegion, region, cache, worker, served, crashes>>

-----------------------------------------------------------------------------
(* Files.                                                                  *)

Block == (Chunk \X Nat) \cup {Hole}
NoChunks == [c \in Chunk |-> 0]

(* fwrite of one block at a position, maybe past the end *)
Written(blocks, i, b) ==
    [j \in 1..(IF i > Len(blocks) THEN i ELSE Len(blocks)) |->
        IF j = i THEN b ELSE IF j <= Len(blocks) THEN blocks[j] ELSE Hole]

(* The whole data of chunk c begin at index i. *)
WholeAt(c, i) ==
    /\ i > 0 /\ i + Size[c] - 1 <= Len(data)
    /\ \A k \in 1..Size[c] : data[i + k - 1] = <<c, k>>

Readable(c) == header = "full" /\ WholeAt(c, loc[c])

(* load_cached_generated_chunk_packet: the file begins with the header of  *)
(* this chunk and is as long as the header says.                           *)
HitAnyLength(c) == cache[c] # <<>> /\ cache[c][1] # Hole   \* mutant: length not checked
Hit(c) == Len(cache[c]) = PacketBlocks /\ cache[c][1] # Hole

Packet(c) ==
    IF \A k \in 1..Len(cache[c]) : cache[c][k] # Hole /\ Len(cache[c]) = PacketBlocks
    THEN c ELSE Broken

-----------------------------------------------------------------------------
Init ==
    /\ readsRegion \in BOOLEAN
    /\ header = "absent" /\ loc = NoChunks /\ data = <<>>
    /\ cache = [c \in Chunk |-> <<>>]
    /\ pc = [p \in Proc |-> "idle"] /\ want = [p \in Proc |-> Nothing]
    /\ copy = [p \in Proc |-> NoChunks]
    /\ at = [p \in Proc |-> 0] /\ part = at
    /\ served = [p \in Proc |-> [asked |-> Nothing, got |-> Nothing]]
    /\ crashes = 0

Goto(p, step) == pc' = [pc EXCEPT ![p] = step]
Send(p, what) == served' = [served EXCEPT ![p] = [asked |-> want[p], got |-> what]]

(* The locals of the functions go with them. *)
Return(p) ==
    /\ Goto(p, "idle")
    /\ want' = [want EXCEPT ![p] = Nothing]
    /\ copy' = [copy EXCEPT ![p] = NoChunks]
    /\ at' = [at EXCEPT ![p] = 0] /\ part' = [part EXCEPT ![p] = 0]

-----------------------------------------------------------------------------
(* send_stream_chunk: from the region file, from the cache, or generated.  *)

Request(p) ==
    /\ pc[p] = "idle"
    /\ \E c \in Chunk : want' = [want EXCEPT ![p] = c]
    /\ Goto(p, IF readsRegion THEN "lookup" ELSE "load")
    /\ UNCHANGED <<readsRegion, region, cache, copy, at, part, served, crashes>>

(* load_chunk_nbt_at: the size of the file and the table first, ...        *)
Lookup(p) ==
    /\ pc[p] = "lookup"
    /\ IF header = "full" /\ loc[want[p]] \in 1..Len(data)
       THEN Goto(p, "fetch") /\ at' = [at EXCEPT ![p] = loc[want[p]]]
       ELSE Goto(p, "load") /\ at' = at
    /\ UNCHANGED <<readsRegion, region, cache, want, copy, part, served, crashes>>

(* ... then the data, which unpack to the chunk that lies there, or do not *)
(* unpack at all.                                                          *)
Fetch(p) ==
    /\ pc[p] = "fetch"
    /\ \/ /\ \E c \in Chunk : WholeAt(c, at[p]) /\ Send(p, c)
          /\ Return(p)
       \/ /\ \A c \in Chunk : ~WholeAt(c, at[p])
          /\ Goto(p, "load") /\ at' = [at EXCEPT ![p] = 0]
          /\ UNCHANGED <<want, copy, part, served>>
    /\ UNCHANGED <<readsRegion, region, cache, crashes>>

LoadHit(p) ==
    /\ pc[p] = "load" /\ Hit(want[p])
    /\ Send(p, Packet(want[p]))
    /\ Goto(p, "probe")
    /\ UNCHANGED <<readsRegion, region, cache, want, copy, at, part, crashes>>

(* The packet is generated and sent, and then saved. *)
LoadMiss(p) ==
    /\ pc[p] = "load" /\ ~Hit(want[p])
    /\ Send(p, want[p])
    /\ Goto(p, "save")
    /\ UNCHANGED <<readsRegion, region, cache, want, copy, at, part, crashes>>

-----------------------------------------------------------------------------
(* save_cached_generated_chunk_packet: truncate, write, close.             *)

SaveOpen(p) ==
    /\ pc[p] = "save"
    /\ cache' = [cache EXCEPT ![want[p]] = <<>>]
    /\ part' = [part EXCEPT ![p] = 1]
    /\ Goto(p, "packet")
    /\ UNCHANGED <<readsRegion, region, want, copy, at, served, crashes>>

SaveBlockPastEnd(p) ==                                   \* mutant: < read as <=
    /\ pc[p] = "packet"
    /\ cache' = [cache EXCEPT ![want[p]] = Written(@, part[p], <<want[p], part[p]>>)]
    /\ IF part[p] <= PacketBlocks
       THEN part' = [part EXCEPT ![p] = @ + 1] /\ pc' = pc
       ELSE part' = [part EXCEPT ![p] = 0] /\ Goto(p, "probe")
    /\ UNCHANGED <<readsRegion, region, want, copy, at, served, crashes>>
SaveBlock(p) ==
    /\ pc[p] = "packet"
    /\ cache' = [cache EXCEPT ![want[p]] = Written(@, part[p], <<want[p], part[p]>>)]
    /\ IF part[p] < PacketBlocks
       THEN part' = [part EXCEPT ![p] = @ + 1] /\ pc' = pc
       ELSE part' = [part EXCEPT ![p] = 0] /\ Goto(p, "probe")
    /\ UNCHANGED <<readsRegion, region, want, copy, at, served, crashes>>

-----------------------------------------------------------------------------
(* ensure_generated_world_region_chunk_stub                                *)

(* fopen "rb" only asks whether the file is there. *)
Probe(p) ==
    /\ pc[p] = "probe"
    /\ Goto(p, IF header = "absent" THEN "create" ELSE "open")
    /\ UNCHANGED <<readsRegion, region, cache, want, copy, at, part, served, crashes>>

(* fopen "wb" creates it, or truncates what another worker has created. *)
Create(p) ==
    /\ pc[p] = "create"
    /\ header' = "empty" /\ loc' = NoChunks /\ data' = <<>>
    /\ Goto(p, "blank")
    /\ UNCHANGED <<readsRegion, cache, want, copy, at, part, served, crashes>>

WriteBlankHeader(p) ==
    /\ pc[p] = "blank"
    /\ header' = "full" /\ loc' = NoChunks
    /\ Goto(p, "open")
    /\ UNCHANGED <<readsRegion, data, cache, want, copy, at, part, served, crashes>>

(* fopen "rb+" and the table: a file without a whole header is given up,   *)
(* and a chunk that has a location is there already.                       *)
OpenRegion(p) ==
    /\ pc[p] = "open"
    /\ IF header = "full" /\ loc[want[p]] = 0
       THEN /\ copy' = [copy EXCEPT ![p] = loc]
            /\ Goto(p, "seek")
            /\ UNCHANGED <<want, at, part>>
       ELSE Return(p)
    /\ UNCHANGED <<readsRegion, region, cache, served, crashes>>

(* fseek SEEK_END: the data go to the end of the file as it is now. *)
SeekAndWriteHeader(p) ==                                 \* mutant: the header first
    /\ pc[p] = "seek"
    /\ at' = [at EXCEPT ![p] = Len(data) + 1]
    /\ part' = [part EXCEPT ![p] = 1]
    /\ copy' = [copy EXCEPT ![p][want[p]] = Len(data) + 1]
    /\ loc' = copy'[p]
    /\ Goto(p, "append")
    /\ UNCHANGED <<readsRegion, header, data, cache, want, served, crashes>>
SeekEnd(p) ==
    /\ pc[p] = "seek"
    /\ at' = [at EXCEPT ![p] = Len(data) + 1]
    /\ part' = [part EXCEPT ![p] = 1]
    /\ Goto(p, "append")
    /\ UNCHANGED <<readsRegion, region, cache, want, copy, served, crashes>>

(* A sector; in a file truncated meanwhile it leaves a header of zeros. *)
AppendSector(p) ==
    /\ pc[p] = "append"
    /\ data' = Written(data, at[p] + part[p] - 1, <<want[p], part[p]>>)
    /\ header' = "full"
    /\ IF part[p] < Size[want[p]]
       THEN part' = [part EXCEPT ![p] = @ + 1] /\ pc' = pc
       ELSE Goto(p, "commit") /\ part' = part
    /\ UNCHANGED <<readsRegion, loc, cache, want, copy, at, served, crashes>>

(* The whole header goes back, with one more location. *)
WriteHeader(p) ==
    /\ pc[p] = "commit"
    /\ loc' = [copy[p] EXCEPT ![want[p]] = at[p]]
    /\ header' = "full"
    /\ Return(p)
    /\ UNCHANGED <<readsRegion, data, cache, served, crashes>>

-----------------------------------------------------------------------------
(* Memory is exhausted, a file cannot be opened or a packet not be written. *)
GiveUp(p) ==
    /\ pc[p] \in {"load", "save", "packet", "create", "open", "seek"}
    /\ Return(p)
    /\ UNCHANGED <<readsRegion, region, cache, served, crashes>>

(* The process dies and starts again: the files are what they were. *)
Restart ==
    /\ crashes < MaxCrashes
    /\ pc' = [p \in Proc |-> "idle"] /\ want' = [p \in Proc |-> Nothing]
    /\ copy' = [p \in Proc |-> NoChunks]
    /\ at' = [p \in Proc |-> 0] /\ part' = at'
    /\ crashes' = crashes + 1
    /\ UNCHANGED <<readsRegion, region, cache, served>>

Read(p) == Request(p) \/ Lookup(p) \/ Fetch(p) \/ LoadHit(p) \/ LoadMiss(p)
Save(p) == SaveOpen(p) \/ SaveBlock(p)
EnsureStub(p) ==
    \/ Probe(p) \/ Create(p) \/ WriteBlankHeader(p) \/ OpenRegion(p)
    \/ SeekEnd(p) \/ AppendSector(p) \/ WriteHeader(p)

Next ==
    \/ \E p \in Proc : Read(p) \/ Save(p) \/ EnsureStub(p) \/ GiveUp(p)
    \/ Restart

Spec == Init /\ [][Next]_vars

-----------------------------------------------------------------------------
(* Properties.                                                             *)

Steps == {"idle", "lookup", "fetch", "load", "save", "packet", "probe", "create",
          "blank", "open", "seek", "append", "commit"}

(* The types of the variables; no file of the cache outgrows its packet.   *)
TypeOK ==
    /\ readsRegion \in BOOLEAN
    /\ header \in {"absent", "empty", "full"}
    /\ loc \in [Chunk -> Nat] /\ data \in Seq(Block)
    /\ cache \in [Chunk -> Seq(Block)]
    /\ \A c \in Chunk : Len(cache[c]) <= PacketBlocks
    /\ pc \in [Proc -> Steps] /\ want \in [Proc -> Chunk \cup {Nothing}]
    /\ copy \in [Proc -> [Chunk -> Nat]]
    /\ at \in [Proc -> Nat] /\ part \in [Proc -> Nat]
    /\ served \in [Proc -> [asked : Chunk \cup {Nothing},
                            got : Chunk \cup {Nothing, Broken}]]
    /\ crashes \in 0..MaxCrashes

(* With one worker: a location in the region file points to the whole data *)
(* of its chunk at every moment, in the middle of a save and after a death *)
(* at any point of it.                                                     *)
EntriesReadable == \A c \in Chunk : loc[c] # 0 => Readable(c)

(* With one worker the files keep the promise of ChunkStore: a chunk that  *)
(* can be read back from the region file can be read back for ever, and a  *)
(* request is answered with the chunk it asks for, whole, whatever a death *)
(* has left of either file.                                                *)
Store == INSTANCE ChunkStore WITH stored <- {c \in Chunk : Readable(c)}
KeepsPromise == Store!Spec

(* main.c:3426 "Chunk terrain is generated procedurally and persisted to   *)
(* generated packet cache and region files.": a chunk the region file has  *)
(* stays in it.  Two workers that save to one region lose chunks.          *)
Persisted == [][\A c \in Chunk : Readable(c) => Readable(c)']_vars
=============================================================================
