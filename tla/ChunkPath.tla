------------------------------ MODULE ChunkPath ------------------------------
(***************************************************************************)
(* What the chunks of RegionStore are made of.  A client is sent a chunk   *)
(* that was generated as a packet, one that was generated for the region   *)
(* file and read back from it, a copy of either out of the cache, or the   *)
(* chunk at spawn, which was read at startup and may come from a world     *)
(* another program has written.                                            *)
(***************************************************************************)
EXTENDS RegionStore, WorldGen, ChunkCodec

CONSTANTS
    Position,       \* Chunk -> its coordinates
    SpawnPosition,  \* those of the chunk at spawn
    StoredSea,      \* the sea level of the numbers in main.c (64)
    SentSea,        \* GENERATED_SEA_LEVEL (64)
    Foreign         \* chunks other programs wrote: name -> their sections, each a y,
                    \* names and an index into them for each cell

VARIABLES
    world,          \* the world that is generated
    spawn,          \* the chunk at spawn: "generated" or the name of a foreign one
    how             \* worker: how the packet it sent last was made

pathVars == <<vars, world, spawn, how>>

ASSUME PathAssumption ==
    /\ Side \in Nat \ {0} /\ Columns = Side * Side /\ Cells % Columns = 0
    /\ SectionY \subseteq Int
    /\ \E low, high \in SectionY :
          /\ SectionY = low..high
          /\ MinY = low * (Cells \div Columns) /\ MaxY = (high + 1) * (Cells \div Columns) - 1
    /\ Position \in [Chunk -> Int \X Int] /\ SpawnPosition \in Int \X Int
    /\ StoredSea \in Int /\ SentSea \in Int

(* Another program writes sections whose indices lie within their palette. *)
ASSUME ForeignAssumption ==
    /\ "generated" \notin DOMAIN Foreign
    /\ \A name \in DOMAIN Foreign :
          /\ DOMAIN Foreign[name] = 1..Len(Foreign[name]) /\ Len(Foreign[name]) \in Nat
          /\ \A n \in DOMAIN Foreign[name] :
                LET section == Foreign[name][n]
                IN  /\ section.y \in Int /\ section.names \in Seq(STRING)
                    /\ section.names # <<>> =>
                          section.indices \in [Cell -> 0..Len(section.names) - 1]

-----------------------------------------------------------------------------
(* Chunks.                                                                 *)

Tall == Cells \div Columns
X(position, i) == position[1] * Side + (i % Side)
Z(position, i) == position[2] * Side + ((i % Columns) \div Side)
Y(y, i) == y * Tall + (i \div Columns)

KindsOf(w, position, y, sea) ==
    [i \in Cell |-> Kind(w, X(position, i), Y(y, i), Z(position, i), sea)]

SentPacket(w, position) ==
    [y \in SectionY |-> Direct(KindsOf(w, position, y, SentSea))]

StoredSections(w, position) ==
    LET count == Cardinality(SectionY)
        low == CHOOSE y \in SectionY : \A z \in SectionY : y <= z
    IN  [n \in 1..count |-> Stored(low + n - 1, KindsOf(w, position, low + n - 1, StoredSea))]

StoredHeights(w, position) ==
    Heights([i \in 0..Columns - 1 |->
        Highest({MinY - 1} \cup {y \in MinY..MaxY :
               Kind(w, X(position, i), y, Z(position, i), StoredSea) # "air"})])

(* The program that wrote a foreign chunk packs as the packet does. *)
ForeignSections(name) ==
    [n \in DOMAIN Foreign[name] |->
        LET section == Foreign[name][n]
        IN  [y |-> section.y, names |-> section.names,
             data |-> IF Len(section.names) <= 1 THEN NoData
                      ELSE Pack(section.indices, Width(Len(section.names)))]]

(* What a client draws of a packet, and how many blocks it is told of. *)
Drawn(packet) ==
    [y \in DOMAIN packet |-> [blocks |-> Shown(packet[y].container), count |-> packet[y].count]]

-----------------------------------------------------------------------------
PathInit ==
    /\ Init
    /\ world \in World /\ spawn \in {"generated"} \cup DOMAIN Foreign
    /\ how = [p \in Proc |-> "none"]

Made(p, ways) == \E way \in ways : how' = [how EXCEPT ![p] = way]

ReadChunk(p) == Fetch(p) /\ Made(p, IF pc'[p] = "idle" THEN {"rebuilt"} ELSE {how[p]})

(* If the generator of packets runs out of memory, the other one is used;  *)
(* a file of the cache does not say which of the two it came from.         *)
MakeChunk(p) == (LoadMiss(p) \/ LoadHit(p)) /\ Made(p, {"sent", "rebuilt"})

ServeSpawn(p) ==
    /\ pc[p] = "idle" /\ readsRegion
    /\ Made(p, {"spawn"})
    /\ UNCHANGED vars

OtherStep ==
    /\ \/ \E p \in Proc : Request(p) \/ Lookup(p) \/ Save(p) \/ EnsureStub(p) \/ GiveUp(p)
       \/ Restart
    /\ UNCHANGED how

PathNext ==
    /\ OtherStep \/ \E p \in Proc : ReadChunk(p) \/ MakeChunk(p) \/ ServeSpawn(p)
    /\ UNCHANGED <<world, spawn>>

PathSpec == PathInit /\ [][PathNext]_pathVars

-----------------------------------------------------------------------------
(* Properties.                                                             *)

AsGenerated(w, position) ==
    [y \in SectionY |->
        LET kinds == KindsOf(w, position, y, SentSea)
        IN  [blocks |-> [i \in Cell |-> KindId[kinds[i]]],
             count  |-> Cardinality({i \in Cell : kinds[i] # "air"})]]

InWorlds == {<<w, c>> : w \in World, c \in Chunk}
SentRight ==
    {wc \in InWorlds : LET w == wc[1]  spot == Position[wc[2]]
                       IN  Drawn(SentPacket(w, spot)) = AsGenerated(w, spot)}
RebuiltRight ==
    {wc \in InWorlds : LET w == wc[1]  spot == Position[wc[2]]
                       IN  Drawn(Rebuilt(StoredSections(w, spot))) = AsGenerated(w, spot)}

(* The world is the same whichever way a chunk takes to the client: two    *)
(* generators, two ways of packing, a table of names and a reader that     *)
(* trusts the width of an index agree on every block of it.                *)
SameWorld ==
    \A p \in Proc : served[p].got \in Chunk =>
        /\ how[p] = "sent" => <<world, served[p].got>> \in SentRight
        /\ how[p] = "rebuilt" => <<world, served[p].got>> \in RebuiltRight

(* What the sections of a foreign chunk say is at y. *)
AsSaved(all, y) ==
    LET here == {n \in DOMAIN all : all[n].y = y}
        section == all[Highest(here)]
        empty == here = {} \/ section.names = <<>>
        blocks == [i \in Cell |-> IF empty THEN 0
                                  ELSE LookupBlockId(section.names[section.indices[i] + 1])]
    IN  [blocks |-> blocks, count |-> Cardinality({i \in Cell : blocks[i] # 0})]
Crowded(all, y) == \E n \in DOMAIN all : all[n].y = y /\ Len(all[n].names) > MaxPalette
ForeignRight ==
    {name \in DOMAIN Foreign :
        LET drawn == Drawn(Rebuilt(ForeignSections(name)))
        IN  \A y \in SectionY : Crowded(Foreign[name], y) \/ drawn[y] = AsSaved(Foreign[name], y)}

(* A chunk of another program is drawn as its palettes say, whatever order *)
(* its sections are in, as far as the names are known; and the client is   *)
(* told of as many blocks as it draws.  Sections with more than MaxPalette *)
(* names are not: their palette is cut, their data are not.                *)
ForeignDrawn ==
    \A p \in Proc : how[p] = "spawn" /\ spawn # "generated" => spawn \in ForeignRight

(* The height of each column as the sections are drawn, and as the server  *)
(* finds it.                                                               *)
DrawnTop(drawn, y, column) ==
    Highest({MinY} \cup {Y(y, i) + 1 : i \in {i \in Cell : i % Columns = column /\ drawn[i] # 0}})
StandsRight ==
    {w \in World :
        LET tops == {[y \in SectionY |-> Shown(Rebuilt(StoredSections(w, SpawnPosition))[y].container)]}
            heights == StoredHeights(w, SpawnPosition)
        IN  \E drawn \in tops : \A column \in 0..Columns - 1 :
              SafeSpawnY(heights, column) = Highest({DrawnTop(drawn[y], y, column) : y \in SectionY})}

(* Who joins stands on the highest block of the column that is drawn, not  *)
(* in it and not above it.                                                 *)
SpawnStands ==
    \A p \in Proc : how[p] = "spawn" /\ spawn = "generated" => world \in StandsRight
=============================================================================
