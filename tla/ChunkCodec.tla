----------------------------- MODULE ChunkCodec -----------------------------
(***************************************************************************)
(* The two forms a chunk has: NBT in the region file, and the packet.  The *)
(* generator writes both (chunk_sender.c build_generated_section, main.c   *)
(* build_generated_chunk_nbt_payload), and build_chunk_data_packet makes a *)
(* packet of the NBT of any world.                                         *)
(*                                                                         *)
(* A section has a palette and one index into it for each of its cells,    *)
(* packed into longs.  The packet has no length before the longs: a client *)
(* takes as many as the width of an index says, so that one too many or    *)
(* one too few garbles all that follows.  Packed data are kept here as the *)
(* number of longs and the set of the bits that are one, counted through.  *)
(* Compression, biomes, light and tag names are left out.                  *)
(***************************************************************************)
EXTENDS Integers, Sequences, FiniteSets

CONSTANTS
    Cells,          \* cells of a section (4096)
    Columns,        \* columns of a chunk (256)
    SectionY,       \* sections of a chunk (-4..19)
    MinY, MaxY,     \* lowest and highest block (-64 and 319)
    LongBits,       \* 64
    LeastWidth, MostWidth,  \* widths of an index (4 and 8)
    MaxPalette,     \* MAX_PALETTE (256)
    Garbled         \* what a client makes of a packet it cannot read

ASSUME CodecAssumption ==
    /\ {Cells, Columns, LongBits, LeastWidth, MostWidth, MaxPalette} \subseteq Nat \ {0}
    /\ LeastWidth <= MostWidth /\ MostWidth <= LongBits

Cell == 0..Cells - 1

Larger(a, b) == IF a > b THEN a ELSE b
Smaller(a, b) == IF a < b THEN a ELSE b
Highest(numbers) == CHOOSE n \in numbers : \A m \in numbers : m <= n

-----------------------------------------------------------------------------
(* Block ids: those the generator writes into a packet, and BLOCK_TABLE,   *)
(* which knows some of the names of a region file.                         *)

KindId == [air |-> 0, stone |-> 1, grass |-> 9, dirt |-> 10, water |-> 86, sand |-> 118,
           log |-> 137, leaves |-> 279]

BlockTable == [air |-> 0, stone |-> 1, grass |-> 9, dirt |-> 10, water |-> 86, sand |-> 118,
               log |-> 137, leaves |-> 279, planks |-> 15, fern |-> 0]
LookupBlockId(name) == IF name \in DOMAIN BlockTable THEN BlockTable[name] ELSE 1

Kinds == DOMAIN KindId

(* The palettes of the generators have room for 8 and 16 entries, and the  *)
(* reader has room for theirs.                                             *)
ASSUME KindsFit == Cardinality(Kinds) <= 8 /\ Cardinality(Kinds) <= MaxPalette

-----------------------------------------------------------------------------
(* Packing.                                                                *)

TwoTo[n \in 0..LongBits] == IF n = 0 THEN 1 ELSE 2 * TwoTo[n - 1]

CeilLog2(n) ==
    IF n <= 1 THEN 0 ELSE CHOOSE b \in 1..LongBits : TwoTo[b - 1] < n /\ n <= TwoTo[b]
Width(n) == Larger(CeilLog2(n), LeastWidth)
PerLong(width) == LongBits \div width

(* The first bit of entry i, if no entry may reach into a second long. *)
Slot(i, width) == (i \div PerLong(width)) * LongBits + (i % PerLong(width)) * width
Longs(n, width) == (n + PerLong(width) - 1) \div PerLong(width)

OneBits(value, width) == {k \in 0..width - 1 : (value \div TwoTo[k]) % 2 = 1}
Pack(values, width) ==
    [longs |-> Longs(Cardinality(DOMAIN values), width),
     ones  |-> UNION {{Slot(i, width) + k : k \in OneBits(values[i], width)} : i \in DOMAIN values}]

(* pack_palette_indices_u64: without a gap, and across longs. *)
PackAcross(values, width) ==
    [longs |-> (Cardinality(DOMAIN values) * width + LongBits - 1) \div LongBits,
     ones  |-> UNION {{i * width + k : k \in OneBits(values[i], width)} : i \in DOMAIN values}]

EntryAt(packed, slot, width) ==
    CHOOSE value \in 0..TwoTo[width] - 1 :
        OneBits(value, width) = {k \in 0..width - 1 : slot + k \in packed.ones}

(* What the code relies on and states nowhere: with as many kinds as there *)
(* are, indices have the least width, which fills a long without a gap, so *)
(* that both ways of packing are one; and MaxPalette names have an index   *)
(* of MostWidth.                                                           *)
ASSUME WidthAssumption ==
    /\ LongBits % LeastWidth = 0
    /\ Cardinality(Kinds) <= TwoTo[LeastWidth] /\ MaxPalette <= TwoTo[MostWidth]

(* A height fits into 9 bits, and 9 is what the length of the array of     *)
(* heights divided by the columns gives.                                   *)
ASSUME HeightAssumption ==
    /\ 9 <= LongBits /\ MaxY + 1 - MinY < TwoTo[9]
    /\ (Longs(Columns, 9) * LongBits) \div Columns = 9

NoData == [longs |-> 0, ones |-> {}]

-----------------------------------------------------------------------------
(* From blocks to a packet: build_generated_section.                       *)

(* The kinds of a section in the order in which they appear. *)
Used(kinds) ==
    LET first == {i \in Cell : \A j \in 0..i - 1 : kinds[j] # kinds[i]}
        Earlier(i) == {j \in first : j < i}
    IN  [n \in 1..Cardinality(first) |->
            kinds[CHOOSE i \in first : Cardinality(Earlier(i)) = n - 1]]

Indices(kinds, palette) ==
    LET index == [k \in {palette[j] : j \in DOMAIN palette} |->
                    (CHOOSE j \in DOMAIN palette : palette[j] = k) - 1]
    IN  [i \in Cell |-> index[kinds[i]]]

(* write_bs_container *)
Container(palette, packed) ==
    CASE Len(palette) = 0 -> [width |-> 0, palette |-> <<0>>, data |-> NoData]
      [] Len(palette) = 1 -> [width |-> 0, palette |-> palette, data |-> NoData]
      [] Len(palette) > 1 /\ Width(Len(palette)) > MostWidth ->
            [width |-> 0, palette |-> <<1>>, data |-> NoData]
      [] Len(palette) > 1 /\ Width(Len(palette)) <= MostWidth ->
            [width |-> Width(Len(palette)), palette |-> palette, data |-> packed]

Direct(kinds) ==
    LET palette == Used(kinds)
        ids == [j \in DOMAIN palette |-> KindId[palette[j]]]
    IN  [count     |-> Cardinality({i \in Cell : kinds[i] # "air"}),
         container |-> Container(ids, IF Len(palette) = 1 THEN NoData
                                      ELSE Pack(Indices(kinds, palette), Width(Len(palette))))]

-----------------------------------------------------------------------------
(* From blocks to NBT: build_generated_chunk_nbt_payload.                  *)

StoredWidthExact(n) == Larger(CeilLog2(n), 1)            \* mutant: no least width
StoredWidth(n) == Larger(CeilLog2(n), LeastWidth)

Stored(y, kinds) ==
    LET palette == Used(kinds)
    IN  [y |-> y, names |-> palette,
         data |-> IF Len(palette) = 1 THEN NoData
                  ELSE PackAcross(Indices(kinds, palette), StoredWidth(Len(palette)))]

(* WORLD_SURFACE: one above the highest block of each column, in 9 bits. *)
HeightsAcross(tops) == PackAcross([i \in 0..Columns - 1 |-> tops[i] + 1 - MinY], 9)
                                                         \* mutant: packed like the sections
Heights(tops) == Pack([i \in 0..Columns - 1 |-> tops[i] + 1 - MinY], 9)

-----------------------------------------------------------------------------
(* From NBT to a packet: build_chunk_data_packet.                          *)

(* Sections come in any order; one of the same y replaces one before it,   *)
(* and one outside the world is ignored.                                   *)
NoSection == [names |-> <<>>, data |-> NoData]
SectionOf(nbt, y) ==
    LET here == {i \in DOMAIN nbt : nbt[i].y = y}
    IN  IF here = {} THEN NoSection ELSE nbt[Highest(here)]

(* parse_bs_palette keeps the first MaxPalette entries. *)
PaletteOf(section) ==
    [j \in 1..Smaller(Len(section.names), MaxPalette) |-> LookupBlockId(section.names[j])]

NonAirByIndex(palette, packed) ==                          \* mutant: index 0 taken for air
    IF Len(palette) <= 1 THEN IF palette = <<>> \/ palette[1] = 0 THEN 0 ELSE Cells
    ELSE Cardinality({i \in Cell :
           /\ i \div PerLong(Width(Len(palette))) < packed.longs
           /\ EntryAt(packed, Slot(i, Width(Len(palette))), Width(Len(palette))) # 0})
NonAir(palette, packed) ==
    IF Len(palette) <= 1 THEN IF palette = <<>> \/ palette[1] = 0 THEN 0 ELSE Cells
    ELSE LET width == Width(Len(palette))
             air == {j - 1 : j \in {j \in DOMAIN palette : palette[j] = 0}}
         IN  Cardinality({i \in Cell :
               /\ i \div PerLong(width) < packed.longs
               /\ EntryAt(packed, Slot(i, width), width) \in 0..Len(palette) - 1 \ air})

Rebuilt(nbt) ==
    [y \in SectionY |->
        LET section == SectionOf(nbt, y)
            palette == PaletteOf(section)
        IN  [count     |-> NonAir(palette, section.data),
             container |-> Container(palette, section.data)]]

(* compute_safe_spawn_y_from_chunk_nbt: the width of an entry is found     *)
(* from the length of the array.                                           *)
SafeSpawnY(heights, column) ==
    LET width == (heights.longs * LongBits) \div Columns
        top == MinY + EntryAt(heights, Slot(column, width), width) - 1
    IN  Larger(MinY - 1, Smaller(top, MaxY)) + 1

-----------------------------------------------------------------------------
(* The client: the blocks of a section, if the packet can be read.         *)
Shown(container) ==
    LET c == container
        index == [i \in Cell |-> EntryAt(c.data, Slot(i, c.width), c.width)]
    IN  CASE c.width = 0 -> [i \in Cell |-> c.palette[1]]
          [] c.width > 0 /\ c.data.longs # Longs(Cells, c.width) -> Garbled
          [] c.width > 0 /\ c.data.longs = Longs(Cells, c.width) ->
                IF \A i \in Cell : index[i] < Len(c.palette)
                THEN [i \in Cell |-> c.palette[index[i] + 1]] ELSE Garbled
=============================================================================
