------------------------- MODULE ChunkStream_proofs -------------------------
(***************************************************************************)
(* Proofs about ChunkStream, for any radius, any places the player visits, *)
(* any blocks and any sizes of the two caches.                             *)
(*                                                                         *)
(* The loops and the caches take a least element (the first chunk of the   *)
(* rows, the oldest entry); DataLemmas shows that there is one.            *)
(***************************************************************************)
EXTENDS ChunkStream, DataLemmas

-----------------------------------------------------------------------------
(* Least elements.                                                         *)

(* The oldest entry of a cache that is not empty is one of its entries. *)
LEMMA OldestHolds ==
    ASSUME NEW cache \in Seq(Entry), Len(cache) > 0
    PROVE  Oldest(cache) \in DOMAIN cache
<1>1. Len(cache) \in Nat /\ DOMAIN cache = 1..Len(cache)
  OBVIOUS
<1>2. \A i \in DOMAIN cache : cache[i].at \in Nat
  <2>1. \A i \in DOMAIN cache : cache[i] \in Entry
    BY <1>1, ElementOfSeq
  <2> QED BY <2>1, CachesAssumption DEF Entry
<1> DEFINE Ages == {cache[i].at : i \in DOMAIN cache}
<1>3. Ages \in SUBSET Nat /\ cache[1].at \in Ages
  BY <1>1, <1>2
<1>4. PICK a \in Ages : \A b \in Ages : a <= b
  BY <1>3, LeastNatural
<1> DEFINE Old == {i \in DOMAIN cache : cache[i].at = a}
<1>5. Old \in SUBSET Nat /\ Old # {}
  BY <1>1, <1>4
<1>6. PICK k \in Old : \A j \in Old : k <= j
  BY <1>5, LeastNatural
<1>7. \A j \in DOMAIN cache :
        cache[k].at < cache[j].at \/ (cache[k].at = cache[j].at /\ k <= j)
  <2> TAKE j \in DOMAIN cache
  <2>1. cache[k].at = a /\ a <= cache[j].at /\ a \in Nat /\ cache[j].at \in Nat
    BY <1>2, <1>3, <1>4, <1>6
  <2>2. cache[j].at = a => k <= j
    BY <1>6
  <2> QED BY <2>1, <2>2
<1> QED BY <1>6, <1>7 DEF Oldest

(* The first chunk of a part of an area is one of its chunks. *)
LEMMA FirstHolds ==
    ASSUME NEW c \in Int \X Int, NEW r \in Nat, NEW S \in SUBSET Within(c, r), S # {}
    PROVE  First(S) \in S
<1> DEFINE west == c[1] - r
           north == c[2] - r
           Rows == {d[2] - north : d \in S}
<1>1. c[1] \in Int /\ c[2] \in Int /\ west \in Int /\ north \in Int
  OBVIOUS
<1>2. \A d \in S : d[1] \in Int /\ d[2] \in Int /\ d[1] - west \in Nat /\ d[2] - north \in Nat
  BY <1>1 DEF Within
<1> HIDE DEF west, north
<1>3. Rows \in SUBSET Nat /\ Rows # {}
  BY <1>2
<1>4. PICK row \in Rows : \A other \in Rows : row <= other
  BY <1>3, LeastNatural
<1> DEFINE Places == {d[1] - west : d \in {e \in S : e[2] - north = row}}
<1>5. Places \in SUBSET Nat /\ Places # {}
  BY <1>2, <1>4
<1>6. PICK place \in Places : \A other \in Places : place <= other
  BY <1>5, LeastNatural
<1>7. PICK d \in S : d[2] - north = row /\ d[1] - west = place
  BY <1>6
<1>8. ASSUME NEW e \in S PROVE Before(d, e)
  <2>1. /\ d[1] \in Int /\ d[2] \in Int /\ e[1] \in Int /\ e[2] \in Int
        /\ d[2] - north <= e[2] - north
    BY <1>2, <1>4, <1>7
  <2>2. CASE e[2] - north = row
    <3>1. d[1] - west <= e[1] - west
      BY <1>6, <1>7, <2>2
    <3> QED BY <1>1, <1>7, <2>1, <2>2, <3>1 DEF Before, west, north
  <2>3. CASE e[2] - north # row
    BY <1>1, <1>7, <2>1, <2>3 DEF Before, north
  <2> QED BY <2>2, <2>3
<1> QED BY <1>8 DEF First

-----------------------------------------------------------------------------
(* The caches.                                                             *)

Distinct(cache) == \A i, j \in DOMAIN cache : cache[i].block = cache[j].block => i = j

(* Put adds the entry, keeps to the capacity and forgets one other at most. *)
LEMMA PutEntries ==
    ASSUME NEW cache \in Seq(Entry), Distinct(cache), NEW capacity \in Nat \ {0},
           Len(cache) <= capacity, NEW entry \in Entry, ~Has(cache, entry.block)
    PROVE  LET new == Put(cache, capacity, entry) IN
           /\ new \in Seq(Entry) /\ Len(new) <= capacity /\ Distinct(new)
           /\ \E i \in DOMAIN new : new[i] = entry
           /\ \A i \in DOMAIN new : new[i] = entry \/ \E j \in DOMAIN cache : new[i] = cache[j]
<1> DEFINE new == Put(cache, capacity, entry)
<1>1. Len(cache) \in Nat /\ DOMAIN cache = 1..Len(cache)
  OBVIOUS
<1>2. \A i \in DOMAIN cache : cache[i].block # entry.block
  BY DEF Has
<1>3. CASE Len(cache) < capacity
  <2>1. new = Append(cache, entry)
    BY <1>3 DEF Put
  <2>2. /\ new \in Seq(Entry) /\ Len(new) = Len(cache) + 1 /\ new[Len(cache) + 1] = entry
        /\ \A i \in 1..Len(cache) : new[i] = cache[i]
    BY <2>1
  <2> HIDE DEF new
  <2>3. DOMAIN new = 1..(Len(cache) + 1)
    BY <2>2
  <2>4. ASSUME NEW i \in DOMAIN new, NEW j \in DOMAIN new, new[i].block = new[j].block
        PROVE  i = j
    <3>1. CASE i <= Len(cache) /\ j <= Len(cache)
      BY <1>1, <2>2, <2>3, <2>4, <3>1 DEF Distinct
    <3>2. CASE i <= Len(cache) /\ j = Len(cache) + 1
      BY <1>1, <1>2, <2>2, <2>3, <2>4, <3>2
    <3>3. CASE i = Len(cache) + 1 /\ j <= Len(cache)
      BY <1>1, <1>2, <2>2, <2>3, <2>4, <3>3
    <3> QED BY <1>1, <2>3, <3>1, <3>2, <3>3
  <2>5. \A i \in DOMAIN new : new[i] = entry \/ \E j \in DOMAIN cache : new[i] = cache[j]
    BY <1>1, <2>2, <2>3
  <2>6. Len(new) <= capacity /\ \E i \in DOMAIN new : new[i] = entry
    BY <1>1, <1>3, <2>2, <2>3
  <2> QED BY <2>2, <2>4, <2>5, <2>6 DEF Distinct, new
<1>4. CASE ~(Len(cache) < capacity)
  <2>1. Oldest(cache) \in DOMAIN cache
    BY <1>1, <1>4, OldestHolds
  <2>2. new = [cache EXCEPT ![Oldest(cache)] = entry]
    BY <1>4 DEF Put
  <2>3. /\ new \in Seq(Entry) /\ Len(new) = Len(cache) /\ DOMAIN new = DOMAIN cache
        /\ new[Oldest(cache)] = entry
        /\ \A i \in DOMAIN cache : i # Oldest(cache) => new[i] = cache[i]
    BY <2>1, <2>2
  <2> HIDE DEF new
  <2>4. Distinct(new)
    BY <1>2, <2>1, <2>3 DEF Distinct
  <2> QED BY <2>1, <2>3, <2>4 DEF new
<1> QED BY <1>3, <1>4

(* Remember leaves the block in the cache with the time given, and every   *)
(* other entry it leaves as it was.                                        *)
LEMMA RememberEntries ==
    ASSUME NEW cache \in Seq(Entry), Distinct(cache), Len(cache) <= DropCapacity,
           NEW b \in Block, NEW t \in 0..MaxTime
    PROVE  LET new == Remember(cache, b, t) IN
           /\ new \in Seq(Entry) /\ Len(new) <= DropCapacity /\ Distinct(new)
           /\ \A i \in DOMAIN new :
                IF new[i].block = b THEN new[i].at = t ELSE \E j \in DOMAIN cache : new[i] = cache[j]
<1> DEFINE new == Remember(cache, b, t)
           entry == [block |-> b, at |-> t]
<1>1. Len(cache) \in Nat /\ DOMAIN cache = 1..Len(cache) /\ entry \in Entry
  BY DEF Entry
<1>2. CASE Has(cache, b)
  <2>1. new = [i \in DOMAIN cache |-> IF cache[i].block = b THEN entry ELSE cache[i]]
    BY <1>2 DEF Remember
  <2>2. DOMAIN new = 1..Len(cache) /\ \A i \in DOMAIN new :
          new[i] \in Entry /\ new[i].block = cache[i].block
          /\ IF cache[i].block = b THEN new[i] = entry ELSE new[i] = cache[i]
    BY <1>1, <2>1, ElementOfSeq
  <2>3. new \in [1..Len(cache) -> Entry]
    BY <1>1, <2>1, ElementOfSeq
  <2> HIDE DEF new
  <2>4. new \in Seq(Entry) /\ Len(new) = Len(cache)
    BY <1>1, <2>3
  <2> QED BY <1>1, <2>2, <2>4 DEF Distinct, new
<1>3. CASE ~Has(cache, b)
  <2>1. new = Put(cache, DropCapacity, entry)
    BY <1>3 DEF Remember
  <2>2. entry.block = b /\ entry.at = t
    OBVIOUS
  <2> HIDE DEF new, entry
  <2>3. /\ new \in Seq(Entry) /\ Len(new) <= DropCapacity /\ Distinct(new)
        /\ \A i \in DOMAIN new : new[i] = entry \/ \E j \in DOMAIN cache : new[i] = cache[j]
    <3>1. DropCapacity \in Nat \ {0} /\ ~Has(cache, entry.block)
      BY <1>3, <2>2, CachesAssumption
    <3> QED BY <1>1, <2>1, <3>1, PutEntries
  <2>4. \A j \in DOMAIN cache : cache[j].block # b
    BY <1>3 DEF Has
  <2> QED BY <2>2, <2>3, <2>4 DEF new
<1> QED BY <1>2, <1>3

-----------------------------------------------------------------------------
(* The invariant.                                                          *)

Types ==
    /\ pc \in {"wait", "stream"} /\ target \in Centers /\ center \in Centers
    /\ todo \subseteq Area(target) /\ known \in BOOLEAN
    /\ reconciledAt \in -1..MaxTime /\ now \in 0..MaxTime
    /\ loaded \subseteq Int \X Int /\ failed \subseteq Int \X Int /\ air \subseteq Block
    /\ dropped \in [Block -> Nat] /\ evicted \in [Block -> Nat] /\ lastDrop \in [Block -> Nat]
    /\ failures \in 0..MaxFailures /\ digs \in 0..MaxDigs

Caches ==
    /\ broken \in Seq(Entry) /\ Len(broken) <= BrokenCapacity /\ Distinct(broken)
    /\ drops \in Seq(Entry) /\ Len(drops) <= DropCapacity /\ Distinct(drops)

(* What the client holds of the area it is being given, and of the one it  *)
(* has been given.                                                         *)
Held ==
    /\ pc = "wait" => Area(center) \subseteq loaded \cup failed
    /\ pc = "stream" => Area(target) \ todo \subseteq loaded \cup failed

(* A block in the cache is seen as air wherever its chunk is held; one     *)
(* that is out of the cache has been forgotten once for each time it was   *)
(* broken.                                                                 *)
Seen == \A b \in Block : Has(broken, b) /\ ChunkOf[b] \in loaded => b \in air
Count == \A b \in Block : dropped[b] <= evicted[b] + (IF Has(broken, b) THEN 1 ELSE 0)

(* recent_drops tells when a block it holds has last left an item. *)
Remembered ==
    \A i \in DOMAIN drops : /\ dropped[drops[i].block] > 0
                            /\ lastDrop[drops[i].block] = drops[i].at

CInv == Types /\ Caches /\ Held /\ Seen /\ Count /\ Remembered

(* What the caches hold are blocks and times. *)
LEMMA CacheTypes ==
    ASSUME Caches
    PROVE  /\ \A i \in DOMAIN broken : broken[i].block \in Block
           /\ \A i \in DOMAIN drops : drops[i].block \in Block /\ drops[i].at \in Nat
           /\ Blocks(broken) \subseteq Block /\ \A c : Replayed(c) \subseteq Blocks(broken)
<1>1. \A i \in DOMAIN broken : broken[i] \in Entry
  BY ElementOfSeq DEF Caches
<1>2. \A i \in DOMAIN drops : drops[i] \in Entry
  BY ElementOfSeq DEF Caches
<1>3. \A c : Replayed(c) \subseteq Blocks(broken)
  BY DEF Replayed, Blocks
<1> QED BY <1>1, <1>2, <1>3, CachesAssumption DEF Entry, Blocks

(* An area consists of chunks. *)
LEMMA AreaType ==
    ASSUME NEW c \in Centers
    PROVE  c \in Int \X Int /\ Area(c) \subseteq Int \X Int
BY CentersAssumption, RadiusAssumption DEF Area, Within

(* The chunk a turn of the loop is about is one of those left. *)
LEMMA FirstLeft ==
    ASSUME Types, todo # {}
    PROVE  First(todo) \in todo /\ First(todo) \in Int \X Int
<1>1. target \in Int \X Int /\ todo \in SUBSET Within(target, Radius) /\ Radius \in Nat
  BY CentersAssumption, RadiusAssumption DEF Types, Area
<1>2. First(todo) \in todo
  BY <1>1, FirstHolds
<1> QED BY <1>2, AreaType DEF Types

-----------------------------------------------------------------------------
(* The steps.                                                              *)

(* A turn of the loop over chunks. *)
LEMMA ChunkStep ==
    ASSUME CInv, SendChunk \/ SkipChunk
    PROVE  CInv'
<1> DEFINE c == First(todo)
<1>1. c \in Int \X Int
  BY FirstLeft DEF CInv, SendChunk, SkipChunk
<1>2. /\ todo' = todo \ {c} /\ loaded' \cup failed' = loaded \cup failed \cup {c}
      /\ UNCHANGED <<pc, target, center, known, broken, drops, reconciledAt, now, blockHistory>>
  BY DEF SendChunk, SkipChunk, client
<1> HIDE DEF c
<1>3. Types'
  <2>1. CASE SendChunk
    <3>1. /\ loaded' = loaded \cup {c} /\ failed' = failed \ {c} /\ failures' = failures
          /\ air' = {b \in air : ChunkOf[b] # c} \cup {b \in Blocks(broken) : ChunkOf[b] = c}
      BY <2>1 DEF SendChunk, c
    <3>2. Blocks(broken) \subseteq Block
      BY CacheTypes DEF CInv
    <3> QED BY <1>1, <1>2, <3>1, <3>2 DEF CInv, Types, blockHistory
  <2>2. CASE SkipChunk
    <3>1. failures' \in 0..MaxFailures /\ UNCHANGED client /\ failed' = failed \cup {c}
      BY <2>2, CachesAssumption DEF SkipChunk, CInv, Types, c
    <3> QED BY <1>1, <1>2, <3>1 DEF CInv, Types, blockHistory, client
  <2> QED BY <2>1, <2>2
<1>4. Caches'
  BY <1>2 DEF CInv, Caches
<1>5. Held'
  BY <1>2 DEF CInv, Held, SendChunk, SkipChunk
<1>6. Seen'
  <2>1. CASE SendChunk
    <3>1. /\ loaded' = loaded \cup {c}
          /\ air' = {b \in air : ChunkOf[b] # c} \cup {b \in Blocks(broken) : ChunkOf[b] = c}
      BY <2>1 DEF SendChunk, c
    <3> QED BY <1>2, <3>1 DEF CInv, Seen, Has, Blocks
  <2>2. CASE SkipChunk
    BY <1>2, <2>2 DEF SkipChunk, CInv, Seen, Has, client
  <2> QED BY <2>1, <2>2
<1>7. Count' /\ Remembered'
  BY <1>2 DEF CInv, Count, Remembered, Has, blockHistory
<1> QED BY <1>3, <1>4, <1>5, <1>6, <1>7 DEF CInv

(* The area is complete, but for what failed. *)
LEMMA DoneStep ==
    ASSUME CInv, StreamDone
    PROVE  CInv'
<1> USE DEF StreamDone, CInv, client, blockHistory
<1>1. Types' /\ Caches'
  BY DEF Types, Caches
<1>2. Held'
  BY DEF Held
<1>3. Seen' /\ Count' /\ Remembered'
  BY DEF Seen, Count, Remembered, Has
<1> QED BY <1>1, <1>2, <1>3

(* What is left of the old area after the client has let go of the edge    *)
(* is what the new area shares with it.                                    *)
LEMMA PositionStep ==
    ASSUME CInv, NEW c \in Centers, RecvPosition(c)
    PROVE  CInv'
<1> DEFINE shown == air \cup (IF ReconcileDue THEN Shown(Replayed(c)) ELSE {})
<1>1. /\ pc = "wait" /\ known' = TRUE /\ reconciledAt' \in {now, reconciledAt}
      /\ UNCHANGED <<broken, drops, now, failed, blockHistory, failures>>
  BY DEF RecvPosition
<1>2. shown \subseteq Block /\ air \subseteq shown
  BY CacheTypes DEF CInv, Types, Shown
<1>3. IF c = center
      THEN air' = shown /\ UNCHANGED <<loaded, stream>>
      ELSE /\ pc' = "stream" /\ target' = c /\ center' = center
           /\ todo' = NewChunks(center, c)
           /\ loaded' = loaded \cap Within(c, ClientRadius)
           /\ air' = {b \in shown : ChunkOf[b] \in loaded'}
  BY DEF RecvPosition
<1> HIDE DEF shown
<1>4. Types'
  <2>1. reconciledAt' \in -1..MaxTime
    BY <1>1 DEF CInv, Types
  <2>2. CASE c = center
    BY <1>1, <1>2, <1>3, <2>1, <2>2 DEF CInv, Types, stream, blockHistory
  <2>3. CASE c # center
    <3>1. todo' \subseteq Area(target') /\ air' \subseteq Block
      BY <1>2, <1>3, <2>3 DEF NewChunks
    <3> QED BY <1>1, <1>3, <2>1, <2>3, <3>1 DEF CInv, Types, blockHistory
  <2> QED BY <2>2, <2>3
<1>5. Caches' /\ Count' /\ Remembered'
  BY <1>1 DEF CInv, Caches, Count, Remembered, Has, blockHistory
<1>6. Held'
  <2>1. CASE c = center
    BY <1>1, <1>3, <2>1 DEF CInv, Held, stream
  <2>2. CASE c # center
    <3>1. Area(c) \subseteq Within(c, ClientRadius)
      BY CentersAssumption, RadiusAssumption DEF Area, Within
    <3>2. Area(center) \subseteq loaded \cup failed
      BY <1>1 DEF CInv, Held
    <3>3. Area(c) \ todo' \subseteq Area(center)
      BY <1>3, <2>2 DEF NewChunks
    <3> QED BY <1>1, <1>3, <2>2, <3>1, <3>2, <3>3 DEF Held
  <2> QED BY <2>1, <2>2
<1>7. Seen'
  <2>1. loaded' \subseteq loaded /\ {b \in shown : ChunkOf[b] \in loaded'} \subseteq air'
    BY <1>3
  <2> QED BY <1>1, <1>2, <2>1 DEF CInv, Seen, Has
<1> QED BY <1>4, <1>5, <1>6, <1>7 DEF CInv

(* Air once more, the clock, and packets about something else. *)
LEMMA OtherStep ==
    ASSUME CInv, UNCHANGED vars \/ TimerReconcile \/ Tick \/ \E b \in Block : DigAgain(b)
    PROVE  CInv'
<1>1. /\ UNCHANGED <<stream, known, broken, drops, loaded, failed, blockHistory, failures>>
      /\ now' \in 0..MaxTime /\ reconciledAt' \in -1..MaxTime
      /\ air \subseteq air' /\ air' \subseteq Block
  <2>1. CASE UNCHANGED vars
    BY <2>1 DEF vars, CInv, Types, client
  <2>2. CASE TimerReconcile
    BY <2>2, CacheTypes DEF TimerReconcile, CInv, Types, Shown
  <2>3. CASE Tick
    BY <2>3, CachesAssumption DEF Tick, CInv, Types, client
  <2>4. CASE \E b \in Block : DigAgain(b)
    BY <2>4 DEF DigAgain, CInv, Types, Shown
  <2> QED BY <2>1, <2>2, <2>3, <2>4
<1> USE DEF CInv, stream, blockHistory
<1>2. Types' /\ Caches'
  BY <1>1 DEF Types, Caches
<1>3. Held' /\ Count' /\ Remembered'
  BY <1>1 DEF Held, Count, Remembered, Has
<1>4. Seen'
  BY <1>1 DEF Seen, Has
<1> QED BY <1>2, <1>3, <1>4

(* A block that is broken enters the cache, and at most one gives way. *)
LEMMA DigStep ==
    ASSUME CInv, NEW b \in Block, Dig(b)
    PROVE  /\ CInv'
           /\ \A e \in Block : Has(broken', e) /\ ~Has(broken, e) => e = b
<1> DEFINE entry == [block |-> b, at |-> now]
<1>1. /\ ~Has(broken, b) /\ broken' = Mark(broken, b, now)
      /\ evicted' = [e \in Block |-> evicted[e] + (IF Has(broken, e) /\ ~Has(broken', e) THEN 1 ELSE 0)]
      /\ air' = air \cup Shown({b})
      /\ UNCHANGED <<stream, known, reconciledAt, now, loaded, failed, failures>>
      /\ digs' = digs + 1 /\ digs < MaxDigs
  BY DEF Dig
<1>2. IF Recent(drops, b, now) THEN UNCHANGED <<drops, dropped, lastDrop>>
      ELSE /\ drops' = Remember(drops, b, now)
           /\ dropped' = [dropped EXCEPT ![b] = @ + 1]
           /\ lastDrop' = [lastDrop EXCEPT ![b] = now]
  BY DEF Dig
<1>3. entry \in Entry /\ entry.block = b /\ now \in 0..MaxTime /\ now \in Nat
  BY CachesAssumption DEF CInv, Types, Entry
<1>4. broken' = Put(broken, BrokenCapacity, entry)
  BY <1>1 DEF Mark
<1> HIDE DEF entry
<1>5. /\ broken' \in Seq(Entry) /\ Len(broken') <= BrokenCapacity /\ Distinct(broken')
      /\ \E i \in DOMAIN broken' : broken'[i] = entry
      /\ \A i \in DOMAIN broken' :
           broken'[i] = entry \/ \E j \in DOMAIN broken : broken'[i] = broken[j]
  <2>1. BrokenCapacity \in Nat \ {0} /\ ~Has(broken, entry.block)
    BY <1>1, <1>3, CachesAssumption
  <2> QED BY <1>3, <1>4, <2>1, PutEntries DEF CInv, Caches
<1>6. Has(broken', b) /\ \A e \in Block : Has(broken', e) => e = b \/ Has(broken, e)
  BY <1>3, <1>5 DEF Has
<1>7. /\ drops' \in Seq(Entry) /\ Len(drops') <= DropCapacity /\ Distinct(drops')
      /\ Remembered'
  <2>1. CASE Recent(drops, b, now)
    BY <1>2, <2>1 DEF CInv, Caches, Remembered
  <2>2. CASE ~Recent(drops, b, now)
    <3>1. drops' = Remember(drops, b, now)
      BY <1>2, <2>2
    <3>2. /\ drops' \in Seq(Entry) /\ Len(drops') <= DropCapacity /\ Distinct(drops')
          /\ \A i \in DOMAIN drops' :
               IF drops'[i].block = b THEN drops'[i].at = now
               ELSE \E j \in DOMAIN drops : drops'[i] = drops[j]
      BY <1>3, <3>1, RememberEntries DEF CInv, Caches
    <3>3. /\ dropped'[b] = dropped[b] + 1 /\ dropped[b] \in Nat /\ lastDrop'[b] = now
          /\ \A e \in Block : e # b => dropped'[e] = dropped[e] /\ lastDrop'[e] = lastDrop[e]
      BY <1>2, <2>2 DEF CInv, Types
    <3>4. ASSUME NEW i \in DOMAIN drops'
          PROVE  dropped'[drops'[i].block] > 0 /\ lastDrop'[drops'[i].block] = drops'[i].at
      <4>1. CASE drops'[i].block = b
        BY <3>2, <3>3, <4>1
      <4>2. CASE drops'[i].block # b
        <5>1. PICK j \in DOMAIN drops : drops'[i] = drops[j]
          BY <3>2, <4>2
        <5>2. drops[j].block \in Block /\ drops[j].block # b
          BY <4>2, <5>1, CacheTypes DEF CInv
        <5>3. dropped[drops[j].block] > 0 /\ lastDrop[drops[j].block] = drops[j].at
          BY DEF CInv, Remembered
        <5> QED BY <3>3, <5>1, <5>2, <5>3
      <4> QED BY <4>1, <4>2
    <3> QED BY <3>2, <3>4 DEF Remembered
  <2> QED BY <2>1, <2>2
<1>8. dropped' \in [Block -> Nat] /\ lastDrop' \in [Block -> Nat] /\ evicted' \in [Block -> Nat]
  <2>1. evicted' \in [Block -> Nat]
    BY <1>1 DEF CInv, Types
  <2>2. dropped' \in [Block -> Nat] /\ lastDrop' \in [Block -> Nat]
    BY <1>2, <1>3 DEF CInv, Types
  <2> QED BY <2>1, <2>2
<1>9. Types'
  <2>1. air' \subseteq Block
    BY <1>1 DEF CInv, Types, Shown
  <2>2. digs' \in 0..MaxDigs
    BY <1>1, CachesAssumption DEF CInv, Types
  <2> QED BY <1>1, <1>8, <2>1, <2>2 DEF CInv, Types, stream
<1>10. Held'
  BY <1>1 DEF CInv, Held, stream
<1>11. Seen'
  <2> SUFFICES ASSUME NEW e \in Block, Has(broken', e), ChunkOf[e] \in loaded
               PROVE  e \in air'
    BY <1>1 DEF Seen
  <2>1. CASE e = b
    BY <1>1, <2>1 DEF Shown
  <2>2. CASE e # b
    BY <1>1, <1>6, <2>2 DEF CInv, Seen
  <2> QED BY <2>1, <2>2
<1>12. Count'
  <2> SUFFICES ASSUME NEW e \in Block
               PROVE  dropped'[e] <= evicted'[e] + (IF Has(broken', e) THEN 1 ELSE 0)
    BY DEF Count
  <2>1. /\ dropped[e] \in Nat /\ evicted[e] \in Nat
        /\ dropped[e] <= evicted[e] + (IF Has(broken, e) THEN 1 ELSE 0)
        /\ evicted'[e] = evicted[e] + (IF Has(broken, e) /\ ~Has(broken', e) THEN 1 ELSE 0)
    BY <1>1 DEF CInv, Types, Count
  <2>2. dropped'[e] = dropped[e] \/ (e = b /\ dropped'[e] = dropped[e] + 1)
    BY <1>2 DEF CInv, Types
  <2>3. CASE e = b
    BY <1>1, <1>6, <2>1, <2>2, <2>3
  <2>4. CASE e # b
    BY <1>6, <2>1, <2>2, <2>4
  <2> QED BY <2>3, <2>4
<1> QED BY <1>5, <1>6, <1>7, <1>9, <1>10, <1>11, <1>12 DEF CInv, Caches

(* Every step keeps the invariant. *)
LEMMA StreamStep == CInv /\ [Next]_vars => CInv'
BY ChunkStep, DoneStep, PositionStep, OtherStep, DigStep DEF Next, RecvOther

(* A new session has sent nothing and broken nothing. *)
LEMMA StreamInit == Init => CInv
<1> SUFFICES ASSUME Init PROVE CInv
  OBVIOUS
<1> USE CachesAssumption, CentersAssumption DEF Init
<1>1. Types
  <2>1. reconciledAt \in -1..MaxTime /\ now \in 0..MaxTime /\ failures \in 0..MaxFailures
        /\ digs \in 0..MaxDigs
    OBVIOUS
  <2>2. /\ dropped \in [Block -> Nat] /\ evicted \in [Block -> Nat]
        /\ lastDrop \in [Block -> Nat]
    OBVIOUS
  <2> QED BY <2>1, <2>2 DEF Types
<1>2. Caches /\ Remembered
  BY DEF Caches, Distinct, Remembered
<1>3. Held /\ Seen /\ Count
  BY DEF Held, Seen, Count, Has
<1> QED BY <1>1, <1>2, <1>3 DEF CInv

-----------------------------------------------------------------------------
(* What follows.                                                           *)

(* The invariant holds in every reachable state. *)
THEOREM StreamInvariance == Spec => []CInv
BY StreamInit, StreamStep, PTL DEF Spec

(* Every variable keeps to its type, both caches stay within their arrays  *)
(* and hold no block twice.                                                *)
THEOREM StreamTypes == Spec => []TypeOK
<1>1. CInv => TypeOK
  <2> SUFFICES ASSUME CInv PROVE TypeOK
    OBVIOUS
  <2>1. /\ IsInjective([i \in DOMAIN broken |-> broken[i].block])
        /\ IsInjective([i \in DOMAIN drops |-> drops[i].block])
    BY DEF CInv, Caches, Distinct, IsInjective
  <2> QED BY <2>1 DEF CInv, Types, Caches, TypeOK
<1> QED BY <1>1, StreamInvariance, PTL

(* While the worker waits, the client holds the whole area of the stream's *)
(* centre, but for chunks that could not be built, after any walk.         *)
THEOREM AreaIsHeld == Spec => []AreaHeld
<1>1. CInv => AreaHeld
  BY DEF CInv, Held, AreaHeld
<1> QED BY <1>1, StreamInvariance, PTL

(* A broken block that the cache has not forgotten is never seen again. *)
THEOREM BrokenIsAir == Spec => []BrokenStaysBroken
<1>1. CInv => BrokenStaysBroken
  <2> SUFFICES ASSUME CInv, NEW b \in Block, dropped[b] > 0, evicted[b] = 0,
                      ChunkOf[b] \in loaded
               PROVE  b \in air
    BY DEF BrokenStaysBroken
  <2>1. Has(broken, b)
    BY DEF CInv, Types, Count
  <2> QED BY <2>1 DEF CInv, Seen
<1> QED BY <1>1, StreamInvariance, PTL

(* A block leaves one item, and one more at most each time it has been     *)
(* forgotten.                                                              *)
THEOREM DropsAreCounted == Spec => []DropsCounted
<1>1. CInv => DropsCounted
  BY DEF CInv, Types, Count, DropsCounted
<1> QED BY <1>1, StreamInvariance, PTL

(* A block that is broken leaves an item, unless it left one within the    *)
(* window.                                                                 *)
THEOREM DropsAreGiven == Spec => DropsGiven
<1> DEFINE Given ==
      \A b \in Block : Has(broken', b) /\ ~Has(broken, b) =>
        \/ dropped'[b] = dropped[b] + 1
        \/ dropped[b] > 0 /\ now - lastDrop[b] <= Window
<1>1. ASSUME CInv, [Next]_vars PROVE Given
  <2>1. ASSUME broken' = broken PROVE Given
    BY <2>1
  <2>2. ASSUME NEW b \in Block, Dig(b) PROVE Given
    <3>1. \A e \in Block : Has(broken', e) /\ ~Has(broken, e) => e = b
      BY <1>1, <2>2, DigStep
    <3>2. CASE Recent(drops, b, now)
      <4>1. PICK i \in DOMAIN drops : drops[i].block = b /\ now - drops[i].at <= Window
        BY <3>2 DEF Recent
      <4>2. dropped[b] > 0 /\ lastDrop[b] = drops[i].at
        BY <1>1, <4>1 DEF CInv, Remembered
      <4> QED BY <3>1, <4>1, <4>2
    <3>3. CASE ~Recent(drops, b, now)
      <4>1. dropped'[b] = dropped[b] + 1
        BY <1>1, <2>2, <3>3 DEF Dig, CInv, Types
      <4> QED BY <3>1, <4>1
    <3> QED BY <3>2, <3>3
  <2> QED
    BY <1>1, <2>1, <2>2
       DEF Next, SendChunk, SkipChunk, StreamDone, RecvPosition, TimerReconcile, DigAgain,
           RecvOther, Tick, vars
<1>2. Given => [Given]_vars
  OBVIOUS
<1> QED BY <1>1, StreamInvariance, PTL DEF Spec, DropsGiven
=============================================================================
