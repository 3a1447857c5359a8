---------------------------- MODULE ChunkStream ----------------------------
(***************************************************************************)
(* The chunks a session streams to its client and the blocks its player    *)
(* has broken (main.c).  Around the stream centre the server sends every   *)
(* chunk within its radius; when the player enters another chunk it sends  *)
(* what the old area did not have.  The world on disk never changes, so a  *)
(* broken block lives in a cache of the session, is replayed after each    *)
(* chunk and again once a second near the player; a second, smaller cache  *)
(* keeps a block from dropping twice in a row.                             *)
(*                                                                         *)
(* Where a chunk comes from is RegionStore's; here it is sent or it is not.*)
(* What becomes of a drop is EntityTracker's; here the decision is made.   *)
(***************************************************************************)
EXTENDS Integers, Sequences, FiniteSets, SequencesExt

CONSTANTS
    Centers,         \* bound: the chunks the player visits, pairs <<x, z>>
    Spawn,           \* the first of them
    Radius,          \* chunk_stream_radius
    ClientRadius,    \* how far from its centre a client keeps chunks
    Block, ChunkOf,  \* blocks and the chunk each one is in
    Near,            \* chunk -> the blocks within 192 of a player who is there
    BrokenCapacity,  \* BROKEN_BLOCK_CACHE_SIZE (32768)
    DropCapacity,    \* DROP_DEDUP_CACHE_SIZE (64)
    Window,          \* DROP_DEDUP_WINDOW_SECONDS (2)
    ReplayMax,       \* updates of one reconciliation (256)
    MaxTime,         \* bound: seconds
    MaxDigs,         \* bound: blocks broken
    MaxFailures      \* bound: chunks that could not be built

ASSUME CentersAssumption == Spawn \in Centers /\ Centers \subseteq Int \X Int
(* A derived radius and that of a generated world are within the view      *)
(* distance, and a client keeps as much at least.  An explicit radius of a *)
(* real or debug world is a key of its own that may be larger: this module *)
(* says nothing of it.                                                     *)
ASSUME RadiusAssumption == Radius \in Nat \ {0} /\ ClientRadius \in Nat /\ Radius <= ClientRadius
ASSUME BlocksAssumption == ChunkOf \in [Block -> Int \X Int] /\ Near \in [Centers -> SUBSET Block]
ASSUME CachesAssumption ==
    /\ DropCapacity < BrokenCapacity
    /\ {BrokenCapacity, DropCapacity, ReplayMax} \subseteq Nat \ {0}
    /\ {Window, MaxTime, MaxDigs, MaxFailures} \subseteq Nat

VARIABLES
    pc, target, todo,  \* "wait" or "stream", the centre it streams to, the chunks left
    center,            \* stream_center_chunk_x, stream_center_chunk_z
    known,             \* a position has been received
    broken, drops,     \* broken_blocks, recent_drops: sequences of block and time
    reconciledAt,      \* last_broken_block_reconcile_at
    now,
    loaded, air,       \* client: the chunks it holds, the broken blocks it shows
    failed,            \* history: chunks whose last attempt failed
    dropped,           \* history: block -> how often it dropped
    lastDrop,          \* history: block -> when it last dropped
    evicted,           \* history: block -> how often broken_blocks forgot it
    failures, digs

stream == <<pc, target, todo, center>>
client == <<loaded, air>>
blockHistory == <<dropped, lastDrop, evicted, digs>>
vars == <<stream, known, broken, drops, reconciledAt, now, client, failed, blockHistory, failures>>

-----------------------------------------------------------------------------
(* Areas.                                                                  *)

Within(c, r) == {<<x, z>> : x \in (c[1] - r)..(c[1] + r), z \in (c[2] - r)..(c[2] + r)}
Area(c) == Within(c, Radius)

(* The loops go row by row. *)
Before(c, d) == c[2] < d[2] \/ (c[2] = d[2] /\ c[1] <= d[1])
First(chunks) == CHOOSE c \in chunks : \A d \in chunks : Before(c, d)

(* The chunks sent for a new centre: not the ones of the old area. *)
NewChunksFewer(old, new) == Area(new) \ Within(old, Radius + 1)   \* mutant: < read as <=
NewChunks(old, new) == Area(new) \ Area(old)

-----------------------------------------------------------------------------
(* The caches.                                                             *)

Has(cache, b) == \E i \in DOMAIN cache : cache[i].block = b
Blocks(cache) == {cache[i].block : i \in DOMAIN cache}

(* The first of the oldest entries gives way. *)
Oldest(cache) ==
    CHOOSE i \in DOMAIN cache : \A j \in DOMAIN cache :
        cache[i].at < cache[j].at \/ (cache[i].at = cache[j].at /\ i <= j)

Put(cache, capacity, entry) ==
    IF Len(cache) < capacity THEN Append(cache, entry)
    ELSE [cache EXCEPT ![Oldest(cache)] = entry]

(* mark_block_broken of a block that is not in the cache *)
MarkUnchecked(cache, b, t) == Append(cache, [block |-> b, at |-> t])   \* mutant: no limit
Mark(cache, b, t) == Put(cache, BrokenCapacity, [block |-> b, at |-> t])

(* should_spawn_block_drop: its answer and what it leaves in recent_drops *)
RecentSliding(cache, b, t) == Has(cache, b)            \* mutant: the window is not looked at
Recent(cache, b, t) == \E i \in DOMAIN cache : cache[i].block = b /\ t - cache[i].at <= Window
Remember(cache, b, t) ==
    IF Has(cache, b)
    THEN [i \in DOMAIN cache |-> IF cache[i].block = b THEN [block |-> b, at |-> t] ELSE cache[i]]
    ELSE Put(cache, DropCapacity, [block |-> b, at |-> t])

(* Block updates for air: a client ignores those for chunks it lacks. *)
Shown(blocks) == {b \in blocks : ChunkOf[b] \in loaded}

(* reconcile_broken_blocks_near_player: from the end of the cache, at most ReplayMax *)
Replayed(c) ==
    LET near == {i \in DOMAIN broken : broken[i].block \in Near[c]}
    IN  {broken[i].block : i \in {j \in near : Cardinality({k \in near : k >= j}) <= ReplayMax}}

ReconcileDue == now - reconciledAt >= 1

-----------------------------------------------------------------------------
(* A new session streams the area around its spawn.  Its calloc leaves the *)
(* time of the last reconciliation at 0, long ago.                         *)
Init ==
    /\ pc = "stream" /\ target = Spawn /\ todo = Area(Spawn) /\ center = Spawn
    /\ known = FALSE /\ broken = <<>> /\ drops = <<>>
    /\ reconciledAt = -1 /\ now = 0
    /\ loaded = {} /\ air = {} /\ failed = {}
    /\ dropped = [b \in Block |-> 0] /\ evicted = dropped
    /\ lastDrop = [b \in Block |-> 0]
    /\ failures = 0 /\ digs = 0

(* send_stream_chunk with replay_broken_blocks_for_chunk: the chunk as it  *)
(* was generated, then air for the broken blocks in it.                    *)
SendChunkBare ==                                         \* mutant: nothing replayed
    /\ pc = "stream" /\ todo # {}
    /\ LET c == First(todo)
       IN  /\ todo' = todo \ {c}
           /\ loaded' = loaded \cup {c}
           /\ failed' = failed \ {c}
           /\ air' = {b \in air : ChunkOf[b] # c}
    /\ UNCHANGED <<pc, target, center, known, broken, drops, reconciledAt, now, blockHistory, failures>>
SendChunk ==
    /\ pc = "stream" /\ todo # {}
    /\ LET c == First(todo)
       IN  /\ todo' = todo \ {c}
           /\ loaded' = loaded \cup {c}
           /\ failed' = failed \ {c}
           /\ air' = {b \in air : ChunkOf[b] # c} \cup {b \in Blocks(broken) : ChunkOf[b] = c}
    /\ UNCHANGED <<pc, target, center, known, broken, drops, reconciledAt, now, blockHistory, failures>>

(* No source has the chunk, or memory is exhausted: nothing is sent, and   *)
(* the loop goes on.                                                       *)
SkipChunk ==
    /\ pc = "stream" /\ todo # {} /\ failures < MaxFailures
    /\ failures' = failures + 1
    /\ todo' = todo \ {First(todo)}
    /\ failed' = failed \cup {First(todo)}
    /\ UNCHANGED <<pc, target, center, known, broken, drops, reconciledAt, now, client, blockHistory>>

StreamDone ==
    /\ pc = "stream" /\ todo = {}
    /\ pc' = "wait" /\ center' = target
    /\ UNCHANGED <<target, todo, known, broken, drops, reconciledAt, now, client, failed,
                   blockHistory, failures>>

(* A position: reconciliation first, then the new centre.  The client lets *)
(* go of chunks too far from it and of what it showed there.               *)
RecvPosition(c) ==
    /\ pc = "wait"
    /\ known' = TRUE
    /\ reconciledAt' = IF ReconcileDue THEN now ELSE reconciledAt
    /\ LET shown == air \cup (IF ReconcileDue THEN Shown(Replayed(c)) ELSE {})
       IN  IF c = center
           THEN air' = shown /\ UNCHANGED <<loaded, stream>>
           ELSE /\ pc' = "stream" /\ target' = c /\ center' = center
                /\ todo' = NewChunks(center, c)
                /\ loaded' = loaded \cap Within(c, ClientRadius)
                /\ air' = {b \in shown : ChunkOf[b] \in loaded'}
    /\ UNCHANGED <<broken, drops, now, failed, blockHistory, failures>>

(* The loop reconciles on its own, around the position of the last         *)
(* activity, which is in the chunk of the centre but for an epsilon.       *)
TimerReconcile ==
    /\ pc = "wait" /\ known /\ ReconcileDue
    /\ air' = air \cup Shown(Replayed(center))
    /\ reconciledAt' = now
    /\ UNCHANGED <<stream, known, broken, drops, now, loaded, failed, blockHistory, failures>>

(* A block that is broken already: air once more. *)
DigAgain(b) ==
    /\ pc = "wait" /\ Has(broken, b)
    /\ air' = air \cup Shown({b})
    /\ UNCHANGED <<stream, known, broken, drops, reconciledAt, now, loaded, failed, blockHistory, failures>>

DigAnyUnmarked(b) ==                                     \* mutant: broken before is not asked
    /\ pc = "wait" /\ digs < MaxDigs
    /\ broken' = Mark(broken, b, now)
    /\ evicted' = [e \in Block |-> evicted[e] + (IF Has(broken, e) /\ ~Has(broken', e) THEN 1 ELSE 0)]
    /\ air' = air \cup Shown({b})
    /\ IF Recent(drops, b, now) THEN UNCHANGED <<drops, dropped, lastDrop>>
       ELSE /\ drops' = Remember(drops, b, now)
            /\ dropped' = [dropped EXCEPT ![b] = @ + 1]
            /\ lastDrop' = [lastDrop EXCEPT ![b] = now]
    /\ digs' = digs + 1
    /\ UNCHANGED <<stream, known, reconciledAt, now, loaded, failed, failures>>
Dig(b) ==
    /\ pc = "wait" /\ ~Has(broken, b) /\ digs < MaxDigs
    /\ broken' = Mark(broken, b, now)
    /\ evicted' = [e \in Block |-> evicted[e] + (IF Has(broken, e) /\ ~Has(broken', e) THEN 1 ELSE 0)]
    /\ air' = air \cup Shown({b})
    /\ IF Recent(drops, b, now) THEN UNCHANGED <<drops, dropped, lastDrop>>
       ELSE /\ drops' = Remember(drops, b, now)
            /\ dropped' = [dropped EXCEPT ![b] = @ + 1]
            /\ lastDrop' = [lastDrop EXCEPT ![b] = now]
    /\ digs' = digs + 1
    /\ UNCHANGED <<stream, known, reconciledAt, now, loaded, failed, failures>>

(* Any other packet, or none. *)
RecvOther == pc = "wait" /\ UNCHANGED vars

(* time(): what passes during a stream is seen when the worker waits again. *)
Tick ==
    /\ pc = "wait" /\ now < MaxTime
    /\ now' = now + 1
    /\ UNCHANGED <<stream, known, broken, drops, reconciledAt, client, failed, blockHistory, failures>>

-----------------------------------------------------------------------------
Next ==
    \/ SendChunk \/ SkipChunk \/ StreamDone
    \/ \E c \in Centers : RecvPosition(c)
    \/ TimerReconcile
    \/ \E b \in Block : Dig(b) \/ DigAgain(b)
    \/ RecvOther \/ Tick

Spec == Init /\ [][Next]_vars

-----------------------------------------------------------------------------
(* Properties.                                                             *)

Entry == [block : Block, at : 0..MaxTime]

(* The types of the variables; the caches stay within their arrays and     *)
(* hold no block twice.                                                    *)
TypeOK ==
    /\ pc \in {"wait", "stream"} /\ {target, center} \subseteq Centers
    /\ todo \subseteq Area(target) /\ known \in BOOLEAN
    /\ broken \in Seq(Entry) /\ Len(broken) <= BrokenCapacity
    /\ drops \in Seq(Entry) /\ Len(drops) <= DropCapacity
    /\ IsInjective([i \in DOMAIN broken |-> broken[i].block])
    /\ IsInjective([i \in DOMAIN drops |-> drops[i].block])
    /\ reconciledAt \in -1..MaxTime /\ now \in 0..MaxTime
    /\ {loaded, failed} \subseteq SUBSET (Int \X Int) /\ air \subseteq Block
    /\ {dropped, evicted, lastDrop} \subseteq [Block -> Nat]
    /\ failures \in 0..MaxFailures /\ digs \in 0..MaxDigs

(* When the worker waits, the client holds every chunk within the radius   *)
(* of the stream centre, except those that could not be sent the last time *)
(* it was their turn, however the player went back and forth.              *)
AreaHeld == pc = "wait" => Area(center) \subseteq loaded \cup failed

(* A block the player broke, and the cache never forgot, is never seen     *)
(* again: not when its chunk is left and entered again, not when it was    *)
(* broken in a chunk the client did not hold yet.                          *)
BrokenStaysBroken ==
    \A b \in Block : dropped[b] > 0 /\ evicted[b] = 0 /\ ChunkOf[b] \in loaded => b \in air

(* A block drops once, and once more at most for each time the cache of    *)
(* broken blocks forgot it.                                                *)
DropsCounted == \A b \in Block : dropped[b] <= 1 + evicted[b]

(* A block that is broken leaves an item, unless it left one within the    *)
(* window: whatever the two caches have forgotten, and in whatever order.  *)
DropsGiven ==
    [][\A b \in Block : Has(broken', b) /\ ~Has(broken, b) =>
        \/ dropped'[b] = dropped[b] + 1
        \/ dropped[b] > 0 /\ now - lastDrop[b] <= Window]_vars
=============================================================================
