---------------------------- MODULE EntityTracker ----------------------------
(***************************************************************************)
(* The entities of one play session (main.c run_play_state_loop, with      *)
(* entity_registry.c and entity_manager.c).  Four structures must agree:   *)
(*   registry   the 512 slots of entity_registry_t, id -> position;        *)
(*   queue      the 1024 pending events of entity_manager_t;               *)
(*   tracked    the 256 parallel arrays spawned_entity_* of the session;   *)
(*   client     what the remote client draws after the packets sent so far.*)
(* The session is owned by one worker thread, so a pass of the loop is     *)
(* sequential; pc says where in the pass the worker is, and cursor / left  *)
(* are the loop variables of the loop it is in.                            *)
(*                                                                         *)
(* Positions are abstracted to chunks on a line (Place); distances below a *)
(* chunk, entity ages and the timers of the loop are left open.  A fresh   *)
(* entity id is any id in use nowhere: next_entity_id only grows.          *)
(***************************************************************************)
EXTENDS Integers, Sequences, FiniteSets, SequencesExt

CONSTANTS
    Id,             \* ids given out by entity_manager_queue_spawn_auto
    Player,         \* entity id 1, the session's own player
    MockA, MockB,   \* the two mock armor stands
    NoUpdate,       \* "the last pending event is not an update"
    Place,          \* chunk coordinates a position can fall in
    Radius,         \* chunk_stream_radius
    RegistryCap,    \* slots of entity_registry_t.entries (512)
    EventCap,       \* slots of entity_manager_t.pending (1024)
    TrackedCap,     \* slots of spawned_entity_ids (256)
    MaxTracked,     \* config entity_max_tracked
    TargetMobs,     \* config entity_target_active_mobs
    RefillBatch,    \* mobs spawned by one refill at most (8)
    Starters,       \* config entity_starter_spawn_count, capped at 32
    SpawnMax,       \* largest count of one /spawn (32)
    HasMocks,       \* config enable_experimental_entities
    Packets,        \* ... and enable_experimental_entity_packets, protocol 774
    LogEvents,      \* config log_entity_events
    CanExpire       \* a despawn age or a despawn distance is configured

MockIds == IF HasMocks THEN {MockA, MockB} ELSE {}

ASSUME IdsDistinct ==
    /\ Player \notin Id \cup {MockA, MockB, NoUpdate}
    /\ MockA \notin Id \cup {MockB, NoUpdate}
    /\ MockB \notin Id \cup {NoUpdate}
    /\ NoUpdate \notin Id
ASSUME PlaceAssumption == Place \subseteq Int /\ Radius \in Nat
ASSUME CapsAssumption ==
    /\ RegistryCap \in Nat /\ EventCap \in Nat /\ EventCap >= 3
    /\ TrackedCap \in Nat /\ MaxTracked \in 1..TrackedCap
    /\ TargetMobs \in Nat /\ RefillBatch \in Nat
    /\ Starters \in 0..TrackedCap /\ SpawnMax \in Nat
ASSUME FlagsAssumption ==
    /\ {HasMocks, Packets, LogEvents, CanExpire} \subseteq BOOLEAN
    /\ Packets => HasMocks

VARIABLES registry, queue, tracked, mockShown, client, center, pc, cursor, left
vars == <<registry, queue, tracked, mockShown, client, center, pc, cursor, left>>

-----------------------------------------------------------------------------
(* Reading the structures.                                                 *)

Registered == DOMAIN registry
IdsIn(entries) == {entries[j].id : j \in DOMAIN entries}
ShownIn(entries) == {entries[j].id : j \in {k \in DOMAIN entries : entries[k].visible}}
TrackedIds == IdsIn(tracked)
ShownTracked == ShownIn(tracked)
Mobs == {j \in DOMAIN tracked : tracked[j].type = "mob"}
Least(a, b) == IF a < b THEN a ELSE b

(* entity_is_within_stream_radius, on a line of chunks *)
InRange(place, c) == place - c \in (-Radius)..Radius

(* The flag reconcile_entity_visibility leaves behind: an entity that is    *)
(* not registered, or is out of range, is not shown.                       *)
Visible(id, reg, c) == id \in DOMAIN reg /\ InRange(reg[id], c)

(* reconcile_entity_visibility on the tracked entries picked by which, and *)
(* what its spawn and destroy packets make of the client's screen.         *)
ReconciledHidesOnly(which, reg, c) ==                    \* mutant: never shown again
    [j \in DOMAIN tracked |->
        IF j \in which
        THEN [tracked[j] EXCEPT !.visible = @ /\ Visible(tracked[j].id, reg, c)]
        ELSE tracked[j]]
ReconciledShowsOnly(which, reg, c) ==                    \* mutant: never hidden
    [j \in DOMAIN tracked |->
        IF j \in which
        THEN [tracked[j] EXCEPT !.visible = @ \/ Visible(tracked[j].id, reg, c)]
        ELSE tracked[j]]
Reconciled(which, reg, c) ==
    [j \in DOMAIN tracked |->
        IF j \in which
        THEN [tracked[j] EXCEPT !.visible = Visible(tracked[j].id, reg, c)]
        ELSE tracked[j]]
Drawn(screen, before, after) ==
    {x \in screen : x \notin before \/ x \in after} \cup (after \ before)

-----------------------------------------------------------------------------
(* entity_manager.c: the event queue.  Only its length, the id of a last   *)
(* UPDATE event (updates of that id coalesce) and whether an event was     *)
(* ever dropped matter.                                                    *)

QueueFull == queue.count >= EventCap
PushUnbounded(q, update) ==                              \* mutant: capacity off by one
    IF q.count > EventCap
    THEN [q EXCEPT !.dropped = TRUE]
    ELSE [q EXCEPT !.count = @ + 1, !.last = update]
Push(q, update) ==
    IF q.count >= EventCap
    THEN [q EXCEPT !.dropped = TRUE]
    ELSE [q EXCEPT !.count = @ + 1, !.last = update]
PushUpdate(q, id) == IF q.last = id THEN q ELSE Push(q, id)
Cleared(q) == [q EXCEPT !.count = 0, !.last = NoUpdate]

Without(f, id) == Restrict(f, DOMAIN f \ {id})
With(f, id, place) == [x \in DOMAIN f \cup {id} |-> IF x = id THEN place ELSE f[x]]

(* entity_manager_queue_remove: the registry slot goes first, then the event *)
QueueRemoveEventOnly(id) ==                              \* mutant: slot never freed
    /\ registry' = registry
    /\ queue' = IF id \in Registered THEN Push(queue, NoUpdate) ELSE queue
QueueRemove(id) ==
    /\ registry' = Without(registry, id)
    /\ queue' = IF id \in Registered THEN Push(queue, NoUpdate) ELSE queue

(* untrack_spawned_entity_id: the memmove that closes the gap at index i *)
UntrackKeepsAll(entries, i) == entries                   \* mutant: count not reduced
UntrackNext(entries, i) == RemoveAt(entries, Least(i + 1, Len(entries)))  \* mutant: off by one
Untrack(entries, i) == RemoveAt(entries, i)

RegistryFull == Cardinality(Registered) >= RegistryCap
Fresh == Id \ (Registered \cup TrackedIds \cup client)

(* entity_manager_queue_spawn_auto, track_spawned_entity_id and the        *)
(* reconcile that follow it in the starter, refill and /spawn loops.  A    *)
(* full event queue leaves the entity in the registry and reports failure; *)
(* when tracked is full the spawn packet is sent all the same and nothing  *)
(* remembers the entity (only /spawn can meet that: starters and refills   *)
(* stop at or below TrackedCap).                                           *)
SpawnMobAt(id, place) ==
    /\ registry' = With(registry, id, place)
    /\ queue' = Push(queue, NoUpdate)
    /\ \/ /\ QueueFull
          /\ UNCHANGED <<tracked, client>>
       \/ /\ ~QueueFull /\ Len(tracked) < TrackedCap
          /\ tracked' = Append(tracked,
                [id |-> id, type |-> "mob", visible |-> InRange(place, center)])
          /\ client' = IF InRange(place, center) THEN client \cup {id} ELSE client
       \/ /\ ~QueueFull /\ Len(tracked) >= TrackedCap
          /\ client' = client \cup {id}
          /\ UNCHANGED tracked

(* A full registry changes nothing. *)
SpawnMob ==
    \/ /\ RegistryFull
       /\ UNCHANGED <<registry, queue, tracked, client>>
    \/ /\ ~RegistryFull
       /\ \E id \in Fresh, place \in Place : SpawnMobAt(id, place)

-----------------------------------------------------------------------------
(* Joining (handle_client_connection, before run_play_state_loop): the     *)
(* player and both mocks are in the registry, each with a spawn event.     *)

Init ==
    /\ center \in Place
    /\ registry \in [{Player} \cup MockIds -> Place]
    /\ registry[Player] = center
    /\ queue = [count |-> 1 + Cardinality(MockIds), last |-> NoUpdate, dropped |-> FALSE]
    /\ tracked = <<>>
    /\ mockShown = IF Packets THEN MockIds ELSE {}
    /\ client = mockShown
    /\ pc = "starters"
    /\ cursor = 1
    /\ left = IF Packets THEN Starters ELSE 0

(* One mob of the starter loop. *)
StarterMob ==
    /\ pc = "starters" /\ left > 0
    /\ SpawnMob
    /\ left' = left - 1
    /\ UNCHANGED <<mockShown, center, pc, cursor>>

StartersDone ==
    /\ pc = "starters" /\ left = 0
    /\ pc' = "tick"
    /\ UNCHANGED <<registry, queue, tracked, mockShown, client, center, cursor, left>>

-----------------------------------------------------------------------------
(* The head of a pass: event log, mocks, roaming mobs.                     *)

(* log_and_clear_entity_events, at most once a second and only when the    *)
(* configuration asks for the log: the one place that empties the queue.   *)
FlushEvents ==
    /\ pc = "tick" /\ LogEvents /\ queue.count > 0
    /\ queue' = Cleared(queue)
    /\ pc' = "mocks"
    /\ UNCHANGED <<registry, tracked, mockShown, client, center, cursor, left>>

NoFlush ==
    /\ pc = "tick"
    /\ pc' = "mocks"
    /\ UNCHANGED <<registry, queue, tracked, mockShown, client, center, cursor, left>>

(* Mocks orbit the player's last position.  With entity packets on, mocks  *)
(* and tracked entities are reconciled, and an update event is queued for  *)
(* each mock that was and stays visible; otherwise one for each mock (no   *)
(* mock at all when experimental entities are off).                        *)
MoveMocks ==
    /\ pc = "mocks"
    /\ \E to \in [MockIds -> Place] :
         LET reg     == [x \in Registered |-> IF x \in MockIds THEN to[x] ELSE registry[x]]
             shown   == {m \in MockIds : Visible(m, reg, center)}
             entries == Reconciled(DOMAIN tracked, reg, center)
             emitted == IF Packets THEN mockShown \cap shown ELSE MockIds
             afterA  == IF MockA \in emitted THEN PushUpdate(queue, MockA) ELSE queue
         IN  /\ registry' = reg
             /\ queue' = IF MockB \in emitted THEN PushUpdate(afterA, MockB) ELSE afterA
             /\ IF Packets
                THEN /\ mockShown' = shown
                     /\ tracked' = entries
                     /\ client' = Drawn(client, mockShown \cup ShownTracked,
                                                shown \cup ShownIn(entries))
                ELSE UNCHANGED <<mockShown, tracked, client>>
    /\ pc' = IF Packets THEN "mobs" ELSE "recv"
    /\ UNCHANGED <<center, cursor, left>>

(* tick_tracked_mob_movement: every mob still registered moves, without an *)
(* event, and is reconciled where it arrives.                              *)
MoveMobs ==
    /\ pc = "mobs"
    /\ LET movers == {j \in Mobs : tracked[j].id \in Registered}
           moving == {tracked[j].id : j \in movers}
       IN  \E to \in [moving -> Place] :
             LET reg     == [x \in Registered |-> IF x \in moving THEN to[x] ELSE registry[x]]
                 entries == Reconciled(movers, reg, center)
             IN  /\ registry' = reg
                 /\ tracked' = entries
                 /\ client' = Drawn(client, ShownTracked, ShownIn(entries))
    /\ pc' = "enforce" /\ cursor' = 1
    /\ UNCHANGED <<queue, mockShown, center, left>>

-----------------------------------------------------------------------------
(* enforce_tracked_entity_limits, one round of its while loop at a time.   *)

(* Items are never removed; a mob stays when it is neither too old nor too *)
(* far (left open) and the list is within max_tracked.                     *)
EnforceKeepOneMore ==                                    \* mutant: > for >=
    /\ pc = "enforce" /\ cursor <= Len(tracked)
    /\ tracked[cursor].type = "item" \/ Len(tracked) <= MaxTracked + 1
    /\ cursor' = cursor + 1
    /\ UNCHANGED <<registry, queue, tracked, mockShown, client, center, pc, left>>
EnforceKeep ==
    /\ pc = "enforce" /\ cursor <= Len(tracked)
    /\ tracked[cursor].type = "item" \/ Len(tracked) <= MaxTracked
    /\ cursor' = cursor + 1
    /\ UNCHANGED <<registry, queue, tracked, mockShown, client, center, pc, left>>

(* The entry leaves and cursor stays: the next entry has moved into place. *)
EnforceRemove ==
    /\ pc = "enforce" /\ cursor <= Len(tracked)
    /\ tracked[cursor].type = "mob"
    /\ CanExpire \/ Len(tracked) > MaxTracked
    /\ client' = IF tracked[cursor].visible THEN client \ {tracked[cursor].id} ELSE client
    /\ QueueRemove(tracked[cursor].id)
    /\ tracked' = Untrack(tracked, cursor)
    /\ UNCHANGED <<mockShown, center, pc, cursor, left>>

EnforceDone ==
    /\ pc = "enforce" /\ cursor > Len(tracked)
    /\ pc' = "refill"
    /\ UNCHANGED <<registry, queue, tracked, mockShown, client, center, cursor, left>>

-----------------------------------------------------------------------------
(* refill_tracked_roaming_mobs.                                            *)

ToSpawnPastLimit ==                                      \* mutant: max_tracked forgotten
    IF Cardinality(Mobs) >= TargetMobs \/ Len(tracked) >= MaxTracked
    THEN 0
    ELSE Least(TargetMobs - Cardinality(Mobs), RefillBatch)
ToSpawn ==
    IF Cardinality(Mobs) >= TargetMobs \/ Len(tracked) >= MaxTracked
    THEN 0
    ELSE Least(Least(TargetMobs - Cardinality(Mobs), RefillBatch),
               MaxTracked - Len(tracked))

(* The refill interval has passed.  Bound: enough ids are left for the run. *)
RefillStart ==
    /\ pc = "refill"
    /\ Cardinality(Fresh) >= ToSpawn
    /\ left' = ToSpawn
    /\ pc' = "respawn"
    /\ UNCHANGED <<registry, queue, tracked, mockShown, client, center, cursor>>

RefillNotDue ==
    /\ pc = "refill"
    /\ pc' = "recv"
    /\ UNCHANGED <<registry, queue, tracked, mockShown, client, center, cursor, left>>

RefillMob ==
    /\ pc = "respawn" /\ left > 0
    /\ SpawnMob
    /\ left' = left - 1
    /\ UNCHANGED <<mockShown, center, pc, cursor>>

RefillDone ==
    /\ pc = "respawn" /\ left = 0
    /\ pc' = "recv"
    /\ UNCHANGED <<registry, queue, tracked, mockShown, client, center, cursor, left>>

-----------------------------------------------------------------------------
(* Waiting for a packet, and what each packet does.                        *)

(* The receive times out, or the packet changes no entity. *)
RecvNothing ==
    /\ pc = "recv"
    /\ pc' = "tick"
    /\ UNCHANGED <<registry, queue, tracked, mockShown, client, center, cursor, left>>

(* A position packet: the player's entity moves, items near it are picked  *)
(* up, and then the chunk stream is recentred.                             *)
RecvPosition ==
    /\ pc = "recv"
    /\ \E place \in Place :
         registry' = [x \in Registered |-> IF x = Player THEN place ELSE registry[x]]
    /\ queue' = IF Player \in Registered THEN PushUpdate(queue, Player) ELSE queue
    /\ pc' = "pickup" /\ cursor' = 1
    /\ UNCHANGED <<tracked, mockShown, client, center, left>>

(* A mob, or an item further than 1.5 blocks away, stays. *)
PickupSkip ==
    /\ pc = "pickup" /\ cursor <= Len(tracked)
    /\ tracked[cursor].type = "mob" \/ tracked[cursor].id \in Registered
    /\ cursor' = cursor + 1
    /\ UNCHANGED <<registry, queue, tracked, mockShown, client, center, pc, left>>

(* An item the registry no longer has is untracked, with no packet. *)
PickupLost ==
    /\ pc = "pickup" /\ cursor <= Len(tracked)
    /\ tracked[cursor].type = "item" /\ tracked[cursor].id \notin Registered
    /\ tracked' = Untrack(tracked, cursor)
    /\ UNCHANGED <<registry, queue, mockShown, client, center, pc, cursor, left>>

PickupTake ==
    /\ pc = "pickup" /\ cursor <= Len(tracked)
    /\ tracked[cursor].type = "item" /\ tracked[cursor].id \in Registered
    /\ client' = client \ {tracked[cursor].id}
    /\ QueueRemove(tracked[cursor].id)
    /\ tracked' = Untrack(tracked, cursor)
    /\ UNCHANGED <<mockShown, center, pc, cursor, left>>

(* The stream centre follows the player; with entity packets on, what the  *)
(* new centre shows and hides is sent at once.                             *)
Recenter ==
    /\ pc = "pickup" /\ cursor > Len(tracked)
    /\ center' = registry[Player]
    /\ IF Packets /\ center' # center
       THEN LET shown   == {m \in MockIds : Visible(m, registry, center')}
                entries == Reconciled(DOMAIN tracked, registry, center')
            IN  /\ mockShown' = shown
                /\ tracked' = entries
                /\ client' = Drawn(client, mockShown \cup ShownTracked,
                                           shown \cup ShownIn(entries))
       ELSE UNCHANGED <<mockShown, tracked, client>>
    /\ pc' = "tick"
    /\ UNCHANGED <<registry, queue, cursor, left>>

(* A block is dug and a drop is due.  ensure_tracked_slot_for_drop makes    *)
(* room: births never decrease along the list, so the oldest item is the   *)
(* first item, and the oldest entity is the first entry.                   *)
IsVictim(v) ==
    IF Mobs = DOMAIN tracked
    THEN v = 1
    ELSE tracked[v].type = "item" /\ \A k \in DOMAIN tracked \ Mobs : v <= k

DigWithRoom ==
    /\ pc = "recv" /\ Fresh # {}
    /\ Len(tracked) < TrackedCap
    /\ pc' = "drop"
    /\ UNCHANGED <<registry, queue, tracked, mockShown, client, center, cursor, left>>

DigAndEvict ==
    /\ pc = "recv" /\ Fresh # {}
    /\ Len(tracked) >= TrackedCap
    /\ \E v \in DOMAIN tracked :
         /\ IsVictim(v)
         /\ client' = IF tracked[v].visible THEN client \ {tracked[v].id} ELSE client
         /\ QueueRemove(tracked[v].id)
         /\ tracked' = Untrack(tracked, v)
    /\ pc' = "drop"
    /\ UNCHANGED <<mockShown, center, cursor, left>>

(* The item is spawned, tracked as visible and drawn wherever the block is. *)
DropItem ==
    /\ pc = "drop"
    /\ \/ /\ RegistryFull
          /\ UNCHANGED <<registry, queue, tracked, client>>
       \/ /\ ~RegistryFull
          /\ \E id \in Fresh, place \in Place :
               /\ registry' = With(registry, id, place)
               /\ queue' = Push(queue, NoUpdate)
               /\ IF QueueFull
                  THEN UNCHANGED <<tracked, client>>
                  ELSE /\ tracked' = Append(tracked,
                            [id |-> id, type |-> "item", visible |-> TRUE])
                       /\ client' = client \cup {id}
    /\ pc' = "tick"
    /\ UNCHANGED <<mockShown, center, cursor, left>>

(* /spawn <type> <count>.  Bound: enough ids are left for the run. *)
SpawnCommand ==
    /\ pc = "recv"
    /\ left' \in 1..SpawnMax
    /\ Cardinality(Fresh) >= left'
    /\ pc' = "spawn"
    /\ UNCHANGED <<registry, queue, tracked, mockShown, client, center, cursor>>

SpawnOne ==
    /\ pc = "spawn" /\ left > 0
    /\ SpawnMob
    /\ left' = left - 1
    /\ UNCHANGED <<mockShown, center, pc, cursor>>

SpawnDone ==
    /\ pc = "spawn" /\ left = 0
    /\ pc' = "tick"
    /\ UNCHANGED <<registry, queue, tracked, mockShown, client, center, cursor, left>>

(* /despawnall: every registered tracked entity leaves the registry, but   *)
(* only those whose event still fitted in the queue are erased from the    *)
(* client; then the whole list is forgotten.                               *)
DespawnAll ==
    /\ pc = "recv"
    /\ LET present == {j \in DOMAIN tracked : tracked[j].id \in Registered}
           logged  == {j \in present :
                         queue.count + Cardinality({k \in present : k <= j}) <= EventCap}
       IN  /\ registry' = Restrict(registry, Registered \ TrackedIds)
           /\ queue' = [count   |-> Least(EventCap, queue.count + Cardinality(present)),
                        last    |-> IF logged = {} THEN queue.last ELSE NoUpdate,
                        dropped |-> queue.dropped \/ logged # present]
           /\ client' = client \ {tracked[j].id : j \in {k \in logged : tracked[k].visible}}
    /\ tracked' = <<>>
    /\ pc' = "tick"
    /\ UNCHANGED <<mockShown, center, cursor, left>>

(* /despawn <id> of a tracked id: the entity leaves the list only when its *)
(* event fitted in the queue.                                              *)
DespawnOne ==
    /\ pc = "recv"
    /\ \E j \in DOMAIN tracked :
         /\ QueueRemove(tracked[j].id)
         /\ IF tracked[j].id \in Registered /\ ~QueueFull
            THEN /\ client' = IF tracked[j].visible THEN client \ {tracked[j].id} ELSE client
                 /\ tracked' = Untrack(tracked, j)
            ELSE UNCHANGED <<client, tracked>>
    /\ pc' = "tick"
    /\ UNCHANGED <<mockShown, center, cursor, left>>

(* The idle timeout, or the client is gone: the session's own entities      *)
(* leave the registry, the mocks are erased and the queue is cleared.      *)
EndSession ==
    /\ pc = "recv"
    /\ registry' = Restrict(registry, Registered \ ({Player} \cup MockIds))
    /\ client' = IF Packets THEN client \ MockIds ELSE client
    /\ LET own == Registered \cap ({Player} \cup MockIds)
       IN  queue' = [count   |-> 0,
                     last    |-> NoUpdate,
                     dropped |-> \/ queue.dropped
                                 \/ queue.count + Cardinality(own) > EventCap]
    /\ pc' = "closed"
    /\ UNCHANGED <<tracked, mockShown, center, cursor, left>>

Closed == pc = "closed" /\ UNCHANGED vars

-----------------------------------------------------------------------------

Bootstrap == StarterMob \/ StartersDone
PassHead == FlushEvents \/ NoFlush \/ MoveMocks \/ MoveMobs
Enforce == EnforceKeep \/ EnforceRemove \/ EnforceDone
Refill == RefillStart \/ RefillNotDue \/ RefillMob \/ RefillDone
Move == RecvPosition \/ PickupSkip \/ PickupLost \/ PickupTake \/ Recenter
Dig == DigWithRoom \/ DigAndEvict \/ DropItem
Command == SpawnCommand \/ SpawnOne \/ SpawnDone \/ DespawnAll \/ DespawnOne

Next ==
    \/ Bootstrap \/ PassHead \/ Enforce \/ Refill
    \/ RecvNothing \/ Move \/ Dig \/ Command
    \/ EndSession \/ Closed

Spec == Init /\ [][Next]_vars

(* The worker thread keeps running: what the client sends is not fair, but *)
(* a pass that has begun goes on.                                          *)
FairSpec == Spec /\ WF_vars(Next)

-----------------------------------------------------------------------------
(* Properties.                                                             *)

Entry == [id : Id, type : {"mob", "item"}, visible : BOOLEAN]
Phase == {"starters", "tick", "mocks", "mobs", "enforce", "refill", "respawn",
          "recv", "pickup", "drop", "spawn", "closed"}

Unique(entries) ==
    \A j, k \in DOMAIN entries : entries[j].id = entries[k].id => j = k

(* The types of the variables; no id is tracked twice and the queue never  *)
(* holds more than its array.                                              *)
TypeOK ==
    /\ DOMAIN registry \subseteq {Player} \cup MockIds \cup Id
    /\ registry \in [DOMAIN registry -> Place]
    /\ queue \in [count : 0..EventCap, last : {NoUpdate, Player} \cup MockIds, dropped : BOOLEAN]
    /\ tracked \in Seq(Entry)
    /\ Len(tracked) <= TrackedCap
    /\ Unique(tracked)
    /\ mockShown \subseteq MockIds
    /\ client \subseteq MockIds \cup Id
    /\ center \in Place
    /\ pc \in Phase
    /\ cursor \in Nat \ {0}
    /\ left \in Nat

(* What the session believes the client draws, the client does draw: a     *)
(* visible flag (spawned_entity_visible, mock_entity_*_visible) is never   *)
(* left set for an entity whose destroy packet has gone out.               *)
FlagsMatchClient == pc # "closed" => ShownTracked \cup mockShown \subseteq client

Orphans == Registered \ ({Player} \cup MockIds \cup TrackedIds)
Ghosts == client \ (ShownTracked \cup mockShown)

(* As long as the session has dropped no event (dropped_events = 0), every *)
(* tracked entity is registered, and the registered entities the session   *)
(* has lost track of are exactly the ones the client draws and nothing     *)
(* will ever erase: the entities /spawn sent when its list was full.       *)
NothingLost ==
    ~queue.dropped => TrackedIds \subseteq Registered /\ Orphans = Ghosts

(* With entity packets on, while the worker waits for the client the       *)
(* visible flags tell exactly which tracked entities are registered and    *)
(* within the stream radius: every pass of the loop repairs the view.      *)
ViewIsExact ==
    pc = "recv" /\ Packets =>
        /\ \A j \in DOMAIN tracked :
              tracked[j].visible <=> Visible(tracked[j].id, registry, center)
        /\ mockShown = {m \in MockIds : Visible(m, registry, center)}

(* enforce_tracked_entity_limits has done what it can when its loop ends:  *)
(* above max_tracked only items are left.                                  *)
LimitEnforced ==
    pc = "refill" => \/ Len(tracked) <= MaxTracked
                     \/ Mobs = {}

(* A refill in progress can never take the list past max_tracked, nor the  *)
(* number of mobs past entity_target_active_mobs.                          *)
RefillWithinLimits ==
    pc = "respawn" /\ left > 0 => /\ Len(tracked) + left <= MaxTracked
                                  /\ Cardinality(Mobs) + left <= TargetMobs

(* Every pass ends: no loop of the session runs for ever (enforce and      *)
(* pickup advance only because untracking always shortens the list), so    *)
(* the worker always comes back to read from the client, or ends.          *)
EveryPassEnds == []<>(pc \in {"recv", "closed"})

(* An entity that was removed from the registry while still tracked does   *)
(* not stay on the client's screen.                                        *)
RemovedEntityDisappears ==
    \A id \in Id : id \in TrackedIds \ Registered ~> id \notin client \/ pc = "closed"

-----------------------------------------------------------------------------
(* What vectora.cfg says of the limits, and the code does not do.          *)

(* vectora.cfg:182 "Target number of active roaming mobs to maintain       *)
(* around the player.": a refill that starts below the target, with room   *)
(* under max_tracked and in the registry, adds a mob.                      *)
MobsMaintained ==
    [][pc = "respawn" /\ left > 0 /\ ~RegistryFull /\ Len(tracked) < MaxTracked
        => Len(tracked') = Len(tracked) + 1]_vars
=============================================================================
