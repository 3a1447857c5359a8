# A formal model of VectoraServer

VectoraServer is a Minecraft Java Edition server in C: one process, an accept
loop, one detached thread for each client, and almost everything in
`src/src/app/main.c`. This directory holds TLA+ modules that model its parts,
TLC configurations that check them on small instances, and proofs checked by
TLAPS. All line numbers below are of `src/src/app/main.c` unless a file is named.

## Inventory

| component | state | operations | shared with |
|---|---|---|---|
| Entity tracking of a session (256-670, 3833-4293, `entity_registry.c`, `entity_manager.c`) | registry of 512 slots, queue of 1024 events, 256 parallel arrays of tracked entities, two mock flags, the client's screen | join bootstrap, mock and mob movement, limit enforcement, refill, pickup, block drop, `/spawn`, `/despawn`, `/despawnall`, recentring, session end | nobody: it belongs to one worker |
| Connections and chat registry (186-262, 1215-1262, 3765-3831, 4365-4387, 5777-5786, 6897-6930, 7078-7170) | `g_active_connections`, `g_connected_play_sessions`, `g_play_chat_sockets`, descriptors, threads | accept, reject, start a thread, register, broadcast, keep-alive, idle timeout, unregister, close, fault | all workers and main, under `g_play_chat_lock` or by atomic counters |
| Moderation (672-1140, 5201-5388) | muted and moderator lists in memory, `moderators.txt`, `muted.txt`, `moderation.log` | `/mute`, `/unmute`, `/op`, `/deop`, first-player bootstrap, load, save | all workers; the files are written outside the lock |
| World persistence (2735-3439) | region files, generated packet cache, `level.dat`, `session.lock` | create a region, add a chunk stub, load and save a cached packet, prewarm | all workers, without any lock |
| Chunk generation and encoding (2418-2733, `chunk_sender.c`, `world_loader.c` 552-688) | none (pure functions) | generate a packet, generate NBT for the region file, make a packet of NBT, find the height at spawn | the session's worker |
| Chunk streaming (1876-2099, 5649-5719, 6575-6625) | stream centre and radius, the chunks the client holds | initial area, recentring, resend, replay of broken blocks | the session's worker; reads the packet cache |
| Broken blocks and drop deduplication (431-615) | ring of 32768 broken blocks, ring of 64 recent drops | mark, query, replay for a chunk, reconcile near the player | the session's worker |
| Chat rate limit (1142-1213) | window, strikes, block deadline of a session | record a line and decide | the session's worker |
| Login and configuration (4389-4492, 5799-6620, `configuration_packets.c`, `configuration_replay.c`) | protocol state of a connection | handshake, status, login, known packs, finish, replay | the session's worker |
| Packet framing and buffers (1493-1715, 2116-2735, 3441-3630, `packet.c`, `protocol.c`, `util.c`) | none (pure functions) | VarInt, frames, compression | - |
| Play loop timers (4500-5797) | keep-alive, activity, refill, log and reconcile timestamps | the 50 ms pass | the session's worker |
| Server configuration (`server_config.c`) | `server_config_t` | parse, range checks | copied into each session |
| World loader (`world_loader.c`) | none kept | read `level.dat` and spawn chunk NBT | read-only files |
| Status, game rules, join game, player position, UUID (`status.c`, `game_rules.c`, `join_game.c`, `player_position.c`, `uuid_utils.c`, `play_packets.c`) | none | build packets | - |

How they interact: `main` accepts connections and starts one detached thread for
each; a worker runs the whole life of its connection (login, configuration,
play, end) and calls everything else. Workers share the chat registry and its
lock, the moderation lists (same lock) and their files (no lock), the files of
the world (no lock), and two atomic counters. Everything else belongs to one
session and is touched by its worker alone.

What is hard in it, and what each part has to get right:

| component | hard behaviour | what makes it correct |
|---|---|---|
| entity tracking | four structures updated in different orders, arrays compacted while they are walked, limits met half-way through a command, an event queue that fills | the flags agree with the client's screen, nothing is lost, limits hold, every pass ends |
| connections and chat | counts checked in one thread and changed in another, a registry copied and used after unlocking, reused descriptors, faults, blocking sends | the limit holds exactly, the registry holds sessions in play, a broadcast skips nobody, a session whose client is gone ends |
| moderation | permission read under one lock and used under another, saves outside the lock, truncate-then-write, restarts | a moderator remains, files and audit log agree with memory when nothing is under way |
| world persistence | read-modify-write of a file without a lock, deaths between writes | entries point to whole chunks, what is stored stays stored, a request is answered with its chunk |
| chunk streaming and broken blocks | what was sent is derived, not remembered; caches that forget; updates for chunks the client lacks | the client holds its area, a broken block never comes back, each block gives one item |
| chunk generation and encoding | the world is generated by two texts and packed in two ways, and read back by a third; a client cannot tell a wrong length | a chunk is the same whichever way it takes, other programs' chunks are drawn as they were saved, who joins stands on the ground |
| chat rate limit | comparisons of seconds at the edge of a window, a clock that is set | no more lines than allowed in a window, who goes on waits longer |
| login and framing | one `recv` taken for one frame, timeouts set late | the states follow the protocol, who keeps to it is let in, a silent client does not hold a worker |
| play loop timers | a clock read once in a pass, compared with readings taken elsewhere, and set while it runs | the keep-alive is in time, the idle timeout neither early nor late |
| configuration | settings written while a file is read, several places to look | the server starts as its file says or not at all |

## Plan

| order | module | composed with | state |
|---|---|---|---|
| 1 | `EntityTracker` | - | written, checked, safety proved |
| 2 | `ChatHub` | - | written, checked, safety proved |
| 3 | `Moderation` | - | written, checked, safety proved |
| 4 | `RegionStore`, abstract: `ChunkStore` | `RegionStore` instantiates `ChunkStore` | written, checked, types and cache proved; with one worker the refinement too |
| 5 | `ChunkStream` | chunks come from `RegionStore`, drops go to `EntityTracker` | written, checked, proved |
| 6 | `ChatRate`: window, strikes, block deadline | `Session` | written, checked, proved |
| 7 | `Login`: protocol states, receive timeouts, recorded configurations, frames against `recv` calls | `Session` | written, checked, safety proved |
| 8 | `PlayClock`: keep-alive, idle timeout and their clock | `Session` | written, checked, proved |
| 9 | `ServerConfig`: the search for the file, its reader, what each key takes | `Session` starts with it | written, checked, proved |
| 10 | `Session`: one connection from the start of the server to its end | 6 to 9 | written, checked, safety proved |
| 11 | `WorldGen`, `ChunkCodec`, and `ChunkPath` | `RegionStore` decides where a chunk comes from, the other two what is in it | written, checked, proved |
| 12 | the parts of a packet that is sent, and VarInt | `ChatHub` for the broadcasts that may land between them | to do |
| 13 | `level.dat` and `session.lock` | `RegionStore` | to do |

Every safety property of the runs that pass is stated by a theorem. An abstract
specification still worth stating is a broadcast for `ChatHub` (each line
reaches a set fixed when it was said).

## The modules and the code

`PROJECT.json` names for every definition the lines it stands for. The
conventions: one action is one handler or one turn of its loop; a `pc` variable
says where a worker is; what several steps read is in variables named like the
fields of the code. Definitions marked `mutant` are deliberately wrong versions
of the definition that follows them, used to show that a property notices the
mistake; nothing else uses them.

**EntityTracker** is one session. `registry` is `entity_registry_t`, `queue` the
pending events of `entity_manager_t` (their number, the id of a trailing update,
whether one was dropped), `tracked` the parallel arrays `spawned_entity_*` as one
sequence of records, `mockShown` the two mock flags, `client` what the packets
sent so far leave on the screen, `center` the stream centre. A pass of
`run_play_state_loop` is `FlushEvents | NoFlush`, `MoveMocks`, `MoveMobs`,
`EnforceKeep | EnforceRemove` (once for each index) and `EnforceDone`,
`RefillStart | RefillNotDue`, `RefillMob`, `RefillDone`, then one packet:
position (with the pickup loop and recentring), dig, `/spawn`, `/despawn`,
`/despawnall` or nothing. Positions are chunks on a line; that an entity moves,
expires or is due for a refill is a choice, so the timers are left out.

**ChatHub** is all threads. `mainPc` walks the accept loop, `pc[w]` a worker;
`owner` is the descriptor table, from which `Accept` takes any free number, so
numbers are reused at once. A broadcast is `Snapshot` (the copy under the lock),
one `SendLine` for each descriptor and `LineSent`. `Fault` is the Windows
`__except` handler, `SigPipe` the death of the process on POSIX builds, which
install no handler. Login is one step that succeeds or ends the session.

**Moderation**: `list` and `file` are the two lists and the two files. A command
is `ReadCommand` (the permission is read), `Apply` (the change, under the lock),
`Audit`, `CopyLists`, then for each file `Open` (which truncates) and `Write`.
`Restart` loads the files again. Names are model values with a spelling and a
lower-case form; a name beginning with '#' is in `Comments`.

**RegionStore** is one region file and its packet cache. A request is `Lookup`
and `Fetch` in the region (when it is read at all), else `LoadHit | LoadMiss`
from the cache, then `SaveOpen`, `SaveBlock` and the region save `Probe`,
`Create`, `WriteBlankHeader`, `OpenRegion`, `SeekEnd`, `AppendSector`,
`WriteHeader`; `Restart` may come between any two. **ChunkStore** is the promise:
what is stored stays stored and a request is answered with its chunk.

**ChunkStream** is one session's area. `SendChunk | SkipChunk` walk the loops of
the initial area and of recentring, `broken` and `drops` are the arrays
`broken_blocks` and `recent_drops` with their times, `loaded` and `air` what the
client holds and shows. The client is modelled from the protocol: it lets go of
chunks too far from the centre it was told, and ignores updates for chunks it
does not hold.

**Login** is a connection before play. `pc` says at which `recv` the worker is,
`wire` holds what is on its way to the server, each frame as two halves, `inbox`
what is on its way to the client. A `recv` returns any number of the halves that
are there, and the code takes what it returned for one frame: `IdsOf` is what
`read_post_compression_packet_id` makes of it, and what follows the first frame
is lost. The client keeps to the protocol (`honest`) or sends frames as it likes,
and may leave at any time. `spoiled` is history: what happened to this client
that may be a reason to refuse it. `FirstReplay` is the search for a recorded
configuration, `BuiltIn` what is sent without one.

**PlayClock** is a pass of `run_play_state_loop` as the two timers see it:
`StartPass` reads the clock, `SendPing`, `CloseIdle | GoOn`, then `RecvNone` or
`RecvPacket`; `Second` is time passing anywhere in between, `Leap` the clock
being set. The variables of the code hold points of time; here they are ages
(seconds before the clock as it stands), so that no counter grows for ever.
`sinceKeep` and `sinceSeen` are the true times, which the code does not know.
**ChatRate** keeps its points of time in the same way; `RateLine` is a line that
was said, `Refuse`, `LetThrough` or `Violate`.

**ServerConfig** has no state: `LoadWithFallbacks` is the search, `ReadLine` one
turn of the reader's loop, `IntegerKeys`, `BooleanKeys`, `ChoiceKeys` and
`TextKeys` are `assign_config_value`. A line is a sequence of words and marks;
`Pieces` are what `fgets` makes of one that is longer than the buffer. What a
configuration means is said apart from the reader, by vectora.cfg and over the
lines as they are in the file: `FileThatCounts` is the file, `Said` is how much of
a line comes before its comment, `Denoted` the value that words stand for (of
`world_path` a blank one too, which means discovery), `Given` what a line gives to
a key, and `MeantToStart`, `KeysMeant` and `Meant` put the lines together: the
last one for a key is in force. The reader is compared with these. They share with
it the table of keys and ranges, the two marks and the quote, and none of its
steps. Where the code does otherwise than is meant, the property says so by name:
`LeavesPathBlank` is a reason not to start, and `Overlong` are the words on lines
longer than the buffer, which may come in force or stop the server; every other
key and every other line is held to what it means in such a file as well.

**Session** puts these together: `StartUp` (main reads the configuration or
exits), `Connect`, then `Login`, then `EnterPlay`, after which a behaviour
follows `PlayClock` or `ChatRate`, with the settings that were read.

**WorldGen** is the terrain and its trees as functions of coordinates; heights
and hashes are parameters. **ChunkCodec** is what is done with the blocks of a
section: `Direct` makes the packet (`build_generated_section`), `Stored` and
`Heights` the NBT of the region file (`build_generated_chunk_nbt_payload`),
`Rebuilt` a packet of NBT (`build_chunk_data_packet`), `SafeSpawnY` the height at
spawn, and `Shown` is the client. Packed data are a number of longs and the set
of their bits that are one; a palette has its kinds in the order in which they
first appear. **ChunkPath** extends `RegionStore` by `how` each
worker's last packet was made, so that a chunk's way through file, cache and
generator decides which of these functions made what the client draws.

## The runs

All bounds are the constants of the cfg files. A run that passes was explored to
the end.

| run | question | bounds and why they suffice |
|---|---|---|
| `entity_view` | do the four structures agree in every order of ticks, packets and commands? | 5 ids, a tracked list of 3 with `max_tracked` 2, a registry of 7, a queue of 9: each array can be full while the next is not, `/spawn` can pass each of them, and a drop can evict each kind of entity. The queue is never flushed there, so it does fill |
| `entity_liveness` | does each pass end, and does a removed entity disappear? | 2 ids, no symmetry, event log on; the loops depend on the length of the list only |
| `entity_refill` (violated) | is the number of mobs maintained? | a queue of 9 fills within a few passes |
| `hub_safety` | do limit, registry, counter and delivery hold? | 2 threads and 3 descriptors: two threads are enough for each pair of steps that race, the third descriptor lets a number stay unused while another is reused; one fault |
| `hub_leaver` | does a session end when its client is gone? | a registry of one slot, so that one session is left out of it; clients that stop reading and both builds |
| `moderation_lists` | do lists, log and files agree, and does a moderator remain? | 3 changes of two sessions, one restart, four names of which two are one player: two saves overlap and a third change meets them |
| `moderation_crash` (violated) | is only the first player promoted? | a death inside a save |
| `region_single` | does one worker keep the promise, through deaths, and is a chunk the same whichever way it takes? | 3 chunks, one of two sectors, packets of 3 blocks, 2 deaths: a death in each write, and one after a repair. Chunks of 7 by 7 columns, the fewest for which the division in `SafeSpawnY` comes out as with 256, and sections 4 high: 4 bits for an index as in the code, some longs not full. World 1 has slopes and trees whose crowns cross borders, world 2 a coast; the foreign chunk has sections of 0 to 260 names |
| `region_race` (violated) | do chunks stay with two workers? | 2 chunks |
| `chunk_walk` | is the area held, does a broken block stay broken, does each block give one item? | two stops 2 chunks apart with radius 1 and a client radius of 2, so that part of the area is kept, part is dropped and part is new; 4 blocks, caches of 3 and 2, 7 digs in 4 seconds: the smallest in which `recent_drops` remembers a block that `broken_blocks` has forgotten |
| `session` | does the server start as its file says, does login keep to the protocol, and do the timers and the limit of play hold? | every pair of 14 files or no file in two places, and each of them named (4 right ones, 8 wrong ones, one with a blank world path, one with a comment that is longer than the buffer, which is 8 words here); five kinds of recorded configuration; 2 frames sent unasked, 3 by a client that sends anything: enough for two frames in one `recv`, a cut frame, and an answer in a later phase. An interval of 2 s, an idle limit of 3 s, passes of up to 2 s, positions one and two epsilons apart, a clock set once by 2 s; a limit of 2 lines with waits of 2, 4 and 5 s, so that strikes reach the longest wait and their cap |
| `session_one_by_one` (violated) | is a client let in that sends its frames one by one? | one client that keeps to the protocol |

Symmetry is used only in runs that check invariants and action properties, over
ids, threads, descriptors and blocks the code compares for equality alone.

What the violated runs show:

- `entity_refill`: the queue of 1024 events is emptied only by the log, which is
  off by default. Once it is full, `entity_manager_queue_spawn_auto` registers
  the entity and reports failure, so a refill tracks nothing and leaks a
  registry slot (vectora.cfg:182).
- `moderation_crash`: `fopen "wb"` empties `moderators.txt` before the names are
  written; after a death in between the next player is promoted.
- `region_race`: the header of a region file is read, changed and written back
  without a lock; the later writer drops the entry of the other.
- `session_one_by_one`: `parse_handshake_next_state` compares the length of the
  frame with what is left after the packet id was read (4402), so that a
  handshake only passes if the same `recv` returned something after it. The
  `recv` for a login start that comes by itself (5915) is never reached. The
  same byte makes a status request that comes with the handshake pass and then
  get lost: the status exchange waits for another.

## Fairness

`EntityTracker!FairSpec` is weak fairness of `Next`: the worker goes on, but
nothing the client sends or the timers do is promised. This is what a thread
that is not suspended gives.

`ChatHub!FairSpec` has weak fairness of what a worker does by itself once it may
(`Advance`), and strong fairness of `KeepAliveDue`, `IdleOut` and `RecvEnd`,
which are possible each time the loop comes round and not in between: the clock
makes the first two due, and the kernel goes on reporting the end of a
connection. Nothing is promised of the end of a login (no receive timeout is set
before it), of the client, nor of the accept loop.

`Session!FairSpec` has weak fairness of the worker's steps in login: the thread
is scheduled, and either what arrives or the end of the five seconds makes
`recv` return. Nothing is asked of the client, and nothing of the handshake and
the status exchange, which have no timeout.

## What is proved

The proofs hold for every value of the constants that satisfies the named
assumptions of the modules.

`EntityTracker_proofs`: `Invariance` shows an inductive invariant `IInv`, from
which follow `TypeCorrect`, `FlagsMatch`, `Lossless`, `ExactView`, `Limits` and
`RefillLimits`.
None of the checked invariants is inductive. `IInv` adds: while the session is
open its own entities are registered (else removal could hit them); the view is
exact from the redraw of the mocks on (a later step only keeps it); what the
enforce loop has passed while over the limit is an item (so that it ends with
items only); a drop that goes on to append has room. The proof has lemmas on
`Untrack` and `Append` (what they do to ids and flags), on the event queue, on a
world in which one entry leaves, moves or comes, and one lemma for each group of
actions.

`ChatHub_proofs`: from `HInv` follow all six invariants of `hub_safety`, for any
number of threads and descriptors and any number of faults. `Ownership` (a
descriptor is main's, then its worker's until that worker closes it) is what
everything about the registry rests on. `Registry` counts the descriptors whose
entry belongs to no session in play: no step but a fault adds one, a reused
descriptor takes its old entry over, and as none is there twice this bounds the
entries too (`RegistryHolds`). `Claims` says that who was registered when a
broadcast made its copy and still reads has the line or is still in what is left
of the copy; `Strays` says the converse, that without faults whoever owns a
descriptor of the copy had a claim or was accepted since. `Counted` and `Online`
follow the two counters through the steps that change them.

`ChunkStream_proofs`: from `CInv` follow all five properties of `chunk_walk`, for
any radius, any places the player visits, any blocks and any sizes of the two
caches. `Held` says what the client has of an area that is still being sent: what
the loop has left behind, which a new centre starts with the part both areas
share. `Count` says that a block out of the cache has been forgotten as often as
it dropped; with `Seen` (a block in the cache is air wherever its chunk is held)
that gives `BrokenIsAir`. `Remembered` ties the times in the drop cache to the
items that were given, from which `DropsAreGiven` follows for every step.

`ChunkPath_proofs` has three parts. The first is `RegionStore` with any number of
workers: `Shared` bounds what each save has written and says that a block of a
cache file is its own or a hole. From it follow `TypeCorrect` (no cache file
outgrows its packet) and `CachedPacketIsOwn` (two workers may break a cached
packet, and never make it another chunk's).

The second is `RegionStore` under `OneWorker`: `Invariance`, `Entries` and
`Refinement` (`Spec => ChunkStore!Spec`). `IInv` adds what a save has done so
far: the worker's copy of the table is the table, what it has appended is a
prefix of its chunk at the end of the file, and a cache file is a prefix of its
packet. `OneWorker` is needed: `region_race` refutes the result without it.

The third is `ChunkPath`. `PathImplementsStore` shows that it only adds to
`RegionStore`, so that the first two parts hold of it (`PathKeepsPromise`), and
`SameWorldOnEveryWay`, `ForeignChunksDrawn` and `SpawnOnGround` are its three
invariants, for any number of workers. They are about values that are fixed when
a behaviour starts (the world, the chunk at spawn), so the work is in the lemmas
and not in the steps:

- packing: a number is known by its bits (`SameBits`), and the slots of two
  entries share no bit (`SlotsApart`), so what is packed is read back
  (`ReadBack`); a width that divides a long leaves no gap, so that the two ways
  of packing agree (`NoGap`);
- palettes: each kind is in a palette once (`UsedOnce`), so that every index is
  below the length of the palette and fits its width, and a section is drawn as
  it is (`DirectShown`, `StoredShown`); `SectionShown` is the reader, for any
  palette it has room for, known names or not;
- the world: the sections are numbered without a gap (`Numbered`), each cell has
  its place in the world, and the cells of a column have the heights of the world
  (`CellInWorld`, `CellAtHeight`, `SameColumn`), so that the height read from the
  packed heights is that of the highest block the client draws (`HeightFound`).

What they rest on: the named assumptions of `ChunkCodec` and `ChunkPath`, and two
hypotheses. `Terrain` says that the heights of the terrain are integers (a
quantifier over all coordinates, which TLC cannot evaluate as an assumption).
`StoredSea = SentSea` is needed by the first alone: the two texts of the generator
each have a sea level of their own (both are 64 in the code). The assumptions hold
for the numbers of the code: 4096 cells, 256 = 16 * 16 columns, sections -4 to 19,
heights -64 to 319, longs of 64 bits, widths of 4 to 8, a palette of 256; heights
up to 384 fit 9 bits, and 37 longs of 64 bits give `SafeSpawnY` 37 * 64 / 256 = 9.

`Moderation_proofs`: from `IInv` follow the four invariants of
`moderation_lists`, and `ModeratorStays` for its action property, for any names,
spellings, capacities, sessions and number of restarts. `Accounted` corrects the
audit log by the changes that are made and not yet logged, so that it holds in
every state and not only in quiet ones; `LateOnce` says that a worker that was
late is no moderator any more and has no further command ready. `Held` is why a
restart keeps a moderator: `moderators.txt` has a name that is loaded again, or a
worker has yet to write it, which a restart between saves excludes. `Saved`
follows one save that runs alone from its copy to the last file. `ModeratorStays` assumes `~CrashAnytime` (the process dies
between saves only) because `moderation_crash` shows the opposite without it:
`fopen "wb"` has emptied the file. The four invariants need no such assumption.

`Login_proofs` holds the argument for a connection before play and
`Session_proofs` states its results. `Agree` says that what is on its way to a
client that keeps to the protocol is readable one packet after the other, starting
from the client's state, and ends in the state the worker goes by. It is an
invariant about a queue and not about two states, since the server changes its
state long before the client reads why. `Straight` is the converse: as long as
nothing happened to such a client that may be a reason to refuse it, all its
frames are whole, and the one the worker waits for is asked for, owed or under
way. It covers each way in which a `recv` takes frames. From these follow
`SessionStatesAgree` and `SessionRefuses`, for any recorded configurations and any
number of frames sent unasked. The states agree whatever `recv` makes of the
frames, unless a recorded configuration goes on after its own finish (`ReplayEnds`).
Nothing in the code looks for such packets, and the client then gets one that its
state does not know.

`Session_proofs`, the timers: `Punctual` and `Idle` bound the keep-alive and the
idle timeout from both sides, whatever packets come, however long the passes are
(up to `MaxPass`) and however the clock is set. What the code knows of time are
differences of ages, which a clock that is set does not change. So each part of
`CInv` compares a true time with such a difference and with how much of the
present pass is over; `NearAnchor` says that all positions received while the
session counted as idle lie within one epsilon of the anchor, from which two of
them are at most two apart.

The chat limit: `RateLimits` and `WaitsDouble`. The lines of the last `Window`
seconds fall into those before the present window of the code began and those it
has counted (`InWindow`), or a wait is running and nothing passes before the window
is over (`InWait`). What the code compares is again a difference of clock readings,
so `Before` and `After` allow for every time the clock was set. `Punished` ties the
last wait to the strikes, from which the next is twice as long.

The settings: `SessionStartsAsMeant` compares the reader, which cuts lines into
pieces, writes settings while it goes through a file and stops at the first bad
line, with what a configuration means by its own lines, for any files, any lines
and any size of the buffer: the server starts exactly if it is meant to, with
exactly the keys it is meant to have and each as it is meant. The exceptions are
the two the code forces, and no wider: a file that leaves the world path blank
does not start the server (`LeavesPathBlank`), and a line longer than the buffer
may stop it or put its own words in force (`Overlong`). `PiecesAre` and
`LinesReadIs` say what the lines are cut into. `LineMeans` is the heart of the
proof: from where the first mark stands (`UncommentedIs`), where the first "="
does (`WellFormedIs`) and which words a key takes (`DenotedIs`, `UnquotedIs`), a
line that is read without an error gives the one value it denotes to the one key
it names, and one that is not gives none. `LinesMean` goes through the file:
a line that fits adds what it means (`FittingLine`), one that does not adds nothing
to the keys that are not on it (`OverlongLine`). `ReadRight` says what the reader
has after `k` lines, so that every number lies in the range of its key for any file
(`SessionTypes`).

`SessionInv`, `RateInv`, `LoginInv` and `Started` are each left alone by the steps
of the other parts, so that all of this holds for the whole connection, with the
settings of its file; `SessionTypes` collects the types.

`DataLemmas` has what these proofs need in place of induction over data, which
the provers cannot instantiate. A recursive function over 0..n is shown to be a
function by counting up: the least number at which it would not be defined, or at
which a fact about it would fail, has a predecessor (`LeastNatural`,
`DefinedByCounting`, `SameByCounting`). `LeastNatural` itself is derived from the
well-foundedness of inclusion; by it the first chunk of the rows and the oldest
entry of a cache in `ChunkStream` exist as well. What `Loaded` of `Moderation`
reads of a file, the lines `ServerConfig` reads and the packets `Login` records are recursive functions
for that reason, and so is `TwoTo` of `ChunkCodec`, since the provers know
nothing of a power. The rest is arithmetic that they do not find by themselves:
quotients and remainders by a variable (`Divided`, `Quotient`,
`OrderedProducts`), and that numbering a finite set in the order of distinct
numbers takes each of its members once (`Ranks`).

Only model-checked: the liveness properties (`LoginEnds`, `LeaverEnds` and the
two of `EntityTracker`), since liveness under fairness is out of the prover's
reach. `region_single` checks the refinement with one worker, as it is proved;
with two it is false.

## What is not modelled

- Contents of packets other than chunks (`status.c`, `game_rules.c`,
  `join_game.c`, `player_position.c`, `play_packets.c`, `uuid_utils.c`, the
  bodies of the configuration packets): pure functions that lay out bytes.
- Of chunks: light, biomes, block entities, heightmaps in the packet, tag names
  and compression; the flat chunks of the debug world; sines and hashes.
- VarInt: frames are there whole, in part or not at all.
- The timers of refills, reconciliation and the log, which are choices in
  `EntityTracker` and `ChunkStream`.
- `level.dat` and `session.lock`, which are written once at startup, and the
  index summary, which is only logged.
- In `RegionStore`: a disk that fills up in the middle of a file (results of
  `fwrite` are ignored).
- In `ChatHub`: the halves of one packet. `send_all` takes no lock for a socket,
  so a broadcast may land inside a packet the session is sending.
- In `PlayClock`, a pass lasts `MaxPass` seconds at most. A client that stops
  reading makes it longer, since sends have no timeout.

Seen while reading, without a run:

- drops and `/spawn` fill the tracked list beyond `entity_max_tracked`, which
  vectora.cfg:179 calls a hard cap; only mobs are removed;
- the idle timeout is tested between blocking sends, so that it never ends the
  session of a client that has stopped reading (vectora.cfg:35);
- an explicit `chunk_stream_radius` is limited to 2 for generated worlds (2087)
  although vectora.cfg:28-29 calls it explicit;
- an empty `world_path =` stops the server (`server_config.c` 554), although
  vectora.cfg:76 says to leave it blank for automatic discovery; `StartsAsMeant`
  takes it as meant and names it as an exception;
- the rest of a comment that is longer than 511 bytes is a line of its own, and a
  setting at its end is in force (`server_config.c` 527); `StartsAsMeant` excepts
  the words on such lines and nothing else of the file;
- a '#' within quotes ends a text (`server_config.c` 76);
- a section with more than 256 names loses part of its palette and keeps its
  data (`chunk_sender.c` 356), and the branch meant for it (484) is never
  reached: `ForeignDrawn` leaves such sections out and says nothing of them;
- a chunk that could not be built while the centre moved is skipped, and the next
  centre takes it for sent (5686): it stays missing as long as the player stays
  near, although the area is sent "so nearby terrain renders reliably" (6569).
  `AreaHeld` says that no other chunk is missing, and nothing of this one;
- `chunk_stream_radius` and `view_distance` are independent keys, and nothing keeps
  the first within the second: a client drops what it is sent beyond its view.
  `RadiusAssumption` of `ChunkStream` leaves such settings out;
- the chat limit belongs to a session: who connects again starts without strikes
  and without a wait, so `RateBound` is about one connection;
- a client that goes on sending packets which login passes over starts the five
  seconds again with each of them; `LoginEnds` bounds their number (`MaxExtra`,
  `MaxWild`), and so is about clients that fall silent;
- a failing `malloc` may free the sections of a chunk twice
  (`chunk_sender.c` 1421);
- a region file of 0 bytes left by a death is never repaired (2901);
- a connection that sends nothing before login, or in the status exchange, holds
  a worker for ever (5807, 4445);
- names that begin with '#' are saved and not loaded (917).
