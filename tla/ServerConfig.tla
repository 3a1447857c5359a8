----------------------------- MODULE ServerConfig -----------------------------
(***************************************************************************)
(* The settings a server starts with (server_config.c): defaults, then the *)
(* first file there is, read line by line into the same structure, until   *)
(* a line is wrong: then the server does not start.                        *)
(*                                                                         *)
(* A line is a sequence of words, characters of texts and the marks the    *)
(* reader knows; blanks between them are left out.  strtol is the function *)
(* Numeral on the words that are numbers from end to end.                   *)
(***************************************************************************)
EXTENDS Integers, Sequences, SequencesExt

CONSTANTS
    Numeral,        \* word -> the integer it stands for
    TextRoom,       \* characters of a text, at most (64 to 512 bytes)
    LineRoom        \* what fgets returns at once, at most (511 bytes)

ASSUME ConfigAssumption ==
    /\ {TextRoom, LineRoom} \subseteq Nat \ {0}
    /\ \A word \in DOMAIN Numeral : Numeral[word] \in Int

-----------------------------------------------------------------------------
(* assign_config_value: what each key takes.                               *)

IntegerKeys == [
    port |-> <<1, 65535>>, max_players |-> <<1, 1000>>, max_connections |-> <<1, 10000>>,
    online_players_display |-> <<0, 1000>>, protocol_number |-> <<0, 1000000>>,
    compression_threshold |-> <<0, 1048576>>, chunk_stream_radius |-> <<0, 12>>,
    keep_alive_interval_seconds |-> <<1, 300>>, play_idle_timeout_seconds |-> <<0, 3600>>,
    serverbound_keep_alive_packet_id |-> <<0, 255>>,
    idle_position_epsilon_milliblocks |-> <<0, 10000>>, play_disconnect_packet_id |-> <<0, 255>>,
    view_distance |-> <<2, 32>>, simulation_distance |-> <<2, 32>>,
    game_mode |-> <<0, 3>>, difficulty |-> <<0, 3>>, spawn_protection_radius |-> <<0, 1000>>,
    game_event_respawn_screen_value |-> <<0, 1>>, game_event_limited_crafting_value |-> <<0, 1>>,
    entity_starter_spawn_count |-> <<0, 32>>, entity_roam_radius_blocks |-> <<1, 64>>,
    entity_despawn_distance_blocks |-> <<0, 512>>, entity_despawn_seconds |-> <<0, 3600>>,
    entity_max_tracked |-> <<1, 256>>, entity_target_active_mobs |-> <<0, 256>>,
    entity_respawn_interval_seconds |-> <<1, 300>>,
    rule_max_command_chain_length |-> <<0, 2147483647>>, rule_max_entity_cramming |-> <<0, 1000>>,
    rule_random_tick_speed |-> <<0, 1000>>]

BooleanKeys == {
    "is_hardcore", "pvp_enabled", "rule_do_daylight_cycle", "rule_do_mob_spawning",
    "rule_do_fire_tick", "rule_do_environment_damage", "rule_keep_inventory",
    "rule_do_immediate_respawn", "rule_show_death_messages", "rule_send_command_feedback",
    "rule_log_admin_commands", "rule_announce_advancements", "rule_disable_elytra_movement_check",
    "force_debug_spawn", "enable_real_chunks", "allow_debug_chunk_fallback", "send_brand_packet",
    "enable_experimental_entities", "enable_experimental_entity_packets", "send_game_rules_packet",
    "send_wait_for_level_chunks_event", "send_idle_disconnect_packet",
    "idle_timeout_counts_keep_alive", "idle_timeout_requires_position_change",
    "reject_protocol_mismatch", "log_packet_framing", "log_play_packets",
    "log_play_session_summary", "log_entity_events", "log_chunk_sends",
    "log_generated_region_summary", "offline_mode"}

ChoiceKeys == [online_players_mode |-> {"fixed", "zero", "connected"},
               world_source |-> {"auto", "real", "generated", "debug"}]

TextKeys == {"server_brand", "protocol_name", "motd", "idle_disconnect_reason", "world_path"}

(* parse_bool_value *)
True == {"1", "true", "yes", "on"}
False == {"0", "false", "no", "off"}

(* parse_string_value: quotes at both ends are not part of a text. *)
Quote == "\""
Unquoted(words) ==
    IF Len(words) >= 2 /\ words[1] = Quote /\ Last(words) = Quote THEN SubSeq(words, 2, Len(words) - 1)
    ELSE words

Accepts(key, words) ==
    \/ /\ key \in DOMAIN IntegerKeys /\ Len(words) = 1 /\ words[1] \in DOMAIN Numeral
       /\ Numeral[words[1]] \in IntegerKeys[key][1]..IntegerKeys[key][2]
    \/ key \in BooleanKeys /\ Len(words) = 1 /\ words[1] \in True \cup False
    \/ key \in DOMAIN ChoiceKeys /\ Len(words) = 1 /\ words[1] \in ChoiceKeys[key]
    \/ key \in TextKeys /\ Len(Unquoted(words)) \in 1..TextRoom - 1

Parsed(key, words) ==
    CASE key \in DOMAIN IntegerKeys -> Numeral[words[1]]
      [] key \in BooleanKeys        -> words[1] \in True
      [] key \in DOMAIN ChoiceKeys  -> words[1]
      [] key \in TextKeys           -> Unquoted(words)

-----------------------------------------------------------------------------
(* set_server_config_defaults, as far as play depends on it; the other     *)
(* settings have no value until a line gives them one.                     *)
Defaults == [
    keep_alive_interval_seconds |-> 10, play_idle_timeout_seconds |-> 0,
    idle_timeout_counts_keep_alive |-> FALSE, idle_timeout_requires_position_change |-> TRUE,
    idle_position_epsilon_milliblocks |-> 50,
    entity_max_tracked |-> 64, entity_target_active_mobs |-> 12,
    max_connections |-> 100, reject_protocol_mismatch |-> TRUE]

Set(settings, key, value) ==
    [k \in DOMAIN settings \cup {key} |-> IF k = key THEN value ELSE settings[k]]

(* load_server_config_from_file.  A comment begins at the first mark, also *)
(* within quotes; a line longer than the buffer is read as several, and    *)
(* each of them is looked at by itself.                                    *)
CommentMarks == {"#", ";"}
Uncommented(line) ==
    LET marks == {i \in DOMAIN line : line[i] \in CommentMarks}
    IN  IF marks = {} THEN line ELSE SubSeq(line, 1, Min(marks) - 1)
Pieces(line) ==
    IF Len(line) <= LineRoom THEN <<line>>
    ELSE [n \in 1..(Len(line) + LineRoom - 1) \div LineRoom |->
             SubSeq(line, (n - 1) * LineRoom + 1, Min({n * LineRoom, Len(line)}))]
LinesRead(file) ==
    LET read[i \in 0..Len(file)] == IF i = 0 THEN <<>> ELSE read[i - 1] \o Pieces(file[i])
    IN  read[Len(file)]

Split(text) == LET at == Min({i \in DOMAIN text : text[i] = "="})
               IN  [key |-> SubSeq(text, 1, at - 1), value |-> SubSeq(text, at + 1, Len(text))]
WellFormed(text) ==
    text # <<>> => /\ Contains(text, "=")
                   /\ Len(Split(text).key) = 1 /\ Split(text).value # <<>>
                   /\ Accepts(Split(text).key[1], Split(text).value)

(* One line after the other, as long as they are right. *)
ReadLine(result, line) ==
    LET text == Uncommented(line)
    IN  IF ~result.ok THEN result
        ELSE IF ~WellFormed(text) THEN [result EXCEPT !.ok = FALSE]
        ELSE IF text = <<>> THEN result
        ELSE LET key == Split(text).key[1]
             IN  [result EXCEPT !.settings = Set(result.settings, key, Parsed(key, Split(text).value))]
Load(file) ==
    LET lines == LinesRead(file)
        after[i \in 0..Len(lines)] ==
            IF i = 0 THEN [ok |-> TRUE, settings |-> Defaults] ELSE ReadLine(after[i - 1], lines[i])
    IN  after[Len(lines)]

(* load_server_config_with_fallbacks.  VECTORA_SERVER_CONFIG names a file, *)
(* there or not; without it the first of the places that has one is read.  *)
NoFile == <<>>
LoadWithFallbacksOnError(named, places) ==               \* mutant: a wrong file is passed over
    LET candidates == IF named # <<>> THEN <<named[1]>> ELSE places
        good == {i \in DOMAIN candidates : candidates[i] # NoFile /\ Load(candidates[i][1]).ok}
    IN  IF named # <<>> /\ named[1] = NoFile THEN [ok |-> FALSE, settings |-> Defaults]
        ELSE IF good = {} THEN [ok |-> TRUE, settings |-> Defaults]
        ELSE Load(candidates[Min(good)][1])
LoadWithFallbacks(named, places) ==
    LET candidates == IF named # <<>> THEN <<named[1]>> ELSE places
        there == {i \in DOMAIN candidates : candidates[i] # NoFile}
    IN  IF named # <<>> /\ there = {} THEN [ok |-> FALSE, settings |-> Defaults]
        ELSE IF there = {} THEN [ok |-> TRUE, settings |-> Defaults]
        ELSE Load(candidates[Min(there)][1])

-----------------------------------------------------------------------------
(* What a configuration means to who writes it, by vectora.cfg and without *)
(* the reader: the only file that counts is the first; each of its lines   *)
(* has one statement "key = value" or none, up to its comment, however     *)
(* long that is; the last statement for a key is in force.                 *)

FileThatCounts(named, places) ==
    IF named # <<>> THEN named[1]
    ELSE LET there == {i \in DOMAIN places : places[i] # NoFile}
         IN  IF there = {} THEN NoFile ELSE places[Min(there)]
LinesOf(place) == IF place = NoFile THEN <<>> ELSE place[1]

(* How many of the words of a line come before its comment. *)
Said(line) ==
    CHOOSE n \in 0..Len(line) :
        /\ \A i \in 1..n : line[i] \notin CommentMarks
        /\ n < Len(line) => line[n + 1] \in CommentMarks
Silent(line) == Said(line) = 0

(* The value that words stand for as the value of a key: none or one.  A   *)
(* text may have quotes around it, and a blank world path means that the   *)
(* world is looked for.                                                    *)
Enclosed(words) == Len(words) >= 2 /\ words[1] = Quote /\ words[Len(words)] = Quote
Denoted(key, words) ==
    {Numeral[w] : w \in {w \in DOMAIN Numeral :
        /\ key \in DOMAIN IntegerKeys /\ words = <<w>>
        /\ IntegerKeys[key][1] <= Numeral[w] /\ Numeral[w] <= IntegerKeys[key][2]}}
    \cup {b \in BOOLEAN : key \in BooleanKeys /\ \E w \in IF b THEN True ELSE False : words = <<w>>}
    \cup {w \in UNION {ChoiceKeys[k] : k \in DOMAIN ChoiceKeys} :
             key \in DOMAIN ChoiceKeys /\ w \in ChoiceKeys[key] /\ words = <<w>>}
    \cup {text \in {words, SubSeq(words, 2, Len(words) - 1)} :
             /\ key \in TextKeys /\ 1 <= Len(text) /\ Len(text) < TextRoom
             /\ words = IF Enclosed(words) THEN <<Quote>> \o text \o <<Quote>> ELSE text}
    \cup {text \in {<<>>} : key = "world_path" /\ words = text}

(* What a line gives to a key. *)
Given(line, key) ==
    IF Said(line) >= 2 /\ line[1] = key /\ line[2] = "="
    THEN Denoted(key, SubSeq(line, 3, Said(line))) ELSE {}

IsRight(line) == Silent(line) \/ Given(line, line[1]) # {}
MeantToStart(named, places) ==
    LET lines == LinesOf(FileThatCounts(named, places))
    IN  /\ named # <<>> => named[1] # NoFile
        /\ \A i \in DOMAIN lines : IsRight(lines[i])

KeysMeant(named, places) ==
    LET lines == LinesOf(FileThatCounts(named, places))
    IN  DOMAIN Defaults \cup {lines[i][1] : i \in {i \in DOMAIN lines : ~Silent(lines[i])}}
Meant(named, places, key) ==
    LET lines == LinesOf(FileThatCounts(named, places))
        gives == {i \in DOMAIN lines : Given(lines[i], key) # {}}
    IN  IF gives = {} THEN Defaults[key]
        ELSE CHOOSE value \in Given(lines[Max(gives)], key) : TRUE

(* Two things the reader takes otherwise than they are meant: lines that   *)
(* are longer than its buffer, with the words on them, and a blank path.   *)
LinesFit(place) == \A i \in DOMAIN LinesOf(place) : Len(LinesOf(place)[i]) <= LineRoom
Overlong(place) ==
    LET lines == LinesOf(place)
    IN  UNION {ToSet(lines[i]) : i \in {i \in DOMAIN lines : Len(lines[i]) > LineRoom}}
LeavesPathBlank(place) ==
    \E i \in DOMAIN LinesOf(place) :
        LET line == LinesOf(place)[i]
        IN  Said(line) = 2 /\ line[1] = "world_path" /\ line[2] = "="
=============================================================================
