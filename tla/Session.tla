------------------------------- MODULE Session -------------------------------
(***************************************************************************)
(* The life of one connection as its worker goes through it: Login, then   *)
(* play, of which PlayClock and ChatRate are the parts that depend on      *)
(* time, with the settings the server was started with.  In play these two *)
(* share nothing but the clock, so a behaviour follows one of them.        *)
(***************************************************************************)
EXTENDS Login, PlayClock, ChatRate, ServerConfig

CONSTANTS
    Configurations, \* what a server may find: [named, places], see LoadWithFallbacks
    Forgotten       \* one of them, for a server that no longer looks

ASSUME ConfigurationsAssumption ==       \* places hold files, which are lines of words
    \A c \in Configurations : {c.named, c.places} \subseteq Seq(Seq(Seq(Seq(STRING))))
ASSUME DefaultsAssumption == <<>> \in Replays /\ "fits" \in Fits /\ 0 \in IdleLimits

VARIABLES
    part,           \* "startup", "serving" or "exited", then "login", then "timers" or "chat"
    configuration,  \* what there is to be found
    settings        \* server_config

startVars == <<configuration, settings>>
sessionVars == <<loginVars, clockVars, rateVars, part, startVars>>

SessionInit ==
    /\ LoginInit /\ ClockInit /\ RateInit
    /\ idleLimit = 0 /\ countsReplies = FALSE /\ needsMove = FALSE
    /\ part = "startup" /\ configuration \in Configurations /\ settings = Defaults

(* main reads the configuration, and exits if it is wrong. *)
StartUp ==
    /\ part = "startup"
    /\ LET result == LoadWithFallbacks(configuration.named, configuration.places)
       IN  /\ settings' = result.settings
           /\ part' = IF result.ok THEN "serving" ELSE "exited"
    /\ UNCHANGED <<loginVars, clockVars, rateVars, configuration>>

(* A client connects; its session has a copy of the settings.  This goes   *)
(* on with the interval and the epsilon of PlayClock's constants.          *)
Connect ==
    /\ part = "serving"
    /\ settings.keep_alive_interval_seconds = KeepAlive
    /\ settings.idle_position_epsilon_milliblocks = Epsilon
    /\ idleLimit' \in IdleLimits /\ idleLimit' = settings.play_idle_timeout_seconds
    /\ countsReplies' \in BOOLEAN /\ countsReplies' = settings.idle_timeout_counts_keep_alive
    /\ needsMove' \in BOOLEAN /\ needsMove' = settings.idle_timeout_requires_position_change
    /\ part' = "login"
    /\ configuration' = Forgotten /\ settings' = Defaults
    /\ UNCHANGED <<loginVars, step, clockAges, anchor, spent, clockTruth, visited, ahead, back, rateVars>>

InLogin ==
    /\ part = "login" /\ LoginNext
    /\ UNCHANGED <<clockVars, rateVars, part, startVars>>

(* run_play_state_loop begins: timers start, and nothing of the login is   *)
(* kept that play depends on; frames still under way are read as packets   *)
(* of play.  The client has read what it was sent before.                  *)
EnterPlay ==
    /\ part = "login" /\ pc = "play" /\ inbox = <<>>
    /\ part' \in {"timers", "chat"}
    /\ IF part' = "timers" THEN UNCHANGED clockConfig
       ELSE idleLimit' = 0 /\ countsReplies' = FALSE /\ needsMove' = FALSE
    /\ wire' = <<>> /\ todo' = <<>> /\ state' = "play"
    /\ honest' = TRUE /\ intent' = "login" /\ fit' = "fits" /\ replay' = <<>>
    /\ extra' = 0 /\ gone' = FALSE /\ confused' = FALSE /\ spoiled' = {}
    /\ UNCHANGED <<pc, inbox, step, clockAges, anchor, spent, clockTruth, visited, ahead, back,
                   rateVars, startVars>>

InTimers ==
    /\ part = "timers" /\ ClockNext
    /\ UNCHANGED <<loginVars, rateVars, part, startVars>>

InChat ==
    /\ part = "chat" /\ RateNext
    /\ UNCHANGED <<loginVars, clockVars, part, startVars>>

(* A server that has exited, a session that is over, and settings that the *)
(* constants do not have.                                                  *)
Over ==
    /\ pc = "closed" \/ step = "closed" \/ part \in {"exited", "serving"}
    /\ UNCHANGED sessionVars

SessionNext == StartUp \/ Connect \/ InLogin \/ EnterPlay \/ InTimers \/ InChat \/ Over

Spec == SessionInit /\ [][SessionNext]_sessionVars

(* The thread is scheduled, and both what arrives and the end of the five  *)
(* seconds make recv return; nothing is asked of the client.               *)
FairSpec == Spec /\ WF_sessionVars(InLogin /\ Worker)

-----------------------------------------------------------------------------
(* Properties.                                                             *)

TypeOK ==
    /\ LoginTypeOK /\ ClockTypeOK /\ RateTypeOK
    /\ part \in {"startup", "serving", "exited", "login", "timers", "chat"}
    /\ configuration \in Configurations \cup {Forgotten}
    /\ \A key \in DOMAIN settings \cap DOMAIN IntegerKeys :
         settings[key] \in IntegerKeys[key][1]..IntegerKeys[key][2]

(* The server starts exactly if the file that counts is meant to start it, *)
(* and then has what its last statement for each key says and nothing      *)
(* else; no file that does not count stops it or gives it a setting.  It   *)
(* also refuses to start for a blank world path.  A line longer than the   *)
(* buffer may stop it too, or put any of its words in force; it changes    *)
(* nothing for the other keys, and excuses no other line that is wrong     *)
(* (load_server_config_with_fallbacks).                                    *)
StartsAsMeant ==
    LET c == configuration
        place == FileThatCounts(c.named, c.places)
        kept == DOMAIN settings \ Overlong(place)
    IN  /\ part = "exited" =>
              ~MeantToStart(c.named, c.places) \/ LeavesPathBlank(place) \/ ~LinesFit(place)
        /\ part = "serving" =>
              /\ c.named # <<>> => c.named[1] # NoFile
              /\ \A i \in DOMAIN LinesOf(place) :
                    Len(LinesOf(place)[i]) <= LineRoom => IsRight(LinesOf(place)[i])
              /\ kept = KeysMeant(c.named, c.places) \ Overlong(place)
              /\ \A key \in kept : settings[key] = Meant(c.named, c.places, key)
=============================================================================
