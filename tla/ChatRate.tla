------------------------------ MODULE ChatRate ------------------------------
(***************************************************************************)
(* The chat limit of a session (main.c record_chat_message_and_check_limit *)
(* and its caller): a tumbling window, strikes that double the wait, and a *)
(* wait during which every line is refused.                                *)
(*                                                                         *)
(* The code keeps points of time in whole seconds and compares them with   *)
(* time(NULL); here they are kept as ages, seconds before now, or for the  *)
(* end of the wait, seconds after now.  The clock may be set: then ages    *)
(* change without time passing, may become negative, and a wait that was   *)
(* over may begin again.                                                   *)
(***************************************************************************)
EXTENDS Integers, Sequences, FiniteSets

CONSTANTS
    MaxMessages,    \* CHAT_RATE_MAX_MESSAGES (5)
    Window,         \* CHAT_RATE_WINDOW_SECONDS (3)
    BlockBase,      \* CHAT_RATE_BLOCK_BASE_SECONDS (10)
    BlockMax,       \* CHAT_RATE_BLOCK_MAX_SECONDS (120)
    Decay,          \* CHAT_RATE_STRIKE_DECAY_SECONDS (300)
    MaxStrikes,     \* 30
    MaxShift,       \* 6
    Leaps,          \* by how many seconds the clock may be set
    MaxLeaps,       \* bound: how often
    Slack           \* how far all leaps together may take the clock back

ASSUME RateAssumption ==
    /\ {MaxMessages, Window, BlockBase, BlockMax, Decay, MaxStrikes, MaxShift} \subseteq Nat
    /\ MaxMessages > 0 /\ Window > 0 /\ MaxStrikes > 0
    /\ BlockBase >= Window /\ BlockMax >= BlockBase /\ Decay >= BlockMax

(* block_seconds << n, the base doubled n times. *)
Shifted[n \in 0..MaxShift] == IF n = 0 THEN BlockBase ELSE 2 * Shifted[n - 1]

ASSUME GrowthAssumption == Shifted[MaxShift] >= BlockMax /\ MaxStrikes > MaxShift
ASSUME LeapAssumption ==
    /\ Leaps \subseteq Int /\ {MaxLeaps, Slack} \subseteq Nat
    /\ \A d \in Leaps : MaxLeaps * (0 - d) <= Slack

VARIABLES
    windowAge, count,   \* chat_rate_window_start, chat_rate_message_count
    strikes, lastAge,   \* chat_rate_strike_count, chat_rate_last_violation
    left,               \* chat_rate_block_until
    lines,              \* history: true ages of the lines let through of late
    sentence,           \* history: the last wait
    leaps               \* history: how often the clock was set

rateVars == <<windowAge, count, strikes, lastAge, left, lines, sentence, leaps>>

-----------------------------------------------------------------------------
Lesser(a, b) == IF a < b THEN a ELSE b
Greater(a, b) == IF a > b THEN a ELSE b

(* What is older than its limit by more than leaps can take back is older  *)
(* for ever, and so is a field that is still 0.                            *)
Beyond(limit) == limit + Slack
Older(age, d, limit) == IF age = Beyond(limit) THEN age ELSE Lesser(age + d, Beyond(limit))

(* block_seconds: the base, doubled for every strike after the first. *)
WaitWraps(s) == Lesser(Shifted[(s - 1) % MaxShift], BlockMax)      \* mutant: the shift wraps
Wait(s) == Lesser(Shifted[Lesser(s - 1, MaxShift)], BlockMax)

RateInit ==
    /\ windowAge = Beyond(Window) /\ count = 0
    /\ strikes = 0 /\ lastAge = Beyond(Decay)
    /\ left = -Slack
    /\ lines = <<>> /\ sentence = 0 /\ leaps = 0

(* The number of this line in its window. *)
Expired == windowAge >= Window
NumberRestarts == IF Expired \/ count = MaxMessages THEN 1 ELSE count + 1  \* mutant: a full window begins anew
Number == IF Expired THEN 1 ELSE count + 1

Refuse ==
    /\ left > 0
    /\ UNCHANGED rateVars

LetThrough ==
    /\ left <= 0 /\ Number <= MaxMessages
    /\ count' = Number
    /\ windowAge' = IF Expired THEN 0 ELSE windowAge
    /\ lines' = Append(lines, 0)
    /\ UNCHANGED <<strikes, lastAge, left, sentence, leaps>>

(* One line too many: a strike, a wait, and a new window with no lines.    *)
NextStrikesUncapped == (IF lastAge >= Decay THEN 0 ELSE strikes) + 1   \* mutant: no cap
NextStrikes == Lesser((IF lastAge >= Decay THEN 0 ELSE strikes) + 1, MaxStrikes)
Violate ==
    /\ left <= 0 /\ Number > MaxMessages
    /\ strikes' = NextStrikes
    /\ left' = Wait(strikes') /\ sentence' = left'
    /\ lastAge' = 0 /\ windowAge' = 0 /\ count' = 0
    /\ UNCHANGED <<lines, leaps>>

(* A line that is neither a command nor from a muted player. *)
RateLine == Refuse \/ LetThrough \/ Violate

-----------------------------------------------------------------------------
(* The clock. *)

Moved(d) ==
    /\ windowAge' = Older(windowAge, d, Window)
    /\ lastAge' = Older(lastAge, d, Decay)
    /\ left' = Greater(left - d, -Slack)

(* The oldest lines, which came a whole window ago. *)
Outlived == CHOOSE k \in 0..Len(lines) : \A i \in DOMAIN lines : i <= k <=> lines[i] + 1 >= Window

RateSecond ==
    /\ Moved(1)
    /\ lines' = [i \in 1..Len(lines) - Outlived |-> lines[i + Outlived] + 1]
    /\ UNCHANGED <<count, strikes, sentence, leaps>>

RateLeap ==
    /\ leaps < MaxLeaps
    /\ \E d \in Leaps : Moved(d)
    /\ leaps' = leaps + 1
    /\ UNCHANGED <<count, strikes, lines, sentence>>

RateNext == RateLine \/ RateSecond \/ RateLeap
RateSpec == RateInit /\ [][RateNext]_rateVars

-----------------------------------------------------------------------------
(* Properties.                                                             *)

RateTypeOK ==
    /\ windowAge \in Int /\ count \in 0..MaxMessages
    /\ strikes \in 0..MaxStrikes /\ lastAge \in Int
    /\ left \in Int /\ sentence \in 0..BlockMax
    /\ lines \in Seq(0..Window - 1)
    /\ leaps \in 0..MaxLeaps

(* Windows tumble, so two full ones may meet: in any Window seconds no     *)
(* more than twice MaxMessages lines of a player reach the others, however *)
(* they are timed, plus MaxMessages for each time the clock is set.        *)
RateBound == Len(lines) <= (2 + leaps) * MaxMessages

(* Who goes on after a wait waits twice as long, up to BlockMax: a         *)
(* violation within Decay seconds of the last is never punished less.      *)
WaitsGrow ==
    [][Violate /\ lastAge < Decay => sentence' = Lesser(2 * sentence, BlockMax)]_rateVars
=============================================================================
