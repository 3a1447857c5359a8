------------------------------ MODULE PlayClock ------------------------------
(***************************************************************************)
(* The keep-alive and the idle timeout of a session in play (main.c        *)
(* run_play_state_loop), which a loop looks at once in every pass.         *)
(*                                                                         *)
(* A pass reads the clock once, into now, sends the keep-alive if it is    *)
(* due, does its other work, looks at the idle timeout, and waits in recv  *)
(* for a second at most.  Time passes in the middle of all that.  The code *)
(* compares points of time in whole seconds; here they are ages, seconds   *)
(* before the clock as it stands, so that now itself has an age.  The      *)
(* clock may be set, which changes the ages and not the time that passed.  *)
(*                                                                         *)
(* One recv is taken for one frame: what came with it is lost.  Positions  *)
(* are points on a line, in units of the epsilon of idle_position_epsilon; *)
(* the code compares x and z, each as here.                                *)
(***************************************************************************)
EXTENDS Integers, FiniteSets

CONSTANTS
    KeepAlive,      \* config keep_alive_interval_seconds
    IdleLimits,     \* choices for play_idle_timeout_seconds, 0 for none
    Place,          \* positions of the player
    Epsilon,        \* config idle_position_epsilon_milliblocks
    NoPlace,        \* has_last_activity_position = 0
    MaxPass,        \* bound: seconds of a pass, the one in recv included
    ClockLeaps,     \* by how many seconds the clock may be set
    MaxLeapt        \* bound: by how many seconds in all

ASSUME ClockAssumption ==
    /\ KeepAlive \in 1..300 /\ IdleLimits \subseteq 0..3600
    /\ Place \subseteq Int /\ Epsilon \in Nat /\ NoPlace \notin Place
ASSUME ClockBounds ==
    /\ MaxPass \in Nat \ {0} /\ MaxLeapt \in Nat /\ ClockLeaps \subseteq Int \ {0}

VARIABLES
    idleLimit, countsReplies, needsMove,    \* the configuration
    step,                                   \* where in the pass the loop is
    nowAge, keepAge, seenAge,               \* now, last_keepalive, last_client_activity
    anchor,                                 \* last_activity_x, last_activity_z
    spent,                                  \* seconds of this pass so far
    sinceKeep, sinceSeen,                   \* history: true seconds since the last keep-alive was
                                            \* sent, and since a packet counted as activity
    visited,                                \* history: positions received since then
    ahead, back                             \* history: by how much the clock was set

clockConfig == <<idleLimit, countsReplies, needsMove>>
clockAges == <<nowAge, keepAge, seenAge>>
clockTruth == <<sinceKeep, sinceSeen>>
clockVars == <<clockConfig, step, clockAges, anchor, spent, clockTruth, visited, ahead, back>>

-----------------------------------------------------------------------------
ClockInit ==
    /\ idleLimit \in IdleLimits /\ countsReplies \in BOOLEAN /\ needsMove \in BOOLEAN
    /\ step = "top"
    /\ nowAge = 0 /\ keepAge = 0 /\ seenAge = 0
    /\ anchor = NoPlace
    /\ spent = 0
    /\ sinceKeep = 0 /\ sinceSeen = 0
    /\ visited = {} /\ ahead = 0 /\ back = 0

(* Sleep for 50 ms and read the clock. *)
KeepAliveIsDueIfIdle == keepAge >= KeepAlive /\ seenAge > 0  \* mutant: not while packets come in
KeepAliveIsDue == keepAge >= KeepAlive
StartPass ==
    /\ step = "top"
    /\ nowAge' = 0 /\ spent' = 0
    /\ step' = IF KeepAliveIsDue THEN "ping" ELSE "idle"
    /\ UNCHANGED <<clockConfig, keepAge, seenAge, anchor, clockTruth, visited, ahead, back>>

(* The keep-alive has been sent; last_keepalive is the now of the pass.    *)
SendPing ==
    /\ step = "ping"
    /\ keepAge' = nowAge
    /\ sinceKeep' = 0
    /\ step' = "idle"
    /\ UNCHANGED <<clockConfig, nowAge, seenAge, anchor, spent, sinceSeen, visited, ahead, back>>

(* The idle timeout, by the now of the pass. *)
IsIdle == idleLimit > 0 /\ seenAge - nowAge >= idleLimit
CloseIdle ==
    /\ step = "idle" /\ IsIdle
    /\ step' = "closed"
    /\ UNCHANGED <<clockConfig, clockAges, anchor, spent, clockTruth, visited, ahead, back>>
GoOn ==
    /\ step = "idle" /\ ~IsIdle
    /\ step' = "recv"
    /\ UNCHANGED <<clockConfig, clockAges, anchor, spent, clockTruth, visited, ahead, back>>

-----------------------------------------------------------------------------
(* recv: nothing within a second, what no frame begins, or a packet.       *)
RecvNone ==
    /\ step = "recv"
    /\ step' = "top"
    /\ UNCHANGED <<clockConfig, clockAges, anchor, spent, clockTruth, visited, ahead, back>>

Near(p, q) == p - q \in -Epsilon..Epsilon

(* counts_as_activity, of a keep-alive reply, of a position and of the rest. *)
Packet == [kind : {"position"}, at : Place] \cup [kind : {"reply", "other"}, at : {NoPlace}]
Counts(p) ==
    /\ p.kind = "reply" => countsReplies
    /\ needsMove => p.kind = "position" /\ (anchor # NoPlace => ~Near(p.at, anchor))

RecvPacketDrifts ==                                      \* mutant: compares with the last position
    /\ step = "recv"
    /\ \E p \in Packet :
         /\ anchor' = IF p.kind = "position" THEN p.at ELSE anchor
         /\ seenAge' = IF Counts(p) THEN 0 ELSE seenAge
         /\ sinceSeen' = IF Counts(p) THEN 0 ELSE sinceSeen
         /\ visited' = (IF Counts(p) /\ p.kind = "position" THEN {} ELSE visited) \cup ({p.at} \ {NoPlace})
    /\ step' = "top"
    /\ UNCHANGED <<clockConfig, nowAge, keepAge, spent, sinceKeep, ahead, back>>
RecvPacket ==
    /\ step = "recv"
    /\ \E p \in Packet :
         /\ anchor' = IF Counts(p) /\ p.kind = "position" THEN p.at ELSE anchor
         /\ seenAge' = IF Counts(p) THEN 0 ELSE seenAge
         /\ sinceSeen' = IF Counts(p) THEN 0 ELSE sinceSeen
         /\ visited' = (IF Counts(p) /\ p.kind = "position" THEN {} ELSE visited) \cup ({p.at} \ {NoPlace})
    /\ step' = "top"
    /\ UNCHANGED <<clockConfig, nowAge, keepAge, spent, sinceKeep, ahead, back>>

-----------------------------------------------------------------------------
(* Time.  Without an idle timeout last_client_activity is read by nobody.  *)

Second ==
    /\ step # "closed" /\ spent < MaxPass
    /\ spent' = spent + 1
    /\ nowAge' = nowAge + 1 /\ keepAge' = keepAge + 1 /\ sinceKeep' = sinceKeep + 1
    /\ IF idleLimit > 0
       THEN seenAge' = seenAge + 1 /\ sinceSeen' = sinceSeen + 1
       ELSE UNCHANGED <<seenAge, sinceSeen>>
    /\ UNCHANGED <<clockConfig, step, anchor, visited, ahead, back>>

Leap ==
    /\ step # "closed"
    /\ \E d \in ClockLeaps :
         /\ ahead' = IF d > 0 THEN ahead + d ELSE ahead
         /\ back' = IF d < 0 THEN back - d ELSE back
         /\ ahead' + back' <= MaxLeapt
         /\ nowAge' = nowAge + d /\ keepAge' = keepAge + d
         /\ seenAge' = IF idleLimit > 0 THEN seenAge + d ELSE seenAge
    /\ UNCHANGED <<clockConfig, step, anchor, spent, clockTruth, visited>>

ClockNext ==
    \/ StartPass \/ SendPing \/ CloseIdle \/ GoOn
    \/ RecvNone \/ RecvPacket
    \/ Second \/ Leap

ClockSpec == ClockInit /\ [][ClockNext]_clockVars

-----------------------------------------------------------------------------
(* Properties.                                                             *)

ClockTypeOK ==
    /\ idleLimit \in IdleLimits /\ {countsReplies, needsMove} \subseteq BOOLEAN
    /\ step \in {"top", "ping", "idle", "recv", "closed"}
    /\ {nowAge, keepAge, seenAge} \subseteq Int
    /\ anchor \in Place \cup {NoPlace} /\ visited \subseteq Place
    /\ spent \in 0..MaxPass
    /\ {sinceKeep, sinceSeen, ahead, back} \subseteq Nat

(* The client never waits longer for a keep-alive than the interval and    *)
(* two passes, whatever it sends meanwhile, unless the clock is set back:  *)
(* then longer by as much.                                                 *)
KeepAliveInTime == sinceKeep <= KeepAlive + 2 * MaxPass + back

(* The idle timeout is never early, unless the clock is set ahead: nothing *)
(* that counts came for that long, and, where movement is asked for, all   *)
(* positions received since lie within two epsilons of each other.  It is  *)
(* late by two passes at most, unless the clock is set back.               *)
IdleExact ==
    idleLimit > 0 =>
        /\ step = "closed" =>
              /\ sinceSeen >= idleLimit - ahead
              /\ needsMove => \A p, q \in visited : p - q <= 2 * Epsilon
        /\ sinceSeen <= idleLimit + 2 * MaxPass + back
=============================================================================
