---------------------------- MODULE Session_proofs ----------------------------
(***************************************************************************)
(* Proofs about the life of a session: what depends on time in play, which *)
(* is PlayClock and ChatRate (the keep-alive is in time, the idle timeout  *)
(* is exact, the chat limit lets so many lines through and its waits grow, *)
(* for every configuration, every bound and however the clock is set), and *)
(* a whole session, of which the login keeps what Login_proofs shows of it *)
(* and the timers of play have not started until play begins.              *)
(*                                                                         *)
(* What the code knows of time are differences of ages, which a clock that *)
(* is set does not change; what it forgets is how long ago it read the     *)
(* clock.  So each part of the first invariant compares a true time with   *)
(* an age and with how much of the present pass is over.                   *)
(***************************************************************************)
EXTENDS Session, Login_proofs

-----------------------------------------------------------------------------
(* The keep-alive and the idle timeout.                                    *)

Types ==
    /\ idleLimit \in IdleLimits /\ countsReplies \in BOOLEAN /\ needsMove \in BOOLEAN
    /\ step \in {"top", "ping", "idle", "recv", "closed"}
    /\ nowAge \in Int /\ keepAge \in Int /\ seenAge \in Int
    /\ anchor \in Place \cup {NoPlace} /\ visited \subseteq Place
    /\ spent \in 0..MaxPass
    /\ sinceKeep \in Nat /\ sinceSeen \in Nat /\ ahead \in Nat /\ back \in Nat

(* An age is wrong by no more than the clock was set. *)
NowAge == nowAge + back >= spent
KeepAge == keepAge + back >= sinceKeep
SeenAge == idleLimit > 0 => seenAge + back >= sinceSeen /\ seenAge <= sinceSeen + ahead

(* The keep-alive: sent a moment ago, not due yet, or due in this pass. *)
KeepSpent == sinceKeep <= spent + (keepAge - nowAge) + back
KeepNotDue == step # "ping" => keepAge - nowAge < KeepAlive
KeepDue == step = "ping" => sinceKeep <= KeepAlive + MaxPass + back + spent

(* The idle timeout: before it is looked at, after that, and once it ended *)
(* the session.                                                            *)
SeenBefore ==
    idleLimit > 0 /\ step \in {"ping", "idle"} =>
        /\ sinceSeen <= spent + (seenAge - nowAge) + back
        /\ sinceSeen <= spent + MaxPass + idleLimit + back
        /\ sinceSeen + ahead >= seenAge - nowAge
SeenAfter ==
    idleLimit > 0 /\ step \in {"recv", "top"} => sinceSeen <= spent + idleLimit + back
SeenClosed ==
    idleLimit > 0 /\ step = "closed" =>
        /\ sinceSeen + ahead >= idleLimit
        /\ sinceSeen <= idleLimit + 2 * MaxPass + back

(* Where movement is asked for, the player is near the anchor. *)
NearAnchor ==
    needsMove => \A p \in visited : anchor # NoPlace /\ Near(p, anchor)

CInv ==
    /\ Types
    /\ NowAge /\ KeepAge /\ SeenAge
    /\ KeepSpent /\ KeepNotDue /\ KeepDue
    /\ SeenBefore /\ SeenAfter /\ SeenClosed
    /\ NearAnchor

-----------------------------------------------------------------------------
LEMMA ConstantFacts ==
    /\ KeepAlive \in Nat /\ KeepAlive > 0 /\ MaxPass \in Nat /\ MaxPass > 0
    /\ \A l \in IdleLimits : l \in Nat
    /\ Place \subseteq Int /\ Epsilon \in Nat /\ NoPlace \notin Place
    /\ ClockLeaps \subseteq Int
BY ClockAssumption, ClockBounds

LEMMA ClockStart == ClockInit => CInv
<1> SUFFICES ASSUME ClockInit PROVE CInv
  OBVIOUS
<1>1. Types
  BY ConstantFacts DEF ClockInit, Types
<1>2. NowAge /\ KeepAge /\ SeenAge /\ KeepSpent /\ KeepNotDue /\ KeepDue
  BY ConstantFacts DEF ClockInit, NowAge, KeepAge, SeenAge, KeepSpent, KeepNotDue, KeepDue
<1>3. SeenBefore /\ SeenAfter /\ SeenClosed /\ NearAnchor
  BY ConstantFacts DEF ClockInit, SeenBefore, SeenAfter, SeenClosed, NearAnchor
<1> QED
  BY <1>1, <1>2, <1>3 DEF CInv
-----------------------------------------------------------------------------
(* Each action keeps the invariant.  The parts about the keep-alive and    *)
(* those about the idle timeout do not need each other.                    *)

LEMMA StartPassKeeps == CInv /\ StartPass => CInv'
<1> SUFFICES ASSUME CInv, StartPass PROVE CInv'
  OBVIOUS
<1>1. Types'
  BY ConstantFacts DEF CInv, Types, StartPass, KeepAliveIsDue, clockConfig, clockTruth
<1>2. (NowAge /\ KeepAge /\ SeenAge)'
  BY ConstantFacts, <1>1 DEF CInv, Types, NowAge, KeepAge, SeenAge, StartPass, KeepAliveIsDue, clockConfig, clockTruth
<1>3. (KeepSpent /\ KeepNotDue /\ KeepDue)'
  BY ConstantFacts, <1>1 DEF CInv, Types, NowAge, KeepAge, KeepSpent, KeepNotDue, KeepDue, StartPass, KeepAliveIsDue, clockConfig, clockTruth
<1>4. (SeenBefore /\ SeenAfter /\ SeenClosed)'
  BY ConstantFacts, <1>1 DEF CInv, Types, SeenAge, SeenBefore, SeenAfter, SeenClosed, StartPass, KeepAliveIsDue, clockConfig, clockTruth
<1>5. NearAnchor'
  BY DEF CInv, NearAnchor, Near, StartPass, KeepAliveIsDue, clockConfig, clockTruth
<1> QED
  BY <1>1, <1>2, <1>3, <1>4, <1>5 DEF CInv

LEMMA SendPingKeeps == CInv /\ SendPing => CInv'
<1> SUFFICES ASSUME CInv, SendPing PROVE CInv'
  OBVIOUS
<1>1. Types'
  BY ConstantFacts DEF CInv, Types, SendPing, clockConfig
<1>2. (NowAge /\ KeepAge /\ SeenAge)'
  BY ConstantFacts, <1>1 DEF CInv, Types, NowAge, KeepAge, SeenAge, SendPing, clockConfig
<1>3. (KeepSpent /\ KeepNotDue /\ KeepDue)'
  BY ConstantFacts, <1>1 DEF CInv, Types, NowAge, KeepAge, KeepSpent, KeepNotDue, KeepDue, SendPing, clockConfig
<1>4. (SeenBefore /\ SeenAfter /\ SeenClosed)'
  BY ConstantFacts, <1>1 DEF CInv, Types, SeenAge, SeenBefore, SeenAfter, SeenClosed, SendPing, clockConfig
<1>5. NearAnchor'
  BY DEF CInv, NearAnchor, Near, SendPing, clockConfig
<1> QED
  BY <1>1, <1>2, <1>3, <1>4, <1>5 DEF CInv

LEMMA CloseIdleKeeps == CInv /\ CloseIdle => CInv'
<1> SUFFICES ASSUME CInv, CloseIdle PROVE CInv'
  OBVIOUS
<1>1. Types'
  BY ConstantFacts DEF CInv, Types, CloseIdle, IsIdle, clockConfig, clockAges, clockTruth
<1>2. (NowAge /\ KeepAge /\ SeenAge)'
  BY ConstantFacts, <1>1 DEF CInv, Types, NowAge, KeepAge, SeenAge, CloseIdle, IsIdle, clockConfig, clockAges, clockTruth
<1>3. (KeepSpent /\ KeepNotDue /\ KeepDue)'
  BY ConstantFacts, <1>1 DEF CInv, Types, NowAge, KeepAge, KeepSpent, KeepNotDue, KeepDue, CloseIdle, IsIdle, clockConfig, clockAges, clockTruth
<1>4. (SeenBefore /\ SeenAfter /\ SeenClosed)'
  BY ConstantFacts, <1>1 DEF CInv, Types, SeenAge, SeenBefore, SeenAfter, SeenClosed, CloseIdle, IsIdle, clockConfig, clockAges, clockTruth
<1>5. NearAnchor'
  BY DEF CInv, NearAnchor, Near, CloseIdle, IsIdle, clockConfig, clockAges, clockTruth
<1> QED
  BY <1>1, <1>2, <1>3, <1>4, <1>5 DEF CInv

LEMMA GoOnKeeps == CInv /\ GoOn => CInv'
<1> SUFFICES ASSUME CInv, GoOn PROVE CInv'
  OBVIOUS
<1>1. Types'
  BY ConstantFacts DEF CInv, Types, GoOn, IsIdle, clockConfig, clockAges, clockTruth
<1>2. (NowAge /\ KeepAge /\ SeenAge)'
  BY ConstantFacts, <1>1 DEF CInv, Types, NowAge, KeepAge, SeenAge, GoOn, IsIdle, clockConfig, clockAges, clockTruth
<1>3. (KeepSpent /\ KeepNotDue /\ KeepDue)'
  BY ConstantFacts, <1>1 DEF CInv, Types, NowAge, KeepAge, KeepSpent, KeepNotDue, KeepDue, GoOn, IsIdle, clockConfig, clockAges, clockTruth
<1>4. (SeenBefore /\ SeenAfter /\ SeenClosed)'
  BY ConstantFacts, <1>1 DEF CInv, Types, SeenAge, SeenBefore, SeenAfter, SeenClosed, GoOn, IsIdle, clockConfig, clockAges, clockTruth
<1>5. NearAnchor'
  BY DEF CInv, NearAnchor, Near, GoOn, IsIdle, clockConfig, clockAges, clockTruth
<1> QED
  BY <1>1, <1>2, <1>3, <1>4, <1>5 DEF CInv

LEMMA RecvNoneKeeps == CInv /\ RecvNone => CInv'
<1> SUFFICES ASSUME CInv, RecvNone PROVE CInv'
  OBVIOUS
<1>1. Types'
  BY ConstantFacts DEF CInv, Types, RecvNone, clockConfig, clockAges, clockTruth
<1>2. (NowAge /\ KeepAge /\ SeenAge)'
  BY ConstantFacts, <1>1 DEF CInv, Types, NowAge, KeepAge, SeenAge, RecvNone, clockConfig, clockAges, clockTruth
<1>3. (KeepSpent /\ KeepNotDue /\ KeepDue)'
  BY ConstantFacts, <1>1 DEF CInv, Types, NowAge, KeepAge, KeepSpent, KeepNotDue, KeepDue, RecvNone, clockConfig, clockAges, clockTruth
<1>4. (SeenBefore /\ SeenAfter /\ SeenClosed)'
  BY ConstantFacts, <1>1 DEF CInv, Types, SeenAge, SeenBefore, SeenAfter, SeenClosed, RecvNone, clockConfig, clockAges, clockTruth
<1>5. NearAnchor'
  BY DEF CInv, NearAnchor, Near, RecvNone, clockConfig, clockAges, clockTruth
<1> QED
  BY <1>1, <1>2, <1>3, <1>4, <1>5 DEF CInv

LEMMA RecvPacketKeeps == CInv /\ RecvPacket => CInv'
<1> SUFFICES ASSUME CInv, RecvPacket PROVE CInv'
  OBVIOUS
<1>p. PICK p \in Packet :
        /\ anchor' = IF Counts(p) /\ p.kind = "position" THEN p.at ELSE anchor
        /\ seenAge' = IF Counts(p) THEN 0 ELSE seenAge
        /\ sinceSeen' = IF Counts(p) THEN 0 ELSE sinceSeen
        /\ visited' = (IF Counts(p) /\ p.kind = "position" THEN {} ELSE visited)
                        \cup ({p.at} \ {NoPlace})
  BY DEF RecvPacket
<1>u. /\ step = "recv" /\ step' = "top"
      /\ UNCHANGED <<idleLimit, countsReplies, needsMove, nowAge, keepAge, spent, sinceKeep, ahead, back>>
  BY DEF RecvPacket, clockConfig
<1>a. /\ p.kind = "position" => p.at \in Place
      /\ p.kind # "position" => p.at = NoPlace
  BY DEF Packet
<1>t. /\ anchor' \in Place \cup {NoPlace} /\ visited' \subseteq Place
      /\ seenAge' \in Int /\ sinceSeen' \in Nat
  <2>1. anchor' \in Place \cup {NoPlace}
    BY <1>p, <1>a DEF CInv, Types
  <2>2. visited' \subseteq Place
    <3>1. p.at \in Place \cup {NoPlace}
      BY <1>a
    <3>2. visited \subseteq Place
      BY DEF CInv, Types
    <3>3. visited' \subseteq visited \cup ({p.at} \ {NoPlace})
      BY <1>p
    <3> QED
      BY <3>1, <3>2, <3>3
  <2>3. seenAge' \in Int /\ sinceSeen' \in Nat
    <3>1. CASE Counts(p)
      BY <1>p, <3>1
    <3>2. CASE ~Counts(p)
      BY <1>p, <3>2 DEF CInv, Types
    <3> QED
      BY <3>1, <3>2
  <2> QED
    BY <2>1, <2>2, <2>3
<1>1. Types'
  BY <1>t, <1>u DEF CInv, Types
<1>2. (NowAge /\ KeepAge /\ SeenAge)'
  BY <1>p, <1>u, <1>1, ConstantFacts DEF CInv, Types, NowAge, KeepAge, SeenAge
<1>3. (KeepSpent /\ KeepNotDue /\ KeepDue)'
  BY <1>u, <1>1, ConstantFacts DEF CInv, Types, KeepSpent, KeepNotDue, KeepDue
<1>4. (SeenBefore /\ SeenAfter /\ SeenClosed)'
  BY <1>p, <1>u, <1>1, ConstantFacts DEF CInv, Types, SeenBefore, SeenAfter, SeenClosed
<1>5. NearAnchor'
  <2> SUFFICES ASSUME needsMove', NEW q \in visited' PROVE (anchor # NoPlace /\ Near(q, anchor))'
    BY DEF NearAnchor
  <2>1. CASE Counts(p)
    <3>1. p.kind = "position" /\ q = p.at /\ anchor' = p.at
      BY <2>1, <1>p, <1>u DEF Counts
    <3>2. p.at \in Int /\ p.at # NoPlace
      BY <3>1, <1>a, ConstantFacts
    <3> QED
      BY <3>1, <3>2, ConstantFacts DEF Near
  <2>2. CASE ~Counts(p)
    <3>1. anchor' = anchor /\ q \in visited \cup ({p.at} \ {NoPlace})
      BY <2>2, <1>p
    <3>2. CASE q \in visited
      BY <3>1, <3>2, <1>u DEF CInv, NearAnchor, Near
    <3>3. CASE q \notin visited
      <4>1. q = p.at /\ p.kind = "position"
        BY <3>1, <3>3, <1>a
      <4>2. anchor # NoPlace /\ Near(p.at, anchor)
        BY <2>2, <4>1, <1>u DEF Counts
      <4> QED
        BY <4>1, <4>2, <3>1 DEF Near
    <3> QED
      BY <3>2, <3>3
  <2> QED
    BY <2>1, <2>2
<1> QED
  BY <1>1, <1>2, <1>3, <1>4, <1>5 DEF CInv

LEMMA SecondKeeps == CInv /\ Second => CInv'
<1> SUFFICES ASSUME CInv, Second PROVE CInv'
  OBVIOUS
<1>u. /\ step # "closed" /\ spent < MaxPass /\ spent' = spent + 1
      /\ nowAge' = nowAge + 1 /\ keepAge' = keepAge + 1 /\ sinceKeep' = sinceKeep + 1
      /\ UNCHANGED <<idleLimit, countsReplies, needsMove, step, anchor, visited, ahead, back>>
  BY DEF Second, clockConfig
<1>i. idleLimit > 0 => seenAge' = seenAge + 1 /\ sinceSeen' = sinceSeen + 1
  BY DEF Second
<1>n. ~(idleLimit > 0) => seenAge' = seenAge /\ sinceSeen' = sinceSeen
  BY DEF Second
<1>1. Types'
  BY <1>u, <1>i, <1>n, ConstantFacts DEF CInv, Types
<1>2. (NowAge /\ KeepAge)'
  BY <1>u DEF CInv, Types, NowAge, KeepAge
<1>3. (KeepSpent /\ KeepNotDue /\ KeepDue)'
  BY <1>u, ConstantFacts DEF CInv, Types, KeepSpent, KeepNotDue, KeepDue
<1>4. (SeenAge /\ SeenBefore /\ SeenAfter /\ SeenClosed)'
  <2>1. CASE idleLimit > 0
    <3>1. idleLimit \in Nat /\ spent \in Nat /\ nowAge \in Int /\ seenAge \in Int
          /\ sinceSeen \in Nat /\ ahead \in Nat /\ back \in Nat
      BY ConstantFacts DEF CInv, Types
    <3>2. SeenAge'
      BY <2>1, <3>1, <1>u, <1>i DEF CInv, SeenAge
    <3>3. SeenBefore'
      BY <2>1, <3>1, <1>u, <1>i, ConstantFacts DEF CInv, SeenBefore
    <3>4. SeenAfter' /\ SeenClosed'
      BY <2>1, <3>1, <1>u, <1>i DEF CInv, SeenAfter, SeenClosed
    <3> QED
      BY <3>2, <3>3, <3>4
  <2>2. CASE ~(idleLimit > 0)
    BY <2>2, <1>u DEF SeenAge, SeenBefore, SeenAfter, SeenClosed
  <2> QED
    BY <2>1, <2>2
<1>5. NearAnchor'
  BY <1>u DEF CInv, NearAnchor, Near
<1> QED
  BY <1>1, <1>2, <1>3, <1>4, <1>5 DEF CInv

LEMMA LeapKeeps == CInv /\ Leap => CInv'
<1> SUFFICES ASSUME CInv, Leap PROVE CInv'
  OBVIOUS
<1>1. Types'
  BY ConstantFacts DEF CInv, Types, Leap, clockConfig, clockTruth
<1>2. (NowAge /\ KeepAge /\ SeenAge)'
  BY ConstantFacts, <1>1 DEF CInv, Types, NowAge, KeepAge, SeenAge, Leap, clockConfig, clockTruth
<1>3. (KeepSpent /\ KeepNotDue /\ KeepDue)'
  BY ConstantFacts, <1>1 DEF CInv, Types, NowAge, KeepAge, KeepSpent, KeepNotDue, KeepDue, Leap, clockConfig, clockTruth
<1>4. (SeenBefore /\ SeenAfter /\ SeenClosed)'
  BY ConstantFacts, <1>1 DEF CInv, Types, SeenAge, SeenBefore, SeenAfter, SeenClosed, Leap, clockConfig, clockTruth
<1>5. NearAnchor'
  BY DEF CInv, NearAnchor, Near, Leap, clockConfig, clockTruth
<1> QED
  BY <1>1, <1>2, <1>3, <1>4, <1>5 DEF CInv

LEMMA ClockStep == CInv /\ [ClockNext]_clockVars => CInv'
<1> SUFFICES ASSUME CInv, [ClockNext]_clockVars PROVE CInv'
  OBVIOUS
<1>1. CASE ClockNext
  BY <1>1, StartPassKeeps, SendPingKeeps, CloseIdleKeeps, GoOnKeeps, RecvNoneKeeps,
     RecvPacketKeeps, SecondKeeps, LeapKeeps DEF ClockNext
<1>2. CASE UNCHANGED clockVars
  BY <1>2 DEF CInv, Types, NowAge, KeepAge, SeenAge, KeepSpent, KeepNotDue, KeepDue, SeenBefore,
     SeenAfter, SeenClosed, NearAnchor, Near, clockVars, clockConfig, clockAges, clockTruth
<1> QED
  BY <1>1, <1>2

-----------------------------------------------------------------------------
(* What the invariant says of the properties. *)

LEMMA KeepAliveFollows == CInv => KeepAliveInTime
BY ConstantFacts DEF CInv, Types, KeepSpent, KeepNotDue, KeepDue, KeepAliveInTime

LEMMA IdleFollows == CInv => IdleExact
<1> SUFFICES ASSUME CInv, idleLimit > 0
             PROVE  /\ step = "closed" =>
                          /\ sinceSeen >= idleLimit - ahead
                          /\ needsMove => \A p, q \in visited : p - q <= 2 * Epsilon
                    /\ sinceSeen <= idleLimit + 2 * MaxPass + back
  BY DEF IdleExact
<1>1. step = "closed" => sinceSeen >= idleLimit - ahead
  BY ConstantFacts DEF CInv, Types, SeenClosed
<1>2. sinceSeen <= idleLimit + 2 * MaxPass + back
  BY ConstantFacts DEF CInv, Types, SeenBefore, SeenAfter, SeenClosed
<1>3. ASSUME needsMove, NEW p \in visited, NEW q \in visited
      PROVE  p - q <= 2 * Epsilon
  <2>1. Near(p, anchor) /\ Near(q, anchor) /\ anchor # NoPlace
    BY <1>3 DEF CInv, NearAnchor
  <2>2. p \in Int /\ q \in Int /\ anchor \in Int
    BY <2>1, ConstantFacts DEF CInv, Types
  <2> QED
    BY <2>1, <2>2, ConstantFacts DEF Near
<1> QED
  BY <1>1, <1>2, <1>3

LEMMA TypesFollow == CInv => ClockTypeOK
BY DEF CInv, Types, ClockTypeOK

(* The invariant holds in every reachable state of the timers. *)
THEOREM ClockInvariance == ClockSpec => []CInv
<1> QED
  BY ClockStart, ClockStep, PTL DEF ClockSpec

(* run_play_state_loop sends a keep-alive no later than the interval and   *)
(* two passes after the last, and as much as the clock was set back.       *)
THEOREM Punctual == ClockSpec => []KeepAliveInTime
BY ClockInvariance, KeepAliveFollows, PTL

(* The idle timeout closes a session neither early nor late by more than   *)
(* two passes and what the clock was set.                                  *)
THEOREM Idle == ClockSpec => []IdleExact
BY ClockInvariance, IdleFollows, PTL

-----------------------------------------------------------------------------
(* The chat limit.  The lines of the last seconds are those of the window  *)
(* of the present and what came before it; how much that can be depends on *)
(* whether the clock was set since the window began, which the invariant   *)
(* does not know: it is one bound or the other.                            *)

(* Each shift doubles, so waits lie between the base and the largest one.  *)
LEMMA ShiftDoubles ==
    /\ \A n \in 0..MaxShift : Shifted[n] \in Nat /\ Shifted[n] >= BlockBase
    /\ \A n \in 1..MaxShift : Shifted[n] = 2 * Shifted[n - 1]
<1> DEFINE T == Nat
           first == BlockBase
           next == [i \in 1..MaxShift |-> [r \in T |-> 2 * r]]
           Is(f) == f = [i \in 0..MaxShift |-> IF i = 0 THEN first ELSE 2 * f[i - 1]]
<1>1. MaxShift \in Nat /\ first \in T /\ next \in [1..MaxShift -> [T -> T]]
  BY RateAssumption
<1>2. PICK g \in [0..MaxShift -> T] : CountsUp(g, MaxShift, first, next)
  BY <1>1, DefinedByCounting
<1>3. \A i \in 1..MaxShift : g[i] = 2 * g[i - 1]
  <2> TAKE i \in 1..MaxShift
  <2>1. g[i - 1] \in T
    BY <1>1
  <2> QED BY <1>2, <2>1 DEF CountsUp
<1>4. \A i \in 0..MaxShift : i # 0 => i \in 1..MaxShift
  BY <1>1
<1>5. g[0] = first
  BY <1>2 DEF CountsUp
<1> HIDE DEF first
<1>6. Is(g)
  BY <1>3, <1>4, <1>5
<1>7. Is(Shifted)
  <2>1. Shifted = CHOOSE f : Is(f)
    BY DEF Shifted, first
  <2> QED BY <1>6, <2>1
<1>8. \A n \in 1..MaxShift : Shifted[n] = 2 * Shifted[n - 1]
  <2> TAKE n \in 1..MaxShift
  <2>1. n \in 0..MaxShift /\ n # 0
    BY <1>1
  <2> QED BY <1>7, <2>1
<1> DEFINE G == {n \in 0..MaxShift : Shifted[n] \in Nat /\ Shifted[n] >= first}
<1>9. 0 \in G
  <2>1. Shifted[0] = first
    BY <1>1, <1>7
  <2> QED BY <1>1, <2>1
<1>10. \A i \in 1..MaxShift : i - 1 \in G => i \in G
  <2> TAKE i \in 1..MaxShift
  <2> HAVE i - 1 \in G
  <2>1. Shifted[i] = 2 * Shifted[i - 1] /\ Shifted[i - 1] \in Nat /\ Shifted[i - 1] >= first
    BY <1>8
  <2>2. i \in 0..MaxShift
    BY <1>1
  <2> QED BY <1>1, <2>1, <2>2
<1>11. \A n \in 0..MaxShift : n \in G
  <2> HIDE DEF G
  <2> QED BY <1>1, <1>9, <1>10, CountUp
<1> QED BY <1>8, <1>11 DEF first

(* One strike more doubles the wait, up to the largest.                    *)
LEMMA WaitDoubles ==
    ASSUME NEW s \in 1..MaxStrikes
    PROVE  /\ Wait(s) \in BlockBase..BlockMax
           /\ Wait(Lesser(s + 1, MaxStrikes)) = Lesser(2 * Wait(s), BlockMax)
<1> DEFINE n == Lesser(s - 1, MaxShift)
           t == Lesser(s + 1, MaxStrikes)
           m == Lesser(t - 1, MaxShift)
<1>1. /\ MaxShift \in Nat /\ MaxStrikes \in Nat /\ MaxStrikes > MaxShift
      /\ BlockBase \in Nat /\ BlockMax \in Nat /\ BlockMax >= BlockBase
      /\ Shifted[MaxShift] >= BlockMax
  BY RateAssumption, GrowthAssumption
<1>2. n \in 0..MaxShift /\ m \in 0..MaxShift /\ (m = n + 1 \/ (m = MaxShift /\ n = MaxShift))
  BY <1>1 DEF Lesser
<1>3. /\ Wait(s) = Lesser(Shifted[n], BlockMax) /\ Wait(t) = Lesser(Shifted[m], BlockMax)
  BY DEF Wait
<1> HIDE DEF n, t, m
<1>4. Shifted[n] \in Nat /\ Shifted[n] >= BlockBase /\ Shifted[m] \in Nat
  BY <1>2, ShiftDoubles
<1>5. CASE m = n + 1
  <2>1. Shifted[m] = 2 * Shifted[n]
    <3>1. m \in 1..MaxShift /\ m - 1 = n
      BY <1>1, <1>2, <1>5
    <3> QED BY <3>1, ShiftDoubles
  <2> QED BY <1>1, <1>3, <1>4, <2>1 DEF Lesser, t
<1>6. CASE m = MaxShift /\ n = MaxShift
  BY <1>1, <1>3, <1>4, <1>6 DEF Lesser, t
<1> QED BY <1>2, <1>5, <1>6

RateTypes ==
    /\ windowAge \in Int /\ windowAge <= Beyond(Window)
    /\ count \in 0..MaxMessages
    /\ strikes \in 0..MaxStrikes /\ lastAge \in Int
    /\ left \in Int /\ left >= -Slack /\ sentence \in 0..BlockMax
    /\ lines \in Seq(0..Window - 1)
    /\ \A i, j \in DOMAIN lines : i <= j => lines[i] >= lines[j]
    /\ leaps \in 0..MaxLeaps

(* The first p lines came before the window of the present began: there    *)
(* are no more of them than one window lets through and each leap, and     *)
(* without a leap since then they are older than the window.               *)
After(p) == \A i \in 1..p : lines[i] >= windowAge
Before(p) ==
    /\ p <= MaxMessages * leaps + MaxMessages
    /\ p <= MaxMessages * leaps \/ After(p)
InWindow == \E p \in 0..Len(lines) : Len(lines) - p <= count /\ Before(p)

(* After a violation, until the wait is over and with it the window that   *)
(* began at the same time.                                                 *)
InWait ==
    /\ count = 0
    /\ windowAge = Beyond(Window) \/ windowAge + left >= Window
    /\ Len(lines) <= MaxMessages * leaps + 2 * MaxMessages
    /\ Len(lines) <= MaxMessages * leaps + MaxMessages \/ After(Len(lines))

(* The last wait is the one of the strikes; the first violation is yet to  *)
(* come or is never forgotten.                                             *)
Punished ==
    /\ strikes = 0 => lastAge = Beyond(Decay)
    /\ strikes # 0 => sentence = Wait(strikes)

RateInv == RateTypes /\ (InWindow \/ InWait) /\ Punished

LEMMA RateFacts ==
    /\ MaxMessages \in Nat /\ MaxMessages > 0 /\ Window \in Nat /\ Window > 0
    /\ BlockBase \in Nat /\ BlockBase >= Window /\ BlockMax \in Nat
    /\ MaxStrikes \in Nat /\ MaxStrikes > 0 /\ Decay \in Nat
    /\ MaxLeaps \in Nat /\ Slack \in Nat /\ Leaps \subseteq Int
    /\ Beyond(Window) \in Nat /\ Beyond(Window) >= Window
    /\ Beyond(Decay) \in Nat /\ Beyond(Decay) >= Decay
BY RateAssumption, LeapAssumption DEF Beyond

LEMMA LinesIn ==
    ASSUME NEW T, NEW s \in Seq(T)
    PROVE  Len(s) \in Nat /\ DOMAIN s = 1..Len(s) /\ \A i \in 1..Len(s) : s[i] \in T
OBVIOUS

LEMMA RateStart == RateInit => RateInv
<1> SUFFICES ASSUME RateInit PROVE RateInv
  OBVIOUS
<1>1. lines \in Seq(0..Window - 1) /\ Len(lines) = 0 /\ DOMAIN lines = {}
  BY DEF RateInit
<1>2. RateTypes
  BY <1>1, RateFacts DEF RateInit, RateTypes
<1>3. InWindow
  BY <1>1, RateFacts DEF RateInit, InWindow, Before, After
<1>4. Punished
  BY DEF RateInit, Punished
<1> QED BY <1>2, <1>3, <1>4 DEF RateInv

(* A new line is the youngest. *)
LEMMA LetThroughKeeps == RateInv /\ LetThrough => RateInv'
<1> SUFFICES ASSUME RateInv, LetThrough PROVE RateInv'
  OBVIOUS
<1> USE RateFacts
<1>0. PICK n \in Nat : n = Len(lines)
  BY DEF RateInv, RateTypes
<1>1. /\ RateTypes /\ n = Len(lines) /\ n \in Nat /\ lines' = Append(lines, 0)
      /\ count' = Number /\ count' <= MaxMessages /\ left <= 0
      /\ windowAge' = IF Expired THEN 0 ELSE windowAge
      /\ UNCHANGED <<strikes, lastAge, left, sentence, leaps>>
  BY <1>0 DEF RateInv, RateTypes, LetThrough
<1>2. /\ lines' \in Seq(0..Window - 1) /\ Len(lines') = n + 1 /\ DOMAIN lines' = 1..(n + 1)
      /\ DOMAIN lines = 1..n
      /\ \A i \in 1..n : lines'[i] = lines[i] /\ lines[i] \in 0..Window - 1
      /\ lines'[n + 1] = 0
  <2> DEFINE T == 0..Window - 1
  <2>1. lines \in Seq(T) /\ 0 \in T
    BY <1>1 DEF RateTypes
  <2> HIDE DEF T
  <2>2. /\ Append(lines, 0) \in Seq(T) /\ Len(Append(lines, 0)) = n + 1
        /\ DOMAIN Append(lines, 0) = 1..(n + 1) /\ DOMAIN lines = 1..n
        /\ \A i \in 1..n : Append(lines, 0)[i] = lines[i] /\ lines[i] \in T
        /\ Append(lines, 0)[n + 1] = 0
    BY <1>1, <2>1
  <2> QED BY <1>1, <2>2 DEF T
<1>3. \A i, j \in DOMAIN lines' : i <= j => lines'[i] >= lines'[j]
  <2> SUFFICES ASSUME NEW i \in 1..(n + 1), NEW j \in 1..(n + 1), i <= j
               PROVE  lines'[i] >= lines'[j]
    BY <1>2
  <2>1. CASE j = n + 1
    BY <1>1, <1>2, <2>1
  <2>2. CASE j # n + 1
    <3>1. i \in 1..n /\ j \in 1..n
      BY <1>1, <2>2
    <3> QED BY <1>1, <1>2, <3>1 DEF RateTypes
  <2> QED BY <2>1, <2>2
<1>4. RateTypes'
  BY <1>1, <1>2, <1>3 DEF RateTypes, Number, Expired
<1>5. InWindow'
  <2> DEFINE B == MaxMessages * leaps
  <2>1. B \in Nat /\ leaps' = leaps /\ count \in 0..MaxMessages /\ count' = IF Expired THEN 1 ELSE count + 1
    BY <1>1 DEF RateTypes, Number
  <2>2. \A p \in 0..n : After(p) /\ Expired => p = 0
    <3> SUFFICES ASSUME NEW p \in 0..n, After(p), Expired, p # 0 PROVE FALSE
      OBVIOUS
    <3>1. 1 \in 1..p /\ 1 \in 1..n
      BY <1>1
    <3>2. lines[1] \in Int /\ lines[1] >= windowAge /\ lines[1] < Window
      BY <1>2, <3>1 DEF After
    <3>3. windowAge \in Int /\ windowAge >= Window
      BY <1>1 DEF Expired, RateTypes
    <3> QED BY <3>2, <3>3
  <2>3. CASE InWindow /\ ~Expired
    <3>1. PICK p \in 0..n : n - p <= count /\ Before(p)
      BY <1>1, <2>3 DEF InWindow
    <3>2. Before(p)'
      <4>1. After(p) => After(p)'
        BY <1>1, <1>2, <2>3 DEF After
      <4> QED BY <1>1, <3>1, <4>1 DEF Before
    <3>3. p \in 0..Len(lines') /\ Len(lines') - p <= count'
      <4>1. count' = count + 1 /\ count \in Int /\ Len(lines') = n + 1
        BY <1>2, <2>1, <2>3
      <4> QED BY <3>1, <4>1
    <3> QED BY <3>2, <3>3 DEF InWindow
  <2>4. CASE Expired /\ n <= B + MaxMessages
    <3>1. After(n)'
      BY <1>1, <1>2, <2>4 DEF After
    <3>2. n \in 0..Len(lines') /\ Len(lines') - n <= count' /\ Before(n)'
      BY <1>1, <1>2, <2>1, <2>4, <3>1 DEF Before
    <3> QED BY <3>2 DEF InWindow
  <2>5. Expired => n <= B + MaxMessages \/ ~InWindow
    <3> SUFFICES ASSUME Expired, InWindow PROVE n <= B + MaxMessages
      OBVIOUS
    <3>1. PICK p \in 0..n : n - p <= count /\ Before(p)
      BY <1>1 DEF InWindow
    <3>2. p <= B \/ p = 0
      BY <2>2, <3>1 DEF Before
    <3> HIDE DEF B
    <3> QED BY <1>1, <2>1, <3>1, <3>2
  <2>6. InWait => Expired /\ n <= B + MaxMessages
    <3> SUFFICES ASSUME InWait PROVE Expired /\ n <= B + MaxMessages
      OBVIOUS
    <3>1. Expired
      BY <1>1 DEF InWait, Expired, RateTypes
    <3>2. n <= B + MaxMessages \/ n = 0
      BY <1>1, <2>2, <3>1 DEF InWait
    <3> QED BY <2>1, <3>1, <3>2
  <2> QED BY <2>3, <2>4, <2>5, <2>6 DEF RateInv
<1>6. Punished'
  BY <1>1 DEF RateInv, Punished, Wait
<1> QED BY <1>4, <1>5, <1>6 DEF RateInv

(* One line too many: the wait outlasts the lines of the window. *)
LEMMA ViolateKeeps == RateInv /\ Violate => RateInv'
<1> SUFFICES ASSUME RateInv, Violate PROVE RateInv'
  OBVIOUS
<1> USE RateFacts
<1>0. PICK n \in Nat : n = Len(lines)
  BY DEF RateInv, RateTypes
<1>1. /\ RateTypes /\ n = Len(lines) /\ n \in Nat /\ lines' = lines /\ leaps' = leaps
      /\ left <= 0 /\ strikes' = NextStrikes /\ left' = Wait(strikes') /\ sentence' = left'
      /\ lastAge' = 0 /\ windowAge' = 0 /\ count' = 0
  BY <1>0 DEF RateInv, RateTypes, Violate
<1>2. ~Expired /\ count = MaxMessages
  BY <1>1 DEF Violate, Number, RateTypes
<1>3. strikes' \in 1..MaxStrikes
  BY <1>1 DEF NextStrikes, Lesser, RateTypes
<1>4. left' \in BlockBase..BlockMax
  BY <1>1, <1>3, WaitDoubles
<1>5. RateTypes'
  <2>1. lines' \in Seq(0..Window - 1) /\ \A i, j \in DOMAIN lines' : i <= j => lines'[i] >= lines'[j]
    BY <1>1 DEF RateTypes
  <2>2. leaps' \in 0..MaxLeaps
    BY <1>1 DEF RateTypes
  <2>3. /\ windowAge' \in Int /\ windowAge' <= Beyond(Window) /\ count' \in 0..MaxMessages
        /\ strikes' \in 0..MaxStrikes /\ lastAge' \in Int
        /\ left' \in Int /\ left' >= -Slack /\ sentence' \in 0..BlockMax
    BY <1>1, <1>3, <1>4
  <2> QED BY <2>1, <2>2, <2>3 DEF RateTypes, Beyond
<1>6. n <= MaxMessages * leaps + 2 * MaxMessages
  <2>1. ~InWait
    BY <1>1, <1>2 DEF InWait, Expired, RateTypes
  <2>2. PICK p \in 0..n : n - p <= count /\ Before(p)
    BY <1>1, <2>1 DEF RateInv, InWindow
  <2> DEFINE B == MaxMessages * leaps
  <2>3. B \in Nat /\ p <= B + MaxMessages
    BY <1>1, <2>2 DEF Before, RateTypes
  <2> HIDE DEF B
  <2>4. n <= B + 2 * MaxMessages
    BY <1>1, <1>2, <2>2, <2>3
  <2> QED BY <2>4 DEF B
<1>7. After(Len(lines))'
  <2>1. \A i \in 1..n : lines[i] \in 0..Window - 1
    BY <1>1 DEF RateTypes
  <2> QED BY <1>1, <2>1 DEF After
<1>8. InWait'
  BY <1>1, <1>4, <1>6, <1>7 DEF InWait
<1>9. Punished'
  BY <1>1, <1>3 DEF Punished, Wait
<1> QED BY <1>5, <1>8, <1>9 DEF RateInv

(* The clock moves: ages and the rest of a wait by the same. *)
LEMMA ClockMoves ==
    ASSUME RateTypes, NEW d \in Int, Moved(d)
    PROVE  /\ windowAge' \in Int /\ windowAge' <= Beyond(Window) /\ lastAge' \in Int
           /\ left' \in Int /\ left' >= -Slack
           /\ d >= 0 => windowAge' <= windowAge + d
           /\ windowAge = Beyond(Window) \/ windowAge + left >= Window
                => windowAge' = Beyond(Window) \/ windowAge' + left' >= Window
           /\ lastAge = Beyond(Decay) => lastAge' = Beyond(Decay)
<1>1. /\ windowAge \in Int /\ windowAge <= Window + Slack /\ left \in Int /\ left >= -Slack
      /\ lastAge \in Int /\ Window \in Int /\ Slack \in Nat /\ Decay \in Int
  BY RateFacts DEF RateTypes, Beyond
<1>2. /\ windowAge' = IF windowAge = Window + Slack THEN windowAge ELSE Lesser(windowAge + d, Window + Slack)
      /\ lastAge' = IF lastAge = Decay + Slack THEN lastAge ELSE Lesser(lastAge + d, Decay + Slack)
      /\ left' = Greater(left - d, -Slack)
  BY DEF Moved, Older, Beyond
<1> QED BY <1>1, <1>2 DEF Lesser, Greater, Beyond

(* A second: what is as old as the window is forgotten, the rest ages. *)
LEMMA OutlivedIs ==
    ASSUME RateTypes
    PROVE  /\ Outlived \in 0..Len(lines)
           /\ \A i \in DOMAIN lines : i <= Outlived <=> lines[i] + 1 >= Window
<1>0. PICK n \in Nat : n = Len(lines)
  BY DEF RateTypes
<1>1. /\ DOMAIN lines = 1..n /\ Window \in Nat
      /\ \A i \in 1..n : lines[i] \in Int
      /\ \A i, j \in 1..n : i <= j => lines[i] >= lines[j]
  <2>1. lines \in Seq(0..Window - 1)
    BY DEF RateTypes
  <2>2. DOMAIN lines = 1..n /\ \A i \in 1..n : lines[i] \in 0..Window - 1
    BY <1>0, <2>1, LinesIn
  <2>3. \A i, j \in DOMAIN lines : i <= j => lines[i] >= lines[j]
    BY DEF RateTypes
  <2>4. \A i, j \in 1..n : i <= j => lines[i] >= lines[j]
    BY <2>2, <2>3, Zenon
  <2>5. \A i \in 1..n : lines[i] \in Int
    BY <2>2
  <2> QED BY <2>2, <2>4, <2>5, RateFacts
<1> DEFINE S == {k \in 0..n : \A i \in 1..n : i > k => lines[i] + 1 < Window}
<1>2. S \in SUBSET Nat /\ n \in S
  BY <1>0
<1>3. PICK k \in S : \A m \in S : k <= m
  BY <1>2, LeastNatural
<1>4. k \in 0..n /\ \A i \in 1..n : i > k => lines[i] + 1 < Window
  BY <1>3
<1>5. \A i \in 1..n : i <= k => lines[i] + 1 >= Window
  <2> SUFFICES ASSUME NEW i \in 1..n, i <= k, lines[i] + 1 < Window PROVE FALSE
    BY <1>1
  <2>1. \A j \in 1..n : j > i - 1 => lines[j] + 1 < Window
    BY <1>1
  <2>2. i - 1 \in S
    BY <2>1
  <2> HIDE DEF S
  <2> QED BY <1>3, <1>4, <2>2
<1>6. \A i \in 1..n : i <= k <=> lines[i] + 1 >= Window
  BY <1>1, <1>4, <1>5
<1> QED BY <1>0, <1>1, <1>4, <1>6 DEF Outlived

LEMMA RateSecondKeeps == RateInv /\ RateSecond => RateInv'
<1> SUFFICES ASSUME RateInv, RateSecond PROVE RateInv'
  OBVIOUS
<1> USE RateFacts
<1>0. PICK n \in Nat, k \in Nat : n = Len(lines) /\ k = Outlived /\ k <= n
  BY OutlivedIs DEF RateInv, RateTypes
<1>1. /\ RateTypes /\ Moved(1)
      /\ lines' = [i \in 1..n - k |-> lines[i + k] + 1]
      /\ UNCHANGED <<count, strikes, sentence, leaps>>
  BY <1>0 DEF RateInv, RateSecond
<1>2. /\ \A i \in 1..n : lines[i] \in 0..Window - 1 /\ (i <= k <=> lines[i] + 1 >= Window)
      /\ \A i, j \in 1..n : i <= j => lines[i] >= lines[j]
  <2>1. lines \in Seq(0..Window - 1)
    BY <1>1 DEF RateTypes
  <2>2. DOMAIN lines = 1..n /\ \A i \in 1..n : lines[i] \in 0..Window - 1
    BY <1>0, <2>1, LinesIn
  <2>3. \A i, j \in DOMAIN lines : i <= j => lines[i] >= lines[j]
    BY <1>1 DEF RateTypes
  <2> QED BY <1>0, <1>1, <2>2, <2>3, OutlivedIs
<1>3. /\ lines' \in Seq(0..Window - 1) /\ Len(lines') = n - k /\ DOMAIN lines' = 1..(n - k)
      /\ \A i \in 1..(n - k) : lines'[i] = lines[i + k] + 1 /\ i + k \in 1..n
  <2>1. \A i \in 1..(n - k) : i + k \in 1..n /\ ~(i + k <= k)
    BY <1>0
  <2>2. \A i \in 1..(n - k) : lines[i + k] + 1 \in 0..Window - 1
    BY <1>2, <2>1
  <2> DEFINE T == 0..Window - 1
  <2>3. \A i \in 1..(n - k) : lines[i + k] + 1 \in T
    BY <2>2
  <2> HIDE DEF T
  <2>4. n - k \in Nat
    BY <1>0
  <2>5. lines' \in Seq(T) /\ Len(lines') = n - k /\ DOMAIN lines' = 1..(n - k)
    BY <1>1, <2>3, <2>4
  <2> QED BY <1>1, <2>1, <2>5 DEF T
<1>4. \A i, j \in DOMAIN lines' : i <= j => lines'[i] >= lines'[j]
  <2> SUFFICES ASSUME NEW i \in 1..(n - k), NEW j \in 1..(n - k), i <= j
               PROVE  lines'[i] >= lines'[j]
    BY <1>3
  <2>1. i + k \in 1..n /\ j + k \in 1..n /\ i + k <= j + k
    BY <1>3
  <2>2. lines[i + k] >= lines[j + k] /\ lines[i + k] \in Int /\ lines[j + k] \in Int
    BY <1>2, <2>1
  <2>3. lines'[i] = lines[i + k] + 1 /\ lines'[j] = lines[j + k] + 1
    BY <1>3
  <2> QED BY <2>2, <2>3
<1>5. RateTypes'
  <2>1. /\ windowAge' \in Int /\ windowAge' <= Beyond(Window) /\ lastAge' \in Int
        /\ left' \in Int /\ left' >= -Slack
    BY <1>1, ClockMoves
  <2>2. count' \in 0..MaxMessages /\ strikes' \in 0..MaxStrikes /\ sentence' \in 0..BlockMax /\ leaps' \in 0..MaxLeaps
    BY <1>1 DEF RateTypes
  <2>3. Beyond(Window)' = Beyond(Window)
    BY DEF Beyond
  <2> QED BY <1>3, <1>4, <2>1, <2>2, <2>3 DEF RateTypes
<1>6. \A p \in 0..n, q \in 0..(n - k) : After(p) /\ q <= p - k => After(q)'
  <2> SUFFICES ASSUME NEW p \in 0..n, NEW q \in 0..(n - k), After(p), q <= p - k, NEW i \in 1..q
               PROVE  lines'[i] >= windowAge'
    BY DEF After
  <2>1. i + k \in 1..p /\ i \in 1..(n - k)
    BY <1>0
  <2>2. lines'[i] = lines[i + k] + 1 /\ lines[i + k] \in Int /\ lines[i + k] >= windowAge
    BY <1>2, <1>3, <2>1 DEF After
  <2>3. windowAge' <= windowAge + 1 /\ windowAge \in Int /\ windowAge' \in Int
    <3>1. windowAge \in Int
      BY <1>1 DEF RateTypes
    <3> QED BY <1>1, <3>1, ClockMoves
  <2> QED BY <2>2, <2>3
<1>7. ASSUME InWindow PROVE InWindow'
  <2>1. PICK p \in 0..n : n - p <= count /\ Before(p)
    BY <1>0, <1>7 DEF InWindow
  <2>2. PICK q \in 0..(n - k) : q = IF p >= k THEN p - k ELSE 0
    <3>1. (IF p >= k THEN p - k ELSE 0) \in 0..(n - k)
      BY <1>0
    <3> QED BY <3>1
  <2>3. q <= p /\ (n - k) - q <= count /\ (q = 0 \/ q <= p - k)
    BY <1>0, <1>1, <2>1, <2>2 DEF RateTypes
  <2>4. After(p) => After(q)'
    <3>1. CASE q = 0
      BY <3>1 DEF After
    <3>2. CASE q <= p - k
      BY <1>6, <3>2
    <3> QED BY <2>3, <3>1, <3>2
  <2>5. Before(q)'
    <3> DEFINE B == MaxMessages * leaps
    <3>1. B \in Nat /\ MaxMessages * leaps' = B
      BY <1>1 DEF RateTypes
    <3>2. p <= B + MaxMessages /\ (p <= B \/ After(p))
      BY <2>1 DEF Before
    <3> HIDE DEF B
    <3>3. q <= B + MaxMessages /\ (q <= B \/ After(q)')
      BY <2>3, <2>4, <3>1, <3>2
    <3> QED BY <3>1, <3>3 DEF Before
  <2> QED BY <1>1, <1>3, <2>3, <2>5 DEF InWindow
<1>8. ASSUME InWait PROVE InWait'
  <2>1. windowAge' = Beyond(Window) \/ windowAge' + left' >= Window
    BY <1>1, <1>8, ClockMoves DEF InWait
  <2>2. After(n) => After(n - k)'
    BY <1>0, <1>6
  <2> DEFINE B == MaxMessages * leaps
  <2>3. B \in Nat /\ MaxMessages * leaps' = B
    BY <1>1 DEF RateTypes
  <2>4. n <= B + 2 * MaxMessages /\ (n <= B + MaxMessages \/ After(n))
    BY <1>0, <1>8 DEF InWait
  <2> DEFINE Late == After(n)
             Later == After(n - k)'
  <2> HIDE DEF B, Late, Later
  <2>5. n - k <= B + 2 * MaxMessages /\ (n - k <= B + MaxMessages \/ Later)
    <3>1. (Late => Later) /\ (n <= B + MaxMessages \/ Late)
      BY <2>2, <2>4 DEF Late, Later
    <3>2. B \in Nat /\ n <= B + 2 * MaxMessages
      BY <2>3, <2>4
    <3>3. n - k <= B + 2 * MaxMessages /\ (n <= B + MaxMessages => n - k <= B + MaxMessages)
      BY <1>0, <3>2
    <3> QED BY <3>1, <3>3
  <2>6. After(Len(lines))' <=> Later
    BY <1>3 DEF After, Later
  <2>7. Beyond(Window)' = Beyond(Window) /\ count' = 0
    BY <1>1, <1>8 DEF Beyond, InWait
  <2> QED BY <1>3, <2>1, <2>3, <2>5, <2>6, <2>7 DEF InWait
<1>9. Punished'
  <2>1. Beyond(Decay)' = Beyond(Decay) /\ (strikes # 0 => Wait(strikes)' = Wait(strikes))
    BY <1>1 DEF Beyond, Wait
  <2> QED BY <1>1, <2>1, ClockMoves DEF RateInv, Punished
<1> QED BY <1>5, <1>7, <1>8, <1>9 DEF RateInv

(* A leap lets one more window of lines through. *)
LEMMA RateLeapKeeps == RateInv /\ RateLeap => RateInv'
<1> SUFFICES ASSUME RateInv, RateLeap PROVE RateInv'
  OBVIOUS
<1> USE RateFacts
<1>1. PICK d \in Leaps : Moved(d)
  BY DEF RateLeap
<1>2. /\ RateTypes /\ d \in Int /\ leaps < MaxLeaps /\ leaps' = leaps + 1
      /\ UNCHANGED <<count, strikes, lines, sentence>>
  BY DEF RateInv, RateLeap
<1>3. RateTypes'
  <2>1. /\ windowAge' \in Int /\ windowAge' <= Beyond(Window) /\ lastAge' \in Int
        /\ left' \in Int /\ left' >= -Slack
    BY <1>1, <1>2, ClockMoves
  <2>2. count' \in 0..MaxMessages /\ strikes' \in 0..MaxStrikes /\ sentence' \in 0..BlockMax /\ leaps' \in 0..MaxLeaps
    BY <1>2 DEF RateTypes
  <2>3. lines' \in Seq(0..Window - 1) /\ \A i, j \in DOMAIN lines' : i <= j => lines'[i] >= lines'[j]
    BY <1>2 DEF RateTypes
  <2> QED BY <2>1, <2>2, <2>3 DEF RateTypes, Beyond
<1> DEFINE B == MaxMessages * leaps
<1>4. B \in Nat /\ MaxMessages * leaps' = B + MaxMessages
  BY <1>2 DEF RateTypes
<1>5. ASSUME InWindow PROVE InWindow'
  <2>1. PICK p \in 0..Len(lines) : Len(lines) - p <= count /\ Before(p)
    BY <1>5 DEF InWindow
  <2>2. p <= B + MaxMessages
    BY <2>1 DEF Before
  <2> HIDE DEF B
  <2>3. p <= MaxMessages * leaps' /\ p <= MaxMessages * leaps' + MaxMessages
    BY <1>4, <2>2
  <2> QED BY <1>2, <2>1, <2>3 DEF InWindow, Before
<1>6. ASSUME InWait PROVE InWait'
  <2>1. windowAge' = Beyond(Window) \/ windowAge' + left' >= Window
    BY <1>1, <1>2, <1>6, ClockMoves DEF InWait
  <2>2. Len(lines) \in Nat /\ Len(lines) <= B + 2 * MaxMessages
    BY <1>2, <1>6 DEF InWait, RateTypes
  <2> HIDE DEF B
  <2>3. Len(lines) <= (B + MaxMessages) + MaxMessages /\ Len(lines) <= (B + MaxMessages) + 2 * MaxMessages
    <3>1. B \in Nat
      BY <1>4
    <3> QED BY <2>2, <3>1
  <2>4. Len(lines') <= MaxMessages * leaps' + MaxMessages /\ Len(lines') <= MaxMessages * leaps' + 2 * MaxMessages
    <3>1. lines' = lines /\ MaxMessages * leaps' = B + MaxMessages
      BY <1>2, <1>4
    <3> QED BY <2>3, <3>1, Zenon
  <2> QED BY <1>2, <1>6, <2>1, <2>4 DEF InWait, Beyond
<1>7. Punished'
  <2>1. Beyond(Decay)' = Beyond(Decay) /\ (strikes # 0 => Wait(strikes)' = Wait(strikes))
    BY <1>2 DEF Beyond, Wait
  <2> QED BY <1>1, <1>2, <2>1, ClockMoves DEF RateInv, Punished
<1> QED BY <1>3, <1>5, <1>6, <1>7 DEF RateInv

LEMMA RateStep == RateInv /\ [RateNext]_rateVars => RateInv'
<1>1. RateInv /\ UNCHANGED rateVars => RateInv'
  BY DEF rateVars, RateInv, RateTypes, InWindow, InWait, Before, After, Punished, Beyond, Wait
<1> QED BY <1>1, LetThroughKeeps, ViolateKeeps, RateSecondKeeps, RateLeapKeeps DEF RateNext, RateLine, Refuse

LEMMA RateFollows == RateInv => RateTypeOK /\ RateBound
<1> SUFFICES ASSUME RateInv PROVE RateTypeOK /\ RateBound
  OBVIOUS
<1> USE RateFacts
<1>1. RateTypeOK
  BY DEF RateInv, RateTypes, RateTypeOK
<1> DEFINE B == MaxMessages * leaps
<1>2. B \in Nat /\ (2 + leaps) * MaxMessages = B + 2 * MaxMessages /\ Len(lines) \in Nat /\ count \in 0..MaxMessages
  BY DEF RateInv, RateTypes
<1>3. Len(lines) <= B + 2 * MaxMessages
  <2>1. CASE InWindow
    <3>1. PICK p \in 0..Len(lines) : Len(lines) - p <= count /\ Before(p)
      BY <2>1 DEF InWindow
    <3>2. p <= B + MaxMessages
      BY <3>1 DEF Before
    <3> HIDE DEF B
    <3> QED BY <1>2, <3>1, <3>2
  <2>2. CASE InWait
    BY <2>2 DEF InWait
  <2> QED BY <2>1, <2>2 DEF RateInv
<1> QED BY <1>1, <1>2, <1>3 DEF RateBound

LEMMA ViolationGrows ==
    RateInv /\ Violate /\ lastAge < Decay => sentence' = Lesser(2 * sentence, BlockMax)
<1> SUFFICES ASSUME RateInv, Violate, lastAge < Decay
             PROVE  sentence' = Lesser(2 * sentence, BlockMax)
  OBVIOUS
<1>1. strikes \in 1..MaxStrikes /\ sentence = Wait(strikes) /\ ~(lastAge >= Decay)
  <2>1. strikes \in 0..MaxStrikes /\ lastAge \in Int
    BY DEF RateInv, RateTypes
  <2>2. lastAge # Beyond(Decay)
    BY <2>1, RateFacts
  <2> QED BY <2>1, <2>2, RateFacts DEF RateInv, Punished
<1>2. sentence' = Wait(Lesser(strikes + 1, MaxStrikes))
  BY <1>1 DEF Violate, NextStrikes
<1> QED BY <1>1, <1>2, WaitDoubles

(* The chat limit's invariant holds in every reachable state. *)
THEOREM RateInvariance == RateSpec => []RateInv
BY RateStart, RateStep, PTL DEF RateSpec

(* record_chat_message_and_check_limit lets no more than two windows of    *)
(* lines through in the time of one, plus one for each time the clock is   *)
(* set, however the lines are timed.                                       *)
THEOREM RateLimits == RateSpec => []RateBound
BY RateInvariance, RateFollows, PTL

(* Who goes on after a wait waits twice as long, up to the longest wait. *)
THEOREM WaitsDouble == RateSpec => WaitsGrow
<1>1. RateInv /\ [RateNext]_rateVars
          => [Violate /\ lastAge < Decay => sentence' = Lesser(2 * sentence, BlockMax)]_rateVars
  BY ViolationGrows
<1> QED
  BY RateInvariance, <1>1, PTL DEF RateSpec, WaitsGrow

-----------------------------------------------------------------------------
(* The timers and the limit within the life of a session.                  *)

(* The timers as run_play_state_loop finds them when it begins. *)
Unstarted ==
    /\ step = "top" /\ anchor = NoPlace /\ visited = {}
    /\ nowAge = 0 /\ keepAge = 0 /\ seenAge = 0
    /\ spent = 0 /\ sinceKeep = 0 /\ sinceSeen = 0 /\ ahead = 0 /\ back = 0

SessionInv ==
    /\ CInv
    /\ part \notin {"timers", "chat"} => Unstarted

LEMMA SessionStart == SessionInit => SessionInv
BY ClockStart DEF SessionInit, ClockInit, SessionInv, Unstarted

(* Timers that have not started keep their invariant under any settings.   *)
LEMMA UnstartedKeeps ==
    ASSUME Unstarted,
           UNCHANGED <<step, nowAge, keepAge, seenAge, anchor, spent, sinceKeep, sinceSeen,
                       visited, ahead, back>>,
           idleLimit' \in IdleLimits, countsReplies' \in BOOLEAN, needsMove' \in BOOLEAN
    PROVE  CInv' /\ Unstarted'
<1>1. Types'
  BY ConstantFacts DEF Unstarted, Types
<1>2. (NowAge /\ KeepAge /\ SeenAge /\ KeepSpent /\ KeepNotDue /\ KeepDue)'
  BY ConstantFacts DEF Unstarted, NowAge, KeepAge, SeenAge, KeepSpent, KeepNotDue, KeepDue
<1>3. (SeenBefore /\ SeenAfter /\ SeenClosed)'
  BY ConstantFacts DEF Unstarted, SeenBefore, SeenAfter, SeenClosed
<1>4. NearAnchor'
  BY DEF Unstarted, NearAnchor
<1>5. Unstarted'
  BY DEF Unstarted
<1> QED
  BY <1>1, <1>2, <1>3, <1>4, <1>5 DEF CInv

LEMMA ConnectKeeps == SessionInv /\ Connect => SessionInv'
<1> SUFFICES ASSUME SessionInv, Connect PROVE SessionInv'
  OBVIOUS
<1>1. Unstarted
  BY DEF SessionInv, Connect
<1>2. UNCHANGED <<step, nowAge, keepAge, seenAge, anchor, spent, sinceKeep, sinceSeen,
                  visited, ahead, back>>
  BY DEF Connect, clockAges, clockTruth
<1>3. idleLimit' \in IdleLimits /\ countsReplies' \in BOOLEAN /\ needsMove' \in BOOLEAN
  BY DEF Connect
<1> QED
  BY <1>1, <1>2, <1>3, UnstartedKeeps DEF SessionInv

LEMMA EnterPlayKeeps == SessionInv /\ EnterPlay => SessionInv'
<1> SUFFICES ASSUME SessionInv, EnterPlay PROVE SessionInv'
  OBVIOUS
<1>1. Unstarted
  BY DEF SessionInv, EnterPlay
<1>2. UNCHANGED <<step, nowAge, keepAge, seenAge, anchor, spent, sinceKeep, sinceSeen,
                  visited, ahead, back>>
  BY DEF EnterPlay, clockAges, clockTruth
<1>3. idleLimit \in IdleLimits /\ countsReplies \in BOOLEAN /\ needsMove \in BOOLEAN
  BY DEF SessionInv, CInv, Types
<1>4. idleLimit' \in IdleLimits /\ countsReplies' \in BOOLEAN /\ needsMove' \in BOOLEAN
  <2>1. CASE part' = "timers"
    BY <2>1, <1>3 DEF EnterPlay, clockConfig
  <2>2. CASE part' # "timers"
    BY <2>2, DefaultsAssumption DEF EnterPlay
  <2> QED
    BY <2>1, <2>2
<1> QED
  BY <1>1, <1>2, <1>4, UnstartedKeeps DEF SessionInv

LEMMA SessionStep == SessionInv /\ [SessionNext]_sessionVars => SessionInv'
<1> SUFFICES ASSUME SessionInv, [SessionNext]_sessionVars PROVE SessionInv'
  OBVIOUS
<1>f. ASSUME UNCHANGED clockVars,
             part' \notin {"timers", "chat"} => part \notin {"timers", "chat"}
      PROVE  SessionInv'
  <2>1. CInv'
    BY <1>f, ClockStep DEF SessionInv
  <2>2. part' \notin {"timers", "chat"} => Unstarted'
    BY <1>f DEF SessionInv, Unstarted, clockVars, clockAges, clockTruth
  <2> QED
    BY <2>1, <2>2 DEF SessionInv
<1>1. CASE StartUp
  BY <1>1, <1>f DEF StartUp
<1>2. CASE Connect
  BY <1>2, ConnectKeeps
<1>3. CASE InLogin
  BY <1>3, <1>f DEF InLogin
<1>4. CASE EnterPlay
  BY <1>4, EnterPlayKeeps
<1>5. CASE InTimers
  BY <1>5, ClockStep DEF InTimers, SessionInv
<1>6. CASE InChat
  BY <1>6, <1>f DEF InChat
<1>7. CASE UNCHANGED sessionVars
  BY <1>7, <1>f DEF sessionVars
<1> QED
  BY <1>1, <1>2, <1>3, <1>4, <1>5, <1>6, <1>7 DEF SessionNext, Over

(* The timers' invariant holds throughout a session, from the first byte   *)
(* of the handshake on.                                                    *)
THEOREM SessionInvariance == Spec => []SessionInv
<1> QED
  BY SessionStart, SessionStep, PTL DEF Spec

(* Whatever the login was like, once in play the client never waits longer *)
(* for a keep-alive than the interval, two passes of the loop, and as much *)
(* as the clock is set back (run_play_state_loop).                         *)
THEOREM SessionPunctual == Spec => []KeepAliveInTime
<1>1. SessionInv => KeepAliveInTime
  BY KeepAliveFollows DEF SessionInv
<1> QED
  BY <1>1, SessionInvariance, PTL

(* Whatever the login was like, the idle timeout ends a session in play    *)
(* neither early nor late by more than two passes and what the clock was   *)
(* set (run_play_state_loop).                                              *)
THEOREM SessionIdle == Spec => []IdleExact
<1>1. SessionInv => IdleExact
  BY IdleFollows DEF SessionInv
<1> QED
  BY <1>1, SessionInvariance, PTL

(* The chat limit stands still until play begins. *)
LEMMA SessionRate == RateInv /\ [SessionNext]_sessionVars => RateInv'
<1> SUFFICES ASSUME RateInv, [SessionNext]_sessionVars PROVE RateInv'
  OBVIOUS
<1>1. [RateNext]_rateVars
  BY DEF SessionNext, StartUp, Connect, InLogin, EnterPlay, InTimers, InChat, Over, sessionVars
<1> QED
  BY <1>1, RateStep

(* The limit's invariant holds throughout a session. *)
THEOREM SessionRateInvariance == Spec => []RateInv
<1>1. SessionInit => RateInv
  BY RateStart DEF SessionInit
<1> QED
  BY <1>1, SessionRate, PTL DEF Spec

(* In any window of a session no more than two windows of lines of a       *)
(* player reach the others, plus one for each time the clock is set        *)
(* (record_chat_message_and_check_limit).                                  *)
THEOREM SessionChatLimited == Spec => []RateBound
BY SessionRateInvariance, RateFollows, PTL

(* A violation of the chat limit soon after the last is punished by twice  *)
(* the wait, up to the longest (record_chat_message_and_check_limit).      *)
THEOREM SessionWaitsGrow == Spec => WaitsGrow
<1>1. RateInv /\ [SessionNext]_sessionVars
          => [Violate /\ lastAge < Decay => sentence' = Lesser(2 * sentence, BlockMax)]_rateVars
  BY ViolationGrows
<1> QED
  BY SessionRateInvariance, <1>1, PTL DEF Spec, WaitsGrow

-----------------------------------------------------------------------------
(* The login is over when play begins, and what is left of it is fine. *)
LEMMA SessionLogin == LoginInv /\ [SessionNext]_sessionVars => LoginInv'
<1> SUFFICES ASSUME LoginInv, [SessionNext]_sessionVars PROVE LoginInv'
  OBVIOUS
<1>1. CASE EnterPlay
  <2>1. /\ pc' = "play" /\ inbox' = <<>> /\ wire' = <<>> /\ todo' = <<>> /\ state' = "play"
        /\ honest' = TRUE /\ intent' = "login" /\ fit' = "fits" /\ replay' = <<>>
        /\ extra' = 0 /\ gone' = FALSE /\ confused' = FALSE
    BY <1>1 DEF EnterPlay
  <2>2. wire' \in Seq([frame : Frame, half : 1..2]) /\ todo' \in Seq(Frame)
    BY <2>1
  <2>3. LoginTypeOK'
    <3>1. inbox' \in Seq({"response", "pong", "compression", "success", "disconnect",
                          "knownPacks", "data", "finish", "play"})
      BY <2>1
    <3>2. fit' \in Fits /\ replay' \in Replays
      BY <2>1, DefaultsAssumption
    <3> QED BY <2>1, <2>2, <3>1, <3>2 DEF LoginTypeOK
  <2>4. Agree'
    <3>1. Readable(state', inbox')
      BY <2>1, NothingReadable
    <3> QED BY <2>1, <3>1 DEF Agree, GoesBy
  <2>5. Straight'
    <3>1. Whole(wire')
      BY <2>1 DEF Whole
    <3> QED BY <2>1, <3>1 DEF Straight
  <2> QED BY <2>3, <2>4, <2>5 DEF LoginInv
<1>2. CASE ~EnterPlay
  <2>1. [LoginNext]_loginVars
    BY <1>2 DEF SessionNext, StartUp, Connect, InLogin, InTimers, InChat, Over, sessionVars
  <2> QED BY <2>1, LoginStep
<1> QED BY <1>1, <1>2

(* The login's invariant holds throughout a session. *)
THEOREM SessionLoginInvariance == Spec => []LoginInv
<1>1. SessionInit => LoginInv
  BY LoginStart DEF SessionInit
<1> QED
  BY <1>1, SessionLogin, PTL DEF Spec

(* Each packet of login and configuration finds the client in a state that *)
(* knows it, however recv cuts the stream, unless a replay file goes on    *)
(* after its own finish (handle_client_connection,                         *)
(* load_config_replay_with_fallbacks).                                     *)
THEOREM SessionStatesAgree == Spec => []StatesAgree
BY SessionLoginInvariance, LoginFollows, PTL

(* A client that keeps to the protocol is turned away for its name, its    *)
(* version, memory, an answer that came late, or what recv did to frames   *)
(* that did not come one by one (handle_client_connection).                *)
THEOREM SessionRefuses == Spec => []RefusedForAReason
BY SessionLoginInvariance, LoginFollows, PTL

-----------------------------------------------------------------------------
(* The settings: reading a file line by line, by counting its lines up.    *)

(* The pieces of a line have its words; a line that fits is one piece. *)
LEMMA PiecesAre ==
    ASSUME NEW line \in Seq(STRING)
    PROVE  /\ Pieces(line) \in Seq(Seq(STRING))
           /\ Len(line) <= LineRoom => Pieces(line) = <<line>>
           /\ \A j \in 1..Len(Pieces(line)) : \A a \in 1..Len(Pieces(line)[j]) :
                 Pieces(line)[j][a] \in ToSet(line)
<1> DEFINE l == Len(line)
           k == (l + LineRoom - 1) \div LineRoom
           p == Pieces(line)
           From(j) == (j - 1) * LineRoom + 1
           To(j) == Min({j * LineRoom, l})
<1>1. l \in Nat /\ LineRoom \in Nat \ {0} /\ \A i \in 1..l : line[i] \in STRING
  BY ConfigAssumption, ElementOfSeq
<1>2. ToSet(line) = {line[i] : i \in 1..l}
  BY DEF ToSet
<1>3. CASE l <= LineRoom
  <2>1. p = <<line>>
    BY <1>3 DEF Pieces
  <2>2. p \in Seq(Seq(STRING)) /\ Len(p) = 1 /\ p[1] = line
    BY <2>1
  <2> HIDE DEF p
  <2>3. \A j \in 1..Len(p) : p[j] = line
    BY <2>2
  <2> QED BY <1>2, <2>1, <2>2, <2>3 DEF p
<1>4. CASE l > LineRoom
  <2>1. k \in Nat
    <3>1. \A a \in Nat : (a + LineRoom - 1) \div LineRoom \in Int
      BY <1>1
    <3>2. \A a \in Nat : (a + LineRoom - 1) \div LineRoom >= 0
      BY <1>1
    <3> QED BY <1>1, <3>1, <3>2
  <2>2. p = [j \in 1..k |-> SubSeq(line, From(j), To(j))]
    BY <1>1, <1>4 DEF Pieces
  <2> HIDE DEF p, k, l
  <2>3. ASSUME NEW j \in 1..k
        PROVE  /\ From(j) \in Nat /\ From(j) >= 1 /\ To(j) \in Int /\ To(j) <= l
    <3>1. j \in Nat /\ j >= 1
      BY <2>1
    <3>2. (j - 1) * LineRoom \in Nat /\ j * LineRoom \in Nat
      BY <1>1, <3>1
    <3>3. To(j) \in {j * LineRoom, l} /\ \A x \in {j * LineRoom, l} : To(j) <= x
      <4> DEFINE S == {j * LineRoom, l}
      <4>1. S \in SUBSET Nat /\ S # {}
        BY <1>1, <3>2
      <4> HIDE DEF S
      <4>2. Min(S) \in S /\ \A x \in S : Min(S) <= x
        BY <4>1, LeastNatural DEF Min
      <4> QED BY <4>2 DEF S
    <3> HIDE DEF To
    <3>4. To(j) \in Int /\ To(j) <= l
      BY <1>1, <3>2, <3>3
    <3> QED BY <3>2, <3>4
  <2> HIDE DEF From, To
  <2>4. ASSUME NEW j \in 1..k
        PROVE  /\ SubSeq(line, From(j), To(j)) \in Seq(STRING)
               /\ \A a \in 1..Len(SubSeq(line, From(j), To(j))) :
                     SubSeq(line, From(j), To(j))[a] \in ToSet(line)
    <3> DEFINE m == From(j)
               n == To(j)
    <3>1. m \in Nat /\ m >= 1 /\ n \in Int /\ n <= l
      BY <2>3
    <3> HIDE DEF m, n
    <3>2. \A i \in m..n : i \in 1..l /\ line[i] \in STRING
      BY <1>1, <3>1
    <3>3. /\ SubSeq(line, m, n) \in Seq(STRING)
          /\ Len(SubSeq(line, m, n)) = IF m <= n THEN n - m + 1 ELSE 0
          /\ \A i \in 1..(n - m + 1) : SubSeq(line, m, n)[i] = line[m + i - 1]
      BY <3>1, <3>2, SubSeqProperties
    <3>4. ASSUME NEW a \in 1..Len(SubSeq(line, m, n)) PROVE SubSeq(line, m, n)[a] \in ToSet(line)
      <4>1. a \in 1..(n - m + 1) /\ m + a - 1 \in m..n
        BY <3>1, <3>3
      <4>2. SubSeq(line, m, n)[a] = line[m + a - 1] /\ m + a - 1 \in 1..l
        BY <3>2, <3>3, <4>1
      <4> QED BY <1>2, <4>2
    <3> QED BY <3>3, <3>4 DEF m, n
  <2>5. p \in Seq(Seq(STRING)) /\ Len(p) = k /\ \A j \in 1..k : p[j] = SubSeq(line, From(j), To(j))
    <3>1. p \in [1..k -> Seq(STRING)]
      BY <2>2, <2>4
    <3> QED BY <2>1, <2>2, <3>1
  <2>6. \A j \in 1..Len(p) : \A a \in 1..Len(p[j]) : p[j][a] \in ToSet(line)
    BY <2>4, <2>5
  <2>7. ~(Len(line) <= LineRoom)
    BY <1>1, <1>4 DEF l
  <2> QED BY <2>5, <2>6, <2>7 DEF p
<1> QED BY <1>1, <1>3, <1>4

(* A file is read as the pieces of its lines, one line after the other. *)
Pieced(f, file) ==
    /\ f[0] = <<>>
    /\ \A i \in 1..Len(file) : f[i] = f[i - 1] \o Pieces(file[i])
    /\ \A i \in 0..Len(file) : f[i] \in Seq(Seq(STRING))
    /\ LinesRead(file) = f[Len(file)]

LEMMA LinesReadIs ==
    ASSUME NEW file \in Seq(Seq(STRING))
    PROVE  \E f : Pieced(f, file)
<1> DEFINE n == Len(file)
           T == Seq(Seq(STRING))
           Line(r, i) == r \o Pieces(file[i])
           Read(f) == f = [i \in 0..n |-> IF i = 0 THEN <<>> ELSE Line(f[i - 1], i)]
           first == <<>>
           next == [i \in 1..n |-> [r \in T |-> Line(r, i)]]
<1>1. n \in Nat /\ first \in T
  OBVIOUS
<1>2. ASSUME NEW i \in 1..n PROVE Pieces(file[i]) \in T
  <2>1. file[i] \in Seq(STRING)
    BY ElementOfSeq
  <2> QED BY <2>1, PiecesAre
<1>3. \A r \in T, i \in 1..n : Line(r, i) \in T
  BY <1>2
<1> HIDE DEF Line, n, T, first
<1>4. next \in [1..n -> [T -> T]]
  BY <1>3
<1>5. \A r \in T, i \in 1..n : next[i][r] = Line(r, i)
  OBVIOUS
<1> HIDE DEF next
<1>6. PICK g \in [0..n -> T] : CountsUp(g, n, first, next)
  BY <1>1, <1>4, DefinedByCounting
<1>7. \A i \in 0..n : i # 0 => i \in 1..n /\ i - 1 \in 0..n
  BY <1>1
<1>8. \A i \in 1..n : g[i] = Line(g[i - 1], i)
  <2> TAKE i \in 1..n
  <2>1. i \in 0..n /\ i - 1 \in 0..n /\ g[i - 1] \in T
    BY <1>1
  <2> QED BY <1>5, <1>6, <2>1 DEF CountsUp
<1>9. Read(g)
  BY <1>6, <1>7, <1>8 DEF first, CountsUp
<1> DEFINE f == CHOOSE f : Read(f)
<1>10. Read(f)
  BY <1>9
<1>11. LinesRead(file) = f[n]
  BY Zenon DEF LinesRead, Line, n
<1> HIDE DEF f
<1>12. DOMAIN f = 0..n /\ f[0] = first /\ \A i \in 1..n : f[i] = Line(f[i - 1], i)
  BY <1>1, <1>7, <1>10 DEF first
<1>13. f[n] = g[n]
  <2>1. CountsIn(T, f, n, first, next)
    BY <1>5, <1>12 DEF CountsIn
  <2> QED BY <1>1, <1>4, <1>6, <2>1, SameByCounting
<1>14. g[0] = first /\ \A i \in 0..n : g[i] \in T
  BY <1>6 DEF CountsUp
<1>15. Pieced(g, file)
  BY <1>8, <1>11, <1>13, <1>14 DEF Pieced, Line, T, first, n
<1> QED BY <1>15

(* Reading one line after the other, with what Load has before and after   *)
(* each.                                                                   *)
Reads(f, all) ==
    /\ f[0] = [ok |-> TRUE, settings |-> Defaults]
    /\ \A i \in 1..Len(all) : /\ f[i] = ReadLine(f[i - 1], all[i])
                             /\ f[i].ok \in BOOLEAN /\ f[i] = [ok |-> f[i].ok, settings |-> f[i].settings]

LEMMA LoadReads ==
    ASSUME NEW file, Len(LinesRead(file)) \in Nat
    PROVE  \E f : Reads(f, LinesRead(file)) /\ Load(file) = f[Len(LinesRead(file))]
<1> DEFINE all == LinesRead(file)
           n == Len(all)
           Name(i) == Split(Uncommented(all[i])).key[1]
           Value(i) == Parsed(Name(i), Split(Uncommented(all[i])).value)
           K == DOMAIN Defaults \cup {Name(i) : i \in 1..n}
           V == {Defaults[k] : k \in DOMAIN Defaults} \cup {Value(i) : i \in 1..n}
           S == UNION {[D -> V] : D \in SUBSET K}
           T == [ok : BOOLEAN, settings : S]
           first == [ok |-> TRUE, settings |-> Defaults]
           Line(r, i) == ReadLine(r, all[i])
           Read(f) == f = [i \in 0..n |-> IF i = 0 THEN first ELSE Line(f[i - 1], i)]
           next == [i \in 1..n |-> [r \in T |-> Line(r, i)]]
<1>1. n \in Nat
  OBVIOUS
<1>2. Defaults \in S
  <2>1. Defaults \in [DOMAIN Defaults -> V] /\ DOMAIN Defaults \in SUBSET K
    <3>1. \A k \in DOMAIN Defaults : Defaults[k] \in V
      OBVIOUS
    <3>2. Defaults = [k \in DOMAIN Defaults |-> Defaults[k]]
      BY DEF Defaults
    <3> HIDE DEF V
    <3> QED BY <3>1, <3>2
  <2> HIDE DEF V, K
  <2> QED BY <2>1
<1>3. first \in T
  <2> HIDE DEF S
  <2> QED BY <1>2
<1>4. \A r \in T, i \in 1..n : Line(r, i) \in T
  <2> SUFFICES ASSUME NEW r \in T, NEW i \in 1..n PROVE ReadLine(r, all[i]) \in T
    OBVIOUS
  <2>1. Name(i) \in K /\ Value(i) \in V
    OBVIOUS
  <2> HIDE DEF K, V, Name, Value
  <2>2. PICK D \in SUBSET K : r.settings \in [D -> V]
    OBVIOUS
  <2>3. Set(r.settings, Name(i), Value(i)) \in [D \cup {Name(i)} -> V]
    BY <2>1, <2>2 DEF Set
  <2>4. D \cup {Name(i)} \in SUBSET K
    BY <2>1
  <2>5. Set(r.settings, Name(i), Value(i)) \in S
    BY <2>3, <2>4
  <2> HIDE DEF S
  <2>6. /\ [r EXCEPT !.ok = FALSE] \in T
        /\ [r EXCEPT !.settings = Set(r.settings, Name(i), Value(i))] \in T
    BY <2>5
  <2> QED BY <2>6 DEF ReadLine, Name, Value
<1> HIDE DEF Line, n, T, first, K, V, S, Name, Value
<1>5. next \in [1..n -> [T -> T]]
  BY <1>4
<1>6. \A r \in T, i \in 1..n : next[i][r] = Line(r, i)
  OBVIOUS
<1> HIDE DEF next
<1>7. PICK g \in [0..n -> T] : CountsUp(g, n, first, next)
  BY <1>1, <1>3, <1>5, DefinedByCounting
<1>8. \A i \in 0..n : i # 0 => i \in 1..n /\ i - 1 \in 0..n
  BY <1>1
<1>9. \A i \in 1..n : g[i] = Line(g[i - 1], i) /\ g[i] \in T
  <2> TAKE i \in 1..n
  <2>1. i \in 0..n /\ i - 1 \in 0..n /\ g[i - 1] \in T
    BY <1>1
  <2> QED BY <1>6, <1>7, <2>1 DEF CountsUp
<1>10. Read(g)
  BY <1>7, <1>8, <1>9 DEF CountsUp
<1> DEFINE f == CHOOSE f : Read(f)
<1>11. Read(f)
  BY <1>10
<1>12. Load(file) = f[n]
  BY Zenon DEF Load, Line, first, n
<1> HIDE DEF f
<1>13. DOMAIN f = 0..n /\ f[0] = first /\ \A i \in 1..n : f[i] = Line(f[i - 1], i)
  BY <1>1, <1>8, <1>11
<1>14. f[n] = g[n]
  <2>1. CountsIn(T, f, n, first, next)
    BY <1>6, <1>13 DEF CountsIn
  <2> QED BY <1>1, <1>3, <1>5, <1>7, <2>1, SameByCounting
<1>15. \A r \in T : r.ok \in BOOLEAN /\ r = [ok |-> r.ok, settings |-> r.settings]
  BY DEF T
<1>16. Reads(g, all)
  BY <1>7, <1>9, <1>15 DEF Reads, CountsUp, Line, first, n
<1> QED BY <1>12, <1>14, <1>16 DEF n

(* The keys of settings are each of one kind, and "=" is none of them. *)
LEMMA KeysDiffer ==
    ASSUME NEW key
    PROVE  /\ key \in DOMAIN IntegerKeys =>
                 key \notin BooleanKeys /\ key \notin DOMAIN ChoiceKeys /\ key \notin TextKeys
           /\ key \in BooleanKeys => key \notin DOMAIN ChoiceKeys /\ key \notin TextKeys
           /\ key \in DOMAIN ChoiceKeys => key \notin TextKeys
BY DEF IntegerKeys, BooleanKeys, ChoiceKeys, TextKeys
LEMMA EqualsIsNoKey ==
    "=" \notin DOMAIN IntegerKeys /\ "=" \notin BooleanKeys /\ "=" \notin DOMAIN ChoiceKeys /\ "=" \notin TextKeys
BY DEF IntegerKeys, BooleanKeys, ChoiceKeys, TextKeys

LEMMA InRange ==
    ASSUME NEW key \in DOMAIN IntegerKeys, NEW words, Accepts(key, words)
    PROVE  Parsed(key, words) \in IntegerKeys[key][1]..IntegerKeys[key][2]
<1>1. key \notin BooleanKeys /\ key \notin DOMAIN ChoiceKeys /\ key \notin TextKeys
  BY KeysDiffer
<1>2. Numeral[words[1]] \in IntegerKeys[key][1]..IntegerKeys[key][2]
  BY <1>1 DEF Accepts
<1>3. Parsed(key, words) = Numeral[words[1]]
  BY <1>1 DEF Parsed
<1> QED BY <1>2, <1>3

SettingsInRange(chosen) ==
    \A key \in DOMAIN chosen \cap DOMAIN IntegerKeys :
        chosen[key] \in IntegerKeys[key][1]..IntegerKeys[key][2]

LEMMA DefaultsInRange == SettingsInRange(Defaults)
<1>1. DOMAIN Defaults \cap DOMAIN IntegerKeys
        \subseteq {"keep_alive_interval_seconds", "play_idle_timeout_seconds",
                   "idle_position_epsilon_milliblocks", "entity_max_tracked",
                   "entity_target_active_mobs", "max_connections"}
  BY DEF Defaults, IntegerKeys
<1>2. /\ IntegerKeys["keep_alive_interval_seconds"] = <<1, 300>>
      /\ IntegerKeys["play_idle_timeout_seconds"] = <<0, 3600>>
      /\ IntegerKeys["idle_position_epsilon_milliblocks"] = <<0, 10000>>
      /\ IntegerKeys["entity_max_tracked"] = <<1, 256>>
      /\ IntegerKeys["entity_target_active_mobs"] = <<0, 256>>
      /\ IntegerKeys["max_connections"] = <<1, 10000>>
  BY DEF IntegerKeys
<1>3. /\ Defaults["keep_alive_interval_seconds"] = 10
      /\ Defaults["play_idle_timeout_seconds"] = 0
      /\ Defaults["idle_position_epsilon_milliblocks"] = 50
      /\ Defaults["entity_max_tracked"] = 64
      /\ Defaults["entity_target_active_mobs"] = 12
      /\ Defaults["max_connections"] = 100
  BY DEF Defaults
<1> QED BY <1>1, <1>2, <1>3 DEF SettingsInRange

-----------------------------------------------------------------------------
(* What the first k texts say, and what reading them gives. *)
Says(texts, k, key) == {j \in 1..k : texts[j] # <<>> /\ Split(texts[j]).key[1] = key}
LastSaid(texts, k, key) ==
    IF Says(texts, k, key) = {} THEN Defaults[key]
    ELSE Parsed(key, Split(texts[Max(Says(texts, k, key))]).value)

Names(texts, k) == {Split(texts[j]).key[1] : j \in {j \in 1..k : texts[j] # <<>>}}

ReadRight(result, texts, k) ==
    /\ result.ok <=> \A j \in 1..k : WellFormed(texts[j])
    /\ result.ok => /\ DOMAIN result.settings = DOMAIN Defaults \cup Names(texts, k)
                    /\ \A key \in DOMAIN result.settings :
                          result.settings[key] = LastSaid(texts, k, key)
    /\ SettingsInRange(result.settings)

LEMMA ReadOneMore ==
    ASSUME NEW result, result = [ok |-> result.ok, settings |-> result.settings], result.ok \in BOOLEAN,
           NEW texts, NEW k \in Nat, k > 0, NEW line, texts[k] = Uncommented(line),
           ReadRight(result, texts, k - 1)
    PROVE  ReadRight(ReadLine(result, line), texts, k)
<1> DEFINE text == texts[k]
           more == ReadLine(result, line)
           key0 == Split(text).key[1]
           value0 == Parsed(key0, Split(text).value)
<1>1. (\A j \in 1..k : WellFormed(texts[j]))
        <=> (\A j \in 1..(k - 1) : WellFormed(texts[j])) /\ WellFormed(text)
  <2>1. \A j \in 1..k : j \in 1..(k - 1) \/ j = k
    OBVIOUS
  <2>2. k \in 1..k /\ \A j \in 1..(k - 1) : j \in 1..k
    OBVIOUS
  <2> QED BY <2>1, <2>2
<1>2. CASE ~result.ok
  <2>1. more = result
    BY <1>2 DEF ReadLine
  <2>2. ~\A j \in 1..k : WellFormed(texts[j])
    BY <1>1, <1>2 DEF ReadRight
  <2> QED BY <1>2, <2>1, <2>2 DEF ReadRight
<1>3. CASE result.ok /\ ~WellFormed(text)
  <2>1. more.ok = FALSE /\ more.settings = result.settings
    BY <1>3 DEF ReadLine
  <2> QED BY <1>1, <1>3, <2>1 DEF ReadRight
<1>4. CASE result.ok /\ WellFormed(text) /\ text = <<>>
  <2>1. more = result
    BY <1>4 DEF ReadLine
  <2>2. \A key : Says(texts, k, key) = Says(texts, k - 1, key)
    BY <1>4 DEF Says
  <2>3. \A key : LastSaid(texts, k, key) = LastSaid(texts, k - 1, key)
    BY <2>2 DEF LastSaid
  <2>4. Names(texts, k) = Names(texts, k - 1)
    <3>1. {j \in 1..k : texts[j] # <<>>} = {j \in 1..(k - 1) : texts[j] # <<>>}
      BY <1>4
    <3> QED BY <3>1 DEF Names
  <2> QED BY <1>1, <1>4, <2>1, <2>3, <2>4 DEF ReadRight
<1>5. CASE result.ok /\ WellFormed(text) /\ text # <<>>
  <2>1. more.ok /\ more.settings = Set(result.settings, key0, value0)
    BY <1>5 DEF ReadLine
  <2>2. /\ DOMAIN more.settings = DOMAIN result.settings \cup {key0}
        /\ more.settings[key0] = value0
        /\ \A key \in DOMAIN result.settings \ {key0} : more.settings[key] = result.settings[key]
    BY <2>1 DEF Set
  <2>3. Accepts(key0, Split(text).value)
    BY <1>5 DEF WellFormed
  <2> HIDE DEF more
  <2>4. LastSaid(texts, k, key0) = value0
    <3>1. k \in Says(texts, k, key0) /\ \A j \in Says(texts, k, key0) : j \in 1..k
      BY <1>5 DEF Says
    <3>2. Max(Says(texts, k, key0)) = k
      BY <3>1 DEF Max
    <3> QED BY <3>1, <3>2 DEF LastSaid
  <2>5. \A key : key # key0 => LastSaid(texts, k, key) = LastSaid(texts, k - 1, key)
    <3> SUFFICES ASSUME NEW key, key # key0 PROVE LastSaid(texts, k, key) = LastSaid(texts, k - 1, key)
      OBVIOUS
    <3>1. Says(texts, k, key) = Says(texts, k - 1, key)
      BY DEF Says
    <3> QED BY <3>1 DEF LastSaid
  <2>6. SettingsInRange(more.settings)
    <3> SUFFICES ASSUME NEW key \in DOMAIN more.settings \cap DOMAIN IntegerKeys
                 PROVE  more.settings[key] \in IntegerKeys[key][1]..IntegerKeys[key][2]
      BY DEF SettingsInRange
    <3>1. CASE key = key0
      BY <2>2, <2>3, <3>1, InRange
    <3>2. CASE key # key0
      BY <2>2, <3>2 DEF ReadRight, SettingsInRange
    <3> QED BY <3>1, <3>2
  <2>7. \A key \in DOMAIN more.settings : more.settings[key] = LastSaid(texts, k, key)
    <3> TAKE key \in DOMAIN more.settings
    <3>1. CASE key = key0
      BY <2>2, <2>4, <3>1
    <3>2. CASE key # key0
      BY <1>5, <2>2, <2>5, <3>2 DEF ReadRight
    <3> QED BY <3>1, <3>2
  <2>8. Names(texts, k) = Names(texts, k - 1) \cup {key0}
    <3>1. {j \in 1..k : texts[j] # <<>>} = {j \in 1..(k - 1) : texts[j] # <<>>} \cup {k}
      BY <1>5
    <3> QED BY <3>1 DEF Names
  <2>9. DOMAIN more.settings = DOMAIN Defaults \cup Names(texts, k)
    BY <1>5, <2>2, <2>8 DEF ReadRight
  <2> QED BY <1>1, <1>5, <2>1, <2>6, <2>7, <2>9 DEF ReadRight, more
<1> QED BY <1>2, <1>3, <1>4, <1>5

(* What Load makes of a file. *)
LEMMA LoadRight ==
    ASSUME NEW file, Len(LinesRead(file)) \in Nat
    PROVE  ReadRight(Load(file), [i \in 1..Len(LinesRead(file)) |-> Uncommented(LinesRead(file)[i])],
                     Len(LinesRead(file)))
<1> DEFINE all == LinesRead(file)
           n == Len(all)
           texts == [i \in 1..n |-> Uncommented(all[i])]
<1>1. PICK f : Reads(f, all) /\ Load(file) = f[n]
  BY LoadReads
<1>2. n \in Nat /\ \A i \in 1..n : texts[i] = Uncommented(all[i])
  OBVIOUS
<1> HIDE DEF all, texts
<1> DEFINE G == {k \in 0..n : ReadRight(f[k], texts, k)}
<1>3. 0 \in G
  <2>1. f[0].ok = TRUE /\ f[0].settings = Defaults
    BY <1>1 DEF Reads
  <2>2. \A key : Says(texts, 0, key) = {}
    BY DEF Says
  <2>3. \A key : LastSaid(texts, 0, key) = Defaults[key]
    BY <2>2 DEF LastSaid
  <2>4. Names(texts, 0) = {}
    BY DEF Names
  <2>5. ReadRight(f[0], texts, 0)
    <3>1. f[0].ok => /\ DOMAIN f[0].settings = DOMAIN Defaults \cup Names(texts, 0)
                     /\ \A key \in DOMAIN f[0].settings : f[0].settings[key] = LastSaid(texts, 0, key)
      BY <2>1, <2>3, <2>4
    <3>2. SettingsInRange(f[0].settings)
      BY <2>1, DefaultsInRange
    <3>3. f[0].ok <=> \A j \in 1..0 : WellFormed(texts[j])
      BY <2>1
    <3> QED BY <3>1, <3>2, <3>3 DEF ReadRight
  <2> QED BY <1>2, <2>5
<1>4. ASSUME NEW i \in 1..n, i - 1 \in G PROVE i \in G
  <2>1. f[i] = ReadLine(f[i - 1], all[i])
    BY <1>1 DEF Reads
  <2>2. f[i - 1].ok \in BOOLEAN /\ f[i - 1] = [ok |-> f[i - 1].ok, settings |-> f[i - 1].settings]
    <3>1. CASE i = 1
      <4>1. f[0].ok \in BOOLEAN /\ f[0] = [ok |-> f[0].ok, settings |-> f[0].settings]
        <5>1. f[0] = [ok |-> TRUE, settings |-> Defaults]
          BY <1>1 DEF Reads
        <5> QED BY <5>1
      <4>2. i - 1 = 0
        BY <3>1
      <4> QED BY <4>1, <4>2
    <3>2. CASE i # 1
      <4>1. i - 1 \in 1..n
        BY <1>2, <3>2
      <4> QED BY <1>1, <4>1 DEF Reads
    <3> QED BY <3>1, <3>2
  <2>3. ReadRight(f[i], texts, i)
    <3>1. i \in Nat /\ i > 0 /\ texts[i] = Uncommented(all[i]) /\ ReadRight(f[i - 1], texts, i - 1)
      BY <1>2, <1>4
    <3> QED BY <2>1, <2>2, <3>1, ReadOneMore
  <2> QED BY <1>2, <2>3
<1>5. n \in G
  <2> HIDE DEF G, n
  <2>1. \A i \in 0..n : i \in G
    BY <1>2, <1>3, <1>4, CountUp
  <2> QED BY <1>2, <2>1
<1> QED BY <1>1, <1>5 DEF all, texts

-----------------------------------------------------------------------------
(* What a line means, and what it is read as. *)

(* A comment begins where the first mark is. *)
LEMMA UncommentedIs ==
    ASSUME NEW line \in Seq(STRING)
    PROVE  /\ Said(line) \in 0..Len(line)
           /\ \A i \in 1..Said(line) : line[i] \notin CommentMarks
           /\ Uncommented(line) = SubSeq(line, 1, Said(line))
<1> DEFINE l == Len(line)
           marks == {i \in DOMAIN line : line[i] \in CommentMarks}
           Stop(n) == /\ \A i \in 1..n : line[i] \notin CommentMarks
                      /\ n < l => line[n + 1] \in CommentMarks
<1>1. l \in Nat /\ DOMAIN line = 1..l /\ SubSeq(line, 1, l) = line
  OBVIOUS
<1>2. marks \in SUBSET Nat /\ marks \subseteq 1..l /\ \A i \in 1..l : i \in marks <=> line[i] \in CommentMarks
  <2>1. marks = {i \in 1..l : line[i] \in CommentMarks}
    BY <1>1
  <2> HIDE DEF marks
  <2>2. marks \subseteq 1..l /\ \A i \in 1..l : i \in marks <=> line[i] \in CommentMarks
    BY <2>1
  <2> QED BY <1>1, <2>2
<1>3. /\ marks = {} => Uncommented(line) = line
      /\ marks # {} => Uncommented(line) = SubSeq(line, 1, Min(marks) - 1)
  BY DEF Uncommented
<1>4. Said(line) = CHOOSE k \in 0..l : Stop(k)
  BY DEF Said
<1> HIDE DEF l, marks
<1>5. ASSUME NEW n \in 0..l, NEW m \in 0..l, Stop(n), Stop(m), n < m PROVE FALSE
  <2>1. n + 1 \in 1..m /\ n < l
    BY <1>1, <1>5
  <2> QED BY <1>5, <2>1
<1>6. \A n, m \in 0..l : Stop(n) /\ Stop(m) => n = m
  <2> SUFFICES ASSUME NEW n \in 0..l, NEW m \in 0..l, Stop(n), Stop(m) PROVE n = m
    OBVIOUS
  <2>1. ~(n < m) /\ ~(m < n)
    BY <1>5
  <2> QED BY <1>1, <2>1
<1>7. PICK n \in 0..l : Stop(n) /\ Uncommented(line) = SubSeq(line, 1, n)
  <2>1. CASE marks = {}
    <3>1. l \in 0..l /\ Stop(l)
      BY <1>1, <1>2, <2>1
    <3> QED BY <1>1, <1>3, <2>1, <3>1
  <2>2. CASE marks # {}
    <3> DEFINE first == Min(marks)
    <3>1. first \in marks /\ \A j \in marks : first <= j
      BY <1>2, <2>2, LeastNatural DEF Min
    <3>2. Uncommented(line) = SubSeq(line, 1, first - 1)
      BY <1>3, <2>2
    <3> HIDE DEF first
    <3>3. first - 1 \in 0..l /\ Stop(first - 1)
      BY <1>1, <1>2, <3>1
    <3> QED BY <3>2, <3>3
  <2> QED BY <2>1, <2>2
<1>8. Said(line) = n
  <2> HIDE DEF Stop
  <2> QED BY <1>4, <1>6, <1>7
<1> QED BY <1>7, <1>8 DEF l

(* What words are without the quotes around them. *)
LEMMA UnquotedWords ==
    ASSUME NEW words \in Seq(STRING)
    PROVE  /\ Unquoted(words) \in Seq(STRING) /\ Len(Unquoted(words)) \in Nat
           /\ Enclosed(words) =>
                 /\ Unquoted(words) = SubSeq(words, 2, Len(words) - 1)
                 /\ <<Quote>> \o Unquoted(words) \o <<Quote>> = words
           /\ ~Enclosed(words) => Unquoted(words) = words
<1>1. Last(words) = words[Len(words)] /\ (Enclosed(words) => Quote \in STRING) /\ Len(words) \in Nat
  <2>1. Enclosed(words) => Quote = words[1] /\ 1 \in 1..Len(words)
    BY DEF Enclosed
  <2> QED BY <2>1, ElementOfSeq DEF Last
<1>2. /\ Enclosed(words) => Unquoted(words) = SubSeq(words, 2, Len(words) - 1)
      /\ ~Enclosed(words) => Unquoted(words) = words
  BY <1>1 DEF Enclosed, Unquoted
<1>3. CASE Enclosed(words)
  <2>1. /\ SubSeq(words, 2, Len(words) - 1) \in Seq(STRING)
        /\ <<Quote>> \o SubSeq(words, 2, Len(words) - 1) \o <<Quote>> = words
    BY <1>1, <1>3, PutBack DEF Enclosed
  <2>2. Len(Unquoted(words)) \in Nat
    BY <1>2, <1>3, <2>1, LenProperties
  <2> QED BY <1>2, <1>3, <2>1, <2>2
<1>4. CASE ~Enclosed(words)
  BY <1>1, <1>2, <1>4
<1> QED BY <1>3, <1>4

LEMMA UnquotedIs ==
    ASSUME NEW words \in Seq(STRING), NEW text
    PROVE  /\ words = (IF Enclosed(words) THEN <<Quote>> \o text \o <<Quote>> ELSE text)
              /\ text \in {words, SubSeq(words, 2, Len(words) - 1)}
                <=> text = Unquoted(words)
<1> DEFINE inner == SubSeq(words, 2, Len(words) - 1)
           Around(t) == <<Quote>> \o t \o <<Quote>>
<1>1. Around(words) # words
  <2> DEFINE U == STRING \cup {Quote}
  <2>0. words \in Seq(U)
    OBVIOUS
  <2>1. <<Quote>> \in Seq(U) /\ Len(<<Quote>>) = 1
    OBVIOUS
  <2>2. <<Quote>> \o words \in Seq(U) /\ Len(<<Quote>> \o words) = 1 + Len(words)
    BY <2>0, <2>1, ConcatProperties
  <2>3. Len((<<Quote>> \o words) \o <<Quote>>) = Len(words) + 2 /\ Len(words) \in Nat
    BY <2>1, <2>2, ConcatProperties
  <2> QED BY <2>3
<1>2. /\ Enclosed(words) => Unquoted(words) = inner /\ Around(inner) = words
      /\ ~Enclosed(words) => Unquoted(words) = words
  BY UnquotedWords
<1> HIDE DEF inner, Around
<1>3. words = (IF Enclosed(words) THEN Around(text) ELSE text) /\ text \in {words, inner}
        <=> text = Unquoted(words)
  BY <1>1, <1>2
<1> QED BY <1>3 DEF inner, Around

(* Words that are accepted for a key stand for what is parsed of them, and *)
(* other words for nothing.                                                *)
LEMMA DenotedIs ==
    ASSUME NEW key, NEW words \in Seq(STRING), words # <<>>
    PROVE  /\ Accepts(key, words) => Denoted(key, words) = {Parsed(key, words)}
           /\ ~Accepts(key, words) => Denoted(key, words) = {}
<1> DEFINE numbers == {Numeral[w] : w \in {w \in DOMAIN Numeral :
              /\ key \in DOMAIN IntegerKeys /\ words = <<w>>
              /\ IntegerKeys[key][1] <= Numeral[w] /\ Numeral[w] <= IntegerKeys[key][2]}}
           truths == {b \in BOOLEAN : key \in BooleanKeys /\ \E w \in IF b THEN True ELSE False : words = <<w>>}
           chosen == {w \in UNION {ChoiceKeys[k] : k \in DOMAIN ChoiceKeys} :
                          key \in DOMAIN ChoiceKeys /\ w \in ChoiceKeys[key] /\ words = <<w>>}
           texts == {text \in {words, SubSeq(words, 2, Len(words) - 1)} :
                        /\ key \in TextKeys /\ 1 <= Len(text) /\ Len(text) < TextRoom
                        /\ words = IF Enclosed(words) THEN <<Quote>> \o text \o <<Quote>> ELSE text}
<1>1. Denoted(key, words) = numbers \cup truths \cup chosen \cup texts
  BY DEF Denoted
<1>2. Len(words) = 1 => words = <<words[1]>>
  OBVIOUS
<1>3. \A w : words = <<w>> => Len(words) = 1 /\ words[1] = w
  OBVIOUS
<1> HIDE DEF numbers, truths, chosen, texts
<1>4. CASE key \in DOMAIN IntegerKeys
  <2>1. key \notin BooleanKeys /\ key \notin DOMAIN ChoiceKeys /\ key \notin TextKeys
    BY <1>4, KeysDiffer
  <2>2. truths = {} /\ chosen = {} /\ texts = {}
    BY <2>1 DEF truths, chosen, texts
  <2>3. Parsed(key, words) = Numeral[words[1]]
    BY <1>4, <2>1 DEF Parsed
  <2>4. IntegerKeys[key][1] \in Int /\ IntegerKeys[key][2] \in Int
    BY <1>4 DEF IntegerKeys
  <2>5. Accepts(key, words) <=>
          /\ Len(words) = 1 /\ words[1] \in DOMAIN Numeral
          /\ Numeral[words[1]] \in IntegerKeys[key][1]..IntegerKeys[key][2]
    BY <1>4, <2>1 DEF Accepts
  <2>6. numbers = {Numeral[w] : w \in {w \in {words[1]} : Accepts(key, words)}}
    <3> DEFINE Chosen == {w \in DOMAIN Numeral :
                            /\ key \in DOMAIN IntegerKeys /\ words = <<w>>
                            /\ IntegerKeys[key][1] <= Numeral[w] /\ Numeral[w] <= IntegerKeys[key][2]}
    <3>1. numbers = {Numeral[w] : w \in Chosen}
      BY DEF numbers
    <3>2. \A w : w \in Chosen <=> w = words[1] /\ Accepts(key, words)
      <4> TAKE w
      <4>1. w \in Chosen <=>
              /\ w \in DOMAIN Numeral /\ words = <<w>>
              /\ IntegerKeys[key][1] <= Numeral[w] /\ Numeral[w] <= IntegerKeys[key][2]
        BY <1>4
      <4>2. words = <<w>> <=> Len(words) = 1 /\ w = words[1]
        BY <1>2, <1>3
      <4>3. w \in DOMAIN Numeral => Numeral[w] \in Int
        BY ConfigAssumption
      <4> HIDE DEF Chosen
      <4>4. w \in DOMAIN Numeral =>
              (Numeral[w] \in IntegerKeys[key][1]..IntegerKeys[key][2]
                <=> IntegerKeys[key][1] <= Numeral[w] /\ Numeral[w] <= IntegerKeys[key][2])
        BY <2>4, <4>3
      <4> QED BY <2>5, <4>1, <4>2, <4>4
    <3> HIDE DEF Chosen
    <3> QED BY <3>1, <3>2
  <2>7. Accepts(key, words) => numbers = {Numeral[words[1]]}
    BY <2>6
  <2>8. ~Accepts(key, words) => numbers = {}
    BY <2>6
  <2> QED BY <1>1, <2>2, <2>3, <2>7, <2>8
<1>5. CASE key \in BooleanKeys
  <2>1. key \notin DOMAIN IntegerKeys /\ key \notin DOMAIN ChoiceKeys /\ key \notin TextKeys
    BY <1>5, KeysDiffer
  <2>2. numbers = {} /\ chosen = {} /\ texts = {}
    BY <2>1 DEF numbers, chosen, texts
  <2>3. Parsed(key, words) = (words[1] \in True)
    BY <1>5, <2>1 DEF Parsed
  <2>4. Accepts(key, words) <=> Len(words) = 1 /\ words[1] \in True \cup False
    BY <1>5, <2>1 DEF Accepts
  <2>5. True \cap False = {}
    BY DEF True, False
  <2>6. \A b \in BOOLEAN : b \in truths <=> \E w \in IF b THEN True ELSE False : words = <<w>>
    BY <1>5 DEF truths
  <2>7. \A w : words = <<w>> <=> Len(words) = 1 /\ words[1] = w
    BY <1>2, <1>3
  <2>8. /\ TRUE \in truths <=> Len(words) = 1 /\ words[1] \in True
        /\ FALSE \in truths <=> Len(words) = 1 /\ words[1] \in False
    BY <2>6, <2>7, Zenon
  <2>9. truths \subseteq {TRUE, FALSE}
    BY DEF truths
  <2>10. CASE Accepts(key, words) /\ words[1] \in True
    <3>1. TRUE \in truths /\ FALSE \notin truths
      BY <2>4, <2>5, <2>8, <2>10
    <3>2. truths = {TRUE}
      BY <2>9, <3>1, Zenon
    <3>3. Parsed(key, words) = TRUE
      BY <2>3, <2>10, Zenon
    <3> QED BY <1>1, <2>2, <2>10, <3>2, <3>3, Zenon
  <2>11. CASE Accepts(key, words) /\ words[1] \notin True
    <3>1. FALSE \in truths /\ TRUE \notin truths
      BY <2>4, <2>5, <2>8, <2>11
    <3>2. truths = {FALSE}
      BY <2>9, <3>1, Zenon
    <3>3. Parsed(key, words) = FALSE
      <4>1. (words[1] \in True) = FALSE
        BY <2>11
      <4> QED BY <2>3, <4>1, Zenon
    <3> QED BY <1>1, <2>2, <2>11, <3>2, <3>3, Zenon
  <2>12. CASE ~Accepts(key, words)
    <3>1. FALSE \notin truths /\ TRUE \notin truths
      BY <2>4, <2>8, <2>12
    <3>2. truths = {}
      BY <2>9, <3>1, Zenon
    <3> QED BY <1>1, <2>2, <2>12, <3>2
  <2> QED BY <2>10, <2>11, <2>12
<1>6. CASE key \in DOMAIN ChoiceKeys
  <2>1. key \notin DOMAIN IntegerKeys /\ key \notin BooleanKeys /\ key \notin TextKeys
    BY <1>6, KeysDiffer
  <2>2. numbers = {} /\ truths = {} /\ texts = {}
    BY <2>1 DEF numbers, truths, texts
  <2>3. Parsed(key, words) = words[1]
    BY <1>6, <2>1 DEF Parsed
  <2>4. Accepts(key, words) <=> Len(words) = 1 /\ words[1] \in ChoiceKeys[key]
    BY <1>6, <2>1 DEF Accepts
  <2>5. Accepts(key, words) => chosen = {words[1]}
    BY <1>2, <1>3, <1>6, <2>4 DEF chosen
  <2>6. ~Accepts(key, words) => chosen = {}
    BY <1>2, <1>3, <2>4 DEF chosen
  <2> QED BY <1>1, <2>2, <2>3, <2>5, <2>6
<1>7. CASE key \in TextKeys
  <2>1. key \notin DOMAIN IntegerKeys /\ key \notin BooleanKeys /\ key \notin DOMAIN ChoiceKeys
    BY <1>7, KeysDiffer
  <2>2. numbers = {} /\ truths = {} /\ chosen = {}
    BY <2>1 DEF numbers, truths, chosen
  <2>3. Parsed(key, words) = Unquoted(words)
    BY <1>7, <2>1 DEF Parsed
  <2>4. Accepts(key, words) <=> Len(Unquoted(words)) \in 1..TextRoom - 1
    BY <1>7, <2>1 DEF Accepts
  <2>5. Len(Unquoted(words)) \in Nat /\ TextRoom \in Nat
    BY UnquotedWords, ConfigAssumption
  <2>6. \A text : text \in texts <=>
           text = Unquoted(words) /\ 1 <= Len(text) /\ Len(text) < TextRoom
    BY <1>7, UnquotedIs DEF texts
  <2>7. Accepts(key, words) => texts = {Unquoted(words)}
    BY <2>4, <2>5, <2>6
  <2>8. ~Accepts(key, words) => texts = {}
    BY <2>4, <2>5, <2>6
  <2> QED BY <1>1, <2>2, <2>3, <2>7, <2>8
<1>8. CASE key \notin DOMAIN IntegerKeys /\ key \notin BooleanKeys
           /\ key \notin DOMAIN ChoiceKeys /\ key \notin TextKeys
  <2>1. numbers = {} /\ truths = {} /\ chosen = {} /\ texts = {}
    BY <1>8 DEF numbers, truths, chosen, texts
  <2>2. ~Accepts(key, words)
    BY <1>8 DEF Accepts
  <2> QED BY <1>1, <2>1, <2>2
<1> QED BY <1>4, <1>5, <1>6, <1>7, <1>8

(* Nothing but a world path may be blank. *)
LEMMA BlankDenotes ==
    ASSUME NEW key, Denoted(key, <<>>) # {}
    PROVE  key = "world_path"
<1>1. \A w : <<>> # <<w>>
  OBVIOUS
<1>2. ~Enclosed(<<>>) /\ Len(<<>>) = 0
  BY DEF Enclosed
<1> QED BY <1>1, <1>2 DEF Denoted

(* A text that is well formed is a key, "=" and words accepted for the key. *)
LEMMA WellFormedIs ==
    ASSUME NEW text \in Seq(STRING), text # <<>>
    PROVE  LET n == Len(text)
           IN  /\ WellFormed(text) <=> /\ n >= 3 /\ text[1] # "=" /\ text[2] = "="
                                       /\ Accepts(text[1], SubSeq(text, 3, n))
               /\ WellFormed(text) => /\ Split(text).key[1] = text[1]
                                      /\ Split(text).value = SubSeq(text, 3, n)
<1> DEFINE n == Len(text)
           marks == {i \in DOMAIN text : text[i] = "="}
           at == Min(marks)
           value == SubSeq(text, at + 1, n)
<1>1. n \in Nat /\ n > 0 /\ DOMAIN text = 1..n /\ \A i \in 1..n : text[i] \in STRING
  BY ElementOfSeq
<1>2. Contains(text, "=") <=> marks # {}
  BY <1>1 DEF Contains
<1>3. Split(text).key = SubSeq(text, 1, at - 1) /\ Split(text).value = value
  BY DEF Split
<1>4. CASE marks = {}
  <2>1. ~WellFormed(text)
    BY <1>2, <1>4 DEF WellFormed
  <2>2. n >= 3 => text[2] # "="
    BY <1>1, <1>4
  <2> QED BY <2>1, <2>2
<1>5. CASE marks # {}
  <2>1. marks \in SUBSET Nat /\ marks = {i \in 1..n : text[i] = "="}
    BY <1>1
  <2>2. at \in marks /\ \A j \in marks : at <= j
    <3> HIDE DEF marks
    <3> QED BY <1>5, <2>1, LeastNatural DEF Min
  <2> HIDE DEF at, marks, value, n
  <2>3. at \in 1..n /\ text[at] = "=" /\ \A j \in 1..n : text[j] = "=" => at <= j
    BY <2>1, <2>2
  <2>4. /\ Len(SubSeq(text, 1, at - 1)) = at - 1
        /\ \A i \in 1..(at - 1) : SubSeq(text, 1, at - 1)[i] = text[i]
    <3>1. at - 1 \in 0..n
      BY <1>1, <2>3
    <3> QED BY <3>1, TailOfHead DEF n
  <2>5. Len(value) = n - at /\ value \in Seq(STRING)
    <3>1. \A i \in (at + 1)..n : text[i] \in STRING
      BY <1>1, <2>3
    <3>2. at + 1 \in Int /\ n \in Int
      BY <1>1, <2>3
    <3>3. value \in Seq(STRING) /\ Len(value) = IF at + 1 <= n THEN n - (at + 1) + 1 ELSE 0
      BY <3>1, <3>2, SubSeqProperties DEF value
    <3> QED BY <1>1, <2>3, <3>3
  <2>6. value # <<>> <=> at < n
    BY <1>1, <2>3, <2>5
  <2>7. WellFormed(text) <=> /\ at - 1 = 1 /\ at < n
                             /\ Accepts(SubSeq(text, 1, at - 1)[1], value)
    <3>1. Contains(text, "=") /\ (Split(text).value # <<>> <=> at < n)
      BY <1>2, <1>5, <1>3, <2>6 DEF marks
    <3>2. Len(Split(text).key) = 1 <=> at - 1 = 1
      BY <1>3, <2>4
    <3> QED BY <1>3, <3>1, <3>2, Zenon DEF WellFormed
  <2>8. CASE at = 2
    <3>1. SubSeq(text, 1, at - 1)[1] = text[1] /\ value = SubSeq(text, 3, n)
      <4>1. value = SubSeq(text, at + 1, n)
        BY DEF value
      <4> QED BY <2>4, <2>8, <4>1
    <3>2. text[1] # "=" /\ text[2] = "="
      BY <1>1, <2>3, <2>8
    <3>3. WellFormed(text) <=> n >= 3 /\ Accepts(text[1], SubSeq(text, 3, n))
      BY <1>1, <2>7, <2>8, <3>1
    <3> QED BY <1>3, <3>1, <3>2, <3>3 DEF n
  <2>9. CASE at # 2
    <3>1. ~WellFormed(text)
      BY <2>3, <2>7, <2>9
    <3>2. n >= 3 /\ text[2] = "=" => text[1] = "="
      BY <1>1, <2>3, <2>9
    <3> QED BY <3>1, <3>2 DEF n
  <2> QED BY <2>8, <2>9
<1> QED BY <1>4, <1>5

(* What a line is read as is what it means, but for a blank world path. *)
LEMMA LineMeans ==
    ASSUME NEW line \in Seq(STRING)
    PROVE  LET text == Uncommented(line)
           IN  /\ text = <<>> <=> Silent(line)
               /\ WellFormed(text) /\ text # <<>> =>
                     /\ Split(text).key[1] = line[1]
                     /\ Given(line, line[1]) = {Parsed(line[1], Split(text).value)}
               /\ ~WellFormed(text) =>
                     /\ ~Silent(line)
                     /\ \/ Given(line, line[1]) = {}
                        \/ Said(line) = 2 /\ line[1] = "world_path" /\ line[2] = "="
<1> DEFINE text == Uncommented(line)
           n == Said(line)
           words == SubSeq(line, 3, n)
<1>1. n \in 0..Len(line) /\ n \in Nat /\ text = SubSeq(line, 1, n) /\ Len(line) \in Nat
  BY UncommentedIs
<1> HIDE DEF n
<1>2. /\ text \in Seq(STRING) /\ Len(text) = n /\ \A i \in 1..n : text[i] = line[i]
      /\ \A m \in 1..n : SubSeq(text, m, n) = SubSeq(line, m, n)
  <2> HIDE DEF text
  <2> QED BY <1>1, TailOfHead
<1> HIDE DEF text
<1>3. text = <<>> <=> Silent(line)
  BY <1>1, <1>2 DEF Silent, n
<1>4. Given(line, line[1]) = IF n >= 2 /\ line[2] = "=" THEN Denoted(line[1], words) ELSE {}
  BY DEF Given, n
<1>5. n = 2 => words = <<>>
  OBVIOUS
<1>6. n >= 3 => words \in Seq(STRING) /\ words # <<>>
  <2> SUFFICES ASSUME n >= 3 PROVE words \in Seq(STRING) /\ words # <<>>
    OBVIOUS
  <2>1. \A i \in 3..n : line[i] \in STRING
    BY <1>1, ElementOfSeq
  <2>2. words \in Seq(STRING) /\ Len(words) = IF 3 <= n THEN n - 3 + 1 ELSE 0
    BY <1>1, <2>1, SubSeqProperties
  <2> HIDE DEF words
  <2> QED BY <1>1, <2>2
<1>7. n >= 3 => SubSeq(text, 3, n) = words
  BY <1>1, <1>2
<1> HIDE DEF words
<1>8. CASE text = <<>>
  BY <1>3, <1>8 DEF WellFormed, text
<1>9. CASE text # <<>> /\ WellFormed(text)
  <2>1. /\ n >= 3 /\ text[1] # "=" /\ text[2] = "="
        /\ Accepts(text[1], SubSeq(text, 3, n))
        /\ Split(text).key[1] = text[1]
        /\ Split(text).value = SubSeq(text, 3, n)
    BY <1>2, <1>9, WellFormedIs
  <2>2. text[1] = line[1] /\ text[2] = line[2]
    BY <1>1, <1>2, <2>1
  <2>3. Accepts(line[1], words)
    BY <1>7, <2>1, <2>2
  <2>4. Denoted(line[1], words) = {Parsed(line[1], words)}
    BY <1>6, <2>1, <2>3, DenotedIs
  <2>5. Given(line, line[1]) = {Parsed(line[1], Split(text).value)}
    <3>1. n >= 2 /\ line[2] = "="
      BY <1>1, <2>1, <2>2
    <3>2. words = Split(text).value
      BY <1>7, <2>1, Zenon
    <3> QED BY <1>4, <2>4, <3>1, <3>2, Zenon
  <2> QED BY <1>3, <1>9, <2>1, <2>2, <2>5, Zenon DEF text
<1>10. CASE text # <<>> /\ ~WellFormed(text)
  <2>1. ~(n >= 3 /\ text[1] # "=" /\ text[2] = "=" /\ Accepts(text[1], SubSeq(text, 3, n)))
    BY <1>2, <1>10, WellFormedIs
  <2>2. SUFFICES ASSUME Given(line, line[1]) # {}
                 PROVE  n = 2 /\ line[1] = "world_path" /\ line[2] = "="
    BY <1>3, <1>10 DEF text, n
  <2>3. n >= 2 /\ line[2] = "=" /\ Denoted(line[1], words) # {}
    BY <1>4, <2>2
  <2>4. CASE n = 2
    BY <1>5, <2>3, <2>4, BlankDenotes
  <2>5. CASE n # 2
    <3>1. n >= 3
      BY <1>1, <2>3, <2>5
    <3>2. Accepts(line[1], words)
      BY <1>6, <2>3, <3>1, DenotedIs
    <3>3. line[1] # "="
      BY <3>2, EqualsIsNoKey DEF Accepts
    <3>4. text[1] = line[1] /\ text[2] = line[2]
      BY <1>1, <1>2, <3>1
    <3> QED BY <1>7, <2>1, <2>3, <3>1, <3>2, <3>3, <3>4
  <2> QED BY <2>4, <2>5
<1> QED BY <1>8, <1>9, <1>10 DEF text

(* What the first m lines of a file give, and what their pieces are read   *)
(* as, for the keys that are not on a line longer than the buffer.         *)
Gives(written, m, key) == {i \in 1..m : Given(written[i], key) # {}}
LastGiven(written, m, key) ==
    IF Gives(written, m, key) = {} THEN Defaults[key]
    ELSE CHOOSE value \in Given(written[Max(Gives(written, m, key))], key) : TRUE
IsBlankPath(line) == Said(line) = 2 /\ line[1] = "world_path" /\ line[2] = "="

Texts(pieces) == [j \in 1..Len(pieces) |-> Uncommented(pieces[j])]
AllWellFormed(pieces) == \A j \in 1..Len(pieces) : WellFormed(Texts(pieces)[j])

ReadAsMeant(pieces, written, m, words) ==
    /\ AllWellFormed(pieces) =>
          /\ \A i \in 1..m : Len(written[i]) <= LineRoom => IsRight(written[i])
          /\ \A key : key \notin words =>
                /\ key \in Names(Texts(pieces), Len(pieces))
                     <=> \E i \in 1..m : ~Silent(written[i]) /\ written[i][1] = key
                /\ LastSaid(Texts(pieces), Len(pieces), key) = LastGiven(written, m, key)
    /\ ~AllWellFormed(pieces) =>
          \E i \in 1..m : ~IsRight(written[i]) \/ IsBlankPath(written[i]) \/ Len(written[i]) > LineRoom

(* What pieces say that come after others. *)
LEMMA MorePieces ==
    ASSUME NEW pieces \in Seq(Seq(STRING)), NEW more \in Seq(Seq(STRING))
    PROVE  LET all == pieces \o more
               k == Len(pieces)
           IN  /\ all \in Seq(Seq(STRING)) /\ Len(all) = k + Len(more) /\ Len(all) \in Nat
               /\ \A j \in 1..k : Texts(all)[j] = Texts(pieces)[j]
               /\ \A j \in 1..Len(more) : Texts(all)[k + j] = Uncommented(more[j])
               /\ \A j \in 1..Len(all) : j \in 1..k \/ \E i \in 1..Len(more) : j = k + i
               /\ k \in Nat /\ Len(more) \in Nat
               /\ AllWellFormed(all) <=>
                     /\ AllWellFormed(pieces)
                     /\ \A j \in 1..Len(more) : WellFormed(Uncommented(more[j]))
<1> DEFINE all == pieces \o more
           k == Len(pieces)
           m == Len(more)
<1>1. /\ all \in Seq(Seq(STRING)) /\ Len(all) = k + m /\ k \in Nat /\ m \in Nat
      /\ \A j \in 1..(k + m) : all[j] = IF j <= k THEN pieces[j] ELSE more[j - k]
  BY ConcatProperties
<1> HIDE DEF all, k, m
<1>2. \A j \in 1..k : all[j] = pieces[j] /\ j \in 1..(k + m)
  BY <1>1
<1>3. ASSUME NEW j \in 1..m PROVE all[k + j] = more[j] /\ k + j \in 1..(k + m)
  <2>1. k + j \in 1..(k + m) /\ ~(k + j <= k) /\ (k + j) - k = j
    BY <1>1
  <2> QED BY <1>1, <2>1
<1>4. ASSUME NEW j \in 1..(k + m), j \notin 1..k PROVE \E i \in 1..m : j = k + i
  <2>1. j - k \in 1..m /\ j = k + (j - k)
    BY <1>1, <1>4
  <2> QED BY <2>1
<1>5. \A j \in 1..k : Texts(all)[j] = Texts(pieces)[j]
  BY <1>1, <1>2 DEF Texts, k
<1>6. \A j \in 1..m : Texts(all)[k + j] = Uncommented(more[j])
  BY <1>1, <1>3 DEF Texts
<1>7. AllWellFormed(all) <=> AllWellFormed(pieces) /\ \A j \in 1..m : WellFormed(Uncommented(more[j]))
  BY <1>1, <1>2, <1>3, <1>4, <1>5, <1>6 DEF AllWellFormed, k
<1>8. /\ all \in Seq(Seq(STRING)) /\ Len(all) = k + m /\ Len(all) \in Nat
      /\ \A j \in 1..k : Texts(all)[j] = Texts(pieces)[j]
      /\ \A j \in 1..m : Texts(all)[k + j] = Uncommented(more[j])
      /\ \A j \in 1..Len(all) : j \in 1..k \/ \E i \in 1..m : j = k + i
      /\ k \in Nat /\ m \in Nat
      /\ AllWellFormed(all) <=>
            AllWellFormed(pieces) /\ \A j \in 1..m : WellFormed(Uncommented(more[j]))
  BY <1>1, <1>4, <1>5, <1>6, <1>7
<1> QED BY <1>8, Zenon DEF all, k, m

(* Pieces that do not name a key leave it as it was. *)
LEMMA NotNamed ==
    ASSUME NEW pieces \in Seq(Seq(STRING)), NEW more \in Seq(Seq(STRING)), NEW key,
           \A j \in 1..Len(more) :
              Uncommented(more[j]) # <<>> => Split(Uncommented(more[j])).key[1] # key
    PROVE  LET all == pieces \o more
           IN  /\ key \in Names(Texts(all), Len(all)) <=> key \in Names(Texts(pieces), Len(pieces))
               /\ LastSaid(Texts(all), Len(all), key) = LastSaid(Texts(pieces), Len(pieces), key)
<1> DEFINE all == pieces \o more
           k == Len(pieces)
           says == Says(Texts(pieces), k, key)
<1>1. /\ k \in Nat /\ Len(all) = k + Len(more) /\ Len(more) \in Nat
      /\ \A j \in 1..k : Texts(all)[j] = Texts(pieces)[j]
      /\ \A j \in 1..Len(more) : Texts(all)[k + j] = Uncommented(more[j])
      /\ \A j \in 1..Len(all) : j \in 1..k \/ \E i \in 1..Len(more) : j = k + i
  BY MorePieces
<1> HIDE DEF all, k
<1>2. \A j \in 1..k : j \in 1..Len(all)
  BY <1>1
<1>3. Says(Texts(all), Len(all), key) = says
  <2>1. ASSUME NEW j \in 1..Len(all), Texts(all)[j] # <<>>, Split(Texts(all)[j]).key[1] = key
        PROVE  j \in says
    <3>1. j \in 1..k
      BY <1>1, <2>1
    <3> QED BY <1>1, <2>1, <3>1 DEF Says
  <2>2. ASSUME NEW j \in says PROVE j \in Says(Texts(all), Len(all), key)
    <3>1. j \in 1..k /\ Texts(pieces)[j] # <<>> /\ Split(Texts(pieces)[j]).key[1] = key
      BY DEF Says
    <3> QED BY <1>1, <1>2, <3>1 DEF Says
  <2> QED BY <2>1, <2>2 DEF Says
<1>4. \A t, n : key \in Names(t, n) <=> Says(t, n, key) # {}
  BY DEF Names, Says
<1>5. key \in Names(Texts(all), Len(all)) <=> key \in Names(Texts(pieces), k)
  BY <1>3, <1>4
<1>6. says # {} => Max(says) \in says
  <2>1. says \in SUBSET (0..k)
    BY <1>1 DEF Says
  <2> HIDE DEF says
  <2> QED BY <1>1, <2>1, GreatestNatural DEF Max
<1>7. says # {} => Texts(all)[Max(says)] = Texts(pieces)[Max(says)]
  <2>1. says \subseteq 1..k
    BY DEF Says
  <2> QED BY <1>1, <1>6, <2>1
<1>8. LastSaid(Texts(all), Len(all), key) = LastSaid(Texts(pieces), k, key)
  <2> HIDE DEF says
  <2> QED BY <1>3, <1>7 DEF LastSaid, says
<1> QED BY <1>5, <1>8 DEF all, k

(* A line that gives nothing to a key leaves what was given. *)
LEMMA NotGiven ==
    ASSUME NEW written, NEW i \in Nat, i > 0, NEW key, Given(written[i], key) = {}
    PROVE  LastGiven(written, i, key) = LastGiven(written, i - 1, key)
<1>1. Gives(written, i, key) = Gives(written, i - 1, key)
  BY DEF Gives
<1> QED BY <1>1 DEF LastGiven

(* A line that is given a value is about that key. *)
LEMMA GivenIsSaid ==
    ASSUME NEW line, NEW key, Given(line, key) # {}
    PROVE  ~Silent(line) /\ line[1] = key
<1>1. Said(line) >= 2 /\ line[1] = key
  BY DEF Given
<1> QED BY <1>1 DEF Silent

(* One line that fits. *)
LEMMA FittingLine ==
    ASSUME NEW written, NEW i \in Nat, i > 0, written[i] \in Seq(STRING), NEW words,
           NEW pieces \in Seq(Seq(STRING)), ReadAsMeant(pieces, written, i - 1, words)
    PROVE  ReadAsMeant(pieces \o <<written[i]>>, written, i, words)
<1> DEFINE line == written[i]
           all == pieces \o <<line>>
           text == Uncommented(line)
           k == Len(pieces)
<1>1. /\ text = <<>> <=> Silent(line)
      /\ WellFormed(text) /\ text # <<>> =>
            /\ Split(text).key[1] = line[1]
            /\ Given(line, line[1]) = {Parsed(line[1], Split(text).value)}
      /\ ~WellFormed(text) =>
            /\ ~Silent(line)
            /\ \/ Given(line, line[1]) = {}
               \/ Said(line) = 2 /\ line[1] = "world_path" /\ line[2] = "="
  <2> HIDE DEF line
  <2> QED BY LineMeans DEF line
<1>2. <<line>> \in Seq(Seq(STRING)) /\ Len(<<line>>) = 1 /\ <<line>>[1] = line
  OBVIOUS
<1>3. /\ k \in Nat /\ Len(all) = k + 1
      /\ \A j \in 1..k : Texts(all)[j] = Texts(pieces)[j]
      /\ Texts(all)[k + 1] = text
      /\ AllWellFormed(all) <=> AllWellFormed(pieces) /\ WellFormed(text)
  <2> DEFINE more == <<line>>
  <2>1. more \in Seq(Seq(STRING)) /\ Len(more) = 1 /\ more[1] = line
    BY <1>2
  <2> HIDE DEF more
  <2>2. /\ k \in Nat /\ Len(pieces \o more) = k + Len(more)
        /\ \A j \in 1..k : Texts(pieces \o more)[j] = Texts(pieces)[j]
        /\ \A j \in 1..Len(more) : Texts(pieces \o more)[k + j] = Uncommented(more[j])
        /\ AllWellFormed(pieces \o more)
              <=> AllWellFormed(pieces) /\ \A j \in 1..Len(more) : WellFormed(Uncommented(more[j]))
    BY <2>1, MorePieces
  <2>3. 1 \in 1..Len(more) /\ \A j \in 1..Len(more) : j = 1
    BY <2>1
  <2>4. /\ Texts(pieces \o more)[k + 1] = Uncommented(line)
        /\ AllWellFormed(pieces \o more) <=> AllWellFormed(pieces) /\ WellFormed(Uncommented(line))
    BY <2>1, <2>2, <2>3
  <2> HIDE DEF line
  <2> QED BY <2>1, <2>2, <2>4 DEF more
<1>4. i \in 1..i /\ \A a \in 1..i : a \in 1..(i - 1) \/ a = i
  OBVIOUS
<1>5. \A a \in 1..(i - 1) : a \in 1..i
  OBVIOUS
<1> HIDE DEF text
<1>6. CASE ~AllWellFormed(all)
  <2>1. CASE ~AllWellFormed(pieces)
    BY <1>5, <1>6, <2>1 DEF ReadAsMeant, all
  <2>2. CASE ~WellFormed(text)
    <3>1. ~IsRight(line) \/ IsBlankPath(line)
      BY <1>1, <2>2 DEF IsRight, IsBlankPath
    <3> QED BY <1>4, <1>6, <3>1 DEF ReadAsMeant, all
  <2> QED BY <1>3, <1>6, <2>1, <2>2
<1>7. CASE AllWellFormed(all)
  <2>1. AllWellFormed(pieces) /\ WellFormed(text)
    BY <1>3, <1>7
  <2>2. IsRight(line)
    BY <1>1, <2>1 DEF IsRight
  <2>3. \A a \in 1..i : Len(written[a]) <= LineRoom => IsRight(written[a])
    BY <1>4, <2>1, <2>2 DEF ReadAsMeant
  <2>4. ASSUME NEW key, key \notin words
        PROVE  /\ key \in Names(Texts(all), Len(all))
                    <=> \E a \in 1..i : ~Silent(written[a]) /\ written[a][1] = key
               /\ LastSaid(Texts(all), Len(all), key) = LastGiven(written, i, key)
    <3>1. /\ key \in Names(Texts(pieces), k)
               <=> \E a \in 1..(i - 1) : ~Silent(written[a]) /\ written[a][1] = key
          /\ LastSaid(Texts(pieces), k, key) = LastGiven(written, i - 1, key)
      BY <2>1, <2>4 DEF ReadAsMeant
    <3>2. CASE text # <<>> /\ line[1] = key
      <4>1. Split(text).key[1] = key /\ Given(line, key) = {Parsed(key, Split(text).value)}
        BY <1>1, <2>1, <3>2
      <4>2. k + 1 \in Says(Texts(all), k + 1, key)
        BY <1>3, <3>2, <4>1 DEF Says
      <4>3. Max(Says(Texts(all), k + 1, key)) = k + 1
        <5>1. \A j \in Says(Texts(all), k + 1, key) : j \in 1..(k + 1)
          BY DEF Says
        <5> QED BY <1>3, <4>2, <5>1 DEF Max
      <4>4. LastSaid(Texts(all), k + 1, key) = Parsed(key, Split(text).value)
        BY <1>3, <4>2, <4>3 DEF LastSaid
      <4>5. i \in Gives(written, i, key)
        BY <1>4, <4>1 DEF Gives
      <4>6. Max(Gives(written, i, key)) = i
        <5>1. \A j \in Gives(written, i, key) : j \in 1..i
          BY DEF Gives
        <5> QED BY <4>5, <5>1 DEF Max
      <4>7. LastGiven(written, i, key) = Parsed(key, Split(text).value)
        <5>1. Gives(written, i, key) # {} /\ written[Max(Gives(written, i, key))] = line
          BY <4>5, <4>6
        <5>2. LastGiven(written, i, key) = CHOOSE value \in Given(line, key) : TRUE
          BY <5>1 DEF LastGiven
        <5> HIDE DEF line
        <5> QED BY <4>1, <5>2
      <4>8. key \in Names(Texts(all), k + 1)
        <5> DEFINE texts == Texts(all)
        <5>1. k + 1 \in 1..(k + 1) /\ texts[k + 1] # <<>> /\ Split(texts[k + 1]).key[1] = key
          BY <1>3, <3>2, <4>1
        <5> HIDE DEF texts
        <5>2. key \in Names(texts, k + 1)
          BY <5>1 DEF Names
        <5> QED BY <5>2 DEF texts
      <4>9. \E a \in 1..i : ~Silent(written[a]) /\ written[a][1] = key
        BY <1>1, <1>4, <3>2
      <4> QED BY <1>3, <4>4, <4>7, <4>8, <4>9
    <3>3. CASE ~(text # <<>> /\ line[1] = key)
      <4>1. text # <<>> => Split(text).key[1] # key
        BY <1>1, <2>1, <3>3
      <4>2. /\ key \in Names(Texts(all), Len(all)) <=> key \in Names(Texts(pieces), k)
            /\ LastSaid(Texts(all), Len(all), key) = LastSaid(Texts(pieces), k, key)
        <5>1. \A j \in 1..Len(<<line>>) :
                Uncommented(<<line>>[j]) # <<>> => Split(Uncommented(<<line>>[j])).key[1] # key
          <6>1. \A j \in 1..Len(<<line>>) : Uncommented(<<line>>[j]) = text
            BY <1>2 DEF text
          <6> QED BY <4>1, <6>1
        <5> HIDE DEF line
        <5> QED BY <1>2, <5>1, NotNamed
      <4>3. Given(line, key) = {}
        BY <1>1, <3>3, GivenIsSaid
      <4>4. LastGiven(written, i, key) = LastGiven(written, i - 1, key)
        BY <4>3, NotGiven
      <4>5. (\E a \in 1..i : ~Silent(written[a]) /\ written[a][1] = key)
              <=> \E a \in 1..(i - 1) : ~Silent(written[a]) /\ written[a][1] = key
        BY <1>1, <1>4, <1>5, <3>3
      <4> QED BY <3>1, <4>2, <4>4, <4>5
    <3> QED BY <3>2, <3>3
  <2> HIDE DEF all, line
  <2>5. ReadAsMeant(all, written, i, words)
    BY <1>7, <2>3, <2>4 DEF ReadAsMeant
  <2> QED BY <2>5 DEF all, line
<1> QED BY <1>6, <1>7

(* One line that is longer than the buffer. *)
LEMMA OverlongLine ==
    ASSUME NEW written, NEW i \in Nat, i > 0, written[i] \in Seq(STRING), Len(written[i]) > LineRoom,
           NEW words, ToSet(written[i]) \subseteq words,
           NEW pieces \in Seq(Seq(STRING)), ReadAsMeant(pieces, written, i - 1, words)
    PROVE  ReadAsMeant(pieces \o Pieces(written[i]), written, i, words)
<1> DEFINE line == written[i]
           more == Pieces(line)
           all == pieces \o more
           k == Len(pieces)
<1>1. /\ more \in Seq(Seq(STRING))
      /\ \A j \in 1..Len(more) : \A a \in 1..Len(more[j]) : more[j][a] \in words
  BY PiecesAre
<1> HIDE DEF more
<1>2. AllWellFormed(all) <=>
        AllWellFormed(pieces) /\ \A j \in 1..Len(more) : WellFormed(Uncommented(more[j]))
  BY <1>1, MorePieces
<1>3. i \in 1..i /\ \A a \in 1..i : a \in 1..(i - 1) \/ a = i
  OBVIOUS
<1>4. \A a \in 1..(i - 1) : a \in 1..i
  OBVIOUS
<1>5. LineRoom \in Nat /\ Len(line) \in Nat /\ ~(Len(line) <= LineRoom)
  BY ConfigAssumption
<1>6. CASE ~AllWellFormed(all)
  <2>1. \E a \in 1..i : Len(written[a]) > LineRoom
    BY <1>3
  <2> HIDE DEF all, line
  <2>2. ReadAsMeant(all, written, i, words)
    BY <1>6, <2>1 DEF ReadAsMeant
  <2> QED BY <2>2 DEF all, line, more
<1>7. CASE AllWellFormed(all)
  <2>1. \A a \in 1..i : Len(written[a]) <= LineRoom => IsRight(written[a])
    BY <1>2, <1>3, <1>5, <1>7 DEF ReadAsMeant
  <2>2. ASSUME NEW key, key \notin words
        PROVE  /\ key \in Names(Texts(all), Len(all))
                    <=> \E a \in 1..i : ~Silent(written[a]) /\ written[a][1] = key
               /\ LastSaid(Texts(all), Len(all), key) = LastGiven(written, i, key)
    <3>1. /\ key \in Names(Texts(pieces), k)
               <=> \E a \in 1..(i - 1) : ~Silent(written[a]) /\ written[a][1] = key
          /\ LastSaid(Texts(pieces), k, key) = LastGiven(written, i - 1, key)
      BY <1>2, <1>7, <2>2 DEF ReadAsMeant
    <3>2. ASSUME NEW j \in 1..Len(more), Uncommented(more[j]) # <<>>
          PROVE  Split(Uncommented(more[j])).key[1] # key
      <4> DEFINE piece == more[j]
                 text == Uncommented(piece)
      <4>1. piece \in Seq(STRING) /\ \A a \in 1..Len(piece) : piece[a] \in words
        BY <1>1, ElementOfSeq
      <4>2. WellFormed(text) /\ text # <<>>
        BY <1>2, <1>7, <3>2
      <4> HIDE DEF piece
      <4>3. ~Silent(piece) /\ Split(text).key[1] = piece[1] /\ Said(piece) \in 0..Len(piece)
        BY <4>1, <4>2, LineMeans, UncommentedIs
      <4>4. 1 \in 1..Len(piece)
        BY <4>1, <4>3 DEF Silent
      <4> QED BY <2>2, <4>1, <4>3, <4>4 DEF piece
    <3>3. /\ key \in Names(Texts(all), Len(all)) <=> key \in Names(Texts(pieces), k)
          /\ LastSaid(Texts(all), Len(all), key) = LastSaid(Texts(pieces), k, key)
      BY <1>1, <3>2, NotNamed
    <3>4. ~(~Silent(line) /\ line[1] = key)
      <4>1. ~Silent(line) => 1 \in 1..Len(line)
        <5>1. Said(line) \in 0..Len(line)
          BY UncommentedIs
        <5> QED BY <1>5, <5>1 DEF Silent
      <4>2. 1 \in 1..Len(line) => line[1] \in ToSet(line)
        BY DEF ToSet
      <4> QED BY <2>2, <4>1, <4>2
    <3>5. LastGiven(written, i, key) = LastGiven(written, i - 1, key)
      <4>1. Given(line, key) = {}
        BY <3>4, GivenIsSaid
      <4> QED BY <4>1, NotGiven
    <3>6. (\E a \in 1..i : ~Silent(written[a]) /\ written[a][1] = key)
            <=> \E a \in 1..(i - 1) : ~Silent(written[a]) /\ written[a][1] = key
      BY <1>3, <1>4, <3>4
    <3> QED BY <3>1, <3>3, <3>5, <3>6
  <2> HIDE DEF all
  <2>3. ReadAsMeant(all, written, i, words)
    BY <1>7, <2>1, <2>2 DEF ReadAsMeant
  <2> QED BY <2>3 DEF all, more
<1> QED BY <1>6, <1>7 DEF more

(* All lines, one after the other. *)
LEMMA LinesMean ==
    ASSUME NEW written \in Seq(Seq(STRING)), NEW words,
           \A i \in 1..Len(written) : Len(written[i]) > LineRoom => ToSet(written[i]) \subseteq words
    PROVE  /\ Len(LinesRead(written)) \in Nat
           /\ ReadAsMeant(LinesRead(written), written, Len(written), words)
<1> DEFINE n == Len(written)
<1>1. PICK f : Pieced(f, written)
  BY LinesReadIs
<1>2. n \in Nat /\ LineRoom \in Nat
  BY ConfigAssumption
<1>3. /\ f[0] = <<>> /\ LinesRead(written) = f[n]
      /\ \A i \in 1..n : f[i] = f[i - 1] \o Pieces(written[i])
      /\ \A i \in 0..n : f[i] \in Seq(Seq(STRING))
  BY <1>1 DEF Pieced
<1>4. \A i \in 1..n : written[i] \in Seq(STRING)
  BY ElementOfSeq
<1> HIDE DEF n
<1> DEFINE G == {i \in 0..n : ReadAsMeant(f[i], written, i, words)}
<1>5. 0 \in G
  <2>1. Len(f[0]) = 0 /\ AllWellFormed(f[0])
    BY <1>3 DEF AllWellFormed
  <2>2. \A key : /\ key \notin Names(Texts(f[0]), 0) /\ Says(Texts(f[0]), 0, key) = {}
                 /\ Gives(written, 0, key) = {}
    BY DEF Names, Says, Gives
  <2>3. \A key : LastSaid(Texts(f[0]), 0, key) = LastGiven(written, 0, key)
    BY <2>2 DEF LastSaid, LastGiven
  <2>4. ReadAsMeant(f[0], written, 0, words)
    BY <2>1, <2>2, <2>3 DEF ReadAsMeant
  <2> QED BY <1>2, <2>4
<1>6. ASSUME NEW i \in 1..n, i - 1 \in G PROVE i \in G
  <2>1. /\ i \in Nat /\ i > 0 /\ i - 1 \in 0..n /\ i \in 0..n /\ written[i] \in Seq(STRING)
        /\ Len(written[i]) \in Nat
    BY <1>2, <1>4
  <2>2. f[i - 1] \in Seq(Seq(STRING)) /\ ReadAsMeant(f[i - 1], written, i - 1, words)
    BY <1>3, <1>6, <2>1
  <2>3. CASE Len(written[i]) <= LineRoom
    <3>1. Pieces(written[i]) = <<written[i]>>
      BY <2>1, <2>3, PiecesAre
    <3>2. ReadAsMeant(f[i - 1] \o <<written[i]>>, written, i, words)
      BY <2>1, <2>2, FittingLine
    <3> QED BY <1>3, <2>1, <3>1, <3>2
  <2>4. CASE Len(written[i]) > LineRoom
    <3>1. ToSet(written[i]) \subseteq words
      BY <2>4 DEF n
    <3>2. ReadAsMeant(f[i - 1] \o Pieces(written[i]), written, i, words)
      BY <2>1, <2>2, <2>4, <3>1, OverlongLine
    <3> QED BY <1>3, <2>1, <3>2
  <2> QED BY <1>2, <2>1, <2>3, <2>4
<1>7. n \in G
  <2> HIDE DEF G
  <2>1. \A i \in 0..n : i \in G
    BY <1>2, <1>5, <1>6, CountUp
  <2> QED BY <1>2, <2>1
<1>8. Len(LinesRead(written)) \in Nat
  BY <1>2, <1>3, LenProperties
<1> QED BY <1>3, <1>7, <1>8 DEF n

File == Seq(Seq(STRING))

(* What the server is started with is what its configuration means; it     *)
(* does not start only if it is not meant to, for a blank world path, or   *)
(* for a line longer than the buffer.                                      *)
StartedRight(result, named, places) ==
    LET place == FileThatCounts(named, places)
        kept == DOMAIN result.settings \ Overlong(place)
    IN  /\ ~result.ok =>
              ~MeantToStart(named, places) \/ LeavesPathBlank(place) \/ ~LinesFit(place)
        /\ result.ok =>
              /\ named # <<>> => named[1] # NoFile
              /\ \A i \in DOMAIN LinesOf(place) :
                    Len(LinesOf(place)[i]) <= LineRoom => IsRight(LinesOf(place)[i])
              /\ kept = KeysMeant(named, places) \ Overlong(place)
              /\ \A key \in kept : result.settings[key] = Meant(named, places, key)

(* Its two cases. *)
LEMMA RefusedRightly ==
    ASSUME NEW result, NEW named, NEW places, ~result.ok,
           \/ ~MeantToStart(named, places) \/ LeavesPathBlank(FileThatCounts(named, places))
           \/ ~LinesFit(FileThatCounts(named, places))
    PROVE  StartedRight(result, named, places)
BY Zenon DEF StartedRight

LEMMA ServesRightly ==
    ASSUME NEW result, NEW named, NEW places, result.ok,
           named # <<>> => named[1] # NoFile,
           \A i \in DOMAIN LinesOf(FileThatCounts(named, places)) :
               Len(LinesOf(FileThatCounts(named, places))[i]) <= LineRoom
                  => IsRight(LinesOf(FileThatCounts(named, places))[i]),
           DOMAIN result.settings \ Overlong(FileThatCounts(named, places))
              = KeysMeant(named, places) \ Overlong(FileThatCounts(named, places)),
           \A key \in DOMAIN result.settings \ Overlong(FileThatCounts(named, places)) :
               result.settings[key] = Meant(named, places, key)
    PROVE  StartedRight(result, named, places)
BY Zenon DEF StartedRight

LEMMA StartRight ==
    ASSUME NEW named \in Seq(Seq(File)), NEW places \in Seq(Seq(File))
    PROVE  /\ StartedRight(LoadWithFallbacks(named, places), named, places)
           /\ SettingsInRange(LoadWithFallbacks(named, places).settings)
<1> DEFINE result == LoadWithFallbacks(named, places)
           counts == FileThatCounts(named, places)
           written == LinesOf(counts)
<1>1. CASE counts = NoFile
  <2>1. written = <<>> /\ DOMAIN written = {}
    BY <1>1 DEF LinesOf
  <2>2. result.settings = Defaults /\ (result.ok <=> named = <<>>)
    <3>1. CASE named # <<>>
      <4>1. named[1] = NoFile
        BY <1>1, <3>1 DEF FileThatCounts
      <4>2. {i \in DOMAIN <<named[1]>> : <<named[1]>>[i] # NoFile} = {}
        BY <4>1
      <4>3. result = [ok |-> FALSE, settings |-> Defaults]
        BY <3>1, <4>2 DEF LoadWithFallbacks
      <4> QED BY <3>1, <4>3
    <3>2. CASE named = <<>>
      <4>1. {i \in DOMAIN places : places[i] # NoFile} = {}
        <5> SUFFICES ASSUME {i \in DOMAIN places : places[i] # NoFile} # {} PROVE FALSE
          OBVIOUS
        <5> DEFINE there == {i \in DOMAIN places : places[i] # NoFile}
        <5>1. there \in SUBSET Nat /\ there # {}
          OBVIOUS
        <5> HIDE DEF there
        <5>2. Min(there) \in there
          BY <5>1, LeastNatural DEF Min
        <5>3. counts = places[Min(there)]
          BY <3>2, <5>1 DEF FileThatCounts, there
        <5> QED BY <1>1, <5>2, <5>3 DEF there
      <4>2. result = [ok |-> TRUE, settings |-> Defaults]
        BY <3>2, <4>1 DEF LoadWithFallbacks
      <4> QED BY <3>2, <4>2
    <3> QED BY <3>1, <3>2
  <2> HIDE DEF written
  <2>3. MeantToStart(named, places) <=> named = <<>>
    <3>1. named # <<>> => named[1] = NoFile
      BY <1>1 DEF FileThatCounts
    <3>2. MeantToStart(named, places) <=> (named # <<>> => named[1] # NoFile)
      BY <2>1 DEF MeantToStart, written
    <3> QED BY <3>1, <3>2
  <2>4. KeysMeant(named, places) = DOMAIN Defaults
    BY <2>1 DEF KeysMeant, written
  <2>5. \A key : Meant(named, places, key) = Defaults[key]
    BY <2>1 DEF Meant, written
  <2>6. StartedRight(result, named, places)
    <3>1. DOMAIN LinesOf(counts) = {}
      BY <2>1 DEF written
    <3>2. result.ok => \A i \in DOMAIN LinesOf(counts) :
              Len(LinesOf(counts)[i]) <= LineRoom => IsRight(LinesOf(counts)[i])
      BY <3>1
    <3>3. result.ok <=> MeantToStart(named, places)
      BY <2>2, <2>3
    <3>4. result.ok => (named # <<>> => named[1] # NoFile)
      BY <2>2
    <3> HIDE DEF result, counts
    <3> QED BY <2>2, <2>4, <2>5, <3>2, <3>3, <3>4 DEF StartedRight, counts
  <2> QED BY <2>2, <2>6, DefaultsInRange
<1>2. CASE counts # NoFile
  <2>1. result = Load(counts[1]) /\ counts \in Seq(File) /\ (named # <<>> => named[1] # NoFile)
    <3>1. CASE named # <<>>
      <4>1. counts = named[1] /\ named[1] \in Seq(File)
        BY <3>1 DEF FileThatCounts
      <4> DEFINE candidates == <<named[1]>>
                 there == {i \in DOMAIN candidates : candidates[i] # NoFile}
      <4>2. DOMAIN candidates = {1} /\ candidates[1] = named[1]
        OBVIOUS
      <4>3. there = {1} /\ Min(there) = 1
        BY <1>2, <4>1, <4>2 DEF Min
      <4>4. result = Load(candidates[Min(there)][1])
        <5>1. there # {}
          BY <4>3
        <5> QED BY <3>1, <5>1, Zenon DEF LoadWithFallbacks
      <4> QED BY <1>2, <4>1, <4>2, <4>3, <4>4
    <3>2. CASE named = <<>>
      <4> DEFINE there == {i \in DOMAIN places : places[i] # NoFile}
      <4>1. there # {} /\ counts = places[Min(there)]
        BY <1>2, <3>2 DEF FileThatCounts
      <4>2. there \in SUBSET Nat
        OBVIOUS
      <4>3. Min(there) \in there
        <5> HIDE DEF there
        <5> QED BY <4>1, <4>2, LeastNatural DEF Min
      <4>4. result = Load(places[Min(there)][1])
        BY <3>2, <4>1, Zenon DEF LoadWithFallbacks
      <4>5. places[Min(there)] \in Seq(File)
        BY <4>3
      <4> QED BY <3>2, <4>1, <4>4, <4>5
    <3> QED BY <3>1, <3>2
  <2> DEFINE file == counts[1]
             n == Len(LinesRead(file))
  <2>2. written = file /\ written \in Seq(Seq(STRING))
    BY <1>2, <2>1 DEF LinesOf, NoFile, File
  <2> DEFINE words == Overlong(counts)
             m == Len(written)
  <2>3. /\ n \in Nat /\ ReadAsMeant(LinesRead(written), written, m, words)
        /\ m \in Nat /\ DOMAIN written = 1..m
    <3>1. \A i \in 1..Len(written) : Len(written[i]) > LineRoom => ToSet(written[i]) \subseteq words
      BY <2>2 DEF Overlong
    <3>2. Len(written) \in Nat /\ DOMAIN written = 1..Len(written)
      BY <2>2
    <3>3. n = Len(LinesRead(written))
      BY <2>2
    <3> HIDE DEF words, written, n
    <3>4. /\ Len(LinesRead(written)) \in Nat
          /\ ReadAsMeant(LinesRead(written), written, Len(written), words)
      BY <2>2, <3>1, LinesMean
    <3> QED BY <3>2, <3>3, <3>4
  <2> DEFINE pieces == LinesRead(written)
             texts == Texts(pieces)
  <2>4. n = Len(pieces) /\ ReadRight(result, texts, n)
    <3>1. ReadRight(Load(file), [i \in 1..n |-> Uncommented(LinesRead(file)[i])], n)
      BY <2>3, LoadRight
    <3>2. texts = [i \in 1..n |-> Uncommented(LinesRead(file)[i])] /\ n = Len(pieces)
      BY <2>2 DEF Texts
    <3> HIDE DEF texts, n, result, pieces
    <3> QED BY <2>1, <3>1, <3>2
  <2>5. SettingsInRange(result.settings)
    BY <2>4 DEF ReadRight
  <2> HIDE DEF words, pieces, texts, written, n, m, result, counts
  <2>6. result.ok <=> AllWellFormed(pieces)
    BY <2>4 DEF ReadRight, AllWellFormed, texts
  <2>7. ASSUME result.ok PROVE StartedRight(result, named, places)
    <3>1. /\ \A i \in 1..m : Len(written[i]) <= LineRoom => IsRight(written[i])
          /\ \A key : key \notin words =>
                /\ key \in Names(texts, n) <=> \E i \in 1..m : ~Silent(written[i]) /\ written[i][1] = key
                /\ LastSaid(texts, n, key) = LastGiven(written, m, key)
      BY <2>3, <2>4, <2>6, <2>7 DEF ReadAsMeant, pieces, texts
    <3>2. KeysMeant(named, places)
            = DOMAIN Defaults \cup {written[i][1] : i \in {i \in 1..m : ~Silent(written[i])}}
      BY <2>3 DEF KeysMeant, written, counts
    <3>3. DOMAIN result.settings = DOMAIN Defaults \cup Names(texts, n)
      BY <2>4, <2>7 DEF ReadRight
    <3>4. DOMAIN result.settings \ words = KeysMeant(named, places) \ words
      <4>1. ASSUME NEW key, key \notin words
            PROVE  key \in DOMAIN result.settings <=> key \in KeysMeant(named, places)
        BY <3>1, <3>2, <3>3, <4>1
      <4> QED BY <4>1
    <3>5. \A key : Meant(named, places, key) = LastGiven(written, m, key)
      BY <2>3 DEF Meant, LastGiven, Gives, written, counts
    <3>6. \A key \in DOMAIN result.settings \ words :
            result.settings[key] = Meant(named, places, key)
      BY <2>4, <2>7, <3>1, <3>5 DEF ReadRight
    <3>7. \A i \in DOMAIN LinesOf(counts) :
            Len(LinesOf(counts)[i]) <= LineRoom => IsRight(LinesOf(counts)[i])
      BY <2>3, <3>1 DEF written
    <3>8. counts = FileThatCounts(named, places) /\ words = Overlong(counts)
      BY DEF counts, words
    <3>9. named # <<>> => named[1] # NoFile
      BY <2>1
    <3> QED BY <2>7, <3>4, <3>6, <3>7, <3>8, <3>9, Zenon, ServesRightly
  <2>8. ASSUME ~result.ok PROVE StartedRight(result, named, places)
    <3>1. PICK i \in 1..m :
            ~IsRight(written[i]) \/ IsBlankPath(written[i]) \/ Len(written[i]) > LineRoom
      BY <2>3, <2>6, <2>8 DEF ReadAsMeant, pieces
    <3>2. CASE ~IsRight(written[i])
      <4>1. ~MeantToStart(named, places)
        BY <2>3, <3>2 DEF MeantToStart, written, counts
      <4> QED BY <2>8, <4>1, RefusedRightly
    <3>3. CASE IsBlankPath(written[i])
      <4>1. LeavesPathBlank(counts)
        BY <2>3, <3>3 DEF LeavesPathBlank, IsBlankPath, written
      <4> QED BY <2>8, <4>1, RefusedRightly DEF counts
    <3>4. CASE Len(written[i]) > LineRoom
      <4>1. ~LinesFit(counts)
        <5>1. LineRoom \in Nat /\ Len(written[i]) \in Nat
          BY <2>2, <2>3, <3>1, ElementOfSeq, ConfigAssumption
        <5> QED BY <2>3, <3>1, <3>4, <5>1 DEF LinesFit, written
      <4> QED BY <2>8, <4>1, RefusedRightly DEF counts
    <3> QED BY <3>1, <3>2, <3>3, <3>4
  <2> QED BY <2>5, <2>7, <2>8 DEF result
<1> QED BY <1>1, <1>2

-----------------------------------------------------------------------------
(* The start of a session. *)
Started ==
    /\ part \in {"startup", "serving", "exited", "login", "timers", "chat"}
    /\ configuration \in Configurations \cup {Forgotten}
    /\ part = "startup" => configuration \in Configurations
    /\ SettingsInRange(settings)
    /\ StartsAsMeant

LEMMA SessionStarts == SessionInit => Started
BY DefaultsInRange DEF SessionInit, Started, StartsAsMeant

LEMMA StartUpKeeps == Started /\ StartUp => Started'
<1> SUFFICES ASSUME Started, StartUp PROVE Started'
  OBVIOUS
<1> DEFINE c == configuration
           result == LoadWithFallbacks(c.named, c.places)
<1>1. c \in Configurations /\ c.named \in Seq(Seq(File)) /\ c.places \in Seq(Seq(File))
  BY ConfigurationsAssumption DEF Started, StartUp, File
<1>2. /\ settings' = result.settings /\ configuration' = configuration
      /\ part' = IF result.ok THEN "serving" ELSE "exited"
  BY DEF StartUp
<1>3. StartedRight(result, c.named, c.places) /\ SettingsInRange(result.settings)
  BY <1>1, StartRight
<1>4. StartsAsMeant'
  <2>1. CASE result.ok
    BY <1>2, <1>3, <2>1 DEF StartsAsMeant, StartedRight
  <2>2. CASE ~result.ok
    BY <1>2, <1>3, <2>2 DEF StartsAsMeant, StartedRight
  <2> QED BY <2>1, <2>2
<1> QED BY <1>1, <1>2, <1>3, <1>4 DEF Started

LEMMA SessionStartStep == Started /\ [SessionNext]_sessionVars => Started'
<1> SUFFICES ASSUME Started, [SessionNext]_sessionVars PROVE Started'
  OBVIOUS
<1>u. ASSUME UNCHANGED <<part, configuration, settings>> PROVE Started'
  BY <1>u DEF Started, StartsAsMeant
<1>1. CASE StartUp
  BY <1>1, StartUpKeeps
<1>2. CASE Connect
  BY <1>2, DefaultsInRange DEF Connect, Started, StartsAsMeant
<1>3. CASE EnterPlay
  BY <1>3 DEF EnterPlay, Started, StartsAsMeant, startVars
<1>4. CASE InLogin \/ InTimers \/ InChat \/ UNCHANGED sessionVars
  BY <1>4, <1>u DEF InLogin, InTimers, InChat, sessionVars, startVars
<1> QED BY <1>1, <1>2, <1>3, <1>4 DEF SessionNext, Over

THEOREM SessionStartInvariance == Spec => []Started
BY SessionStarts, SessionStartStep, PTL DEF Spec

(* The server starts exactly if the first file there is is meant to start  *)
(* it, and has what that file means by its own lines, however they are cut *)
(* into pieces; but a blank world path stops it, and so may a line longer  *)
(* than the buffer, which may also put the words on it in force            *)
(* (load_server_config_with_fallbacks).                                    *)
THEOREM SessionStartsAsMeant == Spec => []StartsAsMeant
<1>1. Started => StartsAsMeant
  BY DEF Started
<1> QED
  BY <1>1, SessionStartInvariance, PTL

(* A session keeps to its types, and every number of the settings lies in  *)
(* the range of its key (assign_config_value).                             *)
THEOREM SessionTypes == Spec => []TypeOK
<1>1. SessionInv /\ RateInv /\ LoginInv /\ Started => TypeOK
  BY TypesFollow, RateFollows, LoginFollows DEF SessionInv, Started, SettingsInRange, TypeOK
<1> QED
  BY <1>1, SessionInvariance, SessionRateInvariance, SessionLoginInvariance,
     SessionStartInvariance, PTL
=============================================================================
