---------------------------- MODULE Login_proofs ----------------------------
(***************************************************************************)
(* Proofs about a connection before play, for every set of replay files,   *)
(* however recv cuts the stream: what reaches the client is what its state *)
(* knows, and an honest client is refused for a reason only.  Session has  *)
(* the behaviours; here is what each action keeps.                         *)
(***************************************************************************)
EXTENDS Login, DataLemmas

-----------------------------------------------------------------------------
(* Types, and what a replay file holds.                                    *)

Parts == [frame : Frame, half : 1..2]
Packets == {"response", "pong", "compression", "success", "disconnect",
            "knownPacks", "data", "finish", "play"}
Recordable == {"data", "knownPacks", "finish"}

(* The packets of a replay file are those it may hold. *)
LEMMA RecordedPackets ==
    ASSUME NEW file \in Seq({"data", "knownPacks", "finish", "blank", "wrong"}), Loads(file)
    PROVE  Recorded(file) \in Seq(Recordable)
<1> DEFINE n == Len(file)
           T == Seq(Recordable)
           Line(r, i) == IF file[i] = "blank" THEN r ELSE Append(r, file[i])
           Read(f) == f = [i \in 0..n |-> IF i = 0 THEN <<>> ELSE Line(f[i - 1], i)]
           first == <<>>
           next == [i \in 1..n |-> [r \in T |-> Line(r, i)]]
<1>1. n \in Nat /\ first \in T /\ \A i \in 1..n : file[i] \in Recordable \cup {"blank"}
  <2>1. \A i \in 1..n : file[i] \in {"data", "knownPacks", "finish", "blank", "wrong"}
    BY ElementOfSeq
  <2> QED BY <2>1 DEF Loads, Contains, Recordable
<1>2. \A r \in T, i \in 1..n : Line(r, i) \in T
  BY <1>1
<1> HIDE DEF Line, n, T, first
<1>3. next \in [1..n -> [T -> T]]
  BY <1>2
<1>4. \A r \in T, i \in 1..n : next[i][r] = Line(r, i)
  OBVIOUS
<1> HIDE DEF next
<1>5. PICK g \in [0..n -> T] : CountsUp(g, n, first, next)
  BY <1>1, <1>3, DefinedByCounting
<1>6. \A i \in 0..n : i # 0 => i \in 1..n /\ i - 1 \in 0..n
  BY <1>1
<1>7. \A i \in 1..n : g[i] = Line(g[i - 1], i)
  <2> TAKE i \in 1..n
  <2>1. i \in 0..n /\ i - 1 \in 0..n /\ g[i - 1] \in T
    BY <1>1
  <2> QED BY <1>4, <1>5, <2>1 DEF CountsUp
<1>8. Read(g)
  BY <1>5, <1>6, <1>7 DEF first, CountsUp
<1> DEFINE f == CHOOSE f : Read(f)
<1>9. Read(f)
  BY <1>8
<1>10. Recorded(file) = f[n]
  BY Zenon DEF Recorded, Line, n
<1> HIDE DEF f
<1>11. DOMAIN f = 0..n /\ f[0] = first /\ \A i \in 1..n : f[i] = Line(f[i - 1], i)
  BY <1>1, <1>6, <1>9 DEF first
<1>12. f[n] = g[n]
  <2>1. CountsIn(T, f, n, first, next)
    BY <1>4, <1>11 DEF CountsIn
  <2> QED BY <1>1, <1>3, <1>5, <2>1, SameByCounting
<1> QED BY <1>1, <1>5, <1>10, <1>12 DEF T

LEMMA ReplaysAre == Replays \subseteq Seq(Recordable)
<1> SUFFICES ASSUME NEW places \in ReplayPlaces PROVE FirstReplay(places) \in Seq(Recordable)
  BY DEF Replays
<1> DEFINE good == {i \in DOMAIN places : Loads(places[i])}
           i == CHOOSE i \in good : \A j \in good : i <= j
<1>1. /\ places \in Seq(Seq({"data", "knownPacks", "finish", "blank", "wrong"}))
      /\ good \in SUBSET Nat
  BY ReplayAssumption
<1>2. CASE good = {}
  BY <1>2 DEF FirstReplay
<1>3. CASE good # {}
  <2>1. i \in good
    <3>1. \E k \in good : \A j \in good : k <= j
      BY <1>1, <1>3, LeastNatural
    <3> QED BY <3>1
  <2>2. places[i] \in Seq({"data", "knownPacks", "finish", "blank", "wrong"}) /\ Loads(places[i])
    BY <1>1, <2>1
  <2>3. FirstReplay(places) = Recorded(places[i])
    BY <1>3 DEF FirstReplay
  <2> QED BY <2>2, <2>3, RecordedPackets
<1> QED BY <1>2, <1>3

(* The configuration ends with a finish, whatever a replay holds. *)
LEMMA ConfigurationIs ==
    ASSUME replay \in Seq(Recordable)
    PROVE  /\ Configuration \in Seq(Packets) /\ Configuration \in Seq(Recordable)
           /\ \E i \in DOMAIN Configuration : Configuration[i] = "finish"
           /\ ReplayEnds => /\ Configuration[Len(Configuration)] = "finish"
                            /\ \A i \in DOMAIN Configuration :
                                 Configuration[i] = "finish" => i = Len(Configuration)
<1> DEFINE c == Configuration
<1>1. CASE replay = <<>>
  <2>1. c = <<"data", "finish">>
    BY <1>1 DEF Configuration, BuiltIn
  <2>2. Len(c) = 2 /\ DOMAIN c = 1..2 /\ c[1] = "data" /\ c[2] = "finish"
    BY <2>1
  <2> QED BY <2>1, <2>2 DEF Packets, Recordable
<1>2. CASE replay # <<>> /\ Contains(replay, "finish")
  <2>1. c = replay /\ DOMAIN replay = 1..Len(replay)
    BY <1>2 DEF Configuration
  <2>2. PICK i \in 1..Len(replay) : replay[i] = "finish"
    BY <1>2 DEF Contains
  <2>3. Seq(Recordable) \subseteq Seq(Packets)
    BY DEF Recordable, Packets
  <2> QED BY <2>1, <2>2, <2>3 DEF ReplayEnds
<1>3. CASE replay # <<>> /\ ~Contains(replay, "finish")
  <2>1. c = Append(replay, "finish")
    BY <1>3 DEF Configuration
  <2>2. /\ Len(c) = Len(replay) + 1 /\ DOMAIN c = 1..(Len(replay) + 1) /\ Len(replay) \in Nat
        /\ \A i \in 1..Len(replay) : c[i] = replay[i] /\ replay[i] \in Recordable
        /\ c[Len(replay) + 1] = "finish"
    BY <2>1
  <2>3. \A i \in 1..Len(replay) : c[i] # "finish"
    BY <1>3, <2>2 DEF Contains
  <2>4. c \in Seq(Recordable) /\ c \in Seq(Packets)
    <3>1. "finish" \in Recordable /\ Seq(Recordable) \subseteq Seq(Packets)
      BY DEF Recordable, Packets
    <3>2. c \in Seq(Recordable)
      BY <2>1, <3>1
    <3> QED BY <3>1, <3>2
  <2> QED BY <2>2, <2>3, <2>4
<1> QED BY <1>1, <1>2, <1>3

(* What one recv returns, and what it leaves. *)
LEMMA ArrivalFacts ==
    ASSUME wire \in Seq(Parts), NEW p \in Arrivals, Take(p)
    PROVE  /\ p \in Seq(Parts) /\ wire # <<>> /\ Len(wire) \in Nat /\ Len(p) \in 1..Len(wire)
           /\ \A i \in 1..Len(p) : p[i] = wire[i]
           /\ wire' \in Seq(Parts) /\ Len(wire') = Len(wire) - Len(p)
           /\ \A i \in 1..Len(wire') : wire'[i] = wire[i + Len(p)]
<1>1. PICK l \in 0..Len(wire) : p = SubSeq(wire, 1, l)
  BY DEF Arrivals, Prefixes
<1>2. p # <<>>
  BY DEF Arrivals
<1>3. p \in Seq(Parts) /\ Len(p) = l /\ \A i \in 1..l : p[i] = wire[i]
  BY <1>1
<1>4. l \in 1..Len(wire)
  BY <1>2, <1>3
<1>5. wire' = SubSeq(wire, l + 1, Len(wire))
  BY <1>3 DEF Take
<1>6. /\ wire' \in Seq(Parts) /\ Len(wire') = Len(wire) - l
      /\ \A i \in 1..Len(wire') : wire'[i] = wire[i + l]
  <2> DEFINE T == Parts
  <2> HIDE DEF T
  <2>1. wire \in Seq(T)
    BY DEF T
  <2>2. wire' \in Seq(T)
    BY <2>1, <1>4, <1>5, SubSeqProperties
  <2>3. /\ Len(wire') = Len(wire) - l
        /\ \A i \in 1..Len(wire') : wire'[i] = wire[i + l]
    BY <2>1, <1>4, <1>5, SubSeqProperties
  <2> QED BY <2>2, <2>3 DEF T
<1> QED BY <1>3, <1>4, <1>6

(* The halves of a frame on their way behind the others. *)
LEMMA PutFacts ==
    ASSUME wire \in Seq(Parts), NEW f \in Frame, Put(f)
    PROVE  /\ wire' \in Seq(Parts) /\ Len(wire') = Len(wire) + 2 /\ Len(wire) \in Nat
           /\ \A i \in 1..Len(wire) : wire'[i] = wire[i]
           /\ wire'[Len(wire) + 1] = [frame |-> f, half |-> 1]
           /\ wire'[Len(wire) + 2] = [frame |-> f, half |-> 2]
<1> DEFINE T == Parts
           a == [frame |-> f, half |-> 1]
           b == [frame |-> f, half |-> 2]
<1>1. a \in T /\ b \in T
  BY DEF Parts
<1>2. wire \in Seq(T) /\ wire' = wire \o <<a, b>>
  BY DEF Put, Halves
<1> HIDE DEF T, a, b
<1>3. /\ wire' \in Seq(T) /\ Len(wire') = Len(wire) + 2 /\ Len(wire) \in Nat
      /\ \A i \in 1..Len(wire) : wire'[i] = wire[i]
      /\ wire'[Len(wire) + 1] = a /\ wire'[Len(wire) + 2] = b
  BY <1>1, <1>2
<1> QED BY <1>3 DEF T, a, b

LEMMA TypeFacts ==
    ASSUME LoginTypeOK
    PROVE  /\ wire \in Seq(Parts) /\ inbox \in Seq(Packets) /\ todo \in Seq(Frame)
           /\ honest \in BOOLEAN /\ gone \in BOOLEAN /\ confused \in BOOLEAN
           /\ intent \in {"login", "status"} /\ fit \in Fits /\ replay \in Replays
           /\ replay \in Seq(Recordable)
           /\ state \in {"login", "status", "config", "play"} /\ extra \in Nat
           /\ pc \in Timed \cup {"handshake", "status", "ping", "play", "closed"}
BY ReplaysAre DEF LoginTypeOK, Parts, Packets

LEMMA SendFacts ==
    ASSUME inbox \in Seq(Packets), NEW r \in Seq(Packets), Send(r)
    PROVE  inbox' \in Seq(Packets)
BY DEF Send

LEMMA TypesRecv ==
    ASSUME LoginTypeOK, Stay, wire' \in Seq(Parts), inbox' \in Seq(Packets),
           pc' \in Timed \cup {"handshake", "status", "ping", "play", "closed"}
    PROVE  LoginTypeOK'
BY DEF LoginTypeOK, Parts, Packets, Stay, choices, clientVars

LEMMA TypesTaken ==
    ASSUME LoginTypeOK, NEW p \in Arrivals, Take(p)
    PROVE  wire' \in Seq(Parts)
BY TypeFacts, ArrivalFacts

LEMMA LoginTypesStart == LoginInit => LoginTypeOK
<1> SUFFICES ASSUME LoginInit PROVE LoginTypeOK
  OBVIOUS
<1> DEFINE T == Parts
           U == Packets
<1>1. wire \in Seq(T) /\ inbox \in Seq(U)
  <2> HIDE DEF T, U
  <2> QED BY DEF LoginInit
<1>2. todo \in Seq(Frame)
  <2>1. PICK f \in Frame : todo = <<"handshake", f>>
    BY DEF LoginInit, Frame
  <2>2. "handshake" \in Frame
    BY DEF Frame
  <2> QED BY <2>1, <2>2
<1> QED BY <1>1, <1>2 DEF LoginInit, LoginTypeOK, Parts, Packets

(* What an honest client owes for a packet. *)
LEMMA AnswerIs ==
    ASSUME NEW packet
    PROVE  /\ packet = "success" => Answer(packet) = <<"ack">>
           /\ packet = "knownPacks" => Answer(packet) = <<"known">>
           /\ packet = "finish" => Answer(packet) = <<"finishAck">>
           /\ packet = "response" => Answer(packet) = <<"ping">>
           /\ packet \notin {"success", "knownPacks", "finish", "response"} => Answer(packet) = <<>>
           /\ Answer(packet) \in Seq(Frame)
<1>1. CASE packet \notin {"success", "knownPacks", "finish", "response"}
  BY <1>1 DEF Answer
<1>2. CASE packet = "success"
  BY <1>2 DEF Answer, Frame
<1>3. CASE packet = "knownPacks"
  BY <1>3 DEF Answer, Frame
<1>4. CASE packet = "finish"
  BY <1>4 DEF Answer, Frame
<1>5. CASE packet = "response"
  BY <1>5 DEF Answer, Frame
<1> QED BY <1>1, <1>2, <1>3, <1>4, <1>5

LEMMA LoginTypesWorker == LoginTypeOK /\ Worker => LoginTypeOK'
<1> SUFFICES ASSUME LoginTypeOK, Worker PROVE LoginTypeOK'
  OBVIOUS
<1>t. /\ inbox \in Seq(Packets) /\ inbox \o <<>> \in Seq(Packets)
      /\ <<>> \in Seq(Packets) /\ <<"disconnect">> \in Seq(Packets)
      /\ <<"compression">> \in Seq(Packets) /\ <<"compression", "success">> \in Seq(Packets)
      /\ <<"response">> \in Seq(Packets) /\ <<"pong">> \in Seq(Packets)
      /\ <<"knownPacks">> \in Seq(Packets) /\ <<"play">> \in Seq(Packets)
      /\ Configuration \in Seq(Packets)
  BY TypeFacts, ConfigurationIs DEF Packets
<1>p. pc \in Timed \cup {"handshake", "status", "ping", "play", "closed"}
  BY TypeFacts
<1>1. CASE RecvHandshakeRefused
  BY <1>1, <1>t, <1>p, TypesTaken, TypesRecv DEF RecvHandshakeRefused
<1>2. CASE RecvHandshakeForStatus
  BY <1>2, <1>t, <1>p, TypesTaken, TypesRecv DEF RecvHandshakeForStatus
<1>3. CASE RecvLoginStart
  <2>1. wire' \in Seq(Parts) /\ Stay
    BY <1>3, TypesTaken DEF RecvLoginStart
  <2>2. inbox' \in Seq(Packets)
    BY <1>3, <1>t, SendFacts DEF RecvLoginStart
  <2>3. pc' \in {"closed", "ack"}
    BY <1>3 DEF RecvLoginStart
  <2> QED BY <2>1, <2>2, <2>3, TypesRecv DEF Timed
<1>4. CASE RecvRequest
  <2>1. wire' \in Seq(Parts) /\ Stay /\ pc' = "ping"
    BY <1>4, TypesTaken DEF RecvRequest
  <2>2. inbox' \in Seq(Packets)
    BY <1>4, <1>t, SendFacts DEF RecvRequest
  <2> QED BY <2>1, <2>2, TypesRecv
<1>5. CASE RecvPing
  <2>1. wire' \in Seq(Parts) /\ Stay /\ pc' = "closed"
    BY <1>5, TypesTaken DEF RecvPing
  <2>2. inbox' \in Seq(Packets)
    BY <1>5, <1>t, SendFacts DEF RecvPing
  <2> QED BY <2>1, <2>2, TypesRecv
<1>6. CASE RecvAck
  <2>1. wire' \in Seq(Parts) /\ Stay /\ pc' \in {"packs", "closed"}
    BY <1>6, TypesTaken DEF RecvAck
  <2>2. inbox' \in Seq(Packets)
    BY <1>6, <1>t, SendFacts DEF RecvAck
  <2> QED BY <2>1, <2>2, TypesRecv DEF Timed
<1>7. CASE RecvPacks
  <2>1. wire' \in Seq(Parts) /\ Stay /\ pc' \in {"packs", "finish"}
    BY <1>7, TypesTaken DEF RecvPacks
  <2>2. inbox' \in Seq(Packets)
    BY <1>7, <1>t, SendFacts DEF RecvPacks
  <2> QED BY <2>1, <2>2, TypesRecv DEF Timed
<1>8. CASE RecvFinishAck
  <2>1. wire' \in Seq(Parts) /\ Stay /\ pc' \in {"play", "finish"}
    BY <1>8, TypesTaken DEF RecvFinishAck
  <2>2. inbox' \in Seq(Packets)
    BY <1>8, <1>t, SendFacts DEF RecvFinishAck
  <2> QED BY <2>1, <2>2, TypesRecv DEF Timed
<1>9. CASE Timeout \/ RecvEnd
  BY <1>9 DEF Timeout, RecvEnd, LoginTypeOK, choices, clientVars
<1> QED BY <1>1, <1>2, <1>3, <1>4, <1>5, <1>6, <1>7, <1>8, <1>9 DEF Worker

LEMMA LoginTypesClient == LoginTypeOK /\ Client => LoginTypeOK'
<1> SUFFICES ASSUME LoginTypeOK, Client PROVE LoginTypeOK'
  OBVIOUS
<1>t. /\ wire \in Seq(Parts) /\ inbox \in Seq(Packets) /\ todo \in Seq(Frame)
      /\ extra \in Nat /\ confused \in BOOLEAN
      /\ state \in {"login", "status", "config", "play"}
  BY TypeFacts
<1>1. CASE ClientSends
  <2>1. Head(todo) \in Frame /\ todo' \in Seq(Frame)
    BY <1>1, <1>t DEF ClientSends, Frame
  <2>2. wire' \in Seq(Parts)
    BY <1>1, <1>t, <2>1, PutFacts DEF ClientSends
  <2> QED BY <1>1, <2>1, <2>2 DEF ClientSends, LoginTypeOK, choices, Parts
<1>2. CASE ClientExtra
  <2>1. wire' \in Seq(Parts)
    <3>1. "info" \in Frame
      BY DEF Frame
    <3> QED BY <1>2, <1>t, <3>1, PutFacts DEF ClientExtra
  <2>2. extra' \in Nat
    BY <1>2, <1>t DEF ClientExtra
  <2> QED BY <1>2, <2>1, <2>2 DEF ClientExtra, LoginTypeOK, choices, Parts
<1>3. CASE ClientWild
  <2>1. wire' \in Seq(Parts)
    BY <1>3, <1>t, PutFacts DEF ClientWild
  <2>2. extra' \in Nat
    BY <1>3, <1>t DEF ClientWild
  <2> QED BY <1>3, <2>1, <2>2 DEF ClientWild, LoginTypeOK, choices, Parts
<1>4. CASE ClientReads
  <2>1. inbox' \in Seq(Packets)
    BY <1>4, <1>t, HeadTailProperties DEF ClientReads
  <2>2. Answer(Head(inbox)) \in Seq(Frame)
    BY AnswerIs
  <2>3. todo' \in Seq(Frame) /\ confused' \in BOOLEAN
        /\ state' \in {"login", "status", "config", "play"}
    BY <1>4, <1>t, <2>2 DEF ClientReads
  <2> QED BY <1>4, <2>1, <2>3 DEF ClientReads, LoginTypeOK, choices, Packets
<1>5. CASE ClientLeaves
  BY <1>5 DEF ClientLeaves, LoginTypeOK, choices
<1> QED BY <1>1, <1>2, <1>3, <1>4, <1>5 DEF Client

-----------------------------------------------------------------------------
(* The state in which packet i of a queue reaches a client that is in      *)
(* state s now, and whether each packet finds it in a state that knows it. *)
StateAt(s, queue, i) ==
    IF \E j \in 1..(i - 1) : queue[j] = "finish" THEN "play"
    ELSE IF \E j \in 1..(i - 1) : queue[j] = "success" THEN "config" ELSE s
Readable(s, queue) == \A i \in 1..Len(queue) : Knows(StateAt(s, queue, i), queue[i])
Ends(s, queue) == StateAt(s, queue, Len(queue) + 1)
States == {"login", "status", "config", "play"}

(* What is readable behind a readable queue may be sent. *)
LEMMA SendOn ==
    ASSUME NEW s \in States, NEW q \in Seq(Packets), NEW r \in Seq(Packets),
           Readable(s, q), Readable(Ends(s, q), r), \A i \in 1..Len(r) : r[i] # "success"
    PROVE  Readable(s, q \o r) /\ Ends(s, q \o r) = Ends(Ends(s, q), r)
<1> DEFINE n == Len(q)
           k == Len(r)
           c == q \o r
<1>1. /\ n \in Nat /\ k \in Nat /\ Len(c) = n + k
      /\ \A i \in 1..n : c[i] = q[i]
      /\ \A i \in 1..k : c[n + i] = r[i]
  BY ConcatProperties
<1> HIDE DEF c, n, k
<1>2. \A i \in 1..n : StateAt(s, c, i) = StateAt(s, q, i)
  BY <1>1 DEF StateAt
<1>3. ASSUME NEW i \in 1..(k + 1)
      PROVE  StateAt(s, c, n + i) = StateAt(Ends(s, q), r, i)
  <2>1. (\E j \in 1..((n + i) - 1) : c[j] = "finish")
          <=> \/ \E j \in 1..n : q[j] = "finish"
              \/ \E j \in 1..(i - 1) : r[j] = "finish"
    <3>1. ASSUME NEW j \in 1..((n + i) - 1), c[j] = "finish"
          PROVE  \/ \E l \in 1..n : q[l] = "finish"
                 \/ \E l \in 1..(i - 1) : r[l] = "finish"
      <4>1. CASE j <= n
        BY <3>1, <4>1, <1>1
      <4>2. CASE j > n
        <5>1. j - n \in 1..(i - 1) /\ j - n \in 1..k /\ n + (j - n) = j
          BY <4>2, <1>1
        <5> QED BY <3>1, <5>1, <1>1
      <4> QED BY <4>1, <4>2, <1>1
    <3>2. ASSUME NEW l \in 1..n, q[l] = "finish" PROVE \E j \in 1..((n + i) - 1) : c[j] = "finish"
      BY <3>2, <1>1
    <3>3. ASSUME NEW l \in 1..(i - 1), r[l] = "finish" PROVE \E j \in 1..((n + i) - 1) : c[j] = "finish"
      <4>1. l \in 1..k /\ n + l \in 1..((n + i) - 1)
        BY <1>1
      <4> QED BY <3>3, <4>1, <1>1
    <3> QED BY <3>1, <3>2, <3>3
  <2>2. (\E j \in 1..((n + i) - 1) : c[j] = "success") <=> \E j \in 1..n : q[j] = "success"
    <3>1. ASSUME NEW j \in 1..((n + i) - 1), c[j] = "success"
          PROVE  \E l \in 1..n : q[l] = "success"
      <4>1. CASE j <= n
        BY <3>1, <4>1, <1>1
      <4>2. CASE j > n
        <5>1. j - n \in 1..k /\ n + (j - n) = j
          BY <4>2, <1>1
        <5> QED BY <3>1, <5>1, <1>1 DEF k
      <4> QED BY <4>1, <4>2, <1>1
    <3>2. ASSUME NEW l \in 1..n, q[l] = "success" PROVE \E j \in 1..((n + i) - 1) : c[j] = "success"
      BY <3>2, <1>1
    <3> QED BY <3>1, <3>2
  <2>3. Ends(s, q) = IF \E j \in 1..n : q[j] = "finish" THEN "play"
                     ELSE IF \E j \in 1..n : q[j] = "success" THEN "config" ELSE s
    BY <1>1 DEF Ends, StateAt, n
  <2>4. \A j \in 1..(i - 1) : j \in 1..k
    BY <1>1
  <2> DEFINE A == \E j \in 1..n : q[j] = "finish"
             B == \E j \in 1..(i - 1) : r[j] = "finish"
             C == \E j \in 1..n : q[j] = "success"
  <2>5. StateAt(s, c, n + i) = IF A \/ B THEN "play" ELSE IF C THEN "config" ELSE s
    BY <2>1, <2>2, Zenon DEF StateAt
  <2>6. StateAt(Ends(s, q), r, i) = IF B THEN "play" ELSE Ends(s, q)
    <3>1. ~\E j \in 1..(i - 1) : r[j] = "success"
      BY <2>4 DEF k
    <3> QED BY <3>1, Zenon DEF StateAt
  <2>7. Ends(s, q) = IF A THEN "play" ELSE IF C THEN "config" ELSE s
    BY <2>3
  <2> HIDE DEF A, B, C
  <2> QED BY <2>5, <2>6, <2>7
<1>4. Readable(s, c)
  <2>1. ASSUME NEW j \in 1..(n + k) PROVE Knows(StateAt(s, c, j), c[j])
    <3>1. CASE j <= n
      BY <3>1, <1>1, <1>2 DEF Readable, n
    <3>2. CASE j > n
      <4>1. j - n \in 1..k /\ j - n \in 1..(k + 1) /\ n + (j - n) = j
        BY <3>2, <1>1
      <4> QED BY <4>1, <1>1, <1>3 DEF Readable, k
    <3> QED BY <3>1, <3>2, <1>1
  <2> QED BY <2>1, <1>1 DEF Readable
<1>5. Ends(s, c) = Ends(Ends(s, q), r)
  <2>1. k + 1 \in 1..(k + 1) /\ Len(c) + 1 = n + (k + 1)
    BY <1>1
  <2> QED BY <2>1, <1>3 DEF Ends, k
<1> QED BY <1>4, <1>5 DEF c

(* Nothing is lost when the client reads on. *)
Becomes(s, packet) ==
    CASE packet = "success" -> "config"
      [] packet = "finish"  -> "play"
      [] OTHER              -> s

LEMMA ReadOn ==
    ASSUME NEW s \in States, NEW q \in Seq(Packets), q # <<>>, Readable(s, q)
    PROVE  /\ Knows(s, Head(q))
           /\ Readable(Becomes(s, Head(q)), Tail(q))
           /\ Ends(Becomes(s, Head(q)), Tail(q)) = Ends(s, q)
<1> DEFINE n == Len(q)
           t == Tail(q)
           a == Becomes(s, q[1])
<1>1. /\ n \in Nat /\ n > 0 /\ Head(q) = q[1] /\ Len(t) = n - 1
      /\ \A i \in 1..(n - 1) : t[i] = q[i + 1]
  BY HeadTailProperties
<1>2. a = IF q[1] = "success" THEN "config" ELSE IF q[1] = "finish" THEN "play" ELSE s
  <2>1. CASE q[1] = "success"
    BY <2>1 DEF Becomes
  <2>2. CASE q[1] = "finish"
    BY <2>2 DEF Becomes
  <2>3. CASE q[1] \notin {"success", "finish"}
    BY <2>3 DEF Becomes
  <2> QED BY <2>1, <2>2, <2>3
<1> HIDE DEF t, a
<1>3. Knows(s, q[1])
  <2>1. StateAt(s, q, 1) = s
    BY DEF StateAt
  <2>2. 1 \in 1..Len(q)
    BY <1>1
  <2> QED BY <2>1, <2>2 DEF Readable
<1>4. \A j \in 2..n : q[1] = "finish" => q[j] # "success"
  <2> SUFFICES ASSUME NEW j \in 2..n, q[1] = "finish", q[j] = "success" PROVE FALSE
    OBVIOUS
  <2>1. j \in 1..Len(q) /\ 1 \in 1..(j - 1)
    BY <1>1
  <2>2. StateAt(s, q, j) = "play"
    BY <2>1 DEF StateAt
  <2>3. Knows("play", "success")
    BY <2>1, <2>2 DEF Readable
  <2> QED BY <2>3 DEF Knows
<1> HIDE DEF n
<1>5. ASSUME NEW i \in 1..n
      PROVE  StateAt(a, t, i) = StateAt(s, q, i + 1)
  <2>1. (\E j \in 1..((i + 1) - 1) : q[j] = "finish")
          <=> q[1] = "finish" \/ \E j \in 1..(i - 1) : t[j] = "finish"
    <3>1. ASSUME NEW j \in 1..i, q[j] = "finish", j # 1
          PROVE  \E l \in 1..(i - 1) : t[l] = "finish"
      <4>1. j - 1 \in 1..(i - 1) /\ j - 1 \in 1..(n - 1) /\ (j - 1) + 1 = j
        BY <1>1, <3>1
      <4> QED BY <3>1, <4>1, <1>1
    <3>2. ASSUME NEW l \in 1..(i - 1), t[l] = "finish" PROVE \E j \in 1..i : q[j] = "finish"
      <4>1. l + 1 \in 1..i /\ l \in 1..(n - 1)
        BY <1>1
      <4> QED BY <3>2, <4>1, <1>1
    <3>3. 1 \in 1..i /\ (i + 1) - 1 = i
      BY <1>1
    <3> QED BY <3>1, <3>2, <3>3
  <2>2. (\E j \in 1..((i + 1) - 1) : q[j] = "success")
          <=> q[1] = "success" \/ \E j \in 1..(i - 1) : t[j] = "success"
    <3>1. ASSUME NEW j \in 1..i, q[j] = "success", j # 1
          PROVE  \E l \in 1..(i - 1) : t[l] = "success"
      <4>1. j - 1 \in 1..(i - 1) /\ j - 1 \in 1..(n - 1) /\ (j - 1) + 1 = j
        BY <1>1, <3>1
      <4> QED BY <3>1, <4>1, <1>1
    <3>2. ASSUME NEW l \in 1..(i - 1), t[l] = "success" PROVE \E j \in 1..i : q[j] = "success"
      <4>1. l + 1 \in 1..i /\ l \in 1..(n - 1)
        BY <1>1
      <4> QED BY <3>2, <4>1, <1>1
    <3>3. 1 \in 1..i /\ (i + 1) - 1 = i
      BY <1>1
    <3> QED BY <3>1, <3>2, <3>3
  <2>3. q[1] = "finish" => \A j \in 1..(i - 1) : t[j] # "success"
    <3> SUFFICES ASSUME q[1] = "finish", NEW j \in 1..(i - 1) PROVE t[j] # "success"
      OBVIOUS
    <3>1. j + 1 \in 2..n /\ j \in 1..(n - 1)
      BY <1>1
    <3> QED BY <3>1, <1>1, <1>4
  <2> QED BY <1>2, <2>1, <2>2, <2>3 DEF StateAt
<1>6. Readable(a, t)
  <2>1. ASSUME NEW i \in 1..(n - 1) PROVE Knows(StateAt(a, t, i), t[i])
    <3>1. i \in 1..n /\ i + 1 \in 1..n
      BY <1>1
    <3> QED BY <3>1, <1>1, <1>5 DEF Readable, n
  <2> QED BY <2>1, <1>1 DEF Readable
<1>7. Ends(a, t) = Ends(s, q)
  <2>1. n \in 1..n /\ Len(t) + 1 = n
    BY <1>1
  <2> QED BY <2>1, <1>5 DEF Ends, n
<1> QED BY <1>1, <1>3, <1>6, <1>7 DEF a, t

-----------------------------------------------------------------------------
(* Whatever is under way to an honest client finds it in a state that      *)
(* knows it, and takes it to the state the worker goes by.                 *)
GoesBy(place, s) ==
    /\ place \in {"status", "ping"} => s = "status"
    /\ place \in {"ack", "packs"} => s = "config"
    /\ place = "finish" => s = "play"

(* Until the first recv nothing has been answered. *)
Greets ==
    /\ inbox = <<>> /\ state = intent
    /\ wire = <<>> => todo # <<>> /\ todo[1] = "handshake"
    /\ wire # <<>> => wire[1].frame = "handshake"

Agree ==
    /\ confused => honest /\ ~ReplayEnds
    /\ honest /\ ~gone /\ ReplayEnds => Readable(state, inbox) /\ GoesBy(pc, Ends(state, inbox))
    /\ honest /\ ~gone /\ pc = "handshake" => Greets

LEMMA AloneReadable ==
    ASSUME NEW s, NEW packet, Knows(s, packet), packet \notin {"success", "finish"}
    PROVE  Readable(s, <<packet>>) /\ Ends(s, <<packet>>) = s
<1> DEFINE q == <<packet>>
<1>1. Len(q) = 1 /\ q[1] = packet
  OBVIOUS
<1> HIDE DEF q
<1>2. StateAt(s, q, 1) = s
  BY DEF StateAt
<1>3. StateAt(s, q, 2) = s
  <2>1. \A j \in 1..(2 - 1) : j = 1
    OBVIOUS
  <2> QED BY <2>1, <1>1 DEF StateAt
<1>4. Readable(s, q)
  <2>1. \A i \in 1..Len(q) : i = 1
    BY <1>1
  <2> QED BY <2>1, <1>1, <1>2 DEF Readable
<1>5. Ends(s, q) = s
  BY <1>1, <1>3 DEF Ends
<1> QED BY <1>4, <1>5 DEF q

LEMMA NothingReadable ==
    ASSUME NEW s PROVE Readable(s, <<>>) /\ Ends(s, <<>>) = s
BY DEF Readable, Ends, StateAt

LEMMA LoginReadable ==
    Readable("login", <<"compression", "success">>) /\ Ends("login", <<"compression", "success">>) = "config"
<1> DEFINE q == <<"compression", "success">>
           s == "login"
<1>1. Len(q) = 2 /\ q[1] = "compression" /\ q[2] = "success"
  OBVIOUS
<1> HIDE DEF q, s
<1>2. StateAt(s, q, 1) = s
  BY DEF StateAt
<1>3. StateAt(s, q, 2) = s
  <2>1. \A j \in 1..(2 - 1) : j = 1
    OBVIOUS
  <2> QED BY <2>1, <1>1 DEF StateAt
<1>4. StateAt(s, q, 3) = "config"
  <2>1. (\A j \in 1..(3 - 1) : j = 1 \/ j = 2) /\ 2 \in 1..(3 - 1)
    OBVIOUS
  <2> QED BY <2>1, <1>1 DEF StateAt
<1>5. Readable(s, q)
  <2>1. Knows(s, "compression") /\ Knows(s, "success")
    BY DEF Knows, s
  <2>2. \A i \in 1..Len(q) : i = 1 \/ i = 2
    BY <1>1
  <2> QED BY <2>1, <2>2, <1>1, <1>2, <1>3 DEF Readable
<1>6. Ends(s, q) = "config"
  BY <1>1, <1>4 DEF Ends
<1> QED BY <1>5, <1>6 DEF q, s

(* A configuration that ends with its own finish is read to the end. *)
LEMMA ConfigurationReadable ==
    ASSUME LoginTypeOK, ReplayEnds
    PROVE  /\ Readable("config", Configuration) /\ Ends("config", Configuration) = "play"
           /\ \A i \in 1..Len(Configuration) : Configuration[i] # "success"
<1> DEFINE q == Configuration
<1>1. /\ q \in Seq(Recordable) /\ (\E i \in DOMAIN q : q[i] = "finish")
      /\ q[Len(q)] = "finish"
      /\ \A i \in DOMAIN q : q[i] = "finish" => i = Len(q)
  BY TypeFacts, ConfigurationIs
<1> HIDE DEF q
<1>2. DOMAIN q = 1..Len(q) /\ Len(q) \in Nat /\ \A i \in 1..Len(q) : q[i] \in Recordable
  BY <1>1, ElementOfSeq, LenProperties
<1>3. Len(q) \in 1..Len(q)
  BY <1>1, <1>2
<1>4. \A i \in 1..Len(q) : q[i] # "success"
  BY <1>2 DEF Recordable
<1>5. ASSUME NEW i \in 1..Len(q) PROVE Knows(StateAt("config", q, i), q[i])
  <2>1. ~\E j \in 1..(i - 1) : q[j] = "finish"
    <3> SUFFICES ASSUME NEW j \in 1..(i - 1), q[j] = "finish" PROVE FALSE
      OBVIOUS
    <3>1. Len(q) \in Nat
      BY <1>2
    <3>2. j \in 1..Len(q) /\ j # Len(q)
      BY <3>1
    <3>3. \A k \in 1..Len(q) : q[k] = "finish" => k = Len(q)
      BY <1>1, <1>2, Zenon
    <3> QED BY <3>2, <3>3, Zenon
  <2>2. StateAt("config", q, i) = "config"
    BY <2>1, Zenon DEF StateAt
  <2>3. q[i] \in Recordable
    BY <1>2
  <2> QED BY <2>2, <2>3 DEF Knows, Recordable
<1>6. Ends("config", q) = "play"
  <2>1. Len(q) \in 1..((Len(q) + 1) - 1)
    BY <1>2, <1>3
  <2> QED BY <2>1, <1>1 DEF Ends, StateAt
<1> QED BY <1>4, <1>5, <1>6 DEF Readable, q

LEMMA AgreeStart == LoginInit => Agree
<1> SUFFICES ASSUME LoginInit PROVE Agree
  OBVIOUS
<1>1. inbox = <<>> /\ wire = <<>> /\ state = intent /\ pc = "handshake" /\ confused = FALSE
  BY DEF LoginInit
<1>2. todo # <<>> /\ todo[1] = "handshake"
  BY DEF LoginInit
<1>3. Readable(state, inbox)
  BY <1>1, NothingReadable
<1> QED BY <1>1, <1>2, <1>3 DEF Agree, Greets, GoesBy

(* A recv that is answered with something the client will know. *)
LEMMA AgreeRecv ==
    ASSUME LoginTypeOK, Agree, Stay, pc' # "handshake",
           NEW r \in Seq(Packets), Send(r), \A i \in 1..Len(r) : r[i] # "success",
           honest /\ ~gone /\ ReplayEnds =>
              /\ Readable(Ends(state, inbox), r)
              /\ GoesBy(pc', Ends(Ends(state, inbox), r))
    PROVE  Agree'
<1>1. /\ honest' = honest /\ gone' = gone /\ replay' = replay /\ state' = state
      /\ confused' = confused
  BY DEF Stay, choices, clientVars
<1>2. ReplayEnds' <=> ReplayEnds
  BY <1>1 DEF ReplayEnds
<1>3. ASSUME honest, ~gone, ReplayEnds
      PROVE  Readable(state, inbox') /\ GoesBy(pc', Ends(state, inbox'))
  <2>1. inbox' = inbox \o r
    BY <1>3 DEF Send
  <2>2. inbox \in Seq(Packets) /\ state \in States
    BY TypeFacts DEF States
  <2>3. Readable(state, inbox)
    BY <1>3 DEF Agree
  <2> QED BY <1>3, <2>1, <2>2, <2>3, SendOn
<1> QED BY <1>1, <1>2, <1>3 DEF Agree

(* The first thing an honest client sends is its handshake. *)
LEMMA GreetingArrives ==
    ASSUME LoginTypeOK, Agree, pc = "handshake", NEW p \in Arrivals, honest, ~gone, Take(p)
    PROVE  /\ p[1].frame = "handshake" /\ inbox = <<>> /\ state = intent
           /\ "login" \in NextState(p) => intent = "login"
           /\ "status" \in NextState(p) => intent = "status"
<1>1. Greets
  BY DEF Agree
<1>2. wire # <<>> /\ Len(p) \in 1..Len(wire) /\ p[1] = wire[1] /\ Len(wire) \in Nat
  <2>1. wire # <<>> /\ Len(wire) \in Nat /\ Len(p) \in 1..Len(wire)
        /\ \A i \in 1..Len(p) : p[i] = wire[i]
    BY TypeFacts, ArrivalFacts
  <2>2. 1 \in 1..Len(p)
    BY <2>1
  <2> QED BY <2>1, <2>2
<1>3. p[1].frame = "handshake" /\ inbox = <<>> /\ state = intent
  BY <1>1, <1>2 DEF Greets
<1>4. intent \in {"login", "status"}
  BY TypeFacts
<1> QED BY <1>3, <1>4 DEF NextState

LEMMA AgreeWorker == LoginTypeOK /\ Agree /\ Worker => Agree'
<1> SUFFICES ASSUME LoginTypeOK, Agree, Worker PROVE Agree'
  OBVIOUS
<1> DEFINE Nothing(r) == \A i \in 1..Len(r) : r[i] # "success"
<1>t. inbox \in Seq(Packets) /\ <<>> \in Seq(Packets) /\ Nothing(<<>>)
  BY TypeFacts
<1>u. /\ \A packet \in Packets : <<packet>> \in Seq(Packets)
      /\ \A packet \in Packets \ {"success"} : Nothing(<<packet>>)
      /\ {"disconnect", "compression", "response", "pong", "knownPacks", "play"}
           \subseteq Packets \ {"success"}
  BY DEF Packets
<1>e. ASSUME inbox' = inbox PROVE Send(<<>>)
  BY <1>e, <1>t DEF Send
<1> HIDE DEF Nothing
<1>g. honest /\ ~gone /\ ReplayEnds => GoesBy(pc, Ends(state, inbox))
  BY DEF Agree
<1>n. ASSUME Stay, Send(<<>>), pc' # "handshake",
             pc' = "closed" \/ (pc' = pc) \/ (pc = "status" /\ pc' = "ping")
      PROVE  Agree'
  <2>1. honest /\ ~gone /\ ReplayEnds => GoesBy(pc', Ends(state, inbox))
    BY <1>g, <1>n DEF GoesBy
  <2> QED BY <1>t, <1>n, <2>1, NothingReadable, AgreeRecv DEF Nothing
<1>a. ASSUME Stay, NEW packet \in Packets \ {"success", "finish"}, Send(<<packet>>), pc' # "handshake",
             honest /\ ~gone /\ ReplayEnds =>
                Knows(Ends(state, inbox), packet) /\ GoesBy(pc', Ends(state, inbox))
      PROVE  Agree'
  BY <1>u, <1>a, AloneReadable, AgreeRecv DEF Nothing
<1>1. CASE RecvHandshakeRefused
  BY <1>1, <1>e, <1>n DEF RecvHandshakeRefused
<1>2. CASE RecvHandshakeForStatus
  <2>1. PICK p \in Arrivals : "status" \in NextState(p) /\ Take(p)
    BY <1>2 DEF RecvHandshakeForStatus
  <2>2. Stay /\ inbox' = inbox /\ pc' = "status" /\ pc = "handshake"
    BY <1>2 DEF RecvHandshakeForStatus
  <2>3. honest /\ ~gone => inbox = <<>> /\ state = "status"
    BY <2>1, <2>2, GreetingArrives
  <2>4. honest /\ ~gone /\ ReplayEnds => GoesBy(pc', Ends(state, inbox))
    BY <2>2, <2>3, NothingReadable DEF GoesBy
  <2>5. honest /\ ~gone /\ ReplayEnds =>
           Readable(Ends(state, inbox), <<>>) /\ GoesBy(pc', Ends(Ends(state, inbox), <<>>))
    BY <2>4, NothingReadable
  <2>6. pc' # "handshake"
    BY <2>2
  <2> QED BY <1>t, <1>e, <2>2, <2>5, <2>6, AgreeRecv DEF Nothing
<1>3. CASE RecvLoginStart
  <2>1. PICK p \in Arrivals : "login" \in NextState(p) /\ Take(p)
    BY <1>3 DEF RecvLoginStart
  <2>2. Stay /\ pc = "handshake"
    BY <1>3 DEF RecvLoginStart
  <2>3. honest /\ ~gone => inbox = <<>> /\ state = "login" /\ Ends(state, inbox) = "login"
    BY <2>1, <2>2, GreetingArrives, NothingReadable
  <2>4. CASE fit = "version" /\ Send(<<"disconnect">>) /\ pc' = "closed"
    BY <2>2, <2>3, <2>4, <1>u, <1>a DEF GoesBy, Knows
  <2>5. CASE fit = "name" /\ Send(<<"compression">>) /\ pc' = "closed"
    BY <2>2, <2>3, <2>5, <1>u, <1>a DEF GoesBy, Knows
  <2>6. CASE fit = "fits" /\ Send(<<"compression", "success">>) /\ pc' = "ack"
    <3>1. ASSUME honest, ~gone
          PROVE  /\ inbox' = <<"compression", "success">>
                 /\ Readable(state', inbox') /\ GoesBy(pc', Ends(state', inbox'))
      <4>1. inbox' = <<"compression", "success">>
        <5>1. inbox' = inbox \o <<"compression", "success">> /\ inbox = <<>>
          BY <2>3, <2>6, <3>1 DEF Send
        <5> QED BY <5>1
      <4>2. state' = "login"
        BY <2>2, <2>3, <3>1 DEF Stay, clientVars
      <4> QED BY <4>1, <4>2, <2>6, LoginReadable DEF GoesBy
    <3>2. /\ honest' = honest /\ gone' = gone /\ replay' = replay /\ confused' = confused
          /\ pc' # "handshake"
      BY <2>2, <2>6 DEF Stay, choices, clientVars
    <3>3. ReplayEnds' <=> ReplayEnds
      BY <3>2 DEF ReplayEnds
    <3> QED BY <3>1, <3>2, <3>3 DEF Agree
  <2> QED BY <1>3, <2>4, <2>5, <2>6 DEF RecvLoginStart
<1>4. CASE RecvRequest
  <2>1. Stay /\ pc = "status" /\ pc' = "ping"
    BY <1>4 DEF RecvRequest
  <2>2. honest /\ ~gone /\ ReplayEnds => Ends(state, inbox) = "status"
    BY <2>1, <1>g DEF GoesBy
  <2>3. CASE Send(<<"response">>)
    BY <2>1, <2>2, <2>3, <1>u, <1>a DEF GoesBy, Knows
  <2>4. CASE Send(<<>>)
    BY <2>1, <2>4, <1>n
  <2> QED BY <1>4, <2>3, <2>4 DEF RecvRequest
<1>5. CASE RecvPing
  <2>1. Stay /\ pc = "ping" /\ pc' = "closed" /\ Send(<<"pong">>)
    BY <1>5 DEF RecvPing
  <2>2. honest /\ ~gone /\ ReplayEnds => Ends(state, inbox) = "status"
    BY <2>1, <1>g DEF GoesBy
  <2> QED BY <2>1, <2>2, <1>u, <1>a DEF GoesBy, Knows
<1>6. CASE RecvAck
  <2>1. Stay /\ pc = "ack"
    BY <1>6 DEF RecvAck
  <2>2. honest /\ ~gone /\ ReplayEnds => Ends(state, inbox) = "config"
    BY <2>1, <1>g DEF GoesBy
  <2>3. CASE Send(<<"knownPacks">>) /\ pc' = "packs"
    BY <2>1, <2>2, <2>3, <1>u, <1>a DEF GoesBy, Knows
  <2>4. CASE Send(<<>>) /\ pc' = "closed"
    BY <2>1, <2>4, <1>n
  <2> QED BY <1>6, <2>3, <2>4 DEF RecvAck
<1>7. CASE RecvPacks
  <2>1. Stay /\ pc = "packs"
    BY <1>7 DEF RecvPacks
  <2>2. honest /\ ~gone /\ ReplayEnds => Ends(state, inbox) = "config"
    BY <2>1, <1>g DEF GoesBy
  <2>3. CASE Send(Configuration) /\ pc' = "finish"
    <3>1. Configuration \in Seq(Packets) /\ \A i \in 1..Len(Configuration) : Configuration[i] # "success"
      <4>1. Configuration \in Seq(Recordable) /\ Configuration \in Seq(Packets)
        BY TypeFacts, ConfigurationIs
      <4>2. \A i \in 1..Len(Configuration) : Configuration[i] \in Recordable
        BY <4>1, ElementOfSeq
      <4> QED BY <4>1, <4>2 DEF Recordable
    <3>2. honest /\ ~gone /\ ReplayEnds =>
             /\ Readable(Ends(state, inbox), Configuration)
             /\ GoesBy(pc', Ends(Ends(state, inbox), Configuration))
      BY <2>2, <2>3, ConfigurationReadable DEF GoesBy
    <3> QED BY <2>1, <2>3, <3>1, <3>2, AgreeRecv
  <2>4. CASE Send(<<>>) /\ pc' = pc
    BY <2>1, <2>4, <1>n
  <2> QED BY <1>7, <2>3, <2>4 DEF RecvPacks
<1>8. CASE RecvFinishAck
  <2>1. Stay /\ pc = "finish"
    BY <1>8 DEF RecvFinishAck
  <2>2. honest /\ ~gone /\ ReplayEnds => Ends(state, inbox) = "play"
    BY <2>1, <1>g DEF GoesBy
  <2>3. CASE Send(<<"play">>) /\ pc' = "play"
    BY <2>1, <2>2, <2>3, <1>u, <1>a DEF GoesBy, Knows
  <2>4. CASE Send(<<>>) /\ pc' = pc
    BY <2>1, <2>4, <1>n
  <2> QED BY <1>8, <2>3, <2>4 DEF RecvFinishAck
<1>9. CASE Timeout \/ RecvEnd
  BY <1>9, <1>e, <1>n DEF Timeout, RecvEnd, Stay
<1> QED BY <1>1, <1>2, <1>3, <1>4, <1>5, <1>6, <1>7, <1>8, <1>9 DEF Worker

LEMMA AgreeClient == LoginTypeOK /\ Agree /\ Client => Agree'
<1> SUFFICES ASSUME LoginTypeOK, Agree, Client PROVE Agree'
  OBVIOUS
<1>t. /\ wire \in Seq(Parts) /\ inbox \in Seq(Packets) /\ todo \in Seq(Frame)
      /\ state \in States
  BY TypeFacts DEF States
<1>k. ASSUME UNCHANGED <<pc, inbox, choices, state, gone, confused>>,
             honest /\ ~gone /\ pc = "handshake" => Greets'
      PROVE  Agree'
  <2>1. ReplayEnds' <=> ReplayEnds
    BY <1>k DEF ReplayEnds, choices
  <2> QED BY <1>k, <2>1 DEF Agree, choices
<1>1. CASE ClientSends
  <2>1. /\ Head(todo) \in Frame /\ Head(todo) = todo[1] /\ Put(Head(todo))
        /\ honest /\ ~gone /\ UNCHANGED <<pc, inbox, choices, state, gone, confused>>
    BY <1>1, <1>t DEF ClientSends, Frame
  <2>2. /\ Len(wire') = Len(wire) + 2 /\ Len(wire) \in Nat
        /\ \A i \in 1..Len(wire) : wire'[i] = wire[i]
        /\ wire'[Len(wire) + 1] = [frame |-> Head(todo), half |-> 1]
    BY <1>t, <2>1, PutFacts
  <2>3. ASSUME pc = "handshake" PROVE Greets'
    <3>1. Greets
      BY <2>1, <2>3 DEF Agree
    <3>2. wire'[1].frame = "handshake"
      <4>1. CASE wire = <<>>
        <5>1. Len(wire) = 0
          BY <4>1
        <5> QED BY <2>1, <2>2, <3>1, <4>1, <5>1 DEF Greets
      <4>2. CASE wire # <<>>
        <5>1. Len(wire) # 0
          BY <1>t, <4>2
        <5>2. 1 \in 1..Len(wire)
          BY <2>2, <5>1
        <5> QED BY <2>2, <3>1, <4>2, <5>2 DEF Greets
      <4> QED BY <4>1, <4>2
    <3>3. wire' # <<>>
      BY <2>2
    <3> QED BY <2>1, <3>1, <3>2, <3>3 DEF Greets, choices
  <2> QED BY <2>1, <2>3, <1>k
<1>2. CASE ClientExtra
  <2>1. UNCHANGED <<pc, inbox, choices, state, gone, confused>> /\ state = "config"
    BY <1>2 DEF ClientExtra
  <2>2. ~(honest /\ ~gone /\ pc = "handshake")
    BY <2>1, TypeFacts DEF Agree, Greets
  <2> QED BY <2>1, <2>2, <1>k
<1>3. CASE ClientWild
  BY <1>3, <1>k DEF ClientWild
<1>4. CASE ClientReads
  <2>1. /\ honest /\ ~gone /\ inbox # <<>> /\ inbox' = Tail(inbox)
        /\ UNCHANGED <<pc, choices, gone>>
        /\ confused' = (confused \/ ~Knows(state, Head(inbox)))
    BY <1>4 DEF ClientReads
  <2>2. state' = Becomes(state, Head(inbox))
    BY <1>4 DEF ClientReads, Becomes
  <2>3. (ReplayEnds' <=> ReplayEnds) /\ honest' = honest
    BY <2>1 DEF ReplayEnds, choices
  <2>4. pc # "handshake"
    BY <2>1 DEF Agree, Greets
  <2>5. CASE ReplayEnds
    <3>1. Readable(state, inbox) /\ GoesBy(pc, Ends(state, inbox)) /\ ~confused
      BY <2>1, <2>5 DEF Agree
    <3>2. /\ Knows(state, Head(inbox)) /\ Readable(state', inbox')
          /\ Ends(state', inbox') = Ends(state, inbox)
      BY <1>t, <2>1, <2>2, <3>1, ReadOn
    <3>3. ~confused'
      BY <2>1, <3>1, <3>2
    <3> QED BY <2>1, <2>3, <2>4, <3>1, <3>2, <3>3 DEF Agree
  <2>6. CASE ~ReplayEnds
    BY <2>1, <2>3, <2>4, <2>6 DEF Agree
  <2> QED BY <2>5, <2>6
<1>5. CASE ClientLeaves
  <2>1. gone' /\ UNCHANGED <<pc, choices, confused>>
    BY <1>5 DEF ClientLeaves
  <2>2. (ReplayEnds' <=> ReplayEnds) /\ honest' = honest
    BY <2>1 DEF ReplayEnds, choices
  <2> QED BY <2>1, <2>2 DEF Agree
<1> QED BY <1>1, <1>2, <1>3, <1>4, <1>5 DEF Client

-----------------------------------------------------------------------------
(* As long as there is no reason to refuse an honest client that came for  *)
(* login, frames are under way one behind the other, the worker is on the  *)
(* way to play, and what it waits for is asked for, owed or under way.     *)
Expected == honest /\ intent = "login" /\ spoiled = {}

Whole(halves) ==
    /\ halves # <<>> => halves[1].half = 1
    /\ \A i \in 1..Len(halves) :
         /\ halves[i].half = 1 => /\ i + 1 \in 1..Len(halves)
                                 /\ halves[i + 1].half = 2 /\ halves[i + 1].frame = halves[i].frame
         /\ halves[i].half = 2 /\ i + 1 \in 1..Len(halves) => halves[i + 1].half = 1

Carries(frame) == \E i \in 1..Len(wire) : wire[i].frame = frame
Hears(packet, frame) == Contains(inbox, packet) \/ Contains(todo, frame) \/ Carries(frame)

Greeted ==
    \/ wire = <<>> /\ todo = <<"handshake", "start">>
    \/ /\ todo = <<"start">> /\ Len(wire) = 2
       /\ wire[1].frame = "handshake" /\ wire[2].frame = "handshake"
    \/ /\ todo = <<>> /\ Len(wire) = 4
       /\ wire[1].frame = "handshake" /\ wire[2].frame = "handshake"
       /\ wire[3].frame = "start" /\ wire[4].frame = "start"

Accepted ==
    \/ /\ wire = <<>> /\ todo = <<>> /\ state = "login"
       /\ inbox = <<"compression", "success">> \/ inbox = <<"success">>
    \/ wire = <<>> /\ inbox = <<>> /\ todo = <<"ack">>
    \/ wire # <<>> /\ wire[1].frame = "ack" /\ inbox = <<>> /\ todo = <<>>

Straight ==
    Expected =>
      /\ ~gone /\ Whole(wire) /\ pc \notin {"status", "ping", "closed"}
      /\ pc = "handshake" => Greeted
      /\ pc = "ack" => Accepted
      /\ pc = "packs" => Hears("knownPacks", "known")
      /\ pc = "finish" => Hears("finish", "finishAck")

(* A recv that cuts no frame and loses none reads the first one. *)
LEMMA WholeRecv ==
    ASSUME LoginTypeOK, Whole(wire), NEW p \in Arrivals, Take(p), NEW n \in Nat, Spoils(p, n) = {}
    PROVE  /\ Len(wire) \in Nat /\ Len(p) \in 2..Len(wire) /\ Len(wire') = Len(wire) - Len(p)
           /\ Whole(wire') /\ \A i \in 1..Len(wire') : wire'[i] = wire[i + Len(p)]
           /\ \A i \in 1..Len(p) : p[i] = wire[i]
           /\ p[1].half = 1 /\ p[2].frame = p[1].frame /\ p[Len(p)].half = 2
           /\ IdsOf(p) = {Id(p[1].frame)}
           /\ \A i \in (n + 1)..Len(p) : p[i].frame = "info"
<1> DEFINE w == wire
           v == wire'
           l == Len(p)
           k == Len(wire)
<1>1. /\ wire # <<>> /\ k \in Nat /\ l \in 1..k /\ Len(v) = k - l
      /\ \A i \in 1..l : p[i] = w[i]
      /\ \A i \in 1..Len(v) : v[i] = w[i + l]
  BY TypeFacts, ArrivalFacts
<1>2. \A i \in 1..k : w[i].half \in 1..2
  <2>1. \A i \in 1..k : w[i] \in Parts
    BY TypeFacts, ElementOfSeq
  <2> QED BY <2>1 DEF Parts
<1>3. p[l].half # 1 /\ p[1].half # 2 /\ \A i \in (n + 1)..l : p[i].frame = "info"
  BY DEF Spoils, Last
<1>4. /\ \A i \in 1..k : w[i].half = 1 => /\ i + 1 \in 1..k /\ w[i + 1].half = 2
                                          /\ w[i + 1].frame = w[i].frame
      /\ \A i \in 1..k : w[i].half = 2 /\ i + 1 \in 1..k => w[i + 1].half = 1
  BY DEF Whole
<1>5. 1 \in 1..l /\ l \in 1..l /\ 1 \in 1..k /\ l \in 1..k
  BY <1>1
<1> DEFINE A == \A i \in 1..l : p[i] = w[i]
           B == \A i \in (n + 1)..l : p[i].frame = "info"
<1>a. A /\ B
  BY <1>1, <1>3
<1> HIDE DEF w, l, k, A, B
<1>6. p[1] = w[1] /\ p[l] = w[l]
  BY <1>5, <1>a DEF A
<1>7. w[1].half = 1 /\ w[l].half = 2
  BY <1>2, <1>3, <1>5, <1>6
<1>8. l # 1 /\ l \in 2..k /\ 2 \in 1..l
  BY <1>1, <1>7
<1>9. p[2] = w[2] /\ w[2].frame = w[1].frame
  <2>1. p[2] = w[2]
    BY <1>8, <1>a DEF A
  <2> QED BY <2>1, <1>4, <1>5, <1>7
<1>10. IdsOf(p) = {Id(p[1].frame)}
  BY <1>6, <1>7, <1>8 DEF IdsOf, BeginsWhole, l
<1>11. Whole(v)
  <2>1. ASSUME v # <<>> PROVE v[1].half = 1
    <3>1. Len(v) # 0
      BY <1>1, <2>1, TypesTaken
    <3>2. 1 \in 1..Len(v) /\ l + 1 \in 1..k
      BY <3>1, <1>1
    <3>3. v[1] = w[1 + l] /\ 1 + l = l + 1
      BY <3>2, <1>1
    <3> QED BY <3>2, <3>3, <1>4, <1>5, <1>7
  <2>2. ASSUME NEW i \in 1..Len(v)
        PROVE  /\ v[i].half = 1 => /\ i + 1 \in 1..Len(v)
                                   /\ v[i + 1].half = 2 /\ v[i + 1].frame = v[i].frame
               /\ v[i].half = 2 /\ i + 1 \in 1..Len(v) => v[i + 1].half = 1
    <3>1. i + l \in 1..k /\ (i + l) + 1 = (i + 1) + l
      BY <1>1
    <3>2. v[i] = w[i + l] /\ (i + 1 \in 1..Len(v) => v[i + 1] = w[(i + l) + 1])
      BY <3>1, <1>1
    <3>3. (i + l) + 1 \in 1..k <=> i + 1 \in 1..Len(v)
      BY <1>1
    <3> QED BY <3>1, <3>2, <3>3, <1>4
  <2> QED BY <2>1, <2>2 DEF Whole
<1> QED BY <1>1, <1>3, <1>6, <1>7, <1>8, <1>9, <1>10, <1>11, <1>a DEF A, B, w, l, k

(* A frame behind whole ones leaves them whole. *)
LEMMA WholePut ==
    ASSUME wire \in Seq(Parts), Whole(wire), NEW f \in Frame, Put(f)
    PROVE  Whole(wire')
<1> DEFINE w == wire
           v == wire'
           k == Len(wire)
<1>1. /\ k \in Nat /\ Len(v) = k + 2
      /\ \A i \in 1..k : v[i] = w[i]
      /\ v[k + 1] = [frame |-> f, half |-> 1]
      /\ v[k + 2] = [frame |-> f, half |-> 2]
  BY PutFacts
<1>2. /\ \A i \in 1..k : w[i].half = 1 => /\ i + 1 \in 1..k /\ w[i + 1].half = 2
                                          /\ w[i + 1].frame = w[i].frame
      /\ \A i \in 1..k : w[i].half = 2 /\ i + 1 \in 1..k => w[i + 1].half = 1
      /\ k # 0 => w[1].half = 1
  BY DEF Whole
<1>3. /\ v[k + 1].half = 1 /\ v[k + 1].frame = f
      /\ v[k + 2].half = 2 /\ v[k + 2].frame = f
  BY <1>1
<1> HIDE DEF w, k
<1>4. v[1].half = 1
  <2>1. CASE k = 0
    BY <2>1, <1>1, <1>3
  <2>2. CASE k # 0
    <3>1. 1 \in 1..k
      BY <2>2, <1>1
    <3> QED BY <3>1, <2>2, <1>1, <1>2
  <2> QED BY <2>1, <2>2
<1>5. ASSUME NEW i \in 1..(k + 2)
      PROVE  /\ v[i].half = 1 => /\ i + 1 \in 1..(k + 2)
                                 /\ v[i + 1].half = 2 /\ v[i + 1].frame = v[i].frame
             /\ v[i].half = 2 /\ i + 1 \in 1..(k + 2) => v[i + 1].half = 1
  <2>1. CASE i \in 1..k /\ i + 1 \in 1..k
    BY <2>1, <1>1, <1>2
  <2>2. CASE i = k /\ k # 0
    <3>1. k \in 1..k /\ v[k] = w[k] /\ ~(k + 1 \in 1..k)
      BY <2>2, <1>1
    <3> QED BY <2>2, <3>1, <1>2, <1>3
  <2>3. CASE i = k + 1
    <3>1. i + 1 = k + 2 /\ k + 2 \in 1..(k + 2)
      BY <2>3, <1>1
    <3> QED BY <2>3, <3>1, <1>3
  <2>4. CASE i = k + 2
    <3>1. ~(i + 1 \in 1..(k + 2))
      BY <2>4, <1>1
    <3> QED BY <2>4, <3>1, <1>3
  <2> QED BY <2>1, <2>2, <2>3, <2>4, <1>1
<1> QED BY <1>1, <1>4, <1>5 DEF Whole

LEMMA StraightStart == LoginInit => Straight
<1> SUFFICES ASSUME LoginInit, Expected PROVE Straight
  BY DEF Straight
<1>1. wire = <<>> /\ ~gone /\ pc = "handshake" /\ todo = <<"handshake", "start">>
  BY DEF LoginInit, Expected
<1>2. Whole(wire)
  BY <1>1 DEF Whole
<1> QED BY <1>1, <1>2 DEF Straight, Greeted

(* A recv that loses nothing but unasked frames leaves the others. *)
LEMMA CarriesOn ==
    ASSUME LoginTypeOK, Whole(wire), NEW p \in Arrivals, Take(p), Spoils(p, 2) = {},
           NEW f, f # "info", Carries(f), p[1].frame # f
    PROVE  Carries(f)'
<1>1. /\ Len(wire) \in Nat /\ Len(p) \in 2..Len(wire) /\ Len(wire') = Len(wire) - Len(p)
      /\ \A i \in 1..Len(wire') : wire'[i] = wire[i + Len(p)]
      /\ \A i \in 1..Len(p) : p[i] = wire[i]
      /\ p[2].frame = p[1].frame
      /\ \A i \in (2 + 1)..Len(p) : p[i].frame = "info"
  BY WholeRecv
<1>2. PICK i \in 1..Len(wire) : wire[i].frame = f
  BY DEF Carries
<1>3. i > Len(p)
  <2> SUFFICES ASSUME i <= Len(p) PROVE FALSE
    BY <1>1
  <2>1. i \in 1..Len(p) /\ p[i].frame = f
    BY <1>1, <1>2
  <2>2. i # 1 /\ i # 2 /\ i \in (2 + 1)..Len(p)
    BY <1>1, <2>1
  <2> QED BY <1>1, <2>1, <2>2
<1>4. i - Len(p) \in 1..Len(wire') /\ (i - Len(p)) + Len(p) = i
  BY <1>1, <1>3
<1> QED BY <1>1, <1>2, <1>4 DEF Carries

LEMMA FitOnly == fit \in {"fits", "version", "name"} /\ {fit} \ {"fits"} = {} => fit = "fits"
OBVIOUS

LEMMA StraightWorker == LoginTypeOK /\ Agree /\ Straight /\ Worker => Straight'
<1> SUFFICES ASSUME LoginTypeOK, Agree, Straight, Worker, Expected', Expected
             PROVE  /\ ~gone' /\ Whole(wire)' /\ pc' \notin {"status", "ping", "closed"}
                    /\ pc' = "handshake" => Greeted'
                    /\ pc' = "ack" => Accepted'
                    /\ pc' = "packs" => Hears("knownPacks", "known")'
                    /\ pc' = "finish" => Hears("finish", "finishAck")'
  <2>1. ASSUME Worker, Expected' PROVE Expected
    BY <2>1 DEF Expected, Worker, RecvHandshakeRefused, RecvHandshakeForStatus, RecvLoginStart,
         RecvRequest, RecvPing, RecvAck, RecvPacks, RecvFinishAck, Timeout, RecvEnd, Stay, choices
  <2> QED BY <2>1 DEF Straight
<1> USE DEF Expected
<1>t. /\ wire \in Seq(Parts) /\ inbox \in Seq(Packets) /\ todo \in Seq(Frame)
      /\ fit \in {"fits", "version", "name"} /\ Configuration \in Seq(Packets)
      /\ (\E i \in DOMAIN Configuration : Configuration[i] = "finish")
  BY TypeFacts, FitsAssumption, ConfigurationIs
<1>s. /\ ~gone /\ Whole(wire) /\ pc \notin {"status", "ping", "closed"}
      /\ pc = "handshake" => Greeted
      /\ pc = "ack" => Accepted
      /\ pc = "packs" => Hears("knownPacks", "known")
      /\ pc = "finish" => Hears("finish", "finishAck")
  BY DEF Straight
<1>1. CASE RecvHandshakeRefused
  <2>1. PICK p \in Arrivals : Take(p) /\ Spoils(p, 2) = {} /\ Len(p) # 2
    BY <1>1 DEF RecvHandshakeRefused
  <2>2. Greeted
    BY <1>1, <1>s DEF RecvHandshakeRefused
  <2>3. /\ Len(wire) \in Nat /\ Len(p) \in 2..Len(wire)
        /\ \A i \in 1..Len(p) : p[i] = wire[i]
        /\ \A i \in (2 + 1)..Len(p) : p[i].frame = "info"
    BY <1>s, <2>1, WholeRecv
  <2>4. 3 \in 1..Len(p) /\ 3 \in (2 + 1)..Len(p) /\ Len(wire) > 2
    <3> DEFINE l == Len(p)
               k == Len(wire)
    <3>1. k \in Nat /\ l \in 2..k /\ l # 2
      BY <2>1, <2>3
    <3> HIDE DEF l, k
    <3>2. 3 \in 1..l /\ 3 \in (2 + 1)..l /\ k > 2
      BY <3>1
    <3> QED BY <3>2 DEF l, k
  <2>5. wire[3].frame = "start"
    BY <2>2, <2>4 DEF Greeted
  <2>6. p[3].frame = "info" /\ p[3] = wire[3]
    BY <2>3, <2>4
  <2> QED BY <2>5, <2>6
<1>2. CASE RecvHandshakeForStatus
  <2>1. PICK p \in Arrivals : Take(p) /\ "status" \in NextState(p)
    BY <1>2 DEF RecvHandshakeForStatus
  <2>2. intent = "status"
    BY <1>2, <1>s, <2>1, GreetingArrives DEF RecvHandshakeForStatus
  <2> QED BY <2>2
<1>3. CASE RecvLoginStart
  <2>1. PICK p \in Arrivals :
          /\ Take(p) /\ Spoils(p, 4) = {} /\ {fit} \ {"fits"} = {}
          /\ "login" \in NextState(p) /\ StartPasses(StartOf(p))
    BY <1>3 DEF RecvLoginStart
  <2>2. Greeted /\ Stay /\ pc = "handshake"
    BY <1>3, <1>s DEF RecvLoginStart
  <2>3. inbox = <<>> /\ state = "login"
    BY <1>s, <2>1, <2>2, GreetingArrives
  <2>4. Send(<<"compression", "success">>) /\ pc' = "ack"
    <3>1. fit = "fits"
      BY <1>t, <2>1, FitOnly
    <3> QED BY <1>3, <3>1 DEF RecvLoginStart
  <2>5. /\ Len(wire) \in Nat /\ Len(p) \in 2..Len(wire) /\ Len(wire') = Len(wire) - Len(p)
        /\ Whole(wire')
    BY <1>s, <2>1, WholeRecv
  <2>6. Len(p) >= 4
    <3>1. Len(StartOf(p)) >= 2
      BY <2>1 DEF StartPasses, BeginsWhole
    <3>2. p \in Seq(Parts) /\ Len(p) \in Nat
      BY <1>t, <2>1, ArrivalFacts
    <3>3. Len(StartOf(p)) = IF 3 <= Len(p) THEN Len(p) - 3 + 1 ELSE 0
      <4> DEFINE T == Parts
      <4> HIDE DEF T
      <4>1. p \in Seq(T)
        BY <3>2 DEF T
      <4> QED BY <3>2, <4>1 DEF StartOf
    <3> QED BY <3>1, <3>2, <3>3
  <2>7. Len(wire) = 4 /\ todo = <<>>
    BY <2>2, <2>5, <2>6 DEF Greeted
  <2>8. wire' = <<>>
    <3>1. Len(wire') = 0
      <4> DEFINE l == Len(p)
                 k == Len(wire)
                 j == Len(wire')
      <4>1. k = 4 /\ l \in 2..k /\ l >= 4 /\ j = k - l
        BY <2>5, <2>6, <2>7
      <4> HIDE DEF l, k, j
      <4>2. j = 0
        BY <4>1
      <4> QED BY <4>2 DEF j
    <3>2. wire' \in Seq(Parts)
      BY <2>1, TypesTaken
    <3> QED BY <3>1, <3>2
  <2>9. inbox' = <<"compression", "success">>
    <3>1. inbox' = <<>> \o <<"compression", "success">>
      BY <1>s, <2>3, <2>4 DEF Send
    <3> QED BY <3>1
  <2>10. Accepted' /\ ~gone'
    BY <1>s, <2>2, <2>3, <2>7, <2>8, <2>9 DEF Accepted, Stay, clientVars
  <2> QED BY <2>4, <2>5, <2>10
<1>4. CASE RecvRequest \/ RecvPing
  BY <1>4, <1>s DEF RecvRequest, RecvPing
<1>6. CASE RecvAck
  <2>1. PICK p \in Arrivals :
          /\ Take(p)
          /\ \E id \in IdsOf(p) :
               \/ id = 3 /\ Send(<<"knownPacks">>) /\ pc' = "packs" /\ spoiled' = spoiled \cup Spoils(p, 2)
               \/ id # 3 /\ spoiled' = spoiled \cup Spoils(p, 2)
    BY <1>6 DEF RecvAck
  <2>2. Accepted /\ Stay /\ Spoils(p, 2) = {}
    BY <1>6, <1>s, <2>1 DEF RecvAck
  <2>3. /\ Len(wire) \in Nat /\ Len(p) \in 2..Len(wire) /\ Whole(wire')
        /\ IdsOf(p) = {Id(p[1].frame)} /\ \A i \in 1..Len(p) : p[i] = wire[i]
    BY <1>s, <2>1, <2>2, WholeRecv
  <2>4. p[1].frame = "ack" /\ inbox = <<>>
    <3>1. wire # <<>> /\ 1 \in 1..Len(p)
      BY <2>3
    <3> QED BY <2>2, <2>3, <3>1 DEF Accepted
  <2>5. IdsOf(p) = {3}
    BY <2>3, <2>4 DEF Id
  <2>6. Send(<<"knownPacks">>) /\ pc' = "packs"
    BY <2>1, <2>5
  <2>7. inbox' = <<"knownPacks">>
    <3>1. inbox' = <<>> \o <<"knownPacks">>
      BY <1>s, <2>4, <2>6 DEF Send
    <3> QED BY <3>1
  <2>8. Hears("knownPacks", "known")'
    BY <2>7 DEF Hears, Contains
  <2> QED BY <1>s, <2>2, <2>3, <2>6, <2>8 DEF Stay, clientVars
<1>7. CASE RecvPacks
  <2>1. PICK p \in Arrivals :
          /\ Take(p) /\ Spoils(p, 2) = {}
          /\ \E id \in IdsOf(p) : \/ id = 7 /\ Send(Configuration) /\ pc' = "finish"
                                  \/ id # 7 /\ Send(<<>>) /\ pc' = pc
    BY <1>7 DEF RecvPacks
  <2>2. Hears("knownPacks", "known") /\ Stay /\ pc = "packs"
    BY <1>7, <1>s DEF RecvPacks
  <2>3. Whole(wire') /\ IdsOf(p) = {Id(p[1].frame)}
    BY <1>s, <2>1, WholeRecv
  <2>4. CASE Send(Configuration) /\ pc' = "finish"
    <3>1. inbox' = inbox \o Configuration
      BY <1>s, <2>4 DEF Send
    <3>2. PICK i \in 1..Len(Configuration) : Configuration[i] = "finish"
      BY <1>t
    <3>3. inbox'[Len(inbox) + i] = "finish" /\ Len(inbox) + i \in 1..Len(inbox')
      <4> DEFINE c == Configuration
      <4>1. c \in Seq(Packets) /\ i \in 1..Len(c) /\ c[i] = "finish" /\ inbox' = inbox \o c
        BY <1>t, <3>1, <3>2
      <4> HIDE DEF c
      <4> QED BY <1>t, <4>1
    <3>4. Hears("finish", "finishAck")'
      BY <3>3 DEF Hears, Contains
    <3> QED BY <1>s, <2>2, <2>3, <2>4, <3>4 DEF Stay, clientVars
  <2>5. CASE Send(<<>>) /\ pc' = pc /\ Id(p[1].frame) # 7
    <3>1. inbox' = inbox
      BY <1>t, <2>5 DEF Send
    <3>2. todo' = todo
      BY <2>2 DEF Stay, clientVars
    <3>3. Carries("known") => Carries("known")'
      <4>1. p[1].frame # "known"
        BY <2>5 DEF Id
      <4> QED BY <1>s, <2>1, <4>1, CarriesOn
    <3>4. Hears("knownPacks", "known")'
      BY <2>2, <3>1, <3>2, <3>3 DEF Hears
    <3> QED BY <1>s, <2>2, <2>3, <2>5, <3>4 DEF Stay, clientVars
  <2> QED BY <2>1, <2>3, <2>4, <2>5
<1>8. CASE RecvFinishAck
  <2>1. PICK p \in Arrivals :
          /\ Take(p) /\ Spoils(p, 2) = {}
          /\ \E id \in IdsOf(p) : \/ id = 3 /\ Send(<<"play">>) /\ pc' = "play"
                                  \/ id # 3 /\ Send(<<>>) /\ pc' = pc
    BY <1>8 DEF RecvFinishAck
  <2>2. Hears("finish", "finishAck") /\ Stay /\ pc = "finish"
    BY <1>8, <1>s DEF RecvFinishAck
  <2>3. Whole(wire') /\ IdsOf(p) = {Id(p[1].frame)}
    BY <1>s, <2>1, WholeRecv
  <2>4. CASE pc' = "play"
    BY <1>s, <2>2, <2>3, <2>4 DEF Stay, clientVars
  <2>5. CASE Send(<<>>) /\ pc' = pc /\ Id(p[1].frame) # 3
    <3>1. inbox' = inbox
      BY <1>t, <2>5 DEF Send
    <3>2. todo' = todo
      BY <2>2 DEF Stay, clientVars
    <3>3. Carries("finishAck") => Carries("finishAck")'
      <4>1. p[1].frame # "finishAck"
        BY <2>5 DEF Id
      <4> QED BY <1>s, <2>1, <4>1, CarriesOn
    <3>4. Hears("finish", "finishAck")'
      BY <2>2, <3>1, <3>2, <3>3 DEF Hears
    <3> QED BY <1>s, <2>2, <2>3, <2>5, <3>4 DEF Stay, clientVars
  <2> QED BY <2>1, <2>3, <2>4, <2>5
<1>9. CASE Timeout
  <2>1. wire = <<>> /\ todo = <<>> /\ inbox = <<>> /\ pc \in {"ack", "packs", "finish"}
    BY <1>9 DEF Timeout, Timed
  <2>2. ~Contains(inbox, "knownPacks") /\ ~Contains(inbox, "finish")
    BY <2>1 DEF Contains
  <2>3. ~Contains(todo, "known") /\ ~Contains(todo, "finishAck")
    BY <2>1 DEF Contains
  <2>4. ~Carries("known") /\ ~Carries("finishAck")
    BY <2>1 DEF Carries
  <2>5. ~Accepted
    BY <2>1 DEF Accepted
  <2> QED BY <1>s, <2>1, <2>2, <2>3, <2>4, <2>5 DEF Hears
<1>10. CASE RecvEnd
  BY <1>10, <1>s DEF RecvEnd
<1> QED BY <1>1, <1>2, <1>3, <1>4, <1>6, <1>7, <1>8, <1>9, <1>10 DEF Worker

LEMMA CarriesPut ==
    ASSUME wire \in Seq(Parts), NEW f \in Frame, Put(f)
    PROVE  Carries(f)' /\ \A g : Carries(g) => Carries(g)'
<1>1. /\ Len(wire') = Len(wire) + 2 /\ Len(wire) \in Nat
      /\ \A i \in 1..Len(wire) : wire'[i] = wire[i]
      /\ wire'[Len(wire) + 1] = [frame |-> f, half |-> 1]
  BY PutFacts
<1>2. Len(wire) + 1 \in 1..Len(wire') /\ \A i \in 1..Len(wire) : i \in 1..Len(wire')
  BY <1>1
<1> QED BY <1>1, <1>2 DEF Carries

LEMMA ContainsTail ==
    ASSUME NEW S, NEW q \in Seq(S), q # <<>>, NEW e, Contains(q, e)
    PROVE  e = Head(q) \/ Contains(Tail(q), e)
<1>1. PICK i \in 1..Len(q) : q[i] = e
  BY DEF Contains
<1>2. CASE i = 1
  BY <1>1, <1>2
<1>3. CASE i # 1
  <2>1. i - 1 \in 1..Len(Tail(q)) /\ Tail(q)[i - 1] = q[(i - 1) + 1]
    BY <1>1, <1>3, HeadTailProperties
  <2>2. (i - 1) + 1 = i
    BY <1>1
  <2> QED BY <1>1, <2>1, <2>2 DEF Contains
<1> QED BY <1>2, <1>3

LEMMA ContainsConcat ==
    ASSUME NEW S, NEW q \in Seq(S), NEW r \in Seq(S), NEW e, Contains(q, e) \/ Contains(r, e)
    PROVE  Contains(q \o r, e)
<1> DEFINE c == q \o r
<1>1. /\ Len(q) \in Nat /\ Len(r) \in Nat /\ Len(c) = Len(q) + Len(r)
      /\ \A i \in 1..Len(q) : c[i] = q[i]
      /\ \A i \in 1..Len(r) : c[Len(q) + i] = r[i]
  BY ConcatProperties
<1> HIDE DEF c
<1>2. CASE Contains(q, e)
  <2>1. PICK i \in 1..Len(q) : q[i] = e
    BY <1>2 DEF Contains
  <2>2. i \in 1..Len(c)
    BY <1>1
  <2> QED BY <1>1, <2>1, <2>2 DEF Contains, c
<1>3. CASE Contains(r, e)
  <2>1. PICK i \in 1..Len(r) : r[i] = e
    BY <1>3 DEF Contains
  <2>2. Len(q) + i \in 1..Len(c)
    BY <1>1
  <2> QED BY <1>1, <2>1, <2>2 DEF Contains, c
<1> QED BY <1>2, <1>3

LEMMA StraightClient == LoginTypeOK /\ Agree /\ Straight /\ Client => Straight'
<1> SUFFICES ASSUME LoginTypeOK, Agree, Straight, Client, Expected', Expected
             PROVE  /\ ~gone' /\ Whole(wire)' /\ pc' \notin {"status", "ping", "closed"}
                    /\ pc' = "handshake" => Greeted'
                    /\ pc' = "ack" => Accepted'
                    /\ pc' = "packs" => Hears("knownPacks", "known")'
                    /\ pc' = "finish" => Hears("finish", "finishAck")'
  <2>1. ASSUME Client, Expected' PROVE Expected
    BY <2>1 DEF Expected, Client, ClientSends, ClientExtra, ClientWild, ClientReads, ClientLeaves, choices
  <2> QED BY <2>1 DEF Straight
<1> USE DEF Expected
<1>t. wire \in Seq(Parts) /\ inbox \in Seq(Packets) /\ todo \in Seq(Frame)
  BY TypeFacts
<1>s. /\ ~gone /\ Whole(wire) /\ pc \notin {"status", "ping", "closed"}
      /\ pc = "handshake" => Greeted
      /\ pc = "ack" => Accepted
      /\ pc = "packs" => Hears("knownPacks", "known")
      /\ pc = "finish" => Hears("finish", "finishAck")
  BY DEF Straight
<1>g. pc = "handshake" => inbox = <<>> /\ state = "login"
  BY <1>s DEF Agree, Greets
<1>1. CASE ClientSends
  <2>1. /\ Head(todo) \in Frame /\ todo # <<>> /\ Put(Head(todo)) /\ todo' = Tail(todo)
        /\ UNCHANGED <<pc, inbox, state, gone>>
    BY <1>1, <1>t DEF ClientSends, Frame
  <2>h. PICK h \in Frame : h = Head(todo)
    BY <2>1
  <2>p. Put(h)
    BY <2>1, <2>h
  <2>2. /\ Len(wire') = Len(wire) + 2 /\ Len(wire) \in Nat
        /\ \A i \in 1..Len(wire) : wire'[i] = wire[i]
        /\ wire'[Len(wire) + 1].frame = Head(todo)
        /\ wire'[Len(wire) + 2].frame = Head(todo)
    <3>1. /\ Len(wire') = Len(wire) + 2 /\ Len(wire) \in Nat
          /\ \A i \in 1..Len(wire) : wire'[i] = wire[i]
          /\ wire'[Len(wire) + 1] = [frame |-> h, half |-> 1]
          /\ wire'[Len(wire) + 2] = [frame |-> h, half |-> 2]
      BY <1>t, <2>p, PutFacts
    <3> QED BY <2>h, <3>1
  <2>3. Whole(wire')
    BY <1>t, <1>s, <2>1, WholePut
  <2>4. ASSUME pc = "handshake" PROVE Greeted'
    <3>1. CASE wire = <<>> /\ todo = <<"handshake", "start">>
      <4>1. Len(wire) = 0 /\ Head(todo) = "handshake" /\ Tail(todo) = <<"start">>
        BY <3>1
      <4> QED BY <2>1, <2>2, <4>1 DEF Greeted
    <3>2. CASE /\ todo = <<"start">> /\ Len(wire) = 2
               /\ wire[1].frame = "handshake" /\ wire[2].frame = "handshake"
      <4>1. Head(todo) = "start" /\ Tail(todo) = <<>>
        BY <3>2
      <4>2. wire'[1] = wire[1] /\ wire'[2] = wire[2]
        BY <2>2, <3>2
      <4>3. wire'[3].frame = "start" /\ wire'[4].frame = "start" /\ Len(wire') = 4
        BY <2>2, <3>2, <4>1
      <4> QED BY <2>1, <3>2, <4>1, <4>2, <4>3 DEF Greeted
    <3>3. todo = <<>> => FALSE
      BY <2>1
    <3> QED BY <1>s, <2>4, <3>1, <3>2, <3>3 DEF Greeted
  <2>5. ASSUME pc = "ack" PROVE Accepted'
    <3>1. wire = <<>> /\ inbox = <<>> /\ todo = <<"ack">>
      BY <1>s, <2>1, <2>5 DEF Accepted
    <3>2. Len(wire) = 0 /\ Head(todo) = "ack" /\ Tail(todo) = <<>>
      BY <3>1
    <3>3. wire'[1].frame = "ack" /\ Len(wire') = 2
      BY <2>2, <3>2
    <3>4. wire' # <<>>
      BY <3>3
    <3> QED BY <2>1, <3>1, <3>2, <3>3, <3>4 DEF Accepted
  <2>6. ASSUME NEW packet, NEW f, Hears(packet, f) PROVE Hears(packet, f)'
    <3>1. Carries(h)' /\ (Carries(f) => Carries(f)')
      BY <1>t, <2>p, CarriesPut
    <3>2. Contains(todo, f) => f = h \/ Contains(todo, f)'
      BY <1>t, <2>1, <2>h, ContainsTail
    <3>3. Contains(inbox, packet) => Contains(inbox, packet)'
      BY <2>1
    <3>4. f = h => Carries(f)'
      BY <3>1
    <3> QED BY <2>6, <3>1, <3>2, <3>3, <3>4 DEF Hears
  <2> QED BY <1>s, <2>1, <2>3, <2>4, <2>5, <2>6
<1>2. CASE ClientExtra
  <2>1. /\ Put("info") /\ "info" \in Frame /\ UNCHANGED <<pc, inbox, state, gone, todo>>
        /\ state = "config" /\ ~Contains(todo, "ack")
    BY <1>2 DEF ClientExtra, Frame
  <2>2. Whole(wire')
    BY <1>t, <1>s, <2>1, WholePut
  <2>3. pc # "handshake"
    BY <1>g, <2>1
  <2>4. ASSUME pc = "ack" PROVE Accepted'
    <3>1. wire # <<>> /\ wire[1].frame = "ack" /\ inbox = <<>> /\ todo = <<>>
      <4>1. todo = <<"ack">> => Contains(todo, "ack")
        BY DEF Contains
      <4> QED BY <1>s, <2>1, <2>4, <4>1 DEF Accepted
    <3>2. /\ Len(wire') = Len(wire) + 2 /\ Len(wire) \in Nat
          /\ \A i \in 1..Len(wire) : wire'[i] = wire[i]
      BY <1>t, <2>1, PutFacts
    <3>3. Len(wire) # 0
      BY <1>t, <3>1
    <3>4. wire'[1] = wire[1] /\ wire' # <<>>
      BY <3>2, <3>3
    <3> QED BY <2>1, <3>1, <3>4 DEF Accepted
  <2>5. ASSUME NEW packet, NEW f, Hears(packet, f) PROVE Hears(packet, f)'
    <3>1. Carries(f) => Carries(f)'
      BY <1>t, <2>1, CarriesPut
    <3> QED BY <2>1, <2>5, <3>1 DEF Hears
  <2> QED BY <1>s, <2>1, <2>2, <2>3, <2>4, <2>5
<1>3. CASE ClientWild
  BY <1>3 DEF ClientWild
<1>4. CASE ClientReads
  <2>1. /\ inbox # <<>> /\ inbox' = Tail(inbox) /\ todo' = todo \o Answer(Head(inbox))
        /\ UNCHANGED <<pc, wire, gone>>
    BY <1>4 DEF ClientReads
  <2>2. state' = Becomes(state, Head(inbox))
    BY <1>4 DEF ClientReads, Becomes
  <2>3. pc # "handshake"
    BY <1>g, <2>1
  <2>4. ASSUME pc = "ack" PROVE Accepted'
    <3>1. CASE inbox = <<"compression", "success">> /\ wire = <<>> /\ todo = <<>> /\ state = "login"
      <4>1. Head(inbox) = "compression" /\ Tail(inbox) = <<"success">>
        BY <3>1
      <4>2. Answer("compression") = <<>> /\ Becomes(state, "compression") = state
        BY AnswerIs DEF Becomes
      <4>3. todo' = <<>>
        <5>1. todo' = <<>> \o <<>>
          BY <2>1, <3>1, <4>1, <4>2
        <5> QED BY <5>1
      <4> QED BY <2>1, <2>2, <3>1, <4>1, <4>2, <4>3 DEF Accepted
    <3>2. CASE inbox = <<"success">> /\ wire = <<>> /\ todo = <<>>
      <4>1. Head(inbox) = "success" /\ Tail(inbox) = <<>>
        BY <3>2
      <4>2. todo' = <<"ack">>
        <5>1. todo' = <<>> \o <<"ack">>
          BY <2>1, <3>2, <4>1, AnswerIs
        <5> QED BY <5>1
      <4> QED BY <2>1, <3>2, <4>1, <4>2 DEF Accepted
    <3> QED BY <1>s, <2>1, <2>4, <3>1, <3>2 DEF Accepted
  <2>5. ASSUME NEW packet, NEW f, Hears(packet, f), Answer(packet) = <<f>> PROVE Hears(packet, f)'
    <3>1. CASE Contains(inbox, packet)
      <4>1. packet = Head(inbox) \/ Contains(Tail(inbox), packet)
        BY <1>t, <2>1, <3>1, ContainsTail
      <4>2. ASSUME packet = Head(inbox) PROVE Contains(todo', f)
        <5>1. Contains(<<f>>, f)
          BY DEF Contains
        <5>2. Answer(packet) \in Seq(Frame)
          BY AnswerIs
        <5> QED BY <1>t, <2>1, <2>5, <4>2, <5>1, <5>2, ContainsConcat
      <4> QED BY <2>1, <4>1, <4>2 DEF Hears
    <3>2. CASE Contains(todo, f)
      <4>1. Answer(Head(inbox)) \in Seq(Frame)
        BY AnswerIs
      <4>2. Contains(todo', f)
        BY <1>t, <2>1, <3>2, <4>1, ContainsConcat
      <4> QED BY <4>2 DEF Hears
    <3>3. CASE Carries(f)
      BY <2>1, <3>3 DEF Hears, Carries
    <3> QED BY <2>5, <3>1, <3>2, <3>3 DEF Hears
  <2>6. Answer("knownPacks") = <<"known">> /\ Answer("finish") = <<"finishAck">>
    BY AnswerIs
  <2> QED BY <1>s, <2>1, <2>3, <2>4, <2>5, <2>6
<1>5. CASE ClientLeaves
  BY <1>5 DEF ClientLeaves
<1> QED BY <1>1, <1>2, <1>3, <1>4, <1>5 DEF Client

-----------------------------------------------------------------------------
(* The three together. *)
LoginInv == LoginTypeOK /\ Agree /\ Straight

LEMMA LoginStart == LoginInit => LoginInv
BY LoginTypesStart, AgreeStart, StraightStart DEF LoginInv

LEMMA LoginStep == LoginInv /\ [LoginNext]_loginVars => LoginInv'
<1>1. LoginInv /\ Worker => LoginInv'
  BY LoginTypesWorker, AgreeWorker, StraightWorker DEF LoginInv
<1>2. LoginInv /\ Client => LoginInv'
  BY LoginTypesClient, AgreeClient, StraightClient DEF LoginInv
<1>3. LoginInv /\ UNCHANGED loginVars => LoginInv'
  <2> SUFFICES ASSUME LoginInv, UNCHANGED loginVars PROVE LoginInv'
    OBVIOUS
  <2>1. UNCHANGED <<pc, wire, inbox, honest, intent, fit, replay, state, todo, extra, gone,
                    confused, spoiled>>
    BY DEF loginVars, choices, clientVars
  <2>2. LoginTypeOK'
    BY <2>1 DEF LoginInv, LoginTypeOK
  <2>3. Agree'
    BY <2>1 DEF LoginInv, Agree, Greets, ReplayEnds
  <2>4. Straight'
    BY <2>1 DEF LoginInv, Straight, Expected, Greeted, Accepted, Hears, Carries
  <2> QED BY <2>2, <2>3, <2>4 DEF LoginInv
<1> QED BY <1>1, <1>2, <1>3 DEF LoginNext

LEMMA LoginFollows == LoginInv => LoginTypeOK /\ StatesAgree /\ RefusedForAReason
BY DEF LoginInv, Agree, StatesAgree, Straight, Expected, RefusedForAReason
=============================================================================
