-------------------------------- MODULE Login --------------------------------
(***************************************************************************)
(* A connection before play (main.c handle_client_connection): handshake,  *)
(* then either the status exchange or login and configuration.             *)
(*                                                                         *)
(* TCP is a stream and the server reads it as if it were datagrams: what   *)
(* one recv returns is taken for one frame that begins at its first byte.  *)
(* Here a frame is sent as two halves, and a recv returns any number of    *)
(* the halves that are under way: half a frame, one, or several at once.   *)
(* Halves that follow the first frame of a recv are lost; a recv that      *)
(* begins in the middle of a frame may be read as any packet or as none.   *)
(*                                                                         *)
(* The client keeps to the protocol (honest) or sends what it likes.       *)
(* Packet contents are left out, except what is decided from them.         *)
(***************************************************************************)
EXTENDS Integers, Sequences, FiniteSets, SequencesExt

CONSTANTS
    ReplayPlaces,   \* what the places of a replay file may hold: sequences of files
    Fits,           \* login starts: "fits", "version" (refused), "name" (too long)
    MaxExtra,       \* bound: frames the client sends without being asked
    MaxWild         \* bound: frames of a client that is not honest

ASSUME ReplayAssumption ==
    ReplayPlaces \subseteq Seq(Seq({"data", "knownPacks", "finish", "blank", "wrong"}))
ASSUME FitsAssumption == Fits \subseteq {"fits", "version", "name"}
ASSUME BoundsAssumption == {MaxExtra, MaxWild} \subseteq Nat

VARIABLES
    pc,             \* which recv the worker is at, "play" or "closed"
    wire,           \* halves on their way to the server
    inbox,          \* packets on their way to the client
    honest, intent, \* the client: does it keep to the protocol, and what it came for
    fit, replay,    \* its login start, and the server's replay, <<>> if it has none
    state,          \* the protocol state the client is in
    todo,           \* frames it owes the server
    extra, gone,    \* frames it sent unasked, and whether it closed the connection
    confused,       \* history: a packet reached it in a state that does not know it
    spoiled         \* history: why a client may be refused

choices == <<honest, intent, fit, replay>>
clientVars == <<state, todo, extra, gone, confused>>
loginVars == <<pc, wire, inbox, choices, clientVars, spoiled>>

-----------------------------------------------------------------------------
(* Frames and packets.                                                     *)

Frame == {"handshake", "start", "request", "ping", "ack", "known", "finishAck", "info"}

(* The packet ids the server tells apart; in several states one id means   *)
(* several things.                                                         *)
Id(f) == CASE f \in {"handshake", "start", "request", "info"} -> 0
           [] f = "ping" -> 1
           [] f \in {"ack", "finishAck"} -> 3
           [] f = "known" -> 7
Unparsable == -1
AnyId == {Id(f) : f \in Frame} \cup {Unparsable}

Halves(f) == <<[frame |-> f, half |-> 1], [frame |-> f, half |-> 2]>>
BeginsWhole(p) == Len(p) >= 2 /\ p[1].half = 1

(* read_post_compression_packet_id: the first frame, which has to be there *)
(* whole; what is left of a frame read before decodes to anything.         *)
IdsOf(p) ==
    IF p[1].half = 2 THEN AnyId
    ELSE IF BeginsWhole(p) THEN {Id(p[1].frame)} ELSE {Unparsable}

(* History of one recv that returned p and used the first n halves of it:  *)
(* a frame was cut, or frames the client will not send again were lost.    *)
Spoils(p, n) ==
    (IF Last(p).half = 1 \/ p[1].half = 2 THEN {"cut"} ELSE {}) \cup
    (IF \E i \in n + 1..Len(p) : p[i].frame # "info" THEN {"swallowed"} ELSE {})

(* What each state of the protocol knows. *)
Knows(s, packet) ==
    packet \in CASE s = "status" -> {"response", "pong"}
                 [] s = "login"  -> {"compression", "success", "disconnect"}
                 [] s = "config" -> {"knownPacks", "data", "finish"}
                 [] s = "play"   -> {"play"}

-----------------------------------------------------------------------------
(* The configuration packets an administrator recorded: a packet for each  *)
(* line but blanks and comments.  A file with a wrong line, or without any *)
(* packet, is passed over like one that is not there.                      *)
Recorded(file) ==
    LET taken[i \in 0..Len(file)] ==
            IF i = 0 THEN <<>>
            ELSE IF file[i] = "blank" THEN taken[i - 1] ELSE Append(taken[i - 1], file[i])
    IN  taken[Len(file)]
Loads(file) == ~Contains(file, "wrong") /\ Recorded(file) # <<>>
FirstReplay(places) ==
    LET good == {i \in DOMAIN places : Loads(places[i])}
    IN  IF good = {} THEN <<>> ELSE Recorded(places[CHOOSE i \in good : \A j \in good : i <= j])
Replays == {FirstReplay(places) : places \in ReplayPlaces}

-----------------------------------------------------------------------------
LoginInit ==
    /\ pc = "handshake" /\ wire = <<>> /\ inbox = <<>>
    /\ honest \in BOOLEAN /\ intent \in {"login", "status"}
    /\ fit \in Fits /\ replay \in Replays
    /\ state = intent
    /\ todo = <<"handshake", IF intent = "login" THEN "start" ELSE "request">>
    /\ extra = 0 /\ gone = FALSE
    /\ confused = FALSE /\ spoiled = {}

-----------------------------------------------------------------------------
(* The client.                                                             *)

Put(f) == wire' = wire \o Halves(f)

ClientSends ==
    /\ honest /\ ~gone /\ todo # <<>>
    /\ Put(Head(todo)) /\ todo' = Tail(todo)
    /\ UNCHANGED <<pc, inbox, choices, state, extra, gone, confused, spoiled>>

(* Client information, plugin messages: whenever the client likes, once it *)
(* has acknowledged the login.                                             *)
ClientExtra ==
    /\ honest /\ ~gone /\ extra < MaxExtra
    /\ state = "config" /\ ~Contains(todo, "ack")
    /\ Put("info") /\ extra' = extra + 1
    /\ UNCHANGED <<pc, inbox, choices, state, todo, gone, confused, spoiled>>

ClientWild ==
    /\ ~honest /\ ~gone /\ extra < MaxWild
    /\ \E f \in Frame : Put(f)
    /\ extra' = extra + 1
    /\ UNCHANGED <<pc, inbox, choices, state, todo, gone, confused, spoiled>>

Answer(packet) ==
    CASE packet = "success"    -> <<"ack">>
      [] packet = "knownPacks" -> <<"known">>
      [] packet = "finish"     -> <<"finishAck">>
      [] packet = "response"   -> <<"ping">>
      [] OTHER                 -> <<>>

ClientReads ==
    /\ honest /\ ~gone /\ inbox # <<>>
    /\ LET packet == Head(inbox)
       IN  /\ confused' = (confused \/ ~Knows(state, packet))
           /\ todo' = todo \o Answer(packet)
           /\ state' = CASE packet = "success" -> "config"
                         [] packet = "finish"  -> "play"
                         [] OTHER              -> state
    /\ inbox' = Tail(inbox)
    /\ UNCHANGED <<pc, wire, choices, extra, gone, spoiled>>

ClientLeaves ==
    /\ ~gone /\ gone' = TRUE
    /\ inbox' = <<>> /\ todo' = <<>>
    /\ spoiled' = spoiled \cup {"left"}
    /\ UNCHANGED <<pc, wire, choices, state, extra, confused>>

-----------------------------------------------------------------------------
(* The server: what one recv returned.                                     *)

Arrivals == Prefixes(wire) \ {<<>>}

Take(p) == wire' = SubSeq(wire, Len(p) + 1, Len(wire))
Send(packets) == inbox' = IF honest /\ ~gone THEN inbox \o packets ELSE inbox
Stay == UNCHANGED <<choices, clientVars>>

(* parse_handshake_next_state: the length of the frame is compared with    *)
(* what is left after the packet id has been read, so that the frame only  *)
(* passes if something follows it.  Frames of other kinds have fields that *)
(* may say anything.                                                       *)
HandshakePasses(p) == Len(p) >= 3 /\ Id(p[1].frame) = 0
NextState(p) ==
    IF ~HandshakePasses(p) THEN {"refused"}
    ELSE IF p[1].frame = "handshake" THEN {intent} ELSE {"login", "status", "refused"}

(* The login start is taken from what the same recv returned after the     *)
(* handshake: since something does follow, it is never received by itself. *)
StartOf(p) == SubSeq(p, 3, Len(p))
StartPasses(s) == BeginsWhole(s) /\ Id(s[1].frame) = 0
StartRefused(s) == ~StartPasses(s) \/ s[1].frame # "start"

RecvHandshakeRefused ==
    /\ pc = "handshake"
    /\ \E p \in Arrivals :
         /\ \/ "refused" \in NextState(p)
            \/ "login" \in NextState(p) /\ StartRefused(StartOf(p))
         /\ Take(p)
         /\ spoiled' = spoiled \cup Spoils(p, 2)
                         \cup (IF Len(p) = 2 THEN {"alone"} ELSE {})
    /\ pc' = "closed"
    /\ Stay /\ UNCHANGED inbox

RecvHandshakeForStatus ==
    /\ pc = "handshake"
    /\ \E p \in Arrivals : /\ "status" \in NextState(p)
                           /\ Take(p)
                           /\ spoiled' = spoiled \cup Spoils(p, 2)
    /\ pc' = "status"
    /\ Stay /\ UNCHANGED inbox

(* Set Compression goes out before the length of the name is looked at. *)
RecvLoginStart ==
    /\ pc = "handshake"
    /\ \E p \in Arrivals :
         /\ "login" \in NextState(p) /\ StartPasses(StartOf(p))
         /\ Take(p)
         /\ spoiled' = spoiled \cup Spoils(p, 4) \cup ({fit} \ {"fits"})
    /\ \/ fit = "version" /\ Send(<<"disconnect">>) /\ pc' = "closed"
       \/ fit = "name" /\ Send(<<"compression">>) /\ pc' = "closed"
       \/ fit = "fits" /\ Send(<<"compression", "success">>) /\ pc' = "ack"
    /\ Stay

-----------------------------------------------------------------------------
(* handle_status_state: two recv calls without a timeout; the first packet *)
(* is answered if it is a request, whatever comes next is echoed.          *)

RecvRequest ==
    /\ pc = "status"
    /\ \E p \in Arrivals :
         /\ \E id \in IdsOf(p) : Send(IF id = 0 THEN <<"response">> ELSE <<>>)
         /\ Take(p)
         /\ spoiled' = spoiled \cup Spoils(p, 2)
    /\ pc' = "ping"
    /\ Stay

RecvPing ==
    /\ pc = "ping"
    /\ \E p \in Arrivals : Take(p) /\ spoiled' = spoiled \cup Spoils(p, 2)
    /\ Send(<<"pong">>)
    /\ pc' = "closed"
    /\ Stay

-----------------------------------------------------------------------------
(* Login and configuration.  One recv for the acknowledgement, ...         *)

RecvAck ==
    /\ pc = "ack"
    /\ \E p \in Arrivals :
         /\ Take(p)
         /\ \E id \in IdsOf(p) :
              \/ id = 3 /\ Send(<<"knownPacks">>) /\ pc' = "packs"
                        /\ spoiled' = spoiled \cup Spoils(p, 2)
              \/ id = 3 /\ Send(<<>>) /\ pc' = "closed"          \* malloc fails
                        /\ spoiled' = spoiled \cup {"memory"}
              \/ id # 3 /\ Send(<<>>) /\ pc' = "closed"
                        /\ spoiled' = spoiled \cup Spoils(p, 2)
    /\ Stay

(* ... then a loop that waits for the client's known packs, ...            *)
BuiltIn == <<"data", "finish">>
ConfigurationFinishes ==                                 \* mutant: a finish of its own after any replay
    IF replay = <<>> THEN <<"data", "finish">> ELSE Append(replay, "finish")
Configuration ==
    IF replay = <<>> THEN BuiltIn
    ELSE IF Contains(replay, "finish") THEN replay ELSE Append(replay, "finish")

RecvPacksOrElse ==                                       \* mutant: any other packet ends the login
    /\ pc = "packs"
    /\ \E p \in Arrivals :
         /\ Take(p)
         /\ spoiled' = spoiled \cup Spoils(p, 2)
         /\ \E id \in IdsOf(p) :
              \/ id = 7 /\ Send(Configuration) /\ pc' = "finish"
              \/ id # 7 /\ Send(<<>>) /\ pc' = "closed"
    /\ Stay
RecvPacks ==
    /\ pc = "packs"
    /\ \E p \in Arrivals :
         /\ Take(p)
         /\ spoiled' = spoiled \cup Spoils(p, 2)
         /\ \E id \in IdsOf(p) :
              \/ id = 7 /\ Send(Configuration) /\ pc' = "finish"
              \/ id # 7 /\ Send(<<>>) /\ pc' = pc
    /\ Stay

(* ... and one that waits for it to acknowledge the end; then play begins  *)
(* with everything handle_client_connection and run_play_state_loop send.  *)
RecvFinishAck ==
    /\ pc = "finish"
    /\ \E p \in Arrivals :
         /\ Take(p)
         /\ spoiled' = spoiled \cup Spoils(p, 2)
         /\ \E id \in IdsOf(p) :
              \/ id = 3 /\ Send(<<"play">>) /\ pc' = "play"
              \/ id # 3 /\ Send(<<>>) /\ pc' = pc
    /\ Stay

-----------------------------------------------------------------------------
(* Five seconds without a byte: SO_RCVTIMEO is set once the handshake has  *)
(* asked for login.  It counts from the last recv, whatever that brought.  *)
Timed == {"ack", "packs", "finish"}

TimeoutAckOnly ==                                        \* mutant: the loops retry
    /\ pc = "ack" /\ wire = <<>> /\ ~gone
    /\ pc' = "closed"
    /\ spoiled' = spoiled \cup (IF todo # <<>> \/ inbox # <<>> THEN {"late"} ELSE {})
    /\ UNCHANGED <<wire, inbox, choices, clientVars>>
Timeout ==
    /\ pc \in Timed /\ wire = <<>> /\ ~gone
    /\ pc' = "closed"
    /\ spoiled' = spoiled \cup (IF todo # <<>> \/ inbox # <<>> THEN {"late"} ELSE {})
    /\ UNCHANGED <<wire, inbox, choices, clientVars>>

(* recv returns 0. *)
RecvEnd ==
    /\ pc \in Timed \cup {"handshake", "status", "ping"} /\ wire = <<>> /\ gone
    /\ pc' = "closed"
    /\ UNCHANGED <<wire, inbox, choices, clientVars, spoiled>>

-----------------------------------------------------------------------------
Client == ClientSends \/ ClientExtra \/ ClientWild \/ ClientReads \/ ClientLeaves
Worker ==
    \/ RecvHandshakeRefused \/ RecvHandshakeForStatus \/ RecvLoginStart
    \/ RecvRequest \/ RecvPing
    \/ RecvAck \/ RecvPacks \/ RecvFinishAck
    \/ Timeout \/ RecvEnd

LoginNext == Worker \/ Client

-----------------------------------------------------------------------------
(* Properties.                                                             *)

LoginTypeOK ==
    /\ pc \in Timed \cup {"handshake", "status", "ping", "play", "closed"}
    /\ wire \in Seq([frame : Frame, half : 1..2])
    /\ inbox \in Seq({"response", "pong", "compression", "success", "disconnect",
                      "knownPacks", "data", "finish", "play"})
    /\ {honest, gone, confused} \subseteq BOOLEAN
    /\ intent \in {"login", "status"} /\ fit \in Fits /\ replay \in Replays
    /\ state \in {"login", "status", "config", "play"}
    /\ todo \in Seq(Frame) /\ extra \in Nat

(* A client that keeps to the protocol is turned away for a known reason   *)
(* only: its name or version, memory, an answer after the five seconds, or *)
(* what recv does to frames that do not come one by one.  No packet it may *)
(* send unasked, and no order of its packets and the server's, is one.     *)
RefusedForAReason ==
    pc = "closed" /\ honest /\ intent = "login" => spoiled # {}

(* Each packet finds the client in a state that knows it, so the server    *)
(* changes state when the client does, also when recv has read half a      *)
(* frame as another, unless a replay goes on after its own finish.         *)
ReplayEnds == \A i \in DOMAIN replay : replay[i] = "finish" => i = Len(replay)
StatesAgree == confused => ~ReplayEnds

(* From the handshake on a silent client does not hold a worker: login and *)
(* configuration end, in play or closed.                                   *)
LoginEnds == pc \in Timed ~> pc \in {"play", "closed"}

-----------------------------------------------------------------------------
(* main.c:5860 "Login Start packet may already be in buffer (if client     *)
(* sent handshake+login together)", and else it is received by itself: a   *)
(* client whose frames arrive whole, one by one and in time is let in.     *)
OneByOneServed == honest /\ intent = "login" /\ pc = "closed" => spoiled \ {"alone"} # {}
=============================================================================
