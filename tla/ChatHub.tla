------------------------------- MODULE ChatHub -------------------------------
(***************************************************************************)
(* The threads of the server and what they share (main.c main,             *)
(* client_worker_thread, handle_client_connection, run_play_state_loop):   *)
(*   the accept loop, with the limit of max_connections;                   *)
(*   one detached worker thread for each client, from login to exit;       *)
(*   the descriptor table of the process, whose numbers are reused;        *)
(*   g_play_chat_sockets, the registry the broadcasts go to;               *)
(*   g_active_connections and g_connected_play_sessions.                   *)
(* A broadcast copies the registry under the lock and sends after          *)
(* unlocking, one blocking send after the other.                           *)
(*                                                                         *)
(* A worker stands for its connection: its slot is reused only after the   *)
(* thread has ended.  The content of lines is left out, and so are the     *)
(* packets that are not broadcast, except the keep-alive, which stands for *)
(* whatever the play loop sends its own client unasked.                    *)
(***************************************************************************)
EXTENDS Integers, Sequences, FiniteSets, SequencesExt

CONSTANTS
    Worker,         \* thread slots
    Fd,             \* descriptors accept can return
    Main,           \* the accept loop, as the owner of a descriptor
    Nobody,         \* no owner, no descriptor
    MaxConnections, \* config max_connections
    MaxChatSockets, \* MAX_PLAY_CHAT_SOCKETS (128)
    Platforms,      \* "windows": faults end one worker; "posix": SIGPIPE ends all
    IdleTimeout,    \* config play_idle_timeout_seconds > 0
    Stalls,         \* a client may stop reading and keep its connection
    MaxFaults       \* bound: how many workers may end in __except

ASSUME NamesDistinct == Main \notin Worker /\ Nobody \notin Worker \cup Fd /\ Main # Nobody
ASSUME LimitsAssumption == {MaxConnections, MaxChatSockets, MaxFaults} \subseteq Nat /\ MaxConnections > 0
ASSUME ChoicesAssumption ==
    Platforms \subseteq {"windows", "posix"} /\ {IdleTimeout, Stalls} \subseteq BOOLEAN

VARIABLES
    platform, up,           \* the build, and whether the process is alive
    mainPc, mainFd, active, \* accept loop, its descriptor, g_active_connections
    owner,                  \* Fd -> the connection behind the descriptor
    pc, fd, client,         \* worker: its step, its socket, what its client does
    chat, playing,          \* g_play_chat_sockets, g_connected_play_sessions
    targets,                \* what a broadcast has still to send to
    due, got, fresh,        \* history: see NobodySkipped and StraysAreNew
    faults                  \* history: how many workers ended in __except

world == <<platform, up>>
accept == <<mainPc, mainFd, active>>
lines == <<targets, due, got, fresh>>
vars == <<world, accept, owner, pc, fd, client, chat, playing, lines, faults>>

Alive == {w \in Worker : pc[w] # "none"}
Sending == {"joining", "chatting", "leaving"}
InPlay == {"register", "join", "play", "ping", "chat", "leave", "unregister", "uncount"} \cup Sending
Listed == {"join", "play", "ping", "chat", "leave", "unregister"} \cup Sending

-----------------------------------------------------------------------------
(* The registry.                                                           *)

(* register_play_chat_socket: a descriptor already there is given the new  *)
(* name; beyond the 128 slots the session is silently left out.            *)
Known(f) == \E i \in DOMAIN chat : chat[i].fd = f
Slot(f) == CHOOSE i \in DOMAIN chat : chat[i].fd = f      \* there is one at most
Renamed(w) == [chat EXCEPT ![Slot(fd[w])] = [fd |-> fd[w], name |-> w]]
RegisterUnbounded(w) ==                                  \* mutant: capacity not checked
    chat' = IF Known(fd[w]) THEN Renamed(w) ELSE Append(chat, [fd |-> fd[w], name |-> w])
RegisterAgain(w) ==                                      \* mutant: no search first
    chat' = IF Len(chat) < MaxChatSockets
            THEN Append(chat, [fd |-> fd[w], name |-> w]) ELSE chat
Register(w) ==
    chat' = IF Known(fd[w]) THEN Renamed(w)
            ELSE IF Len(chat) < MaxChatSockets
                 THEN Append(chat, [fd |-> fd[w], name |-> w])
                 ELSE chat

(* unregister_play_chat_socket: memmove closes the gap.                    *)
Unregister(w) == chat' = IF Known(fd[w]) THEN RemoveAt(chat, Slot(fd[w])) ELSE chat

Fds(registered) == [i \in DOMAIN registered |-> registered[i].fd]
Stray(e) == ~(owner[e.fd] = e.name /\ pc[e.name] \in Listed)
Members == {chat[i].name : i \in {j \in DOMAIN chat : ~Stray(chat[j])}}

-----------------------------------------------------------------------------
Init ==
    /\ platform \in Platforms /\ up = TRUE
    /\ mainPc = "accept" /\ mainFd = Nobody /\ active = 0
    /\ owner = [f \in Fd |-> Nobody]
    /\ pc = [w \in Worker |-> "none"] /\ fd = [w \in Worker |-> Nobody]
    /\ client = [w \in Worker |-> "here"]
    /\ chat = <<>> /\ playing = 0
    /\ targets = [w \in Worker |-> <<>>]
    /\ due = [w \in Worker |-> {}] /\ got = due /\ fresh = due
    /\ faults = 0

-----------------------------------------------------------------------------
(* The accept loop.                                                        *)

Accept ==
    /\ up /\ mainPc = "accept"
    /\ \E f \in Fd : /\ owner[f] = Nobody
                     /\ mainFd' = f
                     /\ owner' = [owner EXCEPT ![f] = Main]
    /\ mainPc' = "check"
    /\ UNCHANGED <<world, active, pc, fd, client, chat, playing, lines, faults>>

CloseMainFd ==
    /\ owner' = [owner EXCEPT ![mainFd] = Nobody]
    /\ mainFd' = Nobody /\ mainPc' = "accept"

Reject ==
    /\ up /\ mainPc = "check" /\ active >= MaxConnections
    /\ CloseMainFd
    /\ UNCHANGED <<world, active, pc, fd, client, chat, playing, lines, faults>>

(* There is room, but malloc of the session fails. *)
AllocFails ==
    /\ up /\ mainPc = "check" /\ active < MaxConnections
    /\ CloseMainFd
    /\ UNCHANGED <<world, active, pc, fd, client, chat, playing, lines, faults>>

(* There is room: counted in before the thread starts.  This loop is the   *)
(* only one that counts up, so reading and incrementing may be one step.   *)
AdmitOneMore ==                                          \* mutant: > for >=
    /\ up /\ mainPc = "check" /\ active <= MaxConnections
    /\ active' = active + 1
    /\ mainPc' = "counted"
    /\ UNCHANGED <<world, mainFd, owner, pc, fd, client, chat, playing, lines, faults>>
Admit ==
    /\ up /\ mainPc = "check" /\ active < MaxConnections
    /\ active' = active + 1
    /\ mainPc' = "counted"
    /\ UNCHANGED <<world, mainFd, owner, pc, fd, client, chat, playing, lines, faults>>

(* pthread_create / CreateThread: from here on the worker owns the socket. *)
StartThread ==
    /\ up /\ mainPc = "counted"
    /\ \E w \in Worker \ Alive :
         /\ pc' = [pc EXCEPT ![w] = "login"]
         /\ fd' = [fd EXCEPT ![w] = mainFd]
         /\ owner' = [owner EXCEPT ![mainFd] = w]
         /\ client' = [client EXCEPT ![w] = "here"]
         /\ fresh' = [v \in Worker |-> IF pc[v] \in Sending THEN fresh[v] \cup {w} ELSE fresh[v]]
    /\ mainPc' = "accept" /\ mainFd' = Nobody
    /\ UNCHANGED <<world, active, chat, playing, targets, due, got, faults>>

ThreadFails ==
    /\ up /\ mainPc = "counted"
    /\ CloseMainFd
    /\ active' = active - 1
    /\ UNCHANGED <<world, pc, fd, client, chat, playing, lines, faults>>

-----------------------------------------------------------------------------
(* A worker, from login to the end of its thread.                          *)

Goto(w, step) == pc' = [pc EXCEPT ![w] = step]

(* Status pings, bad packets, timeouts and disconnects before play: every  *)
(* early return of handle_client_connection closes the socket.             *)
LoginEnds(w) ==
    /\ up /\ pc[w] = "login"
    /\ Goto(w, "close")
    /\ UNCHANGED <<world, accept, owner, fd, client, chat, playing, lines, faults>>

(* The first lines of run_play_state_loop.  That the first player becomes  *)
(* moderator, announced by one more broadcast, is left to Moderation.      *)
EnterPlay(w) ==
    /\ up /\ pc[w] = "login"
    /\ playing' = playing + 1
    /\ Goto(w, "register")
    /\ UNCHANGED <<world, accept, owner, fd, client, chat, lines, faults>>

RegisterSocket(w) ==
    /\ up /\ pc[w] = "register"
    /\ Register(w)
    /\ Goto(w, "join")
    /\ UNCHANGED <<world, accept, owner, fd, client, playing, lines, faults>>

(* broadcast_system_chat_message: the copy of the registry under the lock, *)
(* for [JOIN], a chat line or [LEAVE].                                     *)
Snapshot(w) ==
    /\ up
    /\ \/ pc[w] = "join" /\ Goto(w, "joining")
       \/ pc[w] = "chat" /\ Goto(w, "chatting")
       \/ pc[w] = "leave" /\ Goto(w, "leaving")
    /\ targets' = [targets EXCEPT ![w] = Fds(chat)]
    /\ due' = [due EXCEPT ![w] = Members]
    /\ got' = [got EXCEPT ![w] = {}]
    /\ fresh' = [fresh EXCEPT ![w] = {}]
    /\ UNCHANGED <<world, accept, owner, fd, client, chat, playing, faults>>

(* What a blocking send on descriptor f does: to a client that reads it    *)
(* delivers; to one that has gone, or on a closed descriptor, it fails; to *)
(* one that does not read it does not return.  A send that fails leaves    *)
(* its own errno to the thread, so that the thread's next recv of 0 is     *)
(* taken for what it is.                                                   *)
Gone == {"gone", "unnoticed"}
CanSend(f) == owner[f] \in Worker => client[owner[f]] # "stalled"
Delivers(f) == owner[f] \in Worker /\ client[owner[f]] = "here"
SendFails(f) == owner[f] = Nobody \/ (owner[f] \in Worker /\ client[owner[f]] \in Gone)
NoticeNothing(w, f) == client' = client                  \* mutant: errno put back after a send
Notice(w, f) ==
    client' = IF SendFails(f) /\ client[w] = "unnoticed"
              THEN [client EXCEPT ![w] = "gone"] ELSE client

SendLineOrStop(w) ==                                     \* mutant: stops at a failed send
    /\ up /\ pc[w] \in Sending /\ targets[w] # <<>>
    /\ LET f == Head(targets[w])
       IN  /\ CanSend(f)
           /\ got' = IF Delivers(f) THEN [got EXCEPT ![w] = @ \cup {owner[f]}] ELSE got
           /\ Notice(w, f)
    /\ targets' = [targets EXCEPT ![w] = IF SendFails(Head(@)) THEN <<>> ELSE Tail(@)]
    /\ UNCHANGED <<world, accept, owner, pc, fd, chat, playing, due, fresh, faults>>
SendLine(w) ==
    /\ up /\ pc[w] \in Sending /\ targets[w] # <<>>
    /\ LET f == Head(targets[w])
       IN  /\ CanSend(f)
           /\ got' = IF Delivers(f) THEN [got EXCEPT ![w] = @ \cup {owner[f]}] ELSE got
           /\ Notice(w, f)
    /\ targets' = [targets EXCEPT ![w] = Tail(@)]
    /\ UNCHANGED <<world, accept, owner, pc, fd, chat, playing, due, fresh, faults>>

LineSent(w) ==
    /\ up /\ targets[w] = <<>>
    /\ \/ pc[w] \in {"joining", "chatting"} /\ Goto(w, "play")
       \/ pc[w] = "leaving" /\ Goto(w, "unregister")
    /\ due' = [due EXCEPT ![w] = {}]
    /\ got' = [got EXCEPT ![w] = {}]
    /\ fresh' = [fresh EXCEPT ![w] = {}]
    /\ UNCHANGED <<world, accept, owner, fd, client, chat, playing, targets, faults>>

-----------------------------------------------------------------------------
(* A pass of the play loop.                                                *)

KeepAliveDue(w) ==
    /\ up /\ pc[w] = "play"
    /\ Goto(w, "ping")
    /\ UNCHANGED <<world, accept, owner, fd, client, chat, playing, lines, faults>>

SendKeepAlive(w) ==
    /\ up /\ pc[w] = "ping" /\ CanSend(fd[w])
    /\ Notice(w, fd[w])
    /\ Goto(w, "play")
    /\ UNCHANGED <<world, accept, owner, fd, chat, playing, lines, faults>>

(* The client has sent nothing for play_idle_timeout_seconds. *)
IdleOut(w) ==
    /\ up /\ pc[w] = "play" /\ IdleTimeout
    /\ Goto(w, "leave")
    /\ UNCHANGED <<world, accept, owner, fd, client, chat, playing, lines, faults>>

RecvLine(w) ==
    /\ up /\ pc[w] = "play" /\ client[w] = "here"
    /\ Goto(w, "chat")
    /\ UNCHANGED <<world, accept, owner, fd, client, chat, playing, lines, faults>>

(* recv returns 0: the session ends, unless errno still says EAGAIN from   *)
(* an earlier timeout ("unnoticed"): that is taken for another timeout.    *)
RecvEnd(w) ==
    /\ up /\ pc[w] = "play" /\ client[w] = "gone"
    /\ Goto(w, "leave")
    /\ UNCHANGED <<world, accept, owner, fd, client, chat, playing, lines, faults>>

-----------------------------------------------------------------------------
(* The end of a session: unregister, count down, close, end the thread.    *)

UnregisterSocketLate(w) ==                               \* mutant: left for after the close
    /\ up /\ pc[w] = "unregister"
    /\ Goto(w, "uncount")
    /\ UNCHANGED <<world, accept, owner, fd, client, chat, playing, lines, faults>>
UnregisterSocket(w) ==
    /\ up /\ pc[w] = "unregister"
    /\ Unregister(w)
    /\ Goto(w, "uncount")
    /\ UNCHANGED <<world, accept, owner, fd, client, playing, lines, faults>>

LeavePlayUncounted(w) ==                                 \* mutant: the decrement is missing
    /\ up /\ pc[w] = "uncount"
    /\ Goto(w, "close")
    /\ UNCHANGED <<world, accept, owner, fd, client, chat, playing, lines, faults>>
LeavePlay(w) ==
    /\ up /\ pc[w] = "uncount"
    /\ playing' = playing - 1
    /\ Goto(w, "close")
    /\ UNCHANGED <<world, accept, owner, fd, client, chat, lines, faults>>

(* close: whoever still holds the number now writes to a stranger.  The    *)
(* histories forget the connection.                                        *)
Close(w) ==
    /\ owner' = [owner EXCEPT ![fd[w]] = Nobody]
    /\ fd' = [fd EXCEPT ![w] = Nobody]
    /\ Goto(w, "exit")
    /\ targets' = [targets EXCEPT ![w] = <<>>]
    /\ due' = [v \in Worker |-> IF v = w THEN {} ELSE due[v] \ {w}]
    /\ got' = [v \in Worker |-> IF v = w THEN {} ELSE got[v] \ {w}]
    /\ fresh' = [v \in Worker |-> IF v = w THEN {} ELSE fresh[v] \ {w}]

CloseSocket(w) ==
    /\ up /\ pc[w] = "close"
    /\ Close(w)
    /\ UNCHANGED <<world, accept, client, chat, playing, faults>>

(* A Windows structured exception: __except closes the socket and nothing  *)
(* else of the session is undone.                                          *)
Fault(w) ==
    /\ up /\ platform = "windows" /\ faults < MaxFaults
    /\ pc[w] \in {"login"} \cup InPlay
    /\ Close(w)
    /\ faults' = faults + 1
    /\ UNCHANGED <<world, accept, client, chat, playing>>

EndThread(w) ==
    /\ up /\ pc[w] = "exit"
    /\ active' = active - 1
    /\ Goto(w, "none")
    /\ UNCHANGED <<world, mainPc, mainFd, owner, fd, client, chat, playing, lines, faults>>

(* On POSIX a send to a connection its client has closed may also raise    *)
(* SIGPIPE, which is left at its default action: the process ends.         *)
SigPipe(w) ==
    /\ up /\ platform = "posix"
    /\ \/ pc[w] = "ping" /\ client[w] \in Gone
       \/ /\ pc[w] \in Sending /\ targets[w] # <<>>
          /\ owner[Head(targets[w])] \in Worker
          /\ client[owner[Head(targets[w])]] \in Gone
    /\ up' = FALSE
    /\ UNCHANGED <<platform, accept, owner, pc, fd, client, chat, playing, lines, faults>>

-----------------------------------------------------------------------------
(* The clients.                                                            *)

ClientGoes(w) ==
    /\ up /\ w \in Alive /\ client[w] \notin Gone
    /\ \E how \in Gone : client' = [client EXCEPT ![w] = how]
    /\ UNCHANGED <<world, accept, owner, pc, fd, chat, playing, lines, faults>>

ClientStalls(w) ==
    /\ up /\ Stalls /\ w \in Alive /\ client[w] = "here"
    /\ client' = [client EXCEPT ![w] = "stalled"]
    /\ UNCHANGED <<world, accept, owner, pc, fd, chat, playing, lines, faults>>

Down == ~up /\ UNCHANGED vars

-----------------------------------------------------------------------------
AcceptLoop == Accept \/ Reject \/ AllocFails \/ Admit \/ StartThread \/ ThreadFails
Broadcast(w) == Snapshot(w) \/ SendLine(w) \/ LineSent(w)
Ending(w) == UnregisterSocket(w) \/ LeavePlay(w) \/ CloseSocket(w) \/ EndThread(w)

(* What the thread does by itself once it is scheduled. *)
Advance(w) ==
    \/ EnterPlay(w) \/ RegisterSocket(w) \/ Broadcast(w) \/ SendKeepAlive(w) \/ Ending(w)

Next ==
    \/ AcceptLoop
    \/ \E w \in Worker :
         \/ Advance(w) \/ LoginEnds(w)
         \/ KeepAliveDue(w) \/ IdleOut(w) \/ RecvLine(w) \/ RecvEnd(w)
         \/ Fault(w) \/ SigPipe(w)
         \/ ClientGoes(w) \/ ClientStalls(w)
    \/ Down

Spec == Init /\ [][Next]_vars

(* Threads are scheduled fairly: a step that stays possible is taken.  The *)
(* keep-alive and the idle timeout are driven by the clock, and recv does  *)
(* report the end of a connection.  Every login ends by itself only if the *)
(* client answers or a receive timeout is set, so its end is not fair.     *)
FairSpec ==
    /\ Spec
    /\ \A w \in Worker :
         /\ WF_vars(Advance(w))
         /\ SF_vars(KeepAliveDue(w)) /\ SF_vars(IdleOut(w)) /\ SF_vars(RecvEnd(w))

-----------------------------------------------------------------------------
(* Properties.                                                             *)

Steps == {"none", "login", "close", "exit"} \cup InPlay

TypeOK ==
    /\ platform \in Platforms /\ up \in BOOLEAN
    /\ mainPc \in {"accept", "check", "counted"}
    /\ mainFd \in Fd \cup {Nobody}
    /\ active \in Nat /\ playing \in Nat
    /\ owner \in [Fd -> Worker \cup {Main, Nobody}]
    /\ pc \in [Worker -> Steps] /\ fd \in [Worker -> Fd \cup {Nobody}]
    /\ client \in [Worker -> {"here", "stalled"} \cup Gone]
    /\ chat \in Seq([fd : Fd, name : Worker]) /\ Len(chat) <= MaxChatSockets
    /\ targets \in [Worker -> Seq(Fd)]
    /\ {due, got, fresh} \subseteq [Worker -> SUBSET Worker]
    /\ faults \in 0..MaxFaults

(* The counter the limit is checked against is exactly the number of live  *)
(* threads plus the one main is starting, whatever the order in which      *)
(* threads are counted in by main and counted out by themselves; so no     *)
(* more than max_connections threads ever run.                             *)
ConnectionLimit ==
    /\ active = Cardinality(Alive) + (IF mainPc = "counted" THEN 1 ELSE 0)
    /\ active <= MaxConnections

(* Every descriptor in the chat registry is open and is the socket of a    *)
(* session in play that registered under its own name, except for one      *)
(* entry at most for every worker that has ended in __except; and none is  *)
(* there twice, even after faults, or one client would see lines double.   *)
RegisteredAreInPlay ==
    /\ Cardinality({i \in DOMAIN chat : Stray(chat[i])}) <= faults
    /\ \A i, j \in DOMAIN chat : chat[i].fd = chat[j].fd => i = j

(* The number of players the status response shows (online_players_mode    *)
(* connected) is the number of sessions in play; each worker that ended in *)
(* __except while in play is counted for ever.                             *)
OnlineCount == playing - Cardinality({w \in Worker : pc[w] \in InPlay}) \in 0..faults

(* A broadcast reaches every session that was registered when it began and *)
(* is still connected and reading when it ends, although sessions leave    *)
(* and the registry is compacted while it runs.                            *)
NobodySkipped ==
    \A w \in Worker : pc[w] \in Sending /\ targets[w] = <<>> =>
        \A v \in due[w] : client[v] = "here" => v \in got[w]

(* A line that reaches a connection it was not meant for (the descriptor   *)
(* was closed and reused after the copy) reaches only connections accepted *)
(* after the broadcast began.                                              *)
StraysAreNew == faults = 0 => \A w \in Worker : got[w] \ due[w] \subseteq fresh[w]

(* The worker is inside a send to a client that does not read. *)
Held(w) ==
    \/ pc[w] = "ping" /\ ~CanSend(fd[w])
    \/ pc[w] \in Sending /\ targets[w] # <<>> /\ ~CanSend(Head(targets[w]))

(* Every session whose client has closed the connection ends, in spite of  *)
(* the errno the loop misreads, unless its worker is held again and again, *)
(* or for ever, by clients that keep a connection and do not read.         *)
LeaverEnds ==
    \A w \in Worker :
        <>[]~Held(w) => (pc[w] \in InPlay /\ client[w] \in Gone ~> pc[w] = "none" \/ ~up)
=============================================================================
