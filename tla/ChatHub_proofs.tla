--------------------------- MODULE ChatHub_proofs ---------------------------
(***************************************************************************)
(* Proofs about ChatHub, for any number of threads and descriptors, in     *)
(* both builds, with faults and with clients that do not read.             *)
(*                                                                         *)
(* The counters are exact because only main counts in and only a thread    *)
(* counts itself out.  The registry and the broadcasts rest on Ownership:  *)
(* which connection a descriptor belongs to, and that Close is the only    *)
(* step that takes it away.                                                *)
(***************************************************************************)
EXTENDS ChatHub, DataLemmas

-----------------------------------------------------------------------------
(* The invariant.                                                          *)

Types ==
    /\ platform \in Platforms /\ up \in BOOLEAN
    /\ mainPc \in {"accept", "check", "counted"} /\ mainFd \in Fd \cup {Nobody}
    /\ active \in Int /\ playing \in Int
    /\ owner \in [Fd -> Worker \cup {Main, Nobody}]
    /\ pc \in [Worker -> Steps] /\ fd \in [Worker -> Fd \cup {Nobody}]
    /\ client \in [Worker -> {"here", "stalled"} \cup Gone]
    /\ chat \in Seq([fd : Fd, name : Worker]) /\ Len(chat) <= MaxChatSockets
    /\ targets \in [Worker -> Seq(Fd)]
    /\ due \in [Worker -> SUBSET Worker] /\ got \in [Worker -> SUBSET Worker]
    /\ fresh \in [Worker -> SUBSET Worker]
    /\ faults \in 0..MaxFaults

(* A descriptor is main's while it is being accepted, then its worker's    *)
(* until that worker closes it.                                            *)
Ended == {"none", "exit"}
Ownership ==
    /\ mainPc = "accept" <=> mainFd = Nobody
    /\ mainFd # Nobody => owner[mainFd] = Main
    /\ \A f \in Fd : owner[f] \in Worker => fd[owner[f]] = f
    /\ \A w \in Worker : pc[w] \notin Ended => fd[w] \in Fd /\ owner[fd[w]] = w
    /\ \A w \in Worker : pc[w] \in Ended => fd[w] = Nobody

Counted ==
    /\ IsFiniteSet(Alive)
    /\ ConnectionLimit

Players == {w \in Worker : pc[w] \in InPlay}
Online ==
    /\ IsFiniteSet(Players)
    /\ OnlineCount

(* Each descriptor is in the registry once; the entries that belong to no  *)
(* session are as many as there were faults, at most.                      *)
Unique == \A i, j \in DOMAIN chat : chat[i].fd = chat[j].fd => i = j
StrayFds == {f \in Fd : \E i \in DOMAIN chat : chat[i].fd = f /\ Stray(chat[i])}
Registry ==
    /\ Unique
    /\ IsFiniteSet(StrayFds)
    /\ Cardinality(StrayFds) <= faults

(* A broadcast under way: who has a claim to the line will have it or has  *)
(* it, and who can have it without a claim has come after it began.        *)
Reaches(w, v) == v \in got[w] \/ \E i \in DOMAIN targets[w] : targets[w][i] = fd[v]
Claims ==
    \A w \in Worker : \A v \in due[w] :
        /\ pc[w] \in Sending /\ pc[v] \notin Ended
        /\ client[v] = "here" => Reaches(w, v)
Strays ==
    /\ \A w \in Worker : targets[w] # <<>> => pc[w] \in Sending
    /\ faults = 0 => \A w \in Worker :
         /\ \A i \in DOMAIN targets[w] :
              owner[targets[w][i]] \in Worker => owner[targets[w][i]] \in due[w] \cup fresh[w]
         /\ got[w] \ due[w] \subseteq fresh[w]

HInv == Types /\ Ownership /\ Counted /\ Online /\ Registry /\ Claims /\ Strays

-----------------------------------------------------------------------------
(* Types and ownership.                                                    *)

(* What the registry's operations leave there are entries of the type. *)
LEMMA RegistryTypes ==
    ASSUME Types, NEW w \in Worker, fd[w] \in Fd
    PROVE  /\ Register(w) => chat' \in Seq([fd : Fd, name : Worker]) /\ Len(chat') <= MaxChatSockets
           /\ Unregister(w) => chat' \in Seq([fd : Fd, name : Worker]) /\ Len(chat') <= MaxChatSockets
<1> DEFINE E == [fd : Fd, name : Worker]
           e == [fd |-> fd[w], name |-> w]
<1>1. chat \in Seq(E) /\ e \in E /\ Len(chat) <= MaxChatSockets
  BY DEF Types
<1>2. Known(fd[w]) => Slot(fd[w]) \in DOMAIN chat
  BY DEF Known, Slot
<1> HIDE DEF E, e
<1>3. ASSUME Register(w) PROVE chat' \in Seq(E) /\ Len(chat') <= MaxChatSockets
  <2>1. CASE Known(fd[w])
    <3>1. chat' = [chat EXCEPT ![Slot(fd[w])] = e]
      BY <1>3, <2>1 DEF Register, Renamed, e
    <3> QED BY <3>1, <1>1, <1>2, <2>1
  <2>2. CASE ~Known(fd[w])
    <3>1. chat' = IF Len(chat) < MaxChatSockets THEN Append(chat, e) ELSE chat
      BY <1>3, <2>2 DEF Register, e
    <3> QED BY <3>1, <1>1, LimitsAssumption
  <2> QED BY <2>1, <2>2
<1>4. ASSUME Unregister(w) PROVE chat' \in Seq(E) /\ Len(chat') <= MaxChatSockets
  <2>1. CASE Known(fd[w])
    <3>1. chat' = RemoveAt(chat, Slot(fd[w])) /\ Slot(fd[w]) \in 1..Len(chat)
      BY <1>1, <1>2, <1>4, <2>1 DEF Unregister
    <3> QED BY <3>1, <1>1, RemoveAtEntries, LimitsAssumption
  <2>2. CASE ~Known(fd[w])
    BY <1>1, <1>4, <2>2 DEF Unregister
  <2> QED BY <2>1, <2>2
<1> QED BY <1>3, <1>4 DEF E

(* Every entry of the registry is a descriptor and a thread. *)
LEMMA ChatEntries ==
    ASSUME Types
    PROVE  /\ Len(chat) \in Nat /\ DOMAIN chat = 1..Len(chat)
           /\ \A i \in DOMAIN chat : chat[i].fd \in Fd /\ chat[i].name \in Worker
           /\ Fds(chat) \in Seq(Fd) /\ Members \subseteq Worker
<1>1. chat \in Seq([fd : Fd, name : Worker])
  BY DEF Types
<1>2. Len(chat) \in Nat /\ DOMAIN chat = 1..Len(chat)
  BY <1>1
<1>3. \A i \in DOMAIN chat : chat[i] \in [fd : Fd, name : Worker]
  BY <1>1, ElementOfSeq, <1>2
<1>4. \A i \in DOMAIN chat : chat[i].fd \in Fd /\ chat[i].name \in Worker
  BY <1>3
<1>5. Fds(chat) \in Seq(Fd)
  <2>1. Fds(chat) \in [1..Len(chat) -> Fd]
    BY <1>2, <1>4 DEF Fds
  <2> QED BY <2>1, <1>2, SeqDef
<1> QED BY <1>2, <1>4, <1>5 DEF Members

(* A worker goes from one of its steps to another. *)
LEMMA GotoStep ==
    ASSUME NEW w \in Worker, NEW step \in Steps, pc \in [Worker -> Steps], Goto(w, step)
    PROVE  /\ pc' \in [Worker -> Steps] /\ pc'[w] = step
           /\ \A v \in Worker \ {w} : pc'[v] = pc[v]
BY DEF Goto

(* Every step keeps the types. *)
LEMMA TypesStep ==
    ASSUME Types, Ownership, [Next]_vars
    PROVE  Types'
<1> USE DEF Types
<1>1. CASE UNCHANGED vars
  BY <1>1 DEF vars, world, accept, lines
<1>2. CASE Accept \/ Reject \/ AllocFails \/ Admit \/ ThreadFails
  <2>1. CASE Accept
    BY <2>1 DEF Accept, world, lines
  <2>2. CASE Reject \/ AllocFails \/ ThreadFails
    <3>1. CloseMainFd /\ UNCHANGED <<platform, up, pc, fd, client, chat, playing, targets, due, got,
                                     fresh, faults>>
      BY <2>2 DEF Reject, AllocFails, ThreadFails, world, lines
    <3>2. active' \in Int
      BY <2>2 DEF Reject, AllocFails, ThreadFails
    <3>3. owner' \in [Fd -> Worker \cup {Main, Nobody}]
      BY <3>1 DEF CloseMainFd
    <3> QED BY <3>1, <3>2, <3>3 DEF CloseMainFd
  <2>3. CASE Admit
    BY <2>3 DEF Admit, world, lines
  <2> QED BY <1>2, <2>1, <2>2, <2>3
<1>3. CASE StartThread
  <2>1. PICK w \in Worker \ Alive :
          /\ pc' = [pc EXCEPT ![w] = "login"] /\ fd' = [fd EXCEPT ![w] = mainFd]
          /\ owner' = [owner EXCEPT ![mainFd] = w] /\ client' = [client EXCEPT ![w] = "here"]
          /\ fresh' = [v \in Worker |-> IF pc[v] \in Sending THEN fresh[v] \cup {w} ELSE fresh[v]]
    BY <1>3 DEF StartThread
  <2>2. pc' \in [Worker -> Steps]
    BY <2>1 DEF Steps
  <2>3. fresh' \in [Worker -> SUBSET Worker]
    BY <2>1
  <2> QED BY <1>3, <2>1, <2>2, <2>3 DEF StartThread, world
<1>4. ASSUME NEW w \in Worker,
             LoginEnds(w) \/ EnterPlay(w) \/ KeepAliveDue(w) \/ IdleOut(w) \/ RecvLine(w)
               \/ RecvEnd(w) \/ LeavePlay(w) \/ EndThread(w)
      PROVE  Types'
  <2>1. PICK step \in Steps : Goto(w, step)
    BY <1>4 DEF LoginEnds, EnterPlay, KeepAliveDue, IdleOut, RecvLine, RecvEnd, LeavePlay, EndThread,
          Steps, InPlay, Sending
  <2>2. pc' \in [Worker -> Steps]
    BY <2>1, GotoStep
  <2>3. active' \in Int /\ playing' \in Int
    BY <1>4 DEF LoginEnds, EnterPlay, KeepAliveDue, IdleOut, RecvLine, RecvEnd, LeavePlay, EndThread,
          accept
  <2>4. UNCHANGED <<platform, up, mainPc, mainFd, owner, fd, client, chat, targets, due, got, fresh,
                    faults>>
    BY <1>4 DEF LoginEnds, EnterPlay, KeepAliveDue, IdleOut, RecvLine, RecvEnd, LeavePlay, EndThread,
          world, accept, lines
  <2> QED BY <2>2, <2>3, <2>4
<1>5. ASSUME NEW w \in Worker, LineSent(w) PROVE Types'
  <2>1. PICK step \in Steps : Goto(w, step)
    BY <1>5 DEF LineSent, Steps, InPlay, Sending
  <2>2. pc' \in [Worker -> Steps]
    BY <2>1, GotoStep
  <2> QED BY <1>5, <2>2 DEF LineSent, world, accept
<1>6. ASSUME NEW w \in Worker, ClientGoes(w) \/ ClientStalls(w) \/ SendKeepAlive(w) \/ SigPipe(w)
      PROVE  Types'
  <2>1. client' \in [Worker -> {"here", "stalled"} \cup Gone]
    BY <1>6 DEF ClientGoes, ClientStalls, SendKeepAlive, SigPipe, Notice, Gone
  <2>2. pc' \in [Worker -> Steps]
    BY <1>6 DEF ClientGoes, ClientStalls, SendKeepAlive, SigPipe, Goto, Steps, InPlay
  <2> QED BY <1>6, <2>1, <2>2 DEF ClientGoes, ClientStalls, SendKeepAlive, SigPipe, world, accept, lines
<1>7. ASSUME NEW w \in Worker, CloseSocket(w) \/ Fault(w) PROVE Types'
  <2>1. Close(w) /\ UNCHANGED <<world, accept, client, chat, playing>>
    BY <1>7 DEF CloseSocket, Fault
  <2>2. faults' \in 0..MaxFaults
    BY <1>7, LimitsAssumption DEF CloseSocket, Fault
  <2>3. pc' \in [Worker -> Steps]
    BY <2>1 DEF Close, Goto, Steps
  <2>4. due' \in [Worker -> SUBSET Worker] /\ got' \in [Worker -> SUBSET Worker]
        /\ fresh' \in [Worker -> SUBSET Worker]
    BY <2>1 DEF Close
  <2>5. owner' \in [Fd -> Worker \cup {Main, Nobody}]
    BY <2>1 DEF Close
  <2>6. fd' \in [Worker -> Fd \cup {Nobody}]
    BY <2>1 DEF Close
  <2>7. targets' \in [Worker -> Seq(Fd)]
    BY <2>1 DEF Close
  <2> QED BY <2>1, <2>2, <2>3, <2>4, <2>5, <2>6, <2>7 DEF world, accept
<1>8. ASSUME NEW w \in Worker, RegisterSocket(w) \/ UnregisterSocket(w) PROVE Types'
  <2>1. fd[w] \in Fd
    BY <1>8 DEF RegisterSocket, UnregisterSocket, Ownership, Ended
  <2>2. chat' \in Seq([fd : Fd, name : Worker]) /\ Len(chat') <= MaxChatSockets
    BY <1>8, <2>1, RegistryTypes DEF RegisterSocket, UnregisterSocket
  <2>3. pc' \in [Worker -> Steps]
    BY <1>8 DEF RegisterSocket, UnregisterSocket, Goto, Steps, InPlay
  <2> QED BY <1>8, <2>2, <2>3 DEF RegisterSocket, UnregisterSocket, world, accept, lines
<1>9. ASSUME NEW w \in Worker, Snapshot(w) PROVE Types'
  <2>1. Fds(chat) \in Seq(Fd) /\ Members \subseteq Worker
    BY ChatEntries
  <2>2. pc' \in [Worker -> Steps]
    BY <1>9 DEF Snapshot, Goto, Steps, InPlay, Sending
  <2> QED BY <1>9, <2>1, <2>2 DEF Snapshot, world, accept
<1>10. ASSUME NEW w \in Worker, SendLine(w) PROVE Types'
  <2>1. Tail(targets[w]) \in Seq(Fd) /\ Head(targets[w]) \in Fd
    BY <1>10 DEF SendLine
  <2>2. got' \in [Worker -> SUBSET Worker]
    BY <1>10, <2>1 DEF SendLine, Delivers
  <2>3. client' \in [Worker -> {"here", "stalled"} \cup Gone]
    BY <1>10 DEF SendLine, Notice, Gone
  <2>4. targets' \in [Worker -> Seq(Fd)]
    BY <1>10, <2>1 DEF SendLine
  <2> QED BY <1>10, <2>2, <2>3, <2>4 DEF SendLine, world, accept
<1> QED
  BY <1>1, <1>2, <1>3, <1>4, <1>5, <1>6, <1>7, <1>8, <1>9, <1>10
     DEF Next, AcceptLoop, Advance, Broadcast, Ending, Down

(* accept, the start of a thread and close pass a descriptor on whole. *)
LEMMA OwnershipStep ==
    ASSUME Types, Ownership, [Next]_vars
    PROVE  Ownership'
<1> USE NamesDistinct DEF Types, Ended, Ownership
<1>1. CASE UNCHANGED vars
  BY <1>1 DEF vars, world, accept, lines
<1>2. CASE Accept
  BY <1>2 DEF Accept, world, lines
<1>3. CASE Reject \/ AllocFails \/ ThreadFails
  <2>1. CloseMainFd /\ UNCHANGED <<pc, fd>> /\ mainFd # Nobody
    BY <1>3 DEF Reject, AllocFails, ThreadFails
  <2> QED BY <2>1 DEF CloseMainFd
<1>4. CASE Admit
  BY <1>4 DEF Admit, world, lines
<1>5. CASE StartThread
  BY <1>5 DEF StartThread, Alive, world
<1>6. ASSUME NEW w \in Worker, CloseSocket(w) \/ Fault(w) PROVE Ownership'
  <2>1. Close(w) /\ UNCHANGED <<world, accept>> /\ pc[w] \notin Ended
    BY <1>6 DEF CloseSocket, Fault, InPlay, Sending
  <2> QED BY <2>1 DEF Close, Goto, world, accept
<1>7. ASSUME NEW w \in Worker,
             LoginEnds(w) \/ EnterPlay(w) \/ KeepAliveDue(w) \/ IdleOut(w) \/ RecvLine(w)
               \/ RecvEnd(w) \/ LeavePlay(w) \/ EndThread(w) \/ LineSent(w) \/ SendKeepAlive(w)
               \/ RegisterSocket(w) \/ UnregisterSocket(w) \/ Snapshot(w)
      PROVE  Ownership'
  <2>1. UNCHANGED <<mainPc, mainFd, owner, fd>>
    BY <1>7 DEF LoginEnds, EnterPlay, KeepAliveDue, IdleOut, RecvLine, RecvEnd, LeavePlay, EndThread,
          LineSent, SendKeepAlive, RegisterSocket, UnregisterSocket, Snapshot, accept
  <2>2. PICK step \in Steps : Goto(w, step) /\ (step \in Ended <=> pc[w] \in Ended)
    BY <1>7 DEF LoginEnds, EnterPlay, KeepAliveDue, IdleOut, RecvLine, RecvEnd, LeavePlay, EndThread,
          LineSent, SendKeepAlive, RegisterSocket, UnregisterSocket, Snapshot, Steps, InPlay, Sending
  <2> QED BY <2>1, <2>2, GotoStep
<1>8. ASSUME NEW w \in Worker, ClientGoes(w) \/ ClientStalls(w) \/ SigPipe(w) \/ SendLine(w)
      PROVE  Ownership'
  <2>1. UNCHANGED <<mainPc, mainFd, owner, fd, pc>>
    BY <1>8 DEF ClientGoes, ClientStalls, SigPipe, SendLine, accept
  <2> QED BY <2>1
<1> QED
  BY <1>1, <1>2, <1>3, <1>4, <1>5, <1>6, <1>7, <1>8
     DEF Next, AcceptLoop, Advance, Broadcast, Ending, Down

-----------------------------------------------------------------------------
(* The counters.                                                           *)

(* main counts a thread in before it starts; only the thread itself, or   *)
(* main when it could not start it, counts it out.                         *)
LEMMA CountedStep ==
    ASSUME Types, Ownership, Counted, [Next]_vars
    PROVE  Counted'
<1> USE DEF Types, Counted, ConnectionLimit
<1> DEFINE Kept == Alive' = Alive /\ UNCHANGED <<mainPc, active>>
<1>0. Cardinality(Alive) \in Nat
  BY FS_CardinalityType
<1>1. ASSUME Kept PROVE Counted'
  BY <1>1
<1>2. CASE UNCHANGED vars
  BY <1>1, <1>2 DEF vars, accept, Alive
<1>3. CASE Accept \/ Reject \/ AllocFails
  <2>1. Alive' = Alive /\ active' = active /\ mainPc # "counted" /\ mainPc' # "counted"
    BY <1>3 DEF Accept, Reject, AllocFails, CloseMainFd, Alive
  <2> QED BY <2>1
<1>4. CASE Admit
  <2>1. /\ Alive' = Alive /\ active' = active + 1 /\ mainPc = "check" /\ mainPc' = "counted"
        /\ active < MaxConnections
    BY <1>4 DEF Admit, Alive
  <2> QED BY <2>1, <1>0, LimitsAssumption
<1>5. CASE StartThread
  <2>1. PICK w \in Worker \ Alive : pc' = [pc EXCEPT ![w] = "login"]
    BY <1>5 DEF StartThread
  <2>2. Alive' = Alive \cup {w}
    BY <2>1 DEF Alive
  <2>3. IsFiniteSet(Alive') /\ Cardinality(Alive') = Cardinality(Alive) + 1
    BY <2>1, <2>2, FS_AddElement
  <2>4. mainPc = "counted" /\ mainPc' = "accept" /\ active' = active
    BY <1>5 DEF StartThread
  <2> QED BY <2>3, <2>4, <1>0
<1>6. CASE ThreadFails
  <2>1. Alive' = Alive /\ active' = active - 1 /\ mainPc = "counted" /\ mainPc' = "accept"
    BY <1>6 DEF ThreadFails, CloseMainFd, Alive
  <2> QED BY <2>1, <1>0, LimitsAssumption
<1>7. ASSUME NEW w \in Worker, EndThread(w) PROVE Counted'
  <2>1. Alive' = Alive \ {w} /\ w \in Alive /\ active' = active - 1 /\ mainPc' = mainPc
    BY <1>7 DEF EndThread, Goto, Alive
  <2>2. IsFiniteSet(Alive') /\ Cardinality(Alive') = Cardinality(Alive) - 1
    BY <2>1, FS_RemoveElement
  <2> QED BY <2>1, <2>2, <1>0, LimitsAssumption
<1>8. ASSUME NEW w \in Worker,
             LoginEnds(w) \/ EnterPlay(w) \/ KeepAliveDue(w) \/ IdleOut(w) \/ RecvLine(w)
               \/ RecvEnd(w) \/ LeavePlay(w) \/ LineSent(w) \/ SendKeepAlive(w)
               \/ RegisterSocket(w) \/ UnregisterSocket(w) \/ Snapshot(w)
               \/ CloseSocket(w) \/ Fault(w)
      PROVE  Counted'
  <2>1. UNCHANGED <<mainPc, active>>
    BY <1>8 DEF LoginEnds, EnterPlay, KeepAliveDue, IdleOut, RecvLine, RecvEnd, LeavePlay, LineSent,
          SendKeepAlive, RegisterSocket, UnregisterSocket, Snapshot, CloseSocket, Fault, accept
  <2>2. PICK step \in Steps : Goto(w, step) /\ step # "none" /\ pc[w] # "none"
    BY <1>8 DEF LoginEnds, EnterPlay, KeepAliveDue, IdleOut, RecvLine, RecvEnd, LeavePlay, LineSent,
          SendKeepAlive, RegisterSocket, UnregisterSocket, Snapshot, CloseSocket, Fault, Close,
          Steps, InPlay, Sending
  <2>3. Alive' = Alive
    BY <2>2, GotoStep DEF Alive
  <2> QED BY <1>1, <2>1, <2>3
<1>9. ASSUME NEW w \in Worker, ClientGoes(w) \/ ClientStalls(w) \/ SigPipe(w) \/ SendLine(w)
      PROVE  Counted'
  <2>1. UNCHANGED <<mainPc, active, pc>>
    BY <1>9 DEF ClientGoes, ClientStalls, SigPipe, SendLine, accept
  <2> QED BY <1>1, <2>1 DEF Alive
<1> QED
  BY <1>2, <1>3, <1>4, <1>5, <1>6, <1>7, <1>8, <1>9
     DEF Next, AcceptLoop, Advance, Broadcast, Ending, Down

(* Entering and leaving play count; a fault leaves one player too many.    *)
LEMMA OnlineStep ==
    ASSUME Types, Ownership, Online, [Next]_vars
    PROVE  Online'
<1> USE DEF Types, Online, OnlineCount
<1> DEFINE Kept == Players' = Players /\ UNCHANGED <<playing, faults>>
<1>0. Cardinality(Players) \in Nat /\ faults \in Nat
  BY FS_CardinalityType, LimitsAssumption
<1>a. OnlineCount <=> playing - Cardinality(Players) \in 0..faults
  BY DEF Players
<1>b. OnlineCount' <=> playing' - Cardinality(Players') \in 0..faults'
  BY DEF Players
<1>1. ASSUME Kept PROVE Online'
  BY <1>1, <1>a, <1>b
<1>2. CASE UNCHANGED vars
  BY <1>1, <1>2 DEF vars, Players
<1>3. CASE Accept \/ Reject \/ AllocFails \/ Admit \/ ThreadFails
  BY <1>1, <1>3 DEF Accept, Reject, AllocFails, Admit, ThreadFails, Players
<1>4. CASE StartThread
  <2>1. PICK w \in Worker \ Alive : pc' = [pc EXCEPT ![w] = "login"]
    BY <1>4 DEF StartThread
  <2>2. pc[w] \notin InPlay /\ "login" \notin InPlay
    BY <2>1 DEF Alive, InPlay, Sending
  <2>3. Players' = Players
    BY <2>1, <2>2 DEF Players
  <2> QED BY <1>1, <1>4, <2>3 DEF StartThread
<1>5. ASSUME NEW w \in Worker, EnterPlay(w) PROVE Online'
  <2>1. pc[w] \notin InPlay /\ Goto(w, "register") /\ "register" \in Steps \cap InPlay
    BY <1>5 DEF EnterPlay, Steps, InPlay, Sending
  <2>2. Players' = Players \cup {w} /\ w \notin Players
    BY <2>1, GotoStep DEF Players
  <2>3. IsFiniteSet(Players') /\ Cardinality(Players') = Cardinality(Players) + 1
    BY <2>2, FS_AddElement
  <2>4. playing' = playing + 1 /\ faults' = faults
    BY <1>5 DEF EnterPlay
  <2> QED BY <1>0, <1>a, <1>b, <2>3, <2>4
<1>6. ASSUME NEW w \in Worker, LeavePlay(w) PROVE Online'
  <2>1. pc[w] \in InPlay /\ Goto(w, "close") /\ "close" \in Steps \ InPlay
    BY <1>6 DEF LeavePlay, Steps, InPlay, Sending
  <2>2. Players' = Players \ {w} /\ w \in Players
    BY <2>1, GotoStep DEF Players
  <2>3. IsFiniteSet(Players') /\ Cardinality(Players') = Cardinality(Players) - 1
    BY <2>2, FS_RemoveElement
  <2>4. playing' = playing - 1 /\ faults' = faults
    BY <1>6 DEF LeavePlay
  <2> QED BY <1>0, <1>a, <1>b, <2>3, <2>4
<1>7. ASSUME NEW w \in Worker, Fault(w) PROVE Online'
  <2>1. Goto(w, "exit") /\ "exit" \in Steps \ InPlay
    BY <1>7 DEF Fault, Close, Steps, InPlay, Sending
  <2>2. Players' = Players \ {w}
    <3>1. pc'[w] \notin InPlay /\ \A v \in Worker \ {w} : pc'[v] = pc[v]
      BY <2>1, GotoStep
    <3> QED BY <3>1 DEF Players
  <2>3. /\ IsFiniteSet(Players')
        /\ Cardinality(Players') \in {Cardinality(Players) - 1, Cardinality(Players)}
    BY <2>2, FS_RemoveElement
  <2>4. playing' = playing /\ faults' = faults + 1
    BY <1>7 DEF Fault
  <2> QED BY <1>0, <1>a, <1>b, <2>3, <2>4
<1>8. ASSUME NEW w \in Worker,
             LoginEnds(w) \/ KeepAliveDue(w) \/ IdleOut(w) \/ RecvLine(w) \/ RecvEnd(w)
               \/ LineSent(w) \/ SendKeepAlive(w) \/ RegisterSocket(w) \/ UnregisterSocket(w)
               \/ Snapshot(w) \/ CloseSocket(w) \/ EndThread(w)
      PROVE  Online'
  <2>1. UNCHANGED <<playing, faults>>
    BY <1>8 DEF LoginEnds, KeepAliveDue, IdleOut, RecvLine, RecvEnd, LineSent, SendKeepAlive,
          RegisterSocket, UnregisterSocket, Snapshot, CloseSocket, EndThread
  <2>2. PICK step \in Steps : Goto(w, step) /\ (step \in InPlay <=> pc[w] \in InPlay)
    BY <1>8 DEF LoginEnds, KeepAliveDue, IdleOut, RecvLine, RecvEnd, LineSent, SendKeepAlive,
          RegisterSocket, UnregisterSocket, Snapshot, CloseSocket, EndThread, Close,
          Steps, InPlay, Sending
  <2>3. \A v \in Worker : pc'[v] \in InPlay <=> pc[v] \in InPlay
    BY <2>2, GotoStep
  <2>4. Players' = Players
    BY <2>3 DEF Players
  <2> QED BY <1>1, <2>1, <2>4
<1>9. ASSUME NEW w \in Worker, ClientGoes(w) \/ ClientStalls(w) \/ SigPipe(w) \/ SendLine(w)
      PROVE  Online'
  <2>1. UNCHANGED <<playing, faults, pc>>
    BY <1>9 DEF ClientGoes, ClientStalls, SigPipe, SendLine
  <2> QED BY <1>1, <2>1 DEF Players
<1> QED
  BY <1>2, <1>3, <1>4, <1>5, <1>6, <1>7, <1>8, <1>9
     DEF Next, AcceptLoop, Advance, Broadcast, Ending, Down

-----------------------------------------------------------------------------
(* The registry.                                                           *)

(* A step that makes no entry stray keeps the registry as it should be. *)
LEMMA NoNewStrays ==
    ASSUME Types, Registry, Unique', StrayFds' \subseteq StrayFds, faults' = faults
    PROVE  Registry'
<1>1. IsFiniteSet(StrayFds') /\ Cardinality(StrayFds') <= Cardinality(StrayFds)
  BY FS_Subset DEF Registry
<1>2. Cardinality(StrayFds) \in Nat /\ Cardinality(StrayFds') \in Nat /\ faults \in Nat
  BY <1>1, FS_CardinalityType, LimitsAssumption DEF Registry, Types
<1> QED BY <1>1, <1>2 DEF Registry

(* The registry untouched, and nobody listed who stops being so. *)
LEMMA SameRegistry ==
    ASSUME Types, Registry, chat' = chat, faults' = faults,
           \A f \in Fd : \A w \in Worker :
             owner[f] = w /\ pc[w] \in Listed => owner'[f] = w /\ pc'[w] \in Listed
    PROVE  Registry'
<1>1. Unique'
  BY DEF Registry, Unique
<1>2. \A i \in DOMAIN chat : chat[i].fd \in Fd /\ chat[i].name \in Worker
  BY ChatEntries
<1>3. StrayFds' \subseteq StrayFds
  BY <1>2 DEF StrayFds, Stray
<1> QED BY <1>1, <1>3, NoNewStrays

(* The search before the append keeps each descriptor in one slot. *)
LEMMA RegisterStep ==
    ASSUME Types, Ownership, Registry, NEW w \in Worker, RegisterSocket(w)
    PROVE  Registry'
<1> DEFINE f == fd[w]
           e == [fd |-> f, name |-> w]
<1>1. f \in Fd /\ owner[f] = w /\ owner' = owner /\ faults' = faults /\ Register(w)
  BY DEF RegisterSocket, Ownership, Ended
<1>2. pc'[w] \in Listed /\ \A v \in Worker \ {w} : pc'[v] = pc[v]
  <2>1. Goto(w, "join") /\ "join" \in Steps \cap Listed
    BY DEF RegisterSocket, Steps, InPlay, Listed
  <2> QED BY <2>1, GotoStep DEF Types
<1>3. /\ Len(chat) \in Nat /\ DOMAIN chat = 1..Len(chat)
      /\ \A i \in DOMAIN chat : chat[i].fd \in Fd /\ chat[i].name \in Worker
  BY ChatEntries
<1>4. chat \in Seq([fd : Fd, name : Worker]) /\ e \in [fd : Fd, name : Worker]
  BY <1>1 DEF Types
<1> HIDE DEF f
<1>5. /\ Unique'
      /\ \A j \in DOMAIN chat' : chat'[j] = e \/ \E i \in DOMAIN chat : chat'[j] = chat[i]
  <2>1. CASE Known(f)
    <3>1. Slot(f) \in DOMAIN chat /\ chat[Slot(f)].fd = f
      BY <2>1 DEF Known, Slot
    <3>2. chat' = [chat EXCEPT ![Slot(f)] = e]
      BY <1>1, <2>1 DEF Register, Renamed, f
    <3>3. DOMAIN chat' = DOMAIN chat /\ \A i \in DOMAIN chat : chat'[i].fd = chat[i].fd
      BY <3>1, <3>2
    <3> QED BY <3>1, <3>2, <3>3 DEF Registry, Unique
  <2>2. CASE ~Known(f) /\ Len(chat) < MaxChatSockets
    <3>1. chat' = Append(chat, e)
      BY <1>1, <2>2 DEF Register, f
    <3>2. /\ DOMAIN chat' = 1..Len(chat) + 1 /\ chat'[Len(chat) + 1] = e
          /\ \A i \in 1..Len(chat) : chat'[i] = chat[i]
      <4> HIDE DEF e
      <4> QED BY <3>1, <1>4, <1>3
    <3>3. \A i \in DOMAIN chat : chat[i].fd # f
      BY <2>2 DEF Known
    <3>4. \A j \in DOMAIN chat' : chat'[j] = e \/ \E i \in DOMAIN chat : chat'[j] = chat[i]
      BY <3>2, <1>3
    <3>5. ASSUME NEW i \in DOMAIN chat', NEW j \in DOMAIN chat', chat'[i].fd = chat'[j].fd
          PROVE  i = j
      <4>1. CASE i \in 1..Len(chat) /\ j \in 1..Len(chat)
        BY <4>1, <3>2, <3>5, <1>3 DEF Registry, Unique
      <4>2. CASE i = Len(chat) + 1 /\ j \in 1..Len(chat)
        BY <4>2, <3>2, <3>3, <3>5, <1>3
      <4>3. CASE i \in 1..Len(chat) /\ j = Len(chat) + 1
        BY <4>3, <3>2, <3>3, <3>5, <1>3
      <4> QED BY <4>1, <4>2, <4>3, <3>2, <1>3
    <3> QED BY <3>4, <3>5 DEF Unique
  <2>3. CASE ~Known(f) /\ ~(Len(chat) < MaxChatSockets)
    <3>1. chat' = chat
      BY <1>1, <2>3 DEF Register, f
    <3> QED BY <3>1 DEF Registry, Unique
  <2> QED BY <2>1, <2>2, <2>3
<1>6. ASSUME NEW g \in Fd, NEW j \in DOMAIN chat', chat'[j].fd = g,
             ~(owner'[chat'[j].fd] = chat'[j].name /\ pc'[chat'[j].name] \in Listed)
      PROVE  g \in StrayFds
  <2>1. chat'[j] # e
    BY <1>1, <1>2, <1>6
  <2>2. PICK i \in DOMAIN chat : chat'[j] = chat[i]
    BY <1>5, <2>1
  <2>3. chat[i].fd = g /\ chat[i].name \in Worker
        /\ ~(owner[chat[i].fd] = chat[i].name /\ pc'[chat[i].name] \in Listed)
    BY <1>1, <1>3, <1>6, <2>2
  <2>4. pc[chat[i].name] \in Listed => pc'[chat[i].name] \in Listed
    BY <1>2, <2>3
  <2> QED BY <2>3, <2>4 DEF StrayFds, Stray
<1>7. StrayFds' \subseteq StrayFds
  BY <1>6 DEF StrayFds, Stray
<1> QED BY <1>1, <1>5, <1>7, NoNewStrays

(* Closing the gap loses the session's own entry and no other. *)
LEMMA UnregisterStep ==
    ASSUME Types, Ownership, Registry, NEW w \in Worker, UnregisterSocket(w)
    PROVE  Registry'
<1> DEFINE f == fd[w]
<1>1. /\ f \in Fd /\ owner' = owner /\ faults' = faults /\ Unregister(w)
      /\ \A g \in Fd : owner[g] = w => g = f
  BY DEF UnregisterSocket, Ownership, Ended
<1>2. \A v \in Worker \ {w} : pc'[v] = pc[v]
  <2>1. Goto(w, "uncount") /\ "uncount" \in Steps
    BY DEF UnregisterSocket, Steps, InPlay
  <2> QED BY <2>1, GotoStep DEF Types
<1>3. /\ Len(chat) \in Nat /\ DOMAIN chat = 1..Len(chat)
      /\ \A i \in DOMAIN chat : chat[i].fd \in Fd /\ chat[i].name \in Worker
  BY ChatEntries
<1> HIDE DEF f
<1>4. /\ Unique'
      /\ \A j \in DOMAIN chat' : \E i \in DOMAIN chat : chat'[j] = chat[i] /\ chat[i].fd # f
  <2>1. CASE Known(f)
    <3> DEFINE k == Slot(f)
    <3>1. k \in 1..Len(chat) /\ chat[k].fd = f
      BY <1>3, <2>1 DEF Known, Slot
    <3>2. chat' = RemoveAt(chat, k)
      BY <1>1, <2>1 DEF Unregister, f
    <3> HIDE DEF k
    <3>3. /\ DOMAIN chat' = 1..(Len(chat) - 1)
          /\ \A j \in 1..(Len(chat) - 1) : chat'[j] = IF j < k THEN chat[j] ELSE chat[j + 1]
      <4> DEFINE E == [fd : Fd, name : Worker]
      <4>1. chat \in Seq(E)
        BY DEF Types
      <4> HIDE DEF E
      <4>2. /\ chat' \in Seq(E) /\ Len(chat') = Len(chat) - 1
            /\ \A j \in 1..(Len(chat) - 1) : chat'[j] = IF j < k THEN chat[j] ELSE chat[j + 1]
        BY <3>1, <3>2, <4>1, RemoveAtEntries
      <4>3. DOMAIN chat' = 1..Len(chat')
        BY <4>2
      <4> QED BY <4>2, <4>3
    <3>4. \A i \in DOMAIN chat : i # k => chat[i].fd # f
      BY <3>1, <1>3 DEF Registry, Unique
    <3>5. ASSUME NEW j \in DOMAIN chat'
          PROVE  \E i \in DOMAIN chat : chat'[j] = chat[i] /\ chat[i].fd # f
      <4>1. CASE j < k
        <5>1. j \in DOMAIN chat /\ j # k /\ chat'[j] = chat[j]
          BY <3>3, <4>1, <1>3
        <5> QED BY <5>1, <3>4
      <4>2. CASE ~(j < k)
        <5>1. j + 1 \in DOMAIN chat /\ j + 1 # k /\ chat'[j] = chat[j + 1]
          BY <3>1, <3>3, <4>2, <1>3
        <5> QED BY <5>1, <3>4
      <4> QED BY <4>1, <4>2
    <3>6. ASSUME NEW i \in DOMAIN chat', NEW j \in DOMAIN chat', chat'[i].fd = chat'[j].fd
          PROVE  i = j
      <4> DEFINE a == IF i < k THEN i ELSE i + 1
                 b == IF j < k THEN j ELSE j + 1
      <4>1. a \in DOMAIN chat /\ b \in DOMAIN chat /\ i \in Int /\ j \in Int
        BY <3>1, <3>3, <1>3
      <4>2. chat'[i] = chat[a] /\ chat'[j] = chat[b]
        BY <3>1, <3>3, <1>3
      <4>3. a = b
        BY <3>6, <4>1, <4>2 DEF Registry, Unique
      <4> QED BY <3>1, <4>1, <4>3
    <3> QED BY <3>5, <3>6 DEF Unique
  <2>2. CASE ~Known(f)
    <3>1. chat' = chat
      BY <1>1, <2>2 DEF Unregister, f
    <3> QED BY <3>1, <2>2 DEF Known, Registry, Unique
  <2> QED BY <2>1, <2>2
<1>5. ASSUME NEW g \in Fd, NEW j \in DOMAIN chat', chat'[j].fd = g,
             ~(owner'[chat'[j].fd] = chat'[j].name /\ pc'[chat'[j].name] \in Listed)
      PROVE  g \in StrayFds
  <2>1. PICK i \in DOMAIN chat : chat'[j] = chat[i] /\ chat[i].fd # f
    BY <1>4
  <2>2. chat[i].fd = g /\ chat[i].name \in Worker
        /\ ~(owner[chat[i].fd] = chat[i].name /\ pc'[chat[i].name] \in Listed)
    BY <1>1, <1>3, <1>5, <2>1
  <2>3. owner[chat[i].fd] = chat[i].name => chat[i].name # w
    BY <1>1, <1>3, <2>1
  <2>4. ~(owner[chat[i].fd] = chat[i].name /\ pc[chat[i].name] \in Listed)
    BY <1>2, <2>2, <2>3
  <2> QED BY <2>2, <2>4 DEF StrayFds, Stray
<1>6. StrayFds' \subseteq StrayFds
  BY <1>5 DEF StrayFds, Stray
<1> QED BY <1>1, <1>4, <1>6, NoNewStrays

(* A worker that ends in __except leaves one entry behind at most. *)
LEMMA FaultStep ==
    ASSUME Types, Ownership, Registry, NEW w \in Worker, Fault(w)
    PROVE  Registry'
<1> DEFINE f == fd[w]
<1>1. /\ f \in Fd /\ chat' = chat /\ faults' = faults + 1
      /\ \A g \in Fd : owner[g] = w => g = f
  BY DEF Fault, Ownership, Ended, InPlay, Sending
<1>2. \A g \in Fd \ {f} : owner'[g] = owner[g]
  BY DEF Fault, Close, Types
<1>3. \A v \in Worker \ {w} : pc'[v] = pc[v]
  BY DEF Fault, Close, Goto, Types
<1>4. \A i \in DOMAIN chat : chat[i].fd \in Fd /\ chat[i].name \in Worker
  BY ChatEntries
<1> HIDE DEF f
<1>5. StrayFds' \subseteq StrayFds \cup {f}
  BY <1>1, <1>2, <1>3, <1>4 DEF StrayFds, Stray
<1>6. /\ IsFiniteSet(StrayFds \cup {f})
      /\ Cardinality(StrayFds \cup {f}) <= Cardinality(StrayFds) + 1
  <2>1. IsFiniteSet(StrayFds)
    BY DEF Registry
  <2> QED BY <2>1, FS_AddElement, FS_CardinalityType
<1>7. IsFiniteSet(StrayFds') /\ Cardinality(StrayFds') <= Cardinality(StrayFds \cup {f})
  BY <1>5, <1>6, FS_Subset
<1>8. /\ Cardinality(StrayFds) \in Nat /\ Cardinality(StrayFds') \in Nat
      /\ Cardinality(StrayFds \cup {f}) \in Nat /\ faults \in Nat
      /\ Cardinality(StrayFds) <= faults
  BY <1>6, <1>7, FS_CardinalityType, LimitsAssumption DEF Registry, Types
<1>9. Unique'
  BY <1>1 DEF Registry, Unique
<1> QED BY <1>1, <1>6, <1>7, <1>8, <1>9 DEF Registry

(* Only a fault leaves an entry behind. *)
LEMMA RegistryStep ==
    ASSUME Types, Ownership, Registry, [Next]_vars
    PROVE  Registry'
<1> DEFINE Kept == \A f \in Fd : \A w \in Worker :
             owner[f] = w /\ pc[w] \in Listed => owner'[f] = w /\ pc'[w] \in Listed
<1> USE NamesDistinct DEF Types
<1>1. CASE UNCHANGED vars
  BY <1>1, SameRegistry DEF vars
<1>2. CASE Accept \/ Reject \/ AllocFails \/ ThreadFails
  <2>1. UNCHANGED <<pc, chat, faults>>
    BY <1>2 DEF Accept, Reject, AllocFails, ThreadFails
  <2>2. PICK f \in Fd : owner[f] \notin Worker /\ \A g \in Fd \ {f} : owner'[g] = owner[g]
    BY <1>2 DEF Accept, Reject, AllocFails, ThreadFails, CloseMainFd, Ownership
  <2> QED BY <2>1, <2>2, SameRegistry
<1>3. CASE Admit
  BY <1>3, SameRegistry DEF Admit
<1>4. CASE StartThread
  <2>1. PICK w \in Worker \ Alive : pc' = [pc EXCEPT ![w] = "login"]
                                    /\ owner' = [owner EXCEPT ![mainFd] = w]
    BY <1>4 DEF StartThread
  <2>2. owner[mainFd] = Main /\ pc[w] \notin Listed
    BY <1>4, <2>1 DEF StartThread, Ownership, Alive, Listed, Sending
  <2>3. Kept
    BY <2>1, <2>2
  <2> QED BY <1>4, <2>3, SameRegistry DEF StartThread
<1>5. ASSUME NEW w \in Worker, CloseSocket(w) PROVE Registry'
  <2>1. /\ pc[w] \notin Listed /\ chat' = chat /\ faults' = faults
        /\ \A g \in Fd : owner[g] # w => owner'[g] = owner[g]
        /\ \A v \in Worker \ {w} : pc'[v] = pc[v]
    <3>1. owner' = [owner EXCEPT ![fd[w]] = Nobody] /\ owner[fd[w]] = w
      BY <1>5 DEF CloseSocket, Close, Ownership, Ended
    <3>2. pc' = [pc EXCEPT ![w] = "exit"] /\ pc[w] \notin Listed /\ UNCHANGED <<chat, faults>>
      BY <1>5 DEF CloseSocket, Close, Goto, Listed, Sending
    <3> QED BY <3>1, <3>2
  <2> QED BY <2>1, SameRegistry
<1>6. ASSUME NEW w \in Worker,
             LoginEnds(w) \/ EnterPlay(w) \/ KeepAliveDue(w) \/ IdleOut(w) \/ RecvLine(w)
               \/ RecvEnd(w) \/ LeavePlay(w) \/ LineSent(w) \/ SendKeepAlive(w)
               \/ Snapshot(w) \/ EndThread(w)
      PROVE  Registry'
  <2>1. UNCHANGED <<owner, chat, faults>>
    BY <1>6 DEF LoginEnds, EnterPlay, KeepAliveDue, IdleOut, RecvLine, RecvEnd, LeavePlay, LineSent,
          SendKeepAlive, Snapshot, EndThread
  <2>2. PICK step \in Steps : Goto(w, step) /\ (pc[w] \in Listed => step \in Listed)
    BY <1>6 DEF LoginEnds, EnterPlay, KeepAliveDue, IdleOut, RecvLine, RecvEnd, LeavePlay, LineSent,
          SendKeepAlive, Snapshot, EndThread, Steps, InPlay, Sending, Listed
  <2>3. \A v \in Worker : pc[v] \in Listed => pc'[v] \in Listed
    BY <2>2, GotoStep
  <2> QED BY <2>1, <2>3, SameRegistry
<1>7. ASSUME NEW w \in Worker, ClientGoes(w) \/ ClientStalls(w) \/ SigPipe(w) \/ SendLine(w)
      PROVE  Registry'
  <2>1. UNCHANGED <<owner, chat, faults, pc>>
    BY <1>7 DEF ClientGoes, ClientStalls, SigPipe, SendLine
  <2> QED BY <2>1, SameRegistry
<1> QED
  BY <1>1, <1>2, <1>3, <1>4, <1>5, <1>6, <1>7, RegisterStep, UnregisterStep, FaultStep
     DEF Next, AcceptLoop, Advance, Broadcast, Ending, Down

-----------------------------------------------------------------------------
(* The broadcasts.                                                         *)

(* No step but the ones on a broadcast itself, the start of a thread and   *)
(* Close touches what a broadcast remembers; a step of a worker that stays *)
(* in or out of Sending and keeps its socket keeps the claims.             *)
LEMMA SameClaims ==
    ASSUME Types, Claims,
           UNCHANGED <<targets, due, got>>,
           \A w \in Worker : due[w] # {} => pc'[w] \in Sending,
           \A v \in Worker : pc[v] \notin Ended =>
             /\ pc'[v] \notin Ended /\ fd'[v] = fd[v]
             /\ client'[v] = "here" => client[v] = "here"
    PROVE  Claims'
<1> SUFFICES ASSUME NEW w \in Worker, NEW v \in due[w]
             PROVE  /\ pc'[w] \in Sending /\ pc'[v] \notin Ended
                    /\ client'[v] = "here" =>
                         v \in got[w] \/ \E i \in DOMAIN targets[w] : targets[w][i] = fd'[v]
  BY DEF Claims, Reaches
<1>1. v \in Worker
  BY DEF Types
<1> QED BY <1>1 DEF Claims, Reaches

(* Whoever has a claim when the copy is made is in the copy. *)
LEMMA SnapshotClaims ==
    ASSUME Types, Ownership, Claims, NEW w \in Worker, Snapshot(w)
    PROVE  Claims'
<1>1. /\ UNCHANGED <<fd, client>>
      /\ targets' = [targets EXCEPT ![w] = Fds(chat)] /\ due' = [due EXCEPT ![w] = Members]
      /\ got' = [got EXCEPT ![w] = {}]
  BY DEF Snapshot
<1>2. /\ pc'[w] \in Sending /\ pc[w] \in Listed \ Sending
      /\ \A v \in Worker \ {w} : pc'[v] = pc[v]
  BY DEF Snapshot, Goto, Types, Sending, Listed
<1>3. \A x \in Listed : x \notin Ended
  BY DEF Listed, Sending, Ended
<1>4. \A x \in Sending : x \notin Ended
  BY DEF Sending, Ended
<1>5. ASSUME NEW v \in Members
      PROVE  v \in Worker /\ pc[v] \in Listed /\ \E i \in DOMAIN Fds(chat) : Fds(chat)[i] = fd[v]
  <2>1. PICK i \in DOMAIN chat : ~Stray(chat[i]) /\ chat[i].name = v
    BY DEF Members
  <2>2. chat[i].fd \in Fd /\ v \in Worker /\ owner[chat[i].fd] = v /\ pc[v] \in Listed
    BY <2>1, ChatEntries DEF Stray
  <2>3. fd[v] = chat[i].fd
    BY <2>2 DEF Ownership
  <2> QED BY <2>1, <2>2, <2>3 DEF Fds
<1> SUFFICES ASSUME NEW u \in Worker, NEW v \in due'[u]
             PROVE  /\ pc'[u] \in Sending /\ pc'[v] \notin Ended
                    /\ client'[v] = "here" => Reaches(u, v)'
  BY DEF Claims
<1>6. CASE u = w
  <2>1. v \in Members /\ targets'[u] = Fds(chat)
    BY <1>1, <1>6 DEF Types
  <2> QED BY <1>1, <1>2, <1>3, <1>4, <1>5, <1>6, <2>1 DEF Reaches
<1>7. CASE u # w
  <2>1. v \in due[u] /\ v \in Worker /\ targets'[u] = targets[u] /\ got'[u] = got[u]
    BY <1>1, <1>7 DEF Types
  <2>2. pc'[v] \notin Ended
    BY <1>2, <1>4, <2>1 DEF Claims
  <2> QED BY <1>1, <1>2, <1>7, <2>1, <2>2 DEF Claims, Reaches
<1> QED BY <1>6, <1>7

(* A send delivers to its head's owner and drops no other from the copy. *)
LEMMA SendClaims ==
    ASSUME Types, Ownership, Claims, NEW w \in Worker, SendLine(w)
    PROVE  Claims'
<1> DEFINE f == Head(targets[w])
<1>1. /\ UNCHANGED <<pc, fd, owner, due>>
      /\ targets' = [targets EXCEPT ![w] = Tail(@)]
      /\ got' = IF Delivers(f) THEN [got EXCEPT ![w] = @ \cup {owner[f]}] ELSE got
  BY DEF SendLine
<1>2. \A v \in Worker : client'[v] = "here" => client[v] = "here"
  BY DEF SendLine, Notice, Types
<1>3. targets[w] \in Seq(Fd) /\ targets[w] # <<>>
  BY DEF SendLine, Types
<1>4. /\ f = targets[w][1]
      /\ \A i \in DOMAIN targets[w] :
           i # 1 => i - 1 \in DOMAIN Tail(targets[w]) /\ Tail(targets[w])[i - 1] = targets[w][i]
  BY <1>3
<1> HIDE DEF f
<1> SUFFICES ASSUME NEW u \in Worker, NEW v \in due[u]
             PROVE  /\ pc[u] \in Sending /\ pc[v] \notin Ended
                    /\ client'[v] = "here" => Reaches(u, v)'
  BY <1>1 DEF Claims
<1>5. v \in Worker /\ pc[u] \in Sending /\ pc[v] \notin Ended
      /\ (client'[v] = "here" => client[v] = "here" /\ Reaches(u, v))
  BY <1>2 DEF Types, Claims
<1>6. CASE u = w
  <2>1. targets'[w] = Tail(targets[w]) /\ \A x \in got[w] : x \in got'[w]
    BY <1>1 DEF Types
  <2> SUFFICES ASSUME client'[v] = "here", v \notin got'[w]
               PROVE  \E i \in DOMAIN Tail(targets[w]) : Tail(targets[w])[i] = fd[v]
    BY <1>1, <1>5, <1>6, <2>1 DEF Reaches
  <2>2. PICK i \in DOMAIN targets[w] : targets[w][i] = fd[v]
    BY <1>5, <1>6, <2>1 DEF Reaches
  <2>3. CASE i = 1
    <3>1. owner[f] = v /\ Delivers(f)
      BY <1>4, <1>5, <2>2, <2>3 DEF Ownership, Delivers
    <3> QED BY <1>1, <3>1 DEF Types
  <2>4. CASE i # 1
    BY <1>4, <2>2, <2>4
  <2> QED BY <2>3, <2>4
<1>7. CASE u # w
  <2>1. targets'[u] = targets[u] /\ got'[u] = got[u]
    BY <1>1, <1>7 DEF Types
  <2> QED BY <1>1, <1>5, <2>1 DEF Reaches
<1> QED BY <1>6, <1>7

(* The histories of a connection end with its socket. *)
LEMMA CloseClaims ==
    ASSUME Types, Claims, NEW w \in Worker, Close(w), client' = client
    PROVE  Claims'
<1>1. \A u \in Worker \ {w} : pc'[u] = pc[u] /\ fd'[u] = fd[u] /\ targets'[u] = targets[u]
  BY DEF Close, Goto, Types
<1>2. /\ due'[w] = {}
      /\ \A u \in Worker \ {w} : due'[u] = due[u] \ {w} /\ got'[u] = got[u] \ {w}
  BY DEF Close
<1> SUFFICES ASSUME NEW u \in Worker \ {w}, NEW v \in due[u] \ {w}
             PROVE  /\ pc'[u] \in Sending /\ pc'[v] \notin Ended
                    /\ client[v] = "here" => Reaches(u, v)'
  BY <1>2 DEF Claims
<1>3. v \in Worker /\ pc[u] \in Sending /\ pc[v] \notin Ended
      /\ (client[v] = "here" => Reaches(u, v))
  BY DEF Types, Claims
<1> QED BY <1>1, <1>2, <1>3 DEF Reaches

(* Every step keeps the claims, other sessions' registering, leaving and   *)
(* closing included.                                                       *)
LEMMA ClaimsStep ==
    ASSUME Types, Ownership, Claims, [Next]_vars
    PROVE  Claims'
<1> USE DEF Types
<1>0. \A w \in Worker : due[w] # {} => pc[w] \in Sending
  BY DEF Claims
<1>1. CASE UNCHANGED vars
  BY <1>1, <1>0, SameClaims DEF vars, lines
<1>2. CASE Accept \/ Reject \/ AllocFails \/ Admit \/ ThreadFails
  <2>1. UNCHANGED <<pc, fd, client, targets, due, got>>
    BY <1>2 DEF Accept, Reject, AllocFails, Admit, ThreadFails, lines
  <2> QED BY <2>1, <1>0, SameClaims
<1>3. CASE StartThread
  <2>1. PICK w \in Worker \ Alive : /\ pc' = [pc EXCEPT ![w] = "login"]
                                    /\ fd' = [fd EXCEPT ![w] = mainFd]
                                    /\ client' = [client EXCEPT ![w] = "here"]
    BY <1>3 DEF StartThread
  <2>2. pc[w] \in Ended /\ due[w] = {}
    BY <2>1, <1>0 DEF Alive, Ended, Sending
  <2>3. UNCHANGED <<targets, due, got>>
    BY <1>3 DEF StartThread
  <2>4. \A v \in Worker : pc[v] \notin Ended =>
          pc'[v] = pc[v] /\ fd'[v] = fd[v] /\ client'[v] = client[v]
    BY <2>1, <2>2
  <2>5. \A v \in Worker : due[v] # {} => pc'[v] \in Sending
    BY <2>1, <2>2, <1>0
  <2> QED BY <2>3, <2>4, <2>5, SameClaims
<1>4. ASSUME NEW w \in Worker, EndThread(w) PROVE Claims'
  <2>1. /\ pc[w] \in Ended /\ pc[w] \notin Sending /\ UNCHANGED <<fd, client, targets, due, got>>
        /\ \A v \in Worker \ {w} : pc'[v] = pc[v]
    BY <1>4 DEF EndThread, Goto, lines, Ended, Sending
  <2> QED BY <2>1, <1>0, SameClaims
<1>5. ASSUME NEW w \in Worker,
             LoginEnds(w) \/ EnterPlay(w) \/ KeepAliveDue(w) \/ IdleOut(w) \/ RecvLine(w)
               \/ RecvEnd(w) \/ LeavePlay(w) \/ SendKeepAlive(w)
               \/ RegisterSocket(w) \/ UnregisterSocket(w)
      PROVE  Claims'
  <2>1. UNCHANGED <<fd, targets, due, got>>
    BY <1>5 DEF LoginEnds, EnterPlay, KeepAliveDue, IdleOut, RecvLine, RecvEnd, LeavePlay,
          SendKeepAlive, RegisterSocket, UnregisterSocket, lines
  <2>2. PICK step \in Steps : Goto(w, step) /\ pc[w] \notin Sending /\ step \notin Ended
    BY <1>5 DEF LoginEnds, EnterPlay, KeepAliveDue, IdleOut, RecvLine, RecvEnd, LeavePlay,
          SendKeepAlive, RegisterSocket, UnregisterSocket, Steps, InPlay, Sending, Ended
  <2>3. \A v \in Worker : client'[v] = "here" => client[v] = "here"
    BY <1>5 DEF LoginEnds, EnterPlay, KeepAliveDue, IdleOut, RecvLine, RecvEnd, LeavePlay,
          SendKeepAlive, RegisterSocket, UnregisterSocket, Notice
  <2>4. pc'[w] \notin Ended /\ \A v \in Worker \ {w} : pc'[v] = pc[v]
    BY <2>2, GotoStep
  <2> QED BY <2>1, <2>2, <2>3, <2>4, <1>0, SameClaims
<1>6. ASSUME NEW w \in Worker, LineSent(w) PROVE Claims'
  <2>1. PICK step \in Steps : Goto(w, step) /\ step \notin Ended
    BY <1>6 DEF LineSent, Steps, InPlay, Ended
  <2>2. pc'[w] \notin Ended /\ \A v \in Worker \ {w} : pc'[v] = pc[v]
    BY <2>1, GotoStep
  <2>3. /\ UNCHANGED <<fd, client, targets>> /\ due'[w] = {}
        /\ \A u \in Worker \ {w} : due'[u] = due[u] /\ got'[u] = got[u]
    BY <1>6 DEF LineSent
  <2> QED BY <2>2, <2>3 DEF Claims, Reaches
<1>7. ASSUME NEW w \in Worker, ClientGoes(w) \/ ClientStalls(w) \/ SigPipe(w) PROVE Claims'
  <2>1. UNCHANGED <<pc, fd, targets, due, got>>
    BY <1>7 DEF ClientGoes, ClientStalls, SigPipe, lines
  <2>2. \A v \in Worker : client'[v] = "here" => client[v] = "here"
    BY <1>7 DEF ClientGoes, ClientStalls, SigPipe, Gone
  <2> QED BY <2>1, <2>2, <1>0, SameClaims
<1>8. ASSUME NEW w \in Worker, CloseSocket(w) \/ Fault(w) PROVE Claims'
  BY <1>8, CloseClaims DEF CloseSocket, Fault
<1> QED
  BY <1>1, <1>2, <1>3, <1>4, <1>5, <1>6, <1>7, <1>8, SnapshotClaims, SendClaims
     DEF Next, AcceptLoop, Advance, Broadcast, Ending, Down

(* A line that goes astray goes to a connection accepted since. *)
LEMMA SameStrays ==
    ASSUME Types, Strays, UNCHANGED <<targets, due, got, fresh>>,
           \A w \in Worker : pc[w] \in Sending => pc'[w] \in Sending,
           faults' = 0 => faults = 0,
           \A f \in Fd : owner'[f] \in Worker => owner'[f] = owner[f]
    PROVE  Strays'
<1>1. \A w \in Worker : targets[w] # <<>> => pc'[w] \in Sending
  BY DEF Strays
<1>2. ASSUME faults' = 0, NEW w \in Worker
      PROVE  /\ \A i \in DOMAIN targets[w] : owner'[targets[w][i]] \in Worker =>
                  owner'[targets[w][i]] \in due[w] \cup fresh[w]
             /\ got[w] \ due[w] \subseteq fresh[w]
  <2>1. \A i \in DOMAIN targets[w] : targets[w][i] \in Fd
    BY ElementOfSeq DEF Types
  <2> QED BY <1>2, <2>1 DEF Strays
<1> QED BY <1>1, <1>2 DEF Strays

(* Without faults the copy holds the members' sockets and no other. *)
LEMMA SnapshotStrays ==
    ASSUME Types, Registry, Strays, NEW w \in Worker, Snapshot(w)
    PROVE  Strays'
<1>1. /\ UNCHANGED <<owner, faults>>
      /\ targets' = [targets EXCEPT ![w] = Fds(chat)] /\ due' = [due EXCEPT ![w] = Members]
      /\ got' = [got EXCEPT ![w] = {}] /\ fresh' = [fresh EXCEPT ![w] = {}]
  BY DEF Snapshot
<1>2. pc'[w] \in Sending /\ \A v \in Worker \ {w} : pc'[v] = pc[v]
  BY DEF Snapshot, Goto, Types, Sending
<1>3. \A u \in Worker \ {w} : /\ targets'[u] = targets[u] /\ due'[u] = due[u]
                              /\ got'[u] = got[u] /\ fresh'[u] = fresh[u]
  BY <1>1
<1>4. targets'[w] = Fds(chat) /\ due'[w] = Members /\ got'[w] = {}
  BY <1>1 DEF Types
<1>5. ASSUME faults = 0, NEW i \in DOMAIN Fds(chat), owner[Fds(chat)[i]] \in Worker
      PROVE  owner[Fds(chat)[i]] \in Members
  <2>1. StrayFds = {}
    <3>1. IsFiniteSet(StrayFds) /\ Cardinality(StrayFds) <= 0
      BY <1>5 DEF Registry
    <3>2. Cardinality(StrayFds) = 0
      BY <3>1, FS_CardinalityType
    <3> QED BY <3>1, <3>2, FS_EmptySet
  <2>2. i \in DOMAIN chat /\ Fds(chat)[i] = chat[i].fd /\ chat[i].fd \in Fd
    BY <1>5, ChatEntries DEF Fds
  <2>3. ~Stray(chat[i])
    BY <2>1, <2>2 DEF StrayFds
  <2> QED BY <2>2, <2>3 DEF Members, Stray
<1> QED BY <1>1, <1>2, <1>3, <1>4, <1>5 DEF Strays

(* What the head of the copy reaches had a claim or is new. *)
LEMMA SendStrays ==
    ASSUME Types, Strays, NEW w \in Worker, SendLine(w)
    PROVE  Strays'
<1> DEFINE f == Head(targets[w])
<1>1. /\ UNCHANGED <<pc, owner, due, fresh, faults>>
      /\ targets' = [targets EXCEPT ![w] = Tail(@)]
      /\ got' = IF Delivers(f) THEN [got EXCEPT ![w] = @ \cup {owner[f]}] ELSE got
  BY DEF SendLine
<1>2. targets[w] \in Seq(Fd) /\ targets[w] # <<>>
  BY DEF SendLine, Types
<1>3. /\ f = targets[w][1] /\ 1 \in DOMAIN targets[w]
      /\ \A i \in DOMAIN Tail(targets[w]) :
           i + 1 \in DOMAIN targets[w] /\ Tail(targets[w])[i] = targets[w][i + 1]
  BY <1>2
<1> HIDE DEF f
<1>4. targets'[w] = Tail(targets[w]) /\ \A u \in Worker \ {w} : targets'[u] = targets[u]
  BY <1>1 DEF Types
<1>5. /\ got'[w] \subseteq IF owner[f] \in Worker THEN got[w] \cup {owner[f]} ELSE got[w]
      /\ \A u \in Worker \ {w} : got'[u] = got[u]
  BY <1>1 DEF Types, Delivers
<1>6. \A u \in Worker : targets'[u] # <<>> => pc'[u] \in Sending
  BY <1>1, <1>2, <1>4 DEF Strays
<1>7. ASSUME faults = 0, NEW u \in Worker
      PROVE  /\ \A i \in DOMAIN targets'[u] : owner[targets'[u][i]] \in Worker =>
                  owner[targets'[u][i]] \in due[u] \cup fresh[u]
             /\ got'[u] \ due[u] \subseteq fresh[u]
  <2>1. /\ \A i \in DOMAIN targets[u] : owner[targets[u][i]] \in Worker =>
             owner[targets[u][i]] \in due[u] \cup fresh[u]
        /\ got[u] \ due[u] \subseteq fresh[u]
    BY <1>7 DEF Strays
  <2>2. CASE u = w
    <3>1. \A i \in DOMAIN Tail(targets[w]) : owner[Tail(targets[w])[i]] \in Worker =>
             owner[Tail(targets[w])[i]] \in due[w] \cup fresh[w]
      BY <1>3, <2>1, <2>2
    <3>2. owner[f] \in Worker => owner[f] \in due[w] \cup fresh[w]
      BY <1>3, <2>1, <2>2
    <3>3. got'[w] \ due[w] \subseteq fresh[w]
      BY <1>5, <2>1, <2>2, <3>2
    <3> QED BY <1>4, <2>2, <3>1, <3>3
  <2>3. CASE u # w
    BY <1>4, <1>5, <2>1, <2>3
  <2> QED BY <2>2, <2>3
<1> QED BY <1>1, <1>6, <1>7 DEF Strays

(* A thread that is given a descriptor of the copy is new to the broadcast. *)
LEMMA StartStrays ==
    ASSUME Types, Ownership, Strays, StartThread
    PROVE  Strays'
<1>1. PICK w \in Worker \ Alive :
        /\ pc' = [pc EXCEPT ![w] = "login"] /\ owner' = [owner EXCEPT ![mainFd] = w]
        /\ fresh' = [v \in Worker |-> IF pc[v] \in Sending THEN fresh[v] \cup {w} ELSE fresh[v]]
  BY DEF StartThread
<1>2. UNCHANGED <<targets, due, got, faults>>
  BY DEF StartThread
<1>3. pc[w] \notin Sending
  BY <1>1 DEF Alive, Sending
<1>4. \A u \in Worker : targets[u] # <<>> => pc'[u] \in Sending
  BY <1>1, <1>3 DEF Strays, Types
<1>5. ASSUME faults = 0, NEW u \in Worker
      PROVE  /\ \A i \in DOMAIN targets[u] : owner'[targets[u][i]] \in Worker =>
                  owner'[targets[u][i]] \in due[u] \cup fresh'[u]
             /\ got[u] \ due[u] \subseteq fresh'[u]
  <2>1. /\ \A i \in DOMAIN targets[u] : owner[targets[u][i]] \in Worker =>
             owner[targets[u][i]] \in due[u] \cup fresh[u]
        /\ got[u] \ due[u] \subseteq fresh[u]
    BY <1>5 DEF Strays
  <2>2. fresh[u] \subseteq fresh'[u]
    BY <1>1
  <2>3. ASSUME NEW i \in DOMAIN targets[u], owner'[targets[u][i]] \in Worker
        PROVE  owner'[targets[u][i]] \in due[u] \cup fresh'[u]
    <3>1. targets[u] # <<>> /\ targets[u][i] \in Fd
      BY <2>3, ElementOfSeq DEF Types
    <3>2. w \in fresh'[u]
      BY <1>1, <3>1 DEF Strays
    <3>3. CASE targets[u][i] = mainFd
      BY <1>1, <3>1, <3>2, <3>3 DEF Types
    <3>4. CASE targets[u][i] # mainFd
      BY <1>1, <2>1, <2>2, <2>3, <3>1, <3>4 DEF Types
    <3> QED BY <3>3, <3>4
  <2> QED BY <2>1, <2>2, <2>3
<1> QED BY <1>2, <1>4, <1>5 DEF Strays

(* A connection that ends is forgotten by every history at once. *)
LEMMA CloseStrays ==
    ASSUME Types, Ownership, Strays, NEW w \in Worker, pc[w] \notin Ended, Close(w),
           faults' = 0 => faults = 0
    PROVE  Strays'
<1>1. \A u \in Worker \ {w} : pc'[u] = pc[u] /\ targets'[u] = targets[u]
  BY DEF Close, Goto, Types
<1>2. targets'[w] = <<>> /\ got'[w] = {}
  BY DEF Close, Types
<1>3. \A u \in Worker \ {w} : /\ due'[u] = due[u] \ {w} /\ got'[u] = got[u] \ {w}
                              /\ fresh'[u] = fresh[u] \ {w}
  BY DEF Close
<1>4. \A f \in Fd : owner'[f] \in Worker => owner'[f] = owner[f] /\ owner'[f] # w
  BY NamesDistinct DEF Close, Types, Ownership
<1>5. \A u \in Worker : targets'[u] # <<>> => pc'[u] \in Sending
  BY <1>1, <1>2 DEF Strays
<1>6. ASSUME faults = 0, NEW u \in Worker \ {w}
      PROVE  /\ \A i \in DOMAIN targets[u] : owner'[targets[u][i]] \in Worker =>
                  owner'[targets[u][i]] \in due'[u] \cup fresh'[u]
             /\ got'[u] \ due'[u] \subseteq fresh'[u]
  <2>1. \A i \in DOMAIN targets[u] : targets[u][i] \in Fd
    BY ElementOfSeq DEF Types
  <2>2. /\ \A i \in DOMAIN targets[u] : owner[targets[u][i]] \in Worker =>
             owner[targets[u][i]] \in due[u] \cup fresh[u]
        /\ got[u] \ due[u] \subseteq fresh[u]
    BY <1>6 DEF Strays
  <2>3. \A i \in DOMAIN targets[u] : owner'[targets[u][i]] \in Worker =>
          owner'[targets[u][i]] \in due'[u] \cup fresh'[u]
    BY <1>3, <1>4, <2>1, <2>2
  <2>4. got'[u] \ due'[u] \subseteq fresh'[u]
    BY <1>3, <2>2
  <2> QED BY <2>3, <2>4
<1>7. \A i \in DOMAIN targets'[w] : FALSE
  BY <1>2
<1> QED BY <1>1, <1>2, <1>5, <1>6, <1>7 DEF Strays

(* Every step keeps lines from reaching an older connection by mistake. *)
LEMMA StraysStep ==
    ASSUME Types, Ownership, Registry, Strays, [Next]_vars
    PROVE  Strays'
<1> USE NamesDistinct
<1>1. CASE UNCHANGED vars
  BY <1>1, SameStrays DEF vars, lines
<1>2. CASE Accept \/ Reject \/ AllocFails \/ Admit \/ ThreadFails
  <2>1. UNCHANGED <<pc, faults, targets, due, got, fresh>>
    BY <1>2 DEF Accept, Reject, AllocFails, Admit, ThreadFails, lines
  <2>2. \A f \in Fd : owner'[f] \in Worker => owner'[f] = owner[f]
    BY <1>2 DEF Accept, Reject, AllocFails, Admit, ThreadFails, CloseMainFd, Types
  <2> QED BY <2>1, <2>2, SameStrays
<1>3. ASSUME NEW w \in Worker,
             LoginEnds(w) \/ EnterPlay(w) \/ KeepAliveDue(w) \/ IdleOut(w) \/ RecvLine(w)
               \/ RecvEnd(w) \/ LeavePlay(w) \/ SendKeepAlive(w)
               \/ RegisterSocket(w) \/ UnregisterSocket(w) \/ EndThread(w)
      PROVE  Strays'
  <2>1. UNCHANGED <<owner, faults, targets, due, got, fresh>>
    BY <1>3 DEF LoginEnds, EnterPlay, KeepAliveDue, IdleOut, RecvLine, RecvEnd, LeavePlay,
          SendKeepAlive, RegisterSocket, UnregisterSocket, EndThread, lines
  <2>2. PICK step \in Steps : Goto(w, step) /\ pc[w] \notin Sending
    BY <1>3 DEF LoginEnds, EnterPlay, KeepAliveDue, IdleOut, RecvLine, RecvEnd, LeavePlay,
          SendKeepAlive, RegisterSocket, UnregisterSocket, EndThread, Steps, InPlay, Sending
  <2>3. \A v \in Worker : pc[v] \in Sending => pc'[v] \in Sending
    BY <2>2, GotoStep DEF Types
  <2> QED BY <2>1, <2>3, SameStrays
<1>4. ASSUME NEW w \in Worker, LineSent(w) PROVE Strays'
  <2>1. PICK step \in Steps : Goto(w, step)
    BY <1>4 DEF LineSent, Steps, InPlay
  <2>2. \A v \in Worker \ {w} : pc'[v] = pc[v]
    BY <2>1, GotoStep DEF Types
  <2>3. /\ UNCHANGED <<owner, faults, targets>> /\ targets[w] = <<>> /\ got'[w] = {}
        /\ \A u \in Worker \ {w} : due'[u] = due[u] /\ got'[u] = got[u] /\ fresh'[u] = fresh[u]
    BY <1>4 DEF LineSent, Types
  <2>4. \A i \in DOMAIN targets'[w] : FALSE
    BY <2>3
  <2> QED BY <2>2, <2>3, <2>4 DEF Strays
<1>5. ASSUME NEW w \in Worker, ClientGoes(w) \/ ClientStalls(w) \/ SigPipe(w) PROVE Strays'
  <2>1. UNCHANGED <<pc, owner, faults, targets, due, got, fresh>>
    BY <1>5 DEF ClientGoes, ClientStalls, SigPipe, lines
  <2> QED BY <2>1, SameStrays
<1>6. ASSUME NEW w \in Worker, CloseSocket(w) \/ Fault(w) PROVE Strays'
  <2>1. faults' = 0 => faults = 0
    BY <1>6, LimitsAssumption DEF CloseSocket, Fault, Types
  <2>2. Close(w) /\ pc[w] \notin Ended
    BY <1>6 DEF CloseSocket, Fault, Ended, InPlay, Sending
  <2> QED BY <2>1, <2>2, CloseStrays
<1> QED
  BY <1>1, <1>2, <1>3, <1>4, <1>5, <1>6, SnapshotStrays, SendStrays, StartStrays
     DEF Next, AcceptLoop, Advance, Broadcast, Ending, Down

-----------------------------------------------------------------------------
(* The invariant holds, and what follows from it.                          *)

(* Nothing is connected, registered or counted at the start. *)
LEMMA HubInit == Init => HInv
<1> SUFFICES ASSUME Init PROVE HInv
  OBVIOUS
<1> USE NamesDistinct, LimitsAssumption DEF Init
<1>1. Types
  BY DEF Types, Steps
<1>2. Ownership
  BY DEF Ownership, Ended
<1>3. Alive = {} /\ Players = {} /\ StrayFds = {}
  BY DEF Alive, Players, InPlay, Sending, StrayFds
<1>4. Counted
  BY <1>3, FS_EmptySet DEF Counted, ConnectionLimit
<1>5. Online
  <2>1. {w \in Worker : pc[w] \in InPlay} = {}
    BY DEF InPlay, Sending
  <2>2. Cardinality({w \in Worker : pc[w] \in InPlay}) = 0
    BY <2>1, FS_EmptySet
  <2>3. playing - Cardinality({w \in Worker : pc[w] \in InPlay}) \in 0..faults
    BY <2>2
  <2> QED BY <1>3, <2>3, FS_EmptySet DEF Online, OnlineCount
<1>6. Registry
  BY <1>3, FS_EmptySet DEF Registry, Unique
<1>7. Claims /\ Strays
  BY DEF Claims, Strays
<1> QED BY <1>1, <1>2, <1>4, <1>5, <1>6, <1>7 DEF HInv

(* The invariant holds in every reachable state. *)
LEMMA HubInvariant == Spec => []HInv
<1>1. HInv /\ [Next]_vars => HInv'
  BY TypesStep, OwnershipStep, CountedStep, OnlineStep, RegistryStep, ClaimsStep, StraysStep
     DEF HInv
<1> QED BY <1>1, HubInit, PTL DEF Spec

(* Every variable keeps to its type; in particular neither counter ever    *)
(* falls below zero.                                                       *)
THEOREM HubTypes == Spec => []TypeOK
<1>1. HInv => TypeOK
  <2> SUFFICES ASSUME HInv PROVE TypeOK
    OBVIOUS
  <2>1. active \in Nat
    <3>1. active \in Int /\ Cardinality(Alive) \in Nat
      BY FS_CardinalityType DEF HInv, Types, Counted
    <3> QED BY <3>1 DEF HInv, Counted, ConnectionLimit
  <2>2. playing \in Nat
    <3>1. playing \in Int /\ Cardinality(Players) \in Nat /\ faults \in Nat
      BY FS_CardinalityType, LimitsAssumption DEF HInv, Types, Online
    <3>2. playing - Cardinality(Players) \in 0..faults
      BY DEF HInv, Online, OnlineCount, Players
    <3> QED BY <3>1, <3>2
  <2> QED BY <2>1, <2>2 DEF HInv, Types, TypeOK
<1> QED BY <1>1, HubInvariant, PTL

(* The counter of connections is exact whatever threads start and end      *)
(* meanwhile, so max_connections is never exceeded.                        *)
THEOREM LimitHolds == Spec => []ConnectionLimit
<1>1. HInv => ConnectionLimit
  BY DEF HInv, Counted
<1> QED BY <1>1, HubInvariant, PTL

(* The status response counts the sessions in play, and once too many for  *)
(* each worker that ended in __except, at most.                            *)
THEOREM OnlineIsPlaying == Spec => []OnlineCount
<1>1. HInv => OnlineCount
  BY DEF HInv, Online
<1> QED BY <1>1, HubInvariant, PTL

(* The registry holds the socket of a session in play in every entry but   *)
(* one at most for each fault, and none twice.                             *)
THEOREM RegistryHolds == Spec => []RegisteredAreInPlay
<1>1. HInv => RegisteredAreInPlay
  <2> SUFFICES ASSUME HInv PROVE RegisteredAreInPlay
    OBVIOUS
  <2> DEFINE I == {i \in DOMAIN chat : Stray(chat[i])}
             g == [i \in I |-> chat[i].fd]
  <2>1. Types /\ Registry
    BY DEF HInv
  <2>2. \A i \in DOMAIN chat : chat[i].fd \in Fd
    BY <2>1, ChatEntries
  <2>3. g \in Injection(I, StrayFds)
    BY <2>1, <2>2 DEF Injection, IsInjective, StrayFds, Registry, Unique
  <2> HIDE DEF g
  <2>4. IsFiniteSet(I) /\ Cardinality(I) <= Cardinality(StrayFds)
    BY <2>1, <2>3, FS_Injection DEF Registry
  <2>5. /\ Cardinality(I) \in Nat /\ Cardinality(StrayFds) \in Nat /\ faults \in Nat
        /\ Cardinality(StrayFds) <= faults
    BY <2>1, <2>4, FS_CardinalityType, LimitsAssumption DEF Registry, Types
  <2>6. Cardinality(I) <= faults
    BY <2>4, <2>5
  <2> QED BY <2>1, <2>6 DEF RegisteredAreInPlay, Registry, Unique
<1> QED BY <1>1, HubInvariant, PTL

(* No session registered when a broadcast began, and still reading when it *)
(* ends, is left out, whoever leaves meanwhile.                            *)
THEOREM BroadcastReaches == Spec => []NobodySkipped
<1>1. HInv => NobodySkipped
  <2> SUFFICES ASSUME HInv, NEW w \in Worker, targets[w] = <<>>,
                      NEW v \in due[w], client[v] = "here"
               PROVE  v \in got[w]
    BY DEF NobodySkipped
  <2>1. Reaches(w, v)
    BY DEF HInv, Claims
  <2>2. \A i \in DOMAIN targets[w] : FALSE
    OBVIOUS
  <2> QED BY <2>1, <2>2 DEF Reaches
<1> QED BY <1>1, HubInvariant, PTL

(* A line for a socket that was closed and reused reaches only connections *)
(* accepted after the broadcast began.                                     *)
THEOREM StrayLinesAreNew == Spec => []StraysAreNew
<1>1. HInv => StraysAreNew
  BY DEF HInv, Strays, StraysAreNew
<1> QED BY <1>1, HubInvariant, PTL
=============================================================================
