------------------------ MODULE EntityTracker_proofs ------------------------
(***************************************************************************)
(* Proofs about EntityTracker, for every value of its constants.  The      *)
(* invariant IInv is inductive: it adds to the checked invariants what the *)
(* loops keep true while they run and that the session's own entities stay *)
(* registered until it ends.                                               *)
(***************************************************************************)
EXTENDS EntityTracker, DataLemmas

-----------------------------------------------------------------------------
(* Lemmas on the list of tracked entries.                                  *)

(* Untracking entry i removes its id, and only its id, from the list. *)
LEMMA UntrackIds ==
    ASSUME NEW s \in Seq(Entry), Unique(s), NEW i \in 1..Len(s)
    PROVE  /\ Untrack(s, i) \in Seq(Entry)
           /\ Len(Untrack(s, i)) = Len(s) - 1
           /\ Unique(Untrack(s, i))
           /\ IdsIn(Untrack(s, i)) = IdsIn(s) \ {s[i].id}
           /\ ShownIn(Untrack(s, i)) = ShownIn(s) \ {s[i].id}
           /\ \A j \in 1..(Len(s) - 1) :
                 Untrack(s, i)[j] = IF j < i THEN s[j] ELSE s[j + 1]
<1> DEFINE t == Untrack(s, i)
<1>1. /\ t \in Seq(Entry) /\ Len(t) = Len(s) - 1
      /\ \A j \in 1..(Len(s) - 1) : t[j] = IF j < i THEN s[j] ELSE s[j + 1]
  BY RemoveAtEntries DEF Untrack
<1> HIDE DEF t
<1>2. DOMAIN t = 1..(Len(s) - 1) /\ DOMAIN s = 1..Len(s)
  BY <1>1
<1>3. Unique(t)
  BY <1>1, <1>2 DEF Unique
<1>4. \A j \in DOMAIN t : t[j].id # s[i].id
  BY <1>1, <1>2 DEF Unique
<1>5. \A j \in DOMAIN t : \E k \in DOMAIN s : t[j] = s[k]
  BY <1>1, <1>2
<1>6. \A k \in DOMAIN s : s[k].id # s[i].id => \E j \in DOMAIN t : t[j] = s[k]
  <2> SUFFICES ASSUME NEW k \in DOMAIN s, s[k].id # s[i].id
               PROVE  \E j \in DOMAIN t : t[j] = s[k]
    OBVIOUS
  <2>1. CASE k < i
    BY <1>1, <1>2, <2>1
  <2>2. CASE k > i
    <3>1. k - 1 \in DOMAIN t /\ t[k - 1] = s[k]
      BY <1>1, <1>2, <2>2
    <3> QED BY <3>1
  <2>3. k # i
    OBVIOUS
  <2> QED BY <1>2, <2>1, <2>2, <2>3
<1>7. IdsIn(t) = IdsIn(s) \ {s[i].id}
  BY <1>4, <1>5, <1>6 DEF IdsIn
<1>8. ShownIn(t) = ShownIn(s) \ {s[i].id}
  BY <1>4, <1>5, <1>6 DEF ShownIn
<1> QED BY <1>1, <1>3, <1>7, <1>8 DEF t

(* Tracking a new id adds it at the end. *)
LEMMA TrackIds ==
    ASSUME NEW s \in Seq(Entry), Unique(s), NEW e \in Entry, e.id \notin IdsIn(s)
    PROVE  /\ Append(s, e) \in Seq(Entry)
           /\ Len(Append(s, e)) = Len(s) + 1
           /\ Unique(Append(s, e))
           /\ IdsIn(Append(s, e)) = IdsIn(s) \cup {e.id}
           /\ ShownIn(Append(s, e)) =
                 ShownIn(s) \cup (IF e.visible THEN {e.id} ELSE {})
           /\ \A j \in 1..Len(s) : Append(s, e)[j] = s[j]
           /\ Append(s, e)[Len(s) + 1] = e
<1> DEFINE t == Append(s, e)
<1>1. /\ t \in Seq(Entry) /\ Len(t) = Len(s) + 1
      /\ \A j \in 1..Len(s) : t[j] = s[j]
      /\ t[Len(s) + 1] = e
  OBVIOUS
<1> HIDE DEF t
<1>2. DOMAIN t = 1..(Len(s) + 1) /\ DOMAIN s = 1..Len(s)
  BY <1>1
<1>3. \A j \in DOMAIN t : j \in DOMAIN s \/ j = Len(s) + 1
  BY <1>2
<1>4. \A j \in DOMAIN s : j \in DOMAIN t /\ t[j] = s[j]
  BY <1>1, <1>2
<1>5. Len(s) + 1 \in DOMAIN t /\ t[Len(s) + 1] = e
  BY <1>1, <1>2
<1>6. Unique(t)
  BY <1>3, <1>4, <1>5 DEF Unique, IdsIn
<1>7. IdsIn(t) = IdsIn(s) \cup {e.id}
  BY <1>3, <1>4, <1>5 DEF IdsIn
<1>8. ShownIn(t) = ShownIn(s) \cup (IF e.visible THEN {e.id} ELSE {})
  BY <1>3, <1>4, <1>5 DEF ShownIn
<1> QED BY <1>1, <1>6, <1>7, <1>8 DEF t

(* Setting the visible flag of an entry changes nothing else of it. *)
LEMMA FlagEntry ==
    ASSUME NEW e \in Entry, NEW b \in BOOLEAN
    PROVE  LET f == [e EXCEPT !.visible = b]
           IN  f \in Entry /\ f.id = e.id /\ f.type = e.type /\ f.visible = b
BY DEF Entry

(* Reconciling changes nothing of an entry but its visible flag. *)
LEMMA ReconcileEntries ==
    ASSUME tracked \in Seq(Entry), Unique(tracked),
           NEW which \in SUBSET DOMAIN tracked, NEW reg, NEW c
    PROVE  LET r == Reconciled(which, reg, c)
           IN  /\ r \in Seq(Entry)
               /\ Len(r) = Len(tracked)
               /\ DOMAIN r = DOMAIN tracked
               /\ Unique(r)
               /\ IdsIn(r) = TrackedIds
               /\ \A j \in DOMAIN tracked :
                     /\ r[j].id = tracked[j].id
                     /\ r[j].type = tracked[j].type
                     /\ r[j].visible = IF j \in which
                                       THEN Visible(tracked[j].id, reg, c)
                                       ELSE tracked[j].visible
<1> DEFINE r == Reconciled(which, reg, c)
<1>1. \A id : Visible(id, reg, c) \in BOOLEAN
  BY DEF Visible
<1>2. DOMAIN tracked = 1..Len(tracked) /\ Len(tracked) \in Nat
  OBVIOUS
<1>3. \A j \in DOMAIN tracked : tracked[j] \in Entry
  OBVIOUS
<1>4. DOMAIN r = DOMAIN tracked
  BY DEF Reconciled
<1>5. \A j \in DOMAIN tracked :
         r[j] = IF j \in which
                THEN [tracked[j] EXCEPT !.visible = Visible(tracked[j].id, reg, c)]
                ELSE tracked[j]
  BY DEF Reconciled
<1> HIDE DEF r
<1>6. ASSUME NEW j \in DOMAIN tracked
      PROVE  /\ r[j] \in Entry
             /\ r[j].id = tracked[j].id
             /\ r[j].type = tracked[j].type
             /\ r[j].visible = IF j \in which
                               THEN Visible(tracked[j].id, reg, c)
                               ELSE tracked[j].visible
  <2>1. CASE j \in which
    <3> DEFINE b == Visible(tracked[j].id, reg, c)
    <3>1. b \in BOOLEAN
      BY <1>1
    <3>2. r[j] = [tracked[j] EXCEPT !.visible = b]
      BY <1>5, <2>1
    <3> HIDE DEF b
    <3>3. /\ [tracked[j] EXCEPT !.visible = b] \in Entry
          /\ [tracked[j] EXCEPT !.visible = b].id = tracked[j].id
          /\ [tracked[j] EXCEPT !.visible = b].type = tracked[j].type
          /\ [tracked[j] EXCEPT !.visible = b].visible = b
      BY <1>3, <3>1, FlagEntry
    <3> QED BY <2>1, <3>2, <3>3 DEF b
  <2>2. CASE j \notin which
    BY <1>3, <1>5, <2>2
  <2> QED BY <2>1, <2>2
<1>7. r = [j \in 1..Len(tracked) |-> r[j]]
  BY <1>2, <1>4, <1>5 DEF r, Reconciled
<1>8. r \in Seq(Entry) /\ Len(r) = Len(tracked)
  BY <1>2, <1>6, <1>7
<1>9. Unique(r)
  BY <1>4, <1>6 DEF Unique
<1>10. IdsIn(r) = TrackedIds
  BY <1>4, <1>6 DEF IdsIn, TrackedIds
<1> QED BY <1>4, <1>6, <1>8, <1>9, <1>10 DEF r

-----------------------------------------------------------------------------
(* Lemmas on the event queue.                                              *)

Queues == [count : 0..EventCap, last : {NoUpdate, Player} \cup MockIds, dropped : BOOLEAN]

(* An event that does not fit is the only one that is dropped. *)
LEMMA PushQueue ==
    ASSUME NEW q \in Queues, NEW u \in {NoUpdate, Player} \cup MockIds
    PROVE  /\ Push(q, u) \in Queues
           /\ ~Push(q, u).dropped => ~q.dropped /\ q.count < EventCap
<1>1. CASE q.count >= EventCap
  <2>1. Push(q, u) = [q EXCEPT !.dropped = TRUE]
    BY <1>1 DEF Push
  <2>2. [q EXCEPT !.dropped = TRUE] \in Queues
    BY DEF Queues
  <2>3. [q EXCEPT !.dropped = TRUE].dropped
    BY DEF Queues
  <2> QED BY <2>1, <2>2, <2>3
<1>2. CASE ~(q.count >= EventCap)
  <2>1. Push(q, u) = [q EXCEPT !.count = @ + 1, !.last = u]
    BY <1>2 DEF Push
  <2>2. q.count \in 0..EventCap /\ q.count < EventCap
    BY <1>2, CapsAssumption DEF Queues
  <2> DEFINE p == [q EXCEPT !.count = @ + 1, !.last = u]
  <2>3. p.dropped = q.dropped
    BY DEF Queues
  <2>4. p \in Queues
    <3>1. q.count + 1 \in 0..EventCap
      BY <2>2, CapsAssumption
    <3> QED BY <3>1 DEF Queues
  <2> QED BY <2>1, <2>2, <2>3, <2>4
<1> QED BY <1>1, <1>2

(* An UPDATE event leaves a queue, and a dropped event is never forgotten. *)
LEMMA PushUpdateQueue ==
    ASSUME NEW q \in Queues, NEW u \in {Player} \cup MockIds
    PROVE  /\ PushUpdate(q, u) \in Queues
           /\ ~PushUpdate(q, u).dropped => ~q.dropped
BY PushQueue DEF PushUpdate

-----------------------------------------------------------------------------
(* The data part of the invariant, true while the session is open.         *)

DataType ==
    /\ DOMAIN registry \subseteq {Player} \cup MockIds \cup Id
    /\ registry \in [DOMAIN registry -> Place]
    /\ queue \in Queues
    /\ tracked \in Seq(Entry)
    /\ Len(tracked) <= TrackedCap
    /\ Unique(tracked)
    /\ mockShown \subseteq MockIds
    /\ client \subseteq MockIds \cup Id
    /\ center \in Place

World ==
    /\ DataType
    /\ {Player} \cup MockIds \subseteq Registered
    /\ ShownTracked \cup mockShown \subseteq client
    /\ NothingLost

Exact ==
    /\ \A j \in DOMAIN tracked :
          tracked[j].visible <=> Visible(tracked[j].id, registry, center)
    /\ mockShown = {m \in MockIds : Visible(m, registry, center)}

data == <<registry, queue, tracked, mockShown, client, center>>

(* The ids of the session's own entities are never given out again. *)
LEMMA OwnIds ==
    /\ Player \notin Id /\ Player \notin MockIds
    /\ MockIds \cap Id = {}
    /\ NoUpdate \notin Id /\ NoUpdate \notin MockIds /\ NoUpdate # Player
BY IdsDistinct DEF MockIds

(* An entry leaves: the registry first, then the screen, then the list. *)
LEMMA EntryLeaves ==
    ASSUME World, NEW i \in DOMAIN tracked,
           QueueRemove(tracked[i].id),
           tracked' = Untrack(tracked, i),
           \/ client' = client \ {tracked[i].id}
           \/ client' = client /\ ~tracked[i].visible,
           UNCHANGED <<mockShown, center>>
    PROVE  World' /\ (Exact => Exact')
<1> DEFINE id == tracked[i].id
<1>1. /\ tracked \in Seq(Entry) /\ Unique(tracked) /\ DOMAIN tracked = 1..Len(tracked)
      /\ Len(tracked) \in Nat /\ \A j \in DOMAIN tracked : tracked[j] \in Entry
  BY DEF World, DataType
<1>2. i \in 1..Len(tracked) /\ id \in Id /\ id \in TrackedIds
  BY <1>1 DEF Entry, TrackedIds, IdsIn
<1>3. /\ tracked' \in Seq(Entry) /\ Len(tracked') = Len(tracked) - 1
      /\ Unique(tracked')
      /\ TrackedIds' = TrackedIds \ {id}
      /\ ShownTracked' = ShownTracked \ {id}
      /\ \A j \in 1..(Len(tracked) - 1) :
            tracked'[j] = IF j < i THEN tracked[j] ELSE tracked[j + 1]
  BY <1>1, <1>2, UntrackIds DEF TrackedIds, ShownTracked
<1>4. ~tracked[i].visible => id \notin ShownTracked
  BY <1>1 DEF ShownTracked, ShownIn, Unique
<1>5. registry' = [x \in Registered \ {id} |-> registry[x]]
  BY DEF QueueRemove, Without, Restrict, Registered
<1>6. Registered' = Registered \ {id}
  BY <1>5 DEF Registered
<1>7. queue' \in Queues /\ (~queue'.dropped => ~queue.dropped)
  BY PushQueue DEF QueueRemove, World, DataType
<1>8. client' \subseteq client /\ client \ client' \subseteq {id}
  OBVIOUS
<1> HIDE DEF id
<1>9. DataType'
  <2>1. DOMAIN registry' \subseteq {Player} \cup MockIds \cup Id /\ registry' \in [DOMAIN registry' -> Place]
    BY <1>5 DEF World, DataType, Registered
  <2>2. Len(tracked') <= TrackedCap
    BY <1>1, <1>3, CapsAssumption DEF World, DataType
  <2> QED BY <1>3, <1>7, <1>8, <2>1, <2>2 DEF World, DataType
<1>10. ({Player} \cup MockIds \subseteq Registered)'
  BY <1>2, <1>6, OwnIds DEF World, MockIds
<1>11. (ShownTracked \cup mockShown \subseteq client)'
  BY <1>2, <1>3, <1>8, OwnIds DEF World, DataType, id
<1>12. NothingLost'
  <2> SUFFICES ASSUME ~queue'.dropped
               PROVE  TrackedIds' \subseteq Registered' /\ Orphans' = Ghosts'
    BY DEF NothingLost
  <2>1. TrackedIds \subseteq Registered /\ Orphans = Ghosts
    BY <1>7 DEF World, NothingLost
  <2>2. Orphans' = Orphans
    BY <1>2, <1>3, <1>6 DEF Orphans, MockIds
  <2>3. id \notin Ghosts
    BY <1>2, <2>1 DEF Orphans
  <2>4. id \notin mockShown
    BY <1>2, OwnIds DEF World, DataType
  <2>5. Ghosts' = Ghosts
    <3>1. CASE client' = client \ {id}
      BY <1>3, <2>3, <2>4, <3>1 DEF Ghosts
    <3>2. CASE client' = client /\ ~tracked[i].visible
      BY <1>3, <1>4, <3>2 DEF Ghosts
    <3> QED BY <3>1, <3>2 DEF id
  <2> QED BY <1>3, <1>6, <2>1, <2>2, <2>5
<1>13. Exact => Exact'
  <2> SUFFICES ASSUME Exact PROVE Exact'
    OBVIOUS
  <2>1. \A x : x # id => (Visible(x, registry', center') <=> Visible(x, registry, center))
    BY <1>5 DEF Visible, Registered
  <2>2. \A m \in MockIds : m # id
    BY <1>2, OwnIds
  <2>3. mockShown' = {m \in MockIds : Visible(m, registry', center')}
    BY <2>1, <2>2 DEF Exact
  <2>4. ASSUME NEW j \in DOMAIN tracked'
        PROVE  tracked'[j].visible <=> Visible(tracked'[j].id, registry', center')
    <3>1. \E k \in DOMAIN tracked : tracked'[j] = tracked[k] /\ k # i
      <4>1. j \in 1..(Len(tracked) - 1)
        BY <1>3
      <4>2. CASE j < i
        BY <1>1, <1>3, <4>1, <4>2
      <4>3. CASE ~(j < i)
        <5>1. j + 1 \in DOMAIN tracked /\ j + 1 # i
          BY <1>1, <1>2, <4>1, <4>3
        <5> QED BY <1>3, <4>1, <4>3, <5>1
      <4> QED BY <4>2, <4>3
    <3>2. PICK k \in DOMAIN tracked : tracked'[j] = tracked[k] /\ k # i
      BY <3>1
    <3>3. tracked[k].id # id
      BY <3>2 DEF World, DataType, Unique, id
    <3> QED BY <2>1, <3>2, <3>3 DEF Exact
  <2> QED BY <2>3, <2>4 DEF Exact
<1> QED BY <1>9, <1>10, <1>11, <1>12, <1>13 DEF World

(* A new entity: in the registry, and in the list unless the event did not *)
(* fit or the list is full; in the last case it is drawn nevertheless.     *)
LEMMA EntryArrives ==
    ASSUME World, NEW id \in Fresh, NEW place \in Place,
           NEW e \in Entry, e.id = id,
           registry' = With(registry, id, place),
           queue' = Push(queue, NoUpdate),
           \/ QueueFull /\ tracked' = tracked /\ client' = client
           \/ /\ ~QueueFull /\ Len(tracked) < TrackedCap
              /\ tracked' = Append(tracked, e)
              /\ client' = IF e.visible THEN client \cup {id} ELSE client
           \/ ~QueueFull /\ tracked' = tracked /\ client' = client \cup {id},
           UNCHANGED <<mockShown, center>>
    PROVE  World' /\ (Exact /\ (e.visible <=> InRange(place, center)) => Exact')
<1>1. /\ id \in Id /\ id \notin Registered /\ id \notin TrackedIds /\ id \notin client
      /\ id \notin MockIds /\ id # Player
  BY OwnIds DEF Fresh
<1>3. /\ tracked \in Seq(Entry) /\ Unique(tracked) /\ DOMAIN tracked = 1..Len(tracked)
      /\ Len(tracked) \in Nat
  BY DEF World, DataType
<1>4. /\ registry' = [x \in Registered \cup {id} |-> IF x = id THEN place ELSE registry[x]]
      /\ Registered' = Registered \cup {id}
  BY DEF With, Registered
<1>5. queue' \in Queues /\ (~queue'.dropped => ~queue.dropped /\ ~QueueFull)
  BY PushQueue, CapsAssumption DEF World, DataType, QueueFull, Queues
<1>6. \A x : x # id => (Visible(x, registry', center') <=> Visible(x, registry, center))
  BY <1>4 DEF Visible, Registered
<1>7. mockShown' = mockShown /\ center' = center
  OBVIOUS
<1>8. id \notin ShownTracked /\ id \notin mockShown
  BY <1>1 DEF World, DataType
<1>9. (DOMAIN registry \subseteq {Player} \cup MockIds \cup Id
         /\ registry \in [DOMAIN registry -> Place])'
  BY <1>1, <1>4 DEF World, DataType, Registered
<1>10. ({Player} \cup MockIds \subseteq Registered)'
  BY <1>4 DEF World, MockIds
<1>11. CASE tracked' = tracked
  <2>1. TrackedIds' = TrackedIds /\ ShownTracked' = ShownTracked
    BY <1>11 DEF TrackedIds, ShownTracked, IdsIn, ShownIn
  <2>2. client \subseteq client' /\ client' \subseteq client \cup {id}
    BY <1>11
  <2>3. DataType'
    BY <1>1, <1>5, <1>7, <1>9, <1>11, <2>2 DEF World, DataType
  <2>4. (ShownTracked \cup mockShown \subseteq client)'
    BY <1>7, <2>1, <2>2 DEF World
  <2>5. NothingLost'
    <3> SUFFICES ASSUME ~queue'.dropped
                 PROVE  TrackedIds' \subseteq Registered' /\ Orphans' = Ghosts'
      BY DEF NothingLost
    <3>1. ~QueueFull /\ TrackedIds \subseteq Registered /\ Orphans = Ghosts
      BY <1>5 DEF World, NothingLost
    <3>2. client' = client \cup {id}
      <4>1. tracked' # Append(tracked, e)
        <5>1. Len(Append(tracked, e)) = Len(tracked) + 1
          BY <1>3
        <5>2. Len(tracked) \in Nat
          BY <1>3
        <5>3. \A n \in Nat : n # n + 1
          OBVIOUS
        <5> QED BY <1>11, <5>1, <5>2, <5>3
      <4> QED BY <3>1, <4>1
    <3>3. Orphans' = Orphans \cup {id}
      BY <1>1, <1>4, <2>1 DEF Orphans, MockIds
    <3>4. Ghosts' = Ghosts \cup {id}
      BY <1>7, <1>8, <2>1, <3>2 DEF Ghosts
    <3> QED BY <1>4, <2>1, <3>1, <3>3, <3>4
  <2>6. Exact => Exact'
    <3> SUFFICES ASSUME Exact PROVE Exact'
      OBVIOUS
    <3>1. \A j \in DOMAIN tracked : tracked[j].id # id
      BY <1>1 DEF TrackedIds, IdsIn
    <3>2. \A m \in MockIds : m # id
      BY <1>1
    <3> QED BY <1>6, <1>7, <1>11, <3>1, <3>2 DEF Exact
  <2> QED BY <1>10, <2>3, <2>4, <2>5, <2>6 DEF World
<1>12. CASE tracked' # tracked
  <2>1. client' = IF e.visible THEN client \cup {id} ELSE client
    BY <1>12
  <2>7. Len(tracked) < TrackedCap /\ tracked' = Append(tracked, e)
    BY <1>12
  <2>2. /\ tracked' \in Seq(Entry) /\ Len(tracked') = Len(tracked) + 1
        /\ Unique(tracked')
        /\ TrackedIds' = TrackedIds \cup {id}
        /\ ShownTracked' = ShownTracked \cup (IF e.visible THEN {id} ELSE {})
        /\ \A j \in 1..Len(tracked) : tracked'[j] = tracked[j]
        /\ tracked'[Len(tracked) + 1] = e
    BY <1>1, <1>3, <2>7, TrackIds DEF TrackedIds, ShownTracked
  <2>3. DataType'
    <3>1. Len(tracked') <= TrackedCap
      <4>1. Len(tracked) \in Nat /\ TrackedCap \in Nat
        BY <1>3, CapsAssumption
      <4>2. Len(tracked) < TrackedCap /\ Len(tracked') = Len(tracked) + 1
        BY <2>2, <2>7
      <4> QED BY <4>1, <4>2
    <3> QED BY <1>1, <1>5, <1>7, <1>9, <2>1, <2>2, <3>1 DEF World, DataType
  <2>4. (ShownTracked \cup mockShown \subseteq client)'
    BY <1>7, <2>1, <2>2 DEF World
  <2>5. NothingLost'
    <3> SUFFICES ASSUME ~queue'.dropped
                 PROVE  TrackedIds' \subseteq Registered' /\ Orphans' = Ghosts'
      BY DEF NothingLost
    <3>1. TrackedIds \subseteq Registered /\ Orphans = Ghosts
      BY <1>5 DEF World, NothingLost
    <3>2. Orphans' = Orphans
      BY <1>1, <1>4, <2>2 DEF Orphans, MockIds
    <3>3. Ghosts' = Ghosts
      BY <1>1, <1>7, <1>8, <2>1, <2>2 DEF Ghosts
    <3> QED BY <1>4, <2>2, <3>1, <3>2, <3>3
  <2>6. ASSUME Exact, e.visible <=> InRange(place, center) PROVE Exact'
    <3>1. \A m \in MockIds : m # id
      BY <1>1
    <3>2. mockShown' = {m \in MockIds : Visible(m, registry', center')}
      BY <1>6, <1>7, <2>6, <3>1 DEF Exact
    <3>3. e.visible <=> Visible(id, registry', center')
      BY <1>4, <1>7, <2>6 DEF Visible
    <3>4. ASSUME NEW j \in DOMAIN tracked'
          PROVE  tracked'[j].visible <=> Visible(tracked'[j].id, registry', center')
      <4>1. j \in DOMAIN tracked \/ j = Len(tracked) + 1
        BY <1>3, <2>2
      <4>2. CASE j \in DOMAIN tracked
        <5>1. tracked'[j] = tracked[j] /\ tracked[j].id # id
          BY <1>1, <1>3, <2>2, <4>2 DEF TrackedIds, IdsIn
        <5> QED BY <1>6, <2>6, <4>2, <5>1 DEF Exact
      <4>3. CASE j = Len(tracked) + 1
        BY <2>2, <3>3, <4>3
      <4> QED BY <4>1, <4>2, <4>3
    <3> QED BY <3>2, <3>4 DEF Exact
  <2> QED BY <1>10, <2>3, <2>4, <2>5, <2>6 DEF World
<1> QED BY <1>11, <1>12

(* The loops that spawn mobs keep the data part, and a view that is exact. *)
LEMMA SpawnStep ==
    ASSUME World, SpawnMob, UNCHANGED <<mockShown, center>>
    PROVE  /\ World'
           /\ Exact => Exact'
           /\ \/ tracked' = tracked
              \/ \E e \in Entry : e.type = "mob" /\ tracked' = Append(tracked, e)
<1>1. CASE UNCHANGED <<registry, queue, tracked, client>>
  <2>1. UNCHANGED data
    BY <1>1 DEF data
  <2>2. World' <=> World
    BY <2>1 DEF World, DataType, NothingLost, Registered, ShownTracked, TrackedIds, IdsIn,
                ShownIn, Orphans, Ghosts, data, MockIds, Unique
  <2>3. Exact' <=> Exact
    BY <2>1 DEF Exact, data
  <2> QED BY <1>1, <2>2, <2>3
<1>2. CASE \E id \in Fresh, place \in Place : SpawnMobAt(id, place)
  <2> PICK id \in Fresh, place \in Place : SpawnMobAt(id, place)
    BY <1>2
  <2> DEFINE vis == InRange(place, center)
  <2>1. vis \in BOOLEAN
    BY DEF InRange
  <2>2. id \in Id
    BY DEF Fresh
  <2> DEFINE e == [id |-> id, type |-> "mob", visible |-> vis]
  <2>4. e \in Entry /\ e.id = id /\ e.type = "mob" /\ (e.visible <=> InRange(place, center))
    BY <2>1, <2>2 DEF Entry
  <2> HIDE DEF vis
  <2>5. /\ registry' = With(registry, id, place)
        /\ queue' = Push(queue, NoUpdate)
        /\ \/ QueueFull /\ tracked' = tracked /\ client' = client
           \/ /\ ~QueueFull /\ Len(tracked) < TrackedCap
              /\ tracked' = Append(tracked, e)
              /\ client' = IF InRange(place, center) THEN client \cup {id} ELSE client
           \/ ~QueueFull /\ tracked' = tracked /\ client' = client \cup {id}
    BY DEF vis, SpawnMobAt
  <2> HIDE DEF e
  <2>6. World' /\ (Exact /\ (e.visible <=> InRange(place, center)) => Exact')
    BY <2>4, <2>5, EntryArrives
  <2>7. tracked' = tracked \/ tracked' = Append(tracked, e)
    BY <2>5
  <2> QED BY <2>4, <2>6, <2>7
<1> QED BY <1>1, <1>2 DEF SpawnMob

(* What is tracked carries ids given out by spawn_auto. *)
LEMMA TrackedAreIds ==
    ASSUME tracked \in Seq(Entry)
    PROVE  /\ \A j \in DOMAIN tracked : tracked[j].id \in Id
           /\ TrackedIds \subseteq Id /\ ShownTracked \subseteq TrackedIds
<1>1. \A j \in DOMAIN tracked : tracked[j] \in Entry
  OBVIOUS
<1>2. \A j \in DOMAIN tracked : tracked[j].id \in Id
  BY <1>1 DEF Entry
<1> QED BY <1>2 DEF TrackedIds, ShownTracked, IdsIn, ShownIn

(* Redrawing: reconciled entries and mocks, and the packets that follow.   *)
LEMMA ViewRedrawn ==
    ASSUME World, NEW which \in SUBSET DOMAIN tracked,
           registry' \in [Registered -> Place], center' \in Place,
           queue' \in Queues, ~queue'.dropped => ~queue.dropped,
           tracked' = Reconciled(which, registry', center'),
           mockShown' \subseteq MockIds,
           client' = (client \ (ShownTracked \cup mockShown)) \cup (ShownTracked' \cup mockShown')
    PROVE  /\ World'
           /\ DOMAIN tracked' = DOMAIN tracked
           /\ \A j \in DOMAIN tracked :
                 /\ tracked'[j].id = tracked[j].id
                 /\ tracked'[j].type = tracked[j].type
                 /\ tracked'[j].visible = IF j \in which
                                          THEN Visible(tracked[j].id, registry', center')
                                          ELSE tracked[j].visible
<1>1. /\ tracked' \in Seq(Entry) /\ Len(tracked') = Len(tracked)
      /\ DOMAIN tracked' = DOMAIN tracked /\ Unique(tracked')
      /\ TrackedIds' = TrackedIds
      /\ \A j \in DOMAIN tracked :
            /\ tracked'[j].id = tracked[j].id
            /\ tracked'[j].type = tracked[j].type
            /\ tracked'[j].visible = IF j \in which
                                     THEN Visible(tracked[j].id, registry', center')
                                     ELSE tracked[j].visible
  BY ReconcileEntries DEF World, DataType, TrackedIds
<1>2. Registered' = Registered
  BY DEF Registered
<1>3. ShownTracked' \subseteq TrackedIds'
  BY DEF ShownTracked, TrackedIds, ShownIn, IdsIn
<1>4. TrackedIds \subseteq Id
  BY TrackedAreIds DEF World, DataType
<1>5. DataType'
  <2>1. client' \subseteq MockIds \cup Id
    BY <1>1, <1>3, <1>4 DEF World, DataType
  <2>2. (DOMAIN registry \subseteq {Player} \cup MockIds \cup Id
           /\ registry \in [DOMAIN registry -> Place])'
    BY <1>2 DEF World, DataType, Registered
  <2> QED BY <1>1, <2>1, <2>2 DEF World, DataType
<1>6. NothingLost'
  <2> SUFFICES ASSUME ~queue'.dropped
               PROVE  TrackedIds' \subseteq Registered' /\ Orphans' = Ghosts'
    BY DEF NothingLost
  <2>1. TrackedIds \subseteq Registered /\ Orphans = Ghosts
    BY DEF World, NothingLost
  <2>2. Orphans' = Orphans
    BY <1>1, <1>2 DEF Orphans, MockIds
  <2>3. Orphans \cap (ShownTracked' \cup mockShown') = {}
    BY <1>1, <1>3 DEF Orphans
  <2>4. Ghosts' = (client \ (ShownTracked \cup mockShown)) \ (ShownTracked' \cup mockShown')
    BY DEF Ghosts
  <2>5. Ghosts' = Ghosts
    BY <2>1, <2>3, <2>4 DEF Ghosts
  <2> QED BY <1>1, <1>2, <2>1, <2>2, <2>5
<1>7. ({Player} \cup MockIds \subseteq Registered)'
  BY <1>2 DEF World, MockIds
<1> QED BY <1>1, <1>5, <1>6, <1>7 DEF World

(* What the packets of a redraw make of the screen. *)
LEMMA DrawnScreen ==
    ASSUME NEW screen, NEW before \in SUBSET screen, NEW after
    PROVE  Drawn(screen, before, after) = (screen \ before) \cup after
BY DEF Drawn

(* The redraw of the mocks makes the view exact when entity packets are on. *)
LEMMA MocksMove ==
    ASSUME World, MoveMocks
    PROVE  World' /\ (Packets => Exact')
<1> PICK to \in [MockIds -> Place] :
       LET reg     == [x \in Registered |-> IF x \in MockIds THEN to[x] ELSE registry[x]]
           shown   == {m \in MockIds : Visible(m, reg, center)}
           entries == Reconciled(DOMAIN tracked, reg, center)
           emitted == IF Packets THEN mockShown \cap shown ELSE MockIds
           afterA  == IF MockA \in emitted THEN PushUpdate(queue, MockA) ELSE queue
       IN  /\ registry' = reg
           /\ queue' = IF MockB \in emitted THEN PushUpdate(afterA, MockB) ELSE afterA
           /\ IF Packets
              THEN /\ mockShown' = shown
                   /\ tracked' = entries
                   /\ client' = Drawn(client, mockShown \cup ShownTracked,
                                              shown \cup ShownIn(entries))
              ELSE UNCHANGED <<mockShown, tracked, client>>
  BY DEF MoveMocks
<1> DEFINE reg == [x \in Registered |-> IF x \in MockIds THEN to[x] ELSE registry[x]]
           shown == {m \in MockIds : Visible(m, reg, center)}
           emitted == IF Packets THEN mockShown \cap shown ELSE MockIds
           afterA == IF MockA \in emitted THEN PushUpdate(queue, MockA) ELSE queue
<1>1. registry' = reg /\ center' = center
  BY DEF MoveMocks
<1>2. reg \in [Registered -> Place]
  BY DEF World, DataType, Registered
<1>3. queue' \in Queues /\ (~queue'.dropped => ~queue.dropped)
  <2>1. queue' = IF MockB \in emitted THEN PushUpdate(afterA, MockB) ELSE afterA
    OBVIOUS
  <2>2. emitted \subseteq MockIds
    BY DEF World, DataType
  <2> HIDE DEF emitted
  <2>3. queue \in Queues
    BY DEF World, DataType
  <2>4. afterA \in Queues /\ (~afterA.dropped => ~queue.dropped)
    BY <2>2, <2>3, PushUpdateQueue
  <2> HIDE DEF afterA
  <2> QED BY <2>1, <2>2, <2>4, PushUpdateQueue
<1>4. CASE Packets
  <2>1. mockShown' = shown /\ tracked' = Reconciled(DOMAIN tracked, reg, center)
    BY <1>4
  <2>2. client' = Drawn(client, mockShown \cup ShownTracked, mockShown' \cup ShownTracked')
    BY <1>4, <2>1 DEF ShownTracked
  <2>3. client' = (client \ (ShownTracked \cup mockShown)) \cup (ShownTracked' \cup mockShown')
    BY <2>2, DrawnScreen DEF World
  <2>4. mockShown' \subseteq MockIds
    BY <2>1
  <2>5. tracked' = Reconciled(DOMAIN tracked, registry', center')
    BY <1>1, <2>1
  <2>6. /\ World'
        /\ DOMAIN tracked' = DOMAIN tracked
        /\ \A j \in DOMAIN tracked :
              /\ tracked'[j].id = tracked[j].id
              /\ tracked'[j].visible = Visible(tracked[j].id, registry', center')
    BY <1>1, <1>2, <1>3, <2>3, <2>4, <2>5, ViewRedrawn DEF World, DataType
  <2>7. Exact'
    BY <1>1, <2>1, <2>6 DEF Exact
  <2> QED BY <2>6, <2>7
<1>5. CASE ~Packets
  <2>1. UNCHANGED <<mockShown, tracked, client, center>>
    BY <1>1, <1>5
  <2>2. Registered' = Registered
    BY <1>1 DEF Registered
  <2>3. ShownTracked' = ShownTracked /\ TrackedIds' = TrackedIds
    BY <2>1 DEF ShownTracked, TrackedIds, ShownIn, IdsIn
  <2>4. DataType'
    BY <1>1, <1>2, <1>3, <2>1 DEF World, DataType, Registered
  <2>5. NothingLost'
    BY <1>3, <2>1, <2>2, <2>3 DEF World, NothingLost, Orphans, Ghosts, MockIds
  <2> QED BY <1>5, <2>1, <2>2, <2>3, <2>4, <2>5 DEF World, MockIds
<1> QED BY <1>4, <1>5

(* Moving mobs keeps an exact view exact. *)
LEMMA MobsMove ==
    ASSUME World, Exact, MoveMobs
    PROVE  World' /\ Exact'
<1> DEFINE movers == {j \in Mobs : tracked[j].id \in Registered}
           moving == {tracked[j].id : j \in movers}
<1> PICK to \in [moving -> Place] :
       LET reg     == [x \in Registered |-> IF x \in moving THEN to[x] ELSE registry[x]]
           entries == Reconciled(movers, reg, center)
       IN  /\ registry' = reg
           /\ tracked' = entries
           /\ client' = Drawn(client, ShownTracked, ShownIn(entries))
  BY DEF MoveMobs
<1>1. registry' = [x \in Registered |-> IF x \in moving THEN to[x] ELSE registry[x]]
  OBVIOUS
<1>2. UNCHANGED <<queue, mockShown, center>>
  BY DEF MoveMobs
<1>3. movers \in SUBSET DOMAIN tracked
  BY DEF Mobs
<1>4. moving \subseteq Id
  BY <1>3, TrackedAreIds DEF World, DataType
<1>5. tracked' = Reconciled(movers, registry', center')
  BY <1>1, <1>2
<1>6. client' = Drawn(client, ShownTracked, ShownTracked')
  BY <1>1, <1>5 DEF ShownTracked
<1>7. registry' \in [Registered -> Place]
  BY <1>1 DEF World, DataType, Registered
<1>8. \A j \in DOMAIN tracked : j \notin movers => tracked[j].id \notin moving
  BY <1>3 DEF World, DataType, Unique
<1>9. \A j \in DOMAIN tracked : j \in movers => tracked[j].id \in moving
  OBVIOUS
<1> HIDE DEF movers, moving
<1>10. client' = (client \ (ShownTracked \cup mockShown)) \cup (ShownTracked' \cup mockShown')
  <2>1. client' = (client \ ShownTracked) \cup ShownTracked'
    <3>1. ShownTracked \subseteq client
      BY DEF World
    <3> QED BY <1>6, <3>1 DEF Drawn
  <2>2. mockShown \subseteq client /\ mockShown \subseteq MockIds /\ ShownTracked \subseteq Id
    BY TrackedAreIds DEF World, DataType
  <2>3. MockIds \cap Id = {}
    BY OwnIds
  <2> QED BY <1>2, <2>1, <2>2, <2>3
<1>11. /\ World'
       /\ DOMAIN tracked' = DOMAIN tracked
       /\ \A j \in DOMAIN tracked :
             /\ tracked'[j].id = tracked[j].id
             /\ tracked'[j].visible = IF j \in movers
                                      THEN Visible(tracked[j].id, registry', center')
                                      ELSE tracked[j].visible
  BY <1>2, <1>3, <1>5, <1>7, <1>10, ViewRedrawn DEF World, DataType
<1>12. \A x : x \notin moving => (Visible(x, registry', center') <=> Visible(x, registry, center))
  BY <1>1, <1>2 DEF Visible, Registered
<1>13. ASSUME NEW j \in DOMAIN tracked'
       PROVE  tracked'[j].visible <=> Visible(tracked'[j].id, registry', center')
  <2>1. CASE j \in movers
    BY <1>11, <2>1
  <2>2. CASE j \notin movers
    BY <1>8, <1>11, <1>12, <2>2 DEF Exact
  <2> QED BY <2>1, <2>2
<1>14. mockShown' = {m \in MockIds : Visible(m, registry', center')}
  BY <1>2, <1>4, <1>12, OwnIds DEF Exact
<1> QED BY <1>11, <1>13, <1>14 DEF Exact

(* A new stream centre, with the redraw it brings, keeps the world. *)
LEMMA Recentered ==
    ASSUME World, Recenter
    PROVE  World'
<1>1. registry' = registry /\ queue' = queue /\ center' = registry[Player] /\ center' \in Place
  BY DEF Recenter, World, DataType, Registered
<1>2. registry' \in [Registered -> Place] /\ queue' \in Queues
  BY <1>1 DEF World, DataType, Registered
<1>3. CASE Packets /\ center' # center
  <2> DEFINE shown == {m \in MockIds : Visible(m, registry, center')}
  <2>1. mockShown' = shown /\ tracked' = Reconciled(DOMAIN tracked, registry, center')
    BY <1>3 DEF Recenter
  <2>2. client' = Drawn(client, mockShown \cup ShownTracked, mockShown' \cup ShownTracked')
    BY <1>3, <2>1 DEF Recenter, ShownTracked
  <2>3. client' = (client \ (ShownTracked \cup mockShown)) \cup (ShownTracked' \cup mockShown')
    BY <2>2, DrawnScreen DEF World
  <2>4. mockShown' \subseteq MockIds
    BY <2>1
  <2>5. tracked' = Reconciled(DOMAIN tracked, registry', center')
    BY <1>1, <2>1
  <2> QED BY <1>1, <1>2, <2>3, <2>4, <2>5, ViewRedrawn
<1>4. CASE ~(Packets /\ center' # center)
  <2>1. UNCHANGED <<mockShown, tracked, client>>
    BY <1>4 DEF Recenter
  <2>2. Registered' = Registered /\ ShownTracked' = ShownTracked /\ TrackedIds' = TrackedIds
    BY <1>1, <2>1 DEF Registered, ShownTracked, TrackedIds, ShownIn, IdsIn
  <2>3. DataType'
    BY <1>1, <2>1 DEF World, DataType
  <2>4. NothingLost'
    BY <1>1, <2>1, <2>2 DEF World, NothingLost, Orphans, Ghosts, MockIds
  <2> QED BY <2>1, <2>2, <2>3, <2>4 DEF World, MockIds
<1> QED BY <1>3, <1>4

(* Steps that leave the data alone keep what is said of it. *)
LEMMA DataUnchanged ==
    ASSUME UNCHANGED data
    PROVE  /\ World' <=> World
           /\ DataType' <=> DataType
           /\ NothingLost' <=> NothingLost
           /\ Exact' <=> Exact
<1>1. /\ registry' = registry /\ queue' = queue /\ tracked' = tracked
      /\ mockShown' = mockShown /\ client' = client /\ center' = center
  BY DEF data
<1>2. /\ Registered' = Registered /\ TrackedIds' = TrackedIds /\ ShownTracked' = ShownTracked
  BY <1>1 DEF Registered, TrackedIds, ShownTracked, IdsIn, ShownIn
<1>3. Orphans' = Orphans /\ Ghosts' = Ghosts
  BY <1>1, <1>2 DEF Orphans, Ghosts, MockIds
<1>4. NothingLost' <=> NothingLost
  BY <1>1, <1>2, <1>3 DEF NothingLost
<1>5. DataType' <=> DataType
  BY <1>1 DEF DataType
<1>6. Exact' <=> Exact
  BY <1>1 DEF Exact
<1> QED BY <1>1, <1>2, <1>4, <1>5, <1>6 DEF World

(* Steps that change nothing but the queue and the place of a registered   *)
(* entity keep the data part.                                              *)
LEMMA SameIds ==
    ASSUME World, registry' \in [Registered -> Place], queue' \in Queues,
           ~queue'.dropped => ~queue.dropped,
           UNCHANGED <<tracked, mockShown, client, center>>
    PROVE  World'
<1>1. Registered' = Registered /\ TrackedIds' = TrackedIds /\ ShownTracked' = ShownTracked
  BY DEF Registered, TrackedIds, ShownTracked, IdsIn, ShownIn
<1>2. DataType'
  BY <1>1 DEF World, DataType, Registered
<1>3. NothingLost'
  BY <1>1 DEF World, NothingLost, Orphans, Ghosts
<1> QED BY <1>1, <1>2, <1>3 DEF World

(* Emptying the event queue keeps the world. *)
LEMMA EventsFlushed ==
    ASSUME World, FlushEvents
    PROVE  World'
<1>1. queue' = Cleared(queue) /\ UNCHANGED <<registry, tracked, mockShown, client, center>>
  BY DEF FlushEvents
<1>2. queue \in Queues
  BY DEF World, DataType
<1>3. Cleared(queue) \in Queues
  <2>1. \A q \in Queues : [q EXCEPT !.count = 0, !.last = NoUpdate] \in Queues
    <3>1. 0 \in 0..EventCap
      BY CapsAssumption
    <3> QED BY <3>1 DEF Queues
  <2> QED BY <1>2, <2>1 DEF Cleared
<1>4. Cleared(queue).dropped = queue.dropped
  BY <1>2 DEF Cleared, Queues
<1>5. registry' \in [Registered -> Place]
  BY <1>1 DEF World, DataType, Registered
<1> QED BY <1>1, <1>3, <1>4, <1>5, SameIds

(* A position of the player keeps the world. *)
LEMMA PlayerMoves ==
    ASSUME World, RecvPosition
    PROVE  World'
<1>1. PICK place \in Place :
         registry' = [x \in Registered |-> IF x = Player THEN place ELSE registry[x]]
  BY DEF RecvPosition
<1>2. registry' \in [Registered -> Place]
  BY <1>1 DEF World, DataType, Registered
<1>3. queue' \in Queues /\ (~queue'.dropped => ~queue.dropped)
  BY PushUpdateQueue DEF RecvPosition, World, DataType
<1> QED BY <1>2, <1>3, SameIds DEF RecvPosition

(* A lost item is only ever met after an event was dropped. *)
LEMMA LostItemLeaves ==
    ASSUME World, cursor \in Nat \ {0}, PickupLost
    PROVE  World'
<1>1. /\ cursor \in DOMAIN tracked /\ tracked[cursor].id \notin Registered
      /\ tracked' = Untrack(tracked, cursor)
      /\ UNCHANGED <<registry, queue, mockShown, client, center>>
  <2>1. cursor <= Len(tracked)
    BY DEF PickupLost
  <2>2. /\ tracked[cursor].id \notin Registered
        /\ tracked' = Untrack(tracked, cursor)
        /\ UNCHANGED <<registry, queue, mockShown, client, center>>
    BY DEF PickupLost
  <2>3. DOMAIN tracked = 1..Len(tracked) /\ Len(tracked) \in Nat
    BY DEF World, DataType
  <2>4. cursor \in DOMAIN tracked
    BY <2>1, <2>3
  <2> QED BY <2>2, <2>4
<1>2. tracked[cursor].id \in TrackedIds
  BY <1>1 DEF TrackedIds, IdsIn
<1>3. queue.dropped
  BY <1>1, <1>2 DEF World, NothingLost
<1>4. /\ tracked' \in Seq(Entry) /\ Len(tracked') = Len(tracked) - 1
      /\ Unique(tracked') /\ ShownTracked' \subseteq ShownTracked
  BY <1>1, UntrackIds DEF World, DataType, ShownTracked
<1>5. Len(tracked) \in Nat
  BY DEF World, DataType
<1>6. Len(tracked') <= TrackedCap
  BY <1>4, <1>5, CapsAssumption DEF World, DataType
<1>7. DataType'
  BY <1>1, <1>4, <1>6 DEF World, DataType
<1>8. NothingLost'
  BY <1>1, <1>3 DEF NothingLost
<1>9. Registered' = Registered
  BY <1>1 DEF Registered
<1> QED BY <1>1, <1>4, <1>7, <1>8, <1>9 DEF World, MockIds

(* A drop that finds room keeps the world. *)
LEMMA ItemDropped ==
    ASSUME World, Len(tracked) < TrackedCap, DropItem
    PROVE  World'
<1>1. UNCHANGED <<mockShown, center>>
  BY DEF DropItem
<1>2. CASE UNCHANGED <<registry, queue, tracked, client>>
  BY <1>1, <1>2, DataUnchanged DEF data
<1>3. CASE ~UNCHANGED <<registry, queue, tracked, client>>
  <2>1. PICK id \in Fresh, place \in Place :
          /\ registry' = With(registry, id, place)
          /\ queue' = Push(queue, NoUpdate)
          /\ IF QueueFull
             THEN UNCHANGED <<tracked, client>>
             ELSE /\ tracked' = Append(tracked,
                       [id |-> id, type |-> "item", visible |-> TRUE])
                  /\ client' = client \cup {id}
    BY <1>3 DEF DropItem
  <2> DEFINE e == [id |-> id, type |-> "item", visible |-> TRUE]
  <2>2. id \in Id
    BY DEF Fresh
  <2>3. e \in Entry /\ e.id = id /\ e.visible
    BY <2>2 DEF Entry
  <2>4. /\ registry' = With(registry, id, place)
        /\ queue' = Push(queue, NoUpdate)
        /\ \/ QueueFull /\ tracked' = tracked /\ client' = client
           \/ ~QueueFull /\ tracked' = Append(tracked, e) /\ client' = client \cup {id}
    BY <2>1
  <2> HIDE DEF e
  <2> QED BY <1>1, <2>3, <2>4, EntryArrives
<1> QED BY <1>2, <1>3

(* /despawnall: with every event in the queue, exactly the drawn entries   *)
(* are erased; otherwise an event was dropped.                             *)
LEMMA AllDespawned ==
    ASSUME World, DespawnAll
    PROVE  World'
<1> DEFINE present == {j \in DOMAIN tracked : tracked[j].id \in Registered}
           logged == {j \in present :
                        queue.count + Cardinality({k \in present : k <= j}) <= EventCap}
           erased == {tracked[j].id : j \in {k \in logged : tracked[k].visible}}
<1>1. /\ registry' = Restrict(registry, Registered \ TrackedIds)
      /\ queue' = [count   |-> Least(EventCap, queue.count + Cardinality(present)),
                   last    |-> IF logged = {} THEN queue.last ELSE NoUpdate,
                   dropped |-> queue.dropped \/ logged # present]
      /\ client' = client \ erased
      /\ tracked' = <<>>
      /\ mockShown' = mockShown /\ center' = center
  BY DEF DespawnAll
<1>2. registry' = [x \in Registered \ TrackedIds |-> registry[x]] /\ Registered' = Registered \ TrackedIds
  BY <1>1 DEF Restrict, Registered
<1>3. TrackedIds' = {} /\ ShownTracked' = {} /\ tracked' \in Seq(Entry)
      /\ Len(tracked') = 0 /\ Unique(tracked')
  BY <1>1 DEF TrackedIds, ShownTracked, IdsIn, ShownIn, Unique
<1>4. Cardinality(present) \in Nat
  <2>1. DOMAIN tracked = 1..Len(tracked) /\ Len(tracked) \in Nat
    BY DEF World, DataType
  <2>2. IsFiniteSet(1..Len(tracked))
    BY <2>1, FS_Interval
  <2>3. present \subseteq 1..Len(tracked)
    BY <2>1
  <2> HIDE DEF present
  <2> QED BY <2>2, <2>3, FS_Subset, FS_CardinalityType
<1>5. erased \subseteq ShownTracked /\ ShownTracked \subseteq TrackedIds /\ TrackedIds \subseteq Id
  BY TrackedAreIds DEF World, DataType, ShownTracked, ShownIn
<1>6. queue' \in Queues
  <2>1. queue.count \in 0..EventCap /\ queue.last \in {NoUpdate, Player} \cup MockIds
        /\ queue.dropped \in BOOLEAN
    BY DEF World, DataType, Queues
  <2> DEFINE n == Cardinality(present)
             lost == queue.dropped \/ logged # present
             lastly == IF logged = {} THEN queue.last ELSE NoUpdate
  <2>2. n \in Nat
    BY <1>4
  <2>3. lost \in BOOLEAN
    BY <2>1
  <2>4. lastly \in {NoUpdate, Player} \cup MockIds
    BY <2>1
  <2>5. queue' = [count |-> Least(EventCap, queue.count + n), last |-> lastly, dropped |-> lost]
    BY <1>1
  <2> HIDE DEF n, lost, lastly
  <2>6. Least(EventCap, queue.count + n) \in 0..EventCap
    BY <2>1, <2>2, CapsAssumption DEF Least
  <2> QED BY <2>3, <2>4, <2>5, <2>6 DEF Queues
<1>7. ~queue'.dropped => ~queue.dropped /\ logged = present
  BY <1>1
<1>8. DataType'
  <2>1. Len(tracked') <= TrackedCap
    BY <1>3, CapsAssumption
  <2>2. (DOMAIN registry \subseteq {Player} \cup MockIds \cup Id
           /\ registry \in [DOMAIN registry -> Place])'
    BY <1>2 DEF World, DataType, Registered
  <2> QED BY <1>1, <1>3, <1>6, <2>1, <2>2 DEF World, DataType
<1>9. ({Player} \cup MockIds \subseteq Registered)'
  BY <1>2, <1>5, OwnIds DEF World, MockIds
<1>10. (ShownTracked \cup mockShown \subseteq client)'
  BY <1>1, <1>3, <1>5, OwnIds DEF World, DataType
<1>11. NothingLost'
  <2> SUFFICES ASSUME ~queue'.dropped
               PROVE  TrackedIds' \subseteq Registered' /\ Orphans' = Ghosts'
    BY DEF NothingLost
  <2>1. TrackedIds \subseteq Registered /\ Orphans = Ghosts /\ logged = present
    BY <1>7 DEF World, NothingLost
  <2>2. present = DOMAIN tracked
    BY <2>1 DEF TrackedIds, IdsIn
  <2>3. erased = ShownTracked
    BY <2>1, <2>2 DEF ShownTracked, ShownIn
  <2>4. Orphans' = Orphans
    BY <1>2, <1>3 DEF Orphans, MockIds
  <2>5. Ghosts' = Ghosts
    BY <1>1, <1>3, <2>3 DEF Ghosts
  <2> QED BY <1>3, <2>1, <2>4, <2>5
<1> QED BY <1>8, <1>9, <1>10, <1>11 DEF World

(* When the session ends its own entities leave the registry and the mocks *)
(* leave the screen; what was orphaned stays orphaned.                     *)
LEMMA SessionEnds ==
    ASSUME World, EndSession
    PROVE  DataType' /\ NothingLost'
<1> DEFINE own == Registered \cap ({Player} \cup MockIds)
           lost == queue.dropped \/ queue.count + Cardinality(own) > EventCap
<1>1. /\ registry' = Restrict(registry, Registered \ ({Player} \cup MockIds))
      /\ client' = IF Packets THEN client \ MockIds ELSE client
      /\ queue' = [count |-> 0, last |-> NoUpdate, dropped |-> lost]
      /\ UNCHANGED <<tracked, mockShown, center>>
  BY DEF EndSession
<1>2. /\ registry' = [x \in Registered \ ({Player} \cup MockIds) |-> registry[x]]
      /\ Registered' = Registered \ ({Player} \cup MockIds)
  BY <1>1 DEF Restrict, Registered
<1>3. TrackedIds' = TrackedIds /\ ShownTracked' = ShownTracked
  BY <1>1 DEF TrackedIds, ShownTracked, IdsIn, ShownIn
<1>4. lost \in BOOLEAN /\ (~lost => ~queue.dropped)
  BY DEF World, DataType, Queues
<1> HIDE DEF lost
<1>5. queue' \in Queues /\ queue'.dropped = lost
  BY <1>1, <1>4, CapsAssumption DEF Queues
<1>6. DataType'
  <2>1. (DOMAIN registry \subseteq {Player} \cup MockIds \cup Id
           /\ registry \in [DOMAIN registry -> Place])'
    BY <1>2 DEF World, DataType, Registered
  <2> QED BY <1>1, <1>5, <2>1 DEF World, DataType
<1>7. NothingLost'
  <2> SUFFICES ASSUME ~queue'.dropped
               PROVE  TrackedIds' \subseteq Registered' /\ Orphans' = Ghosts'
    BY DEF NothingLost
  <2>1. TrackedIds \subseteq Registered /\ Orphans = Ghosts
    BY <1>4, <1>5 DEF World, NothingLost
  <2>2. TrackedIds \subseteq Id
    BY TrackedAreIds DEF World, DataType
  <2>3. Orphans' = Orphans
    BY <1>2, <1>3 DEF Orphans, MockIds
  <2>4. Ghosts' = Ghosts
    <3>1. Ghosts \cap MockIds = {}
      BY <2>1 DEF Orphans
    <3> QED BY <1>1, <1>3, <3>1 DEF Ghosts
  <2> QED BY <1>2, <1>3, <2>1, <2>2, <2>3, <2>4, OwnIds
<1> QED BY <1>6, <1>7

(* /despawn <id>: without room for its event the slot is freed all the      *)
(* same, and the event counted as dropped.                                 *)
LEMMA OneDespawned ==
    ASSUME World, DespawnOne
    PROVE  World'
<1>1. PICK j \in DOMAIN tracked :
         /\ QueueRemove(tracked[j].id)
         /\ IF tracked[j].id \in Registered /\ ~QueueFull
            THEN /\ client' = IF tracked[j].visible THEN client \ {tracked[j].id} ELSE client
                 /\ tracked' = Untrack(tracked, j)
            ELSE UNCHANGED <<client, tracked>>
  BY DEF DespawnOne
<1>2. UNCHANGED <<mockShown, center>>
  BY DEF DespawnOne
<1>3. CASE tracked[j].id \in Registered /\ ~QueueFull
  <2>1. tracked' = Untrack(tracked, j)
    BY <1>1, <1>3
  <2>2. \/ client' = client \ {tracked[j].id}
        \/ client' = client /\ ~tracked[j].visible
    BY <1>1, <1>3
  <2> QED BY <1>1, <1>2, <2>1, <2>2, EntryLeaves
<1>4. CASE tracked[j].id \notin Registered
  <2>1. UNCHANGED <<client, tracked, queue>>
    BY <1>1, <1>4 DEF QueueRemove
  <2>2. registry' = registry
    <3>1. registry' = [x \in DOMAIN registry \ {tracked[j].id} |-> registry[x]]
      BY <1>1 DEF QueueRemove, Without, Restrict
    <3> QED BY <1>4, <3>1 DEF World, DataType, Registered
  <2> QED BY <1>2, <2>1, <2>2, DataUnchanged DEF data
<1>5. CASE tracked[j].id \in Registered /\ QueueFull
  <2>1. UNCHANGED <<client, tracked>>
    BY <1>1, <1>5
  <2>2. queue' \in Queues /\ queue'.dropped
    <3>1. queue \in Queues /\ queue.count >= EventCap
      BY <1>5 DEF World, DataType, QueueFull
    <3>2. queue' = [queue EXCEPT !.dropped = TRUE]
      BY <1>1, <1>5, <3>1 DEF QueueRemove, Push
    <3> QED BY <3>1, <3>2 DEF Queues
  <2>3. registry' = [x \in Registered \ {tracked[j].id} |-> registry[x]]
    BY <1>1 DEF QueueRemove, Without, Restrict, Registered
  <2>4. Registered' = Registered \ {tracked[j].id}
    BY <2>3 DEF Registered
  <2>5. tracked[j].id \in Id
    BY TrackedAreIds DEF World, DataType
  <2>6. (DOMAIN registry \subseteq {Player} \cup MockIds \cup Id
           /\ registry \in [DOMAIN registry -> Place])'
    BY <2>3 DEF World, DataType, Registered
  <2>7. DataType'
    BY <1>2, <2>1, <2>2, <2>6 DEF World, DataType
  <2>8. ({Player} \cup MockIds \subseteq Registered)'
    BY <2>4, <2>5, OwnIds DEF World, MockIds
  <2>9. ShownTracked' = ShownTracked
    BY <2>1 DEF ShownTracked, ShownIn
  <2> QED BY <1>2, <2>1, <2>2, <2>7, <2>8, <2>9 DEF World, NothingLost
<1> QED BY <1>3, <1>4, <1>5

(* A drop makes room: one entry leaves a full list. *)
LEMMA EvictionMakesRoom ==
    ASSUME World, DigAndEvict
    PROVE  World' /\ Len(tracked') < TrackedCap
<1>1. PICK v \in DOMAIN tracked :
         /\ client' = IF tracked[v].visible THEN client \ {tracked[v].id} ELSE client
         /\ QueueRemove(tracked[v].id)
         /\ tracked' = Untrack(tracked, v)
  BY DEF DigAndEvict
<1>2. UNCHANGED <<mockShown, center>>
  BY DEF DigAndEvict
<1>3. \/ client' = client \ {tracked[v].id}
      \/ client' = client /\ ~tracked[v].visible
  BY <1>1
<1>4. World'
  BY <1>1, <1>2, <1>3, EntryLeaves
<1>5. DOMAIN tracked = 1..Len(tracked) /\ Len(tracked) \in Nat /\ Len(tracked) <= TrackedCap
  BY DEF World, DataType
<1>6. Len(tracked') = Len(tracked) - 1
  BY <1>1, <1>5, UntrackIds DEF World, DataType
<1> QED BY <1>4, <1>5, <1>6, CapsAssumption

-----------------------------------------------------------------------------
(* The inductive invariant.                                                *)

Control == pc \in Phase /\ cursor \in Nat \ {0} /\ left \in Nat

(* While the session is open its own entities are registered and what the  *)
(* flags say is drawn.                                                     *)
Open == pc # "closed" => World

(* Between the redraw of the mocks and the next packet the view is exact;  *)
(* those phases are entered only with entity packets on.                   *)
View ==
    /\ pc \in {"mobs", "enforce", "refill", "respawn"} => Packets
    /\ Packets /\ pc \in {"mobs", "enforce", "refill", "respawn", "recv"} => Exact

(* Everything the enforce loop has passed while over the limit is an item. *)
EnforceLoop ==
    pc = "enforce" =>
        /\ cursor <= Len(tracked) + 1
        /\ Len(tracked) > MaxTracked =>
              \A j \in DOMAIN tracked : j < cursor => tracked[j].type = "item"

DropRoom == pc = "drop" => Len(tracked) < TrackedCap

IInv ==
    /\ Control /\ DataType /\ NothingLost /\ Open /\ View
    /\ EnforceLoop /\ LimitEnforced /\ RefillWithinLimits /\ DropRoom

(* A new session satisfies the invariant. *)
LEMMA Start == Init => IInv
<1> SUFFICES ASSUME Init PROVE IInv
  OBVIOUS
<1>1. IsFiniteSet(MockIds) /\ Cardinality(MockIds) \in 0..2
  <2>1. CASE HasMocks
    <3>1. MockIds = {MockA} \cup {MockB} /\ MockB \notin {MockA}
      BY <2>1, IdsDistinct DEF MockIds
    <3>2. IsFiniteSet({MockA}) /\ Cardinality({MockA}) = 1
      BY FS_Singleton
    <3>3. IsFiniteSet({MockA} \cup {MockB}) /\ Cardinality({MockA} \cup {MockB}) = 2
      BY <3>1, <3>2, FS_AddElement
    <3> QED BY <3>1, <3>3
  <2>2. CASE ~HasMocks
    BY <2>2, FS_EmptySet DEF MockIds
  <2> QED BY <2>1, <2>2
<1>2. queue \in Queues /\ ~queue.dropped
  <2>1. 1 + Cardinality(MockIds) \in 0..EventCap
    BY <1>1, CapsAssumption
  <2> QED BY <2>1 DEF Init, Queues
<1>3. /\ tracked = <<>> /\ TrackedIds = {} /\ ShownTracked = {}
      /\ tracked \in Seq(Entry) /\ Len(tracked) = 0 /\ Unique(tracked)
  BY DEF Init, TrackedIds, ShownTracked, IdsIn, ShownIn, Unique
<1>4. registry \in [{Player} \cup MockIds -> Place] /\ Registered = {Player} \cup MockIds
  BY DEF Init, Registered
<1>5. mockShown \subseteq MockIds /\ client = mockShown /\ center \in Place
  BY DEF Init
<1>6. DataType
  BY <1>2, <1>3, <1>4, <1>5, CapsAssumption DEF DataType, Registered
<1>7. NothingLost
  BY <1>3, <1>4, <1>5 DEF NothingLost, Orphans, Ghosts
<1>8. World
  BY <1>3, <1>4, <1>5, <1>6, <1>7 DEF World
<1>9. pc = "starters" /\ Control
  <2>1. Starters \in Nat
    BY CapsAssumption
  <2> QED BY <2>1 DEF Init, Control, Phase
<1> QED BY <1>6, <1>7, <1>8, <1>9 DEF IInv, Open, View, EnforceLoop, LimitEnforced,
                                      RefillWithinLimits, DropRoom

(* Outside the phases that need more, the data part is all there is to keep. *)
LEMMA Resting ==
    ASSUME World', Control', pc' \in {"starters", "tick", "mocks", "pickup", "spawn"}
    PROVE  IInv'
BY DEF World, IInv, Open, View, EnforceLoop, LimitEnforced, RefillWithinLimits, DropRoom

(* The mobs of a list can be counted. *)
LEMMA MobsFinite ==
    ASSUME tracked \in Seq(Entry)
    PROVE  IsFiniteSet(Mobs) /\ Cardinality(Mobs) \in Nat
<1>1. DOMAIN tracked = 1..Len(tracked) /\ Len(tracked) \in Nat
  OBVIOUS
<1>2. IsFiniteSet(1..Len(tracked))
  BY <1>1, FS_Interval
<1>3. Mobs \subseteq 1..Len(tracked)
  BY <1>1 DEF Mobs
<1> QED BY <1>2, <1>3, FS_Subset, FS_CardinalityType

(* A tracked mob is one more mob. *)
LEMMA MobsGrow ==
    ASSUME tracked \in Seq(Entry), NEW e \in Entry, e.type = "mob",
           tracked' = Append(tracked, e)
    PROVE  Len(tracked') = Len(tracked) + 1 /\ Cardinality(Mobs') = Cardinality(Mobs) + 1
<1>1. /\ Len(tracked) \in Nat /\ DOMAIN tracked = 1..Len(tracked)
      /\ Len(tracked') = Len(tracked) + 1 /\ DOMAIN tracked' = 1..(Len(tracked) + 1)
      /\ \A j \in 1..Len(tracked) : tracked'[j] = tracked[j]
      /\ tracked'[Len(tracked) + 1] = e
  OBVIOUS
<1>2. Mobs' = Mobs \cup {Len(tracked) + 1}
  <2>1. \A j \in DOMAIN tracked' : j \in DOMAIN tracked \/ j = Len(tracked) + 1
    BY <1>1
  <2>2. \A j \in DOMAIN tracked : j \in DOMAIN tracked' /\ tracked'[j] = tracked[j]
    BY <1>1
  <2>3. Len(tracked) + 1 \in DOMAIN tracked'
    BY <1>1
  <2> QED BY <1>1, <2>1, <2>2, <2>3 DEF Mobs
<1>3. Len(tracked) + 1 \notin Mobs
  BY <1>1 DEF Mobs
<1> QED BY <1>1, <1>2, <1>3, MobsFinite, FS_AddElement

-----------------------------------------------------------------------------
(* The steps of the invariant, one lemma for each group of actions.        *)

(* An open session has what World says. *)
LEMMA OpenWorld ==
    ASSUME IInv, pc # "closed"
    PROVE  World
BY DEF IInv, Open

(* The spawn loops outside a refill: nothing but the data part to keep. *)
LEMMA BootstrapStep ==
    ASSUME IInv, Bootstrap
    PROVE  IInv'
<1>1. CASE StarterMob
  <2>1. pc = "starters" /\ pc' = pc /\ SpawnMob /\ UNCHANGED <<mockShown, center>>
    BY <1>1 DEF StarterMob
  <2>2. World'
    BY <2>1, OpenWorld, SpawnStep
  <2>3. Control'
    BY <1>1 DEF StarterMob, IInv, Control
  <2> QED BY <2>1, <2>2, <2>3, Resting
<1>2. CASE StartersDone
  <2>1. pc = "starters" /\ pc' = "tick" /\ UNCHANGED data
    BY <1>2 DEF StartersDone, data
  <2>2. World'
    BY <2>1, OpenWorld, DataUnchanged
  <2>3. Control'
    BY <1>2 DEF StartersDone, IInv, Control, Phase
  <2> QED BY <2>1, <2>2, <2>3, Resting
<1> QED BY <1>1, <1>2 DEF Bootstrap

(* The beginning of a pass keeps the invariant. *)
LEMMA PassHeadStep ==
    ASSUME IInv, PassHead
    PROVE  IInv'
<1>1. CASE FlushEvents
  <2>1. pc = "tick" /\ pc' = "mocks"
    BY <1>1 DEF FlushEvents
  <2>2. World'
    BY <1>1, <2>1, OpenWorld, EventsFlushed
  <2>3. Control'
    BY <1>1 DEF FlushEvents, IInv, Control, Phase
  <2> QED BY <2>1, <2>2, <2>3, Resting
<1>2. CASE NoFlush
  <2>1. pc = "tick" /\ pc' = "mocks" /\ UNCHANGED data
    BY <1>2 DEF NoFlush, data
  <2>2. World'
    BY <2>1, OpenWorld, DataUnchanged
  <2>3. Control'
    BY <1>2 DEF NoFlush, IInv, Control, Phase
  <2> QED BY <2>1, <2>2, <2>3, Resting
<1>3. CASE MoveMocks
  <2>1. pc = "mocks" /\ pc' = IF Packets THEN "mobs" ELSE "recv"
    BY <1>3 DEF MoveMocks
  <2>2. World' /\ (Packets => Exact')
    BY <1>3, <2>1, OpenWorld, MocksMove
  <2>3. Control'
    BY <1>3 DEF MoveMocks, IInv, Control, Phase
  <2> QED BY <2>1, <2>2, <2>3 DEF World, IInv, Open, View, EnforceLoop, LimitEnforced,
                                  RefillWithinLimits, DropRoom
<1>4. CASE MoveMobs
  <2>1. pc = "mobs" /\ pc' = "enforce" /\ cursor' = 1
    BY <1>4 DEF MoveMobs
  <2>2. Packets /\ Exact
    BY <2>1 DEF IInv, View
  <2>3. World' /\ Exact'
    BY <1>4, <2>1, <2>2, OpenWorld, MobsMove
  <2>4. Control'
    BY <1>4, <2>1 DEF MoveMobs, IInv, Control, Phase
  <2>5. EnforceLoop'
    <3>1. DOMAIN tracked' = 1..Len(tracked') /\ Len(tracked') \in Nat
      BY <2>3 DEF World, DataType
    <3> QED BY <2>1, <3>1 DEF EnforceLoop
  <2> QED BY <2>1, <2>2, <2>3, <2>4, <2>5 DEF World, IInv, Open, View, LimitEnforced,
                                              RefillWithinLimits, DropRoom
<1> QED BY <1>1, <1>2, <1>3, <1>4 DEF PassHead

(* The loop that enforces max_tracked. *)
LEMMA EnforceStep ==
    ASSUME IInv, Enforce
    PROVE  IInv'
<1>1. pc = "enforce" /\ Packets /\ Exact /\ World
  BY OpenWorld DEF Enforce, EnforceKeep, EnforceRemove, EnforceDone, IInv, View
<1>2. /\ DOMAIN tracked = 1..Len(tracked) /\ Len(tracked) \in Nat
      /\ \A j \in DOMAIN tracked : tracked[j] \in Entry
      /\ cursor \in Nat \ {0} /\ MaxTracked \in Nat
  BY <1>1, CapsAssumption DEF World, DataType, IInv, Control
<1>3. CASE EnforceKeep
  <2>1. /\ pc' = "enforce" /\ UNCHANGED data /\ cursor' = cursor + 1 /\ left' = left
        /\ tracked' = tracked /\ cursor <= Len(tracked)
        /\ tracked[cursor].type = "item" \/ Len(tracked) <= MaxTracked
    BY <1>1, <1>3 DEF EnforceKeep, data
  <2>2. World' /\ Exact'
    BY <1>1, <2>1, DataUnchanged
  <2>3. Control'
    BY <1>2, <2>1 DEF IInv, Control, Phase
  <2>4. EnforceLoop'
    BY <1>1, <1>2, <2>1 DEF IInv, EnforceLoop
  <2> QED BY <1>1, <2>1, <2>2, <2>3, <2>4 DEF World, IInv, Open, View, LimitEnforced,
                                              RefillWithinLimits, DropRoom
<1>4. CASE EnforceRemove
  <2>1. /\ pc' = "enforce" /\ cursor' = cursor /\ left' = left
        /\ tracked' = Untrack(tracked, cursor) /\ cursor <= Len(tracked)
        /\ QueueRemove(tracked[cursor].id)
        /\ client' = IF tracked[cursor].visible THEN client \ {tracked[cursor].id} ELSE client
        /\ UNCHANGED <<mockShown, center>>
    BY <1>1, <1>4 DEF EnforceRemove
  <2>2. cursor \in DOMAIN tracked
    BY <1>2, <2>1
  <2>3. \/ client' = client \ {tracked[cursor].id}
        \/ client' = client /\ ~tracked[cursor].visible
    BY <2>1
  <2>4. World' /\ Exact'
    BY <1>1, <2>1, <2>2, <2>3, EntryLeaves
  <2>5. Control'
    BY <2>1 DEF IInv, Control, Phase
  <2>6. /\ Len(tracked') = Len(tracked) - 1 /\ DOMAIN tracked' = 1..(Len(tracked) - 1)
        /\ \A j \in 1..(Len(tracked) - 1) :
              tracked'[j] = IF j < cursor THEN tracked[j] ELSE tracked[j + 1]
    <3>1. /\ tracked' \in Seq(Entry) /\ Len(tracked') = Len(tracked) - 1
          /\ \A j \in 1..(Len(tracked) - 1) :
                tracked'[j] = IF j < cursor THEN tracked[j] ELSE tracked[j + 1]
      BY <1>1, <1>2, <2>1, <2>2, UntrackIds DEF World, DataType
    <3> QED BY <3>1
  <2>7. EnforceLoop'
    <3>1. cursor' <= Len(tracked') + 1
      BY <1>2, <2>1, <2>6
    <3>2. Len(tracked') > MaxTracked => Len(tracked) > MaxTracked
      BY <1>2, <2>6
    <3>3. \A j \in DOMAIN tracked' : j < cursor => j \in DOMAIN tracked /\ tracked'[j] = tracked[j]
      BY <1>2, <2>6
    <3> QED BY <1>1, <2>1, <3>1, <3>2, <3>3 DEF IInv, EnforceLoop
  <2> QED BY <1>1, <2>1, <2>4, <2>5, <2>7 DEF World, IInv, Open, View, LimitEnforced,
                                              RefillWithinLimits, DropRoom
<1>5. CASE EnforceDone
  <2>1. /\ pc' = "refill" /\ UNCHANGED data /\ cursor' = cursor /\ left' = left
        /\ tracked' = tracked /\ cursor > Len(tracked)
    BY <1>5 DEF EnforceDone, data
  <2>2. World' /\ Exact'
    BY <1>1, <2>1, DataUnchanged
  <2>3. Control'
    BY <2>1 DEF IInv, Control, Phase
  <2>4. LimitEnforced'
    <3>1. ASSUME Len(tracked) > MaxTracked PROVE Mobs' = {}
      <4>1. \A j \in DOMAIN tracked : tracked[j].type = "item"
        BY <1>1, <1>2, <2>1, <3>1 DEF IInv, EnforceLoop
      <4> QED BY <2>1, <4>1 DEF Mobs
    <3> QED BY <1>2, <2>1, <3>1 DEF LimitEnforced
  <2> QED BY <1>1, <2>1, <2>2, <2>3, <2>4 DEF World, IInv, Open, View, EnforceLoop,
                                              RefillWithinLimits, DropRoom
<1> QED BY <1>3, <1>4, <1>5 DEF Enforce

(* What a refill may still spawn. *)
LEMMA ToSpawnBound ==
    ASSUME tracked \in Seq(Entry)
    PROVE  /\ ToSpawn \in Nat
           /\ ToSpawn > 0 => /\ Len(tracked) + ToSpawn <= MaxTracked
                             /\ Cardinality(Mobs) + ToSpawn <= TargetMobs
<1> DEFINE mobs == Cardinality(Mobs)
           long == Len(tracked)
<1>1. mobs \in Nat /\ long \in Nat
  BY MobsFinite
<1>2. TargetMobs \in Nat /\ RefillBatch \in Nat /\ MaxTracked \in Nat
  BY CapsAssumption
<1>3. ToSpawn = IF mobs >= TargetMobs \/ long >= MaxTracked
                THEN 0
                ELSE Least(Least(TargetMobs - mobs, RefillBatch), MaxTracked - long)
  BY DEF ToSpawn
<1> HIDE DEF mobs, long
<1>4. /\ ToSpawn \in Nat
      /\ ToSpawn > 0 => long + ToSpawn <= MaxTracked /\ mobs + ToSpawn <= TargetMobs
  BY <1>1, <1>2, <1>3 DEF Least
<1> QED BY <1>4 DEF mobs, long

(* Refills keep the invariant. *)
LEMMA RefillStep ==
    ASSUME IInv, Refill
    PROVE  IInv'
<1>1. pc \in {"refill", "respawn"} /\ Packets /\ Exact /\ World /\ tracked \in Seq(Entry)
  BY OpenWorld DEF Refill, RefillStart, RefillNotDue, RefillMob, RefillDone, IInv, View, DataType
<1>2. CASE RefillStart
  <2>1. /\ pc' = "respawn" /\ left' = ToSpawn /\ cursor' = cursor
        /\ UNCHANGED data /\ tracked' = tracked /\ Mobs' = Mobs
    BY <1>2 DEF RefillStart, data, Mobs
  <2>2. World' /\ Exact'
    BY <1>1, <2>1, DataUnchanged
  <2>3. Control' /\ RefillWithinLimits'
    BY <1>1, <2>1, ToSpawnBound DEF IInv, Control, Phase, RefillWithinLimits
  <2> QED BY <1>1, <2>1, <2>2, <2>3 DEF World, IInv, Open, View, EnforceLoop, LimitEnforced,
                                        DropRoom
<1>3. CASE RefillNotDue \/ RefillDone
  <2>1. pc' = "recv" /\ left' = left /\ cursor' = cursor /\ UNCHANGED data
    BY <1>3 DEF RefillNotDue, RefillDone, data
  <2>2. World' /\ Exact'
    BY <1>1, <2>1, DataUnchanged
  <2>3. Control'
    BY <2>1 DEF IInv, Control, Phase
  <2> QED BY <1>1, <2>1, <2>2, <2>3 DEF World, IInv, Open, View, EnforceLoop, LimitEnforced,
                                        RefillWithinLimits, DropRoom
<1>4. CASE RefillMob
  <2>1. /\ pc = "respawn" /\ pc' = pc /\ left' = left - 1 /\ left > 0 /\ cursor' = cursor
        /\ SpawnMob /\ UNCHANGED <<mockShown, center>>
    BY <1>4 DEF RefillMob
  <2>2. World' /\ Exact'
    BY <1>1, <2>1, SpawnStep
  <2>3. \/ tracked' = tracked
        \/ \E e \in Entry : e.type = "mob" /\ tracked' = Append(tracked, e)
    BY <1>1, <2>1, SpawnStep
  <2>4. left \in Nat /\ MaxTracked \in Nat /\ TargetMobs \in Nat
    BY CapsAssumption DEF IInv, Control
  <2>5. Control'
    BY <2>1, <2>4 DEF IInv, Control, Phase
  <2>6. RefillWithinLimits'
    <3>1. Len(tracked) + left <= MaxTracked /\ Cardinality(Mobs) + left <= TargetMobs
      BY <2>1 DEF IInv, RefillWithinLimits
    <3>2. Len(tracked) \in Nat /\ Cardinality(Mobs) \in Nat
      BY <1>1, MobsFinite
    <3>3. \/ Len(tracked') = Len(tracked) /\ Cardinality(Mobs') = Cardinality(Mobs)
          \/ Len(tracked') = Len(tracked) + 1 /\ Cardinality(Mobs') = Cardinality(Mobs) + 1
      <4>1. CASE tracked' = tracked
        BY <4>1 DEF Mobs
      <4>2. CASE \E e \in Entry : e.type = "mob" /\ tracked' = Append(tracked, e)
        BY <1>1, <4>2, MobsGrow
      <4> QED BY <2>3, <4>1, <4>2
    <3> DEFINE len1 == Len(tracked')
               card0 == Cardinality(Mobs)
               card1 == Cardinality(Mobs')
    <3>4. /\ card0 \in Nat /\ card0 + left <= TargetMobs
          /\ \/ len1 = Len(tracked) /\ card1 = card0
             \/ len1 = Len(tracked) + 1 /\ card1 = card0 + 1
      BY <3>1, <3>2, <3>3
    <3> HIDE DEF len1, card0, card1
    <3>5. len1 + left' <= MaxTracked /\ card1 + left' <= TargetMobs
      BY <2>1, <2>4, <3>1, <3>2, <3>4
    <3> QED BY <3>5 DEF RefillWithinLimits, len1, card1
  <2> QED BY <1>1, <2>1, <2>2, <2>5, <2>6 DEF World, IInv, Open, View, EnforceLoop,
                                              LimitEnforced, DropRoom
<1> QED BY <1>2, <1>3, <1>4 DEF Refill

(* A position packet: moving, picking up, recentring. *)
LEMMA MoveStep ==
    ASSUME IInv, Move
    PROVE  IInv'
<1>1. World /\ cursor \in Nat \ {0} /\ left \in Nat
  BY OpenWorld DEF Move, RecvPosition, PickupSkip, PickupLost, PickupTake, Recenter, IInv, Control
<1>2. CASE RecvPosition
  <2>1. pc' = "pickup" /\ Control'
    BY <1>1, <1>2 DEF RecvPosition, Control, Phase
  <2> QED BY <1>1, <1>2, <2>1, PlayerMoves, Resting
<1>3. CASE PickupSkip
  <2>1. pc' = "pickup" /\ Control' /\ UNCHANGED data
    BY <1>1, <1>3 DEF PickupSkip, Control, Phase, data
  <2> QED BY <1>1, <2>1, DataUnchanged, Resting
<1>4. CASE PickupLost
  <2>1. pc' = "pickup" /\ Control'
    BY <1>1, <1>4 DEF PickupLost, Control, Phase
  <2> QED BY <1>1, <1>4, <2>1, LostItemLeaves, Resting
<1>5. CASE PickupTake
  <2>1. pc' = "pickup" /\ Control'
    BY <1>1, <1>5 DEF PickupTake, Control, Phase
  <2>2. /\ cursor <= Len(tracked) /\ client' = client \ {tracked[cursor].id}
        /\ QueueRemove(tracked[cursor].id) /\ tracked' = Untrack(tracked, cursor)
        /\ UNCHANGED <<mockShown, center>>
    BY <1>5 DEF PickupTake
  <2>3. DOMAIN tracked = 1..Len(tracked) /\ Len(tracked) \in Nat
    BY <1>1 DEF World, DataType
  <2>4. cursor \in DOMAIN tracked
    BY <1>1, <2>2, <2>3
  <2>5. World'
    BY <1>1, <2>2, <2>4, EntryLeaves
  <2> QED BY <2>1, <2>5, Resting
<1>6. CASE Recenter
  <2>1. pc' = "tick" /\ Control'
    BY <1>1, <1>6 DEF Recenter, Control, Phase
  <2> QED BY <1>1, <1>6, <2>1, Recentered, Resting
<1> QED BY <1>2, <1>3, <1>4, <1>5, <1>6 DEF Move

(* Digging: only the step to the drop itself has a promise to make. *)
LEMMA DigStep ==
    ASSUME IInv, Dig
    PROVE  IInv'
<1>1. World /\ cursor \in Nat \ {0} /\ left \in Nat
  BY OpenWorld DEF Dig, DigWithRoom, DigAndEvict, DropItem, IInv, Control
<1>2. ASSUME World', Len(tracked') < TrackedCap, pc' = "drop", cursor' = cursor, left' = left
      PROVE  IInv'
  BY <1>1, <1>2 DEF World, IInv, Control, Phase, Open, View, EnforceLoop, LimitEnforced,
                    RefillWithinLimits, DropRoom
<1>3. CASE DigWithRoom
  <2>1. /\ pc' = "drop" /\ cursor' = cursor /\ left' = left /\ UNCHANGED data
        /\ Len(tracked') < TrackedCap
    BY <1>3 DEF DigWithRoom, data
  <2> QED BY <1>1, <1>2, <2>1, DataUnchanged
<1>4. CASE DigAndEvict
  <2>1. pc' = "drop" /\ cursor' = cursor /\ left' = left
    BY <1>4 DEF DigAndEvict
  <2> QED BY <1>1, <1>2, <1>4, <2>1, EvictionMakesRoom
<1>5. CASE DropItem
  <2>1. pc' = "tick" /\ Control'
    BY <1>1, <1>5 DEF DropItem, Control, Phase
  <2>2. Len(tracked) < TrackedCap
    BY <1>5 DEF DropItem, IInv, DropRoom
  <2> QED BY <1>1, <1>5, <2>1, <2>2, ItemDropped, Resting
<1> QED BY <1>3, <1>4, <1>5 DEF Dig

(* The commands keep the invariant. *)
LEMMA CommandStep ==
    ASSUME IInv, Command
    PROVE  IInv'
<1>1. World /\ cursor \in Nat \ {0} /\ left \in Nat
  BY OpenWorld DEF Command, SpawnCommand, SpawnOne, SpawnDone, DespawnAll, DespawnOne, IInv, Control
<1>2. CASE SpawnCommand
  <2>1. pc' = "spawn" /\ UNCHANGED data
    BY <1>2 DEF SpawnCommand, data
  <2>2. Control'
    <3>1. left' \in 1..SpawnMax /\ cursor' = cursor
      BY <1>2 DEF SpawnCommand
    <3> QED BY <1>1, <2>1, <3>1, CapsAssumption DEF Control, Phase
  <2> QED BY <1>1, <2>1, <2>2, DataUnchanged, Resting
<1>3. CASE SpawnOne
  <2>1. pc' = "spawn" /\ SpawnMob /\ UNCHANGED <<mockShown, center>>
    BY <1>3 DEF SpawnOne
  <2>2. Control'
    BY <1>1, <1>3 DEF SpawnOne, Control, Phase
  <2>3. World'
    BY <1>1, <2>1, SpawnStep
  <2> QED BY <2>1, <2>2, <2>3, Resting
<1>4. CASE SpawnDone
  <2>1. pc' = "tick" /\ Control' /\ UNCHANGED data
    BY <1>1, <1>4 DEF SpawnDone, Control, Phase, data
  <2> QED BY <1>1, <2>1, DataUnchanged, Resting
<1>5. CASE DespawnAll
  <2>1. pc' = "tick" /\ Control'
    BY <1>1, <1>5 DEF DespawnAll, Control, Phase
  <2> QED BY <1>1, <1>5, <2>1, AllDespawned, Resting
<1>6. CASE DespawnOne
  <2>1. pc' = "tick" /\ Control'
    BY <1>1, <1>6 DEF DespawnOne, Control, Phase
  <2> QED BY <1>1, <1>6, <2>1, OneDespawned, Resting
<1> QED BY <1>2, <1>3, <1>4, <1>5, <1>6 DEF Command

(* The end of the session keeps the invariant. *)
LEMMA EndStep ==
    ASSUME IInv, EndSession
    PROVE  IInv'
<1>1. World /\ pc' = "closed" /\ Control'
  BY OpenWorld DEF EndSession, IInv, Control, Phase
<1>2. DataType' /\ NothingLost'
  BY <1>1, SessionEnds
<1> QED BY <1>1, <1>2 DEF IInv, Open, View, EnforceLoop, LimitEnforced, RefillWithinLimits, DropRoom

(* A step of nobody keeps the invariant. *)
LEMMA StutterStep ==
    ASSUME IInv, UNCHANGED vars
    PROVE  IInv'
<1>1. UNCHANGED data /\ pc' = pc /\ cursor' = cursor /\ left' = left /\ tracked' = tracked
  BY DEF vars, data
<1>2. Mobs' = Mobs
  BY <1>1 DEF Mobs
<1> QED BY <1>1, <1>2, DataUnchanged DEF IInv, Control, Open, View, EnforceLoop, LimitEnforced,
                                        RefillWithinLimits, DropRoom

(* IInv is inductive. *)
LEMMA Inductive == IInv /\ [Next]_vars => IInv'
<1> SUFFICES ASSUME IInv, [Next]_vars PROVE IInv'
  OBVIOUS
<1>1. CASE RecvNothing
  <2>1. World /\ pc' = "tick" /\ Control' /\ UNCHANGED data
    BY <1>1, OpenWorld DEF RecvNothing, IInv, Control, Phase, data
  <2> QED BY <2>1, DataUnchanged, Resting
<1> QED BY <1>1, BootstrapStep, PassHeadStep, EnforceStep, RefillStep, MoveStep, DigStep,
           CommandStep, EndStep, StutterStep DEF Next, Closed

-----------------------------------------------------------------------------
(* The theorems.                                                           *)

(* The inductive invariant holds in every reachable state. *)
THEOREM Invariance == Spec => []IInv
BY Start, Inductive, PTL DEF Spec

(* Types: in particular no id is tracked twice, the list never outgrows    *)
(* its 256 slots and the queue never outgrows its 1024.                    *)
THEOREM TypeCorrect == Spec => []TypeOK
<1>1. IInv => TypeOK
  BY DEF IInv, Control, DataType, Queues, TypeOK
<1> QED BY <1>1, Invariance, PTL

(* What the visible flags say is drawn is drawn, while the session lasts.  *)
THEOREM FlagsMatch == Spec => []FlagsMatchClient
<1>1. IInv => FlagsMatchClient
  BY DEF IInv, Open, World, FlagsMatchClient
<1> QED BY <1>1, Invariance, PTL

(* Without dropped events registry, list and screen lose nothing. *)
THEOREM Lossless == Spec => []NothingLost
<1>1. IInv => NothingLost
  BY DEF IInv
<1> QED BY <1>1, Invariance, PTL

(* At the end of every pass the view is exact. *)
THEOREM ExactView == Spec => []ViewIsExact
<1>1. IInv => ViewIsExact
  BY DEF IInv, View, Exact, ViewIsExact
<1> QED BY <1>1, Invariance, PTL

(* The limit of the configuration, as far as its loop enforces it. *)
THEOREM Limits == Spec => []LimitEnforced
<1>1. IInv => LimitEnforced
  BY DEF IInv
<1> QED BY <1>1, Invariance, PTL

(* A refill under way never passes the two limits it was computed from,    *)
(* whatever is tracked or dropped between the mobs it adds.                *)
THEOREM RefillLimits == Spec => []RefillWithinLimits
<1>1. IInv => RefillWithinLimits
  BY DEF IInv
<1> QED BY <1>1, Invariance, PTL
=============================================================================
