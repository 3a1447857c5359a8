-------------------------- MODULE Moderation_proofs --------------------------
(***************************************************************************)
(* Proofs about Moderation, for any number of sessions, names, commands    *)
(* and capacities, with files that may fail to open.                       *)
(***************************************************************************)
EXTENDS Moderation, DataLemmas

-----------------------------------------------------------------------------
(* Lists of names.                                                         *)

NoComment(names) == \A i \in DOMAIN names : names[i] \notin Comments
SomeName(names) == \E i \in DOMAIN names : names[i] \notin Comments

(* A change of a list: the name is added at its end, or its first entry    *)
(* goes and the gap is closed.                                             *)
LEMMA AppendName ==
    ASSUME NEW s \in Seq(Name), NEW n \in Name
    PROVE  /\ Append(s, n) \in Seq(Name) /\ Len(Append(s, n)) = Len(s) + 1
           /\ \A m \in Name : Listed(Append(s, n), m) <=> Listed(s, m) \/ Same(n, m)
           /\ Distinct(s) /\ ~Listed(s, n) => Distinct(Append(s, n))
           /\ NoComment(s) /\ n \notin Comments => NoComment(Append(s, n))
<1> DEFINE t == Append(s, n)
<1>1. /\ t \in Seq(Name) /\ Len(t) = Len(s) + 1 /\ DOMAIN t = 1..(Len(s) + 1)
      /\ DOMAIN s = 1..Len(s) /\ Len(s) \in Nat
      /\ \A i \in 1..Len(s) : t[i] = s[i]
      /\ t[Len(s) + 1] = n
  OBVIOUS
<1> HIDE DEF t
<1>2. \A i \in DOMAIN t : i \in DOMAIN s \/ i = Len(s) + 1
  BY <1>1
<1>3. ASSUME NEW m \in Name PROVE Listed(t, m) <=> Listed(s, m) \/ Same(n, m)
  <2>1. ASSUME Listed(t, m) PROVE Listed(s, m) \/ Same(n, m)
    BY <1>1, <1>2, <2>1 DEF Listed
  <2>2. ASSUME Listed(s, m) PROVE Listed(t, m)
    BY <1>1, <2>2 DEF Listed
  <2>3. ASSUME Same(n, m) PROVE Listed(t, m)
    BY <1>1, <2>3 DEF Listed
  <2> QED BY <2>1, <2>2, <2>3
<1>4. ASSUME Distinct(s), ~Listed(s, n) PROVE Distinct(t)
  BY <1>1, <1>2, <1>4 DEF Distinct, Listed, Same
<1>5. ASSUME NoComment(s), n \notin Comments PROVE NoComment(t)
  BY <1>1, <1>2, <1>5 DEF NoComment
<1> QED BY <1>1, <1>3, <1>4, <1>5 DEF t

(* The first entry that is n, and what is left without it. *)
LEMMA RemoveName ==
    ASSUME NEW s \in Seq(Name), NEW n \in Name, Listed(s, n), Distinct(s),
           NEW t, t = RemoveAt(s, Place(s, n))
    PROVE  /\ t \in Seq(Name) /\ Len(t) = Len(s) - 1 /\ Distinct(t)
           /\ \A m \in Name : Listed(t, m) <=> Listed(s, m) /\ ~Same(n, m)
           /\ NoComment(s) => NoComment(t)
<1> DEFINE p == Place(s, n)
<1>1. /\ DOMAIN s = 1..Len(s) /\ Len(s) \in Nat
      /\ p \in DOMAIN s /\ Same(s[p], n)
  <2>1. PICK i \in DOMAIN s : Same(s[i], n)
    BY DEF Listed
  <2>2. \A j \in 1..(i - 1) : ~Same(s[j], n)
    BY <2>1 DEF Distinct, Same
  <2> QED BY <2>1, <2>2 DEF Place
<1>2. \A i \in DOMAIN s : Same(s[i], n) => i = p
  BY <1>1 DEF Distinct, Same
<1> HIDE DEF p
<1>3. /\ t \in Seq(Name) /\ Len(t) = Len(s) - 1
      /\ \A j \in 1..(Len(s) - 1) : t[j] = IF j < p THEN s[j] ELSE s[j + 1]
  BY <1>1, RemoveAtEntries DEF p
<1>4. /\ DOMAIN t = 1..(Len(s) - 1)
      /\ \A j \in DOMAIN t : \E i \in DOMAIN s : i # p /\ t[j] = s[i]
      /\ \A i \in DOMAIN s : i # p => \E j \in DOMAIN t : t[j] = s[i]
  <2>1. DOMAIN t = 1..(Len(s) - 1)
    BY <1>1, <1>3
  <2>2. ASSUME NEW j \in DOMAIN t PROVE \E i \in DOMAIN s : i # p /\ t[j] = s[i]
    <3>1. CASE j < p
      BY <1>1, <1>3, <2>1, <3>1
    <3>2. CASE ~(j < p)
      <4>1. j + 1 \in DOMAIN s /\ j + 1 # p /\ t[j] = s[j + 1]
        BY <1>1, <1>3, <2>1, <3>2
      <4> QED BY <4>1
    <3> QED BY <3>1, <3>2
  <2>3. ASSUME NEW i \in DOMAIN s, i # p PROVE \E j \in DOMAIN t : t[j] = s[i]
    <3>1. CASE i < p
      BY <1>1, <1>3, <2>1, <3>1
    <3>2. CASE ~(i < p)
      <4>1. i - 1 \in DOMAIN t /\ ~(i - 1 < p) /\ (i - 1) + 1 = i
        BY <1>1, <2>1, <2>3, <3>2
      <4>2. t[i - 1] = s[i]
        BY <1>3, <2>1, <4>1
      <4> QED BY <4>1, <4>2
    <3> QED BY <3>1, <3>2
  <2> QED BY <2>1, <2>2, <2>3
<1>5. Distinct(t)
  <2> SUFFICES ASSUME NEW i \in DOMAIN t, NEW j \in DOMAIN t, Same(t[i], t[j])
               PROVE  i = j
    BY DEF Distinct
  <2> DEFINE Old(k) == IF k < p THEN k ELSE k + 1
  <2>1. i \in Nat /\ j \in Nat /\ p \in Nat
    BY <1>1, <1>4
  <2>2. ASSUME NEW k \in DOMAIN t PROVE Old(k) \in DOMAIN s /\ t[k] = s[Old(k)]
    <3>1. k \in 1..(Len(s) - 1) /\ Len(s) \in Nat
      BY <1>1, <1>4
    <3>2. Old(k) \in 1..Len(s)
      BY <3>1, <2>1
    <3> QED BY <1>1, <1>3, <3>1, <3>2
  <2>3. Same(s[Old(i)], s[Old(j)])
    BY <2>2
  <2> HIDE DEF Old
  <2>4. Old(i) = Old(j)
    BY <2>2, <2>3 DEF Distinct
  <2> QED BY <2>1, <2>4 DEF Old
<1>6. ASSUME NEW m \in Name PROVE Listed(t, m) <=> Listed(s, m) /\ ~Same(n, m)
  <2>1. ASSUME Listed(t, m) PROVE Listed(s, m) /\ ~Same(n, m)
    <3>1. PICK j \in DOMAIN t : Same(t[j], m)
      BY <2>1 DEF Listed
    <3>2. PICK i \in DOMAIN s : i # p /\ t[j] = s[i]
      BY <1>4
    <3> QED BY <1>2, <3>1, <3>2 DEF Listed, Same
  <2>2. ASSUME Listed(s, m), ~Same(n, m) PROVE Listed(t, m)
    <3>1. PICK i \in DOMAIN s : Same(s[i], m)
      BY <2>2 DEF Listed
    <3>2. i # p
      BY <1>1, <2>2, <3>1 DEF Same
    <3>3. PICK j \in DOMAIN t : t[j] = s[i]
      BY <1>4, <3>2
    <3> QED BY <3>1, <3>3 DEF Listed
  <2> QED BY <2>1, <2>2
<1>7. NoComment(s) => NoComment(t)
  BY <1>4 DEF NoComment
<1> QED BY <1>3, <1>5, <1>6, <1>7

-----------------------------------------------------------------------------
(* Loading a file.                                                         *)

(* What the reader of a file holds after each line. *)
LEMMA LoadedLines ==
    ASSUME NEW names \in Seq(Name), NEW max \in Nat
    PROVE  \E f \in [0..Len(names) -> Seq(Name)] :
             /\ f[0] = <<>> /\ Loaded(names, max) = f[Len(names)]
             /\ \A i \in 1..Len(names) :
                  f[i] = IF names[i] \in Comments \/ Listed(f[i - 1], names[i]) \/ Len(f[i - 1]) >= max
                         THEN f[i - 1] ELSE Append(f[i - 1], names[i])
<1> DEFINE n == Len(names)
           Line(r, i) == IF names[i] \in Comments \/ Listed(r, names[i]) \/ Len(r) >= max
                         THEN r ELSE Append(r, names[i])
           Read(f) == f = [i \in 0..n |-> IF i = 0 THEN <<>> ELSE Line(f[i - 1], i)]
           T == Seq(Name)
           first == <<>>
           next == [i \in 1..n |-> [r \in T |-> Line(r, i)]]
<1>1. n \in Nat /\ first \in T /\ \A i \in 1..n : names[i] \in Name
  BY ElementOfSeq
<1>2. \A r \in T, i \in 1..n : Line(r, i) \in T
  BY <1>1
<1> HIDE DEF Line, n, T, first
<1>3. next \in [1..n -> [T -> T]]
  BY <1>2
<1>4. \A r \in T, i \in 1..n : next[i][r] = Line(r, i)
  OBVIOUS
<1> HIDE DEF next
<1>5. PICK g \in [0..n -> T] : CountsUp(g, n, first, next)
  BY <1>1, <1>3, DefinedByCounting
<1>6. \A i \in 0..n : i # 0 => i \in 1..n /\ i - 1 \in 0..n
  BY <1>1
<1>7. \A i \in 1..n : g[i] = Line(g[i - 1], i)
  <2> TAKE i \in 1..n
  <2>1. i \in 0..n /\ i - 1 \in 0..n /\ g[i - 1] \in T
    BY <1>1
  <2> QED BY <1>4, <1>5, <2>1 DEF CountsUp
<1>8. Read(g)
  BY <1>5, <1>6, <1>7 DEF first, CountsUp
<1> DEFINE f == CHOOSE f : Read(f)
<1>9. Read(f)
  BY <1>8
<1>10. Loaded(names, max) = f[n]
  BY Zenon DEF Loaded, Line, n
<1> HIDE DEF f
<1>11. DOMAIN f = 0..n /\ f[0] = first /\ \A i \in 1..n : f[i] = Line(f[i - 1], i)
  BY <1>1, <1>6, <1>9 DEF first
<1>12. f[n] = g[n]
  <2>1. CountsIn(T, f, n, first, next)
    BY <1>4, <1>11 DEF CountsIn
  <2> QED BY <1>1, <1>3, <1>5, <2>1, SameByCounting
<1> QED BY <1>5, <1>7, <1>10, <1>12 DEF Line, n, T, first, CountsUp

(* The same of the names of a list that are no comments. *)
LEMMA UncommentedLines ==
    ASSUME NEW names \in Seq(Name)
    PROVE  \E f \in [0..Len(names) -> Seq(Name)] :
             /\ f[0] = <<>> /\ Uncommented(names) = f[Len(names)]
             /\ \A i \in 1..Len(names) :
                  f[i] = IF names[i] \in Comments THEN f[i - 1] ELSE Append(f[i - 1], names[i])
<1> DEFINE n == Len(names)
           Line(r, i) == IF names[i] \in Comments THEN r ELSE Append(r, names[i])
           Read(f) == f = [i \in 0..n |-> IF i = 0 THEN <<>> ELSE Line(f[i - 1], i)]
           T == Seq(Name)
           first == <<>>
           next == [i \in 1..n |-> [r \in T |-> Line(r, i)]]
<1>1. n \in Nat /\ first \in T /\ \A i \in 1..n : names[i] \in Name
  BY ElementOfSeq
<1>2. \A r \in T, i \in 1..n : Line(r, i) \in T
  BY <1>1
<1> HIDE DEF Line, n, T, first
<1>3. next \in [1..n -> [T -> T]]
  BY <1>2
<1>4. \A r \in T, i \in 1..n : next[i][r] = Line(r, i)
  OBVIOUS
<1> HIDE DEF next
<1>5. PICK g \in [0..n -> T] : CountsUp(g, n, first, next)
  BY <1>1, <1>3, DefinedByCounting
<1>6. \A i \in 0..n : i # 0 => i \in 1..n /\ i - 1 \in 0..n
  BY <1>1
<1>7. \A i \in 1..n : g[i] = Line(g[i - 1], i)
  <2> TAKE i \in 1..n
  <2>1. i \in 0..n /\ i - 1 \in 0..n /\ g[i - 1] \in T
    BY <1>1
  <2> QED BY <1>4, <1>5, <2>1 DEF CountsUp
<1>8. Read(g)
  BY <1>5, <1>6, <1>7 DEF first, CountsUp
<1> DEFINE f == CHOOSE f : Read(f)
<1>9. Read(f)
  BY <1>8
<1>10. Uncommented(names) = f[n]
  BY Zenon DEF Uncommented, Line, n
<1> HIDE DEF f
<1>11. DOMAIN f = 0..n /\ f[0] = first /\ \A i \in 1..n : f[i] = Line(f[i - 1], i)
  BY <1>1, <1>6, <1>9 DEF first
<1>12. f[n] = g[n]
  <2>1. CountsIn(T, f, n, first, next)
    BY <1>4, <1>11 DEF CountsIn
  <2> QED BY <1>1, <1>3, <1>5, <2>1, SameByCounting
<1> QED BY <1>5, <1>7, <1>10, <1>12 DEF Line, n, T, first, CountsUp

(* A file that is loaded gives a list the server could hold: no player     *)
(* twice, no more than there is room for, no comment, and somebody when a  *)
(* line of the file names somebody.                                        *)
LEMMA LoadedList ==
    ASSUME NEW names \in Seq(Name), NEW max \in Nat
    PROVE  /\ Loaded(names, max) \in Seq(Name) /\ Len(Loaded(names, max)) <= max
           /\ Distinct(Loaded(names, max)) /\ NoComment(Loaded(names, max))
           /\ Loaded(names, max) # <<>> => SomeName(names)
           /\ max > 0 /\ SomeName(names) => Loaded(names, max) # <<>>
<1> DEFINE n == Len(names)
<1>1. n \in Nat /\ DOMAIN names = 1..n /\ \A i \in 1..n : names[i] \in Name
  BY ElementOfSeq
<1>2. PICK f \in [0..n -> Seq(Name)] :
        /\ f[0] = <<>> /\ Loaded(names, max) = f[n]
        /\ \A i \in 1..n :
             f[i] = IF names[i] \in Comments \/ Listed(f[i - 1], names[i]) \/ Len(f[i - 1]) >= max
                    THEN f[i - 1] ELSE Append(f[i - 1], names[i])
  BY LoadedLines
<1> HIDE DEF n
<1> DEFINE Fits(i) == Len(f[i]) <= max /\ Distinct(f[i]) /\ NoComment(f[i])
           Read(i) == \E j \in 1..i : names[j] \notin Comments
           Kept(i) == /\ f[i] # <<>> => Read(i)
                      /\ max > 0 /\ Read(i) => f[i] # <<>>
           G == {i \in 0..n : Fits(i) /\ Kept(i)}
<1>3. 0 \in G
  <2>1. Fits(0)
    BY <1>2 DEF Distinct, NoComment
  <2>2. Kept(0)
    BY <1>2
  <2> QED BY <1>1, <2>1, <2>2
<1>4. ASSUME NEW i \in 1..n, i - 1 \in G PROVE i \in G
  <2> DEFINE r == f[i - 1]
  <2>1. /\ i \in Nat /\ i - 1 \in Nat /\ i - 1 \in 0..n /\ r \in Seq(Name) /\ names[i] \in Name
        /\ Fits(i - 1) /\ Kept(i - 1)
    BY <1>1, <1>4
  <2>2. Read(i) <=> Read(i - 1) \/ names[i] \notin Comments
    BY <2>1
  <2> HIDE DEF Read
  <2>3. CASE names[i] \in Comments \/ Listed(r, names[i]) \/ Len(r) >= max
    <3>1. f[i] = r
      BY <1>2, <2>3
    <3>2. Fits(i)
      BY <2>1, <3>1
    <3>3. CASE names[i] \in Comments
      BY <2>1, <2>2, <3>1, <3>2, <3>3
    <3>4. CASE Listed(r, names[i]) \/ Len(r) >= max
      <4>1. max > 0 => r # <<>>
        BY <2>1, <3>4 DEF Listed
      <4> QED BY <2>1, <2>2, <3>1, <3>2, <4>1
    <3> QED BY <2>3, <3>3, <3>4
  <2>4. CASE ~(names[i] \in Comments \/ Listed(r, names[i]) \/ Len(r) >= max)
    <3>1. f[i] = Append(r, names[i])
      BY <1>2, <2>4
    <3>2. Len(Append(r, names[i])) = Len(r) + 1 /\ Len(r) \in Nat
      BY <2>1
    <3>3. Fits(i)
      BY <2>1, <2>4, <3>1, <3>2, AppendName
    <3>4. f[i] # <<>>
      BY <2>1, <3>1
    <3> QED BY <2>1, <2>2, <2>4, <3>3, <3>4
  <2> QED BY <2>3, <2>4
<1>5. n \in G
  <2> HIDE DEF G
  <2>1. \A i \in 0..n : i \in G
    BY <1>1, <1>3, <1>4, CountUp
  <2> QED BY <1>1, <2>1
<1>6. Fits(n) /\ Kept(n) /\ f[n] \in Seq(Name)
  BY <1>1, <1>5
<1>7. Read(n) <=> SomeName(names)
  BY <1>1 DEF SomeName
<1> QED BY <1>2, <1>6, <1>7

(* Loading what was written of a list of the server loses the comments of  *)
(* the list and nothing else.                                              *)
LEMMA LoadedAgain ==
    ASSUME NEW names \in Seq(Name), NEW max \in Nat, Distinct(names), Len(names) <= max
    PROVE  Loaded(names, max) = Uncommented(names)
<1> DEFINE n == Len(names)
<1>1. n \in Nat /\ DOMAIN names = 1..n /\ \A i \in 1..n : names[i] \in Name
  BY ElementOfSeq
<1>2. PICK f \in [0..n -> Seq(Name)] :
        /\ f[0] = <<>> /\ Loaded(names, max) = f[n]
        /\ \A i \in 1..n :
             f[i] = IF names[i] \in Comments \/ Listed(f[i - 1], names[i]) \/ Len(f[i - 1]) >= max
                    THEN f[i - 1] ELSE Append(f[i - 1], names[i])
  BY LoadedLines
<1>3. PICK g \in [0..n -> Seq(Name)] :
        /\ g[0] = <<>> /\ Uncommented(names) = g[n]
        /\ \A i \in 1..n :
             g[i] = IF names[i] \in Comments THEN g[i - 1] ELSE Append(g[i - 1], names[i])
  BY UncommentedLines
<1>4. n <= max
  OBVIOUS
<1> HIDE DEF n
<1> DEFINE Earlier(i) == \A m \in Name : Listed(g[i], m) => \E j \in 1..i : Same(names[j], m)
           G == {i \in 0..n : f[i] = g[i] /\ Len(g[i]) <= i /\ Earlier(i)}
<1>5. 0 \in G
  BY <1>1, <1>2, <1>3 DEF Listed
<1>6. ASSUME NEW i \in 1..n, i - 1 \in G PROVE i \in G
  <2> DEFINE r == g[i - 1]
  <2>1. /\ i \in Nat /\ i - 1 \in Nat /\ i - 1 \in 0..n /\ r \in Seq(Name) /\ names[i] \in Name
        /\ f[i - 1] = r /\ Len(r) <= i - 1 /\ Len(r) \in Nat /\ Earlier(i - 1)
    BY <1>1, <1>6
  <2>2. ~Listed(r, names[i])
    <3>1. \A j \in 1..(i - 1) : j \in DOMAIN names /\ i \in DOMAIN names /\ j # i
      BY <1>1, <2>1
    <3>2. \A j \in 1..(i - 1) : ~Same(names[j], names[i])
      BY <3>1 DEF Distinct
    <3> QED BY <2>1, <3>2
  <2>3. ~(Len(r) >= max)
    BY <1>1, <1>4, <2>1
  <2>4. f[i] = g[i]
    BY <1>2, <1>3, <2>1, <2>2, <2>3
  <2>5. CASE names[i] \in Comments
    <3>1. g[i] = r
      BY <1>3, <2>5
    <3>2. Earlier(i)
      BY <2>1, <3>1
    <3> QED BY <2>1, <2>4, <3>1, <3>2
  <2>6. CASE names[i] \notin Comments
    <3>1. g[i] = Append(r, names[i])
      BY <1>3, <2>6
    <3>2. Len(g[i]) = Len(r) + 1 /\ \A m \in Name : Listed(g[i], m) => Listed(r, m) \/ Same(names[i], m)
      BY <2>1, <3>1, AppendName
    <3>3. Earlier(i)
      BY <2>1, <3>2
    <3> QED BY <2>1, <2>4, <3>2, <3>3
  <2> QED BY <2>5, <2>6
<1>7. n \in G
  <2> HIDE DEF G
  <2>1. \A i \in 0..n : i \in G
    BY <1>1, <1>5, <1>6, CountUp
  <2> QED BY <1>1, <2>1
<1> QED BY <1>2, <1>3, <1>7

(* A list without comments has none to lose. *)
LEMMA UncommentedSame ==
    ASSUME NEW names \in Seq(Name), NoComment(names)
    PROVE  Uncommented(names) = names
<1> DEFINE n == Len(names)
<1>1. n \in Nat /\ DOMAIN names = 1..n /\ \A i \in 1..n : names[i] \in Name
  BY ElementOfSeq
<1>2. PICK g \in [0..n -> Seq(Name)] :
        /\ g[0] = <<>> /\ Uncommented(names) = g[n]
        /\ \A i \in 1..n :
             g[i] = IF names[i] \in Comments THEN g[i - 1] ELSE Append(g[i - 1], names[i])
  BY UncommentedLines
<1> HIDE DEF n
<1> DEFINE G == {i \in 0..n : Len(g[i]) = i /\ \A j \in 1..i : g[i][j] = names[j]}
<1>3. 0 \in G
  BY <1>1, <1>2
<1>4. ASSUME NEW i \in 1..n, i - 1 \in G PROVE i \in G
  <2> DEFINE r == g[i - 1]
  <2>1. /\ i \in Nat /\ i - 1 \in 0..n /\ r \in Seq(Name) /\ names[i] \in Name
        /\ Len(r) = i - 1 /\ \A j \in 1..(i - 1) : r[j] = names[j]
    BY <1>1, <1>4
  <2>2. g[i] = Append(r, names[i])
    BY <1>1, <1>2 DEF NoComment
  <2> HIDE DEF r
  <2>3. Len(g[i]) = i
    BY <2>1, <2>2
  <2>4. \A j \in 1..i : g[i][j] = names[j]
    BY <2>1, <2>2
  <2> QED BY <2>3, <2>4
<1>5. n \in G
  <2> HIDE DEF G
  <2>1. \A i \in 0..n : i \in G
    BY <1>1, <1>3, <1>4, CountUp
  <2> QED BY <1>1, <2>1
<1>6. g[n] \in Seq(Name) /\ Len(g[n]) = n /\ \A j \in 1..n : g[n][j] = names[j]
  BY <1>1, <1>5
<1>7. g[n] = names
  BY <1>1, <1>6 DEF n
<1> QED BY <1>2, <1>7

-----------------------------------------------------------------------------
(* The invariant.                                                          *)

CommandSet == [list : Lists, add : BOOLEAN, name : Name]
Steps == {"out", "idle", "apply", "audit", "copy", "open", "write"}

Types ==
    /\ list \in [Lists -> Seq(Name)] /\ file \in [Lists -> Seq(Name)]
    /\ \A l \in Lists : Len(list[l]) <= Capacity[l] /\ Distinct(list[l])
    /\ pc \in [Worker -> Steps] /\ who \in [Worker -> Name \ Comments]
    /\ cmd \in [Worker -> CommandSet \cup {NoCommand}]
    /\ \A w \in Worker : /\ pc[w] \in {"apply", "audit"} => cmd[w] \in CommandSet
                         /\ pc[w] = "apply" => cmd[w] \in Commands
    /\ copy \in [Worker -> [Lists -> Seq(Name)]] /\ at \in [Worker -> Lists]
    /\ account \in [Lists -> [Keys -> Int]]
    /\ unlogged \in BOOLEAN /\ overlapped \in BOOLEAN
    /\ failed \in BOOLEAN /\ everSaved \in BOOLEAN
    /\ late \in [Worker -> Nat]
    /\ changes \in Nat /\ crashes \in 0..MaxCrashes

(* What a change of the lists leaves there, whoever makes it. *)
LEMMA ChangedLists ==
    ASSUME Types, NEW c \in CommandSet, Change(c),
           IF c.add THEN CanAdd(c.list, c.name) ELSE CanRemove(c.list, c.name)
    PROVE  /\ list' \in [Lists -> Seq(Name)]
           /\ \A l \in Lists : Len(list'[l]) <= Capacity[l] /\ Distinct(list'[l])
           /\ \A l \in Lists, n \in Name :
                Listed(list'[l], n) <=> IF l = c.list /\ Same(c.name, n) THEN c.add ELSE Listed(list[l], n)
           /\ \A l \in Lists : l # c.list => list'[l] = list[l]
           /\ NoComment(list["moderators"]) /\ (c.list = "moderators" => c.name \notin Comments)
                => NoComment(list'["moderators"])
           /\ list["moderators"] # <<>> \/ (c.list = "moderators" /\ c.add) => list'["moderators"] # <<>>
<1> DEFINE s == list[c.list]
           t == IF c.add THEN Append(s, c.name) ELSE RemoveAt(s, Place(s, c.name))
<1>1. /\ c.list \in Lists /\ c.add \in BOOLEAN /\ c.name \in Name /\ "moderators" \in Lists
      /\ s \in Seq(Name) /\ Len(s) \in Nat /\ Len(s) <= Capacity[c.list] /\ Distinct(s)
      /\ Capacity[c.list] \in Nat
  BY NamesAssumption DEF CommandSet, Types, Lists
<1>2. /\ list' = [list EXCEPT ![c.list] = t]
      /\ t = IF c.add THEN Append(s, c.name) ELSE RemoveAt(s, Place(s, c.name))
      /\ IF c.add THEN ~Listed(s, c.name) /\ Len(s) < Capacity[c.list]
         ELSE Listed(s, c.name) /\ (c.list = "moderators" => Len(s) > 1)
  BY DEF Change, CanAdd, CanRemove
<1> HIDE DEF s, t
<1>3. /\ t \in Seq(Name) /\ Len(t) <= Capacity[c.list] /\ Distinct(t)
      /\ \A n \in Name : Listed(t, n) <=> IF Same(c.name, n) THEN c.add ELSE Listed(s, n)
      /\ NoComment(s) /\ (c.add => c.name \notin Comments) => NoComment(t)
      /\ c.add \/ (c.list = "moderators" /\ s # <<>>) => t # <<>>
  <2>1. CASE c.add
    <3>1. ~Listed(s, c.name) /\ Len(s) < Capacity[c.list] /\ t = Append(s, c.name)
      BY <1>2, <2>1
    <3>2. Len(t) = Len(s) + 1 /\ t # <<>>
      BY <1>1, <3>1
    <3> QED BY <1>1, <2>1, <3>1, <3>2, AppendName
  <2>2. CASE ~c.add
    <3>1. /\ Listed(s, c.name) /\ t = RemoveAt(s, Place(s, c.name))
          /\ c.list = "moderators" => Len(s) > 1
      BY <1>2, <2>2
    <3>2. /\ t \in Seq(Name) /\ Len(t) = Len(s) - 1 /\ Distinct(t)
          /\ \A m \in Name : Listed(t, m) <=> Listed(s, m) /\ ~Same(c.name, m)
          /\ NoComment(s) => NoComment(t)
      BY <1>1, <3>1, RemoveName
    <3>3. Len(t) <= Capacity[c.list] /\ (c.list = "moderators" => t # <<>>)
      BY <1>1, <3>1, <3>2
    <3> QED BY <2>2, <3>2, <3>3
  <2> QED BY <2>1, <2>2
<1>4. /\ list' \in [Lists -> Seq(Name)] /\ list'[c.list] = t /\ list[c.list] = s
      /\ \A l \in Lists : l # c.list => list'[l] = list[l]
  BY <1>1, <1>2, <1>3 DEF Types, s
<1>5. ASSUME NEW l \in Lists
      PROVE  /\ Len(list'[l]) <= Capacity[l] /\ Distinct(list'[l])
             /\ \A n \in Name :
                  Listed(list'[l], n) <=> IF l = c.list /\ Same(c.name, n) THEN c.add ELSE Listed(list[l], n)
  <2>1. CASE l = c.list
    BY <1>3, <1>4, <2>1
  <2>2. CASE l # c.list
    BY <1>4, <2>2 DEF Types
  <2> QED BY <2>1, <2>2
<1>6. /\ NoComment(list["moderators"]) /\ (c.list = "moderators" => c.name \notin Comments)
           => NoComment(list'["moderators"])
      /\ list["moderators"] # <<>> \/ (c.list = "moderators" /\ c.add) => list'["moderators"] # <<>>
  <2>1. CASE c.list = "moderators"
    BY <1>3, <1>4, <2>1
  <2>2. CASE c.list # "moderators"
    BY <1>1, <1>4, <2>2
  <2> QED BY <2>1, <2>2
<1> QED BY <1>4, <1>5, <1>6

(* The two steps that change the lists: the promotion of the first player  *)
(* and a command.                                                          *)
Making(w) == JoinFirst(w) \/ Apply(w)
Makes(w, c) ==
    /\ Change(c) /\ IF c.add THEN CanAdd(c.list, c.name) ELSE CanRemove(c.list, c.name)
    /\ Changed(w, c, JoinFirst(w) \/ IsModerator(who[w]))
    /\ Goto(w, "audit") /\ cmd' = [cmd EXCEPT ![w] = c]
    /\ JoinFirst(w) => c.list = "moderators" /\ c.add /\ Same(who[w], c.name)
    /\ c \in Commands \/ c.name \notin Comments
    /\ UNCHANGED <<file, who, save>>
LEMMA MakingMakes ==
    ASSUME Types, NEW w \in Worker, Making(w)
    PROVE  \E c \in CommandSet : Makes(w, c)
<1>1. CASE JoinFirst(w)
  <2> DEFINE c == [list |-> "moderators", add |-> TRUE, name |-> who[w]]
  <2>1. who[w] \in Name /\ who[w] \notin Comments /\ "moderators" \in Lists
    BY DEF Types, Lists
  <2>2. c \in CommandSet /\ c.list = "moderators" /\ c.add /\ c.name = who[w]
    BY <2>1 DEF CommandSet
  <2>3. /\ list["moderators"] = <<>> /\ Change(c) /\ cmd' = [cmd EXCEPT ![w] = c]
        /\ Changed(w, c, TRUE) /\ Goto(w, "audit") /\ UNCHANGED <<file, who, save>>
    BY <1>1 DEF JoinFirst
  <2> HIDE DEF c
  <2>4. CanAdd(c.list, c.name)
    <3>1. Capacity["moderators"] \in Nat \ {0}
      BY <2>1, NamesAssumption
    <3>2. ~Listed(<<>>, c.name) /\ Len(<<>>) = 0
      BY DEF Listed
    <3> QED BY <2>2, <2>3, <3>1, <3>2 DEF CanAdd
  <2>5. Changed(w, c, JoinFirst(w) \/ IsModerator(who[w]))
    BY <1>1, <2>3 DEF Changed
  <2> QED BY <2>1, <2>2, <2>3, <2>4, <2>5 DEF Makes, Same
<1>2. CASE Apply(w) /\ ~JoinFirst(w)
  <2> DEFINE c == cmd[w]
  <2>1. /\ c \in CommandSet /\ c \in Commands /\ cmd \in [Worker -> CommandSet \cup {NoCommand}]
    BY <1>2 DEF Types, Apply
  <2>2. cmd' = [cmd EXCEPT ![w] = c]
    BY <1>2, <2>1 DEF Apply
  <2>3. /\ Change(c) /\ IF c.add THEN CanAdd(c.list, c.name) ELSE CanRemove(c.list, c.name)
        /\ Changed(w, c, IsModerator(who[w])) /\ Goto(w, "audit") /\ UNCHANGED <<file, who, save>>
    BY <1>2 DEF Apply
  <2>4. Changed(w, c, JoinFirst(w) \/ IsModerator(who[w]))
    BY <1>2, <2>3 DEF Changed
  <2> HIDE DEF c
  <2> QED BY <1>2, <2>1, <2>2, <2>3, <2>4 DEF Makes
<1> QED BY <1>1, <1>2 DEF Making

(* A write at the start of a file leaves what it writes there. *)
LEMMA Overwritten ==
    ASSUME NEW old \in Seq(Name), NEW new \in Seq(Name)
    PROVE  /\ Overwrite(old, new) \in Seq(Name)
           /\ NoComment(new) /\ new # <<>> => SomeName(Overwrite(old, new))
           /\ old = <<>> => Overwrite(old, new) = new
<1> DEFINE rest == SubSeq(old, Len(new) + 1, Len(old))
<1>1. /\ rest \in Seq(Name) /\ Len(new) \in Nat /\ Len(old) \in Nat
      /\ old = <<>> => rest = <<>>
  OBVIOUS
<1> HIDE DEF rest
<1>2. /\ new \o rest \in Seq(Name) /\ Len(new \o rest) = Len(new) + Len(rest)
      /\ \A i \in 1..Len(new) : (new \o rest)[i] = new[i]
  BY <1>1
<1>3. ASSUME NoComment(new), new # <<>> PROVE SomeName(new \o rest)
  <2>1. Len(new) > 0 /\ 1 \in DOMAIN new /\ new[1] \notin Comments
    BY <1>1, <1>3 DEF NoComment
  <2>2. 1 \in DOMAIN (new \o rest) /\ (new \o rest)[1] = new[1]
    BY <1>1, <1>2, <2>1
  <2> QED BY <2>1, <2>2 DEF SomeName
<1>4. old = <<>> => new \o rest = new
  BY <1>1
<1> QED BY <1>2, <1>3, <1>4 DEF Overwrite, rest

(* The steps that leave the lists alone. *)
Reading(w) ==
    Join(w) \/ RecvOther(w) \/ ReadCommand(w) \/ ApplyRefused(w) \/ Audit(w) \/ Save(w)

(* A step is a change of the lists, leaves them alone, or is a restart. *)
LEMMA StepKinds ==
    ASSUME [Next]_vars
    PROVE  (\E w \in Worker : Making(w) \/ Reading(w)) \/ Restart \/ UNCHANGED vars
BY DEF Next, Command, Making, Reading

(* Every step keeps the types. *)
LEMMA TypesStep ==
    ASSUME Types, [Next]_vars
    PROVE  Types'
<1>1. ASSUME NEW w \in Worker, Making(w) PROVE Types'
  <2>1. PICK c \in CommandSet : Makes(w, c)
    BY <1>1, MakingMakes
  <2>2. /\ list' \in [Lists -> Seq(Name)]
        /\ \A l \in Lists : Len(list'[l]) <= Capacity[l] /\ Distinct(list'[l])
    BY <2>1, ChangedLists DEF Makes
  <2>3. /\ pc' \in [Worker -> Steps] /\ cmd' \in [Worker -> CommandSet \cup {NoCommand}]
        /\ pc'[w] = "audit" /\ cmd'[w] = c
        /\ \A v \in Worker : v # w => pc'[v] = pc[v] /\ cmd'[v] = cmd[v]
    BY <2>1 DEF Makes, Goto, Types, Steps
  <2>4. late' \in [Worker -> Nat]
    <3> DEFINE now(v) == IF c.list = "moderators" /\ c.add /\ Same(who[v], c.name) THEN 0
                         ELSE IF v = w /\ ~(JoinFirst(w) \/ IsModerator(who[w])) THEN late[v] + 1
                         ELSE late[v]
    <3>1. late' = [v \in Worker |-> now(v)]
      BY <2>1 DEF Makes, Changed
    <3>2. \A v \in Worker : now(v) \in Nat
      BY DEF Types
    <3> HIDE DEF now
    <3> QED BY <3>1, <3>2
  <2>5. changes' \in Nat
    <3>1. changes' = changes \/ changes' = changes + 1
      BY <1>1 DEF Making, JoinFirst, Apply
    <3> QED BY <3>1 DEF Types
  <2>6. /\ UNCHANGED <<file, who, copy, at>>
        /\ UNCHANGED <<account, unlogged, overlapped, failed, everSaved, crashes>>
    BY <2>1 DEF Makes, Changed, save
  <2>7. \A v \in Worker : /\ pc'[v] \in {"apply", "audit"} => cmd'[v] \in CommandSet
                          /\ pc'[v] = "apply" => cmd'[v] \in Commands
    BY <2>3 DEF Types
  <2> QED BY <2>2, <2>3, <2>4, <2>5, <2>6, <2>7 DEF Types
<1>2. ASSUME NEW w \in Worker, Reading(w) PROVE Types'
  <2>1. /\ UNCHANGED <<list, who, late, crashes>> /\ changes' = changes
    BY <1>2 DEF Reading, Join, RecvOther, ReadCommand, ApplyRefused, Audit, Save, CopyLists, Open,
                OpenFails, Write, vars, session, save, history
  <2>2. /\ pc' \in [Worker -> Steps] /\ cmd' \in [Worker -> CommandSet \cup {NoCommand}]
        /\ \A v \in Worker : /\ pc'[v] \in {"apply", "audit"} => cmd'[v] \in CommandSet
                             /\ pc'[v] = "apply" => cmd'[v] \in Commands
    <3>1. CASE ReadCommand(w)
      <4>1. PICK c \in Commands : cmd' = [cmd EXCEPT ![w] = c]
        BY <3>1 DEF ReadCommand
      <4>2. c \in CommandSet
        BY NamesAssumption DEF CommandSet
      <4>3. pc' = [pc EXCEPT ![w] = "apply"]
        BY <3>1 DEF ReadCommand, Goto
      <4> QED BY <4>1, <4>2, <4>3 DEF Types, Steps
    <3>2. CASE ApplyRefused(w) \/ Audit(w)
      <4>1. PICK step \in {"idle", "copy"} : pc' = [pc EXCEPT ![w] = step]
        BY <3>2 DEF ApplyRefused, Audit, Goto
      <4>2. cmd' = [cmd EXCEPT ![w] = NoCommand]
        BY <3>2 DEF ApplyRefused, Audit
      <4> QED BY <4>1, <4>2 DEF Types, Steps
    <3>3. CASE Join(w) \/ RecvOther(w) \/ Save(w)
      <4>1. cmd' = cmd
        BY <3>3 DEF Join, RecvOther, Save, CopyLists, Open, OpenFails, Write, vars, session
      <4>2. pc' = pc \/ \E step \in {"idle", "open", "write"} : pc' = [pc EXCEPT ![w] = step]
        BY <3>3 DEF Join, RecvOther, Save, CopyLists, Open, OpenFails, Write, NextFile, Goto, vars, session
      <4> QED BY <4>1, <4>2 DEF Types, Steps
    <3> QED BY <1>2, <3>1, <3>2, <3>3 DEF Reading
  <2>3. /\ copy' \in [Worker -> [Lists -> Seq(Name)]] /\ at' \in [Worker -> Lists]
    <3>1. Empty \in [Lists -> Seq(Name)] /\ list \in [Lists -> Seq(Name)] /\ {"moderators", "muted"} = Lists
      BY DEF Empty, Types, Lists
    <3>2. (copy' = copy \/ \E t \in {list, Empty} : copy' = [copy EXCEPT ![w] = t])
          /\ (at' = at \/ \E l \in {"moderators", "muted"} : at' = [at EXCEPT ![w] = l])
      BY <1>2 DEF Reading, Join, RecvOther, ReadCommand, ApplyRefused, Audit, Save, CopyLists, Open,
                  OpenFails, Write, NextFile, vars, save
    <3>3. copy' \in [Worker -> [Lists -> Seq(Name)]]
      <4> DEFINE F == [Lists -> Seq(Name)]
      <4>1. list \in F /\ Empty \in F /\ copy \in [Worker -> F]
        BY <3>1 DEF Types
      <4> HIDE DEF F
      <4>2. \A t \in F : [copy EXCEPT ![w] = t] \in [Worker -> F]
        BY <4>1
      <4>3. copy' \in [Worker -> F]
        BY <3>2, <4>1, <4>2
      <4> QED BY <4>3 DEF F
    <3>4. at' \in [Worker -> Lists]
      BY <3>1, <3>2 DEF Types
    <3> QED BY <3>3, <3>4
  <2>4. file' \in [Lists -> Seq(Name)]
    <3>1. file' = file \/ file' = [file EXCEPT ![at[w]] = <<>>]
          \/ file' = [file EXCEPT ![at[w]] = Overwrite(file[at[w]], copy[w][at[w]])]
      BY <1>2 DEF Reading, Join, RecvOther, ReadCommand, ApplyRefused, Audit, Save, CopyLists, Open,
                  OpenFails, Write, vars
    <3>2. /\ file[at[w]] \in Seq(Name) /\ copy[w][at[w]] \in Seq(Name) /\ <<>> \in Seq(Name)
      BY DEF Types
    <3>3. Overwrite(file[at[w]], copy[w][at[w]]) \in Seq(Name)
      BY <3>2, Overwritten
    <3> QED BY <3>1, <3>2, <3>3 DEF Types
  <2>5. account' \in [Lists -> [Keys -> Int]]
    <3>1. CASE Audit(w)
      <4> DEFINE c == cmd[w]
      <4>1. c.list \in Lists /\ c.name \in Name
        BY <3>1 DEF Audit, Types, CommandSet
      <4>2. Fold[c.name] \in Keys /\ account[c.list] \in [Keys -> Int]
        BY <4>1 DEF Keys, Types
      <4> DEFINE now(d) == [account[c.list] EXCEPT ![Fold[c.name]] = account[c.list][Fold[c.name]] + d]
      <4>3. account' = account \/ account' = [account EXCEPT ![c.list] = now(1)]
            \/ account' = [account EXCEPT ![c.list] = now(-1)]
        BY <3>1 DEF Audit
      <4>4. now(1) \in [Keys -> Int] /\ now(-1) \in [Keys -> Int]
        BY <4>2
      <4> HIDE DEF c, now
      <4> QED BY <4>1, <4>3, <4>4 DEF Types
    <3>2. CASE ~Audit(w)
      <4>1. account' = account
        BY <1>2, <3>2 DEF Reading, Join, RecvOther, ReadCommand, ApplyRefused, Save, CopyLists, Open,
                    OpenFails, Write, vars, history
      <4> QED BY <4>1 DEF Types
    <3> QED BY <3>1, <3>2
  <2>6. unlogged' \in BOOLEAN /\ overlapped' \in BOOLEAN /\ failed' \in BOOLEAN /\ everSaved' \in BOOLEAN
    BY <1>2 DEF Types, Reading, Join, RecvOther, ReadCommand, ApplyRefused, Audit, Save, CopyLists, Open,
                OpenFails, Write, vars, history
  <2> QED BY <2>1, <2>2, <2>3, <2>4, <2>5, <2>6 DEF Types
<1>3. ASSUME Restart PROVE Types'
  <2>1. \A l \in Lists : /\ Loaded(file[l], Capacity[l]) \in Seq(Name)
                         /\ Len(Loaded(file[l], Capacity[l])) <= Capacity[l]
                         /\ Distinct(Loaded(file[l], Capacity[l]))
    <3>1. \A l \in Lists : file[l] \in Seq(Name) /\ Capacity[l] \in Nat
      BY NamesAssumption DEF Types
    <3> QED BY <3>1, LoadedList
  <2>2. list' = [l \in Lists |-> Loaded(file[l], Capacity[l])]
    BY <1>3 DEF Restart
  <2>3. /\ list' \in [Lists -> Seq(Name)]
        /\ \A l \in Lists : Len(list'[l]) <= Capacity[l] /\ Distinct(list'[l])
    BY <2>1, <2>2
  <2>4. who' \in [Worker -> Name \ Comments]
    <3>1. {Fold[n] : n \in Name \ Comments} \subseteq Name \ Comments
      BY NamesAssumption
    <3>2. who' \in [Worker -> {Fold[n] : n \in Name \ Comments}]
      BY <1>3 DEF Restart
    <3> QED BY <3>1, <3>2
  <2>5. /\ pc' = [w \in Worker |-> "out"] /\ cmd' = [w \in Worker |-> NoCommand]
        /\ copy' = [w \in Worker |-> Empty] /\ at' = [w \in Worker |-> "moderators"]
        /\ late' = [w \in Worker |-> 0]
        /\ unlogged' = FALSE /\ overlapped' = FALSE /\ failed' = FALSE
        /\ UNCHANGED <<file, everSaved, changes>>
    BY <1>3 DEF Restart
  <2>6. account' \in [Lists -> [Keys -> Int]]
    <3>1. account' = [l \in Lists |-> [k \in Keys |-> IF Listed(list'[l], k) THEN 1 ELSE 0]]
      BY <1>3 DEF Restart
    <3> QED BY <3>1
  <2>7. crashes' \in 0..MaxCrashes
    BY <1>3, BoundsAssumption DEF Restart, Types
  <2>8. Empty \in [Lists -> Seq(Name)] /\ "moderators" \in Lists
    BY DEF Empty, Lists
  <2> QED BY <2>3, <2>4, <2>5, <2>6, <2>7, <2>8 DEF Types, Steps
<1>4. ASSUME UNCHANGED vars PROVE Types'
  BY <1>4 DEF vars, session, save, history, Types, Distinct
<1> QED BY <1>1, <1>2, <1>3, <1>4, StepKinds

-----------------------------------------------------------------------------
(* The bound of the changes, and commands that come late.                  *)

(* The changes made and under way are within the bound. *)
Applying == {w \in Worker : pc[w] = "apply"}
Bounded == IsFiniteSet(Applying) /\ changes + Cardinality(Applying) <= MaxChanges

LEMMA BoundedStep ==
    ASSUME Types, Bounded, [Next]_vars
    PROVE  Bounded'
<1>1. /\ IsFiniteSet(Applying) /\ Cardinality(Applying) \in Nat /\ changes \in Nat /\ MaxChanges \in Nat
      /\ changes + Cardinality(Applying) <= MaxChanges
  BY FS_CardinalityType, BoundsAssumption DEF Bounded, Types
<1>2. ASSUME NEW w \in Worker, NEW step \in Steps \ {"apply"}, Goto(w, step), pc[w] = "apply",
             changes' \in {changes, changes + 1}
      PROVE  Bounded'
  <2>1. Applying' = Applying \ {w} /\ w \in Applying
    BY <1>2 DEF Applying, Goto, Types
  <2>2. IsFiniteSet(Applying') /\ Cardinality(Applying') = Cardinality(Applying) - 1
    BY <1>1, <2>1, FS_RemoveElement
  <2> QED BY <1>1, <1>2, <2>2 DEF Bounded
<1>3. ASSUME NEW w \in Worker, NEW step \in Steps \ {"apply"}, Goto(w, step), pc[w] # "apply",
             changes' = changes
      PROVE  Bounded'
  <2>1. Applying' = Applying
    BY <1>3 DEF Applying, Goto, Types
  <2> QED BY <1>3, <2>1 DEF Bounded
<1>4. ASSUME NEW w \in Worker, ReadCommand(w) PROVE Bounded'
  <2>1. /\ Applying' = Applying \cup {w} /\ w \notin Applying
        /\ changes' = changes /\ changes + Cardinality(Applying) < MaxChanges
    BY <1>4 DEF ReadCommand, MayChange, Applying, Goto, Types, history
  <2>2. IsFiniteSet(Applying') /\ Cardinality(Applying') = Cardinality(Applying) + 1
    BY <1>1, <2>1, FS_AddElement
  <2> QED BY <1>1, <2>1, <2>2 DEF Bounded
<1>5. ASSUME NEW w \in Worker, Making(w) \/ Reading(w), ~ReadCommand(w), ~RecvOther(w) PROVE Bounded'
  <2>1. PICK step \in Steps \ {"apply"} : Goto(w, step)
    BY <1>5 DEF Making, Reading, JoinFirst, Apply, Join, ApplyRefused, Audit, Save, CopyLists, Open,
                OpenFails, Write, NextFile, Steps
  <2>2. changes' = changes \/ (changes' = changes + 1 /\ pc[w] = "apply")
    BY <1>5 DEF Making, Reading, JoinFirst, Apply, Join, ApplyRefused, Audit, Save, CopyLists, Open,
                OpenFails, Write, history
  <2> QED BY <1>2, <1>3, <2>1, <2>2
<1>6. ASSUME Restart PROVE Bounded'
  <2>1. Applying' = {} /\ changes' = changes
    BY <1>6 DEF Restart, Applying
  <2> QED BY <1>1, <2>1, FS_EmptySet DEF Bounded
<1>7. ASSUME UNCHANGED vars PROVE Bounded'
  BY <1>7 DEF vars, session, history, Bounded, Applying
<1>8. ASSUME NEW w \in Worker, RecvOther(w) PROVE Bounded'
  BY <1>7, <1>8 DEF RecvOther
<1> QED BY <1>4, <1>5, <1>6, <1>7, <1>8, StepKinds

(* A worker that was too late is no moderator, and has no command ready. *)
LateOnce ==
    \A w \in Worker : /\ late[w] \in {0, 1}
                      /\ late[w] = 1 => ~IsModerator(who[w]) /\ pc[w] # "apply"

LEMMA LateStep ==
    ASSUME Types, LateOnce, [Next]_vars
    PROVE  LateOnce'
<1>1. ASSUME NEW w \in Worker, Making(w) PROVE LateOnce'
  <2>1. PICK c \in CommandSet : Makes(w, c)
    BY <1>1, MakingMakes
  <2>2. \A v \in Worker :
          /\ who'[v] = who[v] /\ who[v] \in Name
          /\ IsModerator(who[v])' <=> IF c.list = "moderators" /\ Same(c.name, who[v]) THEN c.add
                                      ELSE IsModerator(who[v])
    <3>1. \A l \in Lists, n \in Name :
            Listed(list'[l], n) <=> IF l = c.list /\ Same(c.name, n) THEN c.add ELSE Listed(list[l], n)
      BY <2>1, ChangedLists DEF Makes
    <3>2. who' = who /\ "moderators" \in Lists
      BY <2>1 DEF Makes, Lists
    <3> QED BY <3>1, <3>2 DEF IsModerator, Types
  <2>3. \A v \in Worker :
          late'[v] = IF c.list = "moderators" /\ c.add /\ Same(who[v], c.name) THEN 0
                     ELSE IF v = w /\ ~(JoinFirst(w) \/ IsModerator(who[w])) THEN late[v] + 1
                     ELSE late[v]
    BY <2>1 DEF Makes, Changed
  <2>4. /\ pc'[w] = "audit" /\ \A v \in Worker : v # w => pc'[v] = pc[v]
        /\ JoinFirst(w) \/ pc[w] = "apply"
    BY <1>1, <2>1 DEF Makes, Goto, Types, Making, Apply
  <2>5. JoinFirst(w) => c.list = "moderators" /\ c.add /\ Same(who[w], c.name)
    BY <2>1 DEF Makes
  <2> SUFFICES ASSUME NEW v \in Worker
               PROVE  /\ late'[v] \in {0, 1}
                      /\ late'[v] = 1 => ~IsModerator(who[v])' /\ pc'[v] # "apply"
    BY DEF LateOnce
  <2>6. CASE c.list = "moderators" /\ c.add /\ Same(who[v], c.name)
    BY <2>3, <2>6
  <2>7. CASE ~(c.list = "moderators" /\ c.add /\ Same(who[v], c.name))
    <3>1. late[v] = 1 => ~IsModerator(who[v]) /\ pc[v] # "apply"
      BY DEF LateOnce
    <3>2. ~IsModerator(who[v]) => ~IsModerator(who[v])'
      BY <2>2, <2>7 DEF Same
    <3>3. CASE v # w
      BY <2>3, <2>4, <2>7, <3>1, <3>2, <3>3 DEF LateOnce
    <3>4. CASE v = w
      <4>1. late[w] = 0
        BY <2>4, <2>5, <2>7, <3>4 DEF LateOnce
      <4>2. late'[w] = IF IsModerator(who[w]) THEN 0 ELSE 1
        BY <2>3, <2>5, <2>7, <3>4, <4>1
      <4> QED BY <2>4, <3>2, <3>4, <4>2
    <3> QED BY <3>3, <3>4
  <2> QED BY <2>6, <2>7
<1>2. ASSUME NEW w \in Worker, Reading(w) PROVE LateOnce'
  <2>1. UNCHANGED <<list, who, late>>
    BY <1>2 DEF Reading, Join, RecvOther, ReadCommand, ApplyRefused, Audit, Save, CopyLists, Open,
                OpenFails, Write, vars, session, save, history
  <2>2. \A v \in Worker : IsModerator(who[v])' <=> IsModerator(who[v])
    BY <2>1 DEF IsModerator
  <2>3. \A v \in Worker : pc'[v] = "apply" => pc[v] = "apply" \/ IsModerator(who[v])
    <3>1. CASE ReadCommand(w)
      BY <3>1 DEF ReadCommand, Goto, Types
    <3>2. CASE ~ReadCommand(w)
      <4>1. pc' = pc \/ \E step \in Steps \ {"apply"} : Goto(w, step)
        BY <1>2, <3>2 DEF Reading, Join, RecvOther, ApplyRefused, Audit, Save, CopyLists, Open,
                OpenFails, Write, NextFile, Steps, vars, session
      <4> QED BY <4>1 DEF Goto, Types
    <3> QED BY <3>1, <3>2
  <2> QED BY <2>1, <2>2, <2>3 DEF LateOnce
<1>3. ASSUME Restart PROVE LateOnce'
  BY <1>3 DEF Restart, LateOnce
<1>4. ASSUME UNCHANGED vars PROVE LateOnce'
  BY <1>4 DEF vars, session, history, LateOnce, IsModerator
<1> QED BY <1>1, <1>2, <1>3, <1>4, StepKinds

-----------------------------------------------------------------------------
(* The audit log.                                                          *)

(* What the log says and what workers are about to write to it make up     *)
(* the lists.                                                              *)
Auditing == {w \in Worker : pc[w] = "audit"}
Concerns(w, l, k) == cmd[w].list = l /\ Fold[cmd[w].name] = k
Adding(l, k) == {w \in Auditing : Concerns(w, l, k) /\ cmd[w].add}
Removing(l, k) == {w \in Auditing : Concerns(w, l, k) /\ ~cmd[w].add}
Accounted ==
    /\ IsFiniteSet(Auditing)
    /\ ~unlogged => \A l \in Lists, k \in Keys :
         account[l][k] + Cardinality(Adding(l, k)) - Cardinality(Removing(l, k))
             = IF Listed(list[l], k) THEN 1 ELSE 0

(* The workers about to write are finitely many. *)
LEMMA OutstandingFinite ==
    ASSUME IsFiniteSet(Auditing), NEW l, NEW k
    PROVE  /\ IsFiniteSet(Adding(l, k)) /\ IsFiniteSet(Removing(l, k))
           /\ Cardinality(Adding(l, k)) \in Nat /\ Cardinality(Removing(l, k)) \in Nat
<1>1. Adding(l, k) \subseteq Auditing /\ Removing(l, k) \subseteq Auditing
  BY DEF Adding, Removing
<1>2. IsFiniteSet(Adding(l, k)) /\ IsFiniteSet(Removing(l, k))
  BY <1>1, FS_Subset
<1> QED BY <1>2, FS_CardinalityType

(* The spelling in lower case stands for the player. *)
LEMMA KeyStands ==
    ASSUME NEW k \in Keys, NEW n \in Name
    PROVE  k \in Name /\ Fold[k] = k /\ (Same(n, k) <=> Fold[n] = k)
BY NamesAssumption DEF Keys, Same

(* A change is outstanding as soon as it is made. *)
LEMMA MakingAccounted ==
    ASSUME Types, Accounted, NEW w \in Worker, Making(w)
    PROVE  Accounted'
<1>1. PICK c \in CommandSet : Makes(w, c)
  BY MakingMakes
<1>2. c.list \in Lists /\ c.name \in Name /\ c.add \in BOOLEAN
  BY DEF CommandSet
<1>3. /\ pc'[w] = "audit" /\ cmd'[w] = c /\ pc[w] # "audit"
      /\ \A v \in Worker : v # w => pc'[v] = pc[v] /\ cmd'[v] = cmd[v]
  <2>1. pc[w] # "audit"
    BY DEF Making, JoinFirst, Apply
  <2> QED BY <1>1, <2>1 DEF Makes, Goto, Types
<1>4. Auditing' = Auditing \cup {w} /\ w \notin Auditing /\ IsFiniteSet(Auditing)
  BY <1>3 DEF Auditing, Accounted
<1>5. account' = account /\ unlogged' = unlogged
  BY <1>1 DEF Makes, Changed
<1>6. ASSUME ~unlogged, NEW l \in Lists, NEW k \in Keys
      PROVE  account'[l][k] + Cardinality(Adding(l, k)') - Cardinality(Removing(l, k)')
                 = IF Listed(list'[l], k) THEN 1 ELSE 0
  <2> DEFINE A == Adding(l, k)
             R == Removing(l, k)
             a == account[l][k]
  <2>1. /\ IsFiniteSet(A) /\ IsFiniteSet(R) /\ w \notin A /\ w \notin R
        /\ Cardinality(A) \in Nat /\ Cardinality(R) \in Nat /\ a \in Int
    <3>1. w \notin A /\ w \notin R
      BY <1>4 DEF Adding, Removing
    <3>2. a \in Int
      BY DEF Types
    <3> QED BY <1>4, <3>1, <3>2, OutstandingFinite
  <2>2. Cardinality(A \cup {w}) = Cardinality(A) + 1 /\ Cardinality(R \cup {w}) = Cardinality(R) + 1
    BY <2>1, FS_AddElement
  <2>3. a + Cardinality(A) - Cardinality(R) = IF Listed(list[l], k) THEN 1 ELSE 0
    BY <1>6 DEF Accounted
  <2>4. /\ k \in Name /\ (Same(c.name, k) <=> Fold[c.name] = k)
        /\ Listed(list[c.list], c.name) <=> \E i \in DOMAIN list[c.list] : Fold[list[c.list][i]] = Fold[c.name]
        /\ Fold[k] = k
    BY <1>2, KeyStands DEF Listed, Same
  <2>5. Listed(list'[l], k) <=> IF l = c.list /\ Fold[c.name] = k THEN c.add ELSE Listed(list[l], k)
    <3>1. \A m \in Lists, n \in Name :
            Listed(list'[m], n) <=> IF m = c.list /\ Same(c.name, n) THEN c.add ELSE Listed(list[m], n)
      BY <1>1, ChangedLists DEF Makes
    <3> QED BY <2>4, <3>1
  <2>6. CASE l = c.list /\ Fold[c.name] = k
    <3>1. Listed(list[l], k) <=> ~c.add
      BY <1>1, <2>4, <2>6 DEF Makes, CanAdd, CanRemove, Listed, Same
    <3>2. CASE c.add
      <4>1. Adding(l, k)' = A \cup {w} /\ Removing(l, k)' = R
        BY <1>3, <1>4, <2>6, <3>2 DEF Adding, Removing, Concerns, Auditing
      <4> HIDE DEF A, R, a
      <4>2. a + Cardinality(A \cup {w}) - Cardinality(R) = 1
        BY <2>1, <2>2, <2>3, <3>1, <3>2
      <4> QED BY <1>5, <2>5, <2>6, <3>2, <4>1, <4>2 DEF a
    <3>3. CASE ~c.add
      <4>1. Adding(l, k)' = A /\ Removing(l, k)' = R \cup {w}
        BY <1>3, <1>4, <2>6, <3>3 DEF Adding, Removing, Concerns, Auditing
      <4> HIDE DEF A, R, a
      <4>2. a + Cardinality(A) - Cardinality(R \cup {w}) = 0
        BY <2>1, <2>2, <2>3, <3>1, <3>3
      <4> QED BY <1>5, <2>5, <2>6, <3>3, <4>1, <4>2 DEF a
    <3> QED BY <3>2, <3>3
  <2>7. CASE ~(l = c.list /\ Fold[c.name] = k)
    <3>1. Adding(l, k)' = A /\ Removing(l, k)' = R
      BY <1>3, <1>4, <2>7 DEF Adding, Removing, Concerns, Auditing
    <3> HIDE DEF A, R
    <3> QED BY <1>5, <2>3, <2>5, <2>7, <3>1
  <2> QED BY <2>6, <2>7
<1>7. IsFiniteSet(Auditing')
  BY <1>4, FS_AddElement
<1> QED BY <1>5, <1>6, <1>7 DEF Accounted

(* A record moves a change from the workers to the log, or is lost. *)
LEMMA AuditAccounted ==
    ASSUME Types, Accounted, NEW w \in Worker, Audit(w)
    PROVE  Accounted'
<1> DEFINE c == cmd[w]
<1>1. /\ c.list \in Lists /\ c.name \in Name /\ c.add \in BOOLEAN /\ Fold[c.name] \in Keys
      /\ pc[w] = "audit" /\ pc'[w] = "copy" /\ list' = list
      /\ \A v \in Worker : v # w => pc'[v] = pc[v] /\ cmd'[v] = cmd[v]
  BY DEF Audit, Types, CommandSet, Goto, Keys
<1>2. Auditing' = Auditing \ {w} /\ w \in Auditing /\ IsFiniteSet(Auditing)
  BY <1>1 DEF Auditing, Accounted
<1>3. IsFiniteSet(Auditing')
  BY <1>2, FS_RemoveElement
<1>4. CASE unlogged'
  BY <1>3, <1>4 DEF Accounted
<1>5. CASE ~unlogged'
  <2>1. ~unlogged /\ account' = [account EXCEPT ![c.list][Fold[c.name]] = @ + (IF c.add THEN 1 ELSE -1)]
    BY <1>5 DEF Audit
  <2> SUFFICES ASSUME NEW l \in Lists, NEW k \in Keys
               PROVE  account'[l][k] + Cardinality(Adding(l, k)') - Cardinality(Removing(l, k)')
                          = IF Listed(list'[l], k) THEN 1 ELSE 0
    BY <1>3 DEF Accounted
  <2> DEFINE A == Adding(l, k)
             R == Removing(l, k)
             a == account[l][k]
             hit == l = c.list /\ Fold[c.name] = k
  <2>2. a \in Int /\ account'[l][k] = IF hit THEN a + (IF c.add THEN 1 ELSE -1) ELSE a
    <3>1. account[l] \in [Keys -> Int] /\ account \in [Lists -> [Keys -> Int]]
      BY DEF Types
    <3> QED BY <1>1, <2>1, <3>1
  <2>3. a + Cardinality(A) - Cardinality(R) = IF Listed(list[l], k) THEN 1 ELSE 0
    BY <2>1 DEF Accounted
  <2>4. /\ Adding(l, k)' = A \ {w} /\ Removing(l, k)' = R \ {w}
        /\ w \in A <=> hit /\ c.add
        /\ w \in R <=> hit /\ ~c.add
    <3>1. \A v \in Auditing' : v # w /\ v \in Auditing /\ cmd'[v] = cmd[v]
      BY <1>1, <1>2 DEF Auditing
    <3>2. Adding(l, k)' = A \ {w} /\ Removing(l, k)' = R \ {w}
      BY <1>2, <3>1 DEF Adding, Removing, Concerns
    <3>3. (w \in A <=> hit /\ c.add) /\ (w \in R <=> hit /\ ~c.add)
      BY <1>2 DEF Adding, Removing, Concerns
    <3> QED BY <3>2, <3>3
  <2>5. /\ IsFiniteSet(A) /\ IsFiniteSet(R) /\ Cardinality(A) \in Nat /\ Cardinality(R) \in Nat
    BY <1>2, OutstandingFinite
  <2>6. /\ Cardinality(A \ {w}) = IF w \in A THEN Cardinality(A) - 1 ELSE Cardinality(A)
        /\ Cardinality(R \ {w}) = IF w \in R THEN Cardinality(R) - 1 ELSE Cardinality(R)
    BY <2>5, FS_RemoveElement
  <2> HIDE DEF A, R, a, hit, c
  <2>7. /\ Cardinality(A \ {w}) = IF hit /\ c.add THEN Cardinality(A) - 1 ELSE Cardinality(A)
        /\ Cardinality(R \ {w}) = IF hit /\ ~c.add THEN Cardinality(R) - 1 ELSE Cardinality(R)
    BY <2>4, <2>6
  <2>8. account'[l][k] + Cardinality(A \ {w}) - Cardinality(R \ {w}) = a + Cardinality(A) - Cardinality(R)
    <3>1. CASE hit /\ c.add
      BY <2>2, <2>5, <2>7, <3>1
    <3>2. CASE hit /\ ~c.add
      BY <2>2, <2>5, <2>7, <3>2
    <3>3. CASE ~hit
      BY <2>2, <2>5, <2>7, <3>3
    <3> QED BY <3>1, <3>2, <3>3
  <2> QED BY <1>1, <2>3, <2>4, <2>8
<1> QED BY <1>4, <1>5

(* Every step keeps the account. *)
LEMMA AccountedStep ==
    ASSUME Types, Accounted, [Next]_vars
    PROVE  Accounted'
<1>1. ASSUME UNCHANGED <<list, account, unlogged>>, Auditing' = Auditing,
             \A v \in Auditing : cmd'[v] = cmd[v]
      PROVE  Accounted'
  <2>1. \A l \in Lists, k \in Keys : Adding(l, k)' = Adding(l, k) /\ Removing(l, k)' = Removing(l, k)
    BY <1>1 DEF Adding, Removing, Concerns
  <2> QED BY <1>1, <2>1 DEF Accounted
<1>2. ASSUME NEW w \in Worker, Reading(w), ~Audit(w) PROVE Accounted'
  <2>1. /\ UNCHANGED <<list, account, unlogged>>
        /\ \A v \in Worker : cmd'[v] = cmd[v] \/ (v = w /\ pc[v] # "audit")
    BY <1>2 DEF Reading, Join, RecvOther, ReadCommand, ApplyRefused, Save, CopyLists, Open,
                OpenFails, Write, vars, session, history, Types
  <2>2. pc' = pc \/ (pc[w] # "audit" /\ \E step \in Steps \ {"audit"} : Goto(w, step))
    BY <1>2 DEF Reading, Join, RecvOther, ReadCommand, ApplyRefused, Save, CopyLists, Open,
                OpenFails, Write, NextFile, Steps, vars, session
  <2>3. Auditing' = Auditing
    BY <2>2 DEF Auditing, Goto, Types
  <2>4. \A v \in Auditing : cmd'[v] = cmd[v]
    BY <2>1 DEF Auditing
  <2> QED BY <1>1, <2>1, <2>3, <2>4
<1>3. ASSUME Restart PROVE Accounted'
  <2>1. /\ Auditing' = {}
        /\ account' = [l \in Lists |-> [k \in Keys |-> IF Listed(list'[l], k) THEN 1 ELSE 0]]
    BY <1>3 DEF Restart, Auditing
  <2>2. \A l \in Lists, k \in Keys : Adding(l, k)' = {} /\ Removing(l, k)' = {}
    BY <2>1 DEF Adding, Removing
  <2>3. IsFiniteSet({}) /\ Cardinality({}) = 0
    BY FS_EmptySet
  <2>4. \A l \in Lists, k \in Keys : account'[l][k] + 0 - 0 = IF Listed(list'[l], k) THEN 1 ELSE 0
    BY <2>1
  <2> QED BY <2>1, <2>2, <2>3, <2>4 DEF Accounted
<1>4. ASSUME UNCHANGED vars PROVE Accounted'
  <2>1. UNCHANGED <<list, account, unlogged, cmd, pc>>
    BY <1>4 DEF vars, session, history
  <2>2. Auditing' = Auditing
    BY <2>1 DEF Auditing
  <2> QED BY <1>1, <2>1, <2>2
<1> QED BY <1>2, <1>3, <1>4, MakingAccounted, AuditAccounted, StepKinds

-----------------------------------------------------------------------------
(* The files.                                                              *)

(* The moderators: somebody is one from the first session on, and none is  *)
(* a comment, in the list and in the copies that are being saved.          *)
Moderated ==
    /\ \A w \in Worker : pc[w] # "out" => list["moderators"] # <<>>
    /\ \A w \in Worker : Saving(w) => copy[w]["moderators"] # <<>>
    /\ OpsAreLoaded => /\ NoComment(list["moderators"])
                       /\ \A w \in Worker : Saving(w) => NoComment(copy[w]["moderators"])

(* A worker that has yet to write moderators.txt. *)
Pending(w) == pc[w] \in {"audit", "copy"} \/ (Saving(w) /\ at[w] = "moderators")

(* moderators.txt names somebody, or will. *)
Held ==
    OpsAreLoaded /\ list["moderators"] # <<>> /\ ~failed =>
        SomeName(file["moderators"]) \/ \E w \in Worker : Pending(w)

(* A save that runs alone: what it has written, and what the files hold    *)
(* when it is over and no other is due.                                    *)
NoneDue == \A w \in Worker : pc[w] \notin {"audit", "copy"}
NoneSaving == \A w \in Worker : ~Saving(w)
Progress(w) ==
    /\ pc[w] = "write" => file[at[w]] = <<>>
    /\ at[w] = "muted" => file["moderators"] = copy[w]["moderators"]
Agree == \A l \in Lists : Loaded(file[l], Capacity[l]) = Uncommented(list[l])
Saved ==
    ~overlapped =>
        /\ \A v, w \in Worker : Saving(v) /\ Saving(w) => v = w
        /\ NoneDue => \A w \in Worker : Saving(w) => copy[w] = list
        /\ ~failed => \A w \in Worker : Saving(w) => Progress(w)
        /\ NoneDue /\ NoneSaving /\ ~failed => Agree

(* The steps of a worker that change neither the lists nor a file, nor     *)
(* what is due.                                                            *)
Idling(w) == Join(w) \/ RecvOther(w) \/ ReadCommand(w) \/ ApplyRefused(w)
LEMMA IdlingKeeps ==
    ASSUME Types, NEW w \in Worker, Idling(w)
    PROVE  /\ UNCHANGED <<list, file, copy, at, overlapped, failed>>
           /\ \A v \in Worker : /\ pc'[v] # pc[v] => {pc[v], pc'[v]} \subseteq {"out", "idle", "apply"}
                                /\ pc'[v] # "out" => pc[v] # "out" \/ list["moderators"] # <<>>
<1>1. UNCHANGED <<list, file, copy, at, overlapped, failed>>
  BY DEF Idling, Join, RecvOther, ReadCommand, ApplyRefused, vars, session, save, history
<1>2. pc' = pc \/ (/\ pc[w] \in {"out", "idle", "apply"}
                   /\ pc[w] # "out" \/ list["moderators"] # <<>>
                   /\ \E step \in {"idle", "apply"} : Goto(w, step))
  BY DEF Idling, Join, RecvOther, ReadCommand, ApplyRefused, vars, session
<1> QED BY <1>1, <1>2 DEF Goto, Types

(* Reading a file back gives a list without comments. *)
LEMMA RestartLists ==
    ASSUME Types, Restart
    PROVE  \A l \in Lists :
             /\ list'[l] = Loaded(file[l], Capacity[l]) /\ list'[l] = Uncommented(list'[l])
             /\ NoComment(list'[l])
             /\ list'[l] # <<>> <=> SomeName(file[l])
<1> SUFFICES ASSUME NEW l \in Lists
             PROVE  /\ list'[l] = Loaded(file[l], Capacity[l]) /\ list'[l] = Uncommented(list'[l])
                    /\ NoComment(list'[l])
                    /\ list'[l] # <<>> <=> SomeName(file[l])
  OBVIOUS
<1>1. file[l] \in Seq(Name) /\ Capacity[l] \in Nat /\ Capacity[l] > 0
  BY NamesAssumption DEF Types
<1>2. list'[l] = Loaded(file[l], Capacity[l])
  BY DEF Restart
<1>3. /\ list'[l] \in Seq(Name) /\ NoComment(list'[l])
      /\ list'[l] # <<>> <=> SomeName(file[l])
  BY <1>1, <1>2, LoadedList
<1>4. Uncommented(list'[l]) = list'[l]
  BY <1>3, UncommentedSame
<1> QED BY <1>2, <1>3, <1>4

(* Moderators stay moderated. *)
LEMMA ModeratedStep ==
    ASSUME Types, Moderated, [Next]_vars
    PROVE  Moderated'
<1>1. ASSUME NEW w \in Worker, Making(w) PROVE Moderated'
  <2>1. PICK c \in CommandSet : Makes(w, c)
    BY <1>1, MakingMakes
  <2>2. /\ NoComment(list["moderators"]) /\ (c.list = "moderators" => c.name \notin Comments)
             => NoComment(list'["moderators"])
        /\ list["moderators"] # <<>> \/ (c.list = "moderators" /\ c.add) => list'["moderators"] # <<>>
    BY <2>1, ChangedLists DEF Makes
  <2>3. list'["moderators"] # <<>>
    BY <1>1, <2>1, <2>2 DEF Making, Makes, Apply, Moderated
  <2>4. OpsAreLoaded => NoComment(list'["moderators"])
    BY <2>1, <2>2 DEF Makes, OpsAreLoaded, Moderated
  <2>5. copy' = copy /\ \A v \in Worker : Saving(v)' => Saving(v)
    BY <2>1 DEF Makes, save, Saving, Goto, Types
  <2> QED BY <2>3, <2>4, <2>5 DEF Moderated
<1>2. ASSUME NEW w \in Worker, Idling(w) PROVE Moderated'
  BY <1>2, IdlingKeeps DEF Moderated, Saving
<1>3. ASSUME NEW w \in Worker, Audit(w) \/ Save(w) PROVE Moderated'
  <2>1. list' = list /\ list["moderators"] # <<>>
    BY <1>3 DEF Audit, Save, CopyLists, Open, OpenFails, Write, Moderated
  <2>2. \A v \in Worker : Saving(v)' => copy'[v] = list \/ (copy'[v] = copy[v] /\ Saving(v))
    <3>1. CASE Audit(w) \/ CopyLists(w) \/ Open(w)
      BY <3>1 DEF Audit, CopyLists, Open, Goto, Saving, save, Types
    <3>2. CASE OpenFails(w) \/ Write(w)
      <4>1. Saving(w)
        BY <3>2 DEF OpenFails, Write, Saving
      <4>2. NextFile(w)
        BY <3>2 DEF OpenFails, Write
      <4> QED BY <4>1, <4>2 DEF NextFile, Goto, Saving, Types
    <3> QED BY <1>3, <3>1, <3>2 DEF Save
  <2> QED BY <2>1, <2>2 DEF Moderated
<1>4. ASSUME Restart PROVE Moderated'
  <2>1. NoComment(list'["moderators"])
    BY <1>4, RestartLists DEF Lists
  <2> QED BY <1>4, <2>1 DEF Restart, Moderated, Saving
<1>5. ASSUME UNCHANGED vars PROVE Moderated'
  BY <1>5 DEF vars, session, save, Moderated, Saving
<1> QED BY <1>1, <1>2, <1>3, <1>4, <1>5, StepKinds DEF Reading, Idling

(* The file of the moderators is never without a name for good. *)
LEMMA HeldStep ==
    ASSUME Types, Moderated, Held, [Next]_vars
    PROVE  Held'
<1>1. ASSUME NEW w \in Worker, Goto(w, "audit") \/ Goto(w, "copy") PROVE Held'
  <2>1. Pending(w)'
    BY <1>1 DEF Pending, Goto, Types
  <2> QED BY <2>1 DEF Held
<1>2. ASSUME UNCHANGED <<list, failed>>, file'["moderators"] = file["moderators"],
             \A v \in Worker : Pending(v) => Pending(v)'
      PROVE  Held'
  BY <1>2 DEF Held
<1>3. ASSUME NEW w \in Worker, Making(w) PROVE Held'
  BY <1>1, <1>3 DEF Making, JoinFirst, Apply
<1>4. ASSUME NEW w \in Worker, Idling(w) PROVE Held'
  <2>1. \A v \in Worker : Pending(v) => Pending(v)'
    BY <1>4, IdlingKeeps DEF Pending, Saving
  <2> QED BY <1>2, <1>4, <2>1, IdlingKeeps
<1>5. ASSUME NEW w \in Worker, Audit(w) PROVE Held'
  BY <1>1, <1>5 DEF Audit
<1>6. ASSUME NEW w \in Worker, CopyLists(w) PROVE Held'
  <2>1. Pending(w)'
    BY <1>6 DEF CopyLists, Pending, Saving, Goto, Types
  <2> QED BY <2>1 DEF Held
<1>7. ASSUME NEW w \in Worker, OpenFails(w) PROVE Held'
  BY <1>7 DEF OpenFails, Held
<1>8. ASSUME NEW w \in Worker, Open(w) PROVE Held'
  <2>1. \A v \in Worker : Pending(v) => Pending(v)'
    BY <1>8 DEF Open, Pending, Saving, Goto, Types, save
  <2>2. CASE at[w] = "moderators"
    <3>1. Pending(w)
      BY <1>8, <2>2 DEF Open, Pending, Saving
    <3> QED BY <2>1, <3>1 DEF Held
  <2>3. CASE at[w] # "moderators"
    <3>1. UNCHANGED <<list, failed>> /\ file'["moderators"] = file["moderators"]
      BY <1>8, <2>3 DEF Open, history, Types
    <3> QED BY <1>2, <2>1, <3>1
  <2> QED BY <2>2, <2>3
<1>9. ASSUME NEW w \in Worker, Write(w) PROVE Held'
  <2>1. /\ at[w] \in Lists /\ "moderators" \in Lists /\ file \in [Lists -> Seq(Name)]
        /\ copy[w] \in [Lists -> Seq(Name)]
        /\ file' = [file EXCEPT ![at[w]] = Overwrite(file[at[w]], copy[w][at[w]])]
        /\ UNCHANGED <<list, failed>> /\ Saving(w)
    BY <1>9 DEF Write, Types, Lists, Saving
  <2>2. CASE at[w] = "moderators"
    <3>1. file'["moderators"] = Overwrite(file["moderators"], copy[w]["moderators"])
      BY <2>1, <2>2
    <3>2. copy[w]["moderators"] # <<>> /\ (OpsAreLoaded => NoComment(copy[w]["moderators"]))
      BY <2>1 DEF Moderated
    <3>3. OpsAreLoaded => SomeName(file'["moderators"])
      BY <2>1, <3>1, <3>2, Overwritten
    <3> QED BY <3>3 DEF Held
  <2>3. CASE at[w] # "moderators"
    <3>1. file'["moderators"] = file["moderators"]
      BY <2>1, <2>3
    <3>2. \A v \in Worker : Pending(v) => Pending(v)'
      BY <1>9, <2>3 DEF Write, NextFile, Pending, Saving, Goto, Types
    <3> QED BY <1>2, <2>1, <3>1, <3>2
  <2> QED BY <2>2, <2>3
<1>10. ASSUME Restart PROVE Held'
  <2>1. list'["moderators"] # <<>> => SomeName(file["moderators"])
    BY <1>10, RestartLists DEF Lists
  <2>2. file' = file
    BY <1>10 DEF Restart
  <2> QED BY <2>1, <2>2 DEF Held
<1>11. ASSUME UNCHANGED vars PROVE Held'
  BY <1>11 DEF vars, session, save, history, Held, Pending, Saving
<1> QED BY <1>3, <1>4, <1>5, <1>6, <1>7, <1>8, <1>9, <1>10, <1>11, StepKinds DEF Reading, Idling, Save

(* A save that runs alone leaves the lists in the files. *)
LEMMA SavedStep ==
    ASSUME Types, Saved, [Next]_vars
    PROVE  Saved'
<1>1. ASSUME NEW w \in Worker, Making(w) \/ Audit(w) PROVE Saved'
  <2>1. /\ UNCHANGED <<file, copy, at, overlapped, failed>>
        /\ pc[w] \in {"out", "apply", "audit"}
        /\ \E step \in {"audit", "copy"} : Goto(w, step)
    BY <1>1 DEF Making, JoinFirst, Apply, Changed, Audit, save
  <2>2. /\ pc'[w] \in {"audit", "copy"} /\ pc[w] \in {"out", "apply", "audit"}
        /\ \A v \in Worker : v # w => pc'[v] = pc[v]
    BY <2>1 DEF Goto, Types
  <2>3. ~NoneDue'
    BY <2>2 DEF NoneDue
  <2>4. \A v \in Worker : (Saving(v)' <=> Saving(v)) /\ (pc'[v] = "write" <=> pc[v] = "write")
    BY <2>2 DEF Saving
  <2>5. \A v \in Worker : Progress(v) => Progress(v)'
    BY <2>1, <2>4 DEF Progress
  <2> QED BY <2>1, <2>3, <2>4, <2>5 DEF Saved
<1>2. ASSUME UNCHANGED <<list, file, copy, at, overlapped, failed>>,
             \A v \in Worker : pc'[v] # pc[v] => {pc[v], pc'[v]} \subseteq {"out", "idle", "apply"}
      PROVE  Saved'
  <2>1. /\ \A v \in Worker : Saving(v)' <=> Saving(v)
        /\ \A v \in Worker : Progress(v)' <=> Progress(v)
        /\ NoneDue' <=> NoneDue
    <3>1. \A v \in Worker : /\ pc'[v] = "write" <=> pc[v] = "write"
                            /\ pc'[v] = "open" <=> pc[v] = "open"
                            /\ pc'[v] \in {"audit", "copy"} <=> pc[v] \in {"audit", "copy"}
      BY <1>2
    <3> QED BY <1>2, <3>1 DEF Saving, Progress, NoneDue
  <2>2. NoneSaving' <=> NoneSaving
    BY <2>1 DEF NoneSaving
  <2>3. Agree' <=> Agree
    BY <1>2 DEF Agree
  <2> QED BY <1>2, <2>1, <2>2, <2>3 DEF Saved
<1>3. ASSUME NEW w \in Worker, Idling(w) PROVE Saved'
  BY <1>2, <1>3, IdlingKeeps
<1>4. ASSUME NEW w \in Worker, CopyLists(w) PROVE Saved'
  <2>1. /\ list' = list /\ copy'[w] = list /\ at'[w] = "moderators" /\ pc'[w] = "open"
        /\ \A v \in Worker : v # w => pc'[v] = pc[v]
        /\ overlapped' <=> \E v \in Worker : Saving(v)
    BY <1>4 DEF CopyLists, Goto, Types
  <2>2. ~overlapped' => \A v \in Worker : Saving(v)' => v = w
    BY <2>1 DEF Saving
  <2>3. Saving(w)' /\ Progress(w)'
    BY <2>1 DEF Saving, Progress
  <2> QED BY <2>1, <2>2, <2>3 DEF Saved, NoneSaving
<1>5. ASSUME NEW w \in Worker, Open(w), ~overlapped PROVE Saved'
  <2>1. /\ file' = [file EXCEPT ![at[w]] = <<>>]
        /\ UNCHANGED <<list, copy, at, overlapped, failed>>
        /\ pc[w] = "open" /\ pc'[w] = "write" /\ \A v \in Worker : v # w => pc'[v] = pc[v]
        /\ at[w] \in Lists /\ "moderators" \in Lists
    BY <1>5 DEF Open, Goto, save, history, Types, Lists
  <2>2. \A v \in Worker : Saving(v)' <=> Saving(v)
    BY <2>1 DEF Saving
  <2>3. NoneDue' <=> NoneDue
    BY <2>1 DEF NoneDue
  <2>4. Saving(w) /\ ~NoneSaving'
    BY <2>1, <2>2 DEF Saving, NoneSaving
  <2>5. \A v \in Worker : Saving(v) => v = w
    BY <1>5, <2>4 DEF Saved
  <2>6. Progress(w) => Progress(w)'
    <3>1. file'[at[w]] = <<>> /\ (at[w] # "moderators" => file'["moderators"] = file["moderators"])
      BY <2>1 DEF Types
    <3> QED BY <2>1, <3>1 DEF Progress
  <2> QED BY <2>1, <2>2, <2>3, <2>4, <2>5, <2>6 DEF Saved
(* NextFile goes on to muted.txt, or ends the save. *)
<1>6. ASSUME NEW w \in Worker, NextFile(w), Saving(w), list' = list, overlapped' = overlapped, ~overlapped
      PROVE  /\ \A v \in Worker : Saving(v)' => v = w /\ at[w] = "moderators"
             /\ NoneDue' <=> NoneDue
             /\ at[w] = "moderators" => /\ Saving(w)' /\ pc'[w] = "open" /\ at'[w] = "muted"
                                        /\ copy' = copy
  <2>1. \A v \in Worker : Saving(v) => v = w
    BY <1>6 DEF Saved
  <2>2. CASE at[w] = "moderators"
    <3>1. /\ pc'[w] = "open" /\ at'[w] = "muted" /\ copy' = copy
          /\ \A v \in Worker : v # w => pc'[v] = pc[v]
      BY <1>6, <2>2 DEF NextFile, Goto, Types
    <3> QED BY <1>6, <2>1, <2>2, <3>1 DEF Saving, NoneDue
  <2>3. CASE at[w] # "moderators"
    <3>1. pc'[w] = "idle" /\ \A v \in Worker : v # w => pc'[v] = pc[v]
      BY <1>6, <2>3 DEF NextFile, Goto, Types
    <3> QED BY <1>6, <2>1, <2>3, <3>1 DEF Saving, NoneDue
  <2> QED BY <2>2, <2>3
<1>7. ASSUME NEW w \in Worker, OpenFails(w), ~overlapped PROVE Saved'
  <2>1. Saving(w) /\ NextFile(w) /\ list' = list /\ overlapped' = overlapped /\ failed'
    BY <1>7 DEF OpenFails, Saving
  <2>2. NoneDue => copy[w] = list
    BY <1>7, <2>1 DEF Saved
  <2> QED BY <1>6, <1>7, <2>1, <2>2 DEF Saved
<1>8. ASSUME NEW w \in Worker, Write(w), ~overlapped PROVE Saved'
  <2>1. /\ Saving(w) /\ NextFile(w) /\ UNCHANGED <<list, overlapped, failed>> /\ pc[w] = "write"
        /\ file' = [file EXCEPT ![at[w]] = Overwrite(file[at[w]], copy[w][at[w]])]
        /\ at[w] \in Lists /\ Lists = {"moderators", "muted"}
        /\ file \in [Lists -> Seq(Name)] /\ copy[w] \in [Lists -> Seq(Name)]
    BY <1>8 DEF Write, Saving, Types, Lists
  <2>2. /\ NoneDue => copy[w] = list
        /\ ~failed => file[at[w]] = <<>> /\ (at[w] = "muted" => file["moderators"] = copy[w]["moderators"])
    BY <1>8, <2>1 DEF Saved, Progress
  <2>3. ~failed => file'[at[w]] = copy[w][at[w]]
    <3>1. file[at[w]] = <<>> => Overwrite(file[at[w]], copy[w][at[w]]) = copy[w][at[w]]
      BY <2>1, Overwritten
    <3>2. file'[at[w]] = Overwrite(file[at[w]], copy[w][at[w]])
      BY <2>1
    <3> QED BY <2>2, <3>1, <3>2
  <2>4. CASE at[w] = "moderators"
    <3>1. /\ \A v \in Worker : Saving(v)' => v = w
          /\ NoneDue' <=> NoneDue
          /\ Saving(w)' /\ pc'[w] = "open" /\ at'[w] = "muted" /\ copy' = copy
      BY <1>6, <1>8, <2>1, <2>4
    <3>2. ~failed => Progress(w)'
      BY <2>3, <2>4, <3>1 DEF Progress
    <3>3. ~NoneSaving'
      BY <3>1 DEF NoneSaving
    <3> QED BY <2>1, <2>2, <3>1, <3>2, <3>3 DEF Saved
  <2>5. CASE at[w] = "muted"
    <3>1. (\A v \in Worker : ~Saving(v)') /\ (NoneDue' <=> NoneDue)
      BY <1>6, <1>8, <2>1, <2>5
    <3>2. ~failed => /\ file'["muted"] = copy[w]["muted"]
                     /\ file'["moderators"] = copy[w]["moderators"]
      BY <2>1, <2>2, <2>3, <2>5
    <3>3. ~failed /\ NoneDue => Agree'
      <4> SUFFICES ASSUME ~failed, NoneDue, NEW l \in Lists
                   PROVE  Loaded(file'[l], Capacity[l]) = Uncommented(list'[l])
        BY DEF Agree
      <4>1. file'[l] = list[l] /\ list'[l] = list[l]
        BY <2>1, <2>2, <3>2
      <4>2. list[l] \in Seq(Name) /\ Capacity[l] \in Nat /\ Distinct(list[l]) /\ Len(list[l]) <= Capacity[l]
        BY NamesAssumption DEF Types
      <4>3. Loaded(list[l], Capacity[l]) = Uncommented(list[l])
        BY <4>2, LoadedAgain
      <4> QED BY <4>1, <4>3
    <3> QED BY <2>1, <3>1, <3>3 DEF Saved
  <2> QED BY <2>1, <2>4, <2>5
<1>9. ASSUME Restart PROVE Saved'
  <2>1. Agree'
    <3>1. file' = file
      BY <1>9 DEF Restart
    <3> QED BY <1>9, <3>1, RestartLists DEF Agree
  <2>2. \A v \in Worker : ~Saving(v)'
    BY <1>9 DEF Restart, Saving
  <2> QED BY <2>1, <2>2 DEF Saved
<1>10. ASSUME UNCHANGED vars PROVE Saved'
  BY <1>2, <1>10 DEF vars, session, save, history
<1>11. ASSUME NEW w \in Worker, Open(w) \/ OpenFails(w) \/ Write(w), overlapped PROVE Saved'
  <2>1. overlapped' = overlapped
    BY <1>11 DEF Open, OpenFails, Write, history
  <2> QED BY <1>11, <2>1 DEF Saved
<1> QED BY <1>1, <1>3, <1>4, <1>5, <1>7, <1>8, <1>9, <1>10, <1>11, StepKinds DEF Reading, Idling, Save

-----------------------------------------------------------------------------
(* The theorems.                                                           *)

IInv == Types /\ Bounded /\ LateOnce /\ Accounted /\ Moderated /\ Held /\ Saved

(* The server starts within the invariant. *)
LEMMA Initially ==
    Init => IInv
<1> SUFFICES ASSUME Init PROVE IInv
  OBVIOUS
<1>1. /\ list = Empty /\ file = Empty /\ pc = [w \in Worker |-> "out"]
      /\ who \in [Worker -> {Fold[n] : n \in Name \ Comments}]
      /\ cmd = [w \in Worker |-> NoCommand]
      /\ copy = [w \in Worker |-> Empty] /\ at = [w \in Worker |-> "moderators"]
      /\ account = [l \in Lists |-> [k \in Keys |-> 0]]
      /\ unlogged = FALSE /\ overlapped = FALSE /\ failed = FALSE
      /\ everSaved = FALSE /\ late = [w \in Worker |-> 0]
      /\ changes = 0 /\ crashes = 0
  BY DEF Init
<1>2. /\ \A l \in Lists : list[l] = <<>> /\ file[l] = <<>> /\ Capacity[l] \in Nat
      /\ <<>> \in Seq(Name) /\ Len(<<>>) = 0 /\ Distinct(<<>>) /\ NoComment(<<>>)
      /\ Lists = {"moderators", "muted"} /\ Empty \in [Lists -> Seq(Name)]
      /\ \A n : ~Listed(<<>>, n)
  BY <1>1, NamesAssumption DEF Empty, Distinct, NoComment, Lists, Listed
<1>3. Types
  <2>1. who \in [Worker -> Name \ Comments]
    <3>1. {Fold[n] : n \in Name \ Comments} \subseteq Name \ Comments
      BY NamesAssumption
    <3> QED BY <1>1, <3>1
  <2>2. \A l \in Lists : Len(list[l]) <= Capacity[l] /\ Distinct(list[l])
    BY <1>2
  <2>3. account \in [Lists -> [Keys -> Int]] /\ crashes \in 0..MaxCrashes
    BY <1>1, BoundsAssumption
  <2> QED BY <1>1, <1>2, <2>1, <2>2, <2>3 DEF Types, Steps
<1>4. Bounded
  <2>1. Applying = {}
    BY <1>1 DEF Applying
  <2> QED BY <1>1, <2>1, FS_EmptySet, BoundsAssumption DEF Bounded
<1>5. LateOnce
  BY <1>1 DEF LateOnce
<1>6. Accounted
  <2>1. Auditing = {} /\ \A l \in Lists, k \in Keys : Adding(l, k) = {} /\ Removing(l, k) = {}
    BY <1>1 DEF Auditing, Adding, Removing
  <2>2. IsFiniteSet({}) /\ Cardinality({}) = 0
    BY FS_EmptySet
  <2>3. \A l \in Lists, k \in Keys : account[l][k] = 0 /\ ~Listed(list[l], k)
    BY <1>1, <1>2
  <2> QED BY <2>1, <2>2, <2>3 DEF Accounted
<1>7. Moderated /\ Held
  BY <1>1, <1>2 DEF Moderated, Held, Saving
<1>8. Saved
  <2>1. \A w \in Worker : ~Saving(w)
    BY <1>1 DEF Saving
  <2>2. ASSUME NEW l \in Lists PROVE Loaded(file[l], Capacity[l]) = Uncommented(list[l])
    <3>1. /\ list[l] \in Seq(Name) /\ Distinct(list[l]) /\ Len(list[l]) <= Capacity[l]
          /\ Capacity[l] \in Nat /\ file[l] = list[l]
      BY <1>2, <1>3 DEF Types
    <3> QED BY <3>1, LoadedAgain
  <2>3. Agree
    BY <2>2 DEF Agree
  <2> QED BY <2>1, <2>3 DEF Saved
<1> QED BY <1>3, <1>4, <1>5, <1>6, <1>7, <1>8 DEF IInv

(* The invariant holds throughout. *)
THEOREM Invariance ==
    Spec => []IInv
<1>1. IInv /\ [Next]_vars => IInv'
  BY TypesStep, BoundedStep, LateStep, AccountedStep, ModeratedStep, HeldStep, SavedStep DEF IInv
<1> QED BY Initially, <1>1, PTL DEF Spec

(* Both lists stay within their arrays and list no player twice, in        *)
(* whatever order commands, saves and restarts follow each other.          *)
THEOREM ModerationTypes ==
    Spec => []TypeOK
<1>1. IInv => TypeOK
  <2> SUFFICES ASSUME Types, Bounded PROVE TypeOK
    BY DEF IInv
  <2>1. changes \in 0..MaxChanges
    <3>1. Cardinality(Applying) \in Nat /\ changes \in Nat /\ MaxChanges \in Nat
      BY FS_CardinalityType, BoundsAssumption DEF Bounded, Types
    <3> QED BY <3>1 DEF Bounded
  <2>2. who \in [Worker -> Name]
    BY DEF Types
  <2>3. {list, file} \subseteq [Lists -> Seq(Name)] /\ {unlogged, overlapped, failed, everSaved} \subseteq BOOLEAN
    BY DEF Types
  <2>4. /\ \A l \in Lists : Len(list[l]) <= Capacity[l] /\ Distinct(list[l])
        /\ pc \in [Worker -> Steps] /\ cmd \in [Worker -> CommandSet \cup {NoCommand}]
        /\ copy \in [Worker -> [Lists -> Seq(Name)]] /\ at \in [Worker -> Lists]
        /\ account \in [Lists -> [Keys -> Int]] /\ late \in [Worker -> Nat] /\ crashes \in 0..MaxCrashes
    BY DEF Types
  <2> QED BY <2>1, <2>2, <2>3, <2>4, Zenon DEF TypeOK, Steps, CommandSet
<1> QED BY <1>1, Invariance, PTL

(* A deposed moderator makes one more change at most: the command that was *)
(* read while they still were one.                                         *)
THEOREM LateCorrect ==
    Spec => []LateAtMostOnce
<1>1. IInv => LateAtMostOnce
  BY DEF IInv, LateOnce, LateAtMostOnce
<1> QED BY <1>1, Invariance, PTL

(* The records of the audit log, written outside the lock and in any       *)
(* order, account for the lists.                                           *)
THEOREM AuditCorrect ==
    Spec => []AuditAccounts
<1>1. IInv => AuditAccounts
  <2> SUFFICES ASSUME Types, Accounted, ~unlogged, \A w \in Worker : pc[w] # "audit",
                      NEW l \in Lists, NEW k \in Keys
               PROVE  account[l][k] = IF Listed(list[l], k) THEN 1 ELSE 0
    BY DEF IInv, AuditAccounts
  <2>1. Adding(l, k) = {} /\ Removing(l, k) = {}
    BY DEF Adding, Removing, Auditing
  <2>2. Cardinality({}) = 0 /\ account[l][k] \in Int
    BY FS_EmptySet DEF Types
  <2>3. account[l][k] + Cardinality(Adding(l, k)) - Cardinality(Removing(l, k))
            = IF Listed(list[l], k) THEN 1 ELSE 0
    BY DEF Accounted
  <2> QED BY <2>1, <2>2, <2>3
<1> QED BY <1>1, Invariance, PTL

(* When the last save ran alone and every file opened, the files read back *)
(* give the lists.                                                         *)
THEOREM SavedCorrect ==
    Spec => []SavedWhenQuiet
<1>1. IInv => SavedWhenQuiet
  <2>1. Quiet => NoneDue /\ NoneSaving
    BY DEF Quiet, NoneDue, NoneSaving, Saving
  <2> QED BY <2>1 DEF IInv, Saved, SavedWhenQuiet, Agree
<1> QED BY <1>1, Invariance, PTL

(* A step takes the last moderator neither from the list nor, when the     *)
(* process only dies between saves, from what a restart reads.             *)
LEMMA RemainsStep ==
    ASSUME ~CrashAnytime, Types, Held, [Next]_vars,
           list["moderators"] # <<>>, ~failed, OpsAreLoaded
    PROVE  list'["moderators"] # <<>>
<1>1. ASSUME NEW w \in Worker, Making(w) PROVE list'["moderators"] # <<>>
  <2>1. PICK c \in CommandSet : Makes(w, c)
    BY <1>1, MakingMakes
  <2> QED BY <2>1, ChangedLists DEF Makes
<1>2. ASSUME NEW w \in Worker, Reading(w) PROVE list'["moderators"] # <<>>
  BY <1>2 DEF Reading, Join, RecvOther, ReadCommand, ApplyRefused, Audit, Save, CopyLists, Open,
              OpenFails, Write, vars
<1>3. ASSUME Restart PROVE list'["moderators"] # <<>>
  <2>1. Quiet
    BY <1>3 DEF Restart
  <2>2. \A w \in Worker : ~Pending(w)
    BY <2>1 DEF Quiet, Pending, Saving
  <2>3. SomeName(file["moderators"])
    BY <2>2 DEF Held
  <2> QED BY <1>3, <2>3, RestartLists DEF Lists
<1>4. ASSUME UNCHANGED vars PROVE list'["moderators"] # <<>>
  BY <1>4 DEF vars
<1> QED BY <1>1, <1>2, <1>3, <1>4, StepKinds

(* A server that has a moderator keeps one, however commands and saves     *)
(* overlap and also when it is restarted between saves.  Nothing like it   *)
(* holds of a process that may die during a save: the first moderator may  *)
(* be lost, see FirstPlayerOnly.                                           *)
THEOREM ModeratorStays ==
    ASSUME ~CrashAnytime
    PROVE  Spec => ModeratorRemains
<1>1. IInv /\ [Next]_vars
          => [list["moderators"] # <<>> /\ ~failed /\ OpsAreLoaded => list'["moderators"] # <<>>]_vars
  BY RemainsStep DEF IInv
<1> QED BY <1>1, Invariance, PTL DEF Spec, ModeratorRemains
=============================================================================
