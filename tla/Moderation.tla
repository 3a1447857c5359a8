----------------------------- MODULE Moderation -----------------------------
(***************************************************************************)
(* Moderators and muted players (main.c): the two lists every worker       *)
(* shares under g_play_chat_lock, the commands that change them, the       *)
(* promotion of the first player, the audit log, and the files             *)
(* moderators.txt and muted.txt.                                           *)
(*                                                                         *)
(* A change of a list is one step under the lock.  What follows it is not: *)
(* the audit record, then save_moderation_state, which copies both lists   *)
(* under the lock and writes the files after unlocking, each one by        *)
(* fopen "wb" (which truncates) and one write at fclose.                   *)
(*                                                                         *)
(* A line of a file is one name; names have one length, so that a shorter  *)
(* list written over a longer one leaves whole lines behind.  A process    *)
(* that dies and starts again is one step: nothing happens in between.     *)
(***************************************************************************)
EXTENDS Integers, Sequences, FiniteSets, SequencesExt

CONSTANTS
    Worker,        \* sessions in play
    Name,          \* spellings of player names; a bound: no player plays as one of Comments
    Fold,          \* Name -> Name, the spelling in lower case
    Comments,      \* names that begin with '#': load takes their line for a comment
    Commands,      \* bound: the /op, /deop, /mute and /unmute commands that are sent
    NoCommand,     \* a worker that executes no command
    Capacity,      \* MAX_MODERATORS (64) and MAX_MUTED_PLAYERS (128)
    DiskErrors,    \* fopen may fail
    CrashAnytime,  \* the process may die during a save, else only between saves
    MaxChanges,    \* bound: changes of the lists
    MaxCrashes     \* bound: restarts

Lists == {"moderators", "muted"}
Empty == [l \in Lists |-> <<>>]

ASSUME NamesAssumption ==
    /\ Fold \in [Name -> Name] /\ \A n \in Name : Fold[Fold[n]] = Fold[n]
    /\ Comments \subseteq Name /\ \A n \in Name : Fold[n] \in Comments <=> n \in Comments
    /\ Commands \subseteq [list : Lists, add : BOOLEAN, name : Name]
    /\ NoCommand \notin Commands
    /\ Capacity \in [Lists -> Nat \ {0}]
ASSUME BoundsAssumption ==
    {MaxChanges, MaxCrashes} \subseteq Nat /\ {DiskErrors, CrashAnytime} \subseteq BOOLEAN

VARIABLES
    list,       \* the two lists in memory, g_moderator_usernames and g_muted_usernames
    file,       \* moderators.txt and muted.txt
    pc, who,    \* worker: its step, the name of its player
    cmd,        \* worker: the change it makes
    copy, at,   \* worker: the copies it saves, the file it is at
    account,    \* history: the lists at startup plus what the audit log says since
    unlogged,   \* history: an audit record was lost since startup
    overlapped, \* history: the last save ran beside another one
    failed,     \* history: since the last save on its own, a file could not be opened
    everSaved,  \* history: moderators.txt has held a name
    late,       \* history: see LateAtMostOnce
    changes, crashes

session == <<pc, who, cmd>>
save == <<copy, at>>
history == <<account, unlogged, overlapped, failed, everSaved, late, changes, crashes>>
vars == <<list, file, session, save, history>>

-----------------------------------------------------------------------------
(* The lists.                                                              *)

(* username_equals_ci *)
Same(a, b) == Fold[a] = Fold[b]
Listed(names, n) == \E i \in DOMAIN names : Same(names[i], n)
IsModerator(n) == Listed(list["moderators"], n)

(* add_muted_username, add_moderator_username *)
CanAdd(l, n) == ~Listed(list[l], n) /\ Len(list[l]) < Capacity[l]

(* remove_muted_username, remove_moderator_username: the last moderator stays *)
CanRemoveAny(l, n) == Listed(list[l], n)                 \* mutant: the last one goes too
CanRemove(l, n) ==
    /\ Listed(list[l], n)
    /\ l = "moderators" => Len(list[l]) > 1

(* The first entry that is n, the one that goes. *)
Place(names, n) ==
    CHOOSE i \in DOMAIN names : Same(names[i], n) /\ \A j \in 1..(i - 1) : ~Same(names[j], n)

Change(c) ==
    list' = [list EXCEPT ![c.list] =
                IF c.add THEN Append(@, c.name) ELSE RemoveAt(@, Place(@, c.name))]

(* load_username_list_from_file: read[i] are the names after i lines. *)
LoadedAsIs(names, max) == names                          \* mutant: every line is taken
Loaded(names, max) ==
    LET read[i \in 0..Len(names)] ==
            IF i = 0 THEN <<>>
            ELSE IF names[i] \in Comments \/ Listed(read[i - 1], names[i]) \/ Len(read[i - 1]) >= max
                 THEN read[i - 1]
                 ELSE Append(read[i - 1], names[i])
    IN  read[Len(names)]

(* What a file holds after a write at its start. *)
Overwrite(old, new) == new \o SubSeq(old, Len(new) + 1, Len(old))

Keys == {Fold[n] : n \in Name}
Quiet == \A w \in Worker : pc[w] \in {"out", "idle"}
Saving(w) == pc[w] \in {"open", "write"}

-----------------------------------------------------------------------------
(* The server starts with the files of a server that never ran.            *)
Init ==
    /\ list = Empty /\ file = Empty
    /\ pc = [w \in Worker |-> "out"]
    /\ who \in [Worker -> {Fold[n] : n \in Name \ Comments}]
    /\ cmd = [w \in Worker |-> NoCommand]
    /\ copy = [w \in Worker |-> Empty] /\ at = [w \in Worker |-> "moderators"]
    /\ account = [l \in Lists |-> [k \in Keys |-> 0]]
    /\ unlogged = FALSE /\ overlapped = FALSE /\ failed = FALSE
    /\ everSaved = FALSE /\ late = [w \in Worker |-> 0]
    /\ changes = 0 /\ crashes = 0

(* Bound: the changes made and under way. *)
MayChange == changes + Cardinality({w \in Worker : pc[w] = "apply"}) < MaxChanges

Goto(w, step) == pc' = [pc EXCEPT ![w] = step]

(* Bookkeeping of a change: c of worker w has just been made. *)
Changed(w, c, granted) ==
    /\ late' = [v \in Worker |->
                  IF c.list = "moderators" /\ c.add /\ Same(who[v], c.name) THEN 0
                  ELSE IF v = w /\ ~granted THEN late[v] + 1 ELSE late[v]]
    /\ UNCHANGED <<account, unlogged, overlapped, failed, everSaved, crashes>>

(* ensure_initial_moderator when a session enters play. *)
JoinFirst(w) ==
    /\ pc[w] = "out" /\ list["moderators"] = <<>>
    /\ LET c == [list |-> "moderators", add |-> TRUE, name |-> who[w]]
       IN  /\ Change(c)
           /\ cmd' = [cmd EXCEPT ![w] = c]
           /\ Changed(w, c, TRUE)
    /\ UNCHANGED changes
    /\ Goto(w, "audit")
    /\ UNCHANGED <<file, who, save>>

(* A session that ends leaves the lists as they are, so it may as well stay. *)
Join(w) ==
    /\ pc[w] = "out" /\ list["moderators"] # <<>>
    /\ Goto(w, "idle")
    /\ UNCHANGED <<list, file, who, cmd, save, history>>

(* /op, /deop, /mute, /unmute: sender_is_mod is read, under the lock, when *)
(* the packet is parsed.                                                   *)
ReadCommandOfAnyone(w) ==                                \* mutant: no permission check
    /\ pc[w] = "idle" /\ MayChange
    /\ \E c \in Commands : cmd' = [cmd EXCEPT ![w] = c]
    /\ Goto(w, "apply")
    /\ UNCHANGED <<list, file, who, save, history>>
ReadCommand(w) ==
    /\ pc[w] = "idle" /\ MayChange /\ IsModerator(who[w])
    /\ \E c \in Commands : cmd' = [cmd EXCEPT ![w] = c]
    /\ Goto(w, "apply")
    /\ UNCHANGED <<list, file, who, save, history>>

(* Any other packet, and these commands from anyone else. *)
RecvOther(w) == pc[w] = "idle" /\ UNCHANGED vars

(* The change itself, a second time under the lock. *)
Apply(w) ==
    /\ pc[w] = "apply"
    /\ LET c == cmd[w]
       IN  /\ IF c.add THEN CanAdd(c.list, c.name) ELSE CanRemove(c.list, c.name)
           /\ Change(c)
           /\ Changed(w, c, IsModerator(who[w]))
    /\ changes' = changes + 1
    /\ Goto(w, "audit")
    /\ UNCHANGED <<file, who, cmd, save>>

(* Already there, not there, no room, or the last moderator. *)
ApplyRefused(w) ==
    /\ pc[w] = "apply"
    /\ LET c == cmd[w]
       IN  IF c.add THEN ~CanAdd(c.list, c.name) ELSE ~CanRemove(c.list, c.name)
    /\ Goto(w, "idle")
    /\ cmd' = [cmd EXCEPT ![w] = NoCommand]
    /\ UNCHANGED <<list, file, who, save, history>>

(* append_moderation_audit: one record, or nothing when fopen fails. *)
AuditAddsOnly(w) ==                                      \* mutant: removals not recorded
    /\ pc[w] = "audit"
    /\ LET c == cmd[w] IN
         account' = [account EXCEPT ![c.list][Fold[c.name]] = @ + (IF c.add THEN 1 ELSE 0)]
    /\ Goto(w, "copy")
    /\ cmd' = [cmd EXCEPT ![w] = NoCommand]
    /\ UNCHANGED <<list, file, who, save, unlogged, overlapped, failed, everSaved, late, changes, crashes>>
Audit(w) ==
    /\ pc[w] = "audit"
    /\ \/ /\ LET c == cmd[w] IN
               account' = [account EXCEPT ![c.list][Fold[c.name]] = @ + (IF c.add THEN 1 ELSE -1)]
          /\ UNCHANGED unlogged
       \/ /\ DiskErrors
          /\ unlogged' = TRUE
          /\ UNCHANGED account
    /\ Goto(w, "copy")
    /\ cmd' = [cmd EXCEPT ![w] = NoCommand]
    /\ UNCHANGED <<list, file, who, save, overlapped, failed, everSaved, late, changes, crashes>>

-----------------------------------------------------------------------------
(* save_moderation_state; its result is ignored by every caller.           *)

CopyLists(w) ==
    /\ pc[w] = "copy"
    /\ copy' = [copy EXCEPT ![w] = list]
    /\ at' = [at EXCEPT ![w] = "moderators"]
    /\ LET alone == \A v \in Worker : ~Saving(v)
       IN  /\ overlapped' = ~alone
           /\ failed' = (failed /\ ~alone)
    /\ Goto(w, "open")
    /\ UNCHANGED <<list, file, who, cmd, account, unlogged, everSaved, late, changes, crashes>>

Open(w) ==
    /\ pc[w] = "open"
    /\ file' = [file EXCEPT ![at[w]] = <<>>]
    /\ Goto(w, "write")
    /\ UNCHANGED <<list, who, cmd, save, history>>

(* After the moderators the muted players, even when a file did not open. *)
NextFile(w) ==
    IF at[w] = "moderators"
    THEN Goto(w, "open") /\ at' = [at EXCEPT ![w] = "muted"] /\ copy' = copy
    ELSE Goto(w, "idle") /\ at' = [at EXCEPT ![w] = "moderators"] /\ copy' = [copy EXCEPT ![w] = Empty]

OpenFails(w) ==
    /\ pc[w] = "open" /\ DiskErrors
    /\ NextFile(w)
    /\ failed' = TRUE
    /\ UNCHANGED <<list, file, who, cmd, account, unlogged, overlapped, everSaved, late, changes, crashes>>

WriteFirstOnly(w) ==                                     \* mutant: muted.txt forgotten
    /\ pc[w] = "write"
    /\ file' = [file EXCEPT ![at[w]] = Overwrite(@, copy[w][at[w]])]
    /\ everSaved' = (everSaved \/ file'["moderators"] # <<>>)
    /\ Goto(w, "idle") /\ copy' = [copy EXCEPT ![w] = Empty]
    /\ UNCHANGED <<list, who, cmd, at, account, unlogged, overlapped, failed, late, changes, crashes>>
Write(w) ==
    /\ pc[w] = "write"
    /\ file' = [file EXCEPT ![at[w]] = Overwrite(@, copy[w][at[w]])]
    /\ everSaved' = (everSaved \/ file'["moderators"] # <<>>)
    /\ NextFile(w)
    /\ UNCHANGED <<list, who, cmd, account, unlogged, overlapped, failed, late, changes, crashes>>

(* The process dies; main starts with load_moderation_state. *)
Restart ==
    /\ crashes < MaxCrashes
    /\ CrashAnytime \/ Quiet
    /\ list' = [l \in Lists |-> Loaded(file[l], Capacity[l])]
    /\ pc' = [w \in Worker |-> "out"]
    /\ who' \in [Worker -> {Fold[n] : n \in Name \ Comments}]
    /\ cmd' = [w \in Worker |-> NoCommand]
    /\ copy' = [w \in Worker |-> Empty] /\ at' = [w \in Worker |-> "moderators"]
    /\ account' = [l \in Lists |-> [k \in Keys |-> IF Listed(list'[l], k) THEN 1 ELSE 0]]
    /\ unlogged' = FALSE /\ overlapped' = FALSE /\ failed' = FALSE
    /\ late' = [w \in Worker |-> 0]
    /\ crashes' = crashes + 1
    /\ UNCHANGED <<file, everSaved, changes>>

-----------------------------------------------------------------------------
Command(w) == RecvOther(w) \/ ReadCommand(w) \/ Apply(w) \/ ApplyRefused(w) \/ Audit(w)
Save(w) == CopyLists(w) \/ Open(w) \/ OpenFails(w) \/ Write(w)

Next ==
    \/ \E w \in Worker : JoinFirst(w) \/ Join(w) \/ Command(w) \/ Save(w)
    \/ Restart

Spec == Init /\ [][Next]_vars
-----------------------------------------------------------------------------
(* Properties.                                                             *)

Distinct(names) == \A i, j \in DOMAIN names : Same(names[i], names[j]) => i = j

(* The types of the variables; both lists stay within their arrays and no  *)
(* player is listed twice, in whatever spelling, also after a restart from *)
(* files that overlapping saves have mixed.                                *)
TypeOK ==
    /\ {list, file} \subseteq [Lists -> Seq(Name)]
    /\ \A l \in Lists : Len(list[l]) <= Capacity[l] /\ Distinct(list[l])
    /\ pc \in [Worker -> {"out", "idle", "apply", "audit", "copy", "open", "write"}]
    /\ who \in [Worker -> Name]
    /\ cmd \in [Worker -> [list : Lists, add : BOOLEAN, name : Name] \cup {NoCommand}]
    /\ copy \in [Worker -> [Lists -> Seq(Name)]] /\ at \in [Worker -> Lists]
    /\ account \in [Lists -> [Keys -> Int]]
    /\ {unlogged, overlapped, failed, everSaved} \subseteq BOOLEAN
    /\ late \in [Worker -> Nat]
    /\ changes \in 0..MaxChanges /\ crashes \in 0..MaxCrashes

OpsAreLoaded == \A c \in Commands : c.list = "moderators" => c.name \notin Comments

(* A server that has a moderator always has one, unless names that begin   *)
(* with '#' are made moderators: neither moderators who depose each other  *)
(* at the same time nor a restart between saves, however the saves         *)
(* overlapped, leave the list empty.                                       *)
ModeratorRemains ==
    [][list["moderators"] # <<>> /\ ~failed /\ OpsAreLoaded
        => list'["moderators"] # <<>>]_vars

(* A list without the names that begin with '#', in its order. *)
Uncommented(names) ==
    LET kept[i \in 0..Len(names)] ==
            IF i = 0 THEN <<>>
            ELSE IF names[i] \in Comments THEN kept[i - 1] ELSE Append(kept[i - 1], names[i])
    IN  kept[Len(names)]

(* When no save is in progress, the files say what memory says, unless the *)
(* last save ran beside another or a file could not be opened since the    *)
(* last save on its own: a restart now would change nothing but the names  *)
(* that begin with '#'.                                                    *)
SavedWhenQuiet ==
    Quiet /\ ~overlapped /\ ~failed =>
        \A l \in Lists :
            Loaded(file[l], Capacity[l]) = Uncommented(list[l])

(* The audit log accounts for the lists: when no record is outstanding or  *)
(* lost, a player is listed exactly when the lists at startup and the      *)
(* records since then, in whatever order the workers wrote them, say so.   *)
AuditAccounts ==
    ~unlogged /\ (\A w \in Worker : pc[w] # "audit") =>
        \A l \in Lists, k \in Keys :
            account[l][k] = (IF Listed(list[l], k) THEN 1 ELSE 0)

(* A moderator who is deposed while a command of theirs is being executed  *)
(* makes that one change at most before they are a moderator again.        *)
LateAtMostOnce == \A w \in Worker : late[w] <= 1

(* main.c:4534 "[MOD] %s is now a moderator (first player).": the server   *)
(* promotes by itself only the first player, never one who comes after     *)
(* moderators have been saved.                                             *)
FirstPlayerOnly ==
    [][list["moderators"] = <<>> /\ list'["moderators"] # <<>> => ~everSaved]_vars
=============================================================================
