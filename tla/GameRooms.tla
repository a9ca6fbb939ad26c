------------------------------- MODULE GameRooms -------------------------------
(***************************************************************************)
(* The game rooms: GameRoomManager.cpp and GameRoom.cpp with the two       *)
(* threads that reach them, the packet handler's (create, join, quit, and  *)
(* the logins and logouts that make and remove users) and the cleaner's    *)
(* (the rooms' part of UpdateActiveUserMap).                               *)
(*                                                                         *)
(* Users and rooms are shared_ptrs that refer to each other by weak_ptrs:  *)
(* an object lives while a table or a local variable holds it, and the     *)
(* step that lets go of the last one destroys it (Settle).  Identities are *)
(* used again after that, so histories have no bound.                      *)
(***************************************************************************)
EXTENDS Integers, FiniteSets

CONSTANTS
    Session,    \* identities of users: m_id is the session's id
    Account,    \* names of users, the keys of m_players
    Name,       \* Name[s]: m_name, a client has one account
    Asks,       \* Asks[s]: what client s may ask for
    Mortal,     \* clients that may disappear
    Room,       \* identities of rooms
    Code,       \* room codes
    MaxPlayer,  \* MAX_PLAYER_NUM
    None,       \* no object
    Gone        \* a weak_ptr whose user was destroyed

ASSUME ObjectAssumption  == /\ {None, Gone} \cap (Session \cup Account \cup Room \cup Code) = {}
                            /\ None # Gone
ASSUME AccountAssumption == IsFiniteSet(Account) /\ Name \in [Session -> Account]
ASSUME ClientAssumption  == /\ Asks \in [Session -> SUBSET {"create", "join", "quit", "logout"}]
                            /\ Mortal \subseteq Session
ASSUME LimitAssumption   == MaxPlayer \in Nat /\ MaxPlayer >= 2

VARIABLES
    user,       \* s_activeUserMap
    alive,      \* the User objects that exist, in a table or not
    dead,       \* users whose session is INVALID
    ref,        \* ref[s]: m_activeGameRoomRef
    room,       \* room[r]: the GameRoom r, None if there is none
    table,      \* s_activeGameRooms
    hnd,        \* the handler's thread: its position and what its locals hold
    cln,        \* the cleaner's thread
    fault       \* what ended the process, "none" while it runs

vars == <<user, alive, dead, ref, room, table, hnd, cln, fault>>

GameRoom == [code : Code, closing : BOOLEAN, host : Session \cup {None},
             players : [Account -> Session \cup {None, Gone}]]

ASSUME RoomAssumption == None \notin GameRoom

HandlerIdle == [pc |-> "idle", s |-> None, r |-> None, copy |-> {}]
Asleep      == [pc |-> "sleep", snap |-> {}, todo |-> {}, s |-> None, r |-> None]

\* Where each thread is, and what it holds there.
HandlerState ==
    {HandlerIdle} \cup
    [pc : {"insert", "enter", "created", "join", "leave", "check"},
     s : Session, r : Room, copy : SUBSET Room] \cup
    [pc : {"return"}, s : {None}, r : Room, copy : {{}}]

CleanerState ==
    [pc : {"sleep", "reap"}, snap : SUBSET Session, todo : SUBSET Session,
     s : {None}, r : {None}] \cup
    [pc : {"leave", "check", "forget"}, snap : SUBSET Session, todo : SUBSET Session,
     s : Session, r : Room] \cup
    [pc : {"erase"}, snap : SUBSET Session, todo : SUBSET Session,
     s : Session, r : Room \cup {None}]

RoomsTypeOK ==
    /\ dead \subseteq user /\ user \subseteq alive /\ alive \subseteq Session
    /\ ref \in [Session -> Room \cup {None}]
    /\ room \in [Room -> GameRoom \cup {None}]
    /\ table \in [Code -> Room \cup {None}]
    /\ hnd \in HandlerState /\ cln \in CleanerState
    /\ fault \in {"none", "null_pointer", "end_iterator", "dangling", "race"}

Init ==
    /\ user = {} /\ alive = {} /\ dead = {}
    /\ ref = [s \in Session |-> None]
    /\ room = [r \in Room |-> None]
    /\ table = [c \in Code |-> None]
    /\ hnd = HandlerIdle /\ cln = Asleep
    /\ fault = "none"

Running == fault = "none"
Open(r) == \E c \in Code : table[c] = r

\* The names in m_players.
Listed(rec) == {a \in Account : rec.players[a] # None}

\* m_userMapLock, which the cleaner holds from its lookup to its erase.
LockFree == cln.pc \notin {"leave", "check", "forget", "erase"}

-----------------------------------------------------------------------------
(* Reference counts and faults.                                            *)

Objects == <<alive, dead, ref, room>>

\* The process is lost, with everything in it.
Crash(why) ==
    /\ fault' = why
    /\ hnd' = HandlerIdle /\ cln' = Asleep
    /\ user' = {} /\ alive' = {} /\ dead' = {}
    /\ ref' = [s \in Session |-> None]
    /\ room' = [r \in Room |-> None]
    /\ table' = [c \in Code |-> None]

\* A weak_ptr to a user, once those in us are destroyed.
Expire(p, us) == IF p \in us THEN Gone ELSE p

\* rec, once the users in us are destroyed.
WithoutUsers(rec, us) ==
    [rec EXCEPT !.host = IF @ \in us THEN None ELSE @,
                !.players = [a \in Account |-> Expire(@[a], us)]]

\* The end of a step that leaves rooms rm, references rf, the tables u and tb, and
\* threads h and k: rooms nobody holds any more are destroyed, then users.
\* ~GameRoom resets the reference of every player it lists, whatever that refers
\* to, and dereferences the weak_ptr of a player that is gone.
Settle(rm, rf, u, tb, h, k) ==
    LET held  == {tb[c] : c \in Code} \cup h.copy \cup {h.r, k.r}
        ends  == {r \in Room : rm[r] # None /\ r \notin held}
        lists(r, p) == \E a \in Account : rm[r].players[a] = p
        reset == {s \in Session : rf[s] \in ends \/ \E r \in ends : lists(r, s)}
        die   == alive \ (u \cup k.snap \cup {h.s})
    IN  \/ /\ Crash("null_pointer")
           /\ \E r \in ends : lists(r, Gone)
        \/ /\ hnd' = h /\ cln' = k /\ user' = u /\ table' = tb
           /\ ~\E r \in ends : lists(r, Gone)
           /\ room' = [r \in Room |-> IF rm[r] = None \/ r \in ends THEN None
                                      ELSE WithoutUsers(rm[r], die)]
           /\ ref' = [s \in Session |-> IF s \in reset \cup die THEN None ELSE rf[s]]
           /\ alive' = alive \ die /\ dead' = dead \cap u
           /\ UNCHANGED fault

-----------------------------------------------------------------------------
(* GameRoom::Enter and GameRoom::Quit.                                     *)

\* Faulty variant: one player too many.
Full_late(rec) == Cardinality(Listed(rec)) > MaxPlayer

Full(rec) == Cardinality(Listed(rec)) >= MaxPlayer

\* m_players after the insert(), which keeps a name that is there.
Inserted(r, s) == [room EXCEPT ![r].players[Name[s]] = IF @ = None THEN s ELSE @]

\* The user's reference after SetActiveGameRoomRef.
Referring(r, s) == [ref EXCEPT ![s] = r]

\* The host's departure marks the room DESTROYING, and it stays listed.
Left(r, s) ==
    IF room[r].host = s THEN [room EXCEPT ![r].closing = TRUE]
    ELSE [room EXCEPT ![r].players[Name[s]] = None]

\* Faulty variant: the user still refers to the room.
Quit_keepsRef(r, s) == room' = Left(r, s) /\ UNCHANGED ref

Quit(r, s) == room' = Left(r, s) /\ ref' = [ref EXCEPT ![s] = None]

\* unsafe_erase of the room's code, whatever room has it.
Without(r) == [table EXCEPT ![room[r].code] = None]

-----------------------------------------------------------------------------
(* Clients, and the handler's logins and logouts, which leave rooms alone. *)

\* The session of a user becomes INVALID.  (Nobody looks at the session of a user
\* that has logged out.)
Die(s) ==
    /\ Running /\ s \in Mortal \cap user /\ s \notin dead
    /\ dead' = dead \cup {s}
    /\ UNCHANGED <<user, alive, ref, room, table, hnd, cln, fault>>

\* CreateActiveUser: no account has two users (OutgameServer!SingleLogin).
Login(s) ==
    /\ Running /\ hnd = HandlerIdle /\ LockFree
    /\ s \notin alive /\ \A t \in user : Name[t] # Name[s]
    /\ user' = user \cup {s}
    /\ alive' = alive \cup {s}
    /\ UNCHANGED <<dead, ref, room, table, hnd, cln, fault>>

\* LogoutUser: the room keeps its weak_ptr.
Logout(s) ==
    /\ Running /\ hnd = HandlerIdle /\ LockFree
    /\ s \in user /\ "logout" \in Asks[s]
    /\ Settle(room, ref, user \ {s}, table, hnd, cln)

-----------------------------------------------------------------------------
(* The handler's requests about rooms.  A request's user is looked up      *)
(* without the lock.                                                       *)

Request(op, s) == Running /\ hnd = HandlerIdle /\ s \in user /\ op \in Asks[s]

RequestFails(s) ==
    /\ \E op \in {"create", "join", "quit"} : Request(op, s)
    /\ \/ s = cln.s /\ Crash("dangling")
       \/ cln.pc = "erase" /\ Crash("race")

\* CreateGameRoom: the constructor lists the host; the table is copied under
\* s_gameRoomsLock, and the room gets a code that is not in the copy.
CreateGameRoom(s) ==
    /\ Request("create", s) /\ s # cln.s
    /\ \E r \in Room : room[r] = None
    /\ LET r == CHOOSE r \in Room : room[r] = None IN
         /\ \E c \in Code :
              /\ table[c] = None
              /\ room' = [room EXCEPT ![r] =
                   [code |-> c, closing |-> FALSE, host |-> s,
                    players |-> [a \in Account |-> IF a = Name[s] THEN s ELSE None]]]
         /\ hnd' = [pc |-> "insert", s |-> s, r |-> r,
                     copy |-> {table[c] : c \in Code} \ {None}]
    /\ UNCHANGED <<user, alive, dead, ref, table, cln, fault>>

\* Without the lock; an entry that exists is kept.
InsertRoom ==
    /\ Running /\ hnd.pc = "insert"
    /\ table' = [table EXCEPT ![room[hnd.r].code] = IF @ = None THEN hnd.r ELSE @]
    /\ hnd' = [hnd EXCEPT !.pc = "enter"]
    /\ UNCHANGED <<user, Objects, cln, fault>>

\* A room that lists nobody but its host is not full.
HostEnters ==
    /\ Running /\ hnd.pc = "enter"
    /\ room' = Inserted(hnd.r, hnd.s)
    /\ ref' = Referring(hnd.r, hnd.s)
    /\ hnd' = [hnd EXCEPT !.pc = "created"]
    /\ UNCHANGED <<user, alive, dead, table, cln, fault>>

\* CreateGameRoom returns: its copy of the table goes, then the host ...
Created ==
    /\ Running /\ hnd.pc = "created"
    /\ Settle(room, ref, user, table,
              [pc |-> "return", s |-> None, r |-> hnd.r, copy |-> {}], cln)

\* ... and the room once the answer is queued.
CreateAnswered ==
    /\ Running /\ hnd.pc = "return"
    /\ Settle(room, ref, user, table, HandlerIdle, cln)

\* JoinGameRoom: code and state are checked under s_gameRoomsLock, which the
\* handler keeps until the player has entered (hnd.pc = "join").  A code that
\* is not there or a room that is closing changes nothing.
JoinGameRoom(s) ==
    /\ Request("join", s) /\ s # cln.s
    /\ \E c \in Code :
         /\ table[c] # None /\ ~room[table[c]].closing
         /\ hnd' = [pc |-> "join", s |-> s, r |-> table[c], copy |-> {}]
    /\ UNCHANGED <<user, Objects, table, cln, fault>>

PlayerEnters ==
    /\ Running /\ hnd.pc = "join" /\ ~Full(room[hnd.r])
    /\ Settle(Inserted(hnd.r, hnd.s), Referring(hnd.r, hnd.s), user, table, HandlerIdle, cln)

RoomIsFull ==
    /\ Running /\ hnd.pc = "join" /\ Full(room[hnd.r])
    /\ Settle(room, ref, user, table, HandlerIdle, cln)

\* QuitGameRoom.
QuitGameRoom(s) ==
    /\ Request("quit", s) /\ s # cln.s
    /\ ref[s] # None
    /\ hnd' = [pc |-> "leave", s |-> s, r |-> ref[s], copy |-> {}]
    /\ UNCHANGED <<user, Objects, table, cln, fault>>

\* A user that is in no room: the null pointer is used.
QuitNowhere(s) ==
    /\ Request("quit", s) /\ s # cln.s
    /\ ref[s] = None
    /\ Crash("null_pointer")

PlayerQuits ==
    /\ Running /\ hnd.pc = "leave"
    /\ Quit(hnd.r, hnd.s)
    /\ hnd' = [hnd EXCEPT !.pc = "check"]
    /\ UNCHANGED <<user, alive, dead, table, cln, fault>>

\* The code of a room that is DESTROYING is erased under s_gameRoomsLock.
Remaining(r) == IF room[r].closing THEN Without(r) ELSE table

\* The end of QuitGameRoom: its room goes, then its user.
CheckQuit ==
    /\ Running /\ hnd.pc = "check"
    /\ Settle(room, ref, user, Remaining(hnd.r), HandlerIdle, cln)

Continue ==
    \/ InsertRoom \/ HostEnters \/ Created \/ CreateAnswered
    \/ PlayerEnters \/ RoomIsFull \/ PlayerQuits \/ CheckQuit

Handler ==
    \/ Continue
    \/ \E s \in Session : \/ Login(s) \/ Logout(s) \/ RequestFails(s)
                          \/ CreateGameRoom(s) \/ JoinGameRoom(s)
                          \/ QuitGameRoom(s) \/ QuitNowhere(s)

-----------------------------------------------------------------------------
(* The cleaner: UpdateActiveUserMap.                                       *)

\* Faulty variant: users in a room are not looked at.
Invalid_idle == {s \in dead : ref[s] = None}

Invalid == dead

NextVictim(todo) == IF todo = {} THEN "sleep" ELSE "reap"

\* After the sleep the copy of the last round goes, the map is copied again and the
\* copy searched.  (A user that dies during the search is found now or next time.)
Snapshot ==
    /\ Running /\ cln.pc = "sleep"
    /\ Settle(room, ref, user, table, hnd,
              [cln EXCEPT !.pc = NextVictim(Invalid), !.snap = user, !.todo = Invalid])

\* The lock is taken, the Session deleted, the room referred to is locked.
Reap(s) ==
    /\ Running /\ cln.pc = "reap" /\ s \in cln.todo
    /\ s \in user
    /\ cln' = [cln EXCEPT !.pc = IF ref[s] = None THEN "erase" ELSE "leave",
                          !.s = s, !.r = ref[s]]
    /\ UNCHANGED <<user, Objects, table, hnd, fault>>

\* The user has logged out since.
ReapFails(s) ==
    /\ Running /\ cln.pc = "reap" /\ s \in cln.todo
    /\ s \notin user
    /\ Crash("end_iterator")

DeadPlayerQuits ==
    /\ Running /\ cln.pc = "leave"
    /\ Quit(cln.r, cln.s)
    /\ cln' = [cln EXCEPT !.pc = "check"]
    /\ UNCHANGED <<user, alive, dead, table, hnd, fault>>

\* Faulty variants: the state is not looked at; or a continue goes on to the next user.
AfterQuit_erase     == "erase"
AfterQuit_forget    == "forget"
AfterQuit_continues == IF room[cln.r].closing THEN "forget" ELSE "reap"

AfterQuit == IF room[cln.r].closing THEN "forget" ELSE "erase"

CheckDeadQuit ==
    /\ Running /\ cln.pc = "check"
    /\ cln' = [cln EXCEPT !.pc = AfterQuit]
    /\ UNCHANGED <<user, Objects, table, hnd, fault>>

\* UpdateActiveGameRooms, under s_gameRoomsLock.
ForgetRoom ==
    /\ Running /\ cln.pc = "forget" /\ hnd.pc # "join"
    /\ table' = Without(cln.r)
    /\ cln' = [cln EXCEPT !.pc = "erase"]
    /\ UNCHANGED <<user, Objects, hnd, fault>>

\* The maps lose the user, the lock is released, and the room is let go.
Erase ==
    /\ Running /\ cln.pc = "erase"
    /\ LET rest == cln.todo \ {cln.s} IN
         Settle(room, ref, user \ {cln.s}, table, hnd,
                [pc |-> NextVictim(rest), snap |-> cln.snap, todo |-> rest, s |-> None, r |-> None])

Cleaner ==
    \/ Snapshot \/ DeadPlayerQuits \/ CheckDeadQuit \/ ForgetRoom \/ Erase
    \/ \E s \in Session : Reap(s) \/ ReapFails(s)

-----------------------------------------------------------------------------

\* The two threads are about to touch one unordered_map, one weak_ptr or, with
\* unsafe_erase, the table: no lock keeps them apart.  What such a race does if
\* the process survives it is one order or the other.
Race ==
    /\ Running
    /\ \/ /\ hnd.pc \in {"enter", "join", "leave"}
          /\ \/ cln.pc = "leave" /\ (hnd.r = cln.r \/ hnd.s = cln.s)
             \/ cln.pc = "reap" /\ hnd.s \in cln.todo
       \/ hnd.pc = "insert" /\ cln.pc = "forget"
    /\ Crash("race")

\* A new process has no users and no rooms.
Restart ==
    /\ ~Running
    /\ fault' = "none"
    /\ UNCHANGED <<user, Objects, table, hnd, cln>>

Next ==
    \/ \E s \in Session : Die(s)
    \/ Handler
    \/ Cleaner
    \/ Race
    \/ Restart

Spec == Init /\ [][Next]_vars

\* Both threads are scheduled, and a lock that is free again and again is got
\* (hence the strong fairness); no client has to do anything.
FairSpec == Spec /\ WF_vars(Continue) /\ SF_vars(Cleaner)

-----------------------------------------------------------------------------
(* Properties.                                                             *)

\* A room lists at most MAX_PLAYER_NUM players, those that are gone included:
\* the constructor, Enter and insert() that keeps a name agree on the count.
WithinLimit ==
    \A r \in Room : room[r] # None => Cardinality(Listed(room[r])) <= MaxPlayer

\* The room a user refers to exists and lists its name, although a room is
\* left by two threads, a second room may be entered without leaving the first,
\* and a name may come back to a room that still lists its earlier user.
ListedInOwnRoom ==
    \A s \in user : ref[s] # None =>
        room[ref[s]] # None /\ Name[s] \in Listed(room[ref[s]])

\* A thread has found r DESTROYING, or is about to look, and erases r's code then.
Removing(r) ==
    \/ hnd.pc = "check" /\ hnd.r = r
    \/ cln.pc \in {"check", "forget"} /\ cln.r = r

\* A room that is DESTROYING and can still be found is being removed: whoever
\* marked it, or another player who found it marked, has its code still to erase.
ClosingIsRemoved ==
    \A r \in Room : (Open(r) /\ room[r].closing) => Removing(r)

\* A room disappears from the table only after its host has left it, unless it
\* was given the code of an earlier room that a thread is still to remove.
EndsAfterHost ==
    [][Running' => \A c \in Code :
         (table[c] # None /\ table'[c] # table[c]) =>
             \/ room[table[c]].closing
             \/ \E r \in Room \ {table[c]} : Removing(r) /\ room[r].code = c]_vars

\* r can be found, although its host has left it or can no longer leave it by itself.
Abandoned(r) ==
    /\ Open(r)
    /\ \/ room[r].closing
       \/ room[r].host \in dead /\ ref[room[r].host] = r

\* An abandoned room disappears: a host that quits takes it along, and the cleaner
\* finds a host whose client is gone and the room it is in.  Not covered is a host
\* that leaves its room behind (it logs out, enters another room, or is found by
\* the cleaner before it has entered): nobody ever closes such a room.
AbandonedRoomEnds == \A r \in Room : []<>~Abandoned(r)

===================================================================================================================================
