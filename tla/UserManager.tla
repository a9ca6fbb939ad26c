----------------------------- MODULE UserManager ------------------------------
(***************************************************************************)
(* The accounts: OutgameServer/UserManager.cpp and User.cpp over the table *)
(* [dbo].[User], with the two threads that work on them, PacketHandler::Run*)
(* (one thread, so handlers never overlap) and UpdateActiveUserMap, the    *)
(* cleaner.  m_userMapLock is held by the cleaner exactly while cln.pc is  *)
(* "erase"; every other critical section is one step.                      *)
(***************************************************************************)
EXTENDS ServerCore, SequencesExt

CONSTANTS
    Account,    \* rows [dbo].[User] has or can get
    Friend      \* Friend[a]: mutual friends of account a in [dbo].[Friends]

ASSUME AccountAssumption == None \notin Account /\ IsFiniteSet(Account)
ASSUME FriendAssumption  == /\ Friend \in [Account -> SUBSET Account]
                            /\ \A a \in Account : a \notin Friend[a]

VARIABLES
    dbState,    \* dbState[a]: column State of a's row
    name,       \* s_activeUserMap: name[s] is the User of session s
    names,      \* s_activeUsername: names[a] is a user id, that is a session
    friends,    \* friends[s]: accounts of m_friendList not OFFLINE at login
    hnd,        \* the packet handler's thread
    cln,        \* the cleaner's thread
    sendQueue   \* OutgameServer::m_sendQueue

userVars == <<dbState, name, names, friends, hnd, cln, sendQueue>>

FirstRequest == [op : {"login", "join"}, who : Account]
LaterRequest == [op : {"logout", "find"}, who : {None}]

ASSUME RequestAssumption == Request \subseteq FirstRequest \cup LaterRequest
ASSUME MessageAssumption ==
    Message = {"granted", "refused", "joined", "found", "bye", "note"}

HandlerIdle == [pc |-> "idle",  s |-> None, who |-> None]
Asleep      == [pc |-> "sleep", snap |-> {}, dead |-> {}, cur |-> None]

UserTypeOK ==
    /\ dbState \in [Account -> {"ABSENT", "ONLINE", "IN_GAME", "OFFLINE"}]
    /\ name \in [Session -> Account \cup {None}]
    /\ names \in [Account -> Session \cup {None}]
    /\ friends \in [Session -> SUBSET Account]
    /\ hnd \in {HandlerIdle} \cup
              [pc : {"create", "load", "announce", "reply"}, s : Session, who : Account]
    /\ cln \in [pc : {"sleep", "scan", "reap"}, snap : SUBSET Session,
                dead : SUBSET Session, cur : {None}] \cup
              [pc : {"erase"}, snap : SUBSET Session, dead : SUBSET Session, cur : Session]
    /\ sendQueue \in Seq([s : Session, msg : Message])

\* The constructor has set every row's State to OFFLINE.
UserInit(accounts) ==
    /\ dbState = [a \in Account |-> IF a \in accounts THEN "OFFLINE" ELSE "ABSENT"]
    /\ name = [s \in Session |-> None]
    /\ names = [a \in Account |-> None]
    /\ friends = [s \in Session |-> {}]
    /\ hnd = HandlerIdle
    /\ cln = Asleep
    /\ sendQueue = <<>>

users    == {s \in Session : name[s] # None}
LockFree == cln.pc # "erase"
InUse(a) == dbState[a] \in {"ONLINE", "IN_GAME"}

-----------------------------------------------------------------------------
(* User::UpdateState.                                                      *)

\* Friends that FindActiveUser(name) has no valid User for: the iterator past
\* the end is dereferenced.
Stale(s) == {f \in friends[s] : names[f] = None \/ name[names[f]] = None}

\* One notification to each friend that was not OFFLINE when s logged in.
Notes(s) == SetToSeq({[s |-> names[f], msg |-> "note"] : f \in friends[s]})

\* Faulty variant: only m_state changes.
UpdateState_memoryOnly(a, st) == UNCHANGED dbState

\* User::UpdateState, the write to the database.
UpdateState(a, st) == dbState' = [dbState EXCEPT ![a] = st]

\* Faulty variant: s_activeUsername is forgotten.
EraseUser_keepsName(s) ==
    /\ UNCHANGED names
    /\ name' = [name EXCEPT ![s] = None]
    /\ friends' = [friends EXCEPT ![s] = {}]

\* Faulty variant: s_activeUserMap keeps the User.
EraseUser_keepsUser(s) ==
    /\ names' = [names EXCEPT ![name[s]] = None]
    /\ friends' = [friends EXCEPT ![s] = {}]
    /\ UNCHANGED name

\* unsafe_erase from both maps; the User goes with its friend list.
EraseUser(s) ==
    /\ names' = [names EXCEPT ![name[s]] = None]
    /\ name' = [name EXCEPT ![s] = None]
    /\ friends' = [friends EXCEPT ![s] = {}]

SetState(s, st) == state' = [state EXCEPT ![s] = st]
Reply(s, msg)   == sendQueue' = Append(sendQueue, [s |-> s, msg |-> msg])

\* An assertion that fails, or undefined behaviour: the process is lost.
Crash(why) ==
    /\ fault' = why
    /\ UNCHANGED <<netVars, sessVars, sessionMap, deleted, job, recvQueue, userVars>>

-----------------------------------------------------------------------------
(* The handler thread: PacketHandler::Run and the callbacks of UserManager.*)

\* try_pop of a packet of kind op, whose session may have been released.  The
\* payload of a first request is parsed now, out of the accept buffer.
Packet(op) ==
    /\ Running /\ hnd.pc = "idle"
    /\ recvQueue # <<>> /\ Head(recvQueue).req.op = op
Popped == recvQueue' = Tail(recvQueue)
From   == Head(recvQueue).s
Who    == acceptBuf.who

\* DeserializeData fails on a packet that was overwritten: no answer.
DropPacket ==
    /\ Packet("login") \/ Packet("join")
    /\ acceptBuf # Head(recvQueue).req
    /\ Popped
    /\ UNCHANGED <<netVars, sessVars, sessionMap, deleted, job, fault, userVars>>

\* Faulty variant: any known account is let in.
AuthenticateUser_exists(a) == a \in Account /\ dbState[a] # "ABSENT"

\* AuthenticateUser: the account exists and its State is neither ONLINE nor
\* IN_GAME.
AuthenticateUser(a) == a \in Account /\ dbState[a] = "OFFLINE"

\* HandleLoginRequest when AuthenticateUser returns false.  A wrong password or
\* a failed query refuses any login.
RefuseLogin ==
    /\ Packet("login") /\ From \notin deleted
    /\ Popped
    /\ SetState(From, "CLOSE")
    /\ Reply(From, "refused")
    /\ UNCHANGED <<netVars, sock, recv, posted, written, zero, sendBuf, sessionMap,
                   deleted, job, fault, dbState, name, names, friends, hnd, cln>>

\* AuthenticateUser read a State that lets the login in.
AcceptLogin ==
    /\ Packet("login") /\ From \notin deleted
    /\ AuthenticateUser(Who)
    /\ Popped
    /\ hnd' = [pc |-> "create", s |-> From, who |-> Who]
    /\ UNCHANGED <<netVars, sessVars, sessionMap, deleted, job, fault,
                   dbState, name, names, friends, cln, sendQueue>>

\* insert() into both maps keeps an entry that exists.
InsertUser(s, a) ==
    /\ names' = [names EXCEPT ![a] = IF @ = None THEN s ELSE @]
    /\ name' = [name EXCEPT ![s] = IF @ = None THEN a ELSE @]

\* CreateActiveUser, under the lock.
CreateActiveUser ==
    /\ Running /\ hnd.pc = "create" /\ LockFree
    /\ InsertUser(hnd.s, hnd.who)
    /\ hnd' = [hnd EXCEPT !.pc = "load"]
    /\ UNCHANGED <<coreVars, dbState, friends, cln, sendQueue>>

\* CreateActiveUser, after the lock: State = 1 and the friends' states.
LoadFriends ==
    /\ Running /\ hnd.pc = "load"
    /\ dbState' = [dbState EXCEPT ![hnd.who] = "IN_GAME"]
    /\ friends' = [friends EXCEPT ![hnd.s] = {f \in Friend[hnd.who] : InUse(f)}]
    /\ hnd' = [hnd EXCEPT !.pc = "announce"]
    /\ UNCHANGED <<coreVars, name, names, cln, sendQueue>>

\* One of the two SELECTs fails: CreateActiveUser returns early, without the
\* UpdateState, and the login goes on.
LoadFails ==
    /\ Running /\ hnd.pc = "load"
    /\ dbState' = [dbState EXCEPT ![hnd.who] = "IN_GAME"]
    /\ friends' \in {friends, [friends EXCEPT ![hnd.s] = {f \in Friend[hnd.who] : InUse(f)}]}
    /\ hnd' = [hnd EXCEPT !.pc = "reply"]
    /\ UNCHANGED <<coreVars, name, names, cln, sendQueue>>

\* The rest of HandleLoginRequest, the User looked up without the lock.
Grant(notes) ==
    /\ hnd.s \notin deleted /\ name[hnd.s] # None
    /\ SetState(hnd.s, "REGISTER")
    /\ sendQueue' = (sendQueue \o notes) \o <<[s |-> hnd.s, msg |-> "granted"]>>
    /\ hnd' = HandlerIdle
    /\ UNCHANGED <<netVars, sock, recv, posted, written, zero, sendBuf, sessionMap,
                   deleted, job, recvQueue, fault, name, names, friends, cln>>

\* CreateActiveUser's UpdateState(ONLINE), also without the lock, and the rest.
AnnounceLogin ==
    /\ Running /\ hnd.pc = "announce" /\ Stale(hnd.s) = {}
    /\ UpdateState(hnd.who, "ONLINE")
    /\ Grant(Notes(hnd.s))

GrantLogin ==
    /\ Running /\ hnd.pc = "reply"
    /\ UNCHANGED dbState
    /\ Grant(<<>>)

LoginFails ==
    /\ Running /\ hnd.pc \in {"announce", "reply"}
    /\ \/ hnd.pc = "announce" /\ Stale(hnd.s) # {} /\ Crash("end_iterator")
       \/ name[hnd.s] = None /\ Crash("end_iterator")
       \/ ~LockFree /\ Crash("race")
       \/ hnd.s \in deleted /\ Crash("dangling")

\* HandleLogoutRequest; LogoutUser runs under the lock from end to end, so the
\* ONLINE it writes before OFFLINE is never read.
HandleLogout ==
    /\ Packet("logout") /\ LockFree
    /\ From \notin deleted /\ From \in users /\ Stale(From) = {}
    /\ Popped
    /\ UpdateState(name[From], "OFFLINE")
    /\ EraseUser(From)
    /\ SetState(From, "UNREGISTER")
    /\ sendQueue' = (sendQueue \o Notes(From)) \o <<[s |-> From, msg |-> "bye"]>>
    /\ UNCHANGED <<netVars, sock, recv, posted, written, zero, sendBuf, sessionMap,
                   deleted, job, fault, hnd, cln>>

LogoutFails ==
    /\ Packet("logout") /\ LockFree
    /\ \/ From \in deleted /\ Crash("dangling")
       \/ From \notin users /\ Crash("assert")
       \/ Stale(From) # {} /\ Crash("end_iterator")

\* HandleJoinRequest: the INSERT names no State, which defaults to 0 (ONLINE).
\* A failed query refuses any join.
HandleJoin ==
    /\ Packet("join") /\ From \notin deleted
    /\ Popped
    /\ \/ /\ Who \in Account /\ dbState[Who] = "ABSENT"
          /\ dbState' = [dbState EXCEPT ![Who] = "ONLINE"]
          /\ Reply(From, "joined")
       \/ Reply(From, "refused") /\ UNCHANGED dbState
    /\ SetState(From, "CLOSE")
    /\ UNCHANGED <<netVars, sock, recv, posted, written, zero, sendBuf, sessionMap,
                   deleted, job, fault, name, names, friends, hnd, cln>>

\* HandleFindFriendRequest, which looks its own user up without the lock; a
\* failed query is answered too.
HandleFind ==
    /\ Packet("find") /\ From \notin deleted /\ From \in users
    /\ Popped
    /\ Reply(From, "found")
    /\ UNCHANGED <<netVars, sessVars, sessionMap, deleted, job, fault,
                   dbState, name, names, friends, hnd, cln>>

FindFails ==
    /\ Packet("find")
    /\ \/ From \in deleted /\ Crash("dangling")
       \/ From \notin users /\ Crash("end_iterator")
       \/ ~LockFree /\ Crash("race")

Handler ==
    \/ DropPacket \/ RefuseLogin \/ AcceptLogin \/ CreateActiveUser \/ LoadFriends
    \/ LoadFails \/ AnnounceLogin \/ GrantLogin \/ LoginFails
    \/ HandleLogout \/ LogoutFails \/ HandleJoin \/ HandleFind \/ FindFails

-----------------------------------------------------------------------------
(* The cleaner: UpdateActiveUserMap.                                       *)

CleanerOnly == UNCHANGED <<coreVars, dbState, name, names, friends, hnd, sendQueue>>

\* Copy the map under the lock.
Snapshot ==
    /\ Running /\ cln.pc = "sleep" /\ users # {}
    /\ cln' = [cln EXCEPT !.pc = "scan", !.snap = users]
    /\ CleanerOnly

\* Look at one session of the copy, without the lock.
Scan(s) ==
    /\ Running /\ cln.pc = "scan" /\ s \in cln.snap
    /\ cln' = [cln EXCEPT !.snap = @ \ {s},
                          !.dead = IF IsValid(s) THEN @ ELSE @ \cup {s}]
    /\ CleanerOnly

ScanEnds ==
    /\ Running /\ cln.pc = "scan" /\ cln.snap = {}
    /\ cln' = [cln EXCEPT !.pc = IF cln.dead = {} THEN "sleep" ELSE "reap"]
    /\ CleanerOnly

\* Under the lock: the user goes OFFLINE and its Session is deleted ...
Reap(s) ==
    /\ Running /\ cln.pc = "reap" /\ s \in cln.dead
    /\ s \in users /\ Stale(s) = {}
    /\ UpdateState(name[s], "OFFLINE")
    /\ sendQueue' = sendQueue \o Notes(s)
    /\ deleted' = deleted \cup {s}
    /\ cln' = [cln EXCEPT !.pc = "erase", !.cur = s]
    /\ UNCHANGED <<netVars, sessVars, sessionMap, job, recvQueue, fault,
                   name, names, friends, hnd>>

ReapFails(s) ==
    /\ Running /\ cln.pc = "reap" /\ s \in cln.dead
    /\ s \notin users \/ Stale(s) # {}
    /\ Crash("end_iterator")

\* Faulty variant: LeaveCriticalSection is forgotten.
Erase_keepsLock ==
    /\ Running /\ cln.pc = "erase"
    /\ EraseUser(cln.cur)
    /\ cln' = [cln EXCEPT !.dead = @ \ {cln.cur}, !.cur = None]
    /\ UNCHANGED <<coreVars, dbState, hnd, sendQueue>>

\* ... then both maps lose it and the lock is released.
Erase ==
    /\ Running /\ cln.pc = "erase"
    /\ EraseUser(cln.cur)
    /\ LET rest == cln.dead \ {cln.cur} IN
         cln' = IF rest = {} THEN Asleep
                ELSE [cln EXCEPT !.pc = "reap", !.dead = rest, !.cur = None]
    /\ UNCHANGED <<coreVars, dbState, hnd, sendQueue>>

Cleaner ==
    \/ Snapshot \/ ScanEnds \/ Erase
    \/ \E s \in Session : Scan(s) \/ Reap(s) \/ ReapFails(s)

\* Faulty variant: the rows are left as the old process left them.
AllOffline_kept == dbState

\* UPDATE [User] SET State = 2, without a WHERE.
AllOffline ==
    [a \in Account |-> IF dbState[a] = "ABSENT" THEN "ABSENT" ELSE "OFFLINE"]

\* A new process: its UserManager's constructor resets the column.
UserRestart ==
    /\ dbState' = AllOffline
    /\ name' = [s \in Session |-> None]
    /\ names' = [a \in Account |-> None]
    /\ friends' = [s \in Session |-> {}]
    /\ hnd' = HandlerIdle
    /\ cln' = Asleep
    /\ sendQueue' = <<>>
=============================================================================
