---------------------------- MODULE OutgameServer -----------------------------
(***************************************************************************)
(* The server as OutgameServer::Start assembles it: the I/O core, the send *)
(* thread, the packet handler's thread and the cleaner, with the clients   *)
(* it talks to.  A client behaves like the ones under TestClient/: it      *)
(* connects, sends one request (login or join), waits for the answer, and  *)
(* once logged in sends further requests one at a time.                    *)
(***************************************************************************)
EXTENDS UserManager

CONSTANTS
    Existing,   \* accounts that have a row when the server starts
    Drops,      \* phases of its exchange in which a client may disconnect
    Kills       \* may the process be killed and restarted at any time?

Phase == {"idle", "connected", "waiting", "ready", "leaving", "finished"}

ASSUME OptionAssumption == /\ Existing \subseteq Account
                           /\ Drops \subseteq Phase
                           /\ Kills \in BOOLEAN

VARIABLE phase      \* phase[s]: where client s is in its exchange

vars == <<coreVars, userVars, phase>>

TypeOK ==
    /\ CoreTypeOK
    /\ UserTypeOK
    /\ phase \in [Session -> Phase]

Init ==
    /\ CoreInit
    /\ UserInit(Existing)
    /\ phase = [s \in Session |-> "idle"]

-----------------------------------------------------------------------------
(* The clients.                                                            *)

Connect(s) ==
    /\ Running
    /\ conn[s] = "none"
    /\ conn' = [conn EXCEPT ![s] = "up"]
    /\ backlog' = Append(backlog, s)
    /\ phase' = [phase EXCEPT ![s] = "connected"]
    /\ UNCHANGED <<acceptPosted, acceptBuf, inbox, sessVars, sessionMap, deleted, job,
                   recvQueue, fault, userVars>>

Send(s) ==
    /\ Running
    /\ conn[s] = "up"
    /\ \E r \in Request :
         /\ \/ phase[s] = "connected" /\ r \in FirstRequest
            \/ phase[s] = "ready" /\ r \in LaterRequest
         /\ inbox' = [inbox EXCEPT ![s] = r]
         /\ phase' = [phase EXCEPT ![s] = IF r.op = "logout" THEN "leaving"
                                          ELSE "waiting"]
    /\ UNCHANGED <<conn, backlog, acceptPosted, acceptBuf, sessVars, sessionMap, deleted,
                   job, recvQueue, fault, userVars>>

Disconnect(s) ==
    /\ Running
    /\ conn[s] = "up"
    /\ phase[s] \in Drops \cup {"finished"}
    /\ conn' = [conn EXCEPT ![s] = "gone"]
    /\ UNCHANGED <<backlog, acceptPosted, acceptBuf, inbox, sessVars, sessionMap, deleted,
                   job, recvQueue, fault, userVars, phase>>

\* Where an answer takes a client.  What it does not wait for (a notification,
\* an answer that arrives twice) takes it nowhere.
After(msg, ph) ==
    CASE ph = "waiting" /\ msg \in {"granted", "found"}  -> "ready"
      [] ph = "waiting" /\ msg \in {"refused", "joined"} -> "finished"
      [] ph = "leaving" /\ msg = "bye"                    -> "finished"
      [] OTHER                                            -> ph

\* A send completes: the client has read what was in the buffer.
Transmit(s) ==
    /\ SendCompletes(s)
    /\ phase' = [phase EXCEPT ![s] = After(sendBuf[s], @)]
    /\ UNCHANGED userVars

Client(s) == Connect(s) \/ Send(s) \/ Disconnect(s) \/ Transmit(s)

-----------------------------------------------------------------------------
(* OutgameServer::SendThread.  The handlers queue unicasts only.           *)

SendTask ==
    /\ sendQueue # <<>>
    /\ PostSend(Sender, Head(sendQueue).s, Head(sendQueue).msg)
    /\ sendQueue' = Tail(sendQueue)
    /\ UNCHANGED <<dbState, name, names, friends, hnd, cln, phase>>

SendFreed ==
    /\ Idle(Sender) /\ sendQueue # <<>> /\ Head(sendQueue).s \in deleted
    /\ Crash("dangling") /\ UNCHANGED phase

-----------------------------------------------------------------------------

Core == CoreNext /\ UNCHANGED <<userVars, phase>>

App == (Handler \/ Cleaner) /\ UNCHANGED phase

\* The dump is written and the server is started again.
Restart ==
    /\ fault # "none" \/ Kills
    /\ CoreRestart
    /\ UserRestart
    /\ phase' = [s \in Session |-> IF conn[s] = "none" THEN "idle" ELSE "finished"]

\* Every client has come and gone; the threads have nothing left to do.
Quiescent ==
    /\ \A s \in Session : Broken(s)
    /\ \A t \in Thread : job[t] = Wait
    /\ hnd = HandlerIdle /\ recvQueue = <<>> /\ sendQueue = <<>>
    /\ UNCHANGED vars

Next ==
    \/ \E s \in Session : Client(s)
    \/ Core
    \/ App
    \/ SendTask \/ SendFreed
    \/ Restart
    \/ Quiescent

Spec == Init /\ [][Next]_vars

\* Threads are scheduled.  The completion port is a FIFO queue, so a completion
\* is taken however busy the workers are (hence the strong fairness).  A client
\* that has connected sends its request; nobody has to connect, to go on or to
\* leave.
Fairness ==
    /\ \A s \in Session :
         /\ WF_vars(phase[s] = "connected" /\ Send(s))
         /\ WF_vars(Transmit(s))
         /\ WF_vars(Kernel(s) /\ UNCHANGED <<userVars, phase>>)
         /\ SF_vars(\E t \in Worker : Completion(t, s) /\ UNCHANGED <<userVars, phase>>)
    /\ SF_vars(\E t \in Worker : Accept(t) /\ UNCHANGED <<userVars, phase>>)
    /\ \A t \in Thread : WF_vars((Continue(t) \/ UseAfterDelete(t))
                                  /\ UNCHANGED <<userVars, phase>>)
    /\ WF_vars(Handler /\ UNCHANGED phase)
    /\ WF_vars(Cleaner /\ UNCHANGED phase)
    /\ WF_vars(SendTask \/ SendFreed)

FairSpec == Spec /\ Fairness

-----------------------------------------------------------------------------
(* Safety.                                                                 *)

\* No account is logged in on two connections.  AuthenticateUser decides from
\* column State, CreateActiveUser acts on the maps later, and the cleaner
\* writes the column before it erases the maps.
SingleLogin ==
    \A s1, s2 \in users : name[s1] = name[s2] => s1 = s2

\* s_activeUsername is the inverse of s_activeUserMap whenever the lock is
\* free, although insert() silently keeps an entry that is already there.
NamesIndex ==
    \A a \in Account, s \in Session : names[a] = s <=> name[s] = a

\* Column State tells the truth about the rows the server found when it
\* started: it says ONLINE or IN_GAME of the accounts that have a User and of
\* no other, except inside the login of the account and inside the cleaner's
\* critical section.
StateColumnTruthful ==
    /\ \A a \in Existing : InUse(a) => \E s \in users : name[s] = a
    /\ \A s \in users : \/ InUse(name[s])
                        \/ cln.cur = s
                        \/ hnd.pc = "load" /\ hnd.s = s

\* The Session the cleaner deletes is that of a user it erases before it releases
\* the lock, and no login gives a deleted Session a user again.
FreedUserIsErased == deleted \cap users \subseteq {cln.cur}

\* The three properties below are about a session and hold of logins, logouts and joins,
\* where it has one answer on its way at a time.  With a lookup, or with friends that
\* notify it, the completions of two of its sends can make two workers register it, and
\* the second registration crosses its close: then all three fail, and what holds is
\* IntactUnlessTwice.

\* The cleaner deletes a Session only when no table leads to it any more, apart
\* from the user it is about to erase.  Claimed for logins, logouts and joins.
NoFreedSessionInMaps == deleted \cap sessionMap = {} /\ FreedUserIsErased

\* A session in m_sessionMap has an open socket: registering it in one worker
\* and closing it in another do not cross.  Claimed for logins, logouts and joins,
\* where no session is registered twice.
RegisteredIsOpen == \A s \in sessionMap : sock[s] = "open"

\* A user whose socket was closed is INVALID, the one state the cleaner looks
\* for.  Claimed for logins, logouts and joins, where no SetState(MAINTAIN) of a
\* second registration comes after Close.
ClosedUserIsInvalid ==
    \A s \in users : sock[s] = "closed" => state[s] = "INVALID"

\* At most one worker is in RegisterSession for s.
OneRegistration(s) ==
    \A t, u \in Thread : /\ job[t].op = "register" /\ job[t].s = s
                         /\ job[u].op = "register" /\ job[u].s = s
                         => t = u

\* The three properties, of one session.
Intact(s) ==
    /\ s \in sessionMap => sock[s] = "open"
    /\ s \in users /\ sock[s] = "closed" => state[s] = "INVALID"
    /\ s \in deleted => s \notin sessionMap

\* Two workers that register a session at once are the only way to lose it.  Whatever
\* is asked for and whoever is notified, a session that never had two registrations at
\* once is in m_sessionMap only while its socket is open, is INVALID once its user's
\* socket was closed, and is out of the map before it is freed: a state that is set after
\* another worker closed it, or read by the completion of an earlier send, does no harm.
IntactUnlessTwice ==
    \A s \in Session : []OneRegistration(s) => []Intact(s)

\* A client that was told it is logged in, and has not left, is logged in: its
\* User exists and the server has not closed its socket, whatever completions
\* of earlier sends are still to be handled.
GrantedMeansLoggedIn ==
    \A s \in Session : (phase[s] = "ready" /\ conn[s] # "gone") =>
                           (s \in users /\ sock[s] = "open")

-----------------------------------------------------------------------------
(* Refinement: seen from outside, the server is a directory of accounts.   *)

Directory == INSTANCE AccountDirectory WITH
                 holds <- name,
                 left  <- {s \in Session : \/ conn[s] = "gone"
                                           \/ phase[s] \in {"leaving", "finished"}}

\* Every step of the threads is a login of a free account, the departure of a
\* client that left or asked to, the end of the process, or invisible.
ImplementsDirectory == Directory!Spec

-----------------------------------------------------------------------------
(* Liveness.                                                               *)

\* The first request of s is still to be handled and the accept buffer holds
\* another one.
Overwritten(s) ==
    \E i \in DOMAIN recvQueue :
        /\ recvQueue[i].s = s /\ recvQueue[i].req \in FirstRequest
        /\ acceptBuf # recvQueue[i].req

\* A client that stays gets an answer to its login, join or find request, unless
\* the server overwrote it: the one AcceptEx is always posted again, no reply is
\* lost between the queues, and a session is not closed under a reply that is
\* still to be sent.
RequestAnswered ==
    \A s \in Session :
        (phase[s] = "waiting" /\ inbox[s] # None) ~>
            \/ phase[s] \in {"ready", "finished"} \/ conn[s] = "gone"
            \/ Overwritten(s) \/ ~Running

\* A session that was registered before its client disappeared (its receive is
\* in progress, or has just ended) is closed, found by the cleaner and its user
\* reaped, so that the account can be used again.
DeadUserReaped ==
    \A s \in Session :
        (s \in sessionMap \cap users /\ conn[s] = "gone"
                          /\ (recv[s] = "posted" \/ zero[s] > 0)) ~>
            s \notin users \/ ~Running

-----------------------------------------------------------------------------
(* What comments and tests of the repository say, and the code does not do.*)

\* UserManager.h:24 and OutgameServer.cpp:60, the thread that cleans the user
\* list up: a user whose client is gone does not stay in it.
GoneUserIsCleaned ==
    \A s \in Session :
        (s \in users /\ conn[s] = "gone") ~> s \notin users \/ ~Running

\* MemoryPoolTestClient.cpp:340, which reports any other outcome as an error: a
\* logged-in client that asks to log out gets the logout response.
LogoutAnswered ==
    \A s \in Session :
        phase[s] = "leaving" ~>
            phase[s] = "finished" \/ conn[s] = "gone" \/ ~Running

\* UserManager.cpp:401, "check whether it is logged in": a login that is refused
\* because of column State is refused because the account has a User.
RefusedMeansLoggedIn ==
    Packet("login") /\ InUse(Who) => \E s \in users : name[s] = Who

\* UserManager.h:38, "authenticate what was entered at login": a login that is
\* let in is let in to the account its own client gave.
LoginIsOwn ==
    Packet("login") /\ AuthenticateUser(Who) => Who = Head(recvQueue).req.who

\* User.h:44, "always check validity on weak_ptr lock": when a user logs out,
\* every friend it is going to notify has a valid User.
FriendLookupIsValid ==
    Packet("logout") /\ From \in users => Stale(From) = {}

=============================================================================
