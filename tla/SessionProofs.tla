----------------------------- MODULE SessionProofs -----------------------------
(***************************************************************************)
(* What becomes of a session: it is registered, closed and freed, in this   *)
(* order.                                                                   *)
(*                                                                         *)
(* A session's state is a mailbox: a handler sets it, and the completion of *)
(* some send of the session acts on what it finds there, perhaps a send of  *)
(* an earlier answer, perhaps while another worker closes the session.  The *)
(* theorem is that one thing alone can go wrong: two workers that find      *)
(* REGISTER, both register the session, and the second does so after the    *)
(* first registration was undone.                                          *)
(***************************************************************************)
EXTENDS ColumnProofs, AccountProofs

\* A join of s has not reached the handler.
JoinSent(s) == inbox[s] \in Join \/ \E e \in Queue : e.s = s /\ e.req \in Join

\* The first request of s is still to be sent, or to be handled to its end.
Unanswered(s) == LoggingIn(s) \/ JoinSent(s)

\* A connection that sends a join sends one, and gets no user.
JoinOnce ==
    \A s \in Session :
        /\ JoinSent(s) => name[s] = None
        /\ inbox[s] \in Join => \A e \in Queue : e.s = s => e.req \notin Join
        /\ \A i, j \in DOMAIN recvQueue :
              /\ recvQueue[i].s = s /\ recvQueue[i].req \in Join
              /\ recvQueue[j].s = s /\ recvQueue[j].req \in Join
              => i = j

\* A connection that waits to be accepted waits once, and has no socket yet.
Backlogged ==
    /\ \A s \in Session : conn[s] = "none" =>
          sock[s] = "none" /\ \A i \in DOMAIN backlog : backlog[i] # s
    /\ \A i \in DOMAIN backlog : sock[backlog[i]] = "none"
    /\ \A i, j \in DOMAIN backlog : backlog[i] = backlog[j] => i = j

\* No login is of a Session that was deleted.
NeverFreed == \A s \in Session : LoggingIn(s) => s \notin deleted

-----------------------------------------------------------------------------
(* A first request that was answered stays answered.                       *)

LEMMA AnsweredFrame ==
    ASSUME TypeOK, UNCHANGED phase,
           \A s \in Session : inbox'[s] \in {inbox[s], None},
           Queue' \subseteq Queue \cup {[s |-> r, req |-> inbox[r]] : r \in Session},
           hnd'.pc # "idle" => hnd.pc # "idle" /\ hnd'.s = hnd.s
    PROVE  \A s \in Session : /\ LoggingIn(s)' => LoggingIn(s)
                              /\ Unanswered(s)' => Unanswered(s)
<1>0. None \notin Login /\ None \notin Join
  BY ColumnTypes
<1>1. ASSUME NEW s \in Session, LoggingIn(s)' PROVE LoggingIn(s)
  <2>1. Past(s) => Past(s)'
    BY <1>0, PastStays
  <2> QED
    BY <1>1, <2>1 DEF LoggingIn
<1>2. ASSUME NEW s \in Session, JoinSent(s)' PROVE JoinSent(s)
  BY <1>0, <1>2 DEF JoinSent
<1> QED
  BY <1>1, <1>2 DEF Unanswered

\* A step of the core passes one request to the handler, or none.
LEMMA PacketMoves ==
    ASSUME TypeOK, CoreNext
    PROVE  \/ UNCHANGED <<inbox, recvQueue>>
           \/ \E c \in Session : inbox[c] # None /\ ReceivePacket(c)
<1>1. ASSUME NEW t \in Worker, Accept(t) PROVE \E c \in Session : inbox[c] # None /\ ReceivePacket(c)
  <2>1. Head(backlog) \in Session
    BY <1>1 DEF Accept, TypeOK, CoreTypeOK
  <2> QED
    BY <1>1, <2>1 DEF Accept
<1>2. CASE ~\E t \in Worker : Accept(t)
  BY <1>2 DEF CoreNext, Kernel, DataArrives, ReceiveEnds, SendFails, AcceptEmpty, Receive,
     Completion, ZeroBytes, HandleWriteCompletion, Continue, PostReceive, RegisterSession,
     UnregisterSession, Close, UseAfterDelete, netVars
<1> QED
  BY <1>1, <1>2

\* The handler takes requests off the queue.
LEMMA AppPackets ==
    ASSUME App
    PROVE  /\ UNCHANGED <<phase, netVars, sock>>
           /\ (Popped /\ recvQueue # <<>>) \/ UNCHANGED recvQueue
<1>1. UNCHANGED <<phase, netVars, sock>>
  BY DEF App, Handler, DropPacket, RefuseLogin, AcceptLogin, CreateActiveUser, LoadFriends,
     LoadFails, AnnounceLogin, GrantLogin, Grant, LoginFails, HandleLogout, LogoutFails,
     HandleJoin, HandleFind, FindFails, Cleaner, Snapshot, Scan, ScanEnds, Reap, ReapFails,
     Erase, CleanerOnly, Crash, coreVars, sessVars
<1>2. (Popped /\ recvQueue # <<>>) \/ UNCHANGED recvQueue
  BY DEF App, Handler, DropPacket, RefuseLogin, AcceptLogin, CreateActiveUser, LoadFriends,
     LoadFails, AnnounceLogin, GrantLogin, Grant, LoginFails, HandleLogout, LogoutFails,
     HandleJoin, HandleFind, FindFails, Cleaner, Snapshot, Scan, ScanEnds, Reap, ReapFails,
     Erase, CleanerOnly, Crash, coreVars, Packet
<1> QED
  BY <1>1, <1>2

\* Users are made by CreateActiveUser only, and erased one at a time.
LEMMA NameGoes ==
    ASSUME [Next]_vars, ~CreateActiveUser, ~Restart
    PROVE  UNCHANGED name \/ \E f : name' = [name EXCEPT ![f] = None]
<1>1. UNCHANGED name \/ EraseUser(From) \/ EraseUser(cln.cur)
  BY DEF Next, Client, Connect, Send, Disconnect, Transmit, Core, App, Handler,
     DropPacket, RefuseLogin, AcceptLogin, LoadFriends, LoadFails, AnnounceLogin,
     GrantLogin, Grant, LoginFails, HandleLogout, LogoutFails, HandleJoin, HandleFind,
     FindFails, Cleaner, Snapshot, Scan, ScanEnds, Reap, ReapFails, Erase, CleanerOnly,
     Crash, SendTask, SendFreed, Quiescent, vars, userVars
<1> QED
  BY <1>1 DEF EraseUser

LEMMA NamesGo ==
    ASSUME TypeOK, [Next]_vars, ~CreateActiveUser
    PROVE  \A s \in Session : name'[s] \in {name[s], None}
<1>0. name \in [Session -> Account \cup {None}]
  BY LoginTypes
<1>1. CASE Restart
  BY <1>1 DEF Restart, UserRestart
<1>2. CASE ~Restart
  BY <1>0, <1>2, NameGoes
<1> QED
  BY <1>1, <1>2

\* Packets move from the inbox to the queue, and leave it.
LEMMA CoreQueue ==
    ASSUME TypeOK, CoreNext
    PROVE  /\ \A s \in Session : inbox'[s] \in {inbox[s], None}
           /\ Queue' \subseteq Queue \cup {[s |-> r, req |-> inbox[r]] : r \in Session}
<1>0. inbox \in [Session -> Request \cup {None}]
  BY ColumnTypes
<1>1. CASE UNCHANGED <<inbox, recvQueue>>
  BY <1>1 DEF Queue
<1>2. ASSUME NEW c \in Session, inbox[c] # None, ReceivePacket(c)
      PROVE  /\ \A s \in Session : inbox'[s] \in {inbox[s], None}
             /\ Queue' \subseteq Queue \cup {[s |-> r, req |-> inbox[r]] : r \in Session}
  <2>1. Queue' = Queue \cup {[s |-> c, req |-> inbox[c]]}
    BY <1>2, QueueAppend
  <2> QED
    BY <1>0, <1>2, <2>1 DEF ReceivePacket
<1> QED
  BY <1>1, <1>2, PacketMoves

LEMMA AnsweredStays ==
    ASSUME TypeOK, LoginInv, LoginFirst, [Next]_vars, ~Restart
    PROVE  \A s \in Session : /\ LoggingIn(s)' => LoggingIn(s)
                              /\ Unanswered(s)' => Unanswered(s)
<1>1. ASSUME NEW c \in Session, Client(c)
      PROVE  \A s \in Session : /\ LoggingIn(s)' => LoggingIn(s)
                                /\ Unanswered(s)' => Unanswered(s)
  <2>0. /\ phase \in [Session -> Phase] /\ inbox \in [Session -> Request \cup {None}]
        /\ UNCHANGED <<recvQueue, Queue, hnd>>
    <3>1. UNCHANGED <<recvQueue, hnd>>
      BY <1>1 DEF Client, Connect, Send, Disconnect, Transmit, SendCompletes, userVars
    <3> QED
      BY <3>1, ColumnTypes DEF Queue
  <2>1. CASE Send(c)
    <3>1. /\ phase[c] = "connected" \/ (inbox'[c] \notin Login /\ inbox'[c] \notin Join)
          /\ phase'[c] \notin {"idle", "connected"}
          /\ \A s \in Session \ {c} : inbox'[s] = inbox[s] /\ phase'[s] = phase[s]
      BY <2>0, <2>1 DEF Send, LaterRequest, Login, Join
    <3> QED
      BY <2>0, <3>1 DEF Unanswered, LoggingIn, Past, JoinSent
  <2>2. CASE ~Send(c)
    <3>1. UNCHANGED inbox
      BY <1>1, <2>2 DEF Client, Connect, Disconnect, Transmit, SendCompletes, netVars
    <3>2. \A s \in Session : phase'[s] \in {"idle", "connected"} => phase[s] \in {"idle", "connected"}
      <4>1. CASE Connect(c)
        BY <2>0, <4>1 DEF Connect, LoginInv, OneLogin
      <4>2. CASE Disconnect(c) \/ Transmit(c)
        BY <2>0, <4>2 DEF Disconnect, Transmit, After
      <4> QED
        BY <1>1, <2>2, <4>1, <4>2 DEF Client
    <3> QED
      BY <2>0, <3>1, <3>2 DEF Unanswered, LoggingIn, Past, JoinSent
  <2> QED
    BY <2>1, <2>2
<1>2. CASE Core
  BY <1>2, CoreQueue, AnsweredFrame DEF Core, userVars
<1>3. CASE AcceptLogin /\ UNCHANGED phase
  <2>1. PICK f : f = From
    OBVIOUS
  <2>2. /\ Queue' \subseteq Queue /\ UNCHANGED inbox
        /\ hnd' = [pc |-> "create", s |-> f, who |-> Who]
        /\ \E e \in Queue : e.s = f /\ e.req \in Login
    <3>1. Head(recvQueue) \in Queue /\ Head(recvQueue) \in RecvItem /\ Queue' \subseteq Queue
      BY <1>3, QueueTail DEF AcceptLogin, Packet
    <3> QED
      BY <1>3, <2>1, <3>1 DEF AcceptLogin, netVars, Packet, From, RecvItem, Login
  <2>3. LoggingIn(f)
    BY <2>2 DEF LoggingIn, Past
  <2> QED
    BY <1>3, <2>2, <2>3 DEF Unanswered, LoggingIn, Past, JoinSent
<1>4. CASE App /\ ~AcceptLogin
  <2>1. /\ Queue' \subseteq Queue /\ UNCHANGED <<phase, inbox>>
    BY <1>4, AppPackets, QueueTail DEF Queue, netVars
  <2>2. hnd'.pc # "idle" => hnd.pc # "idle" /\ hnd'.s = hnd.s
    <3>1. hnd.pc # "idle" => hnd \in Busy
      BY ColumnTypes DEF HandlerIdle
    <3>2. CASE CreateActiveUser \/ LoadFriends \/ LoadFails
      <4>1. /\ hnd.pc # "idle"
            /\ \E pc \in {"load", "announce", "reply"} : hnd' = [hnd EXCEPT !.pc = pc]
        BY <3>2 DEF CreateActiveUser, LoadFriends, LoadFails
      <4> QED
        BY <3>1, <4>1 DEF Busy
    <3>3. CASE ~CreateActiveUser /\ ~LoadFriends /\ ~LoadFails
      <4>1. UNCHANGED hnd \/ hnd' = HandlerIdle
        BY <1>4, <3>3 DEF App, Handler, DropPacket, RefuseLogin, AnnounceLogin, GrantLogin,
           Grant, LoginFails, HandleLogout, LogoutFails, HandleJoin, HandleFind, FindFails,
           Cleaner, Snapshot, Scan, ScanEnds, Reap, ReapFails, Erase, CleanerOnly, Crash,
           userVars
      <4> QED
        BY <4>1 DEF HandlerIdle
    <3> QED
      BY <3>2, <3>3
  <2> QED
    BY <2>1, <2>2, AnsweredFrame
<1>5. CASE SendTask \/ SendFreed \/ UNCHANGED vars
  <2>1. UNCHANGED <<phase, inbox, recvQueue, Queue, hnd>>
    BY <1>5 DEF SendTask, SendFreed, PostSend, Crash, vars, coreVars, netVars, userVars, Queue
  <2> QED
    BY <2>1 DEF Unanswered, LoggingIn, Past, JoinSent
<1> QED
  BY <1>1, <1>2, <1>3, <1>4, <1>5 DEF Next, App, Quiescent

-----------------------------------------------------------------------------
(* Freed sessions.                                                         *)

\* The cleaner deletes, and nobody else.
LEMMA DeletedKept ==
    ASSUME [Next]_vars, ~Restart, ~\E c \in Session : Reap(c)
    PROVE  UNCHANGED deleted
BY DEF Next, Client, Connect, Send, Disconnect, Transmit, SendCompletes, Core, CoreNext,
   Kernel, DataArrives, ReceiveEnds, SendFails, Accept, AcceptEmpty, Completion, Receive,
   ZeroBytes, HandleWriteCompletion, Continue, PostReceive, RegisterSession,
   UnregisterSession, Close, UseAfterDelete, App, Handler, DropPacket, RefuseLogin,
   AcceptLogin, CreateActiveUser, LoadFriends, LoadFails, AnnounceLogin, GrantLogin, Grant,
   LoginFails, HandleLogout, LogoutFails, HandleJoin, HandleFind, FindFails, Cleaner,
   Snapshot, Scan, ScanEnds, ReapFails, Erase, CleanerOnly, Crash, SendTask, SendFreed,
   PostSend, Quiescent, vars, coreVars

\* Only the cleaner deletes, and what it has found dead is not logging in.
LEMMA StepNeverFreed ==
    ASSUME TypeOK, LoginInv, LoginFirst, NeverFreed, [Next]_vars
    PROVE  NeverFreed'
<1>1. CASE Restart
  BY <1>1 DEF Restart, CoreRestart, NeverFreed
<1>2. ASSUME ~Restart PROVE \A s \in Session : LoggingIn(s)' => LoggingIn(s)
  BY <1>2, AnsweredStays
<1>3. ASSUME NEW c \in Session, Reap(c) PROVE \A s \in Session : LoggingIn(s) => s \notin deleted'
  BY <1>3 DEF Reap, NeverFreed, LoginFirst, Untouched, New
<1>4. CASE ~Restart /\ ~\E c \in Session : Reap(c)
  <2>1. UNCHANGED deleted
    BY <1>4, DeletedKept
  <2> QED
    BY <1>2, <1>4, <2>1 DEF NeverFreed
<1>5. CASE ~Restart /\ \E c \in Session : Reap(c)
  BY <1>2, <1>3, <1>5 DEF NeverFreed
<1> QED
  BY <1>1, <1>4, <1>5

\* The cleaner holds the lock from the deletion to the erasure, so no login comes
\* between them; and a login inserts the session of nobody but itself.
LEMMA StepUserErased ==
    ASSUME TypeOK, LoginInv, LoginFirst, NeverFreed, FreedUserIsErased, [Next]_vars
    PROVE  FreedUserIsErased'
<1>0. /\ name \in [Session -> Account \cup {None}]
      /\ cln.cur # None <=> cln.pc = "erase"
      /\ cln.cur \in Session \cup {None} /\ None \notin Session
  BY LoginTypes
<1>1. CASE Restart
  BY <1>1 DEF Restart, CoreRestart, FreedUserIsErased
<1>2. ASSUME NEW c \in Session, Reap(c) PROVE FreedUserIsErased'
  <2>1. /\ cln.cur = None /\ deleted' = deleted \cup {c} /\ UNCHANGED name
        /\ cln'.cur = c
    BY <1>0, <1>2 DEF Reap, TypeOK, UserTypeOK
  <2> QED
    BY <1>0, <2>1 DEF FreedUserIsErased, users
<1>3. CASE Erase
  <2>1. UNCHANGED deleted /\ name' = [name EXCEPT ![cln.cur] = None]
    BY <1>3 DEF Erase, EraseUser, coreVars
  <2> QED
    BY <1>0, <2>1 DEF FreedUserIsErased, users
<1>4. CASE CreateActiveUser
  <2>1. /\ UNCHANGED <<deleted, cln>> /\ hnd.pc # "idle" /\ hnd.s \in Session
        /\ \A s \in Session \ {hnd.s} : name'[s] = name[s]
    BY <1>0, <1>4, ColumnTypes DEF CreateActiveUser, InsertUser, coreVars
  <2>2. hnd.s \notin deleted
    BY <2>1 DEF NeverFreed, LoggingIn
  <2> QED
    BY <2>1, <2>2 DEF FreedUserIsErased, users
<1>5. CASE ~Restart /\ ~Erase /\ ~CreateActiveUser /\ ~\E c \in Session : Reap(c)
  <2>1. UNCHANGED deleted
    BY <1>5, DeletedKept
  <2>2. cln'.cur = cln.cur
    BY <1>5 DEF Next, Client, Connect, Send, Disconnect, Transmit, Core, App, Handler,
       DropPacket, RefuseLogin, AcceptLogin, LoadFriends, LoadFails, AnnounceLogin,
       GrantLogin, Grant, LoginFails, HandleLogout, LogoutFails, HandleJoin, HandleFind,
       FindFails, Cleaner, Snapshot, Scan, ScanEnds, ReapFails, CleanerOnly, Crash, SendTask,
       SendFreed, Quiescent, vars, userVars, TypeOK, UserTypeOK
  <2>3. \A s \in Session : name'[s] \in {name[s], None}
    BY <1>5, NamesGo
  <2> QED
    BY <2>1, <2>2, <2>3 DEF FreedUserIsErased, users
<1> QED
  BY <1>1, <1>2, <1>3, <1>4, <1>5

\* A Session that was deleted has no user, but for the one that is being erased,
\* whatever requests, answers and friends there are.
THEOREM FreedUsersErased == Spec => []FreedUserIsErased
<1>1. TypeOK /\ LoginInv /\ LoginFirst /\ [Next]_vars => LoginFirst'
  BY StepFirst
<1>2. /\ TypeOK /\ LoginInv /\ LoginFirst /\ NeverFreed /\ FreedUserIsErased /\ [Next]_vars
         => NeverFreed' /\ FreedUserIsErased'
  BY StepNeverFreed, StepUserErased
<1>3. Init => LoginFirst
  BY StartAsSpecified
<1>4. Init => NeverFreed /\ FreedUserIsErased
  BY DEF Init, CoreInit, NeverFreed, FreedUserIsErased
<1> QED
  BY <1>1, <1>2, <1>3, <1>4, Typing, LoginInvariant, PTL DEF Spec

-----------------------------------------------------------------------------
(* One session.                                                            *)

\* Some thread is about to register s, or to close it.
Registering(s) == \E t \in Thread : job[t].op = "register" /\ job[t].s = s
Closes(s)      == \E t \in Thread : job[t].op \in {"close", "eofclose"} /\ job[t].s = s

\* Nothing has been done to s.
Blank(s) ==
    /\ state[s] = "MAINTAIN" /\ s \notin sessionMap /\ sock[s] # "closed"
    /\ ~Registering(s) /\ ~Closes(s)

Sane(s) ==
    /\ Unanswered(s) => Blank(s)
    /\ state[s] = "REGISTER" \/ Registering(s) =>
          sock[s] = "open" /\ s \notin sessionMap /\ ~Closes(s)
    /\ s \in sessionMap => sock[s] = "open" /\ ~Closes(s)
    /\ state[s] = "CLOSE" => s \notin sessionMap /\ ~Registering(s)
    /\ state[s] = "INVALID" \/ s \in cln.dead \/ s \in deleted => sock[s] = "closed"
    /\ sock[s] = "closed" /\ name[s] # None => state[s] = "INVALID"

\* A session without a socket sends nothing and nobody registers or closes it.
Inert(s) ==
    /\ posted[s] = 0 /\ written[s] = 0 /\ s \notin sessionMap
    /\ ~Registering(s) /\ ~Closes(s)

Unopened == \A s \in Session : sock[s] = "none" => Inert(s)

Orderly == JoinOnce /\ Backlogged /\ Unopened

\* Jobs that do something to a session.
Weighty == {"register", "close", "eofclose"}

\* No thread is given such a job for s.
NoNewJob(s) ==
    \A t \in Thread : job'[t].s # s \/ job'[t] = job[t] \/ job'[t].op \notin Weighty

\* A step that gives s nothing to do, and takes nothing back.
Quiet(s) ==
    /\ state'[s] = state[s] /\ sock'[s] = sock[s]
    /\ s \in sessionMap' => s \in sessionMap
    /\ NoNewJob(s)
    /\ Unanswered(s)' => Unanswered(s)
    /\ s \in cln'.dead => s \in cln.dead \/ state[s] = "INVALID"
    /\ s \in deleted' => s \in deleted \/ s \in cln.dead
    /\ name'[s] \in {name[s], None}

LEMMA SessionTypes ==
    ASSUME TypeOK
    PROVE  /\ state \in [Session -> SessionState]
           /\ sock \in [Session -> {"none", "open", "closed"}]
           /\ conn \in [Session -> {"none", "up", "gone", "reset"}]
           /\ posted \in [Session -> Nat] /\ written \in [Session -> Nat]
           /\ job \in Jobs /\ Worker \subseteq Thread /\ Sender \in Thread
           /\ backlog \in Seq(Session)
           /\ name \in [Session -> Account \cup {None}]
BY DEF TypeOK, CoreTypeOK, UserTypeOK, Jobs, Thread

LEMMA JobsStay ==
    ASSUME NEW s \in Session, NoNewJob(s)
    PROVE  (Registering(s)' => Registering(s)) /\ (Closes(s)' => Closes(s))
BY DEF NoNewJob, Weighty, Registering, Closes

LEMMA QuietKeeps ==
    ASSUME NEW s \in Session, Sane(s), Quiet(s)
    PROVE  Sane(s)'
<1>1. (Registering(s)' => Registering(s)) /\ (Closes(s)' => Closes(s))
  BY JobsStay DEF Quiet
<1>2. Blank(s) => Blank(s)'
  BY <1>1 DEF Quiet, Blank
<1> QED
  BY <1>1, <1>2 DEF Quiet, Sane

\* A thread that ends what it does, or goes on with session c, gives no other session a
\* job, and none to c unless the job says so.
LEMMA OtherJobs ==
    ASSUME TypeOK, NEW t \in Thread, NEW c \in Session, NEW s \in Session,
           \/ Done(t) \/ UNCHANGED job
           \/ \E op \in Op : Goto(t, op, c) /\ (s # c \/ op \notin Weighty)
    PROVE  NoNewJob(s)
<1>1. CASE Done(t) \/ UNCHANGED job
  BY <1>1, SessionTypes DEF Done, Jobs, Wait, NoNewJob, Weighty
<1>2. ASSUME NEW op \in Op, Goto(t, op, c), s # c \/ op \notin Weighty PROVE NoNewJob(s)
  BY <1>2, SessionTypes DEF Goto, Jobs, NoNewJob
<1> QED
  BY <1>1, <1>2

\* The job a thread is given.
LEMMA JobGiven ==
    ASSUME TypeOK, NEW t \in Thread, NEW op \in Op, NEW c \in Session, Goto(t, op, c)
    PROVE  /\ job'[t] = [op |-> op, s |-> c]
           /\ \A u \in Thread : u # t => job'[u] = job[u]
BY SessionTypes DEF Goto, Jobs

\* A step of the core that leaves session s as it is.
LEMMA CoreQuiet ==
    ASSUME UNCHANGED <<userVars, deleted>>, NEW s \in Session,
           Unanswered(s)' => Unanswered(s),
           state'[s] = state[s], sock'[s] = sock[s],
           s \in sessionMap' => s \in sessionMap,
           NoNewJob(s)
    PROVE  Quiet(s)
BY DEF Quiet, userVars

-----------------------------------------------------------------------------
(* The core.                                                               *)

\* A completion begins what the state says: it registers a session that is in no
\* table, and closes one that is in none and nobody registers.
LEMMA WriteCompletionSane ==
    ASSUME TypeOK, NEW s \in Session, Sane(s), UNCHANGED <<userVars, phase>>,
           Unanswered(s)' => Unanswered(s),
           NEW t \in Worker, NEW c \in Session, HandleWriteCompletion(t, c)
    PROVE  Sane(s)'
<1>0. /\ t \in Thread
      /\ UNCHANGED <<name, cln, deleted, state, sock, sessionMap>>
  BY SessionTypes DEF HandleWriteCompletion, userVars
<1>1. CASE s # c \/ state[c] \notin {"REGISTER", "CLOSE"}
  <2>1. /\ WriteCompleted("REGISTER") \in Op /\ WriteCompleted("CLOSE") \in Op
        /\ WriteCompleted("UNREGISTER") \in Op \ Weighty
    BY DEF WriteCompleted, Op, Weighty
  <2>2. \/ UNCHANGED job
        \/ \E op \in Op : Goto(t, op, c) /\ (s # c \/ op \notin Weighty)
    BY <1>1, <2>1 DEF HandleWriteCompletion
  <2>3. NoNewJob(s)
    BY <1>0, <2>2, OtherJobs
  <2> QED
    BY <1>0, <2>3, CoreQuiet, QuietKeeps
<1>2. CASE s = c /\ state[c] = "REGISTER"
  <2>1. Goto(t, "register", c)
    BY <1>2 DEF HandleWriteCompletion, WriteCompleted
  <2>2. /\ \A u \in Thread : u # t => job'[u] = job[u]
        /\ job'[t] = [op |-> "register", s |-> c]
    BY <1>0, <2>1, JobGiven DEF Op
  <2>3. sock[s] = "open" /\ s \notin sessionMap /\ ~Closes(s) /\ ~Unanswered(s)
    BY <1>2 DEF Sane, Blank
  <2>4. ~Closes(s)'
    BY <2>2, <2>3 DEF Closes
  <2> QED
    BY <1>0, <1>2, <2>3, <2>4 DEF Sane
<1>3. CASE s = c /\ state[c] = "CLOSE"
  <2>1. Goto(t, "close", c)
    BY <1>3 DEF HandleWriteCompletion, WriteCompleted
  <2>2. /\ \A u \in Thread : u # t => job'[u] = job[u]
        /\ job'[t] = [op |-> "close", s |-> c]
    BY <1>0, <2>1, JobGiven DEF Op
  <2>3. s \notin sessionMap /\ ~Registering(s) /\ ~Unanswered(s)
    BY <1>3 DEF Sane, Blank
  <2>4. ~Registering(s)'
    BY <2>2, <2>3 DEF Registering
  <2> QED
    BY <1>0, <1>3, <2>3, <2>4 DEF Sane
<1> QED
  BY <1>1, <1>2, <1>3

\* A session is registered while its socket is open and nobody is closing it; and nobody
\* else registers it, so that it can leave the table again.
LEMMA RegisterSane ==
    ASSUME TypeOK, NEW s \in Session, Sane(s), OneRegistration(s),
           UNCHANGED <<userVars, phase>>, Unanswered(s)' => Unanswered(s),
           NEW t \in Thread, RegisterSession(t)
    PROVE  Sane(s)'
<1>1. PICK c \in Session : c = job[t].s
  BY JobTyped DEF RegisterSession, TypeOK
<1>2. /\ job[t].op = "register" /\ Done(t)
      /\ UNCHANGED <<name, cln, deleted, sock>>
      /\ state' = [state EXCEPT ![c] = "MAINTAIN"] /\ sessionMap' = sessionMap \cup {c}
  BY <1>1 DEF RegisterSession, userVars
<1>3. CASE s # c
  <2>1. NoNewJob(s)
    BY <1>2, OtherJobs
  <2>2. state'[s] = state[s]
    BY <1>2, <1>3, SessionTypes
  <2> QED
    BY <1>2, <1>3, <2>1, <2>2, CoreQuiet, QuietKeeps
<1>4. CASE s = c
  <2>1. sock[s] = "open" /\ ~Closes(s) /\ ~Unanswered(s)
    BY <1>1, <1>2, <1>4 DEF Sane, Blank, Registering
  <2>2. /\ job'[t] = Wait /\ \A u \in Thread : u # t => job'[u] = job[u]
    BY <1>2, SessionTypes DEF Done, Jobs
  <2>3. ~Registering(s)' /\ ~Closes(s)'
    BY <1>1, <1>2, <1>4, <2>1, <2>2 DEF Registering, Closes, OneRegistration, Wait
  <2>4. state'[s] = "MAINTAIN" /\ s \notin cln.dead /\ s \notin deleted
    BY <1>2, <1>4, <2>1, SessionTypes DEF Sane
  <2> QED
    BY <1>2, <2>1, <2>3, <2>4 DEF Sane
<1> QED
  BY <1>3, <1>4

\* A session that leaves the table is not about to enter it again.
LEMMA UnregisterSane ==
    ASSUME TypeOK, NEW s \in Session, Sane(s), UNCHANGED <<userVars, phase>>,
           Unanswered(s)' => Unanswered(s),
           NEW t \in Thread, UnregisterSession(t)
    PROVE  Sane(s)'
<1>1. PICK c \in Session : c = job[t].s
  BY JobTyped DEF UnregisterSession, TypeOK
<1>2. /\ UNCHANGED <<name, cln, deleted, state, sock>>
      /\ sessionMap' = sessionMap \ {c}
  BY <1>1 DEF UnregisterSession, MapWithout, sessVars, userVars
<1>3. CASE s # c \/ c \notin sessionMap
  <2>1. \/ Done(t)
        \/ \E op \in Op : Goto(t, op, c) /\ (s # c \/ op \notin Weighty)
    BY <1>1, <1>3 DEF UnregisterSession, Op, Weighty
  <2>2. NoNewJob(s)
    BY <2>1, OtherJobs
  <2> QED
    BY <1>2, <2>2, CoreQuiet, QuietKeeps
<1>4. CASE s = c /\ c \in sessionMap
  <2>1. PICK op \in {"close", "eofclose"} : Goto(t, op, c)
    BY <1>1, <1>4 DEF UnregisterSession
  <2>2. /\ \A u \in Thread : u # t => job'[u] = job[u]
        /\ job'[t] = [op |-> op, s |-> c]
    BY <2>1, JobGiven DEF Op
  <2>3. sock[s] = "open" /\ state[s] # "REGISTER" /\ ~Registering(s) /\ ~Unanswered(s)
    BY <1>4 DEF Sane, Blank
  <2>4. ~Registering(s)'
    BY <2>2, <2>3 DEF Registering
  <2> QED
    BY <1>2, <1>4, <2>3, <2>4 DEF Sane
<1> QED
  BY <1>3, <1>4

\* A session that is closed is in no table, and its state says so for good.
LEMMA CloseSane ==
    ASSUME TypeOK, NEW s \in Session, Sane(s), UNCHANGED <<userVars, phase>>,
           Unanswered(s)' => Unanswered(s),
           NEW t \in Thread, Close(t)
    PROVE  Sane(s)'
<1>1. PICK c \in Session : c = job[t].s
  BY JobTyped DEF Close, TypeOK
<1>2. /\ job[t].op \in {"close", "eofclose"}
      /\ Done(t) \/ Goto(t, "unregister", c)
      /\ UNCHANGED <<name, cln, deleted, sessionMap>>
      /\ sock' = [sock EXCEPT ![c] = "closed"] /\ state' = [state EXCEPT ![c] = "INVALID"]
  BY <1>1 DEF Close, CloseSession, CloseSocket, userVars
<1>3. NoNewJob(s)
  BY <1>2, OtherJobs DEF Op, Weighty
<1>4. CASE s # c
  <2>1. state'[s] = state[s] /\ sock'[s] = sock[s]
    BY <1>2, <1>4, SessionTypes
  <2> QED
    BY <1>2, <1>3, <2>1, CoreQuiet, QuietKeeps
<1>5. CASE s = c
  <2>1. s \notin sessionMap /\ ~Registering(s) /\ ~Unanswered(s)
    BY <1>1, <1>2, <1>5 DEF Sane, Blank, Closes
  <2>2. ~Registering(s)'
    BY <1>3, <2>1, JobsStay
  <2>3. sock'[s] = "closed" /\ state'[s] = "INVALID"
    BY <1>2, <1>5, SessionTypes
  <2> QED
    BY <1>2, <2>1, <2>2, <2>3 DEF Sane
<1> QED
  BY <1>4, <1>5

\* A connection that is accepted had no socket, so nothing was done to its session.
LEMMA AcceptSane ==
    ASSUME TypeOK, Backlogged, NEW s \in Session, Sane(s), UNCHANGED <<userVars, phase>>,
           Unanswered(s)' => Unanswered(s),
           NEW t \in Worker, Accept(t)
    PROVE  Sane(s)'
<1>1. PICK c \in Session : c = Head(backlog) /\ sock[c] = "none"
  <2>1. backlog \in Seq(Session) /\ backlog # <<>>
    BY SessionTypes DEF Accept
  <2>2. 1 \in DOMAIN backlog /\ Head(backlog) = backlog[1] /\ Head(backlog) \in Session
    BY <2>1, TailElements
  <2> QED
    BY <2>2 DEF Backlogged
<1>2. /\ UNCHANGED <<name, cln, deleted, state, sessionMap>>
      /\ sock' = [sock EXCEPT ![c] = "open"]
      /\ Goto(t, "accept", c)
  BY <1>1 DEF Accept, userVars
<1>3. NoNewJob(s)
  BY <1>2, OtherJobs, SessionTypes DEF Op, Weighty
<1>4. CASE s # c
  BY <1>2, <1>3, <1>4, SessionTypes, CoreQuiet, QuietKeeps
<1>5. CASE s = c
  <2>1. (Registering(s)' => Registering(s)) /\ (Closes(s)' => Closes(s))
    BY <1>3, JobsStay
  <2>2. /\ ~Registering(s) /\ s \notin sessionMap /\ s \notin cln.dead /\ s \notin deleted
        /\ state[s] \notin {"REGISTER", "INVALID"}
    BY <1>1, <1>5 DEF Sane
  <2>3. sock'[s] = "open"
    BY <1>2, <1>5, SessionTypes
  <2> QED
    BY <1>2, <2>1, <2>2, <2>3 DEF Sane, Blank
<1> QED
  BY <1>4, <1>5

LEMMA CoreSane ==
    ASSUME TypeOK, Backlogged, NEW s \in Session, Sane(s), OneRegistration(s),
           CoreNext, UNCHANGED <<userVars, phase>>,
           Unanswered(s)' => Unanswered(s)
    PROVE  Sane(s)'
\* A step that gives a thread nothing of weight to do.
<1>h. ASSUME NEW t \in Thread, NEW c \in Session,
             UNCHANGED <<deleted, state, sock, sessionMap>>,
             \/ Done(t) \/ UNCHANGED job
             \/ \E op \in {"receive", "eof", "unregister"} : Goto(t, op, c)
      PROVE  Sane(s)'
  <2>1. NoNewJob(s)
    BY <1>h, OtherJobs DEF Op, Weighty
  <2> QED
    BY <1>h, <2>1, CoreQuiet, QuietKeeps
<1>0. Worker \subseteq Thread /\ Sender \in Thread
  BY SessionTypes
<1>1. ASSUME NEW c \in Session, Kernel(c) PROVE Sane(s)'
  <2>1. UNCHANGED <<deleted, state, sock, sessionMap, job>>
    BY <1>1 DEF Kernel, DataArrives, ReceiveEnds, SendFails
  <2> QED
    BY <1>0, <1>h, <2>1
<1>2. ASSUME NEW t \in Worker, Accept(t) PROVE Sane(s)'
  BY <1>2, AcceptSane
<1>3. ASSUME NEW t \in Worker, AcceptEmpty(t) PROVE Sane(s)'
  <2>1. UNCHANGED <<deleted, state, sock, sessionMap, job>>
    BY <1>3 DEF AcceptEmpty, sessVars
  <2> QED
    BY <1>0, <1>h, <2>1
<1>4. ASSUME NEW t \in Worker, NEW c \in Session, Receive(t, c) PROVE Sane(s)'
  BY <1>0, <1>4, <1>h DEF Receive
<1>5. ASSUME NEW t \in Worker, NEW c \in Session, ZeroBytes(t, c) PROVE Sane(s)'
  BY <1>0, <1>5, <1>h DEF ZeroBytes
<1>6. ASSUME NEW t \in Thread, PostReceive(t) PROVE Sane(s)'
  <2>1. job[t].s \in Session
    BY <1>6, JobTyped DEF PostReceive, TypeOK
  <2> QED
    BY <1>6, <1>h, <2>1 DEF PostReceive
<1>7. ASSUME NEW t \in Thread, UseAfterDelete(t) PROVE Sane(s)'
  <2>1. UNCHANGED <<deleted, state, sock, sessionMap, job>>
    BY <1>7 DEF UseAfterDelete, sessVars
  <2> QED
    BY <1>0, <1>h, <2>1
<1>8. ASSUME NEW t \in Worker, NEW c \in Session, HandleWriteCompletion(t, c) PROVE Sane(s)'
  BY <1>8, WriteCompletionSane
<1>9. ASSUME NEW t \in Thread, RegisterSession(t) PROVE Sane(s)'
  BY <1>9, RegisterSane
<1>10. ASSUME NEW t \in Thread, UnregisterSession(t) PROVE Sane(s)'
  BY <1>10, UnregisterSane
<1>11. ASSUME NEW t \in Thread, Close(t) PROVE Sane(s)'
  BY <1>11, CloseSane
<1> QED
  BY <1>1, <1>2, <1>3, <1>4, <1>5, <1>6, <1>7, <1>8, <1>9, <1>10, <1>11
  DEF CoreNext, Completion, Continue

-----------------------------------------------------------------------------
(* The handler.                                                            *)

\* A join that is handled is the only one its connection sends.
LEMMA JoinIsHandled ==
    ASSUME TypeOK, LoginFirst, JoinOnce, Packet("join"), Popped, NEW f, f = From,
           UNCHANGED inbox
    PROVE  f \in Session /\ JoinSent(f) /\ ~LoggingIn(f) /\ ~JoinSent(f)'
<1> DEFINE n == Len(recvQueue)
<1>1. /\ n \in Nat /\ 1 \in 1..n /\ DOMAIN recvQueue = 1..n
      /\ Head(recvQueue) = recvQueue[1] /\ recvQueue[1] \in RecvItem
      /\ DOMAIN recvQueue' = 1..(n - 1)
      /\ \A i \in 1..(n - 1) : i + 1 \in 1..n /\ recvQueue'[i] = recvQueue[i + 1]
  <2>1. recvQueue \in Seq(RecvItem) /\ recvQueue # <<>>
    BY LoginTypes DEF Packet
  <2> QED
    BY <2>1, TailElements DEF Popped
<1>2. recvQueue[1].req \in Join /\ f = recvQueue[1].s /\ f \in Session
  BY <1>1 DEF Packet, From, RecvItem, Join
<1>3. JoinSent(f) /\ inbox[f] \notin Join
  BY <1>1, <1>2 DEF JoinSent, JoinOnce, Queue
<1>4. \A i \in DOMAIN recvQueue' : recvQueue'[i].s = f => recvQueue'[i].req \notin Join
  <2>1. ASSUME NEW i \in DOMAIN recvQueue', recvQueue'[i].s = f, recvQueue'[i].req \in Join
        PROVE  FALSE
    <3>1. i \in 1..(n - 1) /\ i + 1 \in 1..n /\ recvQueue'[i] = recvQueue[i + 1] /\ i + 1 # 1
      BY <1>1, <2>1
    <3> QED
      BY <1>1, <1>2, <2>1, <3>1 DEF JoinOnce
  <2> QED
    BY <2>1
<1>5. ~JoinSent(f)'
  BY <1>3, <1>4 DEF JoinSent, Queue
<1>6. ~LoggingIn(f)
  BY <1>2, <1>3 DEF LoginFirst, FirstOnce, JoinSent
<1> QED
  BY <1>2, <1>3, <1>5, <1>6

\* A step of the handler or the cleaner that leaves the state of s as it is.
LEMMA AppQuiet ==
    ASSUME UNCHANGED <<sock, sessionMap, job>>, NEW s \in Session,
           Unanswered(s)' => Unanswered(s),
           state'[s] = state[s], name'[s] \in {name[s], None},
           s \in cln'.dead => s \in cln.dead \/ state[s] = "INVALID",
           s \in deleted' => s \in deleted \/ s \in cln.dead
    PROVE  Quiet(s)
BY DEF Quiet, NoNewJob

\* The first answer of a session, whatever it is.
LEMMA FirstAnswer ==
    ASSUME NEW s \in Session, Sane(s), Unanswered(s), ~Unanswered(s)',
           UNCHANGED <<sock, sessionMap, job, name, cln, deleted>>,
           state'[s] = "CLOSE" \/ (state'[s] = "REGISTER" /\ sock[s] = "open")
    PROVE  Sane(s)'
<1>1. (Registering(s)' <=> Registering(s)) /\ (Closes(s)' <=> Closes(s))
  BY DEF Registering, Closes
<1> QED
  BY <1>1 DEF Sane, Blank

LEMMA HandlerSane ==
    ASSUME TypeOK, LoginInv, LoginFirst, Opened, JoinOnce, NEW s \in Session, Sane(s),
           Handler, UNCHANGED phase,
           Unanswered(s)' => Unanswered(s)
    PROVE  Sane(s)'
<1>0. /\ state \in [Session -> SessionState]
      /\ name \in [Session -> Account \cup {None}]
      /\ hnd.pc # "idle" => hnd.s \in Session
      /\ UNCHANGED <<inbox, sock, sessionMap, deleted, job, cln>>
  <2>1. UNCHANGED <<inbox, sock, sessionMap, deleted, job, cln>>
    BY DEF Handler, DropPacket, RefuseLogin, AcceptLogin, CreateActiveUser, LoadFriends,
           LoadFails, AnnounceLogin, GrantLogin, Grant, LoginFails, Crash, HandleLogout,
           LogoutFails, HandleJoin, HandleFind, FindFails, coreVars, netVars, sessVars, userVars
  <2> QED
    BY <2>1, SessionTypes, ColumnTypes
<1>a. ASSUME state'[s] = state[s], name'[s] \in {name[s], None} PROVE Sane(s)'
  BY <1>0, <1>a, AppQuiet, QuietKeeps
<1>1. CASE \/ DropPacket \/ AcceptLogin \/ LoadFriends \/ LoadFails \/ HandleFind
           \/ LoginFails \/ LogoutFails \/ FindFails
  <2>1. UNCHANGED <<state, name>>
    BY <1>1 DEF DropPacket, AcceptLogin, LoadFriends, LoadFails, HandleFind, LoginFails,
       LogoutFails, FindFails, Crash, coreVars, sessVars, userVars
  <2> QED
    BY <1>a, <2>1
<1>2. CASE CreateActiveUser
  <2>1. UNCHANGED state /\ hnd.pc # "idle" /\ \A r \in Session \ {hnd.s} : name'[r] = name[r]
    BY <1>0, <1>2 DEF CreateActiveUser, InsertUser, coreVars, sessVars
  <2>2. CASE s # hnd.s
    BY <1>a, <2>1, <2>2
  <2>3. CASE s = hnd.s
    <3>1. Unanswered(s) /\ Blank(s)
      BY <2>1, <2>3 DEF Unanswered, LoggingIn, Sane
    <3>2. (Registering(s)' <=> Registering(s)) /\ (Closes(s)' <=> Closes(s))
      BY <1>0 DEF Registering, Closes
    <3> QED
      BY <1>0, <2>1, <3>1, <3>2 DEF Sane, Blank
  <2> QED
    BY <2>2, <2>3
<1>3. CASE RefuseLogin
  <2>1. PICK c : c = From
    OBVIOUS
  <2>2. /\ Packet("login") /\ Popped /\ UNCHANGED <<name, hnd>> /\ hnd.pc = "idle"
        /\ state' = [state EXCEPT ![c] = "CLOSE"]
    BY <1>3, <2>1 DEF RefuseLogin, SetState, Packet
  <2>3. c \in Session /\ LoggingIn(c)
    BY <2>1, <2>2, HeadRequest DEF LoggingIn, Past
  <2>4. ~LoggingIn(c)'
    <3>1. Past(c)'
      BY <1>0, <2>1, <2>2, LoginIsPast
    <3> QED
      BY <2>2, <3>1 DEF LoggingIn
  <2>5. ~JoinSent(c)'
    <3>1. Queue' \subseteq Queue
      BY <2>2, HeadRequest
    <3> QED
      BY <1>0, <2>3, <3>1 DEF JoinSent, LoginFirst, FirstOnce
  <2>6. CASE s = c
    BY <1>0, <2>2, <2>3, <2>4, <2>5, <2>6, FirstAnswer DEF Unanswered
  <2> QED
    BY <1>0, <1>a, <2>2, <2>6
<1>4. CASE HandleJoin
  <2>1. PICK c : c = From
    OBVIOUS
  <2>2. /\ Packet("join") /\ Popped /\ UNCHANGED <<name, hnd>>
        /\ state' = [state EXCEPT ![c] = "CLOSE"]
    BY <1>4, <2>1 DEF HandleJoin, SetState
  <2>3. c \in Session /\ JoinSent(c) /\ ~LoggingIn(c) /\ ~JoinSent(c)'
    BY <1>0, <2>1, <2>2, JoinIsHandled
  <2>4. ~LoggingIn(c)'
    <3>1. Queue' \subseteq Queue
      BY <2>2, HeadRequest
    <3> QED
      BY <1>0, <2>2, <2>3, <3>1 DEF LoggingIn, Past
  <2>5. CASE s = c
    BY <1>0, <2>2, <2>3, <2>4, <2>5, FirstAnswer DEF Unanswered
  <2> QED
    BY <1>0, <1>a, <2>2, <2>5
<1>5. CASE AnnounceLogin \/ GrantLogin
  <2>1. PICK c \in Session : c = hnd.s /\ hnd.pc # "idle"
    BY <1>0, <1>5 DEF AnnounceLogin, GrantLogin
  <2>2. /\ UNCHANGED <<name, Queue>> /\ hnd' = HandlerIdle
        /\ state' = [state EXCEPT ![c] = "REGISTER"]
    BY <1>5, <2>1 DEF AnnounceLogin, GrantLogin, Grant, SetState, Queue
  <2>3. LoggingIn(c) /\ Past(c) /\ ~JoinSent(c)
    BY <2>1 DEF LoggingIn, LoginFirst, FirstOnce, JoinSent
  <2>4. ~LoggingIn(c)' /\ ~JoinSent(c)'
    BY <1>0, <2>2, <2>3 DEF LoggingIn, Past, JoinSent, HandlerIdle
  <2>5. CASE s = c
    <3>1. sock[s] # "none" /\ sock[s] # "closed"
      BY <2>1, <2>3, <2>5 DEF Opened, Sane, Blank, Unanswered
    <3>2. sock[s] = "open"
      BY <3>1, SessionTypes
    <3> QED
      BY <1>0, <2>2, <2>3, <2>4, <2>5, <3>2, FirstAnswer DEF Unanswered
  <2> QED
    BY <1>0, <1>a, <2>2, <2>5
<1>6. CASE HandleLogout
  <2>1. PICK c : c = From
    OBVIOUS
  <2>2. /\ c \in Session /\ name[c] # None /\ hnd.pc = "idle"
        /\ state' = [state EXCEPT ![c] = "UNREGISTER"]
        /\ name' = [name EXCEPT ![c] = None]
    BY <1>6, <2>1, PacketTyped DEF HandleLogout, SetState, EraseUser, users, Packet, TypeOK
  <2>3. ~Unanswered(c)
    <3>1. \A e \in Queue : e.req \in Login => e.s # c
      BY <2>2 DEF LoginInv, OneLogin, Queue
    <3>2. ~LoggingIn(c)
      BY <2>2, <3>1 DEF LoggingIn, Past, LoginInv, OneLogin, MayLogIn
    <3> QED
      BY <2>2, <3>2 DEF Unanswered, JoinOnce
  <2>4. CASE s = c
    <3>1. state'[s] = "UNREGISTER" /\ name'[s] = None
      BY <1>0, <2>2, <2>4
    <3>2. (Registering(s)' <=> Registering(s)) /\ (Closes(s)' <=> Closes(s))
      BY <1>0 DEF Registering, Closes
    <3> QED
      BY <1>0, <2>3, <2>4, <3>1, <3>2 DEF Sane
  <2> QED
    BY <1>0, <1>a, <2>2, <2>4
<1> QED
  BY <1>1, <1>2, <1>3, <1>4, <1>5, <1>6 DEF Handler

-----------------------------------------------------------------------------
(* The cleaner, the send thread, the clients and a restart.                *)

\* The cleaner finds dead what is closed, and deletes what it has found dead.
LEMMA CleanerSane ==
    ASSUME TypeOK, NEW s \in Session, Sane(s), Cleaner, UNCHANGED phase,
           Unanswered(s)' => Unanswered(s)
    PROVE  Sane(s)'
<1>0. /\ name \in [Session -> Account \cup {None}]
      /\ cln.pc = "erase" => cln.cur \in Session
  BY SessionTypes, ColumnTypes
<1>1. /\ UNCHANGED <<sock, state, sessionMap, job>>
      /\ name'[s] \in {name[s], None}
      /\ s \in cln'.dead => s \in cln.dead \/ state[s] = "INVALID"
      /\ s \in deleted' => s \in deleted \/ s \in cln.dead
  <2> DEFINE Cln == [pc : {"sleep", "scan", "reap", "erase"}, snap : SUBSET Session,
                     dead : SUBSET Session, cur : Session \cup {None}]
  <2>0. cln \in Cln
    BY DEF TypeOK, UserTypeOK
  <2>1. CASE Snapshot \/ ScanEnds
    BY <1>0, <2>0, <2>1 DEF Snapshot, ScanEnds, CleanerOnly, coreVars, sessVars
  <2>2. ASSUME NEW c \in Session, Scan(c)
        PROVE  <1>1!:
    <3>1. cln'.dead = IF IsValid(c) THEN cln.dead ELSE cln.dead \cup {c}
      BY <2>0, <2>2 DEF Scan
    <3>2. UNCHANGED <<sock, state, sessionMap, job, name, deleted>>
      BY <2>2 DEF Scan, CleanerOnly, coreVars, sessVars
    <3> QED
      BY <1>0, <3>1, <3>2 DEF IsValid
  <2>3. ASSUME NEW c \in Session, ReapFails(c)
        PROVE  <1>1!:
    BY <1>0, <2>3 DEF ReapFails, Crash, sessVars, userVars
  <2>4. ASSUME NEW c \in Session, Reap(c)
        PROVE  <1>1!:
    BY <1>0, <2>0, <2>4 DEF Reap, sessVars
  <2>5. CASE Erase
    <3>1. cln'.dead \subseteq cln.dead
      BY <2>0, <2>5 DEF Erase, Asleep
    <3> QED
      BY <1>0, <2>5, <3>1 DEF Erase, EraseUser, coreVars, sessVars
  <2> QED
    BY <2>1, <2>2, <2>3, <2>4, <2>5 DEF Cleaner
<1> QED
  BY <1>1, AppQuiet, QuietKeeps

\* A send changes no session's state, and one that fails unregisters.
LEMMA SenderSane ==
    ASSUME TypeOK, NEW s \in Session, Sane(s), SendTask \/ SendFreed,
           Unanswered(s)' => Unanswered(s)
    PROVE  Sane(s)'
<1>1. CASE SendFreed
  <2>1. UNCHANGED <<sock, state, sessionMap, job, name, cln, deleted>>
    BY <1>1 DEF SendFreed, Crash, sessVars, userVars
  <2> QED
    BY <2>1, AppQuiet, QuietKeeps
<1>2. CASE SendTask
  <2>1. PICK c \in Session : c = Head(sendQueue).s
    <3>1. sendQueue \in Seq([s : Session, msg : Message]) /\ sendQueue # <<>>
      BY <1>2 DEF SendTask, TypeOK, UserTypeOK
    <3>2. Head(sendQueue) \in [s : Session, msg : Message]
      BY <3>1, HeadTailProperties
    <3> QED
      BY <3>2
  <2>2. /\ UNCHANGED <<sock, state, sessionMap, name, cln, deleted>>
        /\ UNCHANGED job \/ Goto(Sender, "unregister", c)
    BY <1>2, <2>1 DEF SendTask, PostSend
  <2>3. NoNewJob(s)
    BY <2>2, OtherJobs, SessionTypes DEF Op, Weighty
  <2>4. Quiet(s)
    BY <2>2, <2>3 DEF Quiet
  <2> QED
    BY <2>4, QuietKeeps
<1> QED
  BY <1>1, <1>2

\* A client does nothing to the sessions.
LEMMA ClientSane ==
    ASSUME NEW s \in Session, Sane(s), NEW c \in Session, Client(c),
           Unanswered(s)' => Unanswered(s)
    PROVE  Sane(s)'
<1>1. UNCHANGED <<sock, state, sessionMap, job, deleted, userVars>>
  BY DEF Client, Connect, Send, Disconnect, Transmit, SendCompletes, sessVars
<1> QED
  BY <1>1, CoreQuiet, QuietKeeps DEF NoNewJob

\* Nothing of a session survives the process.
LEMMA RestartSane ==
    ASSUME TypeOK, NEW s \in Session, Restart
    PROVE  Sane(s)'
<1>1. /\ state'[s] = "MAINTAIN" /\ sessionMap' = {} /\ deleted' = {} /\ name'[s] = None
      /\ cln' = Asleep /\ hnd' = HandlerIdle
      /\ recvQueue' = <<>> /\ inbox'[s] = None
      /\ job' = [t \in Thread |-> Wait]
      /\ sock'[s] = (IF conn[s] = "none" THEN "none" ELSE "closed")
      /\ phase'[s] = (IF conn[s] = "none" THEN "idle" ELSE "finished")
  BY DEF Restart, CoreRestart, UserRestart
<1>2. ~Registering(s)' /\ ~Closes(s)'
  BY <1>1 DEF Registering, Closes, Wait
<1>3. conn[s] # "none" => ~Unanswered(s)'
  BY <1>1, ColumnTypes DEF Unanswered, LoggingIn, Past, JoinSent, Queue, HandlerIdle
<1>4. s \notin cln'.dead
  BY <1>1 DEF Asleep
<1> QED
  BY <1>1, <1>2, <1>3, <1>4 DEF Sane, Blank

-----------------------------------------------------------------------------
(* Joins, the backlog and the sockets.                                     *)

LEMMA JoinMoves ==
    ASSUME TypeOK, JoinOnce, NEW c \in Session, inbox[c] # None, ReceivePacket(c), UNCHANGED name
    PROVE  JoinOnce'
<1> DEFINE n == Len(recvQueue)
           e == [s |-> c, req |-> inbox[c]]
<1>1. /\ n \in Nat /\ DOMAIN recvQueue = 1..n /\ DOMAIN recvQueue' = 1..(n + 1)
      /\ recvQueue'[n + 1] = e
      /\ \A i \in 1..n : recvQueue'[i] = recvQueue[i]
  <2>1. recvQueue \in Seq(RecvItem) /\ e \in RecvItem
    BY LoginTypes DEF RecvItem
  <2> HIDE DEF e
  <2> QED
    BY <2>1, AppendElements DEF ReceivePacket, e
<1>2. Queue' = Queue \cup {e}
  BY QueueAppend
<1>3. inbox'[c] = None /\ None \notin Join /\ \A s \in Session \ {c} : inbox'[s] = inbox[s]
  BY ColumnTypes DEF ReceivePacket
<1>4. recvQueue'[n + 1].s = c /\ recvQueue'[n + 1].req = inbox[c]
  BY <1>1
<1>5. \A s \in Session : JoinSent(s)' => JoinSent(s)
  BY <1>2, <1>3 DEF JoinSent
<1>6. \A s \in Session : inbox'[s] \in Join => \A f \in Queue' : f.s = s => f.req \notin Join
  BY <1>2, <1>3 DEF JoinOnce
<1> HIDE DEF e
<1>7. ASSUME NEW s \in Session, NEW i \in DOMAIN recvQueue', NEW j \in DOMAIN recvQueue',
             recvQueue'[i].s = s, recvQueue'[i].req \in Join,
             recvQueue'[j].s = s, recvQueue'[j].req \in Join
      PROVE  i = j
  <2>1. \A k \in DOMAIN recvQueue' :
           k = n + 1 \/ (k \in DOMAIN recvQueue /\ recvQueue'[k] = recvQueue[k])
    BY <1>1
  <2>2. s = c /\ inbox[c] \in Join =>
           \A k \in DOMAIN recvQueue : recvQueue[k].s = s => recvQueue[k].req \notin Join
    BY DEF JoinOnce, Queue
  <2> HIDE DEF n
  <2> QED
    BY <1>4, <1>7, <2>1, <2>2 DEF JoinOnce
<1> QED
  BY <1>5, <1>6, <1>7 DEF JoinOnce

LEMMA JoinPopped ==
    ASSUME TypeOK, JoinOnce, UNCHANGED inbox,
           \A s \in Session : JoinSent(s)' => name'[s] \in {name[s], None},
           (Popped /\ recvQueue # <<>>) \/ UNCHANGED recvQueue
    PROVE  JoinOnce'
<1>1. Queue' \subseteq Queue
  BY QueueTail DEF Queue
<1>2. \A s \in Session : JoinSent(s)' => JoinSent(s)
  BY <1>1 DEF JoinSent
<1>3. ASSUME NEW s \in Session, NEW i \in DOMAIN recvQueue', NEW j \in DOMAIN recvQueue',
             recvQueue'[i].s = s, recvQueue'[i].req \in Join,
             recvQueue'[j].s = s, recvQueue'[j].req \in Join
      PROVE  i = j
  <2>1. CASE UNCHANGED recvQueue
    BY <1>3, <2>1 DEF JoinOnce
  <2>2. CASE Popped /\ recvQueue # <<>>
    <3> DEFINE n == Len(recvQueue)
    <3>1. /\ n \in Nat /\ DOMAIN recvQueue = 1..n /\ DOMAIN recvQueue' = 1..(n - 1)
          /\ \A k \in 1..(n - 1) : k + 1 \in 1..n /\ recvQueue'[k] = recvQueue[k + 1]
      <4>1. recvQueue \in Seq(RecvItem)
        BY LoginTypes
      <4> QED
        BY <2>2, <4>1, TailElements DEF Popped
    <3>2. i + 1 = j + 1
      BY <1>3, <3>1 DEF JoinOnce
    <3> QED
      BY <3>1, <3>2
  <2> QED
    BY <2>1, <2>2
<1> QED
  BY <1>1, <1>2, <1>3 DEF JoinOnce

LEMMA StepJoinOnce ==
    ASSUME TypeOK, LoginInv, LoginFirst, JoinOnce, [Next]_vars
    PROVE  JoinOnce'
<1>1. CASE Restart
  <2>1. recvQueue' = <<>> /\ inbox' = [s \in Session |-> None] /\ None \notin Join
    BY <1>1, ColumnTypes DEF Restart, CoreRestart
  <2> QED
    BY <2>1 DEF JoinOnce, JoinSent, Queue
<1>2. ASSUME NEW c \in Session, Send(c) PROVE JoinOnce'
  <2>0. UNCHANGED <<name, recvQueue, Queue>>
    BY <1>2 DEF Send, userVars, Queue
  <2>1. PICK r \in Request :
          /\ \/ phase[c] = "connected" /\ r \in FirstRequest
             \/ phase[c] = "ready" /\ r \in LaterRequest
          /\ inbox' = [inbox EXCEPT ![c] = r]
    BY <1>2 DEF Send
  <2>2. inbox'[c] = r /\ \A s \in Session \ {c} : inbox'[s] = inbox[s]
    BY <2>1, ColumnTypes
  <2>3. CASE phase[c] = "connected"
    <3>1. name[c] = None /\ \A e \in Queue : e.s # c
      BY <2>3 DEF LoginInv, OneLogin, Silent, Queue
    <3> QED
      BY <2>0, <2>2, <3>1 DEF JoinOnce, JoinSent
  <2>4. CASE r \in LaterRequest
    <3>1. r \notin Join
      BY <2>4 DEF LaterRequest, Join
    <3> QED
      BY <2>0, <2>2, <3>1 DEF JoinOnce, JoinSent
  <2> QED
    BY <2>1, <2>3, <2>4
<1>3. CASE Core
  <2>1. UNCHANGED name /\ CoreNext
    BY <1>3 DEF Core, userVars
  <2>2. CASE UNCHANGED <<inbox, recvQueue>>
    BY <2>1, <2>2 DEF JoinOnce, JoinSent, Queue
  <2> QED
    BY <2>1, <2>2, PacketMoves, JoinMoves
<1>4. CASE App
  <2>1. ASSUME NEW s \in Session, JoinSent(s)' PROVE name'[s] \in {name[s], None}
    <3>1. CASE CreateActiveUser
      <4>1. UNCHANGED <<inbox, recvQueue>> /\ hnd.pc = "create" /\ InsertUser(hnd.s, hnd.who)
        BY <3>1 DEF CreateActiveUser, coreVars, netVars
      <4>2. s # hnd.s
        BY <2>1, <4>1 DEF JoinSent, LoginFirst, FirstOnce, LoggingIn, Queue
      <4> QED
        BY <4>1, <4>2, ColumnTypes DEF InsertUser
    <3> QED
      BY <1>4, <3>1, NamesGo DEF Next
  <2> QED
    BY <1>4, <2>1, AppPackets, JoinPopped DEF netVars
<1>5. CASE \/ \E c \in Session : Connect(c) \/ Disconnect(c) \/ Transmit(c)
           \/ SendTask \/ SendFreed \/ UNCHANGED vars
  <2>1. UNCHANGED <<inbox, recvQueue, name>>
    BY <1>5 DEF Connect, Disconnect, Transmit, SendCompletes, SendTask, SendFreed, PostSend,
       Crash, vars, coreVars, netVars, userVars
  <2> QED
    BY <2>1 DEF JoinOnce, JoinSent, Queue
<1> QED
  BY <1>1, <1>2, <1>3, <1>4, <1>5 DEF Next, Client, Quiescent

\* What a step of the core does to the connections that wait.
LEMMA BacklogTail ==
    ASSUME TypeOK, Backlogged, backlog # <<>>, backlog' = Tail(backlog), UNCHANGED conn,
           \A s \in Session : s # Head(backlog) => sock'[s] = sock[s]
    PROVE  Backlogged'
<1> DEFINE n == Len(backlog)
<1>1. /\ n \in Nat /\ 1 \in DOMAIN backlog /\ Head(backlog) = backlog[1]
      /\ DOMAIN backlog = 1..n /\ DOMAIN backlog' = 1..(n - 1)
      /\ \A i \in 1..n : backlog[i] \in Session
      /\ \A i \in 1..(n - 1) : i + 1 \in 1..n /\ backlog'[i] = backlog[i + 1]
  BY SessionTypes, TailElements
<1>2. \A i \in DOMAIN backlog' : /\ i \in Nat /\ i + 1 \in DOMAIN backlog /\ i + 1 # 1
                                 /\ backlog'[i] = backlog[i + 1] /\ backlog'[i] \in Session
  BY <1>1
<1>3. \A i \in DOMAIN backlog' : backlog'[i] # Head(backlog) /\ sock'[backlog'[i]] = "none"
  BY <1>1, <1>2 DEF Backlogged
<1>4. ASSUME NEW s \in Session, conn'[s] = "none"
      PROVE  sock'[s] = "none" /\ \A i \in DOMAIN backlog' : backlog'[i] # s
  BY <1>1, <1>2, <1>4 DEF Backlogged
<1>5. ASSUME NEW i \in DOMAIN backlog', NEW j \in DOMAIN backlog', backlog'[i] = backlog'[j]
      PROVE  i = j
  <2>1. i + 1 = j + 1
    BY <1>2, <1>5 DEF Backlogged
  <2> QED
    BY <1>2, <2>1
<1> QED
  BY <1>3, <1>4, <1>5 DEF Backlogged

LEMMA BacklogConnects ==
    ASSUME TypeOK, Backlogged, NEW c \in Session, Connect(c)
    PROVE  Backlogged'
<1> DEFINE n == Len(backlog)
<1>0. /\ conn[c] = "none" /\ conn' = [conn EXCEPT ![c] = "up"] /\ UNCHANGED sock
  BY DEF Connect, sessVars
<1>1. /\ n \in Nat /\ DOMAIN backlog = 1..n /\ DOMAIN backlog' = 1..(n + 1)
      /\ backlog'[n + 1] = c
      /\ \A i \in 1..n : backlog[i] \in Session /\ backlog'[i] = backlog[i]
  <2>1. backlog' = Append(backlog, c)
    BY DEF Connect
  <2> QED
    BY <2>1, SessionTypes, AppendElements
<1>2. conn'[c] = "up" /\ \A s \in Session \ {c} : conn'[s] = conn[s]
  BY <1>0, SessionTypes
<1>3. \A i \in DOMAIN backlog' : \/ i = n + 1
                                 \/ i \in DOMAIN backlog /\ backlog'[i] = backlog[i]
  BY <1>1
<1>4. sock[c] = "none" /\ \A i \in DOMAIN backlog : backlog[i] # c
  BY <1>0 DEF Backlogged
<1> HIDE DEF n
<1> QED
  BY <1>0, <1>1, <1>2, <1>3, <1>4 DEF Backlogged

LEMMA StepBacklogged ==
    ASSUME TypeOK, Backlogged, Unopened, [Next]_vars
    PROVE  Backlogged'
<1>0. /\ conn \in [Session -> {"none", "up", "gone", "reset"}]
      /\ sock \in [Session -> {"none", "open", "closed"}]
  BY SessionTypes
<1>1. CASE Restart
  <2>1. /\ backlog' = <<>>
        /\ \A s \in Session : /\ conn'[s] = (IF conn[s] = "none" THEN "none" ELSE "gone")
                              /\ sock'[s] = (IF conn[s] = "none" THEN "none" ELSE "closed")
    BY <1>1 DEF Restart, CoreRestart
  <2> QED
    BY <2>1 DEF Backlogged
<1>2. ASSUME NEW c \in Session, Connect(c) PROVE Backlogged'
  BY <1>2, BacklogConnects
<1>3. ASSUME NEW c \in Session, Disconnect(c) PROVE Backlogged'
  <2>1. /\ conn[c] = "up" /\ conn' = [conn EXCEPT ![c] = "gone"] /\ UNCHANGED <<backlog, sock>>
    BY <1>3 DEF Disconnect, sessVars
  <2> QED
    BY <1>0, <2>1 DEF Backlogged
<1>4. ASSUME NEW t \in Worker, Accept(t) \/ AcceptEmpty(t) PROVE Backlogged'
  <2>1. /\ backlog # <<>> /\ backlog' = Tail(backlog) /\ UNCHANGED conn
        /\ UNCHANGED sock \/ sock' = [sock EXCEPT ![Head(backlog)] = "open"]
    BY <1>4 DEF Accept, AcceptEmpty, sessVars
  <2> QED
    BY <1>0, <2>1, BacklogTail
<1>5. ASSUME NEW t \in Thread, Close(t) PROVE Backlogged'
  <2>1. PICK c \in Session : c = job[t].s
    BY <1>5, JobTyped DEF Close, TypeOK
  <2>2. /\ UNCHANGED backlog /\ sock' = [sock EXCEPT ![c] = "closed"]
        /\ conn' = [conn EXCEPT ![c] = IF @ = "up" THEN "reset" ELSE @]
    BY <1>5, <2>1 DEF Close, CloseSession, CloseSocket
  <2>3. sock[c] # "none"
    BY <1>5, <2>1 DEF Close, Closes, Unopened, Inert
  <2>4. conn[c] # "none" /\ \A i \in DOMAIN backlog : backlog[i] # c
    BY <2>3 DEF Backlogged
  <2>5. \A i \in DOMAIN backlog : backlog[i] \in Session
    BY SessionTypes, ElementOfSeq, LenProperties
  <2> QED
    BY <1>0, <2>2, <2>4, <2>5 DEF Backlogged
<1>6. CASE CoreNext /\ (~\E t \in Worker : Accept(t) \/ AcceptEmpty(t)) /\ (~\E t \in Thread : Close(t))
  <2>1. UNCHANGED <<conn, backlog, sock>>
    BY <1>6 DEF CoreNext, Kernel, DataArrives, ReceiveEnds, SendFails, Completion, Receive,
       ZeroBytes, HandleWriteCompletion, Continue, PostReceive, RegisterSession,
       UnregisterSession, UseAfterDelete, netVars, sessVars
  <2> QED
    BY <2>1 DEF Backlogged
<1>7. CASE \/ \E c \in Session : Send(c) \/ Transmit(c)
           \/ App \/ SendTask \/ SendFreed \/ UNCHANGED vars
  <2>1. UNCHANGED <<conn, backlog, sock>>
    BY <1>7, AppPackets DEF Send, Transmit, SendCompletes, SendTask, SendFreed, PostSend,
       Crash, vars, coreVars, netVars, sessVars
  <2> QED
    BY <2>1 DEF Backlogged
<1> QED
  BY <1>1, <1>2, <1>3, <1>4, <1>5, <1>6, <1>7 DEF Next, Client, Core, Quiescent

\* What a session without a socket needs to stay untouched.
LEMMA InertStays ==
    ASSUME Unopened, NEW s \in Session, sock[s] = "none",
           posted'[s] = posted[s], written'[s] = written[s],
           s \in sessionMap' => s \in sessionMap,
           NoNewJob(s)
    PROVE  Inert(s)'
BY JobsStay DEF Unopened, Inert

LEMMA CoreUnopened ==
    ASSUME TypeOK, Unopened, CoreNext, NEW s \in Session, sock'[s] = "none"
    PROVE  Inert(s)'
<1>0. Worker \subseteq Thread /\ Sender \in Thread
  BY SessionTypes
\* A step that gives no thread anything of weight to do.
<1>h. ASSUME NEW t \in Thread, NEW c \in Session,
             sock[s] = "none", posted'[s] = posted[s], written'[s] = written[s],
             s \in sessionMap' => s \in sessionMap,
             \/ Done(t) \/ UNCHANGED job
             \/ \E op \in {"accept", "receive", "eof", "unregister"} : Goto(t, op, c)
      PROVE  Inert(s)'
  <2>1. NoNewJob(s)
    BY <1>h, OtherJobs DEF Op, Weighty
  <2> QED
    BY <1>h, <2>1, InertStays
<1>1. ASSUME NEW c \in Session, Kernel(c) PROVE Inert(s)'
  <2>1. UNCHANGED <<sock, sessionMap, job, written>>
    BY <1>1 DEF Kernel, DataArrives, ReceiveEnds, SendFails
  <2>2. posted'[s] = posted[s]
    BY <1>1, <2>1, SessionTypes DEF Kernel, DataArrives, ReceiveEnds, SendFails, Unopened, Inert
  <2> QED
    BY <1>0, <1>h, <2>1, <2>2
<1>2. ASSUME NEW t \in Worker, Accept(t) PROVE Inert(s)'
  <2>1. PICK c : c = Head(backlog)
    OBVIOUS
  <2>2. c \in Session
    <3>1. backlog \in Seq(Session) /\ backlog # <<>>
      BY <1>2, SessionTypes DEF Accept
    <3> QED
      BY <2>1, <3>1, HeadTailProperties
  <2>3. /\ UNCHANGED <<posted, written, sessionMap>>
        /\ sock' = [sock EXCEPT ![c] = "open"] /\ Goto(t, "accept", c)
    BY <1>2, <2>1 DEF Accept
  <2>4. sock[s] = "none"
    BY <2>2, <2>3, SessionTypes
  <2> QED
    BY <1>0, <1>h, <2>2, <2>3, <2>4
<1>3. ASSUME NEW t \in Worker, AcceptEmpty(t) PROVE Inert(s)'
  <2>1. UNCHANGED <<sock, sessionMap, job, written, posted>>
    BY <1>3 DEF AcceptEmpty, sessVars
  <2> QED
    BY <1>0, <1>h, <2>1
<1>4. ASSUME NEW t \in Worker, NEW c \in Session, Receive(t, c) \/ ZeroBytes(t, c)
      PROVE  Inert(s)'
  <2>1. UNCHANGED <<sock, sessionMap, written, posted>>
    BY <1>4 DEF Receive, ZeroBytes
  <2>2. \E op \in {"receive", "eof", "unregister"} : Goto(t, op, c)
    BY <1>4 DEF Receive, ZeroBytes
  <2> QED
    BY <1>0, <1>h, <2>1, <2>2
<1>5. ASSUME NEW t \in Thread, PostReceive(t) PROVE Inert(s)'
  <2>1. PICK c \in Session : c = job[t].s
    BY <1>5, JobTyped DEF PostReceive, TypeOK
  <2>2. /\ UNCHANGED <<sock, sessionMap, written, posted>>
        /\ Done(t) \/ Goto(t, "unregister", c)
    BY <1>5, <2>1 DEF PostReceive
  <2> QED
    BY <1>h, <2>2
<1>6. ASSUME NEW t \in Thread, UseAfterDelete(t) PROVE Inert(s)'
  <2>1. UNCHANGED <<sock, sessionMap, job, written, posted>>
    BY <1>6 DEF UseAfterDelete, sessVars
  <2> QED
    BY <1>h, <2>1
\* A completion of a send is not of s, which has sent nothing.
<1>7. ASSUME NEW t \in Worker, NEW c \in Session, HandleWriteCompletion(t, c)
      PROVE  Inert(s)'
  <2>1. /\ UNCHANGED <<sock, sessionMap, posted>>
        /\ written' = [written EXCEPT ![c] = @ - 1] /\ written[c] > 0
    BY <1>7 DEF HandleWriteCompletion
  <2>2. s # c
    BY <2>1 DEF Unopened, Inert
  <2>3. written'[s] = written[s]
    BY <2>1, <2>2, SessionTypes
  <2>4. UNCHANGED job \/ \E op \in Op : Goto(t, op, c)
    <3>1. /\ WriteCompleted("REGISTER") \in Op /\ WriteCompleted("CLOSE") \in Op
          /\ WriteCompleted("UNREGISTER") \in Op
      BY DEF WriteCompleted, Op
    <3> QED
      BY <1>7, <3>1 DEF HandleWriteCompletion
  <2>5. NoNewJob(s)
    BY <1>0, <2>2, <2>4, OtherJobs
  <2> QED
    BY <2>1, <2>3, <2>5, InertStays
\* Nobody registers s.
<1>8. ASSUME NEW t \in Thread, RegisterSession(t) PROVE Inert(s)'
  <2>1. PICK c \in Session : c = job[t].s
    BY <1>8, JobTyped DEF RegisterSession, TypeOK
  <2>2. /\ UNCHANGED <<sock, written, posted>> /\ Done(t)
        /\ job[t].op = "register" /\ sessionMap' = sessionMap \cup {c}
    BY <1>8, <2>1 DEF RegisterSession
  <2>3. s # c
    BY <2>1, <2>2 DEF Unopened, Inert, Registering
  <2> QED
    BY <1>h, <2>2, <2>3
\* s is in no table to be taken out of.
<1>9. ASSUME NEW t \in Thread, UnregisterSession(t) PROVE Inert(s)'
  <2>1. PICK c \in Session : c = job[t].s
    BY <1>9, JobTyped DEF UnregisterSession, TypeOK
  <2>2. UNCHANGED <<sock, written, posted>> /\ sessionMap' = sessionMap \ {c}
    BY <1>9, <2>1 DEF UnregisterSession, MapWithout, sessVars
  <2>3. \/ Done(t)
        \/ \E op \in Op : Goto(t, op, c) /\ (s # c \/ op \notin Weighty)
    BY <1>9, <2>1, <2>2 DEF UnregisterSession, Unopened, Inert, Op, Weighty
  <2>4. NoNewJob(s)
    BY <2>3, OtherJobs
  <2> QED
    BY <2>2, <2>4, InertStays
\* Nobody closes s.
<1>10. ASSUME NEW t \in Thread, Close(t) PROVE Inert(s)'
  <2>1. PICK c \in Session : c = job[t].s
    BY <1>10, JobTyped DEF Close, TypeOK
  <2>2. /\ UNCHANGED <<sessionMap, written>>
        /\ sock' = [sock EXCEPT ![c] = "closed"] /\ posted' = [posted EXCEPT ![c] = 0]
    BY <1>10, <2>1 DEF Close, CloseSession, CloseSocket
  <2>3. s # c
    BY <2>2, SessionTypes
  <2>4. sock[s] = "none" /\ posted'[s] = posted[s] /\ UNCHANGED <<sessionMap, written>>
    BY <2>2, <2>3, SessionTypes
  <2>5. Done(t) \/ Goto(t, "unregister", c)
    BY <1>10, <2>1 DEF Close
  <2> QED
    BY <1>h, <2>4, <2>5
<1> QED
  BY <1>1, <1>2, <1>3, <1>4, <1>5, <1>6, <1>7, <1>8, <1>9, <1>10
  DEF CoreNext, Completion, Continue

LEMMA StepUnopened ==
    ASSUME TypeOK, Unopened, [Next]_vars
    PROVE  Unopened'
<1>1. CASE Restart
  <2>1. /\ posted' = [s \in Session |-> 0] /\ written' = [s \in Session |-> 0]
        /\ sessionMap' = {} /\ job' = [t \in Thread |-> Wait]
    BY <1>1 DEF Restart, CoreRestart
  <2> QED
    BY <2>1 DEF Unopened, Inert, Registering, Closes, Wait
<1>2. ASSUME ~Restart, NEW s \in Session, sock'[s] = "none"
      PROVE  Inert(s)'
  <2>h. ASSUME UNCHANGED <<sock, sessionMap, job>>,
               posted'[s] = posted[s], written'[s] = written[s]
        PROVE  Inert(s)'
    <3>1. NoNewJob(s)
      BY <2>h DEF NoNewJob
    <3> QED
      BY <1>2, <2>h, <3>1, InertStays
  <2>1. CASE Core
    BY <1>2, <2>1, CoreUnopened DEF Core
  <2>2. ASSUME NEW c \in Session, Client(c) PROVE Inert(s)'
    <3>1. UNCHANGED <<sock, sessionMap, job>>
      BY <2>2 DEF Client, Connect, Send, Disconnect, Transmit, SendCompletes, sessVars
    <3>2. posted'[s] = posted[s] /\ written'[s] = written[s]
      <4>1. CASE UNCHANGED <<posted, written>>
        BY <4>1
      <4>2. CASE SendCompletes(c)
        BY <1>2, <3>1, <4>2, SessionTypes DEF SendCompletes, Unopened, Inert
      <4> QED
        BY <2>2, <4>1, <4>2 DEF Client, Connect, Send, Disconnect, Transmit, sessVars
    <3> QED
      BY <2>h, <3>1, <3>2
  <2>3. CASE App
    <3>1. UNCHANGED <<sock, sessionMap, job, posted, written>>
      BY <2>3 DEF App, Handler, DropPacket, RefuseLogin, AcceptLogin, CreateActiveUser,
         LoadFriends, LoadFails, AnnounceLogin, GrantLogin, Grant, SetState, LoginFails,
         HandleLogout, LogoutFails, HandleJoin, HandleFind, FindFails, Cleaner, Snapshot,
         Scan, ScanEnds, Reap, ReapFails, Erase, CleanerOnly, Crash, coreVars, sessVars
    <3> QED
      BY <2>h, <3>1
  <2>4. CASE SendTask
    <3>1. PICK c \in Session : c = Head(sendQueue).s
      <4>1. sendQueue \in Seq([s : Session, msg : Message]) /\ sendQueue # <<>>
        BY <2>4 DEF SendTask, TypeOK, UserTypeOK
      <4>2. Head(sendQueue) \in [s : Session, msg : Message]
        BY <4>1, HeadTailProperties
      <4> QED
        BY <4>2
    <3>2. /\ UNCHANGED <<sock, sessionMap, written>>
          /\ UNCHANGED job \/ Goto(Sender, "unregister", c)
      BY <2>4, <3>1 DEF SendTask, PostSend
    <3>3. posted'[s] = posted[s]
      BY <1>2, <2>4, <3>1, SessionTypes DEF SendTask, PostSend
    <3>4. NoNewJob(s)
      BY <3>2, OtherJobs, SessionTypes DEF Op, Weighty
    <3> QED
      BY <1>2, <3>2, <3>3, <3>4, InertStays
  <2>5. CASE SendFreed \/ UNCHANGED vars
    <3>1. UNCHANGED <<sock, sessionMap, job, posted, written>>
      BY <2>5 DEF SendFreed, Crash, sessVars, vars, coreVars
    <3> QED
      BY <2>h, <3>1
  <2> QED
    BY <1>2, <2>1, <2>2, <2>3, <2>4, <2>5 DEF Next, Quiescent
<1> QED
  BY <1>1, <1>2 DEF Unopened

-----------------------------------------------------------------------------
(* The theorem.                                                            *)

\* Each step keeps s sane while s is not registered twice at once.
LEMMA StepSane ==
    ASSUME TypeOK, LoginInv, LoginFirst, Opened, Orderly, [Next]_vars,
           NEW s \in Session, Sane(s), OneRegistration(s)
    PROVE  Sane(s)'
<1>1. CASE Restart
  BY <1>1, RestartSane
<1>2. CASE ~Restart
  <2>0. Unanswered(s)' => Unanswered(s)
    BY <1>2, AnsweredStays
  <2>1. ASSUME NEW c \in Session, Client(c) PROVE Sane(s)'
    BY <2>0, <2>1, ClientSane
  <2>2. CASE Core
    BY <2>0, <2>2, CoreSane DEF Core, Orderly
  <2>3. CASE Handler /\ UNCHANGED phase
    BY <2>0, <2>3, HandlerSane DEF Orderly
  <2>4. CASE Cleaner /\ UNCHANGED phase
    BY <2>0, <2>4, CleanerSane
  <2>5. CASE SendTask \/ SendFreed
    BY <2>0, <2>5, SenderSane
  <2>6. CASE UNCHANGED vars
    <3>1. UNCHANGED <<sock, sessionMap, job, state, name, cln, deleted>>
      BY <2>6 DEF vars, coreVars, sessVars, userVars
    <3> QED
      BY <2>0, <3>1, AppQuiet, QuietKeeps
  <2> QED
    BY <1>2, <2>1, <2>2, <2>3, <2>4, <2>5, <2>6 DEF Next, App, Quiescent
<1> QED
  BY <1>1, <1>2

LEMMA StartOrderly ==
    ASSUME Init
    PROVE  Orderly /\ \A s \in Session : Sane(s)
<1>1. /\ state = [s \in Session |-> "MAINTAIN"] /\ sock = [s \in Session |-> "none"]
      /\ posted = [s \in Session |-> 0] /\ written = [s \in Session |-> 0]
      /\ inbox = [s \in Session |-> None]
      /\ job = [t \in Thread |-> Wait]
      /\ sessionMap = {} /\ deleted = {} /\ cln.dead = {}
      /\ recvQueue = <<>> /\ backlog = <<>>
  BY DEF Init, CoreInit, UserInit, Asleep
<1>2. \A s \in Session : ~Registering(s) /\ ~Closes(s)
  BY <1>1 DEF Registering, Closes, Wait
<1>3. Backlogged /\ Unopened
  BY <1>1, <1>2 DEF Backlogged, Unopened, Inert
<1>4. JoinOnce
  <2>1. None \notin Join
    BY NoneAssumption DEF Join
  <2> QED
    BY <1>1, <2>1 DEF JoinOnce, JoinSent, Queue
<1>5. ASSUME NEW s \in Session PROVE Sane(s)
  BY <1>1, <1>2 DEF Sane, Blank
<1> QED
  BY <1>3, <1>4, <1>5 DEF Orderly

LEMMA StepOrderly ==
    ASSUME TypeOK, TypeOK', LoginInv, Parting, LoginFirst, Opened, Orderly, [Next]_vars
    PROVE  Orderly'
BY StepJoinOnce, StepBacklogged, StepUnopened DEF Orderly

\* What StepSane needs of every state.
Ready == TypeOK /\ LoginInv /\ LoginFirst /\ Opened /\ Orderly

LEMMA ReadyAlways == Spec => []Ready
<1>1. TypeOK /\ LoginInv /\ Parting /\ LoginFirst /\ [Next]_vars => LoginFirst'
  BY StepFirst
<1>2. TypeOK /\ LoginInv /\ Parting /\ Opened /\ [Next]_vars => Opened'
  BY StepOpened
<1>3. /\ TypeOK /\ TypeOK' /\ LoginInv /\ Parting /\ LoginFirst /\ Opened /\ Orderly
      /\ [Next]_vars
      => Orderly'
  BY StepOrderly
<1>4. Init => LoginFirst /\ Opened /\ Orderly
  BY StartTold, StartFirst, StartOrderly DEF Init, CoreInit, UserInit, Started
<1>5. TypeOK /\ LoginInv /\ LoginFirst /\ Opened /\ Orderly => Ready
  BY DEF Ready
<1> QED
  BY <1>1, <1>2, <1>3, <1>4, <1>5, Typing, LoginInvariant, PartingIsExcused, PTL DEF Spec

LEMMA SaneIsIntact ==
    ASSUME TypeOK, NEW s \in Session, Sane(s)
    PROVE  Intact(s)
BY DEF TypeOK, CoreTypeOK, Sane, Intact, users

LEMMA IntactIfOnce ==
    ASSUME NEW s \in Session
    PROVE  Spec => ([]OneRegistration(s) => []Intact(s))
<1>1. Init => Sane(s)
  BY StartOrderly
<1>2. Ready /\ Sane(s) /\ OneRegistration(s) /\ [Next]_vars => Sane(s)'
  BY StepSane DEF Ready
<1>3. Ready /\ Sane(s) => Intact(s)
  BY SaneIsIntact DEF Ready
<1> QED
  BY <1>1, <1>2, <1>3, ReadyAlways, PTL DEF Spec

\* Whatever is asked for and whoever is notified, a session that two workers never
\* register at once is in the table only while its socket is open, is INVALID once the
\* socket of its user was closed, and is in no table when it is freed.
THEOREM SessionsIntact == Spec => IntactUnlessTwice
<1>1. ASSUME NEW s \in Session PROVE Spec => ([]OneRegistration(s) => []Intact(s))
  BY IntactIfOnce
<1> QED
  BY <1>1 DEF IntactUnlessTwice

Once  == \A s \in Session : OneRegistration(s)
Whole == \A s \in Session : Sane(s)

\* The same of all sessions together: as long as no session is registered twice at
\* once, RegisteredIsOpen, ClosedUserIsInvalid and NoFreedSessionInMaps hold.
COROLLARY SessionsIntactTogether ==
    Spec => ([]Once => [](RegisteredIsOpen /\ ClosedUserIsInvalid /\ NoFreedSessionInMaps))
<1>1. Init => Whole
  BY StartOrderly DEF Whole
<1>2. Ready /\ Whole /\ Once /\ [Next]_vars => Whole'
  BY StepSane DEF Ready, Whole, Once
<1>3. Ready /\ Whole /\ FreedUserIsErased
      => RegisteredIsOpen /\ ClosedUserIsInvalid /\ NoFreedSessionInMaps
  <2> SUFFICES ASSUME Ready, Whole, FreedUserIsErased
               PROVE  RegisteredIsOpen /\ ClosedUserIsInvalid /\ NoFreedSessionInMaps
    OBVIOUS
  <2>1. \A s \in Session : Intact(s)
    BY SaneIsIntact DEF Ready, Whole
  <2>2. sessionMap \subseteq Session
    BY DEF Ready, TypeOK, CoreTypeOK
  <2> QED
    BY <2>1, <2>2 DEF Intact, RegisteredIsOpen, ClosedUserIsInvalid, NoFreedSessionInMaps, users
<1> QED
  BY <1>1, <1>2, <1>3, ReadyAlways, FreedUsersErased, PTL DEF Spec
================================================================================
