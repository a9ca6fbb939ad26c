------------------------------ MODULE ColumnProofs -----------------------------
(***************************************************************************)
(* Column State tells the truth about the accounts that had a row when the *)
(* server started.  A login writes the maps and then the column, the       *)
(* cleaner the column and then the maps; that the two cannot be about one  *)
(* session follows from what a login still has before it: until its answer *)
(* is queued its session is not registered, and nothing closes it.         *)
(***************************************************************************)
EXTENDS DirectoryProofs

\* The client of s may still send its login, or the login is being handled.
LoggingIn(s) == ~Past(s) \/ (hnd.pc # "idle" /\ hnd.s = s)

\* Nothing has been done to session s since it was made, and nothing is about to be.
New(s) ==
    /\ state[s] = "MAINTAIN" /\ s \notin sessionMap
    /\ s \notin cln.dead /\ s # cln.cur
    /\ \A t \in Thread : job[t].s = s => job[t].op \notin {"register", "close", "eofclose"}

Join == {r \in Request : r.op = "join"}

\* A connection sends one first request: while its login is handled, or its join
\* is on the way, there is no other.
FirstOnce ==
    /\ hnd.pc # "idle" => Past(hnd.s)
    /\ \A s \in Session :
          (inbox[s] \in Join \/ \E e \in Queue : e.s = s /\ e.req \in Join) => ~LoggingIn(s)

Untouched == \A s \in Session : LoggingIn(s) => New(s)

\* From the insert to the answer a login has its user.
UserStays == hnd.pc \in {"load", "announce", "reply"} => name[hnd.s] = hnd.who

LoginFirst == FirstOnce /\ Untouched /\ UserStays

\* The rows, and the row of the user that is being erased.
RowsTrue ==
    /\ \A a \in Existing : /\ dbState[a] # "ABSENT"
                           /\ InUse(a) => \E s \in Session : name[s] = a
    /\ cln.pc = "erase" => (name[cln.cur] \in Existing => ~InUse(name[cln.cur]))

-----------------------------------------------------------------------------
(* LoginFirst.                                                             *)

LEMMA ColumnTypes ==
    ASSUME TypeOK
    PROVE  /\ hnd = HandlerIdle \/ hnd \in Busy
           /\ hnd.pc # "idle" => hnd.s \in Session /\ hnd.who \in Account
           /\ hnd.pc \in {"idle", "create", "load", "announce", "reply"}
           /\ inbox \in [Session -> Request \cup {None}]
           /\ None \notin Login \cup LastRequest \cup Join \cup Session \cup Account
           /\ state \in [Session -> SessionState]
           /\ name \in [Session -> Account \cup {None}]
           /\ job \in Jobs
           /\ phase \in [Session -> Phase]
           /\ cln.dead \subseteq Session
           /\ cln.pc = "erase" => cln.cur \in Session
<1>1. hnd = HandlerIdle \/ hnd \in Busy
  BY LoginTypes
<1>2. /\ hnd.pc # "idle" => hnd.s \in Session /\ hnd.who \in Account
      /\ hnd.pc \in {"idle", "create", "load", "announce", "reply"}
  BY <1>1 DEF HandlerIdle, Busy
<1>3. cln.dead \subseteq Session /\ (cln.pc = "erase" => cln.cur \in Session)
  BY DEF TypeOK, UserTypeOK
<1>4. None \notin Join /\ None \notin Session /\ None \notin Account
  BY NoneAssumption, AccountAssumption DEF Join
<1> QED
  BY <1>1, <1>2, <1>3, <1>4, NoneNoRequest, LoginTypes
  DEF TypeOK, CoreTypeOK, Jobs

\* A login that has reached the handler has done so for good.
LEMMA PastStays ==
    ASSUME NEW s \in Session, Past(s), None \notin Login,
           phase'[s] = phase[s], inbox'[s] \in {inbox[s], None},
           Queue' \subseteq Queue \cup {[s |-> r, req |-> inbox[r]] : r \in Session}
    PROVE  Past(s)'
<1>1. \A e \in Queue' : e.s = s => e.req \notin Login
  BY DEF Past
<1> QED
  BY <1>1 DEF Past

\* A step in which nobody begins to log in, no first request is sent, and nothing
\* happens to the session of one who may.
LEMMA LoginFirstFrame ==
    ASSUME LoginFirst, TypeOK, UNCHANGED phase,
           \A s \in Session : inbox'[s] \in {inbox[s], None},
           Queue' \subseteq Queue \cup {[s |-> r, req |-> inbox[r]] : r \in Session},
           hnd'.pc # "idle" => hnd.pc # "idle" /\ hnd'.s = hnd.s,
           UserStays',
           \A s \in Session : LoggingIn(s) /\ LoggingIn(s)' /\ New(s) => New(s)'
    PROVE  LoginFirst'
<1>0. None \notin Login /\ None \notin Join
  BY ColumnTypes
<1>1. \A s \in Session : Past(s) => Past(s)'
  BY <1>0, PastStays
<1>2. \A s \in Session : LoggingIn(s)' => LoggingIn(s)
  BY <1>1 DEF LoggingIn
<1>3. FirstOnce'
  <2>1. \A s \in Session :
          (inbox'[s] \in Join \/ \E e \in Queue' : e.s = s /\ e.req \in Join) =>
          (inbox[s] \in Join \/ \E e \in Queue : e.s = s /\ e.req \in Join)
    BY <1>0
  <2>2. ASSUME hnd'.pc # "idle" PROVE Past(hnd.s)'
    <3>1. PICK h \in Session : h = hnd.s /\ h = hnd'.s /\ Past(h)
      BY <2>2, ColumnTypes DEF LoginFirst, FirstOnce
    <3>2. Past(h)'
      BY <1>1, <3>1
    <3> QED
      BY <3>1, <3>2
  <2> QED
    BY <1>2, <2>1, <2>2 DEF LoginFirst, FirstOnce
<1>4. Untouched'
  BY <1>2 DEF LoginFirst, Untouched
<1> QED
  BY <1>3, <1>4 DEF LoginFirst

\* A client's step: whoever sends a join sends nothing else before its answer.
LEMMA ClientFirst ==
    ASSUME TypeOK, LoginInv, LoginFirst, NEW c \in Session, Client(c)
    PROVE  LoginFirst'
<1>0. /\ UNCHANGED <<name, hnd, cln, recvQueue, Queue, state, sessionMap, job>>
      /\ phase \in [Session -> Phase] /\ inbox \in [Session -> Request \cup {None}]
      /\ \A s \in Session : New(s) => New(s)'
  <2>1. UNCHANGED <<name, hnd, cln, recvQueue, state, sessionMap, job>>
    BY DEF Client, Connect, Send, Disconnect, Transmit, SendCompletes, sessVars, userVars
  <2> QED
    BY <2>1, LoginTypes DEF Queue, New
<1>1. UserStays'
  BY <1>0 DEF LoginFirst, UserStays
<1>2. CASE Send(c)
  <2>1. PICK r \in Request :
          /\ \/ phase[c] = "connected" /\ r \in FirstRequest
             \/ phase[c] = "ready" /\ r \in LaterRequest
          /\ inbox' = [inbox EXCEPT ![c] = r]
          /\ phase' = [phase EXCEPT ![c] = IF r.op = "logout" THEN "leaving" ELSE "waiting"]
    BY <1>2 DEF Send
  <2>2. /\ inbox'[c] = r /\ phase'[c] \notin {"idle", "connected"}
        /\ \A s \in Session \ {c} : inbox'[s] = inbox[s] /\ phase'[s] = phase[s]
    BY <1>0, <2>1
  <2>3. \A s \in Session \ {c} : (Past(s)' <=> Past(s)) /\ (LoggingIn(s)' <=> LoggingIn(s))
    BY <1>0, <2>2 DEF Past, LoggingIn
  <2>4. CASE phase[c] = "connected"
    <3>1. LoggingIn(c) /\ ~(hnd.pc # "idle" /\ hnd.s = c)
      BY <2>4, ColumnTypes DEF LoggingIn, Past, LoginFirst, FirstOnce
    <3>2. \A e \in Queue : e.s # c
      BY <2>4 DEF LoginInv, OneLogin, Silent, Queue
    <3>3. r \in Join => ~LoggingIn(c)'
      BY <1>0, <2>2, <3>1, <3>2 DEF LoggingIn, Past, Join, Login
    <3>4. FirstOnce'
      <4>1. ASSUME hnd.pc # "idle" PROVE Past(hnd.s)'
        <5>1. PICK h \in Session : h = hnd.s /\ Past(h) /\ h # c
          BY <3>1, <4>1, ColumnTypes DEF LoginFirst, FirstOnce
        <5>2. Past(h)'
          BY <2>3, <5>1
        <5> QED
          BY <1>0, <5>1, <5>2
      <4> QED
        BY <1>0, <2>2, <2>3, <3>2, <3>3, <4>1 DEF LoginFirst, FirstOnce
    <3>5. Untouched'
      BY <1>0, <2>3, <3>1 DEF LoginFirst, Untouched
    <3> QED
      BY <1>1, <3>4, <3>5 DEF LoginFirst
  <2>5. CASE phase[c] = "ready"
    <3>1. r \notin Login /\ r \notin Join
      BY <2>1, <2>5 DEF LaterRequest, Login, Join
    <3>2. (Past(c) => Past(c)') /\ (LoggingIn(c)' => LoggingIn(c))
      BY <1>0, <2>2, <2>5, <3>1 DEF LoggingIn, Past
    <3>3. FirstOnce'
      <4>1. ASSUME hnd.pc # "idle" PROVE Past(hnd.s)'
        <5>1. PICK h \in Session : h = hnd.s /\ Past(h)
          BY <4>1, ColumnTypes DEF LoginFirst, FirstOnce
        <5>2. Past(h)'
          BY <2>3, <3>2, <5>1
        <5> QED
          BY <1>0, <5>1, <5>2
      <4> QED
        BY <1>0, <2>2, <2>3, <3>1, <3>2, <4>1 DEF LoginFirst, FirstOnce
    <3>4. Untouched'
      BY <1>0, <2>3, <3>2 DEF LoginFirst, Untouched
    <3> QED
      BY <1>1, <3>3, <3>4 DEF LoginFirst
  <2> QED
    BY <2>1, <2>4, <2>5
<1>3. CASE Connect(c) \/ Disconnect(c) \/ Transmit(c)
  <2>1. UNCHANGED inbox
    BY <1>3 DEF Connect, Disconnect, Transmit, SendCompletes, netVars
  <2>2. \A s \in Session : phase'[s] \in {"idle", "connected"} <=> phase[s] \in {"idle", "connected"}
    <3>1. CASE Connect(c)
      BY <1>0, <3>1 DEF Connect, LoginInv, OneLogin
    <3>2. CASE Disconnect(c)
      BY <3>2 DEF Disconnect
    <3>3. CASE Transmit(c)
      BY <1>0, <3>3 DEF Transmit, After
    <3> QED
      BY <1>3, <3>1, <3>2, <3>3
  <2>3. \A s \in Session : (Past(s)' <=> Past(s)) /\ (LoggingIn(s)' <=> LoggingIn(s))
    BY <1>0, <2>1, <2>2 DEF Past, LoggingIn
  <2>4. ASSUME hnd.pc # "idle" PROVE Past(hnd.s)'
    <3>1. PICK h \in Session : h = hnd.s /\ Past(h)
      BY <2>4, ColumnTypes DEF LoginFirst, FirstOnce
    <3> QED
      BY <1>0, <2>3, <3>1
  <2>5. FirstOnce'
    BY <1>0, <2>1, <2>3, <2>4 DEF LoginFirst, FirstOnce
  <2>6. Untouched'
    BY <1>0, <2>3 DEF LoginFirst, Untouched
  <2> QED
    BY <1>1, <2>5, <2>6 DEF LoginFirst
<1> QED
  BY <1>2, <1>3 DEF Client

\* A worker has nothing to register or to close for a session that is new.
LEMMA CoreFirst ==
    ASSUME TypeOK, LoginFirst, CoreNext, UNCHANGED <<userVars, phase>>
    PROVE  LoginFirst'
<1> USE DEF netVars, sessVars
<1>0. /\ inbox \in [Session -> Request \cup {None}] /\ state \in [Session -> SessionState]
      /\ job \in Jobs /\ Worker \subseteq Thread
      /\ UNCHANGED <<name, hnd, cln, phase>>
  BY ColumnTypes DEF Thread, userVars
<1>1. UserStays'
  BY <1>0 DEF LoginFirst, UserStays
<1>2. /\ \A s \in Session : inbox'[s] \in {inbox[s], None}
      /\ Queue' \subseteq Queue \cup {[s |-> r, req |-> inbox[r]] : r \in Session}
  <2>1. CASE UNCHANGED <<inbox, recvQueue>>
    BY <2>1 DEF Queue
  <2>2. ASSUME NEW c \in Session, inbox[c] # None, ReceivePacket(c)
        PROVE  /\ \A s \in Session : inbox'[s] \in {inbox[s], None}
               /\ Queue' \subseteq Queue \cup {[s |-> r, req |-> inbox[r]] : r \in Session}
    <3>1. Queue' = Queue \cup {[s |-> c, req |-> inbox[c]]}
      BY <2>2, QueueAppend
    <3> QED
      BY <1>0, <2>2, <3>1 DEF ReceivePacket
  <2>3. ASSUME NEW t \in Worker, Accept(t) PROVE \E c \in Session : inbox[c] # None /\ ReceivePacket(c)
    <3>1. Head(backlog) \in Session
      BY <2>3 DEF Accept, TypeOK, CoreTypeOK
    <3> QED
      BY <2>3, <3>1 DEF Accept
  <2>4. ASSUME NEW t \in Worker, NEW c \in Session, Receive(t, c)
        PROVE  inbox[c] # None /\ ReceivePacket(c)
    BY <2>4 DEF Receive
  <2>5. CASE /\ ~\E t \in Worker : Accept(t)
             /\ ~\E t \in Worker, c \in Session : Receive(t, c)
    <3>1. UNCHANGED <<inbox, recvQueue>>
      BY <2>5 DEF CoreNext, Kernel, DataArrives, ReceiveEnds, SendFails, AcceptEmpty,
         Completion, ZeroBytes, HandleWriteCompletion, Continue, PostReceive,
         RegisterSession, UnregisterSession, Close, UseAfterDelete
    <3> QED
      BY <2>1, <3>1
  <2> QED
    BY <2>2, <2>3, <2>4, <2>5
\* What a thread is given to do.
<1>a. \A t \in Thread, s \in Session : Done(t) \/ UNCHANGED job =>
          \A u \in Thread : job'[u].s = s => job'[u] = job[u] \/ job'[u] = Wait
  BY <1>0 DEF Done, Jobs
<1>b. \A t \in Thread, op \in Op, r, s \in Session : Goto(t, op, r) =>
          \A u \in Thread : job'[u].s = s => job'[u] = job[u] \/ (r = s /\ job'[u].op = op)
  BY <1>0 DEF Goto, Jobs
<1>3. ASSUME NEW s \in Session, New(s) PROVE New(s)'
  <2> USE DEF New
  <2>1. ASSUME NEW c \in Session, Kernel(c) PROVE New(s)'
    BY <1>0, <1>3, <2>1 DEF Kernel, DataArrives, ReceiveEnds, SendFails
  <2>2. ASSUME NEW t \in Worker, Accept(t) PROVE New(s)'
    <3>1. Head(backlog) \in Session
      BY <2>2 DEF Accept, TypeOK, CoreTypeOK
    <3>2. UNCHANGED <<state, sessionMap>> /\ Goto(t, "accept", Head(backlog)) /\ "accept" \in Op
      BY <2>2 DEF Accept, Op
    <3> QED
      BY <1>0, <1>3, <1>b, <3>1, <3>2
  <2>3. ASSUME NEW t \in Worker, AcceptEmpty(t) PROVE New(s)'
    BY <1>0, <1>3, <2>3 DEF AcceptEmpty
  <2>4. ASSUME NEW t \in Worker, NEW c \in Session, Receive(t, c) PROVE New(s)'
    <3>1. UNCHANGED <<state, sessionMap>> /\ Goto(t, "receive", c) /\ "receive" \in Op
      BY <2>4 DEF Receive, Op
    <3> QED
      BY <1>0, <1>3, <1>b, <3>1
  <2>5. ASSUME NEW t \in Worker, NEW c \in Session, ZeroBytes(t, c) PROVE New(s)'
    <3>1. /\ UNCHANGED <<state, sessionMap>> /\ {"eof", "unregister"} \subseteq Op
          /\ Goto(t, "eof", c) \/ Goto(t, "unregister", c)
      BY <2>5 DEF ZeroBytes, Op
    <3> QED
      BY <1>0, <1>3, <1>b, <3>1
  <2>6. ASSUME NEW t \in Worker, NEW c \in Session, HandleWriteCompletion(t, c) PROVE New(s)'
    <3>1. UNCHANGED <<state, sessionMap>>
      BY <2>6 DEF HandleWriteCompletion
    <3>2. CASE UNCHANGED job
      BY <1>0, <1>3, <3>1, <3>2
    <3>3. CASE c # s /\ \E op \in Op : Goto(t, op, c)
      BY <1>0, <1>3, <1>b, <3>1, <3>3
    <3>4. \A st \in {"REGISTER", "CLOSE", "UNREGISTER"} : WriteCompleted(st) \in Op
      BY DEF WriteCompleted, Op
    <3> QED
      BY <1>3, <2>6, <3>2, <3>3, <3>4 DEF HandleWriteCompletion
  <2>7. ASSUME NEW t \in Thread, PostReceive(t) PROVE New(s)'
    <3>1. job[t].s \in Session /\ "unregister" \in Op
      BY <2>7, JobTyped DEF PostReceive, TypeOK, Op
    <3>2. UNCHANGED <<state, sessionMap>> /\ (Done(t) \/ Goto(t, "unregister", job[t].s))
      BY <2>7 DEF PostReceive
    <3> QED
      BY <1>0, <1>3, <1>a, <1>b, <3>1, <3>2 DEF Wait
  <2>8. ASSUME NEW t \in Thread, RegisterSession(t) PROVE New(s)'
    <3>1. job[t].s # s /\ Done(t)
      BY <1>3, <2>8 DEF RegisterSession
    <3>2. state'[s] = state[s] /\ s \notin sessionMap'
      BY <1>0, <1>3, <2>8, <3>1 DEF RegisterSession
    <3> QED
      BY <1>0, <1>3, <1>a, <3>1, <3>2 DEF Wait
  <2>9. ASSUME NEW t \in Thread, UnregisterSession(t) PROVE New(s)'
    <3>1. job[t].s \in Session /\ {"unregister", "close", "eofclose"} \subseteq Op
      BY <2>9, JobTyped DEF UnregisterSession, TypeOK, Op
    <3>2. UNCHANGED state /\ s \notin sessionMap'
      BY <1>3, <2>9 DEF UnregisterSession, MapWithout
    <3>3. \/ Done(t) \/ Goto(t, "unregister", job[t].s)
          \/ job[t].s # s /\ \E op \in Op : Goto(t, op, job[t].s)
      BY <1>3, <2>9, <3>1 DEF UnregisterSession
    <3> QED
      BY <1>0, <1>3, <1>a, <1>b, <3>1, <3>2, <3>3 DEF Wait
  <2>10. ASSUME NEW t \in Thread, Close(t) PROVE New(s)'
    <3>1. job[t].s \in Session /\ "unregister" \in Op /\ job[t].s # s
      BY <1>3, <2>10, JobTyped DEF Close, TypeOK, Op
    <3>2. state'[s] = state[s] /\ UNCHANGED sessionMap
      BY <1>0, <2>10, <3>1 DEF Close, CloseSession
    <3>3. Done(t) \/ Goto(t, "unregister", job[t].s)
      BY <2>10 DEF Close
    <3> QED
      BY <1>0, <1>3, <1>a, <1>b, <3>1, <3>2, <3>3 DEF Wait
  <2>11. ASSUME NEW t \in Thread, UseAfterDelete(t) PROVE New(s)'
    BY <1>0, <1>3, <2>11 DEF UseAfterDelete
  <2> QED
    BY <2>1, <2>2, <2>3, <2>4, <2>5, <2>6, <2>7, <2>8, <2>9, <2>10, <2>11
    DEF CoreNext, Completion, Continue
<1> QED
  BY <1>0, <1>1, <1>2, <1>3, LoginFirstFrame

\* The cleaner finds sessions that were closed, and the send thread closes none
\* that is not registered.
LEMMA CleanerFirst ==
    ASSUME TypeOK, LoginFirst, Cleaner \/ SendTask \/ SendFreed, UNCHANGED phase
    PROVE  LoginFirst'
<1>0. /\ name \in [Session -> Account \cup {None}] /\ job \in Jobs
      /\ cln.dead \subseteq Session /\ (cln.pc = "erase" => cln.cur \in Session)
      /\ None \notin Session
  BY ColumnTypes
<1>1. UNCHANGED <<inbox, state, sessionMap, recvQueue, Queue, hnd>>
  <2>1. UNCHANGED <<inbox, state, sessionMap, recvQueue, hnd>>
    BY DEF Cleaner, Snapshot, Scan, ScanEnds, Reap, ReapFails, Erase, CleanerOnly, Crash,
           SendTask, SendFreed, PostSend, coreVars, netVars, sessVars, userVars
  <2> QED
    BY <2>1 DEF Queue
<1>2. UserStays'
  <2>1. CASE Erase
    <3>1. name' = [name EXCEPT ![cln.cur] = None]
      BY <2>1 DEF Erase, EraseUser
    <3>2. ASSUME hnd.pc \in {"load", "announce", "reply"} PROVE hnd.s \in Session /\ hnd.s # cln.cur
      BY <3>2, ColumnTypes DEF LoginFirst, Untouched, LoggingIn, New
    <3> QED
      BY <1>0, <1>1, <3>1, <3>2 DEF LoginFirst, UserStays
  <2>2. CASE ~Erase
    <3>1. UNCHANGED name
      BY <2>2 DEF Cleaner, Snapshot, Scan, ScanEnds, Reap, ReapFails, CleanerOnly, Crash,
             SendTask, SendFreed, userVars
    <3> QED
      BY <1>1, <3>1 DEF LoginFirst, UserStays
  <2> QED
    BY <2>1, <2>2
<1>3. ASSUME NEW s \in Session, New(s) PROVE New(s)'
  <2> USE DEF New
  <2>1. CASE Cleaner
    <3>1. UNCHANGED job
      BY <2>1 DEF Cleaner, Snapshot, Scan, ScanEnds, Reap, ReapFails, Erase, CleanerOnly,
             Crash, coreVars
    <3>2. s \notin cln'.dead /\ s # cln'.cur
      <4>1. CASE Snapshot \/ ScanEnds
        BY <1>3, <4>1 DEF Snapshot, ScanEnds, TypeOK, UserTypeOK
      <4>2. ASSUME NEW c \in Session, Scan(c) PROVE s \notin cln'.dead /\ s # cln'.cur
        BY <1>3, <4>2 DEF Scan, IsValid, TypeOK, UserTypeOK
      <4>3. ASSUME NEW c \in Session, Reap(c) PROVE s \notin cln'.dead /\ s # cln'.cur
        BY <1>3, <4>3 DEF Reap, TypeOK, UserTypeOK
      <4>4. ASSUME NEW c \in Session, ReapFails(c) PROVE s \notin cln'.dead /\ s # cln'.cur
        BY <1>3, <4>4 DEF ReapFails, Crash, userVars
      <4>5. CASE Erase
        BY <1>0, <1>3, <4>5 DEF Erase, Asleep, TypeOK, UserTypeOK
      <4> QED
        BY <2>1, <4>1, <4>2, <4>3, <4>4, <4>5 DEF Cleaner
    <3> QED
      BY <1>1, <1>3, <3>1, <3>2
  <2>2. CASE SendTask \/ SendFreed
    <3>1. UNCHANGED cln
      BY <2>2 DEF SendTask, SendFreed, Crash, userVars
    <3>2. UNCHANGED job \/ \E c : Goto(Sender, "unregister", c)
      BY <2>2 DEF SendTask, SendFreed, PostSend, Crash
    <3>3. \A t \in Thread : job'[t] = job[t] \/ job'[t].op = "unregister"
      BY <1>0, <3>2 DEF Goto, Jobs
    <3> QED
      BY <1>1, <1>3, <3>1, <3>3
  <2> QED
    BY <2>1, <2>2
<1> QED
  BY <1>1, <1>2, <1>3, LoginFirstFrame

\* A process has just started.
Started ==
    /\ hnd = HandlerIdle /\ cln = Asleep
    /\ inbox = [s \in Session |-> None] /\ recvQueue = <<>>
    /\ state = [s \in Session |-> "MAINTAIN"] /\ sessionMap = {}
    /\ job = [t \in Thread |-> Wait]

\* All its sessions are new.
LEMMA StartFirst == Started => LoginFirst
<1> SUFFICES ASSUME Started PROVE LoginFirst
  OBVIOUS
<1> USE DEF Started
<1>1. Queue = {} /\ None \notin Join /\ None \notin Session
  BY NoneAssumption DEF Queue, Join
<1>2. FirstOnce /\ UserStays
  BY <1>1 DEF FirstOnce, UserStays, HandlerIdle
<1>3. Untouched
  BY <1>1 DEF Untouched, New, Asleep, Wait
<1> QED
  BY <1>2, <1>3 DEF LoginFirst

LEMMA RestartFirst ==
    ASSUME Restart
    PROVE  LoginFirst'
<1>1. Started'
  BY DEF Restart, CoreRestart, UserRestart, Started
<1> QED
  BY <1>1, StartFirst, PTL

\* A handler's step.  Whoever's session it changes has its login behind it.
LEMMA HandlerFirst ==
    ASSUME TypeOK, LoginInv, LoginFirst, Handler, UNCHANGED phase
    PROVE  LoginFirst'
<1>0. /\ state \in [Session -> SessionState] /\ name \in [Session -> Account \cup {None}]
      /\ hnd = HandlerIdle \/ hnd \in Busy
      /\ UNCHANGED <<inbox, sessionMap, cln, job>>
  <2>1. UNCHANGED <<inbox, sessionMap, cln, job>>
    BY DEF Handler, DropPacket, RefuseLogin, AcceptLogin, CreateActiveUser, LoadFriends,
           LoadFails, AnnounceLogin, GrantLogin, Grant, LoginFails, Crash, HandleLogout,
           LogoutFails, HandleJoin, HandleFind, FindFails, coreVars, netVars, userVars
  <2> QED
    BY <2>1, ColumnTypes
<1>a. ASSUME Queue' \subseteq Queue, UserStays',
             hnd'.pc # "idle" => hnd.pc # "idle" /\ hnd'.s = hnd.s,
             \A s \in Session : state'[s] = state[s] \/ ~LoggingIn(s) \/ ~LoggingIn(s)'
      PROVE  LoginFirst'
  <2>1. \A s \in Session : LoggingIn(s) /\ LoggingIn(s)' /\ New(s) => New(s)'
    BY <1>0, <1>a DEF New
  <2> QED
    BY <1>0, <1>a, <2>1, LoginFirstFrame
<1>1. CASE DropPacket \/ HandleFind
  <2>1. Queue' \subseteq Queue /\ UNCHANGED <<state, hnd, name>>
    BY <1>1, HeadRequest DEF DropPacket, HandleFind, sessVars, userVars
  <2>2. UserStays'
    BY <2>1 DEF LoginFirst, UserStays
  <2> QED
    BY <1>a, <2>1, <2>2
<1>2. CASE LoginFails \/ LogoutFails \/ FindFails
  <2>1. UNCHANGED <<state, hnd, name, Queue>>
    BY <1>2 DEF LoginFails, LogoutFails, FindFails, Crash, sessVars, userVars, Queue
  <2>2. UserStays'
    BY <2>1 DEF LoginFirst, UserStays
  <2> QED
    BY <1>a, <2>1, <2>2
<1>3. CASE RefuseLogin
  <2>1. PICK f : f = From
    OBVIOUS
  <2>2. /\ Queue' \subseteq Queue /\ UNCHANGED <<hnd, name>> /\ Packet("login") /\ Popped
        /\ hnd.pc = "idle" /\ \A s \in Session : state'[s] = state[s] \/ s = f
    BY <1>0, <1>3, <2>1, HeadRequest DEF RefuseLogin, SetState, Packet
  <2>3. Past(f)'
    BY <1>0, <2>1, <2>2, LoginIsPast
  <2>4. ~LoggingIn(f)'
    BY <2>2, <2>3 DEF LoggingIn
  <2>5. UserStays'
    BY <2>2 DEF LoginFirst, UserStays
  <2> QED
    BY <1>a, <2>2, <2>4, <2>5
<1>4. CASE AcceptLogin
  <2>1. PICK f : f = From
    OBVIOUS
  <2>2. /\ Queue' \subseteq Queue /\ UNCHANGED state /\ Packet("login") /\ Popped
        /\ hnd.pc = "idle" /\ hnd' = [pc |-> "create", s |-> f, who |-> Who]
        /\ f \in Session /\ \E e \in Queue : e.s = f /\ e.req \in Login
    BY <1>4, <2>1, HeadRequest DEF AcceptLogin, sessVars, Packet
  <2>3. Past(f)' /\ LoggingIn(f)
    BY <1>0, <2>1, <2>2, LoginIsPast DEF LoggingIn, Past
  <2>4. \A s \in Session : LoggingIn(s)' => LoggingIn(s)
    BY <1>0, <2>2, <2>3 DEF LoggingIn, Past
  <2>5. FirstOnce'
    <3>1. (hnd.pc # "idle" => Past(hnd.s))'
      BY <2>2, <2>3 DEF Past
    <3>2. \A s \in Session : (inbox'[s] \in Join \/ \E e \in Queue' : e.s = s /\ e.req \in Join)
                               => ~LoggingIn(s)'
      BY <1>0, <2>2, <2>4 DEF LoginFirst, FirstOnce
    <3> QED
      BY <3>1, <3>2 DEF FirstOnce
  <2>6. Untouched'
    BY <1>0, <2>2, <2>4 DEF LoginFirst, Untouched, New
  <2>7. UserStays'
    BY <2>2 DEF UserStays
  <2> QED
    BY <2>5, <2>6, <2>7 DEF LoginFirst
<1>5. CASE CreateActiveUser
  <2>1. /\ UNCHANGED <<state, Queue>> /\ hnd.pc = "create" /\ hnd' = [hnd EXCEPT !.pc = "load"]
        /\ LockFree /\ InsertUser(hnd.s, hnd.who)
    BY <1>5 DEF CreateActiveUser, coreVars, sessVars, Queue
  <2>2. hnd \in Busy /\ hnd.s \in Session
    BY <1>0, <2>1 DEF HandlerIdle, Busy
  <2>3. hnd'.s = hnd.s /\ hnd'.who = hnd.who
    BY <2>1, <2>2 DEF Busy
  <2>4. name[hnd.s] = None
    BY <2>1 DEF LoginInv, FreeToCreate
  <2>5. name'[hnd.s] = hnd.who
    BY <1>0, <2>1, <2>2, <2>4 DEF InsertUser
  <2>6. UserStays'
    BY <2>3, <2>5 DEF UserStays
  <2> QED
    BY <1>a, <2>1, <2>3, <2>6
<1>6. CASE LoadFriends \/ LoadFails
  <2>1. /\ UNCHANGED <<state, name, Queue>> /\ hnd.pc = "load"
        /\ hnd' \in {[hnd EXCEPT !.pc = "announce"], [hnd EXCEPT !.pc = "reply"]}
    BY <1>6 DEF LoadFriends, LoadFails, coreVars, sessVars, Queue
  <2>2. hnd \in Busy
    BY <1>0, <2>1 DEF HandlerIdle
  <2>3. hnd'.s = hnd.s /\ hnd'.who = hnd.who
    BY <2>1, <2>2 DEF Busy
  <2>4. UserStays'
    BY <2>1, <2>3 DEF LoginFirst, UserStays
  <2> QED
    BY <1>a, <2>1, <2>3, <2>4
<1>7. CASE AnnounceLogin \/ GrantLogin
  <2>1. PICK f : f = hnd.s
    OBVIOUS
  <2>2. /\ UNCHANGED <<name, Queue>> /\ hnd.pc # "idle" /\ hnd' = HandlerIdle
        /\ \A s \in Session : state'[s] = state[s] \/ s = f
    BY <1>0, <1>7, <2>1 DEF AnnounceLogin, GrantLogin, Grant, SetState, Queue
  <2>3. Past(f)
    BY <2>1, <2>2 DEF LoginFirst, FirstOnce
  <2>4. Past(f)' /\ ~LoggingIn(f)'
    BY <1>0, <2>2, <2>3 DEF Past, LoggingIn, HandlerIdle
  <2>5. UserStays'
    BY <2>2 DEF UserStays, HandlerIdle
  <2> QED
    BY <1>a, <2>2, <2>4, <2>5 DEF HandlerIdle
<1>8. CASE HandleLogout
  <2>1. PICK f : f = From
    OBVIOUS
  <2>2. /\ Queue' \subseteq Queue /\ UNCHANGED hnd /\ hnd.pc = "idle"
        /\ \A s \in Session : state'[s] = state[s] \/ s = f
        /\ f \in Session /\ name[f] # None
    BY <1>0, <1>8, <2>1, HeadRequest DEF HandleLogout, SetState, Packet, users
  <2>3. ~LoggingIn(f)
    <3>1. \A e \in Queue : e.req \in Login => e.s # f
      BY <2>2 DEF LoginInv, OneLogin, Queue
    <3> QED
      BY <2>2, <3>1 DEF LoggingIn, Past, LoginInv, OneLogin, MayLogIn
  <2>4. UserStays'
    BY <2>2 DEF UserStays
  <2> QED
    BY <1>a, <2>2, <2>3, <2>4
<1>9. CASE HandleJoin
  <2>1. PICK f : f = From
    OBVIOUS
  <2>2. /\ Queue' \subseteq Queue /\ UNCHANGED <<hnd, name>> /\ hnd.pc = "idle"
        /\ \A s \in Session : state'[s] = state[s] \/ s = f
    BY <1>0, <1>9, <2>1, HeadRequest DEF HandleJoin, SetState, Packet
  <2>3. f \in Session /\ \E e \in Queue : e.s = f /\ e.req \in Join
    <3>1. Head(recvQueue) \in Queue /\ Head(recvQueue) \in RecvItem
      BY <1>9, QueueTail DEF HandleJoin, Packet
    <3> QED
      BY <1>9, <2>1, <3>1 DEF HandleJoin, Packet, From, RecvItem, Join
  <2>4. ~LoggingIn(f)
    BY <2>3 DEF LoginFirst, FirstOnce
  <2>5. UserStays'
    BY <2>2 DEF UserStays
  <2> QED
    BY <1>a, <2>2, <2>4, <2>5
<1> QED
  BY <1>1, <1>2, <1>3, <1>4, <1>5, <1>6, <1>7, <1>8, <1>9 DEF Handler

LEMMA StepFirst ==
    ASSUME TypeOK, LoginInv, LoginFirst, [Next]_vars
    PROVE  LoginFirst'
<1>1. CASE UNCHANGED vars
  BY <1>1 DEF vars, coreVars, netVars, sessVars, userVars, LoginFirst, FirstOnce, Untouched,
              UserStays, LoggingIn, Past, New, Queue
<1>2. CASE SendTask \/ SendFreed
  <2>1. UNCHANGED phase
    BY <1>2 DEF SendTask, SendFreed
  <2> QED
    BY <1>2, <2>1, CleanerFirst
<1> QED
  BY <1>1, <1>2, ClientFirst, CoreFirst, HandlerFirst, CleanerFirst, RestartFirst
  DEF Next, Core, App, Quiescent

-----------------------------------------------------------------------------
(* RowsTrue.                                                               *)

\* A step that leaves the rows, the users and the user being erased alone.
LEMMA RowsFrame ==
    ASSUME RowsTrue, UNCHANGED <<dbState, name>>, cln'.pc = "erase" => cln' = cln
    PROVE  RowsTrue'
BY DEF RowsTrue, InUse

LEMMA HandlerRows ==
    ASSUME TypeOK, LoginInv, LoginFirst, RowsTrue, Handler
    PROVE  RowsTrue'
<1>0. /\ dbState \in [Account -> {"ABSENT", "ONLINE", "IN_GAME", "OFFLINE"}]
      /\ name \in [Session -> Account \cup {None}]
      /\ Existing \subseteq Account /\ None \notin Account
      /\ hnd.pc # "idle" => hnd.s \in Session /\ hnd.who \in Account
      /\ cln.pc = "erase" => cln.cur \in Session
      /\ UNCHANGED cln
  <2>1. UNCHANGED cln
    BY DEF Handler, DropPacket, RefuseLogin, AcceptLogin, CreateActiveUser, LoadFriends,
           LoadFails, AnnounceLogin, GrantLogin, Grant, LoginFails, Crash, HandleLogout,
           LogoutFails, HandleJoin, HandleFind, FindFails, userVars
  <2> QED
    BY <2>1, LoginTypes, ColumnTypes, OptionAssumption
<1>1. CASE CreateActiveUser
  <2>1. /\ UNCHANGED dbState /\ cln.pc # "erase" /\ hnd.s \in Session
        /\ name[hnd.s] = None /\ name' = [name EXCEPT ![hnd.s] = hnd.who]
    BY <1>0, <1>1 DEF CreateActiveUser, LockFree, InsertUser, LoginInv, FreeToCreate
  <2>2. \A s \in Session : name[s] # None => name'[s] = name[s]
    BY <1>0, <2>1
  <2>3. ASSUME NEW a \in Existing, InUse(a) PROVE \E s \in Session : name'[s] = a
    BY <1>0, <2>2, <2>3 DEF RowsTrue
  <2> QED
    BY <1>0, <2>1, <2>3 DEF RowsTrue, InUse
<1>2. CASE LoadFriends \/ LoadFails \/ AnnounceLogin
  <2>1. /\ UNCHANGED name /\ hnd.pc \in {"load", "announce"}
        /\ \E st \in {"IN_GAME", "ONLINE"} : dbState' = [dbState EXCEPT ![hnd.who] = st]
    BY <1>2 DEF LoadFriends, LoadFails, AnnounceLogin, UpdateState, Grant
  <2>2. hnd.s \in Session /\ name[hnd.s] = hnd.who /\ hnd.s # cln.cur
    BY <1>0, <2>1 DEF LoginFirst, UserStays, Untouched, LoggingIn, New
  <2>3. cln.pc = "erase" => name[cln.cur] # hnd.who
    <3>1. \A r \in Session : name[r] = hnd.who => names[hnd.who] = r
      BY <1>0, <2>1 DEF LoginInv, NamesIndex
    <3> QED
      BY <1>0, <2>2, <3>1
  <2>4. \A a \in Existing : dbState'[a] = dbState[a] \/ a = hnd.who
    BY <1>0, <2>1
  <2>5. \A a \in Existing : dbState'[a] # "ABSENT"
    BY <1>0, <2>1 DEF RowsTrue
  <2> QED
    BY <1>0, <2>1, <2>2, <2>3, <2>4, <2>5 DEF RowsTrue, InUse
<1>3. CASE HandleLogout
  <2> DEFINE f == From
  <2>1. /\ f \in Session /\ name[f] \in Account /\ cln.pc # "erase"
        /\ dbState' = [dbState EXCEPT ![name[f]] = "OFFLINE"]
        /\ name' = [name EXCEPT ![f] = None]
    BY <1>0, <1>3 DEF HandleLogout, LockFree, UpdateState, EraseUser, users
  <2> HIDE DEF f
  <2>2. \A a \in Existing : dbState'[a] # "ABSENT"
    BY <1>0, <2>1 DEF RowsTrue
  <2>3. ASSUME NEW a \in Existing, InUse(a)' PROVE \E s \in Session : name'[s] = a
    <3>1. a # name[f] /\ InUse(a)
      BY <1>0, <2>1, <2>3 DEF InUse
    <3>2. PICK s \in Session : name[s] = a
      BY <3>1 DEF RowsTrue
    <3> QED
      BY <1>0, <2>1, <3>1, <3>2
  <2> QED
    BY <1>0, <2>1, <2>2, <2>3 DEF RowsTrue
<1>4. CASE HandleJoin
  <2>1. /\ UNCHANGED name
        /\ \/ UNCHANGED dbState
           \/ /\ Who \in Account /\ dbState[Who] = "ABSENT"
              /\ dbState' = [dbState EXCEPT ![Who] = "ONLINE"]
    BY <1>4 DEF HandleJoin
  <2>2. \A a \in Existing : dbState'[a] = dbState[a]
    BY <1>0, <2>1 DEF RowsTrue
  <2> QED
    BY <1>0, <2>1, <2>2 DEF RowsTrue, InUse
<1>5. CASE /\ ~CreateActiveUser /\ ~LoadFriends /\ ~LoadFails /\ ~AnnounceLogin
           /\ ~HandleLogout /\ ~HandleJoin
  <2>1. UNCHANGED <<dbState, name>>
    BY <1>5 DEF Handler, DropPacket, RefuseLogin, AcceptLogin, GrantLogin, Grant, LoginFails,
                Crash, LogoutFails, HandleFind, FindFails, userVars
  <2> QED
    BY <1>0, <2>1, RowsFrame
<1> QED
  BY <1>1, <1>2, <1>3, <1>4, <1>5

LEMMA CleanerRows ==
    ASSUME TypeOK, LoginInv, RowsTrue, Cleaner
    PROVE  RowsTrue'
<1>0. /\ dbState \in [Account -> {"ABSENT", "ONLINE", "IN_GAME", "OFFLINE"}]
      /\ name \in [Session -> Account \cup {None}]
      /\ Existing \subseteq Account /\ None \notin Account
      /\ cln.pc = "erase" => cln.cur \in Session
  BY LoginTypes, ColumnTypes, OptionAssumption
<1>1. ASSUME NEW c \in Session, Reap(c) PROVE RowsTrue'
  <2>1. /\ name[c] \in Account /\ UNCHANGED name /\ cln'.cur = c
        /\ dbState' = [dbState EXCEPT ![name[c]] = "OFFLINE"]
    BY <1>0, <1>1 DEF Reap, UpdateState, users, TypeOK, UserTypeOK
  <2>2. \A a \in Existing : dbState'[a] # "ABSENT" /\ (InUse(a)' => InUse(a))
    BY <1>0, <2>1 DEF RowsTrue, InUse
  <2>3. ~InUse(name[c])'
    BY <1>0, <2>1 DEF InUse
  <2> QED
    BY <2>1, <2>2, <2>3 DEF RowsTrue, InUse
<1>2. CASE Erase
  <2>1. /\ UNCHANGED dbState /\ cln.pc = "erase" /\ cln'.pc # "erase"
        /\ name' = [name EXCEPT ![cln.cur] = None]
    BY <1>2 DEF Erase, EraseUser, Asleep, TypeOK, UserTypeOK
  <2>2. ASSUME NEW a \in Existing, InUse(a) PROVE \E s \in Session : name'[s] = a
    <3>1. PICK s \in Session : name[s] = a
      BY <2>2 DEF RowsTrue
    <3>2. s # cln.cur
      BY <2>1, <2>2, <3>1 DEF RowsTrue
    <3> QED
      BY <1>0, <2>1, <3>1, <3>2
  <2> QED
    BY <2>1, <2>2 DEF RowsTrue, InUse
<1>3. CASE Snapshot \/ ScanEnds \/ \E c \in Session : Scan(c) \/ ReapFails(c)
  <2>1. UNCHANGED <<dbState, name>>
    BY <1>3 DEF Snapshot, ScanEnds, Scan, ReapFails, CleanerOnly, Crash, userVars
  <2>2. cln'.pc # "erase"
    BY <1>3 DEF Snapshot, ScanEnds, Scan, ReapFails, Crash, userVars, TypeOK, UserTypeOK
  <2> QED
    BY <2>1, <2>2, RowsFrame
<1> QED
  BY <1>1, <1>2, <1>3 DEF Cleaner

\* The constructor resets the column of every row there is.
LEMMA RestartRows ==
    ASSUME TypeOK, RowsTrue, Restart
    PROVE  RowsTrue'
<1>1. \A a \in Existing : a \in Account /\ dbState[a] # "ABSENT"
  BY OptionAssumption DEF RowsTrue
<1>2. \A a \in Existing : dbState'[a] = "OFFLINE"
  BY <1>1 DEF Restart, UserRestart, AllOffline
<1>3. cln'.pc # "erase"
  BY DEF Restart, UserRestart, Asleep
<1> QED
  BY <1>2, <1>3 DEF RowsTrue, InUse

LEMMA StepRows ==
    ASSUME TypeOK, LoginInv, LoginFirst, RowsTrue, [Next]_vars
    PROVE  RowsTrue'
<1>1. CASE \/ \E s \in Session : Client(s)
           \/ Core \/ SendTask \/ SendFreed \/ UNCHANGED vars
  <2>1. UNCHANGED <<dbState, name, cln>>
    BY <1>1 DEF Client, Connect, Send, Disconnect, Transmit, Core, SendTask, SendFreed, Crash,
                userVars, vars
  <2> QED
    BY <2>1, RowsFrame
<1> QED
  BY <1>1, HandlerRows, CleanerRows, RestartRows DEF Next, App, Quiescent

\* What the proof needs is so when the server is started.
LEMMA StartAsSpecified == Init => LoginInv /\ LoginFirst /\ RowsTrue
<1>1. Init => LoginInv
  BY StartKeepsLogin DEF Fresh, Init, CoreInit, UserInit
<1>2. Init => LoginFirst
  BY StartFirst DEF Init, CoreInit, UserInit, Started
<1>3. Init => RowsTrue
  <2>1. Init => /\ \A a \in Existing : dbState[a] = "OFFLINE"
                /\ cln.pc # "erase"
    BY OptionAssumption DEF Init, UserInit, Asleep
  <2> QED
    BY <2>1 DEF RowsTrue, InUse
<1> QED
  BY <1>1, <1>2, <1>3

\* Column State tells the truth about the accounts the server found, between any
\* two steps of a login, a logout, the cleaner and a restart.
THEOREM ColumnTellsTheTruth == Spec => []StateColumnTruthful
<1>1. Init => LoginFirst
  BY StartAsSpecified
<1>2. Init => RowsTrue
  BY StartAsSpecified
<1>3. TypeOK /\ LoginInv /\ LoginFirst /\ [Next]_vars => LoginFirst'
  BY StepFirst
<1>4. TypeOK /\ LoginInv /\ LoginFirst /\ RowsTrue /\ [Next]_vars => RowsTrue'
  BY StepRows
<1>5. LoginInv /\ RowsTrue => StateColumnTruthful
  BY AccountAssumption, OptionAssumption
  DEF LoginInv, RowKnown, RowsTrue, StateColumnTruthful, users
<1> QED
  BY <1>1, <1>2, <1>3, <1>4, <1>5, Typing, LoginInvariant, PTL DEF Spec
================================================================================
