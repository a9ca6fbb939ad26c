----------------------------- MODULE AccountProofs -----------------------------
(***************************************************************************)
(* Who was told it is logged in is logged in.  The proof rests on what the *)
(* refinement has shown: a connection keeps its account until its client   *)
(* leaves.                                                                 *)
(***************************************************************************)
EXTENDS DirectoryProofs

\* s has its account, or its client left or asked to.
Holds(s) == name[s] # None \/ s \in left

\* Only a user is answered "granted" or "found".
Answer == {m \in SendItem : m.msg \in {"granted", "found"} => Holds(m.s)}

\* Every such answer, in the queue, in a session's buffer or at the client, is one
\* of a connection that holds its account.
Told ==
    /\ sendQueue \in Seq(Answer)
    /\ \A s \in Session : sendBuf[s] \in {"granted", "found"} => Holds(s)
    /\ \A s \in Session : phase[s] = "ready" => Holds(s)

\* A connection that was not accepted has no user, no request and no receive.
Opened ==
    \A s \in Session : sock[s] = "none" =>
        /\ name[s] = None /\ recv[s] = "none"
        /\ \A e \in Queue : e.s # s
        /\ hnd.pc # "idle" => hnd.s # s

-----------------------------------------------------------------------------

\* What the directory promises of a step.
LEMMA HoldsStays ==
    ASSUME TypeOK, DirectoryStep
    PROVE  \A s \in Session : Holds(s) => Holds(s)'
<1>0. name \in [Session -> Account \cup {None}] /\ None \notin Account
  BY LoginTypes
<1>1. CASE UNCHANGED <<name, left>>
  BY <1>1 DEF Holds
<1>2. ASSUME NEW c \in Session, Directory!Enter(c) \/ Directory!Release(c)
      PROVE  \A s \in Session : Holds(s) => Holds(s)'
  BY <1>0, <1>2 DEF Directory!Enter, Directory!Release, Holds, left
<1>3. ASSUME NEW some \in SUBSET Session, Directory!Depart(some)
      PROVE  \A s \in Session : Holds(s) => Holds(s)'
  BY <1>3 DEF Directory!Depart, Holds, left
<1>4. CASE Directory!Collapse
  BY <1>4 DEF Directory!Collapse, Holds, left
<1> QED
  BY <1>1, <1>2, <1>3, <1>4 DEF DirectoryStep, Directory!Next

\* Answers stay answers, and notes are answers.
LEMMA AnswersStay ==
    ASSUME TypeOK, DirectoryStep
    PROVE  Answer \subseteq Answer' /\ NoteItem \subseteq Answer /\ NoteItem \subseteq Answer'
<1>1. Answer \subseteq Answer'
  BY HoldsStays DEF Answer, SendItem
<1> QED
  BY <1>1, MessageAssumption DEF Answer, NoteItem, SendItem

\* What a handler appends.
LEMMA AnswerQueued ==
    ASSUME Told, TypeOK, DirectoryStep,
           NEW notes \in Seq(NoteItem), NEW s \in Session, NEW msg \in Message,
           msg \in {"granted", "found"} => Holds(s)'
    PROVE  /\ Append(sendQueue, [s |-> s, msg |-> msg]) \in Seq(Answer')
           /\ (sendQueue \o notes) \o <<[s |-> s, msg |-> msg]>> \in Seq(Answer')
           /\ sendQueue \o notes \in Seq(Answer')
<1> DEFINE e == [s |-> s, msg |-> msg]
<1>1. e \in Answer'
  BY DEF Answer, SendItem
<1>2. sendQueue \in Seq(Answer') /\ notes \in Seq(Answer')
  BY AnswersStay DEF Told
<1> HIDE DEF e
<1>3. <<e>> \in Seq(Answer') /\ sendQueue \o notes \in Seq(Answer')
  BY <1>1, <1>2, ConcatProperties
<1>4. (sendQueue \o notes) \o <<e>> \in Seq(Answer') /\ Append(sendQueue, e) \in Seq(Answer')
  BY <1>1, <1>2, <1>3, ConcatProperties, AppendProperties
<1> QED
  BY <1>3, <1>4 DEF e

LEMMA HandlerTells ==
    ASSUME TypeOK, LoginInv, Parting, Told, Handler, UNCHANGED phase
    PROVE  Told'
<1>0. /\ DirectoryStep /\ TypeOK
      /\ UserTypeOK
      /\ hnd = HandlerIdle \/ hnd \in Busy
      /\ name \in [Session -> Account \cup {None}]
      /\ {"granted", "refused", "joined", "found", "bye"} \subseteq Message
      /\ <<>> \in Seq(NoteItem)
  BY HandlerDirectory, LoginTypes, MessageAssumption DEF TypeOK
<1>1. UNCHANGED <<sendBuf, phase>>
  BY DEF Handler, DropPacket, RefuseLogin, AcceptLogin, CreateActiveUser, LoadFriends,
         LoadFails, AnnounceLogin, GrantLogin, Grant, LoginFails, Crash, HandleLogout,
         LogoutFails, HandleJoin, HandleFind, FindFails, coreVars, sessVars
<1>2. sendQueue' \in Seq(Answer')
  <2>1. CASE RefuseLogin \/ HandleJoin
    <3>1. PICK s \in Session : s = From
      BY <2>1, PacketTyped DEF RefuseLogin, HandleJoin, Packet, TypeOK
    <3>2. PICK msg \in {"refused", "joined"} :
            sendQueue' = Append(sendQueue, [s |-> s, msg |-> msg])
      BY <2>1, <3>1 DEF RefuseLogin, HandleJoin, Reply
    <3>3. msg \in Message /\ msg \notin {"granted", "found"}
      BY <1>0
    <3> QED
      BY <1>0, <3>2, <3>3, AnswerQueued
  <2>2. CASE AnnounceLogin \/ GrantLogin
    <3>1. hnd.s \in Session /\ name[hnd.s] # None /\ UNCHANGED name
      BY <1>0, <2>2, HndTyped DEF AnnounceLogin, GrantLogin, Grant
    <3>2. \A s \in Session : s = hnd.s => Holds(s)'
      BY <3>1 DEF Holds
    <3>3. PICK notes \in Seq(NoteItem) :
            sendQueue' = (sendQueue \o notes) \o <<[s |-> hnd.s, msg |-> "granted"]>>
      <4>1. CASE AnnounceLogin
        <5>1. Notes(hnd.s) \in Seq(NoteItem)
          BY <1>0, <3>1, <4>1, NotesAreNotes DEF AnnounceLogin
        <5> QED
          BY <4>1, <5>1 DEF AnnounceLogin, Grant
      <4>2. CASE GrantLogin
        BY <1>0, <4>2 DEF GrantLogin, Grant
      <4> QED
        BY <2>2, <4>1, <4>2
    <3>4. PICK s \in Session : s = hnd.s
      BY <3>1
    <3> QED
      BY <1>0, <3>2, <3>3, <3>4, AnswerQueued
  <2>3. CASE HandleLogout
    <3>1. From \in Session /\ Notes(From) \in Seq(NoteItem)
      BY <1>0, <2>3, PacketTyped, NotesAreNotes DEF HandleLogout, Packet, TypeOK
    <3>2. sendQueue' = (sendQueue \o Notes(From)) \o <<[s |-> From, msg |-> "bye"]>>
      BY <2>3 DEF HandleLogout
    <3> QED
      BY <1>0, <3>1, <3>2, AnswerQueued
  <2>4. CASE HandleFind
    <3>1. From \in Session /\ name[From] # None /\ UNCHANGED name
      BY <2>4, PacketTyped DEF HandleFind, Packet, TypeOK, users
    <3>2. PICK s \in Session : s = From
      BY <3>1
    <3>3. Holds(s)'
      BY <3>1, <3>2 DEF Holds
    <3>4. sendQueue' = Append(sendQueue, [s |-> s, msg |-> "found"])
      BY <2>4, <3>2 DEF HandleFind, Reply
    <3> QED
      BY <1>0, <3>3, <3>4, AnswerQueued
  <2>5. CASE /\ ~RefuseLogin /\ ~HandleJoin /\ ~AnnounceLogin /\ ~GrantLogin
             /\ ~HandleLogout /\ ~HandleFind
    <3>1. UNCHANGED sendQueue
      BY <2>5 DEF Handler, DropPacket, AcceptLogin, CreateActiveUser, LoadFriends, LoadFails,
                  LoginFails, Crash, LogoutFails, FindFails, userVars
    <3> QED
      BY <1>0, <3>1, AnswersStay DEF Told
  <2> QED
    BY <2>1, <2>2, <2>3, <2>4, <2>5
<1> QED
  BY <1>0, <1>1, <1>2, HoldsStays DEF Told

LEMMA OthersTell ==
    ASSUME TypeOK, LoginInv, Parting, Told, Next, ~App
    PROVE  Told'
<1>0. /\ DirectoryStep
      /\ phase \in [Session -> Phase]
      /\ sendBuf \in [Session -> Message \cup {None}]
      /\ \A s \in Session : Holds(s) => Holds(s)'
  BY StepDirectory, HoldsStays, LoginTypes DEF TypeOK, CoreTypeOK
<1>1. UNCHANGED sendQueue => sendQueue' \in Seq(Answer')
  BY <1>0, AnswersStay DEF Told
<1>2. ASSUME NEW c \in Session, Client(c) PROVE Told'
  <2>1. UNCHANGED <<sendQueue, sendBuf>>
    BY <1>2 DEF Client, Connect, Send, Disconnect, Transmit, SendCompletes, sessVars, userVars
  <2>2. \A s \in Session : phase'[s] = "ready" =>
                              phase[s] = "ready" \/ sendBuf[s] \in {"granted", "found"}
    BY <1>0, <1>2 DEF Client, Connect, Send, Disconnect, Transmit, After
  <2> QED
    BY <1>0, <1>1, <2>1, <2>2 DEF Told
<1>3. CASE Core
  <2>1. UNCHANGED <<sendQueue, sendBuf, phase>>
    BY <1>3 DEF Core, CoreNext, Kernel, DataArrives, ReceiveEnds, SendFails, Accept,
       AcceptEmpty, Completion, Receive, ZeroBytes, HandleWriteCompletion, Continue,
       PostReceive, RegisterSession, UnregisterSession, Close, CloseSession, CloseSocket,
       UseAfterDelete, sessVars, userVars
  <2> QED
    BY <1>0, <1>1, <2>1 DEF Told
<1>4. CASE SendTask
  <2>1. /\ Head(sendQueue) \in Answer /\ Tail(sendQueue) \in Seq(Answer)
    BY <1>4 DEF SendTask, Told
  <2>2. sendQueue' \in Seq(Answer') /\ UNCHANGED phase
    BY <1>0, <1>4, <2>1, AnswersStay DEF SendTask
  <2>3. \A s \in Session :
          sendBuf'[s] = IF s = Head(sendQueue).s THEN Head(sendQueue).msg ELSE sendBuf[s]
    BY <1>0, <1>4 DEF SendTask, PostSend
  <2>4. Head(sendQueue).msg \in {"granted", "found"} => Holds(Head(sendQueue).s)
    BY <2>1 DEF Answer
  <2>5. \A s \in Session : sendBuf'[s] \in {"granted", "found"} => Holds(s)
    BY <2>3, <2>4 DEF Told
  <2> QED
    BY <1>0, <2>2, <2>5 DEF Told
<1>5. CASE SendFreed \/ Quiescent
  <2>1. UNCHANGED <<sendQueue, sendBuf, phase>>
    BY <1>5 DEF SendFreed, Crash, Quiescent, vars, coreVars, sessVars, userVars
  <2> QED
    BY <1>0, <1>1, <2>1 DEF Told
<1>6. CASE Restart
  <2>1. /\ sendQueue' = <<>> /\ \A s \in Session : sendBuf'[s] = None /\ phase'[s] # "ready"
    BY <1>6 DEF Restart, CoreRestart, UserRestart
  <2>2. None \notin {"granted", "found"}
    BY NoneAssumption, MessageAssumption
  <2> QED
    BY <2>1, <2>2 DEF Told
<1> QED
  BY <1>2, <1>3, <1>4, <1>5, <1>6 DEF Next

-----------------------------------------------------------------------------
(* Accepted connections.                                                   *)

LEMMA HandlerOpened ==
    ASSUME TypeOK, LoginInv, Parting, Opened, Handler, UNCHANGED phase
    PROVE  Opened'
<1>0. /\ name \in [Session -> Account \cup {None}]
      /\ UNCHANGED <<sock, recv>>
      /\ Queue' \subseteq Queue
  <2>1. UNCHANGED <<sock, recv>>
    BY DEF Handler, DropPacket, RefuseLogin, AcceptLogin, CreateActiveUser, LoadFriends,
           LoadFails, AnnounceLogin, GrantLogin, Grant, LoginFails, Crash, HandleLogout,
           LogoutFails, HandleJoin, HandleFind, FindFails, coreVars, sessVars, userVars
  <2>2. (Popped /\ \E op : Packet(op)) \/ UNCHANGED recvQueue
    BY DEF Handler, DropPacket, RefuseLogin, AcceptLogin, CreateActiveUser, LoadFriends,
           LoadFails, AnnounceLogin, GrantLogin, Grant, LoginFails, Crash, HandleLogout,
           LogoutFails, HandleJoin, HandleFind, FindFails, coreVars, sessVars, userVars
  <2>3. Queue' \subseteq Queue
    BY <2>2, QueueTail DEF Queue, Packet
  <2> QED
    BY <2>1, <2>3, LoginTypes
<1>1. CASE AcceptLogin
  <2>1. /\ \E e \in Queue : e.s = From /\ UNCHANGED name
        /\ hnd'.s = From
    BY <1>1, HeadRequest DEF AcceptLogin
  <2> QED
    BY <1>0, <2>1 DEF Opened
<1>2. CASE CreateActiveUser
  <2>1. /\ \A s \in Session : s # hnd.s => name'[s] = name[s]
        /\ hnd.pc = "create" /\ hnd'.s = hnd.s
    BY <1>0, <1>2 DEF CreateActiveUser, InsertUser, TypeOK, UserTypeOK, HandlerIdle
  <2> QED
    BY <1>0, <2>1 DEF Opened
<1>3. CASE ~AcceptLogin /\ ~CreateActiveUser
  <2>1. \A s \in Session : name'[s] \in {name[s], None}
    BY <1>0, <1>3 DEF Handler, DropPacket, RefuseLogin, LoadFriends, LoadFails, AnnounceLogin,
       GrantLogin, Grant, LoginFails, Crash, HandleLogout, EraseUser, LogoutFails,
       HandleJoin, HandleFind, FindFails, userVars
  <2>2. hnd'.pc = "idle" \/ (hnd'.s = hnd.s /\ hnd.pc # "idle") \/ UNCHANGED hnd
    BY <1>3 DEF Handler, DropPacket, RefuseLogin, LoadFriends, LoadFails, AnnounceLogin,
       GrantLogin, Grant, LoginFails, Crash, HandleLogout, EraseUser, LogoutFails,
       HandleJoin, HandleFind, FindFails, userVars, HandlerIdle, TypeOK, UserTypeOK
  <2> QED
    BY <1>0, <2>1, <2>2 DEF Opened
<1> QED
  BY <1>1, <1>2, <1>3

LEMMA CoreOpened ==
    ASSUME TypeOK, Opened, CoreNext, UNCHANGED userVars
    PROVE  Opened'
<1>0. /\ inbox \in [Session -> Request \cup {None}]
      /\ sock \in [Session -> {"none", "open", "closed"}]
      /\ recv \in [Session -> {"none", "posted", "data"}]
      /\ UNCHANGED <<name, hnd>>
  BY DEF TypeOK, CoreTypeOK, userVars
<1>1. ASSUME NEW t \in Worker, Accept(t) PROVE Opened'
  <2> DEFINE c == Head(backlog)
  <2>1. c \in Session
    BY <1>1 DEF Accept, TypeOK, CoreTypeOK
  <2>2. /\ inbox[c] # None /\ ReceivePacket(c) /\ UNCHANGED recv
        /\ sock' = [sock EXCEPT ![c] = "open"]
    BY <1>1 DEF Accept
  <2> HIDE DEF c
  <2>3. Queue' = Queue \cup {[s |-> c, req |-> inbox[c]]}
    BY <2>1, <2>2, QueueAppend
  <2> QED
    BY <1>0, <2>1, <2>2, <2>3 DEF Opened
<1>2. ASSUME NEW t \in Worker, NEW c \in Session, Receive(t, c) PROVE Opened'
  <2>1. /\ inbox[c] # None /\ ReceivePacket(c) /\ recv[c] = "data" /\ UNCHANGED sock
        /\ recv' = [recv EXCEPT ![c] = "none"]
    BY <1>2 DEF Receive
  <2>2. Queue' = Queue \cup {[s |-> c, req |-> inbox[c]]}
    BY <2>1, QueueAppend
  <2> QED
    BY <1>0, <2>1, <2>2 DEF Opened
<1>3. ASSUME ~\E t \in Worker : Accept(t), ~\E t \in Worker, s \in Session : Receive(t, s)
      PROVE  Opened'
  <2>1. UNCHANGED Queue
    BY <1>3 DEF CoreNext, Kernel, DataArrives, ReceiveEnds, SendFails, AcceptEmpty,
       Completion, ZeroBytes, HandleWriteCompletion, Continue, PostReceive, RegisterSession,
       UnregisterSession, Close, UseAfterDelete, Queue
  <2>2. \A s \in Session : sock'[s] = "none" =>
          sock[s] = "none" /\ (recv[s] = "none" => recv'[s] = "none")
    <3>1. CASE \E t \in Thread : Continue(t)
      BY <1>0, <3>1 DEF Continue, PostReceive, RegisterSession, UnregisterSession, Close,
         CloseSession, CloseSocket, sessVars
    <3>2. CASE ~\E t \in Thread : Continue(t)
      BY <1>0, <1>3, <3>2 DEF CoreNext, Kernel, DataArrives, ReceiveEnds, SendFails, AcceptEmpty,
         Completion, ZeroBytes, HandleWriteCompletion, UseAfterDelete, sessVars
    <3> QED
      BY <3>1, <3>2
  <2> QED
    BY <1>0, <2>1, <2>2 DEF Opened
<1> QED
  BY <1>1, <1>2, <1>3

LEMMA StepOpened ==
    ASSUME TypeOK, LoginInv, Parting, Opened, [Next]_vars
    PROVE  Opened'
<1>1. CASE \E s \in Session : Client(s)
  <2>1. UNCHANGED <<sock, recv, recvQueue, Queue, name, hnd>>
    BY <1>1 DEF Client, Connect, Send, Disconnect, Transmit, SendCompletes, sessVars, userVars, Queue
  <2> QED
    BY <2>1 DEF Opened
<1>2. CASE Cleaner /\ UNCHANGED phase
  <2>1. UNCHANGED <<sock, recv, recvQueue, Queue, hnd>>
    BY <1>2 DEF Cleaner, Snapshot, Scan, ScanEnds, Reap, ReapFails, Erase, CleanerOnly, Crash,
       coreVars, sessVars, userVars, Queue
  <2>2. \A s \in Session : name'[s] \in {name[s], None}
    <3>1. name \in [Session -> Account \cup {None}]
      BY LoginTypes
    <3>2. UNCHANGED name \/ EraseUser(cln.cur)
      BY <1>2 DEF Cleaner, Snapshot, Scan, ScanEnds, Reap, ReapFails, Erase, CleanerOnly,
         Crash, userVars
    <3> QED
      BY <3>1, <3>2 DEF EraseUser
  <2> QED
    BY <2>1, <2>2 DEF Opened
<1>3. CASE SendTask \/ SendFreed \/ UNCHANGED vars
  <2>1. UNCHANGED <<sock, recv, recvQueue, Queue, name, hnd>>
    BY <1>3 DEF SendTask, SendFreed, PostSend, Crash, vars, coreVars, sessVars, userVars, Queue
  <2> QED
    BY <2>1 DEF Opened
<1>4. CASE Restart
  <2>1. /\ \A s \in Session : name'[s] = None /\ recv'[s] = "none"
        /\ recvQueue' = <<>> /\ hnd' = HandlerIdle
    BY <1>4 DEF Restart, CoreRestart, UserRestart
  <2> QED
    BY <2>1 DEF Opened, Queue, HandlerIdle
<1>5. CASE Core
  BY <1>5, CoreOpened DEF Core
<1> QED
  BY <1>1, <1>2, <1>3, <1>4, <1>5, HandlerOpened DEF Next, App, Quiescent

\* Before anything is sent nobody is told anything, or accepted.
LEMMA StartTold == Init => Told /\ Opened
<1> SUFFICES ASSUME Init PROVE Told /\ Opened
  OBVIOUS
<1>1. \A s \in Session : /\ sendBuf[s] = None /\ phase[s] = "idle"
                         /\ name[s] = None /\ recv[s] = "none"
  BY DEF Init, CoreInit, UserInit
<1>2. sendQueue = <<>> /\ Queue = {} /\ hnd = HandlerIdle
  BY DEF Init, CoreInit, UserInit, Queue
<1>3. None \notin {"granted", "found"}
  BY NoneAssumption, MessageAssumption
<1> QED
  BY <1>1, <1>2, <1>3 DEF Told, Opened, HandlerIdle

LEMMA StepTold ==
    ASSUME TypeOK, LoginInv, Parting, Told, [Next]_vars
    PROVE  Told'
<1>1. CASE UNCHANGED vars
  <2>1. UNCHANGED <<sendQueue, sendBuf, phase, name, conn>>
    BY <1>1 DEF vars, coreVars, netVars, sessVars, userVars
  <2> QED
    BY <2>1 DEF Told, Answer, Holds, left
<1>2. CASE App /\ Handler
  BY <1>2, HandlerTells DEF App
<1>3. CASE App /\ Cleaner
  <2>0. /\ DirectoryStep /\ UserTypeOK
        /\ \A s \in Session : Holds(s) => Holds(s)'
    BY <1>3, CleanerDirectory, HoldsStays DEF App, TypeOK
  <2>1. UNCHANGED <<sendBuf, phase>>
    BY <1>3 DEF App, Cleaner, Snapshot, Scan, ScanEnds, Reap, ReapFails, Erase,
       CleanerOnly, Crash, coreVars, sessVars
  <2>2. sendQueue' \in Seq(Answer')
    <3>1. ASSUME NEW s \in Session, Reap(s) PROVE sendQueue' \in Seq(Answer')
      <4>1. Notes(s) \in Seq(NoteItem) /\ sendQueue' = sendQueue \o Notes(s)
        BY <2>0, <3>1, NotesAreNotes DEF Reap
      <4>2. Notes(s) \in Seq(Answer') /\ sendQueue \in Seq(Answer')
        BY <2>0, <4>1, AnswersStay DEF Told
      <4> QED
        BY <4>1, <4>2, ConcatProperties
    <3>2. CASE ~\E s \in Session : Reap(s)
      <4>1. UNCHANGED sendQueue
        BY <1>3, <3>2 DEF App, Cleaner, Snapshot, Scan, ScanEnds, ReapFails, Erase,
           CleanerOnly, Crash, userVars
      <4> QED
        BY <2>0, <4>1, AnswersStay DEF Told
    <3> QED
      BY <3>1, <3>2
  <2> QED
    BY <2>0, <2>1, <2>2 DEF Told
<1>4. CASE ~App /\ Next
  BY <1>4, OthersTell
<1> QED
  BY <1>1, <1>2, <1>3, <1>4 DEF App

\* A client that was told it is logged in, and has not left, is logged in and its
\* socket is open, whatever other answers, notifications and completions of its
\* session are still on their way.
THEOREM ToldTheTruth == Spec => []GrantedMeansLoggedIn
<1>1. TypeOK /\ LoginInv /\ Parting /\ Told /\ Opened /\ [Next]_vars => (Told /\ Opened)'
  BY StepTold, StepOpened
<1>2. TypeOK /\ Parting /\ Told /\ Opened => GrantedMeansLoggedIn
  <2> SUFFICES ASSUME TypeOK, Parting, Told, Opened, NEW s \in Session,
                      phase[s] = "ready", conn[s] # "gone"
               PROVE  s \in users /\ sock[s] = "open"
    BY DEF GrantedMeansLoggedIn
  <2>1. ~Departed(s) /\ s \notin left
    BY DEF Departed, left
  <2>2. name[s] # None
    BY <2>1 DEF Told, Holds
  <2>3. ~Ending(s)
    BY <2>1, <2>2 DEF Parting, Excused, Barred
  <2>4. sock[s] # "closed" /\ sock[s] # "none"
    BY <2>2, <2>3 DEF Ending, Shut, Opened
  <2> QED
    BY <2>2, <2>4 DEF users, TypeOK, CoreTypeOK
<1> QED
  BY <1>1, <1>2, StartTold, Typing, LoginInvariant, PartingIsExcused, PTL DEF Spec
================================================================================
