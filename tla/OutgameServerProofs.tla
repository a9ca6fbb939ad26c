------------------------- MODULE OutgameServerProofs --------------------------
(***************************************************************************)
(* What is proved about OutgameServer, for any sessions, workers, accounts,*)
(* friendships, requests and client behaviour: that the variables keep     *)
(* their types, and that no account is logged in twice.                    *)
(***************************************************************************)
EXTENDS OutgameServer, FiniteSetTheorems, SequenceTheorems, TLAPS

RecvItem == [s : Session, req : Request]
SendItem == [s : Session, msg : Message]
NoteItem == [s : Session, msg : {"note"}]

-----------------------------------------------------------------------------
(* Types.                                                                  *)

Jobs == [Thread -> {Wait} \cup [op : Op, s : Session]]

\* A thread is idle or has a known operation to do on a session.
LEMMA JobTyped ==
    ASSUME CoreTypeOK, NEW t \in Thread
    PROVE  /\ job[t].op # "wait" => job[t].op \in Op /\ job[t].s \in Session
           /\ Done(t) => job' \in Jobs
           /\ UNCHANGED job => job' \in Jobs
           /\ \A op \in Op, s \in Session : Goto(t, op, s) => job' \in Jobs
<1>1. job \in Jobs
  BY DEF CoreTypeOK, Jobs
<1>2. job[t] = Wait \/ job[t] \in [op : Op, s : Session]
  BY <1>1 DEF Jobs
<1>3. job[t].op # "wait" => job[t].op \in Op /\ job[t].s \in Session
  BY <1>2 DEF Wait
<1> QED
  BY <1>1, <1>3 DEF Jobs, Done, Goto

\* A handler of a worker keeps the types of the core's variables.
LEMMA CoreTyped ==
    ASSUME CoreTypeOK, CoreNext
    PROVE  CoreTypeOK'
<1> USE DEF CoreTypeOK, Jobs, SessionState, netVars, sessVars, ReceivePacket
<1>0. /\ Worker \subseteq Thread
      /\ {"accept", "receive", "register", "unregister", "close", "eof", "eofclose"} \subseteq Op
      /\ "wait" \notin Op
  BY DEF Thread, Op
<1>1. ASSUME NEW s \in Session, DataArrives(s) PROVE CoreTypeOK'
  BY <1>1 DEF DataArrives
<1>2. ASSUME NEW s \in Session, ReceiveEnds(s) PROVE CoreTypeOK'
  BY <1>2 DEF ReceiveEnds
<1>3. ASSUME NEW s \in Session, SendFails(s) PROVE CoreTypeOK'
  <2>1. posted' \in [Session -> Nat]
    BY <1>3 DEF SendFails
  <2>2. zero' \in [Session -> Nat]
    BY <1>3 DEF SendFails
  <2> QED
    BY <1>3, <2>1, <2>2 DEF SendFails
<1>4. ASSUME NEW t \in Worker, Accept(t) PROVE CoreTypeOK'
  <2> DEFINE s == Head(backlog)
  <2>1. /\ s \in Session
        /\ backlog' \in Seq(Session)
    BY <1>4 DEF Accept
  <2>2. job' \in Jobs
    BY <1>0, <1>4, <2>1, JobTyped DEF Accept
  <2>3. [s |-> s, req |-> inbox[s]] \in RecvItem
    BY <1>4, <2>1 DEF Accept, RecvItem
  <2>4. recvQueue' \in Seq(RecvItem)
    BY <1>4, <2>3 DEF Accept, RecvItem
  <2>5. inbox' \in [Session -> Request \cup {None}] /\ sock' \in [Session -> {"none", "open", "closed"}]
    BY <1>4, <2>1 DEF Accept
  <2> QED
    BY <1>4, <2>1, <2>2, <2>4, <2>5 DEF Accept, RecvItem
<1>5. ASSUME NEW t \in Worker, AcceptEmpty(t) PROVE CoreTypeOK'
  <2>1. backlog' \in Seq(Session)
    BY <1>5 DEF AcceptEmpty
  <2> QED
    BY <1>5, <2>1 DEF AcceptEmpty
<1>6. ASSUME NEW t \in Worker, NEW s \in Session, Receive(t, s) PROVE CoreTypeOK'
  <2>1. job' \in Jobs
    BY <1>0, <1>6, JobTyped DEF Receive
  <2>2. recvQueue' \in Seq(RecvItem)
    BY <1>6 DEF Receive, RecvItem
  <2> QED
    BY <1>6, <2>1, <2>2 DEF Receive, RecvItem
<1>7. ASSUME NEW t \in Worker, NEW s \in Session, ZeroBytes(t, s) PROVE CoreTypeOK'
  <2>1. job' \in Jobs
    BY <1>0, <1>7, JobTyped DEF ZeroBytes
  <2> QED
    BY <1>7, <2>1 DEF ZeroBytes
<1>8. ASSUME NEW t \in Worker, NEW s \in Session, HandleWriteCompletion(t, s)
      PROVE  CoreTypeOK'
  <2>1. job' \in Jobs
    <3>1. \A st \in {"REGISTER", "CLOSE", "UNREGISTER"} : WriteCompleted(st) \in Op
      BY <1>0 DEF WriteCompleted
    <3> QED
      BY <1>0, <1>8, <3>1, JobTyped DEF HandleWriteCompletion
  <2> QED
    BY <1>8, <2>1 DEF HandleWriteCompletion
<1>9. ASSUME NEW t \in Thread, PostReceive(t) PROVE CoreTypeOK'
  <2>1. job' \in Jobs
    BY <1>0, <1>9, JobTyped DEF PostReceive
  <2>2. recv' \in [Session -> {"none", "posted", "data"}]
    BY <1>9 DEF PostReceive
  <2>3. acceptPosted' \in BOOLEAN
    BY <1>9 DEF PostReceive, StartAccept
  <2> QED
    BY <1>9, <2>1, <2>2, <2>3 DEF PostReceive
<1>10. ASSUME NEW t \in Thread, RegisterSession(t) PROVE CoreTypeOK'
  <2>1. job' \in Jobs
    BY <1>10, JobTyped DEF RegisterSession
  <2>2. job[t].s \in Session
    BY <1>0, <1>10, JobTyped DEF RegisterSession
  <2> QED
    BY <1>10, <2>1, <2>2 DEF RegisterSession
<1>11. ASSUME NEW t \in Thread, UnregisterSession(t) PROVE CoreTypeOK'
  <2>1. job' \in Jobs
    BY <1>0, <1>11, JobTyped DEF UnregisterSession
  <2> QED
    BY <1>11, <2>1 DEF UnregisterSession, MapWithout
<1>12. ASSUME NEW t \in Thread, Close(t) PROVE CoreTypeOK'
  <2>1. job' \in Jobs
    BY <1>0, <1>12, JobTyped DEF Close
  <2>2. job[t].s \in Session
    BY <1>0, <1>12, JobTyped DEF Close
  <2>3. posted' \in [Session -> Nat] /\ zero' \in [Session -> Nat]
    BY <1>12, <2>2 DEF Close, CloseSession, CloseSocket
  <2>4. /\ conn' \in [Session -> {"none", "up", "gone", "reset"}]
        /\ recv' \in [Session -> {"none", "posted", "data"}]
        /\ sock' \in [Session -> {"none", "open", "closed"}]
        /\ state' \in [Session -> SessionState]
    BY <1>12, <2>2 DEF Close, CloseSession, CloseSocket
  <2> QED
    BY <1>12, <2>1, <2>2, <2>3, <2>4 DEF Close, CloseSession, CloseSocket
<1>13. ASSUME NEW t \in Thread, UseAfterDelete(t) PROVE CoreTypeOK'
  BY <1>13 DEF UseAfterDelete
<1> QED
  BY <1>1, <1>2, <1>3, <1>4, <1>5, <1>6, <1>7, <1>8, <1>9, <1>10, <1>11, <1>12,
     <1>13 DEF CoreNext, Kernel, Completion, Continue

\* A set written as a sequence has its elements.
LEMMA SetToSeqTyped ==
    ASSUME NEW S, NEW T \in SUBSET S, IsFiniteSet(T)
    PROVE  SetToSeq(T) \in Seq(S)
<1> DEFINE n == Cardinality(T)
<1>1. n \in Nat /\ ExistsBijection(1..n, T)
  BY FS_CardinalityType
<1>2. \E f \in [1..n -> T] : IsInjective(f)
  BY <1>1 DEF ExistsBijection, Bijection, Injection
<1>3. SetToSeq(T) \in [1..n -> T]
  BY <1>2 DEF SetToSeq
<1>4. SetToSeq(T) \in [1..n -> S]
  BY <1>3
<1> QED
  BY <1>1, <1>4, SeqDef

\* Notifications go to sessions.
LEMMA NotesAreNotes ==
    ASSUME UserTypeOK, NEW s \in Session, Stale(s) = {}
    PROVE  Notes(s) \in Seq(NoteItem)
<1> DEFINE note(f) == [s |-> names[f], msg |-> "note"]
           N == {note(f) : f \in friends[s]}
<1>1. friends[s] \subseteq Account /\ IsFiniteSet(friends[s])
  <2>1. friends[s] \in SUBSET Account
    BY DEF UserTypeOK
  <2> QED
    BY <2>1, AccountAssumption, FS_Subset
<1>2. \A f \in friends[s] : names[f] \in Session
  BY <1>1 DEF UserTypeOK, Stale
<1>3. N \in SUBSET NoteItem
  BY <1>2 DEF NoteItem
<1>4. IsFiniteSet(N)
  <2> DEFINE g == [f \in friends[s] |-> note(f)]
  <2>1. g \in Surjection(friends[s], N)
    BY DEF Surjection
  <2> HIDE DEF g, N
  <2> QED
    BY <1>1, <2>1, FS_Surjection
<1>5. SetToSeq(N) \in Seq(NoteItem)
  BY <1>3, <1>4, SetToSeqTyped
<1> QED
  BY <1>5 DEF Notes

LEMMA NotesTyped ==
    ASSUME UserTypeOK, NEW s \in Session, Stale(s) = {}
    PROVE  Notes(s) \in Seq(SendItem)
<1>1. NoteItem \subseteq SendItem
  BY MessageAssumption DEF NoteItem, SendItem
<1> QED
  BY <1>1, NotesAreNotes

\* The packet at the head of the queue and the queue without it.
LEMMA PacketTyped ==
    ASSUME CoreTypeOK, recvQueue # <<>>
    PROVE  /\ From \in Session
           /\ Head(recvQueue).req \in Request
           /\ Tail(recvQueue) \in Seq(RecvItem)
<1>1. recvQueue \in Seq(RecvItem)
  BY DEF CoreTypeOK, RecvItem
<1>2. Head(recvQueue) \in RecvItem /\ Tail(recvQueue) \in Seq(RecvItem)
  BY <1>1
<1>3. Head(recvQueue).req \in Request /\ Head(recvQueue).s \in Session
  BY <1>2 DEF RecvItem
<1> QED
  BY <1>2, <1>3 DEF From

\* An answer appended to typed notifications.
LEMMA ReplyTyped ==
    ASSUME UserTypeOK, NEW s \in Session, NEW msg \in Message,
           NEW notes \in Seq(SendItem)
    PROVE  /\ (sendQueue \o notes) \o <<[s |-> s, msg |-> msg]>> \in Seq(SendItem)
           /\ Append(sendQueue, [s |-> s, msg |-> msg]) \in Seq(SendItem)
           /\ sendQueue \o notes \in Seq(SendItem)
<1>1. sendQueue \in Seq(SendItem)
  BY DEF UserTypeOK, SendItem
<1>2. [s |-> s, msg |-> msg] \in SendItem
  BY DEF SendItem
<1>3. sendQueue \o notes \in Seq(SendItem)
  BY <1>1, ConcatProperties
<1>4. <<[s |-> s, msg |-> msg]>> \in Seq(SendItem)
  BY <1>2
<1> QED
  BY <1>1, <1>2, <1>3, <1>4, ConcatProperties, AppendProperties

Busy == [pc : {"create", "load", "announce", "reply"}, s : Session, who : Account]

LEMMA HndTyped ==
    ASSUME UserTypeOK, hnd.pc # "idle"
    PROVE  hnd \in Busy /\ hnd.s \in Session /\ hnd.who \in Account
BY DEF UserTypeOK, HandlerIdle, Busy

\* A step of the handler's thread keeps the types.
LEMMA HandlerTyped ==
    ASSUME CoreTypeOK, UserTypeOK, Handler
    PROVE  CoreTypeOK' /\ UserTypeOK'
<1> USE DEF netVars, sessVars, coreVars, userVars, SetState, Popped, Reply
<1> DEFINE SessTyped == state' \in [Session -> SessionState]
           QueueTyped == recvQueue' \in Seq(RecvItem)
<1>a. ASSUME NEW s \in Session, NEW st \in SessionState, SetState(s, st) PROVE SessTyped
  BY <1>a DEF CoreTypeOK, SetState
<1>b. {"REGISTER", "CLOSE", "UNREGISTER"} \subseteq SessionState
  BY DEF SessionState
<1>c. {"granted", "refused", "joined", "found", "bye"} \subseteq Message
  BY MessageAssumption
<1>d. <<>> \in Seq(SendItem)
  OBVIOUS
<1>1. CASE RefuseLogin
  <2>1. From \in Session /\ QueueTyped
    BY <1>1, PacketTyped DEF RefuseLogin, Packet
  <2>2. SessTyped
    BY <1>1, <1>a, <1>b, <2>1 DEF RefuseLogin
  <2>3. sendQueue' \in Seq(SendItem)
    BY <1>1, <1>c, <1>d, <2>1, ReplyTyped DEF RefuseLogin
  <2> QED
    <3>1. CoreTypeOK'
      BY <1>1, <2>1, <2>2 DEF RefuseLogin, CoreTypeOK, RecvItem
    <3>2. UserTypeOK'
      BY <1>1, <2>3 DEF RefuseLogin, UserTypeOK, SendItem
    <3> QED
      BY <3>1, <3>2
<1>2. CASE AcceptLogin
  <2>1. From \in Session /\ Who \in Account /\ QueueTyped
    BY <1>2, PacketTyped DEF AcceptLogin, AuthenticateUser, Packet
  <2>2. hnd' \in Busy
    BY <1>2, <2>1 DEF AcceptLogin, Busy
  <2> QED
    <3>1. CoreTypeOK'
      BY <1>2, <2>1 DEF AcceptLogin, CoreTypeOK, RecvItem
    <3>2. UserTypeOK'
      BY <1>2, <2>2 DEF AcceptLogin, UserTypeOK, Busy
    <3> QED
      BY <3>1, <3>2
<1>3. CASE CreateActiveUser
  <2>1. hnd \in Busy /\ hnd.s \in Session /\ hnd.who \in Account
    BY <1>3, HndTyped DEF CreateActiveUser
  <2>2. hnd' \in Busy
    BY <1>3, <2>1 DEF CreateActiveUser, Busy
  <2>3. names' \in [Account -> Session \cup {None}] /\ name' \in [Session -> Account \cup {None}]
    BY <1>3, <2>1 DEF CreateActiveUser, InsertUser, UserTypeOK
  <2> QED
    BY <1>3, <2>2, <2>3 DEF CreateActiveUser, CoreTypeOK, UserTypeOK, Busy
<1>4. CASE LoadFriends \/ LoadFails
  <2>1. hnd \in Busy /\ hnd.s \in Session /\ hnd.who \in Account
    BY <1>4, HndTyped DEF LoadFriends, LoadFails
  <2>2. hnd' \in Busy
    BY <1>4, <2>1 DEF LoadFriends, LoadFails, Busy
  <2>3. {f \in Friend[hnd.who] : InUse(f)} \in SUBSET Account
    BY <2>1, FriendAssumption
  <2>4. friends' \in [Session -> SUBSET Account]
    BY <1>4, <2>3 DEF LoadFriends, LoadFails, UserTypeOK
  <2>5. dbState' \in [Account -> {"ABSENT", "ONLINE", "IN_GAME", "OFFLINE"}]
    BY <1>4 DEF LoadFriends, LoadFails, UserTypeOK
  <2>6. UNCHANGED <<coreVars, name, names, cln, sendQueue>>
    BY <1>4 DEF LoadFriends, LoadFails
  <2>7. CoreTypeOK'
    BY <2>6 DEF CoreTypeOK
  <2>8. UserTypeOK'
    BY <2>2, <2>4, <2>5, <2>6 DEF UserTypeOK, Busy
  <2> QED
    BY <2>7, <2>8
<1>5. CASE AnnounceLogin \/ GrantLogin
  <2>1. hnd.s \in Session /\ hnd.who \in Account
    BY <1>5, HndTyped DEF AnnounceLogin, GrantLogin
  <2>2. SessTyped
    BY <1>5, <1>a, <1>b, <2>1 DEF AnnounceLogin, GrantLogin, Grant
  <2>3. sendQueue' \in Seq(SendItem)
    <3>1. CASE AnnounceLogin
      BY <3>1, <1>c, <2>1, NotesTyped, ReplyTyped DEF AnnounceLogin, Grant
    <3>2. CASE GrantLogin
      BY <3>2, <1>c, <1>d, <2>1, ReplyTyped DEF GrantLogin, Grant
    <3> QED
      BY <1>5, <3>1, <3>2
  <2>4. dbState' \in [Account -> {"ABSENT", "ONLINE", "IN_GAME", "OFFLINE"}]
    BY <1>5 DEF AnnounceLogin, GrantLogin, UpdateState, UserTypeOK
  <2>5. /\ hnd' = HandlerIdle
        /\ UNCHANGED <<netVars, sock, recv, posted, written, zero, sendBuf, sessionMap,
                       deleted, job, recvQueue, fault, name, names, friends, cln>>
    BY <1>5 DEF AnnounceLogin, GrantLogin, Grant
  <2>6. CoreTypeOK'
    BY <2>2, <2>5 DEF CoreTypeOK
  <2>7. UserTypeOK'
    BY <2>3, <2>4, <2>5 DEF UserTypeOK, SendItem
  <2> QED
    BY <2>6, <2>7
<1>6. CASE HandleLogout
  <2>1. From \in Session /\ QueueTyped
    BY <1>6, PacketTyped DEF HandleLogout, Packet
  <2>2. SessTyped
    BY <1>6, <1>a, <1>b, <2>1 DEF HandleLogout
  <2>3. sendQueue' \in Seq(SendItem)
    BY <1>6, <1>c, <2>1, NotesTyped, ReplyTyped DEF HandleLogout
  <2>4. dbState' \in [Account -> {"ABSENT", "ONLINE", "IN_GAME", "OFFLINE"}]
    BY <1>6 DEF HandleLogout, UpdateState, UserTypeOK
  <2>5. /\ names' \in [Account -> Session \cup {None}]
        /\ name' \in [Session -> Account \cup {None}]
        /\ friends' \in [Session -> SUBSET Account]
    BY <1>6 DEF HandleLogout, EraseUser, UserTypeOK
  <2> QED
    <3>1. CoreTypeOK'
      BY <1>6, <2>1, <2>2 DEF HandleLogout, CoreTypeOK, RecvItem
    <3>2. UserTypeOK'
      BY <1>6, <2>3, <2>4, <2>5 DEF HandleLogout, UserTypeOK, SendItem
    <3> QED
      BY <3>1, <3>2
<1>7. CASE HandleJoin
  <2>1. From \in Session /\ QueueTyped
    BY <1>7, PacketTyped DEF HandleJoin, Packet
  <2>2. SessTyped
    BY <1>7, <1>a, <1>b, <2>1 DEF HandleJoin
  <2>3. sendQueue' \in Seq(SendItem)
    BY <1>7, <1>c, <1>d, <2>1, ReplyTyped DEF HandleJoin
  <2>4. dbState' \in [Account -> {"ABSENT", "ONLINE", "IN_GAME", "OFFLINE"}]
    BY <1>7 DEF HandleJoin, UserTypeOK
  <2> QED
    <3>1. CoreTypeOK'
      BY <1>7, <2>1, <2>2 DEF HandleJoin, CoreTypeOK, RecvItem
    <3>2. UserTypeOK'
      BY <1>7, <2>3, <2>4 DEF HandleJoin, UserTypeOK, SendItem
    <3> QED
      BY <3>1, <3>2
<1>8. CASE HandleFind
  <2>1. From \in Session /\ QueueTyped
    BY <1>8, PacketTyped DEF HandleFind, Packet
  <2>2. sendQueue' \in Seq(SendItem)
    BY <1>8, <1>c, <1>d, <2>1, ReplyTyped DEF HandleFind
  <2> QED
    <3>1. CoreTypeOK'
      BY <1>8, <2>1 DEF HandleFind, CoreTypeOK, RecvItem
    <3>2. UserTypeOK'
      BY <1>8, <2>2 DEF HandleFind, UserTypeOK, SendItem
    <3> QED
      BY <3>1, <3>2
<1>9. CASE LoginFails \/ LogoutFails \/ FindFails
  <2>1. PICK why \in {"end_iterator", "race", "dangling", "assert"} : Crash(why)
    BY <1>9 DEF LoginFails, LogoutFails, FindFails
  <2> QED
    BY <2>1 DEF Crash, CoreTypeOK, UserTypeOK
<1>10. CASE DropPacket
  <2>1. QueueTyped
    BY <1>10, PacketTyped DEF DropPacket, Packet
  <2> QED
    <3>1. CoreTypeOK'
      BY <1>10, <2>1 DEF DropPacket, CoreTypeOK, RecvItem
    <3>2. UserTypeOK'
      BY <1>10 DEF DropPacket, UserTypeOK
    <3> QED
      BY <3>1, <3>2
<1> QED
  BY <1>1, <1>2, <1>3, <1>4, <1>5, <1>6, <1>7, <1>8, <1>9, <1>10 DEF Handler

\* A step of the cleaner keeps the types.
LEMMA CleanerTyped ==
    ASSUME CoreTypeOK, UserTypeOK, Cleaner
    PROVE  CoreTypeOK' /\ UserTypeOK'
<1> USE DEF netVars, sessVars, coreVars, userVars
<1> DEFINE Calm == [pc : {"sleep", "scan", "reap"}, snap : SUBSET Session,
                    dead : SUBSET Session, cur : {None}]
           Erasing == [pc : {"erase"}, snap : SUBSET Session, dead : SUBSET Session,
                       cur : Session]
<1>0. cln \in Calm \cup Erasing
  BY DEF UserTypeOK
<1>1. ASSUME CleanerOnly, cln' \in Calm PROVE CoreTypeOK' /\ UserTypeOK'
  BY <1>1 DEF CleanerOnly, CoreTypeOK, UserTypeOK
<1>2. CASE Snapshot
  BY <1>0, <1>1, <1>2 DEF Snapshot, users
<1>3. ASSUME NEW s \in Session, Scan(s) PROVE CoreTypeOK' /\ UserTypeOK'
  BY <1>0, <1>1, <1>3 DEF Scan
<1>4. CASE ScanEnds
  BY <1>0, <1>1, <1>4 DEF ScanEnds
<1>5. ASSUME NEW s \in Session, Reap(s) PROVE CoreTypeOK' /\ UserTypeOK'
  <2>1. sendQueue' \in Seq(SendItem)
    <3>1. sendQueue \in Seq(SendItem) /\ Notes(s) \in Seq(SendItem)
      BY <1>5, NotesTyped DEF Reap, UserTypeOK, SendItem
    <3> QED
      BY <1>5, <3>1, ConcatProperties DEF Reap
  <2>2. dbState' \in [Account -> {"ABSENT", "ONLINE", "IN_GAME", "OFFLINE"}]
    BY <1>5 DEF Reap, UpdateState, UserTypeOK
  <2>3. cln' \in Erasing
    BY <1>0, <1>5 DEF Reap
  <2>4. CoreTypeOK'
    BY <1>5 DEF Reap, CoreTypeOK
  <2>5. UserTypeOK'
    BY <1>5, <2>1, <2>2, <2>3 DEF Reap, UserTypeOK, SendItem
  <2> QED
    BY <2>4, <2>5
<1>6. CASE Erase
  <2>1. cln' \in Calm
    BY <1>0, <1>6 DEF Erase, Asleep
  <2>2. /\ names' \in [Account -> Session \cup {None}]
        /\ name' \in [Session -> Account \cup {None}]
        /\ friends' \in [Session -> SUBSET Account]
    BY <1>6 DEF Erase, EraseUser, UserTypeOK
  <2>3. CoreTypeOK'
    BY <1>6 DEF Erase, CoreTypeOK
  <2>4. UserTypeOK'
    BY <1>6, <2>1, <2>2 DEF Erase, UserTypeOK
  <2> QED
    BY <2>3, <2>4
<1>7. ASSUME NEW s \in Session, ReapFails(s) PROVE CoreTypeOK' /\ UserTypeOK'
  BY <1>7 DEF ReapFails, Crash, CoreTypeOK, UserTypeOK
<1> QED
  BY <1>2, <1>3, <1>4, <1>5, <1>6, <1>7 DEF Cleaner

\* A step of the send thread keeps the types.
LEMMA SenderTyped ==
    ASSUME CoreTypeOK, UserTypeOK, SendTask
    PROVE  CoreTypeOK' /\ UserTypeOK'
<1> DEFINE s == Head(sendQueue).s
           msg == Head(sendQueue).msg
<1>1. /\ Head(sendQueue) \in SendItem
      /\ Tail(sendQueue) \in Seq(SendItem)
  <2>1. sendQueue \in Seq(SendItem) /\ sendQueue # <<>>
    BY DEF SendTask, UserTypeOK, SendItem
  <2> QED
    BY <2>1
<1>2. s \in Session /\ msg \in Message
  BY <1>1 DEF SendItem
<1>3. Sender \in Thread /\ "unregister" \in Op
  BY DEF Thread, Op
<1>4. job' \in Jobs
  BY <1>2, <1>3, JobTyped DEF SendTask, PostSend
<1>5. /\ posted' = posted \/ posted' = [posted EXCEPT ![s] = @ + 1]
      /\ sendBuf' = [sendBuf EXCEPT ![s] = msg]
      /\ UNCHANGED <<netVars, sock, state, recv, written, zero, sessionMap,
                     deleted, recvQueue, fault>>
  BY DEF SendTask, PostSend
<1>6. CoreTypeOK'
  <2> HIDE DEF s, msg
  <2>1. posted \in [Session -> Nat] /\ sendBuf \in [Session -> Message \cup {None}]
    BY DEF CoreTypeOK
  <2>2. posted' \in [Session -> Nat]
    BY <1>2, <1>5, <2>1
  <2>3. sendBuf' \in [Session -> Message \cup {None}]
    BY <1>2, <1>5, <2>1
  <2> QED
    BY <1>4, <1>5, <2>2, <2>3 DEF CoreTypeOK, Jobs, netVars
<1>7. UserTypeOK'
  BY <1>1 DEF SendTask, UserTypeOK, SendItem
<1> QED
  BY <1>6, <1>7

\* A client's step keeps the types.
LEMMA ClientTyped ==
    ASSUME TypeOK, NEW s \in Session, Client(s)
    PROVE  TypeOK'
<1> USE DEF TypeOK, Phase, netVars, sessVars, userVars
<1>1. CASE Connect(s)
  <2>1. backlog' \in Seq(Session)
    BY <1>1 DEF Connect, CoreTypeOK
  <2>2. CoreTypeOK'
    BY <1>1, <2>1 DEF Connect, CoreTypeOK
  <2> QED
    BY <1>1, <2>2 DEF Connect, UserTypeOK
<1>2. CASE Send(s)
  <2>1. CoreTypeOK'
    BY <1>2 DEF Send, CoreTypeOK
  <2> QED
    BY <1>2, <2>1 DEF Send, UserTypeOK
<1>3. CASE Disconnect(s)
  <2>1. CoreTypeOK'
    BY <1>3 DEF Disconnect, CoreTypeOK
  <2> QED
    BY <1>3, <2>1 DEF Disconnect, UserTypeOK
<1>4. CASE Transmit(s)
  <2>1. posted' \in [Session -> Nat] /\ written' \in [Session -> Nat]
    BY <1>4 DEF Transmit, SendCompletes, CoreTypeOK
  <2>2. CoreTypeOK'
    BY <1>4, <2>1 DEF Transmit, SendCompletes, CoreTypeOK
  <2>3. \A msg, ph : ph \in Phase => After(msg, ph) \in Phase
    BY DEF After
  <2>4. phase' \in [Session -> Phase]
    BY <1>4, <2>3 DEF Transmit
  <2> QED
    BY <1>4, <2>2, <2>4 DEF Transmit, UserTypeOK
<1> QED
  BY <1>1, <1>2, <1>3, <1>4 DEF Client

\* A restart yields well-typed state.
LEMMA RestartTyped ==
    ASSUME TypeOK, Restart
    PROVE  TypeOK'
<1>1. CoreTypeOK'
  <2>1. Wait \in {Wait} \cup [op : Op, s : Session]
    OBVIOUS
  <2> QED
    BY <2>1 DEF Restart, CoreRestart, TypeOK, CoreTypeOK, SessionState
<1>2. UserTypeOK'
  BY DEF Restart, UserRestart, TypeOK, UserTypeOK, AllOffline, Asleep
<1> QED
  BY <1>1, <1>2 DEF Restart, TypeOK, Phase

LEMMA InitTyped == Init => TypeOK
<1> SUFFICES ASSUME Init PROVE TypeOK
  OBVIOUS
<1>1. CoreTypeOK
  BY DEF Init, CoreInit, CoreTypeOK, SessionState
<1>2. UserTypeOK
  BY DEF Init, UserInit, UserTypeOK, Asleep
<1> QED
  BY <1>1, <1>2 DEF Init, TypeOK, Phase

\* Every step of the server and its clients keeps the types.
LEMMA StepTyped ==
    ASSUME TypeOK, [Next]_vars
    PROVE  TypeOK'
<1>1. ASSUME NEW s \in Session, Client(s) PROVE TypeOK'
  BY <1>1, ClientTyped
<1>2. CASE Core
  <2>1. UserTypeOK' /\ phase' = phase
    BY <1>2 DEF Core, TypeOK, UserTypeOK, userVars
  <2> QED
    BY <1>2, <2>1, CoreTyped DEF Core, TypeOK
<1>3. CASE App
  BY <1>3, HandlerTyped, CleanerTyped DEF App, TypeOK
<1>4. CASE SendTask
  BY <1>4, SenderTyped DEF SendTask, TypeOK
<1>5. CASE SendFreed
  BY <1>5 DEF SendFreed, Crash, TypeOK, CoreTypeOK, UserTypeOK, netVars, sessVars, userVars
<1>6. CASE Restart
  BY <1>6, RestartTyped
<1>7. CASE UNCHANGED vars
  <2>1. CoreTypeOK'
    BY <1>7 DEF vars, coreVars, netVars, sessVars, TypeOK, CoreTypeOK
  <2>2. UserTypeOK' /\ phase' = phase
    BY <1>7 DEF vars, userVars, TypeOK, UserTypeOK
  <2> QED
    BY <2>1, <2>2 DEF TypeOK
<1> QED
  BY <1>1, <1>2, <1>3, <1>4, <1>5, <1>6, <1>7 DEF Next, Quiescent

\* Every variable keeps its type: in particular a worker that is in the middle of
\* a handler has a session to work on, and the cleaner holds the lock for a user.
THEOREM Typing == Spec => []TypeOK
<1>1. TypeOK /\ [Next]_vars => TypeOK'
  BY StepTyped
<1> QED
  BY <1>1, InitTyped, PTL DEF Spec

-----------------------------------------------------------------------------
(* No account is logged in twice.  SingleLogin follows from NamesIndex, but *)
(* neither is inductive: AuthenticateUser reads column State long before    *)
(* CreateActiveUser writes the maps, and insert() silently does nothing when*)
(* an entry is there.  What closes the gap is the row (RowKnown), the login *)
(* in progress (FreeToCreate) and that a connection has one login request   *)
(* at most on its way to the handler (OneLogin).                            *)

Login == {r \in Request : r.op = "login"}

\* A User whose row does not say it is in use is being erased, or has just been
\* created and its row is about to be written.
RowKnown ==
    /\ \A s \in users : \/ InUse(name[s])
                        \/ cln.cur = s
                        \/ hnd.pc = "load" /\ hnd.s = s
    /\ hnd.pc = "load" => name[hnd.s] \in {hnd.who, None}

\* The account of a login that was let in is held by nobody, apart from the user
\* that the cleaner is about to erase.
FreeToCreate ==
    hnd.pc = "create" =>
        /\ name[hnd.s] = None
        /\ \A s \in Session : name[s] = hnd.who => cln.cur = s

\* Nothing of s is on its way to the handler.
Silent(s) ==
    /\ \A i \in DOMAIN recvQueue : recvQueue[i].s # s
    /\ ~(hnd.pc = "create" /\ hnd.s = s)

\* No login of s is on its way to the handler, and s has no User.
MayLogIn(s) ==
    /\ name[s] = None
    /\ \A i \in DOMAIN recvQueue : recvQueue[i].req \in Login => recvQueue[i].s # s
    /\ ~(hnd.pc = "create" /\ hnd.s = s)

OneLogin ==
    /\ \A s \in Session : conn[s] = "none" => phase[s] = "idle"
    /\ \A s \in Session : phase[s] \in {"idle", "connected"} =>
                              name[s] = None /\ inbox[s] = None /\ Silent(s)
    /\ \A s \in Session : inbox[s] \in Login => MayLogIn(s)
    /\ \A i \in DOMAIN recvQueue : recvQueue[i].req \in Login =>
          /\ name[recvQueue[i].s] = None
          /\ ~(hnd.pc = "create" /\ hnd.s = recvQueue[i].s)
          /\ \A j \in DOMAIN recvQueue :
                recvQueue[j].req \in Login /\ recvQueue[j].s = recvQueue[i].s => i = j

LoginInv == NamesIndex /\ RowKnown /\ FreeToCreate /\ OneLogin

\* What Append and Tail do to the elements of a sequence.
LEMMA AppendElements ==
    ASSUME NEW S, NEW q \in Seq(S), NEW e \in S, NEW r, r = Append(q, e)
    PROVE  /\ Len(q) \in Nat /\ DOMAIN q = 1..Len(q) /\ DOMAIN r = 1..(Len(q) + 1)
           /\ r[Len(q) + 1] = e
           /\ \A i \in 1..Len(q) : q[i] \in S /\ r[i] = q[i]
BY AppendProperties, ElementOfSeq, LenProperties

LEMMA TailElements ==
    ASSUME NEW S, NEW q \in Seq(S), q # <<>>, NEW r, r = Tail(q)
    PROVE  /\ Len(q) \in Nat /\ 1 \in DOMAIN q /\ Head(q) = q[1] /\ q[1] \in S
           /\ DOMAIN q = 1..Len(q) /\ DOMAIN r = 1..(Len(q) - 1)
           /\ \A i \in 1..Len(q) : q[i] \in S
           /\ \A i \in 1..(Len(q) - 1) : i + 1 \in 1..Len(q) /\ r[i] = q[i + 1]
<1>1. Len(q) \in Nat /\ DOMAIN q = 1..Len(q) /\ \A i \in 1..Len(q) : q[i] \in S
  BY ElementOfSeq, LenProperties
<1>2. Len(q) # 0
  BY EmptySeq
<1>3. r \in Seq(S) /\ Len(r) = Len(q) - 1 /\ \A i \in 1..Len(r) : r[i] = q[i + 1]
  BY HeadTailProperties
<1>4. Head(q) = q[1]
  OBVIOUS
<1>5. DOMAIN r = 1..Len(r)
  BY <1>3, LenProperties
<1> QED
  BY <1>1, <1>2, <1>3, <1>4, <1>5

\* The types LoginInv speaks of.
LEMMA LoginTypes ==
    ASSUME TypeOK
    PROVE  /\ inbox \in [Session -> Request \cup {None}]
           /\ recvQueue \in Seq(RecvItem)
           /\ name \in [Session -> Account \cup {None}]
           /\ names \in [Account -> Session \cup {None}]
           /\ dbState \in [Account -> {"ABSENT", "ONLINE", "IN_GAME", "OFFLINE"}]
           /\ hnd = HandlerIdle \/ hnd \in Busy
           /\ cln.cur \in Session \cup {None}
           /\ cln.cur # None <=> cln.pc = "erase"
           /\ None \notin Account \cup Session \cup Request
           /\ conn \in [Session -> {"none", "up", "gone", "reset"}]
           /\ phase \in [Session -> Phase]
<1>1. cln.cur \in Session \cup {None} /\ (cln.cur # None <=> cln.pc = "erase")
  BY NoneAssumption DEF TypeOK, UserTypeOK
<1> QED
  BY <1>1, AccountAssumption, NoneAssumption
  DEF TypeOK, CoreTypeOK, UserTypeOK, RecvItem, Busy

\* A step that leaves the accounts alone.
LEMMA AccountsFrame ==
    ASSUME NamesIndex, RowKnown, FreeToCreate,
           UNCHANGED <<name, names, dbState, hnd, cln>>
    PROVE  NamesIndex' /\ RowKnown' /\ FreeToCreate'
BY DEF NamesIndex, RowKnown, FreeToCreate, users, InUse

\* A step that leaves requests alone, and removes users if anything.
LEMMA RequestsFrame ==
    ASSUME OneLogin, UNCHANGED <<phase, inbox, recvQueue>>,
           \A s \in Session : conn'[s] = "none" => conn[s] = "none",
           \A s \in Session : name'[s] \in {name[s], None},
           hnd'.pc = "create" => hnd' = hnd,
           TypeOK
    PROVE  OneLogin'
<1>1. \A i \in DOMAIN recvQueue : recvQueue[i].s \in Session
  <2>1. \A i \in DOMAIN recvQueue : recvQueue[i] \in RecvItem
    BY LoginTypes, LenProperties, ElementOfSeq
  <2> QED
    BY <2>1 DEF RecvItem
<1> QED
  BY <1>1 DEF OneLogin, Silent, MayLogIn

\* A worker passes a request to the handler.
LEMMA ReceivePacketStep ==
    ASSUME OneLogin, TypeOK, NEW s \in Session, inbox[s] # None, ReceivePacket(s),
           UNCHANGED <<phase, conn, name, hnd>>
    PROVE  OneLogin'
<1> DEFINE n == Len(recvQueue)
           item == [s |-> s, req |-> inbox[s]]
<1>1. /\ n \in Nat /\ DOMAIN recvQueue = 1..n
      /\ DOMAIN recvQueue' = 1..(n + 1)
      /\ recvQueue'[n + 1] = item
      /\ \A i \in 1..n : recvQueue'[i] = recvQueue[i] /\ recvQueue[i].s \in Session
  <2>1. recvQueue \in Seq(RecvItem) /\ item \in RecvItem
    BY LoginTypes DEF RecvItem
  <2>2. recvQueue' = Append(recvQueue, item)
    BY DEF ReceivePacket
  <2>3. \A i \in 1..n : recvQueue[i] \in RecvItem
    BY <2>1, <2>2, AppendElements
  <2>4. \A i \in 1..n : recvQueue[i].s \in Session
    BY <2>3 DEF RecvItem
  <2> HIDE DEF item
  <2> QED
    BY <2>1, <2>2, <2>4, AppendElements
<1>2. /\ inbox'[s] = None
      /\ \A r \in Session \ {s} : inbox'[r] = inbox[r]
  BY LoginTypes DEF ReceivePacket
<1>3. None \notin Login
  BY LoginTypes DEF Login
<1>4. \A r \in Session : phase[r] \in {"idle", "connected"} => r # s
  BY DEF OneLogin
<1>5. \A r \in Session : phase'[r] \in {"idle", "connected"} =>
                            name'[r] = None /\ inbox'[r] = None /\ Silent(r)'
  BY <1>1, <1>2, <1>4 DEF OneLogin, Silent
<1>6. ASSUME NEW r \in Session, inbox'[r] \in Login PROVE MayLogIn(r)'
  <2>1. r # s /\ MayLogIn(r)
    BY <1>2, <1>3, <1>6 DEF OneLogin
  <2> QED
    BY <1>1, <2>1 DEF MayLogIn
<1>7. ASSUME NEW i \in DOMAIN recvQueue', recvQueue'[i].req \in Login
      PROVE  /\ name'[recvQueue'[i].s] = None
             /\ ~(hnd'.pc = "create" /\ hnd'.s = recvQueue'[i].s)
             /\ \A j \in DOMAIN recvQueue' :
                   recvQueue'[j].req \in Login /\ recvQueue'[j].s = recvQueue'[i].s => i = j
  <2>1. inbox[s] \in Login => MayLogIn(s)
    BY DEF OneLogin
  <2>2. CASE i = n + 1
    BY <1>1, <1>7, <2>1, <2>2 DEF MayLogIn
  <2>3. CASE i \in 1..n
    <3>1. \A j \in 1..n : recvQueue[j].req \in Login /\ recvQueue[j].s = recvQueue[i].s => i = j
      BY <1>1, <1>7, <2>3 DEF OneLogin
    <3>2. ~(inbox[s] \in Login /\ recvQueue[i].s = s)
      BY <1>1, <1>7, <2>1, <2>3 DEF MayLogIn
    <3>3. name[recvQueue[i].s] = None /\ ~(hnd.pc = "create" /\ hnd.s = recvQueue[i].s)
      BY <1>1, <1>7, <2>3 DEF OneLogin
    <3> QED
      BY <1>1, <2>3, <3>1, <3>2, <3>3
  <2> QED
    BY <1>1, <2>2, <2>3
<1>8. \A r \in Session : conn'[r] = "none" => phase'[r] = "idle"
  BY DEF OneLogin
<1> QED
  BY <1>5, <1>6, <1>7, <1>8 DEF OneLogin

\* The handler takes a request off the queue; it removes users if anything.
LEMMA PoppedStep ==
    ASSUME OneLogin, TypeOK, recvQueue # <<>>, Popped,
           UNCHANGED <<phase, conn, inbox, hnd>>,
           \A s \in Session : name'[s] \in {name[s], None}
    PROVE  OneLogin'
<1> DEFINE n == Len(recvQueue)
<1>1. /\ n \in Nat /\ DOMAIN recvQueue = 1..n
      /\ DOMAIN recvQueue' = 1..(n - 1)
      /\ \A i \in 1..n : recvQueue[i].s \in Session
      /\ \A i \in 1..(n - 1) : i + 1 \in 1..n /\ recvQueue'[i] = recvQueue[i + 1]
  <2>1. recvQueue \in Seq(RecvItem) /\ recvQueue' = Tail(recvQueue)
    BY LoginTypes DEF Popped
  <2>2. \A i \in 1..n : recvQueue[i] \in RecvItem
    BY <2>1, TailElements
  <2>3. \A i \in 1..n : recvQueue[i].s \in Session
    BY <2>2 DEF RecvItem
  <2> QED
    BY <2>1, <2>3, TailElements
<1>2. \A s \in Session : Silent(s) => Silent(s)'
  BY <1>1 DEF Silent
<1>3. \A s \in Session : MayLogIn(s) => MayLogIn(s)'
  BY <1>1 DEF MayLogIn
<1>4. ASSUME NEW i \in DOMAIN recvQueue', recvQueue'[i].req \in Login
      PROVE  /\ name'[recvQueue'[i].s] = None
             /\ ~(hnd'.pc = "create" /\ hnd'.s = recvQueue'[i].s)
             /\ \A j \in DOMAIN recvQueue' :
                   recvQueue'[j].req \in Login /\ recvQueue'[j].s = recvQueue'[i].s => i = j
  <2>1. i + 1 \in 1..n /\ recvQueue'[i] = recvQueue[i + 1] /\ recvQueue[i + 1].req \in Login
    BY <1>1, <1>4
  <2>2. /\ name[recvQueue[i + 1].s] = None
        /\ ~(hnd.pc = "create" /\ hnd.s = recvQueue[i + 1].s)
        /\ \A j \in 1..n :
              recvQueue[j].req \in Login /\ recvQueue[j].s = recvQueue[i + 1].s => i + 1 = j
    BY <1>1, <2>1 DEF OneLogin
  <2>3. name'[recvQueue'[i].s] = None
    BY <1>1, <2>1, <2>2
  <2>4. ASSUME NEW j \in DOMAIN recvQueue', recvQueue'[j].req \in Login,
               recvQueue'[j].s = recvQueue'[i].s
        PROVE  i = j
    BY <1>1, <1>4, <2>1, <2>2, <2>4
  <2> QED
    BY <2>1, <2>2, <2>3, <2>4
<1>5. \A s \in Session : conn'[s] = "none" => phase'[s] = "idle"
  BY DEF OneLogin
<1> QED
  BY <1>2, <1>3, <1>4, <1>5 DEF OneLogin

\* A client's step keeps the login invariant: it sends a login only while the
\* server has nothing of it.
LEMMA ClientKeepsLogin ==
    ASSUME TypeOK, LoginInv, NEW s \in Session, Client(s)
    PROVE  LoginInv'
<1> USE DEF LoginInv
<1>1. UNCHANGED <<name, names, dbState, hnd, cln, recvQueue>>
  BY DEF Client, Connect, Send, Disconnect, Transmit, SendCompletes, userVars
<1>2. NamesIndex' /\ RowKnown' /\ FreeToCreate'
  BY <1>1, AccountsFrame
<1>3. \A r \in Session : Silent(r) <=> Silent(r)'
  BY <1>1 DEF Silent
<1>4. \A r \in Session : MayLogIn(r) <=> MayLogIn(r)'
  BY <1>1 DEF MayLogIn
<1>5. CASE Connect(s)
  <2>1. /\ UNCHANGED inbox
        /\ conn[s] = "none"
        /\ \A r \in Session : r # s => conn'[r] = conn[r] /\ phase'[r] = phase[r]
        /\ conn'[s] = "up" /\ phase'[s] = "connected"
    BY <1>5, LoginTypes DEF Connect
  <2>2. name[s] = None /\ inbox[s] = None /\ Silent(s)
    BY <2>1 DEF OneLogin
  <2> QED
    BY <1>1, <1>2, <1>3, <1>4, <2>1, <2>2 DEF OneLogin
<1>6. CASE Send(s)
  <2>1. PICK r \in Request :
           /\ \/ phase[s] = "connected"
              \/ phase[s] = "ready" /\ r \in LaterRequest
           /\ inbox' = [inbox EXCEPT ![s] = r]
           /\ phase' = [phase EXCEPT ![s] = IF r.op = "logout" THEN "leaving" ELSE "waiting"]
    BY <1>6 DEF Send
  <2>2. /\ UNCHANGED conn
        /\ conn[s] = "up"
        /\ inbox'[s] = r /\ phase'[s] \in {"leaving", "waiting"}
        /\ \A c \in Session : c # s => inbox'[c] = inbox[c] /\ phase'[c] = phase[c]
    BY <1>6, <2>1, LoginTypes DEF Send
  <2>3. r \in Login => phase[s] = "connected"
    BY <2>1 DEF Login, LaterRequest
  <2>4. phase[s] = "connected" => MayLogIn(s)
    BY DEF OneLogin, Silent, MayLogIn
  <2> QED
    BY <1>1, <1>2, <1>3, <1>4, <2>2, <2>3, <2>4 DEF OneLogin
<1>7. CASE Disconnect(s) \/ Transmit(s)
  <2>1. /\ UNCHANGED inbox
        /\ \A r \in Session : conn'[r] = "none" => conn[r] = "none"
    BY <1>7, LoginTypes DEF Disconnect, Transmit, SendCompletes, netVars
  <2>2. \A r \in Session : /\ phase[r] = "idle" => phase'[r] = "idle"
                           /\ phase'[r] \in {"idle", "connected"} => phase'[r] = phase[r]
    <3>1. \A msg, ph : /\ ph = "idle" => After(msg, ph) = "idle"
                       /\ After(msg, ph) \in {"idle", "connected"} => After(msg, ph) = ph
      BY DEF After
    <3> QED
      BY <1>7, <3>1, LoginTypes DEF Disconnect, Transmit
  <2> QED
    BY <1>1, <1>2, <1>3, <1>4, <2>1, <2>2 DEF OneLogin
<1> QED
  BY <1>5, <1>6, <1>7 DEF Client

\* The I/O core keeps it: a request is moved, and the accounts are left alone.
LEMMA CoreKeepsLogin ==
    ASSUME TypeOK, LoginInv, Core
    PROVE  LoginInv'
<1> USE DEF LoginInv
<1>1. UNCHANGED <<name, names, dbState, hnd, cln, phase>>
  BY DEF Core, userVars
<1>2. NamesIndex' /\ RowKnown' /\ FreeToCreate'
  BY <1>1, AccountsFrame
<1>3. ASSUME UNCHANGED <<inbox, recvQueue>>, UNCHANGED conn
             \/ \E s \in Session : conn' = [conn EXCEPT ![s] = IF @ = "up" THEN "reset" ELSE @]
      PROVE  LoginInv'
  <2>1. \A r \in Session : conn'[r] = "none" => conn[r] = "none"
    BY <1>3, LoginTypes
  <2>2. \A r \in Session : name'[r] \in {name[r], None}
    BY <1>1
  <2> QED
    BY <1>1, <1>2, <1>3, <2>1, <2>2, RequestsFrame
<1>4. ASSUME NEW s \in Session, inbox[s] # None, ReceivePacket(s), UNCHANGED conn
      PROVE  LoginInv'
  BY <1>1, <1>2, <1>4, ReceivePacketStep
<1>5. ASSUME NEW s \in Session, Kernel(s) PROVE LoginInv'
  BY <1>3, <1>5 DEF Kernel, DataArrives, ReceiveEnds, SendFails, netVars
<1>6. ASSUME NEW t \in Worker, Accept(t) PROVE LoginInv'
  <2>1. backlog \in Seq(Session) /\ backlog # <<>>
    BY <1>6 DEF Accept, TypeOK, CoreTypeOK
  <2>2. Head(backlog) \in Session
    BY <2>1
  <2> QED
    BY <1>4, <1>6, <2>2 DEF Accept
<1>7. ASSUME NEW t \in Worker, AcceptEmpty(t) PROVE LoginInv'
  BY <1>3, <1>7 DEF AcceptEmpty
<1>8. ASSUME NEW t \in Worker, NEW s \in Session, Completion(t, s) PROVE LoginInv'
  <2>1. CASE Receive(t, s)
    BY <1>4, <2>1 DEF Receive
  <2>2. CASE ZeroBytes(t, s)
    BY <1>3, <2>2 DEF ZeroBytes, netVars
  <2>3. CASE HandleWriteCompletion(t, s)
    BY <1>3, <2>3 DEF HandleWriteCompletion, netVars
  <2> QED
    BY <1>8, <2>1, <2>2, <2>3 DEF Completion
<1>9. ASSUME NEW t \in Thread, Continue(t) PROVE LoginInv'
  <2>1. CASE PostReceive(t)
    BY <1>3, <2>1 DEF PostReceive
  <2>2. CASE RegisterSession(t)
    BY <1>3, <2>2 DEF RegisterSession, netVars
  <2>3. CASE UnregisterSession(t)
    BY <1>3, <2>3 DEF UnregisterSession, netVars
  <2>4. CASE Close(t)
    <3>1. job[t].s \in Session
      BY <2>4, JobTyped DEF Close, TypeOK
    <3> QED
      BY <1>3, <2>4, <3>1 DEF Close, CloseSession, CloseSocket
  <2> QED
    BY <1>9, <2>1, <2>2, <2>3, <2>4 DEF Continue
<1>10. ASSUME NEW t \in Thread, UseAfterDelete(t) PROVE LoginInv'
  BY <1>3, <1>10 DEF UseAfterDelete, netVars
<1> QED
  BY <1>5, <1>6, <1>7, <1>8, <1>9, <1>10 DEF Core, CoreNext

\* The packet at the head of the queue is a login of a session without User.
LEMMA LoginAtHead ==
    ASSUME TypeOK, OneLogin, Packet("login")
    PROVE  /\ From \in Session
           /\ name[From] = None
           /\ \A i \in DOMAIN Tail(recvQueue) :
                 Tail(recvQueue)[i].req \in Login => Tail(recvQueue)[i].s # From
           /\ ~(inbox[From] \in Login)
           /\ phase[From] \notin {"idle", "connected"}
<1>1. /\ From \in Session
      /\ Head(recvQueue).req \in Login
  BY PacketTyped DEF Packet, TypeOK, Login
<1>2. /\ 1 \in DOMAIN recvQueue /\ Head(recvQueue) = recvQueue[1]
      /\ Len(recvQueue) \in Nat
      /\ DOMAIN Tail(recvQueue) = 1..(Len(recvQueue) - 1)
      /\ DOMAIN recvQueue = 1..Len(recvQueue)
      /\ \A i \in 1..(Len(recvQueue) - 1) :
            i + 1 \in DOMAIN recvQueue /\ Tail(recvQueue)[i] = recvQueue[i + 1]
  BY LoginTypes, TailElements DEF Packet
<1>3. recvQueue[1].req \in Login /\ recvQueue[1].s = From
  BY <1>1, <1>2 DEF From
<1>4. name[From] = None
  BY <1>2, <1>3 DEF OneLogin
<1>5. \A j \in DOMAIN recvQueue : recvQueue[j].req \in Login /\ recvQueue[j].s = From => j = 1
  BY <1>2, <1>3 DEF OneLogin
<1>6. \A i \in DOMAIN Tail(recvQueue) :
         Tail(recvQueue)[i].req \in Login => Tail(recvQueue)[i].s # From
  BY <1>2, <1>5
<1>7. ~MayLogIn(From) /\ ~Silent(From)
  BY <1>2, <1>3 DEF MayLogIn, Silent
<1> QED
  BY <1>1, <1>4, <1>6, <1>7 DEF OneLogin

\* The handler keeps it when it does not touch the accounts.
LEMMA PacketKeepsLogin ==
    ASSUME TypeOK, LoginInv, recvQueue # <<>>, Popped,
           UNCHANGED <<conn, inbox, phase, name, names, dbState, hnd, cln>>
    PROVE  LoginInv'
BY AccountsFrame, PoppedStep DEF LoginInv

\* Let in: nobody but the user being erased has the account.
LEMMA AcceptKeepsLogin ==
    ASSUME TypeOK, LoginInv, AcceptLogin, UNCHANGED phase
    PROVE  LoginInv'
<1> USE DEF LoginInv
<1>1. /\ Packet("login") /\ Who \in Account /\ dbState[Who] = "OFFLINE"
      /\ recvQueue # <<>> /\ recvQueue' = Tail(recvQueue)
      /\ hnd.pc = "idle"
      /\ hnd' = [pc |-> "create", s |-> From, who |-> Who]
      /\ UNCHANGED <<conn, inbox, phase, name, names, dbState, cln>>
  BY DEF AcceptLogin, AuthenticateUser, Packet, Popped, netVars
<1>2. /\ From \in Session /\ Who \in Account /\ name[From] = None
      /\ \A i \in DOMAIN recvQueue' : recvQueue'[i].req \in Login => recvQueue'[i].s # From
      /\ ~(inbox[From] \in Login)
      /\ phase[From] \notin {"idle", "connected"}
  BY <1>1, LoginAtHead
<1>3. NamesIndex' /\ RowKnown'
  BY <1>1 DEF NamesIndex, RowKnown, users, InUse
<1>4. FreeToCreate'
  <2>1. \A s \in Session : name[s] = Who => s \in users /\ ~InUse(name[s])
    BY <1>1, <1>2, LoginTypes DEF users, InUse
  <2>2. \A s \in Session : name[s] = Who => cln.cur = s
    BY <1>1, <2>1 DEF RowKnown
  <2> QED
    BY <1>1, <1>2, <2>2 DEF FreeToCreate
<1>5. OneLogin'
  <2>1. /\ Len(recvQueue) \in Nat
        /\ DOMAIN recvQueue = 1..Len(recvQueue)
        /\ DOMAIN recvQueue' = 1..(Len(recvQueue) - 1)
        /\ \A i \in 1..(Len(recvQueue) - 1) :
              i + 1 \in 1..Len(recvQueue) /\ recvQueue'[i] = recvQueue[i + 1]
    BY <1>1, LoginTypes, TailElements
  <2>2. \A s \in Session : s # From /\ Silent(s) => Silent(s)'
    BY <1>1, <2>1 DEF Silent
  <2>3. \A s \in Session : s # From /\ MayLogIn(s) => MayLogIn(s)'
    BY <1>1, <2>1 DEF MayLogIn
  <2>4. ASSUME NEW i \in DOMAIN recvQueue', recvQueue'[i].req \in Login
        PROVE  /\ name'[recvQueue'[i].s] = None
               /\ ~(hnd'.pc = "create" /\ hnd'.s = recvQueue'[i].s)
               /\ \A j \in DOMAIN recvQueue' :
                     recvQueue'[j].req \in Login /\ recvQueue'[j].s = recvQueue'[i].s => i = j
    <3>1. /\ name[recvQueue'[i].s] = None
          /\ \A j \in DOMAIN recvQueue' :
                recvQueue'[j].req \in Login /\ recvQueue'[j].s = recvQueue'[i].s => i = j
      BY <2>1, <2>4 DEF OneLogin
    <3>2. recvQueue'[i].s # From
      BY <1>2, <2>4
    <3> QED
      BY <1>1, <3>1, <3>2
  <2>5. \A s \in Session : conn'[s] = "none" => phase'[s] = "idle"
    BY <1>1 DEF OneLogin
  <2>6. \A s \in Session : phase'[s] \in {"idle", "connected"} =>
                              name'[s] = None /\ inbox'[s] = None /\ Silent(s)'
    BY <1>1, <1>2, <2>2 DEF OneLogin
  <2>7. \A s \in Session : inbox'[s] \in Login => MayLogIn(s)'
    BY <1>1, <1>2, <2>3 DEF OneLogin
  <2> QED
    BY <2>4, <2>5, <2>6, <2>7 DEF OneLogin
<1> QED
  BY <1>3, <1>4, <1>5

\* Created: the two maps gain one entry each, and they match.
LEMMA CreateKeepsLogin ==
    ASSUME TypeOK, LoginInv, CreateActiveUser, UNCHANGED phase
    PROVE  LoginInv'
<1> USE DEF LoginInv
<1> DEFINE s0 == hnd.s
           a0 == hnd.who
<1>1. /\ hnd.pc = "create" /\ cln.cur = None
      /\ s0 \in Session /\ a0 \in Account
      /\ hnd'.pc = "load" /\ hnd'.s = s0 /\ hnd'.who = a0
      /\ UNCHANGED <<conn, inbox, recvQueue, phase, dbState, cln>>
  BY LoginTypes, HndTyped
  DEF CreateActiveUser, LockFree, TypeOK, coreVars, netVars, Busy
<1>2. name[s0] = None /\ \A s \in Session : name[s] # a0
  BY <1>1, LoginTypes DEF FreeToCreate
<1>3. names[a0] = None
  BY <1>1, <1>2, LoginTypes DEF NamesIndex
<1>4. /\ names' = [names EXCEPT ![a0] = s0]
      /\ name' = [name EXCEPT ![s0] = a0]
  BY <1>2, <1>3 DEF CreateActiveUser, InsertUser
<1>5. NamesIndex'
  BY <1>1, <1>2, <1>3, <1>4, LoginTypes DEF NamesIndex
<1>6. RowKnown'
  <2>1. ASSUME NEW s \in Session, s # s0, name[s] # None PROVE InUse(name[s])
    BY <1>1, <2>1, LoginTypes DEF RowKnown, users
  <2> QED
    BY <1>1, <1>4, <2>1, LoginTypes DEF RowKnown, users, InUse
<1>7. FreeToCreate'
  BY <1>1 DEF FreeToCreate
<1>8. OneLogin'
  <2>1. phase[s0] \notin {"idle", "connected"} /\ inbox[s0] \notin Login
    BY <1>1 DEF OneLogin, Silent, MayLogIn
  <2>2. \A i \in DOMAIN recvQueue : recvQueue[i].req \in Login =>
            recvQueue[i].s # s0 /\ recvQueue[i].s \in Session
    <3>1. \A i \in DOMAIN recvQueue : recvQueue[i] \in RecvItem
      BY LoginTypes, LenProperties, ElementOfSeq
    <3> QED
      BY <1>1, <3>1 DEF OneLogin, RecvItem
  <2>3. \A s \in Session : s # s0 => name'[s] = name[s]
    BY <1>4, LoginTypes
  <2>4. \A s \in Session : s # s0 => (Silent(s) => Silent(s)') /\ (MayLogIn(s) => MayLogIn(s)')
    BY <1>1, <2>3 DEF Silent, MayLogIn
  <2> HIDE DEF s0
  <2> QED
    BY <1>1, <2>1, <2>2, <2>3, <2>4 DEF OneLogin
<1> QED
  BY <1>5, <1>6, <1>7, <1>8

\* The rest of a login writes the row of its own account only, to a state in use.
LEMMA LoadKeepsLogin ==
    ASSUME TypeOK, LoginInv, UNCHANGED phase,
           LoadFriends \/ LoadFails \/ AnnounceLogin \/ GrantLogin
    PROVE  LoginInv'
<1> USE DEF LoginInv
<1>1. /\ hnd.pc # "idle" /\ hnd.pc # "create"
      /\ hnd'.pc # "create" /\ hnd'.pc # "load"
      /\ UNCHANGED <<conn, inbox, recvQueue, phase, name, names, cln>>
      /\ hnd.pc = "load" => dbState' = [dbState EXCEPT ![hnd.who] = "IN_GAME"]
      /\ hnd.pc # "load" => dbState' \in {dbState, [dbState EXCEPT ![hnd.who] = "ONLINE"]}
  <2>1. CASE LoadFriends \/ LoadFails
    <3>1. hnd \in Busy /\ hnd.pc = "load"
      BY <2>1, HndTyped DEF LoadFriends, LoadFails, TypeOK
    <3> QED
      BY <2>1, <3>1 DEF LoadFriends, LoadFails, Busy, coreVars, netVars
  <2>2. CASE AnnounceLogin \/ GrantLogin
    BY <2>2 DEF AnnounceLogin, GrantLogin, Grant, UpdateState, HandlerIdle, netVars
  <2> QED
    BY <2>1, <2>2
<1>2. hnd.s \in Session /\ hnd.who \in Account
  BY <1>1, HndTyped DEF TypeOK
<1>3. \A a \in Account : InUse(a) => InUse(a)'
  BY <1>1, LoginTypes DEF InUse
<1>4. hnd.pc = "load" => dbState'[hnd.who] = "IN_GAME"
  BY <1>1, <1>2, LoginTypes DEF InUse
<1>5. RowKnown'
  <2>1. ASSUME NEW s \in users PROVE InUse(name[s])' \/ cln'.cur = s
    <3>1. name[s] \in Account
      BY LoginTypes DEF users
    <3>2. CASE hnd.pc = "load" /\ hnd.s = s
      BY <1>1, <1>4, <3>1, <3>2, LoginTypes DEF RowKnown, users, InUse
    <3>3. CASE ~(hnd.pc = "load" /\ hnd.s = s)
      BY <1>1, <1>3, <3>1, <3>3 DEF RowKnown, InUse
    <3> QED
      BY <3>2, <3>3
  <2> QED
    BY <1>1, <2>1 DEF RowKnown, users
<1>6. NamesIndex' /\ FreeToCreate'
  BY <1>1 DEF NamesIndex, FreeToCreate
<1>7. OneLogin'
  <2>1. \A s \in Session : name'[s] \in {name[s], None}
    BY <1>1
  <2> QED
    BY <1>1, <2>1, RequestsFrame
<1> QED
  BY <1>5, <1>6, <1>7

\* The user s of account name[s] goes, or is marked, while nobody else is.
LEMMA RowOffline ==
    ASSUME TypeOK, LoginInv, cln.cur = None, NEW s \in users,
           UpdateState(name[s], "OFFLINE"),
           NEW r \in users, r # s, ~(hnd.pc = "load" /\ hnd.s = r)
    PROVE  dbState'[name[r]] \in {"ONLINE", "IN_GAME"}
<1>1. s \in Session /\ r \in Session /\ name[s] \in Account /\ name[r] \in Account
  BY LoginTypes DEF users
<1>2. name[r] # name[s]
  BY <1>1 DEF LoginInv, NamesIndex
<1>3. InUse(name[r])
  BY <1>1, LoginTypes DEF LoginInv, RowKnown
<1> QED
  BY <1>1, <1>2, <1>3, LoginTypes DEF UpdateState, InUse

\* Erasing a user keeps the maps inverse to each other.
LEMMA EraseKeepsIndex ==
    ASSUME TypeOK, NamesIndex, NEW s \in Session, EraseUser(s)
    PROVE  /\ NamesIndex'
           /\ name'[s] = None
           /\ \A r \in Session : r # s => name'[r] = name[r]
           /\ \A r \in Session : name'[r] \in {name[r], None}
<1>1. /\ name' = [name EXCEPT ![s] = None]
      /\ names' = [names EXCEPT ![name[s]] = None]
  BY DEF EraseUser
<1>2. /\ name'[s] = None
      /\ \A r \in Session : r # s => name'[r] = name[r]
  BY <1>1, LoginTypes
<1>3. ASSUME NEW a \in Account, NEW r \in Session PROVE names'[a] = r <=> name'[r] = a
  <2>1. CASE r = s
    BY <1>1, <1>2, <2>1, LoginTypes DEF NamesIndex
  <2>2. CASE r # s
    BY <1>1, <1>2, <2>2, LoginTypes DEF NamesIndex
  <2> QED
    BY <2>1, <2>2
<1> QED
  BY <1>2, <1>3 DEF NamesIndex

LEMMA LogoutKeepsLogin ==
    ASSUME TypeOK, LoginInv, HandleLogout, UNCHANGED phase
    PROVE  LoginInv'
<1> USE DEF LoginInv
<1>1. /\ hnd.pc = "idle" /\ cln.cur = None /\ recvQueue # <<>> /\ Popped
      /\ From \in users /\ From \in Session
      /\ UpdateState(name[From], "OFFLINE") /\ EraseUser(From)
      /\ UNCHANGED <<conn, inbox, phase, hnd, cln>>
  BY LoginTypes DEF HandleLogout, Packet, LockFree, users, netVars
<1>2. /\ NamesIndex'
      /\ name'[From] = None
      /\ \A r \in Session : r # From => name'[r] = name[r]
      /\ \A r \in Session : name'[r] \in {name[r], None}
  BY <1>1, EraseKeepsIndex
<1>3. RowKnown'
  <2>1. ASSUME NEW r \in Session, name'[r] # None PROVE InUse(name[r])'
    <3>1. r # From /\ r \in users /\ name'[r] = name[r]
      BY <1>2, <2>1 DEF users
    <3> QED
      BY <1>1, <3>1, RowOffline DEF InUse
  <2> QED
    BY <1>1, <2>1 DEF RowKnown, users, InUse
<1>4. FreeToCreate'
  BY <1>1 DEF FreeToCreate
<1>5. OneLogin'
  BY <1>1, <1>2, PoppedStep
<1> QED
  BY <1>2, <1>3, <1>4, <1>5

LEMMA JoinKeepsLogin ==
    ASSUME TypeOK, LoginInv, HandleJoin, UNCHANGED phase
    PROVE  LoginInv'
<1> USE DEF LoginInv
<1>1. /\ recvQueue # <<>> /\ Popped
      /\ dbState' \in {dbState, [dbState EXCEPT ![Who] = "ONLINE"]}
      /\ UNCHANGED <<conn, inbox, phase, name, names, hnd, cln>>
  BY DEF HandleJoin, Packet, netVars
<1>2. \A a \in Account : InUse(a) => dbState'[a] \in {"ONLINE", "IN_GAME"}
  BY <1>1, LoginTypes DEF InUse
<1>3. NamesIndex' /\ FreeToCreate'
  BY <1>1 DEF NamesIndex, FreeToCreate
<1>4. RowKnown'
  <2>1. \A s \in users : name[s] \in Account
    BY LoginTypes DEF users
  <2> QED
    BY <1>1, <1>2, <2>1 DEF RowKnown, users, InUse
<1>5. OneLogin'
  BY <1>1, PoppedStep
<1> QED
  BY <1>3, <1>4, <1>5

LEMMA HandlerKeepsLogin ==
    ASSUME TypeOK, LoginInv, Handler, UNCHANGED phase
    PROVE  LoginInv'
<1>1. CASE DropPacket \/ RefuseLogin \/ HandleFind
  <2>1. /\ recvQueue # <<>> /\ Popped
        /\ UNCHANGED <<conn, inbox, phase, name, names, dbState, hnd, cln>>
    BY <1>1 DEF DropPacket, RefuseLogin, HandleFind, Packet, netVars, userVars
  <2> QED
    BY <2>1, PacketKeepsLogin
<1>2. CASE LoginFails \/ LogoutFails \/ FindFails
  <2>1. UNCHANGED <<conn, inbox, recvQueue, name, names, dbState, hnd, cln>>
    BY <1>2 DEF LoginFails, LogoutFails, FindFails, Crash, netVars, userVars
  <2> QED
    BY <2>1, AccountsFrame, RequestsFrame DEF LoginInv
<1> QED
  BY <1>1, <1>2, AcceptKeepsLogin, CreateKeepsLogin, LoadKeepsLogin, LogoutKeepsLogin,
     JoinKeepsLogin DEF Handler

\* The cleaner keeps it: between its two halves the row says OFFLINE and the User
\* is still there, and that is the user cln.cur.
LEMMA CleanerKeepsLogin ==
    ASSUME TypeOK, LoginInv, Cleaner, UNCHANGED phase
    PROVE  LoginInv'
<1> USE DEF LoginInv
<1>1. ASSUME NEW s \in Session, Reap(s) PROVE LoginInv'
  <2>1. /\ cln.cur = None /\ cln'.cur = s /\ s \in users
        /\ UpdateState(name[s], "OFFLINE")
        /\ UNCHANGED <<conn, inbox, recvQueue, phase, name, names, hnd>>
    BY <1>1, LoginTypes DEF Reap, TypeOK, UserTypeOK, netVars
  <2>2. \A r \in users : r # s /\ ~(hnd.pc = "load" /\ hnd.s = r) =>
                            dbState'[name[r]] \in {"ONLINE", "IN_GAME"}
    BY <2>1, RowOffline
  <2>3. RowKnown'
    BY <2>1, <2>2 DEF RowKnown, users, InUse
  <2>4. NamesIndex' /\ FreeToCreate'
    BY <2>1, LoginTypes DEF NamesIndex, FreeToCreate
  <2>5. OneLogin'
    BY <2>1, RequestsFrame
  <2> QED
    BY <2>3, <2>4, <2>5
<1>2. CASE Erase
  <2>1. /\ cln.cur \in Session /\ cln'.cur = None /\ EraseUser(cln.cur)
        /\ UNCHANGED <<conn, inbox, recvQueue, phase, dbState, hnd>>
    BY <1>2, LoginTypes DEF Erase, Asleep, TypeOK, UserTypeOK, coreVars, netVars
  <2>2. /\ NamesIndex'
        /\ name'[cln.cur] = None
        /\ \A r \in Session : r # cln.cur => name'[r] = name[r]
        /\ \A r \in Session : name'[r] \in {name[r], None}
    BY <2>1, EraseKeepsIndex
  <2>3. hnd.pc \in {"load", "create"} => hnd.s \in Session /\ hnd.who \in Account
    BY HndTyped DEF TypeOK
  <2>4. RowKnown'
    BY <2>1, <2>2, <2>3 DEF RowKnown, users, InUse
  <2>5. FreeToCreate'
    BY <2>1, <2>2, <2>3, LoginTypes DEF FreeToCreate
  <2>6. OneLogin'
    BY <2>1, <2>2, RequestsFrame
  <2> QED
    BY <2>2, <2>4, <2>5, <2>6
<1>3. ASSUME UNCHANGED <<conn, inbox, recvQueue, name, names, dbState, hnd>>,
             cln'.cur = cln.cur
      PROVE  LoginInv'
  <2>1. NamesIndex' /\ RowKnown' /\ FreeToCreate'
    BY <1>3 DEF NamesIndex, RowKnown, FreeToCreate, users, InUse
  <2> QED
    BY <1>3, <2>1, RequestsFrame
<1>4. CASE Snapshot \/ ScanEnds \/ \E s \in Session : Scan(s) \/ ReapFails(s)
  <2>1. UNCHANGED <<conn, inbox, recvQueue, name, names, dbState, hnd>>
    BY <1>4 DEF Snapshot, ScanEnds, Scan, ReapFails, CleanerOnly, Crash, coreVars, netVars,
                userVars
  <2>2. cln'.cur = cln.cur
    BY <1>4 DEF Snapshot, ScanEnds, Scan, ReapFails, Crash, userVars, TypeOK, UserTypeOK
  <2> QED
    BY <1>3, <2>1, <2>2
<1> QED
  BY <1>1, <1>2, <1>4 DEF Cleaner

\* A process has just started.
Fresh ==
    /\ name = [s \in Session |-> None] /\ names = [a \in Account |-> None]
    /\ inbox = [s \in Session |-> None] /\ recvQueue = <<>> /\ hnd = HandlerIdle
    /\ \A s \in Session : conn[s] = "none" => phase[s] = "idle"

\* Nobody is logged in at the start of a process, whatever the old one left.
LEMMA StartKeepsLogin == Fresh => LoginInv
<1> SUFFICES ASSUME Fresh PROVE LoginInv
  OBVIOUS
<1> USE DEF Fresh
<1>1. NamesIndex
  BY AccountAssumption, NoneAssumption DEF NamesIndex
<1>2. RowKnown /\ FreeToCreate
  BY DEF RowKnown, FreeToCreate, users, HandlerIdle
<1>3. OneLogin
  <2>1. None \notin Login /\ DOMAIN recvQueue = {}
    BY NoneAssumption DEF Login
  <2> QED
    BY <2>1 DEF OneLogin, Silent, MayLogIn, HandlerIdle
<1> QED
  BY <1>1, <1>2, <1>3 DEF LoginInv

LEMMA RestartKeepsLogin ==
    ASSUME Restart
    PROVE  LoginInv'
<1>1. Fresh'
  BY DEF Restart, CoreRestart, UserRestart, Fresh
<1> QED
  BY <1>1, StartKeepsLogin, PTL

LEMMA StepKeepsLogin ==
    ASSUME TypeOK, LoginInv, [Next]_vars
    PROVE  LoginInv'
<1>1. CASE SendTask \/ SendFreed \/ UNCHANGED vars
  <2>1. UNCHANGED <<conn, inbox, recvQueue, phase, name, names, dbState, hnd, cln>>
    BY <1>1 DEF SendTask, PostSend, SendFreed, Crash, vars, coreVars, netVars, userVars
  <2> QED
    BY <2>1, AccountsFrame, RequestsFrame DEF LoginInv
<1> QED
  BY <1>1, ClientKeepsLogin, CoreKeepsLogin, HandlerKeepsLogin, CleanerKeepsLogin,
     RestartKeepsLogin DEF Next, App, Quiescent

\* The login invariant holds of every execution.
THEOREM LoginInvariant == Spec => []LoginInv
<1>1. Init => LoginInv
  BY StartKeepsLogin DEF Fresh, Init, CoreInit, UserInit
<1>2. TypeOK /\ LoginInv /\ [Next]_vars => LoginInv'
  BY StepKeepsLogin
<1> QED
  BY <1>1, <1>2, Typing, PTL DEF Spec

\* The index of names is the inverse of the map of users in every state, although
\* the two are written separately and insert() may do nothing.
THEOREM IndexMatches == Spec => []NamesIndex
<1>1. LoginInv => NamesIndex
  BY DEF LoginInv
<1> QED
  BY <1>1, LoginInvariant, PTL

\* No account is logged in on two connections: neither a second login, nor the
\* cleaner between its two writes, nor a restart lets that happen.
THEOREM OneUserPerAccount == Spec => []SingleLogin
<1>1. TypeOK /\ LoginInv => SingleLogin
  BY LoginTypes DEF LoginInv, NamesIndex, SingleLogin, users
<1> QED
  BY <1>1, Typing, LoginInvariant, PTL
=============================================================================
