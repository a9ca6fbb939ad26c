---------------------------- MODULE DirectoryProofs ----------------------------
(***************************************************************************)
(* The server implements the account directory: whatever the threads do, a *)
(* connection gets only a free account, and loses it only after its client *)
(* left or asked to leave, or with the process.                            *)
(*                                                                         *)
(* The server closes a session because of what its client did, or because  *)
(* it refused the only login the connection will ever send (Excused).  The *)
(* many ways a session may be on its way out are collected in Ending; that *)
(* a user that is ending is excused is the invariant.                      *)
(***************************************************************************)
EXTENDS OutgameServerProofs

Queue == {recvQueue[i] : i \in DOMAIN recvQueue}

\* The client of s is gone or wants to go.
Departed(s) == conn[s] = "gone" \/ phase[s] \in {"leaving", "finished"}

\* The login of s, if its client sends one, has reached the handler.
Past(s) ==
    /\ phase[s] \notin {"idle", "connected"}
    /\ inbox[s] \notin Login
    /\ \A e \in Queue : e.s = s => e.req \notin Login

\* s has no user and will have none: its only first request was no login, or has
\* been refused.
Barred(s) == Past(s) /\ name[s] = None /\ ~(hnd.pc = "create" /\ hnd.s = s)

Excused(s) == Departed(s) \/ Barred(s)

LastRequest == {r \in Request : r.op \in {"join", "logout"}}

\* A worker or the send thread is about to close s.
Closing(s) ==
    \E t \in Thread : /\ job[t].op \in {"unregister", "close", "eof", "eofclose"}
                      /\ job[t].s = s

\* The socket of s is closed, or some completion or state will have it closed.
Shut(s) ==
    \/ sock[s] = "closed" \/ conn[s] = "reset" \/ zero[s] > 0
    \/ state[s] \in {"CLOSE", "UNREGISTER", "INVALID"}
    \/ Closing(s)

\* A request of s that ends its exchange is on its way.
Asked(s) ==
    \/ inbox[s] \in LastRequest
    \/ \E e \in Queue : e.s = s /\ e.req \in LastRequest

\* The cleaner has found s dead, or is erasing it.
Found(s) == s \in cln.dead \/ s = cln.cur

Ending(s) == Shut(s) \/ Asked(s) \/ Found(s)

Parting == \A s \in Session : Ending(s) => Excused(s)

-----------------------------------------------------------------------------

\* What stays excused, and what may begin to end.
LEMMA PartingStep ==
    ASSUME Parting,
           \A s \in Session : Excused(s) => Excused(s)',
           \A s \in Session : Ending(s)' => Ending(s) \/ Excused(s) \/ Excused(s)'
    PROVE  Parting'
BY DEF Parting

\* The requests after a packet is queued or popped.
LEMMA QueueAppend ==
    ASSUME TypeOK, NEW s \in Session, inbox[s] # None, ReceivePacket(s)
    PROVE  Queue' = Queue \cup {[s |-> s, req |-> inbox[s]]}
<1> DEFINE e == [s |-> s, req |-> inbox[s]]
<1>1. recvQueue \in Seq(RecvItem) /\ e \in RecvItem
  BY LoginTypes DEF RecvItem
<1>2. recvQueue' = Append(recvQueue, e)
  BY DEF ReceivePacket
<1> HIDE DEF e
<1>3. /\ Len(recvQueue) \in Nat /\ DOMAIN recvQueue = 1..Len(recvQueue)
      /\ DOMAIN recvQueue' = 1..(Len(recvQueue) + 1)
      /\ recvQueue'[Len(recvQueue) + 1] = e
      /\ \A i \in 1..Len(recvQueue) : recvQueue'[i] = recvQueue[i]
  BY <1>1, <1>2, AppendElements
<1>4. Queue' = Queue \cup {e}
  <2>1. \A i \in DOMAIN recvQueue' : i \in DOMAIN recvQueue \/ i = Len(recvQueue) + 1
    BY <1>3
  <2>2. Len(recvQueue) + 1 \in DOMAIN recvQueue' /\ DOMAIN recvQueue \subseteq DOMAIN recvQueue'
    BY <1>3
  <2> QED
    BY <1>3, <2>1, <2>2 DEF Queue
<1> QED
  BY <1>4 DEF e

LEMMA QueueTail ==
    ASSUME TypeOK, recvQueue # <<>>, Popped
    PROVE  /\ Queue' \subseteq Queue
           /\ Head(recvQueue) \in Queue /\ Head(recvQueue) \in RecvItem
<1>1. recvQueue \in Seq(RecvItem)
  BY LoginTypes
<1>2. /\ 1 \in DOMAIN recvQueue /\ Head(recvQueue) = recvQueue[1] /\ recvQueue[1] \in RecvItem
      /\ DOMAIN recvQueue = 1..Len(recvQueue) /\ DOMAIN recvQueue' = 1..(Len(recvQueue) - 1)
      /\ \A i \in 1..(Len(recvQueue) - 1) :
            i + 1 \in 1..Len(recvQueue) /\ recvQueue'[i] = recvQueue[i + 1]
  BY <1>1, TailElements DEF Popped
<1> QED
  BY <1>2 DEF Queue

\* A step of the server that starts no login leaves every s excused that was.
LEMMA ExcusedStays ==
    ASSUME NEW s \in Session, Excused(s),
           phase'[s] = phase[s], conn[s] = "gone" => conn'[s] = "gone",
           inbox'[s] \in {inbox[s], None}, name'[s] \in {name[s], None},
           hnd'.pc = "create" => hnd' = hnd,
           Queue' \subseteq Queue \cup {[s |-> r, req |-> inbox[r]] : r \in Session},
           None \notin Login
    PROVE  Excused(s)'
<1>1. CASE Departed(s)
  BY <1>1 DEF Departed, Excused
<1>2. CASE Barred(s)
  <2>1. \A e \in Queue' : e.s = s => e.req \notin Login
    BY <1>2 DEF Barred, Past
  <2> QED
    BY <1>2, <2>1 DEF Barred, Past, Excused
<1> QED
  BY <1>1, <1>2 DEF Excused

LEMMA NoneNoRequest == None \notin Login /\ None \notin LastRequest
BY NoneAssumption DEF Login, LastRequest

-----------------------------------------------------------------------------
(* The clients.                                                            *)

LEMMA ClientParts ==
    ASSUME TypeOK, LoginInv, Parting, NEW c \in Session, Client(c)
    PROVE  Parting'
<1> USE DEF netVars, sessVars, userVars
<1>0. /\ phase \in [Session -> Phase] /\ inbox \in [Session -> Request \cup {None}]
      /\ conn \in [Session -> {"none", "up", "gone", "reset"}]
  BY LoginTypes
<1>1. CASE Connect(c)
  <2>1. /\ conn[c] = "none" /\ phase[c] = "idle" /\ ~Excused(c)
        /\ \A s \in Session \ {c} : conn'[s] = conn[s] /\ phase'[s] = phase[s]
        /\ conn'[c] = "up"
    BY <1>0, <1>1 DEF Connect, LoginInv, OneLogin, Excused, Departed, Barred, Past
  <2>2. UNCHANGED <<inbox, recvQueue, sock, zero, state, job, cln, name, hnd, Queue>>
    BY <1>1 DEF Connect, Queue
  <2>3. \A s \in Session : Excused(s) => Excused(s)'
    BY <2>1, <2>2 DEF Excused, Departed, Barred, Past
  <2>4. \A s \in Session : Ending(s)' => Ending(s)
    BY <2>1, <2>2 DEF Ending, Shut, Closing, Asked, Found
  <2> QED
    BY <2>3, <2>4, PartingStep
<1>2. CASE Send(c)
  <2>1. PICK r \in Request :
          /\ \/ phase[c] = "connected" /\ r \in FirstRequest
             \/ phase[c] = "ready" /\ r \in LaterRequest
          /\ inbox' = [inbox EXCEPT ![c] = r]
          /\ phase' = [phase EXCEPT ![c] = IF r.op = "logout" THEN "leaving" ELSE "waiting"]
    BY <1>2 DEF Send
  <2>2. UNCHANGED <<conn, recvQueue, sock, zero, state, job, cln, name, hnd, Queue>> /\ conn[c] = "up"
    BY <1>2 DEF Send, Queue
  <2>3. /\ inbox'[c] = r /\ phase'[c] = IF r.op = "logout" THEN "leaving" ELSE "waiting"
        /\ \A s \in Session \ {c} : inbox'[s] = inbox[s] /\ phase'[s] = phase[s]
    BY <1>0, <2>1
  <2>4. \A s \in Session \ {c} : (Excused(s) => Excused(s)') /\ (Ending(s)' => Ending(s))
    BY <2>2, <2>3 DEF Excused, Departed, Barred, Past, Ending, Shut, Closing, Asked, Found
  <2>5. CASE r.op = "logout"
    <3>1. Excused(c)'
      BY <2>3, <2>5 DEF Excused, Departed
    <3> QED
      BY <2>4, <3>1, PartingStep
  <2>6. CASE r \in FirstRequest
    <3>1. r.op \in {"login", "join"} /\ phase[c] = "connected"
      BY <2>1, <2>6 DEF FirstRequest, LaterRequest
    <3>2. ~Excused(c) /\ ~Ending(c)
      BY <2>2, <3>1 DEF Excused, Departed, Barred, Past, Parting
    <3>3. CASE r.op = "login"
      <4>1. r \notin LastRequest
        BY <3>3 DEF LastRequest
      <4>2. ~Ending(c)'
        BY <2>2, <2>3, <3>2, <4>1 DEF Ending, Shut, Closing, Asked, Found
      <4> QED
        BY <2>4, <3>2, <4>2, PartingStep
    <3>4. CASE r.op = "join"
      <4>1. r \notin Login
        BY <3>4 DEF Login
      <4>2. name[c] = None /\ Silent(c)
        BY <3>1 DEF LoginInv, OneLogin
      <4>3. \A e \in Queue : e.s # c
        BY <4>2 DEF Silent, Queue
      <4>4. phase'[c] = "waiting"
        BY <2>3, <3>4
      <4>5. Barred(c)'
        BY <2>2, <2>3, <4>1, <4>2, <4>3, <4>4 DEF Barred, Past, Silent
      <4> QED
        BY <2>4, <4>5, PartingStep DEF Excused
    <3> QED
      BY <3>1, <3>3, <3>4
  <2>7. CASE r \in LaterRequest /\ r.op # "logout"
    <3>1. r.op = "find" /\ phase[c] = "ready"
      BY <2>1, <2>7 DEF FirstRequest, LaterRequest
    <3>2. r \notin Login /\ r \notin LastRequest
      BY <3>1 DEF Login, LastRequest
    <3>3. phase'[c] = "waiting"
      BY <2>3, <3>1
    <3>4. Excused(c) => Excused(c)'
      BY <2>2, <2>3, <3>1, <3>2, <3>3 DEF Excused, Departed, Barred, Past
    <3>5. Ending(c)' => Ending(c)
      BY <2>2, <2>3, <3>2 DEF Ending, Shut, Closing, Asked, Found
    <3> QED
      BY <2>4, <3>4, <3>5, PartingStep
  <2> QED
    BY <2>1, <2>5, <2>6, <2>7
<1>3. CASE Disconnect(c)
  <2>1. UNCHANGED <<phase, inbox, recvQueue, sock, zero, state, job, cln, name, hnd, Queue>>
    BY <1>3 DEF Disconnect, Queue
  <2>2. conn'[c] = "gone" /\ \A s \in Session \ {c} : conn'[s] = conn[s]
    BY <1>0, <1>3 DEF Disconnect
  <2>3. \A s \in Session : Excused(s) => Excused(s)'
    BY <2>1, <2>2 DEF Excused, Departed, Barred, Past
  <2>4. \A s \in Session : Ending(s)' => Ending(s)
    BY <2>1, <2>2 DEF Ending, Shut, Closing, Asked, Found
  <2> QED
    BY <2>3, <2>4, PartingStep
<1>4. CASE Transmit(c)
  <2>1. UNCHANGED <<conn, inbox, recvQueue, sock, zero, state, job, cln, name, hnd, Queue>>
    BY <1>4 DEF Transmit, SendCompletes, Queue
  <2>2. \A s \in Session : \/ phase'[s] = phase[s]
                           \/ phase[s] \notin {"idle", "connected", "finished"} /\ phase'[s] = "finished"
                           \/ phase[s] = "waiting" /\ phase'[s] = "ready"
    BY <1>0, <1>4 DEF Transmit, After
  <2>3. \A s \in Session : Excused(s) => Excused(s)'
    BY <2>1, <2>2 DEF Excused, Departed, Barred, Past
  <2>4. \A s \in Session : Ending(s)' => Ending(s)
    BY <2>1 DEF Ending, Shut, Closing, Asked, Found
  <2> QED
    BY <2>3, <2>4, PartingStep
<1> QED
  BY <1>1, <1>2, <1>3, <1>4 DEF Client

-----------------------------------------------------------------------------
(* The core.                                                               *)

\* A completion or a job of the core leaves what is excused, and no session but
\* one that was ending, or whose client is gone, begins to end.
LEMMA CoreParts ==
    ASSUME TypeOK, LoginInv, Parting, CoreNext, UNCHANGED <<userVars, phase>>
    PROVE  Parting'
<1> USE NoneNoRequest DEF netVars, sessVars
<1>0. /\ inbox \in [Session -> Request \cup {None}]
      /\ conn \in [Session -> {"none", "up", "gone", "reset"}]
      /\ sock \in [Session -> {"none", "open", "closed"}]
      /\ state \in [Session -> SessionState]
      /\ zero \in [Session -> Nat] /\ posted \in [Session -> Nat]
      /\ recv \in [Session -> {"none", "posted", "data"}]
      /\ job \in Jobs /\ None \notin Session /\ Worker \subseteq Thread
      /\ UNCHANGED <<name, hnd, cln, phase>>
  BY LoginTypes DEF TypeOK, CoreTypeOK, Jobs, Thread, userVars
<1>a. ASSUME UNCHANGED <<conn, inbox, recvQueue>>
      PROVE  /\ \A s \in Session : Excused(s) => Excused(s)'
             /\ \A s \in Session : Asked(s)' => Asked(s)
             /\ \A s \in Session : Found(s)' => Found(s)
  <2>1. UNCHANGED Queue
    BY <1>a DEF Queue
  <2> QED
    BY <1>0, <1>a, <2>1 DEF Excused, Departed, Barred, Past, Asked, Found
<1>b. ASSUME NEW r \in Session, inbox[r] # None, ReceivePacket(r), UNCHANGED conn
      PROVE  /\ \A s \in Session : Excused(s) => Excused(s)'
             /\ \A s \in Session : Asked(s)' => Asked(s)
             /\ \A s \in Session : Found(s)' => Found(s)
  <2>1. Queue' = Queue \cup {[s |-> r, req |-> inbox[r]]}
    BY <1>b, QueueAppend
  <2>2. \A s \in Session : inbox'[s] = IF s = r THEN None ELSE inbox[s]
    BY <1>0, <1>b DEF ReceivePacket
  <2>3. \A s \in Session : Excused(s) => Excused(s)'
    BY <1>0, <1>b, <2>1, <2>2, ExcusedStays
  <2> QED
    BY <1>0, <2>1, <2>2, <2>3 DEF Asked, Found
\* Jobs of a thread that is given, or finishes, one.
<1>c. \A t \in Thread, s \in Session : Done(t) /\ Closing(s)' => Closing(s)
  BY <1>0 DEF Done, Closing, Wait, Jobs
<1>d. \A t \in Thread, op \in Op, r, s \in Session :
          Goto(t, op, r) /\ Closing(s)' =>
              \/ Closing(s)
              \/ s = r /\ op \in {"unregister", "close", "eof", "eofclose"}
  BY <1>0 DEF Goto, Closing, Jobs
<1>1. ASSUME NEW c \in Session, DataArrives(c) PROVE Parting'
  <2>1. \A s \in Session : Ending(s)' => Ending(s)
    BY <1>1, <1>a DEF DataArrives, Ending, Shut, Closing
  <2> QED
    BY <1>1, <1>a, <2>1, PartingStep DEF DataArrives
<1>2. ASSUME NEW c \in Session, ReceiveEnds(c) \/ SendFails(c) PROVE Parting'
  <2>1. \A s \in Session \ {c} : zero'[s] = zero[s]
    BY <1>0, <1>2 DEF ReceiveEnds, SendFails
  <2>2. Ending(c) \/ Excused(c)
    BY <1>0, <1>2 DEF ReceiveEnds, SendFails, Broken, Ending, Shut, Excused, Departed
  <2>3. UNCHANGED <<conn, inbox, recvQueue, sock, state, job>>
    BY <1>2 DEF ReceiveEnds, SendFails
  <2>4. \A s \in Session : Ending(s)' => Ending(s) \/ Excused(s)
    BY <1>a, <2>1, <2>2, <2>3 DEF Ending, Shut, Closing
  <2> QED
    BY <1>a, <2>3, <2>4, PartingStep
<1>3. ASSUME NEW t \in Worker, Accept(t) PROVE Parting'
  <2> DEFINE c == Head(backlog)
  <2>1. c \in Session
    BY <1>3 DEF Accept, TypeOK, CoreTypeOK
  <2>2. inbox[c] # None /\ ReceivePacket(c) /\ Goto(t, "accept", c) /\ UNCHANGED <<conn, zero, state>>
    BY <1>3 DEF Accept
  <2>3. \A s \in Session : sock'[s] = "closed" => sock[s] = "closed"
    BY <1>0, <1>3, <2>1 DEF Accept
  <2>4. \A s \in Session : Closing(s)' => Closing(s)
    BY <1>0, <1>d, <2>1, <2>2 DEF Op
  <2> HIDE DEF c
  <2>5. \A s \in Session : Ending(s)' => Ending(s)
    BY <1>b, <2>1, <2>2, <2>3, <2>4 DEF Ending, Shut
  <2> QED
    BY <1>b, <2>1, <2>2, <2>5, PartingStep
<1>4. ASSUME NEW t \in Worker, AcceptEmpty(t) PROVE Parting'
  <2>1. \A s \in Session : Ending(s)' => Ending(s)
    BY <1>4, <1>a DEF AcceptEmpty, Ending, Shut, Closing
  <2> QED
    BY <1>4, <1>a, <2>1, PartingStep DEF AcceptEmpty
<1>5. ASSUME NEW t \in Worker, NEW c \in Session, Receive(t, c) PROVE Parting'
  <2>1. inbox[c] # None /\ ReceivePacket(c) /\ Goto(t, "receive", c) /\ UNCHANGED <<conn, zero, state, sock>>
    BY <1>5 DEF Receive
  <2>2. \A s \in Session : Closing(s)' => Closing(s)
    BY <1>0, <1>d, <2>1 DEF Op
  <2>3. \A s \in Session : Ending(s)' => Ending(s)
    BY <1>b, <2>1, <2>2 DEF Ending, Shut
  <2> QED
    BY <1>b, <2>1, <2>3, PartingStep
<1>6. ASSUME NEW t \in Worker, NEW c \in Session, ZeroBytes(t, c) PROVE Parting'
  <2>1. UNCHANGED <<conn, inbox, recvQueue, sock, state>>
    BY <1>6 DEF ZeroBytes
  <2>2. Shut(c) /\ \A s \in Session \ {c} : zero'[s] = zero[s]
    BY <1>0, <1>6 DEF ZeroBytes, Shut
  <2>3. \A s \in Session \ {c} : Closing(s)' => Closing(s)
    BY <1>0, <1>6, <1>d DEF ZeroBytes, Op
  <2>4. \A s \in Session : Ending(s)' => Ending(s)
    BY <1>a, <2>1, <2>2, <2>3 DEF Ending, Shut
  <2> QED
    BY <1>a, <2>1, <2>4, PartingStep
<1>7. ASSUME NEW t \in Worker, NEW c \in Session, HandleWriteCompletion(t, c) PROVE Parting'
  <2>1. UNCHANGED <<conn, inbox, recvQueue, sock, state, zero>>
    BY <1>7 DEF HandleWriteCompletion
  <2>2. \A s \in Session : Closing(s)' => Closing(s) \/ Shut(s)
    <3>1. CASE state[c] \notin {"REGISTER", "CLOSE", "UNREGISTER"}
      BY <1>7, <3>1 DEF HandleWriteCompletion, Closing
    <3>2. CASE state[c] = "REGISTER"
      <4>1. Goto(t, "register", c)
        BY <1>7, <3>2 DEF HandleWriteCompletion, WriteCompleted
      <4> QED
        BY <1>0, <1>d, <4>1 DEF Op
    <3>3. CASE state[c] \in {"CLOSE", "UNREGISTER"}
      <4>1. Goto(t, "close", c) \/ Goto(t, "unregister", c)
        BY <1>7, <3>3 DEF HandleWriteCompletion, WriteCompleted
      <4> QED
        BY <1>0, <1>d, <3>3, <4>1 DEF Op, Shut
    <3> QED
      BY <3>1, <3>2, <3>3
  <2>3. \A s \in Session : Ending(s)' => Ending(s)
    BY <1>a, <2>1, <2>2 DEF Ending, Shut
  <2> QED
    BY <1>a, <2>1, <2>3, PartingStep
<1>8. ASSUME NEW t \in Thread, PostReceive(t) PROVE Parting'
  <2> DEFINE c == job[t].s
  <2>1. UNCHANGED <<conn, inbox, recvQueue, sock, state, zero>>
    BY <1>8 DEF PostReceive
  <2>2. c \in Session
    BY <1>8, JobTyped DEF PostReceive, TypeOK
  <2>3. \/ Done(t)
        \/ (Shut(c) \/ Departed(c)) /\ Goto(t, "unregister", c)
    BY <1>8 DEF PostReceive, Broken, Shut, Departed
  <2> HIDE DEF c
  <2>4. \A s \in Session : Closing(s)' => Closing(s) \/ Shut(s) \/ Excused(s)
    BY <1>c, <1>d, <2>2, <2>3 DEF Op, Excused
  <2>5. \A s \in Session : Ending(s)' => Ending(s) \/ Excused(s)
    BY <1>a, <2>1, <2>4 DEF Ending, Shut
  <2> QED
    BY <1>a, <2>1, <2>5, PartingStep
<1>9. ASSUME NEW t \in Thread, RegisterSession(t) PROVE Parting'
  <2>1. UNCHANGED <<conn, inbox, recvQueue, sock, zero>> /\ Done(t)
    BY <1>9 DEF RegisterSession
  <2>2. \A s \in Session : state'[s] \in {state[s], "MAINTAIN"}
    BY <1>0, <1>9 DEF RegisterSession
  <2>3. \A s \in Session : Ending(s)' => Ending(s)
    BY <1>a, <1>c, <2>1, <2>2 DEF Ending, Shut
  <2> QED
    BY <1>a, <2>1, <2>3, PartingStep
<1>10. ASSUME NEW t \in Thread, UnregisterSession(t) PROVE Parting'
  <2> DEFINE c == job[t].s
  <2>1. UNCHANGED <<conn, inbox, recvQueue, sock, state, zero>>
    BY <1>10 DEF UnregisterSession
  <2>2. c \in Session /\ Closing(c)
    BY <1>10, JobTyped DEF UnregisterSession, TypeOK, Closing
  <2>3. Done(t) \/ Goto(t, "close", c) \/ Goto(t, "eofclose", c) \/ Goto(t, "unregister", c)
    BY <1>10 DEF UnregisterSession
  <2> HIDE DEF c
  <2>4. \A s \in Session : Closing(s)' => Closing(s)
    BY <1>c, <1>d, <2>2, <2>3 DEF Op
  <2>5. \A s \in Session : Ending(s)' => Ending(s)
    BY <1>a, <2>1, <2>4 DEF Ending, Shut
  <2> QED
    BY <1>a, <2>1, <2>5, PartingStep
<1>11. ASSUME NEW t \in Thread, Close(t) PROVE Parting'
  <2> DEFINE c == job[t].s
  <2>1. UNCHANGED <<inbox, recvQueue>>
    BY <1>11 DEF Close
  <2>2. c \in Session /\ Closing(c)
    BY <1>11, JobTyped DEF Close, TypeOK, Closing
  <2>3. Done(t) \/ Goto(t, "unregister", c)
    BY <1>11 DEF Close
  <2>4. /\ \A s \in Session : conn[s] = "gone" => conn'[s] = "gone"
        /\ \A s \in Session \ {c} : /\ conn'[s] = conn[s] /\ sock'[s] = sock[s]
                                    /\ zero'[s] = zero[s] /\ state'[s] = state[s]
    BY <1>0, <1>11 DEF Close, CloseSession, CloseSocket
  <2> HIDE DEF c
  <2>5. \A s \in Session : Closing(s)' => Closing(s)
    BY <1>c, <1>d, <2>2, <2>3 DEF Op
  <2>6. UNCHANGED Queue
    BY <2>1 DEF Queue
  <2>7. \A s \in Session : Excused(s) => Excused(s)'
    BY <1>0, <2>1, <2>4, <2>6 DEF Excused, Departed, Barred, Past
  <2>8. \A s \in Session : Ending(s)' => Ending(s)
    BY <1>0, <2>1, <2>2, <2>4, <2>5, <2>6 DEF Ending, Shut, Asked, Found
  <2> QED
    BY <2>7, <2>8, PartingStep
<1>12. ASSUME NEW t \in Thread, UseAfterDelete(t) PROVE Parting'
  <2>1. \A s \in Session : Ending(s)' => Ending(s)
    BY <1>12, <1>a DEF UseAfterDelete, Ending, Shut, Closing
  <2> QED
    BY <1>12, <1>a, <2>1, PartingStep DEF UseAfterDelete
<1> QED
  BY <1>1, <1>2, <1>3, <1>4, <1>5, <1>6, <1>7, <1>8, <1>9, <1>10, <1>11, <1>12
  DEF CoreNext, Kernel, Completion, Continue

-----------------------------------------------------------------------------
(* The handler.                                                            *)

\* What a packet at the head of the queue says of its connection.
LEMMA HeadRequest ==
    ASSUME TypeOK, NEW op, Packet(op), Popped
    PROVE  /\ From \in Session /\ Queue' \subseteq Queue
           /\ op = "login" => \E e \in Queue : e.s = From /\ e.req \in Login
           /\ op \in {"join", "logout"} => Asked(From)
<1>1. /\ Queue' \subseteq Queue /\ Head(recvQueue) \in Queue
      /\ Head(recvQueue) \in RecvItem /\ Head(recvQueue).req.op = op
  BY QueueTail DEF Packet
<1>2. From \in Session /\ Head(recvQueue).req \in Request
  BY <1>1 DEF From, RecvItem
<1>3. op = "login" => Head(recvQueue).req \in Login
  BY <1>1, <1>2 DEF Login
<1>4. op \in {"join", "logout"} => Asked(From)
  BY <1>1, <1>2 DEF Asked, LastRequest, From
<1> QED
  BY <1>1, <1>2, <1>3, <1>4 DEF From

LEMMA HeadExcused ==
    ASSUME TypeOK, Parting, NEW op \in {"join", "logout"}, Packet(op), Popped
    PROVE  Excused(From)
BY HeadRequest DEF Parting, Ending

\* A login that is handled is the only one its connection sends.
LEMMA LoginIsPast ==
    ASSUME TypeOK, LoginInv, Packet("login"), Popped, NEW f, f = From,
           UNCHANGED <<phase, inbox>>
    PROVE  Past(f)' /\ name[f] = None
<1>1. /\ recvQueue \in Seq(RecvItem) /\ recvQueue # <<>>
  BY LoginTypes DEF Packet
<1> DEFINE n == Len(recvQueue)
<1>2. /\ n \in Nat /\ 1 \in 1..n /\ DOMAIN recvQueue = 1..n
      /\ Head(recvQueue) = recvQueue[1] /\ recvQueue[1] \in RecvItem
      /\ DOMAIN recvQueue' = 1..(n - 1)
      /\ \A i \in 1..(n - 1) : i + 1 \in 1..n /\ recvQueue'[i] = recvQueue[i + 1]
  BY <1>1, TailElements DEF Popped
<1>3. recvQueue[1].req \in Login /\ f = recvQueue[1].s /\ f \in Session
  BY <1>2 DEF Packet, From, RecvItem, Login
<1>4. /\ name[f] = None
      /\ \A j \in 1..n : recvQueue[j].req \in Login /\ recvQueue[j].s = f => j = 1
  BY <1>2, <1>3 DEF LoginInv, OneLogin
<1>5. phase[f] \notin {"idle", "connected"}
  BY <1>2, <1>3 DEF LoginInv, OneLogin, Silent
<1>6. inbox[f] \notin Login
  BY <1>2, <1>3 DEF LoginInv, OneLogin, MayLogIn
<1>7. \A e \in Queue' : e.s = f => e.req \notin Login
  <2>1. ASSUME NEW i \in DOMAIN recvQueue', recvQueue'[i].s = f
        PROVE  recvQueue'[i].req \notin Login
    <3>1. i \in 1..(n - 1) /\ i + 1 \in 1..n /\ recvQueue'[i] = recvQueue[i + 1] /\ i + 1 # 1
      BY <1>2, <2>1
    <3> QED
      BY <1>4, <2>1, <3>1
  <2> QED
    BY <2>1 DEF Queue
<1> QED
  BY <1>4, <1>5, <1>6, <1>7 DEF Past

\* A step that leaves the core alone, but for packets and states.
LEMMA HandlerFrame ==
    ASSUME Parting, UNCHANGED <<netVars, sock, zero, job, cln, phase>>,
           Queue' \subseteq Queue,
           \A s \in Session : \/ state'[s] \in {state[s], "REGISTER"}
                              \/ Excused(s) \/ Excused(s)',
           \A s \in Session : Excused(s) => Excused(s)'
    PROVE  Parting'
<1>1. \A s \in Session : Ending(s)' => Ending(s) \/ Excused(s) \/ Excused(s)'
  BY DEF Ending, Shut, Closing, Asked, Found, netVars
<1> QED
  BY <1>1, PartingStep

LEMMA HandlerParts ==
    ASSUME TypeOK, LoginInv, Parting, Handler, UNCHANGED phase
    PROVE  Parting'
<1> USE NoneNoRequest
<1>0. /\ state \in [Session -> SessionState]
      /\ name \in [Session -> Account \cup {None}]
      /\ UNCHANGED <<netVars, sock, zero, job, cln>>
  <2>1. UNCHANGED <<netVars, sock, zero, job, cln>>
    BY DEF Handler, DropPacket, RefuseLogin, AcceptLogin, CreateActiveUser, LoadFriends,
           LoadFails, AnnounceLogin, GrantLogin, Grant, LoginFails, Crash, HandleLogout,
           LogoutFails, HandleJoin, HandleFind, FindFails, coreVars, sessVars, userVars
  <2> QED
    BY <2>1, LoginTypes DEF TypeOK, CoreTypeOK
<1>a. ASSUME Queue' \subseteq Queue, hnd'.pc = "create" => hnd' = hnd,
             \A s \in Session : name'[s] \in {name[s], None}
      PROVE  \A s \in Session : Excused(s) => Excused(s)'
  BY <1>0, <1>a, ExcusedStays DEF netVars
<1>1. CASE DropPacket
  <2>1. Queue' \subseteq Queue
    BY <1>1, HeadRequest DEF DropPacket
  <2>2. UNCHANGED <<state, hnd, name>>
    BY <1>1 DEF DropPacket, sessVars, userVars
  <2> QED
    BY <1>0, <1>a, <2>1, <2>2, HandlerFrame
<1>2. CASE RefuseLogin
  <2> DEFINE f == From
  <2>1. Queue' \subseteq Queue /\ f \in Session
    BY <1>2, HeadRequest DEF RefuseLogin
  <2>2. UNCHANGED <<hnd, name, inbox>>
    BY <1>0, <1>2 DEF RefuseLogin, netVars
  <2>3. Packet("login") /\ Popped
    BY <1>2 DEF RefuseLogin
  <2>4. \E g \in Session : Barred(g)' /\ \A s \in Session \ {g} : state'[s] = state[s]
    <3>1. PICK g : g = From
      OBVIOUS
    <3>2. Past(g)' /\ name[g] = None /\ hnd = HandlerIdle
      BY <1>0, <2>2, <2>3, <3>1, LoginIsPast, LoginTypes DEF Packet, Busy
    <3>3. Barred(g)'
      BY <2>2, <3>2 DEF Barred, HandlerIdle
    <3> QED
      BY <1>0, <1>2, <2>1, <3>1, <3>3 DEF RefuseLogin, SetState
  <2>5. \A s \in Session : state'[s] = state[s] \/ Excused(s)'
    BY <2>4 DEF Excused
  <2> QED
    BY <1>0, <1>a, <2>1, <2>2, <2>5, HandlerFrame
<1>3. CASE AcceptLogin
  <2>1. /\ Queue' \subseteq Queue /\ \E e \in Queue : e.s = From /\ e.req \in Login
    BY <1>3, HeadRequest DEF AcceptLogin
  <2>2. UNCHANGED <<state, name>> /\ hnd'.s = From
    BY <1>3 DEF AcceptLogin, sessVars
  <2>3. \A s \in Session : Barred(s) => s # From
    BY <2>1 DEF Barred, Past
  <2>4. \A s \in Session : Excused(s) => Excused(s)'
    BY <1>0, <2>1, <2>2, <2>3 DEF Excused, Departed, Barred, Past, netVars
  <2> QED
    BY <1>0, <2>1, <2>2, <2>4, HandlerFrame
<1>4. CASE CreateActiveUser
  <2>1. UNCHANGED <<state, recvQueue, Queue>> /\ hnd.pc = "create" /\ hnd'.pc = "load"
    BY <1>4, LoginTypes DEF CreateActiveUser, coreVars, sessVars, Queue, Busy, HandlerIdle
  <2>2. \A s \in Session : Barred(s) => s # hnd.s
    BY <2>1 DEF Barred, Past
  <2>3. \A s \in Session : s # hnd.s => name'[s] = name[s]
    BY <1>0, <1>4 DEF CreateActiveUser, InsertUser
  <2>4. \A s \in Session : Excused(s) => Excused(s)'
    BY <1>0, <2>1, <2>2, <2>3 DEF Excused, Departed, Barred, Past, netVars
  <2> QED
    BY <1>0, <2>1, <2>4, HandlerFrame
<1>5. CASE LoadFriends \/ LoadFails
  <2>1. UNCHANGED <<state, name, recvQueue, Queue>> /\ hnd'.pc # "create"
    BY <1>5, LoginTypes DEF LoadFriends, LoadFails, coreVars, sessVars, Queue, Busy, HandlerIdle
  <2> QED
    BY <1>0, <1>a, <2>1, HandlerFrame
<1>6. CASE AnnounceLogin \/ GrantLogin
  <2>1. UNCHANGED <<name, recvQueue, Queue>> /\ hnd'.pc # "create"
    BY <1>6 DEF AnnounceLogin, GrantLogin, Grant, Queue, HandlerIdle
  <2>2. \A s \in Session : state'[s] \in {state[s], "REGISTER"}
    BY <1>0, <1>6 DEF AnnounceLogin, GrantLogin, Grant, SetState
  <2> QED
    BY <1>0, <1>a, <2>1, <2>2, HandlerFrame
<1>7. CASE LoginFails \/ LogoutFails \/ FindFails
  <2>1. UNCHANGED <<state, name, hnd, recvQueue, Queue>>
    BY <1>7 DEF LoginFails, LogoutFails, FindFails, Crash, sessVars, userVars, Queue
  <2> QED
    BY <1>0, <1>a, <2>1, HandlerFrame
<1>8. CASE HandleLogout
  <2>1. Queue' \subseteq Queue /\ Excused(From)
    BY <1>8, HeadRequest, HeadExcused DEF HandleLogout
  <2>2. UNCHANGED hnd /\ \A s \in Session : name'[s] \in {name[s], None}
    BY <1>0, <1>8 DEF HandleLogout, EraseUser
  <2>3. \A s \in Session : state'[s] = state[s] \/ s = From
    BY <1>0, <1>8 DEF HandleLogout, SetState
  <2> QED
    BY <1>0, <1>a, <2>1, <2>2, <2>3, HandlerFrame
<1>9. CASE HandleJoin
  <2>1. Queue' \subseteq Queue /\ Excused(From)
    BY <1>9, HeadRequest, HeadExcused DEF HandleJoin
  <2>2. UNCHANGED <<hnd, name>>
    BY <1>9 DEF HandleJoin
  <2>3. \A s \in Session : state'[s] = state[s] \/ s = From
    BY <1>0, <1>9 DEF HandleJoin, SetState
  <2> QED
    BY <1>0, <1>a, <2>1, <2>2, <2>3, HandlerFrame
<1>10. CASE HandleFind
  <2>1. Queue' \subseteq Queue
    BY <1>10, HeadRequest DEF HandleFind
  <2>2. UNCHANGED <<state, hnd, name>>
    BY <1>10 DEF HandleFind, sessVars
  <2> QED
    BY <1>0, <1>a, <2>1, <2>2, HandlerFrame
<1> QED
  BY <1>1, <1>2, <1>3, <1>4, <1>5, <1>6, <1>7, <1>8, <1>9, <1>10 DEF Handler

-----------------------------------------------------------------------------
(* The cleaner and the send thread.                                        *)

LEMMA CleanerParts ==
    ASSUME TypeOK, LoginInv, Parting, Cleaner, UNCHANGED phase
    PROVE  Parting'
<1> USE NoneNoRequest
<1>0. /\ UNCHANGED <<netVars, sessVars, job, recvQueue, hnd>>
      /\ name \in [Session -> Account \cup {None}]
      /\ None \notin Session
      /\ UNCHANGED Queue
  <2>1. UNCHANGED <<netVars, sessVars, job, recvQueue, hnd>>
    BY DEF Cleaner, Snapshot, Scan, ScanEnds, Reap, ReapFails, Erase, CleanerOnly, Crash,
           coreVars, userVars
  <2> QED
    BY <2>1, LoginTypes DEF Queue
<1>1. \A s \in Session : name'[s] \in {name[s], None}
  BY <1>0 DEF Cleaner, Snapshot, Scan, ScanEnds, Reap, ReapFails, Erase, EraseUser, CleanerOnly,
              Crash, userVars
<1>2. \A s \in Session : Excused(s) => Excused(s)'
  BY <1>0, <1>1, ExcusedStays DEF netVars
<1>3. \A s \in Session : Found(s)' => Ending(s)
  <2>1. CASE Snapshot \/ ScanEnds
    BY <2>1 DEF Snapshot, ScanEnds, TypeOK, UserTypeOK, Found, Ending
  <2>2. ASSUME NEW c \in Session, Scan(c) PROVE \A s \in Session : Found(s)' => Ending(s)
    BY <2>2 DEF Scan, IsValid, TypeOK, UserTypeOK, Found, Ending, Shut
  <2>3. ASSUME NEW c \in Session, Reap(c) PROVE \A s \in Session : Found(s)' => Ending(s)
    BY <2>3 DEF Reap, TypeOK, UserTypeOK, Found, Ending
  <2>4. ASSUME NEW c \in Session, ReapFails(c) PROVE \A s \in Session : Found(s)' => Ending(s)
    BY <2>4 DEF ReapFails, Crash, userVars, Found, Ending
  <2>5. CASE Erase
    BY <1>0, <2>5 DEF Erase, Asleep, TypeOK, UserTypeOK, Found, Ending
  <2> QED
    BY <2>1, <2>2, <2>3, <2>4, <2>5 DEF Cleaner
<1>4. \A s \in Session : Ending(s)' => Ending(s)
  BY <1>0, <1>3 DEF Ending, Shut, Closing, Asked, netVars, sessVars
<1> QED
  BY <1>2, <1>4, PartingStep

LEMMA SenderParts ==
    ASSUME TypeOK, LoginInv, Parting, SendTask \/ SendFreed
    PROVE  Parting'
<1> USE NoneNoRequest
<1>0. UNCHANGED <<netVars, sock, state, zero, recvQueue, Queue, name, hnd, cln, phase>>
  BY DEF SendTask, SendFreed, PostSend, Crash, sessVars, userVars, Queue
<1>1. \A s \in Session : Excused(s) => Excused(s)'
  BY <1>0 DEF Excused, Departed, Barred, Past, netVars
<1>2. CASE SendFreed
  <2>1. \A s \in Session : Ending(s)' => Ending(s)
    BY <1>0, <1>2 DEF SendFreed, Crash, Ending, Shut, Closing, Asked, Found, netVars
  <2> QED
    BY <1>1, <2>1, PartingStep
<1>3. CASE SendTask
  <2> DEFINE c == Head(sendQueue).s
  <2>1. UNCHANGED job \/ ((Shut(c) \/ Departed(c)) /\ Goto(Sender, "unregister", c))
    BY <1>3 DEF SendTask, PostSend, Broken, Shut, Departed
  <2>2. Sender \in Thread /\ job \in Jobs
    BY DEF Thread, TypeOK, CoreTypeOK, Jobs
  <2> HIDE DEF c
  <2>3. \A s \in Session : Closing(s)' => Closing(s) \/ Shut(s) \/ Departed(s)
    BY <2>1, <2>2 DEF Closing, Goto, Jobs
  <2>4. \A s \in Session : Ending(s)' => Ending(s) \/ Excused(s)
    BY <1>0, <2>3 DEF Ending, Shut, Asked, Found, Excused, netVars
  <2> QED
    BY <1>1, <2>4, PartingStep
<1> QED
  BY <1>2, <1>3

-----------------------------------------------------------------------------
(* The invariant.                                                          *)

LEMMA StartParts == Init => Parting
<1> SUFFICES ASSUME Init PROVE Parting
  OBVIOUS
<1>1. \A s \in Session :
        /\ sock[s] = "none" /\ conn[s] = "none" /\ zero[s] = 0 /\ state[s] = "MAINTAIN"
        /\ inbox[s] = None /\ s # None
  BY NoneAssumption DEF Init, CoreInit
<1>2. Queue = {}
  BY DEF Init, CoreInit, Queue
<1>3. \A t \in Thread : job[t] = Wait
  BY DEF Init, CoreInit
<1>4. cln.dead = {} /\ cln.cur = None
  BY DEF Init, UserInit, Asleep
<1> QED
  BY <1>1, <1>2, <1>3, <1>4, NoneNoRequest
  DEF Parting, Ending, Shut, Closing, Asked, Found, Wait

\* A new process knows no session: every client that had connected has to go.
LEMMA RestartParts ==
    ASSUME TypeOK, Restart
    PROVE  Parting'
<1>1. \A s \in Session : /\ zero'[s] = 0 /\ state'[s] = "MAINTAIN"
                         /\ inbox'[s] = None /\ s # None
  BY NoneAssumption DEF Restart, CoreRestart
<1>2. Queue' = {}
  BY DEF Restart, CoreRestart, Queue
<1>3. \A t \in Thread : job'[t] = Wait
  BY DEF Restart, CoreRestart
<1>4. cln'.dead = {} /\ cln'.cur = None
  BY DEF Restart, UserRestart, Asleep
<1>5. \A s \in Session : (sock'[s] = "closed" \/ conn'[s] = "reset") => phase'[s] = "finished"
  BY DEF Restart, CoreRestart
<1> QED
  BY <1>1, <1>2, <1>3, <1>4, <1>5, NoneNoRequest
  DEF Parting, Ending, Shut, Closing, Asked, Found, Wait, Excused, Departed

LEMMA StepParts == TypeOK /\ LoginInv /\ Parting /\ [Next]_vars => Parting'
<1> SUFFICES ASSUME TypeOK, LoginInv, Parting, [Next]_vars PROVE Parting'
  OBVIOUS
<1>1. CASE \E s \in Session : Client(s)
  BY <1>1, ClientParts
<1>2. CASE Core
  BY <1>2, CoreParts DEF Core
<1>3. CASE App
  BY <1>3, HandlerParts, CleanerParts DEF App
<1>4. CASE SendTask \/ SendFreed
  BY <1>4, SenderParts
<1>5. CASE Restart
  BY <1>5, RestartParts
<1>6. CASE UNCHANGED vars
  BY <1>6 DEF vars, coreVars, netVars, sessVars, userVars, Parting, Ending, Shut, Closing,
              Asked, Found, Queue, Excused, Departed, Barred, Past
<1> QED
  BY <1>1, <1>2, <1>3, <1>4, <1>5, <1>6 DEF Next, Quiescent

\* A session the server gives up has a client that left or asked to, or one that
\* has no account and gets none.
THEOREM PartingIsExcused == Spec => []Parting
<1>1. TypeOK /\ TypeOK' /\ LoginInv /\ LoginInv' /\ Parting /\ [Next]_vars => Parting'
  BY StepParts
<1> QED
  BY <1>1, StartParts, Typing, LoginInvariant, PTL DEF Spec

-----------------------------------------------------------------------------
(* The refinement: how each step looks to a user of the directory.         *)

left == {s \in Session : conn[s] = "gone" \/ phase[s] \in {"leaving", "finished"}}

\* A step of the directory, or one it does not see.
DirectoryStep == [Directory!Next]_<<name, left>>

LEMMA ClientDirectory ==
    ASSUME TypeOK, LoginInv, NEW c \in Session, Client(c)
    PROVE  DirectoryStep
<1>0. /\ phase \in [Session -> Phase] /\ conn \in [Session -> {"none", "up", "gone", "reset"}]
      /\ UNCHANGED name
  BY LoginTypes DEF Client, Connect, Send, Disconnect, Transmit, userVars
<1>1. \A s \in Session \ {c} : conn'[s] = conn[s] /\ phase'[s] = phase[s]
  BY <1>0 DEF Client, Connect, Send, Disconnect, Transmit, SendCompletes, netVars
<1>2. Departed(c) => Departed(c)'
  <2>1. CASE Connect(c)
    BY <2>1 DEF Connect, LoginInv, OneLogin, Departed
  <2>2. CASE Send(c)
    BY <1>0, <2>2 DEF Send, Departed
  <2>3. CASE Disconnect(c)
    BY <1>0, <2>3 DEF Disconnect, Departed
  <2>4. CASE Transmit(c)
    BY <1>0, <2>4 DEF Transmit, SendCompletes, netVars, After, Departed
  <2> QED
    BY <2>1, <2>2, <2>3, <2>4 DEF Client
<1>3. left' = left \/ left' = left \cup {c}
  BY <1>1, <1>2 DEF left, Departed
<1>4. left' = left \cup {c} => Directory!Depart({c})
  BY <1>0 DEF Directory!Depart, left
<1> QED
  BY <1>0, <1>3, <1>4 DEF DirectoryStep, Directory!Next

\* A user that is ending has a client that left or asked to.
LEMMA UserDeparts ==
    ASSUME Parting, NEW s \in Session, Ending(s), name[s] # None
    PROVE  s \in left
BY DEF Parting, Excused, Barred, Past, Departed, left

LEMMA HandlerDirectory ==
    ASSUME TypeOK, LoginInv, Parting, Handler, UNCHANGED phase
    PROVE  DirectoryStep
<1>0. /\ name \in [Session -> Account \cup {None}] /\ None \notin Account \cup Session
      /\ hnd = HandlerIdle \/ hnd \in Busy
      /\ cln.cur # None <=> cln.pc = "erase"
  BY LoginTypes
<1>1. UNCHANGED <<conn, left>>
  <2>1. UNCHANGED conn
    BY DEF Handler, DropPacket, RefuseLogin, AcceptLogin, CreateActiveUser, LoadFriends,
           LoadFails, AnnounceLogin, GrantLogin, Grant, LoginFails, Crash, HandleLogout,
           LogoutFails, HandleJoin, HandleFind, FindFails, coreVars, netVars
  <2> QED
    BY <2>1 DEF left
<1>2. CASE CreateActiveUser
  <2>1. hnd.pc = "create" /\ cln.cur = None
    BY <1>0, <1>2 DEF CreateActiveUser, LockFree
  <2>2. hnd.s \in Session /\ hnd.who \in Account
    BY <1>0, <2>1 DEF HandlerIdle, Busy
  <2>3. name[hnd.s] = None /\ \A s \in Session : name[s] # hnd.who
    BY <1>0, <2>1 DEF LoginInv, FreeToCreate
  <2>4. name' = [name EXCEPT ![hnd.s] = hnd.who]
    BY <1>2, <2>3 DEF CreateActiveUser, InsertUser
  <2>5. Directory!Enter(hnd.s)
    BY <1>1, <2>2, <2>3, <2>4 DEF Directory!Enter, left
  <2> QED
    BY <2>2, <2>5 DEF DirectoryStep, Directory!Next
<1>3. CASE HandleLogout
  <2> DEFINE f == From
  <2>1. /\ f \in Session /\ Excused(f)
    BY <1>3, HeadRequest, HeadExcused DEF HandleLogout
  <2>2. name[f] # None /\ name' = [name EXCEPT ![f] = None]
    BY <1>3 DEF HandleLogout, EraseUser, users
  <2>3. f \in left
    BY <2>1, <2>2 DEF Excused, Barred, Past, Departed, left
  <2> HIDE DEF f
  <2>4. Directory!Release(f)
    BY <1>1, <2>2, <2>3 DEF Directory!Release, left
  <2> QED
    BY <2>1, <2>4 DEF DirectoryStep, Directory!Next
<1>4. CASE ~CreateActiveUser /\ ~HandleLogout
  <2>1. UNCHANGED name
    BY <1>4 DEF Handler, DropPacket, RefuseLogin, AcceptLogin, LoadFriends, LoadFails,
                AnnounceLogin, GrantLogin, Grant, LoginFails, Crash, LogoutFails,
                HandleJoin, HandleFind, FindFails, userVars
  <2> QED
    BY <1>1, <2>1 DEF DirectoryStep
<1> QED
  BY <1>2, <1>3, <1>4

LEMMA CleanerDirectory ==
    ASSUME TypeOK, LoginInv, Parting, Cleaner, UNCHANGED phase
    PROVE  DirectoryStep
<1>0. /\ name \in [Session -> Account \cup {None}]
      /\ cln.cur # None <=> cln.pc = "erase"
      /\ cln.cur \in Session \cup {None}
  BY LoginTypes
<1>1. UNCHANGED left
  <2>1. UNCHANGED conn
    BY DEF Cleaner, Snapshot, Scan, ScanEnds, Reap, ReapFails, Erase, CleanerOnly, Crash,
           coreVars, netVars
  <2> QED
    BY <2>1 DEF left
<1>2. CASE Erase
  <2> DEFINE f == cln.cur
  <2>1. f \in Session /\ Ending(f)
    BY <1>0, <1>2 DEF Erase, Ending, Found
  <2>2. name' = [name EXCEPT ![f] = None]
    BY <1>2 DEF Erase, EraseUser
  <2> HIDE DEF f
  <2>3. CASE name[f] = None
    <3>1. UNCHANGED name
      BY <1>0, <2>1, <2>2, <2>3
    <3> QED
      BY <1>1, <3>1 DEF DirectoryStep
  <2>4. CASE name[f] # None
    <3>1. f \in left
      BY <2>1, <2>4, UserDeparts
    <3>2. Directory!Release(f)
      BY <1>1, <2>2, <3>1 DEF Directory!Release, left
    <3> QED
      BY <2>1, <3>2 DEF DirectoryStep, Directory!Next
  <2> QED
    BY <2>3, <2>4
<1>3. CASE ~Erase
  <2>1. UNCHANGED name
    BY <1>3 DEF Cleaner, Snapshot, Scan, ScanEnds, Reap, ReapFails, CleanerOnly, Crash, userVars
  <2> QED
    BY <1>1, <2>1 DEF DirectoryStep
<1> QED
  BY <1>2, <1>3

\* The process ends: every client that had connected has left its account.
LEMMA RestartDirectory ==
    ASSUME TypeOK, LoginInv, Restart
    PROVE  DirectoryStep
<1>1. name' = [s \in Session |-> None]
  BY DEF Restart, UserRestart
<1>2. \A s \in Session : conn[s] # "none" => phase'[s] = "finished"
  BY DEF Restart
<1>3. \A s \in Session : name[s] # None \/ Departed(s) => conn[s] # "none"
  BY DEF LoginInv, OneLogin, Departed
<1>4. left \cup {s \in Session : name[s] # None} \subseteq left'
  BY <1>2, <1>3 DEF left, Departed
<1>5. left' \subseteq Session
  BY DEF left
<1>6. Directory!Collapse
  BY <1>1, <1>4, <1>5 DEF Directory!Collapse, left
<1> QED
  BY <1>6 DEF DirectoryStep, Directory!Next

LEMMA StepDirectory ==
    ASSUME TypeOK, LoginInv, Parting, [Next]_vars
    PROVE  DirectoryStep
<1>1. CASE Core
  <2>1. UNCHANGED <<name, phase>>
    BY <1>1 DEF Core, userVars
  <2>2. \A s \in Session : conn'[s] = "gone" <=> conn[s] = "gone"
    <3>1. CASE \E t \in Thread : Close(t)
      BY <3>1, LoginTypes DEF Close, CloseSession, CloseSocket
    <3>2. CASE ~\E t \in Thread : Close(t)
      BY <1>1, <3>2 DEF Core, CoreNext, Kernel, DataArrives, ReceiveEnds, SendFails, Accept,
         AcceptEmpty, Completion, Receive, ZeroBytes, HandleWriteCompletion, Continue,
         PostReceive, RegisterSession, UnregisterSession, UseAfterDelete, netVars
    <3> QED
      BY <3>1, <3>2
  <2> QED
    BY <2>1, <2>2 DEF DirectoryStep, left
<1>2. CASE SendTask \/ SendFreed \/ UNCHANGED vars
  <2>1. UNCHANGED <<name, phase, conn>>
    BY <1>2 DEF SendTask, SendFreed, PostSend, Crash, vars, coreVars, netVars, userVars
  <2> QED
    BY <2>1 DEF DirectoryStep, left
<1> QED
  BY <1>1, <1>2, ClientDirectory, HandlerDirectory, CleanerDirectory, RestartDirectory
  DEF Next, App, Quiescent

\* The server implements the directory of accounts: no interleaving of logins, of
\* the completions that close sessions, of the cleaner and of restarts gives an
\* account to two connections or takes it from a client that stays.
THEOREM Refinement == Spec => ImplementsDirectory
<1>1. Init => Directory!Init
  BY DEF Init, CoreInit, UserInit, Directory!Init
<1>2. TypeOK /\ LoginInv /\ Parting /\ [Next]_vars => DirectoryStep
  BY StepDirectory
<1>3. DirectoryStep => [Directory!Next]_(Directory!vars)
  BY DEF DirectoryStep, Directory!vars, left
<1> QED
  BY <1>1, <1>2, <1>3, Typing, LoginInvariant, PartingIsExcused, PTL
  DEF Spec, ImplementsDirectory, Directory!Spec
================================================================================
