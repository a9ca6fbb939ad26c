------------------------------ MODULE ServerCore ------------------------------
(***************************************************************************)
(* The I/O core of the server: IOCPServerLibrary/ServerCore.cpp with the   *)
(* Session of CompletionKey.h.  A connection is served by one Session      *)
(* object, so the two share an identifier.  Worker threads (ProcessThread) *)
(* take completions off the I/O completion port; each runs one HANDLER at  *)
(* a time and job[t] is the rest of that handler.  The port may hand the  *)
(* completions of one session to different workers, in any order.          *)
(*                                                                         *)
(* An assertion (ASSERT_CRASH) or undefined behaviour sets `fault': the    *)
(* process is lost, and every action below needs Running.                  *)
(***************************************************************************)
EXTENDS Integers, Sequences, FiniteSets

CONSTANTS
    Session,    \* connections, each with the Session object that serves it
    Worker,     \* the m_nThread threads that run ProcessThread
    Sender,     \* the thread that runs OutgameServer::SendThread
    Request,    \* what a client can send
    Message,    \* what the server can send
    None,       \* no value
    MaxWritten  \* bound: write completions of one session in the port at once

ASSUME ThreadAssumption == Sender \notin Worker
ASSUME NoneAssumption   == None \notin Session \cup Request \cup Message
ASSUME BoundAssumption  == MaxWritten \in Nat \ {0}

VARIABLES
    conn,           \* conn[s]: the connection: gone if the client left it, reset
                    \* if the server closed it first
    backlog,        \* connections not accepted yet, oldest first
    acceptPosted,   \* an AcceptEx is outstanding (or completed, not handled)
    acceptBuf,      \* the request in ListenContext::acceptBuffer
    inbox,          \* inbox[s]: the request that waits to be received
    sock,           \* sock[s]: clientSocket
    state,          \* state[s]: eSessionStateType of the session
    recv,           \* recv[s]: the session's one WSARecv
    posted,         \* posted[s]: WSASends in progress
    written,        \* written[s]: queued completions of successful WSASends
    zero,           \* zero[s]: queued completions that carry zero bytes
    sendBuf,        \* sendBuf[s]: sendOverlapped.buffer
    sessionMap,     \* keys of m_sessionMap
    deleted,        \* sessions whose memory has been released
    job,            \* job[t]: what thread t still has to do
    recvQueue,      \* PacketHandler::m_recvQueue
    fault           \* what ended the process, or "none"

netVars  == <<conn, backlog, acceptPosted, acceptBuf, inbox>>
sessVars == <<sock, state, recv, posted, written, zero, sendBuf>>
coreVars == <<netVars, sessVars, sessionMap, deleted, job, recvQueue, fault>>

Thread  == Worker \cup {Sender}
Wait    == [op |-> "wait", s |-> None]
Running == fault = "none"

SessionState == {"MAINTAIN", "REGISTER", "CLOSE", "UNREGISTER", "INVALID"}
Op == {"accept", "receive", "register", "unregister", "close", "eof", "eofclose"}

CoreTypeOK ==
    /\ conn \in [Session -> {"none", "up", "gone", "reset"}]
    /\ backlog \in Seq(Session)
    /\ acceptPosted \in BOOLEAN
    /\ acceptBuf \in Request \cup {None}
    /\ inbox \in [Session -> Request \cup {None}]
    /\ sock \in [Session -> {"none", "open", "closed"}]
    /\ state \in [Session -> SessionState]
    /\ recv \in [Session -> {"none", "posted", "data"}]
    /\ posted \in [Session -> Nat]
    /\ written \in [Session -> Nat]
    /\ zero \in [Session -> Nat]
    /\ sendBuf \in [Session -> Message \cup {None}]
    /\ sessionMap \subseteq Session
    /\ deleted \subseteq Session
    /\ job \in [Thread -> {Wait} \cup [op : Op, s : Session]]
    /\ recvQueue \in Seq([s : Session, req : Request])
    /\ fault \in {"none", "assert", "end_iterator", "dangling", "race"}

\* The listening socket is up and its first AcceptEx is posted.
CoreInit ==
    /\ conn = [s \in Session |-> "none"]
    /\ backlog = <<>>
    /\ acceptPosted = TRUE
    /\ acceptBuf = None
    /\ inbox = [s \in Session |-> None]
    /\ sock = [s \in Session |-> "none"]
    /\ state = [s \in Session |-> "MAINTAIN"]
    /\ recv = [s \in Session |-> "none"]
    /\ posted = [s \in Session |-> 0]
    /\ written = [s \in Session |-> 0]
    /\ zero = [s \in Session |-> 0]
    /\ sendBuf = [s \in Session |-> None]
    /\ sessionMap = {}
    /\ deleted = {}
    /\ job = [t \in Thread |-> Wait]
    /\ recvQueue = <<>>
    /\ fault = "none"

\* Faulty variant: a session is valid only once it is registered.
IsValid_registered(s) == state[s] = "MAINTAIN"

IsValid(s) == state[s] # "INVALID"

\* The connection cannot carry data any more.
Broken(s) == conn[s] \in {"gone", "reset"}

Goto(t, op, s) == job' = [job EXCEPT ![t] = [op |-> op, s |-> s]]
Done(t)        == job' = [job EXCEPT ![t] = Wait]
Idle(t)        == Running /\ job[t] = Wait

-----------------------------------------------------------------------------
(* The kernel.  A WSARecv completes with the data that arrived, or with    *)
(* zero bytes when the client is gone; a WSASend completes once the client *)
(* has the bytes (SO_SNDBUF is 0), or fails when the client is gone.       *)

DataArrives(s) ==
    /\ Running
    /\ recv[s] = "posted" /\ inbox[s] # None
    /\ recv' = [recv EXCEPT ![s] = "data"]
    /\ UNCHANGED <<netVars, sock, state, posted, written, zero, sendBuf,
                   sessionMap, deleted, job, recvQueue, fault>>

ReceiveEnds(s) ==
    /\ Running
    /\ recv[s] = "posted" /\ Broken(s)
    /\ recv' = [recv EXCEPT ![s] = "none"]
    /\ zero' = [zero EXCEPT ![s] = @ + 1]
    /\ UNCHANGED <<netVars, sock, state, posted, written, sendBuf,
                   sessionMap, deleted, job, recvQueue, fault>>

\* What the client gets is what the buffer holds now.  Bounded by MaxWritten.
SendCompletes(s) ==
    /\ Running
    /\ posted[s] > 0 /\ conn[s] = "up" /\ written[s] < MaxWritten
    /\ posted' = [posted EXCEPT ![s] = @ - 1]
    /\ written' = [written EXCEPT ![s] = @ + 1]
    /\ UNCHANGED <<netVars, sock, state, recv, zero, sendBuf,
                   sessionMap, deleted, job, recvQueue, fault>>

SendFails(s) ==
    /\ Running
    /\ posted[s] > 0 /\ Broken(s)
    /\ posted' = [posted EXCEPT ![s] = @ - 1]
    /\ zero' = [zero EXCEPT ![s] = @ + 1]
    /\ UNCHANGED <<netVars, sock, state, recv, written, sendBuf,
                   sessionMap, deleted, job, recvQueue, fault>>

-----------------------------------------------------------------------------
(* The workers.                                                            *)

\* OnReceiveData: the registered callback is PacketHandler::ReceivePacket.  The
\* header is read now; the rest of the packet stays in the buffer it came in.
ReceivePacket(s) ==
    /\ recvQueue' = Append(recvQueue, [s |-> s, req |-> inbox[s]])
    /\ inbox' = [inbox EXCEPT ![s] = None]

\* HandleAcceptCompletion up to its PostReceive.  AcceptEx was given a
\* receive buffer, so it completes with the client's first request in it.
Accept(t) ==
    /\ Idle(t)
    /\ acceptPosted /\ backlog # <<>>
    /\ LET s == Head(backlog) IN
         /\ inbox[s] # None
         /\ sock' = [sock EXCEPT ![s] = "open"]
         /\ acceptBuf' = inbox[s]
         /\ ReceivePacket(s)
         /\ Goto(t, "accept", s)
    /\ backlog' = Tail(backlog)
    /\ acceptPosted' = FALSE
    /\ UNCHANGED <<conn, state, recv, posted, written, zero, sendBuf,
                   sessionMap, deleted, fault>>

\* A client that leaves before it sends anything: either the zero-byte packet
\* trips the assertion of ReceivePacket, or AcceptEx failed, the completion is
\* skipped and no other AcceptEx is ever posted.
AcceptEmpty(t) ==
    /\ Idle(t)
    /\ acceptPosted /\ backlog # <<>>
    /\ conn[Head(backlog)] = "gone" /\ inbox[Head(backlog)] = None
    /\ backlog' = Tail(backlog)
    /\ acceptPosted' = FALSE
    /\ fault' \in {"none", "assert"}
    /\ UNCHANGED <<conn, acceptBuf, inbox, sessVars, sessionMap, deleted, job, recvQueue>>

\* Faulty variant: the AcceptEx is forgotten.
StartAccept_skipped == UNCHANGED acceptPosted

\* StartAccept; its failure (no memory, no socket) is left out.
StartAccept == acceptPosted' = TRUE

\* PostReceive, and StartAccept after an accept.  WSARecv fails on a closed
\* socket and may fail on a connection that was reset; the UnregisterSession that
\* follows touches nothing StartAccept does, so their order is left open.
PostReceive(t) ==
    /\ Running
    /\ job[t].op \in {"accept", "receive"}
    /\ LET s == job[t].s IN
         /\ s \notin deleted
         /\ \/ /\ sock[s] = "open"
               /\ recv' = [recv EXCEPT ![s] = "posted"]
               /\ Done(t)
            \/ /\ sock[s] = "closed" \/ Broken(s)
               /\ Goto(t, "unregister", s)
               /\ UNCHANGED recv
    /\ IF job[t].op = "accept" THEN StartAccept ELSE UNCHANGED acceptPosted
    /\ UNCHANGED <<conn, backlog, acceptBuf, inbox, sock, state, posted, written, zero,
                   sendBuf, sessionMap, deleted, recvQueue, fault>>

\* A READ completion with data.
Receive(t, s) ==
    /\ Idle(t)
    /\ recv[s] = "data" /\ inbox[s] # None /\ s \notin deleted
    /\ ReceivePacket(s)
    /\ recv' = [recv EXCEPT ![s] = "none"]
    /\ Goto(t, "receive", s)
    /\ UNCHANGED <<conn, backlog, acceptPosted, acceptBuf, sock, state, posted, written,
                   zero, sendBuf, sessionMap, deleted, fault>>

\* A completion with zero bytes: UnregisterSession, twice when the completion
\* failed with ERROR_NETNAME_DELETED.
ZeroBytes(t, s) ==
    /\ Idle(t)
    /\ zero[s] > 0 /\ s \notin deleted
    /\ zero' = [zero EXCEPT ![s] = @ - 1]
    /\ Goto(t, "eof", s) \/ Goto(t, "unregister", s)
    /\ UNCHANGED <<netVars, sock, state, recv, posted, written, sendBuf,
                   sessionMap, deleted, recvQueue, fault>>

\* Faulty variant: UNREGISTER closes the session without UnregisterSession.
WriteCompleted_closes(st) == IF st = "REGISTER" THEN "register" ELSE "close"

\* Faulty variant: a break is missing, REGISTER ends like CLOSE.
WriteCompleted_fallsThrough(st) == IF st = "UNREGISTER" THEN "unregister" ELSE "close"

\* The switch of HandleWriteCompletion.
WriteCompleted(st) ==
    CASE st = "REGISTER"   -> "register"
      [] st = "CLOSE"      -> "close"
      [] st = "UNREGISTER" -> "unregister"

\* HandleWriteCompletion: the state read here decides what is done later.
HandleWriteCompletion(t, s) ==
    /\ Idle(t)
    /\ written[s] > 0 /\ s \notin deleted
    /\ written' = [written EXCEPT ![s] = @ - 1]
    /\ IF state[s] \in {"REGISTER", "CLOSE", "UNREGISTER"}
         THEN Goto(t, WriteCompleted(state[s]), s)
         ELSE UNCHANGED job
    /\ UNCHANGED <<netVars, sock, state, recv, posted, zero, sendBuf,
                   sessionMap, deleted, recvQueue, fault>>

\* RegisterSession, under m_sessionMapLock.
RegisterSession(t) ==
    /\ Running
    /\ job[t].op = "register" /\ job[t].s \notin deleted
    /\ state' = [state EXCEPT ![job[t].s] = "MAINTAIN"]
    /\ sessionMap' = sessionMap \cup {job[t].s}
    /\ Done(t)
    /\ UNCHANGED <<netVars, sock, recv, posted, written, zero, sendBuf,
                   deleted, recvQueue, fault>>

\* Faulty variant: the session stays in the map.
MapWithout_keeps(s) == sessionMap

\* m_sessionMap after unsafe_erase.
MapWithout(s) == sessionMap \ {s}

\* UnregisterSession: the map is changed under m_sessionMapLock, the socket is
\* closed after the lock is released.
UnregisterSession(t) ==
    LET s    == job[t].s
        last == job[t].op = "unregister"
    IN  /\ Running
        /\ job[t].op \in {"unregister", "eof"} /\ s \notin deleted
        /\ IF s \in sessionMap
             THEN Goto(t, IF last THEN "close" ELSE "eofclose", s)
             ELSE IF last THEN Done(t) ELSE Goto(t, "unregister", s)
        /\ sessionMap' = MapWithout(s)
        /\ UNCHANGED <<netVars, sessVars, deleted, recvQueue, fault>>

\* closesocket with a zero linger: the connection is reset and what is
\* outstanding on the socket completes with zero bytes.
CloseSocket(s) ==
    /\ sock' = [sock EXCEPT ![s] = "closed"]
    /\ conn' = [conn EXCEPT ![s] = IF @ = "up" THEN "reset" ELSE @]
    /\ zero' = [zero EXCEPT ![s] = @ + posted[s]
                                     + (IF recv[s] = "posted" THEN 1 ELSE 0)]
    /\ posted' = [posted EXCEPT ![s] = 0]
    /\ recv' = [recv EXCEPT ![s] = IF @ = "posted" THEN "none" ELSE @]

\* Faulty variant: the state is left as it was.
CloseSession_keepsState(s) == CloseSocket(s) /\ UNCHANGED state

\* Session::Close.
CloseSession(s) ==
    /\ CloseSocket(s)
    /\ state' = [state EXCEPT ![s] = "INVALID"]

Close(t) ==
    /\ Running
    /\ job[t].op \in {"close", "eofclose"} /\ job[t].s \notin deleted
    /\ CloseSession(job[t].s)
    /\ IF job[t].op = "close" THEN Done(t) ELSE Goto(t, "unregister", job[t].s)
    /\ UNCHANGED <<backlog, acceptPosted, acceptBuf, inbox, written, sendBuf,
                   sessionMap, deleted, recvQueue, fault>>

\* Unicast and Session::PostSend: the one send buffer is overwritten whether or
\* not an earlier send is still in progress.
PostSend(t, s, msg) ==
    /\ Idle(t)
    /\ s \notin deleted
    /\ sendBuf' = [sendBuf EXCEPT ![s] = msg]
    /\ \/ /\ sock[s] = "open"
          /\ posted' = [posted EXCEPT ![s] = @ + 1]
          /\ UNCHANGED job
       \/ /\ sock[s] = "closed" \/ Broken(s)
          /\ Goto(t, "unregister", s)
          /\ UNCHANGED posted
    /\ UNCHANGED <<netVars, sock, state, recv, written, zero, sessionMap,
                   deleted, recvQueue, fault>>

\* Whatever a thread does next with a session whose memory was released.
UseAfterDelete(t) ==
    /\ Running
    /\ \/ job[t].s \in deleted
       \/ /\ t \in Worker /\ Idle(t)
          /\ \E s \in deleted : zero[s] + written[s] > 0 \/ recv[s] = "data"
    /\ fault' = "dangling"
    /\ UNCHANGED <<netVars, sessVars, sessionMap, deleted, job, recvQueue>>

\* The rest of a handler that thread t is in.
Continue(t) ==
    PostReceive(t) \/ RegisterSession(t) \/ UnregisterSession(t) \/ Close(t)

\* One completion of session s handed to an idle worker.
Completion(t, s) ==
    Receive(t, s) \/ ZeroBytes(t, s) \/ HandleWriteCompletion(t, s)

Kernel(s) == DataArrives(s) \/ ReceiveEnds(s) \/ SendFails(s)

CoreNext ==
    \/ \E s \in Session : Kernel(s)
    \/ \E t \in Worker : Accept(t) \/ AcceptEmpty(t)
    \/ \E t \in Worker, s \in Session : Completion(t, s)
    \/ \E t \in Thread : Continue(t) \/ UseAfterDelete(t)

\* The process is gone and started again: nothing of the sessions survives.
CoreRestart ==
    /\ conn' = [s \in Session |-> IF conn[s] = "none" THEN "none" ELSE "gone"]
    /\ backlog' = <<>>
    /\ acceptPosted' = TRUE
    /\ acceptBuf' = None
    /\ inbox' = [s \in Session |-> None]
    /\ sock' = [s \in Session |-> IF conn[s] = "none" THEN "none" ELSE "closed"]
    /\ state' = [s \in Session |-> "MAINTAIN"]
    /\ recv' = [s \in Session |-> "none"]
    /\ posted' = [s \in Session |-> 0]
    /\ written' = [s \in Session |-> 0]
    /\ zero' = [s \in Session |-> 0]
    /\ sendBuf' = [s \in Session |-> None]
    /\ sessionMap' = {}
    /\ deleted' = {}
    /\ job' = [t \in Thread |-> Wait]
    /\ recvQueue' = <<>>
    /\ fault' = "none"
=============================================================================
