---------------------------- MODULE ServerShutdown ----------------------------
(***************************************************************************)
(* The server and its end: QuitThread and TriggerShutdown, the end of each *)
(* thread, ServerCore::Finalize and OutgameServer::Stop.  What the threads *)
(* do is as in OutgameServer; added is who may still begin something once  *)
(* m_bRun or m_bEndServer has changed, and what its pointers then lead to. *)
(***************************************************************************)
EXTENDS OutgameServer

CONSTANTS
    Id,         \* Id[s]: the session's number, its key in m_sessionMap
    Presses     \* bound: phases of the clients, and steps of a login (from its packet at
                \* the head of m_recvQueue on), at which the key may be pressed

ASSUME IdAssumption == /\ Id \in [Session -> Nat]
                       /\ \A s1, s2 \in Session : Id[s1] = Id[s2] => s1 = s2
ASSUME WorkerAssumption == IsFiniteSet(Worker)
ASSUME PressAssumption == Presses \subseteq Phase \cup {"login", "create", "load", "announce", "reply"}

VARIABLES
    ending,     \* m_bEndServer
    trigger,    \* QuitThread: at the keyboard, in TriggerShutdown, ended
    unposted,   \* null completions TriggerShutdown has still to post
    wake,       \* null completions in the port
    ended,      \* workers that have returned, loops after their last round
    core,       \* the ServerCore: up, in Finalize's loop, or deleted
    index,      \* that loop's i
    nulls,      \* keys of m_sessionMap with a null pointer
    stopped     \* Stop has returned

endVars == <<ending, trigger, unposted, wake, ended, core, index, nulls, stopped>>
allVars == <<vars, endVars>>

\* m_bRun
running == trigger = "keyboard"

Loop == {"sender", "handler", "cleaner"}

EndTypeOK ==
    /\ ending \in BOOLEAN /\ stopped \in BOOLEAN
    /\ trigger \in {"keyboard", "post", "ended"}
    /\ unposted \in Nat /\ wake \in Nat /\ index \in Nat
    /\ ended \subseteq Worker \cup Loop
    /\ core \in {"up", "drain", "deleted"}
    /\ nulls \subseteq Nat

EndInit ==
    /\ ending = FALSE /\ stopped = FALSE
    /\ trigger = "keyboard" /\ unposted = 0 /\ wake = 0
    /\ ended = {} /\ core = "up" /\ index = 0 /\ nulls = {}

ShutdownInit == Init /\ EndInit

\* A thread is lost with an invalid pointer.
Lost(why) == Crash(why) /\ UNCHANGED <<phase, endVars>>

-----------------------------------------------------------------------------
(* The clients and the kernel: the listening socket goes with Finalize's   *)
(* first step, the others with WSACleanup.                                 *)

Outside ==
    /\ \E s \in Session :
         \/ core = "up" /\ Connect(s)
         \/ Send(s) \/ Disconnect(s)
         \/ core # "deleted" /\ Transmit(s)
         \/ core # "deleted" /\ Kernel(s) /\ UNCHANGED <<userVars, phase>>
    /\ UNCHANGED endVars

-----------------------------------------------------------------------------
(* The workers.  A handler that m_bEndServer finds running is finished; the*)
(* worker then returns.                                                    *)

Serve ==
    /\ ~ending
    /\ \/ \E t \in Worker : Accept(t) \/ AcceptEmpty(t)
       \/ \E t \in Worker, s \in Session : Completion(t, s)
    /\ UNCHANGED <<userVars, phase, endVars>>

WorkerContinues(t) ==
    /\ Continue(t)
    /\ ended' = IF ending /\ job'[t] = Wait THEN ended \cup {t} ELSE ended
    /\ UNCHANGED <<userVars, phase, ending, trigger, unposted, wake, core, index,
                   nulls, stopped>>

\* The session was released: a failed completion is still unregistered.
WorkerLost(t) ==
    /\ UseAfterDelete(t)
    /\ ending /\ job[t] = Wait => t \notin ended /\ \E s \in deleted : zero[s] > 0
    /\ UNCHANGED <<userVars, phase, endVars>>

\* HandleAcceptCompletion: the client is gone, SO_UPDATE_ACCEPT_CONTEXT fails.
\* m_bEndServer is set and the other workers are not woken.
AcceptFails(t) ==
    /\ Idle(t) /\ ~ending
    /\ acceptPosted /\ backlog # <<>> /\ conn[Head(backlog)] = "gone"
    /\ acceptPosted' = FALSE
    /\ backlog' = Tail(backlog)
    /\ ending' = TRUE
    /\ ended' = ended \cup {t}
    /\ UNCHANGED <<conn, acceptBuf, inbox, sessVars, sessionMap, deleted, job, recvQueue,
                   fault, userVars, phase, trigger, unposted, wake, core, index,
                   nulls, stopped>>

\* A completion that is taken off the port and not handled.
Discard ==
    \/ /\ acceptPosted /\ backlog # <<>> /\ acceptPosted' = FALSE
       /\ UNCHANGED <<recv, written, zero>>
    \/ \E s \in Session :
         /\ \/ recv[s] = "data" /\ recv' = [recv EXCEPT ![s] = "none"]
               /\ UNCHANGED <<written, zero>>
            \/ written[s] > 0 /\ written' = [written EXCEPT ![s] = @ - 1]
               /\ UNCHANGED <<recv, zero>>
            \/ zero[s] > 0 /\ zero' = [zero EXCEPT ![s] = @ - 1]
               /\ UNCHANGED <<recv, written>>
         /\ UNCHANGED acceptPosted

\* A worker that waits for a completion takes one and returns.
WorkerReturns(t) ==
    /\ ending /\ Idle(t) /\ t \notin ended
    /\ \/ /\ wake > 0 /\ wake' = wake - 1
          /\ UNCHANGED coreVars
       \/ /\ Discard
          /\ UNCHANGED <<conn, backlog, acceptBuf, inbox, sock, state, posted, sendBuf,
                         sessionMap, deleted, job, recvQueue, fault, wake>>
    /\ ended' = ended \cup {t}
    /\ UNCHANGED <<userVars, phase, ending, trigger, unposted, core, index, nulls,
                   stopped>>

\* A failed receive or send is unregistered before the flag is read.
WorkerUnregisters(t) ==
    /\ ending /\ t \notin ended
    /\ \E s \in Session : ZeroBytes(t, s) /\ job'[t].op = "unregister"
    /\ UNCHANGED <<userVars, phase, endVars>>

\* A worker that was about to read the flag.
WorkerSees(t) ==
    /\ ending /\ Idle(t) /\ t \notin ended
    /\ ended' = ended \cup {t}
    /\ UNCHANGED <<vars, ending, trigger, unposted, wake, core, index, nulls,
                   stopped>>

-----------------------------------------------------------------------------
(* SendThread, PacketHandler::Run and UpdateActiveUserMap: each reads      *)
(* m_bRun between two rounds.  A loop that waits when m_bRun is cleared    *)
(* either returns or, if it had read it before, begins its last round.     *)

Between(x) ==
    CASE x = "sender"  -> job[Sender] = Wait
      [] x = "handler" -> hnd.pc = "idle"
      [] x = "cleaner" -> cln.pc = "sleep"

Returned(x) == x \in ended \/ (stopped /\ Between(x))

\* A step of loop x; a round begun in time is finished, and is the last one.
Round(x) ==
    /\ ~Returned(x)
    /\ ended' = IF ~running /\ Between(x)' THEN ended \cup {x} ELSE ended
    /\ UNCHANGED <<ending, trigger, unposted, wake, core, index, nulls, stopped>>

\* What m_pServerCore, read by the send thread each round, leads to.
CorePointer == IF trigger = "ended" THEN "null" ELSE core

\* Unicast touches the ServerCore only when the send fails.
SenderStep ==
    /\ \/ SendTask /\ (CorePointer = "null" => job' = job)
       \/ SendFreed
       \/ Continue(Sender) /\ core # "deleted" /\ UNCHANGED <<userVars, phase>>
    /\ Round("sender")

\* A session that was released; UnregisterSession on no ServerCore, on a deleted
\* one, or while Finalize looks the map up without the lock.
SenderLost ==
    /\ Running /\ ~Returned("sender")
    /\ \/ job[Sender].s \in deleted /\ Lost("dangling")
       \/ /\ job[Sender] = Wait /\ sendQueue # <<>> /\ CorePointer = "null"
          /\ sock[Head(sendQueue).s] = "closed" \/ Broken(Head(sendQueue).s)
          /\ Lost("dangling")
       \/ job[Sender] # Wait /\ core = "deleted" /\ Lost("dangling")
       \/ job[Sender].op \in {"unregister", "eof"} /\ core = "drain" /\ Lost("race")

HandlerStep == Handler /\ UNCHANGED phase /\ Round("handler")
CleanerStep == Cleaner /\ UNCHANGED phase /\ Round("cleaner")

\* The packet of a first request is in the ListenContext's buffer.
HandlerLost ==
    /\ ~Returned("handler") /\ core # "up"
    /\ Packet("login") \/ Packet("join")
    /\ Lost("dangling")

-----------------------------------------------------------------------------
(* QuitThread: TriggerShutdown of the server, then of its core.            *)

\* Faulty variant: the loop stops one short.
Posts_short == Cardinality(Worker) - 1

\* One completion for each of the m_nThread workers.
Posts == Cardinality(Worker)

\* The key is pressed, at a moment bounded by Presses: both flags are set.  m_bRun
\* is set first; a loop that sees it before the workers see theirs is one that does
\* nothing for a while.
TriggerShutdown ==
    /\ Running /\ trigger = "keyboard" /\ core # "deleted"
    /\ \/ \A s \in Session : phase[s] \in Presses
       \/ hnd.pc \in Presses
       \/ Packet("login") /\ "login" \in Presses
    /\ trigger' = "post"
    /\ ending' = TRUE
    /\ unposted' = Posts
    /\ UNCHANGED <<vars, wake, ended, core, index, nulls, stopped>>

\* Faulty variant: one more completion than was counted.
MorePosts_late == TRUE

MorePosts == unposted > 0

PostWake ==
    /\ Running /\ trigger = "post" /\ core # "deleted" /\ MorePosts
    /\ unposted' = unposted - 1
    /\ wake' = wake + 1
    /\ UNCHANGED <<vars, ending, trigger, ended, core, index, nulls, stopped>>

\* m_pServerCore = nullptr
TriggerEnds ==
    /\ Running /\ trigger = "post" /\ unposted = 0
    /\ trigger' = "ended"
    /\ UNCHANGED <<vars, ending, unposted, wake, ended, core, index, nulls,
                   stopped>>

\* The workers have ended without all the completions and Finalize has deleted
\* the ServerCore that is told to post them.
TriggerLost ==
    /\ Running /\ core = "deleted"
    /\ trigger = "keyboard" \/ (trigger = "post" /\ unposted > 0)
    /\ Lost("dangling")

-----------------------------------------------------------------------------
(* ServerCore::Run, once it has joined the workers.                        *)

\* The ListenContext is deleted.  acceptOverlapped.hEvent is null, so nothing is
\* waited for.
Finalize ==
    /\ Running /\ core = "up" /\ Worker \subseteq ended
    /\ core' = "drain"
    /\ ending' = TRUE
    /\ acceptPosted' = FALSE
    /\ backlog' = <<>>
    /\ conn' = [s \in Session |-> IF s \in ToSet(backlog) /\ conn[s] = "up"
                                    THEN "reset" ELSE conn[s]]
    /\ UNCHANGED <<acceptBuf, inbox, sessVars, sessionMap, deleted, job, recvQueue, fault,
                   userVars, phase, trigger, unposted, wake, ended, index, nulls,
                   stopped>>

\* m_sessionMap.size()
Size == Cardinality(sessionMap) + Cardinality(nulls)

\* Faulty variant: the look-up is a find.
LookUp_find(i) == nulls

\* operator[] inserts a null pointer for a key that is not there.
LookUp(i) == nulls \cup {i}

\* A session is unregistered (--i, then ++i); an empty entry is passed over.
DrainStep ==
    /\ Running /\ core = "drain" /\ index < Size
    /\ \/ \E s \in sessionMap :
            /\ Id[s] = index
            /\ sessionMap' = MapWithout(s)
            /\ CloseSession(s)
            /\ UNCHANGED <<index, nulls>>
       \/ /\ \A s \in sessionMap : Id[s] # index
          /\ nulls' = LookUp(index)
          /\ index' = index + 1
          /\ UNCHANGED <<conn, sock, state, recv, posted, zero, sessionMap>>
    /\ UNCHANGED <<backlog, acceptPosted, acceptBuf, inbox, written, sendBuf, deleted, job,
                   recvQueue, fault, userVars, phase, ending, trigger, unposted,
                   wake, ended, core, stopped>>

\* clear, CloseHandle, WSACleanup, delete this.
FinalizeEnds ==
    /\ Running /\ core = "drain" /\ index >= Size
    /\ core' = "deleted"
    /\ sessionMap' = {}
    /\ nulls' = {}
    /\ conn' = [s \in Session |-> IF conn[s] = "up" THEN "reset" ELSE conn[s]]
    /\ UNCHANGED <<backlog, acceptPosted, acceptBuf, inbox, sessVars, deleted, job,
                   recvQueue, fault, userVars, phase, ending, trigger, unposted,
                   wake, ended, index, stopped>>

-----------------------------------------------------------------------------
(* The main thread.                                                        *)

\* Faulty variant: the handler's thread is not among m_workers.
Joined_notHandler == /\ core = "deleted" /\ trigger = "ended"
                     /\ Between("sender") /\ Between("cleaner")

\* Start has joined its five threads: the loops that are between two rounds have
\* returned.
Joined == /\ core = "deleted" /\ trigger = "ended"
          /\ \A x \in Loop : Between(x)

\* The PacketHandler and the UserManager are deleted; m_sendQueue is cleared.
Stop ==
    /\ Running /\ Joined /\ ~stopped
    /\ stopped' = TRUE
    /\ recvQueue' = <<>>
    /\ sendQueue' = <<>>
    /\ dbState' = AllOffline
    /\ name' = [s \in Session |-> None]
    /\ friends' = [s \in Session |-> {}]
    /\ UNCHANGED <<netVars, sessVars, sessionMap, deleted, job, fault, names, hnd, cln,
                   phase, ending, trigger, unposted, wake, ended, core, index,
                   nulls>>

\* A new process.
StartAgain ==
    /\ Restart
    /\ ending' = FALSE /\ stopped' = FALSE
    /\ trigger' = "keyboard" /\ unposted' = 0 /\ wake' = 0
    /\ ended' = {} /\ core' = "up" /\ index' = 0 /\ nulls' = {}

Exited == stopped /\ UNCHANGED allVars

WorkerStep(t) == WorkerContinues(t) \/ WorkerReturns(t) \/ WorkerUnregisters(t) \/ WorkerLost(t)
LoopStep      == SenderStep \/ SenderLost \/ HandlerStep \/ HandlerLost \/ CleanerStep
Quit          == PostWake \/ TriggerEnds \/ TriggerLost
CoreEnd       == Finalize \/ DrainStep \/ FinalizeEnds

ShutdownNext ==
    \/ Outside
    \/ Serve
    \/ \E t \in Worker : WorkerStep(t) \/ WorkerSees(t) \/ AcceptFails(t)
    \/ LoopStep
    \/ TriggerShutdown \/ Quit
    \/ CoreEnd
    \/ Stop
    \/ StartAgain
    \/ Quiescent /\ UNCHANGED endVars
    \/ Exited

\* As in OutgameServer for the server at work.  Nobody has to press the key; then
\* threads are scheduled.  An idle worker returns when it is woken: one blocked
\* on the port does not see the flag by itself.
ShutdownFairness ==
    /\ \A s \in Session :
         /\ WF_allVars(\/ phase[s] = "connected" /\ Send(s) /\ UNCHANGED endVars
                       \/ core # "deleted" /\ Transmit(s) /\ UNCHANGED endVars
                       \/ core # "deleted" /\ Kernel(s)
                            /\ UNCHANGED <<userVars, phase, endVars>>)
         /\ SF_allVars(~ending /\ (\E t \in Worker : Completion(t, s))
                        /\ UNCHANGED <<userVars, phase, endVars>>)
    /\ SF_allVars(~ending /\ (\E t \in Worker : Accept(t))
                   /\ UNCHANGED <<userVars, phase, endVars>>)
    /\ \A t \in Worker : WF_allVars(WorkerStep(t))
    /\ WF_allVars(SenderStep \/ SenderLost)
    /\ WF_allVars(HandlerStep \/ HandlerLost)
    /\ WF_allVars(CleanerStep)
    /\ WF_allVars((~running /\ Quit) \/ CoreEnd \/ Stop)

ShutdownSpec == ShutdownInit /\ [][ShutdownNext]_allVars /\ ShutdownFairness

-----------------------------------------------------------------------------
(* Properties.                                                             *)

\* Finalize's loop ends with no session in m_sessionMap, whatever numbers the
\* sessions have, although its bound is the size of a map that grows with each
\* number it passes over and shrinks with each session it closes: clear() drops
\* nothing that is still open.
LoopEmptiesMap == core = "drain" /\ index >= Size => sessionMap = {}

\* After a shutdown no account is left in use: the destructor's UPDATE is not
\* undone by a login that was being handled, or a user that was being reaped,
\* when the key was pressed.
OfflineWhenStopped == stopped => \A a \in Account : ~InUse(a)

\* Seen from outside, a server that is told to stop is the same directory of accounts
\* until Finalize begins to close the sessions, which sends every client away.
Service == INSTANCE AccountDirectory WITH
               holds <- name,
               left  <- {s \in Session : \/ conn[s] = "gone"
                                         \/ phase[s] \in {"leaving", "finished"}
                                         \/ core # "up" /\ conn[s] # "none"}

\* The key takes no account from a client that stays, and gives none to two, although
\* it may come in the middle of a login or a reaping, completions are thrown away and
\* workers return before the loops do; the accounts go only with the sessions.
ImplementsService == Service!Spec

\* RequestAnswered, as long as the server is not on its way out.
AnsweredWhileRunning ==
    \A s \in Session :
        (phase[s] = "waiting" /\ inbox[s] # None) ~>
            \/ phase[s] \in {"ready", "finished"} \/ conn[s] = "gone"
            \/ Overwritten(s) \/ ~Running \/ ~running \/ ending

\* Once the key is pressed the process ends: the workers blocked on the port are
\* all woken, though completions that were queued before may end them first, the
\* loops see m_bRun, and Stop is reached (unless a pointer is invalid).
ShutdownCompletes == ~running ~> stopped \/ ~Running
=============================================================================
