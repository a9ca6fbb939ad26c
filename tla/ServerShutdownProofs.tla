-------------------------- MODULE ServerShutdownProofs -------------------------
(***************************************************************************)
(* Proofs about ServerShutdown, for any number of sessions, whatever their *)
(* numbers, and any number of workers.                                     *)
(*                                                                         *)
(* First the end itself: Finalize leaves no session, Stop no account in    *)
(* use.  Then what OutgameServer promises, up to and after the end, from   *)
(* the lemmas about its steps; and last that the server is the directory   *)
(* of accounts to its end.                                                 *)
(***************************************************************************)
EXTENDS ServerShutdown, SessionProofs

\* The null entries of m_sessionMap are the numbers Finalize's loop has passed.
MapCounted ==
    /\ IsFiniteSet(sessionMap)
    /\ nulls = IF core = "deleted" THEN {} ELSE 0..(index - 1)

\* Once Stop has returned nobody is in the middle of a login or a reaping.
Settled ==
    stopped => /\ hnd.pc = "idle" /\ cln.pc = "sleep"
               /\ \A a \in Account : ~InUse(a)

EndInv == EndTypeOK /\ MapCounted /\ Settled

\* At most one session is new in m_sessionMap.
OneNew == \E s : sessionMap' \subseteq sessionMap \cup {s}

-----------------------------------------------------------------------------

\* A step that leaves the end of the server alone keeps the invariant.
LEMMA FrameKeeps ==
    ASSUME EndInv, OneNew, UNCHANGED <<dbState, hnd, cln>>,
           UNCHANGED <<ending, trigger, unposted, wake, core, index, nulls, stopped>>,
           ended' \subseteq ended \cup Worker \cup Loop
    PROVE  EndInv'
<1>1. EndTypeOK'
  BY DEF EndInv, EndTypeOK
<1>2. IsFiniteSet(sessionMap')
  <2>1. PICK s : sessionMap' \subseteq sessionMap \cup {s}
    BY DEF OneNew
  <2> QED
    BY <2>1, FS_AddElement, FS_Subset DEF EndInv, MapCounted
<1>3. MapCounted' /\ Settled'
  BY <1>2 DEF EndInv, MapCounted, Settled, InUse
<1> QED
  BY <1>1, <1>3 DEF EndInv

\* What the kernel and the workers do to m_sessionMap.
LEMMA ContinueOneNew ==
    ASSUME NEW t, Continue(t)
    PROVE  OneNew
BY DEF Continue, PostReceive, RegisterSession, UnregisterSession, Close, MapWithout, OneNew

LEMMA CompletionKeepsMap ==
    ASSUME NEW t, NEW s, Completion(t, s)
    PROVE  UNCHANGED sessionMap
BY DEF Completion, Receive, ZeroBytes, HandleWriteCompletion

LEMMA KernelKeepsMap ==
    ASSUME NEW s, Kernel(s)
    PROVE  UNCHANGED sessionMap
BY DEF Kernel, DataArrives, ReceiveEnds, SendFails

LEMMA CrashFrame ==
    ASSUME NEW why, Lost(why), EndInv
    PROVE  EndInv'
BY FrameKeeps DEF Lost, Crash, OneNew, endVars, userVars

-----------------------------------------------------------------------------

LEMMA OutsideKeeps ==
    ASSUME EndInv, Outside
    PROVE  EndInv'
<1>1. PICK s \in Session :
        \/ Connect(s) \/ Send(s) \/ Disconnect(s) \/ Transmit(s)
        \/ Kernel(s) /\ UNCHANGED userVars
  BY DEF Outside
<1>2. UNCHANGED endVars
  BY DEF Outside
<1>3. UNCHANGED <<sessionMap, dbState, hnd, cln>>
  BY <1>1, KernelKeepsMap
  DEF Connect, Send, Disconnect, Transmit, SendCompletes, userVars
<1> QED
  BY <1>2, <1>3, FrameKeeps DEF endVars, OneNew

LEMMA ServeKeeps ==
    ASSUME EndInv, Serve
    PROVE  EndInv'
<1>1. UNCHANGED <<userVars, endVars>>
  BY DEF Serve
<1>2. UNCHANGED sessionMap
  BY CompletionKeepsMap DEF Serve, Accept, AcceptEmpty
<1> QED
  BY <1>1, <1>2, FrameKeeps DEF endVars, userVars, OneNew

LEMMA WorkersKeep ==
    ASSUME EndInv, NEW t \in Worker, WorkerStep(t) \/ WorkerSees(t) \/ AcceptFails(t)
    PROVE  EndInv'
<1>1. CASE WorkerContinues(t)
  <2>1. OneNew
    BY <1>1, ContinueOneNew DEF WorkerContinues
  <2> QED
    BY <1>1, <2>1, FrameKeeps DEF WorkerContinues, userVars
<1>2. CASE WorkerReturns(t)
  <2>1. CASE wake > 0 /\ wake' = wake - 1 /\ UNCHANGED coreVars
    <3>1. EndTypeOK'
      BY <1>2, <2>1 DEF WorkerReturns, EndInv, EndTypeOK
    <3>2. MapCounted' /\ Settled'
      BY <1>2, <2>1 DEF WorkerReturns, EndInv, MapCounted, Settled, InUse, coreVars, userVars
    <3> QED
      BY <3>1, <3>2 DEF EndInv
  <2>2. CASE UNCHANGED <<sessionMap, wake>>
    BY <1>2, <2>2, FrameKeeps DEF WorkerReturns, userVars, OneNew
  <2> QED
    BY <1>2, <2>1, <2>2 DEF WorkerReturns
<1>3. CASE WorkerUnregisters(t)
  BY <1>3, CompletionKeepsMap, FrameKeeps
  DEF WorkerUnregisters, Completion, userVars, endVars, OneNew
<1>4. CASE WorkerLost(t)
  BY <1>4, FrameKeeps DEF WorkerLost, UseAfterDelete, userVars, endVars, OneNew
<1>5. CASE WorkerSees(t)
  BY <1>5, FrameKeeps DEF WorkerSees, vars, coreVars, userVars, OneNew
<1>6. CASE AcceptFails(t)
  <2>1. EndTypeOK'
    BY <1>6 DEF AcceptFails, EndInv, EndTypeOK
  <2>2. MapCounted' /\ Settled'
    BY <1>6 DEF AcceptFails, EndInv, MapCounted, Settled, InUse, userVars
  <2> QED
    BY <2>1, <2>2 DEF EndInv
<1> QED
  BY <1>1, <1>2, <1>3, <1>4, <1>5, <1>6 DEF WorkerStep

-----------------------------------------------------------------------------
(* The loops.                                                              *)

\* A round of a loop that is between two rounds begins before Stop.
LEMMA RoundBegins ==
    ASSUME NEW x, Round(x), stopped
    PROVE  ~Between(x)
BY DEF Round, Returned

LEMMA HandlerKeepsMap ==
    ASSUME Handler
    PROVE  UNCHANGED <<sessionMap, cln>>
<1> USE DEF Crash, userVars, coreVars, sessVars, Grant
<1>1. CASE DropPacket \/ RefuseLogin \/ AcceptLogin \/ CreateActiveUser
  BY <1>1 DEF DropPacket, RefuseLogin, AcceptLogin, CreateActiveUser
<1>2. CASE LoadFriends \/ LoadFails \/ AnnounceLogin \/ GrantLogin \/ LoginFails
  BY <1>2 DEF LoadFriends, LoadFails, AnnounceLogin, GrantLogin, LoginFails
<1>3. CASE HandleLogout \/ LogoutFails \/ HandleJoin \/ HandleFind \/ FindFails
  BY <1>3 DEF HandleLogout, LogoutFails, HandleJoin, HandleFind, FindFails
<1> QED
  BY <1>1, <1>2, <1>3 DEF Handler

LEMMA CleanerKeepsMap ==
    ASSUME Cleaner
    PROVE  UNCHANGED <<sessionMap, hnd>>
BY DEF Cleaner, Snapshot, ScanEnds, Erase, Scan, Reap, ReapFails, CleanerOnly, Crash,
       coreVars, userVars

\* A round of the handler or of the cleaner, which Settled rules out after Stop.
LEMMA LoopKeeps ==
    ASSUME EndInv, NEW x \in {"handler", "cleaner"}, Round(x), UNCHANGED sessionMap
    PROVE  EndInv'
<1>1. ~stopped
  <2>1. stopped => Between(x)
    BY DEF EndInv, Settled, Between
  <2> QED
    BY <2>1, RoundBegins
<1>2. EndTypeOK'
  BY DEF Round, EndInv, EndTypeOK, Loop
<1>3. MapCounted' /\ Settled'
  BY <1>1 DEF Round, EndInv, MapCounted, Settled
<1> QED
  BY <1>2, <1>3 DEF EndInv

LEMMA LoopsKeep ==
    ASSUME EndInv, LoopStep
    PROVE  EndInv'
<1>1. CASE SenderStep
  <2>1. OneNew /\ UNCHANGED <<dbState, hnd, cln>>
    BY <1>1, ContinueOneNew
    DEF SenderStep, SendTask, PostSend, SendFreed, Crash, userVars, OneNew
  <2>2. Round("sender")
    BY <1>1 DEF SenderStep
  <2> QED
    BY <2>1, <2>2, FrameKeeps DEF Round, Loop
<1>2. CASE SenderLost \/ HandlerLost
  BY <1>2, CrashFrame DEF SenderLost, HandlerLost
<1>3. CASE HandlerStep
  BY <1>3, HandlerKeepsMap, LoopKeeps DEF HandlerStep
<1>4. CASE CleanerStep
  BY <1>4, CleanerKeepsMap, LoopKeeps DEF CleanerStep
<1> QED
  BY <1>1, <1>2, <1>3, <1>4 DEF LoopStep

-----------------------------------------------------------------------------
(* The end.                                                                *)

LEMMA QuitKeeps ==
    ASSUME EndInv, TriggerShutdown \/ Quit
    PROVE  EndInv'
<1>1. Posts \in Nat
  BY WorkerAssumption, FS_CardinalityType DEF Posts
<1>2. CASE TriggerLost
  BY <1>2, CrashFrame DEF TriggerLost
<1>3. CASE TriggerShutdown \/ PostWake \/ TriggerEnds
  <2>1. EndTypeOK'
    <3> USE DEF EndInv, EndTypeOK
    <3>1. CASE TriggerShutdown
      BY <1>1, <3>1 DEF TriggerShutdown
    <3>2. CASE PostWake
      <4>1. unposted - 1 \in Nat /\ wake + 1 \in Nat
        BY <3>2 DEF PostWake, MorePosts
      <4> QED
        BY <3>2, <4>1 DEF PostWake
    <3>3. CASE TriggerEnds
      BY <3>3 DEF TriggerEnds
    <3> QED
      BY <1>3, <3>1, <3>2, <3>3
  <2>2. UNCHANGED <<vars, core, index, nulls, stopped>>
    BY <1>3 DEF TriggerShutdown, PostWake, TriggerEnds
  <2>3. MapCounted' /\ Settled'
    BY <2>2 DEF EndInv, MapCounted, Settled, InUse, vars, coreVars, userVars
  <2> QED
    BY <2>1, <2>3 DEF EndInv
<1> QED
  BY <1>2, <1>3 DEF Quit

LEMMA CoreEndKeeps ==
    ASSUME EndInv, CoreEnd
    PROVE  EndInv'
<1> USE DEF EndInv, MapCounted
<1>1. EndTypeOK'
  <2> USE DEF EndTypeOK
  <2>1. CASE Finalize \/ FinalizeEnds
    BY <2>1 DEF Finalize, FinalizeEnds
  <2>2. CASE DrainStep
    <3>1. index' \in Nat /\ nulls' \subseteq Nat
      BY <2>2 DEF DrainStep, LookUp
    <3> QED
      BY <2>2, <3>1 DEF DrainStep
  <2> QED
    BY <2>1, <2>2 DEF CoreEnd
<1>2. Settled'
  BY DEF CoreEnd, Finalize, DrainStep, FinalizeEnds, Settled, InUse, userVars
<1>3. CASE Finalize
  BY <1>1, <1>2, <1>3 DEF Finalize
<1>4. CASE FinalizeEnds
  BY <1>1, <1>2, <1>4, FS_EmptySet DEF FinalizeEnds
<1>5. CASE DrainStep
  <2>1. CASE UNCHANGED <<index, nulls>>
    <3>1. sessionMap' \subseteq sessionMap
      BY <1>5 DEF DrainStep, MapWithout
    <3> QED
      BY <1>1, <1>2, <1>5, <2>1, <3>1, FS_Subset DEF DrainStep
  <2>2. CASE nulls' = LookUp(index) /\ index' = index + 1 /\ UNCHANGED sessionMap
    <3>1. index \in Nat
      BY DEF EndTypeOK
    <3>2. 0..(index - 1) \cup {index} = 0..index
      BY <3>1
    <3> QED
      BY <1>1, <1>2, <1>5, <2>2, <3>1, <3>2 DEF DrainStep, LookUp
  <2> QED
    BY <1>5, <2>1, <2>2 DEF DrainStep
<1> QED
  BY <1>3, <1>4, <1>5 DEF CoreEnd

LEMMA StopKeeps ==
    ASSUME EndInv, Stop
    PROVE  EndInv'
<1>1. EndTypeOK' /\ MapCounted'
  BY DEF Stop, EndInv, EndTypeOK, MapCounted
<1>2. hnd'.pc = "idle" /\ cln'.pc = "sleep"
  BY DEF Stop, Joined, Between, Loop
<1>3. \A a \in Account : ~InUse(a)'
  BY DEF Stop, AllOffline, InUse
<1> QED
  BY <1>1, <1>2, <1>3 DEF EndInv, Settled

LEMMA StartAgainKeeps ==
    ASSUME StartAgain
    PROVE  EndInv'
<1>1. EndTypeOK' /\ Settled'
  BY DEF StartAgain, EndTypeOK, Settled
<1>2. MapCounted'
  BY FS_EmptySet DEF StartAgain, Restart, CoreRestart, MapCounted
<1> QED
  BY <1>1, <1>2 DEF EndInv

LEMMA EndInvInit == ShutdownInit => EndInv
<1> SUFFICES ASSUME ShutdownInit PROVE EndInv
  OBVIOUS
<1>1. EndTypeOK /\ Settled
  BY DEF ShutdownInit, EndInit, EndTypeOK, Settled
<1>2. MapCounted
  BY FS_EmptySet DEF ShutdownInit, EndInit, Init, CoreInit, MapCounted
<1> QED
  BY <1>1, <1>2 DEF EndInv

LEMMA EndInvStep ==
    ASSUME EndInv, [ShutdownNext]_allVars
    PROVE  EndInv'
<1>1. CASE UNCHANGED allVars
  BY <1>1, FrameKeeps DEF allVars, vars, coreVars, userVars, endVars, OneNew
<1>2. CASE Quiescent /\ UNCHANGED endVars
  BY <1>2, FrameKeeps DEF Quiescent, vars, coreVars, userVars, endVars, OneNew
<1>3. CASE Exited
  BY <1>1, <1>3 DEF Exited
<1> QED
  BY <1>1, <1>2, <1>3, OutsideKeeps, ServeKeeps, WorkersKeep, LoopsKeep, QuitKeeps,
     CoreEndKeeps, StopKeeps, StartAgainKeeps
  DEF ShutdownNext

\* EndInv holds in every reachable state.
LEMMA EndInvHolds == ShutdownSpec => []EndInv
BY EndInvInit, EndInvStep, PTL DEF ShutdownSpec

\* EndTypeOK: TriggerShutdown posts as many completions as there are workers and
\* never counts below zero.
THEOREM ShutdownTyped == ShutdownSpec => []EndTypeOK
BY EndInvHolds, PTL DEF EndInv

\* LoopEmptiesMap: ServerCore::Finalize's loop over m_sessionMap[i] leaves no
\* session behind, whatever the numbers of the sessions are.
THEOREM FinalizeEmptiesMap == ShutdownSpec => []LoopEmptiesMap
<1>1. EndInv => LoopEmptiesMap
  <2> SUFFICES ASSUME EndInv, core = "drain", index >= Size
               PROVE  sessionMap = {}
    BY DEF LoopEmptiesMap
  <2>1. IsFiniteSet(sessionMap) /\ index \in Nat /\ nulls = 0..(index - 1)
    BY DEF EndInv, EndTypeOK, MapCounted
  <2>2. Cardinality(nulls) = index
    BY <2>1, FS_Interval
  <2>3. Cardinality(sessionMap) \in Nat
    BY <2>1, FS_CardinalityType
  <2>4. Cardinality(sessionMap) = 0
    BY <2>1, <2>2, <2>3 DEF Size
  <2> QED
    BY <2>1, <2>4, FS_EmptySet
<1> QED
  BY <1>1, EndInvHolds, PTL

\* OfflineWhenStopped: ~UserManager's UPDATE is the last word on column State.
THEOREM StoppedMeansOffline == ShutdownSpec => []OfflineWhenStopped
<1>1. EndInv => OfflineWhenStopped
  BY DEF EndInv, Settled, OfflineWhenStopped
<1> QED
  BY <1>1, EndInvHolds, PTL

-----------------------------------------------------------------------------
(* The users of a server that may be shut down.  Until Stop returns they   *)
(* are as in OutgameServer: what the end does to sessions and threads, at  *)
(* any moment of a login or a reaping, leaves what LoginInv, LoginFirst,   *)
(* RowsTrue and NeverFreed say as it was.  Stop leaves the index of names  *)
(* behind, so after it there is only this: no user is left, and nobody     *)
(* makes one.                                                              *)

Attended ==
    IF stopped THEN users = {} /\ \A a \in Existing : dbState[a] # "ABSENT"
    ELSE LoginInv /\ LoginFirst /\ RowsTrue /\ NeverFreed /\ FreedUserIsErased

\* A thread is lost, or a step of the end that OutgameServer does not have.
Falls == \E why \in {"dangling", "race"} : Lost(why)
Ends  == CoreEnd \/ \E t \in Worker : AcceptFails(t) \/ WorkerReturns(t)

\* All other steps are those of OutgameServer, or change only how the end goes on.
LEMMA StepCases ==
    ASSUME [ShutdownNext]_allVars
    PROVE  [Next]_vars \/ Falls \/ Ends \/ Stop
<1>1. CASE Outside
  BY <1>1 DEF Outside, Next, Client, Core, CoreNext
<1>2. CASE Serve
  BY <1>2 DEF Serve, Next, Core, CoreNext
<1>3. ASSUME NEW t \in Worker, WorkerStep(t) \/ WorkerSees(t) \/ AcceptFails(t)
      PROVE  [Next]_vars \/ Ends
  <2>1. t \in Thread
    BY DEF Thread
  <2>2. CASE WorkerContinues(t) \/ WorkerLost(t)
    BY <2>1, <2>2 DEF WorkerContinues, WorkerLost, Next, Core, CoreNext
  <2>3. CASE WorkerUnregisters(t)
    BY <2>3 DEF WorkerUnregisters, Next, Core, CoreNext, Completion
  <2> QED
    BY <1>3, <2>2, <2>3 DEF WorkerStep, WorkerSees, Ends
<1>4. CASE LoopStep
  <2>1. CASE SenderStep
    <3>1. Sender \in Thread
      BY DEF Thread
    <3> QED
      BY <2>1, <3>1 DEF SenderStep, Next, Core, CoreNext
  <2>2. CASE HandlerStep \/ CleanerStep
    BY <2>2 DEF HandlerStep, CleanerStep, Next, App
  <2>3. CASE SenderLost \/ HandlerLost
    BY <2>3 DEF SenderLost, HandlerLost, Falls
  <2> QED
    BY <1>4, <2>1, <2>2, <2>3 DEF LoopStep
<1>5. CASE TriggerShutdown \/ Quit
  BY <1>5 DEF TriggerShutdown, Quit, PostWake, TriggerEnds, TriggerLost, Falls
<1>6. CASE StartAgain \/ (Quiescent /\ UNCHANGED endVars)
  BY <1>6 DEF StartAgain, Next
<1>7. CASE Exited \/ UNCHANGED allVars
  BY <1>7 DEF Exited, allVars
<1> QED
  BY <1>1, <1>2, <1>3, <1>4, <1>5, <1>6, <1>7 DEF ShutdownNext, Ends

\* What the steps of the end leave alone.  They close only sessions that are in
\* m_sessionMap, and put none there.
LEMMA EndsFrame ==
    ASSUME TypeOK, Falls \/ Ends
    PROVE  /\ UNCHANGED <<userVars, phase, inbox, recvQueue, job, deleted, stopped>>
           /\ sessionMap' \subseteq sessionMap
           /\ \A s \in Session : state'[s] = state[s] \/ s \in sessionMap
           /\ \A s \in Session : conn'[s] = "none" => conn[s] = "none"
<1> USE DEF netVars, sessVars
<1>1. CASE Falls
  BY <1>1 DEF Falls, Lost, Crash, endVars
<1>2. ASSUME NEW t \in Worker, AcceptFails(t) \/ WorkerReturns(t)
      PROVE  UNCHANGED <<userVars, phase, inbox, recvQueue, job, deleted, stopped, sessionMap,
                         state, conn>>
  BY <1>2 DEF AcceptFails, WorkerReturns, coreVars
<1>3. CASE Finalize \/ FinalizeEnds
  BY <1>3 DEF Finalize, FinalizeEnds
<1>4. CASE DrainStep
  <2>1. conn \in [Session -> {"none", "up", "gone", "reset"}] /\ state \in [Session -> SessionState]
    BY DEF TypeOK, CoreTypeOK
  <2> QED
    BY <1>4, <2>1 DEF DrainStep, CloseSession, CloseSocket, MapWithout
<1> QED
  BY <1>1, <1>2, <1>3, <1>4 DEF Ends, CoreEnd

\* The steps of the end keep the types.
LEMMA EndsTyped ==
    ASSUME TypeOK, Falls \/ Ends
    PROVE  TypeOK'
<1> USE DEF netVars, sessVars
<1>1. UserTypeOK' /\ phase' \in [Session -> Phase]
  BY EndsFrame DEF TypeOK, UserTypeOK, userVars
<1>2. CoreTypeOK'
  <2> USE DEF TypeOK, CoreTypeOK
  <2>1. CASE Falls
    BY <2>1 DEF Falls, Lost, Crash
  <2>2. ASSUME NEW t \in Worker, AcceptFails(t) PROVE CoreTypeOK'
    <3>1. backlog' \in Seq(Session)
      BY <2>2 DEF AcceptFails
    <3> QED
      BY <2>2, <3>1 DEF AcceptFails
  <2>3. ASSUME NEW t \in Worker, WorkerReturns(t) PROVE CoreTypeOK'
    <3>1. CASE UNCHANGED coreVars
      BY <3>1 DEF coreVars
    <3>2. CASE Discard /\ UNCHANGED <<conn, backlog, acceptBuf, inbox, sock, state, posted,
                                      sendBuf, sessionMap, deleted, job, recvQueue, fault>>
      <4>1. /\ acceptPosted' \in BOOLEAN
            /\ recv' \in [Session -> {"none", "posted", "data"}]
            /\ written' \in [Session -> Nat] /\ zero' \in [Session -> Nat]
        <5>1. CASE UNCHANGED <<recv, written, zero>>
          BY <3>2, <5>1 DEF Discard
        <5>2. ASSUME NEW s \in Session, recv' = [recv EXCEPT ![s] = "none"],
                     UNCHANGED <<acceptPosted, written, zero>>
              PROVE  recv' \in [Session -> {"none", "posted", "data"}]
          BY <5>2
        <5>3. ASSUME NEW s \in Session, written[s] > 0, written' = [written EXCEPT ![s] = @ - 1]
              PROVE  written' \in [Session -> Nat]
          BY <5>3
        <5>4. ASSUME NEW s \in Session, zero[s] > 0, zero' = [zero EXCEPT ![s] = @ - 1]
              PROVE  zero' \in [Session -> Nat]
          BY <5>4
        <5> QED
          BY <3>2, <5>1, <5>2, <5>3, <5>4 DEF Discard
      <4> QED
        BY <3>2, <4>1
    <3> QED
      BY <2>3, <3>1, <3>2 DEF WorkerReturns
  <2>4. CASE Finalize
    <3>1. conn' \in [Session -> {"none", "up", "gone", "reset"}]
      BY <2>4 DEF Finalize
    <3>2. backlog' \in Seq(Session)
      BY <2>4 DEF Finalize
    <3> QED
      BY <2>4, <3>1, <3>2 DEF Finalize
  <2>5. CASE FinalizeEnds
    BY <2>5 DEF FinalizeEnds
  <2>6. CASE DrainStep
    <3>1. CASE UNCHANGED <<conn, sock, state, recv, posted, zero, sessionMap>>
      BY <2>6, <3>1 DEF DrainStep
    <3>2. ASSUME NEW s \in sessionMap, sessionMap' = MapWithout(s), CloseSession(s)
          PROVE  CoreTypeOK'
      <4>1. /\ conn' \in [Session -> {"none", "up", "gone", "reset"}]
            /\ recv' \in [Session -> {"none", "posted", "data"}]
            /\ sock' \in [Session -> {"none", "open", "closed"}]
            /\ state' \in [Session -> SessionState]
        BY <3>2 DEF CloseSession, CloseSocket, SessionState
      <4>2. posted' \in [Session -> Nat] /\ zero' \in [Session -> Nat]
        BY <3>2 DEF CloseSession, CloseSocket
      <4> QED
        BY <2>6, <3>2, <4>1, <4>2 DEF DrainStep, MapWithout
    <3> QED
      BY <2>6, <3>1, <3>2 DEF DrainStep
  <2> QED
    BY <2>1, <2>2, <2>3, <2>4, <2>5, <2>6 DEF Ends, CoreEnd
<1> QED
  BY <1>1, <1>2 DEF TypeOK

LEMMA StopTyped ==
    ASSUME TypeOK, Stop
    PROVE  TypeOK'
<1>1. CoreTypeOK'
  BY DEF Stop, TypeOK, CoreTypeOK, netVars, sessVars
<1>2. UserTypeOK'
  BY DEF Stop, TypeOK, UserTypeOK, AllOffline
<1> QED
  BY <1>1, <1>2 DEF Stop, TypeOK

LEMMA ShutdownStepTyped ==
    ASSUME TypeOK, [ShutdownNext]_allVars
    PROVE  TypeOK'
BY StepCases, StepTyped, EndsTyped, StopTyped

\* No step of the end makes a user or loses one, and none touches the session of a
\* client that may still log in: such a session is not in m_sessionMap.
LEMMA EndsAttended ==
    ASSUME TypeOK, LoginInv, LoginFirst, RowsTrue, NeverFreed, FreedUserIsErased,
           Falls \/ Ends
    PROVE  LoginInv' /\ LoginFirst' /\ RowsTrue' /\ NeverFreed' /\ FreedUserIsErased'
<1>1. /\ UNCHANGED <<dbState, name, names, hnd, cln, phase, inbox, recvQueue, job, deleted>>
      /\ \A s \in Session : name'[s] \in {name[s], None}
      /\ \A s \in Session : inbox'[s] \in {inbox[s], None}
  BY EndsFrame DEF userVars
<1>2. LoginInv'
  BY <1>1, EndsFrame, AccountsFrame, RequestsFrame DEF LoginInv
<1>3. LoginFirst'
  <2>1. UNCHANGED Queue
    BY <1>1 DEF Queue
  <2>2. UserStays'
    BY <1>1 DEF LoginFirst, UserStays
  <2>3. \A s \in Session : New(s) => New(s)'
    BY <1>1, EndsFrame DEF New
  <2> QED
    BY <1>1, <2>1, <2>2, <2>3, LoginFirstFrame
<1>4. RowsTrue'
  BY <1>1, RowsFrame
<1>5. NeverFreed'
  <2>1. UNCHANGED Queue
    BY <1>1 DEF Queue
  <2> QED
    BY <1>1, <2>1 DEF NeverFreed, LoggingIn, Past
<1>6. FreedUserIsErased'
  BY <1>1 DEF FreedUserIsErased, users
<1> QED
  BY <1>2, <1>3, <1>4, <1>5, <1>6

LEMMA StopAttended ==
    ASSUME Attended, Stop
    PROVE  Attended'
<1>1. stopped' /\ users' = {}
  BY DEF Stop, users
<1>2. ~stopped /\ \A a \in Existing : a \in Account /\ dbState[a] # "ABSENT"
  BY OptionAssumption DEF Stop, Attended, RowsTrue
<1>3. \A a \in Existing : dbState'[a] # "ABSENT"
  BY <1>2 DEF Stop, AllOffline
<1> QED
  BY <1>1, <1>3 DEF Attended

\* After Stop the loops have returned and nobody else writes the tables.
LEMMA StoppedFrame ==
    ASSUME EndInv, stopped, [ShutdownNext]_allVars, ~StartAgain
    PROVE  UNCHANGED <<stopped, name, dbState>>
<1> USE DEF vars, userVars, endVars, allVars
<1>1. CASE Outside
  BY <1>1 DEF Outside, Connect, Send, Disconnect, Transmit
<1>2. CASE Serve
  BY <1>2 DEF Serve
<1>3. ASSUME NEW t \in Worker, WorkerStep(t) \/ WorkerSees(t) \/ AcceptFails(t)
      PROVE  UNCHANGED <<stopped, name, dbState>>
  BY <1>3 DEF WorkerStep, WorkerContinues, WorkerReturns, WorkerUnregisters, WorkerLost,
              WorkerSees, AcceptFails
<1>4. CASE SenderStep \/ SenderLost \/ HandlerLost
  BY <1>4 DEF SenderStep, SendTask, SendFreed, SenderLost, HandlerLost, Lost, Crash, Round
<1>5. CASE HandlerStep \/ CleanerStep
  <2>1. Between("handler") /\ Between("cleaner")
    BY DEF EndInv, Settled, Between
  <2> QED
    BY <1>5, <2>1, RoundBegins DEF HandlerStep, CleanerStep
<1>6. CASE TriggerShutdown \/ Quit \/ CoreEnd
  BY <1>6 DEF TriggerShutdown, Quit, PostWake, TriggerEnds, TriggerLost, Lost, Crash,
              CoreEnd, Finalize, DrainStep, FinalizeEnds
<1>7. CASE Stop \/ (Quiescent /\ UNCHANGED endVars) \/ Exited \/ UNCHANGED allVars
  BY <1>7 DEF Stop, Quiescent, Exited
<1> QED
  BY <1>1, <1>2, <1>3, <1>4, <1>5, <1>6, <1>7 DEF ShutdownNext, LoopStep

\* Stop returns by Stop alone, and only Finalize takes the ServerCore down.
LEMMA StopsOnce ==
    ASSUME [ShutdownNext]_allVars, ~stopped, ~Stop
    PROVE  ~stopped'
BY DEF ShutdownNext, Outside, Serve, WorkerStep, WorkerContinues, WorkerReturns,
   WorkerUnregisters, WorkerLost, WorkerSees, AcceptFails, LoopStep, SenderStep,
   SenderLost, HandlerStep, HandlerLost, CleanerStep, Round, Lost, TriggerShutdown,
   Quit, PostWake, TriggerEnds, TriggerLost, CoreEnd, Finalize, DrainStep,
   FinalizeEnds, StartAgain, Exited, endVars, allVars

LEMMA StaysUp ==
    ASSUME [ShutdownNext]_allVars, core = "up", ~Finalize
    PROVE  core' = "up"
BY DEF ShutdownNext, Outside, Serve, WorkerStep, WorkerContinues, WorkerReturns,
   WorkerUnregisters, WorkerLost, WorkerSees, AcceptFails, LoopStep, SenderStep,
   SenderLost, HandlerStep, HandlerLost, CleanerStep, Round, Lost, TriggerShutdown,
   Quit, PostWake, TriggerEnds, TriggerLost, CoreEnd, DrainStep, FinalizeEnds, Stop,
   StartAgain, Exited, endVars, allVars

\* A process that starts has no users and finds every row OFFLINE.
LEMMA StartAttended ==
    ASSUME TypeOK, Attended, StartAgain
    PROVE  Attended'
<1>1. Restart /\ ~stopped'
  BY DEF StartAgain
<1>2. \A a \in Existing : a \in Account /\ dbState[a] # "ABSENT"
  BY OptionAssumption DEF Attended, RowsTrue
<1>3. RowsTrue'
  <2>1. \A a \in Existing : dbState'[a] = "OFFLINE"
    BY <1>1, <1>2 DEF Restart, UserRestart, AllOffline
  <2>2. cln'.pc # "erase"
    BY <1>1 DEF Restart, UserRestart, Asleep
  <2> QED
    BY <2>1, <2>2 DEF RowsTrue, InUse
<1>4. NeverFreed' /\ FreedUserIsErased'
  BY <1>1 DEF Restart, CoreRestart, NeverFreed, FreedUserIsErased
<1> QED
  BY <1>1, <1>3, <1>4, RestartKeepsLogin, RestartFirst DEF Attended

LEMMA StepAttended ==
    ASSUME TypeOK, EndInv, Attended, [ShutdownNext]_allVars
    PROVE  Attended'
<1>1. CASE StartAgain
  BY <1>1, StartAttended
<1>2. CASE stopped /\ ~StartAgain
  BY <1>2, StoppedFrame DEF Attended, users
<1>3. CASE ~stopped /\ Stop
  BY <1>3, StopAttended
<1>4. CASE ~stopped /\ ~Stop /\ ~StartAgain
  <2>1. ~stopped'
    BY <1>4, StopsOnce
  <2>2. LoginInv /\ LoginFirst /\ RowsTrue /\ NeverFreed /\ FreedUserIsErased
    BY <1>4 DEF Attended
  <2>3. CASE [Next]_vars
    BY <2>1, <2>2, <2>3, StepKeepsLogin, StepFirst, StepRows, StepNeverFreed, StepUserErased
    DEF Attended
  <2>4. CASE Falls \/ Ends
    BY <2>1, <2>2, <2>4, EndsAttended DEF Attended
  <2> QED
    BY <1>4, <2>3, <2>4, StepCases
<1> QED
  BY <1>1, <1>2, <1>3, <1>4

LEMMA AttendedHolds == ShutdownSpec => [](TypeOK /\ Attended)
<1>1. ShutdownInit => TypeOK
  BY InitTyped DEF ShutdownInit
<1>2. ShutdownInit => Attended
  <2>1. Init => NeverFreed /\ FreedUserIsErased
    BY DEF Init, CoreInit, NeverFreed, FreedUserIsErased
  <2> QED
    BY <2>1, StartAsSpecified DEF ShutdownInit, EndInit, Attended
<1>3. TypeOK /\ [ShutdownNext]_allVars => TypeOK'
  BY ShutdownStepTyped
<1>4. TypeOK /\ EndInv /\ Attended /\ [ShutdownNext]_allVars => Attended'
  BY StepAttended
<1> QED
  BY <1>1, <1>2, <1>3, <1>4, EndInvHolds, PTL DEF ShutdownSpec

\* The types of the server's variables survive its shutdown, whatever the threads are
\* in the middle of when the key is pressed.
THEOREM TypesToTheEnd == ShutdownSpec => []TypeOK
BY AttendedHolds, PTL

\* SingleLogin: no account is logged in on two connections, also while the server is
\* shut down, at any moment of logins, logouts and reapings, and started again.
THEOREM OneUserToTheEnd == ShutdownSpec => []SingleLogin
<1>1. TypeOK /\ Attended => SingleLogin
  <2>1. TypeOK /\ LoginInv => SingleLogin
    BY LoginTypes DEF LoginInv, NamesIndex, SingleLogin, users
  <2> QED
    BY <2>1 DEF Attended, SingleLogin
<1> QED
  BY <1>1, AttendedHolds, PTL

\* StateColumnTruthful: column State says of the accounts the server found whether
\* they have a User, also while it is shut down, and after.
THEOREM ColumnTruthfulToTheEnd == ShutdownSpec => []StateColumnTruthful
<1>1. Attended /\ EndInv => StateColumnTruthful
  <2>1. LoginInv /\ RowsTrue => StateColumnTruthful
    BY AccountAssumption, OptionAssumption
    DEF LoginInv, RowKnown, RowsTrue, StateColumnTruthful, users
  <2>2. stopped /\ Attended /\ EndInv => StateColumnTruthful
    BY OptionAssumption DEF Attended, EndInv, Settled, StateColumnTruthful
  <2> QED
    BY <2>1, <2>2 DEF Attended
<1> QED
  BY <1>1, AttendedHolds, EndInvHolds, PTL

\* FreedUserIsErased: whatever the threads are in the middle of when the key is
\* pressed, the cleaner's last round leaves no user with a Session it deleted.
THEOREM FreedUsersErasedToTheEnd == ShutdownSpec => []FreedUserIsErased
<1>1. Attended => FreedUserIsErased
  BY DEF Attended, FreedUserIsErased
<1> QED
  BY <1>1, AttendedHolds, PTL

-----------------------------------------------------------------------------
(* The directory of accounts until Finalize.  While the ServerCore is up a *)
(* session that ends has a client that left or asked to (Parting), as in   *)
(* OutgameServer: neither the completions that are thrown away nor the     *)
(* workers that return close one.  From Finalize on every client that had  *)
(* connected is given up, so nothing need be known of the sessions.        *)

Unmet  == \A s \in Session : conn[s] = "none" => phase[s] = "idle"
Parted == Unmet /\ (core = "up" => ~stopped /\ Parting)

\* A worker, or the send thread, connects nobody.
LEMMA CoreConnects ==
    ASSUME TypeOK, CoreNext
    PROVE  \A s \in Session : conn'[s] = "none" <=> conn[s] = "none"
<1>1. CASE \E t \in Thread : Close(t)
  BY <1>1, LoginTypes DEF Close, CloseSession, CloseSocket
<1>2. CASE ~\E t \in Thread : Close(t)
  BY <1>2 DEF CoreNext, Kernel, DataArrives, ReceiveEnds, SendFails, Accept, AcceptEmpty,
     Completion, Receive, ZeroBytes, HandleWriteCompletion, Continue, PostReceive,
     RegisterSession, UnregisterSession, UseAfterDelete, netVars
<1> QED
  BY <1>1, <1>2

\* Once Finalize has begun nobody connects any more.
LEMMA LateStep ==
    ASSUME TypeOK, [ShutdownNext]_allVars, core # "up", ~StartAgain
    PROVE  /\ core' # "up"
           /\ \A s \in Session : conn'[s] = "none" <=> conn[s] = "none"
           /\ \A s \in Session : conn[s] = "none" => phase'[s] = phase[s]
<1> DEFINE Late == /\ core' # "up"
                   /\ \A s \in Session : conn'[s] = "none" <=> conn[s] = "none"
                   /\ \A s \in Session : conn[s] = "none" => phase'[s] = phase[s]
<1> USE DEF netVars, endVars
<1>0. /\ conn \in [Session -> {"none", "up", "gone", "reset"}]
      /\ phase \in [Session -> Phase]
  BY LoginTypes
<1>1. ASSUME CoreNext, UNCHANGED <<phase, core>> PROVE Late
  BY <1>1, CoreConnects
<1>2. ASSUME UNCHANGED <<conn, phase, core>> PROVE Late
  BY <1>2
<1>3. CASE Outside
  <2>1. UNCHANGED core
    BY <1>3 DEF Outside
  <2>2. ASSUME NEW c \in Session, Send(c) \/ Disconnect(c) \/ Transmit(c) PROVE Late
    BY <1>0, <2>1, <2>2 DEF Send, Disconnect, Transmit, SendCompletes
  <2>3. ASSUME NEW c \in Session, Kernel(c), UNCHANGED phase PROVE Late
    BY <1>1, <2>1, <2>3 DEF CoreNext
  <2> QED
    BY <1>3, <2>2, <2>3 DEF Outside
<1>4. CASE Serve
  BY <1>1, <1>4 DEF Serve, CoreNext
<1>5. ASSUME NEW t \in Worker, WorkerStep(t) \/ WorkerSees(t) \/ AcceptFails(t)
      PROVE  Late
  <2>1. CASE WorkerContinues(t) \/ WorkerLost(t)
    <3>1. CoreNext
      BY <2>1 DEF WorkerContinues, WorkerLost, CoreNext, Thread
    <3> QED
      BY <1>1, <2>1, <3>1 DEF WorkerContinues, WorkerLost
  <2>2. CASE WorkerUnregisters(t)
    BY <1>2, <2>2 DEF WorkerUnregisters, ZeroBytes
  <2>3. CASE WorkerReturns(t) \/ WorkerSees(t) \/ AcceptFails(t)
    BY <1>2, <2>3 DEF WorkerReturns, WorkerSees, AcceptFails, vars, coreVars
  <2> QED
    BY <1>5, <2>1, <2>2, <2>3 DEF WorkerStep
<1>6. CASE SenderStep
  <2>1. UNCHANGED core
    BY <1>6 DEF SenderStep, Round
  <2>2. CASE SendTask \/ SendFreed
    BY <1>2, <2>1, <2>2 DEF SendTask, PostSend, SendFreed, Crash
  <2>3. CASE Continue(Sender) /\ UNCHANGED phase
    BY <1>1, <2>1, <2>3 DEF CoreNext, Thread
  <2> QED
    BY <1>6, <2>2, <2>3 DEF SenderStep
<1>7. CASE HandlerStep \/ CleanerStep
  BY <1>2, <1>7, AppPackets DEF HandlerStep, CleanerStep, App, Round
<1>8. CASE SenderLost \/ HandlerLost \/ TriggerLost
  BY <1>2, <1>8 DEF SenderLost, HandlerLost, TriggerLost, Lost, Crash
<1>9. CASE TriggerShutdown \/ PostWake \/ TriggerEnds
  BY <1>2, <1>9 DEF TriggerShutdown, PostWake, TriggerEnds, vars, coreVars
<1>10. CASE CoreEnd
  BY <1>0, <1>10 DEF CoreEnd, Finalize, DrainStep, FinalizeEnds, CloseSession, CloseSocket
<1>11. CASE Stop \/ (Quiescent /\ UNCHANGED endVars) \/ Exited \/ UNCHANGED allVars
  BY <1>2, <1>11 DEF Stop, Quiescent, Exited, allVars, vars, coreVars
<1> QED
  BY <1>3, <1>4, <1>5, <1>6, <1>7, <1>8, <1>9, <1>10, <1>11 DEF ShutdownNext, LoopStep, Quit

\* As long as the ServerCore is up no session is given up that was not.
LEMMA FallsParts ==
    ASSUME TypeOK, Parting, Falls \/ \E t \in Worker : AcceptFails(t) \/ WorkerReturns(t)
    PROVE  Parting'
<1>1. UNCHANGED <<userVars, phase, conn, inbox, sock, state, job, Queue>>
  <2>1. UNCHANGED <<userVars, phase, conn, inbox, sock, state, job, recvQueue>>
    BY DEF Falls, Lost, Crash, AcceptFails, WorkerReturns, coreVars, netVars, sessVars
  <2> QED
    BY <2>1 DEF Queue
<1>2. \A s \in Session : Excused(s) => Excused(s)'
  BY <1>1 DEF Excused, Departed, Barred, Past, userVars
<1>3. \A s \in Session : zero'[s] > 0 => zero[s] > 0
  <2>1. UNCHANGED zero \/ \E r \in Session : zero[r] > 0 /\ zero' = [zero EXCEPT ![r] = @ - 1]
    BY DEF Falls, Lost, Crash, AcceptFails, WorkerReturns, Discard, coreVars, sessVars
  <2>2. zero \in [Session -> Nat]
    BY DEF TypeOK, CoreTypeOK
  <2> QED
    BY <2>1, <2>2
<1>4. \A s \in Session : Ending(s)' => Ending(s)
  BY <1>1, <1>3 DEF Ending, Shut, Closing, Asked, Found, userVars
<1> QED
  BY <1>2, <1>4, PartingStep

LEMMA StepParted ==
    ASSUME TypeOK, Attended, Attended', Parted, [ShutdownNext]_allVars
    PROVE  Parted'
<1>1. CASE StartAgain
  <2>1. Parting' /\ LoginInv'
    BY <1>1, RestartParts, RestartKeepsLogin DEF StartAgain
  <2> QED
    BY <1>1, <2>1 DEF StartAgain, Parted, Unmet, LoginInv, OneLogin
<1>2. CASE core # "up" /\ ~StartAgain
  BY <1>2, LateStep DEF Parted, Unmet
<1>3. CASE core = "up" /\ ~StartAgain
  <2>1. /\ ~stopped /\ ~Stop /\ LoginInv /\ Parting
    BY <1>3 DEF Parted, Attended, Stop, Joined
  <2>2. ~stopped'
    BY <1>3, <2>1, StopsOnce
  <2>3. Unmet'
    BY <2>2 DEF Attended, LoginInv, OneLogin, Unmet
  <2>4. CASE [Next]_vars
    BY <2>1, <2>2, <2>3, <2>4, StepParts DEF Parted
  <2>5. CASE Falls \/ \E t \in Worker : AcceptFails(t) \/ WorkerReturns(t)
    BY <2>1, <2>2, <2>3, <2>5, FallsParts DEF Parted
  <2>6. CASE CoreEnd
    BY <1>3, <2>3, <2>6 DEF CoreEnd, Finalize, DrainStep, FinalizeEnds, Parted
  <2> QED
    BY <2>1, <2>4, <2>5, <2>6, StepCases DEF Ends
<1> QED
  BY <1>1, <1>2, <1>3

-----------------------------------------------------------------------------
(* How each step looks to a user of the directory.                         *)

given == {s \in Session : \/ conn[s] = "gone"
                          \/ phase[s] \in {"leaving", "finished"}
                          \/ core # "up" /\ conn[s] # "none"}
met   == {s \in Session : conn[s] # "none"}

ServiceStep == [Service!Next]_<<name, given>>

LEMMA GivenIs ==
    /\ core = "up" => given = left
    /\ Unmet => given \subseteq met /\ (core # "up" => given = met)
BY DEF given, left, met, Unmet

LEMMA GivenWillBe == /\ core' = "up" => given' = left'
                     /\ Unmet' => given' \subseteq met' /\ (core' # "up" => given' = met')
BY DEF given, left, met, Unmet

\* Whoever has an account has connected.
LEMMA UsersMet ==
    ASSUME LoginInv
    PROVE  \A s \in Session : name[s] # None => s \in met
BY DEF LoginInv, OneLogin, met

\* While the ServerCore is up the two directories are the same.
LEMMA UpService ==
    ASSUME DirectoryStep, core = "up", core' = "up"
    PROVE  ServiceStep
<1>1. given = left /\ given' = left'
  BY GivenIs, GivenWillBe
<1>2. CASE UNCHANGED <<name, left>>
  BY <1>1, <1>2 DEF ServiceStep
<1>3. ASSUME NEW s \in Session, Directory!Enter(s) PROVE Service!Enter(s)
  BY <1>1, <1>3 DEF Directory!Enter, Service!Enter, left, given
<1>4. ASSUME NEW s \in Session, Directory!Release(s) PROVE Service!Release(s)
  BY <1>1, <1>4 DEF Directory!Release, Service!Release, left, given
<1>5. ASSUME NEW some \in SUBSET Session, Directory!Depart(some) PROVE Service!Depart(some)
  BY <1>1, <1>5 DEF Directory!Depart, Service!Depart, left, given
<1>6. ASSUME Directory!Collapse PROVE Service!Collapse
  BY <1>1, <1>6 DEF Directory!Collapse, Service!Collapse, left, given
<1> QED
  BY <1>2, <1>3, <1>4, <1>5, <1>6
  DEF DirectoryStep, Directory!Next, ServiceStep, Service!Next

\* All users go, and every client that had connected is given up.
LEMMA CollapseService ==
    ASSUME LoginInv, name' = [s \in Session |-> None], given \cup met \subseteq given'
    PROVE  ServiceStep
<1>1. given \cup {s \in Session : name[s] # None} \subseteq given'
  BY UsersMet
<1>2. given' \subseteq Session
  BY DEF given
<1>3. Service!Collapse
  BY <1>1, <1>2 DEF Service!Collapse, given
<1> QED
  BY <1>3 DEF ServiceStep, Service!Next

\* Once every client is given up any user may go; a login still finds its account free.
LEMMA LateService ==
    ASSUME TypeOK, LoginInv, [Next]_vars, given = met, given' = given
    PROVE  ServiceStep
<1>0. /\ name \in [Session -> Account \cup {None}] /\ None \notin Account \cup Session
      /\ hnd = HandlerIdle \/ hnd \in Busy
      /\ cln.cur # None <=> cln.pc = "erase"
  BY LoginTypes
<1>1. CASE CreateActiveUser
  <2>1. hnd.pc = "create" /\ cln.cur = None
    BY <1>0, <1>1 DEF CreateActiveUser, LockFree
  <2>2. hnd.s \in Session /\ hnd.who \in Account
    BY <1>0, <2>1 DEF HandlerIdle, Busy
  <2>3. name[hnd.s] = None /\ \A s \in Session : name[s] # hnd.who
    BY <1>0, <2>1 DEF LoginInv, FreeToCreate
  <2>4. name' = [name EXCEPT ![hnd.s] = hnd.who]
    BY <1>1, <2>3 DEF CreateActiveUser, InsertUser
  <2>5. Service!Enter(hnd.s)
    BY <2>2, <2>3, <2>4 DEF Service!Enter, given
  <2> QED
    BY <2>2, <2>5 DEF ServiceStep, Service!Next
<1>2. CASE Restart
  BY <1>2, CollapseService DEF Restart, UserRestart
<1>3. ASSUME NEW f, name' = [name EXCEPT ![f] = None] PROVE ServiceStep
  <2>1. CASE f \in Session /\ name[f] # None
    <3>1. f \in given
      BY <2>1, UsersMet
    <3>2. Service!Release(f)
      BY <1>3, <3>1 DEF Service!Release, given
    <3> QED
      BY <2>1, <3>2 DEF ServiceStep, Service!Next
  <2>2. CASE ~(f \in Session /\ name[f] # None)
    <3>1. UNCHANGED name
      BY <1>0, <1>3, <2>2
    <3> QED
      BY <3>1 DEF ServiceStep
  <2> QED
    BY <2>1, <2>2
<1>4. CASE UNCHANGED name
  BY <1>4 DEF ServiceStep
<1> QED
  BY <1>1, <1>2, <1>3, <1>4, NameGoes

LEMMA StepService ==
    ASSUME TypeOK, EndInv, Attended, Attended', Parted, Parted', [ShutdownNext]_allVars
    PROVE  ServiceStep
<1>1. CASE StartAgain
  <2>1. name' = [s \in Session |-> None] /\ core' = "up"
    BY <1>1 DEF StartAgain, Restart, UserRestart
  <2>2. met \subseteq given'
    BY <1>1 DEF StartAgain, Restart, met, given
  <2>3. given \subseteq met
    BY GivenIs DEF Parted
  <2>4. CASE stopped
    <3>1. name = [s \in Session |-> name[s]]
      BY DEF TypeOK, UserTypeOK
    <3>2. \A s \in Session : name[s] = None
      BY <2>4 DEF Attended, users
    <3>3. Service!Collapse
      <4>1. given \cup {s \in Session : name[s] # None} \subseteq given' /\ given' \subseteq Session
        BY <2>2, <2>3, <3>2 DEF given
      <4> QED
        BY <2>1, <4>1 DEF Service!Collapse, given
    <3> QED
      BY <3>3 DEF ServiceStep, Service!Next
  <2>5. CASE ~stopped
    BY <2>1, <2>2, <2>3, <2>5, CollapseService DEF Attended
  <2> QED
    BY <2>4, <2>5
<1>2. CASE core # "up" /\ ~StartAgain
  <2>1. given = met /\ given' = met' /\ met' = met
    BY <1>2, LateStep, GivenIs, GivenWillBe DEF Parted, met
  <2>2. CASE stopped
    <3>1. UNCHANGED name
      BY <1>2, <2>2, StoppedFrame
    <3> QED
      BY <2>1, <3>1 DEF ServiceStep
  <2>3. CASE ~stopped
    <3>1. LoginInv
      BY <2>3 DEF Attended
    <3>2. CASE [Next]_vars
      BY <2>1, <3>1, <3>2, LateService
    <3>3. CASE Falls \/ Ends
      BY <2>1, <3>3, EndsFrame DEF ServiceStep, userVars
    <3>4. CASE Stop
      BY <2>1, <3>1, <3>4, CollapseService DEF Stop
    <3> QED
      BY <3>2, <3>3, <3>4, StepCases
  <2> QED
    BY <2>2, <2>3
<1>3. CASE core = "up" /\ ~StartAgain
  <2>1. ~stopped /\ ~Stop /\ LoginInv /\ Parting
    BY <1>3 DEF Parted, Attended, Stop, Joined
  <2>2. CASE Finalize
    <3>1. UNCHANGED <<name, phase>> /\ core' # "up" /\ met' = met
      BY <2>2 DEF Finalize, userVars, met
    <3>2. given' = given \cup met
      BY <3>1, GivenIs, GivenWillBe DEF Parted
    <3>3. \E some \in SUBSET Session : Service!Depart(some)
      <4>1. met \in SUBSET Session
        BY DEF met
      <4>2. \E some \in SUBSET Session : given' = given \cup some /\ UNCHANGED name
        BY <3>1, <3>2, <4>1
      <4> QED
        BY <4>2 DEF Service!Depart, given
    <3>4. Service!Next
      BY <3>3 DEF Service!Next
    <3> QED
      BY <3>4 DEF ServiceStep
  <2>3. CASE ~Finalize /\ [Next]_vars /\ core' = "up"
    BY <1>3, <2>1, <2>3, StepDirectory, UpService
  <2>4. CASE Falls \/ \E t \in Worker : AcceptFails(t) \/ WorkerReturns(t)
    BY <2>4 DEF Falls, Lost, Crash, AcceptFails, WorkerReturns, coreVars, netVars, userVars,
                endVars, ServiceStep, given
  <2>5. CASE DrainStep \/ FinalizeEnds
    BY <1>3, <2>5 DEF DrainStep, FinalizeEnds
  <2>6. Finalize \/ core' = "up"
    BY <1>3, <2>1, StaysUp
  <2> QED
    BY <2>1, <2>2, <2>3, <2>4, <2>5, <2>6, StepCases DEF Ends, CoreEnd
<1> QED
  BY <1>1, <1>2, <1>3

\* ImplementsService: a server that is told to stop, at any moment, is the directory of
\* accounts as before until Finalize begins: the key takes no account from a client that
\* stays, and up to the end no account goes to two connections.
THEOREM DirectoryToTheEnd == ShutdownSpec => ImplementsService
<1>1. ShutdownInit => Service!Init
  BY DEF ShutdownInit, EndInit, Init, CoreInit, UserInit, Service!Init
<1>2. ShutdownInit => Parted
  BY StartParts DEF ShutdownInit, EndInit, Init, CoreInit, Parted, Unmet
<1>3. TypeOK /\ Attended /\ Attended' /\ Parted /\ [ShutdownNext]_allVars => Parted'
  BY StepParted
<1>4. /\ TypeOK /\ EndInv /\ Attended /\ Attended' /\ Parted /\ Parted'
      /\ [ShutdownNext]_allVars
      => ServiceStep
  BY StepService
<1>5. ServiceStep => [Service!Next]_(Service!vars)
  BY DEF ServiceStep, Service!vars, given
<1> QED
  BY <1>1, <1>2, <1>3, <1>4, <1>5, AttendedHolds, EndInvHolds, PTL
  DEF ShutdownSpec, ImplementsService, Service!Spec
=============================================================================
