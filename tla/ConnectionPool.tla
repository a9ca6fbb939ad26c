---------------------------- MODULE ConnectionPool ----------------------------
(***************************************************************************)
(* The database connections: IOCPServerLibrary/DBConnectionPool.cpp with   *)
(* the two threads that use it while the server runs, the packet handler's *)
(* (the requests of UserManager.cpp) and the cleaner's.  A request is a    *)
(* sequence of uses of a connection, each named for the function that gets *)
(* it; none gets a second one while it holds one.                          *)
(***************************************************************************)
EXTENDS Integers, Sequences, FiniteSets

CONSTANTS
    Handler, Cleaner,   \* the threads
    N,                  \* connections, tried in the order 1..N
    None                \* no thread

Caller == {Handler, Cleaner}

ASSUME CallerAssumption == Handler # Cleaner /\ {None, "free", "lost"} \cap Caller = {}
ASSUME NAssumption      == N \in Nat \ {0}

VARIABLES
    usable,     \* usable[c]: m_bUsable
    todo,       \* todo[t]: uses that t's request still makes, the current one first
    next,       \* next[t]: the connection GetConnection tries next, 0 outside it
    con,        \* con[t]: the connection t has, 0 for none
    lock        \* the owner of m_userMapLock

vars == <<usable, todo, next, con, lock>>

Use == {"AuthenticateUser", "CreateActiveUser", "IsAvailableID", "HandleJoinRequest",
        "FindUser", "LogoutUser", "UpdateState"}

Plan(t) ==
    IF t = Cleaner THEN {<<"UpdateState">>}
    ELSE {<<"AuthenticateUser", "CreateActiveUser", "UpdateState">>,
          <<"LogoutUser", "UpdateState">>,
          <<"IsAvailableID", "HandleJoinRequest">>,
          <<"FindUser">>}

\* Requests that hold m_userMapLock from end to end.
Locked(t, plan) == t = Cleaner \/ Head(plan) = "LogoutUser"

\* Uses after which the request may be refused; uses that return early, with the
\* connection, when a SELECT fails; uses that assert that their UPDATE succeeds.
MayRefuse == {"AuthenticateUser", "IsAvailableID"}
MayLeak   == {"CreateActiveUser", "FindUser"}
MayAssert == {"CreateActiveUser", "LogoutUser", "UpdateState"}

PoolTypeOK ==
    /\ usable \in [1..N -> BOOLEAN]
    /\ todo \in [Caller -> Seq(Use)]
    /\ next \in [Caller -> 0..N]
    /\ con \in [Caller -> 0..N]
    /\ lock \in Caller \cup {None}

Init ==
    /\ usable = [c \in 1..N |-> TRUE]
    /\ todo = [t \in Caller |-> <<>>]
    /\ next = [t \in Caller |-> 0]
    /\ con = [t \in Caller |-> 0]
    /\ lock = None

-----------------------------------------------------------------------------

\* A request is handled, or the cleaner has a user to reap.
Begin(t) ==
    /\ todo[t] = <<>>
    /\ \E plan \in Plan(t) :
         /\ todo' = [todo EXCEPT ![t] = plan]
         /\ IF Locked(t, plan) THEN lock = None /\ lock' = t ELSE UNCHANGED lock
    /\ UNCHANGED <<usable, next, con>>

\* GetConnection is called; CreateActiveUser has been inside the lock just before.
GetConnection(t) ==
    /\ todo[t] # <<>> /\ next[t] = 0 /\ con[t] = 0
    /\ Head(todo[t]) = "CreateActiveUser" => lock = None
    /\ next' = [next EXCEPT ![t] = 1]
    /\ UNCHANGED <<usable, todo, con, lock>>

\* Faulty variant: the flag is stored without being compared.
Exchange_storeOnly(c) == TRUE

\* m_bUsable.compare_exchange_strong(true, false) succeeds.
Exchange(c) == usable[c]

\* Faulty variants: the end of the vector is not noticed; one connection is tried
\* again and again.
Advance_noWrap(c) == c + 1
Advance_stays(c)  == c

\* The connection tried after c: behind the last one the loop starts again.
Advance(c) == (c % N) + 1

\* One round of GetConnection's loop.
TryConnection(t) ==
    /\ next[t] # 0
    /\ IF Exchange(next[t])
         THEN /\ usable' = [usable EXCEPT ![next[t]] = FALSE]
              /\ con' = [con EXCEPT ![t] = next[t]]
              /\ next' = [next EXCEPT ![t] = 0]
         ELSE /\ next' = [next EXCEPT ![t] = Advance(@)]
              /\ UNCHANGED <<usable, con>>
    /\ UNCHANGED <<todo, lock>>

\* What t's request goes on with; the lock is released at its end.
GoOn(t, rest) ==
    /\ todo' = [todo EXCEPT ![t] = rest]
    /\ lock' = IF rest = <<>> /\ lock = t THEN None ELSE lock

\* m_bUsable.store(true).
Store(c) == [usable EXCEPT ![c] = TRUE]

\* ReturnConnection, after queries that succeeded, or failed where that is handled.
ReturnConnection(t) ==
    /\ con[t] # 0
    /\ usable' = Store(con[t])
    /\ con' = [con EXCEPT ![t] = 0]
    /\ \/ GoOn(t, Tail(todo[t]))
       \/ Head(todo[t]) \in MayRefuse /\ GoOn(t, <<>>)
    /\ UNCHANGED next

\* A SELECT fails: early return without ReturnConnection.
ReturnEarly(t) ==
    /\ con[t] # 0 /\ Head(todo[t]) \in MayLeak
    /\ con' = [con EXCEPT ![t] = 0]
    /\ GoOn(t, <<>>)
    /\ UNCHANGED <<usable, next>>

\* An UPDATE fails: ASSERT_CRASH; the next process connects anew.
Crash ==
    /\ \E t \in Caller : con[t] # 0 /\ Head(todo[t]) \in MayAssert
    /\ usable' = [c \in 1..N |-> TRUE]
    /\ todo' = [t \in Caller |-> <<>>]
    /\ next' = [t \in Caller |-> 0]
    /\ con' = [t \in Caller |-> 0]
    /\ lock' = None

Continue(t) == GetConnection(t) \/ TryConnection(t) \/ ReturnConnection(t) \/ ReturnEarly(t)

Next == (\E t \in Caller : Begin(t) \/ Continue(t)) \/ Crash

Spec     == Init /\ [][Next]_vars
\* A thread that has something to do is scheduled.
FairSpec == Spec /\ \A t \in Caller : WF_vars(Continue(t))

-----------------------------------------------------------------------------

\* Connections that nobody has and nobody can get.
Lost == {c \in 1..N : ~usable[c] /\ \A t \in Caller : con[t] # c}

\* Two threads never use the same connection, whose one statement they would
\* rebind under each other, nor does a thread use one that can be taken.
Exclusive ==
    \A t \in Caller : con[t] # 0 =>
        /\ ~usable[con[t]]
        /\ \A u \in Caller : con[u] = con[t] => u = t

-----------------------------------------------------------------------------
(* Refinement: seen from outside, every connection has one holder.         *)

\* The thread that has c; c is free while its flag is set, and lost when it is not
\* and no thread has it.
HolderOf(c) ==
    IF usable[c] THEN "free"
    ELSE IF \E t \in Caller : con[t] = c THEN CHOOSE t \in Caller : con[t] = c
    ELSE "lost"

Holders == INSTANCE ConnectionHolders WITH
               Connection <- 1..N, Free <- "free", Lost <- "lost",
               holder <- [c \in 1..N |-> HolderOf(c)]

\* The threads look at flags one at a time, in a loop that others overtake; what
\* comes of it is that a thread without a connection gets a free one, and gives
\* back, or loses, none but its own.
ImplementsHolders == Holders!Spec

-----------------------------------------------------------------------------

\* GetConnection returns although it looks at one connection at a time and others
\* come and go behind its back, as long as there is a connection for each thread.
Served ==
    \A t \in Caller :
        next[t] # 0 ~> next[t] = 0 \/ Cardinality(Lost) > N - Cardinality(Caller)

\* m_userMapLock, held while its owner waits for connections, is released, and the
\* two waits never close a cycle, as long as there is a connection for each thread.
LockReleased ==
    \A t \in Caller :
        lock = t ~> lock # t \/ Cardinality(Lost) > N - Cardinality(Caller)

\* DBConnectionPool.cpp:46, "always returns a valid connection".
EveryCallReturns == \A t \in Caller : next[t] # 0 ~> next[t] = 0
=============================================================================
