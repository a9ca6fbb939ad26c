------------------------- MODULE ConnectionPoolProofs -------------------------
(***************************************************************************)
(* For any number of connections: no two threads use the same connection   *)
(* of the pool.  The invariant needs, besides Exclusive itself, only that  *)
(* flags are Booleans and that a thread looks at existing connections.     *)
(* The types need that a thread uses the pool only inside a request.       *)
(***************************************************************************)
EXTENDS ConnectionPool, TLAPS

Inv ==
    /\ usable \in [1..N -> BOOLEAN]
    /\ next \in [Caller -> 0..N]
    /\ con \in [Caller -> 0..N]
    /\ Exclusive

LEMMA InvInit == Init => Inv
BY NAssumption DEF Init, Inv, Exclusive

\* The connection tried after an existing connection exists.
LEMMA AdvanceTyped == \A c \in 1..N : Advance(c) \in 1..N
BY NAssumption DEF Advance

\* Begin changes nothing the invariant reads, GetConnection only where to look.
LEMMA InvStart ==
    ASSUME Inv, NEW t \in Caller, Begin(t) \/ GetConnection(t)
    PROVE  Inv'
<1>1. CASE Begin(t)
  BY <1>1 DEF Begin, Inv, Exclusive
<1>2. CASE GetConnection(t)
  BY <1>2, NAssumption DEF GetConnection, Inv, Exclusive
<1>3. QED BY <1>1, <1>2

\* The connection a thread takes was usable, so nobody had it.
LEMMA InvTry ==
    ASSUME Inv, NEW t \in Caller, TryConnection(t)
    PROVE  Inv'
<1>1. next[t] \in 1..N
  BY NAssumption DEF Inv, TryConnection
<1>2. CASE Exchange(next[t])
  <2>1. usable[next[t]] = TRUE
    BY <1>1, <1>2 DEF Exchange, Inv
  <2>2. \A u \in Caller : con[u] # next[t]
    BY <1>1, <2>1 DEF Inv, Exclusive
  <2>3. /\ usable' = [usable EXCEPT ![next[t]] = FALSE]
        /\ con' = [con EXCEPT ![t] = next[t]]
        /\ next' = [next EXCEPT ![t] = 0]
    BY <1>2 DEF TryConnection
  <2>4. /\ usable' \in [1..N -> BOOLEAN]
        /\ next' \in [Caller -> 0..N]
        /\ con' \in [Caller -> 0..N]
    BY <1>1, <2>3, NAssumption DEF Inv
  <2>5. Exclusive'
    BY <1>1, <2>2, <2>3 DEF Inv, Exclusive
  <2>6. QED BY <2>4, <2>5 DEF Inv
<1>3. CASE ~Exchange(next[t])
  BY <1>1, <1>3, AdvanceTyped DEF TryConnection, Inv, Exclusive
<1>4. QED BY <1>2, <1>3

\* What a thread gives back, or loses, is no longer what it has; nobody else had it.
LEMMA InvEnd ==
    ASSUME Inv, NEW t \in Caller, ReturnConnection(t) \/ ReturnEarly(t)
    PROVE  Inv'
<1>1. con[t] \in 1..N /\ next' = next /\ con' = [con EXCEPT ![t] = 0]
  BY NAssumption DEF Inv, ReturnConnection, ReturnEarly
<1>2. \A u \in Caller : u # t => con[u] # con[t] /\ con'[u] = con[u]
  BY <1>1 DEF Inv, Exclusive
<1>3. usable' = [usable EXCEPT ![con[t]] = TRUE] \/ usable' = usable
  BY DEF ReturnConnection, ReturnEarly, Store
<1>4. /\ usable' \in [1..N -> BOOLEAN]
      /\ next' \in [Caller -> 0..N]
      /\ con' \in [Caller -> 0..N]
  <2>1. usable' \in [1..N -> BOOLEAN]
    BY <1>1, <1>3 DEF Inv
  <2>2. con' \in [Caller -> 0..N]
    BY <1>1, NAssumption DEF Inv
  <2>3. QED BY <1>1, <2>1, <2>2 DEF Inv
<1>5. ASSUME NEW u \in Caller, con'[u] # 0
      PROVE  /\ ~usable'[con'[u]]
             /\ \A v \in Caller : con'[v] = con'[u] => v = u
  <2>1. con'[t] = 0
    BY <1>1 DEF Inv
  <2>2. u # t /\ con'[u] = con[u] /\ con[u] # con[t] /\ con[u] \in 1..N
    BY <1>1, <1>2, <1>5, <2>1, NAssumption DEF Inv
  <2>3. usable'[con[u]] = usable[con[u]]
    BY <1>1, <1>3, <2>2 DEF Inv
  <2>4. ~usable'[con'[u]]
    BY <2>2, <2>3, <1>5 DEF Inv, Exclusive
  <2>5. ASSUME NEW v \in Caller, con'[v] = con'[u] PROVE v = u
    <3>1. v # t
      BY <2>1, <2>5, <1>5
    <3>2. con'[v] = con[v]
      BY <1>1, <3>1 DEF Inv
    <3>3. QED BY <2>2, <2>5, <3>2, <1>5 DEF Inv, Exclusive
  <2>6. QED BY <2>4, <2>5
<1>6. QED BY <1>4, <1>5 DEF Inv, Exclusive

LEMMA InvNext == Inv /\ [Next]_vars => Inv'
<1> SUFFICES ASSUME Inv, [Next]_vars PROVE Inv'
  OBVIOUS
<1>1. ASSUME NEW t \in Caller, Begin(t) \/ Continue(t) PROVE Inv'
  BY <1>1, InvStart, InvTry, InvEnd DEF Continue
<1>2. CASE Crash
  BY <1>2, NAssumption DEF Crash, Inv, Exclusive
<1>3. CASE UNCHANGED vars
  BY <1>3 DEF vars, Inv, Exclusive
<1>4. QED BY <1>1, <1>2, <1>3 DEF Next

\* No two threads use the same connection, and none uses one that can be taken
\* (DBConnectionPool::GetConnection), for any number of connections.
THEOREM ExclusiveUse == Spec => []Exclusive
<1>1. Inv => Exclusive
  BY DEF Inv
<1>2. QED BY InvInit, InvNext, <1>1, PTL DEF Spec

-----------------------------------------------------------------------------
(* Types.                                                                  *)

TypeInv ==
    /\ PoolTypeOK
    /\ \A t \in Caller : /\ (next[t] # 0 \/ con[t] # 0) => todo[t] # <<>>
                         /\ next[t] = 0 \/ con[t] = 0

LEMMA PlanTyped ==
    ASSUME NEW t \in Caller
    PROVE  Plan(t) \subseteq Seq(Use)
<1>1. /\ <<"UpdateState">> \in Seq(Use) /\ <<"FindUser">> \in Seq(Use)
      /\ <<"LogoutUser", "UpdateState">> \in Seq(Use)
      /\ <<"IsAvailableID", "HandleJoinRequest">> \in Seq(Use)
      /\ <<"AuthenticateUser", "CreateActiveUser", "UpdateState">> \in Seq(Use)
  BY DEF Use
<1>2. QED BY <1>1 DEF Plan

\* A request goes on with uses it planned.
LEMMA GoOnTyped ==
    ASSUME TypeInv, NEW t \in Caller, NEW rest \in Seq(Use), GoOn(t, rest)
    PROVE  /\ todo' \in [Caller -> Seq(Use)] /\ lock' \in Caller \cup {None}
           /\ \A u \in Caller : u # t => todo'[u] = todo[u]
BY DEF TypeInv, PoolTypeOK, GoOn

LEMMA TypeNext == TypeInv /\ [Next]_vars => TypeInv'
<1>. SUFFICES ASSUME TypeInv, [Next]_vars PROVE TypeInv'
  OBVIOUS
<1>1. ASSUME NEW t \in Caller, Begin(t)
      PROVE  TypeInv'
  <2>1. PICK plan \in Plan(t) :
          /\ todo' = [todo EXCEPT ![t] = plan]
          /\ IF Locked(t, plan) THEN lock = None /\ lock' = t ELSE UNCHANGED lock
    BY <1>1 DEF Begin
  <2>2. plan \in Seq(Use) /\ todo[t] = <<>> /\ UNCHANGED <<usable, next, con>>
    BY <1>1, PlanTyped DEF Begin
  <2>3. next[t] = 0 /\ con[t] = 0
    BY <2>2 DEF TypeInv
  <2>4. todo' \in [Caller -> Seq(Use)] /\ lock' \in Caller \cup {None}
    BY <2>1, <2>2 DEF TypeInv, PoolTypeOK
  <2>5. QED BY <2>1, <2>2, <2>3, <2>4 DEF TypeInv, PoolTypeOK
<1>2. ASSUME NEW t \in Caller, GetConnection(t)
      PROVE  TypeInv'
  BY <1>2, NAssumption DEF GetConnection, TypeInv, PoolTypeOK
<1>3. ASSUME NEW t \in Caller, TryConnection(t)
      PROVE  TypeInv'
  <2>1. next[t] \in 1..N /\ todo[t] # <<>> /\ con[t] = 0 /\ UNCHANGED <<todo, lock>>
    BY <1>3, NAssumption DEF TypeInv, PoolTypeOK, TryConnection
  <2>2. /\ usable' = usable \/ usable' = [usable EXCEPT ![next[t]] = FALSE]
        /\ \/ con' = con /\ next' = [next EXCEPT ![t] = Advance(next[t])]
           \/ con' = [con EXCEPT ![t] = next[t]] /\ next' = [next EXCEPT ![t] = 0]
    BY <1>3 DEF TryConnection
  <2>3. Advance(next[t]) \in 1..N
    BY <2>1, AdvanceTyped
  <2>4. usable' \in [1..N -> BOOLEAN]
    BY <2>1, <2>2 DEF TypeInv, PoolTypeOK
  <2>5. con' \in [Caller -> 0..N] /\ \A u \in Caller : u # t => con'[u] = con[u]
    BY <2>1, <2>2, NAssumption DEF TypeInv, PoolTypeOK
  <2>6. next' \in [Caller -> 0..N] /\ \A u \in Caller : u # t => next'[u] = next[u]
    <3>1. PICK c \in 0..N : next' = [next EXCEPT ![t] = c]
      BY <2>2, <2>3, NAssumption
    <3>2. QED BY <3>1 DEF TypeInv, PoolTypeOK
  <2>7. next'[t] = 0 \/ con'[t] = 0
    BY <2>1, <2>2 DEF TypeInv, PoolTypeOK
  <2>8. QED BY <2>1, <2>4, <2>5, <2>6, <2>7 DEF TypeInv, PoolTypeOK
<1>4. ASSUME NEW t \in Caller, ReturnConnection(t) \/ ReturnEarly(t)
      PROVE  TypeInv'
  <2>1. con[t] \in 1..N /\ next[t] = 0 /\ next' = next /\ con' = [con EXCEPT ![t] = 0]
        /\ todo[t] # <<>>
    BY <1>4, NAssumption DEF TypeInv, PoolTypeOK, ReturnConnection, ReturnEarly
  <2>2. /\ usable' \in [1..N -> BOOLEAN] /\ con' \in [Caller -> 0..N]
        /\ con'[t] = 0 /\ next'[t] = 0
        /\ \A u \in Caller : u # t => con'[u] = con[u]
    <3>1. usable' = [usable EXCEPT ![con[t]] = TRUE] \/ usable' = usable
      BY <1>4 DEF ReturnConnection, ReturnEarly, Store
    <3>2. usable' \in [1..N -> BOOLEAN]
      BY <2>1, <3>1 DEF TypeInv, PoolTypeOK
    <3>3. con' \in [Caller -> 0..N] /\ con'[t] = 0 /\ \A u \in Caller : u # t => con'[u] = con[u]
      BY <2>1, NAssumption DEF TypeInv, PoolTypeOK
    <3>4. QED BY <2>1, <3>2, <3>3
  <2>3. todo[t] \in Seq(Use) /\ Tail(todo[t]) \in Seq(Use) /\ <<>> \in Seq(Use)
    BY <2>1 DEF TypeInv, PoolTypeOK
  <2>4. /\ todo' \in [Caller -> Seq(Use)] /\ lock' \in Caller \cup {None}
        /\ \A u \in Caller : u # t => todo'[u] = todo[u]
    BY <1>4, <2>3, GoOnTyped DEF ReturnConnection, ReturnEarly
  <2>5. QED BY <2>1, <2>2, <2>4 DEF TypeInv, PoolTypeOK
<1>5. CASE Crash
  BY <1>5, NAssumption DEF Crash, TypeInv, PoolTypeOK
<1>6. CASE UNCHANGED vars
  BY <1>6 DEF vars, TypeInv, PoolTypeOK
<1>7. QED BY <1>1, <1>2, <1>3, <1>4, <1>5, <1>6 DEF Next, Continue

\* The flags, requests and connections of the threads keep their types: the index
\* never leaves the vector, and a request never runs out of uses while it has, or
\* waits for, a connection.
THEOREM PoolTyped == Spec => []PoolTypeOK
<1>1. Init => TypeInv
  BY NAssumption DEF Init, TypeInv, PoolTypeOK
<1>2. TypeInv => PoolTypeOK
  BY DEF TypeInv
<1>3. QED BY <1>1, <1>2, TypeNext, PTL DEF Spec

-----------------------------------------------------------------------------
(* Every connection has one holder.                                        *)

\* Who a connection's holder is, without the CHOOSE.
HoldersKnown ==
    \A c \in 1..N :
        /\ HolderOf(c) = "free" <=> usable[c]
        /\ \A t \in Caller : HolderOf(c) = t <=> con[t] = c
        /\ HolderOf(c) = "lost" <=> ~usable[c] /\ \A t \in Caller : con[t] # c

LEMMA HoldersFollow == Inv => HoldersKnown
<1> SUFFICES ASSUME Inv, NEW c \in 1..N
             PROVE  /\ HolderOf(c) = "free" <=> usable[c]
                    /\ \A t \in Caller : HolderOf(c) = t <=> con[t] = c
                    /\ HolderOf(c) = "lost" <=> ~usable[c] /\ \A t \in Caller : con[t] # c
  BY DEF HoldersKnown
<1>0. /\ "free" # "lost" /\ "free" \notin Caller /\ "lost" \notin Caller
      /\ c # 0 /\ usable[c] \in BOOLEAN
  BY CallerAssumption, NAssumption DEF Inv
<1>1. ASSUME NEW t \in Caller, con[t] = c PROVE ~usable[c] /\ HolderOf(c) = t
  <2>1. ~usable[c] /\ \A u \in Caller : con[u] = c => u = t
    BY <1>0, <1>1 DEF Inv, Exclusive
  <2>2. (CHOOSE u \in Caller : con[u] = c) = t
    BY <1>1, <2>1
  <2> QED
    BY <1>1, <2>1, <2>2 DEF HolderOf
<1>2. CASE usable[c]
  BY <1>0, <1>1, <1>2 DEF HolderOf
<1>3. CASE ~usable[c] /\ \A t \in Caller : con[t] # c
  BY <1>0, <1>3 DEF HolderOf
<1>4. CASE \E t \in Caller : con[t] = c
  BY <1>0, <1>1, <1>4
<1> QED
  BY <1>2, <1>3, <1>4

\* What the promise is about, as the threads' variables show it.
HolderMap == [c \in 1..N |-> HolderOf(c)]

\* A connection nothing has happened to keeps its holder.
LEMMA HolderKept ==
    ASSUME HoldersKnown, HoldersKnown', NEW c \in 1..N, usable'[c] = usable[c],
           \A t \in Caller : con'[t] = c <=> con[t] = c
    PROVE  HolderMap'[c] = HolderMap[c]
<1>1. HolderMap'[c] = HolderOf(c)' /\ HolderMap[c] = HolderOf(c)
  BY DEF HolderMap
<1>2. CASE usable[c]
  <2>1. HolderOf(c) = "free"
    BY <1>2 DEF HoldersKnown
  <2>2. usable'[c]
    BY <1>2
  <2>3. HolderOf(c)' = "free"
    BY <2>2 DEF HoldersKnown
  <2> QED
    BY <1>1, <2>1, <2>3
<1>3. CASE ~usable[c] /\ \A t \in Caller : con[t] # c
  <2>1. ~usable'[c] /\ \A t \in Caller : con'[t] # c
    BY <1>3
  <2> QED
    BY <1>1, <1>3, <2>1 DEF HoldersKnown
<1>4. ASSUME NEW t \in Caller, con[t] = c PROVE HolderMap'[c] = HolderMap[c]
  BY <1>1, <1>4 DEF HoldersKnown
<1> QED
  BY <1>2, <1>3, <1>4

\* When only one connection changes hands, the map changes there alone.
LEMMA OneChanges ==
    ASSUME HoldersKnown, HoldersKnown', NEW d \in 1..N,
           \A c \in 1..N : c # d => usable'[c] = usable[c],
           \A c \in 1..N, t \in Caller : c # d => (con'[t] = c <=> con[t] = c)
    PROVE  HolderMap' = [HolderMap EXCEPT ![d] = HolderMap'[d]]
<1>1. HolderMap = [c \in 1..N |-> HolderMap[c]] /\ HolderMap' = [c \in 1..N |-> HolderMap'[c]]
  BY DEF HolderMap
<1>2. \A c \in 1..N : c # d => HolderMap'[c] = HolderMap[c]
  BY HolderKept
<1> QED
  BY <1>1, <1>2

\* A thread that took a connection, which was free, had none.
LEMMA TrySimulates ==
    ASSUME Inv, TypeInv, HoldersKnown, HoldersKnown', NEW t \in Caller, TryConnection(t)
    PROVE  Holders!Get(t) \/ HolderMap' = HolderMap
<1> DEFINE d == next[t]
<1>1. d \in 1..N /\ con[t] = 0
  BY NAssumption DEF TryConnection, TypeInv, PoolTypeOK
<1>2. CASE Exchange(d)
  <2>1. /\ usable' = [usable EXCEPT ![d] = FALSE]
        /\ con' = [con EXCEPT ![t] = d]
    BY <1>2 DEF TryConnection
  <2>2. usable[d] /\ \A c \in 1..N : HolderOf(c) # t
    BY <1>1, <1>2, NAssumption DEF Exchange, HoldersKnown
  <2>3. \A c \in 1..N : c # d => usable'[c] = usable[c]
    BY <2>1 DEF Inv
  <2>4. \A c \in 1..N, u \in Caller : c # d => (con'[u] = c <=> con[u] = c)
    BY <1>1, <2>1, NAssumption DEF Inv
  <2>5. HolderMap' = [HolderMap EXCEPT ![d] = HolderMap'[d]]
    BY <1>1, <2>3, <2>4, OneChanges
  <2>6. con'[t] = d
    BY <2>1 DEF Inv
  <2>7. HolderMap'[d] = t
    BY <1>1, <2>6 DEF HolderMap, HoldersKnown
  <2>8. HolderMap[d] = "free" /\ \A c \in 1..N : HolderMap[c] # t
    BY <1>1, <2>2 DEF HolderMap, HoldersKnown
  <2> QED
    BY <1>1, <2>5, <2>7, <2>8 DEF Holders!Get, HolderMap
<1>3. CASE ~Exchange(d)
  <2>1. usable' = usable /\ con' = con
    BY <1>3 DEF TryConnection
  <2> QED
    BY <2>1 DEF HolderMap, HolderOf
<1> QED
  BY <1>2, <1>3

\* What a thread gives back is free, what it forgets is lost: nobody else has it.
LEMMA EndSimulates ==
    ASSUME Inv, Inv', HoldersKnown, HoldersKnown', NEW t \in Caller,
           ReturnConnection(t) \/ ReturnEarly(t)
    PROVE  Holders!LetGo(t)
<1> DEFINE d == con[t]
<1>1. d \in 1..N /\ con' = [con EXCEPT ![t] = 0]
  BY NAssumption DEF Inv, ReturnConnection, ReturnEarly
<1>2. usable' = [usable EXCEPT ![d] = TRUE] \/ usable' = usable
  BY DEF ReturnConnection, ReturnEarly, Store
<1>3. \A c \in 1..N : c # d => usable'[c] = usable[c]
  BY <1>2 DEF Inv
<1>4. \A c \in 1..N, u \in Caller : c # d => (con'[u] = c <=> con[u] = c)
  BY <1>1, NAssumption DEF Inv
<1>5. HolderMap' = [HolderMap EXCEPT ![d] = HolderMap'[d]]
  BY <1>1, <1>3, <1>4, OneChanges
<1>6. HolderMap[d] = t
  BY <1>1 DEF HolderMap, HoldersKnown
<1>7. \A u \in Caller : con'[u] # d
  BY <1>1, NAssumption DEF Inv, Exclusive
<1>8. usable'[d] \in BOOLEAN
  BY <1>1 DEF Inv
<1>9. HolderMap'[d] \in {"free", "lost"}
  BY <1>1, <1>7, <1>8 DEF HolderMap, HoldersKnown
<1> QED
  BY <1>1, <1>5, <1>6, <1>9 DEF Holders!LetGo, HolderMap

HolderStep == Holders!Next \/ HolderMap' = HolderMap

LEMMA StepSimulates ==
    ASSUME Inv, Inv', TypeInv, HoldersKnown, HoldersKnown', [Next]_vars
    PROVE  HolderStep
<1>1. ASSUME NEW t \in Caller, Begin(t) \/ GetConnection(t) PROVE HolderStep
  <2>1. usable' = usable /\ con' = con
    BY <1>1 DEF Begin, GetConnection
  <2> QED
    BY <2>1 DEF HolderStep, HolderMap, HolderOf
<1>2. ASSUME NEW t \in Caller, TryConnection(t) PROVE HolderStep
  BY <1>2, TrySimulates DEF HolderStep, Holders!Next
<1>3. ASSUME NEW t \in Caller, ReturnConnection(t) \/ ReturnEarly(t) PROVE HolderStep
  BY <1>3, EndSimulates DEF HolderStep, Holders!Next
<1>4. CASE Crash
  <2>1. \A c \in 1..N : usable'[c]
    BY <1>4 DEF Crash
  <2>2. \A c \in 1..N : HolderOf(c)' = "free"
    BY <2>1 DEF HoldersKnown
  <2>3. Holders!Reset
    BY <2>2 DEF Holders!Reset
  <2> QED
    BY <2>3 DEF HolderStep, Holders!Next
<1>5. CASE UNCHANGED vars
  BY <1>5 DEF HolderStep, HolderMap, HolderOf, vars
<1> QED
  BY <1>1, <1>2, <1>3, <1>4, <1>5 DEF Next, Continue

\* The loop over the flags, run by two threads at once, hands each connection from
\* hand to hand as the abstract pool does (DBConnectionPool::GetConnection and
\* ReturnConnection): a thread gets a free one, gives back or loses none but its
\* own, and what is lost stays lost until the process ends.
THEOREM PoolImplements == Spec => ImplementsHolders
<1>1. Init => Holders!Init
  BY DEF Init, Holders!Init, HolderOf
<1>2. Init => TypeInv
  BY NAssumption DEF Init, TypeInv, PoolTypeOK
<1>3. Inv /\ Inv' /\ TypeInv /\ HoldersKnown /\ HoldersKnown' /\ [Next]_vars => HolderStep
  BY StepSimulates
<1>4. HolderStep => [Holders!Next]_([c \in 1..N |-> HolderOf(c)])
  BY DEF HolderStep, HolderMap
<1> QED
  BY <1>1, <1>2, <1>3, <1>4, InvInit, InvNext, TypeNext, HoldersFollow, PTL
  DEF Spec, ImplementsHolders, Holders!Spec
=============================================================================
