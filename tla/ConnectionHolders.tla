-------------------------- MODULE ConnectionHolders ---------------------------
(***************************************************************************)
(* What the pool of database connections promises: a connection is free,   *)
(* or one thread has it, or it is lost; it goes from thread to thread by   *)
(* way of the pool, and what is lost stays lost until the process ends.    *)
(***************************************************************************)
CONSTANTS Connection, Caller, Free, Lost

VARIABLE holder     \* holder[c]: who has connection c

Init == holder = [c \in Connection |-> Free]

\* t, who has none, gets a free connection.
Get(t) ==
    /\ \A c \in Connection : holder[c] # t
    /\ \E c \in Connection :
         /\ holder[c] = Free
         /\ holder' = [holder EXCEPT ![c] = t]

\* t gives back what it has, or forgets it.
LetGo(t) ==
    \E c \in Connection :
        /\ holder[c] = t
        /\ \E end \in {Free, Lost} : holder' = [holder EXCEPT ![c] = end]

\* A new process connects anew.
Reset == holder' = [c \in Connection |-> Free]

Next == (\E t \in Caller : Get(t) \/ LetGo(t)) \/ Reset

Spec == Init /\ [][Next]_holder
=============================================================================
