--------------------------- MODULE AccountDirectory ---------------------------
(***************************************************************************)
(* What the server promises about accounts: each account is held by one    *)
(* connection at most, and a connection loses its account only after its   *)
(* client left or asked to leave, or was sent away, or when the whole      *)
(* service goes down.                                                      *)
(***************************************************************************)
CONSTANTS Session, Account, None

VARIABLES
    holds,      \* holds[s]: the account connection s is logged in to
    left        \* connections whose client has gone, wants to go or has to

vars == <<holds, left>>

Init == holds = [s \in Session |-> None] /\ left = {}

\* s logs in to an account nobody holds.
Enter(s) ==
    /\ holds[s] = None
    /\ \E a \in Account :
         /\ \A r \in Session : holds[r] # a
         /\ holds' = [holds EXCEPT ![s] = a]
    /\ UNCHANGED left

\* Clients leave, or ask to; many at once when they are sent away.
Depart(some) == left' = left \cup some /\ UNCHANGED holds

\* The account of a client that left is free again.
Release(s) ==
    /\ s \in left
    /\ holds' = [holds EXCEPT ![s] = None]
    /\ UNCHANGED left

\* The service goes down with all its connections.
Collapse ==
    /\ holds' = [s \in Session |-> None]
    /\ left \cup {s \in Session : holds[s] # None} \subseteq left'
    /\ left' \subseteq Session

Next ==
    \/ \E s \in Session : Enter(s) \/ Release(s)
    \/ \E some \in SUBSET Session : Depart(some)
    \/ Collapse

Spec == Init /\ [][Next]_vars
=============================================================================
