--------------------------- MODULE MCOutgameServer ----------------------------
(* OutgameServer on small instances. *)
EXTENDS OutgameServer

CONSTANTS a1, a2
Strangers == [a \in Account |-> {}]
Mutual    == [a \in Account |-> Account \ {a}]
LoginOps  == [op : {"login"}, who : Account] \cup [op : {"logout"}, who : {None}]
Symmetry  == Permutations(Session) \cup Permutations(Worker)
FullSymmetry == Symmetry \cup Permutations(Account)
JoinOps   == LoginOps \cup [op : {"join"}, who : Account \ Existing]
OnlyLogin == [op : {"login"}, who : Account]
FindOps   == LoginOps \cup [op : {"find"}, who : {None}]
AllOps    == FirstRequest \cup LaterRequest
=============================================================================
