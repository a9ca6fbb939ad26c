--------------------------- MODULE MCServerShutdown ---------------------------
(* ServerShutdown on one session, whose number is not the first. *)
EXTENDS ServerShutdown

CONSTANTS a1, a2
Strangers == [a \in Account |-> {}]
LoginOps  == [op : {"login"}, who : Account] \cup [op : {"logout"}, who : {None}]
FindOps   == LoginOps \cup [op : {"find"}, who : {None}]
FromOne   == [s \in Session |-> 1]
=============================================================================
