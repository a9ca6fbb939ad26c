--------------------------- MODULE MCConnectionPool ---------------------------
(* ConnectionPool on small instances. *)
EXTENDS ConnectionPool
=============================================================================
