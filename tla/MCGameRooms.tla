------------------------------ MODULE MCGameRooms ------------------------------
(* GameRooms on a small instance: a client that does everything beside a   *)
(* host and a guest, one more than a room has places for.                  *)
EXTENDS GameRooms, TLC

CONSTANTS s1, s2, s3, a1, a2, a3

NameOf == s1 :> a1 @@ s2 :> a2 @@ s3 :> a3
AsksOf == s1 :> {"create", "join", "quit", "logout"} @@ s2 :> {"create"} @@ s3 :> {"join"}
=============================================================================
