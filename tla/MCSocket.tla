------------------------------ MODULE MCSocket ------------------------------
(***************************************************************************)
(* SocketClient for TLC.  Attempts are alike, and so are rooms.            *)
(***************************************************************************)
EXTENDS SocketClient, TLC

ClientSymmetry == Permutations(Attempts) \cup Permutations(RoomIds)
=============================================================================
