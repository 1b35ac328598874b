------------------------------ MODULE MCRelay ------------------------------
(* Relay on small instances.                                                *)
EXTENDS Relay

CONSTANTS c1, c2, c3, alice, bob

(* c1 is a socket of alice's and c2 its successor, c3 is bob's.             *)
MCIdentity == [c \in Conns |-> IF c = c3 THEN bob ELSE alice]

(* Room ids are interchangeable, and so are tokens.                         *)
RoomSymmetry == Permutations(RoomIds)

TokenSymmetry == Permutations(Tokens)

(* No action reads what the last step sent, so states that differ only in   *)
(* sent have the same successors; the properties that mention sent are      *)
(* action properties, evaluated on every step from every state of the view. *)
Unsent == <<rooms, conn, seen, buckets>>
=============================================================================
