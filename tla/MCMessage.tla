----------------------------- MODULE MCMessage -----------------------------
(* MessageHistory on small instances; see MCRelay for the identities and    *)
(* the view.                                                                *)
EXTENDS MessageHistory

CONSTANTS c1, c2, c3, alice, bob

MCIdentity == [c \in Conns |-> IF c = c3 THEN bob ELSE alice]

UnsentHistory == <<rooms, conn, seen, buckets, hushed>>
=============================================================================
