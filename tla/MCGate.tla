------------------------------- MODULE MCGate -------------------------------
(* ConnectionGate on a small instance: a page of the configured origin and  *)
(* one of the same host over http.                                          *)
EXTENDS ConnectionGate

GateAllowed == {[protocol |-> "https:", host |-> "nullkey", port |-> ""]}

GateOrigins == GateAllowed \cup {[protocol |-> "http:", host |-> "nullkey", port |-> "3000"]}
=============================================================================
