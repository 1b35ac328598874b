------------------------------- MODULE MCPeer -------------------------------
(* PeerSession on small instances: tokens are interchangeable, and so are   *)
(* the pages whose keys are good.                                           *)
EXTENDS PeerSession, TLC

Symmetry ==
    Permutations(Tokens)
        \cup {f \in Permutations(Peers) : \A p \in Peers : p \in BadKeys <=> f[p] \in BadKeys}
=============================================================================
