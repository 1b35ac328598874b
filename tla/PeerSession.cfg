SPECIFICATION Spec
CONSTANTS
 Peers = {a, b, c}
 Nobody = Nobody
 Tokens = {t1, t2}
 NoToken = NoToken
 BadKeys = {}
 Kinds = {}
 MaxMoves = 3
 MaxExits = 1
SYMMETRY Symmetry
INVARIANTS TypeOK Agreement ReadyPresent ReadyUsable
CHECK_DEADLOCK FALSE
