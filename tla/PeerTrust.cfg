SPECIFICATION Spec
CONSTANTS
 Peers = {a, b, c}
 Nobody = Nobody
 Tokens = {t1, t2}
 NoToken = NoToken
 BadKeys = {}
 Kinds = {}
 MaxMoves = 3
 MaxExits = 0
SYMMETRY Symmetry
INVARIANTS TrustedOnFirstExchange
CHECK_DEADLOCK FALSE
