SPECIFICATION Spec
CONSTANTS
    Fps = {f1, f2}
    Nonces = {n1, n2}
    Enabled = TRUE
    Ttl = 1
    Limit = 2
    Window = 2
INVARIANTS
    AtMostTwoWindows
    RefusalsEarned
    OnlyReplaysRefused
