SPECIFICATION HistorySpec
CONSTANTS
    c1 = c1
    c2 = c2
    c3 = c3
    alice = alice
    bob = bob
    Conns = {c1, c3}
    Fps = {alice, bob}
    MayOmit = {}
    Tokens = {t1}
    Nonces = {n1}
    RoomIds = {r1}
    NoFp = NoFp
    Absent = Absent
    NoRoom = NoRoom
    NoRoomId = NoRoomId
    NoFrame = NoFrame
    MaxParticipants = 2
    IdleTimeout = 0
    Lifetime = 1
    MaxViolations = 2
    DisconnectOnViolations = TRUE
    ReplayProtection = TRUE
    MessageTtl = 0
    RateLimit = 2
    RateWindow = 0
    Identity <- MCIdentity
INVARIANTS
    ViolatorsLoseTheirSocket
PROPERTIES
    BroadcastKeepsRoom
VIEW UnsentHistory
