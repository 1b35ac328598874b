SPECIFICATION FairSpec
CONSTANTS
    c1 = c1
    c2 = c2
    c3 = c3
    alice = alice
    bob = bob
    Conns = {c1, c3}
    Fps = {alice, bob}
    MayOmit = {}
    Tokens = {t1}
    Nonces = {}
    RoomIds = {r1, r2}
    NoFp = NoFp
    Absent = Absent
    NoRoom = NoRoom
    NoRoomId = NoRoomId
    NoFrame = NoFrame
    MaxParticipants = 2
    IdleTimeout = 0
    Lifetime = 0
    MaxViolations = 1
    DisconnectOnViolations = FALSE
    ReplayProtection = TRUE
    MessageTtl = 0
    RateLimit = 1
    RateWindow = 0
    Identity <- MCIdentity
INVARIANTS
    TypeOK
PROPERTIES
    EvictionComplete
    ImplementsRoomAccess
    RoomsExpire
    GhostsVanish
