SPECIFICATION Spec
CONSTANTS
    c1 = c1
    c2 = c2
    c3 = c3
    alice = alice
    bob = bob
    Conns = {c1, c2, c3}
    Fps = {alice, bob}
    MayOmit = {c1}
    Tokens = {t1, t2}
    Nonces = {}
    RoomIds = {r1}
    NoFp = NoFp
    Absent = Absent
    NoRoom = NoRoom
    NoRoomId = NoRoomId
    NoFrame = NoFrame
    MaxParticipants = 2
    IdleTimeout = 0
    Lifetime = 0
    MaxViolations = 1
    DisconnectOnViolations = TRUE
    ReplayProtection = TRUE
    MessageTtl = 0
    RateLimit = 1
    RateWindow = 0
    Identity <- MCIdentity
INVARIANTS
    OpenMembersListed
    RoomsWellFormed
    ClosedNotListed
PROPERTIES
    MembershipAnnounced
    JoinersOwnTokens
SYMMETRY TokenSymmetry
VIEW Unsent
