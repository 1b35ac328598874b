SPECIFICATION Spec
CONSTANTS
    Attempts = {a1, a2, a3}
    NoSocket = NoSocket
    RoomIds = {r1, r2}
    NoRoom = NoRoom
    MaxQueue = 2
    MaxWire = 4
PROPERTIES
    TimeoutSparesOpen
