SPECIFICATION FairSpec
CONSTANTS
 Ips = {i1, i2}
 NoIp = NoIp
 Sockets = {s1, s2, s3}
 Origins <- GateOrigins
 AllowedOrigins <- GateAllowed
 MaxPerIp = 2
 Limit = 2
 Window = 2
INVARIANTS TypeOK CountsMatch LimitKept
PROPERTIES ImplementsFixedWindow NoLockout Drains
CHECK_DEADLOCK FALSE
