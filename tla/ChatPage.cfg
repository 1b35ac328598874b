SPECIFICATION FairChatSpec
CONSTANTS
 Peers = {a, b}
 Nobody = Nobody
 Tokens = {t1}
 NoToken = NoToken
 BadKeys = {}
 MaxMoves = 3
 MaxExits = 2
 Kinds = {"text", "file"}
 MaxFileBytes = 10
 MaxFile = 10
 MaxMessage = 50
 MaxHeader = 5800
 MaxWrapping = 450
INVARIANTS ChatTypeOK FilesOpen
PROPERTIES OnlyEmptyFilesRefused DeliveredReadable Meet Quiet
CHECK_DEADLOCK FALSE
