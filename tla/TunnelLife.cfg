SPECIFICATION FairSpec
CONSTANTS
    TimerSets = {{"connect", "guacdIdle"}, {"connect", "guacdIdle", "wsIdle", "ttl"}}
    MaxBuffer = 2
    MaxMessages = 3
    MaxInstr = 4
    Peers = {"silent", "unruly"}
    ErrorHandled = TRUE
CHECK_DEADLOCK FALSE
INVARIANTS TypeOK TornDown HalvesAgree InOrderToGuacd HandshakeFirst BufferBounded ClientStream OnlyStrippedThrows
PROPERTIES Lifecycle SilentOnceClosed HandshakeEnds
