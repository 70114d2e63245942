SPECIFICATION FairSpec
CONSTANTS
    Client = client
    Others = {o}
    MaxPackets = 2
    OutCap = 1
    MaxRead = 4
    NoPeer = NoPeer
    NoPacket = NoPacket
CHECK_DEADLOCK FALSE
INVARIANTS NoOrphan StoredRight SilentReadOnlyByReuse
PROPERTIES LineIsDrained SessionEnds
