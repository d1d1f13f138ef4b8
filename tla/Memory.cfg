SPECIFICATION MemorySpec
CONSTANTS
    Checking = {"store", "ble"}
    Packets <- MCPackets
    Overhead = 2
    Capacity = 10
    SeqMod = 16
    MaxSeq = 8
    MaxDropped = 2
    Centrals = {"c1", "c2"}
    Handles = {"h1", "h2"}
    MaxCentrals = 2
    MaxRequests = 1
    None = None
INVARIANTS TypeOK RecordsIntact ReadExact OwnSession
PROPERTIES EvictionNecessary ImplementsLog AppendTerminates SlotsFollowLinks
