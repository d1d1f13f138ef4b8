SPECIFICATION PartsSpec
CONSTANTS
    Checking = {"wire", "link", "clock", "fifo", "burst", "files"}
    Word = 11
    Long = 22
    MaxFramePayload = 509
    NewTags = {66}
    Excess = {1, 2}
    CodeMax = 4
    Crc16 <- Crc16Ccitt
    MaxPayload = 3
    Budget = 3
    QueueCap = 2
    Envelopes <- MCEnvelopes
    MaxFrames = 2
    Damages = {0, 1, 200}
    MaxFaults = 1
    Wrap = 4
    MaxWraps = 3
    RingSize = 4
    IndexMod = 16
    Transports = {"tcp", "esp32", "nrf52"}
    Entries = 4
    Chunks = 2
    QueueDepth = 2
    Window = 2
    Paths = {"dev", "boots"}
    Checked = {"dev"}
    Records = {"r1", "r2"}
    Parts = 2
    Missing = Missing
    Torn = Torn
INVARIANTS RequestUnderstood NeverCut ResponseIsProtobuf ExactlyTheSound WithinBuffers UptimeExact DamageIsLocal
PROPERTIES PumpEnds NeverBack ImplementsQueue BurstEnds 
CHECK_DEADLOCK FALSE
