SPECIFICATION Spec
CONSTANTS
    Fixed = {"usb"}
    Links = {"c1", "c2"}
    Tcp = {"c2"}
    MaxSinks = 2
    Pins = {"0000", "p1"}
    DefaultPin = "0000"
    Names = {""}
    DerivedName = "MeshPigeon-XXXX"
    Wifis = {"off", "on"}
    WifiOff = "off"
    WifiSupported = TRUE
    Absent = "absent"
    Unset = ""
    FreeFails = 1
    FailCap = 2
    FailDelay = 1
    Grace = 1
    MaxFetch = 2
    Ops = {"Auth", "SetDeviceSettings", "GetDeviceSettings"}
    Writes <- SessionWrites
    MaxTime = 2
    MaxEpoch = 0
    MaxSeq = 1
    Tunes = {"t0"}
    DefaultTune = "t0"
    NumRegs = 2
    Faults = {}
    Packets <- OnePacket
    Overhead = 2
    Capacity = 7
INVARIANTS SessionProvenance GatedMaterial RateLimit
