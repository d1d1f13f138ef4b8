SPECIFICATION Spec
CONSTANTS
    Fixed = {"usb"}
    Links = {"c1"}
    Tcp = {}
    MaxSinks = 2
    Pins = {"0000"}
    DefaultPin = "0000"
    Names = {""}
    DerivedName = "MeshPigeon-XXXX"
    Wifis = {"off"}
    WifiOff = "off"
    WifiSupported = TRUE
    Absent = "absent"
    Unset = ""
    FreeFails = 1
    FailCap = 3
    FailDelay = 2
    Grace = 1
    MaxFetch = 2
    Ops = {"SetRadioSettings"}
    Writes <- NoWrites
    MaxTime = 1
    MaxEpoch = 1
    MaxSeq = 1
    Tunes = {"t0", "t1"}
    DefaultTune = "t0"
    NumRegs = 2
    Faults = {"set"}
    Packets <- OnePacket
    Overhead = 2
    Capacity = 7
INVARIANT Listening
