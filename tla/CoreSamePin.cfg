SPECIFICATION Spec
CONSTANTS
    Fixed = {"usb"}
    Links = {"c1"}
    Tcp = {}
    MaxSinks = 2
    Pins = {"0000", "p1"}
    DefaultPin = "0000"
    Names = {"", "n1"}
    DerivedName = "MeshPigeon-XXXX"
    Wifis = {"off"}
    WifiOff = "off"
    WifiSupported = TRUE
    Absent = "absent"
    Unset = ""
    FreeFails = 1
    FailCap = 3
    FailDelay = 2
    Grace = 1
    MaxFetch = 2
    Ops = {"Auth", "SetDeviceSettings"}
    Writes <- RenameWrites
    MaxTime = 0
    MaxEpoch = 0
    MaxSeq = 1
    Tunes = {"t0"}
    DefaultTune = "t0"
    NumRegs = 2
    Faults = {}
    Packets <- OnePacket
    Overhead = 2
    Capacity = 7
PROPERTY SameValuePinKeepsSessions
