SPECIFICATION FairSpec
CONSTANTS
    Fixed = {"usb"}
    Links = {}
    Tcp = {}
    MaxSinks = 2
    Pins = {"0000"}
    DefaultPin = "0000"
    Names = {""}
    DerivedName = "MeshPigeon-XXXX"
    Wifis = {"off"}
    WifiOff = "off"
    WifiSupported = TRUE
    Absent = "absent"
    Unset = ""
    FreeFails = 1
    FailCap = 3
    FailDelay = 2
    Grace = 1
    MaxFetch = 2
    Ops = {"SetRadioSettings", "SendPacket", "Reboot", "air", "Ping", "GetDeviceInfo", "GetStatus", "Unknown"}
    Writes <- NoWrites
    MaxTime = 1
    MaxEpoch = 1
    MaxSeq = 3
    Tunes = {"t0", "t1"}
    DefaultTune = "t0"
    NumRegs = 2
    Faults = {"standby", "set", "startReceive", "startTransmit", "readData", "begin", "crc", "save"}
    Packets <- OnePacket
    Overhead = 2
    Capacity = 7
INVARIANTS TxAccounted TxNeverAborted OffOnlyAfterRefusal
PROPERTIES TxResultOwed TxResolves
