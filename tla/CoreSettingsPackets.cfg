SPECIFICATION Spec
CONSTANTS
    Fixed = {"usb"}
    Links = {}
    Tcp = {}
    MaxSinks = 1
    Pins = {"0000", "p1"}
    DefaultPin = "0000"
    Names = {"", "n1"}
    DerivedName = "MeshPigeon-XXXX"
    Wifis = {"off", "on"}
    WifiOff = "off"
    WifiSupported = FALSE
    Absent = "absent"
    Unset = ""
    FreeFails = 1
    FailCap = 3
    FailDelay = 2
    Grace = 1
    MaxFetch = 2
    Ops = {"SetRadioSettings", "GetRadioSettings", "SetDeviceSettings", "GetDeviceSettings", "Reboot", "Bootloader", "FactoryReset", "SendPacket", "FetchPackets", "PurgeStore", "air"}
    Writes <- PersistenceWrites
    MaxTime = 1
    MaxEpoch = 2
    MaxSeq = 4
    Tunes = {"t0", "t1"}
    DefaultTune = "t0"
    NumRegs = 2
    Faults = {"standby", "begin", "alloc"}
    Packets <- MCPackets
    Overhead = 2
    Capacity = 7
CONSTRAINT SettingsOrPackets
INVARIANTS AirMatchesSettings EpochNamesTuning AnsweredIsDurable AdvertisedName SeqNamesPacket
