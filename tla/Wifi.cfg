SPECIFICATION FairSpec
CONSTANTS
    Configs <- MCConfigs
    NoSsid = ""
    MaxClients = 2
    MaxSinks = 2
    MaxOthers = 1
    BackoffStart = 2
    BackoffMax = 3
    Wrap = 4
INVARIANTS SlotsMatchRegistry ServesOnlyWhileUp LinkMatchesSettings RightNetwork BackoffSeeded
PROPERTIES RetryPaced ComesBack
