SPECIFICATION FairSpec
CONSTANTS
    CaseFold <- MCCaseFold
    Packets <- MCPackets
    Length <- MCLength
    IPv4 = {"10.0.0.1"}
    PortNumber <- MCPortNumber
    radio_serial = "ABC"
    discovery_ip = ""
    QueueLimit = 2
    CommandLines <- MCCommandLines
    Settings <- MCSettings
    UnsignedModulus = 65536
    MaxFailures = 3
    LongSilence = 6
INVARIANTS
    LifecycleTypeOK
    BackoffFollowsSchedule
    CleanExitOnlyOnRequest
    OptionsAreKept
    ListensOnlyWhileWaiting
PROPERTIES
    AnnouncedAttemptsAreSpaced
    StopEndsProcess
    FailureIsRetried
    AnnouncementStartsSession
