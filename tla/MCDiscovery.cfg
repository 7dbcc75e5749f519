SPECIFICATION DiscoverySpec
CONSTANTS
    CaseFold <- MCCaseFold
    Packets <- MCPackets
    Length <- MCLength
    IPv4 <- MCIPv4
    PortNumber <- MCPortNumber
    radio_serial = "ABC"
    discovery_ip = "10.0.0.1"
    QueueLimit = 1
INVARIANTS
    WaitTypeOK
    ParserStaysInBounds
    MatchIsOneAnnouncement
