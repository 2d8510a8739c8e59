SPECIFICATION MCSpec
CONSTANTS
    eth0 = eth0
    wlan0 = wlan0
    Links = {eth0, wlan0}
    Faults = {"snapshot", "marker", "commit", "restore"}
    NetServices = {eth0, wlan0}
    DnsQueries = {1, 2}
    MaxSessions = 2
    CacheKeys = {1, 2, 3}
    MaxEntries = 2
    MaxClock = 3
    MaxOrder = 3
    Lookups = {1, 2}
    NUpstreams = 2
    MaxRetries = 4
    MaxTime = 6
    DaysWalked = 130
    NtpServers = 2
    NtpEra = 16
    MaxSkew = 2
    MaxDelay = 2
    MaxEdits = 1
    MaxLoads = 2
INVARIANTS HostDnsIsKept ConfigIsSound
PROPERTIES  LicenceAndTimeAreTrue SquawkProgresses
CHECK_DEADLOCK FALSE
