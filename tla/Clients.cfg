SPECIFICATION MCSpec
CONSTANTS
    s1 = s1
    a = a
    b = b
    All = All
    TrayStream = s1
    Unreachable = Unreachable
    Streams <- MCStreams
    Modules <- MCModules
    Capacity = 3
    TailCap = 4
    EventCap = 1
    ForwardCap = 1
    Asks = {0, 1, 4}
    MaxLines = 5
    MaxEvents = 2
    Builtin = {"alpha"}
    External = {"status"}
    Silent = {}
    MaxChanges = 2
    MaxRenders = 2
    MaxClicks = 1
    MaxWords = 4
INVARIANTS StreamsAreExact CommandLineIsTruthful MenuIsTrue
PROPERTIES ClientsAreServed
