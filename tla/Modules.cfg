SPECIFICATION MCSpec
CONSTANTS
    MaxTokens = 2
    MaxLogins = 2
    MaxCrashes = 1
    MaxRuns = 2
    MaxDeaths = 1
    MaxVersion = 2
    MaxBoots = 2
    Hands = {1, 2}
    MaxEdits = 1
    Setters = {1, 2}
    VirtualKeys = {"k1", "k2"}
PROPERTIES    DownIsNoticed
CHECK_DEADLOCK FALSE
