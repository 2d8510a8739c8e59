SPECIFICATION MCSpec
CONSTANTS
    script = script
    signed = signed
    unknown = unknown
    Acts = {script, signed, unknown}
    Kind <- MCKind
    Cmds = {1, 2}
    MaxLoops = 2
    MaxPolls = 3
    MaxBatch = 1
    MaxCmds = 2
    hA = hA
    hB = hB
    Hubs = {hA, hB}
    NoValue = NoValue
    MaxTokens = 3
    Callers = {1, 2}
    SecretNames = {"p", "q"}
    SecretValues = {"a"}
    NoSecret = NoSecret
    Unreadable = Unreadable
    MaxKeys = 2
    MaxOutages = 1
    MaxCalls = 2
    Appliers = {1, 2}
    MaxRelease = 2
    MaxBuilds = 2
    MaxVersion = 2
INVARIANTS ActionsAreApproved 
PROPERTIES AskEnds FilesAreAStore 
CHECK_DEADLOCK FALSE
