SPECIFICATION MCSpec
CONSTANTS
    Users = {a, b}
    Refreshable = {a}
    Calls = {1, 2}
    NoCreds = NoCreds
    MaxProxies = 2
    scene = scene
    record = record
    barred = barred
    Requests = {scene, record, barred}
    Command <- MCCommand
    Scene <- MCScene
    NoScene = NoScene
    AllowedCommands = {"SetCurrentProgramScene", "StartRecord"}
    AllowedScenes = {"live"}
    Clients = {c1, c2}
    Integrations = {"overlay", "deck", "stranger"}
    Allowed = {"overlay", "deck"}
    MaxBridges = 2
    MaxEvents = 3
    Capacity = 1
    Runs = {1, 2}
    Communities = {7, 8}
    Askers = {1, 2}
    TTL = 2
    Timeout = 1
    MaxTime = 4
PROPERTIES SessionIsOwn   
CHECK_DEADLOCK FALSE
