SPECIFICATION MCSpec
CONSTANTS
    Processes = {1, 2}
    Peers = {"root", "user"}
    MaxKills = 1
    MaxGrants = 3
    Pids = {p1, p2, p3}
    None = None
    ClientsVanish = TRUE
    PluginsHang = TRUE
    MaxAsks = 2
    MaxEvents = 2
    MaxFlips = 1
    MaxApplies = 2
    MaxPackets = 2
INVARIANTS PluginIsOwned UserspaceIsSound PluginServicesAreSound
PROPERTIES DaemonIsSound 
CHECK_DEADLOCK FALSE
