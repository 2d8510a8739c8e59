SPECIFICATION FairSpec
CONSTANTS
    Pids = {p1, p2, p3}
    None = None
    ClientsVanish = FALSE
    PluginsHang = TRUE
PROPERTY StopKills
