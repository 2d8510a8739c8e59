SPECIFICATION FairSpec
CONSTANTS
    plug = plug
    i1 = i1
    i2 = i2
    None = None
    Modules = {plug}
    Builtin = {}
    Insts = {i1, i2}
    MaxRestarts = 2
    MaxLoads = 1
    MaxLate = 1
    ClientsVanish = FALSE
    ReadFaults = FALSE
PROPERTIES
    FlappingParks
