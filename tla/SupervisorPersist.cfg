SPECIFICATION Spec
CONSTANTS
    plug = plug
    core = core
    i1 = i1
    i2 = i2
    i3 = i3
    None = None
    Modules = {plug, core}
    Builtin = {core}
    Insts = {i1, i2, i3}
    MaxRestarts = 2
    MaxLoads = 3
    MaxLate = 0
    ClientsVanish = FALSE
    ReadFaults = FALSE
SYMMETRY HandleSymmetry
INVARIANTS
    NoStrayInstance
    ShutdownIsLIFO
    LoadedIsEnabled
    RestartRestores
PROPERTIES
    DiskShrinksOnUnload
