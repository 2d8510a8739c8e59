SPECIFICATION Spec
CONSTANTS
    plug = plug
    i1 = i1
    i2 = i2
    i3 = i3
    None = None
    Modules = {plug}
    Builtin = {}
    Insts = {i1, i2, i3}
    MaxRestarts = 2
    MaxLoads = 2
    MaxLate = 1
    ClientsVanish = FALSE
    ReadFaults = FALSE
SYMMETRY HandleSymmetry
PROPERTIES
    FailedStaysParked
