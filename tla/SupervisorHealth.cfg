SPECIFICATION Spec
CONSTANTS
    plug = plug
    i1 = i1
    i2 = i2
    i3 = i3
    i4 = i4
    None = None
    Modules = {plug}
    Builtin = {}
    Insts = {i1, i2, i3, i4}
    MaxRestarts = 2
    MaxLoads = 3
    MaxLate = 2
    ClientsVanish = TRUE
    ReadFaults = TRUE
SYMMETRY HandleSymmetry
INVARIANTS
    TypeOK
    OneLiveInstance
    NoneForgotten
    ParkedAtBudget
    EventsMatchTable
