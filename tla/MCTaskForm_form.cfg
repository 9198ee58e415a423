CONSTANTS
    Tags = {a}
    Files = {f}
    TempFiles = {f}
    Names = {n1, n2}
    IncludeLimit = 2
    ExcludeLimit = 1
    MaxTasks = 2
    MaxPlans = 1
    Slots = {s1}
    None = None
SYMMETRY SymNames
CONSTRAINT Followed
SPECIFICATION Spec
INVARIANTS
    SentAsSelected
    SendCodeKept
    SendCodeAllowed
    ExcludesEffective
    NamesUnique
