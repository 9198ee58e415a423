CONSTANTS
    Runnables = {r1, r2}
    Users = {u1, u2}
    MaxOps = 2
    MaxFaults = 1
SYMMETRY Symmetry
CONSTRAINT Followed
SPECIFICATION Spec
INVARIANTS
    OnePrepares
    HandedOnce
    HandedIsShown
