CONSTANTS
    Runnables = {r1}
    Users = {u1}
    MaxOps = 1
    MaxFaults = 1
SPECIFICATION LiveSpec
PROPERTIES
    EventuallySent
