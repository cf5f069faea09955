\* Two keys; every crash, disk-full error and power failure between two steps.
CONSTANTS
    Keys = {k1, k2}
    Rows = {working, filled}
    TerminalRows = {filled}
    Absent = Absent
    MaxLog = 3
SPECIFICATION StoreSpec
INVARIANTS
    StoreInv
    CacheIsCurrent
PROPERTIES
    ImplementsLedger
