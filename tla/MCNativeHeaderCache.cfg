SPECIFICATION Spec
CONSTANTS
    Processes = {c1, c2, server}
    Servers = {server}
    c1 = c1
    c2 = c2
    server = server
    Files = {direct, included}
    direct = direct
    included = included
    Direct = direct
    NeedsPrelude <- MCNeedsPrelude
    Absent = Absent
    Empty = Empty
    None = None
    Scenarios <- MCScenarios
    MaxSaves = 2
    MaxFaults = 1
    MaxCalls = 3
INVARIANTS
    TypeOK
    TrustedIsWhole
PROPERTIES
    WarmScansAreLoaded
    Implements
