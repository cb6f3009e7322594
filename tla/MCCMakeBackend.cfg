\* Two drivers and four calls; two failures, kills, cleans or edits.
SPECIFICATION Spec
CONSTANTS
    Drivers = {d1, d2}
    Lists = {main, other}
    Commands = {plain, timed}
    Absent = Absent
    Torn = Torn
    Scenarios <- MCScenarios
    MaxAttempts = 1
    MaxCalls = 4
    MaxEvents = 2
INVARIANTS TypeOK OneAtATime BuildsAreOwn
PROPERTY CallsEnd
