\* Four operations by two scripts, one of which may be killed.
SPECIFICATION Spec
CONSTANTS
    Scripts = {s1, s2}
    Versions = {v1, v2, v3}
    Tools = {dudu, duc, lsp}
    None = None
    Scenarios <- MCScenarios
    MaxKills = 1
    MaxOperations = 4
SYMMETRY Symmetry
INVARIANTS TypeOK CommandsRun CompletedIsConsistent
