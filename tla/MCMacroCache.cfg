\* Three calls by two processes; two saves, failures or kills at any moment.
SPECIFICATION Spec
CONSTANTS
    p1 = p1
    p2 = p2
    dd = dd
    hpp = hpp
    schema = schema
    clock = clock
    old = old
    new = new
    bad = bad
    json = json
    asset = asset
    Processes = {p1, p2}
    Source = dd
    Header = hpp
    Externals <- MCExternals
    Contents <- MCContents
    InitContent <- MCInitContent
    Emits <- MCEmits
    Broken <- MCBroken
    Invocations = {json, asset}
    Reads <- MCReads
    Volatile <- MCVolatile
    None = None
    Saves <- MCSaves
    MaxEvents = 2
    MaxCalls = 3
SYMMETRY Symmetry
INVARIANTS TypeOK AnswersAreCurrent SdkIsWhole WarmCallsRunNothing
PROPERTY IdentitiesAreStable
