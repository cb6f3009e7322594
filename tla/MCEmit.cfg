\* Anything may happen, three times.
SPECIFICATION Spec
CONSTANTS
    main = main
    lib = lib
    util = util
    runtime = runtime
    m0 = m0
    m1 = m1
    l0 = l0
    l1 = l1
    u0 = u0
    u1 = u1
    none = none
    missing = missing
    torn = torn
    Modules <- MCModules
    Entry = main
    Runtime = runtime
    Texts <- MCTexts
    NoText = none
    TextsOf <- MCTextsOf
    InitText <- MCInitText
    Imports <- MCImports
    Macros <- MCMacros
    Invokers <- MCInvokers
    Clashes <- MCClashes
    Missing = missing
    Torn = torn
    Modes = {"modules"}
    Events = {"edit", "edit while loading", "edit during run", "configure",
              "upgrade", "upgrade during run", "delete", "crash"}
    MaxEvents = 3
    Tolerated = {{"edit", "edit during run", "crash"}, {"delete", "upgrade"}}
INVARIANTS TypeOK EmitMatchesClean SuccessMeansChecked NoOpIsSkipped KilledRunIsRedone
