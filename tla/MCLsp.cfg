\* Two documents, the second importing the first.
CONSTANTS
    Uris <- MCUris
    Texts <- MCTexts
    NoText = "none"
    TextsOf <- MCTextsOf
    FilesOf <- MCFilesOf
    Imports <- MCImports
    InitDisk <- MCDisk
    MaxVersion = 1
    MaxMessages = 4
SPECIFICATION FairSpec
INVARIANTS
    TypeOK
    SettledFresh
    ClosedCleared
    ReadyIsFresh
PROPERTIES
    VersionsNeverGoBack
    FullReportsAreCurrent
    EventuallyFresh
    ShutdownCompletes
