\* Document 1 is not on disk: closing it takes the module away.
CONSTANTS
    Uris <- MCUris
    Texts <- MCTexts
    NoText = "none"
    TextsOf <- MCTextsOf
    FilesOf <- UnsavedFilesOf
    Imports <- MCImports
    InitDisk <- UnsavedDisk
    MaxVersion = 1
    MaxMessages = 4
SPECIFICATION Spec
INVARIANT
    SettledFresh
