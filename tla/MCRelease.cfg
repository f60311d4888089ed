SPECIFICATION Spec
CONSTANTS
    Modules <- MCModules
    Lines <- MCLines
    Usable <- MCUsable
    Pins <- MCPins
    Promises <- MCPromises
    Versions <- MCVersions
    UpToDate = TRUE
    MaxReleases = 3
INVARIANTS
    CaretSafe
    AdviceFits
CHECK_DEADLOCK FALSE
