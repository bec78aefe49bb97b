\* Two messages, edited and deleted, with a crash or another fault, a forced
\* sync, and pages of one message.
CONSTANTS
    ann = ann
    bob = bob
    People <- MCPeople
    Texts <- MCTexts
    Places <- MCPlaces
    MaxMessages = 2
    MaxEdits = 1
    MaxForced = 1
    MaxFaults = 1
    PageSize = 1
    ScanLimit = 3
SPECIFICATION Spec
INVARIANTS TypeOK RowsJustified CleanIsCovered
CHECK_DEADLOCK FALSE
