\* A message from before a restart is deleted.
CONSTANTS
    ann = ann
    bob = bob
    People <- MCPeople
    Texts <- MCTexts
    Places <- MCPlacesFew
    MaxMessages = 1
    MaxEdits = 1
    MaxForced = 0
    MaxFaults = 0
    PageSize = 1
    ScanLimit = 3
SPECIFICATION Spec
INVARIANT DeletedLeavesNoRows
CHECK_DEADLOCK FALSE
