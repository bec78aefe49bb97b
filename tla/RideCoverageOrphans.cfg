\* A message posted while a sync runs.
CONSTANTS
    ann = ann
    bob = bob
    People <- MCPeople
    Texts <- MCTexts
    Places <- MCPlacesFew
    MaxMessages = 2
    MaxEdits = 1
    MaxForced = 1
    MaxFaults = 0
    PageSize = 1
    ScanLimit = 3
SPECIFICATION Spec
PROPERTY OrphansAreGone
CHECK_DEADLOCK FALSE
