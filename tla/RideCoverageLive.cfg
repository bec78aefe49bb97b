\* One message, edited or deleted, with two faults and a forced sync: what a
\* restart makes good.
CONSTANTS
    ann = ann
    bob = bob
    People <- MCPeople
    Texts <- MCTextsFew
    Places <- MCPlacesFew
    MaxMessages = 1
    MaxEdits = 1
    MaxForced = 1
    MaxFaults = 2
    PageSize = 1
    ScanLimit = 3
SPECIFICATION Spec
PROPERTIES MissedIsRecovered DeletedIsForgotten
CHECK_DEADLOCK FALSE
