SPECIFICATION LiveSpec
CONSTANTS
    KeySets <- MCKeySets
    MaxEvents = 2
INVARIANTS
    LiveTypeOK
    StreamServesPage
PROPERTIES
    ListsAreViews
    HeardIsShown
CHECK_DEADLOCK FALSE
