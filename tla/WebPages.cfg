\* Each page of the front end and of the demo, one at a time.
SPECIFICATION WebSpec
CONSTANTS
    Contents = {"default", "mine"}
    Followed <- MCChoices
    Windows = {"early", "late"}
    Spots = {"muir", "erc"}
    Members = {"ann", "bob"}
    Accounts = {"u1"}
    MaxHits = 2
    Stops = {"muir", "erc"}
    Drivers = {"dee"}
    Shared <- MCShared
    MaxAsked = 2
    Trips = {"ab", "ba"}
    MaxPatches = 2
    Cars = {"car", "van"}
    Places = {"muir", "erc"}
    Letters = {"a", "b"}
    Users <- MCUsers
    MaxText = 4
    MaxAccounts = 4
    MaxTimers = 4
INVARIANTS
    WebTypeOK
    QueryIsCurrent
    BadgeTellsPause
    OneSendAtATime
    PendingOnlyWhileAdding
    RoleShownIsStored
    ShownListIsStored
    NoSilentEnd
    LabelsAgree
    ResultOfLastAsked
    DemoAgrees
    AdminsStay
    ToastHasTimer
PROPERTIES
    TypedTextStands
    DialogKnowsItsPair
    ConfirmationStands
    LinkWins
    NewestLine
    CommitMakesMention
    PanelsAreSettings
