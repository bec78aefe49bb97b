\* Two users, one of them a new rider, two emojis, a thread created and ended.
CONSTANTS
    ann = ann
    bob = bob
    car = car
    house = house
    User <- MCUser
    Emoji <- MCEmoji
    Located <- MCLocated
    MaxReactions = 3
    MaxCommands = 2
    MaxFaults = 1
SYMMETRY MCSymmetry
SPECIFICATION Spec
INVARIANTS TypeOK QuietMatches OneChannelEach
PROPERTY KeeperStays
CHECK_DEADLOCK FALSE
