\* A reaction is taken back and put again.
CONSTANTS
    ann = ann
    bob = bob
    car = car
    house = house
    User <- MCUser
    Emoji <- MCEmoji
    Located <- MCLocated
    MaxReactions = 3
    MaxCommands = 1
    MaxFaults = 0
SPECIFICATION Spec
PROPERTY OnlyRemovedAtZero
CHECK_DEADLOCK FALSE
