\* One run and two edits: a pause set and then changed while the run is clearing it.
CONSTANTS
    MaxDay = 2
    MaxRuns = 1
    MaxChanges = 2
    MaxFaults = 0
    Edits = {"pause"}
    Scopes = {"fellowship"}
    HostOffsets = {0}
    UpcomingWeeks = 1
    WildcardSundays = {}
    SchoolSundays = {}
SPECIFICATION Spec
PROPERTY IndefiniteStays
CHECK_DEADLOCK FALSE
