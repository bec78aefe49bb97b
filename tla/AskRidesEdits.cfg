\* Two runs over eight days, one edit of a pause, a flag or the season anywhere in
\* between: what an undisturbed run posts.
CONSTANTS
    MaxDay = 7
    MaxRuns = 2
    MaxChanges = 1
    MaxFaults = 0
    Edits = {"pause", "season", "flag"}
    Scopes = {"both", "fellowship"}
    HostOffsets = {0, 1}
    UpcomingWeeks = 2
    WildcardSundays = {6}
    SchoolSundays = {6}
SPECIFICATION Spec
 
PROPERTIES HeaderHasBody PauseHonoured
CHECK_DEADLOCK FALSE
