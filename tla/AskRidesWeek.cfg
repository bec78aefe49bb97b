\* Three runs of the first days of a week, with two edits, of pauses, the schedule
\* or a template, and a fault anywhere, also while a run is clearing a pause: the
\* same-week duplicate check, and which pauses hold.
CONSTANTS
    MaxDay = 3
    MaxRuns = 3
    MaxChanges = 2
    MaxFaults = 1
    Edits = {"pause", "schedule", "template"}
    Scopes = {}
    HostOffsets = {0}
    UpcomingWeeks = 2
    WildcardSundays = {6}
    SchoolSundays = {6}
SPECIFICATION Spec
INVARIANTS TypeOK NoWeeklyDuplicate
PROPERTY PauseHonoured
CHECK_DEADLOCK FALSE
