SPECIFICATION CalendarSpec
CONSTANTS
    AnchorMonths = {24333, 24334, 24335, 24336, 24337, 24338}
    CustomUnits = {"DAYS", "WEEKS", "MONTHS", "YEARS"}
    CustomCounts = {2, 13}
    LastScheduleMonth = 24395
    StartMonth = 24324
    LastMonth = 24337
INVARIANTS
    OnSchedule
    ReminderWindow
    
PROPERTIES
    MovesForward
CHECK_DEADLOCK FALSE
