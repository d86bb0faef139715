SPECIFICATION MCSpec
CONSTANTS
    MaxSent = 3
    Values <- CommandObjects
INVARIANT FreedOnce
CHECK_DEADLOCK FALSE
