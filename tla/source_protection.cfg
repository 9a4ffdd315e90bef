SPECIFICATION FairSpec

CONSTANTS
    Absent = Absent
    Snapshots = {s1, s2}
    MaxFaults = 1

INVARIANT SourceHeld
INVARIANT NotForgotten
PROPERTY ClaimGoes
CHECK_DEADLOCK FALSE
