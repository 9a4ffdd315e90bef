SPECIFICATION FairSpec
CONSTANTS
    Absent = Absent
    Unset = Unset
    NoSecret = NoSecret
    Malformed = Malformed
    Classes = {k1}
    Drivers = {d1, d2}
    Driver = d1
    Secrets = {s1}
    MaxChanges = 1
    MaxFaults = 0
PROPERTY DeletionNeedsNoSecret
CHECK_DEADLOCK FALSE
