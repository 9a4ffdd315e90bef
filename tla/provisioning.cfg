SPECIFICATION FairSpec
CONSTANTS
    Absent = Absent
    Unset = Unset
    NoSecret = NoSecret
    Malformed = Malformed
    Classes = {k1, k2}
    Drivers = {d1, d2}
    Driver = d1
    Secrets = {s1}
    MaxChanges = 2
    MaxFaults = 1
INVARIANT ContentOfClass
INVARIANT GroupOfOneDriver
PROPERTY FreedAsCut
PROPERTY DeletionCompletes
CHECK_DEADLOCK FALSE
