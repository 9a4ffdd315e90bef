SPECIFICATION Spec
CONSTANTS
    Absent = Absent
    Unreadable = Unreadable
    Names = {x, y}
    Pairs = {p1, p2}
    nanos = nanos
    near = near
    Details <- Times
    NoDetails = NoDetails
    Rounded <- Nearby
    MaxStripped = 1
INVARIANT SameForBoth
PROPERTY OnlyRounded
CHECK_DEADLOCK FALSE
