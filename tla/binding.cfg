SPECIFICATION FairSpec

CONSTANTS
    Absent = Absent
    Uids = 2
    Policies <- BothPolicies
    Budgets <- AnyOneFault

INVARIANT BoundBothWays
INVARIANT NothingLeaks
PROPERTY FreedForItsOwner
PROPERTY ContentGoesFirst
PROPERTY DeletionCompletes
PROPERTY BecomesReady
CHECK_DEADLOCK FALSE
