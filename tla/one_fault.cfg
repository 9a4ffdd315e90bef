SPECIFICATION Spec

CONSTANTS
    Absent = Absent
    Policy = "Delete"
    Budgets <- OneFault
    Lagging = {}

PROPERTY FinalizerHeldUntilReclaimed
PROPERTY ReadyStable
INVARIANT NoOrphan
INVARIANT ReadyMeansCut
INVARIANT RestoreProtected
PROPERTY KeepsPromise
