SPECIFICATION Spec

CONSTANTS
    Absent = Absent
    Members = {m1}
    Configs <- EveryGroup
    Budgets <- OneFault
    Lagging = {}

INVARIANT ReadyMeansComplete
INVARIANT NoLeakedGroup
INVARIANT RestoreProtected
PROPERTY GroupOutlivesContent
PROPERTY ContentOutlivesStorage
PROPERTY KeepsPromise
CHECK_DEADLOCK FALSE
