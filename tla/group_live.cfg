SPECIFICATION FairSpec

CONSTANTS
    Absent = Absent
    Members = {m1}
    Configs <- OfBothKinds
    Budgets <- Delayed
    Lagging = {}

PROPERTY BecomesReady
PROPERTY DeletionCompletes
PROPERTY EverythingGoes
CHECK_DEADLOCK FALSE
