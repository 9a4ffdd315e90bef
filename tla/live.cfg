SPECIFICATION FairSpec

CONSTANTS
    Absent = Absent
    Policy = "Delete"
    Budgets <- HeldUp
    Lagging = {}

PROPERTY DeletionCompletes
PROPERTY StorageFreed
PROPERTY BecomesReady
