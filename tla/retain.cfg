SPECIFICATION Spec

CONSTANTS
    Absent = Absent
    Policy = "Retain"
    Budgets <- LostByHand
    Lagging = {}

PROPERTY NoReclaimBeforeDelete
INVARIANT MarkedBeforeGone
INVARIANT SafetyInv
