SPECIFICATION Spec

CONSTANTS
    Absent = Absent
    Members = {m1}
    Configs <- Reclaimed
    Budgets <- Unanswered
    Lagging = {"sidecar"}

PROPERTY ContentOutlivesStorage
CHECK_DEADLOCK FALSE
