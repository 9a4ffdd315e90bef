SPECIFICATION Spec

CONSTANTS
    Absent = Absent
    Policy = "Delete"
    Budgets <- NoFault
    Lagging = {"snapshots", "contents", "sidecar"}

INVARIANT NoLeak
PROPERTY BoundFinalizerHeld
