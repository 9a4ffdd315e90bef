--------------------------- MODULE SnapshotPromise ---------------------------
(***************************************************************************)
(* What the controllers promise the user of one VolumeSnapshot, said of     *)
(* three things the user can see:                                          *)
(*                                                                         *)
(*   request    the VolumeSnapshot: wanted, being deleted, or gone          *)
(*   available  a volume may be restored from it: ReadyToUse, and nobody    *)
(*              has asked for its deletion                                 *)
(*   stored     what the storage system holds                              *)
(*                                                                         *)
(* Informers, queues, annotations, finalizers and the content object do not *)
(* appear.  SnapshotLifecycle implements this module.                      *)
(***************************************************************************)
CONSTANT Policy   \* deletionPolicy of the class, "Delete" or "Retain"

VARIABLES request, available, stored
vars == <<request, available, stored>>

Init == request = "live" /\ available = FALSE /\ stored = "none"

\* The driver takes the snapshot, which may need time to become ready.  It may
\* do so too late, on a request that was sent before the deletion.
Take ==
    /\ stored = "none"
    /\ stored' \in {"cut", "ready"}
    /\ UNCHANGED <<request, available>>

Ripen ==
    /\ stored = "cut"
    /\ stored' = "ready"
    /\ UNCHANGED <<request, available>>

\* The snapshot is offered only while it is ready and wanted.
Offer ==
    /\ request = "live" /\ stored = "ready"
    /\ available' = TRUE
    /\ UNCHANGED <<request, stored>>

Withdraw == available' = FALSE /\ UNCHANGED <<request, stored>>

\* With no finalizer in the way the VolumeSnapshot is gone at once.
RequestDeletion ==
    /\ request = "live"
    /\ request' \in {"deleting", "gone"}
    /\ available' = FALSE
    /\ UNCHANGED stored

Go ==
    /\ request = "deleting"
    /\ request' = "gone"
    /\ UNCHANGED <<available, stored>>

\* Storage is freed for the user who asked for it, and no one else.
Reclaim ==
    /\ Policy = "Delete" /\ request # "live"
    /\ stored' = "none"
    /\ UNCHANGED <<request, available>>

Next == Take \/ Ripen \/ Offer \/ Withdraw \/ RequestDeletion \/ Go \/ Reclaim

Spec == Init /\ [][Next]_vars
=============================================================================
