------------------------- MODULE MCSnapshotLifecycle -------------------------
(***************************************************************************)
(* Instances of SnapshotLifecycle for TLC: which faults a behaviour may     *)
(* have.  A fault can meet every call of every worker in every state.       *)
(***************************************************************************)
EXTENDS SnapshotLifecycle

\* The snapshot is kept; one event of each of these kinds.
Kept(kinds) == [k \in Faults |-> IF k \in kinds THEN 1 ELSE 0]

\* The user deletes the snapshot at any time.
Deleted(kinds) == Kept(kinds \cup {"delete"})

NoFault    == {Deleted({})}
LostByHand == {Deleted({"lost", "admin"})}

\* One thing goes wrong: a call to the server, the reply to one, the driver (which
\* may also be slow); or a restart or an early resync, perhaps under a restore.
OneFault ==
    {Deleted({"api"}), Deleted({"lost"}), Deleted({"csi", "poll"}),
     Deleted({"restore", "crash"}), Deleted({"restore", "resync"})}

\* A deletion that a restore holds up; a creation that something delays.
HeldUp ==
    {Deleted({"restore"}), Kept({"api", "crash"}), Kept({"csi", "poll"})}
=============================================================================
