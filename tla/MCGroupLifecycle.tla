-------------------------- MODULE MCGroupLifecycle --------------------------
(***************************************************************************)
(* Instances of GroupLifecycle for TLC: which groups, and which faults a    *)
(* behaviour may have.  A fault can meet every call of every worker.        *)
(***************************************************************************)
EXTENDS GroupLifecycle

Reclaimed  == {[kind |-> "dynamic", policy |-> "Delete"]}
EveryGroup == Config
OfBothKinds == Reclaimed \cup {[kind |-> "static", policy |-> "Retain"]}

\* The group is kept; one event of each of these kinds.
Kept(kinds) == [k \in Faults |-> IF k \in kinds THEN 1 ELSE 0]

\* The user deletes the group at any time.
Deleted(kinds) == Kept(kinds \cup {"delete"})

\* One thing goes wrong, or another user comes in between.
OneFault ==
    {Deleted({"lost"}), Deleted({"csi"}), Deleted({"poll"}), Deleted({"crash"}),
     Deleted({"single"}), Deleted({"restore"}), Kept({"api"})}

\* What delays a creation or a deletion.
Delayed ==
    {Kept({"api"}), Kept({"csi"}), Kept({"poll"}), Deleted({}), Deleted({"restore"})}

\* The driver does not answer, and the report of that fails.
Unanswered == {Deleted({"csi", "api"})}
=============================================================================
