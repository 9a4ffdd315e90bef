---------------------------- MODULE GroupPromise ----------------------------
(***************************************************************************)
(* What the controllers promise the user of one VolumeGroupSnapshot, said   *)
(* of what the user can see:                                               *)
(*                                                                         *)
(*   request  the VolumeGroupSnapshot: wanted, being deleted, or gone       *)
(*   offered  it is ReadyToUse, and nobody has asked for its deletion       *)
(*   stored   what the storage system holds                                *)
(*   present  the members that have a VolumeSnapshot                        *)
(*   wanted   the members the controller has to make                        *)
(*   policy   the deletionPolicy of its content                             *)
(*                                                                         *)
(* GroupLifecycle implements this module.                                  *)
(***************************************************************************)
CONSTANT Members

VARIABLES request, offered, stored, present, wanted, policy
vars == <<request, offered, stored, present, wanted, policy>>

\* A group snapshot an administrator made is there from the start, and its
\* members are not the controller's.
Init ==
    /\ request = "live" /\ offered = FALSE /\ present = {}
    /\ \/ stored = "none" /\ wanted = Members
       \/ stored = "ready" /\ wanted = {}
    /\ policy \in {"Delete", "Retain"}

Take ==
    /\ stored = "none"
    /\ stored' \in {"cut", "ready"}
    /\ UNCHANGED <<request, offered, present, wanted, policy>>

Ripen ==
    /\ stored = "cut"
    /\ stored' = "ready"
    /\ UNCHANGED <<request, offered, present, wanted, policy>>

Appear(m) ==
    /\ present' = present \cup {m}
    /\ UNCHANGED <<request, offered, stored, wanted, policy>>

\* All or nothing: the group is offered when the last member is there.
Offer ==
    /\ request = "live" /\ stored = "ready" /\ wanted \subseteq present
    /\ offered' = TRUE
    /\ UNCHANGED <<request, stored, present, wanted, policy>>

Withdraw == offered' = FALSE /\ UNCHANGED <<request, stored, present, wanted, policy>>

RequestDeletion ==
    /\ request = "live"
    /\ request' \in {"deleting", "gone"}
    /\ offered' = FALSE
    /\ UNCHANGED <<stored, present, wanted, policy>>

Go ==
    /\ request = "deleting"
    /\ request' = "gone"
    /\ UNCHANGED <<offered, stored, present, wanted, policy>>

\* No member is taken out of a group, not even by the user.
Leave(m) ==
    /\ request = "gone"
    /\ present' = present \ {m}
    /\ UNCHANGED <<request, offered, stored, wanted, policy>>

Reclaim ==
    /\ policy = "Delete" /\ request # "live"
    /\ stored' = "none"
    /\ UNCHANGED <<request, offered, present, wanted, policy>>

Next ==
    \/ Take \/ Ripen \/ Offer \/ Withdraw \/ RequestDeletion \/ Go \/ Reclaim
    \/ \E m \in Members : Appear(m) \/ Leave(m)

Spec == Init /\ [][Next]_vars
=============================================================================
