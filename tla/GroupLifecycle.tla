--------------------------- MODULE GroupLifecycle ---------------------------
(***************************************************************************)
(* A group snapshot from its creation to its deletion: the group workers of *)
(* the common controller (GroupController), the sidecar's (GroupSidecar),   *)
(* the workers of the single snapshots that are its members (GroupMembers), *)
(* the informers, the users, and restarts.                                  *)
(***************************************************************************)
EXTENDS GroupController, GroupSidecar, GroupMembers

StaticContent == [deleting |-> FALSE, fin |-> FALSE, anns |-> {},
                  status |-> "nil", uid |-> FALSE, versioned |-> TRUE]

\* The user has just created the VolumeGroupSnapshot; a static one finds the
\* content an administrator made for it, and its snapshot.
Init ==
    /\ config \in Configs
    /\ vgs = [deleting |-> FALSE, fin |-> FALSE, status |-> "unbound"]
    /\ vgsc = IF config.kind = "static" THEN StaticContent ELSE Absent
    /\ storage = IF config.kind = "static" THEN "ready" ELSE "none"
    /\ snap = [m \in Members |-> Absent] /\ cont = [m \in Members |-> Absent]
    /\ groupStore = Absent /\ groupListed = FALSE
    /\ contentStore = Absent /\ contentLister = Absent /\ contentView = "behind"
    /\ indexed = {}
    /\ groupQueue = FALSE /\ contentQueue = FALSE /\ sidecarQueue = FALSE
    /\ gw = GroupIdle /\ cw = "idle" /\ dw = SidecarIdle
    /\ sidecarStore = Absent
    /\ restoring = FALSE
    /\ budget \in Budgets
    /\ lapses = {}

-----------------------------------------------------------------------------
(* The informers: the handlers add the key of what changed to the queue *)

\* Has an informer news that its cache lacks?
GroupNews == groupListed # (vgs # Absent) \/ (vgs # Absent /\ vgs # groupStore)
MembersNews == indexed # {m \in Members : snap[m] # Absent}
SidecarNews == sidecarStore # vgsc

ContentNews == contentLister # vgsc

\* An informer that does not lag has delivered before anything else happens.
Behind == \/ "group" \notin Lagging /\ GroupNews
          \/ "content" \notin Lagging /\ ContentNews
          \/ "members" \notin Lagging /\ MembersNews
          \/ "sidecar" \notin Lagging /\ SidecarNews

\* enqueueGroupSnapshotWork.
DeliverGroup ==
    /\ GroupNews
    /\ groupListed' = (vgs # Absent)
    /\ groupStore' = IF vgs = Absent THEN groupStore ELSE vgs
    /\ groupQueue' = TRUE
    /\ UNCHANGED <<config, api, members, contents, indexed, contentQueue,
                   gw, cw, sidecar, world, budget, lapses>>

\* enqueueGroupSnapshotContentWork.
DeliverContent ==
    /\ ContentNews
    /\ contentLister' = vgsc
    /\ contentView' = IF vgsc = Absent THEN contentView ELSE "behind"
    /\ contentQueue' = TRUE
    /\ UNCHANGED <<config, api, members, groupStore, groupListed, contentStore,
                   indexed, groupQueue, gw, cw, sidecar, world, budget, lapses>>

\* The index of the snapshots by their owner.
DeliverMembers ==
    /\ MembersNews
    /\ indexed' = {m \in Members : snap[m] # Absent}
    /\ UNCHANGED <<config, api, members, groupStore, groupListed, contents, queues,
                   gw, cw, sidecar, world, budget, lapses>>

\* enqueueGroupSnapshotContentWork of the sidecar.
DeliverSidecar ==
    /\ SidecarNews
    /\ sidecarStore' = vgsc
    /\ sidecarQueue' = TRUE
    /\ UNCHANGED <<config, api, members, caches, queues, gw, cw, dw, world,
                   budget, lapses>>

Quiet == /\ gw.pc = "idle" /\ cw = "idle" /\ dw.pc = "idle"
         /\ ~groupQueue /\ ~contentQueue /\ ~sidecarQueue

\* The informers' resync: every key again.
Resync ==
    /\ Quiet
    /\ groupListed \/ contentLister # Absent \/ sidecarStore # Absent
    /\ groupQueue' = groupListed
    /\ contentQueue' = (contentLister # Absent)
    /\ sidecarQueue' = (sidecarStore # Absent)
    /\ UNCHANGED <<config, api, members, caches, gw, cw, sidecarStore, dw, world,
                   budget, lapses>>

-----------------------------------------------------------------------------
(* Restarts *)

\* The informers list anew.  initializeCaches fills the two stores of the groups
\* with single snapshots and contents: the store of the group contents has none
\* of them until the content worker takes its key.
RestartController ==
    /\ Spend("crash")
    /\ gw' = GroupIdle /\ cw' = "idle"
    /\ groupStore' = vgs /\ groupListed' = (vgs # Absent)
    /\ contentStore' = Absent /\ contentLister' = vgsc /\ contentView' = "behind"
    /\ indexed' = {m \in Members : snap[m] # Absent}
    /\ groupQueue' = (vgs # Absent) /\ contentQueue' = (vgsc # Absent)
    /\ UNCHANGED <<config, api, members, sidecar, world, lapses>>

RestartSidecar ==
    /\ Spend("crash")
    /\ dw' = SidecarIdle
    /\ sidecarStore' = vgsc
    /\ sidecarQueue' = (vgsc # Absent)
    /\ UNCHANGED <<config, api, members, caches, queues, gw, cw, world, lapses>>

-----------------------------------------------------------------------------
(* The users, and Kubernetes *)

UserDeletesGroup ==
    /\ vgs # Absent /\ ~vgs.deleting
    /\ Spend("delete")
    /\ vgs' = IF vgs.fin THEN [vgs EXCEPT !.deleting = TRUE] ELSE Absent
    /\ Note(When(~vgs.fin /\ (vgsc # Absent \/ gw.pc \in {"create", "member"}),
                 "early"))
    /\ UNCHANGED <<config, vgsc, members, caches, queues, gw, cw, sidecar, world>>

UserDeletesMember(m) ==
    /\ snap[m] # Absent /\ ~snap[m].deleting
    /\ Spend("single")
    /\ snap' = [snap EXCEPT ![m] = KeepMember([@ EXCEPT !.deleting = TRUE])]
    /\ Note({"alone"} \cup When(Unreleasable(snap[m]), "unnamed"))
    /\ UNCHANGED <<config, api, cont, caches, queues, gw, cw, sidecar, world>>

\* The garbage collector of Kubernetes deletes what a gone group owned.
CollectMember(m) ==
    /\ vgs = Absent
    /\ snap[m] # Absent /\ ~snap[m].deleting
    /\ snap' = [snap EXCEPT ![m] = KeepMember([@ EXCEPT !.deleting = TRUE])]
    /\ Note(When(Unreleasable(snap[m]), "unnamed"))
    /\ UNCHANGED <<config, api, cont, caches, queues, gw, cw, sidecar, world,
                   budget>>

\* A PVC that restores from a member appears, and is provisioned.
BeginRestore ==
    /\ ~restoring
    /\ \E m \in Members : snap[m] # Absent /\ snap[m].ready /\ ~snap[m].deleting
    /\ Spend("restore")
    /\ restoring' = TRUE
    /\ Note(When(gw.pc \in {"annotate", "delete"} \/ vgsc = Absent \/ vgsc.deleting,
                 "late"))
    /\ UNCHANGED <<config, api, members, caches, queues, gw, cw, sidecar, storage>>

EndRestore ==
    /\ restoring
    /\ restoring' = FALSE
    /\ UNCHANGED <<config, api, members, caches, queues, gw, cw, sidecar, storage,
                   budget, lapses>>

-----------------------------------------------------------------------------
Inform == DeliverGroup \/ DeliverContent \/ DeliverMembers \/ DeliverSidecar

AnyMember == \E m \in Members : MemberStep(m)

Controllers ==
    \/ GroupWorker \/ ContentWorker \/ SidecarWorker \/ CsiCompletes
    \/ AnyMember \/ Resync \/ RestartController \/ RestartSidecar

Others ==
    \/ UserDeletesGroup
    \/ \E m \in Members : UserDeletesMember(m) \/ CollectMember(m)
    \/ BeginRestore \/ EndRestore

Next ==
    \/ Inform
    \/ ~Behind /\ Controllers
    \/ ~Behind /\ Others

Spec == Init /\ [][Next]_vars

(***************************************************************************)
(* Workers take what is queued, informers deliver, informers resync; the    *)
(* workers of a member are run for as long as it needs them.  Failures and  *)
(* users are free not to come.  A request the driver did not answer takes   *)
(* effect some day, and a restore comes to its end.                         *)
(***************************************************************************)
Fairness ==
    /\ WF_vars(GroupWorker) /\ WF_vars(ContentWorker) /\ WF_vars(SidecarWorker)
    /\ WF_vars(CsiCompletes)
    /\ WF_vars(DeliverGroup) /\ WF_vars(DeliverContent)
    /\ WF_vars(DeliverMembers) /\ WF_vars(DeliverSidecar)
    /\ WF_vars(Resync)
    /\ \A m \in Members : WF_vars(MemberStep(m)) /\ WF_vars(CollectMember(m))
    /\ WF_vars(EndRestore)

FairSpec == Spec /\ Fairness

-----------------------------------------------------------------------------
(***************************************************************************)
(* Safety.                                                                 *)
(***************************************************************************)
Dynamic == config.kind = "dynamic"
Deletes == config.policy = "Delete"
Happened(which) == lapses \cap which # {}

\* The deletion of the group has been asked for, or is over.
Going == vgs = Absent \/ vgs.deleting

\* A member that is there in full: both objects, bound to each other.
Made(m) == /\ snap[m] # Absent /\ snap[m].bound
           /\ cont[m] # Absent /\ cont[m].uid

\* A group that says ReadyToUse has all its members, in full, however often the
\* making of them failed in the middle (createSnapshotsForGroupSnapshotContent);
\* a user who deletes one member takes its content away.
ReadyMeansComplete ==
    ~Going /\ vgs.status = "ready" /\ Dynamic
      => (\A m \in Members : Made(m)) \/ Happened({"alone"})

\* When group and content are gone the storage is free, unless the driver was
\* called before the content had its finalizer, or a patch built from a stale
\* copy removed AnnVolumeGroupSnapshotBeingCreated.
NoLeakedGroup ==
    vgs = Absent /\ vgsc = Absent /\ Deletes /\ Dynamic
      => storage = "none" \/ Happened({"exposed", "dropped"})

\* The Bound finalizer keeps the group until its content is gone
\* (processGroupSnapshotWithDeletionTimestamp, b), unless the content was not in
\* the store; a group deleted before it had the finalizer is not held at all.
GroupOutlivesContent ==
    [][vgs # Absent /\ vgs' = Absent /\ Deletes
         => vgsc = Absent \/ lapses' \cap {"early", "unlisted"} # {}]_vars

LosesContentFinalizer ==
    /\ vgsc # Absent /\ vgsc.fin
    /\ vgsc' # Absent => ~vgsc'.fin

\* The sidecar lets go of the content only when the storage is free ("the
\* finalizer on group snapshot content should NOT be removed to avoid leaking").
ContentOutlivesStorage ==
    [][Deletes /\ Dynamic /\ LosesContentFinalizer
         => storage = "none" \/ Happened({"dropped"})]_vars

\* The group snapshot a volume is being restored from stays, unless the restore
\* began after the deletion had looked for one.
RestoreProtected == restoring => storage = "ready" \/ Happened({"late"})

(***************************************************************************)
(* Refinement.                                                             *)
(***************************************************************************)
Promise == INSTANCE GroupPromise WITH
    request <- IF vgs = Absent THEN "gone"
               ELSE IF vgs.deleting THEN "deleting" ELSE "live",
    offered <- ~Going /\ vgs.status = "ready",
    stored  <- IF storage = "inflight" THEN "none" ELSE storage,
    present <- {m \in Members : snap[m] # Absent},
    wanted  <- IF Dynamic THEN Members ELSE {},
    policy  <- config.policy

\* The group is offered as a whole, no member leaves it before the group itself
\* is gone, and storage is freed for the user who asked for it.
KeepsPromise == Promise!Spec

(***************************************************************************)
(* Liveness, under FairSpec.                                               *)
(***************************************************************************)
\* A group nobody deletes becomes ready, unless a content without a version is
\* in the store, or a user deleted a member that was being made.
BecomesReady == <>(Going \/ vgs.status = "ready" \/ Happened({"blind", "alone"}))

\* A group whose deletion was asked for goes away, unless its content waits for
\* an annotation that the controller believes it has sent, or that was dropped.
DeletionCompletes ==
    (vgs # Absent /\ vgs.deleting)
      ~> (vgs = Absent \/ Happened({"masked", "dropped"}))

\* What a group leaves behind is taken away, unless it went too early or while
\* its members were being made, or a member can not be released.
Nothing ==
    /\ vgsc = Absent /\ storage = "none"
    /\ \A m \in Members : snap[m] = Absent /\ cont[m] = Absent

EverythingGoes ==
    (vgs = Absent /\ Deletes /\ Dynamic)
      ~> (Nothing \/ Happened({"early", "unlisted", "partial", "unnamed",
                                "exposed", "dropped"}))
=============================================================================
