---------------------------- MODULE GroupMembers ----------------------------
(***************************************************************************)
(* What the workers of single snapshots do with the members of a group:     *)
(* the common controller's snapshot and content workers and the sidecar's   *)
(* content worker.  SnapshotLifecycle has these workers call by call, with  *)
(* their caches and failures; here each call is one step on the current     *)
(* objects, which is what matters to the group: in which order the members  *)
(* and the group move.                                                      *)
(***************************************************************************)
EXTENDS GroupObjects

NotMemberStep == <<config, api, caches, queues, gw, cw, sidecar, world, budget>>

\* The content a member's status names, if it points back to the member.
BoundContent(m) == snap[m].bound /\ cont[m] # Absent /\ cont[m].uid

\* addSnapshotFinalizer.  A member never gets the Bound finalizer: its content is
\* looked for under the name of a single snapshot's content, and has another.
AddMemberFinalizer(m) ==
    /\ snap[m] # Absent /\ ~snap[m].deleting
    /\ "AsSource" \notin snap[m].fins
    /\ snap' = [snap EXCEPT ![m].fins = @ \cup {"AsSource"}]
    /\ UNCHANGED <<cont, lapses, NotMemberStep>>

\* updateSnapshotStatus takes the group's name from the group content that has
\* the same handle, and does nothing while none has.
GroupNameKnown(m) ==
    cont[m].status = "nil" \/ (vgsc # Absent /\ HasHandle(vgsc.status))

\* syncUnreadySnapshot of a member: an error until it is bound to a content.
UpdateMemberStatus(m) ==
    LET s == snap[m]
        synced == [s EXCEPT !.ready = cont[m].status = "ready",
                            !.named = @ \/ cont[m].status # "nil"]
    IN /\ s # Absent /\ ~s.deleting /\ "AsSource" \in s.fins
       /\ s.bound /\ ~s.ready /\ cont[m] # Absent
       /\ GroupNameKnown(m)
       /\ synced # s
       /\ snap' = [snap EXCEPT ![m] = synced]
       /\ UNCHANGED <<cont, lapses, NotMemberStep>>

\* addContentFinalizer, once the content is bound.
AddMemberContentFinalizer(m) ==
    /\ cont[m] # Absent /\ cont[m].uid /\ ~cont[m].deleting /\ ~cont[m].fin
    /\ cont' = [cont EXCEPT ![m].fin = TRUE]
    /\ UNCHANGED <<snap, lapses, NotMemberStep>>

\* checkandUpdateContentStatusOperation: the driver is asked for the status of
\* the member's snapshot; a member is never created by itself.
UpdateMemberContent(m) ==
    /\ cont[m] # Absent /\ cont[m].status = "cut"
    /\ storage = "ready"
    /\ cont' = [cont EXCEPT ![m].status = "ready"]
    /\ UNCHANGED <<snap, lapses, NotMemberStep>>

\* IsSnapshotDeletionCandidate.
Candidate(s) == s # Absent /\ s.deleting /\ "AsSource" \in s.fins

\* Changed for a check: the group is not asked for.
MayGoAlone(m) == Candidate(snap[m]) /\ ~(restoring /\ BoundContent(m))

\* checkandRemoveSnapshotFinalizersAndCheckandDeleteContent: a member may go when
\* nothing restores from it and the group its status names is gone.
MayGo(m) == /\ Candidate(snap[m])
            /\ ~(restoring /\ BoundContent(m))
            /\ snap[m].named => ~groupListed

\* setAnnVolumeSnapshotBeingDeleted.
MarkMemberContent(m) ==
    /\ MayGo(m) /\ BoundContent(m) /\ ~cont[m].marked
    /\ cont' = [cont EXCEPT ![m].marked = TRUE]
    /\ UNCHANGED <<snap, lapses, NotMemberStep>>

Marked(m) == BoundContent(m) => cont[m].marked

\* The content's deletion timestamp.
DeleteMemberContent(m) ==
    /\ MayGo(m) /\ BoundContent(m) /\ cont[m].marked
    /\ config.policy = "Delete" /\ ~cont[m].deleting
    /\ cont' = [cont EXCEPT ![m] = KeepContent([@ EXCEPT !.deleting = TRUE])]
    /\ UNCHANGED <<snap, lapses, NotMemberStep>>

\* Changed for a check: the member goes before its content.
ReleaseMemberFirst(m) ==
    /\ MayGo(m)
    /\ snap' = [snap EXCEPT ![m] = KeepMember([@ EXCEPT !.fins = {}])]
    /\ UNCHANGED <<cont, lapses, NotMemberStep>>

\* removeSnapshotFinalizer: AsSource always, InGroup when the status names the
\* group.
ReleaseMember(m) ==
    LET fins == snap[m].fins \ (IF snap[m].named THEN {"AsSource", "InGroup"}
                                ELSE {"AsSource"})
    IN /\ MayGo(m) /\ Marked(m)
       /\ BoundContent(m) /\ config.policy = "Delete" => cont[m].deleting
       /\ snap' = [snap EXCEPT ![m] = KeepMember([@ EXCEPT !.fins = fins])]
       /\ UNCHANGED <<cont, lapses, NotMemberStep>>

\* The sidecar's removeContentFinalizer.  The driver is not called: the group's
\* deletion takes the snapshots of its members with it.
ReleaseMemberContent(m) ==
    /\ cont[m] # Absent /\ cont[m].deleting /\ cont[m].marked /\ cont[m].fin
    /\ cont' = [cont EXCEPT ![m] = Absent]
    /\ UNCHANGED <<snap, lapses, NotMemberStep>>

MemberStep(m) ==
    \/ AddMemberFinalizer(m)        \/ UpdateMemberStatus(m)
    \/ AddMemberContentFinalizer(m) \/ UpdateMemberContent(m)
    \/ MarkMemberContent(m)         \/ DeleteMemberContent(m)
    \/ ReleaseMember(m)             \/ ReleaseMemberContent(m)
=============================================================================
