-------------------------- MODULE GroupController --------------------------
(***************************************************************************)
(* The two group workers of the common controller                           *)
(* (pkg/common-controller/groupsnapshot_controller_helper.go), which share  *)
(* the private stores.  A step is the code between two calls to the API     *)
(* server.                                                                  *)
(*                                                                         *)
(* The lister and the store of the group are one copy: an older version     *)
(* from the lister is dropped by StoreObjectUpdate and has no effect, and   *)
(* the event of the newer one syncs the object again.  Whether the lister   *)
(* still has the object is kept apart.  Of the content both are kept: the   *)
(* group worker reads what only the content worker puts into the store, and *)
(* writes an annotation into it.                                            *)
(***************************************************************************)
EXTENDS GroupObjects

RetryGroup == gw' = GroupIdle /\ groupQueue' = TRUE

NotGroupWorker == <<config, cont, groupListed, contentLister, indexed, cw,
                    sidecar, world>>

-----------------------------------------------------------------------------
(* The decisions *)

\* getDynamicallyProvisionedGroupContentFromStore.
HasContent == contentStore # Absent

\* checkandAddGroupSnapshotFinalizers: the content was found, and the status of
\* a group that is not being deleted already names it.
NeedsFinalizer(g) == HasContent /\ g.status # "unbound" /\ ~g.fin

\* syncReadyGroupSnapshot: the content has to be there and to point back.
ReadyStep(g) ==
    IF HasContent /\ contentStore.uid THEN GroupIdle
    ELSE [GroupIdle EXCEPT !.pc = "missing", !.snap = g]

\* Changed for a check: the group snapshot is ready, nothing is left to be made.
MembersStepUnlessReady(status) ==
    [GroupIdle EXCEPT !.pc = IF status = "cut" /\ Members # {} THEN "member"
                             ELSE "status",
                      !.status = status, !.found = TRUE, !.todo = Members]

\* createSnapshotsForGroupSnapshotContent makes the members once the content
\* has the handle and the list of the snapshots; then the group is bound.
MembersStep(status) ==
    IF HasHandle(status) /\ Members # {}
    THEN [GroupIdle EXCEPT !.pc = "member", !.status = status, !.found = TRUE,
                           !.todo = Members]
    ELSE [GroupIdle EXCEPT !.pc = "status", !.status = status, !.found = TRUE]

\* syncUnreadyGroupSnapshot of a static group: the content is bound, then the
\* group's status is written.
StaticStep ==
    IF ~contentStore.uid THEN [GroupIdle EXCEPT !.pc = "bindContent"]
    ELSE [GroupIdle EXCEPT !.pc = "status", !.status = contentStore.status]

\* A static group whose content is missing is an error: the key is queued again.
WaitsForContent(g) ==
    g.status # "ready" /\ ~HasContent /\ config.kind = "static"

\* What syncGroupSnapshot calls next for copy g, after the finalizer.
SyncStep(g) ==
    CASE g.status = "ready" -> ReadyStep(g)
      [] g.status # "ready" /\ ~HasContent -> [GroupIdle EXCEPT !.pc = "create"]
      [] g.status # "ready" /\ HasContent ->
            IF config.kind = "static" THEN StaticStep
            ELSE MembersStep(contentStore.status)

Proceed(g) ==
    IF WaitsForContent(g) THEN RetryGroup
    ELSE gw' = SyncStep(g)

\* Changed for checks: the finalizer goes with the deletion of the content; stays
\* whatever the policy is.
AfterContentAtOnce(w) ==
    [w EXCEPT !.pc = IF w.todo # {} THEN "deleteMembers" ELSE "removeFinalizer"]
AfterContentNever(w) ==
    IF w.todo # {} THEN [w EXCEPT !.pc = "deleteMembers"]
    ELSE IF w.found THEN GroupIdle ELSE [w EXCEPT !.pc = "removeFinalizer"]

\* What is left of a deletion once the content was dealt with: the members,
\* then the finalizer, which stays when the content has to go first.
AfterContent(w) ==
    CASE w.todo # {} -> [w EXCEPT !.pc = "deleteMembers"]
      [] w.todo = {} /\ w.found /\ config.policy = "Delete" -> GroupIdle
      [] w.todo = {} /\ ~(w.found /\ config.policy = "Delete") ->
            [w EXCEPT !.pc = "removeFinalizer"]

\* Once the content is annotated: delete it if the policy says so.
AfterAnnotation(w) ==
    IF w.found /\ config.policy = "Delete" THEN [w EXCEPT !.pc = "delete"]
    ELSE AfterContent(w)

\* The content that a group being deleted finds: by the name in its status,
\* never by the name a content is given; and it has to point back.
FindsContent(g) ==
    /\ g.status # "unbound"
    /\ HasContent
    /\ contentStore.uid

\* Changed for a check: nobody looks for a restore.
HeldByFinalizerOnly(g) == ~g.fin

\* A group without its finalizer is left to Kubernetes; one of whose members a
\* volume is being restored waits.
Held(g) == ~g.fin \/ (restoring /\ indexed # {})

-----------------------------------------------------------------------------
(* Taking a key off the group queue *)

\* syncGroupSnapshotByKey of a group the lister no longer has.
ForgetGroup ==
    /\ gw.pc = "idle" /\ groupQueue /\ ~groupListed
    /\ groupQueue' = FALSE
    /\ groupStore' = Absent
    /\ contentQueue' = (contentQueue \/
           (groupStore # Absent /\ groupStore.status # "unbound"))
    /\ UNCHANGED <<api, snap, contentStore, contentView, gw, budget, lapses, NotGroupWorker>>

TakeGroup == /\ gw.pc = "idle" /\ groupQueue /\ groupListed
             /\ groupStore # Absent

\* syncGroupSnapshot of a group that is not being deleted.
SyncGroupSnapshot ==
    LET g == groupStore
    IN /\ TakeGroup /\ ~g.deleting
       /\ IF NeedsFinalizer(g)
          THEN /\ gw' = [GroupIdle EXCEPT !.pc = "addFinalizer", !.snap = g]
               /\ groupQueue' = FALSE
          ELSE /\ Proceed(g)
               /\ groupQueue' = WaitsForContent(g)
       /\ UNCHANGED <<api, snap, groupStore, contentStore, contentView, contentQueue,
                      budget, lapses, NotGroupWorker>>

\* processGroupSnapshotWithDeletionTimestamp, up to its first call.  The
\* annotation is set in the cached object before it is sent.
SyncDeletingGroupSnapshot ==
    LET g == groupStore
        found == FindsContent(g)
        annotated == found /\ "BeingDeleted" \in contentStore.anns
        w == [GroupIdle EXCEPT !.snap = g, !.found = found, !.todo = indexed]
    IN /\ TakeGroup /\ g.deleting
       /\ groupQueue' = FALSE
       /\ \/ Held(g) /\ gw' = GroupIdle /\ UNCHANGED <<contentStore, lapses>>
          \/ /\ ~Held(g)
             /\ IF found /\ ~annotated
                THEN /\ contentStore' = [contentStore EXCEPT
                                            !.anns = @ \cup {"BeingDeleted"}]
                     /\ gw' = [w EXCEPT !.pc = "annotate",
                                        !.anns = contentStore'.anns]
                ELSE /\ UNCHANGED contentStore
                     /\ gw' = AfterAnnotation(w)
             /\ Note(When(~found /\ vgsc # Absent, "unlisted") \cup
                     When(annotated /\ vgsc # Absent /\ "BeingDeleted" \notin vgsc.anns,
                          "masked"))
       /\ UNCHANGED <<api, snap, groupStore, contentView, contentQueue, budget,
                      NotGroupWorker>>

-----------------------------------------------------------------------------
(* The calls of the group worker *)

\* addGroupSnapshotFinalizer: an update of the copy in hand.  The sync goes on
\* with that copy.
AddGroupFinalizer(reply) ==
    LET g == [gw.snap EXCEPT !.fin = TRUE]
    IN /\ gw.pc = "addFinalizer"
       /\ Answer(vgs = gw.snap, reply)
       /\ vgs' = IF reply = "error" THEN vgs ELSE g
       /\ IF reply = "ok"
          THEN /\ groupStore' = g
               /\ groupQueue' = TRUE
               /\ gw' = IF WaitsForContent(gw.snap) THEN GroupIdle
                        ELSE SyncStep(gw.snap)
          ELSE RetryGroup /\ UNCHANGED groupStore
       /\ UNCHANGED <<vgsc, snap, contentStore, contentView, contentQueue, lapses,
                      NotGroupWorker>>

NewContent == [deleting |-> FALSE, fin |-> FALSE, anns |-> {}, status |-> "nil",
               uid |-> TRUE, versioned |-> TRUE]

\* createGroupSnapshotContent.  A content that exists is taken for the one this
\* call made, and what enters the store is the object that was to be created.
CreateContent(reply) ==
    LET exists == vgsc # Absent
        stored == [NewContent EXCEPT !.versioned = ~exists]
    IN /\ gw.pc = "create"
       /\ IF exists THEN reply # "lost" /\ Answer(TRUE, reply) ELSE Answer(TRUE, reply)
       /\ vgsc' = IF exists \/ reply = "error" THEN vgsc ELSE NewContent
       /\ IF reply = "ok"
          THEN /\ StoreContent(stored)
               /\ contentQueue' = TRUE
               /\ gw' = [GroupIdle EXCEPT !.pc = "status"]
               /\ UNCHANGED groupQueue
          ELSE RetryGroup /\ UNCHANGED <<contentStore, contentView, contentQueue>>
       /\ Note(When(reply = "ok" /\ exists /\ contentStore = Absent, "blind") \cup
               When(vgs = Absent /\ reply # "error", "early"))
       /\ UNCHANGED <<vgs, snap, groupStore, NotGroupWorker>>

\* updateGroupSnapshotStatus: the group names its content and is as ready.
WithStatus(g, status) ==
    [g EXCEPT !.status = IF status = "ready" THEN "ready" ELSE "bound"]

\* A Get and an UpdateStatus of what it returned.  A change in between refuses the
\* update, which is a failure like any other.  bindandUpdateVolumeGroupSnapshot
\* also stores the result.
UpdateStatus(reply) ==
    LET bound == WithStatus(vgs, gw.status)
    IN /\ gw.pc = "status"
       /\ Answer(vgs # Absent, reply)
       /\ vgs' = IF reply = "error" THEN vgs ELSE bound
       /\ IF reply = "ok"
          THEN /\ gw' = GroupIdle
               /\ groupStore' = IF gw.found THEN bound ELSE groupStore
               /\ groupQueue' = (groupQueue \/ (gw.found /\ bound # groupStore))
          ELSE RetryGroup /\ UNCHANGED groupStore
       /\ UNCHANGED <<vgsc, snap, contentStore, contentView, contentQueue, lapses,
                      NotGroupWorker>>

\* updateGroupSnapshotErrorStatusWithEvent with setReadyToFalse.
MarkMissing(reply) ==
    LET g == [gw.snap EXCEPT !.status = "bound"]
    IN /\ gw.pc = "missing"
       /\ Answer(vgs = gw.snap, reply)
       /\ vgs' = IF reply = "error" THEN vgs ELSE g
       /\ IF reply = "ok" THEN gw' = GroupIdle /\ groupStore' = g /\ groupQueue' = TRUE
          ELSE RetryGroup /\ UNCHANGED groupStore
       /\ UNCHANGED <<vgsc, snap, contentStore, contentView, contentQueue, lapses,
                      NotGroupWorker>>

\* checkAndBindGroupSnapshotContent.
BindContent(reply) ==
    LET c == [vgsc EXCEPT !.uid = TRUE]
    IN /\ gw.pc = "bindContent"
       /\ Answer(vgsc # Absent, reply)
       /\ vgsc' = IF reply = "error" THEN vgsc ELSE c
       /\ IF reply = "ok"
          THEN /\ StoreContent(c)
               /\ contentQueue' = TRUE
               /\ gw' = [GroupIdle EXCEPT !.pc = "status", !.status = c.status]
               /\ UNCHANGED groupQueue
          ELSE RetryGroup /\ UNCHANGED <<contentStore, contentView, contentQueue>>
       /\ UNCHANGED <<vgs, snap, groupStore, lapses, NotGroupWorker>>

\* setAnnVolumeGroupSnapshotBeingDeleted: the whole map of annotations is
\* replaced by that of the copy.
AnnotateDeleted(reply) ==
    LET c == [vgsc EXCEPT !.anns = gw.anns]
    IN /\ gw.pc = "annotate"
       /\ Answer(vgsc # Absent, reply)
       /\ vgsc' = IF reply = "error" THEN vgsc ELSE c
       /\ IF reply = "ok"
          THEN /\ StoreContent(c)
               /\ contentQueue' = TRUE
               /\ IF Comparable(c) THEN gw' = AfterAnnotation(gw) /\ UNCHANGED groupQueue
                  ELSE RetryGroup
          ELSE RetryGroup /\ UNCHANGED <<contentStore, contentView, contentQueue>>
       /\ Note(When(reply # "error" /\ ~(vgsc.anns \subseteq gw.anns), "dropped"))
       /\ UNCHANGED <<vgs, snap, groupStore, NotGroupWorker>>

\* The content's deletion timestamp.  A content that is gone is an error.
DeleteContent(reply) ==
    /\ gw.pc = "delete"
    /\ Answer(vgsc # Absent, reply)
    /\ vgsc' = IF reply = "error" THEN vgsc ELSE Delete(vgsc)
    /\ IF reply = "ok" THEN gw' = AfterContent(gw) /\ UNCHANGED groupQueue
       ELSE RetryGroup
    /\ UNCHANGED <<vgs, snap, groupStore, contentStore, contentView, contentQueue,
                   lapses,
                   NotGroupWorker>>

\* A member that can not be released any more once it is being deleted.
Unreleasable(s) ==
    s # Absent /\ ~s.deleting /\ (~s.named \/ "AsSource" \notin s.fins)

\* The deletion of the members the index had; one that is gone is passed over.
DeleteMember(reply) ==
    LET m == CHOOSE x \in gw.todo : TRUE
        s == snap[m]
    IN /\ gw.pc = "deleteMembers"
       /\ Answer(TRUE, reply)
       /\ s = Absent => reply # "lost"
       /\ snap' = IF reply = "error" \/ s = Absent THEN snap
                  ELSE [snap EXCEPT ![m] = KeepMember([s EXCEPT !.deleting = TRUE])]
       /\ IF reply = "ok"
          THEN /\ gw' = AfterContent([gw EXCEPT !.todo = @ \ {m}])
               /\ UNCHANGED groupQueue
          ELSE RetryGroup
       /\ Note(When(reply # "error" /\ Unreleasable(s), "unnamed"))
       /\ UNCHANGED <<api, groupStore, contentStore, contentView, contentQueue,
                      NotGroupWorker>>

\* removeGroupSnapshotFinalizer: an update of the copy in hand; the group goes.
RemoveGroupFinalizer(reply) ==
    /\ gw.pc = "removeFinalizer"
    /\ Answer(vgs = gw.snap, reply)
    /\ vgs' = IF reply = "error" THEN vgs ELSE Absent
    /\ IF reply = "ok"
       THEN /\ gw' = GroupIdle
            /\ groupStore' = [gw.snap EXCEPT !.fin = FALSE]
            /\ groupQueue' = TRUE
       ELSE RetryGroup /\ UNCHANGED groupStore
    /\ Note(When(reply # "error" /\ \E m \in Members :
                     IF snap[m] = Absent THEN cont[m] # Absent
                     ELSE ~snap[m].deleting, "partial"))
    /\ UNCHANGED <<vgsc, snap, contentStore, contentView, contentQueue,
                   NotGroupWorker>>

-----------------------------------------------------------------------------
(* createIndividualSnapshotForGroupSnapshot: the five calls that make one
   member.  Each is repeated from the first when a later one fails. *)

Member == CHOOSE x \in gw.todo : TRUE

NewMemberContent == [deleting |-> FALSE, fin |-> FALSE, uid |-> FALSE,
                     marked |-> FALSE, status |-> "nil"]
NewMemberSnapshot == [deleting |-> FALSE, fins |-> {"InGroup"}, bound |-> FALSE,
                      ready |-> FALSE, named |-> FALSE]

NextMember(m) ==
    IF gw.todo = {m} THEN [gw EXCEPT !.pc = "status", !.todo = {}, !.stage = "content"]
    ELSE [gw EXCEPT !.todo = @ \ {m}, !.stage = "content"]

MemberReply(reply, next) ==
    IF reply = "ok" THEN gw' = next /\ UNCHANGED groupQueue ELSE RetryGroup

AtStage(stage) == gw.pc = "member" /\ gw.stage = stage

NotMembers == <<config, api, caches, contentQueue, cw, sidecar, world>>

\* createOrGetVolumeSnapshotContent.
CreateMemberContent(reply) ==
    LET m == Member
    IN /\ AtStage("content")
       /\ Answer(TRUE, reply)
       /\ cont' = IF reply = "error" \/ cont[m] # Absent THEN cont
                  ELSE [cont EXCEPT ![m] = NewMemberContent]
       /\ MemberReply(reply, [gw EXCEPT !.stage = "snapshot"])
       /\ Note(When(reply # "error" /\ cont[m] = Absent /\
                    (vgs = Absent \/ vgs.deleting), "partial"))
       /\ UNCHANGED <<snap, NotMembers>>

\* createOrGetVolumeSnapshot: the snapshot has the InGroup finalizer and an
\* owner, the group, from the start.
CreateMemberSnapshot(reply) ==
    LET m == Member
    IN /\ AtStage("snapshot")
       /\ Answer(TRUE, reply)
       /\ snap' = IF reply = "error" \/ snap[m] # Absent THEN snap
                  ELSE [snap EXCEPT ![m] = NewMemberSnapshot]
       /\ MemberReply(reply, [gw EXCEPT !.stage = "bindContent"])
       /\ Note(When(reply # "error" /\ snap[m] = Absent /\
                    (vgs = Absent \/ vgs.deleting), "partial"))
       /\ UNCHANGED <<cont, NotMembers>>

\* bindSnapshotContentToSnapshot.
BindMemberContent(reply) ==
    LET m == Member
    IN /\ AtStage("bindContent")
       /\ Answer(cont[m] # Absent, reply)
       /\ cont' = IF reply = "error" THEN cont ELSE [cont EXCEPT ![m].uid = TRUE]
       /\ MemberReply(reply, [gw EXCEPT !.stage = "bindSnapshot"])
       /\ UNCHANGED <<snap, lapses, NotMembers>>

\* bindSnapshotToSnapshotContent replaces the whole status.
BindMemberSnapshot(reply) ==
    LET m == Member
    IN /\ AtStage("bindSnapshot")
       /\ Answer(snap[m] # Absent, reply)
       /\ snap' = IF reply = "error" THEN snap
                  ELSE [snap EXCEPT ![m].bound = TRUE, ![m].ready = FALSE,
                                    ![m].named = FALSE]
       /\ MemberReply(reply, [gw EXCEPT !.stage = "status"])
       /\ Note(When(reply # "error" /\ snap[m].deleting, "unnamed"))
       /\ UNCHANGED <<cont, NotMembers>>

\* updateVolumeSnapshotContentStatus replaces the whole status by what the
\* group's content had listed when the group snapshot was first cut.
UpdateMemberContentStatus(reply) ==
    LET m == Member
    IN /\ AtStage("status")
       /\ Answer(cont[m] # Absent, reply)
       /\ \E listed \in {"cut", gw.status} :
             cont' = IF reply = "error" THEN cont
                     ELSE [cont EXCEPT ![m].status = listed]
       /\ MemberReply(reply, NextMember(m))
       /\ UNCHANGED <<snap, lapses, NotMembers>>

MakeMember(reply) ==
    \/ CreateMemberContent(reply) \/ CreateMemberSnapshot(reply)
    \/ BindMemberContent(reply)   \/ BindMemberSnapshot(reply)
    \/ UpdateMemberContentStatus(reply)

-----------------------------------------------------------------------------
(* The group content worker *)

NotContentWorker == <<config, vgs, members, groupStore, groupListed,
                      contentLister, indexed, gw, sidecar, world>>

\* syncGroupSnapshotContentByKey of a content the lister no longer has.
ForgetContent ==
    /\ cw = "idle" /\ contentQueue /\ contentLister = Absent
    /\ contentQueue' = FALSE
    /\ contentStore' = Absent /\ contentView' = "behind"
    /\ groupQueue' = (groupQueue \/ contentStore # Absent)
    /\ UNCHANGED <<vgsc, cw, budget, lapses, NotContentWorker>>

TakeContent == /\ cw = "idle" /\ contentQueue /\ contentLister # Absent
               /\ contentQueue' = FALSE

\* StoreObjectUpdate refuses what the lister has: it is older, or one of the two
\* can not be compared.
Refused == contentStore # Absent /\ (contentView = "ahead" \/ ~contentStore.versioned)

IgnoreContent ==
    /\ TakeContent
    /\ Refused
    /\ UNCHANGED <<vgsc, contentStore, contentView, groupQueue, cw, budget, lapses,
                   NotContentWorker>>

\* needsUpdateGroupSnapshotStatus.  The two ReadyToUse are compared by address:
\* where both are set they always differ.
NeedsUpdate(g, c) ==
    \/ g.status = "unbound" /\ c.status # "nil"
    \/ g.status # "unbound" /\ c.status \in {"error", "cut", "ready"}

\* getGroupSnapshotFromStore.
KnownGroup == groupStore # Absent

\* syncGroupSnapshotContent.
SyncGroupSnapshotContent ==
    LET c == IF contentView = "same" THEN contentStore ELSE contentLister
    IN /\ TakeContent
       /\ ~Refused
       /\ contentStore' = c /\ contentView' = "same"
       /\ cw' = IF c.uid /\ ~c.deleting /\ ~c.fin THEN "addFinalizer" ELSE "idle"
       /\ groupQueue' = (groupQueue \/
             /\ cw' = "idle" /\ c.uid
             /\ KnownGroup /\ NeedsUpdate(groupStore, c))
       /\ UNCHANGED <<vgsc, budget, lapses, NotContentWorker>>

\* addGroupSnapshotContentFinalizer: a patch.
AddContentFinalizer(reply) ==
    LET c == [vgsc EXCEPT !.fin = TRUE]
    IN /\ cw = "addFinalizer"
       /\ Answer(vgsc # Absent, reply)
       /\ vgsc' = IF reply = "error" THEN vgsc ELSE c
       /\ cw' = "idle"
       /\ contentQueue' = TRUE
       /\ IF reply = "ok" THEN StoreContent(c)
          ELSE UNCHANGED <<contentStore, contentView>>
       /\ UNCHANGED <<groupQueue, lapses, NotContentWorker>>

-----------------------------------------------------------------------------
GroupWorker ==
    \/ ForgetGroup \/ SyncGroupSnapshot \/ SyncDeletingGroupSnapshot
    \/ \E reply \in Replies :
          \/ AddGroupFinalizer(reply) \/ CreateContent(reply)
          \/ UpdateStatus(reply)      \/ MarkMissing(reply)
          \/ BindContent(reply)       \/ AnnotateDeleted(reply)
          \/ DeleteContent(reply)     \/ DeleteMember(reply)
          \/ RemoveGroupFinalizer(reply) \/ MakeMember(reply)

ContentWorker ==
    \/ ForgetContent \/ IgnoreContent \/ SyncGroupSnapshotContent
    \/ \E reply \in Replies : AddContentFinalizer(reply)
=============================================================================
