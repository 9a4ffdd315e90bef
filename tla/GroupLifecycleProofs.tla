------------------------- MODULE GroupLifecycleProofs -------------------------
(***************************************************************************)
(* Safety of GroupLifecycle, and that it implements GroupPromise, for any    *)
(* members, kinds of group, policies and budgets.                            *)
(*                                                                         *)
(* Some forty actions of five actors touch the group.  The proof first says  *)
(* how each object can move in any step (the lemmas named ...Moves); the     *)
(* invariants then follow from the moves, and name no action.                *)
(*                                                                         *)
(*   - For any informers that lag: GroupKnown, and from it what the user     *)
(*     sees (ReadyMeansComplete, GroupOutlivesContent, the refinement).      *)
(*   - Where the sidecar sees the present content: NoLeakedGroup and         *)
(*     ContentOutlivesStorage (Guarded).                                    *)
(*   - Where the index has the present members: RestoreProtected             *)
(*     (Undisturbed).                                                       *)
(***************************************************************************)
EXTENDS GroupLifecycleTypes

-----------------------------------------------------------------------------
(* Who leaves what alone *)

LEMMA GroupWorkerFrame ==
    ASSUME GroupWorker
    PROVE  UNCHANGED <<config, groupListed, contentLister, indexed, cw, sidecar, world>>
  BY DEF GroupWorker, MakeMember, NotGroupWorker, NotMembers, caches, contents,
         ForgetGroup, SyncGroupSnapshot, SyncDeletingGroupSnapshot, AddGroupFinalizer,
         CreateContent, UpdateStatus, MarkMissing, BindContent, AnnotateDeleted,
         DeleteContent, DeleteMember, RemoveGroupFinalizer, CreateMemberContent,
         CreateMemberSnapshot, BindMemberContent, BindMemberSnapshot,
         UpdateMemberContentStatus

LEMMA MakeMemberFrame ==
    ASSUME NEW reply, MakeMember(reply)
    PROVE  UNCHANGED NotMembers /\ gw.pc = "member"
  BY DEF MakeMember, CreateMemberContent, CreateMemberSnapshot, BindMemberContent,
         BindMemberSnapshot, UpdateMemberContentStatus, AtStage

LEMMA ContentWorkerFrame ==
    ASSUME ContentWorker
    PROVE  UNCHANGED NotContentWorker /\ UNCHANGED lapses
  BY DEF ContentWorker, ForgetContent, IgnoreContent, SyncGroupSnapshotContent,
         AddContentFinalizer

LEMMA SidecarFrame ==
    ASSUME SidecarWorker \/ CsiCompletes
    PROVE  UNCHANGED NotSidecar
  BY DEF SidecarWorker, CsiCompletes, TakeSidecarContent, CsiCreate, CsiGetStatus, CsiDelete,
         AnnotateCreated, PutStatus, RemoveBeingCreated, Unannotate, PutErrorStatus,
         ClearStatus, RemoveContentFinalizer

LEMMA MemberFrame ==
    ASSUME AnyMember
    PROVE  UNCHANGED NotMemberStep /\ UNCHANGED lapses
  BY DEF AnyMember, MemberStep, AddMemberFinalizer, UpdateMemberStatus, ReleaseMember,
         AddMemberContentFinalizer, UpdateMemberContent, MarkMemberContent,
         DeleteMemberContent, ReleaseMemberContent

LEMMA InformFrame ==
    ASSUME Inform
    PROVE  UNCHANGED <<config, api, members, gw, cw, dw, world, budget, lapses>>
  BY DEF Inform, DeliverGroup, DeliverContent, DeliverMembers, DeliverSidecar, sidecar

LEMMA RestartFrame ==
    ASSUME RestartController \/ RestartSidecar \/ Resync
    PROVE  UNCHANGED <<config, api, members, world, lapses>>
  BY DEF RestartController, RestartSidecar, Resync

LEMMA OthersFrame ==
    ASSUME Others
    PROVE  UNCHANGED <<config, vgsc, cont, caches, queues, gw, cw, sidecar, storage>>
  BY DEF Others, UserDeletesGroup, UserDeletesMember, CollectMember, BeginRestore,
         EndRestore, api, members, world

\* A step is one of these, or a stutter.
LEMMA StepCases ==
    ASSUME [Next]_vars
    PROVE  \/ UNCHANGED vars \/ Inform \/ GroupWorker \/ ContentWorker
           \/ SidecarWorker \/ CsiCompletes \/ AnyMember
           \/ Resync \/ RestartController \/ RestartSidecar \/ Others
  BY DEF Next, Controllers

\* What a group is configured as does not change.
LEMMA ConfigStays ==
    ASSUME [Next]_vars
    PROVE  config' = config /\ (Dynamic' <=> Dynamic) /\ (Deletes' <=> Deletes)
<1>1. config' = config
  BY StepCases, GroupWorkerFrame, ContentWorkerFrame, SidecarFrame, MemberFrame, InformFrame,
     RestartFrame, OthersFrame
     DEF vars, NotContentWorker, NotSidecar, NotMemberStep
<1> QED BY <1>1 DEF Dynamic, Deletes

\* The record of the races only grows.
LEMMA LapsesGrow ==
    ASSUME [Next]_vars
    PROVE  lapses \subseteq lapses'
<1>1. CASE GroupWorker
  BY <1>1 DEF GroupWorker, MakeMember, Note, NotMembers,
         ForgetGroup, SyncGroupSnapshot, SyncDeletingGroupSnapshot, AddGroupFinalizer,
         CreateContent, UpdateStatus, MarkMissing, BindContent, AnnotateDeleted,
         DeleteContent, DeleteMember, RemoveGroupFinalizer, CreateMemberContent,
         CreateMemberSnapshot, BindMemberContent, BindMemberSnapshot,
         UpdateMemberContentStatus
<1>2. CASE SidecarWorker \/ CsiCompletes
  BY <1>2 DEF Note, SidecarWorker, CsiCompletes, TakeSidecarContent, CsiCreate, CsiGetStatus,
         CsiDelete, AnnotateCreated, PutStatus, RemoveBeingCreated, Unannotate, PutErrorStatus,
         ClearStatus, RemoveContentFinalizer
<1>3. CASE Others
  BY <1>3 DEF Note, Others, UserDeletesGroup, UserDeletesMember, CollectMember, BeginRestore,
         EndRestore
<1> QED BY <1>1, <1>2, <1>3, StepCases, ContentWorkerFrame, MemberFrame, InformFrame,
           RestartFrame DEF vars

-----------------------------------------------------------------------------
(* How the group and its copy move *)

\* The status of the group is written, or its finalizer added.
GroupEdited ==
    /\ vgs \in GroupSnapshot /\ vgs' \in GroupSnapshot
    /\ gw.pc \in {"addFinalizer", "status", "missing"}
    /\ vgs'.deleting = vgs.deleting
    /\ \/ vgs'.status = vgs.status
       \/ vgs'.status = "bound"
       \/ vgs'.status = "ready" /\ gw.pc = "status" /\ gw.status = "ready"

\* The last finalizer is removed, and the group goes.
GroupReleased ==
    /\ vgs \in GroupSnapshot /\ vgs = gw.snap /\ vgs' = Absent
    /\ gw.pc = "removeFinalizer" /\ gw' = GroupIdle /\ UNCHANGED vgsc

\* The user deletes the group; without a finalizer it goes at once.
GroupAskedToGo ==
    /\ vgs \in GroupSnapshot /\ ~vgs.deleting
    /\ UNCHANGED <<groupStore, groupListed, gw, vgsc>>
    /\ \/ vgs' \in GroupSnapshot /\ vgs'.deleting /\ vgs'.status = vgs.status
       \/ vgs' = Absent /\ (vgsc # Absent => "early" \in lapses')

\* The group is edited, released or asked to go; nothing else changes it.
LEMMA GroupMoves ==
    ASSUME Typed, [Next]_vars
    PROVE  vgs' = vgs \/ GroupEdited \/ GroupReleased \/ GroupAskedToGo
<1>0. TypeOK /\ vgs \in GroupSnapshot \cup {Absent}
  BY DEF Typed, TypeOK
<1>1. CASE GroupWorker
  <2>1. ASSUME NEW reply \in Replies, AddGroupFinalizer(reply)
        PROVE  vgs' = vgs \/ GroupEdited
    <3>1. reply # "error" => vgs = gw.snap
      BY <1>0, <2>1, AnswerBudget DEF AddGroupFinalizer
    <3>2. gw.snap \in GroupSnapshot
      BY <2>1, GroupWorkFields DEF Typed, TypeOK, InHand, Equipped, AddGroupFinalizer
    <3>3. vgs' = vgs \/ (vgs \in GroupSnapshot /\ vgs' = [vgs EXCEPT !.fin = TRUE])
      BY <2>1, <3>1, <3>2 DEF AddGroupFinalizer
    <3> QED BY <2>1, <3>3 DEF GroupSnapshot, GroupEdited, AddGroupFinalizer
  <2>2. ASSUME NEW reply \in Replies, UpdateStatus(reply)
        PROVE  vgs' = vgs \/ GroupEdited
    <3>1. reply # "error" => vgs # Absent
      BY <1>0, <2>2, AnswerBudget DEF UpdateStatus
    <3>2. vgs' = vgs \/ (vgs \in GroupSnapshot /\ vgs' = WithStatus(vgs, gw.status))
      BY <1>0, <2>2, <3>1 DEF UpdateStatus
    <3> QED BY <2>2, <3>2 DEF GroupSnapshot, GroupEdited, UpdateStatus, WithStatus
  <2>3. ASSUME NEW reply \in Replies, MarkMissing(reply)
        PROVE  vgs' = vgs \/ GroupEdited
    <3>1. reply # "error" => vgs = gw.snap
      BY <1>0, <2>3, AnswerBudget DEF MarkMissing
    <3>2. gw.snap \in GroupSnapshot
      BY <2>3, GroupWorkFields DEF Typed, TypeOK, InHand, Equipped, MarkMissing
    <3>3. vgs' = vgs \/ (vgs \in GroupSnapshot /\ vgs' = [vgs EXCEPT !.status = "bound"])
      BY <2>3, <3>1, <3>2 DEF MarkMissing
    <3> QED BY <2>3, <3>3 DEF GroupSnapshot, GroupEdited, MarkMissing
  <2>4. ASSUME NEW reply \in Replies, RemoveGroupFinalizer(reply)
        PROVE  vgs' = vgs \/ GroupReleased
    <3>1. reply # "error" => vgs = gw.snap
      BY <1>0, <2>4, AnswerBudget DEF RemoveGroupFinalizer
    <3>2. gw.snap \in GroupSnapshot
      BY <2>4, GroupWorkFields
         DEF Typed, TypeOK, InHand, Equipped, DeletionCalls, RemoveGroupFinalizer
    <3> QED BY <2>4, <3>1, <3>2 DEF RemoveGroupFinalizer, RetryGroup, GroupReleased
  <2> QED BY <1>1, <2>1, <2>2, <2>3, <2>4, MakeMemberFrame
          DEF GroupWorker, ForgetGroup, SyncGroupSnapshot, SyncDeletingGroupSnapshot,
              CreateContent, BindContent, AnnotateDeleted, DeleteContent, DeleteMember,
              NotMembers, api
<1>2. CASE Others
  <2>1. CASE UserDeletesGroup
    <3> DEFINE noted == When(~vgs.fin /\ (vgsc # Absent \/ gw.pc \in {"create", "member"}),
                             "early")
    <3>1. noted \subseteq lapses'
      BY <2>1 DEF UserDeletesGroup, Note
    <3>2. ~vgs.fin /\ vgsc # Absent => "early" \in lapses'
      BY <3>1 DEF When
    <3>3. vgs \in GroupSnapshot /\ ~vgs.deleting
      BY <1>0, <2>1 DEF UserDeletesGroup
    <3>4. \/ vgs' = [vgs EXCEPT !.deleting = TRUE]
          \/ vgs' = Absent /\ ~vgs.fin
      BY <2>1 DEF UserDeletesGroup
    <3> QED BY <2>1, <3>2, <3>3, <3>4 DEF GroupSnapshot, UserDeletesGroup, GroupAskedToGo, caches
  <2> QED BY <1>2, <2>1
          DEF Others, UserDeletesMember, CollectMember, BeginRestore, EndRestore, api
<1> QED BY <1>1, <1>2, StepCases, ContentWorkerFrame, SidecarFrame, MemberFrame, InformFrame,
           RestartFrame DEF vars, NotContentWorker, NotSidecar, NotMemberStep, api

\* The copy of the group is that of the server, or nobody works on the group.
LEMMA GroupStoreMoves ==
    ASSUME Typed, [Next]_vars
    PROVE  \/ groupStore' = groupStore
           \/ groupStore' = vgs' /\ groupStore' \in GroupSnapshot
           \/ groupStore' = Absent /\ gw'.pc = "idle"
           \/ groupStore' \in GroupSnapshot /\ groupStore'.deleting /\ GroupReleased
<1>0. TypeOK /\ vgs \in GroupSnapshot \cup {Absent}
  BY DEF Typed, TypeOK
<1>1. CASE GroupWorker
  <2>1. ASSUME NEW reply \in Replies, AddGroupFinalizer(reply) \/ MarkMissing(reply)
        PROVE  groupStore' = groupStore \/ (groupStore' = vgs' /\ groupStore' \in GroupSnapshot)
    <3>1. gw.snap \in GroupSnapshot
      BY <2>1, GroupWorkFields
         DEF Typed, TypeOK, InHand, Equipped, AddGroupFinalizer, MarkMissing
    <3>2. \/ groupStore' = groupStore
          \/ groupStore' = vgs' /\ groupStore' = [gw.snap EXCEPT !.fin = TRUE]
          \/ groupStore' = vgs' /\ groupStore' = [gw.snap EXCEPT !.status = "bound"]
      BY <2>1 DEF AddGroupFinalizer, MarkMissing
    <3> QED BY <3>1, <3>2 DEF GroupSnapshot
  <2>2. ASSUME NEW reply \in Replies, UpdateStatus(reply)
        PROVE  groupStore' = groupStore \/ (groupStore' = vgs' /\ groupStore' \in GroupSnapshot)
    <3>1. reply # "error" => vgs \in GroupSnapshot
      BY <1>0, <2>2, AnswerBudget DEF UpdateStatus
    <3>2. \/ groupStore' = groupStore
          \/ groupStore' = vgs' /\ reply = "ok" /\ vgs' = WithStatus(vgs, gw.status)
      BY <2>2 DEF UpdateStatus
    <3> QED BY <3>1, <3>2 DEF GroupSnapshot, WithStatus
  <2>3. ASSUME NEW reply \in Replies, RemoveGroupFinalizer(reply)
        PROVE  \/ groupStore' = groupStore
               \/ groupStore' \in GroupSnapshot /\ groupStore'.deleting /\ GroupReleased
    <3>1. reply # "error" => vgs = gw.snap
      BY <1>0, <2>3, AnswerBudget DEF RemoveGroupFinalizer
    <3>2. gw.snap \in GroupSnapshot /\ gw.snap.deleting
      BY <2>3, GroupWorkFields
         DEF Typed, TypeOK, InHand, Equipped, DeletionCalls, RemoveGroupFinalizer
    <3>3. \/ groupStore' = groupStore
          \/ reply = "ok" /\ groupStore' = [gw.snap EXCEPT !.fin = FALSE]
      BY <2>3 DEF RemoveGroupFinalizer
    <3> QED BY <2>3, <3>1, <3>2, <3>3
            DEF GroupSnapshot, RemoveGroupFinalizer, RetryGroup, GroupReleased
  <2>4. ASSUME ForgetGroup PROVE groupStore' = Absent /\ gw'.pc = "idle"
    BY <2>4 DEF ForgetGroup
  <2> QED BY <1>1, <2>1, <2>2, <2>3, <2>4, MakeMemberFrame
          DEF GroupWorker, SyncGroupSnapshot, SyncDeletingGroupSnapshot,
              CreateContent, BindContent, AnnotateDeleted, DeleteContent, DeleteMember,
              NotMembers, caches
<1>2. CASE Inform
  BY <1>0, <1>2 DEF Inform, DeliverGroup, DeliverContent, DeliverMembers, DeliverSidecar,
                    caches, api
<1>3. CASE RestartController
  BY <1>0, <1>3, IdleWork DEF RestartController, api
<1> QED BY <1>1, <1>2, <1>3, StepCases, ContentWorkerFrame, SidecarFrame, MemberFrame, OthersFrame
        DEF vars, NotContentWorker, NotSidecar, NotMemberStep, Resync, RestartSidecar, caches

-----------------------------------------------------------------------------
(* How the group worker moves *)

\* A key of a group that nobody asked to delete is taken.
SyncBegins ==
    /\ gw.pc = "idle" /\ groupListed /\ UNCHANGED groupStore
    /\ groupStore \in GroupSnapshot /\ ~groupStore.deleting
    /\ \/ /\ gw'.pc = "addFinalizer" /\ gw'.snap = groupStore /\ gw'.status = "nil"
          /\ contentStore # Absent
       \/ SyncsTo(groupStore, gw')

\* The key of a group whose deletion was asked for is taken.
DeletionBegins ==
    /\ gw.pc = "idle" /\ groupListed /\ UNCHANGED <<groupStore, vgsc>>
    /\ groupStore \in GroupSnapshot /\ groupStore.deleting /\ ~Held(groupStore)
    /\ gw'.snap = groupStore /\ gw'.status = "nil" /\ gw'.pc \in DeletionCalls
    /\ gw'.found = FindsContent(groupStore)
    /\ gw'.pc \in {"annotate", "delete"} => gw'.found
    /\ gw'.pc = "delete" => Deletes
    /\ gw'.pc = "removeFinalizer" /\ gw'.found => ~Deletes
    /\ ~gw'.found /\ vgsc # Absent => "unlisted" \in lapses'

DeletionGoesOn ==
    /\ gw.pc \in DeletionCalls /\ gw'.pc \in DeletionCalls
    /\ gw'.snap = gw.snap /\ gw'.found = gw.found /\ gw'.status = gw.status
    /\ gw'.pc # "annotate"
    /\ gw'.pc = "delete" => gw.found /\ Deletes /\ gw.pc = "annotate"
    /\ gw'.pc = "removeFinalizer" => ~(gw.found /\ Deletes)

\* The content was created, or bound: the status of the group is next.
StatusIsNext ==
    /\ gw'.pc = "status" /\ gw'.snap = Absent /\ vgsc' # Absent
    /\ \/ gw.pc = "create" /\ gw'.status = "nil"
       \/ gw.pc = "bindContent" /\ vgsc \in GroupContent /\ gw'.status = vgsc.status

MakingGoesOn ==
    /\ gw.pc = "member" /\ \E reply \in Replies : MakeMember(reply)
    /\ gw'.pc \in {"member", "status"} /\ gw'.snap = gw.snap /\ gw'.status = gw.status

\* Where the group worker can be after a step.
LEMMA GroupWorkerMoves ==
    ASSUME Typed, [Next]_vars
    PROVE  \/ gw' = gw \/ gw' = GroupIdle \/ SyncBegins \/ DeletionBegins
           \/ gw.pc = "addFinalizer" /\ vgs = gw.snap /\ SyncsTo(gw.snap, gw')
           \/ StatusIsNext \/ DeletionGoesOn \/ MakingGoesOn
<1>0. TypeOK /\ gw \in GroupWork
  BY DEF Typed, TypeOK
<1>1. CASE GroupWorker
  <2>1. ASSUME SyncGroupSnapshot
        PROVE  gw' = GroupIdle \/ SyncBegins
    <3>1. groupStore \in GroupSnapshot /\ ~groupStore.deleting
      BY <1>0, <2>1 DEF SyncGroupSnapshot, TakeGroup, TypeOK
    <3>2. CASE NeedsFinalizer(groupStore)
      BY <2>1, <3>1, <3>2 DEF SyncGroupSnapshot, TakeGroup, SyncBegins, GroupIdle, NeedsFinalizer,
                              HasContent
    <3>3. CASE ~NeedsFinalizer(groupStore) /\ ~WaitsForContent(groupStore)
      BY <1>0, <2>1, <3>1, <3>3, SyncStepWork
         DEF SyncGroupSnapshot, TakeGroup, SyncBegins, Proceed
    <3>4. CASE ~NeedsFinalizer(groupStore) /\ WaitsForContent(groupStore)
      BY <2>1, <3>4 DEF SyncGroupSnapshot, Proceed, RetryGroup
    <3> QED BY <3>2, <3>3, <3>4
  <2>2. ASSUME SyncDeletingGroupSnapshot
        PROVE  gw' = GroupIdle \/ DeletionBegins
    <3> DEFINE w == [GroupIdle EXCEPT !.snap = groupStore, !.found = FindsContent(groupStore),
                                      !.todo = indexed]
    <3>1. w \in GroupWork /\ groupStore \in GroupSnapshot /\ groupStore.deleting
      BY <2>2, DeletionStarts
    <3>2. gw.pc = "idle" /\ groupListed /\ UNCHANGED <<groupStore, vgsc>>
      BY <2>2 DEF SyncDeletingGroupSnapshot, TakeGroup, api
    <3>3. w.snap = groupStore /\ w.found = FindsContent(groupStore) /\ w.status = "nil"
          /\ w.pc = "idle"
      BY DEF GroupIdle
    <3>4. CASE gw' = [w EXCEPT !.pc = "annotate",
                              !.anns = [contentStore EXCEPT
                                           !.anns = @ \cup {"BeingDeleted"}].anns]
               /\ ~Held(groupStore) /\ FindsContent(groupStore)
      <4>1. gw'.pc = "annotate" /\ gw'.snap = w.snap /\ gw'.found = w.found
            /\ gw'.status = w.status
        BY <3>1, <3>4 DEF GroupWork
      <4>2. w.found /\ gw'.found
        BY <3>3, <3>4, <4>1
      <4> QED BY <3>1, <3>2, <3>3, <3>4, <4>1, <4>2 DEF DeletionBegins, DeletionCalls
    <3>5. CASE /\ ~Held(groupStore) /\ gw' = AfterAnnotation(w)
               /\ ~FindsContent(groupStore) /\ vgsc # Absent => "unlisted" \in lapses'
      <4>1. GoesOnDeleting(w, gw')
        BY <3>1, <3>5, AfterContentWork
      <4> QED BY <3>1, <3>2, <3>3, <3>5, <4>1 DEF GoesOnDeleting, DeletionBegins, DeletionCalls
    <3> QED BY <2>2, <3>4, <3>5, DeletionStarts
  <2>3. ASSUME NEW reply \in Replies, AddGroupFinalizer(reply)
        PROVE  \/ gw' = GroupIdle
               \/ gw.pc = "addFinalizer" /\ vgs = gw.snap /\ SyncsTo(gw.snap, gw')
    <3>1. gw.snap \in GroupSnapshot
      BY <2>3, GroupWorkFields DEF Typed, TypeOK, InHand, Equipped, AddGroupFinalizer
    <3>2. \/ gw' = GroupIdle
          \/ reply = "ok" /\ ~WaitsForContent(gw.snap) /\ gw' = SyncStep(gw.snap)
      BY <2>3 DEF AddGroupFinalizer, RetryGroup
    <3> QED BY <1>0, <2>3, <3>1, <3>2, SyncStepWork, AnswerBudget DEF AddGroupFinalizer
  <2>4. ASSUME NEW reply \in Replies, CreateContent(reply)
        PROVE  gw' = GroupIdle \/ StatusIsNext
    <3>1. reply # "error" => vgsc' # Absent
      BY <2>4, NewObjects, ContentFields DEF CreateContent
    <3> QED BY <2>4, <3>1 DEF CreateContent, RetryGroup, GroupIdle, StatusIsNext
  <2>5. ASSUME NEW reply \in Replies,
               UpdateStatus(reply) \/ MarkMissing(reply) \/ RemoveGroupFinalizer(reply)
        PROVE  gw' = GroupIdle
    BY <2>5 DEF UpdateStatus, MarkMissing, RemoveGroupFinalizer, RetryGroup
  <2>6. ASSUME NEW reply \in Replies, BindContent(reply)
        PROVE  gw' = GroupIdle \/ StatusIsNext
    <3>1. reply # "error" => vgsc \in GroupContent
      BY <1>0, <2>6, AnswerBudget DEF BindContent, TypeOK
    <3>2. reply = "ok" => [vgsc EXCEPT !.uid = TRUE].status = vgsc.status
      BY <3>1 DEF GroupContent
    <3>3. \/ gw' = GroupIdle
          \/ reply = "ok" /\ gw' = [GroupIdle EXCEPT !.pc = "status",
                                        !.status = [vgsc EXCEPT !.uid = TRUE].status]
      BY <2>6 DEF BindContent, RetryGroup
    <3>4. reply = "ok" => vgsc' # Absent
      <4>1. reply = "ok" => [vgsc EXCEPT !.uid = TRUE] \in GroupContent
        BY <3>1 DEF GroupContent
      <4> QED BY <2>6, <4>1, ContentFields DEF BindContent
    <3> QED BY <2>6, <3>1, <3>2, <3>3, <3>4 DEF BindContent, GroupIdle, StatusIsNext
  <2>7. ASSUME NEW reply \in Replies, AnnotateDeleted(reply)
        PROVE  gw' = GroupIdle \/ DeletionGoesOn
    <3>1. gw' = GroupIdle \/ GoesOnDeleting(gw, gw')
      BY <1>0, <2>7, AfterContentWork DEF AnnotateDeleted, RetryGroup
    <3> QED BY <2>7, <3>1 DEF AnnotateDeleted, GoesOnDeleting, DeletionGoesOn, DeletionCalls
  <2>8. ASSUME NEW reply \in Replies, DeleteContent(reply)
        PROVE  gw' = GroupIdle \/ DeletionGoesOn
    <3>1. gw' = GroupIdle \/ (GoesOnDeleting(gw, gw') /\ gw'.pc # "delete")
      BY <1>0, <2>8, AfterContentWork DEF DeleteContent, RetryGroup
    <3> QED BY <2>8, <3>1 DEF DeleteContent, GoesOnDeleting, DeletionGoesOn, DeletionCalls
  <2>9. ASSUME NEW reply \in Replies, DeleteMember(reply)
        PROVE  gw' = GroupIdle \/ DeletionGoesOn
    <3> DEFINE v == [gw EXCEPT !.todo = @ \ {CHOOSE x \in gw.todo : TRUE}]
    <3>1. v \in GroupWork /\ v.snap = gw.snap /\ v.found = gw.found /\ v.status = gw.status
      BY <1>0 DEF GroupWork
    <3>2. gw' = GroupIdle \/ gw' = AfterContent(v)
      BY <2>9 DEF DeleteMember, RetryGroup
    <3>3. gw' = GroupIdle \/ (GoesOnDeleting(v, gw') /\ gw'.pc # "delete")
      BY <3>1, <3>2, AfterContentWork
    <3> QED BY <2>9, <3>1, <3>3 DEF DeleteMember, GoesOnDeleting, DeletionGoesOn, DeletionCalls
  <2>10. ASSUME NEW reply \in Replies, MakeMember(reply)
         PROVE  gw' = GroupIdle \/ MakingGoesOn
    <3>1. \/ gw' = GroupIdle
          \/ \E stage \in Stages : gw' = [gw EXCEPT !.stage = stage]
          \/ gw' = NextMember(Member)
      BY <2>10 DEF MakeMember, CreateMemberContent, CreateMemberSnapshot, BindMemberContent,
                   BindMemberSnapshot, UpdateMemberContentStatus, MemberReply, RetryGroup, Stages
    <3>2. gw.pc = "member"
      BY <2>10, MakeMemberFrame
    <3> QED BY <1>0, <2>10, <3>1, <3>2 DEF NextMember, GroupWork, MakingGoesOn
  <2>11. ASSUME ForgetGroup PROVE gw' = gw
    BY <2>11 DEF ForgetGroup
  <2> QED BY <1>1, <2>1, <2>2, <2>3, <2>4, <2>5, <2>6, <2>7, <2>8, <2>9, <2>10, <2>11
          DEF GroupWorker
<1>2. CASE RestartController
  BY <1>2 DEF RestartController
<1> QED BY <1>1, <1>2, StepCases, ContentWorkerFrame, SidecarFrame, MemberFrame, OthersFrame,
           InformFrame
        DEF vars, NotContentWorker, NotSidecar, NotMemberStep, Resync, RestartSidecar

-----------------------------------------------------------------------------
(* How the content moves *)

ContentMade ==
    gw.pc = "create" /\ vgsc = Absent /\ vgsc' = NewContent /\ UNCHANGED <<vgs, dw, sidecarStore>>

\* Anything but its deletion.
ContentEdited ==
    /\ vgsc \in GroupContent /\ vgsc' \in GroupContent
    /\ vgsc'.deleting = vgsc.deleting /\ (vgsc.fin => vgsc'.fin)
    /\ \/ vgsc'.status = vgsc.status
       \/ vgsc'.status # "ready"
       \/ dw.pc = "putStatus" /\ dw.ready

ContentAskedToGo ==
    /\ vgsc \in GroupContent /\ gw.pc = "delete" /\ gw'.pc \in DeletionCalls \cup {"idle"}
    /\ UNCHANGED <<vgs, groupStore, dw, sidecarStore, storage>>
    /\ \/ vgsc' = Absent /\ ~vgsc.fin
       \/ /\ vgsc' \in GroupContent /\ vgsc'.deleting /\ vgsc'.fin /\ vgsc.fin
          /\ vgsc'.status = vgsc.status

\* The sidecar takes its finalizer away, or patches the content: one that is being
\* deleted goes.
ContentReleased ==
    /\ vgsc \in GroupContent /\ UNCHANGED NotSidecar
    /\ dw.pc = "removeFinalizer" \/ ~vgsc.fin
    /\ \/ vgsc.deleting /\ vgsc' = Absent
       \/ /\ ~vgsc.deleting /\ vgsc' \in GroupContent /\ ~vgsc'.deleting
          /\ vgsc'.status = vgsc.status

\* The content is made, edited, asked to go or released.
LEMMA ContentMoves ==
    ASSUME Typed, [Next]_vars
    PROVE  vgsc' = vgsc \/ ContentMade \/ ContentEdited \/ ContentAskedToGo \/ ContentReleased
<1>0. TypeOK /\ vgsc \in GroupContent \cup {Absent} /\ gw \in GroupWork /\ dw \in SidecarWork
  BY DEF Typed, TypeOK
<1>1. CASE GroupWorker
  <2>1. ASSUME NEW reply \in Replies, CreateContent(reply)
        PROVE  vgsc' = vgsc \/ ContentMade
    BY <2>1 DEF CreateContent, ContentMade, NotGroupWorker, sidecar
  <2>2. ASSUME NEW reply \in Replies, BindContent(reply)
        PROVE  vgsc' = vgsc \/ ContentEdited
    <3>1. reply # "error" => vgsc \in GroupContent
      BY <1>0, <2>2, AnswerBudget DEF BindContent
    <3>2. vgsc' = vgsc \/ (reply # "error" /\ vgsc' = [vgsc EXCEPT !.uid = TRUE])
      BY <2>2 DEF BindContent
    <3> QED BY <3>1, <3>2 DEF GroupContent, ContentEdited
  <2>3. ASSUME NEW reply \in Replies, AnnotateDeleted(reply)
        PROVE  vgsc' = vgsc \/ ContentEdited
    <3>1. reply # "error" => vgsc \in GroupContent
      BY <1>0, <2>3, AnswerBudget DEF AnnotateDeleted
    <3>2. vgsc' = vgsc \/ (reply # "error" /\ vgsc' = [vgsc EXCEPT !.anns = gw.anns])
      BY <2>3 DEF AnnotateDeleted
    <3>3. gw.anns \subseteq Annotations
      BY <1>0, GroupWorkFields
    <3> QED BY <3>1, <3>2, <3>3 DEF GroupContent, ContentEdited
  <2>4. ASSUME NEW reply \in Replies, DeleteContent(reply)
        PROVE  vgsc' = vgsc \/ ContentAskedToGo
    <3>1. reply # "error" => vgsc \in GroupContent
      BY <1>0, <2>4, AnswerBudget DEF DeleteContent
    <3>2. vgsc' = vgsc \/ (reply # "error" /\ vgsc' = KeepContent([vgsc EXCEPT !.deleting = TRUE]))
      BY <2>4 DEF DeleteContent, Delete
    <3>3. gw'.pc \in DeletionCalls \cup {"idle"}
      <4>1. gw' = GroupIdle \/ gw' = AfterContent(gw)
        BY <2>4 DEF DeleteContent, RetryGroup
      <4> QED BY <1>0, <4>1, AfterContentWork, IdleWork DEF GoesOnDeleting, DeletionCalls
    <3>4. gw.pc = "delete" /\ UNCHANGED <<vgs, groupStore, dw, sidecarStore, storage>>
      BY <2>4 DEF DeleteContent, NotGroupWorker, sidecar, world
    <3> QED BY <3>1, <3>2, <3>3, <3>4 DEF GroupContent, KeepContent, ContentAskedToGo
  <2> QED BY <1>1, <2>1, <2>2, <2>3, <2>4, MakeMemberFrame
          DEF GroupWorker, ForgetGroup, SyncGroupSnapshot, SyncDeletingGroupSnapshot,
              AddGroupFinalizer, UpdateStatus, MarkMissing, RemoveGroupFinalizer, DeleteMember,
              NotMembers, api
<1>2. CASE ContentWorker
  <2>1. ASSUME NEW reply \in Replies, AddContentFinalizer(reply)
        PROVE  vgsc' = vgsc \/ ContentEdited
    <3>1. reply # "error" => vgsc \in GroupContent
      BY <1>0, <2>1, AnswerBudget DEF AddContentFinalizer
    <3>2. vgsc' = vgsc \/ (reply # "error" /\ vgsc' = [vgsc EXCEPT !.fin = TRUE])
      BY <2>1 DEF AddContentFinalizer
    <3> QED BY <3>1, <3>2 DEF GroupContent, ContentEdited
  <2> QED BY <1>2, <2>1
          DEF ContentWorker, ForgetContent, IgnoreContent, SyncGroupSnapshotContent
<1>3. CASE SidecarWorker
  <2>0. UNCHANGED NotSidecar
    BY <1>3, SidecarFrame
  <2>1. ASSUME NEW reply \in Replies, AnnotateCreated(reply)
        PROVE  vgsc' = vgsc \/ ContentEdited
    <3>1. reply # "error" => vgsc \in GroupContent
      BY <1>0, <2>1, AnswerBudget DEF AnnotateCreated
    <3>2. vgsc' = vgsc \/ (reply # "error" /\
                           vgsc' = [vgsc EXCEPT !.anns = dw.anns \cup {"BeingCreated"}])
      BY <2>1 DEF AnnotateCreated
    <3>3. dw.anns \cup {"BeingCreated"} \subseteq Annotations
      BY <1>0, SidecarWorkFields DEF Annotations
    <3> QED BY <3>1, <3>2, <3>3 DEF GroupContent, ContentEdited
  <2>2. ASSUME NEW reply \in Replies, PutStatus(reply)
        PROVE  vgsc' = vgsc \/ ContentEdited
    <3>1. reply # "error" => vgsc \in GroupContent
      BY <1>0, <2>2, AnswerBudget DEF PutStatus
    <3>2. vgsc' = vgsc \/ (reply # "error" /\
             vgsc' = [vgsc EXCEPT !.status = IF dw.ready THEN "ready" ELSE "cut"])
      BY <2>2 DEF PutStatus
    <3>3. dw.pc = "putStatus"
      BY <2>2 DEF PutStatus
    <3> QED BY <3>1, <3>2, <3>3 DEF GroupContent, ContentEdited, ContentStatus
  <2>3. ASSUME NEW reply \in Replies, RemoveBeingCreated(reply)
        PROVE  vgsc' = vgsc \/ ContentEdited \/ ContentReleased
    <3> DEFINE c == [vgsc EXCEPT !.anns = @ \ {"BeingCreated"}]
    <3>1. vgsc' = vgsc \/ (vgsc # Absent /\ c \in GroupContent /\ vgsc' = KeepContent(c))
      BY <2>3, TypeRemoveBeingCreated DEF UnannotateEffect
    <3>2. CASE vgsc # Absent /\ c \in GroupContent /\ vgsc' = KeepContent(c)
      <4>1. vgsc \in GroupContent
        BY <1>0, <3>2
      <4>2. c.deleting = vgsc.deleting /\ c.fin = vgsc.fin /\ c.status = vgsc.status
        BY <4>1 DEF GroupContent
      <4>3. vgsc' = c \/ (vgsc' = Absent /\ c.deleting /\ ~c.fin)
        BY <3>2, ContentFields DEF KeepContent
      <4> QED BY <2>0, <3>2, <4>1, <4>2, <4>3 DEF ContentEdited, ContentReleased
    <3> QED BY <3>1, <3>2
  <2>4. ASSUME NEW reply \in Replies, PutErrorStatus(reply)
        PROVE  vgsc' = vgsc \/ ContentEdited
    <3> DEFINE status == IF dw.status # "nil" /\ HasHandle(vgsc.status) THEN "cut" ELSE "error"
    <3>1. reply # "error" => vgsc \in GroupContent
      BY <1>0, <2>4, AnswerBudget DEF PutErrorStatus
    <3>2. vgsc' = vgsc \/ (reply # "error" /\ vgsc' = [vgsc EXCEPT !.status = status])
      BY <2>4 DEF PutErrorStatus
    <3>3. status \in {"cut", "error"}
      OBVIOUS
    <3> QED BY <3>1, <3>2, <3>3 DEF GroupContent, ContentEdited, ContentStatus
  <2>5. ASSUME NEW reply \in Replies, ClearStatus(reply)
        PROVE  vgsc' = vgsc \/ ContentEdited
    <3>1. reply # "error" => vgsc \in GroupContent
      BY <1>0, <2>5, AnswerBudget DEF ClearStatus
    <3>2. vgsc' = vgsc \/ (reply # "error" /\
             vgsc' = [vgsc EXCEPT !.status = IF @ = "nil" THEN "nil" ELSE "cleared"])
      BY <2>5 DEF ClearStatus
    <3> QED BY <3>1, <3>2 DEF GroupContent, ContentEdited, ContentStatus
  <2>6. ASSUME NEW reply \in Replies, RemoveContentFinalizer(reply)
        PROVE  vgsc' = vgsc \/ ContentReleased
    <3> DEFINE c == [vgsc EXCEPT !.fin = FALSE]
    <3>1. /\ dw.pc = "removeFinalizer"
          /\ vgsc' = vgsc \/ (vgsc # Absent /\ c \in GroupContent /\ vgsc' = KeepContent(c))
      BY <2>6, TypeRemoveContentFinalizer
    <3>2. CASE vgsc # Absent /\ c \in GroupContent /\ vgsc' = KeepContent(c)
      <4>1. vgsc \in GroupContent
        BY <1>0, <3>2
      <4>2. c.deleting = vgsc.deleting /\ ~c.fin /\ c.status = vgsc.status
        BY <4>1 DEF GroupContent
      <4>3. vgsc' = IF c.deleting THEN Absent ELSE c
        BY <3>2, <4>2 DEF KeepContent
      <4> QED BY <2>0, <3>1, <3>2, <4>1, <4>2, <4>3 DEF ContentReleased
    <3> QED BY <3>1, <3>2
  <2> QED BY <1>3, <2>1, <2>2, <2>3, <2>4, <2>5, <2>6
          DEF SidecarWorker, TakeSidecarContent, CsiCreate, CsiGetStatus, CsiDelete
<1> QED BY <1>1, <1>2, <1>3, StepCases, MemberFrame, InformFrame, RestartFrame, OthersFrame
        DEF vars, NotMemberStep, api, CsiCompletes

\* Where the copies of the content come from.
LEMMA ContentListerMoves ==
    ASSUME [Next]_vars
    PROVE  contentLister' \in {contentLister, vgsc}
<1>1. CASE Inform
  BY <1>1 DEF Inform, DeliverGroup, DeliverContent, DeliverMembers, DeliverSidecar, caches, contents
<1> QED BY <1>1, StepCases, GroupWorkerFrame, ContentWorkerFrame, SidecarFrame, MemberFrame,
           OthersFrame
        DEF vars, NotContentWorker, NotSidecar, NotMemberStep, caches, contents, Resync,
            RestartController, RestartSidecar

\* The sidecar's copy is what it was, or the content of before or after the step.
LEMMA SidecarStoreMoves ==
    ASSUME Typed, [Next]_vars
    PROVE  \/ sidecarStore' \in {sidecarStore, vgsc'}
           \/ sidecarStore' \in GroupContent /\ vgsc \in GroupContent /\ vgsc' = Absent
<1>0. TypeOK /\ vgsc \in GroupContent \cup {Absent}
  BY DEF Typed, TypeOK
<1>1. CASE SidecarWorker
  <2>1. ASSUME NEW c \in GroupContent, vgsc' = KeepContent(c), vgsc # Absent,
               sidecarStore' \in {c, sidecarStore}
        PROVE  \/ sidecarStore' \in {sidecarStore, vgsc'}
               \/ sidecarStore' \in GroupContent /\ vgsc \in GroupContent /\ vgsc' = Absent
    BY <1>0, <2>1 DEF KeepContent
  <2>2. ASSUME NEW reply \in Replies, RemoveBeingCreated(reply)
        PROVE  \/ sidecarStore' \in {sidecarStore, vgsc'}
               \/ sidecarStore' \in GroupContent /\ vgsc \in GroupContent /\ vgsc' = Absent
    <3> DEFINE c == [vgsc EXCEPT !.anns = @ \ {"BeingCreated"}]
    <3>1. \/ UNCHANGED sidecarStore
          \/ /\ vgsc # Absent /\ c \in GroupContent /\ vgsc' = KeepContent(c)
             /\ sidecarStore' \in {c, sidecarStore}
      BY <2>2, TypeRemoveBeingCreated DEF UnannotateEffect
    <3> QED BY <2>1, <3>1
  <2>3. ASSUME NEW reply \in Replies, RemoveContentFinalizer(reply)
        PROVE  \/ sidecarStore' \in {sidecarStore, vgsc'}
               \/ sidecarStore' \in GroupContent /\ vgsc \in GroupContent /\ vgsc' = Absent
    <3> DEFINE c == [vgsc EXCEPT !.fin = FALSE]
    <3>1. \/ UNCHANGED sidecarStore
          \/ /\ vgsc # Absent /\ c \in GroupContent /\ vgsc' = KeepContent(c)
             /\ sidecarStore' \in {c, sidecarStore}
      BY <2>3, TypeRemoveContentFinalizer
    <3> QED BY <2>1, <3>1
  <2> QED BY <1>1, <2>2, <2>3
          DEF SidecarWorker, TakeSidecarContent, CsiCreate, CsiGetStatus, CsiDelete,
              AnnotateCreated, PutStatus, PutErrorStatus, ClearStatus, RetrySidecar
<1>2. CASE Inform
  BY <1>2 DEF Inform, DeliverGroup, DeliverContent, DeliverMembers, DeliverSidecar, sidecar, api
<1> QED BY <1>1, <1>2, StepCases, GroupWorkerFrame, ContentWorkerFrame, MemberFrame, OthersFrame
        DEF vars, NotContentWorker, NotMemberStep, sidecar, api, Resync, CsiCompletes,
            RestartController, RestartSidecar

\* What the controller's store of the contents can hold after a step.
LEMMA ContentStoreMoves ==
    ASSUME Typed, [Next]_vars
    PROVE  \/ contentStore' \in {contentStore, Absent}
           \/ contentStore' = contentLister /\ contentLister # Absent
           \/ /\ contentStore \in GroupContent /\ contentStore' \in GroupContent
              /\ contentStore'.status = contentStore.status
           \/ /\ contentStore' \in GroupContent /\ vgsc' \in GroupContent
              /\ contentStore'.status = "nil" \/ contentStore'.status = vgsc'.status
<1>0. TypeOK /\ vgsc \in GroupContent \cup {Absent}
  BY DEF Typed, TypeOK
<1>1. CASE GroupWorker
  <2>1. ASSUME NEW reply \in Replies, CreateContent(reply)
        PROVE  \/ contentStore' = contentStore
               \/ /\ contentStore' \in GroupContent /\ vgsc' \in GroupContent
                  /\ contentStore'.status = "nil"
    <3> DEFINE c == [NewContent EXCEPT !.versioned = ~(vgsc # Absent)]
    <3>1. c \in GroupContent /\ c.status = "nil" /\ NewContent \in GroupContent
      BY NewObjects DEF NewContent
    <3>2. \/ contentStore' = contentStore
          \/ /\ contentStore' = c
             /\ vgsc' = IF vgsc # Absent THEN vgsc ELSE NewContent
      BY <2>1 DEF CreateContent, StoreContent
    <3> QED BY <1>0, <3>1, <3>2
  <2>2. ASSUME NEW reply \in Replies, BindContent(reply) \/ AnnotateDeleted(reply)
        PROVE  \/ contentStore' = contentStore
               \/ contentStore' = vgsc' /\ vgsc' \in GroupContent
    <3>1. \/ contentStore' = contentStore
          \/ contentStore' = vgsc' /\ reply = "ok"
      BY <2>2 DEF BindContent, AnnotateDeleted, StoreContent
    <3>2. reply = "ok" => vgsc # Absent
      BY <1>0, <2>2, AnswerBudget DEF BindContent, AnnotateDeleted
    <3>3. vgsc' \in GroupContent \cup {Absent}
      BY <2>2, TypeBindContent, TypeAnnotateDeleted DEF Typed, TypeOK
    <3>4. reply = "ok" => vgsc' # Absent
      <4>1. reply = "ok" => vgsc \in GroupContent /\ gw.anns \subseteq Annotations
        BY <1>0, <3>2, GroupWorkFields DEF TypeOK
      <4>2. reply = "ok" => \/ vgsc' = [vgsc EXCEPT !.uid = TRUE]
                           \/ vgsc' = [vgsc EXCEPT !.anns = gw.anns]
        BY <2>2 DEF BindContent, AnnotateDeleted
      <4> QED BY <4>1, <4>2, AbsentAssumption DEF GroupContent
    <3> QED BY <3>1, <3>3, <3>4
  <2>3. ASSUME SyncDeletingGroupSnapshot
        PROVE  \/ contentStore' = contentStore
               \/ /\ contentStore \in GroupContent /\ contentStore' \in GroupContent
                  /\ contentStore'.status = contentStore.status
    <3> DEFINE c == [contentStore EXCEPT !.anns = @ \cup {"BeingDeleted"}]
    <3>1. contentStore \in GroupContent \cup {Absent}
      BY <1>0 DEF TypeOK
    <3>2. \/ contentStore' = contentStore
          \/ FindsContent(groupStore) /\ contentStore' = c /\ c \in GroupContent
      BY <2>3, DeletionStarts
    <3>3. FindsContent(groupStore) => contentStore # Absent
      BY DEF FindsContent, HasContent
    <3> QED BY <3>1, <3>2, <3>3 DEF GroupContent
  <2> QED BY <1>1, <2>1, <2>2, <2>3, MakeMemberFrame
          DEF GroupWorker, ForgetGroup, SyncGroupSnapshot, AddGroupFinalizer, UpdateStatus,
              MarkMissing, DeleteContent, DeleteMember, RemoveGroupFinalizer,
              NotMembers, caches, contents
<1>2. CASE ContentWorker
  <2>1. ASSUME NEW reply \in Replies, AddContentFinalizer(reply)
        PROVE  \/ contentStore' = contentStore
               \/ contentStore' = vgsc' /\ vgsc' \in GroupContent
    <3>1. \/ contentStore' = contentStore
          \/ contentStore' = vgsc' /\ vgsc' = [vgsc EXCEPT !.fin = TRUE] /\ reply = "ok"
      BY <2>1 DEF AddContentFinalizer, StoreContent
    <3>2. reply = "ok" => vgsc \in GroupContent
      BY <1>0, <2>1, AnswerBudget DEF AddContentFinalizer
    <3> QED BY <3>1, <3>2 DEF GroupContent
  <2>2. ASSUME SyncGroupSnapshotContent
        PROVE  \/ contentStore' = contentStore
               \/ contentStore' = contentLister /\ contentLister # Absent
    BY <2>2 DEF SyncGroupSnapshotContent, TakeContent
  <2> QED BY <1>2, <2>1, <2>2 DEF ContentWorker, ForgetContent, IgnoreContent
<1>3. CASE Inform
  BY <1>3 DEF Inform, DeliverGroup, DeliverContent, DeliverMembers, DeliverSidecar, caches, contents
<1> QED BY <1>1, <1>2, <1>3, StepCases, SidecarFrame, MemberFrame, OthersFrame
        DEF vars, NotSidecar, NotMemberStep, caches, contents, Resync, RestartController,
            RestartSidecar

-----------------------------------------------------------------------------
(* How the storage and the sidecar's worker move *)

\* Only the driver changes the storage, and only at a call of the sidecar.
LEMMA StorageMoves ==
    ASSUME Typed, [Next]_vars
    PROVE  \/ storage' = storage
           \/ /\ UNCHANGED vgsc /\ UNCHANGED NotSidecar
              /\ \/ /\ storage \in {"none", "inflight"} /\ storage' \in {"inflight", "cut", "ready"}
                    /\ dw.pc = "csiCreate" \/ storage = "inflight"
                 \/ storage = "cut" /\ storage' \in {"cut", "ready"} /\ dw.pc = "csiCreate"
                 \/ storage # "inflight" /\ storage' = "none" /\ dw.pc = "csiDelete"
<1>0. storage \in Storage
  BY DEF Typed, TypeOK
<1>1. CASE SidecarWorker \/ CsiCompletes
  <2>1. UNCHANGED NotSidecar
    BY <1>1, SidecarFrame
  <2> QED BY <1>0, <1>1, <2>1
          DEF SidecarWorker, TakeSidecarContent, CsiCreate, CsiGetStatus, CsiDelete, CsiCompletes,
              AnnotateCreated, PutStatus, RemoveBeingCreated, Unannotate, PutErrorStatus,
              ClearStatus, RemoveContentFinalizer, Storage
<1> QED BY <1>1, StepCases, GroupWorkerFrame, ContentWorkerFrame, MemberFrame, InformFrame,
           RestartFrame, OthersFrame DEF vars, NotContentWorker, NotMemberStep, world

\* What the sidecar's worker may have in hand after a step.
LEMMA SidecarWorkerMoves ==
    ASSUME Typed, [Next]_vars
    PROVE  \/ dw' = dw
           \/ dw' = SidecarIdle
           \/ /\ dw # SidecarIdle \/ sidecarStore # Absent
              /\ dw'.pc = "csiDelete" =>
                    /\ Deletes
                    /\ \/ sidecarStore # Absent /\ sidecarStore.deleting
                       \/ vgsc' \in GroupContent /\ vgsc'.deleting
              /\ dw'.pc = "getStatus" => ~Dynamic
              /\ dw'.ready => dw.ready \/ storage' = "ready" \/ dw.pc = "getStatus"
<1>0. TypeOK /\ dw \in SidecarWork
  BY DEF Typed, TypeOK
<1>1. ASSUME NEW c \in GroupContent, SidecarGoesOn(c, dw')
      PROVE  \/ dw' = SidecarIdle
             \/ /\ dw'.pc = "csiDelete" => Deletes /\ c.deleting
                /\ dw'.pc = "getStatus" => ~Dynamic
                /\ ~dw'.ready
  BY <1>1, ContentFields DEF SidecarGoesOn, ShouldDelete, OwesDeletion, Deletes
<1>2. CASE SidecarWorker
  <2>1. CASE TakeSidecarContent
    <3>1. \/ dw' = SidecarIdle
          \/ sidecarStore \in GroupContent /\ SidecarGoesOn(sidecarStore, dw')
      BY <2>1, TypeTakeSidecarContent
    <3>2. sidecarStore \in GroupContent => sidecarStore # Absent
      BY ContentFields
    <3> QED BY <1>1, <3>1, <3>2
  <2>2. ASSUME NEW reply \in Replies, ClearStatus(reply)
        PROVE  \/ dw' = SidecarIdle
               \/ /\ dw # SidecarIdle
                  /\ dw'.pc = "csiDelete" => Deletes /\ vgsc' \in GroupContent /\ vgsc'.deleting
                  /\ dw'.pc = "getStatus" => ~Dynamic
                  /\ ~dw'.ready
    <3> DEFINE c == [vgsc EXCEPT !.status = IF @ = "nil" THEN "nil" ELSE "cleared"]
    <3>1. \/ dw' = SidecarIdle
          \/ reply = "ok" /\ vgsc' = c /\ dw' = SidecarStep(c)
      BY <2>2 DEF ClearStatus, RetrySidecar
    <3>2. reply = "ok" => vgsc \in GroupContent
      BY <1>0, <2>2, AnswerBudget DEF ClearStatus, TypeOK
    <3>3. reply = "ok" => c \in GroupContent
      BY <3>2 DEF GroupContent, ContentStatus
    <3>4. dw # SidecarIdle
      BY <2>2, IdleWork DEF ClearStatus
    <3> QED BY <1>0, <1>1, <3>1, <3>3, <3>4, SidecarStepWork
  <2>3. ASSUME NEW reply \in Replies, RemoveBeingCreated(reply)
        PROVE  \/ dw' = SidecarIdle
               \/ dw # SidecarIdle /\ dw'.pc = "errorStatus" /\ dw'.ready = dw.ready
    <3>1. dw.pc # "idle" /\ dw' \in {SidecarIdle, Failed, [Failed EXCEPT !.anns = @ \ {"BeingCreated"}]}
      BY <2>3, TypeRemoveBeingCreated DEF UnannotateEffect
    <3> QED BY <1>0, <3>1, IdleWork DEF Failed, SidecarWork
  <2>4. ASSUME NEW reply \in Replies, PutStatus(reply)
        PROVE  \/ dw' = SidecarIdle
               \/ dw # SidecarIdle /\ dw'.pc \in {"errorStatus", "unannotate"} /\ dw'.ready = dw.ready
    <3> DEFINE c == [vgsc EXCEPT !.status = IF dw.ready THEN "ready" ELSE "cut"]
    <3>1. dw' \in {SidecarIdle, Failed, [With("unannotate", c) EXCEPT !.ready = dw.ready]}
      BY <2>4 DEF PutStatus
    <3>2. dw # SidecarIdle
      BY <2>4, IdleWork DEF PutStatus
    <3> QED BY <1>0, <3>1, <3>2 DEF Failed, SidecarWork, With, SidecarIdle
  <2>5. CASE CsiCreate
    BY <1>0, <2>5, IdleWork DEF CsiCreate, Failed, SidecarWork
  <2>6. CASE CsiGetStatus
    BY <1>0, <2>6, IdleWork DEF CsiGetStatus, Failed, SidecarWork
  <2>7. CASE CsiDelete
    BY <1>0, <2>7, IdleWork DEF CsiDelete, RetrySidecar, SidecarWork
  <2>8. ASSUME NEW reply \in Replies, AnnotateCreated(reply)
        PROVE  dw # SidecarIdle /\ dw'.pc \in {"csiCreate", "errorStatus"} /\ dw'.ready = dw.ready
    BY <1>0, <2>8, IdleWork DEF AnnotateCreated, Failed, SidecarWork
  <2>9. ASSUME NEW reply \in Replies, PutErrorStatus(reply) \/ RemoveContentFinalizer(reply)
        PROVE  dw' = SidecarIdle
    BY <2>9, TypeRemoveContentFinalizer DEF PutErrorStatus, RetrySidecar
  <2> QED BY <1>2, <2>1, <2>2, <2>3, <2>4, <2>5, <2>6, <2>7, <2>8, <2>9 DEF SidecarWorker
<1> QED BY <1>2, StepCases, GroupWorkerFrame, ContentWorkerFrame, MemberFrame, InformFrame,
           OthersFrame
        DEF vars, NotContentWorker, NotMemberStep, sidecar, CsiCompletes, Resync,
            RestartController, RestartSidecar

-----------------------------------------------------------------------------
(* How a member moves *)

MemberMade(m) ==
    /\ gw.pc = "member" /\ gw.stage = "snapshot" /\ m = Member
    /\ snap[m] = Absent /\ snap'[m] = NewMemberSnapshot

MemberBound(m) ==
    /\ gw.pc = "member" /\ gw.stage = "bindSnapshot" /\ m = Member
    /\ snap[m] \in MemberSnapshot /\ snap'[m] \in MemberSnapshot
    /\ snap'[m].deleting = snap[m].deleting /\ snap'[m].fins = snap[m].fins
    /\ snap'[m].bound /\ ~snap'[m].ready

\* By its own workers: a finalizer, or its status.
MemberEdited(m) ==
    /\ snap[m] \in MemberSnapshot /\ snap'[m] \in MemberSnapshot
    /\ snap'[m].deleting = snap[m].deleting /\ snap'[m].bound = snap[m].bound
    /\ snap[m].fins \subseteq snap'[m].fins
    /\ \/ snap'[m].ready = snap[m].ready
       \/ snap'[m].ready =>
             snap[m].bound /\ cont[m] \in MemberContent /\ cont[m].status = "ready"

MemberAskedToGo(m) ==
    /\ snap[m] \in MemberSnapshot
    /\ "alone" \in lapses' \/ vgs = Absent \/ gw.pc = "deleteMembers"
    /\ \/ snap'[m] = Absent /\ snap[m].fins = {}
       \/ /\ snap'[m] \in MemberSnapshot /\ snap'[m].deleting /\ snap'[m].fins # {}
          /\ snap'[m].fins = snap[m].fins /\ snap'[m].bound = snap[m].bound
          /\ snap'[m].ready = snap[m].ready

\* InGroup goes only when the group is not listed.
MemberReleased(m) ==
    /\ snap[m] \in MemberSnapshot /\ snap[m].deleting /\ MayGo(m)
    /\ \/ snap'[m] = Absent /\ ("InGroup" \in snap[m].fins => ~groupListed)
       \/ /\ snap'[m] \in MemberSnapshot /\ snap'[m].deleting /\ snap'[m].fins # {}
          /\ "InGroup" \in snap[m].fins => "InGroup" \in snap'[m].fins \/ ~groupListed
          /\ snap'[m].bound = snap[m].bound /\ snap'[m].ready = snap[m].ready

\* What the workers of a member do to it.
LEMMA OwnStepMoves ==
    ASSUME Typed, NEW o \in Members, MemberStep(o), NEW m \in Members
    PROVE  snap'[m] = snap[m] \/ MemberEdited(m) \/ MemberReleased(m)
<1> DEFINE s == snap[m]
           fins == s.fins \ (IF s.named THEN {"AsSource", "InGroup"} ELSE {"AsSource"})
           freed == [s EXCEPT !.fins = fins]
<1>1. CASE m # o
  BY <1>1, MemberChange
<1>2. CASE m = o
  <2>1. cont[m] \in MemberContent \cup {Absent}
    BY DEF Typed, TypeOK
  <2>2. CASE s \in MemberSnapshot /\ ~s.deleting /\ snap'[m] = [s EXCEPT !.fins = @ \cup {"AsSource"}]
    BY <2>2 DEF MemberSnapshot, MemberEdited
  <2>3. CASE /\ s \in MemberSnapshot /\ s.bound /\ ~s.deleting /\ cont[m] # Absent
             /\ snap'[m] = [s EXCEPT !.ready = cont[m].status = "ready",
                                     !.named = @ \/ cont[m].status # "nil"]
    BY <2>1, <2>3 DEF MemberSnapshot, MemberEdited
  <2>4. CASE s \in MemberSnapshot /\ MayGo(m) /\ snap'[m] = KeepMember(freed)
    <3>1. s.deleting /\ (s.named => ~groupListed)
      BY <2>4 DEF MayGo, Candidate
    <3>2. freed \in MemberSnapshot /\ freed.deleting = s.deleting /\ freed.fins = fins
          /\ freed.bound = s.bound /\ freed.ready = s.ready
      BY <2>4 DEF MemberSnapshot
    <3>3. snap'[m] = IF fins = {} THEN Absent ELSE freed
      BY <2>4, <3>1, <3>2 DEF KeepMember
    <3>4. "InGroup" \in s.fins => "InGroup" \in fins \/ ~groupListed
      BY <3>1
    <3> QED BY <2>4, <3>1, <3>2, <3>3, <3>4 DEF MemberReleased
  <2> QED BY <1>2, <2>2, <2>3, <2>4, MemberChange
<1> QED BY <1>1, <1>2

\* What a deletion of a member does to it.
LEMMA AskedMoves ==
    ASSUME Typed, NEW o \in Members, AskedMember(o), NEW m \in Members,
           "alone" \in lapses' \/ vgs = Absent \/ gw.pc = "deleteMembers"
    PROVE  snap'[m] = snap[m] \/ MemberAskedToGo(m)
<1> DEFINE s == snap[o]
           asked == [s EXCEPT !.deleting = TRUE]
<1>1. /\ s \in MemberSnapshot /\ snap' = [snap EXCEPT ![o] = KeepMember(asked)]
      /\ snap'[o] = KeepMember(asked)
      /\ \A x \in Members \ {o} : snap'[x] = snap[x]
  BY OneSnapshot DEF AskedMember, Typed
<1>2. asked \in MemberSnapshot /\ asked.deleting /\ asked.fins = s.fins /\ asked.bound = s.bound
      /\ asked.ready = s.ready
  BY <1>1 DEF MemberSnapshot
<1>3. KeepMember(asked) = IF s.fins = {} THEN Absent ELSE asked
  BY <1>2 DEF KeepMember
<1> QED BY <1>1, <1>2, <1>3 DEF MemberAskedToGo

\* A member is made, bound, edited, asked to go or released.
LEMMA MemberMoves ==
    ASSUME Typed, [Next]_vars, NEW m \in Members
    PROVE  \/ snap'[m] = snap[m] \/ MemberMade(m) \/ MemberBound(m) \/ MemberEdited(m)
           \/ MemberAskedToGo(m) \/ MemberReleased(m)
<1>0. TypeOK /\ snap[m] \in MemberSnapshot \cup {Absent}
  BY DEF Typed, TypeOK
<1>1. CASE GroupWorker
  <2>1. ASSUME NEW reply \in Replies, DeleteMember(reply)
        PROVE  snap'[m] = snap[m] \/ MemberAskedToGo(m)
    <3> DEFINE o == CHOOSE x \in gw.todo : TRUE
    <3>1. gw.pc = "deleteMembers" /\ o \in Members
      BY <2>1, NextOfTodo DEF DeleteMember, Typed, TypeOK, InHand, Equipped
    <3>2. snap' = snap \/ AskedMember(o)
      <4>1. CASE reply = "error" \/ snap[o] = Absent
        BY <2>1, <4>1 DEF DeleteMember
      <4>2. CASE ~(reply = "error" \/ snap[o] = Absent)
        <5>1. snap[o] \in MemberSnapshot
          BY <1>0, <3>1, <4>2 DEF TypeOK
        <5>2. [snap[o] EXCEPT !.deleting = TRUE] \in MemberSnapshot
          BY <5>1, MemberUpdates
        <5>3. snap' = [snap EXCEPT ![o] = KeepMember([snap[o] EXCEPT !.deleting = TRUE])]
          BY <2>1, <4>2 DEF DeleteMember
        <5> QED BY <5>1, <5>2, <5>3, KeepMemberTypes DEF AskedMember
      <4> QED BY <4>1, <4>2
    <3> QED BY <3>1, <3>2, AskedMoves
  <2>2. ASSUME NEW reply \in Replies, CreateMemberSnapshot(reply)
        PROVE  snap'[m] = snap[m] \/ MemberMade(m)
    <3>1. gw.pc = "member" /\ gw.stage = "snapshot" /\ Member \in Members
      BY <2>2, NextOfTodo
         DEF CreateMemberSnapshot, AtStage, Member, Typed, TypeOK, InHand, Equipped
    <3>2. snap' = snap \/ (snap[Member] = Absent /\ snap' = [snap EXCEPT ![Member] = NewMemberSnapshot])
      BY <2>2 DEF CreateMemberSnapshot
    <3> QED BY <1>0, <3>1, <3>2, NewObjects, OneSnapshot DEF MemberMade
  <2>3. ASSUME NEW reply \in Replies, BindMemberSnapshot(reply)
        PROVE  snap'[m] = snap[m] \/ MemberBound(m)
    <3> DEFINE o == Member
               bound == [snap[o] EXCEPT !.bound = TRUE, !.ready = FALSE, !.named = FALSE]
    <3>1. gw.pc = "member" /\ gw.stage = "bindSnapshot" /\ o \in Members
      BY <2>3, NextOfTodo
         DEF BindMemberSnapshot, AtStage, Member, Typed, TypeOK, InHand, Equipped
    <3>2. reply # "error" => snap[o] \in MemberSnapshot
      BY <1>0, <2>3, <3>1, AnswerBudget DEF BindMemberSnapshot, TypeOK
    <3>3. snap' = snap \/ (reply # "error" /\ snap' = [snap EXCEPT ![o] = bound])
      BY <1>0, <2>3, <3>1 DEF BindMemberSnapshot, TypeOK
    <3>4. reply # "error" => /\ bound \in MemberSnapshot /\ bound.bound /\ ~bound.ready
                             /\ bound.deleting = snap[o].deleting /\ bound.fins = snap[o].fins
      BY <3>2 DEF MemberSnapshot
    <3> QED BY <1>0, <3>1, <3>2, <3>3, <3>4, OneSnapshot DEF MemberBound
  <2> QED BY <1>1, <2>1, <2>2, <2>3
          DEF GroupWorker, MakeMember, ForgetGroup, SyncGroupSnapshot, SyncDeletingGroupSnapshot,
              AddGroupFinalizer, CreateContent, UpdateStatus, MarkMissing, BindContent,
              AnnotateDeleted, DeleteContent, RemoveGroupFinalizer, CreateMemberContent,
              BindMemberContent, UpdateMemberContentStatus
<1>2. CASE AnyMember
  BY <1>2, OwnStepMoves DEF AnyMember
<1>3. CASE Others
  <2>1. ASSUME NEW o \in Members, UserDeletesMember(o)
        PROVE  snap'[m] = snap[m] \/ MemberAskedToGo(m)
    BY <2>1, TypeUserDeletesMember, AskedMoves
  <2>2. ASSUME NEW o \in Members, CollectMember(o)
        PROVE  snap'[m] = snap[m] \/ MemberAskedToGo(m)
    <3>1. vgs = Absent
      BY <2>2 DEF CollectMember
    <3> QED BY <2>2, <3>1, TypeCollectMember, AskedMoves
  <2> QED BY <1>3, <2>1, <2>2 DEF Others, UserDeletesGroup, BeginRestore, EndRestore, members
<1> QED BY <1>1, <1>2, <1>3, StepCases, ContentWorkerFrame, SidecarFrame, InformFrame, RestartFrame
        DEF vars, NotContentWorker, NotSidecar, members

-----------------------------------------------------------------------------
(* How the content of a member moves *)

MemberContentMade(m) ==
    /\ gw.pc = "member" /\ gw.stage = "content" /\ m = Member
    /\ cont[m] = Absent /\ cont'[m] = NewMemberContent

MemberContentEdited(m) ==
    /\ cont[m] \in MemberContent /\ cont'[m] \in MemberContent
    /\ cont'[m].deleting = cont[m].deleting /\ (cont[m].uid => cont'[m].uid)
    /\ \/ cont'[m].status = cont[m].status
       \/ cont'[m].status = "cut"
       \/ cont'[m].status = "ready" /\ storage = "ready"
       \/ cont'[m].status = "ready" /\ gw.pc = "member" /\ gw.status = "ready"

\* Asked to go with its snapshot, or gone.
MemberContentReleased(m) ==
    /\ cont[m] \in MemberContent /\ UNCHANGED snap
    /\ \/ MayGo(m) /\ BoundContent(m)
       \/ cont[m].deleting /\ cont'[m] = Absent
    /\ \/ cont'[m] = Absent
       \/ cont'[m] \in MemberContent /\ cont'[m].deleting /\ cont'[m].status = cont[m].status

\* The content of a member is made, edited or released.
LEMMA MemberContentMoves ==
    ASSUME Typed, [Next]_vars, NEW m \in Members
    PROVE  \/ cont'[m] = cont[m] \/ MemberContentMade(m) \/ MemberContentEdited(m)
           \/ MemberContentReleased(m)
<1>0. TypeOK /\ cont[m] \in MemberContent \cup {Absent}
  BY DEF Typed, TypeOK
<1>1. CASE GroupWorker
  <2>0. gw.pc = "member" => Member \in Members /\ HasHandle(gw.status)
    BY NextOfTodo DEF Member, Typed, TypeOK, InHand, Equipped
  <2>1. ASSUME NEW reply \in Replies, CreateMemberContent(reply)
        PROVE  cont'[m] = cont[m] \/ MemberContentMade(m)
    <3>1. gw.pc = "member" /\ gw.stage = "content" /\ Member \in Members
      BY <2>0, <2>1 DEF CreateMemberContent, AtStage
    <3>2. cont' = cont \/ (cont[Member] = Absent /\ cont' = [cont EXCEPT ![Member] = NewMemberContent])
      BY <2>1 DEF CreateMemberContent
    <3> QED BY <1>0, <3>1, <3>2, NewObjects, OneContentOfMember DEF MemberContentMade
  <2>2. ASSUME NEW reply \in Replies, BindMemberContent(reply)
        PROVE  cont'[m] = cont[m] \/ MemberContentEdited(m)
    <3> DEFINE o == Member
               bound == [cont[o] EXCEPT !.uid = TRUE]
    <3>1. o \in Members
      BY <2>0, <2>2 DEF BindMemberContent, AtStage
    <3>2. reply # "error" => cont[o] \in MemberContent
      BY <1>0, <2>2, <3>1, AnswerBudget DEF BindMemberContent, TypeOK
    <3>3. cont' = cont \/ (reply # "error" /\ cont' = [cont EXCEPT ![o] = bound])
      BY <1>0, <2>2, <3>1 DEF BindMemberContent, TypeOK
    <3>4. reply # "error" => /\ bound \in MemberContent /\ bound.uid
                             /\ bound.deleting = cont[o].deleting /\ bound.status = cont[o].status
      BY <3>2 DEF MemberContent
    <3> QED BY <1>0, <3>1, <3>2, <3>3, <3>4, OneContentOfMember DEF MemberContentEdited
  <2>3. ASSUME NEW reply \in Replies, UpdateMemberContentStatus(reply)
        PROVE  cont'[m] = cont[m] \/ MemberContentEdited(m)
    <3> DEFINE o == Member
               known(listed) == [cont[o] EXCEPT !.status = listed]
    <3>1. gw.pc = "member" /\ o \in Members /\ HasHandle(gw.status)
      BY <2>0, <2>3 DEF UpdateMemberContentStatus, AtStage
    <3>2. reply # "error" => cont[o] \in MemberContent
      BY <1>0, <2>3, <3>1, AnswerBudget DEF UpdateMemberContentStatus, TypeOK
    <3>3. cont' = cont \/ (reply # "error" /\ \E listed \in {"cut", gw.status} :
                                                 cont' = [cont EXCEPT ![o] = known(listed)])
      BY <1>0, <2>3, <3>1 DEF UpdateMemberContentStatus, TypeOK
    <3>4. CASE reply # "error" /\ \E listed \in {"cut", gw.status} :
                                     cont' = [cont EXCEPT ![o] = known(listed)]
      <4>1. PICK listed \in {"cut", gw.status} : cont' = [cont EXCEPT ![o] = known(listed)]
        BY <3>4
      <4>2. listed = "cut" \/ (listed = "ready" /\ gw.status = "ready")
        BY <3>1 DEF HasHandle
      <4>3. /\ known(listed) \in MemberContent /\ known(listed).status = listed
            /\ known(listed).deleting = cont[o].deleting /\ known(listed).uid = cont[o].uid
        BY <3>2, <3>4, <4>2 DEF MemberContent
      <4> QED BY <1>0, <3>1, <3>2, <3>4, <4>1, <4>2, <4>3, OneContentOfMember
              DEF MemberContentEdited
    <3> QED BY <3>3, <3>4
  <2> QED BY <1>1, <2>1, <2>2, <2>3
          DEF GroupWorker, MakeMember, ForgetGroup, SyncGroupSnapshot, SyncDeletingGroupSnapshot,
              AddGroupFinalizer, CreateContent, UpdateStatus, MarkMissing, BindContent,
              AnnotateDeleted, DeleteContent, DeleteMember, RemoveGroupFinalizer,
              CreateMemberSnapshot, BindMemberSnapshot, NotGroupWorker
<1>2. CASE AnyMember
  <2>1. ASSUME NEW o \in Members, MemberStep(o)
        PROVE  cont'[m] = cont[m] \/ MemberContentEdited(m) \/ MemberContentReleased(m)
    <3>1. CASE m # o
      BY <2>1, <3>1, MemberChange
    <3>2. CASE m = o
      <4>1. CASE UNCHANGED cont
        BY <4>1
      <4>2. CASE /\ UNCHANGED snap /\ cont[m] \in MemberContent
                 /\ MayGo(m) /\ BoundContent(m)
                 /\ cont'[m] = KeepContent([cont[m] EXCEPT !.deleting = TRUE])
        BY <4>2 DEF MemberContent, KeepContent, MemberContentReleased
      <4>3. CASE /\ UNCHANGED snap /\ cont[m] \in MemberContent
                 /\ cont[m].deleting /\ cont'[m] = Absent
        BY <4>3 DEF MemberContentReleased
      <4>4. CASE /\ UNCHANGED snap /\ cont[m] \in MemberContent
                 /\ \/ cont'[m] = [cont[m] EXCEPT !.fin = TRUE]
                    \/ storage = "ready" /\ cont'[m] = [cont[m] EXCEPT !.status = "ready"]
                    \/ cont'[m] = [cont[m] EXCEPT !.marked = TRUE]
        BY <4>4 DEF MemberContent, MemberContentEdited
      <4> QED BY <2>1, <3>2, <4>1, <4>2, <4>3, <4>4, MemberChange
    <3> QED BY <3>1, <3>2
  <2> QED BY <1>2, <2>1 DEF AnyMember
<1> QED BY <1>1, <1>2, StepCases, ContentWorkerFrame, SidecarFrame, InformFrame, RestartFrame,
           OthersFrame
        DEF vars, NotContentWorker, NotSidecar, members

-----------------------------------------------------------------------------
(* The deletion of the group, and who knows of it *)

\* No copy says that the deletion was asked for before it was.
DeletionKnown ==
    /\ groupStore # Absent /\ groupStore.deleting => Going
    /\ gw.snap # Absent /\ gw.snap.deleting => Going

StoreGoing == groupStore = Absent \/ groupStore.deleting

\* The worker that takes the group down has it from the store.
DeletionSeen == gw.pc \in DeletionCalls => StoreGoing

\* Nothing is done for a group that the informer has not brought yet.
Unseen ==
    vgs # Absent /\ ~groupListed
      => gw.pc = "idle" /\ \A m \in Members : snap[m] = Absent

Seen == DeletionKnown /\ DeletionSeen /\ Unseen

\* A deletion is not taken back, and a group that is gone does not come again.
LEMMA GoingStays ==
    ASSUME Typed, [Next]_vars
    PROVE  (Going => Going') /\ (vgs = Absent => vgs' = Absent)
  BY GroupMoves, GroupFields DEF Going, GroupEdited, GroupReleased, GroupAskedToGo

\* The lister learns of the group as it is.
LEMMA GroupListedMoves ==
    ASSUME [Next]_vars
    PROVE  groupListed' = groupListed \/ (groupListed' <=> vgs' # Absent)
<1>1. CASE Inform
  BY <1>1 DEF Inform, DeliverGroup, DeliverContent, DeliverMembers, DeliverSidecar, caches, api
<1>2. CASE RestartController
  BY <1>2 DEF RestartController, api
<1> QED BY <1>1, <1>2, StepCases, GroupWorkerFrame, ContentWorkerFrame, SidecarFrame, MemberFrame,
           OthersFrame
        DEF vars, NotContentWorker, NotSidecar, NotMemberStep, caches, Resync, RestartSidecar

\* What the worker holds of the group it has from the store.
LEMMA HeldCopyMoves ==
    ASSUME Typed, [Next]_vars
    PROVE  gw'.snap \in {gw.snap, groupStore, Absent}
  BY GroupWorkerMoves, IdleWork
     DEF SyncBegins, DeletionBegins, SyncsTo, StatusIsNext, DeletionGoesOn, MakingGoesOn

\* The worker is in a deletion only if it was, or has just begun one.
LEMMA DeletionStepMoves ==
    ASSUME Typed, [Next]_vars, gw'.pc \in DeletionCalls
    PROVE  gw.pc \in DeletionCalls \/ DeletionBegins
  BY GroupWorkerMoves, IdleWork
     DEF SyncBegins, SyncsTo, StatusIsNext, DeletionGoesOn, MakingGoesOn, DeletionCalls

\* Once the worker knows, the store keeps saying so.
LEMMA StoreGoingStays ==
    ASSUME Typed, Going, StoreGoing, [Next]_vars
    PROVE  StoreGoing'
<1>1. Going'
  BY GoingStays
<1> QED BY <1>1, GroupStoreMoves, GroupFields DEF StoreGoing, Going

\* Seen is inductive.
LEMMA SeenNext ==
    ASSUME Typed, Seen, [Next]_vars
    PROVE  Seen'
<1>1. DeletionKnown'
  <2>1. groupStore' # Absent /\ groupStore'.deleting => Going'
    BY GroupStoreMoves, GoingStays DEF Seen, DeletionKnown, GroupReleased, Going
  <2>2. gw'.snap # Absent /\ gw'.snap.deleting => Going'
    BY HeldCopyMoves, GoingStays DEF Seen, DeletionKnown
  <2> QED BY <2>1, <2>2 DEF DeletionKnown
<1>2. DeletionSeen'
  <2> SUFFICES ASSUME gw'.pc \in DeletionCalls PROVE StoreGoing'
    BY DEF DeletionSeen
  <2>1. CASE gw.pc \in DeletionCalls
    <3>1. Going /\ StoreGoing
      BY <2>1 DEF Typed, InHand, Equipped, Seen, DeletionKnown, DeletionSeen
    <3> QED BY <3>1, StoreGoingStays
  <2>2. CASE DeletionBegins
    BY <2>2 DEF DeletionBegins, StoreGoing
  <2> QED BY <2>1, <2>2, DeletionStepMoves
<1>3. Unseen'
  <2> SUFFICES ASSUME vgs' # Absent, ~groupListed'
               PROVE  gw'.pc = "idle" /\ \A m \in Members : snap'[m] = Absent
    BY DEF Unseen
  <2>1. vgs # Absent /\ ~groupListed
    BY GoingStays, GroupListedMoves
  <2>2. gw.pc = "idle" /\ \A m \in Members : snap[m] = Absent
    BY <2>1 DEF Seen, Unseen
  <2>3. gw'.pc = "idle"
    BY <2>1, <2>2, GroupWorkerMoves, IdleWork
       DEF SyncBegins, DeletionBegins, StatusIsNext, DeletionGoesOn, MakingGoesOn, DeletionCalls
  <2>4. ASSUME NEW m \in Members PROVE snap'[m] = Absent
    BY <2>2, MemberMoves, MemberFields
       DEF MemberMade, MemberBound, MemberEdited, MemberAskedToGo, MemberReleased
  <2> QED BY <2>3, <2>4
<1> QED BY <1>1, <1>2, <1>3 DEF Seen

-----------------------------------------------------------------------------
(* The deletion of the content *)

\* The controller has seen that the group goes, and does nothing else any more.
Retired == Going /\ StoreGoing /\ gw.pc \in DeletionCalls \cup {"idle"}

\* ... and the content is gone, or on its way.
Doomed == Retired /\ (vgsc = Absent \/ vgsc.deleting)

\* The content has not been made yet.
Untouched ==
    /\ storage = "none" /\ dw = SidecarIdle
    /\ sidecarStore = Absent /\ contentStore = Absent /\ contentLister = Absent
    /\ gw.pc \in {"idle", "create"}
    /\ vgs # Absent => vgs.status = "unbound"
    /\ groupStore # Absent => groupStore.status = "unbound"
    /\ \A m \in Members : snap[m] = Absent /\ cont[m] = Absent

OneContent ==
    /\ vgsc # Absent /\ vgsc.deleting => Retired /\ vgsc.fin
    /\ sidecarStore # Absent /\ sidecarStore.deleting => Doomed
    /\ vgsc = Absent => Doomed \/ Untouched
    /\ dw.pc = "csiDelete" => Doomed /\ Deletes

\* A group that is going never comes back to a worker that makes things.
LEMMA RetiredStays ==
    ASSUME Typed, Retired, [Next]_vars
    PROVE  Retired'
<1>1. Going' /\ StoreGoing'
  BY GoingStays, StoreGoingStays DEF Retired
<1>2. gw'.pc \in DeletionCalls \cup {"idle"}
  BY GroupWorkerMoves, IdleWork, GroupFields
     DEF Retired, StoreGoing, SyncBegins, DeletionBegins, StatusIsNext, DeletionGoesOn,
         MakingGoesOn, DeletionCalls
<1> QED BY <1>1, <1>2 DEF Retired

\* Nor does a content that is going, or gone, come back.
LEMMA DoomedStays ==
    ASSUME Typed, Doomed, [Next]_vars
    PROVE  Doomed'
<1>1. Retired'
  BY RetiredStays DEF Doomed
<1>2. vgsc' = Absent \/ vgsc'.deleting
  BY ContentMoves, ContentFields
     DEF Doomed, Retired, ContentMade, ContentEdited, ContentAskedToGo, ContentReleased,
         DeletionCalls
<1> QED BY <1>1, <1>2 DEF Doomed

\* While there is no content nothing else is there either.
LEMMA UntouchedNext ==
    ASSUME Typed, Seen, Untouched, vgsc = Absent, vgsc' = Absent, [Next]_vars
    PROVE  Untouched' \/ Doomed'
<1>1. dw' = SidecarIdle
  BY SidecarWorkerMoves DEF Untouched
<1>2. storage' = "none"
  BY StorageMoves, IdleWork DEF Untouched
<1>3. contentLister' = Absent /\ sidecarStore' = Absent /\ contentStore' = Absent
  <2>1. contentLister' = Absent /\ sidecarStore' = Absent
    BY ContentListerMoves, SidecarStoreMoves, ContentFields DEF Untouched
  <2>2. contentStore' = Absent
    BY ContentStoreMoves, ContentFields DEF Untouched
  <2> QED BY <2>1, <2>2
<1>4. gw.pc \in {"idle", "create"}
  BY DEF Untouched
<1>5. vgs' # Absent => vgs'.status = "unbound"
  <2>1. ~GroupEdited /\ ~GroupReleased
    BY <1>4 DEF GroupEdited, GroupReleased
  <2>2. CASE GroupAskedToGo
    <3>1. vgs' = Absent \/ vgs'.status = vgs.status
      BY <2>2 DEF GroupAskedToGo
    <3> QED BY <2>2, <3>1, GroupFields DEF Untouched, GroupAskedToGo
  <2> QED BY <2>1, <2>2, GroupMoves DEF Untouched
<1>6. groupStore' # Absent => groupStore'.status = "unbound"
  BY <1>4, <1>5, GroupStoreMoves DEF Untouched, GroupReleased
<1>7. gw'.pc \in {"idle", "create"} \/ DeletionBegins
  <2>1. CASE SyncBegins
    <3>1. SyncsTo(groupStore, gw') /\ groupStore # Absent
      BY <2>1, GroupFields DEF SyncBegins, Untouched
    <3> QED BY <3>1, IdleWork DEF SyncsTo, Untouched
  <2>2. ~StatusIsNext /\ ~DeletionGoesOn /\ ~MakingGoesOn
    BY <1>4 DEF StatusIsNext, DeletionGoesOn, MakingGoesOn, DeletionCalls
  <2> QED BY <1>4, <2>1, <2>2, GroupWorkerMoves, IdleWork
<1>8. DeletionBegins => Doomed'
  <2> SUFFICES ASSUME DeletionBegins PROVE Doomed'
    OBVIOUS
  <2>1. groupStore # Absent /\ groupStore.deleting
    BY GroupFields DEF DeletionBegins
  <2>2. Going /\ StoreGoing
    BY <2>1 DEF Seen, DeletionKnown, StoreGoing
  <2>3. Going' /\ StoreGoing' /\ gw'.pc \in DeletionCalls
    BY <2>2, GoingStays, StoreGoingStays DEF DeletionBegins
  <2> QED BY <2>3 DEF Doomed, Retired
<1>9. ASSUME NEW m \in Members PROVE snap'[m] = Absent /\ cont'[m] = Absent
  <2>1. snap[m] = Absent /\ cont[m] = Absent
    BY DEF Untouched
  <2>2. snap'[m] = Absent
    BY <1>4, <2>1, MemberMoves, MemberFields
       DEF MemberMade, MemberBound, MemberEdited, MemberAskedToGo, MemberReleased
  <2>3. cont'[m] = Absent
    BY <1>4, <2>1, MemberContentMoves, MemberContentFields
       DEF MemberContentMade, MemberContentEdited, MemberContentReleased
  <2> QED BY <2>2, <2>3
<1>10. CASE gw'.pc \in {"idle", "create"}
  BY <1>1, <1>2, <1>3, <1>5, <1>6, <1>9, <1>10 DEF Untouched
<1> QED BY <1>7, <1>8, <1>10

\* OneContent is inductive.
LEMMA OneContentNext ==
    ASSUME Typed, Seen, OneContent, [Next]_vars
    PROVE  OneContent'
<1>0. Typed'
  BY TypedNext
<1>1. gw.pc = "delete" => Retired
  BY DEF Typed, InHand, Equipped, DeletionCalls, Seen, DeletionKnown, DeletionSeen, Retired
<1>2. vgsc' # Absent /\ vgsc'.deleting => Retired' /\ vgsc'.fin
  <2> SUFFICES ASSUME vgsc' # Absent, vgsc'.deleting PROVE Retired' /\ vgsc'.fin
    OBVIOUS
  <2>1. CASE vgsc' = vgsc
    BY <2>1, RetiredStays DEF OneContent
  <2>2. ~ContentMade
    BY NewObjects DEF ContentMade, NewContent
  <2>3. CASE ContentEdited
    BY <2>3, RetiredStays, ContentFields DEF ContentEdited, OneContent
  <2>4. CASE ContentAskedToGo
    BY <1>1, <2>4, RetiredStays DEF ContentAskedToGo
  <2>5. ~ContentReleased
    BY DEF ContentReleased
  <2> QED BY <2>1, <2>2, <2>3, <2>4, <2>5, ContentMoves
<1>3. vgsc' = Absent => Doomed' \/ Untouched'
  <2> SUFFICES ASSUME vgsc' = Absent PROVE Doomed' \/ Untouched'
    OBVIOUS
  <2>1. CASE vgsc = Absent
    BY <2>1, DoomedStays, UntouchedNext DEF OneContent
  <2>2. CASE vgsc # Absent
    <3>1. ContentAskedToGo \/ (ContentReleased /\ vgsc.deleting)
      BY <2>2, ContentMoves, ContentFields, NewObjects
         DEF ContentMade, ContentEdited, ContentReleased
    <3>2. Retired
      BY <1>1, <2>2, <3>1 DEF ContentAskedToGo, OneContent
    <3> QED BY <3>2, RetiredStays DEF Doomed
  <2> QED BY <2>1, <2>2
<1>4. sidecarStore' # Absent /\ sidecarStore'.deleting => Doomed'
  <2> SUFFICES ASSUME sidecarStore' # Absent, sidecarStore'.deleting PROVE Doomed'
    OBVIOUS
  <2>1. CASE sidecarStore' = sidecarStore
    BY <2>1, DoomedStays DEF OneContent
  <2>2. CASE sidecarStore' = vgsc'
    BY <1>2, <2>2 DEF Doomed
  <2>3. CASE vgsc \in GroupContent /\ vgsc' = Absent
    <3>1. ContentAskedToGo \/ (ContentReleased /\ vgsc.deleting)
      BY <2>3, ContentMoves, ContentFields DEF ContentMade, ContentEdited, ContentReleased
    <3>2. Retired
      BY <1>1, <2>3, <3>1, ContentFields DEF ContentAskedToGo, OneContent
    <3> QED BY <2>3, <3>2, RetiredStays DEF Doomed
  <2> QED BY <2>1, <2>2, <2>3, SidecarStoreMoves
<1>5. dw'.pc = "csiDelete" => Doomed' /\ Deletes'
  <2> SUFFICES ASSUME dw'.pc = "csiDelete" PROVE Doomed' /\ Deletes'
    OBVIOUS
  <2>1. CASE dw' = dw
    BY <2>1, DoomedStays, ConfigStays DEF OneContent
  <2>2. CASE dw' # dw
    <3>1. Deletes /\ \/ sidecarStore # Absent /\ sidecarStore.deleting
                     \/ vgsc' \in GroupContent /\ vgsc'.deleting
      BY <2>2, SidecarWorkerMoves, IdleWork
    <3>2. Doomed'
      BY <1>2, <3>1, DoomedStays, ContentFields DEF OneContent, Doomed
    <3> QED BY <3>1, <3>2, ConfigStays
  <2> QED BY <2>1, <2>2
<1> QED BY <1>2, <1>3, <1>4, <1>5 DEF OneContent

-----------------------------------------------------------------------------
(* What is said to be ready is *)

\* The storage has the group, or the deletion of the content was asked for.
StoredReady == storage = "ready" \/ Doomed

SaysReady(c) == c # Absent /\ c.status = "ready"

MemberSaysReady(m) ==
    \/ snap[m] # Absent /\ snap[m].ready
    \/ cont[m] # Absent /\ cont[m].status = "ready"

\* Whoever says that the group snapshot is ready has it from the storage.
ReadyKnown ==
    /\ SaysReady(vgsc) \/ SaysReady(contentStore) \/ SaysReady(contentLister) => StoredReady
    /\ gw.status = "ready" => StoredReady
    /\ dw.ready => StoredReady
    /\ ~Dynamic => StoredReady
    /\ Dynamic => dw.pc # "getStatus"
    /\ \A m \in Members : MemberSaysReady(m) => StoredReady

\* The driver is asked to delete only what is doomed.
LEMMA StoredReadyStays ==
    ASSUME Typed, OneContent, StoredReady, [Next]_vars
    PROVE  StoredReady'
  BY StorageMoves, DoomedStays DEF StoredReady, OneContent

\* Whoever says ready says the truth, or the group is going.
LEMMA ReadyKnownNext ==
    ASSUME Typed, OneContent, ReadyKnown, [Next]_vars
    PROVE  ReadyKnown'
<1>0. TypeOK /\ Typed'
  BY TypedNext DEF Typed
<1>1. SaysReady(vgsc') => StoredReady
  BY ContentMoves, NewObjects, ContentFields
     DEF SaysReady, ReadyKnown, ContentMade, NewContent, ContentEdited, ContentAskedToGo,
         ContentReleased
<1>2. SaysReady(contentLister') => StoredReady
  BY ContentListerMoves DEF ReadyKnown, SaysReady
<1>3. SaysReady(contentStore') => StoredReady
  BY <1>1, ContentStoreMoves, ContentFields DEF ReadyKnown, SaysReady
<1>4. gw'.status = "ready" => StoredReady
  <2>1. ASSUME NEW g, SyncsTo(g, gw') PROVE gw'.status = "ready" => StoredReady
    BY <2>1, IdleWork DEF SyncsTo, ReadyKnown, SaysReady
  <2>2. StatusIsNext /\ gw'.status = "ready" => StoredReady
    BY ContentFields DEF StatusIsNext, ReadyKnown, SaysReady
  <2> QED BY <2>1, <2>2, GroupWorkerMoves, IdleWork
          DEF ReadyKnown, SyncBegins, DeletionBegins, DeletionGoesOn, MakingGoesOn
<1>5. dw'.ready => StoredReady \/ storage' = "ready"
  <2>1. dw'.ready => dw.ready \/ storage' = "ready" \/ dw.pc = "getStatus"
    BY SidecarWorkerMoves, IdleWork
  <2> QED BY <2>1 DEF ReadyKnown
<1>6. Dynamic => dw'.pc # "getStatus"
  BY SidecarWorkerMoves, IdleWork DEF ReadyKnown
<1>7. ASSUME NEW m \in Members, MemberSaysReady(m)'
      PROVE  StoredReady
  <2>0. MemberSaysReady(m) => StoredReady
    BY DEF ReadyKnown
  <2>1. snap'[m] # Absent /\ snap'[m].ready => StoredReady
    <3>1. snap[m] # Absent /\ snap[m].ready => StoredReady
      BY <2>0 DEF MemberSaysReady
    <3>2. MemberMade(m) => ~snap'[m].ready
      BY DEF MemberMade, NewMemberSnapshot
    <3>3. MemberEdited(m) /\ snap'[m].ready => StoredReady
      BY <2>0, MemberFields, MemberContentFields DEF MemberEdited, MemberSaysReady
    <3>4. (MemberAskedToGo(m) \/ MemberReleased(m)) /\ snap'[m] # Absent /\ snap'[m].ready
             => StoredReady
      BY <3>1, MemberFields DEF MemberAskedToGo, MemberReleased
    <3> QED BY <3>1, <3>2, <3>3, <3>4, MemberMoves DEF MemberBound
  <2>2. storage = "ready" => StoredReady
    BY DEF StoredReady
  <2>3. cont'[m] # Absent /\ cont'[m].status = "ready" => StoredReady
    BY <2>0, <2>2, MemberContentMoves, NewObjects, MemberContentFields
       DEF ReadyKnown, MemberSaysReady, MemberContentMade, NewMemberContent,
           MemberContentEdited, MemberContentReleased
  <2> QED BY <1>7, <2>1, <2>3 DEF MemberSaysReady
<1>8. StoredReady \/ storage' = "ready" => StoredReady'
  BY StoredReadyStays DEF StoredReady
<1> QED BY <1>1, <1>2, <1>3, <1>4, <1>5, <1>6, <1>7, <1>8, ConfigStays DEF ReadyKnown, SaysReady

-----------------------------------------------------------------------------
(* The members stay with the group *)

Leaving(m) == snap[m] # Absent /\ snap[m].deleting

\* The finalizer every member is born with stays for as long as the group.
HeldInGroup(m) ==
    snap[m] # Absent =>
        /\ IF snap[m].deleting THEN snap[m].fins # {} ELSE "InGroup" \in snap[m].fins
        /\ vgs # Absent => "InGroup" \in snap[m].fins
        /\ snap[m].ready => snap[m].bound
        /\ Dynamic

\* A member goes with the group, or for a user; its content goes with it.
AskedToGo(m) ==
    /\ Leaving(m) => "alone" \in lapses \/ Going
    /\ cont[m] # Absent /\ cont[m].deleting => Leaving(m) \/ vgs = Absent

\* No member leaves before the group is gone.
LEMMA MemberStays ==
    ASSUME Typed, Seen, NEW m \in Members, HeldInGroup(m), vgs # Absent, snap[m] # Absent,
           [Next]_vars
    PROVE  /\ snap'[m] \in MemberSnapshot
           /\ "InGroup" \in snap'[m].fins
           /\ snap[m].deleting => snap'[m].deleting
           /\ snap[m].bound => snap'[m].bound
<1>1. groupListed
  BY DEF Seen, Unseen
<1>2. snap[m] \in MemberSnapshot /\ "InGroup" \in snap[m].fins
  BY DEF HeldInGroup, Typed, TypeOK
<1> QED BY <1>1, <1>2, MemberMoves
        DEF MemberMade, MemberBound, MemberEdited, MemberAskedToGo, MemberReleased

\* A member keeps InGroup until the group is gone.
LEMMA HeldInGroupNext ==
    ASSUME Typed, Seen, NEW m \in Members, HeldInGroup(m), [Next]_vars
    PROVE  HeldInGroup(m)'
<1> SUFFICES ASSUME snap'[m] # Absent
             PROVE  /\ IF snap'[m].deleting THEN snap'[m].fins # {}
                       ELSE "InGroup" \in snap'[m].fins
                    /\ vgs' # Absent => "InGroup" \in snap'[m].fins
                    /\ snap'[m].ready => snap'[m].bound
                    /\ Dynamic'
  BY DEF HeldInGroup
<1>0. snap[m] \in MemberSnapshot \cup {Absent}
  BY DEF Typed, TypeOK
<1>1. CASE MemberMade(m)
  BY <1>1, ConfigStays DEF MemberMade, NewMemberSnapshot, Typed, InHand, Equipped
<1>2. CASE ~MemberMade(m)
  <2>1. snap[m] \in MemberSnapshot /\ snap[m] # Absent
    BY <1>0, <1>2, MemberMoves, MemberFields
       DEF MemberBound, MemberEdited, MemberAskedToGo, MemberReleased
  <2>2. vgs' # Absent => "InGroup" \in snap'[m].fins
    BY <2>1, MemberStays, GoingStays
  <2>3. snap'[m].ready => snap'[m].bound
    BY <1>2, <2>1, MemberMoves DEF HeldInGroup, MemberBound, MemberEdited, MemberAskedToGo,
       MemberReleased
  <2>4. IF snap'[m].deleting THEN snap'[m].fins # {} ELSE "InGroup" \in snap'[m].fins
    BY <1>2, <2>1, MemberMoves DEF HeldInGroup, MemberBound, MemberEdited, MemberAskedToGo,
       MemberReleased
  <2>5. Dynamic'
    BY <2>1, ConfigStays DEF HeldInGroup
  <2> QED BY <2>2, <2>3, <2>4, <2>5
<1> QED BY <1>1, <1>2

\* Nobody asks a member to go while the group is wanted, unless a user does.
LEMMA AskedToGoNext ==
    ASSUME Typed, Seen, NEW m \in Members, HeldInGroup(m), AskedToGo(m), [Next]_vars
    PROVE  AskedToGo(m)'
<1>0. Typed'
  BY TypedNext
<1>1. ASSUME Leaving(m)' PROVE "alone" \in lapses' \/ Going'
  <2>1. CASE MemberAskedToGo(m)
    <3>1. gw.pc = "deleteMembers" => Going
      BY DEF Typed, InHand, Equipped, DeletionCalls, Seen, DeletionKnown
    <3> QED BY <2>1, <3>1, GoingStays DEF MemberAskedToGo, Going
  <2>2. CASE ~MemberAskedToGo(m)
    <3>1. Leaving(m)
      BY <1>1, <2>2, MemberMoves, MemberFields
         DEF Leaving, MemberMade, NewMemberSnapshot, MemberBound, MemberEdited, MemberReleased
    <3> QED BY <3>1, GoingStays, LapsesGrow DEF AskedToGo
  <2> QED BY <2>1, <2>2
<1>2. ASSUME cont'[m] # Absent, cont'[m].deleting PROVE Leaving(m)' \/ vgs' = Absent
  <2>1. Leaving(m) \/ vgs = Absent
    <3>1. CASE MemberContentReleased(m)
      BY <3>1, MemberContentFields
         DEF MemberContentReleased, MayGo, Candidate, Leaving, AskedToGo
    <3>2. CASE ~MemberContentReleased(m)
      BY <1>2, <3>2, MemberContentMoves, MemberContentFields
         DEF MemberContentMade, NewMemberContent, MemberContentEdited, AskedToGo
    <3> QED BY <3>1, <3>2
  <2> QED BY <2>1, MemberStays, GoingStays, MemberFields DEF Leaving
<1> QED BY <1>1, <1>2 DEF AskedToGo

-----------------------------------------------------------------------------
(* How the group went *)

\* Before it had a finalizer: no worker knows.
NeverDeleting ==
    /\ vgs = Absent
    /\ groupStore # Absent => ~groupStore.deleting
    /\ gw.pc \notin DeletionCalls

GoneHow == vgs = Absent => NeverDeleting \/ Retired

\* A group that went before anybody knew of its deletion stays unknown.
LEMMA NeverDeletingStays ==
    ASSUME Typed, NeverDeleting, [Next]_vars
    PROVE  NeverDeleting'
<1>1. vgs' = Absent
  BY GoingStays DEF NeverDeleting
<1>2. groupStore' # Absent => ~groupStore'.deleting
  BY <1>1, GroupStoreMoves, GroupFields DEF NeverDeleting, GroupReleased, DeletionCalls
<1>3. gw'.pc \notin DeletionCalls
  BY DeletionStepMoves, GroupFields DEF NeverDeleting, DeletionBegins
<1> QED BY <1>1, <1>2, <1>3 DEF NeverDeleting

\* A group goes in one of two ways.
LEMMA GoneHowNext ==
    ASSUME Typed, Seen, GoneHow, [Next]_vars
    PROVE  GoneHow'
<1> SUFFICES ASSUME vgs' = Absent PROVE NeverDeleting' \/ Retired'
  BY DEF GoneHow
<1>1. CASE vgs = Absent
  BY <1>1, NeverDeletingStays, RetiredStays DEF GoneHow
<1>2. CASE GroupReleased
  <2>1. Retired
    BY <1>2 DEF GroupReleased, Typed, InHand, Equipped, DeletionCalls, Seen, DeletionKnown,
                DeletionSeen, Retired
  <2> QED BY <2>1, RetiredStays
<1>3. CASE GroupAskedToGo
  <2>1. ~Going
    BY <1>3, GroupFields DEF GroupAskedToGo, Going
  <2>2. gw.pc \notin DeletionCalls /\ (groupStore # Absent => ~groupStore.deleting)
    BY <2>1 DEF Typed, InHand, Equipped, Seen, DeletionKnown
  <2> QED BY <1>3, <2>2 DEF GroupAskedToGo, NeverDeleting
<1>4. ~GroupEdited
  BY GroupFields DEF GroupEdited
<1> QED BY <1>1, <1>2, <1>3, <1>4, GroupMoves

-----------------------------------------------------------------------------
(* A bound member has its content *)

Kept(m)     == cont[m] # Absent /\ ~cont[m].deleting
Pointing(m) == Kept(m) /\ cont[m].uid

\* What may take the content of a member away.
Spoiled(m) == Leaving(m) \/ NeverDeleting

\* A member is complete for the group when it is bound.
Complete(m) == snap[m] # Absent /\ snap[m].bound

BoundKept(m) == Complete(m) => Pointing(m) \/ Spoiled(m)

\* The content of a member is asked to go only after the member.
LEMMA KeptStays ==
    ASSUME Typed, NEW m \in Members, Kept(m), [Next]_vars
    PROVE  (Kept(m)' /\ (cont[m].uid => cont'[m].uid)) \/ Leaving(m)'
<1>1. cont[m] \in MemberContent
  BY DEF Kept, Typed, TypeOK
<1>2. CASE MemberContentReleased(m)
  BY <1>2 DEF MemberContentReleased, Kept, Leaving, MayGo, Candidate
<1>3. CASE ~MemberContentReleased(m)
  BY <1>1, <1>3, MemberContentMoves, MemberContentFields
     DEF Kept, MemberContentMade, MemberContentEdited
<1> QED BY <1>2, <1>3

\* What spoiled a member once spoils it for good.
LEMMA SpoiledStays ==
    ASSUME Typed, Seen, NEW m \in Members, HeldInGroup(m), GoneHow, Spoiled(m),
           snap'[m] # Absent \/ gw.pc = "member", [Next]_vars
    PROVE  Spoiled(m)'
<1>1. CASE NeverDeleting
  BY <1>1, NeverDeletingStays DEF Spoiled
<1>2. CASE Leaving(m) /\ snap'[m] # Absent
  BY <1>2, MemberMoves, MemberFields
     DEF Leaving, Spoiled, MemberMade, MemberBound, MemberEdited, MemberAskedToGo, MemberReleased
<1>3. CASE Leaving(m) /\ snap'[m] = Absent /\ gw.pc = "member"
  <2>1. vgs = Absent
    BY <1>3, MemberStays, MemberFields DEF Leaving
  <2> QED BY <1>1, <1>3, <2>1 DEF GoneHow, Retired, DeletionCalls
<1> QED BY <1>1, <1>2, <1>3 DEF Spoiled

\* A complete member stays so for as long as the group is there.
LEMMA CompleteStays ==
    ASSUME Typed, Seen, NEW m \in Members, HeldInGroup(m), vgs # Absent, Complete(m),
           [Next]_vars
    PROVE  Complete(m)'
  BY MemberStays, MemberFields DEF Complete

-----------------------------------------------------------------------------
(* The making of the members *)

\* What the calls that were answered so far have left behind.
Stage(m) ==
    /\ gw.stage # "content" => Kept(m) \/ Spoiled(m)
    /\ gw.stage \in {"bindSnapshot", "status"} => Pointing(m) \/ Spoiled(m)
    /\ gw.stage = "status" => vgs = Absent \/ Complete(m)

MakingKnown ==
    gw.pc = "member" => /\ Stage(Member)
                        /\ vgs # Absent => \A m \in Members \ gw.todo : Complete(m)

\* Nobody is told that the group is ready before the last member is complete.
ReadyComplete ==
    Dynamic /\ vgs # Absent =>
        /\ vgs.status = "ready" => \A m \in Members : Complete(m)
        /\ gw.pc = "status" /\ gw.status = "ready" => \A m \in Members : Complete(m)

MembersKnown ==
    /\ \A m \in Members : HeldInGroup(m) /\ AskedToGo(m) /\ BoundKept(m)
    /\ GoneHow /\ MakingKnown /\ ReadyComplete

\* BoundKept is inductive, for each member.
LEMMA BoundKeptNext ==
    ASSUME Typed, Seen, MembersKnown, NEW m \in Members, [Next]_vars
    PROVE  BoundKept(m)'
<1> SUFFICES ASSUME Complete(m)' PROVE Pointing(m)' \/ Spoiled(m)'
  BY DEF BoundKept
<1>1. Pointing(m) \/ Spoiled(m)
  <2>1. CASE MemberBound(m)
    BY <2>1 DEF MemberBound, MembersKnown, MakingKnown, Stage
  <2>2. CASE ~MemberBound(m)
    <3>1. Complete(m)
      BY <2>2, MemberMoves, MemberFields
         DEF Complete, MemberMade, NewMemberSnapshot, MemberEdited, MemberAskedToGo,
             MemberReleased
    <3> QED BY <3>1 DEF MembersKnown, BoundKept
  <2> QED BY <2>1, <2>2
<1>2. CASE Spoiled(m)
  BY <1>2, SpoiledStays DEF MembersKnown, Complete
<1>3. CASE Pointing(m)
  BY <1>3, KeptStays DEF Pointing, Kept, Spoiled
<1> QED BY <1>1, <1>2, <1>3

\* What a call that was answered leaves behind.
LEMMA MakeMoves ==
    ASSUME Typed, NEW reply \in Replies, MakeMember(reply)
    PROVE  /\ gw.pc = "member" /\ UNCHANGED vgs /\ Member \in Members /\ Member \in gw.todo
           /\ \/ gw' = GroupIdle
              \/ /\ gw.stage = "content" /\ gw' = [gw EXCEPT !.stage = "snapshot"]
                 /\ IF cont[Member] = Absent THEN cont'[Member] = NewMemberContent
                    ELSE UNCHANGED cont
              \/ gw.stage = "snapshot" /\ gw' = [gw EXCEPT !.stage = "bindContent"]
              \/ /\ gw.stage = "bindContent" /\ gw' = [gw EXCEPT !.stage = "bindSnapshot"]
                 /\ cont'[Member].uid
              \/ /\ gw.stage = "bindSnapshot" /\ gw' = [gw EXCEPT !.stage = "status"]
                 /\ snap'[Member] # Absent /\ snap'[Member].bound
              \/ /\ gw.stage = "status" /\ gw' = NextMember(Member)
<1>0. TypeOK /\ gw.pc = "member" /\ UNCHANGED vgs
  BY MakeMemberFrame DEF Typed, NotMembers, api
<1>1. Member \in Members /\ Member \in gw.todo
  BY <1>0, NextOfTodo DEF Member, Typed, TypeOK, InHand, Equipped
<1>2. CASE CreateMemberContent(reply)
  <2>1. cont' = [cont EXCEPT ![Member] = NewMemberContent] => cont'[Member] = NewMemberContent
    BY <1>0, <1>1 DEF TypeOK
  <2> QED BY <1>0, <1>1, <1>2, <2>1 DEF CreateMemberContent, AtStage, MemberReply, RetryGroup, Replies
<1>3. CASE CreateMemberSnapshot(reply)
  BY <1>0, <1>1, <1>3 DEF CreateMemberSnapshot, AtStage, MemberReply, RetryGroup
<1>4. CASE BindMemberContent(reply)
  <2>1. reply = "ok" => cont[Member] \in MemberContent
    BY <1>0, <1>1, <1>4, AnswerBudget DEF BindMemberContent, TypeOK
  <2>2. reply = "ok" => cont'[Member] = [cont[Member] EXCEPT !.uid = TRUE]
    BY <1>0, <1>1, <1>4 DEF BindMemberContent, TypeOK
  <2>3. reply = "ok" => cont'[Member].uid
    BY <2>1, <2>2 DEF MemberContent
  <2> QED BY <1>0, <1>1, <1>4, <2>3 DEF BindMemberContent, AtStage, MemberReply, RetryGroup
<1>5. CASE BindMemberSnapshot(reply)
  <2>1. reply = "ok" => snap[Member] \in MemberSnapshot
    BY <1>0, <1>1, <1>5, AnswerBudget DEF BindMemberSnapshot, TypeOK
  <2>2. reply = "ok" => snap'[Member] =
                          [snap[Member] EXCEPT !.bound = TRUE, !.ready = FALSE, !.named = FALSE]
    BY <1>0, <1>1, <1>5 DEF BindMemberSnapshot, TypeOK
  <2>3. reply = "ok" => snap'[Member] \in MemberSnapshot /\ snap'[Member].bound
    BY <2>1, <2>2 DEF MemberSnapshot
  <2>4. CASE reply = "ok"
    <3>1. gw.stage = "bindSnapshot" /\ gw' = [gw EXCEPT !.stage = "status"]
      BY <1>5, <2>4 DEF BindMemberSnapshot, AtStage, MemberReply
    <3>2. snap'[Member] # Absent /\ snap'[Member].bound
      BY <2>3, <2>4, MemberFields
    <3> QED BY <1>0, <1>1, <3>1, <3>2
  <2> QED BY <1>0, <1>1, <1>5, <2>4 DEF BindMemberSnapshot, AtStage, MemberReply, RetryGroup
<1>6. CASE UpdateMemberContentStatus(reply)
  BY <1>0, <1>1, <1>6 DEF UpdateMemberContentStatus, AtStage, MemberReply, RetryGroup
<1> QED BY <1>2, <1>3, <1>4, <1>5, <1>6 DEF MakeMember

\* While members are made, what a call left behind stays, or its member goes.
LEMMA MadeStays ==
    ASSUME Typed, Seen, MembersKnown, NEW m \in Members, gw.pc = "member", [Next]_vars
    PROVE  /\ Kept(m) \/ Spoiled(m) => Kept(m)' \/ Spoiled(m)'
           /\ Pointing(m) \/ Spoiled(m) => Pointing(m)' \/ Spoiled(m)'
<1>1. Spoiled(m) => Spoiled(m)'
  BY SpoiledStays DEF MembersKnown
<1>2. Kept(m) => Kept(m)' \/ Spoiled(m)'
  BY KeptStays DEF Spoiled
<1>3. Pointing(m) => Pointing(m)' \/ Spoiled(m)'
  BY KeptStays DEF Pointing, Kept, Spoiled
<1> QED BY <1>1, <1>2, <1>3

\* A step keeps all the members complete that were.
LEMMA StillComplete ==
    ASSUME Typed, Seen, MembersKnown, NEW m \in Members, vgs' # Absent, Complete(m),
           [Next]_vars
    PROVE  Complete(m)'
  BY CompleteStays, GoingStays DEF MembersKnown

\* Each call of createIndividualSnapshotForGroupSnapshot leaves what the next relies on.
LEMMA MakingKnownNext ==
    ASSUME Typed, Seen, MembersKnown, [Next]_vars
    PROVE  MakingKnown'
<1> SUFFICES ASSUME gw'.pc = "member"
             PROVE  /\ Stage(Member)'
                    /\ vgs' # Absent => \A m \in Members \ gw'.todo : Complete(m)'
  BY DEF MakingKnown
<1>0. TypeOK /\ gw \in GroupWork
  BY DEF Typed, TypeOK
<1>1. CASE gw' = gw
  <2>1. gw.pc = "member" /\ gw'.stage = gw.stage /\ gw'.todo = gw.todo
    BY <1>1
  <2>2. Member \in Members /\ Member' = Member
    BY <1>0, <1>1, <2>1, NextOfTodo DEF Member, Typed, InHand, Equipped
  <2>3. PICK o \in Members : o = Member
    BY <2>2
  <2>4. Stage(o)
    BY <2>1, <2>3 DEF MembersKnown, MakingKnown
  <2>5. /\ Kept(o) \/ Spoiled(o) => Kept(o)' \/ Spoiled(o)'
        /\ Pointing(o) \/ Spoiled(o) => Pointing(o)' \/ Spoiled(o)'
    BY <2>1, MadeStays
  <2>6. vgs = Absent \/ Complete(o) => vgs' = Absent \/ Complete(o)'
    BY StillComplete, GoingStays
  <2>7. Stage(o)'
    BY <2>1, <2>4, <2>5, <2>6 DEF Stage
  <2>8. vgs' # Absent => \A m \in Members \ gw.todo : Complete(m)'
    BY <2>1, StillComplete, GoingStays DEF MembersKnown, MakingKnown
  <2>9. Stage(Member)'
    BY <2>2, <2>3, <2>7
  <2> QED BY <2>1, <2>8, <2>9
<1>2. ASSUME NEW g, SyncsTo(g, gw')
      PROVE  /\ Stage(Member)'
             /\ vgs' # Absent => \A m \in Members \ gw'.todo : Complete(m)'
  <2>1. gw'.stage = "content" /\ gw'.todo = Members
    BY <1>2, IdleWork DEF SyncsTo
  <2> QED BY <2>1 DEF Stage
<1>3. CASE MakingGoesOn
  <2>1. PICK reply \in Replies : MakeMember(reply)
    BY <1>3 DEF MakingGoesOn
  <2>2. gw.pc = "member" /\ Member \in Members /\ Member \in gw.todo /\ UNCHANGED vgs
    BY <2>1, MakeMoves
  <2>3. PICK o \in Members : o = Member
    BY <2>2
  <2>4. Stage(o) /\ (vgs # Absent => \A m \in Members \ gw.todo : Complete(m))
    BY <2>2, <2>3 DEF MembersKnown, MakingKnown
  <2>5. /\ Kept(o) \/ Spoiled(o) => Kept(o)' \/ Spoiled(o)'
        /\ Pointing(o) \/ Spoiled(o) => Pointing(o)' \/ Spoiled(o)'
    BY <2>2, MadeStays
  <2>6. CASE gw.stage = "status" /\ gw' = NextMember(o)
    <3>1. gw'.stage = "content" /\ gw'.todo = gw.todo \ {o}
      BY <1>0, <2>6 DEF NextMember, GroupWork
    <3>2. vgs # Absent => \A m \in Members \ gw'.todo : Complete(m)
      BY <2>4, <2>6, <3>1 DEF Stage
    <3>3. vgs' # Absent => \A m \in Members \ gw'.todo : Complete(m)'
      BY <2>2, <3>2, StillComplete
    <3> QED BY <3>1, <3>3 DEF Stage
  <2>7. CASE gw.stage # "status"
    <3>1. /\ gw'.todo = gw.todo
          /\ \/ gw.stage = "content" /\ gw'.stage = "snapshot"
             \/ gw.stage = "snapshot" /\ gw'.stage = "bindContent"
             \/ gw.stage = "bindContent" /\ gw'.stage = "bindSnapshot"
             \/ gw.stage = "bindSnapshot" /\ gw'.stage = "status"
      BY <1>0, <2>1, <2>7, MakeMoves, IdleWork DEF GroupWork
    <3>2. Member' = o
      BY <2>3, <3>1 DEF Member
    <3>3. gw'.stage # "content" => Kept(o)' \/ Spoiled(o)'
      <4>1. CASE gw.stage = "content"
        <5>1. \/ cont[o] = Absent /\ cont'[o] = NewMemberContent
              \/ cont[o] # Absent /\ UNCHANGED cont
          BY <2>1, <2>3, <3>1, <4>1, MakeMoves, IdleWork
        <5>2. cont[o] = Absent => Kept(o)'
          BY <5>1, NewObjects, MemberContentFields DEF Kept, NewMemberContent
        <5>3. vgs = Absent => NeverDeleting
          BY <2>2 DEF MembersKnown, GoneHow, Retired, DeletionCalls
        <5>4. cont[o] # Absent => Kept(o) \/ Spoiled(o)
          BY <5>3 DEF MembersKnown, AskedToGo, Kept, Spoiled
        <5> QED BY <2>5, <5>2, <5>4
      <4>2. CASE gw.stage # "content"
        BY <2>4, <2>5, <4>2 DEF Stage
      <4> QED BY <4>1, <4>2
    <3>4. gw'.stage \in {"bindSnapshot", "status"} => Pointing(o)' \/ Spoiled(o)'
      <4>1. CASE gw.stage = "bindContent"
        <5>1. cont'[o].uid
          BY <2>1, <2>3, <4>1, MakeMoves, IdleWork
        <5> QED BY <3>1, <3>3, <4>1, <5>1 DEF Pointing
      <4>2. CASE gw.stage = "bindSnapshot"
        BY <2>4, <2>5, <4>2 DEF Stage
      <4> QED BY <3>1, <4>1, <4>2
    <3>5. gw'.stage = "status" => Complete(o)'
      <4> SUFFICES ASSUME gw'.stage = "status" PROVE Complete(o)'
        OBVIOUS
      <4>1. snap'[o] # Absent /\ snap'[o].bound
        BY <2>1, <2>3, <3>1, MakeMoves, IdleWork
      <4> QED BY <4>1 DEF Complete
    <3>6. Stage(o)'
      BY <3>3, <3>4, <3>5 DEF Stage
    <3>7. Stage(Member)'
      BY <3>2, <3>6
    <3>8. vgs' # Absent => \A m \in Members \ gw'.todo : Complete(m)'
      BY <2>2, <2>4, <3>1, StillComplete
    <3> QED BY <3>7, <3>8
  <2> QED BY <2>1, <2>3, <2>6, <2>7, MakeMoves, IdleWork
<1> QED BY <1>1, <1>2, <1>3, GroupWorkerMoves, IdleWork
        DEF SyncBegins, DeletionBegins, StatusIsNext, DeletionGoesOn, DeletionCalls

\* The last member is complete when the status of the group is written.
LEMMA ReadyCompleteNext ==
    ASSUME Typed, Seen, MembersKnown, [Next]_vars
    PROVE  ReadyComplete'
<1> SUFFICES ASSUME Dynamic, vgs' # Absent,
                    vgs'.status = "ready" \/ (gw'.pc = "status" /\ gw'.status = "ready"),
                    NEW m \in Members
             PROVE  Complete(m)'
  BY ConfigStays DEF ReadyComplete
<1>0. vgs # Absent /\ gw \in GroupWork
  BY GoingStays DEF Typed, TypeOK
<1>1. vgs.status = "ready" \/ (gw.pc = "status" /\ gw.status = "ready") => Complete(m)
  BY <1>0 DEF MembersKnown, ReadyComplete
<1>2. CASE vgs'.status = "ready"
  <2>1. vgs.status = "ready" \/ (gw.pc = "status" /\ gw.status = "ready")
    BY <1>2, GroupMoves DEF GroupEdited, GroupReleased, GroupAskedToGo
  <2> QED BY <1>0, <1>1, <2>1, StillComplete
<1>3. CASE gw'.pc = "status" /\ gw'.status = "ready"
  <2>1. CASE gw' = gw
    BY <1>0, <1>1, <1>3, <2>1, StillComplete
  <2>2. CASE MakingGoesOn
    <3>1. PICK reply \in Replies : MakeMember(reply)
      BY <2>2 DEF MakingGoesOn
    <3>2. gw.pc = "member" /\ Member \in gw.todo /\ gw.stage = "status" /\ gw' = NextMember(Member)
      BY <1>0, <1>3, <3>1, MakeMoves, IdleWork DEF GroupWork
    <3>3. gw.todo = {Member}
      BY <1>0, <1>3, <3>2 DEF NextMember, GroupWork
    <3>4. Complete(m)
      BY <1>0, <3>2, <3>3 DEF MembersKnown, MakingKnown, Stage
    <3> QED BY <1>0, <3>4, StillComplete
  <2>3. ASSUME NEW g PROVE ~SyncsTo(g, gw')
    BY <1>3, IdleWork DEF SyncsTo, HasHandle
  <2>4. ~StatusIsNext
    BY <1>3 DEF StatusIsNext, Typed, InHand, Equipped
  <2>5. ~DeletionBegins /\ ~DeletionGoesOn
    BY <1>3 DEF DeletionBegins, DeletionGoesOn, DeletionCalls
  <2>6. ~SyncBegins
    BY <1>3, <2>3 DEF SyncBegins
  <2> QED BY <1>3, <2>1, <2>2, <2>3, <2>4, <2>5, <2>6, GroupWorkerMoves, IdleWork
<1> QED BY <1>2, <1>3

\* MembersKnown is inductive.
LEMMA MembersKnownNext ==
    ASSUME Typed, Seen, MembersKnown, [Next]_vars
    PROVE  MembersKnown'
<1>1. ASSUME NEW m \in Members PROVE HeldInGroup(m)' /\ AskedToGo(m)' /\ BoundKept(m)'
  BY HeldInGroupNext, AskedToGoNext, BoundKeptNext DEF MembersKnown
<1>2. GoneHow' /\ MakingKnown' /\ ReadyComplete'
  BY GoneHowNext, MakingKnownNext, ReadyCompleteNext DEF MembersKnown
<1> QED BY <1>1, <1>2 DEF MembersKnown

-----------------------------------------------------------------------------
(* The invariant *)

GroupKnown == Typed /\ Seen /\ OneContent /\ ReadyKnown /\ MembersKnown

\* The invariant holds when the user has just created the group.
LEMMA GroupKnownInit == Init => GroupKnown
<1> SUFFICES ASSUME Init PROVE GroupKnown
  OBVIOUS
<1>1. Typed
  BY TypedInit
<1>2. Seen
  BY IdleWork DEF Init, Seen, DeletionKnown, DeletionSeen, DeletionCalls, Unseen
<1>3. OneContent
  <2>1. CASE config.kind = "static"
    <3>1. vgsc = StaticContent /\ StaticContent # Absent /\ ~StaticContent.deleting
      BY <2>1, NewObjects, ContentFields DEF Init, StaticContent
    <3> QED BY <3>1, IdleWork DEF Init, OneContent
  <2>2. CASE config.kind # "static"
    <3>1. Untouched
      BY <2>2, IdleWork DEF Init, Untouched
    <3> QED BY <2>2, <3>1, IdleWork DEF Init, OneContent
  <2> QED BY <2>1, <2>2
<1>4. ReadyKnown
  <2>1. ~SaysReady(vgsc) /\ ~SaysReady(contentStore) /\ ~SaysReady(contentLister)
    BY NewObjects, ContentFields DEF Init, SaysReady, StaticContent
  <2>2. gw.status # "ready" /\ ~dw.ready /\ dw.pc # "getStatus"
    BY IdleWork DEF Init
  <2>3. ~Dynamic => storage = "ready"
    BY <1>1 DEF Init, Dynamic, Typed, TypeOK, Config
  <2>4. ASSUME NEW m \in Members PROVE ~MemberSaysReady(m)
    BY DEF Init, MemberSaysReady
  <2> QED BY <2>1, <2>2, <2>3, <2>4 DEF ReadyKnown, StoredReady
<1>5. MembersKnown
  <2>1. vgs # Absent /\ vgs.status = "unbound"
    <3>1. vgs = [deleting |-> FALSE, fin |-> FALSE, status |-> "unbound"]
      BY DEF Init
    <3>2. vgs \in GroupSnapshot
      BY <3>1 DEF GroupSnapshot
    <3> QED BY <3>1, <3>2, GroupFields
  <2> QED BY <2>1, IdleWork
          DEF Init, MembersKnown, HeldInGroup, AskedToGo, Leaving, BoundKept, Complete, GoneHow,
              MakingKnown, ReadyComplete
<1> QED BY <1>1, <1>2, <1>3, <1>4, <1>5 DEF GroupKnown

\* The invariant is inductive.
LEMMA GroupKnownNext == GroupKnown /\ [Next]_vars => GroupKnown'
  BY TypedNext, SeenNext, OneContentNext, ReadyKnownNext, MembersKnownNext DEF GroupKnown

\* The invariant the safety of the group rests on: who can know of the deletion,
\* what is left of the content, who can call it ready, and what a call of
\* createSnapshotsForGroupSnapshotContent leaves behind.
THEOREM GroupInvariant == Spec => []GroupKnown
  BY GroupKnownInit, GroupKnownNext, PTL DEF Spec

-----------------------------------------------------------------------------
(* What the user sees *)

\* A group that says ReadyToUse has all its members, each with its content, bound
\* to each other, unless a user deleted one of them.
THEOREM ReadyIsComplete == Spec => []ReadyMeansComplete
<1>1. GroupKnown => ReadyMeansComplete
  <2> SUFFICES ASSUME GroupKnown, ~Going, vgs.status = "ready", Dynamic,
                      ~Happened({"alone"}), NEW m \in Members
               PROVE  Made(m)
    BY DEF ReadyMeansComplete
  <2>1. Complete(m)
    BY DEF GroupKnown, MembersKnown, ReadyComplete, Going
  <2>2. "alone" \notin lapses
    BY DEF Happened
  <2>3. ~Leaving(m)
    BY <2>2 DEF GroupKnown, MembersKnown, AskedToGo
  <2>4. Pointing(m)
    BY <2>1, <2>3 DEF GroupKnown, MembersKnown, BoundKept, Spoiled, NeverDeleting, Going
  <2> QED BY <2>1, <2>4 DEF Made, Complete, Pointing, Kept
<1> QED BY <1>1, GroupInvariant, PTL

\* Where the deletion of the group stands with its content: the finalizer of the
\* group goes when no content has to go first, or none was found.
Looked ==
    /\ gw.pc \in {"annotate", "delete"} => gw.found
    /\ gw.pc \in {"deleteMembers", "removeFinalizer"} /\ ~gw.found
          => vgsc = Absent \/ "unlisted" \in lapses
    /\ gw.pc = "removeFinalizer" /\ gw.found => ~Deletes

\* Looked is inductive, given the types.
LEMMA LookedNext ==
    ASSUME Typed, Looked, [Next]_vars
    PROVE  Looked'
<1> SUFFICES ASSUME gw'.pc \in DeletionCalls PROVE Looked'
  BY DEF Looked, DeletionCalls
<1>1. vgsc = Absent /\ gw.pc # "create" => vgsc' = Absent
  BY ContentMoves, ContentFields
     DEF ContentMade, ContentEdited, ContentAskedToGo, ContentReleased
<1>2. gw' = gw \/ DeletionBegins \/ DeletionGoesOn
  BY GroupWorkerMoves, IdleWork
     DEF SyncBegins, SyncsTo, StatusIsNext, MakingGoesOn, DeletionCalls
<1>3. CASE gw' = gw
  BY <1>1, <1>3, LapsesGrow, ConfigStays DEF Looked, DeletionCalls
<1>4. CASE DeletionBegins
  BY <1>4, ConfigStays DEF DeletionBegins, Looked
<1>5. CASE DeletionGoesOn
  <2>1. ~gw.found => vgsc = Absent \/ "unlisted" \in lapses
    BY <1>5 DEF Looked, DeletionGoesOn, DeletionCalls
  <2>2. gw.pc # "create"
    BY <1>5 DEF DeletionGoesOn, DeletionCalls
  <2>3. ~gw'.found => vgsc' = Absent \/ "unlisted" \in lapses'
    BY <1>1, <1>5, <2>1, <2>2, LapsesGrow DEF DeletionGoesOn
  <2> QED BY <1>5, <2>3, ConfigStays DEF DeletionGoesOn, Looked
<1> QED BY <1>2, <1>3, <1>4, <1>5

\* While its content is there a group does not go, whatever is lost, restarted or
\* late, unless the deletion found no content in the store, or the group had no
\* finalizer yet.
THEOREM GroupIsLast == Spec => GroupOutlivesContent
<1>1. Init => Looked
  BY IdleWork DEF Init, Looked
<1>2. GroupKnown /\ Looked /\ [Next]_vars => Looked'
  BY LookedNext DEF GroupKnown
<1>3. GroupKnown /\ Looked /\ [Next]_vars =>
        [vgs # Absent /\ vgs' = Absent /\ Deletes
           => vgsc = Absent \/ lapses' \cap {"early", "unlisted"} # {}]_vars
  <2> SUFFICES ASSUME GroupKnown, Looked, [Next]_vars, vgs # Absent, vgs' = Absent, Deletes,
                      vgsc # Absent
               PROVE  "early" \in lapses' \/ "unlisted" \in lapses'
    OBVIOUS
  <2>1. Typed
    BY DEF GroupKnown
  <2>2. GroupReleased \/ GroupAskedToGo
    BY <2>1, GroupMoves, GroupFields DEF GroupEdited
  <2>3. GroupReleased => "unlisted" \in lapses
    BY DEF GroupReleased, Looked
  <2> QED BY <2>2, <2>3, LapsesGrow, AbsentAssumption DEF GroupAskedToGo
<1> QED BY <1>1, <1>2, <1>3, GroupInvariant, PTL DEF Spec, GroupOutlivesContent

-----------------------------------------------------------------------------
(***************************************************************************)
(* Refinement: every step is a step of the promise, or invisible in it.     *)
(***************************************************************************)
\* The group, the storage and the members never change in one step.
LEMMA OneAtATime ==
    ASSUME [Next]_vars
    PROVE  \/ UNCHANGED <<storage, snap>>
           \/ UNCHANGED <<vgs, snap>>
           \/ UNCHANGED <<vgs, storage>>
<1>1. CASE GroupWorker
  <2>1. UNCHANGED storage
    BY <1>1, GroupWorkerFrame DEF world
  <2> QED BY <1>1, <2>1, MakeMemberFrame
          DEF GroupWorker, NotMembers, api, ForgetGroup, SyncGroupSnapshot,
              SyncDeletingGroupSnapshot, AddGroupFinalizer, CreateContent, UpdateStatus,
              MarkMissing, BindContent, AnnotateDeleted, DeleteContent, DeleteMember,
              RemoveGroupFinalizer
<1>2. CASE Others
  <2>1. UNCHANGED storage
    BY <1>2, OthersFrame
  <2> QED BY <1>2, <2>1
          DEF Others, UserDeletesGroup, UserDeletesMember, CollectMember, BeginRestore, EndRestore,
              members, api
<1> QED BY <1>1, <1>2, StepCases, ContentWorkerFrame, SidecarFrame, MemberFrame, InformFrame,
           RestartFrame
        DEF vars, NotContentWorker, NotSidecar, NotMemberStep, members, api, world

\* At most one member changes in a step.
LEMMA OneMember ==
    ASSUME Typed, [Next]_vars
    PROVE  \/ snap' = snap
           \/ \E o \in Members : \A m \in Members \ {o} : snap'[m] = snap[m]
<1> DEFINE One == \E o \in Members : \A m \in Members \ {o} : snap'[m] = snap[m]
<1>0. TypeOK
  BY DEF Typed
<1>1. ASSUME NEW o \in Members, NEW s, snap' = [snap EXCEPT ![o] = s] PROVE One
  <2>1. \A m \in Members \ {o} : snap'[m] = snap[m]
    BY <1>0, <1>1 DEF TypeOK
  <2> QED BY <2>1
<1>2. CASE GroupWorker
  <2>1. gw.todo # {} => (CHOOSE x \in gw.todo : TRUE) \in Members
    BY <1>0, NextOfTodo DEF TypeOK
  <2>2. ASSUME NEW reply \in Replies, DeleteMember(reply) PROVE snap' = snap \/ One
    <3>1. (CHOOSE x \in gw.todo : TRUE) \in Members
      BY <2>1, <2>2 DEF DeleteMember, Typed, InHand, Equipped
    <3> QED BY <1>1, <2>2, <3>1 DEF DeleteMember
  <2>3. ASSUME NEW reply \in Replies, CreateMemberSnapshot(reply) PROVE snap' = snap \/ One
    <3>1. Member \in Members
      BY <2>1, <2>3 DEF CreateMemberSnapshot, AtStage, Member, Typed, InHand, Equipped
    <3> QED BY <1>1, <2>3, <3>1 DEF CreateMemberSnapshot
  <2>4. ASSUME NEW reply \in Replies, BindMemberSnapshot(reply) PROVE snap' = snap \/ One
    <3>1. Member \in Members
      BY <2>1, <2>4 DEF BindMemberSnapshot, AtStage, Member, Typed, InHand, Equipped
    <3>2. snap' = snap \/ \A m \in Members \ {Member} : snap'[m] = snap[m]
      BY <1>0, <2>4 DEF BindMemberSnapshot, TypeOK
    <3> QED BY <3>1, <3>2
  <2> QED BY <1>2, <2>2, <2>3, <2>4
          DEF GroupWorker, MakeMember, ForgetGroup, SyncGroupSnapshot, SyncDeletingGroupSnapshot,
              AddGroupFinalizer, CreateContent, UpdateStatus, MarkMissing, BindContent,
              AnnotateDeleted, DeleteContent, RemoveGroupFinalizer, CreateMemberContent,
              BindMemberContent, UpdateMemberContentStatus
<1>3. CASE AnyMember
  BY <1>3, MemberChange DEF AnyMember
<1>4. CASE Others
  BY <1>1, <1>4
     DEF Others, UserDeletesGroup, UserDeletesMember, CollectMember, BeginRestore, EndRestore,
         members
<1> QED BY <1>2, <1>3, <1>4, StepCases, ContentWorkerFrame, SidecarFrame, InformFrame, RestartFrame
        DEF vars, NotContentWorker, NotSidecar, members

\* Every step is one of GroupPromise, or leaves its variables alone.
LEMMA PromiseStep ==
    ASSUME GroupKnown, GroupKnown', [Next]_vars
    PROVE  [Promise!Next]_(Promise!vars)
<1> DEFINE request == IF vgs = Absent THEN "gone"
                      ELSE IF vgs.deleting THEN "deleting" ELSE "live"
           offered == ~Going /\ vgs.status = "ready"
           stored == IF storage = "inflight" THEN "none" ELSE storage
           present == {m \in Members : snap[m] # Absent}
           wanted == IF Dynamic THEN Members ELSE {}
           policy == config.policy
<1>0. Typed /\ TypeOK /\ Seen /\ MembersKnown
  BY DEF GroupKnown, Typed
<1>1. wanted' = wanted /\ policy' = policy
  BY ConfigStays
<1>2. CASE UNCHANGED <<vgs, snap>>
  <2>1. request' = request /\ offered' = offered /\ present' = present
    BY <1>2 DEF Going
  <2>2. dw.pc = "csiDelete" => policy = "Delete" /\ request # "live"
    BY DEF GroupKnown, OneContent, Doomed, Retired, Going, Deletes
  <2>3. \/ stored' = stored
        \/ stored = "none" /\ stored' \in {"cut", "ready"}
        \/ stored = "cut" /\ stored' = "ready"
        \/ dw.pc = "csiDelete" /\ stored' = "none"
    BY <1>0, StorageMoves
  <2> QED BY <1>1, <2>1, <2>2, <2>3
          DEF Promise!Next, Promise!vars, Promise!Take, Promise!Ripen, Promise!Reclaim
<1>3. CASE UNCHANGED <<vgs, storage>>
  <2>1. request' = request /\ offered' = offered /\ stored' = stored
    BY <1>3 DEF Going
  <2>2. CASE snap' = snap
    BY <1>1, <2>1, <2>2 DEF Promise!vars
  <2>3. ASSUME NEW o \in Members, \A m \in Members \ {o} : snap'[m] = snap[m]
        PROVE  [Promise!Next]_(Promise!vars)
    <3>1. CASE snap'[o] # Absent
      <4>1. present' = present \cup {o}
        BY <2>3, <3>1
      <4> QED BY <1>1, <2>1, <4>1 DEF Promise!Next, Promise!Appear
    <3>2. CASE snap'[o] = Absent /\ snap[o] # Absent
      <4>1. vgs = Absent
        BY <1>0, <3>2, MemberStays, MemberFields DEF MembersKnown
      <4>2. present' = present \ {o}
        BY <2>3, <3>2
      <4> QED BY <1>1, <2>1, <4>1, <4>2 DEF Promise!Next, Promise!Leave
    <3>3. CASE snap'[o] = Absent /\ snap[o] = Absent
      <4>1. present' = present
        BY <2>3, <3>3
      <4> QED BY <1>1, <2>1, <4>1 DEF Promise!vars
    <3> QED BY <3>1, <3>2, <3>3
  <2> QED BY <1>0, <2>2, <2>3, OneMember
<1>4. CASE UNCHANGED <<storage, snap>> /\ vgs' # vgs
  <2>1. stored' = stored /\ present' = present
    BY <1>4
  <2>2. CASE GroupEdited
    <3>1. request' = request /\ vgs # Absent /\ vgs' # Absent
      BY <2>2, GroupFields DEF GroupEdited
    <3>2. offered' /\ ~offered
             => request = "live" /\ stored = "ready" /\ wanted \subseteq present
      <4> SUFFICES ASSUME offered', ~offered
                   PROVE  request = "live" /\ stored = "ready" /\ wanted \subseteq present
        OBVIOUS
      <4>1. request = "live" /\ ~Going /\ ~Going'
        BY <2>2, <3>1 DEF GroupEdited, Going
      <4>2. gw.status = "ready"
        BY <2>2, <4>1 DEF GroupEdited
      <4>3. storage = "ready"
        BY <4>1, <4>2 DEF GroupKnown, ReadyKnown, StoredReady, Doomed, Retired
      <4>4. Dynamic => \A m \in Members : Complete(m)'
        BY <3>1, ConfigStays DEF GroupKnown, MembersKnown, ReadyComplete
      <4>5. wanted \subseteq present
        BY <1>4, <4>4 DEF Complete
      <4> QED BY <4>1, <4>3, <4>5
    <3>3. offered \in BOOLEAN /\ offered' \in BOOLEAN
      OBVIOUS
    <3> QED BY <1>1, <2>1, <3>1, <3>2, <3>3
            DEF Promise!Next, Promise!vars, Promise!Offer, Promise!Withdraw
  <2>3. CASE GroupReleased
    <3>1. vgs # Absent /\ vgs.deleting /\ vgs' = Absent
      BY <1>0, <2>3, GroupFields DEF GroupReleased, Typed, InHand, Equipped, DeletionCalls
    <3>2. request = "deleting" /\ request' = "gone" /\ ~offered /\ ~offered'
      BY <3>1 DEF Going
    <3> QED BY <1>1, <2>1, <3>2 DEF Promise!Next, Promise!Go
  <2>4. CASE GroupAskedToGo
    <3>1. request = "live" /\ request' \in {"deleting", "gone"} /\ ~offered'
      BY <2>4, GroupFields DEF GroupAskedToGo, Going
    <3> QED BY <1>1, <2>1, <3>1 DEF Promise!Next, Promise!RequestDeletion
  <2> QED BY <1>0, <1>4, <2>2, <2>3, <2>4, GroupMoves
<1> QED BY <1>2, <1>3, <1>4, OneAtATime

\* The controllers implement GroupPromise: the group is offered as a whole, no
\* member leaves it before it is gone, and its storage is freed only for the user
\* who asked for it.
THEOREM PromiseKept == Spec => KeepsPromise
<1>1. Init => Promise!Init
  <2> SUFFICES ASSUME Init PROVE Promise!Init
    OBVIOUS
  <2>1. vgs \in GroupSnapshot /\ ~vgs.deleting /\ vgs.status = "unbound"
    BY DEF Init, GroupSnapshot
  <2>2. vgs # Absent
    BY <2>1, GroupFields
  <2>3. config \in Config
    BY ConfigsAssumption DEF Init
  <2>4. /\ Dynamic => storage = "none"
        /\ ~Dynamic => storage = "ready"
    BY <2>3 DEF Init, Dynamic, Config
  <2>5. {m \in Members : snap[m] # Absent} = {}
    BY DEF Init
  <2> QED BY <2>1, <2>2, <2>3, <2>4, <2>5 DEF Promise!Init, Going, Config
<1>2. GroupKnown /\ GroupKnown' /\ [Next]_vars => [Promise!Next]_(Promise!vars)
  BY PromiseStep
<1> QED BY <1>1, <1>2, GroupInvariant, PTL DEF Spec, KeepsPromise, Promise!Spec

-----------------------------------------------------------------------------
(* The sidecar keeps the content for as long as the storage may have it.  This *)
(* needs an informer of the sidecar that does not lag: the content that was     *)
(* annotated enters the wrong store, and a sync of the old copy does not know   *)
(* that CreateGroupSnapshot was called.                                         *)

Asked     == vgsc # Absent /\ "BeingCreated" \in vgsc.anns
Reported  == vgsc # Absent /\ HasHandle(vgsc.status)

\* What may be in the storage is asked for, or its handle is in the content.
StorageGuarded ==
    storage # "none" =>
        /\ vgsc # Absent => Asked \/ (Reported /\ storage # "inflight")
        /\ "exposed" \in lapses \/ (vgsc # Absent /\ vgsc.fin)
        /\ vgsc # Absent /\ vgsc.status = "ready" => storage # "inflight"

\* What the call that is next can rely on.
WorkGuarded ==
    /\ dw.pc \in {"csiDelete", "putStatus", "unannotate"} => storage # "inflight"
    /\ dw.pc \in {"giveUp", "clear", "removeFinalizer"} => storage = "none"
    /\ vgsc # Absent =>
          /\ dw.pc \in {"annotate", "csiCreate"} => vgsc.status = dw.status /\ dw.status # "ready"
          /\ dw.pc = "csiCreate" => Asked
          /\ dw.pc \in {"unannotate", "tidy"} => Reported
          /\ dw.pc = "tidy" => vgsc.status = "ready"
          /\ dw.pc \in {"annotate", "csiCreate", "putStatus", "giveUp", "errorStatus"}
               /\ dw.status = "nil" /\ storage # "none" => Asked
    /\ dw.pc = "unannotate" => HasHandle(dw.status)

Guards == StorageGuarded /\ WorkGuarded

\* What the others do to a content that is there.
LEMMA OthersKeepGuards ==
    ASSUME Typed, [Next]_vars, UNCHANGED <<storage, dw>>,
           vgsc # Absent /\ vgsc' # Absent
             => /\ vgsc'.status = vgsc.status /\ (vgsc.fin => vgsc'.fin)
                /\ vgsc.anns \subseteq vgsc'.anns,
           vgsc # Absent /\ vgsc' = Absent => ~vgsc.fin,
           vgsc = Absent => vgsc' = Absent,
           Guards
    PROVE  Guards'
<1>1. lapses \subseteq lapses'
  BY LapsesGrow
<1>2. StorageGuarded'
  BY <1>1 DEF Guards, StorageGuarded, Asked, Reported
<1>3. WorkGuarded'
  BY DEF Guards, StorageGuarded, WorkGuarded, Asked, Reported
<1> QED BY <1>2, <1>3 DEF Guards

\* The content a behaviour starts the making of finds an empty storage.
LEMMA MadeGuards ==
    ASSUME Typed, OneContent, ContentMade, UNCHANGED <<storage, dw>>
    PROVE  Guards'
<1>1. Untouched
  BY DEF OneContent, ContentMade, Doomed, Retired, DeletionCalls
<1> QED BY <1>1, IdleWork DEF Untouched, Guards, StorageGuarded, WorkGuarded

\* What the common controller does to the content of a dynamic group.
LEMMA WorkersKeepContent ==
    ASSUME Typed, [Next]_vars, GroupWorker \/ ContentWorker, Dynamic, "dropped" \notin lapses'
    PROVE  \/ ContentMade
           \/ /\ vgsc # Absent /\ vgsc' # Absent
                 => /\ vgsc'.status = vgsc.status /\ (vgsc.fin => vgsc'.fin)
                    /\ vgsc.anns \subseteq vgsc'.anns
              /\ vgsc # Absent /\ vgsc' = Absent => ~vgsc.fin
              /\ vgsc = Absent => vgsc' = Absent
<1>0. TypeOK /\ vgsc \in GroupContent \cup {Absent} /\ gw \in GroupWork
  BY DEF Typed, TypeOK
<1>1. CASE vgsc' = vgsc
  BY <1>1
<1>2. ASSUME NEW reply \in Replies, CreateContent(reply), vgsc' # vgsc PROVE ContentMade
  BY <1>2 DEF CreateContent, ContentMade, NotGroupWorker, sidecar
<1>3. ASSUME NEW reply \in Replies, AnnotateDeleted(reply), vgsc' # vgsc
      PROVE  /\ vgsc # Absent /\ vgsc' # Absent /\ vgsc'.status = vgsc.status
             /\ (vgsc.fin => vgsc'.fin) /\ vgsc.anns \subseteq vgsc'.anns
  <2>1. reply # "error" /\ vgsc' = [vgsc EXCEPT !.anns = gw.anns]
    BY <1>3 DEF AnnotateDeleted
  <2>2. vgsc \in GroupContent /\ gw.anns \subseteq Annotations
    BY <1>0, <1>3, <2>1, AnswerBudget, GroupWorkFields DEF AnnotateDeleted
  <2>3. /\ vgsc' \in GroupContent /\ vgsc'.status = vgsc.status /\ vgsc'.fin = vgsc.fin
        /\ vgsc'.anns = gw.anns
    BY <2>1, <2>2 DEF GroupContent
  <2>4. vgsc.anns \subseteq gw.anns
    BY <1>3, <2>1 DEF AnnotateDeleted, Note, When
  <2> QED BY <2>2, <2>3, <2>4, ContentFields
<1>4. ASSUME NEW reply \in Replies, AddContentFinalizer(reply), vgsc' # vgsc
      PROVE  /\ vgsc # Absent /\ vgsc' # Absent /\ vgsc'.status = vgsc.status
             /\ vgsc'.fin /\ vgsc'.anns = vgsc.anns
  <2>1. reply # "error" /\ vgsc' = [vgsc EXCEPT !.fin = TRUE]
    BY <1>4 DEF AddContentFinalizer
  <2>2. vgsc \in GroupContent
    BY <1>0, <1>4, <2>1, AnswerBudget DEF AddContentFinalizer
  <2>3. /\ vgsc' \in GroupContent /\ vgsc'.status = vgsc.status /\ vgsc'.fin
        /\ vgsc'.anns = vgsc.anns
    BY <2>1, <2>2 DEF GroupContent
  <2> QED BY <2>2, <2>3, ContentFields
<1>5. ASSUME NEW reply \in Replies, DeleteContent(reply), vgsc' # vgsc
      PROVE  /\ vgsc # Absent
             /\ vgsc' = Absent => ~vgsc.fin
             /\ vgsc' # Absent => /\ vgsc'.status = vgsc.status /\ vgsc'.fin = vgsc.fin
                                  /\ vgsc'.anns = vgsc.anns
  <2>1. reply # "error" /\ vgsc' = KeepContent([vgsc EXCEPT !.deleting = TRUE])
    BY <1>5 DEF DeleteContent, Delete
  <2>2. vgsc \in GroupContent
    BY <1>0, <1>5, <2>1, AnswerBudget DEF DeleteContent
  <2> DEFINE c == [vgsc EXCEPT !.deleting = TRUE]
  <2>3. /\ c \in GroupContent /\ c.status = vgsc.status /\ c.fin = vgsc.fin
        /\ c.anns = vgsc.anns /\ c.deleting
    BY <2>2 DEF GroupContent
  <2> QED BY <2>1, <2>2, <2>3, ContentFields DEF KeepContent
<1>6. ASSUME NEW reply \in Replies PROVE ~BindContent(reply)
  BY DEF BindContent, Typed, InHand, Equipped
<1>7. vgsc' = vgsc \/ \E reply \in Replies :
                        \/ CreateContent(reply) \/ AnnotateDeleted(reply)
                        \/ AddContentFinalizer(reply) \/ DeleteContent(reply)
  BY <1>6, MakeMemberFrame
     DEF GroupWorker, ContentWorker, ForgetGroup, SyncGroupSnapshot, SyncDeletingGroupSnapshot,
         AddGroupFinalizer, UpdateStatus, MarkMissing, RemoveGroupFinalizer, DeleteMember,
         NotMembers, api, ForgetContent, IgnoreContent, SyncGroupSnapshotContent
<1> QED BY <1>1, <1>2, <1>3, <1>4, <1>5, <1>7

\* The common controller removes no guard.
LEMMA WorkersKeepGuards ==
    ASSUME Typed, [Next]_vars, OneContent, Guards, Dynamic, "dropped" \notin lapses',
           GroupWorker \/ ContentWorker
    PROVE  Guards'
<1>1. UNCHANGED <<storage, dw>>
  BY GroupWorkerFrame, ContentWorkerFrame DEF NotContentWorker, world, sidecar
<1> QED BY <1>1, WorkersKeepContent, MadeGuards, OthersKeepGuards

-----------------------------------------------------------------------------
(* The sidecar's own steps.  One that leaves the content and the storage alone *)
(* need only keep what its next call relies on. *)

\* The key is taken: the copy is that of the server.
LEMMA TakeGuards ==
    ASSUME Typed, Guards, Deletes, Dynamic, TakeSidecarContent, sidecarStore = vgsc
    PROVE  Guards'
<1>1. UNCHANGED <<vgsc, storage, lapses>>
  BY TypeTakeSidecarContent
<1>2. StorageGuarded'
  BY <1>1 DEF Guards, StorageGuarded, Asked, Reported
<1>3. CASE dw' = SidecarIdle
  BY <1>1, <1>2, <1>3, IdleWork DEF Guards, WorkGuarded
<1>4. CASE vgsc \in GroupContent /\ SidecarGoesOn(vgsc, dw')
  <2>1. vgsc # Absent
    BY <1>4, ContentFields
  <2>2. \/ dw' = SidecarIdle
        \/ /\ dw'.status = vgsc.status
           /\ \/ ~Asked /\ Reported /\ dw'.pc = "csiDelete"
              \/ ~Asked /\ ~Reported /\ dw'.pc = "removeFinalizer"
              \/ vgsc.status = "ready" /\ dw'.pc = "tidy"
              \/ vgsc.status # "ready" /\ Asked /\ dw'.pc = "csiCreate"
              \/ vgsc.status # "ready" /\ dw'.pc = "annotate"
    BY <1>4, <2>1
       DEF SidecarGoesOn, ShouldDelete, OwesDeletion, Deletes, Dynamic, Asked, Reported
  <2>3. ~Asked => storage = "none" \/ (Reported /\ storage # "inflight")
    BY <2>1 DEF Guards, StorageGuarded
  <2>4. vgsc.status = "ready" => Reported
    BY <2>1 DEF Reported, HasHandle
  <2>5. storage # "none" /\ vgsc.status = "nil" => Asked
    BY <2>1, <2>3 DEF Reported, HasHandle
  <2>6. Asked' = Asked /\ Reported' = Reported
    BY <1>1 DEF Asked, Reported
  <2>7. WorkGuarded'
    BY <1>1, <2>2, <2>3, <2>4, <2>5, <2>6, IdleWork DEF WorkGuarded
  <2> QED BY <1>2, <2>7 DEF Guards
<1> QED BY <1>3, <1>4, TypeTakeSidecarContent

\* BeingCreated is there before the driver is called.
LEMMA AnnotateGuards ==
    ASSUME Typed, Guards, NEW reply \in Replies, AnnotateCreated(reply), "dropped" \notin lapses'
    PROVE  Guards'
<1> DEFINE anns == dw.anns \cup {"BeingCreated"}
<1>0. TypeOK /\ vgsc \in GroupContent \cup {Absent} /\ dw \in SidecarWork
  BY DEF Typed, TypeOK
<1>1. UNCHANGED storage /\ lapses \subseteq lapses' /\ dw.pc = "annotate"
  BY <1>0 DEF AnnotateCreated, Note
<1>2. \/ dw' = Failed
      \/ /\ dw' = [dw EXCEPT !.pc = "csiCreate", !.anns = anns, !.status = vgsc.status]
         /\ reply # "error"
  BY <1>0 DEF AnnotateCreated
<1>3. CASE vgsc' = vgsc /\ dw' = Failed
  <2>1. dw'.pc = "errorStatus" /\ dw'.status = dw.status
    BY <1>0, <1>3 DEF Failed, SidecarWork
  <2> QED BY <1>1, <1>3, <2>1 DEF Guards, StorageGuarded, WorkGuarded, Asked, Reported
<1>4. CASE reply # "error"
  <2>1. vgsc \in GroupContent /\ vgsc' = [vgsc EXCEPT !.anns = anns] /\ vgsc.anns \subseteq anns
    BY <1>0, <1>4, AnswerBudget DEF AnnotateCreated, Note, When
  <2>2. anns \subseteq Annotations
    BY <1>0, SidecarWorkFields DEF Annotations
  <2>3. /\ vgsc' \in GroupContent /\ vgsc'.status = vgsc.status /\ vgsc'.fin = vgsc.fin
        /\ vgsc'.anns = anns
    BY <2>1, <2>2 DEF GroupContent
  <2>4. vgsc # Absent /\ vgsc' # Absent
    BY <2>1, <2>3, ContentFields
  <2>5. Asked'
    BY <2>3, <2>4 DEF Asked
  <2>6. StorageGuarded'
    BY <1>1, <2>3, <2>4, <2>5 DEF Guards, StorageGuarded
  <2>7. vgsc.status # "ready"
    BY <1>1, <2>4 DEF Guards, WorkGuarded
  <2>8. \/ dw'.pc = "errorStatus"
        \/ dw'.pc = "csiCreate" /\ dw'.status = vgsc.status
    BY <1>0, <1>2 DEF Failed, SidecarWork
  <2>9. WorkGuarded'
    BY <2>3, <2>5, <2>7, <2>8 DEF WorkGuarded
  <2> QED BY <2>6, <2>9 DEF Guards
<1>5. reply = "error" => vgsc' = vgsc /\ dw' = Failed
  BY DEF AnnotateCreated
<1> QED BY <1>3, <1>4, <1>5

\* CreateGroupSnapshot, answered or not, finds BeingCreated.
LEMMA CreateGuards ==
    ASSUME Typed, Guards, CsiCreate
    PROVE  Guards'
<1>0. dw \in SidecarWork /\ storage \in Storage
  BY DEF Typed, TypeOK
<1>1. /\ UNCHANGED vgsc /\ dw.pc = "csiCreate" /\ lapses \subseteq lapses'
      /\ vgsc = Absent \/ ~vgsc.fin => "exposed" \in lapses'
  BY DEF CsiCreate, Note, When
<1>2. vgsc # Absent => Asked /\ Asked' /\ vgsc.status # "ready"
  BY <1>1 DEF Guards, WorkGuarded, Asked
<1>3. /\ dw'.status = dw.status
      /\ \/ dw'.pc = "putStatus" /\ storage' # "inflight"
         \/ dw'.pc = "errorStatus"
         \/ dw'.pc = "giveUp" /\ storage' = "none"
  BY <1>0 DEF CsiCreate, Failed, SidecarWork, Storage
<1>4. StorageGuarded'
  BY <1>1, <1>2 DEF Guards, StorageGuarded
<1>5. WorkGuarded'
  BY <1>1, <1>2, <1>3 DEF WorkGuarded
<1> QED BY <1>4, <1>5 DEF Guards

\* A request takes effect whose content still has BeingCreated.
LEMMA CompletesGuards ==
    ASSUME Typed, Guards, CsiCompletes
    PROVE  Guards'
<1>1. storage = "inflight" /\ storage' = "ready" /\ UNCHANGED <<vgsc, dw, lapses>>
  BY DEF CsiCompletes, sidecar
<1>2. StorageGuarded'
  BY <1>1 DEF Guards, StorageGuarded, Asked, Reported
<1>3. WorkGuarded'
  BY <1>1 DEF Guards, StorageGuarded, WorkGuarded, Asked, Reported
<1> QED BY <1>2, <1>3 DEF Guards

\* The handle is in the content before BeingCreated goes.
LEMMA PutStatusGuards ==
    ASSUME Typed, Guards, NEW reply \in Replies, PutStatus(reply)
    PROVE  Guards'
<1> DEFINE status == IF dw.ready THEN "ready" ELSE "cut"
           c == [vgsc EXCEPT !.status = status]
<1>0. TypeOK /\ vgsc \in GroupContent \cup {Absent} /\ dw \in SidecarWork
  BY DEF Typed, TypeOK
<1>1. UNCHANGED <<storage, lapses>> /\ dw.pc = "putStatus" /\ storage # "inflight"
  BY DEF PutStatus, Guards, WorkGuarded
<1>2. CASE vgsc' = vgsc /\ dw' = Failed
  <2>1. dw'.pc = "errorStatus" /\ dw'.status = dw.status
    BY <1>0, <1>2 DEF Failed, SidecarWork
  <2> QED BY <1>1, <1>2, <2>1 DEF Guards, StorageGuarded, WorkGuarded, Asked, Reported
<1>3. CASE reply # "error"
  <2>1. vgsc \in GroupContent /\ vgsc' = c
    BY <1>0, <1>3, AnswerBudget DEF PutStatus
  <2>2. /\ vgsc' \in GroupContent /\ vgsc'.status = status /\ vgsc'.fin = vgsc.fin
        /\ vgsc'.anns = vgsc.anns
    BY <2>1 DEF GroupContent, ContentStatus
  <2>3. vgsc # Absent /\ vgsc' # Absent /\ HasHandle(vgsc'.status)
    BY <2>1, <2>2, ContentFields DEF HasHandle
  <2>4. Reported' /\ (Asked => Asked')
    BY <2>2, <2>3 DEF Reported, Asked
  <2>5. StorageGuarded'
    BY <1>1, <2>2, <2>3, <2>4 DEF Guards, StorageGuarded
  <2>6. \/ dw' = SidecarIdle
        \/ dw'.pc = "errorStatus" /\ dw'.status = dw.status
        \/ dw'.pc = "unannotate" /\ HasHandle(dw'.status)
    <3>1. dw' \in {SidecarIdle, Failed, [With("unannotate", c) EXCEPT !.ready = dw.ready]}
      BY DEF PutStatus
    <3>2. HasHandle(c.status)
      BY <2>1, <2>3
    <3> QED BY <1>0, <3>1, <3>2 DEF Failed, SidecarWork, With, SidecarIdle
  <2>7. WorkGuarded'
    BY <1>1, <2>3, <2>4, <2>6, IdleWork DEF Guards, WorkGuarded
  <2> QED BY <2>5, <2>7 DEF Guards
<1>4. reply = "error" => vgsc' = vgsc /\ dw' = Failed
  BY DEF PutStatus
<1> QED BY <1>2, <1>3, <1>4

\* BeingCreated goes when the handle is there, or nothing is in the storage.
LEMMA UnannotateGuards ==
    ASSUME Typed, Guards, NEW reply \in Replies, RemoveBeingCreated(reply)
    PROVE  Guards'
<1> DEFINE c == [vgsc EXCEPT !.anns = @ \ {"BeingCreated"}]
           gaveUp == [Failed EXCEPT !.anns = @ \ {"BeingCreated"}]
<1>0. vgsc \in GroupContent \cup {Absent} /\ dw \in SidecarWork
  BY DEF Typed, TypeOK
<1>1. /\ UNCHANGED <<storage, lapses>>
      /\ vgsc' = vgsc \/ (vgsc # Absent /\ c \in GroupContent /\ vgsc' = KeepContent(c))
      /\ \/ dw.pc = "unannotate" /\ dw' \in {SidecarIdle, Failed}
         \/ dw.pc = "giveUp" /\ dw' \in {gaveUp, Failed}
         \/ dw.pc = "tidy" /\ dw' = SidecarIdle
  BY TypeRemoveBeingCreated DEF UnannotateEffect
<1>2. vgsc' = Absent \/ (vgsc # Absent /\ vgsc'.status = vgsc.status /\ vgsc'.fin = vgsc.fin)
  BY <1>0, <1>1, ContentFields DEF KeepContent, GroupContent
<1>3. vgsc # Absent /\ vgsc' = Absent => ~vgsc.fin
  <2> SUFFICES ASSUME vgsc # Absent, vgsc' = Absent PROVE ~vgsc.fin
    OBVIOUS
  <2>1. vgsc \in GroupContent /\ c \in GroupContent /\ vgsc' = KeepContent(c)
    BY <1>0, <1>1
  <2>2. c.fin = vgsc.fin
    BY <2>1 DEF GroupContent
  <2> QED BY <2>1, <2>2, ContentFields DEF KeepContent
<1>4. vgsc' # Absent => vgsc # Absent
  BY <1>2
<1>5. vgsc # Absent /\ storage # "none" => Reported /\ storage # "inflight"
  BY <1>1 DEF Guards, StorageGuarded, WorkGuarded
<1>6. StorageGuarded'
  BY <1>1, <1>2, <1>3, <1>4, <1>5 DEF Guards, StorageGuarded, Reported
<1>7. \/ dw' = SidecarIdle
      \/ dw'.pc = "errorStatus" /\ (storage = "none" \/ dw'.status # "nil")
  <2>1. dw.pc = "unannotate" => dw.status # "nil"
    BY DEF Guards, WorkGuarded, HasHandle
  <2>2. dw.pc = "giveUp" => storage = "none"
    BY DEF Guards, WorkGuarded
  <2>3. /\ Failed.pc = "errorStatus" /\ Failed.status = dw.status
        /\ gaveUp.pc = "errorStatus"
    BY <1>0 DEF Failed, SidecarWork
  <2> QED BY <1>1, <2>1, <2>2, <2>3
<1>8. WorkGuarded'
  BY <1>1, <1>7, IdleWork DEF WorkGuarded
<1> QED BY <1>6, <1>8 DEF Guards

\* An error that replaces the status does not replace the only handle.
LEMMA ErrorStatusGuards ==
    ASSUME Typed, Guards, NEW reply \in Replies, PutErrorStatus(reply)
    PROVE  Guards'
<1> DEFINE status == IF dw.status # "nil" /\ HasHandle(vgsc.status) THEN "cut" ELSE "error"
<1>0. TypeOK /\ vgsc \in GroupContent \cup {Absent}
  BY DEF Typed, TypeOK
<1>1. UNCHANGED <<storage, lapses>> /\ dw.pc = "errorStatus" /\ dw' = SidecarIdle
  BY DEF PutErrorStatus, RetrySidecar
<1>2. WorkGuarded'
  BY <1>1, IdleWork DEF WorkGuarded
<1>3. CASE vgsc' = vgsc
  BY <1>1, <1>2, <1>3 DEF Guards, StorageGuarded, Asked, Reported
<1>4. CASE vgsc' # vgsc
  <2>0. reply # "error" /\ vgsc' = [vgsc EXCEPT !.status = status]
    BY <1>4 DEF PutErrorStatus
  <2>1. vgsc \in GroupContent
    <3>1. Answer(vgsc # Absent, reply)
      BY DEF PutErrorStatus
    <3> QED BY <1>0, <2>0, <3>1, AnswerBudget
  <2>2. /\ vgsc' \in GroupContent /\ vgsc'.status = status /\ vgsc'.fin = vgsc.fin
        /\ vgsc'.anns = vgsc.anns
    BY <2>0, <2>1 DEF GroupContent, ContentStatus
  <2>3. vgsc # Absent /\ vgsc' # Absent
    BY <2>1, <2>2, ContentFields
  <2>4. Asked' <=> Asked
    BY <2>2, <2>3 DEF Asked
  <2>5. storage # "none" => Asked \/ (dw.status # "nil" /\ Reported /\ storage # "inflight")
    BY <1>1, <2>3 DEF Guards, StorageGuarded, WorkGuarded
  <2>6. dw.status # "nil" /\ Reported => Reported'
    BY <2>2, <2>3 DEF Reported, HasHandle
  <2>7. StorageGuarded'
    BY <1>1, <2>2, <2>3, <2>4, <2>5, <2>6 DEF Guards, StorageGuarded
  <2> QED BY <1>2, <2>7 DEF Guards
<1> QED BY <1>3, <1>4

\* DeleteGroupSnapshot is not called while a request is under way.
LEMMA DeleteGuards ==
    ASSUME Typed, Guards, CsiDelete
    PROVE  Guards'
<1>0. dw \in SidecarWork
  BY DEF Typed, TypeOK
<1>1. UNCHANGED <<vgsc, lapses>> /\ storage # "inflight"
  BY DEF CsiDelete, Guards, WorkGuarded
<1>2. \/ storage' = "none" /\ dw'.pc = "clear"
      \/ storage' = storage /\ dw' = SidecarIdle
  BY <1>0, <1>1 DEF CsiDelete, RetrySidecar, SidecarWork
<1>3. StorageGuarded'
  BY <1>1, <1>2 DEF Guards, StorageGuarded, Asked, Reported
<1>4. WorkGuarded'
  BY <1>1, <1>2, IdleWork DEF WorkGuarded
<1> QED BY <1>3, <1>4 DEF Guards

\* The handle is cleared when the storage is free.
LEMMA ClearGuards ==
    ASSUME Typed, Guards, Dynamic, NEW reply \in Replies, ClearStatus(reply)
    PROVE  Guards'
<1> DEFINE status == IF vgsc.status = "nil" THEN "nil" ELSE "cleared"
           c == [vgsc EXCEPT !.status = IF @ = "nil" THEN "nil" ELSE "cleared"]
<1>0. TypeOK /\ vgsc \in GroupContent \cup {Absent}
  BY DEF Typed, TypeOK
<1>1. UNCHANGED <<storage, lapses>> /\ storage = "none"
  BY DEF ClearStatus, Guards, WorkGuarded
<1>2. StorageGuarded'
  BY <1>1 DEF StorageGuarded
<1>3. CASE dw' = SidecarIdle
  BY <1>2, <1>3, IdleWork DEF Guards, WorkGuarded
<1>4. CASE reply = "ok"
  <2>1. vgsc \in GroupContent /\ vgsc' = c /\ dw' = SidecarStep(c)
    BY <1>0, <1>4, AnswerBudget DEF ClearStatus
  <2>2. c \in GroupContent /\ c.status = status
    BY <2>1 DEF GroupContent, ContentStatus
  <2>3. SidecarGoesOn(c, dw')
    BY <1>0, <2>1, <2>2, SidecarStepWork
  <2>4. c # Absent /\ c.status \in {"nil", "cleared"}
    BY <2>2, ContentFields
  <2>5. \/ dw' = SidecarIdle
        \/ dw'.pc = "removeFinalizer"
        \/ dw'.status = c.status /\ "BeingCreated" \in c.anns /\ dw'.pc = "csiCreate"
        \/ dw'.status = c.status /\ dw'.pc = "annotate"
    BY <2>3, <2>4 DEF SidecarGoesOn, OwesDeletion, HasHandle
  <2>6. WorkGuarded'
    BY <1>1, <2>1, <2>4, <2>5, IdleWork DEF WorkGuarded, Asked
  <2> QED BY <1>2, <2>6 DEF Guards
<1>5. reply # "ok" => dw' = SidecarIdle
  BY DEF ClearStatus, RetrySidecar
<1> QED BY <1>3, <1>4, <1>5

\* So is the finalizer removed.
LEMMA ReleaseGuards ==
    ASSUME Typed, Guards, NEW reply \in Replies, RemoveContentFinalizer(reply)
    PROVE  Guards'
<1>1. UNCHANGED <<storage, lapses>> /\ dw.pc = "removeFinalizer" /\ dw' = SidecarIdle
  BY TypeRemoveContentFinalizer
<1>2. storage = "none"
  BY <1>1 DEF Guards, WorkGuarded
<1> QED BY <1>1, <1>2, IdleWork DEF Guards, StorageGuarded, WorkGuarded

\* The sidecar, with the present content, removes no guard too early.
LEMMA SidecarGuards ==
    ASSUME Typed, ReadyKnown, Guards, Deletes, Dynamic, "dropped" \notin lapses',
           SidecarWorker \/ CsiCompletes, sidecarStore = vgsc
    PROVE  Guards'
<1>1. ~CsiGetStatus
  BY DEF CsiGetStatus, ReadyKnown
<1> QED BY <1>1, TakeGuards, AnnotateGuards, CreateGuards, CompletesGuards, PutStatusGuards,
           UnannotateGuards, ErrorStatusGuards, DeleteGuards, ClearGuards, ReleaseGuards
        DEF SidecarWorker

\* An informer that does not lag has brought the content before the sidecar acts.
LEMMA SidecarIsFresh ==
    ASSUME "sidecar" \notin Lagging, ~Behind
    PROVE  sidecarStore = vgsc
BY DEF Behind, SidecarNews

\* What has to be guarded: the storage of a group that the driver made, unless the
\* annotation was lost to a patch built from an old copy.
Guarded == Deletes /\ Dynamic /\ "dropped" \notin lapses => Guards

\* At first a dynamic group has nothing in the storage.
LEMMA GuardedInit == Init => Guarded
<1> SUFFICES ASSUME Init, Dynamic PROVE Guards
  BY DEF Guarded
<1>1. storage = "none" /\ dw.pc = "idle"
  BY IdleWork DEF Init, Dynamic
<1> QED BY <1>1 DEF Guards, StorageGuarded, WorkGuarded

\* A restart of the sidecar forgets the call it was about to make.
LEMMA RestartGuards ==
    ASSUME Typed, Guards, RestartSidecar
    PROVE  Guards'
<1>1. UNCHANGED <<vgsc, storage, lapses>> /\ dw' = SidecarIdle
  BY DEF RestartSidecar, api, world
<1>2. StorageGuarded'
  BY <1>1 DEF Guards, StorageGuarded, Asked, Reported
<1> QED BY <1>1, <1>2, IdleWork DEF Guards, WorkGuarded

\* Guarded is inductive, if the sidecar sees the present content.
LEMMA GuardedNext ==
    ASSUME "sidecar" \notin Lagging, Typed, OneContent, ReadyKnown, Guarded, [Next]_vars
    PROVE  Guarded'
<1> SUFFICES ASSUME Deletes', Dynamic', "dropped" \notin lapses' PROVE Guards'
  BY DEF Guarded
<1>1. Deletes /\ Dynamic /\ "dropped" \notin lapses
  BY LapsesGrow, ConfigStays
<1>2. Guards
  BY <1>1 DEF Guarded
<1>3. CASE UNCHANGED <<vgsc, storage, dw>>
  BY <1>2, <1>3, OthersKeepGuards
<1>4. CASE UNCHANGED vars \/ Inform \/ AnyMember \/ Resync \/ RestartController \/ Others
  <2>1. UNCHANGED <<vgsc, storage, dw>>
    BY <1>4, InformFrame, MemberFrame, RestartFrame, OthersFrame
       DEF vars, NotMemberStep, api, world, sidecar, Resync, RestartController
  <2> QED BY <1>3, <2>1
<1>5. CASE GroupWorker \/ ContentWorker
  BY <1>1, <1>2, <1>5, WorkersKeepGuards
<1>6. CASE RestartSidecar
  BY <1>2, <1>6, RestartGuards
<1>7. CASE ~Behind /\ (SidecarWorker \/ CsiCompletes)
  BY <1>1, <1>2, <1>7, SidecarGuards, SidecarIsFresh
<1> QED BY <1>4, <1>5, <1>6, <1>7 DEF Next, Controllers

\* So the storage is guarded in every behaviour.
LEMMA GuardedAlways == "sidecar" \notin Lagging => (Spec => []Guarded)
<1> SUFFICES ASSUME "sidecar" \notin Lagging PROVE Spec => []Guarded
  OBVIOUS
<1>1. GroupKnown /\ Guarded /\ [Next]_vars => Guarded'
  BY GuardedNext DEF GroupKnown
<1> QED BY <1>1, GuardedInit, GroupInvariant, PTL DEF Spec

\* When group and content are gone the driver keeps nothing of them.
THEOREM NothingLeaks == "sidecar" \notin Lagging => (Spec => []NoLeakedGroup)
<1>1. Guarded => NoLeakedGroup
  BY DEF Guarded, Guards, StorageGuarded, NoLeakedGroup, Happened
<1> QED BY <1>1, GuardedAlways, PTL

\* The finalizer of the content goes when the storage is free, and not before.
THEOREM FinalizerIsLast == "sidecar" \notin Lagging => (Spec => ContentOutlivesStorage)
<1>1. ASSUME Typed, Guarded, [Next]_vars
      PROVE  [Deletes /\ Dynamic /\ LosesContentFinalizer
                => storage = "none" \/ Happened({"dropped"})]_vars
  <2> SUFFICES ASSUME Deletes, Dynamic, LosesContentFinalizer, "dropped" \notin lapses
               PROVE  storage = "none"
    BY DEF Happened
  <2>1. dw.pc = "removeFinalizer"
    BY <1>1, ContentMoves, ContentFields
       DEF LosesContentFinalizer, ContentMade, ContentEdited, ContentAskedToGo, ContentReleased
  <2> QED BY <1>1, <2>1 DEF Guarded, Guards, WorkGuarded
<1>2. GroupKnown /\ Guarded /\ [Next]_vars =>
        [Deletes /\ Dynamic /\ LosesContentFinalizer
           => storage = "none" \/ Happened({"dropped"})]_vars
  BY <1>1 DEF GroupKnown
<1> SUFFICES ASSUME "sidecar" \notin Lagging PROVE Spec => ContentOutlivesStorage
  OBVIOUS
<1>3. Spec => []Guarded
  BY GuardedAlways
<1> QED BY <1>2, <1>3, GroupInvariant, PTL DEF Spec, ContentOutlivesStorage

-----------------------------------------------------------------------------
(* A restore is not disturbed.  This needs an index of the members that does not *)
(* lag: the deletion of the group looks for a volume that restores from a member *)
(* only if the index has one. *)

\* What the deletion of the group looks for is there for as long as a restore goes
\* on that it could have seen.
Undisturbed ==
    /\ gw.pc = "delete" => Deletes
    /\ restoring /\ "late" \notin lapses =>
          /\ storage = "ready" /\ vgsc # Absent /\ ~vgsc.deleting
          /\ Deletes => gw.pc \notin {"annotate", "delete"}
          /\ Deletes => NeverDeleting \/ \E m \in Members : Complete(m) /\ Pointing(m)

\* The group worker acts on an index that has every member.
LEMMA MembersAreIndexed ==
    ASSUME "members" \notin Lagging, [Next]_vars, gw' # gw
    PROVE  indexed = {m \in Members : snap[m] # Absent}
  BY InformFrame DEF Next, Behind, MembersNews, vars

\* A restore begins on a member that is ready.
LEMMA RestoreBegins ==
    ASSUME [Next]_vars, restoring', ~restoring
    PROVE  BeginRestore
  BY StepCases, GroupWorkerFrame, ContentWorkerFrame, SidecarFrame, MemberFrame, InformFrame,
     RestartFrame
     DEF vars, NotContentWorker, NotSidecar, NotMemberStep, world, Others, UserDeletesGroup,
         UserDeletesMember, CollectMember, EndRestore

\* A member that a volume restores from does not go, and its content neither.
LEMMA RestoredStays ==
    ASSUME Typed, NEW m \in Members, HeldInGroup(m), restoring, Complete(m), Pointing(m),
           [Next]_vars
    PROVE  Complete(m)' /\ Pointing(m)'
<1>0. snap[m] \in MemberSnapshot /\ cont[m] \in MemberContent
  BY DEF Typed, TypeOK, Complete, Pointing, Kept
<1>1. ~MayGo(m) /\ ~cont[m].deleting
  BY DEF MayGo, BoundContent, Complete, Pointing, Kept
<1>2. snap[m].fins # {}
  BY DEF HeldInGroup, Complete
<1>3. Complete(m)'
  <2>1. /\ snap'[m] = snap[m] \/ MemberBound(m) \/ MemberEdited(m) \/ MemberAskedToGo(m)
        /\ ~MemberMade(m) /\ ~MemberReleased(m)
    BY <1>1, MemberMoves DEF MemberMade, MemberReleased, Complete
  <2>2. snap'[m] = snap[m] \/ (snap'[m] \in MemberSnapshot /\ snap'[m].bound)
    BY <1>2, <2>1 DEF MemberBound, MemberEdited, MemberAskedToGo, Complete
  <2> QED BY <2>2, MemberFields DEF Complete
<1>4. Pointing(m)'
  <2>1. cont'[m] = cont[m] \/ MemberContentEdited(m)
    BY <1>1, MemberContentMoves DEF MemberContentMade, MemberContentReleased, Pointing, Kept
  <2> QED BY <1>1, <2>1, MemberContentFields DEF MemberContentEdited, Pointing, Kept
<1> QED BY <1>3, <1>4

\* Undisturbed is inductive, if the index of the members is up to date.
LEMMA UndisturbedNext ==
    ASSUME "members" \notin Lagging, Typed, OneContent, ReadyKnown, MembersKnown, Undisturbed,
           [Next]_vars
    PROVE  Undisturbed'
<1>0. vgsc \in GroupContent \cup {Absent}
  BY DEF Typed, TypeOK
<1>1. gw'.pc = "delete" => Deletes'
  BY GroupWorkerMoves, IdleWork, ConfigStays
     DEF Undisturbed, SyncBegins, SyncsTo, DeletionBegins, StatusIsNext, DeletionGoesOn,
         MakingGoesOn
<1> SUFFICES ASSUME restoring', "late" \notin lapses'
             PROVE  /\ storage' = "ready" /\ vgsc' # Absent /\ ~vgsc'.deleting
                    /\ Deletes' => gw'.pc \notin {"annotate", "delete"}
                    /\ Deletes' => NeverDeleting'
                                   \/ \E m \in Members : Complete(m)' /\ Pointing(m)'
  BY <1>1 DEF Undisturbed
<1>2. "late" \notin lapses
  BY LapsesGrow
<1>3. CASE ~restoring
  <2>1. BeginRestore
    BY <1>3, RestoreBegins
  <2>2. PICK m \in Members : snap[m] # Absent /\ snap[m].ready /\ ~snap[m].deleting
    BY <2>1 DEF BeginRestore
  <2>3. UNCHANGED <<config, vgs, vgsc, snap, cont, groupStore, gw, storage>>
    BY <2>1 DEF BeginRestore, api, members, caches
  <2>4. gw.pc \notin {"annotate", "delete"} /\ vgsc # Absent /\ ~vgsc.deleting
    BY <2>1 DEF BeginRestore, Note, When
  <2>5. storage = "ready"
    BY <2>2, <2>4 DEF ReadyKnown, MemberSaysReady, StoredReady, Doomed
  <2>6. Complete(m) /\ (Pointing(m) \/ NeverDeleting)
    BY <2>2 DEF MembersKnown, HeldInGroup, Complete, BoundKept, Spoiled, Leaving
  <2>7. NeverDeleting' \/ (Complete(m)' /\ Pointing(m)')
    BY <2>3, <2>6 DEF NeverDeleting, Complete, Pointing, Kept
  <2> QED BY <2>3, <2>4, <2>5, <2>7
<1>4. CASE restoring
  <2>1. storage = "ready" /\ vgsc \in GroupContent /\ vgsc # Absent /\ ~vgsc.deleting
    BY <1>0, <1>2, <1>4 DEF Undisturbed
  <2>2. storage' = "ready"
    BY <2>1, StorageMoves DEF OneContent, Doomed
  <2>3. Deletes => gw.pc # "delete"
    BY <1>2, <1>4 DEF Undisturbed
  <2>4. vgsc' # Absent /\ ~vgsc'.deleting
    BY <2>1, <2>3, ContentMoves, ContentFields
       DEF ContentMade, ContentEdited, ContentAskedToGo, ContentReleased, Undisturbed
  <2>5. ASSUME Deletes PROVE NeverDeleting' \/ \E m \in Members : Complete(m)' /\ Pointing(m)'
    <3>1. CASE NeverDeleting
      BY <3>1, NeverDeletingStays
    <3>2. CASE ~NeverDeleting
      <4>1. PICK m \in Members : Complete(m) /\ Pointing(m)
        BY <1>2, <1>4, <2>5, <3>2 DEF Undisturbed
      <4>2. Complete(m)' /\ Pointing(m)'
        BY <1>4, <4>1, RestoredStays DEF MembersKnown
      <4> QED BY <4>2
    <3> QED BY <3>1, <3>2
  <2>6. ASSUME Deletes PROVE gw'.pc \notin {"annotate", "delete"}
    <3>1. gw.pc \notin {"annotate", "delete"}
      BY <1>2, <1>4, <2>6 DEF Undisturbed
    <3>2. CASE DeletionBegins
      <4>1. indexed = {} /\ groupStore # Absent /\ groupStore.deleting
        BY <1>4, <3>2, GroupFields DEF DeletionBegins, Held
      <4>2. gw' # gw
        BY <3>2 DEF DeletionBegins, DeletionCalls
      <4>3. ~(\E m \in Members : Complete(m))
        BY <4>1, <4>2, MembersAreIndexed DEF Complete
      <4> QED BY <1>2, <1>4, <2>6, <4>1, <4>3 DEF Undisturbed, NeverDeleting
    <3>3. CASE ~DeletionBegins
      BY <3>1, <3>3, GroupWorkerMoves, IdleWork
         DEF SyncBegins, SyncsTo, StatusIsNext, DeletionGoesOn, MakingGoesOn
    <3> QED BY <3>2, <3>3
  <2> QED BY <2>2, <2>4, <2>5, <2>6, ConfigStays
<1> QED BY <1>3, <1>4

\* The group snapshot that a volume is being restored from stays in the storage,
\* unless the restore began after the deletion had looked for one.
THEOREM RestoreIsProtected == "members" \notin Lagging => (Spec => []RestoreProtected)
<1> SUFFICES ASSUME "members" \notin Lagging PROVE Spec => []RestoreProtected
  OBVIOUS
<1>1. Init => Undisturbed
  BY IdleWork DEF Init, Undisturbed
<1>2. GroupKnown /\ Undisturbed /\ [Next]_vars => Undisturbed'
  BY UndisturbedNext DEF GroupKnown
<1>3. Undisturbed => RestoreProtected
  BY DEF Undisturbed, RestoreProtected, Happened
<1> QED BY <1>1, <1>2, <1>3, GroupInvariant, PTL DEF Spec
=============================================================================
