------------------------- MODULE GroupLifecycleTypes -------------------------
(***************************************************************************)
(* Type correctness of GroupLifecycle, for any members, kinds of group,     *)
(* policies, budgets and lagging informers.  TypeOK is not inductive by     *)
(* itself: a worker has to have in hand what its next call needs (InHand).  *)
(* There is one lemma per operation that yields work for the group worker,  *)
(* and one per action.                                                      *)
(***************************************************************************)
EXTENDS GroupLifecycle, TLAPS

\* The calls of processGroupSnapshotWithDeletionTimestamp.
DeletionCalls == {"annotate", "delete", "deleteMembers", "removeFinalizer"}

\* What the group worker has to have in hand for its next call.
Equipped(w) ==
    /\ w.pc \in {"addFinalizer", "missing"} \cup DeletionCalls => w.snap # Absent
    /\ w.pc \in DeletionCalls => w.snap.deleting
    /\ w.pc \in {"member", "deleteMembers"} => w.todo # {}
    /\ w.pc \in {"member", "create"} => Dynamic
    /\ w.pc = "member" => HasHandle(w.status)
    /\ w.pc = "bindContent" => ~Dynamic

InHand == Equipped(gw)

Typed == TypeOK /\ InHand

-----------------------------------------------------------------------------
(* Records *)

\* A copy of the group is not Absent, and its fields have their types.
LEMMA GroupFields ==
    ASSUME NEW g \in GroupSnapshot
    PROVE  /\ g.deleting \in BOOLEAN /\ g.fin \in BOOLEAN
           /\ g.status \in {"unbound", "bound", "ready"} /\ g # Absent
  BY AbsentAssumption DEF GroupSnapshot

\* The updates of a group that the actions make.
LEMMA GroupUpdates ==
    ASSUME NEW g \in GroupSnapshot
    PROVE  /\ \A b \in BOOLEAN :
                 LET h == [g EXCEPT !.fin = b]
                 IN /\ h \in GroupSnapshot /\ h.fin = b
                    /\ h.deleting = g.deleting /\ h.status = g.status
           /\ \A t \in {"unbound", "bound", "ready"} :
                 LET h == [g EXCEPT !.status = t]
                 IN /\ h \in GroupSnapshot /\ h.status = t
                    /\ h.deleting = g.deleting /\ h.fin = g.fin
           /\ LET h == [g EXCEPT !.deleting = TRUE]
              IN /\ h \in GroupSnapshot /\ h.deleting
                 /\ h.status = g.status /\ h.fin = g.fin
  BY DEF GroupSnapshot

\* The same of the content of a group.
LEMMA ContentFields ==
    ASSUME NEW c \in GroupContent
    PROVE  /\ c.deleting \in BOOLEAN /\ c.fin \in BOOLEAN
           /\ c.anns \subseteq Annotations /\ c.status \in ContentStatus
           /\ c.uid \in BOOLEAN /\ c.versioned \in BOOLEAN /\ c # Absent
  BY AbsentAssumption DEF GroupContent

\* The content that differs in one field.
LEMMA ContentUpdates ==
    ASSUME NEW c \in GroupContent
    PROVE  /\ \A b \in BOOLEAN :
                 LET d == [c EXCEPT !.fin = b]
                 IN /\ d \in GroupContent /\ d.fin = b /\ d.deleting = c.deleting
                    /\ d.anns = c.anns /\ d.status = c.status
           /\ \A a \in SUBSET Annotations :
                 LET d == [c EXCEPT !.anns = a]
                 IN /\ d \in GroupContent /\ d.anns = a /\ d.deleting = c.deleting
                    /\ d.fin = c.fin /\ d.status = c.status
           /\ \A t \in ContentStatus :
                 LET d == [c EXCEPT !.status = t]
                 IN /\ d \in GroupContent /\ d.status = t /\ d.deleting = c.deleting
                    /\ d.fin = c.fin /\ d.anns = c.anns
           /\ LET d == [c EXCEPT !.deleting = TRUE]
              IN /\ d \in GroupContent /\ d.deleting
                 /\ d.fin = c.fin /\ d.anns = c.anns /\ d.status = c.status
           /\ LET d == [c EXCEPT !.uid = TRUE]
              IN /\ d \in GroupContent /\ d.uid /\ d.deleting = c.deleting
                 /\ d.fin = c.fin /\ d.anns = c.anns /\ d.status = c.status
  BY DEF GroupContent

\* The same of a member.
LEMMA MemberFields ==
    ASSUME NEW s \in MemberSnapshot
    PROVE  /\ s.deleting \in BOOLEAN /\ s.fins \subseteq {"AsSource", "InGroup"}
           /\ s.bound \in BOOLEAN /\ s.ready \in BOOLEAN /\ s.named \in BOOLEAN
           /\ s # Absent
  BY AbsentAssumption DEF MemberSnapshot

LEMMA MemberUpdates ==
    ASSUME NEW s \in MemberSnapshot
    PROVE  /\ \A f \in SUBSET {"AsSource", "InGroup"} :
                 LET t == [s EXCEPT !.fins = f]
                 IN /\ t \in MemberSnapshot /\ t.fins = f /\ t.deleting = s.deleting
                    /\ t.bound = s.bound /\ t.ready = s.ready
           /\ \A r, n \in BOOLEAN :
                 LET t == [s EXCEPT !.ready = r, !.named = n]
                 IN /\ t \in MemberSnapshot /\ t.ready = r /\ t.deleting = s.deleting
                    /\ t.bound = s.bound /\ t.fins = s.fins
           /\ LET t == [s EXCEPT !.bound = TRUE, !.ready = FALSE, !.named = FALSE]
              IN /\ t \in MemberSnapshot /\ t.bound /\ ~t.ready
                 /\ t.deleting = s.deleting /\ t.fins = s.fins
           /\ LET t == [s EXCEPT !.deleting = TRUE]
              IN /\ t \in MemberSnapshot /\ t.deleting
                 /\ t.bound = s.bound /\ t.ready = s.ready /\ t.fins = s.fins
  BY DEF MemberSnapshot

\* The same of the content of a member.
LEMMA MemberContentFields ==
    ASSUME NEW c \in MemberContent
    PROVE  /\ c.deleting \in BOOLEAN /\ c.fin \in BOOLEAN /\ c.uid \in BOOLEAN
           /\ c.marked \in BOOLEAN /\ c.status \in {"nil", "cut", "ready"}
           /\ c # Absent
  BY AbsentAssumption DEF MemberContent

LEMMA MemberContentUpdates ==
    ASSUME NEW c \in MemberContent
    PROVE  /\ LET d == [c EXCEPT !.uid = TRUE]
              IN /\ d \in MemberContent /\ d.uid /\ d.deleting = c.deleting
                 /\ d.status = c.status
           /\ LET d == [c EXCEPT !.fin = TRUE]
              IN /\ d \in MemberContent /\ d.uid = c.uid /\ d.deleting = c.deleting
                 /\ d.status = c.status
           /\ LET d == [c EXCEPT !.marked = TRUE]
              IN /\ d \in MemberContent /\ d.uid = c.uid /\ d.deleting = c.deleting
                 /\ d.status = c.status
           /\ LET d == [c EXCEPT !.deleting = TRUE]
              IN /\ d \in MemberContent /\ d.uid = c.uid /\ d.deleting
                 /\ d.status = c.status
           /\ \A t \in {"nil", "cut", "ready"} :
                 LET d == [c EXCEPT !.status = t]
                 IN /\ d \in MemberContent /\ d.uid = c.uid /\ d.deleting = c.deleting
                    /\ d.status = t
  BY DEF MemberContent

\* The objects that are made.
LEMMA NewObjects ==
    /\ NewContent \in GroupContent /\ StaticContent \in GroupContent
    /\ [NewContent EXCEPT !.versioned = FALSE] \in GroupContent
    /\ [NewContent EXCEPT !.versioned = TRUE] \in GroupContent
    /\ NewMemberContent \in MemberContent
    /\ NewMemberSnapshot \in MemberSnapshot
  BY DEF NewContent, StaticContent, NewMemberContent, NewMemberSnapshot,
         GroupContent, ContentStatus, MemberContent, MemberSnapshot

-----------------------------------------------------------------------------
(* What the workers go on with *)

\* What the group worker has in hand.
LEMMA GroupWorkFields ==
    ASSUME NEW w \in GroupWork
    PROVE  /\ w.snap \in GroupSnapshot \cup {Absent} /\ w.status \in ContentStatus
           /\ w.anns \subseteq Annotations /\ w.found \in BOOLEAN
           /\ w.todo \subseteq Members /\ w.stage \in Stages
  BY DEF GroupWork

\* What the sidecar has in hand.
LEMMA SidecarWorkFields ==
    ASSUME NEW w \in SidecarWork
    PROVE  w.anns \subseteq Annotations /\ w.status \in ContentStatus /\ w.ready \in BOOLEAN
  BY DEF SidecarWork

\* A worker that is idle has nothing in hand.
LEMMA IdleWork ==
    /\ GroupIdle \in GroupWork /\ GroupIdle.pc = "idle" /\ GroupIdle.snap = Absent
    /\ GroupIdle.status = "nil"
    /\ SidecarIdle \in SidecarWork /\ SidecarIdle.pc = "idle" /\ ~SidecarIdle.ready
  BY DEF GroupIdle, SidecarIdle, GroupWork, SidecarWork, ContentStatus, Stages

\* The results of SyncStep: nothing; a call that needs no content; or one that takes
\* the status of the content in the store.
SyncsTo(g, w) ==
    \/ w = GroupIdle
    \/ /\ w.pc = "missing" /\ w.snap = g /\ w.status = "nil" /\ g.status = "ready"
    \/ /\ w.pc = "create" /\ Dynamic /\ w.snap = Absent /\ w.status = "nil"
       /\ contentStore = Absent
    \/ /\ w.pc = "bindContent" /\ ~Dynamic /\ w.snap = Absent /\ w.status = "nil"
       /\ contentStore # Absent
    \/ /\ w.pc = "status" /\ contentStore # Absent /\ w.snap = Absent
       /\ w.status = contentStore.status
       /\ Dynamic => Members = {} \/ ~HasHandle(w.status)
    \/ /\ w.pc = "member" /\ Dynamic /\ contentStore # Absent /\ w.snap = Absent
       /\ w.status = contentStore.status /\ HasHandle(w.status)
       /\ w.todo = Members /\ Members # {} /\ w.stage = "content"

\* SyncStep returns work, of one of these shapes.
LEMMA SyncStepWork ==
    ASSUME TypeOK, NEW g \in GroupSnapshot, ~WaitsForContent(g)
    PROVE  /\ SyncStep(g) \in GroupWork /\ SyncsTo(g, SyncStep(g))
           /\ Equipped(SyncStep(g))
<1> DEFINE w == SyncStep(g)
<1>0. ASSUME w \in GroupWork, SyncsTo(g, w) PROVE Equipped(w)
  BY <1>0, GroupFields, IdleWork DEF SyncsTo, Equipped, DeletionCalls
<1> SUFFICES w \in GroupWork /\ SyncsTo(g, w)
  BY <1>0
<1>1. g.status \in {"unbound", "bound", "ready"} /\ config \in Config
  BY GroupFields DEF TypeOK
<1>2. contentStore # Absent => contentStore.status \in ContentStatus
  BY ContentFields DEF TypeOK
<1>3. CASE g.status = "ready"
  <2>1. w = ReadyStep(g)
    BY <1>3 DEF SyncStep
  <2>2. CASE w = GroupIdle
    BY <2>2, IdleWork DEF SyncsTo
  <2>3. CASE w = [GroupIdle EXCEPT !.pc = "missing", !.snap = g]
    <3>1. w \in GroupWork /\ w.pc = "missing" /\ w.snap = g /\ w.status = "nil"
      BY <2>3 DEF GroupIdle, GroupWork, ContentStatus, Stages
    <3> QED BY <1>3, <3>1 DEF SyncsTo
  <2> QED BY <2>1, <2>2, <2>3 DEF ReadyStep
<1>4. CASE g.status # "ready" /\ ~HasContent
  <2>1. w = [GroupIdle EXCEPT !.pc = "create"]
    BY <1>4 DEF SyncStep
  <2>2. Dynamic
    BY <1>1, <1>4 DEF WaitsForContent, Config, Dynamic
  <2> QED BY <1>4, <2>1, <2>2
          DEF GroupIdle, GroupWork, ContentStatus, Stages, SyncsTo, HasContent
<1>5. CASE g.status # "ready" /\ HasContent /\ ~Dynamic
  <2>1. w = StaticStep
    BY <1>1, <1>5 DEF SyncStep, Config, Dynamic
  <2> QED BY <1>2, <1>5, <2>1
          DEF StaticStep, GroupIdle, GroupWork, ContentStatus, Stages, SyncsTo, HasContent
<1>6. CASE g.status # "ready" /\ HasContent /\ Dynamic
  <2>1. w = MembersStep(contentStore.status)
    BY <1>6 DEF SyncStep, Dynamic
  <2> QED BY <1>2, <1>6, <2>1
          DEF MembersStep, GroupIdle, GroupWork, ContentStatus, Stages, SyncsTo, HasContent
<1> QED BY <1>3, <1>4, <1>5, <1>6

\* The work of a deletion goes on, or is done.
GoesOnDeleting(v, w) ==
    \/ w = GroupIdle
    \/ /\ w.pc \in {"delete", "deleteMembers", "removeFinalizer"}
       /\ w.snap = v.snap /\ w.found = v.found /\ w.status = v.status
       /\ w.pc = "delete" => v.found /\ Deletes
       /\ w.pc = "deleteMembers" => w.todo # {}
       /\ w.pc = "removeFinalizer" => ~(v.found /\ Deletes)

\* What follows the call about the content in a deletion.
LEMMA AfterContentWork ==
    ASSUME NEW v \in GroupWork
    PROVE  /\ AfterContent(v) \in GroupWork /\ GoesOnDeleting(v, AfterContent(v))
           /\ AfterContent(v).pc # "delete"
           /\ AfterAnnotation(v) \in GroupWork /\ GoesOnDeleting(v, AfterAnnotation(v))
           /\ v.snap # Absent /\ v.snap.deleting
                => Equipped(AfterContent(v)) /\ Equipped(AfterAnnotation(v))
<1> DEFINE u == AfterContent(v)
           w == AfterAnnotation(v)
<1>1. ASSUME v.snap # Absent, v.snap.deleting, NEW x, GoesOnDeleting(v, x)
      PROVE  Equipped(x)
  BY <1>1, IdleWork DEF GoesOnDeleting, Equipped, DeletionCalls
<1> SUFFICES /\ u \in GroupWork /\ GoesOnDeleting(v, u) /\ u.pc # "delete"
             /\ w \in GroupWork /\ GoesOnDeleting(v, w)
  BY <1>1
<1>2. CASE v.todo # {}
  <2>1. u = [v EXCEPT !.pc = "deleteMembers"]
    BY <1>2 DEF AfterContent
  <2> QED BY <1>2, <2>1 DEF GroupWork, GoesOnDeleting, AfterAnnotation, Deletes
<1>3. CASE v.todo = {} /\ v.found /\ Deletes
  <2>1. u = GroupIdle
    BY <1>3 DEF AfterContent, Deletes
  <2> QED BY <1>3, <2>1, IdleWork DEF GroupWork, GoesOnDeleting, AfterAnnotation, Deletes
<1>4. CASE v.todo = {} /\ ~(v.found /\ Deletes)
  <2>1. u = [v EXCEPT !.pc = "removeFinalizer"]
    BY <1>4 DEF AfterContent, Deletes
  <2> QED BY <1>4, <2>1 DEF GroupWork, GoesOnDeleting, AfterAnnotation, Deletes
<1> QED BY <1>2, <1>3, <1>4

-----------------------------------------------------------------------------
(* Calls, notes and the store *)

\* A call that was not refused had its object.
LEMMA AnswerBudget ==
    ASSUME TypeOK, NEW accepted, NEW reply, Answer(accepted, reply)
    PROVE  budget' \in [Faults -> Nat] /\ (reply # "error" => accepted)
  BY DEF TypeOK, Answer, Spend, Faults

LEMMA SpendBudget ==
    ASSUME TypeOK, NEW kind \in Faults, Spend(kind)
    PROVE  budget' \in [Faults -> Nat]
  BY DEF TypeOK, Spend

LEMMA NoteLapses ==
    ASSUME TypeOK, NEW which \in SUBSET Lapses, Note(which)
    PROVE  lapses' \subseteq Lapses /\ lapses \subseteq lapses' /\ which \subseteq lapses'
  BY DEF TypeOK, Note

LEMMA WhenLapses ==
    \A happened : \A lapse \in Lapses : When(happened, lapse) \in SUBSET Lapses
  BY DEF When

LEMMA StoreContentTypes ==
    ASSUME TypeOK, NEW c \in GroupContent, StoreContent(c)
    PROVE  /\ contentStore' \in GroupContent \cup {Absent} /\ contentView' \in Views
           /\ contentStore' \in {contentStore, c}
  BY DEF TypeOK, StoreContent, Views

LEMMA KeepContentTypes ==
    ASSUME NEW c \in GroupContent
    PROVE  KeepContent(c) \in {c, Absent}
  BY DEF KeepContent

\* What a worker goes on with.
LEMMA GoesOn ==
    ASSUME NEW w \in GroupWork, Equipped(w), gw' = w, config' = config
    PROVE  gw' \in GroupWork /\ InHand'
  BY DEF InHand, Equipped, Dynamic

\* A step that leaves the objects alone and makes the worker idle.
LEMMA GoesIdle ==
    ASSUME gw' = GroupIdle
    PROVE  gw' \in GroupWork /\ InHand'
  BY IdleWork DEF InHand, Equipped, DeletionCalls

LEMMA GroupWorkerStill ==
    ASSUME Typed, UNCHANGED <<gw, config>>
    PROVE  gw' \in GroupWork /\ InHand'
  BY DEF Typed, TypeOK, InHand, Equipped, Dynamic

\* The member that is next.
LEMMA NextOfTodo ==
    ASSUME NEW w \in GroupWork, w.todo # {}
    PROVE  (CHOOSE x \in w.todo : TRUE) \in w.todo /\ (CHOOSE x \in w.todo : TRUE) \in Members
  BY GroupWorkFields

\* A member without a finalizer goes when it is being deleted.
LEMMA KeepMemberTypes ==
    ASSUME NEW s \in MemberSnapshot
    PROVE  KeepMember(s) \in {s, Absent}
  BY DEF KeepMember

\* The members after one of them has changed.
LEMMA OneSnapshot ==
    ASSUME TypeOK, NEW m \in Members, NEW s \in MemberSnapshot \cup {Absent}
    PROVE  /\ [snap EXCEPT ![m] = s] \in [Members -> MemberSnapshot \cup {Absent}]
           /\ [snap EXCEPT ![m] = s][m] = s
           /\ \A o \in Members \ {m} : [snap EXCEPT ![m] = s][o] = snap[o]
  BY DEF TypeOK

\* An update of the content of one member leaves the others.
LEMMA OneContentOfMember ==
    ASSUME TypeOK, NEW m \in Members, NEW c \in MemberContent \cup {Absent}
    PROVE  /\ [cont EXCEPT ![m] = c] \in [Members -> MemberContent \cup {Absent}]
           /\ [cont EXCEPT ![m] = c][m] = c
           /\ \A o \in Members \ {m} : [cont EXCEPT ![m] = c][o] = cont[o]
  BY DEF TypeOK

-----------------------------------------------------------------------------
(* The group worker *)

LEMMA TypeForgetGroup == ASSUME Typed, ForgetGroup PROVE Typed'
<1>1. gw' \in GroupWork /\ InHand'
  BY GroupWorkerStill DEF ForgetGroup, NotGroupWorker
<1>2. contentQueue' \in BOOLEAN
  BY DEF ForgetGroup, Typed, TypeOK
<1> QED BY <1>1, <1>2 DEF Typed, TypeOK, ForgetGroup, NotGroupWorker, api, sidecar, world

LEMMA TypeSyncGroupSnapshot == ASSUME Typed, SyncGroupSnapshot PROVE Typed'
<1> DEFINE g == groupStore
<1>1. g \in GroupSnapshot /\ g # Absent
  BY DEF Typed, TypeOK, SyncGroupSnapshot, TakeGroup
<1>2. CASE NeedsFinalizer(g)
  <2> DEFINE w == [GroupIdle EXCEPT !.pc = "addFinalizer", !.snap = g]
  <2>1. w \in GroupWork /\ Equipped(w)
    BY <1>1 DEF GroupIdle, GroupWork, ContentStatus, Stages, Equipped, DeletionCalls
  <2>2. gw' = w /\ groupQueue' = FALSE
    BY <1>2 DEF SyncGroupSnapshot
  <2> QED BY <2>1, <2>2, GoesOn
          DEF Typed, TypeOK, SyncGroupSnapshot, NotGroupWorker, api, sidecar, world
<1>3. CASE ~NeedsFinalizer(g)
  <2>1. gw' \in GroupWork /\ InHand'
    <3>1. CASE WaitsForContent(g)
      BY <1>3, <3>1, GoesIdle DEF SyncGroupSnapshot, Proceed, RetryGroup
    <3>2. CASE ~WaitsForContent(g)
      BY <1>1, <1>3, <3>2, SyncStepWork, GoesOn
         DEF SyncGroupSnapshot, Proceed, Typed, NotGroupWorker
    <3> QED BY <3>1, <3>2
  <2>2. groupQueue' \in BOOLEAN
    BY <1>3 DEF SyncGroupSnapshot, WaitsForContent
  <2> QED BY <2>1, <2>2
          DEF Typed, TypeOK, SyncGroupSnapshot, NotGroupWorker, api, sidecar, world
<1> QED BY <1>2, <1>3

\* What the deletion of the group starts with, and what it leaves in the store.
LEMMA DeletionStarts ==
    ASSUME Typed, SyncDeletingGroupSnapshot
    PROVE  LET w == [GroupIdle EXCEPT !.snap = groupStore,
                                      !.found = FindsContent(groupStore),
                                      !.todo = indexed]
               annotated == [contentStore EXCEPT !.anns = @ \cup {"BeingDeleted"}]
           IN /\ w \in GroupWork /\ groupStore \in GroupSnapshot /\ groupStore.deleting
              /\ \/ gw' = GroupIdle /\ UNCHANGED <<contentStore, lapses>>
                 \/ /\ ~Held(groupStore)
                    /\ gw' = [w EXCEPT !.pc = "annotate", !.anns = annotated.anns]
                    /\ gw' \in GroupWork /\ FindsContent(groupStore)
                    /\ contentStore' = annotated /\ annotated \in GroupContent
                    /\ lapses \subseteq lapses'
                 \/ /\ ~Held(groupStore)
                    /\ gw' = AfterAnnotation(w) /\ UNCHANGED contentStore
                    /\ ~FindsContent(groupStore) /\ vgsc # Absent => "unlisted" \in lapses'
                    /\ lapses \subseteq lapses'
              /\ lapses' \subseteq Lapses
<1> DEFINE w == [GroupIdle EXCEPT !.snap = groupStore, !.found = FindsContent(groupStore),
                                  !.todo = indexed]
           annotated == [contentStore EXCEPT !.anns = @ \cup {"BeingDeleted"}]
           found == FindsContent(groupStore)
           marked == found /\ "BeingDeleted" \in contentStore.anns
           noted == When(~found /\ vgsc # Absent, "unlisted") \cup
                    When(marked /\ vgsc # Absent /\ "BeingDeleted" \notin vgsc.anns, "masked")
<1>1. groupStore \in GroupSnapshot /\ groupStore.deleting /\ indexed \subseteq Members
  BY DEF Typed, TypeOK, SyncDeletingGroupSnapshot, TakeGroup
<1>2. contentStore \in GroupContent \cup {Absent} /\ TypeOK
  BY DEF Typed, TypeOK
<1>3. found \in BOOLEAN
  BY <1>2, ContentFields DEF FindsContent, HasContent
<1>4. w \in GroupWork
  BY <1>1, <1>3 DEF GroupIdle, GroupWork, ContentStatus, Stages
<1>5. noted \in SUBSET Lapses
  BY WhenLapses DEF Lapses
<1>6. CASE Held(groupStore) /\ gw' = GroupIdle /\ UNCHANGED <<contentStore, lapses>>
  BY <1>1, <1>2, <1>4, <1>6 DEF TypeOK
<1>7. CASE ~Held(groupStore) /\ found /\ ~marked
           /\ contentStore' = annotated /\ Note(noted)
           /\ gw' = [w EXCEPT !.pc = "annotate", !.anns = contentStore'.anns]
  <2>1. contentStore \in GroupContent
    BY <1>2, <1>7 DEF FindsContent, HasContent
  <2>2. contentStore.anns \cup {"BeingDeleted"} \in SUBSET Annotations
    BY <2>1, ContentFields DEF Annotations
  <2>3. annotated \in GroupContent /\ annotated.anns \in SUBSET Annotations
    BY <2>1, <2>2 DEF GroupContent
  <2>4. [w EXCEPT !.pc = "annotate", !.anns = annotated.anns] \in GroupWork
    BY <1>4, <2>3 DEF GroupWork
  <2>5. lapses' \subseteq Lapses /\ lapses \subseteq lapses'
    BY <1>2, <1>5, <1>7, NoteLapses
  <2> QED BY <1>1, <1>4, <1>7, <2>3, <2>4, <2>5
<1>8. CASE ~Held(groupStore) /\ ~(found /\ ~marked)
           /\ UNCHANGED contentStore /\ gw' = AfterAnnotation(w) /\ Note(noted)
  <2>1. lapses' \subseteq Lapses /\ lapses \subseteq lapses' /\ noted \subseteq lapses'
    BY <1>2, <1>5, <1>8, NoteLapses
  <2>2. ~found /\ vgsc # Absent => "unlisted" \in lapses'
    BY <2>1 DEF When
  <2> QED BY <1>1, <1>4, <1>8, <2>1, <2>2
<1>9. \/ Held(groupStore) /\ gw' = GroupIdle /\ UNCHANGED <<contentStore, lapses>>
      \/ ~Held(groupStore) /\ found /\ ~marked
           /\ contentStore' = annotated /\ Note(noted)
           /\ gw' = [w EXCEPT !.pc = "annotate", !.anns = contentStore'.anns]
      \/ ~Held(groupStore) /\ ~(found /\ ~marked)
           /\ UNCHANGED contentStore /\ gw' = AfterAnnotation(w) /\ Note(noted)
  BY DEF SyncDeletingGroupSnapshot
<1> QED BY <1>6, <1>7, <1>8, <1>9

LEMMA TypeSyncDeletingGroupSnapshot ==
    ASSUME Typed, SyncDeletingGroupSnapshot PROVE Typed'
<1> DEFINE w == [GroupIdle EXCEPT !.snap = groupStore, !.found = FindsContent(groupStore),
                                  !.todo = indexed]
<1>1. w \in GroupWork /\ groupStore \in GroupSnapshot /\ groupStore.deleting
      /\ groupStore # Absent
  BY DeletionStarts, GroupFields
<1>2. w.snap = groupStore /\ AfterAnnotation(w) \in GroupWork /\ Equipped(AfterAnnotation(w))
  BY <1>1, AfterContentWork DEF GroupIdle
<1>3. \/ gw' = GroupIdle
      \/ gw' \in GroupWork /\ gw'.pc = "annotate" /\ gw'.snap = groupStore
      \/ gw' = AfterAnnotation(w)
  BY DeletionStarts DEF GroupIdle
<1>4. config' = config
  BY DEF SyncDeletingGroupSnapshot, NotGroupWorker
<1>5. gw' \in GroupWork /\ InHand'
  <2>1. CASE gw' = GroupIdle
    BY <2>1, GoesIdle
  <2>2. CASE gw' \in GroupWork /\ gw'.pc = "annotate" /\ gw'.snap = groupStore
    BY <1>1, <2>2 DEF InHand, Equipped, DeletionCalls
  <2>3. CASE gw' = AfterAnnotation(w)
    BY <1>2, <1>4, <2>3, GoesOn
  <2> QED BY <1>3, <2>1, <2>2, <2>3
<1>6. contentStore' \in GroupContent \cup {Absent} /\ lapses' \subseteq Lapses
  BY DeletionStarts DEF Typed, TypeOK
<1> QED BY <1>5, <1>6
        DEF Typed, TypeOK, SyncDeletingGroupSnapshot, NotGroupWorker, api, sidecar, world

LEMMA TypeAddGroupFinalizer ==
    ASSUME Typed, NEW reply \in Replies, AddGroupFinalizer(reply) PROVE Typed'
<1> DEFINE g == [gw.snap EXCEPT !.fin = TRUE]
<1>1. TypeOK /\ gw \in GroupWork /\ gw.snap \in GroupSnapshot
  BY GroupWorkFields DEF Typed, TypeOK, InHand, Equipped, AddGroupFinalizer
<1>2. g \in GroupSnapshot
  BY <1>1, GroupUpdates
<1>3. budget' \in [Faults -> Nat]
  BY <1>1, AnswerBudget DEF AddGroupFinalizer
<1>4. vgs' \in GroupSnapshot \cup {Absent}
  BY <1>1, <1>2 DEF AddGroupFinalizer, TypeOK
<1>5. gw' \in GroupWork /\ InHand'
  <2>1. gw' = GroupIdle \/ (~WaitsForContent(gw.snap) /\ gw' = SyncStep(gw.snap))
    BY DEF AddGroupFinalizer, RetryGroup
  <2> QED BY <1>1, <2>1, GoesIdle, GoesOn, SyncStepWork DEF AddGroupFinalizer, NotGroupWorker
<1>6. groupStore' \in GroupSnapshot \cup {Absent} /\ groupQueue' \in BOOLEAN
  BY <1>1, <1>2 DEF AddGroupFinalizer, RetryGroup, TypeOK
<1> QED BY <1>3, <1>4, <1>5, <1>6
        DEF Typed, TypeOK, AddGroupFinalizer, NotGroupWorker, sidecar, world

LEMMA TypeCreateContent ==
    ASSUME Typed, NEW reply \in Replies, CreateContent(reply) PROVE Typed'
<1> DEFINE exists == vgsc # Absent
           stored == [NewContent EXCEPT !.versioned = ~exists]
           noted == When(reply = "ok" /\ exists /\ contentStore = Absent, "blind") \cup
                    When(vgs = Absent /\ reply # "error", "early")
<1>1. TypeOK
  BY DEF Typed
<1>2. stored \in GroupContent
  BY NewObjects
<1>3. budget' \in [Faults -> Nat]
  <2>1. Answer(TRUE, reply)
    BY DEF CreateContent
  <2> QED BY <1>1, <2>1, AnswerBudget
<1>4. vgsc' \in GroupContent \cup {Absent}
  BY <1>1, NewObjects DEF CreateContent, TypeOK
<1>5. gw' \in GroupWork /\ InHand'
  <2> DEFINE w == [GroupIdle EXCEPT !.pc = "status"]
  <2>1. w \in GroupWork /\ Equipped(w)
    BY DEF GroupIdle, GroupWork, ContentStatus, Stages, Equipped, DeletionCalls
  <2>2. gw' = GroupIdle \/ gw' = w
    BY DEF CreateContent, RetryGroup
  <2>3. config' = config
    BY DEF CreateContent, NotGroupWorker
  <2> QED BY <2>1, <2>2, <2>3, GoesIdle, GoesOn
<1>6. contentStore' \in GroupContent \cup {Absent} /\ contentView' \in Views
      /\ groupQueue' \in BOOLEAN /\ contentQueue' \in BOOLEAN
  <2>1. CASE reply = "ok"
    <3>1. StoreContent(stored) /\ contentQueue' = TRUE /\ UNCHANGED groupQueue
      BY <2>1 DEF CreateContent
    <3> QED BY <1>1, <1>2, <3>1, StoreContentTypes DEF TypeOK
  <2>2. CASE reply # "ok"
    BY <1>1, <2>2 DEF CreateContent, RetryGroup, TypeOK
  <2> QED BY <2>1, <2>2
<1>7. lapses' \subseteq Lapses
  <2>1. noted \in SUBSET Lapses
    BY WhenLapses DEF Lapses
  <2>2. Note(noted)
    BY DEF CreateContent
  <2> QED BY <1>1, <2>1, <2>2, NoteLapses
<1> QED BY <1>3, <1>4, <1>5, <1>6, <1>7
        DEF Typed, TypeOK, CreateContent, NotGroupWorker, sidecar, world

LEMMA TypeUpdateStatus ==
    ASSUME Typed, NEW reply \in Replies, UpdateStatus(reply) PROVE Typed'
<1> DEFINE g == WithStatus(vgs, gw.status)
<1>1. TypeOK
  BY DEF Typed
<1>2. budget' \in [Faults -> Nat] /\ (reply # "error" => vgs # Absent)
  BY <1>1, AnswerBudget DEF UpdateStatus
<1>3. reply # "error" => vgs \in GroupSnapshot /\ g \in GroupSnapshot
  BY <1>1, <1>2, GroupUpdates DEF WithStatus, TypeOK
<1>4. vgs' \in GroupSnapshot \cup {Absent}
  BY <1>1, <1>3 DEF UpdateStatus, TypeOK
<1>5. gw' \in GroupWork /\ InHand'
  BY GoesIdle DEF UpdateStatus, RetryGroup
<1>6. groupStore' \in GroupSnapshot \cup {Absent} /\ groupQueue' \in BOOLEAN
  <2>1. CASE reply = "ok"
    BY <1>1, <1>3, <2>1, GroupWorkFields DEF UpdateStatus, TypeOK
  <2>2. CASE reply # "ok"
    BY <1>1, <2>2 DEF UpdateStatus, RetryGroup, TypeOK
  <2> QED BY <2>1, <2>2
<1> QED BY <1>2, <1>4, <1>5, <1>6
        DEF Typed, TypeOK, UpdateStatus, NotGroupWorker, sidecar, world

LEMMA TypeMarkMissing ==
    ASSUME Typed, NEW reply \in Replies, MarkMissing(reply) PROVE Typed'
<1> DEFINE g == [gw.snap EXCEPT !.status = "bound"]
<1>1. TypeOK /\ gw \in GroupWork /\ gw.snap \in GroupSnapshot
  BY GroupWorkFields DEF Typed, TypeOK, InHand, Equipped, MarkMissing
<1>2. g \in GroupSnapshot
  BY <1>1, GroupUpdates
<1>3. budget' \in [Faults -> Nat]
  BY <1>1, AnswerBudget DEF MarkMissing
<1>4. vgs' \in GroupSnapshot \cup {Absent}
  BY <1>1, <1>2 DEF MarkMissing, TypeOK
<1>5. gw' \in GroupWork /\ InHand'
  BY GoesIdle DEF MarkMissing, RetryGroup
<1>6. groupStore' \in GroupSnapshot \cup {Absent} /\ groupQueue' \in BOOLEAN
  BY <1>1, <1>2 DEF MarkMissing, RetryGroup, TypeOK
<1> QED BY <1>3, <1>4, <1>5, <1>6
        DEF Typed, TypeOK, MarkMissing, NotGroupWorker, sidecar, world

LEMMA TypeBindContent ==
    ASSUME Typed, NEW reply \in Replies, BindContent(reply) PROVE Typed'
<1> DEFINE c == [vgsc EXCEPT !.uid = TRUE]
<1>1. TypeOK
  BY DEF Typed
<1>2. budget' \in [Faults -> Nat] /\ (reply # "error" => vgsc # Absent)
  BY <1>1, AnswerBudget DEF BindContent
<1>3. reply # "error" => vgsc \in GroupContent /\ c \in GroupContent
  BY <1>1, <1>2, ContentUpdates DEF TypeOK
<1>4. vgsc' \in GroupContent \cup {Absent}
  BY <1>1, <1>3 DEF BindContent, TypeOK
<1>5. gw' \in GroupWork /\ InHand'
  <2> DEFINE w == [GroupIdle EXCEPT !.pc = "status", !.status = c.status]
  <2>1. CASE reply = "ok"
    <3>1. c.status \in ContentStatus
      BY <1>3, <2>1, ContentFields
    <3>2. w \in GroupWork /\ Equipped(w)
      BY <3>1 DEF GroupIdle, GroupWork, Stages, Equipped, DeletionCalls
    <3> QED BY <2>1, <3>2, GoesOn DEF BindContent, NotGroupWorker
  <2>2. CASE reply # "ok"
    BY <2>2, GoesIdle DEF BindContent, RetryGroup
  <2> QED BY <2>1, <2>2
<1>6. contentStore' \in GroupContent \cup {Absent} /\ contentView' \in Views
      /\ groupQueue' \in BOOLEAN /\ contentQueue' \in BOOLEAN
  <2>1. CASE reply = "ok"
    <3>1. StoreContent(c) /\ contentQueue' = TRUE /\ UNCHANGED groupQueue
      BY <2>1 DEF BindContent
    <3> QED BY <1>1, <1>3, <2>1, <3>1, StoreContentTypes DEF TypeOK
  <2>2. CASE reply # "ok"
    BY <1>1, <2>2 DEF BindContent, RetryGroup, TypeOK
  <2> QED BY <2>1, <2>2
<1> QED BY <1>2, <1>4, <1>5, <1>6
        DEF Typed, TypeOK, BindContent, NotGroupWorker, sidecar, world

LEMMA TypeAnnotateDeleted ==
    ASSUME Typed, NEW reply \in Replies, AnnotateDeleted(reply) PROVE Typed'
<1> DEFINE c == [vgsc EXCEPT !.anns = gw.anns]
           noted == When(reply # "error" /\ ~(vgsc.anns \subseteq gw.anns), "dropped")
<1>1. /\ TypeOK /\ gw \in GroupWork /\ gw.anns \in SUBSET Annotations
      /\ gw.snap # Absent /\ gw.snap.deleting
  BY GroupWorkFields DEF Typed, TypeOK, AnnotateDeleted, InHand, Equipped, DeletionCalls
<1>2. budget' \in [Faults -> Nat] /\ (reply # "error" => vgsc # Absent)
  BY <1>1, AnswerBudget DEF AnnotateDeleted
<1>3. reply # "error" => vgsc \in GroupContent /\ c \in GroupContent
  BY <1>1, <1>2, ContentUpdates DEF TypeOK
<1>4. vgsc' \in GroupContent \cup {Absent}
  BY <1>1, <1>3 DEF AnnotateDeleted, TypeOK
<1>5. gw' \in GroupWork /\ InHand'
  <2>1. gw' = GroupIdle \/ gw' = AfterAnnotation(gw)
    BY DEF AnnotateDeleted, RetryGroup
  <2> QED BY <1>1, <2>1, GoesIdle, GoesOn, AfterContentWork DEF AnnotateDeleted, NotGroupWorker
<1>6. contentStore' \in GroupContent \cup {Absent} /\ contentView' \in Views
      /\ groupQueue' \in BOOLEAN /\ contentQueue' \in BOOLEAN
  <2>1. CASE reply = "ok"
    <3>1. StoreContent(c) /\ contentQueue' = TRUE
          /\ (groupQueue' = groupQueue \/ groupQueue' = TRUE)
      BY <2>1 DEF AnnotateDeleted, RetryGroup
    <3> QED BY <1>1, <1>3, <2>1, <3>1, StoreContentTypes DEF TypeOK
  <2>2. CASE reply # "ok"
    BY <1>1, <2>2 DEF AnnotateDeleted, RetryGroup, TypeOK
  <2> QED BY <2>1, <2>2
<1>7. lapses' \subseteq Lapses
  <2>1. noted \in SUBSET Lapses
    BY WhenLapses DEF Lapses
  <2>2. Note(noted)
    BY DEF AnnotateDeleted
  <2> QED BY <1>1, <2>1, <2>2, NoteLapses
<1> QED BY <1>2, <1>4, <1>5, <1>6, <1>7
        DEF Typed, TypeOK, AnnotateDeleted, NotGroupWorker, sidecar, world

LEMMA TypeDeleteContent ==
    ASSUME Typed, NEW reply \in Replies, DeleteContent(reply) PROVE Typed'
<1>1. TypeOK /\ gw \in GroupWork /\ gw.snap # Absent /\ gw.snap.deleting
  BY DEF Typed, TypeOK, DeleteContent, InHand, Equipped, DeletionCalls
<1>2. budget' \in [Faults -> Nat] /\ (reply # "error" => vgsc # Absent)
  BY <1>1, AnswerBudget DEF DeleteContent
<1>3. vgsc' \in GroupContent \cup {Absent}
  <2>1. CASE reply = "error"
    BY <1>1, <2>1 DEF DeleteContent, TypeOK
  <2>2. CASE reply # "error"
    <3>1. [vgsc EXCEPT !.deleting = TRUE] \in GroupContent
      BY <1>1, <1>2, <2>2, ContentUpdates DEF TypeOK
    <3> QED BY <2>2, <3>1, KeepContentTypes DEF DeleteContent, Delete
  <2> QED BY <2>1, <2>2
<1>4. gw' \in GroupWork /\ InHand'
  <2>1. gw' = GroupIdle \/ gw' = AfterContent(gw)
    BY DEF DeleteContent, RetryGroup
  <2> QED BY <1>1, <2>1, GoesIdle, GoesOn, AfterContentWork DEF DeleteContent, NotGroupWorker
<1>5. groupQueue' \in BOOLEAN
  BY <1>1 DEF DeleteContent, RetryGroup, TypeOK
<1> QED BY <1>2, <1>3, <1>4, <1>5
        DEF Typed, TypeOK, DeleteContent, NotGroupWorker, sidecar, world

LEMMA TypeDeleteMember ==
    ASSUME Typed, NEW reply \in Replies, DeleteMember(reply) PROVE Typed'
<1> DEFINE m == CHOOSE x \in gw.todo : TRUE
           s == snap[m]
           asked == [s EXCEPT !.deleting = TRUE]
           noted == When(reply # "error" /\ Unreleasable(s), "unnamed")
<1>1. TypeOK /\ gw \in GroupWork /\ gw.snap # Absent /\ gw.snap.deleting /\ gw.todo # {}
  BY DEF Typed, TypeOK, DeleteMember, InHand, Equipped, DeletionCalls
<1>2. m \in gw.todo /\ m \in Members /\ s \in MemberSnapshot \cup {Absent}
  BY <1>1, NextOfTodo DEF TypeOK
<1>3. budget' \in [Faults -> Nat]
  <2>1. Answer(TRUE, reply)
    BY DEF DeleteMember
  <2> QED BY <1>1, <2>1, AnswerBudget
<1>4. snap' \in [Members -> MemberSnapshot \cup {Absent}]
  <2>1. CASE reply = "error" \/ s = Absent
    BY <1>1, <2>1 DEF DeleteMember, TypeOK
  <2>2. CASE ~(reply = "error" \/ s = Absent)
    <3>1. asked \in MemberSnapshot
      BY <1>2, <2>2, MemberUpdates
    <3>2. KeepMember(asked) \in MemberSnapshot \cup {Absent}
      BY <3>1, KeepMemberTypes
    <3>3. snap' = [snap EXCEPT ![m] = KeepMember(asked)]
      BY <2>2 DEF DeleteMember
    <3> QED BY <1>1, <1>2, <3>2, <3>3, OneSnapshot
  <2> QED BY <2>1, <2>2
<1>5. gw' \in GroupWork /\ InHand'
  <2> DEFINE v == [gw EXCEPT !.todo = @ \ {m}]
  <2>1. v \in GroupWork /\ v.snap = gw.snap
    BY <1>1 DEF GroupWork
  <2>2. gw' = GroupIdle \/ gw' = AfterContent(v)
    BY DEF DeleteMember, RetryGroup
  <2>3. config' = config
    BY DEF DeleteMember, NotGroupWorker
  <2> QED BY <1>1, <2>1, <2>2, <2>3, GoesIdle, GoesOn, AfterContentWork
<1>6. groupQueue' \in BOOLEAN
  BY <1>1 DEF DeleteMember, RetryGroup, TypeOK
<1>7. lapses' \subseteq Lapses
  <2>1. noted \in SUBSET Lapses
    BY WhenLapses DEF Lapses
  <2>2. Note(noted)
    BY DEF DeleteMember
  <2> QED BY <1>1, <2>1, <2>2, NoteLapses
<1> QED BY <1>3, <1>4, <1>5, <1>6, <1>7
        DEF Typed, TypeOK, DeleteMember, NotGroupWorker, api, sidecar, world

LEMMA TypeRemoveGroupFinalizer ==
    ASSUME Typed, NEW reply \in Replies, RemoveGroupFinalizer(reply) PROVE Typed'
<1>1. TypeOK /\ gw \in GroupWork /\ gw.snap \in GroupSnapshot
  BY GroupWorkFields
     DEF Typed, TypeOK, InHand, Equipped, DeletionCalls, RemoveGroupFinalizer
<1>2. [gw.snap EXCEPT !.fin = FALSE] \in GroupSnapshot
  BY <1>1, GroupUpdates
<1>3. budget' \in [Faults -> Nat]
  BY <1>1, AnswerBudget DEF RemoveGroupFinalizer
<1>4. vgs' \in GroupSnapshot \cup {Absent}
  BY <1>1 DEF RemoveGroupFinalizer, TypeOK
<1>5. gw' \in GroupWork /\ InHand'
  BY GoesIdle DEF RemoveGroupFinalizer, RetryGroup
<1>6. groupStore' \in GroupSnapshot \cup {Absent} /\ groupQueue' \in BOOLEAN
  BY <1>1, <1>2 DEF RemoveGroupFinalizer, RetryGroup, TypeOK
<1>7. lapses' \subseteq Lapses
  <2> DEFINE noted == When(reply # "error" /\ \E m \in Members :
                             IF snap[m] = Absent THEN cont[m] # Absent
                             ELSE ~snap[m].deleting, "partial")
  <2>1. noted \in SUBSET Lapses
    BY WhenLapses DEF Lapses
  <2>2. Note(noted)
    BY DEF RemoveGroupFinalizer
  <2> QED BY <1>1, <2>1, <2>2, NoteLapses
<1> QED BY <1>3, <1>4, <1>5, <1>6, <1>7
        DEF Typed, TypeOK, RemoveGroupFinalizer, NotGroupWorker, sidecar, world

\* What the maker of the members goes on with.
LEMMA GoesOnMaking ==
    ASSUME Typed, gw.pc = "member", config' = config, NEW reply, NEW next \in Stages,
           \/ MemberReply(reply, [gw EXCEPT !.stage = next])
           \/ MemberReply(reply, NextMember(Member))
    PROVE  gw' \in GroupWork /\ InHand' /\ groupQueue' \in BOOLEAN
<1> DEFINE staged == [gw EXCEPT !.stage = next]
           m == Member
<1>1. gw \in GroupWork /\ gw.todo # {} /\ HasHandle(gw.status) /\ Dynamic
  BY DEF Typed, TypeOK, InHand, Equipped
<1>2. m \in gw.todo
  BY <1>1, NextOfTodo DEF Member
<1>3. staged \in GroupWork /\ staged.pc = "member" /\ staged.todo # {}
      /\ staged.status = gw.status
  BY <1>1 DEF GroupWork
<1>4. Equipped(staged)
  BY <1>1, <1>3 DEF Equipped, DeletionCalls
<1>5. NextMember(m) \in GroupWork /\ Equipped(NextMember(m))
  <2>1. CASE gw.todo = {m}
    <3> DEFINE w == [gw EXCEPT !.pc = "status", !.todo = {}, !.stage = "content"]
    <3>1. w \in GroupWork /\ w.pc = "status"
      BY <1>1 DEF GroupWork, Stages
    <3> QED BY <2>1, <3>1 DEF NextMember, Equipped, DeletionCalls
  <2>2. CASE gw.todo # {m}
    <3> DEFINE w == [gw EXCEPT !.todo = @ \ {m}, !.stage = "content"]
    <3>1. w \in GroupWork /\ w.pc = "member" /\ w.status = gw.status
          /\ w.todo = gw.todo \ {m}
      BY <1>1 DEF GroupWork, Stages
    <3>2. w.todo # {}
      BY <1>1, <2>2, <3>1
    <3>3. NextMember(m) = w
      BY <2>2 DEF NextMember
    <3> QED BY <1>1, <3>1, <3>2, <3>3 DEF Equipped, DeletionCalls
  <2> QED BY <2>1, <2>2
<1>6. gw' = staged \/ gw' = NextMember(m) \/ gw' = GroupIdle
  BY DEF MemberReply, RetryGroup
<1>7. groupQueue' \in BOOLEAN
  BY DEF MemberReply, RetryGroup, Typed, TypeOK
<1> QED BY <1>3, <1>4, <1>5, <1>6, <1>7, GoesIdle, GoesOn

LEMMA TypeCreateMemberContent ==
    ASSUME Typed, NEW reply \in Replies, CreateMemberContent(reply) PROVE Typed'
<1> DEFINE m == Member
           noted == When(reply # "error" /\ cont[m] = Absent /\
                           (vgs = Absent \/ vgs.deleting), "partial")
<1>1. TypeOK /\ gw.pc = "member" /\ m \in Members
  BY NextOfTodo
     DEF Typed, TypeOK, InHand, Equipped, CreateMemberContent, AtStage, Member
<1>2. budget' \in [Faults -> Nat]
  <2>1. Answer(TRUE, reply)
    BY DEF CreateMemberContent
  <2> QED BY <1>1, <2>1, AnswerBudget
<1>3. cont' \in [Members -> MemberContent \cup {Absent}]
  <2>1. cont' = cont \/ cont' = [cont EXCEPT ![m] = NewMemberContent]
    BY DEF CreateMemberContent
  <2> QED BY <1>1, <2>1, NewObjects, OneContentOfMember DEF TypeOK
<1>4. gw' \in GroupWork /\ InHand' /\ groupQueue' \in BOOLEAN
  BY <1>1, GoesOnMaking DEF CreateMemberContent, NotMembers, Stages
<1>5. lapses' \subseteq Lapses
  <2>1. noted \in SUBSET Lapses
    BY WhenLapses DEF Lapses
  <2>2. Note(noted)
    BY DEF CreateMemberContent
  <2> QED BY <1>1, <2>1, <2>2, NoteLapses
<1> QED BY <1>2, <1>3, <1>4, <1>5
        DEF Typed, TypeOK, CreateMemberContent, NotMembers, api, caches, contents, sidecar, world

LEMMA TypeCreateMemberSnapshot ==
    ASSUME Typed, NEW reply \in Replies, CreateMemberSnapshot(reply) PROVE Typed'
<1> DEFINE m == Member
           noted == When(reply # "error" /\ snap[m] = Absent /\
                           (vgs = Absent \/ vgs.deleting), "partial")
<1>1. TypeOK /\ gw.pc = "member" /\ m \in Members
  BY NextOfTodo
     DEF Typed, TypeOK, InHand, Equipped, CreateMemberSnapshot, AtStage, Member
<1>2. budget' \in [Faults -> Nat]
  <2>1. Answer(TRUE, reply)
    BY DEF CreateMemberSnapshot
  <2> QED BY <1>1, <2>1, AnswerBudget
<1>3. snap' \in [Members -> MemberSnapshot \cup {Absent}]
  <2>1. snap' = snap \/ snap' = [snap EXCEPT ![m] = NewMemberSnapshot]
    BY DEF CreateMemberSnapshot
  <2> QED BY <1>1, <2>1, NewObjects, OneSnapshot DEF TypeOK
<1>4. gw' \in GroupWork /\ InHand' /\ groupQueue' \in BOOLEAN
  BY <1>1, GoesOnMaking DEF CreateMemberSnapshot, NotMembers, Stages
<1>5. lapses' \subseteq Lapses
  <2>1. noted \in SUBSET Lapses
    BY WhenLapses DEF Lapses
  <2>2. Note(noted)
    BY DEF CreateMemberSnapshot
  <2> QED BY <1>1, <2>1, <2>2, NoteLapses
<1> QED BY <1>2, <1>3, <1>4, <1>5
        DEF Typed, TypeOK, CreateMemberSnapshot, NotMembers, api, caches, contents, sidecar, world

LEMMA TypeBindMemberContent ==
    ASSUME Typed, NEW reply \in Replies, BindMemberContent(reply) PROVE Typed'
<1> DEFINE m == Member
<1>1. TypeOK /\ gw.pc = "member" /\ m \in Members
  BY NextOfTodo
     DEF Typed, TypeOK, InHand, Equipped, BindMemberContent, AtStage, Member
<1>2. budget' \in [Faults -> Nat] /\ (reply # "error" => cont[m] # Absent)
  BY <1>1, AnswerBudget DEF BindMemberContent
<1>3. cont' \in [Members -> MemberContent \cup {Absent}]
  <2>1. CASE reply = "error"
    BY <1>1, <2>1 DEF BindMemberContent, TypeOK
  <2>2. CASE reply # "error"
    <3>0. cont[m] \in MemberContent
      BY <1>1, <1>2, <2>2 DEF TypeOK
    <3>1. [cont[m] EXCEPT !.uid = TRUE] \in MemberContent
      BY <3>0, MemberContentUpdates
    <3>2. cont' = [cont EXCEPT ![m] = [cont[m] EXCEPT !.uid = TRUE]]
      BY <1>1, <2>2 DEF BindMemberContent, TypeOK
    <3> QED BY <1>1, <3>1, <3>2, OneContentOfMember
  <2> QED BY <2>1, <2>2
<1>4. gw' \in GroupWork /\ InHand' /\ groupQueue' \in BOOLEAN
  BY <1>1, GoesOnMaking DEF BindMemberContent, NotMembers, Stages
<1> QED BY <1>2, <1>3, <1>4
        DEF Typed, TypeOK, BindMemberContent, NotMembers, api, caches, contents, sidecar, world

LEMMA TypeBindMemberSnapshot ==
    ASSUME Typed, NEW reply \in Replies, BindMemberSnapshot(reply) PROVE Typed'
<1> DEFINE m == Member
           bound == [snap[m] EXCEPT !.bound = TRUE, !.ready = FALSE, !.named = FALSE]
           noted == When(reply # "error" /\ snap[m].deleting, "unnamed")
<1>1. TypeOK /\ gw.pc = "member" /\ m \in Members
  BY NextOfTodo
     DEF Typed, TypeOK, InHand, Equipped, BindMemberSnapshot, AtStage, Member
<1>2. budget' \in [Faults -> Nat] /\ (reply # "error" => snap[m] # Absent)
  BY <1>1, AnswerBudget DEF BindMemberSnapshot
<1>3. snap' \in [Members -> MemberSnapshot \cup {Absent}]
  <2>1. CASE reply = "error"
    BY <1>1, <2>1 DEF BindMemberSnapshot, TypeOK
  <2>2. CASE reply # "error"
    <3>0. snap[m] \in MemberSnapshot
      BY <1>1, <1>2, <2>2 DEF TypeOK
    <3>1. bound \in MemberSnapshot
      BY <3>0, MemberUpdates
    <3>2. snap' = [snap EXCEPT ![m] = bound]
      BY <1>1, <2>2 DEF BindMemberSnapshot, TypeOK
    <3> QED BY <1>1, <3>1, <3>2, OneSnapshot
  <2> QED BY <2>1, <2>2
<1>4. gw' \in GroupWork /\ InHand' /\ groupQueue' \in BOOLEAN
  BY <1>1, GoesOnMaking DEF BindMemberSnapshot, NotMembers, Stages
<1>5. lapses' \subseteq Lapses
  <2>1. noted \in SUBSET Lapses
    BY WhenLapses DEF Lapses
  <2>2. Note(noted)
    BY DEF BindMemberSnapshot
  <2> QED BY <1>1, <2>1, <2>2, NoteLapses
<1> QED BY <1>2, <1>3, <1>4, <1>5
        DEF Typed, TypeOK, BindMemberSnapshot, NotMembers, api, caches, contents, sidecar, world

LEMMA TypeUpdateMemberContentStatus ==
    ASSUME Typed, NEW reply \in Replies, UpdateMemberContentStatus(reply) PROVE Typed'
<1> DEFINE m == Member
<1>1. TypeOK /\ gw.pc = "member" /\ m \in Members /\ HasHandle(gw.status)
  BY NextOfTodo
     DEF Typed, TypeOK, InHand, Equipped, UpdateMemberContentStatus, AtStage, Member
<1>2. budget' \in [Faults -> Nat] /\ (reply # "error" => cont[m] # Absent)
  BY <1>1, AnswerBudget DEF UpdateMemberContentStatus
<1>3. cont' \in [Members -> MemberContent \cup {Absent}]
  <2>1. CASE reply = "error"
    BY <1>1, <2>1 DEF UpdateMemberContentStatus, TypeOK
  <2>2. CASE reply # "error"
    <3>1. PICK listed \in {"cut", gw.status} : cont' = [cont EXCEPT ![m].status = listed]
      BY <2>2 DEF UpdateMemberContentStatus
    <3>2. listed \in {"nil", "cut", "ready"}
      BY <1>1 DEF HasHandle
    <3>0. cont[m] \in MemberContent
      BY <1>1, <1>2, <2>2 DEF TypeOK
    <3>3. [cont[m] EXCEPT !.status = listed] \in MemberContent
      BY <3>0, <3>2, MemberContentUpdates
    <3>4. cont' = [cont EXCEPT ![m] = [cont[m] EXCEPT !.status = listed]]
      BY <1>1, <3>1 DEF TypeOK
    <3> QED BY <1>1, <3>3, <3>4, OneContentOfMember
  <2> QED BY <2>1, <2>2
<1>4. gw' \in GroupWork /\ InHand' /\ groupQueue' \in BOOLEAN
  BY <1>1, GoesOnMaking DEF UpdateMemberContentStatus, NotMembers, Stages
<1> QED BY <1>2, <1>3, <1>4
        DEF Typed, TypeOK, UpdateMemberContentStatus, NotMembers, api, caches, contents,
            sidecar, world

-----------------------------------------------------------------------------
(* The content worker *)

LEMMA TypeForgetContent == ASSUME Typed, ForgetContent PROVE Typed'
<1>1. groupQueue' \in BOOLEAN
  BY DEF ForgetContent, Typed, TypeOK
<1>2. gw' \in GroupWork /\ InHand'
  BY GroupWorkerStill DEF ForgetContent, NotContentWorker
<1> QED BY <1>1, <1>2
        DEF Typed, TypeOK, ForgetContent, NotContentWorker, members, sidecar, world, Views

LEMMA TypeIgnoreContent == ASSUME Typed, IgnoreContent PROVE Typed'
<1>1. gw' \in GroupWork /\ InHand'
  BY GroupWorkerStill DEF IgnoreContent, NotContentWorker
<1> QED BY <1>1
        DEF Typed, TypeOK, IgnoreContent, TakeContent, NotContentWorker, members, sidecar, world

LEMMA TypeSyncGroupSnapshotContent ==
    ASSUME Typed, SyncGroupSnapshotContent PROVE Typed'
<1>1. gw' \in GroupWork /\ InHand'
  BY GroupWorkerStill DEF SyncGroupSnapshotContent, NotContentWorker
<1>2. contentStore' \in GroupContent \cup {Absent} /\ contentView' \in Views
  BY DEF SyncGroupSnapshotContent, Typed, TypeOK, Views
<1>3. cw' \in ContentWork /\ contentQueue' = FALSE
  BY DEF SyncGroupSnapshotContent, TakeContent, ContentWork
<1>4. groupQueue' \in BOOLEAN
  BY DEF SyncGroupSnapshotContent, Typed, TypeOK
<1> QED BY <1>1, <1>2, <1>3, <1>4
        DEF Typed, TypeOK, SyncGroupSnapshotContent, NotContentWorker, members, sidecar, world

LEMMA TypeAddContentFinalizer ==
    ASSUME Typed, NEW reply \in Replies, AddContentFinalizer(reply) PROVE Typed'
<1> DEFINE c == [vgsc EXCEPT !.fin = TRUE]
<1>1. TypeOK
  BY DEF Typed
<1>2. budget' \in [Faults -> Nat] /\ (reply # "error" => vgsc # Absent)
  BY <1>1, AnswerBudget DEF AddContentFinalizer
<1>3. reply # "error" => c \in GroupContent
  BY <1>1, <1>2, ContentUpdates DEF TypeOK
<1>4. vgsc' \in GroupContent \cup {Absent}
  BY <1>1, <1>3 DEF AddContentFinalizer, TypeOK
<1>5. gw' \in GroupWork /\ InHand'
  BY GroupWorkerStill DEF AddContentFinalizer, NotContentWorker
<1>6. contentStore' \in GroupContent \cup {Absent} /\ contentView' \in Views
  <2>1. CASE reply = "ok"
    BY <1>1, <1>3, <2>1, StoreContentTypes DEF AddContentFinalizer
  <2>2. CASE reply # "ok"
    BY <1>1, <2>2 DEF AddContentFinalizer, TypeOK
  <2> QED BY <2>1, <2>2
<1> QED BY <1>2, <1>4, <1>5, <1>6
        DEF Typed, TypeOK, AddContentFinalizer, NotContentWorker, members, sidecar, world,
            ContentWork

-----------------------------------------------------------------------------
(* The sidecar *)

\* What a step of the sidecar leaves well typed, and what it has to show of the rest.
LEMMA TypeOfSidecarStep ==
    ASSUME Typed, UNCHANGED NotSidecar,
           vgsc' \in GroupContent \cup {Absent}, sidecarStore' \in GroupContent \cup {Absent},
           sidecarQueue' \in BOOLEAN, dw' \in SidecarWork, storage' \in Storage,
           budget' \in [Faults -> Nat], lapses' \subseteq Lapses
    PROVE  Typed'
<1>1. gw' \in GroupWork /\ InHand'
  BY GroupWorkerStill DEF NotSidecar
<1> QED BY <1>1 DEF Typed, TypeOK, NotSidecar, members, caches, contents, queues

LEMMA WithTypes ==
    ASSUME NEW pc \in {"annotate", "csiCreate", "getStatus", "unannotate", "tidy", "csiDelete",
                       "removeFinalizer"},
           NEW c \in GroupContent
    PROVE  /\ With(pc, c) \in SidecarWork /\ With(pc, c).pc = pc /\ ~With(pc, c).ready
           /\ With(pc, c).status = c.status /\ With(pc, c).anns = c.anns
  BY ContentFields DEF With, SidecarIdle, SidecarWork

\* The results of SidecarStep, each with what was read from the copy.
SidecarGoesOn(c, w) ==
    \/ w = SidecarIdle
    \/ /\ w.status = c.status /\ w.anns = c.anns /\ ~w.ready
       /\ \/ ShouldDelete(c) /\ OwesDeletion(c) /\ w.pc = "csiDelete"
          \/ ShouldDelete(c) /\ ~OwesDeletion(c) /\ w.pc = "removeFinalizer"
          \/ /\ ~ShouldDelete(c) /\ c.status = "ready" /\ "BeingCreated" \in c.anns
             /\ w.pc = "tidy"
          \/ c.status # "ready" /\ ~Dynamic /\ w.pc = "getStatus"
          \/ /\ ~ShouldDelete(c) /\ c.status # "ready" /\ Dynamic
             /\ \/ "BeingCreated" \in c.anns /\ w.pc = "csiCreate"
                \/ "BeingCreated" \notin c.anns /\ w.pc = "annotate"

\* SidecarStep returns work that goes on with the copy it was given.
LEMMA SidecarStepWork ==
    ASSUME TypeOK, NEW c \in GroupContent
    PROVE  SidecarStep(c) \in SidecarWork /\ SidecarGoesOn(c, SidecarStep(c))
<1> DEFINE w == SidecarStep(c)
<1>1. CASE ShouldDelete(c)
  <2>1. w = DeletionStep(c)
    BY <1>1 DEF SidecarStep
  <2> QED BY <1>1, <2>1, WithTypes, IdleWork DEF DeletionStep, SidecarGoesOn
<1>2. CASE ~ShouldDelete(c) /\ c.status = "ready"
  <2>1. w = TidyStep(c)
    BY <1>2 DEF SidecarStep
  <2> QED BY <1>2, <2>1, WithTypes, IdleWork DEF TidyStep, SidecarGoesOn
<1>3. CASE ~ShouldDelete(c) /\ c.status # "ready"
  <2>1. w = IF config.kind = "static" THEN With("getStatus", c) ELSE CreationStep(c)
    BY <1>3 DEF SidecarStep
  <2>2. config.kind = "static" <=> ~Dynamic
    BY DEF TypeOK, Config, Dynamic
  <2> QED BY <1>3, <2>1, <2>2, WithTypes DEF CreationStep, SidecarGoesOn
<1> QED BY <1>1, <1>2, <1>3

LEMMA TypeTakeSidecarContent ==
    ASSUME Typed, TakeSidecarContent
    PROVE  /\ Typed' /\ UNCHANGED <<vgsc, storage, sidecarStore, lapses>>
           /\ \/ dw' = SidecarIdle
              \/ sidecarStore \in GroupContent /\ SidecarGoesOn(sidecarStore, dw')
<1>1. TypeOK
  BY DEF Typed
<1>2. /\ dw' \in SidecarWork
      /\ \/ dw' = SidecarIdle
         \/ sidecarStore \in GroupContent /\ SidecarGoesOn(sidecarStore, dw')
  <2>1. CASE sidecarStore = Absent
    BY <2>1, IdleWork DEF TakeSidecarContent
  <2>2. CASE sidecarStore # Absent
    <3>1. sidecarStore \in GroupContent /\ dw' = SidecarStep(sidecarStore)
      BY <1>1, <2>2 DEF TakeSidecarContent, TypeOK
    <3> QED BY <1>1, <3>1, SidecarStepWork
  <2> QED BY <2>1, <2>2
<1> QED BY <1>1, <1>2, TypeOfSidecarStep DEF TakeSidecarContent, TypeOK

\* The content the sidecar has patched.
LEMMA PatchContentTypes ==
    ASSUME TypeOK, NEW reply \in Replies, NEW c, vgsc # Absent => c \in GroupContent,
           NEW next \in SidecarWork, NEW onFailure \in SidecarWork,
           PatchContent(reply, c, next, onFailure)
    PROVE  /\ vgsc' \in GroupContent \cup {Absent} /\ sidecarStore' \in GroupContent \cup {Absent}
           /\ sidecarQueue' \in BOOLEAN /\ dw' \in SidecarWork /\ budget' \in [Faults -> Nat]
           /\ \/ UNCHANGED <<vgsc, sidecarStore>> /\ dw' = onFailure
              \/ /\ vgsc # Absent /\ vgsc' = KeepContent(c)
                 /\ \/ sidecarStore' = c /\ dw' = next
                    \/ sidecarStore' = sidecarStore /\ dw' = onFailure
<1>1. budget' \in [Faults -> Nat] /\ (reply # "error" => vgsc # Absent)
  BY AnswerBudget DEF PatchContent
<1>2. CASE reply = "error"
  BY <1>1, <1>2 DEF PatchContent, TypeOK
<1>3. CASE reply # "error"
  <2>1. vgsc # Absent /\ c \in GroupContent /\ vgsc' = KeepContent(c)
    BY <1>1, <1>3 DEF PatchContent
  <2>2. vgsc' \in GroupContent \cup {Absent}
    BY <2>1, KeepContentTypes
  <2>3. CASE reply = "ok"
    BY <1>1, <2>1, <2>2, <2>3 DEF PatchContent
  <2>4. CASE reply # "ok"
    BY <1>1, <1>3, <2>1, <2>2, <2>4 DEF PatchContent, TypeOK
  <2> QED BY <2>3, <2>4
<1> QED BY <1>2, <1>3

LEMMA TypeAnnotateCreated ==
    ASSUME Typed, NEW reply \in Replies, AnnotateCreated(reply) PROVE Typed'
<1> DEFINE anns == dw.anns \cup {"BeingCreated"}
           c == [vgsc EXCEPT !.anns = anns]
           noted == When(reply # "error" /\ ~(vgsc.anns \subseteq anns), "dropped")
<1>1. TypeOK /\ dw \in SidecarWork /\ anns \in SUBSET Annotations
  BY SidecarWorkFields DEF Typed, TypeOK, Annotations
<1>2. budget' \in [Faults -> Nat] /\ (reply # "error" => vgsc # Absent)
  BY <1>1, AnswerBudget DEF AnnotateCreated
<1>3. reply # "error" => c \in GroupContent /\ vgsc.status \in ContentStatus
  BY <1>1, <1>2, ContentUpdates, ContentFields DEF TypeOK
<1>4. vgsc' \in GroupContent \cup {Absent}
  BY <1>1, <1>3 DEF AnnotateCreated, TypeOK
<1>5. dw' \in SidecarWork
  BY <1>1, <1>3 DEF SidecarWork, AnnotateCreated, Failed
<1>6. lapses' \subseteq Lapses
  <2>1. noted \in SUBSET Lapses
    BY WhenLapses DEF Lapses
  <2>2. Note(noted)
    BY DEF AnnotateCreated
  <2> QED BY <1>1, <2>1, <2>2, NoteLapses
<1> QED BY <1>1, <1>2, <1>4, <1>5, <1>6, TypeOfSidecarStep DEF AnnotateCreated, TypeOK

LEMMA TypeCsiCreate == ASSUME Typed, CsiCreate PROVE Typed'
<1>1. TypeOK /\ dw \in SidecarWork
  BY DEF Typed, TypeOK
<1>2. budget' \in [Faults -> Nat]
  BY <1>1, SpendBudget DEF CsiCreate, Faults, TypeOK
<1>3. dw' \in SidecarWork
  BY <1>1 DEF SidecarWork, CsiCreate, Failed
<1>4. storage' \in Storage
  BY <1>1 DEF CsiCreate, Storage, TypeOK
<1>5. lapses' \subseteq Lapses
  <2> DEFINE noted == When(vgsc = Absent \/ ~vgsc.fin, "exposed")
  <2>1. noted \in SUBSET Lapses
    BY WhenLapses DEF Lapses
  <2>2. Note(noted)
    BY DEF CsiCreate
  <2> QED BY <1>1, <2>1, <2>2, NoteLapses
<1> QED BY <1>1, <1>2, <1>3, <1>4, <1>5, TypeOfSidecarStep DEF CsiCreate, TypeOK

LEMMA TypeCsiCompletes == ASSUME Typed, CsiCompletes PROVE Typed'
<1>1. TypeOK
  BY DEF Typed
<1> QED BY <1>1, TypeOfSidecarStep DEF CsiCompletes, sidecar, Storage, TypeOK

LEMMA TypeCsiGetStatus == ASSUME Typed, CsiGetStatus PROVE Typed'
<1>1. TypeOK /\ dw \in SidecarWork
  BY DEF Typed, TypeOK
<1>2. budget' \in [Faults -> Nat]
  BY <1>1, SpendBudget DEF CsiGetStatus, Faults, TypeOK
<1>3. dw' \in SidecarWork
  BY <1>1 DEF SidecarWork, CsiGetStatus, Failed
<1> QED BY <1>1, <1>2, <1>3, TypeOfSidecarStep DEF CsiGetStatus, TypeOK

LEMMA TypePutStatus ==
    ASSUME Typed, NEW reply \in Replies, PutStatus(reply) PROVE Typed'
<1> DEFINE c == [vgsc EXCEPT !.status = IF dw.ready THEN "ready" ELSE "cut"]
           w == [With("unannotate", c) EXCEPT !.ready = dw.ready]
<1>1. TypeOK /\ dw \in SidecarWork /\ dw.ready \in BOOLEAN
  BY SidecarWorkFields DEF Typed, TypeOK
<1>2. budget' \in [Faults -> Nat] /\ (reply # "error" => vgsc # Absent)
  BY <1>1, AnswerBudget DEF PutStatus
<1>3. reply # "error" => c \in GroupContent
  BY <1>1, <1>2, ContentUpdates DEF TypeOK, ContentStatus
<1>4. vgsc' \in GroupContent \cup {Absent}
  BY <1>1, <1>3 DEF PutStatus, TypeOK
<1>5. dw' \in SidecarWork /\ sidecarStore' \in GroupContent \cup {Absent}
      /\ sidecarQueue' \in BOOLEAN
  <2>1. CASE reply = "ok"
    <3>1. w \in SidecarWork
      BY <1>1, <1>3, <2>1, WithTypes DEF SidecarWork
    <3> QED BY <1>1, <1>3, <2>1, <3>1, IdleWork DEF PutStatus, TypeOK
  <2>2. CASE reply # "ok"
    BY <1>1, <2>2 DEF SidecarWork, PutStatus, Failed, TypeOK
  <2> QED BY <2>1, <2>2
<1> QED BY <1>1, <1>2, <1>4, <1>5, TypeOfSidecarStep DEF PutStatus, TypeOK

\* What removing the annotation does: nothing at the server, or that.
UnannotateEffect(pc, next, onFailure) ==
    /\ dw.pc = pc /\ UNCHANGED <<storage, lapses>> /\ UNCHANGED NotSidecar
    /\ \/ UNCHANGED <<vgsc, sidecarStore>> /\ dw' = onFailure
       \/ /\ vgsc # Absent /\ "BeingCreated" \in vgsc.anns
          /\ LET c == [vgsc EXCEPT !.anns = @ \ {"BeingCreated"}]
             IN /\ c \in GroupContent /\ vgsc' = KeepContent(c)
                /\ \/ sidecarStore' = c /\ dw' = next
                   \/ sidecarStore' = sidecarStore /\ dw' = onFailure

\* The patch that removes BeingCreated, from each place that sends it.
LEMMA TypeUnannotate ==
    ASSUME Typed, NEW reply \in Replies, NEW pc, NEW next \in SidecarWork,
           NEW onFailure \in SidecarWork, Unannotate(pc, next, onFailure, reply)
    PROVE  Typed' /\ UnannotateEffect(pc, next, onFailure)
<1> DEFINE c == [vgsc EXCEPT !.anns = @ \ {"BeingCreated"}]
<1>1. TypeOK /\ UNCHANGED <<storage, lapses>> /\ UNCHANGED NotSidecar /\ dw.pc = pc
  BY DEF Typed, Unannotate
<1>2. CASE vgsc # Absent /\ "BeingCreated" \in vgsc.anns
  <2>1. vgsc \in GroupContent
    BY <1>1, <1>2 DEF TypeOK
  <2>2. vgsc.anns \ {"BeingCreated"} \in SUBSET Annotations
    BY <2>1, ContentFields
  <2>3. c \in GroupContent
    BY <2>1, <2>2 DEF GroupContent
  <2>4. PatchContent(reply, c, next, onFailure)
    BY <1>2 DEF Unannotate
  <2>5. /\ vgsc' \in GroupContent \cup {Absent} /\ sidecarStore' \in GroupContent \cup {Absent}
        /\ sidecarQueue' \in BOOLEAN /\ dw' \in SidecarWork /\ budget' \in [Faults -> Nat]
        /\ \/ UNCHANGED <<vgsc, sidecarStore>> /\ dw' = onFailure
           \/ /\ vgsc' = KeepContent(c)
              /\ \/ sidecarStore' = c /\ dw' = next
                 \/ sidecarStore' = sidecarStore /\ dw' = onFailure
    BY <1>1, <2>3, <2>4, PatchContentTypes
  <2>6. Typed'
    BY <1>1, <2>5, TypeOfSidecarStep DEF TypeOK
  <2> QED BY <1>1, <1>2, <2>3, <2>5, <2>6 DEF UnannotateEffect
<1>3. CASE ~(vgsc # Absent /\ "BeingCreated" \in vgsc.anns)
  <2>1. dw' = onFailure /\ UNCHANGED <<vgsc, sidecarStore, budget>>
        /\ sidecarQueue' = (sidecarQueue \/ onFailure = SidecarIdle)
    BY <1>3 DEF Unannotate
  <2>2. Typed'
    BY <1>1, <2>1, TypeOfSidecarStep DEF TypeOK
  <2> QED BY <1>1, <2>1, <2>2 DEF UnannotateEffect
<1> QED BY <1>2, <1>3

LEMMA TypeRemoveBeingCreated ==
    ASSUME Typed, NEW reply \in Replies, RemoveBeingCreated(reply)
    PROVE  /\ Typed'
           /\ \/ UnannotateEffect("unannotate", SidecarIdle, Failed)
              \/ UnannotateEffect("giveUp", [Failed EXCEPT !.anns = @ \ {"BeingCreated"}], Failed)
              \/ UnannotateEffect("tidy", SidecarIdle, SidecarIdle)
<1> DEFINE gaveUp == [Failed EXCEPT !.anns = @ \ {"BeingCreated"}]
<1>1. dw \in SidecarWork
  BY DEF Typed, TypeOK
<1>2. Failed \in SidecarWork /\ Failed.anns = dw.anns
  BY <1>1 DEF Failed, SidecarWork
<1>3. gaveUp \in SidecarWork
  BY <1>1, <1>2 DEF SidecarWork
<1>4. SidecarIdle \in SidecarWork
  BY IdleWork
<1>5. CASE Unannotate("unannotate", SidecarIdle, Failed, reply)
  BY <1>2, <1>4, <1>5, TypeUnannotate
<1>6. CASE Unannotate("giveUp", gaveUp, Failed, reply)
  BY <1>2, <1>3, <1>6, TypeUnannotate
<1>7. CASE Unannotate("tidy", SidecarIdle, SidecarIdle, reply)
  BY <1>4, <1>7, TypeUnannotate
<1> QED BY <1>5, <1>6, <1>7 DEF RemoveBeingCreated

LEMMA TypePutErrorStatus ==
    ASSUME Typed, NEW reply \in Replies, PutErrorStatus(reply) PROVE Typed'
<1> DEFINE c == [vgsc EXCEPT !.status = IF dw.status # "nil" /\ HasHandle(vgsc.status)
                                        THEN "cut" ELSE "error"]
<1>1. TypeOK
  BY DEF Typed
<1>2. budget' \in [Faults -> Nat] /\ (reply # "error" => vgsc # Absent)
  BY <1>1, AnswerBudget DEF PutErrorStatus
<1>3. reply # "error" => c \in GroupContent
  BY <1>1, <1>2, ContentUpdates DEF TypeOK, ContentStatus
<1>4. vgsc' \in GroupContent \cup {Absent} /\ sidecarStore' \in GroupContent \cup {Absent}
  BY <1>1, <1>3 DEF PutErrorStatus, TypeOK
<1>5. dw' \in SidecarWork /\ sidecarQueue' \in BOOLEAN
  BY IdleWork DEF PutErrorStatus, RetrySidecar
<1> QED BY <1>1, <1>2, <1>4, <1>5, TypeOfSidecarStep DEF PutErrorStatus, TypeOK

LEMMA TypeCsiDelete == ASSUME Typed, CsiDelete PROVE Typed'
<1>1. TypeOK /\ dw \in SidecarWork
  BY DEF Typed, TypeOK
<1>2. budget' \in [Faults -> Nat]
  BY <1>1, SpendBudget DEF CsiDelete, Faults, TypeOK
<1>3. dw' \in SidecarWork /\ sidecarQueue' \in BOOLEAN /\ storage' \in Storage
  BY <1>1, IdleWork DEF SidecarWork, CsiDelete, RetrySidecar, Storage, TypeOK
<1> QED BY <1>1, <1>2, <1>3, TypeOfSidecarStep DEF CsiDelete, TypeOK

LEMMA TypeClearStatus ==
    ASSUME Typed, NEW reply \in Replies, ClearStatus(reply) PROVE Typed'
<1> DEFINE c == [vgsc EXCEPT !.status = IF @ = "nil" THEN "nil" ELSE "cleared"]
<1>1. TypeOK
  BY DEF Typed
<1>2. budget' \in [Faults -> Nat] /\ (reply # "error" => vgsc # Absent)
  BY <1>1, AnswerBudget DEF ClearStatus
<1>3. reply # "error" => c \in GroupContent
  <2>1. ASSUME reply # "error" PROVE vgsc \in GroupContent
    BY <1>1, <1>2, <2>1 DEF TypeOK
  <2> QED BY <2>1 DEF GroupContent, ContentStatus
<1>4. vgsc' \in GroupContent \cup {Absent} /\ sidecarStore' \in GroupContent \cup {Absent}
  BY <1>1, <1>3 DEF ClearStatus, RetrySidecar, TypeOK
<1>5. dw' \in SidecarWork /\ sidecarQueue' \in BOOLEAN
  <2>1. CASE reply = "ok"
    BY <1>1, <1>3, <2>1, SidecarStepWork DEF ClearStatus, TypeOK
  <2>2. CASE reply # "ok"
    BY <2>2, IdleWork DEF ClearStatus, RetrySidecar
  <2> QED BY <2>1, <2>2
<1> QED BY <1>1, <1>2, <1>4, <1>5, TypeOfSidecarStep DEF ClearStatus, TypeOK

LEMMA TypeRemoveContentFinalizer ==
    ASSUME Typed, NEW reply \in Replies, RemoveContentFinalizer(reply)
    PROVE  /\ Typed' /\ dw.pc = "removeFinalizer" /\ dw' = SidecarIdle
           /\ UNCHANGED <<storage, lapses>>
           /\ \/ UNCHANGED <<vgsc, sidecarStore>>
              \/ LET c == [vgsc EXCEPT !.fin = FALSE]
                 IN /\ vgsc # Absent /\ c \in GroupContent /\ vgsc' = KeepContent(c)
                    /\ sidecarStore' \in {c, sidecarStore}
<1> DEFINE c == [vgsc EXCEPT !.fin = FALSE]
<1>1. TypeOK
  BY DEF Typed
<1>2. vgsc # Absent => c \in GroupContent
  BY <1>1, ContentUpdates DEF TypeOK
<1>3. PatchContent(reply, c, SidecarIdle, SidecarIdle)
  BY DEF RemoveContentFinalizer
<1>4. /\ vgsc' \in GroupContent \cup {Absent} /\ sidecarStore' \in GroupContent \cup {Absent}
      /\ sidecarQueue' \in BOOLEAN /\ dw' \in SidecarWork /\ budget' \in [Faults -> Nat]
      /\ \/ UNCHANGED <<vgsc, sidecarStore>> /\ dw' = SidecarIdle
         \/ /\ vgsc # Absent /\ vgsc' = KeepContent(c)
            /\ \/ sidecarStore' = c /\ dw' = SidecarIdle
               \/ sidecarStore' = sidecarStore /\ dw' = SidecarIdle
  BY <1>1, <1>2, <1>3, IdleWork, PatchContentTypes
<1>5. Typed'
  BY <1>1, <1>4, TypeOfSidecarStep DEF RemoveContentFinalizer, TypeOK
<1> QED BY <1>2, <1>4, <1>5 DEF RemoveContentFinalizer

-----------------------------------------------------------------------------
(* The members' own workers *)

\* What a step on a member leaves well typed, and what it has to show of the rest.
LEMMA TypeOfMemberStep ==
    ASSUME Typed, UNCHANGED NotMemberStep, UNCHANGED lapses,
           snap' \in [Members -> MemberSnapshot \cup {Absent}],
           cont' \in [Members -> MemberContent \cup {Absent}]
    PROVE  Typed'
<1>1. gw' \in GroupWork /\ InHand'
  BY GroupWorkerStill DEF NotMemberStep
<1> QED BY <1>1 DEF Typed, TypeOK, NotMemberStep, api, caches, contents, queues, sidecar, world

\* A step of a member's workers changes that member's snapshot, or its content.
LEMMA MemberChange ==
    ASSUME Typed, NEW m \in Members, MemberStep(m)
    PROVE  /\ Typed' /\ UNCHANGED NotMemberStep /\ UNCHANGED lapses
           /\ \A o \in Members \ {m} : snap'[o] = snap[o] /\ cont'[o] = cont[o]
           /\ \/ /\ UNCHANGED cont /\ snap[m] \in MemberSnapshot
                 /\ \/ /\ "AsSource" \notin snap[m].fins /\ ~snap[m].deleting
                       /\ snap'[m] = [snap[m] EXCEPT !.fins = @ \cup {"AsSource"}]
                    \/ /\ snap[m].bound /\ ~snap[m].deleting /\ cont[m] # Absent
                       /\ snap'[m] = [snap[m] EXCEPT !.ready = cont[m].status = "ready",
                                                     !.named = @ \/ cont[m].status # "nil"]
                    \/ /\ MayGo(m)
                       /\ LET fins == snap[m].fins \
                                      (IF snap[m].named THEN {"AsSource", "InGroup"}
                                       ELSE {"AsSource"})
                          IN snap'[m] = KeepMember([snap[m] EXCEPT !.fins = fins])
              \/ /\ UNCHANGED snap /\ cont[m] \in MemberContent
                 /\ \/ cont'[m] = [cont[m] EXCEPT !.fin = TRUE]
                    \/ storage = "ready" /\ cont'[m] = [cont[m] EXCEPT !.status = "ready"]
                    \/ cont'[m] = [cont[m] EXCEPT !.marked = TRUE]
                    \/ /\ MayGo(m) /\ BoundContent(m)
                       /\ cont'[m] = KeepContent([cont[m] EXCEPT !.deleting = TRUE])
                    \/ cont[m].deleting /\ cont'[m] = Absent
<1> DEFINE s == snap[m]
           c == cont[m]
<1>1. TypeOK /\ s \in MemberSnapshot \cup {Absent} /\ c \in MemberContent \cup {Absent}
  BY DEF Typed, TypeOK
<1>2. ASSUME NEW t \in MemberSnapshot \cup {Absent}, snap' = [snap EXCEPT ![m] = t],
             UNCHANGED <<cont, lapses, NotMemberStep>>
      PROVE  /\ Typed' /\ UNCHANGED cont /\ snap'[m] = t
             /\ \A o \in Members \ {m} : snap'[o] = snap[o] /\ cont'[o] = cont[o]
  <2>1. /\ snap' \in [Members -> MemberSnapshot \cup {Absent}] /\ snap'[m] = t
        /\ \A o \in Members \ {m} : snap'[o] = snap[o]
    BY <1>1, <1>2, OneSnapshot
  <2>2. Typed'
    BY <1>1, <1>2, <2>1, TypeOfMemberStep DEF TypeOK
  <2> QED BY <1>2, <2>1, <2>2
<1>3. ASSUME NEW d \in MemberContent \cup {Absent}, cont' = [cont EXCEPT ![m] = d],
             UNCHANGED <<snap, lapses, NotMemberStep>>
      PROVE  /\ Typed' /\ UNCHANGED snap /\ cont'[m] = d
             /\ \A o \in Members \ {m} : snap'[o] = snap[o] /\ cont'[o] = cont[o]
  <2>1. /\ cont' \in [Members -> MemberContent \cup {Absent}] /\ cont'[m] = d
        /\ \A o \in Members \ {m} : cont'[o] = cont[o]
    BY <1>1, <1>3, OneContentOfMember
  <2>2. Typed'
    BY <1>1, <1>3, <2>1, TypeOfMemberStep DEF TypeOK
  <2> QED BY <1>3, <2>1, <2>2
<1>4. CASE AddMemberFinalizer(m)
  <2> DEFINE t == [s EXCEPT !.fins = @ \cup {"AsSource"}]
  <2>1. s \in MemberSnapshot /\ ~s.deleting /\ "AsSource" \notin s.fins
    BY <1>1, <1>4 DEF AddMemberFinalizer
  <2>2. t \in MemberSnapshot
    BY <2>1 DEF MemberSnapshot
  <2>3. snap' = [snap EXCEPT ![m] = t] /\ UNCHANGED <<cont, lapses, NotMemberStep>>
    BY <1>1, <1>4 DEF AddMemberFinalizer, TypeOK
  <2> QED BY <1>2, <2>1, <2>2, <2>3
<1>5. CASE UpdateMemberStatus(m)
  <2> DEFINE t == [s EXCEPT !.ready = c.status = "ready", !.named = @ \/ c.status # "nil"]
  <2>1. s \in MemberSnapshot /\ ~s.deleting /\ s.bound /\ c # Absent
    BY <1>1, <1>5 DEF UpdateMemberStatus
  <2>2. t \in MemberSnapshot
    BY <2>1 DEF MemberSnapshot
  <2>3. snap' = [snap EXCEPT ![m] = t] /\ UNCHANGED <<cont, lapses, NotMemberStep>>
    BY <1>5 DEF UpdateMemberStatus
  <2> QED BY <1>2, <2>1, <2>2, <2>3
<1>6. CASE ReleaseMember(m)
  <2> DEFINE fins == s.fins \ (IF s.named THEN {"AsSource", "InGroup"} ELSE {"AsSource"})
             t == [s EXCEPT !.fins = fins]
  <2>1. s \in MemberSnapshot /\ MayGo(m)
    BY <1>1, <1>6 DEF ReleaseMember, MayGo, Candidate
  <2>2. t \in MemberSnapshot
    BY <2>1 DEF MemberSnapshot
  <2>3. KeepMember(t) \in MemberSnapshot \cup {Absent}
    BY <2>2, KeepMemberTypes
  <2>4. snap' = [snap EXCEPT ![m] = KeepMember(t)] /\ UNCHANGED <<cont, lapses, NotMemberStep>>
    BY <1>1, <1>6 DEF ReleaseMember, TypeOK
  <2> QED BY <1>2, <2>1, <2>3, <2>4
<1>7. CASE AddMemberContentFinalizer(m)
  <2> DEFINE d == [c EXCEPT !.fin = TRUE]
  <2>1. c \in MemberContent
    BY <1>1, <1>7 DEF AddMemberContentFinalizer
  <2>2. d \in MemberContent
    BY <2>1 DEF MemberContent
  <2>3. cont' = [cont EXCEPT ![m] = d] /\ UNCHANGED <<snap, lapses, NotMemberStep>>
    BY <1>1, <1>7 DEF AddMemberContentFinalizer, TypeOK
  <2> QED BY <1>3, <2>1, <2>2, <2>3
<1>8. CASE UpdateMemberContent(m)
  <2> DEFINE d == [c EXCEPT !.status = "ready"]
  <2>1. c \in MemberContent /\ storage = "ready"
    BY <1>1, <1>8 DEF UpdateMemberContent
  <2>2. d \in MemberContent
    BY <2>1 DEF MemberContent
  <2>3. cont' = [cont EXCEPT ![m] = d] /\ UNCHANGED <<snap, lapses, NotMemberStep>>
    BY <1>1, <1>8 DEF UpdateMemberContent, TypeOK
  <2> QED BY <1>3, <2>1, <2>2, <2>3
<1>9. CASE MarkMemberContent(m)
  <2> DEFINE d == [c EXCEPT !.marked = TRUE]
  <2>1. c \in MemberContent
    BY <1>1, <1>9 DEF MarkMemberContent, BoundContent
  <2>2. d \in MemberContent
    BY <2>1 DEF MemberContent
  <2>3. cont' = [cont EXCEPT ![m] = d] /\ UNCHANGED <<snap, lapses, NotMemberStep>>
    BY <1>1, <1>9 DEF MarkMemberContent, TypeOK
  <2> QED BY <1>3, <2>1, <2>2, <2>3
<1>10. CASE DeleteMemberContent(m)
  <2> DEFINE d == [c EXCEPT !.deleting = TRUE]
  <2>1. c \in MemberContent /\ MayGo(m) /\ BoundContent(m)
    BY <1>1, <1>10 DEF DeleteMemberContent, BoundContent
  <2>2. d \in MemberContent
    BY <2>1 DEF MemberContent
  <2>3. KeepContent(d) \in MemberContent \cup {Absent}
    BY <2>2 DEF KeepContent
  <2>4. cont' = [cont EXCEPT ![m] = KeepContent(d)] /\ UNCHANGED <<snap, lapses, NotMemberStep>>
    BY <1>10 DEF DeleteMemberContent
  <2> QED BY <1>3, <2>1, <2>3, <2>4
<1>11. CASE ReleaseMemberContent(m)
  <2>1. c \in MemberContent /\ c.deleting
    BY <1>1, <1>11 DEF ReleaseMemberContent
  <2>2. cont' = [cont EXCEPT ![m] = Absent] /\ UNCHANGED <<snap, lapses, NotMemberStep>>
    BY <1>11 DEF ReleaseMemberContent
  <2> QED BY <1>3, <2>1, <2>2
<1>12. UNCHANGED NotMemberStep /\ UNCHANGED lapses
  BY DEF MemberStep, AddMemberFinalizer, UpdateMemberStatus, ReleaseMember,
         AddMemberContentFinalizer, UpdateMemberContent, MarkMemberContent,
         DeleteMemberContent, ReleaseMemberContent
<1> QED BY <1>4, <1>5, <1>6, <1>7, <1>8, <1>9, <1>10, <1>11, <1>12 DEF MemberStep

-----------------------------------------------------------------------------
(* The informers, the restarts and the users *)

LEMMA TypeInform == ASSUME Typed, Inform PROVE Typed'
<1>1. gw' \in GroupWork /\ InHand'
  BY GroupWorkerStill
     DEF Inform, DeliverGroup, DeliverContent, DeliverMembers, DeliverSidecar
<1>2. CASE DeliverGroup
  BY <1>1, <1>2 DEF Typed, TypeOK, DeliverGroup, api, members, contents, sidecar, world
<1>3. CASE DeliverContent
  BY <1>1, <1>3 DEF Typed, TypeOK, DeliverContent, api, members, sidecar, world, Views
<1>4. CASE DeliverMembers
  BY <1>1, <1>4
     DEF Typed, TypeOK, DeliverMembers, api, members, contents, queues, sidecar, world
<1>5. CASE DeliverSidecar
  BY <1>1, <1>5
     DEF Typed, TypeOK, DeliverSidecar, api, members, caches, contents, queues, world
<1> QED BY <1>2, <1>3, <1>4, <1>5 DEF Inform

LEMMA TypeResync == ASSUME Typed, Resync PROVE Typed'
<1>1. gw' \in GroupWork /\ InHand'
  BY GroupWorkerStill DEF Resync
<1> QED BY <1>1 DEF Typed, TypeOK, Resync, api, members, caches, contents, world

LEMMA TypeRestartController == ASSUME Typed, RestartController PROVE Typed'
<1>1. gw' \in GroupWork /\ InHand' /\ cw' \in ContentWork
  BY GoesIdle DEF RestartController, ContentWork
<1>2. budget' \in [Faults -> Nat]
  BY SpendBudget DEF RestartController, Typed, Faults
<1> QED BY <1>1, <1>2
        DEF Typed, TypeOK, RestartController, api, members, sidecar, world, Views

LEMMA TypeRestartSidecar == ASSUME Typed, RestartSidecar PROVE Typed'
<1>1. gw' \in GroupWork /\ InHand'
  BY GroupWorkerStill DEF RestartSidecar
<1>2. budget' \in [Faults -> Nat]
  BY SpendBudget DEF RestartSidecar, Typed, Faults
<1> QED BY <1>1, <1>2, IdleWork
        DEF Typed, TypeOK, RestartSidecar, api, members, caches, contents, queues, world

LEMMA TypeUserDeletesGroup == ASSUME Typed, UserDeletesGroup PROVE Typed'
<1> DEFINE noted == When(~vgs.fin /\ (vgsc # Absent \/ gw.pc \in {"create", "member"}),
                         "early")
<1>1. TypeOK /\ vgs \in GroupSnapshot
  BY DEF Typed, TypeOK, UserDeletesGroup
<1>2. vgs' \in GroupSnapshot \cup {Absent}
  BY <1>1, GroupUpdates DEF UserDeletesGroup
<1>3. budget' \in [Faults -> Nat]
  BY <1>1, SpendBudget DEF UserDeletesGroup, Faults
<1>4. gw' \in GroupWork /\ InHand'
  BY GroupWorkerStill DEF UserDeletesGroup
<1>5. lapses' \subseteq Lapses
  <2>1. noted \in SUBSET Lapses
    BY WhenLapses DEF Lapses
  <2>2. Note(noted)
    BY DEF UserDeletesGroup
  <2> QED BY <1>1, <2>1, <2>2, NoteLapses
<1> QED BY <1>1, <1>2, <1>3, <1>4, <1>5
        DEF Typed, TypeOK, UserDeletesGroup, members, caches, contents, queues, sidecar, world

\* A member is asked to go: by a user, or by the garbage collector.
AskedMember(m) ==
    /\ snap[m] \in MemberSnapshot
    /\ snap' = [snap EXCEPT ![m] = KeepMember([snap[m] EXCEPT !.deleting = TRUE])]
    /\ KeepMember([snap[m] EXCEPT !.deleting = TRUE]) \in MemberSnapshot \cup {Absent}

LEMMA TypeUserDeletesMember ==
    ASSUME Typed, NEW m \in Members, UserDeletesMember(m)
    PROVE  Typed' /\ AskedMember(m) /\ "alone" \in lapses' /\ lapses \subseteq lapses'
<1> DEFINE noted == {"alone"} \cup When(Unreleasable(snap[m]), "unnamed")
           t == [snap[m] EXCEPT !.deleting = TRUE]
<1>1. TypeOK /\ snap[m] \in MemberSnapshot
  BY DEF Typed, TypeOK, UserDeletesMember
<1>2. t \in MemberSnapshot
  BY <1>1, MemberUpdates
<1>3. AskedMember(m)
  BY <1>1, <1>2, KeepMemberTypes DEF UserDeletesMember, AskedMember, TypeOK
<1>4. snap' \in [Members -> MemberSnapshot \cup {Absent}]
  BY <1>1, <1>3, OneSnapshot DEF AskedMember
<1>5. budget' \in [Faults -> Nat]
  BY <1>1, SpendBudget DEF UserDeletesMember, Faults
<1>6. gw' \in GroupWork /\ InHand'
  BY GroupWorkerStill DEF UserDeletesMember
<1>7. lapses' \subseteq Lapses /\ noted \subseteq lapses' /\ lapses \subseteq lapses'
  <2>1. noted \in SUBSET Lapses
    BY WhenLapses DEF Lapses
  <2>2. Note(noted)
    BY DEF UserDeletesMember
  <2> QED BY <1>1, <2>1, <2>2, NoteLapses
<1> QED BY <1>1, <1>3, <1>4, <1>5, <1>6, <1>7
        DEF Typed, TypeOK, UserDeletesMember, api, caches, contents, queues, sidecar, world

LEMMA TypeCollectMember ==
    ASSUME Typed, NEW m \in Members, CollectMember(m)
    PROVE  Typed' /\ AskedMember(m) /\ lapses \subseteq lapses'
<1> DEFINE noted == When(Unreleasable(snap[m]), "unnamed")
           t == [snap[m] EXCEPT !.deleting = TRUE]
<1>1. TypeOK /\ snap[m] \in MemberSnapshot
  BY DEF Typed, TypeOK, CollectMember
<1>2. t \in MemberSnapshot
  BY <1>1, MemberUpdates
<1>3. AskedMember(m)
  BY <1>1, <1>2, KeepMemberTypes DEF CollectMember, AskedMember, TypeOK
<1>4. snap' \in [Members -> MemberSnapshot \cup {Absent}]
  BY <1>1, <1>3, OneSnapshot DEF AskedMember
<1>5. gw' \in GroupWork /\ InHand'
  BY GroupWorkerStill DEF CollectMember
<1>6. lapses' \subseteq Lapses /\ lapses \subseteq lapses'
  <2>1. noted \in SUBSET Lapses
    BY WhenLapses DEF Lapses
  <2>2. Note(noted)
    BY DEF CollectMember
  <2> QED BY <1>1, <2>1, <2>2, NoteLapses
<1> QED BY <1>1, <1>3, <1>4, <1>5, <1>6
        DEF Typed, TypeOK, CollectMember, api, caches, contents, queues, sidecar, world

LEMMA TypeRestore == ASSUME Typed, BeginRestore \/ EndRestore PROVE Typed'
<1>1. TypeOK
  BY DEF Typed
<1>2. gw' \in GroupWork /\ InHand'
  BY GroupWorkerStill DEF BeginRestore, EndRestore
<1>3. CASE BeginRestore
  <2> DEFINE noted == When(gw.pc \in {"annotate", "delete"} \/ vgsc = Absent \/ vgsc.deleting,
                           "late")
  <2>1. budget' \in [Faults -> Nat]
    BY <1>1, <1>3, SpendBudget DEF BeginRestore, Faults
  <2>2. noted \in SUBSET Lapses
    BY WhenLapses DEF Lapses
  <2>3. Note(noted)
    BY <1>3 DEF BeginRestore
  <2>4. lapses' \subseteq Lapses
    BY <1>1, <2>2, <2>3, NoteLapses
  <2> QED BY <1>2, <1>3, <2>1, <2>4
          DEF Typed, TypeOK, BeginRestore, api, members, caches, contents, queues, sidecar
<1>4. CASE EndRestore
  BY <1>2, <1>4 DEF Typed, TypeOK, EndRestore, api, members, caches, contents, queues, sidecar
<1> QED BY <1>3, <1>4

-----------------------------------------------------------------------------
(* The specification *)

LEMMA TypeGroupWorker == ASSUME Typed, GroupWorker PROVE Typed'
  BY TypeForgetGroup, TypeSyncGroupSnapshot, TypeSyncDeletingGroupSnapshot,
     TypeAddGroupFinalizer, TypeCreateContent, TypeUpdateStatus, TypeMarkMissing,
     TypeBindContent, TypeAnnotateDeleted, TypeDeleteContent, TypeDeleteMember,
     TypeRemoveGroupFinalizer, TypeCreateMemberContent, TypeCreateMemberSnapshot,
     TypeBindMemberContent, TypeBindMemberSnapshot, TypeUpdateMemberContentStatus
     DEF GroupWorker, MakeMember

LEMMA TypeContentWorker == ASSUME Typed, ContentWorker PROVE Typed'
  BY TypeForgetContent, TypeIgnoreContent, TypeSyncGroupSnapshotContent,
     TypeAddContentFinalizer DEF ContentWorker

LEMMA TypeSidecarWorker == ASSUME Typed, SidecarWorker PROVE Typed'
  BY TypeTakeSidecarContent, TypeCsiCreate, TypeCsiGetStatus, TypeCsiDelete,
     TypeAnnotateCreated, TypePutStatus, TypeRemoveBeingCreated, TypePutErrorStatus,
     TypeClearStatus, TypeRemoveContentFinalizer DEF SidecarWorker

\* The initial states are well typed.
LEMMA TypedInit == Init => Typed
<1> SUFFICES ASSUME Init PROVE Typed
  OBVIOUS
<1>1. InHand
  BY IdleWork DEF Init, InHand, Equipped, DeletionCalls
<1>2. vgs \in GroupSnapshot /\ vgsc \in GroupContent \cup {Absent} /\ storage \in Storage
  BY NewObjects DEF Init, GroupSnapshot, Storage
<1>3. config \in Config /\ budget \in [Faults -> Nat]
  BY ConfigsAssumption, BudgetsAssumption DEF Init
<1> QED BY <1>1, <1>2, <1>3, IdleWork DEF Init, Typed, TypeOK, Views, ContentWork

\* Every step keeps the types: one case per actor.
LEMMA TypedNext == Typed /\ [Next]_vars => Typed'
<1> SUFFICES ASSUME Typed, [Next]_vars PROVE Typed'
  OBVIOUS
<1>1. CASE UNCHANGED vars
  <2>1. gw' \in GroupWork /\ InHand'
    BY <1>1, GroupWorkerStill DEF vars
  <2> QED BY <1>1, <2>1
          DEF Typed, TypeOK, vars, api, members, caches, contents, queues, sidecar, world
<1>2. CASE Inform
  BY <1>2, TypeInform
<1>3. CASE Controllers
  BY <1>3, TypeGroupWorker, TypeContentWorker, TypeSidecarWorker, TypeCsiCompletes,
     MemberChange, TypeResync, TypeRestartController, TypeRestartSidecar
     DEF Controllers, AnyMember
<1>4. CASE Others
  BY <1>4, TypeUserDeletesGroup, TypeUserDeletesMember, TypeCollectMember, TypeRestore
     DEF Others
<1> QED BY <1>1, <1>2, <1>3, <1>4 DEF Next

\* Every variable has its type, and a worker has in hand what its next call reads.
THEOREM TypeCorrect == Spec => []Typed
<1>1. Init => Typed
  BY TypedInit
<1>2. Typed /\ [Next]_vars => Typed'
  BY TypedNext
<1> QED BY <1>1, <1>2, PTL DEF Spec
=============================================================================
