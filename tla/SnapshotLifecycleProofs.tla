---------------------- MODULE SnapshotLifecycleProofs -----------------------
(***************************************************************************)
(* Type correctness and safety of SnapshotLifecycle, and that it implements *)
(* SnapshotPromise, for every budget of faults, every set of lagging        *)
(* informers and either policy.                                            *)
(*                                                                         *)
(*   - TypeOK is inductive as it stands; there is one lemma per action, and *)
(*     one step of it per component (the API server, the common controller, *)
(*     the sidecar, the rest).                                             *)
(*   - The invariant is split by whether the deletion of the snapshot was   *)
(*     asked for (Going).  Once it was, the invariant says little, and Going*)
(*     is stable.  Until then every copy in every cache, store and worker is*)
(*     calm (Calm): there is one lemma per action that says it stays so.    *)
(***************************************************************************)
EXTENDS SnapshotLifecycle, TLAPS

-----------------------------------------------------------------------------
(***************************************************************************)
(* Records: the types of the updates the actions make.                     *)
(***************************************************************************)

\* Fields of a snapshot, and the updates that keep it one.
LEMMA SnapshotFields ==
    ASSUME NEW s \in Snapshot
    PROVE  /\ s.rv \in Nat /\ s.deleting \in BOOLEAN /\ s.bound \in BOOLEAN
           /\ s.ready \in BOOLEAN /\ s.fins \subseteq SnapshotFinalizers
           /\ \A n \in Nat : [s EXCEPT !.rv = n] \in Snapshot
           /\ \A b \in BOOLEAN : /\ [s EXCEPT !.deleting = b] \in Snapshot
                                 /\ [s EXCEPT !.ready = b] \in Snapshot
           /\ \A b, r \in BOOLEAN :
                 [s EXCEPT !.bound = b, !.ready = r] \in Snapshot
           /\ \A f \in SUBSET SnapshotFinalizers :
                 [s EXCEPT !.fins = f] \in Snapshot
  BY DEF Snapshot

\* Fields of a content, and the updates that keep it one.
LEMMA ContentFields ==
    ASSUME NEW c \in Content
    PROVE  /\ c.rv \in Nat /\ c.deleting \in BOOLEAN /\ c.fin \in BOOLEAN
           /\ c.anns \subseteq Annotations /\ c.status \in ContentStatus
           /\ \A n \in Nat : [c EXCEPT !.rv = n] \in Content
           /\ \A b \in BOOLEAN : /\ [c EXCEPT !.deleting = b] \in Content
                                 /\ [c EXCEPT !.fin = b] \in Content
           /\ \A a \in SUBSET Annotations : [c EXCEPT !.anns = a] \in Content
           /\ \A t \in ContentStatus : [c EXCEPT !.status = t] \in Content
  BY DEF Content

\* Fields of what the snapshot worker has in hand.
LEMMA SnapshotWorkFields ==
    ASSUME NEW w \in SnapshotWork
    PROVE  /\ w.pc \in SnapshotPC /\ w.snap \in Snapshot \cup {Absent}
           /\ w.found \in BOOLEAN /\ w.anns \subseteq Annotations
           /\ w.ready \in BOOLEAN
           /\ w.pc \in {"addFinalizer", "missing", "annotate", "delete",
                        "removeFinalizer"} => w.snap \in Snapshot
           /\ w.snap # Absent =>
                [w EXCEPT !.pc = "removeFinalizer"] \in SnapshotWork
  BY DEF SnapshotWork, SnapshotPC

\* Fields of what the sidecar has in hand, and the steps that keep it that.
LEMMA SidecarWorkFields ==
    ASSUME NEW w \in SidecarWork
    PROVE  /\ w.pc \in SidecarPC /\ w.anns \subseteq Annotations
           /\ w.status \in ContentStatus /\ w.ready \in BOOLEAN
           /\ \A p \in SidecarPC : [w EXCEPT !.pc = p] \in SidecarWork
           /\ \A p \in SidecarPC, b \in BOOLEAN :
                 [w EXCEPT !.pc = p, !.ready = b] \in SidecarWork
  BY DEF SidecarWork

\* A worker between two keys.
LEMMA IdleTypes ==
    /\ SnapshotIdle \in SnapshotWork
    /\ ContentIdle \in ContentWork
    /\ SidecarIdle \in SidecarWork
  BY DEF SnapshotIdle, ContentIdle, SidecarIdle, SnapshotWork, ContentWork,
         SidecarWork, SnapshotPC, ContentPC, SidecarPC, ContentStatus

\* SyncStep, the rest of syncSnapshot, yields work for the snapshot worker.
LEMMA SyncStepType ==
    ASSUME NEW s \in Snapshot, NEW c \in Content \cup {Absent}
    PROVE  SyncStep(s, c) \in SnapshotWork
  BY AbsentAssumption DEF SyncStep, SnapshotIdle, SnapshotWork, SnapshotPC

\* So does Dispose, the end of the deletion.
LEMMA DisposeType ==
    ASSUME NEW s \in Snapshot, NEW found \in BOOLEAN
    PROVE  Dispose(s, found) \in SnapshotWork
  BY AbsentAssumption DEF Dispose, SnapshotIdle, SnapshotWork, SnapshotPC

\* StoreObjectUpdate yields one of the objects it was given.
LEMMA StoreObjectUpdateType ==
    /\ \A old, obj \in Snapshot \cup {Absent} :
          StoreObjectUpdate(old, obj) \in Snapshot \cup {Absent}
    /\ \A old, obj \in Content \cup {Absent} :
          StoreObjectUpdate(old, obj) \in Content \cup {Absent}
  BY DEF StoreObjectUpdate

\* What the server stores, and what is left of the budget.
LEMMA NextSnapshotType ==
    ASSUME ApiTypeOK, vs # Absent
    PROVE  \A s \in Snapshot : NextSnapshot(s) \in Snapshot
  BY DEF NextSnapshot, ApiTypeOK, Snapshot

\* ... and of a content.
LEMMA NextContentType ==
    ASSUME ApiTypeOK
    PROVE  \A c \in Content : NextContent(c) \in Content
  BY DEF NextContent, ApiTypeOK, Content

\* A fault that the budget allows leaves a budget.
LEMMA SpendType ==
    ASSUME OthersTypeOK
    PROVE  \A kind \in Faults : budget[kind] > 0 =>
              [budget EXCEPT ![kind] = @ - 1] \in [Faults -> Nat]
  BY DEF OthersTypeOK

-----------------------------------------------------------------------------
(***************************************************************************)
(* Type correctness: the snapshot worker.                                  *)
(***************************************************************************)

\* ForgetSnapshot keeps the types.
LEMMA TypeForgetSnapshot == ASSUME TypeOK, ForgetSnapshot PROVE TypeOK'
<1>1. ApiTypeOK' /\ SidecarTypeOK' /\ OthersTypeOK'
  BY DEF ForgetSnapshot, api, sidecar, restore, TypeOK, ApiTypeOK,
         SidecarTypeOK, OthersTypeOK
<1>2. CommonTypeOK'
  BY DEF ForgetSnapshot, TypeOK, CommonTypeOK
<1> QED BY <1>1, <1>2 DEF TypeOK

\* IgnoreOldSnapshot keeps the types.
LEMMA TypeIgnoreOldSnapshot == ASSUME TypeOK, IgnoreOldSnapshot PROVE TypeOK'
<1>1. ApiTypeOK' /\ SidecarTypeOK' /\ OthersTypeOK'
  BY DEF IgnoreOldSnapshot, api, sidecar, restore, TypeOK, ApiTypeOK,
         SidecarTypeOK, OthersTypeOK
<1>2. CommonTypeOK'
  BY DEF IgnoreOldSnapshot, TypeOK, CommonTypeOK
<1> QED BY <1>1, <1>2 DEF TypeOK

\* SyncSnapshot keeps the types.
LEMMA TypeSyncSnapshot == ASSUME TypeOK, SyncSnapshot PROVE TypeOK'
<1>1. ApiTypeOK' /\ SidecarTypeOK' /\ OthersTypeOK'
  BY DEF SyncSnapshot, NotSnapshotWorker, api, sidecar, restore, TypeOK,
         ApiTypeOK, SidecarTypeOK, OthersTypeOK
<1>2. snapshotLister \in Snapshot
  BY DEF SyncSnapshot, TakeSnapshot, TypeOK, CommonTypeOK
<1>3. sw' \in SnapshotWork
  <2>1. \A found \in BOOLEAN :
          [SnapshotIdle EXCEPT !.pc = "addFinalizer", !.snap = snapshotLister,
                               !.found = found] \in SnapshotWork
    BY <1>2, AbsentAssumption DEF SnapshotIdle, SnapshotWork, SnapshotPC
  <2>2. SyncStep(snapshotLister, contentStore) \in SnapshotWork
    BY <1>2, SyncStepType DEF TypeOK, CommonTypeOK
  <2> QED BY <2>1, <2>2 DEF SyncSnapshot
<1>4. CommonTypeOK'
  BY <1>2, <1>3 DEF SyncSnapshot, TakeSnapshot, NotSnapshotWorker, TypeOK,
                    CommonTypeOK
<1> QED BY <1>1, <1>4 DEF TypeOK

\* SyncDeletedSnapshot keeps the types.
LEMMA TypeSyncDeletedSnapshot == ASSUME TypeOK, SyncDeletedSnapshot PROVE TypeOK'
<1> DEFINE marked == [contentStore EXCEPT !.anns = @ \cup {"BeingDeleted"}]
<1> USE AbsentAssumption
<1>1. ApiTypeOK' /\ SidecarTypeOK'
  BY DEF SyncDeletedSnapshot, NotSnapshotWorker, api, sidecar, restore, TypeOK,
         ApiTypeOK, SidecarTypeOK
<1>2. OthersTypeOK'
  BY DEF SyncDeletedSnapshot, NotSnapshotWorker, restore, TypeOK, OthersTypeOK,
         Lapses
<1>3. snapshotLister \in Snapshot
  BY DEF SyncDeletedSnapshot, TakeSnapshot, TypeOK, CommonTypeOK
<1>4. contentStore # Absent => /\ marked \in Content
                               /\ marked.anns \subseteq Annotations
  BY ContentFields DEF TypeOK, CommonTypeOK, Annotations
<1>5. contentStore # Absent =>
        [SnapshotIdle EXCEPT !.pc = "annotate", !.snap = snapshotLister,
                             !.found = TRUE, !.anns = marked.anns] \in SnapshotWork
  BY <1>3, <1>4 DEF SnapshotIdle, SnapshotWork, SnapshotPC
<1>6. Dispose(snapshotLister, contentStore # Absent) \in SnapshotWork
  BY <1>3, DisposeType
<1>7. sw' \in SnapshotWork
  BY <1>5, <1>6 DEF SyncDeletedSnapshot, NeedsMark, TypeOK, CommonTypeOK
<1>8. contentStore' \in Content \cup {Absent} /\ contentLister' \in Content \cup {Absent}
  BY <1>4 DEF SyncDeletedSnapshot, NeedsMark, TypeOK, CommonTypeOK
<1>9. CommonTypeOK'
  BY <1>3, <1>7, <1>8 DEF SyncDeletedSnapshot, TakeSnapshot, NotSnapshotWorker,
                          TypeOK, CommonTypeOK
<1> QED BY <1>1, <1>2, <1>9 DEF TypeOK

\* AddSnapshotFinalizer keeps the types.
LEMMA TypeAddSnapshotFinalizer ==
    ASSUME TypeOK, NEW reply \in Replies, AddSnapshotFinalizer(reply)
    PROVE  TypeOK'
<1> DEFINE new == NextSnapshot([vs EXCEPT !.fins =
                                   @ \cup FinalizersToAdd(sw.snap, sw.found)])
<1> USE AbsentAssumption
<1>1. reply # "error" => vs # Absent
  BY DEF AddSnapshotFinalizer, Answer, Replies
<1>2. reply # "error" => new \in Snapshot
  BY <1>1, NextSnapshotType, SnapshotFields
     DEF TypeOK, ApiTypeOK, FinalizersToAdd
<1>3. ApiTypeOK'
  BY <1>2 DEF AddSnapshotFinalizer, PutSnapshot, NotSnapshotCall, TypeOK, ApiTypeOK
<1>4. sw.snap \in Snapshot
  BY SnapshotWorkFields DEF AddSnapshotFinalizer, TypeOK, CommonTypeOK
<1>5. CommonTypeOK'
  BY <1>2, <1>4, StoreObjectUpdateType, IdleTypes, SyncStepType
     DEF AddSnapshotFinalizer, TypeOK, CommonTypeOK, RetrySnapshot,
         NotSnapshotCall, NotSnapshotWorker
<1>6. SidecarTypeOK'
  BY DEF AddSnapshotFinalizer, NotSnapshotCall, NotSnapshotWorker, sidecar,
         TypeOK, SidecarTypeOK
<1>7. OthersTypeOK'
  BY SpendType DEF AddSnapshotFinalizer, NotSnapshotCall, NotSnapshotWorker,
                   restore, TypeOK, OthersTypeOK, Answer, Spend, Faults
<1> QED BY <1>3, <1>5, <1>6, <1>7 DEF TypeOK

\* CreateSnapshotContent keeps the types.
LEMMA TypeCreateSnapshotContent ==
    ASSUME TypeOK, NEW reply \in Replies, CreateSnapshotContent(reply)
    PROVE  TypeOK'
<1> DEFINE version == IF vsc # Absent THEN NoVersion ELSE rev + 1
           new == [rv |-> version, uid |-> version, deleting |-> FALSE,
                   fin |-> FALSE, anns |-> {}, status |-> "nil"]
<1>1. new \in Content
  BY DEF NoVersion, Content, ContentStatus, TypeOK, ApiTypeOK
<1>2. new.rv \in Nat /\ ~new.deleting
  BY DEF NoVersion, TypeOK, ApiTypeOK
<1> HIDE DEF new
<1>3. ApiTypeOK'
  BY <1>1, <1>2 DEF CreateSnapshotContent, PutContent, TypeOK, ApiTypeOK,
                    new, version
<1>4. sw' \in SnapshotWork
  BY IdleTypes DEF CreateSnapshotContent, RetrySnapshot, SnapshotIdle,
                   SnapshotWork, SnapshotPC
<1>5. contentStore' \in Content \cup {Absent} /\ shared' \in BOOLEAN
  BY <1>1, StoreObjectUpdateType DEF CreateSnapshotContent, StoreContent, TypeOK,
                                     CommonTypeOK, new, version
<1>6. CommonTypeOK'
  BY <1>4, <1>5 DEF CreateSnapshotContent, RetrySnapshot, NotSnapshotWorker,
                    TypeOK, CommonTypeOK
<1>7. SidecarTypeOK'
  BY DEF CreateSnapshotContent, NotSnapshotWorker, sidecar, TypeOK, SidecarTypeOK
<1>8. OthersTypeOK'
  BY SpendType DEF CreateSnapshotContent, NotSnapshotWorker, restore, TypeOK,
                   OthersTypeOK, Answer, Spend, Faults
<1> QED BY <1>3, <1>6, <1>7, <1>8 DEF TypeOK

\* UpdateSnapshotStatus keeps the types.
LEMMA TypeUpdateSnapshotStatus ==
    ASSUME TypeOK, NEW reply \in Replies, UpdateSnapshotStatus(reply)
    PROVE  TypeOK'
<1> DEFINE new == NextSnapshot([vs EXCEPT !.bound = TRUE, !.ready = sw.ready])
<1>1. reply # "error" => vs # Absent
  BY DEF UpdateSnapshotStatus, Answer, Replies
<1>2. sw.ready \in BOOLEAN
  BY SnapshotWorkFields DEF TypeOK, CommonTypeOK
<1>3. reply # "error" => new \in Snapshot
  BY <1>1, <1>2, NextSnapshotType, SnapshotFields DEF TypeOK, ApiTypeOK
<1>4. ApiTypeOK'
  BY <1>3 DEF UpdateSnapshotStatus, PutSnapshot, NotSnapshotCall, TypeOK, ApiTypeOK
<1>5. CommonTypeOK'
  BY <1>3, StoreObjectUpdateType, IdleTypes
     DEF UpdateSnapshotStatus, TypeOK, CommonTypeOK, RetrySnapshot, SnapshotDone,
         NotSnapshotCall, NotSnapshotWorker
<1>6. SidecarTypeOK'
  BY DEF UpdateSnapshotStatus, NotSnapshotCall, NotSnapshotWorker, sidecar,
         TypeOK, SidecarTypeOK
<1>7. OthersTypeOK'
  BY SpendType DEF UpdateSnapshotStatus, NotSnapshotCall, NotSnapshotWorker,
                   restore, TypeOK, OthersTypeOK, Answer, Spend, Faults
<1> QED BY <1>4, <1>5, <1>6, <1>7 DEF TypeOK

\* FailBind keeps the types.
LEMMA TypeFailBind == ASSUME TypeOK, FailBind PROVE TypeOK'
<1> DEFINE new == NextSnapshot([vs EXCEPT !.ready = FALSE])
<1>1. new \in Snapshot
  BY NextSnapshotType, SnapshotFields DEF FailBind, TypeOK, ApiTypeOK
<1>2. ApiTypeOK'
  BY <1>1 DEF FailBind, PutSnapshot, NotSnapshotCall, TypeOK, ApiTypeOK
<1>3. CommonTypeOK'
  BY <1>1, StoreObjectUpdateType, IdleTypes
     DEF FailBind, TypeOK, CommonTypeOK, RetrySnapshot, NotSnapshotCall,
         NotSnapshotWorker
<1>4. SidecarTypeOK'
  BY DEF FailBind, NotSnapshotCall, NotSnapshotWorker, sidecar, TypeOK,
         SidecarTypeOK
<1>5. OthersTypeOK'
  BY SpendType DEF FailBind, NotSnapshotCall, NotSnapshotWorker, restore, TypeOK,
                   OthersTypeOK, Spend, Faults
<1> QED BY <1>2, <1>3, <1>4, <1>5 DEF TypeOK

\* MarkMissing keeps the types.
LEMMA TypeMarkMissing ==
    ASSUME TypeOK, NEW reply \in Replies, MarkMissing(reply)
    PROVE  TypeOK'
<1> DEFINE new == NextSnapshot([vs EXCEPT !.ready = FALSE])
<1>1. reply # "error" => vs # Absent
  BY DEF MarkMissing, Answer, Replies
<1>2. reply # "error" => new \in Snapshot
  BY <1>1, NextSnapshotType, SnapshotFields DEF TypeOK, ApiTypeOK
<1>3. ApiTypeOK'
  BY <1>2 DEF MarkMissing, PutSnapshot, NotSnapshotCall, TypeOK, ApiTypeOK
<1>4. CommonTypeOK'
  BY <1>2, StoreObjectUpdateType, IdleTypes
     DEF MarkMissing, TypeOK, CommonTypeOK, RetrySnapshot, SnapshotDone,
         NotSnapshotCall, NotSnapshotWorker
<1>5. SidecarTypeOK'
  BY DEF MarkMissing, NotSnapshotCall, NotSnapshotWorker, sidecar, TypeOK,
         SidecarTypeOK
<1>6. OthersTypeOK'
  BY SpendType DEF MarkMissing, NotSnapshotCall, NotSnapshotWorker, restore,
                   TypeOK, OthersTypeOK, Answer, Spend, Faults
<1> QED BY <1>3, <1>4, <1>5, <1>6 DEF TypeOK

\* RemoveSnapshotFinalizer keeps the types.
LEMMA TypeRemoveSnapshotFinalizer ==
    ASSUME TypeOK, NEW reply \in Replies, RemoveSnapshotFinalizer(reply)
    PROVE  TypeOK'
<1> DEFINE left == IF sw.found /\ Policy = "Delete" THEN vs.fins \ {"AsSource"}
                   ELSE {}
           new == NextSnapshot([vs EXCEPT !.fins = left])
<1>1. reply # "error" => vs # Absent
  BY DEF RemoveSnapshotFinalizer, Answer, Replies
<1>2. reply # "error" => left \in SUBSET SnapshotFinalizers
  BY <1>1, SnapshotFields DEF TypeOK, ApiTypeOK
<1>3. reply # "error" => [vs EXCEPT !.fins = left] \in Snapshot
  BY <1>1, <1>2, SnapshotFields DEF TypeOK, ApiTypeOK
<1>4. reply # "error" => new \in Snapshot
  BY <1>1, <1>3, NextSnapshotType DEF TypeOK
<1>5. ApiTypeOK'
  BY <1>4 DEF RemoveSnapshotFinalizer, PutSnapshot, NotSnapshotCall, TypeOK,
              ApiTypeOK
<1>6. CommonTypeOK'
  BY <1>4, StoreObjectUpdateType, IdleTypes
     DEF RemoveSnapshotFinalizer, TypeOK, CommonTypeOK, RetrySnapshot,
         SnapshotDone, NotSnapshotCall, NotSnapshotWorker
<1>7. SidecarTypeOK'
  BY DEF RemoveSnapshotFinalizer, NotSnapshotCall, NotSnapshotWorker, sidecar,
         TypeOK, SidecarTypeOK
<1>8. OthersTypeOK'
  BY SpendType DEF RemoveSnapshotFinalizer, NotSnapshotCall, NotSnapshotWorker,
                   restore, TypeOK, OthersTypeOK, Answer, Spend, Faults
<1> QED BY <1>5, <1>6, <1>7, <1>8 DEF TypeOK

\* The patch of BeingDeleted, common to the two workers that send it.
LEMMA TypePatchBeingDeleted ==
    ASSUME TypeOK, NEW reply \in Replies,
           NEW STATE anns, anns \in SUBSET Annotations,
           PatchBeingDeleted(anns, reply), UNCHANGED vs
    PROVE  /\ ApiTypeOK'
           /\ contentStore' \in Content \cup {Absent} /\ shared' \in BOOLEAN
           /\ budget' \in [Faults -> Nat] /\ lapses' \subseteq Lapses
<1> DEFINE new == NextContent([vsc EXCEPT !.anns = anns])
<1>1. reply # "error" => vsc # Absent
  BY DEF PatchBeingDeleted, Answer, Replies
<1>2. reply # "error" => new \in Content
  BY <1>1, NextContentType, ContentFields DEF TypeOK, ApiTypeOK
<1>3. ApiTypeOK'
  BY <1>2, ContentFields DEF PatchBeingDeleted, PutContent, TypeOK, ApiTypeOK
<1>4. contentStore' \in Content \cup {Absent} /\ shared' \in BOOLEAN
  BY <1>2, StoreObjectUpdateType
     DEF PatchBeingDeleted, StoreContent, TypeOK, CommonTypeOK, Replies
<1>5. budget' \in [Faults -> Nat] /\ lapses' \subseteq Lapses
  BY SpendType DEF PatchBeingDeleted, Note, Lapses, TypeOK, OthersTypeOK, Answer,
                   Spend, Faults
<1> QED BY <1>3, <1>4, <1>5

\* SetAnnVolumeSnapshotBeingDeleted keeps the types.
LEMMA TypeSetAnnVolumeSnapshotBeingDeleted ==
    ASSUME TypeOK, NEW reply \in Replies, SetAnnVolumeSnapshotBeingDeleted(reply)
    PROVE  TypeOK'
<1>1. sw.anns \in SUBSET Annotations /\ sw.snap \in Snapshot
  BY SnapshotWorkFields DEF SetAnnVolumeSnapshotBeingDeleted, TypeOK, CommonTypeOK
<1>2. /\ ApiTypeOK'
      /\ contentStore' \in Content \cup {Absent} /\ shared' \in BOOLEAN
      /\ budget' \in [Faults -> Nat] /\ lapses' \subseteq Lapses
  BY <1>1, TypePatchBeingDeleted DEF SetAnnVolumeSnapshotBeingDeleted
<1>3. CommonTypeOK'
  BY <1>1, <1>2, DisposeType, IdleTypes
     DEF SetAnnVolumeSnapshotBeingDeleted, TypeOK, CommonTypeOK, RetrySnapshot,
         NotSnapshotWorker
<1>4. SidecarTypeOK'
  BY DEF SetAnnVolumeSnapshotBeingDeleted, NotSnapshotWorker, sidecar, TypeOK,
         SidecarTypeOK
<1>5. OthersTypeOK'
  BY <1>2 DEF SetAnnVolumeSnapshotBeingDeleted, NotSnapshotWorker, restore,
              TypeOK, OthersTypeOK
<1> QED BY <1>2, <1>3, <1>4, <1>5 DEF TypeOK

\* DeleteContent keeps the types.
LEMMA TypeDeleteContent ==
    ASSUME TypeOK, NEW reply \in Replies, DeleteContent(reply)
    PROVE  TypeOK'
<1> DEFINE new == NextContent([vsc EXCEPT !.deleting = TRUE])
<1>1. reply # "error" => vsc # Absent
  BY DEF DeleteContent, Answer, Replies
<1>2. reply # "error" => new \in Content
  BY <1>1, NextContentType, ContentFields DEF TypeOK, ApiTypeOK
<1>3. ApiTypeOK'
  BY <1>2, ContentFields DEF DeleteContent, PutContent, TypeOK, ApiTypeOK
<1>4. [sw EXCEPT !.pc = "removeFinalizer"] \in SnapshotWork
  BY SnapshotWorkFields, AbsentAssumption DEF DeleteContent, TypeOK, CommonTypeOK
<1>5. CommonTypeOK'
  BY <1>4, IdleTypes DEF DeleteContent, TypeOK, CommonTypeOK, RetrySnapshot,
                         NotSnapshotWorker
<1>6. SidecarTypeOK'
  BY DEF DeleteContent, NotSnapshotWorker, sidecar, TypeOK, SidecarTypeOK
<1>7. OthersTypeOK'
  BY SpendType DEF DeleteContent, NotSnapshotWorker, restore, TypeOK,
                   OthersTypeOK, Answer, Spend, Faults
<1> QED BY <1>3, <1>5, <1>6, <1>7 DEF TypeOK

-----------------------------------------------------------------------------
(***************************************************************************)
(* Type correctness: the content worker.                                   *)
(***************************************************************************)

\* ForgetContent keeps the types.
LEMMA TypeForgetContent == ASSUME TypeOK, ForgetContent PROVE TypeOK'
<1>1. ApiTypeOK' /\ SidecarTypeOK' /\ OthersTypeOK'
  BY DEF ForgetContent, NotContentWorker, sidecar, restore, TypeOK, ApiTypeOK,
         SidecarTypeOK, OthersTypeOK
<1>2. CommonTypeOK'
  BY DEF ForgetContent, NotContentWorker, TypeOK, CommonTypeOK
<1> QED BY <1>1, <1>2 DEF TypeOK

\* IgnoreOldContent keeps the types.
LEMMA TypeIgnoreOldContent == ASSUME TypeOK, IgnoreOldContent PROVE TypeOK'
<1>1. ApiTypeOK' /\ SidecarTypeOK' /\ OthersTypeOK'
  BY DEF IgnoreOldContent, NotContentWorker, sidecar, restore, TypeOK, ApiTypeOK,
         SidecarTypeOK, OthersTypeOK
<1>2. CommonTypeOK'
  BY DEF IgnoreOldContent, NotContentWorker, TypeOK, CommonTypeOK
<1> QED BY <1>1, <1>2 DEF TypeOK

\* SyncContent keeps the types.
LEMMA TypeSyncContent == ASSUME TypeOK, SyncContent PROVE TypeOK'
<1> DEFINE marked == [contentLister EXCEPT !.anns = @ \cup {"BeingDeleted"}]
<1>1. contentLister \in Content
  BY DEF SyncContent, TypeOK, CommonTypeOK
<1>2. marked \in Content
  BY <1>1, ContentFields DEF Annotations
<1>3. ApiTypeOK' /\ SidecarTypeOK' /\ OthersTypeOK'
  BY DEF SyncContent, NotContentWorker, sidecar, restore, TypeOK, ApiTypeOK,
         SidecarTypeOK, OthersTypeOK
<1>4. contentStore' \in Content /\ contentLister' \in Content
  BY <1>1, <1>2 DEF SyncContent
<1>5. cw' \in ContentWork
  <2>1. \A a \in SUBSET Annotations : /\ [pc |-> "addFinalizer", anns |-> a] \in ContentWork
                                      /\ [pc |-> "annotate", anns |-> a] \in ContentWork
    BY DEF ContentWork, ContentPC
  <2>2. contentLister.anns \in SUBSET Annotations /\ marked.anns \in SUBSET Annotations
    BY <1>1, <1>2, ContentFields
  <2> QED BY <2>1, <2>2, IdleTypes DEF SyncContent
<1>6. CommonTypeOK'
  BY <1>4, <1>5 DEF SyncContent, NotContentWorker, TypeOK, CommonTypeOK
<1> QED BY <1>3, <1>6 DEF TypeOK

\* AddContentFinalizer keeps the types.
LEMMA TypeAddContentFinalizer ==
    ASSUME TypeOK, NEW reply \in Replies, AddContentFinalizer(reply)
    PROVE  TypeOK'
<1> DEFINE new == NextContent([vsc EXCEPT !.fin = TRUE])
<1>1. reply # "error" => vsc # Absent
  BY DEF AddContentFinalizer, Answer, Replies
<1>2. reply # "error" => new \in Content
  BY <1>1, NextContentType, ContentFields DEF TypeOK, ApiTypeOK
<1>3. ApiTypeOK'
  BY <1>2, ContentFields DEF AddContentFinalizer, PutContent, NotContentWorker,
                             TypeOK, ApiTypeOK
<1>4. CommonTypeOK'
  BY <1>2, StoreObjectUpdateType, IdleTypes
     DEF AddContentFinalizer, StoreContent, RetryContent, ContentDone,
         NotContentWorker, TypeOK, CommonTypeOK, Replies
<1>5. SidecarTypeOK'
  BY DEF AddContentFinalizer, NotContentWorker, sidecar, TypeOK, SidecarTypeOK
<1>6. OthersTypeOK'
  BY SpendType DEF AddContentFinalizer, NotContentWorker, restore, TypeOK,
                   OthersTypeOK, Answer, Spend, Faults
<1> QED BY <1>3, <1>4, <1>5, <1>6 DEF TypeOK

\* AnnotateContent keeps the types.
LEMMA TypeAnnotateContent ==
    ASSUME TypeOK, NEW reply \in Replies, AnnotateContent(reply)
    PROVE  TypeOK'
<1>1. cw.anns \in SUBSET Annotations
  BY DEF TypeOK, CommonTypeOK, ContentWork
<1>2. /\ ApiTypeOK'
      /\ contentStore' \in Content \cup {Absent} /\ shared' \in BOOLEAN
      /\ budget' \in [Faults -> Nat] /\ lapses' \subseteq Lapses
  BY <1>1, TypePatchBeingDeleted DEF AnnotateContent, NotContentWorker
<1>3. CommonTypeOK'
  BY <1>2, IdleTypes DEF AnnotateContent, RetryContent, ContentDone,
                         NotContentWorker, TypeOK, CommonTypeOK
<1>4. SidecarTypeOK'
  BY DEF AnnotateContent, NotContentWorker, sidecar, TypeOK, SidecarTypeOK
<1>5. OthersTypeOK'
  BY <1>2 DEF AnnotateContent, NotContentWorker, restore, TypeOK, OthersTypeOK
<1> QED BY <1>2, <1>3, <1>4, <1>5 DEF TypeOK

-----------------------------------------------------------------------------
(***************************************************************************)
(* Type correctness: the sidecar.                                          *)
(***************************************************************************)

\* SidecarSync, the sidecar's syncContent, yields a call of the sidecar.
LEMMA SidecarSyncType == \A c : SidecarSync(c) \in SidecarPC
<1> TAKE c
<1>1. CASE ShouldDelete(c)
  BY <1>1, Zenon DEF SidecarSync, SidecarPC
<1>2. CASE ~ShouldDelete(c) /\ c.status # "ready"
  BY <1>2, Zenon DEF SidecarSync, SidecarPC
<1>3. CASE ~ShouldDelete(c) /\ c.status = "ready"
  BY <1>3, Zenon DEF SidecarSync, SidecarPC
<1> QED BY <1>1, <1>2, <1>3

\* What the sidecar's next call is, and with what in hand.
LEMMA GoType ==
    \A p \in SidecarPC, t \in ContentStatus :
       [SidecarIdle EXCEPT !.pc = p, !.status = t] \in SidecarWork
  BY DEF SidecarIdle, SidecarWork

\* ForgetSidecarContent keeps the types.
LEMMA TypeForgetSidecarContent == ASSUME TypeOK, ForgetSidecarContent PROVE TypeOK'
<1>1. ApiTypeOK' /\ SidecarTypeOK' /\ OthersTypeOK'
  BY DEF ForgetSidecarContent, NotSidecarWorker, restore, TypeOK, ApiTypeOK,
         SidecarTypeOK, OthersTypeOK, NoVersion
<1>2. CommonTypeOK'
  BY DEF ForgetSidecarContent, NotSidecarWorker, common, TypeOK, CommonTypeOK
<1> QED BY <1>1, <1>2 DEF TypeOK

\* IgnoreOldSidecarContent keeps the types.
LEMMA TypeIgnoreOldSidecarContent ==
    ASSUME TypeOK, IgnoreOldSidecarContent PROVE TypeOK'
<1>1. ApiTypeOK' /\ SidecarTypeOK' /\ OthersTypeOK'
  BY DEF IgnoreOldSidecarContent, NotSidecarWorker, restore, TypeOK, ApiTypeOK,
         SidecarTypeOK, OthersTypeOK
<1>2. CommonTypeOK'
  BY DEF IgnoreOldSidecarContent, NotSidecarWorker, common, TypeOK, CommonTypeOK
<1> QED BY <1>1, <1>2 DEF TypeOK

\* SyncSidecarContent keeps the types.
LEMMA TypeSyncSidecarContent == ASSUME TypeOK, SyncSidecarContent PROVE TypeOK'
<1>1. sidecarLister \in Content
  BY DEF SyncSidecarContent, TypeOK, SidecarTypeOK
<1>2. dw' \in SidecarWork
  BY <1>1, ContentFields, SidecarSyncType
     DEF SyncSidecarContent, SidecarWork, ContentStatus
<1>3. SidecarTypeOK'
  BY <1>1, <1>2, ContentFields DEF SyncSidecarContent, NotSidecarWorker, TypeOK,
                                   SidecarTypeOK
<1>4. ApiTypeOK' /\ OthersTypeOK'
  BY DEF SyncSidecarContent, NotSidecarWorker, restore, TypeOK, ApiTypeOK,
         OthersTypeOK
<1>5. CommonTypeOK'
  BY DEF SyncSidecarContent, NotSidecarWorker, common, TypeOK, CommonTypeOK
<1> QED BY <1>3, <1>4, <1>5 DEF TypeOK

\* SetAnnVolumeSnapshotBeingCreated keeps the types.
LEMMA TypeSetAnnVolumeSnapshotBeingCreated ==
    ASSUME TypeOK, NEW reply \in Replies, SetAnnVolumeSnapshotBeingCreated(reply)
    PROVE  TypeOK'
<1> DEFINE anns == dw.anns \cup {"BeingCreated"}
           new  == NextContent([vsc EXCEPT !.anns = anns])
<1>1. dw \in SidecarWork /\ dw.status \in ContentStatus /\ anns \in SUBSET Annotations
  BY SidecarWorkFields DEF TypeOK, SidecarTypeOK, Annotations
<1>2. reply # "error" => vsc # Absent
  BY DEF SetAnnVolumeSnapshotBeingCreated, Answer, Replies
<1>3. reply # "error" => new \in Content
  BY <1>1, <1>2, NextContentType, ContentFields DEF TypeOK, ApiTypeOK
<1>4. ApiTypeOK'
  BY <1>3, ContentFields DEF SetAnnVolumeSnapshotBeingCreated, PutContent,
                             NotSidecarWorker, TypeOK, ApiTypeOK
<1>5. SidecarTypeOK'
  BY <1>1, <1>3, ContentFields, GoType
     DEF SetAnnVolumeSnapshotBeingCreated, Go, StoreInSidecar, KeepSidecarStore,
         NotSidecarWorker, TypeOK, SidecarTypeOK, SidecarPC, Replies
<1>6. CommonTypeOK'
  BY DEF SetAnnVolumeSnapshotBeingCreated, NotSidecarWorker, common, TypeOK,
         CommonTypeOK
<1>7. OthersTypeOK'
  BY SpendType DEF SetAnnVolumeSnapshotBeingCreated, NotSidecarWorker, restore,
                   TypeOK, OthersTypeOK, Note, Lapses, Answer, Spend, Faults
<1> QED BY <1>4, <1>5, <1>6, <1>7 DEF TypeOK

\* CallCreate keeps the types.
LEMMA TypeCallCreate ==
    ASSUME TypeOK, NEW result, CallCreate(result) PROVE TypeOK'
<1>1. dw \in SidecarWork
  BY DEF TypeOK, SidecarTypeOK
<1>2. ApiTypeOK'
  BY DEF CallCreate, NotSidecarWorker, TypeOK, ApiTypeOK
<1>3. SidecarTypeOK'
  BY <1>1, SidecarWorkFields DEF CallCreate, NotSidecarWorker, TypeOK,
                                 SidecarTypeOK, SidecarPC
<1>4. CommonTypeOK'
  BY DEF CallCreate, NotSidecarWorker, common, TypeOK, CommonTypeOK
<1>5. OthersTypeOK'
  BY SpendType DEF CallCreate, NoteUnprotected, Note, Lapses, AfterTimeout,
                   Storage, NotSidecarWorker, restore, TypeOK, OthersTypeOK,
                   Spend, Faults
<1> QED BY <1>2, <1>3, <1>4, <1>5 DEF TypeOK

\* UpdateSnapshotContentStatus keeps the types.
LEMMA TypeUpdateSnapshotContentStatus ==
    ASSUME TypeOK, NEW reply \in Replies, UpdateSnapshotContentStatus(reply)
    PROVE  TypeOK'
<1> DEFINE status == IF dw.ready THEN "ready" ELSE "cut"
           new == NextContent([vsc EXCEPT !.status = status])
<1>1. dw \in SidecarWork /\ dw.status \in ContentStatus /\ status \in ContentStatus
  BY SidecarWorkFields DEF TypeOK, SidecarTypeOK, ContentStatus
<1>2. reply # "error" => vsc # Absent
  BY DEF UpdateSnapshotContentStatus, Answer, Replies
<1>3. reply # "error" => new \in Content
  BY <1>1, <1>2, NextContentType, ContentFields DEF TypeOK, ApiTypeOK
<1>4. ApiTypeOK'
  BY <1>3, ContentFields DEF UpdateSnapshotContentStatus, PutContent,
                             NotSidecarWorker, TypeOK, ApiTypeOK
<1>5. SidecarTypeOK'
  BY <1>1, <1>3, ContentFields, GoType, IdleTypes
     DEF UpdateSnapshotContentStatus, Go, FinishCreate, StoreInSidecar,
         KeepSidecarStore, SidecarDone, RetrySidecar, NotSidecarWorker, TypeOK,
         SidecarTypeOK, SidecarPC, Replies
<1>6. CommonTypeOK'
  BY DEF UpdateSnapshotContentStatus, NotSidecarWorker, common, TypeOK,
         CommonTypeOK
<1>7. OthersTypeOK'
  BY SpendType DEF UpdateSnapshotContentStatus, NotSidecarWorker, restore, TypeOK,
                   OthersTypeOK, Answer, Spend, Faults
<1> QED BY <1>4, <1>5, <1>6, <1>7 DEF TypeOK

\* RemoveAnnVolumeSnapshotBeingCreated keeps the types.
LEMMA TypeRemoveAnnVolumeSnapshotBeingCreated ==
    ASSUME TypeOK, NEW reply \in Replies, RemoveAnnVolumeSnapshotBeingCreated(reply)
    PROVE  TypeOK'
<1> DEFINE anns == vsc.anns \ {"BeingCreated"}
           new == NextContent([vsc EXCEPT !.anns = anns])
<1>1. dw \in SidecarWork /\ dw.status \in ContentStatus
  BY SidecarWorkFields DEF TypeOK, SidecarTypeOK
<1>2. reply # "error" => vsc # Absent
  BY DEF RemoveAnnVolumeSnapshotBeingCreated, Answer, Replies
<1>3. reply # "error" => anns \in SUBSET Annotations
  BY <1>2, ContentFields DEF TypeOK, ApiTypeOK
<1>4. reply # "error" => [vsc EXCEPT !.anns = anns] \in Content
  BY <1>2, <1>3, ContentFields DEF TypeOK, ApiTypeOK
<1>5. reply # "error" => new \in Content
  BY <1>4, NextContentType DEF TypeOK
<1>6. ApiTypeOK'
  BY <1>5, ContentFields DEF RemoveAnnVolumeSnapshotBeingCreated, PutContent,
                             NotSidecarWorker, TypeOK, ApiTypeOK
<1>7. SidecarTypeOK'
  <2>1. reply = "ok" => new.rv \in Nat /\ new.status \in ContentStatus
    BY <1>5, ContentFields
  <2> HIDE DEF new
  <2>2. dw' \in SidecarWork
    <3> DEFINE Report(status) ==
                 [SidecarIdle EXCEPT !.pc = "errorStatus", !.status = status]
    <3>1. \/ dw' = SidecarIdle
          \/ dw' = Report(dw.status)
          \/ reply = "ok" /\ dw' = Report(new.status)
      BY Zenon DEF RemoveAnnVolumeSnapshotBeingCreated, Go, FinishCreate,
                   SidecarDone, RetrySidecar, new
    <3>2. \A status \in ContentStatus : Report(status) \in SidecarWork
      BY GoType DEF SidecarPC
    <3> QED BY <1>1, <2>1, <3>1, <3>2, IdleTypes
  <2>3. sidecarStore' \in Nat
    BY <2>1 DEF RemoveAnnVolumeSnapshotBeingCreated, FinishCreate, StoreInSidecar,
                KeepSidecarStore, TypeOK, SidecarTypeOK, new
  <2>4. sidecarQueue' \in BOOLEAN
    BY DEF RemoveAnnVolumeSnapshotBeingCreated, Go, FinishCreate, SidecarDone,
           RetrySidecar, TypeOK, SidecarTypeOK
  <2> QED BY <2>2, <2>3, <2>4 DEF RemoveAnnVolumeSnapshotBeingCreated,
                                  NotSidecarWorker, TypeOK, SidecarTypeOK
<1>8. CommonTypeOK'
  BY DEF RemoveAnnVolumeSnapshotBeingCreated, NotSidecarWorker, common, TypeOK,
         CommonTypeOK
<1>9. OthersTypeOK'
  BY SpendType DEF RemoveAnnVolumeSnapshotBeingCreated, NotSidecarWorker, restore,
                   TypeOK, OthersTypeOK, Answer, Spend, Faults
<1> QED BY <1>6, <1>7, <1>8, <1>9 DEF TypeOK

\* UpdateContentErrorStatus keeps the types.
LEMMA TypeUpdateContentErrorStatus ==
    ASSUME TypeOK, NEW reply \in Replies, UpdateContentErrorStatus(reply)
    PROVE  TypeOK'
<1> DEFINE status == IF ~(dw.status = "nil") /\ HasHandle(vsc) THEN "cut" ELSE "error"
           new == NextContent([vsc EXCEPT !.status = status])
<1>1. status \in ContentStatus
  BY DEF ContentStatus
<1>2. reply # "error" => vsc # Absent
  BY DEF UpdateContentErrorStatus, Answer, Replies
<1>3. reply # "error" => new \in Content
  BY <1>1, <1>2, NextContentType, ContentFields DEF TypeOK, ApiTypeOK
<1>4. ApiTypeOK'
  BY <1>3, ContentFields DEF UpdateContentErrorStatus, PutContent,
                             NotSidecarWorker, TypeOK, ApiTypeOK
<1>5. SidecarTypeOK'
  BY <1>3, ContentFields, IdleTypes
     DEF UpdateContentErrorStatus, StoreInSidecar, KeepSidecarStore, RetrySidecar,
         NotSidecarWorker, TypeOK, SidecarTypeOK, Replies
<1>6. CommonTypeOK'
  BY DEF UpdateContentErrorStatus, NotSidecarWorker, common, TypeOK, CommonTypeOK
<1>7. OthersTypeOK'
  BY SpendType DEF UpdateContentErrorStatus, NotSidecarWorker, restore, TypeOK,
                   OthersTypeOK, Answer, Spend, Faults
<1> QED BY <1>4, <1>5, <1>6, <1>7 DEF TypeOK

\* KeepContentErrorStatus keeps the types.
LEMMA TypeKeepContentErrorStatus ==
    ASSUME TypeOK, KeepContentErrorStatus PROVE TypeOK'
<1>1. ApiTypeOK' /\ SidecarTypeOK' /\ OthersTypeOK'
  BY IdleTypes DEF KeepContentErrorStatus, RetrySidecar, NotSidecarWorker, restore,
                   TypeOK, ApiTypeOK, SidecarTypeOK, OthersTypeOK
<1>2. CommonTypeOK'
  BY DEF KeepContentErrorStatus, NotSidecarWorker, common, TypeOK, CommonTypeOK
<1> QED BY <1>1, <1>2 DEF TypeOK

\* CallDelete keeps the types.
LEMMA TypeCallDelete ==
    ASSUME TypeOK, NEW result, CallDelete(result) PROVE TypeOK'
<1>1. dw \in SidecarWork
  BY DEF TypeOK, SidecarTypeOK
<1>2. ApiTypeOK'
  BY DEF CallDelete, NotSidecarWorker, TypeOK, ApiTypeOK
<1>3. SidecarTypeOK'
  BY <1>1, SidecarWorkFields, IdleTypes
     DEF CallDelete, RetrySidecar, NotSidecarWorker, TypeOK, SidecarTypeOK,
         SidecarPC
<1>4. CommonTypeOK'
  BY DEF CallDelete, NotSidecarWorker, common, TypeOK, CommonTypeOK
<1>5. OthersTypeOK'
  BY SpendType DEF CallDelete, Storage, NotSidecarWorker, restore, TypeOK,
                   OthersTypeOK, Spend, Faults
<1> QED BY <1>2, <1>3, <1>4, <1>5 DEF TypeOK

\* ClearVolumeContentStatus keeps the types.
LEMMA TypeClearVolumeContentStatus ==
    ASSUME TypeOK, NEW reply \in Replies, ClearVolumeContentStatus(reply)
    PROVE  TypeOK'
<1> DEFINE status == IF vsc.status = "nil" THEN "nil" ELSE "cleared"
           new == NextContent([vsc EXCEPT !.status = status])
<1>1. status \in ContentStatus
  BY DEF ContentStatus
<1>2. reply # "error" => vsc # Absent
  BY DEF ClearVolumeContentStatus, Answer, Replies
<1>3. reply # "error" => [vsc EXCEPT !.status = status] \in Content
  BY <1>1, <1>2, ContentFields DEF TypeOK, ApiTypeOK
<1>4. reply # "error" => new \in Content
  BY <1>3, NextContentType DEF TypeOK
<1>5. ApiTypeOK'
  BY <1>4, ContentFields DEF ClearVolumeContentStatus, PutContent,
                             NotSidecarWorker, TypeOK, ApiTypeOK
<1>6. SidecarTypeOK'
  BY GoType, IdleTypes
     DEF ClearVolumeContentStatus, Go, SidecarDone, RetrySidecar,
         NotSidecarWorker, TypeOK, SidecarTypeOK, SidecarPC, ContentStatus
<1>7. CommonTypeOK'
  BY DEF ClearVolumeContentStatus, NotSidecarWorker, common, TypeOK, CommonTypeOK
<1>8. OthersTypeOK'
  BY SpendType DEF ClearVolumeContentStatus, NotSidecarWorker, restore, TypeOK,
                   OthersTypeOK, Answer, Spend, Faults
<1> QED BY <1>5, <1>6, <1>7, <1>8 DEF TypeOK

\* RemoveContentFinalizer keeps the types.
LEMMA TypeRemoveContentFinalizer ==
    ASSUME TypeOK, NEW reply \in Replies, RemoveContentFinalizer(reply)
    PROVE  TypeOK'
<1> DEFINE new == NextContent([vsc EXCEPT !.fin = FALSE])
<1>1. reply # "error" => vsc # Absent
  BY DEF RemoveContentFinalizer, Answer, Replies
<1>2. reply # "error" => new \in Content
  BY <1>1, NextContentType, ContentFields DEF TypeOK, ApiTypeOK
<1>3. ApiTypeOK'
  BY <1>2, ContentFields DEF RemoveContentFinalizer, PutContent,
                             NotSidecarWorker, TypeOK, ApiTypeOK
<1>4. SidecarTypeOK'
  BY <1>2, ContentFields, IdleTypes
     DEF RemoveContentFinalizer, StoreInSidecar, KeepSidecarStore, SidecarDone,
         RetrySidecar, NotSidecarWorker, TypeOK, SidecarTypeOK, Replies
<1>5. CommonTypeOK'
  BY DEF RemoveContentFinalizer, NotSidecarWorker, common, TypeOK, CommonTypeOK
<1>6. OthersTypeOK'
  BY SpendType DEF RemoveContentFinalizer, NotSidecarWorker, restore, TypeOK,
                   OthersTypeOK, Answer, Spend, Faults
<1> QED BY <1>3, <1>4, <1>5, <1>6 DEF TypeOK

-----------------------------------------------------------------------------
(***************************************************************************)
(* Type correctness: informers and environment.                            *)
(***************************************************************************)

\* Deliver keeps the types.
LEMMA TypeDeliver == ASSUME TypeOK, Deliver PROVE TypeOK'
<1>1. ApiTypeOK' /\ OthersTypeOK'
  BY DEF Deliver, DeliverSnapshot, DeliverContent, DeliverToSidecar, DeliverPVC,
         api, restore, TypeOK, ApiTypeOK, OthersTypeOK
<1>2. CommonTypeOK'
  BY DEF Deliver, DeliverSnapshot, DeliverContent, DeliverToSidecar, DeliverPVC,
         common, TypeOK, ApiTypeOK, CommonTypeOK
<1>3. SidecarTypeOK'
  BY DEF Deliver, DeliverSnapshot, DeliverContent, DeliverToSidecar, DeliverPVC,
         sidecar, TypeOK, ApiTypeOK, SidecarTypeOK
<1> QED BY <1>1, <1>2, <1>3 DEF TypeOK

\* Resync keeps the types.
LEMMA TypeResync == ASSUME TypeOK, Resync PROVE TypeOK'
<1>1. ApiTypeOK' /\ CommonTypeOK' /\ SidecarTypeOK'
  BY DEF Resync, api, TypeOK, ApiTypeOK, CommonTypeOK, SidecarTypeOK
<1>2. OthersTypeOK'
  BY SpendType DEF Resync, Spend, Faults, restore, TypeOK, OthersTypeOK
<1> QED BY <1>1, <1>2 DEF TypeOK

\* UserDeletesSnapshot keeps the types.
LEMMA TypeUserDeletesSnapshot == ASSUME TypeOK, UserDeletesSnapshot PROVE TypeOK'
<1> DEFINE new == NextSnapshot([vs EXCEPT !.deleting = TRUE])
<1>1. new \in Snapshot
  BY NextSnapshotType, SnapshotFields DEF UserDeletesSnapshot, TypeOK, ApiTypeOK
<1>2. ApiTypeOK'
  BY <1>1 DEF UserDeletesSnapshot, PutSnapshot, TypeOK, ApiTypeOK
<1>3. CommonTypeOK' /\ SidecarTypeOK'
  BY DEF UserDeletesSnapshot, common, sidecar, TypeOK, CommonTypeOK, SidecarTypeOK
<1>4. OthersTypeOK'
  BY SpendType DEF UserDeletesSnapshot, Spend, Faults, restore, TypeOK, OthersTypeOK
<1> QED BY <1>2, <1>3, <1>4 DEF TypeOK

\* AdminDeletesContent keeps the types.
LEMMA TypeAdminDeletesContent == ASSUME TypeOK, AdminDeletesContent PROVE TypeOK'
<1> DEFINE new == NextContent([vsc EXCEPT !.deleting = TRUE])
<1>1. new \in Content
  BY NextContentType, ContentFields DEF AdminDeletesContent, TypeOK, ApiTypeOK
<1>2. ApiTypeOK'
  BY <1>1, ContentFields DEF AdminDeletesContent, PutContent, TypeOK, ApiTypeOK
<1>3. CommonTypeOK' /\ SidecarTypeOK'
  BY DEF AdminDeletesContent, common, sidecar, TypeOK, CommonTypeOK, SidecarTypeOK
<1>4. OthersTypeOK'
  BY SpendType DEF AdminDeletesContent, Spend, Faults, restore, TypeOK, OthersTypeOK
<1> QED BY <1>2, <1>3, <1>4 DEF TypeOK

\* StartRestore and EndRestore keep the types.
LEMMA TypeRestore == ASSUME TypeOK, StartRestore \/ EndRestore PROVE TypeOK'
<1>1. ApiTypeOK' /\ CommonTypeOK' /\ SidecarTypeOK'
  BY DEF StartRestore, EndRestore, api, common, sidecar, TypeOK, ApiTypeOK,
         CommonTypeOK, SidecarTypeOK
<1>2. OthersTypeOK'
  BY SpendType DEF StartRestore, EndRestore, Spend, Faults, TypeOK, OthersTypeOK
<1> QED BY <1>1, <1>2 DEF TypeOK

\* DriverCompletes keeps the types.
LEMMA TypeDriverCompletes == ASSUME TypeOK, DriverCompletes PROVE TypeOK'
<1>1. ApiTypeOK' /\ CommonTypeOK' /\ SidecarTypeOK'
  BY DEF DriverCompletes, api, common, sidecar, TypeOK, ApiTypeOK, CommonTypeOK,
         SidecarTypeOK
<1>2. OthersTypeOK'
  BY DEF DriverCompletes, restore, Storage, TypeOK, OthersTypeOK
<1> QED BY <1>1, <1>2 DEF TypeOK

\* RestartCommon keeps the types.
LEMMA TypeRestartCommon == ASSUME TypeOK, RestartCommon PROVE TypeOK'
<1>1. ApiTypeOK' /\ SidecarTypeOK'
  BY DEF RestartCommon, api, sidecar, TypeOK, ApiTypeOK, SidecarTypeOK
<1>2. CommonTypeOK'
  BY IdleTypes DEF RestartCommon, TypeOK, ApiTypeOK, CommonTypeOK, OthersTypeOK
<1>3. OthersTypeOK'
  BY SpendType DEF RestartCommon, Spend, Faults, TypeOK, OthersTypeOK
<1> QED BY <1>1, <1>2, <1>3 DEF TypeOK

\* RestartSidecar keeps the types.
LEMMA TypeRestartSidecar == ASSUME TypeOK, RestartSidecar PROVE TypeOK'
<1>1. ApiTypeOK' /\ CommonTypeOK'
  BY DEF RestartSidecar, api, common, TypeOK, ApiTypeOK, CommonTypeOK
<1>2. SidecarTypeOK'
  BY IdleTypes, ContentFields DEF RestartSidecar, NoVersion, TypeOK, ApiTypeOK,
                                  SidecarTypeOK
<1>3. OthersTypeOK'
  BY SpendType DEF RestartSidecar, Spend, Faults, NoteUnprotected, Note, Lapses,
                   AfterTimeout, Storage, restore, TypeOK, OthersTypeOK
<1> QED BY <1>1, <1>2, <1>3 DEF TypeOK

\* The initial state has the types.
LEMMA TypeInit == Init => TypeOK
<1> SUFFICES ASSUME Init PROVE TypeOK
  OBVIOUS
<1>1. ApiTypeOK
  BY DEF Init, ApiTypeOK, Snapshot, SnapshotFinalizers, NoVersion
<1>2. CommonTypeOK
  BY IdleTypes DEF Init, CommonTypeOK
<1>3. SidecarTypeOK
  BY IdleTypes DEF Init, SidecarTypeOK, NoVersion
<1>4. OthersTypeOK
  BY BudgetAssumption DEF Init, OthersTypeOK, Storage
<1> QED BY <1>1, <1>2, <1>3, <1>4 DEF TypeOK

\* SnapshotWorker keeps the types.
LEMMA TypeSnapshotWorker == ASSUME TypeOK, SnapshotWorker PROVE TypeOK'
<1>1. CASE ForgetSnapshot \/ IgnoreOldSnapshot \/ SyncSnapshot \/ SyncDeletedSnapshot
  BY <1>1, TypeForgetSnapshot, TypeIgnoreOldSnapshot, TypeSyncSnapshot,
     TypeSyncDeletedSnapshot
<1>2. CASE FailBind
  BY <1>2, TypeFailBind
<1>3. ASSUME NEW reply \in Replies, SnapshotCall(reply) PROVE TypeOK'
  BY <1>3, TypeAddSnapshotFinalizer, TypeCreateSnapshotContent,
     TypeUpdateSnapshotStatus, TypeMarkMissing,
     TypeSetAnnVolumeSnapshotBeingDeleted, TypeDeleteContent,
     TypeRemoveSnapshotFinalizer DEF SnapshotCall
<1> QED BY <1>1, <1>2, <1>3 DEF SnapshotWorker

\* ContentWorker keeps the types.
LEMMA TypeContentWorker == ASSUME TypeOK, ContentWorker PROVE TypeOK'
  BY TypeForgetContent, TypeIgnoreOldContent, TypeSyncContent,
     TypeAddContentFinalizer, TypeAnnotateContent DEF ContentWorker

\* SidecarWorker keeps the types.
LEMMA TypeSidecarWorker == ASSUME TypeOK, SidecarWorker PROVE TypeOK'
<1>1. CASE ForgetSidecarContent \/ IgnoreOldSidecarContent \/ SyncSidecarContent
             \/ KeepContentErrorStatus
  BY <1>1, TypeForgetSidecarContent, TypeIgnoreOldSidecarContent,
     TypeSyncSidecarContent, TypeKeepContentErrorStatus
<1>2. ASSUME NEW result, CallCreate(result) \/ CallDelete(result) PROVE TypeOK'
  BY <1>2, TypeCallCreate, TypeCallDelete
<1>3. ASSUME NEW reply \in Replies, SidecarCall(reply) PROVE TypeOK'
  BY <1>3, TypeSetAnnVolumeSnapshotBeingCreated, TypeUpdateSnapshotContentStatus,
     TypeRemoveAnnVolumeSnapshotBeingCreated, TypeUpdateContentErrorStatus,
     TypeClearVolumeContentStatus, TypeRemoveContentFinalizer DEF SidecarCall
<1> QED BY <1>1, <1>2, <1>3 DEF SidecarWorker

\* Environment keeps the types.
LEMMA TypeEnvironment == ASSUME TypeOK, Environment PROVE TypeOK'
  BY TypeUserDeletesSnapshot, TypeAdminDeletesContent, TypeRestore,
     TypeDriverCompletes, TypeRestartCommon, TypeRestartSidecar DEF Environment

\* A stuttering step keeps the types.
LEMMA TypeStutter == ASSUME TypeOK, UNCHANGED vars PROVE TypeOK'
<1>1. ApiTypeOK' /\ CommonTypeOK'
  BY DEF vars, api, common, TypeOK, ApiTypeOK, CommonTypeOK
<1>2. SidecarTypeOK' /\ OthersTypeOK'
  BY DEF vars, sidecar, restore, TypeOK, SidecarTypeOK, OthersTypeOK
<1> QED BY <1>1, <1>2 DEF TypeOK

\* Every step keeps the types.
LEMMA TypeStep == TypeOK /\ [Next]_vars => TypeOK'
  BY TypeDeliver, TypeSnapshotWorker, TypeContentWorker, TypeSidecarWorker,
     TypeResync, TypeEnvironment, TypeStutter DEF Next

\* Every variable keeps its type, whatever faults happen.
THEOREM TypeCorrect == Spec => []TypeOK
  BY TypeInit, TypeStep, PTL DEF Spec

-----------------------------------------------------------------------------
(***************************************************************************)
(* Safety.  While nobody has asked for the deletion of the snapshot, every  *)
(* copy of every object is calm: no copy is marked for deletion, no worker  *)
(* tears anything down, and whoever says "ready" says the truth.            *)
(***************************************************************************)
CalmContent(c) ==
    c # Absent => /\ "BeingDeleted" \notin c.anns
                  /\ c.status = "ready" => storage = "ready"

CalmSnapshot(s) == s # Absent => ~s.deleting

ApiCalm ==
    /\ CalmContent(vsc)
    /\ vs # Absent /\ vs.ready => storage = "ready"

SnapshotCalm ==
    /\ CalmSnapshot(snapshotLister)
    /\ CalmSnapshot(snapshotStore)
    /\ CalmSnapshot(sw.snap)
    /\ sw.pc \notin {"annotate", "delete", "removeFinalizer"}
    /\ "BeingDeleted" \notin sw.anns
    /\ sw.ready => storage = "ready"

ContentCalm ==
    /\ CalmContent(contentLister)
    /\ CalmContent(contentStore)
    /\ cw.pc # "annotate"
    /\ "BeingDeleted" \notin cw.anns

SidecarCalm ==
    /\ CalmContent(sidecarLister)
    /\ dw.pc # "csiDelete"
    /\ "BeingDeleted" \notin dw.anns
    /\ dw.ready \/ dw.status = "ready" => storage = "ready"

Calm == ApiCalm /\ SnapshotCalm /\ ContentCalm /\ SidecarCalm

Wanted == TypeOK /\ ~Going /\ Calm

PolicyObeyed == dw.pc = "csiDelete" => Policy = "Delete"

\* SafetyInv, said of the two cases.
LEMMA SafetyByCases ==
    SafetyInv <=> TypeOK /\ PolicyObeyed /\ (Going \/ Calm)
<1>1. ASSUME Going
      PROVE  SafetyInv <=> TypeOK /\ PolicyObeyed
  BY <1>1 DEF SafetyInv, MarkedOnlyWhenGoing, TornDownOnlyWhenGoing, ReadyIsTrue,
              PolicyObeyed
<1>2. ASSUME ~Going
      PROVE  SafetyInv <=> TypeOK /\ PolicyObeyed /\ Calm
  <2>1. MarkedOnlyWhenGoing
          <=> /\ \A c \in {vsc, contentLister, contentStore, sidecarLister} :
                    c # Absent => "BeingDeleted" \notin c.anns
              /\ "BeingDeleted" \notin sw.anns
              /\ "BeingDeleted" \notin cw.anns
              /\ "BeingDeleted" \notin dw.anns
    BY <1>2 DEF MarkedOnlyWhenGoing, AnnotationCopies
  <2>2. TornDownOnlyWhenGoing
          <=> /\ CalmSnapshot(snapshotLister) /\ CalmSnapshot(snapshotStore)
              /\ CalmSnapshot(sw.snap)
              /\ sw.pc \notin {"annotate", "delete", "removeFinalizer"}
              /\ cw.pc # "annotate" /\ dw.pc # "csiDelete"
    BY <1>2 DEF TornDownOnlyWhenGoing, CalmSnapshot
  <2>3. ReadyIsTrue <=> (SaidReady => storage = "ready")
    BY <1>2 DEF ReadyIsTrue
  <2> QED BY <2>1, <2>2, <2>3
          DEF SafetyInv, PolicyObeyed, Calm, ApiCalm, SnapshotCalm, ContentCalm,
              SidecarCalm, CalmContent, SaidReady
<1> QED BY <1>1, <1>2

-----------------------------------------------------------------------------
(***************************************************************************)
(* What an update of an object leaves as it was.                           *)
(***************************************************************************)
\* Of an update of the snapshot.
LEMMA SnapshotUpdates ==
    ASSUME ApiTypeOK, vs # Absent
    PROVE  /\ \A b, r \in BOOLEAN :
                LET s == NextSnapshot([vs EXCEPT !.bound = b, !.ready = r])
                IN  s.deleting = vs.deleting /\ s.ready = r
           /\ \A r \in BOOLEAN : LET s == NextSnapshot([vs EXCEPT !.ready = r])
                                 IN  s.deleting = vs.deleting /\ s.ready = r
           /\ \A f \in SUBSET SnapshotFinalizers :
                LET s == NextSnapshot([vs EXCEPT !.fins = f])
                IN  s.deleting = vs.deleting /\ s.ready = vs.ready
  BY DEF NextSnapshot, ApiTypeOK, Snapshot

\* The server changes nothing but the version.
LEMMA NextContentFields ==
    ASSUME ApiTypeOK
    PROVE  \A c \in Content : LET d == NextContent(c)
                             IN  /\ d.anns = c.anns /\ d.status = c.status
                                 /\ d.deleting = c.deleting /\ d.fin = c.fin
                                 /\ d # Absent
  BY AbsentAssumption DEF NextContent, ApiTypeOK, Content

\* Of an update of the content.
LEMMA ContentUpdates ==
    ASSUME ApiTypeOK, vsc # Absent
    PROVE  /\ \A a \in SUBSET Annotations :
                LET c == NextContent([vsc EXCEPT !.anns = a])
                IN  c.anns = a /\ c.status = vsc.status /\ c # Absent
           /\ \A t \in ContentStatus :
                LET c == NextContent([vsc EXCEPT !.status = t])
                IN  c.anns = vsc.anns /\ c.status = t /\ c # Absent
           /\ \A b \in BOOLEAN :
                /\ LET c == NextContent([vsc EXCEPT !.deleting = b])
                   IN  c.anns = vsc.anns /\ c.status = vsc.status /\ c # Absent
                /\ LET c == NextContent([vsc EXCEPT !.fin = b])
                   IN  c.anns = vsc.anns /\ c.status = vsc.status /\ c # Absent
<1>1. vsc \in Content
  BY DEF ApiTypeOK
<1>2. /\ \A a : LET c == [vsc EXCEPT !.anns = a]
               IN  c.anns = a /\ c.status = vsc.status
      /\ \A t : LET c == [vsc EXCEPT !.status = t]
               IN  c.anns = vsc.anns /\ c.status = t
      /\ \A b : /\ LET c == [vsc EXCEPT !.deleting = b]
                  IN  c.anns = vsc.anns /\ c.status = vsc.status
               /\ LET c == [vsc EXCEPT !.fin = b]
                  IN  c.anns = vsc.anns /\ c.status = vsc.status
  BY <1>1 DEF Content
<1>3. ASSUME NEW a \in SUBSET Annotations
      PROVE  LET c == NextContent([vsc EXCEPT !.anns = a])
             IN  c.anns = a /\ c.status = vsc.status /\ c # Absent
  <2>1. [vsc EXCEPT !.anns = a] \in Content
    BY <1>1, ContentFields
  <2> QED BY <1>2, <2>1, NextContentFields
<1>4. ASSUME NEW t \in ContentStatus
      PROVE  LET c == NextContent([vsc EXCEPT !.status = t])
             IN  c.anns = vsc.anns /\ c.status = t /\ c # Absent
  <2>1. [vsc EXCEPT !.status = t] \in Content
    BY <1>1, ContentFields
  <2> QED BY <1>2, <2>1, NextContentFields
<1>5. ASSUME NEW b \in BOOLEAN
      PROVE  /\ LET c == NextContent([vsc EXCEPT !.deleting = b])
                IN  c.anns = vsc.anns /\ c.status = vsc.status /\ c # Absent
             /\ LET c == NextContent([vsc EXCEPT !.fin = b])
                IN  c.anns = vsc.anns /\ c.status = vsc.status /\ c # Absent
  <2>1. /\ [vsc EXCEPT !.deleting = b] \in Content
        /\ [vsc EXCEPT !.fin = b] \in Content
    BY <1>1, ContentFields
  <2> QED BY <1>2, <2>1, NextContentFields
<1> QED BY <1>3, <1>4, <1>5

\* A snapshot that is stored is being deleted exactly if what was put was.
LEMMA PutSnapshotGoing ==
    ASSUME NEW STATE s, s \in Snapshot, PutSnapshot(s)
    PROVE  (Going' <=> s.deleting) /\ (vs' # Absent => vs' = s)
  BY AbsentAssumption DEF PutSnapshot, Going

\* The deletion of a snapshot is never taken back.
LEMMA GoingStable == ASSUME TypeOK, Going, [Next]_vars PROVE Going'
<1>1. CASE UNCHANGED vs
  BY <1>1 DEF Going
<1>2. ASSUME NEW reply \in Replies, AddSnapshotFinalizer(reply) PROVE Going'
  BY <1>1, <1>2 DEF AddSnapshotFinalizer, Answer, Going, Replies
<1>3. ASSUME NEW reply \in Replies, UpdateSnapshotStatus(reply) PROVE Going'
  <2>1. CASE reply = "error"
    BY <1>1, <1>3, <2>1 DEF UpdateSnapshotStatus
  <2>2. CASE reply # "error"
    <3> DEFINE new == NextSnapshot([vs EXCEPT !.bound = TRUE, !.ready = sw.ready])
    <3>1. vs # Absent /\ vs.deleting /\ sw.ready \in BOOLEAN
      BY <1>3, <2>2, SnapshotWorkFields
         DEF UpdateSnapshotStatus, Answer, Going, Replies, TypeOK, CommonTypeOK
    <3>2. new \in Snapshot /\ new.deleting
      BY <3>1, NextSnapshotType, SnapshotUpdates, SnapshotFields
         DEF TypeOK, ApiTypeOK
    <3>3. PutSnapshot(new)
      BY <1>3, <2>2 DEF UpdateSnapshotStatus
    <3> QED BY <3>2, <3>3, PutSnapshotGoing
  <2> QED BY <2>1, <2>2
<1>4. ASSUME NEW reply \in Replies, MarkMissing(reply) PROVE Going'
  <2>1. CASE reply = "error"
    BY <1>1, <1>4, <2>1 DEF MarkMissing
  <2>2. CASE reply # "error"
    <3> DEFINE new == NextSnapshot([vs EXCEPT !.ready = FALSE])
    <3>1. vs # Absent /\ vs.deleting
      BY <1>4, <2>2 DEF MarkMissing, Answer, Going, Replies
    <3>2. new \in Snapshot /\ new.deleting
      BY <3>1, NextSnapshotType, SnapshotUpdates, SnapshotFields
         DEF TypeOK, ApiTypeOK
    <3>3. PutSnapshot(new)
      BY <1>4, <2>2 DEF MarkMissing
    <3> QED BY <3>2, <3>3, PutSnapshotGoing
  <2> QED BY <2>1, <2>2
<1>5. ASSUME NEW reply \in Replies, RemoveSnapshotFinalizer(reply) PROVE Going'
  <2>1. CASE reply = "error"
    BY <1>1, <1>5, <2>1 DEF RemoveSnapshotFinalizer
  <2>2. CASE reply # "error"
    <3> DEFINE left == IF sw.found /\ Policy = "Delete" THEN vs.fins \ {"AsSource"}
                       ELSE {}
               new == NextSnapshot([vs EXCEPT !.fins = left])
    <3>1. vs # Absent /\ vs.deleting
      BY <1>5, <2>2 DEF RemoveSnapshotFinalizer, Answer, Going, Replies
    <3>2. left \in SUBSET SnapshotFinalizers
      BY <3>1, SnapshotFields DEF TypeOK, ApiTypeOK
    <3>3. [vs EXCEPT !.fins = left] \in Snapshot
      BY <3>1, <3>2, SnapshotFields DEF TypeOK, ApiTypeOK
    <3>4. new \in Snapshot /\ new.deleting
      BY <3>1, <3>2, <3>3, NextSnapshotType, SnapshotUpdates DEF TypeOK
    <3>5. PutSnapshot(new)
      BY <1>5, <2>2 DEF RemoveSnapshotFinalizer
    <3> QED BY <3>4, <3>5, PutSnapshotGoing
  <2> QED BY <2>1, <2>2
<1>6. ASSUME FailBind PROVE Going'
  <2> DEFINE new == NextSnapshot([vs EXCEPT !.ready = FALSE])
  <2>1. vs # Absent /\ vs.deleting
    BY <1>6 DEF FailBind, Going
  <2>2. new \in Snapshot /\ new.deleting
    BY <2>1, NextSnapshotType, SnapshotUpdates, SnapshotFields DEF TypeOK, ApiTypeOK
  <2>3. PutSnapshot(new)
    BY <1>6 DEF FailBind
  <2> QED BY <2>2, <2>3, PutSnapshotGoing
<1>7. ASSUME UserDeletesSnapshot PROVE Going'
  BY <1>7 DEF UserDeletesSnapshot, Going
<1>8. CASE SnapshotWorker
  <2>1. ASSUME ForgetSnapshot \/ IgnoreOldSnapshot \/ SyncSnapshot
                 \/ SyncDeletedSnapshot
        PROVE  UNCHANGED vs
    BY <2>1 DEF ForgetSnapshot, IgnoreOldSnapshot, SyncSnapshot,
                SyncDeletedSnapshot, api
  <2>2. ASSUME NEW reply \in Replies,
               \/ CreateSnapshotContent(reply)
               \/ SetAnnVolumeSnapshotBeingDeleted(reply)
               \/ DeleteContent(reply)
        PROVE  UNCHANGED vs
    BY <2>2 DEF CreateSnapshotContent, SetAnnVolumeSnapshotBeingDeleted,
                DeleteContent
  <2> QED BY <1>1, <1>2, <1>3, <1>4, <1>5, <1>6, <1>8, <2>1, <2>2
          DEF SnapshotWorker, SnapshotCall
<1>9. CASE ContentWorker
  <2> UNCHANGED vs
    BY <1>9 DEF ContentWorker, ForgetContent, IgnoreOldContent, SyncContent,
                AddContentFinalizer, AnnotateContent, NotContentWorker
  <2> QED BY <1>1
<1>10. CASE SidecarWorker
  <2> UNCHANGED vs
    BY <1>10 DEF SidecarWorker, SidecarCall, ForgetSidecarContent,
                 IgnoreOldSidecarContent, SyncSidecarContent, CallCreate,
                 CallDelete, KeepContentErrorStatus,
                 SetAnnVolumeSnapshotBeingCreated, UpdateSnapshotContentStatus,
                 RemoveAnnVolumeSnapshotBeingCreated, UpdateContentErrorStatus,
                 ClearVolumeContentStatus, RemoveContentFinalizer,
                 NotSidecarWorker
  <2> QED BY <1>1
<1>11. CASE Deliver \/ Resync
  <2> UNCHANGED vs
    BY <1>11 DEF Deliver, DeliverSnapshot, DeliverContent, DeliverToSidecar,
                 DeliverPVC, Resync, api
  <2> QED BY <1>1
<1>12. CASE Environment
  <2>1. CASE UserDeletesSnapshot
    BY <1>7, <2>1
  <2>2. CASE ~UserDeletesSnapshot
    <3> UNCHANGED vs
      BY <1>12, <2>2 DEF Environment, AdminDeletesContent, StartRestore,
                         EndRestore, DriverCompletes, RestartCommon,
                         RestartSidecar, api
    <3> QED BY <1>1
  <2> QED BY <2>1, <2>2
<1>13. CASE UNCHANGED vars
  BY <1>1, <1>13 DEF vars, api
<1> QED BY <1>8, <1>9, <1>10, <1>11, <1>12, <1>13 DEF Next

-----------------------------------------------------------------------------
(***************************************************************************)
(* No step of the snapshot worker disturbs a snapshot that is wanted.       *)
(***************************************************************************)
\* A worker between two keys has nothing in hand.
LEMMA IdleFields ==
    /\ SnapshotIdle.snap = Absent /\ SnapshotIdle.anns = {}
    /\ SnapshotIdle.ready = FALSE /\ SnapshotIdle.pc = "idle"
    /\ ContentIdle.pc = "idle" /\ ContentIdle.anns = {}
    /\ SidecarIdle.pc = "idle" /\ SidecarIdle.anns = {}
    /\ SidecarIdle.status = "nil" /\ SidecarIdle.ready = FALSE
  BY DEF SnapshotIdle, ContentIdle, SidecarIdle

\* syncSnapshot tears nothing down, and repeats what the content says of
\* ReadyToUse.
LEMMA SyncStepFields ==
    ASSUME NEW s \in Snapshot, NEW c \in Content \cup {Absent}
    PROVE  LET w == SyncStep(s, c)
           IN  /\ w.pc \in {"missing", "idle", "create", "bind"}
               /\ w.snap \in {s, Absent} /\ w.anns = {}
               /\ w.ready => c # Absent /\ c.status = "ready"
  BY AbsentAssumption DEF SyncStep, SnapshotIdle

\* ForgetSnapshot leaves everything calm.
LEMMA CalmForgetSnapshot == ASSUME Wanted, ForgetSnapshot PROVE Calm'
  BY DEF Wanted, Calm, ApiCalm, SnapshotCalm, ContentCalm, SidecarCalm,
         CalmContent, CalmSnapshot, ForgetSnapshot, api, sidecar

\* IgnoreOldSnapshot leaves everything calm.
LEMMA CalmIgnoreOldSnapshot == ASSUME Wanted, IgnoreOldSnapshot PROVE Calm'
  BY DEF Wanted, Calm, ApiCalm, SnapshotCalm, ContentCalm, SidecarCalm,
         CalmContent, CalmSnapshot, IgnoreOldSnapshot, api, sidecar

\* SyncSnapshot leaves everything calm.
LEMMA CalmSyncSnapshot == ASSUME Wanted, SyncSnapshot PROVE Calm'
<1>1. ApiCalm' /\ ContentCalm' /\ SidecarCalm'
  BY DEF Wanted, Calm, ApiCalm, ContentCalm, SidecarCalm, CalmContent,
         SyncSnapshot, NotSnapshotWorker, api, sidecar
<1>2. snapshotLister \in Snapshot /\ ~snapshotLister.deleting
  BY DEF SyncSnapshot, TakeSnapshot, Wanted, TypeOK, CommonTypeOK
<1>3. ASSUME sw' = SyncStep(snapshotLister, contentStore) PROVE SnapshotCalm'
  <2>1. /\ sw'.pc \in {"missing", "idle", "create", "bind"}
        /\ sw'.snap \in {snapshotLister, Absent} /\ sw'.anns = {}
        /\ sw'.ready => contentStore # Absent /\ contentStore.status = "ready"
    BY <1>2, <1>3, SyncStepFields DEF Wanted, TypeOK, CommonTypeOK
  <2> QED BY <1>2, <2>1 DEF Wanted, Calm, SnapshotCalm, ContentCalm, CalmContent,
                            CalmSnapshot, SyncSnapshot, TakeSnapshot,
                            NotSnapshotWorker
<1>4. ASSUME NEW found \in BOOLEAN,
             sw' = [SnapshotIdle EXCEPT !.pc = "addFinalizer",
                                        !.snap = snapshotLister, !.found = found]
      PROVE  SnapshotCalm'
  BY <1>2, <1>4 DEF SnapshotIdle, SnapshotCalm, CalmSnapshot, SyncSnapshot,
                    TakeSnapshot, NotSnapshotWorker
<1>5. SnapshotCalm'
  BY <1>3, <1>4 DEF SyncSnapshot
<1> QED BY <1>1, <1>5 DEF Calm

\* No copy of the snapshot says that it is being deleted.
LEMMA CalmSyncDeletedSnapshot == ASSUME Wanted, SyncDeletedSnapshot PROVE Calm'
  BY DEF Wanted, Calm, SnapshotCalm, CalmSnapshot, SyncDeletedSnapshot, TakeSnapshot

\* AddSnapshotFinalizer leaves everything calm.
LEMMA CalmAddSnapshotFinalizer ==
    ASSUME Wanted, NEW reply \in Replies, AddSnapshotFinalizer(reply) PROVE Calm'
<1> DEFINE fins == vs.fins \cup FinalizersToAdd(sw.snap, sw.found)
           new == NextSnapshot([vs EXCEPT !.fins = fins])
<1>1. vs \in Snapshot /\ ~vs.deleting /\ fins \in SUBSET SnapshotFinalizers
  BY SnapshotFields DEF Wanted, Going, TypeOK, ApiTypeOK, FinalizersToAdd
<1>2. new \in Snapshot /\ new.deleting = vs.deleting /\ new.ready = vs.ready
  BY <1>1, SnapshotFields, NextSnapshotType, SnapshotUpdates, AbsentAssumption
     DEF Wanted, TypeOK
<1>3. vs' \in {vs, new} /\ snapshotStore' \in {snapshotStore, new}
  BY <1>1, <1>2 DEF AddSnapshotFinalizer, PutSnapshot, StoreObjectUpdate
<1>4. ApiCalm' /\ ContentCalm' /\ SidecarCalm'
  BY <1>1, <1>2, <1>3, AbsentAssumption
     DEF Wanted, Calm, ApiCalm, ContentCalm, SidecarCalm, CalmContent,
         AddSnapshotFinalizer, NotSnapshotCall, NotSnapshotWorker, sidecar
<1>5. ASSUME sw' = SyncStep(sw.snap, contentStore) PROVE SnapshotCalm'
  <2>1. sw.snap \in Snapshot
    BY SnapshotWorkFields DEF AddSnapshotFinalizer, Wanted, TypeOK, CommonTypeOK
  <2>2. /\ sw'.pc \in {"missing", "idle", "create", "bind"}
        /\ sw'.snap \in {sw.snap, Absent} /\ sw'.anns = {}
        /\ sw'.ready => contentStore # Absent /\ contentStore.status = "ready"
    BY <1>5, <2>1, SyncStepFields DEF Wanted, TypeOK, CommonTypeOK
  <2> QED BY <1>1, <1>2, <1>3, <2>2
          DEF Wanted, Calm, SnapshotCalm, ContentCalm, CalmContent, CalmSnapshot,
              AddSnapshotFinalizer, NotSnapshotCall, NotSnapshotWorker
<1>6. ASSUME sw' = SnapshotIdle PROVE SnapshotCalm'
  BY <1>1, <1>2, <1>3, <1>6, IdleFields
     DEF Wanted, Calm, SnapshotCalm, CalmSnapshot, AddSnapshotFinalizer,
         NotSnapshotCall, NotSnapshotWorker
<1>7. SnapshotCalm'
  BY <1>5, <1>6 DEF AddSnapshotFinalizer, RetrySnapshot
<1> QED BY <1>4, <1>7 DEF Calm

\* CreateSnapshotContent leaves everything calm.
LEMMA CalmCreateSnapshotContent ==
    ASSUME Wanted, NEW reply \in Replies, CreateSnapshotContent(reply) PROVE Calm'
<1> DEFINE version == IF vsc # Absent THEN NoVersion ELSE rev + 1
           new == [rv |-> version, uid |-> version, deleting |-> FALSE,
                   fin |-> FALSE, anns |-> {}, status |-> "nil"]
<1>1. new.anns = {} /\ new.status = "nil" /\ ~new.deleting
  OBVIOUS
<1> HIDE DEF new
<1>2. vsc' \in {vsc, new} /\ contentStore' \in {contentStore, new}
  BY <1>1 DEF CreateSnapshotContent, PutContent, StoreContent, StoreObjectUpdate,
              new, version
<1>3. UNCHANGED <<vs, storage, contentLister, cw, snapshotLister, snapshotStore,
                  sidecar>>
  BY DEF CreateSnapshotContent, NotSnapshotWorker
<1>4. ApiCalm' /\ ContentCalm' /\ SidecarCalm'
  BY <1>1, <1>2, <1>3 DEF Wanted, Calm, ApiCalm, ContentCalm, SidecarCalm,
                          CalmContent, sidecar
<1>5. sw'.snap = Absent /\ sw'.pc \in {"idle", "status"} /\ sw'.anns = {}
        /\ sw'.ready = FALSE
  BY DEF CreateSnapshotContent, RetrySnapshot, SnapshotIdle
<1>6. SnapshotCalm'
  BY <1>3, <1>5 DEF Wanted, Calm, SnapshotCalm, CalmSnapshot
<1> QED BY <1>4, <1>6 DEF Calm

\* UpdateSnapshotStatus leaves everything calm.
LEMMA CalmUpdateSnapshotStatus ==
    ASSUME Wanted, NEW reply \in Replies, UpdateSnapshotStatus(reply) PROVE Calm'
<1> DEFINE new == NextSnapshot([vs EXCEPT !.bound = TRUE, !.ready = sw.ready])
<1>1. vs \in Snapshot /\ ~vs.deleting /\ sw.ready \in BOOLEAN
  BY SnapshotWorkFields DEF Wanted, Going, TypeOK, ApiTypeOK, CommonTypeOK
<1>2. new \in Snapshot /\ new.deleting = vs.deleting /\ new.ready = sw.ready
  BY <1>1, SnapshotFields, NextSnapshotType, SnapshotUpdates, AbsentAssumption
     DEF Wanted, TypeOK
<1>3. vs' \in {vs, new} /\ snapshotStore' \in {snapshotStore, new}
  BY <1>1, <1>2 DEF UpdateSnapshotStatus, PutSnapshot, StoreObjectUpdate
<1>4. sw' = SnapshotIdle /\ UNCHANGED NotSnapshotCall
  BY DEF UpdateSnapshotStatus, RetrySnapshot, SnapshotDone
<1>5. ApiCalm' /\ ContentCalm' /\ SidecarCalm'
  BY <1>1, <1>2, <1>3, <1>4
     DEF Wanted, Calm, ApiCalm, SnapshotCalm, ContentCalm, SidecarCalm,
         CalmContent, NotSnapshotCall, NotSnapshotWorker, sidecar
<1>6. SnapshotCalm'
  BY <1>1, <1>2, <1>3, <1>4, IdleFields
     DEF Wanted, Calm, SnapshotCalm, CalmSnapshot, NotSnapshotCall,
         NotSnapshotWorker
<1> QED BY <1>5, <1>6 DEF Calm

\* FailBind and MarkMissing, which reset ReadyToUse, leave everything calm.
LEMMA CalmMarkUnready ==
    ASSUME Wanted, FailBind \/ \E reply \in Replies : MarkMissing(reply) PROVE Calm'
<1> DEFINE new == NextSnapshot([vs EXCEPT !.ready = FALSE])
<1>1. vs \in Snapshot /\ ~vs.deleting
  BY DEF Wanted, Going, TypeOK, ApiTypeOK
<1>2. new \in Snapshot /\ new.deleting = vs.deleting /\ ~new.ready
  BY <1>1, SnapshotFields, NextSnapshotType, SnapshotUpdates, AbsentAssumption
     DEF Wanted, TypeOK
<1>3. vs' \in {vs, new} /\ snapshotStore' \in {snapshotStore, new}
  BY <1>1, <1>2 DEF FailBind, MarkMissing, PutSnapshot, StoreObjectUpdate
<1>4. sw' = SnapshotIdle /\ UNCHANGED NotSnapshotCall
  BY DEF FailBind, MarkMissing, RetrySnapshot, SnapshotDone
<1>5. ApiCalm' /\ ContentCalm' /\ SidecarCalm'
  BY <1>1, <1>2, <1>3, <1>4
     DEF Wanted, Calm, ApiCalm, ContentCalm, SidecarCalm, CalmContent,
         NotSnapshotCall, NotSnapshotWorker, sidecar
<1>6. SnapshotCalm'
  BY <1>1, <1>2, <1>3, <1>4, IdleFields
     DEF Wanted, Calm, SnapshotCalm, CalmSnapshot, NotSnapshotCall,
         NotSnapshotWorker
<1> QED BY <1>5, <1>6 DEF Calm

\* The calls of a deletion are not reached.
LEMMA CalmSnapshotDeletion ==
    ASSUME Wanted, NEW reply \in Replies,
           \/ SetAnnVolumeSnapshotBeingDeleted(reply)
           \/ DeleteContent(reply)
           \/ RemoveSnapshotFinalizer(reply)
    PROVE  Calm'
  BY DEF Wanted, Calm, SnapshotCalm, SetAnnVolumeSnapshotBeingDeleted,
         DeleteContent, RemoveSnapshotFinalizer

\* SnapshotWorker leaves everything calm.
LEMMA CalmSnapshotWorker == ASSUME Wanted, SnapshotWorker PROVE Calm'
  BY CalmForgetSnapshot, CalmIgnoreOldSnapshot, CalmSyncSnapshot,
     CalmSyncDeletedSnapshot, CalmAddSnapshotFinalizer, CalmCreateSnapshotContent,
     CalmUpdateSnapshotStatus, CalmMarkUnready, CalmSnapshotDeletion
     DEF SnapshotWorker, SnapshotCall

-----------------------------------------------------------------------------
(***************************************************************************)
(* Nor does the content worker.                                            *)
(***************************************************************************)
\* ContentWorker leaves everything calm.
LEMMA CalmContentWorker == ASSUME Wanted, ContentWorker PROVE Calm'
<1> USE DEF Wanted
<1>1. UNCHANGED NotContentWorker /\ SnapshotCalm'
  BY DEF ContentWorker, ForgetContent, IgnoreOldContent, SyncContent,
         AddContentFinalizer, AnnotateContent, NotContentWorker, Calm,
         SnapshotCalm, CalmSnapshot
<1>2. SidecarCalm'
  BY <1>1 DEF NotContentWorker, sidecar, Calm, SidecarCalm, CalmContent
<1>3. CASE ForgetContent \/ IgnoreOldContent
  <2> ApiCalm' /\ ContentCalm'
    BY <1>1, <1>3 DEF ForgetContent, IgnoreOldContent, NotContentWorker, Calm,
                      ApiCalm, ContentCalm, CalmContent
  <2> QED BY <1>1, <1>2 DEF Calm
<1>4. CASE SyncContent
  <2>1. contentStore' = contentLister /\ contentLister' = contentLister
          /\ cw'.pc # "annotate" /\ cw'.anns = {}
    <3>1. ~(snapshotStore # Absent /\ IsSnapshotDeletionCandidate(snapshotStore))
      BY DEF Calm, SnapshotCalm, CalmSnapshot, IsSnapshotDeletionCandidate
    <3> QED BY <1>4, <3>1, IdleFields DEF SyncContent
  <2>2. ApiCalm' /\ ContentCalm'
    BY <1>1, <1>4, <2>1 DEF SyncContent, NotContentWorker, Calm, ApiCalm,
                            ContentCalm, CalmContent
  <2> QED BY <1>1, <1>2, <2>2 DEF Calm
<1>5. ASSUME NEW reply \in Replies, AddContentFinalizer(reply) PROVE Calm'
  <2> DEFINE new == NextContent([vsc EXCEPT !.fin = TRUE])
  <2>1. reply # "error" => vsc # Absent
    BY <1>5 DEF AddContentFinalizer, Answer, Replies
  <2>2. reply # "error" => new.anns = vsc.anns /\ new.status = vsc.status
    BY <2>1, ContentUpdates DEF TypeOK
  <2>3. /\ vsc' \in {vsc, Absent} \/ (reply # "error" /\ vsc' = new)
        /\ contentStore' = contentStore \/ (reply # "error" /\ contentStore' = new)
    BY <1>5 DEF AddContentFinalizer, PutContent, StoreContent, StoreObjectUpdate,
                Replies
  <2>4. cw' = ContentIdle /\ UNCHANGED contentLister
    BY <1>5 DEF AddContentFinalizer, ContentDone, RetryContent
  <2>5. ApiCalm' /\ ContentCalm'
    BY <1>1, <2>1, <2>2, <2>3, <2>4, IdleFields
       DEF NotContentWorker, Calm, ApiCalm, ContentCalm, CalmContent
  <2> QED BY <1>1, <1>2, <2>5 DEF Calm
<1>6. ASSUME NEW reply \in Replies, AnnotateContent(reply) PROVE Calm'
  BY <1>6 DEF AnnotateContent, Calm, ContentCalm
<1> QED BY <1>3, <1>4, <1>5, <1>6 DEF ContentWorker

-----------------------------------------------------------------------------
(***************************************************************************)
(* Nor the sidecar: it deletes nothing while no copy is marked.             *)
(***************************************************************************)
\* syncContent of the sidecar deletes no snapshot whose content is not marked.
LEMMA SidecarSyncCalm ==
    \A c : "BeingDeleted" \notin c.anns => SidecarSync(c) # "csiDelete"
<1> SUFFICES ASSUME NEW c, "BeingDeleted" \notin c.anns
             PROVE  SidecarSync(c) # "csiDelete"
  OBVIOUS
<1>1. ~ShouldDelete(c)
  BY DEF ShouldDelete
<1>2. SidecarSync(c) \in {"csiCreate", "annotate", "tidy", "idle"}
  <2>1. CASE c.status # "ready"
    BY <1>1, <2>1, Zenon DEF SidecarSync
  <2>2. CASE c.status = "ready"
    BY <1>1, <2>2, Zenon DEF SidecarSync
  <2> QED BY <2>1, <2>2
<1> QED BY <1>2

\* ... and none under policy Retain.
LEMMA SidecarSyncPolicy == \A c : SidecarSync(c) = "csiDelete" => Policy = "Delete"
<1> SUFFICES ASSUME NEW c, Policy # "Delete" PROVE SidecarSync(c) # "csiDelete"
  OBVIOUS
<1>1. CASE ShouldDelete(c)
  <2>1. SidecarSync(c) \in {"removeFinalizer", "idle"}
    BY <1>1, Zenon DEF SidecarSync
  <2> QED BY <2>1
<1>2. CASE ~ShouldDelete(c) /\ c.status # "ready"
  <2>1. SidecarSync(c) \in {"csiCreate", "annotate"}
    BY <1>2, Zenon DEF SidecarSync
  <2> QED BY <2>1
<1>3. CASE ~ShouldDelete(c) /\ c.status = "ready"
  <2>1. SidecarSync(c) \in {"tidy", "idle"}
    BY <1>3, Zenon DEF SidecarSync
  <2> QED BY <2>1
<1> QED BY <1>1, <1>2, <1>3

\* What the sidecar has in hand at its next call, or at none.
LEMMA GoFields ==
    ASSUME NEW p, NEW STATE t, dw' = [SidecarIdle EXCEPT !.pc = p, !.status = t]
    PROVE  dw'.pc = p /\ dw'.status = t /\ dw'.anns = {} /\ dw'.ready = FALSE
  BY DEF SidecarIdle

\* ... at none.
LEMMA RestFields ==
    ASSUME dw' = SidecarIdle
    PROVE  /\ dw'.pc = "idle" /\ dw'.status = "nil"
           /\ dw'.anns = {} /\ dw'.ready = FALSE
  BY IdleFields

\* The part of Calm no call of the sidecar touches, if storage stays ready.
LEMMA CalmNotSidecar ==
    ASSUME Wanted, UNCHANGED NotSidecarWorker,
           storage = "ready" => storage' = "ready"
    PROVE  /\ SnapshotCalm' /\ ContentCalm'
           /\ CalmContent(sidecarLister)'
           /\ vs' = vs
<1>1. UNCHANGED <<vs, common, sidecarLister>>
  BY DEF NotSidecarWorker
<1>2. SnapshotCalm'
  BY <1>1 DEF common, Wanted, Calm, SnapshotCalm, CalmSnapshot
<1>3. ContentCalm' /\ CalmContent(sidecarLister)'
  BY <1>1 DEF common, Wanted, Calm, ContentCalm, SidecarCalm, CalmContent
<1> QED BY <1>1, <1>2, <1>3

\* A write of the content that marks nothing and makes no claim is calm.
LEMMA CalmSidecarWrite ==
    ASSUME Wanted, UNCHANGED <<storage, NotSidecarWorker>>, NEW STATE new,
           CalmContent(new), vsc' \in {vsc, Absent, new},
           dw'.pc # "csiDelete", "BeingDeleted" \notin dw'.anns,
           dw'.ready \/ dw'.status = "ready" => storage = "ready"
    PROVE  Calm'
<1>1. SnapshotCalm' /\ ContentCalm' /\ CalmContent(sidecarLister)' /\ vs' = vs
  BY CalmNotSidecar
<1>2. ApiCalm'
  BY <1>1 DEF Wanted, Calm, ApiCalm, CalmContent
<1>3. SidecarCalm'
  BY <1>1 DEF SidecarCalm
<1> QED BY <1>1, <1>2, <1>3 DEF Calm

\* The sidecar's steps that write nothing leave everything calm.
LEMMA CalmSyncSidecar ==
    ASSUME Wanted, \/ ForgetSidecarContent \/ IgnoreOldSidecarContent
                   \/ SyncSidecarContent \/ KeepContentErrorStatus
    PROVE  Calm'
<1>1. UNCHANGED <<vsc, storage, NotSidecarWorker>>
  BY DEF ForgetSidecarContent, IgnoreOldSidecarContent, SyncSidecarContent,
         KeepContentErrorStatus
<1>2. CASE SyncSidecarContent
  <2>1. CalmContent(sidecarLister) /\ sidecarLister # Absent
    BY <1>2 DEF SyncSidecarContent, Wanted, Calm, SidecarCalm
  <2>2. SidecarSync(sidecarLister) # "csiDelete"
    BY <2>1, SidecarSyncCalm DEF CalmContent
  <2>3. dw'.pc # "csiDelete" /\ "BeingDeleted" \notin dw'.anns
          /\ (dw'.ready \/ dw'.status = "ready" => storage = "ready")
    BY <1>2, <2>1, <2>2 DEF SyncSidecarContent, CalmContent
  <2>4. CalmContent(vsc) /\ vsc' \in {vsc, Absent, vsc}
    BY <1>1 DEF Wanted, Calm, ApiCalm
  <2> QED BY <1>1, <2>3, <2>4, CalmSidecarWrite
<1>3. CASE dw' \in {dw, SidecarIdle}
  <2>1. dw'.pc # "csiDelete" /\ "BeingDeleted" \notin dw'.anns
          /\ (dw'.ready \/ dw'.status = "ready" => storage = "ready")
    BY <1>3, IdleFields DEF Wanted, Calm, SidecarCalm
  <2>2. CalmContent(vsc) /\ vsc' \in {vsc, Absent, vsc}
    BY <1>1 DEF Wanted, Calm, ApiCalm
  <2> QED BY <1>1, <2>1, <2>2, CalmSidecarWrite
<1> QED BY <1>2, <1>3 DEF ForgetSidecarContent, IgnoreOldSidecarContent,
                          KeepContentErrorStatus, RetrySidecar

\* CallCreate leaves everything calm.
LEMMA CalmCallCreate == ASSUME Wanted, NEW result, CallCreate(result) PROVE Calm'
<1>1. UNCHANGED <<vsc, NotSidecarWorker>> /\ dw \in SidecarWork
  BY DEF CallCreate, Wanted, TypeOK, SidecarTypeOK
<1>2. storage = "ready" => storage' = "ready"
  BY DEF CallCreate, AfterTimeout
<1>3. SnapshotCalm' /\ ContentCalm' /\ CalmContent(sidecarLister)' /\ vs' = vs
  BY <1>1, <1>2, CalmNotSidecar
<1>4. ApiCalm'
  BY <1>1, <1>2, <1>3 DEF Wanted, Calm, ApiCalm, CalmContent
<1>5. SidecarCalm'
  BY <1>1, <1>2, <1>3 DEF CallCreate, Wanted, Calm, SidecarCalm, SidecarWork
<1> QED BY <1>3, <1>4, <1>5 DEF Calm

\* CallDelete leaves everything calm.
LEMMA CalmCallDelete == ASSUME Wanted, NEW result, CallDelete(result) PROVE Calm'
  BY DEF CallDelete, Wanted, Calm, SidecarCalm

\* SetAnnVolumeSnapshotBeingCreated leaves everything calm.
LEMMA CalmSetAnnVolumeSnapshotBeingCreated ==
    ASSUME Wanted, NEW reply \in Replies, SetAnnVolumeSnapshotBeingCreated(reply)
    PROVE  Calm'
<1> DEFINE anns == dw.anns \cup {"BeingCreated"}
           new  == NextContent([vsc EXCEPT !.anns = anns])
<1>1. anns \in SUBSET Annotations /\ "BeingDeleted" \notin anns
  BY SidecarWorkFields DEF Wanted, TypeOK, SidecarTypeOK, Annotations, Calm,
                           SidecarCalm
<1>2. CASE reply = "error"
  <2>1. UNCHANGED <<vsc, storage, NotSidecarWorker>>
          /\ dw' = [SidecarIdle EXCEPT !.pc = "errorStatus", !.status = dw.status]
    BY <1>2 DEF SetAnnVolumeSnapshotBeingCreated, Go
  <2> QED BY <2>1, GoFields, CalmSidecarWrite
          DEF Wanted, Calm, ApiCalm, SidecarCalm
<1>3. CASE reply # "error"
  <2>1. vsc # Absent
    BY <1>3 DEF SetAnnVolumeSnapshotBeingCreated, Answer, Replies
  <2>2. new.anns = anns /\ new.status = vsc.status
    BY <1>1, <2>1, ContentUpdates DEF Wanted, TypeOK
  <2>3. CalmContent(new)
    BY <1>1, <2>1, <2>2 DEF CalmContent, Wanted, Calm, ApiCalm
  <2>4. UNCHANGED <<storage, NotSidecarWorker>> /\ vsc' \in {vsc, Absent, new}
    BY <1>3 DEF SetAnnVolumeSnapshotBeingCreated, PutContent
  <2>5. \/ dw' = [SidecarIdle EXCEPT !.pc = "csiCreate", !.status = new.status]
        \/ dw' = [SidecarIdle EXCEPT !.pc = "errorStatus", !.status = dw.status]
    BY DEF SetAnnVolumeSnapshotBeingCreated, Go
  <2>6. /\ dw'.pc # "csiDelete" /\ "BeingDeleted" \notin dw'.anns
        /\ dw'.ready \/ dw'.status = "ready" => storage = "ready"
    BY <2>1, <2>2, <2>5
       DEF SidecarIdle, Wanted, Calm, ApiCalm, SidecarCalm, CalmContent
  <2> QED BY <2>3, <2>4, <2>6, CalmSidecarWrite
<1> QED BY <1>2, <1>3

\* UpdateSnapshotContentStatus leaves everything calm.
LEMMA CalmUpdateSnapshotContentStatus ==
    ASSUME Wanted, NEW reply \in Replies, UpdateSnapshotContentStatus(reply)
    PROVE  Calm'
<1> DEFINE status == IF dw.ready THEN "ready" ELSE "cut"
           new == NextContent([vsc EXCEPT !.status = status])
<1>1. status \in ContentStatus /\ (status = "ready" => storage = "ready")
  BY DEF ContentStatus, Wanted, Calm, SidecarCalm
<1>2. CASE reply = "error"
  <2>1. UNCHANGED <<vsc, storage, NotSidecarWorker>>
          /\ dw' = [SidecarIdle EXCEPT !.pc = "errorStatus", !.status = dw.status]
    BY <1>2 DEF UpdateSnapshotContentStatus, Go
  <2> QED BY <2>1, GoFields, CalmSidecarWrite
          DEF Wanted, Calm, ApiCalm, SidecarCalm
<1>3. CASE reply # "error"
  <2>1. vsc # Absent
    BY <1>3 DEF UpdateSnapshotContentStatus, Answer, Replies
  <2>2. new.anns = vsc.anns /\ new.status = status
    BY <1>1, <2>1, ContentUpdates DEF Wanted, TypeOK
  <2>3. CalmContent(new)
    BY <1>1, <2>1, <2>2 DEF CalmContent, Wanted, Calm, ApiCalm
  <2>4. UNCHANGED <<storage, NotSidecarWorker>> /\ vsc' \in {vsc, Absent, new}
    BY <1>3 DEF UpdateSnapshotContentStatus, PutContent
  <2>5. \/ dw' = [SidecarIdle EXCEPT !.pc = "unannotate", !.status = new.status]
        \/ dw' = [SidecarIdle EXCEPT !.pc = "errorStatus", !.status = dw.status]
        \/ dw' = SidecarIdle
    BY DEF UpdateSnapshotContentStatus, Go, FinishCreate, SidecarDone, RetrySidecar
  <2>6. /\ dw'.pc # "csiDelete" /\ "BeingDeleted" \notin dw'.anns
        /\ dw'.ready \/ dw'.status = "ready" => storage = "ready"
    <3>1. \/ dw'.pc = "idle" /\ dw'.status = "nil"
          \/ dw'.pc = "unannotate" /\ dw'.status = status
          \/ dw'.pc = "errorStatus" /\ dw'.status = dw.status
      BY <2>2, <2>5, GoFields, RestFields
    <3>2. dw'.anns = {} /\ ~dw'.ready
      BY <2>5, GoFields, RestFields
    <3> QED BY <1>1, <3>1, <3>2 DEF Wanted, Calm, SidecarCalm
  <2> QED BY <2>3, <2>4, <2>6, CalmSidecarWrite
<1> QED BY <1>2, <1>3

\* RemoveAnnVolumeSnapshotBeingCreated leaves everything calm.
LEMMA CalmRemoveAnnVolumeSnapshotBeingCreated ==
    ASSUME Wanted, NEW reply \in Replies, RemoveAnnVolumeSnapshotBeingCreated(reply)
    PROVE  Calm'
<1> DEFINE anns == vsc.anns \ {"BeingCreated"}
           new == NextContent([vsc EXCEPT !.anns = anns])
<1>1. \/ dw' = SidecarIdle
      \/ dw' = [SidecarIdle EXCEPT !.pc = "errorStatus", !.status = dw.status]
      \/ reply = "ok"
           /\ dw' = [SidecarIdle EXCEPT !.pc = "errorStatus", !.status = new.status]
  BY Zenon DEF RemoveAnnVolumeSnapshotBeingCreated, Go, FinishCreate, SidecarDone,
               RetrySidecar
<1>2. CASE reply = "error"
  <2>1. UNCHANGED <<vsc, storage, NotSidecarWorker>>
    BY <1>2 DEF RemoveAnnVolumeSnapshotBeingCreated
  <2>2. /\ dw'.pc # "csiDelete" /\ "BeingDeleted" \notin dw'.anns
        /\ dw'.ready \/ dw'.status = "ready" => storage = "ready"
    BY <1>1, <1>2, GoFields, RestFields DEF Wanted, Calm, SidecarCalm
  <2> QED BY <2>1, <2>2, CalmSidecarWrite DEF Wanted, Calm, ApiCalm
<1>3. CASE reply # "error"
  <2>1. vsc # Absent
    BY <1>3 DEF RemoveAnnVolumeSnapshotBeingCreated, Answer, Replies
  <2>2. anns \in SUBSET Annotations
    BY <2>1, ContentFields DEF Wanted, TypeOK, ApiTypeOK
  <2>3. new.anns = anns /\ new.status = vsc.status
    BY <2>1, <2>2, ContentUpdates DEF Wanted, TypeOK
  <2>4. CalmContent(new)
    BY <2>1, <2>3 DEF CalmContent, Wanted, Calm, ApiCalm
  <2>5. UNCHANGED <<storage, NotSidecarWorker>> /\ vsc' \in {vsc, Absent, new}
    BY <1>3 DEF RemoveAnnVolumeSnapshotBeingCreated, PutContent
  <2>6. /\ dw'.pc # "csiDelete" /\ "BeingDeleted" \notin dw'.anns
        /\ dw'.ready \/ dw'.status = "ready" => storage = "ready"
    <3>1. \/ dw'.pc = "idle" /\ dw'.status = "nil"
          \/ dw'.pc = "errorStatus" /\ dw'.status \in {dw.status, vsc.status}
      BY <1>1, <2>3, GoFields, RestFields
    <3>2. dw'.anns = {} /\ ~dw'.ready
      BY <1>1, GoFields, RestFields
    <3> QED BY <2>1, <3>1, <3>2
            DEF Wanted, Calm, ApiCalm, SidecarCalm, CalmContent
  <2> QED BY <2>4, <2>5, <2>6, CalmSidecarWrite
<1> QED BY <1>2, <1>3

\* UpdateContentErrorStatus leaves everything calm.
LEMMA CalmUpdateContentErrorStatus ==
    ASSUME Wanted, NEW reply \in Replies, UpdateContentErrorStatus(reply)
    PROVE  Calm'
<1> DEFINE status == IF ~(dw.status = "nil") /\ HasHandle(vsc) THEN "cut" ELSE "error"
           new == NextContent([vsc EXCEPT !.status = status])
<1>1. status \in ContentStatus /\ status # "ready"
  BY DEF ContentStatus
<1>2. dw' = SidecarIdle /\ UNCHANGED <<storage, NotSidecarWorker>>
  BY DEF UpdateContentErrorStatus, RetrySidecar
<1>3. CASE reply = "error"
  <2>1. vsc' = vsc
    BY <1>3 DEF UpdateContentErrorStatus
  <2> QED BY <1>2, <2>1, IdleFields, CalmSidecarWrite DEF Wanted, Calm, ApiCalm
<1>4. CASE reply # "error"
  <2>1. vsc # Absent
    BY <1>4 DEF UpdateContentErrorStatus, Answer, Replies
  <2>2. new.anns = vsc.anns /\ new.status = status
    BY <1>1, <2>1, ContentUpdates DEF Wanted, TypeOK
  <2>3. CalmContent(new)
    BY <1>1, <2>1, <2>2 DEF CalmContent, Wanted, Calm, ApiCalm
  <2>4. vsc' \in {vsc, Absent, new}
    BY <1>4 DEF UpdateContentErrorStatus, PutContent
  <2> QED BY <1>2, <2>3, <2>4, IdleFields, CalmSidecarWrite
<1> QED BY <1>3, <1>4

\* ClearVolumeContentStatus leaves everything calm.
LEMMA CalmClearVolumeContentStatus ==
    ASSUME Wanted, NEW reply \in Replies, ClearVolumeContentStatus(reply)
    PROVE  Calm'
<1> DEFINE status == IF vsc.status = "nil" THEN "nil" ELSE "cleared"
           new == NextContent([vsc EXCEPT !.status = status])
<1>1. status \in ContentStatus /\ status # "ready"
  BY DEF ContentStatus
<1>2. /\ dw' \in {SidecarIdle,
                  [SidecarIdle EXCEPT !.pc = "removeFinalizer", !.status = "nil"]}
      /\ UNCHANGED <<storage, NotSidecarWorker>>
  BY DEF ClearVolumeContentStatus, RetrySidecar, SidecarDone, Go
<1>3. dw'.pc # "csiDelete" /\ dw'.anns = {} /\ ~dw'.ready /\ dw'.status = "nil"
  BY <1>2, GoFields, RestFields
<1>4. CASE reply = "error"
  <2>1. vsc' = vsc
    BY <1>4 DEF ClearVolumeContentStatus
  <2> QED BY <1>2, <1>3, <2>1, CalmSidecarWrite DEF Wanted, Calm, ApiCalm
<1>5. CASE reply # "error"
  <2>1. vsc # Absent
    BY <1>5 DEF ClearVolumeContentStatus, Answer, Replies
  <2>2. new.anns = vsc.anns /\ new.status = status
    BY <1>1, <2>1, ContentUpdates DEF Wanted, TypeOK
  <2>3. CalmContent(new)
    BY <1>1, <2>1, <2>2 DEF CalmContent, Wanted, Calm, ApiCalm
  <2>4. vsc' \in {vsc, Absent, new}
    BY <1>5 DEF ClearVolumeContentStatus, PutContent
  <2> QED BY <1>2, <1>3, <2>3, <2>4, CalmSidecarWrite
<1> QED BY <1>4, <1>5

\* RemoveContentFinalizer leaves everything calm.
LEMMA CalmRemoveContentFinalizer ==
    ASSUME Wanted, NEW reply \in Replies, RemoveContentFinalizer(reply)
    PROVE  Calm'
<1> DEFINE new == NextContent([vsc EXCEPT !.fin = FALSE])
<1>1. dw' = SidecarIdle /\ UNCHANGED <<storage, NotSidecarWorker>>
  BY DEF RemoveContentFinalizer, RetrySidecar, SidecarDone
<1>2. CASE reply = "error"
  <2>1. vsc' = vsc
    BY <1>2 DEF RemoveContentFinalizer
  <2> QED BY <1>1, <2>1, IdleFields, CalmSidecarWrite DEF Wanted, Calm, ApiCalm
<1>3. CASE reply # "error"
  <2>1. vsc # Absent
    BY <1>3 DEF RemoveContentFinalizer, Answer, Replies
  <2>2. new.anns = vsc.anns /\ new.status = vsc.status
    BY <2>1, ContentUpdates DEF Wanted, TypeOK
  <2>3. CalmContent(new)
    BY <2>1, <2>2 DEF CalmContent, Wanted, Calm, ApiCalm
  <2>4. vsc' \in {vsc, Absent, new}
    BY <1>3 DEF RemoveContentFinalizer, PutContent
  <2> QED BY <1>1, <2>3, <2>4, IdleFields, CalmSidecarWrite
<1> QED BY <1>2, <1>3

\* SidecarWorker leaves everything calm.
LEMMA CalmSidecarWorker == ASSUME Wanted, SidecarWorker PROVE Calm'
<1>1. ASSUME NEW reply \in Replies, SidecarCall(reply) PROVE Calm'
  BY <1>1, CalmSetAnnVolumeSnapshotBeingCreated, CalmUpdateSnapshotContentStatus,
     CalmRemoveAnnVolumeSnapshotBeingCreated, CalmUpdateContentErrorStatus,
     CalmClearVolumeContentStatus, CalmRemoveContentFinalizer DEF SidecarCall
<1> QED BY <1>1, CalmSyncSidecar, CalmCallCreate, CalmCallDelete DEF SidecarWorker

-----------------------------------------------------------------------------
(***************************************************************************)
(* Nor do informers, users, the driver and restarts, but for the deletion.  *)
(***************************************************************************)
\* Deliver leaves everything calm.
LEMMA CalmDeliver == ASSUME Wanted, Deliver PROVE Calm'
<1>1. CalmSnapshot(vs)
  BY DEF Wanted, Going, CalmSnapshot
<1>2. UNCHANGED <<api, storage>>
  BY DEF Deliver, DeliverSnapshot, DeliverContent, DeliverToSidecar, DeliverPVC
<1>3. ApiCalm'
  BY <1>2 DEF api, Wanted, Calm, ApiCalm, CalmContent
<1>4. SnapshotCalm'
  BY <1>1, <1>2 DEF Deliver, DeliverSnapshot, DeliverContent, DeliverToSidecar,
                    DeliverPVC, common, api, Wanted, Calm, SnapshotCalm,
                    CalmSnapshot
<1>5. ContentCalm'
  BY <1>2 DEF Deliver, DeliverSnapshot, DeliverContent, DeliverToSidecar,
              DeliverPVC, common, api, Wanted, Calm, ApiCalm, ContentCalm,
              CalmContent
<1>6. SidecarCalm'
  BY <1>2 DEF Deliver, DeliverSnapshot, DeliverContent, DeliverToSidecar,
              DeliverPVC, sidecar, api, Wanted, Calm, ApiCalm, SidecarCalm,
              CalmContent
<1> QED BY <1>3, <1>4, <1>5, <1>6 DEF Calm

\* Resync leaves everything calm.
LEMMA CalmResync == ASSUME Wanted, Resync PROVE Calm'
  BY DEF Resync, api, Wanted, Calm, ApiCalm, SnapshotCalm, ContentCalm,
         SidecarCalm, CalmSnapshot, CalmContent

\* AdminDeletesContent leaves everything calm.
LEMMA CalmAdminDeletesContent == ASSUME Wanted, AdminDeletesContent PROVE Calm'
<1> DEFINE new == NextContent([vsc EXCEPT !.deleting = TRUE])
<1>1. new.anns = vsc.anns /\ new.status = vsc.status
  BY ContentUpdates DEF AdminDeletesContent, Wanted, TypeOK
<1>2. vsc # Absent /\ vsc' \in {Absent, new}
        /\ UNCHANGED <<vs, common, sidecar, storage>>
  BY DEF AdminDeletesContent, PutContent
<1>3. ApiCalm'
  BY <1>1, <1>2 DEF Wanted, Calm, ApiCalm, CalmContent
<1>4. SnapshotCalm' /\ ContentCalm' /\ SidecarCalm'
  BY <1>2 DEF common, sidecar, Wanted, Calm, SnapshotCalm, ContentCalm,
              SidecarCalm, CalmSnapshot, CalmContent
<1> QED BY <1>3, <1>4 DEF Calm

\* The environment leaves everything calm, but for the user's deletion.
LEMMA CalmEnvironment ==
    ASSUME Wanted, Environment, ~UserDeletesSnapshot PROVE Calm'
<1>1. CASE StartRestore \/ EndRestore
  <2> UNCHANGED <<api, common, sidecar, storage>>
    BY <1>1 DEF StartRestore, EndRestore
  <2> QED BY DEF api, common, sidecar, Wanted, Calm, ApiCalm, SnapshotCalm,
                 ContentCalm, SidecarCalm, CalmSnapshot, CalmContent
<1>2. CASE DriverCompletes
  <2> UNCHANGED <<api, common, sidecar>> /\ storage # "ready"
    BY <1>2 DEF DriverCompletes
  <2> QED BY DEF api, common, sidecar, Wanted, Calm, ApiCalm, SnapshotCalm,
                 ContentCalm, SidecarCalm, CalmSnapshot, CalmContent
<1>3. CASE RestartCommon
  <2>1. CalmSnapshot(vs) /\ CalmContent(vsc)
    BY DEF Wanted, Going, CalmSnapshot, Calm, ApiCalm
  <2>2. UNCHANGED <<api, sidecar, storage>>
    BY <1>3 DEF RestartCommon
  <2>3. ApiCalm' /\ SidecarCalm'
    BY <2>2 DEF api, sidecar, Wanted, Calm, ApiCalm, SidecarCalm, CalmContent
  <2>4. SnapshotCalm' /\ ContentCalm'
    BY <1>3, <2>1, <2>2, IdleFields
       DEF RestartCommon, SnapshotCalm, ContentCalm, CalmSnapshot, CalmContent
  <2> QED BY <2>3, <2>4 DEF Calm
<1>4. CASE RestartSidecar
  <2>1. UNCHANGED <<api, common>> /\ (storage = "ready" => storage' = "ready")
    BY <1>4 DEF RestartSidecar, AfterTimeout
  <2>2. ApiCalm' /\ SnapshotCalm' /\ ContentCalm'
    BY <2>1 DEF api, common, Wanted, Calm, ApiCalm, SnapshotCalm, ContentCalm,
                CalmSnapshot, CalmContent
  <2>3. SidecarCalm'
    BY <1>4, <2>1, IdleFields DEF RestartSidecar, Wanted, Calm, ApiCalm,
                                  SidecarCalm, CalmContent
  <2> QED BY <2>2, <2>3 DEF Calm
<1>5. CASE AdminDeletesContent
  BY <1>5, CalmAdminDeletesContent
<1> QED BY <1>1, <1>2, <1>3, <1>4, <1>5 DEF Environment

\* A stuttering step leaves everything calm.
LEMMA CalmStutter == ASSUME Wanted, UNCHANGED vars PROVE Calm'
  BY DEF vars, api, common, sidecar, Wanted, Calm, ApiCalm, SnapshotCalm,
         ContentCalm, SidecarCalm, CalmSnapshot, CalmContent

\* The sidecar destroys nothing under policy Retain.
LEMMA PolicyStep ==
    ASSUME TypeOK, PolicyObeyed, [Next]_vars PROVE PolicyObeyed'
<1> SUFFICES ASSUME Policy # "Delete" PROVE dw'.pc # "csiDelete"
  BY DEF PolicyObeyed
<1>1. dw \in SidecarWork /\ dw.pc # "csiDelete"
  BY DEF PolicyObeyed, TypeOK, SidecarTypeOK
<1>2. CASE UNCHANGED dw
  BY <1>1, <1>2
<1>3. CASE dw' = SidecarIdle
  BY <1>3, IdleFields
<1>4. ASSUME NEW reply \in Replies, SidecarCall(reply) PROVE dw'.pc # "csiDelete"
  <2>1. dw' = SidecarIdle
          \/ \E p \in {"csiCreate", "errorStatus", "unannotate", "removeFinalizer"} :
                \E t : dw' = [SidecarIdle EXCEPT !.pc = p, !.status = t]
    BY <1>4, Zenon
       DEF SidecarCall, SetAnnVolumeSnapshotBeingCreated,
           UpdateSnapshotContentStatus, RemoveAnnVolumeSnapshotBeingCreated,
           UpdateContentErrorStatus, ClearVolumeContentStatus,
           RemoveContentFinalizer, Go, FinishCreate, SidecarDone, RetrySidecar
  <2> QED BY <1>3, <2>1 DEF SidecarIdle
<1>5. CASE SyncSidecarContent
  BY <1>5, SidecarSyncPolicy DEF SyncSidecarContent
<1>6. ASSUME NEW result, CallCreate(result) \/ CallDelete(result)
      PROVE  dw'.pc # "csiDelete"
  BY <1>1, <1>6, IdleFields DEF CallCreate, CallDelete, RetrySidecar, SidecarWork
<1>7. CASE SidecarWorker
  BY <1>2, <1>3, <1>4, <1>5, <1>6, <1>7
     DEF SidecarWorker, ForgetSidecarContent, IgnoreOldSidecarContent,
         KeepContentErrorStatus, RetrySidecar
<1>8. CASE SnapshotWorker
  <2> UNCHANGED sidecar
    BY <1>8 DEF SnapshotWorker, SnapshotCall, ForgetSnapshot, IgnoreOldSnapshot,
                SyncSnapshot, SyncDeletedSnapshot, FailBind, AddSnapshotFinalizer,
                CreateSnapshotContent, UpdateSnapshotStatus, MarkMissing,
                SetAnnVolumeSnapshotBeingDeleted, DeleteContent,
                RemoveSnapshotFinalizer, NotSnapshotCall, NotSnapshotWorker
  <2> QED BY <1>2 DEF sidecar
<1>9. CASE ContentWorker
  <2> UNCHANGED sidecar
    BY <1>9 DEF ContentWorker, ForgetContent, IgnoreOldContent, SyncContent,
                AddContentFinalizer, AnnotateContent, NotContentWorker
  <2> QED BY <1>2 DEF sidecar
<1>10. CASE Deliver \/ Resync \/ UNCHANGED vars
  <2> UNCHANGED dw
    BY <1>10 DEF Deliver, DeliverSnapshot, DeliverContent, DeliverToSidecar,
                 DeliverPVC, Resync, sidecar, vars
  <2> QED BY <1>2
<1>11. CASE Environment
  BY <1>2, <1>3, <1>11
     DEF Environment, UserDeletesSnapshot, AdminDeletesContent, StartRestore,
         EndRestore, DriverCompletes, RestartCommon, RestartSidecar, sidecar
<1> QED BY <1>7, <1>8, <1>9, <1>10, <1>11 DEF Next

-----------------------------------------------------------------------------
(***************************************************************************)
(* The invariant.                                                          *)
(***************************************************************************)
\* The invariant holds initially.
LEMMA SafetyInit == Init => SafetyInv
<1> SUFFICES ASSUME Init PROVE SafetyInv
  OBVIOUS
<1>1. TypeOK
  BY TypeInit
<1>2. PolicyObeyed /\ Calm
  BY IdleFields DEF Init, PolicyObeyed, Calm, ApiCalm, SnapshotCalm, ContentCalm,
                    SidecarCalm, CalmContent, CalmSnapshot
<1> QED BY <1>1, <1>2, SafetyByCases

\* As long as the snapshot stays wanted, everything stays calm.
LEMMA CalmStep == ASSUME Wanted, [Next]_vars, ~Going' PROVE Calm'
<1>1. ~UserDeletesSnapshot
  <2> SUFFICES ASSUME UserDeletesSnapshot PROVE FALSE
    OBVIOUS
  <2> DEFINE new == NextSnapshot([vs EXCEPT !.deleting = TRUE])
  <2>1. vs \in Snapshot /\ PutSnapshot(new)
    BY DEF UserDeletesSnapshot, Wanted, TypeOK, ApiTypeOK
  <2>2. new \in Snapshot
    BY <2>1, SnapshotFields, NextSnapshotType, AbsentAssumption DEF Wanted, TypeOK
  <2>3. new.deleting
    BY <2>1 DEF NextSnapshot, Snapshot
  <2> QED BY <2>1, <2>2, <2>3, PutSnapshotGoing
<1> QED BY <1>1, CalmDeliver, CalmSnapshotWorker, CalmContentWorker,
           CalmSidecarWorker, CalmResync, CalmEnvironment, CalmStutter DEF Next

\* Every step keeps the invariant.
LEMMA SafetyStep == SafetyInv /\ [Next]_vars => SafetyInv'
<1> SUFFICES ASSUME SafetyInv, [Next]_vars PROVE SafetyInv'
  OBVIOUS
<1>1. TypeOK /\ PolicyObeyed /\ (Going \/ Calm)
  BY SafetyByCases
<1>2. TypeOK' /\ PolicyObeyed'
  BY <1>1, TypeStep, PolicyStep
<1>3. Going' \/ Calm'
  BY <1>1, GoingStable, CalmStep DEF Wanted
<1>4. SafetyInv' <=> TypeOK' /\ PolicyObeyed' /\ (Going' \/ Calm')
  BY SafetyByCases, PTL
<1> QED BY <1>2, <1>3, <1>4

\* No copy of an object, however old, and no call under way speaks of a deletion
\* nobody asked for, or of a ready snapshot that storage does not have.
THEOREM SafetyCorrect == Spec => []SafetyInv
  BY SafetyInit, SafetyStep, PTL DEF Spec

\* A snapshot its user may restore from is ready on storage.
THEOREM ReadyMeansCutCorrect == Spec => []ReadyMeansCut
<1>1. SafetyInv => ReadyMeansCut
  BY DEF SafetyInv, ReadyIsTrue, SaidReady, Going, ReadyMeansCut
<1> QED BY <1>1, SafetyCorrect, PTL

-----------------------------------------------------------------------------
(***************************************************************************)
(* The storage.                                                            *)
(***************************************************************************)

\* Storage is only filled, but for the call that deletes the snapshot.
LEMMA StorageStep ==
    ASSUME TypeOK, [Next]_vars
    PROVE  /\ \/ UNCHANGED storage
              \/ storage \in {"none", "inflight"}
              \/ storage = "cut" /\ storage' \in {"cut", "ready"}
              \/ dw.pc = "csiDelete" /\ storage' = "none"
           /\ UNCHANGED vs \/ (vs # Absent /\ UNCHANGED storage)
<1>1. CASE UNCHANGED <<vs, storage>>
  BY <1>1
<1>2. CASE SnapshotWorker
  <2>1. UNCHANGED storage
    BY <1>2 DEF SnapshotWorker, SnapshotCall, ForgetSnapshot, IgnoreOldSnapshot,
                SyncSnapshot, SyncDeletedSnapshot, FailBind, AddSnapshotFinalizer,
                CreateSnapshotContent, UpdateSnapshotStatus, MarkMissing,
                SetAnnVolumeSnapshotBeingDeleted, DeleteContent,
                RemoveSnapshotFinalizer, NotSnapshotCall, NotSnapshotWorker
  <2>2. UNCHANGED vs \/ vs # Absent
    BY <1>2 DEF SnapshotWorker, SnapshotCall, ForgetSnapshot, IgnoreOldSnapshot,
                SyncSnapshot, SyncDeletedSnapshot, FailBind, AddSnapshotFinalizer,
                CreateSnapshotContent, UpdateSnapshotStatus, MarkMissing,
                SetAnnVolumeSnapshotBeingDeleted, DeleteContent,
                RemoveSnapshotFinalizer, Answer, api, Replies
  <2> QED BY <2>1, <2>2
<1>3. CASE ContentWorker
  <2> UNCHANGED <<vs, storage>>
    BY <1>3 DEF ContentWorker, ForgetContent, IgnoreOldContent, SyncContent,
                AddContentFinalizer, AnnotateContent, NotContentWorker
  <2> QED OBVIOUS
<1>4. ASSUME NEW result, CallCreate(result) \/ CallDelete(result)
      PROVE  /\ UNCHANGED vs
             /\ \/ UNCHANGED storage
                \/ storage \in {"none", "inflight"}
                \/ storage = "cut" /\ storage' \in {"cut", "ready"}
                \/ dw.pc = "csiDelete" /\ storage' = "none"
  BY <1>4 DEF CallCreate, CallDelete, AfterTimeout, NotSidecarWorker, TypeOK,
              OthersTypeOK, Storage
<1>5. CASE SidecarWorker
  <2>1. ASSUME \/ ForgetSidecarContent \/ IgnoreOldSidecarContent
               \/ SyncSidecarContent \/ KeepContentErrorStatus
               \/ \E reply \in Replies : SidecarCall(reply)
        PROVE  UNCHANGED <<vs, storage>>
    BY <2>1 DEF SidecarCall, ForgetSidecarContent, IgnoreOldSidecarContent,
                SyncSidecarContent, KeepContentErrorStatus,
                SetAnnVolumeSnapshotBeingCreated, UpdateSnapshotContentStatus,
                RemoveAnnVolumeSnapshotBeingCreated, UpdateContentErrorStatus,
                ClearVolumeContentStatus, RemoveContentFinalizer, NotSidecarWorker
  <2> QED BY <1>4, <1>5, <2>1 DEF SidecarWorker
<1>6. CASE Deliver \/ Resync \/ UNCHANGED vars
  <2> UNCHANGED <<vs, storage>>
    BY <1>6 DEF Deliver, DeliverSnapshot, DeliverContent, DeliverToSidecar,
                DeliverPVC, Resync, api, vars
  <2> QED OBVIOUS
<1>7. CASE Environment
  BY <1>7 DEF Environment, UserDeletesSnapshot, AdminDeletesContent, StartRestore,
              EndRestore, DriverCompletes, RestartCommon, RestartSidecar,
              AfterTimeout, api
<1> QED BY <1>2, <1>3, <1>5, <1>6, <1>7 DEF Next

\* The physical snapshot is destroyed only for the user who asked for it.
THEOREM NoReclaimBeforeDeleteCorrect == Spec => NoReclaimBeforeDelete
<1>1. SafetyInv /\ [Next]_vars =>
        [(storage \in {"cut", "ready"} /\ storage' = "none")
            => Policy = "Delete" /\ Going]_vars
  BY StorageStep DEF SafetyInv, TornDownOnlyWhenGoing
<1> QED BY <1>1, SafetyCorrect, PTL DEF Spec, NoReclaimBeforeDelete

-----------------------------------------------------------------------------
(***************************************************************************)
(* Refinement: every step is a step of the promise, or invisible in it.     *)
(***************************************************************************)
\* The storage and the snapshot never change in one step, so each step of the
\* controllers is one step of the promise.
LEMMA PromiseStep ==
    ASSUME SafetyInv, SafetyInv', [Next]_vars
    PROVE  [Promise!Next]_(Promise!vars)
<1> DEFINE request == IF vs = Absent THEN "gone"
                      ELSE IF vs.deleting THEN "deleting" ELSE "live"
           available == vs # Absent /\ vs.ready /\ ~vs.deleting
           stored == IF storage = "inflight" THEN "none" ELSE storage
<1>1. CASE UNCHANGED vs
  <2>1. request' = request /\ available' = available
    BY <1>1
  <2>2. dw.pc = "csiDelete" => Policy = "Delete" /\ request # "live"
    BY DEF SafetyInv, TornDownOnlyWhenGoing, Going
  <2>3. storage \in Storage /\ storage' \in Storage
    BY DEF SafetyInv, TypeOK, OthersTypeOK
  <2>4. \/ stored' = stored
        \/ stored = "none" /\ stored' \in {"cut", "ready"}
        \/ stored = "cut" /\ stored' = "ready"
        \/ dw.pc = "csiDelete" /\ stored' = "none"
    BY <2>3, StorageStep DEF Storage, SafetyInv
  <2> QED BY <2>1, <2>2, <2>4
          DEF Promise!Next, Promise!vars, Promise!Take, Promise!Ripen,
              Promise!Reclaim
<1>2. CASE vs' # vs
  <2>1. vs # Absent /\ storage' = storage
    BY <1>2, StorageStep DEF SafetyInv
  <2>2. request = "deleting" => request' \in {"deleting", "gone"}
    BY <2>1, GoingStable DEF SafetyInv, Going
  <2>3. request \in {"live", "deleting"} /\ request' \in {"live", "deleting", "gone"}
    BY <2>1
  <2>4. available' => request' = "live" /\ stored = "ready"
    BY <2>1 DEF SafetyInv, ReadyIsTrue, SaidReady, Going
  <2>5. available => request = "live"
    BY <2>1
  <2>6. stored' = stored
    BY <2>1
  <2> QED BY <2>2, <2>3, <2>4, <2>5, <2>6
          DEF Promise!Next, Promise!vars, Promise!Offer, Promise!Withdraw,
              Promise!RequestDeletion, Promise!Go
<1> QED BY <1>1, <1>2

\* The controllers implement SnapshotPromise.
THEOREM PromiseKept == Spec => KeepsPromise
<1>1. Init => Promise!Init
  <2> SUFFICES ASSUME Init PROVE Promise!Init
    OBVIOUS
  <2>1. vs # Absent
    <3>1. vs \in Snapshot
      BY DEF Init, Snapshot, SnapshotFinalizers
    <3> QED BY <3>1, AbsentAssumption
  <2>2. ~vs.deleting /\ ~vs.ready /\ storage = "none"
    BY DEF Init
  <2> QED BY <2>1, <2>2 DEF Promise!Init
<1>2. SafetyInv /\ SafetyInv' /\ [Next]_vars => [Promise!Next]_(Promise!vars)
  BY PromiseStep
<1> QED BY <1>1, <1>2, SafetyCorrect, PTL DEF Spec, KeepsPromise, Promise!Spec
=============================================================================
