----------------------- MODULE SnapshotDeletionProofs -----------------------
(***************************************************************************)
(* The deletion of a snapshot in SnapshotLifecycle: in which order snapshot,*)
(* content and storage go, and what none of them leaves behind.             *)
(*                                                                         *)
(*   - For every budget of faults, every set of lagging informers and either*)
(*     policy: BoundFinalizerHeld, NoOrphan, MarkedBeforeGone.  What the    *)
(*     snapshot worker has in hand when it lets the snapshot go is related  *)
(*     to the content at the server (Ordered).                             *)
(*   - Where the sidecar sees the present content and nobody deletes one by *)
(*     hand, for every budget of the other faults: NoLeak and               *)
(*     FinalizerHeldUntilReclaimed (Single, Guarded).                       *)
(*   - Where the controller sees the present PVCs and nobody deletes a      *)
(*     content by hand: RestoreProtected (Undisturbed).                     *)
(***************************************************************************)
EXTENDS SnapshotLifecycleProofs

-----------------------------------------------------------------------------
(***************************************************************************)
(* What a write of the content leaves at the server.                       *)
(***************************************************************************)
\* The content is written with these annotations, status, ...; it goes if it is
\* being deleted and has no finalizer.  A write that changes nothing keeps the
\* version.
Puts(anns, status, deleting, fin) ==
    /\ vsc # Absent
    /\ IF deleting /\ ~fin THEN vsc' = Absent
       ELSE /\ vsc' \in Content
            /\ vsc'.anns = anns /\ vsc'.status = status
            /\ vsc'.deleting = deleting /\ vsc'.fin = fin
    /\ rev' \in {vsc.rv, rev + 1}
    /\ vsc' # Absent => vsc'.rv = rev' /\ (vsc' = vsc \/ rev' = rev + 1)

\* An update of the content writes its fields.
LEMMA PutsFields ==
    ASSUME ApiTypeOK, vsc # Absent, NEW STATE d, d \in Content,
           PutContent(NextContent(d))
    PROVE  Puts(d.anns, d.status, d.deleting, d.fin)
<1> DEFINE n == NextContent(d)
<1>1. vsc \in Content /\ rev \in Nat
  BY DEF ApiTypeOK
<1>2. /\ n \in Content /\ n # Absent /\ n.anns = d.anns /\ n.status = d.status
      /\ n.deleting = d.deleting /\ n.fin = d.fin
  BY NextContentType, NextContentFields
<1>3. n = vsc \/ n.rv = rev + 1
  BY <1>1 DEF NextContent, Content
<1>4. /\ vsc' = IF n.deleting /\ ~n.fin THEN Absent ELSE n
      /\ rev' = n.rv
  BY DEF PutContent
<1> HIDE DEF n
<1> QED BY <1>1, <1>2, <1>3, <1>4 DEF Puts

\* A patch of the annotations writes nothing else.
LEMMA PutsAnnotations ==
    ASSUME ApiTypeOK, vsc # Absent, NEW STATE a, a \in SUBSET Annotations,
           PutContent(NextContent([vsc EXCEPT !.anns = a]))
    PROVE  Puts(a, vsc.status, vsc.deleting, vsc.fin)
<1> DEFINE d == [vsc EXCEPT !.anns = a]
<1>1. vsc \in Content
  BY DEF ApiTypeOK
<1>2. d \in Content /\ d.anns = a /\ d.status = vsc.status
        /\ d.deleting = vsc.deleting /\ d.fin = vsc.fin
  BY <1>1 DEF Content
<1>3. PutContent(NextContent(d))
  OBVIOUS
<1> HIDE DEF d
<1>4. Puts(d.anns, d.status, d.deleting, d.fin)
  BY <1>2, <1>3, PutsFields
<1> QED BY <1>2, <1>4

\* Nor does a write of the status,
LEMMA PutsStatus ==
    ASSUME ApiTypeOK, vsc # Absent, NEW STATE t, t \in ContentStatus,
           PutContent(NextContent([vsc EXCEPT !.status = t]))
    PROVE  Puts(vsc.anns, t, vsc.deleting, vsc.fin)
<1> DEFINE d == [vsc EXCEPT !.status = t]
<1>1. vsc \in Content
  BY DEF ApiTypeOK
<1>2. d \in Content /\ d.anns = vsc.anns /\ d.status = t
        /\ d.deleting = vsc.deleting /\ d.fin = vsc.fin
  BY <1>1 DEF Content
<1>3. PutContent(NextContent(d))
  OBVIOUS
<1> HIDE DEF d
<1>4. Puts(d.anns, d.status, d.deleting, d.fin)
  BY <1>2, <1>3, PutsFields
<1> QED BY <1>2, <1>4

\* ... of the finalizer,
LEMMA PutsFinalizer ==
    ASSUME ApiTypeOK, vsc # Absent, NEW b \in BOOLEAN,
           PutContent(NextContent([vsc EXCEPT !.fin = b]))
    PROVE  Puts(vsc.anns, vsc.status, vsc.deleting, b)
<1> DEFINE d == [vsc EXCEPT !.fin = b]
<1>1. vsc \in Content
  BY DEF ApiTypeOK
<1>2. d \in Content /\ d.anns = vsc.anns /\ d.status = vsc.status
        /\ d.deleting = vsc.deleting /\ d.fin = b
  BY <1>1 DEF Content
<1>3. PutContent(NextContent(d))
  OBVIOUS
<1> HIDE DEF d
<1>4. Puts(d.anns, d.status, d.deleting, d.fin)
  BY <1>2, <1>3, PutsFields
<1> QED BY <1>2, <1>4

\* ... or a deletion.
LEMMA PutsDeleting ==
    ASSUME ApiTypeOK, vsc # Absent,
           PutContent(NextContent([vsc EXCEPT !.deleting = TRUE]))
    PROVE  Puts(vsc.anns, vsc.status, TRUE, vsc.fin)
<1> DEFINE d == [vsc EXCEPT !.deleting = TRUE]
<1>1. vsc \in Content
  BY DEF ApiTypeOK
<1>2. d \in Content /\ d.anns = vsc.anns /\ d.status = vsc.status
        /\ d.deleting = TRUE /\ d.fin = vsc.fin
  BY <1>1 DEF Content
<1>3. PutContent(NextContent(d))
  OBVIOUS
<1> HIDE DEF d
<1>4. Puts(d.anns, d.status, d.deleting, d.fin)
  BY <1>2, <1>3, PutsFields
<1> QED BY <1>2, <1>4

-----------------------------------------------------------------------------
(***************************************************************************)
(* The writes of the content, action by action.  Kept: not written.        *)
(***************************************************************************)
Kept == UNCHANGED <<vsc, rev>>

\* createSnapshotContent makes a content if there is none.
LEMMA CreateSnapshotContentWrites ==
    ASSUME TypeOK, NEW reply \in Replies, CreateSnapshotContent(reply)
    PROVE  \/ Kept
           \/ /\ vsc = Absent /\ vsc' \in Content
              /\ vsc'.anns = {} /\ vsc'.status = "nil"
              /\ ~vsc'.deleting /\ ~vsc'.fin
              /\ rev' = rev + 1 /\ vsc'.rv = rev'
<1> SUFFICES ASSUME ~Kept
             PROVE  /\ vsc = Absent /\ vsc' \in Content
                    /\ vsc'.anns = {} /\ vsc'.status = "nil"
                    /\ ~vsc'.deleting /\ ~vsc'.fin
                    /\ rev' = rev + 1 /\ vsc'.rv = rev'
  OBVIOUS
<1> DEFINE new == [rv |-> rev + 1, uid |-> rev + 1, deleting |-> FALSE,
                   fin |-> FALSE, anns |-> {}, status |-> "nil"]
<1>1. vsc = Absent /\ PutContent(new)
  BY DEF CreateSnapshotContent, Kept
<1>2. new \in Content
  BY DEF Content, ContentStatus, TypeOK, ApiTypeOK
<1> QED BY <1>1, <1>2 DEF PutContent

\* The patch of BeingDeleted, sent by either worker.
LEMMA PatchBeingDeletedWrites ==
    ASSUME TypeOK, NEW reply \in Replies, NEW STATE anns,
           anns \in SUBSET Annotations, PatchBeingDeleted(anns, reply)
    PROVE  \/ Kept /\ UNCHANGED lapses /\ reply = "error"
           \/ /\ Puts(anns, vsc.status, vsc.deleting, vsc.fin)
              /\ Note("dropCreated", "BeingCreated" \in vsc.anns \ anns)
              /\ reply # "error"
<1>1. CASE reply = "error"
  BY <1>1 DEF PatchBeingDeleted, Kept
<1>2. CASE reply # "error"
  <2>1. vsc # Absent
    BY <1>2 DEF PatchBeingDeleted, Answer
  <2>2. /\ PutContent(NextContent([vsc EXCEPT !.anns = anns]))
        /\ Note("dropCreated", "BeingCreated" \in vsc.anns \ anns)
    BY <1>2 DEF PatchBeingDeleted
  <2> QED BY <1>2, <2>1, <2>2, PutsAnnotations DEF TypeOK
<1> QED BY <1>1, <1>2

\* The snapshot worker deletes the content.
LEMMA DeleteContentWrites ==
    ASSUME TypeOK, NEW reply \in Replies, DeleteContent(reply)
    PROVE  \/ Kept /\ reply = "error"
           \/ reply # "error" /\ Puts(vsc.anns, vsc.status, TRUE, vsc.fin)
<1>1. reply # "error" => vsc # Absent
  BY DEF DeleteContent, Answer
<1> QED BY <1>1, PutsDeleting DEF DeleteContent, Kept, TypeOK

\* The content worker adds the finalizer.
LEMMA AddContentFinalizerWrites ==
    ASSUME TypeOK, NEW reply \in Replies, AddContentFinalizer(reply)
    PROVE  Kept \/ Puts(vsc.anns, vsc.status, vsc.deleting, TRUE)
<1>1. reply # "error" => vsc # Absent
  BY DEF AddContentFinalizer, Answer
<1> QED BY <1>1, PutsFinalizer DEF AddContentFinalizer, Kept, TypeOK

\* The sidecar adds BeingCreated to the annotations it knows.
LEMMA SetAnnVolumeSnapshotBeingCreatedWrites ==
    ASSUME TypeOK, NEW reply \in Replies, SetAnnVolumeSnapshotBeingCreated(reply)
    PROVE  \/ Kept /\ UNCHANGED lapses /\ reply = "error"
           \/ /\ Puts(dw.anns \cup {"BeingCreated"}, vsc.status, vsc.deleting, vsc.fin)
              /\ Note("dropDeleted", "BeingDeleted" \in vsc.anns \ dw.anns)
              /\ reply # "error"
<1>1. CASE reply = "error"
  BY <1>1 DEF SetAnnVolumeSnapshotBeingCreated, Kept
<1>2. CASE reply # "error"
  <2>1. vsc # Absent
    BY <1>2 DEF SetAnnVolumeSnapshotBeingCreated, Answer
  <2>2. dw.anns \cup {"BeingCreated"} \in SUBSET Annotations
    BY SidecarWorkFields DEF TypeOK, SidecarTypeOK, Annotations
  <2>3. /\ PutContent(NextContent([vsc EXCEPT !.anns = dw.anns \cup {"BeingCreated"}]))
        /\ Note("dropDeleted", "BeingDeleted" \in vsc.anns \ dw.anns)
    BY <1>2 DEF SetAnnVolumeSnapshotBeingCreated
  <2> QED BY <1>2, <2>1, <2>2, <2>3, PutsAnnotations DEF TypeOK
<1> QED BY <1>1, <1>2

\* ... writes the status,
LEMMA UpdateSnapshotContentStatusWrites ==
    ASSUME TypeOK, NEW reply \in Replies, UpdateSnapshotContentStatus(reply)
    PROVE  \/ Kept /\ reply = "error"
           \/ /\ reply # "error"
              /\ Puts(vsc.anns, IF dw.ready THEN "ready" ELSE "cut", vsc.deleting,
                      vsc.fin)
<1>1. CASE reply = "error"
  BY <1>1 DEF UpdateSnapshotContentStatus, Kept
<1>2. CASE reply # "error"
  <2>1. vsc # Absent
    BY <1>2 DEF UpdateSnapshotContentStatus, Answer
  <2>2. PutContent(NextContent([vsc EXCEPT !.status = IF dw.ready THEN "ready"
                                                      ELSE "cut"]))
    BY <1>2 DEF UpdateSnapshotContentStatus
  <2>3. (IF dw.ready THEN "ready" ELSE "cut") \in ContentStatus
    BY DEF ContentStatus
  <2> QED BY <1>2, <2>1, <2>2, <2>3, PutsStatus DEF TypeOK
<1> QED BY <1>1, <1>2

\* ... takes BeingCreated away,
LEMMA RemoveAnnVolumeSnapshotBeingCreatedWrites ==
    ASSUME TypeOK, NEW reply \in Replies, RemoveAnnVolumeSnapshotBeingCreated(reply)
    PROVE  \/ Kept /\ reply = "error"
           \/ /\ reply # "error"
              /\ Puts(vsc.anns \ {"BeingCreated"}, vsc.status, vsc.deleting, vsc.fin)
<1>1. CASE reply = "error"
  BY <1>1 DEF RemoveAnnVolumeSnapshotBeingCreated, Kept
<1>2. CASE reply # "error"
  <2>1. vsc # Absent
    BY <1>2 DEF RemoveAnnVolumeSnapshotBeingCreated, Answer
  <2>2. PutContent(NextContent([vsc EXCEPT !.anns = vsc.anns \ {"BeingCreated"}]))
    BY <1>2 DEF RemoveAnnVolumeSnapshotBeingCreated
  <2>3. vsc.anns \ {"BeingCreated"} \in SUBSET Annotations
    BY <2>1, ContentFields DEF TypeOK, ApiTypeOK
  <2> QED BY <1>2, <2>1, <2>2, <2>3, PutsAnnotations DEF TypeOK
<1> QED BY <1>1, <1>2

\* ... reports an error,
LEMMA UpdateContentErrorStatusWrites ==
    ASSUME TypeOK, NEW reply \in Replies, UpdateContentErrorStatus(reply)
    PROVE  \/ Kept
           \/ Puts(vsc.anns,
                   IF dw.status # "nil" /\ HasHandle(vsc) THEN "cut" ELSE "error",
                   vsc.deleting, vsc.fin)
<1>1. CASE reply = "error"
  BY <1>1 DEF UpdateContentErrorStatus, Kept
<1>2. CASE reply # "error"
  <2>1. vsc # Absent
    BY <1>2 DEF UpdateContentErrorStatus, Answer
  <2>2. PutContent(NextContent([vsc EXCEPT !.status =
                     IF dw.status # "nil" /\ HasHandle(vsc) THEN "cut" ELSE "error"]))
    BY <1>2 DEF UpdateContentErrorStatus
  <2>3. (IF dw.status # "nil" /\ HasHandle(vsc) THEN "cut" ELSE "error")
          \in ContentStatus
    BY DEF ContentStatus
  <2> QED BY <2>1, <2>2, <2>3, PutsStatus DEF TypeOK
<1> QED BY <1>1, <1>2

\* ... clears the status,
LEMMA ClearVolumeContentStatusWrites ==
    ASSUME TypeOK, NEW reply \in Replies, ClearVolumeContentStatus(reply)
    PROVE  \/ Kept
           \/ Puts(vsc.anns, IF vsc.status = "nil" THEN "nil" ELSE "cleared",
                   vsc.deleting, vsc.fin)
<1>1. CASE reply = "error"
  BY <1>1 DEF ClearVolumeContentStatus, Kept
<1>2. CASE reply # "error"
  <2>1. vsc # Absent
    BY <1>2 DEF ClearVolumeContentStatus, Answer
  <2>2. PutContent(NextContent([vsc EXCEPT !.status =
                     IF vsc.status = "nil" THEN "nil" ELSE "cleared"]))
    BY <1>2 DEF ClearVolumeContentStatus
  <2>3. (IF vsc.status = "nil" THEN "nil" ELSE "cleared") \in ContentStatus
    BY DEF ContentStatus
  <2> QED BY <2>1, <2>2, <2>3, PutsStatus DEF TypeOK
<1> QED BY <1>1, <1>2

\* ... and lets the content go.
LEMMA RemoveContentFinalizerWrites ==
    ASSUME TypeOK, NEW reply \in Replies, RemoveContentFinalizer(reply)
    PROVE  Kept \/ Puts(vsc.anns, vsc.status, vsc.deleting, FALSE)
<1>1. reply # "error" => vsc # Absent
  BY DEF RemoveContentFinalizer, Answer
<1> QED BY <1>1, PutsFinalizer DEF RemoveContentFinalizer, Kept, TypeOK

-----------------------------------------------------------------------------
(***************************************************************************)
(* The writes of the snapshot.                                             *)
(***************************************************************************)
\* An update of the snapshot writes its fields; it goes if it is being deleted
\* and has no finalizer.
LEMMA SnapshotPutFields ==
    ASSUME ApiTypeOK, vs # Absent, NEW STATE d, d \in Snapshot,
           PutSnapshot(NextSnapshot(d))
    PROVE  IF d.deleting /\ d.fins = {} THEN vs' = Absent
           ELSE vs' \in Snapshot /\ vs'.deleting = d.deleting /\ vs'.fins = d.fins
<1> DEFINE n == NextSnapshot(d)
<1>1. n \in Snapshot
  BY NextSnapshotType
<1>2. n.deleting = d.deleting /\ n.fins = d.fins
  BY DEF NextSnapshot, Snapshot
<1>3. vs' = IF n.deleting /\ n.fins = {} THEN Absent ELSE n
  BY DEF PutSnapshot
<1> HIDE DEF n
<1> QED BY <1>1, <1>2, <1>3

\* A snapshot that is written and stays, with all its finalizers.
Stays ==
    /\ vs # Absent /\ vs' # Absent
    /\ vs'.deleting = vs.deleting /\ vs.fins \subseteq vs'.fins

\* A snapshot that is being deleted has a finalizer.
HeldWhileDeleted == vs # Absent /\ vs.deleting => vs.fins # {}

\* A finalizer is added to the snapshot the server has, if nobody deletes it.
LEMMA AddSnapshotFinalizerWrites ==
    ASSUME TypeOK, NEW reply \in Replies, AddSnapshotFinalizer(reply)
    PROVE  \/ UNCHANGED vs /\ sw' = SnapshotIdle
           \/ /\ Stays /\ ~vs'.deleting
              /\ vs'.fins = vs.fins \cup FinalizersToAdd(sw.snap, sw.found)
              /\ sw' \in {SnapshotIdle, SyncStep(sw.snap, contentStore)}
<1>1. CASE reply = "error"
  BY <1>1 DEF AddSnapshotFinalizer, RetrySnapshot
<1>2. CASE reply # "error"
  <2> DEFINE add == FinalizersToAdd(sw.snap, sw.found)
             d == [vs EXCEPT !.fins = @ \cup add]
  <2>1. vs \in Snapshot /\ vs # Absent /\ ~vs.deleting
    BY <1>2 DEF AddSnapshotFinalizer, Answer, TypeOK, ApiTypeOK
  <2>2. PutSnapshot(NextSnapshot(d))
    BY <1>2 DEF AddSnapshotFinalizer
  <2>3. sw' \in {SnapshotIdle, SyncStep(sw.snap, contentStore)}
    BY DEF AddSnapshotFinalizer, RetrySnapshot
  <2>4. vs.fins \cup add \in SUBSET SnapshotFinalizers
    BY <2>1, SnapshotFields DEF FinalizersToAdd
  <2> HIDE DEF add
  <2>5. d \in Snapshot /\ d.deleting = FALSE /\ d.fins = vs.fins \cup add
    BY <2>1, <2>4 DEF Snapshot
  <2> HIDE DEF d
  <2>6. vs' \in Snapshot /\ vs'.deleting = FALSE /\ vs'.fins = vs.fins \cup add
    BY <2>1, <2>2, <2>5, SnapshotPutFields DEF TypeOK
  <2>7. Stays /\ ~vs'.deleting
    BY <2>1, <2>6, SnapshotFields, AbsentAssumption DEF Stays
  <2>8. vs'.fins = vs.fins \cup FinalizersToAdd(sw.snap, sw.found)
    BY <2>6 DEF add
  <2> QED BY <2>3, <2>7, <2>8
<1> QED BY <1>1, <1>2

\* A write of the status leaves the snapshot where it is.
LEMMA StatusWrites ==
    ASSUME TypeOK, HeldWhileDeleted,
           FailBind \/ (\E reply \in Replies : UpdateSnapshotStatus(reply)
                                                \/ MarkMissing(reply))
    PROVE  (UNCHANGED vs \/ Stays) /\ sw' = SnapshotIdle
<1>1. sw' = SnapshotIdle
  BY DEF FailBind, UpdateSnapshotStatus, MarkMissing, RetrySnapshot, SnapshotDone
<1>2. sw.ready \in BOOLEAN
  BY SnapshotWorkFields DEF TypeOK, CommonTypeOK
<1>3. ASSUME vs # Absent,
             NEW STATE d, d \in Snapshot, d.deleting = vs.deleting, d.fins = vs.fins,
             PutSnapshot(NextSnapshot(d))
      PROVE  Stays
  BY <1>3, SnapshotPutFields, AbsentAssumption DEF Stays, HeldWhileDeleted, TypeOK
<1>4. ASSUME vs # Absent
      PROVE  LET d == [vs EXCEPT !.bound = TRUE, !.ready = sw.ready]
                 e == [vs EXCEPT !.ready = FALSE]
             IN  /\ d \in Snapshot /\ d.deleting = vs.deleting /\ d.fins = vs.fins
                 /\ e \in Snapshot /\ e.deleting = vs.deleting /\ e.fins = vs.fins
  BY <1>2, <1>4 DEF TypeOK, ApiTypeOK, Snapshot
<1>5. ASSUME FailBind PROVE UNCHANGED vs \/ Stays
  BY <1>3, <1>4, <1>5 DEF FailBind
<1>6. ASSUME NEW reply \in Replies, UpdateSnapshotStatus(reply)
      PROVE  UNCHANGED vs \/ Stays
  BY <1>3, <1>4, <1>6 DEF UpdateSnapshotStatus, Answer
<1>7. ASSUME NEW reply \in Replies, MarkMissing(reply)
      PROVE  UNCHANGED vs \/ Stays
  BY <1>3, <1>4, <1>7 DEF MarkMissing, Answer
<1> QED BY <1>1, <1>5, <1>6, <1>7

\* The finalizers are taken away: the bound one stays if a content was found
\* that will be deleted.
LEMMA RemoveSnapshotFinalizerWrites ==
    ASSUME TypeOK, NEW reply \in Replies, RemoveSnapshotFinalizer(reply)
    PROVE  /\ sw' = SnapshotIdle
           /\ \/ UNCHANGED vs
              \/ LET left == IF sw.found /\ Policy = "Delete"
                             THEN vs.fins \ {"AsSource"} ELSE {}
                 IN  /\ vs # Absent
                     /\ IF vs.deleting /\ left = {} THEN vs' = Absent
                        ELSE /\ vs' \in Snapshot /\ vs'.deleting = vs.deleting
                             /\ vs'.fins = left
<1>1. sw' = SnapshotIdle
  BY DEF RemoveSnapshotFinalizer, RetrySnapshot, SnapshotDone
<1>2. CASE reply = "error"
  BY <1>1, <1>2 DEF RemoveSnapshotFinalizer
<1>3. CASE reply # "error"
  <2> DEFINE left == IF sw.found /\ Policy = "Delete" THEN vs.fins \ {"AsSource"}
                     ELSE {}
             d == [vs EXCEPT !.fins = left]
  <2>1. vs \in Snapshot /\ vs # Absent
    BY <1>3 DEF RemoveSnapshotFinalizer, Answer, TypeOK, ApiTypeOK
  <2>2. left \in SUBSET SnapshotFinalizers
    BY <2>1, SnapshotFields
  <2>3. d = [vs EXCEPT !.fins = IF sw.found /\ Policy = "Delete"
                                THEN vs.fins \ {"AsSource"} ELSE {}]
    OBVIOUS
  <2>4. PutSnapshot(NextSnapshot(d))
    BY <1>3 DEF RemoveSnapshotFinalizer
  <2> HIDE DEF left
  <2>5. d \in Snapshot /\ d.deleting = vs.deleting /\ d.fins = left
    BY <2>1, <2>2 DEF Snapshot
  <2> HIDE DEF d
  <2>6. IF vs.deleting /\ left = {} THEN vs' = Absent
        ELSE vs' \in Snapshot /\ vs'.deleting = vs.deleting /\ vs'.fins = left
    BY <2>1, <2>4, <2>5, SnapshotPutFields DEF TypeOK
  <2> QED BY <1>1, <2>1, <2>6 DEF left
<1> QED BY <1>2, <1>3

\* The user deletes the snapshot; without a finalizer it is gone at once.
LEMMA UserDeletesSnapshotWrites ==
    ASSUME TypeOK, UserDeletesSnapshot
    PROVE  /\ vs # Absent /\ ~vs.deleting
           /\ IF vs.fins = {} THEN vs' = Absent
              ELSE vs' \in Snapshot /\ vs'.deleting /\ vs'.fins = vs.fins
<1> DEFINE d == [vs EXCEPT !.deleting = TRUE]
<1>1. vs \in Snapshot /\ vs # Absent /\ ~vs.deleting /\ PutSnapshot(NextSnapshot(d))
  BY DEF UserDeletesSnapshot, TypeOK, ApiTypeOK
<1>2. d \in Snapshot /\ d.deleting = TRUE /\ d.fins = vs.fins
  BY <1>1 DEF Snapshot
<1> HIDE DEF d
<1> QED BY <1>1, <1>2, SnapshotPutFields DEF TypeOK

-----------------------------------------------------------------------------
(***************************************************************************)
(* The steps that leave the snapshot, the cache of it and its worker alone  *)
(* do not make a content either.                                           *)
(***************************************************************************)
Aside == /\ UNCHANGED <<vs, sw, snapshotLister>>
         /\ vsc = Absent => Kept

\* Every step is one of those, or of the snapshot worker, the informer of the
\* snapshots, the user or a restart.
LEMMA StepCases ==
    ASSUME TypeOK, [Next]_vars
    PROVE  \/ SnapshotWorker /\ ~Overdue
           \/ DeliverSnapshot /\ Kept
           \/ UserDeletesSnapshot /\ Kept
           \/ RestartCommon /\ Kept
           \/ Aside
<1>1. ASSUME ContentWorker PROVE Aside
  <2>1. UNCHANGED <<vs, sw, snapshotLister>>
    BY <1>1 DEF ContentWorker, ForgetContent, IgnoreOldContent, SyncContent,
                AddContentFinalizer, AnnotateContent, NotContentWorker
  <2>2. ASSUME NEW reply \in Replies, AddContentFinalizer(reply) \/ AnnotateContent(reply)
        PROVE  vsc = Absent => Kept
    BY <2>2 DEF AddContentFinalizer, AnnotateContent, PatchBeingDeleted, Answer, Kept
  <2>3. ASSUME ForgetContent \/ IgnoreOldContent \/ SyncContent PROVE Kept
    BY <2>3 DEF ForgetContent, IgnoreOldContent, SyncContent, Kept
  <2> QED BY <1>1, <2>1, <2>2, <2>3 DEF ContentWorker, Aside
<1>2. ASSUME SidecarWorker PROVE Aside
  <2>1. UNCHANGED NotSidecarWorker
    BY <1>2 DEF SidecarWorker, SidecarCall, ForgetSidecarContent,
                IgnoreOldSidecarContent, SyncSidecarContent, CallCreate,
                CallDelete, KeepContentErrorStatus,
                SetAnnVolumeSnapshotBeingCreated, UpdateSnapshotContentStatus,
                RemoveAnnVolumeSnapshotBeingCreated, UpdateContentErrorStatus,
                ClearVolumeContentStatus, RemoveContentFinalizer
  <2>2. vsc = Absent => Kept
    BY <1>2 DEF SidecarWorker, SidecarCall, ForgetSidecarContent,
                IgnoreOldSidecarContent, SyncSidecarContent, CallCreate,
                CallDelete, KeepContentErrorStatus,
                SetAnnVolumeSnapshotBeingCreated, UpdateSnapshotContentStatus,
                RemoveAnnVolumeSnapshotBeingCreated, UpdateContentErrorStatus,
                ClearVolumeContentStatus, RemoveContentFinalizer, Answer, Kept
  <2> QED BY <2>1, <2>2 DEF NotSidecarWorker, common, Aside
<1>3. ASSUME DeliverContent \/ DeliverToSidecar \/ DeliverPVC \/ Resync
      PROVE  Aside
  BY <1>3 DEF DeliverContent, DeliverToSidecar, DeliverPVC, Resync, api, common,
              Aside, Kept
<1>4. ASSUME \/ AdminDeletesContent \/ StartRestore \/ EndRestore
             \/ DriverCompletes \/ RestartSidecar
      PROVE  Aside
  BY <1>4 DEF AdminDeletesContent, StartRestore, EndRestore, DriverCompletes,
              RestartSidecar, api, common, Aside, Kept
<1>5. ASSUME DeliverSnapshot \/ UserDeletesSnapshot \/ RestartCommon PROVE Kept
  BY <1>5 DEF DeliverSnapshot, UserDeletesSnapshot, RestartCommon, api, Kept
<1>6. ASSUME UNCHANGED vars PROVE Aside
  BY <1>6 DEF vars, api, common, Aside, Kept
<1> QED BY <1>1, <1>2, <1>3, <1>4, <1>5, <1>6 DEF Next, Deliver, Environment

\* The history of races only grows.
LEMMA LapsesStay == ASSUME [Next]_vars PROVE lapses \subseteq lapses'
<1>1. CASE SnapshotWorker
  BY <1>1 DEF SnapshotWorker, SnapshotCall, ForgetSnapshot, IgnoreOldSnapshot,
              SyncSnapshot, SyncDeletedSnapshot, FailBind, AddSnapshotFinalizer,
              CreateSnapshotContent, UpdateSnapshotStatus, MarkMissing,
              SetAnnVolumeSnapshotBeingDeleted, DeleteContent,
              RemoveSnapshotFinalizer, PatchBeingDeleted, Note
<1>2. CASE ContentWorker
  BY <1>2 DEF ContentWorker, ForgetContent, IgnoreOldContent, SyncContent,
              AddContentFinalizer, AnnotateContent, PatchBeingDeleted, Note
<1>3. CASE SidecarWorker
  BY <1>3 DEF SidecarWorker, SidecarCall, ForgetSidecarContent,
              IgnoreOldSidecarContent, SyncSidecarContent, CallCreate,
              CallDelete, KeepContentErrorStatus,
              SetAnnVolumeSnapshotBeingCreated, UpdateSnapshotContentStatus,
              RemoveAnnVolumeSnapshotBeingCreated, UpdateContentErrorStatus,
              ClearVolumeContentStatus, RemoveContentFinalizer, Note,
              NoteUnprotected
<1>4. CASE Deliver \/ Resync \/ Environment \/ UNCHANGED vars
  BY <1>4 DEF Deliver, DeliverSnapshot, DeliverContent, DeliverToSidecar,
              DeliverPVC, Resync, Environment, UserDeletesSnapshot,
              AdminDeletesContent, StartRestore, EndRestore, DriverCompletes,
              RestartCommon, RestartSidecar, NoteUnprotected, Note, vars
<1> QED BY <1>1, <1>2, <1>3, <1>4 DEF Next

-----------------------------------------------------------------------------
(***************************************************************************)
(* The source finalizer.  A content exists, or is about to be made, only of *)
(* a snapshot that the finalizer holds at the server; and the finalizer     *)
(* goes only after every copy the controller can read tells of the deletion.*)
(***************************************************************************)
SourceAtServer == vs # Absent /\ "AsSource" \in vs.fins

\* The informer's cache shows no snapshot that nobody deletes.
CopyGoing == snapshotLister = Absent \/ snapshotLister.deleting

LetsGo == {"annotate", "delete", "removeFinalizer"}

ContentHeld == vs # Absent /\ ~vs.deleting /\ vsc # Absent => "AsSource" \in vs.fins
CreateHeld  == sw.pc = "create" => SourceAtServer
AddHeld     == sw.pc = "addFinalizer" /\ "AsSource" \in sw.snap.fins => SourceAtServer
ListedHeld  == ~CopyGoing /\ "AsSource" \in snapshotLister.fins => SourceAtServer
DeletionSeen == sw.pc \in LetsGo => CopyGoing

SourceKept ==
    /\ HeldWhileDeleted
    /\ ContentHeld
    /\ CreateHeld
    /\ AddHeld
    /\ ListedHeld
    /\ DeletionSeen

\* A snapshot that lacks the source finalizer is given it.
LEMMA SourceIsAdded ==
    \A s, found : "AsSource" \notin s.fins => "AsSource" \in FinalizersToAdd(s, found)
  BY DEF FinalizersToAdd, SnapshotFinalizers

\* What is left to do of the deletion.
LEMMA DisposeFields ==
    ASSUME NEW s, NEW found
    PROVE  LET w == Dispose(s, found)
           IN  /\ w.pc = IF found /\ Policy = "Delete" THEN "delete"
                         ELSE "removeFinalizer"
               /\ w.snap = s /\ w.found = found /\ w.anns = {}
  BY DEF Dispose, SnapshotIdle

\* ... is to delete the content, or to let the snapshot go.
LEMMA DisposePC ==
    \A s, found : Dispose(s, found).pc \in {"delete", "removeFinalizer"}
  BY DEF Dispose, SnapshotIdle

\* A sync of a snapshot that is wanted keeps SourceKept.
LEMMA SourceSyncSnapshot ==
    ASSUME TypeOK, SourceKept, SyncSnapshot
    PROVE  SourceKept'
<1>1. /\ UNCHANGED <<vs, vsc, snapshotLister>>
      /\ snapshotLister \in Snapshot /\ ~CopyGoing
  BY AbsentAssumption DEF SyncSnapshot, TakeSnapshot, NotSnapshotWorker, api,
                          TypeOK, CommonTypeOK, CopyGoing
<1>2. /\ sw'.pc = "create" => "AsSource" \in snapshotLister.fins
      /\ sw'.pc = "addFinalizer" => sw'.snap = snapshotLister
      /\ sw'.pc \notin LetsGo
  <2> DEFINE found == contentStore # Absent
  <2>1. CASE FinalizersToAdd(snapshotLister, found) # {}
    <3>1. sw' = [SnapshotIdle EXCEPT !.pc = "addFinalizer",
                                     !.snap = snapshotLister, !.found = found]
      BY <2>1 DEF SyncSnapshot
    <3> QED BY <3>1 DEF SnapshotIdle, LetsGo
  <2>2. CASE FinalizersToAdd(snapshotLister, found) = {}
    <3>1. sw' = SyncStep(snapshotLister, contentStore)
      BY <2>2 DEF SyncSnapshot
    <3>2. sw'.pc \in {"missing", "idle", "create", "bind"}
      BY <1>1, <3>1, SyncStepFields DEF TypeOK, CommonTypeOK
    <3>3. "AsSource" \in snapshotLister.fins
      BY <2>2, SourceIsAdded
    <3> QED BY <3>2, <3>3 DEF LetsGo
  <2> QED BY <2>1, <2>2
<1> QED BY <1>1, <1>2 DEF SourceKept, HeldWhileDeleted, ContentHeld, CreateHeld,
           AddHeld, ListedHeld, DeletionSeen, SourceAtServer, CopyGoing

\* So does one of a snapshot that is being deleted,
LEMMA SourceSyncDeletedSnapshot ==
    ASSUME TypeOK, SourceKept, SyncDeletedSnapshot
    PROVE  SourceKept'
<1>1. /\ UNCHANGED <<vs, vsc, snapshotLister>> /\ CopyGoing
  BY DEF SyncDeletedSnapshot, TakeSnapshot, NotSnapshotWorker, api, CopyGoing
<1>2. UNCHANGED sw \/ sw'.pc \in LetsGo
  <2>1. \/ UNCHANGED sw
        \/ \E anns : sw' = [SnapshotIdle EXCEPT !.pc = "annotate",
                                !.snap = snapshotLister, !.found = TRUE,
                                !.anns = anns]
        \/ sw' = Dispose(snapshotLister, contentStore # Absent)
    BY DEF SyncDeletedSnapshot
  <2>2. Dispose(snapshotLister, contentStore # Absent).pc \in LetsGo
    BY DisposePC DEF LetsGo
  <2>3. ASSUME NEW anns
        PROVE  [SnapshotIdle EXCEPT !.pc = "annotate", !.snap = snapshotLister,
                                    !.found = TRUE, !.anns = anns].pc = "annotate"
    BY DEF SnapshotIdle
  <2> QED BY <2>1, <2>2, <2>3 DEF LetsGo
<1> QED BY <1>1, <1>2 DEF SourceKept, HeldWhileDeleted, ContentHeld, CreateHeld,
           AddHeld, ListedHeld, DeletionSeen, SourceAtServer, CopyGoing, LetsGo

\* ... the call that adds the finalizer,
LEMMA SourceAddSnapshotFinalizer ==
    ASSUME TypeOK, SourceKept, NEW reply \in Replies, AddSnapshotFinalizer(reply)
    PROVE  SourceKept'
<1>1. UNCHANGED <<vsc, snapshotLister>> /\ sw.pc = "addFinalizer"
  BY DEF AddSnapshotFinalizer, NotSnapshotCall, NotSnapshotWorker
<1>2. sw.snap \in Snapshot
  BY <1>1, SnapshotWorkFields DEF TypeOK, CommonTypeOK
<1>3. CASE UNCHANGED vs /\ sw' = SnapshotIdle
  BY <1>1, <1>3, IdleFields
     DEF SourceKept, HeldWhileDeleted, ContentHeld, CreateHeld, AddHeld,
         ListedHeld, DeletionSeen, SourceAtServer, CopyGoing, LetsGo
<1>4. CASE /\ Stays /\ ~vs'.deleting
           /\ vs'.fins = vs.fins \cup FinalizersToAdd(sw.snap, sw.found)
           /\ sw' \in {SnapshotIdle, SyncStep(sw.snap, contentStore)}
  <2>1. SourceAtServer'
    BY <1>1, <1>4, SourceIsAdded DEF SourceKept, AddHeld, SourceAtServer, Stays
  <2>2. sw'.pc \notin LetsGo
    BY <1>2, <1>4, IdleFields, SyncStepFields DEF LetsGo, TypeOK, CommonTypeOK
  <2> QED BY <1>4, <2>1, <2>2
          DEF SourceKept, HeldWhileDeleted, ContentHeld, CreateHeld, AddHeld,
              ListedHeld, DeletionSeen, SourceAtServer
<1> QED BY <1>3, <1>4, AddSnapshotFinalizerWrites

\* ... and those that take it away: all copies tell of the deletion.
LEMMA SourceRemoveSnapshotFinalizer ==
    ASSUME SafetyInv, SourceKept, NEW reply \in Replies,
           RemoveSnapshotFinalizer(reply)
    PROVE  SourceKept'
<1>1. UNCHANGED <<vsc, snapshotLister>> /\ sw.pc = "removeFinalizer"
  BY DEF RemoveSnapshotFinalizer, NotSnapshotCall, NotSnapshotWorker
<1>2. CopyGoing' /\ Going /\ sw' = SnapshotIdle
  BY <1>1, RemoveSnapshotFinalizerWrites
     DEF SafetyInv, TornDownOnlyWhenGoing, SourceKept, DeletionSeen, LetsGo,
         CopyGoing
<1>3. \/ UNCHANGED vs \/ vs' = Absent
      \/ vs'.deleting /\ vs'.fins # {}
  BY <1>2, RemoveSnapshotFinalizerWrites DEF Going, SafetyInv
<1> QED BY <1>1, <1>2, <1>3, IdleFields
        DEF SourceKept, HeldWhileDeleted, ContentHeld, CreateHeld, AddHeld,
            ListedHeld, DeletionSeen, Going, LetsGo, SourceAtServer

\* The other calls do not touch the finalizers.
LEMMA SourceSnapshotWorker ==
    ASSUME SafetyInv, SourceKept, SnapshotWorker
    PROVE  SourceKept'
<1> USE DEF SourceKept
<1>1. TypeOK
  BY DEF SafetyInv
<1>2. ASSUME ForgetSnapshot \/ IgnoreOldSnapshot PROVE SourceKept'
  <2> UNCHANGED <<vs, vsc, sw, snapshotLister>>
    BY <1>2 DEF ForgetSnapshot, IgnoreOldSnapshot, api
  <2> QED BY DEF HeldWhileDeleted, ContentHeld, CreateHeld, AddHeld, ListedHeld,
                 DeletionSeen, SourceAtServer, CopyGoing
<1>3. ASSUME NEW reply \in Replies, CreateSnapshotContent(reply) PROVE SourceKept'
  <2>1. /\ UNCHANGED <<vs, snapshotLister>> /\ sw.pc = "create"
        /\ sw'.pc \in {"idle", "status"}
    BY <1>3 DEF CreateSnapshotContent, NotSnapshotWorker, RetrySnapshot,
                SnapshotIdle
  <2> QED BY <2>1 DEF HeldWhileDeleted, ContentHeld, CreateHeld, AddHeld,
                      ListedHeld, DeletionSeen, SourceAtServer, CopyGoing, LetsGo
<1>4. ASSUME FailBind \/ \E reply \in Replies : UpdateSnapshotStatus(reply)
                                                  \/ MarkMissing(reply)
      PROVE  SourceKept'
  <2>1. (UNCHANGED vs \/ Stays) /\ sw' = SnapshotIdle
    BY <1>1, <1>4, StatusWrites
  <2>2. UNCHANGED <<vsc, snapshotLister>>
    BY <1>4 DEF FailBind, UpdateSnapshotStatus, MarkMissing, NotSnapshotCall,
                NotSnapshotWorker
  <2> QED BY <2>1, <2>2, IdleFields
          DEF Stays, HeldWhileDeleted, ContentHeld, CreateHeld, AddHeld,
              ListedHeld, DeletionSeen, SourceAtServer, CopyGoing, LetsGo
<1>5. ASSUME NEW reply \in Replies,
             SetAnnVolumeSnapshotBeingDeleted(reply) \/ DeleteContent(reply)
      PROVE  SourceKept'
  <2>1. UNCHANGED <<vs, snapshotLister>> /\ sw.pc \in LetsGo
    BY <1>5 DEF SetAnnVolumeSnapshotBeingDeleted, DeleteContent,
                NotSnapshotWorker, LetsGo
  <2>2. sw'.pc \in {"idle", "delete", "removeFinalizer"}
    <3>1. CASE SetAnnVolumeSnapshotBeingDeleted(reply)
      <4>1. sw' \in {Dispose(sw.snap, TRUE), SnapshotIdle}
        BY <3>1 DEF SetAnnVolumeSnapshotBeingDeleted, RetrySnapshot
      <4>2. Dispose(sw.snap, TRUE).pc \in {"delete", "removeFinalizer"}
        BY DisposePC, Zenon
      <4> QED BY <4>1, <4>2, IdleFields
    <3>2. CASE DeleteContent(reply)
      <4>1. [sw EXCEPT !.pc = "removeFinalizer"].pc = "removeFinalizer"
        BY <1>1 DEF TypeOK, CommonTypeOK, SnapshotWork
      <4>2. sw' = [sw EXCEPT !.pc = "removeFinalizer"] \/ sw' = SnapshotIdle
        BY <3>2 DEF DeleteContent, RetrySnapshot
      <4> QED BY <4>1, <4>2, IdleFields
    <3> QED BY <1>5, <3>1, <3>2
  <2>3. vsc' # Absent => vsc # Absent
    BY <1>5 DEF SetAnnVolumeSnapshotBeingDeleted, DeleteContent,
                PatchBeingDeleted, Answer
  <2> QED BY <2>1, <2>2, <2>3
          DEF HeldWhileDeleted, ContentHeld, CreateHeld, AddHeld, ListedHeld,
              DeletionSeen, SourceAtServer, CopyGoing, LetsGo
<1> QED BY <1>1, <1>2, <1>3, <1>4, <1>5, SourceSyncSnapshot,
           SourceSyncDeletedSnapshot, SourceAddSnapshotFinalizer,
           SourceRemoveSnapshotFinalizer
        DEF SnapshotWorker, SnapshotCall

\* SourceKept is kept by every step.
LEMMA SourceStep == ASSUME SafetyInv, SourceKept, [Next]_vars PROVE SourceKept'
<1> USE DEF SourceKept, HeldWhileDeleted, ContentHeld, CreateHeld, AddHeld,
            ListedHeld, DeletionSeen, SourceAtServer, CopyGoing
<1>1. TypeOK
  BY DEF SafetyInv
<1>2. CASE SnapshotWorker
  BY <1>2, SourceSnapshotWorker
<1>3. CASE DeliverSnapshot /\ Kept
  <2>1. UNCHANGED <<vs, vsc, sw>> /\ snapshotLister' = vs
    BY <1>3 DEF DeliverSnapshot, Kept, api
  <2>2. sw.pc \in LetsGo => Going
    BY DEF SafetyInv, TornDownOnlyWhenGoing, LetsGo
  <2> QED BY <2>1, <2>2 DEF Going
<1>4. CASE UserDeletesSnapshot /\ Kept
  <2>1. UNCHANGED <<vsc, sw, snapshotLister>>
    BY <1>4 DEF UserDeletesSnapshot, Kept, common
  <2>2. \/ vs' = Absent /\ vs.fins = {}
        \/ vs' # Absent /\ vs'.deleting /\ vs'.fins = vs.fins /\ vs.fins # {}
    BY <1>1, <1>4, UserDeletesSnapshotWrites, AbsentAssumption
  <2> QED BY <2>1, <2>2
<1>5. CASE RestartCommon /\ Kept
  <2>1. UNCHANGED <<vs, vsc>> /\ snapshotLister' = vs /\ sw' = SnapshotIdle
    BY <1>5 DEF RestartCommon, Kept, api
  <2> QED BY <2>1, IdleFields DEF LetsGo
<1>6. CASE Aside
  BY <1>6 DEF Aside, Kept
<1> QED BY <1>1, <1>2, <1>3, <1>4, <1>5, <1>6, StepCases

-----------------------------------------------------------------------------
(***************************************************************************)
(* The order of the deletion.  When the snapshot worker is about to let the *)
(* snapshot go, the content is gone or being deleted, and marked; and if the*)
(* worker saw none, there is none.  Otherwise one of the races is noted.    *)
(***************************************************************************)
MarkRaces == {"missed", "masked", "dropDeleted"}

\* The content goes; the content is marked with BeingDeleted.
Doomed == vsc # Absent => vsc.deleting
Marked == vsc # Absent => "BeingDeleted" \in vsc.anns \/ lapses \cap MarkRaces # {}

\* What a worker that is about to send the mark has in hand.
Marking ==
    /\ sw.pc \in {"annotate", "delete"} => sw.found
    /\ sw.pc = "annotate" => "BeingDeleted" \in sw.anns
    /\ cw.pc = "annotate" => "BeingDeleted" \in cw.anns

FoundOrNoted ==
    sw.pc = "removeFinalizer" /\ ~sw.found => vsc = Absent \/ "missed" \in lapses
DeletedIfFound ==
    sw.pc = "removeFinalizer" /\ sw.found /\ Policy = "Delete" => Doomed
MarkedIfSent == sw.pc \in {"delete", "removeFinalizer"} => Marked
OrphanNoted  == vs = Absent /\ Policy = "Delete" => Doomed \/ "missed" \in lapses
MarkedIfGone == vs = Absent => Marked

Letting == FoundOrNoted /\ DeletedIfFound /\ MarkedIfSent
Left == OrphanNoted /\ MarkedIfGone

Ordered == SafetyInv /\ SourceKept /\ Marking /\ Letting /\ Left

\* The two workers send what they marked.
LEMMA MarkingStep == ASSUME TypeOK, Marking, [Next]_vars PROVE Marking'
<1>1. ASSUME ContentWorker PROVE Marking'
  <2>1. UNCHANGED sw
    BY <1>1 DEF ContentWorker, ForgetContent, IgnoreOldContent, SyncContent,
                AddContentFinalizer, AnnotateContent, NotContentWorker
  <2>2. UNCHANGED cw \/ cw'.pc # "annotate" \/ "BeingDeleted" \in cw'.anns
    <3>1. ASSUME SyncContent PROVE cw'.pc # "annotate" \/ "BeingDeleted" \in cw'.anns
      <4>1. contentLister \in Content
        BY <3>1 DEF SyncContent, TypeOK, CommonTypeOK
      <4>2. [contentLister EXCEPT !.anns = @ \cup {"BeingDeleted"}].anns
              = contentLister.anns \cup {"BeingDeleted"}
        BY <4>1 DEF Content
      <4> QED BY <3>1, <4>2 DEF SyncContent, ContentIdle
    <3>2. ASSUME NEW reply \in Replies, AddContentFinalizer(reply) \/ AnnotateContent(reply)
          PROVE  UNCHANGED cw \/ cw'.pc # "annotate"
      BY <3>2, IdleFields DEF AddContentFinalizer, AnnotateContent, ContentDone,
                              RetryContent
    <3>3. ASSUME ForgetContent \/ IgnoreOldContent PROVE UNCHANGED cw
      BY <3>3 DEF ForgetContent, IgnoreOldContent
    <3> QED BY <1>1, <3>1, <3>2, <3>3 DEF ContentWorker
  <2> QED BY <2>1, <2>2 DEF Marking
<1>2. ASSUME SyncDeletedSnapshot PROVE Marking'
  <2> DEFINE c == contentStore
             marked == [c EXCEPT !.anns = @ \cup {"BeingDeleted"}]
  <2>1. UNCHANGED cw
    BY <1>2 DEF SyncDeletedSnapshot, NotSnapshotWorker
  <2>2. \/ UNCHANGED sw
        \/ /\ c # Absent
           /\ sw' = [SnapshotIdle EXCEPT !.pc = "annotate", !.snap = snapshotLister,
                                         !.found = TRUE, !.anns = marked.anns]
        \/ sw' = Dispose(snapshotLister, c # Absent)
    BY <1>2 DEF SyncDeletedSnapshot, NeedsMark
  <2>3. c # Absent => "BeingDeleted" \in marked.anns
    BY DEF TypeOK, CommonTypeOK, Content
  <2>4. ASSUME NEW anns
        PROVE  LET w == [SnapshotIdle EXCEPT !.pc = "annotate",
                           !.snap = snapshotLister, !.found = TRUE, !.anns = anns]
               IN  w.pc = "annotate" /\ w.found = TRUE /\ w.anns = anns
    BY DEF SnapshotIdle
  <2>5. LET w == Dispose(snapshotLister, c # Absent)
        IN  w.pc \in {"delete", "removeFinalizer"} /\ (w.pc = "delete" => w.found)
    BY DEF Dispose, SnapshotIdle
  <2> HIDE DEF marked, c
  <2> QED BY <2>1, <2>2, <2>3, <2>4, <2>5 DEF Marking
<1>3. ASSUME NEW reply \in Replies, SetAnnVolumeSnapshotBeingDeleted(reply)
      PROVE  Marking'
  <2>1. UNCHANGED cw /\ sw' \in {Dispose(sw.snap, TRUE), SnapshotIdle}
    BY <1>3 DEF SetAnnVolumeSnapshotBeingDeleted, RetrySnapshot, NotSnapshotWorker
  <2>2. LET w == Dispose(sw.snap, TRUE)
        IN  w.pc # "annotate" /\ w.found = TRUE
    BY DEF Dispose, SnapshotIdle
  <2> QED BY <2>1, <2>2, IdleFields DEF Marking
<1>4. ASSUME SyncSnapshot \/ \E reply \in Replies : AddSnapshotFinalizer(reply)
      PROVE  Marking'
  <2>1. UNCHANGED cw
    BY <1>4 DEF SyncSnapshot, AddSnapshotFinalizer, NotSnapshotCall,
                NotSnapshotWorker
  <2>2. sw'.pc \notin {"annotate", "delete"}
    <3>1. CASE SyncSnapshot
      <4>1. snapshotLister \in Snapshot /\ contentStore \in Content \cup {Absent}
        BY <3>1 DEF SyncSnapshot, TakeSnapshot, TypeOK, CommonTypeOK
      <4>2. \A found : [SnapshotIdle EXCEPT !.pc = "addFinalizer",
                          !.snap = snapshotLister, !.found = found].pc = "addFinalizer"
        BY DEF SnapshotIdle
      <4>3. \/ sw' = SyncStep(snapshotLister, contentStore)
            \/ \E found : sw' = [SnapshotIdle EXCEPT !.pc = "addFinalizer",
                                   !.snap = snapshotLister, !.found = found]
        BY <3>1 DEF SyncSnapshot
      <4> QED BY <4>1, <4>2, <4>3, SyncStepFields
    <3>2. ASSUME NEW reply \in Replies, AddSnapshotFinalizer(reply)
          PROVE  sw'.pc \notin {"annotate", "delete"}
      <4>1. sw.snap \in Snapshot /\ contentStore \in Content \cup {Absent}
        BY <3>2, SnapshotWorkFields DEF AddSnapshotFinalizer, TypeOK, CommonTypeOK
      <4>2. sw' \in {SnapshotIdle, SyncStep(sw.snap, contentStore)}
        BY <3>2, AddSnapshotFinalizerWrites
      <4> QED BY <4>1, <4>2, IdleFields, SyncStepFields
    <3> QED BY <1>4, <3>1, <3>2
  <2> QED BY <2>1, <2>2 DEF Marking
<1>5. ASSUME NEW reply \in Replies,
             \/ CreateSnapshotContent(reply) \/ UpdateSnapshotStatus(reply)
             \/ FailBind \/ MarkMissing(reply) \/ RemoveSnapshotFinalizer(reply)
      PROVE  Marking'
  <2>1. UNCHANGED cw
    BY <1>5 DEF CreateSnapshotContent, UpdateSnapshotStatus, FailBind, MarkMissing,
                RemoveSnapshotFinalizer, NotSnapshotCall, NotSnapshotWorker
  <2>2. sw' \in {SnapshotIdle, [SnapshotIdle EXCEPT !.pc = "status"]}
    BY <1>5 DEF CreateSnapshotContent, UpdateSnapshotStatus, FailBind, MarkMissing,
                RemoveSnapshotFinalizer, RetrySnapshot, SnapshotDone
  <2>3. [SnapshotIdle EXCEPT !.pc = "status"].pc = "status"
    BY DEF SnapshotIdle
  <2> QED BY <2>1, <2>2, <2>3, IdleFields DEF Marking
<1>6. ASSUME NEW reply \in Replies, DeleteContent(reply) PROVE Marking'
  <2>1. UNCHANGED cw
    BY <1>6 DEF DeleteContent, NotSnapshotWorker
  <2>2. sw' \in {[sw EXCEPT !.pc = "removeFinalizer"], SnapshotIdle}
    BY <1>6 DEF DeleteContent, RetrySnapshot
  <2>3. [sw EXCEPT !.pc = "removeFinalizer"].pc = "removeFinalizer"
    BY DEF TypeOK, CommonTypeOK, SnapshotWork
  <2> QED BY <2>1, <2>2, <2>3, IdleFields DEF Marking
<1>7. ASSUME ForgetSnapshot \/ IgnoreOldSnapshot PROVE Marking'
  BY <1>7 DEF ForgetSnapshot, IgnoreOldSnapshot, Marking
<1>8. ASSUME UNCHANGED <<sw, cw>> PROVE Marking'
  BY <1>8 DEF Marking
<1>9. ASSUME SidecarWorker PROVE UNCHANGED <<sw, cw>>
  BY <1>9 DEF SidecarWorker, SidecarCall, ForgetSidecarContent,
              IgnoreOldSidecarContent, SyncSidecarContent, CallCreate,
              CallDelete, KeepContentErrorStatus,
              SetAnnVolumeSnapshotBeingCreated, UpdateSnapshotContentStatus,
              RemoveAnnVolumeSnapshotBeingCreated, UpdateContentErrorStatus,
              ClearVolumeContentStatus, RemoveContentFinalizer,
              NotSidecarWorker, common
<1>10. ASSUME RestartCommon PROVE Marking'
  BY <1>10, IdleFields DEF RestartCommon, Marking
<1>11. ASSUME Deliver \/ Resync \/ (Environment /\ ~RestartCommon) \/ UNCHANGED vars
       PROVE  UNCHANGED <<sw, cw>>
  BY <1>11 DEF Deliver, DeliverSnapshot, DeliverContent, DeliverToSidecar,
               DeliverPVC, Resync, Environment, UserDeletesSnapshot,
               AdminDeletesContent, StartRestore, EndRestore, DriverCompletes,
               RestartSidecar, common, vars
<1>12. ASSUME SnapshotWorker PROVE Marking'
  <2>1. "ok" \in Replies
    BY DEF Replies
  <2>2. FailBind => Marking'
    BY <1>5, <2>1
  <2> QED BY <1>2, <1>3, <1>4, <1>5, <1>6, <1>7, <1>12, <2>2
          DEF SnapshotWorker, SnapshotCall
<1> QED BY <1>1, <1>8, <1>9, <1>10, <1>11, <1>12 DEF Next

\* Nothing but createSnapshotContent takes back what was done to the content.
LEMMA ContentLasts ==
    ASSUME TypeOK, Marking, [Next]_vars,
           ~(\E reply \in Replies : CreateSnapshotContent(reply))
    PROVE  (Doomed => Doomed') /\ (Marked => Marked')
             /\ (vsc = Absent => vsc' = Absent)
<1>1. lapses \subseteq lapses'
  BY LapsesStay
<1>2. CASE UNCHANGED vsc
  BY <1>1, <1>2 DEF Doomed, Marked
<1>3. ASSUME NEW STATE anns, NEW STATE status, NEW STATE fin, NEW STATE deleting,
             Puts(anns, status, deleting, fin),
             vsc.deleting => deleting,
             "BeingDeleted" \in vsc.anns
               => "BeingDeleted" \in anns \/ "dropDeleted" \in lapses'
      PROVE  (Doomed => Doomed') /\ (Marked => Marked') /\ vsc # Absent
  BY <1>1, <1>3 DEF Puts, Doomed, Marked, MarkRaces
<1>4. ASSUME NEW reply \in Replies, NEW STATE anns, anns \in SUBSET Annotations,
             "BeingDeleted" \in anns, PatchBeingDeleted(anns, reply)
      PROVE  (Doomed => Doomed') /\ (Marked => Marked')
               /\ (vsc = Absent => vsc' = Absent)
  <2>1. UNCHANGED vsc \/ Puts(anns, vsc.status, vsc.deleting, vsc.fin)
    BY <1>4, PatchBeingDeletedWrites DEF Kept
  <2> QED BY <1>2, <1>3, <1>4, <2>1
<1>5. CASE SnapshotWorker
  <2>1. ASSUME NEW reply \in Replies, SetAnnVolumeSnapshotBeingDeleted(reply)
        PROVE  (Doomed => Doomed') /\ (Marked => Marked')
                 /\ (vsc = Absent => vsc' = Absent)
    <3>1. sw.anns \in SUBSET Annotations /\ "BeingDeleted" \in sw.anns
      BY <2>1, SnapshotWorkFields
         DEF SetAnnVolumeSnapshotBeingDeleted, TypeOK, CommonTypeOK, Marking
    <3>2. PatchBeingDeleted(sw.anns, reply)
      BY <2>1 DEF SetAnnVolumeSnapshotBeingDeleted
    <3> QED BY <1>4, <3>1, <3>2
  <2>2. ASSUME NEW reply \in Replies, DeleteContent(reply)
        PROVE  (Doomed => Doomed') /\ (Marked => Marked')
                 /\ (vsc = Absent => vsc' = Absent)
    <3>1. UNCHANGED vsc \/ Puts(vsc.anns, vsc.status, TRUE, vsc.fin)
      BY <2>2, DeleteContentWrites DEF Kept
    <3> QED BY <1>2, <1>3, <3>1
  <2>3. ASSUME \/ ForgetSnapshot \/ IgnoreOldSnapshot \/ SyncSnapshot
               \/ SyncDeletedSnapshot \/ FailBind
               \/ \E reply \in Replies :
                    \/ AddSnapshotFinalizer(reply) \/ UpdateSnapshotStatus(reply)
                    \/ MarkMissing(reply) \/ RemoveSnapshotFinalizer(reply)
        PROVE  UNCHANGED vsc
    BY <2>3 DEF ForgetSnapshot, IgnoreOldSnapshot, SyncSnapshot,
                SyncDeletedSnapshot, FailBind, AddSnapshotFinalizer,
                UpdateSnapshotStatus, MarkMissing, RemoveSnapshotFinalizer,
                NotSnapshotCall, api
  <2> QED BY <1>2, <1>5, <2>1, <2>2, <2>3 DEF SnapshotWorker, SnapshotCall
<1>6. CASE ContentWorker
  <2>1. ASSUME NEW reply \in Replies, AnnotateContent(reply)
        PROVE  (Doomed => Doomed') /\ (Marked => Marked')
                 /\ (vsc = Absent => vsc' = Absent)
    <3>1. cw.anns \in SUBSET Annotations /\ "BeingDeleted" \in cw.anns
      BY <2>1 DEF AnnotateContent, TypeOK, CommonTypeOK, ContentWork, Marking
    <3>2. PatchBeingDeleted(cw.anns, reply)
      BY <2>1 DEF AnnotateContent
    <3> QED BY <1>4, <3>1, <3>2
  <2>2. ASSUME NEW reply \in Replies, AddContentFinalizer(reply)
        PROVE  (Doomed => Doomed') /\ (Marked => Marked')
                 /\ (vsc = Absent => vsc' = Absent)
    <3>1. UNCHANGED vsc \/ Puts(vsc.anns, vsc.status, vsc.deleting, TRUE)
      BY <2>2, AddContentFinalizerWrites DEF Kept
    <3> QED BY <1>2, <1>3, <3>1
  <2>3. ASSUME ForgetContent \/ IgnoreOldContent \/ SyncContent PROVE UNCHANGED vsc
    BY <2>3 DEF ForgetContent, IgnoreOldContent, SyncContent
  <2> QED BY <1>2, <1>6, <2>1, <2>2, <2>3 DEF ContentWorker
<1>7. CASE SidecarWorker
  <2>1. ASSUME NEW reply \in Replies, SetAnnVolumeSnapshotBeingCreated(reply)
        PROVE  (Doomed => Doomed') /\ (Marked => Marked')
                 /\ (vsc = Absent => vsc' = Absent)
    <3>1. \/ UNCHANGED vsc
          \/ /\ Puts(dw.anns \cup {"BeingCreated"}, vsc.status, vsc.deleting, vsc.fin)
             /\ Note("dropDeleted", "BeingDeleted" \in vsc.anns \ dw.anns)
      BY <2>1, SetAnnVolumeSnapshotBeingCreatedWrites DEF Kept
    <3> QED BY <1>2, <1>3, <3>1 DEF Note
  <2>2. ASSUME NEW reply \in Replies, RemoveAnnVolumeSnapshotBeingCreated(reply)
        PROVE  (Doomed => Doomed') /\ (Marked => Marked')
                 /\ (vsc = Absent => vsc' = Absent)
    <3>1. \/ UNCHANGED vsc
          \/ Puts(vsc.anns \ {"BeingCreated"}, vsc.status, vsc.deleting, vsc.fin)
      BY <2>2, RemoveAnnVolumeSnapshotBeingCreatedWrites DEF Kept
    <3> QED BY <1>2, <1>3, <3>1
  <2>3. ASSUME NEW STATE status, NEW STATE fin,
               UNCHANGED vsc \/ Puts(vsc.anns, status, vsc.deleting, fin)
        PROVE  (Doomed => Doomed') /\ (Marked => Marked')
                 /\ (vsc = Absent => vsc' = Absent)
    BY <1>2, <1>3, <2>3
  <2>4. ASSUME NEW reply \in Replies, UpdateSnapshotContentStatus(reply)
        PROVE  (Doomed => Doomed') /\ (Marked => Marked')
                 /\ (vsc = Absent => vsc' = Absent)
    BY <2>3, <2>4, UpdateSnapshotContentStatusWrites DEF Kept
  <2>5. ASSUME NEW reply \in Replies, UpdateContentErrorStatus(reply)
        PROVE  (Doomed => Doomed') /\ (Marked => Marked')
                 /\ (vsc = Absent => vsc' = Absent)
    BY <2>3, <2>5, UpdateContentErrorStatusWrites DEF Kept
  <2>6. ASSUME NEW reply \in Replies, ClearVolumeContentStatus(reply)
        PROVE  (Doomed => Doomed') /\ (Marked => Marked')
                 /\ (vsc = Absent => vsc' = Absent)
    BY <2>3, <2>6, ClearVolumeContentStatusWrites DEF Kept
  <2>7. ASSUME NEW reply \in Replies, RemoveContentFinalizer(reply)
        PROVE  (Doomed => Doomed') /\ (Marked => Marked')
                 /\ (vsc = Absent => vsc' = Absent)
    BY <2>3, <2>7, RemoveContentFinalizerWrites DEF Kept
  <2>8. ASSUME \/ ForgetSidecarContent \/ IgnoreOldSidecarContent
               \/ SyncSidecarContent \/ KeepContentErrorStatus
               \/ \E result : CallCreate(result) \/ CallDelete(result)
        PROVE  UNCHANGED vsc
    BY <2>8 DEF ForgetSidecarContent, IgnoreOldSidecarContent,
                SyncSidecarContent, KeepContentErrorStatus, CallCreate, CallDelete
  <2> QED BY <1>2, <1>7, <2>1, <2>2, <2>4, <2>5, <2>6, <2>7, <2>8
          DEF SidecarWorker, SidecarCall
<1>8. CASE AdminDeletesContent
  <2>1. Puts(vsc.anns, vsc.status, TRUE, vsc.fin)
    BY <1>8, PutsDeleting DEF AdminDeletesContent, TypeOK
  <2> QED BY <1>3, <2>1
<1>9. CASE Deliver \/ Resync \/ (Environment /\ ~AdminDeletesContent)
             \/ UNCHANGED vars
  <2> UNCHANGED vsc
    BY <1>9 DEF Deliver, DeliverSnapshot, DeliverContent, DeliverToSidecar,
                DeliverPVC, Resync, Environment, UserDeletesSnapshot,
                StartRestore, EndRestore, DriverCompletes, RestartCommon,
                RestartSidecar, api, vars
  <2> QED BY <1>2
<1> QED BY <1>5, <1>6, <1>7, <1>8, <1>9 DEF Next

\* What the worker relies on when it lets the snapshot go is kept.
LEMMA LettingStep == ASSUME Ordered, [Next]_vars PROVE Letting'
<1> USE DEF Letting, FoundOrNoted, DeletedIfFound, MarkedIfSent
<1>1. TypeOK /\ Marking /\ lapses \subseteq lapses'
  BY LapsesStay DEF Ordered, SafetyInv
<1>2. CASE \E reply \in Replies : CreateSnapshotContent(reply)
  <2>1. sw' \in {SnapshotIdle, [SnapshotIdle EXCEPT !.pc = "status"]}
    BY <1>2 DEF CreateSnapshotContent, RetrySnapshot
  <2>2. [SnapshotIdle EXCEPT !.pc = "status"].pc = "status"
    BY DEF SnapshotIdle
  <2> QED BY <2>1, <2>2, IdleFields
<1>3. CASE ~\E reply \in Replies : CreateSnapshotContent(reply)
  <2>1. (Doomed => Doomed') /\ (Marked => Marked') /\ (vsc = Absent => vsc' = Absent)
    BY <1>1, <1>3, ContentLasts
  <2>2. CASE UNCHANGED sw
    BY <1>1, <2>1, <2>2 DEF Ordered
  <2>3. CASE sw'.pc \notin {"delete", "removeFinalizer"}
    BY <2>3
  <2>4. CASE SyncDeletedSnapshot /\ ~UNCHANGED sw
              /\ sw'.pc \in {"delete", "removeFinalizer"}
    <3> DEFINE c == contentStore
    <3>1. sw' = Dispose(snapshotLister, c # Absent)
      <4>1. \A anns : [SnapshotIdle EXCEPT !.pc = "annotate", !.snap = snapshotLister,
                         !.found = TRUE, !.anns = anns].pc = "annotate"
        BY DEF SnapshotIdle
      <4>2. \/ UNCHANGED sw
            \/ \E anns : sw' = [SnapshotIdle EXCEPT !.pc = "annotate",
                                  !.snap = snapshotLister, !.found = TRUE,
                                  !.anns = anns]
            \/ sw' = Dispose(snapshotLister, c # Absent)
        BY <2>4 DEF SyncDeletedSnapshot
      <4> QED BY <2>4, <4>1, <4>2
    <3>2. /\ sw'.found = (c # Absent)
          /\ sw'.found /\ Policy = "Delete" => sw'.pc = "delete"
      BY <3>1 DEF Dispose, SnapshotIdle
    <3>3. /\ UNCHANGED vsc
          /\ c = Absent /\ vsc # Absent => "missed" \in lapses'
          /\ (c # Absent /\ vsc # Absent /\ "BeingDeleted" \notin vsc.anns)
               => "masked" \in lapses'
      <4>1. ~UNCHANGED sw /\ sw'.pc # "annotate"
        BY <2>4
      <4>2. \A anns : [SnapshotIdle EXCEPT !.pc = "annotate", !.snap = snapshotLister,
                         !.found = TRUE, !.anns = anns].pc = "annotate"
        BY DEF SnapshotIdle
      <4>3. /\ ~NeedsMark(c)
            /\ lapses' = lapses
                 \cup (IF c = Absent /\ vsc # Absent THEN {"missed"} ELSE {})
                 \cup (IF /\ c # Absent /\ "BeingDeleted" \in c.anns
                          /\ vsc # Absent /\ "BeingDeleted" \notin vsc.anns
                       THEN {"masked"} ELSE {})
        BY <2>4, <4>1, <4>2 DEF SyncDeletedSnapshot
      <4>4. UNCHANGED vsc
        BY <2>4 DEF SyncDeletedSnapshot, api
      <4>5. c # Absent => "BeingDeleted" \in c.anns
        BY <4>3 DEF NeedsMark
      <4> QED BY <4>3, <4>4, <4>5
    <3> HIDE DEF c
    <3> QED BY <3>2, <3>3 DEF Doomed, Marked, MarkRaces
  <2>5. ASSUME NEW reply \in Replies, SetAnnVolumeSnapshotBeingDeleted(reply),
               sw'.pc \in {"delete", "removeFinalizer"}
        PROVE  Letting'
    <3>1. sw' = Dispose(sw.snap, TRUE) /\ reply = "ok"
      BY <2>5, IdleFields DEF SetAnnVolumeSnapshotBeingDeleted, RetrySnapshot,
                              Annotated
    <3>2. LET w == Dispose(sw.snap, TRUE)
          IN  w.found /\ (Policy = "Delete" => w.pc = "delete")
      BY DEF Dispose, SnapshotIdle
    <3>3. /\ sw.anns \in SUBSET Annotations /\ "BeingDeleted" \in sw.anns
          /\ PatchBeingDeleted(sw.anns, reply)
      BY <1>1, <2>5, SnapshotWorkFields
         DEF SetAnnVolumeSnapshotBeingDeleted, TypeOK, CommonTypeOK, Marking
    <3>4. Puts(sw.anns, vsc.status, vsc.deleting, vsc.fin)
      BY <1>1, <3>1, <3>3, PatchBeingDeletedWrites
    <3>5. Marked'
      BY <3>3, <3>4 DEF Puts, Marked
    <3> QED BY <3>1, <3>2, <3>5
  <2>6. ASSUME NEW reply \in Replies, DeleteContent(reply),
               sw'.pc \in {"delete", "removeFinalizer"}
        PROVE  Letting'
    <3>1. sw' = [sw EXCEPT !.pc = "removeFinalizer"] /\ reply = "ok"
            /\ sw.pc = "delete"
      BY <2>6, IdleFields DEF DeleteContent, RetrySnapshot
    <3>2. sw'.found = sw.found /\ sw.found
      BY <1>1, <3>1 DEF TypeOK, CommonTypeOK, SnapshotWork, Marking
    <3>3. Puts(vsc.anns, vsc.status, TRUE, vsc.fin)
      BY <1>1, <2>6, <3>1, DeleteContentWrites
    <3>4. Doomed'
      BY <3>3 DEF Puts, Doomed
    <3>5. Marked'
      BY <2>1, <3>1 DEF Ordered
    <3> QED BY <3>2, <3>4, <3>5
  <2>7. ASSUME \/ SyncSnapshot \/ FailBind
               \/ \E reply \in Replies :
                    \/ AddSnapshotFinalizer(reply) \/ UpdateSnapshotStatus(reply)
                    \/ MarkMissing(reply) \/ RemoveSnapshotFinalizer(reply)
        PROVE  sw'.pc \notin {"delete", "removeFinalizer"}
    <3>1. CASE SyncSnapshot
      <4>1. snapshotLister \in Snapshot /\ contentStore \in Content \cup {Absent}
        BY <1>1, <3>1 DEF SyncSnapshot, TakeSnapshot, TypeOK, CommonTypeOK
      <4>2. \A found : [SnapshotIdle EXCEPT !.pc = "addFinalizer",
                          !.snap = snapshotLister, !.found = found].pc = "addFinalizer"
        BY DEF SnapshotIdle
      <4>3. \/ sw' = SyncStep(snapshotLister, contentStore)
            \/ \E found : sw' = [SnapshotIdle EXCEPT !.pc = "addFinalizer",
                                   !.snap = snapshotLister, !.found = found]
        BY <3>1 DEF SyncSnapshot
      <4> QED BY <4>1, <4>2, <4>3, SyncStepFields
    <3>2. ASSUME NEW reply \in Replies, AddSnapshotFinalizer(reply)
          PROVE  sw'.pc \notin {"delete", "removeFinalizer"}
      <4>1. sw.snap \in Snapshot /\ contentStore \in Content \cup {Absent}
        BY <1>1, <3>2, SnapshotWorkFields
           DEF AddSnapshotFinalizer, TypeOK, CommonTypeOK
      <4>2. sw' \in {SnapshotIdle, SyncStep(sw.snap, contentStore)}
        BY <1>1, <3>2, AddSnapshotFinalizerWrites
      <4> QED BY <4>1, <4>2, IdleFields, SyncStepFields
    <3>3. ASSUME FailBind \/ \E reply \in Replies :
                    \/ UpdateSnapshotStatus(reply)
                    \/ MarkMissing(reply) \/ RemoveSnapshotFinalizer(reply)
          PROVE  sw' = SnapshotIdle
      BY <3>3 DEF FailBind, UpdateSnapshotStatus, MarkMissing,
                  RemoveSnapshotFinalizer, RetrySnapshot, SnapshotDone
    <3> QED BY <2>7, <3>1, <3>2, <3>3, IdleFields
  <2>8. CASE ForgetSnapshot \/ IgnoreOldSnapshot
    BY <2>2, <2>8 DEF ForgetSnapshot, IgnoreOldSnapshot
  <2>9. CASE SnapshotWorker
    BY <1>3, <2>2, <2>3, <2>4, <2>5, <2>6, <2>7, <2>8, <2>9
       DEF SnapshotWorker, SnapshotCall
  <2>10. CASE DeliverSnapshot \/ UserDeletesSnapshot \/ Aside
    BY <2>2, <2>10 DEF DeliverSnapshot, UserDeletesSnapshot, Aside, common
  <2>11. CASE RestartCommon
    BY <2>3, <2>11, IdleFields DEF RestartCommon
  <2> QED BY <1>1, <2>9, <2>10, <2>11, StepCases
<1> QED BY <1>2, <1>3

\* The snapshot goes by a deletion that finds no finalizer, or with its last
\* finalizer, which the snapshot worker takes away.
LEMMA SnapshotGoes ==
    ASSUME Ordered, [Next]_vars, vs # Absent, vs' = Absent
    PROVE  \/ UserDeletesSnapshot /\ vs.fins = {} /\ Kept
           \/ \E reply \in Replies :
                RemoveSnapshotFinalizer(reply) /\ UNCHANGED <<vsc, rev, lapses>>
<1>1. TypeOK /\ HeldWhileDeleted
  BY DEF Ordered, SafetyInv, SourceKept
<1>2. ASSUME UserDeletesSnapshot PROVE vs.fins = {}
  BY <1>1, <1>2, UserDeletesSnapshotWrites, AbsentAssumption
<1>3. ASSUME NEW reply \in Replies, AddSnapshotFinalizer(reply) PROVE FALSE
  BY <1>1, <1>3, AddSnapshotFinalizerWrites DEF Stays
<1>4. ASSUME FailBind \/ \E reply \in Replies : UpdateSnapshotStatus(reply)
                                                  \/ MarkMissing(reply)
      PROVE  FALSE
  BY <1>1, <1>4, StatusWrites DEF Stays
<1>5. ASSUME NEW reply \in Replies, RemoveSnapshotFinalizer(reply)
      PROVE  UNCHANGED <<vsc, rev, lapses>>
  BY <1>5 DEF RemoveSnapshotFinalizer, NotSnapshotCall
<1>6. ASSUME \/ ForgetSnapshot \/ IgnoreOldSnapshot \/ SyncSnapshot
             \/ SyncDeletedSnapshot
             \/ \E reply \in Replies :
                  \/ CreateSnapshotContent(reply) \/ DeleteContent(reply)
                  \/ SetAnnVolumeSnapshotBeingDeleted(reply)
      PROVE  FALSE
  BY <1>6 DEF ForgetSnapshot, IgnoreOldSnapshot, SyncSnapshot, SyncDeletedSnapshot,
              CreateSnapshotContent, DeleteContent,
              SetAnnVolumeSnapshotBeingDeleted, api
<1>7. ASSUME DeliverSnapshot \/ RestartCommon \/ Aside PROVE FALSE
  BY <1>7 DEF DeliverSnapshot, RestartCommon, Aside, api
<1> QED BY <1>1, <1>2, <1>3, <1>4, <1>5, <1>6, <1>7, StepCases
        DEF SnapshotWorker, SnapshotCall

\* What a snapshot that is gone has left behind goes, and is marked.
LEMMA LeftStep == ASSUME Ordered, [Next]_vars PROVE Left'
<1> USE DEF Left, OrphanNoted, MarkedIfGone
<1>1. TypeOK /\ Marking /\ lapses \subseteq lapses'
  BY LapsesStay DEF Ordered, SafetyInv
<1> SUFFICES ASSUME vs' = Absent
             PROVE  /\ Policy = "Delete" => Doomed' \/ "missed" \in lapses'
                    /\ Marked'
  OBVIOUS
<1>2. CASE vs = Absent
  <2>1. ASSUME NEW reply \in Replies, CreateSnapshotContent(reply) PROVE FALSE
    BY <1>2, <2>1 DEF CreateSnapshotContent, Ordered, SourceKept, CreateHeld,
                      SourceAtServer
  <2>2. (Doomed => Doomed') /\ (Marked => Marked')
    BY <1>1, <2>1, ContentLasts
  <2> QED BY <1>1, <1>2, <2>2 DEF Ordered
<1>3. CASE UserDeletesSnapshot /\ vs # Absent /\ vs.fins = {} /\ Kept
  <2>1. vsc = Absent
    BY <1>3 DEF UserDeletesSnapshot, Ordered, SourceKept, ContentHeld
  <2> QED BY <1>3, <2>1 DEF Kept, Doomed, Marked
<1>4. ASSUME vs # Absent, NEW reply \in Replies, RemoveSnapshotFinalizer(reply),
             UNCHANGED <<vsc, rev, lapses>>
      PROVE  /\ Policy = "Delete" => Doomed' \/ "missed" \in lapses'
             /\ Marked'
  <2>1. /\ ~sw.found => vsc = Absent \/ "missed" \in lapses
        /\ sw.found /\ Policy = "Delete" => Doomed
        /\ Marked
    BY <1>4 DEF RemoveSnapshotFinalizer, Ordered, Letting, FoundOrNoted,
                DeletedIfFound, MarkedIfSent
  <2> QED BY <1>4, <2>1 DEF Doomed, Marked
<1> QED BY <1>2, <1>3, <1>4, SnapshotGoes

-----------------------------------------------------------------------------
(***************************************************************************)
(* The theorems that need no more than the specification.                  *)
(***************************************************************************)
LEMMA OrderedInit == Init => Ordered
<1> SUFFICES ASSUME Init PROVE Ordered
  OBVIOUS
<1>1. /\ vs # Absent /\ vs.deleting = FALSE /\ vsc = Absent
      /\ snapshotLister = Absent /\ sw.pc = "idle" /\ cw.pc = "idle"
  <2>1. vs \in Snapshot
    BY DEF Init, Snapshot
  <2>2. vs.deleting = FALSE /\ vsc = Absent /\ snapshotLister = Absent
    BY DEF Init
  <2>3. sw.pc = "idle" /\ cw.pc = "idle"
    BY DEF Init, SnapshotIdle, ContentIdle
  <2> QED BY <2>1, <2>2, <2>3, AbsentAssumption
<1>2. SourceKept
  BY <1>1 DEF SourceKept, HeldWhileDeleted, ContentHeld, CreateHeld, AddHeld,
              ListedHeld, DeletionSeen, CopyGoing, LetsGo
<1>3. Marking /\ Letting /\ Left
  BY <1>1 DEF Marking, Letting, FoundOrNoted, DeletedIfFound, MarkedIfSent, Left,
              OrphanNoted, MarkedIfGone
<1> QED BY <1>2, <1>3, SafetyInit DEF Ordered

LEMMA OrderedStep == Ordered /\ [Next]_vars => Ordered'
<1> SUFFICES ASSUME Ordered, [Next]_vars PROVE Ordered'
  OBVIOUS
<1>1. SafetyInv /\ SourceKept /\ Marking /\ TypeOK
  BY DEF Ordered, SafetyInv
<1>2. SafetyInv'
  BY <1>1, SafetyStep
<1> QED BY <1>1, <1>2, SourceStep, MarkingStep, LettingStep, LeftStep DEF Ordered

\* The inductive invariant of the deletion: what the snapshot worker has in hand
\* when it deletes the content or lets the snapshot go, against the server.
THEOREM OrderedCorrect == Spec => []Ordered
<1> QED BY OrderedInit, OrderedStep, PTL DEF Spec

\* No snapshot leaves a content behind that nobody will delete, unless it was
\* overlooked (processSnapshotWithDeletionTimestamp).
THEOREM NoOrphanCorrect == Spec => []NoOrphan
<1>1. Ordered => NoOrphan
  BY DEF Ordered, Left, OrphanNoted, Doomed, NoOrphan
<1> QED BY <1>1, OrderedCorrect, PTL

\* ... nor one without AnnVolumeSnapshotBeingDeleted, unless one of the three
\* races took it away, under either policy.
THEOREM MarkedBeforeGoneCorrect == Spec => []MarkedBeforeGone
<1>1. Ordered => MarkedBeforeGone
  BY DEF Ordered, Left, MarkedIfGone, Marked, MarkRaces, MarkedBeforeGone
<1> QED BY <1>1, OrderedCorrect, PTL

\* VolumeSnapshotBoundFinalizer stays while there is a content that was not
\* overlooked (removeSnapshotFinalizer).
THEOREM BoundFinalizerHeldCorrect == Spec => BoundFinalizerHeld
<1>1. ASSUME Ordered, [Next]_vars, Policy = "Delete", LosesBoundFinalizer
      PROVE  vsc = Absent \/ "missed" \in lapses
  <2>1. TypeOK /\ HeldWhileDeleted /\ vs # Absent /\ "Bound" \in vs.fins
          /\ (vs' # Absent => "Bound" \notin vs'.fins)
    BY <1>1 DEF Ordered, SafetyInv, SourceKept, LosesBoundFinalizer
  <2>2. ASSUME NEW reply \in Replies, RemoveSnapshotFinalizer(reply)
        PROVE  vsc = Absent \/ "missed" \in lapses
    <3>1. sw.found => \/ UNCHANGED vs
                      \/ vs' # Absent /\ vs'.fins = vs.fins \ {"AsSource"}
      <4>1. "Bound" \in vs.fins \ {"AsSource"}
        BY <2>1
      <4>2. ASSUME sw.found, ~UNCHANGED vs
            PROVE  IF vs.deleting /\ vs.fins \ {"AsSource"} = {} THEN vs' = Absent
                   ELSE vs' \in Snapshot /\ vs'.fins = vs.fins \ {"AsSource"}
        BY <1>1, <2>1, <2>2, <4>2, RemoveSnapshotFinalizerWrites
      <4> QED BY <4>1, <4>2, AbsentAssumption
    <3>2. ~sw.found
      BY <2>1, <3>1
    <3> QED BY <1>1, <2>2, <3>2 DEF RemoveSnapshotFinalizer, Ordered, Letting,
                                    FoundOrNoted
  <2>3. ASSUME Stays \/ UNCHANGED vs PROVE FALSE
    BY <2>1, <2>3 DEF Stays
  <2>4. ASSUME UserDeletesSnapshot PROVE FALSE
    BY <2>1, <2>4, UserDeletesSnapshotWrites, AbsentAssumption
  <2>5. ASSUME NEW reply \in Replies, AddSnapshotFinalizer(reply) PROVE FALSE
    BY <2>1, <2>3, <2>5, AddSnapshotFinalizerWrites
  <2>6. ASSUME FailBind \/ \E reply \in Replies : UpdateSnapshotStatus(reply)
                                                    \/ MarkMissing(reply)
        PROVE  FALSE
    BY <2>1, <2>3, <2>6, StatusWrites
  <2>7. ASSUME \/ ForgetSnapshot \/ IgnoreOldSnapshot \/ SyncSnapshot
               \/ SyncDeletedSnapshot
               \/ \E reply \in Replies :
                    \/ CreateSnapshotContent(reply) \/ DeleteContent(reply)
                    \/ SetAnnVolumeSnapshotBeingDeleted(reply)
        PROVE  UNCHANGED vs
    BY <2>7 DEF ForgetSnapshot, IgnoreOldSnapshot, SyncSnapshot,
                SyncDeletedSnapshot, CreateSnapshotContent, DeleteContent,
                SetAnnVolumeSnapshotBeingDeleted, api
  <2>8. ASSUME DeliverSnapshot \/ RestartCommon \/ Aside PROVE UNCHANGED vs
    BY <2>8 DEF DeliverSnapshot, RestartCommon, Aside, api
  <2> QED BY <1>1, <2>1, <2>2, <2>3, <2>4, <2>5, <2>6, <2>7, <2>8, StepCases
          DEF SnapshotWorker, SnapshotCall
<1>2. Ordered /\ [Next]_vars
        => [Policy = "Delete" /\ LosesBoundFinalizer
              => vsc = Absent \/ "missed" \in lapses]_vars
  BY <1>1
<1> QED BY <1>2, OrderedCorrect, PTL DEF Spec, BoundFinalizerHeld

-----------------------------------------------------------------------------
(***************************************************************************)
(* One content.  If nobody deletes a content by hand, a snapshot has one    *)
(* content in its life: it is deleted, or gone, only when no worker can make*)
(* another.  So the version in the sidecar's cache tells which state of     *)
(* that content the cache shows.                                            *)
(***************************************************************************)
NobodyDeletesContents == \A b \in Budgets : b["admin"] = 0

\* A step spends what it needs.
LEMMA BudgetStep ==
    ASSUME [Next]_vars
    PROVE  \/ UNCHANGED budget
           \/ \E kind \in Faults \ {"admin"} : Spend(kind)
           \/ AdminDeletesContent
<1>1. CASE SnapshotWorker
  BY <1>1 DEF SnapshotWorker, SnapshotCall, ForgetSnapshot, IgnoreOldSnapshot,
              SyncSnapshot, SyncDeletedSnapshot, FailBind, AddSnapshotFinalizer,
              CreateSnapshotContent, UpdateSnapshotStatus, MarkMissing,
              SetAnnVolumeSnapshotBeingDeleted, DeleteContent,
              RemoveSnapshotFinalizer, PatchBeingDeleted, Answer, Faults
<1>2. CASE ContentWorker
  BY <1>2 DEF ContentWorker, ForgetContent, IgnoreOldContent, SyncContent,
              AddContentFinalizer, AnnotateContent, PatchBeingDeleted, Answer,
              Faults
<1>3. CASE SidecarWorker
  BY <1>3 DEF SidecarWorker, SidecarCall, ForgetSidecarContent,
              IgnoreOldSidecarContent, SyncSidecarContent, CallCreate,
              CallDelete, KeepContentErrorStatus,
              SetAnnVolumeSnapshotBeingCreated, UpdateSnapshotContentStatus,
              RemoveAnnVolumeSnapshotBeingCreated, UpdateContentErrorStatus,
              ClearVolumeContentStatus, RemoveContentFinalizer, Answer, Faults
<1>4. CASE Deliver \/ EndRestore \/ DriverCompletes \/ UNCHANGED vars
  BY <1>4 DEF Deliver, DeliverSnapshot, DeliverContent, DeliverToSidecar,
              DeliverPVC, EndRestore, DriverCompletes, vars
<1>5. CASE \/ Resync \/ UserDeletesSnapshot \/ StartRestore
           \/ RestartCommon \/ RestartSidecar
  BY <1>5 DEF Resync, UserDeletesSnapshot, StartRestore, RestartCommon,
              RestartSidecar, Faults
<1>6. CASE AdminDeletesContent
  BY <1>6
<1>7. \/ SnapshotWorker \/ ContentWorker \/ SidecarWorker
      \/ Deliver \/ EndRestore \/ DriverCompletes \/ UNCHANGED vars
      \/ Resync \/ UserDeletesSnapshot \/ StartRestore
      \/ RestartCommon \/ RestartSidecar \/ AdminDeletesContent
  BY DEF Next, Environment
<1> QED BY <1>1, <1>2, <1>3, <1>4, <1>5, <1>6, <1>7

\* Nobody who has no budget for it deletes a content, now or later.
LEMMA AdminStays ==
    ASSUME TypeOK, [Next]_vars, budget["admin"] = 0
    PROVE  budget'["admin"] = 0 /\ ~AdminDeletesContent
<1>1. ~AdminDeletesContent
  BY DEF AdminDeletesContent, Spend
<1>2. ASSUME NEW kind \in Faults \ {"admin"}, Spend(kind)
      PROVE  budget'["admin"] = 0
  <2>1. "admin" \in Faults /\ kind # "admin" /\ budget \in [Faults -> Nat]
    BY DEF Faults, TypeOK, OthersTypeOK
  <2> QED BY <1>2, <2>1 DEF Spend
<1> QED BY <1>1, <1>2, BudgetStep

\* A write that deletes nothing: the content goes only if it is being deleted.
Rewrites ==
    /\ vsc # Absent
    /\ vsc' = Absent => vsc.deleting
    /\ vsc' # Absent => /\ vsc' \in Content /\ vsc'.deleting = vsc.deleting
                        /\ vsc'.rv = rev' /\ (vsc' = vsc \/ rev' = rev + 1)
    /\ rev' \in {vsc.rv, rev + 1}

\* The finalizer of the content stays, and the content with it.
FinStays == vsc # Absent /\ vsc.fin => vsc' # Absent /\ vsc'.fin

LEMMA PutsRewrites ==
    ASSUME NEW STATE anns, NEW STATE status, NEW STATE fin,
           Puts(anns, status, vsc.deleting, fin)
    PROVE  Rewrites /\ (fin => FinStays)
<1>1. Rewrites
  BY AbsentAssumption DEF Puts, Rewrites
<1>2. ASSUME fin PROVE vsc' \in Content /\ vsc'.fin
  BY <1>2 DEF Puts
<1> QED BY <1>1, <1>2, AbsentAssumption DEF FinStays

\* Every step leaves the content alone, makes it, deletes it or rewrites it; and
\* one of them takes its finalizer away.
LEMMA ContentSteps ==
    ASSUME TypeOK, [Next]_vars
    PROVE  /\ \/ Kept
              \/ /\ \E reply \in Replies : CreateSnapshotContent(reply)
                 /\ vsc = Absent /\ vsc' \in Content /\ ~vsc'.deleting
                 /\ rev' = rev + 1 /\ vsc'.rv = rev'
              \/ /\ \E reply \in Replies : DeleteContent(reply)
                 /\ Puts(vsc.anns, vsc.status, TRUE, vsc.fin)
              \/ AdminDeletesContent
              \/ Rewrites
           /\ FinStays \/ \E reply \in Replies : RemoveContentFinalizer(reply)
<1> DEFINE Fine == (Kept \/ Rewrites) /\ FinStays
<1>0. Kept => Fine
  BY DEF Kept, FinStays
<1>1. ASSUME NEW STATE anns, NEW STATE status, NEW STATE fin,
             Kept \/ Puts(anns, status, vsc.deleting, fin),
             vsc # Absent /\ vsc.fin => fin
      PROVE  Fine
  BY <1>0, <1>1, PutsRewrites DEF Puts, FinStays, Kept
<1>2. vsc # Absent => vsc.fin \in BOOLEAN
  BY ContentFields DEF TypeOK, ApiTypeOK
<1> HIDE DEF Fine
<1>3. ASSUME NEW reply \in Replies, NEW STATE anns, anns \in SUBSET Annotations,
             PatchBeingDeleted(anns, reply)
      PROVE  Fine
  BY <1>1, <1>3, PatchBeingDeletedWrites
<1>4. CASE SnapshotWorker
  <2>1. ASSUME NEW reply \in Replies, SetAnnVolumeSnapshotBeingDeleted(reply)
        PROVE  Fine
    <3>1. sw.anns \in SUBSET Annotations
      BY SnapshotWorkFields DEF TypeOK, CommonTypeOK
    <3> QED BY <1>3, <2>1, <3>1 DEF SetAnnVolumeSnapshotBeingDeleted
  <2>2. ASSUME NEW reply \in Replies, DeleteContent(reply)
        PROVE  /\ FinStays
               /\ Kept \/ Puts(vsc.anns, vsc.status, TRUE, vsc.fin)
    <3>1. Kept \/ Puts(vsc.anns, vsc.status, TRUE, vsc.fin)
      BY <2>2, DeleteContentWrites
    <3> QED BY <1>2, <3>1, AbsentAssumption DEF Puts, FinStays, Kept
  <2>3. ASSUME NEW reply \in Replies, CreateSnapshotContent(reply)
        PROVE  /\ FinStays
               /\ \/ Kept
                  \/ /\ vsc = Absent /\ vsc' \in Content /\ ~vsc'.deleting
                     /\ rev' = rev + 1 /\ vsc'.rv = rev'
    BY <2>3, CreateSnapshotContentWrites DEF FinStays, Kept
  <2>4. ASSUME \/ ForgetSnapshot \/ IgnoreOldSnapshot \/ SyncSnapshot
               \/ SyncDeletedSnapshot \/ FailBind
               \/ \E reply \in Replies :
                    \/ AddSnapshotFinalizer(reply) \/ UpdateSnapshotStatus(reply)
                    \/ MarkMissing(reply) \/ RemoveSnapshotFinalizer(reply)
        PROVE  Fine
    <3> Kept
      BY <2>4 DEF ForgetSnapshot, IgnoreOldSnapshot, SyncSnapshot,
                  SyncDeletedSnapshot, FailBind, AddSnapshotFinalizer,
                  UpdateSnapshotStatus, MarkMissing, RemoveSnapshotFinalizer,
                  NotSnapshotCall, api, Kept
    <3> QED BY <1>0
  <2> QED BY <1>4, <2>1, <2>2, <2>3, <2>4 DEF SnapshotWorker, SnapshotCall, Fine
<1>5. CASE ContentWorker
  <2>1. ASSUME NEW reply \in Replies, AnnotateContent(reply) PROVE Fine
    <3>1. cw.anns \in SUBSET Annotations
      BY DEF TypeOK, CommonTypeOK, ContentWork
    <3> QED BY <1>3, <2>1, <3>1 DEF AnnotateContent
  <2>2. ASSUME NEW reply \in Replies, AddContentFinalizer(reply) PROVE Fine
    BY <1>1, <2>2, AddContentFinalizerWrites
  <2>3. ASSUME ForgetContent \/ IgnoreOldContent \/ SyncContent PROVE Fine
    BY <1>0, <2>3 DEF ForgetContent, IgnoreOldContent, SyncContent, Kept
  <2> QED BY <1>5, <2>1, <2>2, <2>3 DEF ContentWorker, Fine
<1>6. CASE SidecarWorker
  <2>1. ASSUME NEW reply \in Replies, SetAnnVolumeSnapshotBeingCreated(reply)
        PROVE  Fine
    BY <1>1, <2>1, SetAnnVolumeSnapshotBeingCreatedWrites
  <2>2. ASSUME NEW reply \in Replies, UpdateSnapshotContentStatus(reply) PROVE Fine
    BY <1>1, <2>2, UpdateSnapshotContentStatusWrites
  <2>3. ASSUME NEW reply \in Replies, RemoveAnnVolumeSnapshotBeingCreated(reply)
        PROVE  Fine
    BY <1>1, <2>3, RemoveAnnVolumeSnapshotBeingCreatedWrites
  <2>4. ASSUME NEW reply \in Replies, UpdateContentErrorStatus(reply) PROVE Fine
    BY <1>1, <2>4, UpdateContentErrorStatusWrites
  <2>5. ASSUME NEW reply \in Replies, ClearVolumeContentStatus(reply) PROVE Fine
    BY <1>1, <2>5, ClearVolumeContentStatusWrites
  <2>6. ASSUME NEW reply \in Replies, RemoveContentFinalizer(reply)
        PROVE  Kept \/ Rewrites
    BY <2>6, RemoveContentFinalizerWrites, PutsRewrites
  <2>7. ASSUME \/ ForgetSidecarContent \/ IgnoreOldSidecarContent
               \/ SyncSidecarContent \/ KeepContentErrorStatus
               \/ \E result : CallCreate(result) \/ CallDelete(result)
        PROVE  Fine
    BY <1>0, <2>7 DEF ForgetSidecarContent, IgnoreOldSidecarContent,
                      SyncSidecarContent, KeepContentErrorStatus, CallCreate,
                      CallDelete, Kept
  <2> QED BY <1>6, <2>1, <2>2, <2>3, <2>4, <2>5, <2>6, <2>7
          DEF SidecarWorker, SidecarCall, Fine
<1>7. ASSUME AdminDeletesContent PROVE FinStays
  <2>1. Puts(vsc.anns, vsc.status, TRUE, vsc.fin)
    BY <1>7, PutsDeleting DEF AdminDeletesContent, TypeOK
  <2> QED BY <1>2, <2>1, AbsentAssumption DEF Puts, FinStays
<1>8. CASE Deliver \/ Resync \/ (Environment /\ ~AdminDeletesContent)
             \/ UNCHANGED vars
  <2> Kept
    BY <1>8 DEF Deliver, DeliverSnapshot, DeliverContent, DeliverToSidecar,
                DeliverPVC, Resync, Environment, UserDeletesSnapshot,
                StartRestore, EndRestore, DriverCompletes, RestartCommon,
                RestartSidecar, api, vars, Kept
  <2> QED BY <1>0 DEF Fine
<1> QED BY <1>4, <1>5, <1>6, <1>7, <1>8 DEF Next

\* No worker can make a content any more.
Condemned == Going /\ CopyGoing /\ sw.pc \notin {"addFinalizer", "create"}

Versioned  == vsc # Absent => vsc.rv = rev /\ rev > 0
NoneAfter  == (vsc # Absent /\ vsc.deleting) \/ (vsc = Absent /\ rev > 0) => Condemned
Cached     == sidecarLister # Absent =>
                /\ sidecarLister.rv > 0 /\ sidecarLister.rv <= rev
                /\ vsc # Absent /\ sidecarLister.rv = vsc.rv => sidecarLister = vsc
                /\ sidecarLister.deleting => Going
CallsAfter == dw.pc # "idle" \/ storage # "none" => rev > 0

Single ==
    /\ budget["admin"] = 0
    /\ Versioned
    /\ NoneAfter
    /\ Cached
    /\ CallsAfter

\* A condemned snapshot stays so.
LEMMA CondemnedStep ==
    ASSUME Ordered, [Next]_vars, Condemned
    PROVE  Condemned'
<1>1. TypeOK /\ Going'
  BY GoingStable DEF Ordered, SafetyInv, Condemned
<1>2. CASE UNCHANGED <<sw, snapshotLister>>
  BY <1>1, <1>2 DEF Condemned, CopyGoing
<1>3. CASE DeliverSnapshot \/ RestartCommon
  <2>1. snapshotLister' = vs /\ vs' = vs /\ (UNCHANGED sw \/ sw' = SnapshotIdle)
    BY <1>3 DEF DeliverSnapshot, RestartCommon, api
  <2> QED BY <1>1, <2>1, IdleFields DEF Condemned, CopyGoing, Going
<1>4. CASE SnapshotWorker
  <2>1. UNCHANGED snapshotLister
    BY <1>4 DEF SnapshotWorker, SnapshotCall, ForgetSnapshot, IgnoreOldSnapshot,
                SyncSnapshot, SyncDeletedSnapshot, FailBind, AddSnapshotFinalizer,
                CreateSnapshotContent, UpdateSnapshotStatus, MarkMissing,
                SetAnnVolumeSnapshotBeingDeleted, DeleteContent,
                RemoveSnapshotFinalizer, NotSnapshotCall, NotSnapshotWorker
  <2>2. sw'.pc \notin {"addFinalizer", "create"}
    <3>1. ASSUME \/ SyncSnapshot
                 \/ \E reply \in Replies : AddSnapshotFinalizer(reply)
                                             \/ CreateSnapshotContent(reply)
          PROVE  FALSE
      BY <3>1 DEF SyncSnapshot, TakeSnapshot, AddSnapshotFinalizer,
                  CreateSnapshotContent, Condemned, CopyGoing
    <3>2. ASSUME \/ FailBind
                 \/ \E reply \in Replies :
                      \/ UpdateSnapshotStatus(reply) \/ MarkMissing(reply)
                      \/ RemoveSnapshotFinalizer(reply)
          PROVE  sw' = SnapshotIdle
      BY <3>2 DEF FailBind, UpdateSnapshotStatus, MarkMissing,
                  RemoveSnapshotFinalizer, RetrySnapshot, SnapshotDone
    <3>3. ASSUME ForgetSnapshot \/ IgnoreOldSnapshot PROVE UNCHANGED sw
      BY <3>3 DEF ForgetSnapshot, IgnoreOldSnapshot
    <3>4. ASSUME NEW reply \in Replies, SetAnnVolumeSnapshotBeingDeleted(reply)
          PROVE  sw'.pc \in {"idle", "delete", "removeFinalizer"}
      <4>1. sw' \in {Dispose(sw.snap, TRUE), SnapshotIdle}
        BY <3>4 DEF SetAnnVolumeSnapshotBeingDeleted, RetrySnapshot
      <4>2. Dispose(sw.snap, TRUE).pc \in {"delete", "removeFinalizer"}
        BY DisposePC, Zenon
      <4> QED BY <4>1, <4>2, IdleFields
    <3>5. ASSUME NEW reply \in Replies, DeleteContent(reply)
          PROVE  sw'.pc \in {"idle", "removeFinalizer"}
      <4>1. sw' \in {[sw EXCEPT !.pc = "removeFinalizer"], SnapshotIdle}
        BY <3>5 DEF DeleteContent, RetrySnapshot
      <4>2. [sw EXCEPT !.pc = "removeFinalizer"].pc = "removeFinalizer"
        BY <1>1 DEF TypeOK, CommonTypeOK, SnapshotWork
      <4> QED BY <4>1, <4>2, IdleFields
    <3>6. ASSUME SyncDeletedSnapshot PROVE UNCHANGED sw \/ sw'.pc \in LetsGo
      <4>1. \/ UNCHANGED sw
            \/ \E anns : sw' = [SnapshotIdle EXCEPT !.pc = "annotate",
                                  !.snap = snapshotLister, !.found = TRUE,
                                  !.anns = anns]
            \/ sw' = Dispose(snapshotLister, contentStore # Absent)
        BY <3>6 DEF SyncDeletedSnapshot
      <4>2. Dispose(snapshotLister, contentStore # Absent).pc \in LetsGo
        BY DisposePC DEF LetsGo
      <4>3. \A anns : [SnapshotIdle EXCEPT !.pc = "annotate", !.snap = snapshotLister,
                         !.found = TRUE, !.anns = anns].pc = "annotate"
        BY DEF SnapshotIdle
      <4> QED BY <4>1, <4>2, <4>3 DEF LetsGo
    <3> QED BY <1>4, <3>1, <3>2, <3>3, <3>4, <3>5, <3>6, IdleFields
            DEF SnapshotWorker, SnapshotCall, Condemned, LetsGo
  <2> QED BY <1>1, <2>1, <2>2 DEF Condemned, CopyGoing
<1>5. CASE UserDeletesSnapshot \/ Aside
  BY <1>2, <1>5 DEF UserDeletesSnapshot, Aside, common
<1> QED BY <1>1, <1>2, <1>3, <1>4, <1>5, StepCases

\* The sidecar's cache takes what the server has.
LEMMA SidecarListerStep ==
    ASSUME [Next]_vars
    PROVE  UNCHANGED sidecarLister \/ (sidecarLister' = vsc /\ Kept)
<1>1. CASE SnapshotWorker
  BY <1>1 DEF SnapshotWorker, SnapshotCall, ForgetSnapshot, IgnoreOldSnapshot,
              SyncSnapshot, SyncDeletedSnapshot, FailBind, AddSnapshotFinalizer,
              CreateSnapshotContent, UpdateSnapshotStatus, MarkMissing,
              SetAnnVolumeSnapshotBeingDeleted, DeleteContent,
              RemoveSnapshotFinalizer, NotSnapshotCall, NotSnapshotWorker, sidecar
<1>2. CASE ContentWorker
  BY <1>2 DEF ContentWorker, ForgetContent, IgnoreOldContent, SyncContent,
              AddContentFinalizer, AnnotateContent, NotContentWorker, sidecar
<1>3. CASE SidecarWorker
  BY <1>3 DEF SidecarWorker, SidecarCall, ForgetSidecarContent,
              IgnoreOldSidecarContent, SyncSidecarContent, CallCreate,
              CallDelete, KeepContentErrorStatus,
              SetAnnVolumeSnapshotBeingCreated, UpdateSnapshotContentStatus,
              RemoveAnnVolumeSnapshotBeingCreated, UpdateContentErrorStatus,
              ClearVolumeContentStatus, RemoveContentFinalizer, NotSidecarWorker
<1>4. CASE Deliver \/ Resync \/ UNCHANGED vars
  BY <1>4 DEF Deliver, DeliverSnapshot, DeliverContent, DeliverToSidecar,
              DeliverPVC, Resync, vars, sidecar, api, Kept
<1>5. CASE Environment
  BY <1>5 DEF Environment, UserDeletesSnapshot, AdminDeletesContent,
              StartRestore, EndRestore, DriverCompletes, RestartCommon,
              RestartSidecar, sidecar, api, Kept
<1> QED BY <1>1, <1>2, <1>3, <1>4, <1>5 DEF Next

\* The driver is called only for a content.
LEMMA CallsStep ==
    ASSUME [Next]_vars, dw.pc = "idle", storage = "none"
    PROVE  /\ storage' = "none"
           /\ dw'.pc # "idle" => sidecarLister # Absent /\ Kept
<1>1. CASE SnapshotWorker
  BY <1>1 DEF SnapshotWorker, SnapshotCall, ForgetSnapshot, IgnoreOldSnapshot,
              SyncSnapshot, SyncDeletedSnapshot, FailBind, AddSnapshotFinalizer,
              CreateSnapshotContent, UpdateSnapshotStatus, MarkMissing,
              SetAnnVolumeSnapshotBeingDeleted, DeleteContent,
              RemoveSnapshotFinalizer, NotSnapshotCall, NotSnapshotWorker, sidecar
<1>2. CASE ContentWorker
  BY <1>2 DEF ContentWorker, ForgetContent, IgnoreOldContent, SyncContent,
              AddContentFinalizer, AnnotateContent, NotContentWorker, sidecar
<1>3. CASE SidecarWorker
  BY <1>3 DEF SidecarWorker, SidecarCall, ForgetSidecarContent,
              IgnoreOldSidecarContent, SyncSidecarContent, CallCreate,
              CallDelete, KeepContentErrorStatus,
              SetAnnVolumeSnapshotBeingCreated, UpdateSnapshotContentStatus,
              RemoveAnnVolumeSnapshotBeingCreated, UpdateContentErrorStatus,
              ClearVolumeContentStatus, RemoveContentFinalizer, Kept
<1>4. CASE Deliver \/ Resync \/ UNCHANGED vars
  BY <1>4 DEF Deliver, DeliverSnapshot, DeliverContent, DeliverToSidecar,
              DeliverPVC, Resync, vars, sidecar
<1>5. CASE Environment
  BY <1>5, IdleFields
     DEF Environment, UserDeletesSnapshot, AdminDeletesContent, StartRestore,
         EndRestore, DriverCompletes, RestartCommon, RestartSidecar, sidecar
<1> QED BY <1>1, <1>2, <1>3, <1>4, <1>5 DEF Next

LEMMA SingleInit == ASSUME NobodyDeletesContents, Init PROVE Single
<1>1. budget["admin"] = 0
  BY DEF NobodyDeletesContents, Init
<1>2. vsc = Absent /\ rev = 0 /\ sidecarLister = Absent /\ dw.pc = "idle"
        /\ storage = "none"
  BY IdleFields DEF Init, NoVersion
<1> QED BY <1>1, <1>2 DEF Single, Versioned, NoneAfter, Cached, CallsAfter

LEMMA SingleStep == ASSUME Ordered, Single, [Next]_vars PROVE Single'
<1>1. /\ TypeOK /\ TypeOK' /\ rev \in Nat /\ rev' \in Nat
      /\ vsc # Absent => vsc \in Content
  <2>1. TypeOK /\ TypeOK'
    BY TypeStep DEF Ordered, SafetyInv
  <2> QED BY <2>1 DEF TypeOK, ApiTypeOK
<1>2. budget'["admin"] = 0 /\ ~AdminDeletesContent
  BY <1>1, AdminStays DEF Single
<1>3. Condemned => Condemned'
  BY CondemnedStep
<1>4. ASSUME NEW reply \in Replies, CreateSnapshotContent(reply)
      PROVE  ~Condemned
  BY <1>4 DEF CreateSnapshotContent, Condemned
<1>5. ASSUME NEW reply \in Replies, DeleteContent(reply) PROVE Condemned
  BY <1>5 DEF DeleteContent, Condemned, Ordered, SafetyInv, TornDownOnlyWhenGoing,
              SourceKept, DeletionSeen, LetsGo
<1>6. Versioned' /\ rev' >= rev
  <2>1. vsc # Absent => vsc.rv = rev /\ rev > 0
    BY DEF Single, Versioned
  <2>2. CASE Kept
    BY <1>1, <2>1, <2>2 DEF Kept, Versioned
  <2>3. CASE rev' = rev + 1 /\ vsc'.rv = rev'
    BY <1>1, <2>3 DEF Versioned
  <2>4. CASE Puts(vsc.anns, vsc.status, TRUE, vsc.fin) \/ Rewrites
    <3>1. vsc # Absent /\ rev' \in {rev, rev + 1}
            /\ (vsc' # Absent => vsc'.rv = rev')
      BY <2>1, <2>4 DEF Puts, Rewrites
    <3> QED BY <1>1, <2>1, <3>1 DEF Versioned
  <2> QED BY <1>1, <1>2, <2>2, <2>3, <2>4, ContentSteps
<1>7. NoneAfter'
  <2>1. CASE Kept
    BY <1>3, <2>1 DEF Kept, Single, NoneAfter
  <2>2. CASE vsc' \in Content /\ ~vsc'.deleting
    BY <2>2, AbsentAssumption DEF NoneAfter
  <2>3. CASE \E reply \in Replies : DeleteContent(reply)
    BY <1>3, <1>5, <2>3 DEF NoneAfter
  <2>4. CASE Rewrites
    BY <1>3, <2>4 DEF Rewrites, Single, NoneAfter
  <2> QED BY <1>1, <1>2, <2>1, <2>2, <2>3, <2>4, ContentSteps
<1>8. Cached'
  <2> SUFFICES ASSUME sidecarLister' # Absent
               PROVE  /\ sidecarLister'.rv > 0 /\ sidecarLister'.rv <= rev'
                      /\ vsc' # Absent /\ sidecarLister'.rv = vsc'.rv
                           => sidecarLister' = vsc'
                      /\ sidecarLister'.deleting => Going'
    BY DEF Cached
  <2>1. Going => Going'
    BY <1>1, GoingStable
  <2>2. CASE sidecarLister' = vsc /\ Kept
    <3>1. vsc # Absent /\ vsc' = vsc /\ rev' = rev
      BY <2>2 DEF Kept
    <3> QED BY <1>1, <2>1, <2>2, <3>1
            DEF Single, Versioned, NoneAfter, Condemned
  <2>3. CASE UNCHANGED sidecarLister
    <3>1. /\ sidecarLister \in Content /\ sidecarLister.rv \in Nat
          /\ sidecarLister.rv > 0 /\ sidecarLister.rv <= rev
          /\ vsc # Absent /\ sidecarLister.rv = vsc.rv => sidecarLister = vsc
          /\ sidecarLister.deleting => Going
      BY <1>1, <2>3, ContentFields DEF Single, Cached, TypeOK, SidecarTypeOK
    <3>2. vsc' # Absent /\ sidecarLister.rv = vsc'.rv => sidecarLister = vsc'
      <4>1. vsc' # Absent => (vsc # Absent /\ vsc' = vsc) \/ vsc'.rv = rev + 1
        BY <1>1, <1>2, ContentSteps DEF Kept, Puts, Rewrites
      <4> QED BY <1>1, <3>1, <4>1
    <3> QED BY <1>1, <1>6, <2>1, <2>3, <3>1, <3>2
  <2> QED BY <2>2, <2>3, SidecarListerStep
<1>9. CallsAfter'
  <2>1. CASE rev > 0
    BY <1>1, <1>6, <2>1 DEF CallsAfter
  <2>2. CASE ~(rev > 0)
    <3>1. dw.pc = "idle" /\ storage = "none" /\ sidecarLister = Absent
      <4>1. sidecarLister # Absent => sidecarLister.rv \in Nat
        BY <1>1, ContentFields DEF TypeOK, SidecarTypeOK
      <4> QED BY <1>1, <2>2, <4>1 DEF Single, CallsAfter, Cached
    <3> QED BY <3>1, CallsStep DEF CallsAfter
  <2> QED BY <2>1, <2>2
<1> QED BY <1>2, <1>6, <1>7, <1>8, <1>9 DEF Single

-----------------------------------------------------------------------------
(***************************************************************************)
(* The storage.  What the driver has belongs to a content that has its      *)
(* finalizer and either the handle or BeingCreated, so that the sidecar     *)
(* does not let it go; otherwise one of two races is noted.                 *)
(***************************************************************************)
Raced == lapses \cap {"unprotected", "dropCreated"} # {}

InTheMaking == vsc # Absent /\ "BeingCreated" \in vsc.anns

\* The calls of createSnapshot, and the report of its failure.
Trying == {"annotate", "csiCreate", "putStatus", "errorStatus"}

StoredHeld ==
    storage # "none" =>
      vsc # Absent /\ vsc.fin /\ (HasHandle(vsc) \/ "BeingCreated" \in vsc.anns)
AskedKnown  == dw.pc = "csiCreate" /\ vsc # Absent => "BeingCreated" \in vsc.anns
HandleKnown == dw.pc \in {"unannotate", "tidy"} /\ vsc # Absent => HasHandle(vsc)
NoneLeft    == dw.pc \in {"giveUp", "clear", "removeFinalizer"} => storage = "none"
FirstTry    == dw.pc \in Trying /\ dw.status = "nil" /\ storage # "none"
                 => InTheMaking
StatusPut   == dw.pc = "unannotate" => dw.status \in {"cut", "ready"}

Guards ==
    /\ StoredHeld
    /\ AskedKnown
    /\ HandleKnown
    /\ NoneLeft
    /\ FirstTry
    /\ StatusPut

Guarded == Policy = "Delete" /\ ~Raced => Guards

\* An informer that does not lag has delivered when a worker takes a step.
LEMMA SidecarSeesContent ==
    ASSUME TypeOK, Single, "sidecar" \notin Lagging, ~Overdue
    PROVE  sidecarLister = vsc
<1>1. ~Behind(sidecarLister, vsc)
  BY DEF Overdue
<1> QED BY <1>1 DEF Behind, Single, Cached

\* A worker of the common controller that writes the content does not disturb
\* the guards if it keeps BeingCreated.
LEMMA GuardsElsewhere ==
    ASSUME Guards, UNCHANGED <<storage, dw>>,
           NEW STATE anns, NEW STATE deleting, NEW STATE fin,
           Kept \/ Puts(anns, vsc.status, deleting, fin),
           vsc.fin => fin,
           "BeingCreated" \in vsc.anns => "BeingCreated" \in anns
    PROVE  Guards'
<1>1. CASE Kept
  BY <1>1 DEF Kept, Guards, StoredHeld, AskedKnown, HandleKnown, NoneLeft,
              FirstTry, Trying, StatusPut, InTheMaking
<1>2. CASE Puts(anns, vsc.status, deleting, fin)
  <2>1. /\ vsc # Absent
        /\ vsc' # Absent => /\ vsc'.anns = anns /\ vsc'.status = vsc.status
                            /\ vsc'.fin = fin
        /\ vsc' = Absent => ~fin
    BY <1>2, AbsentAssumption DEF Puts
  <2>2. vsc' # Absent /\ HasHandle(vsc) => HasHandle(vsc')
    BY <2>1 DEF HasHandle
  <2>3. storage # "none" => vsc' # Absent
    BY <2>1 DEF Guards, StoredHeld
  <2> QED BY <2>1, <2>2, <2>3
          DEF Guards, StoredHeld, AskedKnown, HandleKnown, NoneLeft, FirstTry, Trying,
              StatusPut, InTheMaking
<1> QED BY <1>1, <1>2

\* createSnapshotContent makes a content when the driver has nothing.
LEMMA GuardsCreate ==
    ASSUME TypeOK, Single, Guards, NEW reply \in Replies,
           CreateSnapshotContent(reply)
    PROVE  Guards'
<1>1. UNCHANGED <<storage, dw>>
  BY DEF CreateSnapshotContent, NotSnapshotWorker, sidecar
<1>2. CASE Kept
  BY <1>1, <1>2 DEF Kept, Guards, StoredHeld, AskedKnown, HandleKnown, NoneLeft,
              FirstTry, Trying, StatusPut, InTheMaking
<1>3. CASE vsc = Absent /\ ~Kept
  <2>1. ~Condemned
    BY DEF CreateSnapshotContent, Condemned
  <2>2. dw.pc = "idle" /\ storage = "none"
    BY <1>3, <2>1 DEF Single, NoneAfter, CallsAfter
  <2> QED BY <1>1, <2>2
          DEF Guards, StoredHeld, AskedKnown, HandleKnown, NoneLeft, FirstTry, Trying,
              StatusPut
<1> QED BY <1>2, <1>3, CreateSnapshotContentWrites

\* The two workers of the common controller.
LEMMA GuardsCommon ==
    ASSUME TypeOK, Single, Guards, ~Raced', SnapshotWorker \/ ContentWorker
    PROVE  Guards'
<1>1. UNCHANGED <<storage, dw>>
  <2>1. CASE SnapshotWorker
    BY <2>1 DEF SnapshotWorker, SnapshotCall, ForgetSnapshot, IgnoreOldSnapshot,
                SyncSnapshot, SyncDeletedSnapshot, FailBind, AddSnapshotFinalizer,
                CreateSnapshotContent, UpdateSnapshotStatus, MarkMissing,
                SetAnnVolumeSnapshotBeingDeleted, DeleteContent,
                RemoveSnapshotFinalizer, NotSnapshotCall, NotSnapshotWorker,
                sidecar
  <2>2. CASE ContentWorker
    BY <2>2 DEF ContentWorker, ForgetContent, IgnoreOldContent, SyncContent,
                AddContentFinalizer, AnnotateContent, NotContentWorker, sidecar
  <2> QED BY <2>1, <2>2
<1>2. ASSUME Kept PROVE Guards'
  BY <1>1, <1>2 DEF Kept, Guards, StoredHeld, AskedKnown, HandleKnown, NoneLeft,
              FirstTry, Trying, StatusPut, InTheMaking
<1>3. ASSUME NEW reply \in Replies, NEW STATE anns, anns \in SUBSET Annotations,
             PatchBeingDeleted(anns, reply)
      PROVE  Guards'
  <2>1. \/ Kept
        \/ /\ Puts(anns, vsc.status, vsc.deleting, vsc.fin)
           /\ Note("dropCreated", "BeingCreated" \in vsc.anns \ anns)
    BY <1>3, PatchBeingDeletedWrites
  <2>2. CASE /\ Puts(anns, vsc.status, vsc.deleting, vsc.fin)
             /\ Note("dropCreated", "BeingCreated" \in vsc.anns \ anns)
    <3>1. "BeingCreated" \in vsc.anns => "BeingCreated" \in anns
      BY <2>2 DEF Note, Raced
    <3> QED BY <1>1, <2>2, <3>1, GuardsElsewhere
  <2> QED BY <1>2, <2>1, <2>2
<1>4. ASSUME NEW reply \in Replies, SetAnnVolumeSnapshotBeingDeleted(reply)
      PROVE  Guards'
  <2>1. sw.anns \in SUBSET Annotations
    BY SnapshotWorkFields DEF TypeOK, CommonTypeOK
  <2> QED BY <1>3, <1>4, <2>1 DEF SetAnnVolumeSnapshotBeingDeleted
<1>5. ASSUME NEW reply \in Replies, AnnotateContent(reply) PROVE Guards'
  <2>1. cw.anns \in SUBSET Annotations
    BY DEF TypeOK, CommonTypeOK, ContentWork
  <2> QED BY <1>3, <1>5, <2>1 DEF AnnotateContent
<1>6. ASSUME NEW reply \in Replies, DeleteContent(reply) PROVE Guards'
  <2>1. Kept \/ Puts(vsc.anns, vsc.status, TRUE, vsc.fin)
    BY <1>6, DeleteContentWrites
  <2> QED BY <1>1, <2>1, GuardsElsewhere
<1>7. ASSUME NEW reply \in Replies, AddContentFinalizer(reply) PROVE Guards'
  <2>1. Kept \/ Puts(vsc.anns, vsc.status, vsc.deleting, TRUE)
    BY <1>7, AddContentFinalizerWrites
  <2> QED BY <1>1, <2>1, GuardsElsewhere
<1>8. ASSUME \/ ForgetSnapshot \/ IgnoreOldSnapshot \/ SyncSnapshot
             \/ SyncDeletedSnapshot \/ FailBind
             \/ ForgetContent \/ IgnoreOldContent \/ SyncContent
             \/ \E reply \in Replies :
                  \/ AddSnapshotFinalizer(reply) \/ UpdateSnapshotStatus(reply)
                  \/ MarkMissing(reply) \/ RemoveSnapshotFinalizer(reply)
      PROVE  Kept
  BY <1>8 DEF ForgetSnapshot, IgnoreOldSnapshot, SyncSnapshot,
              SyncDeletedSnapshot, FailBind, ForgetContent, IgnoreOldContent,
              SyncContent, AddSnapshotFinalizer, UpdateSnapshotStatus,
              MarkMissing, RemoveSnapshotFinalizer, NotSnapshotCall, api, Kept
<1> QED BY <1>2, <1>4, <1>5, <1>6, <1>7, <1>8, GuardsCreate
        DEF SnapshotWorker, SnapshotCall, ContentWorker

\* What the sidecar's syncContent goes by.
LEMMA SidecarSyncReasons ==
    ASSUME NEW STATE c
    PROVE  LET pc == SidecarSync(c)
           IN  /\ pc \in {"csiDelete", "removeFinalizer", "idle", "csiCreate",
                          "annotate", "tidy"}
               /\ pc = "csiDelete" => c.deleting
               /\ pc = "csiCreate" => "BeingCreated" \in c.anns
               /\ pc = "annotate" => "BeingCreated" \notin c.anns
               /\ pc = "tidy" => c.status = "ready"
               /\ pc = "removeFinalizer" /\ Policy = "Delete"
                    => ~HasHandle(c) /\ "BeingCreated" \notin c.anns
<1>1. CASE ShouldDelete(c)
  <2>1. SidecarSync(c) = IF Policy = "Delete" /\ HasHandle(c) THEN "csiDelete"
                         ELSE IF c.fin THEN "removeFinalizer" ELSE "idle"
    BY <1>1, Zenon DEF SidecarSync
  <2>2. "BeingCreated" \notin c.anns /\ c.deleting
    BY <1>1 DEF ShouldDelete
  <2> QED BY <2>1, <2>2
<1>2. CASE ~ShouldDelete(c) /\ c.status # "ready"
  <2>1. SidecarSync(c) = IF "BeingCreated" \in c.anns THEN "csiCreate"
                         ELSE "annotate"
    BY <1>2, Zenon DEF SidecarSync
  <2> QED BY <2>1
<1>3. CASE ~ShouldDelete(c) /\ c.status = "ready"
  <2>1. SidecarSync(c) = IF "BeingCreated" \in c.anns THEN "tidy" ELSE "idle"
    BY <1>3, Zenon DEF SidecarSync
  <2> QED BY <1>3, <2>1
<1> QED BY <1>1, <1>2, <1>3

\* A sidecar with nothing in hand that has written nothing, or what keeps the
\* storage held, is guarded.
LEMMA GuardsIdle ==
    ASSUME dw'.pc = "idle", StoredHeld'
    PROVE  Guards'
  BY DEF Guards, AskedKnown, HandleKnown, NoneLeft, FirstTry, Trying, StatusPut

\* A sync in the sidecar, of the content the server has.
LEMMA GuardsSync ==
    ASSUME TypeOK, Single, Guards, Policy = "Delete", sidecarLister = vsc,
           SyncSidecarContent
    PROVE  Guards'
<1>1. UNCHANGED <<vsc, storage>> /\ vsc # Absent
  BY DEF SyncSidecarContent
<1>2. /\ dw'.pc = SidecarSync(vsc)
      /\ dw'.status = IF SidecarSync(vsc) \in {"annotate", "csiCreate"}
                      THEN vsc.status ELSE "nil"
  BY DEF SyncSidecarContent
<1>3. StoredHeld'
  BY <1>1 DEF Guards, StoredHeld
<1>4. /\ dw'.pc \in {"csiDelete", "removeFinalizer", "idle", "csiCreate",
                     "annotate", "tidy"}
      /\ dw'.pc = "csiCreate" => "BeingCreated" \in vsc.anns
      /\ dw'.pc = "tidy" => vsc.status = "ready"
      /\ dw'.pc = "removeFinalizer" => ~HasHandle(vsc) /\ "BeingCreated" \notin vsc.anns
      /\ dw'.pc = "annotate" => "BeingCreated" \notin vsc.anns
                                  /\ dw'.status = vsc.status
  BY <1>2, SidecarSyncReasons
<1>5. vsc.status = "ready" => HasHandle(vsc)
  BY DEF HasHandle
<1>6. vsc.status = "nil" => ~HasHandle(vsc)
  BY DEF HasHandle
<1>7. AskedKnown' /\ HandleKnown' /\ StatusPut'
  BY <1>1, <1>4, <1>5 DEF AskedKnown, HandleKnown, StatusPut
<1>8. NoneLeft' /\ FirstTry'
  BY <1>1, <1>4, <1>6 DEF Guards, StoredHeld, NoneLeft, FirstTry, Trying,
              InTheMaking
<1> QED BY <1>3, <1>7, <1>8 DEF Guards

\* The driver is asked to cut the snapshot: for a content that is there, with
\* its finalizer, or the race is noted.
LEMMA GuardsAsked ==
    ASSUME Guards, ~Raced', dw.pc = "csiCreate", NoteUnprotected, UNCHANGED vsc
    PROVE  vsc # Absent /\ vsc.fin /\ "BeingCreated" \in vsc.anns
<1>1. vsc # Absent /\ vsc.fin
  BY DEF NoteUnprotected, Note, Raced
<1> QED BY <1>1 DEF Guards, AskedKnown

LEMMA GuardsCallCreate ==
    ASSUME TypeOK, Guards, ~Raced', NEW result, CallCreate(result)
    PROVE  Guards'
<1>1. /\ dw.pc = "csiCreate" /\ NoteUnprotected /\ UNCHANGED vsc
      /\ \/ \E ready : dw' = [dw EXCEPT !.pc = "putStatus", !.ready = ready]
         \/ dw' = [dw EXCEPT !.pc = "errorStatus"]
         \/ storage' = "none" /\ dw' = [dw EXCEPT !.pc = "giveUp"]
  BY DEF CallCreate
<1>2. vsc # Absent /\ vsc.fin /\ "BeingCreated" \in vsc.anns
  BY <1>1, GuardsAsked
<1>3. dw \in [pc : SidecarPC, anns : SUBSET Annotations, status : ContentStatus,
              ready : BOOLEAN]
  BY DEF TypeOK, SidecarTypeOK, SidecarWork
<1>4. \A ready : [dw EXCEPT !.pc = "putStatus", !.ready = ready].pc = "putStatus"
  BY <1>3
<1>5. /\ [dw EXCEPT !.pc = "errorStatus"].pc = "errorStatus"
      /\ [dw EXCEPT !.pc = "giveUp"].pc = "giveUp"
  BY <1>3
<1>6. dw'.pc \in {"putStatus", "errorStatus"} \/ (storage' = "none" /\ dw'.pc = "giveUp")
  BY <1>1, <1>4, <1>5
<1> QED BY <1>1, <1>2, <1>6
        DEF Guards, StoredHeld, AskedKnown, HandleKnown, NoneLeft, FirstTry, Trying,
            StatusPut, InTheMaking

LEMMA GuardsCallDelete ==
    ASSUME TypeOK, Guards, NEW result, CallDelete(result)
    PROVE  Guards'
<1>1. UNCHANGED vsc /\ dw.pc = "csiDelete"
  BY DEF CallDelete
<1>2. CASE storage' = "none" /\ dw' = [dw EXCEPT !.pc = "clear"]
  <2>1. [dw EXCEPT !.pc = "clear"].pc = "clear"
    BY DEF TypeOK, SidecarTypeOK, SidecarWork
  <2> QED BY <1>2, <2>1 DEF Guards, StoredHeld, AskedKnown, HandleKnown, NoneLeft,
                            FirstTry, Trying, StatusPut
<1>3. CASE storage' \in {storage, "none"} /\ dw' = SidecarIdle
  <2>1. StoredHeld'
    BY <1>1, <1>3 DEF Guards, StoredHeld
  <2> QED BY <1>3, <2>1, GuardsIdle, IdleFields
<1> QED BY <1>2, <1>3 DEF CallDelete, RetrySidecar

\* What a write of the content that keeps its finalizer leaves held.
LEMMA HeldAfter ==
    ASSUME StoredHeld, UNCHANGED storage,
           NEW STATE anns, NEW STATE status,
           Puts(anns, status, vsc.deleting, vsc.fin),
           storage # "none" => status \in {"cut", "ready"} \/ "BeingCreated" \in anns
    PROVE  /\ StoredHeld'
           /\ vsc' # Absent => vsc'.anns = anns /\ vsc'.status = status
           /\ storage # "none" => vsc' # Absent
<1>1. /\ vsc # Absent
      /\ vsc' # Absent => /\ vsc'.anns = anns /\ vsc'.status = status
                          /\ vsc'.fin = vsc.fin
      /\ vsc' = Absent => ~vsc.fin
  BY AbsentAssumption DEF Puts
<1>2. vsc' # Absent /\ status \in {"cut", "ready"} => HasHandle(vsc')
  BY <1>1 DEF HasHandle
<1> QED BY <1>1, <1>2 DEF StoredHeld

\* setAnnVolumeSnapshotBeingCreated,
LEMMA GuardsSetAnn ==
    ASSUME TypeOK, Guards, NEW reply \in Replies,
           SetAnnVolumeSnapshotBeingCreated(reply)
    PROVE  Guards'
<1>1. UNCHANGED storage /\ dw.pc = "annotate"
  BY DEF SetAnnVolumeSnapshotBeingCreated
<1>2. \/ dw'.pc = "csiCreate" /\ reply = "ok"
      \/ dw'.pc = "errorStatus" /\ dw'.status = dw.status
  BY GoFields DEF SetAnnVolumeSnapshotBeingCreated, Go, SidecarIdle
<1>3. CASE Kept /\ reply = "error"
  BY <1>1, <1>2, <1>3
     DEF Kept, Guards, StoredHeld, AskedKnown, HandleKnown, NoneLeft, FirstTry,
         Trying, StatusPut, InTheMaking
<1>4. CASE Puts(dw.anns \cup {"BeingCreated"}, vsc.status, vsc.deleting, vsc.fin)
  <2>1. /\ StoredHeld'
        /\ vsc' # Absent => vsc'.anns = dw.anns \cup {"BeingCreated"}
        /\ storage # "none" => vsc' # Absent
    BY <1>1, <1>4, HeldAfter DEF Guards
  <2> QED BY <1>1, <1>2, <2>1
          DEF Guards, AskedKnown, HandleKnown, NoneLeft, FirstTry, StatusPut,
              InTheMaking
<1> QED BY <1>3, <1>4, SetAnnVolumeSnapshotBeingCreatedWrites

\* ... updateSnapshotContentStatus,
LEMMA GuardsPutStatus ==
    ASSUME TypeOK, Guards, NEW reply \in Replies,
           UpdateSnapshotContentStatus(reply)
    PROVE  Guards'
<1> DEFINE t == IF dw.ready THEN "ready" ELSE "cut"
           d == [vsc EXCEPT !.status = t]
<1>1. UNCHANGED storage /\ dw.pc = "putStatus"
  BY DEF UpdateSnapshotContentStatus
<1>2. reply # "error" => vsc # Absent
  BY DEF UpdateSnapshotContentStatus, Answer
<1>3. vsc # Absent => NextContent(d).status = t
  <2> SUFFICES ASSUME vsc # Absent PROVE NextContent(d).status = t
    OBVIOUS
  <2>1. t \in ContentStatus
    BY DEF ContentStatus
  <2>2. vsc \in Content
    BY DEF TypeOK, ApiTypeOK
  <2> HIDE DEF t
  <2>3. d \in Content /\ d.status = t
    BY <2>1, <2>2 DEF Content
  <2> HIDE DEF d
  <2> QED BY <2>2, <2>3, NextContentFields DEF TypeOK
<1>4. \/ dw'.pc = "errorStatus" /\ dw'.status = dw.status
      \/ reply = "ok" /\ dw'.pc = "unannotate" /\ dw'.status = NextContent(d).status
      \/ reply = "ok" /\ dw'.pc = "idle"
  <2>1. \/ dw' = [SidecarIdle EXCEPT !.pc = "errorStatus", !.status = dw.status]
        \/ /\ reply = "ok"
           /\ dw' = [SidecarIdle EXCEPT !.pc = "unannotate",
                                        !.status = NextContent(d).status]
        \/ reply = "ok" /\ dw' = SidecarIdle
    BY DEF UpdateSnapshotContentStatus, Go, FinishCreate, SidecarDone, RetrySidecar
  <2> HIDE DEF d
  <2>2. CASE dw' = [SidecarIdle EXCEPT !.pc = "errorStatus", !.status = dw.status]
    BY <2>2, GoFields
  <2>3. CASE /\ reply = "ok"
             /\ dw' = [SidecarIdle EXCEPT !.pc = "unannotate",
                                          !.status = NextContent(d).status]
    BY <2>3, GoFields
  <2> QED BY <2>1, <2>2, <2>3, IdleFields
<1>5. reply = "ok" => reply # "error"
  OBVIOUS
<1>6. t \in {"cut", "ready"}
  OBVIOUS
<1> HIDE DEF t, d
<1>7. CASE Kept /\ reply = "error"
  BY <1>1, <1>4, <1>5, <1>7
     DEF Kept, Guards, StoredHeld, AskedKnown, HandleKnown, NoneLeft, FirstTry,
         Trying, StatusPut, InTheMaking
<1>8. CASE reply # "error" /\ Puts(vsc.anns, t, vsc.deleting, vsc.fin)
  <2>1. /\ StoredHeld'
        /\ vsc' # Absent => vsc'.anns = vsc.anns /\ vsc'.status = t
        /\ storage # "none" => vsc' # Absent
    BY <1>1, <1>6, <1>8, HeldAfter DEF Guards
  <2>2. vsc' # Absent => HasHandle(vsc')
    BY <1>6, <2>1 DEF HasHandle
  <2> QED BY <1>1, <1>2, <1>3, <1>4, <1>6, <1>8, <2>1, <2>2
          DEF Guards, AskedKnown, HandleKnown, NoneLeft, FirstTry, Trying,
              StatusPut, InTheMaking
<1> QED BY <1>7, <1>8, UpdateSnapshotContentStatusWrites DEF t

\* ... removeAnnVolumeSnapshotBeingCreated: there is a handle, or nothing at the
\* driver.
LEMMA GuardsUnannotate ==
    ASSUME TypeOK, Guards, NEW reply \in Replies,
           RemoveAnnVolumeSnapshotBeingCreated(reply)
    PROVE  Guards'
<1>1. UNCHANGED storage /\ dw.pc \in {"unannotate", "giveUp", "tidy"}
  BY DEF RemoveAnnVolumeSnapshotBeingCreated
<1>2. storage # "none" => HasHandle(vsc) /\ dw.pc # "giveUp"
  BY <1>1 DEF Guards, StoredHeld, HandleKnown, NoneLeft
<1>3. \/ dw'.pc = "idle"
      \/ dw'.pc = "errorStatus" /\ (dw.pc = "unannotate" => dw'.status = dw.status)
  <2>1. \/ dw' = SidecarIdle
        \/ dw' = [SidecarIdle EXCEPT !.pc = "errorStatus", !.status = dw.status]
        \/ /\ dw.pc = "giveUp"
           /\ \E u : dw' = [SidecarIdle EXCEPT !.pc = "errorStatus", !.status = u]
    BY DEF RemoveAnnVolumeSnapshotBeingCreated, Go, FinishCreate, SidecarDone,
           RetrySidecar
  <2>2. CASE dw' = [SidecarIdle EXCEPT !.pc = "errorStatus", !.status = dw.status]
    BY <2>2, GoFields
  <2>3. ASSUME NEW u,
               dw' = [SidecarIdle EXCEPT !.pc = "errorStatus", !.status = u]
        PROVE  dw'.pc = "errorStatus"
    BY <2>3 DEF SidecarIdle
  <2> QED BY <2>1, <2>2, <2>3, IdleFields
<1>4. dw'.pc = "errorStatus" /\ storage # "none" => dw'.status # "nil"
  <2>1. dw'.pc = "errorStatus" /\ dw.pc = "tidy" => FALSE
    BY GoFields, IdleFields
       DEF RemoveAnnVolumeSnapshotBeingCreated, Go, FinishCreate, SidecarDone,
           RetrySidecar
  <2> QED BY <1>1, <1>2, <1>3, <2>1 DEF Guards, StatusPut
<1>5. StoredHeld'
  <2>1. CASE Kept
    BY <1>1, <2>1 DEF Kept, Guards, StoredHeld
  <2>2. CASE Puts(vsc.anns \ {"BeingCreated"}, vsc.status, vsc.deleting, vsc.fin)
    BY <1>1, <1>2, <2>2, HeldAfter DEF Guards, HasHandle
  <2> QED BY <2>1, <2>2, RemoveAnnVolumeSnapshotBeingCreatedWrites
<1> QED BY <1>1, <1>3, <1>4, <1>5
        DEF Guards, AskedKnown, HandleKnown, NoneLeft, FirstTry, Trying, StatusPut

\* ... updateContentErrorStatusWithEvent,
LEMMA GuardsErrorStatus ==
    ASSUME TypeOK, Guards, NEW reply \in Replies, UpdateContentErrorStatus(reply)
    PROVE  Guards'
<1> DEFINE t == IF dw.status # "nil" /\ HasHandle(vsc) THEN "cut" ELSE "error"
<1>1. UNCHANGED storage /\ dw.pc = "errorStatus" /\ dw'.pc = "idle"
  BY IdleFields DEF UpdateContentErrorStatus, RetrySidecar
<1>2. storage # "none" => t \in {"cut", "ready"} \/ "BeingCreated" \in vsc.anns
  BY <1>1 DEF Guards, StoredHeld, FirstTry, Trying, InTheMaking
<1>3. StoredHeld'
  <2>1. CASE Kept
    BY <1>1, <2>1 DEF Kept, Guards, StoredHeld
  <2>2. CASE Puts(vsc.anns, t, vsc.deleting, vsc.fin)
    <3> HIDE DEF t
    <3> QED BY <1>1, <1>2, <2>2, HeldAfter DEF Guards
  <2> QED BY <2>1, <2>2, UpdateContentErrorStatusWrites
<1> QED BY <1>1, <1>3, GuardsIdle

\* ... clearVolumeContentStatus and removeContentFinalizer, when the driver has
\* nothing.
LEMMA GuardsTearDown ==
    ASSUME TypeOK, Guards, NEW reply \in Replies,
           ClearVolumeContentStatus(reply) \/ RemoveContentFinalizer(reply)
    PROVE  Guards'
<1>1. UNCHANGED storage /\ dw.pc \in {"clear", "removeFinalizer"}
  BY DEF ClearVolumeContentStatus, RemoveContentFinalizer
<1>2. storage' = "none"
  BY <1>1 DEF Guards, NoneLeft
<1>3. dw'.pc \in {"idle", "removeFinalizer"}
  <2>1. \/ dw' = SidecarIdle
        \/ dw' = [SidecarIdle EXCEPT !.pc = "removeFinalizer", !.status = "nil"]
    BY DEF ClearVolumeContentStatus, RemoveContentFinalizer, Go, SidecarDone,
           RetrySidecar
  <2>2. CASE dw' = [SidecarIdle EXCEPT !.pc = "removeFinalizer", !.status = "nil"]
    BY <2>2, GoFields
  <2> QED BY <2>1, <2>2, IdleFields
<1> QED BY <1>2, <1>3
        DEF Guards, StoredHeld, AskedKnown, HandleKnown, NoneLeft, FirstTry,
            StatusPut

\* Every step of the sidecar, if it sees the content the server has.
LEMMA GuardsSidecar ==
    ASSUME TypeOK, Single, Guards, ~Raced', Policy = "Delete",
           sidecarLister = vsc, SidecarWorker
    PROVE  Guards'
<1>1. ASSUME ForgetSidecarContent \/ IgnoreOldSidecarContent PROVE Guards'
  BY <1>1 DEF ForgetSidecarContent, IgnoreOldSidecarContent, Guards, StoredHeld,
              AskedKnown, HandleKnown, NoneLeft, FirstTry, Trying, StatusPut,
              InTheMaking
<1>2. ASSUME KeepContentErrorStatus PROVE Guards'
  <2>1. UNCHANGED <<vsc, storage>> /\ dw' = SidecarIdle
    BY <1>2 DEF KeepContentErrorStatus, RetrySidecar
  <2>2. StoredHeld'
    BY <2>1 DEF Guards, StoredHeld
  <2> QED BY <2>1, <2>2, GuardsIdle, IdleFields
<1> QED BY <1>1, <1>2, GuardsSync, GuardsCallCreate, GuardsCallDelete,
           GuardsSetAnn, GuardsPutStatus, GuardsUnannotate, GuardsErrorStatus,
           GuardsTearDown
        DEF SidecarWorker, SidecarCall

\* The informers, users, the driver and restarts.
LEMMA GuardsEnvironment ==
    ASSUME Guards, ~Raced', ~AdminDeletesContent,
           Deliver \/ Resync \/ Environment \/ UNCHANGED vars
    PROVE  Guards'
<1>1. ASSUME UNCHANGED <<vsc, storage, dw>> PROVE Guards'
  BY <1>1 DEF Guards, StoredHeld, AskedKnown, HandleKnown, NoneLeft, FirstTry,
              Trying, StatusPut, InTheMaking
<1>2. CASE \/ Deliver \/ Resync \/ UserDeletesSnapshot \/ StartRestore
           \/ EndRestore \/ RestartCommon \/ UNCHANGED vars
  <2>1. CASE Deliver \/ Resync
    BY <1>1, <2>1 DEF Deliver, DeliverSnapshot, DeliverContent, DeliverToSidecar,
                      DeliverPVC, Resync, sidecar, api
  <2>2. CASE UserDeletesSnapshot \/ StartRestore \/ EndRestore
    BY <1>1, <2>2 DEF UserDeletesSnapshot, StartRestore, EndRestore, sidecar, api
  <2>3. CASE RestartCommon \/ UNCHANGED vars
    BY <1>1, <2>3 DEF RestartCommon, vars, sidecar, api
  <2> QED BY <1>2, <2>1, <2>2, <2>3
<1>3. CASE DriverCompletes
  <2>1. UNCHANGED <<vsc, dw>> /\ storage = "inflight"
    BY <1>3 DEF DriverCompletes, sidecar, api
  <2> QED BY <2>1 DEF Guards, StoredHeld, AskedKnown, HandleKnown, NoneLeft,
                      FirstTry, Trying, StatusPut, InTheMaking
<1>4. CASE RestartSidecar
  <2>1. UNCHANGED vsc /\ dw' = SidecarIdle
    BY <1>4 DEF RestartSidecar, api
  <2>2. StoredHeld'
    <3>1. CASE dw.pc = "csiCreate"
      <4>1. vsc # Absent /\ vsc.fin /\ "BeingCreated" \in vsc.anns
        BY <1>4, <2>1, <3>1, GuardsAsked DEF RestartSidecar
      <4> QED BY <2>1, <4>1 DEF StoredHeld
    <3>2. CASE dw.pc # "csiCreate"
      BY <1>4, <2>1, <3>2 DEF RestartSidecar, Guards, StoredHeld
    <3> QED BY <3>1, <3>2
  <2> QED BY <2>1, <2>2, GuardsIdle, IdleFields
<1> QED BY <1>2, <1>3, <1>4 DEF Environment

LEMMA GuardedStep ==
    ASSUME Ordered, Single, Guarded, "sidecar" \notin Lagging, [Next]_vars
    PROVE  Guarded'
<1> SUFFICES ASSUME Policy = "Delete", ~Raced'
             PROVE  Guards'
  BY DEF Guarded
<1>1. TypeOK /\ Guards
  BY LapsesStay DEF Ordered, SafetyInv, Guarded, Raced
<1>2. ~AdminDeletesContent
  BY <1>1, AdminStays DEF Single
<1>3. CASE SnapshotWorker \/ ContentWorker
  BY <1>1, <1>3, GuardsCommon
<1>4. CASE SidecarWorker /\ ~Overdue
  BY <1>1, <1>4, SidecarSeesContent, GuardsSidecar
<1>5. CASE Deliver \/ Resync \/ Environment \/ UNCHANGED vars
  BY <1>1, <1>2, <1>5, GuardsEnvironment
<1> QED BY <1>3, <1>4, <1>5 DEF Next

-----------------------------------------------------------------------------
(***************************************************************************)
(* The theorems about the storage.  Both hypotheses are needed: a content   *)
(* deleted by hand is made again while a call for the first may be pending, *)
(* and a sidecar with an old copy asks the driver once more for a snapshot  *)
(* that is there.                                                          *)
(***************************************************************************)
THEOREM SingleCorrect ==
    ASSUME NobodyDeletesContents
    PROVE  Spec => [](Ordered /\ Single)
<1>1. Init => Ordered /\ Single
  BY OrderedInit, SingleInit
<1>2. (Ordered /\ Single) /\ [Next]_vars => (Ordered /\ Single)'
  BY OrderedStep, SingleStep
<1> QED BY <1>1, <1>2, PTL DEF Spec

\* What the driver has is held by a content, if the sidecar sees the contents.
THEOREM GuardedCorrect ==
    ASSUME NobodyDeletesContents, "sidecar" \notin Lagging
    PROVE  Spec => []Guarded
<1>1. Init => Guarded
  BY IdleFields DEF Init, Guarded, Guards, StoredHeld, AskedKnown, HandleKnown,
                    NoneLeft, FirstTry, StatusPut
<1>2. (Ordered /\ Single) /\ Guarded /\ [Next]_vars => Guarded'
  BY GuardedStep
<1> QED BY <1>1, <1>2, SingleCorrect, PTL DEF Spec

\* When snapshot and content are gone the driver has nothing, unless one of two
\* races is noted (createSnapshot, shouldDelete, deleteCSISnapshotOperation).
THEOREM NoLeakCorrect ==
    ASSUME NobodyDeletesContents, "sidecar" \notin Lagging
    PROVE  Spec => []NoLeak
<1>1. Guarded => NoLeak
  BY DEF Guarded, Guards, StoredHeld, Raced, NoLeak
<1> QED BY <1>1, GuardedCorrect, PTL

\* The sidecar takes the finalizer off the content only when the driver has
\* nothing (removeContentFinalizer).
THEOREM FinalizerHeldUntilReclaimedCorrect ==
    ASSUME NobodyDeletesContents, "sidecar" \notin Lagging
    PROVE  Spec => FinalizerHeldUntilReclaimed
<1>1. ASSUME Ordered, Guarded, [Next]_vars, Policy = "Delete",
             LosesContentFinalizer
      PROVE  storage = "none" \/ lapses \cap {"unprotected", "dropCreated"} # {}
  <2>1. \E reply \in Replies : RemoveContentFinalizer(reply)
    BY <1>1, ContentSteps DEF LosesContentFinalizer, FinStays, Ordered, SafetyInv
  <2>2. dw.pc = "removeFinalizer"
    BY <2>1 DEF RemoveContentFinalizer
  <2> QED BY <1>1, <2>2 DEF Guarded, Guards, NoneLeft, Raced
<1>2. Ordered /\ Guarded /\ [Next]_vars
        => [Policy = "Delete" /\ LosesContentFinalizer
              => storage = "none"
                   \/ lapses \cap {"unprotected", "dropCreated"} # {}]_vars
  BY <1>1
<1> QED BY <1>2, OrderedCorrect, GuardedCorrect, PTL
        DEF Spec, FinalizerHeldUntilReclaimed

-----------------------------------------------------------------------------
(***************************************************************************)
(* A restore holds the deletion up.  While a PVC is being restored, and the *)
(* controller sees that it is, the deletion goes no further than to mark the*)
(* content, and what the sidecar sees of it.                               *)
(***************************************************************************)
Undisturbed ==
    restoring =>
      /\ storage = "ready"
      /\ vsc # Absent => ~vsc.deleting
      /\ sidecarLister # Absent => ~sidecarLister.deleting
      /\ sw.pc \notin {"annotate", "delete"}
      /\ dw.pc # "csiDelete"

\* A PVC begins to be restored from a snapshot that is wanted.
LEMMA RestoreBegins ==
    ASSUME [Next]_vars, ~restoring, restoring'
    PROVE  StartRestore
<1>1. CASE SnapshotWorker
  BY <1>1 DEF SnapshotWorker, SnapshotCall, ForgetSnapshot, IgnoreOldSnapshot,
              SyncSnapshot, SyncDeletedSnapshot, FailBind, AddSnapshotFinalizer,
              CreateSnapshotContent, UpdateSnapshotStatus, MarkMissing,
              SetAnnVolumeSnapshotBeingDeleted, DeleteContent,
              RemoveSnapshotFinalizer, NotSnapshotCall, NotSnapshotWorker, restore
<1>2. CASE ContentWorker
  BY <1>2 DEF ContentWorker, ForgetContent, IgnoreOldContent, SyncContent,
              AddContentFinalizer, AnnotateContent, NotContentWorker, restore
<1>3. CASE SidecarWorker
  BY <1>3 DEF SidecarWorker, SidecarCall, ForgetSidecarContent,
              IgnoreOldSidecarContent, SyncSidecarContent, CallCreate,
              CallDelete, KeepContentErrorStatus,
              SetAnnVolumeSnapshotBeingCreated, UpdateSnapshotContentStatus,
              RemoveAnnVolumeSnapshotBeingCreated, UpdateContentErrorStatus,
              ClearVolumeContentStatus, RemoveContentFinalizer,
              NotSidecarWorker, restore
<1>4. CASE Deliver \/ Resync \/ UNCHANGED vars
  BY <1>4 DEF Deliver, DeliverSnapshot, DeliverContent, DeliverToSidecar,
              DeliverPVC, Resync, restore, vars
<1>5. CASE Environment
  BY <1>5 DEF Environment, UserDeletesSnapshot, AdminDeletesContent,
              EndRestore, DriverCompletes, RestartCommon, RestartSidecar, restore
<1> QED BY <1>1, <1>2, <1>3, <1>4, <1>5 DEF Next

\* The snapshot worker begins to delete only when no PVC it knows of is being
\* restored (isVolumeBeingCreatedFromSnapshot).
LEMMA WorkerWaits ==
    ASSUME TypeOK, [Next]_vars, "pvcs" \notin Lagging, restoring,
           sw.pc \notin {"annotate", "delete"}
    PROVE  sw'.pc \notin {"annotate", "delete"}
<1>1. CASE UNCHANGED sw
  BY <1>1
<1>2. CASE SyncDeletedSnapshot /\ ~Overdue
  <2>1. pvcLister
    BY <1>2 DEF Overdue, TypeOK, OthersTypeOK
  <2>2. UNCHANGED sw \/ sw' = Dispose(snapshotLister, FALSE)
    BY <1>2, <2>1 DEF SyncDeletedSnapshot, BeingRestored, NeedsMark
  <2>3. Dispose(snapshotLister, FALSE).pc = "removeFinalizer"
    BY DEF Dispose, SnapshotIdle
  <2> QED BY <2>2, <2>3
<1>3. CASE SyncSnapshot
  <2>1. snapshotLister \in Snapshot /\ contentStore \in Content \cup {Absent}
    BY <1>3 DEF SyncSnapshot, TakeSnapshot, TypeOK, CommonTypeOK
  <2>2. \A found : [SnapshotIdle EXCEPT !.pc = "addFinalizer",
                      !.snap = snapshotLister, !.found = found].pc = "addFinalizer"
    BY DEF SnapshotIdle
  <2>3. \/ sw' = SyncStep(snapshotLister, contentStore)
        \/ \E found : sw' = [SnapshotIdle EXCEPT !.pc = "addFinalizer",
                               !.snap = snapshotLister, !.found = found]
    BY <1>3 DEF SyncSnapshot
  <2> QED BY <2>1, <2>2, <2>3, SyncStepFields
<1>4. ASSUME NEW reply \in Replies, AddSnapshotFinalizer(reply)
      PROVE  sw'.pc \notin {"annotate", "delete"}
  <2>1. sw.snap \in Snapshot /\ contentStore \in Content \cup {Absent}
    BY <1>4, SnapshotWorkFields DEF AddSnapshotFinalizer, TypeOK, CommonTypeOK
  <2>2. sw' \in {SnapshotIdle, SyncStep(sw.snap, contentStore)}
    BY <1>4, AddSnapshotFinalizerWrites
  <2> QED BY <2>1, <2>2, IdleFields, SyncStepFields
<1>5. ASSUME \/ FailBind
             \/ \E reply \in Replies :
                  \/ CreateSnapshotContent(reply) \/ UpdateSnapshotStatus(reply)
                  \/ MarkMissing(reply) \/ RemoveSnapshotFinalizer(reply)
      PROVE  sw'.pc \notin {"annotate", "delete"}
  <2>1. sw' \in {SnapshotIdle, [SnapshotIdle EXCEPT !.pc = "status"]}
    BY <1>5 DEF CreateSnapshotContent, UpdateSnapshotStatus, FailBind, MarkMissing,
                RemoveSnapshotFinalizer, RetrySnapshot, SnapshotDone
  <2>2. [SnapshotIdle EXCEPT !.pc = "status"].pc = "status"
    BY DEF SnapshotIdle
  <2> QED BY <2>1, <2>2, IdleFields
<1>6. ASSUME NEW reply \in Replies,
             SetAnnVolumeSnapshotBeingDeleted(reply) \/ DeleteContent(reply)
      PROVE  FALSE
  BY <1>6 DEF SetAnnVolumeSnapshotBeingDeleted, DeleteContent
<1>7. CASE SnapshotWorker /\ ~Overdue
  BY <1>1, <1>2, <1>3, <1>4, <1>5, <1>6, <1>7
     DEF SnapshotWorker, SnapshotCall, ForgetSnapshot, IgnoreOldSnapshot
<1>8. CASE DeliverSnapshot \/ UserDeletesSnapshot \/ Aside
  BY <1>1, <1>8 DEF DeliverSnapshot, UserDeletesSnapshot, Aside, common
<1>9. CASE RestartCommon
  BY <1>9, IdleFields DEF RestartCommon
<1> QED BY <1>7, <1>8, <1>9, StepCases

\* The sidecar deletes only what its cache shows as being deleted.
LEMMA SidecarDeletes ==
    ASSUME TypeOK, [Next]_vars, dw'.pc = "csiDelete"
    PROVE  dw.pc = "csiDelete" \/ (sidecarLister # Absent /\ sidecarLister.deleting)
<1>1. CASE UNCHANGED dw
  BY <1>1
<1>2. CASE SyncSidecarContent
  <2>1. dw'.pc = SidecarSync(sidecarLister) /\ sidecarLister # Absent
    BY <1>2 DEF SyncSidecarContent
  <2> QED BY <2>1, SidecarSyncReasons
<1>3. ASSUME NEW result, CallCreate(result) PROVE FALSE
  <2>1. dw' \in {[dw EXCEPT !.pc = "putStatus", !.ready = TRUE],
                 [dw EXCEPT !.pc = "putStatus", !.ready = FALSE],
                 [dw EXCEPT !.pc = "errorStatus"], [dw EXCEPT !.pc = "giveUp"]}
    BY <1>3 DEF CallCreate
  <2>2. dw \in [pc : SidecarPC, anns : SUBSET Annotations, status : ContentStatus,
                ready : BOOLEAN]
    BY DEF TypeOK, SidecarTypeOK, SidecarWork
  <2>3. dw'.pc \in {"putStatus", "errorStatus", "giveUp"}
    BY <2>1, <2>2
  <2> QED BY <2>3
<1>4. CASE KeepContentErrorStatus \/ \E result : CallDelete(result)
  BY <1>4, IdleFields DEF KeepContentErrorStatus, CallDelete, RetrySidecar
<1>5. ASSUME NEW reply \in Replies, SidecarCall(reply) PROVE FALSE
  <2> DEFINE Went(p) == \E u : dw' = [SidecarIdle EXCEPT !.pc = p, !.status = u]
  <2>1. \/ dw' = SidecarIdle
        \/ Went("csiCreate") \/ Went("errorStatus")
        \/ Went("unannotate") \/ Went("removeFinalizer")
    BY <1>5 DEF SidecarCall, SetAnnVolumeSnapshotBeingCreated,
                UpdateSnapshotContentStatus, RemoveAnnVolumeSnapshotBeingCreated,
                UpdateContentErrorStatus, ClearVolumeContentStatus,
                RemoveContentFinalizer, Go, FinishCreate, SidecarDone, RetrySidecar
  <2>2. ASSUME NEW p, Went(p) PROVE dw'.pc = p
    BY <2>2 DEF SidecarIdle
  <2> HIDE DEF Went
  <2> QED BY <2>1, <2>2, IdleFields
<1>6. CASE SidecarWorker
  BY <1>1, <1>2, <1>3, <1>4, <1>5, <1>6
     DEF SidecarWorker, ForgetSidecarContent, IgnoreOldSidecarContent
<1>7. CASE SnapshotWorker
  BY <1>1, <1>7
     DEF SnapshotWorker, SnapshotCall, ForgetSnapshot, IgnoreOldSnapshot,
         SyncSnapshot, SyncDeletedSnapshot, FailBind, AddSnapshotFinalizer,
         CreateSnapshotContent, UpdateSnapshotStatus, MarkMissing,
         SetAnnVolumeSnapshotBeingDeleted, DeleteContent,
         RemoveSnapshotFinalizer, NotSnapshotCall, NotSnapshotWorker, sidecar
<1>8. CASE ContentWorker
  BY <1>1, <1>8
     DEF ContentWorker, ForgetContent, IgnoreOldContent, SyncContent,
         AddContentFinalizer, AnnotateContent, NotContentWorker, sidecar
<1>9. CASE Deliver \/ Resync \/ UNCHANGED vars
  BY <1>1, <1>9 DEF Deliver, DeliverSnapshot, DeliverContent, DeliverToSidecar,
                    DeliverPVC, Resync, vars, sidecar
<1>10. CASE Environment
  BY <1>1, <1>10, IdleFields
     DEF Environment, UserDeletesSnapshot, AdminDeletesContent, StartRestore,
         EndRestore, DriverCompletes, RestartCommon, RestartSidecar, sidecar
<1> QED BY <1>6, <1>7, <1>8, <1>9, <1>10 DEF Next

LEMMA UndisturbedStep ==
    ASSUME Ordered, Single, Undisturbed, "pvcs" \notin Lagging, [Next]_vars
    PROVE  Undisturbed'
<1>1. TypeOK
  BY DEF Ordered, SafetyInv
<1>2. CASE ~restoring'
  BY <1>2 DEF Undisturbed
<1>3. CASE restoring' /\ ~restoring
  <2>1. StartRestore
    BY <1>3, RestoreBegins
  <2>2. /\ UNCHANGED <<vsc, sidecarLister, sw, dw, storage>>
        /\ vs # Absent /\ vs.ready /\ ~Going
    BY <2>1 DEF StartRestore, api, common, sidecar, Going
  <2>3. storage = "ready" /\ dw.pc # "csiDelete" /\ sw.pc \notin {"annotate", "delete"}
    BY <2>2 DEF Ordered, SafetyInv, ReadyIsTrue, SaidReady, TornDownOnlyWhenGoing
  <2>4. /\ vsc # Absent => ~vsc.deleting
        /\ sidecarLister # Absent => ~sidecarLister.deleting
    BY <2>2 DEF Single, NoneAfter, Condemned, Cached
  <2> QED BY <2>2, <2>3, <2>4 DEF Undisturbed
<1>4. CASE restoring' /\ restoring
  <2>1. /\ storage = "ready" /\ dw.pc # "csiDelete"
        /\ vsc # Absent => ~vsc.deleting
        /\ sidecarLister # Absent => ~sidecarLister.deleting
        /\ sw.pc \notin {"annotate", "delete"}
    BY <1>4 DEF Undisturbed
  <2>2. storage' = "ready"
    BY <1>1, <2>1, StorageStep
  <2>3. dw'.pc # "csiDelete"
    BY <1>1, <2>1, SidecarDeletes
  <2>4. sw'.pc \notin {"annotate", "delete"}
    BY <1>1, <1>4, <2>1, WorkerWaits
  <2>5. vsc' # Absent => ~vsc'.deleting
    <3>1. ~AdminDeletesContent
      BY <1>1, AdminStays DEF Single
    <3>2. ~\E reply \in Replies : DeleteContent(reply)
      BY <2>1 DEF DeleteContent
    <3> QED BY <1>1, <2>1, <3>1, <3>2, ContentSteps DEF Kept, Rewrites
  <2>6. sidecarLister' # Absent => ~sidecarLister'.deleting
    BY <2>1, SidecarListerStep
  <2> QED BY <2>2, <2>3, <2>4, <2>5, <2>6 DEF Undisturbed
<1> QED BY <1>2, <1>3, <1>4

\* The snapshot a PVC is being restored from stays, if the controller sees the
\* PVCs and nobody deletes a content by hand (isVolumeBeingCreatedFromSnapshot).
THEOREM RestoreProtectedCorrect ==
    ASSUME NobodyDeletesContents, "pvcs" \notin Lagging
    PROVE  Spec => []RestoreProtected
<1>1. Init => Undisturbed
  BY DEF Init, Undisturbed
<1>2. (Ordered /\ Single) /\ Undisturbed /\ [Next]_vars => Undisturbed'
  BY UndisturbedStep
<1>3. Undisturbed => RestoreProtected
  BY DEF Undisturbed, RestoreProtected
<1> QED BY <1>1, <1>2, <1>3, SingleCorrect, PTL DEF Spec
=============================================================================
