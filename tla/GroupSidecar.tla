---------------------------- MODULE GroupSidecar ----------------------------
(***************************************************************************)
(* The group content worker of the sidecar                                  *)
(* (pkg/sidecar-controller/groupsnapshot_helper.go): the calls to the CSI   *)
(* driver for one VolumeGroupSnapshotContent.  A step is the code between   *)
(* two calls to the API server or the driver.  External: the driver, which  *)
(* keeps one group snapshot per name however often it is asked for it.      *)
(***************************************************************************)
EXTENDS GroupObjects

RetrySidecar == dw' = SidecarIdle /\ sidecarQueue' = TRUE

NotSidecar == <<config, vgs, members, caches, queues, gw, cw, restoring>>

\* Changed for a check: CreateGroupSnapshot is not waited for.
ShouldDeleteImpatient(c) ==
    c.deleting /\ ((config.kind = "static" /\ ~c.uid) \/ "BeingDeleted" \in c.anns)

\* shouldDeleteGroupSnapshotContent.
ShouldDelete(c) ==
    /\ c.deleting
    /\ \/ config.kind = "static" /\ ~c.uid
       \/ "BeingCreated" \notin c.anns /\ "BeingDeleted" \in c.anns

\* Changed for a check: a group snapshot that is not ready is not there.
OwesDeletionIfReady(c) == config.policy = "Delete" /\ c.status = "ready"

\* A driver's snapshot has to go before the content does.
OwesDeletion(c) == config.policy = "Delete" /\ HasHandle(c.status)

With(pc, c) == [SidecarIdle EXCEPT !.pc = pc, !.anns = c.anns, !.status = c.status]

\* removeGroupSnapshotContentFinalizer does nothing without the finalizer.
DeletionStep(c) ==
    IF OwesDeletion(c) THEN With("csiDelete", c)
    ELSE IF c.fin THEN With("removeFinalizer", c) ELSE SidecarIdle

\* Changed for a check: a content that reports an error has failed for good.
CreationStepOnce(c) ==
    IF c.status = "error" THEN SidecarIdle
    ELSE IF "BeingCreated" \in c.anns THEN With("csiCreate", c) ELSE With("annotate", c)

\* createGroupSnapshotWrapper: the annotation first, unless it is there.
CreationStep(c) ==
    IF "BeingCreated" \in c.anns THEN With("csiCreate", c) ELSE With("annotate", c)

TidyStep(c) ==
    IF "BeingCreated" \in c.anns THEN With("tidy", c) ELSE SidecarIdle

\* syncGroupSnapshotContent, up to its first call.
SidecarStep(c) ==
    CASE ShouldDelete(c) -> DeletionStep(c)
      [] ~ShouldDelete(c) /\ c.status = "ready" -> TidyStep(c)
      [] ~ShouldDelete(c) /\ c.status # "ready" ->
            IF config.kind = "static" THEN With("getStatus", c) ELSE CreationStep(c)

\* syncGroupSnapshotContentByKey.
TakeSidecarContent ==
    /\ dw.pc = "idle" /\ sidecarQueue
    /\ sidecarQueue' = FALSE
    /\ dw' = IF sidecarStore = Absent THEN SidecarIdle ELSE SidecarStep(sidecarStore)
    /\ UNCHANGED <<vgsc, sidecarStore, storage, budget, lapses, NotSidecar>>

\* A patch of the content: c is what the server stores; next, the worker after
\* the answer.  The result enters the store, and its event queues the key.
PatchContent(reply, c, next, onFailure) ==
    /\ Answer(vgsc # Absent, reply)
    /\ vgsc' = IF reply = "error" THEN vgsc ELSE KeepContent(c)
    /\ IF reply = "ok"
       THEN /\ dw' = next
            /\ sidecarStore' = c
            /\ sidecarQueue' = TRUE
       ELSE /\ dw' = onFailure
            /\ sidecarQueue' = (sidecarQueue \/ onFailure = SidecarIdle)
            /\ UNCHANGED sidecarStore

Failed == [dw EXCEPT !.pc = "errorStatus"]

\* setAnnVolumeGroupSnapshotBeingCreated replaces the annotations by those of
\* the copy and this one.  Its result enters the wrong store (ctrl.contentStore),
\* so the sync's own copy is the older one until the informer brings the new.
AnnotateCreated(reply) ==
    LET anns == dw.anns \cup {"BeingCreated"}
    IN /\ dw.pc = "annotate"
       /\ Answer(vgsc # Absent, reply)
       /\ vgsc' = IF reply = "error" THEN vgsc ELSE [vgsc EXCEPT !.anns = anns]
       /\ dw' = IF reply = "ok" THEN [dw EXCEPT !.pc = "csiCreate", !.anns = anns,
                                                !.status = vgsc.status]
                ELSE Failed
       /\ Note(When(reply # "error" /\ ~(vgsc.anns \subseteq anns), "dropped"))
       /\ UNCHANGED <<sidecarStore, sidecarQueue, storage, NotSidecar>>

\* CreateGroupSnapshot: done; no answer; or a final error, which a driver gives
\* only when it has made nothing.
CsiCreate ==
    /\ dw.pc = "csiCreate"
    /\ \/ /\ storage \in {"none", "inflight", "cut"}
          /\ \/ storage' = "cut" /\ Spend("poll")
             \/ storage' = "ready" /\ UNCHANGED budget
          /\ dw' = [dw EXCEPT !.pc = "putStatus", !.ready = storage' = "ready"]
       \/ /\ storage = "ready" /\ UNCHANGED <<storage, budget>>
          /\ dw' = [dw EXCEPT !.pc = "putStatus", !.ready = TRUE]
       \/ /\ Spend("csi")
          /\ storage' \in {storage, IF storage = "none" THEN "inflight" ELSE storage}
          /\ dw' = Failed
       \/ /\ Spend("csi") /\ storage = "none" /\ UNCHANGED storage
          /\ dw' = [dw EXCEPT !.pc = "giveUp"]
    /\ Note(When(vgsc = Absent \/ ~vgsc.fin, "exposed"))
    /\ UNCHANGED <<vgsc, sidecarStore, sidecarQueue, NotSidecar>>

\* The request that got no answer takes effect.
CsiCompletes ==
    /\ storage = "inflight"
    /\ storage' = "ready"
    /\ UNCHANGED <<vgsc, sidecar, budget, lapses, NotSidecar>>

\* GetGroupSnapshotStatus of a static group.
CsiGetStatus ==
    /\ dw.pc = "getStatus"
    /\ \/ /\ storage # "none" /\ UNCHANGED budget
          /\ dw' = [dw EXCEPT !.pc = "putStatus", !.ready = TRUE]
       \/ storage = "none" /\ UNCHANGED budget /\ dw' = Failed
       \/ Spend("csi") /\ dw' = Failed
    /\ UNCHANGED <<vgsc, sidecarStore, sidecarQueue, storage, lapses, NotSidecar>>

\* updateGroupSnapshotContentStatus: a Get and an UpdateStatus.  In a status that
\* is there, only what is missing is filled in, and the ready flag.
PutStatus(reply) ==
    LET c == [vgsc EXCEPT !.status = IF dw.ready THEN "ready" ELSE "cut"]
    IN /\ dw.pc = "putStatus"
       /\ Answer(vgsc # Absent, reply)
       /\ vgsc' = IF reply = "error" THEN vgsc ELSE c
       /\ IF reply = "ok"
          THEN IF config.kind = "dynamic" /\ "BeingCreated" \in c.anns
               THEN /\ dw' = [With("unannotate", c) EXCEPT !.ready = dw.ready]
                    /\ UNCHANGED <<sidecarStore, sidecarQueue>>
               ELSE /\ dw' = SidecarIdle
                    /\ sidecarStore' = c
                    /\ sidecarQueue' = (sidecarQueue \/ c # sidecarStore)
          ELSE dw' = Failed /\ UNCHANGED <<sidecarStore, sidecarQueue>>
       /\ UNCHANGED <<storage, lapses, NotSidecar>>

\* removeAnnVolumeGroupSnapshotBeingCreated: a patch that removes the one
\* annotation, and fails when it is not there.
Unannotate(pc, next, onFailure, reply) ==
    /\ dw.pc = pc
    /\ vgsc = Absent \/ "BeingCreated" \notin vgsc.anns => reply = "error"
    /\ IF vgsc # Absent /\ "BeingCreated" \in vgsc.anns
       THEN PatchContent(reply, [vgsc EXCEPT !.anns = @ \ {"BeingCreated"}],
                         next, onFailure)
       ELSE /\ dw' = onFailure
            /\ sidecarQueue' = (sidecarQueue \/ onFailure = SidecarIdle)
            /\ UNCHANGED <<vgsc, sidecarStore, budget>>
    /\ UNCHANGED <<storage, lapses, NotSidecar>>

\* After the status was written; after a final error; and of a ready content,
\* "if it is not removed yet for some reason".
RemoveBeingCreated(reply) ==
    \/ Unannotate("unannotate", SidecarIdle, Failed, reply)
    \/ Unannotate("giveUp", [Failed EXCEPT !.anns = @ \ {"BeingCreated"}], Failed, reply)
    \/ Unannotate("tidy", SidecarIdle, SidecarIdle, reply)

\* updateGroupSnapshotContentErrorStatusWithEvent: a copy without a status has
\* the whole status replaced, one with a status the error and the ready flag.
\* The sync has failed in any case.
PutErrorStatus(reply) ==
    LET status == IF dw.status # "nil" /\ HasHandle(vgsc.status) THEN "cut" ELSE "error"
        c == [vgsc EXCEPT !.status = status]
    IN /\ dw.pc = "errorStatus"
       /\ Answer(vgsc # Absent, reply)
       /\ vgsc' = IF reply = "error" THEN vgsc ELSE c
       /\ sidecarStore' = IF reply = "ok" THEN c ELSE sidecarStore
       /\ RetrySidecar
       /\ UNCHANGED <<storage, lapses, NotSidecar>>

\* deleteCSIGroupSnapshotOperation: the driver's part.
CsiDelete ==
    /\ dw.pc = "csiDelete"
    /\ \/ /\ storage' = IF storage = "inflight" THEN storage ELSE "none"
          /\ dw' = [dw EXCEPT !.pc = "clear"]
          /\ UNCHANGED <<budget, sidecarQueue>>
       \/ Spend("csi") /\ RetrySidecar /\ UNCHANGED storage
    /\ UNCHANGED <<vgsc, sidecarStore, lapses, NotSidecar>>

\* clearGroupSnapshotContentStatus, and the sync of what it returned.
ClearStatus(reply) ==
    LET c == [vgsc EXCEPT !.status = IF @ = "nil" THEN "nil" ELSE "cleared"]
    IN /\ dw.pc = "clear"
       /\ Answer(vgsc # Absent, reply)
       /\ vgsc' = IF reply = "error" THEN vgsc ELSE c
       /\ IF reply = "ok" THEN /\ dw' = SidecarStep(c)
                               /\ sidecarStore' = c
                               /\ UNCHANGED sidecarQueue
          ELSE RetrySidecar /\ UNCHANGED sidecarStore
       /\ UNCHANGED <<storage, lapses, NotSidecar>>

\* removeGroupSnapshotContentFinalizer.
RemoveContentFinalizer(reply) ==
    /\ dw.pc = "removeFinalizer"
    /\ PatchContent(reply, [vgsc EXCEPT !.fin = FALSE], SidecarIdle, SidecarIdle)
    /\ UNCHANGED <<storage, lapses, NotSidecar>>

SidecarWorker ==
    \/ TakeSidecarContent \/ CsiCreate \/ CsiGetStatus \/ CsiDelete
    \/ \E reply \in Replies :
          \/ AnnotateCreated(reply)    \/ PutStatus(reply)
          \/ RemoveBeingCreated(reply) \/ PutErrorStatus(reply)
          \/ ClearStatus(reply)        \/ RemoveContentFinalizer(reply)
=============================================================================
