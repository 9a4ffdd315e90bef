-------------------------- MODULE SnapshotLifecycle --------------------------
(***************************************************************************)
(* One dynamically provisioned VolumeSnapshot, the VolumeSnapshotContent    *)
(* named after its UID, the physical snapshot on the storage system, and    *)
(* the three workers that move them:                                        *)
(*                                                                         *)
(*   - the snapshot worker and the content worker of the common controller  *)
(*     (pkg/common-controller), which share two private stores;             *)
(*   - the content worker of the sidecar (pkg/sidecar-controller), which    *)
(*     calls the CSI driver.                                                *)
(*                                                                         *)
(* The work queue never hands one key to two workers, so one worker per     *)
(* queue is the most that can act on this pair of objects.  A worker step   *)
(* is the code between two calls that leave the process: a call to the API  *)
(* server, a call to the CSI driver.  Informers lag, replies fail or are    *)
(* lost after the write took effect, processes restart.                     *)
(*                                                                         *)
(* Abstracted: error messages and events (a status write that changes only  *)
(* the error text is no write here), the PVC finalizer (a module of its     *)
(* own), group membership, metrics, and the snapshot class.                 *)
(***************************************************************************)
EXTENDS Naturals, FiniteSets

CONSTANTS
    Absent,   \* the object does not exist
    Policy,   \* deletionPolicy of the class, copied to the content
    Budgets,  \* the budgets a behaviour may start with: budget[k] events of kind k
    Lagging   \* the informers that may lag; the others deliver at once

(***************************************************************************)
(* The kinds of event that need a budget.                                  *)
(*   api    a call to the API server fails and has no effect               *)
(*   lost   a write takes effect, its reply does not arrive                *)
(*   csi    a call to the CSI driver fails                                 *)
(*   poll   the driver says the snapshot is not ready yet                  *)
(*   crash  a controller process restarts                                  *)
(*   admin  someone deletes the content object by hand                     *)
(*   delete   the user deletes the snapshot                                *)
(*   restore  someone restores a volume from the snapshot                  *)
(*   resync   the informers resync while something else is going on        *)
(***************************************************************************)
Faults == {"api", "lost", "csi", "poll", "crash", "admin", "delete", "restore",
           "resync"}
Caches == {"snapshots", "contents", "sidecar", "pvcs"}

ASSUME PolicyAssumption == Policy \in {"Delete", "Retain"}
ASSUME BudgetAssumption == Budgets \subseteq [Faults -> Nat]
ASSUME LaggingAssumption == Lagging \subseteq Caches

SnapshotFinalizers == {"AsSource", "Bound"}
Annotations == {"BeingCreated", "BeingDeleted"}

\* content.Status: nil; reset by clearVolumeContentStatus; error without a
\* handle; handle and not ready; handle and ready.
ContentStatus == {"nil", "cleared", "error", "cut", "ready"}

\* The resourceVersion "" of an object that was never read from the server.
NoVersion == 0

Snapshot == [rv : Nat, deleting : BOOLEAN, fins : SUBSET SnapshotFinalizers,
             bound : BOOLEAN, ready : BOOLEAN]

Content == [rv : Nat, uid : Nat, deleting : BOOLEAN, fin : BOOLEAN,
            anns : SUBSET Annotations, status : ContentStatus]

ASSUME AbsentAssumption == Absent \notin Snapshot /\ Absent \notin Content

VARIABLES
    vs,              \* the VolumeSnapshot at the API server
    vsc,             \* the VolumeSnapshotContent at the API server
    rev,             \* the last resourceVersion a content was given
    snapshotLister,  \* the common controller's informer cache of vs
    contentLister,   \* ... and of vsc
    snapshotStore,   \* ctrl.snapshotStore
    contentStore,    \* ctrl.contentStore
    shared,          \* contentStore and contentLister hold the same Go object
    sidecarLister,   \* the sidecar's informer cache of vsc
    sidecarStore,    \* the version in the sidecar's ctrl.contentStore, 0: none
    snapshotQueue, contentQueue, sidecarQueue,   \* is the key queued?
    sw, cw, dw,      \* snapshot worker, content worker, sidecar worker: the
                     \* next call, and what it needs of the copies in hand
    storage,         \* the physical snapshot
    restoring,       \* a PVC that restores from the snapshot is Pending
    pvcLister,       \* ... in the common controller's cache of the PVCs
    budget,          \* faults left
    lapses           \* history: the races that happened (see Lapses)

api     == <<vs, vsc, rev>>
common  == <<snapshotLister, contentLister, snapshotStore, contentStore, shared,
             snapshotQueue, contentQueue, sw, cw>>
sidecar == <<sidecarLister, sidecarStore, sidecarQueue, dw>>
restore == <<restoring, pvcLister>>
vars    == <<api, common, sidecar, storage, restore, budget, lapses>>

(***************************************************************************)
(* History.  Each is a step the code takes on stale data:                  *)
(*   unprotected  CreateSnapshot reached the driver for a content that has *)
(*                no finalizer                                             *)
(*   dropCreated  a patch built from a stale copy of the annotations       *)
(*                removed BeingCreated                                     *)
(*   dropDeleted  ... removed BeingDeleted                                 *)
(*   masked       BeingDeleted was not patched because the copy in memory  *)
(*                already had it, and the server had not                   *)
(*   missed       a deleted snapshot was processed with no content in the  *)
(*                store while the content exists                           *)
(***************************************************************************)
Lapses == {"unprotected", "dropCreated", "dropDeleted", "masked", "missed"}

Note(lapse, happened) ==
    lapses' = IF happened THEN lapses \cup {lapse} ELSE lapses

Storage == {"none", "inflight", "cut", "ready"}

SnapshotPC == {"idle", "addFinalizer", "create", "status", "bind", "missing",
               "annotate", "delete", "removeFinalizer"}
ContentPC  == {"idle", "addFinalizer", "annotate"}
SidecarPC  == {"idle", "annotate", "csiCreate", "putStatus", "unannotate",
               "giveUp", "errorStatus", "tidy", "csiDelete", "clear",
               "removeFinalizer"}

\* snap: the snapshot being synced; found: there is a content in the store;
\* anns: the annotations to send; ready: ReadyToUse of the content.
SnapshotWork ==
    {w \in [pc : SnapshotPC, snap : Snapshot \cup {Absent}, found : BOOLEAN,
            anns : SUBSET Annotations, ready : BOOLEAN] :
        w.pc \in {"addFinalizer", "missing", "annotate", "delete",
                  "removeFinalizer"} => w.snap # Absent}
ContentWork == [pc : ContentPC, anns : SUBSET Annotations]
SidecarWork ==
    [pc : SidecarPC, anns : SUBSET Annotations, status : ContentStatus,
     ready : BOOLEAN]

ApiTypeOK ==
    /\ vs \in Snapshot \cup {Absent}
    /\ vsc \in Content \cup {Absent}
    /\ rev \in Nat

CommonTypeOK ==
    /\ snapshotLister \in Snapshot \cup {Absent}
    /\ snapshotStore \in Snapshot \cup {Absent}
    /\ contentLister \in Content \cup {Absent}
    /\ contentStore \in Content \cup {Absent}
    /\ shared \in BOOLEAN
    /\ snapshotQueue \in BOOLEAN
    /\ contentQueue \in BOOLEAN
    /\ sw \in SnapshotWork
    /\ cw \in ContentWork

SidecarTypeOK ==
    /\ sidecarLister \in Content \cup {Absent}
    /\ sidecarStore \in Nat
    /\ sidecarQueue \in BOOLEAN
    /\ dw \in SidecarWork

OthersTypeOK ==
    /\ storage \in Storage
    /\ restoring \in BOOLEAN
    /\ pvcLister \in BOOLEAN
    /\ budget \in [Faults -> Nat]
    /\ lapses \subseteq Lapses

TypeOK == ApiTypeOK /\ CommonTypeOK /\ SidecarTypeOK /\ OthersTypeOK

SnapshotIdle == [pc |-> "idle", snap |-> Absent, found |-> FALSE, anns |-> {},
                 ready |-> FALSE]
ContentIdle  == [pc |-> "idle", anns |-> {}]
SidecarIdle  == [pc |-> "idle", anns |-> {}, status |-> "nil", ready |-> FALSE]

\* The user has just created the VolumeSnapshot.
Init ==
    /\ vs = [rv |-> 1, deleting |-> FALSE, fins |-> {}, bound |-> FALSE,
             ready |-> FALSE]
    /\ vsc = Absent
    /\ rev = NoVersion
    /\ snapshotLister = Absent /\ snapshotStore = Absent
    /\ contentLister = Absent /\ contentStore = Absent /\ shared = FALSE
    /\ sidecarLister = Absent /\ sidecarStore = NoVersion
    /\ snapshotQueue = FALSE /\ contentQueue = FALSE /\ sidecarQueue = FALSE
    /\ sw = SnapshotIdle /\ cw = ContentIdle /\ dw = SidecarIdle
    /\ storage = "none"
    /\ restoring = FALSE /\ pvcLister = FALSE
    /\ budget \in Budgets
    /\ lapses = {}

-----------------------------------------------------------------------------
(***************************************************************************)
(* utils.StoreObjectUpdate: an object enters a private store unless the     *)
(* store holds a strictly newer one.  A version that is no number ("") is   *)
(* an error, and the caller takes the error for "old".                      *)
(***************************************************************************)
Unreadable(old, obj) == old # Absent /\ NoVersion \in {old.rv, obj.rv}

Accepts(old, obj) ==
    old # Absent => ~Unreadable(old, obj) /\ old.rv <= obj.rv

StoreObjectUpdate(old, obj) == IF Accepts(old, obj) THEN obj ELSE old

\* storeContentUpdate of the common controller with an object of its own.
StoreContent(obj) ==
    /\ contentStore' = StoreObjectUpdate(contentStore, obj)
    /\ shared' = (shared /\ ~Accepts(contentStore, obj))

(***************************************************************************)
(* Calls to the API server.  A call that the server accepts takes effect    *)
(* and is answered ("ok"), or takes effect and the answer is lost, or fails *)
(* ("error"); one it refuses (object gone, version conflict, patch that     *)
(* does not apply) fails at no cost to the budget.                          *)
(***************************************************************************)
Replies == {"ok", "lost", "error"}

Spend(kind) ==
    /\ budget[kind] > 0
    /\ budget' = [budget EXCEPT ![kind] = @ - 1]

Answer(accepted, reply) ==
    /\ reply # "error" => accepted
    /\ IF reply = "ok" \/ ~accepted THEN UNCHANGED budget
       ELSE Spend(IF reply = "lost" THEN "lost" ELSE "api")

\* The object the server stores for an update; an update that changes nothing
\* keeps the resourceVersion.
NextSnapshot(s) == IF s = vs THEN s ELSE [s EXCEPT !.rv = vs.rv + 1]
NextContent(c)  == IF c = vsc THEN c ELSE [c EXCEPT !.rv = rev + 1]

\* An object that is being deleted goes away with its last finalizer.
PutSnapshot(s) == vs' = IF s.deleting /\ s.fins = {} THEN Absent ELSE s
PutContent(c)  == /\ vsc' = IF c.deleting /\ ~c.fin THEN Absent ELSE c
                  /\ rev' = c.rv

-----------------------------------------------------------------------------
(***************************************************************************)
(* The snapshot worker of the common controller.                           *)
(***************************************************************************)
RetrySnapshot == sw' = SnapshotIdle /\ snapshotQueue' = TRUE
SnapshotDone  == sw' = SnapshotIdle /\ UNCHANGED snapshotQueue

NotSnapshotWorker == <<snapshotLister, contentQueue, cw, sidecar, storage,
                       restore>>
NotSnapshotCall   == <<vsc, rev, contentLister, contentStore, shared,
                       NotSnapshotWorker>>

\* syncSnapshotByKey when the lister has no such snapshot: deleteSnapshot.
ForgetSnapshot ==
    /\ sw.pc = "idle" /\ snapshotQueue /\ snapshotLister = Absent
    /\ snapshotQueue' = FALSE
    /\ snapshotStore' = Absent
    /\ contentQueue' = (contentQueue \/ (snapshotStore # Absent /\ snapshotStore.bound))
    /\ UNCHANGED <<api, snapshotLister, contentLister, contentStore, shared, sw,
                   cw, sidecar, storage, restore, budget, lapses>>

\* updateSnapshot drops a version older than the one in the store.
IgnoreOldSnapshot ==
    /\ sw.pc = "idle" /\ snapshotQueue /\ snapshotLister # Absent
    /\ ~Accepts(snapshotStore, snapshotLister)
    /\ snapshotQueue' = FALSE
    /\ UNCHANGED <<api, snapshotLister, contentLister, snapshotStore,
                   contentStore, shared, contentQueue, sw, cw, sidecar, storage,
                   restore, budget, lapses>>

TakeSnapshot ==
    /\ sw.pc = "idle" /\ snapshotQueue /\ snapshotLister # Absent
    /\ Accepts(snapshotStore, snapshotLister)
    /\ snapshotQueue' = FALSE
    /\ snapshotStore' = snapshotLister

\* checkandAddSnapshotFinalizers: the finalizers snapshot s lacks, given whether
\* its content was found in the store.
FinalizersToAdd(s, found) ==
    {f \in SnapshotFinalizers \ s.fins :
        f = "Bound" => found /\ Policy = "Delete" /\ s.bound}

\* Changed for checks: a ready snapshot is bound again; a snapshot is offered
\* when there is a handle.
SyncStepAgain(s, c) ==
    IF c = Absent THEN [SnapshotIdle EXCEPT !.pc = "create"]
    ELSE [SnapshotIdle EXCEPT !.pc = "bind", !.ready = c.status = "ready"]
SyncStepEager(s, c) ==
    CASE c = Absent -> [SnapshotIdle EXCEPT !.pc = "create"]
      [] c # Absent /\ s.ready /\ s.bound -> SnapshotIdle
      [] c # Absent /\ ~(s.ready /\ s.bound) ->
           [SnapshotIdle EXCEPT !.pc = "bind",
                                !.ready = c.status \in {"cut", "ready"}]

\* syncUnreadySnapshot and syncReadySnapshot, up to their next call.
SyncStep(s, c) ==
    LET settled == s.ready /\ s.bound
    IN CASE settled /\ c = Absent  -> [SnapshotIdle EXCEPT !.pc = "missing",
                                                           !.snap = s]
         [] settled /\ c # Absent  -> SnapshotIdle
         [] ~settled /\ c = Absent -> [SnapshotIdle EXCEPT !.pc = "create"]
         [] ~settled /\ c # Absent -> [SnapshotIdle EXCEPT !.pc = "bind",
                                          !.ready = c.status = "ready"]

\* syncSnapshot of a snapshot that is not being deleted.
SyncSnapshot ==
    LET s == snapshotLister
        found == contentStore # Absent
    IN /\ TakeSnapshot
       /\ ~s.deleting
       /\ sw' = IF FinalizersToAdd(s, found) # {}
                THEN [SnapshotIdle EXCEPT !.pc = "addFinalizer", !.snap = s,
                                          !.found = found]
                ELSE SyncStep(s, contentStore)
       /\ UNCHANGED <<api, contentLister, contentStore, shared, budget, lapses,
                      NotSnapshotWorker>>

\* Changed for a check: a snapshot with finalizers counts as being deleted.
IsSnapshotDeletionCandidateLax(s) == s.fins # {}

IsSnapshotDeletionCandidate(s) == s.deleting /\ s.fins # {}

\* Changed for a check: a PVC is taken for bound.
BeingRestoredNever == FALSE

\* isVolumeBeingCreatedFromSnapshot looks in the cache of the PVCs.
BeingRestored == pvcLister

\* Changed for a check: only a content that will be deleted gets the annotation.
NeedsMarkIfDeleted(c) ==
    Policy = "Delete" /\ c # Absent /\ "BeingDeleted" \notin c.anns

\* "Regardless of the deletion policy", if there is a content.
NeedsMark(c) == c # Absent /\ "BeingDeleted" \notin c.anns

\* Changed for checks: the content found is forgotten; is never deleted; is
\* deleted, found or not.
DisposeForgetful(s, found) ==
    [SnapshotIdle EXCEPT !.pc = IF found /\ Policy = "Delete" THEN "delete"
                                ELSE "removeFinalizer",
                         !.snap = s]
DisposeKeepContent(s, found) ==
    [SnapshotIdle EXCEPT !.pc = "removeFinalizer", !.snap = s, !.found = found]
DisposeAlways(s, found) ==
    [SnapshotIdle EXCEPT !.pc = IF Policy = "Delete" THEN "delete"
                                ELSE "removeFinalizer",
                         !.snap = s, !.found = found]

\* What follows the annotation: delete the content, or let the snapshot go.
Dispose(s, found) ==
    [SnapshotIdle EXCEPT !.pc = IF found /\ Policy = "Delete" THEN "delete"
                                ELSE "removeFinalizer",
                         !.snap = s, !.found = found]

\* processSnapshotWithDeletionTimestamp and the first half of
\* checkandRemoveSnapshotFinalizersAndCheckandDeleteContent.  The annotation is
\* put on the object in the store before it is sent to the server.
SyncDeletedSnapshot ==
    LET s == snapshotLister
        c == contentStore
        wait == ~IsSnapshotDeletionCandidate(s) \/ (c # Absent /\ BeingRestored)
        annotate == NeedsMark(c)
        marked == [c EXCEPT !.anns = @ \cup {"BeingDeleted"}]
    IN /\ TakeSnapshot
       /\ s.deleting
       /\ \/ /\ wait
             /\ UNCHANGED <<sw, contentStore, contentLister, lapses>>
          \/ /\ ~wait /\ annotate
             /\ contentStore' = marked
             /\ contentLister' = IF shared THEN marked ELSE contentLister
             /\ sw' = [SnapshotIdle EXCEPT !.pc = "annotate", !.snap = s,
                                           !.found = TRUE, !.anns = marked.anns]
             /\ UNCHANGED lapses
          \/ /\ ~wait /\ ~annotate
             /\ sw' = Dispose(s, c # Absent)
             /\ lapses' = lapses
                  \cup (IF c = Absent /\ vsc # Absent THEN {"missed"} ELSE {})
                  \cup (IF /\ c # Absent /\ "BeingDeleted" \in c.anns
                           /\ vsc # Absent /\ "BeingDeleted" \notin vsc.anns
                        THEN {"masked"} ELSE {})
             /\ UNCHANGED <<contentStore, contentLister>>
       /\ UNCHANGED <<api, shared, budget, NotSnapshotWorker>>

\* addSnapshotFinalizer: an Update, which the version guards, when the copy has
\* no finalizer; otherwise a patch.  No finalizer can be added to an object
\* that is being deleted.  The sync goes on with the copy it began with.
AddSnapshotFinalizer(reply) ==
    LET s   == sw.snap
        add == FinalizersToAdd(s, sw.found)
        new == NextSnapshot([vs EXCEPT !.fins = @ \cup add])
        accepted == /\ vs # Absent /\ ~vs.deleting
                    /\ s.fins = {} => s.rv = vs.rv
    IN /\ sw.pc = "addFinalizer"
       /\ Answer(accepted, reply)
       /\ IF reply = "error" THEN UNCHANGED vs ELSE PutSnapshot(new)
       /\ IF reply = "ok"
          THEN /\ snapshotStore' = StoreObjectUpdate(snapshotStore, new)
               /\ sw' = SyncStep(s, contentStore)
               /\ UNCHANGED snapshotQueue
          ELSE RetrySnapshot /\ UNCHANGED snapshotStore
       /\ UNCHANGED <<NotSnapshotCall, lapses>>

\* createSnapshotContent.  When the name is taken the worker goes on with, and
\* stores, the object it built itself, which has no resourceVersion.
CreateSnapshotContent(reply) ==
    LET exists == vsc # Absent
        version == IF exists THEN NoVersion ELSE rev + 1
        new == [rv |-> version, uid |-> version, deleting |-> FALSE,
                fin |-> FALSE, anns |-> {}, status |-> "nil"]
    IN /\ sw.pc = "create"
       /\ Answer(TRUE, reply)
       /\ IF reply = "error" \/ exists THEN UNCHANGED <<vsc, rev>>
          ELSE PutContent(new)
       /\ IF reply = "ok"
          THEN /\ StoreContent(new)
               /\ sw' = [SnapshotIdle EXCEPT !.pc = "status"]
               /\ UNCHANGED snapshotQueue
          ELSE RetrySnapshot /\ UNCHANGED <<contentStore, shared>>
       /\ UNCHANGED <<vs, snapshotStore, contentLister, lapses, NotSnapshotWorker>>

\* updateSnapshotStatus, after createSnapshotContent ("status") or in
\* bindandUpdateVolumeSnapshot ("bind"), which alone stores the result.
UpdateSnapshotStatus(reply) ==
    LET new == NextSnapshot([vs EXCEPT !.bound = TRUE,
                                       !.ready = sw.ready])
    IN /\ sw.pc \in {"status", "bind"}
       /\ Answer(vs # Absent, reply)
       /\ IF reply = "error" THEN UNCHANGED vs ELSE PutSnapshot(new)
       /\ IF reply = "ok" THEN SnapshotDone ELSE RetrySnapshot
       /\ snapshotStore' = IF reply = "ok" /\ sw.pc = "bind"
                           THEN StoreObjectUpdate(snapshotStore, new)
                           ELSE snapshotStore
       /\ UNCHANGED <<NotSnapshotCall, lapses>>

\* bindandUpdateVolumeSnapshot fails after its first Get and reports that on
\* the snapshot it got, whose ReadyToUse it resets.
FailBind ==
    LET new == NextSnapshot([vs EXCEPT !.ready = FALSE])
    IN /\ sw.pc = "bind"
       /\ vs # Absent
       /\ Spend("api")
       /\ PutSnapshot(new)
       /\ snapshotStore' = StoreObjectUpdate(snapshotStore, new)
       /\ RetrySnapshot
       /\ UNCHANGED <<NotSnapshotCall, lapses>>

\* syncReadySnapshot finds no content: updateSnapshotErrorStatusWithEvent.
MarkMissing(reply) ==
    LET new == NextSnapshot([vs EXCEPT !.ready = FALSE])
    IN /\ sw.pc = "missing"
       /\ Answer(vs # Absent /\ sw.snap.rv = vs.rv, reply)
       /\ IF reply = "error" THEN UNCHANGED vs ELSE PutSnapshot(new)
       /\ IF reply = "ok"
          THEN /\ snapshotStore' = StoreObjectUpdate(snapshotStore, new)
               /\ SnapshotDone
          ELSE RetrySnapshot /\ UNCHANGED snapshotStore
       /\ UNCHANGED <<NotSnapshotCall, lapses>>

\* The patch of setAnnVolumeSnapshotBeingDeleted: the annotations of the copy in
\* hand, BeingDeleted among them, replace those at the server.
PatchBeingDeleted(anns, reply) ==
    LET new == NextContent([vsc EXCEPT !.anns = anns])
    IN /\ Answer(vsc # Absent, reply)
       /\ IF reply = "error" THEN UNCHANGED <<vsc, rev, lapses>>
          ELSE /\ PutContent(new)
               /\ Note("dropCreated", "BeingCreated" \in vsc.anns \ anns)
       /\ IF reply = "ok" THEN StoreContent(new)
          ELSE UNCHANGED <<contentStore, shared>>

\* Did it return without an error?  It reports that the store cannot compare.
Annotated(reply) == reply = "ok" /\ ~Unreadable(contentStore, vsc)

SetAnnVolumeSnapshotBeingDeleted(reply) ==
    /\ sw.pc = "annotate"
    /\ PatchBeingDeleted(sw.anns, reply)
    /\ IF Annotated(reply)
       THEN sw' = Dispose(sw.snap, TRUE) /\ UNCHANGED snapshotQueue
       ELSE RetrySnapshot
    /\ UNCHANGED <<vs, snapshotStore, contentLister, NotSnapshotWorker>>

\* checkandRemoveSnapshotFinalizersAndCheckandDeleteContent deletes the content.
DeleteContent(reply) ==
    /\ sw.pc = "delete"
    /\ Answer(vsc # Absent, reply)
    /\ IF reply = "error" THEN UNCHANGED <<vsc, rev>>
       ELSE PutContent(NextContent([vsc EXCEPT !.deleting = TRUE]))
    /\ IF reply = "ok"
       THEN sw' = [sw EXCEPT !.pc = "removeFinalizer"] /\ UNCHANGED snapshotQueue
       ELSE RetrySnapshot
    /\ UNCHANGED <<vs, snapshotStore, contentLister, contentStore, shared, lapses,
                   NotSnapshotWorker>>

\* removeSnapshotFinalizer: an Update of the copy the sync began with, which is
\* accepted if that is still the object at the server.  The bound finalizer
\* stays while the content is being deleted.
RemoveSnapshotFinalizer(reply) ==
    LET s == sw.snap
        keepBound == sw.found /\ Policy = "Delete"
        new == NextSnapshot([vs EXCEPT !.fins = IF keepBound THEN @ \ {"AsSource"}
                                                ELSE {}])
    IN /\ sw.pc = "removeFinalizer"
       /\ Answer(vs # Absent /\ s.rv = vs.rv, reply)
       /\ IF reply = "error" THEN UNCHANGED vs ELSE PutSnapshot(new)
       /\ IF reply = "ok"
          THEN /\ snapshotStore' = StoreObjectUpdate(snapshotStore, new)
               /\ SnapshotDone
          ELSE RetrySnapshot /\ UNCHANGED snapshotStore
       /\ UNCHANGED <<NotSnapshotCall, lapses>>

SnapshotCall(reply) ==
    \/ AddSnapshotFinalizer(reply)
    \/ CreateSnapshotContent(reply)
    \/ UpdateSnapshotStatus(reply)
    \/ MarkMissing(reply)
    \/ SetAnnVolumeSnapshotBeingDeleted(reply)
    \/ DeleteContent(reply)
    \/ RemoveSnapshotFinalizer(reply)

SnapshotWorker ==
    \/ ForgetSnapshot
    \/ IgnoreOldSnapshot
    \/ SyncSnapshot
    \/ SyncDeletedSnapshot
    \/ FailBind
    \/ \E reply \in Replies : SnapshotCall(reply)

-----------------------------------------------------------------------------
(***************************************************************************)
(* The content worker of the common controller.                            *)
(***************************************************************************)
NotContentWorker == <<vs, snapshotLister, snapshotStore, sw, sidecar, storage,
                      restore>>

RetryContent == cw' = ContentIdle /\ contentQueue' = TRUE
ContentDone  == cw' = ContentIdle /\ UNCHANGED contentQueue

\* syncContentByKey when the lister has no such content: deleteContent.
ForgetContent ==
    /\ cw.pc = "idle" /\ contentQueue /\ contentLister = Absent
    /\ contentQueue' = FALSE
    /\ contentStore' = Absent /\ shared' = FALSE
    /\ snapshotQueue' = (snapshotQueue \/ contentStore # Absent)
    /\ UNCHANGED <<vsc, rev, contentLister, cw, budget, lapses, NotContentWorker>>

\* updateContent drops a version the store does not take.
IgnoreOldContent ==
    /\ cw.pc = "idle" /\ contentQueue /\ contentLister # Absent
    /\ ~Accepts(contentStore, contentLister)
    /\ contentQueue' = FALSE
    /\ UNCHANGED <<vsc, rev, contentLister, contentStore, shared, snapshotQueue,
                   cw, budget, lapses, NotContentWorker>>

\* needsUpdateSnapshotStatus: it compares the addresses of the two ReadyToUse
\* flags, so two flags that are both set always differ.
NeedsUpdateSnapshotStatus(s, c) ==
    c.status # "nil" /\ (s.bound => c.status # "cleared")

\* syncContent, up to its next call.  The object that enters the store is the
\* lister's own, and it is annotated before the annotation is sent.
SyncContent ==
    LET c == contentLister
        s == snapshotStore
        protect  == ~c.deleting /\ ~c.fin
        annotate == /\ ~protect
                    /\ s # Absent /\ IsSnapshotDeletionCandidate(s)
                    /\ "BeingDeleted" \notin c.anns
        kept == IF annotate THEN [c EXCEPT !.anns = @ \cup {"BeingDeleted"}]
                ELSE c
    IN /\ cw.pc = "idle" /\ contentQueue /\ c # Absent
       /\ Accepts(contentStore, c)
       /\ contentQueue' = FALSE
       /\ contentStore' = kept /\ contentLister' = kept /\ shared' = TRUE
       /\ snapshotQueue' = (snapshotQueue \/
             (~protect /\ s # Absent /\ NeedsUpdateSnapshotStatus(s, c)))
       /\ cw' = IF protect THEN [pc |-> "addFinalizer", anns |-> {}]
                ELSE IF annotate THEN [pc |-> "annotate", anns |-> kept.anns]
                ELSE ContentIdle
       /\ UNCHANGED <<vsc, rev, budget, lapses, NotContentWorker>>

\* addContentFinalizer.
AddContentFinalizer(reply) ==
    LET new == NextContent([vsc EXCEPT !.fin = TRUE])
    IN /\ cw.pc = "addFinalizer"
       /\ Answer(vsc # Absent, reply)
       /\ IF reply = "error" THEN UNCHANGED <<vsc, rev>> ELSE PutContent(new)
       /\ IF reply = "ok" THEN StoreContent(new) /\ ContentDone
          ELSE RetryContent /\ UNCHANGED <<contentStore, shared>>
       /\ UNCHANGED <<contentLister, snapshotQueue, lapses, NotContentWorker>>

\* setAnnVolumeSnapshotBeingDeleted, called from syncContent.
AnnotateContent(reply) ==
    /\ cw.pc = "annotate"
    /\ PatchBeingDeleted(cw.anns, reply)
    /\ IF Annotated(reply) THEN ContentDone ELSE RetryContent
    /\ UNCHANGED <<contentLister, snapshotQueue, NotContentWorker>>

ContentWorker ==
    \/ ForgetContent
    \/ IgnoreOldContent
    \/ SyncContent
    \/ \E reply \in Replies : AddContentFinalizer(reply) \/ AnnotateContent(reply)

-----------------------------------------------------------------------------
(***************************************************************************)
(* The content worker of the sidecar.                                      *)
(***************************************************************************)
NotSidecarWorker == <<vs, common, sidecarLister, restore>>

RetrySidecar == dw' = SidecarIdle /\ sidecarQueue' = TRUE
SidecarDone  == dw' = SidecarIdle /\ UNCHANGED sidecarQueue
\* The next call is pc; the status of the copy in hand matters if it fails.
Go(pc, status) ==
    /\ dw' = [SidecarIdle EXCEPT !.pc = pc, !.status = status]
    /\ UNCHANGED sidecarQueue

KeepSidecarStore  == UNCHANGED sidecarStore
\* storeContentUpdate; the sidecar reads nothing but the version back.
StoreInSidecar(c) == sidecarStore' = IF c.rv >= sidecarStore THEN c.rv
                                     ELSE sidecarStore

\* The end of createSnapshot and checkandUpdateContentStatus.
FinishCreate(c) ==
    /\ StoreInSidecar(c)
    /\ IF c.status = "ready" THEN SidecarDone ELSE RetrySidecar

\* syncContentByKey when the lister has no such content.
ForgetSidecarContent ==
    /\ dw.pc = "idle" /\ sidecarQueue /\ sidecarLister = Absent
    /\ sidecarQueue' = FALSE
    /\ sidecarStore' = NoVersion
    /\ UNCHANGED <<vsc, rev, dw, storage, budget, lapses, NotSidecarWorker>>

\* An old version is dropped, and with it the retry that brought it here.
IgnoreOldSidecarContent ==
    /\ dw.pc = "idle" /\ sidecarQueue /\ sidecarLister # Absent
    /\ sidecarLister.rv < sidecarStore
    /\ sidecarQueue' = FALSE
    /\ UNCHANGED <<vsc, rev, sidecarStore, dw, storage, budget, lapses,
                   NotSidecarWorker>>

\* Changed for a check: CreateSnapshot is not waited for.
ShouldDeleteImpatient(c) == c.deleting /\ "BeingDeleted" \in c.anns

ShouldDelete(c) ==
    c.deleting /\ "BeingCreated" \notin c.anns /\ "BeingDeleted" \in c.anns

HasHandle(c) == c.status \in {"cut", "ready"}

\* Changed for checks: the finalizer goes first; the policy is not looked at; a
\* content whose status has an error is left alone.
SidecarSyncFinalizerFirst(c) ==
    CASE ShouldDelete(c) -> IF c.fin THEN "removeFinalizer"
                            ELSE IF HasHandle(c) THEN "csiDelete" ELSE "idle"
      [] ~ShouldDelete(c) /\ c.status # "ready" ->
           IF "BeingCreated" \in c.anns THEN "csiCreate" ELSE "annotate"
      [] OTHER -> IF "BeingCreated" \in c.anns THEN "tidy" ELSE "idle"
SidecarSyncAnyPolicy(c) ==
    CASE ShouldDelete(c) -> IF HasHandle(c) THEN "csiDelete"
                            ELSE IF c.fin THEN "removeFinalizer" ELSE "idle"
      [] ~ShouldDelete(c) /\ c.status # "ready" ->
           IF "BeingCreated" \in c.anns THEN "csiCreate" ELSE "annotate"
      [] OTHER -> IF "BeingCreated" \in c.anns THEN "tidy" ELSE "idle"
SidecarSyncOnce(c) ==
    CASE c.status = "nil" ->
           IF "BeingCreated" \in c.anns THEN "csiCreate" ELSE "annotate"
      [] c.status = "ready" /\ "BeingCreated" \in c.anns -> "tidy"
      [] OTHER -> "idle"

\* syncContent, up to its next call.
SidecarSync(c) ==
    CASE ShouldDelete(c) ->
           IF Policy = "Delete" /\ HasHandle(c) THEN "csiDelete"
           ELSE IF c.fin THEN "removeFinalizer" ELSE "idle"
      [] ~ShouldDelete(c) /\ c.status # "ready" ->
           IF "BeingCreated" \in c.anns THEN "csiCreate" ELSE "annotate"
      [] ~ShouldDelete(c) /\ c.status = "ready" ->
           IF "BeingCreated" \in c.anns THEN "tidy" ELSE "idle"

SyncSidecarContent ==
    /\ dw.pc = "idle" /\ sidecarQueue /\ sidecarLister # Absent
    /\ sidecarLister.rv >= sidecarStore
    /\ sidecarQueue' = FALSE
    /\ sidecarStore' = sidecarLister.rv
    /\ LET c  == sidecarLister
           pc == SidecarSync(c)
       IN dw' = [pc     |-> pc,
                 anns   |-> IF pc = "annotate" THEN c.anns ELSE {},
                 status |-> IF pc \in {"annotate", "csiCreate"} THEN c.status
                            ELSE "nil",
                 ready  |-> FALSE]
    /\ UNCHANGED <<vsc, rev, storage, budget, lapses, NotSidecarWorker>>

\* setAnnVolumeSnapshotBeingCreated: the annotations of the copy, and this one,
\* replace those at the server.
SetAnnVolumeSnapshotBeingCreated(reply) ==
    LET new == NextContent([vsc EXCEPT !.anns = dw.anns \cup {"BeingCreated"}])
    IN /\ dw.pc = "annotate"
       /\ Answer(vsc # Absent, reply)
       /\ IF reply = "error" THEN UNCHANGED <<vsc, rev, lapses>>
          ELSE /\ PutContent(new)
               /\ Note("dropDeleted", "BeingDeleted" \in vsc.anns \ dw.anns)
       /\ IF reply = "ok" THEN Go("csiCreate", new.status) /\ StoreInSidecar(new)
          ELSE Go("errorStatus", dw.status) /\ KeepSidecarStore
       /\ UNCHANGED <<storage, NotSidecarWorker>>

(***************************************************************************)
(* handler.CreateSnapshot.  The driver is asked by name and is idempotent:  *)
(* it cuts the snapshot or reports on the one it has.  An error that is not *)
(* final says nothing about the snapshot, which may be in the making; a     *)
(* final one (isCSIFinalError) says that there is none and none is coming.  *)
(***************************************************************************)
AfterTimeout == {storage} \cup (IF storage = "none" THEN {"inflight"} ELSE {})

NoteUnprotected == Note("unprotected", vsc # Absent => ~vsc.fin)

CallCreate(result) ==
    /\ dw.pc = "csiCreate"
    /\ NoteUnprotected
    /\ \/ /\ result = "ready"
          /\ storage' = "ready"
          /\ dw' = [dw EXCEPT !.pc = "putStatus", !.ready = TRUE]
          /\ UNCHANGED budget
       \/ /\ result = "notReady"
          /\ storage # "ready" /\ storage' = "cut"
          /\ dw' = [dw EXCEPT !.pc = "putStatus", !.ready = FALSE]
          /\ Spend("poll")
       \/ /\ result = "timeout"
          /\ storage' \in AfterTimeout
          /\ dw' = [dw EXCEPT !.pc = "errorStatus"]
          /\ Spend("csi")
       \/ /\ result = "final"
          /\ storage \in {"none", "inflight"} /\ storage' = "none"
          /\ dw' = [dw EXCEPT !.pc = "giveUp"]
          /\ Spend("csi")
    /\ UNCHANGED <<vsc, rev, sidecarQueue, sidecarStore, NotSidecarWorker>>

\* updateSnapshotContentStatus: a Get and a patch of the whole status.
UpdateSnapshotContentStatus(reply) ==
    LET new == NextContent([vsc EXCEPT !.status = IF dw.ready THEN "ready"
                                                  ELSE "cut"])
    IN /\ dw.pc = "putStatus"
       /\ Answer(vsc # Absent, reply)
       /\ IF reply = "error" THEN UNCHANGED <<vsc, rev>> ELSE PutContent(new)
       /\ IF reply # "ok" THEN Go("errorStatus", dw.status) /\ KeepSidecarStore
          ELSE IF "BeingCreated" \in new.anns
               THEN Go("unannotate", new.status) /\ KeepSidecarStore
               ELSE FinishCreate(new)
       /\ UNCHANGED <<storage, lapses, NotSidecarWorker>>

\* removeAnnVolumeSnapshotBeingCreated, after the status was written
\* ("unannotate"), after a final error ("giveUp"), or because the content is
\* ready ("tidy").  The server refuses to remove what is not there.
RemoveAnnVolumeSnapshotBeingCreated(reply) ==
    LET new == NextContent([vsc EXCEPT !.anns = @ \ {"BeingCreated"}])
    IN /\ dw.pc \in {"unannotate", "giveUp", "tidy"}
       /\ Answer(vsc # Absent /\ "BeingCreated" \in vsc.anns, reply)
       /\ IF reply = "error" THEN UNCHANGED <<vsc, rev>> ELSE PutContent(new)
       /\ \/ reply = "ok" /\ dw.pc = "unannotate" /\ FinishCreate(new)
          \/ /\ reply = "ok" /\ dw.pc = "giveUp"
             /\ Go("errorStatus", new.status) /\ StoreInSidecar(new)
          \/ reply = "ok" /\ dw.pc = "tidy" /\ SidecarDone /\ StoreInSidecar(new)
          \/ reply # "ok" /\ dw.pc = "tidy" /\ RetrySidecar /\ KeepSidecarStore
          \/ /\ reply # "ok" /\ dw.pc # "tidy"
             /\ Go("errorStatus", dw.status) /\ KeepSidecarStore
       /\ UNCHANGED <<storage, lapses, NotSidecarWorker>>

\* updateContentErrorStatusWithEvent: it initialises the status if the copy has
\* none; otherwise it patches the error in, and resets ReadyToUse.  Its own
\* failure is ignored; the key is retried.
UpdateContentErrorStatus(reply) ==
    LET initialise == dw.status = "nil"
        new == NextContent([vsc EXCEPT !.status =
                              IF ~initialise /\ HasHandle(vsc) THEN "cut"
                              ELSE "error"])
    IN /\ dw.pc = "errorStatus"
       /\ Answer(vsc # Absent /\ (initialise \/ vsc.status # "nil"), reply)
       /\ IF reply = "error" THEN UNCHANGED <<vsc, rev>> ELSE PutContent(new)
       /\ IF reply = "ok" THEN StoreInSidecar(new) ELSE KeepSidecarStore
       /\ RetrySidecar
       /\ UNCHANGED <<storage, lapses, NotSidecarWorker>>

\* ... or finds the same message in the copy and writes nothing.
KeepContentErrorStatus ==
    /\ dw.pc = "errorStatus"
    /\ dw.status \in {"error", "cut", "cleared"}
    /\ RetrySidecar
    /\ UNCHANGED <<vsc, rev, sidecarStore, storage, budget, lapses,
                   NotSidecarWorker>>

\* handler.DeleteSnapshot; the snapshot may be gone although the call failed.
CallDelete(result) ==
    /\ dw.pc = "csiDelete"
    /\ \/ /\ result = "ok"
          /\ storage' = "none"
          /\ dw' = [dw EXCEPT !.pc = "clear"]
          /\ UNCHANGED <<sidecarQueue, budget>>
       \/ /\ result = "failed"
          /\ storage' \in {storage, "none"}
          /\ RetrySidecar
          /\ Spend("csi")
    /\ UNCHANGED <<vsc, rev, sidecarStore, lapses, NotSidecarWorker>>

\* clearVolumeContentStatus, then on to the finalizer if there is one.
ClearVolumeContentStatus(reply) ==
    LET new == NextContent([vsc EXCEPT !.status = IF @ = "nil" THEN "nil"
                                                  ELSE "cleared"])
    IN /\ dw.pc = "clear"
       /\ Answer(vsc # Absent, reply)
       /\ IF reply = "error" THEN UNCHANGED <<vsc, rev>> ELSE PutContent(new)
       /\ IF reply # "ok" THEN RetrySidecar
          ELSE IF new.fin THEN Go("removeFinalizer", "nil") ELSE SidecarDone
       /\ UNCHANGED <<sidecarStore, storage, lapses, NotSidecarWorker>>

\* removeContentFinalizer.
RemoveContentFinalizer(reply) ==
    LET new == NextContent([vsc EXCEPT !.fin = FALSE])
    IN /\ dw.pc = "removeFinalizer"
       /\ Answer(vsc # Absent, reply)
       /\ IF reply = "error" THEN UNCHANGED <<vsc, rev>> ELSE PutContent(new)
       /\ IF reply = "ok" THEN SidecarDone /\ StoreInSidecar(new)
          ELSE RetrySidecar /\ KeepSidecarStore
       /\ UNCHANGED <<storage, lapses, NotSidecarWorker>>

CreateResults == {"ready", "notReady", "timeout", "final"}
DeleteResults == {"ok", "failed"}

SidecarCall(reply) ==
    \/ SetAnnVolumeSnapshotBeingCreated(reply)
    \/ UpdateSnapshotContentStatus(reply)
    \/ RemoveAnnVolumeSnapshotBeingCreated(reply)
    \/ UpdateContentErrorStatus(reply)
    \/ ClearVolumeContentStatus(reply)
    \/ RemoveContentFinalizer(reply)

SidecarWorker ==
    \/ ForgetSidecarContent
    \/ IgnoreOldSidecarContent
    \/ SyncSidecarContent
    \/ \E result \in CreateResults : CallCreate(result)
    \/ \E result \in DeleteResults : CallDelete(result)
    \/ KeepContentErrorStatus
    \/ \E reply \in Replies : SidecarCall(reply)

-----------------------------------------------------------------------------
(***************************************************************************)
(* Informers.  A cache jumps to the server's version.  It is behind if the  *)
(* object appeared, went away or has another version; a cached object that  *)
(* was changed in place keeps its version.                                 *)
(***************************************************************************)
Behind(cached, current) ==
    IF cached = Absent \/ current = Absent THEN cached # current
    ELSE cached.rv # current.rv

DeliverSnapshot ==
    /\ Behind(snapshotLister, vs)
    /\ snapshotLister' = vs
    /\ snapshotQueue' = TRUE
    /\ UNCHANGED <<api, contentLister, snapshotStore, contentStore, shared,
                   contentQueue, sw, cw, sidecar, storage, restore, budget, lapses>>

DeliverContent ==
    /\ Behind(contentLister, vsc)
    /\ contentLister' = vsc /\ shared' = FALSE
    /\ contentQueue' = TRUE
    /\ UNCHANGED <<api, snapshotLister, snapshotStore, contentStore,
                   snapshotQueue, sw, cw, sidecar, storage, restore, budget, lapses>>

\* utils.ShouldEnqueueContentChange: of what changes here it looks at the
\* deletion timestamp and at the annotation the sidecar does not own.
ShouldEnqueueContentChange(old, new) ==
    \/ old.rv = new.rv
    \/ old.uid # new.uid
    \/ old.deleting # new.deleting
    \/ ("BeingDeleted" \in old.anns) # ("BeingDeleted" \in new.anns)

DeliverToSidecar ==
    /\ Behind(sidecarLister, vsc)
    /\ sidecarLister' = vsc
    /\ sidecarQueue' = (\/ sidecarQueue
                        \/ sidecarLister = Absent \/ vsc = Absent
                        \/ ShouldEnqueueContentChange(sidecarLister, vsc))
    /\ UNCHANGED <<api, common, sidecarStore, dw, storage, restore, budget, lapses>>

\* The resync period: every cached object is handed to its handler again.  It
\* is long, so a resync finds nothing going on; one that comes earlier counts
\* as a fault.
Quiet ==
    /\ ~snapshotQueue /\ ~contentQueue /\ ~sidecarQueue
    /\ sw.pc = "idle" /\ cw.pc = "idle" /\ dw.pc = "idle"
    /\ ~Behind(snapshotLister, vs)
    /\ ~Behind(contentLister, vsc) /\ ~Behind(sidecarLister, vsc)

Resync ==
    /\ IF Quiet THEN UNCHANGED budget ELSE Spend("resync")
    /\ snapshotQueue' = (snapshotQueue \/ snapshotLister # Absent)
    /\ contentQueue'  = (contentQueue \/ contentLister # Absent)
    /\ sidecarQueue'  = (sidecarQueue \/ sidecarLister # Absent)
    /\ UNCHANGED <<api, snapshotLister, contentLister, snapshotStore,
                   contentStore, shared, sw, cw, sidecarLister, sidecarStore, dw,
                   storage, restore, lapses>>

\* PVCs are listed; their events have no handler.
DeliverPVC ==
    /\ pvcLister # restoring
    /\ pvcLister' = restoring
    /\ UNCHANGED <<api, common, sidecar, storage, restoring, budget, lapses>>

Deliver == DeliverSnapshot \/ DeliverContent \/ DeliverToSidecar \/ DeliverPVC

\* An informer that does not lag has something to deliver.
Overdue ==
    \/ "snapshots" \notin Lagging /\ Behind(snapshotLister, vs)
    \/ "contents" \notin Lagging /\ Behind(contentLister, vsc)
    \/ "sidecar" \notin Lagging /\ Behind(sidecarLister, vsc)
    \/ "pvcs" \notin Lagging /\ pvcLister # restoring

-----------------------------------------------------------------------------
(***************************************************************************)
(* Users, the driver, restarts.                                            *)
(***************************************************************************)
UserDeletesSnapshot ==
    /\ vs # Absent /\ ~vs.deleting
    /\ PutSnapshot(NextSnapshot([vs EXCEPT !.deleting = TRUE]))
    /\ Spend("delete")
    /\ UNCHANGED <<vsc, rev, common, sidecar, storage, restore, lapses>>

AdminDeletesContent ==
    /\ vsc # Absent /\ ~vsc.deleting
    /\ PutContent(NextContent([vsc EXCEPT !.deleting = TRUE]))
    /\ Spend("admin")
    /\ UNCHANGED <<vs, common, sidecar, storage, restore, lapses>>

\* A PVC whose data source is the snapshot becomes Pending.  The provisioner
\* takes no snapshot that is not ready or is being deleted.
StartRestore ==
    /\ ~restoring /\ vs # Absent /\ vs.ready /\ ~vs.deleting
    /\ restoring' = TRUE
    /\ Spend("restore")
    /\ UNCHANGED <<api, common, sidecar, storage, pvcLister, lapses>>

EndRestore ==
    /\ restoring
    /\ restoring' = FALSE
    /\ UNCHANGED <<api, common, sidecar, storage, pvcLister, budget, lapses>>

\* The driver ends a request whose caller gave up waiting.
DriverCompletes ==
    /\ storage = "inflight"
    /\ storage' \in {"none", "cut", "ready"}
    /\ UNCHANGED <<api, common, sidecar, restore, budget, lapses>>

\* A restart: the caches are read from the server before the workers start
\* (initializeCaches), and every object is queued.
RestartCommon ==
    /\ Spend("crash")
    /\ snapshotLister' = vs /\ snapshotStore' = vs
    /\ contentLister' = vsc /\ contentStore' = vsc /\ shared' = FALSE
    /\ pvcLister' = restoring
    /\ snapshotQueue' = (vs # Absent) /\ contentQueue' = (vsc # Absent)
    /\ sw' = SnapshotIdle /\ cw' = ContentIdle
    /\ UNCHANGED <<api, sidecar, storage, restoring, lapses>>

\* A CreateSnapshot that was under way may still be.
RestartSidecar ==
    /\ Spend("crash")
    /\ sidecarLister' = vsc
    /\ sidecarStore' = IF vsc = Absent THEN NoVersion ELSE vsc.rv
    /\ sidecarQueue' = (vsc # Absent)
    /\ dw' = SidecarIdle
    /\ IF dw.pc = "csiCreate"
       THEN storage' \in AfterTimeout /\ NoteUnprotected
       ELSE UNCHANGED <<storage, lapses>>
    /\ UNCHANGED <<api, common, restore>>

Environment ==
    \/ UserDeletesSnapshot \/ AdminDeletesContent
    \/ StartRestore \/ EndRestore
    \/ DriverCompletes
    \/ RestartCommon \/ RestartSidecar

Next ==
    \/ Deliver
    \/ ~Overdue /\ (SnapshotWorker \/ ContentWorker \/ SidecarWorker \/ Resync
                      \/ Environment)

(***************************************************************************)
(* Workers loop and informers deliver and resync for ever; the driver ends  *)
(* what it began; a Pending PVC is bound or deleted at some time.  Nobody   *)
(* has to delete anything, and no fault has to happen.                     *)
(***************************************************************************)
Fairness ==
    /\ WF_vars(SnapshotWorker)
    /\ WF_vars(ContentWorker)
    /\ WF_vars(SidecarWorker)
    /\ WF_vars(DeliverSnapshot) /\ WF_vars(DeliverContent)
    /\ WF_vars(DeliverToSidecar) /\ WF_vars(DeliverPVC)
    /\ WF_vars(Resync)
    /\ WF_vars(DriverCompletes)
    /\ WF_vars(EndRestore)

Spec == Init /\ [][Next]_vars
FairSpec == Spec /\ Fairness

-----------------------------------------------------------------------------
(***************************************************************************)
(* Safety.                                                                 *)
(***************************************************************************)
\* The deletion of the snapshot has been asked for, or is over.
Going == vs = Absent \/ vs.deleting

\* Every copy of the annotations of the content.
AnnotationCopies ==
    {c.anns : c \in {vsc, contentLister, contentStore, sidecarLister} \ {Absent}}
        \cup {sw.anns, cw.anns, dw.anns}

\* BeingDeleted is written for a snapshot that is being deleted and no other.
MarkedOnlyWhenGoing == (\E anns \in AnnotationCopies : "BeingDeleted" \in anns) => Going

\* Nothing is torn down on behalf of a snapshot nobody wants to delete.
TornDownOnlyWhenGoing ==
    /\ \A s \in {snapshotLister, snapshotStore, sw.snap} \ {Absent} :
          s.deleting => Going
    /\ sw.pc \in {"annotate", "delete", "removeFinalizer"} => Going
    /\ cw.pc = "annotate" => Going
    /\ dw.pc = "csiDelete" => Going /\ Policy = "Delete"

\* Somebody holds that the snapshot is ready.
SaidReady ==
    \/ \E c \in {vsc, contentLister, contentStore, sidecarLister} \ {Absent} :
          c.status = "ready"
    \/ sw.ready \/ dw.ready \/ dw.status = "ready"
    \/ vs # Absent /\ vs.ready

\* ReadyToUse, in whatever copy, speaks of a snapshot that is ready on storage.
ReadyIsTrue == SaidReady /\ ~Going => storage = "ready"

\* The inductive invariant behind ReadyMeansCut and NoReclaimBeforeDelete: no
\* copy of an object, however old, and no call under way, speaks of a deletion
\* nobody asked for, or of a ready snapshot that storage does not have.
SafetyInv ==
    /\ TypeOK
    /\ MarkedOnlyWhenGoing
    /\ TornDownOnlyWhenGoing
    /\ ReadyIsTrue

\* A snapshot its user may restore from (ReadyToUse, and no deletion asked for)
\* is ready on storage.
ReadyMeansCut == vs # Absent /\ vs.ready /\ ~vs.deleting => storage = "ready"

\* The physical snapshot is destroyed only under policy Delete and only after
\* the user asked for the deletion of the VolumeSnapshot (shouldDelete and
\* AnnVolumeSnapshotBeingDeleted), whatever happens to the content.
NoReclaimBeforeDelete ==
    [][(storage \in {"cut", "ready"} /\ storage' = "none")
         => Policy = "Delete" /\ Going]_vars

\* A VolumeSnapshot that was ready does not become unready again through any
\* single fault (updateSnapshotStatus, updateSnapshotErrorStatusWithEvent).
ReadyStable ==
    [][vs # Absent /\ vs.ready => (vs' # Absent => vs'.ready)]_vars

\* Steps that take a finalizer away, perhaps together with the object.
LosesBoundFinalizer ==
    /\ vs # Absent /\ "Bound" \in vs.fins
    /\ vs' # Absent => "Bound" \notin vs'.fins

LosesContentFinalizer ==
    /\ vsc # Absent /\ vsc.fin
    /\ vsc' # Absent => ~vsc'.fin

\* VolumeSnapshotBoundFinalizer keeps the snapshot until the content is gone
\* (removeSnapshotFinalizer, 2b), unless the content was overlooked.
BoundFinalizerHeld ==
    [][Policy = "Delete" /\ LosesBoundFinalizer
         => vsc = Absent \/ "missed" \in lapses]_vars

\* The snapshot does not leave a content behind that nobody will delete, unless
\* the content was overlooked (processSnapshotWithDeletionTimestamp).
NoOrphan ==
    vs = Absent /\ vsc # Absent /\ Policy = "Delete"
      => vsc.deleting \/ "missed" \in lapses

\* Under either policy the snapshot leaves no content behind without
\* AnnVolumeSnapshotBeingDeleted, on which every later deletion in the sidecar
\* depends, unless one of three races took the annotation away.
MarkedBeforeGone ==
    vs = Absent /\ vsc # Absent
      => "BeingDeleted" \in vsc.anns
           \/ lapses \cap {"missed", "masked", "dropDeleted"} # {}

\* When snapshot and content are gone the storage is free, unless the driver was
\* called before the content had its finalizer, or a stale patch removed
\* AnnVolumeSnapshotBeingCreated.
NoLeak ==
    vs = Absent /\ vsc = Absent /\ Policy = "Delete"
      => storage = "none" \/ lapses \cap {"unprotected", "dropCreated"} # {}

\* The sidecar takes the finalizer off the content only when the storage is free
\* ("the finalizer on content should NOT be removed to avoid leaking").
FinalizerHeldUntilReclaimed ==
    [][Policy = "Delete" /\ LosesContentFinalizer
         => storage = "none" \/ lapses \cap {"unprotected", "dropCreated"} # {}]_vars

\* The snapshot a PVC is being restored from stays
\* (isVolumeBeingCreatedFromSnapshot).
RestoreProtected == restoring => storage = "ready"

(***************************************************************************)
(* Refinement.                                                             *)
(***************************************************************************)
Promise == INSTANCE SnapshotPromise WITH
    request   <- IF vs = Absent THEN "gone"
                 ELSE IF vs.deleting THEN "deleting" ELSE "live",
    available <- vs # Absent /\ vs.ready /\ ~vs.deleting,
    stored    <- IF storage = "inflight" THEN "none" ELSE storage

\* The controllers keep the promise: availability follows storage, deletion
\* follows the request, and each only in the order the user was told.
KeepsPromise == Promise!Spec

(***************************************************************************)
(* Liveness, under FairSpec.                                               *)
(***************************************************************************)
\* A VolumeSnapshot whose deletion was asked for goes away.
DeletionCompletes == (vs # Absent /\ vs.deleting) ~> vs = Absent

\* A VolumeSnapshot nobody deletes becomes ready.
BecomesReady == <>(Going \/ vs.ready)

\* Under policy Delete the content follows the snapshot, and the storage is
\* freed, unless one of the races above left the content behind.
StorageFreed ==
    (vs = Absent /\ Policy = "Delete")
      ~> ((vsc = Absent /\ storage = "none") \/ lapses # {})
=============================================================================
