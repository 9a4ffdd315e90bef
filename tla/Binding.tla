------------------------------- MODULE Binding -------------------------------
(***************************************************************************)
(* A pre-provisioned VolumeSnapshotContent, and the VolumeSnapshots of one  *)
(* name that ask for it one after the other: a user deletes the snapshot    *)
(* and creates another with the same name, which differs in its UID only.   *)
(* The content names a snapshot; the common controller completes the        *)
(* reference with the UID and writes the content's name to the status of    *)
(* the snapshot, in two calls on copies of different age.                   *)
(*                                                                         *)
(* The lister and the store of an object are one copy (StoreObjectUpdate    *)
(* keeps the newer of the two); a copy may be old.  A snapshot of another   *)
(* name that asks for the content is turned away by the name alone, and is  *)
(* not modelled.  The sidecar's calls are one step each, on the current     *)
(* content: it decides on a deletion timestamp, an annotation and a UID     *)
(* that are never taken back.                                               *)
(***************************************************************************)
EXTENDS Naturals, FiniteSets

CONSTANTS
    Absent,    \* the object does not exist
    Uids,      \* the snapshots a user creates: 1 to Uids
    Policies,  \* deletionPolicy of the content
    Budgets    \* how many events of each kind a behaviour may have

\* api, lost: a call fails, or its answer does; crash: the common controller
\* restarts; admin: the content is deleted by hand.
Faults == {"api", "lost", "crash", "admin"}

ASSUME UidsAssumption == Uids \in Nat
ASSUME PoliciesAssumption == Policies \subseteq {"Delete", "Retain"}
ASSUME BudgetsAssumption == Budgets \subseteq [Faults -> Nat]

Uid == 1 .. Uids
NoUid == 0

Snapshot == [uid : Uid, deleting : BOOLEAN, fins : SUBSET {"AsSource", "Bound"},
             bound : BOOLEAN, ready : BOOLEAN]

\* uid: of Spec.VolumeSnapshotRef; marked: AnnVolumeSnapshotBeingDeleted;
\* ready: the status has the handle and ReadyToUse.
Content == [uid : Uid \cup {NoUid}, deleting : BOOLEAN, fin : BOOLEAN,
            marked : BOOLEAN, ready : BOOLEAN]

ASSUME AbsentAssumption == Absent \notin Snapshot /\ Absent \notin Content

VARIABLES
    policy, classed,         \* the content's policy; snapshots have a class
    snap, content,           \* at the API server
    snapKnown, snapListed,   \* the controller's copies, and whether the
    contentKnown,            \* informer's cache still has the snapshot
    snapQueue, contentQueue,
    sw, cw,                  \* snapshot worker, content worker
    storage,                 \* is the physical snapshot there?
    asked,                   \* the snapshots whose deletion users asked for
    created,                 \* how many snapshots users have created
    budget,
    lapses                   \* history: the races that happened

known == <<snapKnown, snapListed, contentKnown>>
queues == <<snapQueue, contentQueue>>
users == <<asked, created>>
settings == <<policy, classed>>
vars == <<settings, snap, content, known, queues, sw, cw, storage, users, budget,
          lapses>>

\* snap: the copy being synced; found: its content; ready: of the content.
SnapshotWork ==
    [pc : {"idle", "addFinalizer", "bind", "status", "unready", "annotate",
           "delete", "release"},
     snap : Snapshot \cup {Absent}, found : BOOLEAN, ready : BOOLEAN]
ContentWork == {"idle", "addFinalizer", "annotate"}

Idle == [pc |-> "idle", snap |-> Absent, found |-> FALSE, ready |-> FALSE]

\* masked   the mark was in the copy in memory and not at the server
\* exposed  the content went away without ever having had its finalizer
\* unread   the sidecar let go of a content whose status had no handle yet
Lapses == {"masked", "exposed", "unread"}

Note(lapse, happened) ==
    lapses' = IF happened THEN lapses \cup {lapse} ELSE lapses

TypeOK ==
    /\ policy \in Policies /\ classed \in BOOLEAN
    /\ snap \in Snapshot \cup {Absent} /\ snapKnown \in Snapshot \cup {Absent}
    /\ content \in Content \cup {Absent} /\ contentKnown \in Content \cup {Absent}
    /\ snapListed \in BOOLEAN /\ snapQueue \in BOOLEAN /\ contentQueue \in BOOLEAN
    /\ sw \in SnapshotWork /\ cw \in ContentWork
    /\ storage \in BOOLEAN
    /\ asked \subseteq Uid /\ created \in 0 .. Uids
    /\ budget \in [Faults -> Nat] /\ lapses \subseteq Lapses

NewSnapshot(u) == [uid |-> u, deleting |-> FALSE, fins |-> {}, bound |-> FALSE,
                   ready |-> FALSE]

\* An administrator has made the content for a physical snapshot.
Init ==
    /\ policy \in Policies /\ classed \in BOOLEAN
    /\ snap = Absent
    /\ content = [uid |-> NoUid, deleting |-> FALSE, fin |-> FALSE,
                  marked |-> FALSE, ready |-> FALSE]
    /\ snapKnown = Absent /\ snapListed = FALSE /\ contentKnown = Absent
    /\ snapQueue = FALSE /\ contentQueue = FALSE
    /\ sw = Idle /\ cw = "idle"
    /\ storage = TRUE
    /\ asked = {} /\ created = 0
    /\ budget \in Budgets
    /\ lapses = {}

-----------------------------------------------------------------------------
Replies == {"ok", "lost", "error"}

Spend(kind) == /\ budget[kind] > 0
               /\ budget' = [budget EXCEPT ![kind] = @ - 1]

\* A call the server accepts is answered, loses its answer, or fails.
Answer(accepted, reply) ==
    /\ reply # "error" => accepted
    /\ IF reply = "ok" \/ ~accepted THEN UNCHANGED budget
       ELSE Spend(IF reply = "lost" THEN "lost" ELSE "api")

KeepSnapshot(s) == IF s.deleting /\ s.fins = {} THEN Absent ELSE s
KeepContent(c)  == IF c.deleting /\ ~c.fin THEN Absent ELSE c

\* The content is asked to go; without its finalizer it goes at once.
AskContentToGo ==
    /\ content' = KeepContent([content EXCEPT !.deleting = TRUE])
    /\ Note("exposed", ~content.fin)

RetrySnapshot == sw' = Idle /\ snapQueue' = TRUE

-----------------------------------------------------------------------------
(* What the snapshot worker decides from its copies *)

\* Changed for a check: a content without a UID is not taken.
MisboundIfFree(s, c) == c # Absent /\ c.uid # s.uid

\* getPreprovisionedContentFromStore: the content is bound to a snapshot of this
\* name that is not s.
Misbound(s, c) == c # Absent /\ c.uid \notin {NoUid, s.uid}

\* Changed for a check: the source finalizer waits for the binding.
FinalizersToAddOnceBound(s, c) ==
    (IF s.bound THEN {"AsSource"} \ s.fins ELSE {}) \cup
    (IF c # Absent /\ policy = "Delete" /\ s.bound THEN {"Bound"} \ s.fins ELSE {})

\* checkandAddSnapshotFinalizers.
FinalizersToAdd(s, c) ==
    ({"AsSource"} \ s.fins) \cup
    (IF c # Absent /\ policy = "Delete" /\ s.bound THEN {"Bound"} \ s.fins ELSE {})

\* checkandBindSnapshotContent has nothing to do for a content that is bound and
\* has a class.
NeedsBinding(c) == c.uid = NoUid \/ ~classed

Failed(s) == [Idle EXCEPT !.pc = "unready", !.snap = s]

\* syncReadySnapshot, syncUnreadySnapshot: the next call.  An error that changes
\* the text of the status only is no call.
SyncStep(s, c) ==
    IF s.ready /\ s.bound
    THEN IF c # Absent /\ c.uid = s.uid THEN Idle ELSE Failed(s)
    ELSE IF c = Absent \/ Misbound(s, c) THEN Idle
    ELSE [Idle EXCEPT !.pc = IF NeedsBinding(c) THEN "bind" ELSE "status",
                      !.snap = s, !.ready = c.ready]

\* A snapshot that is not ready and whose content is not there, or not its own,
\* is queued again.
Waits(s, c) == (c = Absent \/ Misbound(s, c)) /\ ~(s.ready /\ s.bound)

TakeSnapshot == /\ sw.pc = "idle" /\ snapQueue
                /\ snapListed /\ snapKnown # Absent

NotSnapshotWorker == <<settings, snapListed, contentQueue, cw, storage, users>>

\* syncSnapshot.
SyncSnapshot ==
    LET s == snapKnown
        c == contentKnown
        misplaced == Misbound(s, c)
        add == FinalizersToAdd(s, c)
    IN /\ TakeSnapshot /\ ~s.deleting
       /\ IF misplaced /\ s.ready THEN sw' = Failed(s)
          ELSE IF ~misplaced /\ add # {}
          THEN sw' = [Idle EXCEPT !.pc = "addFinalizer", !.snap = s]
          ELSE sw' = SyncStep(s, c)
       /\ snapQueue' = (sw'.pc = "idle" /\ Waits(s, c))
       /\ UNCHANGED <<snap, content, snapKnown, contentKnown, budget, lapses,
                      NotSnapshotWorker>>

\* addSnapshotFinalizer: an update of the copy when it has no finalizer, a patch
\* otherwise.  The sync goes on with the copy it had.
AddSnapshotFinalizer(reply) ==
    LET s == sw.snap
        accepted == snap # Absent /\ (s.fins = {} => snap = s)
        protected == [snap EXCEPT !.fins = @ \cup FinalizersToAdd(s, contentKnown)]
    IN /\ sw.pc = "addFinalizer"
       /\ Answer(accepted, reply)
       /\ snap' = IF reply = "error" THEN snap ELSE protected
       /\ IF reply = "ok"
          THEN /\ snapKnown' = protected
               /\ sw' = SyncStep(s, contentKnown)
               /\ snapQueue' = TRUE
          ELSE RetrySnapshot /\ UNCHANGED snapKnown
       /\ UNCHANGED <<content, contentKnown, lapses, NotSnapshotWorker>>

\* checkandBindSnapshotContent: a patch of the UID, whatever version the server
\* has.
BindContent(reply) ==
    LET c == [content EXCEPT !.uid = sw.snap.uid]
    IN /\ sw.pc = "bind"
       /\ Answer(content # Absent, reply)
       /\ content' = IF reply = "error" THEN content ELSE c
       /\ IF reply = "ok"
          THEN /\ contentKnown' = c
               /\ sw' = [sw EXCEPT !.pc = "status", !.ready = c.ready]
               /\ UNCHANGED snapQueue
          ELSE RetrySnapshot /\ UNCHANGED contentKnown
       /\ UNCHANGED <<snap, snapKnown, lapses, NotSnapshotWorker>>

\* updateSnapshotStatus: a Get by name and an UpdateStatus of what it returned.
UpdateSnapshotStatus(reply) ==
    LET s == [snap EXCEPT !.bound = TRUE, !.ready = sw.ready]
    IN /\ sw.pc = "status"
       /\ Answer(snap # Absent, reply)
       /\ snap' = IF reply = "error" THEN snap ELSE s
       /\ IF reply = "ok" THEN sw' = Idle /\ UNCHANGED snapQueue ELSE RetrySnapshot
       /\ UNCHANGED <<content, snapKnown, contentKnown, lapses, NotSnapshotWorker>>

\* updateSnapshotErrorStatusWithEvent with setReadyToFalse, of the copy in hand.
MarkUnready(reply) ==
    LET s == [sw.snap EXCEPT !.ready = FALSE]
    IN /\ sw.pc = "unready"
       /\ Answer(snap = sw.snap, reply)
       /\ snap' = IF reply = "error" THEN snap ELSE s
       /\ snapKnown' = IF reply = "ok" THEN s ELSE snapKnown
       /\ RetrySnapshot
       /\ UNCHANGED <<content, contentKnown, lapses, NotSnapshotWorker>>

-----------------------------------------------------------------------------
(* Deletion *)

\* processSnapshotWithDeletionTimestamp: the status of the snapshot names the
\* content, and the content points back to the snapshot, UID and all.
PointsBack(s, c) == s.bound /\ c # Absent /\ c.uid = s.uid

\* Changed for a check: the finalizers go first.
AfterMarkFinalizerFirst(w) == [w EXCEPT !.pc = "release"]

\* The content goes before the finalizers do.
AfterMark(w) ==
    [w EXCEPT !.pc = IF w.found /\ policy = "Delete" THEN "delete" ELSE "release"]

SyncDeletingSnapshot ==
    LET s == snapKnown
        c == contentKnown
        found == PointsBack(s, c)
        w == [Idle EXCEPT !.snap = s, !.found = found]
    IN /\ TakeSnapshot /\ s.deleting
       /\ snapQueue' = FALSE
       /\ IF s.fins = {} THEN sw' = Idle /\ UNCHANGED <<contentKnown, lapses>>
          ELSE IF found /\ ~c.marked
          THEN /\ contentKnown' = [c EXCEPT !.marked = TRUE]
               /\ sw' = [w EXCEPT !.pc = "annotate"]
               /\ UNCHANGED lapses
          ELSE /\ sw' = AfterMark(w)
               /\ Note("masked", found /\ content # Absent /\ ~content.marked)
               /\ UNCHANGED contentKnown
       /\ UNCHANGED <<snap, content, snapKnown, budget, NotSnapshotWorker>>

\* setAnnVolumeSnapshotBeingDeleted, called by both workers.
Mark(reply, whenDone, whenFailed) ==
    LET c == [content EXCEPT !.marked = TRUE]
    IN /\ Answer(content # Absent, reply)
       /\ content' = IF reply = "error" THEN content ELSE c
       /\ IF reply = "ok" THEN contentKnown' = c /\ whenDone
          ELSE UNCHANGED contentKnown /\ whenFailed

MarkContent(reply) ==
    /\ sw.pc = "annotate"
    /\ Mark(reply, sw' = AfterMark(sw) /\ UNCHANGED snapQueue, RetrySnapshot)
    /\ UNCHANGED <<snap, snapKnown, lapses, NotSnapshotWorker>>

\* The deletion timestamp of the content; a content that is gone is an error.
DeleteContent(reply) ==
    /\ sw.pc = "delete"
    /\ Answer(content # Absent, reply)
    /\ IF reply = "error" THEN UNCHANGED <<content, lapses>> ELSE AskContentToGo
    /\ IF reply = "ok" THEN sw' = [sw EXCEPT !.pc = "release"] /\ UNCHANGED snapQueue
       ELSE RetrySnapshot
    /\ UNCHANGED <<snap, snapKnown, contentKnown, NotSnapshotWorker>>

\* Changed for a check: whether the content is there is not looked at.
KeepsBoundAlways(w) == policy = "Delete"

\* Bound stays for as long as the content is there to be deleted.
KeepsBound(w) == w.found /\ policy = "Delete"

\* removeSnapshotFinalizer: an update of the copy.
ReleaseSnapshot(reply) ==
    LET fins == sw.snap.fins \ (IF KeepsBound(sw) THEN {"AsSource"}
                                ELSE {"AsSource", "Bound"})
        s == [sw.snap EXCEPT !.fins = fins]
    IN /\ sw.pc = "release"
       /\ Answer(snap = sw.snap, reply)
       /\ snap' = IF reply = "error" THEN snap ELSE KeepSnapshot(s)
       /\ IF reply = "ok"
          THEN snapKnown' = s /\ sw' = Idle /\ UNCHANGED snapQueue
          ELSE RetrySnapshot /\ UNCHANGED snapKnown
       /\ UNCHANGED <<content, contentKnown, lapses, NotSnapshotWorker>>

\* deleteSnapshot: the informer's cache no longer has it.
ForgetSnapshot ==
    /\ sw.pc = "idle" /\ snapQueue /\ ~snapListed
    /\ snapQueue' = FALSE
    /\ contentQueue' = (contentQueue \/ (snapKnown # Absent /\ snapKnown.bound))
    /\ snapKnown' = Absent
    /\ UNCHANGED <<settings, snap, content, snapListed, contentKnown, sw, cw, storage,
                   users, budget, lapses>>

-----------------------------------------------------------------------------
(* The content worker of the common controller: syncContent *)

NotContentWorker == <<settings, snap, snapKnown, snapListed, sw, storage, users>>

NeedsUpdateSnapshotStatus(s, c) == c.ready

SyncContent ==
    LET c == contentKnown
        s == snapKnown
        own == s # Absent /\ s.uid = c.uid
        candidate == own /\ s.deleting /\ s.fins # {}
    IN /\ cw = "idle" /\ contentQueue /\ c # Absent
       /\ contentQueue' = FALSE
       /\ IF c.uid # NoUid /\ ~c.deleting /\ ~c.fin
          THEN cw' = "addFinalizer" /\ UNCHANGED <<snapQueue, contentKnown>>
          ELSE /\ snapQueue' = (snapQueue \/ (own /\ NeedsUpdateSnapshotStatus(s, c)))
               /\ IF candidate /\ ~c.marked
                  THEN cw' = "annotate" /\ contentKnown' = [c EXCEPT !.marked = TRUE]
                  ELSE UNCHANGED <<cw, contentKnown>>
       /\ UNCHANGED <<content, budget, lapses, NotContentWorker>>

RetryContent == cw' = "idle" /\ contentQueue' = TRUE

\* addContentFinalizer.
AddContentFinalizer(reply) ==
    LET c == [content EXCEPT !.fin = TRUE]
    IN /\ cw = "addFinalizer"
       /\ Answer(content # Absent, reply)
       /\ content' = IF reply = "error" THEN content ELSE c
       /\ contentKnown' = IF reply = "ok" THEN c ELSE contentKnown
       /\ RetryContent
       /\ UNCHANGED <<snapQueue, lapses, NotContentWorker>>

AnnotateContent(reply) ==
    /\ cw = "annotate"
    /\ Mark(reply, cw' = "idle" /\ UNCHANGED contentQueue, RetryContent)
    /\ UNCHANGED <<snapQueue, lapses, NotContentWorker>>

-----------------------------------------------------------------------------
(* The sidecar *)

NotSidecar == <<settings, snap, known, queues, sw, cw, users, budget>>

\* Changed for a check: any deletion will do.
ShouldDeleteUnasked(c) == c.deleting

\* shouldDelete of a pre-provisioned content.
ShouldDelete(c) == c.deleting /\ (c.uid = NoUid \/ c.marked)

\* Changed for a check: the driver is never asked to delete.
OwesDeletionNever(c) == FALSE

\* The physical snapshot has to go before the finalizer does.
OwesDeletion(c) == policy = "Delete" /\ c.ready

\* checkandUpdateContentStatusOperation: GetSnapshotStatus, for the handle.
ReportStatus ==
    /\ content # Absent /\ ~ShouldDelete(content) /\ ~content.ready /\ storage
    /\ content' = [content EXCEPT !.ready = TRUE]
    /\ UNCHANGED <<storage, lapses, NotSidecar>>

\* deleteCSISnapshotOperation, when the status has a handle.
DeletePhysicalSnapshot ==
    /\ content # Absent /\ ShouldDelete(content)
    /\ OwesDeletion(content)
    /\ storage' = FALSE
    /\ content' = [content EXCEPT !.ready = FALSE]
    /\ UNCHANGED <<lapses, NotSidecar>>

\* removeContentFinalizer.
ReleaseContent ==
    /\ content # Absent /\ ShouldDelete(content) /\ content.fin
    /\ ~OwesDeletion(content)
    /\ content' = Absent
    /\ Note("unread", policy = "Delete" /\ ~content.ready /\ storage)
    /\ UNCHANGED <<storage, NotSidecar>>

-----------------------------------------------------------------------------
(* Informers, restarts, users *)

DeliverSnapshot ==
    /\ snapListed # (snap # Absent) \/ (snap # Absent /\ snap # snapKnown)
    /\ snapListed' = (snap # Absent)
    /\ snapKnown' = IF snap = Absent THEN snapKnown ELSE snap
    /\ snapQueue' = TRUE
    /\ UNCHANGED <<settings, snap, content, contentKnown, contentQueue, sw, cw,
                   storage, users, budget, lapses>>

\* Of a content that is gone, deleteContent queues the snapshot.
DeliverContent ==
    /\ content # contentKnown
    /\ contentKnown' = content
    /\ contentQueue' = TRUE
    /\ snapQueue' = (snapQueue \/ content = Absent)
    /\ UNCHANGED <<settings, snap, content, snapKnown, snapListed, sw, cw, storage,
                   users, budget, lapses>>

Quiet == sw.pc = "idle" /\ cw = "idle" /\ ~snapQueue /\ ~contentQueue

Resync ==
    /\ Quiet /\ (snapListed \/ contentKnown # Absent)
    /\ snapQueue' = snapListed /\ contentQueue' = (contentKnown # Absent)
    /\ UNCHANGED <<settings, snap, content, known, sw, cw, storage, users, budget,
                   lapses>>

\* initializeCaches.
RestartController ==
    /\ Spend("crash")
    /\ sw' = Idle /\ cw' = "idle"
    /\ snapKnown' = snap /\ snapListed' = (snap # Absent) /\ contentKnown' = content
    /\ snapQueue' = (snap # Absent) /\ contentQueue' = (content # Absent)
    /\ UNCHANGED <<settings, snap, content, storage, users, lapses>>

UserCreatesSnapshot ==
    /\ snap = Absent /\ created < Uids
    /\ created' = created + 1
    /\ snap' = NewSnapshot(created')
    /\ UNCHANGED <<settings, content, known, queues, sw, cw, storage, asked, budget,
                   lapses>>

UserDeletesSnapshot ==
    /\ snap # Absent /\ ~snap.deleting
    /\ asked' = asked \cup {snap.uid}
    /\ snap' = KeepSnapshot([snap EXCEPT !.deleting = TRUE])
    /\ UNCHANGED <<settings, content, known, queues, sw, cw, storage, created, budget,
                   lapses>>

AdminDeletesContent ==
    /\ content # Absent /\ ~content.deleting
    /\ Spend("admin")
    /\ AskContentToGo
    /\ UNCHANGED <<settings, snap, known, queues, sw, cw, storage, users>>

-----------------------------------------------------------------------------
SnapshotWorker ==
    \/ SyncSnapshot \/ SyncDeletingSnapshot \/ ForgetSnapshot
    \/ \E reply \in Replies :
          \/ AddSnapshotFinalizer(reply) \/ BindContent(reply)
          \/ UpdateSnapshotStatus(reply) \/ MarkUnready(reply)
          \/ MarkContent(reply) \/ DeleteContent(reply) \/ ReleaseSnapshot(reply)

ContentWorker ==
    \/ SyncContent
    \/ \E reply \in Replies : AddContentFinalizer(reply) \/ AnnotateContent(reply)

Sidecar == ReportStatus \/ DeletePhysicalSnapshot \/ ReleaseContent

Users == UserCreatesSnapshot \/ UserDeletesSnapshot \/ AdminDeletesContent

Next ==
    \/ SnapshotWorker \/ ContentWorker \/ Sidecar
    \/ DeliverSnapshot \/ DeliverContent \/ Resync \/ RestartController
    \/ Users

Spec == Init /\ [][Next]_vars

\* Workers, informers and the sidecar go on; users and faults need not come.
Fairness ==
    /\ WF_vars(SnapshotWorker) /\ WF_vars(ContentWorker) /\ WF_vars(Sidecar)
    /\ WF_vars(DeliverSnapshot) /\ WF_vars(DeliverContent) /\ WF_vars(Resync)

FairSpec == Spec /\ Fairness

-----------------------------------------------------------------------------
(***************************************************************************)
(* Safety and liveness.                                                    *)
(***************************************************************************)
Happened(which) == lapses \cap which # {}

\* Both sides agree: a snapshot whose status names the content is the one the
\* content points to, UID and all, though one is written by a patch and the
\* other by a Get by name (syncUnreadySnapshot, checkandBindSnapshotContent).
BoundBothWays == snap # Absent /\ snap.bound /\ content # Absent
                   => content.uid = snap.uid

\* The physical snapshot is deleted for the snapshot the content is bound to,
\* once its user asked for that, and for no other of the same name; a content
\* that is deleted by hand waits for it (shouldDelete).
FreedForItsOwner ==
    [][storage /\ ~storage' => policy = "Delete" /\ content.uid \in asked]_vars

\* A snapshot that is bound does not go before its content is asked to
\* (checkandRemoveSnapshotFinalizersAndCheckandDeleteContent).
ContentGoesFirst ==
    [][snap # Absent /\ snap.bound /\ snap' = Absent /\ policy = "Delete"
         => content = Absent \/ content.deleting]_vars

\* Who deletes the last of it frees the storage, unless the content had no
\* finalizer yet, or its status no handle.
NothingLeaks ==
    content = Absent /\ policy = "Delete"
      => ~storage \/ Happened({"exposed", "unread"})

\* A snapshot whose user deletes it goes away, unless its content waits for an
\* annotation the controller believes it has sent.
DeletionCompletes ==
    \A u \in Uid : u \in asked ~> (snap = Absent \/ snap.uid # u \/ Happened({"masked"}))

\* A snapshot that can have the content becomes ready, unless somebody asks for
\* the deletion of one of the two.
BecomesReady ==
    \A u \in Uid :
        (snap # Absent /\ snap.uid = u /\ content # Absent /\ content.uid \in {NoUid, u})
          ~> ((snap # Absent /\ snap.ready) \/ u \in asked
                \/ content = Absent \/ content.deleting)
=============================================================================
