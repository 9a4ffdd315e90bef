--------------------------- MODULE SourceProtection ---------------------------
(***************************************************************************)
(* The finalizer that keeps a PersistentVolumeClaim while snapshots are cut *)
(* from it.  Every snapshot of the claim has a worker of its own in the     *)
(* common controller (a key of the queue is with one worker at a time), and *)
(* the finalizer is shared: a worker looks for other users in the           *)
(* informers' caches and removes it in a later call.                        *)
(*                                                                         *)
(* SnapshotLifecycle has the life of one snapshot in detail; here what the  *)
(* driver does is one step, a content goes as soon as it is asked to, and   *)
(* of the two finalizers of a snapshot there is one.  (With the other, the  *)
(* check that this module is about is made twice, before and after the      *)
(* content goes: here once.)                                                *)
(***************************************************************************)
EXTENDS Naturals, FiniteSets

CONSTANTS
    Absent,     \* the object does not exist
    Snapshots,  \* the names of the snapshots a user takes of the claim
    MaxFaults   \* how often a call fails, an answer is lost or the common
                \* controller restarts

ASSUME MaxFaultsAssumption == MaxFaults \in Nat

\* held: VolumeSnapshotAsSourceFinalizer.
Snapshot == [deleting : BOOLEAN, held : BOOLEAN, ready : BOOLEAN]

\* fin: PVCFinalizer.  An update is accepted when the copy it comes from has the
\* server's value, which stands for the version.
Claim == [fin : BOOLEAN, deleting : BOOLEAN]

ASSUME AbsentAssumption == Absent \notin Snapshot /\ Absent \notin Claim

VARIABLES
    pvc,        \* the claim at the server
    pvcSeen,    \* and in the informer's cache (pvcLister)
    snap,       \* the snapshots at the server
    seen,       \* and in the informer's cache (snapshotLister)
    content,    \* the VolumeSnapshotContent of each snapshot
    queue,      \* the snapshots queued for a worker
    work,       \* what the worker of each snapshot does
    left,       \* the snapshots the user has yet to take
    budget,
    lapses      \* history: the races that happened

vars == <<pvc, pvcSeen, snap, seen, content, queue, work, left, budget, lapses>>

\* cutting: the driver takes the snapshot; cut: the status of the content is ready.
Contents == {"none", "cutting", "cut"}

\* snap, claim: the copies a sync works on; last: the check is the one before the
\* finalizers go; listed: the snapshots that check found in the cache; users: those
\* it took to use the claim; unseen: it missed a finalizer that was there.
Work == [pc : {"idle", "unprotect", "addFinalizer", "protect", "create",
               "status", "dispose", "release"},
         snap : Snapshot \cup {Absent}, claim : Claim \cup {Absent}, last : BOOLEAN,
         listed : SUBSET Snapshots, users : SUBSET Snapshots, unseen : BOOLEAN]

Idle == [pc |-> "idle", snap |-> Absent, claim |-> Absent, last |-> FALSE,
         listed |-> {}, users |-> {}, unseen |-> FALSE]

\* The claim is left open, or its finalizer for ever, when
\*   open       the finalizer goes while a snapshot is there that was not listed
\*   open       a finalizer that the cache still shows is gone at the server
\*   forgotten  the last check of a snapshot misses a finalizer that is there
\*   forgotten  a snapshot leaves it to others that have made their check
\*   forgotten  a snapshot goes at once, for it has no finalizer yet
Lapses == {"open", "forgotten"}

Note(lapse, happened) ==
    lapses' = IF happened THEN lapses \cup {lapse} ELSE lapses

TypeOK ==
    /\ pvc \in Claim \cup {Absent} /\ pvcSeen \in Claim \cup {Absent}
    /\ snap \in [Snapshots -> Snapshot \cup {Absent}]
    /\ seen \in [Snapshots -> Snapshot \cup {Absent}]
    /\ content \in [Snapshots -> Contents]
    /\ queue \subseteq Snapshots /\ left \subseteq Snapshots
    /\ work \in [Snapshots -> Work]
    /\ budget \in 0 .. MaxFaults /\ lapses \subseteq Lapses

Init ==
    /\ pvc = [fin |-> FALSE, deleting |-> FALSE]
    /\ pvcSeen = pvc
    /\ snap = [s \in Snapshots |-> Absent] /\ seen = snap
    /\ content = [s \in Snapshots |-> "none"]
    /\ queue = {} /\ left = Snapshots
    /\ work = [s \in Snapshots |-> Idle]
    /\ budget = MaxFaults
    /\ lapses = {}

-----------------------------------------------------------------------------
Replies == {"ok", "lost", "error"}

Spend == budget > 0 /\ budget' = budget - 1

\* A call the server accepts is answered, loses its answer, or fails.
Answer(accepted, reply) ==
    /\ reply # "error" => accepted
    /\ IF reply = "ok" \/ ~accepted THEN UNCHANGED budget ELSE Spend

\* The server removes an object with its last finalizer.
KeepSnapshot(s) == IF s.deleting /\ ~s.held THEN Absent ELSE s
KeepClaim(c)    == IF c.deleting /\ ~c.fin THEN Absent ELSE c

\* The end of a step of the sync of s: a next call, done, or queued again.
Again == [Idle EXCEPT !.pc = "again"]
To(s, w) ==
    /\ work' = [work EXCEPT ![s] = IF w = Again THEN Idle ELSE w]
    /\ queue' = (queue \ (IF work[s].pc = "idle" THEN {s} ELSE {}))
                   \cup (IF w = Again THEN {s} ELSE {})

Call(s, pc) == [Idle EXCEPT !.pc = pc, !.snap = work[s].snap]

-----------------------------------------------------------------------------
(* Who uses the claim, by the caches *)

\* Changed for a check: only the snapshot in hand is looked at.
UsersOwnOnly(s, skip) ==
    {t \in {s} : ~skip /\ seen[t] # Absent /\ ~seen[t].ready}

\* isPVCBeingUsed: the snapshots that are not ready, with or without s.
Users(s, skip) ==
    {t \in Snapshots \ (IF skip THEN {s} ELSE {}) :
        seen[t] # Absent /\ ~seen[t].ready}

ProtectedInCache == pvcSeen # Absent /\ pvcSeen.fin

\* checkandRemovePVCFinalizer at the start of syncSnapshot.
FirstCheck(s) == ProtectedInCache /\ Users(s, FALSE) = {}

\* Changed for a check: the snapshot that goes counts among the users.
LastCheckOfAll(s) == ProtectedInCache /\ Users(s, FALSE) = {}

\* And in removeSnapshotFinalizer, which skips the snapshot that goes.
LastCheck(s) == ProtectedInCache /\ Users(s, TRUE) = {}

Listed == {t \in Snapshots : seen[t] # Absent}

-----------------------------------------------------------------------------
(* What a sync does next *)

\* ensurePVCFinalizer: what it does about the claim it finds in the cache.
ProtectionStep ==
    CASE ProtectedInCache -> "create"
      [] pvcSeen # Absent /\ ~pvcSeen.fin /\ ~pvcSeen.deleting -> "protect"
      [] OTHER -> "again"

\* syncUnreadySnapshot: createSnapshotContent only when the store has no content.
ContentStep(s, copy) ==
    CASE copy.ready \/ content[s] = "cutting" -> "idle"
      [] ~copy.ready /\ content[s] = "none" -> ProtectionStep
      [] OTHER -> "status"

AfterFinalizer(s, copy) ==
    LET pc == ContentStep(s, copy)
    IN CASE pc = "again" -> Again
         [] pc = "idle" -> Idle
         [] OTHER -> [Idle EXCEPT !.pc = pc, !.snap = copy,
                                  !.claim = IF pc = "protect" THEN pvcSeen ELSE Absent]

\* removeSnapshotFinalizer, up to its first call.
ReleaseStep(s, copy) ==
    LET w == [Idle EXCEPT !.snap = copy, !.last = TRUE]
    IN IF LastCheck(s) THEN [w EXCEPT !.pc = "unprotect", !.listed = Listed]
       ELSE [w EXCEPT !.pc = "release",
                      !.users = IF ProtectedInCache THEN Users(s, TRUE) ELSE {},
                      !.unseen = pvc # Absent /\ pvc.fin /\ ~ProtectedInCache]

\* What follows the first check: syncSnapshot, or, for a snapshot that is deleted,
\* processSnapshotWithDeletionTimestamp: the content is marked and deleted first.
AfterFirstCheck(s, copy) ==
    CASE copy.deleting /\ content[s] = "none" -> ReleaseStep(s, copy)
      [] copy.deleting /\ content[s] # "none" ->
            [Idle EXCEPT !.pc = "dispose", !.snap = copy]
      [] ~copy.deleting /\ ~copy.held -> [Idle EXCEPT !.pc = "addFinalizer", !.snap = copy]
      [] OTHER -> AfterFinalizer(s, copy)

\* A sync that is about to create the content of an unprotected claim.
Believes(s) == work'[s].pc = "create" /\ ProtectedInCache /\ (pvc = Absent \/ ~pvc.fin)

\* The finalizer goes, and a snapshot that was not listed needs it.
Overlooks(w) == \E t \in Snapshots \ w.listed : snap[t] # Absent /\ ~snap[t].ready

\* The users that the last check found will not look for the finalizer again.
DefersInVain(w) == /\ w.users # {}
                   /\ \A t \in w.users : snap[t] = Absent \/ work[t].pc = "release"

-----------------------------------------------------------------------------
(* The worker of a snapshot *)

\* syncSnapshotByKey, and syncSnapshot up to its first call.
TakeSnapshot(s) ==
    LET copy == seen[s]
    IN /\ s \in queue /\ work[s].pc = "idle"
       /\ To(s, CASE copy = Absent -> Idle
                  [] copy # Absent /\ FirstCheck(s) ->
                        [Idle EXCEPT !.pc = "unprotect", !.snap = copy, !.listed = Listed]
                  [] OTHER -> AfterFirstCheck(s, copy))
       /\ Note("open", Believes(s))
       /\ UNCHANGED <<pvc, pvcSeen, snap, seen, content, left, budget>>

\* removePVCFinalizer: a Get and an Update, again on a conflict: no version is
\* checked.  Its failure stops the removal of finalizers, and nothing else.
Unprotect(s, reply) ==
    LET w == work[s]
        removed == reply # "error"
    IN /\ w.pc = "unprotect"
       /\ Answer(pvc # Absent, reply)
       /\ pvc' = IF removed THEN KeepClaim([pvc EXCEPT !.fin = FALSE]) ELSE pvc
       /\ To(s, CASE ~w.last -> AfterFirstCheck(s, w.snap)
                  [] w.last /\ reply = "ok" -> Call(s, "release")
                  [] OTHER -> Again)
       /\ Note("open", Believes(s) \/ (removed /\ Overlooks(w)))
       /\ UNCHANGED <<pvcSeen, snap, seen, content, left>>

\* addSnapshotFinalizer: an update of the copy.
AddFinalizer(s, reply) ==
    /\ work[s].pc = "addFinalizer"
    /\ Answer(snap[s] = work[s].snap, reply)
    /\ snap' = IF reply = "error" THEN snap ELSE [snap EXCEPT ![s].held = TRUE]
    /\ To(s, IF reply = "ok" THEN AfterFinalizer(s, work[s].snap) ELSE Again)
    /\ Note("open", Believes(s))
    /\ UNCHANGED <<pvc, pvcSeen, seen, content, left>>

\* ensurePVCFinalizer: an update of the cached claim.
Protect(s, reply) ==
    /\ work[s].pc = "protect"
    /\ Answer(pvc = work[s].claim, reply)
    /\ pvc' = IF reply = "error" THEN pvc ELSE [pvc EXCEPT !.fin = TRUE]
    /\ To(s, IF reply = "ok" THEN Call(s, "create") ELSE Again)
    /\ UNCHANGED <<pvcSeen, snap, seen, content, left, lapses>>

\* createSnapshotContent: the driver starts to cut.
CreateContent(s, reply) ==
    /\ work[s].pc = "create"
    /\ Answer(TRUE, reply)
    /\ content' = IF reply = "error" THEN content ELSE [content EXCEPT ![s] = "cutting"]
    /\ To(s, IF reply = "ok" THEN Idle ELSE Again)
    /\ UNCHANGED <<pvc, pvcSeen, snap, seen, left, lapses>>

\* updateSnapshotStatus: a Get by name and an UpdateStatus.
UpdateStatus(s, reply) ==
    /\ work[s].pc = "status"
    /\ Answer(snap[s] # Absent, reply)
    /\ snap' = IF reply = "error" THEN snap
               ELSE [snap EXCEPT ![s].ready = TRUE]
    /\ To(s, IF reply = "ok" THEN Idle ELSE Again)
    /\ UNCHANGED <<pvc, pvcSeen, seen, content, left, lapses>>

\* checkandRemoveSnapshotFinalizersAndCheckandDeleteContent.
DisposeOfContent(s, reply) ==
    /\ work[s].pc = "dispose"
    /\ Answer(TRUE, reply)
    /\ content' = IF reply = "error" THEN content ELSE [content EXCEPT ![s] = "none"]
    /\ To(s, IF reply = "ok" THEN ReleaseStep(s, work[s].snap) ELSE Again)
    /\ UNCHANGED <<pvc, pvcSeen, snap, seen, left, lapses>>

\* removeSnapshotFinalizer: an update of the copy.
ReleaseSnapshot(s, reply) ==
    LET w == work[s]
        to == IF reply = "error" THEN snap[s]
              ELSE KeepSnapshot([w.snap EXCEPT !.held = FALSE])
    IN /\ w.pc = "release"
       /\ Answer(snap[s] = w.snap, reply)
       /\ snap' = [snap EXCEPT ![s] = to]
       /\ To(s, IF reply = "ok" THEN Idle ELSE Again)
       /\ Note("forgotten", to = Absent /\ (w.unseen \/ DefersInVain(w)))
       /\ UNCHANGED <<pvc, pvcSeen, seen, content, left>>

Worker(s) ==
    \/ TakeSnapshot(s)
    \/ \E reply \in Replies :
          \/ Unprotect(s, reply) \/ AddFinalizer(s, reply) \/ Protect(s, reply)
          \/ CreateContent(s, reply) \/ UpdateStatus(s, reply)
          \/ DisposeOfContent(s, reply) \/ ReleaseSnapshot(s, reply)

-----------------------------------------------------------------------------
(* Sidecar, informers, restarts, users *)

\* The sidecar reports a snapshot that is cut; the content's event queues it.
DriverCuts(s) ==
    /\ content[s] = "cutting"
    /\ content' = [content EXCEPT ![s] = "cut"]
    /\ queue' = queue \cup {s}
    /\ UNCHANGED <<pvc, pvcSeen, snap, seen, work, left, budget, lapses>>

DeliverSnapshot(s) ==
    /\ seen[s] # snap[s]
    /\ seen' = [seen EXCEPT ![s] = snap[s]]
    /\ queue' = queue \cup {s}
    /\ UNCHANGED <<pvc, pvcSeen, snap, content, work, left, budget, lapses>>

\* Nothing is queued when a claim changes.
DeliverClaim ==
    /\ pvcSeen # pvc
    /\ pvcSeen' = pvc
    /\ UNCHANGED <<pvc, snap, seen, content, queue, work, left, budget, lapses>>

Quiet == /\ queue = {} /\ pvcSeen = pvc /\ seen = snap
         /\ \A s \in Snapshots : work[s].pc = "idle"

\* The resync period is long against any sync.
Resync ==
    /\ Quiet /\ Listed # {}
    /\ queue' = Listed
    /\ UNCHANGED <<pvc, pvcSeen, snap, seen, content, work, left, budget, lapses>>

\* initializeCaches.
RestartController ==
    /\ Spend
    /\ work' = [s \in Snapshots |-> Idle]
    /\ pvcSeen' = pvc /\ seen' = snap
    /\ queue' = {s \in Snapshots : snap[s] # Absent}
    /\ UNCHANGED <<pvc, snap, content, left, lapses>>

UserTakesSnapshot(s) ==
    /\ s \in left /\ pvc # Absent
    /\ left' = left \ {s}
    /\ snap' = [snap EXCEPT ![s] = [deleting |-> FALSE, held |-> FALSE, ready |-> FALSE]]
    /\ UNCHANGED <<pvc, pvcSeen, seen, content, queue, work, budget, lapses>>

UserDeletesSnapshot(s) ==
    /\ snap[s] # Absent /\ ~snap[s].deleting
    /\ snap' = [snap EXCEPT ![s] = KeepSnapshot([@ EXCEPT !.deleting = TRUE])]
    /\ Note("forgotten", ~snap[s].held /\ pvc # Absent /\ pvc.fin)
    /\ UNCHANGED <<pvc, pvcSeen, seen, content, queue, work, left, budget>>

UserDeletesClaim ==
    /\ pvc # Absent /\ ~pvc.deleting
    /\ pvc' = KeepClaim([pvc EXCEPT !.deleting = TRUE])
    /\ UNCHANGED <<pvcSeen, snap, seen, content, queue, work, left, budget, lapses>>

Next ==
    \/ \E s \in Snapshots :
          \/ Worker(s) \/ DriverCuts(s) \/ DeliverSnapshot(s)
          \/ UserTakesSnapshot(s) \/ UserDeletesSnapshot(s)
    \/ DeliverClaim \/ Resync \/ RestartController \/ UserDeletesClaim

Spec == Init /\ [][Next]_vars

\* Workers, informers and the sidecar go on; users and faults need not come.
Fairness ==
    /\ \A s \in Snapshots : WF_vars(Worker(s))
    /\ WF_vars(\E s \in Snapshots : DriverCuts(s))
    /\ WF_vars(\E s \in Snapshots : DeliverSnapshot(s))
    /\ WF_vars(DeliverClaim) /\ WF_vars(Resync)

FairSpec == Spec /\ Fairness

-----------------------------------------------------------------------------
(***************************************************************************)
(* Safety and liveness.                                                    *)
(***************************************************************************)
\* While the driver cuts a snapshot that nobody has asked to delete, its claim is
\* there and has the finalizer: every other snapshot of the claim may come and go
\* meanwhile (createSnapshotContent, isPVCBeingUsed).  Two races break it.
SourceHeld ==
    \A s \in Snapshots :
        content[s] = "cutting" /\ snap[s] # Absent /\ ~snap[s].deleting
          => \/ pvc # Absent /\ pvc.fin
             \/ "open" \in lapses

\* When the last snapshot is gone, so is the finalizer: nothing is left that could
\* remove it (the note in removeSnapshotFinalizer).  Three races break it.
NotForgotten ==
    (\A s \in Snapshots : snap[s] = Absent) /\ pvc # Absent /\ pvc.fin
      => "forgotten" \in lapses

\* A claim its user deletes goes once no snapshot is being cut from it.
ClaimGoes ==
    (pvc # Absent /\ pvc.deleting)
      ~> (pvc = Absent \/ "forgotten" \in lapses)
=============================================================================
