---------------------------- MODULE GroupObjects ----------------------------
(***************************************************************************)
(* The objects of one VolumeGroupSnapshot, as the API server, the caches    *)
(* and the storage system hold them:                                        *)
(*                                                                         *)
(*   vgs       the VolumeGroupSnapshot a user asked for                     *)
(*   vgsc      its VolumeGroupSnapshotContent                               *)
(*   snap[m]   the VolumeSnapshot the controller makes for member m, and    *)
(*   cont[m]   its VolumeSnapshotContent                                    *)
(*   storage   the physical group snapshot                                  *)
(*                                                                         *)
(* and the records of the three workers that move the group itself.  The    *)
(* modules GroupController, GroupSidecar and GroupMembers hold the steps,   *)
(* GroupLifecycle composes them.                                            *)
(*                                                                         *)
(* Abstracted: two versions of an object that differ in nothing modelled    *)
(* here (an error text, a time) are one version; the class, the secrets and *)
(* the volumes of the group are in the module Provisioning.                 *)
(***************************************************************************)
EXTENDS Naturals, FiniteSets

CONSTANTS
    Absent,   \* the object does not exist
    Members,  \* the volumes of the group
    Configs,  \* the configurations a behaviour may have
    Budgets,  \* the budgets a behaviour may start with
    Lagging   \* the informers that may lag; the others deliver at once

(***************************************************************************)
(* What needs a budget:                                                    *)
(*   api     a call to the API server fails and has no effect              *)
(*   lost    a write takes effect, its reply does not arrive               *)
(*   csi     a call to the driver fails                                    *)
(*   poll    the driver says the group snapshot is not ready yet           *)
(*   crash   a controller process restarts                                 *)
(*   delete  the user deletes the group                                    *)
(*   single  the user deletes one member's VolumeSnapshot                  *)
(*   restore a user restores a volume from a member                        *)
(***************************************************************************)
Faults == {"api", "lost", "csi", "poll", "crash", "delete", "single", "restore"}

\* dynamic: the controller makes the content; static: an administrator did.
Config == [kind : {"dynamic", "static"}, policy : {"Delete", "Retain"}]

ASSUME ConfigsAssumption == Configs \subseteq Config
ASSUME BudgetsAssumption == Budgets \subseteq [Faults -> Nat]
ASSUME LaggingAssumption ==
    Lagging \subseteq {"group", "content", "members", "sidecar"}
ASSUME MembersAssumption == IsFiniteSet(Members)

\* Status: no bound content name (nil, or only an error); bound; bound and
\* ReadyToUse.
GroupSnapshot == [deleting : BOOLEAN, fin : BOOLEAN,
                  status : {"unbound", "bound", "ready"}]

Annotations == {"BeingCreated", "BeingDeleted"}

\* Status: nil; an error and no handle; handle, not ready; handle, ready;
\* reset by clearGroupSnapshotContentStatus.
ContentStatus == {"nil", "error", "cut", "ready", "cleared"}

\* uid: the content names the UID of the group.  versioned: it was read from
\* the server.
GroupContent == [deleting : BOOLEAN, fin : BOOLEAN, anns : SUBSET Annotations,
                 status : ContentStatus, uid : BOOLEAN, versioned : BOOLEAN]

MemberSnapshot == [deleting : BOOLEAN, fins : SUBSET {"AsSource", "InGroup"},
                   bound : BOOLEAN, ready : BOOLEAN, named : BOOLEAN]

\* marked: annotated VolumeSnapshotBeingDeleted.
MemberContent == [deleting : BOOLEAN, fin : BOOLEAN, uid : BOOLEAN,
                  marked : BOOLEAN, status : {"nil", "cut", "ready"}]

ASSUME AbsentAssumption ==
    /\ Absent \notin GroupSnapshot /\ Absent \notin GroupContent
    /\ Absent \notin MemberSnapshot /\ Absent \notin MemberContent

VARIABLES
    config,         \* what kind of group this behaviour is about
    vgs, vgsc,      \* at the API server
    snap, cont,     \* ... and the members
    groupStore,     \* ctrl.groupSnapshotStore, and whether the informer's
    groupListed,    \* cache has the object
    contentStore,   \* ctrl.groupSnapshotContentStore,
    contentLister,  \* its informer's cache,
    contentView,    \* and how the two compare
    indexed,        \* the members in the snapshot informer's index
    groupQueue, contentQueue,
    gw, cw,         \* group worker, group content worker
    sidecarStore, sidecarQueue, dw,   \* the sidecar's copy, queue and worker
    storage,
    restoring,      \* a PVC restores from one of the members
    budget,
    lapses          \* history: the races that happened

api      == <<vgs, vgsc>>
members  == <<snap, cont>>
contents == <<contentStore, contentLister, contentView>>
caches   == <<groupStore, groupListed, contents, indexed>>
queues   == <<groupQueue, contentQueue>>
sidecar  == <<sidecarStore, sidecarQueue, dw>>
world    == <<storage, restoring>>
vars == <<config, api, members, caches, queues, gw, cw, sidecar, world, budget,
          lapses>>

Storage == {"none", "inflight", "cut", "ready"}

\* The store has a version the lister lacks, or an older one, or the very object
\* of the lister.
Views == {"ahead", "behind", "same"}

Stages == {"content", "snapshot", "bindContent", "bindSnapshot", "status"}

\* snap: the copy of the group being synced; status, anns: of the content in
\* hand; found: the content was found in the store; todo: members to work on; stage: of the
\* first of them.
GroupWork ==
    [pc : {"idle", "addFinalizer", "create", "member", "bindContent", "status",
           "missing", "annotate", "delete", "deleteMembers", "removeFinalizer"},
     snap : GroupSnapshot \cup {Absent}, status : ContentStatus,
     anns : SUBSET Annotations, found : BOOLEAN, todo : SUBSET Members, stage : Stages]
ContentWork == {"idle", "addFinalizer"}
SidecarWork ==
    [pc : {"idle", "annotate", "csiCreate", "getStatus", "putStatus",
           "unannotate", "giveUp", "errorStatus", "tidy", "csiDelete", "clear",
           "removeFinalizer"},
     anns : SUBSET Annotations, status : ContentStatus, ready : BOOLEAN]

GroupIdle == [pc |-> "idle", snap |-> Absent, status |-> "nil", anns |-> {},
              found |-> FALSE, todo |-> {}, stage |-> "content"]
SidecarIdle == [pc |-> "idle", anns |-> {}, status |-> "nil", ready |-> FALSE]

(***************************************************************************)
(* History.                                                                *)
(*   early     the group went away while its content was there: no Bound    *)
(*             finalizer had been added, so nothing held the group          *)
(*   masked    BeingDeleted was in the copy in memory and not at the server *)
(*   dropped   a patch built from a stale copy of the annotations dropped   *)
(*             one that was there                                           *)
(*   unnamed   a member was asked to go before its status named the group,  *)
(*             or before it had a finalizer that lets it be processed       *)
(*   alone     a member was deleted by a user                               *)
(*   partial   a member was made after the deletion had looked for members, *)
(*             or the group went while only the content of one was there    *)
(*   exposed   CreateGroupSnapshot was called for a content without the     *)
(*             finalizer                                                    *)
(*   unlisted  the deletion of the group found no content in the store      *)
(*   blind     a content without a resourceVersion entered the store        *)
(*   late      a restore began after the deletion had looked for one        *)
(***************************************************************************)
Lapses == {"early", "masked", "dropped", "unnamed", "alone", "partial",
           "exposed", "unlisted", "blind", "late"}

Note(which) == lapses' = lapses \cup which
When(happened, lapse) == IF happened THEN {lapse} ELSE {}

TypeOK ==
    /\ config \in Config
    /\ vgs \in GroupSnapshot \cup {Absent}
    /\ vgsc \in GroupContent \cup {Absent}
    /\ snap \in [Members -> MemberSnapshot \cup {Absent}]
    /\ cont \in [Members -> MemberContent \cup {Absent}]
    /\ groupStore \in GroupSnapshot \cup {Absent}
    /\ groupListed \in BOOLEAN
    /\ contentStore \in GroupContent \cup {Absent}
    /\ contentLister \in GroupContent \cup {Absent}
    /\ contentView \in Views
    /\ indexed \subseteq Members
    /\ groupQueue \in BOOLEAN /\ contentQueue \in BOOLEAN
    /\ sidecarQueue \in BOOLEAN
    /\ gw \in GroupWork /\ cw \in ContentWork /\ dw \in SidecarWork
    /\ sidecarStore \in GroupContent \cup {Absent}
    /\ storage \in Storage
    /\ restoring \in BOOLEAN
    /\ budget \in [Faults -> Nat]
    /\ lapses \subseteq Lapses

-----------------------------------------------------------------------------
(***************************************************************************)
(* Calls that leave the process.  A call the server would accept takes      *)
(* effect and is answered ("ok"), takes effect and the answer is lost, or   *)
(* fails; one it refuses fails at no cost.                                  *)
(***************************************************************************)
Spend(kind) == /\ budget[kind] > 0
               /\ budget' = [budget EXCEPT ![kind] = @ - 1]

Answer(accepted, reply) ==
    /\ reply # "error" => accepted
    /\ IF reply = "ok" \/ ~accepted THEN UNCHANGED budget
       ELSE Spend(IF reply = "lost" THEN "lost" ELSE "api")

Replies == {"ok", "lost", "error"}

\* An object that is being deleted goes away with its last finalizer.
KeepContent(c) == IF c.deleting /\ ~c.fin THEN Absent ELSE c
KeepMember(s)  == IF s.deleting /\ s.fins = {} THEN Absent ELSE s

HasHandle(status) == status \in {"cut", "ready"}

\* A deletion: the object stays for as long as a finalizer holds it.
Delete(c) == KeepContent([c EXCEPT !.deleting = TRUE])

\* StoreObjectUpdate with the result of a call: an object that has no
\* resourceVersion can not be compared, and the caller takes the error for an
\* old version.
Comparable(obj) == contentStore # Absent => contentStore.versioned /\ obj.versioned
StoreContent(obj) ==
    IF Comparable(obj) THEN contentStore' = obj /\ contentView' = "ahead"
    ELSE UNCHANGED <<contentStore, contentView>>
=============================================================================
