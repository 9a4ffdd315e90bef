----------------------------- MODULE Provisioning -----------------------------
(***************************************************************************)
(* Where a dynamic VolumeSnapshot, or VolumeGroupSnapshot, gets its class,  *)
(* its driver and its credentials from.  An administrator changes classes   *)
(* and secrets at any time; the common controller reads a class when it     *)
(* chooses a default one and again when it creates the content, and the     *)
(* sidecar reads it once more when the driver cuts, and when it deletes.    *)
(*                                                                         *)
(* SnapshotLifecycle and GroupLifecycle have the calls of a creation and a  *)
(* deletion one by one: here the sidecar does its part in one step, and the *)
(* content has its finalizer from the start.  The policy is Delete.         *)
(***************************************************************************)
EXTENDS Naturals, FiniteSets

CONSTANTS
    Absent,      \* no object
    Unset,       \* no class named
    NoSecret,    \* a class without the secret's parameters
    Malformed,   \* one whose parameters name no secret: half of them, an unknown token
    Classes,     \* names of classes
    Drivers, Secrets,
    Driver,      \* the driver of the volume
    MaxChanges,  \* what administrator and user change in classes, secrets and claim
    MaxFaults    \* failed calls, lost answers and restarts

\* default: the annotation is-default-class; secret: what the parameters name.
Class == [driver : Drivers, default : BOOLEAN, secret : Secrets \cup {NoSecret, Malformed}]

Snapshot == [class : Classes \cup {Unset}, fin : BOOLEAN, deleting : BOOLEAN]

\* secret: the deletion-secret annotations; cut: the status has a handle.
Content == [class : Classes, driver : Drivers, secret : Secrets \cup {NoSecret},
            cut : BOOLEAN, deleting : BOOLEAN]

ASSUME BudgetAssumption == MaxChanges \in Nat /\ MaxFaults \in Nat
ASSUME DriverAssumption == Driver \in Drivers
ASSUME NamesAssumption ==
    /\ Absent \notin Class \cup Snapshot \cup Content \cup Secrets \cup {NoSecret}
    /\ Unset \notin Classes /\ NoSecret \notin Secrets
    /\ Malformed \notin Secrets \cup {NoSecret}

VARIABLES
    kind,     \* "snapshot" or "group"
    classes,  \* the classes, as every cache shows them
    secrets,  \* the secrets that exist
    claim,    \* the source: there, held by PVCFinalizer, or gone
    snap,     \* the snapshot at the server
    seen,     \* and in the informer's cache
    ahead,    \* snapshotStore has a later version than that cache
    work,     \* what the snapshot's worker does
    content,  \* its content
    storage,  \* the credentials the physical snapshot was cut with
    changes, budget,
    lapses    \* history: the races that happened

vars == <<kind, classes, secrets, claim, snap, seen, ahead, work, content, storage,
          changes, budget, lapses>>

\* snap: the copy the sync works on; choice: the default class it found; input: the
\* class as getCreateSnapshotInput read it.
Work == [pc : {"idle", "choose", "addFinalizer", "input", "create", "dispose", "release"},
         snap : Snapshot \cup {Absent}, choice : Classes \cup {Unset},
         input : Class \cup {Absent}]

Idle == [pc |-> "idle", snap |-> Absent, choice |-> Unset, input |-> Absent]
Go(pc, copy) == [Idle EXCEPT !.pc = pc, !.snap = copy]

\* rechosen: a copy without a class made the controller replace the chosen one.
Lapses == {"rechosen"}

TypeOK ==
    /\ kind \in {"snapshot", "group"}
    /\ classes \in [Classes -> Class \cup {Absent}] /\ secrets \subseteq Secrets
    /\ claim \in {"there", "held", "gone"}
    /\ snap \in Snapshot \cup {Absent} /\ seen \in Snapshot \cup {Absent}
    /\ ahead \in BOOLEAN /\ work \in Work
    /\ content \in Content \cup {Absent}
    /\ storage \in Secrets \cup {NoSecret, Absent}
    /\ changes \in 0 .. MaxChanges /\ budget \in 0 .. MaxFaults
    /\ lapses \subseteq Lapses

Named == CHOOSE k \in Classes : TRUE

Init ==
    /\ kind \in {"snapshot", "group"}
    \* At most one class to begin with, and a good one: others come by a change.  Which
    \* name it has does not matter.
    /\ \E first \in {c \in Class : c.secret # Malformed} \cup {Absent} :
         classes = [k \in Classes |-> IF k = Named THEN first ELSE Absent]
    /\ secrets = Secrets /\ claim = "there"
    /\ snap \in [class : Classes \cup {Unset}, fin : {FALSE}, deleting : {FALSE}]
    /\ seen = snap /\ ahead = FALSE
    /\ work = Idle /\ content = Absent /\ storage = Absent
    /\ changes = MaxChanges /\ budget = MaxFaults
    /\ lapses = {}

Replies == {"ok", "lost", "error"}

Spend == budget > 0 /\ budget' = budget - 1

\* A call the server accepts is answered, loses its answer, or fails.
Answer(accepted, reply) ==
    /\ reply # "error" => accepted
    /\ IF reply = "ok" \/ ~accepted THEN UNCHANGED budget ELSE Spend

\* The server removes an object with its last finalizer.
Keep(s) == IF s.deleting /\ ~s.fin THEN Absent ELSE s

\* getSnapshotClass, getGroupSnapshotClass: the lister has the class.
Exists(class) == class # Unset /\ classes[class] # Absent

\* getVolumeFromVolumeSnapshot: the claim and the volume bound to it.  A claim that is
\* deleted while PVCFinalizer holds it still has them.
VolumeOfSnapshot == claim # "gone"

\* getVolumesFromVolumeGroupSnapshot: the claims that the selector finds; none is held.
VolumesOfGroup == claim = "there"

HasVolume == IF kind = "snapshot" THEN VolumeOfSnapshot ELSE VolumesOfGroup

-----------------------------------------------------------------------------
(* The class of a snapshot *)

\* IsVolumeSnapshotClassDefaultAnnotation, for the volume's driver.
Defaults == {k \in Classes : /\ classes[k] # Absent
                             /\ classes[k].default /\ classes[k].driver = Driver}

\* SetDefaultSnapshotClass, SetDefaultGroupSnapshotClass find exactly one class.
HasDefault == HasVolume /\ Cardinality(Defaults) = 1

\* Changed for a check: a snapshot whose class is gone gets a default one.
ClassStepAnew(copy) ==
    CASE Exists(copy.class) -> "sync"
      [] ~Exists(copy.class) /\ HasDefault -> "choose"
      [] OTHER -> "fail"

\* Changed for a check: a snapshot without its class is not deleted either.
ClassStepStrict(copy) ==
    CASE Exists(copy.class) -> "sync"
      [] copy.class = Unset /\ HasDefault -> "choose"
      [] OTHER -> "fail"

\* checkAndUpdateSnapshotClass and its caller: without the class it names only a
\* snapshot that is deleted goes on; without a default class none does.
ClassStep(copy) ==
    CASE Exists(copy.class) \/ (copy.class # Unset /\ copy.deleting) -> "sync"
      [] copy.class = Unset /\ HasDefault -> "choose"
      [] OTHER -> "fail"

\* syncSnapshot, syncGroupSnapshot up to their first call.
Sync(copy) ==
    CASE copy.deleting /\ content # Absent -> Go("dispose", copy)
      [] copy.deleting /\ content = Absent /\ copy.fin -> Go("release", copy)
      [] ~copy.deleting /\ ~copy.fin -> Go("addFinalizer", copy)
      [] ~copy.deleting /\ copy.fin /\ content = Absent -> Go("input", copy)
      [] OTHER -> Idle

\* updateSnapshot drops a copy that is older than the store's.
Update(copy) == IF ahead THEN Idle ELSE Sync(copy)

-----------------------------------------------------------------------------
(* The worker of the snapshot *)

\* syncSnapshotByKey: for an event, a retry or the periodic resync.
TakeSnapshot ==
    /\ work.pc = "idle" /\ seen # Absent
    /\ work' = CASE ClassStep(seen) = "sync" -> Update(seen)
                 [] ClassStep(seen) = "choose" ->
                      [Go("choose", seen) EXCEPT !.choice = CHOOSE k \in Defaults : TRUE]
                 [] ClassStep(seen) = "fail" -> Idle
    /\ UNCHANGED <<kind, classes, secrets, claim, snap, seen, ahead, content, storage,
                   changes, budget, lapses>>

\* SetDefaultSnapshotClass: a patch, which checks no version.  After an error the
\* snapshot goes on with its copy, without a class.
ChooseSnapshotClass(reply) ==
    LET written == [snap EXCEPT !.class = work.choice]
    IN /\ kind = "snapshot" /\ work.pc = "choose"
       /\ Answer(snap # Absent, reply)
       /\ snap' = IF reply = "error" THEN snap ELSE written
       /\ ahead' = (ahead \/ reply = "ok")
       /\ work' = IF reply = "ok" THEN Sync(written) ELSE Update(work.snap)
       /\ lapses' = IF /\ reply # "error" /\ work.snap.class = Unset
                       /\ snap.class \notin {Unset, work.choice}
                    THEN lapses \cup {"rechosen"} ELSE lapses
       /\ UNCHANGED <<kind, classes, secrets, claim, seen, content, storage, changes>>

\* SetDefaultGroupSnapshotClass: an update of the copy.  After an error the client has
\* only an empty object to go on with, which updateGroupSnapshot drops.
ChooseGroupClass(reply) ==
    LET written == [snap EXCEPT !.class = work.choice]
    IN /\ kind = "group" /\ work.pc = "choose"
       /\ Answer(snap = work.snap, reply)
       /\ snap' = IF reply = "error" THEN snap ELSE written
       /\ ahead' = (ahead \/ reply = "ok")
       /\ work' = IF reply = "ok" THEN Sync(written) ELSE Idle
       /\ UNCHANGED <<kind, classes, secrets, claim, seen, content, storage, changes,
                      lapses>>

\* addSnapshotFinalizer, addGroupSnapshotFinalizer: an update of the copy, with which
\* the sync goes on.
AddFinalizer(reply) ==
    /\ work.pc = "addFinalizer"
    /\ Answer(snap = work.snap, reply)
    /\ snap' = IF reply = "error" THEN snap ELSE [snap EXCEPT !.fin = TRUE]
    /\ ahead' = (ahead \/ reply = "ok")
    /\ work' = IF reply = "ok" /\ content = Absent THEN Go("input", work.snap) ELSE Idle
    /\ UNCHANGED <<kind, classes, secrets, claim, seen, content, storage, changes, lapses>>

\* Changed for a check: the volume's driver is compared when a default is chosen only.
FitsAnyDriver(class) == TRUE

\* createGroupSnapshotContent compares the class with every volume, a snapshot does not.
FitsVolume(class) == class.driver = Driver

\* GetSecretReference, GetGroupSnapshotSecretReference fail.
NamesSecret(class) == class.secret # Malformed

WithInput(copy) == [Go("create", copy) EXCEPT !.input = classes[copy.class]]

\* ensurePVCFinalizer, then getCreateSnapshotInput.
GetCreateSnapshotInput ==
    LET class == work.snap.class
    IN /\ kind = "snapshot" /\ work.pc = "input"
       /\ claim' = IF claim = "there" THEN "held" ELSE claim
       /\ work' = IF Exists(class) /\ VolumeOfSnapshot /\ NamesSecret(classes[class])
                  THEN WithInput(work.snap) ELSE Idle
       /\ UNCHANGED <<kind, classes, secrets, snap, seen, ahead, content, storage,
                      changes, budget, lapses>>

\* getCreateGroupSnapshotInput: the claims get no finalizer.
GetCreateGroupSnapshotInput ==
    LET class == work.snap.class
    IN /\ kind = "group" /\ work.pc = "input"
       /\ work' = IF /\ Exists(class) /\ VolumesOfGroup
                     /\ NamesSecret(classes[class]) /\ FitsVolume(classes[class])
                  THEN WithInput(work.snap) ELSE Idle
       /\ UNCHANGED <<kind, classes, secrets, claim, snap, seen, ahead, content, storage,
                      changes, budget, lapses>>

\* createSnapshotContent, createGroupSnapshotContent.
CreateContent(reply) ==
    /\ work.pc = "create"
    /\ Answer(TRUE, reply)
    /\ content' = IF reply = "error" \/ content # Absent THEN content
                  ELSE [class |-> work.snap.class, driver |-> work.input.driver,
                        secret |-> work.input.secret, cut |-> FALSE, deleting |-> FALSE]
    /\ work' = Idle
    /\ UNCHANGED <<kind, classes, secrets, claim, snap, seen, ahead, storage, changes,
                   lapses>>

\* The content is annotated and deleted; its finalizer keeps it for the sidecar.
DisposeOfContent(reply) ==
    /\ work.pc = "dispose"
    /\ Answer(content # Absent, reply)
    /\ content' = IF reply = "error" THEN content ELSE [content EXCEPT !.deleting = TRUE]
    /\ work' = Idle
    /\ UNCHANGED <<kind, classes, secrets, claim, snap, seen, ahead, storage, changes,
                   lapses>>

\* removeSnapshotFinalizer, removeGroupSnapshotFinalizer: an update of the copy.
Release(reply) ==
    /\ work.pc = "release"
    /\ Answer(snap = work.snap, reply)
    /\ snap' = IF reply = "error" THEN snap ELSE Keep([snap EXCEPT !.fin = FALSE])
    /\ ahead' = (ahead \/ reply = "ok")
    /\ work' = Idle
    /\ UNCHANGED <<kind, classes, secrets, claim, seen, content, storage, changes, lapses>>

Worker ==
    \/ TakeSnapshot \/ GetCreateSnapshotInput \/ GetCreateGroupSnapshotInput
    \/ \E reply \in Replies :
           \/ ChooseSnapshotClass(reply) \/ ChooseGroupClass(reply)
           \/ AddFinalizer(reply) \/ CreateContent(reply)
           \/ DisposeOfContent(reply) \/ Release(reply)

-----------------------------------------------------------------------------
(* The sidecar of the content's driver *)

\* isDriverMatch: a class that names another driver hides the content.
DriverMatches(c) == Exists(c.class) => classes[c.class].driver = c.driver

\* Changed for a check: the credentials are those of the class as it is now.
CredentialsOfClass(c) == IF Exists(c.class) THEN classes[c.class].secret ELSE c.secret

\* GetCredentialsFromAnnotation: for the creation and for the deletion.
Credentials(c) == c.secret

\* GetCredentials reads the secret; without one there is nothing to read.
CanRead(secret) == secret \in secrets \cup {NoSecret}

\* getCSISnapshotInput, getCSIGroupSnapshotInput need the class once more.
HasCSIInput(c) == Exists(c.class) /\ CanRead(Credentials(c))

\* createSnapshotWrapper: the input, the driver, the status.  A driver that
\* does not have the volume fails.
SidecarCuts ==
    /\ content # Absent /\ DriverMatches(content)
    /\ ~content.deleting /\ ~content.cut
    /\ HasCSIInput(content) /\ content.driver = Driver
    /\ content' = [content EXCEPT !.cut = TRUE]
    /\ storage' = Credentials(content)
    /\ UNCHANGED <<kind, classes, secrets, claim, snap, seen, ahead, work, changes,
                   budget, lapses>>

\* deleteCSISnapshotOperation, which an unreadable secret stops, and the finalizer.
SidecarDeletes ==
    /\ content # Absent /\ DriverMatches(content)
    /\ content.deleting
    /\ content.cut => CanRead(Credentials(content))
    /\ content' = Absent
    /\ storage' = Absent
    /\ UNCHANGED <<kind, classes, secrets, claim, snap, seen, ahead, work, changes,
                   budget, lapses>>

Sidecar == SidecarCuts \/ SidecarDeletes

-----------------------------------------------------------------------------
(* Informer, restart, administrator and user *)

DeliverSnapshot ==
    /\ seen # snap \/ ahead
    /\ seen' = snap /\ ahead' = FALSE
    /\ UNCHANGED <<kind, classes, secrets, claim, snap, work, content, storage, changes,
                   budget, lapses>>

RestartController ==
    /\ Spend
    /\ work' = Idle /\ seen' = snap /\ ahead' = FALSE
    /\ UNCHANGED <<kind, classes, secrets, claim, snap, content, storage, changes, lapses>>

Change == changes > 0 /\ changes' = changes - 1

\* A class is created, deleted, edited, or created anew under its name.
AdminChangesClass(k) ==
    /\ Change
    /\ \E c \in (Class \cup {Absent}) \ {classes[k]} : classes' = [classes EXCEPT ![k] = c]
    /\ UNCHANGED <<kind, secrets, claim, snap, seen, ahead, work, content, storage,
                   budget, lapses>>

AdminChangesSecret(s) ==
    /\ Change
    /\ secrets' = IF s \in secrets THEN secrets \ {s} ELSE secrets \cup {s}
    /\ UNCHANGED <<kind, classes, claim, snap, seen, ahead, work, content, storage,
                   budget, lapses>>

UserDeletesClaim ==
    /\ Change /\ claim = "there"
    /\ claim' = "gone"
    /\ UNCHANGED <<kind, classes, secrets, snap, seen, ahead, work, content, storage,
                   budget, lapses>>

UserDeletesSnapshot ==
    /\ snap # Absent /\ ~snap.deleting
    /\ snap' = Keep([snap EXCEPT !.deleting = TRUE])
    /\ UNCHANGED <<kind, classes, secrets, claim, seen, ahead, work, content, storage,
                   changes, budget, lapses>>

Next ==
    \/ Worker \/ Sidecar \/ DeliverSnapshot \/ RestartController
    \/ \E k \in Classes : AdminChangesClass(k)
    \/ \E s \in Secrets : AdminChangesSecret(s)
    \/ UserDeletesClaim \/ UserDeletesSnapshot

Spec == Init /\ [][Next]_vars

\* The controllers and the informer go on; nobody else need do anything.
FairSpec == Spec /\ WF_vars(Worker) /\ WF_vars(Sidecar) /\ WF_vars(DeliverSnapshot)

-----------------------------------------------------------------------------
(***************************************************************************)
(* Safety and liveness.                                                    *)
(***************************************************************************)
\* A content is of the class that its snapshot names, whatever became of the class in
\* between: nobody replaces a name that is set (checkAndUpdateSnapshotClass).  The
\* patch of a late copy without a class does.
ContentOfClass ==
    content # Absent /\ snap # Absent
      => content.class = snap.class \/ "rechosen" \in lapses

\* The content of a group is for the driver of its volumes, also when its class was
\* replaced after it had been chosen (createGroupSnapshotContent).
GroupOfOneDriver == content # Absent /\ kind = "group" => content.driver = Driver

\* A physical snapshot is deleted with the credentials it was cut with, whatever the
\* class says by then (the annotations that createSnapshotContent writes).
FreedAsCut ==
    [][storage # Absent /\ storage' = Absent => Credentials(content) = storage]_vars

\* What keeps a snapshot from being deleted, until somebody changes it again: a
\* missing default class, a class of another driver, a missing secret.
Undecided == snap # Absent /\ snap.class = Unset /\ ~HasDefault
Ignored   == content # Absent /\ ~DriverMatches(content)
Withheld  == content # Absent /\ content.cut /\ ~CanRead(Credentials(content))

\* A snapshot that its user deletes goes, without its class too (the note in
\* syncSnapshotByKey), but for these three cases.
DeletionCompletes ==
    (snap # Absent /\ snap.deleting) ~> (snap = Absent \/ Undecided \/ Ignored \/ Withheld)

\* "Continue with deletion, as the secret may have already been deleted", a comment
\* in GetCredentialsFromAnnotation.
DeletionNeedsNoSecret ==
    (snap # Absent /\ snap.deleting) ~> (snap = Absent \/ Undecided \/ Ignored)
=============================================================================
