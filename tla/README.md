# A TLA+ specification of external-snapshotter

This directory specifies how the snapshot controllers of this repository move a
`VolumeSnapshot`, or a `VolumeGroupSnapshot`, from the user's request to a physical
snapshot and back. It checks the specification with TLC on small instances and
proves part of it for every instance with TLAPS. Every definition is translated
from the Go source under `src/`; `PROJECT.json` ("map") says which lines each
definition stands for.

## 1. The system

Two controllers share nothing but the API server; a webhook converts some of the
objects between API versions.

| Component | State it keeps | Operations | Talks to | What makes it correct |
|---|---|---|---|---|
| Common controller, single snapshots (`pkg/common-controller/snapshot_controller*.go`) | informer caches of VolumeSnapshots, contents, PVCs, classes; the private stores `snapshotStore`, `contentStore`; two rate-limited queues | `syncSnapshot`, `syncContent` and what they call: finalizers, creation and deletion of the content, binding, the status of the snapshot, the annotation BeingDeleted | the API server; the two workers call each other through stores and queues | a snapshot is ready only if storage has it; a deletion reaches the content and completes; no content is left behind; a restore in progress is not disturbed |
| Sidecar controller (`pkg/sidecar-controller/snapshot_controller*.go`, `csi_handler.go`, `pkg/snapshotter`) | informer cache of contents, private `contentStore`, a queue | `syncContent`: BeingCreated, CreateSnapshot, the content's status, DeleteSnapshot, clearing, the finalizer | the API server, the CSI driver | no physical snapshot is leaked; none is destroyed unasked; CreateSnapshot is repeated until it has an answer |
| Private stores (`utils.StoreObjectUpdate`) | the newest version seen of each object | replace unless older | both controllers | never go back to an older version |
| Event filter (`utils.ShouldEnqueueContentChange`) | none | drops the sidecar's own changes | informer of the sidecar | no change that needs a sync is dropped |
| Pre-provisioned snapshots (`checkandBindSnapshotContent`, `getPreprovisionedContentFromStore`, sidecar `checkandUpdateContentStatus`) | UID in `content.Spec.VolumeSnapshotRef` | bind, check, report | as above | both sides of a binding agree; the data goes only for the snapshot it is bound to |
| PVC source protection (`ensurePVCFinalizer`, `isPVCBeingUsed`, `removePVCFinalizer`) | finalizer on the PVC | add, check, remove | API server; one worker per snapshot of the claim | no PVC goes while a snapshot is cut from it; none keeps the finalizer for ever |
| Group snapshots (`groupsnapshot_controller_helper.go`, `groupsnapshot_helper.go`, `group_snapshotter`) | two stores and queues more in the common controller, one in the sidecar | the same life one level up, plus five calls to make each member | API server, CSI driver, the single-snapshot workers | a group that is ready is complete; members go after the group; nothing stays |
| Snapshot classes, secrets (`SetDefaultSnapshotClass`, `checkAndUpdateSnapshotClass`, `getCreateSnapshotInput`, `isDriverMatch`, `GetCredentialsFromAnnotation`) | class name in the snapshot, class and secret in the content | choose a default, read, read again | API server | one class, driver and set of credentials per snapshot, whatever the administrator does |
| Names, prefixed parameters (`utils/util.go`, `makeSnapshotName`) | none | templates, filtering, truncation | - | results are valid and distinct |
| Conversion webhook (`pkg/webhook`) | none; an annotation in the converted object | v1beta1 to v1beta2 and back | API server | both versions see the same snapshots; what v1beta1 has no place for survives, but for the rounding of numbers |
| Metrics (`pkg/metrics`) | operations under a mutex | start, drop, record | - | nothing recorded twice |
| Command line, leader election | - | - | - | - |

What is hard here: workers in two processes decide on cached copies; each object is
written by both processes, some of the writes without a version check (JSON patches
of a UID, of a status, of a whole annotation map); the driver's calls may time out
and still take effect; any call may fail or lose its answer between two steps;
stores, retries and requests under way are lost in a restart; what one worker
checked another may undo before the first acts; and progress depends on the
retries that each path remembers to ask for. `PROJECT.json` ("hazards") lists these
places line by line, with the properties aimed at each.

## 2. The modules

| Module | What it is |
|---|---|
| `SnapshotLifecycle` | one dynamically provisioned snapshot, its content, the physical snapshot, the three workers, informers, faults |
| `SnapshotPromise` | the abstract specification: what the user of a snapshot is promised |
| `Binding` | one pre-provisioned content and the snapshots of one name that ask for it, one after the other |
| `SourceProtection` | one PVC and several snapshots cut from it |
| `GroupObjects` | the objects of a group snapshot, the workers' records, calls and store |
| `GroupController`, `GroupSidecar`, `GroupMembers` | the common controller's group workers; the sidecar's; the single-snapshot workers as far as members need them |
| `GroupLifecycle` | composes the three: informers, users, restarts, properties |
| `GroupPromise` | the abstract specification of a group |
| `Provisioning` | classes, drivers, secrets: what is read when |
| `Conversion` | the webhook, stored objects, readers and writers of two versions |
| `MCSnapshotLifecycle`, `MCGroupLifecycle`, `MCBinding`, `MCConversion` | the budgets of faults and the configurations of the runs; a rounding of times |
| `SnapshotLifecycleProofs`, `SnapshotDeletionProofs` | theorems about `SnapshotLifecycle`: its types, what is promised to the user, and the refinement; the order of a deletion and what it leaves behind |
| `GroupLifecycleTypes`, `GroupLifecycleProofs` | theorems about `GroupLifecycle`: its types; what is promised to the user, the refinement, and what a deletion leaves behind |
| `BindingProofs` | theorems about `Binding`: both sides agree; for whom, and in which order, things go |
| `SourceProtectionProofs`, `ProvisioningProofs`, `ConversionProofs` | theorems about these three modules |

### Conventions

A worker is `idle` or about to make the call its `pc` names, with what it still
needs of the copies it read. One step is the code between two calls that leave the
process; what the code reads from a cache is read in the step of the code that
reads it. A call is answered (`ok`), takes effect and loses its answer (`lost`), or
fails (`error`): `Answer`. What the server would refuse fails at no cost; any other
failure uses up a budget. An Update is accepted only of the version the server
holds, a patch of any version. An object that is being deleted goes with its last
finalizer. A Get followed by UpdateStatus within one function is one call that
happens against the present object or fails, which is what the version check of
UpdateStatus makes of it.

`lapses` is a history variable: it records that one of the races listed in section
4 happened. No action reads it. The properties name the races that break them, so
that everything else is still checked behind them.

Some operators are mutated copies of others ("Changed for a check"). Nothing in the
specifications uses them; each is a plausible bug a property has to catch.

### SnapshotLifecycle

- `vs`, `vsc`: the VolumeSnapshot and its content at the API server. `rv` is the
  resourceVersion, counted per object; a content gets its `uid` from the version it
  was created with. `status` of a content folds `SnapshotHandle`, `ReadyToUse` and
  `Error` into the five values the code distinguishes.
- `snapshotLister`, `contentLister`, `sidecarLister`, `pvcLister`: informer caches.
- `snapshotStore`, `contentStore`, `sidecarStore`: the private stores. `shared` says
  that `contentStore` and the informer's cache hold the same Go object, which is so
  after `updateContent`; the annotation written into one is then written into both.
- `sw`, `cw`, `dw`: the snapshot worker, the content worker, the sidecar's worker.
- `storage`: the physical snapshot (`none`, `inflight`: a request whose caller gave
  up, `cut`, `ready`). `restoring`: a PVC with the snapshot as data source is Pending.

Actions carry the names of the functions they model: `SyncSnapshot`,
`SyncDeletedSnapshot` (`processSnapshotWithDeletionTimestamp`),
`AddSnapshotFinalizer`, `CreateSnapshotContent`, `UpdateSnapshotStatus`, `FailBind`
and `MarkMissing` (the error paths that reset ReadyToUse),
`SetAnnVolumeSnapshotBeingDeleted`, `DeleteContent`, `RemoveSnapshotFinalizer`;
`SyncContent`, `AddContentFinalizer`, `AnnotateContent`; `SyncSidecarContent`,
`SetAnnVolumeSnapshotBeingCreated`, `CallCreate`, `UpdateSnapshotContentStatus`,
`RemoveAnnVolumeSnapshotBeingCreated`, `UpdateContentErrorStatus`, `CallDelete`,
`ClearVolumeContentStatus`, `RemoveContentFinalizer`; the paths on which a sync does
nothing (`Forget...`, `IgnoreOld...`); delivery, resync, restart, user,
administrator and driver.

The driver (`CallCreate`, `CallDelete`, `DriverCompletes`) is idempotent by name. An
error that is not final (`isCSIFinalError`) says nothing about the snapshot; a final
one is assumed to be true: there is no snapshot and none is coming.

One VolumeSnapshot and one content are enough: stores, queues and patches are per
object, and the queue never hands one key to two workers, so other snapshots
interact with this one only through the PVC's finalizer (`SourceProtection`), a
shared content (`Binding`) and the group (`GroupLifecycle`).

### Binding

`snap` is the present VolumeSnapshot of the name, `content` the administrator's
content; `uid` tells the snapshots apart that had the name one after the other.
Lister and store are one copy each (`snapKnown`, `contentKnown`), of any age.
`classed` says whether the snapshot has a class: without one `NeedsBinding` stays
true and `checkandBindSnapshotContent` patches in every sync. The sidecar's three
actions are one step each on the current content. A snapshot of another name is
turned away by the name alone and is left out. Two UIDs are enough to have a content
that points to a snapshot that is gone.

### SourceProtection

`work[s]` is the worker of snapshot `s`; what it found in the caches (`listed`,
`users`) is kept until the call that acts on it. `ensurePVCFinalizer` is `Protect`,
the two callers of `checkandRemovePVCFinalizer` are `FirstCheck` (start of
`syncSnapshot`) and `LastCheck` (`removeSnapshotFinalizer`), `removePVCFinalizer` is
`Unprotect`. Versions of the claim are its values. The content is a stage
(`none`, `cutting`, `cut`), as the sidecar has no part in this.

### GroupLifecycle and its parts

`vgs`, `vgsc` are the group and its content, `snap[m]` and `cont[m]` the objects of
member `m`. `GroupController` has the group worker and the group content worker call
by call; the five calls of `createIndividualSnapshotForGroupSnapshot` are
`CreateMemberContent`, `CreateMemberSnapshot`, `BindMemberContent`,
`BindMemberSnapshot`, `UpdateMemberContentStatus`, and a failure starts again at the
first. `contentView` says how store and lister of the content compare (`ahead`,
`behind`, `same`: one Go object), which is all that `StoreObjectUpdate` and the
annotation written in place need of the versions; `versioned` is FALSE of an object
that was built and not read. `GroupSidecar` is the sidecar's worker call by call.
`GroupMembers` has what the single-snapshot workers do with members, one call a step
on the current objects: their caches and faults are `SnapshotLifecycle`'s subject.
`config` chooses a dynamic or a static group and the policy in `Init`.

### Provisioning

`classes` maps names to classes (`driver`, `default`, `secret`), `secrets` are those
that exist. Choosing (`ChooseSnapshotClass`, a patch; `ChooseGroupClass`, an update),
reading at creation (`GetCreateSnapshotInput`, `GetCreateGroupSnapshotInput`),
creating (`CreateContent`) and the sidecar's readings (`DriverMatches`, `HasCSIInput`,
`Credentials`) are apart, so that the administrator comes in between. The sidecar
cuts in one step and deletes in one: its calls are in the other modules.

### Conversion

`stored` is what the server keeps, `base` what a component of each version read; a
write converts it, as the server does. Pairs of handles and details are model
values; a list maps pairs to details. A v1beta1 list has `NoDetails`.

The way to v1beta1 writes the infos into the annotation exactly; the way back reads them
with `encoding/json` into an `any` (`convert.go:75`), where every number becomes a
float64, and encodes that. `Unmarshal` stands for both, `Rounded` for what remains of
the details: the number written for a float64 is the shortest decimal that is read as
it. Up to 2^53 that is the number itself; a creation time is the number of nanoseconds
since 1970 (`utils/conversion.go:28`), above 2^60, and changes by up to 256.
The only assumption is `RoundedAssumption`: rounding twice is rounding once.

### Abstractions common to all

- An informer goes to the server's present version at once; intermediate versions
  are coalesced. In `SnapshotLifecycle` and `GroupLifecycle`, `Lagging` names the
  informers that may be arbitrarily late, the others deliver before anything else
  happens; in the other modules every informer may be late.
- Error messages, events, metrics and logs are left out. A status write that
  changes only the message is no write.
- Work is added to a queue without delay: back-off only orders retries later.
- A resync comes when everything is quiet, unless a budget pays for an early one.
- The API server, the driver and Kubernetes' garbage collector are external: modelled
  from the calls the code makes and marked so in the map.

## 3. What is checked

| Run | Question | Distinct states |
|---|---|---|
| `lagging_informers` | every cache arbitrarily stale, no fault: `NoLeak`, `BoundFinalizerHeld` | 2.7 million |
| `one_fault` | any one call fails, loses its answer; the driver fails and is slow; either process restarts, or a resync comes early, under a restore or not: `FinalizerHeldUntilReclaimed`, `ReadyStable`, `NoOrphan`, `ReadyMeansCut`, `RestoreProtected`, and the refinement `KeepsPromise` | 4.2 million |
| `retain` | policy Retain, a lost answer, a content deleted by hand: `NoReclaimBeforeDelete`, `MarkedBeforeGone`, and the inductive invariant `SafetyInv` | 1.8 million |
| `live` | fair behaviours: `DeletionCompletes` and `StorageFreed` when a restore holds the deletion up; `BecomesReady` through a failed and slow driver, or a failed call and a restart | 0.18 million |
| `group_faults` | groups of one member, both kinds, both policies, one event of one kind beside the deletion, or a failed call: `ReadyMeansComplete`, `NoLeakedGroup`, `RestoreProtected`, `GroupOutlivesContent`, `ContentOutlivesStorage`, refinement `KeepsPromise` | 3.1 million |
| `group_live` | fair behaviours of groups: `BecomesReady`, `DeletionCompletes`, `EverythingGoes` | 0.20 million |
| `binding` | two snapshots of a name, no fault or one (failed call, lost answer, restart, content deleted by hand), both policies: `BoundBothWays`, `NothingLeaks`, `FreedForItsOwner`, `ContentGoesFirst`, `DeletionCompletes`, `BecomesReady` | 0.24 million |
| `source_protection` | two snapshots of a claim, all caches late, one fault: `SourceHeld`, `NotForgotten`, `ClaimGoes` | 0.48 million |
| `provisioning` | two classes, two drivers, a secret; two changes by administrator or user, one fault: `ContentOfClass`, `GroupOfOneDriver`, `FreedAsCut`, `DeletionCompletes` | 0.44 million |
| `conversion` | two contents, two pairs, a component of each version, a time that rounding changes, one replaced annotation: `SameForBoth`, `OnlyRounded` | 94 thousand |
| `secret_gone` | a violation (section 4): `DeletionNeedsNoSecret` | - |
| `group_stale_sidecar` | a violation (section 4): `ContentOutlivesStorage`, when the sidecar's informer is late, CreateGroupSnapshot gets no answer and the report of that fails | - |

Deadlock is checked in the first four, where an idle system can always resync. In
the others it may really stop: with no object left nothing happens.

Why the bounds are enough. Each budget gives a behaviour at most one event of each
kind it names; nothing else is bounded (every version that is written costs progress
or budget). A fault is placed freely, so each single failure is met at each call, in
each state. The group runs have one member, made in several calls that can each be the
last; that several members are as good as one is what the theorems add: all six
properties of `group_faults` are proved for any `Members` (with `Members = {m1, m2}`
and a deletion as the only event TLC agrees too, in 2.2 million states). Two
snapshots of a claim are the smallest number that can disagree about the last one, two UIDs the
smallest reuse of a name, two classes the smallest choice; two changes let a class be
replaced and something else (the other class, the secret, the claim) change as well.
Faults in any number and combination are the subject of the theorems (section 5).

Fairness: weak fairness of each worker (they run in `wait.Until` loops), of each
informer's delivery and of the resync (client-go), of the driver's completion of a
request, of the end of a restore (a Pending PVC is bound or deleted at some time;
the code waits for that without a bound), and of the garbage collector. None is
assumed of users, administrators or faults, nor of any particular outcome of a call:
outcomes that are not successes use up the budget. Within a worker every disjunct
enabled at its `pc` is an outcome of the same call, so fairness of the worker is
enough. In `Provisioning` the worker takes the snapshot whenever it is idle, which
stands for the event, the retry and the periodic resync alike.

The liveness runs of the two lifecycles keep the informers prompt. With a lagging
`contents` informer a creation and a deletion of the content can fall between two
deliveries; the cache then never shows the object, no delete event comes, and the
store keeps it. That is the model's coalescing, and in the program needs a relist
after a lost watch.

`BecomesReady` in `group_live` and `SafetyInv` are worth a remark: the first depends
on the comparison of two addresses in `needsUpdateGroupSnapshotStatus`, which always
differ and so requeue the group until it is ready; the second is the strengthening
behind most theorems about `SnapshotLifecycle`, checked here as an invariant first.

## 4. What the code does otherwise than it says

Two findings are runs of their own. `secret_gone`: the comment "Continue with deletion,
as the secret may have already been deleted" (`sidecar-controller/snapshot_controller.go:585`,
`groupsnapshot_helper.go:331`) is followed by a return with an error, and the deletion
is retried for ever.

`group_stale_sidecar`: `setAnnVolumeGroupSnapshotBeingCreated` puts the annotated
content into the store of the single contents (`groupsnapshot_helper.go:542`;
`snapshot_controller.go:686` has the right one), so the store of the group contents
goes on to take the version without BeingCreated for the present one. A content that
is being deleted is annotated, CreateGroupSnapshot times out, the write of the error
status, which would have put the present version into the right store, fails as well,
and the informer is late: the retry sees no BeingCreated and no handle, and
`shouldDeleteGroupSnapshotContent` lets the content go while the driver makes the group
snapshot. The comment at 402 says that the annotation remains "to avoid potential
leaking of a group snapshot resource", the one at 358 "We need to keep waiting for a
response from the CSI driver." With the store corrected in `AnnotateCreated`
(`sidecarStore'` is the annotated content), TLC finds no violation in the 6.1 million
states of the same instance, nor with a lost reply in place of the failed write.

The other disagreements that showed up are the races recorded in `lapses`, each with
the place in the code (line numbers of `common-controller/snapshot_controller.go` if
no file is given):

**One snapshot** (`SnapshotLifecycle`)

- `unprotected`: the content is created without its finalizer, which the content
  worker adds in a later sync (114). A snapshot deleted in between deletes a content
  that is gone at once, perhaps while the sidecar calls CreateSnapshot, although the
  comment at 329 says it "won't be deleted immediately".
- `dropCreated`, `dropDeleted`: a patch replaces the annotation map by that of an
  older copy (1699; sidecar 656) and removes the annotation the other process set.
  After a CreateSnapshot that timed out, BeingCreated does not remain on the content,
  as `sidecar-controller/snapshot_controller.go:350` says it does.
- `masked`: BeingDeleted is written into the object in memory before it is sent
  (1698). If the patch fails, the retry finds it there and does not send it; the
  sidecar waits for it until the common controller restarts.
- `missed`: a deleted snapshot looks for its content in the private store only (253);
  if the create took effect and its reply was lost, the content is overlooked.
- A retry of that create gets AlreadyExists and goes on with the object it built,
  which has no resourceVersion (799); `StoreObjectUpdate` then takes every later
  version for an old one, and the content is never synced again.
- The content worker marks a content as soon as the snapshot is being deleted (161),
  without looking at the restore as 285 does; if the content was also deleted by hand,
  the physical snapshot goes under the restore. `one_fault` therefore has no deletion
  by hand. And with `"pvcs"` in `Lagging`, `RestoreProtected` fails: the controller
  cannot know of a PVC it has not seen.
- A snapshot that is deleted before it has its bound finalizer goes before its
  content does, although the comment at 159 says it will not.
- Two behaviours of more than one fault break `NoLeak` although none of the races
  above happened; the proof needs hypotheses that exclude them, and TLC found both. A
  content is deleted by hand while CreateSnapshot is under way and the sidecar
  restarts: the request still reaches the driver, for a content made anew under the
  same name, which has no BeingCreated. Or the sidecar's cache is late: after an error
  that is not final and a final one, BeingCreated is removed, the reply to that is
  lost, and a restarted sidecar repeats CreateSnapshot for the old copy, which still
  has it. Both need at least two faults; `lagging_informers` has none.

**A pre-provisioned content** (`Binding`)

- `masked` as above; `exposed`: the content went without ever having its finalizer;
  `unread`: the sidecar let go of a content whose status had no handle yet, so that
  DeleteSnapshot was not called.

**Source protection** (`SourceProtection`)

- `open`: the finalizer is removed on the word of a cache that did not list a
  snapshot created since (1036), or a cached claim still shows it when it is gone.
- `forgotten`: the last snapshot goes and the finalizer stays, because the cache did
  not show it, because two last snapshots each left it to the other, or because a
  snapshot had no finalizer yet. The note at 1626 explains that nothing can remove it
  afterwards.

**Groups** (`GroupLifecycle`; `groupsnapshot_controller_helper.go`)

- `early`: at 1552 the address of a field is compared with nil, which is never true:
  a group deleted before its status names the content does not search it by the
  naming scheme the comment at 1547 promises, and the content stays.
- `unlisted`, `blind`: after a restart the group stores are filled from the listers of
  single snapshots and contents (`snapshot_controller_base.go:658` and 670). Until the
  content worker has put the content in, a ready group is marked not ready, a
  deletion finds no content, and a creation gets AlreadyExists and stores an object
  without a version.
- `unnamed`: a member deleted before its status names the group, or before it has its
  own finalizer, is processed (or skipped) as if it had no group: it loses its
  content and keeps the InGroup finalizer for ever. `bindSnapshotToSnapshotContent`
  (790) replaces the whole status of a member and can take the name away again.
- `partial`: a member, or the content of one, is made after the deletion has looked
  for members, and stays.
- `exposed`, `dropped`, `masked`, `late`, `alone`: as for one snapshot.
- With `"members"` in `Lagging`, `RestoreProtected` fails: the deletion looks for a
  restore only if the index has a member.

**Classes** (`Provisioning`)

- `rechosen`: a late copy without a class makes `SetDefaultSnapshotClass` patch a
  class over the one that was chosen meanwhile.
- A snapshot that never got a class is not deleted while there is no default class
  (`Undecided`), although the code goes on with a deletion when a named class is gone.
- A class replaced by one of another driver hides the content from its sidecar
  (`Ignored`, `isDriverMatch`), although the comment on the field says that the class
  is not used after the creation.
- A group class that could not be recorded on the group leaves an empty object, which
  is dropped without an error: no retry comes before the next event or resync.

**Conversion**

- Nothing is converted to or from v1, the version the controllers use: the webhook
  answers "unexpected conversion version".
- A v1beta1 write of the list has no effect while the annotation is there.
  `OnlyRounded` is the good side of this.
- The annotation is used "to make the conversion reversible" (`convert.go:31`), and is
  not: a write of a v1beta1 component, of a finalizer say, stores the creation times
  of all infos rounded (`OnlyRounded` says that no more happens). `RoundedForGood` proves
  it of every stored content with such a number, and that the number is lost. The tests
  convert small numbers only. From the infos the time goes into the status of the
  members' contents.

## 5. What is proved

| Module | Theorems | Statement |
|---|---|---|
| `SnapshotLifecycleProofs` | `TypeCorrect` | `Spec => []TypeOK` |
| | `SafetyCorrect` | `Spec => []SafetyInv`, the inductive invariant |
| | `ReadyMeansCutCorrect`, `NoReclaimBeforeDeleteCorrect` | `[]ReadyMeansCut`, `NoReclaimBeforeDelete` |
| | `PromiseKept` | `Spec => KeepsPromise` (refinement of `SnapshotPromise`) |
| `SnapshotDeletionProofs` | `OrderedCorrect` | `Spec => []Ordered`, the inductive invariant |
| | `NoOrphanCorrect`, `MarkedBeforeGoneCorrect`, `BoundFinalizerHeldCorrect` | `[]NoOrphan`, `[]MarkedBeforeGone`, `BoundFinalizerHeld` |
| | `SingleCorrect` (H1), `GuardedCorrect` (H1, H2) | `[](Ordered /\ Single)`, `[]Guarded`, the inductive invariants |
| | `NoLeakCorrect`, `FinalizerHeldUntilReclaimedCorrect` (H1, H2) | `[]NoLeak`, `FinalizerHeldUntilReclaimed` |
| | `RestoreProtectedCorrect` (H1, H3) | `[]RestoreProtected` |
| `GroupLifecycleTypes` | `TypeCorrect` | `[]Typed`: `TypeOK`, and what a worker has in hand |
| `GroupLifecycleProofs` | `GroupInvariant` | `[]GroupKnown`, the inductive invariant |
| | `ReadyIsComplete`, `GroupIsLast` | `[]ReadyMeansComplete`, `GroupOutlivesContent` |
| | `PromiseKept` | `Spec => KeepsPromise` (refinement of `GroupPromise`) |
| | `NothingLeaks`, `FinalizerIsLast` (H2) | `[]NoLeakedGroup`, `ContentOutlivesStorage` |
| | `RestoreIsProtected` (H4) | `[]RestoreProtected` |
| `BindingProofs` | `TypeCorrect`, `BoundBothWaysCorrect` | `[]TypeOK`, `[]BoundBothWays` |
| | `FreedForItsOwnerCorrect`, `ContentGoesFirstCorrect`, `NothingLeaksCorrect` | `FreedForItsOwner`, `ContentGoesFirst`, `[]NothingLeaks` |
| `SourceProtectionProofs` | `TypeCorrect`, `SourceHeldCorrect`, `NotForgottenCorrect` | `[]TypeOK`, `[]SourceHeld`, `[]NotForgotten` |
| `ProvisioningProofs` | `TypeCorrect`, `ContentOfClassCorrect`, `GroupOfOneDriverCorrect`, `FreedAsCutCorrect` | `[]TypeOK`, `[]ContentOfClass`, `[]GroupOfOneDriver`, `FreedAsCut` |
| `ConversionProofs` | `TypeCorrect`, `SameForBothCorrect`, `OnlyRoundedCorrect` | `[]TypeOK`, `[]SameForBoth`, `OnlyRounded` |
| | `RoundedForGood` | a stored content with a number that a float64 does not hold comes back from v1beta1 changed |

All hold for every value of the constants that satisfies the named assumptions of the
modules: any number of faults of each kind (`Budgets`), any policies, any set of
lagging informers, any number of snapshots of a name (`Uids`), of a claim
(`Snapshots`) or of a group (`Members`), any classes, drivers, secrets, names, pairs and details, any
rounding. TLC evaluates
the assumptions in the runs. Eight theorems have hypotheses of their own:

- H1, `NobodyDeletesContents`: no budget pays for a content that is deleted by hand;
- H2, `"sidecar" \notin Lagging`; H3, `"pvcs" \notin Lagging`; H4,
  `"members" \notin Lagging`: that one informer delivers before anything else happens,
  the others may be as late as they like.

They are needed: section 4 describes, for each of them, a behaviour without it that breaks
the property; `group_stale_sidecar` is that behaviour for H2 and groups. The runs
`one_fault` and `group_faults` satisfy all of them. With H1 and H2 the faults are still
unbounded in number: failed calls, lost replies, restarts, resyncs, errors and delays of
the driver, in any order.

**SnapshotLifecycle, while the snapshot is wanted.** `TypeOK` is inductive; its four parts
are shown per action. `ReadyMeansCut` and `NoReclaimBeforeDelete` are not inductive: both
depend on what copies of the objects say, in caches, in stores and in the hands of the
workers. `SafetyInv` therefore speaks of all copies at once: none carries BeingDeleted,
none is being deleted, no call under way tears anything down, unless the deletion of the
snapshot has been asked for (`Going`); and while it has not, whoever says "ready" is
right. The proof splits on `Going`, which is stable (`GoingStable`). While it is false
every copy is *calm* (the `Calm...` lemmas), one lemma per action showing that a step
keeps them calm or makes the snapshot `Going`. Then storage is freed by `CallDelete`
only, and no step changes both the VolumeSnapshot and storage (`StorageStep`); from
these `NoReclaimBeforeDelete` and each step of the refinement follow.

**SnapshotLifecycle, the deletion.** What may go when the last finalizer comes off was
decided some calls earlier, on copies. Four invariants, each resting on the one before:

1. `SourceKept`: a content exists, or is about to be made, only of a snapshot that its
   source finalizer holds at the server, and that finalizer goes only after the
   informer's cache tells of the deletion. So no content is made behind the back of a
   worker that is letting the snapshot go.
2. `Ordered` adds what that worker has in hand: if it found no content there is none (or
   `missed` is noted), if it found one the content is being deleted, and it is marked
   with BeingDeleted (or one of `MarkRaces` is noted). With the last finalizer this
   becomes `NoOrphan` and `MarkedBeforeGone`; `BoundFinalizerHeld` is the step itself.
3. `Single`, under H1: a content is deleted, or gone, only when no worker can make
   another (`Condemned`). So there is one content in the life of a snapshot, and a cached
   copy of the version the server has is the server's content.
4. `Guarded`, under H1 and H2, for policy Delete: whatever the driver has, or may still
   get, belongs to a content with its finalizer and with a handle or BeingCreated
   (`StoredHeld`); and what the sidecar concludes from the copy in its hands still holds
   when its call arrives (`AskedKnown`, `HandleKnown`, `NoneLeft`, `FirstTry`). Its loss
   is exactly `unprotected` or `dropCreated`, after which `NoLeak` claims nothing.

`RestoreProtected` has an invariant of its own, `Undisturbed`: while a PVC is being
restored no content is being deleted, in no copy, and neither worker is past the point
where it looks for restores.

**GroupLifecycle.** Five actors with some forty actions touch a group, and seven objects
and copies of them matter. The proof is in two layers. The first says how each of them
can move in a step, whoever takes it: the group (`GroupMoves`), its copy in the store,
the content and its copies, the storage, what either worker has in hand, a member and
the member's content (`MemberMoves`, `MemberContentMoves`). The invariants of the second
layer are shown from these moves and name no action. They are the parts of `GroupKnown`:

1. `Seen`: no copy, and no worker, believes in a deletion before the user asked for it,
   and once a worker is in a deletion the store says so too (`StoreGoing`): nothing is made
   any more (`Retired`).
2. `OneContent`: a content that is gone was never made (`Untouched`: nothing else was
   either) or is never made again (`Doomed`). So a group has one content in its life, and
   the driver deletes only when nobody is making anything.
3. `ReadyKnown`: every copy that says ready, of content, members and their contents, and
   every status in a worker's hands, is right about the storage, or the group is `Doomed`.
4. `MembersKnown`: a member keeps InGroup while the group is there (`HeldInGroup`), nobody
   asks it to go before the group, unless a user does (`AskedToGo`), and a bound member has
   a content that points back (`BoundKept`). `MakingKnown` says what the calls that were
   answered so far have left, for the member in hand and those that are done; that is what
   makes the group complete when its status is written (`ReadyComplete`), however often the
   making was interrupted.

`ReadyMeansComplete` and the refinement follow (`PromiseStep`: storage, members and group
never change in one step, `OneAtATime`, `OneMember`). `GroupOutlivesContent` needs what a
deletion found when it began (`Looked`).

`Guarded` (H2) is for groups what the invariant of the same name is for a snapshot:
whatever the driver has, or may still get, belongs to a content with its finalizer and
with BeingCreated or a handle (`StorageGuarded`), and what the sidecar concluded still
holds when its call arrives (`WorkGuarded`). Without the hypothesis the sync of an old
copy breaks it: TLC, which checked the invariant first, found the behaviour that is now
the run `group_stale_sidecar`. `Undisturbed` (H4) says that while a volume is being restored there
is a complete member that holds the deletion up, and that the group worker is not past the
point where it looks.

**Binding.** `BoundBothWays` is not inductive either: the status of the snapshot is
written by a call decided upon a binding that was read, or made, some steps before,
and by a Get by name, which may by then find another snapshot of that name.
The invariant `Agreement` adds what rules that out. `LatestUid`: no copy, no content and
no call in hand names a snapshot younger than the last one created, and the server's
snapshot is that one. `SourceFirst`: in every copy of a snapshot nobody deletes, the
bound finalizer comes after the source finalizer. `Protected`: a snapshot that the
worker is about to bind is still held at the server by its source finalizer, which
the worker itself takes away and nobody else. `DeletionKnown`: a deletion is never
taken back, and no call that binds is made for a copy that is being deleted.
`StatusOfOwn`: when the status is about to be written, the content points to the
snapshot in hand. The mutant of `BoundBothWays` adds the source finalizer too late
and breaks `Protected`.

The second half of the module goes on from there. The content is marked and deleted upon copies
that may show it as it was before another snapshot of the name got hold of it. `Owned`
says why that does no harm: a copy that names the snapshot in hand is right about it
(`UidKnown`), and a UID is written only where no mark is at the server or on its way
(`MarkedForOwner`); so the sidecar, which needs the mark, frees storage for the snapshot
the content names, whose user asked for it (`AskedFor`). `Ordered` says that a binding
the status shows is in the controller's copy of the content as well (`BoundKnown`): the
worker that lets such a snapshot go cannot have overlooked its content
(`ContentAsked`).

**SourceProtection.** A finalizer is removed, or left to another worker, on the word of
lists that were read some calls before. `HandOf` says what such a list is worth when the
call arrives: each snapshot on it is cut, or gone, or the one the worker itself lets go
(`Passed`), and none of these starts again; a snapshot that is not on it is the race
`open`. That gives `SourceHeld`. `SomeoneLooks` is the other side: while the claim has
the finalizer there is a snapshot whose worker will still look for it, or will leave it
to one it saw (`WillLook`), unless `forgotten` is noted; so it holds for the last one.

**Provisioning.** No step undoes what was decided with a reading that is out of date:
copies name the class of the snapshot or are from before it was chosen (`ClassKept`), the
driver of a group's class is compared with the object that the content is then made from
(`DriverCompared`), and the secret is written into the content when it is created and
never changed (`CutWithSecret`).

**Conversion.** Stored objects are *clean*: of version v1beta2 without the annotation,
or of v1beta1 as they were before the upgrade, without details. Every write keeps
that, and from it both properties follow by calculation with `ToV1beta1` and
`ToV1beta2`. `UnmarshalKeepsPairs` is what they need of the annotation: decoding keeps
the pairs, and decoding twice is decoding once.

Each inductive invariant was checked by TLC before it was proved: `SafetyInv` is a
property of the run `retain`; those of the deletion were checked with the budgets of
`one_fault` (4.2 million states), with one fault and a deletion by hand (4.9 million) and
with three lagging informers (2.7 million); those of groups with one member, a restore, a
lost reply and a lagging group informer (4.0 million), and by simulation with two members,
several faults and any informers lagging; the others on the instances of their runs.

Only model-checked:

- `ReadyStable` of `SnapshotLifecycle`, which holds for single faults only and is no
  theorem for all budgets;
- `NoLeak` with a late sidecar (`lagging_informers`);
- all liveness, since fairness and ENABLED are out of the prover's reach.

No recursion is used in any module.

## 6. Not modelled

- `addVolumeGroupSnapshotOwnership`: a statically provisioned VolumeSnapshot that joins
  a group. Members of a static group are outside `GroupLifecycle`.
- Two steps of the group workers that repeat what is there or comes later: the UID patch
  of a static content whose group has no class, written again in later syncs until the
  group is ready, and the mark BeingDeleted that the content worker may put on a member's
  content (`snapshot_controller.go:161`) before the snapshot worker does.
- Metrics: written by the controllers, read by the scraper; nothing depends on them.
- Command line and leader election (client-go): one active controller of each kind is
  assumed, and a change of leader is a restart.
- The webhook's HTTP handler and certificate watcher.
- Names, secret templates, prefixed parameters, `makeSnapshotName`: string functions.
  Capability checks of the driver and the parsing of its replies.
- Distributed snapshotting (`getManagedByNode`, a label read once) and
  `findPersistentVolumeByCSIDriverHandle`, which only finds names.
- Go's memory model: the annotation map written in place while the other worker reads
  it is one step here.
- The error status written for a missing class: its text is all that it changes.

## 7. What could come next

1. `NoLeak` with a late sidecar but without faults, which `lagging_informers` checks and
   `NoLeakCorrect` does not cover.
2. Statically provisioned members of a group, in `GroupMembers`.
