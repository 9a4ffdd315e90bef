-------------------------- MODULE ProvisioningProofs --------------------------
(***************************************************************************)
(* Proofs about the module Provisioning, for any classes, drivers, secrets  *)
(* and volume, and any number of changes and faults: whatever the           *)
(* administrator does between the readings of a class, a content is of the  *)
(* class its snapshot names, a group's content is for the driver of its     *)
(* volumes, and a physical snapshot is freed with the credentials it was    *)
(* cut with.                                                                *)
(***************************************************************************)
EXTENDS Provisioning, FiniteSetTheorems, TLAPS

-----------------------------------------------------------------------------
(* The inductive invariant *)

\* What a worker has in hand for its next call: a default class is chosen for a copy
\* that names none, and a content is created with a class that was read.
InHand ==
    /\ work.pc # "idle" => work.snap \in Snapshot
    /\ work.pc = "choose" => work.choice \in Classes /\ work.snap.class = Unset
    /\ work.pc = "create" => /\ work.snap.class \in Classes
                             /\ work.input \in Class /\ work.input.secret # Malformed

Typed == TypeOK /\ InHand

\* A copy names the class of its snapshot, or is from before it was chosen.
Agrees(c) == c # Absent /\ snap # Absent => c.class \in {Unset, snap.class}

ClassKept ==
    "rechosen" \notin lapses
      => /\ Agrees(seen) /\ Agrees(work.snap)
         /\ content # Absent /\ snap # Absent => content.class = snap.class

\* createGroupSnapshotContent has compared the drivers.
DriverCompared ==
    kind = "group" => /\ work.pc = "create" => work.input.driver = Driver
                      /\ content # Absent => content.driver = Driver

\* The physical snapshot does not outlive its content, whose annotations stay.
CutWithSecret == storage # Absent => content # Absent /\ content.secret = storage

Provided == ClassKept /\ DriverCompared /\ CutWithSecret

-----------------------------------------------------------------------------
(* Records *)

LEMMA SnapshotFields ==
    ASSUME NEW STATE s, s \in Snapshot
    PROVE  /\ s.class \in Classes \cup {Unset} /\ s.fin \in BOOLEAN /\ s.deleting \in BOOLEAN
           /\ s # Absent
  BY NamesAssumption DEF Snapshot

LEMMA ClassFields ==
    ASSUME NEW STATE c, c \in Class
    PROVE  /\ c.driver \in Drivers /\ c.secret \in Secrets \cup {NoSecret, Malformed}
           /\ c.default \in BOOLEAN /\ c # Absent
  BY NamesAssumption DEF Class

LEMMA ContentFields ==
    ASSUME NEW STATE c, c \in Content
    PROVE  /\ c.class \in Classes /\ c.driver \in Drivers /\ c.secret \in Secrets \cup {NoSecret}
           /\ c.cut \in BOOLEAN /\ c.deleting \in BOOLEAN /\ c # Absent
  BY NamesAssumption DEF Content

LEMMA SnapshotUpdates ==
    ASSUME NEW STATE s, s \in Snapshot
    PROVE  /\ \A k \in Classes : LET t == [s EXCEPT !.class = k]
                                 IN t \in Snapshot /\ t.class = k
           /\ \A b \in BOOLEAN : LET t == [s EXCEPT !.fin = b]
                                 IN t \in Snapshot /\ t.class = s.class
           /\ LET t == [s EXCEPT !.deleting = TRUE]
              IN t \in Snapshot /\ t.class = s.class
  BY DEF Snapshot

LEMMA ContentUpdates ==
    ASSUME NEW STATE c, c \in Content
    PROVE  /\ LET d == [c EXCEPT !.cut = TRUE]
              IN /\ d \in Content
                 /\ d.class = c.class /\ d.driver = c.driver /\ d.secret = c.secret
           /\ LET d == [c EXCEPT !.deleting = TRUE]
              IN /\ d \in Content
                 /\ d.class = c.class /\ d.driver = c.driver /\ d.secret = c.secret
  BY DEF Content

\* The server's copy, after the last finalizer is gone.
LEMMA KeptSnapshot ==
    ASSUME NEW STATE s, s \in Snapshot PROVE Keep(s) \in {s, Absent}
  BY DEF Keep

-----------------------------------------------------------------------------
(* What the worker goes on with *)

LEMMA IdleWork == Idle \in Work /\ Idle.pc = "idle" /\ Idle.snap = Absent
  BY DEF Idle, Work

LEMMA WorkFields ==
    ASSUME NEW STATE w, w \in Work
    PROVE  /\ w.snap \in Snapshot \cup {Absent} /\ w.choice \in Classes \cup {Unset}
           /\ w.input \in Class \cup {Absent}
  BY DEF Work

Calls == {"choose", "addFinalizer", "input", "create", "dispose", "release"}

LEMMA GoWork ==
    ASSUME NEW STATE s, s \in Snapshot, NEW pc \in Calls
    PROVE  Go(pc, s) \in Work /\ Go(pc, s).pc = pc /\ Go(pc, s).snap = s
  BY DEF Go, Idle, Work, Calls

\* syncSnapshot makes no call about a class.
LEMMA SyncWork ==
    ASSUME NEW STATE s, s \in Snapshot
    PROVE  /\ Sync(s) \in Work
           /\ Sync(s).pc \in {"idle", "dispose", "release", "addFinalizer", "input"}
           /\ Sync(s).snap \in {Absent, s} /\ (Sync(s).pc # "idle" => Sync(s).snap = s)
<1>1. \A pc \in Calls : Go(pc, s) \in Work /\ Go(pc, s).pc = pc /\ Go(pc, s).snap = s
  BY GoWork
<1>2. Sync(s) \in {Go("dispose", s), Go("release", s), Go("addFinalizer", s), Go("input", s), Idle}
  BY SnapshotFields DEF Sync
<1> QED BY <1>1, <1>2, IdleWork DEF Calls

LEMMA UpdateWork ==
    ASSUME NEW STATE s, s \in Snapshot
    PROVE  /\ Update(s) \in Work
           /\ Update(s).pc \in {"idle", "dispose", "release", "addFinalizer", "input"}
           /\ Update(s).snap \in {Absent, s} /\ (Update(s).pc # "idle" => Update(s).snap = s)
  BY SyncWork, IdleWork DEF Update

\* The default class is a class that exists.
LEMMA DefaultExists ==
    ASSUME HasDefault PROVE (CHOOSE k \in Defaults : TRUE) \in Defaults
<1>1. Defaults # {}
  BY FS_EmptySet DEF HasDefault
<1>2. PICK k : k \in Defaults
  BY <1>1
<1> QED BY <1>2, Zenon

LEMMA InputWork ==
    ASSUME TypeOK, NEW STATE s, s \in Snapshot, Exists(s.class)
    PROVE  LET w == WithInput(s)
           IN /\ w \in Work /\ w.pc = "create" /\ w.snap = s
              /\ w.input = classes[s.class] /\ w.input \in Class /\ s.class \in Classes
<1>1. s.class \in Classes /\ classes[s.class] \in Class
  BY SnapshotFields DEF Exists, TypeOK
<1> QED BY <1>1 DEF WithInput, Go, Idle, Work

-----------------------------------------------------------------------------
(* Type correctness *)

LEMMA Answered ==
    ASSUME TypeOK, NEW STATE accepted, NEW reply \in Replies, Answer(accepted, reply)
    PROVE  budget' \in 0 .. MaxFaults /\ (reply # "error" => accepted)
  BY BudgetAssumption DEF TypeOK, Answer, Spend

LEMMA TypedInit == Init => Typed
<1> SUFFICES ASSUME Init PROVE Typed
  OBVIOUS
<1>1. snap \in Snapshot
  BY DEF Init, Snapshot
<1>2. classes \in [Classes -> Class \cup {Absent}]
  BY DEF Init
<1>3. changes \in 0 .. MaxChanges /\ budget \in 0 .. MaxFaults
  BY BudgetAssumption DEF Init
<1>4. /\ kind \in {"snapshot", "group"} /\ secrets \subseteq Secrets /\ claim = "there"
      /\ seen = snap /\ ahead = FALSE /\ work = Idle /\ content = Absent /\ storage = Absent
      /\ lapses = {}
  BY DEF Init
<1>5. TypeOK
  BY <1>1, <1>2, <1>3, <1>4, IdleWork DEF TypeOK
<1>6. InHand
  BY <1>4, IdleWork DEF InHand
<1> QED BY <1>5, <1>6 DEF Typed

\* Whatever changes but the snapshot, the work and the content stays as it is, for most
\* of the worker's steps.
LEMMA TypedWorker ==
    ASSUME Typed, UNCHANGED <<kind, classes, secrets, storage, changes>>,
           claim' \in {"there", "held", "gone"}, snap' \in Snapshot \cup {Absent},
           UNCHANGED seen, ahead' \in BOOLEAN, content' \in Content \cup {Absent},
           work' \in Work, InHand', budget' \in 0 .. MaxFaults, lapses' \subseteq Lapses
    PROVE  Typed'
  BY DEF Typed, TypeOK

\* A sync that is done, or goes on to a call that needs only its copy.
LEMMA SyncInHand ==
    ASSUME NEW STATE s, s \in Snapshot, work' \in {Idle, Sync(s), Update(s)}
    PROVE  work' \in Work /\ InHand'
<1>1. work' \in Work /\ work'.pc \notin {"choose", "create"} /\ (work'.pc # "idle" => work'.snap = s)
  BY IdleWork, SyncWork, UpdateWork
<1> QED BY <1>1 DEF InHand

LEMMA TypedTakeSnapshot == ASSUME Typed, TakeSnapshot PROVE Typed'
<1> DEFINE w == [Go("choose", seen) EXCEPT !.choice = CHOOSE k \in Defaults : TRUE]
<1>1. seen \in Snapshot /\ UNCHANGED <<kind, classes, secrets, claim, snap, seen, ahead,
                                      content, storage, changes, budget, lapses>>
  BY DEF TakeSnapshot, Typed, TypeOK
<1>2. work' \in Work /\ InHand'
  <2>1. CASE ClassStep(seen) = "choose"
    <3>1. HasDefault /\ seen.class = Unset
      BY <2>1 DEF ClassStep
    <3>2. (CHOOSE k \in Defaults : TRUE) \in Classes
      BY <3>1, DefaultExists DEF Defaults
    <3>3. w \in Work /\ w.pc = "choose" /\ w.snap = seen
          /\ w.choice = (CHOOSE k \in Defaults : TRUE)
      BY <1>1, <3>2 DEF Go, Idle, Work
    <3>4. work' = w
      BY <2>1 DEF TakeSnapshot
    <3> HIDE DEF w
    <3> QED BY <1>1, <3>1, <3>2, <3>3, <3>4 DEF InHand
  <2>2. CASE ClassStep(seen) # "choose"
    <3>1. work' \in {Idle, Update(seen)}
      BY <2>2 DEF TakeSnapshot, ClassStep
    <3> QED BY <1>1, <3>1, SyncInHand
  <2> QED BY <2>1, <2>2
<1> QED BY <1>1, <1>2, TypedWorker DEF Typed, TypeOK

LEMMA TypedChooseSnapshotClass ==
    ASSUME Typed, NEW reply \in Replies, ChooseSnapshotClass(reply) PROVE Typed'
<1> DEFINE written == [snap EXCEPT !.class = work.choice]
<1>1. /\ work.snap \in Snapshot /\ work.choice \in Classes
      /\ UNCHANGED <<kind, classes, secrets, claim, seen, content, storage, changes>>
      /\ snap' = IF reply = "error" THEN snap ELSE written
      /\ work' = IF reply = "ok" THEN Sync(written) ELSE Update(work.snap)
      /\ ahead' \in BOOLEAN /\ lapses' \subseteq Lapses
  BY DEF ChooseSnapshotClass, Typed, TypeOK, InHand, Lapses
<1>2. budget' \in 0 .. MaxFaults /\ (reply # "error" => snap \in Snapshot)
  BY Answered DEF ChooseSnapshotClass, Typed, TypeOK
<1>3. reply # "error" => written \in Snapshot
  BY <1>1, <1>2, SnapshotUpdates
<1> HIDE DEF written
<1>4. work' \in Work /\ InHand'
  BY <1>1, <1>3, SyncInHand
<1> QED BY <1>1, <1>2, <1>3, <1>4, TypedWorker DEF Typed, TypeOK

LEMMA TypedChooseGroupClass ==
    ASSUME Typed, NEW reply \in Replies, ChooseGroupClass(reply) PROVE Typed'
<1> DEFINE written == [snap EXCEPT !.class = work.choice]
<1>1. /\ work.snap \in Snapshot /\ work.choice \in Classes
      /\ UNCHANGED <<kind, classes, secrets, claim, seen, content, storage, changes, lapses>>
      /\ snap' = IF reply = "error" THEN snap ELSE written
      /\ work' = IF reply = "ok" THEN Sync(written) ELSE Idle
      /\ ahead' \in BOOLEAN
  BY DEF ChooseGroupClass, Typed, TypeOK, InHand
<1>2. budget' \in 0 .. MaxFaults /\ (reply # "error" => snap \in Snapshot)
  BY <1>1, Answered DEF ChooseGroupClass, Typed
<1>3. reply # "error" => written \in Snapshot
  BY <1>1, <1>2, SnapshotUpdates
<1> HIDE DEF written
<1>4. work' \in Work /\ InHand'
  BY <1>1, <1>3, SyncInHand
<1> QED BY <1>1, <1>2, <1>3, <1>4, TypedWorker DEF Typed, TypeOK

LEMMA TypedAddFinalizer ==
    ASSUME Typed, NEW reply \in Replies, AddFinalizer(reply) PROVE Typed'
<1>1. /\ work.snap \in Snapshot
      /\ UNCHANGED <<kind, classes, secrets, claim, seen, content, storage, changes, lapses>>
      /\ snap' = IF reply = "error" THEN snap ELSE [snap EXCEPT !.fin = TRUE]
      /\ work' \in {Idle, Go("input", work.snap)} /\ ahead' \in BOOLEAN
  BY DEF AddFinalizer, Typed, TypeOK, InHand
<1>2. budget' \in 0 .. MaxFaults /\ (reply # "error" => snap \in Snapshot)
  BY <1>1, Answered DEF AddFinalizer, Typed
<1>3. snap' \in Snapshot \cup {Absent}
  BY <1>1, <1>2, SnapshotUpdates DEF Typed, TypeOK
<1>4. work' \in Work /\ InHand'
  <2>1. /\ Go("input", work.snap) \in Work /\ Go("input", work.snap).pc = "input"
        /\ Go("input", work.snap).snap = work.snap
    BY <1>1, GoWork DEF Calls
  <2> QED BY <1>1, <2>1, IdleWork DEF InHand
<1> QED BY <1>1, <1>2, <1>3, <1>4, TypedWorker DEF Typed, TypeOK

LEMMA TypedGetInput ==
    ASSUME Typed, GetCreateSnapshotInput \/ GetCreateGroupSnapshotInput PROVE Typed'
<1>1. /\ work.snap \in Snapshot
      /\ UNCHANGED <<kind, classes, secrets, snap, seen, ahead, content, storage, changes,
                     budget, lapses>>
      /\ claim' \in {"there", "held", "gone"}
      /\ \/ work' = Idle
         \/ /\ Exists(work.snap.class) /\ NamesSecret(classes[work.snap.class])
            /\ work' = WithInput(work.snap)
  BY DEF GetCreateSnapshotInput, GetCreateGroupSnapshotInput, Typed, TypeOK, InHand
<1>2. work' \in Work /\ InHand'
  <2>1. CASE work' = Idle
    BY <2>1, IdleWork DEF InHand
  <2>2. CASE /\ Exists(work.snap.class) /\ NamesSecret(classes[work.snap.class])
             /\ work' = WithInput(work.snap)
    <3>1. /\ work' \in Work /\ work'.pc = "create" /\ work'.snap = work.snap
          /\ work'.input = classes[work.snap.class] /\ work'.input \in Class
          /\ work.snap.class \in Classes
      BY <1>1, <2>2, InputWork DEF Typed
    <3> QED BY <1>1, <2>2, <3>1 DEF InHand, NamesSecret
  <2> QED BY <1>1, <2>1, <2>2
<1> QED BY <1>1, <1>2, TypedWorker DEF Typed, TypeOK

LEMMA TypedCreateContent ==
    ASSUME Typed, NEW reply \in Replies, CreateContent(reply) PROVE Typed'
<1> DEFINE c == [class |-> work.snap.class, driver |-> work.input.driver,
                 secret |-> work.input.secret, cut |-> FALSE, deleting |-> FALSE]
<1>1. /\ UNCHANGED <<kind, classes, secrets, claim, snap, seen, ahead, storage, changes, lapses>>
      /\ work' = Idle /\ content' \in {content, c}
      /\ work.snap.class \in Classes /\ work.input \in Class /\ work.input.secret # Malformed
  BY DEF CreateContent, Typed, InHand
<1>2. budget' \in 0 .. MaxFaults
  BY Answered DEF CreateContent, Typed
<1>3. c \in Content
  BY <1>1, ClassFields DEF Content
<1> HIDE DEF c
<1> QED BY <1>1, <1>2, <1>3, IdleWork, TypedWorker DEF Typed, TypeOK, InHand

LEMMA TypedDisposeOfContent ==
    ASSUME Typed, NEW reply \in Replies, DisposeOfContent(reply) PROVE Typed'
<1>1. /\ UNCHANGED <<kind, classes, secrets, claim, snap, seen, ahead, storage, changes, lapses>>
      /\ work' = Idle
      /\ content' = IF reply = "error" THEN content ELSE [content EXCEPT !.deleting = TRUE]
  BY DEF DisposeOfContent
<1>2. budget' \in 0 .. MaxFaults /\ (reply # "error" => content \in Content)
  BY Answered DEF DisposeOfContent, Typed, TypeOK
<1>3. content' \in Content \cup {Absent}
  BY <1>1, <1>2, ContentUpdates DEF Typed, TypeOK
<1> QED BY <1>1, <1>2, <1>3, IdleWork, TypedWorker DEF Typed, TypeOK, InHand

LEMMA TypedRelease ==
    ASSUME Typed, NEW reply \in Replies, Release(reply) PROVE Typed'
<1> DEFINE s == [snap EXCEPT !.fin = FALSE]
<1>1. /\ UNCHANGED <<kind, classes, secrets, claim, seen, content, storage, changes, lapses>>
      /\ work' = Idle /\ snap' = (IF reply = "error" THEN snap ELSE Keep(s))
      /\ ahead' \in BOOLEAN /\ work.snap \in Snapshot
  BY DEF Release, Typed, TypeOK, InHand
<1>2. budget' \in 0 .. MaxFaults /\ (reply # "error" => snap \in Snapshot)
  BY <1>1, Answered DEF Release, Typed
<1>3. reply # "error" => s \in Snapshot
  BY <1>2, SnapshotUpdates
<1> HIDE DEF s
<1>4. snap' \in Snapshot \cup {Absent}
  BY <1>1, <1>3, KeptSnapshot DEF Typed, TypeOK
<1> QED BY <1>1, <1>2, <1>4, IdleWork, TypedWorker DEF Typed, TypeOK, InHand

LEMMA TypedSidecar == ASSUME Typed, Sidecar PROVE Typed'
<1>1. content \in Content
  BY DEF Sidecar, SidecarCuts, SidecarDeletes, Typed, TypeOK
<1>2. CASE SidecarCuts
  <2>1. content' \in Content
    BY <1>1, <1>2, ContentUpdates DEF SidecarCuts
  <2>2. storage' \in Secrets \cup {NoSecret}
    BY <1>1, <1>2, ContentFields DEF SidecarCuts, Credentials
  <2> QED BY <1>2, <2>1, <2>2 DEF SidecarCuts, Typed, TypeOK, InHand
<1>3. CASE SidecarDeletes
  BY <1>3 DEF SidecarDeletes, Typed, TypeOK, InHand
<1> QED BY <1>2, <1>3 DEF Sidecar

LEMMA TypedUserDeletesSnapshot == ASSUME Typed, UserDeletesSnapshot PROVE Typed'
<1> DEFINE s == [snap EXCEPT !.deleting = TRUE]
<1>1. snap \in Snapshot
  BY DEF UserDeletesSnapshot, Typed, TypeOK
<1>2. s \in Snapshot /\ snap' = Keep(s)
  BY <1>1, SnapshotUpdates DEF UserDeletesSnapshot
<1> HIDE DEF s
<1>3. snap' \in Snapshot \cup {Absent}
  BY <1>2, KeptSnapshot
<1> QED BY <1>3 DEF UserDeletesSnapshot, Typed, TypeOK, InHand

LEMMA TypedNext == Typed /\ [Next]_vars => Typed'
<1> SUFFICES ASSUME Typed, [Next]_vars PROVE Typed'
  OBVIOUS
<1>1. CASE Worker
  BY <1>1, TypedTakeSnapshot, TypedChooseSnapshotClass, TypedChooseGroupClass,
     TypedAddFinalizer, TypedGetInput, TypedCreateContent, TypedDisposeOfContent,
     TypedRelease DEF Worker
<1>2. CASE DeliverSnapshot
  BY <1>2 DEF DeliverSnapshot, Typed, TypeOK, InHand
<1>3. CASE RestartController
  <2>1. /\ UNCHANGED <<kind, classes, secrets, claim, snap, content, storage, changes, lapses>>
        /\ work' = Idle /\ seen' = snap /\ ahead' = FALSE
    BY <1>3 DEF RestartController
  <2>2. budget' \in 0 .. MaxFaults
    BY <1>3, BudgetAssumption DEF RestartController, Spend, Typed, TypeOK
  <2> QED BY <2>1, <2>2, IdleWork DEF Typed, TypeOK, InHand
<1>4. ASSUME NEW k \in Classes, AdminChangesClass(k) PROVE Typed'
  BY <1>4, BudgetAssumption DEF AdminChangesClass, Change, Typed, TypeOK, InHand
<1>5. ASSUME NEW s \in Secrets, AdminChangesSecret(s) PROVE Typed'
  BY <1>5, BudgetAssumption DEF AdminChangesSecret, Change, Typed, TypeOK, InHand
<1>6. CASE UserDeletesClaim
  BY <1>6, BudgetAssumption DEF UserDeletesClaim, Change, Typed, TypeOK, InHand
<1>7. CASE UNCHANGED vars
  BY <1>7 DEF vars, Typed, TypeOK, InHand
<1> QED BY <1>1, <1>2, <1>3, <1>4, <1>5, <1>6, <1>7, TypedSidecar,
           TypedUserDeletesSnapshot DEF Next

\* The types of all variables, whatever changes.
THEOREM TypeCorrect == Spec => []TypeOK
<1>1. Typed => TypeOK
  BY DEF Typed
<1> QED BY <1>1, TypedInit, TypedNext, PTL DEF Spec

-----------------------------------------------------------------------------
(* A content is of its snapshot's class *)

\* The server's class stays, the copies are of it or from before, and so is the class of
\* a content that appears.
LEMMA SameClass ==
    ASSUME ClassKept, lapses' = lapses,
           snap' # Absent => snap # Absent /\ snap'.class = snap.class,
           seen' \in {seen, snap}, work'.snap \in {Absent, work.snap, seen},
           content' # Absent => \/ content # Absent /\ content'.class = content.class
                                \/ content'.class = work.snap.class /\ work.snap # Absent
                                   /\ work.snap.class # Unset
    PROVE  ClassKept'
  BY DEF ClassKept, Agrees

LEMMA TakenCopy == ASSUME Typed, TakeSnapshot PROVE work'.snap \in {Absent, seen}
<1>1. seen \in Snapshot
  BY DEF TakeSnapshot, Typed, TypeOK
<1>2. CASE ClassStep(seen) = "choose"
  BY <1>2 DEF TakeSnapshot, Go, Idle
<1>3. CASE ClassStep(seen) # "choose"
  <2>1. work' \in {Idle, Update(seen)}
    BY <1>3 DEF TakeSnapshot, ClassStep
  <2> QED BY <1>1, <2>1, UpdateWork, IdleWork
<1> QED BY <1>2, <1>3

LEMMA ClassKeptChooseSnapshotClass ==
    ASSUME Typed, ClassKept, NEW reply \in Replies, ChooseSnapshotClass(reply)
    PROVE  ClassKept'
<1> DEFINE written == [snap EXCEPT !.class = work.choice]
<1>1. /\ work.snap \in Snapshot /\ work.choice \in Classes /\ work.snap.class = Unset
      /\ UNCHANGED <<seen, content>> /\ lapses \subseteq lapses'
      /\ snap' = IF reply = "error" THEN snap ELSE written
      /\ work' = IF reply = "ok" THEN Sync(written) ELSE Update(work.snap)
      /\ "rechosen" \notin lapses' /\ reply # "error" => snap.class \in {Unset, work.choice}
  BY DEF ChooseSnapshotClass, Typed, InHand
<1>2. reply # "error" => snap \in Snapshot
  BY DEF ChooseSnapshotClass, Answer, Typed, TypeOK
<1>3. reply # "error" => written \in Snapshot /\ written.class = work.choice
  BY <1>1, <1>2, SnapshotUpdates
<1> HIDE DEF written
<1>4. work'.snap \in IF reply = "ok" THEN {Absent, written} ELSE {Absent, work.snap}
  BY <1>1, <1>3, SyncWork, UpdateWork
<1>5. content # Absent => content.class \in Classes /\ content.class # Unset
  BY ContentFields, NamesAssumption DEF Typed, TypeOK
<1>6. snap # Absent => snap' # Absent
  BY <1>1, <1>3, SnapshotFields
<1>7. CASE reply = "error"
  BY <1>1, <1>4, <1>7 DEF ClassKept, Agrees
<1>8. CASE reply # "error"
  <2>1. /\ snap # Absent /\ snap' = written /\ written.class = work.choice
        /\ snap' # Absent
    BY <1>1, <1>2, <1>3, <1>8, SnapshotFields
  <2>2. "rechosen" \notin lapses' => Agrees(seen)' /\ Agrees(work.snap)'
    BY <1>1, <1>4, <2>1, <1>8 DEF ClassKept, Agrees
  <2>3. "rechosen" \notin lapses' /\ content' # Absent => content'.class = snap'.class
    BY <1>1, <1>5, <2>1, <1>8 DEF ClassKept
  <2> QED BY <2>2, <2>3 DEF ClassKept
<1> QED BY <1>7, <1>8

LEMMA ClassKeptChooseGroupClass ==
    ASSUME Typed, ClassKept, NEW reply \in Replies, ChooseGroupClass(reply)
    PROVE  ClassKept'
<1> DEFINE written == [snap EXCEPT !.class = work.choice]
<1>1. /\ work.snap \in Snapshot /\ work.choice \in Classes /\ work.snap.class = Unset
      /\ UNCHANGED <<seen, content, lapses>>
      /\ snap' = IF reply = "error" THEN snap ELSE written
      /\ work' = IF reply = "ok" THEN Sync(written) ELSE Idle
      /\ reply # "error" => snap = work.snap
  BY DEF ChooseGroupClass, Answer, Typed, InHand
<1>2. reply # "error" => written \in Snapshot /\ written.class = work.choice
  BY <1>1, SnapshotUpdates
<1> HIDE DEF written
<1>3. work'.snap \in IF reply = "ok" THEN {Absent, written} ELSE {Absent}
  BY <1>1, <1>2, SyncWork, IdleWork
<1>4. content # Absent => content.class # Unset
  BY ContentFields, NamesAssumption DEF Typed, TypeOK
<1>5. CASE reply = "error"
  BY <1>1, <1>3, <1>5 DEF ClassKept, Agrees
<1>6. CASE reply # "error"
  <2>1. /\ snap = work.snap /\ snap # Absent /\ snap' = written
        /\ written.class = work.choice /\ snap' # Absent
    BY <1>1, <1>2, <1>6, SnapshotFields
  <2>2. "rechosen" \notin lapses' => Agrees(seen)' /\ Agrees(work.snap)'
    BY <1>1, <1>3, <2>1, <1>6 DEF ClassKept, Agrees
  <2>3. "rechosen" \notin lapses' => content' = Absent
    BY <1>1, <1>4, <2>1 DEF ClassKept
  <2> QED BY <2>2, <2>3 DEF ClassKept
<1> QED BY <1>5, <1>6

LEMMA ClassKeptWorker == ASSUME Typed, ClassKept, Worker PROVE ClassKept'
<1>1. CASE TakeSnapshot
  BY <1>1, TakenCopy, SameClass DEF TakeSnapshot
<1>2. CASE GetCreateSnapshotInput \/ GetCreateGroupSnapshotInput
  <2>1. work'.snap \in {Absent, work.snap}
    BY <1>2, IdleWork DEF GetCreateSnapshotInput, GetCreateGroupSnapshotInput, WithInput, Go, Idle
  <2> QED BY <1>2, <2>1, SameClass DEF GetCreateSnapshotInput, GetCreateGroupSnapshotInput
<1>3. ASSUME NEW reply \in Replies, AddFinalizer(reply) PROVE ClassKept'
  <2>1. work'.snap \in {Absent, work.snap} /\ UNCHANGED <<seen, content, lapses>>
    BY <1>3, IdleWork DEF AddFinalizer, Go, Idle
  <2>2. snap' # Absent => snap # Absent /\ snap'.class = snap.class
    BY <1>3, SnapshotUpdates, SnapshotFields DEF AddFinalizer, Answer, Typed, TypeOK, InHand
  <2> QED BY <2>1, <2>2, SameClass
<1>4. ASSUME NEW reply \in Replies, CreateContent(reply) PROVE ClassKept'
  <2>1. /\ UNCHANGED <<seen, snap, lapses>> /\ work'.snap = Absent
        /\ content' = content \/ content'.class = work.snap.class
        /\ work.snap # Absent /\ work.snap.class # Unset
    BY <1>4, IdleWork, NamesAssumption, SnapshotFields DEF CreateContent, Typed, InHand
  <2> QED BY <2>1, SameClass
<1>5. ASSUME NEW reply \in Replies, DisposeOfContent(reply) PROVE ClassKept'
  <2>1. UNCHANGED <<seen, snap, lapses>> /\ work'.snap = Absent
    BY <1>5, IdleWork DEF DisposeOfContent
  <2>2. content' # Absent => content # Absent /\ content'.class = content.class
    BY <1>5, ContentUpdates DEF DisposeOfContent, Answer, Typed, TypeOK
  <2> QED BY <2>1, <2>2, SameClass
<1>6. ASSUME NEW reply \in Replies, Release(reply) PROVE ClassKept'
  <2> DEFINE s == [snap EXCEPT !.fin = FALSE]
  <2>1. /\ UNCHANGED <<seen, content, lapses>> /\ work'.snap = Absent
        /\ snap' = IF reply = "error" THEN snap ELSE Keep(s)
    BY <1>6, IdleWork DEF Release
  <2>2. reply # "error" => s \in Snapshot /\ s.class = snap.class /\ snap # Absent
    BY <1>6, SnapshotUpdates, SnapshotFields DEF Release, Answer, Typed, InHand
  <2> HIDE DEF s
  <2>3. snap' # Absent => snap # Absent /\ snap'.class = snap.class
    BY <2>1, <2>2, KeptSnapshot
  <2> QED BY <2>1, <2>3, SameClass
<1> QED BY <1>1, <1>2, <1>3, <1>4, <1>5, <1>6, ClassKeptChooseSnapshotClass,
           ClassKeptChooseGroupClass DEF Worker

LEMMA ClassKeptNext == ASSUME Typed, ClassKept, [Next]_vars PROVE ClassKept'
<1>1. CASE Sidecar
  <2>1. UNCHANGED <<snap, seen, work, lapses>> /\ content \in Content
    BY <1>1 DEF Sidecar, SidecarCuts, SidecarDeletes, Typed, TypeOK
  <2>2. content' # Absent => content # Absent /\ content'.class = content.class
    BY <1>1, <2>1, ContentUpdates, ContentFields DEF Sidecar, SidecarCuts, SidecarDeletes
  <2> QED BY <2>1, <2>2, SameClass
<1>2. CASE DeliverSnapshot
  BY <1>2, SameClass DEF DeliverSnapshot
<1>3. CASE RestartController
  BY <1>3, SameClass, IdleWork DEF RestartController
<1>4. CASE UserDeletesSnapshot
  <2> DEFINE s == [snap EXCEPT !.deleting = TRUE]
  <2>1. snap \in Snapshot /\ snap # Absent /\ snap' = Keep(s)
        /\ UNCHANGED <<seen, work, content, lapses>>
    BY <1>4 DEF UserDeletesSnapshot, Typed, TypeOK
  <2>2. s \in Snapshot /\ s.class = snap.class
    BY <2>1, SnapshotUpdates
  <2> HIDE DEF s
  <2>3. snap' # Absent => snap'.class = snap.class
    BY <2>1, <2>2, KeptSnapshot
  <2> QED BY <2>1, <2>3, SameClass
<1>5. CASE \/ \E k \in Classes : AdminChangesClass(k)
           \/ \E s \in Secrets : AdminChangesSecret(s)
           \/ UserDeletesClaim \/ UNCHANGED vars
  <2>1. UNCHANGED <<snap, seen, work, content, lapses>>
    BY <1>5 DEF AdminChangesClass, AdminChangesSecret, UserDeletesClaim, vars
  <2> QED BY <2>1, SameClass
<1> QED BY <1>1, <1>2, <1>3, <1>4, <1>5, ClassKeptWorker DEF Next

-----------------------------------------------------------------------------
(* A group's content is for its volumes' driver, and a content has the credentials *)

LEMMA DriverComparedNext == ASSUME Typed, DriverCompared, [Next]_vars PROVE DriverCompared'
<1>1. kind' = kind
  BY DEF Next, Worker, Sidecar, TakeSnapshot, GetCreateSnapshotInput,
     GetCreateGroupSnapshotInput, ChooseSnapshotClass, ChooseGroupClass, AddFinalizer,
     CreateContent, DisposeOfContent, Release, SidecarCuts, SidecarDeletes,
     DeliverSnapshot, RestartController, AdminChangesClass, AdminChangesSecret,
     UserDeletesClaim, UserDeletesSnapshot, vars
<1> SUFFICES ASSUME kind = "group"
             PROVE  /\ work'.pc = "create" => work'.input.driver = Driver
                    /\ content' # Absent => content'.driver = Driver
  BY <1>1 DEF DriverCompared
<1>2. CASE TakeSnapshot
  <2>1. content' = content /\ seen \in Snapshot
    BY <1>2 DEF TakeSnapshot, Typed, TypeOK
  <2>2. work'.pc # "create"
    <3>1. CASE ClassStep(seen) = "choose"
      BY <1>2, <3>1 DEF TakeSnapshot, Go, Idle
    <3>2. CASE ClassStep(seen) # "choose"
      <4>1. work' \in {Idle, Update(seen)}
        BY <1>2, <3>2 DEF TakeSnapshot, ClassStep
      <4> QED BY <2>1, <4>1, UpdateWork, IdleWork
    <3> QED BY <3>1, <3>2
  <2> QED BY <2>1, <2>2 DEF DriverCompared
<1>3. CASE GetCreateGroupSnapshotInput
  <2>1. content' = content
        /\ (work'.pc = "create" => /\ FitsVolume(classes[work.snap.class])
                                   /\ work' = WithInput(work.snap))
    BY <1>3, IdleWork DEF GetCreateGroupSnapshotInput
  <2>2. WithInput(work.snap).input = classes[work.snap.class]
    BY DEF WithInput, Go, Idle
  <2> QED BY <2>1, <2>2 DEF FitsVolume, DriverCompared
<1>4. ASSUME NEW reply \in Replies, ChooseGroupClass(reply) PROVE work'.pc # "create" /\ content' = content
  <2> DEFINE written == [snap EXCEPT !.class = work.choice]
  <2>1. /\ content' = content /\ work' = IF reply = "ok" THEN Sync(written) ELSE Idle
        /\ work.snap \in Snapshot /\ work.choice \in Classes
        /\ reply # "error" => snap = work.snap
    BY <1>4 DEF ChooseGroupClass, Answer, Typed, InHand
  <2>2. reply # "error" => written \in Snapshot
    BY <2>1, SnapshotUpdates
  <2> HIDE DEF written
  <2> QED BY <2>1, <2>2, SyncWork, IdleWork
<1>5. ASSUME NEW reply \in Replies, CreateContent(reply)
      PROVE  work'.pc # "create" /\ (content' # Absent => content'.driver = Driver)
  BY <1>5, IdleWork DEF CreateContent, DriverCompared
<1>6. ASSUME NEW reply \in Replies, AddFinalizer(reply) PROVE work'.pc # "create" /\ content' = content
  BY <1>6, IdleWork DEF AddFinalizer, Go, Idle
<1>7. ASSUME NEW reply \in Replies, Release(reply) PROVE work'.pc # "create" /\ content' = content
  BY <1>7, IdleWork DEF Release
<1>8. ASSUME NEW reply \in Replies, DisposeOfContent(reply)
      PROVE  work'.pc # "create" /\ (content' # Absent => content'.driver = Driver)
  BY <1>8, IdleWork, ContentUpdates
     DEF DisposeOfContent, Answer, DriverCompared, Typed, TypeOK
<1>9. CASE Sidecar
  <2>1. work' = work /\ content \in Content
    BY <1>9 DEF Sidecar, SidecarCuts, SidecarDeletes, Typed, TypeOK
  <2>2. content' # Absent => content # Absent /\ content'.driver = content.driver
    BY <1>9, <2>1, ContentUpdates, ContentFields DEF Sidecar, SidecarCuts, SidecarDeletes
  <2> QED BY <2>1, <2>2 DEF DriverCompared
<1>10. CASE RestartController
  BY <1>10, IdleWork DEF RestartController, DriverCompared
<1>11. CASE \/ DeliverSnapshot \/ UserDeletesSnapshot \/ UserDeletesClaim \/ UNCHANGED vars
            \/ \E k \in Classes : AdminChangesClass(k)
            \/ \E s \in Secrets : AdminChangesSecret(s)
  BY <1>11 DEF DeliverSnapshot, UserDeletesSnapshot, UserDeletesClaim, AdminChangesClass,
     AdminChangesSecret, vars, DriverCompared
<1>12. CASE Worker
  BY <1>2, <1>3, <1>4, <1>5, <1>6, <1>7, <1>8, <1>12
     DEF Worker, GetCreateSnapshotInput, ChooseSnapshotClass, DriverCompared
<1> QED BY <1>9, <1>10, <1>11, <1>12 DEF Next

LEMMA CutWithSecretNext == ASSUME Typed, CutWithSecret, [Next]_vars PROVE CutWithSecret'
<1>1. ASSUME NEW reply \in Replies, CreateContent(reply) PROVE CutWithSecret'
  BY <1>1 DEF CreateContent, CutWithSecret
<1>2. ASSUME NEW reply \in Replies, DisposeOfContent(reply) PROVE CutWithSecret'
  <2>1. content \in Content => /\ [content EXCEPT !.deleting = TRUE] \in Content
                               /\ [content EXCEPT !.deleting = TRUE].secret = content.secret
    BY ContentUpdates
  <2>2. content # Absent => content \in Content
    BY DEF Typed, TypeOK
  <2> QED BY <1>2, <2>1, <2>2, ContentFields DEF DisposeOfContent, Answer, CutWithSecret
<1>3. CASE SidecarCuts
  <2> DEFINE c == [content EXCEPT !.cut = TRUE]
  <2>1. content \in Content /\ content' = c /\ storage' = content.secret
    BY <1>3 DEF SidecarCuts, Credentials, Typed, TypeOK
  <2>2. c \in Content /\ c.secret = content.secret
    BY <2>1, ContentUpdates
  <2> HIDE DEF c
  <2> QED BY <2>1, <2>2, ContentFields DEF CutWithSecret
<1>4. CASE SidecarDeletes
  BY <1>4 DEF SidecarDeletes, CutWithSecret
<1>5. CASE UNCHANGED <<content, storage>>
  BY <1>5 DEF CutWithSecret
<1> QED BY <1>1, <1>2, <1>3, <1>4, <1>5
     DEF Next, Worker, Sidecar, TakeSnapshot, GetCreateSnapshotInput,
     GetCreateGroupSnapshotInput, ChooseSnapshotClass, ChooseGroupClass, AddFinalizer,
     Release, DeliverSnapshot, RestartController, AdminChangesClass, AdminChangesSecret,
     UserDeletesClaim, UserDeletesSnapshot, vars

LEMMA ProvidedInit == Init => Provided
  BY IdleWork DEF Init, Provided, ClassKept, Agrees, DriverCompared, CutWithSecret

LEMMA ProvidedNext == Typed /\ Provided /\ [Next]_vars => Provided'
  BY ClassKeptNext, DriverComparedNext, CutWithSecretNext DEF Provided

LEMMA ProvidedAlways == Spec => [](Typed /\ Provided)
  BY TypedInit, TypedNext, ProvidedInit, ProvidedNext, PTL DEF Spec

\* A content names the class of its snapshot, unless a late copy replaced the class
\* that was chosen: checkAndUpdateSnapshotClass, createSnapshotContent.
THEOREM ContentOfClassCorrect == Spec => []ContentOfClass
<1>1. Provided => ContentOfClass
  BY DEF Provided, ClassKept, ContentOfClass
<1> QED BY <1>1, ProvidedAlways, PTL

\* However often its class is replaced, a group's content is for the driver that has its
\* volumes: createGroupSnapshotContent.
THEOREM GroupOfOneDriverCorrect == Spec => []GroupOfOneDriver
<1>1. Provided => GroupOfOneDriver
  BY DEF Provided, DriverCompared, GroupOfOneDriver
<1> QED BY <1>1, ProvidedAlways, PTL

\* deleteCSISnapshotOperation uses the credentials that createSnapshotWrapper used,
\* whatever became of the class: both are the content's annotations.
THEOREM FreedAsCutCorrect == Spec => FreedAsCut
<1>1. Provided => (storage # Absent => Credentials(content) = storage)
  BY DEF Provided, CutWithSecret, Credentials
<1>2. Provided /\ [Next]_vars
        => [storage # Absent /\ storage' = Absent => Credentials(content) = storage]_vars
  BY <1>1
<1> QED BY <1>2, ProvidedAlways, PTL DEF Spec, FreedAsCut
=============================================================================
