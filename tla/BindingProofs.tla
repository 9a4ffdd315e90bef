--------------------------- MODULE BindingProofs ----------------------------
(***************************************************************************)
(* Proofs about the module Binding, for any number of snapshots, either     *)
(* policy and any budget of faults.                                         *)
(*                                                                         *)
(*   - The two halves of a binding agree.  BoundBothWays is not inductive.  *)
(*     The worker writes the UID into the content, and then the content's   *)
(*     name into whatever snapshot has the name by then: the two are the    *)
(*     same snapshot only because the snapshot has its source finalizer     *)
(*     from before the first of the two calls, and nobody but the same      *)
(*     worker takes it away.  That is what the parts of Agreement say.      *)
(*   - The physical snapshot is freed for the snapshot its content is bound *)
(*     to and at its user's request, the content is asked to go before a    *)
(*     snapshot that is bound does, and what it takes to leave the storage  *)
(*     behind.  The marks and the deletions are decided on copies, which    *)
(*     may show a content as it was before another snapshot of the name got *)
(*     hold of it.  The invariant says why that does no harm: a copy of the *)
(*     content that names the snapshot in hand is right about it            *)
(*     (UidKnown), a UID is only written where no mark is on its way        *)
(*     (MarkedForOwner), and a binding that the status shows is in the      *)
(*     controller's copy as well (BoundKnown).                              *)
(***************************************************************************)
EXTENDS Binding, TLAPS

\* The snapshot of which s is a copy is there, and its source finalizer holds it.
Held(s) == snap # Absent /\ snap.uid = s.uid /\ "AsSource" \in snap.fins

WorkHasSnapshot == sw.pc # "idle" => sw.snap \in Snapshot

\* A snapshot is the latest that was created; a copy of the content that names the
\* latest is up to date about that.
LatestUid ==
    /\ snap # Absent => snap.uid = created
    /\ snapKnown # Absent => snapKnown.uid <= created
    /\ sw.snap # Absent => sw.snap.uid <= created
    /\ content # Absent => content.uid <= created
    /\ contentKnown # Absent => contentKnown.uid <= created
    /\ contentKnown # Absent /\ content # Absent /\ contentKnown.uid = created
         => content.uid = created

\* The source finalizer comes before the bound one.
InTurn(s) == s # Absent /\ ~s.deleting /\ "Bound" \in s.fins => "AsSource" \in s.fins
SourceFirst == InTurn(snap) /\ InTurn(snapKnown) /\ InTurn(sw.snap)

\* Who sees the source finalizer on a snapshot that is not deleted can rely on it.
Protected ==
    /\ snapKnown # Absent /\ ~snapKnown.deleting /\ "AsSource" \in snapKnown.fins
         => Held(snapKnown)
    /\ sw.pc \in {"addFinalizer", "unready"} /\ "AsSource" \in sw.snap.fins => Held(sw.snap)
    /\ sw.pc \in {"bind", "status"} => Held(sw.snap)

\* A deletion is never taken back, and it is known while it is worked on.
Lasting(s) == s # Absent /\ s.deleting /\ snap # Absent /\ snap.uid = s.uid => snap.deleting
DeletionKnown ==
    /\ Lasting(snapKnown) /\ Lasting(sw.snap)
    /\ sw.pc \in {"addFinalizer", "bind", "status", "unready"} => ~sw.snap.deleting
    /\ sw.pc \in {"annotate", "delete", "release"}
         => /\ sw.snap.deleting
            /\ snapKnown # Absent /\ snapKnown.uid = sw.snap.uid => snapKnown.deleting

\* The status is written once the content has the UID.
StatusOfOwn == sw.pc = "status" /\ content # Absent => content.uid = sw.snap.uid

Agreement == /\ LatestUid /\ SourceFirst /\ Protected
             /\ DeletionKnown /\ StatusOfOwn /\ BoundBothWays

-----------------------------------------------------------------------------
(* Records *)

LEMMA SnapshotFields ==
    ASSUME NEW STATE s, s \in Snapshot
    PROVE  /\ s.uid \in Uid /\ s.deleting \in BOOLEAN /\ s.bound \in BOOLEAN
           /\ s.ready \in BOOLEAN /\ s.fins \subseteq {"AsSource", "Bound"}
           /\ s # Absent
  BY AbsentAssumption DEF Snapshot

LEMMA ContentFields ==
    ASSUME NEW STATE c, c \in Content
    PROVE  /\ c.uid \in Uid \cup {NoUid} /\ c.deleting \in BOOLEAN /\ c.fin \in BOOLEAN
           /\ c.marked \in BOOLEAN /\ c.ready \in BOOLEAN
           /\ c # Absent
  BY AbsentAssumption DEF Content

\* The same snapshot: only its status, its finalizers or its deletion differ.
Same(t, s) == t \in Snapshot /\ t.uid = s.uid /\ (s.deleting => t.deleting)

LEMMA SnapshotUpdates ==
    ASSUME NEW STATE s, s \in Snapshot
    PROVE  /\ \A b \in BOOLEAN :
                 LET t == [s EXCEPT !.ready = b]
                 IN Same(t, s) /\ t.fins = s.fins /\ t.bound = s.bound /\ t.deleting = s.deleting
           /\ \A b \in BOOLEAN :
                 LET t == [s EXCEPT !.bound = TRUE, !.ready = b]
                 IN Same(t, s) /\ t.fins = s.fins /\ t.bound /\ t.deleting = s.deleting
           /\ LET t == [s EXCEPT !.deleting = TRUE]
              IN Same(t, s) /\ t.fins = s.fins /\ t.bound = s.bound /\ t.deleting
           /\ \A f \in SUBSET {"AsSource", "Bound"} :
                 LET t == [s EXCEPT !.fins = f]
                 IN Same(t, s) /\ t.fins = f /\ t.bound = s.bound /\ t.deleting = s.deleting
  BY DEF Snapshot, Same

LEMMA ContentUpdates ==
    ASSUME NEW STATE c, c \in Content
    PROVE  /\ \A u \in Uid : [c EXCEPT !.uid = u] \in Content /\ [c EXCEPT !.uid = u].uid = u
           /\ [c EXCEPT !.marked = TRUE] \in Content /\ [c EXCEPT !.marked = TRUE].uid = c.uid
           /\ [c EXCEPT !.fin = TRUE] \in Content /\ [c EXCEPT !.fin = TRUE].uid = c.uid
           /\ [c EXCEPT !.deleting = TRUE] \in Content
           /\ [c EXCEPT !.deleting = TRUE].uid = c.uid
           /\ \A b \in BOOLEAN : /\ [c EXCEPT !.ready = b] \in Content
                                 /\ [c EXCEPT !.ready = b].uid = c.uid
  BY DEF Content

LEMMA UidsAreNumbers == Uid \subseteq Nat /\ NoUid \in Nat /\ NoUid \notin Uid
  BY UidsAssumption DEF Uid, NoUid

-----------------------------------------------------------------------------
(* What the worker has in hand *)

LEMMA IdleWork == Idle \in SnapshotWork /\ Idle.pc = "idle" /\ Idle.snap = Absent
  BY DEF Idle, SnapshotWork

LEMMA WorkUpdates ==
    ASSUME NEW STATE w, w \in SnapshotWork
    PROVE  /\ [w EXCEPT !.pc = "release"] \in SnapshotWork
           /\ [w EXCEPT !.pc = "release"].pc = "release"
           /\ [w EXCEPT !.pc = "release"].snap = w.snap
           /\ [w EXCEPT !.pc = "annotate"] \in SnapshotWork
           /\ [w EXCEPT !.pc = "annotate"].pc = "annotate"
           /\ [w EXCEPT !.pc = "annotate"].snap = w.snap
           /\ \A b \in BOOLEAN :
                 LET v == [w EXCEPT !.pc = "status", !.ready = b]
                 IN v \in SnapshotWork /\ v.pc = "status" /\ v.snap = w.snap
  BY DEF SnapshotWork

\* syncReadySnapshot, syncUnreadySnapshot begin to write the status when the copy of
\* the content names the snapshot.
LEMMA SyncStepWork ==
    ASSUME NEW STATE s, s \in Snapshot, NEW STATE c, c \in Content \cup {Absent}
    PROVE  /\ SyncStep(s, c) \in SnapshotWork
           /\ \/ SyncStep(s, c) = Idle
              \/ /\ SyncStep(s, c).snap = s
                 /\ SyncStep(s, c).pc \in {"unready", "bind", "status"}
           /\ SyncStep(s, c).pc = "status" => c # Absent /\ c.uid = s.uid
<1>1. /\ Failed(s) \in SnapshotWork /\ Failed(s).pc = "unready" /\ Failed(s).snap = s
  BY DEF Failed, Idle, SnapshotWork
<1> DEFINE v(pc) == [Idle EXCEPT !.pc = pc, !.snap = s, !.ready = c.ready]
<1>2. ASSUME c # Absent
      PROVE  /\ v("bind") \in SnapshotWork /\ v("bind").snap = s /\ v("bind").pc = "bind"
             /\ v("status") \in SnapshotWork /\ v("status").snap = s
             /\ v("status").pc = "status"
  <2>1. c.ready \in BOOLEAN
    BY <1>2, ContentFields
  <2> QED BY <2>1 DEF Idle, SnapshotWork
<1>3. CASE s.ready /\ s.bound
  BY <1>1, <1>3, IdleWork DEF SyncStep
<1>4. CASE ~(s.ready /\ s.bound) /\ (c = Absent \/ Misbound(s, c))
  BY <1>4, IdleWork DEF SyncStep
<1>5. CASE ~(s.ready /\ s.bound) /\ c # Absent /\ ~Misbound(s, c) /\ NeedsBinding(c)
  <2>1. SyncStep(s, c) = v("bind")
    BY <1>5 DEF SyncStep
  <2> QED BY <1>2, <1>5, <2>1
<1>6. CASE ~(s.ready /\ s.bound) /\ c # Absent /\ ~Misbound(s, c) /\ ~NeedsBinding(c)
  <2>1. SyncStep(s, c) = v("status")
    BY <1>6 DEF SyncStep
  <2>2. c.uid = s.uid
    BY <1>6 DEF Misbound, NeedsBinding
  <2> QED BY <1>2, <1>6, <2>1, <2>2
<1> QED BY <1>3, <1>4, <1>5, <1>6

LEMMA AfterMarkWork ==
    ASSUME NEW STATE w, w \in SnapshotWork
    PROVE  /\ AfterMark(w) \in SnapshotWork /\ AfterMark(w).snap = w.snap
           /\ AfterMark(w).pc \in {"delete", "release"}
<1>1. CASE w.found /\ policy = "Delete"
  BY <1>1 DEF AfterMark, SnapshotWork
<1>2. CASE ~(w.found /\ policy = "Delete")
  BY <1>2 DEF AfterMark, SnapshotWork
<1> QED BY <1>1, <1>2

-----------------------------------------------------------------------------
(* Calls *)

LEMMA SpendType ==
    ASSUME TypeOK, NEW kind \in Faults, Spend(kind)
    PROVE  budget' \in [Faults -> Nat]
  BY DEF TypeOK, Spend

\* A call that does not fail is one the server accepts.
LEMMA Answered ==
    ASSUME TypeOK, NEW STATE accepted, NEW reply \in Replies, Answer(accepted, reply)
    PROVE  budget' \in [Faults -> Nat] /\ (reply # "error" => accepted)
<1>1. CASE UNCHANGED budget
  BY <1>1 DEF TypeOK, Answer
<1>2. CASE Spend("lost") \/ Spend("api")
  BY <1>2, SpendType DEF Answer, Faults
<1> QED BY <1>1, <1>2 DEF Answer

LEMMA NoteType ==
    ASSUME TypeOK, NEW STATE happened, NEW lapse \in Lapses, Note(lapse, happened)
    PROVE  lapses' \subseteq Lapses
  BY DEF TypeOK, Note

-----------------------------------------------------------------------------
(* Type correctness *)

Typed == TypeOK /\ WorkHasSnapshot

LEMMA TypedInit == Init => Typed
<1> SUFFICES ASSUME Init PROVE Typed
  OBVIOUS
<1>1. content \in Content
  BY DEF Init, Content
<1>2. created \in 0 .. Uids
  BY UidsAssumption DEF Init
<1>3. budget \in [Faults -> Nat]
  BY BudgetsAssumption DEF Init
<1> QED BY <1>1, <1>2, <1>3, IdleWork
        DEF Init, Typed, TypeOK, WorkHasSnapshot, ContentWork, Lapses

\* What the snapshot worker leaves alone.
LEMMA TypedWorker ==
    ASSUME Typed, UNCHANGED NotSnapshotWorker,
           snap' \in Snapshot \cup {Absent}, snapKnown' \in Snapshot \cup {Absent},
           content' \in Content \cup {Absent}, contentKnown' \in Content \cup {Absent},
           snapQueue' \in BOOLEAN,
           sw' \in SnapshotWork, sw'.pc # "idle" => sw'.snap \in Snapshot,
           budget' \in [Faults -> Nat], lapses' \subseteq Lapses
    PROVE  Typed'
  BY DEF Typed, TypeOK, WorkHasSnapshot, NotSnapshotWorker, settings, users

LEMMA TypedSyncSnapshot == ASSUME Typed, SyncSnapshot PROVE Typed'
<1>1. snapKnown \in Snapshot /\ contentKnown \in Content \cup {Absent}
  BY DEF SyncSnapshot, TakeSnapshot, Typed, TypeOK
<1>2. sw' \in SnapshotWork /\ (sw'.pc # "idle" => sw'.snap \in Snapshot)
  <2>1. CASE sw' = Failed(snapKnown)
    BY <1>1, <2>1 DEF Failed, Idle, SnapshotWork
  <2>2. CASE sw' = [Idle EXCEPT !.pc = "addFinalizer", !.snap = snapKnown]
    BY <1>1, <2>2 DEF Idle, SnapshotWork
  <2>3. CASE sw' = SyncStep(snapKnown, contentKnown)
    BY <1>1, <2>3, SyncStepWork, IdleWork
  <2> QED BY <2>1, <2>2, <2>3 DEF SyncSnapshot
<1>3. snapQueue' \in BOOLEAN
  BY DEF SyncSnapshot
<1> QED BY <1>1, <1>2, <1>3, TypedWorker DEF SyncSnapshot, Typed, TypeOK

LEMMA TypedAddSnapshotFinalizer ==
    ASSUME Typed, NEW reply \in Replies, AddSnapshotFinalizer(reply) PROVE Typed'
<1> DEFINE protected == [snap EXCEPT !.fins = @ \cup FinalizersToAdd(sw.snap, contentKnown)]
<1>1. budget' \in [Faults -> Nat] /\ (reply # "error" => snap # Absent)
  BY Answered DEF AddSnapshotFinalizer, Typed
<1>2. reply # "error" => protected \in Snapshot
  <2> SUFFICES ASSUME reply # "error" PROVE protected \in Snapshot
    OBVIOUS
  <2>1. snap \in Snapshot
    BY <1>1 DEF Typed, TypeOK
  <2>2. snap.fins \cup FinalizersToAdd(sw.snap, contentKnown) \in SUBSET {"AsSource", "Bound"}
    BY <2>1, SnapshotFields DEF FinalizersToAdd
  <2> QED BY <2>1, <2>2, SnapshotUpdates DEF Same
<1>3. sw.snap \in Snapshot /\ contentKnown \in Content \cup {Absent}
  BY DEF AddSnapshotFinalizer, Typed, TypeOK, WorkHasSnapshot
<1>4. sw' \in SnapshotWork /\ (sw'.pc # "idle" => sw'.snap \in Snapshot)
  BY <1>3, SyncStepWork, IdleWork DEF AddSnapshotFinalizer, RetrySnapshot
<1>5. snap' \in Snapshot \cup {Absent} /\ snapKnown' \in Snapshot \cup {Absent}
      /\ snapQueue' \in BOOLEAN
  BY <1>2 DEF AddSnapshotFinalizer, RetrySnapshot, Typed, TypeOK, Replies
<1> QED BY <1>1, <1>4, <1>5, TypedWorker DEF AddSnapshotFinalizer, Typed, TypeOK

LEMMA TypedBindContent ==
    ASSUME Typed, NEW reply \in Replies, BindContent(reply) PROVE Typed'
<1> DEFINE c == [content EXCEPT !.uid = sw.snap.uid]
<1>1. budget' \in [Faults -> Nat] /\ (reply # "error" => content # Absent)
  BY Answered DEF BindContent, Typed
<1>2. sw \in SnapshotWork /\ sw.snap \in Snapshot
  BY DEF BindContent, Typed, TypeOK, WorkHasSnapshot
<1>3. reply # "error" => c \in Content /\ c.ready \in BOOLEAN
  BY <1>1, <1>2, SnapshotFields, ContentFields, ContentUpdates DEF Typed, TypeOK
<1>4. sw' \in SnapshotWork /\ (sw'.pc # "idle" => sw'.snap \in Snapshot)
  <2>1. CASE reply = "ok"
    <3>1. sw' = [sw EXCEPT !.pc = "status", !.ready = c.ready]
      BY <2>1 DEF BindContent
    <3>2. c.ready \in BOOLEAN
      BY <1>3, <2>1
    <3> HIDE DEF c
    <3>3. sw' \in SnapshotWork /\ sw'.snap = sw.snap
      BY <1>2, <3>1, <3>2, WorkUpdates
    <3> QED BY <1>2, <3>3
  <2>2. CASE reply # "ok"
    BY <2>2, IdleWork DEF BindContent, RetrySnapshot
  <2> QED BY <2>1, <2>2
<1>5. content' \in Content \cup {Absent} /\ contentKnown' \in Content \cup {Absent}
      /\ snapQueue' \in BOOLEAN
  BY <1>3 DEF BindContent, RetrySnapshot, Typed, TypeOK, Replies
<1> QED BY <1>1, <1>4, <1>5, TypedWorker DEF BindContent, Typed, TypeOK

LEMMA TypedUpdateSnapshotStatus ==
    ASSUME Typed, NEW reply \in Replies, UpdateSnapshotStatus(reply) PROVE Typed'
<1> DEFINE s == [snap EXCEPT !.bound = TRUE, !.ready = sw.ready]
<1>1. budget' \in [Faults -> Nat] /\ (reply # "error" => snap # Absent)
  BY Answered DEF UpdateSnapshotStatus, Typed
<1>2. sw \in SnapshotWork /\ sw.ready \in BOOLEAN
  BY DEF Typed, TypeOK, SnapshotWork
<1>3. reply # "error" => s \in Snapshot
  BY <1>1, <1>2, SnapshotUpdates DEF Typed, TypeOK, Same
<1>4. /\ sw' \in SnapshotWork /\ (sw'.pc # "idle" => sw'.snap \in Snapshot)
      /\ snap' \in Snapshot \cup {Absent} /\ snapQueue' \in BOOLEAN
  BY <1>3, IdleWork DEF UpdateSnapshotStatus, RetrySnapshot, Typed, TypeOK
<1> QED BY <1>1, <1>4, TypedWorker DEF UpdateSnapshotStatus, Typed, TypeOK

LEMMA TypedMarkUnready ==
    ASSUME Typed, NEW reply \in Replies, MarkUnready(reply) PROVE Typed'
<1> DEFINE s == [sw.snap EXCEPT !.ready = FALSE]
<1>1. budget' \in [Faults -> Nat]
  BY Answered DEF MarkUnready, Typed
<1>2. s \in Snapshot
  BY SnapshotUpdates DEF MarkUnready, Typed, WorkHasSnapshot, Same
<1>3. /\ sw' \in SnapshotWork /\ (sw'.pc # "idle" => sw'.snap \in Snapshot)
      /\ snap' \in Snapshot \cup {Absent} /\ snapKnown' \in Snapshot \cup {Absent}
      /\ snapQueue' \in BOOLEAN
  BY <1>2, IdleWork DEF MarkUnready, RetrySnapshot, Typed, TypeOK
<1> QED BY <1>1, <1>3, TypedWorker DEF MarkUnready, Typed, TypeOK

LEMMA TypedSyncDeletingSnapshot == ASSUME Typed, SyncDeletingSnapshot PROVE Typed'
<1> DEFINE found == PointsBack(snapKnown, contentKnown)
           w == [Idle EXCEPT !.snap = snapKnown, !.found = found]
           c == [contentKnown EXCEPT !.marked = TRUE]
<1>1. snapKnown \in Snapshot /\ contentKnown \in Content \cup {Absent}
  BY DEF SyncDeletingSnapshot, TakeSnapshot, Typed, TypeOK
<1>2. found \in BOOLEAN /\ (found => contentKnown \in Content)
  BY <1>1, SnapshotFields DEF PointsBack
<1>3. w \in SnapshotWork /\ w.snap = snapKnown
  BY <1>1, <1>2 DEF Idle, SnapshotWork
<1>4. [w EXCEPT !.pc = "annotate"] \in SnapshotWork
      /\ [w EXCEPT !.pc = "annotate"].snap = snapKnown
  BY <1>3, WorkUpdates
<1>5. AfterMark(w) \in SnapshotWork /\ AfterMark(w).snap = snapKnown
  BY <1>3, AfterMarkWork
<1>6. sw' \in SnapshotWork /\ (sw'.pc # "idle" => sw'.snap \in Snapshot)
  BY <1>1, <1>4, <1>5, IdleWork DEF SyncDeletingSnapshot
<1>7. contentKnown' \in Content \cup {Absent}
  BY <1>1, <1>2, ContentUpdates DEF SyncDeletingSnapshot
<1>8. lapses' \subseteq Lapses /\ snapQueue' \in BOOLEAN
  BY DEF SyncDeletingSnapshot, Note, Lapses, Typed, TypeOK
<1> QED BY <1>6, <1>7, <1>8, TypedWorker DEF SyncDeletingSnapshot, Typed, TypeOK

\* setAnnVolumeSnapshotBeingDeleted, for either worker.
LEMMA TypedMark ==
    ASSUME Typed, NEW reply \in Replies, Mark(reply, TRUE, TRUE)
    PROVE  /\ budget' \in [Faults -> Nat]
           /\ content' \in Content \cup {Absent} /\ contentKnown' \in Content \cup {Absent}
           /\ content' # Absent => content # Absent /\ content'.uid = content.uid
           /\ contentKnown' = contentKnown \/ contentKnown' = content'
<1> DEFINE c == [content EXCEPT !.marked = TRUE]
<1>1. budget' \in [Faults -> Nat] /\ (reply # "error" => content # Absent)
  BY Answered DEF Mark, Typed
<1>2. reply # "error" => c \in Content /\ c.uid = content.uid
  BY <1>1, ContentUpdates DEF Typed, TypeOK
<1> QED BY <1>1, <1>2 DEF Mark, Typed, TypeOK, Replies

LEMMA MarkContentMarks ==
    ASSUME NEW reply \in Replies, MarkContent(reply)
    PROVE  /\ Mark(reply, TRUE, TRUE)
           /\ (sw' = AfterMark(sw) /\ UNCHANGED snapQueue) \/ RetrySnapshot
  BY DEF MarkContent, Mark

LEMMA TypedMarkContent ==
    ASSUME Typed, NEW reply \in Replies, MarkContent(reply) PROVE Typed'
<1>1. sw \in SnapshotWork /\ sw.snap \in Snapshot
  BY DEF MarkContent, Typed, TypeOK, WorkHasSnapshot
<1>2. /\ sw' \in SnapshotWork /\ (sw'.pc # "idle" => sw'.snap \in Snapshot)
      /\ snapQueue' \in BOOLEAN
  BY <1>1, MarkContentMarks, AfterMarkWork, IdleWork DEF RetrySnapshot, Typed, TypeOK
<1> QED BY <1>2, MarkContentMarks, TypedMark, TypedWorker DEF MarkContent, Typed, TypeOK

\* A content that is asked to go stays the same content, or is gone.
LEMMA AskedContent ==
    ASSUME Typed, content # Absent, AskContentToGo
    PROVE  /\ content' \in Content \cup {Absent}
           /\ content' # Absent => content'.uid = content.uid
           /\ lapses' \subseteq Lapses
<1> DEFINE c == [content EXCEPT !.deleting = TRUE]
<1>1. c \in Content /\ c.uid = content.uid
  BY ContentUpdates DEF Typed, TypeOK
<1>2. lapses' \subseteq Lapses
  BY DEF AskContentToGo, Note, Lapses, Typed, TypeOK
<1> QED BY <1>1, <1>2 DEF AskContentToGo, KeepContent

LEMMA TypedDeleteContent ==
    ASSUME Typed, NEW reply \in Replies, DeleteContent(reply) PROVE Typed'
<1>1. budget' \in [Faults -> Nat] /\ (reply # "error" => content # Absent)
  BY Answered DEF DeleteContent, Typed
<1>2. content' \in Content \cup {Absent} /\ lapses' \subseteq Lapses
  BY <1>1, AskedContent DEF DeleteContent, Typed, TypeOK
<1>3. sw \in SnapshotWork /\ sw.snap \in Snapshot
  BY DEF DeleteContent, Typed, TypeOK, WorkHasSnapshot
<1>4. /\ sw' \in SnapshotWork /\ (sw'.pc # "idle" => sw'.snap \in Snapshot)
      /\ snapQueue' \in BOOLEAN
  <2>1. CASE reply = "ok"
    <3>1. sw' = [sw EXCEPT !.pc = "release"] /\ snapQueue' = snapQueue
      BY <2>1 DEF DeleteContent
    <3>2. sw' \in SnapshotWork /\ sw'.snap = sw.snap
      BY <1>3, <3>1, WorkUpdates
    <3> QED BY <1>3, <3>1, <3>2 DEF Typed, TypeOK
  <2>2. CASE reply # "ok"
    <3>1. RetrySnapshot
      BY <2>2 DEF DeleteContent
    <3> QED BY <3>1, IdleWork DEF RetrySnapshot
  <2> QED BY <2>1, <2>2
<1> QED BY <1>1, <1>2, <1>4, TypedWorker DEF DeleteContent, Typed, TypeOK

LEMMA ReleasedFinalizers ==
    ASSUME NEW STATE s, s \in Snapshot
    PROVE  s.fins \ (IF KeepsBound(sw) THEN {"AsSource"} ELSE {"AsSource", "Bound"})
             \in SUBSET {"AsSource", "Bound"}
  BY SnapshotFields

LEMMA TypedReleaseSnapshot ==
    ASSUME Typed, NEW reply \in Replies, ReleaseSnapshot(reply) PROVE Typed'
<1> DEFINE fins == sw.snap.fins \ (IF KeepsBound(sw) THEN {"AsSource"} ELSE {"AsSource", "Bound"})
           s == [sw.snap EXCEPT !.fins = fins]
<1>1. budget' \in [Faults -> Nat]
  BY Answered DEF ReleaseSnapshot, Typed
<1>2. s \in Snapshot
  BY ReleasedFinalizers, SnapshotUpdates DEF ReleaseSnapshot, Typed, WorkHasSnapshot, Same
<1>3. /\ snap' \in Snapshot \cup {Absent} /\ snapKnown' \in Snapshot \cup {Absent}
      /\ sw' \in SnapshotWork /\ (sw'.pc # "idle" => sw'.snap \in Snapshot)
      /\ snapQueue' \in BOOLEAN
  BY <1>2, IdleWork DEF ReleaseSnapshot, KeepSnapshot, RetrySnapshot, Typed, TypeOK
<1> QED BY <1>1, <1>3, TypedWorker DEF ReleaseSnapshot, Typed, TypeOK

LEMMA TypedForgetSnapshot == ASSUME Typed, ForgetSnapshot PROVE Typed'
  BY SnapshotFields
     DEF ForgetSnapshot, Typed, TypeOK, WorkHasSnapshot, settings, users

\* What the content worker leaves alone.
LEMMA TypedContentWorker ==
    ASSUME Typed, UNCHANGED NotContentWorker,
           content' \in Content \cup {Absent}, contentKnown' \in Content \cup {Absent},
           snapQueue' \in BOOLEAN, contentQueue' \in BOOLEAN, cw' \in ContentWork,
           budget' \in [Faults -> Nat], lapses' \subseteq Lapses
    PROVE  Typed'
  BY DEF Typed, TypeOK, WorkHasSnapshot, NotContentWorker, settings, users

LEMMA TypedSyncContent == ASSUME Typed, SyncContent PROVE Typed'
<1> DEFINE c == [contentKnown EXCEPT !.marked = TRUE]
<1>1. contentKnown \in Content
  BY DEF SyncContent, Typed, TypeOK
<1>2. c \in Content /\ contentKnown.ready \in BOOLEAN
  BY <1>1, ContentUpdates, ContentFields
<1>3. contentKnown' \in Content \cup {Absent} /\ cw' \in ContentWork
  BY <1>1, <1>2 DEF SyncContent, ContentWork, Typed, TypeOK
<1>4. snapQueue' \in BOOLEAN
  BY <1>1, <1>2 DEF SyncContent, NeedsUpdateSnapshotStatus, Typed, TypeOK
<1> QED BY <1>3, <1>4, TypedContentWorker DEF SyncContent, Typed, TypeOK

LEMMA TypedAddContentFinalizer ==
    ASSUME Typed, NEW reply \in Replies, AddContentFinalizer(reply) PROVE Typed'
<1> DEFINE c == [content EXCEPT !.fin = TRUE]
<1>1. budget' \in [Faults -> Nat] /\ (reply # "error" => content # Absent)
  BY Answered DEF AddContentFinalizer, Typed
<1>2. reply # "error" => c \in Content
  BY <1>1, ContentUpdates DEF Typed, TypeOK
<1>3. content' \in Content \cup {Absent} /\ contentKnown' \in Content \cup {Absent}
  BY <1>2 DEF AddContentFinalizer, Typed, TypeOK, Replies
<1> QED BY <1>1, <1>3, TypedContentWorker
        DEF AddContentFinalizer, RetryContent, ContentWork, Typed, TypeOK

LEMMA AnnotateContentMarks ==
    ASSUME NEW reply \in Replies, AnnotateContent(reply)
    PROVE  /\ Mark(reply, TRUE, TRUE)
           /\ (cw' = "idle" /\ UNCHANGED contentQueue) \/ RetryContent
  BY DEF AnnotateContent, Mark

LEMMA TypedAnnotateContent ==
    ASSUME Typed, NEW reply \in Replies, AnnotateContent(reply) PROVE Typed'
<1>1. cw' \in ContentWork /\ contentQueue' \in BOOLEAN
  BY AnnotateContentMarks DEF RetryContent, ContentWork, Typed, TypeOK
<1> QED BY <1>1, AnnotateContentMarks, TypedMark, TypedContentWorker
        DEF AnnotateContent, Typed, TypeOK

LEMMA TypedSidecar == ASSUME Typed, Sidecar PROVE Typed'
<1> USE DEF NotSidecar, settings, known, queues, users, Typed, TypeOK, WorkHasSnapshot
<1>1. CASE ReportStatus
  <2>1. [content EXCEPT !.ready = TRUE] \in Content
    BY <1>1, ContentUpdates DEF ReportStatus
  <2> QED BY <1>1, <2>1 DEF ReportStatus
<1>2. CASE DeletePhysicalSnapshot
  <2>1. [content EXCEPT !.ready = FALSE] \in Content
    BY <1>2, ContentUpdates DEF DeletePhysicalSnapshot
  <2> QED BY <1>2, <2>1 DEF DeletePhysicalSnapshot
<1>3. CASE ReleaseContent
  BY <1>3 DEF ReleaseContent, Note, Lapses
<1> QED BY <1>1, <1>2, <1>3 DEF Sidecar

LEMMA TypedInformers ==
    ASSUME Typed, DeliverSnapshot \/ DeliverContent \/ Resync \/ RestartController
    PROVE  Typed'
<1> USE DEF settings, known, users, Typed, TypeOK, WorkHasSnapshot
<1>1. CASE DeliverSnapshot
  BY <1>1 DEF DeliverSnapshot
<1>2. CASE DeliverContent
  BY <1>2 DEF DeliverContent
<1>3. CASE Resync
  BY <1>3 DEF Resync
<1>4. CASE RestartController
  <2>1. budget' \in [Faults -> Nat]
    BY <1>4, SpendType DEF RestartController, Faults
  <2> QED BY <1>4, <2>1, IdleWork DEF RestartController, ContentWork
<1> QED BY <1>1, <1>2, <1>3, <1>4

LEMMA NewSnapshotType ==
    ASSUME NEW STATE u, u \in Uid
    PROVE  /\ NewSnapshot(u) \in Snapshot /\ NewSnapshot(u).uid = u
           /\ NewSnapshot(u).fins = {} /\ ~NewSnapshot(u).bound
           /\ ~NewSnapshot(u).deleting
  BY DEF NewSnapshot, Snapshot

LEMMA TypedUsers == ASSUME Typed, Users PROVE Typed'
<1> USE DEF settings, known, queues, users, Typed, TypeOK, WorkHasSnapshot
<1>1. CASE UserCreatesSnapshot
  <2>1. created + 1 \in Uid /\ created + 1 \in 0 .. Uids
    BY <1>1, UidsAssumption DEF UserCreatesSnapshot, Uid
  <2>2. NewSnapshot(created + 1) \in Snapshot
    BY <2>1, NewSnapshotType
  <2> QED BY <1>1, <2>1, <2>2 DEF UserCreatesSnapshot
<1>2. CASE UserDeletesSnapshot
  <2>1. snap.uid \in Uid /\ [snap EXCEPT !.deleting = TRUE] \in Snapshot
    BY <1>2, SnapshotFields, SnapshotUpdates DEF UserDeletesSnapshot, Same
  <2> QED BY <1>2, <2>1 DEF UserDeletesSnapshot, KeepSnapshot
<1>3. CASE AdminDeletesContent
  <2>1. budget' \in [Faults -> Nat]
    BY <1>3, SpendType DEF AdminDeletesContent, Faults
  <2>2. content' \in Content \cup {Absent} /\ lapses' \subseteq Lapses
    BY <1>3, AskedContent DEF AdminDeletesContent
  <2> QED BY <1>3, <2>1, <2>2 DEF AdminDeletesContent
<1> QED BY <1>1, <1>2, <1>3 DEF Users

LEMMA TypedNext == Typed /\ [Next]_vars => Typed'
<1> SUFFICES ASSUME Typed, [Next]_vars PROVE Typed'
  OBVIOUS
<1>1. CASE SnapshotWorker
  BY <1>1, TypedSyncSnapshot, TypedSyncDeletingSnapshot, TypedForgetSnapshot,
     TypedAddSnapshotFinalizer, TypedBindContent, TypedUpdateSnapshotStatus,
     TypedMarkUnready, TypedMarkContent, TypedDeleteContent, TypedReleaseSnapshot
     DEF SnapshotWorker
<1>2. CASE ContentWorker
  BY <1>2, TypedSyncContent, TypedAddContentFinalizer, TypedAnnotateContent
     DEF ContentWorker
<1>3. CASE UNCHANGED vars
  BY <1>3 DEF vars, settings, known, queues, users, Typed, TypeOK, WorkHasSnapshot
<1> QED BY <1>1, <1>2, <1>3, TypedSidecar, TypedInformers, TypedUsers DEF Next

\* Every variable keeps its type, for any number of snapshots and of faults.
THEOREM TypeCorrect == Spec => []TypeOK
<1>1. Typed => TypeOK
  BY DEF Typed
<1> QED BY <1>1, TypedInit, TypedNext, PTL DEF Spec

-----------------------------------------------------------------------------
(* Agreement *)

LEMMA AgreementInit == Init => Agreement
  BY IdleWork
     DEF Init, Agreement, LatestUid, SourceFirst, InTurn, Protected, Held, DeletionKnown,
         Lasting, StatusOfOwn, BoundBothWays, NoUid

\* Steps that concern the content only: it stays the same one or goes, and a copy of it
\* is as old as before or as new as the content.
LEMMA AgreementContent ==
    ASSUME Typed, Typed', Agreement, UNCHANGED <<snap, snapKnown, sw, created>>,
           content' # Absent => content # Absent /\ content'.uid = content.uid,
           contentKnown' # Absent
             => \/ contentKnown # Absent /\ contentKnown'.uid = contentKnown.uid
                \/ content # Absent /\ contentKnown'.uid = content.uid
    PROVE  Agreement'
  BY DEF Agreement, LatestUid, SourceFirst, InTurn, Protected, Held, DeletionKnown,
         Lasting, StatusOfOwn, BoundBothWays

LEMMA AgreementContentWorker == ASSUME Typed, Typed', Agreement, ContentWorker PROVE Agreement'
<1> USE DEF NotContentWorker, users
<1>1. CASE SyncContent
  <2>1. contentKnown \in Content
    BY <1>1 DEF SyncContent, Typed, TypeOK
  <2>2. [contentKnown EXCEPT !.marked = TRUE].uid = contentKnown.uid
    BY <2>1, ContentUpdates
  <2> QED BY <1>1, <2>2, AgreementContent DEF SyncContent
<1>2. ASSUME NEW reply \in Replies, AddContentFinalizer(reply) PROVE Agreement'
  <2> DEFINE c == [content EXCEPT !.fin = TRUE]
  <2>1. reply # "error" => content \in Content
    BY <1>2, Answered DEF AddContentFinalizer, Typed, TypeOK
  <2>2. reply # "error" => content # Absent /\ c.uid = content.uid
    BY <2>1, ContentUpdates, ContentFields
  <2> QED BY <1>2, <2>2, AgreementContent DEF AddContentFinalizer, Replies
<1>3. ASSUME NEW reply \in Replies, AnnotateContent(reply) PROVE Agreement'
  BY <1>3, AnnotateContentMarks, TypedMark, AgreementContent DEF AnnotateContent
<1> QED BY <1>1, <1>2, <1>3 DEF ContentWorker

LEMMA AgreementSidecar == ASSUME Typed, Typed', Agreement, Sidecar PROVE Agreement'
<1> USE DEF NotSidecar, known, users
<1>1. CASE ReportStatus
  <2>1. content # Absent /\ [content EXCEPT !.ready = TRUE].uid = content.uid
    BY <1>1, ContentUpdates DEF ReportStatus, Typed, TypeOK
  <2> QED BY <1>1, <2>1, AgreementContent DEF ReportStatus
<1>2. CASE DeletePhysicalSnapshot
  <2>1. content # Absent /\ [content EXCEPT !.ready = FALSE].uid = content.uid
    BY <1>2, ContentUpdates DEF DeletePhysicalSnapshot, Typed, TypeOK
  <2> QED BY <1>2, <2>1, AgreementContent DEF DeletePhysicalSnapshot
<1>3. CASE ReleaseContent
  BY <1>3, AgreementContent DEF ReleaseContent
<1> QED BY <1>1, <1>2, <1>3 DEF Sidecar

\* The worker goes on with a snapshot that it read from its copy.
LEMMA AgreementSyncSnapshot ==
    ASSUME Typed, Typed', Agreement, SyncSnapshot PROVE Agreement'
<1>1. snapKnown \in Snapshot /\ contentKnown \in Content \cup {Absent} /\ ~snapKnown.deleting
  BY DEF SyncSnapshot, TakeSnapshot, Typed, TypeOK
<1>2. UNCHANGED <<snap, content, snapKnown, contentKnown, created>>
  BY DEF SyncSnapshot, NotSnapshotWorker, users
<1>3. \/ sw' = Idle
      \/ sw'.snap = snapKnown /\ sw'.pc \in {"unready", "addFinalizer"}
      \/ sw'.snap = snapKnown /\ sw'.pc \in {"bind", "status", "unready"}
           /\ "AsSource" \in snapKnown.fins
           /\ (sw'.pc = "status" => contentKnown # Absent /\ contentKnown.uid = snapKnown.uid)
  <2>1. CASE sw' = Failed(snapKnown)
    BY <1>1, <2>1 DEF Failed, Idle
  <2>2. CASE sw' = [Idle EXCEPT !.pc = "addFinalizer", !.snap = snapKnown]
    BY <1>1, <2>2 DEF Idle
  <2>3. CASE /\ sw' = SyncStep(snapKnown, contentKnown)
             /\ FinalizersToAdd(snapKnown, contentKnown) = {}
    <3>1. "AsSource" \in snapKnown.fins
      BY <2>3 DEF FinalizersToAdd
    <3> QED BY <1>1, <2>3, <3>1, SyncStepWork
  <2>4. CASE /\ sw' = SyncStep(snapKnown, contentKnown)
             /\ Misbound(snapKnown, contentKnown)
    <3>1. contentKnown # Absent /\ contentKnown.uid # snapKnown.uid
      BY <2>4 DEF Misbound
    <3>2. SyncStep(snapKnown, contentKnown) \in {Idle, Failed(snapKnown)}
      BY <2>4, <3>1 DEF SyncStep
    <3>3. Failed(snapKnown).snap = snapKnown /\ Failed(snapKnown).pc = "unready"
      BY <1>1 DEF Failed, Idle
    <3> QED BY <2>4, <3>2, <3>3
  <2> QED BY <2>1, <2>2, <2>3, <2>4 DEF SyncSnapshot
<1>4. (snapKnown.uid = created /\ contentKnown # Absent /\ contentKnown.uid = snapKnown.uid
         /\ content # Absent) => content.uid = snapKnown.uid
  BY DEF Agreement, LatestUid
<1>5. "AsSource" \in snapKnown.fins => Held(snapKnown) /\ snapKnown.uid = created
  BY <1>1, SnapshotFields DEF Agreement, Protected, LatestUid, Held
<1>6. (LatestUid /\ SourceFirst /\ BoundBothWays)'
  BY <1>2, <1>3, IdleWork DEF Agreement, LatestUid, SourceFirst, InTurn, BoundBothWays
<1>7. (Protected /\ StatusOfOwn)'
  BY <1>2, <1>3, <1>4, <1>5, IdleWork DEF Agreement, Protected, Held, StatusOfOwn
<1>8. DeletionKnown'
  BY <1>1, <1>2, <1>3, IdleWork DEF Agreement, DeletionKnown, Lasting
<1> QED BY <1>6, <1>7, <1>8 DEF Agreement

\* Whichever way the first finalizer is written, the snapshot has it afterwards.
LEMMA AgreementAddSnapshotFinalizer ==
    ASSUME Typed, Typed', Agreement, NEW reply \in Replies, AddSnapshotFinalizer(reply)
    PROVE  Agreement'
<1> DEFINE protected == [snap EXCEPT !.fins = @ \cup FinalizersToAdd(sw.snap, contentKnown)]
<1>1. sw.pc = "addFinalizer" /\ sw.snap \in Snapshot /\ ~sw.snap.deleting
      /\ contentKnown \in Content \cup {Absent}
  BY DEF AddSnapshotFinalizer, Typed, TypeOK, WorkHasSnapshot, Agreement, DeletionKnown
<1>2. UNCHANGED <<content, contentKnown, created>>
  BY DEF AddSnapshotFinalizer, NotSnapshotWorker, users
<1>3. reply # "error" => /\ snap \in Snapshot
                         /\ sw.snap.fins = {} => snap = sw.snap
  BY Answered DEF AddSnapshotFinalizer, Typed, TypeOK
<1>4. reply # "error" => Held(sw.snap) \/ snap = sw.snap
  <2>1. sw.snap.fins # {} => "AsSource" \in sw.snap.fins
    BY <1>1, SnapshotFields DEF Agreement, SourceFirst, InTurn
  <2> QED BY <1>1, <1>3, <2>1 DEF Agreement, Protected
<1>5. reply # "error" =>
        /\ Same(protected, snap) /\ protected.bound = snap.bound
        /\ protected.deleting = snap.deleting
        /\ protected.fins = snap.fins \cup FinalizersToAdd(sw.snap, contentKnown)
  <2> SUFFICES ASSUME reply # "error"
               PROVE  /\ Same(protected, snap) /\ protected.bound = snap.bound
                      /\ protected.deleting = snap.deleting
                      /\ protected.fins = snap.fins \cup FinalizersToAdd(sw.snap, contentKnown)
    OBVIOUS
  <2>1. snap.fins \cup FinalizersToAdd(sw.snap, contentKnown) \in SUBSET {"AsSource", "Bound"}
    BY <1>3, SnapshotFields DEF FinalizersToAdd
  <2> DEFINE f == snap.fins \cup FinalizersToAdd(sw.snap, contentKnown)
  <2>2. protected = [snap EXCEPT !.fins = f]
    OBVIOUS
  <2>3. f \in SUBSET {"AsSource", "Bound"}
    BY <2>1
  <2> HIDE DEF f
  <2>4. snap \in Snapshot
    BY <1>3
  <2>5. /\ Same(protected, snap) /\ protected.bound = snap.bound
        /\ protected.deleting = snap.deleting /\ protected.fins = f
    BY <2>2, <2>3, <2>4 DEF Same, Snapshot
  <2> QED BY <2>5 DEF f
<1>6. reply # "error" => protected.uid = sw.snap.uid /\ "AsSource" \in protected.fins
  BY <1>4, <1>5 DEF Held, Same, FinalizersToAdd
<1>7. \/ reply # "error" /\ snap' = protected
      \/ reply = "error" /\ snap' = snap
  BY DEF AddSnapshotFinalizer
<1>8. \/ reply = "ok" /\ snapKnown' = protected /\ sw' = SyncStep(sw.snap, contentKnown)
      \/ snapKnown' = snapKnown /\ sw' = Idle
  BY DEF AddSnapshotFinalizer, RetrySnapshot
<1> HIDE DEF protected
<1>9. \/ sw' = Idle
      \/ /\ reply = "ok" /\ sw'.snap = sw.snap /\ sw'.pc \in {"unready", "bind", "status"}
         /\ sw'.pc = "status" => contentKnown # Absent /\ contentKnown.uid = sw.snap.uid
  BY <1>1, <1>8, SyncStepWork
<1>10. reply # "error" => snap # Absent /\ protected # Absent /\ sw.snap.uid = created
  BY <1>3, <1>5, <1>6, SnapshotFields DEF Same, Agreement, LatestUid
<1>11. LatestUid'
  <2>1. created \in Nat
    BY UidsAssumption DEF Typed, TypeOK
  <2> QED BY <1>2, <1>6, <1>7, <1>8, <1>9, <1>10, <2>1, IdleWork DEF Agreement, LatestUid
<1>12. (SourceFirst /\ BoundBothWays)'
  BY <1>2, <1>5, <1>6, <1>7, <1>8, <1>9, <1>10, IdleWork
     DEF Agreement, SourceFirst, InTurn, BoundBothWays, Same
<1>13. Protected'
  BY <1>5, <1>6, <1>7, <1>8, <1>9, <1>10, IdleWork DEF Agreement, Protected, Held, Same
<1>14. StatusOfOwn'
  BY <1>2, <1>9, <1>10, IdleWork DEF Agreement, StatusOfOwn, LatestUid
<1>15. DeletionKnown'
  BY <1>1, <1>5, <1>7, <1>8, <1>9, <1>10, IdleWork DEF Agreement, DeletionKnown, Lasting, Same
<1> QED BY <1>11, <1>12, <1>13, <1>14, <1>15 DEF Agreement

\* The UID is written for the latest snapshot, whichever the content had.
LEMMA AgreementBindContent ==
    ASSUME Typed, Typed', Agreement, NEW reply \in Replies, BindContent(reply)
    PROVE  Agreement'
<1> DEFINE c == [content EXCEPT !.uid = sw.snap.uid]
<1>1. sw.pc = "bind" /\ sw.snap \in Snapshot /\ sw \in SnapshotWork
  BY DEF BindContent, Typed, TypeOK, WorkHasSnapshot
<1>2. Held(sw.snap) /\ sw.snap.uid = created /\ ~sw.snap.deleting
  BY <1>1 DEF Agreement, Protected, Held, LatestUid, DeletionKnown
<1>3. reply # "error" => content # Absent /\ c.uid = sw.snap.uid /\ c.ready \in BOOLEAN
  <2> SUFFICES ASSUME reply # "error"
               PROVE  content # Absent /\ c.uid = sw.snap.uid /\ c.ready \in BOOLEAN
    OBVIOUS
  <2>1. content # Absent /\ content \in Content
    BY Answered DEF BindContent, Typed, TypeOK
  <2>2. sw.snap.uid \in Uid
    BY <1>1, SnapshotFields
  <2> QED BY <2>1, <2>2, ContentUpdates, ContentFields
<1>4. UNCHANGED <<snap, snapKnown, created>>
  BY DEF BindContent, NotSnapshotWorker, users
<1>5. \/ reply # "error" /\ content' = c
      \/ reply = "error" /\ content' = content
  BY DEF BindContent
<1>6. \/ reply = "ok" /\ contentKnown' = c
         /\ sw' = [sw EXCEPT !.pc = "status", !.ready = c.ready]
      \/ contentKnown' = contentKnown /\ sw' = Idle
  BY DEF BindContent, RetrySnapshot
<1> HIDE DEF c
<1>7. \/ sw' = Idle
      \/ reply = "ok" /\ sw'.snap = sw.snap /\ sw'.pc = "status"
  <2>1. CASE reply = "ok" /\ sw' = [sw EXCEPT !.pc = "status", !.ready = c.ready]
    BY <1>1, <2>1 DEF SnapshotWork
  <2> QED BY <1>6, <2>1
<1>8. created \in Nat
  BY UidsAssumption DEF Typed, TypeOK
<1>9. (LatestUid /\ SourceFirst)'
  BY <1>2, <1>3, <1>4, <1>5, <1>6, <1>7, <1>8, IdleWork
     DEF Agreement, LatestUid, SourceFirst, InTurn
<1>10. (Protected /\ DeletionKnown)'
  BY <1>1, <1>2, <1>4, <1>7, IdleWork DEF Agreement, Protected, Held, DeletionKnown, Lasting
<1>11. (StatusOfOwn /\ BoundBothWays)'
  BY <1>2, <1>3, <1>4, <1>5, <1>6, <1>7, IdleWork
     DEF Agreement, StatusOfOwn, BoundBothWays, Held
<1> QED BY <1>9, <1>10, <1>11 DEF Agreement

\* The status is written to the snapshot that the content was bound to.
LEMMA AgreementUpdateSnapshotStatus ==
    ASSUME Typed, Typed', Agreement, NEW reply \in Replies, UpdateSnapshotStatus(reply)
    PROVE  Agreement'
<1> DEFINE s == [snap EXCEPT !.bound = TRUE, !.ready = sw.ready]
<1>1. sw.pc = "status" /\ Held(sw.snap) /\ ~sw.snap.deleting
  BY DEF UpdateSnapshotStatus, Agreement, Protected, DeletionKnown
<1>2. snap \in Snapshot /\ sw.ready \in BOOLEAN
  BY <1>1 DEF Held, Typed, TypeOK, SnapshotWork
<1>3. Same(s, snap) /\ s.fins = snap.fins /\ s.deleting = snap.deleting
  BY <1>2, SnapshotUpdates
<1>4. UNCHANGED <<content, contentKnown, snapKnown, created>>
  BY DEF UpdateSnapshotStatus, NotSnapshotWorker, users
<1>5. snap' \in {snap, s} /\ sw' = Idle
  BY DEF UpdateSnapshotStatus, RetrySnapshot
<1> HIDE DEF s
<1>6. s # Absent /\ snap # Absent
  BY <1>2, <1>3, SnapshotFields DEF Same
<1>7. (LatestUid /\ SourceFirst)'
  BY <1>3, <1>4, <1>5, <1>6, IdleWork DEF Agreement, LatestUid, SourceFirst, InTurn, Same
<1>8. (Protected /\ DeletionKnown)'
  BY <1>3, <1>4, <1>5, <1>6, IdleWork
     DEF Agreement, Protected, Held, DeletionKnown, Lasting, Same
<1>9. (StatusOfOwn /\ BoundBothWays)'
  BY <1>1, <1>3, <1>4, <1>5, <1>6, IdleWork
     DEF Agreement, StatusOfOwn, BoundBothWays, Held, Same
<1> QED BY <1>7, <1>8, <1>9 DEF Agreement

LEMMA AgreementMarkUnready ==
    ASSUME Typed, Typed', Agreement, NEW reply \in Replies, MarkUnready(reply)
    PROVE  Agreement'
<1> DEFINE s == [sw.snap EXCEPT !.ready = FALSE]
<1>1. sw.pc = "unready" /\ sw.snap \in Snapshot
  BY DEF MarkUnready, Typed, WorkHasSnapshot
<1>2. Same(s, sw.snap) /\ s.fins = sw.snap.fins /\ s.deleting = sw.snap.deleting
      /\ s.bound = sw.snap.bound
  BY <1>1, SnapshotUpdates
<1>3. UNCHANGED <<content, contentKnown, created>> /\ sw' = Idle
  BY DEF MarkUnready, RetrySnapshot, NotSnapshotWorker, users
<1>4. \/ snap' = s /\ snap = sw.snap /\ snapKnown' \in {snapKnown, s}
      \/ snap' = snap /\ snapKnown' = snapKnown
  BY Answered DEF MarkUnready, Typed, Replies
<1> HIDE DEF s
<1>5. s # Absent /\ sw.snap # Absent
  BY <1>1, <1>2, SnapshotFields DEF Same
<1>6. (LatestUid /\ SourceFirst)'
  BY <1>2, <1>3, <1>4, <1>5, IdleWork DEF Agreement, LatestUid, SourceFirst, InTurn, Same
<1>7. (Protected /\ DeletionKnown)'
  BY <1>2, <1>3, <1>4, <1>5, IdleWork
     DEF Agreement, Protected, Held, DeletionKnown, Lasting, Same
<1>8. (StatusOfOwn /\ BoundBothWays)'
  BY <1>2, <1>3, <1>4, <1>5, IdleWork DEF Agreement, StatusOfOwn, BoundBothWays, Same
<1> QED BY <1>6, <1>7, <1>8 DEF Agreement

\* Steps of the worker that leave the snapshot alone, and end or go on with it.
LEMMA AgreementDeletion ==
    ASSUME Typed, Typed', Agreement, UNCHANGED <<snap, snapKnown, created>>,
           content' # Absent => content # Absent /\ content'.uid = content.uid,
           contentKnown' # Absent
             => \/ contentKnown # Absent /\ contentKnown'.uid = contentKnown.uid
                \/ content # Absent /\ contentKnown'.uid = content.uid,
           NEW STATE s, s \in Snapshot, s.deleting, s = snapKnown \/ s = sw.snap,
           sw.pc \in {"annotate", "delete", "release"} \/ s = snapKnown,
           sw' = Idle \/ (sw'.snap = s /\ sw'.pc \in {"annotate", "delete", "release"})
    PROVE  Agreement'
<1>1. s # Absent
  BY SnapshotFields
<1>2. (LatestUid /\ SourceFirst)'
  BY <1>1, IdleWork DEF Agreement, LatestUid, SourceFirst, InTurn
<1>3. (Protected /\ DeletionKnown)'
  BY <1>1, IdleWork DEF Agreement, Protected, Held, DeletionKnown, Lasting
<1>4. (StatusOfOwn /\ BoundBothWays)'
  BY <1>1, IdleWork DEF Agreement, StatusOfOwn, BoundBothWays
<1> QED BY <1>2, <1>3, <1>4 DEF Agreement

LEMMA AgreementSyncDeletingSnapshot ==
    ASSUME Typed, Typed', Agreement, SyncDeletingSnapshot PROVE Agreement'
<1> DEFINE found == PointsBack(snapKnown, contentKnown)
           w == [Idle EXCEPT !.snap = snapKnown, !.found = found]
           c == [contentKnown EXCEPT !.marked = TRUE]
<1>1. snapKnown \in Snapshot /\ snapKnown.deleting
  BY DEF SyncDeletingSnapshot, TakeSnapshot, Typed, TypeOK
<1>2. found \in BOOLEAN /\ (found => contentKnown \in Content)
  BY <1>1, SnapshotFields DEF PointsBack, Typed, TypeOK
<1>3. w \in SnapshotWork /\ w.snap = snapKnown
  BY <1>1, <1>2 DEF Idle, SnapshotWork
<1>4. /\ [w EXCEPT !.pc = "annotate"].snap = snapKnown
      /\ [w EXCEPT !.pc = "annotate"].pc = "annotate"
  BY <1>3, WorkUpdates
<1>5. AfterMark(w).snap = snapKnown /\ AfterMark(w).pc \in {"delete", "release"}
  BY <1>3, AfterMarkWork
<1>6. sw' = Idle \/ (sw'.snap = snapKnown /\ sw'.pc \in {"annotate", "delete", "release"})
  BY <1>4, <1>5 DEF SyncDeletingSnapshot
<1>7. \/ contentKnown' = contentKnown
      \/ contentKnown' = c /\ contentKnown \in Content
  BY <1>2 DEF SyncDeletingSnapshot
<1>8. contentKnown \in Content => contentKnown # Absent /\ c.uid = contentKnown.uid
  BY ContentUpdates, ContentFields
<1>9. UNCHANGED <<snap, snapKnown, content, created>>
  BY DEF SyncDeletingSnapshot, NotSnapshotWorker, users
<1> HIDE DEF c
<1> QED BY <1>1, <1>6, <1>7, <1>8, <1>9, AgreementDeletion

LEMMA AgreementMarkContent ==
    ASSUME Typed, Typed', Agreement, NEW reply \in Replies, MarkContent(reply)
    PROVE  Agreement'
<1>1. sw.pc = "annotate" /\ sw.snap \in Snapshot /\ sw.snap.deleting /\ sw \in SnapshotWork
  BY DEF MarkContent, Typed, TypeOK, WorkHasSnapshot, Agreement, DeletionKnown
<1>2. UNCHANGED <<snap, snapKnown, created>>
  BY DEF MarkContent, NotSnapshotWorker, users
<1>3. sw' = Idle \/ (sw'.snap = sw.snap /\ sw'.pc \in {"delete", "release"})
  BY <1>1, MarkContentMarks, AfterMarkWork DEF RetrySnapshot
<1> QED BY <1>1, <1>2, <1>3, MarkContentMarks, TypedMark, AgreementDeletion

LEMMA AgreementDeleteContent ==
    ASSUME Typed, Typed', Agreement, NEW reply \in Replies, DeleteContent(reply)
    PROVE  Agreement'
<1>1. sw.pc = "delete" /\ sw.snap \in Snapshot /\ sw.snap.deleting /\ sw \in SnapshotWork
  BY DEF DeleteContent, Typed, TypeOK, WorkHasSnapshot, Agreement, DeletionKnown
<1>2. UNCHANGED <<snap, snapKnown, contentKnown, created>>
  BY DEF DeleteContent, NotSnapshotWorker, users
<1>3. content' # Absent => content # Absent /\ content'.uid = content.uid
  BY Answered, AskedContent DEF DeleteContent, Typed
<1>4. sw' = Idle \/ sw' = [sw EXCEPT !.pc = "release"]
  BY DEF DeleteContent, RetrySnapshot
<1>5. sw' = Idle \/ (sw'.snap = sw.snap /\ sw'.pc = "release")
  BY <1>1, <1>4, WorkUpdates
<1> QED BY <1>1, <1>2, <1>3, <1>5, AgreementDeletion

\* The finalizers are taken from the copy of a snapshot that is deleted, and only when
\* nothing else has changed: no later work relies on them.
LEMMA AgreementReleaseSnapshot ==
    ASSUME Typed, Typed', Agreement, NEW reply \in Replies, ReleaseSnapshot(reply)
    PROVE  Agreement'
<1> DEFINE fins == sw.snap.fins \ (IF KeepsBound(sw) THEN {"AsSource"} ELSE {"AsSource", "Bound"})
           s == [sw.snap EXCEPT !.fins = fins]
<1>1. sw.pc = "release" /\ sw.snap \in Snapshot /\ sw.snap.deleting
      /\ (snapKnown # Absent /\ snapKnown.uid = sw.snap.uid => snapKnown.deleting)
  BY DEF ReleaseSnapshot, Typed, WorkHasSnapshot, Agreement, DeletionKnown
<1>2. Same(s, sw.snap) /\ s.bound = sw.snap.bound
  BY <1>1, ReleasedFinalizers, SnapshotUpdates
<1>3. UNCHANGED <<content, contentKnown, created>> /\ sw' = Idle
  BY DEF ReleaseSnapshot, RetrySnapshot, NotSnapshotWorker, users
<1>4. \/ snap' = KeepSnapshot(s) /\ snap = sw.snap /\ snapKnown' \in {snapKnown, s}
      \/ snap' = snap /\ snapKnown' = snapKnown
  BY Answered DEF ReleaseSnapshot, RetrySnapshot, Typed, Replies
<1>5. KeepSnapshot(s) \in {Absent, s}
  BY DEF KeepSnapshot
<1> HIDE DEF s
<1>6. s # Absent /\ sw.snap # Absent /\ s.deleting /\ s.uid = sw.snap.uid
  BY <1>1, <1>2, SnapshotFields DEF Same
<1>7. (LatestUid /\ SourceFirst)'
  BY <1>2, <1>3, <1>4, <1>5, <1>6, IdleWork DEF Agreement, LatestUid, SourceFirst, InTurn
<1>8. Protected'
  BY <1>1, <1>3, <1>4, <1>5, <1>6, IdleWork DEF Agreement, Protected, Held
<1>9. DeletionKnown'
  BY <1>1, <1>3, <1>4, <1>5, <1>6, IdleWork DEF Agreement, DeletionKnown, Lasting
<1>10. (StatusOfOwn /\ BoundBothWays)'
  BY <1>2, <1>3, <1>4, <1>5, <1>6, IdleWork DEF Agreement, StatusOfOwn, BoundBothWays
<1> QED BY <1>7, <1>8, <1>9, <1>10 DEF Agreement

LEMMA AgreementForgetSnapshot ==
    ASSUME Typed, Typed', Agreement, ForgetSnapshot PROVE Agreement'
  BY DEF ForgetSnapshot, users, Agreement, LatestUid, SourceFirst, InTurn, Protected, Held,
         DeletionKnown, Lasting, StatusOfOwn, BoundBothWays

\* A copy is replaced by what is there.
LEMMA AgreementInformers ==
    ASSUME Typed, Typed', Agreement, DeliverSnapshot \/ DeliverContent \/ Resync \/ RestartController
    PROVE  Agreement'
<1> created \in Nat
  BY UidsAssumption DEF Typed, TypeOK
<1> sw.pc # "idle" => sw.snap # Absent
  BY AbsentAssumption DEF Typed, WorkHasSnapshot
<1>1. CASE DeliverSnapshot
  <2>1. UNCHANGED <<snap, content, contentKnown, sw, created>>
    BY <1>1 DEF DeliverSnapshot, users
  <2>2. snapKnown' = snapKnown \/ (snapKnown' = snap /\ snap # Absent)
    BY <1>1 DEF DeliverSnapshot
  <2>3. LatestUid' /\ SourceFirst'
    BY <2>1, <2>2 DEF Agreement, LatestUid, SourceFirst, InTurn
  <2>4. Protected'
    BY <2>1, <2>2 DEF Agreement, Protected, Held
  <2>5. DeletionKnown'
    BY <2>1, <2>2 DEF Agreement, DeletionKnown, Lasting
  <2>6. StatusOfOwn' /\ BoundBothWays'
    BY <2>1 DEF Agreement, StatusOfOwn, BoundBothWays
  <2> QED BY <2>3, <2>4, <2>5, <2>6 DEF Agreement
<1>2. CASE DeliverContent
  BY <1>2, AgreementContent DEF DeliverContent, users
<1>3. CASE Resync
  BY <1>3, AgreementContent DEF Resync, known, users
<1>4. CASE RestartController
  <2>1. /\ UNCHANGED <<snap, content, created>> /\ sw' = Idle
        /\ snapKnown' = snap /\ contentKnown' = content
    BY <1>4 DEF RestartController, users
  <2>2. LatestUid' /\ SourceFirst'
    BY <2>1, IdleWork DEF Agreement, LatestUid, SourceFirst, InTurn
  <2>3. Protected' /\ StatusOfOwn' /\ BoundBothWays'
    BY <2>1, IdleWork DEF Agreement, Protected, Held, StatusOfOwn, BoundBothWays
  <2>4. DeletionKnown'
    BY <2>1, IdleWork DEF Agreement, DeletionKnown, Lasting
  <2> QED BY <2>2, <2>3, <2>4 DEF Agreement
<1> QED BY <1>1, <1>2, <1>3, <1>4

LEMMA AgreementUserCreatesSnapshot ==
    ASSUME Typed, Typed', Agreement, UserCreatesSnapshot PROVE Agreement'
<1>1. created \in Nat /\ created' = created + 1 /\ created' \in Uid
  BY UidsAssumption DEF UserCreatesSnapshot, Typed, TypeOK, Uid
<1>2. /\ snap = Absent /\ snap'.uid = created' /\ snap'.fins = {} /\ ~snap'.bound
      /\ ~snap'.deleting
  BY <1>1, NewSnapshotType DEF UserCreatesSnapshot
<1>3. UNCHANGED <<snapKnown, sw, content, contentKnown>>
  BY DEF UserCreatesSnapshot, known
<1>4. /\ snapKnown # Absent => snapKnown.uid \in Nat
      /\ sw.snap # Absent => sw.snap.uid \in Nat
      /\ content # Absent => content.uid \in Nat
      /\ contentKnown # Absent => contentKnown.uid \in Nat
  BY SnapshotFields, ContentFields, UidsAreNumbers DEF Typed, TypeOK, SnapshotWork
<1>5. LatestUid'
  BY <1>1, <1>2, <1>3, <1>4 DEF Agreement, LatestUid
<1>6. (SourceFirst /\ Protected /\ StatusOfOwn /\ BoundBothWays)'
  BY <1>2, <1>3
     DEF Agreement, SourceFirst, InTurn, Protected, Held, StatusOfOwn, BoundBothWays
<1>7. DeletionKnown'
  BY <1>1, <1>2, <1>3, <1>4 DEF Agreement, DeletionKnown, Lasting, LatestUid
<1> QED BY <1>5, <1>6, <1>7 DEF Agreement

LEMMA AgreementUserDeletesSnapshot ==
    ASSUME Typed, Typed', Agreement, UserDeletesSnapshot PROVE Agreement'
<1> DEFINE s == [snap EXCEPT !.deleting = TRUE]
<1>1. snap \in Snapshot /\ snap # Absent /\ ~snap.deleting
  BY DEF UserDeletesSnapshot, Typed, TypeOK
<1>2. /\ s.uid = snap.uid /\ s.fins = snap.fins /\ s.bound = snap.bound /\ s.deleting
      /\ s # Absent
  BY <1>1, SnapshotUpdates, SnapshotFields DEF Same
<1>3. snap' = s \/ (snap' = Absent /\ snap.fins = {})
  BY <1>2 DEF UserDeletesSnapshot, KeepSnapshot
<1>4. UNCHANGED <<snapKnown, sw, content, contentKnown, created>>
  BY DEF UserDeletesSnapshot, known
<1> HIDE DEF s
<1>5. (LatestUid /\ SourceFirst /\ StatusOfOwn /\ BoundBothWays)'
  BY <1>1, <1>2, <1>3, <1>4
     DEF Agreement, LatestUid, SourceFirst, InTurn, StatusOfOwn, BoundBothWays
<1>6. (Protected /\ DeletionKnown)'
  BY <1>1, <1>2, <1>3, <1>4 DEF Agreement, Protected, Held, DeletionKnown, Lasting
<1> QED BY <1>5, <1>6 DEF Agreement

LEMMA AgreementAdminDeletesContent ==
    ASSUME Typed, Typed', Agreement, AdminDeletesContent PROVE Agreement'
  BY AskedContent, AgreementContent DEF AdminDeletesContent, known, users

LEMMA AgreementNext == Typed /\ Agreement /\ [Next]_vars => Agreement'
<1> SUFFICES ASSUME Typed, Agreement, [Next]_vars PROVE Agreement'
  OBVIOUS
<1>1. Typed'
  BY TypedNext
<1>2. CASE SnapshotWorker
  BY <1>1, <1>2, AgreementSyncSnapshot, AgreementSyncDeletingSnapshot,
     AgreementForgetSnapshot, AgreementAddSnapshotFinalizer, AgreementBindContent,
     AgreementUpdateSnapshotStatus, AgreementMarkUnready, AgreementMarkContent,
     AgreementDeleteContent, AgreementReleaseSnapshot DEF SnapshotWorker
<1>3. CASE Users
  BY <1>1, <1>3, AgreementUserCreatesSnapshot, AgreementUserDeletesSnapshot,
     AgreementAdminDeletesContent DEF Users
<1>4. CASE UNCHANGED vars
  BY <1>4 DEF vars, known, users, Agreement, LatestUid, SourceFirst, InTurn, Protected,
              Held, DeletionKnown, Lasting, StatusOfOwn, BoundBothWays
<1> QED BY <1>1, <1>2, <1>3, <1>4, AgreementContentWorker, AgreementSidecar,
           AgreementInformers DEF Next

\* A snapshot whose status names the content is the one the content points to, UID and
\* all (checkandBindSnapshotContent, updateSnapshotStatus), for any number of snapshots
\* of the name and any faults.
THEOREM BoundBothWaysCorrect == Spec => []BoundBothWays
<1>1. Typed /\ Agreement => BoundBothWays
  BY DEF Agreement
<1> QED BY <1>1, TypedInit, AgreementInit, TypedNext, AgreementNext, PTL DEF Spec

-----------------------------------------------------------------------------
(* For its owner *)

\* A deletion timestamp is a user's request.
AskedFor(s) == s # Absent /\ s.deleting => s.uid \in asked

\* A content names a snapshot before it has its finalizer, and has that before it waits
\* for the sidecar.
NamedFirst ==
    /\ content # Absent => /\ content.deleting => content.fin
                           /\ content.fin => content.uid # NoUid
    /\ content # Absent /\ cw = "addFinalizer" => content.uid # NoUid
    /\ content # Absent /\ contentKnown # Absent /\ contentKnown.uid # NoUid
         => content.uid # NoUid

\* The copy of the snapshot is not older than the one being worked on, and a copy of the
\* content that names it is right.
UidKnown ==
    /\ sw.pc # "idle" => snapKnown # Absent /\ snapKnown.uid >= sw.snap.uid
    /\ content # Absent /\ contentKnown # Absent /\ snapKnown # Absent
         => (contentKnown.uid = snapKnown.uid => content.uid = contentKnown.uid)

\* The mark is at the server, or on its way.
Marking == content.marked \/ cw = "annotate" \/ sw.pc = "annotate"

MarkedForOwner ==
    content # Absent /\ Marking
      => /\ content.uid \in asked
         /\ contentKnown # Absent /\ contentKnown.uid # NoUid
         /\ sw.pc = "bind" => content.uid = sw.snap.uid

Owned == /\ AskedFor(snap) /\ AskedFor(snapKnown) /\ AskedFor(sw.snap)
         /\ NamedFirst /\ UidKnown /\ MarkedForOwner

-----------------------------------------------------------------------------
(* The content first *)

\* A binding that the status shows is never undone, and is known.
BoundLasts(s) == s # Absent /\ s.bound /\ snap # Absent /\ snap.uid = s.uid => snap.bound
BoundKnown ==
    /\ BoundLasts(snapKnown) /\ BoundLasts(sw.snap)
    /\ content # Absent /\ snap # Absent /\ snap.bound
         => contentKnown # Absent /\ contentKnown.uid = snap.uid
    /\ content # Absent /\ sw.pc = "status"
         => contentKnown # Absent /\ contentKnown.uid = sw.snap.uid

\* The source finalizer is there before the binding and until the deletion.
SourceOfBound == snap # Absent /\ snap.bound /\ ~snap.deleting => "AsSource" \in snap.fins

Going == content = Absent \/ content.deleting

\* What the worker knows when it lets the snapshot go.
ContentAsked ==
    /\ sw.pc \in {"annotate", "delete"} => sw.found
    /\ sw.pc = "release" /\ policy = "Delete" /\ sw.found => Going
    /\ sw.pc = "release" /\ ~sw.found /\ sw.snap.bound /\ snap # Absent
         /\ snap.uid = sw.snap.uid => content = Absent

Ordered == BoundKnown /\ SourceOfBound /\ ContentAsked

-----------------------------------------------------------------------------
(* Effects of the steps on the content *)

LEMMA ContentKept ==
    ASSUME NEW STATE c, c \in Content
    PROVE  /\ LET d == [c EXCEPT !.marked = TRUE]
              IN d \in Content /\ d.uid = c.uid /\ d.fin = c.fin /\ d.deleting = c.deleting
           /\ LET d == [c EXCEPT !.fin = TRUE]
              IN d \in Content /\ d.uid = c.uid /\ d.fin /\ d.marked = c.marked
                 /\ d.deleting = c.deleting
           /\ LET d == [c EXCEPT !.deleting = TRUE]
              IN d \in Content /\ d.uid = c.uid /\ d.fin = c.fin /\ d.marked = c.marked
                 /\ d.deleting
           /\ \A b \in BOOLEAN :
                 LET d == [c EXCEPT !.ready = b]
                 IN d \in Content /\ d.uid = c.uid /\ d.fin = c.fin /\ d.marked = c.marked
                    /\ d.deleting = c.deleting
           /\ \A u \in Uid :
                 LET d == [c EXCEPT !.uid = u]
                 IN d \in Content /\ d.uid = u /\ d.fin = c.fin /\ d.marked = c.marked
                    /\ d.deleting = c.deleting
  BY DEF Content

\* The same content, and what has come to be of it.
Lineage ==
    content' # Absent
      => /\ content # Absent /\ content'.uid = content.uid
         /\ content.deleting => content'.deleting
         /\ content'.deleting => content.deleting \/ content'.fin
         /\ content.fin => content'.fin
         /\ content'.fin => content.fin \/ cw = "addFinalizer"
         /\ content'.marked => Marking

\* The copy is of the same content, or as new as the content.
KnownKept ==
    content' # Absent
      => contentKnown' = contentKnown
         \/ /\ contentKnown' # Absent
            /\ \/ contentKnown # Absent /\ contentKnown'.uid = contentKnown.uid
               \/ contentKnown'.uid = content'.uid

\* What makes a worker mark a content.
Due == /\ contentKnown # Absent /\ snapKnown # Absent
       /\ contentKnown.uid = snapKnown.uid /\ snapKnown.deleting

ContentWorkerGoesOn ==
    \/ cw' = cw \/ cw' = "idle"
    \/ cw' = "addFinalizer" /\ contentKnown # Absent /\ contentKnown.uid # NoUid
    \/ cw' = "annotate" /\ Due

LEMMA SameLineage ==
    ASSUME Typed, content' = content \/ content' = Absent PROVE Lineage
  BY DEF Lineage, Marking

LEMMA MarkEffect ==
    ASSUME Typed, NEW reply \in Replies, Mark(reply, TRUE, TRUE), cw = "annotate" \/ sw.pc = "annotate"
    PROVE  Lineage /\ KnownKept /\ (content' = Absent => content = Absent)
<1> DEFINE c == [content EXCEPT !.marked = TRUE]
<1>1. /\ reply # "error" => content # Absent
      /\ content' = IF reply = "error" THEN content ELSE c
      /\ reply = "ok" => contentKnown' = c
      /\ reply # "ok" => contentKnown' = contentKnown
  <2>1. Answer(content # Absent, reply)
    BY DEF Mark
  <2>2. content' = IF reply = "error" THEN content ELSE c
    BY DEF Mark
  <2>3. /\ reply = "ok" => contentKnown' = c
        /\ reply # "ok" => contentKnown' = contentKnown
    BY DEF Mark
  <2> QED BY <2>1, <2>2, <2>3 DEF Answer
<1>2. content # Absent => c \in Content /\ c.uid = content.uid /\ c.fin = content.fin
                          /\ c.deleting = content.deleting /\ c # Absent
  BY ContentKept, ContentFields DEF Typed, TypeOK
<1> HIDE DEF c
<1> QED BY <1>1, <1>2 DEF Lineage, KnownKept, Marking, Replies

LEMMA AskEffect ==
    ASSUME Typed, content # Absent, AskContentToGo
    PROVE  Lineage /\ (content' = Absent \/ content'.deleting)
<1> DEFINE c == [content EXCEPT !.deleting = TRUE]
<1>1. content' = KeepContent(c)
  BY DEF AskContentToGo
<1>2. c \in Content /\ c.uid = content.uid /\ c.fin = content.fin
      /\ c.marked = content.marked /\ c.deleting /\ content \in Content
  BY ContentKept DEF Typed, TypeOK
<1> HIDE DEF c
<1>3. content' = Absent \/ (content' = c /\ c.fin)
  BY <1>1, <1>2 DEF KeepContent
<1> QED BY <1>2, <1>3 DEF Lineage, Marking

LEMMA ContentWorkerEffect ==
    ASSUME Typed, ContentWorker
    PROVE  /\ UNCHANGED <<snap, snapKnown, sw, asked, created, policy, storage>>
           /\ Lineage /\ KnownKept /\ ContentWorkerGoesOn
           /\ content' = Absent => content = Absent
<1> USE DEF NotContentWorker, users, settings
<1>1. CASE SyncContent
  <2>1. contentKnown \in Content /\ contentKnown # Absent
    BY <1>1 DEF SyncContent, Typed, TypeOK
  <2>2. /\ [contentKnown EXCEPT !.marked = TRUE].uid = contentKnown.uid
        /\ [contentKnown EXCEPT !.marked = TRUE] # Absent
    BY <2>1, ContentKept, ContentFields
  <2>3. UNCHANGED <<snap, snapKnown, sw, asked, created, policy, storage, content>>
    BY <1>1 DEF SyncContent
  <2>4. Lineage
    BY <2>3, SameLineage
  <2>5. KnownKept
    BY <1>1, <2>1, <2>2 DEF SyncContent, KnownKept
  <2>6. ContentWorkerGoesOn
    BY <1>1, <2>1 DEF SyncContent, ContentWorkerGoesOn, Due
  <2> QED BY <2>3, <2>4, <2>5, <2>6
<1>2. ASSUME NEW reply \in Replies, AddContentFinalizer(reply)
      PROVE  /\ UNCHANGED <<snap, snapKnown, sw, asked, created, policy, storage>>
             /\ Lineage /\ KnownKept /\ ContentWorkerGoesOn
             /\ content' = Absent => content = Absent
  <2> DEFINE c == [content EXCEPT !.fin = TRUE]
  <2>1. /\ cw = "addFinalizer" /\ cw' = "idle"
        /\ UNCHANGED <<snap, snapKnown, sw, asked, created, policy, storage>>
        /\ reply # "error" => content # Absent
        /\ content' = IF reply = "error" THEN content ELSE c
        /\ contentKnown' = IF reply = "ok" THEN c ELSE contentKnown
    BY <1>2 DEF AddContentFinalizer, RetryContent, Answer
  <2>2. content # Absent => c \in Content /\ c.uid = content.uid /\ c.fin
                            /\ c.deleting = content.deleting /\ c.marked = content.marked
                            /\ c # Absent
    BY ContentKept, ContentFields DEF Typed, TypeOK
  <2> HIDE DEF c
  <2> QED BY <2>1, <2>2 DEF Lineage, KnownKept, Marking, ContentWorkerGoesOn
<1>3. ASSUME NEW reply \in Replies, AnnotateContent(reply)
      PROVE  /\ UNCHANGED <<snap, snapKnown, sw, asked, created, policy, storage>>
             /\ Lineage /\ KnownKept /\ ContentWorkerGoesOn
             /\ content' = Absent => content = Absent
  <2>1. cw = "annotate" /\ UNCHANGED <<snap, snapKnown, sw, asked, created, policy, storage>>
    BY <1>3 DEF AnnotateContent
  <2>2. cw' = "idle"
    BY <1>3, AnnotateContentMarks DEF RetryContent
  <2> QED BY <1>3, <2>1, <2>2, AnnotateContentMarks, MarkEffect DEF ContentWorkerGoesOn
<1> QED BY <1>1, <1>2, <1>3 DEF ContentWorker

LEMMA SidecarEffect ==
    ASSUME Typed, Sidecar
    PROVE  /\ UNCHANGED <<snap, snapKnown, contentKnown, sw, cw, asked, created, policy>>
           /\ Lineage
<1>1. UNCHANGED <<snap, snapKnown, contentKnown, sw, cw, asked, created, policy>>
  BY DEF Sidecar, ReportStatus, DeletePhysicalSnapshot, ReleaseContent, NotSidecar,
         known, users, settings
<1>2. CASE ReleaseContent
  BY <1>1, <1>2, SameLineage DEF ReleaseContent
<1>3. CASE ReportStatus \/ DeletePhysicalSnapshot
  <2>1. content \in Content /\ content # Absent
    BY <1>3 DEF ReportStatus, DeletePhysicalSnapshot, Typed, TypeOK
  <2>2. PICK b \in BOOLEAN : content' = [content EXCEPT !.ready = b]
    BY <1>3 DEF ReportStatus, DeletePhysicalSnapshot
  <2>3. content'.uid = content.uid /\ content'.fin = content.fin
        /\ content'.deleting = content.deleting /\ content'.marked = content.marked
    BY <2>1, <2>2, ContentKept
  <2> QED BY <1>1, <2>1, <2>3 DEF Lineage, Marking
<1> QED BY <1>1, <1>2, <1>3 DEF Sidecar

-----------------------------------------------------------------------------
(* Effects of the steps on the snapshot *)

\* The same snapshot, and what has come to be of it.
SnapshotLineage ==
    snap' # Absent
      => /\ snap # Absent /\ snap'.uid = snap.uid
         /\ snap.bound => snap'.bound
         /\ snap'.bound => snap.bound \/ (sw.pc = "status" /\ Held(sw.snap))
         /\ snap.deleting => snap'.deleting
         /\ snap'.deleting => snap.deleting \/ snap.uid \in asked'
         /\ "AsSource" \in snap.fins /\ ~snap'.deleting => "AsSource" \in snap'.fins

\* The copy stays, or is as new as the snapshot.
SnapshotKnownKept ==
    \/ snapKnown' = snapKnown
    \/ snapKnown' = Absent /\ sw'.pc = "idle"
    \/ /\ snap # Absent /\ snapKnown' # Absent /\ snapKnown'.uid = snap.uid
       /\ snapKnown'.deleting => snap.deleting
       /\ snapKnown'.bound => snap.bound

\* The worker goes on to bind.
Binds ==
    \/ sw' = sw \/ sw' = Idle
    \/ /\ sw'.pc \in {"addFinalizer", "bind", "status", "unready"}
       /\ ~sw'.snap.deleting
       /\ \/ sw'.snap = snapKnown /\ snapKnown # Absent
          \/ sw'.snap = sw.snap /\ sw.pc # "idle"
       /\ sw'.pc = "bind" => contentKnown # Absent /\ contentKnown.uid \in {NoUid, sw'.snap.uid}
       /\ sw'.pc = "status" => contentKnown # Absent /\ contentKnown.uid = sw'.snap.uid
       /\ contentKnown' = contentKnown

SnapshotStep ==
    /\ UNCHANGED <<content, created, policy, storage>> /\ cw' \in {cw, "idle"}
    /\ asked \subseteq asked'
    /\ KnownKept /\ SnapshotLineage /\ SnapshotKnownKept /\ Binds

\* The worker goes on to delete.
Deletes ==
    \/ sw' = sw \/ sw' = Idle
    \/ /\ sw'.pc \in {"annotate", "delete", "release"}
       /\ sw'.snap = snapKnown /\ snapKnown # Absent /\ snapKnown.deleting
       /\ sw'.found = PointsBack(snapKnown, contentKnown)
       /\ sw'.pc # "release" => sw'.found
       /\ sw'.pc = "release" => ~sw'.found \/ policy # "Delete"
    \/ /\ sw.pc = "annotate" /\ sw'.pc \in {"delete", "release"}
       /\ sw'.snap = sw.snap /\ sw'.found = sw.found
       /\ sw'.pc = "release" => ~sw.found \/ policy # "Delete"
    \/ /\ sw.pc = "delete" /\ sw'.pc = "release"
       /\ sw'.snap = sw.snap /\ sw'.found = sw.found
       /\ content' = Absent \/ content'.deleting

ContentStep ==
    /\ UNCHANGED <<snap, snapKnown, created, asked, policy>>
    /\ Lineage /\ KnownKept /\ ContentWorkerGoesOn /\ Deletes

LEMMA SyncStepBinds ==
    ASSUME NEW STATE s, s \in Snapshot, NEW STATE c, c \in Content \cup {Absent},
           SyncStep(s, c).pc = "bind"
    PROVE  c # Absent /\ c.uid \in {NoUid, s.uid}
<1>1. Failed(s).pc = "unready" /\ Idle.pc = "idle"
  BY DEF Failed, Idle
<1>2. c # Absent /\ ~Misbound(s, c)
  BY <1>1 DEF SyncStep
<1> QED BY <1>2 DEF Misbound

LEMMA SyncSnapshotEffect == ASSUME Typed, SyncSnapshot PROVE SnapshotStep
<1>1. snapKnown \in Snapshot /\ snapKnown # Absent /\ ~snapKnown.deleting
      /\ contentKnown \in Content \cup {Absent}
  BY DEF SyncSnapshot, TakeSnapshot, Typed, TypeOK
<1>2. UNCHANGED <<snap, content, snapKnown, contentKnown, created, policy, storage, cw, asked>>
  BY DEF SyncSnapshot, NotSnapshotWorker, users, settings
<1> DEFINE w == [Idle EXCEPT !.pc = "addFinalizer", !.snap = snapKnown]
           next == SyncStep(snapKnown, contentKnown)
<1>3. sw' \in {Failed(snapKnown), w, next}
  BY DEF SyncSnapshot
<1>4. /\ Failed(snapKnown).pc = "unready" /\ Failed(snapKnown).snap = snapKnown
      /\ w.pc = "addFinalizer" /\ w.snap = snapKnown
  BY DEF Failed, Idle
<1>5. /\ next = Idle \/ (next.snap = snapKnown /\ next.pc \in {"unready", "bind", "status"})
      /\ next.pc = "status" => contentKnown # Absent /\ contentKnown.uid = snapKnown.uid
      /\ next.pc = "bind" => contentKnown # Absent /\ contentKnown.uid \in {NoUid, snapKnown.uid}
  <2>1. /\ next = Idle \/ (next.snap = snapKnown /\ next.pc \in {"unready", "bind", "status"})
        /\ next.pc = "status" => contentKnown # Absent /\ contentKnown.uid = snapKnown.uid
    BY <1>1, SyncStepWork
  <2>2. next.pc = "bind" => contentKnown # Absent /\ contentKnown.uid \in {NoUid, snapKnown.uid}
    BY <1>1, SyncStepBinds
  <2> QED BY <2>1, <2>2
<1> HIDE DEF w, next
<1>6. Binds
  <2>1. CASE sw' = Failed(snapKnown) \/ sw' = w
    <3>1. sw'.pc \in {"unready", "addFinalizer"} /\ sw'.snap = snapKnown
      BY <1>4, <2>1
    <3> QED BY <1>1, <1>2, <3>1 DEF Binds
  <2>2. CASE sw' = next
    BY <1>1, <1>2, <1>5, <2>2 DEF Binds
  <2> QED BY <1>3, <2>1, <2>2
<1> QED BY <1>2, <1>6 DEF SnapshotStep, KnownKept, SnapshotLineage, SnapshotKnownKept

LEMMA AddSnapshotFinalizerEffect ==
    ASSUME Typed, Agreement, NEW reply \in Replies, AddSnapshotFinalizer(reply)
    PROVE  SnapshotStep
<1> DEFINE protected == [snap EXCEPT !.fins = @ \cup FinalizersToAdd(sw.snap, contentKnown)]
<1>1. sw.pc = "addFinalizer" /\ sw.snap \in Snapshot /\ ~sw.snap.deleting
      /\ contentKnown \in Content \cup {Absent}
  BY DEF AddSnapshotFinalizer, Typed, TypeOK, WorkHasSnapshot, Agreement, DeletionKnown
<1>2. UNCHANGED <<content, contentKnown, created, policy, storage, cw, asked>>
  BY DEF AddSnapshotFinalizer, NotSnapshotWorker, users, settings
<1>3. reply # "error" => snap \in Snapshot
  BY Answered DEF AddSnapshotFinalizer, Typed, TypeOK
<1>4. snap \in Snapshot => /\ protected # Absent /\ protected.uid = snap.uid
                           /\ protected.bound = snap.bound
                           /\ protected.deleting = snap.deleting
                           /\ snap.fins \subseteq protected.fins
  <2> DEFINE f == snap.fins \cup FinalizersToAdd(sw.snap, contentKnown)
  <2>1. protected = [snap EXCEPT !.fins = f]
    OBVIOUS
  <2>2. snap \in Snapshot => f \in SUBSET {"AsSource", "Bound"} /\ snap.fins \subseteq f
    BY SnapshotFields DEF FinalizersToAdd
  <2> HIDE DEF f
  <2> SUFFICES ASSUME snap \in Snapshot
               PROVE  /\ protected # Absent /\ protected.uid = snap.uid
                      /\ protected.bound = snap.bound
                      /\ protected.deleting = snap.deleting
                      /\ snap.fins \subseteq protected.fins
    OBVIOUS
  <2>3. protected \in Snapshot /\ protected.uid = snap.uid /\ protected.bound = snap.bound
        /\ protected.deleting = snap.deleting /\ protected.fins = f
    BY <2>1, <2>2 DEF Snapshot
  <2> QED BY <2>2, <2>3, SnapshotFields
<1>5. snap' = IF reply = "error" THEN snap ELSE protected
  BY DEF AddSnapshotFinalizer
<1>6. \/ reply = "ok" /\ snapKnown' = protected /\ sw' = SyncStep(sw.snap, contentKnown)
      \/ snapKnown' = snapKnown /\ sw' = Idle
  BY DEF AddSnapshotFinalizer, RetrySnapshot
<1> HIDE DEF protected
<1>7. SnapshotLineage
  BY <1>3, <1>4, <1>5, SnapshotFields DEF SnapshotLineage
<1>8. SnapshotKnownKept
  BY <1>3, <1>4, <1>6, SnapshotFields DEF SnapshotKnownKept
<1>9. Binds
  BY <1>1, <1>2, <1>6, SyncStepWork, SyncStepBinds DEF Binds
<1> QED BY <1>2, <1>7, <1>8, <1>9 DEF SnapshotStep, KnownKept

LEMMA UpdateSnapshotStatusEffect ==
    ASSUME Typed, Agreement, NEW reply \in Replies, UpdateSnapshotStatus(reply)
    PROVE  SnapshotStep
<1> DEFINE s == [snap EXCEPT !.bound = TRUE, !.ready = sw.ready]
<1>1. sw.pc = "status" /\ Held(sw.snap)
  BY DEF UpdateSnapshotStatus, Agreement, Protected
<1>2. snap \in Snapshot /\ snap # Absent /\ sw.ready \in BOOLEAN
  BY <1>1 DEF Held, Typed, TypeOK, SnapshotWork
<1>3. s.uid = snap.uid /\ s.bound /\ s.deleting = snap.deleting /\ s.fins = snap.fins
  BY <1>2, SnapshotUpdates DEF Same
<1>4. /\ UNCHANGED <<content, contentKnown, snapKnown, created, policy, storage, cw, asked>>
      /\ snap' \in {snap, s} /\ sw' = Idle
  BY DEF UpdateSnapshotStatus, RetrySnapshot, NotSnapshotWorker, users, settings
<1> HIDE DEF s
<1> QED BY <1>1, <1>2, <1>3, <1>4
        DEF SnapshotStep, KnownKept, SnapshotLineage, SnapshotKnownKept, Binds

LEMMA MarkUnreadyEffect ==
    ASSUME Typed, NEW reply \in Replies, MarkUnready(reply) PROVE SnapshotStep
<1> DEFINE s == [sw.snap EXCEPT !.ready = FALSE]
<1>1. sw.snap \in Snapshot /\ sw.snap # Absent
  BY SnapshotFields DEF MarkUnready, Typed, WorkHasSnapshot
<1>2. /\ s \in Snapshot /\ s.uid = sw.snap.uid /\ s.bound = sw.snap.bound
      /\ s.deleting = sw.snap.deleting /\ s.fins = sw.snap.fins /\ s # Absent
  BY <1>1, SnapshotUpdates, SnapshotFields DEF Same
<1>3. /\ UNCHANGED <<content, contentKnown, created, policy, storage, cw, asked>>
      /\ reply # "error" => snap = sw.snap
      /\ snap' = IF reply = "error" THEN snap ELSE s
      /\ snapKnown' = IF reply = "ok" THEN s ELSE snapKnown
      /\ sw' = Idle
  BY DEF MarkUnready, Answer, RetrySnapshot, NotSnapshotWorker, users, settings
<1> HIDE DEF s
<1> QED BY <1>1, <1>2, <1>3
        DEF SnapshotStep, KnownKept, SnapshotLineage, SnapshotKnownKept, Binds

LEMMA ReleaseSnapshotEffect ==
    ASSUME Typed, Agreement, NEW reply \in Replies, ReleaseSnapshot(reply) PROVE SnapshotStep
<1> DEFINE fins == sw.snap.fins \ (IF KeepsBound(sw) THEN {"AsSource"} ELSE {"AsSource", "Bound"})
           s == [sw.snap EXCEPT !.fins = fins]
<1>1. sw.pc = "release" /\ sw.snap \in Snapshot /\ sw.snap # Absent /\ sw.snap.deleting
  BY SnapshotFields DEF ReleaseSnapshot, Typed, WorkHasSnapshot, Agreement, DeletionKnown
<1>2. /\ s \in Snapshot /\ s.uid = sw.snap.uid /\ s.bound = sw.snap.bound
      /\ s.deleting = sw.snap.deleting
  <2>1. fins \in SUBSET {"AsSource", "Bound"}
    BY <1>1, ReleasedFinalizers
  <2> HIDE DEF fins
  <2> QED BY <1>1, <2>1, SnapshotUpdates DEF Same
<1>3. /\ UNCHANGED <<content, contentKnown, created, policy, storage, cw, asked>>
      /\ reply # "error" => snap = sw.snap
      /\ snap' = IF reply = "error" THEN snap ELSE KeepSnapshot(s)
      /\ snapKnown' = IF reply = "ok" THEN s ELSE snapKnown
      /\ sw' = Idle
  BY DEF ReleaseSnapshot, Answer, RetrySnapshot, NotSnapshotWorker, users, settings
<1>4. KeepSnapshot(s) \in {Absent, s}
  BY DEF KeepSnapshot
<1>5. s # Absent
  BY <1>2, SnapshotFields
<1> HIDE DEF s
<1> QED BY <1>1, <1>2, <1>3, <1>4, <1>5
        DEF SnapshotStep, KnownKept, SnapshotLineage, SnapshotKnownKept, Binds

LEMMA SnapshotInformerEffect ==
    ASSUME Typed, ForgetSnapshot \/ DeliverSnapshot \/ RestartController PROVE SnapshotStep
<1>1. /\ UNCHANGED <<snap, content, created, policy, storage, asked>>
      /\ cw' \in {cw, "idle"}
  BY DEF ForgetSnapshot, DeliverSnapshot, RestartController, users, settings
<1>2. contentKnown' = contentKnown \/ contentKnown' = content
  BY DEF ForgetSnapshot, DeliverSnapshot, RestartController
<1>3. (sw' = sw /\ contentKnown' = contentKnown) \/ sw' = Idle
  BY DEF ForgetSnapshot, DeliverSnapshot, RestartController
<1>4. \/ snapKnown' = snapKnown
      \/ snapKnown' = Absent /\ sw'.pc = "idle"
      \/ snap # Absent /\ snapKnown' = snap
  BY IdleWork DEF ForgetSnapshot, DeliverSnapshot, RestartController
<1> QED BY <1>1, <1>2, <1>3, <1>4
        DEF SnapshotStep, KnownKept, SnapshotLineage, SnapshotKnownKept, Binds

LEMMA UserDeletesSnapshotEffect == ASSUME Typed, UserDeletesSnapshot PROVE SnapshotStep
<1> DEFINE s == [snap EXCEPT !.deleting = TRUE]
<1>1. snap \in Snapshot /\ snap # Absent /\ ~snap.deleting
  BY DEF UserDeletesSnapshot, Typed, TypeOK
<1>2. s.uid = snap.uid /\ s.bound = snap.bound /\ s.deleting /\ s.fins = snap.fins
  BY <1>1, SnapshotUpdates DEF Same
<1>3. /\ UNCHANGED <<content, contentKnown, snapKnown, sw, cw, created, policy, storage>>
      /\ asked' = asked \cup {snap.uid} /\ snap' \in {Absent, s}
  BY DEF UserDeletesSnapshot, KeepSnapshot, known, settings
<1> HIDE DEF s
<1> QED BY <1>1, <1>2, <1>3
        DEF SnapshotStep, KnownKept, SnapshotLineage, SnapshotKnownKept, Binds

-----------------------------------------------------------------------------
(* Effects of the steps that delete, and of the others that concern the content *)

LEMMA AfterMarkFound ==
    ASSUME NEW STATE w, w \in SnapshotWork
    PROVE  /\ AfterMark(w).found = w.found /\ AfterMark(w).snap = w.snap
           /\ AfterMark(w).pc = "delete" => w.found
           /\ AfterMark(w).pc = "release" => ~w.found \/ policy # "Delete"
           /\ AfterMark(w).pc \in {"delete", "release"}
<1>1. CASE w.found /\ policy = "Delete"
  BY <1>1 DEF AfterMark, SnapshotWork
<1>2. CASE ~(w.found /\ policy = "Delete")
  BY <1>2 DEF AfterMark, SnapshotWork
<1> QED BY <1>1, <1>2

LEMMA SyncDeletingSnapshotEffect == ASSUME Typed, SyncDeletingSnapshot PROVE ContentStep
<1> DEFINE found == PointsBack(snapKnown, contentKnown)
           w == [Idle EXCEPT !.snap = snapKnown, !.found = found]
           c == [contentKnown EXCEPT !.marked = TRUE]
           v == [w EXCEPT !.pc = "annotate"]
<1>1. snapKnown \in Snapshot /\ snapKnown # Absent /\ snapKnown.deleting
  BY DEF SyncDeletingSnapshot, TakeSnapshot, Typed, TypeOK
<1>2. found \in BOOLEAN /\ (found => contentKnown \in Content /\ contentKnown # Absent)
  BY <1>1, SnapshotFields DEF PointsBack, Typed, TypeOK
<1>3. w \in SnapshotWork /\ w.snap = snapKnown /\ w.found = found
  BY <1>1, <1>2 DEF Idle, SnapshotWork
<1>4. v.snap = snapKnown /\ v.pc = "annotate" /\ v.found = found
  BY <1>3 DEF SnapshotWork
<1>5. UNCHANGED <<snap, snapKnown, content, created, asked, policy, storage, cw>>
  BY DEF SyncDeletingSnapshot, NotSnapshotWorker, users, settings
<1>6. \/ sw' = Idle /\ contentKnown' = contentKnown
      \/ sw' = v /\ found /\ contentKnown' = c
      \/ sw' = AfterMark(w) /\ contentKnown' = contentKnown
  BY DEF SyncDeletingSnapshot
<1>7. found => c # Absent /\ c.uid = contentKnown.uid
  BY <1>2, ContentKept, ContentFields
<1> HIDE DEF c, v, w
<1>8. Deletes
  <2>1. CASE sw' = v /\ found
    BY <1>1, <1>4, <2>1 DEF Deletes
  <2>2. CASE sw' = AfterMark(w)
    BY <1>1, <1>3, <2>2, AfterMarkFound DEF Deletes
  <2> QED BY <1>6, <2>1, <2>2 DEF Deletes
<1>9. KnownKept
  BY <1>2, <1>5, <1>6, <1>7 DEF KnownKept
<1> QED BY <1>5, <1>8, <1>9, SameLineage DEF ContentStep, ContentWorkerGoesOn

LEMMA MarkContentEffect ==
    ASSUME Typed, NEW reply \in Replies, MarkContent(reply)
    PROVE  ContentStep /\ storage' = storage /\ (content' = Absent => content = Absent)
<1>1. sw.pc = "annotate" /\ sw \in SnapshotWork
  BY DEF MarkContent, Typed, TypeOK
<1>2. UNCHANGED <<snap, snapKnown, created, asked, policy, storage, cw>>
  BY DEF MarkContent, NotSnapshotWorker, users, settings
<1>3. sw' = AfterMark(sw) \/ sw' = Idle
  BY MarkContentMarks DEF RetrySnapshot
<1>4. Deletes
  BY <1>1, <1>3, AfterMarkFound DEF Deletes
<1> QED BY <1>1, <1>2, <1>4, MarkContentMarks, MarkEffect DEF ContentStep, ContentWorkerGoesOn

LEMMA DeleteContentEffect ==
    ASSUME Typed, NEW reply \in Replies, DeleteContent(reply)
    PROVE  ContentStep
<1>1. sw.pc = "delete" /\ sw \in SnapshotWork
  BY DEF DeleteContent, Typed, TypeOK
<1>2. UNCHANGED <<snap, snapKnown, contentKnown, created, asked, policy, storage, cw>>
  BY DEF DeleteContent, NotSnapshotWorker, users, settings
<1>3. reply # "error" => content # Absent /\ AskContentToGo
  BY DEF DeleteContent, Answer
<1>4. reply = "error" => content' = content
  BY DEF DeleteContent
<1>5. Lineage /\ (reply # "error" => content' = Absent \/ content'.deleting)
  BY <1>3, <1>4, AskEffect, SameLineage
<1>6. (reply = "ok" /\ sw' = [sw EXCEPT !.pc = "release"]) \/ sw' = Idle
  BY DEF DeleteContent, RetrySnapshot
<1>7. [sw EXCEPT !.pc = "release"].pc = "release" /\ [sw EXCEPT !.pc = "release"].snap = sw.snap
      /\ [sw EXCEPT !.pc = "release"].found = sw.found
  BY <1>1 DEF SnapshotWork
<1>8. Deletes
  BY <1>1, <1>5, <1>6, <1>7 DEF Deletes
<1> QED BY <1>2, <1>5, <1>8 DEF ContentStep, KnownKept, ContentWorkerGoesOn

LEMMA OtherContentEffect ==
    ASSUME Typed, \/ DeliverContent \/ Resync \/ AdminDeletesContent \/ ContentWorker
                  \/ Sidecar \/ UNCHANGED vars
    PROVE  ContentStep
<1>1. CASE ContentWorker
  BY <1>1, ContentWorkerEffect DEF ContentStep, Deletes
<1>2. CASE Sidecar
  BY <1>2, SidecarEffect DEF ContentStep, Deletes, KnownKept, ContentWorkerGoesOn
<1>3. CASE AdminDeletesContent
  <2>1. UNCHANGED <<snap, snapKnown, contentKnown, sw, cw, created, asked, policy>>
    BY <1>3 DEF AdminDeletesContent, known, users, settings
  <2>2. Lineage
    BY <1>3, AskEffect DEF AdminDeletesContent
  <2> QED BY <2>1, <2>2 DEF ContentStep, Deletes, KnownKept, ContentWorkerGoesOn
<1>4. CASE DeliverContent \/ Resync \/ UNCHANGED vars
  <2>1. UNCHANGED <<snap, snapKnown, content, sw, cw, created, asked, policy>>
    BY <1>4 DEF DeliverContent, Resync, vars, known, users, settings
  <2>2. contentKnown' \in {contentKnown, content}
    BY <1>4 DEF DeliverContent, Resync, vars, known
  <2> QED BY <2>1, <2>2, SameLineage DEF ContentStep, Deletes, KnownKept, ContentWorkerGoesOn
<1> QED BY <1>1, <1>2, <1>3, <1>4

-----------------------------------------------------------------------------
(* For its owner: every step *)

\* Who is being worked on is the latest snapshot, once the worker relies on it.
LEMMA InHandIsLatest ==
    ASSUME Typed, Agreement, sw.pc \in {"bind", "status"}
    PROVE  snap # Absent /\ snap.uid = sw.snap.uid /\ sw.snap.uid = created
  BY DEF Agreement, Protected, Held, LatestUid

LEMMA UidNumbers ==
    ASSUME Typed
    PROVE  /\ created \in Nat /\ NoUid \in Nat
           /\ snap # Absent => snap.uid \in Nat /\ snap.uid # NoUid
           /\ snapKnown # Absent => snapKnown.uid \in Nat /\ snapKnown.uid # NoUid
           /\ content # Absent => content.uid \in Nat
           /\ contentKnown # Absent => contentKnown.uid \in Nat
           /\ sw.pc # "idle" => sw.snap \in Snapshot /\ sw.snap.uid \in Nat /\ sw.snap.uid # NoUid
<1>1. created \in Nat
  BY UidsAssumption DEF Typed, TypeOK
<1> QED BY <1>1, SnapshotFields, ContentFields, UidsAreNumbers DEF Typed, TypeOK, WorkHasSnapshot

\* A mark that is due is for the snapshot the content is bound to.
LEMMA DueForOwner ==
    ASSUME Typed, Agreement, Owned, Due, content # Absent
    PROVE  /\ content.uid \in asked /\ contentKnown.uid # NoUid
           /\ sw.pc = "bind" => content.uid = sw.snap.uid
<1>1. content.uid = snapKnown.uid /\ contentKnown.uid = snapKnown.uid
      /\ contentKnown.uid # NoUid /\ snapKnown.uid \in asked
  BY UidNumbers DEF Due, Owned, UidKnown, AskedFor
<1>2. sw.pc = "bind" => snapKnown.uid >= sw.snap.uid /\ sw.snap.uid = created
  BY InHandIsLatest DEF Owned, UidKnown
<1>3. snapKnown.uid <= created
  BY DEF Agreement, LatestUid, Due
<1> QED BY <1>1, <1>2, <1>3, UidNumbers DEF Due

LEMMA OwnedContentStep ==
    ASSUME Typed, Typed', Agreement, Agreement', Owned, ContentStep
    PROVE  Owned'
<1> USE DEF ContentStep
<1>1. /\ UNCHANGED <<snap, snapKnown, asked>>
      /\ content' # Absent => content # Absent /\ content'.uid = content.uid
  BY DEF Lineage
<1>2. AskedFor(sw.snap)'
  BY <1>1, IdleWork DEF Owned, AskedFor, Deletes
<1>3. NamedFirst'
  BY UidNumbers DEF Owned, NamedFirst, Lineage, KnownKept, ContentWorkerGoesOn
<1>4. UidKnown'
  <2>1. sw'.pc # "idle" => snapKnown' # Absent /\ snapKnown'.uid >= sw'.snap.uid
    BY <1>1, IdleWork, UidNumbers DEF Owned, UidKnown, Deletes
  <2>2. content' # Absent /\ contentKnown' # Absent /\ snapKnown' # Absent
          => (contentKnown'.uid = snapKnown'.uid => content'.uid = contentKnown'.uid)
    BY <1>1 DEF Owned, UidKnown, KnownKept
  <2> QED BY <2>1, <2>2 DEF UidKnown
<1>5. MarkedForOwner'
  <2> SUFFICES ASSUME content' # Absent, Marking'
               PROVE  /\ content.uid \in asked
                      /\ contentKnown' # Absent /\ contentKnown'.uid # NoUid
                      /\ sw'.pc = "bind" => content.uid = sw'.snap.uid
    BY <1>1 DEF MarkedForOwner
  <2>1. Marking \/ Due
    BY SnapshotFields, IdleWork
       DEF Marking, Lineage, ContentWorkerGoesOn, Deletes, PointsBack, Due
  <2>2. sw'.pc = "bind" => sw' = sw
    BY IdleWork DEF Deletes
  <2>3. content # Absent /\ content.uid \in asked /\ contentKnown # Absent
        /\ contentKnown.uid # NoUid /\ (sw.pc = "bind" => content.uid = sw.snap.uid)
    BY <1>1, <2>1, DueForOwner DEF Owned, MarkedForOwner, Due
  <2>4. content.uid # NoUid
    BY <2>3 DEF Owned, NamedFirst
  <2> QED BY <1>1, <2>2, <2>3, <2>4 DEF KnownKept
<1> QED BY <1>1, <1>2, <1>3, <1>4, <1>5 DEF Owned, AskedFor

LEMMA OwnedSnapshotStep ==
    ASSUME Typed, Typed', Agreement, Agreement', Owned, SnapshotStep
    PROVE  Owned'
<1>1. /\ UNCHANGED <<content, created>> /\ cw' \in {cw, "idle"} /\ asked \subseteq asked'
      /\ KnownKept /\ SnapshotLineage /\ SnapshotKnownKept /\ Binds
  BY DEF SnapshotStep
<1>2. AskedFor(snap)' /\ AskedFor(snapKnown)'
  BY <1>1 DEF Owned, AskedFor, SnapshotLineage, SnapshotKnownKept
<1>3. AskedFor(sw.snap)'
  BY <1>1, IdleWork DEF Owned, AskedFor, Binds
<1>4. NamedFirst'
  BY <1>1 DEF Owned, NamedFirst, KnownKept
<1>5. UidKnown'
  <2>1. sw'.pc # "idle" => snapKnown' # Absent /\ snapKnown'.uid >= sw'.snap.uid
    <3> SUFFICES ASSUME sw'.pc # "idle"
                 PROVE  snapKnown' # Absent /\ snapKnown'.uid >= sw'.snap.uid
      OBVIOUS
    <3>1. snapKnown # Absent /\ snapKnown.uid >= sw'.snap.uid
      BY <1>1, IdleWork, UidNumbers DEF Owned, UidKnown, Binds
    <3>2. snapKnown' = snapKnown \/ (snapKnown' # Absent /\ snapKnown'.uid = created)
      BY <1>1 DEF SnapshotKnownKept, Agreement, LatestUid
    <3>3. snapKnown.uid <= created /\ created \in Nat /\ snapKnown.uid \in Nat
          /\ sw'.snap.uid \in Nat
      <4>1. sw'.snap \in Snapshot
        BY DEF Typed, WorkHasSnapshot
      <4> QED BY <3>1, <4>1, UidNumbers, SnapshotFields, UidsAreNumbers DEF Agreement, LatestUid
    <3> QED BY <3>1, <3>2, <3>3
  <2>2. ASSUME content' # Absent, contentKnown' # Absent, snapKnown' # Absent,
               contentKnown'.uid = snapKnown'.uid
        PROVE  content'.uid = contentKnown'.uid
    <3>1. snapKnown'.uid = created \/ snapKnown' = snapKnown
      BY <1>1, <2>2 DEF SnapshotKnownKept, Agreement, LatestUid
    <3>2. CASE snapKnown'.uid = created
      BY <1>1, <2>2, <3>2 DEF Agreement, LatestUid
    <3>3. CASE snapKnown' = snapKnown
      BY <1>1, <2>2, <3>3 DEF Owned, UidKnown, KnownKept
    <3> QED BY <3>1, <3>2, <3>3
  <2> QED BY <2>1, <2>2 DEF UidKnown
<1>6. MarkedForOwner'
  <2> SUFFICES ASSUME content # Absent, Marking'
               PROVE  /\ content.uid \in asked'
                      /\ contentKnown' # Absent /\ contentKnown'.uid # NoUid
                      /\ sw'.pc = "bind" => content.uid = sw'.snap.uid
    BY <1>1 DEF MarkedForOwner
  <2>1. Marking
    BY <1>1, IdleWork DEF Marking, Binds
  <2>2. content.uid \in asked /\ contentKnown # Absent /\ contentKnown.uid # NoUid
        /\ (sw.pc = "bind" => content.uid = sw.snap.uid) /\ content.uid # NoUid
    BY <2>1 DEF Owned, MarkedForOwner, NamedFirst
  <2>3. contentKnown' # Absent /\ contentKnown'.uid # NoUid
    BY <1>1, <2>2 DEF KnownKept
  <2>4. ASSUME sw'.pc = "bind" PROVE content.uid = sw'.snap.uid
    <3>1. sw' = sw \/ (contentKnown' = contentKnown /\ contentKnown.uid = sw'.snap.uid)
      BY <1>1, <2>2, <2>4, IdleWork DEF Binds
    <3>2. sw'.snap.uid = created
      BY <1>1, <2>4 DEF Agreement, Protected, Held, LatestUid
    <3>3. CASE contentKnown' = contentKnown /\ contentKnown.uid = sw'.snap.uid
      BY <1>1, <2>2, <3>2, <3>3 DEF Agreement, LatestUid
    <3> QED BY <2>2, <2>4, <3>1, <3>3
  <2> QED BY <1>1, <2>2, <2>3, <2>4
<1> QED BY <1>2, <1>3, <1>4, <1>5, <1>6 DEF Owned

\* The UID is that of the latest snapshot: where a mark is on its way it is there already.
LEMMA OwnedBindContent ==
    ASSUME Typed, Typed', Agreement, Agreement', Owned, NEW reply \in Replies, BindContent(reply)
    PROVE  Owned'
<1> DEFINE c == [content EXCEPT !.uid = sw.snap.uid]
           v == [sw EXCEPT !.pc = "status", !.ready = c.ready]
<1>1. /\ sw.pc = "bind" /\ sw \in SnapshotWork /\ sw.snap \in Snapshot
      /\ sw.snap.uid = created /\ sw.snap.uid \in Uid /\ created # NoUid
  BY InHandIsLatest, SnapshotFields, UidsAreNumbers
     DEF BindContent, Typed, TypeOK, WorkHasSnapshot
<1>2. /\ UNCHANGED <<snap, snapKnown, created, asked, cw>>
      /\ reply # "error" => content # Absent
      /\ content' = IF reply = "error" THEN content ELSE c
      /\ reply = "ok" => contentKnown' = c
      /\ reply # "ok" => contentKnown' = contentKnown
      /\ sw' = Idle \/ (sw' = v /\ reply = "ok")
  BY DEF BindContent, Answer, RetrySnapshot, NotSnapshotWorker, users
<1>3. content # Absent => /\ c \in Content /\ c # Absent /\ c.uid = created /\ c.fin = content.fin
                          /\ c.marked = content.marked /\ c.deleting = content.deleting
  <2> SUFFICES ASSUME content # Absent
               PROVE  /\ c \in Content /\ c # Absent /\ c.uid = created /\ c.fin = content.fin
                      /\ c.marked = content.marked /\ c.deleting = content.deleting
    OBVIOUS
  <2>1. content \in Content
    BY DEF Typed, TypeOK
  <2>2. /\ c \in Content /\ c.uid = sw.snap.uid /\ c.fin = content.fin
        /\ c.marked = content.marked /\ c.deleting = content.deleting
    BY <1>1, <2>1, ContentKept
  <2> QED BY <1>1, <2>2, ContentFields
<1>4. v.pc = "status" /\ v.snap = sw.snap
  BY <1>1 DEF SnapshotWork
<1> HIDE DEF c, v
<1>5. sw'.pc # "bind" /\ sw'.pc # "annotate" /\ (sw'.pc = "idle" \/ sw'.snap = sw.snap)
      /\ sw'.snap \in {sw.snap, Absent}
  BY <1>2, <1>4, IdleWork
<1>6. AskedFor(snap)' /\ AskedFor(snapKnown)' /\ AskedFor(sw.snap)'
  BY <1>2, <1>5 DEF Owned, AskedFor
<1>7. NamedFirst'
  BY <1>1, <1>2, <1>3 DEF Owned, NamedFirst, Replies
<1>8. UidKnown'
  <2>1. snapKnown # Absent /\ snapKnown.uid >= sw.snap.uid /\ snapKnown.uid <= created
    BY <1>1 DEF Owned, UidKnown, Agreement, LatestUid
  <2>2. snapKnown.uid = created
    BY <1>1, <2>1, UidNumbers
  <2>3. content' # Absent /\ contentKnown' # Absent /\ contentKnown'.uid = created
          => content'.uid = created
    BY <1>2 DEF Agreement, LatestUid
  <2> QED BY <1>2, <1>5, <2>1, <2>2, <2>3 DEF UidKnown
<1>9. MarkedForOwner'
  <2> SUFFICES ASSUME content' # Absent, Marking'
               PROVE  /\ content'.uid \in asked
                      /\ contentKnown' # Absent /\ contentKnown'.uid # NoUid
    BY <1>2, <1>5 DEF MarkedForOwner
  <2>1. content # Absent /\ Marking
    BY <1>2, <1>3, <1>5 DEF Marking
  <2>2. /\ content.uid \in asked /\ content.uid = sw.snap.uid
        /\ contentKnown # Absent /\ contentKnown.uid # NoUid
    BY <1>1, <2>1 DEF Owned, MarkedForOwner
  <2> QED BY <1>1, <1>2, <1>3, <2>1, <2>2
<1> QED BY <1>6, <1>7, <1>8, <1>9 DEF Owned

LEMMA OwnedUserCreatesSnapshot ==
    ASSUME Typed, Owned, UserCreatesSnapshot PROVE Owned'
<1>1. created + 1 \in Uid
  BY UidsAssumption DEF UserCreatesSnapshot, Typed, TypeOK, Uid
<1>2. ~snap'.deleting /\ UNCHANGED <<snapKnown, content, contentKnown, sw, cw, asked>>
  BY <1>1, NewSnapshotType DEF UserCreatesSnapshot, known
<1> QED BY <1>2 DEF Owned, AskedFor, NamedFirst, UidKnown, MarkedForOwner, Marking

LEMMA OwnedInit == Init => Owned
  BY IdleWork DEF Init, Owned, AskedFor, NamedFirst, UidKnown, MarkedForOwner, Marking

\* Every step is of one of four kinds.
LEMMA StepKinds ==
    ASSUME Typed, Agreement, [Next]_vars
    PROVE  \/ ContentStep \/ SnapshotStep \/ UserCreatesSnapshot
           \/ \E reply \in Replies : BindContent(reply)
<1>1. CASE SnapshotWorker
  BY <1>1, SyncSnapshotEffect, AddSnapshotFinalizerEffect, UpdateSnapshotStatusEffect,
     MarkUnreadyEffect, ReleaseSnapshotEffect, SnapshotInformerEffect,
     SyncDeletingSnapshotEffect, MarkContentEffect, DeleteContentEffect DEF SnapshotWorker
<1>2. CASE Users
  BY <1>2, UserDeletesSnapshotEffect, OtherContentEffect DEF Users
<1> QED BY <1>1, <1>2, SnapshotInformerEffect, OtherContentEffect DEF Next

LEMMA OwnedNext == Typed /\ Agreement /\ Owned /\ [Next]_vars => Owned'
<1> SUFFICES ASSUME Typed, Agreement, Owned, [Next]_vars PROVE Owned'
  OBVIOUS
<1>1. Typed' /\ Agreement'
  BY TypedNext, AgreementNext
<1> QED BY <1>1, StepKinds, OwnedContentStep, OwnedSnapshotStep, OwnedBindContent,
           OwnedUserCreatesSnapshot

-----------------------------------------------------------------------------
(* The content first: every step *)

LEMMA OrderedContentStep ==
    ASSUME Typed, Typed', Agreement, Agreement', Ordered, ContentStep
    PROVE  Ordered'
<1>1. /\ UNCHANGED <<snap, snapKnown, created, policy>>
      /\ content' # Absent => content # Absent /\ content'.uid = content.uid
      /\ content = Absent => content' = Absent
      /\ Going => content' = Absent \/ content'.deleting
      /\ KnownKept /\ Deletes
  BY DEF ContentStep, Lineage, Going
<1>2. BoundLasts(snapKnown)' /\ BoundLasts(sw.snap)'
  BY <1>1, IdleWork DEF Ordered, BoundKnown, BoundLasts, Deletes
<1>3. content' # Absent /\ snap' # Absent /\ snap'.bound
        => contentKnown' # Absent /\ contentKnown'.uid = snap'.uid
  BY <1>1 DEF Ordered, BoundKnown, KnownKept, Agreement, BoundBothWays
<1>4. content' # Absent /\ sw'.pc = "status"
        => contentKnown' # Absent /\ contentKnown'.uid = sw'.snap.uid
  <2>1. sw'.pc = "status" => sw' = sw
    BY <1>1, IdleWork DEF Deletes
  <2> QED BY <1>1, <2>1 DEF Ordered, BoundKnown, KnownKept, Agreement, StatusOfOwn
<1>5. SourceOfBound'
  BY <1>1 DEF Ordered, SourceOfBound
<1>6. ContentAsked'
  <2>1. sw'.pc \in {"annotate", "delete"} => sw'.found
    BY <1>1, IdleWork DEF Ordered, ContentAsked, Deletes
  <2>2. sw'.pc = "release" /\ policy' = "Delete" /\ sw'.found => Going'
    BY <1>1, IdleWork DEF Ordered, ContentAsked, Deletes, Going
  <2>3. sw'.pc = "release" /\ ~sw'.found /\ sw'.snap.bound /\ snap' # Absent
          /\ snap'.uid = sw'.snap.uid => content' = Absent
    <3> SUFFICES ASSUME sw'.pc = "release", ~sw'.found, sw'.snap.bound, snap # Absent,
                        snap.uid = sw'.snap.uid, content # Absent
                 PROVE  FALSE
      BY <1>1
    <3>1. \/ sw' = sw
          \/ /\ sw'.snap = snapKnown /\ snapKnown # Absent
             /\ ~PointsBack(snapKnown, contentKnown)
      BY <1>1, IdleWork DEF Deletes, Ordered, ContentAsked
    <3>2. CASE sw' = sw
      BY <3>2 DEF Ordered, ContentAsked
    <3>3. CASE /\ sw'.snap = snapKnown /\ snapKnown # Absent
               /\ ~PointsBack(snapKnown, contentKnown)
      <4>1. snap.bound /\ snapKnown.bound
        BY <3>3 DEF Ordered, BoundKnown, BoundLasts
      <4>2. contentKnown # Absent /\ contentKnown.uid = snapKnown.uid
        BY <3>3, <4>1 DEF Ordered, BoundKnown
      <4> QED BY <3>3, <4>1, <4>2 DEF PointsBack
    <3> QED BY <3>1, <3>2, <3>3
  <2> QED BY <2>1, <2>2, <2>3 DEF ContentAsked
<1> QED BY <1>2, <1>3, <1>4, <1>5, <1>6 DEF Ordered, BoundKnown

LEMMA OrderedSnapshotStep ==
    ASSUME Typed, Typed', Agreement, Agreement', Ordered, SnapshotStep
    PROVE  Ordered'
<1>1. /\ UNCHANGED <<content, created, policy>>
      /\ KnownKept /\ SnapshotLineage /\ SnapshotKnownKept /\ Binds
  BY DEF SnapshotStep
<1>2. BoundLasts(snapKnown)'
  BY <1>1 DEF Ordered, BoundKnown, BoundLasts, SnapshotLineage, SnapshotKnownKept
<1>3. BoundLasts(sw.snap)'
  BY <1>1, IdleWork DEF Ordered, BoundKnown, BoundLasts, SnapshotLineage, Binds
<1>4. content' # Absent /\ snap' # Absent /\ snap'.bound
        => contentKnown' # Absent /\ contentKnown'.uid = snap'.uid
  <2> SUFFICES ASSUME content # Absent, snap' # Absent, snap'.bound
               PROVE  contentKnown' # Absent /\ contentKnown'.uid = snap'.uid
    BY <1>1
  <2>1. snap # Absent /\ snap'.uid = snap.uid
        /\ (snap.bound \/ (sw.pc = "status" /\ snap.uid = sw.snap.uid))
    BY <1>1 DEF SnapshotLineage, Held
  <2>2. contentKnown # Absent /\ contentKnown.uid = snap.uid
    BY <2>1 DEF Ordered, BoundKnown
  <2>3. content'.uid = snap'.uid
    BY <1>1 DEF Agreement, BoundBothWays
  <2> QED BY <1>1, <2>1, <2>2, <2>3 DEF KnownKept
<1>5. content' # Absent /\ sw'.pc = "status"
        => contentKnown' # Absent /\ contentKnown'.uid = sw'.snap.uid
  <2> SUFFICES ASSUME content # Absent, sw'.pc = "status"
               PROVE  contentKnown' # Absent /\ contentKnown'.uid = sw'.snap.uid
    BY <1>1
  <2>1. contentKnown # Absent /\ contentKnown.uid = sw'.snap.uid
    BY <1>1, IdleWork DEF Ordered, BoundKnown, Binds
  <2>2. content'.uid = sw'.snap.uid
    BY <1>1 DEF Agreement, StatusOfOwn
  <2> QED BY <1>1, <2>1, <2>2 DEF KnownKept
<1>6. SourceOfBound'
  BY <1>1 DEF Ordered, SourceOfBound, SnapshotLineage, Held
<1>7. ContentAsked'
  <2>1. sw'.pc \in {"annotate", "delete", "release"} => sw' = sw
    BY <1>1, IdleWork DEF Binds
  <2> QED BY <1>1, <2>1 DEF Ordered, ContentAsked, SnapshotLineage, Going
<1> QED BY <1>2, <1>3, <1>4, <1>5, <1>6, <1>7 DEF Ordered, BoundKnown

LEMMA OrderedBindContent ==
    ASSUME Typed, Typed', Agreement, Agreement', Ordered, NEW reply \in Replies,
           BindContent(reply)
    PROVE  Ordered'
<1> DEFINE c == [content EXCEPT !.uid = sw.snap.uid]
           v == [sw EXCEPT !.pc = "status", !.ready = c.ready]
<1>1. /\ sw.pc = "bind" /\ sw \in SnapshotWork /\ sw.snap \in Snapshot
      /\ sw.snap.uid = created /\ sw.snap.uid \in Uid /\ snap # Absent /\ snap.uid = created
  BY InHandIsLatest, SnapshotFields DEF BindContent, Typed, TypeOK, WorkHasSnapshot
<1>2. /\ UNCHANGED <<snap, snapKnown, created>>
      /\ reply # "error" => content # Absent
      /\ content' = IF reply = "error" THEN content ELSE c
      /\ reply = "ok" => contentKnown' = c
      /\ reply # "ok" => contentKnown' = contentKnown
      /\ sw' = Idle \/ (sw' = v /\ reply = "ok")
  BY DEF BindContent, Answer, RetrySnapshot, NotSnapshotWorker, users
<1>3. content # Absent => c # Absent /\ c.uid = created
  <2> SUFFICES ASSUME content # Absent PROVE c # Absent /\ c.uid = created
    OBVIOUS
  <2>1. content \in Content
    BY DEF Typed, TypeOK
  <2>2. c \in Content /\ c.uid = sw.snap.uid
    BY <1>1, <2>1, ContentKept
  <2> QED BY <1>1, <2>2, ContentFields
<1>4. v.pc = "status" /\ v.snap = sw.snap
  BY <1>1 DEF SnapshotWork
<1> HIDE DEF c, v
<1>5. /\ sw'.pc \in {"idle", "status"} /\ sw'.snap \in {sw.snap, Absent}
      /\ sw'.pc = "status" => sw'.snap = sw.snap /\ reply = "ok"
  BY <1>2, <1>4, IdleWork
<1>6. BoundLasts(snapKnown)' /\ BoundLasts(sw.snap)'
  BY <1>2, <1>5 DEF Ordered, BoundKnown, BoundLasts
<1>7. content' # Absent /\ snap' # Absent /\ snap'.bound
        => contentKnown' # Absent /\ contentKnown'.uid = snap'.uid
  BY <1>1, <1>2, <1>3 DEF Ordered, BoundKnown, Replies
<1>8. content' # Absent /\ sw'.pc = "status"
        => contentKnown' # Absent /\ contentKnown'.uid = sw'.snap.uid
  BY <1>1, <1>2, <1>3, <1>5 DEF Replies
<1>9. SourceOfBound' /\ ContentAsked'
  BY <1>2, <1>5 DEF Ordered, SourceOfBound, ContentAsked
<1> QED BY <1>6, <1>7, <1>8, <1>9 DEF Ordered, BoundKnown

LEMMA OrderedUserCreatesSnapshot ==
    ASSUME Typed, Agreement, Ordered, UserCreatesSnapshot PROVE Ordered'
<1>1. created + 1 \in Uid /\ created \in Nat
  BY UidsAssumption DEF UserCreatesSnapshot, Typed, TypeOK, Uid
<1>2. /\ snap' # Absent /\ snap'.uid = created + 1 /\ ~snap'.bound
      /\ UNCHANGED <<snapKnown, content, contentKnown, sw, policy>>
  BY <1>1, NewSnapshotType, SnapshotFields DEF UserCreatesSnapshot, known, settings
<1>3. /\ snapKnown # Absent => snapKnown.uid # created + 1
      /\ sw.pc # "idle" => sw.snap.uid # created + 1
      /\ sw.snap # Absent => sw.snap.uid # created + 1
  <2>1. sw.snap # Absent => sw.snap.uid \in Nat
    BY SnapshotFields, UidsAreNumbers DEF Typed, TypeOK, SnapshotWork
  <2>2. sw.pc # "idle" => sw.snap # Absent
    BY SnapshotFields DEF Typed, WorkHasSnapshot
  <2> QED BY <1>1, <2>1, <2>2, UidNumbers DEF Agreement, LatestUid
<1> QED BY <1>2, <1>3
        DEF Ordered, BoundKnown, BoundLasts, SourceOfBound, ContentAsked, Going

LEMMA OrderedInit == Init => Ordered
  BY IdleWork DEF Init, Ordered, BoundKnown, BoundLasts, SourceOfBound, ContentAsked

LEMMA OrderedNext == Typed /\ Agreement /\ Ordered /\ [Next]_vars => Ordered'
<1> SUFFICES ASSUME Typed, Agreement, Ordered, [Next]_vars PROVE Ordered'
  OBVIOUS
<1>1. Typed' /\ Agreement'
  BY TypedNext, AgreementNext
<1> QED BY <1>1, StepKinds, OrderedContentStep, OrderedSnapshotStep, OrderedBindContent,
           OrderedUserCreatesSnapshot

-----------------------------------------------------------------------------
(* The properties *)

LEMMA OwnerAlways == Spec => [](Typed /\ Agreement /\ Owned /\ Ordered)
  BY TypedInit, TypedNext, AgreementInit, AgreementNext, OwnedInit, OwnedNext,
     OrderedInit, OrderedNext, PTL DEF Spec

\* Only the sidecar frees the storage.
LEMMA OnlySidecarFrees ==
    ASSUME [Next]_vars, storage' # storage PROVE DeletePhysicalSnapshot
  BY DEF Next, SnapshotWorker, SyncSnapshot, SyncDeletingSnapshot, ForgetSnapshot,
         AddSnapshotFinalizer, BindContent, UpdateSnapshotStatus, MarkUnready, MarkContent,
         DeleteContent, ReleaseSnapshot, ContentWorker, SyncContent, AddContentFinalizer,
         AnnotateContent, Sidecar, ReportStatus, ReleaseContent, DeliverSnapshot,
         DeliverContent, Resync, RestartController, Users, UserCreatesSnapshot,
         UserDeletesSnapshot, AdminDeletesContent, NotSnapshotWorker, NotContentWorker,
         vars

\* The physical snapshot is deleted for the snapshot its content is bound to, when a user
\* asked for that: shouldDelete waits for a mark, which setAnnVolumeSnapshotBeingDeleted
\* sends for that snapshot alone, whatever age the copies have.
THEOREM FreedForItsOwnerCorrect == Spec => FreedForItsOwner
<1>1. ASSUME Typed, Owned, [Next]_vars, storage, ~storage'
      PROVE  policy = "Delete" /\ content.uid \in asked
  <2>1. DeletePhysicalSnapshot
    BY <1>1, OnlySidecarFrees
  <2>2. content # Absent /\ policy = "Delete" /\ content.deleting
        /\ (content.uid = NoUid \/ content.marked)
    BY <2>1 DEF DeletePhysicalSnapshot, ShouldDelete, OwesDeletion
  <2>3. content.uid # NoUid
    BY <1>1, <2>2 DEF Owned, NamedFirst
  <2> QED BY <1>1, <2>2, <2>3 DEF Owned, MarkedForOwner, Marking
<1>2. Typed /\ Owned /\ [Next]_vars
        => [storage /\ ~storage' => policy = "Delete" /\ content.uid \in asked]_vars
  BY <1>1
<1> QED BY <1>2, OwnerAlways, PTL DEF Spec, FreedForItsOwner

\* A snapshot that is bound goes after its content has been asked to:
\* processSnapshotWithDeletionTimestamp finds the content, if it is still there, by a
\* copy that knows of the binding.
THEOREM ContentGoesFirstCorrect == Spec => ContentGoesFirst
<1>1. ASSUME Typed, Agreement, Ordered, [Next]_vars,
             snap # Absent, snap.bound, snap' = Absent, policy = "Delete"
      PROVE  Going
  <2>1. CASE UserDeletesSnapshot
    <3>1. snap \in Snapshot /\ ~snap.deleting /\ "AsSource" \in snap.fins
      BY <1>1, <2>1 DEF UserDeletesSnapshot, Typed, TypeOK, Ordered, SourceOfBound
    <3> DEFINE s == [snap EXCEPT !.deleting = TRUE]
    <3>2. s \in Snapshot /\ s.fins = snap.fins /\ snap' = KeepSnapshot(s)
      BY <2>1, <3>1, SnapshotUpdates DEF UserDeletesSnapshot, Same
    <3> HIDE DEF s
    <3> QED BY <1>1, <3>1, <3>2, SnapshotFields DEF KeepSnapshot
  <2>2. ASSUME NEW reply \in Replies, ReleaseSnapshot(reply) PROVE Going
    <3>1. sw.pc = "release" /\ snap = sw.snap
      BY <1>1, <2>2 DEF ReleaseSnapshot, Answer
    <3> QED BY <1>1, <3>1 DEF Ordered, ContentAsked, Going
  <2>3. CASE ContentStep
    BY <1>1, <2>3 DEF ContentStep
  <2>4. CASE UserCreatesSnapshot \/ \E reply \in Replies : BindContent(reply)
    BY <1>1, <2>4 DEF UserCreatesSnapshot, BindContent
  <2>5. ASSUME NEW reply \in Replies,
               AddSnapshotFinalizer(reply) \/ UpdateSnapshotStatus(reply) \/ MarkUnready(reply)
        PROVE  FALSE
    <3>1. reply # "error" /\ snap \in Snapshot
      BY <1>1, <2>5 DEF AddSnapshotFinalizer, UpdateSnapshotStatus, MarkUnready, Typed, TypeOK
    <3>2. CASE AddSnapshotFinalizer(reply)
      <4> DEFINE f == snap.fins \cup FinalizersToAdd(sw.snap, contentKnown)
                 s == [snap EXCEPT !.fins = f]
      <4>1. snap' = s /\ f \in SUBSET {"AsSource", "Bound"}
        BY <3>1, <3>2, SnapshotFields DEF AddSnapshotFinalizer, FinalizersToAdd
      <4> HIDE DEF f
      <4>2. s \in Snapshot
        BY <3>1, <4>1 DEF Snapshot
      <4> QED BY <1>1, <4>1, <4>2, SnapshotFields
    <3>3. CASE UpdateSnapshotStatus(reply)
      <4> DEFINE s == [snap EXCEPT !.bound = TRUE, !.ready = sw.ready]
      <4>1. snap' = s /\ sw.ready \in BOOLEAN
        BY <1>1, <3>1, <3>3 DEF UpdateSnapshotStatus, Typed, TypeOK, SnapshotWork
      <4>2. s \in Snapshot
        BY <3>1, <4>1, SnapshotUpdates DEF Same
      <4> QED BY <1>1, <4>1, <4>2, SnapshotFields
    <3>4. CASE MarkUnready(reply)
      <4> DEFINE s == [sw.snap EXCEPT !.ready = FALSE]
      <4>1. snap' = s /\ snap = sw.snap
        BY <3>1, <3>4 DEF MarkUnready, Answer
      <4>2. s \in Snapshot
        BY <3>1, <4>1, SnapshotUpdates DEF Same
      <4> QED BY <1>1, <4>1, <4>2, SnapshotFields
    <3> QED BY <2>5, <3>2, <3>3, <3>4
  <2>6. CASE \/ SyncSnapshot \/ ForgetSnapshot \/ DeliverSnapshot \/ RestartController
    BY <1>1, <2>6 DEF SyncSnapshot, ForgetSnapshot, DeliverSnapshot, RestartController
  <2>7. CASE SnapshotWorker
    BY <1>1, <2>2, <2>3, <2>4, <2>5, <2>6, <2>7, SyncDeletingSnapshotEffect,
       MarkContentEffect, DeleteContentEffect DEF SnapshotWorker
  <2> QED BY <1>1, <2>1, <2>3, <2>4, <2>6, <2>7, OtherContentEffect DEF Next, Users
<1>2. Typed /\ Agreement /\ Ordered /\ [Next]_vars
        => [snap # Absent /\ snap.bound /\ snap' = Absent /\ policy = "Delete"
              => content = Absent \/ content.deleting]_vars
  BY <1>1 DEF Going
<1> QED BY <1>2, OwnerAlways, PTL DEF Spec, ContentGoesFirst

\* Only a call that deletes, or takes the finalizer, removes a content.
LEMMA NothingLeaksNext == Typed /\ NothingLeaks /\ [Next]_vars => NothingLeaks'
<1> SUFFICES ASSUME Typed, NothingLeaks, [Next]_vars PROVE NothingLeaks'
  OBVIOUS
<1>1. ASSUME content # Absent, AskContentToGo, UNCHANGED <<policy, storage>>
      PROVE  NothingLeaks'
  <2> DEFINE c == [content EXCEPT !.deleting = TRUE]
  <2>1. content' = KeepContent(c) /\ Note("exposed", ~content.fin)
    BY <1>1 DEF AskContentToGo
  <2>2. c \in Content /\ c.fin = content.fin
    BY <1>1, ContentKept DEF Typed, TypeOK
  <2> HIDE DEF c
  <2>3. content' = Absent => "exposed" \in lapses'
    BY <2>1, <2>2, ContentFields DEF KeepContent, Note
  <2> QED BY <2>3 DEF NothingLeaks, Happened
<1>2. CASE ReleaseContent
  <2>1. policy' = policy /\ storage' = storage /\ storage \in BOOLEAN
    BY <1>2 DEF ReleaseContent, NotSidecar, settings, Typed, TypeOK
  <2>2. policy = "Delete" /\ storage => "unread" \in lapses'
    BY <1>2 DEF ReleaseContent, Note, OwesDeletion
  <2> QED BY <2>1, <2>2 DEF NothingLeaks, Happened
<1>3. CASE DeletePhysicalSnapshot
  BY <1>3 DEF DeletePhysicalSnapshot, NothingLeaks
<1>4. CASE UNCHANGED <<policy, storage, lapses>> /\ (content' = Absent => content = Absent)
  BY <1>4 DEF NothingLeaks, Happened
<1>5. CASE ContentWorker
  BY <1>4, <1>5, ContentWorkerEffect
     DEF ContentWorker, SyncContent, AddContentFinalizer, AnnotateContent
<1>6. CASE ReportStatus
  <2>1. content \in Content
    BY <1>6 DEF ReportStatus, Typed, TypeOK
  <2>2. content' # Absent
    BY <1>6, <2>1, ContentKept, ContentFields DEF ReportStatus
  <2> QED BY <2>2 DEF NothingLeaks
<1>7. CASE AdminDeletesContent
  BY <1>1, <1>7 DEF AdminDeletesContent, settings
<1>8. ASSUME NEW reply \in Replies, DeleteContent(reply) PROVE NothingLeaks'
  <2>1. UNCHANGED <<policy, storage>>
    BY <1>8 DEF DeleteContent, NotSnapshotWorker, settings
  <2>2. CASE reply = "error"
    BY <1>4, <1>8, <2>1, <2>2 DEF DeleteContent
  <2>3. CASE reply # "error"
    BY <1>1, <1>8, <2>1, <2>3 DEF DeleteContent, Answer
  <2> QED BY <2>2, <2>3
<1>9. ASSUME NEW reply \in Replies, MarkContent(reply) PROVE NothingLeaks'
  <2>1. UNCHANGED <<policy, storage, lapses>>
    BY <1>9 DEF MarkContent, NotSnapshotWorker, settings
  <2> QED BY <1>4, <1>9, <2>1, MarkContentEffect
<1>10. ASSUME NEW reply \in Replies, BindContent(reply) PROVE NothingLeaks'
  <2> DEFINE c == [content EXCEPT !.uid = sw.snap.uid]
  <2>1. /\ UNCHANGED <<policy, storage, lapses>>
        /\ content' = IF reply = "error" THEN content ELSE c
        /\ reply # "error" => content \in Content
        /\ sw.snap \in Snapshot
    BY <1>10 DEF BindContent, Answer, NotSnapshotWorker, settings, Typed, TypeOK, WorkHasSnapshot
  <2>2. reply # "error" => c # Absent
    <3>1. sw.snap.uid \in Uid
      BY <2>1, SnapshotFields
    <3> QED BY <2>1, <3>1, ContentKept, ContentFields
  <2> HIDE DEF c
  <2> QED BY <1>4, <2>1, <2>2
<1>11. CASE \/ SyncSnapshot \/ ForgetSnapshot \/ DeliverSnapshot \/ RestartController
            \/ DeliverContent \/ Resync \/ UserCreatesSnapshot \/ UserDeletesSnapshot
            \/ \E reply \in Replies : \/ AddSnapshotFinalizer(reply)
                                      \/ UpdateSnapshotStatus(reply)
                                      \/ MarkUnready(reply) \/ ReleaseSnapshot(reply)
            \/ UNCHANGED vars
  <2>1. UNCHANGED <<policy, storage, lapses, content>>
    BY <1>11
       DEF SyncSnapshot, ForgetSnapshot, DeliverSnapshot, RestartController, DeliverContent,
           Resync, UserCreatesSnapshot, UserDeletesSnapshot, AddSnapshotFinalizer,
           UpdateSnapshotStatus, MarkUnready, ReleaseSnapshot, NotSnapshotWorker, settings,
           vars
  <2> QED BY <1>4, <2>1
<1>12. CASE SyncDeletingSnapshot
  <2>1. UNCHANGED <<policy, storage, content>> /\ lapses \subseteq lapses'
    BY <1>12 DEF SyncDeletingSnapshot, Note, NotSnapshotWorker, settings
  <2> QED BY <2>1 DEF NothingLeaks, Happened
<1> QED BY <1>2, <1>3, <1>5, <1>6, <1>7, <1>8, <1>9, <1>10, <1>11, <1>12
        DEF Next, SnapshotWorker, Sidecar, Users

\* The last of a content with the policy Delete goes after the physical snapshot, but for
\* one that had no finalizer yet and one whose status the sidecar had not filled in:
\* deleteCSISnapshotOperation, removeContentFinalizer.
THEOREM NothingLeaksCorrect == Spec => []NothingLeaks
<1>1. Init => NothingLeaks
  <2>1. Init => content \in Content
    BY DEF Init, Content
  <2> QED BY <2>1, AbsentAssumption DEF NothingLeaks
<1> QED BY <1>1, NothingLeaksNext, OwnerAlways, PTL DEF Spec
=============================================================================
