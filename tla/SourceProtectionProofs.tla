------------------------ MODULE SourceProtectionProofs ------------------------
(***************************************************************************)
(* Proofs about the module SourceProtection, for any number of snapshots of *)
(* the claim and any number of faults: the claim is held while a snapshot   *)
(* is cut from it, and the finalizer is not forgotten, but for the races.   *)
(*                                                                         *)
(* Neither property is inductive: a finalizer is removed, or left to others, *)
(* on the word of caches that were read some calls before.  Protection says *)
(* what such a reading is worth later.                                      *)
(***************************************************************************)
EXTENDS SourceProtection, TLAPS

-----------------------------------------------------------------------------
(* The inductive invariant *)

\* A worker has a copy of its snapshot to work on, and of the claim to update.
WorkHasCopies ==
    \A s \in Snapshots :
        /\ work[s].pc # "idle" => work[s].snap \in Snapshot
        /\ work[s].pc = "protect" => work[s].claim \in Claim

Typed == TypeOK /\ WorkHasCopies

\* Nothing is known of a snapshot that was not taken.
Untouched ==
    \A s \in left : /\ snap[s] = Absent /\ seen[s] = Absent
                    /\ content[s] = "none" /\ work[s] = Idle

\* A deletion and readiness are never taken back.
Recent(s, c) ==
    c # Absent /\ snap[s] # Absent
      => (c.deleting => snap[s].deleting) /\ (c.ready => snap[s].ready)

\* The finalizer is taken from a snapshot that is deleted, by its own worker, which
\* has seen it deleted.
CopiesLag ==
    \A s \in Snapshots :
        /\ Recent(s, seen[s]) /\ Recent(s, work[s].snap)
        /\ seen[s] # Absent /\ work[s].snap # Absent /\ work[s].snap.deleting
             => seen[s].deleting
        /\ seen[s] # Absent /\ seen[s].held /\ ~seen[s].deleting
             => snap[s] # Absent /\ snap[s].held

\* The snapshots that a worker found before it removes the claim's finalizer: each is
\* cut, gone, or the one whose deletion the worker has in hand.
Passed(s, t) == /\ t \notin left
                /\ (t = s /\ work[s].last) \/ snap[t] = Absent \/ snap[t].ready

HandOf(s) ==
    /\ work[s].pc \in {"dispose", "release"} => work[s].snap.deleting
    /\ work[s].pc = "unprotect"
         => /\ IF work[s].last THEN work[s].snap.deleting ELSE work[s].snap.ready
            /\ \A t \in work[s].listed : Passed(s, t)
    /\ work[s].pc \in {"protect", "create"} => content[s] = "none"
    /\ work[s].pc = "protect" => snap[s] # Absent /\ snap[s].held
    /\ work[s].pc = "status" => content[s] = "cut"

ReadyIsCut(s) ==
    snap[s] # Absent /\ snap[s].ready /\ ~snap[s].deleting => content[s] = "cut"

\* Who needs the claim: the snapshots that are cut, or will be by the next call.
NeedsSource(s) == /\ snap[s] # Absent /\ ~snap[s].deleting
                  /\ content[s] = "cutting" \/ work[s].pc = "create"
Protected == pvc # Absent /\ pvc.fin
HeldFor(s) == NeedsSource(s) => Protected \/ "open" \in lapses

\* Somebody will look for the finalizer, or knows a snapshot that will.
WillLook(s) == /\ snap[s] # Absent
               /\ work[s].pc = "release" => work[s].unseen \/ work[s].users # {}
SomeoneLooks ==
    Protected => "forgotten" \in lapses \/ \E s \in Snapshots : WillLook(s)

Protection == /\ Untouched /\ CopiesLag /\ SomeoneLooks
              /\ \A s \in Snapshots : HandOf(s) /\ ReadyIsCut(s) /\ HeldFor(s)

-----------------------------------------------------------------------------
(* Records *)

LEMMA SnapshotFields ==
    ASSUME NEW STATE s, s \in Snapshot
    PROVE  s.deleting \in BOOLEAN /\ s.held \in BOOLEAN /\ s.ready \in BOOLEAN /\ s # Absent
  BY AbsentAssumption DEF Snapshot

LEMMA ClaimFields ==
    ASSUME NEW STATE c, c \in Claim
    PROVE  c.fin \in BOOLEAN /\ c.deleting \in BOOLEAN /\ c # Absent
  BY AbsentAssumption DEF Claim

LEMMA SnapshotUpdates ==
    ASSUME NEW STATE s, s \in Snapshot
    PROVE  /\ \A b \in BOOLEAN :
                 LET t == [s EXCEPT !.held = b]
                 IN /\ t \in Snapshot /\ t.held = b
                    /\ t.deleting = s.deleting /\ t.ready = s.ready
           /\ LET t == [s EXCEPT !.ready = TRUE]
              IN /\ t \in Snapshot /\ t.ready
                 /\ t.deleting = s.deleting /\ t.held = s.held
           /\ LET t == [s EXCEPT !.deleting = TRUE]
              IN /\ t \in Snapshot /\ t.deleting
                 /\ t.ready = s.ready /\ t.held = s.held
  BY DEF Snapshot

LEMMA ClaimUpdates ==
    ASSUME NEW STATE c, c \in Claim
    PROVE  /\ \A b \in BOOLEAN :
                 LET t == [c EXCEPT !.fin = b]
                 IN t \in Claim /\ t.fin = b /\ t.deleting = c.deleting
           /\ LET t == [c EXCEPT !.deleting = TRUE]
              IN t \in Claim /\ t.fin = c.fin /\ t.deleting
  BY DEF Claim

LEMMA WorkFields ==
    ASSUME NEW STATE w, w \in Work
    PROVE  /\ w.snap \in Snapshot \cup {Absent} /\ w.claim \in Claim \cup {Absent}
           /\ w.last \in BOOLEAN /\ w.unseen \in BOOLEAN
           /\ w.listed \subseteq Snapshots /\ w.users \subseteq Snapshots
           /\ w # Again
  BY DEF Work, Again, Idle

LEMMA IdleWork == Idle \in Work /\ Idle.pc = "idle" /\ Idle.snap = Absent
  BY DEF Idle, Work

-----------------------------------------------------------------------------
(* What a worker goes on with *)

\* The results of AfterFinalizer, AfterFirstCheck and ReleaseStep.
Finished(w)   == w \in {Idle, Again}
ToCreate(w)   == w.pc = "create" /\ ProtectedInCache
ToProtect(w)  == w.pc = "protect" /\ w.claim \in Claim
ToUnprotect(s, w) ==
    /\ w.pc = "unprotect" /\ w.last /\ w.listed = Listed
    /\ \A t \in Listed : t = s \/ seen[t].ready
ToRelease(w)  ==
    /\ w.pc = "release"
    /\ \/ w.users # {}
       \/ Protected => w.unseen

FollowsFinalizer(s, c, w) ==
    \/ Finished(w)
    \/ /\ w \in Work /\ w.snap = c
       /\ \/ w.pc = "status" /\ content[s] = "cut"
          \/ (ToCreate(w) \/ ToProtect(w)) /\ content[s] = "none" /\ ~c.ready

FollowsRelease(s, c, w) ==
    w \in Work /\ w.snap = c /\ (ToUnprotect(s, w) \/ ToRelease(w))

FollowsCheck(s, c, w) ==
    \/ c.deleting /\ FollowsRelease(s, c, w)
    \/ c.deleting /\ w \in Work /\ w.snap = c /\ w.pc = "dispose"
    \/ w \in Work /\ w.snap = c /\ w.pc = "addFinalizer"
    \/ ~c.deleting /\ c.held /\ FollowsFinalizer(s, c, w)

LEMMA AfterFinalizerFollows ==
    ASSUME TypeOK, NEW s \in Snapshots, NEW STATE c, c \in Snapshot
    PROVE  FollowsFinalizer(s, c, AfterFinalizer(s, c))
<1> DEFINE pc == ContentStep(s, c)
           w == [Idle EXCEPT !.pc = pc, !.snap = c,
                             !.claim = IF pc = "protect" THEN pvcSeen ELSE Absent]
<1>1. CASE c.ready \/ content[s] = "cutting"
  <2>1. AfterFinalizer(s, c) = Idle
    BY <1>1 DEF AfterFinalizer, ContentStep
  <2> QED BY <2>1 DEF FollowsFinalizer, Finished
<1>2. CASE ~c.ready /\ content[s] = "none"
  <2>1. pc = ProtectionStep
    BY <1>2 DEF ContentStep
  <2>2. CASE ProtectedInCache
    <3>1. pc = "create"
      BY <2>1, <2>2 DEF ProtectionStep, ProtectedInCache
    <3>2. AfterFinalizer(s, c) = w
      BY <3>1 DEF AfterFinalizer
    <3>3. w \in Work /\ w.pc = "create" /\ w.snap = c
      BY <3>1 DEF Idle, Work
    <3> QED BY <1>2, <2>2, <3>2, <3>3 DEF FollowsFinalizer, ToCreate
  <2>3. CASE pvcSeen # Absent /\ ~pvcSeen.fin /\ ~pvcSeen.deleting
    <3>1. pc = "protect"
      BY <2>1, <2>3 DEF ProtectionStep, ProtectedInCache
    <3>2. pvcSeen \in Claim
      BY <2>3 DEF TypeOK
    <3>3. AfterFinalizer(s, c) = w
      BY <3>1 DEF AfterFinalizer
    <3>4. w \in Work /\ w.pc = "protect" /\ w.snap = c /\ w.claim = pvcSeen
      BY <3>1, <3>2 DEF Idle, Work
    <3> QED BY <1>2, <3>2, <3>3, <3>4 DEF FollowsFinalizer, ToProtect
  <2>4. CASE ~ProtectedInCache /\ ~(pvcSeen # Absent /\ ~pvcSeen.fin /\ ~pvcSeen.deleting)
    <3>1. AfterFinalizer(s, c) = Again
      BY <2>1, <2>4 DEF AfterFinalizer, ProtectionStep
    <3> QED BY <3>1 DEF FollowsFinalizer, Finished
  <2> QED BY <2>2, <2>3, <2>4
<1>3. CASE ~c.ready /\ content[s] = "cut"
  <2>1. pc = "status"
    BY <1>3 DEF ContentStep
  <2>2. AfterFinalizer(s, c) = w
    BY <2>1 DEF AfterFinalizer
  <2>3. w \in Work /\ w.pc = "status" /\ w.snap = c
    BY <2>1 DEF Idle, Work
  <2> QED BY <1>3, <2>2, <2>3 DEF FollowsFinalizer
<1> QED BY <1>1, <1>2, <1>3 DEF TypeOK, Contents

LEMMA ReleaseStepFollows ==
    ASSUME TypeOK, NEW s \in Snapshots, NEW STATE c, c \in Snapshot
    PROVE  FollowsRelease(s, c, ReleaseStep(s, c))
<1> DEFINE users == IF ProtectedInCache THEN Users(s, TRUE) ELSE {}
           unseen == pvc # Absent /\ pvc.fin /\ ~ProtectedInCache
           u == [Idle EXCEPT !.snap = c, !.last = TRUE, !.pc = "unprotect", !.listed = Listed]
           r == [Idle EXCEPT !.snap = c, !.last = TRUE, !.pc = "release",
                             !.users = users, !.unseen = unseen]
<1>1. Users(s, TRUE) \subseteq Snapshots /\ Listed \subseteq Snapshots
  BY DEF Users, Listed
<1>2. CASE LastCheck(s)
  <2>1. ReleaseStep(s, c) = u
    BY <1>2 DEF ReleaseStep
  <2>2. u \in Work /\ u.snap = c /\ u.pc = "unprotect" /\ u.last /\ u.listed = Listed
    BY <1>1 DEF Idle, Work
  <2>3. \A t \in Listed : t = s \/ seen[t].ready
    BY <1>2 DEF LastCheck, Users, Listed
  <2> QED BY <2>1, <2>2, <2>3 DEF FollowsRelease, ToUnprotect
<1>3. CASE ~LastCheck(s)
  <2>1. ReleaseStep(s, c) = r
    BY <1>3 DEF ReleaseStep
  <2>2. unseen \in BOOLEAN /\ users \subseteq Snapshots
    BY <1>1, ClaimFields DEF TypeOK, ProtectedInCache
  <2>3. r \in Work /\ r.snap = c /\ r.pc = "release" /\ r.users = users /\ r.unseen = unseen
    BY <2>2 DEF Idle, Work
  <2>4. users # {} \/ (Protected => unseen)
    BY <1>3 DEF LastCheck, Protected
  <2> QED BY <2>1, <2>3, <2>4 DEF FollowsRelease, ToRelease
<1> QED BY <1>2, <1>3

LEMMA AfterFirstCheckFollows ==
    ASSUME TypeOK, NEW s \in Snapshots, NEW STATE c, c \in Snapshot
    PROVE  FollowsCheck(s, c, AfterFirstCheck(s, c))
<1>1. CASE c.deleting /\ content[s] = "none"
  <2>1. AfterFirstCheck(s, c) = ReleaseStep(s, c)
    BY <1>1 DEF AfterFirstCheck
  <2> QED BY <1>1, <2>1, ReleaseStepFollows DEF FollowsCheck
<1>2. CASE c.deleting /\ content[s] # "none"
  <2> DEFINE w == [Idle EXCEPT !.pc = "dispose", !.snap = c]
  <2>1. AfterFirstCheck(s, c) = w
    BY <1>2 DEF AfterFirstCheck
  <2>2. w \in Work /\ w.pc = "dispose" /\ w.snap = c
    BY DEF Idle, Work
  <2> QED BY <1>2, <2>1, <2>2 DEF FollowsCheck
<1>3. CASE ~c.deleting /\ ~c.held
  <2> DEFINE w == [Idle EXCEPT !.pc = "addFinalizer", !.snap = c]
  <2>1. AfterFirstCheck(s, c) = w
    BY <1>3 DEF AfterFirstCheck
  <2>2. w \in Work /\ w.pc = "addFinalizer" /\ w.snap = c
    BY DEF Idle, Work
  <2> QED BY <1>3, <2>1, <2>2 DEF FollowsCheck
<1>4. CASE ~c.deleting /\ c.held
  <2>1. AfterFirstCheck(s, c) = AfterFinalizer(s, c)
    BY <1>4 DEF AfterFirstCheck
  <2> QED BY <1>4, <2>1, AfterFinalizerFollows DEF FollowsCheck
<1> QED BY <1>1, <1>2, <1>3, <1>4, SnapshotFields

\* The end of a step, whatever follows.
LEMMA ToWork ==
    ASSUME TypeOK, NEW s \in Snapshots, NEW STATE w, w \in Work \cup {Again}, To(s, w)
    PROVE  /\ queue' \subseteq Snapshots
           /\ work' \in [Snapshots -> Work]
           /\ work'[s] = (IF w = Again THEN Idle ELSE w)
           /\ \A t \in Snapshots \ {s} : work'[t] = work[t]
  BY IdleWork DEF To, TypeOK

LEMMA FollowsWork ==
    ASSUME NEW s \in Snapshots, NEW STATE c, c \in Snapshot, NEW STATE w,
           FollowsFinalizer(s, c, w) \/ FollowsRelease(s, c, w) \/ FollowsCheck(s, c, w)
    PROVE  /\ w \in Work \cup {Again}
           /\ w \in {Idle, Again} \/ w.snap = c
           /\ w \in Work /\ w.pc # "idle" => w.snap = c
           /\ w \in Work /\ w.pc = "protect" => w.claim \in Claim
  BY IdleWork, WorkFields
     DEF FollowsFinalizer, FollowsRelease, FollowsCheck, Finished,
         ToCreate, ToProtect, ToUnprotect, ToRelease

-----------------------------------------------------------------------------
(* Calls *)

\* A call that does not fail is one the server accepts.
LEMMA Answered ==
    ASSUME TypeOK, NEW STATE accepted, NEW reply \in Replies, Answer(accepted, reply)
    PROVE  budget' \in 0 .. MaxFaults /\ (reply # "error" => accepted)
  BY MaxFaultsAssumption DEF TypeOK, Answer, Spend

LEMMA NoteType ==
    ASSUME TypeOK, NEW STATE happened, NEW lapse \in Lapses, Note(lapse, happened)
    PROVE  lapses' \subseteq Lapses
  BY DEF TypeOK, Note

LEMMA KeptClaim ==
    ASSUME NEW STATE c, c \in Claim
    PROVE  KeepClaim(c) \in {c, Absent} /\ (c.fin => KeepClaim(c) = c)
  BY DEF KeepClaim

-----------------------------------------------------------------------------
(* Type correctness *)

LEMMA TypedInit == Init => Typed
<1> SUFFICES ASSUME Init PROVE Typed
  OBVIOUS
<1>1. pvc \in Claim
  BY DEF Init, Claim
<1> QED BY <1>1, MaxFaultsAssumption, IdleWork
        DEF Init, Typed, TypeOK, WorkHasCopies, Contents, Lapses

\* What a worker leaves alone, and what its step must show.
LEMMA TypedWorker ==
    ASSUME Typed, NEW s \in Snapshots, NEW STATE w, w \in Work \cup {Again}, To(s, w),
           w \in Work /\ w.pc # "idle" => w.snap \in Snapshot,
           w \in Work /\ w.pc = "protect" => w.claim \in Claim,
           UNCHANGED <<pvcSeen, seen, left>>,
           pvc' \in Claim \cup {Absent}, snap' \in [Snapshots -> Snapshot \cup {Absent}],
           content' \in [Snapshots -> Contents],
           budget' \in 0 .. MaxFaults, lapses' \subseteq Lapses
    PROVE  Typed'
<1>1. /\ queue' \subseteq Snapshots /\ work' \in [Snapshots -> Work]
      /\ work'[s] = (IF w = Again THEN Idle ELSE w)
      /\ \A t \in Snapshots \ {s} : work'[t] = work[t]
  BY ToWork DEF Typed
<1> QED BY <1>1, IdleWork DEF Typed, TypeOK, WorkHasCopies

LEMMA TypedTakeSnapshot == ASSUME Typed, NEW s \in Snapshots, TakeSnapshot(s) PROVE Typed'
<1> DEFINE c == seen[s]
           u == [Idle EXCEPT !.pc = "unprotect", !.snap = c, !.listed = Listed]
           w == CASE c = Absent -> Idle
                  [] c # Absent /\ FirstCheck(s) -> u
                  [] OTHER -> AfterFirstCheck(s, c)
<1>1. c \in Snapshot \cup {Absent} /\ To(s, w)
  BY DEF TakeSnapshot, Typed, TypeOK
<1>2. /\ w \in Work \cup {Again}
      /\ w \in Work /\ w.pc # "idle" => w.snap \in Snapshot
      /\ w \in Work /\ w.pc = "protect" => w.claim \in Claim
  <2>1. CASE c = Absent
    BY <2>1, IdleWork
  <2>2. CASE c # Absent /\ FirstCheck(s)
    <3>1. u \in Work /\ u.pc = "unprotect" /\ u.snap = c
      BY <1>1 DEF Idle, Work, Listed
    <3> QED BY <1>1, <2>2, <3>1
  <2>3. CASE c # Absent /\ ~FirstCheck(s)
    <3>1. w = AfterFirstCheck(s, c) /\ c \in Snapshot
      BY <1>1, <2>3
    <3> QED BY <3>1, AfterFirstCheckFollows, FollowsWork DEF Typed
  <2> QED BY <2>1, <2>2, <2>3
<1>3. lapses' \subseteq Lapses
  BY NoteType DEF TakeSnapshot, Typed, Lapses
<1> QED BY <1>1, <1>2, <1>3, TypedWorker DEF TakeSnapshot, Typed, TypeOK

LEMMA TypedUnprotect ==
    ASSUME Typed, NEW s \in Snapshots, NEW reply \in Replies, Unprotect(s, reply)
    PROVE  Typed'
<1> DEFINE c == work[s].snap
           w == CASE ~work[s].last -> AfterFirstCheck(s, c)
                  [] work[s].last /\ reply = "ok" -> Call(s, "release")
                  [] OTHER -> Again
<1>1. c \in Snapshot /\ To(s, w) /\ work[s].last \in BOOLEAN
  BY WorkFields DEF Unprotect, Typed, TypeOK, WorkHasCopies
<1>2. budget' \in 0 .. MaxFaults /\ (reply # "error" => pvc # Absent)
  BY Answered DEF Unprotect, Typed
<1>3. pvc' \in Claim \cup {Absent}
  <2>1. CASE reply # "error"
    <3> DEFINE d == [pvc EXCEPT !.fin = FALSE]
    <3>1. d \in Claim /\ pvc' = KeepClaim(d)
      BY <1>2, <2>1, ClaimUpdates DEF Unprotect, Typed, TypeOK
    <3> HIDE DEF d
    <3> QED BY <3>1, KeptClaim
  <2>2. CASE reply = "error"
    BY <2>2 DEF Unprotect, Typed, TypeOK
  <2> QED BY <2>1, <2>2
<1>4. /\ w \in Work \cup {Again}
      /\ w \in Work /\ w.pc # "idle" => w.snap \in Snapshot
      /\ w \in Work /\ w.pc = "protect" => w.claim \in Claim
  <2>1. CASE ~work[s].last
    <3>1. w = AfterFirstCheck(s, c)
      BY <2>1
    <3> QED BY <1>1, <3>1, AfterFirstCheckFollows, FollowsWork DEF Typed
  <2>2. CASE work[s].last
    <3>1. Call(s, "release") \in Work /\ Call(s, "release").snap = c
          /\ Call(s, "release").pc = "release"
      BY <1>1 DEF Call, Idle, Work
    <3> QED BY <1>1, <2>2, <3>1, WorkFields
  <2> QED BY <1>1, <2>1, <2>2
<1>5. lapses' \subseteq Lapses
  BY NoteType DEF Unprotect, Typed, Lapses
<1> QED BY <1>1, <1>2, <1>3, <1>4, <1>5, TypedWorker DEF Unprotect, Typed, TypeOK

LEMMA TypedAddFinalizer ==
    ASSUME Typed, NEW s \in Snapshots, NEW reply \in Replies, AddFinalizer(s, reply)
    PROVE  Typed'
<1> DEFINE c == work[s].snap
           w == IF reply = "ok" THEN AfterFinalizer(s, c) ELSE Again
<1>1. c \in Snapshot /\ To(s, w)
  BY DEF AddFinalizer, Typed, TypeOK, WorkHasCopies
<1>2. budget' \in 0 .. MaxFaults /\ (reply # "error" => snap[s] = c)
  BY Answered DEF AddFinalizer, Typed
<1>3. snap' \in [Snapshots -> Snapshot \cup {Absent}]
  BY <1>1, <1>2, SnapshotUpdates DEF AddFinalizer, Typed, TypeOK
<1>4. FollowsFinalizer(s, c, AfterFinalizer(s, c))
  BY <1>1, AfterFinalizerFollows DEF Typed
<1>5. /\ w \in Work \cup {Again}
      /\ w \in Work /\ w.pc # "idle" => w.snap \in Snapshot
      /\ w \in Work /\ w.pc = "protect" => w.claim \in Claim
  BY <1>1, <1>4, WorkFields, FollowsWork
<1>6. lapses' \subseteq Lapses
  BY NoteType DEF AddFinalizer, Typed, Lapses
<1> QED BY <1>1, <1>2, <1>3, <1>5, <1>6, TypedWorker DEF AddFinalizer, Typed, TypeOK

\* The step of a call after which the worker is done, or calls on, or starts again.
LEMMA TypedLastCall ==
    ASSUME Typed, NEW s \in Snapshots, work[s].pc # "idle",
           To(s, Idle) \/ To(s, Again) \/ To(s, Call(s, "create")),
           UNCHANGED <<pvcSeen, seen, left>>,
           pvc' \in Claim \cup {Absent}, snap' \in [Snapshots -> Snapshot \cup {Absent}],
           content' \in [Snapshots -> Contents],
           budget' \in 0 .. MaxFaults, lapses' \subseteq Lapses
    PROVE  Typed'
<1>1. work[s].snap \in Snapshot
  BY DEF Typed, WorkHasCopies
<1>2. /\ Call(s, "create") \in Work /\ Call(s, "create").pc = "create"
      /\ Call(s, "create").snap = work[s].snap
  BY <1>1 DEF Call, Idle, Work
<1>3. CASE To(s, Idle)
  BY <1>3, IdleWork, TypedWorker
<1>4. CASE To(s, Again)
  BY <1>4, WorkFields, TypedWorker
<1>5. CASE To(s, Call(s, "create"))
  BY <1>1, <1>2, <1>5, TypedWorker
<1> QED BY <1>3, <1>4, <1>5

LEMMA TypedProtect ==
    ASSUME Typed, NEW s \in Snapshots, NEW reply \in Replies, Protect(s, reply)
    PROVE  Typed'
<1>1. budget' \in 0 .. MaxFaults /\ (reply # "error" => pvc = work[s].claim)
  BY Answered DEF Protect, Typed
<1>2. pvc' \in Claim \cup {Absent}
  BY <1>1, ClaimUpdates DEF Protect, Typed, TypeOK, WorkHasCopies
<1>3. To(s, Again) \/ To(s, Call(s, "create"))
  BY DEF Protect
<1> QED BY <1>1, <1>2, <1>3, TypedLastCall DEF Protect, Typed, TypeOK

LEMMA TypedCreateContent ==
    ASSUME Typed, NEW s \in Snapshots, NEW reply \in Replies, CreateContent(s, reply)
    PROVE  Typed'
<1>1. budget' \in 0 .. MaxFaults
  BY Answered DEF CreateContent, Typed
<1>2. content' \in [Snapshots -> Contents]
  BY DEF CreateContent, Contents, Typed, TypeOK
<1>3. To(s, Again) \/ To(s, Idle)
  BY DEF CreateContent
<1> QED BY <1>1, <1>2, <1>3, TypedLastCall DEF CreateContent, Typed, TypeOK

LEMMA TypedUpdateStatus ==
    ASSUME Typed, NEW s \in Snapshots, NEW reply \in Replies, UpdateStatus(s, reply)
    PROVE  Typed'
<1>1. budget' \in 0 .. MaxFaults /\ (reply # "error" => snap[s] # Absent)
  BY Answered DEF UpdateStatus, Typed
<1>2. snap' \in [Snapshots -> Snapshot \cup {Absent}]
  <2> DEFINE t == [snap[s] EXCEPT !.ready = TRUE]
  <2>1. reply # "error" => snap[s] \in Snapshot
    BY <1>1 DEF Typed, TypeOK
  <2>2. reply # "error" => t \in Snapshot
    BY <2>1, SnapshotUpdates
  <2>3. snap' = IF reply = "error" THEN snap ELSE [snap EXCEPT ![s] = t]
    BY DEF UpdateStatus
  <2> HIDE DEF t
  <2> QED BY <2>2, <2>3 DEF Typed, TypeOK
<1>3. To(s, Again) \/ To(s, Idle)
  BY DEF UpdateStatus
<1> QED BY <1>1, <1>2, <1>3, TypedLastCall DEF UpdateStatus, Typed, TypeOK

LEMMA TypedDisposeOfContent ==
    ASSUME Typed, NEW s \in Snapshots, NEW reply \in Replies, DisposeOfContent(s, reply)
    PROVE  Typed'
<1> DEFINE c == work[s].snap
           w == IF reply = "ok" THEN ReleaseStep(s, c) ELSE Again
<1>1. c \in Snapshot /\ To(s, w)
  BY DEF DisposeOfContent, Typed, TypeOK, WorkHasCopies
<1>2. budget' \in 0 .. MaxFaults
  BY Answered DEF DisposeOfContent, Typed
<1>3. content' \in [Snapshots -> Contents]
  BY DEF DisposeOfContent, Contents, Typed, TypeOK
<1>4. FollowsRelease(s, c, ReleaseStep(s, c))
  BY <1>1, ReleaseStepFollows DEF Typed
<1>5. /\ w \in Work \cup {Again}
      /\ w \in Work /\ w.pc # "idle" => w.snap \in Snapshot
      /\ w \in Work /\ w.pc = "protect" => w.claim \in Claim
  BY <1>1, <1>4, WorkFields, FollowsWork
<1> QED BY <1>1, <1>2, <1>3, <1>5, TypedWorker DEF DisposeOfContent, Typed, TypeOK

LEMMA TypedReleaseSnapshot ==
    ASSUME Typed, NEW s \in Snapshots, NEW reply \in Replies, ReleaseSnapshot(s, reply)
    PROVE  Typed'
<1>1. budget' \in 0 .. MaxFaults
  BY Answered DEF ReleaseSnapshot, Typed
<1>2. work[s].snap \in Snapshot
  BY DEF ReleaseSnapshot, Typed, WorkHasCopies
<1>3. snap' \in [Snapshots -> Snapshot \cup {Absent}]
  <2> DEFINE t == [work[s].snap EXCEPT !.held = FALSE]
  <2>1. t \in Snapshot
    BY <1>2, SnapshotUpdates
  <2>2. \/ snap' = [snap EXCEPT ![s] = KeepSnapshot(t)]
        \/ snap' = [snap EXCEPT ![s] = snap[s]]
    BY DEF ReleaseSnapshot
  <2> HIDE DEF t
  <2> QED BY <2>1, <2>2 DEF KeepSnapshot, Typed, TypeOK
<1>4. To(s, Again) \/ To(s, Idle)
  BY DEF ReleaseSnapshot
<1>5. lapses' \subseteq Lapses
  BY NoteType DEF ReleaseSnapshot, Typed, Lapses
<1> QED BY <1>1, <1>3, <1>4, <1>5, TypedLastCall DEF ReleaseSnapshot, Typed, TypeOK

LEMMA TypedRestartController == ASSUME Typed, RestartController PROVE Typed'
<1>1. budget' \in 0 .. MaxFaults
  BY MaxFaultsAssumption DEF RestartController, Spend, Typed, TypeOK
<1> QED BY <1>1, IdleWork DEF RestartController, Typed, TypeOK, WorkHasCopies

LEMMA TypedUserDeletesClaim == ASSUME Typed, UserDeletesClaim PROVE Typed'
<1>1. pvc' \in Claim \cup {Absent}
  BY ClaimUpdates, KeptClaim DEF UserDeletesClaim, Typed, TypeOK
<1> QED BY <1>1 DEF UserDeletesClaim, Typed, TypeOK, WorkHasCopies

LEMMA TypedOthers ==
    ASSUME Typed, NEW s \in Snapshots,
           \/ DriverCuts(s) \/ DeliverSnapshot(s)
           \/ UserTakesSnapshot(s) \/ UserDeletesSnapshot(s)
    PROVE  Typed'
<1>1. CASE DriverCuts(s)
  BY <1>1 DEF DriverCuts, Typed, TypeOK, WorkHasCopies, Contents
<1>2. CASE DeliverSnapshot(s)
  BY <1>2 DEF DeliverSnapshot, Typed, TypeOK, WorkHasCopies
<1>3. CASE UserTakesSnapshot(s)
  <2>1. [deleting |-> FALSE, held |-> FALSE, ready |-> FALSE] \in Snapshot
    BY DEF Snapshot
  <2> QED BY <1>3, <2>1 DEF UserTakesSnapshot, Typed, TypeOK, WorkHasCopies
<1>4. CASE UserDeletesSnapshot(s)
  <2>1. lapses' \subseteq Lapses
    BY <1>4, NoteType DEF UserDeletesSnapshot, Typed, Lapses
  <2> DEFINE t == [snap[s] EXCEPT !.deleting = TRUE]
  <2>2. snap[s] \in Snapshot
    BY <1>4 DEF UserDeletesSnapshot, Typed, TypeOK
  <2>3. t \in Snapshot
    BY <2>2, SnapshotUpdates
  <2>4. snap' = [snap EXCEPT ![s] = KeepSnapshot(t)]
    BY <1>4 DEF UserDeletesSnapshot
  <2> HIDE DEF t
  <2>5. snap' \in [Snapshots -> Snapshot \cup {Absent}]
    BY <2>3, <2>4 DEF KeepSnapshot, Typed, TypeOK
  <2> QED BY <1>4, <2>1, <2>5 DEF UserDeletesSnapshot, Typed, TypeOK, WorkHasCopies
<1> QED BY <1>1, <1>2, <1>3, <1>4

LEMMA TypedNext == Typed /\ [Next]_vars => Typed'
<1> SUFFICES ASSUME Typed, [Next]_vars PROVE Typed'
  OBVIOUS
<1>1. ASSUME NEW s \in Snapshots, Worker(s) PROVE Typed'
  BY <1>1, TypedTakeSnapshot, TypedUnprotect, TypedAddFinalizer, TypedProtect,
     TypedCreateContent, TypedUpdateStatus, TypedDisposeOfContent, TypedReleaseSnapshot
     DEF Worker
<1>2. ASSUME NEW s \in Snapshots,
             \/ DriverCuts(s) \/ DeliverSnapshot(s)
             \/ UserTakesSnapshot(s) \/ UserDeletesSnapshot(s)
      PROVE Typed'
  BY <1>2, TypedOthers
<1>3. CASE DeliverClaim
  BY <1>3 DEF DeliverClaim, Typed, TypeOK, WorkHasCopies
<1>4. CASE Resync
  BY <1>4 DEF Resync, Listed, Typed, TypeOK, WorkHasCopies
<1>5. CASE RestartController
  BY <1>5, TypedRestartController
<1>6. CASE UserDeletesClaim
  BY <1>6, TypedUserDeletesClaim
<1>7. CASE UNCHANGED vars
  BY <1>7 DEF vars, Typed, TypeOK, WorkHasCopies
<1> QED BY <1>1, <1>2, <1>3, <1>4, <1>5, <1>6, <1>7 DEF Next

\* The types of all variables, for any number of snapshots and of faults.
THEOREM TypeCorrect == Spec => []TypeOK
<1>1. Typed => TypeOK
  BY DEF Typed
<1> QED BY <1>1, TypedInit, TypedNext, PTL DEF Spec

-----------------------------------------------------------------------------
(* A step of one worker *)

\* The server's snapshot stays what its copies say, or goes.
Grows(s) ==
    snap'[s] # Absent
      => /\ snap[s] # Absent
         /\ snap[s].deleting => snap'[s].deleting
         /\ snap[s].ready => snap'[s].ready
         /\ snap[s].held => snap'[s].held

\* Each worker changes its own snapshot and content; the claim is shared.
StepOf(s) ==
    /\ UNCHANGED <<pvcSeen, seen, left>> /\ lapses \subseteq lapses'
    /\ \A t \in Snapshots \ {s} :
          work'[t] = work[t] /\ snap'[t] = snap[t] /\ content'[t] = content[t]
    /\ Grows(s)
    /\ work'[s].snap \in {Absent, seen[s], work[s].snap}
    /\ snap'[s] = Absent /\ snap[s] # Absent /\ seen[s] # Absent => seen[s].deleting
    /\ s \in left => work'[s] = Idle /\ UNCHANGED <<snap, content>>

\* What a step must still show.  Other workers find what they found as good as before.
LEMMA OtherHands ==
    ASSUME Typed, Typed', Protection, NEW s \in Snapshots, StepOf(s),
           NEW t \in Snapshots \ {s}
    PROVE  HandOf(t)' /\ ReadyIsCut(t)'
<1>1. HandOf(t) /\ ReadyIsCut(t)
  BY DEF Protection
<1>2. /\ work'[t] = work[t] /\ snap'[t] = snap[t] /\ content'[t] = content[t]
      /\ left' = left
  BY DEF StepOf
<1>3. ASSUME NEW x \in work[t].listed, Passed(t, x) PROVE Passed(t, x)'
  <2>1. x \in Snapshots
    BY WorkFields DEF Typed, TypeOK
  <2>2. x # s => snap'[x] = snap[x]
    BY <2>1 DEF StepOf
  <2> QED BY <1>2, <1>3, <2>2 DEF Passed, StepOf, Grows
<1>4. HandOf(t)'
  BY <1>1, <1>2, <1>3 DEF HandOf
<1>5. ReadyIsCut(t)'
  BY <1>1, <1>2 DEF ReadyIsCut
<1> QED BY <1>4, <1>5

LEMMA StepCopies ==
    ASSUME Typed, Typed', Protection, NEW s \in Snapshots, StepOf(s)
    PROVE  (Untouched /\ CopiesLag)'
<1>1. Untouched'
  BY DEF Protection, Untouched, StepOf, Typed, TypeOK
<1>2. ASSUME NEW t \in Snapshots
      PROVE  /\ Recent(t, seen[t])' /\ Recent(t, work[t].snap)'
             /\ seen'[t] # Absent /\ work'[t].snap # Absent /\ work'[t].snap.deleting
                  => seen'[t].deleting
             /\ seen'[t] # Absent /\ seen'[t].held /\ ~seen'[t].deleting
                  => snap'[t] # Absent /\ snap'[t].held
  <2>1. /\ Recent(t, seen[t]) /\ Recent(t, work[t].snap)
        /\ seen[t] # Absent /\ work[t].snap # Absent /\ work[t].snap.deleting
             => seen[t].deleting
        /\ seen[t] # Absent /\ seen[t].held /\ ~seen[t].deleting
             => snap[t] # Absent /\ snap[t].held
    BY DEF Protection, CopiesLag
  <2>2. CASE t = s
    BY <2>1, <2>2 DEF StepOf, Grows, Recent
  <2>3. CASE t # s
    BY <2>1, <2>3 DEF StepOf, Recent
  <2> QED BY <2>2, <2>3
<1> QED BY <1>1, <1>2 DEF CopiesLag

\* A step that leaves the claim its finalizer, or notes that it does not.
LEMMA StepProtection ==
    ASSUME Typed, Typed', Protection, NEW s \in Snapshots, StepOf(s),
           HandOf(s)', ReadyIsCut(s)', HeldFor(s)',
           (Protected => Protected') \/ (\A t \in Snapshots : HeldFor(t)'), SomeoneLooks'
    PROVE  Protection'
<1>1. (Untouched /\ CopiesLag)'
  BY StepCopies
<1>2. ASSUME NEW t \in Snapshots PROVE (HandOf(t) /\ ReadyIsCut(t) /\ HeldFor(t))'
  <2>1. CASE t = s
    BY <2>1
  <2>2. CASE t # s
    <3>1. HandOf(t)' /\ ReadyIsCut(t)'
      BY <2>2, OtherHands
    <3>2. HeldFor(t)'
      BY <2>2 DEF Protection, HeldFor, NeedsSource, StepOf
    <3> QED BY <3>1, <3>2
  <2> QED BY <2>1, <2>2
<1> QED BY <1>1, <1>2 DEF Protection

\* A worker that is not about to let its snapshot go will look for the finalizer.
LEMMA StepLooks ==
    ASSUME Typed, Typed', Protection, NEW s \in Snapshots, StepOf(s),
           Protected' => Protected, snap[s] # Absent => snap'[s] # Absent,
           work'[s].pc = "release" /\ Protected' => work'[s].unseen \/ work'[s].users # {}
    PROVE  SomeoneLooks'
<1> SUFFICES ASSUME Protected', "forgotten" \notin lapses'
             PROVE  \E t \in Snapshots : WillLook(t)'
  BY DEF SomeoneLooks
<1>1. PICK t \in Snapshots : WillLook(t)
  BY DEF Protection, SomeoneLooks, StepOf
<1>2. WillLook(t)'
  <2>1. CASE t = s
    BY <1>1, <2>1 DEF WillLook
  <2>2. CASE t # s
    BY <1>1, <2>2 DEF WillLook, StepOf
  <2> QED BY <2>1, <2>2
<1> QED BY <1>2

\* What the caches say of readiness holds for good.
LEMMA ListedPassed ==
    ASSUME Typed, Protection, NEW t \in Listed
    PROVE  t \in Snapshots /\ t \notin left /\ (seen[t].ready => snap[t] = Absent \/ snap[t].ready)
  BY DEF Protection, Untouched, CopiesLag, Recent, Listed, Typed, TypeOK

\* The last check of a snapshot that is deleted.
LEMMA ReleaseGoesOn ==
    ASSUME Typed, Typed', Protection, NEW s \in Snapshots, snap' = snap, left' = left,
           NEW STATE c, c \in Snapshot, c.deleting,
           NEW STATE w, FollowsRelease(s, c, w), work'[s] = w
    PROVE  /\ HandOf(s)'
           /\ work'[s].pc # "create"
           /\ work'[s].pc = "release" /\ Protected => work'[s].unseen \/ work'[s].users # {}
<1>1. ASSUME w.pc = "unprotect", NEW t \in w.listed PROVE Passed(s, t)'
  <2>1. w.last /\ t \in Listed /\ (t = s \/ seen[t].ready)
    BY <1>1 DEF FollowsRelease, ToUnprotect, ToRelease
  <2> QED BY <2>1, ListedPassed DEF Passed
<1>2. w.snap = c /\ (w.pc = "release" \/ (w.pc = "unprotect" /\ w.last))
  BY DEF FollowsRelease, ToUnprotect, ToRelease
<1>3. HandOf(s)'
  BY <1>1, <1>2 DEF HandOf
<1> QED BY <1>2, <1>3 DEF FollowsRelease, ToRelease, ToUnprotect

\* What a sync does after the first check, with a copy c of its snapshot.
LEMMA CheckGoesOn ==
    ASSUME Typed, Typed', Protection, NEW s \in Snapshots,
           snap' = snap, content' = content, left' = left,
           NEW STATE c, c \in Snapshot, c = seen[s] \/ c.ready,
           NEW STATE w, FollowsCheck(s, c, w), work'[s] = (IF w = Again THEN Idle ELSE w)
    PROVE  /\ HandOf(s)'
           /\ work'[s].pc = "create" => ProtectedInCache /\ ~c.ready
           /\ work'[s].pc = "release" /\ Protected => work'[s].unseen \/ work'[s].users # {}
<1>1. CASE c.deleting /\ FollowsRelease(s, c, w)
  <2>1. work'[s] = w
    BY <1>1, WorkFields DEF FollowsRelease
  <2> QED BY <1>1, <2>1, ReleaseGoesOn
<1>2. CASE /\ w \in Work /\ w.snap = c
           /\ \/ c.deleting /\ w.pc = "dispose"
              \/ w.pc = "addFinalizer"
  <2>1. work'[s] = w
    BY <1>2, WorkFields
  <2> QED BY <1>2, <2>1 DEF HandOf
<1>3. CASE ~c.deleting /\ c.held /\ FollowsFinalizer(s, c, w)
  <2>1. CASE Finished(w)
    <3>1. work'[s].pc = "idle"
      BY <2>1, IdleWork DEF Finished
    <3> QED BY <3>1 DEF HandOf
  <2>2. CASE ~Finished(w)
    <3>1. /\ w \in Work /\ w.snap = c /\ work'[s] = w
          /\ \/ w.pc = "status" /\ content[s] = "cut"
             \/ (ToCreate(w) \/ ToProtect(w)) /\ content[s] = "none" /\ ~c.ready
      BY <1>3, <2>2, WorkFields DEF FollowsFinalizer
    <3>2. w.pc = "protect" => snap[s] # Absent /\ snap[s].held
      BY <1>3, <3>1, SnapshotFields DEF ToCreate, Protection, CopiesLag
    <3> QED BY <3>1, <3>2 DEF HandOf, ToCreate, ToProtect
  <2> QED BY <2>1, <2>2
<1> QED BY <1>1, <1>2, <1>3 DEF FollowsCheck

LEMMA ProtectionTakeSnapshot ==
    ASSUME Typed, Typed', Protection, NEW s \in Snapshots, TakeSnapshot(s)
    PROVE  Protection'
<1> DEFINE c == seen[s]
           u == [Idle EXCEPT !.pc = "unprotect", !.snap = c, !.listed = Listed]
           w == CASE c = Absent -> Idle
                  [] c # Absent /\ FirstCheck(s) -> u
                  [] OTHER -> AfterFirstCheck(s, c)
<1>1. /\ UNCHANGED <<pvc, pvcSeen, snap, seen, content, left>> /\ To(s, w)
      /\ lapses \subseteq lapses' /\ (Believes(s) => "open" \in lapses')
      /\ work[s].pc = "idle" /\ c \in Snapshot \cup {Absent}
  BY DEF TakeSnapshot, Note, Typed, TypeOK
<1>2. /\ HandOf(s)'
      /\ work'[s].pc = "create" => ProtectedInCache
      /\ work'[s].pc = "release" /\ Protected => work'[s].unseen \/ work'[s].users # {}
      /\ work'[s].snap \in {Absent, c}
      /\ c = Absent => work'[s] = Idle
      /\ \A t \in Snapshots \ {s} : work'[t] = work[t]
  <2>1. CASE c = Absent
    <3>1. work'[s] = Idle /\ \A t \in Snapshots \ {s} : work'[t] = work[t]
      BY <1>1, <2>1, IdleWork, ToWork, WorkFields DEF Typed
    <3> QED BY <3>1, IdleWork DEF HandOf
  <2>2. CASE c # Absent /\ FirstCheck(s)
    <3>1. /\ u \in Work /\ u.pc = "unprotect" /\ u.snap = c /\ u.listed = Listed /\ ~u.last
          /\ w = u
      BY <1>1, <2>2 DEF Idle, Work, Listed
    <3>2. work'[s] = u /\ \A t \in Snapshots \ {s} : work'[t] = work[t]
      BY <1>1, <3>1, ToWork, WorkFields DEF Typed
    <3>3. \A t \in Listed : seen[t].ready
      BY <2>2 DEF FirstCheck, Users, Listed
    <3>4. s \in Listed
      BY <2>2 DEF Listed
    <3>5. ASSUME NEW t \in Listed PROVE Passed(s, t)'
      BY <1>1, <3>3, ListedPassed DEF Passed
    <3> HIDE DEF u
    <3> QED BY <2>2, <3>1, <3>2, <3>3, <3>4, <3>5 DEF HandOf
  <2>3. CASE c # Absent /\ ~FirstCheck(s)
    <3>1. w = AfterFirstCheck(s, c) /\ c \in Snapshot
      BY <1>1, <2>3
    <3>2. FollowsCheck(s, c, w)
      BY <3>1, AfterFirstCheckFollows DEF Typed
    <3> HIDE DEF w
    <3>3. /\ work'[s] = (IF w = Again THEN Idle ELSE w)
          /\ \A t \in Snapshots \ {s} : work'[t] = work[t]
          /\ w \in {Idle, Again} \/ w.snap = c
      BY <1>1, <3>1, <3>2, ToWork, FollowsWork DEF Typed
    <3>4. work'[s].snap \in {Absent, c}
      BY <3>3, IdleWork
    <3> QED BY <1>1, <2>3, <3>1, <3>2, <3>3, <3>4, CheckGoesOn
  <2> QED BY <2>1, <2>2, <2>3
<1> HIDE DEF w
<1>3. s \in left => c = Absent
  BY DEF Protection, Untouched
<1>4. StepOf(s)
  BY <1>1, <1>2, <1>3, IdleWork DEF StepOf, Grows
<1>5. ReadyIsCut(s)' /\ HeldFor(s)'
  <2>1. ReadyIsCut(s) /\ HeldFor(s)
    BY DEF Protection
  <2>2. work'[s].pc = "create" => Protected \/ Believes(s)
    BY <1>2 DEF Believes, Protected
  <2> QED BY <1>1, <2>1, <2>2 DEF ReadyIsCut, HeldFor, NeedsSource, Protected
<1>6. Protected' = Protected
  BY <1>1 DEF Protected
<1>7. SomeoneLooks'
  BY <1>1, <1>2, <1>4, <1>6, StepLooks
<1> QED BY <1>2, <1>4, <1>5, <1>6, <1>7, StepProtection

\* What a worker that has something in hand leaves alone.
LEMMA BusyWorker ==
    ASSUME Typed, Typed', Protection, NEW s \in Snapshots, work[s].pc # "idle"
    PROVE  s \notin left /\ work[s].snap \in Snapshot
  BY IdleWork DEF Protection, Untouched, Typed, WorkHasCopies

\* The end of a sync, done or to be tried again.
LEMMA StepEnds ==
    ASSUME Typed, NEW s \in Snapshots, To(s, Idle) \/ To(s, Again)
    PROVE  /\ work'[s] = Idle /\ work'[s].pc = "idle" /\ work'[s].snap = Absent
           /\ \A t \in Snapshots \ {s} : work'[t] = work[t]
           /\ HandOf(s)'
  BY IdleWork, WorkFields, ToWork DEF Typed, HandOf

LEMMA NextCall ==
    ASSUME Typed, NEW s \in Snapshots, NEW pc \in {"create", "release"}, To(s, Call(s, pc))
    PROVE  /\ work'[s].pc = pc /\ work'[s].snap = work[s].snap
           /\ \A t \in Snapshots \ {s} : work'[t] = work[t]
<1>1. work[s].snap \in Snapshot \cup {Absent}
  BY WorkFields DEF Typed, TypeOK
<1>2. Call(s, pc) \in Work /\ Call(s, pc).pc = pc /\ Call(s, pc).snap = work[s].snap
  BY <1>1 DEF Call, Idle, Work
<1> QED BY <1>2, ToWork, WorkFields DEF Typed

\* Whoever was listed is past needing the claim; whoever was not is noted.
LEMMA UnprotectedNeeds ==
    ASSUME Typed, Typed', Protection, NEW s \in Snapshots, NEW reply \in Replies,
           Unprotect(s, reply), reply # "error", work'[s].pc # "create",
           \A t \in Snapshots \ {s} : work'[t] = work[t],
           NEW t \in Snapshots
    PROVE  HeldFor(t)'
<1> SUFFICES ASSUME NeedsSource(t)', "open" \notin lapses' PROVE FALSE
  BY DEF HeldFor
<1>1. snap' = snap /\ content' = content /\ ~Overlooks(work[s]) /\ work[s].pc = "unprotect"
  BY DEF Unprotect, Note
<1>2. snap[t] # Absent /\ ~snap[t].deleting
      /\ (content[t] = "cutting" \/ (t # s /\ work[t].pc = "create"))
  BY <1>1 DEF NeedsSource
<1>3. ~snap[t].ready
  BY <1>2 DEF Protection, ReadyIsCut, HandOf
<1>4. t \in work[s].listed
  BY <1>1, <1>2, <1>3 DEF Overlooks
<1>5. Passed(s, t) /\ (work[s].last => work[s].snap.deleting)
  BY <1>1, <1>4 DEF Protection, HandOf
<1>6. t = s /\ work[s].snap.deleting
  BY <1>2, <1>3, <1>5 DEF Passed
<1>7. work[s].snap \in Snapshot
  BY <1>1, BusyWorker
<1> QED BY <1>2, <1>6, <1>7, SnapshotFields DEF Protection, CopiesLag, Recent

LEMMA ProtectionUnprotect ==
    ASSUME Typed, Typed', Protection, NEW s \in Snapshots, NEW reply \in Replies,
           Unprotect(s, reply)
    PROVE  Protection'
<1> DEFINE c == work[s].snap
           w == AfterFirstCheck(s, c)
<1>1. /\ UNCHANGED <<pvcSeen, snap, seen, content, left>> /\ work[s].pc = "unprotect"
      /\ lapses \subseteq lapses'
  BY DEF Unprotect, Note
<1>2. s \notin left /\ c \in Snapshot /\ work[s].last \in BOOLEAN
  BY <1>1, BusyWorker, WorkFields DEF Typed, TypeOK
<1>3. /\ HandOf(s)' /\ work'[s].pc # "create" /\ work'[s].snap \in {Absent, c}
      /\ \A t \in Snapshots \ {s} : work'[t] = work[t]
      /\ reply = "error" /\ work'[s].pc = "release" /\ Protected
           => work'[s].unseen \/ work'[s].users # {}
  <2>1. CASE ~work[s].last
    <3>1. To(s, w) /\ FollowsCheck(s, c, w)
      BY <1>2, <2>1, AfterFirstCheckFollows DEF Unprotect, Typed
    <3> HIDE DEF w
    <3>2. /\ work'[s] = (IF w = Again THEN Idle ELSE w)
          /\ \A t \in Snapshots \ {s} : work'[t] = work[t]
          /\ w \in {Idle, Again} \/ w.snap = c
      BY <1>2, <3>1, ToWork, FollowsWork DEF Typed
    <3>3. c.ready
      BY <1>1, <2>1 DEF Protection, HandOf
    <3>4. work'[s].snap \in {Absent, c}
      BY <3>2, IdleWork
    <3> QED BY <1>1, <1>2, <3>1, <3>2, <3>3, <3>4, CheckGoesOn
  <2>2. CASE work[s].last /\ reply = "ok"
    <3>1. To(s, Call(s, "release"))
      BY <2>2 DEF Unprotect
    <3>2. work'[s].pc = "release" /\ work'[s].snap = c
          /\ \A t \in Snapshots \ {s} : work'[t] = work[t]
      BY <3>1, NextCall
    <3>3. c.deleting
      BY <1>1, <2>2 DEF Protection, HandOf
    <3> QED BY <2>2, <3>2, <3>3 DEF HandOf
  <2>3. CASE work[s].last /\ reply # "ok"
    <3>1. To(s, Again)
      BY <2>3 DEF Unprotect
    <3> QED BY <3>1, StepEnds
  <2> QED BY <1>2, <2>1, <2>2, <2>3
<1>4. StepOf(s)
  BY <1>1, <1>2, <1>3 DEF StepOf, Grows
<1>5. ReadyIsCut(s)'
  BY <1>1 DEF Protection, ReadyIsCut
<1>6. CASE reply = "error"
  <2>1. Protected' = Protected
    BY <1>6 DEF Unprotect, Protected
  <2>2. HeldFor(s)'
    BY <1>1, <1>3, <2>1 DEF Protection, HeldFor, NeedsSource
  <2>3. SomeoneLooks'
    BY <1>1, <1>3, <1>4, <1>6, <2>1, StepLooks
  <2> QED BY <1>3, <1>4, <1>5, <2>1, <2>2, <2>3, StepProtection
<1>7. CASE reply # "error"
  <2>1. pvc # Absent /\ pvc' = KeepClaim([pvc EXCEPT !.fin = FALSE])
    BY <1>7, Answered DEF Unprotect, Typed
  <2>2. ~Protected'
    <3> DEFINE d == [pvc EXCEPT !.fin = FALSE]
    <3>1. d \in Claim /\ ~d.fin /\ pvc' = KeepClaim(d)
      BY <2>1, ClaimUpdates DEF Typed, TypeOK
    <3> HIDE DEF d
    <3> QED BY <2>1, <3>1, KeptClaim DEF Protected
  <2>3. \A t \in Snapshots : HeldFor(t)'
    BY <1>3, <1>7, UnprotectedNeeds
  <2> QED BY <1>3, <1>4, <1>5, <2>2, <2>3, StepProtection DEF SomeoneLooks
<1> QED BY <1>6, <1>7

LEMMA ProtectionAddFinalizer ==
    ASSUME Typed, Typed', Protection, NEW s \in Snapshots, NEW reply \in Replies,
           AddFinalizer(s, reply)
    PROVE  Protection'
<1> DEFINE c == work[s].snap
           w == AfterFinalizer(s, c)
           h == [snap[s] EXCEPT !.held = TRUE]
<1>1. /\ UNCHANGED <<pvc, pvcSeen, seen, content, left>> /\ work[s].pc = "addFinalizer"
      /\ lapses \subseteq lapses' /\ (Believes(s) => "open" \in lapses')
  BY DEF AddFinalizer, Note
<1>2. s \notin left /\ c \in Snapshot
  BY <1>1, BusyWorker
<1>3. snap' = IF reply = "error" THEN snap ELSE [snap EXCEPT ![s] = h]
  BY DEF AddFinalizer
<1>4. reply # "error" => /\ snap[s] = c /\ h \in Snapshot /\ h.held /\ h # Absent
                         /\ h.deleting = c.deleting /\ h.ready = c.ready
  <2>1. reply # "error" => snap[s] = c
    BY Answered DEF AddFinalizer, Typed
  <2>2. reply # "error" => snap[s] \in Snapshot
    BY <1>2, <2>1
  <2>3. reply # "error" => /\ h \in Snapshot /\ h.held
                           /\ h.deleting = snap[s].deleting /\ h.ready = snap[s].ready
    BY <2>2, SnapshotUpdates
  <2> HIDE DEF h
  <2> QED BY <2>1, <2>3, SnapshotFields
<1> HIDE DEF h
<1>5. /\ reply # "error" => snap'[s] = h /\ snap[s] = c
      /\ reply = "error" => snap'[s] = snap[s]
      /\ \A t \in Snapshots \ {s} : snap'[t] = snap[t]
  BY <1>3, <1>4 DEF Typed, TypeOK
<1>6. /\ HandOf(s)' /\ (work'[s].pc = "create" => ProtectedInCache)
      /\ work'[s].pc # "release" /\ work'[s].snap \in {Absent, c}
      /\ \A t \in Snapshots \ {s} : work'[t] = work[t]
  <2>1. CASE reply = "ok"
    <3>1. To(s, w) /\ FollowsFinalizer(s, c, w)
      BY <1>2, <2>1, AfterFinalizerFollows DEF AddFinalizer, Typed
    <3> HIDE DEF w
    <3>2. /\ work'[s] = (IF w = Again THEN Idle ELSE w)
          /\ \A t \in Snapshots \ {s} : work'[t] = work[t]
      BY <1>2, <3>1, ToWork, FollowsWork DEF Typed
    <3>3. CASE Finished(w)
      <4>1. work'[s] = Idle
        BY <3>2, <3>3 DEF Finished
      <4> QED BY <3>2, <4>1, IdleWork DEF HandOf
    <3>4. CASE ~Finished(w)
      <4>1. /\ work'[s] = w /\ w.snap = c
            /\ \/ w.pc = "status" /\ content[s] = "cut"
               \/ (ToCreate(w) \/ ToProtect(w)) /\ content[s] = "none"
        BY <3>1, <3>2, <3>4, WorkFields DEF FollowsFinalizer
      <4> QED BY <1>1, <1>4, <1>5, <2>1, <3>2, <4>1 DEF HandOf, ToCreate, ToProtect
    <3> QED BY <3>3, <3>4
  <2>2. CASE reply # "ok"
    <3>1. To(s, Again)
      BY <2>2 DEF AddFinalizer
    <3> QED BY <3>1, StepEnds
  <2> QED BY <2>1, <2>2
<1>7. snap'[s] # Absent <=> snap[s] # Absent
  BY <1>2, <1>4, <1>5, SnapshotFields
<1>8. StepOf(s)
  BY <1>1, <1>2, <1>4, <1>5, <1>6, <1>7 DEF StepOf, Grows
<1>9. ReadyIsCut(s)'
  BY <1>1, <1>4, <1>5, <1>7 DEF Protection, ReadyIsCut
<1>10. HeldFor(s)' /\ Protected' = Protected
  <2>1. HeldFor(s)
    BY DEF Protection
  <2>2. work'[s].pc = "create" => Protected \/ Believes(s)
    BY <1>6 DEF Believes, Protected
  <2> QED BY <1>1, <1>4, <1>5, <1>7, <2>1, <2>2 DEF HeldFor, NeedsSource, Protected
<1>11. SomeoneLooks'
  BY <1>6, <1>7, <1>8, <1>10, StepLooks
<1> QED BY <1>6, <1>8, <1>9, <1>10, <1>11, StepProtection

\* The worker that protects the claim, for a snapshot that is held, knows of it.
LEMMA ProtectionProtect ==
    ASSUME Typed, Typed', Protection, NEW s \in Snapshots, NEW reply \in Replies,
           Protect(s, reply)
    PROVE  Protection'
<1>1. /\ UNCHANGED <<pvcSeen, snap, seen, content, left, lapses>> /\ work[s].pc = "protect"
      /\ pvc' = IF reply = "error" THEN pvc ELSE [pvc EXCEPT !.fin = TRUE]
  BY DEF Protect
<1>2. s \notin left /\ HandOf(s) /\ ReadyIsCut(s) /\ HeldFor(s)
  BY <1>1, BusyWorker DEF Protection
<1>3. /\ HandOf(s)' /\ work'[s].pc \in {"create", "idle"}
      /\ work'[s].pc = "create" => reply # "error"
      /\ work'[s].snap \in {Absent, work[s].snap}
      /\ \A t \in Snapshots \ {s} : work'[t] = work[t]
  <2>1. CASE reply = "ok"
    <3>1. To(s, Call(s, "create"))
      BY <2>1 DEF Protect
    <3> QED BY <1>1, <1>2, <2>1, <3>1, NextCall DEF HandOf
  <2>2. CASE reply # "ok"
    <3>1. To(s, Again)
      BY <2>2 DEF Protect
    <3> QED BY <3>1, StepEnds
  <2> QED BY <2>1, <2>2
<1>4. StepOf(s)
  BY <1>1, <1>2, <1>3 DEF StepOf, Grows
<1>5. IF reply = "error" THEN Protected' = Protected ELSE Protected'
  <2> DEFINE d == [pvc EXCEPT !.fin = TRUE]
  <2>1. reply # "error" => pvc = work[s].claim /\ work[s].claim \in Claim
    BY <1>1, Answered DEF Protect, Typed, WorkHasCopies
  <2>2. reply # "error" => d \in Claim /\ d.fin
    BY <2>1, ClaimUpdates
  <2>3. reply # "error" => pvc' = d
    BY <1>1
  <2> HIDE DEF d
  <2> QED BY <1>1, <2>2, <2>3, ClaimFields DEF Protected
<1>6. ReadyIsCut(s)' /\ HeldFor(s)'
  BY <1>1, <1>2, <1>3, <1>5 DEF ReadyIsCut, HeldFor, NeedsSource
<1>7. SomeoneLooks'
  <2>1. CASE reply = "error"
    BY <1>1, <1>3, <1>4, <1>5, <2>1, StepLooks
  <2>2. CASE reply # "error"
    <3>1. WillLook(s)'
      BY <1>1, <1>2, <1>3 DEF HandOf, WillLook
    <3> QED BY <3>1 DEF SomeoneLooks
  <2> QED BY <2>1, <2>2
<1> QED BY <1>3, <1>4, <1>5, <1>6, <1>7, StepProtection

LEMMA ProtectionCreateContent ==
    ASSUME Typed, Typed', Protection, NEW s \in Snapshots, NEW reply \in Replies,
           CreateContent(s, reply)
    PROVE  Protection'
<1>1. /\ UNCHANGED <<pvc, pvcSeen, snap, seen, left, lapses>> /\ work[s].pc = "create"
      /\ content' = IF reply = "error" THEN content ELSE [content EXCEPT ![s] = "cutting"]
      /\ To(s, Idle) \/ To(s, Again)
  BY DEF CreateContent
<1>2. s \notin left /\ HandOf(s) /\ ReadyIsCut(s) /\ HeldFor(s)
  BY <1>1, BusyWorker DEF Protection
<1>3. /\ work'[s].pc = "idle" /\ work'[s].snap = Absent /\ HandOf(s)'
      /\ \A t \in Snapshots \ {s} : work'[t] = work[t] /\ content'[t] = content[t]
      /\ Protected' = Protected
  BY <1>1, StepEnds DEF Typed, TypeOK, Protected
<1>4. StepOf(s)
  BY <1>1, <1>2, <1>3 DEF StepOf, Grows
<1>5. ReadyIsCut(s)' /\ HeldFor(s)'
  BY <1>1, <1>2, <1>3 DEF HandOf, ReadyIsCut, HeldFor, NeedsSource
<1>6. SomeoneLooks'
  BY <1>1, <1>3, <1>4, StepLooks
<1> QED BY <1>3, <1>4, <1>5, <1>6, StepProtection

LEMMA ProtectionUpdateStatus ==
    ASSUME Typed, Typed', Protection, NEW s \in Snapshots, NEW reply \in Replies,
           UpdateStatus(s, reply)
    PROVE  Protection'
<1> DEFINE r == [snap[s] EXCEPT !.ready = TRUE]
<1>1. /\ UNCHANGED <<pvc, pvcSeen, seen, content, left, lapses>> /\ work[s].pc = "status"
      /\ snap' = IF reply = "error" THEN snap ELSE [snap EXCEPT ![s] = r]
      /\ To(s, Idle) \/ To(s, Again)
  BY DEF UpdateStatus
<1>2. s \notin left /\ HandOf(s) /\ ReadyIsCut(s) /\ HeldFor(s)
  BY <1>1, BusyWorker DEF Protection
<1>3. reply # "error" => snap[s] \in Snapshot
  BY Answered DEF UpdateStatus, Typed, TypeOK
<1>4. reply # "error" => /\ r.ready /\ r.deleting = snap[s].deleting /\ r.held = snap[s].held
                         /\ r # Absent /\ snap[s] # Absent
  <2>1. reply # "error" => r \in Snapshot /\ r.ready /\ r.deleting = snap[s].deleting
                           /\ r.held = snap[s].held
    BY <1>3, SnapshotUpdates
  <2> HIDE DEF r
  <2> QED BY <1>3, <2>1, SnapshotFields
<1> HIDE DEF r
<1>5. /\ work'[s].pc = "idle" /\ work'[s].snap = Absent /\ HandOf(s)'
      /\ \A t \in Snapshots \ {s} : work'[t] = work[t] /\ snap'[t] = snap[t]
      /\ Protected' = Protected /\ snap'[s] \in {snap[s], r}
      /\ reply = "error" => snap'[s] = snap[s]
  BY <1>1, StepEnds DEF Typed, TypeOK, Protected
<1>6. StepOf(s)
  BY <1>1, <1>2, <1>4, <1>5 DEF StepOf, Grows
<1>7. ReadyIsCut(s)' /\ HeldFor(s)'
  BY <1>1, <1>2, <1>5 DEF HandOf, ReadyIsCut, HeldFor, NeedsSource
<1>8. SomeoneLooks'
  BY <1>4, <1>5, <1>6, StepLooks
<1> QED BY <1>5, <1>6, <1>7, <1>8, StepProtection

LEMMA ProtectionDisposeOfContent ==
    ASSUME Typed, Typed', Protection, NEW s \in Snapshots, NEW reply \in Replies,
           DisposeOfContent(s, reply)
    PROVE  Protection'
<1> DEFINE c == work[s].snap
           w == ReleaseStep(s, c)
<1>1. /\ UNCHANGED <<pvc, pvcSeen, snap, seen, left, lapses>> /\ work[s].pc = "dispose"
      /\ content' = IF reply = "error" THEN content ELSE [content EXCEPT ![s] = "none"]
  BY DEF DisposeOfContent
<1>2. /\ s \notin left /\ c \in Snapshot /\ c.deleting
      /\ snap[s] # Absent => snap[s].deleting
  BY <1>1, BusyWorker, SnapshotFields DEF Protection, HandOf, CopiesLag, Recent
<1>3. /\ HandOf(s)' /\ work'[s].pc # "create" /\ work'[s].snap \in {Absent, c}
      /\ work'[s].pc = "release" /\ Protected => work'[s].unseen \/ work'[s].users # {}
      /\ \A t \in Snapshots \ {s} : work'[t] = work[t]
  <2>1. CASE reply = "ok"
    <3>1. To(s, w) /\ FollowsRelease(s, c, w)
      BY <1>2, <2>1, ReleaseStepFollows DEF DisposeOfContent, Typed
    <3> HIDE DEF w
    <3>2. w \in Work /\ w.snap = c
      BY <3>1 DEF FollowsRelease
    <3>3. work'[s] = w /\ \A t \in Snapshots \ {s} : work'[t] = work[t]
      BY <3>1, <3>2, ToWork, WorkFields DEF Typed
    <3> QED BY <1>1, <1>2, <3>1, <3>2, <3>3, ReleaseGoesOn
  <2>2. CASE reply # "ok"
    <3>1. To(s, Again)
      BY <2>2 DEF DisposeOfContent
    <3> QED BY <3>1, StepEnds
  <2> QED BY <2>1, <2>2
<1>4. /\ \A t \in Snapshots \ {s} : content'[t] = content[t]
      /\ Protected' = Protected
  BY <1>1 DEF Typed, TypeOK, Protected
<1>5. StepOf(s)
  BY <1>1, <1>2, <1>3, <1>4 DEF StepOf, Grows
<1>6. ReadyIsCut(s)' /\ HeldFor(s)'
  BY <1>1, <1>2 DEF ReadyIsCut, HeldFor, NeedsSource
<1>7. SomeoneLooks'
  BY <1>1, <1>3, <1>4, <1>5, StepLooks
<1> QED BY <1>3, <1>4, <1>5, <1>6, <1>7, StepProtection

\* The snapshot goes, and another will look for the finalizer, or it is noted.
LEMMA ProtectionReleaseSnapshot ==
    ASSUME Typed, Typed', Protection, NEW s \in Snapshots, NEW reply \in Replies,
           ReleaseSnapshot(s, reply)
    PROVE  Protection'
<1> DEFINE c == work[s].snap
           r == [c EXCEPT !.held = FALSE]
           to == IF reply = "error" THEN snap[s] ELSE KeepSnapshot(r)
<1>1. /\ UNCHANGED <<pvc, pvcSeen, seen, content, left>> /\ work[s].pc = "release"
      /\ lapses \subseteq lapses' /\ snap' = [snap EXCEPT ![s] = to]
      /\ To(s, Idle) \/ To(s, Again)
      /\ to = Absent /\ (work[s].unseen \/ DefersInVain(work[s])) => "forgotten" \in lapses'
  BY DEF ReleaseSnapshot, Note
<1>2. s \notin left /\ c \in Snapshot /\ c.deleting
  BY <1>1, BusyWorker DEF Protection, HandOf
<1>3. reply # "error" => snap[s] = c /\ to = Absent
  <2>1. reply # "error" => snap[s] = c
    BY Answered DEF ReleaseSnapshot, Typed
  <2>2. r.deleting /\ ~r.held
    BY <1>2, SnapshotUpdates
  <2> HIDE DEF r
  <2> QED BY <2>1, <2>2 DEF KeepSnapshot
<1>4. reply = "error" => to = snap[s]
  OBVIOUS
<1> HIDE DEF to
<1>5. /\ work'[s].pc = "idle" /\ work'[s].snap = Absent /\ HandOf(s)'
      /\ \A t \in Snapshots \ {s} : work'[t] = work[t] /\ snap'[t] = snap[t]
      /\ Protected' = Protected /\ snap'[s] = to
  BY <1>1, StepEnds DEF Typed, TypeOK, Protected
<1>6. seen[s] # Absent => seen[s].deleting
  BY <1>2, SnapshotFields DEF Protection, CopiesLag
<1>7. StepOf(s)
  BY <1>1, <1>2, <1>3, <1>4, <1>5, <1>6 DEF StepOf, Grows
<1>8. ReadyIsCut(s)' /\ HeldFor(s)'
  BY <1>1, <1>3, <1>4, <1>5 DEF Protection, ReadyIsCut, HeldFor, NeedsSource
<1>9. SomeoneLooks'
  <2> SUFFICES ASSUME Protected, "forgotten" \notin lapses'
               PROVE  \E t \in Snapshots : WillLook(t)'
    BY <1>5 DEF SomeoneLooks
  <2>1. PICK t \in Snapshots : WillLook(t)
    BY <1>1 DEF Protection, SomeoneLooks
  <2>2. CASE t # s
    BY <1>5, <2>1, <2>2 DEF WillLook
  <2>3. CASE t = s /\ reply = "error"
    BY <1>4, <1>5, <2>1, <2>3 DEF WillLook
  <2>4. CASE t = s /\ reply # "error"
    <3>1. ~DefersInVain(work[s]) /\ work[s].users # {} /\ work[s].users \subseteq Snapshots
      BY <1>1, <1>3, <2>1, <2>4, WorkFields DEF WillLook, Typed, TypeOK
    <3>2. PICK u \in work[s].users : snap[u] # Absent /\ work[u].pc # "release"
      BY <3>1 DEF DefersInVain
    <3>3. u \in Snapshots \ {s}
      BY <1>1, <3>1, <3>2
    <3>4. WillLook(u)'
      BY <1>5, <3>2, <3>3 DEF WillLook
    <3> QED BY <3>3, <3>4
  <2> QED BY <2>2, <2>3, <2>4
<1> QED BY <1>5, <1>7, <1>8, <1>9, StepProtection

-----------------------------------------------------------------------------
(* Informers, the driver, restarts, users *)

LEMMA ProtectionInit == Init => Protection
  BY IdleWork
     DEF Init, Protection, Untouched, CopiesLag, Recent, HandOf, ReadyIsCut, HeldFor,
         NeedsSource, Protected, SomeoneLooks

LEMMA ProtectionDriverCuts ==
    ASSUME Typed, Typed', Protection, NEW s \in Snapshots, DriverCuts(s)
    PROVE  Protection'
<1>1. /\ UNCHANGED <<pvc, snap, seen, work, left, lapses>> /\ content[s] = "cutting"
      /\ content'[s] = "cut" /\ \A t \in Snapshots \ {s} : content'[t] = content[t]
  BY DEF DriverCuts, Typed, TypeOK
<1>2. (Untouched /\ CopiesLag /\ SomeoneLooks)'
  BY <1>1 DEF Protection, Untouched, CopiesLag, Recent, SomeoneLooks, WillLook, Protected, Typed, TypeOK
<1>3. ASSUME NEW t \in Snapshots PROVE (HandOf(t) /\ ReadyIsCut(t) /\ HeldFor(t))'
  <2>1. HandOf(t) /\ ReadyIsCut(t) /\ HeldFor(t)
    BY DEF Protection
  <2>2. content'[t] = content[t] \/ (content[t] = "cutting" /\ content'[t] = "cut")
    BY <1>1
  <2> QED BY <1>1, <2>1, <2>2 DEF HandOf, Passed, ReadyIsCut, HeldFor, NeedsSource, Protected
<1> QED BY <1>2, <1>3 DEF Protection

LEMMA ProtectionDeliverSnapshot ==
    ASSUME Typed, Typed', Protection, NEW s \in Snapshots, DeliverSnapshot(s)
    PROVE  Protection'
<1>1. /\ UNCHANGED <<pvc, snap, content, work, left, lapses>>
      /\ \A t \in Snapshots : seen'[t] = IF t = s THEN snap[s] ELSE seen[t]
  BY DEF DeliverSnapshot, Typed, TypeOK
<1>2. Untouched'
  BY <1>1 DEF Protection, Untouched, Typed, TypeOK
<1>3. CopiesLag'
  BY <1>1, SnapshotFields DEF Protection, CopiesLag, Recent, Typed, TypeOK
<1>4. SomeoneLooks'
  BY <1>1 DEF Protection, SomeoneLooks, WillLook, Protected
<1>5. ASSUME NEW t \in Snapshots PROVE (HandOf(t) /\ ReadyIsCut(t) /\ HeldFor(t))'
  BY <1>1 DEF Protection, HandOf, Passed, ReadyIsCut, HeldFor, NeedsSource, Protected
<1> QED BY <1>2, <1>3, <1>4, <1>5 DEF Protection

LEMMA ProtectionUserTakesSnapshot ==
    ASSUME Typed, Typed', Protection, NEW s \in Snapshots, UserTakesSnapshot(s)
    PROVE  Protection'
<1> DEFINE new == [deleting |-> FALSE, held |-> FALSE, ready |-> FALSE]
<1>1. /\ UNCHANGED <<pvc, seen, content, work, lapses>> /\ left' = left \ {s}
      /\ \A t \in Snapshots : snap'[t] = IF t = s THEN new ELSE snap[t]
  BY DEF UserTakesSnapshot, Typed, TypeOK
<1>2. s \in left /\ snap[s] = Absent /\ seen[s] = Absent /\ content[s] = "none"
      /\ work[s].pc = "idle" /\ work[s].snap = Absent
  BY IdleWork DEF UserTakesSnapshot, Protection, Untouched
<1>3. new # Absent /\ ~new.ready /\ ~new.deleting
  <2>1. new \in Snapshot /\ ~new.ready /\ ~new.deleting
    BY DEF Snapshot
  <2> HIDE DEF new
  <2> QED BY <2>1, SnapshotFields
<1> HIDE DEF new
<1>4. (Untouched /\ CopiesLag)'
  BY <1>1, <1>2, <1>3 DEF Protection, Untouched, CopiesLag, Recent, Typed, TypeOK
<1>5. SomeoneLooks'
  BY <1>1, <1>2, <1>3 DEF Protection, SomeoneLooks, WillLook, Protected
<1>6. ASSUME NEW t \in Snapshots PROVE (HandOf(t) /\ ReadyIsCut(t) /\ HeldFor(t))'
  <2>1. HandOf(t) /\ ReadyIsCut(t) /\ HeldFor(t)
    BY DEF Protection
  <2>2. ASSUME NEW x \in work[t].listed, Passed(t, x) PROVE Passed(t, x)'
    <3>1. x \in Snapshots /\ x # s
      BY <1>2, <2>2, WorkFields DEF Passed, Typed, TypeOK
    <3> QED BY <1>1, <2>2, <3>1 DEF Passed
  <2>3. HandOf(t)'
    BY <1>1, <1>2, <2>1, <2>2 DEF HandOf
  <2>4. (ReadyIsCut(t) /\ HeldFor(t))'
    BY <1>1, <1>2, <1>3, <2>1 DEF ReadyIsCut, HeldFor, NeedsSource, Protected
  <2> QED BY <2>3, <2>4
<1> QED BY <1>4, <1>5, <1>6 DEF Protection

LEMMA ProtectionUserDeletesSnapshot ==
    ASSUME Typed, Typed', Protection, NEW s \in Snapshots, UserDeletesSnapshot(s)
    PROVE  Protection'
<1> DEFINE d == [snap[s] EXCEPT !.deleting = TRUE]
<1>1. /\ UNCHANGED <<pvc, seen, content, work, left>> /\ lapses \subseteq lapses'
      /\ snap[s] \in Snapshot /\ ~snap[s].deleting
      /\ ~snap[s].held /\ Protected => "forgotten" \in lapses'
  BY DEF UserDeletesSnapshot, Note, Protected, Typed, TypeOK
<1>2. \A t \in Snapshots : snap'[t] = IF t = s THEN KeepSnapshot(d) ELSE snap[t]
  BY DEF UserDeletesSnapshot, Typed, TypeOK
<1>3. d \in Snapshot /\ d.deleting /\ d.ready = snap[s].ready /\ d.held = snap[s].held
  BY <1>1, SnapshotUpdates
<1> HIDE DEF d
<1>4. /\ snap[s] # Absent /\ d # Absent
      /\ KeepSnapshot(d) = IF snap[s].held THEN d ELSE Absent
  BY <1>1, <1>3, SnapshotFields DEF KeepSnapshot
<1>5. s \notin left
  BY <1>4 DEF Protection, Untouched
<1>6. (Untouched /\ CopiesLag)'
  BY <1>1, <1>2, <1>3, <1>4, <1>5 DEF Protection, Untouched, CopiesLag, Recent, Typed, TypeOK
<1>7. SomeoneLooks'
  BY <1>1, <1>2, <1>3, <1>4 DEF Protection, SomeoneLooks, WillLook, Protected
<1>8. ASSUME NEW t \in Snapshots PROVE (HandOf(t) /\ ReadyIsCut(t) /\ HeldFor(t))'
  <2>1. HandOf(t) /\ ReadyIsCut(t) /\ HeldFor(t)
    BY DEF Protection
  <2>2. ASSUME NEW x \in work[t].listed, Passed(t, x) PROVE Passed(t, x)'
    <3>1. x \in Snapshots
      BY WorkFields DEF Typed, TypeOK
    <3> QED BY <1>1, <1>2, <1>3, <1>4, <2>2, <3>1 DEF Passed
  <2>3. HandOf(t)'
    BY <1>1, <1>2, <1>3, <1>4, <2>1, <2>2 DEF HandOf
  <2>4. (ReadyIsCut(t) /\ HeldFor(t))'
    BY <1>1, <1>2, <1>3, <1>4, <2>1 DEF ReadyIsCut, HeldFor, NeedsSource, Protected
  <2> QED BY <2>3, <2>4
<1> QED BY <1>6, <1>7, <1>8 DEF Protection

LEMMA ProtectionRestartController ==
    ASSUME Typed, Typed', Protection, RestartController PROVE Protection'
<1>1. /\ UNCHANGED <<pvc, snap, content, left, lapses>> /\ seen' = snap
      /\ \A s \in Snapshots : work'[s] = Idle
  BY DEF RestartController
<1>2. Untouched'
  BY <1>1 DEF Protection, Untouched, Typed, TypeOK
<1>3. CopiesLag'
  BY <1>1, IdleWork DEF CopiesLag, Recent
<1>4. SomeoneLooks'
  BY <1>1, IdleWork DEF Protection, SomeoneLooks, WillLook, Protected
<1>5. ASSUME NEW t \in Snapshots PROVE (HandOf(t) /\ ReadyIsCut(t) /\ HeldFor(t))'
  BY <1>1, IdleWork DEF Protection, HandOf, ReadyIsCut, HeldFor, NeedsSource, Protected
<1> QED BY <1>2, <1>3, <1>4, <1>5 DEF Protection

LEMMA ProtectionUserDeletesClaim ==
    ASSUME Typed, Typed', Protection, UserDeletesClaim PROVE Protection'
<1>1. UNCHANGED <<snap, seen, content, work, left, lapses>>
  BY DEF UserDeletesClaim
<1>2. Protected' = Protected
  <2> DEFINE d == [pvc EXCEPT !.deleting = TRUE]
  <2>1. pvc \in Claim /\ pvc # Absent /\ pvc' = KeepClaim(d)
    BY DEF UserDeletesClaim, Typed, TypeOK
  <2>2. d \in Claim /\ d.fin = pvc.fin /\ d.deleting
    BY <2>1, ClaimUpdates
  <2> HIDE DEF d
  <2> QED BY <2>1, <2>2, ClaimFields DEF KeepClaim, Protected
<1> QED BY <1>1, <1>2
        DEF Protection, Untouched, CopiesLag, Recent, HandOf, Passed, ReadyIsCut, HeldFor,
            NeedsSource, SomeoneLooks, WillLook

\* Queues and the cache of the claim are of no account.
LEMMA ProtectionUnchanged ==
    ASSUME Protection, UNCHANGED <<pvc, snap, seen, content, work, left, lapses>>
    PROVE  Protection'
  BY DEF Protection, Untouched, CopiesLag, Recent, HandOf, Passed, ReadyIsCut, HeldFor,
         NeedsSource, Protected, SomeoneLooks, WillLook

LEMMA ProtectionNext == Typed /\ Protection /\ [Next]_vars => Protection'
<1> SUFFICES ASSUME Typed, Protection, [Next]_vars PROVE Protection'
  OBVIOUS
<1>1. Typed'
  BY TypedNext
<1>2. ASSUME NEW s \in Snapshots, Worker(s) PROVE Protection'
  BY <1>1, <1>2, ProtectionTakeSnapshot, ProtectionUnprotect, ProtectionAddFinalizer,
     ProtectionProtect, ProtectionCreateContent, ProtectionUpdateStatus,
     ProtectionDisposeOfContent, ProtectionReleaseSnapshot DEF Worker
<1>3. ASSUME NEW s \in Snapshots,
             \/ DriverCuts(s) \/ DeliverSnapshot(s)
             \/ UserTakesSnapshot(s) \/ UserDeletesSnapshot(s)
      PROVE Protection'
  BY <1>1, <1>3, ProtectionDriverCuts, ProtectionDeliverSnapshot,
     ProtectionUserTakesSnapshot, ProtectionUserDeletesSnapshot
<1>4. CASE DeliverClaim \/ Resync \/ UNCHANGED vars
  BY <1>4, ProtectionUnchanged DEF DeliverClaim, Resync, vars
<1>5. CASE RestartController \/ UserDeletesClaim
  BY <1>1, <1>5, ProtectionRestartController, ProtectionUserDeletesClaim
<1> QED BY <1>2, <1>3, <1>4, <1>5 DEF Next

LEMMA ProtectionHolds == Spec => []Protection
  BY TypedInit, TypedNext, ProtectionInit, ProtectionNext, PTL DEF Spec

\* While the driver cuts a snapshot that nobody deletes, its claim is there and has the
\* finalizer, unless it was removed from under a snapshot that the cache did not list
\* (createSnapshotContent, isPVCBeingUsed).
THEOREM SourceHeldCorrect == Spec => []SourceHeld
<1>1. Protection => SourceHeld
  BY DEF Protection, HeldFor, NeedsSource, Protected, SourceHeld
<1> QED BY <1>1, ProtectionHolds, PTL

\* When the last snapshot of the claim is gone its finalizer is gone too, unless one of
\* the three races happened (removeSnapshotFinalizer).
THEOREM NotForgottenCorrect == Spec => []NotForgotten
<1>1. Protection => NotForgotten
  BY DEF Protection, SomeoneLooks, WillLook, Protected, NotForgotten
<1> QED BY <1>1, ProtectionHolds, PTL
=============================================================================
