------------------------------ MODULE Conversion ------------------------------
(***************************************************************************)
(* The conversion webhook for VolumeGroupSnapshotContent, between v1beta1   *)
(* and v1beta2, during an upgrade: components of both versions read and     *)
(* write the objects, and the API server stores every write as v1beta2.     *)
(*                                                                         *)
(* v1beta2 has a list of infos in the status, one for each snapshot of the  *)
(* group: its handles and its details (time, size, readiness).  v1beta1 has *)
(* the handles only, so the webhook puts the infos in an annotation of the  *)
(* v1beta1 object and takes them from there on the way back.  There they    *)
(* are read by encoding/json into an `any`, which takes every number for a  *)
(* float64: a time in nanoseconds comes back rounded.                       *)
(***************************************************************************)
EXTENDS Naturals

CONSTANTS
    Absent,      \* no value
    Unreadable,  \* an annotation that is not a list of infos
    Names,       \* names of contents
    Pairs,       \* pairs of a volume handle and a snapshot handle
    Details,     \* creation time, restore size and readiness of a snapshot
    NoDetails,   \* none of them
    Rounded,     \* what remains of details whose numbers went through a float64
    MaxStripped  \* how often a v1beta1 manifest replaces the annotations

Versions == {"v1", "v1beta1", "v1beta2"}

\* The list of a status: of some pairs, with details or without.  No list is empty:
\* omitempty leaves it out.
Lists    == UNION {[S -> Details \cup {NoDetails}] : S \in SUBSET Pairs \ {{}}}
OldLists == UNION {[S -> {NoDetails}] : S \in SUBSET Pairs \ {{}}}

\* note: the annotation volume-snapshot-info-list; list: volumeSnapshotInfoList of
\* v1beta2, volumeSnapshotHandlePairList of v1beta1.
Object == [version : Versions, note : Lists \cup {Absent, Unreadable},
           list : Lists \cup {Absent}]

Error == [version |-> "v1", note |-> Absent, list |-> Absent]

ASSUME DetailsAssumption == NoDetails \notin Details
ASSUME AbsentAssumption ==
    Absent # Unreadable /\ Absent \notin Lists /\ Unreadable \notin Lists
ASSUME StrippedAssumption == MaxStripped \in Nat
\* The number that is written for a float64 is read as that float64 again.  Whether
\* a number survives is left open: up to 2^53 each one does.
ASSUME RoundedAssumption ==
    /\ Rounded \in [Details -> Details]
    /\ \A d \in Details : Rounded[Rounded[d]] = Rounded[d]

-----------------------------------------------------------------------------
(* The webhook *)

HandlesOf(list) == [p \in DOMAIN list |-> NoDetails]

\* json.Unmarshal of the annotation, and the encoding of what it made.
Unmarshal(list) ==
    [p \in DOMAIN list |-> IF list[p] = NoDetails THEN NoDetails ELSE Rounded[list[p]]]

\* Changed for a check: the annotation counts only while the status has no list.
ToV1beta2IfEmpty(o) ==
    CASE o.note = Unreadable -> Error
      [] o.note = Absent \/ o.list # Absent -> [version |-> "v1beta2", note |-> Absent, list |-> o.list]
      [] OTHER -> [version |-> "v1beta2", note |-> Absent, list |-> Unmarshal(o.note)]

\* Changed for a check: the annotation is read and stays where it is.
ToV1beta2Noted(o) ==
    CASE o.note = Unreadable -> Error
      [] o.note = Absent -> [o EXCEPT !.version = "v1beta2"]
      [] OTHER -> [version |-> "v1beta2", note |-> o.note, list |-> Unmarshal(o.note)]

\* convertVolumeGroupSnapshotContentFromV1beta1ToV1beta2: the annotation, when there
\* is one, and not the list.  The annotation is exact, what is read from it is not.
ToV1beta2(o) ==
    CASE o.note = Unreadable -> Error
      [] o.note = Absent -> [o EXCEPT !.version = "v1beta2"]
      [] OTHER -> [version |-> "v1beta2", note |-> Absent, list |-> Unmarshal(o.note)]

\* convertVolumeGroupSnapshotContentFromV1beta2ToV1beta1: the infos are kept in the
\* annotation, over one that is there, and the list loses the details.
ToV1beta1(o) ==
    IF o.list = Absent THEN [o EXCEPT !.version = "v1beta1"]
    ELSE [version |-> "v1beta1", note |-> o.list, list |-> HandlesOf(o.list)]

\* convertGroupSnapshotCRD.  The server does not ask to convert a version to itself,
\* and nothing is converted to or from v1.
Convert(o, version) ==
    CASE o.version = version -> o
      [] o.version = "v1beta1" /\ version = "v1beta2" -> ToV1beta2(o)
      [] o.version = "v1beta2" /\ version = "v1beta1" -> ToV1beta1(o)
      [] OTHER -> Error

Converts(o, version) == o.version = version \/ Convert(o, version) # Error

-----------------------------------------------------------------------------
VARIABLES
    stored,    \* the objects, as the server stores them
    base,      \* what the component of each version read: a name and the object
    writer,    \* history: who wrote last
    stripped   \* how often annotations were replaced

vars == <<stored, base, writer, stripped>>

TypeOK ==
    /\ stored \in [Names -> Object]
    /\ base \in [Versions -> [name : Names, object : Object] \cup {Absent}]
    /\ writer \in Versions \cup {"nobody", "user"}
    /\ stripped \in 0 .. MaxStripped

\* Objects from before the upgrade, and after it.
Init ==
    /\ stored \in [Names -> [version : {"v1beta1"}, note : {Absent}, list : OldLists \cup {Absent}]
                            \cup [version : {"v1beta2"}, note : {Absent}, list : Lists \cup {Absent}]]
    /\ base = [v \in Versions |-> Absent]
    /\ writer = "nobody"
    /\ stripped = 0

\* doConversionV1: a list is converted as a whole, or not at all.
CanList(version) == \A n \in Names : Converts(stored[n], version)

\* A component lists the contents and takes one of them.
Read(version, n) ==
    /\ CanList(version)
    /\ base' = [base EXCEPT ![version] = [name |-> n, object |-> Convert(stored[n], version)]]
    /\ UNCHANGED <<stored, writer, stripped>>

\* The server's side of a write: the object in the writer's version is as it was read,
\* and what it becomes is converted for storage.
Write(version, n, o) ==
    /\ Converts(stored[n], version)
    /\ Converts(o, "v1beta2")
    /\ stored' = [stored EXCEPT ![n] = Convert(o, "v1beta2")]
    /\ base' = [base EXCEPT ![version] = Absent]

\* The sidecar reports the snapshots of a group: an update of the status, of which the
\* server takes nothing but the status.
UpdateStatus(version, list) ==
    LET read == base[version]
    IN /\ read # Absent /\ Convert(stored[read.name], version) = read.object
       /\ version = "v1beta1" => list \in OldLists \cup {Absent}
       /\ Write(version, read.name, [read.object EXCEPT !.list = list])
       /\ writer' = version
       /\ UNCHANGED stripped

\* A finalizer or another annotation changes: all else is as it was read.
UpdateMetadata(version) ==
    LET read == base[version]
    IN /\ read # Absent /\ Convert(stored[read.name], version) = read.object
       /\ Write(version, read.name, read.object)
       /\ writer' = version
       /\ UNCHANGED stripped

\* A user replaces the annotations of a v1beta1 object; what cannot be read is refused.
UserStrips(n, note) ==
    /\ stripped < MaxStripped
    /\ stripped' = stripped + 1
    /\ Write("v1beta1", n, [Convert(stored[n], "v1beta1") EXCEPT !.note = note])
    /\ writer' = "user"

Next ==
    \/ \E version \in Versions :
          \/ \E n \in Names : Read(version, n)
          \/ \E list \in Lists \cup {Absent} : UpdateStatus(version, list)
          \/ UpdateMetadata(version)
    \/ \E n \in Names, note \in {Absent, Unreadable} : UserStrips(n, note)

Spec == Init /\ [][Next]_vars

-----------------------------------------------------------------------------
(***************************************************************************)
(* Safety.                                                                 *)
(***************************************************************************)
\* Components of both versions can read every object at any time and see the same
\* snapshots in it, and what a v1beta1 component read converts back to what is stored
\* but for the rounding of numbers: no annotation stays behind to contradict a later
\* list (convert.go:93).
SameForBoth ==
    \A n \in Names :
        LET old == Convert(stored[n], "v1beta1")
            new == Convert(stored[n], "v1beta2")
        IN /\ Converts(stored[n], "v1beta1") /\ Converts(stored[n], "v1beta2")
           /\ old.list = (IF new.list = Absent THEN Absent ELSE HandlesOf(new.list))
           /\ ToV1beta2(old).list
                = (IF new.list = Absent THEN Absent ELSE Unmarshal(new.list))

\* Whatever list or metadata a v1beta1 component writes, the infos that are there stay,
\* each with its details, and numbers are rounded at most (convert.go:77).  A second
\* write finds numbers that rounding does not change.
OnlyRounded ==
    [][\A n \in Names :
          writer' = "v1beta1" /\ stored[n].version = "v1beta2" /\ stored[n].list # Absent
            => \/ stored'[n] = stored[n]
               \/ /\ stored'[n] = [stored[n] EXCEPT !.list = Unmarshal(@)]
                  /\ Unmarshal(stored'[n].list) = stored'[n].list]_vars
=============================================================================
