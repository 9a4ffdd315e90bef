--------------------------- MODULE ConversionProofs ---------------------------
(***************************************************************************)
(* Proofs about the module Conversion, for any contents, any list of pairs *)
(* and any details.                                                        *)
(*                                                                         *)
(* The properties alone are not inductive: what a component writes is a    *)
(* changed copy of a converted object.  The invariant Clean describes the  *)
(* objects that are stored: none carries the annotation, and the list of   *)
(* one that is still v1beta1 has no details.  A write converts a copy      *)
(* of such an object back, and ConvertedBack says what comes of it: the     *)
(* infos with their numbers rounded (Unmarshal).  RoundedForGood shows that *)
(* an info with a number that a float64 does not hold is changed by it.     *)
(***************************************************************************)
EXTENDS Conversion, TLAPS

\* What may be stored.
CleanObjects == {o \in Object : /\ o.version \in {"v1beta1", "v1beta2"}
                                /\ o.note = Absent
                                /\ o.version = "v1beta1" => o.list \in OldLists \cup {Absent}}

\* What a v1beta1 component can have read.
OldCopies == {o \in Object :
                /\ o.version = "v1beta1"
                /\ o.note \in Lists \cup {Absent}
                /\ o.note = Absent => o.list \in OldLists \cup {Absent}}

Clean == TypeOK /\ stored \in [Names -> CleanObjects]

-----------------------------------------------------------------------------
(* Lists *)

LEMMA HandlesAreOld ==
    ASSUME NEW list \in Lists
    PROVE  HandlesOf(list) \in OldLists
<1>1. PICK S \in SUBSET Pairs \ {{}} : list \in [S -> Details \cup {NoDetails}]
  BY DEF Lists
<1>2. HandlesOf(list) \in [S -> {NoDetails}]
  BY <1>1 DEF HandlesOf
<1> QED BY <1>2 DEF OldLists

LEMMA OldListsAreLists == OldLists \subseteq Lists
<1> SUFFICES ASSUME NEW list \in OldLists PROVE list \in Lists
  OBVIOUS
<1>1. PICK S \in SUBSET Pairs \ {{}} : list \in [S -> {NoDetails}]
  BY DEF OldLists
<1>2. list \in [S -> Details \cup {NoDetails}]
  BY <1>1
<1> QED BY <1>2 DEF Lists

LEMMA OldListsHaveNoDetails ==
    ASSUME NEW list \in OldLists
    PROVE  HandlesOf(list) = list
<1>1. PICK S \in SUBSET Pairs \ {{}} : list \in [S -> {NoDetails}]
  BY DEF OldLists
<1> QED BY <1>1 DEF HandlesOf

\* Reading a list from the annotation keeps its pairs, and a second time nothing
\* changes.
LEMMA UnmarshalKeepsPairs ==
    ASSUME NEW list \in Lists
    PROVE  /\ Unmarshal(list) \in Lists
           /\ HandlesOf(Unmarshal(list)) = HandlesOf(list)
           /\ Unmarshal(Unmarshal(list)) = Unmarshal(list)
<1>1. PICK S \in SUBSET Pairs \ {{}} : list \in [S -> Details \cup {NoDetails}]
  BY DEF Lists
<1>2. ASSUME NEW p \in S
      PROVE  /\ Unmarshal(list)[p] \in Details \cup {NoDetails}
             /\ Unmarshal(list)[p]
                  = IF list[p] = NoDetails THEN NoDetails ELSE Rounded[list[p]]
  BY <1>1, RoundedAssumption DEF Unmarshal
<1>3. Unmarshal(list) \in [S -> Details \cup {NoDetails}]
  BY <1>1, <1>2 DEF Unmarshal
<1>4. HandlesOf(Unmarshal(list)) = HandlesOf(list)
  BY <1>1, <1>3 DEF HandlesOf
<1>5. Unmarshal(Unmarshal(list)) = Unmarshal(list)
  <2>1. Unmarshal(Unmarshal(list)) \in [S -> Details \cup {NoDetails}]
        /\ \A p \in S : Unmarshal(Unmarshal(list))[p]
              = IF Unmarshal(list)[p] = NoDetails THEN NoDetails
                ELSE Rounded[Unmarshal(list)[p]]
    BY <1>3, RoundedAssumption DEF Unmarshal
  <2>2. ASSUME NEW p \in S
        PROVE  Unmarshal(Unmarshal(list))[p] = Unmarshal(list)[p]
    <3>1. CASE list[p] = NoDetails
      BY <1>2, <2>1, <3>1
    <3>2. CASE list[p] # NoDetails
      <4>1. list[p] \in Details
        BY <1>1, <3>2
      <4>2. /\ Rounded[list[p]] \in Details
            /\ Rounded[Rounded[list[p]]] = Rounded[list[p]]
        BY <4>1, RoundedAssumption
      <4> QED BY <1>2, <2>1, <3>2, <4>2, DetailsAssumption
    <3> QED BY <3>1, <3>2
  <2> QED BY <1>3, <2>1, <2>2
<1> QED BY <1>3, <1>4, <1>5 DEF Lists

\* v1beta1 lists have no numbers.
LEMMA OldListsAreExact ==
    ASSUME NEW list \in OldLists
    PROVE  Unmarshal(list) = list
<1>1. PICK S \in SUBSET Pairs \ {{}} : list \in [S -> {NoDetails}]
  BY DEF OldLists
<1> QED BY <1>1 DEF Unmarshal

-----------------------------------------------------------------------------
(* Objects *)

\* Which case of the webhook it is.
LEMMA ConvertCases ==
    ASSUME NEW o
    PROVE  /\ o.version = "v1beta1" => Convert(o, "v1beta1") = o
           /\ o.version = "v1beta2" => Convert(o, "v1beta2") = o
           /\ o.version = "v1beta1" => Convert(o, "v1beta2") = ToV1beta2(o)
           /\ o.version = "v1beta2" => Convert(o, "v1beta1") = ToV1beta1(o)
           /\ o.version # "v1" => Convert(o, "v1") = Error
  BY Zenon DEF Convert

LEMMA ToV1beta2Cases ==
    ASSUME NEW o
    PROVE  /\ o.note = Unreadable => ToV1beta2(o) = Error
           /\ o.note = Absent => ToV1beta2(o) = [o EXCEPT !.version = "v1beta2"]
           /\ o.note # Absent /\ o.note # Unreadable
                => ToV1beta2(o) = [version |-> "v1beta2", note |-> Absent,
                                   list |-> Unmarshal(o.note)]
  BY Zenon, AbsentAssumption DEF ToV1beta2

LEMMA AsV1beta1 ==
    ASSUME NEW o \in CleanObjects
    PROVE  /\ Convert(o, "v1beta1") \in OldCopies
           /\ o.version = "v1beta2" /\ o.list # Absent
                => Convert(o, "v1beta1") = [version |-> "v1beta1", note |-> o.list,
                                            list |-> HandlesOf(o.list)]
           /\ o.version = "v1beta1" => Convert(o, "v1beta1") = o
           /\ o.list = Absent => Convert(o, "v1beta1") = [o EXCEPT !.version = "v1beta1"]
<1>1. CASE o.version = "v1beta1"
  BY <1>1, ConvertCases DEF CleanObjects, OldCopies, Object
<1>2. CASE o.version = "v1beta2" /\ o.list = Absent
  BY <1>2, ConvertCases DEF ToV1beta1, CleanObjects, OldCopies, Object, Versions
<1>3. CASE o.version = "v1beta2" /\ o.list # Absent
  <2>1. o.list \in Lists
    BY <1>3 DEF CleanObjects, Object
  <2>2. HandlesOf(o.list) \in Lists
    BY <2>1, HandlesAreOld, OldListsAreLists
  <2>3. Convert(o, "v1beta1") = [version |-> "v1beta1", note |-> o.list,
                                 list |-> HandlesOf(o.list)]
    BY <1>3, ConvertCases DEF ToV1beta1
  <2> QED BY <1>3, <2>1, <2>2, <2>3, AbsentAssumption DEF OldCopies, Object, Versions
<1> QED BY <1>1, <1>2, <1>3 DEF CleanObjects

LEMMA AsV1beta2 ==
    ASSUME NEW o \in CleanObjects
    PROVE  /\ Convert(o, "v1beta2") \in CleanObjects
           /\ Convert(o, "v1beta2") = [o EXCEPT !.version = "v1beta2"]
<1>1. Convert(o, "v1beta2") = [o EXCEPT !.version = "v1beta2"]
  <2>1. CASE o.version = "v1beta1"
    BY <2>1, ConvertCases, ToV1beta2Cases DEF CleanObjects
  <2>2. CASE o.version = "v1beta2"
    BY <2>2, ConvertCases DEF CleanObjects, Object
  <2> QED BY <2>1, <2>2 DEF CleanObjects
<1>2. [o EXCEPT !.version = "v1beta2"] \in CleanObjects
  BY DEF CleanObjects, Object, Versions
<1> QED BY <1>1, <1>2

\* Nothing is served as v1.
LEMMA NotAsV1 ==
    ASSUME NEW o \in CleanObjects
    PROVE  ~Converts(o, "v1")
  BY ConvertCases DEF Converts, CleanObjects

\* What becomes of a v1beta1 copy with another list, or another note, in storage.
LEMMA ConvertedBack ==
    ASSUME NEW o \in Object, o.version = "v1beta1",
           o.note = Absent => o.list \in OldLists \cup {Absent},
           Converts(o, "v1beta2")
    PROVE  Convert(o, "v1beta2") \in CleanObjects
<1>1. Convert(o, "v1beta2") = ToV1beta2(o) /\ ToV1beta2(o) # Error
  BY ConvertCases DEF Converts
<1>2. CASE o.note = Absent
  BY <1>1, <1>2, ToV1beta2Cases DEF CleanObjects, Object, Versions
<1>3. CASE o.note # Absent
  <2>1. o.note # Unreadable /\ o.note \in Lists
    BY <1>1, <1>3, ToV1beta2Cases DEF Object
  <2>2. ToV1beta2(o) = [version |-> "v1beta2", note |-> Absent, list |-> Unmarshal(o.note)]
    BY <1>3, <2>1, ToV1beta2Cases
  <2>3. Unmarshal(o.note) \in Lists
    BY <2>1, UnmarshalKeepsPairs
  <2> QED BY <1>1, <2>2, <2>3 DEF CleanObjects, Object, Versions
<1> QED BY <1>2, <1>3

-----------------------------------------------------------------------------
(* The invariant *)

LEMMA CleanInit == Init => Clean
<1> SUFFICES ASSUME Init PROVE Clean
  OBVIOUS
<1>1. stored \in [Names -> CleanObjects]
  BY OldListsAreLists DEF Init, CleanObjects, Object, Versions
<1>2. stored \in [Names -> Object]
  BY <1>1 DEF CleanObjects
<1> QED BY <1>1, <1>2, StrippedAssumption DEF Init, Clean, TypeOK

\* A write of such an object, for whichever version, leaves storage clean.
LEMMA CleanWrite ==
    ASSUME Clean, NEW version \in Versions, NEW n \in Names, NEW o,
           Convert(o, "v1beta2") \in CleanObjects, Write(version, n, o)
    PROVE  /\ stored' \in [Names -> CleanObjects] /\ stored' \in [Names -> Object]
           /\ base' \in [Versions -> [name : Names, object : Object] \cup {Absent}]
  BY DEF Clean, TypeOK, Write, CleanObjects

LEMMA CleanRead ==
    ASSUME Clean, NEW version \in Versions, NEW n \in Names, Read(version, n)
    PROVE  Clean'
<1>1. Convert(stored[n], version) \in Object
  <2>1. stored[n] \in CleanObjects
    BY DEF Clean
  <2>2. version # "v1"
    BY <2>1, NotAsV1 DEF Read, CanList
  <2> QED BY <2>1, <2>2, AsV1beta1, AsV1beta2 DEF Versions, CleanObjects, OldCopies
<1>2. base' \in [Versions -> [name : Names, object : Object] \cup {Absent}]
  BY <1>1 DEF Read, Clean, TypeOK
<1> QED BY <1>2 DEF Read, Clean, TypeOK

LEMMA CleanUpdate ==
    ASSUME Clean, NEW version \in Versions, base[version] # Absent,
           Convert(stored[base[version].name], version) = base[version].object,
           NEW list \in Lists \cup {Absent},
           version = "v1beta1" => list \in OldLists \cup {Absent}
                                    \/ list = base[version].object.list,
           Write(version, base[version].name, [base[version].object EXCEPT !.list = list]),
           writer' = version, UNCHANGED stripped
    PROVE  Clean'
<1> DEFINE n == base[version].name
           o == [base[version].object EXCEPT !.list = list]
<1>1. n \in Names /\ stored[n] \in CleanObjects
  BY DEF Clean, TypeOK
<1>2. version # "v1"
  BY <1>1, NotAsV1 DEF Write
<1>3. Convert(o, "v1beta2") \in CleanObjects
  <2>1. CASE version = "v1beta2"
    <3>1. base[version].object \in CleanObjects
          /\ base[version].object.version = "v1beta2"
      BY <1>1, <2>1, AsV1beta2 DEF CleanObjects, Object
    <3> QED BY <3>1, ConvertCases DEF CleanObjects, Object
  <2>2. CASE version = "v1beta1"
    <3>1. base[version].object \in OldCopies
      BY <1>1, <2>2, AsV1beta1
    <3>2. o \in Object /\ o.version = "v1beta1"
          /\ (o.note = Absent => o.list \in OldLists \cup {Absent})
      BY <3>1, <2>2 DEF OldCopies, Object
    <3> QED BY <3>2, ConvertedBack DEF Write
  <2> QED BY <1>2, <2>1, <2>2 DEF Versions
<1>4. /\ stored' \in [Names -> CleanObjects] /\ stored' \in [Names -> Object]
      /\ base' \in [Versions -> [name : Names, object : Object] \cup {Absent}]
  BY <1>1, <1>3, CleanWrite
<1> QED BY <1>4 DEF Clean, TypeOK

LEMMA CleanStrip ==
    ASSUME Clean, NEW n \in Names, NEW note \in {Absent, Unreadable}, UserStrips(n, note)
    PROVE  Clean'
<1> DEFINE o == [Convert(stored[n], "v1beta1") EXCEPT !.note = note]
<1>1. Convert(stored[n], "v1beta1") \in OldCopies
  BY AsV1beta1 DEF Clean
<1>2. CASE note = Unreadable
  <2>1. o.version = "v1beta1" /\ o.note = Unreadable
    BY <1>1, <1>2 DEF OldCopies, Object
  <2>2. ~Converts(o, "v1beta2")
    BY <2>1, ConvertCases, ToV1beta2Cases DEF Converts
  <2> QED BY <2>2 DEF UserStrips, Write
<1>3. CASE note = Absent
  <2>1. o.list \in OldLists \cup {Absent}
    <3>1. stored[n] \in CleanObjects
      BY DEF Clean
    <3>2. CASE stored[n].version = "v1beta2" /\ stored[n].list # Absent
      BY <3>1, <3>2, AsV1beta1, HandlesAreOld DEF CleanObjects, Object
    <3>3. CASE stored[n].version = "v1beta1" \/ stored[n].list = Absent
      BY <3>1, <3>3, AsV1beta1 DEF CleanObjects, Object
    <3> QED BY <3>1, <3>2, <3>3 DEF CleanObjects
  <2>2. o \in Object /\ o.version = "v1beta1"
    BY <1>1, <1>3 DEF OldCopies, Object
  <2>3. Convert(o, "v1beta2") \in CleanObjects
    BY <2>1, <2>2, ConvertedBack DEF UserStrips, Write
  <2>4. /\ stored' \in [Names -> CleanObjects] /\ stored' \in [Names -> Object]
        /\ base' \in [Versions -> [name : Names, object : Object] \cup {Absent}]
    BY <2>3, CleanWrite DEF UserStrips, Versions
  <2> QED BY <2>4, StrippedAssumption DEF Clean, TypeOK, UserStrips
<1> QED BY <1>2, <1>3

LEMMA CleanNext == Clean /\ [Next]_vars => Clean'
<1> SUFFICES ASSUME Clean, [Next]_vars PROVE Clean'
  OBVIOUS
<1>1. ASSUME NEW version \in Versions, NEW n \in Names, Read(version, n)
      PROVE  Clean'
  BY <1>1, CleanRead
<1>2. ASSUME NEW version \in Versions, NEW list \in Lists \cup {Absent},
             UpdateStatus(version, list)
      PROVE  Clean'
  BY <1>2, CleanUpdate DEF UpdateStatus
<1>3. ASSUME NEW version \in Versions, UpdateMetadata(version)
      PROVE  Clean'
  <2>1. base[version].object \in Object
    BY <1>3 DEF UpdateMetadata, Clean, TypeOK
  <2>2. base[version].object = [base[version].object EXCEPT !.list = base[version].object.list]
        /\ base[version].object.list \in Lists \cup {Absent}
    BY <2>1 DEF Object
  <2> QED BY <1>3, <2>2, CleanUpdate DEF UpdateMetadata
<1>4. ASSUME NEW n \in Names, NEW note \in {Absent, Unreadable}, UserStrips(n, note)
      PROVE  Clean'
  BY <1>4, CleanStrip
<1>5. CASE UNCHANGED vars
  BY <1>5 DEF vars, Clean, TypeOK
<1> QED BY <1>1, <1>2, <1>3, <1>4, <1>5 DEF Next

\* Storage is clean, and everything has its type, in every reachable state.
THEOREM TypeCorrect == Spec => [](TypeOK /\ stored \in [Names -> CleanObjects])
<1>1. Clean => TypeOK /\ stored \in [Names -> CleanObjects]
  BY DEF Clean
<1> QED BY <1>1, CleanInit, CleanNext, PTL DEF Spec

-----------------------------------------------------------------------------
(* The properties *)

LEMMA SameForBothOfOne ==
    ASSUME NEW o \in CleanObjects
    PROVE  /\ Converts(o, "v1beta1") /\ Converts(o, "v1beta2")
           /\ Convert(o, "v1beta1").list = (IF Convert(o, "v1beta2").list = Absent THEN Absent
                                            ELSE HandlesOf(Convert(o, "v1beta2").list))
           /\ ToV1beta2(Convert(o, "v1beta1")).list
                = (IF Convert(o, "v1beta2").list = Absent THEN Absent
                   ELSE Unmarshal(Convert(o, "v1beta2").list))
<1>1. Converts(o, "v1beta1") /\ Converts(o, "v1beta2")
  BY AsV1beta1, AsV1beta2 DEF Converts, OldCopies, CleanObjects, Error, Object
<1>2. Convert(o, "v1beta2").list = o.list
  BY AsV1beta2 DEF CleanObjects, Object
<1>3. CASE o.version = "v1beta2" /\ o.list # Absent
  <2>1. o.list \in Lists
    BY <1>3 DEF CleanObjects, Object
  <2> QED BY <1>1, <1>2, <1>3, <2>1, AsV1beta1, ToV1beta2Cases, AbsentAssumption
<1>4. CASE o.list = Absent
  <2> DEFINE old == Convert(o, "v1beta1")
  <2>1. old \in Object /\ old.note = Absent /\ old.list = Absent
    BY <1>4, AsV1beta1 DEF CleanObjects, OldCopies, Object
  <2>2. ToV1beta2(old) = [old EXCEPT !.version = "v1beta2"]
    BY <2>1, ToV1beta2Cases
  <2>3. ToV1beta2(old).list = Absent
    BY <2>1, <2>2 DEF Object
  <2> QED BY <1>1, <1>2, <1>4, <2>1, <2>3
<1>5. CASE o.version = "v1beta1" /\ o.list # Absent
  <2>1. o.list \in OldLists
    BY <1>5 DEF CleanObjects
  <2>2. ToV1beta2(o).list = o.list
    BY ToV1beta2Cases DEF CleanObjects, Object
  <2> QED BY <1>1, <1>2, <1>5, <2>1, <2>2, AsV1beta1, OldListsHaveNoDetails,
             OldListsAreExact
<1> QED BY <1>3, <1>4, <1>5 DEF CleanObjects

\* Components of both versions can read every object and see the same snapshots in it,
\* and what a v1beta1 component read converts back to what is stored but for rounding,
\* whatever the webhook (convertGroupSnapshotCRD) was asked before.
THEOREM SameForBothCorrect == Spec => []SameForBoth
<1>1. Clean => SameForBoth
  BY SameForBothOfOne DEF Clean, SameForBoth
<1> QED BY <1>1, CleanInit, CleanNext, PTL DEF Spec

\* An update by a v1beta1 component of an object that has infos rounds their numbers.
LEMMA OldUpdateRounds ==
    ASSUME NEW o \in CleanObjects, o.version = "v1beta2", o.list # Absent, NEW list
    PROVE  Convert([Convert(o, "v1beta1") EXCEPT !.list = list], "v1beta2")
             = [o EXCEPT !.list = Unmarshal(@)]
<1> DEFINE copy == [Convert(o, "v1beta1") EXCEPT !.list = list]
<1>1. o.list \in Lists /\ o.note = Absent
  BY DEF CleanObjects, Object
<1>2. copy.version = "v1beta1" /\ copy.note = o.list
  BY AsV1beta1
<1>3. Convert(copy, "v1beta2") = [version |-> "v1beta2", note |-> Absent,
                                  list |-> Unmarshal(o.list)]
  BY <1>1, <1>2, ConvertCases, ToV1beta2Cases, AbsentAssumption
<1>4. [o EXCEPT !.list = Unmarshal(@)]
        = [version |-> "v1beta2", note |-> Absent, list |-> Unmarshal(o.list)]
  BY <1>1 DEF CleanObjects, Object
<1> QED BY <1>3, <1>4

\* Every info survives every write of a v1beta1 component with its details, through the
\* annotation (convertVolumeGroupSnapshotContentFromV1beta1ToV1beta2), and its numbers
\* are rounded at most.
THEOREM OnlyRoundedCorrect == Spec => OnlyRounded
<1> DEFINE
      Kept(n) ==
        \/ stored'[n] = stored[n]
        \/ /\ stored'[n] = [stored[n] EXCEPT !.list = Unmarshal(@)]
           /\ Unmarshal(stored'[n].list) = stored'[n].list
      AllKept ==
        \A n \in Names :
          writer' = "v1beta1" /\ stored[n].version = "v1beta2" /\ stored[n].list # Absent
            => Kept(n)
<1>1. Clean /\ [Next]_vars => AllKept
  <2> SUFFICES ASSUME Clean, [Next]_vars, NEW n \in Names, writer' = "v1beta1",
                      stored[n].version = "v1beta2", stored[n].list # Absent
               PROVE  Kept(n)
    OBVIOUS
  <2>0. stored'[n] = [stored[n] EXCEPT !.list = Unmarshal(@)] => Kept(n)
    <3>1. stored[n] \in CleanObjects /\ stored[n].list \in Lists
      BY DEF Clean, CleanObjects, Object
    <3>2. [stored[n] EXCEPT !.list = Unmarshal(@)].list = Unmarshal(stored[n].list)
      BY <3>1 DEF CleanObjects, Object
    <3> QED BY <3>1, <3>2, UnmarshalKeepsPairs
  <2>1. ASSUME NEW version \in Versions, NEW m \in Names, Read(version, m)
        PROVE  Kept(n)
    BY <2>1 DEF Read
  <2>2. ASSUME NEW version \in Versions, NEW list \in Lists \cup {Absent},
               UpdateStatus(version, list)
        PROVE  Kept(n)
    <3>1. version = "v1beta1"
      BY <2>2 DEF UpdateStatus
    <3>2. stored'[n] = stored[n] \/ n = base[version].name
      BY <2>2 DEF UpdateStatus, Write, Clean
    <3>3. CASE n = base[version].name
      <4>1. stored'[n] = Convert([Convert(stored[n], "v1beta1") EXCEPT !.list = list], "v1beta2")
        BY <2>2, <3>1, <3>3 DEF UpdateStatus, Write, Clean
      <4> QED BY <4>1, <2>0, OldUpdateRounds DEF Clean
    <3> QED BY <3>2, <3>3
  <2>3. ASSUME NEW version \in Versions, UpdateMetadata(version)
        PROVE  Kept(n)
    <3>1. version = "v1beta1"
      BY <2>3 DEF UpdateMetadata
    <3>2. stored'[n] = stored[n] \/ n = base[version].name
      BY <2>3 DEF UpdateMetadata, Write, Clean
    <3>3. CASE n = base[version].name
      <4>1. stored'[n] = Convert(Convert(stored[n], "v1beta1"), "v1beta2")
        BY <2>3, <3>1, <3>3 DEF UpdateMetadata, Write, Clean
      <4>2. stored[n] \in CleanObjects
        BY DEF Clean
      <4>3. Convert(stored[n], "v1beta1") \in Object
        BY <4>2, AsV1beta1 DEF OldCopies
      <4>4. Convert(stored[n], "v1beta1")
              = [Convert(stored[n], "v1beta1") EXCEPT !.list = Convert(stored[n], "v1beta1").list]
        BY <4>3 DEF Object
      <4> QED BY <4>1, <4>2, <4>4, <2>0, OldUpdateRounds
    <3> QED BY <3>2, <3>3
  <2>4. ASSUME NEW m \in Names, NEW note \in {Absent, Unreadable}, UserStrips(m, note)
        PROVE  Kept(n)
    BY <2>4 DEF UserStrips
  <2>5. CASE UNCHANGED vars
    BY <2>5 DEF vars
  <2> QED BY <2>1, <2>2, <2>3, <2>4, <2>5 DEF Next
<1>2. Clean /\ [Next]_vars => [AllKept]_vars
  BY <1>1
<1> QED BY <1>2, CleanInit, CleanNext, PTL DEF Spec, OnlyRounded

\* What a v1beta1 component reads, converted back.
Back(o) == Convert(Convert(o, "v1beta1"), "v1beta2")

\* The comment on the annotation says that it makes the conversion reversible
\* (convert.go:31).  Any stored content refutes it that has an info with a number that
\* a float64 does not hold: its conversion to v1beta1 and back is another content, and
\* no further conversion brings the number back.
THEOREM RoundedForGood ==
    ASSUME NEW o \in CleanObjects, o.version = "v1beta2", o.list # Absent,
           NEW p \in DOMAIN o.list, o.list[p] # NoDetails, Rounded[o.list[p]] # o.list[p]
    PROVE  Back(o).list # o.list /\ Back(Back(o)) = Back(o)
<1>1. ASSUME NEW x \in CleanObjects, x.version = "v1beta2", x.list # Absent
      PROVE  /\ x.list \in Lists
             /\ Back(x) = [x EXCEPT !.list = Unmarshal(@)]
  <2>1. Convert(x, "v1beta1")
          = [Convert(x, "v1beta1") EXCEPT !.list = Convert(x, "v1beta1").list]
    BY <1>1, AsV1beta1 DEF OldCopies, Object
  <2>2. Convert([Convert(x, "v1beta1") EXCEPT !.list = Convert(x, "v1beta1").list], "v1beta2")
          = [x EXCEPT !.list = Unmarshal(@)]
    BY <1>1, OldUpdateRounds
  <2>3. Back(x) = [x EXCEPT !.list = Unmarshal(@)]
    BY <2>1, <2>2, Zenon DEF Back
  <2>4. x.list \in Lists
    BY <1>1 DEF CleanObjects, Object
  <2> QED BY <2>3, <2>4
<1> DEFINE b == [o EXCEPT !.list = Unmarshal(@)]
<1>2. Unmarshal(o.list) \in Lists /\ Unmarshal(Unmarshal(o.list)) = Unmarshal(o.list)
  BY <1>1, UnmarshalKeepsPairs
<1>3. b.list = Unmarshal(o.list) /\ b \in CleanObjects /\ b.version = "v1beta2"
  BY <1>2 DEF CleanObjects, Object
<1>4. b.list # Absent
  BY <1>2, <1>3, AbsentAssumption
<1>5. Back(o).list # o.list
  <2>1. Back(o).list = Unmarshal(o.list)
    BY <1>1, <1>3
  <2>2. Unmarshal(o.list)[p] # o.list[p]
    BY DEF Unmarshal
  <2> QED BY <2>1, <2>2
<1>6. Back(Back(o)) = Back(o)
  <2>1. Back(o) = b
    BY <1>1
  <2>2. Back(b) = [b EXCEPT !.list = Unmarshal(@)]
    BY <1>1, <1>3, <1>4
  <2>3. [b EXCEPT !.list = Unmarshal(@)] = b
    BY <1>2, <1>3 DEF CleanObjects, Object
  <2> QED BY <2>1, <2>2, <2>3
<1> QED BY <1>5, <1>6
=============================================================================
