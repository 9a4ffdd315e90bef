------------------------------ MODULE MCBinding ------------------------------
(***************************************************************************)
(* Instances of Binding for TLC.                                           *)
(***************************************************************************)
EXTENDS Binding

BothPolicies == {"Delete", "Retain"}

\* One event of each kind in the set.
Once(kinds) == [k \in Faults |-> IF k \in kinds THEN 1 ELSE 0]
\* No fault, or one.
AnyOneFault == {Once({})} \cup {Once({k}) : k \in Faults}
=============================================================================
