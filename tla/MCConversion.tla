---------------------------- MODULE MCConversion ----------------------------
(***************************************************************************)
(* An instance of Conversion for TLC: a time in nanoseconds, and the one    *)
(* that is left of it.                                                     *)
(***************************************************************************)
EXTENDS Conversion

CONSTANTS nanos, near

Times  == {nanos, near}
Nearby == [d \in Times |-> near]
=============================================================================
