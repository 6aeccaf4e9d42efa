---------------------------- MODULE MCAlertIntake ----------------------------
(* Instances of AlertIntake for TLC.                                        *)
EXTENDS AlertIntake, TLC

CONSTANTS i0, i1, i2

NoNotice == [e \in Episodes |-> None]
OneNotice == [e \in Episodes |-> i0]

Symmetry == Permutations(Handlers)
=============================================================================
