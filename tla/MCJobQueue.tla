----------------------------- MODULE MCJobQueue -----------------------------
(* Small instances of JobQueue for TLC.                                    *)
EXTENDS JobQueue, TLC

CONSTANTS j1, j2, c1, c2, e1, e2, e3, key

NoKeys   == [j \in Jobs |-> NoKey]
SameKeys == [j \in Jobs |-> key]
Caps     == [k \in ErrorKinds |-> 2]
Once     == [k \in ErrorKinds |-> 1]

Symmetry == Permutations(Consumers) \union Permutations(Entries)
SymmetryK == Symmetry \union Permutations(Jobs)
=============================================================================
