------------------------ MODULE MCIncidentRecovery ------------------------
(* Instances of IncidentRecovery for TLC: who owns which signal, and how   *)
(* often each outside event may happen in each run.                        *)
EXTENDS IncidentRecovery, TLC

CONSTANTS i1, i2, i3, s1, s2

HomeOne == [s \in Signals |-> i1]
HomeTwo == [s \in Signals |-> IF s = s1 THEN i1 ELSE i2]

Verified  == {"verified_recovery"}
AnyPolicy == {"verified_recovery", "provider_clear"}

Only(f) == [k \in Kinds |-> IF k \in DOMAIN f THEN f[k] ELSE 0]

CheckBudget == Only([clear |-> 1, open |-> 1, refire |-> 1, ask |-> 1, move |-> 1, crash |-> 1])
GroupBudget == Only([clear |-> 1, open |-> 1, link |-> 1, merge |-> 2, move |-> 1, approve |-> 1])
LiveBudget  == Only([clear |-> 2, ask |-> 1, fail |-> 1, crash |-> 1, certify |-> 1])

Symmetry == Permutations(Workers)
=============================================================================
