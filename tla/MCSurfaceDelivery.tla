------------------------- MODULE MCSurfaceDelivery --------------------------
(* Small instances of SurfaceDelivery for TLC.                             *)
EXTENDS SurfaceDelivery, TLC

CONSTANTS m1, m2, m3, w1, w2

Versions == [m \in Msgs |-> CASE m = m1 -> 1 [] m = m2 -> 2 [] OTHER -> 3]

Cast(k1, k2, k3) == [m \in Msgs |-> CASE m = m1 -> k1 [] m = m2 -> k2 [] OTHER -> k3]

\* Whole conversations: versions alone, a turn, a degraded turn.
Turns == {Cast("lifecycle", "lifecycle", "lifecycle"), Cast("narration", "narration", "answer"),
          Cast("narration", "degrade", "own")}

Pairs == {Cast("lifecycle", "lifecycle", "own"), Cast("narration", "degrade", "own")}

LivePairs == {Cast("narration", "silent", "own"), Cast("lifecycle", "lifecycle", "own")}

Symmetry == Permutations(Workers)
=============================================================================
