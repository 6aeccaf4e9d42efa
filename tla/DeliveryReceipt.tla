-------------------------- MODULE DeliveryReceipt ---------------------------
(***************************************************************************)
(* What the surface outbox promises for each message: its content reaches  *)
(* the remote conversation at most once, only while an attempt is open or  *)
(* its outcome is unknown, and the receipt tells the truth about it.       *)
(***************************************************************************)
EXTENDS Naturals

CONSTANT Msgs

VARIABLES
    receipt,  \* what the outbox says of each message
    reached   \* how often its content reached the conversation

vars == <<receipt, reached>>

Init ==
    /\ receipt = [m \in Msgs |-> "none"]
    /\ reached = [m \in Msgs |-> 0]

Accept(m) ==
    /\ receipt[m] = "none"
    /\ receipt' = [receipt EXCEPT ![m] = "queued"]
    /\ UNCHANGED reached

Try(m) ==
    /\ receipt[m] = "queued"
    /\ receipt' = [receipt EXCEPT ![m] = "sending"]
    /\ UNCHANGED reached

\* An attempt known not to have reached the conversation may be repeated.
Return(m) ==
    /\ receipt[m] = "sending" /\ reached[m] = 0
    /\ receipt' = [receipt EXCEPT ![m] = "queued"]
    /\ UNCHANGED reached

Reach(m) ==
    /\ receipt[m] \in {"sending", "uncertain"} /\ reached[m] = 0
    /\ reached' = [reached EXCEPT ![m] = 1]
    /\ UNCHANGED receipt

\* Messages are settled one by one, or all at once when a conversation ends.
Settle ==
    \E r \in [Msgs -> {"none", "queued", "sending", "accepted", "rejected", "uncertain", "blocked", "skipped"}] :
        /\ r # receipt /\ receipt' = r
        /\ \A m \in Msgs : r[m] # receipt[m] =>
             \/ receipt[m] = "queued"  /\ r[m] = "blocked"
             \/ receipt[m] = "sending" /\ r[m] = "uncertain"
             \/ receipt[m] = "sending" /\ r[m] = "accepted" /\ reached[m] = 1
             \/ receipt[m] = "sending" /\ r[m] \in {"rejected", "blocked", "skipped"} /\ reached[m] = 0
        /\ UNCHANGED reached

Next == Settle \/ \E m \in Msgs : Accept(m) \/ Try(m) \/ Return(m) \/ Reach(m)

Spec == Init /\ [][Next]_vars
=============================================================================
