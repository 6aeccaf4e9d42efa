-------------------------- MODULE SurfaceDelivery ---------------------------
(***************************************************************************)
(* The surface worker's outbox (apps/surface-worker, surface-delivery-repo)*)
(* for one bound conversation: delivery rows in Postgres, the per-binding  *)
(* lock in Valkey, the mutable posts at the remote surface, and the worker *)
(* processes that fan hub messages out.  Every await is a step, a remote   *)
(* request may land before its answer is lost, or after it was given up.   *)
(*                                                                         *)
(* A remote post is named by the message whose delivery created it.        *)
(***************************************************************************)
EXTENDS Integers, FiniteSets

CONSTANTS
    Msgs,       \* hub messages mirrored to this binding
    Casts,      \* message -> kind: the conversations considered
    Version,    \* lifecycle message -> its lifecycleVersion
    Workers,    \* surface-worker processes
    NoMsg, Free, Dead,  \* no message; the lock unheld, or held by a dead process
    MaxWakes,   \* stream deliveries per message
    MaxCrashes, MaxLapses, MaxStalls,   \* bounds on faults ...
    MaxLosses, MaxLimits, MaxErrors, MaxMoves

Kinds == {"narration", "answer", "silent", "degrade", "own", "lifecycle"}

ASSUME NameAssumption == NoMsg \notin Msgs /\ Free \notin Workers /\ Dead \notin Workers /\ Free # Dead
ASSUME CastAssumption == Casts \subseteq [Msgs -> Kinds] /\ Version \in [Msgs -> Nat]
ASSUME BoundAssumption ==
    /\ MaxWakes \in Nat /\ MaxCrashes \in Nat /\ MaxLapses \in Nat /\ MaxStalls \in Nat
    /\ MaxLosses \in Nat /\ MaxLimits \in Nat /\ MaxErrors \in Nat /\ MaxMoves \in Nat

VARIABLES
    row,      \* surface_deliveries, with the message's kind
    wake,     \* stream entries still to be delivered, per message
    binding,  \* surface_bindings: status post, its version, assignment, projection mode
    working,  \* surface_working_posts: the mutable post, or NoMsg
    lock,     \* surface:binding lock: who holds it
    proc,     \* the workers
    shown,    \* the conversation: what each post shows
    flight,   \* requests whose sender gave up or died
    reached,  \* history: how often a message's content landed
    incident, \* archived, and the surface's connection
    faults    \* history: faults so far, for the bounds

vars == <<row, wake, binding, working, lock, proc, shown, flight, reached, incident, faults>>

-----------------------------------------------------------------------------
States == {"absent", "queued", "sending", "accepted", "rejected", "uncertain", "blocked", "skipped"}

Terminal == {"accepted", "rejected", "uncertain", "blocked", "skipped"}

Rows == [kind : Kinds, state : States, due : {"now", "later"}, stale : BOOLEAN, assignment : Nat]
Posts == Msgs \union {NoMsg}
Requests == [msg : Msgs, op : {"post", "update", "delete"}, post : Posts]
Procs == [pc : {"idle", "lock", "claim", "read", "ambiguous", "call", "wait", "record",
                "renew", "finish", "requeue", "release"},
          msg : Posts, op : {"post", "update", "delete"}, post : Posts,
          landed : BOOLEAN, result : States]

TypeOK ==
    /\ row \in [Msgs -> Rows] /\ wake \in [Msgs -> Nat]
    /\ binding \in [post : Posts, version : Int, assignment : Nat, full : BOOLEAN]
    /\ working \in Posts /\ lock \in Workers \union {Free, Dead}
    /\ proc \in [Workers -> Procs]
    /\ \A w \in Workers : /\ proc[w].pc # "idle" => proc[w].msg \in Msgs
                          /\ proc[w].pc \in {"renew", "finish"} => proc[w].result \in Terminal
    /\ shown \in [Msgs -> Posts] /\ flight \subseteq Requests
    /\ reached \in [Msgs -> Nat]
    /\ incident \in [archived : BOOLEAN, connected : BOOLEAN]
    /\ faults \in [{"crash", "lapse", "stall", "loss", "limit", "error", "move"} -> Nat]

Idle == [pc |-> "idle", msg |-> NoMsg, op |-> "post", post |-> NoMsg,
         landed |-> FALSE, result |-> "absent"]

Init ==
    /\ \E kind \in Casts :
         row = [m \in Msgs |-> [kind |-> kind[m], state |-> "absent", due |-> "now",
                                stale |-> FALSE, assignment |-> 0]]
    /\ wake = [m \in Msgs |-> 0]
    /\ binding = [post |-> NoMsg, version |-> 0, assignment |-> 0, full |-> TRUE]
    /\ working = NoMsg /\ lock = Free
    /\ proc = [w \in Workers |-> Idle]
    /\ shown = [m \in Msgs |-> NoMsg] /\ flight = {}
    /\ reached = [m \in Msgs |-> 0]
    /\ incident = [archived |-> FALSE, connected |-> TRUE]
    /\ faults = [f \in {"crash", "lapse", "stall", "loss", "limit", "error", "move"} |-> 0]

-----------------------------------------------------------------------------
\* A fault of kind f happens, within its bound.
Suffer(f, max) == faults[f] < max /\ faults' = [faults EXCEPT ![f] = @ + 1]

Step(w, p) == proc' = [proc EXCEPT ![w] = p]

Goto(w, pc) == Step(w, [proc[w] EXCEPT !.pc = pc])

\* Settle the attempt: finishDelivery is next.
Ends(w, result) == Step(w, [proc[w] EXCEPT !.pc = "finish", !.result = result])

\* Mutant: any write back of a delivery, whatever state it is in.
PutAlways(m, from, r) == row' = [row EXCEPT ![m] = r]

\* The compare-and-set every delivery UPDATE is: only a row in state from.
Put(m, from, r) == row' = IF row[m].state = from THEN [row EXCEPT ![m] = r] ELSE row

Kind(m) == row[m].kind

\* The row goes back to the queue, eligible later.
Later(m) == [row[m] EXCEPT !.state = "queued", !.due = "later", !.stale = FALSE]

\* One statement over all rows of the conversation.
Sweep(queued, sending) ==
    row' = [m \in Msgs |->
              CASE row[m].state = "queued"  -> [row[m] EXCEPT !.state = queued]
                [] row[m].state = "sending" -> [row[m] EXCEPT !.state = sending]
                [] OTHER -> row[m]]

Ambient == <<binding, working, lock, shown, flight, reached, incident>>

-----------------------------------------------------------------------------
(* Messages arrive; conversations are archived, disconnected and moved.    *)

\* The hub commits a message with its outbox row; its XADD may be lost.
Enqueue(m, n) ==
    /\ row[m].state = "absent" /\ incident.connected
    /\ Kind(m) \in {"lifecycle", "own"} \/ binding.full
    /\ Kind(m) = "lifecycle" => \A k \in Msgs :
         (Kind(k) = "lifecycle" /\ k # m /\ row[k].state # "absent"
            /\ row[k].assignment = binding.assignment) => Version[k] < Version[m]
    /\ row' = [row EXCEPT ![m] = [@ EXCEPT !.state = "queued", !.assignment = binding.assignment]]
    /\ wake' = [wake EXCEPT ![m] = n]
    /\ UNCHANGED <<proc, faults>> /\ UNCHANGED Ambient

BecomeDue(m) ==
    /\ row[m].state = "queued" /\ row[m].due = "later"
    /\ row' = [row EXCEPT ![m].due = "now"]
    /\ UNCHANGED <<wake, proc, faults>> /\ UNCHANGED Ambient

\* Mutant: archiving does not wait for attempts in flight.
ArchiveAnyway ==
    /\ ~incident.archived /\ incident' = [incident EXCEPT !.archived = TRUE]
    /\ Sweep("blocked", "sending")
    /\ UNCHANGED <<wake, binding, working, lock, proc, shown, flight, reached, faults>>

Archive ==
    /\ ~incident.archived /\ \A m \in Msgs : row[m].state # "sending"
    /\ incident' = [incident EXCEPT !.archived = TRUE]
    /\ Sweep("blocked", "sending")
    /\ UNCHANGED <<wake, binding, working, lock, proc, shown, flight, reached, faults>>

Disconnect ==
    /\ incident.connected /\ incident' = [incident EXCEPT !.connected = FALSE]
    /\ Sweep("blocked", "uncertain")
    /\ UNCHANGED <<wake, binding, working, lock, proc, shown, flight, reached, faults>>

\* A merge or split reassigns the binding: its status post is kept, its
\* version fence is reset; only a split makes a binding the primary one again.
Move ==
    /\ ~incident.archived /\ Suffer("move", MaxMoves)
    /\ Sweep("blocked", "uncertain")
    /\ \E full \in BOOLEAN :
         binding' = [binding EXCEPT !.version = -1, !.assignment = @ + 1, !.full = full]
    /\ UNCHANGED <<wake, working, lock, proc, shown, flight, reached, incident>>

-----------------------------------------------------------------------------
(* fanoutHubMessage, up to the claim.                                      *)

\* Mutant: only stream entries wake a worker.
BeginWokenOnly(w, m) ==
    /\ proc[w].pc = "idle" /\ wake[m] > 0
    /\ wake' = [wake EXCEPT ![m] = @ - 1]
    /\ Step(w, [Idle EXCEPT !.pc = "lock", !.msg = m])
    /\ UNCHANGED <<row, faults>> /\ UNCHANGED Ambient

\* A stream entry, or the outbox scan over eligible queued rows.
Begin(w, m) ==
    /\ proc[w].pc = "idle"
    /\ \/ wake[m] > 0 /\ wake' = [wake EXCEPT ![m] = @ - 1]
       \/ row[m].state = "queued" /\ row[m].due = "now" /\ UNCHANGED wake
    /\ IF incident.connected
       THEN Step(w, [Idle EXCEPT !.pc = "lock", !.msg = m]) /\ UNCHANGED row
       ELSE Put(m, "queued", [row[m] EXCEPT !.state = "blocked"]) /\ UNCHANGED proc
    /\ UNCHANGED faults /\ UNCHANGED Ambient

\* Mutant: the lock is taken from whoever holds it.
AcquireHeld(w) ==
    /\ proc[w].pc = "lock" /\ lock' = w /\ Goto(w, "claim")
    /\ UNCHANGED <<row, wake, binding, working, shown, flight, reached, incident, faults>>

Acquire(w) ==
    /\ proc[w].pc = "lock" /\ lock = Free
    /\ lock' = w /\ Goto(w, "claim")
    /\ UNCHANGED <<row, wake, binding, working, shown, flight, reached, incident, faults>>

\* The holder overran (or a dependency is unavailable): delay the row.
Defer(w) ==
    /\ proc[w].pc = "lock"
    /\ \/ lock # Free /\ UNCHANGED faults
       \/ Suffer("error", MaxErrors)
    /\ Put(proc[w].msg, "queued", Later(proc[w].msg))
    /\ Step(w, Idle)
    /\ UNCHANGED wake /\ UNCHANGED Ambient

\* claimSurfaceDeliveryTx
Claim(w) ==
    LET m == proc[w].msg
    IN  /\ proc[w].pc = "claim"
        /\ \/ /\ row[m].state = "queued" /\ incident.archived
              /\ Put(m, "queued", [row[m] EXCEPT !.state = "blocked"]) /\ Goto(w, "release")
           \/ /\ row[m].state = "queued" /\ row[m].due = "now" /\ ~incident.archived
              /\ Put(m, "queued", [row[m] EXCEPT !.state = "sending"]) /\ Goto(w, "read")
           \/ /\ row[m].state # "queued" \/ (row[m].due = "later" /\ ~incident.archived)
              /\ Goto(w, "release") /\ UNCHANGED row
        /\ UNCHANGED <<wake, faults>> /\ UNCHANGED Ambient

-----------------------------------------------------------------------------
(* applyToSurface: read the projection, call the surface, record it.       *)

Calls(w, op, post) == Step(w, [proc[w] EXCEPT !.pc = "call", !.op = op, !.post = post])

\* Mutant: nothing says how a skipped attempt ended.
SkipsUnsettled(w) == Step(w, [proc[w] EXCEPT !.pc = "renew"])

Skips(w) == Step(w, [proc[w] EXCEPT !.pc = "renew", !.result = "skipped"])

\* Mutant: an older lifecycle version is projected again.
ReadStatusUnfenced(w) ==
    /\ proc[w].pc = "read" /\ Kind(proc[w].msg) = "lifecycle"
    /\ IF binding.post # NoMsg THEN Calls(w, "update", binding.post) ELSE Goto(w, "ambiguous")
    /\ UNCHANGED <<row, wake, faults>> /\ UNCHANGED Ambient

ReadStatus(w) ==
    /\ proc[w].pc = "read" /\ Kind(proc[w].msg) = "lifecycle"
    /\ CASE binding.post = NoMsg -> Goto(w, "ambiguous")
         [] binding.post # NoMsg /\ binding.version >= Version[proc[w].msg] -> Skips(w)
         [] OTHER -> Calls(w, "update", binding.post)
    /\ UNCHANGED <<row, wake, faults>> /\ UNCHANGED Ambient

\* Mutant: only attempts already judged uncertain are ambiguous.
AmbiguousUncertainOnly(m) ==
    \E k \in Msgs \ {m} : Kind(k) = "lifecycle" /\ row[k].state = "uncertain"

\* hasAmbiguousLifecyclePostCreation
Ambiguous(m) ==
    \E k \in Msgs \ {m} : Kind(k) = "lifecycle" /\ row[k].state \in {"sending", "uncertain"}

CheckAmbiguous(w) ==
    /\ proc[w].pc = "ambiguous"
    /\ IF Ambiguous(proc[w].msg) THEN Ends(w, "blocked") ELSE Calls(w, "post", NoMsg)
    /\ UNCHANGED <<row, wake, faults>> /\ UNCHANGED Ambient

ReadWorking(w) ==
    LET kind == Kind(proc[w].msg)
    IN  /\ proc[w].pc = "read" /\ kind # "lifecycle"
        /\ CASE kind = "own" \/ (working = NoMsg /\ kind # "silent") -> Calls(w, "post", NoMsg)
             [] working = NoMsg /\ kind = "silent" -> Skips(w)
             [] working # NoMsg /\ kind = "degrade" -> Calls(w, "delete", working)
             [] OTHER -> Calls(w, "update", working)
        /\ UNCHANGED <<row, wake, faults>> /\ UNCHANGED Ambient

Send(w) ==
    /\ proc[w].pc = "call"
    /\ Step(w, [proc[w] EXCEPT !.pc = "wait", !.landed = FALSE])
    /\ UNCHANGED <<row, wake, faults>> /\ UNCHANGED Ambient

\* What the surface does with a request.
Lands(m, op, post) ==
    CASE op = "post"   -> shown' = [shown EXCEPT ![m] = m] /\ reached' = [reached EXCEPT ![m] = @ + 1]
      [] op = "update" -> /\ shown[post] # NoMsg
                          /\ shown' = [shown EXCEPT ![post] = m]
                          /\ reached' = [reached EXCEPT ![m] = @ + 1]
      [] op = "delete" -> shown' = [shown EXCEPT ![post] = NoMsg] /\ UNCHANGED reached

Land(w) ==
    /\ proc[w].pc = "wait" /\ ~proc[w].landed
    /\ Lands(proc[w].msg, proc[w].op, proc[w].post)
    /\ Step(w, [proc[w] EXCEPT !.landed = TRUE])
    /\ UNCHANGED <<row, wake, binding, working, lock, flight, incident, faults>>

\* The answer arrives.
Answered(w) ==
    /\ proc[w].pc = "wait" /\ proc[w].landed /\ Goto(w, "record")
    /\ UNCHANGED <<row, wake, faults>> /\ UNCHANGED Ambient

\* Slack refuses: nothing landed.  The code takes an ok answer without a ts for
\* a refusal too; by Slack's contract the answer to a post that landed names it.
Rejected(w) ==
    /\ proc[w].pc = "wait" /\ ~proc[w].landed /\ Ends(w, "rejected")
    /\ UNCHANGED <<row, wake, faults>> /\ UNCHANGED Ambient

RateLimited(w) ==
    /\ proc[w].pc = "wait" /\ ~proc[w].landed /\ Suffer("limit", MaxLimits)
    /\ Goto(w, "requeue")
    /\ UNCHANGED <<row, wake>> /\ UNCHANGED Ambient

\* A request nobody waits for any more may still land.
Abandon(w) ==
    flight' = IF proc[w].pc = "wait" /\ ~proc[w].landed
              THEN flight \union {[msg |-> proc[w].msg, op |-> proc[w].op, post |-> proc[w].post]}
              ELSE flight

\* Timeout, transport failure, 5xx: the outcome is unknown.
Lost(w) ==
    /\ proc[w].pc = "wait" /\ Suffer("loss", MaxLosses)
    /\ Abandon(w) /\ Ends(w, "uncertain")
    /\ UNCHANGED <<row, wake, binding, working, lock, shown, reached, incident>>

LateLand(r) ==
    /\ Lands(r.msg, r.op, r.post) /\ flight' = flight \ {r}
    /\ UNCHANGED <<row, wake, binding, working, lock, proc, incident, faults>>

Vanish(r) ==
    /\ flight' = flight \ {r}
    /\ UNCHANGED <<row, wake, binding, working, lock, proc, shown, reached, incident, faults>>

\* advanceSurfaceStatusPostByBinding: fenced on assignment and version.
RecordStatus(w) ==
    LET m == proc[w].msg
        post == IF proc[w].op = "post" THEN m ELSE proc[w].post
        wins == /\ row[m].assignment = binding.assignment
                /\ binding.post = NoMsg \/ binding.version < Version[m]
    IN  /\ proc[w].pc = "record" /\ Kind(m) = "lifecycle"
        /\ IF wins
           THEN /\ binding' = [binding EXCEPT !.post = post, !.version = Version[m]]
                /\ Step(w, [proc[w] EXCEPT !.pc = "renew", !.result = "accepted"])
           ELSE Ends(w, "uncertain") /\ UNCHANGED binding
        /\ UNCHANGED <<row, wake, working, lock, shown, flight, reached, incident, faults>>

\* Mutant: a conclusion leaves the working post in place.
RecordWorkingKept(w) ==
    LET m == proc[w].msg
    IN  /\ proc[w].pc = "record" /\ Kind(m) # "lifecycle"
        /\ working' = IF Kind(m) = "narration" /\ proc[w].op = "post" THEN m ELSE working
        /\ Step(w, IF proc[w].op = "delete"
                   THEN [proc[w] EXCEPT !.pc = "call", !.op = "post", !.post = NoMsg]
                   ELSE [proc[w] EXCEPT !.pc = "renew", !.result = "accepted"])
        /\ UNCHANGED <<row, wake, binding, lock, shown, flight, reached, incident, faults>>

\* setWorkingPost after a narration post, clearWorkingPost after a conclusion
\* or a deletion; a degrade note is posted once its deletion is recorded.
RecordWorking(w) ==
    LET m == proc[w].msg
        op == proc[w].op
    IN  /\ proc[w].pc = "record" /\ Kind(m) # "lifecycle"
        /\ working' = CASE Kind(m) = "narration" -> IF op = "post" THEN m ELSE working
                        [] Kind(m) # "narration" /\ op # "post" -> NoMsg
                        [] OTHER -> working
        /\ Step(w, IF op = "delete" THEN [proc[w] EXCEPT !.pc = "call", !.op = "post", !.post = NoMsg]
                   ELSE [proc[w] EXCEPT !.pc = "renew", !.result = "accepted"])
        /\ UNCHANGED <<row, wake, binding, lock, shown, flight, reached, incident, faults>>

\* A database or Redis call inside the try throws: the attempt ends uncertain.
Errs(w) ==
    /\ proc[w].pc \in {"claim", "read", "ambiguous", "record", "renew"} /\ Suffer("error", MaxErrors)
    /\ Ends(w, "uncertain")
    /\ UNCHANGED <<row, wake>> /\ UNCHANGED Ambient

-----------------------------------------------------------------------------
(* The receipt, and the lock's release.                                    *)

\* Ownership is confirmed before an attempt is accepted.
Renew(w) ==
    /\ proc[w].pc = "renew"
    /\ Ends(w, IF lock = w THEN proc[w].result ELSE "uncertain")
    /\ UNCHANGED <<row, wake, faults>> /\ UNCHANGED Ambient

\* finishSurfaceDelivery.  A success that cannot be written is written again
\* as uncertain; any other failure leaves the row as it is.
Finish(w) ==
    LET settled == [row[proc[w].msg] EXCEPT !.state = proc[w].result]
    IN  /\ proc[w].pc = "finish"
        /\ \/ Put(proc[w].msg, "sending", settled) /\ Goto(w, "release") /\ UNCHANGED faults
           \/ /\ Suffer("error", MaxErrors)
              /\ UNCHANGED row \/ Put(proc[w].msg, "sending", settled)
              /\ IF proc[w].result \in {"accepted", "skipped"} THEN Ends(w, "uncertain")
                 ELSE Goto(w, "release")
        /\ UNCHANGED wake /\ UNCHANGED Ambient

\* scheduleSurfaceDeliveryRetry after a rate limit.
Requeue(w) ==
    /\ proc[w].pc = "requeue"
    /\ \/ Put(proc[w].msg, "sending", Later(proc[w].msg)) /\ UNCHANGED faults
       \/ Suffer("error", MaxErrors) /\ UNCHANGED row
    /\ Goto(w, "release")
    /\ UNCHANGED wake /\ UNCHANGED Ambient

\* A release that fails leaves the lock to its TTL.
Release(w) ==
    /\ proc[w].pc = "release"
    /\ \/ lock' = (IF lock = w THEN Free ELSE lock) /\ UNCHANGED faults
       \/ Suffer("error", MaxErrors) /\ lock' = (IF lock = w THEN Dead ELSE lock)
    /\ Step(w, Idle)
    /\ UNCHANGED <<row, wake, binding, working, shown, flight, reached, incident>>

-----------------------------------------------------------------------------
(* Time and faults.                                                        *)

InHand(m) == \E w \in Workers : proc[w].pc \notin {"idle", "lock", "claim", "release"} /\ proc[w].msg = m

\* 120 s pass since attemptedAt, far beyond a request's 10 s deadline.
GrowsOld(m) ==
    /\ row[m].state = "sending" /\ ~row[m].stale
    /\ \A r \in flight : r.msg # m
    /\ row' = [row EXCEPT ![m].stale = TRUE]
    /\ UNCHANGED <<wake, proc>> /\ UNCHANGED Ambient

\* Nobody works on the attempt any more ...
Age(m) == GrowsOld(m) /\ ~InHand(m) /\ UNCHANGED faults

\* ... or its worker stalls for two minutes.
Stall(m) == GrowsOld(m) /\ InHand(m) /\ Suffer("stall", MaxStalls)

\* Mutant: a stale attempt is tried again.
MarkStaleRetries(m) ==
    /\ row[m].state = "sending" /\ row[m].stale
    /\ row' = [row EXCEPT ![m] = Later(m)]
    /\ UNCHANGED <<wake, proc, faults>> /\ UNCHANGED Ambient

\* markStaleSurfaceDeliveriesUncertainSystem
MarkStale(m) ==
    /\ row[m].state = "sending" /\ row[m].stale
    /\ row' = [row EXCEPT ![m].state = "uncertain"]
    /\ UNCHANGED <<wake, proc, faults>> /\ UNCHANGED Ambient

\* The TTL of a lock whose holder is gone passes ...
Expire ==
    /\ lock = Dead /\ lock' = Free
    /\ UNCHANGED <<row, wake, binding, working, proc, shown, flight, reached, incident, faults>>

\* ... or that of a live holder whose renewals do not get through.
Lapse ==
    /\ lock \in Workers /\ lock' = Free /\ Suffer("lapse", MaxLapses)
    /\ UNCHANGED <<row, wake, binding, working, proc, shown, flight, reached, incident>>

Crash(w) ==
    /\ proc[w].pc # "idle" /\ Suffer("crash", MaxCrashes)
    /\ Abandon(w) /\ Step(w, Idle)
    /\ lock' = IF lock = w THEN Dead ELSE lock
    /\ UNCHANGED <<row, wake, binding, working, shown, reached, incident>>

-----------------------------------------------------------------------------
Worker(w) ==
    \/ \E m \in Msgs : Begin(w, m)
    \/ Acquire(w) \/ Defer(w) \/ Claim(w)
    \/ ReadStatus(w) \/ CheckAmbiguous(w) \/ ReadWorking(w) \/ Send(w)
    \/ Answered(w) \/ Rejected(w) \/ RateLimited(w) \/ Lost(w)
    \/ RecordStatus(w) \/ RecordWorking(w) \/ Errs(w)
    \/ Renew(w) \/ Finish(w) \/ Requeue(w) \/ Release(w)

Conversation == Archive \/ Disconnect \/ Move

Remote == (\E w \in Workers : Land(w)) \/ (\E r \in flight : LateLand(r) \/ Vanish(r))

Environment ==
    \/ \E m \in Msgs : (\E n \in 0..MaxWakes : Enqueue(m, n)) \/ BecomeDue(m)
    \/ \E m \in Msgs : Age(m) \/ Stall(m) \/ MarkStale(m)
    \/ Expire \/ Lapse \/ \E w \in Workers : Crash(w)

Next == (\E w \in Workers : Worker(w)) \/ Conversation \/ Remote \/ Environment

Spec == Init /\ [][Next]_vars

\* Loops poll, awaited calls return or time out, timers fire, time passes; and
\* a worker that holds the lock of a row due is not outrun for ever, between
\* two database calls, by the two seconds its rivals wait before they defer it.
Fairness ==
    /\ \A w \in Workers : WF_vars(Worker(w)) /\ SF_vars(Claim(w) /\ row' # row)
    /\ \A m \in Msgs : WF_vars(BecomeDue(m)) /\ WF_vars(Age(m)) /\ WF_vars(MarkStale(m))
    /\ WF_vars(Remote) /\ WF_vars(Expire)

FairSpec == Spec /\ Fairness

-----------------------------------------------------------------------------
(* Properties.                                                             *)

Undisturbed == \A f \in {"crash", "lapse", "stall", "loss", "error", "move"} : faults[f] = 0

\* The receipt tells the truth ("accepted means the remote API returned
\* success", surface-deliveries.ts): an accepted message reached the
\* conversation exactly once; one still queued, rejected, blocked or skipped
\* never did, so nothing is posted twice.
ReceiptTruthful ==
    \A m \in Msgs :
        /\ row[m].state = "accepted" => reached[m] = 1
        /\ row[m].state \in {"absent", "queued", "rejected", "blocked", "skipped"} => reached[m] = 0
        /\ reached[m] <= 1

\* One lifecycle post at most is ever created in a conversation, whatever
\* crashes, lost answers, failed writes and moves, while the lock holds: a second creation is
\* blocked while an older one is ambiguous.
OneStatusPost ==
    faults.lapse = 0 =>
        \A p, q \in Msgs : Kind(p) = "lifecycle" /\ Kind(q) = "lifecycle"
            /\ shown[p] # NoMsg /\ shown[q] # NoMsg => p = q

\* Nobody overtakes: the status post never goes back to an older version of
\* the incident it belongs to (lock.ts: the lease keeps "a later lifecycle
\* version" from overtaking "the current projection").
StatusNeverRegresses ==
    [][Undisturbed' => \A p \in Msgs :
         /\ shown[p] # NoMsg /\ shown'[p] # NoMsg
         /\ Kind(shown[p]) = "lifecycle" /\ Kind(shown'[p]) = "lifecycle"
         => Version[shown'[p]] >= Version[shown[p]]]_vars

\* Two narrations never leave two activity posts behind: the working post is
\* created once, under the lock.
OneWorkingPost ==
    Undisturbed =>
        \A p, q \in Msgs : shown[p] # NoMsg /\ shown[q] # NoMsg
            /\ Kind(shown[p]) = "narration" /\ Kind(shown[q]) = "narration" => p = q

\* A conclusion that was shown is never overwritten or deleted by later
\* narration or by the next conclusion.
AnswerKept ==
    [][Undisturbed' => \A p \in Msgs :
         shown[p] # NoMsg /\ Kind(shown[p]) \in {"answer", "silent", "degrade", "own"}
         => shown'[p] = shown[p]]_vars

\* An archived incident stays quiet: no request is sent once it is archived,
\* even by an attempt claimed before, as long as nothing but its own worker
\* ended that attempt (no two-minute stall, lapsed lock, move or disconnect).
ArchivedIsQuiet ==
    [][\A w \in Workers :
         proc[w].pc = "call" /\ proc'[w].pc = "wait" =>
            \/ ~incident.archived \/ ~incident.connected
            \/ \E f \in {"stall", "lapse", "move"} : faults[f] > 0]_vars

\* Every delivery gets a receipt: lost wake-ups, busy locks, crashes, rate
\* limits and failed writes all end in a terminal state.
EveryDeliverySettles ==
    \A m \in Msgs : row[m].state \in {"queued", "sending"} ~> row[m].state \notin {"queued", "sending"}

\* The outbox implements DeliveryReceipt.
Receipts == INSTANCE DeliveryReceipt WITH
    receipt <- [m \in Msgs |-> IF row[m].state = "absent" THEN "none" ELSE row[m].state],
    reached <- reached

\* Every step of the outbox is a step of DeliveryReceipt or leaves it unchanged.
KeepsReceipts == Receipts!Spec
=============================================================================
