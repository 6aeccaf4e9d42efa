------------------------------ MODULE JobQueue ------------------------------
(***************************************************************************)
(* The durable work queue of packages/queue: Postgres rows (the truth), a  *)
(* Valkey stream with a consumer group (the doorbell), the consumers of    *)
(* QueueConsumer, the publishers of QueueWriter / QueuePublisher and the   *)
(* reconcile driver.  Every await of the code is a step of its own, so the *)
(* processes interleave between any two database or stream calls.          *)
(*                                                                         *)
(* Time is the age of a row's updated_at: 0 fresh, 1 older than idleMs     *)
(* (30 s), 2 older than reconcile's olderThanMs (60 s).  A payload is the  *)
(* number of producer inputs folded into it.                               *)
(***************************************************************************)
EXTENDS Integers, FiniteSets

CONSTANTS
    Jobs,          \* ids a jobs row may have
    Consumers,     \* QueueConsumer loops, one per worker process
    Entries,       \* stream entry ids; reused once nobody holds them
    Key,           \* job -> coalescing key (tenant, type, payload field)
    NoKey,         \* the key of a payload without that field
    Topology,      \* jobs of type topology.discover
    Exclusive,     \* runbook, postmortem and grade jobs: one live row per key
    Delayed,       \* jobs whose producers may give a future available_at
    Cancellable,   \* recovery.verify, classify, tenant.purge, domain.verify jobs
    Foreign,       \* jobs of another queue, in the same table
    ErrorKinds,    \* the classes of handler error the queue tells apart
    Cap,           \* error kind -> attempts at which it dead-letters
    DeadlineCap,   \* deadlineMaxAttempts
    Fatal,         \* the kinds that are NonRetryableError
    Recycles,      \* onStuck is configured
    NoJob, NoEntry,
    BatchSize,     \* process()'s count
    MaxCrashes, MaxLapses, MaxTrims,  \* bounds on faults
    MaxInput, MaxPubs                 \* ... on merges, and publications at once

ASSUME JobsAssumption == NoJob \notin Jobs \union Consumers /\ NoEntry \notin Entries
ASSUME ClassAssumption ==
    /\ Topology \subseteq Jobs /\ Exclusive \subseteq Jobs /\ Foreign \subseteq Jobs
    /\ Delayed \subseteq Jobs /\ Cancellable \subseteq Jobs
    /\ Cancellable \intersect Exclusive = {}  \* they are jobs of other types
    /\ Fatal \subseteq ErrorKinds /\ Recycles \in BOOLEAN
ASSUME CapAssumption ==
    /\ Cap \in [ErrorKinds -> Nat \ {0}] /\ DeadlineCap \in Nat \ {0}
ASSUME BoundAssumption ==
    /\ BatchSize \in Nat /\ MaxCrashes \in Nat /\ MaxLapses \in Nat
    /\ MaxTrims \in Nat /\ MaxInput \in Nat /\ MaxPubs \in Nat

VARIABLES
    row,     \* the jobs table
    entry,   \* the stream and the group's pending list
    pub,     \* post-commit publications under way
    cons,    \* the consumers
    rec,     \* the reconcile driver
    dead,    \* jobs posted on the dead stream
    failed,  \* history: errors the queue has charged to a job
    faults   \* history: faults so far, for the bounds

vars == <<row, entry, pub, cons, rec, dead, failed, faults>>

-----------------------------------------------------------------------------
Live     == {"queued", "processing"}
Terminal == {"done", "dead"}
Statuses == {"absent", "queued", "processing", "done", "dead", "pruned"}

Rows == [status : Statuses, attempts : Nat, sid : {"null", "set"},
         due : {"now", "later"}, age : {0, 1, 2}, input : Nat]
Pubs == [job : Jobs, by : {"producer", "dispatcher"}, at : {"xadd", "sid"}]
Slots == {n \in [job : Jobs \union {NoJob}, at : {"gone", "new", "pending"}] :
            n.at # "gone" => n.job \in Jobs}
\* A worker between the SELECT and the terminal write has a job and an entry.
Workers == {w \in [pc : {"free", "next", "claim", "run", "post", "ack", "exit"},
                   batch : SUBSET [id : Entries, job : Jobs], cur : Entries \union {NoEntry},
                   job : Jobs \union {NoJob}, input : Nat, token : Nat,
                   late : BOOLEAN, stuck : BOOLEAN] :
              /\ w.pc \in {"claim", "run", "post"} => w.job \in Jobs
              /\ w.pc \in {"claim", "run", "post", "ack"} => w.cur \in Entries}
Stuck == [job : Jobs, attempts : Nat, status : Live]
Passes == {p \in [pc : {"idle", "next", "retire", "xadd", "reset"},
                  todo : SUBSET Stuck, cur : Stuck \union {NoJob}] :
             p.pc \in {"retire", "xadd", "reset"} => p.cur \in Stuck}
Faults == [crash : Nat, lapse : Nat, trim : Nat]

TypeOK ==
    /\ row \in [Jobs -> Rows] /\ entry \in [Entries -> Slots]
    /\ pub \subseteq Pubs
    /\ cons \in [Consumers -> Workers] /\ rec \in Passes
    /\ dead \subseteq Jobs /\ failed \in [Jobs -> Nat] /\ faults \in Faults

Idle == [pc |-> "free", batch |-> {}, cur |-> NoEntry, job |-> NoJob,
         input |-> 0, token |-> 0, late |-> FALSE, stuck |-> FALSE]

NoRow == [status |-> "absent", attempts |-> 0, sid |-> "null", due |-> "now",
          age |-> 0, input |-> 0]

Gone == [job |-> NoJob, at |-> "gone"]

Resting == [pc |-> "idle", todo |-> {}, cur |-> NoJob]

Init ==
    /\ row = [j \in Jobs |-> NoRow]
    /\ entry = [e \in Entries |-> Gone]
    /\ pub = {}
    /\ cons = [c \in Consumers |-> Idle]
    /\ rec = Resting
    /\ dead = {}
    /\ failed = [j \in Jobs |-> 0]
    /\ faults = [crash |-> 0, lapse |-> 0, trim |-> 0]

-----------------------------------------------------------------------------
(* The table: the partial unique indexes, and the one write that puts a    *)
(* row back to queued.                                                     *)

\* The table after row j is written.
Put(j, r) == [row EXCEPT ![j] = r]

SameKey(j, k) == j # k /\ Key[j] # NoKey /\ Key[j] = Key[k]

Slot(j) == IF j \in Exclusive THEN Live ELSE {"queued"}

\* Another row holds the unique slot j would need.
Taken(j) == \E k \in Jobs : SameKey(j, k) /\ row[k].status \in Slot(j)

\* Mutant: the fence forgets the lease token.
HoldsAnyLease(c, j) == row[j].status = "processing"

Holds(c, j) == row[j].status = "processing" /\ row[j].attempts = cons[c].token

Due(j) == row[j].status = "queued" /\ row[j].due = "now"

RequeueOutcome(j, matches) ==
    IF ~matches THEN "unmatched"
    ELSE IF ~Taken(j) \/ row[j].status = "queued" THEN "requeued"
    ELSE IF j \in Topology THEN "retired" ELSE "conflict"

\* requeueUnlessSuperseded, given its outcome.
Requeue(j, outcome, sid) ==
    row' = CASE outcome = "requeued" ->
                  Put(j, [row[j] EXCEPT !.status = "queued", !.sid = sid, !.age = 0])
             [] outcome = "retired" /\ row[j].status = "processing" ->
                  Put(j, [row[j] EXCEPT !.status = "done", !.age = 0])
             [] OTHER -> row

(* The stream.  XADD takes an id nobody still holds in memory.             *)
Xadd(j) ==
    \E e \in Entries :
        /\ entry[e].at = "gone"
        /\ \A c \in Consumers : e # cons[c].cur /\ \A d \in cons[c].batch : d.id # e
        /\ entry' = [entry EXCEPT ![e] = [job |-> j, at |-> "new"]]

-----------------------------------------------------------------------------
(* Producers.                                                              *)

\* enqueue / insert*Tx: the row commits first, its publication follows.
Enqueue(j, due) ==
    /\ row[j].status = "absent" /\ ~Taken(j) /\ (due = "now" \/ j \in Delayed)
    /\ row' = Put(j, [row[j] EXCEPT !.status = "queued", !.due = due])
    /\ pub' = IF due = "now" /\ j \notin Foreign
                THEN pub \union {[job |-> j, by |-> "producer", at |-> "xadd"]}
                ELSE pub
    /\ UNCHANGED <<entry, cons, rec, dead, failed, faults>>

\* A producer that lost the index conflict refreshes the queued row: newer
\* payload, and a new due time that, when in the future, undoes the dispatch.
Coalesce(j, due) ==
    /\ row[j].status = "queued" /\ Key[j] # NoKey /\ row[j].input < MaxInput
    /\ due = "now" \/ j \in Delayed
    /\ row' = Put(j, [row[j] EXCEPT !.input = @ + 1, !.due = due,
                                    !.sid = IF due = "now" THEN @ ELSE "null", !.age = 0])
    /\ UNCHANGED <<entry, pub, cons, rec, dead, failed, faults>>

\* A producer withdraws work: cleared recovery checks and superseded
\* classifications become done, attempts untouched.
Cancel(j) ==
    /\ row[j].status \in Live /\ j \in Cancellable
    /\ row' = Put(j, [row[j] EXCEPT !.status = "done", !.age = 0])
    /\ UNCHANGED <<entry, pub, cons, rec, dead, failed, faults>>

BecomeDue(j) ==
    /\ row[j].status = "queued" /\ row[j].due = "later"
    /\ row' = Put(j, [row[j] EXCEPT !.due = "now"])
    /\ UNCHANGED <<entry, pub, cons, rec, dead, failed, faults>>

\* dispatchDue's scan and publishJob's own check of the same predicate.
DispatchDue(j) ==
    /\ j \notin Foreign /\ Due(j) /\ row[j].sid = "null"
    /\ \A p \in pub : p.job # j \/ p.by # "dispatcher"
    /\ Cardinality(pub) < MaxPubs
    /\ pub' = pub \union {[job |-> j, by |-> "dispatcher", at |-> "xadd"]}
    /\ UNCHANGED <<row, entry, cons, rec, dead, failed, faults>>

PublishXadd(p) ==
    /\ p.at = "xadd" /\ Xadd(p.job)
    /\ pub' = (pub \ {p}) \union {[p EXCEPT !.at = "sid"]}
    /\ UNCHANGED <<row, cons, rec, dead, failed, faults>>

\* The stream_id write is fenced on nothing but the row's id.
PublishSid(p) ==
    /\ p.at = "sid"
    /\ row' = IF row[p.job].status = "pruned" THEN row
              ELSE Put(p.job, [row[p.job] EXCEPT !.sid = "set", !.age = 0])
    /\ pub' = pub \ {p}
    /\ UNCHANGED <<entry, cons, rec, dead, failed, faults>>

\* XADD or the stream_id write fails, or the producer dies: swallowed.
PublishLost(p) ==
    /\ pub' = pub \ {p}
    /\ UNCHANGED <<row, entry, cons, rec, dead, failed, faults>>

-----------------------------------------------------------------------------
(* Consumers.                                                              *)

\* The worker that has only its delivered entry left to acknowledge.
Acking(w) == [Idle EXCEPT !.pc = "ack", !.batch = w.batch, !.cur = w.cur, !.stuck = w.stuck]

\* The worker once an entry is done with: back to its batch or to process();
\* a worker whose watchdog fired only waits for the process to exit.
Rested(w) ==
    IF w.stuck THEN [Idle EXCEPT !.pc = "exit", !.stuck = TRUE]
    ELSE [Idle EXCEPT !.batch = w.batch, !.pc = IF w.batch = {} THEN "free" ELSE "next"]

\* process(): XAUTOCLAIM idle pending entries, then XREADGROUP new ones.
Poll(c) ==
    /\ cons[c].pc = "free"
    /\ \E S \in SUBSET {e \in Entries : entry[e].at # "gone"} :
        /\ S # {} /\ Cardinality(S) <= BatchSize
        /\ entry' = [e \in Entries |->
                        IF e \in S THEN [entry[e] EXCEPT !.at = "pending"] ELSE entry[e]]
        /\ cons' = [cons EXCEPT ![c] = [@ EXCEPT !.pc = "next",
                                  !.batch = {[id |-> e, job |-> entry[e].job] : e \in S}]]
    /\ UNCHANGED <<row, pub, rec, dead, failed, faults>>

\* Mutant: a stale delivery is dropped without an XACK.
SelectRowNoAck(c, d) ==
    /\ cons[c].pc = "next"
    /\ LET mine == row[d.job].status \in Live /\ d.job \notin Foreign
           taken == [cons[c] EXCEPT !.cur = d.id, !.batch = @ \ {d}]
       IN  cons' = [cons EXCEPT ![c] =
                      IF mine THEN [taken EXCEPT !.pc = "claim", !.job = d.job, !.input = row[d.job].input]
                      ELSE Rested(taken)]
    /\ UNCHANGED <<row, entry, pub, rec, dead, failed, faults>>

\* claimForDelivery's SELECT: the payload the handler will get is read here.
SelectRow(c, d) ==
    /\ cons[c].pc = "next"
    /\ LET j == d.job
           mine == row[j].status \in Live /\ j \notin Foreign
           taken == [cons[c] EXCEPT !.cur = d.id, !.batch = @ \ {d}]
       IN  cons' = [cons EXCEPT ![c] =
                      IF mine THEN [taken EXCEPT !.pc = "claim", !.job = j, !.input = row[j].input]
                      ELSE Acking(taken)]
    /\ UNCHANGED <<row, entry, pub, rec, dead, failed, faults>>

\* Mutant: a processing row is claimed whatever its age.
ClaimableAnyAge(j) == row[j].due = "now" /\ row[j].status \in Live

Claimable(j) ==
    /\ row[j].due = "now"
    /\ row[j].status = "queued" \/ (row[j].status = "processing" /\ row[j].age >= 1)

\* Mutant: reclaiming a stranded row keeps its attempts.
ClaimSameToken(c) ==
    LET j == cons[c].job
        token == IF row[j].status = "queued" THEN row[j].attempts + 1 ELSE row[j].attempts
    IN  /\ cons[c].pc = "claim"
        /\ IF Claimable(j)
           THEN /\ row' = Put(j, [row[j] EXCEPT !.status = "processing", !.age = 0,
                                              !.attempts = token])
                /\ cons' = [cons EXCEPT ![c] = [@ EXCEPT !.pc = "run", !.token = token]]
           ELSE cons' = [cons EXCEPT ![c] = Acking(@)] /\ UNCHANGED row
        /\ UNCHANGED <<entry, pub, rec, dead, failed, faults>>

\* claimForDelivery's UPDATE: attempts + 1 is the lease token.
Claim(c) ==
    LET j == cons[c].job
    IN  /\ cons[c].pc = "claim"
        /\ IF Claimable(j)
           THEN /\ row' = Put(j, [row[j] EXCEPT !.status = "processing", !.age = 0,
                                              !.attempts = @ + 1])
                /\ cons' = [cons EXCEPT ![c] = [@ EXCEPT !.pc = "run", !.token = row[j].attempts + 1]]
           ELSE cons' = [cons EXCEPT ![c] = Acking(@)] /\ UNCHANGED row
        /\ UNCHANGED <<entry, pub, rec, dead, failed, faults>>

Ack(c) ==
    /\ cons[c].pc = "ack"
    /\ entry' = [entry EXCEPT ![cons[c].cur] = Gone]
    /\ cons' = [cons EXCEPT ![c] = Rested(@)]
    /\ UNCHANGED <<row, pub, rec, dead, failed, faults>>

\* The lease heartbeat, every idleMs/4 while the handler runs.
Heartbeat(c) ==
    LET j == cons[c].job
    IN  /\ cons[c].pc = "run" /\ Holds(c, j) /\ row[j].age > 0
        /\ row' = Put(j, [row[j] EXCEPT !.age = 0])
        /\ UNCHANGED <<entry, pub, cons, rec, dead, failed, faults>>

\* Mutant: completion writes a status outside the vocabulary.
SucceedUnknown(c) ==
    LET j == cons[c].job
    IN  /\ cons[c].pc = "run"
        /\ row' = IF Holds(c, j) THEN Put(j, [row[j] EXCEPT !.status = "completed", !.age = 0]) ELSE row
        /\ cons' = [cons EXCEPT ![c] = Acking(@)]
        /\ UNCHANGED <<entry, pub, rec, dead, failed, faults>>

Succeed(c) ==
    LET j == cons[c].job
    IN  /\ cons[c].pc = "run"
        /\ row' = IF Holds(c, j) THEN Put(j, [row[j] EXCEPT !.status = "done", !.age = 0]) ELSE row
        /\ cons' = [cons EXCEPT ![c] = Acking(@)]
        /\ UNCHANGED <<entry, pub, rec, dead, failed, faults>>

\* A requeued delivery stays pending; a unique violation that is rethrown
\* rejects process() and leaves the rest of the batch pending too.
AfterRequeue(w, outcome) ==
    CASE outcome = "requeued" -> Rested(w)
      [] outcome = "conflict" -> IF w.stuck THEN Rested(w) ELSE Idle
      [] OTHER -> Acking(w)

\* Mutant: the dead stream is posted to whether or not the fenced write matched.
FailWithPosts(c, w, fatal, cap) ==
    LET j == w.job
        held == Holds(c, j)
        outcome == RequeueOutcome(j, held)
    IN  /\ cons[c].pc = "run"
        /\ failed' = [failed EXCEPT ![j] = IF held THEN @ + 1 ELSE @]
        /\ IF fatal \/ w.token >= cap
           THEN /\ row' = IF held THEN Put(j, [row[j] EXCEPT !.status = "dead", !.age = 0]) ELSE row
                /\ cons' = [cons EXCEPT ![c] = [w EXCEPT !.pc = "post"]]
           ELSE Requeue(j, outcome, row[j].sid) /\ cons' = [cons EXCEPT ![c] = AfterRequeue(w, outcome)]
        /\ UNCHANGED <<entry, pub, rec, dead, faults>>

\* fail(): dead-letter at the cap, else requeue, both fenced on the lease.
FailWith(c, w, fatal, cap) ==
    LET j == w.job
        held == Holds(c, j)
        outcome == RequeueOutcome(j, held)
    IN  /\ cons[c].pc = "run"
        /\ failed' = [failed EXCEPT ![j] = IF held THEN @ + 1 ELSE @]
        /\ IF fatal \/ w.token >= cap
           THEN /\ row' = IF held THEN Put(j, [row[j] EXCEPT !.status = "dead", !.age = 0]) ELSE row
                /\ cons' = [cons EXCEPT ![c] = IF held THEN [w EXCEPT !.pc = "post"] ELSE Acking(w)]
           ELSE Requeue(j, outcome, row[j].sid) /\ cons' = [cons EXCEPT ![c] = AfterRequeue(w, outcome)]
        /\ UNCHANGED <<entry, pub, rec, dead, faults>>

\* The handler throws: past its deadline any error counts against DeadlineCap.
Fail(c, kind) ==
    FailWith(c, cons[c], kind \in Fatal, IF cons[c].late THEN DeadlineCap ELSE Cap[kind])

DeadPost(c) ==
    /\ cons[c].pc = "post"
    /\ dead' = dead \union {cons[c].job}
    /\ cons' = [cons EXCEPT ![c] = Acking(@)]
    /\ UNCHANGED <<row, entry, pub, rec, failed, faults>>

\* maxProcessingMs passes: the handler's signal aborts.
Deadline(c) ==
    /\ cons[c].pc = "run" /\ ~cons[c].late
    /\ cons' = [cons EXCEPT ![c].late = TRUE]
    /\ UNCHANGED <<row, entry, pub, rec, dead, failed, faults>>

\* The watchdog of a handler that ignored its deadline: it fails the job in
\* the handler's place, then recycles the process; a fallback timer exits
\* even if the write hangs.  Without onStuck the lease is held.  What the handler
\* still does until the process exits is no step of the queue: the delivery is
\* settled, and its return or throw writes nothing any more.
StuckRelease(c) ==
    /\ Recycles /\ cons[c].late
    /\ FailWith(c, [cons[c] EXCEPT !.stuck = TRUE], FALSE, DeadlineCap)

Recycle(c) ==
    /\ cons[c].stuck
    /\ cons' = [cons EXCEPT ![c] = Idle]
    /\ UNCHANGED <<row, entry, pub, rec, dead, failed, faults>>

-----------------------------------------------------------------------------
(* The reconcile driver: one pass selects, then treats each row in turn.   *)

\* Mutant: stranded processing rows are not scanned.
ScannedQueuedOnly(j) ==
    /\ j \notin Foreign /\ row[j].due = "now"
    /\ row[j].status = "queued" /\ (row[j].sid = "null" \/ row[j].age = 2)

\* Mutant: a processing row counts as stranded at any age.
ScannedAnyAge(j) ==
    /\ j \notin Foreign /\ row[j].due = "now"
    /\ row[j].status = "processing" \/ (row[j].status = "queued" /\ (row[j].sid = "null" \/ row[j].age = 2))

Scanned(j) ==
    /\ j \notin Foreign /\ row[j].due = "now"
    /\ \/ row[j].status = "queued" /\ (row[j].sid = "null" \/ row[j].age = 2)
       \/ row[j].status = "processing" /\ row[j].age = 2

RecSelect ==
    LET stale == {j \in Jobs : Scanned(j)}
    IN  /\ rec.pc = "idle" /\ stale # {}
        /\ rec' = [rec EXCEPT !.pc = "next", !.todo =
                     {[job |-> j, attempts |-> row[j].attempts, status |-> row[j].status] :
                        j \in stale}]
        /\ UNCHANGED <<row, entry, pub, cons, dead, failed, faults>>

\* The pass once one row is done with.
Turn == [rec EXCEPT !.pc = IF rec.todo = {} THEN "idle" ELSE "next", !.cur = NoJob]

\* Mutant: every stranded processing row is taken for superseded.
RecNextRetires(s) ==
    /\ rec.pc = "next" /\ s \in rec.todo
    /\ rec' = [pc |-> IF s.status = "processing" THEN "retire" ELSE "xadd",
               todo |-> rec.todo \ {s}, cur |-> s]
    /\ UNCHANGED <<row, entry, pub, cons, dead, failed, faults>>

\* A stranded row that a queued successor supersedes is retired.
RecNext(s) ==
    /\ rec.pc = "next" /\ s \in rec.todo
    /\ LET superseded == \E k \in Jobs : SameKey(s.job, k) /\ row[k].status = "queued"
       IN  rec' = [pc |-> IF s.status = "processing" /\ superseded THEN "retire" ELSE "xadd",
                   todo |-> rec.todo \ {s}, cur |-> s]
    /\ UNCHANGED <<row, entry, pub, cons, dead, failed, faults>>

RecRetire ==
    LET j == rec.cur.job
        matched == row[j].status = "processing" /\ row[j].attempts = rec.cur.attempts
    IN  /\ rec.pc = "retire"
        /\ row' = IF matched THEN Put(j, [row[j] EXCEPT !.status = "done", !.age = 0]) ELSE row
        /\ rec' = IF matched THEN Turn ELSE [rec EXCEPT !.pc = "xadd"]
        /\ UNCHANGED <<entry, pub, cons, dead, failed, faults>>

RecXadd ==
    /\ rec.pc = "xadd" /\ Xadd(rec.cur.job)
    /\ rec' = [rec EXCEPT !.pc = "reset"]
    /\ UNCHANGED <<row, pub, cons, dead, failed, faults>>

\* Mutant: the reset is not fenced on attempts.
RecResetUnfenced ==
    LET j == rec.cur.job
        outcome == RequeueOutcome(j, row[j].status # "pruned")
    IN  /\ rec.pc = "reset"
        /\ Requeue(j, outcome, "set")
        /\ rec' = IF outcome = "conflict" THEN Resting ELSE Turn
        /\ UNCHANGED <<entry, pub, cons, dead, failed, faults>>

\* The reset, fenced on the attempts the scan saw (and on nothing else).
RecReset ==
    LET j == rec.cur.job
        matches == row[j].status # "pruned" /\ row[j].attempts = rec.cur.attempts
        outcome == RequeueOutcome(j, matches)
    IN  /\ rec.pc = "reset"
        /\ Requeue(j, outcome, "set")
        /\ rec' = IF outcome = "conflict" THEN Resting ELSE Turn
        /\ UNCHANGED <<entry, pub, cons, dead, failed, faults>>

-----------------------------------------------------------------------------
(* Retention, time and faults.                                             *)

\* pruneTerminalJobs deletes the row.  Retention outlasts every age told apart
\* here, so when it elapses is left open.
Prune(j) ==
    /\ row[j].status \in Terminal
    /\ row' = Put(j, [NoRow EXCEPT !.status = "pruned"])
    /\ UNCHANGED <<entry, pub, cons, rec, dead, failed, faults>>

Leased(j) == \E c \in Consumers : cons[c].pc = "run" /\ cons[c].job = j /\ Holds(c, j)

Older(j) ==
    /\ row[j].status \in Live /\ row[j].age < 2
    /\ row' = Put(j, [row[j] EXCEPT !.age = @ + 1])
    /\ UNCHANGED <<entry, pub, cons, rec, dead, failed>>

\* Mutant: no heartbeat renews a live lease.
AgeNoHeartbeat(j) == Older(j) /\ UNCHANGED faults

\* Time passes; heartbeats keep a live lease fresh ...
Age(j) == ~Leased(j) /\ Older(j) /\ UNCHANGED faults

\* ... unless they fail: a stalled event loop, an unreachable database.
Lapse(j) ==
    /\ Leased(j) /\ Older(j) /\ faults.lapse < MaxLapses
    /\ faults' = [faults EXCEPT !.lapse = @ + 1]

\* The worker process dies and is restarted; what it read stays pending.
Crash(c) ==
    /\ cons[c].pc # "free" /\ faults.crash < MaxCrashes
    /\ cons' = [cons EXCEPT ![c] = Idle]
    /\ faults' = [faults EXCEPT !.crash = @ + 1]
    /\ UNCHANGED <<row, entry, pub, rec, dead, failed>>

\* The reconcile pass dies between two of its calls.
RecCrash ==
    /\ rec.pc # "idle" /\ faults.crash < MaxCrashes
    /\ rec' = Resting
    /\ faults' = [faults EXCEPT !.crash = @ + 1]
    /\ UNCHANGED <<row, entry, pub, cons, dead, failed>>

\* MAXLEN ~ drops an entry; a pending one is never redelivered.
Trim(e) ==
    /\ entry[e].at # "gone" /\ faults.trim < MaxTrims
    /\ entry' = [entry EXCEPT ![e] = Gone]
    /\ faults' = [faults EXCEPT !.trim = @ + 1]
    /\ UNCHANGED <<row, pub, cons, rec, dead, failed>>

-----------------------------------------------------------------------------
Producer ==
    \/ \E j \in Jobs, due \in {"now", "later"} : Enqueue(j, due) \/ Coalesce(j, due)
    \/ \E j \in Jobs : Cancel(j) \/ BecomeDue(j) \/ DispatchDue(j)
    \/ \E p \in pub : PublishXadd(p) \/ PublishSid(p) \/ PublishLost(p)

Consumer(c) ==
    \/ Poll(c) \/ Claim(c) \/ Ack(c) \/ DeadPost(c)
    \/ \E d \in cons[c].batch : SelectRow(c, d)
    \/ Heartbeat(c) \/ Succeed(c) \/ (\E kind \in ErrorKinds : Fail(c, kind))
    \/ Deadline(c) \/ StuckRelease(c) \/ Recycle(c)

Reconcile ==
    \/ RecSelect \/ RecRetire \/ RecXadd \/ RecReset
    \/ \E s \in rec.todo : RecNext(s)

Environment ==
    \/ \E j \in Jobs : Prune(j) \/ Age(j) \/ Lapse(j)
    \/ \E c \in Consumers : Crash(c)
    \/ \E e \in Entries : Trim(e)
    \/ RecCrash

Next == Producer \/ (\E c \in Consumers : Consumer(c)) \/ Reconcile \/ Environment

Spec == Init /\ [][Next]_vars

\* Scheduling the code provides: loops poll, awaited calls return, timers
\* fire, time passes.  A handler need not ever return.
Fairness ==
    /\ \A c \in Consumers :
        /\ WF_vars(Poll(c)) /\ WF_vars(Claim(c)) /\ WF_vars(Ack(c)) /\ WF_vars(DeadPost(c))
        /\ WF_vars(\E d \in cons[c].batch : SelectRow(c, d))
        /\ WF_vars(Deadline(c)) /\ WF_vars(StuckRelease(c)) /\ WF_vars(Recycle(c))
    /\ WF_vars(Reconcile)
    /\ \A j \in Jobs : WF_vars(Age(j)) /\ WF_vars(BecomeDue(j))

FairSpec == Spec /\ Fairness

-----------------------------------------------------------------------------
(* Properties.                                                             *)

Running(c, j) == cons[c].pc = "run" /\ cons[c].job = j

\* Two handlers running the same job never carry the same lease token, and no
\* token is ahead of the row: claimForDelivery's "attempts is our lease token".
TokenUnique ==
    \A c \in Consumers : cons[c].pc = "run" =>
        /\ row[cons[c].job].status = "pruned" \/ cons[c].token <= row[cons[c].job].attempts
        /\ \A d \in Consumers \ {c} : Running(d, cons[c].job) => cons[d].token # cons[c].token

\* While heartbeats work, one handler at most runs a job, whatever entries are
\* duplicated, reclaimed, re-added by reconcile or left behind by a crash.
SoleRunner ==
    faults.lapse = 0 =>
        \A c, d \in Consumers, j \in Jobs : Running(c, j) /\ Running(d, j) => c = d

\* runbook.generate, postmortem.generate and assessment.grade: two generations
\* for one incident never run together (jobs_runbook_coalesce_idx).
OneGenerationPerKey ==
    faults.lapse = 0 =>
        \A c, d \in Consumers, j, k \in Exclusive :
            Running(c, j) /\ Running(d, k) => ~SameKey(j, k)

\* While heartbeats work, a lease renewed within idleMs is taken away by nobody:
\* no other consumer nor the reconcile driver changes that row's status or attempts.
FreshLeaseKept ==
    [][\A c \in Consumers : LET j == cons[c].job IN
         /\ faults.lapse = 0 /\ cons[c].pc = "run" /\ Holds(c, j) /\ row[j].age = 0
         /\ rec' # rec \/ \E d \in Consumers \ {c} : cons'[d] # cons[d]
         => row'[j].status = "processing" /\ row'[j].attempts = row[j].attempts]_vars

\* Work is given up as superseded (by reconcile, or by a failing topology
\* handler) only when another job with its key was accepted.
RetiredIsSuperseded ==
    [][\A j \in Jobs :
         /\ row[j].status = "processing" /\ row'[j].status = "done"
         /\ rec' # rec \/ failed' # failed
         => \E k \in Jobs : SameKey(j, k) /\ row[k].status # "absent"]_vars

\* A handler whose job was claimed again since changes no row when it ends.
LostLeaseIsMute ==
    [][\A c \in Consumers :
         /\ cons[c].pc = "run" /\ cons[c].token < row[cons[c].job].attempts
         /\ cons'[c] # cons[c]
         => row' = row /\ dead' = dead]_vars

\* Every run of a job after its first is paid for by an error the queue
\* charged, a crash or a failed heartbeat: no duplicate delivery reruns a job.
EveryRerunIsPaid ==
    \A j \in Jobs : row[j].attempts <= 1 + failed[j] + faults.crash + faults.lapse

\* done and dead are terminal: such a row is only ever deleted by retention.
TerminalIsFinal ==
    [][\A j \in Jobs : row[j].status \in Terminal =>
         row'[j].status \in {row[j].status, "pruned"}]_vars

\* The dead stream names only jobs whose row is dead.
DeadStreamTruthful ==
    faults.lapse = 0 => \A j \in dead : row[j].status \in {"dead", "pruned"}

\* A handler runs with every input merged into its job while it was queued.
RunsLatestInput ==
    \A c \in Consumers : cons[c].pc = "run" /\ Holds(c, cons[c].job)
        => cons[c].input = row[cons[c].job].input

\* Every accepted job settles: lost dispatches, trimmed entries, crashes and
\* handlers that never return are all recovered from.
EveryJobSettles ==
    \A j \in Jobs : (j \notin Foreign /\ row[j].status \in Live) ~> (row[j].status \notin Live)

\* Every delivered entry is acknowledged in the end: the pending list drains.
PendingDrains == \A e \in Entries : (entry[e].at = "pending") ~> (entry[e].at = "gone")

\* The queue implements LeasedJobs as long as heartbeats work and no producer
\* withdraws a job: a worker holds a job from its claim to its terminal write.
Holder(j) ==
    IF \E c \in Consumers : Running(c, j) /\ Holds(c, j)
    THEN CHOOSE c \in Consumers : Running(c, j) /\ Holds(c, j) ELSE NoJob

Stage(j) ==
    CASE row[j].status = "queued" -> "waiting"
      [] row[j].status = "processing" -> "leased"
      [] row[j].status \in Terminal -> "settled"
      [] row[j].status = "pruned" -> "forgotten"
      [] OTHER -> "absent"

Promise == INSTANCE LeasedJobs WITH
    Workers <- Consumers, Nobody <- NoJob,
    state <- [j \in Jobs |-> Stage(j)],
    grants <- [j \in Jobs |-> row[j].attempts],
    holder <- [j \in Jobs |-> Holder(j)]

\* Every step of the queue is a step of LeasedJobs or leaves it unchanged.
KeepsPromise == Promise!Spec
=============================================================================
