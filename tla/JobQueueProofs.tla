--------------------------- MODULE JobQueueProofs ---------------------------
(***************************************************************************)
(* Theorems about JobQueue that hold for every value of its constants: the *)
(* types and the lease tokens, then leases, what they cost, what the dead  *)
(* stream says, and the refinement of LeasedJobs.                          *)
(***************************************************************************)
EXTENDS JobQueue, TLAPS

Outcomes == {"unmatched", "requeued", "retired", "conflict"}

(***************************************************************************)
(* The operators that build a row, a worker or a pass stay in their types. *)
(***************************************************************************)
LEMMA PutType ==
    ASSUME row \in [Jobs -> Rows], NEW j \in Jobs, NEW r \in Rows
    PROVE  Put(j, r) \in [Jobs -> Rows]
BY DEF Put

LEMMA NoRowType == NoRow \in Rows
BY DEF NoRow, Rows, Statuses

\* What the queue's UPDATE statements make of a row is a row.
LEMMA UpdateType ==
    ASSUME NEW r \in Rows, NEW due \in {"now", "later"}, NEW sid \in {"null", "set"}
    PROVE  /\ [r EXCEPT !.status = "queued", !.due = due] \in Rows
           /\ [r EXCEPT !.status = "queued", !.sid = sid, !.age = 0] \in Rows
           /\ [r EXCEPT !.input = @ + 1, !.due = due,
                         !.sid = IF due = "now" THEN @ ELSE "null", !.age = 0] \in Rows
           /\ [r EXCEPT !.status = "processing", !.age = 0, !.attempts = @ + 1] \in Rows
           /\ [r EXCEPT !.status = "done", !.age = 0] \in Rows
           /\ [r EXCEPT !.status = "dead", !.age = 0] \in Rows
           /\ [r EXCEPT !.sid = "set", !.age = 0] \in Rows
           /\ [r EXCEPT !.due = "now"] \in Rows
           /\ [r EXCEPT !.age = 0] \in Rows
<1>1. [r EXCEPT !.status = "queued", !.due = due] \in Rows
  BY DEF Rows, Statuses
<1>2. [r EXCEPT !.status = "queued", !.sid = sid, !.age = 0] \in Rows
  BY DEF Rows, Statuses
<1>3. [r EXCEPT !.input = @ + 1, !.due = due,
                !.sid = IF due = "now" THEN @ ELSE "null", !.age = 0] \in Rows
  <2>1. r.input + 1 \in Nat /\ r.sid \in {"null", "set"}
    BY DEF Rows
  <2>2. \A n \in Nat, v \in {"null", "set"} :
          [r EXCEPT !.input = n, !.due = due, !.sid = v, !.age = 0] \in Rows
    BY DEF Rows
  <2>3. CASE due = "now"
    <3>1. [r EXCEPT !.input = r.input + 1, !.due = due, !.sid = r.sid, !.age = 0] \in Rows
      BY <2>1, <2>2
    <3> QED BY <3>1, <2>3 DEF Rows
  <2>4. CASE due = "later"
    <3>1. [r EXCEPT !.input = r.input + 1, !.due = due, !.sid = "null", !.age = 0] \in Rows
      BY <2>1, <2>2
    <3> QED BY <3>1, <2>4 DEF Rows
  <2> QED BY <2>3, <2>4
<1>4. [r EXCEPT !.status = "processing", !.age = 0, !.attempts = @ + 1] \in Rows
  <2>1. r.attempts + 1 \in Nat
    BY DEF Rows
  <2>2. [r EXCEPT !.status = "processing", !.age = 0] \in Rows
    BY DEF Rows, Statuses
  <2>3. [[r EXCEPT !.status = "processing", !.age = 0] EXCEPT !.attempts = r.attempts + 1] \in Rows
    BY <2>1, <2>2 DEF Rows
  <2> QED BY <2>3 DEF Rows
<1>5. /\ [r EXCEPT !.status = "done", !.age = 0] \in Rows
      /\ [r EXCEPT !.status = "dead", !.age = 0] \in Rows
  BY DEF Rows, Statuses
<1>6. /\ [r EXCEPT !.sid = "set", !.age = 0] \in Rows
      /\ [r EXCEPT !.due = "now"] \in Rows
      /\ [r EXCEPT !.age = 0] \in Rows
  BY DEF Rows
<1> QED BY <1>1, <1>2, <1>3, <1>4, <1>5, <1>6

LEMMA GoneType == Gone \in Slots
BY DEF Gone, Slots

LEMMA IdleType == Idle \in Workers
BY DEF Idle, Workers

LEMMA RestedType == ASSUME NEW w \in Workers PROVE Rested(w) \in Workers
BY ZenonT(40) DEF Rested, Idle, Workers

LEMMA AckingType ==
    ASSUME NEW w \in Workers, w.cur \in Entries
    PROVE  Acking(w) \in Workers
BY DEF Acking, Idle, Workers

LEMMA AfterRequeueType ==
    ASSUME NEW w \in Workers, w.cur \in Entries, NEW o \in Outcomes
    PROVE  AfterRequeue(w, o) \in Workers
BY IdleType, RestedType, AckingType DEF AfterRequeue, Outcomes

LEMMA OutcomeType == \A j, m : RequeueOutcome(j, m) \in Outcomes
BY DEF RequeueOutcome, Outcomes

\* requeueUnlessSuperseded writes one row, to queued or done, or none.
LEMMA RequeueType ==
    ASSUME row \in [Jobs -> Rows], NEW j \in Jobs, NEW o, NEW sid \in {"null", "set"},
           Requeue(j, o, sid)
    PROVE  row' \in [Jobs -> Rows]
<1> DEFINE queued == [row[j] EXCEPT !.status = "queued", !.sid = sid, !.age = 0]
           done == [row[j] EXCEPT !.status = "done", !.age = 0]
<1>1. row' = Put(j, queued) \/ row' = Put(j, done) \/ row' = row
  BY DEF Requeue
<1>2. queued \in Rows /\ done \in Rows
  BY ZenonT(40) DEF Rows, Statuses
<1> QED BY <1>1, <1>2, PutType

LEMMA XaddType ==
    ASSUME entry \in [Entries -> Slots], NEW j \in Jobs, Xadd(j)
    PROVE  entry' \in [Entries -> Slots]
BY DEF Xadd, Slots

LEMMA RestingType == Resting \in Passes
BY DEF Resting, Passes

LEMMA TurnType == rec \in Passes => Turn \in Passes
BY DEF Turn, Passes

(***************************************************************************)
(* Each action keeps the types.                                            *)
(***************************************************************************)
LEMMA InitType == Init => TypeOK
BY NoRowType, GoneType, IdleType, RestingType DEF Init, TypeOK, Faults

LEMMA ProducerType == ASSUME TypeOK, Producer PROVE TypeOK'
<1>1. ASSUME NEW j \in Jobs, NEW due \in {"now", "later"}, Enqueue(j, due) PROVE TypeOK'
  <2>1. [row[j] EXCEPT !.status = "queued", !.due = due] \in Rows
    BY UpdateType DEF TypeOK
  <2>2. row' \in [Jobs -> Rows]
    BY <1>1, <2>1, PutType DEF Enqueue, TypeOK
  <2>3. pub' \subseteq Pubs
    BY <1>1 DEF Enqueue, TypeOK, Pubs
  <2> QED BY <1>1, <2>2, <2>3 DEF Enqueue, TypeOK
<1>2. ASSUME NEW j \in Jobs, NEW due \in {"now", "later"}, Coalesce(j, due) PROVE TypeOK'
  <2>1. [row[j] EXCEPT !.input = @ + 1, !.due = due,
                       !.sid = IF due = "now" THEN @ ELSE "null", !.age = 0] \in Rows
    BY UpdateType DEF TypeOK
  <2> QED BY <1>2, <2>1, PutType DEF Coalesce, TypeOK
<1>3. ASSUME NEW j \in Jobs, Cancel(j) PROVE TypeOK'
  <2>1. [row[j] EXCEPT !.status = "done", !.age = 0] \in Rows
    BY UpdateType DEF TypeOK
  <2> QED BY <1>3, <2>1, PutType DEF Cancel, TypeOK
<1>4. ASSUME NEW j \in Jobs, BecomeDue(j) PROVE TypeOK'
  <2>1. [row[j] EXCEPT !.due = "now"] \in Rows
    BY UpdateType DEF TypeOK
  <2> QED BY <1>4, <2>1, PutType DEF BecomeDue, TypeOK
<1>5. ASSUME NEW j \in Jobs, DispatchDue(j) PROVE TypeOK'
  BY <1>5 DEF DispatchDue, TypeOK, Pubs
<1>6. ASSUME NEW p \in pub, PublishXadd(p) PROVE TypeOK'
  <2>1. p \in Pubs /\ p.job \in Jobs /\ [p EXCEPT !.at = "sid"] \in Pubs
    BY DEF TypeOK, Pubs
  <2>2. entry' \in [Entries -> Slots]
    BY <1>6, <2>1, XaddType DEF PublishXadd, TypeOK
  <2> QED BY <1>6, <2>1, <2>2 DEF PublishXadd, TypeOK
<1>7. ASSUME NEW p \in pub, PublishSid(p) PROVE TypeOK'
  <2>1. p.job \in Jobs
    BY DEF TypeOK, Pubs
  <2>2. [row[p.job] EXCEPT !.sid = "set", !.age = 0] \in Rows
    BY <2>1, UpdateType DEF TypeOK
  <2> QED BY <1>7, <2>1, <2>2, PutType DEF PublishSid, TypeOK
<1>8. ASSUME NEW p \in pub, PublishLost(p) PROVE TypeOK'
  BY <1>8 DEF PublishLost, TypeOK
<1> QED BY <1>1, <1>2, <1>3, <1>4, <1>5, <1>6, <1>7, <1>8 DEF Producer

LEMMA ReconcileType == ASSUME TypeOK, Reconcile PROVE TypeOK'
<1>1. CASE RecSelect
  <2> DEFINE found == {[job |-> j, attempts |-> row[j].attempts, status |-> row[j].status] :
                         j \in {j \in Jobs : Scanned(j)}}
  <2>1. found \subseteq Stuck
    BY DEF TypeOK, Stuck, Scanned, Live, Rows
  <2>2. [rec EXCEPT !.pc = "next", !.todo = found] \in Passes
    BY <2>1 DEF TypeOK, Passes
  <2> QED BY <1>1, <2>2 DEF RecSelect, TypeOK
<1>2. ASSUME NEW s \in rec.todo, RecNext(s) PROVE TypeOK'
  BY <1>2 DEF RecNext, TypeOK, Passes, Stuck
<1>3. CASE RecRetire
  <2> DEFINE j == rec.cur.job
  <2>1. j \in Jobs
    BY <1>3 DEF RecRetire, TypeOK, Passes, Stuck
  <2>2. [row[j] EXCEPT !.status = "done", !.age = 0] \in Rows
    BY <2>1, UpdateType DEF TypeOK
  <2>3. row' \in [Jobs -> Rows]
    BY <1>3, <2>1, <2>2, PutType DEF RecRetire, TypeOK
  <2>4. [rec EXCEPT !.pc = "xadd"] \in Passes
    BY <1>3 DEF RecRetire, TypeOK, Passes
  <2> QED BY <1>3, <2>3, <2>4, TurnType DEF RecRetire, TypeOK
<1>4. CASE RecXadd
  <2>1. rec.cur.job \in Jobs /\ [rec EXCEPT !.pc = "reset"] \in Passes
    BY <1>4 DEF RecXadd, TypeOK, Passes, Stuck
  <2> QED BY <1>4, <2>1, XaddType DEF RecXadd, TypeOK
<1>5. CASE RecReset
  <2>1. rec.cur.job \in Jobs
    BY <1>5 DEF RecReset, TypeOK, Passes, Stuck
  <2>2. row' \in [Jobs -> Rows]
    BY <1>5, <2>1, RequeueType DEF RecReset, TypeOK
  <2> QED BY <1>5, <2>2, TurnType, RestingType DEF RecReset, TypeOK
<1> QED BY <1>1, <1>2, <1>3, <1>4, <1>5 DEF Reconcile

LEMMA EnvironmentType == ASSUME TypeOK, Environment PROVE TypeOK'
<1>1. ASSUME NEW j \in Jobs, Prune(j) PROVE TypeOK'
  <2>1. [NoRow EXCEPT !.status = "pruned"] \in Rows
    BY DEF NoRow, Rows, Statuses
  <2> QED BY <1>1, <2>1, PutType DEF Prune, TypeOK
<1>2. ASSUME NEW j \in Jobs, Older(j) PROVE row' \in [Jobs -> Rows]
  <2>1. [row[j] EXCEPT !.age = @ + 1] \in Rows
    BY <1>2 DEF Older, TypeOK, Rows
  <2> QED BY <1>2, <2>1, PutType DEF Older, TypeOK
<1>3. ASSUME NEW j \in Jobs, Age(j) PROVE TypeOK'
  BY <1>2, <1>3 DEF Age, Older, TypeOK
<1>4. ASSUME NEW j \in Jobs, Lapse(j) PROVE TypeOK'
  BY <1>2, <1>4 DEF Lapse, Older, TypeOK, Faults
<1>5. ASSUME NEW c \in Consumers, Crash(c) PROVE TypeOK'
  BY <1>5, IdleType DEF Crash, TypeOK, Faults
<1>6. ASSUME NEW e \in Entries, Trim(e) PROVE TypeOK'
  BY <1>6, GoneType DEF Trim, TypeOK, Faults
<1>7. CASE RecCrash
  BY <1>7, RestingType DEF RecCrash, TypeOK, Faults
<1> QED BY <1>1, <1>3, <1>4, <1>5, <1>6, <1>7 DEF Environment

\* The worker that fails a job: the handler itself, or its watchdog.
LEMMA FailType ==
    ASSUME TypeOK, NEW c \in Consumers, NEW w \in Workers, NEW fatal, NEW cap,
           w.job = cons[c].job, w.cur = cons[c].cur, FailWith(c, w, fatal, cap)
    PROVE  TypeOK'
<1> DEFINE j == w.job
           held == Holds(c, j)
<1>1. cons[c] \in Workers /\ cons[c].pc = "run" /\ j \in Jobs /\ w.cur \in Entries
  BY DEF FailWith, TypeOK, Workers
<1>2. failed' \in [Jobs -> Nat]
  BY <1>1 DEF FailWith, TypeOK
<1>3. CASE fatal \/ w.token >= cap
  <2>1. row' \in [Jobs -> Rows]
    <3>1. [row[j] EXCEPT !.status = "dead", !.age = 0] \in Rows
      BY <1>1, UpdateType DEF TypeOK
    <3>2. row' = Put(j, [row[j] EXCEPT !.status = "dead", !.age = 0]) \/ row' = row
      BY <1>3 DEF FailWith
    <3> QED BY <1>1, <3>1, <3>2, PutType DEF TypeOK
  <2>2. [w EXCEPT !.pc = "post"] \in Workers
    BY <1>1 DEF Workers
  <2>3. cons' \in [Consumers -> Workers]
    BY <1>1, <1>3, <2>2, AckingType DEF FailWith, TypeOK
  <2> QED BY <1>2, <2>1, <2>3 DEF FailWith, TypeOK
<1>4. CASE ~(fatal \/ w.token >= cap)
  <2>1. row' \in [Jobs -> Rows]
    <3>1. Requeue(j, RequeueOutcome(j, held), row[j].sid) /\ row[j].sid \in {"null", "set"}
      BY <1>1, <1>4 DEF FailWith, TypeOK, Rows
    <3> QED BY <1>1, <3>1, RequeueType DEF TypeOK
  <2>2. cons' \in [Consumers -> Workers]
    BY <1>1, <1>4, OutcomeType, AfterRequeueType DEF FailWith, TypeOK
  <2> QED BY <1>2, <2>1, <2>2 DEF FailWith, TypeOK
<1> QED BY <1>3, <1>4

LEMMA ConsumerType == ASSUME TypeOK, NEW c \in Consumers, Consumer(c) PROVE TypeOK'
<1>1. CASE Poll(c)
  <2> PICK S \in SUBSET {e \in Entries : entry[e].at # "gone"} :
        /\ entry' = [e \in Entries |->
                        IF e \in S THEN [entry[e] EXCEPT !.at = "pending"] ELSE entry[e]]
        /\ cons' = [cons EXCEPT ![c] = [@ EXCEPT !.pc = "next",
                                  !.batch = {[id |-> e, job |-> entry[e].job] : e \in S}]]
    BY <1>1 DEF Poll
  <2>1. \A e \in S : e \in Entries /\ entry[e] \in Slots /\ entry[e].job \in Jobs
    BY DEF TypeOK, Slots
  <2>2. entry' \in [Entries -> Slots]
    BY <2>1 DEF TypeOK, Slots
  <2>3. {[id |-> e, job |-> entry[e].job] : e \in S} \subseteq [id : Entries, job : Jobs]
    BY <2>1
  <2>4. cons[c] \in Workers
    BY DEF TypeOK
  <2>5. \A B \in SUBSET [id : Entries, job : Jobs] :
          [cons[c] EXCEPT !.pc = "next", !.batch = B] \in Workers
    BY <2>4 DEF Workers
  <2>6. cons' \in [Consumers -> Workers]
    BY <2>3, <2>5 DEF TypeOK
  <2> QED BY <1>1, <2>2, <2>6 DEF Poll, TypeOK
<1>2. ASSUME NEW d \in cons[c].batch, SelectRow(c, d) PROVE TypeOK'
  <2> DEFINE taken == [cons[c] EXCEPT !.cur = d.id, !.batch = @ \ {d}]
  <2>1. cons[c] \in Workers /\ cons[c].pc = "next" /\ d \in [id : Entries, job : Jobs]
    BY <1>2 DEF SelectRow, TypeOK, Workers
  <2>2. taken \in Workers /\ taken.cur \in Entries
    BY <2>1 DEF Workers
  <2>3. row[d.job].input \in Nat /\ d.job \in Jobs
    BY <2>1 DEF TypeOK, Rows
  <2>4. [taken EXCEPT !.pc = "claim", !.job = d.job, !.input = row[d.job].input] \in Workers
    BY <2>2, <2>3 DEF Workers
  <2>5. cons' \in [Consumers -> Workers]
    BY <1>2, <2>2, <2>4, AckingType DEF SelectRow, TypeOK
  <2> QED BY <1>2, <2>5 DEF SelectRow, TypeOK
<1>3. CASE Claim(c)
  <2> DEFINE j == cons[c].job
  <2>1. cons[c] \in Workers /\ j \in Jobs /\ cons[c].cur \in Entries /\ row[j] \in Rows
    BY <1>3 DEF Claim, TypeOK, Workers
  <2>2. row' \in [Jobs -> Rows]
    <3> DEFINE claimed == [row[j] EXCEPT !.status = "processing", !.age = 0, !.attempts = @ + 1]
    <3>1. claimed \in Rows
      BY <2>1, UpdateType
    <3>2. row' = Put(j, claimed) \/ row' = row
      BY <1>3 DEF Claim
    <3> QED BY <2>1, <3>1, <3>2, PutType DEF TypeOK
  <2>3. row[j].attempts + 1 \in Nat
    BY <2>1 DEF Rows
  <2>4. [cons[c] EXCEPT !.pc = "run", !.token = row[j].attempts + 1] \in Workers
    BY <2>1, <2>3 DEF Workers
  <2>5. cons' \in [Consumers -> Workers]
    BY <1>3, <2>1, <2>4, AckingType DEF Claim, TypeOK
  <2> QED BY <1>3, <2>2, <2>5 DEF Claim, TypeOK
<1>4. CASE Ack(c)
  BY <1>4, RestedType, GoneType DEF Ack, TypeOK
<1>5. CASE DeadPost(c)
  <2>1. cons[c] \in Workers /\ cons[c].job \in Jobs /\ cons[c].cur \in Entries
    BY <1>5 DEF DeadPost, TypeOK, Workers
  <2> QED BY <1>5, <2>1, AckingType DEF DeadPost, TypeOK
<1>6. CASE Heartbeat(c)
  <2>1. cons[c].job \in Jobs
    BY <1>6 DEF Heartbeat, TypeOK, Workers
  <2> QED BY <1>6, <2>1, UpdateType, PutType DEF Heartbeat, TypeOK
<1>7. CASE Succeed(c)
  <2>1. cons[c] \in Workers /\ cons[c].job \in Jobs /\ cons[c].cur \in Entries
    BY <1>7 DEF Succeed, TypeOK, Workers
  <2>2. row' \in [Jobs -> Rows]
    BY <1>7, <2>1, UpdateType, PutType DEF Succeed, TypeOK
  <2> QED BY <1>7, <2>1, <2>2, AckingType DEF Succeed, TypeOK
<1>8. ASSUME NEW kind \in ErrorKinds, Fail(c, kind) PROVE TypeOK'
  <2>1. cons[c] \in Workers
    BY DEF TypeOK
  <2> QED BY <1>8, <2>1, FailType DEF Fail
<1>9. CASE Deadline(c)
  <2>1. [cons[c] EXCEPT !.late = TRUE] \in Workers
    BY ZenonT(40) DEF TypeOK, Workers
  <2> QED BY <1>9, <2>1 DEF Deadline, TypeOK
<1>10. CASE StuckRelease(c)
  <2>1. [cons[c] EXCEPT !.stuck = TRUE] \in Workers
    BY ZenonT(40) DEF TypeOK, Workers
  <2>2. /\ [cons[c] EXCEPT !.stuck = TRUE].job = cons[c].job
        /\ [cons[c] EXCEPT !.stuck = TRUE].cur = cons[c].cur
    BY DEF TypeOK, Workers
  <2> QED BY <1>10, <2>1, <2>2, FailType DEF StuckRelease
<1>11. CASE Recycle(c)
  BY <1>11, IdleType DEF Recycle, TypeOK
<1> QED BY <1>1, <1>2, <1>3, <1>4, <1>5, <1>6, <1>7, <1>8, <1>9, <1>10, <1>11 DEF Consumer

(***************************************************************************)
(* Every reachable state is well typed: a worker past its claim names a    *)
(* job and an entry, a row never leaves the status vocabulary (schema's    *)
(* jobs_status_vocabulary), a reconcile pass works on a row it selected.   *)
(***************************************************************************)
THEOREM TypeCorrect == Spec => []TypeOK
<1>1. TypeOK /\ [Next]_vars => TypeOK'
  <2> SUFFICES ASSUME TypeOK, [Next]_vars PROVE TypeOK'
    OBVIOUS
  <2>1. CASE Next
    BY <2>1, ProducerType, ConsumerType, ReconcileType, EnvironmentType DEF Next
  <2>2. CASE UNCHANGED vars
    BY <2>2 DEF vars, TypeOK
  <2> QED BY <2>1, <2>2
<1> QED BY InitType, <1>1, PTL DEF Spec

(***************************************************************************)
(* attempts only ever grows while the row exists, and a deleted row stays  *)
(* deleted: the reason a lease token is never issued twice.                *)
(***************************************************************************)
Grows(r, s) ==
    /\ r.status = "pruned" => s.status = "pruned"
    /\ s.status # "pruned" => s.attempts >= r.attempts

LEMMA PutGrows ==
    ASSUME row \in [Jobs -> Rows], NEW j \in Jobs, NEW r \in Rows, Grows(row[j], r), row' = Put(j, r)
    PROVE  \A k \in Jobs : Grows(row[k], row'[k])
<1> SUFFICES ASSUME NEW k \in Jobs PROVE Grows(row[k], row'[k])
  OBVIOUS
<1>1. CASE k = j
  BY <1>1 DEF Put
<1>2. CASE k # j
  BY <1>2 DEF Put, Grows, Rows
<1> QED BY <1>1, <1>2

LEMMA SameGrows ==
    ASSUME row \in [Jobs -> Rows], row' = row
    PROVE  \A k \in Jobs : Grows(row[k], row'[k])
BY DEF Grows, Rows

\* The same row written back with another status, or with one more attempt.
LEMMA UpdateGrows ==
    ASSUME NEW r \in Rows, r.status # "pruned", NEW s \in Rows,
           s.attempts = r.attempts \/ s.attempts = r.attempts + 1
    PROVE  Grows(r, s)
BY DEF Grows, Rows

LEMMA RequeueGrows ==
    ASSUME row \in [Jobs -> Rows], NEW j \in Jobs, NEW o, NEW sid \in {"null", "set"},
           Requeue(j, o, sid), o = "requeued" => row[j].status # "pruned"
    PROVE  \A k \in Jobs : Grows(row[k], row'[k])
<1> DEFINE queued == [row[j] EXCEPT !.status = "queued", !.sid = sid, !.age = 0]
           done == [row[j] EXCEPT !.status = "done", !.age = 0]
<1>1. \/ row[j].status # "pruned" /\ row' = Put(j, queued)
      \/ row[j].status # "pruned" /\ row' = Put(j, done)
      \/ row' = row
  BY DEF Requeue
<1>2. row[j] \in Rows /\ queued \in Rows /\ done \in Rows
  BY UpdateType
<1>3. queued.attempts = row[j].attempts /\ done.attempts = row[j].attempts
  BY <1>2 DEF Rows
<1>4. row[j].status # "pruned" => Grows(row[j], queued) /\ Grows(row[j], done)
  BY <1>2, <1>3, UpdateGrows
<1> QED BY <1>1, <1>2, <1>4, PutGrows, SameGrows

LEMMA ProducerGrows ==
    ASSUME TypeOK, Producer
    PROVE  \A k \in Jobs : Grows(row[k], row'[k])
<1> DEFINE Goal == \A k \in Jobs : Grows(row[k], row'[k])
<1>1. ASSUME NEW j \in Jobs, NEW due \in {"now", "later"}, Enqueue(j, due) PROVE Goal
  <2> DEFINE r == [row[j] EXCEPT !.status = "queued", !.due = due]
  <2>1. row[j] \in Rows /\ r \in Rows
    BY UpdateType DEF TypeOK
  <2>2. r.attempts = row[j].attempts /\ row[j].status # "pruned" /\ row' = Put(j, r)
    BY <1>1, <2>1 DEF Enqueue, Rows
  <2> QED BY <2>1, <2>2, UpdateGrows, PutGrows DEF TypeOK
<1>2. ASSUME NEW j \in Jobs, NEW due \in {"now", "later"}, Coalesce(j, due) PROVE Goal
  <2> DEFINE r == [row[j] EXCEPT !.input = @ + 1, !.due = due,
                                 !.sid = IF due = "now" THEN @ ELSE "null", !.age = 0]
  <2>1. row[j] \in Rows /\ r \in Rows
    BY UpdateType DEF TypeOK
  <2>2. r.attempts = row[j].attempts /\ row[j].status # "pruned" /\ row' = Put(j, r)
    BY <1>2, <2>1 DEF Coalesce, Rows
  <2> QED BY <2>1, <2>2, UpdateGrows, PutGrows DEF TypeOK
<1>3. ASSUME NEW j \in Jobs, Cancel(j) PROVE Goal
  <2> DEFINE r == [row[j] EXCEPT !.status = "done", !.age = 0]
  <2>1. row[j] \in Rows /\ r \in Rows
    BY UpdateType DEF TypeOK
  <2>2. r.attempts = row[j].attempts /\ row[j].status # "pruned" /\ row' = Put(j, r)
    BY <1>3, <2>1 DEF Cancel, Rows, Live
  <2> QED BY <2>1, <2>2, UpdateGrows, PutGrows DEF TypeOK
<1>4. ASSUME NEW j \in Jobs, BecomeDue(j) PROVE Goal
  <2> DEFINE r == [row[j] EXCEPT !.due = "now"]
  <2>1. row[j] \in Rows /\ r \in Rows
    BY UpdateType DEF TypeOK
  <2>2. r.attempts = row[j].attempts /\ row[j].status # "pruned" /\ row' = Put(j, r)
    BY <1>4, <2>1 DEF BecomeDue, Rows
  <2> QED BY <2>1, <2>2, UpdateGrows, PutGrows DEF TypeOK
<1>5. ASSUME NEW p \in pub, PublishSid(p) PROVE Goal
  <2> DEFINE j == p.job
             r == [row[j] EXCEPT !.sid = "set", !.age = 0]
  <2>1. j \in Jobs
    BY DEF TypeOK, Pubs
  <2>2. row[j] \in Rows /\ r \in Rows
    BY <2>1, UpdateType DEF TypeOK
  <2>3. r.attempts = row[j].attempts
    BY <2>2 DEF Rows
  <2>4. row' = row \/ (row[j].status # "pruned" /\ row' = Put(j, r))
    BY <1>5 DEF PublishSid
  <2> QED BY <2>1, <2>2, <2>3, <2>4, UpdateGrows, PutGrows, SameGrows DEF TypeOK
<1>6. ASSUME row' = row PROVE Goal
  BY <1>6, SameGrows DEF TypeOK
<1>7. \A j \in Jobs : DispatchDue(j) => row' = row
  BY DEF DispatchDue
<1>8. \A p \in pub : PublishXadd(p) \/ PublishLost(p) => row' = row
  BY DEF PublishXadd, PublishLost
<1> QED BY <1>1, <1>2, <1>3, <1>4, <1>5, <1>6, <1>7, <1>8 DEF Producer

LEMMA FailGrows ==
    ASSUME TypeOK, NEW c \in Consumers, NEW w, NEW fatal, NEW cap, w.job \in Jobs,
           FailWith(c, w, fatal, cap)
    PROVE  \A k \in Jobs : Grows(row[k], row'[k])
<1> DEFINE j == w.job
           held == Holds(c, j)
           r == [row[j] EXCEPT !.status = "dead", !.age = 0]
<1>0. row[j] \in Rows /\ r \in Rows
  BY UpdateType DEF TypeOK
<1>1. row[j] \in Rows /\ r \in Rows /\ row[j].sid \in {"null", "set"}
  BY <1>0 DEF Rows
<1>2. r.attempts = row[j].attempts
  BY <1>1 DEF Rows
<1>3. CASE fatal \/ w.token >= cap
  <2>1. row' = row \/ (row[j].status # "pruned" /\ row' = Put(j, r))
    BY <1>3 DEF FailWith, Holds
  <2> QED BY <1>1, <1>2, <2>1, UpdateGrows, PutGrows, SameGrows DEF TypeOK
<1>4. CASE ~(fatal \/ w.token >= cap)
  <2>1. Requeue(j, RequeueOutcome(j, held), row[j].sid)
    BY <1>4 DEF FailWith
  <2>2. RequeueOutcome(j, held) = "requeued" => row[j].status # "pruned"
    BY DEF RequeueOutcome, Holds
  <2> QED BY <1>1, <2>1, <2>2, RequeueGrows DEF TypeOK
<1> QED BY <1>3, <1>4

LEMMA ConsumerGrows ==
    ASSUME TypeOK, NEW c \in Consumers, Consumer(c)
    PROVE  \A k \in Jobs : Grows(row[k], row'[k])
<1> DEFINE j == cons[c].job
           Goal == \A k \in Jobs : Grows(row[k], row'[k])
<1>1. cons[c].pc \in {"claim", "run"} => j \in Jobs /\ row[j] \in Rows
  BY DEF TypeOK, Workers
<1>2. CASE Claim(c)
  <2> DEFINE r == [row[j] EXCEPT !.status = "processing", !.age = 0, !.attempts = @ + 1]
  <2>1. j \in Jobs /\ row[j] \in Rows /\ r \in Rows
    BY <1>1, <1>2, UpdateType DEF Claim
  <2>2. r.attempts = row[j].attempts + 1
    BY <2>1 DEF Rows
  <2>3. row' = row \/ (row[j].status # "pruned" /\ row' = Put(j, r))
    BY <1>2 DEF Claim, Claimable
  <2> QED BY <2>1, <2>2, <2>3, UpdateGrows, PutGrows, SameGrows DEF TypeOK
<1>3. CASE Heartbeat(c)
  <2> DEFINE r == [row[j] EXCEPT !.age = 0]
  <2>1. j \in Jobs /\ row[j] \in Rows /\ r \in Rows
    BY <1>1, <1>3, UpdateType DEF Heartbeat
  <2>2. r.attempts = row[j].attempts
    BY <2>1 DEF Rows
  <2>3. row[j].status # "pruned" /\ row' = Put(j, r)
    BY <1>3 DEF Heartbeat, Holds
  <2> QED BY <2>1, <2>2, <2>3, UpdateGrows, PutGrows DEF TypeOK
<1>4. CASE Succeed(c)
  <2> DEFINE r == [row[j] EXCEPT !.status = "done", !.age = 0]
  <2>1. j \in Jobs /\ row[j] \in Rows /\ r \in Rows
    BY <1>1, <1>4, UpdateType DEF Succeed
  <2>2. r.attempts = row[j].attempts
    BY <2>1 DEF Rows
  <2>3. row' = row \/ (row[j].status # "pruned" /\ row' = Put(j, r))
    BY <1>4 DEF Succeed, Holds
  <2> QED BY <2>1, <2>2, <2>3, UpdateGrows, PutGrows, SameGrows DEF TypeOK
<1>5. ASSUME NEW kind \in ErrorKinds, Fail(c, kind) PROVE Goal
  BY <1>1, <1>5, FailGrows DEF Fail, FailWith
<1>6. CASE StuckRelease(c)
  <2>1. [cons[c] EXCEPT !.stuck = TRUE].job = j
    BY DEF TypeOK, Workers
  <2> QED BY <1>1, <1>6, <2>1, FailGrows DEF StuckRelease, FailWith
<1>7. ASSUME row' = row PROVE Goal
  BY <1>7, SameGrows DEF TypeOK
<1>8. Poll(c) \/ Ack(c) \/ DeadPost(c) \/ Deadline(c) \/ Recycle(c) => row' = row
  BY DEF Poll, Ack, DeadPost, Deadline, Recycle
<1>9. \A d \in cons[c].batch : SelectRow(c, d) => row' = row
  BY DEF SelectRow
<1> QED BY <1>2, <1>3, <1>4, <1>5, <1>6, <1>7, <1>8, <1>9 DEF Consumer

LEMMA ReconcileGrows ==
    ASSUME TypeOK, Reconcile
    PROVE  \A k \in Jobs : Grows(row[k], row'[k])
<1> DEFINE j == rec.cur.job
           Goal == \A k \in Jobs : Grows(row[k], row'[k])
<1>1. CASE RecRetire
  <2> DEFINE r == [row[j] EXCEPT !.status = "done", !.age = 0]
  <2>1. j \in Jobs
    BY <1>1 DEF RecRetire, TypeOK, Passes, Stuck
  <2>2. row[j] \in Rows /\ r \in Rows
    BY <2>1, UpdateType DEF TypeOK
  <2>3. r.attempts = row[j].attempts
    BY <2>2 DEF Rows
  <2>4. row' = row \/ (row[j].status # "pruned" /\ row' = Put(j, r))
    BY <1>1 DEF RecRetire
  <2> QED BY <2>1, <2>2, <2>3, <2>4, UpdateGrows, PutGrows, SameGrows DEF TypeOK
<1>2. CASE RecReset
  <2> DEFINE matches == row[j].status # "pruned" /\ row[j].attempts = rec.cur.attempts
  <2>1. j \in Jobs
    BY <1>2 DEF RecReset, TypeOK, Passes, Stuck
  <2>2. Requeue(j, RequeueOutcome(j, matches), "set")
    BY <1>2 DEF RecReset
  <2>3. RequeueOutcome(j, matches) = "requeued" => row[j].status # "pruned"
    BY DEF RequeueOutcome
  <2> QED BY <2>1, <2>2, <2>3, RequeueGrows DEF TypeOK
<1>3. ASSUME row' = row PROVE Goal
  BY <1>3, SameGrows DEF TypeOK
<1>4. RecSelect \/ RecXadd \/ (\E s \in rec.todo : RecNext(s)) => row' = row
  BY DEF RecSelect, RecXadd, RecNext
<1> QED BY <1>1, <1>2, <1>3, <1>4 DEF Reconcile

LEMMA EnvironmentGrows ==
    ASSUME TypeOK, Environment
    PROVE  \A k \in Jobs : Grows(row[k], row'[k])
<1> DEFINE Goal == \A k \in Jobs : Grows(row[k], row'[k])
<1>1. ASSUME NEW j \in Jobs, Prune(j) PROVE Goal
  <2> DEFINE r == [NoRow EXCEPT !.status = "pruned"]
  <2>1. r \in Rows /\ r.status = "pruned"
    BY DEF NoRow, Rows, Statuses
  <2>2. Grows(row[j], r)
    BY <2>1 DEF Grows
  <2> QED BY <1>1, <2>1, <2>2, PutGrows DEF Prune, TypeOK
<1>2. ASSUME NEW j \in Jobs, Older(j) PROVE Goal
  <2> DEFINE r == [row[j] EXCEPT !.age = @ + 1]
  <2>1. row[j] \in Rows /\ r \in Rows
    BY <1>2 DEF Older, TypeOK, Rows
  <2>2. r.attempts = row[j].attempts /\ row[j].status # "pruned"
    BY <1>2, <2>1 DEF Rows, Older, Live
  <2> QED BY <1>2, <2>1, <2>2, UpdateGrows, PutGrows DEF Older, TypeOK
<1>3. \A j \in Jobs : Age(j) \/ Lapse(j) => Older(j)
  BY DEF Age, Lapse
<1>4. ASSUME row' = row PROVE Goal
  BY <1>4, SameGrows DEF TypeOK
<1>5. RecCrash \/ (\E c \in Consumers : Crash(c)) \/ (\E e \in Entries : Trim(e)) => row' = row
  BY DEF RecCrash, Crash, Trim
<1> QED BY <1>1, <1>2, <1>3, <1>4, <1>5 DEF Environment

LEMMA NextGrows ==
    ASSUME TypeOK, Next
    PROVE  \A k \in Jobs : Grows(row[k], row'[k])
BY ProducerGrows, ConsumerGrows, ReconcileGrows, EnvironmentGrows DEF Next

(***************************************************************************)
(* A handler starts by a claim: any other step leaves its job and token.   *)
(***************************************************************************)
Same(c) == cons[c].pc = "run" /\ cons'[c].job = cons[c].job /\ cons'[c].token = cons[c].token

LEMMA RestRuns ==
    ASSUME NEW w
    PROVE  Rested(w).pc # "run" /\ Acking(w).pc # "run" /\ Idle.pc # "run"
BY DEF Rested, Acking, Idle

LEMMA AfterRequeueRests ==
    ASSUME NEW w, NEW o
    PROVE  AfterRequeue(w, o).pc # "run"
BY RestRuns DEF AfterRequeue

LEMMA FailRests ==
    ASSUME TypeOK, NEW c \in Consumers, NEW w \in Workers, NEW fatal, NEW cap,
           FailWith(c, w, fatal, cap)
    PROVE  cons'[c].pc # "run"
<1>1. [w EXCEPT !.pc = "post"].pc # "run"
  BY DEF Workers
<1> DEFINE after == AfterRequeue(w, RequeueOutcome(w.job, Holds(c, w.job)))
<1>2. after.pc # "run"
  BY AfterRequeueRests
<1>3. \/ cons' = [cons EXCEPT ![c] = [w EXCEPT !.pc = "post"]]
      \/ cons' = [cons EXCEPT ![c] = Acking(w)]
      \/ cons' = [cons EXCEPT ![c] = after]
  BY DEF FailWith
<1> HIDE DEF after
<1>4. cons'[c] \in {[w EXCEPT !.pc = "post"], Acking(w), after}
  BY <1>3 DEF TypeOK
<1> QED BY <1>1, <1>2, <1>4, RestRuns

LEMMA ConsumerRuns ==
    ASSUME TypeOK, NEW c \in Consumers, Consumer(c), ~Claim(c), cons'[c].pc = "run"
    PROVE  Same(c)
<1>1. cons[c] \in Workers
  BY DEF TypeOK
<1>2. ~Poll(c)
  <2> SUFFICES ASSUME Poll(c) PROVE FALSE
    OBVIOUS
  <2> PICK B : cons' = [cons EXCEPT ![c] = [@ EXCEPT !.pc = "next", !.batch = B]]
    BY DEF Poll
  <2> QED BY <1>1 DEF TypeOK, Workers
<1>3. \A d \in cons[c].batch : ~SelectRow(c, d)
  <2> SUFFICES ASSUME NEW d \in cons[c].batch, SelectRow(c, d) PROVE FALSE
    OBVIOUS
  <2> DEFINE taken == [cons[c] EXCEPT !.cur = d.id, !.batch = @ \ {d}]
  <2>1. \A j, n : [taken EXCEPT !.pc = "claim", !.job = j, !.input = n].pc # "run"
    BY <1>1 DEF Workers
  <2>2. Acking(taken).pc # "run"
    BY RestRuns
  <2> QED BY <2>1, <2>2 DEF SelectRow, TypeOK
<1>4. ~Ack(c) /\ ~DeadPost(c) /\ ~Succeed(c) /\ ~Recycle(c)
  BY RestRuns DEF Ack, DeadPost, Succeed, Recycle, TypeOK
<1>5. \A kind \in ErrorKinds : ~Fail(c, kind)
  BY <1>1, FailRests DEF Fail
<1>6. ~StuckRelease(c)
  <2>1. [cons[c] EXCEPT !.stuck = TRUE] \in Workers
    BY <1>1 DEF Workers
  <2> QED BY <2>1, FailRests DEF StuckRelease
<1>7. Heartbeat(c) => Same(c)
  BY DEF Heartbeat, Same
<1>8. Deadline(c) => Same(c)
  BY <1>1 DEF Deadline, Same, TypeOK, Workers
<1> QED BY <1>2, <1>3, <1>4, <1>5, <1>6, <1>7, <1>8 DEF Consumer

\* A consumer's step is its own.
LEMMA OthersStay ==
    ASSUME TypeOK, NEW c \in Consumers, Consumer(c), NEW d \in Consumers, d # c
    PROVE  cons'[d] = cons[d]
<1>1. \A e \in cons[c].batch : SelectRow(c, e) => cons'[d] = cons[d]
  BY DEF SelectRow, TypeOK
<1>2. Poll(c) => cons'[d] = cons[d]
  BY DEF Poll, TypeOK
<1>3. Claim(c) => cons'[d] = cons[d]
  BY DEF Claim, TypeOK
<1>4. \A w, fatal, cap : FailWith(c, w, fatal, cap) => cons'[d] = cons[d]
  BY DEF FailWith, TypeOK
<1>5. Ack(c) \/ DeadPost(c) \/ Succeed(c) \/ Recycle(c) \/ Heartbeat(c) \/ Deadline(c)
      => cons'[d] = cons[d]
  BY DEF Ack, DeadPost, Succeed, Recycle, Heartbeat, Deadline, TypeOK
<1> QED BY <1>1, <1>2, <1>3, <1>4, <1>5 DEF Consumer, Fail, StuckRelease

LEMMA NextRuns ==
    ASSUME TypeOK, Next, NEW c \in Consumers, ~Claim(c), cons'[c].pc = "run"
    PROVE  Same(c)
<1>1. CASE \E d \in Consumers : Consumer(d)
  <2> PICK d \in Consumers : Consumer(d)
    BY <1>1
  <2>1. CASE d = c
    BY <2>1, ConsumerRuns
  <2>2. CASE d # c
    BY <2>2, OthersStay DEF Same
  <2> QED BY <2>1, <2>2
<1>2. CASE \E d \in Consumers : Crash(d)
  <2> PICK d \in Consumers : Crash(d)
    BY <1>2
  <2>1. cons'[c] = cons[c] \/ cons'[c] = Idle
    BY DEF Crash, TypeOK
  <2> QED BY <2>1, RestRuns DEF Same
<1>3. ASSUME cons' = cons PROVE Same(c)
  BY <1>3 DEF Same
<1>4. Producer => cons' = cons
  BY DEF Producer, Enqueue, Coalesce, Cancel, BecomeDue, DispatchDue,
         PublishXadd, PublishSid, PublishLost
<1>5. Reconcile => cons' = cons
  BY DEF Reconcile, RecSelect, RecNext, RecRetire, RecXadd, RecReset
<1>6. Environment => cons' = cons \/ \E d \in Consumers : Crash(d)
  BY DEF Environment, Prune, Age, Lapse, Older, Trim, RecCrash
<1> QED BY <1>1, <1>2, <1>3, <1>4, <1>5, <1>6 DEF Next

(***************************************************************************)
(* The lease token is unique (claimForDelivery: "attempts is our lease     *)
(* token"): attempts never shrinks and a claim takes the next one, so the  *)
(* new handler's token is above every token already running.               *)
(***************************************************************************)
LEMMA InitTokens == Init => TokenUnique
BY RestRuns DEF Init, TokenUnique

\* The token a claim takes is the new attempts, above all running ones.
LEMMA ClaimTokens ==
    ASSUME TypeOK, TokenUnique, NEW c \in Consumers, Claim(c), cons'[c].pc = "run"
    PROVE  LET j == cons[c].job IN
           /\ cons'[c].job = j
           /\ cons'[c].token = row'[j].attempts
           /\ \A d \in Consumers : Running(d, j) => cons[d].token < cons'[c].token
<1> DEFINE j == cons[c].job
<1>1. cons[c] \in Workers /\ j \in Jobs /\ row[j] \in Rows
  BY DEF Claim, TypeOK, Workers
<1>2. Claimable(j)
  BY RestRuns DEF Claim, TypeOK
<1>3. row' = Put(j, [row[j] EXCEPT !.status = "processing", !.age = 0, !.attempts = @ + 1])
  BY <1>2 DEF Claim
<1>4. cons' = [cons EXCEPT ![c] = [@ EXCEPT !.pc = "run", !.token = row[j].attempts + 1]]
  BY <1>2 DEF Claim
<1>5. cons'[c].job = j /\ cons'[c].token = row[j].attempts + 1
  BY <1>1, <1>4 DEF TypeOK, Workers
<1>6. row'[j].attempts = row[j].attempts + 1
  <2>1. row'[j] = [row[j] EXCEPT !.status = "processing", !.age = 0, !.attempts = @ + 1]
    BY <1>1, <1>3 DEF Put, TypeOK
  <2> QED BY <1>1, <2>1 DEF Rows
<1>7. row[j].attempts \in Nat
  BY <1>1 DEF Rows
<1>8. \A d \in Consumers : Running(d, j) => cons[d].token <= row[j].attempts
  BY <1>2 DEF TokenUnique, Running, Claimable
<1>9. \A d \in Consumers : cons[d].token \in Nat
  BY DEF TypeOK, Workers
<1> QED BY <1>5, <1>6, <1>7, <1>8, <1>9

LEMMA NextTokens == ASSUME TypeOK, TypeOK', TokenUnique, Next PROVE TokenUnique'
<1>1. \A c \in Consumers : cons[c].token \in Nat /\ cons'[c].token \in Nat
  BY DEF TypeOK, Workers
<1>2. \A j \in Jobs : row[j].attempts \in Nat /\ row'[j].attempts \in Nat
  BY DEF TypeOK, Rows
<1>3. \A j \in Jobs : Grows(row[j], row'[j])
  BY NextGrows
<1>4. \A c \in Consumers : cons'[c].pc = "run" => cons'[c].job \in Jobs
  BY DEF TypeOK, Workers
<1>5. ASSUME NEW c \in Consumers, cons'[c].pc = "run"
      PROVE  row'[cons'[c].job].status = "pruned" \/ cons'[c].token <= row'[cons'[c].job].attempts
  <2>1. CASE Claim(c)
    BY <1>1, <1>5, <2>1, ClaimTokens
  <2>2. CASE ~Claim(c)
    <3>1. Same(c) /\ cons[c].job \in Jobs
      BY <1>4, <1>5, <2>2, NextRuns DEF Same
    <3>2. row[cons[c].job].status = "pruned" \/ cons[c].token <= row[cons[c].job].attempts
      BY <3>1 DEF TokenUnique, Same
    <3> QED BY <1>1, <1>2, <1>3, <3>1, <3>2 DEF Same, Grows
  <2> QED BY <2>1, <2>2
<1>6. ASSUME NEW c \in Consumers, NEW d \in Consumers, c # d, Claim(c),
             cons'[c].pc = "run", cons'[d].pc = "run", cons'[d].job = cons'[c].job
      PROVE  cons'[d].token # cons'[c].token
  <2>1. cons'[d] = cons[d]
    BY <1>6, OthersStay DEF Consumer
  <2>2. Running(d, cons[c].job)
    BY <1>6, <2>1, ClaimTokens DEF Running
  <2>3. cons[d].token < cons'[c].token
    BY <1>6, <2>2, ClaimTokens
  <2> QED BY <1>1, <2>1, <2>3
<1>7. ASSUME NEW c \in Consumers, NEW d \in Consumers, c # d, ~Claim(c), ~Claim(d),
             cons'[c].pc = "run", cons'[d].pc = "run", cons'[d].job = cons'[c].job
      PROVE  cons'[d].token # cons'[c].token
  <2>1. Same(c) /\ Same(d)
    BY <1>7, NextRuns
  <2> QED BY <1>7, <2>1 DEF Same, TokenUnique, Running
<1>8. ASSUME NEW c \in Consumers, NEW d \in Consumers \ {c},
             cons'[c].pc = "run", cons'[d].pc = "run", cons'[d].job = cons'[c].job
      PROVE  cons'[d].token # cons'[c].token
  BY <1>6, <1>7, <1>8
<1> QED BY <1>5, <1>8 DEF TokenUnique, Running

THEOREM TokensAreUnique == Spec => []TokenUnique
<1>1. TypeOK /\ TypeOK' /\ TokenUnique /\ [Next]_vars => TokenUnique'
  <2>1. TokenUnique /\ UNCHANGED vars => TokenUnique'
    BY DEF vars, TokenUnique, Running
  <2> QED BY <2>1, NextTokens
<1> QED BY InitTokens, TypeCorrect, <1>1, PTL DEF Spec

(***************************************************************************)
(* A worker that lost its lease ends without a trace: every terminal write *)
(* of its handler is fenced on the token it no longer holds.               *)
(***************************************************************************)
LEMMA FailMute ==
    ASSUME NEW c \in Consumers, NEW w, NEW fatal, NEW cap,
           ~Holds(c, w.job), FailWith(c, w, fatal, cap)
    PROVE  row' = row /\ dead' = dead
<1>1. RequeueOutcome(w.job, Holds(c, w.job)) = "unmatched"
  BY DEF RequeueOutcome
<1>2. \A sid : Requeue(w.job, "unmatched", sid) => row' = row
  BY DEF Requeue
<1>3. dead' = dead
  BY DEF FailWith
<1>4. CASE fatal \/ w.token >= cap
  BY <1>4 DEF FailWith
<1>5. CASE ~(fatal \/ w.token >= cap)
  BY <1>1, <1>2, <1>5 DEF FailWith
<1> QED BY <1>3, <1>4, <1>5

LEMMA ConsumerMute ==
    ASSUME TypeOK, NEW c \in Consumers, Consumer(c), cons[c].pc = "run", ~Holds(c, cons[c].job)
    PROVE  row' = row /\ dead' = dead
<1>1. cons[c] \in Workers
  BY DEF TypeOK
<1>2. ~Poll(c) /\ ~Claim(c) /\ ~Ack(c) /\ ~DeadPost(c) /\ ~Heartbeat(c)
  BY DEF Poll, Claim, Ack, DeadPost, Heartbeat
<1>3. \A d \in cons[c].batch : ~SelectRow(c, d)
  BY DEF SelectRow
<1>4. Succeed(c) \/ Deadline(c) \/ Recycle(c) => row' = row /\ dead' = dead
  BY DEF Succeed, Deadline, Recycle
<1>5. \A kind \in ErrorKinds : Fail(c, kind) => row' = row /\ dead' = dead
  BY FailMute DEF Fail
<1>6. StuckRelease(c) => row' = row /\ dead' = dead
  <2>1. [cons[c] EXCEPT !.stuck = TRUE].job = cons[c].job
    BY <1>1 DEF Workers
  <2> QED BY <2>1, FailMute DEF StuckRelease
<1> QED BY <1>2, <1>3, <1>4, <1>5, <1>6 DEF Consumer

THEOREM LostLeasesAreMute == Spec => LostLeaseIsMute
<1> DEFINE Mute(c) == cons[c].pc = "run" /\ cons[c].token < row[cons[c].job].attempts /\ cons'[c] # cons[c]
                      => row' = row /\ dead' = dead
<1>1. ASSUME TypeOK, [Next]_vars, NEW c \in Consumers,
             cons[c].pc = "run", cons[c].token < row[cons[c].job].attempts, cons'[c] # cons[c]
      PROVE  row' = row /\ dead' = dead
  <2>1. ~Holds(c, cons[c].job)
    <3>1. cons[c].token \in Nat /\ cons[c].job \in Jobs
      BY <1>1 DEF TypeOK, Workers
    <3>2. row[cons[c].job].attempts \in Nat
      BY <1>1, <3>1 DEF TypeOK, Rows
    <3> QED BY <1>1, <3>1, <3>2 DEF Holds
  <2>2. CASE \E d \in Consumers : Consumer(d)
    <3> PICK d \in Consumers : Consumer(d)
      BY <2>2
    <3>1. d = c
      BY <1>1, OthersStay
    <3> QED BY <1>1, <2>1, <3>1, ConsumerMute
  <2>3. CASE \E d \in Consumers : Crash(d)
    BY <2>3 DEF Crash
  <2>4. ~Producer
    BY <1>1 DEF Producer, Enqueue, Coalesce, Cancel, BecomeDue, DispatchDue,
         PublishXadd, PublishSid, PublishLost
  <2>5. ~Reconcile
    BY <1>1 DEF Reconcile, RecSelect, RecNext, RecRetire, RecXadd, RecReset
  <2>6. Environment => \E d \in Consumers : Crash(d)
    BY <1>1 DEF Environment, Prune, Age, Lapse, Older, Trim, RecCrash
  <2>7. Next
    BY <1>1 DEF vars
  <2> QED BY <2>2, <2>3, <2>4, <2>5, <2>6, <2>7 DEF Next
<1>2. TypeOK /\ [Next]_vars => [\A c \in Consumers : Mute(c)]_vars
  BY <1>1
<1>3. [\A c \in Consumers : Mute(c)]_vars
      <=> [\A c \in Consumers :
             /\ cons[c].pc = "run" /\ cons[c].token < row[cons[c].job].attempts
             /\ cons'[c] # cons[c]
             => row' = row /\ dead' = dead]_vars
  OBVIOUS
<1> QED BY TypeCorrect, <1>2, <1>3, PTL DEF Spec, LostLeaseIsMute

-----------------------------------------------------------------------------
(***************************************************************************)
(* Safety.  All of it follows from three facts about one step: what        *)
(* becomes of a row (RowStep), what the reconcile pass remembers           *)
(* (PassStep) and how a worker comes to run a handler or stops running it  *)
(* (NextRuns, EndStep).  The rest of a proof is about statuses, attempts   *)
(* and tokens alone.                                                       *)
(***************************************************************************)

\* The rows a reconcile pass has scanned and not yet dealt with.
Seen == rec.todo \union (IF rec.pc \in {"retire", "xadd", "reset"} THEN {rec.cur} ELSE {})

(***************************************************************************)
(* What one step may do to row k.                                          *)
(***************************************************************************)
Same3(k) ==
    /\ row'[k].status = row[k].status /\ row'[k].attempts = row[k].attempts
    /\ row'[k].age \in {0, row[k].age}

Accepted(k) ==
    /\ row[k].status = "absent" /\ ~Taken(k)
    /\ row'[k].status = "queued" /\ row'[k].attempts = row[k].attempts
    /\ UNCHANGED <<cons, rec, failed>>

Withdrawn(k) ==
    /\ k \in Cancellable /\ row[k].status \in Live
    /\ row'[k].status = "done" /\ row'[k].attempts = row[k].attempts
    /\ UNCHANGED <<cons, rec, failed>>

ClaimedBy(c, k) ==
    /\ Claim(c) /\ cons[c].pc = "claim" /\ cons[c].job = k /\ Claimable(k)
    /\ cons'[c].pc = "run" /\ cons'[c].job = k /\ cons'[c].token = row[k].attempts + 1
    /\ row'[k].status = "processing" /\ row'[k].age = 0
    /\ row'[k].attempts = row[k].attempts + 1
    /\ UNCHANGED <<rec, failed>>

\* The handler that holds row k, or its watchdog, ends the lease.
EndedBy(c, k) ==
    /\ Running(c, k) /\ Holds(c, k) /\ cons'[c].pc # "run"
    /\ \A d \in Consumers \ {c} : cons'[d] = cons[d]
    /\ \/ row'[k].status = "done" /\ failed' = failed
       \/ /\ failed'[k] = failed[k] + 1
          /\ \/ row'[k].status \in {"queued", "dead"}
             \/ row'[k].status = "done" /\ Taken(k)
    /\ row'[k].attempts = row[k].attempts
    /\ UNCHANGED rec

Retired(k) ==
    /\ rec.pc = "retire" /\ rec.cur.job = k
    /\ row[k].status = "processing" /\ row[k].attempts = rec.cur.attempts
    /\ row'[k].status = "done" /\ row'[k].attempts = row[k].attempts
    /\ rec'.todo \subseteq rec.todo /\ rec'.pc \in {"idle", "next"}
    /\ UNCHANGED <<cons, failed>>

WasReset(k) ==
    /\ rec.pc = "reset" /\ rec.cur.job = k
    /\ row[k].status # "pruned" /\ row[k].attempts = rec.cur.attempts
    /\ \/ row'[k].status = "queued" /\ (row[k].status = "queued" \/ ~Taken(k))
       \/ row[k].status = "processing" /\ row'[k].status = "done" /\ Taken(k)
    /\ row'[k].attempts = row[k].attempts
    /\ rec'.todo \subseteq rec.todo /\ rec'.pc \in {"idle", "next"}
    /\ UNCHANGED <<cons, failed>>

Forgotten(k) ==
    /\ row[k].status \in Terminal /\ row'[k].status = "pruned" /\ row'[k].attempts = 0
    /\ UNCHANGED <<cons, rec, failed>>

GrownOlder(k) ==
    /\ row[k].status \in Live /\ row'[k].status = row[k].status
    /\ row'[k].attempts = row[k].attempts
    /\ Leased(k) => faults'.lapse = faults.lapse + 1
    /\ UNCHANGED <<cons, rec, failed>>

RowStep(k) ==
    \/ Same3(k) \/ Accepted(k) \/ Withdrawn(k) \/ Retired(k) \/ WasReset(k)
    \/ Forgotten(k) \/ GrownOlder(k)
    \/ \E c \in Consumers : ClaimedBy(c, k) \/ EndedBy(c, k)

-----------------------------------------------------------------------------
LEMMA PutAt ==
    ASSUME row \in [Jobs -> Rows], NEW j \in Jobs, NEW k \in Jobs, NEW r, row' = Put(j, r)
    PROVE  row'[k] = IF k = j THEN r ELSE row[k]
BY DEF Put

\* What the updates write to the three columns the proofs look at.
LEMMA UpdateFields ==
    ASSUME NEW r \in Rows, NEW due, NEW sid
    PROVE  /\ LET s == [r EXCEPT !.status = "queued", !.due = due] IN
                s.status = "queued" /\ s.attempts = r.attempts /\ s.age = r.age
           /\ LET s == [r EXCEPT !.status = "queued", !.sid = sid, !.age = 0] IN
                s.status = "queued" /\ s.attempts = r.attempts /\ s.age = 0
           /\ LET s == [r EXCEPT !.input = @ + 1, !.due = due,
                              !.sid = IF due = "now" THEN @ ELSE "null", !.age = 0] IN
                s.status = r.status /\ s.attempts = r.attempts /\ s.age = 0
           /\ LET s == [r EXCEPT !.status = "processing", !.age = 0, !.attempts = @ + 1] IN
                s.status = "processing" /\ s.attempts = r.attempts + 1 /\ s.age = 0
           /\ LET s == [r EXCEPT !.status = "done", !.age = 0] IN
                s.status = "done" /\ s.attempts = r.attempts /\ s.age = 0
           /\ LET s == [r EXCEPT !.status = "dead", !.age = 0] IN
                s.status = "dead" /\ s.attempts = r.attempts /\ s.age = 0
           /\ LET s == [r EXCEPT !.sid = "set", !.age = 0] IN
                s.status = r.status /\ s.attempts = r.attempts /\ s.age = 0
           /\ LET s == [r EXCEPT !.due = "now"] IN
                s.status = r.status /\ s.attempts = r.attempts /\ s.age = r.age
           /\ LET s == [r EXCEPT !.age = 0] IN
                s.status = r.status /\ s.attempts = r.attempts /\ s.age = 0
           /\ LET s == [r EXCEPT !.age = @ + 1] IN
                s.status = r.status /\ s.attempts = r.attempts
BY DEF Rows

LEMMA UntouchedStep ==
    ASSUME row' = row, NEW k \in Jobs
    PROVE  RowStep(k)
BY DEF RowStep, Same3

\* requeueUnlessSuperseded: queued, retired for the row that took the slot, or
\* left alone.
LEMMA RequeueEffect ==
    ASSUME NEW j, NEW matches \in BOOLEAN, NEW sid,
           Requeue(j, RequeueOutcome(j, matches), sid)
    PROVE  \/ /\ matches /\ (row[j].status = "queued" \/ ~Taken(j))
              /\ row' = Put(j, [row[j] EXCEPT !.status = "queued", !.sid = sid, !.age = 0])
           \/ /\ matches /\ Taken(j) /\ row[j].status = "processing"
              /\ row' = Put(j, [row[j] EXCEPT !.status = "done", !.age = 0])
           \/ row' = row
<1>1. CASE ~matches
  BY <1>1 DEF RequeueOutcome, Requeue
<1>2. CASE matches /\ (~Taken(j) \/ row[j].status = "queued")
  BY <1>2 DEF RequeueOutcome, Requeue
<1>3. CASE matches /\ Taken(j) /\ row[j].status # "queued" /\ j \in Topology
  BY <1>3 DEF RequeueOutcome, Requeue
<1>4. CASE matches /\ Taken(j) /\ row[j].status # "queued" /\ j \notin Topology
  BY <1>4 DEF RequeueOutcome, Requeue
<1> QED BY <1>1, <1>2, <1>3, <1>4

LEMMA ProducerRows == ASSUME TypeOK, Producer, NEW k \in Jobs PROVE RowStep(k)
<1>1. ASSUME NEW j \in Jobs, NEW due \in {"now", "later"}, Enqueue(j, due) PROVE RowStep(k)
  <2> DEFINE r == [row[j] EXCEPT !.status = "queued", !.due = due]
  <2>1. r.status = "queued" /\ r.attempts = row[j].attempts
    BY UpdateFields DEF TypeOK
  <2>2. row'[k] = IF k = j THEN r ELSE row[k]
    BY <1>1, PutAt DEF Enqueue, TypeOK
  <2> HIDE DEF r
  <2> QED BY <1>1, <2>1, <2>2 DEF Enqueue, RowStep, Same3, Accepted
<1>2. ASSUME NEW j \in Jobs, NEW due \in {"now", "later"}, Coalesce(j, due) PROVE RowStep(k)
  <2> DEFINE r == [row[j] EXCEPT !.input = @ + 1, !.due = due,
                                 !.sid = IF due = "now" THEN @ ELSE "null", !.age = 0]
  <2>1. r.status = row[j].status /\ r.attempts = row[j].attempts /\ r.age = 0
    BY UpdateFields DEF TypeOK
  <2>2. row'[k] = IF k = j THEN r ELSE row[k]
    BY <1>2, PutAt DEF Coalesce, TypeOK
  <2> HIDE DEF r
  <2> QED BY <2>1, <2>2 DEF RowStep, Same3
<1>3. ASSUME NEW j \in Jobs, Cancel(j) PROVE RowStep(k)
  <2> DEFINE r == [row[j] EXCEPT !.status = "done", !.age = 0]
  <2>1. r.status = "done" /\ r.attempts = row[j].attempts
    BY UpdateFields DEF TypeOK
  <2>2. row'[k] = IF k = j THEN r ELSE row[k]
    BY <1>3, PutAt DEF Cancel, TypeOK
  <2> HIDE DEF r
  <2> QED BY <1>3, <2>1, <2>2 DEF Cancel, RowStep, Same3, Withdrawn
<1>4. ASSUME NEW j \in Jobs, BecomeDue(j) PROVE RowStep(k)
  <2> DEFINE r == [row[j] EXCEPT !.due = "now"]
  <2>1. r.status = row[j].status /\ r.attempts = row[j].attempts /\ r.age = row[j].age
    BY UpdateFields DEF TypeOK
  <2>2. row'[k] = IF k = j THEN r ELSE row[k]
    BY <1>4, PutAt DEF BecomeDue, TypeOK
  <2> HIDE DEF r
  <2> QED BY <2>1, <2>2 DEF RowStep, Same3
<1>5. ASSUME NEW p \in pub, PublishSid(p) PROVE RowStep(k)
  <2> DEFINE j == p.job
             r == [row[j] EXCEPT !.sid = "set", !.age = 0]
  <2>1. j \in Jobs
    BY DEF TypeOK, Pubs
  <2>2. r.status = row[j].status /\ r.attempts = row[j].attempts /\ r.age = 0
    BY <2>1, UpdateFields DEF TypeOK
  <2>3. row' = row \/ row' = Put(j, r)
    BY <1>5 DEF PublishSid
  <2> HIDE DEF r
  <2>4. row'[k] = row[k] \/ row'[k] = IF k = j THEN r ELSE row[k]
    BY <2>1, <2>3, PutAt DEF TypeOK
  <2> QED BY <2>2, <2>4 DEF RowStep, Same3
<1>6. \A j \in Jobs : DispatchDue(j) => row' = row
  BY DEF DispatchDue
<1>7. \A p \in pub : PublishXadd(p) \/ PublishLost(p) => row' = row
  BY DEF PublishXadd, PublishLost
<1> QED BY <1>1, <1>2, <1>3, <1>4, <1>5, <1>6, <1>7, UntouchedStep DEF Producer

LEMMA ReconcileRows == ASSUME TypeOK, Reconcile, NEW k \in Jobs PROVE RowStep(k)
<1> DEFINE j == rec.cur.job
           Left == rec'.todo \subseteq rec.todo /\ rec'.pc \in {"idle", "next"}
<1>0. rec' = Turn \/ rec' = Resting => Left
  <2>1. Turn.todo = rec.todo /\ Turn.pc \in {"idle", "next"}
    BY DEF Turn, TypeOK, Passes
  <2>2. Resting.todo = {} /\ Resting.pc = "idle"
    BY DEF Resting
  <2> QED BY <2>1, <2>2
<1>1. CASE RecRetire
  <2> DEFINE r == [row[j] EXCEPT !.status = "done", !.age = 0]
  <2>1. j \in Jobs
    BY <1>1 DEF RecRetire, TypeOK, Passes, Stuck
  <2>2. r.status = "done" /\ r.attempts = row[j].attempts
    BY <2>1, UpdateFields DEF TypeOK
  <2>3. \/ row' = row
        \/ /\ row[j].status = "processing" /\ row[j].attempts = rec.cur.attempts /\ row' = Put(j, r)
           /\ rec' = Turn
    BY <1>1 DEF RecRetire
  <2> HIDE DEF r
  <2>4. CASE row' = row
    BY <2>4, UntouchedStep
  <2>5. CASE row' # row
    <3>1. row'[k] = IF k = j THEN r ELSE row[k]
      BY <2>1, <2>3, <2>5, PutAt DEF TypeOK
    <3> QED BY <1>0, <1>1, <2>2, <2>3, <2>5, <3>1 DEF RecRetire, RowStep, Same3, Retired
  <2> QED BY <2>4, <2>5
<1>2. CASE RecReset
  <2> DEFINE matches == row[j].status # "pruned" /\ row[j].attempts = rec.cur.attempts
             q == [row[j] EXCEPT !.status = "queued", !.sid = "set", !.age = 0]
             r == [row[j] EXCEPT !.status = "done", !.age = 0]
  <2>1. j \in Jobs
    BY <1>2 DEF RecReset, TypeOK, Passes, Stuck
  <2>2. /\ r.status = "done" /\ r.attempts = row[j].attempts
        /\ q.status = "queued" /\ q.attempts = row[j].attempts
    BY <2>1, UpdateFields DEF TypeOK
  <2>3. \/ matches /\ (row[j].status = "queued" \/ ~Taken(j)) /\ row' = Put(j, q)
        \/ matches /\ Taken(j) /\ row[j].status = "processing" /\ row' = Put(j, r)
        \/ row' = row
    <3>1. Requeue(j, RequeueOutcome(j, matches), "set")
      BY <1>2 DEF RecReset
    <3> QED BY <3>1, RequeueEffect
  <2> HIDE DEF r, q
  <2>4. CASE row' = row
    BY <2>4, UntouchedStep
  <2>5. CASE matches /\ (row[j].status = "queued" \/ ~Taken(j)) /\ row' = Put(j, q)
    <3>1. row'[k] = IF k = j THEN q ELSE row[k]
      BY <2>1, <2>5, PutAt DEF TypeOK
    <3> QED BY <1>0, <1>2, <2>2, <2>5, <3>1 DEF RecReset, RowStep, Same3, WasReset
  <2>6. CASE matches /\ Taken(j) /\ row[j].status = "processing" /\ row' = Put(j, r)
    <3>1. row'[k] = IF k = j THEN r ELSE row[k]
      BY <2>1, <2>6, PutAt DEF TypeOK
    <3> QED BY <1>0, <1>2, <2>2, <2>6, <3>1 DEF RecReset, RowStep, Same3, WasReset
  <2> QED BY <2>3, <2>4, <2>5, <2>6
<1>3. RecSelect \/ RecXadd \/ (\E s \in rec.todo : RecNext(s)) => row' = row
  BY DEF RecSelect, RecXadd, RecNext
<1> QED BY <1>1, <1>2, <1>3, UntouchedStep DEF Reconcile

LEMMA FailRows ==
    ASSUME TypeOK, NEW c \in Consumers, NEW w \in Workers, NEW fatal, NEW cap,
           w.job = cons[c].job, FailWith(c, w, fatal, cap), NEW k \in Jobs
    PROVE  RowStep(k)
<1> DEFINE j == w.job
           held == Holds(c, j)
           outcome == RequeueOutcome(j, held)
           d == [row[j] EXCEPT !.status = "dead", !.age = 0]
           q == [row[j] EXCEPT !.status = "queued", !.sid = row[j].sid, !.age = 0]
           r == [row[j] EXCEPT !.status = "done", !.age = 0]
<1>1. cons[c].pc = "run" /\ j \in Jobs /\ UNCHANGED rec
  BY DEF FailWith, TypeOK, Workers
<1>2. CASE ~held
  BY <1>2, FailMute, UntouchedStep
<1>3. CASE held
  <2>1. failed'[j] = failed[j] + 1
    BY <1>1, <1>3 DEF FailWith, TypeOK
  <2>2. cons'[c].pc # "run" /\ \A e \in Consumers \ {c} : cons'[e] = cons[e]
    <3>1. cons'[c].pc # "run"
      BY FailRests
    <3>2. \A e \in Consumers \ {c} : cons'[e] = cons[e]
      BY DEF FailWith, TypeOK
    <3> QED BY <3>1, <3>2
  <2>3. /\ d.status = "dead" /\ d.attempts = row[j].attempts
        /\ q.status = "queued" /\ q.attempts = row[j].attempts
        /\ r.status = "done" /\ r.attempts = row[j].attempts
    BY <1>1, UpdateFields DEF TypeOK
  <2>4. \/ row' = Put(j, d) \/ row' = Put(j, q) \/ row' = row
        \/ Taken(j) /\ row' = Put(j, r)
    <3>1. row' = Put(j, d) \/ Requeue(j, outcome, row[j].sid)
      BY <1>3 DEF FailWith
    <3>2. held \in BOOLEAN
      BY DEF Holds
    <3> QED BY <3>1, <3>2, RequeueEffect
  <2>5. row' = row \/ \E s \in {d, q, r} : row' = Put(j, s) /\ (s = r => Taken(j))
    <3>1. d # r /\ q # r
      BY <2>3
    <3> QED BY <2>4, <3>1
  <2> HIDE DEF d, q, r
  <2>6. CASE row' = row
    BY <2>6, UntouchedStep
  <2>7. ASSUME NEW s \in {d, q, r}, row' = Put(j, s), s = r => Taken(j) PROVE RowStep(k)
    <3>1. row'[k] = IF k = j THEN s ELSE row[k]
      BY <1>1, <2>7, PutAt DEF TypeOK
    <3>2. CASE k # j
      BY <3>1, <3>2 DEF RowStep, Same3
    <3>3. CASE k = j
      <4>1. Running(c, k)
        BY <1>1, <3>3 DEF Running
      <4>2. /\ row'[k].status \in {"queued", "dead"} \/ (row'[k].status = "done" /\ Taken(k))
            /\ row'[k].attempts = row[k].attempts
        BY <2>3, <2>7, <3>1, <3>3
      <4>3. EndedBy(c, k)
        BY <1>1, <1>3, <2>1, <2>2, <3>3, <4>1, <4>2 DEF EndedBy
      <4> QED BY <4>3 DEF RowStep
    <3> QED BY <3>2, <3>3
  <2> QED BY <2>5, <2>6, <2>7
<1> QED BY <1>2, <1>3

LEMMA ConsumerRows ==
    ASSUME TypeOK, NEW c \in Consumers, Consumer(c), NEW k \in Jobs
    PROVE  RowStep(k)
<1> DEFINE j == cons[c].job
<1>1. cons[c] \in Workers /\ (cons[c].pc \in {"claim", "run"} => j \in Jobs)
  BY DEF TypeOK, Workers
<1>2. CASE Claim(c)
  <2> DEFINE r == [row[j] EXCEPT !.status = "processing", !.age = 0, !.attempts = @ + 1]
             w == [cons[c] EXCEPT !.pc = "run", !.token = row[j].attempts + 1]
  <2>1. j \in Jobs /\ cons[c].pc = "claim" /\ UNCHANGED <<rec, failed>>
    BY <1>1, <1>2 DEF Claim
  <2>2. r.status = "processing" /\ r.attempts = row[j].attempts + 1 /\ r.age = 0
    BY <2>1, UpdateFields DEF TypeOK
  <2>3. w.pc = "run" /\ w.job = j /\ w.token = row[j].attempts + 1
    BY <1>1 DEF Workers
  <2>4. row' = row \/ (Claimable(j) /\ row' = Put(j, r) /\ cons'[c] = w)
    BY <1>2 DEF Claim, TypeOK
  <2> HIDE DEF r, w
  <2>5. CASE row' = row
    BY <2>5, UntouchedStep
  <2>6. CASE row' # row
    <3>1. row'[k] = IF k = j THEN r ELSE row[k]
      BY <2>1, <2>4, <2>6, PutAt DEF TypeOK
    <3>2. k = j => ClaimedBy(c, k)
      BY <1>2, <2>1, <2>2, <2>3, <2>4, <2>6, <3>1 DEF ClaimedBy
    <3> QED BY <3>1, <3>2 DEF RowStep, Same3
  <2> QED BY <2>5, <2>6
<1>3. CASE Heartbeat(c)
  <2> DEFINE r == [row[j] EXCEPT !.age = 0]
  <2>1. j \in Jobs /\ row' = Put(j, r)
    BY <1>1, <1>3 DEF Heartbeat
  <2>2. r.status = row[j].status /\ r.attempts = row[j].attempts /\ r.age = 0
    BY <2>1, UpdateFields DEF TypeOK
  <2> HIDE DEF r
  <2>3. row'[k] = IF k = j THEN r ELSE row[k]
    BY <2>1, PutAt DEF TypeOK
  <2> QED BY <2>2, <2>3 DEF RowStep, Same3
<1>4. CASE Succeed(c)
  <2> DEFINE r == [row[j] EXCEPT !.status = "done", !.age = 0]
  <2>1. j \in Jobs /\ cons[c].pc = "run" /\ UNCHANGED <<rec, failed>>
    BY <1>1, <1>4 DEF Succeed
  <2>2. r.status = "done" /\ r.attempts = row[j].attempts
    BY <2>1, UpdateFields DEF TypeOK
  <2>3. row' = row \/ (Holds(c, j) /\ row' = Put(j, r))
    BY <1>4 DEF Succeed
  <2>4. cons'[c].pc # "run" /\ \A e \in Consumers \ {c} : cons'[e] = cons[e]
    BY <1>4, RestRuns DEF Succeed, TypeOK
  <2> HIDE DEF r
  <2>5. CASE row' = row
    BY <2>5, UntouchedStep
  <2>6. CASE row' # row
    <3>1. row'[k] = IF k = j THEN r ELSE row[k]
      BY <2>1, <2>3, <2>6, PutAt DEF TypeOK
    <3>2. k = j => EndedBy(c, k)
      BY <2>1, <2>2, <2>3, <2>4, <2>6, <3>1 DEF EndedBy, Running
    <3> QED BY <3>1, <3>2 DEF RowStep, Same3
  <2> QED BY <2>5, <2>6
<1>5. ASSUME NEW kind \in ErrorKinds, Fail(c, kind) PROVE RowStep(k)
  BY <1>1, <1>5, FailRows DEF Fail
<1>6. CASE StuckRelease(c)
  <2> DEFINE w == [cons[c] EXCEPT !.stuck = TRUE]
  <2>1. w \in Workers /\ w.job = cons[c].job
    BY <1>1 DEF Workers
  <2>2. FailWith(c, w, FALSE, DeadlineCap)
    BY <1>6 DEF StuckRelease
  <2> HIDE DEF w
  <2> QED BY <2>1, <2>2, FailRows
<1>7. /\ Poll(c) \/ Ack(c) \/ DeadPost(c) \/ Deadline(c) \/ Recycle(c) => row' = row
      /\ \A e \in cons[c].batch : SelectRow(c, e) => row' = row
  BY DEF Poll, Ack, DeadPost, Deadline, Recycle, SelectRow
<1> QED BY <1>2, <1>3, <1>4, <1>5, <1>6, <1>7, UntouchedStep DEF Consumer

LEMMA EnvironmentRows == ASSUME TypeOK, Environment, NEW k \in Jobs PROVE RowStep(k)
<1>1. ASSUME NEW j \in Jobs, Prune(j) PROVE RowStep(k)
  <2> DEFINE r == [NoRow EXCEPT !.status = "pruned"]
  <2>1. r.status = "pruned" /\ r.attempts = 0
    BY DEF NoRow
  <2>2. row'[k] = IF k = j THEN r ELSE row[k]
    BY <1>1, PutAt DEF Prune, TypeOK
  <2> HIDE DEF r
  <2> QED BY <1>1, <2>1, <2>2 DEF Prune, RowStep, Same3, Forgotten
<1>2. ASSUME NEW j \in Jobs, Older(j), Leased(j) => faults'.lapse = faults.lapse + 1 PROVE RowStep(k)
  <2> DEFINE r == [row[j] EXCEPT !.age = @ + 1]
  <2>1. r.status = row[j].status /\ r.attempts = row[j].attempts
    BY UpdateFields DEF TypeOK
  <2>2. row'[k] = IF k = j THEN r ELSE row[k]
    BY <1>2, PutAt DEF Older, TypeOK
  <2> HIDE DEF r
  <2> QED BY <1>2, <2>1, <2>2 DEF Older, RowStep, Same3, GrownOlder
<1>3. ASSUME NEW j \in Jobs, Age(j) \/ Lapse(j) PROVE RowStep(k)
  <2>1. Older(j) /\ (Leased(j) => faults'.lapse = faults.lapse + 1)
    BY <1>3 DEF Age, Lapse, TypeOK, Faults
  <2> QED BY <1>2, <2>1
<1>4. /\ \A c \in Consumers : Crash(c) => row' = row
      /\ \A e \in Entries : Trim(e) => row' = row
      /\ RecCrash => row' = row
  BY DEF Crash, Trim, RecCrash
<1> QED BY <1>1, <1>3, <1>4, UntouchedStep DEF Environment

LEMMA NextRows == ASSUME TypeOK, Next, NEW k \in Jobs PROVE RowStep(k)
BY ProducerRows, ConsumerRows, ReconcileRows, EnvironmentRows DEF Next

(***************************************************************************)
(* What the reconcile pass remembers after one step.                       *)
(***************************************************************************)
\* The scan reads row t of the table.
ScannedNow(t) ==
    /\ t.job \in Jobs /\ Scanned(t.job)
    /\ t.attempts = row[t.job].attempts /\ t.status = row[t.job].status

\* Nothing but the reconcile driver and its death touches the pass.
LEMMA OnlyReconcile ==
    ASSUME Producer \/ (\E c \in Consumers : Consumer(c)) \/ (Environment /\ ~RecCrash)
    PROVE  UNCHANGED rec
<1>1. Producer => UNCHANGED rec
  BY DEF Producer, Enqueue, Coalesce, Cancel, BecomeDue, DispatchDue, PublishXadd, PublishSid, PublishLost
<1>2. ASSUME NEW c \in Consumers, Consumer(c) PROVE UNCHANGED rec
  BY <1>2 DEF Consumer, Poll, Claim, Ack, DeadPost, SelectRow, Heartbeat, Succeed, Fail, FailWith,
     Deadline, StuckRelease, Recycle
<1>3. Environment /\ ~RecCrash => UNCHANGED rec
  BY DEF Environment, Prune, Age, Lapse, Older, Crash, Trim
<1> QED BY <1>1, <1>2, <1>3

LEMMA PassStep ==
    ASSUME TypeOK, Next
    PROVE  \/ Seen' \subseteq Seen
           \/ /\ \A t \in Seen' : ScannedNow(t)
              /\ \A t, u \in Seen' : t.job = u.job => t = u
              /\ UNCHANGED <<row, cons, dead, failed, faults>>
<1>1. CASE RecSelect
  <2> DEFINE found == {[job |-> j, attempts |-> row[j].attempts, status |-> row[j].status] :
                         j \in {j \in Jobs : Scanned(j)}}
  <2>1. rec' = [rec EXCEPT !.pc = "next", !.todo = found] /\ UNCHANGED <<row, cons, dead, failed, faults>>
    BY <1>1 DEF RecSelect
  <2>2. rec'.pc = "next" /\ rec'.todo = found
    BY <2>1 DEF TypeOK, Passes
  <2>3. Seen' = found
    BY <2>2 DEF Seen
  <2>4. \A t \in found : ScannedNow(t)
    BY DEF ScannedNow
  <2>5. \A t, u \in found : t.job = u.job => t = u
    OBVIOUS
  <2> QED BY <2>1, <2>3, <2>4, <2>5
<1>2. ASSUME NEW s \in rec.todo, RecNext(s) PROVE Seen' \subseteq Seen
  <2>1. rec'.todo = rec.todo \ {s} /\ rec'.cur = s
    BY <1>2 DEF RecNext
  <2> QED BY <2>1 DEF Seen
<1>3. Turn.todo = rec.todo /\ Turn.pc \notin {"retire", "xadd", "reset"}
  BY DEF Turn, TypeOK, Passes
<1>4. Resting.todo = {} /\ Resting.pc = "idle"
  BY DEF Resting
<1>5. CASE RecRetire \/ RecXadd
  <2>1. \/ rec' = Turn
        \/ rec'.todo = rec.todo /\ rec'.cur = rec.cur /\ rec.pc \in {"retire", "xadd"}
    BY <1>5 DEF RecRetire, RecXadd, TypeOK, Passes
  <2> QED BY <2>1, <1>3 DEF Seen
<1>6. CASE RecReset
  BY <1>3, <1>4, <1>6 DEF RecReset, Seen
<1>7. CASE RecCrash
  BY <1>4, <1>7 DEF RecCrash, Seen
<1>8. CASE UNCHANGED rec
  BY <1>8 DEF Seen
<1> QED BY <1>1, <1>2, <1>5, <1>6, <1>7, <1>8, OnlyReconcile DEF Next, Reconcile

(***************************************************************************)
(* What the counters and the dead stream record after one step.            *)
(***************************************************************************)
\* Errors and faults are only ever added.
LEMMA CountsGrow ==
    ASSUME TypeOK, Next
    PROVE  /\ \A j \in Jobs : failed'[j] \in {failed[j], failed[j] + 1}
           /\ faults'.crash \in {faults.crash, faults.crash + 1}
           /\ faults'.lapse \in {faults.lapse, faults.lapse + 1}
<1> DEFINE Goal == /\ \A j \in Jobs : failed'[j] \in {failed[j], failed[j] + 1}
                   /\ faults'.crash \in {faults.crash, faults.crash + 1}
                   /\ faults'.lapse \in {faults.lapse, faults.lapse + 1}
<1>1. UNCHANGED <<failed, faults>> => Goal
  OBVIOUS
<1>2. ASSUME NEW c, NEW w, NEW fatal, NEW cap, FailWith(c, w, fatal, cap) PROVE Goal
  BY <1>2 DEF FailWith, TypeOK
<1>3. Producer \/ Reconcile => UNCHANGED <<failed, faults>>
  BY DEF Producer, Enqueue, Coalesce, Cancel, BecomeDue, DispatchDue, PublishXadd, PublishSid, PublishLost,
     Reconcile, RecSelect, RecNext, RecRetire, RecXadd, RecReset
<1>4. ASSUME NEW c \in Consumers, Consumer(c) PROVE Goal
  <2>1. (\E kind \in ErrorKinds : Fail(c, kind)) \/ StuckRelease(c) => Goal
    BY <1>2 DEF Fail, StuckRelease
  <2>2. \/ UNCHANGED <<failed, faults>>
        \/ (\E kind \in ErrorKinds : Fail(c, kind)) \/ StuckRelease(c)
    BY <1>4 DEF Consumer, Poll, Claim, Ack, DeadPost, SelectRow, Heartbeat, Succeed, Deadline, Recycle
  <2> QED BY <1>1, <2>1, <2>2
<1>5. CASE Environment
  <2> DEFINE l == [faults EXCEPT !.lapse = @ + 1]
             x == [faults EXCEPT !.crash = @ + 1]
             t == [faults EXCEPT !.trim = @ + 1]
  <2>1. UNCHANGED failed /\ faults' \in {faults, l, x, t}
    BY <1>5 DEF Environment, Prune, Age, Lapse, Older, Crash, Trim, RecCrash
  <2>2. /\ l.lapse = faults.lapse + 1 /\ l.crash = faults.crash
        /\ x.lapse = faults.lapse /\ x.crash = faults.crash + 1
        /\ t.lapse = faults.lapse /\ t.crash = faults.crash
    BY DEF TypeOK, Faults
  <2> HIDE DEF l, x, t
  <2> QED BY <2>1, <2>2
<1> QED BY <1>1, <1>3, <1>4, <1>5 DEF Next

(***************************************************************************)
(* How a worker comes to stop running a handler.                           *)
(***************************************************************************)
\* A worker whose watchdog fired runs no handler any more.
StuckEnds == \A c \in Consumers : cons[c].stuck => cons[c].pc \in {"post", "ack", "exit"}

LEMMA RestStuck ==
    ASSUME NEW w \in Workers
    PROVE  /\ Rested(w).stuck => Rested(w).pc = "exit"
           /\ Acking(w).pc = "ack" /\ ~Idle.stuck
           /\ \A o : AfterRequeue(w, o).stuck => AfterRequeue(w, o).pc \in {"ack", "exit"}
BY DEF Rested, Acking, Idle, AfterRequeue, Workers

\* What fail() leaves of the worker.
LEMMA FailWorker ==
    ASSUME TypeOK, NEW c \in Consumers, NEW w \in Workers, NEW fatal, NEW cap,
           FailWith(c, w, fatal, cap)
    PROVE  /\ cons'[c].stuck => cons'[c].pc \in {"post", "ack", "exit"}
           /\ \A d \in Consumers \ {c} : cons'[d] = cons[d]
<1> DEFINE after == AfterRequeue(w, RequeueOutcome(w.job, Holds(c, w.job)))
           post == [w EXCEPT !.pc = "post"]
<1>1. post.pc = "post"
  BY DEF Workers
<1>2. after.stuck => after.pc \in {"ack", "exit"}
  BY RestStuck
<1>3. cons' \in {[cons EXCEPT ![c] = post], [cons EXCEPT ![c] = Acking(w)], [cons EXCEPT ![c] = after]}
  BY DEF FailWith
<1> HIDE DEF after, post
<1>4. cons'[c] \in {post, Acking(w), after} /\ \A d \in Consumers \ {c} : cons'[d] = cons[d]
  BY <1>3 DEF TypeOK
<1> QED BY <1>1, <1>2, <1>4, RestStuck

LEMMA ConsumerStuck ==
    ASSUME TypeOK, StuckEnds, NEW c \in Consumers, Consumer(c)
    PROVE  cons'[c].stuck => cons'[c].pc \in {"post", "ack", "exit"}
<1> DEFINE Goal == cons'[c].stuck => cons'[c].pc \in {"post", "ack", "exit"}
           w == cons[c]
<1>1. w \in Workers /\ (w.pc \in {"free", "next", "claim", "run"} => ~w.stuck)
  BY DEF TypeOK, StuckEnds
<1>2. CASE Poll(c)
  <2> PICK b : cons' = [cons EXCEPT ![c] = [@ EXCEPT !.pc = "next", !.batch = b]]
    BY <1>2 DEF Poll
  <2>1. cons'[c] = [w EXCEPT !.pc = "next", !.batch = b] /\ w.pc = "free"
    BY <1>2 DEF Poll, TypeOK
  <2> QED BY <1>1, <2>1 DEF Workers
<1>3. ASSUME NEW e \in w.batch, SelectRow(c, e) PROVE Goal
  <2> DEFINE taken == [w EXCEPT !.cur = e.id, !.batch = @ \ {e}]
             mine == [taken EXCEPT !.pc = "claim", !.job = e.job, !.input = row[e.job].input]
  <2>1. w.pc = "next" /\ cons'[c] \in {mine, Acking(taken)}
    BY <1>3 DEF SelectRow, TypeOK
  <2>2. ~mine.stuck
    BY <1>1, <2>1 DEF Workers
  <2>3. Acking(taken).pc = "ack"
    BY DEF Acking, Idle
  <2> HIDE DEF mine, taken
  <2> QED BY <2>1, <2>2, <2>3
<1>4. CASE Claim(c)
  <2> DEFINE run == [w EXCEPT !.pc = "run", !.token = row[w.job].attempts + 1]
  <2>1. w.pc = "claim" /\ cons'[c] \in {run, Acking(w)}
    BY <1>4 DEF Claim, TypeOK
  <2>2. ~run.stuck
    BY <1>1, <2>1 DEF Workers
  <2> HIDE DEF run
  <2> QED BY <1>1, <2>1, <2>2, RestStuck
<1>5. CASE Ack(c)
  BY <1>1, <1>5, RestStuck DEF Ack, TypeOK
<1>6. CASE DeadPost(c) \/ Succeed(c)
  BY <1>1, <1>6, RestStuck DEF DeadPost, Succeed, TypeOK
<1>7. CASE Heartbeat(c)
  BY <1>7 DEF Heartbeat, StuckEnds
<1>8. CASE (\E kind \in ErrorKinds : Fail(c, kind)) \/ StuckRelease(c)
  <2>1. [w EXCEPT !.stuck = TRUE] \in Workers
    BY <1>1 DEF Workers
  <2> QED BY <1>1, <1>8, <2>1, FailWorker DEF Fail, StuckRelease
<1>9. CASE Deadline(c)
  <2>1. w.pc = "run" /\ cons'[c] = [w EXCEPT !.late = TRUE]
    BY <1>9 DEF Deadline, TypeOK
  <2> QED BY <1>1, <2>1 DEF Workers
<1>10. CASE Recycle(c)
  BY <1>1, <1>10, RestStuck DEF Recycle, TypeOK
<1> QED BY <1>2, <1>3, <1>4, <1>5, <1>6, <1>7, <1>8, <1>9, <1>10 DEF Consumer

LEMMA NextStuck == ASSUME TypeOK, StuckEnds, Next PROVE StuckEnds'
<1> SUFFICES ASSUME NEW c \in Consumers
             PROVE  cons'[c].stuck => cons'[c].pc \in {"post", "ack", "exit"}
  BY DEF StuckEnds
<1>1. cons'[c] = cons[c] => (cons'[c].stuck => cons'[c].pc \in {"post", "ack", "exit"})
  BY DEF StuckEnds
<1>2. ASSUME NEW d \in Consumers, Consumer(d)
      PROVE  cons'[c].stuck => cons'[c].pc \in {"post", "ack", "exit"}
  BY <1>1, <1>2, OthersStay, ConsumerStuck
<1>3. Producer \/ Reconcile => cons' = cons
  BY DEF Producer, Enqueue, Coalesce, Cancel, BecomeDue, DispatchDue, PublishXadd, PublishSid, PublishLost,
     Reconcile, RecSelect, RecNext, RecRetire, RecXadd, RecReset
<1>4. Environment => cons' = cons \/ \E d \in Consumers : cons' = [cons EXCEPT ![d] = Idle]
  BY DEF Environment, Prune, Age, Lapse, Older, Crash, Trim, RecCrash
<1>5. ASSUME NEW d \in Consumers, cons' = [cons EXCEPT ![d] = Idle]
      PROVE  cons'[c] = cons[c] \/ ~cons'[c].stuck
  BY <1>5 DEF TypeOK, Idle
<1> QED BY <1>1, <1>2, <1>3, <1>4, <1>5 DEF Next

\* A handler stops running: it ends its lease and is charged or done, or it had
\* lost the lease already, or its process died.
Stops(c) ==
    LET j == cons[c].job
    IN  /\ \A d \in Consumers \ {c} : cons'[d] = cons[d]
        /\ UNCHANGED rec
        /\ \/ Holds(c, j) /\ failed'[j] = failed[j] + 1 /\ UNCHANGED faults
           \/ Holds(c, j) /\ row'[j].status = "done" /\ UNCHANGED <<failed, faults>>
           \/ ~Holds(c, j) /\ UNCHANGED <<row, failed, faults>>
           \/ faults'.crash = faults.crash + 1 /\ UNCHANGED <<row, failed>>

LEMMA EndStep ==
    ASSUME TypeOK, StuckEnds, Next, NEW c \in Consumers, cons[c].pc = "run", cons'[c].pc # "run"
    PROVE  Stops(c)
<1> DEFINE j == cons[c].job
<1>1. j \in Jobs /\ cons[c] \in Workers
  BY DEF TypeOK, Workers
<1>2. ASSUME NEW w \in Workers, w.job = j, NEW fatal, NEW cap, FailWith(c, w, fatal, cap)
      PROVE  Stops(c)
  <2>1. UNCHANGED rec /\ UNCHANGED faults /\ failed' = [failed EXCEPT ![j] = IF Holds(c, j) THEN @ + 1 ELSE @]
    BY <1>2 DEF FailWith
  <2>2. Holds(c, j) => failed'[j] = failed[j] + 1
    BY <1>1, <2>1 DEF TypeOK
  <2>3. ~Holds(c, j) => UNCHANGED <<row, failed>>
    <3>1. ~Holds(c, j) => UNCHANGED row
      BY <1>2, FailMute
    <3>2. ~Holds(c, j) => UNCHANGED failed
      BY <1>1, <2>1 DEF TypeOK
    <3> QED BY <3>1, <3>2
  <2> QED BY <1>2, <2>1, <2>2, <2>3, FailWorker DEF Stops
<1>3. CASE Consumer(c)
  <2>1. CASE Succeed(c)
    <3> DEFINE r == [row[j] EXCEPT !.status = "done", !.age = 0]
    <3>1. /\ UNCHANGED <<rec, failed, faults>> /\ \A d \in Consumers \ {c} : cons'[d] = cons[d]
          /\ row' = IF Holds(c, j) THEN Put(j, r) ELSE row
      BY <2>1 DEF Succeed, TypeOK
    <3>2. Holds(c, j) => row'[j].status = "done"
      <4>1. r.status = "done"
        BY <1>1, UpdateFields DEF TypeOK
      <4> HIDE DEF r
      <4> QED BY <1>1, <3>1, <4>1, PutAt DEF TypeOK
    <3> QED BY <3>1, <3>2 DEF Stops
  <2>2. CASE (\E kind \in ErrorKinds : Fail(c, kind)) \/ StuckRelease(c)
    <3>1. [cons[c] EXCEPT !.stuck = TRUE] \in Workers /\ [cons[c] EXCEPT !.stuck = TRUE].job = j
      BY <1>1 DEF Workers
    <3> QED BY <1>1, <1>2, <2>2, <3>1 DEF Fail, StuckRelease
  <2>3. ~Recycle(c) /\ ~Poll(c) /\ ~Claim(c) /\ ~Ack(c) /\ ~DeadPost(c)
    BY DEF Recycle, Poll, Claim, Ack, DeadPost, StuckEnds
  <2>4. \A e \in cons[c].batch : ~SelectRow(c, e)
    BY DEF SelectRow
  <2>5. ~Heartbeat(c)
    BY DEF Heartbeat
  <2>6. ~Deadline(c)
    <3> SUFFICES ASSUME Deadline(c) PROVE FALSE
      OBVIOUS
    <3>1. cons'[c] = [cons[c] EXCEPT !.late = TRUE]
      BY DEF Deadline, TypeOK
    <3> QED BY <1>1, <3>1 DEF Workers
  <2> QED BY <1>3, <2>1, <2>2, <2>3, <2>4, <2>5, <2>6 DEF Consumer
<1>4. ASSUME NEW d \in Consumers, Consumer(d), d # c PROVE FALSE
  BY <1>4, OthersStay
<1>5. ~Producer /\ ~Reconcile
  BY DEF Producer, Enqueue, Coalesce, Cancel, BecomeDue, DispatchDue, PublishXadd, PublishSid, PublishLost,
     Reconcile, RecSelect, RecNext, RecRetire, RecXadd, RecReset
<1>6. CASE Environment
  <2>1. Crash(c)
    <3>1. \A d \in Consumers : Crash(d) => d = c
      BY DEF Crash, TypeOK
    <3>2. cons' = cons \/ \E d \in Consumers : Crash(d)
      BY <1>6 DEF Environment, Prune, Age, Lapse, Older, Trim, RecCrash
    <3> QED BY <3>1, <3>2
  <2>2. faults'.crash = faults.crash + 1
    BY <2>1 DEF Crash, TypeOK, Faults
  <2> QED BY <2>1, <2>2 DEF Crash, Stops, TypeOK
<1> QED BY <1>3, <1>4, <1>5, <1>6 DEF Next

(***************************************************************************)
(* What a run costs.  A job may be claimed only when a charge, a crash or  *)
(* a failed heartbeat is left over: a queued row, a row whose lease went   *)
(* unrenewed or has no holder, and a row as a reconcile pass saw it are    *)
(* all one attempt below what has been paid.                               *)
(***************************************************************************)
Paid(j) == failed[j] + faults.crash + faults.lapse

HeldFresh(j) == row[j].status = "processing" /\ row[j].age = 0 /\ Leased(j)

PaidInv ==
    /\ \A j \in Jobs : row[j].attempts <= 1 + Paid(j)
    /\ \A j \in Jobs : row[j].status \in {"absent", "queued"} => row[j].attempts <= Paid(j)
    /\ \A j \in Jobs : row[j].status = "processing" /\ ~HeldFresh(j) => row[j].attempts <= Paid(j)
    /\ \A s \in Seen : s.attempts <= Paid(s.job)

LEMMA InitPaid == Init => PaidInv /\ StuckEnds
<1> SUFFICES ASSUME Init PROVE PaidInv /\ StuckEnds
  OBVIOUS
<1>1. \A j \in Jobs : row[j].attempts = 0 /\ row[j].status = "absent" /\ Paid(j) = 0
  BY DEF Init, NoRow, Paid
<1>2. Seen = {}
  BY DEF Init, Resting, Seen
<1>3. StuckEnds
  BY DEF Init, Idle, StuckEnds
<1> QED BY <1>1, <1>2, <1>3 DEF PaidInv

\* The job of a scanned row is a job.
LEMMA SeenTyped == TypeOK => \A s \in Seen : s.job \in Jobs /\ s.attempts \in Nat
BY DEF TypeOK, Passes, Stuck, Seen

LEMMA PaidTyped == TypeOK => \A j \in Jobs : Paid(j) \in Nat /\ row[j].attempts \in Nat
BY DEF TypeOK, Faults, Rows, Paid

LEMMA PaidGrows ==
    ASSUME TypeOK, Next, NEW j \in Jobs
    PROVE  /\ Paid(j)' >= Paid(j)
           /\ faults'.lapse = faults.lapse + 1 \/ faults'.crash = faults.crash + 1
              \/ failed'[j] = failed[j] + 1 => Paid(j)' >= Paid(j) + 1
<1>1. failed[j] \in Nat /\ faults.crash \in Nat /\ faults.lapse \in Nat
  BY DEF TypeOK, Faults
<1> QED BY <1>1, CountsGrow DEF Paid

\* A holder whose row goes on being processed under the same attempts is still
\* its holder, or has paid.
LEMMA HolderStays ==
    ASSUME TypeOK, StuckEnds, Next, NEW k \in Jobs, Leased(k),
           row'[k].status = "processing", row'[k].attempts = row[k].attempts,
           ~Leased(k)'
    PROVE  Paid(k)' >= Paid(k) + 1
<1> PICK c \in Consumers : Running(c, k) /\ Holds(c, k)
  BY DEF Leased, Running
<1>1. cons'[c].pc # "run"
  <2> SUFFICES ASSUME cons'[c].pc = "run" PROVE FALSE
    OBVIOUS
  <2>1. ~Claim(c)
    BY DEF Claim, Running
  <2>2. Same(c)
    BY <2>1, NextRuns
  <2> QED BY <2>2 DEF Same, Running, Holds, Leased
<1>2. Stops(c)
  BY <1>1, EndStep DEF Running
<1> QED BY <1>2, PaidGrows DEF Stops, Running

LEMMA NextPaid == ASSUME TypeOK, TypeOK', StuckEnds, PaidInv, Next PROVE PaidInv'
<1>1. \A j \in Jobs : /\ Paid(j) \in Nat /\ row[j].attempts \in Nat
                     /\ Paid(j)' \in Nat /\ row'[j].attempts \in Nat
  BY PaidTyped DEF TypeOK, Faults, Rows, Paid
<1>2. \A j \in Jobs : Paid(j)' >= Paid(j)
  BY PaidGrows
<1>3. ASSUME NEW k \in Jobs
      PROVE  /\ row'[k].attempts <= 1 + Paid(k)'
             /\ row'[k].status \in {"absent", "queued"} => row'[k].attempts <= Paid(k)'
             /\ row'[k].status = "processing" /\ ~HeldFresh(k)' => row'[k].attempts <= Paid(k)'
  <2> DEFINE Goal == /\ row'[k].attempts <= 1 + Paid(k)'
                     /\ row'[k].status \in {"absent", "queued"} => row'[k].attempts <= Paid(k)'
                     /\ row'[k].status = "processing" /\ ~HeldFresh(k)' => row'[k].attempts <= Paid(k)'
  <2>1. CASE Same3(k)
    <3>1. CASE row[k].status = "processing" /\ HeldFresh(k) /\ ~HeldFresh(k)'
      <4>1. Leased(k) /\ ~Leased(k)' /\ row'[k].status = "processing"
        BY <2>1, <3>1 DEF Same3, HeldFresh
      <4>2. Paid(k)' >= Paid(k) + 1
        BY <2>1, <4>1, HolderStays DEF Same3
      <4> QED BY <1>1, <2>1, <3>1, <4>2 DEF Same3, PaidInv
    <3>2. CASE ~(row[k].status = "processing" /\ HeldFresh(k) /\ ~HeldFresh(k)')
      BY <1>1, <1>2, <2>1, <3>2 DEF Same3, PaidInv
    <3> QED BY <3>1, <3>2
  <2>2. CASE Accepted(k) \/ Withdrawn(k) \/ Retired(k)
    BY <1>1, <1>2, <2>2 DEF Accepted, Withdrawn, Retired, PaidInv
  <2>3. CASE WasReset(k)
    <3>1. rec.cur \in Seen
      BY <2>3 DEF WasReset, Seen
    <3>2. row[k].attempts <= Paid(k)
      BY <2>3, <3>1 DEF WasReset, PaidInv
    <3> QED BY <1>1, <1>2, <2>3, <3>2 DEF WasReset
  <2>4. CASE Forgotten(k)
    BY <1>1, <2>4 DEF Forgotten
  <2>5. CASE GrownOlder(k)
    <3>1. CASE Leased(k)
      <4>1. Paid(k)' >= Paid(k) + 1
        BY <2>5, <3>1, PaidGrows DEF GrownOlder
      <4> QED BY <1>1, <2>5, <4>1 DEF GrownOlder, PaidInv
    <3>2. CASE ~Leased(k)
      <4>1. row[k].attempts <= Paid(k)
        BY <2>5, <3>2 DEF GrownOlder, Live, PaidInv, HeldFresh
      <4> QED BY <1>1, <1>2, <2>5, <4>1 DEF GrownOlder
    <3> QED BY <3>1, <3>2
  <2>6. ASSUME NEW c \in Consumers, ClaimedBy(c, k) PROVE Goal
    <3>1. row[k].attempts <= Paid(k)
      BY <2>6 DEF ClaimedBy, Claimable, HeldFresh, PaidInv, TypeOK, Rows
    <3>2. HeldFresh(k)'
      BY <2>6 DEF ClaimedBy, HeldFresh, Leased, Holds
    <3> QED BY <1>1, <1>2, <2>6, <3>1, <3>2 DEF ClaimedBy
  <2>7. ASSUME NEW c \in Consumers, EndedBy(c, k) PROVE Goal
    <3>1. CASE row'[k].status = "done"
      BY <1>1, <1>2, <2>7, <3>1 DEF EndedBy, PaidInv
    <3>2. CASE failed'[k] = failed[k] + 1
      <4>1. Paid(k)' >= Paid(k) + 1
        BY <3>2, PaidGrows
      <4> QED BY <1>1, <2>7, <4>1 DEF EndedBy, PaidInv
    <3> QED BY <2>7, <3>1, <3>2 DEF EndedBy
  <2> QED BY <2>1, <2>2, <2>3, <2>4, <2>5, <2>6, <2>7, NextRows DEF RowStep
<1>4. ASSUME NEW s \in Seen' PROVE s.attempts <= Paid(s.job)'
  <2>1. CASE s \in Seen
    BY <1>1, <1>2, <2>1, SeenTyped DEF PaidInv
  <2>2. CASE ScannedNow(s)
    <3>1. row[s.job].attempts <= Paid(s.job)
      BY <2>2 DEF ScannedNow, Scanned, HeldFresh, PaidInv
    <3> QED BY <1>1, <1>2, <2>2, <3>1 DEF ScannedNow
  <2> QED BY <2>1, <2>2, PassStep
<1> QED BY <1>3, <1>4 DEF PaidInv

LEMMA StuckWorkersEnd == Spec => []StuckEnds
<1>1. TypeOK /\ StuckEnds /\ [Next]_vars => StuckEnds'
  <2>1. UNCHANGED vars /\ StuckEnds => StuckEnds'
    BY DEF vars, StuckEnds
  <2> QED BY <2>1, NextStuck
<1> QED BY InitPaid, TypeCorrect, <1>1, PTL DEF Spec

\* Every run of a job after its first is paid for by an error the queue charged,
\* a crash or a failed heartbeat, whatever the entries, trims and consumers.
THEOREM RerunsArePaid == Spec => []EveryRerunIsPaid
<1>1. TypeOK /\ TypeOK' /\ StuckEnds /\ PaidInv /\ [Next]_vars => PaidInv'
  <2>1. UNCHANGED vars /\ PaidInv => PaidInv'
    BY DEF vars, PaidInv, Paid, HeldFresh, Leased, Holds, Seen
  <2> QED BY <2>1, NextPaid
<1>2. TypeOK /\ PaidInv => EveryRerunIsPaid
  <2> SUFFICES ASSUME TypeOK, PaidInv, NEW j \in Jobs
               PROVE  row[j].attempts <= 1 + failed[j] + faults.crash + faults.lapse
    BY DEF EveryRerunIsPaid
  <2>1. failed[j] \in Nat /\ faults.crash \in Nat /\ faults.lapse \in Nat /\ row[j].attempts \in Nat
    BY DEF TypeOK, Faults, Rows
  <2> QED BY <2>1 DEF PaidInv, Paid
<1> QED BY InitPaid, TypeCorrect, StuckWorkersEnd, <1>1, <1>2, PTL DEF Spec

(***************************************************************************)
(* Leases, while every heartbeat arrives.  A handler's row stays in        *)
(* processing under its token and never ages, or a producer withdrew the   *)
(* job; and whatever reconcile still remembers of the row was read before  *)
(* the claim.  PassBehind, which needs no heartbeats, is what makes the    *)
(* last fact survive the next claim.                                       *)
(***************************************************************************)
PassBehind == \A s \in Seen : row[s.job].status = "pruned" \/ s.attempts <= row[s.job].attempts

OwnsLease(c, j) ==
    /\ row[j].status \in {"processing", "done", "pruned"}
    /\ row[j].status = "processing" => row[j].age = 0
    /\ row[j].status # "pruned" =>
         /\ row[j].attempts = cons[c].token
         /\ \A s \in Seen : s.job = j => s.attempts < row[j].attempts
    /\ \A d \in Consumers : Running(d, j) => d = c

LeaseInv ==
    faults.lapse = 0 => \A c \in Consumers, j \in Jobs : Running(c, j) => OwnsLease(c, j)

LEMMA InitLease == Init => PassBehind /\ LeaseInv
BY DEF Init, Resting, Seen, Idle, PassBehind, LeaseInv, Running

LEMMA NextPass == ASSUME TypeOK, TypeOK', PassBehind, Next PROVE PassBehind'
<1> SUFFICES ASSUME NEW s \in Seen'
             PROVE  row'[s.job].status = "pruned" \/ s.attempts <= row'[s.job].attempts
  BY DEF PassBehind
<1>1. CASE s \in Seen
  <2>1. s.job \in Jobs /\ s.attempts \in Nat
    BY <1>1, SeenTyped
  <2>2. Grows(row[s.job], row'[s.job]) /\ row[s.job].attempts \in Nat /\ row'[s.job].attempts \in Nat
    BY <2>1, NextGrows DEF TypeOK, Rows
  <2> QED BY <1>1, <2>1, <2>2 DEF PassBehind, Grows
<1>2. CASE ScannedNow(s) /\ UNCHANGED row
  BY <1>2 DEF ScannedNow, TypeOK, Rows
<1> QED BY <1>1, <1>2, PassStep

\* What a successful claim does.
LEMMA ClaimEffect ==
    ASSUME TypeOK, NEW c \in Consumers, Claim(c), cons'[c].pc = "run"
    PROVE  LET j == cons[c].job IN
           /\ j \in Jobs /\ cons[c].pc = "claim" /\ Claimable(j)
           /\ cons'[c].job = j /\ cons'[c].token = row[j].attempts + 1
           /\ row'[j].status = "processing" /\ row'[j].age = 0
           /\ row'[j].attempts = row[j].attempts + 1
           /\ UNCHANGED <<rec, failed, faults, dead>>
           /\ \A d \in Consumers \ {c} : cons'[d] = cons[d]
<1> DEFINE j == cons[c].job
           r == [row[j] EXCEPT !.status = "processing", !.age = 0, !.attempts = @ + 1]
           w == [cons[c] EXCEPT !.pc = "run", !.token = row[j].attempts + 1]
<1>1. j \in Jobs /\ cons[c].pc = "claim" /\ UNCHANGED <<rec, failed, faults, dead>>
  BY DEF Claim, TypeOK, Workers
<1>2. Claimable(j) /\ row' = Put(j, r) /\ cons' = [cons EXCEPT ![c] = w]
  BY RestRuns DEF Claim, TypeOK
<1>3. r.status = "processing" /\ r.attempts = row[j].attempts + 1 /\ r.age = 0
  BY <1>1, UpdateFields DEF TypeOK
<1>4. w.job = j /\ w.token = row[j].attempts + 1
  BY DEF TypeOK, Workers
<1> HIDE DEF r, w
<1>5. row'[j] = r
  BY <1>1, <1>2, PutAt DEF TypeOK
<1>6. cons'[c] = w /\ \A d \in Consumers \ {c} : cons'[d] = cons[d]
  BY <1>2 DEF TypeOK
<1> QED BY <1>1, <1>2, <1>3, <1>4, <1>5, <1>6

\* A lease that goes on is still its holder's alone.
LEMMA LeaseGoesOn ==
    ASSUME TypeOK, TypeOK', LeaseInv, Next, faults'.lapse = 0,
           NEW c \in Consumers, NEW j \in Jobs, Running(c, j), Same(c), Running(c, j)'
    PROVE  OwnsLease(c, j)'
<1>1. faults.lapse = 0 /\ faults'.lapse # faults.lapse + 1
  BY CountsGrow DEF TypeOK, Faults
<1>2. OwnsLease(c, j)
  BY <1>1 DEF LeaseInv
<1>3. cons'[c].token = cons[c].token /\ cons[c].token \in Nat /\ row[j].attempts \in Nat
  BY DEF Same, TypeOK, Workers, Rows
<1>4. ~(rec.cur \in Seen /\ rec.cur.job = j /\ row[j].status # "pruned" /\ row[j].attempts = rec.cur.attempts)
  BY <1>2, <1>3 DEF OwnsLease
<1>5. /\ row'[j].status \in {"processing", "done", "pruned"}
      /\ row'[j].status = "processing" => row'[j].age = 0
      /\ row'[j].status # "pruned" => row[j].status # "pruned" /\ row'[j].attempts = row[j].attempts
  <2>1. CASE Same3(j)
    BY <1>2, <2>1 DEF OwnsLease, Same3
  <2>2. CASE Accepted(j) \/ Withdrawn(j) \/ Forgotten(j)
    BY <1>2, <2>2 DEF OwnsLease, Accepted, Withdrawn, Forgotten, Live
  <2>3. CASE GrownOlder(j)
    <3>1. row[j].status = "processing"
      BY <1>2, <2>3 DEF OwnsLease, GrownOlder, Live
    <3>2. Leased(j)
      BY <1>2, <3>1 DEF OwnsLease, Leased, Holds, Running
    <3> QED BY <1>1, <2>3, <3>2 DEF GrownOlder
  <2>4. ~Retired(j) /\ ~WasReset(j)
    BY <1>4 DEF Retired, WasReset, Seen
  <2>5. ASSUME NEW d \in Consumers PROVE ~ClaimedBy(d, j) /\ ~EndedBy(d, j)
    <3>1. ~ClaimedBy(d, j)
      BY <1>2 DEF OwnsLease, ClaimedBy, Claimable
    <3>2. ~EndedBy(d, j)
      BY <1>2 DEF OwnsLease, EndedBy, Running
    <3> QED BY <3>1, <3>2
  <2> QED BY <2>1, <2>2, <2>3, <2>4, <2>5, NextRows DEF RowStep
<1>6. row'[j].status # "pruned" => \A s \in Seen' : s.job = j => s.attempts < row'[j].attempts
  <2>1. ASSUME NEW s, ScannedNow(s), row[j].status # "pruned" PROVE s.job # j
    BY <1>2, <2>1 DEF OwnsLease, ScannedNow, Scanned
  <2> QED BY <1>2, <1>5, <2>1, PassStep DEF OwnsLease
<1>7. ASSUME NEW d \in Consumers, Running(d, j)' PROVE d = c
  <2>1. CASE Claim(d)
    <3>1. Claimable(j)
      BY <1>7, <2>1, ClaimEffect DEF Running
    <3> QED BY <1>2, <3>1 DEF OwnsLease, Claimable
  <2>2. CASE ~Claim(d)
    BY <1>2, <1>7, <2>2, NextRuns DEF Running, Same, OwnsLease
  <2> QED BY <2>1, <2>2
<1> QED BY <1>2, <1>3, <1>5, <1>6, <1>7 DEF OwnsLease

LEMMA LeaseStarts ==
    ASSUME TypeOK, TypeOK', PassBehind, LeaseInv, Next, faults'.lapse = 0,
           NEW c \in Consumers, NEW j \in Jobs, Claim(c), Running(c, j)'
    PROVE  OwnsLease(c, j)'
<1>1. /\ j = cons[c].job /\ cons[c].pc = "claim" /\ Claimable(j)
      /\ cons'[c].token = row[j].attempts + 1
      /\ row'[j].status = "processing" /\ row'[j].age = 0
      /\ row'[j].attempts = row[j].attempts + 1
      /\ UNCHANGED <<rec, faults>>
      /\ \A d \in Consumers \ {c} : cons'[d] = cons[d]
  BY ClaimEffect DEF Running
<1>2. \A s \in Seen' : s.job = j => s.attempts < row'[j].attempts
  <2> SUFFICES ASSUME NEW s \in Seen, s.job = j PROVE s.attempts < row[j].attempts + 1
    BY <1>1 DEF Seen
  <2>1. s.attempts \in Nat /\ row[j].attempts \in Nat
    BY SeenTyped DEF TypeOK, Rows
  <2>2. row[j].status # "pruned"
    BY <1>1 DEF Claimable
  <2> QED BY <2>1, <2>2 DEF PassBehind
<1>3. \A d \in Consumers : Running(d, j)' => d = c
  <2> SUFFICES ASSUME NEW d \in Consumers, Running(d, j)', d # c PROVE FALSE
    OBVIOUS
  <2>1. Running(d, j)
    BY <1>1 DEF Running
  <2>2. OwnsLease(d, j)
    BY <1>1, <2>1 DEF LeaseInv
  <2> QED BY <1>1, <2>2 DEF OwnsLease, Claimable
<1> QED BY <1>1, <1>2, <1>3 DEF OwnsLease

LEMMA NextLease == ASSUME TypeOK, TypeOK', PassBehind, LeaseInv, Next PROVE LeaseInv'
<1> SUFFICES ASSUME faults'.lapse = 0, NEW c \in Consumers, NEW j \in Jobs, Running(c, j)'
             PROVE  OwnsLease(c, j)'
  BY DEF LeaseInv
<1>1. CASE Claim(c)
  BY <1>1, LeaseStarts
<1>2. CASE ~Claim(c)
  <2>1. Same(c)
    BY <1>2, NextRuns DEF Running
  <2> QED BY <2>1, LeaseGoesOn DEF Same, Running
<1> QED BY <1>1, <1>2

THEOREM LeasesHold == Spec => [](PassBehind /\ LeaseInv)
<1>1. TypeOK /\ TypeOK' /\ PassBehind /\ LeaseInv /\ [Next]_vars => PassBehind' /\ LeaseInv'
  <2>1. UNCHANGED vars /\ PassBehind /\ LeaseInv => PassBehind' /\ LeaseInv'
    BY DEF vars, PassBehind, LeaseInv, OwnsLease, Running, Seen
  <2> QED BY <2>1, NextPass, NextLease
<1> QED BY InitLease, TypeCorrect, <1>1, PTL DEF Spec

\* While heartbeats work, one handler at most runs a job, whatever entries are
\* duplicated, reclaimed, re-added by reconcile or left behind by a crash.
THEOREM OneRunner == Spec => []SoleRunner
<1>1. LeaseInv => SoleRunner
  BY DEF LeaseInv, OwnsLease, SoleRunner
<1> QED BY LeasesHold, <1>1, PTL

\* While heartbeats work, a renewed lease is taken away by nobody.
THEOREM FreshLeasesStay == Spec => FreshLeaseKept
<1> DEFINE Taker(c) == rec' # rec \/ \E d \in Consumers \ {c} : cons'[d] # cons[d]
           Kept(c) == LET j == cons[c].job IN
                        /\ faults.lapse = 0 /\ cons[c].pc = "run" /\ Holds(c, j) /\ row[j].age = 0
                        /\ Taker(c)
                        => row'[j].status = "processing" /\ row'[j].attempts = row[j].attempts
<1>1. ASSUME TypeOK, LeaseInv, [Next]_vars, NEW c \in Consumers PROVE Kept(c)
  <2> DEFINE j == cons[c].job
  <2> SUFFICES ASSUME faults.lapse = 0, cons[c].pc = "run", Holds(c, j), row[j].age = 0, Taker(c)
               PROVE  row'[j].status = "processing" /\ row'[j].attempts = row[j].attempts
    OBVIOUS
  <2>1. j \in Jobs /\ Running(c, j) /\ row[j].status = "processing"
    BY <1>1 DEF TypeOK, Workers, Running, Holds
  <2>2. OwnsLease(c, j)
    BY <1>1, <2>1 DEF LeaseInv
  <2>3. Next /\ ~UNCHANGED <<cons, rec>>
    BY <1>1 DEF vars
  <2>4. CASE Same3(j)
    BY <2>1, <2>4 DEF Same3
  <2>5. ~Accepted(j) /\ ~Withdrawn(j) /\ ~Forgotten(j) /\ ~GrownOlder(j)
    BY <2>3 DEF Accepted, Withdrawn, Forgotten, GrownOlder
  <2>6. ~Retired(j) /\ ~WasReset(j)
    <3>1. \A s \in Seen : s.job = j => s.attempts < row[j].attempts /\ s.attempts \in Nat
      BY <1>1, <2>1, <2>2, SeenTyped DEF OwnsLease
    <3>2. row[j].attempts \in Nat
      BY <1>1, <2>1 DEF TypeOK, Rows
    <3> QED BY <3>1, <3>2 DEF Retired, WasReset, Seen
  <2>7. ASSUME NEW d \in Consumers PROVE ~ClaimedBy(d, j) /\ ~EndedBy(d, j)
    <3>1. ~ClaimedBy(d, j)
      BY <2>1 DEF ClaimedBy, Claimable
    <3>2. ~EndedBy(d, j)
      BY <2>2 DEF OwnsLease, EndedBy
    <3> QED BY <3>1, <3>2
  <2> QED BY <1>1, <2>1, <2>3, <2>4, <2>5, <2>6, <2>7, NextRows DEF RowStep
<1>2. TypeOK /\ LeaseInv /\ [Next]_vars => [\A c \in Consumers : Kept(c)]_vars
  BY <1>1
<1> QED BY TypeCorrect, LeasesHold, <1>2, PTL DEF Spec, FreshLeaseKept

(***************************************************************************)
(* What is given up as superseded.                                         *)
(***************************************************************************)
\* A successor was accepted for the row the pass is about to retire.
RetireInv ==
    rec.pc = "retire" => \E k \in Jobs : SameKey(rec.cur.job, k) /\ row[k].status # "absent"

\* An accepted job is not forgotten to have been.
LEMMA AcceptedStays ==
    ASSUME TypeOK, Next, NEW k \in Jobs, row[k].status # "absent"
    PROVE  row'[k].status # "absent"
<1>1. \A c \in Consumers : ClaimedBy(c, k) \/ EndedBy(c, k) => row'[k].status # "absent"
  BY DEF ClaimedBy, EndedBy
<1> QED BY <1>1, NextRows DEF RowStep, Same3, Accepted, Withdrawn, Retired, WasReset, Forgotten, GrownOlder

LEMMA NextRetire == ASSUME TypeOK, RetireInv, Next PROVE RetireInv'
<1> SUFFICES ASSUME rec'.pc = "retire"
             PROVE  \E k \in Jobs : SameKey(rec'.cur.job, k) /\ row'[k].status # "absent"
  BY DEF RetireInv, SameKey
<1>1. ASSUME NEW s \in rec.todo, RecNext(s)
      PROVE  \E k \in Jobs : SameKey(rec'.cur.job, k) /\ row'[k].status # "absent"
  BY <1>1 DEF RecNext
<1>2. CASE UNCHANGED rec
  BY <1>2, AcceptedStays DEF RetireInv
<1>3. Turn.pc # "retire" /\ Resting.pc # "retire"
  BY DEF Turn, Resting, TypeOK, Passes
<1>4. ~RecRetire /\ ~RecReset /\ ~RecSelect /\ ~RecXadd /\ ~RecCrash
  BY <1>3 DEF RecRetire, RecReset, RecSelect, RecXadd, RecCrash, TypeOK, Passes
<1> QED BY <1>1, <1>2, <1>4, OnlyReconcile DEF Next, Reconcile

\* Work is given up as superseded, by reconcile or by a failing topology handler,
\* only when another job with its key was accepted.
THEOREM OnlySupersededIsRetired == Spec => RetiredIsSuperseded
<1> DEFINE Superseded(j) == \E k \in Jobs : SameKey(j, k) /\ row[k].status # "absent"
           Lost(j) == /\ row[j].status = "processing" /\ row'[j].status = "done"
                      /\ rec' # rec \/ failed' # failed
<1>1. ASSUME TypeOK, RetireInv, [Next]_vars, NEW j \in Jobs, Lost(j) PROVE Superseded(j)
  <2>1. Next
    BY <1>1 DEF vars
  <2>2. Taken(j) => Superseded(j)
    BY DEF Taken, Slot, Live
  <2>3. ~Same3(j) /\ ~Accepted(j) /\ ~Withdrawn(j) /\ ~Forgotten(j) /\ ~GrownOlder(j)
    BY <1>1 DEF Same3, Accepted, Withdrawn, Forgotten, GrownOlder, Terminal
  <2>4. Retired(j) => Superseded(j)
    BY <1>1 DEF Retired, RetireInv
  <2>5. WasReset(j) => Taken(j)
    BY <1>1 DEF WasReset
  <2>6. ASSUME NEW d \in Consumers PROVE ~ClaimedBy(d, j) /\ (EndedBy(d, j) => Taken(j))
    BY <1>1 DEF ClaimedBy, EndedBy
  <2> QED BY <1>1, <2>1, <2>2, <2>3, <2>4, <2>5, <2>6, NextRows DEF RowStep
<1>2. TypeOK /\ RetireInv /\ [Next]_vars => [\A j \in Jobs : Lost(j) => Superseded(j)]_vars
  BY <1>1
<1>3. Init => RetireInv
  BY DEF Init, Resting, RetireInv
<1>4. TypeOK /\ RetireInv /\ [Next]_vars => RetireInv'
  <2>1. UNCHANGED vars /\ RetireInv => RetireInv'
    BY DEF vars, RetireInv, SameKey
  <2> QED BY <2>1, NextRetire
<1> QED BY TypeCorrect, <1>2, <1>3, <1>4, PTL DEF Spec, RetiredIsSuperseded

(***************************************************************************)
(* What a settled row leaves behind.  A pass remembers each job once and   *)
(* forgets the row it wrote; so what it still remembers of a dead row, or  *)
(* of a done row nobody withdrew, was read before the run that settled it, *)
(* and the fence on attempts keeps the pass from bringing the row back.    *)
(***************************************************************************)
AtWork == {"retire", "xadd", "reset"}

PassDistinct ==
    /\ \A t, u \in Seen : t.job = u.job => t = u
    /\ rec.pc \in AtWork => rec.cur \notin rec.todo

Final(j) == row[j].status = "dead" \/ (row[j].status = "done" /\ j \notin Cancellable)

FinalInv ==
    faults.lapse = 0 =>
        \A j \in Jobs : Final(j) => \A s \in Seen : s.job = j => s.attempts < row[j].attempts

LEMMA InitDistinct == Init => PassDistinct /\ FinalInv
BY DEF Init, Resting, Seen, PassDistinct, FinalInv, AtWork

LEMMA NextDistinct == ASSUME TypeOK, PassDistinct, Next PROVE PassDistinct'
<1>1. \A t, u \in Seen' : t.job = u.job => t = u
  BY PassStep DEF PassDistinct
<1>2. ASSUME rec'.pc \in AtWork PROVE rec'.cur \notin rec'.todo
  <2>1. ASSUME NEW s \in rec.todo, RecNext(s) PROVE rec'.cur \notin rec'.todo
    BY <2>1 DEF RecNext
  <2>2. CASE UNCHANGED rec
    BY <1>2, <2>2 DEF PassDistinct
  <2>3. Turn.pc \notin AtWork /\ Resting.pc \notin AtWork
    BY DEF Turn, Resting, TypeOK, Passes, AtWork
  <2>4. CASE RecRetire \/ RecXadd
    <3>1. rec' = Turn \/ (rec'.todo = rec.todo /\ rec'.cur = rec.cur /\ rec.pc \in AtWork)
      BY <2>4 DEF RecRetire, RecXadd, TypeOK, Passes, AtWork
    <3> QED BY <1>2, <2>3, <3>1 DEF PassDistinct
  <2>5. ~RecReset /\ ~RecCrash
    BY <1>2, <2>3 DEF RecReset, RecCrash
  <2>6. ~RecSelect
    BY <1>2 DEF RecSelect, TypeOK, Passes, AtWork
  <2> QED BY <2>1, <2>2, <2>4, <2>5, <2>6, OnlyReconcile DEF Next, Reconcile
<1> QED BY <1>1, <1>2 DEF PassDistinct

LEMMA NextFinal ==
    ASSUME TypeOK, TypeOK', PassDistinct, LeaseInv, FinalInv, Next
    PROVE  FinalInv'
<1> SUFFICES ASSUME faults'.lapse = 0, NEW j \in Jobs, Final(j)', NEW s \in Seen', s.job = j
             PROVE  s.attempts < row'[j].attempts
  BY DEF FinalInv
<1>1. faults.lapse = 0
  BY CountsGrow DEF TypeOK, Faults
<1>2. s \in Seen \/ (ScannedNow(s) /\ UNCHANGED row)
  BY PassStep
<1>3. CASE Same3(j)
  <2>1. Final(j) /\ row'[j].attempts = row[j].attempts
    BY <1>3 DEF Final, Same3
  <2>2. ~ScannedNow(s)
    BY <2>1 DEF Final, ScannedNow, Scanned
  <2> QED BY <1>1, <1>2, <2>1, <2>2 DEF FinalInv
<1>4. ~Accepted(j) /\ ~Withdrawn(j) /\ ~Forgotten(j)
  BY DEF Final, Accepted, Withdrawn, Forgotten
<1>5. ~GrownOlder(j)
  BY DEF Final, GrownOlder, Live
<1>6. ~Retired(j) /\ ~WasReset(j)
  <2> SUFFICES ASSUME Retired(j) \/ WasReset(j) PROVE FALSE
    OBVIOUS
  <2>1. s \in rec.todo /\ rec.cur \in Seen /\ rec.cur.job = j /\ rec.pc \in AtWork
    BY DEF Retired, WasReset, Seen, AtWork
  <2>2. s \in Seen
    BY <2>1 DEF Seen
  <2> QED BY <2>1, <2>2 DEF PassDistinct
<1>7. ASSUME NEW c \in Consumers, ClaimedBy(c, j) \/ EndedBy(c, j) PROVE s.attempts < row'[j].attempts
  <2>1. EndedBy(c, j)
    BY <1>7 DEF Final, ClaimedBy
  <2>2. OwnsLease(c, j) /\ row[j].status = "processing" /\ s \in Seen
    BY <1>1, <2>1 DEF LeaseInv, EndedBy, Holds, Seen
  <2> QED BY <2>1, <2>2 DEF OwnsLease, EndedBy
<1> QED BY <1>3, <1>4, <1>5, <1>6, <1>7, NextRows DEF RowStep

\* A final row is only ever deleted.
LEMMA FinalStays ==
    ASSUME TypeOK, FinalInv, Next, faults.lapse = 0, NEW j \in Jobs, Final(j)
    PROVE  \/ row'[j].status = row[j].status /\ row'[j].attempts = row[j].attempts
           \/ Forgotten(j)
<1>1. ~Accepted(j) /\ ~Withdrawn(j) /\ ~Retired(j) /\ ~GrownOlder(j)
  BY DEF Final, Accepted, Withdrawn, Retired, GrownOlder, Live
<1>2. ~WasReset(j)
  <2> SUFFICES ASSUME WasReset(j) PROVE FALSE
    OBVIOUS
  <2>1. rec.cur \in Seen /\ rec.cur.job = j /\ row[j].attempts = rec.cur.attempts
    BY DEF WasReset, Seen
  <2> QED BY <2>1 DEF FinalInv, TypeOK, Rows
<1>3. ASSUME NEW c \in Consumers PROVE ~ClaimedBy(c, j) /\ ~EndedBy(c, j)
  BY DEF Final, ClaimedBy, Claimable, EndedBy, Holds
<1> QED BY <1>1, <1>2, <1>3, NextRows DEF RowStep, Same3

LEMMA FinalsStay == Spec => []FinalInv
<1>1. TypeOK /\ TypeOK' /\ LeaseInv /\ PassDistinct /\ FinalInv /\ [Next]_vars
      => PassDistinct' /\ FinalInv'
  <2>1. UNCHANGED vars /\ PassDistinct /\ FinalInv => PassDistinct' /\ FinalInv'
    BY DEF vars, PassDistinct, FinalInv, Final, Seen
  <2> QED BY <2>1, NextDistinct, NextFinal
<1> QED BY InitDistinct, TypeCorrect, LeasesHold, <1>1, PTL DEF Spec

\* Where no producer withdraws jobs and heartbeats work, a done or dead row is
\* only ever deleted, whatever a reconcile pass still remembers of it.
THEOREM TerminalRowsStay ==
    ASSUME Cancellable = {}
    PROVE  Spec => [][faults.lapse = 0 => \A j \in Jobs : row[j].status \in Terminal =>
                        row'[j].status \in {row[j].status, "pruned"}]_vars
<1> DEFINE Stays == faults.lapse = 0 => \A j \in Jobs : row[j].status \in Terminal =>
                      row'[j].status \in {row[j].status, "pruned"}
<1>1. ASSUME TypeOK, FinalInv, [Next]_vars PROVE Stays
  <2> SUFFICES ASSUME faults.lapse = 0, NEW j \in Jobs, row[j].status \in Terminal
               PROVE  row'[j].status \in {row[j].status, "pruned"}
    OBVIOUS
  <2>1. CASE Next
    BY <1>1, <2>1, FinalStays DEF Final, Terminal, Forgotten
  <2>2. CASE UNCHANGED vars
    BY <2>2 DEF vars
  <2> QED BY <1>1, <2>1, <2>2
<1>2. TypeOK /\ FinalInv /\ [Next]_vars => [Stays]_vars
  BY <1>1
<1> QED BY TypeCorrect, FinalsStay, <1>2, PTL DEF Spec

(***************************************************************************)
(* What the dead stream says.                                              *)
(***************************************************************************)
DeadRow(j) == row[j].status \in {"dead", "pruned"}

DeadInv ==
    faults.lapse = 0 =>
        /\ \A j \in dead : DeadRow(j)
        /\ \A c \in Consumers : cons[c].pc = "post" => DeadRow(cons[c].job)

\* A worker about to post made the row dead.
LEMMA FailPosts ==
    ASSUME TypeOK, NEW c \in Consumers, NEW w \in Workers, w.job = cons[c].job, NEW fatal, NEW cap,
           FailWith(c, w, fatal, cap), cons'[c].pc = "post"
    PROVE  DeadRow(cons[c].job)'
<1> DEFINE j == w.job
           d == [row[j] EXCEPT !.status = "dead", !.age = 0]
           after == AfterRequeue(w, RequeueOutcome(j, Holds(c, j)))
           post == [w EXCEPT !.pc = "post"]
<1>1. j \in Jobs
  BY DEF FailWith, TypeOK, Workers
<1>2. after.pc # "post" /\ Acking(w).pc # "post"
  BY DEF AfterRequeue, Rested, Acking, Idle
<1>3. d.status = "dead" /\ post.job = j
  BY <1>1, UpdateFields DEF TypeOK, Workers
<1>4. \/ cons' = [cons EXCEPT ![c] = post] /\ row' = Put(j, d)
      \/ cons' = [cons EXCEPT ![c] = Acking(w)]
      \/ cons' = [cons EXCEPT ![c] = after]
  BY DEF FailWith
<1> HIDE DEF after, post, d
<1>5. cons'[c] = post /\ row' = Put(j, d)
  BY <1>2, <1>4 DEF TypeOK
<1> QED BY <1>1, <1>3, <1>5, PutAt DEF DeadRow, TypeOK

LEMMA PostStep ==
    ASSUME TypeOK, Next, NEW c \in Consumers, cons'[c].pc = "post"
    PROVE  (cons[c].pc = "post" /\ cons'[c].job = cons[c].job) \/ DeadRow(cons[c].job)'
<1> DEFINE Goal == (cons[c].pc = "post" /\ cons'[c].job = cons[c].job) \/ DeadRow(cons[c].job)'
<1>1. cons[c] \in Workers
  BY DEF TypeOK
<1>2. CASE Consumer(c)
  <2>1. CASE (\E kind \in ErrorKinds : Fail(c, kind)) \/ StuckRelease(c)
    <3>1. [cons[c] EXCEPT !.stuck = TRUE] \in Workers /\ [cons[c] EXCEPT !.stuck = TRUE].job = cons[c].job
      BY <1>1 DEF Workers
    <3> QED BY <1>1, <2>1, <3>1, FailPosts DEF Fail, StuckRelease
  <2>2. ~Ack(c) /\ ~DeadPost(c) /\ ~Succeed(c) /\ ~Recycle(c)
    <3>1. \A w : Rested(w).pc # "post" /\ Acking(w).pc # "post" /\ Idle.pc # "post"
      BY DEF Rested, Acking, Idle
    <3> QED BY <3>1 DEF Ack, DeadPost, Succeed, Recycle, TypeOK
  <2>3. ~Poll(c)
    <3>1. ASSUME NEW b PROVE [cons[c] EXCEPT !.pc = "next", !.batch = b].pc = "next"
      BY <1>1 DEF Workers
    <3>2. Poll(c) => \E b : cons'[c] = [cons[c] EXCEPT !.pc = "next", !.batch = b]
      BY DEF Poll, TypeOK
    <3> QED BY <3>1, <3>2
  <2>4. ASSUME NEW e \in cons[c].batch PROVE ~SelectRow(c, e)
    <3> DEFINE taken == [cons[c] EXCEPT !.cur = e.id, !.batch = @ \ {e}]
               mine == [taken EXCEPT !.pc = "claim", !.job = e.job, !.input = row[e.job].input]
    <3>1. SelectRow(c, e) => cons'[c] \in {mine, Acking(taken)}
      BY DEF SelectRow, TypeOK
    <3>2. mine.pc = "claim" /\ Acking(taken).pc = "ack"
      BY <1>1 DEF Workers, Acking, Idle
    <3> HIDE DEF mine, taken
    <3> QED BY <3>1, <3>2
  <2>5. ~Claim(c)
    <3> DEFINE run == [cons[c] EXCEPT !.pc = "run", !.token = row[cons[c].job].attempts + 1]
    <3>1. Claim(c) => cons'[c] \in {run, Acking(cons[c])}
      BY DEF Claim, TypeOK
    <3>2. run.pc = "run" /\ Acking(cons[c]).pc = "ack"
      BY <1>1 DEF Workers, Acking, Idle
    <3> HIDE DEF run
    <3> QED BY <3>1, <3>2
  <2>6. ~Deadline(c)
    <3> SUFFICES ASSUME Deadline(c) PROVE FALSE
      OBVIOUS
    <3>1. cons'[c] = [cons[c] EXCEPT !.late = TRUE] /\ cons[c].pc = "run"
      BY DEF Deadline, TypeOK
    <3> QED BY <1>1, <3>1 DEF Workers
  <2>7. ~Heartbeat(c)
    BY DEF Heartbeat
  <2> QED BY <1>2, <2>1, <2>2, <2>3, <2>4, <2>5, <2>6, <2>7 DEF Consumer
<1>3. ASSUME NEW d \in Consumers, Consumer(d), d # c PROVE Goal
  BY <1>3, OthersStay
<1>4. CASE Producer \/ Reconcile
  BY <1>4 DEF Producer, Enqueue, Coalesce, Cancel, BecomeDue, DispatchDue, PublishXadd, PublishSid, PublishLost,
     Reconcile, RecSelect, RecNext, RecRetire, RecXadd, RecReset
<1>5. CASE Environment
  <2>1. cons' = cons \/ \E d \in Consumers : cons' = [cons EXCEPT ![d] = Idle]
    BY <1>5 DEF Environment, Prune, Age, Lapse, Older, Crash, Trim, RecCrash
  <2>2. ASSUME NEW d \in Consumers, cons' = [cons EXCEPT ![d] = Idle] PROVE cons'[c] = cons[c]
    BY <2>2 DEF TypeOK, Idle
  <2> QED BY <2>1, <2>2
<1> QED BY <1>2, <1>3, <1>4, <1>5 DEF Next

LEMMA DeadStep ==
    ASSUME TypeOK, Next
    PROVE  UNCHANGED dead \/ \E c \in Consumers : cons[c].pc = "post" /\ dead' = dead \union {cons[c].job}
<1>1. ASSUME NEW c \in Consumers, Consumer(c)
      PROVE  UNCHANGED dead \/ (cons[c].pc = "post" /\ dead' = dead \union {cons[c].job})
  BY <1>1 DEF Consumer, Poll, Claim, Ack, DeadPost, SelectRow, Heartbeat, Succeed, Fail, FailWith,
     Deadline, StuckRelease, Recycle
<1>2. Producer \/ Reconcile \/ Environment => UNCHANGED dead
  BY DEF Producer, Enqueue, Coalesce, Cancel, BecomeDue, DispatchDue, PublishXadd, PublishSid, PublishLost,
     Reconcile, RecSelect, RecNext, RecRetire, RecXadd, RecReset,
     Environment, Prune, Age, Lapse, Older, Crash, Trim, RecCrash
<1> QED BY <1>1, <1>2 DEF Next

LEMMA NextDead ==
    ASSUME TypeOK, FinalInv, DeadInv, Next
    PROVE  DeadInv'
<1> SUFFICES ASSUME faults'.lapse = 0
             PROVE  /\ \A j \in dead' : DeadRow(j)'
                    /\ \A c \in Consumers : cons'[c].pc = "post" => DeadRow(cons[c].job)'
  BY DEF DeadInv, DeadRow
<1>1. faults.lapse = 0
  BY CountsGrow DEF TypeOK, Faults
<1>2. ASSUME NEW j \in Jobs, DeadRow(j) PROVE DeadRow(j)'
  <2>1. CASE row[j].status = "dead"
    BY <1>1, <2>1, FinalStays DEF DeadRow, Final, Forgotten
  <2>2. CASE row[j].status = "pruned"
    BY <2>2, NextGrows DEF Grows, DeadRow
  <2> QED BY <1>2, <2>1, <2>2 DEF DeadRow
<1>3. dead \subseteq Jobs /\ \A c \in Consumers : cons[c].pc = "post" => cons[c].job \in Jobs
  BY DEF TypeOK, Workers
<1>4. ASSUME NEW j \in dead' PROVE DeadRow(j)'
  <2>1. j \in Jobs /\ DeadRow(j)
    BY <1>1, <1>3, <1>4, DeadStep DEF DeadInv
  <2> QED BY <1>2, <2>1
<1>5. ASSUME NEW c \in Consumers, cons'[c].pc = "post" PROVE DeadRow(cons[c].job)'
  <2>1. CASE cons[c].pc = "post" /\ cons'[c].job = cons[c].job
    <3> DEFINE j == cons[c].job
    <3>1. DeadRow(j) /\ j \in Jobs
      BY <1>1, <1>3, <2>1 DEF DeadInv
    <3>2. row'[j].status \in {"dead", "pruned"}
      BY <1>2, <3>1 DEF DeadRow
    <3> QED BY <2>1, <3>2 DEF DeadRow
  <2> QED BY <1>5, <2>1, PostStep
<1> QED BY <1>4, <1>5

\* While heartbeats work, the dead stream names only jobs whose row is dead.
THEOREM DeadStreamIsTrue == Spec => []DeadStreamTruthful
<1>1. Init => DeadInv
  BY DEF Init, Idle, DeadInv
<1>2. TypeOK /\ FinalInv /\ DeadInv /\ [Next]_vars => DeadInv'
  <2>1. UNCHANGED vars /\ DeadInv => DeadInv'
    BY DEF vars, DeadInv, DeadRow
  <2> QED BY <2>1, NextDead
<1>3. DeadInv => DeadStreamTruthful
  BY DEF DeadInv, DeadRow, DeadStreamTruthful
<1> QED BY TypeCorrect, FinalsStay, <1>1, <1>2, <1>3, PTL DEF Spec

(***************************************************************************)
(* Jobs no producer withdraws: their handler's row is processing for as    *)
(* long as it runs.  Generations are such jobs, and one live row per key   *)
(* is what their unique indexes keep.                                      *)
(***************************************************************************)
HeldInv ==
    faults.lapse = 0 =>
        \A c \in Consumers, j \in Jobs \ Cancellable : Running(c, j) => Holds(c, j)

LEMMA NextHeld ==
    ASSUME TypeOK, TypeOK', LeaseInv, LeaseInv', HeldInv, Next
    PROVE  HeldInv'
<1> SUFFICES ASSUME faults'.lapse = 0, NEW c \in Consumers, NEW j \in Jobs \ Cancellable, Running(c, j)'
             PROVE  Holds(c, j)'
  BY DEF HeldInv
<1>1. faults.lapse = 0
  BY CountsGrow DEF TypeOK, Faults
<1>2. OwnsLease(c, j)'
  BY DEF LeaseInv
<1>3. row'[j].status = "processing"
  <2>1. CASE Claim(c)
    BY <2>1, ClaimEffect DEF Running
  <2>2. CASE ~Claim(c)
    <3>1. Same(c) /\ Running(c, j)
      BY <2>2, NextRuns DEF Running, Same
    <3>2. OwnsLease(c, j) /\ row[j].status = "processing" /\ row[j].attempts \in Nat
      BY <1>1, <3>1 DEF LeaseInv, HeldInv, Holds, TypeOK, Rows
    <3>3. ~Accepted(j) /\ ~Withdrawn(j) /\ ~Forgotten(j)
      BY <3>2 DEF Accepted, Withdrawn, Forgotten, Terminal
    <3>4. ~Retired(j) /\ ~WasReset(j)
      BY <3>2, SeenTyped DEF OwnsLease, Retired, WasReset, Seen
    <3>5. ASSUME NEW d \in Consumers PROVE ~ClaimedBy(d, j) /\ ~EndedBy(d, j)
      <4>1. ~ClaimedBy(d, j)
        BY <3>2 DEF OwnsLease, ClaimedBy, Claimable
      <4>2. ~EndedBy(d, j)
        BY <3>2 DEF OwnsLease, EndedBy, Running
      <4> QED BY <4>1, <4>2
    <3> QED BY <3>2, <3>3, <3>4, <3>5, NextRows DEF RowStep, Same3, GrownOlder
  <2> QED BY <2>1, <2>2
<1> QED BY <1>2, <1>3 DEF OwnsLease, Holds

\* A step writes one row at most.
LEMMA OneRow ==
    ASSUME TypeOK, Next
    PROVE  \E m : \A k \in Jobs : k # m => row'[k] = row[k]
<1> DEFINE Writes == UNCHANGED row \/ \E m, r : row' = Put(m, r)
<1>1. Producer => Writes
  BY DEF Producer, Enqueue, Coalesce, Cancel, BecomeDue, DispatchDue, PublishXadd, PublishSid, PublishLost
<1>2. ASSUME NEW j, NEW m \in BOOLEAN, NEW sid, Requeue(j, RequeueOutcome(j, m), sid) PROVE Writes
  BY <1>2, RequeueEffect
<1>3. ASSUME NEW c, NEW w, NEW fatal, NEW cap, FailWith(c, w, fatal, cap) PROVE Writes
  <2>1. Holds(c, w.job) \in BOOLEAN
    BY DEF Holds
  <2> QED BY <1>2, <1>3, <2>1 DEF FailWith
<1>4. ASSUME NEW c \in Consumers, Consumer(c) PROVE Writes
  <2>1. (\E kind \in ErrorKinds : Fail(c, kind)) \/ StuckRelease(c) => Writes
    BY <1>3 DEF Fail, StuckRelease
  <2>2. Claim(c) \/ Heartbeat(c) \/ Succeed(c) => Writes
    BY DEF Claim, Heartbeat, Succeed
  <2>3. Poll(c) \/ Ack(c) \/ DeadPost(c) \/ Deadline(c) \/ Recycle(c) => Writes
    BY DEF Poll, Ack, DeadPost, Deadline, Recycle
  <2>4. \A e \in cons[c].batch : SelectRow(c, e) => Writes
    BY DEF SelectRow
  <2> QED BY <1>4, <2>1, <2>2, <2>3, <2>4 DEF Consumer
<1>5. Reconcile => Writes
  <2>1. RecReset => Writes
    <3> DEFINE matches == row[rec.cur.job].status # "pruned" /\ row[rec.cur.job].attempts = rec.cur.attempts
    <3>1. RecReset => Requeue(rec.cur.job, RequeueOutcome(rec.cur.job, matches), "set")
      BY DEF RecReset
    <3>2. matches \in BOOLEAN
      OBVIOUS
    <3> HIDE DEF matches
    <3> QED BY <1>2, <3>1, <3>2
  <2>2. RecSelect \/ RecRetire \/ RecXadd \/ (\E s \in rec.todo : RecNext(s)) => Writes
    BY DEF RecSelect, RecRetire, RecXadd, RecNext
  <2> QED BY <2>1, <2>2 DEF Reconcile
<1>6. Environment => Writes
  BY DEF Environment, Prune, Age, Lapse, Older, Crash, Trim, RecCrash
<1>7. Writes
  BY <1>1, <1>4, <1>5, <1>6 DEF Next
<1>8. ASSUME NEW m, NEW r, row' = Put(m, r) PROVE \A k \in Jobs : k # m => row'[k] = row[k]
  BY <1>8 DEF Put, TypeOK
<1> QED BY <1>7, <1>8

OneLivePerKey ==
    \A j, k \in Exclusive : SameKey(j, k) => ~(row[j].status \in Live /\ row[k].status \in Live)

\* A row that becomes live found no other live row of its key.
LEMMA BecomesLive ==
    ASSUME TypeOK, Next, NEW k \in Exclusive, row[k].status \notin Live, row'[k].status \in Live
    PROVE  \A j \in Jobs : SameKey(k, j) => row[j].status \notin Live
<1>1. k \in Jobs
  BY ClassAssumption
<1>2. Accepted(k) \/ WasReset(k)
  <2>1. ~Same3(k) /\ ~Withdrawn(k) /\ ~Retired(k) /\ ~Forgotten(k) /\ ~GrownOlder(k)
    BY DEF Same3, Withdrawn, Retired, Forgotten, GrownOlder, Live
  <2>2. ASSUME NEW c \in Consumers PROVE ~ClaimedBy(c, k) /\ ~EndedBy(c, k)
    BY DEF ClaimedBy, Claimable, EndedBy, Holds, Live
  <2> QED BY <1>1, <2>1, <2>2, NextRows DEF RowStep
<1>3. ~Taken(k)
  BY <1>2 DEF Accepted, WasReset, Live
<1> QED BY <1>3 DEF Taken, Slot

LEMMA NextOneLive == ASSUME TypeOK, OneLivePerKey, Next PROVE OneLivePerKey'
<1> SUFFICES ASSUME NEW j \in Exclusive, NEW k \in Exclusive, SameKey(j, k),
                    row'[j].status \in Live, row'[k].status \in Live
             PROVE  FALSE
  BY DEF OneLivePerKey, SameKey
<1>1. j \in Jobs /\ k \in Jobs /\ SameKey(k, j)
  BY ClassAssumption DEF SameKey
<1>2. row'[j] = row[j] \/ row'[k] = row[k]
  BY <1>1, OneRow DEF SameKey
<1>3. row[j].status \in Live => row[k].status \notin Live
  BY DEF OneLivePerKey
<1> QED BY <1>1, <1>2, <1>3, BecomesLive

\* Two generations for one incident never run together while heartbeats work.
THEOREM OneGeneration == Spec => []OneGenerationPerKey
<1>1. Init => HeldInv /\ OneLivePerKey
  BY ClassAssumption DEF Init, Idle, NoRow, Live, HeldInv, OneLivePerKey, Running
<1>2. TypeOK /\ TypeOK' /\ LeaseInv /\ LeaseInv' /\ HeldInv /\ OneLivePerKey /\ [Next]_vars
      => HeldInv' /\ OneLivePerKey'
  <2>1. UNCHANGED vars /\ HeldInv /\ OneLivePerKey => HeldInv' /\ OneLivePerKey'
    BY DEF vars, HeldInv, OneLivePerKey, Running, Holds, SameKey
  <2> QED BY <2>1, NextHeld, NextOneLive
<1>3. HeldInv /\ OneLivePerKey => OneGenerationPerKey
  <2> SUFFICES ASSUME HeldInv, OneLivePerKey, faults.lapse = 0, NEW c \in Consumers, NEW d \in Consumers,
                      NEW j \in Exclusive, NEW k \in Exclusive, Running(c, j), Running(d, k)
               PROVE  ~SameKey(j, k)
    BY DEF OneGenerationPerKey
  <2>1. Holds(c, j) /\ Holds(d, k)
    BY ClassAssumption DEF HeldInv
  <2> QED BY <2>1 DEF Holds, OneLivePerKey, Live
<1> QED BY TypeCorrect, LeasesHold, <1>1, <1>2, <1>3, PTL DEF Spec

(***************************************************************************)
(* The refinement: as long as heartbeats work and no producer withdraws a  *)
(* job, the holder of LeasedJobs is the one worker running the handler.    *)
(***************************************************************************)
\* No heartbeat ever failed, and the pass remembers accepted jobs only.
CalmInv ==
    /\ faults.lapse <= MaxLapses
    /\ \A s \in Seen : row[s.job].status # "absent"

LEMMA NextCalm == ASSUME TypeOK, TypeOK', CalmInv, Next PROVE CalmInv'
<1>1. faults'.lapse <= MaxLapses
  <2>1. faults'.lapse = faults.lapse \/ faults.lapse < MaxLapses
    <3>1. Producer \/ Reconcile => UNCHANGED faults
      BY DEF Producer, Enqueue, Coalesce, Cancel, BecomeDue, DispatchDue, PublishXadd, PublishSid, PublishLost,
         Reconcile, RecSelect, RecNext, RecRetire, RecXadd, RecReset
    <3>2. ASSUME NEW c \in Consumers, Consumer(c) PROVE UNCHANGED faults
      BY <3>2 DEF Consumer, Poll, Claim, Ack, DeadPost, SelectRow, Heartbeat, Succeed, Fail, FailWith,
         Deadline, StuckRelease, Recycle
    <3>3. Environment => \/ UNCHANGED faults \/ faults.lapse < MaxLapses
                         \/ faults' = [faults EXCEPT !.crash = @ + 1]
                         \/ faults' = [faults EXCEPT !.trim = @ + 1]
      BY DEF Environment, Prune, Age, Lapse, Older, Crash, Trim, RecCrash
    <3>4. /\ faults' = [faults EXCEPT !.crash = @ + 1] => faults'.lapse = faults.lapse
          /\ faults' = [faults EXCEPT !.trim = @ + 1] => faults'.lapse = faults.lapse
      BY DEF TypeOK, Faults
    <3> QED BY <3>1, <3>2, <3>3, <3>4 DEF Next
  <2> QED BY <2>1, CountsGrow, BoundAssumption DEF CalmInv, TypeOK, Faults
<1>2. ASSUME NEW s \in Seen' PROVE row'[s.job].status # "absent"
  <2>1. s.job \in Jobs /\ row[s.job].status # "absent"
    BY <1>2, PassStep, SeenTyped DEF CalmInv, ScannedNow, Scanned
  <2> QED BY <2>1, AcceptedStays
<1> QED BY <1>1, <1>2 DEF CalmInv

\* The abstract holder is whoever runs the job.
HolderRight ==
    \A j \in Jobs :
        /\ \A c \in Consumers : Running(c, j) => Holder(j) = c
        /\ (\A c \in Consumers : ~Running(c, j)) => Holder(j) = NoJob

LEMMA HolderIs ==
    LeaseInv /\ HeldInv /\ faults.lapse = 0 /\ Cancellable = {} => HolderRight
<1> SUFFICES ASSUME LeaseInv, HeldInv, faults.lapse = 0, Cancellable = {}, NEW j \in Jobs
             PROVE  /\ \A c \in Consumers : Running(c, j) => Holder(j) = c
                    /\ (\A c \in Consumers : ~Running(c, j)) => Holder(j) = NoJob
  BY DEF HolderRight
<1>1. ASSUME NEW c \in Consumers, Running(c, j) PROVE Holder(j) = c
  <2>1. Holds(c, j) /\ OwnsLease(c, j)
    BY <1>1 DEF LeaseInv, HeldInv
  <2>2. \A d \in Consumers : Running(d, j) /\ Holds(d, j) => d = c
    BY <2>1 DEF OwnsLease
  <2> QED BY <1>1, <2>1, <2>2 DEF Holder
<1> QED BY <1>1 DEF Holder

\* What one step of the queue is shown from.
Calm ==
    /\ faults.lapse = 0 /\ Cancellable = {}
    /\ LeaseInv /\ FinalInv /\ HeldInv /\ CalmInv /\ HolderRight

\* The refinement mapping.
stateBar == [j \in Jobs |-> Stage(j)]
grantsBar == [j \in Jobs |-> row[j].attempts]
holderBar == [j \in Jobs |-> Holder(j)]

LEMMA StageIs ==
    ASSUME NEW j
    PROVE  /\ row[j].status = "queued" => Stage(j) = "waiting"
           /\ row[j].status = "processing" => Stage(j) = "leased"
           /\ row[j].status \in Terminal => Stage(j) = "settled"
           /\ row[j].status = "pruned" => Stage(j) = "forgotten"
           /\ row[j].status = "absent" => Stage(j) = "absent"
           /\ row'[j].status = "queued" => Stage(j)' = "waiting"
           /\ row'[j].status = "processing" => Stage(j)' = "leased"
           /\ row'[j].status \in Terminal => Stage(j)' = "settled"
           /\ row'[j].status = "pruned" => Stage(j)' = "forgotten"
BY DEF Stage, Terminal

\* A row no worker is starting or ending, and that is written by nobody else.
LEMMA ElsewhereSame ==
    ASSUME TypeOK, Next, NEW c \in Consumers, cons'[c] # cons[c],
           \A d \in Consumers \ {c} : cons'[d] = cons[d],
           NEW k \in Jobs, cons[c].pc \in {"claim", "run"}, cons[c].job # k
    PROVE  Stage(k)' = Stage(k) /\ row'[k].attempts = row[k].attempts
<1>1. ~Accepted(k) /\ ~Withdrawn(k) /\ ~Retired(k) /\ ~WasReset(k) /\ ~Forgotten(k) /\ ~GrownOlder(k)
  BY DEF Accepted, Withdrawn, Retired, WasReset, Forgotten, GrownOlder
<1>2. ASSUME NEW d \in Consumers PROVE ~ClaimedBy(d, k) /\ ~EndedBy(d, k)
  BY DEF ClaimedBy, EndedBy, Running
<1>3. Same3(k)
  BY <1>1, <1>2, NextRows DEF RowStep
<1> QED BY <1>3 DEF Same3, Stage

\* A worker starts a handler: the job is granted to it.
LEMMA ClaimGrants ==
    ASSUME TypeOK, Calm, HolderRight', Next, NEW c \in Consumers, Claim(c), cons'[c].pc = "run",
           NEW j \in Jobs, cons[c].job = j
    PROVE  Promise!Grant(j, c)
<1>1. /\ cons[c].pc = "claim" /\ Claimable(j) /\ cons'[c].job = j
      /\ row'[j].status = "processing" /\ row'[j].attempts = row[j].attempts + 1
      /\ \A d \in Consumers \ {c} : cons'[d] = cons[d]
  BY ClaimEffect
<1>2. \A d \in Consumers : ~Running(d, j)
  <2> SUFFICES ASSUME NEW d \in Consumers, Running(d, j) PROVE FALSE
    OBVIOUS
  <2>1. OwnsLease(d, j)
    BY DEF Calm, LeaseInv
  <2> QED BY <1>1, <2>1 DEF OwnsLease, Claimable
<1>3. Holder(j) = NoJob /\ Holder(j)' = c
  <2>1. Holder(j) = NoJob
    BY <1>2 DEF Calm, HolderRight
  <2>2. Holder(j)' = c
    BY <1>1 DEF HolderRight, Running
  <2> QED BY <2>1, <2>2
<1>4. Stage(j) \in {"waiting", "leased"} /\ Stage(j)' = "leased"
  BY <1>1, StageIs DEF Claimable
<1>5. ASSUME NEW k \in Jobs, k # j
      PROVE  Stage(k)' = Stage(k) /\ row'[k].attempts = row[k].attempts /\ Holder(k)' = Holder(k)
  <2>1. Stage(k)' = Stage(k) /\ row'[k].attempts = row[k].attempts
    BY <1>1, <1>5, ElsewhereSame
  <2>2. \A d \in Consumers : Running(d, k)' = Running(d, k)
    BY <1>1, <1>5 DEF Running
  <2>3. Holder(k)' = Holder(k)
    BY <2>2 DEF Calm, HolderRight
  <2> QED BY <2>1, <2>3
<1>6. stateBar' = [stateBar EXCEPT ![j] = "leased"]
  BY <1>4, <1>5 DEF stateBar
<1>7. grantsBar' = [grantsBar EXCEPT ![j] = @ + 1]
  BY <1>1, <1>5 DEF grantsBar
<1>8. holderBar' = [holderBar EXCEPT ![j] = c]
  BY <1>3, <1>5 DEF holderBar
<1> QED BY <1>3, <1>4, <1>6, <1>7, <1>8 DEF Promise!Grant, stateBar, grantsBar, holderBar

\* A handler ends: the holder releases the job, or vanishes from it.
LEMMA EndReleases ==
    ASSUME TypeOK, Calm, StuckEnds, HolderRight', Next, NEW c \in Consumers,
           cons[c].pc = "run", cons'[c].pc # "run", NEW j \in Jobs, cons[c].job = j
    PROVE  Promise!Next
<1>1. (\A d \in Consumers \ {c} : cons'[d] = cons[d]) /\ UNCHANGED rec
  BY EndStep DEF Stops
<1>2. Running(c, j) /\ Holds(c, j) /\ OwnsLease(c, j)
  BY DEF Calm, LeaseInv, HeldInv, Running
<1>3. Holder(j) = c /\ Stage(j) = "leased"
  BY <1>2, StageIs DEF Calm, HolderRight, Holds
<1>4. \A d \in Consumers : ~Running(d, j)'
  BY <1>1, <1>2 DEF OwnsLease, Running
<1>5. Holder(j)' = NoJob
  BY <1>4 DEF HolderRight
<1>6. ASSUME NEW k \in Jobs, k # j
      PROVE  /\ Stage(k)' = Stage(k) /\ row'[k].attempts = row[k].attempts
             /\ Holder(k)' = Holder(k) /\ Holder(k) # c
  <2>1. Stage(k)' = Stage(k) /\ row'[k].attempts = row[k].attempts
    BY <1>1, <1>6, ElsewhereSame
  <2>2. \A d \in Consumers : Running(d, k)' = Running(d, k)
    BY <1>1, <1>6 DEF Running
  <2>3. Holder(k)' = Holder(k)
    BY <2>2 DEF Calm, HolderRight
  <2>4. Holder(k) # c
    <3>1. ~Running(c, k)
      BY <1>6 DEF Running
    <3> QED BY <3>1, JobsAssumption DEF Calm, HolderRight
  <2> QED BY <2>1, <2>3, <2>4
<1>7. row'[j].attempts = row[j].attempts /\ (Same3(j) \/ EndedBy(c, j))
  <2>1. ~Accepted(j) /\ ~Withdrawn(j) /\ ~Retired(j) /\ ~WasReset(j) /\ ~Forgotten(j) /\ ~GrownOlder(j)
    BY DEF Accepted, Withdrawn, Retired, WasReset, Forgotten, GrownOlder
  <2>2. ASSUME NEW d \in Consumers PROVE ~ClaimedBy(d, j) /\ (EndedBy(d, j) => d = c)
    BY <1>1, <1>2 DEF ClaimedBy, EndedBy, OwnsLease
  <2>3. Same3(j) \/ EndedBy(c, j)
    BY <2>1, <2>2, NextRows DEF RowStep
  <2> QED BY <2>3 DEF Same3, EndedBy
<1>8. grantsBar' = grantsBar
  BY <1>6, <1>7 DEF grantsBar
<1>9. c # NoJob /\ holderBar[j] = c /\ stateBar[j] = "leased"
  BY <1>3, JobsAssumption DEF holderBar, stateBar
<1>10. CASE Stage(j)' = Stage(j)
  <2>1. stateBar' = stateBar
    BY <1>6, <1>10 DEF stateBar
  <2>2. holderBar' = [k \in Jobs |-> IF holderBar[k] = c THEN NoJob ELSE holderBar[k]]
    BY <1>3, <1>5, <1>6 DEF holderBar
  <2>3. Promise!Vanish(c)
    BY <1>8, <1>9, <2>1, <2>2 DEF Promise!Vanish, stateBar, grantsBar, holderBar
  <2> QED BY <2>3 DEF Promise!Next
<1>11. CASE Stage(j)' \in {"waiting", "settled"}
  <2>1. stateBar' = [stateBar EXCEPT ![j] = Stage(j)']
    BY <1>6 DEF stateBar
  <2>2. holderBar' = [holderBar EXCEPT ![j] = NoJob]
    BY <1>5, <1>6 DEF holderBar
  <2>3. ASSUME NEW outcome, outcome = Stage(j)' PROVE Promise!Release(j, outcome)
    BY <1>8, <1>9, <2>1, <2>2, <2>3 DEF Promise!Release, stateBar, grantsBar, holderBar
  <2> QED BY <1>11, <2>3 DEF Promise!Next
<1>12. Stage(j)' \in {"waiting", "settled"} \/ Stage(j)' = Stage(j)
  BY <1>7, StageIs DEF Same3, EndedBy, Stage, Terminal
<1> QED BY <1>10, <1>11, <1>12

\* While no handler starts or ends, the holders stay, and the one row written is
\* accepted, recovered or forgotten, or means what it meant.
LEMMA OthersKeep ==
    ASSUME TypeOK, Calm, HolderRight', Next,
           \A c \in Consumers : cons[c].pc = "run" <=> cons'[c].pc = "run"
    PROVE  Promise!Next \/ UNCHANGED Promise!vars
<1>1. ASSUME NEW c \in Consumers, NEW k \in Jobs PROVE Running(c, k)' = Running(c, k)
  <2>1. CASE cons[c].pc = "run"
    <3>1. ~Claim(c)
      BY <2>1 DEF Claim
    <3> QED BY <2>1, <3>1, NextRuns DEF Same, Running
  <2>2. CASE cons[c].pc # "run"
    BY <2>2 DEF Running
  <2> QED BY <2>1, <2>2
<1>2. ASSUME NEW k \in Jobs PROVE Holder(k)' = Holder(k)
  <2>1. CASE \E c \in Consumers : Running(c, k)
    BY <1>1, <2>1 DEF Calm, HolderRight
  <2>2. CASE ~\E c \in Consumers : Running(c, k)
    BY <1>1, <2>2 DEF Calm, HolderRight
  <2> QED BY <2>1, <2>2
<1>3. holderBar' = holderBar
  BY <1>2 DEF holderBar
<1>4. PICK m : \A k \in Jobs : k # m => row'[k] = row[k]
  BY OneRow
<1>5. ASSUME NEW k \in Jobs, k # m PROVE Stage(k)' = Stage(k) /\ row'[k].attempts = row[k].attempts
  BY <1>4, <1>5 DEF Stage
<1>6. CASE m \notin Jobs \/ (Stage(m)' = Stage(m) /\ row'[m].attempts = row[m].attempts)
  <2>1. \A k \in Jobs : Stage(k)' = Stage(k) /\ row'[k].attempts = row[k].attempts
    BY <1>5, <1>6
  <2>2. stateBar' = stateBar /\ grantsBar' = grantsBar
    BY <2>1 DEF stateBar, grantsBar
  <2> QED BY <1>3, <2>2 DEF Promise!vars, stateBar, grantsBar, holderBar
<1>7. ASSUME m \in Jobs, row'[m].attempts = row[m].attempts,
             NEW stage, stage = Stage(m)'
      PROVE  stateBar' = [stateBar EXCEPT ![m] = stage] /\ grantsBar' = grantsBar
  BY <1>5, <1>7 DEF stateBar, grantsBar
<1>8. CASE m \in Jobs /\ Accepted(m)
  <2>1. /\ Stage(m) = "absent" /\ Stage(m)' = "waiting" /\ row'[m].attempts = row[m].attempts
    BY <1>8, StageIs DEF Accepted
  <2>2. Promise!Accept(m)
    BY <1>3, <1>7, <1>8, <2>1 DEF Promise!Accept, stateBar, grantsBar, holderBar
  <2> QED BY <1>8, <2>2 DEF Promise!Next
<1>9. CASE m \in Jobs /\ row[m].status = "processing" /\ (Retired(m) \/ WasReset(m))
  <2>1. /\ Stage(m) = "leased" /\ Stage(m)' \in {"waiting", "settled"}
        /\ row'[m].attempts = row[m].attempts
    BY <1>9, StageIs DEF Retired, WasReset, Terminal
  <2>2. Holder(m) = NoJob
    <3>1. ASSUME NEW c \in Consumers, Running(c, m) PROVE FALSE
      <4>1. OwnsLease(c, m)
        BY <1>9, <3>1 DEF Calm, LeaseInv
      <4>2. rec.cur \in Seen /\ rec.cur.job = m /\ row[m].attempts = rec.cur.attempts
        BY <1>9 DEF Retired, WasReset, Seen
      <4> QED BY <1>9, <4>1, <4>2 DEF OwnsLease, TypeOK, Rows
    <3> QED BY <1>9, <3>1 DEF Calm, HolderRight
  <2>3. ASSUME NEW outcome, outcome = Stage(m)' PROVE Promise!Recover(m, outcome)
    BY <1>3, <1>7, <1>9, <2>1, <2>2, <2>3 DEF Promise!Recover, stateBar, grantsBar, holderBar
  <2> QED BY <1>9, <2>1, <2>3 DEF Promise!Next
<1>10. CASE m \in Jobs /\ Forgotten(m)
  <2>1. Stage(m) = "settled" /\ Stage(m)' = "forgotten" /\ row'[m].attempts = 0
    BY <1>10, StageIs DEF Forgotten
  <2>2. stateBar' = [stateBar EXCEPT ![m] = "forgotten"] /\ grantsBar' = [grantsBar EXCEPT ![m] = 0]
    BY <1>5, <2>1 DEF stateBar, grantsBar
  <2>3. Promise!Forget(m)
    BY <1>3, <1>10, <2>1, <2>2 DEF Promise!Forget, stateBar, grantsBar, holderBar
  <2> QED BY <1>10, <2>3 DEF Promise!Next
<1>11. m \in Jobs => \/ Accepted(m) \/ Forgotten(m)
                     \/ row[m].status = "processing" /\ (Retired(m) \/ WasReset(m))
                     \/ Stage(m)' = Stage(m) /\ row'[m].attempts = row[m].attempts
  <2> SUFFICES ASSUME m \in Jobs
               PROVE  \/ Accepted(m) \/ Forgotten(m)
                      \/ row[m].status = "processing" /\ (Retired(m) \/ WasReset(m))
                      \/ Stage(m)' = Stage(m) /\ row'[m].attempts = row[m].attempts
    OBVIOUS
  <2>1. ~Withdrawn(m) /\ \A c \in Consumers : ~ClaimedBy(c, m) /\ ~EndedBy(c, m)
    BY DEF Calm, Withdrawn, ClaimedBy, EndedBy, Running
  <2>2. Same3(m) \/ GrownOlder(m) => Stage(m)' = Stage(m) /\ row'[m].attempts = row[m].attempts
    BY DEF Same3, GrownOlder, Stage
  <2>3. WasReset(m) => row[m].status \in Live
    <3> SUFFICES ASSUME WasReset(m) PROVE row[m].status \in Live
      OBVIOUS
    <3>1. rec.cur \in Seen /\ rec.cur.job = m /\ row[m].attempts = rec.cur.attempts
      BY DEF WasReset, Seen
    <3>2. ~Final(m)
      BY <3>1 DEF Calm, FinalInv, TypeOK, Rows
    <3>3. row[m].status \notin {"absent", "pruned", "done", "dead"}
      BY <3>1, <3>2 DEF WasReset, Calm, CalmInv, Final
    <3> QED BY <3>3 DEF TypeOK, Rows, Statuses, Live
  <2>4. WasReset(m) /\ row[m].status = "queued" => Stage(m)' = Stage(m) /\ row'[m].attempts = row[m].attempts
    BY StageIs DEF WasReset
  <2>5. Retired(m) => row[m].status = "processing"
    BY DEF Retired
  <2> QED BY <2>1, <2>2, <2>3, <2>4, <2>5, NextRows DEF RowStep, Live
<1> QED BY <1>6, <1>8, <1>9, <1>10, <1>11

\* As long as heartbeats work and no producer withdraws a job, every behaviour of
\* the queue is one of LeasedJobs: one holder at a time, grants that only grow,
\* leases ended by their holder alone, settled jobs that stay settled.
THEOREM QueueKeepsPromise ==
    ASSUME MaxLapses = 0, Cancellable = {}
    PROVE  Spec => KeepsPromise
<1>1. Init => Promise!Init
  <2> SUFFICES ASSUME Init PROVE Promise!Init
    OBVIOUS
  <2>1. \A j \in Jobs : row[j].status = "absent" /\ row[j].attempts = 0
    BY DEF Init, NoRow
  <2>2. \A j \in Jobs : Holder(j) = NoJob
    BY DEF Init, Idle, Holder, Running
  <2>3. \A j \in Jobs : Stage(j) = "absent"
    BY <2>1, StageIs
  <2> QED BY <2>1, <2>2, <2>3 DEF Promise!Init
<1>2. Init => HeldInv /\ CalmInv
  BY BoundAssumption DEF Init, Idle, Resting, Seen, HeldInv, CalmInv, Running
<1>3. TypeOK /\ TypeOK' /\ LeaseInv /\ LeaseInv' /\ HeldInv /\ CalmInv /\ [Next]_vars
      => HeldInv' /\ CalmInv'
  <2>1. UNCHANGED vars /\ HeldInv /\ CalmInv => HeldInv' /\ CalmInv'
    BY DEF vars, HeldInv, CalmInv, Running, Holds, Seen
  <2> QED BY <2>1, NextHeld, NextCalm
<1>4. TypeOK /\ LeaseInv /\ FinalInv /\ HeldInv /\ CalmInv => Calm
  <2>1. TypeOK /\ CalmInv => faults.lapse = 0
    BY DEF CalmInv, TypeOK, Faults
  <2> QED BY <2>1, HolderIs DEF Calm
<1>5. TypeOK /\ StuckEnds /\ Calm /\ Calm' /\ [Next]_vars => [Promise!Next]_Promise!vars
  <2> SUFFICES ASSUME TypeOK, StuckEnds, Calm, Calm', [Next]_vars
               PROVE  Promise!Next \/ UNCHANGED Promise!vars
    OBVIOUS
  <2>1. CASE UNCHANGED vars
    <3>1. UNCHANGED <<row, cons>>
      BY <2>1 DEF vars
    <3>2. \A j : Stage(j)' = Stage(j) /\ Holder(j)' = Holder(j)
      BY <3>1 DEF Stage, Holder, Running, Holds
    <3> QED BY <3>1, <3>2 DEF Promise!vars
  <2>2. HolderRight'
    BY DEF Calm
  <2>3. ASSUME Next, NEW c \in Consumers, cons[c].pc # "run", cons'[c].pc = "run" PROVE Promise!Next
    <3>1. Claim(c)
      BY <2>3, NextRuns DEF Same
    <3>2. cons[c].job \in Jobs
      BY <3>1, ClaimEffect, <2>3
    <3>3. Promise!Grant(cons[c].job, c)
      BY <2>2, <2>3, <3>1, <3>2, ClaimGrants
    <3> QED BY <3>2, <3>3 DEF Promise!Next
  <2>4. ASSUME Next, NEW c \in Consumers, cons[c].pc = "run", cons'[c].pc # "run" PROVE Promise!Next
    <3>1. cons[c].job \in Jobs
      BY <2>4 DEF TypeOK, Workers
    <3> QED BY <2>2, <2>4, <3>1, EndReleases
  <2>5. CASE Next /\ \A c \in Consumers : cons[c].pc = "run" <=> cons'[c].pc = "run"
    BY <2>2, <2>5, OthersKeep
  <2> QED BY <2>1, <2>3, <2>4, <2>5
<1> QED BY TypeCorrect, LeasesHold, FinalsStay, StuckWorkersEnd, <1>1, <1>2, <1>3, <1>4, <1>5, PTL
        DEF Spec, KeepsPromise, Promise!Spec
=============================================================================
