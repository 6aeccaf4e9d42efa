--------------------------- MODULE ResponderReply ---------------------------
(***************************************************************************)
(* How the replies of responders to one incident reach the engine.         *)
(*                                                                         *)
(* A reply is a message of the conversation.  Most surfaces insert it and  *)
(* a resume job in one transaction; the classify worker inserts it first   *)
(* and then asks enqueueResume, which consults a gate in Redis.  At most   *)
(* one resume job of an incident is queued, so one run reads many replies: *)
(* the handler takes the replies after the incident's watermark, a batch   *)
(* at a time, interprets each one and checkpoints what is left to answer   *)
(* in its job row, hands over to a successor while replies are unread, and *)
(* answers the question that is left with one engine run.  The watermark   *)
(* moves with the answer; a cause that may not be promoted completes the   *)
(* run and leaves the watermark and the question where they were.          *)
(*                                                                         *)
(* A reply is identified by its stamp, its place in the conversation's     *)
(* order (created_at, id); 0 is no reply.  Handlers of one incident are    *)
(* serialized by the engine lock; the lease of a job row is held by a      *)
(* worker, and a row whose lease has lapsed is stale.                      *)
(***************************************************************************)
EXTENDS Integers, FiniteSets, FiniteSetsExt

CONSTANTS
    Replies,      \* replies, numbered in the order their transactions begin
    Jobs, Workers,
    None,         \* the null of the source
    BatchSize,    \* replies one attempt interprets (8)
    MaxFaults     \* how many outside events one behaviour has

\* What is not the ordinary course: a worker dies, stalls past its lease and lock,
\* or has a call rejected; the engine fails; an error is the last one the queue
\* allows; the provider limits a call; a signal changes under an answer; a classify
\* worker dies in enqueueResume; Redis or the insert fails there; an approval
\* decision.  Those that matter to a property are remembered.
Kinds == {"stall", "last", "limit", "drop"}

FaultRows == [left : Nat, kinds : SUBSET Kinds]

\* A checkpoint: the watermark it was made over, the last reply it covers, and
\* the question left to answer.
Stamps == 0..Cardinality(Replies)
Progress == [base : Stamps, after : Stamps, pend : Stamps]

ASSUME ReplyAssumptions ==
    /\ IsFiniteSet(Replies) /\ Replies = 1..Cardinality(Replies)
    /\ BatchSize \in Nat \ {0} /\ MaxFaults \in Nat
    /\ None \notin Jobs \union Workers \union Progress
    /\ "lapsing" \notin Workers \union {None}

VARIABLES
    at,        \* the stamp of each reply, 0 before it is inserted
    prod,      \* where a reply's producer is with it
    gate,      \* the incident's key in Redis
    row,       \* resume jobs, queued or under way
    kept,      \* checkpoints in the payloads of settled jobs
    wm,        \* incidents.lastResumeMessageId
    run,       \* the pending investigation run
    lock,      \* the engine lock
    worker,    \* the handler each worker runs
    faults,    \* outside events: how many are left, those of Kinds so far
    heard,     \* history: replies whose interpretation was checkpointed
    owed,      \* history: questions nothing has answered or replaced
    answered,  \* history: questions a run was published for
    refused    \* history: questions whose answer a changed signal refused

conversation == <<at, prod, gate>>
history == <<heard, owed, answered, refused>>
vars == <<at, prod, gate, row, kept, wm, run, lock, worker, faults, heard, owed,
          answered, refused>>

Posted == {at[m] : m \in Replies} \ {0}
Newest == IF Posted = {} THEN 0 ELSE Max(Posted)

\* humanMessagesSince
Since(after) == {s \in Posted : s > after}

\* Its oldest-first page.
Page(after) == {s \in Since(after) : Cardinality({t \in Since(after) : t < s}) < BatchSize}

Rows == [st : {"absent", "queued", "processing"}, owner : Workers \union {None},
         stale : BOOLEAN, prog : Progress \union {None}]

\* What processResponderActions finds a reply to ask for.
Intents == {"investigate", "changed", "handled", "kept", "limit"}

Handlers == [pc : {"free", "clear", "read", "look", "batch", "save", "advance", "engine",
                   "persist", "reject", "finish", "throw", "fatal"},
             job : Jobs \union {None}, base : Stamps, batch : SUBSET Stamps, pend : Stamps,
             newest : Stamps, look : Stamps, run : Nat, seen : Stamps,
             found : Intents \union {"none", "newer", "stale"}]

TypeOK ==
    /\ at \in [Replies -> Stamps]
    /\ prod \in [Replies -> {"new", "posted", "armed", "open", "done"}]
    /\ gate \in BOOLEAN /\ row \in [Jobs -> Rows] /\ kept \subseteq Progress /\ wm \in Stamps
    /\ run \in [id : Nat, job : Jobs \union {None}] /\ lock \in Workers \union {None, "lapsing"}
    /\ worker \in [Workers -> Handlers] /\ faults \in FaultRows
    /\ heard \subseteq Stamps /\ owed \subseteq Stamps /\ answered \subseteq Stamps
    /\ refused \subseteq Stamps

NoRow == [st |-> "absent", owner |-> None, stale |-> FALSE, prog |-> None]

Idle == [pc |-> "free", job |-> None, base |-> 0, batch |-> {}, pend |-> 0, newest |-> 0,
         look |-> 0, run |-> 0, seen |-> 0, found |-> "none"]

Init ==
    /\ at = [m \in Replies |-> 0] /\ prod = [m \in Replies |-> "new"] /\ gate = FALSE
    /\ row = [j \in Jobs |-> NoRow] /\ kept = {} /\ wm = 0
    /\ run = [id |-> 0, job |-> None] /\ lock = None
    /\ worker = [w \in Workers |-> Idle]
    /\ faults = [left |-> MaxFaults, kinds |-> {}]
    /\ heard = {} /\ owed = {} /\ answered = {} /\ refused = {}

Fault(kind) ==
    /\ faults.left > 0
    /\ faults' = [left |-> faults.left - 1, kinds |-> faults.kinds \union ({kind} \intersect Kinds)]

-----------------------------------------------------------------------------
(* The job table.                                                          *)

\* Rows that hold the incident's slot of jobs_resume_coalesce_idx.
Slots == {j \in Jobs : row[j].st = "queued"}

\* readResponderProgress: the furthest of the checkpoints made over a base.
Checkpoints == kept \union ({row[j].prog : j \in Jobs} \ {None})
Saved(base) == {p \in Checkpoints : p.base = base}
Furthest(base) == {p \in Saved(base) : \A q \in Saved(base) : q.after <= p.after}

\* Rows that may stand for a new job.
Unused == {j \in Jobs : row[j].st = "absent" /\ run.job # j /\ \A w \in Workers : worker[w].job # j}

\* A settled job leaves its payload.
Settle(j) ==
    /\ row' = [row EXCEPT ![j] = NoRow]
    /\ kept' = kept \union ({row[j].prog} \ {None})

\* insertResumeTx: a new row unless one is queued.  With no row to spare, the
\* bound Jobs, it waits.
InsertResume ==
    IF Slots # {} THEN UNCHANGED row
    ELSE /\ Unused # {}
         /\ row' = [row EXCEPT ![CHOOSE j \in Unused : TRUE] = [NoRow EXCEPT !.st = "queued"]]

Holds(w) == LET j == worker[w].job IN row[j].st = "processing" /\ row[j].owner = w

-----------------------------------------------------------------------------
(* Producers.                                                              *)

\* Mutant: created_at is now(), the start of the transaction.
StampAtStart(m) == m

\* Mutant: the stamp counts the transactions begun.
StampGap(m) == Newest + m

\* appendTxOnce stamps a reply under the incident's row lock, after all others.
Stamp(m) == Newest + 1

\* The dashboard's session and Slack's inbound events: one transaction.
Post(m) ==
    /\ prod[m] = "new"
    /\ at' = [at EXCEPT ![m] = Stamp(m)] /\ prod' = [prod EXCEPT ![m] = "done"] /\ InsertResume
    /\ UNCHANGED <<gate, kept, wm, run, lock, worker, faults, history>>

\* attachHuman's appendOnce.
Append(m) ==
    /\ prod[m] = "new"
    /\ at' = [at EXCEPT ![m] = Stamp(m)] /\ prod' = [prod EXCEPT ![m] = "posted"]
    /\ UNCHANGED <<gate, row, kept, wm, run, lock, worker, faults, history>>

\* enqueueResume's SET NX: coalesced, armed, or Redis is away.
Arm(m) ==
    /\ prod[m] = "posted"
    /\ \/ /\ gate /\ prod' = [prod EXCEPT ![m] = "done"] /\ UNCHANGED <<gate, faults>>
       \/ /\ ~gate /\ gate' = TRUE /\ prod' = [prod EXCEPT ![m] = "armed"] /\ UNCHANGED faults
       \/ /\ Fault("redis") /\ prod' = [prod EXCEPT ![m] = "open"] /\ UNCHANGED gate
    /\ UNCHANGED <<at, row, kept, wm, run, lock, worker, history>>

Enqueue(m) ==
    /\ prod[m] \in {"armed", "open"}
    /\ InsertResume /\ prod' = [prod EXCEPT ![m] = "done"]
    /\ UNCHANGED <<at, gate, kept, wm, run, lock, worker, faults, history>>

\* The insert throws; the classify job is redelivered.
EnqueueFails(m) ==
    /\ prod[m] \in {"armed", "open"} /\ Fault("insert")
    /\ gate' = (gate /\ prod[m] = "open") /\ prod' = [prod EXCEPT ![m] = "posted"]
    /\ UNCHANGED <<at, row, kept, wm, run, lock, worker, history>>

\* The classify worker dies inside enqueueResume; its job is redelivered.
Drop(m) ==
    /\ prod[m] \in {"armed", "open"} /\ Fault("drop")
    /\ prod' = [prod EXCEPT ![m] = "posted"]
    /\ UNCHANGED <<at, gate, row, kept, wm, run, lock, worker, history>>

\* The gate's time to live.
Expire ==
    /\ gate /\ gate' = FALSE
    /\ UNCHANGED <<at, prod, row, kept, wm, run, lock, worker, faults, history>>

\* applyApprovalDecision: a message of kind reply, which no handler reads.
Decide ==
    /\ Fault("decide") /\ InsertResume
    /\ UNCHANGED <<conversation, kept, wm, run, lock, worker, history>>

-----------------------------------------------------------------------------
(* The resume handler.                                                     *)

Step(w, h) == worker' = [worker EXCEPT ![w] = h]
Goto(w, pc) == Step(w, [worker[w] EXCEPT !.pc = pc])

\* The handler returns or throws, and its locals are gone.
Leave(w, pc) == Step(w, [Idle EXCEPT !.pc = pc, !.job = worker[w].job])

\* Claim, withEngineLock, and the incident is read again: two handlers of one
\* incident do not wait for each other, the second throws.  Free workers are
\* interchangeable, and the first of them takes the job.
Claim(w, j) ==
    /\ worker[w].pc = "free" /\ w = CHOOSE v \in Workers : worker[v].pc = "free"
    /\ row[j].st = "queued" \/ (row[j].st = "processing" /\ row[j].stale)
    /\ row' = [row EXCEPT ![j] = [@ EXCEPT !.st = "processing", !.owner = w, !.stale = FALSE]]
    /\ IF lock = None
       THEN lock' = w /\ Step(w, [Idle EXCEPT !.pc = "clear", !.job = j, !.base = wm])
       ELSE Step(w, [Idle EXCEPT !.pc = "throw", !.job = j]) /\ UNCHANGED lock
    /\ UNCHANGED <<conversation, kept, wm, run, faults, history>>

\* Mutant: the gate stays armed until it expires.
ClearNothing(w) ==
    /\ worker[w].pc = "clear" /\ Goto(w, "read")
    /\ UNCHANGED <<conversation, row, kept, wm, run, lock, faults, history>>

\* clearResumeGate, before anything is read.
Clear(w) ==
    /\ worker[w].pc = "clear" /\ Goto(w, "read") /\ gate' = FALSE
    /\ UNCHANGED <<at, prod, row, kept, wm, run, lock, faults, history>>

\* Progress, the batch after it, and the question it left open.
Read(w) ==
    LET h == worker[w]
        start == [base |-> h.base, after |-> h.base, pend |-> 0]
    IN  /\ h.pc = "read"
        /\ \E p \in IF Furthest(h.base) = {} THEN {start} ELSE Furthest(h.base) :
             LET batch == Page(p.after) IN
             IF batch = {} /\ p.pend = 0 THEN Leave(w, "finish")
             ELSE Step(w, [h EXCEPT !.pc = "look", !.batch = batch, !.pend = p.pend,
                                    !.newest = IF batch = {} THEN p.after ELSE Max(batch)])
        /\ UNCHANGED <<conversation, row, kept, wm, run, lock, faults, history>>

LookAhead(w) ==
    /\ worker[w].pc = "look"
    /\ Step(w, [worker[w] EXCEPT !.pc = "batch", !.look = Newest])
    /\ UNCHANGED <<conversation, row, kept, wm, run, lock, faults, history>>

\* What is left to answer once reply s was found to be such a request.
Pending(intent, s, pend) ==
    CASE intent = "investigate" -> s [] intent \in {"changed", "handled"} -> 0 [] OTHER -> pend

\* processResponderActions for the next reply.  What changes the incident (its
\* lifecycle, a recovery check, a capture) is refused when a reply is newer than
\* the look-ahead.
Act(w) ==
    LET h == worker[w]
    IN  /\ h.pc = "batch" /\ h.batch # {}
        /\ \E intent \in Intents :
             /\ IF intent = "changed" /\ Newest # h.look THEN Leave(w, "throw")
                ELSE Step(w, [h EXCEPT !.pc = "save", !.found = intent])
             /\ IF intent = "limit" THEN Fault("limit") ELSE UNCHANGED faults
        /\ UNCHANGED <<conversation, row, kept, wm, run, lock, history>>

\* saveResponderProgress, a transaction of its own, fenced by the lease.  A
\* question replaces the one before; a change that was applied, and an action
\* that was taken, answer it; a clarification and a refusal leave it.
Save(w) ==
    LET h == worker[w]
        s == Min(h.batch)
        pend == Pending(h.found, s, h.pend)
    IN  /\ h.pc = "save"
        /\ IF Holds(w)
           THEN /\ row' = [row EXCEPT ![h.job].prog = [base |-> h.base, after |-> s, pend |-> pend]]
                /\ heard' = heard \union {s}
                /\ owed' = CASE h.found = "investigate" -> {s}
                             [] h.found \in {"changed", "handled"} -> {} [] OTHER -> owed
                /\ IF h.found = "limit" THEN Leave(w, "fatal")
                   ELSE Step(w, [h EXCEPT !.pc = "batch", !.batch = @ \ {s}, !.pend = pend,
                                           !.found = "none"])
           ELSE Leave(w, "throw") /\ UNCHANGED <<row, heard, owed>>
        /\ UNCHANGED <<conversation, kept, wm, run, lock, faults, answered, refused>>

\* admitInvestigationRunTx: the job's own pending run, or a new one that
\* supersedes whatever is pending.
Admit(w) ==
    LET h == worker[w]
        id == IF run.job = h.job THEN run.id ELSE run.id + 1
    IN  /\ run' = [id |-> id, job |-> h.job]
        /\ Step(w, [h EXCEPT !.pc = "engine", !.run = id])

\* Replies are unread: a successor takes over.  Otherwise the question is
\* admitted, or nothing is left to answer.
Unread(w) ==
    LET h == worker[w]
    IN  /\ h.pc = "batch" /\ h.batch = {}
        /\ \/ /\ Since(h.newest) # {} /\ InsertResume /\ Leave(w, "finish") /\ UNCHANGED run
           \/ /\ Since(h.newest) = {} /\ h.pend = 0 /\ Goto(w, "advance") /\ UNCHANGED <<row, run>>
           \/ /\ Since(h.newest) = {} /\ h.pend # 0 /\ Admit(w) /\ UNCHANGED row
        /\ UNCHANGED <<conversation, kept, wm, lock, faults, history>>

\* advanceResumeWatermark in a transaction of its own, without a fence.
Advance(w) ==
    /\ worker[w].pc = "advance" /\ wm' = worker[w].newest /\ Leave(w, "finish")
    /\ UNCHANGED <<conversation, row, kept, run, lock, faults, history>>

\* completeInvestigationRunTx updates the run that is still pending.
Mine(w) == run.id = worker[w].run /\ run.job # None
Over == [run EXCEPT !.job = None]

\* runEngine: a failure is recorded with the run and thrown, for good when it is
\* the provider's limit; setup failures throw even if the run was superseded.  A
\* result is compared with the replies that arrived meanwhile.
Engine(w) ==
    /\ worker[w].pc = "engine"
    /\ \/ /\ run' = IF Mine(w) THEN Over ELSE run
          /\ \/ /\ Fault("engine")
                /\ \E pc \in {"throw", IF Mine(w) THEN "throw" ELSE "finish"} : Leave(w, pc)
             \/ Fault("limit") /\ Leave(w, IF Mine(w) THEN "fatal" ELSE "finish")
       \/ /\ Step(w, [worker[w] EXCEPT !.pc = "persist", !.seen = Newest])
          /\ UNCHANGED <<run, faults>>
    /\ UNCHANGED <<conversation, row, kept, wm, lock, history>>

\* Mutant: the answer leaves the watermark to the next attempt.
ConsumedNothing(w) == wm

\* resumeMessageId: the newest reply the answer took in.
Consumed(w) == worker[w].newest

\* persist.  An answer (a cause, a reply, a finding that is inconclusive or came
\* too late) is one transaction with its run and the watermark; a silent result
\* completes the run and moves the watermark afterwards.  The transaction that
\* promotes a cause rolls back when a reply is newer than the fence, the
\* watermark is there already, or a signal changed.
Persist(w) ==
    LET h == worker[w]
    IN  /\ h.pc = "persist"
        /\ \/ ~Mine(w) /\ Leave(w, "finish") /\ UNCHANGED <<wm, run, faults, owed, answered>>
           \/ /\ Mine(w) /\ run' = Over /\ owed' = owed \ {h.pend}
              /\ \/ Leave(w, "finish") /\ wm' = Consumed(w) /\ answered' = answered \union {h.pend}
                 \/ Goto(w, "advance") /\ UNCHANGED <<wm, answered>>
              /\ UNCHANGED faults
           \/ /\ Mine(w)
              /\ \/ /\ Newest # h.seen \/ wm = h.newest
                    /\ Step(w, [h EXCEPT !.pc = "reject", !.found = "newer"]) /\ UNCHANGED faults
                 \/ Fault("stale") /\ Step(w, [h EXCEPT !.pc = "reject", !.found = "stale"])
              /\ UNCHANGED <<wm, run, owed, answered>>
        /\ UNCHANGED <<conversation, row, kept, lock, heard, refused>>

\* persistRejectedPromotion: the run is completed as failed, with a finding that
\* says so and without resumeMessageId; the handler returns.
Reject(w) ==
    /\ worker[w].pc = "reject" /\ Leave(w, "finish")
    /\ run' = IF Mine(w) THEN Over ELSE run
    /\ refused' = IF Mine(w) /\ worker[w].found = "stale" THEN refused \union {worker[w].pend}
                  ELSE refused
    /\ UNCHANGED <<conversation, row, kept, wm, lock, faults, heard, owed, answered>>

\* The handler returned or threw: the lock is released, the queue settles the
\* row.  A row that cannot be queued again beside its successor stays as it is
\* until its lease lapses.
Finish(w) ==
    LET h == worker[w]
        requeued == [row[h.job] EXCEPT !.st = "queued", !.owner = None]
        stranded == [row[h.job] EXCEPT !.stale = TRUE, !.owner = None]
    IN  /\ h.pc \in {"finish", "throw", "fatal"}
        /\ Step(w, Idle) /\ lock' = IF lock = w THEN None ELSE lock
        /\ \/ ~Holds(w) /\ UNCHANGED <<row, kept, faults>>
           \/ Holds(w) /\ h.pc # "throw" /\ Settle(h.job) /\ UNCHANGED faults
           \/ Holds(w) /\ h.pc = "throw" /\ Settle(h.job) /\ Fault("last")
           \/ /\ Holds(w) /\ h.pc = "throw"
              /\ row' = [row EXCEPT ![h.job] = IF Slots = {} THEN requeued ELSE stranded]
              /\ UNCHANGED <<kept, faults>>
        /\ UNCHANGED <<conversation, wm, run, history>>

Handle(w) ==
    \/ Clear(w) \/ Read(w) \/ LookAhead(w) \/ Act(w) \/ Save(w) \/ Unread(w)
    \/ Advance(w) \/ Engine(w) \/ Persist(w) \/ Reject(w) \/ Finish(w)

-----------------------------------------------------------------------------
(* What happens to workers, and the reconciler.                            *)

Lapsed(j) == [row EXCEPT ![j].stale = TRUE]

Crash(w) ==
    /\ worker[w].pc # "free" /\ Fault("crash")
    /\ row' = IF Holds(w) THEN [Lapsed(worker[w].job) EXCEPT ![worker[w].job].owner = None] ELSE row
    /\ Step(w, Idle) /\ lock' = IF lock = w THEN "lapsing" ELSE lock
    /\ UNCHANGED <<conversation, kept, wm, run, history>>

\* Any call of the handler may reject, and what it did so far stands.
Error(w) ==
    /\ worker[w].pc \notin {"free", "finish", "throw", "fatal"} /\ Fault("error")
    /\ Leave(w, "throw")
    /\ UNCHANGED <<conversation, row, kept, wm, run, lock, history>>

\* A worker that goes on after its lease and its lock have lapsed.
Stall(w) ==
    /\ lock = w /\ Holds(w) /\ Fault("stall")
    /\ row' = Lapsed(worker[w].job) /\ lock' = None
    /\ UNCHANGED <<conversation, kept, wm, run, worker, history>>

LockExpires ==
    /\ lock = "lapsing" /\ lock' = None
    /\ UNCHANGED <<conversation, row, kept, wm, run, worker, faults, history>>

\* reconcile retires a stranded row for its queued successor.
Retire(j) ==
    /\ row[j].st = "processing" /\ row[j].stale /\ Slots # {}
    /\ Settle(j)
    /\ UNCHANGED <<conversation, wm, run, lock, worker, faults, history>>

Producer(m) == Append(m) \/ Arm(m) \/ Enqueue(m) \/ EnqueueFails(m) \/ Drop(m)
Claims == \E w \in Workers, j \in Jobs : Claim(w, j)

Next ==
    \/ \E m \in Replies : Post(m) \/ Producer(m)
    \/ Expire \/ Decide \/ Claims \/ LockExpires
    \/ \E w \in Workers : Handle(w) \/ Crash(w) \/ Error(w) \/ Stall(w)
    \/ \E j \in Jobs : Retire(j)

Spec == Init /\ [][Next]_vars

\* Processes that run go on, redelivered classify jobs included; claimable
\* rows are claimed, stranded ones retired, and the lock's time to live ends.
Fairness ==
    /\ \A w \in Workers : WF_vars(Handle(w))
    /\ \A m \in Replies : WF_vars(Arm(m) \/ Enqueue(m))
    /\ WF_vars(Claims) /\ WF_vars(LockExpires) /\ WF_vars(\E j \in Jobs : Retire(j))

LiveSpec == Spec /\ Fairness

-----------------------------------------------------------------------------
(* Properties.                                                             *)

\* Interpreted and, while leases hold, owed no answer.
Settled(s) == s \in heard /\ (s \in owed => "stall" \in faults.kinds)

\* The watermark passes only such replies: what lies at or before it is never
\* read again.
WatermarkIsEarned == \A s \in Posted : s <= wm => Settled(s)

\* While leases hold, a question is answered by one published run, whatever
\* crashes, retries and refused promotions lie between; and the answer goes to
\* the question that is still open, never past a newer one.
AnswerIsDue ==
    [][\A w \in Workers :
         /\ worker[w].pc = "persist" /\ worker'[w].pc = "finish" /\ run' # run
         /\ "stall" \notin faults.kinds
         => worker[w].pend \notin answered /\ owed \subseteq {worker[w].pend}]_vars

\* Every reply is interpreted and, if it asks for an investigation, answered,
\* replaced by a later one, or told that a changed signal refused the answer,
\* unless a job died for good or a classify worker died between arming the gate
\* and inserting its job.  An answer that a newer reply refused is not enough:
\* the job that reads that reply has to answer both.
Told(s) == s \in heard /\ (s \in owed => "stall" \in faults.kinds \/ s \in refused)
Excused == faults.kinds \intersect {"last", "limit", "drop"} # {}
EveryReplySettled == \A m \in Replies : at[m] # 0 ~> (Told(at[m]) \/ Excused)
=============================================================================
