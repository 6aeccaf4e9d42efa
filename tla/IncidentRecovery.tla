------------------------- MODULE IncidentRecovery -------------------------
(***************************************************************************)
(* Recovery verification: from the moment the alerts of an incident clear  *)
(* to the moment the platform resolves the incident by itself.             *)
(*                                                                         *)
(* Incidents linked by caused_by form response groups; the root of a group *)
(* owns the recovery of all its members.  When every signal of a group is  *)
(* resolved a producer inserts a recovery.verify job that carries the      *)
(* root's lifecycle version and the fence of the group's signals.  A       *)
(* triage worker reads the job, claims it, evaluates the provider's own    *)
(* clears, and otherwise begins a paid check, runs the engine outside any  *)
(* transaction and finalizes the verdict, provided version and fence of    *)
(* the payload it read still match.                                        *)
(*                                                                         *)
(* Every database transaction of this code holds the tenant's causal-graph *)
(* lock and the work locks of the group, so each one is a single step.     *)
(* Transactions are written as operators from database to database (db, d) *)
(* that compose in the order of the code.                                  *)
(***************************************************************************)
EXTENDS Integers, FiniteSets

CONSTANTS
    Incidents, Signals, Jobs, Workers,
    None,           \* the null of the source
    Home,           \* the incident every signal is first routed to
    Native,         \* signals of a connector; the others were read from Slack
    Late,           \* signals the provider has not opened yet
    Policies,       \* resolution policies an incident may start with
    MaxChecks,      \* recoveryMaxChecks
    MaxAttempts,    \* deliveries of one job before it is dead-lettered
    Budget          \* how often each kind of outside event may happen

Kinds == {"open", "clear", "refire", "certify", "move", "link", "merge",
          "ask", "approve", "fail", "crash"}

ASSUME RecoveryAssumptions ==
    /\ Home \in [Signals -> Incidents]
    /\ Native \subseteq Signals /\ Late \subseteq Native
    /\ Policies \subseteq {"verified_recovery", "provider_clear"}
    /\ MaxChecks \in Nat \ {0} /\ MaxAttempts \in Nat \ {0}
    /\ Budget \in [Kinds -> Nat]
    /\ None \notin Incidents \cup Signals \cup Jobs \cup Workers
    /\ "expiring" \notin Workers                             \* a lock nobody holds
    /\ None \notin {"verified_recovery", "provider_clear",    \* no basis, no verdict
                   "verifying", "monitoring", "verified"}

VARIABLES
    db,        \* the tables: inc, sig, job, app
    read,      \* the payload each worker has read of a job it does not hold yet
    worker,    \* the handler each worker process runs, if any
    lock,      \* the Redis engine lock of each incident
    budget,    \* outside events left
    fresh,     \* history: signals stayed clear since the worker's check began
    proof      \* history: signals stayed clear since the root was verified

vars == <<db, read, worker, lock, budget, fresh, proof>>

Active == {"open", "mitigated"}
Closed == {"resolved", "closed"}

Spend(kind) ==
    /\ budget[kind] > 0
    /\ budget' = [budget EXCEPT ![kind] = @ - 1]

-----------------------------------------------------------------------------
(* Response groups: the trees of caused_by edges.                          *)

Causes(d, i) ==
    { c \in Incidents : \A S \in SUBSET Incidents :
        (/\ i \in S
         /\ \A k \in S : d.inc[k].cause # None => d.inc[k].cause \in S) => c \in S }

\* Where the walk to the cause ends.  The code throws on a cycle, which the
\* edge writers refuse to create.
Root(d, i) ==
    IF d.inc[i].cause = None THEN i
    ELSE LET tops == { c \in Causes(d, i) : d.inc[c].cause = None }
         IN  IF tops = {} THEN i ELSE CHOOSE c \in tops : TRUE

Group(d, i) ==
    LET root == Root(d, i) IN { k \in Incidents : Root(d, k) = root }

GroupSignals(d, i) ==
    LET members == Group(d, i)
    IN  { s \in Signals : d.sig[s].state # "absent" /\ d.sig[s].owner \in members }

SignalFence(d, i) ==
    { <<s, d.sig[s].ver, d.sig[s].state>> : s \in GroupSignals(d, i) }

AllResolved(d, i) ==
    /\ GroupSignals(d, i) # {}
    /\ \A s \in GroupSignals(d, i) : d.sig[s].state = "resolved"

OwnSignals(d, i) == { s \in Signals : d.sig[s].state # "absent" /\ d.sig[s].owner = i }

\* Mutant: only the approvals of the root count.
PendingApprovalOwn(d, i) == d.app[i]

PendingApproval(d, i) == \E k \in Group(d, i) : d.app[k]

-----------------------------------------------------------------------------
(* The queue, as the producers and the recovery handler use it.            *)

NoJob ==
    [st |-> "absent", inc |-> None, ver |-> 0, fence |-> {}, att |-> 0,
     later |-> FALSE, saved |-> FALSE, tries |-> 0, runs |-> 0, open |-> FALSE,
     denied |-> FALSE, told |-> FALSE]

Unsettled(d, i) == { j \in Jobs : d.job[j].inc = i /\ d.job[j].st \in {"queued", "processing"} }

\* Mutant: a new check coalesces with the one under way.
QueuedOrRunning(d, i) == Unsettled(d, i)

Queued(d, i)    == { j \in Jobs : d.job[j].inc = i /\ d.job[j].st = "queued" }

\* Mutant: admission looks at the job's own runs only.
PendingRunOwn(d, i) == FALSE

PendingRun(d, i) == \E j \in Jobs : d.job[j].inc = i /\ d.job[j].open

\* Rows a new job may take: unused, or finished and referenced by nothing.
FreeJobs(d) ==
    { j \in Jobs : /\ d.job[j].st \in {"absent", "done", "dead"}
                   /\ ~d.job[j].open
                   /\ \A i \in Incidents : d.inc[i].run # None => d.inc[i].run[1] # j
                   /\ \A w \in Workers : worker[w].job # j /\ read[w].job # j }

-----------------------------------------------------------------------------
(* Transactions shared by several operations.                              *)

NoVerdict(row) == [row EXCEPT !.rec = None, !.run = None, !.att = 0]

\* A version bump the conversation does not show as a move to an active status.
Bumped(row) == [row EXCEPT !.ver = @ + 1, !.since = row.ver + 1]

\* clearRecoveryTx: drop the verdict and the queued check, give the saved
\* progress back, keep the owner of a check that did not save it.
ClearRecovery(d, i) ==
    LET row  == d.inc[i]
        back == row.gathering /\ row.run # None /\ d.job[row.run[1]].saved
    IN  [d EXCEPT
          !.inc[i] = [NoVerdict(row) EXCEPT
              !.gathering = row.gathering /\ ~back,
              !.basis = None,
              !.run = IF row.gathering /\ ~back THEN row.run ELSE None],
          !.job = [j \in Jobs |-> IF j \in Queued(d, i)
                                  THEN [d.job[j] EXCEPT !.st = "done"] ELSE d.job[j]]]

\* Mutant: a signal invalidates its own incident, not its group.
ClearGroupOwn(d, i) == ClearRecovery(d, i)

\* Mutant: the members keep the joint basis.
ClearGroupRoot(d, i) == ClearRecovery(d, Root(d, i))

\* The same for a whole group, whose joint resolution basis falls with it.
ClearGroup(d, i) ==
    ClearRecovery(
      [d EXCEPT !.inc = [k \in Incidents |->
          IF k \in Group(d, i) THEN [d.inc[k] EXCEPT !.basis = None] ELSE d.inc[k]]],
      Root(d, i))

\* Mutant: the last permitted check is refused while the cycle still runs.
RefusedEarly(row) == row.policy # "provider_clear" /\ row.att + 1 >= MaxChecks

\* A model-backed check is refused after a final verdict or a spent budget.
Spent(row)   == row.rec # "verifying" /\ row.att # 0 /\ row.att >= MaxChecks
Refused(row) == /\ row.policy # "provider_clear"
                /\ row.rec = "not_verified" \/ Spent(row)

\* insertRecoveryTx: one queued check per incident, a later observation
\* refreshes its fences and makes it due.
InsertRecovery(d, i, ver, fence, att, later) ==
    LET row   == d.inc[i]
        saved == ~row.gathering \/ \E j \in Unsettled(d, i) : d.job[j].saved
        given == IF att # 0 THEN att ELSE IF row.rec = "verifying" THEN row.att ELSE 0
        new   == CHOOSE j \in FreeJobs(d) : TRUE
    IN  IF Refused(row) THEN d
        ELSE IF Queued(d, i) # {}
        THEN [d EXCEPT !.job = [j \in Jobs |->
               IF j \in Queued(d, i)
               THEN [d.job[j] EXCEPT !.ver = ver, !.fence = fence, !.later = later,
                                     !.att = IF given # 0 THEN given ELSE @,
                                     !.saved = @ \/ saved]
               ELSE d.job[j]]]
        ELSE [d EXCEPT !.job[new] =
               [NoJob EXCEPT !.st = "queued", !.inc = i, !.ver = ver, !.fence = fence,
                             !.att = given, !.later = later, !.saved = saved]]

\* prepareResponseGroupRecoveryTx followed by the insert all its callers make.
Recoverable(d, i) == AllResolved(d, i) /\ d.inc[Root(d, i)].status \in Active
StartRecovery(d, i) ==
    IF Recoverable(d, i)
    THEN InsertRecovery(d, Root(d, i), d.inc[Root(d, i)].ver, SignalFence(d, i), 0, FALSE)
    ELSE d

\* Mutant: the progress is not given back.
RestoreNothing(d, i, saved, run) == d

\* restoreRecoveryVerificationTx: only while that run owns the progress.
Restore(d, i, saved, run) ==
    IF saved /\ d.inc[i].gathering /\ d.inc[i].run = run
    THEN [d EXCEPT !.inc[i] = [NoVerdict(@) EXCEPT !.gathering = FALSE]]
    ELSE d

\* completeInvestigationRunTx: a run completes once.
RunOpen(d, run)  == d.job[run[1]].open /\ d.job[run[1]].runs = run[2]
Complete(d, run) == IF RunOpen(d, run) THEN [d EXCEPT !.job[run[1]].open = FALSE] ELSE d

-----------------------------------------------------------------------------
(* Lifecycle (incident-repo/lifecycle.ts).                                 *)

AllowedTransitions ==
    [open |-> {"mitigated", "resolved", "closed"}, mitigated |-> {"open", "resolved", "closed"},
     resolved |-> {"open", "closed"}, closed |-> {"open"}]

CanMove(d, i, to) ==
    /\ d.inc[i].merged = None
    /\ ~d.inc[i].archived
    /\ to \in AllowedTransitions[d.inc[i].status]

\* transitionIncidentTx with the lifecycle message its callers append.
Transition(d, i, to) ==
    LET row   == d.inc[i]
        moved == [row EXCEPT !.status = to, !.ver = @ + 1,
                    !.since = IF to \in Active THEN @ ELSE row.ver + 1,
                    !.basis = CASE to \in Active -> None
                                [] to = "resolved" -> "operator"
                                [] OTHER -> @]
        d1 == [d EXCEPT !.inc[i] = moved]
        d2 == ClearGroup(d1, i)
        d3 == ClearRecovery(d2, i)
    IN  IF ~CanMove(d, i, to) THEN d
        ELSE IF row.status \in Active \/ to # "open" THEN d1
        ELSE IF Root(d, i) = i THEN d2
        ELSE [d3 EXCEPT !.inc[Root(d, i)] = Bumped(@)]

\* appendResolvedResponseGroupTx: the root, then every active member.
ResolveGroup(d, root, basis) ==
    IF ~CanMove(d, root, "resolved") THEN d
    ELSE LET hit == { k \in Group(d, root) : k = root \/ d.inc[k].status \in Active }
             won == { k \in hit : CanMove(d, k, "resolved") }
         IN  [d EXCEPT !.inc = [k \in Incidents |->
               IF k \notin won THEN d.inc[k]
               ELSE [Bumped(d.inc[k]) EXCEPT !.status = "resolved", !.basis = basis,
                        !.rec = IF basis = "provider_clear" THEN None ELSE @]]]

-----------------------------------------------------------------------------
(* Resolution from the provider's own clears (hub/response-group.ts).      *)

Provider(d, i) == d.inc[i].policy = "provider_clear"

ActiveMembers(d, i) == { k \in Group(d, i) : d.inc[k].status \in Active }

\* The root may not be resolved any more, or was never the root.
Moot(d, i) == \/ Root(d, i) # i
              \/ d.inc[i].archived
              \/ d.inc[i].status \notin Active

ProviderHandles(d, i) == Moot(d, i) \/ \A k \in ActiveMembers(d, i) : Provider(d, k)

\* A clear counts while the connector generation that reported it is current.
Proven(d, i) ==
    /\ GroupSignals(d, i) # {}
    /\ \A s \in GroupSignals(d, i) : d.sig[s].prov = "provider"
    /\ \A k \in ActiveMembers(d, i) : OwnSignals(d, k) # {}

Stale(d, i, ver, fence) == d.inc[i].ver # ver \/ SignalFence(d, i) # fence

Uncleared(d, i) == \E s \in GroupSignals(d, i) : d.sig[s].state # "resolved"

\* resolveProviderClearTx once its fences held.
ProviderClear(d, i) ==
    IF Moot(d, i) \/ ~ProviderHandles(d, i) \/ Uncleared(d, i) THEN d
    ELSE IF PendingApproval(d, i) \/ ~Proven(d, i)
    THEN [d EXCEPT !.inc[i].rec = "not_verified", !.inc[i].basis = None]
    ELSE ResolveGroup(d, i, "provider_clear")

-----------------------------------------------------------------------------
(* The outside world: providers, responders, investigations.  Each action  *)
(* is one transaction; a transaction that may insert a job needs a row.    *)

Roomy == FreeJobs(db) # {}

Outside(kind, d) ==
    /\ Spend(kind)
    /\ db' = d
    /\ UNCHANGED <<worker, lock>>

WithSignal(d, s, state, prov) ==
    [d EXCEPT !.sig[s].state = state, !.sig[s].prov = prov, !.sig[s].ver = @ + 1]

\* A connector opens a new episode of the incident.  It never opens a
\* resolved one again: that is a new episode.
SignalOpens(s) ==
    /\ s \in Native
    /\ db.sig[s].state # "resolved"
    /\ Outside("open", ClearGroup(WithSignal(db, s, "active", None), db.sig[s].owner))

\* A connector clears a signal, or reports a clear again under its current
\* generation; the last clear of the incident starts recovery.
SignalClears(s) ==
    LET i == db.sig[s].owner
        d == WithSignal(db, s, "resolved", "provider")
    IN  /\ s \in Native /\ db.sig[s].state # "absent" /\ Roomy
        /\ Outside("clear", IF \A o \in OwnSignals(d, i) : d.sig[o].state = "resolved"
                            THEN StartRecovery(d, i) ELSE d)

\* A connector is configured anew: its earlier clears no longer certify.
ConnectorChanges ==
    /\ \E s \in Signals : db.sig[s].prov = "provider"
    /\ Outside("certify", [db EXCEPT !.sig = [s \in Signals |->
        IF db.sig[s].prov = "provider" THEN [db.sig[s] EXCEPT !.prov = "outdated"] ELSE db.sig[s]]])

\* A responder corrects a signal to resolved.
CorrectSignal(s) ==
    LET i == db.sig[s].owner
    IN  /\ db.sig[s].state # "absent" /\ db.sig[s].prov # "operator"
        /\ ~db.inc[i].archived /\ Roomy
        /\ Outside("clear", StartRecovery(WithSignal(db, s, "resolved", "operator"), i))

\* The Slack message of a reported recovery is edited to firing again.
ReportedRefires(s) ==
    LET i == db.sig[s].owner
    IN  /\ s \notin Native /\ db.sig[s].prov = "report"
        /\ db.inc[i].status \in Active /\ ~db.inc[i].archived
        /\ Outside("refire", ClearGroup(WithSignal(db, s, "active", None), i))

\* Slack reports cover every active signal of the incident, or a responder
\* asks for verification, which may restart a finished one.
Report(d, i) ==
    [d EXCEPT !.sig = [s \in Signals |->
        IF s \in OwnSignals(d, i) /\ d.sig[s].state = "active"
        THEN [d.sig[s] EXCEPT !.state = "resolved", !.prov = "report", !.ver = @ + 1]
        ELSE d.sig[s]]]

ReportRecovery(i, asked) ==
    LET firing  == { s \in OwnSignals(db, i) : db.sig[s].state = "active" }
        d       == Report(db, i)
        root    == Root(d, i)
        restart == asked /\ Recoverable(d, i) /\ Refused(d.inc[root])
    IN  /\ db.inc[i].status \in Active /\ ~db.inc[i].archived
        /\ firing \cap Native = {} /\ Roomy
        /\ firing # {} \/ restart
        /\ Outside("ask", StartRecovery(IF restart THEN ClearRecovery(d, root) ELSE d, i))

\* An investigation a responder asked for fails the runs left pending.
SupersedeRuns(i) ==
    /\ lock[i] = None /\ PendingRun(db, i)
    /\ Outside("ask", [db EXCEPT !.job = [j \in Jobs |->
         IF db.job[j].inc = i THEN [db.job[j] EXCEPT !.open = FALSE] ELSE db.job[j]]])

\* A responder, or the idle sweep, moves the lifecycle.
Operate(i, to) == CanMove(db, i, to) /\ Outside("move", Transition(db, i, to))

\* A responder changes the resolution policy.
ChangePolicy(i, policy) ==
    LET root == Root(db, i)
        own  == ClearRecovery(db, i)
        both == IF root = i THEN own ELSE ClearRecovery(own, root)
        d1   == [both EXCEPT !.inc[i] = [Bumped(@) EXCEPT !.policy = policy, !.basis = None]]
        d2   == IF root = i THEN d1
                ELSE [d1 EXCEPT !.inc[root] = [Bumped(@) EXCEPT !.basis = None]]
    IN  /\ db.inc[i].status \in Active /\ ~db.inc[i].archived /\ db.inc[i].merged = None
        /\ Roomy
        /\ Outside("move", StartRecovery(d2, i))

\* setIncidentArchivedTx: only a closed incident nothing works on.
Archive(i, allowActive) ==
    /\ db.inc[i].status \in Closed /\ ~db.inc[i].archived /\ ~db.inc[i].gathering
    /\ Unsettled(db, i) = {} /\ ~db.app[i]
    /\ \/ \A s \in OwnSignals(db, i) : db.sig[s].state = "resolved"
       \/ db.inc[i].status = "closed" /\ allowActive
    /\ Outside("move", [db EXCEPT !.inc = [k \in Incidents |->
          IF k = i THEN [db.inc[k] EXCEPT !.archived = TRUE, !.cause = None, !.merged = None]
          ELSE IF db.inc[k].cause = i \/ db.inc[k].merged = i
          THEN [db.inc[k] EXCEPT !.cause = IF @ = i THEN None ELSE @,
                                 !.merged = IF @ = i THEN None ELSE @]
          ELSE db.inc[k]]])

\* recordIncidentRelationTx when it changes membership: every member of the
\* groups it touches loses its recovery, and its version moves.
Refence(d, members) ==
    LET signalled == \E s \in Signals : d.sig[s].state # "absent" /\ d.sig[s].owner \in members
        hit == { k \in members : signalled \/ d.inc[k].rec # None \/ d.inc[k].basis # None }
        back(row) == row.gathering /\ row.run # None /\ d.job[row.run[1]].saved
    IN  [d EXCEPT
          !.inc = [k \in Incidents |->
             IF k \notin hit THEN d.inc[k]
             ELSE [Bumped(NoVerdict(d.inc[k])) EXCEPT
                     !.gathering = @ /\ ~back(d.inc[k]), !.basis = None,
                     !.run = IF d.inc[k].gathering /\ ~back(d.inc[k])
                             THEN d.inc[k].run ELSE None]],
          !.job = [j \in Jobs |-> IF d.job[j].inc \in hit /\ d.job[j].st = "queued"
                                  THEN [d.job[j] EXCEPT !.st = "done"] ELSE d.job[j]]]

\* A conclusive investigation of one of them, under its engine lock, finds
\* that p caused c: the groups join, both
\* former roots and the new one are invalidated, a closed root is reopened
\* and the recovery of the joined group starts if it is clear.
LinkCause(c, p) ==
    LET linked == [Refence(db, Group(db, c) \cup Group(db, p)) EXCEPT !.inc[c].cause = p]
        root   == Root(linked, c)
        d1     == ClearRecovery(ClearRecovery(ClearRecovery(linked, Root(db, c)),
                                              Root(db, p)), root)
        d2     == IF d1.inc[root].status \in Closed THEN Transition(d1, root, "open") ELSE d1
    IN  /\ c # p /\ db.inc[c].cause = None /\ c \notin Causes(db, p)
        /\ ~db.inc[c].archived /\ ~db.inc[p].archived
        /\ db.inc[c].merged = None /\ db.inc[p].merged = None
        /\ lock[c] = None \/ lock[p] = None
        /\ Roomy
        /\ Outside("link", StartRecovery(d2, c))

\* A responder records the two as unrelated: both sides lose their recovery
\* and each starts its own if it is clear.
Unlink(c) ==
    LET parted == [Refence(db, Group(db, c)) EXCEPT !.inc[c].cause = None]
    IN  /\ db.inc[c].cause # None
        /\ ~db.inc[c].archived /\ ~db.inc[db.inc[c].cause].archived
        /\ Cardinality(FreeJobs(db)) > 1
        /\ Outside("move", StartRecovery(StartRecovery(parted, c), db.inc[c].cause))

\* Nothing works on the incident and no approval of its own is open.
Untouched(i) == ~db.inc[i].archived /\ Unsettled(db, i) = {} /\ ~db.app[i]

\* mergeIncidents: the source's signals move to the target, which keeps its
\* own verdict; the source is closed.
Merge(source, target) ==
    /\ source # target
    /\ \A i \in {source, target} :
         /\ Untouched(i) /\ db.inc[i].merged = None /\ ~db.inc[i].gathering
    /\ \A k \in Incidents : db.inc[k].merged # source /\ db.inc[k].cause # source
    /\ db.inc[source].cause = None
    /\ db.inc[target].status \in Active
    /\ Outside("merge", [db EXCEPT
          !.sig = [s \in Signals |-> IF db.sig[s].owner = source
                                     THEN [db.sig[s] EXCEPT !.owner = target] ELSE db.sig[s]],
          !.inc[source] = [Bumped(@) EXCEPT !.status = "closed", !.basis = None,
                             !.merged = target, !.was = db.inc[source].status,
                             !.moved = OwnSignals(db, source)]])

\* splitMergedIncident: the signals of the merge move back and the source
\* takes its former status, and keeps the verdict it had.
Split(source) ==
    LET row == db.inc[source]
    IN  /\ row.merged # None
        /\ \A i \in {source, row.merged} : Untouched(i)
        /\ Outside("merge", [db EXCEPT
              !.sig = [s \in Signals |-> IF s \in row.moved /\ db.sig[s].owner = row.merged
                                         THEN [db.sig[s] EXCEPT !.owner = source] ELSE db.sig[s]],
              !.inc[source] = [Bumped(@) EXCEPT
                  !.status = row.was,
                  !.since = IF row.was \in Active THEN row.since ELSE row.ver + 1,
                  !.basis = None, !.merged = None, !.was = "open", !.moved = {}]])

\* The agent asks for an approval, and a responder decides it.  The decision
\* completes a recovery that was only waiting for it; while a connector write
\* holds the generations a recovery job evaluates the group later.
AskApproval(i) ==
    /\ ~db.app[i] /\ db.inc[i].status \in Active /\ ~db.inc[i].archived
    /\ Outside("approve", [db EXCEPT !.app[i] = TRUE])

AfterApproval(d, i) ==
    LET root == Root(d, i)
    IN  IF ProviderHandles(d, root) THEN ProviderClear(d, root)
        ELSE IF d.inc[root].rec = "verified" /\ ~PendingApproval(d, root) /\ AllResolved(d, root)
        THEN ResolveGroup(d, root, "verified_recovery") ELSE d

DecideApproval(i, contended) ==
    LET d == [db EXCEPT !.app[i] = FALSE]
    IN  /\ db.app[i] /\ Roomy
        /\ contended => \A k \in ActiveMembers(db, i) : Provider(db, k)
        /\ db' = IF contended THEN StartRecovery(d, i) ELSE AfterApproval(d, i)
        /\ UNCHANGED <<worker, lock, budget>>

-----------------------------------------------------------------------------
(* The worker: RecoveryHandler.handle inside the queue's claim.            *)

Idle == [pc |-> "idle", job |-> None, run |-> None, ver |-> 0, fence |-> {},
         att |-> 0, saved |-> FALSE, lease |-> FALSE]

On(w) == db.job[worker[w].job].inc

\* Only the holder of the lease writes the row: the (processing, attempts) fence.
Leased(j) == \E w \in Workers : worker[w].job = j /\ worker[w].lease

Go(w, pc) == worker' = [worker EXCEPT ![w].pc = pc]

\* A scheduled recheck comes due.
Due(j) ==
    /\ db.job[j].st = "queued" /\ db.job[j].later
    /\ db' = [db EXCEPT !.job[j].later = FALSE]
    /\ UNCHANGED <<worker, lock, budget>>

\* Mutant: a stranded row is left to nobody.
ClaimableQueued(j) == db.job[j].st = "queued" /\ ~db.job[j].later

\* Due, or stranded by a worker that died or lost its lease.
Claimable(j) ==
    \/ db.job[j].st = "queued" /\ ~db.job[j].later
    \/ db.job[j].st = "processing" /\ ~Leased(j)

NoRead == [job |-> None, ver |-> 0, fence |-> {}, att |-> 0]

\* claimForDelivery SELECTs the delivered row; one that is settled is acked.
Fetch(w, j) ==
    LET row == db.job[j]
    IN  /\ worker[w].pc = "idle" /\ read[w] = NoRead
        /\ row.st \in {"queued", "processing"}
        /\ read' = [read EXCEPT ![w] =
                      [job |-> j, ver |-> row.ver, fence |-> row.fence, att |-> row.att]]
        /\ UNCHANGED <<db, worker, lock, budget>>

\* Claim the row and the engine lock, then look for an outcome an earlier
\* delivery already committed.  The UPDATE returns the attempts only: the
\* handler gets the payload of the SELECT, whatever was written to it since.
Claim(w, j) ==
    LET row  == db.job[j]
        seen == read[w]
    IN  /\ worker[w].pc = "idle" /\ seen.job = j
        /\ Claimable(j)
        /\ lock[row.inc] = None
        /\ db' = [db EXCEPT !.job[j].st = "processing", !.job[j].tries = @ + 1]
        /\ read' = [read EXCEPT ![w] = NoRead]
        /\ worker' = [worker EXCEPT ![w] =
             [Idle EXCEPT !.pc = IF row.told THEN "returning" ELSE "claimed",
                          !.job = j, !.ver = seen.ver, !.fence = seen.fence,
                          !.att = IF seen.att = 0 THEN 1
                                  ELSE IF seen.att > MaxChecks THEN MaxChecks ELSE seen.att,
                          !.lease = TRUE]]
        /\ lock' = [lock EXCEPT ![row.inc] = w]
        /\ UNCHANGED budget

\* The UPDATE matches nothing, and the entry is acked; or the engine lock is
\* busy, and the row is put back.
Lose(w) ==
    LET j == read[w].job
    IN  /\ j # None
        /\ ~Claimable(j) \/ lock[db.job[j].inc] # None
        /\ read' = [read EXCEPT ![w] = NoRead]
        /\ UNCHANGED <<db, worker, lock, budget>>

\* The reconciler retires a stranded row for its queued successor.
Retire(j) ==
    /\ db.job[j].st = "processing" /\ ~Leased(j) /\ Queued(db, db.job[j].inc) # {}
    /\ db' = [db EXCEPT !.job[j].st = "done"]
    /\ UNCHANGED <<worker, lock, budget>>

ProviderCheck(w) ==
    LET i == On(w)
    IN  /\ worker[w].pc = "claimed"
        /\ db' = IF ProviderHandles(db, i) /\ Stale(db, i, worker[w].ver, worker[w].fence)
                 THEN db ELSE ProviderClear(db, i)
        /\ Go(w, IF ProviderHandles(db, i) THEN "returning" ELSE "cleared")
        /\ UNCHANGED <<lock, budget>>

\* A connector write holds the generation rows: redeliver.
ProviderContended(w) ==
    /\ worker[w].pc = "claimed"
    /\ \A k \in ActiveMembers(db, On(w)) : Provider(db, k)
    /\ Spend("fail")
    /\ Go(w, "throwing")
    /\ UNCHANGED <<db, lock>>

\* beginRecoveryInvestigation: validate, admit the paid run, mark the
\* incident verifying.  The tenant's automatic budget may be exhausted.
Candidate(d, i) == Root(d, i) = i /\ d.inc[i].rec \notin {"verified", "not_verified"}
                                  /\ ~Spent(d.inc[i])

Valid(d, i, ver, fence) ==
    /\ ~Stale(d, i, ver, fence)
    /\ d.inc[i].status \in Active
    /\ AllResolved(d, i)

Begin(w, exhausted) ==
    LET i     == On(w)
        j     == worker[w].job
        row   == db.inc[i]
        saved == db.job[j].saved \/ ~row.gathering
        d     == [db EXCEPT !.job[j].saved = saved]
        reuse == db.job[j].open \/ db.job[j].denied
        admit == IF reuse THEN ~db.job[j].denied ELSE ~exhausted /\ ~PendingRun(db, i)
        run   == <<j, IF db.job[j].open THEN db.job[j].runs ELSE db.job[j].runs + 1>>
    IN  /\ worker[w].pc = "cleared"
        /\ IF ~Candidate(db, i)
           THEN db' = db /\ Go(w, "returning")
           ELSE IF ~Valid(db, i, worker[w].ver, worker[w].fence)
           THEN /\ db' = [d EXCEPT !.inc[i] = IF row.gathering /\ saved
                            THEN [NoVerdict(@) EXCEPT !.gathering = FALSE] ELSE @]
                /\ Go(w, "returning")
           ELSE IF ~admit
           THEN /\ db' = [d EXCEPT !.job[j].denied = TRUE,
                                   !.inc[i] = [@ EXCEPT !.rec = "not_verified", !.run = None]]
                /\ Go(w, "returning")
           ELSE /\ db' = [d EXCEPT
                            !.job[j] = [@ EXCEPT !.open = TRUE, !.runs = run[2]],
                            !.inc[i] = [@ EXCEPT !.gathering = TRUE, !.rec = "verifying",
                                                 !.run = run, !.att = worker[w].att]]
                /\ worker' = [worker EXCEPT ![w].pc = "checking", ![w].run = run,
                                            ![w].saved = saved]
        /\ IF exhausted THEN Spend("fail") ELSE UNCHANGED budget
        /\ UNCHANGED lock

\* finalizeRecovery: the verdict counts only while the run owns the recovery
\* and version and fence are the ones the check started from.

\* Mutant: the last check may ask for another.
VerdictUncapped(w, outcome) == outcome

Verdict(w, outcome) ==
    IF outcome = "recheck" /\ worker[w].att >= MaxChecks THEN "needs_human" ELSE outcome

\* Mutant: a clear group is enough, whoever owns the recovery by now.
AcceptsAnyRun(w) ==
    /\ db.inc[On(w)].status \in Active
    /\ AllResolved(db, On(w))

Accepts(w) ==
    LET i == On(w)
    IN  /\ db.inc[i].run = worker[w].run
        /\ db.inc[i].status \in Active
        /\ ~Stale(db, i, worker[w].ver, worker[w].fence)

\* Only moves between active statuses happened since: check again under the
\* version they led to.
Retryable(w) ==
    LET row == db.inc[On(w)]
    IN  /\ row.run = worker[w].run /\ row.status \in Active
        /\ row.ver > worker[w].ver /\ row.since <= worker[w].ver
        /\ SignalFence(db, On(w)) = worker[w].fence

Finalize(w, outcome) ==
    LET i    == On(w)
        me   == worker[w]
        back == Restore(db, i, me.saved, me.run)
        got  == Verdict(w, outcome)
        d1   == Complete(db, me.run)
        d2   == IF got = "recheck"
                THEN InsertRecovery(d1, i, me.ver, me.fence, me.att + 1, TRUE) ELSE d1
        d3   == [d2 EXCEPT
                  !.job[me.job].told = TRUE,
                  !.inc[i] = [@ EXCEPT !.gathering = FALSE, !.run = None, !.att = me.att,
                                !.rec = CASE got = "recovered" -> "verified"
                                          [] got = "recheck" -> "monitoring"
                                          [] OTHER -> "not_verified"]]
        d4   == IF got = "recovered" /\ AllResolved(d3, i) /\ ~PendingApproval(d3, i)
                THEN ResolveGroup(d3, i, "verified_recovery") ELSE d3
    IN  /\ me.pc = "checking"
        /\ got = "recheck" => Roomy
        /\ IF ~Accepts(w)
           THEN IF Retryable(w)
                THEN db' = [back EXCEPT !.job[me.job].ver = db.inc[i].ver] /\ Go(w, "broken")
                ELSE db' = Complete(back, me.run) /\ Go(w, "returning")
           ELSE /\ db' = IF RunOpen(db, me.run) THEN d4 ELSE back
                /\ Go(w, "returning")
        /\ UNCHANGED <<lock, budget>>

\* The engine gave no verdict: complete the run, restore the progress.
NonPromote(w) ==
    LET me == worker[w]
    IN  /\ me.pc = "checking"
        /\ db' = IF RunOpen(db, me.run)
                 THEN [Restore(Complete(db, me.run), On(w), me.saved, me.run)
                         EXCEPT !.job[me.job].told = TRUE]
                 ELSE db
        /\ Go(w, "returning")
        /\ UNCHANGED <<lock, budget>>

\* The engine threw: record the failure with the restored progress, rethrow.
EngineFails(w) ==
    LET me == worker[w]
    IN  /\ me.pc = "checking"
        /\ Spend("fail")
        /\ db' = Restore(Complete(db, me.run), On(w), me.saved, me.run)
        /\ Go(w, IF RunOpen(db, me.run) THEN "broken" ELSE "returning")
        /\ UNCHANGED lock

\* Something before the engine threw: fail the run; the restore is a
\* transaction of its own.  An error while finalizing leaves the run open.
SetupFails(w, finalizing) ==
    /\ worker[w].pc = "checking"
    /\ Spend("fail")
    /\ db' = IF finalizing THEN db ELSE Complete(db, worker[w].run)
    /\ Go(w, "broken")
    /\ UNCHANGED lock

RestoreStep(w) ==
    /\ worker[w].pc = "broken"
    /\ db' = Restore(db, On(w), worker[w].saved, worker[w].run)
    /\ Go(w, "throwing")
    /\ UNCHANGED <<lock, budget>>

Leave(w) ==
    /\ worker' = [worker EXCEPT ![w] = Idle]
    /\ lock' = [i \in Incidents |-> IF lock[i] = w THEN None ELSE lock[i]]

\* The handler returned: the row is done.
Return(w) ==
    /\ worker[w].pc = "returning"
    /\ db' = IF worker[w].lease THEN [db EXCEPT !.job[worker[w].job].st = "done"] ELSE db
    /\ Leave(w)
    /\ UNCHANGED budget

\* The handler threw: dead at the cap, superseded by a queued successor, or
\* queued again.
Throw(w) ==
    LET j == worker[w].job
    IN  /\ worker[w].pc = "throwing"
        /\ db' = IF ~worker[w].lease THEN db
                 ELSE [db EXCEPT !.job[j].st =
                         IF db.job[j].tries >= MaxAttempts THEN "dead"
                         ELSE IF Queued(db, On(w)) # {} THEN "done" ELSE "queued"]
        /\ Leave(w)
        /\ UNCHANGED budget

\* The process dies; the lock stays until it expires.
Crash(w) ==
    /\ worker[w].pc # "idle"
    /\ Spend("crash")
    /\ worker' = [worker EXCEPT ![w] = Idle]
    /\ lock' = [i \in Incidents |-> IF lock[i] = w THEN "expiring" ELSE lock[i]]
    /\ UNCHANGED db

LockExpires(i) ==
    /\ lock[i] = "expiring"
    /\ lock' = [lock EXCEPT ![i] = None]
    /\ UNCHANGED <<db, worker, budget>>

\* The process stalls: it lives on, but its lease and its lock run out.
Stall(w) ==
    /\ worker[w].lease
    /\ Spend("crash")
    /\ worker' = [worker EXCEPT ![w].lease = FALSE]
    /\ lock' = [i \in Incidents |-> IF lock[i] = w THEN None ELSE lock[i]]
    /\ UNCHANGED db

-----------------------------------------------------------------------------
(* History: since when the group of an incident has been clear.            *)

Witness ==
    /\ fresh' = [w \in Workers |->
         /\ worker'[w].pc = "checking"
         /\ \/ worker[w].pc # "checking"
            \/ fresh[w] /\ db'.inc[On(w)].ver = db.inc[On(w)].ver
         /\ AllResolved(db', db'.job[worker'[w].job].inc)]
    /\ proof' = [i \in Incidents |->
         /\ db'.inc[i].rec = "verified" /\ AllResolved(db', i)
         /\ \/ proof[i]
            \/ \E w \in Workers : /\ worker[w].pc = "checking" /\ worker'[w].pc = "returning"
                                  /\ fresh[w] /\ On(w) = i]

Init ==
    /\ \E policy \in [Incidents -> Policies] :
         db = [inc |-> [i \in Incidents |->
                 [status |-> "open", ver |-> 0, since |-> 0, archived |-> FALSE,
                  policy |-> policy[i], basis |-> None, gathering |-> FALSE, rec |-> None,
                  run |-> None, att |-> 0, cause |-> None, merged |-> None,
                  was |-> "open", moved |-> {}]],
               sig |-> [s \in Signals |->
                 [state |-> IF s \in Late THEN "absent" ELSE "active", ver |-> 0,
                  prov |-> None, owner |-> Home[s]]],
               job |-> [j \in Jobs |-> NoJob],
               app |-> [i \in Incidents |-> FALSE]]
    /\ read = [w \in Workers |-> NoRead] /\ worker = [w \in Workers |-> Idle]
    /\ lock = [i \in Incidents |-> None]
    /\ budget = Budget
    /\ fresh = [w \in Workers |-> FALSE]
    /\ proof = [i \in Incidents |-> FALSE]

World ==
    \/ \E s \in Signals : \/ SignalOpens(s) \/ SignalClears(s)
                          \/ CorrectSignal(s) \/ ReportedRefires(s)
    \/ ConnectorChanges
    \/ \E i \in Incidents : \/ \E asked \in BOOLEAN : ReportRecovery(i, asked)
                            \/ \E to \in Active \cup Closed : Operate(i, to)
                            \/ \E policy \in {"verified_recovery", "provider_clear"} :
                                 ChangePolicy(i, policy)
                            \/ \E allow \in BOOLEAN : Archive(i, allow)
                            \/ SupersedeRuns(i) \/ AskApproval(i)
                            \/ \E contended \in BOOLEAN : DecideApproval(i, contended)
    \/ \E i, k \in Incidents : LinkCause(i, k) \/ Merge(i, k)
    \/ \E i \in Incidents : Unlink(i) \/ Split(i)

Queue == \E j \in Jobs : Due(j) \/ Retire(j)

Deliver(w) == Lose(w) \/ \E j \in Jobs : Fetch(w, j) \/ Claim(w, j)

Handle(w) ==
    \/ ProviderCheck(w) \/ Begin(w, FALSE)
    \/ \E outcome \in {"recovered", "recheck", "needs_human"} : Finalize(w, outcome)
    \/ NonPromote(w) \/ RestoreStep(w) \/ Return(w) \/ Throw(w)

Fault(w) ==
    \/ ProviderContended(w) \/ Begin(w, TRUE) \/ EngineFails(w) \/ Crash(w) \/ Stall(w)
    \/ \E finalizing \in BOOLEAN : SetupFails(w, finalizing)

Step ==
    \/ /\ \/ World \/ Queue
          \/ \E w \in Workers : Handle(w) \/ Fault(w)
          \/ \E i \in Incidents : LockExpires(i)
       /\ UNCHANGED read
    \/ \E w \in Workers : Deliver(w)

Next == Step /\ Witness

Spec == Init /\ [][Next]_vars

\* Handlers, clocks and the reconciler go on, some row that is not settled is
\* read again (the reconciler rings for each of them), and a worker that has
\* read a row claims it or loses it.  History has no say in what is fair.
program == <<db, read, worker, lock, budget>>
Fairness ==
    /\ \A w \in Workers :
         /\ WF_program(Handle(w) /\ UNCHANGED read)
         /\ WF_program(Lose(w) \/ \E j \in Jobs : Claim(w, j))
    /\ WF_program(\E w \in Workers, j \in Jobs : Fetch(w, j))
    /\ WF_program(Queue /\ UNCHANGED read)
    /\ \A i \in Incidents : WF_program(LockExpires(i) /\ UNCHANGED read)

LiveSpec == Spec /\ Fairness

-----------------------------------------------------------------------------
(* Properties.                                                             *)

TypeOK ==
    /\ db \in [inc: [Incidents ->
                 [status: Active \cup Closed, ver: Nat, since: Nat, archived: BOOLEAN,
                  policy: {"verified_recovery", "provider_clear"},
                  basis: {None, "operator", "verified_recovery", "provider_clear"},
                  gathering: BOOLEAN,
                  rec: {None, "verifying", "monitoring", "verified", "not_verified"},
                  run: {None} \cup (Jobs \X Nat), att: 0..MaxChecks,
                  cause: Incidents \cup {None}, merged: Incidents \cup {None},
                  was: Active \cup Closed, moved: SUBSET Signals]],
               sig: [Signals ->
                 [state: {"absent", "active", "resolved"}, ver: Nat,
                  prov: {None, "provider", "outdated", "operator", "report"},
                  owner: Incidents]],
               job: [Jobs ->
                 [st: {"absent", "queued", "processing", "done", "dead"},
                  inc: Incidents \cup {None}, ver: Nat,
                  fence: SUBSET (Signals \X Nat \X {"absent", "active", "resolved"}),
                  att: 0..MaxChecks, later: BOOLEAN, saved: BOOLEAN, tries: Nat,
                  runs: Nat, open: BOOLEAN, denied: BOOLEAN, told: BOOLEAN]],
               app: [Incidents -> BOOLEAN]]
    /\ read \in [Workers ->
         [job: Jobs \cup {None}, ver: Nat,
          fence: SUBSET (Signals \X Nat \X {"absent", "active", "resolved"}),
          att: 0..MaxChecks]]
    /\ worker \in [Workers ->
         [pc: {"idle", "claimed", "cleared", "checking", "broken", "throwing", "returning"},
          job: Jobs \cup {None}, run: {None} \cup (Jobs \X Nat), ver: Nat,
          fence: SUBSET (Signals \X Nat \X {"absent", "active", "resolved"}),
          att: 0..MaxChecks, saved: BOOLEAN, lease: BOOLEAN]]
    /\ lock \in [Incidents -> Workers \cup {None, "expiring"}]
    /\ budget \in [Kinds -> Nat]
    /\ fresh \in [Workers -> BOOLEAN]
    /\ proof \in [Incidents -> BOOLEAN]

\* An automatic resolution rests on a check that saw the group clear.  From
\* the begin of the check whose finalizeRecovery wrote "verified" up to
\* appendResolvedResponseGroupTx (at once, or later when the approval it
\* waited for is decided) no signal of the group was active, no lifecycle
\* change slipped under the check, and no approval of the group is open.
AutoResolveJustified ==
    [][\A i \in Incidents :
         (/\ db.inc[i].status \in Active /\ db'.inc[i].status = "resolved"
          /\ db'.inc[i].basis = "verified_recovery")
         => /\ proof'[Root(db', i)]
            /\ ~PendingApproval(db', i)]_vars

\* While the platform shows a recovery in progress or a verified one, no
\* signal of the group is active, and only the root shows it: every path
\* that opens a signal, moves one or changes a group calls clearRecoveryTx
\* for the root that owns the verdict.
VerdictMatchesSignals ==
    \A i \in Incidents :
        db.inc[i].status \in Active /\ db.inc[i].rec \in {"verifying", "monitoring", "verified"}
        => Root(db, i) = i /\ ~Uncleared(db, i)

\* An incident that is still resolved on evidence has no active signal in
\* its group: clearResponseGroupRecoveryTx takes the joint basis back from
\* every member when an alert of any of them fires again.
BasisHolds ==
    \A i \in Incidents :
        db.inc[i].status = "resolved" /\ db.inc[i].basis \in {"verified_recovery", "provider_clear"}
        => ~Uncleared(db, i)

\* An active incident that shows an investigation in progress has a check
\* queued or running that will end it: whoever invalidates the verdict keeps
\* the owner, or restores the progress in the owner's place.
GatheringIsOwned ==
    \A i \in Incidents : db.inc[i].gathering /\ db.inc[i].status \in Active
        => Unsettled(db, i) # {}

\* Two paid runs of one incident are never pending together, whatever was
\* redelivered, requeued or stranded (admitRecoveryInvestigationRunTx).
AtMostOneRun ==
    \A j, k \in Jobs : db.job[j].open /\ db.job[k].open /\ db.job[j].inc = db.job[k].inc => j = k

\* A claimed check leaves its row: it is done, dead, or queued again, also
\* when the worker that held it died.
ChecksSettle == \A j \in Jobs : db.job[j].st = "processing" ~> db.job[j].st # "processing"

\* The payload a worker has read of a row is still the payload of that row:
\* insertRecoveryTx did not refresh it between the SELECT of claimForDelivery
\* and its UPDATE.
ReadsAreCurrent ==
    \A w \in Workers : read[w].job # None =>
        LET row == db.job[read[w].job]
        IN  row.ver = read[w].ver /\ row.fence = read[w].fence /\ row.att = read[w].att

\* Monitoring is a stage: unless the refresh of a queued check is lost to the
\* worker that is about to claim it, the recheck it waits for runs, and ends in
\* a verdict or in another recheck; the cap on checks ends it for good.
MonitoringEnds == []ReadsAreCurrent => \A i \in Incidents :
    db.inc[i].rec = "monitoring" ~> db.inc[i].rec # "monitoring" \/ db.inc[i].status \notin Active

\* What counts as an answer to "all signals of this incident cleared": a
\* verdict, a check that ended without one, or the question is moot.
Judged(i) ==
    \/ ~AllResolved(db, i) \/ Root(db, i) # i \/ db.inc[i].status \notin Active
    \/ db.inc[i].rec \in {"verified", "not_verified"}
    \/ \E j \in Jobs : db.job[j].inc = i /\ (db.job[j].told \/ db.job[j].st = "dead")

\* A clear is not forgotten: once every signal of an active incident is
\* resolved, the recheck is answered even if the clear arrived while an older
\* check was under way whose fence it broke.  A refresh that is lost between
\* SELECT and UPDATE is the exception, and the only one.
ClearIsJudged == []ReadsAreCurrent => \A i \in Incidents : ~Judged(i) ~> Judged(i)

=============================================================================
