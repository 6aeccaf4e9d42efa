# sre-platform: a verification development

sre-platform investigates incidents. Alerts and chat messages become *signals*, signals open or
join *incidents*, a triage worker runs an LLM-driven *investigation* of an incident, and what
happens is projected onto *surfaces* (Slack threads). Everything between two of those steps goes
through Postgres rows and a Valkey-backed queue, so the properties that make the platform correct
are mostly properties of rows that several processes update without holding each other's locks.

This directory holds TLA+ models of those protocols, the TLC configurations that check them on
small instances and the TLAPS proofs of what matters most for every instance. Every definition
is a translation of code under `src/`; `PROJECT.json` maps definitions to the lines they stand for.

| Module | What it is | Section |
|---|---|---|
| `JobQueue`, `LeasedJobs` | the durable queue, its promise | 2 |
| `JobQueueProofs` | proofs: types, lease tokens, exclusion, rerun accounting, the refinement | 7 |
| `SurfaceDelivery`, `DeliveryReceipt` | the outbox to Slack, its promise | 3 |
| `SurfaceDeliveryProofs`, `SurfaceSafety` | proofs: types, receipts, the refinement; status post, activity post, archive | 7 |
| `IncidentRecovery` | recovery verification over response groups, with the lifecycle, merges and paid runs | 4 |
| `IncidentRecoveryProofs`, `IncidentRecoveryVerdict`, `IncidentRecoveryProgress` | proofs: types, groups, paid runs, joint evidence; verdicts and automatic resolutions; who owns progress | 7 |
| `AlertIntake`, `AlertIntakeProofs` | provider episodes: one thread, one incident, one signal each; proofs | 5, 7 |
| `ResponderReply`, `ResponderReplyProofs` | replies of responders: the gate, the watermark, one answer per question; proofs | 6, 7 |
| `MC*` | instances for TLC | |

## 1. Inventory

| Part | State it keeps | Operations | What is hard about it | What makes it correct |
|---|---|---|---|---|
| **Durable job queue** `packages/queue/src/queue/` | `jobs` rows; a Valkey stream, its consumer group and pending list; a dead stream | enqueue / coalesce / cancel, dispatchDue, publishJob, process, claimForDelivery, heartbeat, fail, stuck watchdog, reconcile, prune | at-least-once delivery, duplicate entries, lease expiry, crashes between any two calls, four independent writers of one row | one handler per job, no lease stolen, terminal is final, nothing accepted is lost, reruns are paid for |
| **Fair selection** `packages/queue/src/classify-queue.ts`, `queue/classify-writer.ts` | the same rows, one ordered intake per channel | claims the oldest row of the least-served tenant, whatever entry was delivered | the entry acknowledged names another job; doorbells must still match the rows left | no message starves; order within a channel |
| **Replies and the resume gate** `queue/publisher.ts`, `queue/writer.ts`, `triage-worker/src/worker/resume.ts` | per incident: a Valkey key set with NX and a time to live of 900 s; at most one queued resume row (`jobs_resume_coalesce_idx`, queued rows only); checkpoints in job payloads; the watermark | post, arm, insert or coalesce, read a batch, interpret, checkpoint, answer, advance | a gate armed with no job behind it; a reply landing during a run; a retry after half a batch | no reply is lost, no question answered twice |
| **Surface delivery** `apps/surface-worker`, `db/src/surface-delivery-repo*` | delivery rows, the binding with its status post, the working post, a per-binding lock with a TTL | outbox loop, fan-out, post, finish, stale sweep | a crash after the post and before the write; the lock expiring during a projection; archive in between | at most one post per delivery; a lifecycle post is not repeated while ambiguous |
| **Incident lifecycle** `db/src/incident-repo/`, `packages/hub/src/hub.ts` | incident status, lifecycle version, archive time | transition, archive, reopen, resolve | stale versions; reopening beside a live sibling; archive against queued work | a transition acts on the version its author saw; archived incidents do no new work |
| **Signals and recovery** `db/src/signal-repo/`, `hub/src/hub/recovery.ts`, `hub/response-group.ts` | observations, group members, recovery epochs | observe firing / clear, schedule and run verification | a clear arriving after a newer firing; verification racing a new firing | an incident resolves only on evidence newer than every firing |
| **Alert intake** `packages/alerts/src/`, `db/src/alert-episode-intake-repo.ts` | episodes, cohorts, workspaces | route to incident, open workspace | two alerts of one episode at once | one incident per episode |
| **Triage worker** `apps/triage-worker/src/worker/`, `db/src/investigation-run-repo.ts` | runs, turn state, admission budget | admit, run, record, reassess | a run outliving its lease; a result for a superseded version | one recorded outcome per run; none for a superseded one |
| **Merge and split** `db/src/incident-relation-repo/` | relations, moved children | merge, split, undo | queued work addressed to the merged incident | nothing is attached to an absorbed incident |
| **Sessions** `db/src/browser-session-repo.ts`, `backchannel-logout-repo.ts` | sessions, logout tokens | renew, revoke | logout racing renewal | a revoked session never renews |
| Founding, administration, domains | tenant rows | CRUD in one transaction each | effect on the queue only: cancels jobs | (`Cancel` of section 2) |
| Connectors, topology, SLOs, notifications | configuration, projections | HTTP calls, decoding, numeric evaluation | I/O | not modelled: no protocol of their own |
| API routes, dashboard, dev tunnels | none of their own | glue | rendering, routing | not modelled |

How they interact: producers (API, alerts, hub, repositories) insert `jobs` rows inside their own
transactions and publish after commit; `triage-worker` runs `QueueConsumer` loops, a reconcile
driver and a dispatcher over those rows; `surface-worker` consumes the stream of persisted events
and the outbox. Rows are the truth, streams are a doorbell that may ring twice or not at all.
Alert intake opens incidents and records observations; an observation that clears the last signal
of a response group inserts a recovery check; the check may resolve the group, which is a lifecycle
message for the outbox.

The models meet at these seams. `IncidentRecovery` uses of the queue what `JobQueue` shows it to be:
a lease held by one worker, rows that are claimed again after a crash, rows that are retired for a
queued successor. `AlertIntake` ends where the observation is applied; `IncidentRecovery` starts
there (`SignalOpens`, `SignalClears`). `SurfaceDelivery` takes lifecycle versions as given.
`ResponderReply` uses of the queue its leases, its coalescing index and its retirement of stranded
rows, and takes from the incident only the conversation and the watermark.

## 2. The job queue

`JobQueue.tla` has one action per awaited call of the code, so that every pair of database or
stream calls of different processes may interleave.

| Code | Model |
|---|---|
| `jobs` row (`schema/jobs.ts:48-153`) | `row[j]`: `status`, `attempts`, `sid` (is `stream_id` set), `due` (has `available_at` passed), `age` (of `updated_at`: fresh, older than `idleMs`, older than `olderThanMs`), `input` (how many producer inputs the payload holds) |
| partial unique indexes (`schema/jobs.ts:103-151`) | `Slot`, `SameKey`, `Taken` |
| stream and pending list | `entry[e]`: gone, new or pending, and the job it names |
| `QueueWriter.enqueue`, `insert*Tx` | `Enqueue`, `Coalesce`; withdrawals elsewhere are `Cancel` |
| `dispatchDue`, `publishJob` | `DispatchDue`, then `PublishXadd` and `PublishSid`, or `PublishLost` |
| `process` | `Poll` (XAUTOCLAIM and XREADGROUP), then the batch one entry at a time |
| `claimForDelivery` | `SelectRow` (payload read here) and `Claim` (conditional UPDATE, attempts + 1) |
| `handleOne` | `Heartbeat`, `Succeed`, `Fail`, `DeadPost`, `Ack`, `Deadline`, `StuckRelease`, `Recycle` |
| `reconcile` | `RecSelect`, `RecNext`, `RecRetire`, `RecXadd`, `RecReset` |
| `pruneTerminalJobs` | `Prune` |
| outside the code | `Age`, `Lapse` (a heartbeat that fails), `Crash`, `RecCrash`, `Trim` |

A delivery ends when it is settled: what a handler that ignored its deadline still does between the
watchdog's `fail()` and the exit of its process (`consumer.ts:333-351`) writes nothing to the queue
any more and is left out, also where another consumer runs the job by then. `SoleRunner` is about
deliveries.

`attempts` doubles as the lease token: a claim takes `attempts + 1`, and every later write of the
handler matches on `(processing, attempts)` (`Holds`).

`LeasedJobs.tla` is what the queue promises, without streams, time or retries: an accepted job is
leased to one worker at a time, only its holder ends the lease, a lease is granted again only when
nobody holds it, a settled job stays settled. `KeepsPromise` is the refinement: `row` maps to the
promise's state, `attempts` to the grant count, the worker running with the current token to the
holder.

### Runs

All instances have one or two jobs, one or two consumers and at most two stream entries. Two entries
are what makes a duplicate delivery possible, two consumers what makes a race possible; an attempts
cap of two, where the cap is in question, reaches both the retry and the dead-letter branch. Entry
ids are reused only when no process still remembers them, which is what keeps the pool sound.

| Run | Question | Bounds that matter |
|---|---|---|
| `queue_main` | Is the lease exclusive and never stolen, is every rerun paid for by an error or a fault, and does the queue implement `LeasedJobs`? | 1 delayed job, 2 consumers, fatal errors, 1 crash, 1 trim, 1 open publication |
| `queue_live` | Does every job settle and every delivery get acknowledged? | 1 consumer, 1 crash, 1 trim, 1 merged input, hanging handlers |
| `queue_successor` | When heartbeats do fail: are tokens unique, does a worker that lost its lease write nothing, is a stranded row retired only for a successor, and does the dead stream tell the truth? | 2 jobs with one key, 1 of them withdrawable, 2 consumers, 1 entry, 2 lapses, no crash |

Deadlock checking is off: with a bounded number of jobs and faults the system legitimately stops
when every row is deleted by retention.

### Fairness

`Fairness` asks for weak fairness of what the code schedules by itself: the poll loop, the calls a
delivery awaits, the deadline timer and the stuck watchdog, the reconcile interval, and time. It
does *not* ask that a handler ever returns, that heartbeats run, or that a publication succeeds:
`EveryJobSettles` rests on reconcile and the watchdog alone (`onStuck` configured, which the
triage worker does, `triage-worker/src/index.ts:108-120`).

## 3. Surface delivery

`SurfaceDelivery.tla` is the surface worker's outbox for one bound conversation: what happens
between a message's commit and its receipt. Every awaited call is a step; a request to the surface
is three of them (`Send`, `Land`, and an outcome), so it can land and its answer be lost, or land
after its worker died (`LateLand`).

| Code | Model |
|---|---|
| `surface_deliveries` row | `row[m]`: `state`, `due` (`next_attempt_at`), `stale` (`attempted_at` older than 120 s), `assignment` (the binding generation it was made for) |
| stream entries | `wake[m]`: deliveries left; the outbox scan finds queued rows without one |
| `surface_bindings`, `surface_working_posts` | `binding` (status post, version fence, generation, projection mode), `working` |
| `surface:binding:*` lock | `lock`: a worker, `Free`, or `Dead` (its holder is gone, its TTL runs) |
| `fanoutHubMessage` | `Begin`, `Acquire`, `Defer`, `Claim`, `Renew`, `Finish`, `Requeue`, `Release`, `Errs` |
| `applyToSurface` | `ReadStatus`, `CheckAmbiguous`, `RecordStatus`; `ReadWorking`, `RecordWorking` |
| `slackApiPost` | `Send`, `Answered`, `Rejected`, `RateLimited`, `Lost` |
| stale sweep | `MarkStale` |
| archive, disconnect, merge and split | `Archive`, `Disconnect`, `Move` (their deliveries and bindings; these run in one transaction each) |
| the conversation itself | `shown[p]`: what the post created by message `p` shows; `reached[m]`: how often `m`'s content landed |

Message kinds stand for the branches of `applyToSurface`: `narration` (agent text and tool steps),
`answer` (agent reply and finding, and a relationship that hands a thread off), `silent`, `degrade`
(a system finding: delete, clear, post), `own` (anything posted on its own), `lifecycle`.

`DeliveryReceipt.tla` is the promise: content reaches a conversation at most once, only while an
attempt is open or its outcome unknown, an attempt returns to the queue only if it did not reach
it, `accepted` is said only if it did. `KeepsReceipts` is the refinement.

| Run | Question | Bounds that matter |
|---|---|---|
| `surface_faults` | Do receipts tell the truth, is `DeliveryReceipt` implemented, is one status post at most created, is an archived incident quiet? | two deliveries (two lifecycle versions, or a narration and its degraded conclusion), 1 crash, 1 stall, 1 lapse, 1 rate limit |
| `surface_order` | Does the status post ever go back; is there one activity post; is a shown conclusion kept? | three deliveries (three versions, a turn, a degraded turn), 1 lost answer, 1 move |
| `surface_live` | Does every delivery get a receipt? | two deliveries, no stream entries at all, 1 crash, 1 failing call, 1 rate limit |

Two workers are what the lock is for; three lifecycle versions are one more than an overtaking
needs. Deadlock checking is off: the system stops when every message has its receipt.

`OneWorkingPost`, `AnswerKept` and `StatusNeverRegresses` are claimed for executions in which only
rate limits disturb (`Undisturbed`): the code has no repair for a crash between a request and the
database call that records it, and the model shows the properties fail then. `OneStatusPost` is
claimed while no lock lapses: the status post is read, older attempts are checked and the post is
created in three calls, and the lock is only confirmed after the request, so a worker whose lock
lapsed in between can create a second one. `ReceiptTruthful` holds whatever happens.

Fairness: the worker loop goes on, requests return within their deadline, time passes (retries
become due, TTLs run out, attempts grow old) and the sweep runs. One strong condition: a claim that
is possible again and again is made at last. Without it two workers scanning the same row can
delay it for ever: the loser of the lock gives up after two seconds and postpones the row before
the winner's claim, two database calls after it took the lock. Losses and faults are bounded, so
liveness says what happens once the surface stops limiting. Not modelled: reconnecting a surface,
posts removed by people, several bindings of one incident (they share nothing but the archive).
`Rejected` means that nothing landed: `slack.ts:436` also counts an ok answer without a `ts` as a
refusal, which by Slack's contract does not happen to a post that landed; if it did, the receipt
would say rejected of a message that is shown.

## 4. Recovery verification

`IncidentRecovery.tla` follows an incident from the moment its alerts clear to the moment the
platform resolves it by itself. Incidents linked by `caused_by` form response groups; the root of a
group owns the recovery of all its members. When every signal of a group is resolved, a producer
inserts a `recovery.verify` job with the root's lifecycle version and the fence of the group's
signals. A worker reads it, claims it, looks at the provider's own clears, and otherwise begins a
paid check, runs the engine outside any transaction and finalizes the verdict if version and fence
still match.

Every transaction of this code holds the tenant's causal-graph lock and the work locks of the
group, so each is one step. They are written as operators from database to database
(`ClearRecovery(d, i)`, `InsertRecovery(d, ...)`) and compose in the order of the code. What
interleaves is what the code does *between* transactions: the worker's steps, the engine's run, the
queue, and everybody else.

| Code | Model |
|---|---|
| `incidents` row | `db.inc[i]`: status, lifecycle version `ver`, the version of the last move the conversation does not show as a change between active statuses (`since`), archive, policy, resolution basis, and the recovery columns: `rec` (state), `run`, `gathering` (investigation in progress), `att` (attempt of the cycle); `cause` and `merged` edges |
| signals and their provenance | `db.sig[s]`: state, version, who cleared it (`provider`, `outdated` after a new connector generation, `operator`, `report`), owner |
| `jobs` rows of type `recovery.verify` and their investigation runs | `db.job[j]`: status, the fences of the payload, attempt, `later` (scheduled), `saved` (the progress to give back), `tries`; `open`, `runs`, `denied`, `told`: the paid run it owns and how it ended |
| `causal.ts`, `recovery-state.ts`, `writer.ts` (`insertRecoveryTx`) | `Root`, `Group`, `SignalFence`; `ClearRecovery`, `ClearGroup`; `InsertRecovery`, `StartRecovery`, `Restore` |
| `lifecycle.ts`, `hub.ts`, `resolution-policy.ts` | `Transition`, `Operate`, `Archive`, `ChangePolicy`, `CorrectSignal` |
| `response-group.ts` | `ProviderClear`, `ResolveGroup`, `AfterApproval` |
| `incident-relation-repo/` | `LinkCause`, `Unlink`, `Merge`, `Split`, `Refence` |
| alerts and Slack reports | `SignalOpens`, `SignalClears`, `ConnectorChanges`, `ReportedRefires`, `ReportRecovery` |
| `claimForDelivery` | `Fetch`, the SELECT, whose payload is in `read[w]` from then on; `Claim`, the UPDATE, which hands the payload of `read[w]` to the handler, or `Lose` |
| `RecoveryHandler.handle` | `Claim` (the engine lock), `ProviderCheck`, `Begin`, then the engine, then `Finalize`, `NonPromote`, `EngineFails` or `SetupFails`; `RestoreStep`, `Return`, `Throw` |
| queue and Redis lock | `Due`, `Claimable`, `Retire`, `Leased`; `lock`, `LockExpires` |
| faults | `Crash`, `Stall` (the process lives on without lease and lock), `ProviderContended`, an exhausted budget (`Begin(w, TRUE)`) |

`fresh` and `proof` are history: whether the group has stayed clear since a check began, and since
the root was verified. They let `AutoResolveJustified` speak of the *past* of a resolution without
repeating the code's guards.

Each kind of outside event may happen `Budget[kind]` times; a run gives the kinds its question is
about one or two each, and the others none. `MaxChecks` is `recoveryMaxChecks`, `MaxAttempts` the
deliveries after which a row is dead.

| Run | Question | Bounds that matter |
|---|---|---|
| `recovery_check` | Is an automatic resolution justified, is one paid run pending at a time? | 1 incident, a Slack signal and a native one that opens late, 2 workers, 2 jobs, 2 checks, a refire, a clear, an operator's move, a crash or stall |
| `recovery_group` | Is a verdict never shown beside an active signal, an automatic resolution of a group justified, does a joint basis fall with its group, is progress that is shown always owned? | 2 incidents that are linked, parted, merged, split, moved and waited on by an approval; no crash |
| `recovery_live` | Is every clear judged, does every claimed check leave its row, does monitoring end, unless a refresh is lost to a claim? | 1 incident, 3 jobs, two clears (by the provider, by an operator, or by a new generation that outdates them), one exhausted budget, an engine failure, a crash or stall |

Two workers and one crash make a check overlap its own redelivery; two incidents are the smallest
group, and the two merges of the budget a merge and its split. One check per cycle (`MaxChecks = 1`)
shows no monitoring; with two, and with three incidents, a merge meets a shown verdict, a defect the
runs do not ask about (section 8, merges) and the hypotheses of the theorems leave out.
`recovery_live` has one worker: with two, `ClearIsJudged` fails after a stall (section 8, the
restored incident). `GatheringIsOwned` is run without crashes; the theorem `ProgressOwned` (section
7) has it for every execution in which no worker stalls and none dies with a check under way. A
crash during a check can leave progress behind (section 8).

Fairness (`LiveSpec`): the worker that runs goes on (`Handle(w)`, without the faults), scheduled
rows come due and stranded rows with a successor are retired (`Queue`), rows that are not settled
are read again (the reconciler rings for each of them), a worker that has read a row claims it or
loses it, and the Redis lock expires. Nothing outside is fair: no clear, no decision of an approval,
no engine outcome in particular. Fairness is about the variables of the program (`program`): history
has no say in what is fair.

`ClearIsJudged` and `MonitoringEnds` are claimed for behaviours with `[]ReadsAreCurrent`: what a
worker has read of a row it has yet to claim is not refreshed meanwhile. The code does not prevent
that, and without the hypothesis TLC finds both violated with no fault at all (section 8, the lost
refresh). `ChecksSettle` and the safety properties need no such hypothesis.

Abstracted: the engine's work inside a check (its outcome is any of the three, or a failure), the
report's wording and evidence, the recheck's delay (only later or due), the tenant's automatic
budget (exhausted or not), messages appended to the conversation. Left out: recovery answered inside
a reply (`resume.ts`), signal materials, expiry of native episodes, unarchiving, cohort and
recurrence relations, triage and resume handlers.

## 5. Alert intake

`AlertIntake.tla` follows the notifications of a provider episode (a connector, the provider's
fingerprint, a start time) through `processAlert` until they are one Slack thread, one incident and
one signal. Every notification is worked on by the process that received it; several run at once,
because the provider resends what was not acknowledged, its replicas send copies, and one request
may carry several alerts. A step is one transaction, one Redis call or one Slack call; what a
handler has read before is a snapshot (`say`, `in`).

| Code | Model |
|---|---|
| `alert_episode_intakes` row | `intake[e]`: state (pending, posting, posted, accepted, rejected, uncertain), the retained observation `obs`, `old` (a claimed post older than `ROOT_POST_STALE_MS`), the thread and the incident it was accepted with |
| the signal of the episode | `sig[e]`: state, owner, `slack` (a Slack notice was bound to the episode) |
| incidents, thread bindings | `inc[i]`: status and the episode it was opened for; `bound[e]`: who owns the root's and the notice's thread |
| the channel, Redis | `posts[e]`: root messages that reached it; `key[e]`: the reservation; `subscribed` |
| the connector's generation | `h[w].cur`: still the one the notification came in under |
| order of receipt | `h[w].older`: who was received before; `h[w].late`: a newer observation has been applied |
| the provider | `prov[e]`: has the condition ended, which statuses are still to be acknowledged |
| `retainProviderEpisode`, stale fence | `Retain`, `MarkStale` |
| adoption of a bound notice | `LookUp`, `Take`, `Reread` |
| `claimAlertEpisodeRootPost`, `postAlertRoot` | `Claim`, `Post`, `Record`, `Failed`, `RereadPosted` |
| `routeToIncident` | `Check`, `Reserve`, `OpenWorkspace`, `Release`; the loser of the reservation goes to `Finalize` |
| `updateAcceptedEpisode`, acknowledgement | `Update`, `Answer` |
| webhook route | `Receive`; every throw is a 503 and sent again |
| others | `BindNotice`, `Reconcile`, `Close`, `Merge`, `Revoke`, `Subscribe`, `Rotate`, `Age`, `Expire`, `Crash` |

`Outside` names the kinds of event that are not the ordinary course (a copy, an odd episode, a
crash, a lost or refused post, Redis or the database failing, a revoked channel, a new generation,
a binding, a closure, a merge). A run allows any `MaxOutside` of them, in any combination.

| Run | Question | Bounds that matter |
|---|---|---|
| `intake_main` | At most one root; what is accepted is complete; a clear is final; everything sent is acknowledged in the end; every clear arrives | 1 episode, 2 processes, 3 incidents, any 2 outside events, the provider can be read back |
| `intake_lost` | Does every clear arrive from a provider that cannot be read back? (no: section 8) | the same without any outside event |

One episode is enough because episodes share nothing but the incidents a merge joins, and a merge
needs no second episode to move the first. Two processes are a firing notification and its copy or
its resolution; a third would wait at the fences of the row, which admit one. Three incidents are
the notice's, the one that is opened, and a target. `OneRootPerEpisode`, `AcceptedIsComplete` and
`ClearIsFinal` are proved without these bounds (section 7).

Fairness: a process that runs goes on; the provider sends again what was not acknowledged
(Alertmanager's retry on 503); the stale interval and the reservation's time to live pass; the
lifecycle reconciler comes round where the connector can be read. `EpisodeSettles` and
`ClearArrives` name what releases the promise: a channel nobody listens to, an uncertain root
(which the code leaves to a person), a failure category, a closed incident.

`Take` compares the thread's owner with the incident that `LookUp` saw; a merge in between makes the
delivery throw and come again.

Left out: Slack messages as alerts, opaque cycles (a fingerprint without a start), a changed
channel, a notice in another channel than the alert's (section 8), the severity ratchet, grouping
into an existing incident (`allowGrouping` is false on this path), the jobs and messages an
observation queues (section 4 has the recovery ones), split and reopen of the incident.

## 6. Replies of responders

`ResponderReply.tla` follows what responders write into one incident until the engine has read it
and, where it was a question, answered it. A reply is its stamp, its place in the order
`(created_at, id)` that `humanMessagesSince` reads by.

| Code | Model |
|---|---|
| human messages of kind `text` | `at[m]`: the stamp `appendTxOnce` gave reply `m` under the incident's row lock |
| dashboard session, Slack inbound events | `Post`: message and resume job in one transaction |
| classify worker | `Append`, then `enqueueResume`: `Arm` (SET NX), `Enqueue` or `EnqueueFails`; `Drop` is its death in between; `prod[m]` is where it is |
| the gate key | `gate`; `Expire` is its time to live |
| resume rows, their lease and payload | `row[j]`: status, owner, stale, the checkpoint `prog`; `kept`: checkpoints of settled rows, which `readResponderProgress` reads too |
| `incidents.lastResumeMessageId`, the pending run | `wm`, `run` |
| engine lock | `lock`: a worker, `None`, or `lapsing` (its holder died, its TTL runs) |
| `ResumeHandler.handle` | `Claim`, `Clear`, `Read`, `LookAhead`, `Act` and `Save` once per reply, `Unread`, then `Advance` or `Engine` and `Persist`, `Reject` where a promotion is refused, `Finish` |
| reconcile | `Retire` (section 2 has the rest of the queue) |
| outside | `Crash`, `Stall` (past lease and lock), `Error` (any awaited call rejects), `Decide` (an approval decision queues a resume) |

`Intents` is what `processResponderActions` can make of a reply: a request to investigate, a change
of the incident (refused when a newer reply arrived since the look-ahead), an action that needs no
change, one that leaves the open question as it is, and the provider's limit, which kills the job.
The action and the checkpoint that records it are two transactions (`responder-actions.ts:222-268`,
`saveResponderProgress`): a handler that dies between `Act` and `Save` leaves a reply that the next
attempt interprets again, possibly differently. The actions carry keys of their own
(`verbal:<incident>:<message>` and the like), which is why doing one twice is left to the code.

An engine run ends in one of four ways (`Persist`). An answer (a cause, a reply, a finding that is
inconclusive or late) is one transaction with its run and the watermark; a silent result moves the
watermark in a transaction of its own (`Advance`); the result of a superseded run is dropped; and
the promotion of a cause is refused when a newer reply arrived since the fence was read, the
watermark is there already, or a signal changed (`StaleAssessmentMaterialError`). The refusal rolls
back; `persistRejectedPromotion` then completes the run as failed, with a finding that says so and
without `resumeMessageId` (`Reject`): the watermark stays, the question stays, the handler returns,
and the job is done.

`heard`, `owed`, `answered` and `refused` are history: what was interpreted and checkpointed, the
question nothing has answered or replaced, the questions a run was published for, the questions
whose answer a changed signal refused. `WatermarkIsEarned`: the watermark, behind which nothing is
read again, passes only replies that were interpreted and are owed no answer. `AnswerIsDue`: a
question is answered by one published run, also where an earlier run for it was refused, and no
answer passes over a question that is newer. Both excuse a stall where they speak of the open
question: a worker that outlives its lock may move the watermark of its successor (section 8).

`EveryReplySettled`: a reply is interpreted, and its question is answered or replaced by a later
one. An answer that a newer reply refused does not count: the job of the newer reply finds the
question in the checkpoint and has to answer both. One that a changed signal refused does: nothing
reruns it, and the finding tells the responder to "Wait for the current incident state, then run a
fresh investigation if needed" (`assessment.ts:161`). The property also excuses what the code gives
up on: the last attempt of a job, the provider's limit, and a classify worker that dies between
arming the gate and inserting its job.

| Run | Question | Bounds that matter |
|---|---|---|
| `reply_main` | Does the watermark pass only what was read and answered, is no question answered twice, is every reply read and its question answered? | 2 replies, each posted directly or through the gate, 4 rows, 2 workers, batches of 2, any one outside event |

Two replies are a page that is read while the next arrives, and a gate that one arms and the other
is absorbed by, as well as a producer beside the gate; two workers are the lock and the redelivery.
Free workers are interchangeable, and the first of them takes a job. What is not the ordinary course
is counted by `faults`, which also remembers the kinds the properties excuse. `InsertResume` waits
when no row is spare, and with three rows that shows as a loop that never settles; four are enough
for one event. Three replies, batches of two and five rows, without outside events, were checked
apart (876 000 states).

Fairness: handlers and the classify worker go on, claimable rows are claimed, stranded ones
retired, the lock expires. `Expire` is not fair: no promise rests on the gate's time to live.

Left out: archived and merged incidents, the content of replies, recovery answered inside a reply,
what an approval itself changes.

## 7. Proofs

`JobQueueProofs.tla` proves, for any number of jobs, consumers and entries and any bounds:

* `TypeCorrect` (`Spec => []TypeOK`): one lemma per operator that builds a row, a worker or a pass,
  then one per group of actions.
* `TokensAreUnique` (`Spec => []TokenUnique`): `TokenUnique` is inductive relative to `TypeOK`. The
  argument has two halves: `NextGrows`, attempts never shrinks while the row exists and a deleted
  row stays deleted; and `NextRuns`, the only step by which a worker starts to run is its claim.
  So a claim's token is above every token already running (`ClaimTokens`).
* `LostLeasesAreMute` (`Spec => LostLeaseIsMute`): a token below `attempts` fails the fence, and
  with the fence false each of the handler's endings leaves the rows and the dead stream alone
  (`ConsumerMute`).

`SurfaceDeliveryProofs.tla` proves, for any messages, workers, conversations and bounds on faults:

* `TypeCorrect`: as above, one lemma per way an action builds a worker's record or a row.
* `ReceiptsTellTheTruth` (`Spec => []ReceiptTruthful`). `ReceiptTruthful` is not inductive: a row
  that is `sending` says nothing of what may still happen to it. The strengthening `ReceiptInv`
  adds who may still change that: `Held`, a worker between its claim and its receipt has a row
  still open, and its record tells whether the content has landed; `Alone`, no two workers attempt
  one message; `Adrift` and `OneAdrift`, a request nobody waits for belongs to an open row, to no
  attempt, and is the only one of its message. A worker whose attempt ends `uncertain` has given
  up judging and is no attempt any more, which is why a later write of its receipt is harmless
  whatever happened to the row meanwhile. Most steps only move a row forward and keep every
  attempt as it was (`Frame`, `FrameKeeps`); the claim, the receipt, the requeue, a lost answer or
  crash, and a request that lands have a lemma each.
* `OutboxKeepsReceipts` (`Spec => KeepsReceipts`): the refinement, from the same invariant. A row's
  step is `Accept`, `Try` or `Return`; what lands is `Reach`; everything else is `Settle` or a
  stutter.

`AlertIntakeProofs.tla` proves, for any episodes, incidents, processes and any number of outside
events:

* `TypeCorrect`: `Typed` adds to `TypeOK` what a handler's record may be at each of its steps.
* `OneRoot` (`Spec => []OneRootPerEpisode`). `Fence` is the argument of the durable row: a handler
  that posts, or has posted and not yet recorded it, finds its row `posting`, or `uncertain` if it
  was judged interrupted; two such handlers have different episodes; one that has still to post, or
  was refused, has posted nothing; and a row that could be claimed again has no post behind it.
  Nearly every step is *quiet* (`Quiet`: no handler becomes one that posts, no row becomes
  claimable again); the claim, the post, the record and the failure have a lemma each.
* `AcceptedComplete` (`Spec => []AcceptedIsComplete`). `Held` carries the four facts along: also a
  posted row has its root message and thread, a signal always has an owner, an adopted notice has a
  signal, and a handler between the look-up and the acceptance still knows enough for the row it
  will write. A merge moves signals, threads and intakes together, which is why it keeps `Held`.
* `ClearStays` (`Spec => ClearIsFinal`): an action property, from the one operator that writes an
  observation and from a notice being bound only where no signal exists.

Its later parts prove the exclusion properties, also for any bounds:

* `RerunsArePaid` (`Spec => []EveryRerunIsPaid`), with no hypothesis: a counting argument, every
  step that makes a row claimable once more also raises one of the counters it is weighed against.
* `OneRunner`, `FreshLeasesStay`, `DeadStreamIsTrue` and `OneGeneration` assume `MaxLapses = 0`, as
  the properties do when they say that heartbeats run. The inductive invariant is about snapshots:
  a running worker holds a fresh row with the token it carries; a reconcile pass and a delivery
  that has read its row carry attempts that are not above the row's, and a pass that carries a
  running row's attempts cannot exist. With a lapse it can: a pass may have scanned a row while its
  lease was lapsed, and takes it back after the lease was renewed.
* `OnlySupersededIsRetired` (`Spec => RetiredIsSuperseded`): the pass decides before it acts, and
  what it decided on cannot vanish meanwhile, because the successor is protected by the key.
* `TerminalRowsStay` and `QueueKeepsPromise` assume also that no job can be withdrawn
  (`Cancellable = {}`): section 8 has the cancelled row that comes back. `TerminalIsFinal` itself
  is therefore no property of a run.

`SurfaceSafety.tla` proves the properties of the outbox that need the conversation's order:

* `OneStatus` (`Spec => []OneStatusPost`, while no lock lapses): any worker that may still create
  the status post, and any request that may still land, shows in the row or in the binding; the
  holder of the lock is the only one that acts on what it read (`StatusInv`).
* `QuietOnceArchived`: an attempt that may send has its row `sending`, and archiving waits for it.
* `OneActivityPost`, `AnswersStay`, `StatusForward`: under `Undisturbed`, as the properties are
  stated. `Orderly` relates what a worker aims at, what landed and what the rows say.

The steps are cut once, by worker (`Did`, a relation field by field), so that each invariant looks
only at the fields it is about.

`ResponderReplyProofs.tla` proves `TypeCorrect`, `WatermarkEarned` and `AnswersAreDue` for any
replies, rows, workers and batch size, with any of the outside events. The invariant has three
parts: `Typed`, where stamps are gap-free (`InOrder`); `Backed`, where a checkpoint covers only
replies that were heard and a handler stands where its checkpoint does; and `Served`, which holds
until a stall: the furthest checkpoint over the watermark carries the question that is owed, the
handler under the lock is alone and works over the current watermark, what was answered lies at or
behind the watermark, and what is owed after it. A refused promotion keeps all of it: it ends the
run and leaves watermark, checkpoint and question alone, so that `AnswersAreDue` also says that
whoever takes the question up again publishes its first answer.

`IncidentRecoveryProofs.tla` proves, for any incidents, signals, jobs, workers and budget:

* `TypeCorrect` (`Spec => []TypeOK`).
* `CausesEnd`: the `caused_by` edges never form a cycle, so every group has one root. The root is
  defined by a recursive walk in the code; here `Causes` is the least set closed under the edges,
  and lemmas on that set (`RootShared`, `RootsCut`, `RootsJoined`) say what a new or a removed edge
  does to the groups.
* `OneRunAtATime` (`Spec => []AtMostOneRun`): no transaction but the admission opens a run
  (`OpenedSolid`), and it closes the others of the incident.
* `EvidenceStands` (`Spec => []BasisHolds`): `Whole` is its strengthening, `Rooted` (no cycle),
  `Placed` (an active incident is neither archived nor merged, a merged one has no edges) and
  `Joint` (a group with a member resolved on evidence has no active member and no uncleared
  signal). Every transaction is a composition of operators on the database; each operator has one
  lemma per relation it keeps (`Leads`: typed, no run opened; `Mild`: statuses and edges stand;
  `Steady`: groups stay whole), and the actions compose them.

`IncidentRecoveryVerdict.tla` proves on top of it:

* `VerdictsMatch` (`Spec /\ [][ClearMoves]_vars => []VerdictMatchesSignals`): an incident that shows
  a recovery is a root and its group is clear. The property alone is not inductive: a worker whose
  check began long ago may write a verdict. `Watched` says what such a check still knows: its
  version is past or current, its fence is not empty and all of it resolved, and while the version
  is the incident's, the incident is a root or the fence has nothing in common with its group. A
  link moves the version of every member of a group with signals; of one without signals it does
  not, and there the fence is the one that fails.
* `ResolutionsJustified`
  (`Spec /\ [][ClearMoves /\ UncheckedMoves /\ UncheckedArchive]_vars => AutoResolveJustified`): an
  automatic resolution has a past in which the group stayed clear, from the begin of the check on.
  `FreshInv` says that a check whose version and fence still match has been fresh all along (fence
  entries carry the signals' versions, which only grow), `ProofInv` carries that over the time a
  verdict waits for an approval.

All steps but four are of one shape there, which `Calm`, `Firm` and `Loose` name: nobody shows a
recovery that was not shown, a signal that fires takes the verdict of its root along, and a group
stays, shrinks, or changes together with the version of its members. Two of the others are `Admits`
(`Begin` admits a check) and `Upholds` (`Finalize` accepts a verdict); the other two are a merge and
a split (`Moving`), where edges, states and versions stay and signals change hands.

The hypotheses are about merges, splits and archiving, which the code does not guard against the
verdict they meet. Every other step satisfies them.

* `ClearMoves`: no merge or split brings a firing signal to a group that shows a recovery, or any
  signal to a group of which a linked incident is being checked.
* `UncheckedMoves`: it brings none to a group that is verified already (and waits for an approval),
  and neither end belongs to a group that is being checked. The code refuses a merge while either
  incident has an unsettled job (`Untouched`); the root of their group may have one, and so may a
  worker go on that has lost its lease.
* `UncheckedArchive`: a linked incident is archived only while no check of its group is under way.
  The code looks at the jobs of the archived incident alone.

Without them both properties fail: section 8 has the merges and the archive, and TLC finds the
counterexamples. Merged signals may well be judged under them: there are executions in which the
target resolves on a check that saw what it received.

`IncidentRecoveryProgress.tla` proves, again on top of it:

* `ProgressOwned` (`Spec /\ [][ChecksUncut]_vars => []GatheringIsOwned`): progress that an incident
  shows has an unsettled check that will end it or give it back. The invariant names that check:
  `Backed` says that the incident carries the run of a claimed job of its own, `Manned` that a worker
  with that run holds the job's lease and the incident's lock and is in the middle of a check, and
  no row that is queued or claimed is without what it saved (`Owes`), so that whoever gives up has
  the incident to put back. The parts need each other: a check that is queued beside a running one
  has something to give back only because the running one saved it (`insertRecoveryTx`), a signal
  that fires ends the progress only because the run's row is saved (`clearRecoveryTx`), and a second
  check of the incident cannot take the progress over because it meets the first one's lock.

Transactions are cut as before: `Falls` (progress may end, claimed rows stay as they are, nothing is
queued), `Minds` (a row may be queued, and saves what there is to save), `Mindful` for an outside
action. The actions that touch an owner have a lemma each. `ChecksUncut` says that no lease lapses
under its worker, and that a worker leaves a check only by finishing or giving up; a worker may
still die before its check begins, and rows may be redelivered. Section 8 has what happens
otherwise.

The assumptions are those named in the modules: in `JobQueue`, caps are positive, classes are sets
of jobs, an exclusive job is not cancellable, `NoJob` and `NoEntry` are no job and no entry; in
`SurfaceDelivery`, `NoMsg`, `Free` and `Dead` are no message and no worker, casts map messages to
kinds; in `IncidentRecovery` and `ResponderReply`, `None` is no member of what it stands in for, and
the replies are finitely many; in `AlertIntake`, a notice's home is an incident or `None`, and
`None` is neither an incident nor a thread; in `IncidentRecovery` also, the mark of a lock that
nobody renews is no worker.

Model-checked only: all liveness, which the proof system cannot do; `VerdictMatchesSignals` and
`AutoResolveJustified` for two incidents with any merge and its split (`recovery_group`), where the
theorems leave some merges out. Every invariant of the runs is stated by a theorem.

## 8. Where code and documents disagree

One disagreement is a run of its own:

* **A resolved notification can be acknowledged and lost** (`intake_lost`, `ClearArrives`). The
  resolved notification reaches `processAlert` while the firing one holds the Redis reservation and
  routes. The loser goes to `finalizeDeduplicatedEpisode` (`deduplicated-episode.ts:33`), which
  accepts the intake and applies no observation; `processor.ts:499` answers accepted, so it is not
  sent again. A connector without `readEpisode` is never reconciled, and the signal keeps firing;
  `docs/connectors/prometheus.md:188-189` says "Accepted episodes continue receiving authoritative
  provider updates and recovery after a subscription change", and `update-episode.ts:45-46` retries
  an observation that met a merge "so the provider update is not silently lost".

The others were met while modelling. The models reach them, no passing run can state them, and the
bounds given show them:

* **A cancelled job can come back**: `TerminalIsFinal` fails with one job in `Cancellable` and one
  open publication. Reconcile's reset (`consumer.ts:490`) matches on id and attempts, which a
  cancellation between its scan and its reset leaves alone.
* **A crash is charged toward the cap**: the claim after a crash adds to `attempts`, which `fail`
  compares with the cap.
* **A merged input can miss its run**: the payload is the one the SELECT read, not the one the
  claim's UPDATE saw (`consumer.ts:129`, `160-177`).
* **A lost refresh leaves a clear unjudged** (the same gap, `IncidentRecovery`): a recheck is queued
  and the incident shows monitoring; a worker SELECTs the recheck; the last signal clears again with
  a newer version, and `insertRecoveryTx` refreshes the queued row (`writer.ts:337-358`), due at once,
  with the new fence; the worker claims the row and runs with the fence it read;
  `lockRecoveryCandidateTx` finds it out of date, the handler returns, and the row is done. No check
  is left: the clear is never judged (`ClearIsJudged`, 11 states) and monitoring never ends
  (`MonitoringEnds`, 16 states), with neither a crash nor a failure. The comment at
  `writer.ts:359-361` has "the newer fences become the processing job's queued successor instead of
  disappearing", which holds once the row is claimed but not between its SELECT and its UPDATE;
  `docs/understand/triage.md:207-208` says "once every alert has cleared the platform checks current
  service health". Both properties are checked under `[]ReadsAreCurrent`, which is that gap and no
  more; dropping the hypothesis from either gives the traces.
* **Progress can be left without an owner**: a check's worker crashes, its row is retired for a
  queued successor, the orphan run is still pending, the successor is denied
  (`recovery.ts:258`) and `GatheringIsOwned` fails. One incident, one signal, two clears, one crash.
* **A merge can leave a verified target that was not verified with its new signals**:
  `incident-relation-repo/merge.ts` moves signals and keeps the target's verdict, which
  `docs/understand/triage.md:228-229` ties to "unchanged lifecycle and signal state". With three
  incidents an approval decided later then resolves on it (`AutoResolveJustified`). With two, and
  `MaxChecks = 2`, a move leaves the target monitoring without a check (see that item below) and a
  merge puts a firing signal under it (`VerdictMatchesSignals`; one clear, one move, one merge).
* **Archiving a member hides that it fired**: `setIncidentArchivedTx` (`incident-repo/lifecycle.ts:412-420`)
  takes a closed incident out of its group, with `allowActiveSignalsForClosed` also one whose signal
  is active, and neither moves the version of the root nor clears its recovery. A check that was
  under way when that signal fired finds its version and its fence again and resolves the root.
  `clearRecoveryTx` normally takes the run away when the signal fires; it keeps it where the
  progress was not saved, which is why it takes a crashed check, a denied successor and a second
  check first. `AutoResolveJustified` fails with two linked incidents, one worker, three jobs,
  two clears, two requests, two moves and one crash, link and late signal each.
* **Monitoring without a check**: moving an incident between open and mitigated while a recheck is
  queued bumps the version; the recheck finds its fence stale and returns, and the incident goes on
  showing monitoring (`docs/understand/triage.md:220-221`: "the incident shows as monitoring, with
  the next check time visible"). `MonitoringEnds` is checked with no such move in the budget.
* **A cycle's budget can start again**: a repeated observation must not reset the attempt
  (`writer.ts:340-342`), and the refresh of a queued row keeps it; but a fresh insert takes it from
  the incident only while it is `verifying`. With `MaxChecks = 3` a check of a later attempt is
  followed by a first one.
* **An incident without a signal**: a notice is bound to the episode after `processor.ts:129` looked
  for one. The root goes out, a second incident opens, the observation is refused there because the
  signal is the notice's, and the accepted intake names an incident that owns no signal.
  `docs/dashboard/incident-workspace.md:202`: "Every provider episode keeps its own incident,
  evidence, and conversation."
* **A notice in another channel is never acknowledged**: `bindSignalToEpisodeTx` gives an episode to a
  Slack notice without a look at its channel; `processor.ts:144` throws when that is not the channel
  of the alert, and every delivery of the episode is a 503. `AlertIntake` has notices of the right
  channel only.
* **A clear counts as late by receipt**: observations are ordered by their time of receipt; a clear
  received before a copy of the firing and routed after it is not applied. Where the provider can be
  read, the reconciler repairs it.

* **A restored incident may stay unjudged**: `restoreRecoveryVerificationTx` is fenced on the run
  alone (`signal-repo/recovery.ts:408-441`). A worker that stalled and whose setup then fails undoes
  what the worker after it has begun; with two workers `ClearIsJudged` fails.
* **The resume of an approval decision finds nothing**: `approval-decision.ts:139-140` queues a
  resume so that the agent learns of the decision, but posts a message of kind `reply`, and
  `humanMessagesSince` reads kind `text` (`incident-repo/investigation.ts:403`); `Decide` therefore
  leaves a job whose handler has nothing to read.
* **The provider's limit drops the replies behind it**: a limit during the interpretation of a batch
  is not retryable, the job is dead, and the later replies of the batch wait until someone writes
  again.
* **A changed signal refuses an answer, and nobody asks again**: the job of a refused promotion is done,
  and the question waits for the next reply (section 6). The finding says so, and no document
  promises more; `EveryReplySettled` counts the question as told.
* **A dead classify worker leaves an armed gate**: it dies between the SET NX and the insert
  (`publisher.ts:112-138`); its redelivery finds the gate armed and takes the reply for coalesced.
  The reply waits for the next one after the key's 900 s.
* **A stalled worker moves the watermark back**: `advanceResumeWatermark` has no fence, so a worker
  that outlived its lock may set an older watermark, and the questions after it are answered again.
* **More than one resume under way**: `schema/jobs.ts:110` says "at most one 'processing' + one
  'queued' resume per incident"; a handler that meets the lock throws only after its row was
  claimed, so two rows may be processing beside a queued one. The lock keeps this harmless.

## 9. Plan

1. Proofs: how much of `UncheckedMoves` follows from the guards of merge and split alone when no
   worker stalls.
2. `ClassifyQueue`: fair selection over jobs with a tenant each; no tenant starves.
3. The resume path that answers a recovery inside a reply; unarchiving and a reopen that meets an
   active sibling; reconnection of a surface.

## 10. Not modelled

* Fair selection for classify: planned, next in line.
* Sessions and sign-in, workspace founding and administration: single-transaction writes guarded by
  row conditions; the queue sees only their cancellations (`Cancel`).
* Connectors, topology, SLOs and notifications: HTTP clients, decoders, projections and numeric
  evaluation without a protocol of their own. What they share with others is here: the generation
  of a connector (`Rotate`, `ConnectorChanges`), the topology class of jobs.
* The API's routes, the dashboard, dev tunnels and scripts: rendering, routing and glue; most of the
  repository's lines, and no shared state.
* The model calls, tools and prompts inside an investigation: their outcome is data to the protocol.
