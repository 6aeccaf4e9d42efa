---------------------------- MODULE AlertIntake ----------------------------
(***************************************************************************)
(* Native alert intake: how the notifications of one provider episode (a   *)
(* connector, the provider's fingerprint, a start time) become one Slack   *)
(* thread and one incident, however often they are sent.                   *)
(*                                                                         *)
(* Every notification runs processAlert in the process that received it.   *)
(* Several run at once: the provider retries what was not acknowledged,    *)
(* its replicas send copies, and a notification with many alerts is worked *)
(* through one by one.  Between two awaits anything may happen: another    *)
(* handler, a crash, the 30 s after which a root post is judged            *)
(* interrupted, the expiry of the Redis reservation, a person closing or   *)
(* merging incidents, a reconciler binding a Slack notice to the episode.  *)
(*                                                                         *)
(* The durable fence is the intake row:                                    *)
(*   pending | rejected -> posting -> posted -> accepted                   *)
(*   posting -> rejected | uncertain                                       *)
(*                                                                         *)
(* A step is one transaction, one Redis call or one Slack call.            *)
(***************************************************************************)
EXTENDS Integers, FiniteSets

CONSTANTS
    Episodes, Incidents, Handlers,
    None,           \* the null of the source
    NoticeHome,     \* the incident a Slack notice of an episode opened, or None
    CanRead,        \* the connector can read an episode back from its provider
    Outside,        \* the kinds of outside events that may happen
    MaxOutside      \* and how many of them

Kinds == {"copy", "odd", "crash", "lost", "reject", "redis", "fail",
          "revoke", "rotate", "bind", "close", "merge"}

\* The threads an episode may have: its root and the notice of a Slack app.
Threads == {"root", "notice"}

ASSUME IntakeAssumptions ==
    /\ NoticeHome \in [Episodes -> Incidents \cup {None}]
    /\ CanRead \in BOOLEAN
    /\ Outside \subseteq Kinds /\ MaxOutside \in Nat
    /\ None \notin Incidents \cup Threads

VARIABLES
    intake,    \* alert_episode_intakes
    sig,       \* the signal that owns the provider episode
    inc,       \* incidents: their status and the episode they were opened for
    bound,     \* surface_bindings of the episode's threads: root and notice
    posts,     \* root messages that reached the Slack channel
    key,       \* the Redis reservation of the episode
    subscribed, \* the channel of the connector is listened to
    prov,      \* the provider: the episode is over, the statuses it still owes;
               \* odd: one of them was kept under a failure category
    h,         \* the handler each process runs, if any
    budget     \* outside events left

vars == <<intake, sig, inc, bound, posts, key, subscribed, prov, h, budget>>
rows == <<intake, sig, inc, bound>>

Spend(kind) ==
    /\ kind \in Outside /\ budget > 0
    /\ budget' = budget - 1

States  == {"absent", "pending", "posting", "posted", "accepted", "rejected", "uncertain"}
Untried == {"pending", "rejected"}
Statuses == {"firing", "resolved"}

-----------------------------------------------------------------------------
(* Handlers.                                                               *)

Idle ==
    [pc |-> "idle", e |-> None, sent |-> "firing", say |-> "firing", older |-> {},
     late |-> FALSE, in |-> None, cur |-> TRUE, held |-> FALSE, again |-> FALSE]

Busy == { w \in Handlers : h[w].pc # "idle" }

Go(w, pc) == h' = [h EXCEPT ![w].pc = pc]

\* The handler returns.  An acknowledged notification is not sent again.
Done(w, acknowledged) ==
    /\ h' = [g \in Handlers |-> IF g = w THEN Idle ELSE [h[g] EXCEPT !.older = @ \ {w}]]
    /\ prov' = IF acknowledged THEN [prov EXCEPT ![h[w].e].owed = @ \ {h[w].sent}] ELSE prov

\* The handler throws, or answers 'retry' or 'unsubscribed': a 503.
Throw(w) == Done(w, FALSE)

\* How a handler that has just read the row goes on.  What it keeps of it is a
\* snapshot: the row may have moved on by its next step.
Proceed(w, row, untried) ==
    \/ /\ row.st = "accepted"
       /\ h' = [h EXCEPT ![w] = [@ EXCEPT !.pc = "update", !.say = row.obs, !.in = row.in]]
       /\ UNCHANGED prov
    \/ row.st \in Untried /\ Go(w, untried) /\ UNCHANGED prov
    \/ /\ row.st = "posted"
       /\ h' = [h EXCEPT ![w] = [@ EXCEPT !.pc = "check", !.say = row.obs]]
       /\ UNCHANGED prov
    \/ row.st = "posting" /\ Throw(w)
    \/ row.st = "uncertain" /\ Done(w, TRUE)

\* The connector was not saved or rotated since the notification came in.
Current(w) == h[w].cur

-----------------------------------------------------------------------------
(* Signals.                                                                *)

\* Mutant: a firing that arrives late reopens the signal.
RefusedReplayable(w, e, i, say) == sig[e].owner # i \/ h[w].late

\* A signal of another incident, a late firing of a cleared episode, and an
\* observation older than the signal are not applied.
Refused(w, e, i, say) ==
    \/ sig[e].owner # i
    \/ (sig[e].st = "resolved" /\ say = "firing")
    \/ h[w].late

\* A repeated observation may still carry new material.
Unchanged(w, e, new) == sig[e].st = h[w].say /\ ~new

\* applySignalObservationTx.
Observed(w, e, i) ==
    LET say == h[w].say
    IN  IF sig[e].st = "absent" THEN [st |-> say, owner |-> i, slack |-> FALSE]
        ELSE IF Refused(w, e, i, say) THEN sig[e]
        ELSE [sig[e] EXCEPT !.st = say]

Applied(w, e, i, new) ==
    sig[e].st = "absent" \/ ~(Refused(w, e, i, h[w].say) \/ Unchanged(w, e, new))

\* An observation that is not refused moves the order cursor of the signal:
\* everything received before it is late from now on.
Outdated(w, e, i) ==
    IF sig[e].st = "absent" \/ ~Refused(w, e, i, h[w].say)
    THEN { g \in h[w].older : h[g].e = e } ELSE {}

-----------------------------------------------------------------------------
(* The provider sends, and a process receives.                             *)

\* A fresh notification of an episode the provider has begun.
Fire(e) ==
    /\ ~prov[e].over /\ ~prov[e].known
    /\ prov' = [prov EXCEPT ![e] = [@ EXCEPT !.known = TRUE, !.owed = {"firing"}]]
    /\ UNCHANGED <<rows, posts, key, subscribed, h, budget>>

\* The condition clears: from now on the provider owes the resolution.
Clear(e) ==
    /\ prov[e].known /\ ~prov[e].over
    /\ prov' = [prov EXCEPT ![e] = [@ EXCEPT !.over = TRUE, !.owed = {"resolved"}]]
    /\ UNCHANGED <<rows, posts, key, subscribed, h, budget>>

\* The webhook route authenticates the connector and notes the receipt time.
Receive(w, e, s) ==
    /\ h[w].pc = "idle" /\ prov[e].known
    /\ \/ /\ s \in prov[e].owed
          /\ \A g \in Busy : h[g].e # e \/ h[g].sent # s
          /\ UNCHANGED budget
       \/ s = "firing" /\ Spend("copy")
    /\ h' = [h EXCEPT ![w] = [Idle EXCEPT !.pc = "retain", !.e = e, !.sent = s,
                                          !.older = Busy]]
    /\ UNCHANGED <<rows, posts, key, subscribed, prov>>

-----------------------------------------------------------------------------
(* The steps of processAlert, in order.                                    *)

\* The retained observation never goes back from resolved to firing.
Kept(old, new) == IF old = "resolved" THEN old ELSE new

\* retainProviderEpisode.
Retain(w) ==
    LET e   == h[w].e
        row == IF intake[e].st = "absent"
               THEN [intake[e] EXCEPT !.st = "pending", !.obs = h[w].sent]
               ELSE [intake[e] EXCEPT !.obs = Kept(@, h[w].sent)]
    IN  /\ h[w].pc = "retain"
        /\ \/ /\ ~Current(w) /\ Throw(w)
              /\ UNCHANGED <<intake, budget>>
           \/ /\ Current(w)
              /\ intake' = [intake EXCEPT ![e] = row]
              /\ IF row.st = "posting" /\ row.old THEN Go(w, "stale") /\ UNCHANGED prov
                 ELSE Proceed(w, row, "adopt")
              /\ UNCHANGED budget
           \/ \* the episode contradicts its audited binding or its own times:
              \* retained under a failure category, and nothing else is done
              /\ Current(w) /\ Spend("odd")
              /\ intake' = [intake EXCEPT ![e] = row]
              /\ h' = [g \in Handlers |-> IF g = w THEN Idle ELSE [h[g] EXCEPT !.older = @ \ {w}]]
              /\ prov' = [prov EXCEPT ![e] = [prov[e] EXCEPT !.owed = @ \ {h[w].sent}, !.odd = TRUE]]
        /\ UNCHANGED <<sig, inc, bound, posts, key, subscribed>>

\* Mutant: a state the row does not have.
InterruptedUnknown == "interrupted"

\* Mutant: the provider is told to retry, and the row stays as it is.
InterruptedNever == "posting"

\* What is known of a post nobody heard of any more.
Interrupted == "uncertain"

\* markStaleAlertEpisodeRootUncertain, or a second look at a row it missed.
MarkStale(w) ==
    LET e == h[w].e
    IN  /\ h[w].pc = "stale"
        /\ IF intake[e].st = "posting" /\ intake[e].old
           THEN /\ intake' = [intake EXCEPT ![e] = [@ EXCEPT !.st = Interrupted, !.old = FALSE]]
                /\ Throw(w)
           ELSE Proceed(w, intake[e], "adopt") /\ UNCHANGED intake
        /\ UNCHANGED <<sig, inc, bound, posts, key, subscribed, budget>>

\* getSignalByProviderEpisode: an explicit binding may already have given the
\* episode to a Slack notice.
LookUp(w) ==
    /\ h[w].pc = "adopt"
    /\ h' = [h EXCEPT ![w] = IF sig[h[w].e].slack
                             THEN [@ EXCEPT !.pc = "take", !.in = sig[h[w].e].owner]
                             ELSE [@ EXCEPT !.pc = "claim"]]
    /\ UNCHANGED <<rows, posts, key, subscribed, prov, budget>>

\* Then the thread of the notice serves as the root, if it still belongs to the
\* incident the signal was read with.  (It is in the channel of the alert: one of
\* another channel is refused at every delivery.)
Take(w) ==
    LET e == h[w].e
        i == h[w].in
    IN  /\ h[w].pc = "take"
        /\ IF Current(w) /\ bound[e].notice = i
           THEN /\ intake' = IF intake[e].st \in Untried
                             THEN [intake EXCEPT ![e] =
                                     [@ EXCEPT !.st = "accepted", !.root = "notice", !.in = i]]
                             ELSE intake
                /\ h' = [h EXCEPT ![w] = [@ EXCEPT !.pc = "reread", !.in = None]]
                /\ UNCHANGED prov
           ELSE Throw(w) /\ UNCHANGED intake
        /\ UNCHANGED <<sig, inc, bound, posts, key, subscribed, budget>>

Reread(w) ==
    /\ h[w].pc = "reread"
    /\ Proceed(w, intake[h[w].e], "claim")
    /\ UNCHANGED <<rows, posts, key, subscribed, budget>>

\* Mutant: whoever finds no root posts one.
ClaimableAny == Untried \cup {"posting"}

\* No earlier attempt can have reached Slack.
Claimable == Untried

\* isChannelSubscribed and claimAlertEpisodeRootPost.
Claim(w) ==
    LET e == h[w].e
    IN  /\ h[w].pc = "claim"
        /\ IF subscribed /\ intake[e].st \in Claimable
           THEN /\ intake' = [intake EXCEPT ![e] = [@ EXCEPT !.st = "posting", !.old = FALSE]]
                /\ Go(w, "post")
                /\ UNCHANGED prov
           ELSE Throw(w) /\ UNCHANGED intake
        /\ UNCHANGED <<sig, inc, bound, posts, key, subscribed, budget>>

\* postAlertRoot: Slack answers, refuses, or is not heard of.
Post(w) ==
    /\ h[w].pc = "post"
    /\ \/ /\ posts' = [posts EXCEPT ![h[w].e] = @ + 1]
          /\ Go(w, "record")
          /\ UNCHANGED budget
       \/ /\ Spend("reject") /\ Go(w, "rejected")
          /\ UNCHANGED posts
       \/ /\ Spend("lost") /\ Go(w, "uncertain")
          /\ \E n \in {0, 1} : posts' = [posts EXCEPT ![h[w].e] = @ + n]
    /\ UNCHANGED <<rows, key, subscribed, prov>>

\* recordAlertEpisodeRootPost, fenced by the state.
Record(w) ==
    LET e == h[w].e
    IN  /\ h[w].pc = "record"
        /\ IF intake[e].st = "posting"
           THEN /\ intake' = [intake EXCEPT ![e] = [@ EXCEPT !.st = "posted", !.root = "root", !.old = FALSE]]
                /\ Go(w, "posted")
           ELSE Go(w, "uncertain") /\ UNCHANGED intake
        /\ UNCHANGED <<sig, inc, bound, posts, key, subscribed, prov, budget>>

\* recordAlertEpisodeRootFailure; the error goes on to the provider.
Failed(w) ==
    LET e == h[w].e
    IN  /\ h[w].pc \in {"rejected", "uncertain"}
        /\ intake' = IF intake[e].st = "posting"
                     THEN [intake EXCEPT ![e] = [@ EXCEPT !.st = h[w].pc, !.old = FALSE]] ELSE intake
        /\ Throw(w)
        /\ UNCHANGED <<sig, inc, bound, posts, key, subscribed, budget>>

\* The row its own post left; an accepted one cannot be routed any more.
RereadPosted(w) ==
    LET row == intake[h[w].e]
    IN  /\ h[w].pc = "posted"
        /\ IF row.st = "posted" THEN Proceed(w, row, "claim") ELSE Throw(w)
        /\ UNCHANGED <<rows, posts, key, subscribed, budget>>

\* The second isChannelSubscribed.
Check(w) ==
    /\ h[w].pc = "check"
    /\ IF subscribed THEN Go(w, "reserve") /\ UNCHANGED prov ELSE Throw(w)
    /\ UNCHANGED <<rows, posts, key, subscribed, budget>>

\* routeToIncident reserves the episode in Redis, and goes on without it when
\* Redis does not answer.
Reserve(w) ==
    LET e == h[w].e
    IN  /\ h[w].pc = "reserve"
        /\ \/ /\ ~key[e] /\ key' = [key EXCEPT ![e] = TRUE]
              /\ h' = [h EXCEPT ![w] = [@ EXCEPT !.pc = "open", !.held = TRUE]]
              /\ UNCHANGED budget
           \/ /\ key[e] /\ Go(w, "finalize")
              /\ UNCHANGED <<key, budget>>
           \/ /\ Spend("redis") /\ Go(w, "open")
              /\ UNCHANGED key
        /\ UNCHANGED <<rows, posts, subscribed, prov>>

\* acceptAlertEpisodeIntakeTx.
Acceptable(e, i) ==
    \/ intake[e].st = "posted"
    \/ intake[e].st = "accepted" /\ intake[e].in = i /\ intake[e].root = "root"

AcceptedBy(e, i) == [intake EXCEPT ![e] = [@ EXCEPT !.st = "accepted", !.in = i]]

Open(e)   == { i \in Incidents : inc[i].ep = e /\ inc[i].st = "open" }
Unused    == { i \in Incidents : inc[i].st = "absent" }

\* recordSurfaceBinding answers with whoever owns the thread.
ThreadFree(e, i) == bound[e].root \in {None, i}

\* openIncidentWorkspace, one transaction: the active incident of the
\* fingerprint or a new one, the binding of the root, the signal, the
\* acceptance.  Any refusal rolls all of it back.
OpenWorkspace(w) ==
    LET e      == h[w].e
        reused == Open(e) # {}
        i      == CHOOSE k \in IF reused THEN Open(e) ELSE Unused : TRUE
    IN  /\ h[w].pc = "open" /\ Open(e) \cup Unused # {}
        /\ \/ /\ Current(w) /\ ThreadFree(e, i) /\ Acceptable(e, i)
              /\ reused => \E new \in BOOLEAN : Applied(w, e, i, new)
              /\ inc' = [inc EXCEPT ![i] = [st |-> "open", ep |-> e]]
              /\ bound' = [bound EXCEPT ![e].root = i]
              /\ sig' = [sig EXCEPT ![e] = Observed(w, e, i)]
              /\ intake' = AcceptedBy(e, i)
              /\ h' = [g \in Handlers |->
                         IF g = w THEN [h[w] EXCEPT !.pc = "answer"]
                         ELSE [h[g] EXCEPT !.late = @ \/ g \in Outdated(w, e, i)]]
              /\ UNCHANGED budget
           \/ /\ ~(/\ Current(w) /\ ThreadFree(e, i) /\ Acceptable(e, i)
                   /\ reused => \A new \in BOOLEAN : Applied(w, e, i, new))
              /\ Go(w, "release")
              /\ UNCHANGED <<rows, budget>>
           \/ /\ Spend("fail") /\ Go(w, "release")
              /\ UNCHANGED rows
        /\ UNCHANGED <<posts, key, subscribed, prov>>

\* The failed route gives the reservation back: the key is deleted whoever
\* holds it by now.
Release(w) ==
    /\ h[w].pc = "release"
    /\ key' = IF h[w].held THEN [key EXCEPT ![h[w].e] = FALSE] ELSE key
    /\ Throw(w)
    /\ UNCHANGED <<rows, posts, subscribed, budget>>

\* finalizeDeduplicatedEpisode: another handler routes this episode; the
\* winner's signal and the binding of the root must agree.
Finalize(w) ==
    LET e == h[w].e
        i == sig[e].owner
    IN  /\ h[w].pc = "finalize"
        /\ IF sig[e].st # "absent" /\ bound[e].root = i /\ Acceptable(e, i)
           THEN intake' = AcceptedBy(e, i) /\ Go(w, "answer") /\ UNCHANGED prov
           ELSE Throw(w) /\ UNCHANGED intake
        /\ UNCHANGED <<sig, inc, bound, posts, key, subscribed, budget>>

\* updateAcceptedEpisode: observe at the incident the snapshot names, and once
\* more at the signal's owner when a merge moved it meanwhile.
Update(w) ==
    LET e     == h[w].e
        i     == h[w].in
        moved == sig[e].st # "absent" /\ sig[e].owner # i
    IN  /\ h[w].pc = "update"
        /\ IF ~Current(w) \/ (moved /\ h[w].again)
           THEN Throw(w) /\ UNCHANGED sig
           ELSE /\ sig' = [sig EXCEPT ![e] = Observed(w, e, i)]
                /\ h' = [g \in Handlers |->
                           IF g # w THEN [h[g] EXCEPT !.late = @ \/ g \in Outdated(w, e, i)]
                           ELSE IF moved THEN [h[w] EXCEPT !.in = sig[e].owner, !.again = TRUE]
                           ELSE [h[w] EXCEPT !.pc = "answer"]]
                /\ UNCHANGED prov
        /\ UNCHANGED <<intake, inc, bound, posts, key, subscribed, budget>>

\* The disposition is recorded, messages and jobs are published, 200 goes out.
Answer(w) ==
    /\ h[w].pc = "answer"
    /\ Done(w, TRUE)
    /\ UNCHANGED <<rows, posts, key, subscribed, budget>>

Handle(w) ==
    \/ Retain(w) \/ MarkStale(w) \/ LookUp(w) \/ Take(w) \/ Reread(w)
    \/ Claim(w) \/ Post(w) \/ Record(w) \/ Failed(w) \/ RereadPosted(w) \/ Check(w)
    \/ Reserve(w) \/ OpenWorkspace(w) \/ Release(w) \/ Finalize(w) \/ Update(w) \/ Answer(w)

-----------------------------------------------------------------------------
(* What else happens.                                                      *)

\* The process dies; its reservation stays behind.
Crash(w) ==
    /\ h[w].pc # "idle" /\ Spend("crash")
    /\ Throw(w)
    /\ UNCHANGED <<rows, posts, key, subscribed>>

\* ROOT_POST_STALE_MS pass over a claimed post.
Age(e) ==
    /\ intake[e].st = "posting" /\ ~intake[e].old
    /\ intake' = [intake EXCEPT ![e].old = TRUE]
    /\ UNCHANGED <<sig, inc, bound, posts, key, subscribed, prov, h, budget>>

\* The reservation's own time to live.
Expire(e) ==
    /\ key[e] /\ key' = [key EXCEPT ![e] = FALSE]
    /\ UNCHANGED <<rows, posts, subscribed, prov, h, budget>>

Revoke ==
    /\ subscribed /\ Spend("revoke")
    /\ subscribed' = FALSE
    /\ UNCHANGED <<rows, posts, key, prov, h>>

Subscribe ==
    /\ ~subscribed
    /\ subscribed' = TRUE
    /\ UNCHANGED <<rows, posts, key, prov, h, budget>>

\* A new generation of the connector: what runs for the former one is refused.
Rotated == [w \in Handlers |-> IF w \in Busy THEN [h[w] EXCEPT !.cur = FALSE] ELSE h[w]]

\* The connector is saved or rotated.
Rotate ==
    /\ Spend("rotate")
    /\ h' = Rotated
    /\ UNCHANGED <<rows, posts, key, subscribed, prov>>

\* bindSignalToEpisodeTx: a Slack notice of an active incident becomes the
\* signal of the episode, by the reconciler, or by an operator whose binding
\* starts a new generation.
BindNotice(e) ==
    LET i == bound[e].notice
    IN  /\ CanRead /\ i # None /\ prov[e].known /\ Spend("bind")
        /\ inc[i].st = "open" /\ sig[e].st = "absent"
        /\ sig' = [sig EXCEPT ![e] = [st |-> "firing", owner |-> i, slack |-> TRUE]]
        /\ h' \in {h, Rotated}
        /\ UNCHANGED <<intake, inc, bound, posts, key, subscribed, prov>>

\* Mutant: only the episodes whose intake was accepted at the incident of
\* their signal are read back.
ReadBackOwn(e) ==
    sig[e].st = "firing" /\ inc[sig[e].owner].st = "open" /\ intake[e].in = sig[e].owner

\* The episodes the reconciler asks the provider about.
ReadBack(e) == sig[e].st = "firing" /\ inc[sig[e].owner].st = "open"

\* reconcileConnectorLifecycle: the provider itself reports the episode ended.
\* The observation is newer than every notification in flight.
Reconcile(e) ==
    /\ CanRead /\ prov[e].over /\ ReadBack(e)
    /\ sig' = [sig EXCEPT ![e].st = "resolved"]
    /\ h' = [g \in Handlers |-> IF h[g].e = e THEN [h[g] EXCEPT !.late = TRUE] ELSE h[g]]
    /\ UNCHANGED <<intake, inc, bound, posts, key, subscribed, prov, budget>>

\* An operator, or the recovery of the incident, closes it.
Close(i) ==
    /\ inc[i].st = "open" /\ Spend("close")
    /\ inc' = [inc EXCEPT ![i].st = "closed"]
    /\ UNCHANGED <<intake, sig, bound, posts, key, subscribed, prov, h>>

\* Mutant: a merge leaves the threads where they were.
ReboundNone(source, target) == bound

\* The threads of the merged incident continue at its target.
Rebound(source, target) ==
    [e \in Episodes |-> [t \in Threads |->
        IF bound[e][t] = source THEN target ELSE bound[e][t]]]

\* mergeIncidents moves the signals, the threads and the intakes.
Merge(source, target) ==
    /\ source # target /\ Spend("merge")
    /\ inc[source].st # "absent" /\ inc[target].st = "open"
    /\ inc' = [inc EXCEPT ![source].st = "closed"]
    /\ sig' = [e \in Episodes |->
          IF sig[e].owner = source THEN [sig[e] EXCEPT !.owner = target] ELSE sig[e]]
    /\ bound' = Rebound(source, target)
    /\ intake' = [e \in Episodes |->
          IF intake[e].in = source THEN [intake[e] EXCEPT !.in = target] ELSE intake[e]]
    /\ UNCHANGED <<posts, key, subscribed, prov, h>>

Environment ==
    \/ \E e \in Episodes :
          Fire(e) \/ Clear(e) \/ Age(e) \/ Expire(e) \/ BindNotice(e) \/ Reconcile(e)
    \/ \E w \in Handlers : Crash(w)
    \/ Revoke \/ Subscribe \/ Rotate
    \/ \E i \in Incidents : Close(i) \/ \E k \in Incidents : Merge(i, k)

Init ==
    /\ intake = [e \in Episodes |->
         [st |-> "absent", obs |-> "firing", old |-> FALSE, root |-> None, in |-> None]]
    /\ sig = [e \in Episodes |-> [st |-> "absent", owner |-> None, slack |-> FALSE]]
    /\ inc = [i \in Incidents |->
         [st |-> IF \E e \in Episodes : NoticeHome[e] = i THEN "open" ELSE "absent", ep |-> None]]
    /\ bound = [e \in Episodes |-> [t \in Threads |->
         IF t = "notice" THEN NoticeHome[e] ELSE None]]
    /\ posts = [e \in Episodes |-> 0]
    /\ key = [e \in Episodes |-> FALSE]
    /\ subscribed = TRUE
    /\ prov = [e \in Episodes |-> [known |-> FALSE, over |-> FALSE, owed |-> {}, odd |-> FALSE]]
    /\ h = [w \in Handlers |-> Idle]
    /\ budget = MaxOutside

Receipt(w) == \E e \in Episodes, s \in Statuses : Receive(w, e, s)

Next == Environment \/ \E w \in Handlers : Receipt(w) \/ Handle(w)

Spec == Init /\ [][Next]_vars

\* Processes run, the provider sends again what was not acknowledged, clocks
\* advance, and the reconciler comes round.
Fairness ==
    /\ \A w \in Handlers : WF_vars(Handle(w))
    /\ WF_vars(\E w \in Handlers, e \in Episodes, s \in Statuses :
                  s \in prov[e].owed /\ Receive(w, e, s))
    /\ \A e \in Episodes : WF_vars(Age(e)) /\ WF_vars(Expire(e)) /\ WF_vars(Reconcile(e))

LiveSpec == Spec /\ Fairness

-----------------------------------------------------------------------------
(* Properties.                                                             *)

(* Every state is well typed, with the states of alert_episode_intakes and  *)
(* the steps of processAlert.                                              *)
TypeOK ==
    /\ intake \in [Episodes -> [st : States, obs : Statuses, old : BOOLEAN,
                                root : Threads \cup {None}, in : Incidents \cup {None}]]
    /\ sig \in [Episodes -> [st : {"absent", "firing", "resolved"},
                             owner : Incidents \cup {None}, slack : BOOLEAN]]
    /\ inc \in [Incidents -> [st : {"absent", "open", "closed"}, ep : Episodes \cup {None}]]
    /\ bound \in [Episodes -> [Threads -> Incidents \cup {None}]]
    /\ posts \in [Episodes -> Nat]
    /\ key \in [Episodes -> BOOLEAN]
    /\ subscribed \in BOOLEAN
    /\ prov \in [Episodes -> [known : BOOLEAN, over : BOOLEAN,
                              owed : SUBSET Statuses, odd : BOOLEAN]]
    /\ budget \in Nat

(* An episode gets at most one root message in Slack: a post nobody heard  *)
(* of again, a crash, a lost answer, a replay or a copy in another process *)
(* never leads to a second (the fence of claimAlertEpisodeRootPost).       *)
OneRootPerEpisode == \A e \in Episodes : posts[e] <= 1

(* What acceptAlertEpisodeIntake acknowledges exists: the thread is bound  *)
(* to the incident the intake names, also after merges, it was posted or   *)
(* is the notice bound before, and a signal owns the episode.              *)
AcceptedIsComplete ==
    \A e \in Episodes : intake[e].st = "accepted" =>
        /\ intake[e].root # None /\ intake[e].in # None
        /\ bound[e][intake[e].root] = intake[e].in
        /\ sig[e].st # "absent"
        /\ posts[e] = 0 => intake[e].root = "notice"

(* A cleared episode stays cleared: the copies, replays and older          *)
(* notifications still in flight when applySignalObservationTx recorded    *)
(* the clear never open it again.                                          *)
ClearIsFinal == [][\A e \in Episodes : sig[e].st = "resolved" => sig'[e].st = "resolved"]_vars

(* Whatever a process died of, every notification the provider still sends *)
(* is in the end acknowledged by processAlert, unless the channel is not   *)
(* listened to.                                                            *)
EpisodeSettles ==
    \A e \in Episodes :
        prov[e].owed # {} ~> (prov[e].owed = {} \/ ~subscribed)

(* A condition that cleared at the provider reaches the signal, by the     *)
(* resolved notification or by reconcileConnectorLifecycle, unless the     *)
(* episode was set aside (an uncertain root, a failure category), its      *)
(* incident is closed, or the channel is not listened to.                  *)
ClearArrives ==
    \A e \in Episodes :
        prov[e].over ~> \/ sig[e].st = "resolved"
                        \/ intake[e].st = "uncertain" \/ prov[e].odd \/ ~subscribed
                        \/ \E i \in Incidents : sig[e].owner = i /\ inc[i].st = "closed"
=============================================================================
