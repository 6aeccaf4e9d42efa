---------------------- MODULE IncidentRecoveryProgress ----------------------
(***************************************************************************)
(* Why an investigation that is shown in progress ends: the proof of       *)
(* GatheringIsOwned, for any incidents, signals, jobs, workers and budgets.*)
(*                                                                         *)
(* It holds as long as no worker dies during its check and none stalls     *)
(* past its lease (ChecksUncut): the progress such a check leaves behind   *)
(* is given back by whoever claims its row again, and by nobody if the     *)
(* reconciler retires that row first.                                      *)
(***************************************************************************)
EXTENDS IncidentRecoveryVerdict

-----------------------------------------------------------------------------
(* Investigations in progress: every one has its owner.                    *)

\* A worker with a check under way.
Engaged(me) == me.pc \in {"checking", "broken"}

\* No worker stalls past its lease, and none dies with a check under way.
ChecksUncut ==
    \A w \in Workers :
        /\ Engaged(worker[w]) => worker'[w].pc # "idle"
        /\ worker[w].lease /\ worker'[w].pc # "idle" => worker'[w].lease

\* An incident in progress names the run that owns the progress: the run of a
\* claimed job of the incident, which keeps what it will give back.
Backed(d, i) ==
    LET run == d.inc[i].run
    IN  d.inc[i].gathering =>
          /\ run \in Jobs \X Nat
          /\ d.job[run[1]].inc = i /\ d.job[run[1]].st = "processing" /\ d.job[run[1]].saved

\* A check that could not give back the progress it replaces.
Owes(r) == r.st \in {"queued", "processing"} /\ ~r.saved

Tended(d) == (\A i \in Incidents : Backed(d, i)) /\ \A j \in Jobs : ~Owes(d.job[j])

\* The worker of that run holds the incident's lock and the lease of the job,
\* and will end the progress or give it back.
Owner(w, i) ==
    /\ Engaged(worker[w]) /\ worker[w].saved
    /\ worker[w].run = db.inc[i].run /\ worker[w].job = db.inc[i].run[1]

Manned ==
    /\ \A w \in Workers : worker[w].pc # "idle" =>
         worker[w].lease /\ db.job[worker[w].job].st = "processing" /\ lock[On(w)] = w
    /\ \A w \in Workers : worker[w].pc = "checking" =>
         worker[w].saved /\ RunOpen(db, worker[w].run) /\ worker[w].run[1] = worker[w].job
    /\ \A i \in Incidents : db.inc[i].gathering => \E w \in Workers : Owner(w, i)

TendInv == Tended(db) /\ Manned

-----------------------------------------------------------------------------
(* What a transaction does to progress and to claimed rows.                *)

\* Progress may end, it is neither begun nor handed to another run.
Sinks(r, q) ==
    /\ q.gathering => r.gathering /\ q.run = r.run
    /\ q.run \in {r.run, None}

\* A claimed row stays claimed, for its incident, with what it saved; outside
\* js it stays as it is.
Claimed(d, e, js) ==
    \A j \in Jobs : d.job[j].st = "processing" =>
        /\ e.job[j].st = "processing" /\ e.job[j].inc = d.job[j].inc
        /\ e.job[j].saved = d.job[j].saved
        /\ j \notin js => e.job[j] = d.job[j]

\* No job is queued.
Falls(d, e, js) ==
    /\ Sane(e) /\ Claimed(d, e, js)
    /\ \A i \in Incidents : Sinks(d.inc[i], e.inc[i])
    /\ \A j \in Jobs : Owes(e.job[j]) => Owes(d.job[j])
    /\ FreeJobs(d) \subseteq FreeJobs(e)

\* One may be, and saves what there is to save.
Minds(d, e, js) ==
    /\ Sane(e) /\ Claimed(d, e, js)
    /\ \A i \in Incidents : Sinks(d.inc[i], e.inc[i])
    /\ Tended(d) => \A j \in Jobs : ~Owes(e.job[j])

LEMMA FallsMinds == \A d, e, js : Falls(d, e, js) => Minds(d, e, js)
  BY DEF Falls, Minds, Tended

LEMMA ClaimedOn == \A d, e, f, js : Claimed(d, e, js) /\ Claimed(e, f, js) => Claimed(d, f, js)
  BY DEF Claimed

LEMMA ClaimedWider == \A d, e, js, ks : Claimed(d, e, js) /\ js \subseteq ks => Claimed(d, e, ks)
  BY DEF Claimed

LEMMA FallsWider ==
    \A d, e, js, ks : js \subseteq ks =>
        /\ Falls(d, e, js) => Falls(d, e, ks)
        /\ Minds(d, e, js) => Minds(d, e, ks)
  BY ClaimedWider DEF Falls, Minds

LEMMA FallsSelf == \A d, js : Sane(d) => Falls(d, d, js)
  BY DEF Falls, Claimed, Sinks

LEMMA FallsOn == \A d, e, f, js : Falls(d, e, js) /\ Falls(e, f, js) => Falls(d, f, js)
  <1> SUFFICES ASSUME NEW d, NEW e, NEW f, NEW js, Falls(d, e, js), Falls(e, f, js)
               PROVE  Falls(d, f, js)
    OBVIOUS
  <1>1. Claimed(d, f, js)
    BY ClaimedOn DEF Falls
  <1>2. \A i \in Incidents : Sinks(d.inc[i], f.inc[i])
    BY DEF Falls, Sinks
  <1> QED
    BY <1>1, <1>2 DEF Falls

\* The owners named by what is left of the progress are still what they were.
LEMMA MindsTended ==
    ASSUME NEW d, NEW e, NEW js, Sane(d), Minds(d, e, js), Tended(d)
    PROVE  Tended(e)
  <1>1. ASSUME NEW i \in Incidents, e.inc[i].gathering
        PROVE  LET run == e.inc[i].run
               IN  /\ run \in Jobs \X Nat
                   /\ e.job[run[1]].inc = i /\ e.job[run[1]].st = "processing" /\ e.job[run[1]].saved
    <2> DEFINE run == d.inc[i].run
    <2>1. d.inc[i].gathering /\ e.inc[i].run = run
      BY <1>1 DEF Minds, Sinks
    <2>2. /\ run \in Jobs \X Nat /\ d.job[run[1]].inc = i /\ d.job[run[1]].st = "processing"
          /\ d.job[run[1]].saved
      BY <2>1 DEF Tended, Backed
    <2>3. run[1] \in Jobs
      BY <2>2
    <2> QED
      <3>1. Claimed(d, e, js)
        BY DEF Minds
      <3>2. \A j \in Jobs : d.job[j].st = "processing" =>
              /\ e.job[j].st = "processing" /\ e.job[j].inc = d.job[j].inc
              /\ e.job[j].saved = d.job[j].saved
        BY <3>1 DEF Claimed
      <3>3. /\ e.job[run[1]].st = "processing" /\ e.job[run[1]].inc = i
            /\ e.job[run[1]].saved
        BY <2>2, <2>3, <3>2
      <3> QED
        BY <2>1, <2>2, <3>3
  <1> QED
    BY <1>1 DEF Minds, Tended, Backed

LEMMA MindsOn ==
    ASSUME NEW d, NEW e, NEW f, NEW js, Sane(d), Minds(d, e, js), Minds(e, f, js)
    PROVE  Minds(d, f, js)
  <1>1. Claimed(d, f, js)
    BY ClaimedOn DEF Minds
  <1>2. \A i \in Incidents : Sinks(d.inc[i], f.inc[i])
    BY DEF Minds, Sinks
  <1>3. Tended(d) => \A j \in Jobs : ~Owes(f.job[j])
    BY MindsTended DEF Minds
  <1> QED
    BY <1>1, <1>2, <1>3 DEF Minds

-----------------------------------------------------------------------------
(* The rows.                                                               *)

LEMMA SinksSelf == \A r : Sinks(r, r)
  BY DEF Sinks

\* A transaction of the incident table.
LEMMA IncidentsFall ==
    ASSUME NEW d, NEW e, Sane(e), e.job = d.job,
           \A k \in Incidents : Sinks(d.inc[k], e.inc[k])
    PROVE  Falls(d, e, {})
  <1>1. Claimed(d, e, {})
    BY DEF Claimed
  <1>2. FreeJobs(d) \subseteq FreeJobs(e)
    BY FreesBy DEF Sinks
  <1> QED
    BY <1>1, <1>2 DEF Falls

LEMMA IncsFall ==
    ASSUME NEW d, Sane(d), NEW f \in [Incidents -> IncRows],
           \A k \in Incidents : Sinks(d.inc[k], f[k])
    PROVE  LET e == [d EXCEPT !.inc = f]
           IN  Falls(d, e, {}) /\ e.inc = f /\ e.job = d.job
  <1> DEFINE e == [d EXCEPT !.inc = f]
  <1>1. Leads(d, e) /\ e.inc = f /\ e.job = d.job
    BY IncSet
  <1> HIDE DEF e
  <1>2. Falls(d, e, {})
    BY <1>1, IncidentsFall DEF Leads
  <1> QED
    BY <1>1, <1>2 DEF e

LEMMA IncFalls ==
    ASSUME NEW d, Sane(d), NEW i \in Incidents, NEW r \in IncRows, Sinks(d.inc[i], r)
    PROVE  LET e == [d EXCEPT !.inc[i] = r]
           IN  /\ Falls(d, e, {}) /\ e.job = d.job
               /\ e.inc = [k \in Incidents |-> IF k = i THEN r ELSE d.inc[k]]
  <1> DEFINE e == [d EXCEPT !.inc[i] = r]
  <1>1. /\ Leads(d, e) /\ e.job = d.job
        /\ e.inc = [k \in Incidents |-> IF k = i THEN r ELSE d.inc[k]]
    BY IncRow
  <1> HIDE DEF e
  <1>2. Falls(d, e, {})
    BY <1>1, SinksSelf, IncidentsFall DEF Leads
  <1> QED
    BY <1>1, <1>2 DEF e

\* A transaction of the job table that queues nothing.
LEMMA JobsFall ==
    ASSUME NEW d, Sane(d), NEW f \in [Jobs -> JobRows], NEW js,
           \A j \in Jobs : /\ f[j].inc = d.job[j].inc
                           /\ f[j].open => d.job[j].open
                           /\ d.job[j].st \in Spare => f[j].st = d.job[j].st
                           /\ d.job[j].st # "absent" => f[j].st # "absent"
                           /\ Owes(f[j]) => Owes(d.job[j]),
           \A j \in Jobs : d.job[j].st = "processing" =>
                           /\ f[j].st = "processing" /\ f[j].saved = d.job[j].saved
                           /\ j \notin js => f[j] = d.job[j]
    PROVE  LET e == [d EXCEPT !.job = f]
           IN  Falls(d, e, js) /\ e.inc = d.inc /\ e.job = f
  <1> DEFINE e == [d EXCEPT !.job = f]
  <1>1. Eases(d, e) /\ e.inc = d.inc /\ e.job = f
    BY JobsEase
  <1> HIDE DEF e
  <1>2. Claimed(d, e, js)
    BY <1>1 DEF Claimed
  <1>3. Falls(d, e, js)
    BY <1>1, <1>2, SinksSelf DEF Falls, Eases
  <1> QED
    BY <1>1, <1>3 DEF e

\* One row of the job table, which stays where it is.
LEMMA JobFalls ==
    ASSUME NEW d, Sane(d), NEW j \in Jobs, NEW r \in JobRows, r.inc = d.job[j].inc,
           r.st = d.job[j].st, r.saved = d.job[j].saved, r.open => d.job[j].open
    PROVE  LET e == [d EXCEPT !.job[j] = r]
           IN  Falls(d, e, {j}) /\ e.inc = d.inc
  <1> DEFINE f == [d.job EXCEPT ![j] = r]
             e == [d EXCEPT !.job = f]
  <1>1. d.job \in [Jobs -> JobRows]
    BY DEF Sane, Tables
  <1>2. f \in [Jobs -> JobRows] /\ \A k \in Jobs : f[k] = IF k = j THEN r ELSE d.job[k]
    BY <1>1
  <1>3. [d EXCEPT !.job[j] = r] = e
    OBVIOUS
  <1> HIDE DEF f
  <1>4. Falls(d, e, {j}) /\ e.inc = d.inc
    <2>1. \A k \in Jobs : /\ f[k].inc = d.job[k].inc
                          /\ f[k].open => d.job[k].open
                          /\ d.job[k].st \in Spare => f[k].st = d.job[k].st
                          /\ d.job[k].st # "absent" => f[k].st # "absent"
                          /\ Owes(f[k]) => Owes(d.job[k])
      BY <1>2 DEF Owes
    <2>2. \A k \in Jobs : d.job[k].st = "processing" =>
                          /\ f[k].st = "processing" /\ f[k].saved = d.job[k].saved
                          /\ k \notin {j} => f[k] = d.job[k]
      BY <1>2
    <2> QED
      BY <1>2, <2>1, <2>2, JobsFall
  <1> QED
    BY <1>3, <1>4

-----------------------------------------------------------------------------
(* The transactions, one lemma each.                                       *)

LEMMA ClearRecoveryFalls ==
    ASSUME NEW d, Sane(d), NEW i \in Incidents
    PROVE  Falls(d, ClearRecovery(d, i), {})
  <1> DEFINE row  == d.inc[i]
             back == row.gathering /\ row.run # None /\ d.job[row.run[1]].saved
             keep == row.gathering /\ ~back
             run  == IF keep THEN row.run ELSE None
             calm == NoVerdict(row)
             r    == [calm EXCEPT !.gathering = keep, !.basis = None, !.run = run]
             f    == [j \in Jobs |-> IF j \in Queued(d, i)
                                     THEN [d.job[j] EXCEPT !.st = "done"] ELSE d.job[j]]
             e    == [d EXCEPT !.inc[i] = r]
  <1>1. row \in IncRows
    BY Rows
  <1>2. run \in {row.run, None} /\ run \in Runs /\ keep \in BOOLEAN
    BY <1>1 DEF IncRows, Runs
  <1>3. r \in IncRows /\ r.gathering = keep /\ r.run = run
    <2>1. calm \in IncRows
      BY <1>1, RowOps
    <2> HIDE DEF calm, row, keep, run
    <2> QED
      BY <2>1, <1>2 DEF IncRows
  <1>4. Sinks(row, r)
    <2> HIDE DEF r, row
    <2> QED
      BY <1>3 DEF Sinks
  <1>5. ClearRecovery(d, i) = [e EXCEPT !.job = f]
    <2>1. ClearRecovery(d, i) = [d EXCEPT !.inc[i] = r, !.job = f]
      BY ZenonT(60), SMTT(60) DEF ClearRecovery
    <2> HIDE DEF r, f
    <2> QED
      BY <2>1
  <1> HIDE DEF r, row, run
  <1>6. Falls(d, e, {}) /\ e.job = d.job
    <2>1. Sinks(d.inc[i], r) /\ r \in IncRows
      BY <1>3, <1>4 DEF row
    <2> QED
      BY <2>1, IncFalls
  <1> HIDE DEF e
  <1>7. \A j \in Jobs : d.job[j] \in JobRows
    BY Rows
  <1>8. f \in [Jobs -> JobRows]
    BY <1>7 DEF JobRows
  <1>9. \A j \in Jobs : /\ f[j].inc = e.job[j].inc
                        /\ f[j].open => e.job[j].open
                        /\ e.job[j].st \in Spare => f[j].st = e.job[j].st
                        /\ e.job[j].st # "absent" => f[j].st # "absent"
                        /\ Owes(f[j]) => Owes(e.job[j])
    BY <1>6, <1>7 DEF JobRows, Queued, Spare, Owes
  <1>10. \A j \in Jobs : e.job[j].st = "processing" =>
                        /\ f[j].st = "processing" /\ f[j].saved = e.job[j].saved
                        /\ j \notin {} => f[j] = e.job[j]
    BY <1>6 DEF Queued
  <1> HIDE DEF f
  <1>11. LET g == [e EXCEPT !.job = f] IN Falls(e, g, {})
    BY <1>6, <1>8, <1>9, <1>10, JobsFall DEF Falls
  <1> QED
    BY <1>5, <1>6, <1>11, FallsOn

LEMMA ClearGroupFalls ==
    ASSUME NEW d, Sane(d), NEW i \in Incidents
    PROVE  Falls(d, ClearGroup(d, i), {})
  <1> DEFINE f == [k \in Incidents |-> IF k \in Group(d, i) THEN [d.inc[k] EXCEPT !.basis = None]
                                       ELSE d.inc[k]]
             e == [d EXCEPT !.inc = f]
  <1>1. \A k \in Incidents : d.inc[k] \in IncRows
    BY Rows
  <1>2. f \in [Incidents -> IncRows] /\ \A k \in Incidents : Sinks(d.inc[k], f[k])
    BY <1>1 DEF IncRows, Sinks
  <1>3. ClearGroup(d, i) = ClearRecovery(e, Root(d, i))
    BY DEF ClearGroup
  <1> HIDE DEF f
  <1>4. Falls(d, e, {})
    BY <1>2, IncsFall
  <1> HIDE DEF e
  <1>5. Falls(e, ClearRecovery(e, Root(d, i)), {})
    BY <1>4, RootIn, ClearRecoveryFalls DEF Falls
  <1> QED
    BY <1>3, <1>4, <1>5, FallsOn

\* Who owns the progress ends it.
LEMMA RestoreFalls ==
    ASSUME NEW d, Sane(d), NEW i \in Incidents, NEW saved, NEW run
    PROVE  LET e == Restore(d, i, saved, run)
           IN  /\ Falls(d, e, {}) /\ e.job = d.job
               /\ saved /\ (d.inc[i].gathering => d.inc[i].run = run) => ~e.inc[i].gathering
  <1> DEFINE r == [NoVerdict(d.inc[i]) EXCEPT !.gathering = FALSE]
             e == [d EXCEPT !.inc[i] = r]
  <1>1. d.inc[i] \in IncRows
    BY Rows
  <1>2. r \in IncRows /\ ~r.gathering /\ r.run = None
    BY <1>1, Counts DEF IncRows, NoVerdict, Runs
  <1>3. Restore(d, i, saved, run)
          = IF saved /\ d.inc[i].gathering /\ d.inc[i].run = run THEN e ELSE d
    BY DEF Restore
  <1> HIDE DEF r
  <1>4. Falls(d, e, {}) /\ e.job = d.job /\ e.inc[i] = r
    <2>1. Sinks(d.inc[i], r)
      BY <1>2 DEF Sinks
    <2>2. /\ Falls(d, e, {}) /\ e.job = d.job
          /\ e.inc = [k \in Incidents |-> IF k = i THEN r ELSE d.inc[k]]
      BY <1>2, <2>1, IncFalls
    <2> QED
      BY <2>2
  <1> HIDE DEF e
  <1> QED
    BY <1>2, <1>3, <1>4, FallsSelf

LEMMA CompleteFalls ==
    ASSUME NEW d, Sane(d), NEW run \in Jobs \X Nat
    PROVE  Falls(d, Complete(d, run), {run[1]}) /\ Complete(d, run).inc = d.inc
  <1> DEFINE j == run[1]
             r == [d.job[j] EXCEPT !.open = FALSE]
  <1>1. j \in Jobs /\ d.job[j] \in JobRows
    BY Rows
  <1>2. /\ r \in JobRows /\ ~r.open /\ r.st = d.job[j].st /\ r.inc = d.job[j].inc
        /\ r.saved = d.job[j].saved
    BY <1>1 DEF JobRows
  <1>3. Complete(d, run) = IF RunOpen(d, run) THEN [d EXCEPT !.job[j] = r] ELSE d
    BY <1>1 DEF Complete, Sane, Tables
  <1> HIDE DEF r, j
  <1>4. Falls(d, [d EXCEPT !.job[j] = r], {j}) /\ [d EXCEPT !.job[j] = r].inc = d.inc
    BY <1>1, <1>2, JobFalls
  <1> QED
    BY <1>3, <1>4, FallsSelf DEF j

LEMMA RefenceFalls ==
    ASSUME NEW d, Sane(d), NEW members, members \subseteq Incidents
    PROVE  Falls(d, Refence(d, members), {})
  <1> DEFINE signalled == \E s \in Signals : d.sig[s].state # "absent" /\ d.sig[s].owner \in members
             hit == { k \in members : signalled \/ d.inc[k].rec # None \/ d.inc[k].basis # None }
             back(row) == row.gathering /\ row.run # None /\ d.job[row.run[1]].saved
             run(k) == IF d.inc[k].gathering /\ ~back(d.inc[k]) THEN d.inc[k].run ELSE None
             r(k) == [Bumped(NoVerdict(d.inc[k])) EXCEPT
                        !.gathering = @ /\ ~back(d.inc[k]), !.basis = None, !.run = run(k)]
             f == [k \in Incidents |-> IF k \notin hit THEN d.inc[k] ELSE r(k)]
             h == [j \in Jobs |-> IF d.job[j].inc \in hit /\ d.job[j].st = "queued"
                                  THEN [d.job[j] EXCEPT !.st = "done"] ELSE d.job[j]]
             c == [d EXCEPT !.inc = f]
             e == [c EXCEPT !.job = h]
  <1>1. Refence(d, members) = e
    BY DEF Refence
  <1>2. ASSUME NEW k \in Incidents
        PROVE  r(k) \in IncRows /\ Sinks(d.inc[k], r(k))
    <2> DEFINE b == Bumped(NoVerdict(d.inc[k]))
               keep == b.gathering /\ ~back(d.inc[k])
               q == [b EXCEPT !.gathering = keep, !.basis = None, !.run = run(k)]
    <2>1. d.inc[k] \in IncRows /\ b \in IncRows /\ b.gathering = d.inc[k].gathering
      <3>1. d.inc[k] \in IncRows /\ NoVerdict(d.inc[k]) \in IncRows
            /\ NoVerdict(d.inc[k]).gathering = d.inc[k].gathering
        BY Rows, RowOps
      <3>2. \A n \in IncRows : Bumped(n) \in IncRows /\ Bumped(n).gathering = n.gathering
        BY BumpedRow DEF Bumped, IncRows
      <3> QED
        BY <3>1, <3>2
    <2>2. run(k) \in Runs /\ run(k) \in {d.inc[k].run, None} /\ keep \in BOOLEAN
          /\ (keep => d.inc[k].gathering /\ run(k) = d.inc[k].run)
      BY <2>1 DEF IncRows, Runs
    <2>3. r(k) = q
      BY DEF b
    <2> HIDE DEF b, keep, run, r
    <2>4. q \in IncRows /\ q.gathering = keep /\ q.run = run(k)
      BY <2>1, <2>2, ZenonT(40) DEF IncRows
    <2> HIDE DEF q
    <2> QED
      BY <2>2, <2>3, <2>4 DEF Sinks
  <1> HIDE DEF r, run
  <1>3. f \in [Incidents -> IncRows] /\ \A k \in Incidents : Sinks(d.inc[k], f[k])
    BY <1>2, Rows, SinksSelf
  <1> HIDE DEF f, hit
  <1>4. Falls(d, c, {}) /\ c.job = d.job
    BY <1>3, IncsFall
  <1> HIDE DEF c
  <1>5. \A j \in Jobs : d.job[j] \in JobRows
    BY Rows
  <1>6. h \in [Jobs -> JobRows]
    BY <1>5 DEF JobRows
  <1>7. \A j \in Jobs : /\ h[j].inc = c.job[j].inc
                        /\ h[j].open => c.job[j].open
                        /\ c.job[j].st \in Spare => h[j].st = c.job[j].st
                        /\ c.job[j].st # "absent" => h[j].st # "absent"
                        /\ Owes(h[j]) => Owes(c.job[j])
    BY <1>4, <1>5 DEF JobRows, Spare, Owes
  <1>8. \A j \in Jobs : c.job[j].st = "processing" =>
                        /\ h[j].st = "processing" /\ h[j].saved = c.job[j].saved
                        /\ j \notin {} => h[j] = c.job[j]
    BY <1>4
  <1> HIDE DEF h
  <1>9. Falls(c, e, {})
    BY <1>4, <1>6, <1>7, <1>8, JobsFall DEF Falls
  <1> HIDE DEF e
  <1> QED
    BY <1>1, <1>4, <1>9, FallsOn

LEMMA BumpedSinks ==
    ASSUME NEW r \in IncRows
    PROVE  /\ Bumped(r) \in IncRows /\ Bumped(r).gathering = r.gathering /\ Bumped(r).run = r.run
           /\ Sinks(r, Bumped(r))
  BY BumpedRow DEF Bumped, IncRows, Sinks

LEMMA TransitionFalls ==
    ASSUME NEW d, Sane(d), NEW i \in Incidents, NEW to \in Statuses
    PROVE  Falls(d, Transition(d, i, to), {})
  <1> DEFINE row   == d.inc[i]
             since == IF to \in Active THEN row.since ELSE row.ver + 1
             basis == CASE to \in Active -> None
                        [] to = "resolved" -> "operator"
                        [] OTHER -> row.basis
             moved == [row EXCEPT !.status = to, !.ver = row.ver + 1, !.since = since,
                         !.basis = basis]
             d1 == [d EXCEPT !.inc[i] = moved]
             d2 == ClearGroup(d1, i)
             d3 == ClearRecovery(d2, i)
             b  == Bumped(d3.inc[Root(d, i)])
             d4 == [d3 EXCEPT !.inc[Root(d, i)] = b]
             m1 == [row EXCEPT !.status = to, !.ver = @ + 1,
                         !.since = IF to \in Active THEN @ ELSE row.ver + 1,
                         !.basis = CASE to \in Active -> None
                                     [] to = "resolved" -> "operator"
                                     [] OTHER -> @]
             c1 == [d EXCEPT !.inc[i] = m1]
             c2 == ClearGroup(c1, i)
             c3 == ClearRecovery(c2, i)
             c4 == [c3 EXCEPT !.inc[Root(d, i)] = Bumped(@)]
  <1>1. Transition(d, i, to)
          = IF ~CanMove(d, i, to) THEN d
            ELSE IF row.status \in Active \/ to # "open" THEN c1
            ELSE IF Root(d, i) = i THEN c2 ELSE c4
    BY DEF Transition
  <1>2. row \in IncRows /\ row.ver + 1 \in Nat
    BY Rows DEF IncRows
  <1>3. m1 = moved
    BY <1>2 DEF IncRows
  <1>4. moved \in IncRows /\ moved.gathering = row.gathering /\ moved.run = row.run
    <2>1. since \in Nat
      BY <1>2 DEF IncRows
    <2>2. basis \in {None, "operator", row.basis}
      OBVIOUS
    <2>3. basis \in {None, "operator", "verified_recovery", "provider_clear"}
      BY <1>2, <2>2 DEF IncRows
    <2> HIDE DEF since, basis, row
    <2> QED
      BY <1>2, <2>1, <2>3 DEF IncRows
  <1>5. c1 = d1 /\ c2 = d2 /\ c3 = d3
    BY <1>3
  <1> HIDE DEF moved, m1, c1, c2, c3
  <1>6. Falls(d, d1, {})
    <2>1. Sinks(row, moved)
      BY <1>4 DEF Sinks
    <2> QED
      BY <1>4, <2>1, IncFalls
  <1> HIDE DEF d1
  <1>7. Falls(d, d2, {})
    BY <1>6, ClearGroupFalls, FallsOn DEF Falls
  <1> HIDE DEF d2
  <1>8. Falls(d, d3, {})
    BY <1>7, ClearRecoveryFalls, FallsOn DEF Falls
  <1> HIDE DEF d3
  <1>9. Sane(d3) /\ Root(d, i) \in Incidents
    BY <1>8, RootIn DEF Falls
  <1>10. c4 = d4
    BY <1>5, <1>9 DEF Sane, Tables
  <1>11. Falls(d3, d4, {})
    <2>1. b \in IncRows /\ Sinks(d3.inc[Root(d, i)], b)
      BY <1>9, Rows, BumpedSinks
    <2> HIDE DEF b
    <2> QED
      BY <1>9, <2>1, IncFalls
  <1> HIDE DEF d4, c4
  <1>12. Falls(d, d4, {}) /\ Falls(d, d, {})
    BY <1>8, <1>11, FallsOn, FallsSelf
  <1> QED
    BY <1>1, <1>5, <1>6, <1>7, <1>10, <1>12

LEMMA ResolveGroupFalls ==
    ASSUME NEW d, Sane(d), NEW root \in Incidents,
           NEW basis \in {"verified_recovery", "provider_clear"}
    PROVE  Falls(d, ResolveGroup(d, root, basis), {})
  <1> DEFINE hit  == { k \in Group(d, root) : k = root \/ d.inc[k].status \in Active }
             won  == { k \in hit : CanMove(d, k, "resolved") }
             r(k) == [Bumped(d.inc[k]) EXCEPT !.status = "resolved", !.basis = basis,
                        !.rec = IF basis = "provider_clear" THEN None ELSE @]
             f    == [k \in Incidents |-> IF k \notin won THEN d.inc[k] ELSE r(k)]
             e    == [d EXCEPT !.inc = f]
  <1>1. ResolveGroup(d, root, basis) = IF ~CanMove(d, root, "resolved") THEN d ELSE e
    BY DEF ResolveGroup
  <1>2. ASSUME NEW k \in Incidents PROVE r(k) \in IncRows /\ Sinks(d.inc[k], r(k))
    <2> DEFINE b   == Bumped(d.inc[k])
               rec == IF basis = "provider_clear" THEN None ELSE b.rec
               q   == [b EXCEPT !.status = "resolved", !.basis = basis, !.rec = rec]
    <2>1. b \in IncRows /\ b.gathering = d.inc[k].gathering /\ b.run = d.inc[k].run
      BY Rows, BumpedSinks
    <2>2. rec \in {None, "verifying", "monitoring", "verified", "not_verified"}
      BY <2>1 DEF IncRows
    <2>3. r(k) = q
      BY DEF b
    <2> HIDE DEF b, rec, r
    <2>4. q \in IncRows /\ q.gathering = b.gathering /\ q.run = b.run
      BY <2>1, <2>2, ZenonT(40) DEF IncRows, Statuses, Closed
    <2> HIDE DEF q
    <2> QED
      BY <2>1, <2>3, <2>4 DEF Sinks
  <1> HIDE DEF r, won
  <1>3. f \in [Incidents -> IncRows] /\ \A k \in Incidents : Sinks(d.inc[k], f[k])
    BY <1>2, Rows, SinksSelf
  <1> HIDE DEF f
  <1>4. Falls(d, e, {}) /\ Falls(d, d, {})
    BY <1>3, IncsFall, FallsSelf
  <1> HIDE DEF e
  <1> QED
    BY <1>1, <1>4

LEMMA ProviderClearFalls ==
    ASSUME NEW d, Sane(d), NEW i \in Incidents
    PROVE  Falls(d, ProviderClear(d, i), {})
  <1> DEFINE r == [d.inc[i] EXCEPT !.rec = "not_verified", !.basis = None]
             e == [d EXCEPT !.inc[i] = r]
  <1>1. d.inc[i] \in IncRows /\ d \in Tables
    BY Rows DEF Sane
  <1>2. r \in IncRows /\ r.gathering = d.inc[i].gathering /\ r.run = d.inc[i].run
    BY <1>1 DEF IncRows
  <1>3. [d EXCEPT !.inc[i].rec = "not_verified", !.inc[i].basis = None] = e
    BY <1>1 DEF Tables, IncRows
  <1> HIDE DEF r
  <1>4. Falls(d, e, {})
    <2>1. Sinks(d.inc[i], r)
      BY <1>2 DEF Sinks
    <2> QED
      BY <1>2, <2>1, IncFalls
  <1> HIDE DEF e
  <1>5. ProviderClear(d, i)
          = IF Moot(d, i) \/ ~ProviderHandles(d, i) \/ Uncleared(d, i) THEN d
            ELSE IF PendingApproval(d, i) \/ ~Proven(d, i) THEN e
            ELSE ResolveGroup(d, i, "provider_clear")
    BY <1>3 DEF ProviderClear
  <1>6. Falls(d, ResolveGroup(d, i, "provider_clear"), {}) /\ Falls(d, d, {})
    BY ResolveGroupFalls, FallsSelf
  <1> QED
    BY <1>4, <1>5, <1>6

LEMMA AfterApprovalFalls ==
    ASSUME NEW d, Sane(d), NEW i \in Incidents
    PROVE  Falls(d, AfterApproval(d, i), {})
  <1> DEFINE root == Root(d, i)
  <1>1. root \in Incidents
    BY RootIn
  <1>2. AfterApproval(d, i)
          = IF ProviderHandles(d, root) THEN ProviderClear(d, root)
            ELSE IF d.inc[root].rec = "verified" /\ ~PendingApproval(d, root) /\ AllResolved(d, root)
            THEN ResolveGroup(d, root, "verified_recovery") ELSE d
    BY DEF AfterApproval
  <1> HIDE DEF root
  <1>3. Falls(d, ProviderClear(d, root), {}) /\ Falls(d, ResolveGroup(d, root, "verified_recovery"), {})
    BY <1>1, ProviderClearFalls, ResolveGroupFalls
  <1> QED
    BY <1>2, <1>3, FallsSelf

\* A check queued while an older one runs saves what that one saved: the row
\* that owns the progress is unsettled and saved.
LEMMA InsertMinds ==
    ASSUME NEW d, Sane(d), NEW i \in Incidents, NEW ver \in Nat, NEW fence \in Fences,
           NEW att \in 0..MaxChecks, NEW later \in BOOLEAN, FreeJobs(d) # {}
    PROVE  Minds(d, InsertRecovery(d, i, ver, fence, att, later), {})
  <1> DEFINE row   == d.inc[i]
             saved == ~row.gathering \/ \E j \in Unsettled(d, i) : d.job[j].saved
             given == IF att # 0 THEN att ELSE IF row.rec = "verifying" THEN row.att ELSE 0
             new   == CHOOSE j \in FreeJobs(d) : TRUE
             f     == [j \in Jobs |->
                         IF j \in Queued(d, i)
                         THEN [d.job[j] EXCEPT !.ver = ver, !.fence = fence, !.later = later,
                                     !.att = IF given # 0 THEN given ELSE @,
                                     !.saved = @ \/ saved]
                         ELSE d.job[j]]
             r     == [NoJob EXCEPT !.st = "queued", !.inc = i, !.ver = ver, !.fence = fence,
                             !.att = given, !.later = later, !.saved = saved]
             e     == InsertRecovery(d, i, ver, fence, att, later)
  <1>1. Sane(e) /\ e.inc = d.inc
    BY InsertMild, MildSane
  <1>2. row \in IncRows /\ (\A j \in Jobs : d.job[j] \in JobRows) /\ d \in Tables
    BY Rows DEF Sane
  <1>3. Tended(d) => saved
    <2> SUFFICES ASSUME Tended(d), row.gathering PROVE \E j \in Unsettled(d, i) : d.job[j].saved
      OBVIOUS
    <2> DEFINE j == row.run[1]
    <2>1. /\ row.run \in Jobs \X Nat /\ d.job[j].inc = i /\ d.job[j].st = "processing"
          /\ d.job[j].saved
      BY DEF Tended, Backed
    <2>2. j \in Jobs
      BY <2>1
    <2>3. j \in Unsettled(d, i)
      BY <2>1, <2>2 DEF Unsettled
    <2> QED
      BY <2>1, <2>3
  <1>4. saved \in BOOLEAN
    BY <1>2 DEF IncRows
  <1>5. e = IF Refused(row) THEN d
            ELSE IF Queued(d, i) # {} THEN [d EXCEPT !.job = f] ELSE [d EXCEPT !.job[new] = r]
    BY DEF InsertRecovery
  <1>6. new \in Jobs /\ d.job[new].st \in Spare
    BY DEF FreeJobs, Spare
  <1>7. \A j \in Jobs : \/ e.job[j] = d.job[j]
                        \/ /\ d.job[j].st = "queued" /\ e.job[j].saved = (d.job[j].saved \/ saved)
                        \/ d.job[j].st \in Spare /\ e.job[j].saved = saved
    <2>1. CASE e = d
      BY <2>1
    <2>2. CASE e = [d EXCEPT !.job = f]
      <3>1. e.job = f
        BY <1>2, <2>2 DEF Tables
      <3>2. \A j \in Jobs \ Queued(d, i) : f[j] = d.job[j]
        OBVIOUS
      <3>3. \A j \in Queued(d, i) : d.job[j].st = "queued" /\ f[j].saved = (d.job[j].saved \/ saved)
        <4> SUFFICES ASSUME NEW j \in Queued(d, i)
                     PROVE  d.job[j].st = "queued" /\ f[j].saved = (d.job[j].saved \/ saved)
          OBVIOUS
        <4> DEFINE a == IF given # 0 THEN given ELSE d.job[j].att
                   b == d.job[j].saved \/ saved
        <4>1. j \in Jobs /\ d.job[j].st = "queued" /\ d.job[j] \in JobRows
          BY <1>2 DEF Queued
        <4>2. f[j] = [d.job[j] EXCEPT !.ver = ver, !.fence = fence, !.later = later,
                                      !.att = a, !.saved = b]
          BY <4>1 DEF JobRows
        <4> HIDE DEF a, b, f
        <4>3. f[j].saved = b
          BY <4>1, <4>2 DEF JobRows
        <4> QED
          BY <4>1, <4>3 DEF b
      <3> HIDE DEF f
      <3> QED
        BY <3>1, <3>2, <3>3
    <2>3. CASE e = [d EXCEPT !.job[new] = r]
      <3>1. r.saved = saved
        BY DEF NoJob
      <3> HIDE DEF r, new
      <3>2. \A j \in Jobs : e.job[j] = IF j = new THEN r ELSE d.job[j]
        BY <1>2, <2>3 DEF Tables
      <3> QED
        BY <1>6, <3>1, <3>2
    <2> QED
      BY <1>5, <2>1, <2>2, <2>3
  <1> HIDE DEF e, saved
  <1>8. Claimed(d, e, {})
    BY <1>7 DEF Claimed, Spare
  <1>9. Tended(d) => \A j \in Jobs : ~Owes(e.job[j])
    BY <1>3, <1>7 DEF Tended, Owes
  <1> QED
    BY <1>1, <1>8, <1>9, SinksSelf DEF Minds, e

LEMMA StartMinds ==
    ASSUME NEW d, Sane(d), NEW i \in Incidents, FreeJobs(d) # {}
    PROVE  Minds(d, StartRecovery(d, i), {})
  <1>1. Root(d, i) \in Incidents
    BY RootIn
  <1>2. d.inc[Root(d, i)].ver \in Nat
    BY <1>1, Rows DEF IncRows
  <1>3. SignalFence(d, i) \in Fences
    BY FenceIn
  <1>4. Minds(d, InsertRecovery(d, Root(d, i), d.inc[Root(d, i)].ver, SignalFence(d, i), 0, FALSE), {})
    BY <1>1, <1>2, <1>3, Counts, InsertMinds
  <1>5. Minds(d, d, {})
    BY FallsSelf, FallsMinds
  <1> QED
    BY <1>4, <1>5 DEF StartRecovery

\* The last step of most transactions of the outside world.
LEMMA FallsStarts ==
    ASSUME NEW d, Sane(d), NEW e, Falls(d, e, {}), FreeJobs(d) # {}, NEW i \in Incidents
    PROVE  Minds(d, StartRecovery(e, i), {})
  <1>1. Minds(d, e, {}) /\ Sane(e) /\ FreeJobs(e) # {}
    BY FallsMinds DEF Falls
  <1> QED
    BY <1>1, StartMinds, MindsOn

-----------------------------------------------------------------------------
(* The outside world.                                                      *)

Mindful == Minds(db, db', {}) /\ UNCHANGED <<worker, lock>>

LEMMA SignalledFalls == \A d, e : Signalled(d, e) => Falls(d, e, {})
  <1> SUFFICES ASSUME NEW d, NEW e, Signalled(d, e) PROVE Falls(d, e, {})
    OBVIOUS
  <1>1. Sane(e) /\ e.job = d.job /\ e.inc = d.inc
    BY DEF Signalled, Leads
  <1> QED
    BY <1>1, SinksSelf, IncidentsFall

LEMMA SignalOpensMindful ==
    ASSUME Solid(db), NEW s \in Signals, SignalOpens(s) \/ ReportedRefires(s)
    PROVE  Mindful
  <1> DEFINE d == WithSignal(db, s, "active", None)
             e == ClearGroup(d, db.sig[s].owner)
  <1>1. db' = e /\ UNCHANGED <<worker, lock>>
    BY DEF SignalOpens, ReportedRefires, Outside
  <1>2. db.sig[s].owner \in Incidents
    BY Rows DEF Solid, SigRows
  <1>3. Signalled(db, d)
    BY WithSignalOK DEF Solid
  <1> HIDE DEF d
  <1>4. Falls(db, d, {}) /\ Falls(d, e, {})
    BY <1>2, <1>3, SignalledFalls, ClearGroupFalls DEF Falls
  <1> QED
    BY <1>1, <1>4, FallsOn, FallsMinds DEF Mindful

LEMMA SignalClearsMindful ==
    ASSUME Solid(db), NEW s \in Signals, SignalClears(s) \/ CorrectSignal(s)
    PROVE  Mindful
  <1> DEFINE i       == db.sig[s].owner
             d(prov) == WithSignal(db, s, "resolved", prov)
  <1>1. \E prov \in {"provider", "operator"} : db' = d(prov) \/ db' = StartRecovery(d(prov), i)
    <2>1. CASE SignalClears(s)
      BY <2>1 DEF SignalClears, Outside
    <2>2. CASE CorrectSignal(s)
      BY <2>2 DEF CorrectSignal, Outside
    <2> QED
      BY <2>1, <2>2
  <1>2. UNCHANGED <<worker, lock>> /\ FreeJobs(db) # {}
    BY DEF SignalClears, CorrectSignal, Outside, Roomy
  <1>3. i \in Incidents
    BY Rows DEF Solid, SigRows
  <1>4. \A prov \in {"provider", "operator"} : Signalled(db, d(prov))
    BY WithSignalOK DEF Solid
  <1> HIDE DEF d, i
  <1>5. \A prov \in {"provider", "operator"} : Falls(db, d(prov), {})
    BY <1>4, SignalledFalls
  <1>6. \A prov \in {"provider", "operator"} : Minds(db, StartRecovery(d(prov), i), {})
    BY <1>2, <1>3, <1>5, FallsStarts DEF Solid
  <1> QED
    BY <1>1, <1>2, <1>5, <1>6, FallsMinds DEF Mindful

LEMMA ConnectorChangesMindful ==
    ASSUME Solid(db), ConnectorChanges
    PROVE  Mindful
  <1> DEFINE f == [s \in Signals |-> IF db.sig[s].prov = "provider"
                                     THEN [db.sig[s] EXCEPT !.prov = "outdated"] ELSE db.sig[s]]
             e == [db EXCEPT !.sig = f]
  <1>1. \A s \in Signals : db.sig[s] \in SigRows
    BY Rows DEF Solid
  <1>2. f \in [Signals -> SigRows]
    BY <1>1 DEF SigRows
  <1>3. db' = e /\ UNCHANGED <<worker, lock>>
    BY DEF ConnectorChanges, Outside
  <1> HIDE DEF f
  <1>4. Leads(db, e) /\ e.inc = db.inc /\ e.job = db.job
    BY <1>2, SigSet DEF Solid
  <1> HIDE DEF e
  <1>5. Falls(db, e, {})
    BY <1>4, SinksSelf, IncidentsFall DEF Leads, Solid
  <1> QED
    BY <1>3, <1>5, FallsMinds DEF Mindful

LEMMA ReportRecoveryMindful ==
    ASSUME Solid(db), NEW i \in Incidents, NEW asked \in BOOLEAN, ReportRecovery(i, asked)
    PROVE  Mindful
  <1> DEFINE d == Report(db, i)
             root == Root(d, i)
             restart == asked /\ Recoverable(d, i) /\ Refused(d.inc[root])
             c == IF restart THEN ClearRecovery(d, root) ELSE d
             e == StartRecovery(c, i)
  <1>1. db' = e /\ UNCHANGED <<worker, lock>> /\ FreeJobs(db) # {}
    BY DEF ReportRecovery, Outside, Roomy
  <1>2. Signalled(db, d)
    BY ReportOK DEF Solid
  <1> HIDE DEF d
  <1>3. root \in Incidents /\ Falls(db, d, {})
    BY <1>2, RootIn, SignalledFalls
  <1> HIDE DEF root, restart
  <1>4. Falls(d, c, {})
    BY <1>3, ClearRecoveryFalls, FallsSelf DEF Falls
  <1> HIDE DEF c
  <1>5. Falls(db, c, {})
    BY <1>3, <1>4, FallsOn
  <1> QED
    BY <1>1, <1>5, FallsStarts DEF Mindful, Solid

LEMMA OperateMindful ==
    ASSUME Solid(db), NEW i \in Incidents, NEW to \in Statuses, Operate(i, to)
    PROVE  Mindful
  <1>1. db' = Transition(db, i, to) /\ UNCHANGED <<worker, lock>>
    BY DEF Operate, Outside
  <1> QED
    BY <1>1, TransitionFalls, FallsMinds DEF Mindful, Solid

LEMMA ChangePolicyMindful ==
    ASSUME Solid(db), NEW i \in Incidents,
           NEW policy \in {"verified_recovery", "provider_clear"}, ChangePolicy(i, policy)
    PROVE  Mindful
  <1> DEFINE root == Root(db, i)
             own  == ClearRecovery(db, i)
             both == IF root = i THEN own ELSE ClearRecovery(own, root)
             r1   == [Bumped(both.inc[i]) EXCEPT !.policy = policy, !.basis = None]
             d1   == [both EXCEPT !.inc[i] = r1]
             r2   == [Bumped(d1.inc[root]) EXCEPT !.basis = None]
             c2   == [d1 EXCEPT !.inc[root] = r2]
             d2   == IF root = i THEN d1 ELSE c2
             e    == StartRecovery(d2, i)
  <1>1. root \in Incidents
    BY RootIn
  <1>2. Falls(db, own, {})
    BY ClearRecoveryFalls DEF Solid
  <1>3. Falls(db, both, {})
    BY <1>1, <1>2, ClearRecoveryFalls, FallsOn DEF Falls
  <1>4. Sane(both)
    BY <1>3 DEF Falls
  <1> HIDE DEF both
  <1>5. r1 \in IncRows /\ Sinks(both.inc[i], r1)
    <2> DEFINE b == Bumped(both.inc[i])
    <2>1. b \in IncRows /\ Sinks(both.inc[i], b)
      BY <1>4, Rows, BumpedSinks
    <2>2. r1 = [b EXCEPT !.policy = policy, !.basis = None]
      OBVIOUS
    <2> HIDE DEF b, r1
    <2>3. r1 \in IncRows /\ r1.gathering = b.gathering /\ r1.run = b.run
      BY <2>1, <2>2 DEF IncRows
    <2> QED
      BY <2>1, <2>3 DEF Sinks
  <1>6. Falls(both, d1, {})
    BY <1>4, <1>5, IncFalls
  <1>7. Sane(d1)
    BY <1>6 DEF Falls
  <1>8. d1 = [both EXCEPT !.inc[i] = [Bumped(@) EXCEPT !.policy = policy, !.basis = None]]
    BY <1>4 DEF Sane, Tables
  <1> HIDE DEF d1
  <1>9. r2 \in IncRows /\ Sinks(d1.inc[root], r2)
    <2> DEFINE b == Bumped(d1.inc[root])
    <2>1. b \in IncRows /\ Sinks(d1.inc[root], b)
      BY <1>1, <1>7, Rows, BumpedSinks
    <2>2. r2 = [b EXCEPT !.basis = None]
      OBVIOUS
    <2> HIDE DEF b, r2
    <2>3. r2 \in IncRows /\ r2.gathering = b.gathering /\ r2.run = b.run
      BY <2>1, <2>2 DEF IncRows
    <2> QED
      BY <2>1, <2>3 DEF Sinks
  <1>10. Falls(d1, c2, {}) /\ Falls(d1, d1, {})
    BY <1>1, <1>7, <1>9, IncFalls, FallsSelf
  <1>11. c2 = [d1 EXCEPT !.inc[root] = [Bumped(@) EXCEPT !.basis = None]]
    BY <1>1, <1>7 DEF Sane, Tables
  <1>12. Falls(d1, d2, {})
    BY <1>10
  <1>13. db' = e /\ UNCHANGED <<worker, lock>> /\ FreeJobs(db) # {}
    BY <1>8, <1>11 DEF ChangePolicy, both, Outside, Roomy
  <1> HIDE DEF d2
  <1>14. Falls(db, d2, {})
    BY <1>3, <1>6, <1>12, FallsOn
  <1> QED
    BY <1>13, <1>14, FallsStarts DEF Mindful, Solid

LEMMA ArchiveMindful ==
    ASSUME Solid(db), NEW i \in Incidents, NEW allow \in BOOLEAN, Archive(i, allow)
    PROVE  Mindful
  <1> DEFINE g(k) == [db.inc[k] EXCEPT !.archived = TRUE, !.cause = None, !.merged = None]
             h(k) == [db.inc[k] EXCEPT !.cause = IF @ = i THEN None ELSE @,
                                       !.merged = IF @ = i THEN None ELSE @]
             f == [k \in Incidents |->
                     IF k = i THEN g(k)
                     ELSE IF db.inc[k].cause = i \/ db.inc[k].merged = i THEN h(k)
                     ELSE db.inc[k]]
             e == [db EXCEPT !.inc = f]
  <1>1. \A k \in Incidents : db.inc[k] \in IncRows
    BY Rows DEF Solid
  <1>2. ASSUME NEW k \in Incidents PROVE g(k) \in IncRows /\ Sinks(db.inc[k], g(k))
    <2> DEFINE row == db.inc[k]
    <2>1. row \in IncRows
      BY <1>1
    <2> HIDE DEF row
    <2>2. [row EXCEPT !.archived = TRUE, !.cause = None, !.merged = None] \in IncRows
      BY <2>1 DEF IncRows
    <2>3. Sinks(row, [row EXCEPT !.archived = TRUE, !.cause = None, !.merged = None])
      BY <2>1, SMTT(40) DEF IncRows, Sinks
    <2> QED
      BY <2>2, <2>3 DEF row
  <1>3. ASSUME NEW k \in Incidents PROVE h(k) \in IncRows /\ Sinks(db.inc[k], h(k))
    <2> DEFINE row    == db.inc[k]
               cause  == IF row.cause = i THEN None ELSE row.cause
               merged == IF row.merged = i THEN None ELSE row.merged
    <2>1. cause \in Incidents \cup {None} /\ merged \in Incidents \cup {None}
      BY <1>1 DEF IncRows
    <2>2. h(k) = [row EXCEPT !.cause = cause, !.merged = merged]
      BY <1>1 DEF IncRows
    <2>3. row \in IncRows
      BY <1>1
    <2> HIDE DEF cause, merged, h, row
    <2>4. h(k) \in IncRows /\ h(k).gathering = row.gathering /\ h(k).run = row.run
      BY <2>1, <2>2, <2>3 DEF IncRows
    <2> QED
      BY <2>4 DEF Sinks, row
  <1>4. db' = e /\ UNCHANGED <<worker, lock>>
    BY DEF Archive, Outside, g, h
  <1> HIDE DEF g, h
  <1>5. f \in [Incidents -> IncRows] /\ \A k \in Incidents : Sinks(db.inc[k], f[k])
    BY <1>1, <1>2, <1>3, SinksSelf
  <1> HIDE DEF f
  <1>6. Falls(db, e, {})
    BY <1>5, IncsFall DEF Solid
  <1> QED
    BY <1>4, <1>6, FallsMinds DEF Mindful

LEMMA ApprovalMindful ==
    ASSUME Solid(db), NEW i \in Incidents, NEW contended \in BOOLEAN,
           AskApproval(i) \/ DecideApproval(i, contended)
    PROVE  Mindful
  <1>1. ASSUME NEW b \in BOOLEAN PROVE Falls(db, [db EXCEPT !.app[i] = b], {})
    <2> DEFINE e == [db EXCEPT !.app[i] = b]
    <2>1. Leads(db, e) /\ e.inc = db.inc /\ e.job = db.job
      BY AppRow DEF Solid
    <2> HIDE DEF e
    <2>2. Falls(db, e, {})
      BY <2>1, SinksSelf, IncidentsFall DEF Leads, Solid
    <2> QED
      BY <2>2 DEF e
  <1>2. CASE AskApproval(i)
    <2>1. db' = [db EXCEPT !.app[i] = TRUE] /\ UNCHANGED <<worker, lock>>
      BY <1>2 DEF AskApproval, Outside
    <2> QED
      BY <1>1, <2>1, FallsMinds DEF Mindful
  <1>3. CASE DecideApproval(i, contended)
    <2> DEFINE d == [db EXCEPT !.app[i] = FALSE]
    <2>1. /\ db' = IF contended THEN StartRecovery(d, i) ELSE AfterApproval(d, i)
          /\ UNCHANGED <<worker, lock>> /\ FreeJobs(db) # {}
      BY <1>3 DEF DecideApproval, Roomy
    <2>2. Falls(db, d, {})
      BY <1>1
    <2> HIDE DEF d
    <2>3. Minds(db, StartRecovery(d, i), {})
      BY <2>1, <2>2, FallsStarts DEF Solid
    <2>4. Falls(db, AfterApproval(d, i), {})
      BY <2>2, AfterApprovalFalls, FallsOn DEF Falls
    <2> QED
      BY <2>1, <2>3, <2>4, FallsMinds DEF Mindful
  <1> QED
    BY <1>2, <1>3

\* An edge is set: progress and its owners stay.
LEMMA RelinkedFalls ==
    ASSUME NEW d, Sane(d), NEW c \in Incidents, NEW p \in Incidents \cup {None}
    PROVE  Falls(d, [d EXCEPT !.inc[c].cause = p], {})
  <1> DEFINE r == [d.inc[c] EXCEPT !.cause = p]
             e == [d EXCEPT !.inc[c] = r]
  <1>1. d.inc[c] \in IncRows
    BY Rows
  <1>2. r \in IncRows /\ r.gathering = d.inc[c].gathering /\ r.run = d.inc[c].run
    BY <1>1 DEF IncRows
  <1>3. [d EXCEPT !.inc[c].cause = p] = e
    BY <1>1 DEF Sane, Tables, IncRows
  <1> HIDE DEF r
  <1>4. Falls(d, e, {})
    <2>1. Sinks(d.inc[c], r)
      BY <1>2 DEF Sinks
    <2> QED
      BY <1>2, <2>1, IncFalls
  <1> QED
    BY <1>3, <1>4

LEMMA LinkCauseMindful ==
    ASSUME Solid(db), NEW c \in Incidents, NEW p \in Incidents, LinkCause(c, p)
    PROVE  Mindful
  <1> DEFINE m      == Group(db, c) \cup Group(db, p)
             fenced == Refence(db, m)
             linked == [fenced EXCEPT !.inc[c].cause = p]
             root   == Root(linked, c)
             c1 == ClearRecovery(linked, Root(db, c))
             c2 == ClearRecovery(c1, Root(db, p))
             d1 == ClearRecovery(c2, root)
             d2 == IF d1.inc[root].status \in Closed THEN Transition(d1, root, "open") ELSE d1
             e  == StartRecovery(d2, c)
  <1>1. db' = e /\ UNCHANGED <<worker, lock>> /\ FreeJobs(db) # {}
    BY DEF LinkCause, Outside, Roomy
  <1>2. m \subseteq Incidents
    BY GroupIn
  <1>3. Falls(db, fenced, {})
    BY <1>2, RefenceFalls DEF Solid
  <1> HIDE DEF fenced
  <1>4. Falls(fenced, linked, {})
    BY <1>3, RelinkedFalls DEF Falls
  <1> HIDE DEF linked
  <1>5. root \in Incidents /\ Root(db, c) \in Incidents /\ Root(db, p) \in Incidents
    BY RootIn
  <1> HIDE DEF root
  <1>6. Falls(linked, c1, {})
    BY <1>4, <1>5, ClearRecoveryFalls DEF Falls
  <1> HIDE DEF c1
  <1>7. Falls(c1, c2, {})
    BY <1>5, <1>6, ClearRecoveryFalls DEF Falls
  <1> HIDE DEF c2
  <1>8. Falls(c2, d1, {})
    BY <1>5, <1>7, ClearRecoveryFalls DEF Falls
  <1> HIDE DEF d1
  <1>9. Falls(d1, d2, {})
    BY <1>5, <1>8, TransitionFalls, FallsSelf DEF Falls, Statuses, Active
  <1> HIDE DEF d2
  <1>10. Falls(db, d2, {})
    BY <1>3, <1>4, <1>6, <1>7, <1>8, <1>9, FallsOn
  <1> QED
    BY <1>1, <1>10, FallsStarts DEF Mindful, Solid

LEMMA UnlinkMindful ==
    ASSUME Solid(db), NEW c \in Incidents, Unlink(c)
    PROVE  Mindful
  <1> DEFINE m      == Group(db, c)
             fenced == Refence(db, m)
             parted == [fenced EXCEPT !.inc[c].cause = None]
             d1 == StartRecovery(parted, c)
             e  == StartRecovery(d1, db.inc[c].cause)
  <1>1. /\ db' = e /\ UNCHANGED <<worker, lock>>
        /\ db.inc[c].cause # None /\ Cardinality(FreeJobs(db)) > 1
    BY DEF Unlink, Outside
  <1>2. m \subseteq Incidents /\ Sane(db)
    BY GroupIn DEF Solid
  <1>3. Falls(db, fenced, {})
    BY <1>2, RefenceFalls
  <1> HIDE DEF fenced
  <1>4. Falls(fenced, parted, {})
    BY <1>3, RelinkedFalls DEF Falls
  <1> HIDE DEF parted
  <1>5. Falls(db, parted, {})
    BY <1>3, <1>4, FallsOn
  <1>6. \A x \in FreeJobs(db) : FreeJobs(db) \ {x} # {}
    <2> SUFFICES ASSUME NEW x \in FreeJobs(db), FreeJobs(db) = {x} PROVE FALSE
      OBVIOUS
    <2>1. Cardinality({x}) = 1
      BY FS_Singleton
    <2> QED
      BY <1>1, <2>1
  <1>7. FreeJobs(db) # {}
    BY <1>1, FS_EmptySet
  <1>8. /\ Sane(parted) /\ FreeJobs(parted) # {}
        /\ \A x \in FreeJobs(parted) : FreeJobs(parted) \ {x} # {}
    BY <1>5, <1>6, <1>7 DEF Falls
  <1>9. Minds(db, d1, {})
    BY <1>2, <1>5, <1>7, FallsStarts
  <1>10. FreeJobs(d1) # {} /\ Sane(d1)
    <2>1. Takes(parted, d1)
      BY <1>8, StartTakes
    <2> QED
      BY <1>8, <2>1 DEF Takes
  <1> HIDE DEF d1
  <1>11. db.inc[c].cause \in Incidents
    BY <1>1, <1>2, Rows DEF IncRows
  <1>12. Minds(d1, e, {})
    BY <1>10, <1>11, StartMinds
  <1> HIDE DEF e
  <1> QED
    BY <1>1, <1>2, <1>9, <1>12, MindsOn DEF Mindful

\* Signals and one row of the incident table, which keeps its progress.
LEMMA MovedFalls ==
    ASSUME NEW d, Sane(d), NEW f \in [Signals -> SigRows], NEW i \in Incidents, NEW r \in IncRows,
           r.gathering = d.inc[i].gathering, r.run = d.inc[i].run
    PROVE  Falls(d, [[d EXCEPT !.sig = f] EXCEPT !.inc[i] = r], {})
  <1> DEFINE c == [d EXCEPT !.sig = f]
  <1>1. Leads(d, c) /\ c.inc = d.inc /\ c.job = d.job
    BY SigSet
  <1> HIDE DEF c
  <1>2. Falls(d, c, {})
    BY <1>1, SinksSelf, IncidentsFall DEF Leads
  <1>3. Sinks(c.inc[i], r)
    BY <1>1 DEF Sinks
  <1>4. Falls(c, [c EXCEPT !.inc[i] = r], {})
    BY <1>2, <1>3, IncFalls DEF Falls
  <1> QED
    BY <1>2, <1>4, FallsOn DEF c

LEMMA MergeMindful ==
    ASSUME Solid(db), NEW source \in Incidents, NEW target \in Incidents, Merge(source, target)
    PROVE  Mindful
  <1> DEFINE f == [s \in Signals |-> IF db.sig[s].owner = source
                                     THEN [db.sig[s] EXCEPT !.owner = target] ELSE db.sig[s]]
             row == db.inc[source]
             r == [Bumped(row) EXCEPT !.status = "closed", !.basis = None,
                             !.merged = target, !.was = row.status,
                             !.moved = OwnSignals(db, source)]
             e == [[db EXCEPT !.sig = f] EXCEPT !.inc[source] = r]
  <1>1. Sane(db) /\ db' = e /\ UNCHANGED <<worker, lock>>
    BY DEF Merge, Outside, Solid
  <1>2. \A s \in Signals : db.sig[s] \in SigRows
    BY <1>1, Rows
  <1>3. f \in [Signals -> SigRows]
    BY <1>2 DEF SigRows
  <1>4. r \in IncRows /\ r.gathering = row.gathering /\ r.run = row.run
    <2> DEFINE b == Bumped(row)
    <2>1. row \in IncRows /\ b \in IncRows /\ b.gathering = row.gathering /\ b.run = row.run
      BY <1>1, Rows, BumpedSinks
    <2>2. OwnSignals(db, source) \in SUBSET Signals /\ row.status \in Statuses
      BY <2>1 DEF OwnSignals, IncRows
    <2>3. r = [b EXCEPT !.status = "closed", !.basis = None, !.merged = target,
                        !.was = row.status, !.moved = OwnSignals(db, source)]
      OBVIOUS
    <2> HIDE DEF b, r, row
    <2>4. r \in IncRows
      BY <2>1, <2>2, <2>3 DEF IncRows, Statuses, Closed
    <2>5. r.gathering = b.gathering /\ r.run = b.run
      BY <2>1, <2>2, <2>3 DEF IncRows
    <2> QED
      BY <2>1, <2>4, <2>5
  <1> HIDE DEF f, r
  <1>5. Falls(db, e, {})
    BY <1>1, <1>3, <1>4, MovedFalls
  <1> QED
    BY <1>1, <1>5, FallsMinds DEF Mindful

LEMMA SplitMindful ==
    ASSUME Solid(db), NEW source \in Incidents, Split(source)
    PROVE  Mindful
  <1> DEFINE row == db.inc[source]
             f == [s \in Signals |-> IF s \in row.moved /\ db.sig[s].owner = row.merged
                                     THEN [db.sig[s] EXCEPT !.owner = source] ELSE db.sig[s]]
             r == [Bumped(row) EXCEPT
                     !.status = row.was,
                     !.since = IF row.was \in Active THEN row.since ELSE row.ver + 1,
                     !.basis = None, !.merged = None, !.was = "open", !.moved = {}]
             e == [[db EXCEPT !.sig = f] EXCEPT !.inc[source] = r]
  <1>1. Sane(db) /\ db' = e /\ UNCHANGED <<worker, lock>>
    BY DEF Split, Outside, Solid
  <1>2. \A s \in Signals : db.sig[s] \in SigRows
    BY <1>1, Rows
  <1>3. f \in [Signals -> SigRows]
    BY <1>2 DEF SigRows
  <1>4. r \in IncRows /\ r.gathering = row.gathering /\ r.run = row.run
    <2> DEFINE b == Bumped(row)
               since == IF row.was \in Active THEN row.since ELSE row.ver + 1
    <2>1. row \in IncRows /\ b \in IncRows /\ b.gathering = row.gathering /\ b.run = row.run
      BY <1>1, Rows, BumpedSinks
    <2>2. row.was \in Statuses /\ since \in Nat
      BY <2>1 DEF IncRows
    <2>3. r = [b EXCEPT !.status = row.was, !.since = since, !.basis = None, !.merged = None,
                        !.was = "open", !.moved = {}]
      BY <2>1 DEF IncRows
    <2> HIDE DEF b, r, since, row
    <2>4. r \in IncRows
      BY <2>1, <2>2, <2>3 DEF IncRows, Statuses, Active
    <2>5. r.gathering = b.gathering /\ r.run = b.run
      BY <2>1, <2>2, <2>3 DEF IncRows
    <2> QED
      BY <2>1, <2>4, <2>5
  <1> HIDE DEF f, r
  <1>5. Falls(db, e, {})
    BY <1>1, <1>3, <1>4, MovedFalls
  <1> QED
    BY <1>1, <1>5, FallsMinds DEF Mindful

\* The runs of an incident that nobody handles: the jobs of the incident
\* change, the others do not.
LEMMA SupersedeRunsMindful ==
    ASSUME Solid(db), NEW i \in Incidents, SupersedeRuns(i)
    PROVE  /\ Minds(db, db', { j \in Jobs : db.job[j].inc = i })
           /\ lock[i] = None /\ UNCHANGED <<worker, lock>>
  <1> DEFINE f == [j \in Jobs |-> IF db.job[j].inc = i THEN [db.job[j] EXCEPT !.open = FALSE]
                                  ELSE db.job[j]]
             e == [db EXCEPT !.job = f]
             js == { j \in Jobs : db.job[j].inc = i }
  <1>1. \A j \in Jobs : db.job[j] \in JobRows
    BY Rows DEF Solid
  <1>2. f \in [Jobs -> JobRows]
    <2>1. ASSUME NEW j \in Jobs PROVE f[j] \in JobRows
      <3> DEFINE row == db.job[j]
      <3>1. row \in JobRows
        BY <1>1
      <3>2. [row EXCEPT !.open = FALSE] \in JobRows
        <4> HIDE DEF row
        <4> QED
          BY <3>1, ZenonT(40) DEF JobRows
      <3> QED
        BY <3>1, <3>2
    <2> QED
      BY <2>1
  <1>3. \A j \in Jobs : /\ f[j].inc = db.job[j].inc
                        /\ f[j].open => db.job[j].open
                        /\ db.job[j].st \in Spare => f[j].st = db.job[j].st
                        /\ db.job[j].st # "absent" => f[j].st # "absent"
                        /\ Owes(f[j]) => Owes(db.job[j])
    BY <1>1 DEF JobRows, Owes
  <1>4. \A j \in Jobs : db.job[j].st = "processing" =>
                        /\ f[j].st = "processing" /\ f[j].saved = db.job[j].saved
                        /\ j \notin js => f[j] = db.job[j]
    BY <1>1 DEF JobRows
  <1>5. db' = e /\ lock[i] = None /\ UNCHANGED <<worker, lock>>
    BY DEF SupersedeRuns, Outside
  <1> HIDE DEF f, js
  <1>6. Falls(db, e, js)
    BY <1>2, <1>3, <1>4, JobsFall DEF Solid
  <1> QED
    BY <1>5, <1>6, FallsMinds DEF js

LEMMA WorldMindful ==
    ASSUME Solid(db), World
    PROVE  Mindful \/ \E i \in Incidents : SupersedeRuns(i)
  <1>1. ASSUME NEW s \in Signals,
               SignalOpens(s) \/ SignalClears(s) \/ CorrectSignal(s) \/ ReportedRefires(s)
        PROVE  Mindful
    BY <1>1, SignalOpensMindful, SignalClearsMindful
  <1>2. ASSUME NEW i \in Incidents,
               \/ \E asked \in BOOLEAN : ReportRecovery(i, asked)
               \/ \E to \in Active \cup Closed : Operate(i, to)
               \/ \E policy \in {"verified_recovery", "provider_clear"} : ChangePolicy(i, policy)
               \/ \E allow \in BOOLEAN : Archive(i, allow)
        PROVE  Mindful
    BY <1>2, ReportRecoveryMindful, OperateMindful, ChangePolicyMindful, ArchiveMindful
       DEF Statuses
  <1>3. ASSUME NEW i \in Incidents,
               AskApproval(i) \/ \E contended \in BOOLEAN : DecideApproval(i, contended)
        PROVE  Mindful
    BY <1>3, ApprovalMindful
  <1>4. ASSUME NEW i \in Incidents, NEW k \in Incidents, LinkCause(i, k) \/ Merge(i, k)
        PROVE  Mindful
    BY <1>4, LinkCauseMindful, MergeMindful
  <1>5. ASSUME NEW i \in Incidents, Unlink(i) \/ Split(i)
        PROVE  Mindful
    BY <1>5, UnlinkMindful, SplitMindful
  <1> QED
    BY <1>1, <1>2, <1>3, <1>4, <1>5, ConnectorChangesMindful DEF World

-----------------------------------------------------------------------------
(* The queue and the workers.                                              *)

\* The lock of an incident makes its handler the only one.
LEMMA OneHandler ==
    ASSUME Manned, NEW v \in Workers, NEW w \in Workers,
           worker[v].pc # "idle", worker[w].pc # "idle", On(v) = On(w)
    PROVE  v = w
  BY DEF Manned

\* Progress on the incident of a handler is the progress of its own check.
LEMMA OwnProgress ==
    ASSUME TendInv, NEW w \in Workers, worker[w].pc # "idle", On(w) \in Incidents,
           db.inc[On(w)].gathering
    PROVE  Owner(w, On(w))
  <1>1. PICK v \in Workers : Owner(v, On(w))
    BY DEF TendInv, Manned
  <1>2. On(v) = On(w)
    BY <1>1 DEF TendInv, Tended, Backed, Owner, On
  <1>3. worker[v].pc # "idle"
    BY <1>1 DEF Owner, Engaged
  <1> QED
    BY <1>1, <1>2, <1>3, OneHandler DEF TendInv

\* No worker moves.
LEMMA MindsTends ==
    ASSUME Core, TendInv, NEW js, Minds(db, db', js), UNCHANGED <<worker, lock>>,
           \A w \in Workers : worker[w].pc # "idle" => worker[w].job \notin js
    PROVE  TendInv'
  <1>1. Tended(db')
    BY MindsTended DEF Core, Solid, TendInv
  <1>2. ASSUME NEW w \in Workers, worker[w].pc # "idle"
        PROVE  /\ worker[w].job \in Jobs
               /\ db'.job[worker[w].job] = db.job[worker[w].job]
    BY <1>2, OnIn DEF TendInv, Manned, Minds, Claimed
  <1>3. \A w \in Workers : worker[w].pc # "idle" =>
          worker[w].lease /\ db'.job[worker[w].job].st = "processing"
          /\ lock[db'.job[worker[w].job].inc] = w
    BY <1>2 DEF TendInv, Manned, On
  <1>4. \A w \in Workers : worker[w].pc = "checking" =>
          worker[w].saved /\ RunOpen(db', worker[w].run) /\ worker[w].run[1] = worker[w].job
    BY <1>2 DEF TendInv, Manned, RunOpen
  <1>5. ASSUME NEW i \in Incidents, db'.inc[i].gathering
        PROVE  \E w \in Workers : /\ Engaged(worker[w]) /\ worker[w].saved
                                  /\ worker[w].run = db'.inc[i].run
                                  /\ worker[w].job = db'.inc[i].run[1]
    <2>1. db.inc[i].gathering /\ db'.inc[i].run = db.inc[i].run
      BY <1>5 DEF Minds, Sinks
    <2> QED
      BY <2>1 DEF TendInv, Manned, Owner
  <1> QED
    BY <1>1, <1>3, <1>4, <1>5 DEF TendInv, Manned, Owner, On

\* A handler moves on; it leaves its check only with the progress ended, or to
\* give it back.
LEMMA GoTends ==
    ASSUME Core, TendInv, NEW w \in Workers, worker[w].pc # "idle",
           NEW pc \in {"cleared", "returning", "throwing", "broken"}, Go(w, pc), UNCHANGED lock,
           Minds(db, db', {worker[w].job}),
           IF pc = "broken" THEN worker[w].pc = "checking" ELSE ~db'.inc[On(w)].gathering
    PROVE  TendInv'
  <1>1. Tended(db')
    BY MindsTended DEF Core, Solid, TendInv
  <1>2. \A v \in Workers : /\ v # w => worker'[v] = worker[v]
                           /\ worker'[w] = [worker[w] EXCEPT !.pc = pc]
    BY DEF Go, Core, Posted
  <1>3. worker[w] \in WorkerRows
    BY DEF Core, Posted
  <1>4. /\ worker'[w].pc = pc /\ worker'[w].job = worker[w].job
        /\ worker'[w].lease = worker[w].lease /\ worker'[w].saved = worker[w].saved
        /\ worker'[w].run = worker[w].run
    BY <1>2, <1>3 DEF WorkerRows
  <1>5. ASSUME NEW v \in Workers, worker[v].pc # "idle"
        PROVE  /\ worker[v].job \in Jobs /\ db'.job[worker[v].job].st = "processing"
               /\ db'.job[worker[v].job].inc = On(v)
               /\ v # w => db'.job[worker[v].job] = db.job[worker[v].job]
    <2>1. worker[v].job \in Jobs /\ db.job[worker[v].job].st = "processing"
      BY <1>5, OnIn DEF TendInv, Manned
    <2>2. v # w => worker[v].job # worker[w].job
      BY <1>5, OneHandler DEF TendInv, On
    <2> QED
      BY <2>1, <2>2 DEF Minds, Claimed, On
  <1>6. ASSUME NEW v \in Workers, worker'[v].pc # "idle"
        PROVE  /\ worker'[v].lease /\ db'.job[worker'[v].job].st = "processing"
               /\ lock'[db'.job[worker'[v].job].inc] = v
    <2>1. /\ worker[v].pc # "idle" /\ worker'[v].job = worker[v].job
          /\ worker'[v].lease = worker[v].lease
      BY <1>2, <1>4, <1>6
    <2> QED
      BY <1>5, <2>1 DEF TendInv, Manned
  <1>7. ASSUME NEW v \in Workers, worker'[v].pc = "checking"
        PROVE  /\ worker'[v].saved /\ RunOpen(db', worker'[v].run)
               /\ worker'[v].run[1] = worker'[v].job
    <2>1. v # w /\ worker'[v] = worker[v]
      BY <1>2, <1>4, <1>7
    <2> QED
      BY <1>5, <1>7, <2>1 DEF TendInv, Manned, RunOpen
  <1>8. ASSUME NEW i \in Incidents, db'.inc[i].gathering
        PROVE  \E v \in Workers : /\ Engaged(worker'[v]) /\ worker'[v].saved
                                  /\ worker'[v].run = db'.inc[i].run
                                  /\ worker'[v].job = db'.inc[i].run[1]
    <2>1. db.inc[i].gathering /\ db'.inc[i].run = db.inc[i].run
      BY <1>8 DEF Minds, Sinks
    <2>2. PICK v \in Workers : Owner(v, i)
      BY <2>1 DEF TendInv, Manned
    <2>3. CASE v # w
      BY <1>2, <2>1, <2>2, <2>3 DEF Owner
    <2>4. CASE v = w
      <3>1. On(w) = i
        BY <2>1, <2>2, <2>4 DEF TendInv, Tended, Backed, Owner, On
      <3>2. pc = "broken"
        BY <1>8, <3>1
      <3>3. Engaged(worker'[w])
        BY <1>4, <3>2 DEF Engaged
      <3> QED
        BY <1>4, <2>1, <2>2, <2>4, <3>3 DEF Owner
    <2> QED
      BY <2>3, <2>4
  <1> QED
    BY <1>1, <1>6, <1>7, <1>8 DEF TendInv, Manned, Owner, On

\* Rows nobody works on change, or workers without a check leave.
LEMMA StaffTends ==
    ASSUME Core, TendInv, NEW js, db'.inc = db.inc,
           \A j \in Jobs : IF j \in js THEN ~Owes(db'.job[j]) ELSE db'.job[j] = db.job[j],
           \A w \in Workers : worker'[w].pc # "idle" =>
               worker'[w] = worker[w] /\ worker[w].job \notin js /\ lock'[On(w)] = w,
           \A w \in Workers : Engaged(worker[w]) => worker'[w] = worker[w]
    PROVE  TendInv'
  <1>1. ASSUME NEW w \in Workers, worker'[w].pc # "idle"
        PROVE  /\ worker'[w] = worker[w] /\ worker[w].job \in Jobs
               /\ db'.job[worker[w].job] = db.job[worker[w].job]
    BY <1>1, OnIn
  <1>2. \A w \in Workers : worker'[w].pc # "idle" =>
          worker'[w].lease /\ db'.job[worker'[w].job].st = "processing"
          /\ lock'[db'.job[worker'[w].job].inc] = w
    BY <1>1 DEF TendInv, Manned, On
  <1>3. \A w \in Workers : worker'[w].pc = "checking" =>
          worker'[w].saved /\ RunOpen(db', worker'[w].run) /\ worker'[w].run[1] = worker'[w].job
    BY <1>1, SMTT(40) DEF TendInv, Manned, RunOpen
  <1>4. ASSUME NEW i \in Incidents, db'.inc[i].gathering
        PROVE  \E w \in Workers : /\ Engaged(worker'[w]) /\ worker'[w].saved
                                  /\ worker'[w].run = db'.inc[i].run
                                  /\ worker'[w].job = db'.inc[i].run[1]
    BY <1>4 DEF TendInv, Manned, Owner
  <1>5. ASSUME NEW i \in Incidents, db'.inc[i].gathering
        PROVE  LET run == db'.inc[i].run
               IN  /\ run \in Jobs \X Nat
                   /\ db'.job[run[1]].inc = i /\ db'.job[run[1]].st = "processing"
                   /\ db'.job[run[1]].saved
    <2>1. PICK w \in Workers : Owner(w, i)
      BY <1>5 DEF TendInv, Manned
    <2>2. worker'[w] = worker[w] /\ worker'[w].pc # "idle"
      BY <2>1 DEF Owner, Engaged
    <2>3. db'.job[db.inc[i].run[1]] = db.job[db.inc[i].run[1]]
      BY <1>1, <2>1, <2>2 DEF Owner
    <2>4. Backed(db, i) /\ db.inc[i].gathering
      BY <1>5 DEF TendInv, Tended
    <2> QED
      BY <2>3, <2>4 DEF Backed
  <1>6. Tended(db')
    BY <1>5 DEF TendInv, Tended, Backed
  <1> QED
    BY <1>2, <1>3, <1>4, <1>6 DEF TendInv, Manned, Owner, On

LEMMA RowsTend ==
    ASSUME Core, TendInv, NEW j \in Jobs, Due(j) \/ Retire(j)
    PROVE  TendInv'
  <1>1. Sane(db) /\ db.job[j] \in JobRows
    BY Rows DEF Core, Solid
  <1>2. db.job \in [Jobs -> JobRows] /\ db \in Tables
    BY <1>1 DEF Sane, Tables
  <1>3. UNCHANGED <<worker, lock>>
    BY DEF Due, Retire
  <1>4. ASSUME NEW w \in Workers, worker[w].pc # "idle" PROVE worker[w].job # j
    BY <1>4 DEF Due, Retire, Leased, TendInv, Manned
  <1>5. /\ db'.inc = db.inc /\ ~Owes(db'.job[j])
        /\ \A k \in Jobs \ {j} : db'.job[k] = db.job[k]
    <2>1. CASE Due(j)
      <3> DEFINE r == [db.job[j] EXCEPT !.later = FALSE]
      <3>1. db' = [db EXCEPT !.job[j] = r]
        BY <1>1, <1>2, <2>1 DEF Due, Tables
      <3>2. r.saved = db.job[j].saved
        BY <1>1 DEF JobRows
      <3>3. db.job[j].saved
        BY <2>1 DEF Due, TendInv, Tended, Owes
      <3> HIDE DEF r
      <3> QED
        BY <1>2, <3>1, <3>2, <3>3 DEF Tables, Owes
    <2>2. CASE Retire(j)
      <3> DEFINE r == [db.job[j] EXCEPT !.st = "done"]
      <3>1. db' = [db EXCEPT !.job[j] = r]
        BY <1>1, <1>2, <2>2 DEF Retire, Tables
      <3>2. r.st = "done"
        BY <1>1 DEF JobRows
      <3> HIDE DEF r
      <3> QED
        BY <1>2, <3>1, <3>2 DEF Tables, Owes
    <2> QED
      BY <2>1, <2>2
  <1>6. \A k \in Jobs : IF k \in {j} THEN ~Owes(db'.job[k]) ELSE db'.job[k] = db.job[k]
    BY <1>5
  <1>7. \A w \in Workers : worker'[w].pc # "idle" =>
            worker'[w] = worker[w] /\ worker[w].job \notin {j} /\ lock'[On(w)] = w
    BY <1>3, <1>4 DEF TendInv, Manned
  <1> QED
    BY <1>3, <1>5, <1>6, <1>7, StaffTends

\* A handler ends, and its locks with it.
LEMMA LeaveTends ==
    ASSUME Core, TendInv, NEW w \in Workers, worker[w].pc \in {"returning", "throwing"},
           Return(w) \/ Throw(w)
    PROVE  TendInv'
  <1> DEFINE j == worker[w].job
  <1>1. Sane(db) /\ db \in Tables /\ j \in Jobs /\ db.job[j] \in JobRows /\ On(w) = db.job[j].inc
    BY OnIn, Rows DEF Core, Solid, Sane, On
  <1>2. db.job[j].saved /\ worker[w].lease
    BY <1>1 DEF TendInv, Manned, Tended, Owes
  <1>3. PICK st \in {"done", "dead", "queued"} : db' = [db EXCEPT !.job[j].st = st]
    BY <1>2 DEF Return, Throw
  <1>4. /\ worker' = [worker EXCEPT ![w] = Idle]
        /\ lock' = [i \in Incidents |-> IF lock[i] = w THEN None ELSE lock[i]]
    BY DEF Return, Throw, Leave
  <1>5. \A v \in Workers : worker'[v] = IF v = w THEN Idle ELSE worker[v]
    BY <1>4 DEF Core, Posted
  <1>6. /\ db'.inc = db.inc
        /\ \A k \in Jobs : IF k \in {j} THEN ~Owes(db'.job[k]) ELSE db'.job[k] = db.job[k]
    <2> DEFINE r == [db.job[j] EXCEPT !.st = st]
    <2>1. db' = [db EXCEPT !.job[j] = r]
      BY <1>1, <1>3 DEF Tables
    <2>2. r.saved = db.job[j].saved
      BY <1>1 DEF JobRows
    <2> HIDE DEF r, j
    <2> QED
      BY <1>1, <1>2, <2>1, <2>2 DEF Tables, Owes
  <1>7. ASSUME NEW v \in Workers, worker'[v].pc # "idle"
        PROVE  worker'[v] = worker[v] /\ worker[v].job \notin {j} /\ lock'[On(v)] = v
    <2>1. v # w /\ worker'[v] = worker[v] /\ worker[v].pc # "idle"
      BY <1>5, <1>7, IdleRow
    <2>2. worker[v].job # j
      BY <2>1, OneHandler DEF TendInv, On
    <2>3. On(v) \in Incidents /\ lock[On(v)] = v
      BY <2>1, OnIn DEF TendInv, Manned
    <2> QED
      BY <1>4, <2>1, <2>2, <2>3
  <1>8. \A v \in Workers : Engaged(worker[v]) => worker'[v] = worker[v]
    BY <1>5 DEF Engaged
  <1> HIDE DEF j
  <1> QED
    BY <1>6, <1>7, <1>8, StaffTends

\* The tables stay.
LEMMA LocksTend ==
    ASSUME Core, TendInv, db' = db,
           \A w \in Workers : worker'[w].pc # "idle" => worker'[w] = worker[w] /\ lock'[On(w)] = w,
           \A w \in Workers : Engaged(worker[w]) => worker'[w] = worker[w]
    PROVE  TendInv'
  <1> DEFINE js == {}
  <1>1. \A j : j \notin js
    OBVIOUS
  <1> HIDE DEF js
  <1>2. \A j \in Jobs : IF j \in js THEN ~Owes(db'.job[j]) ELSE db'.job[j] = db.job[j]
    BY <1>1
  <1>3. \A w \in Workers : worker'[w].pc # "idle" =>
            worker'[w] = worker[w] /\ worker[w].job \notin js /\ lock'[On(w)] = w
    BY <1>1
  <1>4. db'.inc = db.inc
    OBVIOUS
  <1> QED
    BY <1>2, <1>3, <1>4, StaffTends

LEMMA CrashTends ==
    ASSUME Core, TendInv, NEW w \in Workers, Crash(w), ChecksUncut
    PROVE  TendInv'
  <1>1. /\ db' = db /\ worker' = [worker EXCEPT ![w] = Idle]
        /\ lock' = [i \in Incidents |-> IF lock[i] = w THEN "expiring" ELSE lock[i]]
    BY DEF Crash
  <1>2. \A v \in Workers : worker'[v] = IF v = w THEN Idle ELSE worker[v]
    BY <1>1 DEF Core, Posted
  <1>3. \A v \in Workers : Engaged(worker[v]) => worker'[v] = worker[v]
    BY <1>2, IdleRow DEF ChecksUncut
  <1>4. ASSUME NEW v \in Workers, worker'[v].pc # "idle"
        PROVE  worker'[v] = worker[v] /\ lock'[On(v)] = v
    <2>1. v # w /\ worker'[v] = worker[v] /\ worker[v].pc # "idle"
      BY <1>2, <1>4, IdleRow
    <2>2. On(v) \in Incidents /\ lock[On(v)] = v
      BY <2>1, OnIn DEF TendInv, Manned
    <2> QED
      BY <1>1, <2>1, <2>2
  <1> QED
    BY <1>1, <1>3, <1>4, LocksTend

LEMMA LockExpiresTends ==
    ASSUME Core, TendInv, NEW i \in Incidents, LockExpires(i)
    PROVE  TendInv'
  <1>1. /\ db' = db /\ worker' = worker /\ lock[i] = "expiring"
        /\ lock' = [lock EXCEPT ![i] = None]
    BY DEF LockExpires
  <1>2. ASSUME NEW w \in Workers, worker'[w].pc # "idle"
        PROVE  worker'[w] = worker[w] /\ lock'[On(w)] = w
    <2>1. lock[On(w)] = w /\ On(w) \in Incidents
      BY <1>1, <1>2, OnIn DEF TendInv, Manned
    <2>2. On(w) # i
      BY <1>1, <2>1, RecoveryAssumptions
    <2> QED
      BY <1>1, <2>1, <2>2 DEF Core, Posted
  <1> QED
    BY <1>1, <1>2, LocksTend

LEMMA ClaimTends ==
    ASSUME Core, TendInv, NEW w \in Workers, NEW j \in Jobs, Claim(w, j)
    PROVE  TendInv'
  <1> DEFINE row  == db.job[j]
             seen == read[w]
             r   == [row EXCEPT !.st = "processing", !.tries = @ + 1]
             att == IF seen.att = 0 THEN 1 ELSE IF seen.att > MaxChecks THEN MaxChecks ELSE seen.att
             pc  == IF row.told THEN "returning" ELSE "claimed"
             me  == [Idle EXCEPT !.pc = pc, !.job = j, !.ver = seen.ver, !.fence = seen.fence,
                                 !.att = att, !.lease = TRUE]
  <1>1. Sane(db) /\ db \in Tables /\ row \in JobRows /\ row.st # "absent" /\ row.inc \in Incidents
    BY Rows DEF Claim, Claimable, Core, Solid, Sane
  <1>2. r.inc = row.inc /\ r.st = "processing" /\ r.saved = row.saved
    BY <1>1 DEF JobRows
  <1>3. db' = [db EXCEPT !.job[j] = r]
    BY <1>1 DEF Claim, Tables, JobRows
  <1>4. /\ worker[w].pc = "idle" /\ worker' = [worker EXCEPT ![w] = me]
        /\ lock[row.inc] = None /\ lock' = [lock EXCEPT ![row.inc] = w]
    BY DEF Claim
  <1>5. row.saved
    BY DEF Claim, Claimable, TendInv, Tended, Owes
  <1> HIDE DEF r, att
  <1>6. me.pc \in {"returning", "claimed"} /\ me.job = j /\ me.lease
    BY DEF Idle
  <1> HIDE DEF me
  <1>7. /\ db'.inc = db.inc /\ db'.job[j] = r
        /\ \A k \in Jobs \ {j} : db'.job[k] = db.job[k]
    BY <1>1, <1>3 DEF Tables
  <1>8. worker'[w] = me /\ \A v \in Workers \ {w} : worker'[v] = worker[v]
    BY <1>4 DEF Core, Posted
  <1>9. ASSUME NEW v \in Workers, worker[v].pc # "idle"
        PROVE  /\ v # w /\ worker'[v] = worker[v] /\ worker[v].job \in Jobs
               /\ worker[v].job # j /\ db'.job[worker[v].job] = db.job[worker[v].job]
               /\ On(v) # row.inc
    <2>1. lock[On(v)] = v /\ worker[v].job \in Jobs
      BY <1>9, OnIn DEF TendInv, Manned
    <2>2. On(v) # row.inc
      BY <1>4, <2>1, RecoveryAssumptions
    <2> QED
      BY <1>4, <1>7, <1>8, <1>9, <2>1, <2>2 DEF On
  <1>10. ASSUME NEW v \in Workers, worker'[v].pc # "idle"
         PROVE  /\ worker'[v].lease /\ db'.job[worker'[v].job].st = "processing"
                /\ lock'[db'.job[worker'[v].job].inc] = v
    <2>1. CASE v = w
      BY <1>1, <1>2, <1>4, <1>6, <1>7, <1>8, <2>1 DEF Core, Posted
    <2>2. CASE v # w
      <3>1. worker[v].pc # "idle"
        BY <1>8, <1>10, <2>2
      <3> QED
        BY <1>1, <1>4, <1>9, <3>1 DEF TendInv, Manned, On, Core, Posted
    <2> QED
      BY <2>1, <2>2
  <1>11. ASSUME NEW v \in Workers, worker'[v].pc = "checking"
         PROVE  /\ worker'[v].saved /\ RunOpen(db', worker'[v].run)
                /\ worker'[v].run[1] = worker'[v].job
    <2>1. worker[v].pc = "checking" /\ worker'[v] = worker[v]
      BY <1>6, <1>8, <1>11
    <2> QED
      BY <1>9, <2>1 DEF TendInv, Manned, RunOpen
  <1>12. ASSUME NEW i \in Incidents, db'.inc[i].gathering
         PROVE  \E v \in Workers : /\ Engaged(worker'[v]) /\ worker'[v].saved
                                   /\ worker'[v].run = db'.inc[i].run
                                   /\ worker'[v].job = db'.inc[i].run[1]
    BY <1>7, <1>9, <1>12 DEF TendInv, Manned, Owner, Engaged
  <1>13. ASSUME NEW i \in Incidents PROVE Backed(db', i)
    <2>1. Backed(db, i)
      BY DEF TendInv, Tended
    <2> QED
      BY <1>2, <1>7, <2>1, SMTT(40) DEF Backed
  <1>14. \A k \in Jobs : ~Owes(db'.job[k])
    BY <1>2, <1>5, <1>7 DEF TendInv, Tended, Owes
  <1> QED
    BY <1>10, <1>11, <1>12, <1>13, <1>14 DEF TendInv, Tended, Manned, Owner, On

\* A handler that has not begun its check.
LEMMA NoProgressYet ==
    ASSUME TendInv, NEW w \in Workers, worker[w].pc # "idle", ~Engaged(worker[w]),
           On(w) \in Incidents
    PROVE  ~db.inc[On(w)].gathering
  BY OwnProgress DEF Owner

LEMMA ProviderTends ==
    ASSUME Core, TendInv, NEW w \in Workers, ProviderCheck(w) \/ ProviderContended(w)
    PROVE  TendInv'
  <1> DEFINE i == On(w)
  <1>1. PICK pc \in {"returning", "cleared", "throwing"} : Go(w, pc)
    BY DEF ProviderCheck, ProviderContended
  <1>2. db' \in {db, ProviderClear(db, i)} /\ UNCHANGED lock /\ worker[w].pc = "claimed"
    BY DEF ProviderCheck, ProviderContended
  <1>3. worker[w].pc # "idle" /\ ~Engaged(worker[w]) /\ i \in Incidents /\ Sane(db)
    BY <1>2, OnIn DEF Engaged, Core, Solid
  <1>4. ~db.inc[i].gathering
    BY <1>3, NoProgressYet
  <1> HIDE DEF i
  <1>5. Falls(db, db', {})
    BY <1>2, <1>3, FallsSelf, ProviderClearFalls
  <1>6. Minds(db, db', {worker[w].job}) /\ ~db'.inc[i].gathering
    BY <1>3, <1>4, <1>5, FallsWider, FallsMinds DEF Falls, Sinks
  <1> QED
    BY <1>1, <1>2, <1>3, <1>6, GoTends DEF i

LEMMA BeginTends ==
    ASSUME Core, TendInv, NEW w \in Workers, NEW exhausted \in BOOLEAN, Begin(w, exhausted)
    PROVE  TendInv'
  <1> DEFINE i     == On(w)
             j     == worker[w].job
             row   == db.inc[i]
             n     == IF db.job[j].open THEN db.job[j].runs ELSE db.job[j].runs + 1
             run   == <<j, n>>
             rd    == [db.job[j] EXCEPT !.denied = TRUE]
             ro    == [db.job[j] EXCEPT !.open = TRUE, !.runs = n]
             qd    == [row EXCEPT !.rec = "not_verified", !.run = None]
             qo    == [row EXCEPT !.gathering = TRUE, !.rec = "verifying", !.run = run,
                                  !.att = worker[w].att]
             ed    == [[db EXCEPT !.job[j] = rd] EXCEPT !.inc[i] = qd]
             eo    == [[db EXCEPT !.job[j] = ro] EXCEPT !.inc[i] = qo]
             me    == [worker[w] EXCEPT !.pc = "checking", !.run = run, !.saved = TRUE]
  <1>1. /\ i \in Incidents /\ j \in Jobs /\ worker[w].pc = "cleared" /\ Sane(db)
        /\ i = db.job[j].inc /\ worker[w] \in WorkerRows
    BY OnIn DEF Begin, Core, Solid, On, Posted
  <1>2. db \in Tables /\ db.job[j] \in JobRows /\ row \in IncRows
    BY <1>1, Rows DEF Sane
  <1>3. db.job[j].st = "processing" /\ db.job[j].saved
    BY <1>1 DEF TendInv, Manned, Tended, Owes
  <1>4. ~row.gathering
    BY <1>1, NoProgressYet DEF Engaged
  <1>5. [db EXCEPT !.job[j].saved = (db.job[j].saved \/ ~row.gathering)] = db
    <2>1. [db.job[j] EXCEPT !.saved = (db.job[j].saved \/ ~row.gathering)] = db.job[j]
      BY <1>2, <1>3 DEF JobRows
    <2> HIDE DEF row
    <2> QED
      BY <1>1, <1>2, <2>1 DEF Tables
  <1>6. [db EXCEPT !.inc[i] = @] = db
    BY <1>1, <1>2 DEF Tables
  <1>7. [db EXCEPT !.job[j].denied = TRUE,
                   !.inc[i] = [@ EXCEPT !.rec = "not_verified", !.run = None]] = ed
    BY <1>1, <1>2 DEF Tables, JobRows
  <1>8. [db EXCEPT !.job[j] = [@ EXCEPT !.open = TRUE, !.runs = run[2]],
                   !.inc[i] = [@ EXCEPT !.gathering = TRUE, !.rec = "verifying",
                                        !.run = run, !.att = worker[w].att]] = eo
    BY <1>1, <1>2 DEF Tables, JobRows
  <1>9. \/ db' \in {db, ed} /\ Go(w, "returning")
        \/ /\ db' = eo
           /\ worker' = [worker EXCEPT ![w].pc = "checking", ![w].run = run,
                                       ![w].saved = (db.job[j].saved \/ ~row.gathering)]
    BY <1>4, <1>5, <1>6, <1>7, <1>8 DEF Begin
  <1>10. UNCHANGED lock
    BY DEF Begin
  <1> HIDE DEF i, j, ed, eo
  <1>11. CASE db' \in {db, ed} /\ Go(w, "returning")
    <2>1. /\ rd \in JobRows /\ rd.inc = db.job[j].inc /\ rd.st = db.job[j].st
          /\ rd.saved = db.job[j].saved /\ rd.open = db.job[j].open
      BY <1>2 DEF JobRows
    <2>2. qd \in IncRows /\ Sinks(row, qd)
      <3> HIDE DEF row
      <3>1. qd \in IncRows /\ qd.gathering = row.gathering /\ qd.run = None
        BY <1>2 DEF IncRows, Runs
      <3> HIDE DEF qd
      <3> QED
        BY <1>4, <3>1 DEF Sinks
    <2> DEFINE c == [db EXCEPT !.job[j] = rd]
    <2> HIDE DEF rd, qd, row
    <2>3. Falls(db, c, {j}) /\ c.inc = db.inc
      BY <1>1, <2>1, JobFalls
    <2> HIDE DEF c
    <2>4. Falls(c, [c EXCEPT !.inc[i] = qd], {})
      BY <1>1, <2>2, <2>3, IncFalls DEF Falls, row
    <2>5. Falls(db, ed, {j})
      BY <2>3, <2>4, FallsWider, FallsOn DEF c, ed
    <2>6. Falls(db, db', {j})
      BY <1>1, <1>11, <2>5, FallsSelf
    <2>7. Minds(db, db', {j}) /\ ~db'.inc[i].gathering
      BY <1>1, <1>4, <2>6, FallsMinds DEF Falls, Sinks, row
    <2> QED
      BY <1>1, <1>10, <1>11, <2>7, GoTends DEF i, j
  <1>12. CASE /\ db' = eo
              /\ worker' = [worker EXCEPT ![w].pc = "checking", ![w].run = run,
                                          ![w].saved = (db.job[j].saved \/ ~row.gathering)]
    <2>1. /\ ro.inc = i /\ ro.st = "processing" /\ ro.saved /\ ro.open /\ ro.runs = n
      BY <1>1, <1>2, <1>3 DEF JobRows
    <2>2. qo.gathering /\ qo.run = run
      BY <1>2 DEF IncRows
    <2>3. n \in Nat
      BY <1>2 DEF JobRows
    <2>4. /\ worker \in [Workers -> WorkerRows]
          /\ \A v \in Workers : worker'[v] = IF v = w THEN me ELSE worker[v]
      <3>1. worker \in [Workers -> WorkerRows]
        BY DEF Core, Posted
      <3>2. (db.job[j].saved \/ ~row.gathering) = TRUE
        BY <1>3, <1>2 DEF JobRows, IncRows
      <3> HIDE DEF row, run
      <3>3. worker' = [worker EXCEPT ![w] = me]
        BY <1>12, <3>1, <3>2 DEF WorkerRows
      <3> QED
        BY <3>1, <3>3
    <2>5. /\ me.pc = "checking" /\ me.run = run /\ me.saved /\ me.job = j
          /\ me.lease = worker[w].lease
      BY <1>1 DEF WorkerRows, j
    <2> HIDE DEF me, n, ro, qo, row
    <2>6. /\ db'.job[j] = ro /\ \A k \in Jobs \ {j} : db'.job[k] = db.job[k]
          /\ db'.inc[i] = qo /\ \A k \in Incidents \ {i} : db'.inc[k] = db.inc[k]
      BY <1>1, <1>2, <1>12 DEF eo, Tables
    <2>7. ASSUME NEW v \in Workers, v # w, worker[v].pc # "idle"
          PROVE  /\ worker[v].job \in Jobs /\ On(v) # i
                 /\ db'.job[worker[v].job] = db.job[worker[v].job]
      <3>1. On(v) # i
        BY <1>1, <2>7, OneHandler DEF TendInv, i
      <3> QED
        BY <1>1, <2>6, <2>7, <3>1, OnIn DEF On
    <2>8. ASSUME NEW v \in Workers, worker'[v].pc # "idle"
          PROVE  /\ worker'[v].lease /\ db'.job[worker'[v].job].st = "processing"
                 /\ lock'[db'.job[worker'[v].job].inc] = v
      <3>1. CASE v = w
        <4>1. worker[w].lease /\ lock[i] = w
          BY <1>1 DEF TendInv, Manned, i
        <4> QED
          BY <1>10, <2>1, <2>4, <2>5, <2>6, <3>1, <4>1
      <3>2. CASE v # w
        BY <1>10, <2>4, <2>7, <2>8, <3>2 DEF TendInv, Manned, On
      <3> QED
        BY <3>1, <3>2
    <2>9. ASSUME NEW v \in Workers, worker'[v].pc = "checking"
          PROVE  /\ worker'[v].saved /\ RunOpen(db', worker'[v].run)
                 /\ worker'[v].run[1] = worker'[v].job
      <3>1. CASE v = w
        BY <2>1, <2>4, <2>5, <2>6, <3>1 DEF RunOpen
      <3>2. CASE v # w
        BY <2>4, <2>7, <2>9, <3>2 DEF TendInv, Manned, RunOpen
      <3> QED
        BY <3>1, <3>2
    <2>10. ASSUME NEW k \in Incidents, db'.inc[k].gathering
           PROVE  \E v \in Workers : /\ Engaged(worker'[v]) /\ worker'[v].saved
                                     /\ worker'[v].run = db'.inc[k].run
                                     /\ worker'[v].job = db'.inc[k].run[1]
      <3>1. CASE k = i
        BY <2>2, <2>4, <2>5, <2>6, <3>1 DEF Engaged
      <3>2. CASE k # i
        <4>1. db'.inc[k] = db.inc[k]
          BY <2>6, <3>2
        <4>2. PICK v \in Workers : Owner(v, k)
          BY <2>10, <4>1 DEF TendInv, Manned
        <4>3. v # w
          BY <1>1, <4>2 DEF Owner, Engaged
        <4> QED
          BY <2>4, <4>1, <4>2, <4>3 DEF Owner
      <3> QED
        BY <3>1, <3>2
    <2>11. ASSUME NEW k \in Incidents PROVE Backed(db', k)
      <3>1. CASE k = i
        <4>1. run \in Jobs \X Nat /\ run[1] = j
          BY <1>1, <2>3
        <4> HIDE DEF run
        <4> QED
          BY <2>1, <2>2, <2>6, <3>1, <4>1 DEF Backed
      <3>2. CASE k # i
        <4>1. db'.inc[k] = db.inc[k] /\ Backed(db, k)
          BY <2>6, <3>2 DEF TendInv, Tended
        <4>2. db.inc[k].gathering => db.inc[k].run[1] # j
          BY <1>1, <3>2, <4>1 DEF Backed
        <4> QED
          BY <2>6, <4>1, <4>2 DEF Backed
      <3> QED
        BY <3>1, <3>2
    <2>12. \A k \in Jobs : ~Owes(db'.job[k])
      BY <2>1, <2>6 DEF TendInv, Tended, Owes
    <2> QED
      BY <2>8, <2>9, <2>10, <2>11, <2>12 DEF TendInv, Tended, Manned, Owner, On
  <1> QED
    BY <1>9, <1>11, <1>12

\* A handler that checks, or that failed to.
LEMMA EngagedHandler ==
    ASSUME Core, TendInv, NEW w \in Workers, Engaged(worker[w])
    PROVE  /\ worker[w].pc # "idle" /\ Sane(db) /\ worker[w] \in WorkerRows
           /\ worker[w].job \in Jobs /\ On(w) \in Incidents
           /\ db.inc[On(w)].gathering => worker[w].saved /\ db.inc[On(w)].run = worker[w].run
           /\ worker[w].pc = "checking" =>
                /\ worker[w].run \in Jobs \X Nat /\ worker[w].run[1] = worker[w].job
                /\ worker[w].saved /\ RunOpen(db, worker[w].run)
  <1>1. worker[w].pc # "idle"
    BY DEF Engaged
  <1>2. worker[w].job \in Jobs /\ On(w) \in Incidents
    BY <1>1, OnIn
  <1>3. db.inc[On(w)].gathering => worker[w].saved /\ db.inc[On(w)].run = worker[w].run
    BY <1>1, <1>2, OwnProgress DEF Owner
  <1> QED
    BY <1>1, <1>2, <1>3 DEF Core, Solid, Posted, Staffed, TendInv, Manned

\* What gives the progress back.
LEMMA RestoreEnds ==
    ASSUME Core, TendInv, NEW w \in Workers, Engaged(worker[w]),
           NEW d, NEW js, Falls(db, d, js)
    PROVE  LET e == Restore(d, On(w), worker[w].saved, worker[w].run)
           IN  Falls(db, e, js) /\ e.job = d.job /\ ~e.inc[On(w)].gathering
  <1> DEFINE i == On(w)
             e == Restore(d, i, worker[w].saved, worker[w].run)
  <1>1. /\ i \in Incidents
        /\ db.inc[i].gathering => worker[w].saved /\ db.inc[i].run = worker[w].run
    BY EngagedHandler
  <1> HIDE DEF i
  <1>2. d.inc[i].gathering => worker[w].saved /\ d.inc[i].run = worker[w].run
    BY <1>1 DEF Falls, Sinks
  <1>3. /\ Falls(d, e, {}) /\ e.job = d.job
        /\ worker[w].saved /\ (d.inc[i].gathering => d.inc[i].run = worker[w].run)
             => ~e.inc[i].gathering
    BY <1>1, RestoreFalls DEF Falls
  <1>4. ~e.inc[i].gathering
    BY <1>1, <1>2, <1>3 DEF Falls, Sinks
  <1>5. Falls(db, e, js)
    BY <1>3, FallsWider, FallsOn
  <1> QED
    BY <1>3, <1>4, <1>5 DEF i

\* The row of the check says that it told its outcome, or names the version
\* the check starts again from.
LEMMA NotedFalls ==
    ASSUME NEW d, Sane(d), NEW j \in Jobs, NEW ver \in Nat
    PROVE  /\ LET e == [d EXCEPT !.job[j].told = TRUE] IN Falls(d, e, {j}) /\ e.inc = d.inc
           /\ LET e == [d EXCEPT !.job[j].ver = ver] IN Falls(d, e, {j}) /\ e.inc = d.inc
  <1> DEFINE r == [d.job[j] EXCEPT !.told = TRUE]
             q == [d.job[j] EXCEPT !.ver = ver]
  <1>1. d.job[j] \in JobRows /\ d \in Tables
    BY Rows DEF Sane
  <1>2. /\ r \in JobRows /\ r.inc = d.job[j].inc /\ r.st = d.job[j].st
        /\ r.saved = d.job[j].saved /\ r.open = d.job[j].open
        /\ q \in JobRows /\ q.inc = d.job[j].inc /\ q.st = d.job[j].st
        /\ q.saved = d.job[j].saved /\ q.open = d.job[j].open
    BY <1>1 DEF JobRows
  <1>3. /\ [d EXCEPT !.job[j].told = TRUE] = [d EXCEPT !.job[j] = r]
        /\ [d EXCEPT !.job[j].ver = ver] = [d EXCEPT !.job[j] = q]
    BY <1>1 DEF Tables
  <1> HIDE DEF r, q
  <1>4. /\ LET e == [d EXCEPT !.job[j] = r] IN Falls(d, e, {j}) /\ e.inc = d.inc
        /\ LET e == [d EXCEPT !.job[j] = q] IN Falls(d, e, {j}) /\ e.inc = d.inc
    BY <1>2, JobFalls
  <1> QED
    BY <1>3, <1>4

LEMMA EngineTends ==
    ASSUME Core, TendInv, NEW w \in Workers,
           \/ NonPromote(w) \/ EngineFails(w) \/ RestoreStep(w)
           \/ \E finalizing \in BOOLEAN : SetupFails(w, finalizing)
    PROVE  TendInv'
  <1> DEFINE me   == worker[w]
             i    == On(w)
             done == Complete(db, me.run)
             back == Restore(done, i, me.saved, me.run)
             told == [back EXCEPT !.job[me.job].told = TRUE]
  <1>1. Engaged(me) /\ UNCHANGED lock
    BY DEF NonPromote, EngineFails, RestoreStep, SetupFails, Engaged
  <1>2. /\ me.pc # "idle" /\ Sane(db) /\ me.job \in Jobs /\ i \in Incidents
        /\ me.pc = "checking" => me.run \in Jobs \X Nat /\ me.run[1] = me.job /\ RunOpen(db, me.run)
    BY <1>1, EngagedHandler
  <1>3. ASSUME me.pc = "checking" PROVE Falls(db, done, {me.job})
    BY <1>2, <1>3, CompleteFalls
  <1>4. ASSUME me.pc = "checking" PROVE Falls(db, back, {me.job}) /\ ~back.inc[i].gathering
    BY <1>1, <1>3, <1>4, RestoreEnds
  <1>5. ASSUME NEW pc \in {"returning", "throwing", "broken"}, Go(w, pc),
               Falls(db, db', {me.job}),
               IF pc = "broken" THEN me.pc = "checking" ELSE ~db'.inc[i].gathering
        PROVE  TendInv'
    BY <1>1, <1>2, <1>5, FallsMinds, GoTends
  <1>6. CASE NonPromote(w)
    <2>1. me.pc = "checking" /\ db' = told /\ Go(w, "returning")
      BY <1>2, <1>6 DEF NonPromote
    <2> HIDE DEF me, i, done, back
    <2>2. Falls(back, told, {me.job}) /\ told.inc = back.inc
      BY <1>2, <1>4, <2>1, NotedFalls DEF Falls
    <2>3. Falls(db, told, {me.job}) /\ ~told.inc[i].gathering
      BY <1>4, <2>1, <2>2, FallsOn
    <2> QED
      BY <1>5, <2>1, <2>3
  <1>7. CASE EngineFails(w)
    <2>1. me.pc = "checking" /\ db' = back /\ Go(w, "broken")
      BY <1>2, <1>7 DEF EngineFails
    <2> HIDE DEF me, i, done, back
    <2> QED
      BY <1>4, <1>5, <2>1
  <1>8. CASE RestoreStep(w)
    <2>1. db' = Restore(db, i, me.saved, me.run) /\ Go(w, "throwing")
      BY <1>8 DEF RestoreStep
    <2>2. Falls(db, db, {me.job})
      BY <1>2, FallsSelf
    <2>3. Falls(db, db', {me.job}) /\ ~db'.inc[i].gathering
      BY <1>1, <2>1, <2>2, RestoreEnds
    <2> HIDE DEF me, i, done, back
    <2> QED
      BY <1>5, <2>1, <2>3
  <1>9. CASE \E finalizing \in BOOLEAN : SetupFails(w, finalizing)
    <2>1. me.pc = "checking" /\ db' \in {db, done} /\ Go(w, "broken")
      BY <1>9 DEF SetupFails
    <2>2. Falls(db, db, {me.job})
      BY <1>2, FallsSelf
    <2> HIDE DEF me, i, done, back
    <2> QED
      BY <1>3, <1>5, <2>1, <2>2
  <1> QED
    BY <1>6, <1>7, <1>8, <1>9

LEMMA FinalizeTends ==
    ASSUME Core, TendInv, NEW w \in Workers,
           NEW outcome \in {"recovered", "recheck", "needs_human"}, Finalize(w, outcome)
    PROVE  TendInv'
  <1> DEFINE i    == On(w)
             me   == worker[w]
             back == Restore(db, i, me.saved, me.run)
             got  == Verdict(w, outcome)
             d1   == Complete(db, me.run)
             d2   == IF got = "recheck"
                     THEN InsertRecovery(d1, i, me.ver, me.fence, me.att + 1, TRUE) ELSE d1
             rec  == CASE got = "recovered" -> "verified"
                       [] got = "recheck" -> "monitoring"
                       [] OTHER -> "not_verified"
             q    == [d2.inc[i] EXCEPT !.gathering = FALSE, !.run = None, !.att = me.att, !.rec = rec]
             c    == [d2 EXCEPT !.job[me.job].told = TRUE]
             d3   == [c EXCEPT !.inc[i] = q]
             d4   == IF got = "recovered" /\ AllResolved(d3, i) /\ ~PendingApproval(d3, i)
                     THEN ResolveGroup(d3, i, "verified_recovery") ELSE d3
             b1   == [back EXCEPT !.job[me.job].ver = db.inc[i].ver]
             d3x  == [d2 EXCEPT
                       !.job[me.job].told = TRUE,
                       !.inc[i] = [@ EXCEPT !.gathering = FALSE, !.run = None, !.att = me.att,
                                     !.rec = CASE got = "recovered" -> "verified"
                                               [] got = "recheck" -> "monitoring"
                                               [] OTHER -> "not_verified"]]
             d4x  == IF got = "recovered" /\ AllResolved(d3x, i) /\ ~PendingApproval(d3x, i)
                     THEN ResolveGroup(d3x, i, "verified_recovery") ELSE d3x
  <1>1. me.pc = "checking" /\ Engaged(me) /\ UNCHANGED lock
    BY DEF Finalize, Engaged
  <1>2. /\ me.pc # "idle" /\ Sane(db) /\ me \in WorkerRows /\ me.job \in Jobs /\ i \in Incidents
        /\ me.run \in Jobs \X Nat /\ me.run[1] = me.job /\ me.saved /\ RunOpen(db, me.run)
    BY <1>1, EngagedHandler
  <1>3. me.ver \in Nat /\ me.fence \in Fences /\ me.att \in 0..MaxChecks
    BY <1>2 DEF WorkerRows
  <1>4. \/ db' = b1 /\ Go(w, "broken")
        \/ db' = Complete(back, me.run) /\ Go(w, "returning")
        \/ db' = d4x /\ Go(w, "returning")
    BY <1>2 DEF Finalize
  <1>5. got = "recheck" => FreeJobs(db) # {}
    BY DEF Finalize, Roomy
  <1>6. got = "recheck" => me.att + 1 \in 0..MaxChecks
    <2>1. got = "recheck" => ~(me.att >= MaxChecks)
      BY DEF Verdict
    <2> QED
      BY <1>3, <2>1, RecoveryAssumptions
  <1>7. Falls(db, back, {}) /\ ~back.inc[i].gathering
    <2>1. Falls(db, db, {})
      BY <1>2, FallsSelf
    <2> QED
      BY <1>1, <2>1, RestoreEnds
  <1>8. Falls(db, d1, {me.job})
    BY <1>2, CompleteFalls
  <1>9. ASSUME NEW pc \in {"returning", "broken"}, Go(w, pc), Minds(db, db', {me.job}),
               pc = "returning" => ~db'.inc[i].gathering
        PROVE  TendInv'
    BY <1>1, <1>2, <1>9, GoTends
  <1> HIDE DEF i, me, got, back, d1
  <1>10. Falls(db, back, {me.job})
    BY <1>7, FallsWider
  <1>11. CASE db' = b1 /\ Go(w, "broken")
    <2>1. db.inc[i].ver \in Nat
      BY <1>2, Rows DEF IncRows
    <2>2. Falls(back, b1, {me.job})
      BY <1>2, <1>10, <2>1, NotedFalls DEF Falls
    <2>3. Minds(db, b1, {me.job})
      BY <1>10, <2>2, FallsOn, FallsMinds
    <2> HIDE DEF b1
    <2> QED
      BY <1>9, <1>11, <2>3
  <1>12. CASE db' = Complete(back, me.run) /\ Go(w, "returning")
    <2>1. Falls(back, db', {me.job}) /\ db'.inc = back.inc
      BY <1>2, <1>10, <1>12, CompleteFalls DEF Falls
    <2>2. Minds(db, db', {me.job}) /\ ~db'.inc[i].gathering
      BY <1>7, <1>10, <2>1, FallsOn, FallsMinds
    <2> QED
      BY <1>9, <1>12, <2>2
  <1>13. CASE db' = d4x /\ Go(w, "returning")
    <2>1. Sane(d1) /\ (got = "recheck" => FreeJobs(d1) # {}) /\ Minds(db, d1, {me.job})
      BY <1>5, <1>8, FallsMinds DEF Falls
    <2>2. Minds(d1, d2, {me.job})
      <3>1. CASE got = "recheck"
        BY <1>2, <1>3, <1>6, <2>1, <3>1, InsertMinds, FallsWider
      <3>2. CASE got # "recheck"
        BY <2>1, <3>2, FallsSelf, FallsMinds
      <3> QED
        BY <3>1, <3>2
    <2> HIDE DEF d2
    <2>3. Sane(d2) /\ Minds(db, d2, {me.job})
      BY <1>2, <2>1, <2>2, MindsOn DEF Minds
    <2>4. d2.inc[i] \in IncRows /\ d2 \in Tables /\ d2.job[me.job] \in JobRows
      BY <1>2, <2>3, Rows DEF Sane
    <2>5. q \in IncRows /\ ~q.gathering /\ q.run = None
      <3>1. rec \in {None, "verifying", "monitoring", "verified", "not_verified"}
        OBVIOUS
      <3> HIDE DEF rec
      <3> QED
        BY <1>3, <2>4, <3>1 DEF IncRows, Runs
    <2>6. d3x = d3
      BY <1>2, <2>4 DEF Tables, JobRows
    <2>7. db' = d4
      BY <1>13, <2>6
    <2> HIDE DEF q, d3x, d4x
    <2>8. Falls(d2, c, {me.job}) /\ c.inc = d2.inc
      BY <1>2, <2>3, NotedFalls, Counts
    <2> HIDE DEF c
    <2>9. Falls(c, d3, {}) /\ ~d3.inc[i].gathering
      <3>1. Sinks(c.inc[i], q) /\ Sane(c)
        BY <2>5, <2>8 DEF Sinks, Falls
      <3>2. /\ Falls(c, d3, {})
            /\ d3.inc = [k \in Incidents |-> IF k = i THEN q ELSE c.inc[k]]
        BY <1>2, <2>5, <3>1, IncFalls
      <3> QED
        BY <1>2, <2>5, <3>2
    <2> HIDE DEF d3
    <2>10. Falls(d3, d4, {})
      BY <1>2, <2>9, ResolveGroupFalls, FallsSelf DEF Falls
    <2> HIDE DEF d4
    <2>11. Falls(d2, db', {me.job})
      BY <2>7, <2>8, <2>9, <2>10, FallsOn, FallsWider
    <2>12. ~db'.inc[i].gathering
      BY <1>2, <2>7, <2>9, <2>10 DEF Falls, Sinks
    <2>13. Minds(db, db', {me.job})
      BY <1>2, <2>3, <2>11, FallsMinds, MindsOn
    <2> QED
      BY <1>9, <1>13, <2>12, <2>13
  <1> QED
    BY <1>4, <1>11, <1>12, <1>13

-----------------------------------------------------------------------------
(* The whole.                                                              *)

LEMMA WorldTends ==
    ASSUME Core, TendInv, World
    PROVE  TendInv'
  <1>1. CASE Mindful
    BY <1>1, MindsTends DEF Mindful
  <1>2. ASSUME NEW i \in Incidents, SupersedeRuns(i) PROVE TendInv'
    <2> DEFINE js == { j \in Jobs : db.job[j].inc = i }
    <2>1. Minds(db, db', js) /\ lock[i] = None /\ UNCHANGED <<worker, lock>>
      BY <1>2, SupersedeRunsMindful DEF Core
    <2>2. \A w \in Workers : worker[w].pc # "idle" => worker[w].job \notin js
      BY <2>1, RecoveryAssumptions DEF TendInv, Manned, On
    <2> HIDE DEF js
    <2> QED
      BY <2>1, <2>2, MindsTends
  <1> QED
    BY <1>1, <1>2, WorldMindful DEF Core

\* A worker that stalls has nothing to lose.
LEMMA StallTends ==
    ASSUME Core, TendInv, NEW w \in Workers, Stall(w), ChecksUncut
    PROVE  TendInv'
  <1>1. /\ db' = db /\ worker[w].lease /\ worker' = [worker EXCEPT ![w].lease = FALSE]
        /\ lock' = [i \in Incidents |-> IF lock[i] = w THEN None ELSE lock[i]]
    BY DEF Stall
  <1>2. /\ \A v \in Workers \ {w} : worker'[v] = worker[v]
        /\ ~worker'[w].lease /\ worker'[w].pc = worker[w].pc
    <2>1. worker \in [Workers -> WorkerRows] /\ worker[w] \in WorkerRows
      BY DEF Core, Posted
    <2> QED
      BY <1>1, <2>1 DEF WorkerRows
  <1>3. worker[w].pc = "idle"
    BY <1>1, <1>2 DEF ChecksUncut
  <1>4. ASSUME NEW v \in Workers, worker'[v].pc # "idle"
        PROVE  worker'[v] = worker[v] /\ lock'[On(v)] = v
    <2>1. v # w /\ worker'[v] = worker[v] /\ worker[v].pc # "idle"
      BY <1>2, <1>3, <1>4
    <2>2. On(v) \in Incidents /\ lock[On(v)] = v
      BY <2>1, OnIn DEF TendInv, Manned
    <2> QED
      BY <1>1, <2>1, <2>2
  <1>5. \A v \in Workers : Engaged(worker[v]) => worker'[v] = worker[v]
    BY <1>2, <1>3 DEF Engaged
  <1> QED
    BY <1>1, <1>4, <1>5, LocksTend

LEMMA TendStays ==
    ASSUME TendInv, UNCHANGED <<db, worker, lock>>
    PROVE  TendInv'
  <1>1. Tended(db')
    BY DEF TendInv
  <1>2. Manned'
    BY SMTT(40) DEF TendInv, Manned, Owner, On
  <1> QED
    BY <1>1, <1>2 DEF TendInv

LEMMA StepTends ==
    ASSUME Core, TendInv, Step, ChecksUncut
    PROVE  TendInv'
  <1>1. ASSUME NEW w \in Workers, Handle(w) PROVE TendInv'
    <2>1. CASE Return(w) \/ Throw(w)
      BY <2>1, LeaveTends DEF Return, Throw
    <2> QED
      BY <1>1, <2>1, ProviderTends, BeginTends, FinalizeTends, EngineTends DEF Handle
  <1>2. ASSUME NEW w \in Workers, Fault(w) PROVE TendInv'
    BY <1>2, ProviderTends, BeginTends, EngineTends, CrashTends, StallTends DEF Fault
  <1> QED
    BY <1>1, <1>2, WorldTends, RowsTend, ClaimTends, LockExpiresTends, TendStays
       DEF Step, Queue, Deliver, Fetch, Lose

LEMMA TendInit == Init => TendInv
  <1> SUFFICES ASSUME Init PROVE TendInv
    OBVIOUS
  <1>1. \A j \in Jobs : db.job[j] = NoJob
    BY DEF Init
  <1>2. \A i \in Incidents : ~db.inc[i].gathering
    BY DEF Init
  <1>3. \A w \in Workers : worker[w].pc = "idle"
    BY DEF Init, Idle
  <1>4. \A j \in Jobs : ~Owes(db.job[j])
    BY <1>1, SMTT(40) DEF Owes, NoJob
  <1>5. \A i \in Incidents : Backed(db, i)
    BY <1>2 DEF Backed
  <1>6. Manned
    BY <1>2, <1>3 DEF Manned
  <1> QED
    BY <1>4, <1>5, <1>6 DEF TendInv, Tended

LEMMA TendNext == Inv /\ TendInv /\ [Next]_vars /\ [ChecksUncut]_vars => TendInv'
  <1> SUFFICES ASSUME Inv, TendInv, [Next]_vars, [ChecksUncut]_vars PROVE TendInv'
    OBVIOUS
  <1>1. CASE UNCHANGED vars
    BY <1>1, TendStays DEF vars
  <1>2. CASE Next /\ ChecksUncut
    BY <1>2, StepTends DEF Next, Inv
  <1> QED
    BY <1>1, <1>2

\* An active incident that shows an investigation in progress has a check that
\* will end it, whatever clears, links, moves, merges or supersedes meanwhile:
\* beginRecoveryInvestigation marks the incident for the run of a claimed job
\* whose worker holds the engine lock, clearRecoveryTx and the fence bump of a
\* relation give saved progress back or keep its run, and the worker finalizes
\* or restores before it leaves.  A worker that dies during its check leaves
\* the progress behind: the theorem asks that none does, and that none stalls
\* past its lease.
THEOREM ProgressOwned == Spec /\ [][ChecksUncut]_vars => []GatheringIsOwned
  <1>1. TendInv => GatheringIsOwned
    <2> SUFFICES ASSUME TendInv, NEW i \in Incidents, db.inc[i].gathering
                 PROVE  Unsettled(db, i) # {}
      BY DEF GatheringIsOwned
    <2>1. db.inc[i].run[1] \in Unsettled(db, i)
      BY DEF TendInv, Tended, Backed, Unsettled
    <2> QED
      BY <2>1
  <1> QED
    BY <1>1, InvHolds, TendInit, TendNext, PTL DEF Spec
=============================================================================
