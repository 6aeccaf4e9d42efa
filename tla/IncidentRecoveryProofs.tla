----------------------- MODULE IncidentRecoveryProofs -----------------------
(***************************************************************************)
(* Proofs about IncidentRecovery, for any incidents, signals, jobs,        *)
(* workers and budgets of outside events.                                  *)
(*                                                                         *)
(* A transaction is an operator from tables to tables, so every operator   *)
(* has a lemma that says what it keeps: Leads (rows stay well typed, no    *)
(* run is opened), Mild (statuses and edges stay, a basis only falls) or   *)
(* Steady (the groups stay Whole).  The action lemmas compose them as the  *)
(* actions compose the operators.                                          *)
(***************************************************************************)
EXTENDS IncidentRecovery, TLAPS

-----------------------------------------------------------------------------
(* The tables, by kind of row.                                             *)

Statuses == Active \cup Closed
Runs     == {None} \cup (Jobs \X Nat)
Fences   == SUBSET (Signals \X Nat \X {"absent", "active", "resolved"})

IncRows ==
    [status: Statuses, ver: Nat, since: Nat, archived: BOOLEAN,
     policy: {"verified_recovery", "provider_clear"},
     basis: {None, "operator", "verified_recovery", "provider_clear"},
     gathering: BOOLEAN,
     rec: {None, "verifying", "monitoring", "verified", "not_verified"},
     run: Runs, att: 0..MaxChecks,
     cause: Incidents \cup {None}, merged: Incidents \cup {None},
     was: Statuses, moved: SUBSET Signals]

SigRows ==
    [state: {"absent", "active", "resolved"}, ver: Nat,
     prov: {None, "provider", "outdated", "operator", "report"}, owner: Incidents]

JobRows ==
    [st: {"absent", "queued", "processing", "done", "dead"},
     inc: Incidents \cup {None}, ver: Nat, fence: Fences,
     att: 0..MaxChecks, later: BOOLEAN, saved: BOOLEAN, tries: Nat,
     runs: Nat, open: BOOLEAN, denied: BOOLEAN, told: BOOLEAN]

Tables ==
    [inc: [Incidents -> IncRows], sig: [Signals -> SigRows],
     job: [Jobs -> JobRows], app: [Incidents -> BOOLEAN]]

Pcs == {"idle", "claimed", "cleared", "checking", "broken", "throwing", "returning"}

WorkerRows ==
    [pc: Pcs, job: Jobs \cup {None}, run: Runs, ver: Nat, fence: Fences,
     att: 0..MaxChecks, saved: BOOLEAN, lease: BOOLEAN]

\* What a worker has read of a row, or nothing.
ReadRows == [job: Jobs \cup {None}, ver: Nat, fence: Fences, att: 0..MaxChecks]
Known    == read \in [Workers -> ReadRows]

\* A job that was ever inserted is about an incident.
Sane(d) == d \in Tables /\ \A j \in Jobs : d.job[j].st # "absent" => d.job[j].inc \in Incidents

\* What no transaction but the admission of a run does: open a run, or turn an
\* open one over to another incident; and no row becomes unused again.
Tame(d, e) ==
    \A j \in Jobs : /\ e.job[j].open => d.job[j].open /\ e.job[j].inc = d.job[j].inc
                    /\ d.job[j].st # "absent" => e.job[j].st # "absent"

Leads(d, e) == Sane(e) /\ Tame(d, e)

LEMMA LeadsOn ==
    /\ \A d : Sane(d) => Leads(d, d)
    /\ \A d, e, f : Leads(d, e) /\ Leads(e, f) => Leads(d, f)
  BY DEF Leads, Tame

\* A transaction that leaves the job table alone.
LEMMA SameJobs ==
    ASSUME NEW d, NEW e, Sane(d), e \in Tables, e.job = d.job
    PROVE  Leads(d, e)
  BY DEF Leads, Tame, Sane

LEMMA IncSet ==
    ASSUME NEW d, Sane(d), NEW f \in [Incidents -> IncRows]
    PROVE  LET e == [d EXCEPT !.inc = f]
           IN  Leads(d, e) /\ e.inc = f /\ e.sig = d.sig /\ e.job = d.job /\ e.app = d.app
  <1> DEFINE e == [d EXCEPT !.inc = f]
  <1>1. d \in Tables
    BY DEF Sane
  <1>2. e \in Tables /\ e.inc = f /\ e.sig = d.sig /\ e.job = d.job /\ e.app = d.app
    BY <1>1 DEF Tables
  <1> HIDE DEF e
  <1>3. Leads(d, e)
    BY <1>2, SameJobs
  <1> QED
    BY <1>2, <1>3 DEF e

LEMMA IncRow ==
    ASSUME NEW d, Sane(d), NEW i \in Incidents, NEW r \in IncRows
    PROVE  LET e == [d EXCEPT !.inc[i] = r]
           IN  /\ Leads(d, e) /\ e.sig = d.sig /\ e.job = d.job /\ e.app = d.app
               /\ e.inc = [k \in Incidents |-> IF k = i THEN r ELSE d.inc[k]]
  <1> DEFINE e == [d EXCEPT !.inc[i] = r]
             f == [d.inc EXCEPT ![i] = r]
  <1>1. d \in Tables /\ d.inc \in [Incidents -> IncRows]
    BY DEF Sane, Tables
  <1>2. f \in [Incidents -> IncRows] /\ f = [k \in Incidents |-> IF k = i THEN r ELSE d.inc[k]]
    BY <1>1
  <1>3. e = [d EXCEPT !.inc = f]
    BY <1>1
  <1> HIDE DEF f
  <1>4. LET g == [d EXCEPT !.inc = f]
        IN  Leads(d, g) /\ g.inc = f /\ g.sig = d.sig /\ g.job = d.job /\ g.app = d.app
    BY <1>2, IncSet
  <1> HIDE DEF e
  <1>5. Leads(d, e) /\ e.inc = f /\ e.sig = d.sig /\ e.job = d.job /\ e.app = d.app
    BY <1>3, <1>4
  <1> QED
    BY <1>2, <1>5 DEF e

LEMMA SigSet ==
    ASSUME NEW d, Sane(d), NEW f \in [Signals -> SigRows]
    PROVE  LET e == [d EXCEPT !.sig = f]
           IN  Leads(d, e) /\ e.sig = f /\ e.inc = d.inc /\ e.job = d.job /\ e.app = d.app
  <1> DEFINE e == [d EXCEPT !.sig = f]
  <1>1. d \in Tables
    BY DEF Sane
  <1>2. e \in Tables /\ e.inc = d.inc /\ e.sig = f /\ e.job = d.job /\ e.app = d.app
    BY <1>1 DEF Tables
  <1> HIDE DEF e
  <1>3. Leads(d, e)
    BY <1>2, SameJobs
  <1> QED
    BY <1>2, <1>3 DEF e

LEMMA AppRow ==
    ASSUME NEW d, Sane(d), NEW i \in Incidents, NEW b \in BOOLEAN
    PROVE  LET e == [d EXCEPT !.app[i] = b]
           IN  Leads(d, e) /\ e.sig = d.sig /\ e.inc = d.inc /\ e.job = d.job
  <1> DEFINE e == [d EXCEPT !.app[i] = b]
  <1>1. d \in Tables
    BY DEF Sane
  <1>2. e \in Tables /\ e.inc = d.inc /\ e.sig = d.sig /\ e.job = d.job
    BY <1>1 DEF Tables
  <1> HIDE DEF e
  <1>3. Leads(d, e)
    BY <1>2, SameJobs
  <1> QED
    BY <1>2, <1>3 DEF e

LEMMA JobSet ==
    ASSUME NEW d, Sane(d), NEW f \in [Jobs -> JobRows],
           \A j \in Jobs : /\ f[j].st # "absent" => f[j].inc \in Incidents
                           /\ f[j].open => d.job[j].open /\ f[j].inc = d.job[j].inc
                           /\ d.job[j].st # "absent" => f[j].st # "absent"
    PROVE  LET e == [d EXCEPT !.job = f]
           IN  Leads(d, e) /\ e.sig = d.sig /\ e.inc = d.inc /\ e.job = f /\ e.app = d.app
  <1> DEFINE e == [d EXCEPT !.job = f]
  <1>1. d \in Tables
    BY DEF Sane
  <1>2. e \in Tables /\ e.inc = d.inc /\ e.sig = d.sig /\ e.job = f /\ e.app = d.app
    BY <1>1 DEF Tables
  <1> HIDE DEF e
  <1>3. Leads(d, e)
    BY <1>2 DEF Leads, Tame, Sane
  <1> QED
    BY <1>2, <1>3 DEF e

LEMMA JobRow ==
    ASSUME NEW d, Sane(d), NEW j \in Jobs, NEW r \in JobRows,
           r.st # "absent" => r.inc \in Incidents,
           r.open => d.job[j].open /\ r.inc = d.job[j].inc,
           d.job[j].st # "absent" => r.st # "absent"
    PROVE  LET e == [d EXCEPT !.job[j] = r]
           IN  /\ Leads(d, e) /\ e.sig = d.sig /\ e.inc = d.inc /\ e.app = d.app
               /\ e.job = [k \in Jobs |-> IF k = j THEN r ELSE d.job[k]]
  <1> DEFINE e == [d EXCEPT !.job[j] = r]
             f == [d.job EXCEPT ![j] = r]
  <1>1. d \in Tables /\ d.job \in [Jobs -> JobRows]
    BY DEF Sane, Tables
  <1>2. f \in [Jobs -> JobRows] /\ f = [k \in Jobs |-> IF k = j THEN r ELSE d.job[k]]
    BY <1>1
  <1>3. e = [d EXCEPT !.job = f]
    BY <1>1
  <1>4. \A k \in Jobs : /\ f[k].st # "absent" => f[k].inc \in Incidents
                        /\ f[k].open => d.job[k].open /\ f[k].inc = d.job[k].inc
                        /\ d.job[k].st # "absent" => f[k].st # "absent"
    BY <1>2 DEF Sane
  <1> HIDE DEF f
  <1>5. LET g == [d EXCEPT !.job = f]
        IN  Leads(d, g) /\ g.sig = d.sig /\ g.inc = d.inc /\ g.job = f /\ g.app = d.app
    BY <1>2, <1>4, JobSet
  <1> HIDE DEF e
  <1>6. Leads(d, e) /\ e.sig = d.sig /\ e.inc = d.inc /\ e.job = f /\ e.app = d.app
    BY <1>3, <1>5
  <1> QED
    BY <1>2, <1>6 DEF e

LEMMA Rows ==
    ASSUME NEW d, Sane(d)
    PROVE  /\ \A i \in Incidents : d.inc[i] \in IncRows
           /\ \A s \in Signals : d.sig[s] \in SigRows
           /\ \A j \in Jobs : d.job[j] \in JobRows
  BY DEF Sane, Tables

-----------------------------------------------------------------------------
(* What a transaction that only takes verdicts back, or queues a check,    *)
(* leaves as it is: signals, approvals, and of every incident its place in *)
(* the graph and its status; a joint basis falls, it is never gained.      *)

Alike(r, q) ==
    /\ q.status = r.status /\ q.cause = r.cause
    /\ q.merged = r.merged /\ q.archived = r.archived
    /\ q.basis \in {r.basis, None}

Fades(d, e) ==
    /\ e.sig = d.sig /\ e.app = d.app
    /\ \A k \in Incidents : Alike(d.inc[k], e.inc[k])

Mild(d, e) == Leads(d, e) /\ Fades(d, e)

LEMMA MildOn ==
    /\ \A d : Sane(d) => Mild(d, d)
    /\ \A d, e, f : Mild(d, e) /\ Mild(e, f) => Mild(d, f)
  <1>1. ASSUME NEW d, Sane(d) PROVE Mild(d, d)
    <2>1. Leads(d, d)
      BY <1>1, LeadsOn
    <2> QED
      BY <2>1 DEF Mild, Fades, Alike
  <1>2. ASSUME NEW d, NEW e, NEW f, Mild(d, e), Mild(e, f) PROVE Mild(d, f)
    <2>1. Leads(d, f)
      BY <1>2, LeadsOn DEF Mild
    <2> QED
      BY <1>2, <2>1 DEF Mild, Fades, Alike
  <1> QED
    BY <1>1, <1>2

LEMMA MildSane == \A d, e : Mild(d, e) => Sane(e)
  BY DEF Mild, Leads

LEMMA Counts == 0 \in 0..MaxChecks /\ 1 \in 0..MaxChecks /\ MaxChecks \in 0..MaxChecks
  BY RecoveryAssumptions

LEMMA RowOps ==
    ASSUME NEW r \in IncRows
    PROVE  /\ NoVerdict(r) \in IncRows /\ Alike(r, NoVerdict(r))
           /\ Bumped(r) \in IncRows /\ Alike(r, Bumped(r))
           /\ NoVerdict(r).gathering = r.gathering /\ NoVerdict(r).ver = r.ver
           /\ Bumped(r).basis = r.basis /\ NoVerdict(r).basis = r.basis
  <1>1. r.ver + 1 \in Nat
    BY DEF IncRows
  <1>2. NoVerdict(r) \in IncRows
    BY Counts DEF IncRows, NoVerdict, Runs
  <1>3. Bumped(r) \in IncRows
    BY <1>1 DEF IncRows, Bumped
  <1>4. Alike(r, NoVerdict(r)) /\ NoVerdict(r).gathering = r.gathering /\ NoVerdict(r).ver = r.ver
    BY DEF IncRows, NoVerdict, Alike
  <1>5. Alike(r, Bumped(r))
    BY DEF IncRows, Bumped, Alike
  <1>6. Bumped(r).basis = r.basis /\ NoVerdict(r).basis = r.basis
    BY DEF IncRows, Bumped, NoVerdict
  <1> QED
    BY <1>2, <1>3, <1>4, <1>5, <1>6

\* One incident's row is replaced by one that fades from it.
LEMMA IncMild ==
    ASSUME NEW d, Sane(d), NEW i \in Incidents, NEW r \in IncRows, Alike(d.inc[i], r)
    PROVE  LET e == [d EXCEPT !.inc[i] = r]
           IN  /\ Mild(d, e) /\ e.job = d.job
               /\ e.inc = [k \in Incidents |-> IF k = i THEN r ELSE d.inc[k]]
  <1> DEFINE e == [d EXCEPT !.inc[i] = r]
  <1>1. /\ Leads(d, e) /\ e.sig = d.sig /\ e.job = d.job /\ e.app = d.app
        /\ e.inc = [k \in Incidents |-> IF k = i THEN r ELSE d.inc[k]]
    BY IncRow
  <1> HIDE DEF e
  <1>2. Mild(d, e)
    BY <1>1 DEF Mild, Fades, Alike
  <1> QED
    BY <1>1, <1>2 DEF e

\* All rows are replaced, each by one that fades from it.
LEMMA IncsMild ==
    ASSUME NEW d, Sane(d), NEW f \in [Incidents -> IncRows],
           \A k \in Incidents : Alike(d.inc[k], f[k])
    PROVE  LET e == [d EXCEPT !.inc = f]
           IN  Mild(d, e) /\ e.job = d.job /\ e.inc = f
  <1> DEFINE e == [d EXCEPT !.inc = f]
  <1>1. Leads(d, e) /\ e.inc = f /\ e.sig = d.sig /\ e.job = d.job /\ e.app = d.app
    BY IncSet
  <1> HIDE DEF e
  <1>2. Mild(d, e)
    BY <1>1 DEF Mild, Fades
  <1> QED
    BY <1>1, <1>2 DEF e

\* Only the job table moves, as Leads permits.
LEMMA JobsMild ==
    ASSUME NEW d, Sane(d), NEW f \in [Jobs -> JobRows],
           \A j \in Jobs : /\ f[j].st # "absent" => f[j].inc \in Incidents
                           /\ f[j].open => d.job[j].open /\ f[j].inc = d.job[j].inc
                           /\ d.job[j].st # "absent" => f[j].st # "absent"
    PROVE  LET e == [d EXCEPT !.job = f]
           IN  Mild(d, e) /\ e.inc = d.inc /\ e.job = f
  <1> DEFINE e == [d EXCEPT !.job = f]
  <1>1. Leads(d, e) /\ e.sig = d.sig /\ e.inc = d.inc /\ e.job = f /\ e.app = d.app
    BY JobSet
  <1> HIDE DEF e
  <1>2. Mild(d, e)
    BY <1>1 DEF Mild, Fades, Alike
  <1> QED
    BY <1>1, <1>2 DEF e

LEMMA JobMild ==
    ASSUME NEW d, Sane(d), NEW j \in Jobs, NEW r \in JobRows,
           r.st # "absent" => r.inc \in Incidents,
           r.open => d.job[j].open /\ r.inc = d.job[j].inc,
           d.job[j].st # "absent" => r.st # "absent"
    PROVE  LET e == [d EXCEPT !.job[j] = r]
           IN  /\ Mild(d, e) /\ e.inc = d.inc
               /\ e.job = [k \in Jobs |-> IF k = j THEN r ELSE d.job[k]]
  <1> DEFINE e == [d EXCEPT !.job[j] = r]
  <1>1. /\ Leads(d, e) /\ e.sig = d.sig /\ e.inc = d.inc /\ e.app = d.app
        /\ e.job = [k \in Jobs |-> IF k = j THEN r ELSE d.job[k]]
    BY JobRow
  <1> HIDE DEF e
  <1>2. Mild(d, e)
    BY <1>1 DEF Mild, Fades, Alike
  <1> QED
    BY <1>1, <1>2 DEF e

-----------------------------------------------------------------------------
(* The walk to the cause stays among the incidents.                        *)

Tops(d, i) == { c \in Causes(d, i) : d.inc[c].cause = None }

LEMMA RootIn ==
    ASSUME NEW d, NEW i \in Incidents
    PROVE  /\ Root(d, i) \in Incidents
           /\ d.inc[i].cause = None => Root(d, i) = i
           /\ d.inc[i].cause # None =>
                IF Tops(d, i) = {} THEN Root(d, i) = i ELSE Root(d, i) \in Tops(d, i)
  <1>1. Tops(d, i) \subseteq Incidents
    BY DEF Tops, Causes
  <1>2. Tops(d, i) # {} => (CHOOSE c \in Tops(d, i) : TRUE) \in Tops(d, i)
    OBVIOUS
  <1>3. Root(d, i) = IF d.inc[i].cause = None THEN i
                     ELSE IF Tops(d, i) = {} THEN i ELSE CHOOSE c \in Tops(d, i) : TRUE
    BY DEF Root, Tops
  <1> QED
    BY <1>1, <1>2, <1>3

LEMMA GroupIn == \A d, i : Group(d, i) \subseteq Incidents
  BY DEF Group

-----------------------------------------------------------------------------
(* The transactions, one lemma each.                                       *)

LEMMA ClearRecoveryMild ==
    ASSUME NEW d, Sane(d), NEW i \in Incidents
    PROVE  Mild(d, ClearRecovery(d, i)) /\ ClearRecovery(d, i).inc[i].basis = None
  <1> DEFINE row  == d.inc[i]
             back == row.gathering /\ row.run # None /\ d.job[row.run[1]].saved
             r    == [NoVerdict(row) EXCEPT
                        !.gathering = row.gathering /\ ~back, !.basis = None,
                        !.run = IF row.gathering /\ ~back THEN row.run ELSE None]
             f    == [j \in Jobs |-> IF j \in Queued(d, i)
                                     THEN [d.job[j] EXCEPT !.st = "done"] ELSE d.job[j]]
             e    == [d EXCEPT !.inc[i] = r]
  <1>1. row \in IncRows /\ NoVerdict(row) \in IncRows /\ Alike(row, NoVerdict(row))
    BY Rows, RowOps
  <1>2. r \in IncRows
    <2>1. (row.gathering /\ ~back) \in BOOLEAN
      OBVIOUS
    <2>2. (IF row.gathering /\ ~back THEN row.run ELSE None) \in Runs
      BY <1>1 DEF IncRows, Runs
    <2> HIDE DEF back, row
    <2> QED
      BY <1>1, <2>1, <2>2, ZenonT(40) DEF IncRows
  <1>3. Alike(row, r) /\ r.basis = None
    <2> HIDE DEF back, row
    <2> QED
      BY <1>1 DEF IncRows, Alike
  <1>4. ClearRecovery(d, i) = [e EXCEPT !.job = f]
    <2>1. ClearRecovery(d, i) = [d EXCEPT !.inc[i] = r, !.job = f]
      BY ZenonT(60), SMTT(60) DEF ClearRecovery
    <2> HIDE DEF r, f
    <2> QED
      BY <2>1
  <1> HIDE DEF r, row
  <1>5. Mild(d, e) /\ e.job = d.job /\ e.inc = [k \in Incidents |-> IF k = i THEN r ELSE d.inc[k]]
    BY <1>2, <1>3, IncMild DEF row
  <1> HIDE DEF e
  <1>6. Sane(e)
    BY <1>5, MildSane
  <1>7. \A j \in Jobs : d.job[j] \in JobRows
    BY Rows
  <1>8. f \in [Jobs -> JobRows]
    BY <1>7 DEF JobRows
  <1>9. \A j \in Jobs : /\ f[j].st # "absent" => f[j].inc \in Incidents
                        /\ f[j].open => e.job[j].open /\ f[j].inc = e.job[j].inc
                        /\ e.job[j].st # "absent" => f[j].st # "absent"
    BY <1>5, <1>7 DEF JobRows, Sane, Queued
  <1> HIDE DEF f
  <1>10. LET g == [e EXCEPT !.job = f] IN Mild(e, g) /\ g.inc = e.inc
    BY <1>6, <1>8, <1>9, JobsMild
  <1>11. Mild(d, ClearRecovery(d, i))
    BY <1>4, <1>5, <1>10, MildOn
  <1> QED
    BY <1>3, <1>4, <1>5, <1>10, <1>11

LEMMA ClearGroupMild ==
    ASSUME NEW d, Sane(d), NEW i \in Incidents
    PROVE  /\ Mild(d, ClearGroup(d, i))
           /\ \A k \in Group(d, i) : ClearGroup(d, i).inc[k].basis = None
  <1> DEFINE f == [k \in Incidents |-> IF k \in Group(d, i) THEN [d.inc[k] EXCEPT !.basis = None]
                                       ELSE d.inc[k]]
             e == [d EXCEPT !.inc = f]
  <1>1. \A k \in Incidents : d.inc[k] \in IncRows
    BY Rows
  <1>2. f \in [Incidents -> IncRows] /\ \A k \in Incidents : Alike(d.inc[k], f[k])
    BY <1>1 DEF IncRows, Alike
  <1>3. \A k \in Group(d, i) : k \in Incidents /\ f[k].basis = None
    BY <1>1, GroupIn DEF IncRows
  <1>4. ClearGroup(d, i) = ClearRecovery(e, Root(d, i))
    BY DEF ClearGroup
  <1> HIDE DEF f
  <1>5. Mild(d, e) /\ e.inc = f
    BY <1>2, IncsMild
  <1> HIDE DEF e
  <1>6. Sane(e) /\ Root(d, i) \in Incidents
    BY <1>5, MildSane, RootIn
  <1>7. Mild(e, ClearRecovery(e, Root(d, i)))
    BY <1>6, ClearRecoveryMild
  <1>8. Mild(d, ClearGroup(d, i))
    BY <1>4, <1>5, <1>7, MildOn
  <1> QED
    BY <1>3, <1>4, <1>5, <1>7, <1>8 DEF Mild, Fades, Alike

LEMMA FenceIn ==
    ASSUME NEW d, Sane(d), NEW i
    PROVE  SignalFence(d, i) \in Fences
  <1>1. \A s \in Signals : d.sig[s] \in SigRows
    BY Rows
  <1> QED
    BY <1>1 DEF SignalFence, GroupSignals, Fences, SigRows

LEMMA InsertMild ==
    ASSUME NEW d, Sane(d), NEW i \in Incidents, NEW ver \in Nat, NEW fence \in Fences,
           NEW att \in 0..MaxChecks, NEW later \in BOOLEAN
    PROVE  /\ Mild(d, InsertRecovery(d, i, ver, fence, att, later))
           /\ InsertRecovery(d, i, ver, fence, att, later).inc = d.inc
  <1> DEFINE row   == d.inc[i]
             saved == ~row.gathering \/ \E j \in Unsettled(d, i) : d.job[j].saved
             given == IF att # 0 THEN att ELSE IF row.rec = "verifying" THEN row.att ELSE 0
             new   == CHOOSE j \in FreeJobs(d) : TRUE
             f     == [j \in Jobs |->
                         IF j \in Queued(d, i)
                         THEN [d.job[j] EXCEPT !.ver = ver, !.fence = fence, !.later = later,
                                     !.att = IF given # 0 THEN given ELSE @,
                                     !.saved = @ \/ saved]
                         ELSE d.job[j]]
             r     == [NoJob EXCEPT !.st = "queued", !.inc = i, !.ver = ver, !.fence = fence,
                             !.att = given, !.later = later, !.saved = saved]
  <1>1. row \in IncRows /\ \A j \in Jobs : d.job[j] \in JobRows
    BY Rows
  <1>2. given \in 0..MaxChecks /\ saved \in BOOLEAN
    BY <1>1, Counts DEF IncRows
  <1>3. InsertRecovery(d, i, ver, fence, att, later)
          = IF Refused(row) THEN d
            ELSE IF Queued(d, i) # {} THEN [d EXCEPT !.job = f] ELSE [d EXCEPT !.job[new] = r]
    BY DEF InsertRecovery
  <1> HIDE DEF given, saved, row
  <1>4. Mild(d, [d EXCEPT !.job = f]) /\ [d EXCEPT !.job = f].inc = d.inc
    <2>1. \A j \in Jobs : (IF given # 0 THEN given ELSE d.job[j].att) \in 0..MaxChecks
                          /\ (d.job[j].saved \/ saved) \in BOOLEAN
      BY <1>1, <1>2 DEF JobRows
    <2>2. f \in [Jobs -> JobRows]
      <3>1. ASSUME NEW j \in Jobs,
                   NEW a \in 0..MaxChecks, NEW b \in BOOLEAN
            PROVE  [d.job[j] EXCEPT !.ver = ver, !.fence = fence, !.later = later,
                                    !.att = a, !.saved = b] \in JobRows
        BY <1>1 DEF JobRows
      <3>2. \A j \in Jobs : f[j] \in JobRows
        BY <1>1, <2>1, <3>1
      <3> QED
        BY <3>2
    <2>3. \A j \in Jobs : /\ f[j].st # "absent" => f[j].inc \in Incidents
                          /\ f[j].open => d.job[j].open /\ f[j].inc = d.job[j].inc
                          /\ d.job[j].st # "absent" => f[j].st # "absent"
      BY <1>1 DEF JobRows, Sane
    <2> HIDE DEF f
    <2> QED
      BY <2>2, <2>3, JobsMild
  <1>5. Mild(d, [d EXCEPT !.job[new] = r]) /\ [d EXCEPT !.job[new] = r].inc = d.inc
    <2>1. r \in JobRows /\ r.st = "queued" /\ r.inc = i /\ ~r.open
      BY <1>2, Counts DEF JobRows, NoJob, Fences
    <2> HIDE DEF r, new
    <2>2. CASE new \in Jobs
      BY <2>1, <2>2, JobMild
    <2>3. CASE new \notin Jobs
      <3>1. d \in Tables
        BY DEF Sane
      <3>2. [d.job EXCEPT ![new] = r] = d.job
        BY <2>3, <3>1 DEF Tables
      <3>3. [d EXCEPT !.job[new] = r] = d
        BY <3>1, <3>2 DEF Tables
      <3> QED
        BY <3>3, MildOn
    <2> QED
      BY <2>2, <2>3
  <1> QED
    BY <1>3, <1>4, <1>5, MildOn

LEMMA StartMild ==
    ASSUME NEW d, Sane(d), NEW i \in Incidents
    PROVE  Mild(d, StartRecovery(d, i)) /\ StartRecovery(d, i).inc = d.inc
  <1>1. Root(d, i) \in Incidents
    BY RootIn
  <1>2. d.inc[Root(d, i)].ver \in Nat
    BY <1>1, Rows DEF IncRows
  <1>3. SignalFence(d, i) \in Fences
    BY FenceIn
  <1>4. LET e == InsertRecovery(d, Root(d, i), d.inc[Root(d, i)].ver, SignalFence(d, i), 0, FALSE)
        IN  Mild(d, e) /\ e.inc = d.inc
    BY <1>1, <1>2, <1>3, Counts, InsertMild
  <1> QED
    BY <1>4, MildOn DEF StartRecovery

LEMMA RestoreMild ==
    ASSUME NEW d, Sane(d), NEW i \in Incidents, NEW saved, NEW run
    PROVE  Mild(d, Restore(d, i, saved, run)) /\ Restore(d, i, saved, run).job = d.job
  <1> DEFINE r == [NoVerdict(d.inc[i]) EXCEPT !.gathering = FALSE]
  <1>1. d.inc[i] \in IncRows /\ NoVerdict(d.inc[i]) \in IncRows /\ Alike(d.inc[i], NoVerdict(d.inc[i]))
    BY Rows, RowOps
  <1>2. r \in IncRows /\ Alike(d.inc[i], r)
    BY <1>1 DEF IncRows, Alike
  <1>3. Restore(d, i, saved, run)
          = IF saved /\ d.inc[i].gathering /\ d.inc[i].run = run THEN [d EXCEPT !.inc[i] = r] ELSE d
    BY DEF Restore
  <1> HIDE DEF r
  <1>4. LET e == [d EXCEPT !.inc[i] = r] IN Mild(d, e) /\ e.job = d.job
    BY <1>2, IncMild
  <1> QED
    BY <1>3, <1>4, MildOn

LEMMA CompleteMild ==
    ASSUME NEW d, Sane(d), NEW run \in Jobs \X Nat
    PROVE  Mild(d, Complete(d, run)) /\ Complete(d, run).inc = d.inc
  <1> DEFINE j == run[1]
             r == [d.job[j] EXCEPT !.open = FALSE]
  <1>1. j \in Jobs /\ d.job[j] \in JobRows
    BY Rows
  <1>2. r \in JobRows /\ ~r.open /\ r.st = d.job[j].st /\ r.inc = d.job[j].inc
    BY <1>1 DEF JobRows
  <1>3. Complete(d, run) = IF RunOpen(d, run) THEN [d EXCEPT !.job[j] = r] ELSE d
    BY DEF Complete
  <1>4. r.st # "absent" => r.inc \in Incidents
    BY <1>1, <1>2 DEF Sane
  <1>40. d.job[j].st # "absent" => r.st # "absent"
    BY <1>2
  <1>41. r.open => d.job[j].open /\ r.inc = d.job[j].inc
    BY <1>2
  <1> HIDE DEF r, j
  <1>5. LET e == [d EXCEPT !.job[j] = r] IN Mild(d, e) /\ e.inc = d.inc
    BY <1>1, <1>2, <1>4, <1>40, <1>41, JobMild
  <1> QED
    BY <1>3, <1>5, MildOn

LEMMA RefenceMild ==
    ASSUME NEW d, Sane(d), NEW members, members \subseteq Incidents
    PROVE  /\ Mild(d, Refence(d, members))
           /\ \A k \in members : Refence(d, members).inc[k].basis = None
  <1> DEFINE signalled == \E s \in Signals : d.sig[s].state # "absent" /\ d.sig[s].owner \in members
             hit == { k \in members : signalled \/ d.inc[k].rec # None \/ d.inc[k].basis # None }
             back(row) == row.gathering /\ row.run # None /\ d.job[row.run[1]].saved
             r(k) == [Bumped(NoVerdict(d.inc[k])) EXCEPT
                        !.gathering = @ /\ ~back(d.inc[k]), !.basis = None,
                        !.run = IF d.inc[k].gathering /\ ~back(d.inc[k])
                                THEN d.inc[k].run ELSE None]
             f == [k \in Incidents |-> IF k \notin hit THEN d.inc[k] ELSE r(k)]
             h == [j \in Jobs |-> IF d.job[j].inc \in hit /\ d.job[j].st = "queued"
                                  THEN [d.job[j] EXCEPT !.st = "done"] ELSE d.job[j]]
             e == [d EXCEPT !.inc = f]
  <1>1. Refence(d, members) = [e EXCEPT !.job = h]
    BY DEF Refence
  <1>2. ASSUME NEW k \in Incidents PROVE r(k) \in IncRows /\ Alike(d.inc[k], r(k)) /\ r(k).basis = None
    <2> DEFINE n == NoVerdict(d.inc[k])
               b == Bumped(n)
    <2>1. d.inc[k] \in IncRows /\ n \in IncRows /\ Alike(d.inc[k], n)
      BY Rows, RowOps
    <2>2. b \in IncRows /\ Alike(n, b) /\ b.basis = n.basis
      BY <2>1, RowOps
    <2>3. (b.gathering /\ ~back(d.inc[k])) \in BOOLEAN
      OBVIOUS
    <2>4. (IF d.inc[k].gathering /\ ~back(d.inc[k]) THEN d.inc[k].run ELSE None) \in Runs
      BY <2>1 DEF IncRows, Runs
    <2> HIDE DEF n, b, back
    <2>5. [b EXCEPT !.gathering = @ /\ ~back(d.inc[k]), !.basis = None,
                    !.run = IF d.inc[k].gathering /\ ~back(d.inc[k])
                            THEN d.inc[k].run ELSE None] \in IncRows
      BY <2>2, <2>3, <2>4 DEF IncRows
    <2>6. /\ r(k) = [b EXCEPT !.gathering = @ /\ ~back(d.inc[k]), !.basis = None,
                       !.run = IF d.inc[k].gathering /\ ~back(d.inc[k])
                               THEN d.inc[k].run ELSE None]
      BY DEF b, n
    <2> HIDE DEF r
    <2>7. r(k).basis = None /\ Alike(b, r(k))
      BY <2>2, <2>6 DEF IncRows, Alike
    <2>8. Alike(d.inc[k], r(k))
      BY <2>1, <2>2, <2>7 DEF Alike
    <2> QED
      BY <2>5, <2>6, <2>7, <2>8
  <1>3. \A k \in Incidents : d.inc[k] \in IncRows /\ Alike(d.inc[k], d.inc[k])
    BY Rows DEF Alike
  <1> HIDE DEF r
  <1>4. f \in [Incidents -> IncRows] /\ \A k \in Incidents : Alike(d.inc[k], f[k])
    BY <1>2, <1>3
  <1>5. \A k \in members : k \in Incidents /\ f[k].basis = None
    <2>1. \A k \in members : k \notin hit => d.inc[k].basis = None
      OBVIOUS
    <2> HIDE DEF hit
    <2> QED
      BY <1>2, <2>1
  <1> HIDE DEF f, hit
  <1>6. Mild(d, e) /\ e.job = d.job /\ e.inc = f
    BY <1>4, IncsMild
  <1> HIDE DEF e
  <1>7. Sane(e)
    BY <1>6, MildSane
  <1>8. \A j \in Jobs : d.job[j] \in JobRows
    BY Rows
  <1>9. h \in [Jobs -> JobRows]
    BY <1>8 DEF JobRows
  <1>10. \A j \in Jobs : /\ h[j].st # "absent" => h[j].inc \in Incidents
                         /\ h[j].open => e.job[j].open /\ h[j].inc = e.job[j].inc
                         /\ e.job[j].st # "absent" => h[j].st # "absent"
    BY <1>6, <1>8 DEF JobRows, Sane
  <1> HIDE DEF h
  <1>11. LET g == [e EXCEPT !.job = h] IN Mild(e, g) /\ g.inc = e.inc
    BY <1>7, <1>9, <1>10, JobsMild
  <1>12. Mild(d, Refence(d, members))
    BY <1>1, <1>6, <1>11, MildOn
  <1> QED
    BY <1>1, <1>5, <1>6, <1>11, <1>12

\* The signal table moves, nothing else.
Signalled(d, e) == Leads(d, e) /\ e.inc = d.inc /\ e.job = d.job /\ e.app = d.app

LEMMA WithSignalOK ==
    ASSUME NEW d, Sane(d), NEW s \in Signals, NEW state \in {"absent", "active", "resolved"},
           NEW prov \in {None, "provider", "outdated", "operator", "report"}
    PROVE  LET e == WithSignal(d, s, state, prov)
           IN  /\ Signalled(d, e)
               /\ \A t \in Signals : e.sig[t].owner = d.sig[t].owner
               /\ \A t \in Signals : e.sig[t].state = IF t = s THEN state ELSE d.sig[t].state
  <1> DEFINE r == [d.sig[s] EXCEPT !.state = state, !.prov = prov, !.ver = @ + 1]
             f == [d.sig EXCEPT ![s] = r]
             e == WithSignal(d, s, state, prov)
  <1>1. d \in Tables /\ d.sig \in [Signals -> SigRows] /\ d.sig[s] \in SigRows
    BY Rows DEF Sane, Tables
  <1>2. d.sig[s].ver + 1 \in Nat
    BY <1>1 DEF SigRows
  <1>3. r \in SigRows /\ r.owner = d.sig[s].owner /\ r.state = state
    BY <1>1, <1>2 DEF SigRows
  <1>4. e = [d EXCEPT !.sig = f]
    BY <1>1 DEF WithSignal, Tables, SigRows
  <1> HIDE DEF r
  <1>5. f \in [Signals -> SigRows]
    BY <1>1, <1>3
  <1>6. \A t \in Signals : f[t] = IF t = s THEN r ELSE d.sig[t]
    BY <1>1
  <1> HIDE DEF f
  <1>7. LET g == [d EXCEPT !.sig = f]
        IN  Leads(d, g) /\ g.sig = f /\ g.inc = d.inc /\ g.job = d.job /\ g.app = d.app
    BY <1>5, SigSet
  <1> HIDE DEF e
  <1>8. Leads(d, e) /\ e.sig = f /\ e.inc = d.inc /\ e.job = d.job /\ e.app = d.app
    BY <1>4, <1>7
  <1> QED
    BY <1>3, <1>6, <1>8 DEF Signalled, e

LEMMA ReportOK ==
    ASSUME NEW d, Sane(d), NEW i \in Incidents
    PROVE  LET e == Report(d, i)
           IN  /\ Signalled(d, e)
               /\ \A t \in Signals : /\ e.sig[t].owner = d.sig[t].owner
                                     /\ e.sig[t].state \in {"resolved", d.sig[t].state}
  <1> DEFINE f == [s \in Signals |->
                     IF s \in OwnSignals(d, i) /\ d.sig[s].state = "active"
                     THEN [d.sig[s] EXCEPT !.state = "resolved", !.prov = "report", !.ver = @ + 1]
                     ELSE d.sig[s]]
             e == Report(d, i)
  <1>1. \A s \in Signals : d.sig[s] \in SigRows /\ d.sig[s].ver + 1 \in Nat
    BY Rows DEF SigRows
  <1>2. f \in [Signals -> SigRows]
    BY <1>1 DEF SigRows
  <1>3. \A t \in Signals : f[t].owner = d.sig[t].owner /\ f[t].state \in {"resolved", d.sig[t].state}
    BY <1>1 DEF SigRows
  <1>4. e = [d EXCEPT !.sig = f]
    BY DEF Report
  <1> HIDE DEF f
  <1>5. LET g == [d EXCEPT !.sig = f]
        IN  Leads(d, g) /\ g.sig = f /\ g.inc = d.inc /\ g.job = d.job /\ g.app = d.app
    BY <1>2, SigSet
  <1> HIDE DEF e
  <1>6. Leads(d, e) /\ e.sig = f /\ e.inc = d.inc /\ e.job = d.job /\ e.app = d.app
    BY <1>4, <1>5
  <1> QED
    BY <1>3, <1>6 DEF Signalled, e

-----------------------------------------------------------------------------
(* Response groups as trees: lemmas about the walk along caused_by.        *)

\* A set of incidents the walk does not leave.
Shut(d, S) == \A k \in S : d.inc[k].cause # None => d.inc[k].cause \in S

Rooted(d) == \A i \in Incidents : Tops(d, i) # {}

LEMMA CausesIn == \A d, i, c : c \in Causes(d, i) => c \in Incidents
  BY DEF Causes

\* Causes(d, i) is inside every such set that holds i.
LEMMA CausesLeast ==
    ASSUME NEW d, NEW i, NEW S \in SUBSET Incidents, i \in S, Shut(d, S)
    PROVE  Causes(d, i) \subseteq S
  BY DEF Causes, Shut

LEMMA CausesSelf ==
    ASSUME NEW d, NEW i \in Incidents
    PROVE  i \in Causes(d, i)
  BY DEF Causes

\* Where edges lead to incidents, the walk is such a set itself.
LEMMA CausesShut ==
    ASSUME NEW d, Sane(d), NEW i \in Incidents
    PROVE  Shut(d, Causes(d, i))
  <1> SUFFICES ASSUME NEW k \in Causes(d, i), d.inc[k].cause # None
               PROVE  d.inc[k].cause \in Causes(d, i)
    BY DEF Shut
  <1>1. k \in Incidents
    BY CausesIn
  <1>2. d.inc[k].cause \in Incidents
    BY <1>1, Rows DEF IncRows
  <1>3. ASSUME NEW S \in SUBSET Incidents, i \in S,
               \A m \in S : d.inc[m].cause # None => d.inc[m].cause \in S
        PROVE  d.inc[k].cause \in S
    BY <1>3 DEF Causes
  <1> QED
    BY <1>2, <1>3 DEF Causes

\* The walk from a member of a walk is part of it.
LEMMA CausesOn ==
    ASSUME NEW d, Sane(d), NEW i \in Incidents, NEW k \in Causes(d, i)
    PROVE  Causes(d, k) \subseteq Causes(d, i)
  <1>1. Shut(d, Causes(d, i)) /\ Causes(d, i) \in SUBSET Incidents
    BY CausesShut, CausesIn
  <1> QED
    BY <1>1, CausesLeast

\* One edge at a time.
LEMMA CausesStep ==
    ASSUME NEW d, Sane(d), NEW k \in Incidents
    PROVE  /\ d.inc[k].cause = None => Causes(d, k) = {k}
           /\ d.inc[k].cause # None => Causes(d, k) = {k} \cup Causes(d, d.inc[k].cause)
  <1>1. ASSUME d.inc[k].cause = None PROVE Causes(d, k) = {k}
    <2>1. Shut(d, {k})
      BY <1>1 DEF Shut
    <2>2. Causes(d, k) \subseteq {k}
      BY <2>1, CausesLeast
    <2> QED
      BY <2>2, CausesSelf
  <1>2. ASSUME d.inc[k].cause # None
        PROVE  Causes(d, k) = {k} \cup Causes(d, d.inc[k].cause)
    <2> DEFINE m == d.inc[k].cause
    <2>1. m \in Incidents
      BY <1>2, Rows DEF IncRows
    <2>2. Shut(d, {k} \cup Causes(d, m))
      BY <2>1, CausesShut, CausesSelf DEF Shut
    <2>3. Causes(d, k) \subseteq {k} \cup Causes(d, m)
      BY <2>2, CausesLeast, CausesIn
    <2>4. m \in Causes(d, k)
      BY <1>2, CausesShut, CausesSelf DEF Shut
    <2>5. Causes(d, m) \subseteq Causes(d, k)
      BY <2>4, CausesOn
    <2> QED
      BY <2>3, <2>5, CausesSelf
  <1> QED
    BY <1>1, <1>2

\* An incident without a cause ends the walk of everyone whose walk reaches
\* it, and lies beyond every other member of that walk.
LEMMA TopBeyond ==
    ASSUME NEW d, Sane(d), NEW i \in Incidents, NEW t \in Tops(d, i)
    PROVE  \A k \in Causes(d, i) : t \in Causes(d, k)
  <1> DEFINE S == { k \in Causes(d, i) : t \in Causes(d, k) }
  <1>1. t \in Causes(d, i) /\ d.inc[t].cause = None /\ t \in Incidents
    BY CausesIn DEF Tops
  <1>2. Shut(d, S)
    <2> SUFFICES ASSUME NEW k \in S, d.inc[k].cause # None PROVE d.inc[k].cause \in S
      BY DEF Shut
    <2>1. k \in Causes(d, i) /\ t \in Causes(d, k) /\ k \in Incidents
      BY CausesIn
    <2>2. d.inc[k].cause \in Causes(d, i)
      BY <2>1, CausesShut DEF Shut
    <2>3. t \in {k} \cup Causes(d, d.inc[k].cause)
      BY <2>1, CausesStep
    <2>4. t # k
      BY <1>1
    <2> QED
      BY <2>2, <2>3, <2>4
  <1>3. i \in S /\ S \in SUBSET Incidents
    BY <1>1, CausesSelf, CausesIn
  <1> QED
    BY <1>2, <1>3, CausesLeast

LEMMA TopAlone ==
    ASSUME NEW d, Sane(d), NEW i \in Incidents, NEW t \in Tops(d, i)
    PROVE  Tops(d, i) = {t} /\ Root(d, i) = t
  <1>1. ASSUME NEW u \in Tops(d, i) PROVE u = t
    <2>1. t \in Causes(d, u) /\ u \in Incidents /\ d.inc[u].cause = None
      BY TopBeyond, CausesIn DEF Tops
    <2> QED
      BY <2>1, CausesStep
  <1>2. Tops(d, i) = {t}
    BY <1>1
  <1>3. CASE d.inc[i].cause = None
    <2>1. i \in Tops(d, i)
      BY <1>3, CausesSelf DEF Tops
    <2> QED
      BY <1>2, <1>3, <2>1, RootIn
  <1>4. CASE d.inc[i].cause # None
    BY <1>2, <1>4, RootIn
  <1> QED
    BY <1>2, <1>3, <1>4

\* In a graph without cycles the members of a walk share its root.
LEMMA RootShared ==
    ASSUME NEW d, Sane(d), Rooted(d), NEW i \in Incidents
    PROVE  /\ Root(d, i) \in Tops(d, i)
           /\ \A k \in Causes(d, i) : Root(d, k) = Root(d, i)
  <1>1. PICK t : t \in Tops(d, i)
    BY DEF Rooted
  <1>2. Root(d, i) = t
    BY <1>1, TopAlone
  <1>3. ASSUME NEW k \in Causes(d, i) PROVE Root(d, k) = t
    <2>1. t \in Causes(d, k) /\ k \in Incidents /\ d.inc[t].cause = None
      BY <1>1, TopBeyond, CausesIn DEF Tops
    <2>2. t \in Tops(d, k)
      BY <2>1 DEF Tops
    <2> QED
      BY <2>1, <2>2, TopAlone
  <1> QED
    BY <1>1, <1>2, <1>3

LEMMA RootOfRoot ==
    ASSUME NEW d, Sane(d), Rooted(d), NEW i \in Incidents
    PROVE  Root(d, Root(d, i)) = Root(d, i)
  BY RootShared DEF Tops

-----------------------------------------------------------------------------
(* How the roots move when edges are added or taken away.                  *)

LEMMA CausesSame ==
    ASSUME NEW d, NEW e, \A k \in Incidents : e.inc[k].cause = d.inc[k].cause,
           NEW i \in Incidents
    PROVE  Causes(e, i) = Causes(d, i) /\ Tops(e, i) = Tops(d, i)
  <1>1. \A S \in SUBSET Incidents : Shut(e, S) <=> Shut(d, S)
    BY DEF Shut
  <1>2. Causes(e, i) = Causes(d, i)
    BY <1>1 DEF Causes, Shut
  <1> QED
    BY <1>2, CausesIn DEF Tops

LEMMA RootsSame ==
    ASSUME NEW d, NEW e, \A k \in Incidents : e.inc[k].cause = d.inc[k].cause
    PROVE  /\ \A i \in Incidents : Root(e, i) = Root(d, i)
           /\ \A i \in Incidents : Group(e, i) = Group(d, i)
           /\ Rooted(d) => Rooted(e)
  <1>1. \A i \in Incidents : Tops(e, i) = Tops(d, i)
    BY CausesSame
  <1>2. ASSUME NEW i \in Incidents PROVE Root(e, i) = Root(d, i)
    <2>1. \A b : Root(b, i) = IF b.inc[i].cause = None THEN i
                              ELSE IF Tops(b, i) = {} THEN i ELSE CHOOSE c \in Tops(b, i) : TRUE
      BY DEF Root, Tops
    <2>2. Tops(e, i) = Tops(d, i) /\ e.inc[i].cause = d.inc[i].cause
      BY <1>1
    <2>3. (CHOOSE c \in Tops(e, i) : TRUE) = (CHOOSE c \in Tops(d, i) : TRUE)
      BY <2>2
    <2> QED
      BY <2>1, <2>2, <2>3
  <1> QED
    BY <1>1, <1>2 DEF Group, Rooted

\* Edges taken away: every walk still ends, and the groups only split.
LEMMA RootsCut ==
    ASSUME NEW d, NEW e, Sane(d), Sane(e), Rooted(d),
           \A k \in Incidents : e.inc[k].cause \in {d.inc[k].cause, None}
    PROVE  /\ Rooted(e)
           /\ \A i, k \in Incidents : Root(e, i) = Root(e, k) => Root(d, i) = Root(d, k)
  <1>1. ASSUME NEW i \in Incidents PROVE Causes(e, i) \subseteq Causes(d, i)
    <2>1. Shut(e, Causes(d, i))
      BY CausesShut, CausesIn DEF Shut
    <2> QED
      BY <2>1, CausesLeast, CausesSelf, CausesIn
  <1>2. ASSUME NEW i \in Incidents PROVE Tops(e, i) # {}
    <2>1. SUFFICES ASSUME \A k \in Causes(e, i) : e.inc[k].cause # None PROVE FALSE
      BY DEF Tops
    <2>2. \A k \in Causes(e, i) : e.inc[k].cause = d.inc[k].cause
      BY <2>1, CausesIn
    <2>3. Shut(d, Causes(e, i))
      BY <2>2, CausesShut DEF Shut
    <2>4. Causes(d, i) \subseteq Causes(e, i)
      BY <2>3, CausesLeast, CausesSelf, CausesIn
    <2>5. PICK t : t \in Tops(d, i)
      BY DEF Rooted
    <2> QED
      BY <2>1, <2>2, <2>4, <2>5 DEF Tops
  <1>3. Rooted(e)
    BY <1>2 DEF Rooted
  <1>4. ASSUME NEW i \in Incidents PROVE Root(d, Root(e, i)) = Root(d, i)
    BY <1>1, <1>3, RootShared DEF Tops
  <1> QED
    BY <1>3, <1>4

\* One edge added, from an incident without a cause to one whose walk does not
\* come back to it: still no cycle, and the two groups become one.
LEMMA RootsJoined ==
    ASSUME NEW d, NEW e, Sane(d), Sane(e), Rooted(d),
           NEW c \in Incidents, NEW p \in Incidents,
           d.inc[c].cause = None, c \notin Causes(d, p),
           e.inc[c].cause = p,
           \A k \in Incidents \ {c} : e.inc[k].cause = d.inc[k].cause
    PROVE  /\ Rooted(e)
           /\ \A i \in Incidents :
                Root(e, i) = IF Root(d, i) = c THEN Root(d, p) ELSE Root(d, i)
  <1>0. c # None /\ p # None
    BY RecoveryAssumptions
  <1>1. ASSUME NEW i \in Incidents, c \notin Causes(e, i)
        PROVE  Causes(d, i) \subseteq Causes(e, i)
    <2>1. Shut(d, Causes(e, i))
      BY <1>1, CausesShut, CausesIn DEF Shut
    <2> QED
      BY <2>1, CausesLeast, CausesSelf, CausesIn
  <1>2. ASSUME NEW i \in Incidents, c \notin Causes(d, i)
        PROVE  Causes(e, i) = Causes(d, i)
    <2>1. Shut(e, Causes(d, i))
      BY <1>2, CausesShut, CausesIn DEF Shut
    <2>2. Causes(e, i) \subseteq Causes(d, i)
      BY <2>1, CausesLeast, CausesSelf, CausesIn
    <2> QED
      BY <1>1, <1>2, <2>2
  <1>3. ASSUME NEW i \in Incidents, c \notin Causes(d, i)
        PROVE  Root(d, i) \in Tops(e, i) /\ Root(e, i) = Root(d, i) /\ Root(d, i) # c
    <2>1. Root(d, i) \in Tops(d, i)
      BY RootShared
    <2>2. Root(d, i) \in Tops(e, i) /\ Root(d, i) # c
      BY <1>2, <1>3, <2>1, CausesIn DEF Tops
    <2> QED
      BY <2>2, TopAlone
  <1>4. ASSUME NEW i \in Incidents, c \in Causes(d, i)
        PROVE  Root(d, p) \in Tops(e, i) /\ Root(e, i) = Root(d, p) /\ Root(d, i) = c
    <2>1. Root(d, i) = c
      BY <1>4, TopAlone DEF Tops
    <2>2. c \in Causes(e, i)
      BY <1>1, <1>4
    <2>3. p \in Causes(e, i)
      BY <1>0, <2>2, CausesShut DEF Shut
    <2>4. Causes(e, p) \subseteq Causes(e, i)
      BY <2>3, CausesOn
    <2>5. Root(d, p) \in Tops(e, p)
      BY <1>3
    <2>6. Root(d, p) \in Tops(e, i)
      BY <2>4, <2>5 DEF Tops
    <2> QED
      BY <2>1, <2>6, TopAlone
  <1> QED
    BY <1>3, <1>4 DEF Rooted

-----------------------------------------------------------------------------
(* What the groups keep: the invariant behind BasisHolds.                  *)

Evident(d, k) ==
    d.inc[k].status = "resolved" /\ d.inc[k].basis \in {"verified_recovery", "provider_clear"}

Quiescent(d, k) ==
    /\ d.inc[k].status \notin Active
    /\ \A s \in Signals : d.sig[s].state # "absent" /\ d.sig[s].owner = k
                            => d.sig[s].state = "resolved"

\* A group with a member resolved on evidence has no active member and no
\* uncleared signal.
Joint(d) == \A i, k \in Incidents : Evident(d, i) /\ Root(d, k) = Root(d, i) => Quiescent(d, k)

\* An active incident is neither archived nor merged away, and one that is
\* merged away is linked to nothing.
Placed(d) ==
    \A k \in Incidents :
        /\ d.inc[k].status \in Active => ~d.inc[k].archived /\ d.inc[k].merged = None
        /\ d.inc[k].merged # None =>
             d.inc[k].cause = None /\ \A m \in Incidents : d.inc[m].cause # k

Whole(d) == Rooted(d) /\ Placed(d) /\ Joint(d)

LEMMA WholeOn ==
    ASSUME NEW d, NEW e, Whole(d), Rooted(e), Placed(e),
           \A i, k \in Incidents : Root(e, i) = Root(e, k) => Root(d, i) = Root(d, k),
           \A k \in Incidents : /\ Evident(e, k) => Evident(d, k)
                                /\ Quiescent(d, k) => Quiescent(e, k)
    PROVE  Whole(e)
  BY DEF Whole, Joint

LEMMA MildWhole ==
    ASSUME NEW d, NEW e, Mild(d, e), Whole(d)
    PROVE  Whole(e)
  <1>1. \A k \in Incidents : e.inc[k].cause = d.inc[k].cause
    BY DEF Mild, Fades, Alike
  <1>2. Rooted(e) /\ \A i \in Incidents : Root(e, i) = Root(d, i)
    BY <1>1, RootsSame DEF Whole
  <1>3. Placed(e)
    BY DEF Mild, Fades, Alike, Whole, Placed
  <1>4. \A k \in Incidents : /\ Evident(e, k) => Evident(d, k)
                             /\ Quiescent(d, k) => Quiescent(e, k)
    BY RecoveryAssumptions DEF Mild, Fades, Alike, Evident, Quiescent
  <1> QED
    BY <1>2, <1>3, <1>4, WholeOn

\* Signals are resolved, or reported again: no incident is less clear than it was.
LEMMA ResolvedWhole ==
    ASSUME NEW d, NEW e, e.inc = d.inc, Whole(d),
           \A t \in Signals : /\ e.sig[t].owner = d.sig[t].owner
                              /\ e.sig[t].state \in {"resolved", "absent", d.sig[t].state}
    PROVE  Whole(e)
  <1>1. Rooted(e) /\ \A i \in Incidents : Root(e, i) = Root(d, i)
    BY RootsSame DEF Whole
  <1>2. Placed(e)
    BY DEF Whole, Placed
  <1>3. \A k \in Incidents : /\ Evident(e, k) => Evident(d, k)
                             /\ Quiescent(d, k) => Quiescent(e, k)
    BY DEF Evident, Quiescent
  <1> QED
    BY <1>1, <1>2, <1>3, WholeOn

\* A signal opens: its group loses the joint basis in the same transaction.
LEMMA OpenedWhole ==
    ASSUME NEW d, Sane(d), Whole(d), NEW s \in Signals
    PROVE  LET i == d.sig[s].owner
               e == ClearGroup(WithSignal(d, s, "active", None), i)
           IN  Leads(d, e) /\ Whole(e)
  <1> DEFINE i == d.sig[s].owner
             f == WithSignal(d, s, "active", None)
             e == ClearGroup(f, i)
  <1>1. /\ Signalled(d, f)
        /\ \A t \in Signals : f.sig[t].owner = d.sig[t].owner
        /\ \A t \in Signals : f.sig[t].state = IF t = s THEN "active" ELSE d.sig[t].state
    BY WithSignalOK
  <1>2. i \in Incidents
    BY Rows DEF SigRows
  <1> HIDE DEF f
  <1>3. Sane(f)
    BY <1>1 DEF Signalled, Leads
  <1>4. Mild(f, e) /\ \A k \in Group(f, i) : e.inc[k].basis = None
    BY <1>2, <1>3, ClearGroupMild
  <1> HIDE DEF e
  <1>5. Leads(d, e)
    BY <1>1, <1>4, LeadsOn DEF Signalled, Mild
  <1>6. /\ \A k \in Incidents : Alike(d.inc[k], e.inc[k])
        /\ \A t \in Signals : e.sig[t].owner = d.sig[t].owner
        /\ \A t \in Signals : e.sig[t].state = IF t = s THEN "active" ELSE d.sig[t].state
    BY <1>1, <1>4 DEF Signalled, Mild, Fades
  <1>7. /\ Rooted(e)
        /\ \A k \in Incidents : Root(e, k) = Root(d, k) /\ Root(f, k) = Root(d, k)
    BY <1>1, <1>6, RootsSame DEF Alike, Whole, Signalled
  <1>8. Placed(e)
    BY <1>6 DEF Alike, Placed, Whole
  <1>9. ASSUME NEW j \in Incidents, Evident(e, j)
        PROVE  Evident(d, j) /\ Root(d, j) # Root(d, i)
    <2>1. Evident(d, j) /\ e.inc[j].basis # None
      BY <1>6, <1>9, RecoveryAssumptions DEF Evident, Alike
    <2>2. j \notin Group(f, i)
      BY <1>4, <2>1
    <2> QED
      BY <1>2, <1>7, <2>1, <2>2 DEF Group
  <1>10. ASSUME NEW k \in Incidents, k # i, Quiescent(d, k) PROVE Quiescent(e, k)
    BY <1>6, <1>10 DEF Quiescent, Alike
  <1>11. Joint(e)
    BY <1>7, <1>9, <1>10 DEF Joint, Whole
  <1> QED
    BY <1>5, <1>7, <1>8, <1>11 DEF Whole, f, e

\* An incident leaves its cause: the invariant holds for both parts.
LEMMA CutWhole ==
    ASSUME NEW d, NEW e, Sane(d), Sane(e), Whole(d), e.sig = d.sig,
           \A k \in Incidents : /\ e.inc[k].cause \in {d.inc[k].cause, None}
                                /\ e.inc[k].merged \in {d.inc[k].merged, None}
                                /\ e.inc[k].status = d.inc[k].status
                                /\ e.inc[k].basis \in {d.inc[k].basis, None}
                                /\ e.inc[k].archived => d.inc[k].archived \/ d.inc[k].status \notin Active
    PROVE  Whole(e)
  <1>1. /\ Rooted(e)
        /\ \A i, k \in Incidents : Root(e, i) = Root(e, k) => Root(d, i) = Root(d, k)
    BY RootsCut DEF Whole
  <1>2. Placed(e)
    BY RecoveryAssumptions DEF Whole, Placed
  <1>3. \A k \in Incidents : /\ Evident(e, k) => Evident(d, k)
                             /\ Quiescent(d, k) => Quiescent(e, k)
    BY RecoveryAssumptions DEF Evident, Quiescent
  <1> QED
    BY <1>1, <1>2, <1>3, WholeOn

\* Two groups join after the joint bases of both fell.
LEMMA JoinedWhole ==
    ASSUME NEW d, NEW e, Sane(d), Sane(e), Whole(d), e.sig = d.sig,
           NEW c \in Incidents, NEW p \in Incidents,
           d.inc[c].cause = None, c \notin Causes(d, p),
           d.inc[c].merged = None, d.inc[p].merged = None,
           e.inc[c].cause = p,
           \A k \in Incidents \ {c} : e.inc[k].cause = d.inc[k].cause,
           \A k \in Incidents : /\ e.inc[k].merged = d.inc[k].merged
                                /\ e.inc[k].archived = d.inc[k].archived
                                /\ e.inc[k].status = d.inc[k].status
                                /\ e.inc[k].basis \in {d.inc[k].basis, None},
           \A k \in Group(d, c) \cup Group(d, p) : e.inc[k].basis = None
    PROVE  Whole(e)
  <1>1. /\ Rooted(e)
        /\ \A i \in Incidents :
             Root(e, i) = IF Root(d, i) = c THEN Root(d, p) ELSE Root(d, i)
    BY RootsJoined DEF Whole
  <1>2. Placed(e)
    <2>1. c # None /\ p # None
      BY RecoveryAssumptions
    <2> QED
      BY <2>1 DEF Whole, Placed
  <1>3. Root(d, c) = c
    BY RootIn
  <1>4. ASSUME NEW i \in Incidents, Evident(e, i)
        PROVE  Evident(d, i) /\ Root(d, i) # c /\ Root(d, i) # Root(d, p)
    <2>1. Evident(d, i) /\ e.inc[i].basis # None
      BY <1>4, RecoveryAssumptions DEF Evident
    <2>2. i \notin Group(d, c) /\ i \notin Group(d, p)
      BY <2>1
    <2> QED
      BY <1>3, <2>1, <2>2 DEF Group
  <1>5. \A k \in Incidents : Quiescent(d, k) => Quiescent(e, k)
    BY DEF Quiescent
  <1>6. Joint(e)
    BY <1>1, <1>4, <1>5 DEF Joint, Whole
  <1> QED
    BY <1>1, <1>2, <1>6 DEF Whole

-----------------------------------------------------------------------------
(* Transactions that move a status.                                        *)

LEMMA TransitionWhole ==
    ASSUME NEW d, Sane(d), NEW i \in Incidents, NEW to \in Statuses
    PROVE  Leads(d, Transition(d, i, to)) /\ (Whole(d) => Whole(Transition(d, i, to)))
  <1> DEFINE row   == d.inc[i]
             moved == [row EXCEPT !.status = to, !.ver = @ + 1,
                         !.since = IF to \in Active THEN @ ELSE row.ver + 1,
                         !.basis = CASE to \in Active -> None
                                     [] to = "resolved" -> "operator"
                                     [] OTHER -> @]
             d1 == [d EXCEPT !.inc[i] = moved]
             d2 == ClearGroup(d1, i)
             d3 == ClearRecovery(d2, i)
             d4 == [d3 EXCEPT !.inc[Root(d, i)] = Bumped(@)]
  <1>1. Transition(d, i, to)
          = IF ~CanMove(d, i, to) THEN d
            ELSE IF row.status \in Active \/ to # "open" THEN d1
            ELSE IF Root(d, i) = i THEN d2 ELSE d4
    BY DEF Transition
  <1>2. row \in IncRows /\ row.ver + 1 \in Nat
    BY Rows DEF IncRows
  <1>3. /\ moved \in IncRows /\ moved.status = to /\ moved.cause = row.cause
        /\ moved.merged = row.merged /\ moved.archived = row.archived
        /\ to \in Active => moved.basis = None
        /\ to = "resolved" => moved.basis = "operator"
        /\ moved.basis \in {None, "operator", row.basis}
    <2> DEFINE since == IF to \in Active THEN row.since ELSE row.ver + 1
               basis == CASE to \in Active -> None
                          [] to = "resolved" -> "operator"
                          [] OTHER -> row.basis
    <2>1. since \in Nat
      BY <1>2 DEF IncRows
    <2>2. /\ basis \in {None, "operator", row.basis} /\ (to \in Active => basis = None)
          /\ to = "resolved" => basis = "operator"
      BY DEF Active
    <2>3. basis \in {None, "operator", "verified_recovery", "provider_clear"}
      BY <1>2, <2>2 DEF IncRows
    <2>4. moved = [row EXCEPT !.status = to, !.ver = row.ver + 1, !.since = since, !.basis = basis]
      BY <1>2 DEF IncRows
    <2> HIDE DEF since, basis, row, moved
    <2> QED
      BY <1>2, <2>1, <2>2, <2>3, <2>4 DEF IncRows
  <1> HIDE DEF moved
  <1>4. /\ Leads(d, d1) /\ d1.sig = d.sig
        /\ d1.inc = [k \in Incidents |-> IF k = i THEN moved ELSE d.inc[k]]
    BY <1>3, IncRow
  <1> HIDE DEF d1
  <1>5. Sane(d1)
    BY <1>4 DEF Leads
  <1>6. Mild(d1, d2) /\ \A k \in Group(d1, i) : d2.inc[k].basis = None
    BY <1>5, ClearGroupMild
  <1> HIDE DEF d2
  <1>7. Sane(d2)
    BY <1>6, MildSane
  <1>8. Mild(d2, d3)
    BY <1>7, ClearRecoveryMild
  <1> HIDE DEF d3
  <1>9. Mild(d3, d4)
    <2>1. Sane(d3) /\ Root(d, i) \in Incidents
      BY <1>8, MildSane, RootIn
    <2>2. d3.inc[Root(d, i)] \in IncRows
      BY <2>1, Rows
    <2>3. Bumped(d3.inc[Root(d, i)]) \in IncRows /\ Alike(d3.inc[Root(d, i)], Bumped(d3.inc[Root(d, i)]))
      BY <2>2, RowOps
    <2>4. d3.inc \in [Incidents -> IncRows] /\ d4 = [d3 EXCEPT !.inc[Root(d, i)] = Bumped(d3.inc[Root(d, i)])]
      BY <2>1 DEF Sane, Tables
    <2> QED
      BY <2>1, <2>3, <2>4, IncMild
  <1> HIDE DEF d4
  <1>10. Mild(d2, d4) /\ Mild(d2, d2)
    BY <1>7, <1>8, <1>9, MildOn
  <1>11. Leads(d, d2) /\ Leads(d, d4) /\ Leads(d, d)
    BY <1>4, <1>6, <1>10, LeadsOn DEF Mild
  <1>12. ASSUME Whole(d), CanMove(d, i, to) PROVE /\ Rooted(d1) /\ Placed(d1)
                                                  /\ \A k \in Incidents : Root(d1, k) = Root(d, k)
    <2>1. \A k \in Incidents : d1.inc[k].cause = d.inc[k].cause
      BY <1>3, <1>4
    <2>2. Placed(d1)
      BY <1>3, <1>4, <1>12 DEF CanMove, Whole, Placed
    <2> QED
      BY <1>12, <2>1, <2>2, RootsSame DEF Whole
  <1>13. ASSUME Whole(d), CanMove(d, i, to), row.status \in Active \/ to # "open"
         PROVE  Whole(d1)
    <2>1. to \in Active => row.status \in Active
      <3>1. row.status \in Statuses /\ to \in AllowedTransitions[row.status]
        BY <1>2, <1>13 DEF CanMove, IncRows
      <3>2. to = "mitigated" => row.status = "open"
        BY <3>1 DEF AllowedTransitions, Statuses, Active, Closed
      <3> QED
        BY <1>13, <3>2 DEF Active
    <2>2. \A k \in Incidents : Evident(d1, k) => Evident(d, k) /\ k # i
      BY <1>3, <1>4 DEF Evident
    <2>3. \A k \in Incidents : Quiescent(d, k) => Quiescent(d1, k)
      BY <1>3, <1>4, <2>1 DEF Quiescent
    <2> QED
      BY <1>12, <1>13, <2>2, <2>3, WholeOn
  <1>14. ASSUME Whole(d), CanMove(d, i, to), NEW e, Mild(d2, e)
         PROVE  Whole(e)
    <2>1. Mild(d1, e)
      BY <1>6, <1>14, MildOn
    <2>2. \A k \in Incidents : Alike(d1.inc[k], e.inc[k])
      BY <2>1 DEF Mild, Fades
    <2>3. /\ Rooted(e)
          /\ \A k \in Incidents : Root(e, k) = Root(d, k)
      BY <1>12, <1>14, <2>2, RootsSame DEF Alike
    <2>4. Placed(e)
      BY <1>12, <1>14, <2>2 DEF Alike, Placed
    <2>5. ASSUME NEW j \in Incidents, Evident(e, j)
          PROVE  Evident(d, j) /\ Root(d, j) # Root(d, i)
      <3>1. j \notin Group(d1, i)
        <4>1. ASSUME j \in Group(d1, i) PROVE FALSE
          <5>1. d2.inc[j].basis = None
            BY <1>6, <4>1
          <5>2. e.inc[j].basis = None
            BY <1>14, <5>1 DEF Mild, Fades, Alike
          <5> QED
            BY <2>5, <5>2, RecoveryAssumptions DEF Evident
        <4> QED
          BY <4>1
      <3>2. Root(d, j) # Root(d, i) /\ j # i
        BY <1>12, <1>14, <3>1 DEF Group
      <3>3. e.inc[j].basis \in {d.inc[j].basis, None} /\ e.inc[j].status = d.inc[j].status
        BY <1>4, <2>2, <3>2 DEF Alike
      <3> QED
        BY <2>5, <3>2, <3>3, RecoveryAssumptions DEF Evident
    <2>6. ASSUME NEW k \in Incidents, k # i, Quiescent(d, k) PROVE Quiescent(e, k)
      <3>1. e.sig = d.sig /\ e.inc[k].status = d.inc[k].status
        BY <1>4, <2>1, <2>6 DEF Mild, Fades, Alike
      <3> QED
        BY <2>6, <3>1 DEF Quiescent
    <2>7. Joint(e)
      BY <1>14, <2>3, <2>5, <2>6 DEF Joint, Whole
    <2> QED
      BY <2>3, <2>4, <2>7 DEF Whole
  <1>15. Leads(d, Transition(d, i, to))
    BY <1>1, <1>4, <1>11
  <1>16. ASSUME Whole(d) PROVE Whole(Transition(d, i, to))
    BY <1>1, <1>10, <1>13, <1>14, <1>16
  <1> QED
    BY <1>15, <1>16

\* A group resolves together: every active member moves with the root.
LEMMA ResolveGroupWhole ==
    ASSUME NEW d, Sane(d), NEW root \in Incidents,
           NEW basis \in {"verified_recovery", "provider_clear"}
    PROVE  /\ Leads(d, ResolveGroup(d, root, basis))
           /\ Whole(d) /\ ~Uncleared(d, root) => Whole(ResolveGroup(d, root, basis))
  <1> DEFINE hit  == { k \in Group(d, root) : k = root \/ d.inc[k].status \in Active }
             won  == { k \in hit : CanMove(d, k, "resolved") }
             r(k) == [Bumped(d.inc[k]) EXCEPT !.status = "resolved", !.basis = basis,
                        !.rec = IF basis = "provider_clear" THEN None ELSE @]
             f    == [k \in Incidents |-> IF k \notin won THEN d.inc[k] ELSE r(k)]
             e    == [d EXCEPT !.inc = f]
  <1>1. ResolveGroup(d, root, basis) = IF ~CanMove(d, root, "resolved") THEN d ELSE e
    BY DEF ResolveGroup
  <1>2. ASSUME NEW k \in Incidents
        PROVE  /\ r(k) \in IncRows /\ r(k).status = "resolved" /\ r(k).basis = basis
               /\ r(k).cause = d.inc[k].cause /\ r(k).merged = d.inc[k].merged
               /\ r(k).archived = d.inc[k].archived
    <2> DEFINE b == Bumped(d.inc[k])
    <2>1. b \in IncRows /\ Alike(d.inc[k], b)
      BY Rows, RowOps
    <2>2. r(k) = [b EXCEPT !.status = "resolved", !.basis = basis,
                     !.rec = IF basis = "provider_clear" THEN None ELSE @]
      BY DEF b
    <2> DEFINE rec == IF basis = "provider_clear" THEN None ELSE b.rec
               q   == [b EXCEPT !.status = "resolved", !.basis = basis, !.rec = rec]
    <2>3. rec \in {None, "verifying", "monitoring", "verified", "not_verified"}
      BY <2>1 DEF IncRows
    <2>4. r(k) = q
      BY <2>2
    <2> HIDE DEF b, r, rec
    <2>5. q \in IncRows
      BY <2>1, <2>3 DEF IncRows, Statuses, Closed
    <2>6. /\ q.status = "resolved" /\ q.basis = basis /\ q.cause = b.cause
          /\ q.merged = b.merged /\ q.archived = b.archived
      BY <2>1 DEF IncRows
    <2> QED
      BY <2>1, <2>4, <2>5, <2>6 DEF Alike
  <1>3. \A k \in Incidents : d.inc[k] \in IncRows
    BY Rows
  <1> HIDE DEF r
  <1>4. f \in [Incidents -> IncRows]
    BY <1>2, <1>3
  <1>5. \A k \in Incidents : f[k] = IF k \notin won THEN d.inc[k] ELSE r(k)
    OBVIOUS
  <1> HIDE DEF f
  <1>6. Leads(d, e) /\ e.inc = f /\ e.sig = d.sig
    BY <1>4, IncSet
  <1> HIDE DEF e
  <1>7. Leads(d, ResolveGroup(d, root, basis))
    BY <1>1, <1>6, LeadsOn
  <1>8. ASSUME Whole(d), ~Uncleared(d, root), CanMove(d, root, "resolved") PROVE Whole(e)
    <2>1. /\ Rooted(e)
          /\ \A k \in Incidents : Root(e, k) = Root(d, k)
      <3>1. \A k \in Incidents : e.inc[k].cause = d.inc[k].cause
        BY <1>2, <1>5, <1>6
      <3> QED
        BY <1>8, <3>1, RootsSame DEF Whole
    <2>2. Placed(e)
      BY <1>2, <1>5, <1>6, <1>8 DEF Placed, Whole, Active
    <2>3. ASSUME NEW k \in Incidents, Root(d, k) = Root(d, root) PROVE Quiescent(e, k)
      <3>1. k \in Group(d, root)
        BY <2>3 DEF Group
      <3>2. d.inc[k].status \in Active => k \in won
        BY <1>8, <3>1 DEF CanMove, AllowedTransitions, Active, Whole, Placed
      <3>3. e.inc[k].status \notin Active
        BY <1>2, <1>5, <1>6, <3>2 DEF Active
      <3>4. \A s \in Signals : d.sig[s].state # "absent" /\ d.sig[s].owner = k
                                 => d.sig[s].state = "resolved"
        BY <1>8, <3>1 DEF Uncleared, GroupSignals
      <3> QED
        BY <1>6, <3>3, <3>4 DEF Quiescent
    <2>4. ASSUME NEW k \in Incidents, Root(d, k) # Root(d, root) PROVE e.inc[k] = d.inc[k]
      BY <1>5, <1>6, <2>4 DEF Group
    <2>5. \A k \in Incidents : Root(d, k) # Root(d, root) /\ Quiescent(d, k) => Quiescent(e, k)
      BY <1>6, <2>4 DEF Quiescent
    <2>6. \A k \in Incidents : Root(d, k) # Root(d, root) /\ Evident(e, k) => Evident(d, k)
      BY <2>4 DEF Evident
    <2>7. Joint(e)
      BY <1>8, <2>1, <2>3, <2>5, <2>6 DEF Joint, Whole
    <2> QED
      BY <2>1, <2>2, <2>7 DEF Whole
  <1> QED
    BY <1>1, <1>7, <1>8

LEMMA ProviderClearWhole ==
    ASSUME NEW d, Sane(d), NEW i \in Incidents
    PROVE  Leads(d, ProviderClear(d, i)) /\ (Whole(d) => Whole(ProviderClear(d, i)))
  <1> DEFINE r == [d.inc[i] EXCEPT !.rec = "not_verified", !.basis = None]
             e == [d EXCEPT !.inc[i] = r]
  <1>1. d.inc[i] \in IncRows /\ d.inc \in [Incidents -> IncRows] /\ d \in Tables
    BY Rows DEF Sane, Tables
  <1>2. r \in IncRows /\ Alike(d.inc[i], r)
    BY <1>1 DEF IncRows, Alike
  <1>3. [d EXCEPT !.inc[i].rec = "not_verified", !.inc[i].basis = None] = e
    BY <1>1 DEF Tables, IncRows
  <1> HIDE DEF r
  <1>4. Mild(d, e)
    BY <1>2, IncMild
  <1>5. Leads(d, e) /\ (Whole(d) => Whole(e))
    BY <1>4, MildWhole DEF Mild
  <1> HIDE DEF e
  <1>6. ProviderClear(d, i)
          = IF Moot(d, i) \/ ~ProviderHandles(d, i) \/ Uncleared(d, i) THEN d
            ELSE IF PendingApproval(d, i) \/ ~Proven(d, i) THEN e
            ELSE ResolveGroup(d, i, "provider_clear")
    BY <1>3 DEF ProviderClear
  <1>7. /\ Leads(d, ResolveGroup(d, i, "provider_clear"))
        /\ Whole(d) /\ ~Uncleared(d, i) => Whole(ResolveGroup(d, i, "provider_clear"))
    BY ResolveGroupWhole
  <1> QED
    BY <1>5, <1>6, <1>7, LeadsOn

LEMMA AllResolvedClears ==
    ASSUME NEW d, NEW i, AllResolved(d, i)
    PROVE  ~Uncleared(d, i)
  BY DEF AllResolved, Uncleared

LEMMA AfterApprovalWhole ==
    ASSUME NEW d, Sane(d), NEW i \in Incidents
    PROVE  Leads(d, AfterApproval(d, i)) /\ (Whole(d) => Whole(AfterApproval(d, i)))
  <1> DEFINE root == Root(d, i)
  <1>1. root \in Incidents
    BY RootIn
  <1>2. AfterApproval(d, i)
          = IF ProviderHandles(d, root) THEN ProviderClear(d, root)
            ELSE IF d.inc[root].rec = "verified" /\ ~PendingApproval(d, root) /\ AllResolved(d, root)
            THEN ResolveGroup(d, root, "verified_recovery") ELSE d
    BY DEF AfterApproval
  <1> HIDE DEF root
  <1>3. Leads(d, ProviderClear(d, root)) /\ (Whole(d) => Whole(ProviderClear(d, root)))
    BY <1>1, ProviderClearWhole
  <1>4. /\ Leads(d, ResolveGroup(d, root, "verified_recovery"))
        /\ Whole(d) /\ ~Uncleared(d, root) => Whole(ResolveGroup(d, root, "verified_recovery"))
    BY <1>1, ResolveGroupWhole
  <1> QED
    BY <1>2, <1>3, <1>4, AllResolvedClears, LeadsOn

-----------------------------------------------------------------------------
(* The outside world, one lemma per action.                                *)

\* No incident has two open runs.
OneRun(d) ==
    \A j, k \in Jobs : d.job[j].open /\ d.job[k].open /\ d.job[j].inc = d.job[k].inc => j = k

\* The part of the invariant that is about the tables.
Solid(d) == Sane(d) /\ Whole(d) /\ OneRun(d)

\* A step of the tables that opens no run and keeps the groups whole.
Steady(d, e) == Leads(d, e) /\ Whole(e)

LEMMA SteadySolid ==
    ASSUME NEW d, NEW e, Solid(d), Steady(d, e)
    PROVE  Solid(e)
  BY DEF Solid, Steady, Leads, Tame, OneRun

LEMMA MildSteady ==
    ASSUME NEW d, NEW e, NEW f, Solid(d), Steady(d, e), Mild(e, f)
    PROVE  Steady(d, f)
  BY MildWhole, LeadsOn DEF Steady, Mild

LEMMA SteadyOn ==
    ASSUME NEW d, NEW e, NEW f, Steady(d, e), Leads(e, f), Whole(e) => Whole(f)
    PROVE  Steady(d, f)
  BY LeadsOn DEF Steady

LEMMA SteadySelf == \A d : Solid(d) => Steady(d, d)
  BY LeadsOn DEF Steady, Solid

LEMMA MildIsSteady == \A d, e : Solid(d) /\ Mild(d, e) => Steady(d, e)
  BY SteadySelf, MildSteady

LEMMA SteadySane == \A d, e : Steady(d, e) => Sane(e) /\ Whole(e)
  BY DEF Steady, Leads

LEMMA SpendOK ==
    ASSUME budget \in [Kinds -> Nat], NEW kind \in Kinds, Spend(kind)
    PROVE  budget' \in [Kinds -> Nat]
  <1>1. budget[kind] - 1 \in Nat
    BY DEF Spend
  <1> QED
    BY <1>1 DEF Spend

\* What every action of the outside world does.
Worldly == Steady(db, db') /\ UNCHANGED <<worker, lock>> /\ budget' \in [Kinds -> Nat]

LEMMA OutsideWorldly ==
    ASSUME Solid(db), budget \in [Kinds -> Nat], NEW kind \in Kinds, NEW d,
           Outside(kind, d), Steady(db, d)
    PROVE  Worldly
  BY SpendOK DEF Worldly, Outside

LEMMA ResolvedSteady ==
    ASSUME NEW d, NEW e, Solid(d), Signalled(d, e),
           \A t \in Signals : /\ e.sig[t].owner = d.sig[t].owner
                              /\ e.sig[t].state \in {"resolved", "absent", d.sig[t].state}
    PROVE  Steady(d, e)
  BY ResolvedWhole DEF Solid, Signalled, Steady

LEMMA SignalOpensWorldly ==
    ASSUME Solid(db), budget \in [Kinds -> Nat], NEW s \in Signals,
           SignalOpens(s) \/ ReportedRefires(s)
    PROVE  Worldly
  <1> DEFINE e == ClearGroup(WithSignal(db, s, "active", None), db.sig[s].owner)
  <1>1. Steady(db, e)
    BY OpenedWhole DEF Solid, Steady
  <1>2. CASE SignalOpens(s)
    <2>1. Outside("open", e)
      BY <1>2 DEF SignalOpens
    <2> QED
      BY <1>1, <2>1, OutsideWorldly DEF Kinds
  <1>3. CASE ReportedRefires(s)
    <2>1. Outside("refire", e)
      BY <1>3 DEF ReportedRefires
    <2> QED
      BY <1>1, <2>1, OutsideWorldly DEF Kinds
  <1> QED
    BY <1>2, <1>3

LEMMA SignalClearsWorldly ==
    ASSUME Solid(db), budget \in [Kinds -> Nat], NEW s \in Signals,
           SignalClears(s) \/ CorrectSignal(s)
    PROVE  Worldly
  <1> DEFINE i == db.sig[s].owner
  <1>1. i \in Incidents
    BY Rows DEF Solid, SigRows
  <1>2. ASSUME NEW prov \in {"provider", "operator"}
        PROVE  LET d == WithSignal(db, s, "resolved", prov)
               IN  Steady(db, d) /\ Steady(db, StartRecovery(d, i))
    <2> DEFINE d == WithSignal(db, s, "resolved", prov)
    <2>1. /\ Signalled(db, d)
          /\ \A t \in Signals : d.sig[t].owner = db.sig[t].owner
          /\ \A t \in Signals : d.sig[t].state = IF t = s THEN "resolved" ELSE db.sig[t].state
      BY WithSignalOK DEF Solid
    <2> HIDE DEF d, i
    <2>2. Steady(db, d)
      BY <2>1, ResolvedSteady
    <2>3. Mild(d, StartRecovery(d, i))
      BY <1>1, <2>2, StartMild, SteadySane
    <2>4. Steady(db, StartRecovery(d, i))
      BY <2>2, <2>3, MildSteady
    <2> QED
      BY <2>2, <2>4 DEF d
  <1>3. CASE SignalClears(s)
    <2> DEFINE d == WithSignal(db, s, "resolved", "provider")
               e == IF \A o \in OwnSignals(d, i) : d.sig[o].state = "resolved"
                    THEN StartRecovery(d, i) ELSE d
    <2>1. Outside("clear", e)
      BY <1>3 DEF SignalClears
    <2>2. Steady(db, d) /\ Steady(db, StartRecovery(d, i))
      BY <1>2
    <2> HIDE DEF d
    <2>3. Steady(db, e)
      BY <2>2
    <2> HIDE DEF e
    <2> QED
      BY <2>1, <2>3, OutsideWorldly DEF Kinds
  <1>4. CASE CorrectSignal(s)
    <2> DEFINE e == StartRecovery(WithSignal(db, s, "resolved", "operator"), i)
    <2>1. Outside("clear", e)
      BY <1>4 DEF CorrectSignal
    <2>2. Steady(db, e)
      BY <1>2
    <2> HIDE DEF e
    <2> QED
      BY <2>1, <2>2, OutsideWorldly DEF Kinds
  <1> QED
    BY <1>3, <1>4

LEMMA ConnectorChangesWorldly ==
    ASSUME Solid(db), budget \in [Kinds -> Nat], ConnectorChanges
    PROVE  Worldly
  <1> DEFINE f == [s \in Signals |-> IF db.sig[s].prov = "provider"
                                     THEN [db.sig[s] EXCEPT !.prov = "outdated"] ELSE db.sig[s]]
             e == [db EXCEPT !.sig = f]
  <1>1. \A s \in Signals : db.sig[s] \in SigRows
    BY Rows DEF Solid
  <1>2. f \in [Signals -> SigRows]
    BY <1>1 DEF SigRows
  <1>3. \A s \in Signals : f[s].owner = db.sig[s].owner /\ f[s].state = db.sig[s].state
    BY <1>1 DEF SigRows
  <1>4. Outside("certify", e)
    BY DEF ConnectorChanges
  <1> HIDE DEF f
  <1>5. Leads(db, e) /\ e.sig = f /\ e.inc = db.inc /\ e.job = db.job /\ e.app = db.app
    BY <1>2, SigSet DEF Solid
  <1> HIDE DEF e
  <1>6. Steady(db, e)
    BY <1>3, <1>5, ResolvedSteady DEF Signalled
  <1> QED
    BY <1>4, <1>6, OutsideWorldly DEF Kinds

LEMMA ReportRecoveryWorldly ==
    ASSUME Solid(db), budget \in [Kinds -> Nat], NEW i \in Incidents, NEW asked \in BOOLEAN,
           ReportRecovery(i, asked)
    PROVE  Worldly
  <1> DEFINE d == Report(db, i)
             root == Root(d, i)
             restart == asked /\ Recoverable(d, i) /\ Refused(d.inc[root])
             c == IF restart THEN ClearRecovery(d, root) ELSE d
             e == StartRecovery(c, i)
  <1>1. Outside("ask", e)
    BY DEF ReportRecovery
  <1>2. /\ Signalled(db, d)
        /\ \A t \in Signals : /\ d.sig[t].owner = db.sig[t].owner
                              /\ d.sig[t].state \in {"resolved", db.sig[t].state}
    BY ReportOK DEF Solid
  <1> HIDE DEF d
  <1>3. Steady(db, d)
    BY <1>2, ResolvedSteady
  <1>4. root \in Incidents /\ Sane(d)
    BY <1>3, RootIn, SteadySane
  <1> HIDE DEF root, restart
  <1>5. Mild(d, c)
    BY <1>4, ClearRecoveryMild, MildOn
  <1> HIDE DEF c
  <1>6. Mild(c, e)
    BY <1>5, MildSane, StartMild
  <1> HIDE DEF e
  <1>7. Steady(db, e)
    BY <1>3, <1>5, <1>6, MildOn, MildSteady
  <1> QED
    BY <1>1, <1>7, OutsideWorldly DEF Kinds

LEMMA SupersedeRunsWorldly ==
    ASSUME Solid(db), budget \in [Kinds -> Nat], NEW i \in Incidents, SupersedeRuns(i)
    PROVE  Worldly
  <1> DEFINE f == [j \in Jobs |-> IF db.job[j].inc = i THEN [db.job[j] EXCEPT !.open = FALSE]
                                  ELSE db.job[j]]
             e == [db EXCEPT !.job = f]
  <1>1. \A j \in Jobs : db.job[j] \in JobRows
    BY Rows DEF Solid
  <1>2. f \in [Jobs -> JobRows]
    <2>1. ASSUME NEW j \in Jobs PROVE f[j] \in JobRows
      <3> DEFINE row == db.job[j]
      <3>1. row \in JobRows
        BY <1>1
      <3>2. [row EXCEPT !.open = FALSE] \in JobRows
        <4> HIDE DEF row
        <4> QED
          BY <3>1, ZenonT(40) DEF JobRows
      <3> QED
        BY <3>1, <3>2
    <2> QED
      BY <2>1
  <1>3. \A j \in Jobs : /\ f[j].st # "absent" => f[j].inc \in Incidents
                        /\ f[j].open => db.job[j].open /\ f[j].inc = db.job[j].inc
                        /\ db.job[j].st # "absent" => f[j].st # "absent"
    BY <1>1 DEF JobRows, Sane, Solid
  <1>4. Outside("ask", e)
    BY DEF SupersedeRuns
  <1> HIDE DEF f
  <1>5. Mild(db, e)
    BY <1>2, <1>3, JobsMild DEF Solid
  <1> HIDE DEF e
  <1> QED
    BY <1>4, <1>5, MildIsSteady, OutsideWorldly DEF Kinds

LEMMA OperateWorldly ==
    ASSUME Solid(db), budget \in [Kinds -> Nat], NEW i \in Incidents, NEW to \in Statuses,
           Operate(i, to)
    PROVE  Worldly
  <1> DEFINE e == Transition(db, i, to)
  <1>1. Steady(db, e)
    BY TransitionWhole DEF Solid, Steady
  <1>2. Outside("move", e)
    BY DEF Operate
  <1> HIDE DEF e
  <1> QED
    BY <1>1, <1>2, OutsideWorldly DEF Kinds

LEMMA ChangePolicyWorldly ==
    ASSUME Solid(db), budget \in [Kinds -> Nat], NEW i \in Incidents,
           NEW policy \in {"verified_recovery", "provider_clear"}, ChangePolicy(i, policy)
    PROVE  Worldly
  <1> DEFINE root == Root(db, i)
             own  == ClearRecovery(db, i)
             both == IF root = i THEN own ELSE ClearRecovery(own, root)
             r1   == [Bumped(both.inc[i]) EXCEPT !.policy = policy, !.basis = None]
             d1   == [both EXCEPT !.inc[i] = r1]
             r2   == [Bumped(d1.inc[root]) EXCEPT !.basis = None]
             d2   == IF root = i THEN d1 ELSE [d1 EXCEPT !.inc[root] = r2]
             e    == StartRecovery(d2, i)
  <1>1. root \in Incidents
    BY RootIn
  <1>2. Mild(db, own)
    BY ClearRecoveryMild DEF Solid
  <1>3. Mild(db, both)
    BY <1>1, <1>2, ClearRecoveryMild, MildOn, MildSane
  <1>4. Sane(both)
    BY <1>3, MildSane
  <1> HIDE DEF both
  <1>5. r1 \in IncRows /\ Alike(both.inc[i], r1)
    <2> DEFINE b == Bumped(both.inc[i])
    <2>1. b \in IncRows /\ Alike(both.inc[i], b)
      BY <1>4, Rows, RowOps
    <2>2. r1 = [b EXCEPT !.policy = policy, !.basis = None]
      OBVIOUS
    <2> HIDE DEF b, r1
    <2>3. r1 \in IncRows /\ Alike(b, r1)
      BY <2>1, <2>2 DEF IncRows, Alike
    <2> QED
      BY <2>1, <2>3 DEF Alike
  <1>6. Mild(both, d1)
    BY <1>4, <1>5, IncMild
  <1>7. Sane(d1)
    BY <1>6, MildSane
  <1>8. d1 = [both EXCEPT !.inc[i] = [Bumped(@) EXCEPT !.policy = policy, !.basis = None]]
    BY <1>4 DEF Sane, Tables
  <1> HIDE DEF d1
  <1>9. r2 \in IncRows /\ Alike(d1.inc[root], r2)
    <2> DEFINE b == Bumped(d1.inc[root])
    <2>1. b \in IncRows /\ Alike(d1.inc[root], b)
      BY <1>1, <1>7, Rows, RowOps
    <2>2. r2 = [b EXCEPT !.basis = None]
      OBVIOUS
    <2> HIDE DEF b, r2
    <2>3. r2 \in IncRows /\ Alike(b, r2)
      BY <2>1, <2>2 DEF IncRows, Alike
    <2> QED
      BY <2>1, <2>3 DEF Alike
  <1>10. Mild(d1, [d1 EXCEPT !.inc[root] = r2]) /\ Mild(d1, d1)
    BY <1>1, <1>7, <1>9, IncMild, MildOn
  <1>11. [d1 EXCEPT !.inc[root] = r2] = [d1 EXCEPT !.inc[root] = [Bumped(@) EXCEPT !.basis = None]]
    BY <1>1, <1>7 DEF Sane, Tables
  <1>12. Mild(d1, d2)
    BY <1>10
  <1>13. Outside("move", e)
    BY <1>8, <1>11 DEF ChangePolicy, both
  <1> HIDE DEF d2
  <1>14. Mild(d2, e)
    BY <1>12, MildSane, StartMild
  <1>15. Mild(db, e)
    BY <1>3, <1>6, <1>12, <1>14, MildOn
  <1> HIDE DEF e
  <1> QED
    BY <1>13, <1>15, MildIsSteady, OutsideWorldly DEF Kinds

LEMMA ArchiveWorldly ==
    ASSUME Solid(db), budget \in [Kinds -> Nat], NEW i \in Incidents, NEW allow \in BOOLEAN,
           Archive(i, allow)
    PROVE  Worldly
  <1> DEFINE g(k) == [db.inc[k] EXCEPT !.archived = TRUE, !.cause = None, !.merged = None]
             h(k) == [db.inc[k] EXCEPT !.cause = IF @ = i THEN None ELSE @,
                                       !.merged = IF @ = i THEN None ELSE @]
             f == [k \in Incidents |->
                     IF k = i THEN g(k)
                     ELSE IF db.inc[k].cause = i \/ db.inc[k].merged = i THEN h(k)
                     ELSE db.inc[k]]
             e == [db EXCEPT !.inc = f]
  <1>1. \A k \in Incidents : db.inc[k] \in IncRows
    BY Rows DEF Solid
  <1>2. ASSUME NEW k \in Incidents
        PROVE  /\ g(k) \in IncRows /\ g(k).archived /\ g(k).cause = None /\ g(k).merged = None
               /\ g(k).status = db.inc[k].status /\ g(k).basis = db.inc[k].basis
    BY <1>1 DEF IncRows
  <1>3. ASSUME NEW k \in Incidents
        PROVE  /\ h(k) \in IncRows /\ h(k).archived = db.inc[k].archived
               /\ h(k).cause \in {db.inc[k].cause, None}
               /\ h(k).merged \in {db.inc[k].merged, None}
               /\ h(k).status = db.inc[k].status /\ h(k).basis = db.inc[k].basis
    <2> DEFINE cause  == IF db.inc[k].cause = i THEN None ELSE db.inc[k].cause
               merged == IF db.inc[k].merged = i THEN None ELSE db.inc[k].merged
    <2>1. cause \in Incidents \cup {None} /\ merged \in Incidents \cup {None}
      BY <1>1 DEF IncRows
    <2>2. cause \in {db.inc[k].cause, None} /\ merged \in {db.inc[k].merged, None}
      OBVIOUS
    <2>3. h(k) = [db.inc[k] EXCEPT !.cause = cause, !.merged = merged]
      BY <1>1 DEF IncRows
    <2> HIDE DEF cause, merged, h
    <2> QED
      BY <1>1, <2>1, <2>2, <2>3 DEF IncRows
  <1> HIDE DEF g, h
  <1>4. f \in [Incidents -> IncRows]
    BY <1>1, <1>2, <1>3
  <1>5. \A k \in Incidents : /\ f[k].cause \in {db.inc[k].cause, None}
                             /\ f[k].merged \in {db.inc[k].merged, None}
                             /\ f[k].status = db.inc[k].status
                             /\ f[k].basis = db.inc[k].basis
                             /\ f[k].archived => db.inc[k].archived \/ k = i
    BY <1>2, <1>3
  <1>6. Outside("move", e) /\ db.inc[i].status \notin Active
    BY DEF Archive, g, h, Active, Closed
  <1> HIDE DEF f
  <1>7. Leads(db, e) /\ e.inc = f /\ e.sig = db.sig
    BY <1>4, IncSet DEF Solid
  <1> HIDE DEF e
  <1>8. Whole(e)
    BY <1>5, <1>6, <1>7, CutWhole DEF Solid, Leads
  <1> QED
    BY <1>6, <1>7, <1>8, OutsideWorldly DEF Kinds, Steady

\* Two groups are joined by a cause, or one parted from its cause.
LEMMA RelinkedRow ==
    ASSUME NEW d, Sane(d), NEW c \in Incidents, NEW p \in Incidents \cup {None}
    PROVE  LET e == [d EXCEPT !.inc[c].cause = p]
           IN  /\ Leads(d, e) /\ e.sig = d.sig /\ e.inc[c].cause = p
               /\ \A k \in Incidents \ {c} : e.inc[k].cause = d.inc[k].cause
               /\ \A k \in Incidents : /\ e.inc[k].merged = d.inc[k].merged
                                       /\ e.inc[k].archived = d.inc[k].archived
                                       /\ e.inc[k].status = d.inc[k].status
                                       /\ e.inc[k].basis = d.inc[k].basis
  <1> DEFINE r == [d.inc[c] EXCEPT !.cause = p]
             e == [d EXCEPT !.inc[c] = r]
  <1>1. d.inc[c] \in IncRows
    BY Rows
  <1>2. /\ r \in IncRows /\ r.cause = p /\ r.merged = d.inc[c].merged
        /\ r.archived = d.inc[c].archived /\ r.status = d.inc[c].status
        /\ r.basis = d.inc[c].basis
    BY <1>1 DEF IncRows
  <1>3. [d EXCEPT !.inc[c].cause = p] = e
    BY <1>1 DEF Sane, Tables, IncRows
  <1> HIDE DEF r
  <1>4. /\ Leads(d, e) /\ e.sig = d.sig
        /\ e.inc = [k \in Incidents |-> IF k = c THEN r ELSE d.inc[k]]
    BY <1>2, IncRow
  <1> HIDE DEF e
  <1> QED
    BY <1>2, <1>3, <1>4

LEMMA LinkCauseWorldly ==
    ASSUME Solid(db), budget \in [Kinds -> Nat], NEW c \in Incidents, NEW p \in Incidents,
           LinkCause(c, p)
    PROVE  Worldly
  <1> DEFINE m      == Group(db, c) \cup Group(db, p)
             fenced == Refence(db, m)
             linked == [fenced EXCEPT !.inc[c].cause = p]
             root   == Root(linked, c)
             c1 == ClearRecovery(linked, Root(db, c))
             c2 == ClearRecovery(c1, Root(db, p))
             d1 == ClearRecovery(c2, root)
             d2 == IF d1.inc[root].status \in Closed THEN Transition(d1, root, "open") ELSE d1
             e  == StartRecovery(d2, c)
  <1>1. /\ Outside("link", e) /\ db.inc[c].cause = None /\ c \notin Causes(db, p)
        /\ db.inc[c].merged = None /\ db.inc[p].merged = None
    BY DEF LinkCause
  <1>2. m \subseteq Incidents
    BY GroupIn
  <1>3. Mild(db, fenced) /\ \A k \in m : fenced.inc[k].basis = None
    BY <1>2, RefenceMild DEF Solid
  <1> HIDE DEF fenced
  <1>4. /\ Leads(fenced, linked) /\ linked.sig = fenced.sig /\ linked.inc[c].cause = p
        /\ \A k \in Incidents \ {c} : linked.inc[k].cause = fenced.inc[k].cause
        /\ \A k \in Incidents : /\ linked.inc[k].merged = fenced.inc[k].merged
                                /\ linked.inc[k].archived = fenced.inc[k].archived
                                /\ linked.inc[k].status = fenced.inc[k].status
                                /\ linked.inc[k].basis = fenced.inc[k].basis
    BY <1>3, MildSane, RelinkedRow
  <1> HIDE DEF linked
  <1>5. /\ Sane(db) /\ Sane(linked) /\ Whole(db) /\ linked.sig = db.sig
        /\ \A k \in Incidents \ {c} : linked.inc[k].cause = db.inc[k].cause
        /\ \A k \in Incidents : /\ linked.inc[k].merged = db.inc[k].merged
                                /\ linked.inc[k].archived = db.inc[k].archived
                                /\ linked.inc[k].status = db.inc[k].status
                                /\ linked.inc[k].basis \in {db.inc[k].basis, None}
    BY <1>3, <1>4 DEF Mild, Fades, Alike, Leads, Solid
  <1>6. \A k \in Group(db, c) \cup Group(db, p) : linked.inc[k].basis = None
    BY <1>2, <1>3, <1>4
  <1> HIDE DEF m
  <1>7. Whole(linked)
    BY <1>1, <1>4, <1>5, <1>6, JoinedWhole
  <1>8. Steady(db, linked)
    BY <1>3, <1>4, <1>7, LeadsOn DEF Steady, Mild
  <1>9. root \in Incidents /\ Root(db, c) \in Incidents /\ Root(db, p) \in Incidents
    BY RootIn
  <1> HIDE DEF root
  <1>10. Mild(linked, c1)
    BY <1>5, <1>9, ClearRecoveryMild
  <1> HIDE DEF c1
  <1>11. Mild(c1, c2)
    BY <1>9, <1>10, MildSane, ClearRecoveryMild
  <1> HIDE DEF c2
  <1>12. Mild(c2, d1)
    BY <1>9, <1>11, MildSane, ClearRecoveryMild
  <1> HIDE DEF d1
  <1>13. Steady(db, d1)
    BY <1>8, <1>10, <1>11, <1>12, MildOn, MildSteady
  <1>14. Leads(d1, Transition(d1, root, "open")) /\ (Whole(d1) => Whole(Transition(d1, root, "open")))
    BY <1>9, <1>13, SteadySane, TransitionWhole DEF Statuses, Active
  <1>15. Steady(db, d2)
    BY <1>13, <1>14, SteadyOn
  <1> HIDE DEF d2
  <1>16. Mild(d2, e)
    BY <1>15, SteadySane, StartMild
  <1> HIDE DEF e
  <1>17. Steady(db, e)
    BY <1>15, <1>16, MildSteady
  <1> QED
    BY <1>1, <1>17, OutsideWorldly DEF Kinds

LEMMA UnlinkWorldly ==
    ASSUME Solid(db), budget \in [Kinds -> Nat], NEW c \in Incidents, Unlink(c)
    PROVE  Worldly
  <1> DEFINE m      == Group(db, c)
             fenced == Refence(db, m)
             parted == [fenced EXCEPT !.inc[c].cause = None]
             d1 == StartRecovery(parted, c)
             e  == StartRecovery(d1, db.inc[c].cause)
  <1>1. Outside("move", e) /\ db.inc[c].cause # None
    BY DEF Unlink
  <1>2. db.inc[c].cause \in Incidents
    BY <1>1, Rows DEF Solid, IncRows
  <1>3. m \subseteq Incidents
    BY GroupIn
  <1>4. Mild(db, fenced)
    BY <1>3, RefenceMild DEF Solid
  <1> HIDE DEF fenced
  <1>5. /\ Leads(fenced, parted) /\ parted.sig = fenced.sig /\ parted.inc[c].cause = None
        /\ \A k \in Incidents \ {c} : parted.inc[k].cause = fenced.inc[k].cause
        /\ \A k \in Incidents : /\ parted.inc[k].merged = fenced.inc[k].merged
                                /\ parted.inc[k].archived = fenced.inc[k].archived
                                /\ parted.inc[k].status = fenced.inc[k].status
                                /\ parted.inc[k].basis = fenced.inc[k].basis
    <2>1. Sane(fenced) /\ None \in Incidents \cup {None}
      BY <1>4, MildSane
    <2> QED
      BY <2>1, RelinkedRow
  <1> HIDE DEF parted
  <1>6. /\ Sane(db) /\ Sane(parted) /\ Whole(db) /\ parted.sig = db.sig
        /\ \A k \in Incidents : /\ parted.inc[k].cause \in {db.inc[k].cause, None}
                                /\ parted.inc[k].merged \in {db.inc[k].merged, None}
                                /\ parted.inc[k].status = db.inc[k].status
                                /\ parted.inc[k].basis \in {db.inc[k].basis, None}
                                /\ parted.inc[k].archived => db.inc[k].archived
    BY <1>4, <1>5 DEF Mild, Fades, Alike, Leads, Solid
  <1>7. Whole(parted)
    BY <1>6, CutWhole
  <1>8. Steady(db, parted)
    BY <1>4, <1>5, <1>7, LeadsOn DEF Steady, Mild
  <1>9. Mild(parted, d1)
    BY <1>6, StartMild
  <1> HIDE DEF d1
  <1>10. Mild(d1, e)
    BY <1>2, <1>9, MildSane, StartMild
  <1> HIDE DEF e
  <1>11. Steady(db, e)
    BY <1>8, <1>9, <1>10, MildOn, MildSteady
  <1> QED
    BY <1>1, <1>11, OutsideWorldly DEF Kinds

\* An incident nobody names as its cause, and that has none, is a group of its own.
LEMMA Alone ==
    ASSUME NEW d, Sane(d), Rooted(d), NEW i \in Incidents, d.inc[i].cause = None,
           \A m \in Incidents : d.inc[m].cause # i, NEW k \in Incidents, Root(d, k) = Root(d, i)
    PROVE  k = i
  <1>1. Root(d, k) = i
    BY RootIn
  <1>2. i \in Causes(d, k)
    BY <1>1, RootShared DEF Tops
  <1>3. ASSUME k # i PROVE FALSE
    <2>1. Shut(d, Incidents \ {i})
      BY Rows DEF Shut, IncRows
    <2>2. Causes(d, k) \subseteq Incidents \ {i}
      BY <1>3, <2>1, CausesLeast
    <2> QED
      BY <1>2, <2>2
  <1> QED
    BY <1>3

LEMMA MergeWorldly ==
    ASSUME Solid(db), budget \in [Kinds -> Nat], NEW source \in Incidents,
           NEW target \in Incidents, Merge(source, target)
    PROVE  Worldly
  <1> DEFINE f == [s \in Signals |-> IF db.sig[s].owner = source
                                     THEN [db.sig[s] EXCEPT !.owner = target] ELSE db.sig[s]]
             r == [Bumped(db.inc[source]) EXCEPT !.status = "closed", !.basis = None,
                             !.merged = target, !.was = db.inc[source].status,
                             !.moved = OwnSignals(db, source)]
             d1 == [db EXCEPT !.sig = f]
             e  == [d1 EXCEPT !.inc[source] = r]
  <1>1. /\ Outside("merge", e) /\ source # target
        /\ db.inc[source].cause = None /\ db.inc[target].status \in Active
        /\ db.inc[target].merged = None /\ \A k \in Incidents : db.inc[k].cause # source
    BY DEF Merge
  <1>2. \A s \in Signals : db.sig[s] \in SigRows
    BY Rows DEF Solid
  <1>3. f \in [Signals -> SigRows]
    BY <1>2 DEF SigRows
  <1>4. \A s \in Signals : /\ f[s].state = db.sig[s].state
                           /\ f[s].owner = IF db.sig[s].owner = source THEN target ELSE db.sig[s].owner
    BY <1>2 DEF SigRows
  <1>5. r \in IncRows /\ r.cause = db.inc[source].cause /\ r.merged = target /\ r.status = "closed"
    <2> DEFINE b == Bumped(db.inc[source])
    <2>1. db.inc[source] \in IncRows /\ b \in IncRows /\ Alike(db.inc[source], b)
      BY Rows, RowOps DEF Solid
    <2>2. OwnSignals(db, source) \in SUBSET Signals /\ db.inc[source].status \in Statuses
      BY <2>1 DEF OwnSignals, IncRows
    <2>3. r = [b EXCEPT !.status = "closed", !.basis = None, !.merged = target,
                        !.was = db.inc[source].status, !.moved = OwnSignals(db, source)]
      OBVIOUS
    <2> HIDE DEF b, r
    <2>4. r \in IncRows
      BY <2>1, <2>2, <2>3 DEF IncRows, Statuses, Closed
    <2>5. r.cause = b.cause /\ r.merged = target /\ r.status = "closed"
      BY <2>1, <2>3 DEF IncRows
    <2> QED
      BY <2>1, <2>4, <2>5 DEF Alike
  <1> HIDE DEF r, f
  <1>6. Leads(db, d1) /\ d1.sig = f /\ d1.inc = db.inc
    BY <1>3, SigSet DEF Solid
  <1> HIDE DEF d1
  <1>7. /\ Leads(d1, e) /\ e.sig = f
        /\ e.inc = [k \in Incidents |-> IF k = source THEN r ELSE db.inc[k]]
    BY <1>5, <1>6, IncRow DEF Leads
  <1> HIDE DEF e
  <1>8. Leads(db, e)
    BY <1>6, <1>7, LeadsOn
  <1>9. \A k \in Incidents : e.inc[k].cause = db.inc[k].cause
    BY <1>5, <1>7
  <1>10. Rooted(e) /\ \A k \in Incidents : Root(e, k) = Root(db, k)
    BY <1>9, RootsSame DEF Solid, Whole
  <1>11. Placed(e)
    <2>1. r.status \notin Active
      BY <1>5 DEF Active
    <2> QED
      BY <1>1, <1>5, <1>7, <1>9, <2>1 DEF Placed, Solid, Whole
  <1>12. ASSUME NEW j \in Incidents, NEW k \in Incidents, Evident(e, j), Root(e, k) = Root(e, j)
         PROVE  Quiescent(e, k)
    <2>1. j # source /\ Evident(db, j)
      BY <1>5, <1>7, <1>12 DEF Evident
    <2>2. Quiescent(db, k) /\ Root(db, k) = Root(db, j)
      BY <1>10, <1>12, <2>1 DEF Joint, Solid, Whole
    <2>3. k # target
      BY <1>1, <2>2 DEF Quiescent
    <2>4. k # source
      BY <1>1, <2>1, <2>2, Alone DEF Solid, Whole
    <2> QED
      BY <1>4, <1>7, <2>2, <2>3, <2>4 DEF Quiescent
  <1>13. Whole(e)
    BY <1>10, <1>11, <1>12 DEF Whole, Joint
  <1> QED
    BY <1>1, <1>8, <1>13, OutsideWorldly DEF Kinds, Steady

LEMMA SplitWorldly ==
    ASSUME Solid(db), budget \in [Kinds -> Nat], NEW source \in Incidents, Split(source)
    PROVE  Worldly
  <1> DEFINE row == db.inc[source]
             f == [s \in Signals |-> IF s \in row.moved /\ db.sig[s].owner = row.merged
                                     THEN [db.sig[s] EXCEPT !.owner = source] ELSE db.sig[s]]
             r == [Bumped(row) EXCEPT
                     !.status = row.was,
                     !.since = IF row.was \in Active THEN row.since ELSE row.ver + 1,
                     !.basis = None, !.merged = None, !.was = "open", !.moved = {}]
             d1 == [db EXCEPT !.sig = f]
             e  == [d1 EXCEPT !.inc[source] = r]
  <1>1. Outside("merge", e) /\ row.merged # None /\ ~row.archived
    <2>1. row.merged # None /\ Untouched(source)
      BY DEF Split
    <2>2. Outside("merge", e)
      BY DEF Split
    <2> QED
      BY <2>1, <2>2 DEF Untouched
  <1>2. \A s \in Signals : db.sig[s] \in SigRows
    BY Rows DEF Solid
  <1>3. f \in [Signals -> SigRows]
    BY <1>2 DEF SigRows
  <1>4. \A s \in Signals : /\ f[s].state = db.sig[s].state
                           /\ f[s].owner \in {source, db.sig[s].owner}
    BY <1>2 DEF SigRows
  <1>5. r \in IncRows /\ r.cause = row.cause /\ r.merged = None /\ r.basis = None
        /\ r.archived = row.archived
    <2> DEFINE b == Bumped(row)
               since == IF row.was \in Active THEN row.since ELSE row.ver + 1
    <2>1. row \in IncRows /\ b \in IncRows /\ Alike(row, b)
      BY Rows, RowOps DEF Solid
    <2>2. row.was \in Statuses /\ since \in Nat
      BY <2>1 DEF IncRows
    <2>3. r = [b EXCEPT !.status = row.was, !.since = since, !.basis = None, !.merged = None,
                        !.was = "open", !.moved = {}]
      BY <2>1 DEF IncRows
    <2> HIDE DEF b, r, since, row
    <2>4. r \in IncRows
      BY <2>1, <2>2, <2>3 DEF IncRows, Statuses, Active
    <2>5. r.cause = b.cause /\ r.merged = None /\ r.basis = None /\ r.archived = b.archived
      BY <2>1, <2>3 DEF IncRows
    <2> QED
      BY <2>1, <2>4, <2>5 DEF Alike
  <1>6. row.cause = None /\ \A m \in Incidents : db.inc[m].cause # source
    BY <1>1 DEF Solid, Whole, Placed
  <1> HIDE DEF r, f
  <1>7. Leads(db, d1) /\ d1.sig = f /\ d1.inc = db.inc
    BY <1>3, SigSet DEF Solid
  <1> HIDE DEF d1
  <1>8. /\ Leads(d1, e) /\ e.sig = f
        /\ e.inc = [k \in Incidents |-> IF k = source THEN r ELSE db.inc[k]]
    BY <1>5, <1>7, IncRow DEF Leads
  <1> HIDE DEF e
  <1>9. Leads(db, e)
    BY <1>7, <1>8, LeadsOn
  <1>10. \A k \in Incidents : e.inc[k].cause = db.inc[k].cause
    BY <1>5, <1>8
  <1>11. Rooted(e) /\ \A k \in Incidents : Root(e, k) = Root(db, k)
    BY <1>10, RootsSame DEF Solid, Whole
  <1>12. Placed(e)
    BY <1>1, <1>5, <1>8, <1>10 DEF Placed, Solid, Whole
  <1>13. ASSUME NEW j \in Incidents, NEW k \in Incidents, Evident(e, j), Root(e, k) = Root(e, j)
         PROVE  Quiescent(e, k)
    <2>1. j # source /\ Evident(db, j)
      BY <1>5, <1>8, <1>13, RecoveryAssumptions DEF Evident
    <2>2. Quiescent(db, k) /\ Root(db, k) = Root(db, j)
      BY <1>11, <1>13, <2>1 DEF Joint, Solid, Whole
    <2>3. k # source
      BY <1>6, <2>1, <2>2, Alone DEF Solid, Whole
    <2> QED
      BY <1>4, <1>8, <2>2, <2>3 DEF Quiescent
  <1>14. Whole(e)
    BY <1>11, <1>12, <1>13 DEF Whole, Joint
  <1> QED
    BY <1>1, <1>9, <1>14, OutsideWorldly DEF Kinds, Steady

LEMMA ApprovalWorldly ==
    ASSUME Solid(db), budget \in [Kinds -> Nat], NEW i \in Incidents, NEW contended \in BOOLEAN,
           AskApproval(i) \/ DecideApproval(i, contended)
    PROVE  Worldly
  <1>1. ASSUME NEW b \in BOOLEAN PROVE Steady(db, [db EXCEPT !.app[i] = b])
    <2> DEFINE e == [db EXCEPT !.app[i] = b]
    <2>1. Leads(db, e) /\ e.sig = db.sig /\ e.inc = db.inc /\ e.job = db.job
      BY AppRow DEF Solid
    <2> HIDE DEF e
    <2>2. Whole(e)
      BY <2>1, ResolvedWhole DEF Solid
    <2> QED
      BY <2>1, <2>2 DEF Steady, e
  <1>2. CASE AskApproval(i)
    <2> DEFINE e == [db EXCEPT !.app[i] = TRUE]
    <2>1. Outside("approve", e)
      BY <1>2 DEF AskApproval
    <2>2. Steady(db, e)
      BY <1>1
    <2> HIDE DEF e
    <2> QED
      BY <2>1, <2>2, OutsideWorldly DEF Kinds
  <1>3. CASE DecideApproval(i, contended)
    <2> DEFINE d == [db EXCEPT !.app[i] = FALSE]
    <2>1. /\ db' = IF contended THEN StartRecovery(d, i) ELSE AfterApproval(d, i)
          /\ UNCHANGED <<worker, lock, budget>>
      BY <1>3 DEF DecideApproval
    <2>2. Steady(db, d)
      BY <1>1
    <2> HIDE DEF d
    <2>3. Mild(d, StartRecovery(d, i))
      BY <2>2, SteadySane, StartMild
    <2>4. Leads(d, AfterApproval(d, i)) /\ (Whole(d) => Whole(AfterApproval(d, i)))
      BY <2>2, SteadySane, AfterApprovalWhole
    <2>5. Steady(db, StartRecovery(d, i)) /\ Steady(db, AfterApproval(d, i))
      BY <2>2, <2>3, <2>4, MildSteady, SteadyOn
    <2> QED
      BY <2>1, <2>5 DEF Worldly
  <1> QED
    BY <1>2, <1>3

LEMMA WorldIsWorldly ==
    ASSUME Solid(db), budget \in [Kinds -> Nat], World
    PROVE  Worldly
  <1>1. ASSUME NEW s \in Signals,
               SignalOpens(s) \/ SignalClears(s) \/ CorrectSignal(s) \/ ReportedRefires(s)
        PROVE  Worldly
    BY <1>1, SignalOpensWorldly, SignalClearsWorldly
  <1>2. ASSUME NEW i \in Incidents,
               \/ \E asked \in BOOLEAN : ReportRecovery(i, asked)
               \/ \E to \in Active \cup Closed : Operate(i, to)
               \/ \E policy \in {"verified_recovery", "provider_clear"} : ChangePolicy(i, policy)
               \/ \E allow \in BOOLEAN : Archive(i, allow)
               \/ SupersedeRuns(i)
        PROVE  Worldly
    BY <1>2, ReportRecoveryWorldly, OperateWorldly, ChangePolicyWorldly, ArchiveWorldly,
       SupersedeRunsWorldly DEF Statuses
  <1>3. ASSUME NEW i \in Incidents,
               AskApproval(i) \/ \E contended \in BOOLEAN : DecideApproval(i, contended)
        PROVE  Worldly
    BY <1>3, ApprovalWorldly
  <1>4. ASSUME NEW i \in Incidents, NEW k \in Incidents, LinkCause(i, k) \/ Merge(i, k)
        PROVE  Worldly
    BY <1>4, LinkCauseWorldly, MergeWorldly
  <1>5. ASSUME NEW i \in Incidents, Unlink(i) \/ Split(i)
        PROVE  Worldly
    BY <1>5, UnlinkWorldly, SplitWorldly
  <1> QED
    BY <1>1, <1>2, <1>3, <1>4, <1>5, ConnectorChangesWorldly DEF World

-----------------------------------------------------------------------------
(* The queue and the workers.                                              *)

\* Who handles a job has one, about an incident; who checks has a run.
Staffed ==
    \A w \in Workers :
        /\ worker[w].pc # "idle" =>
             worker[w].job \in Jobs /\ db.job[worker[w].job].st # "absent"
        /\ worker[w].pc = "checking" => worker[w].run \in Jobs \X Nat

Posted ==
    /\ worker \in [Workers -> WorkerRows]
    /\ lock \in [Incidents -> Workers \cup {None, "expiring"}]
    /\ budget \in [Kinds -> Nat]

Core == Solid(db) /\ Posted /\ Staffed

\* No row becomes unused again.
Lasting(d, e) == \A j \in Jobs : d.job[j].st # "absent" => e.job[j].st # "absent"

LEMMA SteadyLasting == \A d, e : Steady(d, e) => Lasting(d, e)
  BY DEF Steady, Leads, Tame, Lasting

\* One worker moves on to another stage of its job, or goes idle.
LEMMA StaffMoves ==
    ASSUME Core, NEW w \in Workers, NEW me \in WorkerRows,
           worker' = [worker EXCEPT ![w] = me], Lasting(db, db'),
           me.pc # "idle" => me.job \in Jobs /\ db'.job[me.job].st # "absent",
           me.pc = "checking" => me.run \in Jobs \X Nat
    PROVE  worker' \in [Workers -> WorkerRows] /\ Staffed'
  <1>1. worker \in [Workers -> WorkerRows]
    BY DEF Core, Posted
  <1>2. \A v \in Workers : worker'[v] = IF v = w THEN me ELSE worker[v]
    BY <1>1
  <1>3. worker' \in [Workers -> WorkerRows]
    BY <1>1
  <1>4. Staffed'
    BY <1>2 DEF Core, Staffed, Lasting
  <1> QED
    BY <1>3, <1>4

LEMMA GoMoves ==
    ASSUME Core, NEW w \in Workers, worker[w].pc # "idle",
           NEW pc \in Pcs \ {"checking"}, Go(w, pc), Lasting(db, db')
    PROVE  worker' \in [Workers -> WorkerRows] /\ Staffed'
  <1> DEFINE me == [worker[w] EXCEPT !.pc = pc]
  <1>1. worker[w] \in WorkerRows /\ worker \in [Workers -> WorkerRows]
    BY DEF Core, Posted
  <1>2. me \in WorkerRows /\ me.pc = pc /\ me.job = worker[w].job
    BY <1>1 DEF WorkerRows
  <1>3. worker' = [worker EXCEPT ![w] = me]
    BY DEF Go
  <1> HIDE DEF me
  <1>4. worker[w].job \in Jobs /\ db.job[worker[w].job].st # "absent"
    BY DEF Core, Staffed
  <1>5. db'.job[worker[w].job].st # "absent"
    BY <1>4 DEF Lasting
  <1> QED
    BY <1>2, <1>3, <1>4, <1>5, StaffMoves

LEMMA IdleRow == Idle \in WorkerRows /\ Idle.pc = "idle"
  BY Counts DEF Idle, WorkerRows, Pcs, Runs, Fences

LEMMA LeaveMoves ==
    ASSUME Core, NEW w \in Workers, Leave(w), Lasting(db, db')
    PROVE  /\ worker' \in [Workers -> WorkerRows] /\ Staffed'
           /\ lock' \in [Incidents -> Workers \cup {None, "expiring"}]
  <1>1. worker' = [worker EXCEPT ![w] = Idle]
    BY DEF Leave
  <1>2. worker' \in [Workers -> WorkerRows] /\ Staffed'
    BY <1>1, IdleRow, StaffMoves
  <1> QED
    BY <1>2 DEF Leave, Core, Posted

LEMMA OnIn ==
    ASSUME Core, NEW w \in Workers, worker[w].pc # "idle"
    PROVE  worker[w].job \in Jobs /\ On(w) \in Incidents /\ db.job[worker[w].job].st # "absent"
  BY DEF Core, Staffed, Solid, Sane, On

\* A row that is in use changes its status.
LEMMA StatusMild ==
    ASSUME NEW d, Sane(d), NEW j \in Jobs, d.job[j].st # "absent",
           NEW st \in {"queued", "processing", "done", "dead"}
    PROVE  Mild(d, [d EXCEPT !.job[j].st = st])
  <1> DEFINE r == [d.job[j] EXCEPT !.st = st]
  <1>1. d.job[j] \in JobRows /\ d.job[j].inc \in Incidents
    BY Rows DEF Sane
  <1>2. r \in JobRows /\ r.inc = d.job[j].inc /\ r.open = d.job[j].open /\ r.st # "absent"
    BY <1>1 DEF JobRows
  <1>3. [d EXCEPT !.job[j].st = st] = [d EXCEPT !.job[j] = r]
    BY <1>1 DEF Sane, Tables
  <1> HIDE DEF r
  <1>4. Mild(d, [d EXCEPT !.job[j] = r])
    BY <1>1, <1>2, JobMild
  <1> QED
    BY <1>3, <1>4

\* What a step of the queue, a handler or a fault keeps.
Kept == Solid(db)' /\ Posted' /\ Staffed'

LEMMA StaffStays ==
    ASSUME Core, UNCHANGED worker, Lasting(db, db')
    PROVE  worker' \in [Workers -> WorkerRows] /\ Staffed'
  BY DEF Core, Posted, Staffed, Lasting

LEMMA RowSteps ==
    ASSUME Core, NEW j \in Jobs, Due(j) \/ Retire(j)
    PROVE  Steady(db, db') /\ UNCHANGED <<worker, lock, budget>>
  <1>1. Solid(db) /\ Sane(db)
    BY DEF Core, Solid
  <1>2. CASE Due(j)
    <2> DEFINE r == [db.job[j] EXCEPT !.later = FALSE]
    <2>1. db.job[j] \in JobRows /\ db.job[j].inc \in Incidents /\ db.job[j].st # "absent"
      BY <1>1, <1>2, Rows DEF Due, Sane
    <2>2. /\ r \in JobRows /\ r.inc = db.job[j].inc /\ r.open = db.job[j].open
          /\ r.st = db.job[j].st
      BY <2>1 DEF JobRows
    <2>3. db' = [db EXCEPT !.job[j] = r]
      BY <1>1, <1>2 DEF Due, Sane, Tables
    <2> HIDE DEF r
    <2>4. Mild(db, [db EXCEPT !.job[j] = r])
      BY <1>1, <2>1, <2>2, JobMild
    <2> QED
      BY <1>1, <1>2, <2>3, <2>4, MildIsSteady DEF Due
  <1>3. CASE Retire(j)
    <2>1. Mild(db, [db EXCEPT !.job[j].st = "done"])
      BY <1>1, <1>3, StatusMild DEF Retire
    <2> QED
      BY <1>1, <1>3, <2>1, MildIsSteady DEF Retire
  <1> QED
    BY <1>2, <1>3

LEMMA ClaimKeeps ==
    ASSUME Core, Known, NEW w \in Workers, NEW j \in Jobs, Claim(w, j)
    PROVE  Kept
  <1> DEFINE row  == db.job[j]
             seen == read[w]
             r   == [row EXCEPT !.st = "processing", !.tries = @ + 1]
             att == IF seen.att = 0 THEN 1 ELSE IF seen.att > MaxChecks THEN MaxChecks ELSE seen.att
             me  == [Idle EXCEPT !.pc = IF row.told THEN "returning" ELSE "claimed",
                                 !.job = j, !.ver = seen.ver, !.fence = seen.fence,
                                 !.att = att, !.lease = TRUE]
  <1>1. Solid(db) /\ Sane(db) /\ db.job \in [Jobs -> JobRows]
    BY DEF Core, Solid, Sane, Tables
  <1>2. row \in JobRows /\ row.st # "absent" /\ row.inc \in Incidents /\ seen \in ReadRows
    BY <1>1 DEF Claim, Claimable, Sane, Known
  <1>3. row.tries + 1 \in Nat
    BY <1>2 DEF JobRows
  <1>4. r \in JobRows /\ r.inc = row.inc /\ r.open = row.open /\ r.st = "processing"
    BY <1>2, <1>3 DEF JobRows
  <1>5. db' = [db EXCEPT !.job[j] = r]
    BY <1>1 DEF Claim, Sane, Tables, JobRows
  <1>6. worker' = [worker EXCEPT ![w] = me] /\ lock' = [lock EXCEPT ![row.inc] = w] /\ budget' = budget
    BY DEF Claim
  <1>7. att \in 0..MaxChecks
    BY <1>2, Counts DEF ReadRows
  <1> HIDE DEF att
  <1>8. me \in WorkerRows /\ me.job = j /\ me.pc # "checking"
    <2>1. (IF row.told THEN "returning" ELSE "claimed") \in Pcs \ {"checking"}
      BY DEF Pcs
    <2> QED
      BY <1>2, <1>7, <2>1, IdleRow DEF WorkerRows, JobRows, ReadRows, Fences
  <1> HIDE DEF r, me
  <1>9. Mild(db, db')
    BY <1>1, <1>2, <1>4, <1>5, JobMild
  <1>10. Solid(db') /\ Lasting(db, db')
    BY <1>1, <1>9, MildIsSteady, SteadySolid, SteadyLasting
  <1>11. db'.job[j].st # "absent"
    BY <1>2, <1>10 DEF Lasting
  <1>12. worker' \in [Workers -> WorkerRows] /\ Staffed'
    BY <1>6, <1>8, <1>10, <1>11, StaffMoves
  <1> QED
    BY <1>6, <1>10, <1>12 DEF Kept, Posted, Core

\* What a worker has read stays well typed: a SELECT copies a row, a claim and
\* a lost claim forget it.
LEMMA ReadsKept ==
    ASSUME Core, Known, Step
    PROVE  Known'
  <1>1. \A j \in Jobs : db.job[j] \in JobRows
    BY Rows DEF Core, Solid, Sane
  <1>2. NoRead \in ReadRows
    BY Counts DEF NoRead, ReadRows, Fences
  <1>3. ASSUME NEW w \in Workers, NEW j \in Jobs, Fetch(w, j) PROVE Known'
    <2> DEFINE got == [job |-> j, ver |-> db.job[j].ver, fence |-> db.job[j].fence,
                       att |-> db.job[j].att]
    <2>1. got \in ReadRows
      BY <1>1 DEF JobRows, ReadRows
    <2>2. read' = [read EXCEPT ![w] = got]
      BY <1>3 DEF Fetch
    <2> QED
      BY <2>1, <2>2 DEF Known
  <1>4. ASSUME NEW w \in Workers, read' = [read EXCEPT ![w] = NoRead] PROVE Known'
    BY <1>2, <1>4 DEF Known
  <1> QED
    BY <1>3, <1>4 DEF Step, Deliver, Claim, Lose, Known

LEMMA ProviderCheckKeeps ==
    ASSUME Core, NEW w \in Workers, ProviderCheck(w)
    PROVE  Kept
  <1> DEFINE i == On(w)
             go == IF ProviderHandles(db, i) THEN "returning" ELSE "cleared"
  <1>1. i \in Incidents /\ worker[w].pc # "idle" /\ Solid(db) /\ Sane(db)
    BY OnIn DEF ProviderCheck, Core, Solid
  <1>2. /\ db' = db \/ db' = ProviderClear(db, i)
        /\ Go(w, go) /\ UNCHANGED <<lock, budget>>
    BY DEF ProviderCheck
  <1> HIDE DEF i
  <1>3. Leads(db, ProviderClear(db, i)) /\ (Whole(db) => Whole(ProviderClear(db, i)))
    BY <1>1, ProviderClearWhole
  <1>4. Steady(db, db')
    BY <1>1, <1>2, <1>3, SteadySelf, SteadyOn
  <1>5. Solid(db') /\ Lasting(db, db')
    BY <1>1, <1>4, SteadySolid, SteadyLasting
  <1>6. go \in Pcs \ {"checking"}
    BY DEF Pcs
  <1> HIDE DEF go
  <1>7. worker' \in [Workers -> WorkerRows] /\ Staffed'
    BY <1>1, <1>2, <1>5, <1>6, GoMoves
  <1> QED
    BY <1>2, <1>5, <1>7 DEF Kept, Posted, Core

\* The one step that opens a run: only while the incident has none, or again
\* for the job whose run is open.
LEMMA OpenedSolid ==
    ASSUME NEW d, Solid(d), NEW j \in Jobs, NEW r \in JobRows,
           r.st = d.job[j].st, r.inc = d.job[j].inc,
           d.job[j].open \/ ~PendingRun(d, d.job[j].inc)
    PROVE  LET e == [d EXCEPT !.job[j] = r]
           IN  Solid(e) /\ Lasting(d, e) /\ e.inc = d.inc
  <1> DEFINE e == [d EXCEPT !.job[j] = r]
             f == [d.job EXCEPT ![j] = r]
  <1>1. d \in Tables /\ d.job \in [Jobs -> JobRows]
    BY DEF Solid, Sane, Tables
  <1>2. f \in [Jobs -> JobRows] /\ \A k \in Jobs : f[k] = IF k = j THEN r ELSE d.job[k]
    BY <1>1
  <1>3. e = [d EXCEPT !.job = f]
    OBVIOUS
  <1> HIDE DEF f
  <1>4. e \in Tables /\ e.inc = d.inc /\ e.sig = d.sig /\ e.job = f /\ e.app = d.app
    BY <1>1, <1>2, <1>3 DEF Tables
  <1> HIDE DEF e
  <1>5. Sane(e)
    BY <1>2, <1>4 DEF Solid, Sane
  <1>6. Whole(e)
    BY <1>4, ResolvedWhole DEF Solid
  <1>7. OneRun(e)
    BY <1>2, <1>4 DEF OneRun, Solid, PendingRun
  <1>8. Lasting(d, e)
    BY <1>2, <1>4 DEF Lasting
  <1> QED
    BY <1>4, <1>5, <1>6, <1>7, <1>8 DEF Solid, e

LEMMA BeginKeeps ==
    ASSUME Core, NEW w \in Workers, NEW exhausted \in BOOLEAN, Begin(w, exhausted)
    PROVE  Kept
  <1> DEFINE i     == On(w)
             j     == worker[w].job
             row   == db.inc[i]
             saved == db.job[j].saved \/ ~row.gathering
             d     == [db EXCEPT !.job[j].saved = saved]
             reuse == db.job[j].open \/ db.job[j].denied
             admit == IF reuse THEN ~db.job[j].denied ELSE ~exhausted /\ ~PendingRun(db, i)
             n     == IF db.job[j].open THEN db.job[j].runs ELSE db.job[j].runs + 1
             run   == <<j, n>>
             rs    == [db.job[j] EXCEPT !.saved = saved]
             rd    == [db.job[j] EXCEPT !.saved = saved, !.denied = TRUE]
             ro    == [db.job[j] EXCEPT !.saved = saved, !.open = TRUE, !.runs = n]
             qv    == IF row.gathering /\ saved THEN [NoVerdict(row) EXCEPT !.gathering = FALSE] ELSE row
             qd    == [row EXCEPT !.rec = "not_verified", !.run = None]
             qo    == [row EXCEPT !.gathering = TRUE, !.rec = "verifying", !.run = run,
                                  !.att = worker[w].att]
             me    == [worker[w] EXCEPT !.pc = "checking", !.run = run, !.saved = saved]
  <1>1. /\ i \in Incidents /\ j \in Jobs /\ worker[w].pc # "idle" /\ Solid(db) /\ Sane(db)
        /\ i = db.job[j].inc /\ db.job[j].st # "absent" /\ worker[w] \in WorkerRows
    BY OnIn DEF Begin, Core, Solid, On, Posted
  <1>2. db \in Tables /\ db.job[j] \in JobRows /\ row \in IncRows
    BY <1>1, Rows DEF Sane
  <1>3. \/ db' = db /\ Go(w, "returning")
        \/ /\ db' = [d EXCEPT !.inc[i] = IF row.gathering /\ saved
                       THEN [NoVerdict(@) EXCEPT !.gathering = FALSE] ELSE @]
           /\ Go(w, "returning")
        \/ /\ db' = [d EXCEPT !.job[j].denied = TRUE,
                              !.inc[i] = [@ EXCEPT !.rec = "not_verified", !.run = None]]
           /\ Go(w, "returning")
        \/ /\ admit
           /\ db' = [d EXCEPT !.job[j] = [@ EXCEPT !.open = TRUE, !.runs = run[2]],
                              !.inc[i] = [@ EXCEPT !.gathering = TRUE, !.rec = "verifying",
                                                   !.run = run, !.att = worker[w].att]]
           /\ worker' = [worker EXCEPT ![w].pc = "checking", ![w].run = run, ![w].saved = saved]
    BY DEF Begin
  <1>4. UNCHANGED lock /\ budget' \in [Kinds -> Nat]
    BY SpendOK DEF Begin, Core, Posted, Kinds
  <1>5. saved \in BOOLEAN /\ n \in Nat
    BY <1>2 DEF JobRows, IncRows
  <1> HIDE DEF i, j, saved, n
  <1>6. /\ rs \in JobRows /\ rs.st = db.job[j].st /\ rs.inc = db.job[j].inc /\ rs.open = db.job[j].open
        /\ rd \in JobRows /\ rd.st = db.job[j].st /\ rd.inc = db.job[j].inc /\ rd.open = db.job[j].open
        /\ ro \in JobRows /\ ro.st = db.job[j].st /\ ro.inc = db.job[j].inc
    BY <1>2, <1>5 DEF JobRows
  <1>7. qv \in IncRows /\ Alike(row, qv)
    <2>1. NoVerdict(row) \in IncRows /\ Alike(row, NoVerdict(row))
      BY <1>2, RowOps
    <2> HIDE DEF row
    <2> QED
      BY <1>2, <2>1 DEF IncRows, Alike
  <1>8. qd \in IncRows /\ Alike(row, qd)
    BY <1>2 DEF IncRows, Alike, Runs
  <1>9. qo \in IncRows /\ Alike(row, qo)
    BY <1>1, <1>2, <1>5 DEF IncRows, Alike, Runs, WorkerRows
  <1>10. [d EXCEPT !.inc[i] = IF row.gathering /\ saved
                       THEN [NoVerdict(@) EXCEPT !.gathering = FALSE] ELSE @]
           = [[db EXCEPT !.job[j] = rs] EXCEPT !.inc[i] = qv]
    BY <1>1, <1>2 DEF Tables
  <1>11. [d EXCEPT !.job[j].denied = TRUE,
                   !.inc[i] = [@ EXCEPT !.rec = "not_verified", !.run = None]]
           = [[db EXCEPT !.job[j] = rd] EXCEPT !.inc[i] = qd]
    BY <1>1, <1>2 DEF Tables, JobRows
  <1>12. [d EXCEPT !.job[j] = [@ EXCEPT !.open = TRUE, !.runs = run[2]],
                   !.inc[i] = [@ EXCEPT !.gathering = TRUE, !.rec = "verifying",
                                        !.run = run, !.att = worker[w].att]]
           = [[db EXCEPT !.job[j] = ro] EXCEPT !.inc[i] = qo]
    BY <1>1, <1>2 DEF Tables, JobRows
  <1> HIDE DEF rs, rd, ro, qv, qd, qo
  <1>13. ASSUME NEW r \in JobRows, r.st = db.job[j].st, r.inc = db.job[j].inc,
                db.job[j].open \/ ~PendingRun(db, i),
                NEW q \in IncRows, Alike(row, q)
         PROVE  LET e == [[db EXCEPT !.job[j] = r] EXCEPT !.inc[i] = q]
                IN  Solid(e) /\ Lasting(db, e)
    <2> DEFINE c == [db EXCEPT !.job[j] = r]
               e == [c EXCEPT !.inc[i] = q]
    <2>1. Solid(c) /\ Lasting(db, c) /\ c.inc = db.inc
      BY <1>1, <1>13, OpenedSolid
    <2> HIDE DEF c
    <2>2. Mild(c, e)
      BY <1>1, <1>13, <2>1, IncMild DEF Solid
    <2>3. Steady(c, e)
      BY <2>1, <2>2, MildIsSteady
    <2>4. Solid(e) /\ Lasting(c, e)
      BY <2>1, <2>3, SteadySolid, SteadyLasting
    <2>5. Lasting(db, e)
      BY <2>1, <2>4 DEF Lasting
    <2> QED
      BY <2>4, <2>5 DEF c
  <1>14. ASSUME NEW r \in JobRows, r.st = db.job[j].st, r.inc = db.job[j].inc, r.open = db.job[j].open,
                NEW q \in IncRows, Alike(row, q)
         PROVE  LET e == [[db EXCEPT !.job[j] = r] EXCEPT !.inc[i] = q]
                IN  Solid(e) /\ Lasting(db, e)
    <2> DEFINE c == [db EXCEPT !.job[j] = r]
               e == [c EXCEPT !.inc[i] = q]
    <2>1. Sane(db) /\ j \in Jobs /\ r \in JobRows
      BY <1>1
    <2>6. r.st # "absent" => r.inc \in Incidents
      BY <1>1, <1>14
    <2>7. r.open => db.job[j].open /\ r.inc = db.job[j].inc
      BY <1>14
    <2>8. db.job[j].st # "absent" => r.st # "absent"
      BY <1>14
    <2>2. Mild(db, c) /\ c.inc = db.inc
      BY <2>1, <2>6, <2>7, <2>8, JobMild
    <2> HIDE DEF c
    <2>3. Mild(c, e)
      BY <1>1, <1>14, <2>2, MildSane, IncMild
    <2>4. Steady(db, e)
      BY <1>1, <2>2, <2>3, MildOn, MildIsSteady
    <2> QED
      BY <1>1, <2>4, SteadySolid, SteadyLasting DEF c
  <1>15. ASSUME Go(w, "returning"), Solid(db'), Lasting(db, db')
         PROVE  Kept
    <2>1. worker' \in [Workers -> WorkerRows] /\ Staffed'
      BY <1>1, <1>15, GoMoves DEF Pcs
    <2> QED
      BY <1>4, <1>15, <2>1 DEF Kept, Posted, Core
  <1>16. CASE db' = db /\ Go(w, "returning")
    BY <1>1, <1>15, <1>16 DEF Lasting
  <1>17. CASE /\ db' = [[db EXCEPT !.job[j] = rs] EXCEPT !.inc[i] = qv]
              /\ Go(w, "returning")
    BY <1>6, <1>7, <1>14, <1>15, <1>17
  <1>18. CASE /\ db' = [[db EXCEPT !.job[j] = rd] EXCEPT !.inc[i] = qd]
              /\ Go(w, "returning")
    BY <1>6, <1>8, <1>14, <1>15, <1>18
  <1>19. CASE /\ admit
              /\ db' = [[db EXCEPT !.job[j] = ro] EXCEPT !.inc[i] = qo]
              /\ worker' = [worker EXCEPT ![w].pc = "checking", ![w].run = run, ![w].saved = saved]
    <2>1. db.job[j].open \/ ~PendingRun(db, i)
      BY <1>19
    <2>2. Solid(db') /\ Lasting(db, db')
      BY <1>6, <1>9, <1>13, <1>19, <2>1
    <2>3. worker \in [Workers -> WorkerRows]
      BY DEF Core, Posted
    <2>4. worker' = [worker EXCEPT ![w] = me]
      BY <1>1, <1>19, <2>3 DEF WorkerRows
    <2>5. run \in Jobs \X Nat
      BY <1>1, <1>5
    <2>6. me \in WorkerRows /\ me.pc = "checking" /\ me.run = run /\ me.job = j
      BY <1>1, <1>5, <2>5 DEF WorkerRows, Runs, Pcs, j
    <2>7. db'.job[j].st # "absent"
      BY <1>1, <2>2 DEF Lasting
    <2> HIDE DEF me, run
    <2>8. worker' \in [Workers -> WorkerRows] /\ Staffed'
      BY <1>1, <2>2, <2>4, <2>5, <2>6, <2>7, StaffMoves
    <2> QED
      BY <1>4, <2>2, <2>8 DEF Kept, Posted, Core
  <1> QED
    BY <1>3, <1>10, <1>11, <1>12, <1>16, <1>17, <1>18, <1>19

\* A step that ends in Go and in tables reached from the old ones.
LEMMA GoKeeps ==
    ASSUME Core, NEW w \in Workers, worker[w].pc # "idle",
           NEW pc \in Pcs \ {"checking"}, Go(w, pc), UNCHANGED lock,
           budget' \in [Kinds -> Nat], Steady(db, db')
    PROVE  Kept
  <1>1. Solid(db') /\ Lasting(db, db')
    BY SteadySolid, SteadyLasting DEF Core
  <1>2. worker' \in [Workers -> WorkerRows] /\ Staffed'
    BY <1>1, GoMoves
  <1> QED
    BY <1>1, <1>2 DEF Kept, Posted, Core

LEMMA FinalizeKeeps ==
    ASSUME Core, NEW w \in Workers, NEW outcome \in {"recovered", "recheck", "needs_human"},
           Finalize(w, outcome)
    PROVE  Kept
  <1> DEFINE i    == On(w)
             me   == worker[w]
             back == Restore(db, i, me.saved, me.run)
             got  == Verdict(w, outcome)
             d1   == Complete(db, me.run)
             d2   == IF got = "recheck"
                     THEN InsertRecovery(d1, i, me.ver, me.fence, me.att + 1, TRUE) ELSE d1
             r    == [d2.job[me.job] EXCEPT !.told = TRUE]
             rec  == CASE got = "recovered" -> "verified"
                       [] got = "recheck" -> "monitoring"
                       [] OTHER -> "not_verified"
             q    == [d2.inc[i] EXCEPT !.gathering = FALSE, !.run = None, !.att = me.att, !.rec = rec]
             c    == [d2 EXCEPT !.job[me.job] = r]
             d3   == [c EXCEPT !.inc[i] = q]
             d4   == IF got = "recovered" /\ AllResolved(d3, i) /\ ~PendingApproval(d3, i)
                     THEN ResolveGroup(d3, i, "verified_recovery") ELSE d3
             u    == [back.job[me.job] EXCEPT !.ver = db.inc[i].ver]
             b1   == [back EXCEPT !.job[me.job] = u]
             d3x  == [d2 EXCEPT
                       !.job[me.job].told = TRUE,
                       !.inc[i] = [@ EXCEPT !.gathering = FALSE, !.run = None, !.att = me.att,
                                     !.rec = CASE got = "recovered" -> "verified"
                                               [] got = "recheck" -> "monitoring"
                                               [] OTHER -> "not_verified"]]
             d4x  == IF got = "recovered" /\ AllResolved(d3x, i) /\ ~PendingApproval(d3x, i)
                     THEN ResolveGroup(d3x, i, "verified_recovery") ELSE d3x
  <1>1. /\ i \in Incidents /\ me.job \in Jobs /\ me.pc # "idle" /\ Solid(db) /\ Sane(db)
        /\ db.job[me.job].st # "absent" /\ me \in WorkerRows /\ me.run \in Jobs \X Nat
    BY OnIn DEF Finalize, Core, Solid, Posted, Staffed
  <1>2. me.saved \in BOOLEAN /\ me.ver \in Nat /\ me.fence \in Fences /\ me.att \in 0..MaxChecks
    BY <1>1 DEF WorkerRows
  <1>3. \/ db' = [back EXCEPT !.job[me.job].ver = db.inc[i].ver] /\ Go(w, "broken")
        \/ db' = Complete(back, me.run) /\ Go(w, "returning")
        \/ db' = d4x /\ Go(w, "returning")
        \/ db' = back /\ Go(w, "returning")
    BY DEF Finalize
  <1>4. UNCHANGED lock /\ budget' \in [Kinds -> Nat]
    BY DEF Finalize, Core, Posted
  <1>5. Mild(db, back)
    BY <1>1, RestoreMild
  <1>6. Mild(db, d1)
    BY <1>1, CompleteMild
  <1>7. got = "recheck" => me.att + 1 \in 0..MaxChecks
    <2>1. got = "recheck" => ~(me.att >= MaxChecks)
      BY DEF Verdict
    <2> QED
      BY <1>2, <2>1, RecoveryAssumptions
  <1> HIDE DEF i, me, got, back
  <1>8. Sane(d1)
    BY <1>6, MildSane
  <1> HIDE DEF d1
  <1>9. Mild(d1, d2)
    BY <1>1, <1>2, <1>7, <1>8, InsertMild, MildOn
  <1> HIDE DEF d2
  <1>10. Mild(db, d2) /\ Sane(d2)
    BY <1>6, <1>9, MildOn, MildSane
  <1>11. /\ d2.job[me.job] \in JobRows /\ d2.job[me.job].st # "absent"
         /\ d2.job[me.job].inc \in Incidents /\ d2.inc[i] \in IncRows
    <2>1. d2.job[me.job].st # "absent"
      BY <1>1, <1>10 DEF Mild, Leads, Tame
    <2> QED
      BY <1>1, <1>10, <2>1, Rows DEF Sane
  <1>12. /\ r \in JobRows /\ r.st = d2.job[me.job].st /\ r.inc = d2.job[me.job].inc
         /\ r.open = d2.job[me.job].open
    BY <1>11 DEF JobRows
  <1>13. q \in IncRows /\ Alike(d2.inc[i], q)
    <2>1. rec \in {None, "verifying", "monitoring", "verified", "not_verified"}
      OBVIOUS
    <2> HIDE DEF rec
    <2> QED
      BY <1>2, <1>11, <2>1 DEF IncRows, Alike, Runs
  <1>14. d3x = d3
    BY <1>1, <1>10, <1>11 DEF Sane, Tables, JobRows
  <1>15. db' = d4x => db' = d4
    BY <1>14
  <1> HIDE DEF r, q, d3x, d4x
  <1>16. Mild(d2, c) /\ c.inc = d2.inc
    <2>1. r.open => d2.job[me.job].open /\ r.inc = d2.job[me.job].inc
      BY <1>12
    <2>2. r.st # "absent" => r.inc \in Incidents
      BY <1>11, <1>12
    <2>3. d2.job[me.job].st # "absent" => r.st # "absent"
      BY <1>12
    <2>4. r \in JobRows /\ Sane(d2) /\ me.job \in Jobs
      BY <1>1, <1>10, <1>12
    <2> QED
      BY <2>1, <2>2, <2>3, <2>4, JobMild
  <1> HIDE DEF c
  <1>17. Mild(c, d3)
    <2>1. Sane(c) /\ Alike(c.inc[i], q)
      BY <1>13, <1>16, MildSane
    <2> QED
      BY <1>1, <1>13, <2>1, IncMild
  <1> HIDE DEF d3
  <1>18. Steady(db, d3)
    BY <1>1, <1>10, <1>16, <1>17, MildOn, MildIsSteady
  <1>19. /\ Leads(d3, ResolveGroup(d3, i, "verified_recovery"))
         /\ Whole(d3) /\ ~Uncleared(d3, i) => Whole(ResolveGroup(d3, i, "verified_recovery"))
    BY <1>1, <1>18, SteadySane, ResolveGroupWhole
  <1>20. Steady(db, d4)
    <2>1. AllResolved(d3, i) => Steady(db, ResolveGroup(d3, i, "verified_recovery"))
      BY <1>18, <1>19, AllResolvedClears, SteadyOn
    <2> QED
      BY <1>18, <2>1
  <1> HIDE DEF d4
  <1>21. Sane(back)
    BY <1>5, MildSane
  <1>22. Mild(back, Complete(back, me.run))
    BY <1>1, <1>21, CompleteMild
  <1>23. /\ back.job[me.job] \in JobRows /\ back.job[me.job].st # "absent"
         /\ back.job[me.job].inc \in Incidents /\ db.inc[i].ver \in Nat
    <2>1. back.job[me.job].st # "absent"
      BY <1>1, <1>5 DEF Mild, Leads, Tame
    <2> QED
      BY <1>1, <1>21, <2>1, Rows DEF Sane, IncRows
  <1>24. /\ u \in JobRows /\ u.st = back.job[me.job].st /\ u.inc = back.job[me.job].inc
         /\ u.open = back.job[me.job].open
    BY <1>23 DEF JobRows
  <1>25. [back EXCEPT !.job[me.job].ver = db.inc[i].ver] = b1
    BY <1>1, <1>21 DEF Sane, Tables
  <1> HIDE DEF u
  <1>26. Mild(back, b1)
    <2>1. u.open => back.job[me.job].open /\ u.inc = back.job[me.job].inc
      BY <1>24
    <2>2. u.st # "absent" => u.inc \in Incidents
      BY <1>23, <1>24
    <2>3. back.job[me.job].st # "absent" => u.st # "absent"
      BY <1>24
    <2>4. u \in JobRows /\ Sane(back) /\ me.job \in Jobs
      BY <1>1, <1>21, <1>24
    <2> QED
      BY <2>1, <2>2, <2>3, <2>4, JobMild
  <1>27. Steady(db, back) /\ Steady(db, Complete(back, me.run)) /\ Steady(db, b1)
    BY <1>1, <1>5, <1>22, <1>26, MildOn, MildIsSteady
  <1>28. Steady(db, db') /\ (Go(w, "broken") \/ Go(w, "returning"))
    BY <1>3, <1>15, <1>20, <1>25, <1>27
  <1> QED
    BY <1>1, <1>4, <1>28, GoKeeps DEF Pcs, me

LEMMA EngineKeeps ==
    ASSUME Core, NEW w \in Workers,
           \/ NonPromote(w) \/ EngineFails(w) \/ RestoreStep(w) \/ ProviderContended(w)
           \/ \E finalizing \in BOOLEAN : SetupFails(w, finalizing)
    PROVE  Kept
  <1> DEFINE me   == worker[w]
             done == Complete(db, me.run)
             back == Restore(done, On(w), me.saved, me.run)
  <1>1. me.pc # "idle"
    BY DEF NonPromote, EngineFails, RestoreStep, ProviderContended, SetupFails
  <1>2. /\ On(w) \in Incidents /\ me.job \in Jobs /\ Solid(db) /\ Sane(db)
        /\ db.job[me.job].st # "absent"
    BY <1>1, OnIn DEF Core, Solid
  <1>3. ASSUME me.pc = "checking"
        PROVE  Mild(db, done) /\ Mild(db, back)
    <2>1. me.run \in Jobs \X Nat
      BY <1>3 DEF Core, Staffed
    <2>2. Mild(db, done)
      BY <1>2, <2>1, CompleteMild
    <2> HIDE DEF done
    <2>3. Mild(done, back)
      BY <1>2, <2>2, MildSane, RestoreMild
    <2> QED
      BY <2>2, <2>3, MildOn
  <1>4. budget \in [Kinds -> Nat]
    BY DEF Core, Posted
  <1>5. CASE NonPromote(w)
    <2> DEFINE r == [back.job[me.job] EXCEPT !.told = TRUE]
               e == [back EXCEPT !.job[me.job] = r]
    <2>1. /\ me.pc = "checking"
          /\ db' = IF RunOpen(db, me.run) THEN [back EXCEPT !.job[me.job].told = TRUE] ELSE db
          /\ Go(w, "returning") /\ UNCHANGED <<lock, budget>>
      BY <1>5 DEF NonPromote
    <2>2. Mild(db, back) /\ Sane(back)
      BY <1>3, <2>1, MildSane
    <2> HIDE DEF back
    <2>3. /\ back.job[me.job] \in JobRows /\ back.job[me.job].st # "absent"
          /\ back.job[me.job].inc \in Incidents
      <3>1. back.job[me.job].st # "absent"
        BY <1>2, <2>2 DEF Mild, Leads, Tame
      <3> QED
        BY <1>2, <2>2, <3>1, Rows DEF Sane
    <2>4. /\ r \in JobRows /\ r.st = back.job[me.job].st /\ r.inc = back.job[me.job].inc
          /\ r.open = back.job[me.job].open
      BY <2>3 DEF JobRows
    <2>5. [back EXCEPT !.job[me.job].told = TRUE] = e
      BY <1>2, <2>2 DEF Sane, Tables
    <2> HIDE DEF r, me
    <2>6. Mild(back, e)
      <3>1. r.open => back.job[me.job].open /\ r.inc = back.job[me.job].inc
        BY <2>4
      <3>2. r.st # "absent" => r.inc \in Incidents
        BY <2>3, <2>4
      <3>3. back.job[me.job].st # "absent" => r.st # "absent"
        BY <2>4
      <3>4. r \in JobRows /\ Sane(back) /\ me.job \in Jobs
        BY <1>2, <2>2, <2>4
      <3> QED
        BY <3>1, <3>2, <3>3, <3>4, JobMild
    <2>7. Steady(db, db')
      BY <1>2, <2>1, <2>2, <2>5, <2>6, MildOn, MildIsSteady, SteadySelf
    <2> QED
      BY <1>1, <1>4, <2>1, <2>7, GoKeeps DEF Pcs, me
  <1>6. CASE EngineFails(w)
    <2>1. /\ me.pc = "checking" /\ db' = back /\ Spend("fail") /\ UNCHANGED lock
          /\ Go(w, "broken") \/ Go(w, "returning")
      BY <1>6 DEF EngineFails
    <2>2. Steady(db, db')
      BY <1>2, <1>3, <2>1, MildIsSteady
    <2>3. budget' \in [Kinds -> Nat]
      BY <1>4, <2>1, SpendOK DEF Kinds
    <2> QED
      BY <1>1, <2>1, <2>2, <2>3, GoKeeps DEF Pcs
  <1>7. CASE RestoreStep(w)
    <2>1. /\ db' = Restore(db, On(w), me.saved, me.run)
          /\ Go(w, "throwing") /\ UNCHANGED <<lock, budget>>
      BY <1>7 DEF RestoreStep
    <2>2. Mild(db, Restore(db, On(w), me.saved, me.run))
      BY <1>2, RestoreMild
    <2>3. Steady(db, db')
      BY <1>2, <2>1, <2>2, MildIsSteady
    <2> QED
      BY <1>1, <1>4, <2>1, <2>3, GoKeeps DEF Pcs
  <1>8. CASE ProviderContended(w)
    <2>1. db' = db /\ Go(w, "throwing") /\ Spend("fail") /\ UNCHANGED lock
      BY <1>8 DEF ProviderContended
    <2>2. Steady(db, db')
      BY <1>2, <2>1, SteadySelf
    <2>3. budget' \in [Kinds -> Nat]
      BY <1>4, <2>1, SpendOK DEF Kinds
    <2> QED
      BY <1>1, <2>1, <2>2, <2>3, GoKeeps DEF Pcs
  <1>9. ASSUME NEW finalizing \in BOOLEAN, SetupFails(w, finalizing) PROVE Kept
    <2>1. /\ me.pc = "checking" /\ (db' = db \/ db' = done) /\ Go(w, "broken")
          /\ Spend("fail") /\ UNCHANGED lock
      BY <1>9 DEF SetupFails
    <2>2. Steady(db, db')
      BY <1>2, <1>3, <2>1, SteadySelf, MildIsSteady
    <2>3. budget' \in [Kinds -> Nat]
      BY <1>4, <2>1, SpendOK DEF Kinds
    <2> QED
      BY <1>1, <2>1, <2>2, <2>3, GoKeeps DEF Pcs
  <1> QED
    BY <1>5, <1>6, <1>7, <1>8, <1>9

LEMMA LeavingKeeps ==
    ASSUME Core, NEW w \in Workers, Return(w) \/ Throw(w)
    PROVE  Kept
  <1> DEFINE j == worker[w].job
             st == IF db.job[j].tries >= MaxAttempts THEN "dead"
                   ELSE IF Queued(db, On(w)) # {} THEN "done" ELSE "queued"
  <1>1. worker[w].pc # "idle"
    BY DEF Return, Throw
  <1>2. j \in Jobs /\ Solid(db) /\ Sane(db) /\ db.job[j].st # "absent"
    BY <1>1, OnIn DEF Core, Solid
  <1>3. /\ db' = db \/ db' = [db EXCEPT !.job[j].st = "done"] \/ db' = [db EXCEPT !.job[j].st = st]
        /\ Leave(w) /\ UNCHANGED budget
    BY DEF Return, Throw
  <1>4. st \in {"queued", "processing", "done", "dead"}
    OBVIOUS
  <1> HIDE DEF j, st
  <1>5. Mild(db, [db EXCEPT !.job[j].st = "done"]) /\ Mild(db, [db EXCEPT !.job[j].st = st])
    BY <1>2, <1>4, StatusMild
  <1>6. Steady(db, db')
    BY <1>2, <1>3, <1>5, MildIsSteady, SteadySelf
  <1>7. Solid(db') /\ Lasting(db, db')
    BY <1>2, <1>6, SteadySolid, SteadyLasting
  <1>8. /\ worker' \in [Workers -> WorkerRows] /\ Staffed'
        /\ lock' \in [Incidents -> Workers \cup {None, "expiring"}]
    BY <1>3, <1>7, LeaveMoves
  <1> QED
    BY <1>3, <1>7, <1>8 DEF Kept, Posted, Core

LEMMA FaultKeeps ==
    ASSUME Core, NEW w \in Workers, Crash(w) \/ Stall(w)
    PROVE  Kept
  <1>1. UNCHANGED db /\ Spend("crash") /\ Solid(db) /\ Lasting(db, db)
    BY DEF Crash, Stall, Core, Lasting
  <1>2. budget' \in [Kinds -> Nat]
    BY <1>1, SpendOK DEF Kinds, Core, Posted
  <1>3. lock' \in [Incidents -> Workers \cup {None, "expiring"}]
    BY DEF Crash, Stall, Core, Posted
  <1>4. worker' \in [Workers -> WorkerRows] /\ Staffed'
    <2>1. CASE Crash(w)
      <3>1. worker' = [worker EXCEPT ![w] = Idle]
        BY <2>1 DEF Crash
      <3>2. Lasting(db, db')
        BY <1>1
      <3> QED
        BY <3>1, <3>2, IdleRow, StaffMoves
    <2>2. CASE Stall(w)
      <3> DEFINE me == [worker[w] EXCEPT !.lease = FALSE]
      <3>1. worker[w] \in WorkerRows /\ worker \in [Workers -> WorkerRows]
        BY DEF Core, Posted
      <3>2. worker' = [worker EXCEPT ![w] = me]
        BY <2>2, <3>1 DEF Stall
      <3>3. /\ me \in WorkerRows /\ me.pc = worker[w].pc /\ me.job = worker[w].job
            /\ me.run = worker[w].run
        BY <3>1 DEF WorkerRows
      <3> HIDE DEF me
      <3>4. me.pc # "idle" => me.job \in Jobs /\ db'.job[me.job].st # "absent"
        BY <1>1, <3>3 DEF Core, Staffed
      <3>5. me.pc = "checking" => me.run \in Jobs \X Nat
        BY <3>3 DEF Core, Staffed
      <3>6. Lasting(db, db')
        BY <1>1
      <3> QED
        BY <3>2, <3>3, <3>4, <3>5, <3>6, StaffMoves
    <2> QED
      BY <2>1, <2>2
  <1> QED
    BY <1>1, <1>2, <1>3, <1>4 DEF Kept, Posted

-----------------------------------------------------------------------------
(* The invariant and what follows from it.                                 *)

Inv == Core /\ Known /\ fresh \in [Workers -> BOOLEAN] /\ proof \in [Incidents -> BOOLEAN]

LEMMA InitInv == Init => Inv
  <1> SUFFICES ASSUME Init PROVE Inv
    OBVIOUS
  <1>1. PICK policy \in [Incidents -> Policies] :
          db = [inc |-> [i \in Incidents |->
                 [status |-> "open", ver |-> 0, since |-> 0, archived |-> FALSE,
                  policy |-> policy[i], basis |-> None, gathering |-> FALSE, rec |-> None,
                  run |-> None, att |-> 0, cause |-> None, merged |-> None,
                  was |-> "open", moved |-> {}]],
               sig |-> [s \in Signals |->
                 [state |-> IF s \in Late THEN "absent" ELSE "active", ver |-> 0,
                  prov |-> None, owner |-> Home[s]]],
               job |-> [j \in Jobs |-> NoJob],
               app |-> [i \in Incidents |-> FALSE]]
    BY DEF Init
  <1>2. db.inc \in [Incidents -> IncRows]
    <2>1. \A i \in Incidents : policy[i] \in {"verified_recovery", "provider_clear"}
      BY RecoveryAssumptions
    <2>2. "open" \in Statuses
      BY DEF Statuses, Active
    <2> QED
      BY <1>1, <2>1, <2>2, Counts DEF IncRows, Runs
  <1>3. db.sig \in [Signals -> SigRows]
    BY <1>1, RecoveryAssumptions DEF SigRows
  <1>4. NoJob \in JobRows /\ NoJob.st = "absent" /\ ~NoJob.open
    BY Counts DEF NoJob, JobRows, Fences
  <1>5. db \in Tables
    BY <1>1, <1>2, <1>3, <1>4 DEF Tables
  <1>6. Sane(db) /\ OneRun(db)
    BY <1>1, <1>4, <1>5 DEF Sane, OneRun
  <1>7. Whole(db)
    <2>1. \A i \in Incidents : i \in Tops(db, i)
      BY <1>1, CausesSelf DEF Tops
    <2>2. Rooted(db)
      BY <2>1 DEF Rooted
    <2>3. Placed(db)
      BY <1>1 DEF Placed
    <2>4. \A i \in Incidents : ~Evident(db, i)
      BY <1>1 DEF Evident
    <2> QED
      BY <2>2, <2>3, <2>4 DEF Whole, Joint
  <1>8. Posted /\ Staffed
    BY IdleRow, RecoveryAssumptions DEF Init, Posted, Staffed
  <1>9. fresh \in [Workers -> BOOLEAN] /\ proof \in [Incidents -> BOOLEAN]
    BY DEF Init
  <1>10. Known
    BY Counts DEF Init, Known, NoRead, ReadRows, Fences
  <1> QED
    BY <1>6, <1>7, <1>8, <1>9, <1>10 DEF Inv, Core, Solid

LEMMA StepKeeps ==
    ASSUME Core, Known, Step
    PROVE  Kept
  <1>1. CASE World
    <2>1. Worldly
      BY <1>1, WorldIsWorldly DEF Core, Posted
    <2>2. Solid(db') /\ Lasting(db, db')
      BY <2>1, SteadySolid, SteadyLasting DEF Worldly, Core
    <2>3. worker' \in [Workers -> WorkerRows] /\ Staffed'
      BY <2>1, <2>2, StaffStays DEF Worldly
    <2> QED
      BY <2>1, <2>2, <2>3 DEF Kept, Worldly, Posted, Core
  <1>2. ASSUME NEW j \in Jobs, Due(j) \/ Retire(j) PROVE Kept
    <2>1. Steady(db, db') /\ UNCHANGED <<worker, lock, budget>>
      BY <1>2, RowSteps
    <2>2. Solid(db') /\ Lasting(db, db')
      BY <2>1, SteadySolid, SteadyLasting DEF Core
    <2>3. worker' \in [Workers -> WorkerRows] /\ Staffed'
      BY <2>1, <2>2, StaffStays
    <2> QED
      BY <2>1, <2>2, <2>3 DEF Kept, Posted, Core
  <1>3. ASSUME NEW w \in Workers, Handle(w) \/ Fault(w) PROVE Kept
    BY <1>3, ProviderCheckKeeps, BeginKeeps, FinalizeKeeps, EngineKeeps, LeavingKeeps, FaultKeeps
       DEF Handle, Fault
  <1>4. ASSUME NEW i \in Incidents, LockExpires(i) PROVE Kept
    <2>1. UNCHANGED <<db, worker, budget>> /\ lock' = [lock EXCEPT ![i] = None]
      BY <1>4 DEF LockExpires
    <2> QED
      BY <2>1 DEF Kept, Core, Posted, Staffed
  <1>5. ASSUME UNCHANGED <<db, worker, lock, budget>> PROVE Kept
    BY <1>5 DEF Kept, Core, Posted, Staffed
  <1> QED
    BY <1>1, <1>2, <1>3, <1>4, <1>5, ClaimKeeps DEF Step, Queue, Deliver, Fetch, Lose

LEMMA NextInv == Inv /\ [Next]_vars => Inv'
  <1> SUFFICES ASSUME Inv, [Next]_vars PROVE Inv'
    OBVIOUS
  <1>1. CASE Next
    <2>1. Core' /\ Known'
      BY <1>1, StepKeeps, ReadsKept DEF Next, Inv, Kept, Core
    <2>2. fresh' \in [Workers -> BOOLEAN]
      <3>1. Witness
        BY <1>1 DEF Next
      <3>2. ASSUME NEW w \in Workers
            PROVE  (/\ worker'[w].pc = "checking"
                    /\ \/ worker[w].pc # "checking"
                       \/ fresh[w] /\ db'.inc[On(w)].ver = db.inc[On(w)].ver
                    /\ AllResolved(db', db'.job[worker'[w].job].inc)) \in BOOLEAN
        OBVIOUS
      <3> QED
        BY <3>1, <3>2 DEF Witness
    <2>3. proof' \in [Incidents -> BOOLEAN]
      <3>1. Witness
        BY <1>1 DEF Next
      <3>2. ASSUME NEW i \in Incidents
            PROVE  (/\ db'.inc[i].rec = "verified" /\ AllResolved(db', i)
                    /\ \/ proof[i]
                       \/ \E w \in Workers : /\ worker[w].pc = "checking"
                                             /\ worker'[w].pc = "returning"
                                             /\ fresh[w] /\ On(w) = i) \in BOOLEAN
        OBVIOUS
      <3> QED
        BY <3>1, <3>2 DEF Witness
    <2> QED
      BY <2>1, <2>2, <2>3 DEF Inv
  <1>2. CASE UNCHANGED vars
    BY <1>2 DEF vars, Inv, Core, Known, Posted, Staffed
  <1> QED
    BY <1>1, <1>2

THEOREM InvHolds == Spec => []Inv
  BY InitInv, NextInv, PTL DEF Spec

\* Every reachable state is well typed: the tables keep their vocabulary, the
\* attempt counters stay within MaxChecks although rechecks count them up, and
\* whoever claimed a job has one (db, worker, lock and the histories).
THEOREM TypeCorrect == Spec => []TypeOK
  <1>1. Inv => TypeOK
    <2> SUFFICES ASSUME Inv PROVE TypeOK
      OBVIOUS
    <2>1. db \in Tables /\ worker \in [Workers -> WorkerRows]
      BY DEF Inv, Core, Solid, Sane, Posted
    <2>2. /\ lock \in [Incidents -> Workers \cup {None, "expiring"}]
          /\ budget \in [Kinds -> Nat]
          /\ fresh \in [Workers -> BOOLEAN] /\ proof \in [Incidents -> BOOLEAN]
          /\ read \in [Workers -> ReadRows]
      BY DEF Inv, Core, Posted, Known
    <2> QED
      BY <2>1, <2>2 DEF TypeOK, Tables, IncRows, SigRows, JobRows, ReadRows, WorkerRows,
                        Statuses, Runs, Fences, Pcs
  <1> QED
    BY <1>1, InvHolds, PTL

\* Two paid runs of one incident are never pending together: only the
\* admission in beginRecoveryInvestigation opens one, and only while no run of
\* the incident is pending or for the job whose own run it is.  Redeliveries,
\* crashes, stalls, merges and superseded runs do not change that.
THEOREM OneRunAtATime == Spec => []AtMostOneRun
  <1>1. Inv => AtMostOneRun
    BY DEF Inv, Core, Solid, OneRun, AtMostOneRun
  <1> QED
    BY <1>1, InvHolds, PTL

\* The caused_by edges never form a cycle: from every incident the walk to the
\* cause ends at an incident without one, which is the root of its group.
\* recordIncidentRelationTx refuses the edge that would close a cycle, and
\* archiving, unlinking, merging and splitting only take edges away.
THEOREM CausesEnd == Spec => [](\A i \in Incidents : db.inc[Root(db, i)].cause = None)
  <1>1. Inv => \A i \in Incidents : db.inc[Root(db, i)].cause = None
    BY RootShared DEF Inv, Core, Solid, Whole, Tops
  <1> QED
    BY <1>1, InvHolds, PTL

\* An incident that is still resolved on evidence has no uncleared signal in
\* its group, for groups of any size and shape: who opens a signal, reopens a
\* member or links a group takes the joint basis back from every member in the
\* same transaction (clearResponseGroupRecoveryTx), and a merge moves signals to
\* an active incident only, in whose group nobody is resolved on evidence (Joint).
THEOREM EvidenceStands == Spec => []BasisHolds
  <1>1. Inv => BasisHolds
    <2> SUFFICES ASSUME Inv, NEW i \in Incidents, Evident(db, i) PROVE ~Uncleared(db, i)
      BY DEF BasisHolds, Evident
    <2>1. \A k \in Group(db, i) : Quiescent(db, k)
      BY DEF Group, Inv, Core, Solid, Whole, Joint
    <2> QED
      BY <2>1 DEF Uncleared, GroupSignals, Quiescent
  <1> QED
    BY <1>1, InvHolds, PTL
=============================================================================
