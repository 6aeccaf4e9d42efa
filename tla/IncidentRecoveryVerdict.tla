---------------------- MODULE IncidentRecoveryVerdict ----------------------
(***************************************************************************)
(* What a shown recovery and an automatic resolution rest on: proofs of    *)
(* VerdictMatchesSignals and AutoResolveJustified, for any incidents,      *)
(* signals, jobs, workers and budgets.                                     *)
(*                                                                         *)
(* A merge or split moves signals to an incident whose verdict it leaves   *)
(* alone.  The first property holds as long as none of them brings a       *)
(* firing signal to a group that shows a recovery, or any signal to a      *)
(* group of which a linked incident is being checked (ClearMoves).  The    *)
(* second needs more: that no signal goes to a group whose recovery is     *)
(* verified already, and that neither a move (UncheckedMoves) nor          *)
(* archiving (UncheckedArchive) changes the signals of a group that is     *)
(* being checked.  Both do so without moving the version of the root, so   *)
(* the check may find its fence again.                                     *)
(***************************************************************************)
EXTENDS IncidentRecoveryProofs, FiniteSetTheorems

-----------------------------------------------------------------------------
(* The invariant.                                                          *)

\* The platform shows a recovery of this incident, or would after a split.
Shows(r) ==
    /\ r.rec \in {"verifying", "monitoring", "verified"}
    /\ r.status \in Active \/ (r.merged # None /\ r.was \in Active)

\* Only a root shows one, and only while its group is clear.
Verdicts(d) ==
    \A i \in Incidents : Shows(d.inc[i]) => d.inc[i].cause = None /\ ~Uncleared(d, i)

\* A merge or split hands the signal over.
Moved(s) == db'.sig[s].state # "absent" /\ db'.sig[s].owner # db.sig[s].owner

\* A merge or split brings no firing signal to a group that shows a recovery,
\* and none at all to a group of which a linked incident is being checked.
ClearMoves ==
    \A s \in Signals : Moved(s) =>
        LET to == db'.sig[s].owner
        IN  /\ Shows(db'.inc[Root(db', to)]) => db'.sig[s].state = "resolved"
            /\ \A w \in Workers : worker[w].pc = "checking" /\ On(w) \in Group(db', to) =>
                 db'.inc[On(w)].cause = None

\* It brings none to a group whose recovery is verified, and takes none from or
\* to a group that is being checked.
UncheckedMoves ==
    \A s \in Signals : Moved(s) =>
        LET from == db.sig[s].owner
            to   == db'.sig[s].owner
        IN  /\ ~(Shows(db'.inc[Root(db', to)]) /\ db'.inc[Root(db', to)].rec = "verified")
            /\ \A w \in Workers : worker[w].pc = "checking" =>
                 On(w) \notin Group(db, from) \cup Group(db, to)

\* A linked incident is archived only while its group is not being checked.
UncheckedArchive ==
    \A i \in Incidents :
        db'.inc[i].archived /\ ~db.inc[i].archived /\ Group(db, i) # {i} =>
            \A w \in Workers : worker[w].pc = "checking" => On(w) \notin Group(db, i)

Fenced(me) == { f[1] : f \in me.fence }

\* What a check under way knows of the incident: it began under a version
\* that is past or current, with a fence of cleared signals.  A root that is
\* linked to a cause meanwhile leaves that version, or the fence is void.
Watched(d, me) ==
    LET i == d.job[me.job].inc
    IN  /\ me.ver <= d.inc[i].ver
        /\ me.fence # {}
        /\ \A f \in me.fence : /\ f[1] \in Signals /\ f[3] = "resolved"
                               /\ d.sig[f[1]].state # "absent" /\ f[2] <= d.sig[f[1]].ver
        /\ d.inc[i].ver = me.ver =>
             d.inc[i].cause = None \/ Fenced(me) \cap GroupSignals(d, i) = {}

VerdictInv ==
    /\ Verdicts(db)
    /\ \A w \in Workers : worker[w].pc = "checking" => Watched(db, worker[w])

\* While version and fence are those the check began with, the group has been
\* clear ever since.
FreshInv ==
    \A w \in Workers :
        /\ worker[w].pc = "checking"
        /\ db.inc[On(w)].ver = worker[w].ver
        /\ SignalFence(db, On(w)) = worker[w].fence
        => fresh[w]

\* So has it been since the verdict, for as long as the verdict shows.
ProofInv ==
    \A i \in Incidents :
        /\ Shows(db.inc[i]) /\ db.inc[i].rec = "verified"
        /\ GroupSignals(db, i) # {}
        => proof[i]

-----------------------------------------------------------------------------
(* What a transaction leaves of them.                                      *)

\* A row shows no recovery it did not show, and its version does not fall.
Recedes(r, q) ==
    /\ q.cause = r.cause /\ r.ver <= q.ver
    /\ Shows(q) => Shows(r) /\ q.rec = r.rec

\* Signals and edges stay, every row recedes, and no job that a worker holds
\* goes to another incident.
Quiet(d, e) ==
    /\ e.sig = d.sig
    /\ \A k \in Incidents : Recedes(d.inc[k], e.inc[k])
    /\ \A w \in Workers : worker[w].job \in Jobs =>
         e.job[worker[w].job].inc = d.job[worker[w].job].inc

\* A signal keeps its owner, a change of its state moves its version, and it
\* appears as an active one.
Ages(r, q) ==
    /\ q.owner = r.owner /\ r.ver <= q.ver
    /\ q.ver = r.ver => q.state = r.state
    /\ r.state # "absent" => q.state # "absent"
    /\ r.state = "absent" => q.state # "resolved"

\* The general case: a signal that fires takes the verdict of its root along.
Calm(d, e) ==
    /\ \A k \in Incidents : /\ d.inc[k].ver <= e.inc[k].ver
                            /\ Shows(e.inc[k]) => Shows(d.inc[k]) /\ e.inc[k].rec = d.inc[k].rec
    /\ \A s \in Signals :
         /\ Ages(d.sig[s], e.sig[s])
         /\ e.sig[s].state = "active" /\ d.sig[s].state # "active"
              => ~Shows(e.inc[Root(e, e.sig[s].owner)])
    /\ \A w \in Workers : worker[w].job \in Jobs =>
         e.job[worker[w].job].inc = d.job[worker[w].job].inc

\* What becomes of the edges of one incident: its group stays,
Same(d, e, i) == e.inc[i].cause = d.inc[i].cause /\ Group(e, i) = Group(d, i)

\* or it shrinks,
Shrinks(d, e, i) ==
    e.inc[i].cause \in {d.inc[i].cause, None} /\ Group(e, i) \subseteq Group(d, i)

\* or it is another one, and nothing that was known of the old one counts.
Apart(d, e, i) ==
    /\ ~Shows(e.inc[i])
    /\ d.inc[i].ver < e.inc[i].ver \/ GroupSignals(e, i) = {}

Firm(d, e)  == \A i \in Incidents : Same(d, e, i) \/ Apart(d, e, i)
Loose(d, e) == \A i \in Incidents : Shrinks(d, e, i) \/ Apart(d, e, i)

\* No group that is being checked shrinks.
Held(d, e) ==
    \A i \in Incidents :
        (\E w \in Workers : worker[w].pc = "checking" /\ On(w) = i) => Same(d, e, i) \/ Apart(d, e, i)

\* A merge or split: signals may change hands, and nothing else of them does.
Shifts(d, e) ==
    /\ Sane(e) /\ e.job = d.job
    /\ \A k \in Incidents : Recedes(d.inc[k], e.inc[k])
    /\ \A s \in Signals : \E to \in Incidents : e.sig[s] = [d.sig[s] EXCEPT !.owner = to]

\* No incident is resolved on a verified recovery that was not before.
Plain(d, e) ==
    \A i \in Incidents :
        e.inc[i].status = "resolved" /\ e.inc[i].basis = "verified_recovery"
        => d.inc[i].status = "resolved" /\ d.inc[i].basis = "verified_recovery"

Calmly(d, e) == Sane(e) /\ Calm(d, e) /\ Firm(d, e) /\ Plain(d, e)

LEMMA FirmLoose == \A d, e : Firm(d, e) => Loose(d, e) /\ Held(d, e)
  BY DEF Firm, Loose, Held, Same, Shrinks

LEMMA QuietOn ==
    /\ \A d : Sane(d) => Quiet(d, d)
    /\ \A d, e, f : Sane(d) /\ Sane(e) /\ Sane(f) /\ Quiet(d, e) /\ Quiet(e, f) => Quiet(d, f)
  <1>1. ASSUME NEW d, Sane(d) PROVE Quiet(d, d)
    BY <1>1, Rows DEF Quiet, Recedes, IncRows
  <1>2. ASSUME NEW d, NEW e, NEW f, Sane(d), Sane(e), Sane(f), Quiet(d, e), Quiet(e, f)
        PROVE  Quiet(d, f)
    <2>1. ASSUME NEW k \in Incidents PROVE Recedes(d.inc[k], f.inc[k])
      <3>1. d.inc[k].ver \in Nat /\ e.inc[k].ver \in Nat /\ f.inc[k].ver \in Nat
        BY <1>2, Rows DEF IncRows
      <3>2. Recedes(d.inc[k], e.inc[k]) /\ Recedes(e.inc[k], f.inc[k])
        BY <1>2 DEF Quiet
      <3> QED
        BY <3>1, <3>2 DEF Recedes
    <2> QED
      BY <1>2, <2>1 DEF Quiet
  <1> QED
    BY <1>1, <1>2

\* Groups and their signals, where edges and signals stay.
LEMMA SameGroups ==
    ASSUME NEW d, NEW e, e.sig = d.sig, \A k \in Incidents : e.inc[k].cause = d.inc[k].cause,
           NEW i \in Incidents
    PROVE  /\ Root(e, i) = Root(d, i) /\ Group(e, i) = Group(d, i)
           /\ GroupSignals(e, i) = GroupSignals(d, i) /\ SignalFence(e, i) = SignalFence(d, i)
           /\ AllResolved(e, i) = AllResolved(d, i) /\ Uncleared(e, i) = Uncleared(d, i)
  <1>1. Root(e, i) = Root(d, i) /\ Group(e, i) = Group(d, i)
    BY RootsSame
  <1>2. GroupSignals(e, i) = GroupSignals(d, i)
    BY <1>1 DEF GroupSignals
  <1>3. SignalFence(e, i) = SignalFence(d, i)
    BY <1>2 DEF SignalFence
  <1>4. AllResolved(e, i) = AllResolved(d, i) /\ Uncleared(e, i) = Uncleared(d, i)
    BY <1>2 DEF AllResolved, Uncleared
  <1> QED
    BY <1>1, <1>2, <1>3, <1>4

LEMMA QuietCalm ==
    ASSUME NEW d, NEW e, Sane(d), Quiet(d, e)
    PROVE  Calm(d, e) /\ Firm(d, e)
  <1>1. \A s \in Signals : d.sig[s].ver \in Nat
    BY Rows DEF SigRows
  <1>2. \A s \in Signals : Ages(d.sig[s], e.sig[s]) /\ e.sig[s].state = d.sig[s].state
    BY <1>1 DEF Quiet, Ages
  <1>3. Calm(d, e)
    BY <1>2 DEF Calm, Quiet, Recedes
  <1>4. \A i \in Incidents : Same(d, e, i)
    BY SameGroups DEF Quiet, Recedes, Same
  <1> QED
    BY <1>3, <1>4 DEF Firm

\* A quiet transaction may follow another one.
LEMMA CalmQuiet ==
    ASSUME NEW d, NEW e, NEW f, Sane(d), Sane(e), Sane(f), Calm(d, e), Quiet(e, f)
    PROVE  /\ Calm(d, f)
           /\ Firm(d, e) => Firm(d, f)
           /\ Loose(d, e) => Loose(d, f)
  <1>1. ASSUME NEW k \in Incidents
        PROVE  /\ d.inc[k].ver <= f.inc[k].ver /\ e.inc[k].ver <= f.inc[k].ver
               /\ Shows(f.inc[k]) => Shows(e.inc[k])
               /\ Shows(f.inc[k]) => Shows(d.inc[k]) /\ f.inc[k].rec = d.inc[k].rec
               /\ f.inc[k].cause = e.inc[k].cause
               /\ d.inc[k].ver \in Nat /\ e.inc[k].ver \in Nat /\ f.inc[k].ver \in Nat
    <2>1. d.inc[k].ver \in Nat /\ e.inc[k].ver \in Nat /\ f.inc[k].ver \in Nat
      BY Rows DEF IncRows
    <2>2. d.inc[k].ver <= e.inc[k].ver /\ Recedes(e.inc[k], f.inc[k])
          /\ (Shows(e.inc[k]) => Shows(d.inc[k]) /\ e.inc[k].rec = d.inc[k].rec)
      BY DEF Calm, Quiet
    <2> QED
      BY <2>1, <2>2 DEF Recedes
  <1>2. \A i \in Incidents : /\ Root(f, i) = Root(e, i) /\ Group(f, i) = Group(e, i)
                             /\ GroupSignals(f, i) = GroupSignals(e, i)
    BY <1>1, SameGroups DEF Quiet
  <1>3. ASSUME NEW s \in Signals
        PROVE  /\ Ages(d.sig[s], f.sig[s])
               /\ f.sig[s].state = "active" /\ d.sig[s].state # "active"
                     => ~Shows(f.inc[Root(f, f.sig[s].owner)])
    <2>1. f.sig[s] = e.sig[s] /\ e.sig[s].owner \in Incidents
      BY Rows DEF Quiet, SigRows
    <2>2. Root(f, e.sig[s].owner) = Root(e, e.sig[s].owner) /\ Root(e, e.sig[s].owner) \in Incidents
      BY <1>2, <2>1, RootIn
    <2>3. Ages(d.sig[s], e.sig[s]) /\ (e.sig[s].state = "active" /\ d.sig[s].state # "active"
                     => ~Shows(e.inc[Root(e, e.sig[s].owner)]))
      BY DEF Calm
    <2> QED
      BY <1>1, <2>1, <2>2, <2>3
  <1>4. Calm(d, f)
    <2>1. \A w \in Workers : worker[w].job \in Jobs =>
            f.job[worker[w].job].inc = d.job[worker[w].job].inc
      BY DEF Calm, Quiet
    <2> QED
      BY <1>1, <1>3, <2>1 DEF Calm
  <1>5. \A i \in Incidents : /\ Same(d, e, i) => Same(d, f, i)
                             /\ Shrinks(d, e, i) => Shrinks(d, f, i)
    BY <1>1, <1>2 DEF Same, Shrinks
  <1>6. \A i \in Incidents : Apart(d, e, i) => Apart(d, f, i)
    BY <1>1, <1>2 DEF Apart
  <1> QED
    BY <1>4, <1>5, <1>6 DEF Firm, Loose

-----------------------------------------------------------------------------
(* The transactions that take verdicts back, one lemma each.               *)

\* A quiet transaction that leaves every row for a new job free.
Eases(d, e) == Sane(e) /\ Quiet(d, e) /\ FreeJobs(d) \subseteq FreeJobs(e)

Spare == {"absent", "done", "dead"}

LEMMA EasesOn ==
    /\ \A d : Sane(d) => Eases(d, d)
    /\ \A d, e, f : Sane(d) /\ Eases(d, e) /\ Eases(e, f) => Eases(d, f)
  BY QuietOn DEF Eases

LEMMA FreesBy ==
    ASSUME NEW d, NEW e,
           \A k \in Incidents : e.inc[k].run \in {d.inc[k].run, None},
           \A j \in Jobs : /\ d.job[j].st \in Spare => e.job[j].st \in Spare
                           /\ e.job[j].open => d.job[j].open
    PROVE  FreeJobs(d) \subseteq FreeJobs(e)
  <1> SUFFICES ASSUME NEW j \in Jobs, j \in FreeJobs(d) PROVE j \in FreeJobs(e)
    BY DEF FreeJobs
  <1>1. e.job[j].st \in Spare /\ ~e.job[j].open
    BY DEF FreeJobs, Spare
  <1>2. \A k \in Incidents : e.inc[k].run # None => e.inc[k].run[1] # j
    <2>1. SUFFICES ASSUME NEW k \in Incidents, e.inc[k].run # None PROVE e.inc[k].run[1] # j
      OBVIOUS
    <2>2. e.inc[k].run = d.inc[k].run
      BY <2>1
    <2> QED
      BY <2>1, <2>2 DEF FreeJobs
  <1> QED
    BY <1>1, <1>2 DEF FreeJobs, Spare

LEMMA IncsEase ==
    ASSUME NEW d, Sane(d), NEW f \in [Incidents -> IncRows],
           \A k \in Incidents : Recedes(d.inc[k], f[k]) /\ f[k].run \in {d.inc[k].run, None}
    PROVE  LET e == [d EXCEPT !.inc = f]
           IN  Eases(d, e) /\ e.inc = f /\ e.job = d.job /\ e.app = d.app
  <1> DEFINE e == [d EXCEPT !.inc = f]
  <1>1. Leads(d, e) /\ e.inc = f /\ e.sig = d.sig /\ e.job = d.job /\ e.app = d.app
    BY IncSet
  <1> HIDE DEF e
  <1>2. Quiet(d, e)
    BY <1>1 DEF Quiet
  <1>3. FreeJobs(d) \subseteq FreeJobs(e)
    BY <1>1, FreesBy
  <1> QED
    BY <1>1, <1>2, <1>3 DEF Eases, Leads, e

LEMMA RecedesSelf == \A r \in IncRows : Recedes(r, r)
  BY DEF Recedes, IncRows

LEMMA IncEases ==
    ASSUME NEW d, Sane(d), NEW i \in Incidents, NEW r \in IncRows, Recedes(d.inc[i], r),
           r.run \in {d.inc[i].run, None}
    PROVE  LET e == [d EXCEPT !.inc[i] = r]
           IN  /\ Eases(d, e) /\ e.job = d.job /\ e.app = d.app
               /\ e.inc = [k \in Incidents |-> IF k = i THEN r ELSE d.inc[k]]
  <1> DEFINE e == [d EXCEPT !.inc[i] = r]
  <1>1. /\ Leads(d, e) /\ e.sig = d.sig /\ e.job = d.job /\ e.app = d.app
        /\ e.inc = [k \in Incidents |-> IF k = i THEN r ELSE d.inc[k]]
    BY IncRow
  <1> HIDE DEF e
  <1>2. Quiet(d, e)
    BY <1>1, Rows, RecedesSelf DEF Quiet
  <1>3. FreeJobs(d) \subseteq FreeJobs(e)
    BY <1>1, FreesBy
  <1> QED
    BY <1>1, <1>2, <1>3 DEF Eases, Leads, e

LEMMA JobsEase ==
    ASSUME NEW d, Sane(d), NEW f \in [Jobs -> JobRows],
           \A j \in Jobs : /\ f[j].inc = d.job[j].inc
                           /\ f[j].open => d.job[j].open
                           /\ d.job[j].st \in Spare => f[j].st = d.job[j].st
                           /\ d.job[j].st # "absent" => f[j].st # "absent"
    PROVE  LET e == [d EXCEPT !.job = f]
           IN  Eases(d, e) /\ e.inc = d.inc /\ e.job = f /\ e.app = d.app
  <1> DEFINE e == [d EXCEPT !.job = f]
  <1>1. \A j \in Jobs : f[j].st # "absent" => f[j].inc \in Incidents
    BY DEF Sane, Spare
  <1>2. Leads(d, e) /\ e.sig = d.sig /\ e.inc = d.inc /\ e.job = f /\ e.app = d.app
    BY <1>1, JobSet
  <1> HIDE DEF e
  <1>3. Quiet(d, e)
    BY <1>2, Rows, RecedesSelf DEF Quiet
  <1>4. FreeJobs(d) \subseteq FreeJobs(e)
    BY <1>2, FreesBy
  <1> QED
    BY <1>2, <1>3, <1>4 DEF Eases, Leads, e

\* A verdict that is taken back shows nothing, and moves no version.
LEMMA NoVerdictRecedes ==
    ASSUME NEW r \in IncRows, NEW q \in IncRows,
           q.rec \notin {"verifying", "monitoring", "verified"}, q.cause = r.cause, r.ver <= q.ver
    PROVE  Recedes(r, q)
  BY DEF Recedes, Shows

LEMMA ClearRecoveryEases ==
    ASSUME NEW d, Sane(d), NEW i \in Incidents
    PROVE  Eases(d, ClearRecovery(d, i)) /\ ~Shows(ClearRecovery(d, i).inc[i])
  <1> DEFINE row  == d.inc[i]
             back == row.gathering /\ row.run # None /\ d.job[row.run[1]].saved
             run  == IF row.gathering /\ ~back THEN row.run ELSE None
             r    == [NoVerdict(row) EXCEPT
                        !.gathering = row.gathering /\ ~back, !.basis = None, !.run = run]
             f    == [j \in Jobs |-> IF j \in Queued(d, i)
                                     THEN [d.job[j] EXCEPT !.st = "done"] ELSE d.job[j]]
             e    == [d EXCEPT !.inc[i] = r]
  <1>1. row \in IncRows
    BY Rows
  <1>2. run \in {row.run, None} /\ run \in Runs /\ (row.gathering /\ ~back) \in BOOLEAN
    BY <1>1 DEF IncRows, Runs
  <1>3. r \in IncRows /\ r.rec = None /\ r.cause = row.cause /\ r.ver = row.ver /\ r.run = run
    <2> HIDE DEF row, back, run
    <2> DEFINE calm == NoVerdict(row)
    <2>1. calm \in IncRows
      BY <1>1, RowOps
    <2>2. calm.rec = None /\ calm.cause = row.cause /\ calm.ver = row.ver
      BY <1>1, SMTT(40) DEF IncRows, NoVerdict
    <2> HIDE DEF calm
    <2>3. [calm EXCEPT !.gathering = row.gathering /\ ~back, !.basis = None, !.run = run] \in IncRows
      BY <1>2, <2>1, ZenonT(40) DEF IncRows
    <2>4. r = [calm EXCEPT !.gathering = row.gathering /\ ~back, !.basis = None, !.run = run]
      BY DEF calm
    <2> HIDE DEF r
    <2> QED
      BY <2>1, <2>2, <2>3, <2>4, SMTT(40) DEF IncRows
  <1>4. Recedes(row, r) /\ ~Shows(r)
    <2>1. r.ver \in Nat
      BY <1>3 DEF IncRows
    <2>2. ~Shows(r)
      BY <1>3, RecoveryAssumptions DEF Shows
    <2> HIDE DEF r, row
    <2> QED
      BY <1>3, <2>1, <2>2 DEF Recedes
  <1>5. ClearRecovery(d, i) = [e EXCEPT !.job = f]
    <2>1. ClearRecovery(d, i) = [d EXCEPT !.inc[i] = r, !.job = f]
      BY ZenonT(60), SMTT(60) DEF ClearRecovery
    <2> HIDE DEF r, f
    <2> QED
      BY <2>1
  <1> HIDE DEF r, row, run
  <1>6. Eases(d, e) /\ e.job = d.job /\ e.inc[i] = r
    <2>1. Recedes(d.inc[i], r) /\ r.run \in {d.inc[i].run, None} /\ r \in IncRows
      BY <1>2, <1>3, <1>4 DEF row
    <2>2. /\ Eases(d, e) /\ e.job = d.job
          /\ e.inc = [k \in Incidents |-> IF k = i THEN r ELSE d.inc[k]]
      BY <2>1, IncEases
    <2> QED
      BY <2>2
  <1> HIDE DEF e
  <1>7. \A j \in Jobs : d.job[j] \in JobRows
    BY Rows
  <1>8. f \in [Jobs -> JobRows]
    BY <1>7 DEF JobRows
  <1>9. \A j \in Jobs : /\ f[j].inc = e.job[j].inc
                        /\ f[j].open => e.job[j].open
                        /\ e.job[j].st \in Spare => f[j].st = e.job[j].st
                        /\ e.job[j].st # "absent" => f[j].st # "absent"
    BY <1>6, <1>7 DEF JobRows, Queued, Spare
  <1> HIDE DEF f
  <1>10. LET g == [e EXCEPT !.job = f] IN Eases(e, g) /\ g.inc = e.inc
    BY <1>6, <1>8, <1>9, JobsEase DEF Eases
  <1> QED
    BY <1>4, <1>5, <1>6, <1>10, EasesOn

LEMMA ClearGroupEases ==
    ASSUME NEW d, Sane(d), NEW i \in Incidents
    PROVE  Eases(d, ClearGroup(d, i)) /\ ~Shows(ClearGroup(d, i).inc[Root(d, i)])
  <1> DEFINE f == [k \in Incidents |-> IF k \in Group(d, i) THEN [d.inc[k] EXCEPT !.basis = None]
                                       ELSE d.inc[k]]
             e == [d EXCEPT !.inc = f]
  <1>1. \A k \in Incidents : d.inc[k] \in IncRows
    BY Rows
  <1>2. \A k \in Incidents : f[k] \in IncRows /\ Recedes(d.inc[k], f[k]) /\ f[k].run = d.inc[k].run
    <2> TAKE k \in Incidents
    <2> DEFINE r == d.inc[k]
               q == [r EXCEPT !.basis = None]
    <2>1. r \in IncRows
      BY <1>1
    <2>2. q \in IncRows /\ Recedes(r, q) /\ q.run = r.run
      <3> HIDE DEF r
      <3> QED
        BY <2>1 DEF IncRows, Recedes, Shows
    <2> QED
      BY <2>1, <2>2, RecedesSelf
  <1>3. f \in [Incidents -> IncRows]
    BY <1>2
  <1>4. ClearGroup(d, i) = ClearRecovery(e, Root(d, i))
    BY DEF ClearGroup
  <1> HIDE DEF f
  <1>5. Eases(d, e)
    BY <1>2, <1>3, IncsEase
  <1> HIDE DEF e
  <1>6. Sane(e) /\ Root(d, i) \in Incidents
    BY <1>5, RootIn DEF Eases
  <1>7. Eases(e, ClearRecovery(e, Root(d, i))) /\ ~Shows(ClearRecovery(e, Root(d, i)).inc[Root(d, i)])
    BY <1>6, ClearRecoveryEases
  <1> QED
    BY <1>4, <1>5, <1>7, EasesOn

LEMMA RestoreEases ==
    ASSUME NEW d, Sane(d), NEW i \in Incidents, NEW saved, NEW run
    PROVE  Eases(d, Restore(d, i, saved, run))
  <1> DEFINE r == [NoVerdict(d.inc[i]) EXCEPT !.gathering = FALSE]
  <1>1. d.inc[i] \in IncRows
    BY Rows
  <1>2. /\ r \in IncRows /\ r.rec = None /\ r.run = None /\ r.cause = d.inc[i].cause
        /\ r.ver = d.inc[i].ver
    BY <1>1, Counts DEF IncRows, NoVerdict, Runs
  <1>3. Recedes(d.inc[i], r)
    <2>1. r.ver <= r.ver
      BY <1>2 DEF IncRows
    <2> QED
      BY <1>2, <2>1, RecoveryAssumptions DEF Recedes, Shows
  <1>4. Restore(d, i, saved, run)
          = IF saved /\ d.inc[i].gathering /\ d.inc[i].run = run THEN [d EXCEPT !.inc[i] = r] ELSE d
    BY DEF Restore
  <1> HIDE DEF r
  <1>5. Eases(d, [d EXCEPT !.inc[i] = r])
    BY <1>2, <1>3, IncEases
  <1> QED
    BY <1>4, <1>5, EasesOn

\* One row of the job table, about the same incident and no freer than before.
LEMMA JobEases ==
    ASSUME NEW d, Sane(d), NEW j \in Jobs, NEW r \in JobRows, r.inc = d.job[j].inc,
           r.open => d.job[j].open, r.st = d.job[j].st
    PROVE  LET e == [d EXCEPT !.job[j] = r]
           IN  Eases(d, e) /\ e.inc = d.inc /\ e.app = d.app
  <1> DEFINE f == [k \in Jobs |-> IF k = j THEN r ELSE d.job[k]]
             e == [d EXCEPT !.job[j] = r]
  <1>1. \A k \in Jobs : d.job[k] \in JobRows
    BY Rows
  <1>2. f \in [Jobs -> JobRows]
    BY <1>1
  <1>3. e = [d EXCEPT !.job = f]
    BY DEF Sane, Tables
  <1>4. \A k \in Jobs : /\ f[k].inc = d.job[k].inc
                        /\ f[k].open => d.job[k].open
                        /\ d.job[k].st \in Spare => f[k].st = d.job[k].st
                        /\ d.job[k].st # "absent" => f[k].st # "absent"
    BY <1>1
  <1> HIDE DEF f
  <1>5. LET g == [d EXCEPT !.job = f] IN Eases(d, g) /\ g.inc = d.inc /\ g.app = d.app
    BY <1>2, <1>4, JobsEase
  <1> QED
    BY <1>3, <1>5

LEMMA CompleteEases ==
    ASSUME NEW d, Sane(d), NEW run \in Jobs \X Nat
    PROVE  /\ Eases(d, Complete(d, run))
           /\ Complete(d, run).inc = d.inc /\ Complete(d, run).app = d.app
  <1> DEFINE j == run[1]
             r == [d.job[j] EXCEPT !.open = FALSE]
  <1>1. j \in Jobs /\ d.job[j] \in JobRows
    BY Rows
  <1>2. r \in JobRows /\ ~r.open /\ r.st = d.job[j].st /\ r.inc = d.job[j].inc
    BY <1>1 DEF JobRows
  <1>3. Complete(d, run) = IF RunOpen(d, run) THEN [d EXCEPT !.job[j] = r] ELSE d
    BY DEF Complete
  <1> HIDE DEF r, j
  <1>4. LET e == [d EXCEPT !.job[j] = r] IN Eases(d, e) /\ e.inc = d.inc /\ e.app = d.app
    BY <1>1, <1>2, JobEases
  <1> QED
    BY <1>3, <1>4, EasesOn

LEMMA BumpedRow ==
    ASSUME NEW r \in IncRows
    PROVE  /\ Bumped(r) \in IncRows /\ Recedes(r, Bumped(r)) /\ r.ver < Bumped(r).ver
           /\ Bumped(r).run = r.run /\ Bumped(r).cause = r.cause /\ Bumped(r).rec = r.rec
           /\ Bumped(r).merged = r.merged
  <1> DEFINE b == Bumped(r)
  <1>1. b \in IncRows
    BY RowOps
  <1>2. /\ b.ver = r.ver + 1 /\ b.run = r.run /\ b.cause = r.cause /\ b.rec = r.rec
        /\ b.status = r.status /\ b.merged = r.merged /\ b.was = r.was
    BY DEF Bumped, IncRows
  <1>3. r.ver < b.ver /\ r.ver <= b.ver
    BY <1>2 DEF IncRows
  <1>4. Shows(b) => Shows(r)
    BY <1>2 DEF Shows
  <1> HIDE DEF b
  <1> QED
    BY <1>1, <1>2, <1>3, <1>4 DEF Recedes, b

\* The members of the groups that are joined or parted: none shows a recovery,
\* and versions move unless no signal is routed to them.
LEMMA RefenceEases ==
    ASSUME NEW d, Sane(d), NEW members, members \subseteq Incidents
    PROVE  LET e == Refence(d, members)
           IN  /\ Eases(d, e)
               /\ \A k \in members :
                    /\ ~Shows(e.inc[k])
                    /\ \/ d.inc[k].ver < e.inc[k].ver
                       \/ \A s \in Signals : d.sig[s].state # "absent" => d.sig[s].owner \notin members
  <1> DEFINE signalled == \E s \in Signals : d.sig[s].state # "absent" /\ d.sig[s].owner \in members
             hit == { k \in members : signalled \/ d.inc[k].rec # None \/ d.inc[k].basis # None }
             back(row) == row.gathering /\ row.run # None /\ d.job[row.run[1]].saved
             run(k) == IF d.inc[k].gathering /\ ~back(d.inc[k]) THEN d.inc[k].run ELSE None
             r(k) == [Bumped(NoVerdict(d.inc[k])) EXCEPT
                        !.gathering = @ /\ ~back(d.inc[k]), !.basis = None, !.run = run(k)]
             f == [k \in Incidents |-> IF k \notin hit THEN d.inc[k] ELSE r(k)]
             h == [j \in Jobs |-> IF d.job[j].inc \in hit /\ d.job[j].st = "queued"
                                  THEN [d.job[j] EXCEPT !.st = "done"] ELSE d.job[j]]
             c == [d EXCEPT !.inc = f]
             e == [c EXCEPT !.job = h]
  <1>1. Refence(d, members) = e
    BY DEF Refence
  <1>2. ASSUME NEW k \in Incidents
        PROVE  /\ r(k) \in IncRows /\ Recedes(d.inc[k], r(k)) /\ ~Shows(r(k))
               /\ r(k).run \in {d.inc[k].run, None} /\ d.inc[k].ver < r(k).ver
    <2> DEFINE n == NoVerdict(d.inc[k])
               b == Bumped(n)
               q == [b EXCEPT !.gathering = @ /\ ~back(d.inc[k]), !.basis = None, !.run = run(k)]
    <2>1. d.inc[k] \in IncRows
      BY Rows
    <2>2. n \in IncRows /\ n.rec = None /\ n.cause = d.inc[k].cause /\ n.ver = d.inc[k].ver
      BY <2>1, Counts DEF IncRows, NoVerdict, Runs
    <2>3. run(k) \in Runs /\ run(k) \in {d.inc[k].run, None}
      BY <2>1 DEF IncRows, Runs
    <2> HIDE DEF n
    <2>4. b \in IncRows /\ b.rec = None /\ b.cause = d.inc[k].cause /\ d.inc[k].ver < b.ver
      BY <2>2, BumpedRow
    <2>5. (b.gathering /\ ~back(d.inc[k])) \in BOOLEAN
      OBVIOUS
    <2>6. r(k) = q
      BY DEF b, n
    <2> HIDE DEF b, back, run, r
    <2>7. /\ q \in IncRows /\ q.rec = None /\ q.cause = d.inc[k].cause /\ d.inc[k].ver < q.ver
          /\ q.run = run(k)
      BY <2>3, <2>4, <2>5, ZenonT(40) DEF IncRows
    <2> HIDE DEF q
    <2>8. d.inc[k].ver <= q.ver
      BY <2>1, <2>7 DEF IncRows
    <2>9. ~Shows(q)
      BY <2>7, RecoveryAssumptions DEF Shows
    <2> QED
      BY <2>3, <2>6, <2>7, <2>8, <2>9 DEF Recedes
  <1>3. \A k \in Incidents : d.inc[k] \in IncRows /\ Recedes(d.inc[k], d.inc[k])
    BY Rows, RecedesSelf
  <1> HIDE DEF r
  <1>4. /\ f \in [Incidents -> IncRows]
        /\ \A k \in Incidents : Recedes(d.inc[k], f[k]) /\ f[k].run \in {d.inc[k].run, None}
    BY <1>2, <1>3
  <1>5. \A k \in members : /\ k \in Incidents /\ ~Shows(f[k])
                           /\ signalled => d.inc[k].ver < f[k].ver
    <2>1. \A k \in members : k \notin hit => ~signalled /\ d.inc[k].rec = None
      OBVIOUS
    <2>2. \A k \in members : k \notin hit => ~Shows(d.inc[k])
      BY <2>1, RecoveryAssumptions DEF Shows
    <2> HIDE DEF hit, signalled
    <2> QED
      BY <1>2, <2>1, <2>2
  <1> HIDE DEF f, hit
  <1>6. Eases(d, c) /\ c.inc = f /\ c.job = d.job
    BY <1>4, IncsEase
  <1> HIDE DEF c
  <1>7. \A j \in Jobs : d.job[j] \in JobRows
    BY Rows
  <1>8. h \in [Jobs -> JobRows]
    BY <1>7 DEF JobRows
  <1>9. \A j \in Jobs : /\ h[j].inc = c.job[j].inc
                        /\ h[j].open => c.job[j].open
                        /\ c.job[j].st \in Spare => h[j].st = c.job[j].st
                        /\ c.job[j].st # "absent" => h[j].st # "absent"
    BY <1>6, <1>7 DEF JobRows, Spare
  <1> HIDE DEF h
  <1>10. Eases(c, e) /\ e.inc = c.inc
    BY <1>6, <1>8, <1>9, JobsEase DEF Eases
  <1> HIDE DEF e
  <1>11. Eases(d, e)
    BY <1>6, <1>10, EasesOn
  <1>12. ~signalled => \A s \in Signals : d.sig[s].state # "absent" => d.sig[s].owner \notin members
    OBVIOUS
  <1> HIDE DEF signalled
  <1> QED
    BY <1>1, <1>5, <1>6, <1>10, <1>11, <1>12

\* A lifecycle move resolves for the operator at most, and whoever reopens an
\* incident takes its verdict away.
LEMMA TransitionEases ==
    ASSUME NEW d, Sane(d), NEW i \in Incidents, NEW to \in Statuses
    PROVE  Eases(d, Transition(d, i, to)) /\ Plain(d, Transition(d, i, to))
  <1> DEFINE row   == d.inc[i]
             moved == [row EXCEPT !.status = to, !.ver = @ + 1,
                         !.since = IF to \in Active THEN @ ELSE row.ver + 1,
                         !.basis = CASE to \in Active -> None
                                     [] to = "resolved" -> "operator"
                                     [] OTHER -> @]
             d1 == [d EXCEPT !.inc[i] = moved]
             d2 == ClearGroup(d1, i)
             d3 == ClearRecovery(d2, i)
             d4 == [d3 EXCEPT !.inc[Root(d, i)] = Bumped(@)]
  <1>1. Transition(d, i, to)
          = IF ~CanMove(d, i, to) THEN d
            ELSE IF row.status \in Active \/ to # "open" THEN d1
            ELSE IF Root(d, i) = i THEN d2 ELSE d4
    BY DEF Transition
  <1>2. row \in IncRows /\ row.ver + 1 \in Nat
    BY Rows DEF IncRows
  <1>3. /\ moved \in IncRows /\ moved.status = to /\ moved.cause = row.cause
        /\ moved.merged = row.merged /\ moved.rec = row.rec /\ moved.run = row.run
        /\ moved.ver = row.ver + 1 /\ (to = "resolved" => moved.basis = "operator")
    <2> DEFINE since == IF to \in Active THEN row.since ELSE row.ver + 1
               basis == CASE to \in Active -> None
                          [] to = "resolved" -> "operator"
                          [] OTHER -> row.basis
    <2>1. since \in Nat
      BY <1>2 DEF IncRows
    <2>2. basis \in {None, "operator", row.basis} /\ (to = "resolved" => basis = "operator")
      BY DEF Active
    <2>3. basis \in {None, "operator", "verified_recovery", "provider_clear"}
      BY <1>2, <2>2 DEF IncRows
    <2>4. moved = [row EXCEPT !.status = to, !.ver = row.ver + 1, !.since = since, !.basis = basis]
      BY <1>2 DEF IncRows
    <2> HIDE DEF since, basis, row, moved
    <2> QED
      BY <1>2, <2>1, <2>2, <2>3, <2>4 DEF IncRows
  <1> HIDE DEF moved
  <1>4. /\ Leads(d, d1) /\ d1.sig = d.sig /\ d1.job = d.job
        /\ d1.inc = [k \in Incidents |-> IF k = i THEN moved ELSE d.inc[k]]
    BY <1>3, IncRow
  <1> HIDE DEF d1
  <1>5. Sane(d1) /\ FreeJobs(d) \subseteq FreeJobs(d1)
    BY <1>3, <1>4, FreesBy DEF Leads
  <1>6. ASSUME NEW e, Mild(d1, e) PROVE Plain(d, e)
    <2> SUFFICES ASSUME NEW k \in Incidents, e.inc[k].status = "resolved",
                        e.inc[k].basis = "verified_recovery"
                 PROVE  d.inc[k].status = "resolved" /\ d.inc[k].basis = "verified_recovery"
      BY DEF Plain
    <2>1. d1.inc[k].status = "resolved" /\ d1.inc[k].basis = "verified_recovery"
      BY <1>6, RecoveryAssumptions DEF Mild, Fades, Alike
    <2> QED
      BY <1>3, <1>4, <2>1
  \* Every row but that of i is as before.
  <1>7. ASSUME NEW e, Eases(d1, e), Shows(e.inc[i]) => row.status \in Active
        PROVE  Eases(d, e)
    <2>1. ASSUME NEW k \in Incidents, k # i PROVE Recedes(d.inc[k], e.inc[k])
      BY <1>4, <1>7, <2>1 DEF Eases, Quiet
    <2>2. Recedes(d.inc[i], e.inc[i])
      <3>1. Recedes(moved, e.inc[i]) /\ e.inc[i] \in IncRows
        BY <1>4, <1>7, Rows DEF Eases, Quiet
      <3>2. row.ver <= e.inc[i].ver
        BY <1>2, <1>3, <3>1 DEF Recedes, IncRows
      <3>3. row.status \in Active /\ Shows(moved) => Shows(row)
        BY <1>3 DEF Shows
      <3> QED
        BY <1>3, <1>7, <3>1, <3>2, <3>3 DEF Recedes
    <2>3. Quiet(d, e)
      BY <1>4, <1>7, <2>1, <2>2 DEF Eases, Quiet
    <2> QED
      BY <1>5, <1>7, <2>3 DEF Eases
  <1>8. Eases(d1, d1) /\ Mild(d1, d1)
    BY <1>5, EasesOn, MildOn
  <1>9. CASE ~CanMove(d, i, to)
    BY <1>1, <1>9, EasesOn DEF Plain
  <1>10. CASE CanMove(d, i, to) /\ (row.status \in Active \/ to # "open")
    <2>1. to = "mitigated" => row.status = "open"
      BY <1>2, <1>10 DEF CanMove, AllowedTransitions, IncRows, Statuses, Active, Closed
    <2>2. Shows(moved) => row.status \in Active
      <3>1. moved.merged = None
        BY <1>3, <1>10 DEF CanMove
      <3> QED
        BY <1>3, <1>10, <2>1, <3>1 DEF Shows, Active
    <2>3. d1.inc[i] = moved
      BY <1>4
    <2>4. Eases(d, d1) /\ Plain(d, d1)
      BY <1>6, <1>7, <1>8, <2>2, <2>3
    <2> QED
      BY <1>1, <1>10, <2>4
  <1>11. Eases(d1, d2) /\ ~Shows(d2.inc[Root(d1, i)]) /\ Mild(d1, d2)
    BY <1>5, ClearGroupEases, ClearGroupMild
  <1> HIDE DEF d2
  <1>12. Root(d1, i) = Root(d, i)
    BY <1>3, <1>4, RootsSame, ZenonT(40)
  <1>13. Eases(d2, d3) /\ ~Shows(d3.inc[i]) /\ Mild(d2, d3)
    BY <1>11, ClearRecoveryEases, ClearRecoveryMild DEF Eases
  <1> HIDE DEF d3
  <1>14. Eases(d3, d4) /\ ~Shows(d4.inc[i]) /\ Mild(d3, d4)
    <2> DEFINE b == Bumped(d3.inc[Root(d, i)])
    <2>1. Sane(d3) /\ Root(d, i) \in Incidents
      BY <1>13, RootIn DEF Eases
    <2>2. b \in IncRows /\ Recedes(d3.inc[Root(d, i)], b) /\ b.run = d3.inc[Root(d, i)].run
          /\ Alike(d3.inc[Root(d, i)], b)
      BY <2>1, Rows, BumpedRow, RowOps
    <2>3. d4 = [d3 EXCEPT !.inc[Root(d, i)] = b]
      BY <2>1 DEF Sane, Tables
    <2> HIDE DEF b, d4
    <2>4. Eases(d3, d4) /\ Mild(d3, d4)
      BY <2>1, <2>2, <2>3, IncEases, IncMild
    <2> QED
      BY <1>13, <2>4 DEF Eases, Quiet, Recedes
  <1> HIDE DEF d4
  <1>15. CASE CanMove(d, i, to) /\ row.status \notin Active /\ to = "open"
    <2>1. Root(d, i) = i => Eases(d, d2) /\ Plain(d, d2)
      BY <1>6, <1>7, <1>11, <1>12
    <2>2. Eases(d1, d4) /\ Mild(d1, d4)
      BY <1>5, <1>11, <1>13, <1>14, EasesOn, MildOn DEF Eases
    <2>3. Eases(d, d4) /\ Plain(d, d4)
      BY <1>6, <1>7, <1>14, <2>2
    <2> QED
      BY <1>1, <1>15, <2>1, <2>3
  <1> QED
    BY <1>9, <1>10, <1>15

\* A group that resolves shows no recovery any more; its verdict is kept.
LEMMA ResolveGroupEases ==
    ASSUME NEW d, Sane(d), NEW root \in Incidents,
           NEW basis \in {"verified_recovery", "provider_clear"}
    PROVE  LET e == ResolveGroup(d, root, basis)
           IN  /\ Eases(d, e) /\ e.app = d.app
               /\ basis = "verified_recovery" => \A k \in Incidents : e.inc[k].rec = d.inc[k].rec
               /\ \A k \in Incidents \ Group(d, root) : e.inc[k] = d.inc[k]
               /\ basis = "provider_clear" => Plain(d, e)
  <1> DEFINE hit  == { k \in Group(d, root) : k = root \/ d.inc[k].status \in Active }
             won  == { k \in hit : CanMove(d, k, "resolved") }
             r(k) == [Bumped(d.inc[k]) EXCEPT !.status = "resolved", !.basis = basis,
                        !.rec = IF basis = "provider_clear" THEN None ELSE @]
             f    == [k \in Incidents |-> IF k \notin won THEN d.inc[k] ELSE r(k)]
             e    == [d EXCEPT !.inc = f]
  <1>1. ResolveGroup(d, root, basis) = IF ~CanMove(d, root, "resolved") THEN d ELSE e
    BY DEF ResolveGroup
  <1>2. ASSUME NEW k \in won
        PROVE  /\ k \in Incidents /\ k \in Group(d, root)
               /\ r(k) \in IncRows /\ Recedes(d.inc[k], r(k)) /\ r(k).run = d.inc[k].run
               /\ r(k).basis = basis
               /\ basis = "verified_recovery" => r(k).rec = d.inc[k].rec
    <2> DEFINE b   == Bumped(d.inc[k])
               rec == IF basis = "provider_clear" THEN None ELSE b.rec
               q   == [b EXCEPT !.status = "resolved", !.basis = basis, !.rec = rec]
    <2>1. k \in Incidents /\ k \in Group(d, root) /\ d.inc[k].merged = None
      BY GroupIn DEF CanMove
    <2>2. d.inc[k] \in IncRows
      BY <2>1, Rows
    <2>3. /\ b \in IncRows /\ d.inc[k].ver < b.ver /\ b.run = d.inc[k].run
          /\ b.cause = d.inc[k].cause /\ b.rec = d.inc[k].rec /\ b.merged = None
      BY <2>1, <2>2, BumpedRow
    <2>4. r(k) = q
      BY DEF b
    <2>5. rec \in {None, "verifying", "monitoring", "verified", "not_verified"}
      BY <2>3 DEF IncRows
    <2> HIDE DEF b, rec, r
    <2>6. /\ q \in IncRows /\ q.status = "resolved" /\ q.merged = None /\ q.cause = b.cause
          /\ q.ver = b.ver /\ q.run = b.run /\ q.rec = rec /\ q.basis = basis
      BY <2>3, <2>5, ZenonT(40) DEF IncRows, Statuses, Closed
    <2> HIDE DEF q
    <2>7. d.inc[k].ver <= q.ver
      BY <2>2, <2>3, <2>6 DEF IncRows
    <2>8. ~Shows(q)
      BY <2>6 DEF Shows, Active
    <2>9. basis = "verified_recovery" => rec = d.inc[k].rec
      BY <2>3 DEF rec
    <2> QED
      BY <2>1, <2>3, <2>4, <2>6, <2>7, <2>8, <2>9 DEF Recedes
  <1>3. \A k \in Incidents : d.inc[k] \in IncRows /\ Recedes(d.inc[k], d.inc[k])
    BY Rows, RecedesSelf
  <1> HIDE DEF r, won
  <1>4. /\ f \in [Incidents -> IncRows]
        /\ \A k \in Incidents : /\ Recedes(d.inc[k], f[k]) /\ f[k].run \in {d.inc[k].run, None}
                                /\ basis = "verified_recovery" => f[k].rec = d.inc[k].rec
                                /\ k \notin Group(d, root) => f[k] = d.inc[k]
                                /\ f[k] = d.inc[k] \/ f[k].basis = basis
    BY <1>2, <1>3
  <1> HIDE DEF f
  <1>5. Eases(d, e) /\ e.inc = f /\ e.app = d.app
    BY <1>4, IncsEase
  <1> HIDE DEF e
  <1>6. basis = "provider_clear" => Plain(d, e)
    BY <1>4, <1>5 DEF Plain
  <1>7. Eases(d, d) /\ Plain(d, d)
    BY EasesOn DEF Plain
  <1> HIDE DEF hit
  <1> QED
    BY <1>1, <1>4, <1>5, <1>6, <1>7

LEMMA ProviderClearEases ==
    ASSUME NEW d, Sane(d), NEW i \in Incidents
    PROVE  Eases(d, ProviderClear(d, i)) /\ Plain(d, ProviderClear(d, i))
  <1> DEFINE r == [d.inc[i] EXCEPT !.rec = "not_verified", !.basis = None]
             e == [d EXCEPT !.inc[i] = r]
  <1>1. d.inc[i] \in IncRows /\ d.inc \in [Incidents -> IncRows] /\ d \in Tables
    BY Rows DEF Sane, Tables
  <1>2. /\ r \in IncRows /\ r.rec = "not_verified" /\ r.cause = d.inc[i].cause
        /\ r.ver = d.inc[i].ver /\ r.run = d.inc[i].run /\ r.basis = None
    BY <1>1 DEF IncRows
  <1>3. [d EXCEPT !.inc[i].rec = "not_verified", !.inc[i].basis = None] = e
    BY <1>1 DEF Tables, IncRows
  <1> HIDE DEF r
  <1>4. Recedes(d.inc[i], r)
    BY <1>1, <1>2 DEF Recedes, Shows, IncRows
  <1>5. Eases(d, e) /\ e.inc = [k \in Incidents |-> IF k = i THEN r ELSE d.inc[k]]
    BY <1>2, <1>4, IncEases
  <1> HIDE DEF e
  <1>6. Plain(d, e)
    BY <1>2, <1>5, RecoveryAssumptions DEF Plain
  <1>7. Eases(d, d) /\ Plain(d, d)
    BY EasesOn DEF Plain
  <1>8. ProviderClear(d, i)
          = IF Moot(d, i) \/ ~ProviderHandles(d, i) \/ Uncleared(d, i) THEN d
            ELSE IF PendingApproval(d, i) \/ ~Proven(d, i) THEN e
            ELSE ResolveGroup(d, i, "provider_clear")
    BY <1>3 DEF ProviderClear
  <1>9. Eases(d, ResolveGroup(d, i, "provider_clear")) /\ Plain(d, ResolveGroup(d, i, "provider_clear"))
    BY ResolveGroupEases
  <1> QED
    BY <1>5, <1>6, <1>7, <1>8, <1>9

LEMMA AfterApprovalEases ==
    ASSUME NEW d, Sane(d), NEW i \in Incidents
    PROVE  Eases(d, AfterApproval(d, i))
  <1> DEFINE root == Root(d, i)
  <1>1. root \in Incidents
    BY RootIn
  <1>2. AfterApproval(d, i)
          = IF ProviderHandles(d, root) THEN ProviderClear(d, root)
            ELSE IF d.inc[root].rec = "verified" /\ ~PendingApproval(d, root) /\ AllResolved(d, root)
            THEN ResolveGroup(d, root, "verified_recovery") ELSE d
    BY DEF AfterApproval
  <1> HIDE DEF root
  <1>3. Eases(d, ProviderClear(d, root)) /\ Eases(d, ResolveGroup(d, root, "verified_recovery"))
    BY <1>1, ProviderClearEases, ResolveGroupEases
  <1> QED
    BY <1>2, <1>3, EasesOn

-----------------------------------------------------------------------------
(* The transactions that queue a check.                                    *)

\* One free row is taken, at most.
Takes(d, e) ==
    /\ Sane(e) /\ e.sig = d.sig /\ e.inc = d.inc /\ e.app = d.app
    /\ \E x \in FreeJobs(d) :
         /\ \A j \in Jobs \ {x} : e.job[j].inc = d.job[j].inc
         /\ FreeJobs(d) \ {x} \subseteq FreeJobs(e)

LEMMA TakesQuiet ==
    ASSUME NEW d, NEW e, Sane(d), Takes(d, e)
    PROVE  Quiet(d, e)
  <1>1. \A w \in Workers : worker[w].job \notin FreeJobs(d)
    BY DEF FreeJobs
  <1> QED
    BY <1>1, Rows, RecedesSelf DEF Takes, Quiet

LEMMA InsertTakes ==
    ASSUME NEW d, Sane(d), NEW i \in Incidents, NEW ver \in Nat, NEW fence \in Fences,
           NEW att \in 0..MaxChecks, NEW later \in BOOLEAN, FreeJobs(d) # {}
    PROVE  Takes(d, InsertRecovery(d, i, ver, fence, att, later))
  <1> DEFINE row   == d.inc[i]
             saved == ~row.gathering \/ \E j \in Unsettled(d, i) : d.job[j].saved
             given == IF att # 0 THEN att ELSE IF row.rec = "verifying" THEN row.att ELSE 0
             new   == CHOOSE j \in FreeJobs(d) : TRUE
             f     == [j \in Jobs |->
                         IF j \in Queued(d, i)
                         THEN [d.job[j] EXCEPT !.ver = ver, !.fence = fence, !.later = later,
                                     !.att = IF given # 0 THEN given ELSE @,
                                     !.saved = @ \/ saved]
                         ELSE d.job[j]]
             r     == [NoJob EXCEPT !.st = "queued", !.inc = i, !.ver = ver, !.fence = fence,
                             !.att = given, !.later = later, !.saved = saved]
  <1>1. row \in IncRows /\ \A j \in Jobs : d.job[j] \in JobRows
    BY Rows
  <1>2. given \in 0..MaxChecks /\ saved \in BOOLEAN
    BY <1>1, Counts DEF IncRows
  <1>3. InsertRecovery(d, i, ver, fence, att, later)
          = IF Refused(row) THEN d
            ELSE IF Queued(d, i) # {} THEN [d EXCEPT !.job = f] ELSE [d EXCEPT !.job[new] = r]
    BY DEF InsertRecovery
  <1> HIDE DEF given, saved, row
  <1>4. new \in FreeJobs(d) /\ new \in Jobs
    BY DEF FreeJobs
  <1>5. Takes(d, d)
    BY DEF Takes
  <1>6. Takes(d, [d EXCEPT !.job = f])
    <2>1. \A j \in Jobs : (IF given # 0 THEN given ELSE d.job[j].att) \in 0..MaxChecks
                          /\ (d.job[j].saved \/ saved) \in BOOLEAN
      BY <1>1, <1>2 DEF JobRows
    <2>2. \A j \in Jobs : /\ f[j] \in JobRows /\ f[j].inc = d.job[j].inc
                          /\ f[j].open = d.job[j].open /\ f[j].st = d.job[j].st
      <3>1. \A j \in Jobs \ Queued(d, i) : f[j] = d.job[j]
        OBVIOUS
      <3>2. \A j \in Queued(d, i) :
              /\ j \in Jobs
              /\ f[j] = [d.job[j] EXCEPT !.ver = ver, !.fence = fence, !.later = later,
                           !.att = IF given # 0 THEN given ELSE d.job[j].att,
                           !.saved = d.job[j].saved \/ saved]
        BY <1>1 DEF Queued, JobRows
      <3> HIDE DEF f
      <3>3. ASSUME NEW j \in Queued(d, i)
            PROVE  /\ f[j] \in JobRows /\ f[j].inc = d.job[j].inc
                   /\ f[j].open = d.job[j].open /\ f[j].st = d.job[j].st
        <4> DEFINE a == IF given # 0 THEN given ELSE d.job[j].att
                   b == d.job[j].saved \/ saved
        <4>1. a \in 0..MaxChecks /\ b \in BOOLEAN /\ j \in Jobs
          BY <2>1, <3>2
        <4>2. f[j] = [d.job[j] EXCEPT !.ver = ver, !.fence = fence, !.later = later,
                                      !.att = a, !.saved = b]
          BY <3>2
        <4> HIDE DEF a, b
        <4> QED
          BY <1>1, <4>1, <4>2 DEF JobRows
      <3> QED
        BY <1>1, <3>1, <3>3
    <2>3. f \in [Jobs -> JobRows]
      BY <2>2
    <2> HIDE DEF f
    <2> DEFINE e == [d EXCEPT !.job = f]
    <2>4. Leads(d, e) /\ e.sig = d.sig /\ e.inc = d.inc /\ e.job = f /\ e.app = d.app
      BY <2>2, <2>3, JobSet DEF Sane
    <2> HIDE DEF e
    <2>5. FreeJobs(d) \subseteq FreeJobs(e)
      BY <2>2, <2>4, FreesBy
    <2> QED
      BY <1>4, <2>2, <2>4, <2>5 DEF Takes, Leads, e
  <1>7. Takes(d, [d EXCEPT !.job[new] = r])
    <2>1. r \in JobRows /\ r.st = "queued" /\ r.inc = i /\ ~r.open
      BY <1>2, Counts DEF JobRows, NoJob, Fences
    <2> HIDE DEF r, new
    <2> DEFINE e == [d EXCEPT !.job[new] = r]
    <2>2. /\ Leads(d, e) /\ e.sig = d.sig /\ e.inc = d.inc /\ e.app = d.app
          /\ e.job = [k \in Jobs |-> IF k = new THEN r ELSE d.job[k]]
      BY <1>4, <2>1, JobRow
    <2> HIDE DEF e
    <2>3. FreeJobs(d) \ {new} \subseteq FreeJobs(e)
      BY <2>2 DEF FreeJobs
    <2> QED
      BY <1>4, <2>2, <2>3 DEF Takes, Leads, e
  <1> QED
    BY <1>3, <1>5, <1>6, <1>7

LEMMA StartTakes ==
    ASSUME NEW d, Sane(d), NEW i \in Incidents, FreeJobs(d) # {}
    PROVE  Takes(d, StartRecovery(d, i))
  <1>1. Root(d, i) \in Incidents
    BY RootIn
  <1>2. d.inc[Root(d, i)].ver \in Nat
    BY <1>1, Rows DEF IncRows
  <1>3. SignalFence(d, i) \in Fences
    BY FenceIn
  <1>4. Takes(d, InsertRecovery(d, Root(d, i), d.inc[Root(d, i)].ver, SignalFence(d, i), 0, FALSE))
    BY <1>1, <1>2, <1>3, Counts, InsertTakes
  <1>5. Takes(d, d)
    BY DEF Takes
  <1> QED
    BY <1>4, <1>5 DEF StartRecovery

-----------------------------------------------------------------------------
(* The outside world: what every action but an archive and an approval     *)
(* does is Calmly.                                                         *)

LEMMA MildPlain == \A d, e : Mild(d, e) => Plain(d, e)
  BY RecoveryAssumptions DEF Mild, Fades, Alike, Plain

LEMMA QuietCalmly ==
    ASSUME NEW d, NEW e, Sane(d), Sane(e), Quiet(d, e), Plain(d, e)
    PROVE  Calmly(d, e)
  BY QuietCalm DEF Calmly

LEMMA CalmlyOn ==
    ASSUME NEW d, NEW e, NEW f, Sane(d), Calmly(d, e), Sane(f), Quiet(e, f), Plain(e, f)
    PROVE  Calmly(d, f)
  <1>1. Plain(d, f)
    BY DEF Calmly, Plain
  <1> QED
    BY <1>1, CalmQuiet DEF Calmly

\* Composition with the operators: they are mild and ease, or take a row.
LEMMA CalmlyEases ==
    ASSUME NEW d, NEW e, NEW f, Sane(d), Calmly(d, e), Eases(e, f), Mild(e, f)
    PROVE  Calmly(d, f)
  BY CalmlyOn, MildPlain DEF Eases

LEMMA TakesPlain == \A d, e : Takes(d, e) => Sane(e) /\ Plain(d, e)
  BY DEF Takes, Plain

LEMMA CalmlyTakes ==
    ASSUME NEW d, NEW e, NEW f, Sane(d), Calmly(d, e), Takes(e, f)
    PROVE  Calmly(d, f)
  <1>1. Sane(e)
    BY DEF Calmly
  <1> QED
    BY <1>1, CalmlyOn, TakesPlain, TakesQuiet

LEMMA CalmlyStarts ==
    ASSUME NEW d, NEW e, NEW i \in Incidents, Sane(d), Calmly(d, e), FreeJobs(e) # {}
    PROVE  Calmly(d, StartRecovery(e, i))
  BY StartTakes, CalmlyTakes DEF Calmly

LEMMA WithSignalAges ==
    ASSUME NEW d, Sane(d), NEW s \in Signals, NEW state \in {"active", "resolved"},
           NEW prov \in {None, "provider", "outdated", "operator", "report"},
           d.sig[s].state = "absent" => state = "active"
    PROVE  LET e == WithSignal(d, s, state, prov)
           IN  /\ Signalled(d, e)
               /\ \A t \in Signals : /\ Ages(d.sig[t], e.sig[t])
                                     /\ e.sig[t].state = IF t = s THEN state ELSE d.sig[t].state
  <1> DEFINE e == WithSignal(d, s, state, prov)
  <1>0. state \in {"absent", "active", "resolved"}
    OBVIOUS
  <1>1. /\ Signalled(d, e)
        /\ \A t \in Signals : e.sig[t].owner = d.sig[t].owner
        /\ \A t \in Signals : e.sig[t].state = IF t = s THEN state ELSE d.sig[t].state
    BY <1>0, WithSignalOK, SMTT(30)
  <1>2. \A t \in Signals : d.sig[t] \in SigRows
    BY Rows
  <1>3. \A t \in Signals : e.sig[t].ver = IF t = s THEN d.sig[t].ver + 1 ELSE d.sig[t].ver
    BY <1>2 DEF WithSignal, Sane, Tables, SigRows
  <1> HIDE DEF e
  <1>4. ASSUME NEW t \in Signals PROVE Ages(d.sig[t], e.sig[t])
    <2>1. d.sig[t].ver \in Nat
      BY <1>2 DEF SigRows
    <2>2. CASE t = s
      <3>1. e.sig[t].ver = d.sig[t].ver + 1 /\ e.sig[t].state = state
        BY <1>1, <1>3, <2>2
      <3> QED
        BY <1>1, <2>1, <2>2, <3>1 DEF Ages
    <2>3. CASE t # s
      <3>1. e.sig[t].ver = d.sig[t].ver /\ e.sig[t].state = d.sig[t].state
        BY <1>1, <1>3, <2>3
      <3> QED
        BY <1>1, <2>1, <3>1 DEF Ages
    <2> QED
      BY <2>2, <2>3
  <1> QED
    BY <1>1, <1>4 DEF e

\* Only the signal table moves: the groups stay.
LEMMA SignalledFirm ==
    ASSUME NEW d, NEW e, Signalled(d, e)
    PROVE  Firm(d, e) /\ Plain(d, e) /\ FreeJobs(d) \subseteq FreeJobs(e)
  <1>1. \A i \in Incidents : Group(e, i) = Group(d, i)
    BY RootsSame DEF Signalled
  <1>2. FreeJobs(d) \subseteq FreeJobs(e)
    BY FreesBy DEF Signalled
  <1> QED
    BY <1>1, <1>2 DEF Firm, Same, Plain, Signalled

LEMMA ClearedCalmly ==
    ASSUME NEW d, NEW e, Sane(d), Signalled(d, e),
           \A t \in Signals : /\ Ages(d.sig[t], e.sig[t])
                              /\ e.sig[t].state = "active" => d.sig[t].state = "active"
    PROVE  Calmly(d, e)
  <1>1. \A k \in Incidents : d.inc[k].ver <= e.inc[k].ver
    BY Rows DEF Signalled, IncRows
  <1>2. Calm(d, e)
    BY <1>1 DEF Calm, Signalled
  <1> QED
    BY <1>2, SignalledFirm DEF Calmly, Signalled, Leads

LEMMA SignalOpensCalmly ==
    ASSUME Solid(db), NEW s \in Signals, SignalOpens(s) \/ ReportedRefires(s)
    PROVE  Calmly(db, db') /\ UNCHANGED worker
  <1> DEFINE i == db.sig[s].owner
             f == WithSignal(db, s, "active", None)
             e == ClearGroup(f, i)
  <1>1. db' = e /\ UNCHANGED worker
    BY DEF SignalOpens, ReportedRefires, Outside
  <1>2. Sane(db) /\ i \in Incidents
    BY Rows DEF Solid, SigRows
  <1>3. /\ Signalled(db, f)
        /\ \A t \in Signals : /\ Ages(db.sig[t], f.sig[t])
                              /\ f.sig[t].state = IF t = s THEN "active" ELSE db.sig[t].state
    BY <1>2, WithSignalAges
  <1> HIDE DEF f
  <1>4. Sane(f) /\ f.inc = db.inc /\ f.job = db.job
    BY <1>3 DEF Signalled, Leads
  <1>5. Eases(f, e) /\ ~Shows(e.inc[Root(f, i)]) /\ Mild(f, e)
    BY <1>2, <1>4, ClearGroupEases, ClearGroupMild
  <1> HIDE DEF e
  <1>6. /\ e.sig = f.sig /\ Sane(e)
        /\ \A k \in Incidents : /\ e.inc[k].cause = db.inc[k].cause
                                /\ db.inc[k].ver <= e.inc[k].ver
                                /\ Shows(e.inc[k]) => Shows(db.inc[k]) /\ e.inc[k].rec = db.inc[k].rec
        /\ \A w \in Workers : worker[w].job \in Jobs =>
             e.job[worker[w].job].inc = db.job[worker[w].job].inc
    BY <1>4, <1>5 DEF Eases, Quiet, Recedes
  <1>7. \A k \in Incidents : Root(e, k) = Root(f, k) /\ Group(e, k) = Group(db, k)
    <2>1. \A k \in Incidents : e.inc[k].cause = f.inc[k].cause
      BY <1>4, <1>6
    <2> QED
      BY <1>6, <2>1, RootsSame
  <1>8. ASSUME NEW t \in Signals, e.sig[t].state = "active", db.sig[t].state # "active"
        PROVE  ~Shows(e.inc[Root(e, e.sig[t].owner)])
    <2>1. t = s
      BY <1>3, <1>6, <1>8
    <2>2. e.sig[t].owner = i
      BY <1>3, <1>6, <2>1 DEF Ages
    <2> QED
      BY <1>2, <1>5, <1>7, <2>2
  <1>9. Calm(db, e)
    BY <1>3, <1>6, <1>8 DEF Calm
  <1>10. Firm(db, e)
    BY <1>6, <1>7 DEF Firm, Same
  <1>11. Plain(db, e)
    BY <1>4, <1>5, MildPlain DEF Plain
  <1> QED
    BY <1>1, <1>6, <1>9, <1>10, <1>11 DEF Calmly

LEMMA SignalClearsCalmly ==
    ASSUME Solid(db), NEW s \in Signals, SignalClears(s) \/ CorrectSignal(s)
    PROVE  Calmly(db, db') /\ UNCHANGED worker
  <1> DEFINE i == db.sig[s].owner
  <1>1. Sane(db) /\ i \in Incidents
    BY Rows DEF Solid, SigRows
  <1>2. db.sig[s].state # "absent" /\ FreeJobs(db) # {} /\ UNCHANGED worker
    BY DEF SignalClears, CorrectSignal, Outside, Roomy
  <1>3. ASSUME NEW prov \in {"provider", "operator"}
        PROVE  LET d == WithSignal(db, s, "resolved", prov)
               IN  Calmly(db, d) /\ Calmly(db, StartRecovery(d, i))
    <2> DEFINE d == WithSignal(db, s, "resolved", prov)
    <2>1. /\ Signalled(db, d)
          /\ \A t \in Signals : /\ Ages(db.sig[t], d.sig[t])
                                /\ d.sig[t].state = IF t = s THEN "resolved" ELSE db.sig[t].state
      BY <1>1, <1>2, WithSignalAges
    <2> HIDE DEF d, i
    <2>2. Calmly(db, d)
      BY <1>1, <2>1, ClearedCalmly
    <2>3. FreeJobs(d) # {}
      BY <1>2, <2>1, SignalledFirm
    <2>4. Calmly(db, StartRecovery(d, i))
      BY <1>1, <2>2, <2>3, CalmlyStarts
    <2> QED
      BY <2>2, <2>4 DEF d
  <1>4. \/ \E prov \in {"provider", "operator"} : db' = WithSignal(db, s, "resolved", prov)
        \/ \E prov \in {"provider", "operator"} :
             db' = StartRecovery(WithSignal(db, s, "resolved", prov), i)
    BY DEF SignalClears, CorrectSignal, Outside
  <1> QED
    BY <1>2, <1>3, <1>4

LEMMA ConnectorChangesCalmly ==
    ASSUME Solid(db), ConnectorChanges
    PROVE  Calmly(db, db') /\ UNCHANGED worker
  <1> DEFINE f == [s \in Signals |-> IF db.sig[s].prov = "provider"
                                     THEN [db.sig[s] EXCEPT !.prov = "outdated"] ELSE db.sig[s]]
             e == [db EXCEPT !.sig = f]
  <1>1. Sane(db) /\ \A s \in Signals : db.sig[s] \in SigRows
    BY Rows DEF Solid
  <1>2. f \in [Signals -> SigRows]
    BY <1>1 DEF SigRows
  <1>3. \A s \in Signals : /\ f[s].owner = db.sig[s].owner /\ f[s].state = db.sig[s].state
                           /\ f[s].ver = db.sig[s].ver /\ db.sig[s].ver \in Nat
    BY <1>1 DEF SigRows
  <1>4. db' = e /\ UNCHANGED worker
    BY DEF ConnectorChanges, Outside
  <1> HIDE DEF f
  <1>5. Leads(db, e) /\ e.sig = f /\ e.inc = db.inc /\ e.job = db.job /\ e.app = db.app
    BY <1>1, <1>2, SigSet
  <1> HIDE DEF e
  <1>6. Calmly(db, e)
    BY <1>1, <1>3, <1>5, ClearedCalmly DEF Signalled, Ages
  <1> QED
    BY <1>4, <1>6

LEMMA ReportRecoveryCalmly ==
    ASSUME Solid(db), NEW i \in Incidents, NEW asked \in BOOLEAN, ReportRecovery(i, asked)
    PROVE  Calmly(db, db') /\ UNCHANGED worker
  <1> DEFINE d == Report(db, i)
             root == Root(d, i)
             restart == asked /\ Recoverable(d, i) /\ Refused(d.inc[root])
             c == IF restart THEN ClearRecovery(d, root) ELSE d
             e == StartRecovery(c, i)
  <1>1. db' = e /\ UNCHANGED worker /\ FreeJobs(db) # {} /\ Sane(db)
    BY DEF ReportRecovery, Outside, Roomy, Solid
  <1>2. /\ Signalled(db, d)
        /\ \A t \in Signals : /\ d.sig[t].owner = db.sig[t].owner
                              /\ d.sig[t].state \in {"resolved", db.sig[t].state}
    BY <1>1, ReportOK
  <1>3. \A t \in Signals : Ages(db.sig[t], d.sig[t])
    <2> TAKE t \in Signals
    <2>1. db.sig[t] \in SigRows
      BY <1>1, Rows
    <2>2. \/ d.sig[t] = db.sig[t]
          \/ /\ db.sig[t].state = "active" /\ d.sig[t].state = "resolved"
             /\ d.sig[t].ver = db.sig[t].ver + 1
      BY <1>1, <2>1 DEF Report, Sane, Tables, SigRows
    <2>3. db.sig[t].ver \in Nat
      BY <2>1 DEF SigRows
    <2> HIDE DEF d
    <2> QED
      BY <1>2, <2>2, <2>3 DEF Ages
  <1> HIDE DEF d
  <1>4. Calmly(db, d) /\ Sane(d) /\ FreeJobs(d) # {}
    BY <1>1, <1>2, <1>3, ClearedCalmly, SignalledFirm DEF Calmly
  <1>5. root \in Incidents
    BY RootIn
  <1> HIDE DEF root, restart
  <1>6. Eases(d, c) /\ Mild(d, c)
    BY <1>4, <1>5, ClearRecoveryEases, ClearRecoveryMild, EasesOn, MildOn
  <1> HIDE DEF c
  <1>7. Calmly(db, c) /\ FreeJobs(c) # {}
    BY <1>1, <1>4, <1>6, CalmlyEases DEF Eases
  <1>8. Calmly(db, e)
    BY <1>1, <1>7, CalmlyStarts
  <1> QED
    BY <1>1, <1>8

LEMMA SupersedeRunsCalmly ==
    ASSUME Solid(db), NEW i \in Incidents, SupersedeRuns(i)
    PROVE  Calmly(db, db') /\ UNCHANGED worker
  <1> DEFINE f == [j \in Jobs |-> IF db.job[j].inc = i THEN [db.job[j] EXCEPT !.open = FALSE]
                                  ELSE db.job[j]]
             e == [db EXCEPT !.job = f]
  <1>1. Sane(db) /\ \A j \in Jobs : db.job[j] \in JobRows
    BY Rows DEF Solid
  <1>2. f \in [Jobs -> JobRows]
    BY <1>1, ZenonT(40) DEF JobRows
  <1>3. \A j \in Jobs : /\ f[j].inc = db.job[j].inc /\ f[j].st = db.job[j].st
                        /\ f[j].open => db.job[j].open
    BY <1>1 DEF JobRows
  <1>4. db' = e /\ UNCHANGED worker
    BY DEF SupersedeRuns, Outside
  <1> HIDE DEF f
  <1>5. Eases(db, e) /\ e.inc = db.inc
    BY <1>1, <1>2, <1>3, JobsEase
  <1> HIDE DEF e
  <1>6. Plain(db, e)
    BY <1>5 DEF Plain
  <1> QED
    BY <1>1, <1>4, <1>5, <1>6, QuietCalmly DEF Eases

LEMMA OperateCalmly ==
    ASSUME Solid(db), NEW i \in Incidents, NEW to \in Statuses, Operate(i, to)
    PROVE  Calmly(db, db') /\ UNCHANGED worker
  <1>1. db' = Transition(db, i, to) /\ UNCHANGED worker
    BY DEF Operate, Outside
  <1>2. Eases(db, Transition(db, i, to)) /\ Plain(db, Transition(db, i, to))
    BY TransitionEases DEF Solid
  <1> QED
    BY <1>1, <1>2, QuietCalmly DEF Eases, Solid

LEMMA PolicyRows ==
    ASSUME NEW r \in IncRows, NEW policy \in {"verified_recovery", "provider_clear"}
    PROVE  /\ LET q == [Bumped(r) EXCEPT !.policy = policy, !.basis = None]
              IN  q \in IncRows /\ Recedes(r, q) /\ Alike(r, q) /\ q.run = r.run
           /\ LET q == [Bumped(r) EXCEPT !.basis = None]
              IN  q \in IncRows /\ Recedes(r, q) /\ Alike(r, q) /\ q.run = r.run
  <1> DEFINE b == Bumped(r)
             q1 == [b EXCEPT !.policy = policy, !.basis = None]
             q2 == [b EXCEPT !.basis = None]
  <1>1. b \in IncRows /\ Recedes(r, b) /\ Alike(r, b) /\ b.run = r.run
    BY BumpedRow, RowOps
  <1> HIDE DEF b
  <1>2. /\ q1 \in IncRows /\ q1.status = b.status /\ q1.rec = b.rec /\ q1.cause = b.cause
        /\ q1.ver = b.ver /\ q1.merged = b.merged /\ q1.was = b.was /\ q1.run = b.run
        /\ q1.archived = b.archived /\ q1.basis = None
    BY <1>1 DEF IncRows
  <1>3. /\ q2 \in IncRows /\ q2.status = b.status /\ q2.rec = b.rec /\ q2.cause = b.cause
        /\ q2.ver = b.ver /\ q2.merged = b.merged /\ q2.was = b.was /\ q2.run = b.run
        /\ q2.archived = b.archived /\ q2.basis = None
    BY <1>1 DEF IncRows
  <1> HIDE DEF q1, q2
  <1>4. Recedes(r, q1) /\ Alike(r, q1) /\ Recedes(r, q2) /\ Alike(r, q2)
    BY <1>1, <1>2, <1>3 DEF Recedes, Alike, Shows
  <1> QED
    BY <1>1, <1>2, <1>3, <1>4 DEF q1, q2, b

LEMMA ChangePolicyCalmly ==
    ASSUME Solid(db), NEW i \in Incidents,
           NEW policy \in {"verified_recovery", "provider_clear"}, ChangePolicy(i, policy)
    PROVE  Calmly(db, db') /\ UNCHANGED worker
  <1> DEFINE root == Root(db, i)
             own  == ClearRecovery(db, i)
             both == IF root = i THEN own ELSE ClearRecovery(own, root)
             r1   == [Bumped(both.inc[i]) EXCEPT !.policy = policy, !.basis = None]
             d1   == [both EXCEPT !.inc[i] = r1]
             r2   == [Bumped(d1.inc[root]) EXCEPT !.basis = None]
             d2   == IF root = i THEN d1 ELSE [d1 EXCEPT !.inc[root] = r2]
             e    == StartRecovery(d2, i)
  <1>1. root \in Incidents /\ Sane(db) /\ FreeJobs(db) # {}
    BY RootIn DEF Solid, ChangePolicy, Roomy
  <1>2. Eases(db, own) /\ Mild(db, own)
    BY <1>1, ClearRecoveryEases, ClearRecoveryMild
  <1>3. Eases(db, both) /\ Mild(db, both)
    BY <1>1, <1>2, ClearRecoveryEases, ClearRecoveryMild, EasesOn, MildOn DEF Eases
  <1>4. Sane(both)
    BY <1>3 DEF Eases
  <1> HIDE DEF both
  <1>5. Eases(both, d1) /\ Mild(both, d1)
    <2>1. r1 \in IncRows /\ Recedes(both.inc[i], r1) /\ Alike(both.inc[i], r1)
          /\ r1.run = both.inc[i].run
      BY <1>4, Rows, PolicyRows
    <2> HIDE DEF r1
    <2> QED
      BY <1>4, <2>1, IncEases, IncMild
  <1>6. Sane(d1)
    BY <1>5 DEF Eases
  <1>7. d1 = [both EXCEPT !.inc[i] = [Bumped(@) EXCEPT !.policy = policy, !.basis = None]]
    BY <1>4 DEF Sane, Tables
  <1> HIDE DEF d1
  <1>8. Eases(d1, [d1 EXCEPT !.inc[root] = r2]) /\ Mild(d1, [d1 EXCEPT !.inc[root] = r2])
    <2>1. r2 \in IncRows /\ Recedes(d1.inc[root], r2) /\ Alike(d1.inc[root], r2)
          /\ r2.run = d1.inc[root].run
      BY <1>1, <1>6, Rows, PolicyRows
    <2> HIDE DEF r2, root
    <2> QED
      BY <1>1, <1>6, <2>1, IncEases, IncMild
  <1>9. [d1 EXCEPT !.inc[root] = r2] = [d1 EXCEPT !.inc[root] = [Bumped(@) EXCEPT !.basis = None]]
    BY <1>1, <1>6 DEF Sane, Tables
  <1>10. Eases(d1, d2) /\ Mild(d1, d2)
    BY <1>6, <1>8, EasesOn, MildOn
  <1>11. db' = e /\ UNCHANGED worker
    BY <1>7, <1>9 DEF ChangePolicy, Outside, both
  <1> HIDE DEF d2
  <1>12. Eases(db, d2) /\ Mild(db, d2)
    BY <1>1, <1>3, <1>5, <1>10, EasesOn, MildOn DEF Eases
  <1>13. Calmly(db, d2) /\ FreeJobs(d2) # {}
    BY <1>1, <1>12, MildPlain, QuietCalmly DEF Eases
  <1> QED
    BY <1>1, <1>11, <1>13, CalmlyStarts

\* An incident linked to nothing is the only one whose archive cuts no edge.
\* A walk whose edges stay ends where it did.
LEMMA RootAway ==
    ASSUME NEW d, NEW e, Sane(d), Sane(e), Rooted(d), NEW i \in Incidents,
           \A k \in Causes(d, i) : e.inc[k].cause = d.inc[k].cause
    PROVE  Root(e, i) = Root(d, i)
  <1>1. Shut(e, Causes(d, i))
    BY CausesShut, CausesIn DEF Shut
  <1>2. Causes(e, i) \subseteq Causes(d, i)
    BY <1>1, CausesLeast, CausesSelf, CausesIn
  <1>3. Shut(d, Causes(e, i))
    BY <1>2, CausesShut, CausesIn DEF Shut
  <1>4. Causes(d, i) \subseteq Causes(e, i)
    BY <1>3, CausesLeast, CausesSelf, CausesIn
  <1>5. Root(d, i) \in Tops(d, i)
    BY RootShared
  <1>6. Root(d, i) \in Tops(e, i)
    BY <1>2, <1>4, <1>5, CausesIn DEF Tops
  <1> QED
    BY <1>6, TopAlone

LEMMA AloneUnlinked ==
    ASSUME NEW d, Sane(d), Rooted(d), NEW i \in Incidents, Group(d, i) = {i}
    PROVE  d.inc[i].cause = None /\ \A k \in Incidents : d.inc[k].cause # i
  <1>1. ASSUME NEW k \in Incidents, NEW c \in Incidents, d.inc[k].cause = c
        PROVE  Root(d, k) = Root(d, c)
    <2>1. c # None
      BY RecoveryAssumptions
    <2>2. c \in Causes(d, k)
      BY <1>1, <2>1, CausesShut, CausesSelf DEF Shut
    <2> QED
      BY <2>2, RootShared
  <1>2. d.inc[i].cause # i
    <2>1. SUFFICES ASSUME d.inc[i].cause = i PROVE FALSE
      OBVIOUS
    <2>2. Shut(d, {i}) /\ i # None
      BY <2>1, RecoveryAssumptions DEF Shut
    <2>3. Causes(d, i) \subseteq {i}
      BY <2>2, CausesLeast
    <2> QED
      BY <2>1, <2>2, <2>3 DEF Rooted, Tops
  <1>3. \A k \in Incidents : Root(d, k) = Root(d, i) => k = i
    BY DEF Group
  <1>4. d.inc[i].cause \in Incidents \cup {None}
    BY Rows DEF IncRows
  <1> QED
    BY <1>1, <1>2, <1>3, <1>4

LEMMA ArchiveCalm ==
    ASSUME Solid(db), NEW i \in Incidents, NEW allow \in BOOLEAN, Archive(i, allow)
    PROVE  /\ Sane(db') /\ Calm(db, db') /\ Loose(db, db') /\ Plain(db, db')
           /\ UncheckedArchive => Held(db, db')
           /\ UNCHANGED worker
  <1> DEFINE g(k) == [db.inc[k] EXCEPT !.archived = TRUE, !.cause = None, !.merged = None]
             h(k) == [db.inc[k] EXCEPT !.cause = IF @ = i THEN None ELSE @,
                                       !.merged = IF @ = i THEN None ELSE @]
             f == [k \in Incidents |->
                     IF k = i THEN g(k)
                     ELSE IF db.inc[k].cause = i \/ db.inc[k].merged = i THEN h(k)
                     ELSE db.inc[k]]
             e == [db EXCEPT !.inc = f]
             Lasts(r, q) == /\ q \in IncRows /\ q.status = r.status /\ q.basis = r.basis
                            /\ q.ver = r.ver /\ q.rec = r.rec /\ q.was = r.was
                            /\ q.merged \in {r.merged, None} /\ q.cause \in {r.cause, None}
  <1>1. Sane(db) /\ Rooted(db) /\ \A k \in Incidents : db.inc[k] \in IncRows
    BY Rows DEF Solid, Whole
  <1>2. ASSUME NEW k \in Incidents PROVE Lasts(db.inc[k], g(k)) /\ g(k).archived
    BY <1>1 DEF IncRows
  <1>3. ASSUME NEW k \in Incidents
        PROVE  /\ Lasts(db.inc[k], h(k))
               /\ h(k).cause = IF db.inc[k].cause = i THEN None ELSE db.inc[k].cause
    <2> DEFINE cause  == IF db.inc[k].cause = i THEN None ELSE db.inc[k].cause
               merged == IF db.inc[k].merged = i THEN None ELSE db.inc[k].merged
    <2>1. cause \in Incidents \cup {None} /\ merged \in Incidents \cup {None}
      BY <1>1 DEF IncRows
    <2>2. cause \in {db.inc[k].cause, None} /\ merged \in {db.inc[k].merged, None}
      OBVIOUS
    <2>3. h(k) = [db.inc[k] EXCEPT !.cause = cause, !.merged = merged]
      BY <1>1 DEF IncRows
    <2>4. cause = IF db.inc[k].cause = i THEN None ELSE db.inc[k].cause
      OBVIOUS
    <2> HIDE DEF cause, merged, h
    <2> QED
      BY <1>1, <2>1, <2>2, <2>3, <2>4 DEF IncRows
  <1>4. \A k \in Incidents : Lasts(db.inc[k], db.inc[k])
    BY <1>1
  <1>5. db' = e /\ UNCHANGED worker /\ ~db.inc[i].archived
    BY DEF Archive, Outside, g, h
  <1> HIDE DEF g, h, Lasts
  <1>6. \A k \in Incidents : /\ Lasts(db.inc[k], f[k])
                             /\ k # i /\ db.inc[k].cause # i => f[k].cause = db.inc[k].cause
    BY <1>2, <1>3, <1>4
  <1>7. f[i] = g(i)
    OBVIOUS
  <1>8. f \in [Incidents -> IncRows]
    BY <1>6 DEF Lasts
  <1> HIDE DEF f
  <1>9. Leads(db, e) /\ e.inc = f /\ e.sig = db.sig /\ e.job = db.job
    BY <1>1, <1>8, IncSet
  <1> HIDE DEF e
  <1>10. Sane(e) /\ Plain(db, e)
    BY <1>6, <1>9 DEF Leads, Plain, Lasts
  <1>11. Calm(db, e)
    <2>1. \A s \in Signals : Ages(db.sig[s], e.sig[s]) /\ e.sig[s].state = db.sig[s].state
      BY <1>1, <1>9, Rows DEF Ages, SigRows
    <2>2. \A k \in Incidents : /\ db.inc[k].ver <= e.inc[k].ver
                               /\ Shows(e.inc[k]) => Shows(db.inc[k]) /\ e.inc[k].rec = db.inc[k].rec
      BY <1>1, <1>6, <1>9 DEF Lasts, Shows, IncRows
    <2> QED
      BY <1>9, <2>1, <2>2 DEF Calm
  <1>12. Loose(db, e)
    <2>1. \A k \in Incidents : e.inc[k].cause \in {db.inc[k].cause, None}
      BY <1>6, <1>9 DEF Lasts
    <2>2. \A j, k \in Incidents : Root(e, j) = Root(e, k) => Root(db, j) = Root(db, k)
      BY <1>1, <1>10, <2>1, RootsCut
    <2> QED
      BY <2>1, <2>2 DEF Loose, Shrinks, Group
  <1>13. CASE Group(db, i) = {i}
    <2>1. db.inc[i].cause = None /\ \A k \in Incidents : db.inc[k].cause # i
      BY <1>1, <1>13, AloneUnlinked
    <2>2. \A k \in Incidents : e.inc[k].cause = db.inc[k].cause
      BY <1>6, <1>9, <2>1 DEF Lasts
    <2>3. Held(db, e)
      BY <2>2, RootsSame DEF Held, Same
    <2> QED
      BY <1>5, <1>10, <1>11, <1>12, <2>3
  <1>14. CASE Group(db, i) # {i}
    <2> DEFINE m == Group(db, i)
    <2>1. m = { k \in Incidents : Root(db, k) = Root(db, i) }
      BY DEF Group
    <2> HIDE DEF m
    <2>2. ASSUME NEW k \in Incidents, NEW c \in Causes(db, k) PROVE Root(db, c) = Root(db, k)
      BY <1>1, RootShared
    <2>3. ASSUME NEW k \in Incidents \ m PROVE k # i /\ db.inc[k].cause # i
      <3>1. k # i
        BY <2>1
      <3>2. ASSUME db.inc[k].cause = i PROVE FALSE
        <4>1. i # None
          BY RecoveryAssumptions
        <4>2. i \in Causes(db, k)
          BY <1>1, <3>2, <4>1, CausesShut, CausesSelf DEF Shut
        <4> QED
          BY <2>1, <2>2, <4>2
      <3> QED
        BY <3>1, <3>2
    <2>4. \A k \in Incidents \ m : e.inc[k].cause = db.inc[k].cause
      BY <1>6, <1>9, <2>3
    <2>5. ASSUME NEW k \in Incidents \ m PROVE Root(e, k) = Root(db, k)
      <3>1. \A j \in Causes(db, k) : j \in Incidents \ m
        BY <2>1, <2>2, CausesIn
      <3>2. \A j \in Causes(db, k) : e.inc[j].cause = db.inc[j].cause
        BY <2>4, <3>1
      <3> QED
        BY <1>1, <1>10, <3>2, RootAway
    <2>6. ASSUME NEW k \in Incidents \ m PROVE Same(db, e, k)
      <3>1. \A j \in Incidents : e.inc[j].cause \in {db.inc[j].cause, None}
        BY <1>6, <1>9 DEF Lasts
      <3>2. \A j \in Incidents : Root(e, j) = Root(e, k) => Root(db, j) = Root(db, k)
        BY <1>1, <1>10, <3>1, RootsCut
      <3>3. \A j \in Incidents : Root(db, j) = Root(db, k) => Root(e, j) = Root(e, k)
        BY <2>1, <2>5
      <3>4. Group(e, k) = Group(db, k)
        BY <3>2, <3>3 DEF Group
      <3> QED
        BY <2>4, <3>4 DEF Same
    <2>7. ASSUME UncheckedArchive PROVE Held(db, e)
      <3>1. db'.inc[i].archived /\ ~db.inc[i].archived
        BY <1>2, <1>5, <1>7, <1>9
      <3>2. \A w \in Workers : worker[w].pc = "checking" => On(w) \notin m
        BY <1>14, <2>7, <3>1 DEF UncheckedArchive, m
      <3> QED
        BY <2>6, <3>2 DEF Held
    <2> QED
      BY <1>5, <1>10, <1>11, <1>12, <2>7
  <1> QED
    BY <1>13, <1>14

\* An edge is set: nothing else of the database moves.
LEMMA RelinkedRest ==
    ASSUME NEW d, Sane(d), NEW c \in Incidents, NEW p \in Incidents \cup {None}
    PROVE  LET e == [d EXCEPT !.inc[c].cause = p]
           IN  /\ FreeJobs(d) \subseteq FreeJobs(e)
               /\ e.job = d.job
               /\ \A k \in Incidents : /\ e.inc[k].ver = d.inc[k].ver
                                       /\ e.inc[k].rec = d.inc[k].rec
                                       /\ Shows(e.inc[k]) = Shows(d.inc[k])
  <1> DEFINE r == [d.inc[c] EXCEPT !.cause = p]
             e == [d EXCEPT !.inc[c] = r]
  <1>1. d.inc[c] \in IncRows
    BY Rows
  <1>2. /\ r \in IncRows /\ r.ver = d.inc[c].ver /\ r.rec = d.inc[c].rec /\ r.run = d.inc[c].run
        /\ r.status = d.inc[c].status /\ r.merged = d.inc[c].merged /\ r.was = d.inc[c].was
    BY <1>1 DEF IncRows
  <1>3. [d EXCEPT !.inc[c].cause = p] = e
    BY <1>1 DEF Sane, Tables, IncRows
  <1> HIDE DEF r
  <1>4. /\ Leads(d, e) /\ e.sig = d.sig /\ e.job = d.job /\ e.app = d.app
        /\ e.inc = [k \in Incidents |-> IF k = c THEN r ELSE d.inc[k]]
    BY <1>2, IncRow
  <1> HIDE DEF e
  <1>5. FreeJobs(d) \subseteq FreeJobs(e)
    BY <1>2, <1>4, FreesBy
  <1> QED
    BY <1>2, <1>3, <1>4, <1>5 DEF Shows

\* Members of groups that were refenced and then joined or parted.
LEMMA RefencedApart ==
    ASSUME NEW d, Sane(d), NEW members, members \subseteq Incidents,
           NEW c \in Incidents, NEW p \in Incidents \cup {None}
    PROVE  LET e == [Refence(d, members) EXCEPT !.inc[c].cause = p]
           IN  /\ Sane(e) /\ e.sig = d.sig /\ FreeJobs(d) \subseteq FreeJobs(e)
               /\ e.inc[c].cause = p
               /\ \A k \in Incidents \ {c} : e.inc[k].cause = d.inc[k].cause
               /\ Calm(d, e) /\ Plain(d, e)
               /\ \A k \in members : Group(e, k) \subseteq members => Apart(d, e, k)
  <1> DEFINE f == Refence(d, members)
             e == [f EXCEPT !.inc[c].cause = p]
  <1>1. /\ Eases(d, f)
        /\ \A k \in members :
             /\ ~Shows(f.inc[k])
             /\ \/ d.inc[k].ver < f.inc[k].ver
                \/ \A s \in Signals : d.sig[s].state # "absent" => d.sig[s].owner \notin members
    BY RefenceEases
  <1>2. Plain(d, f)
    BY RefenceMild, MildPlain
  <1> HIDE DEF f
  <1>3. Sane(f) /\ f.sig = d.sig
    BY <1>1 DEF Eases, Quiet
  <1>4. /\ Leads(f, e) /\ e.sig = f.sig /\ e.inc[c].cause = p
        /\ \A k \in Incidents \ {c} : e.inc[k].cause = f.inc[k].cause
        /\ \A k \in Incidents : e.inc[k].status = f.inc[k].status /\ e.inc[k].basis = f.inc[k].basis
    BY <1>3, RelinkedRow
  <1>5. /\ FreeJobs(f) \subseteq FreeJobs(e) /\ e.job = f.job
        /\ \A k \in Incidents : /\ e.inc[k].ver = f.inc[k].ver
                                /\ e.inc[k].rec = f.inc[k].rec
                                /\ Shows(e.inc[k]) = Shows(f.inc[k])
    BY <1>3, RelinkedRest
  <1> HIDE DEF e
  <1>6. \A k \in Incidents : Recedes(d.inc[k], f.inc[k])
    BY <1>1 DEF Eases, Quiet
  <1>7. Calm(d, e)
    <2>1. \A s \in Signals : d.sig[s].ver \in Nat
      BY Rows DEF SigRows
    <2>2. \A s \in Signals : Ages(d.sig[s], e.sig[s]) /\ e.sig[s].state = d.sig[s].state
      BY <1>3, <1>4, <2>1 DEF Ages
    <2>3. \A k \in Incidents : /\ d.inc[k].ver <= e.inc[k].ver
                               /\ Shows(e.inc[k]) => Shows(d.inc[k]) /\ e.inc[k].rec = d.inc[k].rec
      BY <1>5, <1>6 DEF Recedes
    <2>4. \A w \in Workers : worker[w].job \in Jobs =>
            e.job[worker[w].job].inc = d.job[worker[w].job].inc
      BY <1>1, <1>5 DEF Eases, Quiet
    <2> QED
      BY <2>2, <2>3, <2>4 DEF Calm
  <1>8. Plain(d, e)
    BY <1>2, <1>4 DEF Plain
  <1>9. ASSUME NEW k \in members, Group(e, k) \subseteq members PROVE Apart(d, e, k)
    <2>1. k \in Incidents /\ ~Shows(e.inc[k])
      BY <1>1, <1>5
    <2>2. ASSUME \A s \in Signals : d.sig[s].state # "absent" => d.sig[s].owner \notin members
          PROVE  GroupSignals(e, k) = {}
      BY <1>3, <1>4, <1>9, <2>2 DEF GroupSignals
    <2> QED
      BY <1>1, <1>5, <2>1, <2>2 DEF Apart
  <1>10. \A k \in Incidents \ {c} : e.inc[k].cause = d.inc[k].cause
    BY <1>4, <1>6 DEF Recedes
  <1> QED
    BY <1>1, <1>3, <1>4, <1>5, <1>7, <1>8, <1>9, <1>10 DEF Eases, Leads, e, f

LEMMA LinkCauseCalmly ==
    ASSUME Solid(db), NEW c \in Incidents, NEW p \in Incidents, LinkCause(c, p)
    PROVE  Calmly(db, db') /\ UNCHANGED worker
  <1> DEFINE m      == Group(db, c) \cup Group(db, p)
             linked == [Refence(db, m) EXCEPT !.inc[c].cause = p]
             root   == Root(linked, c)
             c1 == ClearRecovery(linked, Root(db, c))
             c2 == ClearRecovery(c1, Root(db, p))
             d1 == ClearRecovery(c2, root)
             d2 == IF d1.inc[root].status \in Closed THEN Transition(d1, root, "open") ELSE d1
             e  == StartRecovery(d2, c)
  <1>1. /\ db' = e /\ UNCHANGED worker
        /\ db.inc[c].cause = None /\ c \notin Causes(db, p) /\ FreeJobs(db) # {}
    BY DEF LinkCause, Outside, Roomy
  <1>2. Sane(db) /\ Rooted(db) /\ m \subseteq Incidents
    BY GroupIn DEF Solid, Whole
  <1>3. m = { k \in Incidents : Root(db, k) = c \/ Root(db, k) = Root(db, p) }
    BY <1>1, RootIn DEF Group
  <1> HIDE DEF m
  <1>4. /\ Sane(linked) /\ linked.sig = db.sig /\ FreeJobs(db) \subseteq FreeJobs(linked)
        /\ linked.inc[c].cause = p
        /\ \A k \in Incidents \ {c} : linked.inc[k].cause = db.inc[k].cause
        /\ Calm(db, linked) /\ Plain(db, linked)
        /\ \A k \in m : Group(linked, k) \subseteq m => Apart(db, linked, k)
    BY <1>2, RefencedApart
  <1> HIDE DEF linked
  <1>5. \A k \in Incidents : Root(linked, k) = IF Root(db, k) = c THEN Root(db, p) ELSE Root(db, k)
    BY <1>1, <1>2, <1>4, RootsJoined
  <1>6. \A k \in m : Apart(db, linked, k)
    <2>1. \A k \in m : Group(linked, k) \subseteq m
      BY <1>3, <1>5 DEF Group
    <2> QED
      BY <1>4, <2>1
  <1>7. \A k \in Incidents \ m : Same(db, linked, k)
    <2> SUFFICES ASSUME NEW k \in Incidents \ m PROVE Same(db, linked, k)
      OBVIOUS
    <2>1. Root(db, k) # c /\ Root(db, k) # Root(db, p) /\ k # c
      BY <1>1, <1>3, RootIn
    <2>2. Root(linked, k) = Root(db, k)
      BY <1>5, <2>1
    <2>3. \A j \in Incidents : Root(linked, j) = Root(db, k) <=> Root(db, j) = Root(db, k)
      BY <1>5, <2>1
    <2>4. Group(linked, k) = Group(db, k)
      BY <2>2, <2>3 DEF Group
    <2> QED
      BY <1>4, <2>1, <2>4 DEF Same
  <1>8. Calmly(db, linked)
    BY <1>4, <1>6, <1>7 DEF Calmly, Firm
  <1>9. root \in Incidents /\ Root(db, c) \in Incidents /\ Root(db, p) \in Incidents
    BY RootIn
  <1> HIDE DEF root
  <1>10. Eases(linked, c1) /\ Mild(linked, c1)
    BY <1>4, <1>9, ClearRecoveryEases, ClearRecoveryMild
  <1> HIDE DEF c1
  <1>11. Eases(c1, c2) /\ Mild(c1, c2)
    BY <1>9, <1>10, ClearRecoveryEases, ClearRecoveryMild DEF Eases
  <1> HIDE DEF c2
  <1>12. Eases(c2, d1) /\ Mild(c2, d1)
    BY <1>9, <1>11, ClearRecoveryEases, ClearRecoveryMild DEF Eases
  <1> HIDE DEF d1
  <1>13. Eases(linked, d1) /\ Mild(linked, d1)
    BY <1>4, <1>10, <1>11, <1>12, EasesOn, MildOn
  <1>14. Calmly(db, d1)
    BY <1>2, <1>8, <1>13, CalmlyEases
  <1>15. Eases(d1, d2) /\ Plain(d1, d2)
    <2>1. Sane(d1) /\ "open" \in Statuses
      BY <1>13 DEF Eases, Statuses, Active
    <2>2. Eases(d1, d1) /\ Plain(d1, d1)
      BY <2>1, EasesOn DEF Plain
    <2> QED
      BY <1>9, <2>1, <2>2, TransitionEases
  <1> HIDE DEF d2
  <1>16. Calmly(db, d2)
    BY <1>2, <1>14, <1>15, CalmlyOn DEF Eases
  <1>17. FreeJobs(d2) # {}
    BY <1>1, <1>4, <1>13, <1>15 DEF Eases
  <1> QED
    BY <1>1, <1>2, <1>16, <1>17, CalmlyStarts

LEMMA UnlinkCalmly ==
    ASSUME Solid(db), NEW c \in Incidents, Unlink(c)
    PROVE  Calmly(db, db') /\ UNCHANGED worker
  <1> DEFINE m      == Group(db, c)
             parted == [Refence(db, m) EXCEPT !.inc[c].cause = None]
             d1 == StartRecovery(parted, c)
             e  == StartRecovery(d1, db.inc[c].cause)
  <1>1. /\ db' = e /\ UNCHANGED worker
        /\ db.inc[c].cause # None /\ Cardinality(FreeJobs(db)) > 1
    BY DEF Unlink, Outside
  <1>2. Sane(db) /\ Rooted(db) /\ m \subseteq Incidents
    BY GroupIn DEF Solid, Whole
  <1>3. m = { k \in Incidents : Root(db, k) = Root(db, c) }
    BY DEF Group
  <1> HIDE DEF m
  <1>4. /\ Sane(parted) /\ parted.sig = db.sig /\ FreeJobs(db) \subseteq FreeJobs(parted)
        /\ parted.inc[c].cause = None
        /\ \A k \in Incidents \ {c} : parted.inc[k].cause = db.inc[k].cause
        /\ Calm(db, parted) /\ Plain(db, parted)
        /\ \A k \in m : Group(parted, k) \subseteq m => Apart(db, parted, k)
    <2>1. None \in Incidents \cup {None}
      OBVIOUS
    <2> QED
      BY <1>2, <2>1, RefencedApart
  <1> HIDE DEF parted
  <1>5. \A j, k \in Incidents : Root(parted, j) = Root(parted, k) => Root(db, j) = Root(db, k)
    <2>1. \A k \in Incidents : parted.inc[k].cause \in {db.inc[k].cause, None}
      BY <1>4
    <2> QED
      BY <1>2, <1>4, <2>1, RootsCut
  <1>6. \A k \in m : Apart(db, parted, k)
    <2>1. \A k \in m : Group(parted, k) \subseteq m
      BY <1>3, <1>5 DEF Group
    <2> QED
      BY <1>4, <2>1
  <1>7. ASSUME NEW k \in Incidents \ m PROVE Root(parted, k) = Root(db, k)
    <2>1. c \notin Causes(db, k)
      BY <1>2, <1>3, RootShared
    <2>2. \A j \in Causes(db, k) : parted.inc[j].cause = db.inc[j].cause
      BY <1>4, <2>1, CausesIn
    <2> QED
      BY <1>2, <1>4, <2>2, RootAway
  <1>8. \A k \in Incidents \ m : Same(db, parted, k)
    <2> SUFFICES ASSUME NEW k \in Incidents \ m PROVE Same(db, parted, k)
      OBVIOUS
    <2>1. k # c
      BY <1>3
    <2>2. ASSUME NEW j \in Incidents, Root(db, j) = Root(db, k)
          PROVE  Root(parted, j) = Root(parted, k)
      <3>1. j \in Incidents \ m
        BY <1>3, <2>2
      <3> QED
        BY <1>7, <2>2, <3>1
    <2>3. Group(parted, k) = Group(db, k)
      BY <1>5, <2>2 DEF Group
    <2> QED
      BY <1>4, <2>1, <2>3 DEF Same
  <1>9. Calmly(db, parted)
    BY <1>4, <1>6, <1>8 DEF Calmly, Firm
  <1>10. \A x \in FreeJobs(db) : FreeJobs(db) \ {x} # {}
    <2> SUFFICES ASSUME NEW x \in FreeJobs(db), FreeJobs(db) = {x} PROVE FALSE
      OBVIOUS
    <2>1. Cardinality({x}) = 1
      BY FS_Singleton
    <2> QED
      BY <1>1, <2>1
  <1>11. FreeJobs(db) # {}
    BY <1>1, FS_EmptySet
  <1>12. FreeJobs(parted) # {} /\ \A x \in FreeJobs(parted) : FreeJobs(parted) \ {x} # {}
    BY <1>4, <1>10, <1>11
  <1>13. Calmly(db, d1)
    BY <1>2, <1>9, <1>12, CalmlyStarts
  <1>14. FreeJobs(d1) # {}
    <2>1. Takes(parted, d1)
      BY <1>4, <1>12, StartTakes
    <2> QED
      BY <1>12, <2>1 DEF Takes
  <1> HIDE DEF d1
  <1>15. db.inc[c].cause \in Incidents
    BY <1>1, <1>2, Rows DEF IncRows
  <1> QED
    BY <1>1, <1>2, <1>13, <1>14, <1>15, CalmlyStarts

\* The row that is merged away keeps what it shows for the split.
LEMMA MergeShifts ==
    ASSUME Solid(db), NEW source \in Incidents, NEW target \in Incidents,
           Merge(source, target)
    PROVE  Shifts(db, db') /\ Plain(db, db') /\ UNCHANGED worker
  <1> DEFINE f == [s \in Signals |-> IF db.sig[s].owner = source
                                     THEN [db.sig[s] EXCEPT !.owner = target] ELSE db.sig[s]]
             row == db.inc[source]
             r == [Bumped(row) EXCEPT !.status = "closed", !.basis = None,
                             !.merged = target, !.was = row.status,
                             !.moved = OwnSignals(db, source)]
             d1 == [db EXCEPT !.sig = f]
             e  == [d1 EXCEPT !.inc[source] = r]
  <1>1. Sane(db) /\ db' = e /\ UNCHANGED worker /\ source # target
    BY DEF Merge, Outside, Solid
  <1>2. \A s \in Signals : db.sig[s] \in SigRows
    BY Rows DEF Solid
  <1>3. f \in [Signals -> SigRows]
    BY <1>2 DEF SigRows
  <1>4. /\ r \in IncRows /\ r.cause = row.cause /\ row.ver <= r.ver /\ r.rec = row.rec
        /\ r.status = "closed" /\ r.was = row.status
    <2> DEFINE b == Bumped(row)
    <2>1. row \in IncRows /\ b \in IncRows /\ Recedes(row, b) /\ b.cause = row.cause
          /\ b.rec = row.rec
      BY <1>1, Rows, BumpedRow
    <2>2. OwnSignals(db, source) \in SUBSET Signals /\ row.status \in Statuses
      BY <2>1 DEF OwnSignals, IncRows
    <2>3. r = [b EXCEPT !.status = "closed", !.basis = None, !.merged = target,
                        !.was = row.status, !.moved = OwnSignals(db, source)]
      OBVIOUS
    <2> HIDE DEF b, r, row
    <2>4. r \in IncRows
      BY <2>1, <2>2, <2>3 DEF IncRows, Statuses, Closed
    <2>5. r.cause = b.cause /\ r.rec = b.rec /\ r.ver = b.ver
          /\ r.status = "closed" /\ r.was = row.status
      BY <2>1, <2>2, <2>3 DEF IncRows
    <2> QED
      BY <2>1, <2>4, <2>5 DEF Recedes
  <1>5. Recedes(row, r)
    BY <1>4 DEF Recedes, Shows, Active
  <1>6. Leads(db, d1) /\ d1.sig = f /\ d1.inc = db.inc /\ d1.job = db.job
    BY <1>1, <1>3, SigSet
  <1> HIDE DEF r, d1
  <1>7. /\ Leads(d1, e) /\ e.sig = f /\ e.job = db.job
        /\ e.inc = [k \in Incidents |-> IF k = source THEN r ELSE db.inc[k]]
    BY <1>4, <1>6, IncRow DEF Leads
  <1> HIDE DEF e
  <1>8. \A s \in Signals : \E to \in Incidents : f[s] = [db.sig[s] EXCEPT !.owner = to]
    <2> SUFFICES ASSUME NEW s \in Signals
                 PROVE  \E to \in Incidents : f[s] = [db.sig[s] EXCEPT !.owner = to]
      OBVIOUS
    <2>1. CASE db.sig[s].owner = source
      <3>1. f[s] = [db.sig[s] EXCEPT !.owner = target]
        BY <2>1
      <3> QED
        BY <3>1
    <2>2. CASE db.sig[s].owner # source
      <3> DEFINE own == db.sig[s].owner
      <3>1. own \in Incidents /\ db.sig[s] = [db.sig[s] EXCEPT !.owner = own]
        BY <1>2 DEF SigRows
      <3>2. f[s] = db.sig[s]
        BY <2>2
      <3> HIDE DEF own, f
      <3> QED
        BY <3>1, <3>2
    <2> QED
      BY <2>1, <2>2
  <1> HIDE DEF f
  <1>9. \A k \in Incidents : Recedes(db.inc[k], e.inc[k])
    BY <1>1, <1>5, <1>7, Rows, RecedesSelf
  <1>10. Plain(db, e)
    BY <1>4, <1>7 DEF Plain
  <1> QED
    BY <1>1, <1>7, <1>8, <1>9, <1>10 DEF Shifts, Leads

LEMMA SplitShifts ==
    ASSUME Solid(db), NEW source \in Incidents, Split(source)
    PROVE  Shifts(db, db') /\ Plain(db, db') /\ UNCHANGED worker
  <1> DEFINE row == db.inc[source]
             f == [s \in Signals |-> IF s \in row.moved /\ db.sig[s].owner = row.merged
                                     THEN [db.sig[s] EXCEPT !.owner = source] ELSE db.sig[s]]
             r == [Bumped(row) EXCEPT
                     !.status = row.was,
                     !.since = IF row.was \in Active THEN row.since ELSE row.ver + 1,
                     !.basis = None, !.merged = None, !.was = "open", !.moved = {}]
             d1 == [db EXCEPT !.sig = f]
             e  == [d1 EXCEPT !.inc[source] = r]
  <1>1. Sane(db) /\ db' = e /\ UNCHANGED worker /\ row.merged # None
    <2>1. row.merged # None
      BY DEF Split
    <2>2. db' = e /\ UNCHANGED worker
      BY DEF Split, Outside
    <2> QED
      BY <2>1, <2>2 DEF Solid
  <1>2. \A s \in Signals : db.sig[s] \in SigRows
    BY Rows DEF Solid
  <1>3. f \in [Signals -> SigRows]
    BY <1>2 DEF SigRows
  <1>4. /\ r \in IncRows /\ r.cause = row.cause /\ row.ver <= r.ver /\ r.rec = row.rec
        /\ r.status = row.was /\ r.merged = None /\ r.basis = None
    <2> DEFINE b == Bumped(row)
               since == IF row.was \in Active THEN row.since ELSE row.ver + 1
    <2>1. row \in IncRows /\ b \in IncRows /\ Recedes(row, b) /\ b.cause = row.cause
          /\ b.rec = row.rec
      BY <1>1, Rows, BumpedRow
    <2>2. row.was \in Statuses /\ since \in Nat
      BY <2>1 DEF IncRows
    <2>3. r = [b EXCEPT !.status = row.was, !.since = since, !.basis = None, !.merged = None,
                        !.was = "open", !.moved = {}]
      BY <2>1 DEF IncRows
    <2> HIDE DEF b, r, since, row
    <2>4. r \in IncRows
      BY <2>1, <2>2, <2>3 DEF IncRows, Statuses, Active
    <2>5. r.cause = b.cause /\ r.rec = b.rec /\ r.ver = b.ver
          /\ r.status = row.was /\ r.merged = None /\ r.basis = None
      BY <2>1, <2>3 DEF IncRows
    <2> QED
      BY <2>1, <2>4, <2>5 DEF Recedes
  <1>5. Recedes(row, r)
    BY <1>1, <1>4 DEF Recedes, Shows
  <1>6. Leads(db, d1) /\ d1.sig = f /\ d1.inc = db.inc /\ d1.job = db.job
    BY <1>1, <1>3, SigSet
  <1> HIDE DEF r, d1
  <1>7. /\ Leads(d1, e) /\ e.sig = f /\ e.job = db.job
        /\ e.inc = [k \in Incidents |-> IF k = source THEN r ELSE db.inc[k]]
    BY <1>4, <1>6, IncRow DEF Leads
  <1> HIDE DEF e
  <1>8. \A s \in Signals : \E to \in Incidents : f[s] = [db.sig[s] EXCEPT !.owner = to]
    <2> SUFFICES ASSUME NEW s \in Signals
                 PROVE  \E to \in Incidents : f[s] = [db.sig[s] EXCEPT !.owner = to]
      OBVIOUS
    <2>1. CASE s \in db.inc[source].moved /\ db.sig[s].owner = db.inc[source].merged
      <3>1. f[s] = [db.sig[s] EXCEPT !.owner = source]
        BY <2>1
      <3> QED
        BY <3>1
    <2>2. CASE ~(s \in db.inc[source].moved /\ db.sig[s].owner = db.inc[source].merged)
      <3> DEFINE own == db.sig[s].owner
      <3>1. own \in Incidents /\ db.sig[s] = [db.sig[s] EXCEPT !.owner = own]
        BY <1>2 DEF SigRows
      <3>2. f[s] = db.sig[s]
        BY <2>2
      <3> HIDE DEF own, f
      <3> QED
        BY <3>1, <3>2
    <2> QED
      BY <2>1, <2>2
  <1> HIDE DEF f
  <1>9. \A k \in Incidents : Recedes(db.inc[k], e.inc[k])
    BY <1>1, <1>5, <1>7, Rows, RecedesSelf
  <1>10. Plain(db, e)
    BY <1>4, <1>7, RecoveryAssumptions DEF Plain
  <1> QED
    BY <1>1, <1>7, <1>8, <1>9, <1>10 DEF Shifts, Leads

LEMMA AppEases ==
    ASSUME NEW d, Sane(d), NEW i \in Incidents, NEW b \in BOOLEAN
    PROVE  LET e == [d EXCEPT !.app[i] = b]
           IN  /\ Eases(d, e) /\ e.inc = d.inc /\ e.job = d.job
               /\ \A k \in Incidents \ {i} : e.app[k] = d.app[k]
  <1> DEFINE e == [d EXCEPT !.app[i] = b]
  <1>1. Leads(d, e) /\ e.sig = d.sig /\ e.inc = d.inc /\ e.job = d.job
    BY AppRow
  <1>2. \A k \in Incidents \ {i} : e.app[k] = d.app[k]
    BY DEF Sane, Tables
  <1> HIDE DEF e
  <1>3. Quiet(d, e) /\ FreeJobs(d) \subseteq FreeJobs(e)
    BY <1>1, Rows, RecedesSelf, FreesBy DEF Quiet
  <1> QED
    BY <1>1, <1>2, <1>3 DEF Eases, Leads, e

LEMMA ApprovalCalm ==
    ASSUME Solid(db), NEW i \in Incidents, NEW contended \in BOOLEAN,
           AskApproval(i) \/ DecideApproval(i, contended)
    PROVE  /\ Sane(db') /\ Calm(db, db') /\ Firm(db, db') /\ UNCHANGED worker
           /\ Plain(db, db') \/ DecideApproval(i, FALSE)
  <1>1. Sane(db)
    BY DEF Solid
  <1>2. ASSUME NEW b \in BOOLEAN
        PROVE  Eases(db, [db EXCEPT !.app[i] = b]) /\ Calmly(db, [db EXCEPT !.app[i] = b])
    <2> DEFINE e == [db EXCEPT !.app[i] = b]
    <2>1. Eases(db, e) /\ e.inc = db.inc
      BY <1>1, AppEases
    <2> HIDE DEF e
    <2>2. Calmly(db, e)
      BY <1>1, <2>1, QuietCalmly DEF Plain, Eases
    <2> QED
      BY <2>1, <2>2 DEF e
  <1>3. CASE AskApproval(i)
    <2>1. db' = [db EXCEPT !.app[i] = TRUE] /\ UNCHANGED worker
      BY <1>3 DEF AskApproval, Outside
    <2> QED
      BY <1>2, <2>1 DEF Calmly
  <1>4. CASE DecideApproval(i, contended)
    <2> DEFINE d == [db EXCEPT !.app[i] = FALSE]
    <2>1. /\ db' = IF contended THEN StartRecovery(d, i) ELSE AfterApproval(d, i)
          /\ UNCHANGED worker /\ FreeJobs(db) # {}
      BY <1>4 DEF DecideApproval, Roomy
    <2>2. Eases(db, d) /\ Calmly(db, d)
      BY <1>2
    <2> HIDE DEF d
    <2>3. FreeJobs(d) # {} /\ Sane(d)
      BY <2>1, <2>2 DEF Eases
    <2>4. CASE contended
      <3>1. Calmly(db, StartRecovery(d, i))
        BY <1>1, <2>2, <2>3, CalmlyStarts
      <3> QED
        BY <2>1, <2>4, <3>1 DEF Calmly
    <2>5. CASE ~contended
      <3>1. Eases(db, AfterApproval(d, i))
        BY <1>1, <2>2, <2>3, AfterApprovalEases, EasesOn
      <3>2. Calm(db, AfterApproval(d, i)) /\ Firm(db, AfterApproval(d, i))
        BY <1>1, <3>1, QuietCalm DEF Eases
      <3>3. contended = FALSE
        BY <2>5
      <3> QED
        BY <1>4, <2>1, <2>5, <3>1, <3>2, <3>3 DEF Eases
    <2> QED
      BY <2>4, <2>5
  <1> QED
    BY <1>3, <1>4

Moving == Shifts(db, db') /\ Plain(db, db') /\ UNCHANGED worker

\* What a step of the outside world leaves of verdicts and groups.
LEMMA WorldCalm ==
    ASSUME Solid(db), World, ~Moving
    PROVE  /\ Sane(db') /\ Calm(db, db') /\ Loose(db, db') /\ UNCHANGED worker
           /\ UncheckedArchive => Held(db, db')
           /\ Plain(db, db') \/ \E i \in Incidents : DecideApproval(i, FALSE)
  <1>1. ASSUME Calmly(db, db') /\ UNCHANGED worker
        PROVE  /\ Sane(db') /\ Calm(db, db') /\ Loose(db, db') /\ UNCHANGED worker
               /\ Held(db, db') /\ Plain(db, db')
    BY <1>1, FirmLoose DEF Calmly
  <1>2. ASSUME NEW s \in Signals,
               SignalOpens(s) \/ SignalClears(s) \/ CorrectSignal(s) \/ ReportedRefires(s)
        PROVE  Calmly(db, db') /\ UNCHANGED worker
    BY <1>2, SignalOpensCalmly, SignalClearsCalmly
  <1>3. ASSUME NEW i \in Incidents,
               \/ \E asked \in BOOLEAN : ReportRecovery(i, asked)
               \/ \E to \in Active \cup Closed : Operate(i, to)
               \/ \E policy \in {"verified_recovery", "provider_clear"} : ChangePolicy(i, policy)
               \/ SupersedeRuns(i)
        PROVE  Calmly(db, db') /\ UNCHANGED worker
    BY <1>3, ReportRecoveryCalmly, OperateCalmly, ChangePolicyCalmly, SupersedeRunsCalmly
       DEF Statuses
  <1>4. ASSUME NEW i \in Incidents, NEW k \in Incidents, LinkCause(i, k) \/ Merge(i, k)
        PROVE  Calmly(db, db') /\ UNCHANGED worker
    BY <1>4, LinkCauseCalmly, MergeShifts DEF Moving
  <1>5. ASSUME NEW i \in Incidents, Unlink(i) \/ Split(i)
        PROVE  Calmly(db, db') /\ UNCHANGED worker
    BY <1>5, UnlinkCalmly, SplitShifts DEF Moving
  <1>6. CASE \E i \in Incidents : \E allow \in BOOLEAN : Archive(i, allow)
    BY <1>6, ArchiveCalm
  <1>7. CASE \E i \in Incidents : AskApproval(i) \/ \E contended \in BOOLEAN : DecideApproval(i, contended)
    BY <1>7, ApprovalCalm, FirmLoose
  <1>8. CASE ConnectorChanges
    BY <1>1, <1>8, ConnectorChangesCalmly
  <1> QED
    BY <1>1, <1>2, <1>3, <1>4, <1>5, <1>6, <1>7, <1>8 DEF World

-----------------------------------------------------------------------------
(* The queue and the workers.  A check stays what it was when it began; a  *)
(* handler shows a recovery where none was shown in two steps only: when   *)
(* it admits a check, and when it accepts the verdict.                     *)

Onward(w) ==
    worker'[w].pc = "checking" =>
        /\ worker[w].pc = "checking" /\ worker'[w].job = worker[w].job
        /\ worker'[w].ver = worker[w].ver /\ worker'[w].fence = worker[w].fence

Serene == Calmly(db, db') /\ \A w \in Workers : Onward(w)

LEMMA GoOnward ==
    ASSUME Core, NEW w \in Workers, NEW pc, pc # "checking", Go(w, pc)
    PROVE  \A v \in Workers : Onward(v)
  <1>1. worker \in [Workers -> WorkerRows]
    BY DEF Core, Posted
  <1>2. worker'[w].pc = pc
    BY <1>1 DEF Go, WorkerRows
  <1>3. \A v \in Workers \ {w} : worker'[v] = worker[v]
    BY <1>1 DEF Go
  <1> QED
    BY <1>2, <1>3 DEF Onward

\* A step that leaves the tables where a quiet transaction takes them.
LEMMA QuietSerene ==
    ASSUME Core, Sane(db'), Quiet(db, db'), Plain(db, db'), \A w \in Workers : Onward(w)
    PROVE  Serene
  BY QuietCalmly DEF Serene, Core, Solid

LEMMA EasesSerene ==
    ASSUME Core, Eases(db, db'), Mild(db, db') \/ Plain(db, db'), \A w \in Workers : Onward(w)
    PROVE  Serene
  BY QuietSerene, MildPlain DEF Eases

\* One row of the job table, about the same incident.
LEMMA RowQuiet ==
    ASSUME NEW d, Sane(d), NEW j \in Jobs, d.job[j].st # "absent",
           NEW r \in JobRows, r.inc = d.job[j].inc
    PROVE  LET e == [d EXCEPT !.job[j] = r]
           IN  Sane(e) /\ Quiet(d, e) /\ Plain(d, e) /\ e.inc = d.inc /\ e.app = d.app
  <1> DEFINE e == [d EXCEPT !.job[j] = r]
             f == [d.job EXCEPT ![j] = r]
  <1>1. d \in Tables /\ d.job \in [Jobs -> JobRows] /\ d.job[j].inc \in Incidents
    BY DEF Sane, Tables
  <1>2. f \in [Jobs -> JobRows] /\ \A k \in Jobs : f[k] = IF k = j THEN r ELSE d.job[k]
    BY <1>1
  <1>3. e = [d EXCEPT !.job = f]
    OBVIOUS
  <1> HIDE DEF f
  <1>4. e \in Tables /\ e.inc = d.inc /\ e.sig = d.sig /\ e.job = f /\ e.app = d.app
    BY <1>1, <1>2, <1>3 DEF Tables
  <1> HIDE DEF e
  <1>5. Sane(e)
    BY <1>1, <1>2, <1>4 DEF Sane
  <1>6. Quiet(d, e)
    BY <1>2, <1>4, Rows, RecedesSelf DEF Quiet
  <1>7. Plain(d, e)
    BY <1>4 DEF Plain
  <1> QED
    BY <1>4, <1>5, <1>6, <1>7 DEF e

LEMMA QueueSerene ==
    ASSUME Core, NEW j \in Jobs, Due(j) \/ Retire(j) \/ \E w \in Workers : Claim(w, j)
    PROVE  Serene
  <1> DEFINE row == db.job[j]
             rd == [row EXCEPT !.later = FALSE]
             rr == [row EXCEPT !.st = "done"]
             rc == [row EXCEPT !.st = "processing", !.tries = @ + 1]
  <1>1. Sane(db) /\ db \in Tables
    BY DEF Core, Solid, Sane
  <1>2. row \in JobRows /\ row.st # "absent" /\ row.tries + 1 \in Nat
    <2>1. row \in JobRows /\ row.st # "absent"
      BY <1>1, Rows DEF Due, Retire, Claim, Claimable
    <2> QED
      BY <2>1 DEF JobRows
  <1>3. /\ rd \in JobRows /\ rd.inc = row.inc /\ rr \in JobRows /\ rr.inc = row.inc
        /\ rc \in JobRows /\ rc.inc = row.inc
    BY <1>2 DEF JobRows
  <1>4. \/ db' = [db EXCEPT !.job[j] = rd] \/ db' = [db EXCEPT !.job[j] = rr]
        \/ db' = [db EXCEPT !.job[j] = rc]
    <2>1. /\ [db EXCEPT !.job[j].later = FALSE] = [db EXCEPT !.job[j] = rd]
          /\ [db EXCEPT !.job[j].st = "done"] = [db EXCEPT !.job[j] = rr]
      BY <1>1 DEF Tables
    <2>2. [db EXCEPT !.job[j].st = "processing", !.job[j].tries = @ + 1] = [db EXCEPT !.job[j] = rc]
      BY <1>1, <1>2 DEF Tables, JobRows
    <2> HIDE DEF rd, rr, rc
    <2> QED
      BY <2>1, <2>2 DEF Due, Retire, Claim
  <1>5. \A v \in Workers : Onward(v)
    <2>1. CASE UNCHANGED worker
      BY <2>1 DEF Onward
    <2>2. ASSUME NEW w \in Workers, Claim(w, j) PROVE \A v \in Workers : Onward(v)
      <3>1. worker \in [Workers -> WorkerRows]
        BY DEF Core, Posted
      <3>2. \A v \in Workers \ {w} : worker'[v] = worker[v]
        BY <2>2, <3>1 DEF Claim
      <3>3. worker'[w].pc = IF row.told THEN "returning" ELSE "claimed"
        BY <2>2, <3>1 DEF Claim, Idle
      <3> QED
        BY <3>2, <3>3 DEF Onward
    <2> QED
      BY <2>1, <2>2 DEF Due, Retire
  <1> HIDE DEF rd, rr, rc
  <1>6. /\ Sane([db EXCEPT !.job[j] = rd]) /\ Quiet(db, [db EXCEPT !.job[j] = rd])
        /\ Plain(db, [db EXCEPT !.job[j] = rd])
    BY <1>1, <1>2, <1>3, RowQuiet
  <1>7. /\ Sane([db EXCEPT !.job[j] = rr]) /\ Quiet(db, [db EXCEPT !.job[j] = rr])
        /\ Plain(db, [db EXCEPT !.job[j] = rr])
    BY <1>1, <1>2, <1>3, RowQuiet
  <1>8. /\ Sane([db EXCEPT !.job[j] = rc]) /\ Quiet(db, [db EXCEPT !.job[j] = rc])
        /\ Plain(db, [db EXCEPT !.job[j] = rc])
    BY <1>1, <1>2, <1>3, RowQuiet
  <1> QED
    BY <1>4, <1>5, <1>6, <1>7, <1>8, QuietSerene

LEMMA LeavingSerene ==
    ASSUME Core, NEW w \in Workers, Return(w) \/ Throw(w) \/ Crash(w) \/ Stall(w)
    PROVE  Serene
  <1> DEFINE j   == worker[w].job
             st  == IF db.job[j].tries >= MaxAttempts THEN "dead"
                    ELSE IF Queued(db, On(w)) # {} THEN "done" ELSE "queued"
             r1  == [db.job[j] EXCEPT !.st = "done"]
             r2  == [db.job[j] EXCEPT !.st = st]
  <1>1. Sane(db) /\ db \in Tables /\ worker \in [Workers -> WorkerRows]
    BY DEF Core, Solid, Sane, Posted
  <1>2. \A v \in Workers : Onward(v)
    <2>1. \A v \in Workers \ {w} : worker'[v] = worker[v]
      BY <1>1 DEF Return, Throw, Leave, Crash, Stall
    <2>2. \/ worker'[w] = Idle
          \/ /\ worker'[w].pc = worker[w].pc /\ worker'[w].job = worker[w].job
             /\ worker'[w].ver = worker[w].ver /\ worker'[w].fence = worker[w].fence
      BY <1>1 DEF Return, Throw, Leave, Crash, Stall, WorkerRows
    <2> QED
      BY <2>1, <2>2, IdleRow DEF Onward
  <1>3. Quiet(db, db) /\ Plain(db, db)
    BY <1>1, QuietOn DEF Plain
  <1>4. CASE Crash(w) \/ Stall(w)
    <2>1. db' = db
      BY <1>4 DEF Crash, Stall
    <2> QED
      BY <1>1, <1>2, <1>3, <2>1, QuietSerene
  <1>5. CASE Return(w) \/ Throw(w)
    <2>1. worker[w].pc # "idle"
      BY <1>5 DEF Return, Throw
    <2>2. j \in Jobs /\ db.job[j].st # "absent" /\ db.job[j] \in JobRows
      BY <1>1, <2>1, OnIn, Rows
    <2>3. st \in {"queued", "processing", "done", "dead"}
      OBVIOUS
    <2>4. db' = db \/ db' = [db EXCEPT !.job[j].st = "done"] \/ db' = [db EXCEPT !.job[j].st = st]
      BY <1>5 DEF Return, Throw
    <2> HIDE DEF st, j
    <2>5. r1 \in JobRows /\ r1.inc = db.job[j].inc /\ r2 \in JobRows /\ r2.inc = db.job[j].inc
      BY <2>2, <2>3 DEF JobRows
    <2>6. db' = db \/ db' = [db EXCEPT !.job[j] = r1] \/ db' = [db EXCEPT !.job[j] = r2]
      BY <1>1, <2>2, <2>4 DEF Tables
    <2> HIDE DEF r1, r2
    <2>7. /\ Sane([db EXCEPT !.job[j] = r1]) /\ Quiet(db, [db EXCEPT !.job[j] = r1])
          /\ Plain(db, [db EXCEPT !.job[j] = r1])
      BY <1>1, <2>2, <2>5, RowQuiet
    <2>8. /\ Sane([db EXCEPT !.job[j] = r2]) /\ Quiet(db, [db EXCEPT !.job[j] = r2])
          /\ Plain(db, [db EXCEPT !.job[j] = r2])
      BY <1>1, <2>2, <2>5, RowQuiet
    <2> QED
      BY <1>1, <1>2, <1>3, <2>6, <2>7, <2>8, QuietSerene
  <1> QED
    BY <1>4, <1>5

LEMMA EngineSerene ==
    ASSUME Core, NEW w \in Workers,
           \/ NonPromote(w) \/ EngineFails(w) \/ RestoreStep(w) \/ ProviderContended(w)
           \/ ProviderCheck(w) \/ \E finalizing \in BOOLEAN : SetupFails(w, finalizing)
    PROVE  Serene
  <1> DEFINE me   == worker[w]
             i    == On(w)
             done == Complete(db, me.run)
             back == Restore(done, i, me.saved, me.run)
             r    == [back.job[me.job] EXCEPT !.told = TRUE]
             told == [back EXCEPT !.job[me.job] = r]
  <1>1. me.pc # "idle"
    BY DEF NonPromote, EngineFails, RestoreStep, ProviderContended, ProviderCheck, SetupFails
  <1>2. /\ i \in Incidents /\ me.job \in Jobs /\ Sane(db) /\ db.job[me.job].st # "absent"
    BY <1>1, OnIn DEF Core, Solid
  <1>3. \A v \in Workers : Onward(v)
    <2>1. \E pc \in Pcs \ {"checking"} : Go(w, pc)
      BY DEF NonPromote, EngineFails, RestoreStep, ProviderContended, ProviderCheck, SetupFails, Pcs
    <2> QED
      BY <2>1, GoOnward
  <1>4. me.pc = "checking" => me.run \in Jobs \X Nat
    BY DEF Core, Staffed
  <1> HIDE DEF i
  <1>5. me.pc = "checking" => Eases(db, done) /\ Mild(db, done) /\ Eases(db, back) /\ Mild(db, back)
    <2> SUFFICES ASSUME me.pc = "checking"
                 PROVE  Eases(db, done) /\ Mild(db, done) /\ Eases(db, back) /\ Mild(db, back)
      OBVIOUS
    <2>1. Eases(db, done) /\ Mild(db, done)
      BY <1>2, <1>4, CompleteEases, CompleteMild
    <2> HIDE DEF done
    <2>2. Eases(done, back) /\ Mild(done, back)
      BY <1>2, <2>1, RestoreEases, RestoreMild DEF Eases
    <2> QED
      BY <1>2, <2>1, <2>2, EasesOn, MildOn
  <1>6. me.pc = "checking" => Sane(told) /\ Quiet(db, told) /\ Plain(db, told)
    <2> SUFFICES ASSUME me.pc = "checking" PROVE Sane(told) /\ Quiet(db, told) /\ Plain(db, told)
      OBVIOUS
    <2>1. Eases(db, back) /\ Mild(db, back) /\ Sane(back)
      BY <1>5 DEF Eases
    <2> HIDE DEF back
    <2>2. back.job[me.job] \in JobRows /\ back.job[me.job].st # "absent"
      BY <1>2, <2>1, Rows DEF Mild, Leads, Tame
    <2>3. r \in JobRows /\ r.inc = back.job[me.job].inc
      BY <2>2 DEF JobRows
    <2> HIDE DEF r, me
    <2>4. Sane(told) /\ Quiet(back, told) /\ told.inc = back.inc
      BY <1>2, <2>1, <2>2, <2>3, RowQuiet
    <2> HIDE DEF told
    <2>5. Quiet(db, told)
      BY <1>2, <2>1, <2>4, QuietOn DEF Eases
    <2>6. Plain(db, told)
      BY <2>1, <2>4, MildPlain DEF Plain
    <2> QED
      BY <2>4, <2>5, <2>6
  <1>7. CASE NonPromote(w)
    <2>1. /\ me.pc = "checking"
          /\ db' = IF RunOpen(db, me.run) THEN [back EXCEPT !.job[me.job].told = TRUE] ELSE db
      BY <1>7 DEF NonPromote, i
    <2>2. Sane(back)
      BY <1>5, <2>1 DEF Eases
    <2> HIDE DEF back
    <2>3. [back EXCEPT !.job[me.job].told = TRUE] = told
      BY <1>2, <2>2 DEF Sane, Tables
    <2>4. Quiet(db, db) /\ Plain(db, db)
      BY <1>2, QuietOn DEF Plain
    <2> HIDE DEF told
    <2> QED
      BY <1>2, <1>3, <1>6, <2>1, <2>3, <2>4, QuietSerene
  <1>8. CASE EngineFails(w)
    <2>1. me.pc = "checking" /\ db' = back
      BY <1>8 DEF EngineFails, i
    <2> QED
      BY <1>3, <1>5, <2>1, EasesSerene
  <1>9. CASE RestoreStep(w)
    <2>1. db' = Restore(db, i, me.saved, me.run)
      BY <1>9 DEF RestoreStep, i
    <2>2. Eases(db, Restore(db, i, me.saved, me.run)) /\ Mild(db, Restore(db, i, me.saved, me.run))
      BY <1>2, RestoreEases, RestoreMild
    <2> QED
      BY <1>3, <2>1, <2>2, EasesSerene
  <1>10. CASE db' = db
    BY <1>2, <1>3, <1>10, EasesOn, MildOn, EasesSerene
  <1>11. CASE ProviderCheck(w)
    <2>1. db' = db \/ db' = ProviderClear(db, i)
      BY <1>11 DEF ProviderCheck, i
    <2>2. Eases(db, ProviderClear(db, i)) /\ Plain(db, ProviderClear(db, i))
      BY <1>2, ProviderClearEases
    <2> QED
      BY <1>3, <1>10, <2>1, <2>2, EasesSerene
  <1>12. ASSUME NEW finalizing \in BOOLEAN, SetupFails(w, finalizing) PROVE Serene
    <2>1. me.pc = "checking" /\ (db' = db \/ db' = done)
      BY <1>12 DEF SetupFails
    <2> QED
      BY <1>3, <1>5, <1>10, <2>1, EasesSerene
  <1> QED
    BY <1>7, <1>8, <1>9, <1>10, <1>11, <1>12 DEF ProviderContended

\* A step of the handler of incident i that may show a recovery of it.
Rules(i) ==
    /\ Sane(db') /\ db'.sig = db.sig
    /\ \A k \in Incidents :
         /\ db'.inc[k].cause = db.inc[k].cause /\ db.inc[k].ver <= db'.inc[k].ver
         /\ k # i => (Shows(db'.inc[k]) => Shows(db.inc[k]) /\ db'.inc[k].rec = db.inc[k].rec)
    /\ \A w \in Workers : worker[w].job \in Jobs =>
         db'.job[worker[w].job].inc = db.job[worker[w].job].inc

\* The check is admitted,
Admits(w) ==
    LET i == On(w)
    IN  /\ Rules(i) /\ Plain(db, db')
        /\ worker[w].pc = "cleared"
        /\ Candidate(db, i) /\ Valid(db, i, worker[w].ver, worker[w].fence)
        /\ db'.inc[i].rec = "verifying"
        /\ worker'[w].job = worker[w].job
        /\ worker'[w].ver = worker[w].ver /\ worker'[w].fence = worker[w].fence
        /\ \A v \in Workers \ {w} : worker'[v] = worker[v]

\* or its verdict is accepted, and may resolve the group.
Upholds(w) ==
    LET i == On(w)
    IN  /\ Rules(i)
        /\ worker[w].pc = "checking" /\ Accepts(w) /\ worker'[w].pc = "returning"
        /\ \A v \in Workers \ {w} : worker'[v] = worker[v]
        /\ \/ Plain(db, db')
           \/ /\ db'.inc[i].rec = "verified" /\ ~PendingApproval(db', i)
              /\ \A k \in Incidents \ Group(db, i) : db'.inc[k] = db.inc[k]

LEMMA BeginSerene ==
    ASSUME Core, NEW w \in Workers, NEW exhausted \in BOOLEAN, Begin(w, exhausted)
    PROVE  Serene \/ Admits(w)
  <1> DEFINE i     == On(w)
             j     == worker[w].job
             row   == db.inc[i]
             saved == db.job[j].saved \/ ~row.gathering
             d     == [db EXCEPT !.job[j].saved = saved]
             n     == IF db.job[j].open THEN db.job[j].runs ELSE db.job[j].runs + 1
             run   == <<j, n>>
             rs    == [db.job[j] EXCEPT !.saved = saved]
             rd    == [db.job[j] EXCEPT !.saved = saved, !.denied = TRUE]
             ro    == [db.job[j] EXCEPT !.saved = saved, !.open = TRUE, !.runs = n]
             qv    == IF row.gathering /\ saved THEN [NoVerdict(row) EXCEPT !.gathering = FALSE] ELSE row
             qd    == [row EXCEPT !.rec = "not_verified", !.run = None]
             qo    == [row EXCEPT !.gathering = TRUE, !.rec = "verifying", !.run = run,
                                  !.att = worker[w].att]
  <1>1. /\ i \in Incidents /\ j \in Jobs /\ worker[w].pc # "idle" /\ Sane(db)
        /\ i = db.job[j].inc /\ db.job[j].st # "absent" /\ worker[w] \in WorkerRows
        /\ worker \in [Workers -> WorkerRows]
    BY OnIn DEF Begin, Core, Solid, On, Posted
  <1>2. db \in Tables /\ db.job[j] \in JobRows /\ row \in IncRows
    BY <1>1, Rows DEF Sane
  <1>3. \/ db' = db /\ Go(w, "returning")
        \/ /\ db' = [d EXCEPT !.inc[i] = IF row.gathering /\ saved
                       THEN [NoVerdict(@) EXCEPT !.gathering = FALSE] ELSE @]
           /\ Go(w, "returning")
        \/ /\ db' = [d EXCEPT !.job[j].denied = TRUE,
                              !.inc[i] = [@ EXCEPT !.rec = "not_verified", !.run = None]]
           /\ Go(w, "returning")
        \/ /\ worker[w].pc = "cleared"
           /\ Candidate(db, i) /\ Valid(db, i, worker[w].ver, worker[w].fence)
           /\ db' = [d EXCEPT !.job[j] = [@ EXCEPT !.open = TRUE, !.runs = run[2]],
                              !.inc[i] = [@ EXCEPT !.gathering = TRUE, !.rec = "verifying",
                                                   !.run = run, !.att = worker[w].att]]
           /\ worker' = [worker EXCEPT ![w].pc = "checking", ![w].run = run, ![w].saved = saved]
    BY DEF Begin
  <1>4. saved \in BOOLEAN /\ n \in Nat
    BY <1>2 DEF JobRows, IncRows
  <1> HIDE DEF j, saved, n
  <1>5. /\ rs \in JobRows /\ rs.inc = db.job[j].inc
        /\ rd \in JobRows /\ rd.inc = db.job[j].inc
        /\ ro \in JobRows /\ ro.inc = db.job[j].inc
    BY <1>2, <1>4 DEF JobRows
  <1>6. qv \in IncRows /\ Recedes(row, qv) /\ qv.basis = row.basis
    <2> DEFINE c == NoVerdict(row)
               q == [c EXCEPT !.gathering = FALSE]
    <2>1. /\ c \in IncRows /\ c.cause = row.cause /\ c.ver = row.ver /\ c.rec = None
          /\ c.basis = row.basis
      BY <1>2, Counts DEF IncRows, NoVerdict, Runs
    <2> HIDE DEF c, row
    <2>2. /\ q \in IncRows /\ q.cause = c.cause /\ q.ver = c.ver /\ q.rec = None
          /\ q.basis = c.basis
      BY <2>1 DEF IncRows
    <2>3. row.ver <= row.ver
      BY <1>2 DEF IncRows
    <2>4. Recedes(row, q)
      BY <1>2, <2>1, <2>2, <2>3, RecoveryAssumptions, NoVerdictRecedes
    <2> QED
      BY <1>2, <2>1, <2>2, <2>4, RecedesSelf DEF c
  <1>7. qd \in IncRows /\ Recedes(row, qd) /\ qd.basis = row.basis
    <2>1. /\ qd \in IncRows /\ qd.cause = row.cause /\ qd.ver = row.ver
          /\ qd.rec = "not_verified" /\ qd.basis = row.basis
      BY <1>2 DEF IncRows, Runs
    <2>2. row.ver <= row.ver
      BY <1>2 DEF IncRows
    <2> HIDE DEF row, qd
    <2> QED
      BY <1>2, <2>1, <2>2, NoVerdictRecedes
  <1>8. /\ qo \in IncRows /\ qo.cause = row.cause /\ qo.ver = row.ver /\ qo.rec = "verifying"
        /\ qo.basis = row.basis /\ qo.status = row.status
    BY <1>1, <1>2, <1>4 DEF IncRows, Runs, WorkerRows
  <1>9. [d EXCEPT !.inc[i] = IF row.gathering /\ saved
                       THEN [NoVerdict(@) EXCEPT !.gathering = FALSE] ELSE @]
           = [[db EXCEPT !.job[j] = rs] EXCEPT !.inc[i] = qv]
    <2> HIDE DEF i
    <2> QED
      BY <1>1, <1>2 DEF Tables
  <1>10. [d EXCEPT !.job[j].denied = TRUE,
                   !.inc[i] = [@ EXCEPT !.rec = "not_verified", !.run = None]]
           = [[db EXCEPT !.job[j] = rd] EXCEPT !.inc[i] = qd]
    <2> HIDE DEF i
    <2> QED
      BY <1>1, <1>2, ZenonT(40) DEF Tables, JobRows
  <1>11. [d EXCEPT !.job[j] = [@ EXCEPT !.open = TRUE, !.runs = run[2]],
                   !.inc[i] = [@ EXCEPT !.gathering = TRUE, !.rec = "verifying",
                                        !.run = run, !.att = worker[w].att]]
           = [[db EXCEPT !.job[j] = ro] EXCEPT !.inc[i] = qo]
    <2> HIDE DEF i
    <2> QED
      BY <1>1, <1>2, ZenonT(40) DEF Tables, JobRows
  <1>12. qv.status = row.status /\ qd.status = row.status
    BY <1>2 DEF IncRows, NoVerdict
  <1> HIDE DEF rs, rd, ro, qv, qd, qo, i
  <1>13. ASSUME NEW r \in JobRows, r.inc = db.job[j].inc, NEW q \in IncRows,
                q.status = row.status, q.basis = row.basis
         PROVE  LET e == [[db EXCEPT !.job[j] = r] EXCEPT !.inc[i] = q]
                IN  /\ Sane(e) /\ e.sig = db.sig /\ Plain(db, e)
                    /\ e.inc = [k \in Incidents |-> IF k = i THEN q ELSE db.inc[k]]
                    /\ \A v \in Workers : worker[v].job \in Jobs =>
                         e.job[worker[v].job].inc = db.job[worker[v].job].inc
    <2> DEFINE c == [db EXCEPT !.job[j] = r]
               e == [c EXCEPT !.inc[i] = q]
    <2>1. Sane(c) /\ Quiet(db, c) /\ c.inc = db.inc
      BY <1>1, <1>13, RowQuiet
    <2> HIDE DEF c
    <2>2. /\ Leads(c, e) /\ e.sig = c.sig /\ e.job = c.job
          /\ e.inc = [k \in Incidents |-> IF k = i THEN q ELSE c.inc[k]]
      BY <1>1, <2>1, IncRow, SMTT(40)
    <2> HIDE DEF e
    <2>3. Plain(db, e)
      BY <1>13, <2>1, <2>2 DEF Plain
    <2> QED
      BY <2>1, <2>2, <2>3 DEF Quiet, Leads, c, e
  <1>14. ASSUME NEW r \in JobRows, r.inc = db.job[j].inc, NEW q \in IncRows,
                q.status = row.status, q.basis = row.basis, Recedes(row, q)
         PROVE  LET e == [[db EXCEPT !.job[j] = r] EXCEPT !.inc[i] = q]
                IN  Sane(e) /\ Quiet(db, e) /\ Plain(db, e)
    <2> DEFINE e == [[db EXCEPT !.job[j] = r] EXCEPT !.inc[i] = q]
    <2>1. /\ Sane(e) /\ e.sig = db.sig /\ Plain(db, e)
          /\ e.inc = [k \in Incidents |-> IF k = i THEN q ELSE db.inc[k]]
          /\ \A v \in Workers : worker[v].job \in Jobs =>
               e.job[worker[v].job].inc = db.job[worker[v].job].inc
      BY <1>13, <1>14
    <2> HIDE DEF e
    <2>2. Quiet(db, e)
      BY <1>1, <1>14, <2>1, Rows, RecedesSelf DEF Quiet
    <2> QED
      BY <2>1, <2>2 DEF e
  <1>15. ASSUME Go(w, "returning"), Sane(db'), Quiet(db, db'), Plain(db, db')
         PROVE  Serene
    BY <1>15, GoOnward, QuietSerene
  <1>16. CASE db' = db /\ Go(w, "returning")
    BY <1>1, <1>15, <1>16, QuietOn DEF Plain
  <1>17. CASE db' = [[db EXCEPT !.job[j] = rs] EXCEPT !.inc[i] = qv] /\ Go(w, "returning")
    BY <1>5, <1>6, <1>12, <1>14, <1>15, <1>17
  <1>18. CASE db' = [[db EXCEPT !.job[j] = rd] EXCEPT !.inc[i] = qd] /\ Go(w, "returning")
    BY <1>5, <1>7, <1>12, <1>14, <1>15, <1>18
  <1>19. CASE /\ worker[w].pc = "cleared"
              /\ Candidate(db, i) /\ Valid(db, i, worker[w].ver, worker[w].fence)
              /\ db' = [[db EXCEPT !.job[j] = ro] EXCEPT !.inc[i] = qo]
              /\ worker' = [worker EXCEPT ![w].pc = "checking", ![w].run = run, ![w].saved = saved]
    <2>1. /\ Sane(db') /\ db'.sig = db.sig /\ Plain(db, db')
          /\ db'.inc = [k \in Incidents |-> IF k = i THEN qo ELSE db.inc[k]]
          /\ \A v \in Workers : worker[v].job \in Jobs =>
               db'.job[worker[v].job].inc = db.job[worker[v].job].inc
      BY <1>5, <1>8, <1>13, <1>19
    <2>2. Rules(i)
      <3>1. \A k \in Incidents : db.inc[k].ver <= db.inc[k].ver
        BY <1>1, Rows DEF IncRows
      <3> QED
        BY <1>8, <2>1, <3>1 DEF Rules
    <2>3. /\ worker'[w].job = worker[w].job
          /\ worker'[w].ver = worker[w].ver /\ worker'[w].fence = worker[w].fence
          /\ \A v \in Workers \ {w} : worker'[v] = worker[v]
      BY <1>1, <1>19 DEF WorkerRows
    <2>4. db'.inc[i].rec = "verifying"
      BY <1>1, <1>8, <2>1
    <2> HIDE DEF row
    <2> QED
      BY <1>19, <2>1, <2>2, <2>3, <2>4 DEF Admits, i
  <1> QED
    BY <1>3, <1>9, <1>10, <1>11, <1>16, <1>17, <1>18, <1>19

LEMMA FinalizeSerene ==
    ASSUME Core, NEW w \in Workers, NEW outcome \in {"recovered", "recheck", "needs_human"},
           Finalize(w, outcome)
    PROVE  Serene \/ Upholds(w)
  <1> DEFINE i    == On(w)
             me   == worker[w]
             back == Restore(db, i, me.saved, me.run)
             got  == Verdict(w, outcome)
             d1   == Complete(db, me.run)
             d2   == IF got = "recheck"
                     THEN InsertRecovery(d1, i, me.ver, me.fence, me.att + 1, TRUE) ELSE d1
             r    == [d2.job[me.job] EXCEPT !.told = TRUE]
             rec  == CASE got = "recovered" -> "verified"
                       [] got = "recheck" -> "monitoring"
                       [] OTHER -> "not_verified"
             q    == [d2.inc[i] EXCEPT !.gathering = FALSE, !.run = None, !.att = me.att, !.rec = rec]
             c    == [d2 EXCEPT !.job[me.job] = r]
             d3   == [c EXCEPT !.inc[i] = q]
             d4   == IF got = "recovered" /\ AllResolved(d3, i) /\ ~PendingApproval(d3, i)
                     THEN ResolveGroup(d3, i, "verified_recovery") ELSE d3
             u    == [back.job[me.job] EXCEPT !.ver = db.inc[i].ver]
             b1   == [back EXCEPT !.job[me.job] = u]
             d3x  == [d2 EXCEPT
                       !.job[me.job].told = TRUE,
                       !.inc[i] = [@ EXCEPT !.gathering = FALSE, !.run = None, !.att = me.att,
                                     !.rec = CASE got = "recovered" -> "verified"
                                               [] got = "recheck" -> "monitoring"
                                               [] OTHER -> "not_verified"]]
             d4x  == IF got = "recovered" /\ AllResolved(d3x, i) /\ ~PendingApproval(d3x, i)
                     THEN ResolveGroup(d3x, i, "verified_recovery") ELSE d3x
  <1>1. /\ i \in Incidents /\ me.job \in Jobs /\ me.pc = "checking" /\ Sane(db)
        /\ db.job[me.job].st # "absent" /\ me \in WorkerRows /\ me.run \in Jobs \X Nat
        /\ worker \in [Workers -> WorkerRows]
    BY OnIn DEF Finalize, Core, Solid, Posted, Staffed
  <1>2. me.saved \in BOOLEAN /\ me.ver \in Nat /\ me.fence \in Fences /\ me.att \in 0..MaxChecks
    BY <1>1 DEF WorkerRows
  <1>3. \/ db' = [back EXCEPT !.job[me.job].ver = db.inc[i].ver] /\ Go(w, "broken")
        \/ db' = Complete(back, me.run) /\ Go(w, "returning")
        \/ db' = back /\ Go(w, "returning")
        \/ Accepts(w) /\ db' = d4x /\ Go(w, "returning")
    BY DEF Finalize
  <1>4. got = "recheck" => FreeJobs(db) # {}
    BY DEF Finalize, Roomy
  <1>5. got = "recheck" => me.att + 1 \in 0..MaxChecks
    <2>1. got = "recheck" => ~(me.att >= MaxChecks)
      BY DEF Verdict
    <2> QED
      BY <1>2, <2>1, RecoveryAssumptions
  <1> HIDE DEF i, got
  <1>6. Eases(db, back) /\ Mild(db, back)
    BY <1>1, RestoreEases, RestoreMild
  <1>7. /\ Eases(db, d1) /\ d1.inc = db.inc /\ d1.app = db.app
    BY <1>1, CompleteEases
  <1> HIDE DEF me, back, d1
  \* The verdict does not count.
  <1>8. \A v \in Workers : Go(w, "broken") \/ Go(w, "returning") => Onward(v)
    BY GoOnward
  <1>9. CASE db' = back /\ Go(w, "returning")
    BY <1>6, <1>8, <1>9, EasesSerene
  <1>10. CASE db' = Complete(back, me.run) /\ Go(w, "returning")
    <2>1. Eases(back, Complete(back, me.run)) /\ Mild(back, Complete(back, me.run))
      BY <1>1, <1>6, CompleteEases, CompleteMild DEF Eases
    <2>2. Eases(db, Complete(back, me.run)) /\ Mild(db, Complete(back, me.run))
      BY <1>1, <1>6, <2>1, EasesOn, MildOn
    <2> QED
      BY <1>8, <1>10, <2>2, EasesSerene
  <1>11. CASE db' = [back EXCEPT !.job[me.job].ver = db.inc[i].ver] /\ Go(w, "broken")
    <2>1. Sane(back) /\ db.inc[i].ver \in Nat
      BY <1>1, <1>6, Rows DEF Eases, IncRows
    <2>2. back.job[me.job] \in JobRows /\ back.job[me.job].st # "absent"
      BY <1>1, <1>6, <2>1, Rows DEF Mild, Leads, Tame
    <2>3. u \in JobRows /\ u.inc = back.job[me.job].inc
      BY <2>1, <2>2 DEF JobRows
    <2>4. [back EXCEPT !.job[me.job].ver = db.inc[i].ver] = b1
      BY <1>1, <2>1 DEF Sane, Tables
    <2> HIDE DEF u
    <2>5. Sane(b1) /\ Quiet(back, b1) /\ b1.inc = back.inc
      BY <1>1, <2>1, <2>2, <2>3, RowQuiet
    <2> HIDE DEF b1
    <2>6. Quiet(db, b1)
      BY <1>1, <1>6, <2>1, <2>5, QuietOn DEF Eases
    <2>7. Plain(db, b1)
      BY <1>6, <2>5, MildPlain DEF Plain
    <2> QED
      BY <1>8, <1>11, <2>4, <2>5, <2>6, <2>7, QuietSerene
  \* It does.
  <1>12. CASE Accepts(w) /\ db' = d4x /\ Go(w, "returning")
    <2>1. /\ Sane(d2) /\ Quiet(db, d2) /\ d2.inc = db.inc /\ d2.app = db.app
      <3>1. got = "recheck" => Takes(d1, d2)
        <4> SUFFICES ASSUME got = "recheck" PROVE Takes(d1, d2)
          OBVIOUS
        <4>1. Sane(d1) /\ FreeJobs(d1) # {}
          BY <1>4, <1>7 DEF Eases
        <4> QED
          BY <1>1, <1>2, <1>5, <4>1, InsertTakes
      <3>2. got = "recheck" => Sane(d2) /\ Quiet(d1, d2) /\ d2.inc = d1.inc /\ d2.app = d1.app
        BY <1>7, <3>1, TakesQuiet DEF Takes, Eases
      <3>3. got # "recheck" => d2 = d1
        OBVIOUS
      <3> HIDE DEF d2
      <3> QED
        BY <1>1, <1>7, <3>2, <3>3, QuietOn DEF Eases
    <2>2. /\ d2.job[me.job] \in JobRows /\ d2.inc[i] \in IncRows
          /\ d2.job[me.job].st # "absent" /\ d2.job[me.job].inc = i
      <3>1. Mild(db, d2)
        <4>1. Mild(db, d1)
          BY <1>1, CompleteMild DEF d1
        <4>2. Mild(d1, d2)
          BY <1>1, <1>2, <1>5, <4>1, MildSane, InsertMild, MildOn
        <4> QED
          BY <4>1, <4>2, MildOn
      <3>2. d2.job[me.job].inc = db.job[me.job].inc
        BY <1>1, <2>1 DEF Quiet, me
      <3> QED
        BY <1>1, <2>1, <3>1, <3>2, Rows DEF Mild, Leads, Tame, i, On, me
    <2> HIDE DEF d2
    <2>3. r \in JobRows /\ r.inc = d2.job[me.job].inc
      BY <2>2 DEF JobRows
    <2>4. /\ q \in IncRows /\ q.cause = db.inc[i].cause /\ q.ver = db.inc[i].ver
          /\ q.status = db.inc[i].status /\ q.basis = db.inc[i].basis /\ q.rec = rec
      <3>1. rec \in {None, "verifying", "monitoring", "verified", "not_verified"}
        OBVIOUS
      <3> HIDE DEF rec
      <3> QED
        BY <1>2, <2>1, <2>2, <3>1, ZenonT(40) DEF IncRows, Runs
    <2>5. d3x = d3
      BY <1>1, <2>1, <2>2 DEF Sane, Tables, JobRows
    <2>6. db' = d4
      BY <1>12, <2>5
    <2> HIDE DEF r, q, d3x, d4x
    <2>7. Sane(c) /\ Quiet(d2, c) /\ c.inc = d2.inc /\ c.app = d2.app
      BY <1>1, <2>1, <2>2, <2>3, RowQuiet
    <2> HIDE DEF c
    <2>8. /\ Leads(c, d3) /\ d3.sig = c.sig /\ d3.job = c.job /\ d3.app = c.app
          /\ d3.inc = [k \in Incidents |-> IF k = i THEN q ELSE c.inc[k]]
      BY <1>1, <2>4, <2>7, IncRow, SMTT(40)
    <2> HIDE DEF d3
    <2>9. /\ Sane(d3) /\ d3.sig = db.sig
          /\ d3.inc = [k \in Incidents |-> IF k = i THEN q ELSE db.inc[k]]
          /\ \A v \in Workers : worker[v].job \in Jobs =>
               d3.job[worker[v].job].inc = db.job[worker[v].job].inc
      BY <2>1, <2>7, <2>8 DEF Quiet, Leads
    <2>10. \A k \in Incidents : d3.inc[k].cause = db.inc[k].cause /\ d3.inc[k].ver = db.inc[k].ver
      BY <2>4, <2>9
    <2>11. Group(d3, i) = Group(db, i) /\ i \in Group(db, i)
      <3>1. Group(d3, i) = Group(db, i)
        BY <1>1, <2>10, RootsSame
      <3>2. i \in Group(db, i)
        BY <1>1 DEF Group
      <3> QED
        BY <3>1, <3>2
    <2>12. \/ d4 = d3
           \/ /\ got = "recovered" /\ ~PendingApproval(d3, i)
              /\ d4 = ResolveGroup(d3, i, "verified_recovery")
      OBVIOUS
    <2> HIDE DEF d4
    <2>13. ASSUME NEW e, Eases(d3, e), db' = e PROVE Rules(i)
      <3>1. ASSUME NEW k \in Incidents
            PROVE  /\ e.inc[k].cause = db.inc[k].cause /\ db.inc[k].ver <= e.inc[k].ver
                   /\ k # i => (Shows(e.inc[k]) => Shows(db.inc[k]) /\ e.inc[k].rec = db.inc[k].rec)
        <4>1. Recedes(d3.inc[k], e.inc[k])
          BY <2>13 DEF Eases, Quiet
        <4>2. k # i => d3.inc[k] = db.inc[k]
          BY <2>9
        <4> QED
          BY <2>10, <4>1, <4>2 DEF Recedes
      <3> QED
        BY <2>9, <2>13, <3>1 DEF Rules, Eases, Quiet
    <2>14. CASE d4 = d3
      <3>1. Plain(db, db')
        BY <2>4, <2>6, <2>9, <2>14 DEF Plain
      <3>2. Rules(i)
        BY <2>6, <2>9, <2>13, <2>14, EasesOn
      <3>3. worker'[w].pc = "returning" /\ \A v \in Workers \ {w} : worker'[v] = worker[v]
        BY <1>1, <1>12 DEF Go, WorkerRows, me
      <3> QED
        BY <1>1, <1>12, <3>1, <3>2, <3>3 DEF Upholds, i, me
    <2>15. CASE /\ got = "recovered" /\ ~PendingApproval(d3, i)
                /\ d4 = ResolveGroup(d3, i, "verified_recovery")
      <3>1. /\ Eases(d3, d4) /\ d4.app = d3.app
            /\ \A k \in Incidents : d4.inc[k].rec = d3.inc[k].rec
            /\ \A k \in Incidents \ Group(d3, i) : d4.inc[k] = d3.inc[k]
        BY <1>1, <2>9, <2>15, ResolveGroupEases
      <3>2. Rules(i)
        BY <2>6, <2>13, <3>1
      <3>3. worker'[w].pc = "returning" /\ \A v \in Workers \ {w} : worker'[v] = worker[v]
        BY <1>1, <1>12 DEF Go, WorkerRows, me
      <3>4. d4.inc[i].rec = "verified"
        BY <1>1, <2>4, <2>9, <2>15, <3>1
      <3>5. ~PendingApproval(d4, i)
        <4>1. Group(d4, i) = Group(d3, i)
          BY <1>1, <3>1, SameGroups DEF Eases, Quiet, Recedes
        <4> QED
          BY <2>15, <3>1, <4>1 DEF PendingApproval
      <3>6. \A k \in Incidents \ Group(db, i) : d4.inc[k] = db.inc[k]
        BY <2>9, <2>11, <3>1
      <3> QED
        BY <1>1, <1>12, <2>6, <3>2, <3>3, <3>4, <3>5, <3>6 DEF Upholds, i, me
    <2> QED
      BY <2>12, <2>14, <2>15
  <1> QED
    BY <1>3, <1>9, <1>10, <1>11, <1>12

-----------------------------------------------------------------------------
(* What calm steps keep.                                                   *)

Moves(d, e) ==
    /\ \A k \in Incidents : d.inc[k].ver <= e.inc[k].ver
    /\ \A s \in Signals : Ages(d.sig[s], e.sig[s])

LEMMA VerdictStands ==
    ASSUME NEW d, NEW e, Sane(d), Sane(e), Verdicts(d), Calm(d, e), Loose(d, e)
    PROVE  Verdicts(e)
  <1> SUFFICES ASSUME NEW i \in Incidents, Shows(e.inc[i])
               PROVE  e.inc[i].cause = None /\ ~Uncleared(e, i)
    BY DEF Verdicts
  <1>1. Shows(d.inc[i])
    BY DEF Calm
  <1>2. d.inc[i].cause = None /\ ~Uncleared(d, i)
    BY <1>1 DEF Verdicts
  <1>3. Shrinks(d, e, i)
    BY DEF Loose, Apart
  <1>4. e.inc[i].cause = None /\ Root(e, i) = i
    BY <1>2, <1>3 DEF Shrinks, Root
  <1>5. ASSUME NEW s \in GroupSignals(e, i), e.sig[s].state # "resolved" PROVE FALSE
    <2>1. s \in Signals /\ e.sig[s].owner \in Group(e, i) /\ e.sig[s].state = "active"
      BY <1>5, Rows DEF GroupSignals, SigRows
    <2>2. Root(e, e.sig[s].owner) = i
      BY <1>4, <2>1 DEF Group
    <2>3. d.sig[s].state = "active" /\ d.sig[s].owner = e.sig[s].owner
      BY <2>1, <2>2 DEF Calm, Ages
    <2>4. s \in GroupSignals(d, i)
      BY <1>3, <2>1, <2>3 DEF GroupSignals, Shrinks
    <2> QED
      BY <1>2, <2>3, <2>4 DEF Uncleared
  <1> QED
    BY <1>4, <1>5 DEF Uncleared

LEMMA WatchedStands ==
    ASSUME NEW d, NEW e, Sane(d), Sane(e), Moves(d, e), NEW i \in Incidents, NEW me \in WorkerRows,
           d.job[me.job].inc = i, e.job[me.job].inc = i, Watched(d, me),
           Shrinks(d, e, i) \/ Apart(d, e, i)
    PROVE  Watched(e, me)
  <1>1. /\ me.ver <= d.inc[i].ver /\ me.fence # {}
        /\ \A f \in me.fence : /\ f[1] \in Signals /\ f[3] = "resolved"
                               /\ d.sig[f[1]].state # "absent" /\ f[2] <= d.sig[f[1]].ver
        /\ d.inc[i].ver = me.ver =>
             d.inc[i].cause = None \/ Fenced(me) \cap GroupSignals(d, i) = {}
    BY DEF Watched
  <1>2. /\ d.inc[i].ver \in Nat /\ e.inc[i].ver \in Nat /\ me.ver \in Nat
        /\ d.inc[i].ver <= e.inc[i].ver
    BY Rows DEF IncRows, WorkerRows, Moves
  <1>3. me.ver <= e.inc[i].ver
    BY <1>1, <1>2
  <1>4. ASSUME NEW f \in me.fence
        PROVE  e.sig[f[1]].state # "absent" /\ f[2] <= e.sig[f[1]].ver
    <2>1. f[1] \in Signals /\ f[2] \in Nat
      BY <1>1 DEF WorkerRows, Fences
    <2>2. d.sig[f[1]].ver \in Nat /\ e.sig[f[1]].ver \in Nat
      BY <2>1, Rows DEF SigRows
    <2>3. Ages(d.sig[f[1]], e.sig[f[1]])
      BY <2>1 DEF Moves
    <2> QED
      BY <1>1, <2>1, <2>2, <2>3 DEF Ages
  <1>5. ASSUME e.inc[i].ver = me.ver, e.inc[i].cause # None,
               NEW s \in Fenced(me) \cap GroupSignals(e, i)
        PROVE  FALSE
    <2>1. d.inc[i].ver = me.ver /\ ~(d.inc[i].ver < e.inc[i].ver)
      BY <1>1, <1>2, <1>5
    <2>2. Shrinks(d, e, i)
      BY <1>5, <2>1 DEF Apart
    <2>3. d.inc[i].cause # None
      BY <1>5, <2>2 DEF Shrinks
    <2>4. s \in Signals /\ d.sig[s].state # "absent" /\ e.sig[s].owner \in Group(e, i)
      BY <1>1, <1>5 DEF Fenced, GroupSignals
    <2>5. s \in GroupSignals(d, i)
      BY <2>2, <2>4 DEF GroupSignals, Shrinks, Moves, Ages
    <2> QED
      BY <1>1, <1>5, <2>1, <2>3, <2>5
  <1> QED
    BY <1>1, <1>3, <1>4, <1>5 DEF Watched

\* Who finds version and fence of the check, finds what was there all along.
LEMMA FenceStands ==
    ASSUME NEW d, NEW e, Sane(d), Sane(e), Moves(d, e), NEW i \in Incidents, NEW me \in WorkerRows,
           d.job[me.job].inc = i, Watched(d, me), Same(d, e, i) \/ Apart(d, e, i),
           e.inc[i].ver = me.ver, SignalFence(e, i) = me.fence
    PROVE  d.inc[i].ver = me.ver /\ SignalFence(d, i) = me.fence /\ AllResolved(e, i)
  <1>1. /\ me.ver <= d.inc[i].ver /\ me.fence # {}
        /\ \A f \in me.fence : /\ f[1] \in Signals /\ f[3] = "resolved"
                               /\ d.sig[f[1]].state # "absent" /\ f[2] <= d.sig[f[1]].ver
    BY DEF Watched
  <1>2. /\ d.inc[i].ver \in Nat /\ e.inc[i].ver \in Nat /\ me.ver \in Nat
        /\ d.inc[i].ver <= e.inc[i].ver
    BY Rows DEF IncRows, WorkerRows, Moves
  <1>3. d.inc[i].ver = me.ver
    BY <1>1, <1>2
  <1>4. GroupSignals(e, i) # {}
    BY <1>1 DEF SignalFence
  <1>5. Group(e, i) = Group(d, i)
    BY <1>2, <1>3, <1>4 DEF Same, Apart
  <1>6. ASSUME NEW s \in GroupSignals(e, i)
        PROVE  /\ s \in GroupSignals(d, i) /\ e.sig[s].state = "resolved"
               /\ e.sig[s].ver = d.sig[s].ver /\ e.sig[s].state = d.sig[s].state
    <2>1. <<s, e.sig[s].ver, e.sig[s].state>> \in me.fence /\ s \in Signals
      BY DEF SignalFence, GroupSignals
    <2>2. e.sig[s].state = "resolved" /\ d.sig[s].state # "absent" /\ e.sig[s].ver <= d.sig[s].ver
      BY <1>1, <2>1
    <2>3. Ages(d.sig[s], e.sig[s]) /\ d.sig[s].ver \in Nat /\ e.sig[s].ver \in Nat
      BY <2>1, Rows DEF Moves, SigRows
    <2>4. e.sig[s].ver = d.sig[s].ver
      BY <2>2, <2>3 DEF Ages
    <2>5. s \in GroupSignals(d, i)
      BY <1>5, <2>1, <2>2, <2>3 DEF GroupSignals, Ages
    <2> QED
      BY <2>2, <2>3, <2>4, <2>5 DEF Ages
  <1>7. GroupSignals(d, i) \subseteq GroupSignals(e, i)
    BY <1>5 DEF GroupSignals, Moves, Ages
  <1>8. GroupSignals(d, i) = GroupSignals(e, i)
    BY <1>6, <1>7
  <1>9. SignalFence(d, i) = SignalFence(e, i)
    BY <1>6, <1>8 DEF SignalFence
  <1>10. AllResolved(e, i)
    BY <1>4, <1>6 DEF AllResolved
  <1> QED
    BY <1>3, <1>9, <1>10

\* A verdict that is still shown is of a group that was clear before.
LEMMA ProofStands ==
    ASSUME NEW d, NEW e, Sane(d), Sane(e), Calm(d, e), Loose(d, e), Verdicts(d), Verdicts(e),
           NEW i \in Incidents, Shows(e.inc[i]), GroupSignals(e, i) # {}
    PROVE  /\ Shows(d.inc[i]) /\ e.inc[i].rec = d.inc[i].rec
           /\ GroupSignals(d, i) # {} /\ AllResolved(e, i)
  <1>1. Shows(d.inc[i]) /\ e.inc[i].rec = d.inc[i].rec
    BY DEF Calm
  <1>2. AllResolved(e, i)
    BY DEF Verdicts, Uncleared, AllResolved
  <1>3. Group(e, i) \subseteq Group(d, i)
    BY DEF Loose, Shrinks, Apart
  <1>4. PICK s : s \in GroupSignals(e, i)
    OBVIOUS
  <1>5. s \in Signals /\ Ages(d.sig[s], e.sig[s]) /\ e.sig[s].state = "resolved"
    BY <1>2, <1>4 DEF Calm, GroupSignals, AllResolved
  <1>6. s \in GroupSignals(d, i)
    BY <1>3, <1>4, <1>5 DEF GroupSignals, Ages
  <1> QED
    BY <1>1, <1>2, <1>6

LEMMA CalmMoves == \A d, e : Calm(d, e) => Moves(d, e)
  BY DEF Calm, Moves

LEMMA CalmVerdict ==
    ASSUME Core, VerdictInv, Sane(db'), Calm(db, db'), Loose(db, db'),
           \A w \in Workers : Onward(w)
    PROVE  VerdictInv'
  <1>1. Sane(db) /\ worker \in [Workers -> WorkerRows]
    BY DEF Core, Solid, Posted
  <1>2. Verdicts(db')
    BY <1>1, VerdictStands DEF VerdictInv
  <1>3. ASSUME NEW w \in Workers, worker'[w].pc = "checking" PROVE Watched(db', worker'[w])
    <2>1. /\ worker[w].pc = "checking" /\ worker'[w].job = worker[w].job
          /\ worker'[w].ver = worker[w].ver /\ worker'[w].fence = worker[w].fence
      BY <1>3 DEF Onward
    <2>2. On(w) \in Incidents /\ worker[w].job \in Jobs
      BY <2>1, OnIn
    <2>3. db'.job[worker[w].job].inc = On(w)
      BY <2>2 DEF Calm, On
    <2>4. Watched(db, worker[w])
      BY <2>1 DEF VerdictInv
    <2>5. Watched(db', worker[w])
      BY <1>1, <2>2, <2>3, <2>4, CalmMoves, WatchedStands DEF On, Loose
    <2> QED
      BY <2>1, <2>5 DEF Watched, Fenced
  <1> QED
    BY <1>2, <1>3 DEF VerdictInv

LEMMA CalmProof ==
    ASSUME Core, VerdictInv, FreshInv, ProofInv, Sane(db'), Calm(db, db'), Loose(db, db'),
           Held(db, db'), \A w \in Workers : Onward(w), Witness
    PROVE  FreshInv' /\ ProofInv'
  <1>1. Sane(db) /\ worker \in [Workers -> WorkerRows]
    BY DEF Core, Solid, Posted
  <1>2. Verdicts(db')
    BY <1>1, VerdictStands DEF VerdictInv
  <1>3. ASSUME NEW w \in Workers, worker'[w].pc = "checking",
               db'.inc[db'.job[worker'[w].job].inc].ver = worker'[w].ver,
               SignalFence(db', db'.job[worker'[w].job].inc) = worker'[w].fence
        PROVE  fresh'[w]
    <2>1. /\ worker[w].pc = "checking" /\ worker'[w].job = worker[w].job
          /\ worker'[w].ver = worker[w].ver /\ worker'[w].fence = worker[w].fence
      BY <1>3 DEF Onward
    <2>2. On(w) \in Incidents /\ worker[w].job \in Jobs
      BY <2>1, OnIn
    <2>3. db'.job[worker[w].job].inc = On(w)
      BY <2>2 DEF Calm, On
    <2>4. Watched(db, worker[w])
      BY <2>1 DEF VerdictInv
    <2>5. /\ db.inc[On(w)].ver = worker[w].ver /\ SignalFence(db, On(w)) = worker[w].fence
          /\ AllResolved(db', On(w))
      <3> DEFINE i  == On(w)
                 me == worker[w]
      <3>1. Same(db, db', i) \/ Apart(db, db', i)
        BY <2>1, <2>2 DEF Held
      <3>2. /\ i \in Incidents /\ me \in WorkerRows /\ db.job[me.job].inc = i
            /\ db'.inc[i].ver = me.ver /\ SignalFence(db', i) = me.fence
        BY <1>1, <1>3, <2>1, <2>2, <2>3 DEF On
      <3>3. Sane(db) /\ Sane(db') /\ Moves(db, db') /\ Watched(db, me)
        BY <1>1, <2>4, CalmMoves
      <3> HIDE DEF i, me
      <3>4. db.inc[i].ver = me.ver /\ SignalFence(db, i) = me.fence /\ AllResolved(db', i)
        BY <3>1, <3>2, <3>3, FenceStands
      <3> QED
        BY <3>4 DEF i, me
    <2>6. fresh[w]
      BY <2>1, <2>5 DEF FreshInv
    <2> QED
      BY <1>3, <2>1, <2>3, <2>5, <2>6 DEF Witness
  <1>4. ASSUME NEW i \in Incidents, Shows(db'.inc[i]), db'.inc[i].rec = "verified",
               GroupSignals(db', i) # {}
        PROVE  proof'[i]
    <2>1. /\ Shows(db.inc[i]) /\ db'.inc[i].rec = db.inc[i].rec
          /\ GroupSignals(db, i) # {} /\ AllResolved(db', i)
      BY <1>1, <1>2, <1>4, ProofStands DEF VerdictInv
    <2>2. proof[i]
      BY <1>4, <2>1 DEF ProofInv
    <2> QED
      BY <1>4, <2>1, <2>2 DEF Witness
  <1>5. FreshInv'
    BY <1>3 DEF FreshInv, On
  <1> QED
    BY <1>4, <1>5 DEF ProofInv

-----------------------------------------------------------------------------
(* The two steps that show a recovery.                                     *)

\* An admitted check is of a clear group, and of its root,
LEMMA AdmittedClear ==
    ASSUME Core, NEW w \in Workers, Admits(w)
    PROVE  /\ worker[w].pc = "cleared" /\ Rules(On(w))
           /\ db.inc[On(w)].cause = None /\ AllResolved(db, On(w))
  <1> DEFINE i == On(w)
  <1>1. worker[w].pc = "cleared" /\ Rules(i) /\ Root(db, i) = i /\ AllResolved(db, i)
    BY DEF Admits, Candidate, Valid
  <1>2. i \in Incidents /\ Sane(db) /\ Rooted(db)
    BY <1>1, OnIn DEF Core, Solid, Whole
  <1> HIDE DEF i
  <1>3. db.inc[i].cause = None
    BY <1>1, <1>2, RootShared DEF Tops
  <1> QED
    BY <1>1, <1>3 DEF i

\* and so is one whose verdict is accepted: its fence is not empty, so a root
\* that was linked meanwhile would have lost the version or the fence.
LEMMA UpheldClear ==
    ASSUME Core, VerdictInv, NEW w \in Workers, Upholds(w)
    PROVE  /\ db.inc[On(w)].ver = worker[w].ver /\ SignalFence(db, On(w)) = worker[w].fence
           /\ db.inc[On(w)].cause = None /\ AllResolved(db, On(w))
  <1> DEFINE i  == On(w)
             me == worker[w]
  <1>1. db.inc[i].ver = me.ver /\ SignalFence(db, i) = me.fence
    BY DEF Upholds, Accepts, Stale
  <1>2. /\ me.fence # {} /\ \A f \in me.fence : f[3] = "resolved"
        /\ db.inc[i].ver = me.ver =>
             db.inc[i].cause = None \/ Fenced(me) \cap GroupSignals(db, i) = {}
    BY DEF Upholds, VerdictInv, Watched, On
  <1> HIDE DEF i, me
  <1>3. ASSUME NEW s \in GroupSignals(db, i)
        PROVE  s \in Fenced(me) /\ db.sig[s].state = "resolved"
    <2> DEFINE f == <<s, db.sig[s].ver, db.sig[s].state>>
    <2>1. f \in me.fence
      BY <1>1 DEF SignalFence
    <2>2. f[1] = s /\ f[3] = db.sig[s].state
      OBVIOUS
    <2>3. f[3] = "resolved"
      BY <1>2, <2>1
    <2>4. f[1] \in Fenced(me)
      BY <2>1 DEF Fenced
    <2> HIDE DEF f
    <2> QED
      BY <2>2, <2>3, <2>4
  <1>4. GroupSignals(db, i) # {}
    BY <1>1, <1>2 DEF SignalFence
  <1>5. db.inc[i].cause = None
    BY <1>1, <1>2, <1>3, <1>4
  <1>6. AllResolved(db, i)
    BY <1>3, <1>4 DEF AllResolved
  <1> QED
    BY <1>1, <1>5, <1>6 DEF i, me

LEMMA RulesMoves ==
    ASSUME Sane(db), NEW i \in Incidents, Rules(i)
    PROVE  Moves(db, db') /\ \A k \in Incidents : Same(db, db', k)
  <1>1. \A s \in Signals : db.sig[s].ver \in Nat
    BY Rows DEF SigRows
  <1>2. \A s \in Signals : Ages(db.sig[s], db'.sig[s])
    BY <1>1 DEF Rules, Ages
  <1>3. \A k \in Incidents : Same(db, db', k)
    BY SameGroups DEF Rules, Same
  <1> QED
    BY <1>2, <1>3 DEF Moves, Rules

\* What they leave of the other incidents and of the other checks.
LEMMA RulesVerdict ==
    ASSUME Core, VerdictInv, NEW w \in Workers, worker[w].pc # "idle", Rules(On(w)),
           db.inc[On(w)].cause = None, AllResolved(db, On(w)),
           \A v \in Workers \ {w} : worker'[v] = worker[v],
           worker'[w].pc = "checking" => Watched(db', worker'[w])
    PROVE  VerdictInv'
  <1> DEFINE i == On(w)
  <1>1. Sane(db) /\ Sane(db') /\ i \in Incidents /\ worker \in [Workers -> WorkerRows]
    BY OnIn DEF Core, Solid, Posted, Rules
  <1>2. Rules(i) /\ db.inc[i].cause = None /\ AllResolved(db, i)
    OBVIOUS
  <1> HIDE DEF i
  <1>3. Moves(db, db') /\ \A k \in Incidents : Same(db, db', k)
    BY <1>1, <1>2, RulesMoves
  <1>4. ASSUME NEW k \in Incidents, Shows(db'.inc[k])
        PROVE  db'.inc[k].cause = None /\ ~Uncleared(db', k)
    <2>1. db'.inc[k].cause = db.inc[k].cause /\ Uncleared(db', k) = Uncleared(db, k)
      BY <1>2, SameGroups DEF Rules
    <2>2. CASE k = i
      BY <1>2, <2>1, <2>2 DEF AllResolved, Uncleared
    <2>3. CASE k # i
      BY <1>2, <1>4, <2>1, <2>3 DEF Rules, VerdictInv, Verdicts
    <2> QED
      BY <2>2, <2>3
  <1>5. ASSUME NEW v \in Workers \ {w}, worker'[v].pc = "checking" PROVE Watched(db', worker'[v])
    <2>1. worker'[v] = worker[v] /\ worker[v].pc = "checking"
      BY <1>5
    <2>2. worker[v].job \in Jobs /\ On(v) \in Incidents /\ worker[v] \in WorkerRows
      BY <1>1, <2>1, OnIn
    <2>3. db'.job[worker[v].job].inc = On(v) /\ db.job[worker[v].job].inc = On(v)
      BY <1>2, <2>2 DEF Rules, On
    <2>4. Watched(db, worker[v])
      BY <2>1 DEF VerdictInv
    <2>5. Shrinks(db, db', On(v))
      BY <1>3, <2>2 DEF Same, Shrinks
    <2>6. Watched(db', worker[v])
      BY <1>1, <1>3, <2>2, <2>3, <2>4, <2>5, WatchedStands
    <2> QED
      BY <2>1, <2>6
  <1> QED
    BY <1>4, <1>5 DEF VerdictInv, Verdicts

LEMMA RulesProof ==
    ASSUME Core, VerdictInv, FreshInv, ProofInv, Verdicts(db'), Witness,
           NEW w \in Workers, worker[w].pc # "idle", Rules(On(w)),
           \A v \in Workers \ {w} : worker'[v] = worker[v],
           worker'[w].pc = "checking" =>
             worker[w].pc # "checking" /\ AllResolved(db', db'.job[worker'[w].job].inc),
           db'.inc[On(w)].rec = "verified" => proof'[On(w)]
    PROVE  FreshInv' /\ ProofInv'
  <1> DEFINE i == On(w)
  <1>1. Sane(db) /\ Sane(db') /\ i \in Incidents /\ worker \in [Workers -> WorkerRows]
    BY OnIn DEF Core, Solid, Posted, Rules
  <1>2. Rules(i) /\ (db'.inc[i].rec = "verified" => proof'[i])
    OBVIOUS
  <1> HIDE DEF i
  <1>3. Moves(db, db') /\ \A k \in Incidents : Same(db, db', k)
    BY <1>1, <1>2, RulesMoves
  <1>4. ASSUME NEW v \in Workers, worker'[v].pc = "checking",
               db'.inc[db'.job[worker'[v].job].inc].ver = worker'[v].ver,
               SignalFence(db', db'.job[worker'[v].job].inc) = worker'[v].fence
        PROVE  fresh'[v]
    <2>1. CASE v = w
      BY <1>4, <2>1 DEF Witness
    <2>2. CASE v # w
      <3>1. worker'[v] = worker[v] /\ worker[v].pc = "checking"
        BY <1>4, <2>2
      <3>2. worker[v].job \in Jobs /\ On(v) \in Incidents /\ worker[v] \in WorkerRows
        BY <1>1, <3>1, OnIn
      <3>3. db'.job[worker[v].job].inc = On(v) /\ db.job[worker[v].job].inc = On(v)
        BY <1>2, <3>2 DEF Rules, On
      <3>4. Watched(db, worker[v])
        BY <3>1 DEF VerdictInv
      <3>5. db'.inc[On(v)].ver = worker[v].ver /\ SignalFence(db', On(v)) = worker[v].fence
        BY <1>4, <3>1, <3>3
      <3>6. /\ db.inc[On(v)].ver = worker[v].ver /\ SignalFence(db, On(v)) = worker[v].fence
            /\ AllResolved(db', On(v))
        BY <1>1, <1>3, <3>2, <3>3, <3>4, <3>5, FenceStands
      <3>7. fresh[v]
        BY <3>1, <3>6 DEF FreshInv
      <3> QED
        BY <3>1, <3>3, <3>5, <3>6, <3>7 DEF Witness
    <2> QED
      BY <2>1, <2>2
  <1>5. ASSUME NEW k \in Incidents, Shows(db'.inc[k]), db'.inc[k].rec = "verified",
               GroupSignals(db', k) # {}
        PROVE  proof'[k]
    <2>1. CASE k = i
      BY <1>2, <1>5, <2>1
    <2>2. CASE k # i
      <3>1. Shows(db.inc[k]) /\ db.inc[k].rec = "verified"
        BY <1>2, <1>5, <2>2 DEF Rules
      <3>2. GroupSignals(db, k) # {}
        BY <1>2, <1>5, SameGroups DEF Rules
      <3>3. AllResolved(db', k)
        BY <1>5 DEF Verdicts, Uncleared, AllResolved
      <3>4. proof[k]
        BY <3>1, <3>2 DEF ProofInv
      <3> QED
        BY <1>5, <3>3, <3>4 DEF Witness
    <2> QED
      BY <2>1, <2>2
  <1>6. FreshInv'
    BY <1>4 DEF FreshInv, On
  <1> QED
    BY <1>5, <1>6 DEF ProofInv

LEMMA AdmitsKeeps ==
    ASSUME Core, VerdictInv, NEW w \in Workers, Admits(w)
    PROVE  VerdictInv' /\ (FreshInv /\ ProofInv /\ Witness => FreshInv' /\ ProofInv')
  <1> DEFINE i  == On(w)
             me == worker[w]
  <1>1. /\ me.pc = "cleared" /\ Rules(i) /\ db.inc[i].cause = None /\ AllResolved(db, i)
        /\ Sane(db) /\ i \in Incidents /\ me.job \in Jobs /\ me \in WorkerRows
    BY AdmittedClear, OnIn DEF Core, Solid, Posted
  <1>2. /\ worker'[w].job = me.job /\ worker'[w].ver = me.ver /\ worker'[w].fence = me.fence
        /\ \A v \in Workers \ {w} : worker'[v] = worker[v]
        /\ db'.inc[i].rec = "verifying"
        /\ db.inc[i].ver = me.ver /\ SignalFence(db, i) = me.fence
    BY DEF Admits, Valid, Stale
  <1>3. db'.job[me.job].inc = i
    BY <1>1 DEF Rules, On
  <1> HIDE DEF i
  <1>4. AllResolved(db', i) /\ SignalFence(db', i) = me.fence
    BY <1>1, <1>2, SameGroups DEF Rules
  <1>5. Watched(db', worker'[w])
    <2>1. me.ver <= db'.inc[i].ver
      BY <1>1, <1>2 DEF Rules
    <2>2. me.fence # {}
      BY <1>1, <1>2 DEF AllResolved, SignalFence
    <2>3. ASSUME NEW f \in me.fence
          PROVE  /\ f[1] \in Signals /\ f[3] = "resolved"
                 /\ db'.sig[f[1]].state # "absent" /\ f[2] <= db'.sig[f[1]].ver
      <3>1. PICK s \in GroupSignals(db', i) : f = <<s, db'.sig[s].ver, db'.sig[s].state>>
        BY <1>4 DEF SignalFence
      <3>2. s \in Signals /\ db'.sig[s].state = "resolved"
        BY <1>4 DEF AllResolved, GroupSignals
      <3>3. db'.sig[s].ver \in Nat
        BY <1>1, <3>2, Rows DEF Rules, SigRows
      <3> QED
        BY <3>1, <3>2, <3>3
    <2>4. db'.inc[i].cause = None
      BY <1>1 DEF Rules
    <2> QED
      BY <1>2, <1>3, <2>1, <2>2, <2>3, <2>4 DEF Watched
  <1>6. VerdictInv'
    BY <1>1, <1>2, <1>5, RulesVerdict DEF i
  <1>7. ASSUME FreshInv, ProofInv, Witness PROVE FreshInv' /\ ProofInv'
    <2>1. db'.inc[i].rec # "verified" /\ me.pc # "checking" /\ Verdicts(db')
      BY <1>1, <1>2, <1>6 DEF VerdictInv
    <2>2. AllResolved(db', db'.job[worker'[w].job].inc)
      BY <1>2, <1>3, <1>4
    <2> QED
      BY <1>1, <1>2, <1>7, <2>1, <2>2, RulesProof DEF i
  <1> QED
    BY <1>6, <1>7

LEMMA UpholdsProves ==
    ASSUME Core, VerdictInv, FreshInv, Witness, NEW w \in Workers, Upholds(w)
    PROVE  AllResolved(db', On(w)) /\ (db'.inc[On(w)].rec = "verified" => proof'[On(w)])
  <1> DEFINE i == On(w)
  <1>1. /\ worker[w].pc = "checking" /\ worker'[w].pc = "returning" /\ Rules(i)
        /\ db.inc[i].ver = worker[w].ver /\ SignalFence(db, i) = worker[w].fence
        /\ AllResolved(db, i)
    BY UpheldClear DEF Upholds
  <1>2. i \in Incidents
    BY <1>1, OnIn
  <1>3. fresh[w]
    BY <1>1 DEF FreshInv
  <1>4. On(w) = i
    OBVIOUS
  <1> HIDE DEF i
  <1>5. AllResolved(db', i)
    BY <1>1, <1>2, SameGroups DEF Rules
  <1>6. db'.inc[i].rec = "verified" => proof'[i]
    BY <1>1, <1>2, <1>3, <1>4, <1>5 DEF Witness
  <1> QED
    BY <1>4, <1>5, <1>6

LEMMA UpholdsKeeps ==
    ASSUME Core, VerdictInv, NEW w \in Workers, Upholds(w)
    PROVE  VerdictInv' /\ (FreshInv /\ ProofInv /\ Witness => FreshInv' /\ ProofInv')
  <1>1. /\ worker[w].pc # "idle" /\ worker'[w].pc # "checking" /\ Rules(On(w))
        /\ \A v \in Workers \ {w} : worker'[v] = worker[v]
    BY DEF Upholds
  <1>2. db.inc[On(w)].cause = None /\ AllResolved(db, On(w))
    BY UpheldClear
  <1>3. VerdictInv'
    BY <1>1, <1>2, RulesVerdict
  <1>4. ASSUME FreshInv, ProofInv, Witness PROVE FreshInv' /\ ProofInv'
    <2>1. Verdicts(db') /\ (db'.inc[On(w)].rec = "verified" => proof'[On(w)])
      BY <1>3, <1>4, UpholdsProves DEF VerdictInv
    <2> QED
      BY <1>1, <1>4, <2>1, RulesProof
  <1> QED
    BY <1>3, <1>4

-----------------------------------------------------------------------------
(* Every step.                                                             *)

\* Most steps keep what is shown or take it back.
Keeping ==
    /\ Sane(db') /\ Calm(db, db') /\ Loose(db, db')
    /\ UncheckedArchive => Held(db, db')
    /\ \A w \in Workers : Onward(w)
    /\ Plain(db, db') \/ \E i \in Incidents : DecideApproval(i, FALSE)

LEMMA SereneKeeping == Serene => Keeping
  BY FirmLoose DEF Serene, Calmly, Keeping

LEMMA IdleKeeping == Core /\ UNCHANGED <<db, worker>> => Keeping
  <1> SUFFICES ASSUME Core, UNCHANGED <<db, worker>> PROVE Keeping
    OBVIOUS
  <1>1. Sane(db) /\ db' = db /\ \A w \in Workers : Onward(w)
    BY DEF Core, Solid, Onward
  <1>2. Eases(db, db') /\ Mild(db, db')
    BY <1>1, EasesOn, MildOn
  <1> QED
    BY <1>1, <1>2, EasesSerene, SereneKeeping

LEMMA StepKinds ==
    ASSUME Core, Step
    PROVE  Keeping \/ Moving \/ \E w \in Workers : Admits(w) \/ Upholds(w)
  <1>1. CASE World /\ ~Moving
    <2>1. /\ Sane(db') /\ Calm(db, db') /\ Loose(db, db') /\ UNCHANGED worker
          /\ UncheckedArchive => Held(db, db')
          /\ Plain(db, db') \/ \E i \in Incidents : DecideApproval(i, FALSE)
      BY <1>1, WorldCalm DEF Core
    <2> QED
      BY <2>1 DEF Keeping, Onward
  <1>2. CASE Queue
    BY <1>2, QueueSerene, SereneKeeping DEF Queue
  <1>3. ASSUME NEW w \in Workers, Handle(w) \/ Fault(w)
        PROVE  Keeping \/ Admits(w) \/ Upholds(w)
    <2>1. CASE Return(w) \/ Throw(w) \/ Crash(w) \/ Stall(w)
      BY <2>1, LeavingSerene, SereneKeeping
    <2>2. CASE \/ NonPromote(w) \/ EngineFails(w) \/ RestoreStep(w) \/ ProviderContended(w)
               \/ ProviderCheck(w) \/ \E finalizing \in BOOLEAN : SetupFails(w, finalizing)
      BY <2>2, EngineSerene, SereneKeeping
    <2>3. CASE Begin(w, FALSE) \/ Begin(w, TRUE)
      BY <2>3, BeginSerene, SereneKeeping
    <2>4. CASE \E outcome \in {"recovered", "recheck", "needs_human"} : Finalize(w, outcome)
      BY <2>4, FinalizeSerene, SereneKeeping
    <2> QED
      BY <1>3, <2>1, <2>2, <2>3, <2>4 DEF Handle, Fault
  <1>4. ASSUME NEW i \in Incidents, LockExpires(i) PROVE Keeping
    BY <1>4, IdleKeeping DEF LockExpires
  <1>5. ASSUME NEW w \in Workers, Deliver(w) PROVE Keeping
    <2>1. CASE \E j \in Jobs : Claim(w, j)
      BY <2>1, QueueSerene, SereneKeeping
    <2>2. CASE Lose(w) \/ \E j \in Jobs : Fetch(w, j)
      BY <2>2, IdleKeeping DEF Lose, Fetch
    <2> QED
      BY <1>5, <2>1, <2>2 DEF Deliver
  <1> QED
    BY <1>1, <1>2, <1>3, <1>4, <1>5 DEF Step

\* What a merge or split leaves: edges, states and versions.
LEMMA MovingRest ==
    ASSUME Core, Moving
    PROVE  /\ Sane(db) /\ Rooted(db) /\ Sane(db') /\ worker' = worker
           /\ worker \in [Workers -> WorkerRows] /\ db'.job = db.job
           /\ \A k \in Incidents :
                /\ Recedes(db.inc[k], db'.inc[k]) /\ db'.inc[k].cause = db.inc[k].cause
                /\ Root(db', k) = Root(db, k) /\ Group(db', k) = Group(db, k)
           /\ Rooted(db')
           /\ \A s \in Signals :
                db'.sig[s].state = db.sig[s].state /\ db'.sig[s].ver = db.sig[s].ver
  <1>1. /\ Sane(db) /\ Rooted(db) /\ Sane(db') /\ worker' = worker
        /\ worker \in [Workers -> WorkerRows] /\ db'.job = db.job
        /\ \A k \in Incidents : Recedes(db.inc[k], db'.inc[k])
    BY DEF Core, Solid, Whole, Posted, Moving, Shifts
  <1>2. \A k \in Incidents : db'.inc[k].cause = db.inc[k].cause
    BY <1>1 DEF Recedes
  <1>3. /\ \A k \in Incidents : Root(db', k) = Root(db, k) /\ Group(db', k) = Group(db, k)
        /\ Rooted(db')
    BY <1>1, <1>2, RootsSame
  <1>4. ASSUME NEW s \in Signals
        PROVE  db'.sig[s].state = db.sig[s].state /\ db'.sig[s].ver = db.sig[s].ver
    <2>1. db.sig[s] \in SigRows
      BY <1>1, Rows
    <2>2. PICK to \in Incidents : db'.sig[s] = [db.sig[s] EXCEPT !.owner = to]
      BY DEF Moving, Shifts
    <2> QED
      BY <2>1, <2>2 DEF SigRows
  <1> QED
    BY <1>1, <1>2, <1>3, <1>4

\* A signal that is new to a group came with the step, to a member.
LEMMA MovedIn ==
    ASSUME Core, Moving,
           NEW i \in Incidents, NEW s \in GroupSignals(db', i), s \notin GroupSignals(db, i)
    PROVE  /\ s \in Signals /\ Moved(s)
           /\ Root(db', db'.sig[s].owner) = Root(db', i)
           /\ i \in Group(db', db'.sig[s].owner) /\ i \in Group(db, db'.sig[s].owner)
  <1>1. s \in Signals /\ db'.sig[s].state # "absent" /\ db'.sig[s].owner \in Group(db', i)
    BY DEF GroupSignals
  <1>2. Moved(s)
    BY <1>1, MovingRest DEF GroupSignals, Moved
  <1>3. db'.sig[s].owner \in Incidents /\ Root(db', db'.sig[s].owner) = Root(db', i)
    BY <1>1 DEF Group
  <1>4. i \in Group(db', db'.sig[s].owner)
    BY <1>3 DEF Group
  <1>5. Group(db', db'.sig[s].owner) = Group(db, db'.sig[s].owner)
    BY <1>3, MovingRest
  <1> QED
    BY <1>1, <1>2, <1>3, <1>4, <1>5

LEMMA MovingVerdict ==
    ASSUME Core, VerdictInv, ClearMoves, Moving
    PROVE  VerdictInv'
  <1>1. /\ Sane(db) /\ Sane(db') /\ worker' = worker /\ worker \in [Workers -> WorkerRows]
        /\ \A k \in Incidents : Recedes(db.inc[k], db'.inc[k])
        /\ db'.job = db.job
    BY MovingRest
  <1>2. \A k \in Incidents : db'.inc[k].cause = db.inc[k].cause
    BY MovingRest
  <1>3. \A s \in Signals : db'.sig[s].state = db.sig[s].state /\ db'.sig[s].ver = db.sig[s].ver
    BY MovingRest
  <1>4. Verdicts(db')
    <2> SUFFICES ASSUME NEW i \in Incidents, Shows(db'.inc[i])
                 PROVE  db'.inc[i].cause = None /\ ~Uncleared(db', i)
      BY DEF Verdicts
    <2>1. Shows(db.inc[i])
      BY <1>1 DEF Recedes
    <2>2. db.inc[i].cause = None /\ ~Uncleared(db, i)
      BY <2>1 DEF VerdictInv, Verdicts
    <2>3. ASSUME NEW s \in GroupSignals(db', i) PROVE db'.sig[s].state = "resolved"
      <3>1. s \in Signals
        BY DEF GroupSignals
      <3>2. CASE s \in GroupSignals(db, i)
        BY <1>3, <2>2, <3>1, <3>2 DEF Uncleared
      <3>3. CASE s \notin GroupSignals(db, i)
        <4>1. Moved(s) /\ Root(db', db'.sig[s].owner) = Root(db', i)
          BY <3>3, MovedIn
        <4>2. Root(db', i) = i
          BY <1>2, <2>2 DEF Root
        <4> QED
          BY <3>1, <4>1, <4>2 DEF ClearMoves
      <3> QED
        BY <3>2, <3>3
    <2> QED
      BY <1>2, <2>2, <2>3 DEF Uncleared
  <1>5. ASSUME NEW w \in Workers, worker[w].pc = "checking" PROVE Watched(db', worker[w])
    <2> DEFINE i  == On(w)
               me == worker[w]
    <2>1. i \in Incidents /\ i = On(w) /\ db.job[me.job].inc = i /\ db'.job[me.job].inc = i
      BY <1>1, <1>5, OnIn DEF On
    <2>2. me \in WorkerRows
      BY <1>1
    <2>3. Watched(db, me)
      BY <1>5 DEF VerdictInv
    <2> HIDE DEF i, me
    <2>4. /\ me.ver <= db.inc[i].ver /\ me.fence # {}
          /\ \A f \in me.fence : /\ f[1] \in Signals /\ f[3] = "resolved"
                                 /\ db.sig[f[1]].state # "absent" /\ f[2] <= db.sig[f[1]].ver
          /\ db.inc[i].ver = me.ver =>
               db.inc[i].cause = None \/ Fenced(me) \cap GroupSignals(db, i) = {}
      BY <2>1, <2>3 DEF Watched
    <2>5. /\ db.inc[i].ver \in Nat /\ db'.inc[i].ver \in Nat /\ me.ver \in Nat
          /\ db.inc[i].ver <= db'.inc[i].ver
      BY <1>1, <2>1, <2>2, Rows DEF IncRows, WorkerRows, Recedes
    <2>6. me.ver <= db'.inc[i].ver
      BY <2>4, <2>5
    <2>7. \A f \in me.fence : db'.sig[f[1]].state # "absent" /\ f[2] <= db'.sig[f[1]].ver
      BY <1>3, <2>4
    <2>8. ASSUME db'.inc[i].ver = me.ver, db'.inc[i].cause # None
          PROVE  Fenced(me) \cap GroupSignals(db', i) = {}
      <3>1. db.inc[i].ver = me.ver
        BY <2>4, <2>5, <2>8
      <3>2. db.inc[i].cause # None
        BY <1>2, <2>1, <2>8
      <3>3. GroupSignals(db', i) \subseteq GroupSignals(db, i)
        <4> SUFFICES ASSUME NEW s \in GroupSignals(db', i), s \notin GroupSignals(db, i)
                     PROVE  FALSE
          OBVIOUS
        <4>1. s \in Signals /\ Moved(s) /\ i \in Group(db', db'.sig[s].owner)
          BY <2>1, MovedIn
        <4> QED
          BY <1>5, <2>1, <2>8, <4>1 DEF ClearMoves
      <3> QED
        BY <2>4, <3>1, <3>2, <3>3
    <2>9. Watched(db', me)
      BY <2>1, <2>4, <2>6, <2>7, <2>8 DEF Watched
    <2> QED
      BY <2>9 DEF me
  <1> QED
    BY <1>1, <1>4, <1>5 DEF VerdictInv

\* Who finds version and fence of the check finds what was there before, for
\* the check is of another group.
LEMMA MovingProof ==
    ASSUME Core, VerdictInv, FreshInv, ProofInv, ClearMoves, UncheckedMoves, Moving, Witness
    PROVE  FreshInv' /\ ProofInv'
  <1>1. /\ Sane(db) /\ Rooted(db) /\ Sane(db') /\ worker' = worker
        /\ worker \in [Workers -> WorkerRows] /\ db'.job = db.job
    BY MovingRest
  <1>2. /\ \A k \in Incidents :
             /\ Recedes(db.inc[k], db'.inc[k])
             /\ Root(db', k) = Root(db, k) /\ Group(db', k) = Group(db, k)
        /\ \A s \in Signals :
             db'.sig[s].state = db.sig[s].state /\ db'.sig[s].ver = db.sig[s].ver
    BY MovingRest
  <1>3. VerdictInv'
    BY MovingVerdict
  <1>4. ASSUME NEW w \in Workers, worker[w].pc = "checking",
               db'.inc[On(w)].ver = worker[w].ver, SignalFence(db', On(w)) = worker[w].fence
        PROVE  fresh'[w]
    <2> DEFINE i  == On(w)
               me == worker[w]
    <2>1. i \in Incidents /\ db.job[me.job].inc = i /\ i = On(w) /\ me \in WorkerRows
      BY <1>1, <1>4, OnIn DEF On
    <2>2. /\ me.ver <= db.inc[i].ver /\ me.fence # {}
          /\ \A f \in me.fence : f[3] = "resolved"
      BY <1>4 DEF VerdictInv, Watched, On
    <2> HIDE DEF i
    <2>3. db.inc[i].ver = me.ver /\ db'.inc[i].ver = db.inc[i].ver
      <3>1. db.inc[i].ver \in Nat /\ db'.inc[i].ver \in Nat /\ db.inc[i].ver <= db'.inc[i].ver
        BY <1>1, <1>2, <2>1, Rows DEF IncRows, Recedes
      <3>2. db'.inc[i].ver = me.ver
        BY <1>4, <2>1
      <3> QED
        BY <2>2, <3>1, <3>2
    <2>4. ASSUME NEW s \in Signals, db.sig[s].owner \in Group(db, i), db'.sig[s].state # "absent"
          PROVE  db'.sig[s].owner = db.sig[s].owner
      <3> SUFFICES ASSUME db'.sig[s].owner # db.sig[s].owner PROVE FALSE
        OBVIOUS
      <3>1. i \notin Group(db, db.sig[s].owner)
        BY <1>4, <2>1, <2>4 DEF UncheckedMoves, Moved
      <3> QED
        BY <2>1, <2>4, <3>1 DEF Group
    <2>5. ASSUME NEW s \in GroupSignals(db', i) PROVE s \in GroupSignals(db, i)
      <3> SUFFICES ASSUME s \notin GroupSignals(db, i) PROVE FALSE
        OBVIOUS
      <3>1. s \in Signals /\ Moved(s) /\ i \in Group(db, db'.sig[s].owner)
        BY <2>1, MovedIn
      <3> QED
        BY <1>4, <2>1, <3>1 DEF UncheckedMoves
    <2>6. GroupSignals(db', i) = GroupSignals(db, i)
      BY <1>2, <2>1, <2>4, <2>5 DEF GroupSignals
    <2>7. SignalFence(db', i) = SignalFence(db, i)
      <3>1. GroupSignals(db, i) \subseteq Signals
        BY DEF GroupSignals
      <3> QED
        BY <1>2, <2>6, <3>1 DEF SignalFence
    <2>8. AllResolved(db', i)
      <3>1. SignalFence(db', i) = me.fence
        BY <1>4, <2>1
      <3>2. GroupSignals(db', i) # {}
        BY <2>2, <3>1 DEF SignalFence
      <3>3. ASSUME NEW s \in GroupSignals(db', i) PROVE db'.sig[s].state = "resolved"
        <4>1. <<s, db'.sig[s].ver, db'.sig[s].state>> \in me.fence
          BY <3>1 DEF SignalFence
        <4> QED
          BY <2>2, <4>1
      <3> QED
        BY <3>2, <3>3 DEF AllResolved
    <2>9. fresh[w]
      <3>1. On(w) = i /\ SignalFence(db, i) = me.fence
        BY <1>4, <2>1, <2>7
      <3> QED
        BY <1>4, <2>3, <3>1 DEF FreshInv
    <2>10. worker'[w] = worker[w] /\ db'.job[worker'[w].job].inc = i
      BY <1>1, <2>1
    <2> QED
      BY <1>4, <2>1, <2>3, <2>8, <2>9, <2>10 DEF Witness
  <1>5. ASSUME NEW i \in Incidents, Shows(db'.inc[i]), db'.inc[i].rec = "verified",
               GroupSignals(db', i) # {}
        PROVE  proof'[i]
    <2>1. Shows(db.inc[i]) /\ db.inc[i].rec = "verified"
      BY <1>2, <1>5 DEF Recedes
    <2>2. GroupSignals(db', i) \subseteq GroupSignals(db, i)
      <3> SUFFICES ASSUME NEW s \in GroupSignals(db', i), s \notin GroupSignals(db, i) PROVE FALSE
        OBVIOUS
      <3>1. s \in Signals /\ Moved(s) /\ Root(db', db'.sig[s].owner) = Root(db', i)
        BY MovedIn
      <3>2. Root(db', i) = i
        BY <1>3, <1>5 DEF VerdictInv, Verdicts, Root
      <3> QED
        BY <1>5, <3>1, <3>2 DEF UncheckedMoves
    <2>3. proof[i]
      BY <1>5, <2>1, <2>2 DEF ProofInv
    <2>4. AllResolved(db', i)
      BY <1>3, <1>5 DEF VerdictInv, Verdicts, Uncleared, AllResolved
    <2> QED
      BY <1>5, <2>3, <2>4 DEF Witness
  <1>6. FreshInv'
    <2> SUFFICES ASSUME NEW w \in Workers, worker'[w].pc = "checking",
                        db'.inc[db'.job[worker'[w].job].inc].ver = worker'[w].ver,
                        SignalFence(db', db'.job[worker'[w].job].inc) = worker'[w].fence
                 PROVE  fresh'[w]
      BY DEF FreshInv, On
    <2> QED
      BY <1>1, <1>4 DEF On
  <1> QED
    BY <1>5, <1>6 DEF ProofInv

LEMMA StepVerdict ==
    ASSUME Core, VerdictInv, ClearMoves, Step
    PROVE  VerdictInv'
  <1>1. CASE Keeping
    BY <1>1, CalmVerdict DEF Keeping
  <1>2. CASE Moving
    BY <1>2, MovingVerdict
  <1>3. ASSUME NEW w \in Workers, Admits(w) \/ Upholds(w) PROVE VerdictInv'
    BY <1>3, AdmitsKeeps, UpholdsKeeps
  <1> QED
    BY <1>1, <1>2, <1>3, StepKinds

LEMMA StepProof ==
    ASSUME Core, VerdictInv, FreshInv, ProofInv, ClearMoves, UncheckedMoves, UncheckedArchive,
           Step, Witness
    PROVE  FreshInv' /\ ProofInv'
  <1>1. CASE Keeping
    BY <1>1, CalmProof DEF Keeping
  <1>2. CASE Moving
    BY <1>2, MovingProof
  <1>3. ASSUME NEW w \in Workers, Admits(w) \/ Upholds(w) PROVE FreshInv' /\ ProofInv'
    BY <1>3, AdmitsKeeps, UpholdsKeeps
  <1> QED
    BY <1>1, <1>2, <1>3, StepKinds

\* Nothing is shown at the start, and no check is under way.
LEMMA VerdictInit == Init => VerdictInv /\ FreshInv /\ ProofInv
  <1> SUFFICES ASSUME Init PROVE VerdictInv /\ FreshInv /\ ProofInv
    OBVIOUS
  <1>1. \A i \in Incidents : db.inc[i].rec = None
    BY DEF Init
  <1>2. \A i \in Incidents : ~Shows(db.inc[i])
    BY <1>1, RecoveryAssumptions DEF Shows
  <1>3. \A w \in Workers : worker[w].pc = "idle"
    BY DEF Init, Idle
  <1> QED
    BY <1>2, <1>3 DEF VerdictInv, Verdicts, FreshInv, ProofInv

LEMMA VerdictNext == Inv /\ VerdictInv /\ [Next]_vars /\ [ClearMoves]_vars => VerdictInv'
  <1> SUFFICES ASSUME Inv, VerdictInv, [Next]_vars, [ClearMoves]_vars PROVE VerdictInv'
    OBVIOUS
  <1>1. CASE UNCHANGED vars
    BY <1>1 DEF vars, VerdictInv, Verdicts, Watched, Fenced, Uncleared, GroupSignals
  <1>2. CASE Next /\ ClearMoves
    BY <1>2, StepVerdict DEF Next, Inv
  <1> QED
    BY <1>1, <1>2

LEMMA ProofNext ==
    /\ Inv /\ VerdictInv /\ FreshInv /\ ProofInv /\ [Next]_vars
    /\ [ClearMoves /\ UncheckedMoves /\ UncheckedArchive]_vars
    => FreshInv' /\ ProofInv'
  <1> SUFFICES ASSUME Inv, VerdictInv, FreshInv, ProofInv, [Next]_vars,
                      [ClearMoves /\ UncheckedMoves /\ UncheckedArchive]_vars
               PROVE  FreshInv' /\ ProofInv'
    OBVIOUS
  <1>1. CASE UNCHANGED vars
    BY <1>1 DEF vars, FreshInv, ProofInv, On, SignalFence, GroupSignals
  <1>2. CASE Next /\ ClearMoves /\ UncheckedMoves /\ UncheckedArchive
    BY <1>2, StepProof DEF Next, Inv
  <1> QED
    BY <1>1, <1>2

\* While the platform shows a recovery in progress or a verified one, no signal
\* of the group is active and only the root shows it: every path that opens a
\* signal, links, unlinks or moves the lifecycle calls clearRecoveryTx for the
\* root, and finalizeRecovery accepts a verdict for the version and the fence
\* of the check only.  mergeIncidentTx and splitMergedIncidentTx change the fence
\* of a root and leave its verdict standing, so they must bring no firing signal
\* to a group that shows a recovery, nor any signal to a group with a linked
\* incident whose check is still under way: that check could find its fence there
\* and be accepted for an incident that is not the root.
THEOREM VerdictsMatch == Spec /\ [][ClearMoves]_vars => []VerdictMatchesSignals
  <1>1. VerdictInv => VerdictMatchesSignals
    <2> SUFFICES ASSUME VerdictInv, NEW i \in Incidents, db.inc[i].status \in Active,
                        db.inc[i].rec \in {"verifying", "monitoring", "verified"}
                 PROVE  Root(db, i) = i /\ ~Uncleared(db, i)
      BY DEF VerdictMatchesSignals
    <2>1. db.inc[i].cause = None /\ ~Uncleared(db, i)
      BY DEF VerdictInv, Verdicts, Shows
    <2> QED
      BY <2>1 DEF Root
  <1> QED
    BY <1>1, InvHolds, VerdictInit, VerdictNext, PTL DEF Spec

-----------------------------------------------------------------------------
(* The automatic resolutions.                                              *)

Earned(k) == proof'[Root(db', k)] /\ ~PendingApproval(db', k)

Resolving(k) ==
    /\ db.inc[k].status \in Active /\ db'.inc[k].status = "resolved"
    /\ db'.inc[k].basis = "verified_recovery"

LEMMA PlainResolves ==
    ASSUME NEW d, d.inc = db.inc, Plain(d, db'), NEW k \in Incidents, Resolving(k)
    PROVE  FALSE
  BY DEF Plain, Resolving, Active

\* The members of a group that is clear since its root was verified.
LEMMA GroupEarned ==
    ASSUME NEW i \in Incidents, NEW k \in Incidents, Root(db', k) = i, Root(db', i) = i,
           proof'[i], ~PendingApproval(db', i)
    PROVE  Earned(k)
  <1>1. Group(db', k) = Group(db', i)
    BY DEF Group
  <1> QED
    BY <1>1 DEF Earned, PendingApproval

\* The decision of the last open approval completes a verified recovery.
LEMMA ApprovalResolves ==
    ASSUME Core, ProofInv, Witness, NEW i \in Incidents, DecideApproval(i, FALSE),
           NEW k \in Incidents, Resolving(k)
    PROVE  Earned(k)
  <1> DEFINE d    == [db EXCEPT !.app[i] = FALSE]
             root == Root(d, i)
             e    == ResolveGroup(d, root, "verified_recovery")
  <1>1. db' = AfterApproval(d, i)
    BY DEF DecideApproval
  <1>2. Sane(db) /\ Eases(db, d) /\ d.inc = db.inc
    BY AppEases DEF Core, Solid
  <1> HIDE DEF d
  <1>3. Sane(d) /\ d.sig = db.sig /\ root \in Incidents
    BY <1>2, RootIn DEF Eases, Quiet
  <1>4. db' = IF ProviderHandles(d, root) THEN ProviderClear(d, root)
              ELSE IF d.inc[root].rec = "verified" /\ ~PendingApproval(d, root) /\ AllResolved(d, root)
              THEN e ELSE d
    BY <1>1 DEF AfterApproval
  <1> HIDE DEF root, e
  <1>5. ~ProviderHandles(d, root)
    BY <1>2, <1>3, <1>4, ProviderClearEases, PlainResolves
  <1>6. db' # d
    BY <1>2, PlainResolves DEF Plain
  <1>7. /\ db' = e /\ d.inc[root].rec = "verified" /\ ~PendingApproval(d, root)
        /\ AllResolved(d, root)
    BY <1>4, <1>5, <1>6
  <1>8. Root(d, root) = root /\ d.inc[root].status \in Active
    BY <1>5 DEF ProviderHandles, Moot
  <1>9. /\ Eases(d, e) /\ e.app = d.app /\ \A m \in Incidents : e.inc[m].rec = d.inc[m].rec
        /\ \A m \in Incidents \ Group(d, root) : e.inc[m] = d.inc[m]
    BY <1>3, ResolveGroupEases DEF e
  <1>10. \A m \in Incidents :
           Root(e, m) = Root(d, m) /\ Group(e, m) = Group(d, m) /\ AllResolved(e, m) = AllResolved(d, m)
    BY <1>9, SameGroups DEF Eases, Quiet, Recedes
  <1>11. k \in Group(d, root)
    BY <1>2, <1>7, <1>9 DEF Resolving, Active
  <1>12. Root(db', k) = root /\ Root(db', root) = root
    BY <1>3, <1>7, <1>8, <1>10, <1>11 DEF Group
  <1>13. proof[root]
    <2>1. GroupSignals(db, root) # {}
      BY <1>2, <1>3, <1>7, SameGroups DEF AllResolved
    <2> QED
      BY <1>2, <1>3, <1>7, <1>8, <2>1 DEF ProofInv, Shows
  <1>14. proof'[root]
    BY <1>3, <1>7, <1>9, <1>10, <1>13 DEF Witness
  <1>15. ~PendingApproval(db', root)
    BY <1>3, <1>7, <1>9, <1>10 DEF PendingApproval
  <1> QED
    BY <1>3, <1>12, <1>14, <1>15, GroupEarned

LEMMA StepResolves ==
    ASSUME Core, VerdictInv, FreshInv, ProofInv, Step, Witness,
           NEW k \in Incidents, Resolving(k)
    PROVE  Earned(k)
  <1>1. CASE Keeping \/ Moving
    BY <1>1, PlainResolves, ApprovalResolves DEF Keeping, Moving
  <1>2. ASSUME NEW w \in Workers, Admits(w) PROVE FALSE
    BY <1>2, PlainResolves DEF Admits
  <1>3. ASSUME NEW w \in Workers, Upholds(w) PROVE Earned(k)
    <2> DEFINE i == On(w)
    <2>1. /\ worker[w].pc = "checking" /\ Rules(i) /\ db.inc[i].cause = None
          /\ db'.inc[i].rec = "verified" => proof'[i]
      BY <1>3, UpheldClear, UpholdsProves DEF Upholds
    <2>2. i \in Incidents
      BY <2>1, OnIn
    <2>3. /\ db'.inc[i].rec = "verified" /\ ~PendingApproval(db', i)
          /\ \A m \in Incidents \ Group(db, i) : db'.inc[m] = db.inc[m]
      BY <1>3, PlainResolves DEF Upholds
    <2> HIDE DEF i
    <2>4. k \in Group(db, i)
      BY <2>3 DEF Resolving, Active
    <2>5. Root(db, i) = i
      BY <2>1 DEF Root
    <2>6. Root(db', i) = Root(db, i) /\ Root(db', k) = Root(db, k)
      BY <2>1, <2>2, SameGroups DEF Rules
    <2>7. Root(db', k) = i /\ Root(db', i) = i
      BY <2>4, <2>5, <2>6 DEF Group
    <2> QED
      BY <2>1, <2>2, <2>3, <2>7, GroupEarned
  <1> QED
    BY <1>1, <1>2, <1>3, StepKinds

\* An automatic resolution rests on a check that saw the group clear and on
\* clear signals ever since: finalizeRecovery compares the version and the
\* fence of the check, a verdict that waits for an approval is taken back by
\* whatever opens a signal or changes the group, and decideApproval completes it
\* when no approval of the group is open.  Signals may be merged and split, but
\* not to a group that is verified already and not from or to one that is being
\* checked (the two incidents may have no unsettled job, but the root of their
\* group may, and a worker that lost its lease goes on without one); nor may a
\* member of a group be archived during its check: setIncidentArchivedTx takes
\* it out of the fence without moving the version of the root.
THEOREM ResolutionsJustified ==
    Spec /\ [][ClearMoves /\ UncheckedMoves /\ UncheckedArchive]_vars => AutoResolveJustified
  <1> DEFINE Justified ==
        \A i \in Incidents :
          (/\ db.inc[i].status \in Active /\ db'.inc[i].status = "resolved"
           /\ db'.inc[i].basis = "verified_recovery")
          => /\ proof'[Root(db', i)]
             /\ ~PendingApproval(db', i)
  <1>1. /\ Inv /\ VerdictInv /\ FreshInv /\ ProofInv /\ [Next]_vars
        /\ [ClearMoves /\ UncheckedMoves /\ UncheckedArchive]_vars
        => [Justified]_vars
    <2> SUFFICES ASSUME Inv, VerdictInv, FreshInv, ProofInv, Next
                 PROVE  Justified
      OBVIOUS
    <2>1. \A i \in Incidents : Resolving(i) => Earned(i)
      BY StepResolves DEF Next, Inv
    <2> QED
      BY <2>1 DEF Resolving, Earned
  <1>2. [ClearMoves /\ UncheckedMoves /\ UncheckedArchive]_vars => [ClearMoves]_vars
    OBVIOUS
  <1>3. AutoResolveJustified <=> [][Justified]_vars
    BY DEF AutoResolveJustified
  <1> HIDE DEF Justified
  <1> QED
    BY <1>1, <1>2, <1>3, InvHolds, VerdictInit, VerdictNext, ProofNext, PTL DEF Spec
=============================================================================
