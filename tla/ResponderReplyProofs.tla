------------------------ MODULE ResponderReplyProofs ------------------------
(***************************************************************************)
(* Proofs about ResponderReply, for any number of replies, jobs, workers   *)
(* and faults.                                                             *)
(***************************************************************************)
EXTENDS ResponderReply, FiniteSetTheorems, TLAPS

-----------------------------------------------------------------------------
(* The inductive invariant.                                                *)

\* Stamps are handed out without gaps.
InOrder == Newest \in Stamps /\ Posted = 1..Newest

\* A row that stands for no job holds no checkpoint.
Clean == \A j \in Jobs : row[j].st = "absent" => row[j].prog = None

\* A reply that was not appended has no stamp.
Unsent == \A m \in Replies : prod[m] = "new" => at[m] = 0

Typed == TypeOK /\ InOrder /\ Clean /\ Unsent

\* A checkpoint covers interpreted replies only.
Earned(p, top, told) ==
    /\ p.base <= p.after /\ p.after <= top /\ p.pend <= p.after
    /\ p.pend = 0 \/ p.base < p.pend
    /\ 1..p.after \subseteq told

\* Where a handler reads from the database, and where it answers.
Reading   == {"look", "batch", "save"}
Answering == {"engine", "persist"}
Advancing == Answering \union {"advance"}
Inside    == Reading \union Advancing \union {"clear", "read"}

\* A handler's batch is the end of the page it read: what lies before it is
\* interpreted, and so is the whole page once the handler is done with it.
Ahead(h, told) ==
    \E lo \in 1..(h.newest + 1) :
      /\ h.base < lo /\ h.pend < lo
      /\ h.batch = lo..h.newest /\ 1..(lo - 1) \subseteq told

\* A handler works on a job over a watermark it read, moves on to a page only if
\* there is something to answer, and answers nothing that was not interpreted.
Sound(h, top, told) ==
    /\ h.pc # "free" => h.job \in Jobs
    /\ h.base <= top /\ 1..h.base \subseteq told
    /\ h.pc \in Reading => Ahead(h, told)
    /\ h.pc = "save" => h.batch # {}
    /\ h.pc \in Reading \union Advancing =>
         /\ h.base < h.newest /\ h.newest <= top /\ h.pend <= h.newest
         /\ h.pend = 0 \/ h.base < h.pend
    /\ h.pc \in Advancing => 1..h.newest \subseteq told
    /\ h.pc \in Answering => h.pend # 0

\* Watermark, checkpoints and handlers cover interpreted replies only.
Backed ==
    /\ wm <= Newest /\ 1..wm \subseteq heard /\ 0 \notin owed
    /\ \A p \in Checkpoints : Earned(p, Newest, heard)
    /\ \A w \in Workers : Sound(worker[w], Newest, heard)

\* Leases hold: no worker went on after its lease and its lock had lapsed.
Ordinary == "stall" \notin faults.kinds

\* Then a handler works alone, over the watermark as it is, and carries the
\* question that is owed.
Loyal(w, h, mark, held, open, saved) ==
    /\ h.pc \in Inside => held = w /\ h.base = mark
    /\ h.pc \in Reading \union Answering => open \subseteq {h.pend}
    /\ h.pc \in Reading => \A p \in saved : \A s \in h.batch : p.after < s
    /\ h.pc = "advance" => open = {}

Served ==
    Ordinary =>
      /\ \A p \in Checkpoints : p.base <= wm
      /\ \A p \in Furthest(wm) : owed \subseteq {p.pend}
      /\ Furthest(wm) = {} => owed = {} /\ Saved(wm) = {}
      /\ \A q \in owed : q > wm
      /\ \A q \in answered : q <= wm
      /\ \A w \in Workers : Loyal(w, worker[w], wm, lock, owed, Saved(wm))

Inv == Typed /\ Backed /\ Served

-----------------------------------------------------------------------------
(* Numbers: stamps, pages and the greatest of an interval.                 *)

Total == Cardinality(Replies)

LEMMA Numbers == Total \in Nat /\ Replies = 1..Total /\ Stamps = 0..Total
  BY ReplyAssumptions, FS_CardinalityType DEF Total, Stamps

LEMMA MaxOf == \A a, b \in Int : a <= b => Max(a..b) = b /\ Min(a..b) = a
  BY DEF Max, Min

LEMMA NewestIs ==
    \A k \in Nat : /\ Posted = 1..k => Newest = k
                   /\ Posted' = 1..k => Newest' = k
  <1> TAKE k \in Nat
  <1>1. CASE k = 0
    BY <1>1 DEF Newest
  <1>2. CASE k > 0
    <2>1. 1..k # {} /\ Max(1..k) = k
      BY <1>2, MaxOf
    <2> QED
      BY <2>1 DEF Newest
  <1> QED
    BY <1>1, <1>2

\* The page after a stamp is an interval too.
LEMMA PageIs ==
    ASSUME InOrder, NEW after \in 0..Newest
    PROVE  \E hi \in after..Newest : /\ Page(after) = (after + 1)..hi
                                     /\ Page(after) = {} => Since(after) = {}
  <1>1. Newest \in Nat /\ after \in Nat /\ BatchSize \in Nat /\ BatchSize > 0
    BY Numbers, ReplyAssumptions DEF InOrder
  <1>2. Since(after) = (after + 1)..Newest
    BY <1>1 DEF Since, InOrder
  <1>3. ASSUME NEW s \in Since(after)
        PROVE  Cardinality({t \in Since(after) : t < s}) = s - after - 1
    <2>1. {t \in Since(after) : t < s} = (after + 1)..(s - 1) /\ s \in Int /\ s > after
      BY <1>1, <1>2, <1>3
    <2>2. (after + 1) \in Int /\ (s - 1) \in Int
      BY <1>1, <2>1
    <2>3. Cardinality((after + 1)..(s - 1)) = IF after + 1 > s - 1 THEN 0 ELSE (s - 1) - (after + 1) + 1
      BY <2>2, FS_Interval
    <2>4. Cardinality((after + 1)..(s - 1)) = s - after - 1
      BY <1>1, <2>1, <2>3
    <2> QED
      BY <2>1, <2>4
  <1>4. Page(after) = {s \in (after + 1)..Newest : s - after - 1 < BatchSize}
    BY <1>2, <1>3 DEF Page
  <1> DEFINE hi == IF after + BatchSize <= Newest THEN after + BatchSize ELSE Newest
  <1>5. hi \in after..Newest /\ Page(after) = (after + 1)..hi
    BY <1>1, <1>4
  <1>6. Page(after) = {} => Since(after) = {}
    <2>1. after < Newest => after + 1 \in Page(after)
      BY <1>1, <1>4
    <2> QED
      BY <1>1, <1>2, <2>1
  <1> QED
    BY <1>5, <1>6

\* There is a stamp left for every reply that has none.
LEMMA StampIsNext ==
    ASSUME Typed, NEW m \in Replies, at[m] = 0, at' = [at EXCEPT ![m] = Stamp(m)]
    PROVE  /\ Newest + 1 \in Stamps /\ Newest' = Newest + 1
           /\ InOrder' /\ at' \in [Replies -> Stamps]
  <1>1. Newest \in Nat /\ Posted = 1..Newest /\ at \in [Replies -> Stamps]
    BY Numbers DEF Typed, InOrder, TypeOK
  <1> DEFINE Old == {r \in Replies : at[r] # 0}
             f == [r \in Old |-> at[r]]
  <1>2. IsFiniteSet(Old) /\ Cardinality(Old) <= Total - 1
    <2>1. IsFiniteSet(Replies \ {m}) /\ Cardinality(Replies \ {m}) = Total - 1
      BY FS_RemoveElement, ReplyAssumptions DEF Total
    <2>2. Old \in SUBSET (Replies \ {m})
      OBVIOUS
    <2>3. IsFiniteSet(Old) /\ Cardinality(Old) <= Cardinality(Replies \ {m})
      BY <2>1, <2>2, FS_Subset
    <2> QED
      BY <2>1, <2>3
  <1>3. f \in Surjection(Old, Posted)
    BY <1>1 DEF Surjection, Posted
  <1>4. Cardinality(Posted) <= Cardinality(Old)
    BY <1>2, <1>3, FS_Surjection
  <1>5. Cardinality(Posted) = Newest
    BY <1>1, FS_Interval
  <1>6. Cardinality(Old) \in Nat /\ Total \in Nat
    BY <1>2, FS_CardinalityType, Numbers
  <1>7. Newest + 1 \in Stamps
    BY <1>1, <1>2, <1>4, <1>5, <1>6, Numbers
  <1>8. Posted' = Posted \union {Newest + 1}
    BY <1>1 DEF Posted, Stamp
  <1>9. Posted' = 1..(Newest + 1)
    BY <1>1, <1>8
  <1>10. Newest' = Newest + 1
    BY <1>1, <1>9, NewestIs
  <1> QED
    BY <1>1, <1>7, <1>9, <1>10 DEF InOrder, Stamp

LEMMA SameStamps == UNCHANGED at => Newest' = Newest /\ Posted' = Posted
  BY DEF Newest, Posted

-----------------------------------------------------------------------------
(* What the helpers of several actions do.                                 *)

LEMMA FaultType ==
    ASSUME faults \in FaultRows, NEW kind, Fault(kind)
    PROVE  faults' \in FaultRows /\ (Ordinary' => Ordinary)
  <1>1. faults.left - 1 \in Nat /\ faults.kinds \union ({kind} \intersect Kinds) \subseteq Kinds
    BY DEF Fault, FaultRows
  <1> QED
    BY <1>1 DEF Fault, Ordinary, FaultRows

\* Checkpoints stay when rows keep theirs.
LEMMA SameProgress ==
    ASSUME kept' = kept, \A j \in Jobs : row'[j].prog = row[j].prog
    PROVE  Checkpoints' = Checkpoints
  BY DEF Checkpoints

LEMMA SameSaved ==
    ASSUME Checkpoints' = Checkpoints, wm' = wm
    PROVE  Saved(wm)' = Saved(wm) /\ Furthest(wm)' = Furthest(wm)
  BY DEF Saved, Furthest

LEMMA InsertResumeDoes ==
    ASSUME row \in [Jobs -> Rows], Clean, InsertResume
    PROVE  /\ row' \in [Jobs -> Rows] /\ Clean'
           /\ \A j \in Jobs : row'[j].prog = row[j].prog
  <1>1. CASE UNCHANGED row
    BY <1>1 DEF Clean
  <1>2. CASE ~UNCHANGED row
    <2> DEFINE j == CHOOSE k \in Unused : TRUE
               r == [NoRow EXCEPT !.st = "queued"]
    <2>1. j \in Unused /\ row' = [row EXCEPT ![j] = r]
      BY <1>2 DEF InsertResume
    <2>2. j \in Jobs /\ row[j].st = "absent"
      BY <2>1 DEF Unused
    <2>3. r \in Rows /\ r.prog = None /\ r.st = "queued"
      BY DEF NoRow, Rows
    <2> HIDE DEF j, r
    <2>4. row[j].prog = None
      BY <2>2 DEF Clean
    <2> QED
      BY <2>1, <2>2, <2>3, <2>4 DEF Clean
  <1> QED
    BY <1>1, <1>2

LEMMA SettleDoes ==
    ASSUME row \in [Jobs -> Rows], kept \subseteq Progress, Clean, NEW j \in Jobs, Settle(j)
    PROVE  /\ row' \in [Jobs -> Rows] /\ kept' \subseteq Progress /\ Clean'
           /\ Checkpoints' = Checkpoints
  <1>1. row[j].prog \in Progress \union {None}
    BY DEF Rows
  <1>2. NoRow \in Rows /\ NoRow.prog = None
    BY DEF NoRow, Rows
  <1>3. row' = [row EXCEPT ![j] = NoRow] /\ kept' = kept \union ({row[j].prog} \ {None})
    BY DEF Settle
  <1>4. row'[j] = NoRow /\ \A k \in Jobs : k # j => row'[k] = row[k]
    BY <1>3
  <1>5. row' \in [Jobs -> Rows]
    BY <1>2, <1>3
  <1>6. kept' \subseteq Progress
    BY <1>1, <1>3
  <1>7. Clean'
    BY <1>2, <1>4 DEF Clean
  <1>8. Checkpoints' = Checkpoints
    BY <1>2, <1>3, <1>4 DEF Checkpoints
  <1> QED
    BY <1>5, <1>6, <1>7, <1>8

\* A row that is rewritten and keeps its checkpoint.
LEMMA RewriteDoes ==
    ASSUME row \in [Jobs -> Rows], Clean, kept' = kept, NEW j \in Jobs, NEW r \in Rows,
           row' = [row EXCEPT ![j] = r], r.prog = row[j].prog, r.st # "absent"
    PROVE  row' \in [Jobs -> Rows] /\ Clean' /\ Checkpoints' = Checkpoints
  <1>1. row'[j] = r /\ \A k \in Jobs : k # j => row'[k] = row[k]
    OBVIOUS
  <1>2. \A k \in Jobs : row'[k].prog = row[k].prog
    BY <1>1
  <1> QED
    BY <1>1, <1>2, SameProgress DEF Clean

\* Steps of producers and of the reconciler: the conversation grows.
LEMMA BackedStays ==
    ASSUME Typed, Backed, Newest' \in Nat, Newest <= Newest',
           Checkpoints' = Checkpoints, UNCHANGED <<wm, worker, heard, owed>>
    PROVE  Backed'
  <1>1. Newest \in Nat /\ wm \in Nat
    BY Numbers DEF Typed, InOrder, TypeOK
  <1>2. Checkpoints \subseteq Progress
    BY DEF Typed, TypeOK, Rows, Checkpoints
  <1>3. wm' <= Newest' /\ 1..wm' \subseteq heard' /\ 0 \notin owed'
    BY <1>1 DEF Backed
  <1>4. ASSUME NEW p \in Checkpoints
        PROVE  Earned(p, Newest', heard')
    <2>1. Earned(p, Newest, heard) /\ p.after \in Nat
      BY <1>2, <1>4, Numbers DEF Backed, Progress
    <2> QED
      BY <1>1, <2>1 DEF Earned
  <1>5. ASSUME NEW w \in Workers
        PROVE  Sound(worker'[w], Newest', heard')
    <2>1. Sound(worker[w], Newest, heard) /\ worker[w] \in Handlers /\ worker'[w] = worker[w]
      BY <1>5 DEF Backed, Typed, TypeOK
    <2>2. worker[w].base \in Nat /\ worker[w].newest \in Nat
      BY <2>1, Numbers DEF Handlers
    <2> QED
      BY <1>1, <2>1, <2>2 DEF Sound
  <1> QED
    BY <1>3, <1>4, <1>5 DEF Backed

LEMMA ServedStays ==
    ASSUME Served, Ordinary' => Ordinary,
           Checkpoints' = Checkpoints, UNCHANGED <<wm, worker, lock, owed, answered, refused>>
    PROVE  Served'
  <1>1. Saved(wm)' = Saved(wm) /\ Furthest(wm)' = Furthest(wm)
    BY SameSaved
  <1>2. ASSUME Ordinary'
        PROVE  \A w \in Workers : Loyal(w, worker'[w], wm', lock', owed', Saved(wm)')
    BY <1>1, <1>2 DEF Served
  <1> QED
    BY <1>1, <1>2 DEF Served

\* A step of one handler that changes nothing the others rely on.
LEMMA BackedMoves ==
    ASSUME Typed, Backed, NEW w \in Workers, NEW h, Step(w, h), Sound(h, Newest, heard),
           Checkpoints' = Checkpoints, UNCHANGED <<at, wm, heard, owed>>
    PROVE  Backed'
  <1>1. Newest' = Newest
    BY SameStamps
  <1>2. \A v \in Workers : worker'[v] = IF v = w THEN h ELSE worker[v]
    BY DEF Step, Typed, TypeOK
  <1>3. \A v \in Workers : Sound(worker'[v], Newest', heard')
    BY <1>1, <1>2 DEF Backed
  <1> QED
    BY <1>1, <1>3 DEF Backed

\* The others keep the lock they hold.
LEMMA ServedMoves ==
    ASSUME Typed, Served, NEW w \in Workers, NEW h, Step(w, h),
           Ordinary' => Ordinary,
           Ordinary => Loyal(w, h, wm, lock', owed, Saved(wm)),
           \A v \in Workers : v # w /\ lock = v => lock' = v,
           Checkpoints' = Checkpoints, UNCHANGED <<wm, owed, answered>>
    PROVE  Served'
  <1>1. Saved(wm)' = Saved(wm) /\ Furthest(wm)' = Furthest(wm)
    BY SameSaved
  <1>2. \A v \in Workers : worker'[v] = IF v = w THEN h ELSE worker[v]
    BY DEF Step, Typed, TypeOK
  <1>3. ASSUME Ordinary', NEW v \in Workers
        PROVE  Loyal(v, worker'[v], wm', lock', owed', Saved(wm)')
    <2>1. CASE v = w
      BY <1>1, <1>2, <1>3, <2>1
    <2>2. CASE v # w
      <3>1. Loyal(v, worker[v], wm, lock, owed, Saved(wm)) /\ worker'[v] = worker[v]
        BY <1>2, <1>3, <2>2 DEF Served
      <3> QED
        BY <1>1, <2>2, <3>1 DEF Loyal
    <2> QED
      BY <2>1, <2>2
  <1> QED
    BY <1>1, <1>3 DEF Served

-----------------------------------------------------------------------------
(* The producers.                                                          *)

LEMMA Stays ==
    ASSUME Inv, Typed', Newest <= Newest', Checkpoints' = Checkpoints, Ordinary' => Ordinary,
           UNCHANGED <<wm, worker, lock, heard, owed, answered, refused>>
    PROVE  Inv'
  <1>1. Newest' \in Nat
    BY Numbers DEF Typed, InOrder
  <1>2. Backed'
    BY <1>1, BackedStays DEF Inv
  <1>3. Served'
    BY ServedStays DEF Inv
  <1> QED
    BY <1>2, <1>3 DEF Inv

LEMMA SameOrder ==
    ASSUME InOrder, UNCHANGED at
    PROVE  InOrder' /\ Newest' = Newest /\ Newest <= Newest'
  BY SameStamps, Numbers DEF InOrder

LEMMA PostStep ==
    ASSUME Inv, NEW m \in Replies, Post(m)
    PROVE  Inv'
  <1>1. /\ TypeOK /\ Clean /\ prod[m] = "new" /\ at' = [at EXCEPT ![m] = Stamp(m)]
        /\ InsertResume /\ prod' = [prod EXCEPT ![m] = "done"]
        /\ UNCHANGED <<gate, kept, wm, run, lock, worker, faults, heard, owed, answered, refused>>
    BY DEF Inv, Typed, Post, history
  <1>7. at[m] = 0
    BY <1>1 DEF Inv, Typed, Unsent
  <1>2. Newest + 1 \in Stamps /\ Newest' = Newest + 1 /\ InOrder' /\ at' \in [Replies -> Stamps]
    BY <1>1, <1>7, StampIsNext DEF Inv
  <1>3. row' \in [Jobs -> Rows] /\ Clean' /\ Checkpoints' = Checkpoints
    BY <1>1, InsertResumeDoes, SameProgress DEF TypeOK
  <1>4. TypeOK'
    BY <1>1, <1>2, <1>3 DEF TypeOK
  <1>6. Unsent'
    BY <1>1 DEF Unsent, Inv, Typed, Post, TypeOK
  <1>5. Newest <= Newest' /\ (Ordinary' => Ordinary)
    BY <1>1, <1>2, Numbers DEF Ordinary, Inv, Typed, InOrder
  <1> QED
    BY <1>1, <1>2, <1>3, <1>4, <1>5, <1>6, Stays DEF Typed

LEMMA AppendStep ==
    ASSUME Inv, NEW m \in Replies, Append(m)
    PROVE  Inv'
  <1>1. /\ TypeOK /\ Clean /\ prod[m] = "new" /\ at' = [at EXCEPT ![m] = Stamp(m)]
        /\ prod' = [prod EXCEPT ![m] = "posted"]
        /\ UNCHANGED <<gate, row, kept, wm, run, lock, worker, faults, heard, owed, answered, refused>>
    BY DEF Inv, Typed, Append, history
  <1>2. m \in Replies
    BY ReplyAssumptions
  <1>3. at[m] = 0
    BY <1>1 DEF Inv, Typed, Unsent
  <1>4. Newest + 1 \in Stamps /\ Newest' = Newest + 1 /\ InOrder' /\ at' \in [Replies -> Stamps]
    BY <1>1, <1>2, <1>3, StampIsNext DEF Inv
  <1>5. TypeOK'
    BY <1>1, <1>4 DEF TypeOK
  <1>6. Clean' /\ Checkpoints' = Checkpoints
    BY <1>1, SameProgress DEF Clean
  <1>7. Unsent'
    BY <1>1 DEF Unsent, Inv, Typed, TypeOK
  <1>8. Newest <= Newest' /\ (Ordinary' => Ordinary)
    BY <1>1, <1>4, Numbers DEF Ordinary, Inv, Typed, InOrder
  <1> QED
    BY <1>1, <1>4, <1>5, <1>6, <1>7, <1>8, Stays DEF Typed

\* The gate and the job table: the conversation stays as it is.
LEMMA GateStep ==
    ASSUME Inv, UNCHANGED <<at, kept, wm, run, lock, worker, heard, owed, answered, refused>>,
           row' \in [Jobs -> Rows], Clean', \A j \in Jobs : row'[j].prog = row[j].prog,
           gate' \in BOOLEAN, faults' \in FaultRows, Ordinary' => Ordinary,
           UNCHANGED prod \/ \E m \in Replies, to \in {"posted", "armed", "open", "done"} :
                               prod[m] # "new" /\ prod' = [prod EXCEPT ![m] = to]
    PROVE  Inv'
  <1>1. TypeOK /\ InOrder /\ Unsent
    BY DEF Inv, Typed
  <1>2. InOrder' /\ Newest' = Newest /\ Newest <= Newest' /\ Checkpoints' = Checkpoints
    BY <1>1, SameOrder, SameProgress
  <1>3. prod' \in [Replies -> {"new", "posted", "armed", "open", "done"}] /\ Unsent'
    BY <1>1 DEF TypeOK, Unsent
  <1>4. TypeOK'
    BY <1>1, <1>3 DEF TypeOK
  <1> QED
    BY <1>2, <1>3, <1>4, Stays DEF Typed

LEMMA ProducerStep ==
    ASSUME Inv, NEW m \in Replies, Arm(m) \/ Enqueue(m) \/ EnqueueFails(m) \/ Drop(m)
    PROVE  Inv'
  <1> USE DEF Inv, Typed
  <1>1. gate \in BOOLEAN /\ faults \in FaultRows /\ row \in [Jobs -> Rows] /\ Clean
    BY DEF TypeOK
  <1>2. /\ UNCHANGED <<at, kept, wm, run, lock, worker, heard, owed, answered, refused>> /\ gate' \in BOOLEAN
        /\ \E to \in {"posted", "armed", "open", "done"} :
             prod[m] # "new" /\ prod' = [prod EXCEPT ![m] = to]
    BY <1>1 DEF Arm, Enqueue, EnqueueFails, Drop, history
  <1>3. faults' \in FaultRows /\ (Ordinary' => Ordinary)
    <2>1. UNCHANGED faults \/ Fault("redis") \/ Fault("insert") \/ Fault("drop")
      BY DEF Arm, Enqueue, EnqueueFails, Drop
    <2> QED
      BY <1>1, <2>1, FaultType DEF Ordinary
  <1>4. row' \in [Jobs -> Rows] /\ Clean' /\ \A j \in Jobs : row'[j].prog = row[j].prog
    <2>1. UNCHANGED row \/ InsertResume
      BY DEF Arm, Enqueue, EnqueueFails, Drop
    <2> QED
      BY <1>1, <2>1, InsertResumeDoes DEF Clean
  <1> QED
    BY <1>2, <1>3, <1>4, GateStep

LEMMA ExpireStep == Inv /\ Expire => Inv'
  <1> SUFFICES ASSUME Inv, Expire PROVE Inv'
    OBVIOUS
  <1>1. row \in [Jobs -> Rows] /\ Clean /\ faults \in FaultRows
    BY DEF Inv, Typed, TypeOK
  <1>2. UNCHANGED <<at, prod, row, kept, wm, run, lock, worker, faults, heard, owed, answered, refused>>
    BY DEF Expire, history
  <1>3. gate' \in BOOLEAN /\ Clean' /\ (Ordinary' => Ordinary)
    BY <1>1, <1>2 DEF Expire, Clean, Ordinary
  <1> QED
    BY <1>1, <1>2, <1>3, GateStep

LEMMA DecideStep == Inv /\ Decide => Inv'
  <1> SUFFICES ASSUME Inv, Decide PROVE Inv'
    OBVIOUS
  <1>1. row \in [Jobs -> Rows] /\ Clean /\ faults \in FaultRows /\ gate \in BOOLEAN
    BY DEF Inv, Typed, TypeOK
  <1>2. /\ UNCHANGED <<at, prod, gate, kept, wm, run, lock, worker, heard, owed, answered, refused>>
        /\ Fault("decide") /\ InsertResume
    BY DEF Decide, conversation, history
  <1>3. faults' \in FaultRows /\ (Ordinary' => Ordinary)
    BY <1>1, <1>2, FaultType DEF Kinds
  <1>4. row' \in [Jobs -> Rows] /\ Clean' /\ \A j \in Jobs : row'[j].prog = row[j].prog
    BY <1>1, <1>2, InsertResumeDoes
  <1>5. gate' \in BOOLEAN
    BY <1>1, <1>2
  <1> QED
    BY <1>2, <1>3, <1>4, <1>5, GateStep

LEMMA RetireStep ==
    ASSUME Inv, NEW j \in Jobs, Retire(j)
    PROVE  Inv'
  <1>1. /\ UNCHANGED <<at, prod, gate, wm, run, lock, worker, faults, heard, owed, answered, refused>>
        /\ Settle(j) /\ TypeOK /\ InOrder /\ Clean /\ Unsent
    BY DEF Retire, conversation, history, Inv, Typed
  <1>2. /\ row' \in [Jobs -> Rows] /\ kept' \subseteq Progress /\ Clean'
        /\ Checkpoints' = Checkpoints
    BY <1>1, SettleDoes DEF TypeOK
  <1>3. TypeOK' /\ Unsent' /\ (Ordinary' => Ordinary)
    BY <1>1, <1>2 DEF TypeOK, Unsent, Ordinary
  <1> QED
    BY <1>1, <1>2, <1>3, SameOrder, Stays DEF Typed

-----------------------------------------------------------------------------
(* The handlers.                                                           *)

\* What the engine lock may hold.
Locks == Workers \union {None, "lapsing"}

\* A handler's step that leaves watermark, checkpoints and history alone.
LEMMA Works ==
    ASSUME Inv, NEW w \in Workers, NEW h \in Handlers, Step(w, h), Sound(h, Newest, heard),
           Ordinary => Loyal(w, h, wm, lock', owed, Saved(wm)),
           \A v \in Workers : v # w /\ lock = v => lock' = v,
           UNCHANGED <<at, prod, wm, heard, owed, answered>>, gate' \in BOOLEAN,
           UNCHANGED refused \/ refused' \subseteq Stamps,
           row' \in [Jobs -> Rows], kept' \subseteq Progress, Clean', Checkpoints' = Checkpoints,
           run' \in [id : Nat, job : Jobs \union {None}], lock' \in Locks,
           faults' \in FaultRows, Ordinary' => Ordinary
    PROVE  Inv'
  <1>1. TypeOK /\ InOrder /\ Unsent /\ Typed /\ Backed /\ Served
    BY DEF Inv, Typed
  <1>2. worker' \in [Workers -> Handlers]
    BY <1>1 DEF Step, TypeOK
  <1>3. TypeOK'
    BY <1>1, <1>2 DEF TypeOK, Locks
  <1>4. Typed'
    BY <1>1, <1>3, SameOrder DEF Typed, Unsent
  <1>5. Backed'
    BY <1>1, BackedMoves
  <1>6. Served'
    BY <1>1, ServedMoves
  <1> QED
    BY <1>4, <1>5, <1>6 DEF Inv

\* One that also leaves the job table, the lock and the run alone.
LEMMA Thinks ==
    ASSUME Inv, NEW w \in Workers, NEW h \in Handlers, Step(w, h), Sound(h, Newest, heard),
           Ordinary => Loyal(w, h, wm, lock, owed, Saved(wm)),
           UNCHANGED <<at, prod, row, kept, wm, run, lock, heard, owed, answered, refused>>,
           gate' \in BOOLEAN, faults' \in FaultRows, Ordinary' => Ordinary
    PROVE  Inv'
  <1>1. TypeOK /\ Clean
    BY DEF Inv, Typed
  <1>2. Checkpoints' = Checkpoints /\ Clean'
    BY <1>1, SameProgress DEF Clean
  <1> QED
    BY <1>1, <1>2, Works DEF TypeOK, Locks

\* What is known of a handler at the start of a step.
LEMMA Known ==
    ASSUME Inv, NEW w \in Workers
    PROVE  /\ worker[w] \in Handlers /\ Sound(worker[w], Newest, heard)
           /\ Ordinary => Loyal(w, worker[w], wm, lock, owed, Saved(wm))
           /\ worker[w].base \in Nat /\ worker[w].newest \in Nat /\ worker[w].pend \in Nat
           /\ Newest \in Nat /\ wm \in Nat
  BY Numbers DEF Inv, Typed, TypeOK, InOrder, Backed, Served, Handlers

LEMMA IdleIs == Idle \in Handlers /\ Idle.pc = "free" /\ Idle.base = 0
  <1>1. 0 \in Stamps /\ 0 \in Nat
    BY Numbers
  <1> QED
    BY <1>1 DEF Idle, Handlers

\* A handler that returns or throws carries nothing.
LEMMA Leaves ==
    ASSUME Inv, NEW w \in Workers, worker[w].pc # "free",
           NEW pc \in {"finish", "throw", "fatal"}, NEW h,
           h = [Idle EXCEPT !.pc = pc, !.job = worker[w].job]
    PROVE  /\ h \in Handlers /\ Sound(h, Newest, heard)
           /\ h.pc = pc /\ h.job = worker[w].job /\ h.base = 0
           /\ \A l, open : Loyal(w, h, wm, l, open, Saved(wm))
  <1>1. /\ worker[w] \in Handlers /\ Sound(worker[w], Newest, heard) /\ Newest \in Nat
        /\ worker[w].job \in Jobs \union {None}
    BY Known DEF Handlers
  <1>2. /\ h.pc = pc /\ h.job = worker[w].job /\ h.base = 0 /\ h \in Handlers
    BY <1>1, IdleIs DEF Handlers
  <1> QED
    BY <1>1, <1>2 DEF Sound, Loyal, Inside, Reading, Advancing, Answering

LEMMA ClaimStep ==
    ASSUME Inv, NEW w \in Workers, NEW j \in Jobs, Claim(w, j)
    PROVE  Inv'
  <1> DEFINE r == [row[j] EXCEPT !.st = "processing", !.owner = w, !.stale = FALSE]
             a == [Idle EXCEPT !.pc = "clear", !.job = j, !.base = wm]
             b == [Idle EXCEPT !.pc = "throw", !.job = j]
  <1>1. TypeOK /\ Clean /\ Backed /\ Newest \in Nat /\ wm \in Nat
    BY Known DEF Inv, Typed
  <1>2. /\ row' = [row EXCEPT ![j] = r]
        /\ IF lock = None THEN lock' = w /\ Step(w, a) ELSE Step(w, b) /\ UNCHANGED lock
        /\ UNCHANGED <<at, prod, gate, kept, wm, run, faults, heard, owed, answered, refused>>
    BY DEF Claim, conversation, history
  <1>3. r \in Rows /\ r.prog = row[j].prog /\ r.st = "processing"
    <2>1. row[j] \in Rows
      BY <1>1 DEF TypeOK
    <2> QED
      BY <2>1 DEF Rows
  <1>4. row' \in [Jobs -> Rows] /\ Clean' /\ Checkpoints' = Checkpoints
    <2> HIDE DEF r
    <2> QED
      BY <1>1, <1>2, <1>3, RewriteDoes DEF TypeOK
  <1>5. /\ Idle \in Handlers /\ Idle.base = 0
        /\ a \in Handlers /\ a.pc = "clear" /\ a.job = j /\ a.base = wm
        /\ b \in Handlers /\ b.pc = "throw" /\ b.job = j /\ b.base = 0
    <2>1. Idle \in Handlers /\ Idle.base = 0 /\ wm \in Stamps
      BY <1>1, IdleIs DEF TypeOK
    <2>2. a \in Handlers /\ a.pc = "clear" /\ a.job = j /\ a.base = wm
      BY <2>1 DEF Handlers
    <2>3. b \in Handlers /\ b.pc = "throw" /\ b.job = j /\ b.base = Idle.base
      BY <2>1 DEF Handlers
    <2> QED
      BY <2>1, <2>2, <2>3
  <1> HIDE DEF a, b, r
  <1>6. Sound(a, Newest, heard) /\ Sound(b, Newest, heard)
    BY <1>1, <1>5 DEF Sound, Backed, Reading, Advancing, Answering
  <1>7. CASE lock = None
    <2>1. lock' = w /\ Step(w, a) /\ None \notin Workers
      BY <1>2, <1>7, ReplyAssumptions
    <2>2. Loyal(w, a, wm, lock', owed, Saved(wm))
      BY <1>5, <2>1 DEF Loyal, Reading, Advancing, Answering
    <2>3. gate' \in BOOLEAN /\ kept' \subseteq Progress /\ lock' \in Locks /\ faults' \in FaultRows
          /\ (Ordinary' => Ordinary) /\ run' \in [id : Nat, job : Jobs \union {None}]
      BY <1>1, <1>2, <2>1 DEF TypeOK, Locks, Ordinary
    <2> QED
      BY <1>2, <1>4, <1>5, <1>6, <1>7, <2>1, <2>2, <2>3, Works
  <1>8. CASE lock # None
    <2>1. UNCHANGED lock /\ Step(w, b)
      BY <1>2, <1>8
    <2>2. Loyal(w, b, wm, lock', owed, Saved(wm))
      BY <1>5 DEF Loyal, Inside, Reading, Advancing, Answering
    <2>3. gate' \in BOOLEAN /\ kept' \subseteq Progress /\ lock' \in Locks /\ faults' \in FaultRows
          /\ (Ordinary' => Ordinary) /\ run' \in [id : Nat, job : Jobs \union {None}]
      BY <1>1, <1>2, <2>1 DEF TypeOK, Locks, Ordinary
    <2> QED
      BY <1>2, <1>4, <1>5, <1>6, <2>1, <2>2, <2>3, Works
  <1> QED
    BY <1>7, <1>8

LEMMA ClearStep ==
    ASSUME Inv, NEW w \in Workers, Clear(w)
    PROVE  Inv'
  <1> DEFINE h == [worker[w] EXCEPT !.pc = "read"]
  <1>1. /\ worker[w].pc = "clear" /\ Step(w, h) /\ gate' \in BOOLEAN
        /\ UNCHANGED <<at, prod, row, kept, wm, run, lock, faults, heard, owed, answered, refused>>
    BY DEF Clear, Goto, history
  <1>2. h \in Handlers /\ h.pc = "read" /\ h.job = worker[w].job /\ h.base = worker[w].base
    BY Known DEF Handlers
  <1> HIDE DEF h
  <1>3. Sound(h, Newest, heard) /\ (Ordinary => Loyal(w, h, wm, lock, owed, Saved(wm)))
    BY <1>1, <1>2, Known DEF Sound, Loyal, Inside, Reading, Advancing, Answering
  <1>4. faults' \in FaultRows /\ (Ordinary' => Ordinary)
    BY <1>1 DEF Inv, Typed, TypeOK, Ordinary
  <1> QED
    BY <1>1, <1>2, <1>3, <1>4, Thinks

LEMMA LookAheadStep ==
    ASSUME Inv, NEW w \in Workers, LookAhead(w)
    PROVE  Inv'
  <1> DEFINE h == [worker[w] EXCEPT !.pc = "batch", !.look = Newest]
  <1>1. /\ worker[w].pc = "look" /\ Step(w, h) /\ gate' \in BOOLEAN
        /\ UNCHANGED <<at, prod, row, kept, wm, run, lock, faults, heard, owed, answered, refused>>
    BY DEF LookAhead, conversation, history, Inv, Typed, TypeOK
  <1>2. Newest \in Stamps
    BY DEF Inv, Typed, InOrder
  <1>3. /\ h \in Handlers /\ h.pc = "batch" /\ h.job = worker[w].job /\ h.base = worker[w].base
        /\ h.batch = worker[w].batch /\ h.newest = worker[w].newest /\ h.pend = worker[w].pend
    BY <1>2, Known DEF Handlers
  <1> HIDE DEF h
  <1>4. Sound(h, Newest, heard)
    BY <1>1, <1>3, Known DEF Sound, Ahead, Reading, Advancing, Answering
  <1>5. Ordinary => Loyal(w, h, wm, lock, owed, Saved(wm))
    BY <1>1, <1>3, Known DEF Loyal, Inside, Reading, Advancing, Answering
  <1>6. faults' \in FaultRows /\ (Ordinary' => Ordinary)
    BY <1>1 DEF Inv, Typed, TypeOK, Ordinary
  <1> QED
    BY <1>1, <1>3, <1>4, <1>5, <1>6, Thinks

LEMMA ErrorStep ==
    ASSUME Inv, NEW w \in Workers, Error(w)
    PROVE  Inv'
  <1> DEFINE h == [Idle EXCEPT !.pc = "throw", !.job = worker[w].job]
  <1>1. /\ worker[w].pc # "free" /\ Step(w, h) /\ gate' \in BOOLEAN /\ Fault("error")
        /\ UNCHANGED <<at, prod, row, kept, wm, run, lock, heard, owed, answered, refused>>
    BY DEF Error, Leave, conversation, history, Inv, Typed, TypeOK
  <1>2. h \in Handlers /\ Sound(h, Newest, heard) /\ Loyal(w, h, wm, lock, owed, Saved(wm))
    BY <1>1, Leaves
  <1>3. faults' \in FaultRows /\ (Ordinary' => Ordinary)
    BY <1>1, FaultType DEF Inv, Typed, TypeOK, Kinds
  <1> QED
    BY <1>1, <1>2, <1>3, Thinks

\* Where a handler takes up the work: at the furthest checkpoint made over its
\* watermark, or at the watermark.
LEMMA StartAt ==
    ASSUME Inv, NEW w \in Workers, worker[w].pc = "read",
           NEW p \in IF Furthest(worker[w].base) = {}
                     THEN {[base |-> worker[w].base, after |-> worker[w].base, pend |-> 0]}
                     ELSE Furthest(worker[w].base)
    PROVE  /\ p \in Progress /\ p.base = worker[w].base /\ Earned(p, Newest, heard)
           /\ Ordinary => /\ owed \subseteq {p.pend}
                          /\ \A q \in Saved(wm) : q.after <= p.after
  <1> DEFINE base == worker[w].base
  <1>1. /\ base \in Stamps /\ base \in Nat /\ base <= Newest /\ 1..base \subseteq heard
        /\ Ordinary => base = wm
    BY Known DEF Handlers, Sound, Loyal, Inside
  <1>2. 0 \in Stamps
    BY Numbers
  <1>3. CASE Furthest(base) = {}
    <2>1. p = [base |-> base, after |-> base, pend |-> 0]
      BY <1>3
    <2>2. p \in Progress /\ p.base = base /\ p.after = base /\ p.pend = 0
      BY <1>1, <1>2, <2>1 DEF Progress
    <2>3. Ordinary => owed = {} /\ Saved(wm) = {}
      BY <1>1, <1>3 DEF Inv, Served
    <2> QED
      BY <1>1, <2>2, <2>3 DEF Earned
  <1>4. CASE Furthest(base) # {}
    <2>1. p \in Furthest(base)
      BY <1>4
    <2>2. p \in Checkpoints /\ p.base = base /\ \A q \in Saved(base) : q.after <= p.after
      BY <2>1 DEF Furthest, Saved
    <2>3. p \in Progress
      BY <2>2 DEF Inv, Typed, TypeOK, Rows, Checkpoints
    <2>4. Earned(p, Newest, heard)
      BY <2>2 DEF Inv, Backed
    <2>5. Ordinary => owed \subseteq {p.pend}
      BY <1>1, <2>1 DEF Inv, Served
    <2> QED
      BY <1>1, <2>2, <2>3, <2>4, <2>5
  <1> QED
    BY <1>3, <1>4

LEMMA ReadStep ==
    ASSUME Inv, NEW w \in Workers, Read(w)
    PROVE  Inv'
  <1> DEFINE base == worker[w].base
  <1>1. /\ worker[w].pc = "read" /\ gate' \in BOOLEAN /\ faults' \in FaultRows
        /\ Ordinary' => Ordinary
        /\ UNCHANGED <<at, prod, row, kept, wm, run, lock, heard, owed, answered, refused>>
    BY DEF Read, conversation, history, Inv, Typed, TypeOK, Ordinary
  <1>2. PICK p \in IF Furthest(base) = {} THEN {[base |-> base, after |-> base, pend |-> 0]}
                   ELSE Furthest(base) :
          IF Page(p.after) = {} /\ p.pend = 0 THEN Leave(w, "finish")
          ELSE Step(w, [worker[w] EXCEPT !.pc = "look", !.batch = Page(p.after), !.pend = p.pend,
                          !.newest = IF Page(p.after) = {} THEN p.after ELSE Max(Page(p.after))])
    BY DEF Read
  <1>3. /\ p \in Progress /\ p.base = base /\ Earned(p, Newest, heard)
        /\ Ordinary => /\ owed \subseteq {p.pend}
                       /\ \A q \in Saved(wm) : q.after <= p.after
    BY <1>1, <1>2, StartAt
  <1>4. /\ p.after \in Nat /\ p.base \in Nat /\ p.pend \in Stamps /\ p.pend \in Nat
        /\ p.after <= Newest /\ Newest \in Nat /\ Newest <= Total /\ Total \in Nat
    BY <1>3, Known, Numbers DEF Progress, Earned, Inv, Typed, InOrder
  <1>5. PICK hi \in p.after..Newest : Page(p.after) = (p.after + 1)..hi
    <2>1. p.after \in 0..Newest
      BY <1>4
    <2> QED
      BY <2>1, PageIs DEF Inv, Typed
  <1> DEFINE top == IF Page(p.after) = {} THEN p.after ELSE Max(Page(p.after))
  <1>6. top = hi /\ hi \in Nat /\ hi \in Stamps /\ Page(p.after) \in SUBSET Stamps
    <2>1. CASE Page(p.after) = {}
      <3>1. hi = p.after
        <4>3. (p.after + 1)..hi = {}
          BY <1>5, <2>1
        <4>1. hi \in Nat /\ p.after <= hi
          BY <1>4, <1>5
        <4>2. p.after + 1 <= hi => p.after + 1 \in (p.after + 1)..hi
          BY <1>4, <4>1
        <4> QED
          BY <1>4, <4>1, <4>2, <4>3
      <3> QED
        BY <1>4, <2>1, <3>1, Numbers
    <2>2. CASE Page(p.after) # {}
      <3>1. p.after + 1 <= hi /\ p.after + 1 \in Int /\ hi \in Int
        BY <1>4, <1>5, <2>2
      <3> QED
        BY <1>4, <1>5, <2>2, <3>1, MaxOf, Numbers
    <2> QED
      BY <2>1, <2>2
  <1>7. CASE Page(p.after) = {} /\ p.pend = 0
    <2> DEFINE h == [Idle EXCEPT !.pc = "finish", !.job = worker[w].job]
    <2>1. Step(w, h)
      BY <1>2, <1>7 DEF Leave
    <2>2. h \in Handlers /\ Sound(h, Newest, heard) /\ Loyal(w, h, wm, lock, owed, Saved(wm))
      BY <1>1, Leaves
    <2> HIDE DEF h
    <2> QED
      BY <1>1, <2>1, <2>2, Thinks
  <1>8. CASE ~(Page(p.after) = {} /\ p.pend = 0)
    <2> DEFINE h == [worker[w] EXCEPT !.pc = "look", !.batch = Page(p.after), !.pend = p.pend,
                                      !.newest = top]
    <2>1. Step(w, h)
      BY <1>2, <1>8
    <2>2. /\ h \in Handlers /\ h.pc = "look" /\ h.job = worker[w].job /\ h.base = base
          /\ h.batch = Page(p.after) /\ h.pend = p.pend /\ h.newest = hi
      <3> HIDE DEF top
      <3> QED
        BY <1>4, <1>6, Known DEF Handlers
    <2> HIDE DEF h
    <2>3. h.base < h.newest
      BY <1>3, <1>4, <1>5, <1>8, <2>2 DEF Earned
    <2>4. Ahead(h, heard)
      <3>1. p.after + 1 \in 1..(h.newest + 1) /\ h.base < p.after + 1 /\ h.pend < p.after + 1
        BY <1>3, <1>4, <1>5, <2>2 DEF Earned
      <3>2. h.batch = (p.after + 1)..h.newest /\ 1..((p.after + 1) - 1) \subseteq heard
        BY <1>3, <1>4, <1>5, <2>2 DEF Earned
      <3> QED
        BY <3>1, <3>2 DEF Ahead
    <2>5. Sound(h, Newest, heard)
      <3>1. Sound(worker[w], Newest, heard) /\ worker[w].pc = "read"
        BY <1>1, Known
      <3> QED
        BY <1>3, <1>4, <1>5, <2>2, <2>3, <2>4, <3>1
        DEF Sound, Earned, Reading, Advancing, Answering
    <2>6. ASSUME Ordinary PROVE Loyal(w, h, wm, lock, owed, Saved(wm))
      <3>1. lock = w /\ base = wm
        BY <1>1, <2>6, Known DEF Loyal, Inside
      <3>2. \A q \in Saved(wm) : \A s \in h.batch : q.after < s
        <4>1. Saved(wm) \subseteq Progress
          BY DEF Saved, Checkpoints, Inv, Typed, TypeOK, Rows
        <4> QED
          BY <1>3, <1>4, <1>5, <2>2, <2>6, <4>1, Numbers DEF Progress
      <3> QED
        BY <1>3, <2>2, <2>6, <3>1, <3>2 DEF Loyal, Reading, Answering
    <2> QED
      BY <1>1, <2>1, <2>2, <2>5, <2>6, Thinks
  <1> QED
    BY <1>7, <1>8

LEMMA UnreadStep ==
    ASSUME Inv, NEW w \in Workers, Unread(w)
    PROVE  Inv'
  <1> DEFINE me == worker[w]
  <1>1. /\ me.pc = "batch" /\ me.batch = {} /\ gate' \in BOOLEAN /\ faults' \in FaultRows
        /\ Ordinary' => Ordinary
        /\ UNCHANGED <<at, prod, kept, wm, lock, heard, owed, answered, refused>>
    BY DEF Unread, conversation, history, Inv, Typed, TypeOK, Ordinary
  <1>2. TypeOK /\ Clean
    BY DEF Inv, Typed
  <1>3. PICK lo \in 1..(me.newest + 1) :
          /\ me.base < lo /\ me.pend < lo /\ me.batch = lo..me.newest /\ 1..(lo - 1) \subseteq heard
    BY <1>1, Known DEF Sound, Ahead, Reading
  <1>4. 1..me.newest \subseteq heard
    <2>1. lo = me.newest + 1
      <3>1. me.newest \in Nat /\ lo \in Nat /\ lo <= me.newest + 1
        BY <1>3, Known
      <3>2. ~(lo <= me.newest)
        <4>1. SUFFICES ASSUME lo <= me.newest PROVE FALSE
          OBVIOUS
        <4>2. lo \in lo..me.newest
          BY <3>1, <4>1
        <4> QED
          BY <1>1, <1>3, <4>2
      <3> QED
        BY <3>1, <3>2
    <2> QED
      BY <1>3, <2>1, Known
  <1>5. CASE InsertResume /\ Leave(w, "finish") /\ UNCHANGED run
    <2> DEFINE h == [Idle EXCEPT !.pc = "finish", !.job = worker[w].job]
    <2>1. Step(w, h)
      BY <1>5 DEF Leave
    <2>2. h \in Handlers /\ Sound(h, Newest, heard) /\ Loyal(w, h, wm, lock', owed, Saved(wm))
      BY <1>1, Leaves
    <2>3. row' \in [Jobs -> Rows] /\ Clean' /\ Checkpoints' = Checkpoints
      BY <1>1, <1>2, <1>5, InsertResumeDoes, SameProgress DEF TypeOK
    <2>4. kept' \subseteq Progress /\ lock' \in Locks /\ run' \in [id : Nat, job : Jobs \union {None}]
      BY <1>1, <1>2, <1>5 DEF TypeOK, Locks
    <2> HIDE DEF h
    <2> QED
      BY <1>1, <2>1, <2>2, <2>3, <2>4, Works
  <1>6. CASE me.pend = 0 /\ Goto(w, "advance") /\ UNCHANGED <<row, run>>
    <2> DEFINE h == [worker[w] EXCEPT !.pc = "advance"]
    <2>1. Step(w, h)
      BY <1>6 DEF Goto
    <2>2. /\ h \in Handlers /\ h.pc = "advance" /\ h.job = me.job /\ h.base = me.base
          /\ h.newest = me.newest /\ h.pend = me.pend
      BY Known DEF Handlers
    <2> HIDE DEF h
    <2>3. Sound(h, Newest, heard)
      BY <1>1, <1>4, <2>2, Known DEF Sound, Reading, Advancing, Answering
    <2>4. Ordinary => Loyal(w, h, wm, lock, owed, Saved(wm))
      <3>1. ASSUME Ordinary PROVE owed = {} /\ lock = w /\ me.base = wm
        BY <1>1, <1>6, <3>1, Known DEF Loyal, Reading, Inside, Inv, Backed
      <3> QED
        BY <2>2, <3>1 DEF Loyal, Reading, Answering
    <2> QED
      BY <1>1, <1>6, <2>1, <2>2, <2>3, <2>4, Thinks
  <1>7. CASE me.pend # 0 /\ Admit(w) /\ UNCHANGED row
    <2> DEFINE id == IF run.job = me.job THEN run.id ELSE run.id + 1
               h == [me EXCEPT !.pc = "engine", !.run = id]
    <2>1. Step(w, h) /\ run' = [id |-> id, job |-> me.job]
      BY <1>7 DEF Admit
    <2>2. me.job \in Jobs /\ id \in Nat
      BY <1>1, <1>2, Known DEF Sound, TypeOK
    <2>3. run' \in [id : Nat, job : Jobs \union {None}]
      BY <2>1, <2>2
    <2> HIDE DEF id
    <2>4. /\ h \in Handlers /\ h.pc = "engine" /\ h.job = me.job /\ h.base = me.base
          /\ h.newest = me.newest /\ h.pend = me.pend
      BY <2>2, Known DEF Handlers
    <2> HIDE DEF h
    <2>5. Sound(h, Newest, heard)
      BY <1>1, <1>4, <1>7, <2>4, Known DEF Sound, Reading, Advancing, Answering
    <2>6. Ordinary => Loyal(w, h, wm, lock', owed, Saved(wm))
      BY <1>1, <2>4, Known DEF Loyal, Reading, Answering, Inside, Advancing
    <2>7. row' \in [Jobs -> Rows] /\ Clean' /\ Checkpoints' = Checkpoints
      BY <1>1, <1>2, <1>7, SameProgress DEF TypeOK, Clean
    <2>8. kept' \subseteq Progress /\ lock' \in Locks
      BY <1>1, <1>2 DEF TypeOK, Locks
    <2> QED
      BY <1>1, <2>1, <2>3, <2>4, <2>5, <2>6, <2>7, <2>8, Works
  <1> QED
    BY <1>5, <1>6, <1>7 DEF Unread

\* The next reply of a batch, and what is known before it is interpreted.
LEMMA NextReply ==
    ASSUME Inv, NEW w \in Workers, worker[w].pc \in {"batch", "save"}, worker[w].batch # {}
    PROVE  LET me == worker[w]
               s == Min(me.batch)
           IN  /\ s \in Nat /\ s \in Stamps /\ me.base < s /\ s <= me.newest /\ me.pend < s
               /\ me.batch = s..me.newest /\ 1..(s - 1) \subseteq heard
               /\ me.job \in Jobs /\ s <= Newest
  <1> DEFINE me == worker[w]
  <1>1. /\ me \in Handlers /\ me.base \in Nat /\ me.newest \in Nat /\ me.pend \in Nat
        /\ me.newest <= Newest /\ me.job \in Jobs /\ Ahead(me, heard) /\ me.batch \in SUBSET Stamps
    BY Known DEF Sound, Reading, Handlers
  <1>2. PICK lo \in 1..(me.newest + 1) :
          /\ me.base < lo /\ me.pend < lo /\ me.batch = lo..me.newest /\ 1..(lo - 1) \subseteq heard
    BY <1>1 DEF Ahead
  <1>3. lo <= me.newest /\ lo \in Nat
    <2>1. PICK x \in lo..me.newest : TRUE
      BY <1>2
    <2> QED
      BY <1>1, <1>2, <2>1
  <1>4. Min(me.batch) = lo
    BY <1>1, <1>2, <1>3, MaxOf
  <1>5. lo \in Stamps
    BY <1>1, <1>2, <1>3
  <1> QED
    BY <1>1, <1>2, <1>3, <1>4, <1>5, Known

\* The handler writes a checkpoint p and goes on as h.
LEMMA Checkpointed ==
    ASSUME Inv, NEW w \in Workers, worker[w].pc = "save", worker[w].batch # {},
           NEW s, s = Min(worker[w].batch),
           NEW p \in Progress, p.base = worker[w].base, p.after = s,
           p.pend \in {0, s, worker[w].pend},
           row[worker[w].job].st = "processing",
           row' = [row EXCEPT ![worker[w].job].prog = p],
           heard' = heard \union {s},
           owed' \subseteq owed \union {s}, 0 \notin owed',
           Ordinary => owed' \subseteq {p.pend},
           NEW h \in Handlers, Step(w, h),
           \/ h.pc = "fatal" /\ h.job = worker[w].job /\ h.base = 0
           \/ h = [worker[w] EXCEPT !.pc = "batch", !.batch = @ \ {s}, !.pend = p.pend,
                                    !.found = "none"],
           UNCHANGED <<at, prod, gate, kept, wm, run, lock, faults, answered, refused>>
    PROVE  Inv'
  <1> DEFINE me == worker[w]
             j == me.job
  <1>1. /\ s \in Nat /\ s \in Stamps /\ me.base < s /\ s <= me.newest /\ me.pend < s
        /\ me.batch = s..me.newest /\ 1..(s - 1) \subseteq heard /\ j \in Jobs /\ s <= Newest
        /\ me \in Handlers /\ me.base \in Nat /\ me.newest \in Nat /\ me.pend \in Nat
        /\ Newest \in Nat /\ wm \in Nat /\ Sound(me, Newest, heard)
    BY NextReply, Known
  <1>14. s \in me.batch /\ me.batch \ {s} = (s + 1)..me.newest
    <2>1. s \in s..me.newest /\ (s..me.newest) \ {s} = (s + 1)..me.newest
      <3> HIDE DEF me
      <3> QED
        BY <1>1
    <2>2. me.batch = s..me.newest
      BY <1>1
    <2> QED
      BY <2>1, <2>2
  <1>2. TypeOK /\ InOrder /\ Clean /\ Unsent /\ Backed /\ Served
    BY DEF Inv, Typed
  <1>3. InOrder' /\ Newest' = Newest
    BY <1>2, SameOrder
  <1>4. row' \in [Jobs -> Rows] /\ row'[j].prog = p /\ row'[j].st = "processing"
        /\ \A k \in Jobs : k # j => row'[k] = row[k]
    <2>1. row[j] \in Rows
      BY <1>1, <1>2 DEF TypeOK
    <2> DEFINE r == [row[j] EXCEPT !.prog = p]
    <2>2. r \in Rows /\ r.prog = p /\ r.st = row[j].st
      BY <2>1 DEF Rows
    <2>3. row' = [row EXCEPT ![j] = r]
      OBVIOUS
    <2> HIDE DEF r
    <2> QED
      BY <1>1, <1>2, <2>2, <2>3 DEF TypeOK
  <1>5. Clean'
    BY <1>2, <1>4 DEF Clean
  <1>6. p \in Checkpoints' /\ Checkpoints' \subseteq Checkpoints \union {p}
        /\ Checkpoints \subseteq Progress
    <2>1. p # None
      BY ReplyAssumptions
    <2> QED
      BY <1>1, <1>2, <1>4, <2>1 DEF Checkpoints, TypeOK, Rows
  <1>7. worker' \in [Workers -> Handlers]
        /\ \A v \in Workers : worker'[v] = IF v = w THEN h ELSE worker[v]
    BY <1>2 DEF Step, TypeOK
  <1>8. Typed'
    <2>1. heard' \subseteq Stamps /\ owed' \subseteq Stamps
      BY <1>1, <1>2 DEF TypeOK
    <2>2. TypeOK'
      BY <1>2, <1>4, <1>7, <2>1 DEF TypeOK
    <2>3. Unsent'
      BY <1>2 DEF Unsent
    <2> QED
      BY <1>3, <1>5, <2>2, <2>3 DEF Typed
  <1>9. /\ h.job = j
        /\ \/ h.pc = "fatal" /\ h.base = 0
           \/ /\ h.pc = "batch" /\ h.batch = me.batch \ {s} /\ h.pend = p.pend
              /\ h.base = me.base /\ h.newest = me.newest
    BY <1>1 DEF Handlers
  <1>10. p.pend \in Nat /\ p.pend <= s /\ (p.pend = 0 \/ p.base < p.pend) /\ 1..s \subseteq heard'
    <2>1. me.pend = 0 \/ me.base < me.pend
      BY <1>1 DEF Sound, Reading
    <2> QED
      BY <1>1, <2>1
  <1>11. Backed'
    <2>1. Earned(p, Newest, heard')
      BY <1>1, <1>10 DEF Earned
    <2>2. \A q \in Checkpoints : Earned(q, Newest, heard')
      BY <1>2 DEF Backed, Earned
    <2>3. \A v \in Workers : v # w => Sound(worker[v], Newest, heard')
      BY <1>2 DEF Backed, Sound, Ahead
    <2>4. Sound(h, Newest, heard')
      <3>1. h.pc = "batch" => Ahead(h, heard')
        <4>1. SUFFICES ASSUME h.pc = "batch" PROVE Ahead(h, heard')
          OBVIOUS
        <4>2. h.batch = (s + 1)..h.newest /\ s + 1 \in 1..(h.newest + 1) /\ h.base < s + 1
          <5>1. h.batch = (s + 1)..me.newest /\ h.newest = me.newest /\ h.base = me.base
            BY <1>9, <1>14, <4>1
          <5>2. s + 1 \in 1..(me.newest + 1) /\ me.base < s + 1
            BY <1>1
          <5> QED
            BY <5>1, <5>2
        <4>3. h.pend < s + 1 /\ 1..((s + 1) - 1) \subseteq heard'
          BY <1>1, <1>9, <1>10, <4>1
        <4> QED
          BY <4>2, <4>3 DEF Ahead
      <3>2. 1..h.base \subseteq heard' /\ h.base <= Newest
        BY <1>1, <1>9 DEF Sound
      <3>3. h.pc = "batch" => h.base < h.newest /\ h.newest <= Newest
        BY <1>1, <1>9 DEF Sound, Reading
      <3> QED
        BY <1>1, <1>9, <1>10, <3>1, <3>2, <3>3 DEF Sound, Reading, Advancing, Answering
    <2> QED
      BY <1>2, <1>3, <1>6, <1>7, <2>1, <2>2, <2>3, <2>4 DEF Backed
  <1>12. ASSUME Ordinary
         PROVE  Served'
    <2>1. lock = w /\ me.base = wm /\ (\A q \in Saved(wm) : \A t \in me.batch : q.after < t)
      BY <1>12, Known DEF Loyal, Reading, Inside
    <2>2. Saved(wm)' \subseteq Saved(wm) \union {p} /\ p \in Saved(wm)'
      BY <1>6, <2>1 DEF Saved
    <2>3. \A q \in Saved(wm)' : q.after \in Nat /\ q.after <= s /\ (q # p => q.after < s)
      <3>1. \A q \in Saved(wm) : q.after \in Nat
        BY <1>6, Numbers DEF Saved, Progress
      <3> QED
        BY <1>1, <1>10, <1>14, <2>1, <2>2, <3>1
    <2>4. Furthest(wm)' = {p}
      BY <1>1, <2>2, <2>3 DEF Furthest
    <2>5. \A q \in Checkpoints' : q.base <= wm'
      BY <1>1, <1>2, <1>6, <1>12, <2>1 DEF Served
    <2>6. (\A q \in owed' : q > wm') /\ (\A q \in answered' : q <= wm')
      BY <1>1, <1>2, <1>12, <2>1 DEF Served
    <2>7. ASSUME NEW v \in Workers
          PROVE  Loyal(v, worker'[v], wm', lock', owed', Saved(wm)')
      <3>1. CASE v # w
        <4>1. Loyal(v, worker[v], wm, lock, owed, Saved(wm))
          BY <1>2, <1>12 DEF Served
        <4> QED
          BY <1>7, <2>1, <3>1, <4>1 DEF Loyal, Inside, Reading, Advancing, Answering
      <3>2. CASE v = w
        <4>1. h.pc = "batch" => \A q \in Saved(wm)' : \A t \in h.batch : q.after < t
          <5>1. h.pc = "batch" => h.batch = (s + 1)..me.newest
            BY <1>9, <1>14
          <5>2. \A t \in (s + 1)..me.newest : t \in Int /\ s < t
            BY <1>1
          <5>3. \A q \in Saved(wm)' : \A t \in (s + 1)..me.newest : q.after < t
            BY <1>1, <2>3, <5>2
          <5> QED
            BY <5>1, <5>3
        <4> QED
          BY <1>7, <1>9, <1>12, <2>1, <3>2, <4>1 DEF Loyal, Inside, Reading, Advancing, Answering
      <3> QED
        BY <3>1, <3>2
    <2> QED
      BY <1>12, <2>4, <2>5, <2>6, <2>7 DEF Served
  <1>13. Served'
    BY <1>12 DEF Served, Ordinary
  <1> QED
    BY <1>8, <1>11, <1>13 DEF Inv

LEMMA ActStep ==
    ASSUME Inv, NEW w \in Workers, Act(w)
    PROVE  Inv'
  <1>1. /\ worker[w].pc = "batch" /\ worker[w].batch # {} /\ gate' \in BOOLEAN
        /\ UNCHANGED <<at, prod, row, kept, wm, run, lock, heard, owed, answered, refused>>
    BY DEF Act, conversation, history, Inv, Typed, TypeOK
  <1>2. faults' \in FaultRows /\ (Ordinary' => Ordinary)
    <2>1. Fault("limit") \/ UNCHANGED faults
      BY DEF Act
    <2> QED
      BY <2>1, FaultType DEF Inv, Typed, TypeOK, Ordinary, FaultRows
  <1>3. CASE Leave(w, "throw")
    <2> DEFINE h == [Idle EXCEPT !.pc = "throw", !.job = worker[w].job]
    <2>1. Step(w, h)
      BY <1>3 DEF Leave
    <2>2. h \in Handlers /\ Sound(h, Newest, heard) /\ Loyal(w, h, wm, lock, owed, Saved(wm))
      BY <1>1, Leaves
    <2> HIDE DEF h
    <2> QED
      BY <1>1, <1>2, <2>1, <2>2, Thinks
  <1>4. ASSUME NEW intent \in Intents,
               Step(w, [worker[w] EXCEPT !.pc = "save", !.found = intent])
        PROVE  Inv'
    <2> DEFINE h == [worker[w] EXCEPT !.pc = "save", !.found = intent]
    <2>1. /\ h \in Handlers /\ h.pc = "save" /\ h.job = worker[w].job /\ h.base = worker[w].base
          /\ h.batch = worker[w].batch /\ h.newest = worker[w].newest /\ h.pend = worker[w].pend
      BY Known DEF Handlers
    <2>2. Step(w, h)
      BY <1>4
    <2> HIDE DEF h
    <2>3. Sound(h, Newest, heard)
      BY <1>1, <2>1, Known DEF Sound, Ahead, Reading, Advancing, Answering
    <2>4. Ordinary => Loyal(w, h, wm, lock, owed, Saved(wm))
      BY <1>1, <2>1, Known DEF Loyal, Inside, Reading, Advancing, Answering
    <2> QED
      BY <1>1, <1>2, <2>1, <2>2, <2>3, <2>4, Thinks
  <1> QED
    BY <1>3, <1>4 DEF Act

LEMMA SaveStep ==
    ASSUME Inv, NEW w \in Workers, Save(w)
    PROVE  Inv'
  <1> DEFINE me == worker[w]
             s == Min(me.batch)
             pend == Pending(me.found, s, me.pend)
             p == [base |-> me.base, after |-> s, pend |-> pend]
  <1>1. /\ me.pc = "save" /\ me.batch # {} /\ gate' \in BOOLEAN
        /\ UNCHANGED <<at, prod, gate, kept, wm, run, lock, faults, answered, refused>>
        /\ faults' \in FaultRows /\ (Ordinary' => Ordinary)
    BY Known DEF Save, conversation, Sound, Inv, Typed, TypeOK, Ordinary, FaultRows
  <1>2. /\ s \in Nat /\ s \in Stamps /\ me.base < s /\ me.pend < s /\ me.job \in Jobs
        /\ me \in Handlers /\ 0 \in Stamps /\ me.base \in Nat
    BY <1>1, NextReply, Known, Numbers
  <1>3. CASE ~Holds(w)
    <2> DEFINE h == [Idle EXCEPT !.pc = "throw", !.job = worker[w].job]
    <2>1. Step(w, h) /\ UNCHANGED <<row, heard, owed>>
      BY <1>3 DEF Save, Leave
    <2>2. h \in Handlers /\ Sound(h, Newest, heard) /\ Loyal(w, h, wm, lock, owed, Saved(wm))
      BY <1>1, Leaves
    <2> HIDE DEF h
    <2> QED
      BY <1>1, <2>1, <2>2, Thinks
  <1>4. CASE Holds(w)
    <2> DEFINE a == [Idle EXCEPT !.pc = "fatal", !.job = worker[w].job]
               b == [me EXCEPT !.pc = "batch", !.batch = @ \ {s}, !.pend = pend, !.found = "none"]
    <2>1. /\ row' = [row EXCEPT ![me.job].prog = p] /\ heard' = heard \union {s}
          /\ owed' = CASE me.found = "investigate" -> {s}
                       [] me.found \in {"changed", "handled"} -> {} [] OTHER -> owed
          /\ Step(w, a) \/ Step(w, b)
      BY <1>4 DEF Save, Leave
    <2>2. /\ pend \in {0, s, me.pend}
          /\ me.found = "investigate" => pend = s
          /\ me.found \notin {"investigate", "changed", "handled"} => pend = me.pend
      BY DEF Pending
    <2>3. pend \in Stamps
      BY <1>2, <2>2 DEF Handlers
    <2> HIDE DEF pend
    <2>4. p \in Progress /\ p.base = me.base /\ p.after = s /\ p.pend = pend
      BY <1>2, <2>3 DEF Progress, Handlers
    <2>5. 0 \notin owed /\ (Ordinary => owed \subseteq {me.pend})
      BY <1>1, Known DEF Inv, Backed, Loyal, Reading
    <2>6. owed' \subseteq owed \union {s} /\ 0 \notin owed' /\ (Ordinary => owed' \subseteq {p.pend})
      <3> HIDE DEF p, s
      <3>1. CASE me.found = "investigate"
        BY <1>2, <2>1, <2>2, <2>4, <2>5, <3>1
      <3>2. CASE me.found \in {"changed", "handled"}
        BY <2>1, <3>2
      <3>3. CASE me.found \notin {"investigate", "changed", "handled"}
        BY <2>1, <2>2, <2>4, <2>5, <3>3
      <3> QED
        BY <3>1, <3>2, <3>3
    <2>7. row[me.job].st = "processing"
      BY <1>4 DEF Holds
    <2>8. a \in Handlers /\ a.pc = "fatal" /\ a.job = me.job /\ a.base = 0
      BY <1>1, Leaves
    <2>9. b \in Handlers /\ b = [me EXCEPT !.pc = "batch", !.batch = @ \ {s}, !.pend = p.pend,
                                           !.found = "none"]
      <3>1. me.batch \ {s} \in SUBSET Stamps
        BY <1>2 DEF Handlers
      <3> QED
        BY <1>2, <2>3, <2>4, <3>1 DEF Handlers
    <2> HIDE DEF p, s, a, b
    <2>10. CASE Step(w, a)
      BY <1>1, <2>1, <2>2, <2>4, <2>6, <2>7, <2>8, <2>10, Checkpointed DEF s
    <2>11. CASE Step(w, b)
      BY <1>1, <2>1, <2>2, <2>4, <2>6, <2>7, <2>9, <2>11, Checkpointed DEF s
    <2> QED
      BY <2>1, <2>10, <2>11
  <1> QED
    BY <1>3, <1>4

\* The watermark moves to the end of what the handler read.
LEMMA Advanced ==
    ASSUME Inv, NEW w \in Workers, worker[w].pc \in {"advance", "persist"},
           wm' = worker[w].newest,
           NEW h \in Handlers, h = [Idle EXCEPT !.pc = "finish", !.job = worker[w].job], Step(w, h),
           Ordinary => owed' = {}, owed' \subseteq owed,
           answered' \subseteq answered \union ({worker[w].pend} \intersect Stamps),
           UNCHANGED <<at, prod, gate, row, kept, lock, faults, heard, refused>>,
           run' \in [id : Nat, job : Jobs \union {None}]
    PROVE  Inv'
  <1> DEFINE me == worker[w]
  <1>1. /\ me \in Handlers /\ Sound(me, Newest, heard) /\ me.base \in Nat /\ me.newest \in Nat
        /\ me.pend \in Nat /\ Newest \in Nat /\ wm \in Nat /\ me.newest \in Stamps
        /\ me.base < me.newest /\ me.newest <= Newest /\ me.pend <= me.newest
        /\ 1..me.newest \subseteq heard
    BY Known DEF Sound, Reading, Advancing, Answering, Handlers
  <1>2. TypeOK /\ InOrder /\ Clean /\ Unsent /\ Backed /\ Served
    BY DEF Inv, Typed
  <1>3. InOrder' /\ Newest' = Newest /\ Clean' /\ Unsent'
    BY <1>2, SameOrder DEF Clean, Unsent
  <1>4. /\ worker' \in [Workers -> Handlers]
        /\ \A v \in Workers : worker'[v] = IF v = w THEN h ELSE worker[v]
    BY <1>2 DEF Step, TypeOK
  <1>5. Typed'
    <2>1. answered' \subseteq Stamps /\ owed' \subseteq Stamps
      BY <1>2 DEF TypeOK
    <2>2. TypeOK'
      BY <1>1, <1>2, <1>4, <2>1 DEF TypeOK
    <2> QED
      BY <1>3, <2>2 DEF Typed
  <1>6. h.pc = "finish" /\ h.job = me.job /\ h.base = 0
    BY <1>1, Leaves
  <1>7. Checkpoints' = Checkpoints
    BY SameProgress
  <1>8. Backed'
    <2>1. Sound(h, Newest, heard)
      BY <1>1, <1>6 DEF Sound, Reading, Advancing, Answering
    <2> QED
      BY <1>1, <1>2, <1>3, <1>4, <1>7, <2>1 DEF Backed
  <1>9. ASSUME Ordinary
        PROVE  Served'
    <2>1. lock = w /\ me.base = wm
      BY <1>9, Known DEF Loyal, Inside, Advancing, Answering
    <2>2. Saved(wm)' = {} /\ Furthest(wm)' = {}
      <3>1. \A p \in Checkpoints' : p.base <= wm /\ p.base \in Nat
        BY <1>2, <1>7, <1>9, Numbers DEF Served, TypeOK, Rows, Checkpoints, Progress
      <3> QED
        BY <1>1, <2>1, <3>1 DEF Saved, Furthest
    <2>3. \A p \in Checkpoints' : p.base <= wm' /\ p.base \in Nat
      BY <1>1, <1>2, <1>7, <1>9, <2>1, Numbers DEF Served, TypeOK, Rows, Checkpoints, Progress
    <2>4. \A q \in answered' : q <= wm'
      <3>1. \A q \in answered : q <= wm /\ q \in Nat
        BY <1>2, <1>9, Numbers DEF Served, TypeOK
      <3> QED
        BY <1>1, <2>1, <3>1
    <2>5. ASSUME NEW v \in Workers
          PROVE  Loyal(v, worker'[v], wm', lock', owed', Saved(wm)')
      <3>1. CASE v # w
        <4>1. Loyal(v, worker[v], wm, lock, owed, Saved(wm))
          BY <1>2, <1>9 DEF Served
        <4> QED
          BY <1>4, <2>1, <3>1, <4>1 DEF Loyal, Inside, Reading, Advancing, Answering
      <3>2. CASE v = w
        BY <1>4, <1>6, <3>2 DEF Loyal, Inside, Reading, Advancing, Answering
      <3> QED
        BY <3>1, <3>2
    <2> QED
      BY <1>9, <2>2, <2>3, <2>4, <2>5 DEF Served
  <1>10. Served'
    BY <1>9 DEF Served, Ordinary
  <1> QED
    BY <1>5, <1>8, <1>10 DEF Inv

LEMMA AdvanceStep ==
    ASSUME Inv, NEW w \in Workers, Advance(w)
    PROVE  Inv'
  <1> DEFINE h == [Idle EXCEPT !.pc = "finish", !.job = worker[w].job]
  <1>1. /\ worker[w].pc = "advance" /\ wm' = worker[w].newest /\ Step(w, h)
        /\ UNCHANGED <<at, prod, gate, row, kept, run, lock, faults, heard, owed, answered, refused>>
    BY DEF Advance, Leave, conversation, history
  <1>2. h \in Handlers
    BY <1>1, Leaves
  <1>3. Ordinary => owed' = {}
    BY <1>1, Known DEF Loyal
  <1>4. run' \in [id : Nat, job : Jobs \union {None}]
    BY <1>1 DEF Inv, Typed, TypeOK
  <1> HIDE DEF h
  <1> QED
    BY <1>1, <1>2, <1>3, <1>4, Advanced DEF h

LEMMA OverType ==
    ASSUME run \in [id : Nat, job : Jobs \union {None}]
    PROVE  Over \in [id : Nat, job : Jobs \union {None}]
  BY DEF Over

\* An answer is for the question that is owed, if any is.
LEMMA Answered ==
    ASSUME Inv, NEW w \in Workers, worker[w].pc = "persist", Ordinary
    PROVE  owed \subseteq {worker[w].pend}
  BY Known DEF Loyal, Reading, Answering

LEMMA PersistStep ==
    ASSUME Inv, NEW w \in Workers, Persist(w)
    PROVE  Inv'
  <1> DEFINE me == worker[w]
  <1>1. /\ me.pc = "persist" /\ gate' \in BOOLEAN
        /\ UNCHANGED <<at, prod, gate, row, kept, lock, heard, refused>>
    BY DEF Persist, conversation, Inv, Typed, TypeOK
  <1>2. TypeOK /\ Clean /\ run \in [id : Nat, job : Jobs \union {None}] /\ faults \in FaultRows
    BY DEF Inv, Typed, TypeOK
  <1>3. CASE Leave(w, "finish") /\ UNCHANGED <<wm, run, faults, owed, answered>>
    <2> DEFINE h == [Idle EXCEPT !.pc = "finish", !.job = worker[w].job]
    <2>1. Step(w, h)
      BY <1>3 DEF Leave
    <2>2. h \in Handlers /\ Sound(h, Newest, heard) /\ Loyal(w, h, wm, lock, owed, Saved(wm))
      BY <1>1, Leaves
    <2>3. faults' \in FaultRows /\ (Ordinary' => Ordinary)
      BY <1>2, <1>3 DEF Ordinary
    <2> HIDE DEF h
    <2> QED
      BY <1>1, <1>3, <2>1, <2>2, <2>3, Thinks
  <1>4. ASSUME Leave(w, "finish"), run' = Over, owed' = owed \ {me.pend}, UNCHANGED faults,
               wm' = Consumed(w), answered' = answered \union {me.pend}
        PROVE  Inv'
    <2> DEFINE h == [Idle EXCEPT !.pc = "finish", !.job = worker[w].job]
    <2>1. h \in Handlers
      BY <1>1, Leaves
    <2>2. Step(w, h) /\ wm' = me.newest /\ me.pend \in Stamps
      BY <1>4, Known DEF Consumed, Leave, Handlers
    <2> HIDE DEF h
    <2>3. (Ordinary => owed' = {}) /\ owed' \subseteq owed
      BY <1>1, <1>4, Answered
    <2>4. run' \in [id : Nat, job : Jobs \union {None}]
      BY <1>2, <1>4, OverType
    <2>5. answered' \subseteq answered \union ({me.pend} \intersect Stamps)
      BY <1>4, <2>2
    <2> QED
      BY <1>1, <1>4, <2>1, <2>2, <2>3, <2>4, <2>5, Advanced DEF h
  <1>5. ASSUME Goto(w, "advance"), run' = Over, owed' = owed \ {me.pend},
               UNCHANGED <<wm, answered, faults>>
        PROVE  Inv'
    <2> DEFINE h == [me EXCEPT !.pc = "advance"]
    <2>1. Step(w, h)
      BY <1>5 DEF Goto
    <2>2. /\ h \in Handlers /\ h.pc = "advance" /\ h.job = me.job /\ h.base = me.base
          /\ h.newest = me.newest /\ h.pend = me.pend
      BY Known DEF Handlers
    <2> HIDE DEF h
    <2>3. Sound(h, Newest, heard)
      BY <1>1, <2>2, Known DEF Sound, Reading, Advancing, Answering
    <2>4. run' \in [id : Nat, job : Jobs \union {None}]
      BY <1>2, <1>5, OverType
    <2>5. Checkpoints' = Checkpoints /\ Clean'
      BY <1>1, <1>2, SameProgress DEF Clean
    <2>6. TypeOK' /\ Typed'
      <3>1. worker' \in [Workers -> Handlers] /\ owed' \subseteq Stamps
        BY <1>2, <1>5, <2>1, <2>2 DEF Step, TypeOK
      <3>2. TypeOK'
        BY <1>1, <1>2, <1>5, <2>4, <3>1 DEF TypeOK
      <3> QED
        BY <1>1, <2>5, <3>2, SameOrder DEF Inv, Typed, Unsent
    <2>7. \A v \in Workers : worker'[v] = IF v = w THEN h ELSE worker[v]
      BY <1>2, <2>1 DEF Step, TypeOK
    <2>8. Newest' = Newest
      BY <1>1, SameStamps
    <2>9. Backed'
      BY <1>1, <1>5, <2>3, <2>5, <2>7, <2>8 DEF Inv, Backed
    <2>10. ASSUME Ordinary
           PROVE  Served'
      <3>1. lock = w /\ me.base = wm /\ owed' = {} /\ Served
        BY <1>1, <1>5, <2>10, Answered, Known DEF Loyal, Inside, Advancing, Answering, Inv
      <3>2. Saved(wm)' = Saved(wm) /\ Furthest(wm)' = Furthest(wm)
        BY <1>5, <2>5, SameSaved
      <3>3. ASSUME NEW v \in Workers
            PROVE  Loyal(v, worker'[v], wm', lock', owed', Saved(wm)')
        <4>1. CASE v # w
          <5>1. Loyal(v, worker[v], wm, lock, owed, Saved(wm))
            BY <2>10, <3>1 DEF Served
          <5> QED
            BY <1>1, <1>5, <2>7, <3>1, <3>2, <4>1, <5>1
            DEF Loyal, Inside, Reading, Advancing, Answering
        <4>2. CASE v = w
          BY <1>1, <1>5, <2>2, <2>7, <3>1, <4>2 DEF Loyal, Inside, Reading, Advancing, Answering
        <4> QED
          BY <4>1, <4>2
      <3>4. \A p \in Checkpoints' : p.base <= wm'
        BY <1>5, <2>5, <2>10, <3>1 DEF Served
      <3>5. (\A q \in answered' : q <= wm') /\ (Furthest(wm)' = {} => Saved(wm)' = {})
        BY <1>5, <2>10, <3>1, <3>2 DEF Served
      <3> QED
        BY <3>1, <3>2, <3>3, <3>4, <3>5 DEF Served
    <2>11. Served'
      BY <1>5, <2>10 DEF Served, Ordinary
    <2> QED
      BY <2>6, <2>9, <2>11 DEF Inv
  <1>6. ASSUME NEW why \in {"newer", "stale"},
               Step(w, [me EXCEPT !.pc = "reject", !.found = why]),
               UNCHANGED faults \/ Fault("stale"), UNCHANGED <<wm, run, owed, answered>>
        PROVE  Inv'
    <2> DEFINE h == [me EXCEPT !.pc = "reject", !.found = why]
    <2>1. Step(w, h)
      BY <1>6
    <2>2. h \in Handlers /\ h.pc = "reject" /\ h.job = me.job /\ h.base = me.base
      BY Known DEF Handlers
    <2> HIDE DEF h
    <2>3. Sound(h, Newest, heard) /\ Loyal(w, h, wm, lock, owed, Saved(wm))
      BY <1>1, <2>2, Known DEF Sound, Loyal, Inside, Reading, Advancing, Answering
    <2>4. faults' \in FaultRows /\ (Ordinary' => Ordinary)
      BY <1>2, <1>6, FaultType DEF Ordinary
    <2> QED
      BY <1>1, <1>6, <2>1, <2>2, <2>3, <2>4, Thinks
  <1> QED
    BY <1>3, <1>4, <1>5, <1>6 DEF Persist

LEMMA RejectStep ==
    ASSUME Inv, NEW w \in Workers, Reject(w)
    PROVE  Inv'
  <1> DEFINE h == [Idle EXCEPT !.pc = "finish", !.job = worker[w].job]
  <1>1. /\ worker[w].pc = "reject" /\ Step(w, h)
        /\ UNCHANGED <<at, prod, gate, row, kept, wm, lock, faults, heard, owed, answered>>
        /\ run' = run \/ run' = Over
        /\ refused' \subseteq refused \union {worker[w].pend}
    BY DEF Reject, Leave, conversation
  <1>2. TypeOK /\ Clean
    BY DEF Inv, Typed
  <1>3. h \in Handlers /\ Sound(h, Newest, heard) /\ Loyal(w, h, wm, lock', owed, Saved(wm))
    BY <1>1, Leaves
  <1>4. /\ row' \in [Jobs -> Rows] /\ Clean' /\ Checkpoints' = Checkpoints
        /\ kept' \subseteq Progress /\ lock' \in Locks /\ gate' \in BOOLEAN
        /\ faults' \in FaultRows /\ (Ordinary' => Ordinary)
    BY <1>1, <1>2, SameProgress DEF TypeOK, Clean, Locks, Ordinary
  <1>5. run' \in [id : Nat, job : Jobs \union {None}]
    BY <1>1, <1>2, OverType DEF TypeOK
  <1>6. refused' \subseteq Stamps
    BY <1>1, <1>2, Known DEF TypeOK, Handlers
  <1> HIDE DEF h
  <1> QED
    BY <1>1, <1>3, <1>4, <1>5, <1>6, Works

LEMMA EngineStep ==
    ASSUME Inv, NEW w \in Workers, Engine(w)
    PROVE  Inv'
  <1> DEFINE me == worker[w]
  <1>1. /\ me.pc = "engine" /\ gate' \in BOOLEAN
        /\ UNCHANGED <<at, prod, row, kept, wm, lock, heard, owed, answered, refused>>
    BY DEF Engine, conversation, history, Inv, Typed, TypeOK
  <1>2. TypeOK /\ Clean /\ faults \in FaultRows
    BY DEF Inv, Typed, TypeOK
  <1>3. /\ row' \in [Jobs -> Rows] /\ Clean' /\ Checkpoints' = Checkpoints
        /\ kept' \subseteq Progress /\ lock' \in Locks
    BY <1>1, <1>2, SameProgress DEF TypeOK, Clean, Locks
  <1>4. run' \in [id : Nat, job : Jobs \union {None}]
    <2>1. run' = run \/ run' = Over
      BY DEF Engine
    <2> QED
      BY <1>2, <2>1, OverType DEF TypeOK
  <1>5. faults' \in FaultRows /\ (Ordinary' => Ordinary)
    <2>1. Fault("engine") \/ Fault("limit") \/ UNCHANGED faults
      BY DEF Engine
    <2> QED
      BY <1>2, <2>1, FaultType DEF Kinds, Ordinary
  <1>6. ASSUME NEW pc \in {"finish", "throw", "fatal"}, Leave(w, pc)
        PROVE  Inv'
    <2> DEFINE h == [Idle EXCEPT !.pc = pc, !.job = worker[w].job]
    <2>1. Step(w, h)
      BY <1>6 DEF Leave
    <2>2. h \in Handlers /\ Sound(h, Newest, heard) /\ Loyal(w, h, wm, lock', owed, Saved(wm))
      BY <1>1, Leaves
    <2> HIDE DEF h
    <2> QED
      BY <1>1, <1>3, <1>4, <1>5, <2>1, <2>2, Works
  <1>7. ASSUME Step(w, [me EXCEPT !.pc = "persist", !.seen = Newest])
        PROVE  Inv'
    <2> DEFINE h == [me EXCEPT !.pc = "persist", !.seen = Newest]
    <2>1. Newest \in Stamps
      BY DEF Inv, Typed, InOrder
    <2>2. /\ h \in Handlers /\ h.pc = "persist" /\ h.job = me.job /\ h.base = me.base
          /\ h.newest = me.newest /\ h.pend = me.pend
      BY <2>1, Known DEF Handlers
    <2> HIDE DEF h
    <2>3. Sound(h, Newest, heard)
      BY <1>1, <2>2, Known DEF Sound, Reading, Advancing, Answering
    <2>4. Ordinary => Loyal(w, h, wm, lock', owed, Saved(wm))
      BY <1>1, <2>2, Known DEF Loyal, Inside, Reading, Advancing, Answering
    <2>5. Step(w, h)
      BY <1>7 DEF h
    <2> QED
      BY <1>1, <1>3, <1>4, <1>5, <2>2, <2>3, <2>4, <2>5, Works
  <1>8. \/ \E pc \in {"finish", "throw", "fatal"} : Leave(w, pc)
        \/ Step(w, [me EXCEPT !.pc = "persist", !.seen = Newest])
    BY DEF Engine
  <1> QED
    BY <1>6, <1>7, <1>8

\* The worker is idle again, and gives up the lock if it has it.
LEMMA GoesIdle ==
    ASSUME Inv, NEW w \in Workers, Step(w, Idle),
           NEW to \in {None, "lapsing"}, lock' = IF lock = w THEN to ELSE lock,
           row' \in [Jobs -> Rows], kept' \subseteq Progress, Clean', Checkpoints' = Checkpoints,
           faults' \in FaultRows, Ordinary' => Ordinary,
           UNCHANGED <<at, prod, gate, wm, run, heard, owed, answered, refused>>
    PROVE  Inv'
  <1>1. Idle \in Handlers /\ Idle.pc = "free" /\ Idle.base = 0
    BY IdleIs
  <1>2. Newest \in Nat
    BY Known
  <1>3. Sound(Idle, Newest, heard) /\ Loyal(w, Idle, wm, lock', owed, Saved(wm))
    BY <1>1, <1>2 DEF Sound, Loyal, Inside, Reading, Advancing, Answering
  <1>4. /\ gate' \in BOOLEAN /\ run' \in [id : Nat, job : Jobs \union {None}] /\ lock' \in Locks
        /\ \A v \in Workers : v # w /\ lock = v => lock' = v
    BY DEF Inv, Typed, TypeOK, Locks
  <1> QED
    BY <1>1, <1>3, <1>4, Works

LEMMA FinishStep ==
    ASSUME Inv, NEW w \in Workers, Finish(w)
    PROVE  Inv'
  <1> DEFINE j == worker[w].job
  <1>1. /\ worker[w].pc \in {"finish", "throw", "fatal"} /\ Step(w, Idle)
        /\ lock' = IF lock = w THEN None ELSE lock
        /\ UNCHANGED <<at, prod, gate, wm, run, heard, owed, answered, refused>>
    BY DEF Finish, conversation, history
  <1>2. TypeOK /\ Clean /\ j \in Jobs
    BY <1>1, Known DEF Inv, Typed, Sound
  <1>3. faults' \in FaultRows /\ (Ordinary' => Ordinary)
    <2>1. Fault("last") \/ UNCHANGED faults
      BY DEF Finish
    <2> QED
      BY <1>2, <2>1, FaultType DEF Kinds, Ordinary, TypeOK
  <1>4. /\ row' \in [Jobs -> Rows] /\ kept' \subseteq Progress /\ Clean'
        /\ Checkpoints' = Checkpoints
    <2>1. CASE UNCHANGED <<row, kept>>
      BY <1>2, <2>1, SameProgress DEF TypeOK, Clean
    <2>2. CASE Settle(j)
      BY <1>2, <2>2, SettleDoes DEF TypeOK
    <2>3. CASE /\ UNCHANGED kept
               /\ row' = [row EXCEPT ![j] = IF Slots = {}
                            THEN [row[j] EXCEPT !.st = "queued", !.owner = None]
                            ELSE [row[j] EXCEPT !.stale = TRUE, !.owner = None]]
               /\ Holds(w)
      <3> DEFINE a == [row[j] EXCEPT !.st = "queued", !.owner = None]
                 b == [row[j] EXCEPT !.stale = TRUE, !.owner = None]
      <3>1. row[j] \in Rows /\ row[j].st = "processing"
        BY <1>2, <2>3 DEF TypeOK, Holds
      <3>2. /\ a \in Rows /\ a.prog = row[j].prog /\ a.st = "queued"
            /\ b \in Rows /\ b.prog = row[j].prog /\ b.st = "processing"
        BY <3>1 DEF Rows
      <3>3. row' = [row EXCEPT ![j] = a] \/ row' = [row EXCEPT ![j] = b]
        BY <2>3
      <3> HIDE DEF a, b
      <3> QED
        BY <1>2, <2>3, <3>2, <3>3, RewriteDoes DEF TypeOK
    <2> QED
      BY <2>1, <2>2, <2>3 DEF Finish
  <1> QED
    BY <1>1, <1>3, <1>4, GoesIdle

LEMMA CrashStep ==
    ASSUME Inv, NEW w \in Workers, Crash(w)
    PROVE  Inv'
  <1> DEFINE j == worker[w].job
  <1>1. /\ worker[w].pc # "free" /\ Step(w, Idle) /\ Fault("crash")
        /\ lock' = IF lock = w THEN "lapsing" ELSE lock
        /\ row' = IF Holds(w) THEN [Lapsed(j) EXCEPT ![j].owner = None] ELSE row
        /\ UNCHANGED <<at, prod, gate, kept, wm, run, heard, owed, answered, refused>>
    BY DEF Crash, conversation, history
  <1>2. TypeOK /\ Clean /\ j \in Jobs
    BY <1>1, Known DEF Inv, Typed, Sound
  <1>3. faults' \in FaultRows /\ (Ordinary' => Ordinary)
    BY <1>1, <1>2, FaultType DEF Kinds, TypeOK
  <1>4. /\ row' \in [Jobs -> Rows] /\ kept' \subseteq Progress /\ Clean'
        /\ Checkpoints' = Checkpoints
    <2>1. CASE ~Holds(w)
      BY <1>1, <1>2, <2>1, SameProgress DEF TypeOK, Clean
    <2>2. CASE Holds(w)
      <3> DEFINE r == [row[j] EXCEPT !.stale = TRUE, !.owner = None]
      <3>1. row[j] \in Rows /\ row[j].st = "processing"
        BY <1>2, <2>2 DEF TypeOK, Holds
      <3>2. r \in Rows /\ r.prog = row[j].prog /\ r.st = "processing"
        BY <3>1 DEF Rows
      <3>3. row' = [row EXCEPT ![j] = r]
        BY <1>1, <1>2, <2>2 DEF Lapsed, TypeOK
      <3> HIDE DEF r
      <3> QED
        BY <1>1, <1>2, <3>2, <3>3, RewriteDoes DEF TypeOK
    <2> QED
      BY <2>1, <2>2
  <1> QED
    BY <1>1, <1>3, <1>4, GoesIdle

LEMMA StallStep ==
    ASSUME Inv, NEW w \in Workers, Stall(w)
    PROVE  Inv'
  <1> DEFINE j == worker[w].job
             r == [row[j] EXCEPT !.stale = TRUE]
  <1>1. /\ Fault("stall") /\ lock' = None /\ row' = [row EXCEPT ![j] = r] /\ Holds(w) /\ lock = w
        /\ UNCHANGED <<at, prod, gate, kept, wm, run, worker, heard, owed, answered, refused>>
    BY DEF Stall, Lapsed, conversation, history
  <1>2. TypeOK /\ Clean /\ InOrder /\ Unsent
    BY DEF Inv, Typed
  <1>3. row' \in [Jobs -> Rows] /\ Clean' /\ Checkpoints' = Checkpoints
    <2>1. CASE j \in Jobs
      <3>1. row[j] \in Rows /\ row[j].st = "processing"
        BY <1>1, <1>2, <2>1 DEF TypeOK, Holds
      <3>2. r \in Rows /\ r.prog = row[j].prog /\ r.st = "processing"
        BY <3>1 DEF Rows
      <3> HIDE DEF r
      <3> QED
        BY <1>1, <1>2, <2>1, <3>2, RewriteDoes DEF TypeOK
    <2>2. CASE j \notin Jobs
      <3>1. row' = row
        BY <1>1, <1>2, <2>2 DEF TypeOK
      <3> QED
        BY <1>1, <1>2, <3>1, SameProgress DEF TypeOK, Clean
    <2> QED
      BY <2>1, <2>2
  <1>4. faults' \in FaultRows /\ ~Ordinary'
    BY <1>1, <1>2 DEF TypeOK, FaultRows, Fault, Ordinary, Kinds
  <1>5. TypeOK' /\ Typed'
    BY <1>1, <1>2, <1>3, <1>4, SameOrder DEF TypeOK, Typed, Unsent
  <1>6. Newest' \in Nat /\ Newest <= Newest'
    BY <1>1, <1>2, SameOrder, Numbers DEF InOrder
  <1>7. Backed'
    BY <1>1, <1>3, <1>6, BackedStays DEF Inv
  <1> QED
    BY <1>4, <1>5, <1>7 DEF Inv, Served

LEMMA LockExpiresStep == Inv /\ LockExpires => Inv'
  <1> SUFFICES ASSUME Inv, LockExpires PROVE Inv'
    OBVIOUS
  <1>1. /\ lock = "lapsing" /\ lock' = None
        /\ UNCHANGED <<at, prod, gate, row, kept, wm, run, worker, faults, heard, owed, answered, refused>>
    BY DEF LockExpires, conversation, history
  <1>2. TypeOK /\ Clean /\ InOrder /\ Unsent /\ Served
    BY DEF Inv, Typed
  <1>3. Checkpoints' = Checkpoints /\ Clean'
    BY <1>1, <1>2, SameProgress DEF Clean
  <1>4. TypeOK'
    BY <1>1, <1>2 DEF TypeOK
  <1>5. Typed'
    BY <1>1, <1>2, <1>3, <1>4, SameOrder DEF Typed, Unsent
  <1>6. Newest' \in Nat /\ Newest <= Newest'
    BY <1>1, <1>2, SameOrder, Numbers DEF InOrder
  <1>7. Backed'
    BY <1>1, <1>3, <1>6, BackedStays DEF Inv
  <1>8. ASSUME Ordinary
        PROVE  Served'
    <2>1. Saved(wm)' = Saved(wm) /\ Furthest(wm)' = Furthest(wm)
      BY <1>1, <1>3, SameSaved
    <2>2. ASSUME NEW v \in Workers
          PROVE  Loyal(v, worker'[v], wm', lock', owed', Saved(wm)')
      <3>1. Loyal(v, worker[v], wm, lock, owed, Saved(wm)) /\ lock # v
        BY <1>1, <1>2, <1>8, ReplyAssumptions DEF Served
      <3> QED
        BY <1>1, <2>1, <3>1 DEF Loyal, Inside, Reading, Advancing, Answering
    <2> QED
      BY <1>1, <1>2, <1>3, <1>8, <2>1, <2>2 DEF Served
  <1>9. Served'
    BY <1>1, <1>8 DEF Served, Ordinary
  <1> QED
    BY <1>5, <1>7, <1>9 DEF Inv

-----------------------------------------------------------------------------
(* The theorems.                                                           *)

LEMMA InitInv == Init => Inv
  <1> SUFFICES ASSUME Init PROVE Inv
    OBVIOUS
  <1>1. 0 \in Stamps /\ 0 \in Nat
    BY Numbers
  <1>2. Posted = {} /\ Newest = 0 /\ Posted = 1..0
    BY DEF Init, Posted, Newest
  <1>3. Checkpoints = {} /\ NoRow \in Rows
    BY DEF Init, Checkpoints, NoRow, Rows
  <1>4. TypeOK
    BY <1>1, <1>3, IdleIs, ReplyAssumptions DEF Init, TypeOK, FaultRows
  <1>5. Typed
    BY <1>1, <1>2, <1>4, ReplyAssumptions DEF Init, Typed, InOrder, Clean, Unsent, NoRow
  <1>6. Backed
    BY <1>1, <1>2, <1>3, IdleIs DEF Init, Backed, Sound, Reading, Advancing, Answering
  <1>7. Served
    BY <1>3, IdleIs
    DEF Init, Served, Saved, Furthest, Loyal, Inside, Reading, Advancing, Answering
  <1> QED
    BY <1>5, <1>6, <1>7 DEF Inv

LEMMA StutterInv == Inv /\ UNCHANGED vars => Inv'
  <1> SUFFICES ASSUME Inv, UNCHANGED vars PROVE Inv'
    OBVIOUS
  <1>1. UNCHANGED <<at, prod, gate, row, kept, wm, run, lock, worker, faults, heard, owed, answered, refused>>
    BY DEF vars
  <1>2. TypeOK' /\ Clean' /\ Unsent' /\ Checkpoints' = Checkpoints /\ (Ordinary' => Ordinary)
    BY <1>1, SameProgress DEF Inv, Typed, TypeOK, Clean, Unsent, Ordinary
  <1>3. InOrder' /\ Newest <= Newest'
    BY <1>1, SameOrder DEF Inv, Typed
  <1> QED
    BY <1>1, <1>2, <1>3, Stays DEF Typed

LEMMA NextInv == Inv /\ [Next]_vars => Inv'
  <1> SUFFICES ASSUME Inv, [Next]_vars PROVE Inv'
    OBVIOUS
  <1>1. CASE \E m \in Replies : Post(m)
    BY <1>1, PostStep
  <1>2. CASE \E m \in Replies : Producer(m)
    BY <1>2, AppendStep, ProducerStep DEF Producer
  <1>3. CASE Expire \/ Decide \/ Claims \/ LockExpires
    BY <1>3, ExpireStep, DecideStep, ClaimStep, LockExpiresStep DEF Claims
  <1>4. CASE \E w \in Workers : Handle(w)
    BY <1>4, ClearStep, ReadStep, LookAheadStep, ActStep, SaveStep, UnreadStep,
       AdvanceStep, EngineStep, PersistStep, RejectStep, FinishStep DEF Handle
  <1>5. CASE \E w \in Workers : Crash(w) \/ Error(w) \/ Stall(w)
    BY <1>5, CrashStep, ErrorStep, StallStep
  <1>6. CASE \E j \in Jobs : Retire(j)
    BY <1>6, RetireStep
  <1>7. CASE UNCHANGED vars
    BY <1>7, StutterInv
  <1> QED
    BY <1>1, <1>2, <1>3, <1>4, <1>5, <1>6, <1>7 DEF Next

\* The invariant, from its initial states along every step.
THEOREM InvHolds == Spec => []Inv
  <1> QED
    BY InitInv, NextInv, PTL DEF Spec

\* Every reachable state is well typed: stamps stay within the number of
\* replies, and a handler's page is never empty where it takes its first reply.
THEOREM TypeCorrect == Spec => []TypeOK
  <1>1. Inv => TypeOK
    BY DEF Inv, Typed
  <1> QED
    BY <1>1, InvHolds, PTL

\* The watermark passes only replies that were interpreted and, while leases
\* hold, are owed no answer, for any replies, batch size, workers and faults.
THEOREM WatermarkEarned == Spec => []WatermarkIsEarned
  <1>1. ASSUME Inv PROVE WatermarkIsEarned
    <2>1. SUFFICES ASSUME NEW s \in Posted, s <= wm
                   PROVE  s \in heard /\ (s \in owed => "stall" \in faults.kinds)
      BY DEF WatermarkIsEarned, Settled
    <2>2. s \in 1..Newest /\ s \in Nat /\ wm \in Nat
      BY <1>1, <2>1, Known, Numbers DEF Inv, Typed, InOrder, TypeOK
    <2>3. s \in heard
      BY <1>1, <2>1, <2>2 DEF Inv, Backed
    <2>4. Ordinary => s \notin owed
      BY <1>1, <2>1, <2>2 DEF Inv, Served
    <2> QED
      BY <2>3, <2>4 DEF Ordinary
  <1> QED
    BY <1>1, InvHolds, PTL

\* The action of AnswerIsDue.
Due(w) ==
    /\ worker[w].pc = "persist" /\ worker'[w].pc = "finish" /\ run' # run
    /\ "stall" \notin faults.kinds
    => worker[w].pend \notin answered /\ owed \subseteq {worker[w].pend}

\* A question that was answered lies at or before the watermark; the one a
\* handler answers lies after it.
LEMMA PersistIsDue ==
    ASSUME Inv, NEW w \in Workers, Persist(w)
    PROVE  Due(w)
  <1> DEFINE me == worker[w]
  <1>1. SUFFICES ASSUME Ordinary PROVE me.pend \notin answered /\ owed \subseteq {me.pend}
    BY DEF Due, Ordinary
  <1>2. me.pc = "persist"
    BY DEF Persist
  <1>3. me.pend \notin answered
    <2>1. SUFFICES ASSUME me.pend \in answered PROVE FALSE
      OBVIOUS
    <2>2. me.base = wm /\ me.base < me.pend /\ me.pend \in Nat /\ wm \in Nat
      BY <1>1, <1>2, Known DEF Loyal, Sound, Inside, Reading, Advancing, Answering
    <2>3. me.pend <= wm
      BY <1>1, <2>1 DEF Inv, Served
    <2> QED
      BY <2>2, <2>3
  <1> QED
    BY <1>1, <1>2, <1>3, Answered

\* Only Persist takes a handler from the engine's result to its end with the
\* run completed.
LEMMA NextIsDue ==
    ASSUME Inv, Next
    PROVE  \A w \in Workers : Due(w)
  <1> SUFFICES ASSUME NEW w \in Workers, worker[w].pc = "persist", worker'[w].pc = "finish",
                      run' # run
               PROVE  Due(w)
    BY DEF Due
  <1>1. worker \in [Workers -> Handlers] /\ worker[w] \in Handlers
    BY DEF Inv, Typed, TypeOK
  <1>2. worker' # worker
    BY <1>1
  <1>3. PICK v \in Workers :
          (\E j \in Jobs : Claim(v, j)) \/ Handle(v) \/ Crash(v) \/ Error(v)
    BY <1>2 DEF Next, Post, Producer, Append, Arm, Enqueue, EnqueueFails, Drop, Expire, Decide,
                Claims, LockExpires, Stall, Retire
  <1>4. \E h : Step(v, h)
    <2>1. CASE (\E j \in Jobs : Claim(v, j)) \/ Crash(v) \/ Error(v)
      BY <2>1 DEF Claim, Crash, Error, Leave
    <2>2. CASE Handle(v)
      BY <2>2 DEF Handle, Clear, Read, LookAhead, Act, Save, Unread, Advance, Engine, Persist,
                  Reject, Finish, Goto, Leave, Admit
    <2> QED
      BY <1>3, <2>1, <2>2
  <1>5. v = w
    BY <1>1, <1>4 DEF Step
  <1>6. Persist(w) \/ Crash(w) \/ Error(w)
    BY <1>3, <1>5 DEF Claim, Handle, Clear, Read, LookAhead, Act, Save, Unread, Advance, Engine,
                      Reject, Finish
  <1>7. ~Crash(w) /\ ~Error(w)
    BY <1>1, IdleIs DEF Crash, Error, Leave, Step, Handlers
  <1> QED
    BY <1>6, <1>7, PersistIsDue

\* While leases hold a question is answered by one published run, however many
\* promotions were refused before it, and that run answers the question that is
\* still open, for any replies, crashes, errors and retries.
THEOREM AnswersAreDue == Spec => AnswerIsDue
  <1>1. Inv /\ [Next]_vars => [\A w \in Workers : Due(w)]_vars
    BY NextIsDue
  <1> QED
    BY <1>1, InvHolds, PTL DEF Spec, AnswerIsDue, Due
=============================================================================
