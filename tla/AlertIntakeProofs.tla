------------------------- MODULE AlertIntakeProofs --------------------------
(***************************************************************************)
(* Proofs about AlertIntake, for any episodes, incidents and processes and *)
(* any number of outside events.                                           *)
(***************************************************************************)
EXTENDS AlertIntake, TLAPS

-----------------------------------------------------------------------------
(* Handlers: their records, and what the steps do to them.                 *)

Steps == {"idle", "retain", "stale", "adopt", "take", "reread", "claim", "post", "record",
          "rejected", "uncertain", "posted", "check", "reserve", "open", "release",
          "finalize", "update", "answer"}

Hands == [pc : Steps, e : Episodes \union {None}, sent : Statuses, say : Statuses,
          older : SUBSET Handlers, late : BOOLEAN, in : Incidents \union {None},
          cur : BOOLEAN, held : BOOLEAN, again : BOOLEAN]

HandsType ==
    /\ h \in [Handlers -> Hands]
    /\ \A w \in Handlers : h[w].pc # "idle" => h[w].e \in Episodes

\* The records of the rows.
IntakeRec == [st : States, obs : Statuses, old : BOOLEAN,
              root : Threads \union {None}, in : Incidents \union {None}]
SigRec    == [st : {"absent", "firing", "resolved"},
              owner : Incidents \union {None}, slack : BOOLEAN]
IncRec    == [st : {"absent", "open", "closed"}, ep : Episodes \union {None}]
ProvRec   == [known : BOOLEAN, over : BOOLEAN, owed : SUBSET Statuses, odd : BOOLEAN]

IntakeType == intake \in [Episodes -> IntakeRec]
SigType    == sig \in [Episodes -> SigRec]
IncType    == inc \in [Incidents -> IncRec]
BoundType  == bound \in [Episodes -> [Threads -> Incidents \union {None}]]
PostsType  == posts \in [Episodes -> Nat]
KeyType    == key \in [Episodes -> BOOLEAN]
ProvType   == prov \in [Episodes -> ProvRec]
RestType   == subscribed \in BOOLEAN /\ budget \in Nat

LEMMA TypeParts ==
    /\ TypeOK <=> /\ IntakeType /\ SigType /\ IncType /\ BoundType
                  /\ PostsType /\ KeyType /\ ProvType /\ RestType
    /\ TypeOK' <=> /\ IntakeType' /\ SigType' /\ IncType' /\ BoundType'
                   /\ PostsType' /\ KeyType' /\ ProvType' /\ RestType'
  BY DEF TypeOK, IntakeType, SigType, IncType, BoundType, PostsType, KeyType, ProvType,
         RestType, IntakeRec, SigRec, IncRec, ProvRec

\* The other handlers stay where they are, at the episode they are about.
Same(w) ==
    \A g \in Handlers \ {w} : h'[g].pc = h[g].pc /\ h'[g].e = h[g].e /\ h'[g].in = h[g].in

\* The handler goes on to one of these steps, or returns.
Moves(w, pcs) ==
    /\ h'[w].pc \in pcs
    /\ h'[w].pc # "idle" => h'[w].e = h[w].e
    /\ Same(w)

\* One handler's record changes.
LEMMA SetStep ==
    ASSUME NEW w \in Handlers, NEW r \in Hands, HandsType,
           r.pc # "idle" => r.e \in Episodes, h' = [h EXCEPT ![w] = r]
    PROVE  HandsType' /\ h'[w] = r /\ Same(w)
  BY DEF HandsType, Same

LEMMA GoStep ==
    ASSUME NEW w \in Handlers, NEW pc \in Steps, HandsType, h[w].pc # "idle", Go(w, pc)
    PROVE  HandsType' /\ Moves(w, {pc}) /\ h'[w].in = h[w].in
  <1> DEFINE r == [h[w] EXCEPT !.pc = pc]
  <1>1. h[w] \in Hands /\ h[w].e \in Episodes
    BY DEF HandsType
  <1>2. r \in Hands /\ r.e = h[w].e /\ r.pc = pc /\ r.in = h[w].in
    BY <1>1 DEF Hands
  <1>3. h' = [h EXCEPT ![w] = r]
    BY DEF Go
  <1> HIDE DEF r
  <1>4. HandsType' /\ h'[w] = r /\ Same(w)
    BY <1>1, <1>2, <1>3, SetStep
  <1> QED
    BY <1>2, <1>4 DEF Moves

LEMMA IdleHand == Idle \in Hands /\ Idle.pc = "idle"
  BY DEF Idle, Hands, Steps, Statuses

\* A handler returns, whether or not the notification is acknowledged.
LEMMA IdleStep ==
    ASSUME NEW w \in Handlers, HandsType,
           h' = [g \in Handlers |-> IF g = w THEN Idle ELSE [h[g] EXCEPT !.older = @ \ {w}]]
    PROVE  HandsType' /\ Moves(w, {"idle"})
  <1>1. ASSUME NEW g \in Handlers, g # w
        PROVE  /\ h'[g] \in Hands /\ h'[g].pc = h[g].pc
               /\ h'[g].e = h[g].e /\ h'[g].in = h[g].in
    <2>1. h[g] \in Hands /\ h'[g] = [h[g] EXCEPT !.older = @ \ {w}]
      BY <1>1 DEF HandsType
    <2> QED
      BY <2>1 DEF Hands
  <1>2. h'[w] = Idle
    OBVIOUS
  <1>3. ASSUME NEW g \in Handlers
        PROVE  h'[g] \in Hands /\ (h'[g].pc # "idle" => h'[g].e \in Episodes)
    BY <1>1, <1>2, IdleHand DEF HandsType
  <1>4. HandsType'
    BY <1>3 DEF HandsType
  <1> QED
    BY <1>1, <1>2, <1>4, IdleHand DEF Moves, Same

LEMMA DoneStep ==
    ASSUME NEW w \in Handlers, NEW acknowledged \in BOOLEAN, HandsType, ProvType,
           Done(w, acknowledged)
    PROVE  HandsType' /\ Moves(w, {"idle"}) /\ ProvType'
  <1>1. HandsType' /\ Moves(w, {"idle"})
    BY IdleStep DEF Done
  <1>2. ProvType'
    <2> DEFINE e == h[w].e
               r == [prov[e] EXCEPT !.owed = @ \ {h[w].sent}]
    <2>1. e \in Episodes => r \in ProvRec
      BY DEF ProvType, ProvRec
    <2>2. prov' = [prov EXCEPT ![e] = r] \/ prov' = prov
      BY DEF Done
    <2> HIDE DEF e, r
    <2> QED
      BY <2>1, <2>2 DEF ProvType
  <1> QED
    BY <1>1, <1>2

LEMMA ThrowStep ==
    ASSUME NEW w \in Handlers, HandsType, ProvType, Throw(w)
    PROVE  HandsType' /\ Moves(w, {"idle"}) /\ ProvType'
  BY DoneStep DEF Throw

\* Where a handler goes with the row it has read.
LEMMA ProceedStep ==
    ASSUME NEW w \in Handlers, NEW row \in IntakeRec, NEW untried \in {"adopt", "claim"},
           HandsType, ProvType, h[w].pc # "idle", Proceed(w, row, untried)
    PROVE  /\ HandsType' /\ ProvType'
           /\ Moves(w, {"update", "check", "idle", untried})
           /\ h'[w].pc = "update" => row.st = "accepted" /\ h'[w].in = row.in
  <1>0. /\ h[w] \in Hands /\ h[w].e \in Episodes
        /\ row.obs \in Statuses /\ row.in \in Incidents \union {None}
    BY DEF HandsType, IntakeRec
  <1>1. CASE /\ row.st = "accepted"
             /\ h' = [h EXCEPT ![w] = [@ EXCEPT !.pc = "update", !.say = row.obs, !.in = row.in]]
             /\ UNCHANGED prov
    <2> DEFINE r == [h[w] EXCEPT !.pc = "update", !.say = row.obs, !.in = row.in]
    <2>1. r \in Hands /\ r.e = h[w].e /\ r.pc = "update" /\ r.in = row.in
      BY <1>0 DEF Hands, Steps
    <2>2. h' = [h EXCEPT ![w] = r]
      BY <1>1
    <2> HIDE DEF r
    <2>3. HandsType' /\ h'[w] = r /\ Same(w)
      BY <1>0, <2>1, <2>2, SetStep
    <2> QED
      BY <1>1, <2>1, <2>3 DEF Moves, ProvType
  <1>2. CASE row.st \in Untried /\ Go(w, untried) /\ UNCHANGED prov
    <2>1. HandsType' /\ Moves(w, {untried})
      BY <1>2, GoStep DEF Steps
    <2> QED
      BY <1>2, <2>1 DEF Moves, ProvType
  <1>3. CASE /\ row.st = "posted"
             /\ h' = [h EXCEPT ![w] = [@ EXCEPT !.pc = "check", !.say = row.obs]]
             /\ UNCHANGED prov
    <2> DEFINE r == [h[w] EXCEPT !.pc = "check", !.say = row.obs]
    <2>1. r \in Hands /\ r.e = h[w].e /\ r.pc = "check"
      BY <1>0 DEF Hands, Steps
    <2>2. h' = [h EXCEPT ![w] = r]
      BY <1>3
    <2> HIDE DEF r
    <2>3. HandsType' /\ h'[w] = r /\ Same(w)
      BY <1>0, <2>1, <2>2, SetStep
    <2> QED
      BY <1>3, <2>1, <2>3 DEF Moves, ProvType
  <1>4. CASE row.st = "posting" /\ Throw(w)
    BY <1>4, ThrowStep DEF Moves
  <1>5. CASE row.st = "uncertain" /\ Done(w, TRUE)
    <2>1. HandsType' /\ Moves(w, {"idle"}) /\ ProvType'
      BY <1>5, DoneStep
    <2> QED
      BY <2>1 DEF Moves
  <1> QED
    BY <1>1, <1>2, <1>3, <1>4, <1>5 DEF Proceed

\* Only flags of the handlers change.
Flagged ==
    \A g \in Handlers : h'[g].pc = h[g].pc /\ h'[g].e = h[g].e /\ h'[g].in = h[g].in

LEMMA RotatedStep ==
    ASSUME HandsType, h' = Rotated
    PROVE  HandsType' /\ Flagged
  <1>1. ASSUME NEW g \in Handlers
        PROVE  /\ h'[g] \in Hands
               /\ h'[g].pc = h[g].pc /\ h'[g].e = h[g].e /\ h'[g].in = h[g].in
    <2>1. h[g] \in Hands
      BY DEF HandsType
    <2>2. h'[g] = [h[g] EXCEPT !.cur = FALSE] \/ h'[g] = h[g]
      BY DEF Rotated
    <2> QED
      BY <2>1, <2>2 DEF Hands
  <1>2. h' \in [Handlers -> Hands]
    <2>1. h' = [g \in Handlers |-> h'[g]]
      BY DEF Rotated
    <2> QED
      BY <1>1, <2>1
  <1> QED
    BY <1>1, <1>2 DEF HandsType, Flagged

-----------------------------------------------------------------------------
(* One row of a table changes.                                             *)

LEMMA SetIntake ==
    ASSUME NEW e \in Episodes, NEW r \in IntakeRec, IntakeType,
           intake' = [intake EXCEPT ![e] = r]
    PROVE  /\ IntakeType' /\ intake'[e] = r
           /\ \A f \in Episodes \ {e} : intake'[f] = intake[f]
  BY DEF IntakeType

LEMMA SetSig ==
    ASSUME NEW e \in Episodes, NEW r \in SigRec, SigType, sig' = [sig EXCEPT ![e] = r]
    PROVE  /\ SigType' /\ sig'[e] = r
           /\ \A f \in Episodes \ {e} : sig'[f] = sig[f]
  BY DEF SigType

\* The rows the code writes are rows.
LEMMA IntakeWritten ==
    ASSUME NEW e \in Episodes, IntakeType
    PROVE  /\ intake[e] \in IntakeRec
           /\ \A s \in States : /\ [intake[e] EXCEPT !.st = s] \in IntakeRec
                                /\ [intake[e] EXCEPT !.st = s, !.old = FALSE] \in IntakeRec
           /\ \A o \in Statuses : /\ [intake[e] EXCEPT !.obs = o] \in IntakeRec
                                  /\ [intake[e] EXCEPT !.st = "pending", !.obs = o] \in IntakeRec
  BY DEF IntakeType, IntakeRec, States

\* A working handler is about an episode.
LEMMA Working ==
    ASSUME NEW w \in Handlers, HandsType, h[w].pc # "idle"
    PROVE  /\ h[w] \in Hands /\ h[w].e \in Episodes
           /\ h[w].sent \in Statuses /\ h[w].say \in Statuses
           /\ h[w].in \in Incidents \union {None}
  BY DEF HandsType, Hands

-----------------------------------------------------------------------------
(* Type correctness of the steps of processAlert.                          *)

\* What one step of a handler keeps of the types.
Typed == TypeOK /\ HandsType

LEMMA KeptStatus ==
    ASSUME NEW a \in Statuses, NEW b \in Statuses
    PROVE  Kept(a, b) \in Statuses
  BY DEF Kept

\* What retainProviderEpisode writes.
Retained(w) ==
    LET e == h[w].e
    IN  IF intake[e].st = "absent"
        THEN [intake[e] EXCEPT !.st = "pending", !.obs = h[w].sent]
        ELSE [intake[e] EXCEPT !.obs = Kept(@, h[w].sent)]

LEMMA RetainedRow ==
    ASSUME NEW w \in Handlers, Typed, h[w].pc # "idle"
    PROVE  /\ Retained(w) \in IntakeRec
           /\ Retained(w).root = intake[h[w].e].root
           /\ Retained(w).in = intake[h[w].e].in
           /\ Retained(w).st = IF intake[h[w].e].st = "absent" THEN "pending"
                                                               ELSE intake[h[w].e].st
  <1> DEFINE e == h[w].e
             row == intake[e]
  <1>1. e \in Episodes /\ h[w].sent \in Statuses
    BY Working DEF Typed
  <1>2. IntakeType /\ row \in IntakeRec
    BY <1>1, TypeParts, IntakeWritten DEF Typed
  <1>3. row.obs \in Statuses
    BY <1>2 DEF IntakeRec
  <1>4. Kept(row.obs, h[w].sent) \in Statuses
    BY <1>1, <1>3, KeptStatus
  <1>5. Retained(w) = IF row.st = "absent"
                      THEN [row EXCEPT !.st = "pending", !.obs = h[w].sent]
                      ELSE [row EXCEPT !.obs = Kept(row.obs, h[w].sent)]
    BY DEF Retained
  <1>6. Retained(w) \in IntakeRec
    BY <1>1, <1>2, <1>4, <1>5, IntakeWritten
  <1> HIDE DEF row
  <1> QED
    BY <1>2, <1>5, <1>6 DEF IntakeRec, row

LEMMA RetainType ==
    ASSUME NEW w \in Handlers, Typed, Retain(w)
    PROVE  /\ Typed' /\ Moves(w, {"stale", "update", "adopt", "check", "idle"})
           /\ h'[w].pc = "update" => /\ Retained(w).st = "accepted"
                                     /\ h'[w].in = Retained(w).in
           /\ intake' = intake \/ intake' = [intake EXCEPT ![h[w].e] = Retained(w)]
           /\ UNCHANGED <<sig, inc, bound, posts, key, subscribed>>
  <1> DEFINE e == h[w].e
             row == Retained(w)
  <1>0. /\ e \in Episodes /\ h[w].pc = "retain" /\ h[w].pc # "idle"
        /\ IntakeType /\ SigType /\ IncType /\ BoundType /\ PostsType /\ KeyType
        /\ ProvType /\ RestType /\ HandsType
    BY TypeParts, Working DEF Typed, Retain
  <1>1. row \in IntakeRec
    BY <1>0, RetainedRow
  <1>2. intake' = [intake EXCEPT ![e] = row] => IntakeType'
    BY <1>0, <1>1, SetIntake
  <1>3. UNCHANGED <<sig, inc, bound, posts, key, subscribed>>
    BY DEF Retain
  <1>4. CASE ~Current(w) /\ Throw(w) /\ UNCHANGED <<intake, budget>>
    <2>1. HandsType' /\ Moves(w, {"idle"}) /\ ProvType'
      BY <1>0, <1>4, ThrowStep
    <2> QED
      BY <1>0, <1>3, <1>4, <2>1, TypeParts
         DEF Typed, Moves, IntakeType, SigType, IncType, BoundType, PostsType, KeyType, RestType
  <1>5. CASE /\ intake' = [intake EXCEPT ![e] = row]
             /\ IF row.st = "posting" /\ row.old THEN Go(w, "stale") /\ UNCHANGED prov
                ELSE Proceed(w, row, "adopt")
             /\ UNCHANGED budget
    <2>1. /\ HandsType' /\ ProvType'
          /\ Moves(w, {"stale", "update", "adopt", "check", "idle"})
          /\ h'[w].pc = "update" => row.st = "accepted" /\ h'[w].in = row.in
      <3>1. CASE Go(w, "stale") /\ UNCHANGED prov
        <4>1. HandsType' /\ Moves(w, {"stale"})
          BY <1>0, <3>1, GoStep DEF Steps
        <4> QED
          BY <1>0, <3>1, <4>1 DEF Moves, ProvType
      <3>2. CASE Proceed(w, row, "adopt")
        <4>1. /\ HandsType' /\ ProvType' /\ Moves(w, {"update", "check", "idle", "adopt"})
              /\ h'[w].pc = "update" => row.st = "accepted" /\ h'[w].in = row.in
          BY <1>0, <1>1, <3>2, ProceedStep
        <4> QED
          BY <4>1 DEF Moves
      <3> QED
        BY <1>5, <3>1, <3>2
    <2> QED
      BY <1>0, <1>2, <1>3, <1>5, <2>1, TypeParts
         DEF Typed, SigType, IncType, BoundType, PostsType, KeyType, RestType
  <1>6. CASE /\ Spend("odd") /\ intake' = [intake EXCEPT ![e] = row]
             /\ h' = [g \in Handlers |-> IF g = w THEN Idle ELSE [h[g] EXCEPT !.older = @ \ {w}]]
             /\ prov' = [prov EXCEPT ![e] = [prov[e] EXCEPT !.owed = @ \ {h[w].sent}, !.odd = TRUE]]
    <2>1. HandsType' /\ Moves(w, {"idle"})
      BY <1>0, <1>6, IdleStep
    <2>2. ProvType'
      <3> DEFINE r == [prov[e] EXCEPT !.owed = @ \ {h[w].sent}, !.odd = TRUE]
      <3>1. r \in ProvRec
        BY <1>0 DEF ProvType, ProvRec
      <3>2. ASSUME NEW f \in Episodes PROVE prov'[f] = IF f = e THEN r ELSE prov[f]
        BY <1>0, <1>6 DEF ProvType
      <3> HIDE DEF r
      <3>3. prov' = [f \in Episodes |-> prov'[f]]
        BY <1>0, <1>6 DEF ProvType
      <3> QED
        BY <1>0, <3>1, <3>2, <3>3 DEF ProvType
    <2>3. RestType'
      BY <1>0, <1>3, <1>6 DEF RestType, Spend
    <2> QED
      BY <1>0, <1>2, <1>3, <1>6, <2>1, <2>2, <2>3, TypeParts
         DEF Typed, Moves, SigType, IncType, BoundType, PostsType, KeyType
  <1> QED
    <2>1. \/ ~Current(w) /\ Throw(w) /\ UNCHANGED <<intake, budget>>
          \/ /\ intake' = [intake EXCEPT ![e] = row]
             /\ IF row.st = "posting" /\ row.old THEN Go(w, "stale") /\ UNCHANGED prov
                ELSE Proceed(w, row, "adopt")
             /\ UNCHANGED budget
          \/ /\ Spend("odd") /\ intake' = [intake EXCEPT ![e] = row]
             /\ h' = [g \in Handlers |-> IF g = w THEN Idle ELSE [h[g] EXCEPT !.older = @ \ {w}]]
             /\ prov' = [prov EXCEPT ![e] = [prov[e] EXCEPT !.owed = @ \ {h[w].sent}, !.odd = TRUE]]
      BY DEF Retain, Retained
    <2> QED
      BY <2>1, <1>4, <1>5, <1>6

LEMMA MarkStaleType ==
    ASSUME NEW w \in Handlers, Typed, MarkStale(w)
    PROVE  /\ Typed' /\ Moves(w, {"update", "adopt", "check", "idle"})
           /\ h'[w].pc = "update" => /\ intake[h[w].e].st = "accepted"
                                     /\ h'[w].in = intake[h[w].e].in
           /\ \/ intake' = intake
              \/ /\ intake[h[w].e].st = "posting"
                 /\ intake' = [intake EXCEPT ![h[w].e] =
                                  [@ EXCEPT !.st = "uncertain", !.old = FALSE]]
  <1> DEFINE e == h[w].e
             r == [intake[e] EXCEPT !.st = "uncertain", !.old = FALSE]
  <1>0. /\ e \in Episodes /\ h[w].pc # "idle"
        /\ IntakeType /\ SigType /\ IncType /\ BoundType /\ PostsType /\ KeyType
        /\ ProvType /\ RestType /\ HandsType
    BY TypeParts, Working DEF Typed, MarkStale
  <1>1. r \in IntakeRec /\ intake[e] \in IntakeRec
    BY <1>0, IntakeWritten DEF States
  <1>2. UNCHANGED <<sig, inc, bound, posts, key, subscribed, budget>>
    BY DEF MarkStale
  <1>3. CASE /\ intake[e].st = "posting"
             /\ intake' = [intake EXCEPT ![e] = r] /\ Throw(w)
    <2>1. HandsType' /\ Moves(w, {"idle"}) /\ ProvType'
      BY <1>0, <1>3, ThrowStep
    <2>2. IntakeType'
      BY <1>0, <1>1, <1>3, SetIntake
    <2> QED
      BY <1>0, <1>2, <1>3, <2>1, <2>2, TypeParts
         DEF Typed, Moves, SigType, IncType, BoundType, PostsType, KeyType, RestType
  <1>4. CASE Proceed(w, intake[e], "adopt") /\ UNCHANGED intake
    <2>1. /\ HandsType' /\ ProvType' /\ Moves(w, {"update", "check", "idle", "adopt"})
          /\ h'[w].pc = "update" => intake[e].st = "accepted" /\ h'[w].in = intake[e].in
      BY <1>0, <1>1, <1>4, ProceedStep
    <2> QED
      BY <1>0, <1>2, <1>4, <2>1, TypeParts
         DEF Typed, Moves, IntakeType, SigType, IncType, BoundType, PostsType, KeyType, RestType
  <1>5. \/ /\ intake[e].st = "posting"
           /\ intake' = [intake EXCEPT ![e] = r] /\ Throw(w)
        \/ Proceed(w, intake[e], "adopt") /\ UNCHANGED intake
    BY DEF MarkStale, Interrupted
  <1> QED
    BY <1>3, <1>4, <1>5

LEMMA LookUpType ==
    ASSUME NEW w \in Handlers, Typed, LookUp(w)
    PROVE  /\ Typed' /\ Moves(w, {"take", "claim"})
           /\ h'[w].pc = "take" => sig[h[w].e].slack /\ h'[w].in = sig[h[w].e].owner
  <1>1. HandsType /\ h[w].pc # "idle"
    BY DEF Typed, LookUp
  <1>2. CASE sig[h[w].e].slack
    <2> DEFINE r == [h[w] EXCEPT !.pc = "take", !.in = sig[h[w].e].owner]
    <2>1. h[w] \in Hands /\ h[w].e \in Episodes /\ sig[h[w].e].owner \in Incidents \union {None}
      BY <1>1, Working, TypeParts DEF HandsType, Typed, SigType, SigRec
    <2>2. /\ r \in Hands /\ r.e = h[w].e /\ r.pc = "take" /\ r.in = sig[h[w].e].owner
          /\ r.pc # "idle" => r.e \in Episodes
      BY <2>1 DEF Hands, Steps
    <2>3. h' = [h EXCEPT ![w] = r]
      BY <1>2 DEF LookUp
    <2> HIDE DEF r
    <2>4. HandsType' /\ h'[w] = r /\ Same(w)
      BY <1>1, <2>2, <2>3, SetStep
    <2> QED
      BY <1>2, <2>2, <2>4 DEF LookUp, Typed, TypeOK, rows, Moves
  <1>3. CASE ~sig[h[w].e].slack
    <2>1. HandsType' /\ Moves(w, {"claim"})
      BY <1>1, <1>3, GoStep DEF LookUp, Steps, Go
    <2> QED
      BY <1>3, <2>1 DEF LookUp, Typed, TypeOK, rows, Moves
  <1> QED
    BY <1>2, <1>3

LEMMA TakeType ==
    ASSUME NEW w \in Handlers, Typed, Take(w)
    PROVE  /\ Typed' /\ Moves(w, {"reread", "idle"})
           /\ \/ intake' = intake
              \/ /\ intake[h[w].e].st \in Untried
                 /\ bound[h[w].e].notice = h[w].in
                 /\ intake' = [intake EXCEPT ![h[w].e] =
                      [@ EXCEPT !.st = "accepted", !.root = "notice", !.in = h[w].in]]
  <1> DEFINE e == h[w].e
             r == [intake[e] EXCEPT !.st = "accepted", !.root = "notice", !.in = h[w].in]
  <1>0. /\ e \in Episodes /\ h[w].pc # "idle"
        /\ IntakeType /\ SigType /\ IncType /\ BoundType /\ PostsType /\ KeyType
        /\ ProvType /\ RestType /\ HandsType
    BY TypeParts, Working DEF Typed, Take
  <1>1. r \in IntakeRec
    <2>1. intake[e] \in IntakeRec /\ h[w].in \in Incidents \union {None}
      BY <1>0 DEF IntakeType, HandsType, Hands
    <2> QED
      BY <2>1 DEF IntakeRec, States, Threads
  <1>2. UNCHANGED <<sig, inc, bound, posts, key, subscribed, budget>>
    BY DEF Take
  <1> DEFINE next == [h[w] EXCEPT !.pc = "reread", !.in = None]
  <1>3. CASE /\ bound[e].notice = h[w].in
             /\ intake' = IF intake[e].st \in Untried THEN [intake EXCEPT ![e] = r] ELSE intake
             /\ h' = [h EXCEPT ![w] = next] /\ UNCHANGED prov
    <2>1. HandsType' /\ Moves(w, {"reread"})
      <3>1. next \in Hands /\ next.e = h[w].e /\ next.pc = "reread"
        <4>1. h[w] \in Hands
          BY <1>0 DEF HandsType
        <4> QED
          BY <4>1 DEF Hands, Steps
      <3> HIDE DEF next
      <3>2. HandsType' /\ h'[w] = next /\ Same(w)
        BY <1>0, <1>3, <3>1, SetStep
      <3> QED
        BY <3>1, <3>2 DEF Moves
    <2>2. IntakeType'
      BY <1>0, <1>1, <1>3, SetIntake DEF IntakeType
    <2>3. IntakeType' /\ SigType' /\ IncType' /\ BoundType' /\ PostsType' /\ KeyType'
          /\ ProvType' /\ RestType'
      BY <1>0, <1>2, <1>3, <2>2
         DEF SigType, IncType, BoundType, PostsType, KeyType, ProvType, RestType
    <2>4. Typed'
      BY <2>1, <2>3, TypeParts DEF Typed
    <2> QED
      BY <1>3, <2>1, <2>4 DEF Moves
  <1>4. CASE Throw(w) /\ UNCHANGED intake
    <2>1. HandsType' /\ Moves(w, {"idle"}) /\ ProvType'
      BY <1>0, <1>4, ThrowStep
    <2> QED
      BY <1>0, <1>2, <1>4, <2>1, TypeParts
         DEF Typed, Moves, IntakeType, SigType, IncType, BoundType, PostsType, KeyType, RestType
  <1>5. \/ /\ bound[e].notice = h[w].in
           /\ intake' = IF intake[e].st \in Untried THEN [intake EXCEPT ![e] = r] ELSE intake
           /\ h' = [h EXCEPT ![w] = next] /\ UNCHANGED prov
        \/ Throw(w) /\ UNCHANGED intake
    BY DEF Take
  <1> QED
    BY <1>3, <1>4, <1>5

LEMMA RereadType ==
    ASSUME NEW w \in Handlers, Typed, Reread(w)
    PROVE  /\ Typed' /\ Moves(w, {"update", "claim", "check", "idle"})
           /\ h'[w].pc = "update" => /\ intake[h[w].e].st = "accepted"
                                     /\ h'[w].in = intake[h[w].e].in
  <1>0. /\ h[w].e \in Episodes /\ h[w].pc # "idle"
        /\ IntakeType /\ ProvType /\ HandsType /\ intake[h[w].e] \in IntakeRec
    BY TypeParts, Working DEF Typed, Reread, IntakeType
  <1>1. /\ HandsType' /\ ProvType' /\ Moves(w, {"update", "check", "idle", "claim"})
        /\ h'[w].pc = "update" => /\ intake[h[w].e].st = "accepted"
                                  /\ h'[w].in = intake[h[w].e].in
    BY <1>0, ProceedStep DEF Reread
  <1> QED
    BY <1>1, TypeParts DEF Reread, rows, Typed, Moves, IntakeType, SigType, IncType, BoundType,
                           PostsType, KeyType, RestType

LEMMA ClaimType ==
    ASSUME NEW w \in Handlers, Typed, Claim(w)
    PROVE  /\ Typed' /\ Moves(w, {"post", "idle"})
           /\ \/ intake' = intake /\ h'[w].pc = "idle"
              \/ /\ intake[h[w].e].st \in Untried /\ h'[w].pc = "post"
                 /\ intake' = [intake EXCEPT ![h[w].e] =
                                  [@ EXCEPT !.st = "posting", !.old = FALSE]]
  <1> DEFINE e == h[w].e
             r == [intake[e] EXCEPT !.st = "posting", !.old = FALSE]
  <1>0. /\ e \in Episodes /\ h[w].pc # "idle"
        /\ IntakeType /\ SigType /\ IncType /\ BoundType /\ PostsType /\ KeyType
        /\ ProvType /\ RestType /\ HandsType
    BY TypeParts, Working DEF Typed, Claim
  <1>1. r \in IntakeRec
    BY <1>0, IntakeWritten DEF States
  <1>2. UNCHANGED <<sig, inc, bound, posts, key, subscribed, budget>>
    BY DEF Claim
  <1>3. CASE /\ intake[e].st \in Untried
             /\ intake' = [intake EXCEPT ![e] = r] /\ Go(w, "post") /\ UNCHANGED prov
    <2>1. HandsType' /\ Moves(w, {"post"})
      BY <1>0, <1>3, GoStep DEF Steps
    <2>2. IntakeType'
      BY <1>0, <1>1, <1>3, SetIntake
    <2> QED
      BY <1>0, <1>2, <1>3, <2>1, <2>2, TypeParts
         DEF Typed, Moves, SigType, IncType, BoundType, PostsType, KeyType, ProvType, RestType
  <1>4. CASE Throw(w) /\ UNCHANGED intake
    <2>1. HandsType' /\ Moves(w, {"idle"}) /\ ProvType'
      BY <1>0, <1>4, ThrowStep
    <2> QED
      BY <1>0, <1>2, <1>4, <2>1, TypeParts
         DEF Typed, Moves, IntakeType, SigType, IncType, BoundType, PostsType, KeyType, RestType
  <1>5. \/ /\ intake[e].st \in Untried
           /\ intake' = [intake EXCEPT ![e] = r] /\ Go(w, "post") /\ UNCHANGED prov
        \/ Throw(w) /\ UNCHANGED intake
    BY DEF Claim, Claimable
  <1> QED
    BY <1>3, <1>4, <1>5

LEMMA PostType ==
    ASSUME NEW w \in Handlers, Typed, Post(w)
    PROVE  /\ Typed' /\ Moves(w, {"record", "rejected", "uncertain"})
           /\ h[w].pc = "post"
           /\ UNCHANGED rows
           /\ \/ posts' = posts /\ h'[w].pc # "record"
              \/ /\ posts' = [posts EXCEPT ![h[w].e] = @ + 1]
                 /\ h'[w].pc \in {"record", "uncertain"}
  <1>0. /\ h[w].e \in Episodes /\ h[w].pc # "idle" /\ HandsType /\ PostsType /\ RestType
    BY TypeParts, Working DEF Typed, Post
  <1>1. UNCHANGED <<rows, key, subscribed, prov>> /\ h[w].pc = "post"
    BY DEF Post
  <1>2. PICK pc \in {"record", "rejected", "uncertain"} : Go(w, pc)
    BY DEF Post
  <1>3. HandsType' /\ Moves(w, {pc})
    BY <1>0, <1>2, GoStep DEF Steps
  <1>4. RestType'
    BY <1>0, <1>1 DEF Post, RestType, Spend
  <1>5. \/ posts' = posts /\ h'[w].pc # "record"
        \/ posts' = [posts EXCEPT ![h[w].e] = @ + 1] /\ h'[w].pc \in {"record", "uncertain"}
    <2> USE <1>0
    <2>1. CASE posts' = [posts EXCEPT ![h[w].e] = @ + 1] /\ Go(w, "record")
      BY <2>1, GoStep DEF Moves, Steps
    <2>2. CASE UNCHANGED posts /\ Go(w, "rejected")
      BY <2>2, GoStep DEF Moves, Steps
    <2>3. CASE Go(w, "uncertain") /\ \E n \in {0, 1} : posts' = [posts EXCEPT ![h[w].e] = @ + n]
      <3>1. h'[w].pc = "uncertain"
        BY <2>3, GoStep DEF Moves, Steps
      <3>2. \/ posts' = [posts EXCEPT ![h[w].e] = @ + 0]
            \/ posts' = [posts EXCEPT ![h[w].e] = @ + 1]
        BY <2>3
      <3>3. posts[h[w].e] + 0 = posts[h[w].e]
        BY DEF PostsType
      <3> QED
        BY <3>1, <3>2, <3>3 DEF PostsType
    <2> QED
      BY <2>1, <2>2, <2>3 DEF Post
  <1>6. PostsType'
    BY <1>0, <1>5 DEF PostsType
  <1>7. Typed'
    BY <1>1, <1>3, <1>4, <1>6, TypeParts
       DEF rows, Typed, IntakeType, SigType, IncType, BoundType, KeyType, ProvType
  <1> QED
    BY <1>1, <1>3, <1>5, <1>7 DEF Moves

LEMMA RecordType ==
    ASSUME NEW w \in Handlers, Typed, Record(w)
    PROVE  /\ Typed' /\ Moves(w, {"posted", "uncertain"})
           /\ \/ intake' = intake /\ intake[h[w].e].st # "posting"
              \/ /\ intake[h[w].e].st = "posting" /\ h'[w].pc = "posted"
                 /\ intake' = [intake EXCEPT ![h[w].e] =
                      [@ EXCEPT !.st = "posted", !.root = "root", !.old = FALSE]]
  <1> DEFINE e == h[w].e
             r == [intake[e] EXCEPT !.st = "posted", !.root = "root", !.old = FALSE]
  <1>0. /\ e \in Episodes /\ h[w].pc # "idle"
        /\ IntakeType /\ SigType /\ IncType /\ BoundType /\ PostsType /\ KeyType
        /\ ProvType /\ RestType /\ HandsType
    BY TypeParts, Working DEF Typed, Record
  <1>1. r \in IntakeRec
    BY <1>0 DEF IntakeType, IntakeRec, States, Threads
  <1>2. UNCHANGED <<sig, inc, bound, posts, key, subscribed, prov, budget>>
    BY DEF Record
  <1>3. CASE /\ intake[e].st = "posting"
             /\ intake' = [intake EXCEPT ![e] = r] /\ Go(w, "posted")
    <2>1. HandsType' /\ Moves(w, {"posted"})
      BY <1>0, <1>3, GoStep DEF Steps
    <2>2. IntakeType'
      BY <1>0, <1>1, <1>3, SetIntake
    <2> QED
      BY <1>0, <1>2, <1>3, <2>1, <2>2, TypeParts
         DEF Typed, Moves, SigType, IncType, BoundType, PostsType, KeyType, ProvType, RestType
  <1>4. CASE intake[e].st # "posting" /\ Go(w, "uncertain") /\ UNCHANGED intake
    <2>1. HandsType' /\ Moves(w, {"uncertain"})
      BY <1>0, <1>4, GoStep DEF Steps
    <2> QED
      BY <1>0, <1>2, <1>4, <2>1, TypeParts
         DEF Typed, Moves, IntakeType, SigType, IncType, BoundType, PostsType, KeyType, ProvType,
             RestType
  <1>5. \/ /\ intake[e].st = "posting"
           /\ intake' = [intake EXCEPT ![e] = r] /\ Go(w, "posted")
        \/ intake[e].st # "posting" /\ Go(w, "uncertain") /\ UNCHANGED intake
    BY DEF Record
  <1> QED
    BY <1>3, <1>4, <1>5

LEMMA FailedType ==
    ASSUME NEW w \in Handlers, Typed, Failed(w)
    PROVE  /\ Typed' /\ Moves(w, {"idle"}) /\ h[w].pc \in {"rejected", "uncertain"}
           /\ \/ intake' = intake
              \/ /\ intake[h[w].e].st = "posting"
                 /\ intake' = [intake EXCEPT ![h[w].e] =
                                  [@ EXCEPT !.st = h[w].pc, !.old = FALSE]]
  <1> DEFINE e == h[w].e
             r == [intake[e] EXCEPT !.st = h[w].pc, !.old = FALSE]
  <1>0. /\ e \in Episodes /\ h[w].pc # "idle" /\ h[w].pc \in States
        /\ h[w].pc \in {"rejected", "uncertain"}
        /\ IntakeType /\ SigType /\ IncType /\ BoundType /\ PostsType /\ KeyType
        /\ ProvType /\ RestType /\ HandsType
    BY TypeParts, Working DEF Typed, Failed, States
  <1>1. r \in IntakeRec
    BY <1>0, IntakeWritten
  <1>2. UNCHANGED <<sig, inc, bound, posts, key, subscribed, budget>>
    BY DEF Failed
  <1>3. intake' = IF intake[e].st = "posting" THEN [intake EXCEPT ![e] = r] ELSE intake
    BY DEF Failed
  <1>4. HandsType' /\ Moves(w, {"idle"}) /\ ProvType'
    BY <1>0, ThrowStep DEF Failed
  <1>5. IntakeType'
    BY <1>0, <1>1, <1>3, SetIntake DEF IntakeType
  <1> QED
    BY <1>0, <1>2, <1>3, <1>4, <1>5, TypeParts
       DEF Typed, Moves, SigType, IncType, BoundType, PostsType, KeyType, RestType

LEMMA RereadPostedType ==
    ASSUME NEW w \in Handlers, Typed, RereadPosted(w)
    PROVE  Typed' /\ Moves(w, {"update", "claim", "check", "idle"}) /\ h'[w].pc # "update"
  <1>0. /\ h[w].e \in Episodes /\ h[w].pc # "idle"
        /\ IntakeType /\ ProvType /\ HandsType /\ intake[h[w].e] \in IntakeRec
    BY TypeParts, Working DEF Typed, RereadPosted, IntakeType
  <1>1. UNCHANGED <<rows, posts, key, subscribed, budget>>
    BY DEF RereadPosted
  <1>2. /\ HandsType' /\ ProvType' /\ Moves(w, {"update", "claim", "check", "idle"})
        /\ h'[w].pc # "update"
    <2>1. CASE intake[h[w].e].st = "posted" /\ Proceed(w, intake[h[w].e], "claim")
      <3>1. /\ HandsType' /\ ProvType' /\ Moves(w, {"update", "check", "idle", "claim"})
            /\ h'[w].pc = "update" => intake[h[w].e].st = "accepted"
        BY <1>0, <2>1, ProceedStep
      <3> QED
        BY <2>1, <3>1 DEF Moves
    <2>2. CASE Throw(w)
      <3>1. HandsType' /\ ProvType' /\ Moves(w, {"idle"})
        BY <1>0, <2>2, ThrowStep
      <3> QED
        BY <3>1 DEF Moves
    <2> QED
      BY <2>1, <2>2 DEF RereadPosted
  <1> QED
    BY <1>1, <1>2, TypeParts DEF rows, Typed, IntakeType, SigType, IncType, BoundType,
                                PostsType, KeyType, RestType

LEMMA CheckType ==
    ASSUME NEW w \in Handlers, Typed, Check(w)
    PROVE  Typed' /\ Moves(w, {"reserve", "idle"})
  <1>0. /\ h[w].pc # "idle" /\ ProvType /\ HandsType
    BY TypeParts DEF Typed, Check
  <1>1. UNCHANGED <<rows, posts, key, subscribed, budget>>
    BY DEF Check
  <1>2. HandsType' /\ ProvType' /\ Moves(w, {"reserve", "idle"})
    <2>1. CASE Go(w, "reserve") /\ UNCHANGED prov
      <3>1. HandsType' /\ Moves(w, {"reserve"})
        BY <1>0, <2>1, GoStep DEF Steps
      <3> QED
        BY <1>0, <2>1, <3>1 DEF Moves, ProvType
    <2>2. CASE Throw(w)
      <3>1. HandsType' /\ ProvType' /\ Moves(w, {"idle"})
        BY <1>0, <2>2, ThrowStep
      <3> QED
        BY <3>1 DEF Moves
    <2> QED
      BY <2>1, <2>2 DEF Check
  <1> QED
    BY <1>1, <1>2, TypeParts DEF rows, Typed, IntakeType, SigType, IncType, BoundType,
                                PostsType, KeyType, RestType

LEMMA ReserveType ==
    ASSUME NEW w \in Handlers, Typed, Reserve(w)
    PROVE  Typed' /\ Moves(w, {"open", "finalize"})
  <1> DEFINE e == h[w].e
             r == [h[w] EXCEPT !.pc = "open", !.held = TRUE]
  <1>0. /\ e \in Episodes /\ h[w].pc # "idle" /\ h[w] \in Hands /\ h[w].e \in Episodes
        /\ KeyType /\ RestType /\ HandsType
    BY TypeParts, Working DEF Typed, Reserve
  <1>1. UNCHANGED <<rows, posts, subscribed, prov>>
    BY DEF Reserve
  <1>2. r \in Hands /\ r.pc = "open" /\ r.e = h[w].e
    BY <1>0 DEF Hands, Steps
  <1>3. HandsType' /\ Moves(w, {"open", "finalize"})
    <2>1. CASE h' = [h EXCEPT ![w] = r]
      <3> HIDE DEF r
      <3>1. HandsType' /\ h'[w] = r /\ Same(w)
        BY <1>0, <1>2, <2>1, SetStep
      <3> QED
        BY <1>2, <3>1 DEF Moves
    <2>2. CASE Go(w, "finalize")
      <3>1. HandsType' /\ Moves(w, {"finalize"})
        BY <1>0, <2>2, GoStep DEF Steps
      <3> QED
        BY <3>1 DEF Moves
    <2>3. CASE Go(w, "open")
      <3>1. HandsType' /\ Moves(w, {"open"})
        BY <1>0, <2>3, GoStep DEF Steps
      <3> QED
        BY <3>1 DEF Moves
    <2> QED
      BY <2>1, <2>2, <2>3 DEF Reserve
  <1>4. KeyType' /\ RestType'
    <2>1. key' = key \/ key' = [key EXCEPT ![e] = TRUE]
      BY DEF Reserve
    <2>2. budget' = budget \/ (budget > 0 /\ budget' = budget - 1)
      BY DEF Reserve, Spend
    <2>3. KeyType'
      BY <1>0, <2>1 DEF KeyType
    <2>4. RestType'
      BY <1>0, <1>1, <2>2 DEF RestType
    <2> QED
      BY <2>3, <2>4
  <1> QED
    BY <1>1, <1>3, <1>4, TypeParts DEF rows, Typed, IntakeType, SigType, IncType, BoundType,
                                      PostsType, ProvType

\* What applySignalObservationTx leaves is a signal of an incident.
LEMMA ObservedRow ==
    ASSUME NEW w \in Handlers, NEW i \in Incidents \union {None}, Typed, h[w].pc # "idle"
    PROVE  /\ Observed(w, h[w].e, i) \in SigRec
           /\ Observed(w, h[w].e, i).st # "absent"
           /\ Observed(w, h[w].e, i).owner = IF sig[h[w].e].st = "absent" THEN i
                                                                         ELSE sig[h[w].e].owner
           /\ sig[h[w].e].st # "absent" =>
                Observed(w, h[w].e, i).slack = sig[h[w].e].slack
           /\ sig[h[w].e].st = "resolved" => Observed(w, h[w].e, i).st = "resolved"
  <1> DEFINE s == sig[h[w].e]
             say == h[w].say
  <1>1. s \in SigRec /\ say \in Statuses
    BY TypeParts, Working DEF Typed, SigType
  <1>2. Observed(w, h[w].e, i) =
          IF s.st = "absent" THEN [st |-> say, owner |-> i, slack |-> FALSE]
          ELSE IF Refused(w, h[w].e, i, say) THEN s ELSE [s EXCEPT !.st = say]
    BY DEF Observed
  <1>3. s.st = "resolved" /\ say = "firing" => Refused(w, h[w].e, i, say)
    BY DEF Refused
  <1> HIDE DEF s, say
  <1> QED
    <2>1. CASE s.st = "absent"
      BY <1>1, <1>2, <2>1 DEF SigRec, Statuses, s
    <2>2. CASE s.st # "absent" /\ Refused(w, h[w].e, i, say)
      BY <1>1, <1>2, <2>2 DEF SigRec, Statuses, s
    <2>3. CASE s.st # "absent" /\ ~Refused(w, h[w].e, i, say)
      BY <1>1, <1>2, <1>3, <2>3 DEF SigRec, Statuses, s
    <2> QED
      BY <2>1, <2>2, <2>3

\* An observation makes others late, and its handler goes on as r.
LEMMA ObserveStep ==
    ASSUME NEW w \in Handlers, NEW r \in Hands, NEW S, HandsType,
           r.pc # "idle", r.e = h[w].e, h[w].pc # "idle",
           h' = [g \in Handlers |-> IF g = w THEN r ELSE [h[g] EXCEPT !.late = @ \/ g \in S]]
    PROVE  HandsType' /\ Moves(w, {r.pc}) /\ h'[w] = r
  <1>1. ASSUME NEW g \in Handlers, g # w
        PROVE  /\ h'[g] \in Hands /\ h'[g].pc = h[g].pc
               /\ h'[g].e = h[g].e /\ h'[g].in = h[g].in
    <2>1. h[g] \in Hands
      BY DEF HandsType
    <2>2. PICK b \in BOOLEAN : h'[g] = [h[g] EXCEPT !.late = b]
      <3>1. h'[g] = [h[g] EXCEPT !.late = @ \/ g \in S]
        BY <1>1
      <3>2. (h[g].late \/ g \in S) \in BOOLEAN
        OBVIOUS
      <3> QED
        BY <3>1, <3>2
    <2> QED
      BY <2>1, <2>2 DEF Hands
  <1>2. h'[w] = r
    OBVIOUS
  <1>3. ASSUME NEW g \in Handlers
        PROVE  h'[g] \in Hands /\ (h'[g].pc # "idle" => h'[g].e \in Episodes)
    BY <1>1, <1>2 DEF HandsType
  <1>4. HandsType'
    <2>1. h' = [g \in Handlers |-> h'[g]]
      OBVIOUS
    <2> QED
      BY <1>3, <2>1 DEF HandsType
  <1> QED
    BY <1>1, <1>2, <1>4 DEF Moves, Same

\* The transaction of openIncidentWorkspace, with the incident it chose.
Opened(w, i) ==
    LET e == h[w].e
    IN  /\ ThreadFree(e, i) /\ Acceptable(e, i)
        /\ bound' = [bound EXCEPT ![e].root = i]
        /\ sig' = [sig EXCEPT ![e] = Observed(w, e, i)]
        /\ intake' = AcceptedBy(e, i)

LEMMA OpenWorkspaceType ==
    ASSUME NEW w \in Handlers, Typed, OpenWorkspace(w)
    PROVE  /\ Typed' /\ Moves(w, {"answer", "release"})
           /\ UNCHANGED posts
           /\ UNCHANGED rows \/ \E i \in Incidents : Opened(w, i)
  <1> DEFINE e == h[w].e
             reused == Open(e) # {}
             i == CHOOSE k \in IF Open(e) # {} THEN Open(e) ELSE Unused : TRUE
  <1>0. /\ e \in Episodes /\ h[w].e \in Episodes /\ h[w].pc # "idle" /\ h[w] \in Hands
        /\ IntakeType /\ SigType /\ IncType /\ BoundType /\ RestType /\ HandsType
    BY TypeParts, Working DEF Typed, OpenWorkspace
  <1>1. UNCHANGED <<posts, key, subscribed, prov>>
    BY DEF OpenWorkspace
  <1>2. i \in Incidents
    <2>1. Open(e) \union Unused # {}
      BY DEF OpenWorkspace
    <2>2. i \in IF Open(e) # {} THEN Open(e) ELSE Unused
      BY <2>1
    <2> QED
      BY <2>2 DEF Open, Unused
  <1>3. \/ /\ ThreadFree(e, i) /\ Acceptable(e, i)
           /\ inc' = [inc EXCEPT ![i] = [st |-> "open", ep |-> e]]
           /\ bound' = [bound EXCEPT ![e].root = i]
           /\ sig' = [sig EXCEPT ![e] = Observed(w, e, i)]
           /\ intake' = AcceptedBy(e, i)
           /\ h' = [g \in Handlers |->
                      IF g = w THEN [h[w] EXCEPT !.pc = "answer"]
                      ELSE [h[g] EXCEPT !.late = @ \/ g \in Outdated(w, e, i)]]
           /\ UNCHANGED budget
        \/ Go(w, "release") /\ UNCHANGED <<rows, budget>>
        \/ Spend("fail") /\ Go(w, "release") /\ UNCHANGED rows
    BY DEF OpenWorkspace
  <1> HIDE DEF i
  <1>4. CASE /\ ThreadFree(e, i) /\ Acceptable(e, i)
             /\ inc' = [inc EXCEPT ![i] = [st |-> "open", ep |-> e]]
             /\ bound' = [bound EXCEPT ![e].root = i]
             /\ sig' = [sig EXCEPT ![e] = Observed(w, e, i)]
             /\ intake' = AcceptedBy(e, i)
             /\ h' = [g \in Handlers |->
                        IF g = w THEN [h[w] EXCEPT !.pc = "answer"]
                        ELSE [h[g] EXCEPT !.late = @ \/ g \in Outdated(w, e, i)]]
             /\ UNCHANGED budget
    <2> DEFINE r == [h[w] EXCEPT !.pc = "answer"]
    <2>1. r \in Hands /\ r.pc = "answer" /\ r.e = h[w].e
      BY <1>0 DEF Hands, Steps
    <2>2. HandsType' /\ Moves(w, {"answer"})
      <3> HIDE DEF r
      <3>1. h' = [g \in Handlers |-> IF g = w THEN r
                                     ELSE [h[g] EXCEPT !.late = @ \/ g \in Outdated(w, e, i)]]
        BY <1>4 DEF r
      <3>2. HandsType' /\ Moves(w, {r.pc}) /\ h'[w] = r
        BY <1>0, <2>1, <3>1, ObserveStep
      <3> QED
        BY <2>1, <3>2
    <2>3. SigType'
      <3>1. Observed(w, e, i) \in SigRec
        BY <1>0, <1>2, ObservedRow
      <3> QED
        BY <1>0, <1>4, <3>1, SetSig
    <2>4. IntakeType'
      <3>1. [intake[e] EXCEPT !.st = "accepted", !.in = i] \in IntakeRec
        BY <1>0, <1>2 DEF IntakeType, IntakeRec, States
      <3>2. intake' = [intake EXCEPT ![e] = [intake[e] EXCEPT !.st = "accepted", !.in = i]]
        BY <1>4 DEF AcceptedBy
      <3> QED
        BY <1>0, <3>1, <3>2, SetIntake
    <2>5. IncType' /\ BoundType'
      <3>1. [st |-> "open", ep |-> e] \in IncRec
        BY <1>0 DEF IncRec
      <3>2. IncType'
        BY <1>0, <1>2, <1>4, <3>1 DEF IncType
      <3>3. bound[e] \in [Threads -> Incidents \union {None}]
        BY <1>0 DEF BoundType
      <3>4. [bound[e] EXCEPT !.root = i] \in [Threads -> Incidents \union {None}]
        BY <1>2, <3>3
      <3>5. bound' = [bound EXCEPT ![e] = [bound[e] EXCEPT !.root = i]]
        BY <1>4
      <3>6. BoundType'
        BY <1>0, <3>4, <3>5 DEF BoundType
      <3> QED
        BY <3>2, <3>6
    <2>6. Typed'
      BY <1>0, <1>1, <1>4, <2>2, <2>3, <2>4, <2>5, TypeParts
         DEF Typed, PostsType, KeyType, ProvType, RestType
    <2> QED
      BY <1>1, <1>2, <1>4, <2>2, <2>6 DEF Moves, Opened
  <1>5. CASE Go(w, "release") /\ UNCHANGED rows
             /\ (budget' = budget \/ (budget > 0 /\ budget' = budget - 1))
    <2>1. HandsType' /\ Moves(w, {"release"})
      BY <1>0, <1>5, GoStep DEF Steps
    <2>2. RestType'
      BY <1>0, <1>1, <1>5 DEF RestType
    <2>3. Typed'
      BY <1>1, <1>5, <2>1, <2>2, TypeParts
         DEF rows, Typed, IntakeType, SigType, IncType, BoundType, PostsType, KeyType, ProvType
    <2> QED
      BY <1>1, <1>5, <2>1, <2>3 DEF Moves
  <1> QED
    BY <1>3, <1>4, <1>5 DEF Spend

LEMMA ReleaseType ==
    ASSUME NEW w \in Handlers, Typed, Release(w)
    PROVE  Typed' /\ Moves(w, {"idle"})
  <1>0. KeyType /\ ProvType /\ HandsType
    BY TypeParts DEF Typed
  <1>1. HandsType' /\ Moves(w, {"idle"}) /\ ProvType'
    BY <1>0, ThrowStep DEF Release
  <1>2. KeyType'
    BY <1>0 DEF KeyType, Release
  <1> QED
    BY <1>1, <1>2, TypeParts DEF Release, rows, Typed, IntakeType, SigType, IncType, BoundType,
                                PostsType, RestType

LEMMA FinalizeType ==
    ASSUME NEW w \in Handlers, Typed, Finalize(w)
    PROVE  /\ Typed' /\ Moves(w, {"answer", "idle"})
           /\ \/ intake' = intake
              \/ LET e == h[w].e
                     i == sig[e].owner
                 IN  /\ sig[e].st # "absent" /\ bound[e].root = i /\ Acceptable(e, i)
                     /\ intake' = AcceptedBy(e, i)
  <1> DEFINE e == h[w].e
             i == sig[e].owner
             r == [intake[e] EXCEPT !.st = "accepted", !.in = i]
  <1>0. /\ e \in Episodes /\ h[w].pc # "idle"
        /\ IntakeType /\ SigType /\ IncType /\ BoundType /\ PostsType /\ KeyType
        /\ ProvType /\ RestType /\ HandsType
    BY TypeParts, Working DEF Typed, Finalize
  <1>1. r \in IntakeRec
    <2>1. intake[e] \in IntakeRec /\ i \in Incidents \union {None}
      BY <1>0 DEF IntakeType, SigType, SigRec
    <2> QED
      BY <2>1 DEF IntakeRec, States
  <1>2. UNCHANGED <<sig, inc, bound, posts, key, subscribed, budget>>
    BY DEF Finalize
  <1>3. CASE /\ sig[e].st # "absent" /\ bound[e].root = i /\ Acceptable(e, i)
             /\ intake' = AcceptedBy(e, i) /\ Go(w, "answer") /\ UNCHANGED prov
    <2>1. HandsType' /\ Moves(w, {"answer"})
      BY <1>0, <1>3, GoStep DEF Steps
    <2>2. intake' = [intake EXCEPT ![e] = r]
      BY <1>3 DEF AcceptedBy
    <2>3. IntakeType'
      BY <1>0, <1>1, <2>2, SetIntake
    <2>4. Typed'
      BY <1>0, <1>2, <1>3, <2>1, <2>3, TypeParts
         DEF Typed, SigType, IncType, BoundType, PostsType, KeyType, ProvType, RestType
    <2> QED
      BY <1>3, <2>1, <2>4 DEF Moves
  <1>4. CASE Throw(w) /\ UNCHANGED intake
    <2>1. HandsType' /\ Moves(w, {"idle"}) /\ ProvType'
      BY <1>0, <1>4, ThrowStep
    <2> QED
      BY <1>0, <1>2, <1>4, <2>1, TypeParts
         DEF Typed, Moves, IntakeType, SigType, IncType, BoundType, PostsType, KeyType, RestType
  <1>5. \/ /\ sig[e].st # "absent" /\ bound[e].root = i /\ Acceptable(e, i)
           /\ intake' = AcceptedBy(e, i) /\ Go(w, "answer") /\ UNCHANGED prov
        \/ Throw(w) /\ UNCHANGED intake
    BY DEF Finalize
  <1> QED
    BY <1>3, <1>4, <1>5

LEMMA UpdateType ==
    ASSUME NEW w \in Handlers, Typed, Update(w)
    PROVE  /\ Typed' /\ Moves(w, {"update", "answer", "idle"}) /\ h[w].pc = "update"
           /\ UNCHANGED <<intake, inc, bound, posts>>
           /\ \/ sig' = sig
              \/ sig' = [sig EXCEPT ![h[w].e] = Observed(w, h[w].e, h[w].in)]
           /\ h'[w].pc = "update" => /\ sig[h[w].e].st # "absent"
                                     /\ h'[w].in = sig[h[w].e].owner
  <1> DEFINE e == h[w].e
             i == h[w].in
             moved == sig[e].st # "absent" /\ sig[e].owner # i
             r == IF moved THEN [h[w] EXCEPT !.in = sig[e].owner, !.again = TRUE]
                  ELSE [h[w] EXCEPT !.pc = "answer"]
  <1>0. /\ e \in Episodes /\ h[w].e \in Episodes /\ h[w].pc # "idle" /\ h[w] \in Hands
        /\ h[w].pc = "update"
        /\ SigType /\ ProvType /\ HandsType /\ i \in Incidents \union {None}
        /\ sig[e].owner \in Incidents \union {None}
    BY TypeParts, Working DEF Typed, Update, SigType, SigRec
  <1>1. UNCHANGED <<intake, inc, bound, posts, key, subscribed, budget>>
    BY DEF Update
  <1>2. CASE /\ sig' = [sig EXCEPT ![e] = Observed(w, e, i)]
             /\ h' = [g \in Handlers |->
                        IF g = w THEN r
                        ELSE [h[g] EXCEPT !.late = @ \/ g \in Outdated(w, e, i)]]
             /\ UNCHANGED prov
    <2>1. /\ r \in Hands /\ r.e = h[w].e /\ r.pc \in {"update", "answer"}
          /\ r.pc = "update" => sig[e].st # "absent" /\ r.in = sig[e].owner
      BY <1>0 DEF Hands, Steps
    <2>2. HandsType' /\ Moves(w, {r.pc}) /\ h'[w] = r
      <3> HIDE DEF r
      <3> QED
        BY <1>0, <1>2, <2>1, ObserveStep
    <2> HIDE DEF r
    <2>3. SigType'
      <3>1. Observed(w, e, i) \in SigRec
        BY <1>0, ObservedRow
      <3> QED
        BY <1>0, <1>2, <3>1, SetSig
    <2>4. Typed'
      BY <1>0, <1>1, <1>2, <2>2, <2>3, TypeParts
         DEF Typed, IntakeType, IncType, BoundType, PostsType, KeyType, ProvType, RestType
    <2> QED
      BY <1>0, <1>1, <1>2, <2>1, <2>2, <2>4 DEF Moves
  <1>3. CASE Throw(w) /\ UNCHANGED sig
    <2>1. HandsType' /\ Moves(w, {"idle"}) /\ ProvType'
      BY <1>0, <1>3, ThrowStep
    <2>2. Typed'
      BY <1>0, <1>1, <1>3, <2>1, TypeParts
         DEF Typed, IntakeType, SigType, IncType, BoundType, PostsType, KeyType, RestType
    <2> QED
      BY <1>0, <1>1, <1>3, <2>1, <2>2 DEF Moves
  <1>4. \/ /\ sig' = [sig EXCEPT ![e] = Observed(w, e, i)]
           /\ h' = [g \in Handlers |->
                      IF g = w THEN r
                      ELSE [h[g] EXCEPT !.late = @ \/ g \in Outdated(w, e, i)]]
           /\ UNCHANGED prov
        \/ Throw(w) /\ UNCHANGED sig
    <2>1. CASE ~Current(w) \/ (moved /\ h[w].again)
      BY <2>1 DEF Update
    <2>2. CASE ~(~Current(w) \/ (moved /\ h[w].again))
      <3>1. /\ sig' = [sig EXCEPT ![e] = Observed(w, e, i)]
            /\ h' = [g \in Handlers |->
                       IF g # w THEN [h[g] EXCEPT !.late = @ \/ g \in Outdated(w, e, i)]
                       ELSE IF moved THEN [h[w] EXCEPT !.in = sig[e].owner, !.again = TRUE]
                       ELSE [h[w] EXCEPT !.pc = "answer"]]
            /\ UNCHANGED prov
        BY <2>2 DEF Update
      <3>2. \A g \in Handlers :
              (IF g # w THEN [h[g] EXCEPT !.late = @ \/ g \in Outdated(w, e, i)] ELSE r)
            = (IF g = w THEN r ELSE [h[g] EXCEPT !.late = @ \/ g \in Outdated(w, e, i)])
        OBVIOUS
      <3> QED
        BY <3>1, <3>2
    <2> QED
      BY <2>1, <2>2
  <1> QED
    BY <1>2, <1>3, <1>4

LEMMA AnswerType ==
    ASSUME NEW w \in Handlers, Typed, Answer(w)
    PROVE  Typed' /\ Moves(w, {"idle"})
  <1>0. ProvType /\ HandsType
    BY TypeParts DEF Typed
  <1>1. HandsType' /\ Moves(w, {"idle"}) /\ ProvType'
    BY <1>0, DoneStep DEF Answer
  <1> QED
    BY <1>1, TypeParts DEF Answer, rows, Typed, IntakeType, SigType, IncType, BoundType,
                           PostsType, KeyType, RestType

-----------------------------------------------------------------------------
(* Type correctness of everything else that happens.                       *)

LEMMA ReceiveType ==
    ASSUME NEW w \in Handlers, NEW e \in Episodes, NEW s \in Statuses, Typed, Receive(w, e, s)
    PROVE  /\ Typed' /\ Same(w) /\ h'[w].pc = "retain"
           /\ UNCHANGED <<rows, posts>>
  <1> DEFINE r == [Idle EXCEPT !.pc = "retain", !.e = e, !.sent = s, !.older = Busy]
  <1>1. r \in Hands /\ r.e = e /\ r.pc = "retain"
    BY IdleHand DEF Hands, Steps, Busy
  <1>2. h' = [h EXCEPT ![w] = r]
    BY DEF Receive
  <1> HIDE DEF r
  <1>3. HandsType' /\ h'[w] = r /\ Same(w)
    BY <1>1, <1>2, SetStep DEF Typed
  <1>4. UNCHANGED <<rows, posts, key, subscribed, prov>>
    BY DEF Receive
  <1>5. RestType'
    <2>1. budget' = budget \/ (budget > 0 /\ budget' = budget - 1)
      BY DEF Receive, Spend
    <2> QED
      BY <1>4, <2>1, TypeParts DEF Typed, RestType
  <1> QED
    BY <1>1, <1>3, <1>4, <1>5, TypeParts
       DEF rows, Typed, IntakeType, SigType, IncType, BoundType, PostsType, KeyType, ProvType

LEMMA CrashType ==
    ASSUME NEW w \in Handlers, Typed, Crash(w)
    PROVE  Typed' /\ Moves(w, {"idle"}) /\ UNCHANGED <<rows, posts>>
  <1>0. ProvType /\ HandsType
    BY TypeParts DEF Typed
  <1>1. HandsType' /\ Moves(w, {"idle"}) /\ ProvType'
    BY <1>0, ThrowStep DEF Crash
  <1>2. UNCHANGED <<rows, posts, key, subscribed>>
    BY DEF Crash
  <1>3. RestType'
    BY <1>2, TypeParts DEF Typed, RestType, Crash, Spend
  <1> QED
    BY <1>1, <1>2, <1>3, TypeParts
       DEF rows, Typed, IntakeType, SigType, IncType, BoundType, PostsType, KeyType

\* The provider, the clocks, the subscription and the connector.
World ==
    \/ \E e \in Episodes : Fire(e) \/ Clear(e) \/ Expire(e)
    \/ Revoke \/ Subscribe \/ Rotate

LEMMA WorldType ==
    ASSUME Typed, World
    PROVE  Typed' /\ Flagged /\ UNCHANGED <<rows, posts>>
  <1>0. /\ IntakeType /\ SigType /\ IncType /\ BoundType /\ PostsType /\ KeyType
        /\ ProvType /\ RestType /\ HandsType
    BY TypeParts DEF Typed
  <1>1. UNCHANGED <<rows, posts>>
    BY DEF World, Fire, Clear, Expire, Revoke, Subscribe, Rotate
  <1>2. HandsType' /\ Flagged
    <2>1. CASE h' = h
      BY <1>0, <2>1 DEF HandsType, Flagged
    <2>2. CASE h' = Rotated
      BY <1>0, <2>2, RotatedStep
    <2> QED
      BY <2>1, <2>2 DEF World, Fire, Clear, Expire, Revoke, Subscribe, Rotate
  <1>3. ProvType'
    <2>1. ASSUME NEW e \in Episodes, Fire(e) PROVE ProvType'
      <3> DEFINE r == [prov[e] EXCEPT !.known = TRUE, !.owed = {"firing"}]
      <3>1. r \in ProvRec
        BY <1>0 DEF ProvType, ProvRec, Statuses
      <3>2. prov' = [prov EXCEPT ![e] = r]
        BY <2>1 DEF Fire
      <3> HIDE DEF r
      <3> QED
        BY <1>0, <3>1, <3>2 DEF ProvType
    <2>2. ASSUME NEW e \in Episodes, Clear(e) PROVE ProvType'
      <3> DEFINE r == [prov[e] EXCEPT !.over = TRUE, !.owed = {"resolved"}]
      <3>1. r \in ProvRec
        BY <1>0 DEF ProvType, ProvRec, Statuses
      <3>2. prov' = [prov EXCEPT ![e] = r]
        BY <2>2 DEF Clear
      <3> HIDE DEF r
      <3> QED
        BY <1>0, <3>1, <3>2 DEF ProvType
    <2>3. CASE prov' = prov
      BY <1>0, <2>3 DEF ProvType
    <2> QED
      BY <2>1, <2>2, <2>3 DEF World, Expire, Revoke, Subscribe, Rotate
  <1>4. KeyType'
    BY <1>0 DEF World, Fire, Clear, Expire, Revoke, Subscribe, Rotate, KeyType
  <1>5. RestType'
    <2>1. subscribed' \in {TRUE, FALSE, subscribed}
      BY DEF World, Fire, Clear, Expire, Revoke, Subscribe, Rotate
    <2>2. budget' = budget \/ (budget > 0 /\ budget' = budget - 1)
      BY DEF World, Fire, Clear, Expire, Revoke, Subscribe, Rotate, Spend
    <2>3. budget' \in Nat
      BY <1>0, <2>2 DEF RestType
    <2> QED
      BY <1>0, <2>1, <2>3 DEF RestType
  <1> QED
    BY <1>0, <1>1, <1>2, <1>3, <1>4, <1>5, TypeParts
       DEF rows, Typed, IntakeType, SigType, IncType, BoundType, PostsType

LEMMA AgeType ==
    ASSUME NEW e \in Episodes, Typed, Age(e)
    PROVE  /\ Typed' /\ UNCHANGED <<sig, inc, bound, posts, h>>
           /\ intake' = [intake EXCEPT ![e].old = TRUE]
  <1> DEFINE r == [intake[e] EXCEPT !.old = TRUE]
  <1>1. r \in IntakeRec /\ IntakeType
    BY TypeParts DEF Typed, IntakeType, IntakeRec
  <1>2. intake' = [intake EXCEPT ![e] = r]
    BY DEF Age
  <1>3. IntakeType'
    BY <1>1, <1>2, SetIntake
  <1> QED
    BY <1>3, TypeParts DEF Age, Typed, SigType, IncType, BoundType, PostsType, KeyType,
                           ProvType, RestType, HandsType

LEMMA BindNoticeType ==
    ASSUME NEW e \in Episodes, Typed, BindNotice(e)
    PROVE  /\ Typed' /\ Flagged /\ UNCHANGED <<intake, inc, bound, posts>>
           /\ sig[e].st = "absent" /\ bound[e].notice \in Incidents
           /\ sig' = [sig EXCEPT ![e] =
                         [st |-> "firing", owner |-> bound[e].notice, slack |-> TRUE]]
  <1> DEFINE r == [st |-> "firing", owner |-> bound[e].notice, slack |-> TRUE]
  <1>0. BoundType /\ SigType /\ RestType /\ HandsType
    BY TypeParts DEF Typed
  <1>1. bound[e].notice \in Incidents
    <2>1. bound[e] \in [Threads -> Incidents \union {None}]
      BY <1>0 DEF BoundType
    <2>2. bound[e].notice \in Incidents \union {None}
      BY <2>1 DEF Threads
    <2> QED
      BY <2>2 DEF BindNotice
  <1>2. r \in SigRec
    BY <1>1 DEF SigRec
  <1>3. sig' = [sig EXCEPT ![e] = r] /\ sig[e].st = "absent"
        /\ UNCHANGED <<intake, inc, bound, posts, key, subscribed, prov>>
    BY DEF BindNotice
  <1>4. SigType'
    BY <1>0, <1>2, <1>3, SetSig
  <1>5. HandsType' /\ Flagged
    <2>1. CASE h' = h
      BY <1>0, <2>1 DEF HandsType, Flagged
    <2>2. CASE h' = Rotated
      BY <1>0, <2>2, RotatedStep
    <2> QED
      BY <2>1, <2>2 DEF BindNotice
  <1>6. RestType'
    BY <1>0, <1>3 DEF BindNotice, Spend, RestType
  <1>7. Typed'
    BY <1>3, <1>4, <1>5, <1>6, TypeParts
       DEF Typed, IntakeType, IncType, BoundType, PostsType, KeyType, ProvType
  <1> QED
    BY <1>1, <1>3, <1>5, <1>7

LEMMA ReconcileType ==
    ASSUME NEW e \in Episodes, Typed, Reconcile(e)
    PROVE  /\ Typed' /\ Flagged /\ UNCHANGED <<intake, inc, bound, posts>>
           /\ sig[e].st = "firing"
           /\ sig' = [sig EXCEPT ![e].st = "resolved"]
  <1>0. SigType /\ HandsType
    BY TypeParts DEF Typed
  <1>1. /\ sig' = [sig EXCEPT ![e].st = "resolved"] /\ sig[e].st = "firing"
        /\ UNCHANGED <<intake, inc, bound, posts, key, subscribed, prov, budget>>
    BY DEF Reconcile, ReadBack
  <1>2. SigType'
    <2> DEFINE r == [sig[e] EXCEPT !.st = "resolved"]
    <2>1. r \in SigRec
      BY <1>0 DEF SigType, SigRec
    <2>2. sig' = [sig EXCEPT ![e] = r]
      BY <1>1
    <2> HIDE DEF r
    <2> QED
      BY <1>0, <2>1, <2>2, SetSig
  <1>3. HandsType' /\ Flagged
    <2>1. ASSUME NEW g \in Handlers
          PROVE  /\ h'[g] \in Hands
                 /\ h'[g].pc = h[g].pc /\ h'[g].e = h[g].e /\ h'[g].in = h[g].in
      <3>1. h[g] \in Hands
        BY <1>0 DEF HandsType
      <3>2. h'[g] = [h[g] EXCEPT !.late = TRUE] \/ h'[g] = h[g]
        BY DEF Reconcile
      <3> QED
        BY <3>1, <3>2 DEF Hands
    <2>2. h' = [g \in Handlers |-> h'[g]]
      BY DEF Reconcile
    <2> QED
      BY <1>0, <2>1, <2>2 DEF HandsType, Flagged
  <1>4. Typed'
    BY <1>1, <1>2, <1>3, TypeParts
       DEF Typed, IntakeType, IncType, BoundType, PostsType, KeyType, ProvType, RestType
  <1> QED
    BY <1>1, <1>3, <1>4

LEMMA CloseType ==
    ASSUME NEW i \in Incidents, Typed, Close(i)
    PROVE  Typed' /\ UNCHANGED <<intake, sig, bound, posts, h>>
  <1> DEFINE r == [inc[i] EXCEPT !.st = "closed"]
  <1>0. IncType /\ RestType /\ inc' = [inc EXCEPT ![i] = r]
    BY TypeParts DEF Typed, Close
  <1>1. r \in IncRec
    BY <1>0 DEF IncType, IncRec
  <1> HIDE DEF r
  <1>2. IncType'
    BY <1>0, <1>1 DEF IncType
  <1>3. RestType'
    BY <1>0 DEF Close, Spend, RestType
  <1> QED
    BY <1>2, <1>3, TypeParts DEF Close, Typed, IntakeType, SigType, BoundType, PostsType,
                                KeyType, ProvType, HandsType

\* What a merge does to the rows of one episode.
Merged(e, source, target) ==
    /\ sig'[e] = IF sig[e].owner = source THEN [sig[e] EXCEPT !.owner = target] ELSE sig[e]
    /\ intake'[e] = IF intake[e].in = source THEN [intake[e] EXCEPT !.in = target]
                    ELSE intake[e]
    /\ \A t \in Threads : bound'[e][t] = IF bound[e][t] = source THEN target ELSE bound[e][t]

LEMMA MergeType ==
    ASSUME NEW source \in Incidents, NEW target \in Incidents, Typed, Merge(source, target)
    PROVE  /\ Typed' /\ UNCHANGED <<posts, h>>
           /\ \A e \in Episodes : Merged(e, source, target)
  <1>0. IntakeType /\ SigType /\ IncType /\ BoundType /\ RestType
    BY TypeParts DEF Typed
  <1>1. UNCHANGED <<posts, key, subscribed, prov, h>>
    BY DEF Merge
  <1>2. ASSUME NEW e \in Episodes
        PROVE  /\ Merged(e, source, target)
               /\ sig'[e] \in SigRec /\ intake'[e] \in IntakeRec
               /\ bound'[e] \in [Threads -> Incidents \union {None}]
    <2>1. Merged(e, source, target)
      BY DEF Merge, Merged, Rebound
    <2>2. sig[e] \in SigRec /\ intake[e] \in IntakeRec
          /\ bound[e] \in [Threads -> Incidents \union {None}]
      BY <1>0 DEF SigType, IntakeType, BoundType
    <2>3. sig'[e] \in SigRec
      BY <2>1, <2>2 DEF Merged, SigRec
    <2>4. intake'[e] \in IntakeRec
      BY <2>1, <2>2 DEF Merged, IntakeRec
    <2>5. bound'[e] \in [Threads -> Incidents \union {None}]
      BY <2>2 DEF Merge, Rebound
    <2> QED
      BY <2>1, <2>3, <2>4, <2>5
  <1>3. IntakeType'
    BY <1>2 DEF Merge, IntakeType
  <1>4. SigType'
    BY <1>2 DEF Merge, SigType
  <1>5. BoundType'
    BY <1>2 DEF Merge, Rebound, BoundType
  <1>6. IncType'
    <2> DEFINE r == [inc[source] EXCEPT !.st = "closed"]
    <2>1. r \in IncRec
      BY <1>0 DEF IncType, IncRec
    <2>2. inc' = [inc EXCEPT ![source] = r]
      BY DEF Merge
    <2> HIDE DEF r
    <2> QED
      BY <1>0, <2>1, <2>2 DEF IncType
  <1>7. RestType'
    BY <1>0, <1>1 DEF Merge, Spend, RestType
  <1>8. Typed'
    BY <1>1, <1>3, <1>4, <1>5, <1>6, <1>7, TypeParts
       DEF Typed, PostsType, KeyType, ProvType, HandsType
  <1> QED
    BY <1>1, <1>2, <1>8

LEMMA InitType == Init => Typed
  <1> SUFFICES ASSUME Init PROVE Typed
    OBVIOUS
  <1>1. HandsType
    BY IdleHand DEF Init, HandsType
  <1>2. IntakeType /\ SigType /\ PostsType /\ KeyType /\ ProvType
    BY DEF Init, IntakeType, SigType, PostsType, KeyType, ProvType,
           IntakeRec, SigRec, ProvRec, States, Statuses
  <1>3. IncType /\ BoundType
    BY IntakeAssumptions DEF Init, IncType, IncRec, BoundType, Threads
  <1>4. RestType
    BY IntakeAssumptions DEF Init, RestType
  <1> QED
    BY <1>1, <1>2, <1>3, <1>4, TypeParts DEF Typed

\* The step is one of the actions.
LEMMA Steps1 ==
    ASSUME Next
    PROVE  \/ \E w \in Handlers :
                \/ \E e \in Episodes, s \in Statuses : Receive(w, e, s)
                \/ Handle(w) \/ Crash(w)
           \/ World
           \/ \E e \in Episodes : Age(e) \/ BindNotice(e) \/ Reconcile(e)
           \/ \E i \in Incidents : Close(i) \/ \E k \in Incidents : Merge(i, k)
  BY DEF Next, Environment, Receipt, World

LEMMA NextType == Typed /\ [Next]_vars => Typed'
  <1> SUFFICES ASSUME Typed, [Next]_vars PROVE Typed'
    OBVIOUS
  <1>1. CASE UNCHANGED vars
    BY <1>1 DEF vars, Typed, TypeOK, HandsType
  <1>2. ASSUME NEW w \in Handlers, Handle(w) PROVE Typed'
    BY <1>2, RetainType, MarkStaleType, LookUpType, TakeType, RereadType, ClaimType, PostType,
       RecordType, FailedType, RereadPostedType, CheckType, ReserveType, OpenWorkspaceType,
       ReleaseType, FinalizeType, UpdateType, AnswerType DEF Handle
  <1>3. CASE Next
    BY <1>2, <1>3, Steps1, ReceiveType, CrashType, WorldType, AgeType, BindNoticeType,
       ReconcileType, CloseType, MergeType
  <1> QED
    BY <1>1, <1>3

(* The intake, its handlers and its provider stay well typed.              *)
THEOREM TypeCorrect == Spec => []TypeOK
  <1>1. Typed => TypeOK
    BY DEF Typed
  <1> QED
    BY <1>1, InitType, NextType, PTL DEF Spec

-----------------------------------------------------------------------------
(* One root per episode.  Between the claim of a root post and the record  *)
(* of its outcome a handler is posting: it holds the fence of the row, it  *)
(* holds it alone, and nothing was posted before.                          *)

Posting == {"post", "record", "rejected", "uncertain"}

Fence ==
    /\ \A w \in Handlers : h[w].pc \in Posting =>
          intake[h[w].e].st \in {"posting", "uncertain"}
    /\ \A w, g \in Handlers :
          w # g /\ h[w].pc \in Posting /\ h[g].pc \in Posting => h[w].e # h[g].e
    /\ \A w \in Handlers : h[w].pc \in {"post", "rejected"} => posts[h[w].e] = 0
    /\ \A e \in Episodes : posts[e] > 0 =>
          intake[e].st \notin {"absent", "pending", "rejected"}
    /\ OneRootPerEpisode

\* A row moves on without anybody having claimed or recorded a post.
Onward(e) ==
    \/ intake'[e].st = intake[e].st
    \/ intake[e].st = "absent" /\ intake'[e].st = "pending"
    \/ intake[e].st \in {"pending", "rejected", "posted", "accepted"} /\ intake'[e].st = "accepted"
    \/ intake[e].st = "posting" /\ intake'[e].st = "uncertain"

\* Nobody begins or ends to post.
Quiet ==
    /\ UNCHANGED posts
    /\ \A e \in Episodes : Onward(e)
    /\ \A w \in Handlers : h'[w].pc \in Posting => h'[w].pc = h[w].pc /\ h'[w].e = h[w].e

LEMMA QuietFence ==
    ASSUME Typed, Typed', Fence, Quiet
    PROVE  Fence'
  <1>1. \A w \in Handlers : /\ h[w].pc \in Posting => h[w].e \in Episodes
                            /\ h'[w].pc \in Posting => h'[w].e \in Episodes
    BY DEF Typed, HandsType, Posting
  <1>2. ASSUME NEW w \in Handlers, h'[w].pc \in Posting
        PROVE  intake'[h'[w].e].st \in {"posting", "uncertain"}
    BY <1>1, <1>2 DEF Fence, Quiet, Onward
  <1>3. ASSUME NEW w \in Handlers, NEW g \in Handlers, w # g,
               h'[w].pc \in Posting, h'[g].pc \in Posting
        PROVE  h'[w].e # h'[g].e
    BY <1>3 DEF Fence, Quiet
  <1>4. ASSUME NEW w \in Handlers, h'[w].pc \in {"post", "rejected"}
        PROVE  posts'[h'[w].e] = 0
    BY <1>4 DEF Fence, Quiet, Posting
  <1>5. ASSUME NEW e \in Episodes, posts'[e] > 0
        PROVE  intake'[e].st \notin {"absent", "pending", "rejected"}
    BY <1>5 DEF Fence, Quiet, Onward
  <1>6. OneRootPerEpisode'
    BY DEF Fence, Quiet, OneRootPerEpisode
  <1> QED
    BY <1>2, <1>3, <1>4, <1>5, <1>6 DEF Fence

\* A handler's step is quiet if the row of its episode moves on, and it does
\* not go on to post.
LEMMA MovesQuiet ==
    ASSUME NEW w \in Handlers, Same(w), h'[w].pc \notin Posting,
           UNCHANGED posts, \A e \in Episodes : Onward(e)
    PROVE  Quiet
  BY DEF Same, Quiet

\* Rows of which only one changes.
LEMMA OneRow ==
    ASSUME NEW e \in Episodes, NEW r \in IntakeRec, Typed,
           intake' = [intake EXCEPT ![e] = r],
           \/ r.st = intake[e].st
           \/ intake[e].st = "absent" /\ r.st = "pending"
           \/ intake[e].st \in {"pending", "rejected", "posted", "accepted"} /\ r.st = "accepted"
           \/ intake[e].st = "posting" /\ r.st = "uncertain"
    PROVE  \A f \in Episodes : Onward(f)
  <1>1. intake'[e] = r /\ \A f \in Episodes \ {e} : intake'[f] = intake[f]
    BY SetIntake, TypeParts DEF Typed
  <1> QED
    BY <1>1 DEF Onward

LEMMA SameRows ==
    ASSUME intake' = intake
    PROVE  \A f \in Episodes : Onward(f)
  BY DEF Onward

LEMMA AcceptedRow ==
    ASSUME NEW e \in Episodes, NEW i \in Incidents \union {None}, Typed,
           Acceptable(e, i), intake' = AcceptedBy(e, i)
    PROVE  \A f \in Episodes : Onward(f)
  <1> DEFINE r == [intake[e] EXCEPT !.st = "accepted", !.in = i]
  <1>1. intake[e] \in IntakeRec
    BY TypeParts DEF Typed, IntakeType
  <1>2. r \in IntakeRec /\ r.st = "accepted"
    BY <1>1 DEF IntakeRec, States
  <1>3. intake' = [intake EXCEPT ![e] = r] /\ intake[e].st \in {"posted", "accepted"}
    BY DEF AcceptedBy, Acceptable
  <1> HIDE DEF r
  <1> QED
    BY <1>2, <1>3, OneRow

LEMMA RetainQuiet ==
    ASSUME NEW w \in Handlers, Typed, Retain(w)
    PROVE  Quiet
  <1>1. /\ Same(w) /\ h'[w].pc \notin Posting /\ UNCHANGED posts
        /\ intake' = intake \/ intake' = [intake EXCEPT ![h[w].e] = Retained(w)]
    BY RetainType DEF Moves, Posting
  <1>2. h[w].pc # "idle" /\ h[w].e \in Episodes
    BY Working DEF Retain, Typed
  <1>3. /\ Retained(w) \in IntakeRec
        /\ Retained(w).st = IF intake[h[w].e].st = "absent" THEN "pending"
                                                             ELSE intake[h[w].e].st
    BY <1>2, RetainedRow
  <1>4. \A e \in Episodes : Onward(e)
    BY <1>1, <1>2, <1>3, OneRow, SameRows
  <1> QED
    BY <1>1, <1>4, MovesQuiet

LEMMA MarkStaleQuiet ==
    ASSUME NEW w \in Handlers, Typed, MarkStale(w)
    PROVE  Quiet
  <1> DEFINE e == h[w].e
             r == [intake[e] EXCEPT !.st = "uncertain", !.old = FALSE]
  <1>1. /\ Same(w) /\ h'[w].pc \notin Posting
        /\ intake' = intake \/ (intake[e].st = "posting" /\ intake' = [intake EXCEPT ![e] = r])
    BY MarkStaleType DEF Moves, Posting
  <1>2. e \in Episodes /\ UNCHANGED posts
    BY Working DEF MarkStale, Typed
  <1>3. r \in IntakeRec /\ r.st = "uncertain"
    <2>1. intake[e] \in IntakeRec
      BY <1>2, TypeParts DEF Typed, IntakeType
    <2> QED
      BY <2>1 DEF IntakeRec, States
  <1> HIDE DEF e, r
  <1>4. \A f \in Episodes : Onward(f)
    BY <1>1, <1>2, <1>3, OneRow, SameRows
  <1> QED
    BY <1>1, <1>2, <1>4, MovesQuiet

LEMMA TakeQuiet ==
    ASSUME NEW w \in Handlers, Typed, Take(w)
    PROVE  Quiet
  <1> DEFINE e == h[w].e
             r == [intake[e] EXCEPT !.st = "accepted", !.root = "notice", !.in = h[w].in]
  <1>1. /\ Same(w) /\ h'[w].pc \notin Posting
        /\ intake' = intake \/ (intake[e].st \in Untried /\ intake' = [intake EXCEPT ![e] = r])
    BY TakeType DEF Moves, Posting
  <1>2. e \in Episodes /\ UNCHANGED posts
    BY Working DEF Take, Typed
  <1>3. r \in IntakeRec /\ r.st = "accepted"
    <2>1. intake[e] \in IntakeRec /\ h[w].in \in Incidents \union {None}
      BY <1>2, TypeParts, Working DEF Typed, IntakeType, HandsType, Hands
    <2> QED
      BY <2>1 DEF IntakeRec, States, Threads
  <1> HIDE DEF e, r
  <1>4. \A f \in Episodes : Onward(f)
    BY <1>1, <1>2, <1>3, OneRow, SameRows DEF Untried
  <1> QED
    BY <1>1, <1>2, <1>4, MovesQuiet

LEMMA OpenWorkspaceQuiet ==
    ASSUME NEW w \in Handlers, Typed, OpenWorkspace(w)
    PROVE  Quiet
  <1>1. /\ Same(w) /\ h'[w].pc \notin Posting /\ UNCHANGED posts
        /\ UNCHANGED rows \/ \E i \in Incidents : Opened(w, i)
    BY OpenWorkspaceType DEF Moves, Posting
  <1>2. h[w].e \in Episodes
    BY Working DEF OpenWorkspace, Typed
  <1>3. \A f \in Episodes : Onward(f)
    <2>1. CASE UNCHANGED rows
      BY <2>1, SameRows DEF rows
    <2>2. ASSUME NEW i \in Incidents, Opened(w, i) PROVE \A f \in Episodes : Onward(f)
      BY <1>2, <2>2, AcceptedRow DEF Opened
    <2> QED
      BY <1>1, <2>1, <2>2
  <1> QED
    BY <1>1, <1>3, MovesQuiet

LEMMA FinalizeQuiet ==
    ASSUME NEW w \in Handlers, Typed, Finalize(w)
    PROVE  Quiet
  <1> DEFINE e == h[w].e
             i == sig[e].owner
  <1>1. /\ Same(w) /\ h'[w].pc \notin Posting
        /\ intake' = intake \/ (Acceptable(e, i) /\ intake' = AcceptedBy(e, i))
    BY FinalizeType DEF Moves, Posting
  <1>2. e \in Episodes /\ UNCHANGED posts
    BY Working DEF Finalize, Typed
  <1>3. i \in Incidents \union {None}
    BY <1>2, TypeParts DEF Typed, SigType, SigRec
  <1>4. \A f \in Episodes : Onward(f)
    BY <1>1, <1>2, <1>3, AcceptedRow, SameRows
  <1> QED
    BY <1>1, <1>2, <1>4, MovesQuiet

\* The remaining steps of a handler leave the row alone, or its state.
LEMMA OtherQuiet ==
    ASSUME NEW w \in Handlers, Typed,
           \/ LookUp(w) \/ Reread(w) \/ RereadPosted(w) \/ Check(w) \/ Reserve(w)
           \/ Release(w) \/ Update(w) \/ Answer(w) \/ Crash(w)
    PROVE  Quiet
  <1>1. UNCHANGED <<intake, posts>>
    BY DEF rows, LookUp, Reread, RereadPosted, Check, Reserve, Release, Update, Answer, Crash
  <1>2. \A f \in Episodes : Onward(f)
    BY <1>1, SameRows
  <1>3. Same(w) /\ h'[w].pc \notin Posting
    <2>1. CASE LookUp(w)
      BY <2>1, LookUpType DEF Moves, Posting
    <2>2. CASE Reread(w)
      BY <2>2, RereadType DEF Moves, Posting
    <2>3. CASE RereadPosted(w)
      BY <2>3, RereadPostedType DEF Moves, Posting
    <2>4. CASE Check(w)
      BY <2>4, CheckType DEF Moves, Posting
    <2>5. CASE Reserve(w)
      BY <2>5, ReserveType DEF Moves, Posting
    <2>6. CASE Release(w)
      BY <2>6, ReleaseType DEF Moves, Posting
    <2>7. CASE Update(w)
      BY <2>7, UpdateType DEF Moves, Posting
    <2>8. CASE Answer(w)
      BY <2>8, AnswerType DEF Moves, Posting
    <2>9. CASE Crash(w)
      BY <2>9, CrashType DEF Moves, Posting
    <2> QED
      BY <2>1, <2>2, <2>3, <2>4, <2>5, <2>6, <2>7, <2>8, <2>9
  <1> QED
    BY <1>1, <1>2, <1>3, MovesQuiet

LEMMA ReceiveQuiet ==
    ASSUME NEW w \in Handlers, NEW e \in Episodes, NEW s \in Statuses, Typed, Receive(w, e, s)
    PROVE  Quiet
  <1>1. Same(w) /\ h'[w].pc \notin Posting /\ UNCHANGED <<intake, posts>>
    BY ReceiveType DEF rows, Posting
  <1> QED
    BY <1>1, SameRows, MovesQuiet

\* Everything that happens outside of the handlers.
LEMMA OutsideQuiet ==
    ASSUME Typed,
           \/ World
           \/ \E e \in Episodes : Age(e) \/ BindNotice(e) \/ Reconcile(e)
           \/ \E i \in Incidents : Close(i) \/ \E k \in Incidents : Merge(i, k)
    PROVE  Quiet
  <1>1. ASSUME Flagged, UNCHANGED <<intake, posts>> PROVE Quiet
    BY <1>1, SameRows DEF Flagged, Quiet
  <1>2. CASE World
    BY <1>1, <1>2, WorldType DEF rows
  <1>3. ASSUME NEW e \in Episodes, BindNotice(e) \/ Reconcile(e) PROVE Quiet
    BY <1>1, <1>3, BindNoticeType, ReconcileType
  <1>4. ASSUME NEW i \in Incidents, Close(i) PROVE Quiet
    BY <1>1, <1>4, CloseType DEF Flagged
  <1>5. ASSUME NEW e \in Episodes, Age(e) PROVE Quiet
    <2> DEFINE r == [intake[e] EXCEPT !.old = TRUE]
    <2>1. r \in IntakeRec /\ r.st = intake[e].st
      BY TypeParts DEF Typed, IntakeType, IntakeRec
    <2>2. intake' = [intake EXCEPT ![e] = r] /\ UNCHANGED <<posts, h>>
      BY <1>5 DEF Age
    <2> HIDE DEF r
    <2> QED
      BY <2>1, <2>2, OneRow DEF Quiet
  <1>6. ASSUME NEW i \in Incidents, NEW k \in Incidents, Merge(i, k) PROVE Quiet
    <2>1. UNCHANGED <<posts, h>> /\ \A e \in Episodes : Merged(e, i, k)
      BY <1>6, MergeType
    <2>2. ASSUME NEW e \in Episodes PROVE intake'[e].st = intake[e].st
      <3>1. intake[e] \in IntakeRec
        BY TypeParts DEF Typed, IntakeType
      <3> QED
        BY <2>1, <3>1 DEF Merged, IntakeRec
    <2> QED
      BY <2>1, <2>2 DEF Quiet, Onward
  <1> QED
    BY <1>2, <1>3, <1>4, <1>5, <1>6

LEMMA ClaimFence ==
    ASSUME NEW w \in Handlers, Typed, Typed', Fence, Claim(w)
    PROVE  Fence'
  <1> DEFINE e == h[w].e
             r == [intake[e] EXCEPT !.st = "posting", !.old = FALSE]
  <1>0. e \in Episodes /\ UNCHANGED posts /\ IntakeType
    BY Working, TypeParts DEF Claim, Typed
  <1>1. CASE intake' = intake /\ h'[w].pc = "idle"
    <2>1. Same(w) /\ h'[w].pc \notin Posting
      BY <1>1, ClaimType DEF Moves, Posting
    <2> QED
      BY <1>0, <1>1, <2>1, SameRows, MovesQuiet, QuietFence
  <1>2. CASE /\ intake[e].st \in Untried /\ h'[w].pc = "post" /\ h'[w].e = e /\ Same(w)
             /\ intake' = [intake EXCEPT ![e] = r]
    <2>1. r \in IntakeRec /\ r.st = "posting"
      <3>1. intake[e] \in IntakeRec
        BY <1>0 DEF IntakeType
      <3> QED
        BY <3>1 DEF IntakeRec, States
    <2> HIDE DEF r
    <2>2. intake'[e].st = "posting" /\ \A f \in Episodes \ {e} : intake'[f] = intake[f]
      BY <1>0, <1>2, <2>1, SetIntake
    <2>3. \* nobody was posting for this episode, and nothing was posted
          /\ \A g \in Handlers : h[g].pc \in Posting => h[g].e # e /\ h[g].e \in Episodes
          /\ posts[e] = 0
      <3>1. posts[e] \in Nat
        BY <1>0, TypeParts DEF Typed, PostsType
      <3> QED
        BY <1>0, <1>2, <3>1 DEF Fence, Untried, Typed, HandsType, Posting
    <2>4. \A g \in Handlers : /\ g # w => h'[g].pc = h[g].pc /\ h'[g].e = h[g].e
                              /\ g = w => h'[g].pc = "post" /\ h'[g].e = e
      BY <1>2 DEF Same
    <2>5. \A g \in Handlers : h'[g].pc \in Posting =>
             intake'[h'[g].e].st \in {"posting", "uncertain"}
      BY <2>2, <2>3, <2>4 DEF Fence
    <2>6. \A g, k \in Handlers :
             g # k /\ h'[g].pc \in Posting /\ h'[k].pc \in Posting => h'[g].e # h'[k].e
      BY <2>3, <2>4 DEF Fence
    <2>7. \A g \in Handlers : h'[g].pc \in {"post", "rejected"} => posts'[h'[g].e] = 0
      BY <1>0, <2>3, <2>4 DEF Fence
    <2>8. /\ \A f \in Episodes : posts'[f] > 0 =>
                intake'[f].st \notin {"absent", "pending", "rejected"}
          /\ OneRootPerEpisode'
      BY <1>0, <2>2 DEF Fence, OneRootPerEpisode
    <2> QED
      BY <2>5, <2>6, <2>7, <2>8 DEF Fence
  <1> QED
    BY <1>1, <1>2, ClaimType DEF Moves, Posting

LEMMA PostFence ==
    ASSUME NEW w \in Handlers, Typed, Typed', Fence, Post(w)
    PROVE  Fence'
  <1> DEFINE e == h[w].e
  <1>0. /\ e \in Episodes /\ h[w].pc = "post" /\ Same(w)
        /\ h'[w].e = e /\ h'[w].pc \in {"record", "rejected", "uncertain"}
        /\ intake' = intake
        /\ \/ posts' = posts /\ h'[w].pc # "record"
           \/ posts' = [posts EXCEPT ![e] = @ + 1] /\ h'[w].pc \in {"record", "uncertain"}
    BY PostType, Working DEF Post, Typed, Moves, rows
  <1>1. /\ posts[e] = 0 /\ posts \in [Episodes -> Nat]
        /\ intake[e].st \in {"posting", "uncertain"}
    BY <1>0, TypeParts DEF Fence, Posting, Typed, PostsType
  <1>2. \A g \in Handlers \ {w} : /\ h'[g].pc = h[g].pc /\ h'[g].e = h[g].e
                                  /\ h[g].pc \in Posting => h[g].e # e /\ h[g].e \in Episodes
    BY <1>0 DEF Same, Fence, Posting, Typed, HandsType
  <1>3. /\ \A f \in Episodes \ {e} : posts'[f] = posts[f]
        /\ posts'[e] \in {0, 1}
        /\ h'[w].pc = "rejected" => posts'[e] = 0
    BY <1>0, <1>1
  <1>4. \A g \in Handlers : h'[g].pc \in Posting =>
           intake'[h'[g].e].st \in {"posting", "uncertain"}
    BY <1>0, <1>1, <1>2 DEF Fence
  <1>5. \A g, k \in Handlers :
           g # k /\ h'[g].pc \in Posting /\ h'[k].pc \in Posting => h'[g].e # h'[k].e
    BY <1>0, <1>2 DEF Fence
  <1>6. \A g \in Handlers : h'[g].pc \in {"post", "rejected"} => posts'[h'[g].e] = 0
    BY <1>0, <1>2, <1>3 DEF Fence, Posting
  <1>7. \A f \in Episodes : posts'[f] > 0 =>
           intake'[f].st \notin {"absent", "pending", "rejected"}
    BY <1>0, <1>1, <1>3 DEF Fence
  <1>8. OneRootPerEpisode'
    BY <1>3 DEF Fence, OneRootPerEpisode
  <1> QED
    BY <1>4, <1>5, <1>6, <1>7, <1>8 DEF Fence

\* A handler gives the fence of its own episode up.
LEMMA GivesUp ==
    ASSUME NEW w \in Handlers, NEW r \in IntakeRec, Typed, Typed', Fence,
           h[w].pc \in Posting, Same(w), UNCHANGED posts,
           h'[w].pc \notin Posting, intake' = [intake EXCEPT ![h[w].e] = r],
           r.st \in {"absent", "pending", "rejected"} => posts[h[w].e] = 0
    PROVE  Fence'
  <1> DEFINE e == h[w].e
  <1>1. e \in Episodes /\ IntakeType /\ posts[e] \in Nat
    BY TypeParts DEF Typed, HandsType, Posting, PostsType
  <1>2. intake'[e] = r /\ \A f \in Episodes \ {e} : intake'[f] = intake[f]
    BY <1>1, SetIntake
  <1>3. \A g \in Handlers : h'[g].pc \in Posting =>
           /\ g # w /\ h'[g].pc = h[g].pc /\ h'[g].e = h[g].e
           /\ h[g].e # e /\ h[g].e \in Episodes
    BY DEF Same, Fence, Typed, HandsType, Posting
  <1>4. \A g \in Handlers : h'[g].pc \in Posting =>
           intake'[h'[g].e].st \in {"posting", "uncertain"}
    BY <1>2, <1>3 DEF Fence
  <1>5. \A g, k \in Handlers :
           g # k /\ h'[g].pc \in Posting /\ h'[k].pc \in Posting => h'[g].e # h'[k].e
    BY <1>3 DEF Fence
  <1>6. \A g \in Handlers : h'[g].pc \in {"post", "rejected"} => posts'[h'[g].e] = 0
    BY <1>3 DEF Fence, Posting
  <1>7. \A f \in Episodes : posts'[f] > 0 =>
           intake'[f].st \notin {"absent", "pending", "rejected"}
    BY <1>1, <1>2 DEF Fence
  <1>8. OneRootPerEpisode'
    BY DEF Fence, OneRootPerEpisode
  <1> QED
    BY <1>4, <1>5, <1>6, <1>7, <1>8 DEF Fence

LEMMA RecordFence ==
    ASSUME NEW w \in Handlers, Typed, Typed', Fence, Record(w)
    PROVE  Fence'
  <1> DEFINE e == h[w].e
             r == [intake[e] EXCEPT !.st = "posted", !.root = "root", !.old = FALSE]
  <1>0. e \in Episodes /\ UNCHANGED posts /\ h[w].pc = "record" /\ Same(w)
        /\ intake[e] \in IntakeRec
    BY Working, RecordType, TypeParts DEF Record, Typed, Moves, IntakeType
  <1>1. CASE intake' = intake /\ intake[e].st # "posting"
             /\ h'[w].pc \in {"posted", "uncertain"} /\ h'[w].e = e
    <2>1. \A g \in Handlers : h'[g].pc \in Posting =>
             /\ h'[g].e = h[g].e /\ h[g].pc \in Posting
             /\ h'[g].pc \in {"post", "rejected"} => h'[g].pc = h[g].pc
      BY <1>0, <1>1 DEF Same, Posting
    <2> QED
      BY <1>0, <1>1, <2>1 DEF Fence, OneRootPerEpisode, Posting
  <1>2. CASE h'[w].pc = "posted" /\ intake' = [intake EXCEPT ![e] = r]
    <2>1. r \in IntakeRec /\ r.st = "posted"
      BY <1>0 DEF IntakeRec, States, Threads
    <2> HIDE DEF r
    <2> QED
      BY <1>0, <1>2, <2>1, GivesUp DEF Posting
  <1> QED
    BY <1>1, <1>2, RecordType DEF Moves

LEMMA FailedFence ==
    ASSUME NEW w \in Handlers, Typed, Typed', Fence, Failed(w)
    PROVE  Fence'
  <1> DEFINE e == h[w].e
             r == [intake[e] EXCEPT !.st = h[w].pc, !.old = FALSE]
  <1>0. /\ e \in Episodes /\ UNCHANGED posts /\ h[w].pc \in {"rejected", "uncertain"}
        /\ Same(w) /\ h'[w].pc = "idle" /\ intake[e] \in IntakeRec
        /\ intake' = intake \/ intake' = [intake EXCEPT ![e] = r]
    BY Working, FailedType, TypeParts DEF Failed, Typed, Moves, IntakeType
  <1>1. CASE intake' = intake
    BY <1>0, <1>1, SameRows, MovesQuiet, QuietFence DEF Posting
  <1>2. CASE intake' = [intake EXCEPT ![e] = r]
    <2>1. r \in IntakeRec /\ r.st = h[w].pc
      BY <1>0 DEF IntakeRec, States
    <2>2. r.st \in {"absent", "pending", "rejected"} => posts[e] = 0
      BY <1>0, <2>1 DEF Fence
    <2> HIDE DEF r
    <2> QED
      BY <1>0, <1>2, <2>1, <2>2, GivesUp DEF Posting
  <1> QED
    BY <1>0, <1>1, <1>2

LEMMA InitFence == Init => Fence
  BY DEF Init, Idle, Fence, Posting, OneRootPerEpisode

LEMMA NextFence == Typed /\ Fence /\ [Next]_vars => Fence'
  <1> SUFFICES ASSUME Typed, Fence, [Next]_vars PROVE Fence'
    OBVIOUS
  <1>0. Typed'
    BY NextType
  <1>1. CASE UNCHANGED vars
    BY <1>1 DEF vars, Fence, OneRootPerEpisode
  <1>2. ASSUME Quiet PROVE Fence'
    BY <1>0, <1>2, QuietFence
  <1>3. ASSUME NEW w \in Handlers, Handle(w) PROVE Fence'
    <2>1. CASE Claim(w) \/ Post(w) \/ Record(w) \/ Failed(w)
      BY <1>0, <2>1, ClaimFence, PostFence, RecordFence, FailedFence
    <2>2. CASE Retain(w) \/ MarkStale(w) \/ Take(w) \/ OpenWorkspace(w) \/ Finalize(w)
      BY <1>2, <2>2, RetainQuiet, MarkStaleQuiet, TakeQuiet, OpenWorkspaceQuiet, FinalizeQuiet
    <2>3. CASE \/ LookUp(w) \/ Reread(w) \/ RereadPosted(w) \/ Check(w) \/ Reserve(w)
               \/ Release(w) \/ Update(w) \/ Answer(w)
      BY <1>2, <2>3, OtherQuiet
    <2> QED
      BY <1>3, <2>1, <2>2, <2>3 DEF Handle
  <1>4. CASE Next
    BY <1>2, <1>3, <1>4, Steps1, ReceiveQuiet, OtherQuiet, OutsideQuiet
  <1> QED
    BY <1>1, <1>4

(* An episode gets at most one root message in Slack, whatever crashes,    *)
(* goes unanswered or arrives twice.                                       *)
THEOREM OneRoot == Spec => []OneRootPerEpisode
  <1>1. Init => Typed /\ Fence
    BY InitType, InitFence
  <1>2. Typed /\ Fence /\ [Next]_vars => (Typed /\ Fence)'
    BY NextType, NextFence
  <1>3. Fence => OneRootPerEpisode
    BY DEF Fence
  <1> QED
    BY <1>1, <1>2, <1>3, PTL DEF Spec

-----------------------------------------------------------------------------
(* What was acknowledged exists.                                           *)

Held ==
    /\ AcceptedIsComplete
    /\ \A e \in Episodes : /\ intake[e].st = "posted" => /\ intake[e].root = "root"
                                                         /\ posts[e] > 0
                           /\ sig[e].st # "absent" => sig[e].owner \in Incidents
                           /\ sig[e].slack => sig[e].st # "absent"
    /\ \A w \in Handlers : /\ h[w].pc = "record" => posts[h[w].e] > 0
                           /\ h[w].pc = "take" => /\ sig[h[w].e].st # "absent"
                                                  /\ h[w].in \in Incidents
                           /\ h[w].pc = "update" => h[w].in \in Incidents

\* The part of it that is about the rows, and the part about the handlers.
RowHeld(e) ==
    /\ intake[e].st = "accepted" =>
          /\ intake[e].root # None /\ intake[e].in # None
          /\ bound[e][intake[e].root] = intake[e].in
          /\ sig[e].st # "absent"
          /\ posts[e] = 0 => intake[e].root = "notice"
    /\ intake[e].st = "posted" => intake[e].root = "root" /\ posts[e] > 0
    /\ sig[e].st # "absent" => sig[e].owner \in Incidents
    /\ sig[e].slack => sig[e].st # "absent"

HandHeld(w) ==
    /\ h[w].pc = "record" => posts[h[w].e] > 0
    /\ h[w].pc = "take" => sig[h[w].e].st # "absent" /\ h[w].in \in Incidents
    /\ h[w].pc = "update" => h[w].in \in Incidents

LEMMA HeldParts ==
    /\ Held <=> /\ \A e \in Episodes : RowHeld(e)
                /\ \A w \in Handlers : HandHeld(w)
    /\ Held' <=> /\ \A e \in Episodes : RowHeld(e)'
                 /\ \A w \in Handlers : HandHeld(w)'
  BY DEF Held, RowHeld, HandHeld, AcceptedIsComplete

\* Signals do not disappear, and posts stay in Slack.
Lasting ==
    \A e \in Episodes : /\ sig[e].st # "absent" => sig'[e].st # "absent"
                        /\ posts[e] > 0 => posts'[e] > 0

\* A handler's step keeps Held if its own record and its own row do.
LEMMA HandlerHeld ==
    ASSUME NEW w \in Handlers, Typed, Held, Same(w), Lasting,
           h'[w].pc \in {"record", "take", "update"} => HandHeld(w)',
           \A e \in Episodes : RowHeld(e)'
    PROVE  Held'
  <1>1. ASSUME NEW g \in Handlers, g # w PROVE HandHeld(g)'
    <2>1. /\ h'[g].pc = h[g].pc /\ h'[g].e = h[g].e /\ h'[g].in = h[g].in
          /\ h[g].pc # "idle" => h[g].e \in Episodes
      BY <1>1 DEF Same, Typed, HandsType
    <2>2. h[g].pc = "record" => posts'[h[g].e] > 0
      BY <2>1 DEF Held, Lasting
    <2>3. h[g].pc = "take" => sig'[h[g].e].st # "absent" /\ h[g].in \in Incidents
      BY <2>1 DEF Held, Lasting
    <2>4. h[g].pc = "update" => h[g].in \in Incidents
      BY DEF Held
    <2> QED
      BY <2>1, <2>2, <2>3, <2>4 DEF HandHeld
  <1>2. HandHeld(w)'
    BY DEF HandHeld
  <1> QED
    BY <1>1, <1>2, HeldParts

LEMMA SameRowHeld ==
    ASSUME NEW e \in Episodes, RowHeld(e), intake'[e] = intake[e], sig'[e] = sig[e],
           bound'[e] = bound[e], posts'[e] = posts[e]
    PROVE  RowHeld(e)'
  BY DEF RowHeld

LEMMA SameRowsHeld ==
    ASSUME Held, UNCHANGED <<intake, sig, bound, posts>>
    PROVE  Lasting /\ \A e \in Episodes : RowHeld(e)'
  BY HeldParts, SameRowHeld DEF Lasting

\* One row of the intake becomes r.
LEMMA IntakeHeld ==
    ASSUME NEW e \in Episodes, NEW r \in IntakeRec, Typed, Held,
           intake' = [intake EXCEPT ![e] = r], UNCHANGED <<sig, bound, posts>>,
           r.st = "accepted" => /\ r.root # None /\ r.in # None /\ bound[e][r.root] = r.in
                                /\ sig[e].st # "absent"
                                /\ posts[e] = 0 => r.root = "notice",
           r.st = "posted" => r.root = "root" /\ posts[e] > 0
    PROVE  Lasting /\ \A f \in Episodes : RowHeld(f)'
  <1>1. intake'[e] = r /\ \A f \in Episodes \ {e} : intake'[f] = intake[f]
    BY SetIntake, TypeParts DEF Typed
  <1>2. RowHeld(e)'
    BY <1>1, HeldParts DEF RowHeld
  <1>3. ASSUME NEW f \in Episodes \ {e} PROVE RowHeld(f)'
    BY <1>1, HeldParts, SameRowHeld
  <1> QED
    BY <1>2, <1>3 DEF Lasting

\* An accepted intake names an incident.
LEMMA AcceptedIn ==
    ASSUME NEW e \in Episodes, Typed, Held, intake[e].st = "accepted"
    PROVE  intake[e].in \in Incidents
  <1>1. intake[e] \in IntakeRec /\ RowHeld(e)
    BY TypeParts, HeldParts DEF Typed, IntakeType
  <1> QED
    BY <1>1 DEF IntakeRec, RowHeld

LEMMA RetainHeld ==
    ASSUME NEW w \in Handlers, Typed, Held, Retain(w)
    PROVE  Held'
  <1> DEFINE e == h[w].e
             r == Retained(w)
  <1>1. /\ e \in Episodes /\ h[w].pc # "idle"
        /\ Same(w) /\ h'[w].pc \in {"stale", "update", "adopt", "check", "idle"}
        /\ h'[w].pc = "update" => r.st = "accepted" /\ h'[w].in = r.in
        /\ intake' = intake \/ intake' = [intake EXCEPT ![e] = r]
        /\ UNCHANGED <<sig, bound, posts>>
    BY RetainType, Working DEF Retain, Typed, Moves
  <1>2. /\ r \in IntakeRec /\ r.root = intake[e].root /\ r.in = intake[e].in
        /\ r.st = IF intake[e].st = "absent" THEN "pending" ELSE intake[e].st
    BY <1>1, RetainedRow
  <1> HIDE DEF r
  <1>3. Lasting /\ \A f \in Episodes : RowHeld(f)'
    <2>1. CASE intake' = intake
      BY <1>1, <2>1, SameRowsHeld
    <2>2. CASE intake' = [intake EXCEPT ![e] = r]
      <3>1. RowHeld(e)
        BY <1>1, HeldParts
      <3>2. /\ r.st = "accepted" => /\ r.root # None /\ r.in # None /\ bound[e][r.root] = r.in
                                    /\ sig[e].st # "absent"
                                    /\ posts[e] = 0 => r.root = "notice"
            /\ r.st = "posted" => r.root = "root" /\ posts[e] > 0
        BY <1>2, <3>1 DEF RowHeld
      <3> QED
        BY <1>1, <1>2, <2>2, <3>2, IntakeHeld
    <2> QED
      BY <1>1, <2>1, <2>2
  <1>4. h'[w].pc = "update" => h'[w].in \in Incidents
    BY <1>1, <1>2, AcceptedIn
  <1>5. HandHeld(w)'
    BY <1>1, <1>4 DEF HandHeld
  <1> QED
    BY <1>1, <1>3, <1>5, HandlerHeld

LEMMA MarkStaleHeld ==
    ASSUME NEW w \in Handlers, Typed, Held, MarkStale(w)
    PROVE  Held'
  <1> DEFINE e == h[w].e
             r == [intake[e] EXCEPT !.st = "uncertain", !.old = FALSE]
  <1>1. /\ e \in Episodes
        /\ Same(w) /\ h'[w].pc \in {"update", "adopt", "check", "idle"}
        /\ h'[w].pc = "update" => intake[e].st = "accepted" /\ h'[w].in = intake[e].in
        /\ intake' = intake \/ intake' = [intake EXCEPT ![e] = r]
        /\ UNCHANGED <<sig, bound, posts>>
    BY MarkStaleType, Working DEF MarkStale, Typed, Moves
  <1>2. r \in IntakeRec /\ r.st = "uncertain"
    <2>1. intake[e] \in IntakeRec
      BY <1>1, TypeParts DEF Typed, IntakeType
    <2> QED
      BY <2>1 DEF IntakeRec, States
  <1> HIDE DEF r
  <1>3. Lasting /\ \A f \in Episodes : RowHeld(f)'
    BY <1>1, <1>2, SameRowsHeld, IntakeHeld
  <1>4. HandHeld(w)'
    BY <1>1, AcceptedIn DEF HandHeld
  <1> QED
    BY <1>1, <1>3, <1>4, HandlerHeld

LEMMA TakeHeld ==
    ASSUME NEW w \in Handlers, Typed, Held, Take(w)
    PROVE  Held'
  <1> DEFINE e == h[w].e
             r == [intake[e] EXCEPT !.st = "accepted", !.root = "notice", !.in = h[w].in]
  <1>1. /\ e \in Episodes
        /\ Same(w) /\ h'[w].pc \in {"reread", "idle"}
        /\ \/ intake' = intake
           \/ bound[e].notice = h[w].in /\ intake' = [intake EXCEPT ![e] = r]
        /\ UNCHANGED <<sig, bound, posts>>
    BY TakeType, Working DEF Take, Typed, Moves
  <1>2. sig[e].st # "absent" /\ h[w].in \in Incidents
    BY <1>1 DEF Held, Take
  <1>3. /\ r \in IntakeRec /\ r.st = "accepted" /\ r.root = "notice" /\ r.in = h[w].in
    <2>1. intake[e] \in IntakeRec
      BY <1>1, TypeParts DEF Typed, IntakeType
    <2> QED
      BY <1>2, <2>1 DEF IntakeRec, States, Threads
  <1> HIDE DEF r
  <1>4. Lasting /\ \A f \in Episodes : RowHeld(f)'
    <2>1. CASE intake' = intake
      BY <1>1, <2>1, SameRowsHeld
    <2>2. CASE bound[e].notice = h[w].in /\ intake' = [intake EXCEPT ![e] = r]
      <3>1. r.root # None /\ r.in # None /\ bound[e][r.root] = r.in
        BY <1>2, <1>3, <2>2, IntakeAssumptions DEF Threads
      <3> QED
        BY <1>1, <1>2, <1>3, <2>2, <3>1, IntakeHeld
    <2> QED
      BY <1>1, <2>1, <2>2
  <1> QED
    BY <1>1, <1>4, HandlerHeld

LEMMA RecordHeld ==
    ASSUME NEW w \in Handlers, Typed, Held, Record(w)
    PROVE  Held'
  <1> DEFINE e == h[w].e
             r == [intake[e] EXCEPT !.st = "posted", !.root = "root", !.old = FALSE]
  <1>1. /\ e \in Episodes /\ h[w].pc = "record"
        /\ Same(w) /\ h'[w].pc \in {"posted", "uncertain"}
        /\ intake' = intake \/ intake' = [intake EXCEPT ![e] = r]
        /\ UNCHANGED <<sig, bound, posts>>
    BY RecordType, Working DEF Record, Typed, Moves
  <1>2. r \in IntakeRec /\ r.st = "posted" /\ r.root = "root"
    <2>1. intake[e] \in IntakeRec
      BY <1>1, TypeParts DEF Typed, IntakeType
    <2> QED
      BY <2>1 DEF IntakeRec, States, Threads
  <1>3. posts[e] > 0
    BY <1>1 DEF Held
  <1> HIDE DEF r
  <1>4. Lasting /\ \A f \in Episodes : RowHeld(f)'
    BY <1>1, <1>2, <1>3, SameRowsHeld, IntakeHeld
  <1> QED
    BY <1>1, <1>4, HandlerHeld

\* The steps that leave the row in a state before its record, or failed.
LEMMA ClaimHeld ==
    ASSUME NEW w \in Handlers, Typed, Held, Claim(w)
    PROVE  Held'
  <1> DEFINE e == h[w].e
             r == [intake[e] EXCEPT !.st = "posting", !.old = FALSE]
  <1>1. /\ e \in Episodes /\ Same(w) /\ h'[w].pc \in {"post", "idle"}
        /\ intake' = intake \/ intake' = [intake EXCEPT ![e] = r]
        /\ UNCHANGED <<sig, bound, posts>>
    BY ClaimType, Working DEF Claim, Typed, Moves
  <1>2. r \in IntakeRec /\ r.st = "posting"
    <2>1. intake[e] \in IntakeRec
      BY <1>1, TypeParts DEF Typed, IntakeType
    <2> QED
      BY <2>1 DEF IntakeRec, States
  <1> HIDE DEF r
  <1>3. Lasting /\ \A f \in Episodes : RowHeld(f)'
    BY <1>1, <1>2, SameRowsHeld, IntakeHeld
  <1> QED
    BY <1>1, <1>3, HandlerHeld

LEMMA FailedHeld ==
    ASSUME NEW w \in Handlers, Typed, Held, Failed(w)
    PROVE  Held'
  <1> DEFINE e == h[w].e
             r == [intake[e] EXCEPT !.st = h[w].pc, !.old = FALSE]
  <1>1. /\ e \in Episodes /\ Same(w) /\ h'[w].pc = "idle"
        /\ h[w].pc \in {"rejected", "uncertain"}
        /\ intake' = intake \/ intake' = [intake EXCEPT ![e] = r]
        /\ UNCHANGED <<sig, bound, posts>>
    BY FailedType, Working DEF Failed, Typed, Moves
  <1>2. r \in IntakeRec /\ r.st \in {"rejected", "uncertain"}
    <2>1. intake[e] \in IntakeRec
      BY <1>1, TypeParts DEF Typed, IntakeType
    <2> QED
      BY <1>1, <2>1 DEF IntakeRec, States
  <1> HIDE DEF r
  <1>3. Lasting /\ \A f \in Episodes : RowHeld(f)'
    BY <1>1, <1>2, SameRowsHeld, IntakeHeld
  <1> QED
    BY <1>1, <1>3, HandlerHeld

LEMMA PostHeld ==
    ASSUME NEW w \in Handlers, Typed, Held, Post(w)
    PROVE  Held'
  <1> DEFINE e == h[w].e
  <1>1. /\ e \in Episodes /\ Same(w) /\ h'[w].e = e
        /\ h'[w].pc \in {"record", "rejected", "uncertain"}
        /\ UNCHANGED <<intake, sig, bound>>
        /\ \/ posts' = posts /\ h'[w].pc # "record"
           \/ posts' = [posts EXCEPT ![e] = @ + 1]
    BY PostType, Working DEF Post, Typed, Moves, rows
  <1>2. posts \in [Episodes -> Nat]
    BY TypeParts DEF Typed, PostsType
  <1>3. /\ \A f \in Episodes : posts'[f] = posts[f] \/ posts'[f] = posts[f] + 1
        /\ h'[w].pc = "record" => posts'[e] > 0
    BY <1>1, <1>2
  <1>4. ASSUME NEW f \in Episodes
        PROVE  /\ posts[f] > 0 => posts'[f] > 0
               /\ posts'[f] = 0 => posts[f] = 0
    BY <1>2, <1>3
  <1>5. \A f \in Episodes : RowHeld(f)'
    BY <1>1, <1>4, HeldParts DEF RowHeld
  <1>6. Lasting
    BY <1>1, <1>4 DEF Lasting
  <1>7. h'[w].pc \in {"record", "take", "update"} => HandHeld(w)'
    BY <1>1, <1>3 DEF HandHeld
  <1> QED
    BY <1>1, <1>5, <1>6, <1>7, HandlerHeld

LEMMA LookUpHeld ==
    ASSUME NEW w \in Handlers, Typed, Held, LookUp(w)
    PROVE  Held'
  <1>1. /\ h[w].e \in Episodes /\ Same(w)
        /\ h'[w].pc \in {"take", "claim"} /\ h'[w].e = h[w].e
        /\ h'[w].pc = "take" => sig[h[w].e].slack /\ h'[w].in = sig[h[w].e].owner
        /\ UNCHANGED <<intake, sig, bound, posts>>
    BY LookUpType, Working DEF LookUp, Typed, Moves, rows
  <1>2. Lasting /\ \A f \in Episodes : RowHeld(f)'
    BY <1>1, SameRowsHeld
  <1>3. HandHeld(w)'
    BY <1>1 DEF HandHeld, Held
  <1> QED
    BY <1>1, <1>2, <1>3, HandlerHeld

LEMMA RereadHeld ==
    ASSUME NEW w \in Handlers, Typed, Held, Reread(w)
    PROVE  Held'
  <1>1. /\ h[w].e \in Episodes /\ Same(w)
        /\ h'[w].pc \in {"update", "claim", "check", "idle"}
        /\ h'[w].pc = "update" => /\ intake[h[w].e].st = "accepted"
                                  /\ h'[w].in = intake[h[w].e].in
        /\ UNCHANGED <<intake, sig, bound, posts>>
    BY RereadType, Working DEF Reread, Typed, Moves, rows
  <1>2. Lasting /\ \A f \in Episodes : RowHeld(f)'
    BY <1>1, SameRowsHeld
  <1>3. HandHeld(w)'
    BY <1>1, AcceptedIn DEF HandHeld
  <1> QED
    BY <1>1, <1>2, <1>3, HandlerHeld

\* The steps that touch neither the rows nor the posts, and go nowhere Held
\* speaks of.
LEMMA StillHeld ==
    ASSUME NEW w \in Handlers, Typed, Held,
           \/ RereadPosted(w) \/ Check(w) \/ Reserve(w) \/ Release(w) \/ Answer(w) \/ Crash(w)
           \/ \E e \in Episodes, s \in Statuses : Receive(w, e, s)
    PROVE  Held'
  <1>1. Same(w) /\ h'[w].pc \notin {"record", "take", "update"}
    <2>1. CASE RereadPosted(w)
      BY <2>1, RereadPostedType DEF Moves
    <2>2. CASE Check(w)
      BY <2>2, CheckType DEF Moves
    <2>3. CASE Reserve(w)
      BY <2>3, ReserveType DEF Moves
    <2>4. CASE Release(w)
      BY <2>4, ReleaseType DEF Moves
    <2>5. CASE Answer(w)
      BY <2>5, AnswerType DEF Moves
    <2>6. CASE Crash(w)
      BY <2>6, CrashType DEF Moves
    <2>7. CASE \E e \in Episodes, s \in Statuses : Receive(w, e, s)
      BY <2>7, ReceiveType
    <2> QED
      BY <2>1, <2>2, <2>3, <2>4, <2>5, <2>6, <2>7
  <1>2. UNCHANGED <<intake, sig, bound, posts>>
    BY DEF rows, RereadPosted, Check, Reserve, Release, Answer, Crash, Receive
  <1> QED
    BY <1>1, <1>2, SameRowsHeld, HandlerHeld

\* The transaction that opens an incident writes all it acknowledges.
LEMMA OpenedHeld ==
    ASSUME NEW w \in Handlers, NEW i \in Incidents, Typed, Held, h[w].pc # "idle",
           Opened(w, i), UNCHANGED posts
    PROVE  Lasting /\ \A f \in Episodes : RowHeld(f)'
  <1> DEFINE e == h[w].e
             r == [intake[e] EXCEPT !.st = "accepted", !.in = i]
             o == Observed(w, e, i)
  <1>0. e \in Episodes
    BY Working DEF Typed
  <1>1. intake[e] \in IntakeRec /\ IntakeType /\ SigType /\ BoundType /\ RowHeld(e)
    BY <1>0, TypeParts, HeldParts DEF Typed, IntakeType
  <1>2. r \in IntakeRec /\ r.st = "accepted" /\ r.in = i /\ r.root = intake[e].root
    BY <1>1 DEF IntakeRec, States
  <1>3. /\ o \in SigRec /\ o.st # "absent"
        /\ o.owner = IF sig[e].st = "absent" THEN i ELSE sig[e].owner
    BY <1>0, ObservedRow DEF Typed, Opened
  <1>4. /\ intake' = [intake EXCEPT ![e] = r] /\ sig' = [sig EXCEPT ![e] = o]
        /\ bound' = [bound EXCEPT ![e].root = i] /\ Acceptable(e, i)
    BY DEF Opened, AcceptedBy
  <1> HIDE DEF r, o
  <1>5. intake'[e] = r /\ \A f \in Episodes \ {e} : intake'[f] = intake[f]
    BY <1>0, <1>1, <1>2, <1>4, SetIntake
  <1>6. sig'[e] = o /\ \A f \in Episodes \ {e} : sig'[f] = sig[f]
    BY <1>0, <1>1, <1>3, <1>4, SetSig
  <1>7. bound'[e].root = i /\ \A f \in Episodes \ {e} : bound'[f] = bound[f]
    <2>1. bound[e] \in [Threads -> Incidents \union {None}]
      BY <1>0, <1>1 DEF BoundType
    <2> QED
      BY <1>0, <1>1, <1>4, <2>1 DEF BoundType, Threads
  <1>8. r.root = "root" /\ posts[e] # 0
    <2>1. CASE intake[e].st = "posted"
      <3>1. posts[e] > 0 /\ intake[e].root = "root"
        BY <1>1, <2>1 DEF RowHeld
      <3> QED
        BY <1>2, <3>1
    <2>2. CASE intake[e].st = "accepted" /\ intake[e].root = "root"
      BY <1>1, <1>2, <2>2 DEF RowHeld
    <2> QED
      BY <1>4, <2>1, <2>2 DEF Acceptable
  <1>9. ASSUME NEW f \in Episodes, f = e PROVE RowHeld(f)'
    <2>1. o.owner \in Incidents
      BY <1>1, <1>3 DEF RowHeld
    <2>2. i # None /\ "root" # None
      BY IntakeAssumptions DEF Threads
    <2> QED
      BY <1>2, <1>3, <1>5, <1>6, <1>7, <1>8, <1>9, <2>1, <2>2 DEF RowHeld
  <1>10. ASSUME NEW f \in Episodes, f # e PROVE RowHeld(f)'
    BY <1>5, <1>6, <1>7, <1>10, HeldParts, SameRowHeld
  <1>11. Lasting
    BY <1>3, <1>6 DEF Lasting
  <1> QED
    BY <1>9, <1>10, <1>11

LEMMA OpenWorkspaceHeld ==
    ASSUME NEW w \in Handlers, Typed, Held, OpenWorkspace(w)
    PROVE  Held'
  <1>1. /\ h[w].pc # "idle" /\ Same(w) /\ h'[w].pc \notin {"record", "take", "update"}
        /\ UNCHANGED posts /\ (UNCHANGED rows \/ \E i \in Incidents : Opened(w, i))
    BY OpenWorkspaceType DEF Moves, OpenWorkspace
  <1>2. Lasting /\ \A f \in Episodes : RowHeld(f)'
    <2>1. CASE UNCHANGED rows
      BY <1>1, <2>1, SameRowsHeld DEF rows
    <2>2. ASSUME NEW i \in Incidents, Opened(w, i)
          PROVE  Lasting /\ \A f \in Episodes : RowHeld(f)'
      BY <1>1, <2>2, OpenedHeld
    <2> QED
      BY <1>1, <2>1, <2>2
  <1> QED
    BY <1>1, <1>2, HandlerHeld

LEMMA FinalizeHeld ==
    ASSUME NEW w \in Handlers, Typed, Held, Finalize(w)
    PROVE  Held'
  <1> DEFINE e == h[w].e
             i == sig[e].owner
             r == [intake[e] EXCEPT !.st = "accepted", !.in = i]
  <1>1. /\ e \in Episodes /\ Same(w) /\ h'[w].pc \in {"answer", "idle"}
        /\ UNCHANGED <<sig, bound, posts>>
        /\ \/ intake' = intake
           \/ /\ sig[e].st # "absent" /\ bound[e].root = i /\ Acceptable(e, i)
              /\ intake' = [intake EXCEPT ![e] = r]
    BY FinalizeType, Working DEF Finalize, Typed, Moves, AcceptedBy
  <1>2. intake[e] \in IntakeRec /\ RowHeld(e)
    BY <1>1, TypeParts, HeldParts DEF Typed, IntakeType
  <1>3. Lasting /\ \A f \in Episodes : RowHeld(f)'
    <2>1. CASE intake' = intake
      BY <1>1, <2>1, SameRowsHeld
    <2>2. CASE /\ sig[e].st # "absent" /\ bound[e].root = i /\ Acceptable(e, i)
               /\ intake' = [intake EXCEPT ![e] = r]
      <3>1. i \in Incidents
        BY <1>2, <2>2 DEF RowHeld
      <3>2. r \in IntakeRec /\ r.st = "accepted" /\ r.in = i /\ r.root = intake[e].root
        BY <1>2, <3>1 DEF IntakeRec, States
      <3>3. intake[e].root = "root" /\ posts[e] # 0
        BY <1>2, <2>2 DEF RowHeld, Acceptable
      <3>4. i # None /\ "root" # None
        BY <3>1, IntakeAssumptions DEF Threads
      <3> HIDE DEF i, r
      <3>5. intake' = [intake EXCEPT ![e] = r] /\ sig[e].st # "absent" /\ bound[e].root = i
        BY <2>2
      <3> QED
        BY <1>1, <3>2, <3>3, <3>4, <3>5, IntakeHeld
    <2> QED
      BY <1>1, <2>1, <2>2
  <1> QED
    BY <1>1, <1>3, HandlerHeld

LEMMA UpdateHeld ==
    ASSUME NEW w \in Handlers, Typed, Held, Update(w)
    PROVE  Held'
  <1> DEFINE e == h[w].e
             i == h[w].in
             o == Observed(w, e, i)
  <1>1. /\ e \in Episodes /\ Same(w) /\ h'[w].pc \in {"update", "answer", "idle"}
        /\ h[w].pc = "update" /\ i \in Incidents
        /\ UNCHANGED <<intake, bound, posts>>
        /\ sig' = sig \/ sig' = [sig EXCEPT ![e] = o]
        /\ h'[w].pc = "update" => sig[e].st # "absent" /\ h'[w].in = sig[e].owner
    BY UpdateType, Working DEF Typed, Moves, Held, Update
  <1>2. RowHeld(e) /\ SigType
    BY <1>1, TypeParts, HeldParts DEF Typed
  <1>3. Lasting /\ \A f \in Episodes : RowHeld(f)'
    <2>1. CASE sig' = sig
      BY <1>1, <2>1, SameRowsHeld
    <2>2. CASE sig' = [sig EXCEPT ![e] = o]
      <3>1. /\ o \in SigRec /\ o.st # "absent"
            /\ o.owner = IF sig[e].st = "absent" THEN i ELSE sig[e].owner
        BY <1>1, ObservedRow
      <3> HIDE DEF o
      <3>2. sig'[e] = o /\ \A f \in Episodes \ {e} : sig'[f] = sig[f]
        BY <1>1, <1>2, <2>2, <3>1, SetSig
      <3>3. ASSUME NEW f \in Episodes, f = e PROVE RowHeld(f)'
        BY <1>1, <1>2, <3>1, <3>2, <3>3 DEF RowHeld
      <3>4. ASSUME NEW f \in Episodes, f # e PROVE RowHeld(f)'
        BY <1>1, <3>2, <3>4, HeldParts, SameRowHeld
      <3>5. Lasting
        BY <1>1, <3>1, <3>2 DEF Lasting
      <3> QED
        BY <3>3, <3>4, <3>5
    <2> QED
      BY <1>1, <2>1, <2>2
  <1>4. HandHeld(w)'
    BY <1>1, <1>2 DEF HandHeld, RowHeld
  <1> QED
    BY <1>1, <1>3, <1>4, HandlerHeld

\* Steps outside of the handlers keep Held if they keep the rows.
LEMMA FlaggedHeld ==
    ASSUME Typed, Held, Flagged, Lasting, \A e \in Episodes : RowHeld(e)'
    PROVE  Held'
  <1>1. ASSUME NEW g \in Handlers PROVE HandHeld(g)'
    <2>1. /\ h'[g].pc = h[g].pc /\ h'[g].e = h[g].e /\ h'[g].in = h[g].in
          /\ h[g].pc # "idle" => h[g].e \in Episodes
      BY DEF Flagged, Typed, HandsType
    <2>2. h[g].pc = "record" => posts'[h[g].e] > 0
      BY <2>1 DEF Held, Lasting
    <2>3. h[g].pc = "take" => sig'[h[g].e].st # "absent" /\ h[g].in \in Incidents
      BY <2>1 DEF Held, Lasting
    <2>4. h[g].pc = "update" => h[g].in \in Incidents
      BY DEF Held
    <2> QED
      BY <2>1, <2>2, <2>3, <2>4 DEF HandHeld
  <1> QED
    BY <1>1, HeldParts

LEMMA WorldHeld ==
    ASSUME Typed, Held, World
    PROVE  Held'
  <1>1. Flagged /\ UNCHANGED <<intake, sig, bound, posts>>
    BY WorldType DEF rows
  <1> QED
    BY <1>1, SameRowsHeld, FlaggedHeld

LEMMA CloseHeld ==
    ASSUME NEW i \in Incidents, Typed, Held, Close(i)
    PROVE  Held'
  <1>1. Flagged /\ UNCHANGED <<intake, sig, bound, posts>>
    BY CloseType DEF Flagged
  <1> QED
    BY <1>1, SameRowsHeld, FlaggedHeld

LEMMA AgeHeld ==
    ASSUME NEW e \in Episodes, Typed, Held, Age(e)
    PROVE  Held'
  <1> DEFINE r == [intake[e] EXCEPT !.old = TRUE]
  <1>1. UNCHANGED <<sig, bound, posts, h>> /\ intake' = [intake EXCEPT ![e] = r]
    BY DEF Age
  <1>2. intake[e] \in IntakeRec /\ RowHeld(e) /\ intake[e].st = "posting"
    BY TypeParts, HeldParts DEF Typed, IntakeType, Age
  <1>3. r \in IntakeRec /\ r.st = "posting"
    BY <1>2 DEF IntakeRec
  <1> HIDE DEF r
  <1>4. Lasting /\ \A f \in Episodes : RowHeld(f)'
    BY <1>1, <1>3, IntakeHeld
  <1> QED
    BY <1>1, <1>4, FlaggedHeld DEF Flagged

\* A signal that was not there, or that is only resolved.
LEMMA SignalHeld ==
    ASSUME NEW e \in Episodes, NEW r \in SigRec, Typed, Held, Flagged,
           UNCHANGED <<intake, bound, posts>>, sig' = [sig EXCEPT ![e] = r],
           r.st # "absent", r.owner \in Incidents
    PROVE  Held'
  <1>1. sig'[e] = r /\ \A f \in Episodes \ {e} : sig'[f] = sig[f]
    BY SetSig, TypeParts DEF Typed
  <1>2. RowHeld(e)'
    BY <1>1, HeldParts DEF RowHeld
  <1>3. ASSUME NEW f \in Episodes \ {e} PROVE RowHeld(f)'
    BY <1>1, HeldParts, SameRowHeld
  <1>4. Lasting
    BY <1>1 DEF Lasting
  <1> QED
    BY <1>2, <1>3, <1>4, FlaggedHeld

LEMMA BindNoticeHeld ==
    ASSUME NEW e \in Episodes, Typed, Held, BindNotice(e)
    PROVE  Held'
  <1> DEFINE r == [st |-> "firing", owner |-> bound[e].notice, slack |-> TRUE]
  <1>1. /\ Flagged /\ UNCHANGED <<intake, bound, posts>>
        /\ bound[e].notice \in Incidents /\ sig' = [sig EXCEPT ![e] = r]
    BY BindNoticeType
  <1>2. r \in SigRec /\ r.st # "absent" /\ r.owner \in Incidents
    BY <1>1 DEF SigRec
  <1> HIDE DEF r
  <1> QED
    BY <1>1, <1>2, SignalHeld

LEMMA ReconcileHeld ==
    ASSUME NEW e \in Episodes, Typed, Held, Reconcile(e)
    PROVE  Held'
  <1> DEFINE r == [sig[e] EXCEPT !.st = "resolved"]
  <1>1. /\ Flagged /\ UNCHANGED <<intake, bound, posts>>
        /\ sig[e].st = "firing" /\ sig' = [sig EXCEPT ![e] = r]
    BY ReconcileType
  <1>2. r \in SigRec /\ r.st # "absent" /\ r.owner \in Incidents
    <2>1. sig[e] \in SigRec /\ sig[e].owner \in Incidents
      BY <1>1, TypeParts DEF Typed, SigType, Held
    <2> QED
      BY <2>1 DEF SigRec
  <1> HIDE DEF r
  <1> QED
    BY <1>1, <1>2, SignalHeld

\* The threads, the signals and the intakes of a merged incident move together.
LEMMA MergeHeld ==
    ASSUME NEW source \in Incidents, NEW target \in Incidents, Typed, Held, Merge(source, target)
    PROVE  Held'
  <1>1. UNCHANGED <<posts, h>> /\ \A e \in Episodes : Merged(e, source, target)
    BY MergeType
  <1>2. ASSUME NEW e \in Episodes
        PROVE  RowHeld(e)' /\ (sig[e].st # "absent" => sig'[e].st # "absent")
    <2>1. RowHeld(e) /\ Merged(e, source, target)
      BY <1>1, HeldParts
    <2>2. intake[e] \in IntakeRec /\ sig[e] \in SigRec
      BY TypeParts DEF Typed, IntakeType, SigType
    <2>3. /\ intake'[e].st = intake[e].st /\ intake'[e].root = intake[e].root
          /\ intake'[e].in = IF intake[e].in = source THEN target ELSE intake[e].in
      BY <2>1, <2>2 DEF Merged, IntakeRec
    <2>4. /\ sig'[e].st = sig[e].st /\ sig'[e].slack = sig[e].slack
          /\ sig'[e].owner = IF sig[e].owner = source THEN target ELSE sig[e].owner
      BY <2>1, <2>2 DEF Merged, SigRec
    <2>5. target # None
      BY IntakeAssumptions
    <2>6. ASSUME intake[e].st = "accepted"
          PROVE  /\ intake[e].root # None /\ intake'[e].in # None
                 /\ bound'[e][intake[e].root] = intake'[e].in
                 /\ sig[e].st # "absent"
                 /\ posts[e] = 0 => intake[e].root = "notice"
      <3>1. intake[e].root \in Threads /\ bound[e][intake[e].root] = intake[e].in
        BY <2>1, <2>2, <2>6 DEF RowHeld, IntakeRec
      <3>2. bound'[e][intake[e].root] =
              IF bound[e][intake[e].root] = source THEN target ELSE bound[e][intake[e].root]
        BY <2>1, <3>1 DEF Merged
      <3> QED
        BY <2>1, <2>3, <2>5, <2>6, <3>1, <3>2 DEF RowHeld
    <2> QED
      BY <1>1, <2>1, <2>3, <2>4, <2>6 DEF RowHeld
  <1> QED
    BY <1>1, <1>2, FlaggedHeld DEF Flagged, Lasting

LEMMA InitHeld == Init => Held
  BY DEF Init, Idle, Held, AcceptedIsComplete

LEMMA NextHeld == Typed /\ Held /\ [Next]_vars => Held'
  <1> SUFFICES ASSUME Typed, Held, [Next]_vars PROVE Held'
    OBVIOUS
  <1>1. CASE UNCHANGED vars
    BY <1>1 DEF vars, Held, AcceptedIsComplete
  <1>2. ASSUME NEW w \in Handlers, Handle(w) PROVE Held'
    BY <1>2, RetainHeld, MarkStaleHeld, LookUpHeld, TakeHeld, RereadHeld, ClaimHeld, PostHeld,
       RecordHeld, FailedHeld, OpenWorkspaceHeld, FinalizeHeld, UpdateHeld, StillHeld DEF Handle
  <1>3. CASE Next
    BY <1>2, <1>3, Steps1, StillHeld, WorldHeld, AgeHeld, BindNoticeHeld, ReconcileHeld,
       CloseHeld, MergeHeld
  <1> QED
    BY <1>1, <1>3

(* What is acknowledged exists: the thread, the incident it is bound to,   *)
(* and the signal, also after merges and for the post nobody saw recorded. *)
THEOREM AcceptedComplete == Spec => []AcceptedIsComplete
  <1>1. Init => Typed /\ Held
    BY InitType, InitHeld
  <1>2. Typed /\ Held /\ [Next]_vars => (Typed /\ Held)'
    BY NextType, NextHeld
  <1>3. Held => AcceptedIsComplete
    BY DEF Held
  <1> QED
    BY <1>1, <1>2, <1>3, PTL DEF Spec

-----------------------------------------------------------------------------
(* A cleared episode stays cleared.                                        *)

ClearKept == \A e \in Episodes : sig[e].st = "resolved" => sig'[e].st = "resolved"

LEMMA ObservedKept ==
    ASSUME NEW w \in Handlers, NEW i \in Incidents \union {None}, Typed, h[w].pc # "idle",
           sig' = [sig EXCEPT ![h[w].e] = Observed(w, h[w].e, i)]
    PROVE  ClearKept
  <1> DEFINE e == h[w].e
             o == Observed(w, h[w].e, i)
  <1>1. e \in Episodes /\ SigType
    BY Working, TypeParts DEF Typed
  <1>2. /\ o \in SigRec /\ (sig[e].st = "resolved" => o.st = "resolved")
        /\ sig' = [sig EXCEPT ![e] = o]
    BY ObservedRow
  <1> HIDE DEF o
  <1>3. sig'[e] = o /\ \A f \in Episodes \ {e} : sig'[f] = sig[f]
    BY <1>1, <1>2, SetSig
  <1> QED
    BY <1>2, <1>3 DEF ClearKept

LEMMA NextKeepsClear == Typed /\ [Next]_vars => ClearKept
  <1> SUFFICES ASSUME Typed, [Next]_vars PROVE ClearKept
    OBVIOUS
  <1>1. ASSUME sig' = sig PROVE ClearKept
    BY <1>1 DEF ClearKept
  <1>2. ASSUME NEW w \in Handlers, OpenWorkspace(w) PROVE ClearKept
    <2>1. h[w].pc # "idle" /\ (sig' = sig \/ \E i \in Incidents : Opened(w, i))
      BY <1>2, OpenWorkspaceType DEF OpenWorkspace, rows
    <2>2. ASSUME NEW i \in Incidents, Opened(w, i) PROVE ClearKept
      BY <2>1, <2>2, ObservedKept DEF Opened
    <2> QED
      BY <1>1, <2>1, <2>2
  <1>3. ASSUME NEW w \in Handlers, Update(w) PROVE ClearKept
    <2>1. /\ h[w].pc # "idle" /\ h[w].in \in Incidents \union {None}
          /\ sig' = sig \/ sig' = [sig EXCEPT ![h[w].e] = Observed(w, h[w].e, h[w].in)]
      BY <1>3, UpdateType, Working DEF Typed
    <2> QED
      BY <1>1, <2>1, ObservedKept
  <1>4. ASSUME NEW w \in Handlers, Handle(w) PROVE ClearKept
    BY <1>1, <1>2, <1>3, <1>4
       DEF Handle, Retain, MarkStale, LookUp, Take, Reread, Claim, Post, Record, Failed,
           RereadPosted, Check, Reserve, Release, Finalize, Answer, rows
  <1>5. ASSUME NEW e \in Episodes, BindNotice(e) \/ Reconcile(e) PROVE ClearKept
    <2>1. SigType /\ sig[e] \in SigRec
      BY TypeParts DEF Typed, SigType
    <2>2. /\ sig[e].st # "resolved"
          /\ \A f \in Episodes \ {e} : sig'[f] = sig[f]
      BY <1>5, <2>1, BindNoticeType, ReconcileType DEF SigType
    <2> QED
      BY <2>2 DEF ClearKept
  <1>6. ASSUME NEW i \in Incidents, NEW k \in Incidents, Merge(i, k) PROVE ClearKept
    <2>1. ASSUME NEW e \in Episodes PROVE sig'[e].st = sig[e].st
      <3>1. sig[e] \in SigRec /\ Merged(e, i, k)
        BY <1>6, MergeType, TypeParts DEF Typed, SigType
      <3> QED
        BY <3>1 DEF Merged, SigRec
    <2> QED
      BY <2>1 DEF ClearKept
  <1>7. CASE Next
    <2>1. ASSUME NEW w \in Handlers, Crash(w) \/ \E e \in Episodes, s \in Statuses : Receive(w, e, s)
          PROVE  sig' = sig
      BY <2>1 DEF Crash, Receive, rows
    <2>2. World => sig' = sig
      BY DEF World, Fire, Clear, Expire, Revoke, Subscribe, Rotate, rows
    <2>3. ASSUME NEW e \in Episodes, Age(e) PROVE sig' = sig
      BY <2>3 DEF Age
    <2>4. ASSUME NEW i \in Incidents, Close(i) PROVE sig' = sig
      BY <2>4 DEF Close
    <2> QED
      BY <1>1, <1>4, <1>5, <1>6, <1>7, <2>1, <2>2, <2>3, <2>4, Steps1
  <1>8. CASE UNCHANGED vars
    BY <1>1, <1>8 DEF vars
  <1> QED
    BY <1>7, <1>8

(* Whatever is still in flight when a clear is recorded, it never opens    *)
(* the episode again.                                                      *)
THEOREM ClearStays == Spec => ClearIsFinal
  <1>1. Typed /\ [Next]_vars => [ClearKept]_vars
    BY NextKeepsClear
  <1>2. [][ClearKept]_vars <=> ClearIsFinal
    BY DEF ClearKept, ClearIsFinal
  <1> QED
    BY <1>1, <1>2, InitType, NextType, PTL DEF Spec
=============================================================================
