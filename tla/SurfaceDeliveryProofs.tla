----------------------- MODULE SurfaceDeliveryProofs ------------------------
(***************************************************************************)
(* Proofs about SurfaceDelivery, for any messages, workers and bounds.     *)
(***************************************************************************)
EXTENDS SurfaceDelivery, TLAPS

-----------------------------------------------------------------------------
(* Type correctness: first the pieces of state that several actions build. *)

FaultKinds == {"crash", "lapse", "stall", "loss", "limit", "error", "move"}

RowsType == row \in [Msgs -> Rows]

ProcType ==
    /\ proc \in [Workers -> Procs]
    /\ \A w \in Workers : /\ proc[w].pc # "idle" => proc[w].msg \in Msgs
                          /\ proc[w].pc \in {"renew", "finish"} => proc[w].result \in Terminal

FaultsType == faults \in [FaultKinds -> Nat]

RestType ==
    /\ wake \in [Msgs -> Nat]
    /\ binding \in [post : Posts, version : Int, assignment : Nat, full : BOOLEAN]
    /\ working \in Posts /\ lock \in Workers \union {Free, Dead}
    /\ shown \in [Msgs -> Posts] /\ flight \subseteq Requests
    /\ reached \in [Msgs -> Nat]
    /\ incident \in [archived : BOOLEAN, connected : BOOLEAN]

LEMMA TypeParts ==
    /\ TypeOK <=> RowsType /\ ProcType /\ FaultsType /\ RestType
    /\ TypeOK' <=> RowsType' /\ ProcType' /\ FaultsType' /\ RestType'
  BY DEF TypeOK, RowsType, ProcType, FaultsType, RestType, FaultKinds

\* A step of one worker keeps the workers well typed if its record is.
LEMMA StepType ==
    ASSUME NEW w \in Workers, NEW p, ProcType, Step(w, p), p \in Procs,
           p.pc # "idle" => p.msg \in Msgs,
           p.pc \in {"renew", "finish"} => p.result \in Terminal
    PROVE  ProcType'
  BY DEF ProcType, Step

\* A worker that moves on keeps its message.
LEMMA GotoType ==
    ASSUME NEW w \in Workers, NEW pc \in {"idle", "lock", "claim", "read", "ambiguous", "call",
                 "wait", "record", "requeue", "release"},
           ProcType, proc[w].pc # "idle", Goto(w, pc)
    PROVE  ProcType'
  <1>1. proc[w] \in Procs /\ proc[w].msg \in Msgs
    BY DEF ProcType
  <1> DEFINE p == [proc[w] EXCEPT !.pc = pc]
  <1>2. p \in Procs /\ p.msg \in Msgs /\ p.pc \notin {"renew", "finish"}
    BY <1>1 DEF Procs
  <1>3. Step(w, p)
    BY DEF Goto
  <1> HIDE DEF p
  <1> QED
    BY <1>2, <1>3, StepType

LEMMA EndsType ==
    ASSUME NEW w \in Workers, NEW result \in Terminal,
           ProcType, proc[w].pc # "idle", Ends(w, result)
    PROVE  ProcType'
  <1>1. proc[w] \in Procs /\ proc[w].msg \in Msgs /\ Terminal \subseteq States
    BY DEF ProcType, Terminal, States
  <1> DEFINE p == [proc[w] EXCEPT !.pc = "finish", !.result = result]
  <1>2. p \in Procs /\ p.msg \in Msgs /\ p.result \in Terminal
    BY <1>1 DEF Procs
  <1>3. Step(w, p)
    BY DEF Ends
  <1> HIDE DEF p
  <1> QED
    BY <1>2, <1>3, StepType

LEMMA CallsType ==
    ASSUME NEW w \in Workers, NEW op \in {"post", "update", "delete"}, NEW post \in Posts,
           ProcType, proc[w].pc # "idle", Calls(w, op, post)
    PROVE  ProcType'
  <1>1. proc[w] \in Procs /\ proc[w].msg \in Msgs
    BY DEF ProcType
  <1> DEFINE p == [proc[w] EXCEPT !.pc = "call", !.op = op, !.post = post]
  <1>2. p \in Procs /\ p.msg \in Msgs /\ p.pc = "call"
    BY <1>1 DEF Procs
  <1>3. Step(w, p)
    BY DEF Calls
  <1> HIDE DEF p
  <1> QED
    BY <1>2, <1>3, StepType

\* The worker's record when an attempt goes to its renewal.
LEMMA RenewType ==
    ASSUME NEW w \in Workers, NEW result \in {"accepted", "skipped"},
           ProcType, proc[w].pc # "idle",
           Step(w, [proc[w] EXCEPT !.pc = "renew", !.result = result])
    PROVE  ProcType'
  <1>1. proc[w] \in Procs /\ proc[w].msg \in Msgs
    BY DEF ProcType
  <1> DEFINE p == [proc[w] EXCEPT !.pc = "renew", !.result = result]
  <1>2. p \in Procs /\ p.msg \in Msgs /\ p.result \in Terminal
    BY <1>1 DEF Procs, States, Terminal
  <1>3. Step(w, p)
    OBVIOUS
  <1> HIDE DEF p
  <1> QED
    BY <1>2, <1>3, StepType

LEMMA IdleType ==
    ASSUME NEW w \in Workers, ProcType, Step(w, Idle)
    PROVE  ProcType'
  <1>1. Idle \in Procs /\ Idle.pc = "idle"
    BY DEF Idle, Procs, Posts, States
  <1> QED
    BY <1>1, StepType

LEMMA SufferType ==
    ASSUME NEW f \in FaultKinds, NEW max, FaultsType, Suffer(f, max)
    PROVE  FaultsType'
  BY DEF FaultsType, Suffer

LEMMA PutType ==
    ASSUME NEW m \in Msgs, NEW from, NEW r \in Rows, RowsType, Put(m, from, r)
    PROVE  RowsType'
  BY DEF RowsType, Put

\* The rows the code writes are rows.
LEMMA RowsWritten ==
    ASSUME RowsType, NEW m \in Msgs
    PROVE  /\ row[m] \in Rows /\ Later(m) \in Rows
           /\ \A s \in States : [row[m] EXCEPT !.state = s] \in Rows
  BY DEF RowsType, Rows, Later, States

LEMMA SweepType ==
    ASSUME RowsType, NEW q \in States, NEW s \in States, Sweep(q, s)
    PROVE  RowsType'
  <1> DEFINE new(m) == CASE row[m].state = "queued"  -> [row[m] EXCEPT !.state = q]
                         [] row[m].state = "sending" -> [row[m] EXCEPT !.state = s]
                         [] OTHER -> row[m]
  <1>1. ASSUME NEW m \in Msgs PROVE new(m) \in Rows
    BY RowsWritten
  <1>2. row' = [m \in Msgs |-> new(m)]
    BY DEF Sweep
  <1> HIDE DEF new
  <1> QED
    BY <1>1, <1>2 DEF RowsType

LEMMA InitType == Init => TypeOK
  <1> SUFFICES ASSUME Init PROVE TypeOK
    OBVIOUS
  <1>1. RowsType
    BY CastAssumption DEF Init, RowsType, Rows, States
  <1>2. ProcType
    <2>1. Idle \in Procs /\ Idle.pc = "idle"
      BY DEF Idle, Procs, Posts, States
    <2> QED
      BY <2>1 DEF Init, ProcType
  <1>3. FaultsType
    BY DEF Init, FaultsType, FaultKinds
  <1>4. RestType
    BY DEF Init, RestType, Posts, Requests
  <1> QED
    BY <1>1, <1>2, <1>3, <1>4, TypeParts

\* The steps of a conversation and of the messages in it.
LEMMA ConversationType ==
    TypeOK /\ (Conversation \/ \E m \in Msgs : (\E n \in 0..MaxWakes : Enqueue(m, n)) \/ BecomeDue(m)) => TypeOK'
  <1> SUFFICES ASSUME RowsType, ProcType, FaultsType, RestType,
                      Conversation \/ \E m \in Msgs : (\E n \in 0..MaxWakes : Enqueue(m, n)) \/ BecomeDue(m)
               PROVE  RowsType' /\ ProcType' /\ FaultsType' /\ RestType'
    BY TypeParts
  <1>1. ASSUME NEW m \in Msgs, NEW n \in 0..MaxWakes, Enqueue(m, n)
        PROVE  RowsType' /\ ProcType' /\ FaultsType' /\ RestType'
    <2>1. [row[m] EXCEPT !.state = "queued", !.assignment = binding.assignment] \in Rows
      BY <1>1 DEF RowsType, Rows, States, RestType
    <2>2. RowsType'
      BY <1>1, <2>1 DEF Enqueue, RowsType
    <2>3. ProcType' /\ FaultsType'
      BY <1>1 DEF Enqueue, ProcType, FaultsType
    <2>4. wake' \in [Msgs -> Nat]
      <3>1. n \in Nat
        BY BoundAssumption
      <3>2. wake \in [Msgs -> Nat]
        BY DEF RestType
      <3>3. wake' = [wake EXCEPT ![m] = n]
        BY <1>1 DEF Enqueue
      <3> QED
        BY <3>1, <3>2, <3>3
    <2>5. UNCHANGED Ambient
      BY <1>1 DEF Enqueue
    <2> QED
      BY <2>2, <2>3, <2>4, <2>5 DEF Ambient, RestType
  <1>2. ASSUME NEW m \in Msgs, BecomeDue(m)
        PROVE  RowsType' /\ ProcType' /\ FaultsType' /\ RestType'
    <2>1. RowsType'
      BY <1>2 DEF BecomeDue, RowsType, Rows
    <2> QED
      BY <1>2, <2>1 DEF BecomeDue, Ambient, ProcType, FaultsType, RestType
  <1>3. CASE Archive
    <2>1. RowsType'
      BY <1>3, SweepType DEF Archive, States
    <2> QED
      BY <1>3, <2>1 DEF Archive, ProcType, FaultsType, RestType
  <1>4. CASE Disconnect
    <2>1. RowsType'
      BY <1>4, SweepType DEF Disconnect, States
    <2> QED
      BY <1>4, <2>1 DEF Disconnect, ProcType, FaultsType, RestType
  <1>5. CASE Move
    <2>1. RowsType'
      BY <1>5, SweepType DEF Move, States
    <2>2. FaultsType'
      BY <1>5, SufferType DEF Move, FaultKinds
    <2>3. binding' \in [post : Posts, version : Int, assignment : Nat, full : BOOLEAN]
      <3>1. PICK full \in BOOLEAN :
              binding' = [binding EXCEPT !.version = -1, !.assignment = @ + 1, !.full = full]
        BY <1>5 DEF Move
      <3>2. binding.assignment + 1 \in Nat /\ -1 \in Int
        BY DEF RestType
      <3> QED
        BY <3>1, <3>2 DEF RestType
    <2>4. UNCHANGED <<wake, working, lock, proc, shown, flight, reached, incident>>
      BY <1>5 DEF Move
    <2> QED
      BY <2>1, <2>2, <2>3, <2>4 DEF ProcType, RestType
  <1> QED
    BY <1>1, <1>2, <1>3, <1>4, <1>5 DEF Conversation

\* A worker's steps up to its claim.
LEMMA OpeningType ==
    ASSUME TypeOK, NEW w \in Workers,
           (\E m \in Msgs : Begin(w, m)) \/ Acquire(w) \/ Defer(w) \/ Claim(w)
    PROVE  TypeOK'
  <1> USE TypeParts
  <1> SUFFICES RowsType' /\ ProcType' /\ FaultsType' /\ RestType'
    OBVIOUS
  <1>0. RowsType /\ ProcType /\ FaultsType /\ RestType
    OBVIOUS
  <1>1. ASSUME NEW m \in Msgs, Begin(w, m)
        PROVE  RowsType' /\ ProcType' /\ FaultsType' /\ RestType'
    <2>1. RowsType'
      BY <1>0, <1>1, PutType, RowsWritten DEF Begin, RowsType, States
    <2>2. ProcType'
      <3> DEFINE p == [Idle EXCEPT !.pc = "lock", !.msg = m]
      <3>1. p \in Procs /\ p.msg \in Msgs /\ p.pc = "lock"
        BY DEF Idle, Procs, Posts, States
      <3>2. Step(w, p) \/ UNCHANGED proc
        BY <1>1 DEF Begin
      <3> HIDE DEF p
      <3> QED
        BY <1>0, <3>1, <3>2, StepType DEF ProcType
    <2>3. wake' \in [Msgs -> Nat]
      <3>1. UNCHANGED wake \/ (wake[m] > 0 /\ wake' = [wake EXCEPT ![m] = wake[m] - 1])
        BY <1>1 DEF Begin
      <3>2. wake[m] > 0 => wake[m] - 1 \in Nat
        BY <1>0 DEF RestType
      <3> QED
        BY <1>0, <3>1, <3>2 DEF RestType
    <2>4. UNCHANGED faults /\ UNCHANGED Ambient
      BY <1>1 DEF Begin
    <2> QED
      BY <1>0, <2>1, <2>2, <2>3, <2>4 DEF Ambient, FaultsType, RestType
  <1>2. CASE Acquire(w)
    <2>1. ProcType'
      BY <1>0, <1>2, GotoType DEF Acquire
    <2> QED
      BY <1>0, <1>2, <2>1 DEF Acquire, RowsType, FaultsType, RestType
  <1>3. CASE Defer(w)
    <2>1. proc[w].msg \in Msgs
      BY <1>0, <1>3 DEF Defer, ProcType
    <2>2. RowsType'
      BY <1>0, <1>3, <2>1, PutType, RowsWritten DEF Defer
    <2>3. ProcType'
      BY <1>0, <1>3, IdleType DEF Defer
    <2>4. FaultsType'
      BY <1>0, <1>3, SufferType DEF Defer, FaultsType, FaultKinds
    <2> QED
      BY <1>0, <1>3, <2>2, <2>3, <2>4 DEF Defer, Ambient, RestType
  <1>4. CASE Claim(w)
    <2>1. proc[w].msg \in Msgs
      BY <1>0, <1>4 DEF Claim, ProcType
    <2>2. RowsType'
      BY <1>0, <1>4, <2>1, PutType, RowsWritten DEF Claim, RowsType, States
    <2>3. ProcType'
      BY <1>0, <1>4, GotoType DEF Claim
    <2> QED
      BY <1>0, <1>4, <2>2, <2>3 DEF Claim, Ambient, FaultsType, RestType
  <1> QED
    BY <1>1, <1>2, <1>3, <1>4

\* What a worker reads and asks the surface.
LEMMA AskingType ==
    ASSUME TypeOK, NEW w \in Workers,
           ReadStatus(w) \/ CheckAmbiguous(w) \/ ReadWorking(w) \/ Send(w)
    PROVE  TypeOK'
  <1>0. RowsType /\ ProcType /\ FaultsType /\ RestType
    BY TypeParts
  <1>1. binding.post \in Posts /\ working \in Posts /\ NoMsg \in Posts
    BY <1>0 DEF RestType, Posts
  <1>2. UNCHANGED <<row, wake, faults>> /\ UNCHANGED Ambient /\ proc[w].pc # "idle"
    BY DEF ReadStatus, CheckAmbiguous, ReadWorking, Send
  <1>3. ASSUME Skips(w) PROVE ProcType'
    BY <1>0, <1>2, <1>3, RenewType DEF Skips
  <1>4. ProcType'
    <2>1. CASE ReadStatus(w)
      BY <1>0, <1>1, <1>2, <1>3, <2>1, CallsType, GotoType DEF ReadStatus
    <2>2. CASE CheckAmbiguous(w)
      BY <1>0, <1>1, <1>2, <2>2, CallsType, EndsType DEF CheckAmbiguous, Terminal
    <2>3. CASE ReadWorking(w)
      BY <1>0, <1>1, <1>2, <1>3, <2>3, CallsType DEF ReadWorking
    <2>4. CASE Send(w)
      <3> DEFINE p == [proc[w] EXCEPT !.pc = "wait", !.landed = FALSE]
      <3>1. p \in Procs /\ p.msg \in Msgs /\ p.pc = "wait"
        BY <1>0, <1>2 DEF ProcType, Procs
      <3>2. Step(w, p)
        BY <2>4 DEF Send
      <3> HIDE DEF p
      <3> QED
        BY <1>0, <3>1, <3>2, StepType
    <2> QED
      BY <2>1, <2>2, <2>3, <2>4
  <1> QED
    BY <1>0, <1>2, <1>4, TypeParts DEF Ambient, RowsType, FaultsType, RestType

\* What becomes of a request.
LEMMA AnswerType ==
    ASSUME TypeOK, NEW w \in Workers,
           Answered(w) \/ Rejected(w) \/ RateLimited(w) \/ Lost(w)
    PROVE  TypeOK'
  <1>0. RowsType /\ ProcType /\ FaultsType /\ RestType
    BY TypeParts
  <1>1. proc[w].pc # "idle" /\ proc[w] \in Procs /\ proc[w].msg \in Msgs
    BY <1>0 DEF Answered, Rejected, RateLimited, Lost, ProcType
  <1>2. ProcType'
    BY <1>0, <1>1, GotoType, EndsType DEF Answered, Rejected, RateLimited, Lost, Terminal
  <1>3. FaultsType'
    BY <1>0, SufferType DEF Answered, Rejected, RateLimited, Lost, FaultsType, FaultKinds
  <1>4. flight' \subseteq Requests
    BY <1>0, <1>1 DEF Answered, Rejected, RateLimited, Lost, Abandon, Ambient, RestType, Requests, Procs
  <1>5. RowsType'
    BY <1>0 DEF Answered, Rejected, RateLimited, Lost, RowsType
  <1>6. RestType'
    BY <1>0, <1>4 DEF Answered, Rejected, RateLimited, Lost, Ambient, RestType
  <1> QED
    BY <1>2, <1>3, <1>5, <1>6, TypeParts

\* Recording the outcome.
LEMMA RecordingType ==
    ASSUME TypeOK, NEW w \in Workers, RecordStatus(w) \/ RecordWorking(w) \/ Errs(w)
    PROVE  TypeOK'
  <1>0. RowsType /\ ProcType /\ FaultsType /\ RestType
    BY TypeParts
  <1>1. proc[w].pc # "idle" /\ proc[w] \in Procs /\ proc[w].msg \in Msgs /\ proc[w].post \in Posts
    BY <1>0 DEF RecordStatus, RecordWorking, Errs, ProcType, Procs
  <1>2. CASE RecordStatus(w)
    <2>1. ProcType'
      BY <1>0, <1>1, <1>2, RenewType, EndsType DEF RecordStatus, Terminal
    <2>2. binding' \in [post : Posts, version : Int, assignment : Nat, full : BOOLEAN]
      <3> DEFINE post == IF proc[w].op = "post" THEN proc[w].msg ELSE proc[w].post
      <3>1. post \in Posts /\ Version[proc[w].msg] \in Int
        BY <1>1, CastAssumption DEF Posts
      <3>2. \/ binding' = [binding EXCEPT !.post = post, !.version = Version[proc[w].msg]]
            \/ UNCHANGED binding
        BY <1>2 DEF RecordStatus
      <3> HIDE DEF post
      <3> QED
        BY <1>0, <3>1, <3>2 DEF RestType
    <2> QED
      BY <1>0, <1>2, <2>1, <2>2, TypeParts DEF RecordStatus, RowsType, FaultsType, RestType
  <1>3. CASE RecordWorking(w)
    <2>1. CASE proc[w].op = "delete"
      <3>1. Calls(w, "post", NoMsg)
        BY <1>3, <2>1 DEF RecordWorking, Calls
      <3> QED
        BY <1>0, <1>1, <1>3, <3>1, CallsType, TypeParts
           DEF RecordWorking, RowsType, FaultsType, RestType, Posts
    <2>2. CASE proc[w].op # "delete"
      <3>1. Step(w, [proc[w] EXCEPT !.pc = "renew", !.result = "accepted"])
        BY <1>3, <2>2 DEF RecordWorking
      <3> QED
        BY <1>0, <1>1, <1>3, <3>1, RenewType, TypeParts
           DEF RecordWorking, RowsType, FaultsType, RestType, Posts
    <2> QED
      BY <2>1, <2>2
  <1>4. CASE Errs(w)
    <2>1. ProcType' /\ FaultsType'
      BY <1>0, <1>1, <1>4, EndsType, SufferType DEF Errs, Terminal, FaultKinds
    <2> QED
      BY <1>0, <1>4, <2>1, TypeParts DEF Errs, Ambient, RowsType, RestType
  <1> QED
    BY <1>2, <1>3, <1>4

\* The receipt and the lock's release.
LEMMA ClosingType ==
    ASSUME TypeOK, NEW w \in Workers, Renew(w) \/ Finish(w) \/ Requeue(w) \/ Release(w)
    PROVE  TypeOK'
  <1>0. RowsType /\ ProcType /\ FaultsType /\ RestType
    BY TypeParts
  <1>1. proc[w].pc # "idle" /\ proc[w] \in Procs /\ proc[w].msg \in Msgs
    BY <1>0 DEF Renew, Finish, Requeue, Release, ProcType
  <1>2. CASE Renew(w)
    <2>1. proc[w].result \in Terminal /\ "uncertain" \in Terminal
      BY <1>0, <1>2 DEF Renew, ProcType, Terminal
    <2>2. ProcType'
      BY <1>0, <1>1, <1>2, <2>1, EndsType DEF Renew
    <2> QED
      BY <1>0, <1>2, <2>2, TypeParts DEF Renew, Ambient, RowsType, FaultsType, RestType
  <1>3. CASE Finish(w)
    <2>1. [row[proc[w].msg] EXCEPT !.state = proc[w].result] \in Rows
      BY <1>0, <1>1, RowsWritten DEF Procs
    <2>2. RowsType'
      BY <1>0, <1>1, <1>3, <2>1, PutType DEF Finish, RowsType
    <2>3. ProcType'
      BY <1>0, <1>1, <1>3, GotoType, EndsType DEF Finish, Terminal
    <2>4. FaultsType'
      BY <1>0, <1>3, SufferType DEF Finish, FaultsType, FaultKinds
    <2> QED
      BY <1>0, <1>3, <2>2, <2>3, <2>4, TypeParts DEF Finish, Ambient, RestType
  <1>4. CASE Requeue(w)
    <2>1. RowsType'
      BY <1>0, <1>1, <1>4, PutType, RowsWritten DEF Requeue, RowsType
    <2>2. ProcType' /\ FaultsType'
      BY <1>0, <1>1, <1>4, GotoType, SufferType DEF Requeue, FaultsType, FaultKinds
    <2> QED
      BY <1>0, <1>4, <2>1, <2>2, TypeParts DEF Requeue, Ambient, RestType
  <1>5. CASE Release(w)
    <2>1. ProcType' /\ FaultsType'
      BY <1>0, <1>5, IdleType, SufferType DEF Release, FaultsType, FaultKinds
    <2> QED
      BY <1>0, <1>5, <2>1, TypeParts DEF Release, RowsType, RestType
  <1> QED
    BY <1>2, <1>3, <1>4, <1>5

\* The surface, time and faults.
LEMMA OutsideType ==
    ASSUME TypeOK,
           Remote \/ Expire \/ Lapse \/ (\E w \in Workers : Crash(w))
             \/ \E m \in Msgs : Age(m) \/ Stall(m) \/ MarkStale(m)
    PROVE  TypeOK'
  <1>0. RowsType /\ ProcType /\ FaultsType /\ RestType
    BY TypeParts
  <1>1. ASSUME NEW m \in Msgs, NEW op, NEW post \in Posts, Lands(m, op, post), op \in {"post", "update", "delete"}
        PROVE  shown' \in [Msgs -> Posts] /\ reached' \in [Msgs -> Nat]
    <2>1. /\ UNCHANGED reached \/ reached' = [reached EXCEPT ![m] = reached[m] + 1]
          /\ \E k \in Posts : shown' = [shown EXCEPT ![m] = k] \/ shown' = [shown EXCEPT ![post] = k]
      BY <1>1 DEF Lands, Posts
    <2>2. reached[m] + 1 \in Nat /\ shown \in [Msgs -> Posts] /\ reached \in [Msgs -> Nat]
      BY <1>0 DEF RestType
    <2> QED
      BY <2>1, <2>2
  <1>2. ASSUME NEW w \in Workers, Land(w) PROVE TypeOK'
    <2>1. proc[w] \in Procs /\ proc[w].msg \in Msgs
      BY <1>0, <1>2 DEF Land, ProcType
    <2>2. shown' \in [Msgs -> Posts] /\ reached' \in [Msgs -> Nat]
      BY <1>1, <1>2, <2>1 DEF Land, Procs
    <2>3. ProcType'
      <3> DEFINE p == [proc[w] EXCEPT !.landed = TRUE]
      <3>1. p \in Procs /\ p.msg \in Msgs /\ p.pc = "wait"
        BY <1>2, <2>1 DEF Procs, Land
      <3>2. Step(w, p)
        BY <1>2 DEF Land
      <3> HIDE DEF p
      <3> QED
        BY <1>0, <3>1, <3>2, StepType
    <2> QED
      BY <1>0, <1>2, <2>2, <2>3, TypeParts DEF Land, RowsType, FaultsType, RestType
  <1>3. ASSUME NEW r \in flight, LateLand(r) PROVE TypeOK'
    <2>1. r.msg \in Msgs /\ r.op \in {"post", "update", "delete"} /\ r.post \in Posts
      BY <1>0 DEF RestType, Requests
    <2>2. shown' \in [Msgs -> Posts] /\ reached' \in [Msgs -> Nat]
      BY <1>1, <1>3, <2>1 DEF LateLand
    <2> QED
      BY <1>0, <1>3, <2>2, TypeParts DEF LateLand, RowsType, ProcType, FaultsType, RestType
  <1>4. ASSUME NEW r \in flight, Vanish(r) PROVE TypeOK'
    BY <1>0, <1>4, TypeParts DEF Vanish, RowsType, ProcType, FaultsType, RestType
  <1>5. CASE Expire
    BY <1>0, <1>5, TypeParts DEF Expire, RowsType, ProcType, FaultsType, RestType
  <1>6. CASE Lapse
    <2>1. FaultsType'
      BY <1>0, <1>6, SufferType DEF Lapse, FaultKinds
    <2> QED
      BY <1>0, <1>6, <2>1, TypeParts DEF Lapse, RowsType, ProcType, RestType
  <1>7. ASSUME NEW w \in Workers, Crash(w) PROVE TypeOK'
    <2>1. proc[w] \in Procs /\ proc[w].msg \in Msgs
      BY <1>0, <1>7 DEF Crash, ProcType
    <2>2. ProcType' /\ FaultsType'
      BY <1>0, <1>7, IdleType, SufferType DEF Crash, FaultKinds
    <2>3. flight' \subseteq Requests
      BY <1>0, <1>7, <2>1 DEF Crash, Abandon, RestType, Requests, Procs
    <2> QED
      BY <1>0, <1>7, <2>2, <2>3, TypeParts DEF Crash, RowsType, RestType
  <1>8. ASSUME NEW m \in Msgs, Age(m) \/ Stall(m) \/ MarkStale(m) PROVE TypeOK'
    <2>1. RowsType'
      <3>1. \E r \in Rows : row' = [row EXCEPT ![m] = r]
        <4>1. row[m] \in Rows
          BY <1>0 DEF RowsType
        <4>2. [row[m] EXCEPT !.stale = TRUE] \in Rows /\ [row[m] EXCEPT !.state = "uncertain"] \in Rows
          BY <4>1 DEF Rows, States
        <4>3. \/ row' = [row EXCEPT ![m] = [row[m] EXCEPT !.stale = TRUE]]
              \/ row' = [row EXCEPT ![m] = [row[m] EXCEPT !.state = "uncertain"]]
          BY <1>8 DEF Age, Stall, GrowsOld, MarkStale
        <4> QED
          BY <4>2, <4>3
      <3> QED
        BY <1>0, <3>1 DEF RowsType
    <2>2. FaultsType'
      BY <1>0, <1>8, SufferType DEF Age, Stall, MarkStale, FaultsType, FaultKinds
    <2> QED
      BY <1>0, <1>8, <2>1, <2>2, TypeParts DEF Age, Stall, GrowsOld, MarkStale, Ambient, ProcType, RestType
  <1> QED
    BY <1>2, <1>3, <1>4, <1>5, <1>6, <1>7, <1>8 DEF Remote

LEMMA NextType == TypeOK /\ [Next]_vars => TypeOK'
  <1> SUFFICES ASSUME TypeOK, [Next]_vars PROVE TypeOK'
    OBVIOUS
  <1>1. CASE UNCHANGED vars
    BY <1>1 DEF vars, TypeOK
  <1>2. ASSUME NEW w \in Workers, Worker(w) PROVE TypeOK'
    BY <1>2, OpeningType, AskingType, AnswerType, RecordingType, ClosingType DEF Worker
  <1>3. CASE Conversation \/ \E m \in Msgs : (\E n \in 0..MaxWakes : Enqueue(m, n)) \/ BecomeDue(m)
    BY <1>3, ConversationType
  <1>4. CASE Remote \/ Expire \/ Lapse \/ (\E w \in Workers : Crash(w))
               \/ \E m \in Msgs : Age(m) \/ Stall(m) \/ MarkStale(m)
    BY <1>4, OutsideType
  <1> QED
    BY <1>1, <1>2, <1>3, <1>4 DEF Next, Environment

\* Every variable of the outbox stays well typed, for any messages, workers
\* and bounds; and an attempt is only ever settled with a final state.
THEOREM TypeCorrect == Spec => []TypeOK
  BY InitType, NextType, PTL DEF Spec

-----------------------------------------------------------------------------
(* The receipt tells the truth.  The invariant says who may still change   *)
(* whether a message reaches the conversation: one attempt, or one request *)
(* adrift, and only while the row is sending or uncertain.                 *)

\* A worker between its claim and its receipt, unless it gave up judging.
Attempting(p) ==
    \/ p.pc \in {"read", "ambiguous", "call", "wait", "record", "renew", "requeue"}
    \/ p.pc = "finish" /\ p.result # "uncertain"

\* The attempt has not reached the conversation.
Untouched(p) ==
    \/ p.pc \in {"read", "ambiguous", "call", "requeue"}
    \/ p.pc = "wait" /\ (~p.landed \/ p.op = "delete")
    \/ p.pc = "record" /\ p.op = "delete"
    \/ p.pc \in {"renew", "finish"} /\ p.result # "accepted"

Open(m) == row[m].state \in {"sending", "uncertain"}

Held ==
    \A w \in Workers : Attempting(proc[w]) =>
        /\ Open(proc[w].msg)
        /\ reached[proc[w].msg] = IF Untouched(proc[w]) THEN 0 ELSE 1

Alone ==
    \A v, w \in Workers :
        Attempting(proc[v]) /\ Attempting(proc[w]) /\ proc[v].msg = proc[w].msg => v = w

Adrift ==
    \A r \in flight :
        /\ Open(r.msg)
        /\ r.op # "delete" => reached[r.msg] = 0
        /\ \A w \in Workers : Attempting(proc[w]) => proc[w].msg # r.msg

OneAdrift == \A r, s \in flight : r.msg = s.msg => r = s

ReceiptInv == Held /\ Alone /\ Adrift /\ OneAdrift /\ ReceiptTruthful

\* A worker's step that neither starts an attempt nor changes what it did.
Follows(q, p) ==
    Attempting(q) => Attempting(p) /\ q.msg = p.msg /\ (Untouched(q) <=> Untouched(p))

\* What a row's state may become without an attempt being over.
Drifts(a, b) ==
    \/ b = a
    \/ a = "absent" /\ b = "queued"
    \/ a = "queued" /\ b = "blocked"
    \/ a = "sending" /\ b = "uncertain"

Frame ==
    /\ \A m \in Msgs : Drifts(row[m].state, row'[m].state)
    /\ \A w \in Workers : Follows(proc'[w], proc[w])
    /\ UNCHANGED <<reached, flight>>

LEMMA FrameKeeps == TypeOK /\ TypeOK' /\ ReceiptInv /\ Frame => ReceiptInv'
  <1> SUFFICES ASSUME TypeOK, TypeOK', ReceiptInv, Frame PROVE ReceiptInv'
    OBVIOUS
  <1>1. \A w \in Workers : Attempting(proc[w]) => proc[w].msg \in Msgs
    BY DEF TypeOK, Attempting
  <1>2. \A r \in flight : r.msg \in Msgs
    BY DEF TypeOK, Requests
  <1>3. ASSUME NEW m \in Msgs, Open(m) PROVE Open(m)'
    BY <1>3 DEF Open, Frame, Drifts
  <1>4. Held'
    BY <1>1, <1>3 DEF ReceiptInv, Held, Frame, Follows
  <1>5. Alone'
    BY DEF ReceiptInv, Alone, Frame, Follows
  <1>6. Adrift'
    BY <1>2, <1>3 DEF ReceiptInv, Adrift, Frame, Follows
  <1>7. OneAdrift'
    BY DEF ReceiptInv, OneAdrift, Frame
  <1>8. ReceiptTruthful'
    BY DEF ReceiptInv, ReceiptTruthful, Frame, Drifts
  <1> QED
    BY <1>4, <1>5, <1>6, <1>7, <1>8 DEF ReceiptInv

LEMMA SameRows ==
    ASSUME UNCHANGED row
    PROVE  \A m \in Msgs : Drifts(row[m].state, row'[m].state)
  BY DEF Drifts

LEMMA PutDrifts ==
    ASSUME TypeOK, NEW m \in Msgs, NEW from, NEW r, Put(m, from, r),
           Drifts(from, r.state)
    PROVE  \A k \in Msgs : Drifts(row[k].state, row'[k].state)
  BY DEF TypeOK, Put, Drifts

LEMMA SweepDrifts ==
    ASSUME TypeOK, NEW s \in {"sending", "uncertain"}, Sweep("blocked", s)
    PROVE  \A m \in Msgs : Drifts(row[m].state, row'[m].state)
  <1> SUFFICES ASSUME NEW m \in Msgs PROVE Drifts(row[m].state, row'[m].state)
    OBVIOUS
  <1>1. row[m] \in Rows
    BY DEF TypeOK
  <1>2. CASE row[m].state = "queued"
    BY <1>1, <1>2 DEF Sweep, Drifts, Rows
  <1>3. CASE row[m].state = "sending"
    BY <1>1, <1>3 DEF Sweep, Drifts, Rows
  <1>4. CASE row[m].state \notin {"queued", "sending"}
    BY <1>4 DEF Sweep, Drifts
  <1> QED
    BY <1>2, <1>3, <1>4

\* Steps of the conversation, of the clock and of the lock disturb no attempt.
LEMMA QuietFrame ==
    ASSUME TypeOK,
           \/ Conversation \/ Expire \/ Lapse
           \/ \E m \in Msgs : \/ (\E n \in 0..MaxWakes : Enqueue(m, n)) \/ BecomeDue(m)
                              \/ Age(m) \/ Stall(m) \/ MarkStale(m)
    PROVE  Frame
  <1>1. UNCHANGED <<proc, reached, flight>>
    BY DEF Conversation, Archive, Disconnect, Move, Expire, Lapse, Enqueue, BecomeDue,
           Age, Stall, GrowsOld, MarkStale, Ambient
  <1>2. \A m \in Msgs : Drifts(row[m].state, row'[m].state)
    <2>1. CASE Conversation
      BY <2>1, SweepDrifts DEF Conversation, Archive, Disconnect, Move
    <2>2. CASE Expire \/ Lapse
      BY <2>2, SameRows DEF Expire, Lapse
    <2>3. ASSUME NEW m \in Msgs, NEW n \in 0..MaxWakes, Enqueue(m, n)
          PROVE  \A k \in Msgs : Drifts(row[k].state, row'[k].state)
      <3>1. row[m] \in Rows /\ row[m].state = "absent" /\ row \in [Msgs -> Rows]
        BY <2>3 DEF Enqueue, TypeOK
      <3>2. row' = [row EXCEPT ![m] = [row[m] EXCEPT !.state = "queued", !.assignment = binding.assignment]]
        BY <2>3 DEF Enqueue
      <3>3. row'[m].state = "queued" /\ \A k \in Msgs \ {m} : row'[k] = row[k]
        BY <3>1, <3>2 DEF Rows
      <3> QED
        BY <3>1, <3>3 DEF Drifts
    <2>4. ASSUME NEW m \in Msgs, BecomeDue(m) \/ Age(m) \/ Stall(m)
          PROVE  \A k \in Msgs : Drifts(row[k].state, row'[k].state)
      BY <2>4 DEF BecomeDue, Age, Stall, GrowsOld, TypeOK, Rows, Drifts
    <2>5. ASSUME NEW m \in Msgs, MarkStale(m)
          PROVE  \A k \in Msgs : Drifts(row[k].state, row'[k].state)
      BY <2>5 DEF MarkStale, TypeOK, Rows, Drifts
    <2> QED
      BY <2>1, <2>2, <2>3, <2>4, <2>5
  <1> QED
    BY <1>1, <1>2 DEF Frame, Follows

\* Before the claim, and when the lock is released, there is no attempt.
LEMMA OpeningFrame ==
    ASSUME TypeOK, NEW w \in Workers,
           (\E m \in Msgs : Begin(w, m)) \/ Acquire(w) \/ Defer(w) \/ Release(w)
    PROVE  Frame
  <1>1. UNCHANGED <<reached, flight>>
    BY DEF Begin, Acquire, Defer, Release, Ambient
  <1>2. \A v \in Workers : Follows(proc'[v], proc[v])
    <2>1. \A v \in Workers : proc'[v] = proc[v] \/ proc'[v].pc \in {"lock", "claim", "idle"}
      <3>1. proc \in [Workers -> Procs]
        BY DEF TypeOK
      <3>2. \E p : /\ proc' = proc \/ proc' = [proc EXCEPT ![w] = p]
                   /\ p.pc \in {"lock", "claim", "idle"}
        <4>1. ASSUME NEW m \in Msgs, Begin(w, m)
              PROVE  proc' = proc \/ proc' = [proc EXCEPT ![w] = [Idle EXCEPT !.pc = "lock", !.msg = m]]
          BY <4>1 DEF Begin, Step
        <4>2. [proc[w] EXCEPT !.pc = "claim"].pc = "claim" /\ Idle.pc = "idle"
          BY <3>1 DEF Procs, Idle
        <4>3. \A m \in Msgs : [Idle EXCEPT !.pc = "lock", !.msg = m].pc = "lock"
          BY DEF Idle
        <4>4. CASE Acquire(w)
          BY <4>2, <4>4 DEF Acquire, Goto, Step
        <4>5. CASE Defer(w) \/ Release(w)
          BY <4>2, <4>5 DEF Defer, Release, Step
        <4> QED
          BY <4>1, <4>3, <4>4, <4>5
      <3> QED
        BY <3>1, <3>2
    <2> QED
      BY <2>1 DEF Follows, Attempting
  <1>3. \A m \in Msgs : Drifts(row[m].state, row'[m].state)
    <2>1. ASSUME NEW m \in Msgs, Begin(w, m)
          PROVE  \A k \in Msgs : Drifts(row[k].state, row'[k].state)
      <3>1. UNCHANGED row \/ Put(m, "queued", [row[m] EXCEPT !.state = "blocked"])
        BY <2>1 DEF Begin
      <3>2. [row[m] EXCEPT !.state = "blocked"].state = "blocked"
        BY DEF TypeOK, Rows
      <3> QED
        BY <3>1, <3>2, SameRows, PutDrifts DEF Drifts
    <2>2. CASE Acquire(w) \/ Release(w)
      BY <2>2, SameRows DEF Acquire, Release
    <2>3. CASE Defer(w)
      <3>1. proc[w].msg \in Msgs
        BY <2>3 DEF Defer, TypeOK
      <3>2. Later(proc[w].msg).state = "queued"
        BY <3>1 DEF TypeOK, Rows, Later
      <3> QED
        BY <2>3, <3>1, <3>2, PutDrifts DEF Defer, Drifts
    <2> QED
      BY <2>1, <2>2, <2>3
  <1> QED
    BY <1>1, <1>2, <1>3 DEF Frame

\* A lifecycle delivery never deletes.
OpsFit ==
    \A w \in Workers :
        proc[w].pc \in {"call", "wait", "record"} /\ proc[w].op = "delete"
        => Kind(proc[w].msg) # "lifecycle"

\* Within an attempt nothing happens to the conversation but what Land does.
LEMMA ProjectingFrame ==
    ASSUME TypeOK, OpsFit, NEW w \in Workers,
           \/ ReadStatus(w) \/ CheckAmbiguous(w) \/ ReadWorking(w) \/ Send(w)
           \/ Answered(w) \/ Rejected(w) \/ RateLimited(w)
           \/ RecordStatus(w) \/ RecordWorking(w) \/ Errs(w) \/ Renew(w)
    PROVE  Frame
  <1>1. UNCHANGED <<row, reached, flight>>
    BY DEF ReadStatus, CheckAmbiguous, ReadWorking, Send, Answered, Rejected, RateLimited,
           RecordStatus, RecordWorking, Errs, Renew, Ambient
  <1>2. proc[w] \in Procs /\ proc \in [Workers -> Procs]
    BY DEF TypeOK
  <1>3. Follows(proc'[w], proc[w])
    <2> DEFINE old == proc[w]
               new == proc'[w]
    <2>1. CASE ReadStatus(w) \/ CheckAmbiguous(w) \/ ReadWorking(w)
      <3>1. old.pc \in {"read", "ambiguous"}
        BY <2>1 DEF ReadStatus, CheckAmbiguous, ReadWorking
      <3>2. \/ Goto(w, "ambiguous") \/ Skips(w) \/ Ends(w, "blocked")
            \/ \E op, post : Calls(w, op, post)
        BY <2>1 DEF ReadStatus, CheckAmbiguous, ReadWorking
      <3>3. /\ new.msg = old.msg
            /\ \/ new.pc \in {"ambiguous", "call"}
               \/ new.pc = "renew" /\ new.result = "skipped"
               \/ new.pc = "finish" /\ new.result = "blocked"
        <4>1. CASE Goto(w, "ambiguous")
          BY <1>2, <4>1 DEF Goto, Step, Procs
        <4>2. CASE Skips(w)
          BY <1>2, <4>2 DEF Skips, Step, Procs
        <4>3. CASE Ends(w, "blocked")
          BY <1>2, <4>3 DEF Ends, Step, Procs
        <4>4. ASSUME NEW op, NEW post, Calls(w, op, post)
              PROVE  new.msg = old.msg /\ new.pc = "call"
          BY <1>2, <4>4 DEF Calls, Step, Procs
        <4> QED
          BY <3>2, <4>1, <4>2, <4>3, <4>4
      <3> QED
        BY <3>1, <3>3 DEF Follows, Attempting, Untouched
    <2>2. CASE Send(w)
      <3>1. old.pc = "call" /\ new.pc = "wait" /\ new.msg = old.msg /\ ~new.landed
        BY <1>2, <2>2 DEF Send, Step, Procs
      <3> QED
        BY <3>1 DEF Follows, Attempting, Untouched
    <2>3. CASE Answered(w)
      <3>1. old.pc = "wait" /\ old.landed /\ new.pc = "record" /\ new.msg = old.msg /\ new.op = old.op
        BY <1>2, <2>3 DEF Answered, Goto, Step, Procs
      <3> QED
        BY <3>1 DEF Follows, Attempting, Untouched
    <2>4. CASE Rejected(w) \/ RateLimited(w)
      <3>1. /\ old.pc = "wait" /\ ~old.landed /\ new.msg = old.msg
            /\ new.pc = "requeue" \/ (new.pc = "finish" /\ new.result = "rejected")
        BY <1>2, <2>4 DEF Rejected, RateLimited, Ends, Goto, Step, Procs
      <3> QED
        BY <3>1 DEF Follows, Attempting, Untouched
    <2>5. CASE RecordStatus(w)
      <3>1. old.pc = "record" /\ old.op # "delete"
        BY <2>5 DEF RecordStatus, OpsFit
      <3>2. Ends(w, "uncertain") \/ Step(w, [proc[w] EXCEPT !.pc = "renew", !.result = "accepted"])
        BY <2>5 DEF RecordStatus
      <3>3. /\ new.msg = old.msg
            /\ \/ new.pc = "renew" /\ new.result = "accepted"
               \/ new.pc = "finish" /\ new.result = "uncertain"
        <4>1. CASE Ends(w, "uncertain")
          BY <1>2, <4>1 DEF Ends, Step, Procs
        <4>2. CASE Step(w, [proc[w] EXCEPT !.pc = "renew", !.result = "accepted"])
          BY <1>2, <4>2 DEF Step, Procs
        <4> QED
          BY <3>2, <4>1, <4>2
      <3> QED
        BY <3>1, <3>3 DEF Follows, Attempting, Untouched
    <2>6. CASE RecordWorking(w)
      <3>1. old.pc = "record"
        BY <2>6 DEF RecordWorking
      <3>2. \/ old.op = "delete" /\ Step(w, [proc[w] EXCEPT !.pc = "call", !.op = "post", !.post = NoMsg])
            \/ old.op # "delete" /\ Step(w, [proc[w] EXCEPT !.pc = "renew", !.result = "accepted"])
        BY <2>6 DEF RecordWorking
      <3>3. /\ new.msg = old.msg
            /\ \/ old.op = "delete" /\ new.pc = "call"
               \/ old.op # "delete" /\ new.pc = "renew" /\ new.result = "accepted"
        BY <1>2, <3>2 DEF Step, Procs
      <3> QED
        BY <3>1, <3>3 DEF Follows, Attempting, Untouched
    <2>7. CASE Errs(w)
      <3>1. new.pc = "finish" /\ new.result = "uncertain"
        BY <1>2, <2>7 DEF Errs, Ends, Step, Procs
      <3> QED
        BY <3>1 DEF Follows, Attempting
    <2>8. CASE Renew(w)
      <3>1. /\ old.pc = "renew" /\ new.pc = "finish" /\ new.msg = old.msg
            /\ new.result = old.result \/ new.result = "uncertain"
        BY <1>2, <2>8 DEF Renew, Ends, Step, Procs
      <3> QED
        BY <3>1 DEF Follows, Attempting, Untouched
    <2> QED
      BY <2>1, <2>2, <2>3, <2>4, <2>5, <2>6, <2>7, <2>8
  <1>4. \A v \in Workers \ {w} : proc'[v] = proc[v]
    BY <1>2 DEF ReadStatus, CheckAmbiguous, ReadWorking, Send, Answered, Rejected, RateLimited,
           RecordStatus, RecordWorking, Errs, Renew, Calls, Skips, Ends, Goto, Step
  <1> QED
    BY <1>1, <1>3, <1>4, SameRows DEF Frame, Follows

\* A claim opens the only attempt.
LEMMA ClaimKeeps ==
    ASSUME TypeOK, TypeOK', ReceiptInv, NEW w \in Workers, Claim(w)
    PROVE  ReceiptInv'
  <1> DEFINE m == proc[w].msg
  <1>1. m \in Msgs /\ row \in [Msgs -> Rows] /\ proc \in [Workers -> Procs] /\ UNCHANGED <<reached, flight>>
    BY DEF Claim, TypeOK, Ambient
  <1>2. CASE proc'[w].pc = "release"
    <2>1. Goto(w, "release")
      BY <1>1, <1>2 DEF Claim, Goto, Step, Procs
    <2>2. Follows(proc'[w], proc[w]) /\ \A v \in Workers \ {w} : proc'[v] = proc[v]
      BY <1>1, <1>2, <2>1 DEF Goto, Step, Follows, Attempting
    <2>3. UNCHANGED row \/ Put(m, "queued", [row[m] EXCEPT !.state = "blocked"])
      BY <1>1, <1>2 DEF Claim, Goto, Step, Procs
    <2>4. [row[m] EXCEPT !.state = "blocked"].state = "blocked"
      BY <1>1 DEF Rows
    <2>5. \A k \in Msgs : Drifts(row[k].state, row'[k].state)
      BY <1>1, <2>3, <2>4, SameRows, PutDrifts DEF Drifts
    <2>6. Frame
      BY <1>1, <2>2, <2>5 DEF Frame, Follows
    <2> QED
      BY <2>6, FrameKeeps
  <1>3. CASE proc'[w].pc # "release"
    <2>1. /\ row[m].state = "queued" /\ proc' = [proc EXCEPT ![w] = [proc[w] EXCEPT !.pc = "read"]]
          /\ row' = [row EXCEPT ![m] = [row[m] EXCEPT !.state = "sending"]]
      BY <1>1, <1>3 DEF Claim, Goto, Step, Procs, Put
    <2>2. /\ proc'[w].pc = "read" /\ proc'[w].msg = m /\ row'[m].state = "sending"
          /\ \A v \in Workers \ {w} : proc'[v] = proc[v]
          /\ \A k \in Msgs \ {m} : row'[k] = row[k]
      BY <1>1, <2>1 DEF Procs, Rows
    <2>3. reached[m] = 0
      BY <1>1, <2>1 DEF ReceiptInv, ReceiptTruthful
    <2>4. ~Open(m)
      BY <2>1 DEF Open
    <2>5. \A v \in Workers : Attempting(proc[v]) => proc[v].msg \in Msgs \ {m}
      BY <2>4 DEF ReceiptInv, Held, TypeOK, Attempting
    <2>6. \A r \in flight : r.msg \in Msgs \ {m}
      BY <2>4 DEF ReceiptInv, Adrift, TypeOK, Requests
    <2>7. Held'
      BY <1>1, <2>2, <2>3, <2>5 DEF ReceiptInv, Held, Open, Untouched, Attempting
    <2>8. Alone'
      BY <2>2, <2>5 DEF ReceiptInv, Alone
    <2>9. Adrift' /\ OneAdrift'
      BY <1>1, <2>2, <2>6 DEF ReceiptInv, Adrift, OneAdrift, Open
    <2>10. ReceiptTruthful'
      BY <1>1, <2>2, <2>3 DEF ReceiptInv, ReceiptTruthful
    <2> QED
      BY <2>7, <2>8, <2>9, <2>10 DEF ReceiptInv
  <1> QED
    BY <1>2, <1>3

\* An attempt ends: nobody else may know of its message.
LEMMA EndingKeeps ==
    ASSUME TypeOK, TypeOK', ReceiptInv, NEW w \in Workers, NEW m \in Msgs,
           Attempting(proc[w]), proc[w].msg = m, ~Attempting(proc'[w]),
           \A v \in Workers \ {w} : proc'[v] = proc[v],
           \A k \in Msgs \ {m} : row'[k] = row[k],
           \/ row'[m].state = row[m].state
           \/ row'[m].state = "accepted" /\ ~Untouched(proc[w])
           \/ row'[m].state \in {"queued", "rejected", "blocked", "skipped"} /\ Untouched(proc[w]),
           UNCHANGED <<reached, flight>>
    PROVE  ReceiptInv'
  <1>1. Open(m) /\ reached[m] = IF Untouched(proc[w]) THEN 0 ELSE 1
    BY DEF ReceiptInv, Held
  <1>2. \A v \in Workers : Attempting(proc'[v]) => v # w /\ Attempting(proc[v]) /\ proc[v].msg \in Msgs \ {m}
    BY DEF ReceiptInv, Alone, TypeOK, Attempting
  <1>3. \A r \in flight : r.msg \in Msgs \ {m}
    BY DEF ReceiptInv, Adrift, TypeOK, Requests
  <1>4. Held'
    BY <1>2 DEF ReceiptInv, Held, Open
  <1>5. Alone'
    BY <1>2 DEF ReceiptInv, Alone
  <1>6. Adrift' /\ OneAdrift'
    BY <1>2, <1>3 DEF ReceiptInv, Adrift, OneAdrift, Open
  <1>7. ReceiptTruthful'
    BY <1>1 DEF ReceiptInv, ReceiptTruthful, Open
  <1> QED
    BY <1>4, <1>5, <1>6, <1>7 DEF ReceiptInv

\* A receipt is written, or the attempt is handed back to the queue.
LEMMA FinishKeeps ==
    ASSUME TypeOK, TypeOK', ReceiptInv, NEW w \in Workers, Finish(w)
    PROVE  ReceiptInv'
  <1> DEFINE m == proc[w].msg
             result == proc[w].result
             settled == [row[m] EXCEPT !.state = result]
  <1>1. /\ m \in Msgs /\ result \in Terminal /\ proc[w].pc = "finish"
        /\ row \in [Msgs -> Rows] /\ proc \in [Workers -> Procs]
    BY DEF Finish, TypeOK
  <1>2. settled.state = result
    BY <1>1 DEF Rows
  <1>3. UNCHANGED row \/ Put(m, "sending", settled)
    BY DEF Finish
  <1>4. UNCHANGED <<reached, flight>>
    BY DEF Finish, Ambient
  <1>5. /\ proc'[w].pc = "release" \/ (proc'[w].pc = "finish" /\ proc'[w].result = "uncertain")
        /\ \A v \in Workers \ {w} : proc'[v] = proc[v]
    <2>1. Goto(w, "release") \/ Ends(w, "uncertain")
      BY DEF Finish
    <2>2. CASE Goto(w, "release")
      BY <1>1, <2>2 DEF Goto, Step, Procs
    <2>3. CASE Ends(w, "uncertain")
      BY <1>1, <2>3 DEF Ends, Step, Procs
    <2> QED
      BY <2>1, <2>2, <2>3
  <1>6. ~Attempting(proc'[w])
    BY <1>5 DEF Attempting
  <1> HIDE DEF m, result, settled
  <1>7. CASE result = "uncertain"
    <2>1. \A k \in Msgs : Drifts(row[k].state, row'[k].state)
      BY <1>1, <1>2, <1>3, <1>7, SameRows, PutDrifts DEF Drifts
    <2>2. Frame
      BY <1>4, <1>5, <1>6, <2>1 DEF Frame, Follows
    <2> QED
      BY <2>2, FrameKeeps
  <1>8. CASE result # "uncertain"
    <2>1. Attempting(proc[w]) /\ proc[w].msg = m
      BY <1>1, <1>8 DEF Attempting, m, result
    <2>2. Untouched(proc[w]) <=> result # "accepted"
      BY <1>1 DEF Untouched, result
    <2>3. \A k \in Msgs \ {m} : row'[k] = row[k]
      BY <1>1, <1>3 DEF Put
    <2>4. row'[m].state = row[m].state \/ row'[m].state = result
      BY <1>1, <1>2, <1>3 DEF Put
    <2>5. result \in {"accepted", "rejected", "blocked", "skipped"}
      BY <1>1, <1>8 DEF Terminal
    <2> QED
      BY <1>1, <1>4, <1>5, <1>6, <2>1, <2>2, <2>3, <2>4, <2>5, EndingKeeps
  <1> QED
    BY <1>7, <1>8

LEMMA RequeueKeeps ==
    ASSUME TypeOK, TypeOK', ReceiptInv, NEW w \in Workers, Requeue(w)
    PROVE  ReceiptInv'
  <1> DEFINE m == proc[w].msg
  <1>1. /\ m \in Msgs /\ proc[w].pc = "requeue"
        /\ row \in [Msgs -> Rows] /\ proc \in [Workers -> Procs]
    BY DEF Requeue, TypeOK
  <1>2. Later(m).state = "queued"
    BY <1>1 DEF Rows, Later
  <1>3. UNCHANGED row \/ Put(m, "sending", Later(m))
    BY DEF Requeue
  <1>4. UNCHANGED <<reached, flight>> /\ Goto(w, "release")
    BY DEF Requeue, Ambient
  <1>5. proc'[w].pc = "release" /\ \A v \in Workers \ {w} : proc'[v] = proc[v]
    BY <1>1, <1>4 DEF Goto, Step, Procs
  <1>6. Attempting(proc[w]) /\ Untouched(proc[w]) /\ ~Attempting(proc'[w])
    BY <1>1, <1>5 DEF Attempting, Untouched
  <1> HIDE DEF m
  <1>7. \A k \in Msgs \ {m} : row'[k] = row[k]
    BY <1>1, <1>3 DEF Put
  <1>8. row'[m].state = row[m].state \/ row'[m].state = "queued"
    BY <1>1, <1>2, <1>3 DEF Put
  <1>9. proc[w].msg = m
    BY DEF m
  <1> QED
    BY <1>1, <1>4, <1>5, <1>6, <1>7, <1>8, <1>9, EndingKeeps

\* A worker gives up on its request, or dies: the request may be adrift.
LEMMA AbandonKeeps ==
    ASSUME TypeOK, TypeOK', ReceiptInv, NEW w \in Workers, Lost(w) \/ Crash(w)
    PROVE  ReceiptInv'
  <1> DEFINE m == proc[w].msg
             r == [msg |-> m, op |-> proc[w].op, post |-> proc[w].post]
  <1>1. /\ m \in Msgs /\ proc \in [Workers -> Procs] /\ flight \subseteq Requests
        /\ UNCHANGED <<row, reached>>
    BY DEF Lost, Crash, TypeOK
  <1>2. ~Attempting(proc'[w]) /\ \A v \in Workers \ {w} : proc'[v] = proc[v]
    <2>1. CASE Lost(w)
      <3>1. Ends(w, "uncertain")
        BY <2>1 DEF Lost
      <3>2. proc'[w].pc = "finish" /\ proc'[w].result = "uncertain" /\ \A v \in Workers \ {w} : proc'[v] = proc[v]
        BY <1>1, <3>1 DEF Ends, Step, Procs
      <3> QED
        BY <3>2 DEF Attempting
    <2>2. CASE Crash(w)
      <3>1. Step(w, Idle)
        BY <2>2 DEF Crash
      <3>2. proc'[w].pc = "idle" /\ \A v \in Workers \ {w} : proc'[v] = proc[v]
        BY <1>1, <3>1 DEF Step, Idle
      <3> QED
        BY <3>2 DEF Attempting
    <2> QED
      BY <2>1, <2>2
  <1>3. CASE flight' = flight
    <2>1. Frame
      BY <1>1, <1>2, <1>3, SameRows DEF Frame, Follows
    <2> QED
      BY <2>1, FrameKeeps
  <1>4. CASE flight' # flight
    <2>1. proc[w].pc = "wait" /\ ~proc[w].landed /\ flight' = flight \union {r}
      BY <1>4 DEF Lost, Crash, Abandon
    <2>2. Attempting(proc[w]) /\ Untouched(proc[w])
      BY <2>1 DEF Attempting, Untouched
    <2>3. Open(m) /\ reached[m] = 0 /\ r.msg = m
      BY <2>2 DEF ReceiptInv, Held
    <2> HIDE DEF r
    <2>4. \A v \in Workers : Attempting(proc'[v]) =>
            v # w /\ Attempting(proc[v]) /\ proc'[v] = proc[v] /\ proc[v].msg # m
      BY <1>2, <2>2 DEF ReceiptInv, Alone
    <2>5. \A q \in flight : q.msg # m
      BY <2>2 DEF ReceiptInv, Adrift
    <2>6. \A k : Open(k)' <=> Open(k)
      BY <1>1 DEF Open
    <2>7. Held'
      BY <1>1, <2>4, <2>6 DEF ReceiptInv, Held
    <2>8. Alone'
      BY <2>4 DEF ReceiptInv, Alone
    <2>9. Adrift'
      BY <1>1, <2>1, <2>3, <2>4, <2>6 DEF ReceiptInv, Adrift
    <2>10. OneAdrift'
      BY <2>1, <2>3, <2>5 DEF ReceiptInv, OneAdrift
    <2>11. ReceiptTruthful'
      BY <1>1 DEF ReceiptInv, ReceiptTruthful
    <2> QED
      BY <2>7, <2>8, <2>9, <2>10, <2>11 DEF ReceiptInv
  <1> QED
    BY <1>3, <1>4

\* What lands is either a deletion or the content of its one message.
LEMMA LandsReaches ==
    ASSUME TypeOK, NEW m \in Msgs, NEW op \in {"post", "update", "delete"}, NEW post, Lands(m, op, post)
    PROVE  /\ op = "delete" => UNCHANGED reached
           /\ op # "delete" => reached' = [reached EXCEPT ![m] = @ + 1]
  BY DEF Lands

\* The worker's own request lands.
LEMMA LandKeeps ==
    ASSUME TypeOK, TypeOK', ReceiptInv, NEW w \in Workers, Land(w)
    PROVE  ReceiptInv'
  <1> DEFINE m == proc[w].msg
  <1>1. /\ m \in Msgs /\ proc \in [Workers -> Procs] /\ flight \subseteq Requests
        /\ proc[w].pc = "wait" /\ ~proc[w].landed /\ proc[w].op \in {"post", "update", "delete"}
        /\ reached \in [Msgs -> Nat]
    BY DEF Land, TypeOK, Procs
  <1>2. UNCHANGED <<row, flight>>
    BY DEF Land
  <1>3. /\ proc'[w].pc = "wait" /\ proc'[w].msg = m /\ proc'[w].landed /\ proc'[w].op = proc[w].op
        /\ \A v \in Workers \ {w} : proc'[v] = proc[v]
    BY <1>1 DEF Land, Step, Procs
  <1>4. Attempting(proc[w]) /\ Untouched(proc[w]) /\ Attempting(proc'[w])
    BY <1>1, <1>3 DEF Attempting, Untouched
  <1>5. Open(m) /\ reached[m] = 0
    BY <1>4 DEF ReceiptInv, Held
  <1>6. Untouched(proc'[w]) <=> proc[w].op = "delete"
    BY <1>3 DEF Untouched
  <1>7. /\ proc[w].op = "delete" => UNCHANGED reached
        /\ proc[w].op # "delete" => reached' = [reached EXCEPT ![m] = reached[m] + 1]
    <2>1. Lands(m, proc[w].op, proc[w].post)
      BY DEF Land
    <2> QED
      BY <1>1, <2>1, LandsReaches
  <1>8. CASE proc[w].op = "delete"
    <2>1. Frame
      BY <1>2, <1>3, <1>4, <1>6, <1>7, <1>8, SameRows DEF Frame, Follows
    <2> QED
      BY <2>1, FrameKeeps
  <1>9. CASE proc[w].op # "delete"
    <2>1. reached'[m] = 1 /\ \A k \in Msgs \ {m} : reached'[k] = reached[k]
      BY <1>1, <1>5, <1>7, <1>9
    <2>2. \A v \in Workers : Attempting(proc'[v]) <=> Attempting(proc[v])
      BY <1>3, <1>4
    <2>3. \A v \in Workers : proc'[v].msg = proc[v].msg
      BY <1>3
    <2>4. \A v \in Workers \ {w} : Attempting(proc[v]) => proc[v].msg \in Msgs \ {m}
      BY <1>4 DEF ReceiptInv, Alone, TypeOK, Attempting
    <2>5. \A q \in flight : q.msg \in Msgs \ {m}
      BY <1>1, <1>4 DEF ReceiptInv, Adrift, Requests
    <2>6. \A k : Open(k)' <=> Open(k)
      BY <1>2 DEF Open
    <2> HIDE DEF m
    <2>7. Held'
      <3> SUFFICES ASSUME NEW v \in Workers, Attempting(proc'[v])
                   PROVE  /\ row'[proc'[v].msg].state \in {"sending", "uncertain"}
                          /\ reached'[proc'[v].msg] = IF Untouched(proc'[v]) THEN 0 ELSE 1
        BY DEF Held, Open
      <3>1. CASE v = w
        BY <1>2, <1>3, <1>5, <1>6, <1>9, <2>1, <3>1 DEF Open
      <3>2. CASE v # w
        BY <1>2, <1>3, <2>1, <2>4, <3>2 DEF ReceiptInv, Held, Open
      <3> QED
        BY <3>1, <3>2
    <2>8. Alone'
      BY <2>2, <2>3 DEF ReceiptInv, Alone
    <2>9. Adrift' /\ OneAdrift'
      BY <1>2, <2>1, <2>2, <2>3, <2>5, <2>6 DEF ReceiptInv, Adrift, OneAdrift
    <2>10. ReceiptTruthful'
      BY <1>1, <1>2, <1>5, <2>1 DEF ReceiptInv, ReceiptTruthful, Open
    <2> QED
      BY <2>7, <2>8, <2>9, <2>10 DEF ReceiptInv
  <1> QED
    BY <1>8, <1>9

\* A request adrift lands or is lost.
LEMMA LateKeeps ==
    ASSUME TypeOK, TypeOK', ReceiptInv, NEW r \in flight, LateLand(r) \/ Vanish(r)
    PROVE  ReceiptInv'
  <1>1. /\ r.msg \in Msgs /\ r.op \in {"post", "update", "delete"} /\ flight \subseteq Requests
        /\ reached \in [Msgs -> Nat]
    BY DEF TypeOK, Requests
  <1>2. UNCHANGED <<row, proc>> /\ flight' = flight \ {r}
    BY DEF LateLand, Vanish
  <1>3. Open(r.msg) /\ \A w \in Workers : Attempting(proc[w]) => proc[w].msg # r.msg
    BY DEF ReceiptInv, Adrift
  <1>4. \A q \in flight' : q \in flight /\ q.msg \in Msgs \ {r.msg}
    BY <1>1, <1>2 DEF ReceiptInv, OneAdrift, Requests
  <1>5. \/ UNCHANGED reached
        \/ reached[r.msg] = 0 /\ reached' = [reached EXCEPT ![r.msg] = reached[r.msg] + 1]
    <2>1. CASE LateLand(r)
      <3>1. Lands(r.msg, r.op, r.post)
        BY <2>1 DEF LateLand
      <3>2. r.op # "delete" => reached[r.msg] = 0
        BY DEF ReceiptInv, Adrift
      <3> QED
        BY <1>1, <3>1, <3>2, LandsReaches
    <2>2. CASE Vanish(r)
      BY <2>2 DEF Vanish
    <2> QED
      BY <2>1, <2>2
  <1>6. /\ \A k \in Msgs \ {r.msg} : reached'[k] = reached[k]
        /\ reached'[r.msg] = reached[r.msg] \/ (reached[r.msg] = 0 /\ reached'[r.msg] = 1)
    BY <1>1, <1>5
  <1>7. \A w \in Workers : Attempting(proc[w]) => proc[w].msg \in Msgs \ {r.msg}
    BY <1>3 DEF TypeOK, Attempting
  <1>8. \A k : Open(k)' <=> Open(k)
    BY <1>2 DEF Open
  <1>9. Held'
    BY <1>2, <1>6, <1>7, <1>8 DEF ReceiptInv, Held
  <1>10. Alone'
    BY <1>2 DEF ReceiptInv, Alone
  <1>11. Adrift' /\ OneAdrift'
    BY <1>2, <1>4, <1>6, <1>8 DEF ReceiptInv, Adrift, OneAdrift
  <1>12. ReceiptTruthful'
    BY <1>1, <1>2, <1>3, <1>6 DEF ReceiptInv, ReceiptTruthful, Open
  <1> QED
    BY <1>9, <1>10, <1>11, <1>12 DEF ReceiptInv

\* Nothing changes a message's kind.
KindsStay == \A m \in Msgs : row'[m].kind = row[m].kind

LEMMA PutKind ==
    ASSUME TypeOK, NEW m \in Msgs, NEW from, NEW r, Put(m, from, r), r.kind = row[m].kind
    PROVE  KindsStay
  BY DEF TypeOK, Put, KindsStay

LEMMA SweepKind ==
    ASSUME TypeOK, NEW q, NEW s, Sweep(q, s)
    PROVE  KindsStay
  <1> SUFFICES ASSUME NEW m \in Msgs PROVE row'[m].kind = row[m].kind
    BY DEF KindsStay
  <1>1. row[m] \in Rows
    BY DEF TypeOK
  <1>2. CASE row[m].state = "queued"
    BY <1>1, <1>2 DEF Sweep, Rows
  <1>3. CASE row[m].state = "sending"
    BY <1>1, <1>3 DEF Sweep, Rows
  <1>4. CASE row[m].state \notin {"queued", "sending"}
    BY <1>4 DEF Sweep
  <1> QED
    BY <1>2, <1>3, <1>4

LEMMA KindsKept == TypeOK /\ [Next]_vars => KindsStay
  <1> SUFFICES ASSUME TypeOK, [Next]_vars PROVE KindsStay
    OBVIOUS
  <1>1. row \in [Msgs -> Rows]
    BY DEF TypeOK
  <1>2. ASSUME NEW m \in Msgs
        PROVE  /\ Later(m).kind = row[m].kind
               /\ \A s : [row[m] EXCEPT !.state = s].kind = row[m].kind
               /\ [row[m] EXCEPT !.stale = TRUE].kind = row[m].kind
               /\ [row[m] EXCEPT !.due = "now"].kind = row[m].kind
               /\ [row[m] EXCEPT !.state = "queued", !.assignment = binding.assignment].kind = row[m].kind
    BY <1>1 DEF Rows, Later
  <1>3. CASE UNCHANGED row
    BY <1>3 DEF KindsStay
  <1>4. ASSUME NEW w \in Workers, Worker(w) PROVE KindsStay
    <2>1. ASSUME NEW m \in Msgs, Begin(w, m) PROVE KindsStay
      BY <1>2, <1>3, <2>1, PutKind DEF Begin
    <2>2. CASE Defer(w)
      BY <1>2, <2>2, PutKind DEF Defer, TypeOK
    <2>3. CASE Claim(w)
      <3>1. proc[w].msg \in Msgs
        BY <2>3 DEF Claim, TypeOK
      <3> QED
        BY <1>2, <1>3, <2>3, <3>1, PutKind DEF Claim
    <2>4. CASE Finish(w)
      <3>1. proc[w].msg \in Msgs
        BY <2>4 DEF Finish, TypeOK
      <3> QED
        BY <1>2, <1>3, <2>4, <3>1, PutKind DEF Finish
    <2>5. CASE Requeue(w)
      <3>1. proc[w].msg \in Msgs
        BY <2>5 DEF Requeue, TypeOK
      <3> QED
        BY <1>2, <1>3, <2>5, <3>1, PutKind DEF Requeue
    <2>6. CASE UNCHANGED row
      BY <1>3, <2>6
    <2> QED
      BY <1>4, <2>1, <2>2, <2>3, <2>4, <2>5, <2>6
         DEF Worker, Acquire, ReadStatus, CheckAmbiguous, ReadWorking, Send, Answered, Rejected,
             RateLimited, Lost, RecordStatus, RecordWorking, Errs, Renew, Release
  <1>5. CASE Conversation
    BY <1>5, SweepKind DEF Conversation, Archive, Disconnect, Move
  <1>6. CASE Remote
    BY <1>3, <1>6 DEF Remote, Land, LateLand, Vanish
  <1>7. CASE Environment
    <2>1. ASSUME NEW m \in Msgs, NEW n, Enqueue(m, n) PROVE KindsStay
      <3>1. row' = [row EXCEPT ![m] = [row[m] EXCEPT !.state = "queued", !.assignment = binding.assignment]]
        BY <2>1 DEF Enqueue
      <3> QED
        BY <1>1, <1>2, <3>1 DEF KindsStay
    <2>2. ASSUME NEW m \in Msgs, BecomeDue(m) \/ Age(m) \/ Stall(m) \/ MarkStale(m) PROVE KindsStay
      <3>1. \/ row' = [row EXCEPT ![m] = [row[m] EXCEPT !.due = "now"]]
            \/ row' = [row EXCEPT ![m] = [row[m] EXCEPT !.stale = TRUE]]
            \/ row' = [row EXCEPT ![m] = [row[m] EXCEPT !.state = "uncertain"]]
        BY <2>2 DEF BecomeDue, Age, Stall, GrowsOld, MarkStale
      <3>2. \E r : r.kind = row[m].kind /\ row' = [row EXCEPT ![m] = r]
        BY <1>2, <3>1
      <3> QED
        BY <1>1, <3>2 DEF KindsStay
    <2>3. CASE Expire \/ Lapse \/ \E w \in Workers : Crash(w)
      BY <1>3, <2>3 DEF Expire, Lapse, Crash
    <2> QED
      BY <1>7, <2>1, <2>2, <2>3 DEF Environment
  <1> QED
    BY <1>3, <1>4, <1>5, <1>6, <1>7 DEF Next, vars

\* A deletion is only ever asked for by a message of the activity post.
LEMMA NextOpsFit == TypeOK /\ OpsFit /\ [Next]_vars => OpsFit'
  <1> SUFFICES ASSUME TypeOK, OpsFit, [Next]_vars PROVE OpsFit'
    OBVIOUS
  <1>1. KindsStay
    BY KindsKept
  <1>2. proc \in [Workers -> Procs] /\ \A v \in Workers : proc[v].pc # "idle" => proc[v].msg \in Msgs
    BY DEF TypeOK
  <1> DEFINE Busy(p) == p.pc \in {"call", "wait", "record"} /\ p.op = "delete"
             Same(p, q) == Busy(q) => Busy(p) /\ p.msg = q.msg
  <1>3. CASE \A v \in Workers : Same(proc[v], proc'[v])
    BY <1>1, <1>2, <1>3 DEF OpsFit, Kind, KindsStay
  <1>4. CASE UNCHANGED proc
    BY <1>3, <1>4
  <1>5. ASSUME NEW w \in Workers, NEW p, Step(w, p), Same(proc[w], p) PROVE OpsFit'
    <2>1. proc'[w] = p /\ \A v \in Workers \ {w} : proc'[v] = proc[v]
      BY <1>2, <1>5 DEF Step
    <2> QED
      BY <1>3, <1>5, <2>1
  <1>6. ASSUME NEW w \in Workers, NEW pc, Goto(w, pc), pc \notin {"call", "wait", "record"}
        PROVE  OpsFit'
    <2>1. [proc[w] EXCEPT !.pc = pc].pc = pc
      BY <1>2 DEF Procs
    <2> QED
      BY <1>5, <1>6, <2>1 DEF Goto
  <1>7. ASSUME NEW w \in Workers, NEW result, Ends(w, result) PROVE OpsFit'
    <2>1. [proc[w] EXCEPT !.pc = "finish", !.result = result].pc = "finish"
      BY <1>2 DEF Procs
    <2> QED
      BY <1>5, <1>7, <2>1 DEF Ends
  <1>8. ASSUME NEW w \in Workers, NEW result, Step(w, [proc[w] EXCEPT !.pc = "renew", !.result = result])
        PROVE  OpsFit'
    <2>1. [proc[w] EXCEPT !.pc = "renew", !.result = result].pc = "renew"
      BY <1>2 DEF Procs
    <2> QED
      BY <1>5, <1>8, <2>1
  <1>9. ASSUME NEW w \in Workers, NEW op, NEW post, Calls(w, op, post), op # "delete" PROVE OpsFit'
    <2>1. [proc[w] EXCEPT !.pc = "call", !.op = op, !.post = post].op = op
      BY <1>2 DEF Procs
    <2> QED
      BY <1>5, <1>9, <2>1 DEF Calls
  <1>10. ASSUME NEW w \in Workers, Step(w, Idle) PROVE OpsFit'
    BY <1>5, <1>10 DEF Idle
  <1>11. ASSUME NEW w \in Workers, Worker(w) PROVE OpsFit'
    <2>1. ASSUME NEW m \in Msgs, Begin(w, m) PROVE OpsFit'
      <3>1. UNCHANGED proc \/ Step(w, [Idle EXCEPT !.pc = "lock", !.msg = m])
        BY <2>1 DEF Begin
      <3>2. [Idle EXCEPT !.pc = "lock", !.msg = m].pc = "lock"
        BY DEF Idle
      <3> QED
        BY <1>4, <1>5, <3>1, <3>2
    <2>2. CASE Acquire(w) \/ Claim(w) \/ RateLimited(w) \/ Requeue(w)
      BY <1>6, <2>2 DEF Acquire, Claim, RateLimited, Requeue
    <2>3. CASE Defer(w) \/ Release(w)
      BY <1>10, <2>3 DEF Defer, Release
    <2>4. CASE ReadStatus(w) \/ CheckAmbiguous(w)
      BY <1>6, <1>7, <1>8, <1>9, <2>4 DEF ReadStatus, CheckAmbiguous, Skips
    <2>5. CASE ReadWorking(w)
      <3>1. Kind(proc[w].msg) # "lifecycle" /\ proc[w].msg \in Msgs
        BY <1>2, <2>5 DEF ReadWorking
      <3>2. CASE Calls(w, "delete", working)
        <4>1. proc'[w].msg = proc[w].msg /\ \A v \in Workers \ {w} : proc'[v] = proc[v]
          BY <1>2, <3>2 DEF Calls, Step, Procs
        <4> QED
          BY <1>1, <1>2, <3>1, <4>1 DEF OpsFit, Kind, KindsStay
      <3> QED
        BY <1>8, <1>9, <2>5, <3>2 DEF ReadWorking, Skips
    <2>6. CASE Send(w)
      <3>1. Step(w, [proc[w] EXCEPT !.pc = "wait", !.landed = FALSE]) /\ proc[w].pc = "call"
        BY <2>6 DEF Send
      <3>2. /\ [proc[w] EXCEPT !.pc = "wait", !.landed = FALSE].op = proc[w].op
            /\ [proc[w] EXCEPT !.pc = "wait", !.landed = FALSE].msg = proc[w].msg
        BY <1>2 DEF Procs
      <3> QED
        BY <1>5, <3>1, <3>2
    <2>7. CASE Answered(w)
      <3>1. Step(w, [proc[w] EXCEPT !.pc = "record"]) /\ proc[w].pc = "wait"
        BY <2>7 DEF Answered, Goto
      <3>2. /\ [proc[w] EXCEPT !.pc = "record"].op = proc[w].op
            /\ [proc[w] EXCEPT !.pc = "record"].msg = proc[w].msg
        BY <1>2 DEF Procs
      <3> QED
        BY <1>5, <3>1, <3>2
    <2>8. CASE Rejected(w) \/ Lost(w) \/ RecordStatus(w) \/ Errs(w) \/ Renew(w)
      BY <1>7, <1>8, <2>8 DEF Rejected, Lost, RecordStatus, Errs, Renew
    <2>9. CASE RecordWorking(w)
      <3>1. Calls(w, "post", NoMsg) \/ Step(w, [proc[w] EXCEPT !.pc = "renew", !.result = "accepted"])
        BY <2>9 DEF RecordWorking, Calls
      <3> QED
        BY <1>8, <1>9, <3>1
    <2>10. CASE Finish(w)
      BY <1>6, <1>7, <2>10 DEF Finish
    <2> QED
      BY <1>11, <2>1, <2>2, <2>3, <2>4, <2>5, <2>6, <2>7, <2>8, <2>9, <2>10 DEF Worker
  <1>12. ASSUME NEW w \in Workers, Land(w) PROVE OpsFit'
    <2>1. Step(w, [proc[w] EXCEPT !.landed = TRUE]) /\ proc[w].pc = "wait"
      BY <1>12 DEF Land
    <2>2. /\ [proc[w] EXCEPT !.landed = TRUE].op = proc[w].op
          /\ [proc[w] EXCEPT !.landed = TRUE].msg = proc[w].msg
      BY <1>2 DEF Procs
    <2> QED
      BY <1>5, <2>1, <2>2
  <1>13. ASSUME NEW w \in Workers, Crash(w) PROVE OpsFit'
    BY <1>10, <1>13 DEF Crash
  <1>14. CASE UNCHANGED vars
    BY <1>4, <1>14 DEF vars
  <1>15. CASE Conversation
    BY <1>4, <1>15 DEF Conversation, Archive, Disconnect, Move
  <1>16. ASSUME NEW r, LateLand(r) \/ Vanish(r) PROVE OpsFit'
    BY <1>4, <1>16 DEF LateLand, Vanish
  <1>17. ASSUME NEW m \in Msgs, NEW n,
                Enqueue(m, n) \/ BecomeDue(m) \/ Age(m) \/ Stall(m) \/ MarkStale(m)
         PROVE  OpsFit'
    BY <1>4, <1>17 DEF Enqueue, BecomeDue, Age, Stall, GrowsOld, MarkStale
  <1>18. CASE Expire \/ Lapse
    BY <1>4, <1>18 DEF Expire, Lapse
  <1> HIDE DEF Busy, Same
  <1> QED
    BY <1>11, <1>12, <1>13, <1>14, <1>15, <1>16, <1>17, <1>18 DEF Next, Remote, Environment

-----------------------------------------------------------------------------
LEMMA InitReceipt == Init => OpsFit /\ ReceiptInv
  <1> SUFFICES ASSUME Init PROVE OpsFit /\ ReceiptInv
    OBVIOUS
  <1>1. \A w \in Workers : proc[w].pc = "idle"
    BY DEF Init, Idle
  <1>2. \A m \in Msgs : row[m].state = "absent" /\ reached[m] = 0
    BY DEF Init
  <1>3. flight = {}
    BY DEF Init
  <1> QED
    BY <1>1, <1>2, <1>3 DEF OpsFit, ReceiptInv, Held, Alone, Adrift, OneAdrift, ReceiptTruthful, Attempting

LEMMA NextReceipt == TypeOK /\ TypeOK' /\ OpsFit /\ ReceiptInv /\ [Next]_vars => ReceiptInv'
  <1> SUFFICES ASSUME TypeOK, TypeOK', OpsFit, ReceiptInv, [Next]_vars PROVE ReceiptInv'
    OBVIOUS
  <1>1. CASE Frame
    BY <1>1, FrameKeeps
  <1>2. CASE UNCHANGED vars
    <2>1. Frame
      BY <1>2, SameRows DEF vars, Frame, Follows
    <2> QED
      BY <1>1, <2>1
  <1>3. ASSUME NEW w \in Workers, Worker(w) PROVE ReceiptInv'
    <2>1. CASE (\E m \in Msgs : Begin(w, m)) \/ Acquire(w) \/ Defer(w) \/ Release(w)
      BY <1>1, <2>1, OpeningFrame
    <2>2. CASE \/ ReadStatus(w) \/ CheckAmbiguous(w) \/ ReadWorking(w) \/ Send(w)
               \/ Answered(w) \/ Rejected(w) \/ RateLimited(w)
               \/ RecordStatus(w) \/ RecordWorking(w) \/ Errs(w) \/ Renew(w)
      BY <1>1, <2>2, ProjectingFrame
    <2>3. CASE Claim(w)
      BY <2>3, ClaimKeeps
    <2>4. CASE Finish(w)
      BY <2>4, FinishKeeps
    <2>5. CASE Requeue(w)
      BY <2>5, RequeueKeeps
    <2>6. CASE Lost(w)
      BY <2>6, AbandonKeeps
    <2> QED
      BY <1>3, <2>1, <2>2, <2>3, <2>4, <2>5, <2>6 DEF Worker
  <1>4. CASE \/ Conversation \/ Expire \/ Lapse
             \/ \E m \in Msgs : \/ (\E n \in 0..MaxWakes : Enqueue(m, n)) \/ BecomeDue(m)
                                \/ Age(m) \/ Stall(m) \/ MarkStale(m)
    BY <1>1, <1>4, QuietFrame
  <1>5. CASE Remote
    BY <1>5, LandKeeps, LateKeeps DEF Remote
  <1>6. ASSUME NEW w \in Workers, Crash(w) PROVE ReceiptInv'
    BY <1>6, AbandonKeeps
  <1> QED
    BY <1>2, <1>3, <1>4, <1>5, <1>6 DEF Next, Environment

\* The receipt tells the truth, for any messages, workers and bounds on
\* faults: an accepted delivery reached the conversation exactly once, one
\* that is queued, rejected, blocked or skipped never did, and none twice.
THEOREM ReceiptsTellTheTruth == Spec => []ReceiptTruthful
  <1>1. Init => TypeOK /\ OpsFit /\ ReceiptInv
    BY InitType, InitReceipt
  <1>2. TypeOK /\ OpsFit /\ ReceiptInv /\ [Next]_vars => (TypeOK /\ OpsFit /\ ReceiptInv)'
    BY NextType, NextOpsFit, NextReceipt
  <1>3. ReceiptInv => ReceiptTruthful
    BY DEF ReceiptInv
  <1> QED
    BY <1>1, <1>2, <1>3, PTL DEF Spec

-----------------------------------------------------------------------------
(* The outbox implements DeliveryReceipt.                                  *)

Receipt(m) == IF row[m].state = "absent" THEN "none" ELSE row[m].state

\* What becomes of a receipt when its delivery is settled.
Settles(m) ==
    \/ row'[m].state = row[m].state
    \/ row[m].state = "queued"  /\ row'[m].state = "blocked"
    \/ row[m].state = "sending" /\ row'[m].state = "uncertain"
    \/ row[m].state = "sending" /\ row'[m].state = "accepted" /\ reached[m] = 1
    \/ row[m].state = "sending" /\ row'[m].state \in {"rejected", "blocked", "skipped"} /\ reached[m] = 0

Promised == [Receipts!Next]_(Receipts!vars)

LEMMA StutterPromised ==
    ASSUME UNCHANGED <<row, reached>>
    PROVE  Promised
  BY DEF Promised, Receipts!vars

LEMMA SettlePromised ==
    ASSUME TypeOK, TypeOK', UNCHANGED reached, \A m \in Msgs : Settles(m)
    PROVE  Promised
  <1> DEFINE old == [m \in Msgs |-> Receipt(m)]
             new == [m \in Msgs |-> Receipt(m)']
  <1>1. \A m \in Msgs : row[m].state \in States /\ row'[m].state \in States
    BY DEF TypeOK, Rows
  <1>2. new \in [Msgs -> {"none", "queued", "sending", "accepted", "rejected", "uncertain", "blocked", "skipped"}]
    BY <1>1 DEF Receipt, States
  <1>3. \A m \in Msgs : new[m] # old[m] =>
             \/ old[m] = "queued"  /\ new[m] = "blocked"
             \/ old[m] = "sending" /\ new[m] = "uncertain"
             \/ old[m] = "sending" /\ new[m] = "accepted" /\ reached[m] = 1
             \/ old[m] = "sending" /\ new[m] \in {"rejected", "blocked", "skipped"} /\ reached[m] = 0
    BY DEF Receipt, Settles
  <1>4. old = [m \in Msgs |-> IF row[m].state = "absent" THEN "none" ELSE row[m].state]
        /\ new = [m \in Msgs |-> IF row'[m].state = "absent" THEN "none" ELSE row'[m].state]
    BY DEF Receipt
  <1> HIDE DEF old, new
  <1>5. CASE new = old
    BY <1>4, <1>5 DEF Promised, Receipts!vars
  <1>6. CASE new # old
    BY <1>2, <1>3, <1>4, <1>6 DEF Promised, Receipts!Next, Receipts!Settle
  <1> QED
    BY <1>5, <1>6

\* One delivery moves to the state s: the abstract receipt does.
LEMMA OneMoves ==
    ASSUME NEW m \in Msgs, NEW s, s # "absent", row'[m].state = s,
           \A k \in Msgs \ {m} : row'[k] = row[k]
    PROVE  [k \in Msgs |-> IF row'[k].state = "absent" THEN "none" ELSE row'[k].state]
             = [[k \in Msgs |-> IF row[k].state = "absent" THEN "none" ELSE row[k].state] EXCEPT ![m] = s]
  OBVIOUS

LEMMA OnePromised ==
    ASSUME NEW m \in Msgs, UNCHANGED reached, \A k \in Msgs \ {m} : row'[k] = row[k],
           \/ row[m].state = "absent" /\ row'[m].state = "queued"
           \/ row[m].state = "queued" /\ row'[m].state = "sending"
           \/ row[m].state = "sending" /\ row'[m].state = "queued" /\ reached[m] = 0
    PROVE  Promised
  <1> DEFINE old == [k \in Msgs |-> IF row[k].state = "absent" THEN "none" ELSE row[k].state]
             new == [k \in Msgs |-> IF row'[k].state = "absent" THEN "none" ELSE row'[k].state]
  <1>1. old[m] = IF row[m].state = "absent" THEN "none" ELSE row[m].state
    OBVIOUS
  <1>2. new = [old EXCEPT ![m] = row'[m].state]
    BY OneMoves
  <1> HIDE DEF old, new
  <1>3. old = [k \in Msgs |-> IF row[k].state = "absent" THEN "none" ELSE row[k].state]
        /\ new = [k \in Msgs |-> IF row'[k].state = "absent" THEN "none" ELSE row'[k].state]
    BY DEF old, new
  <1>4. CASE row[m].state = "absent" /\ row'[m].state = "queued"
    <2>1. Receipts!Accept(m)
      BY <1>1, <1>2, <1>3, <1>4 DEF Receipts!Accept
    <2> QED
      BY <2>1 DEF Promised, Receipts!Next
  <1>5. CASE row[m].state = "queued" /\ row'[m].state = "sending"
    <2>1. Receipts!Try(m)
      BY <1>1, <1>2, <1>3, <1>5 DEF Receipts!Try
    <2> QED
      BY <2>1 DEF Promised, Receipts!Next
  <1>6. CASE row[m].state = "sending" /\ row'[m].state = "queued" /\ reached[m] = 0
    <2>1. Receipts!Return(m)
      BY <1>1, <1>2, <1>3, <1>6 DEF Receipts!Return
    <2> QED
      BY <2>1 DEF Promised, Receipts!Next
  <1> QED
    BY <1>4, <1>5, <1>6

LEMMA ReachPromised ==
    ASSUME NEW m \in Msgs, Open(m), reached[m] = 0, UNCHANGED row,
           reached' = [reached EXCEPT ![m] = 1]
    PROVE  Promised
  <1>1. Receipts!Reach(m)
    BY DEF Receipts!Reach, Open
  <1> QED
    BY <1>1 DEF Promised, Receipts!Next

\* A compare-and-set that settles, and one statement over all rows.
LEMMA PutSettles ==
    ASSUME TypeOK, NEW m \in Msgs, NEW from, NEW r, Put(m, from, r),
           \/ from = "queued"  /\ r.state \in {"queued", "blocked"}
           \/ from = "sending" /\ r.state = "uncertain"
           \/ from = "sending" /\ r.state = "accepted" /\ reached[m] = 1
           \/ from = "sending" /\ r.state \in {"rejected", "blocked", "skipped"} /\ reached[m] = 0
    PROVE  \A k \in Msgs : Settles(k)
  BY DEF TypeOK, Put, Settles

LEMMA SweepSettles ==
    ASSUME TypeOK, NEW s \in {"sending", "uncertain"}, Sweep("blocked", s)
    PROVE  \A m \in Msgs : Settles(m)
  <1> SUFFICES ASSUME NEW m \in Msgs PROVE Settles(m)
    OBVIOUS
  <1>1. row[m] \in Rows
    BY DEF TypeOK
  <1>2. CASE row[m].state = "queued"
    BY <1>1, <1>2 DEF Sweep, Settles, Rows
  <1>3. CASE row[m].state = "sending"
    BY <1>1, <1>3 DEF Sweep, Settles, Rows
  <1>4. CASE row[m].state \notin {"queued", "sending"}
    BY <1>4 DEF Sweep, Settles
  <1> QED
    BY <1>2, <1>3, <1>4

LEMMA SettledRow ==
    ASSUME TypeOK, NEW m \in Msgs
    PROVE  /\ \A s : [row[m] EXCEPT !.state = s].state = s
           /\ Later(m).state = "queued"
  BY DEF TypeOK, Rows, Later

LEMMA WorkerPromised ==
    ASSUME TypeOK, TypeOK', ReceiptInv, NEW w \in Workers, Worker(w)
    PROVE  Promised
  <1> DEFINE m == proc[w].msg
  <1>1. row \in [Msgs -> Rows] /\ (proc[w].pc # "idle" => m \in Msgs)
    BY DEF TypeOK
  <1>2. ASSUME NEW k \in Msgs, Begin(w, k) PROVE Promised
    <2>1. UNCHANGED reached
      BY <1>2 DEF Begin, Ambient
    <2>2. UNCHANGED row \/ Put(k, "queued", [row[k] EXCEPT !.state = "blocked"])
      BY <1>2 DEF Begin
    <2> QED
      BY <2>1, <2>2, StutterPromised, SettledRow, PutSettles, SettlePromised
  <1>3. CASE Defer(w)
    <2>1. UNCHANGED reached /\ m \in Msgs /\ Put(m, "queued", Later(m))
      BY <1>1, <1>3 DEF Defer, Ambient
    <2> QED
      BY <2>1, SettledRow, PutSettles, SettlePromised
  <1>4. CASE Claim(w)
    <2>1. UNCHANGED reached /\ m \in Msgs
      BY <1>1, <1>4 DEF Claim, Ambient
    <2>2. \/ UNCHANGED row
          \/ Put(m, "queued", [row[m] EXCEPT !.state = "blocked"])
          \/ row[m].state = "queued" /\ Put(m, "queued", [row[m] EXCEPT !.state = "sending"])
      BY <1>4 DEF Claim
    <2>3. CASE row[m].state = "queued" /\ Put(m, "queued", [row[m] EXCEPT !.state = "sending"])
      <3>1. row'[m].state = "sending" /\ \A k \in Msgs \ {m} : row'[k] = row[k]
        BY <1>1, <2>1, <2>3, SettledRow DEF Put
      <3> QED
        BY <2>1, <2>3, <3>1, OnePromised
    <2> QED
      BY <2>1, <2>2, <2>3, StutterPromised, SettledRow, PutSettles, SettlePromised
  <1>5. CASE Finish(w)
    <2>1. /\ UNCHANGED reached /\ m \in Msgs /\ proc[w].pc = "finish" /\ proc[w].result \in Terminal
          /\ UNCHANGED row \/ Put(m, "sending", [row[m] EXCEPT !.state = proc[w].result])
      BY <1>5 DEF Finish, Ambient, TypeOK
    <2>2. proc[w].result # "uncertain" => reached[m] = IF proc[w].result = "accepted" THEN 1 ELSE 0
      BY <2>1 DEF ReceiptInv, Held, Attempting, Untouched
    <2>3. [row[m] EXCEPT !.state = proc[w].result].state = proc[w].result
      BY <2>1, SettledRow
    <2> HIDE DEF m
    <2>4. CASE Put(m, "sending", [row[m] EXCEPT !.state = proc[w].result])
      <3>1. \A k \in Msgs : Settles(k)
        BY <2>1, <2>2, <2>3, <2>4, PutSettles DEF Terminal
      <3> QED
        BY <2>1, <3>1, SettlePromised
    <2> QED
      BY <2>1, <2>4, StutterPromised
  <1>6. CASE Requeue(w)
    <2>1. /\ UNCHANGED reached /\ m \in Msgs /\ proc[w].pc = "requeue"
          /\ UNCHANGED row \/ Put(m, "sending", Later(m))
      BY <1>6 DEF Requeue, Ambient, TypeOK
    <2>2. reached[m] = 0
      BY <2>1 DEF ReceiptInv, Held, Attempting, Untouched
    <2>3. CASE row[m].state = "sending" /\ Put(m, "sending", Later(m))
      <3>1. row'[m].state = "queued" /\ \A k \in Msgs \ {m} : row'[k] = row[k]
        BY <1>1, <2>1, <2>3, SettledRow DEF Put
      <3> QED
        BY <2>1, <2>2, <2>3, <3>1, OnePromised
    <2> QED
      BY <2>1, <2>3, StutterPromised DEF Put
  <1>7. CASE UNCHANGED <<row, reached>>
    BY <1>7, StutterPromised
  <1> QED
    BY <1>2, <1>3, <1>4, <1>5, <1>6, <1>7
       DEF Worker, Acquire, ReadStatus, CheckAmbiguous, ReadWorking, Send, Answered, Rejected,
           RateLimited, Lost, RecordStatus, RecordWorking, Errs, Renew, Release, Ambient

LEMMA RemotePromised ==
    ASSUME TypeOK, ReceiptInv, Remote
    PROVE  Promised
  <1>1. ASSUME NEW m \in Msgs, NEW op \in {"post", "update", "delete"}, NEW post,
               Lands(m, op, post), Open(m), op # "delete" => reached[m] = 0, UNCHANGED row
        PROVE  Promised
    <2>1. CASE UNCHANGED reached
      BY <1>1, <2>1, StutterPromised
    <2>2. CASE reached' = [reached EXCEPT ![m] = reached[m] + 1] /\ reached[m] = 0
      <3>1. reached' = [reached EXCEPT ![m] = 1]
        BY <2>2
      <3> QED
        BY <1>1, <2>2, <3>1, ReachPromised
    <2> QED
      BY <1>1, <2>1, <2>2, LandsReaches
  <1>2. ASSUME NEW w \in Workers, Land(w) PROVE Promised
    <2>1. /\ proc[w].pc = "wait" /\ ~proc[w].landed /\ Lands(proc[w].msg, proc[w].op, proc[w].post)
          /\ UNCHANGED row
      BY <1>2 DEF Land
    <2>2. proc[w].msg \in Msgs /\ proc[w].op \in {"post", "update", "delete"}
      BY <2>1 DEF TypeOK, Procs
    <2>3. Open(proc[w].msg) /\ reached[proc[w].msg] = 0
      BY <2>1 DEF ReceiptInv, Held, Attempting, Untouched
    <2> QED
      BY <1>1, <2>1, <2>2, <2>3
  <1>3. ASSUME NEW r \in flight, LateLand(r) PROVE Promised
    <2>1. Lands(r.msg, r.op, r.post) /\ UNCHANGED row
      BY <1>3 DEF LateLand
    <2>2. r.msg \in Msgs /\ r.op \in {"post", "update", "delete"}
      BY DEF TypeOK, Requests
    <2>3. Open(r.msg) /\ (r.op # "delete" => reached[r.msg] = 0)
      BY DEF ReceiptInv, Adrift
    <2> QED
      BY <1>1, <2>1, <2>2, <2>3
  <1>4. ASSUME NEW r \in flight, Vanish(r) PROVE Promised
    BY <1>4, StutterPromised DEF Vanish
  <1> QED
    BY <1>2, <1>3, <1>4 DEF Remote

LEMMA OutsidePromised ==
    ASSUME TypeOK, TypeOK', Conversation \/ Environment
    PROVE  Promised
  <1>1. row \in [Msgs -> Rows]
    BY DEF TypeOK
  <1>2. CASE Conversation
    <2>1. UNCHANGED reached /\ \E s \in {"sending", "uncertain"} : Sweep("blocked", s)
      BY <1>2 DEF Conversation, Archive, Disconnect, Move
    <2> QED
      BY <2>1, SweepSettles, SettlePromised
  <1>3. ASSUME NEW m \in Msgs, NEW n, Enqueue(m, n) PROVE Promised
    <2>1. /\ row[m].state = "absent" /\ UNCHANGED reached
          /\ row' = [row EXCEPT ![m] = [row[m] EXCEPT !.state = "queued", !.assignment = binding.assignment]]
      BY <1>3 DEF Enqueue, Ambient
    <2>2. row'[m].state = "queued" /\ \A k \in Msgs \ {m} : row'[k] = row[k]
      BY <1>1, <2>1 DEF Rows
    <2> QED
      BY <2>1, <2>2, OnePromised
  <1>4. ASSUME NEW m \in Msgs, BecomeDue(m) \/ Age(m) \/ Stall(m) \/ MarkStale(m)
        PROVE  Promised
    <2>1. \A k \in Msgs : Settles(k)
      BY <1>1, <1>4 DEF BecomeDue, Age, Stall, GrowsOld, MarkStale, Rows, Settles
    <2>2. UNCHANGED reached
      BY <1>4 DEF BecomeDue, Age, Stall, GrowsOld, MarkStale, Ambient
    <2> QED
      BY <2>1, <2>2, SettlePromised
  <1>5. CASE Expire \/ Lapse \/ \E w \in Workers : Crash(w)
    BY <1>5, StutterPromised DEF Expire, Lapse, Crash
  <1> QED
    BY <1>2, <1>3, <1>4, <1>5 DEF Environment

LEMMA NextPromised == TypeOK /\ TypeOK' /\ ReceiptInv /\ [Next]_vars => Promised
  <1> SUFFICES ASSUME TypeOK, TypeOK', ReceiptInv, [Next]_vars PROVE Promised
    OBVIOUS
  <1>1. CASE UNCHANGED vars
    BY <1>1, StutterPromised DEF vars
  <1> QED
    BY <1>1, WorkerPromised, RemotePromised, OutsidePromised DEF Next

\* The outbox implements DeliveryReceipt: whatever workers, locks, requests and
\* conversations do, every step is one of a receipt's or changes none.
THEOREM OutboxKeepsReceipts == Spec => KeepsReceipts
  <1>1. Init => Receipts!Init
    BY DEF Init, Receipts!Init
  <1>2. Init => TypeOK /\ OpsFit /\ ReceiptInv
    BY InitType, InitReceipt
  <1>3. TypeOK /\ OpsFit /\ ReceiptInv /\ [Next]_vars
          => (TypeOK /\ OpsFit /\ ReceiptInv)' /\ [Receipts!Next]_(Receipts!vars)
    BY NextType, NextOpsFit, NextReceipt, NextPromised DEF Promised
  <1> QED
    BY <1>1, <1>2, <1>3, PTL DEF Spec, KeepsReceipts, Receipts!Spec
=============================================================================
