--------------------------- MODULE SurfaceSafety ---------------------------
(***************************************************************************)
(* Proofs about the posts of a conversation: the status post is created    *)
(* once and never regresses, the working post is created once, a shown     *)
(* conclusion is kept, an archived incident stays quiet.  For any messages,*)
(* workers and bounds on faults.                                           *)
(***************************************************************************)
EXTENDS SurfaceDeliveryProofs

-----------------------------------------------------------------------------
(* What a step of worker w does, field by field.  Each of these says of    *)
(* one group of actions what the proofs below need to know of it.          *)

Lifecycle(m) == Kind(m) = "lifecycle"

\* It keeps its message and what it asks the surface for.
Keeps(w) ==
    /\ proc'[w].msg = proc[w].msg /\ proc'[w].op = proc[w].op /\ proc'[w].post = proc[w].post

Posting == <<binding, working, lock, shown, flight>>

\* Begin, Defer: before the lock.
Waits(w) ==
    /\ proc[w].pc \in {"idle", "lock"} /\ proc'[w].pc \in {"idle", "lock"}
    /\ UNCHANGED <<Posting, reached, incident>>

\* Acquire.
Enters(w) ==
    /\ proc[w].pc = "lock" /\ proc'[w].pc = "claim" /\ lock = Free /\ lock' = w
    /\ UNCHANGED <<row, binding, working, shown, flight, reached, incident, faults>>

\* Release.
Leaves(w) ==
    /\ proc[w].pc = "release" /\ proc'[w].pc = "idle" /\ (lock = w \/ lock' = lock)
    /\ UNCHANGED <<row, binding, working, shown, flight, reached, incident>>

\* Claim.
Claims(w) ==
    LET m == proc[w].msg
    IN  /\ proc[w].pc = "claim" /\ proc'[w].msg = m
        /\ \/ proc'[w].pc = "release"
           \/ /\ proc'[w].pc = "read" /\ row[m].state = "queued" /\ ~incident.archived
              /\ row'[m].state = "sending" /\ row'[m].stale = row[m].stale
        /\ UNCHANGED <<Posting, reached, incident, faults>>

\* ReadStatus without a post, and what CheckAmbiguous lets through.
Judges(w) ==
    /\ proc[w].pc = "read" /\ proc'[w].pc = "ambiguous" /\ proc'[w].msg = proc[w].msg
    /\ Lifecycle(proc[w].msg) /\ binding.post = NoMsg
    /\ UNCHANGED <<row, Posting, reached, incident, faults>>

Creates(w) ==
    /\ proc[w].pc = "ambiguous" /\ proc'[w].pc = "call" /\ proc'[w].msg = proc[w].msg
    /\ proc'[w].op = "post" /\ ~Ambiguous(proc[w].msg)
    /\ UNCHANGED <<row, Posting, reached, incident, faults>>

\* ReadStatus with a post.
Refreshes(w) ==
    /\ proc[w].pc = "read" /\ proc'[w].pc = "call" /\ proc'[w].msg = proc[w].msg
    /\ Lifecycle(proc[w].msg) /\ proc'[w].op = "update"
    /\ binding.post # NoMsg /\ proc'[w].post = binding.post
    /\ binding.version < Version[proc[w].msg]
    /\ UNCHANGED <<row, Posting, reached, incident, faults>>

\* ReadWorking.
Works(w) ==
    LET kind == Kind(proc[w].msg)
    IN  /\ proc[w].pc = "read" /\ proc'[w].pc = "call" /\ proc'[w].msg = proc[w].msg
        /\ kind # "lifecycle"
        /\ \/ proc'[w].op = "post" /\ (kind = "own" \/ working = NoMsg)
           \/ /\ working # NoMsg /\ proc'[w].post = working
              /\ \/ proc'[w].op = "update" /\ kind \in {"narration", "answer", "silent"}
                 \/ proc'[w].op = "delete" /\ kind = "degrade"
        /\ UNCHANGED <<row, Posting, reached, incident, faults>>

\* Send, Land, Answered.
Sends(w) ==
    /\ proc[w].pc = "call" /\ proc'[w].pc = "wait" /\ Keeps(w) /\ ~proc'[w].landed
    /\ UNCHANGED <<row, Posting, reached, incident, faults>>

Reaches(w) ==
    /\ proc[w].pc = "wait" /\ ~proc[w].landed
    /\ proc'[w].pc = "wait" /\ Keeps(w) /\ proc'[w].landed
    /\ Lands(proc[w].msg, proc[w].op, proc[w].post)
    /\ UNCHANGED <<row, binding, working, lock, flight, incident, faults>>

Hears(w) ==
    /\ proc[w].pc = "wait" /\ proc[w].landed /\ proc'[w].pc = "record" /\ Keeps(w)
    /\ UNCHANGED <<row, Posting, reached, incident, faults>>

\* RecordStatus that wins; RecordWorking, after a deletion and otherwise.
Anchors(w) ==
    LET m == proc[w].msg
    IN  /\ proc[w].pc = "record" /\ proc'[w].pc = "renew" /\ proc'[w].msg = m
        /\ Lifecycle(m)
        /\ binding'.post = IF proc[w].op = "post" THEN m ELSE proc[w].post
        /\ binding'.version = Version[m] /\ binding'.assignment = binding.assignment
        /\ UNCHANGED <<row, working, lock, shown, flight, reached, incident, faults>>

NextWorking(w) ==
    CASE Kind(proc[w].msg) = "narration" -> IF proc[w].op = "post" THEN proc[w].msg ELSE working
      [] Kind(proc[w].msg) # "narration" /\ proc[w].op # "post" -> NoMsg
      [] OTHER -> working

Notes(w) ==
    /\ proc[w].pc = "record" /\ proc'[w].msg = proc[w].msg
    /\ ~Lifecycle(proc[w].msg) /\ working' = NextWorking(w)
    /\ \/ proc[w].op = "delete" /\ proc'[w].pc = "call" /\ proc'[w].op = "post"
       \/ proc[w].op # "delete" /\ proc'[w].pc = "renew"
    /\ UNCHANGED <<row, binding, lock, shown, flight, reached, incident, faults>>

\* Skips, and whatever ends an attempt with an answer that asks for no more.
Ceases(w) ==
    /\ proc[w].pc \notin {"idle", "lock"} /\ proc'[w].msg = proc[w].msg
    /\ proc'[w].pc \in {"renew", "finish", "requeue", "release"}
    /\ proc'[w].pc \in {"renew", "finish"} /\ proc'[w].result = "accepted"
         => proc[w].pc = "renew" /\ proc[w].result = "accepted"
    /\ proc[w].pc \notin {"read", "ambiguous", "finish", "renew", "requeue"} /\ faults'["error"] = 0
         => \/ proc[w].pc = "wait" /\ ~proc[w].landed
            \/ /\ proc[w].pc = "record" /\ Lifecycle(proc[w].msg)
               /\ \/ row[proc[w].msg].assignment # binding.assignment
                  \/ binding.post # NoMsg /\ binding.version >= Version[proc[w].msg]
    /\ UNCHANGED <<Posting, reached, incident>>

\* Lost and Crash.
GivesUp(w) ==
    /\ proc[w].pc # "idle" /\ Abandon(w)
    /\ \/ faults'["crash"] > 0 /\ proc'[w].pc = "idle" /\ (lock = w \/ lock' = lock)
       \/ /\ faults'["loss"] > 0 /\ proc[w].pc = "wait" /\ UNCHANGED lock
          /\ proc'[w].pc = "finish" /\ proc'[w].msg = proc[w].msg /\ proc'[w].result # "accepted"
    /\ UNCHANGED <<row, binding, working, shown, reached, incident>>

Did(w) ==
    \/ Waits(w) \/ Enters(w) \/ Leaves(w) \/ Claims(w)
    \/ Judges(w) \/ Creates(w) \/ Refreshes(w) \/ Works(w)
    \/ Sends(w) \/ Reaches(w) \/ Hears(w) \/ Anchors(w) \/ Notes(w)
    \/ Ceases(w) \/ GivesUp(w)

\* Faults are only ever added.
FaultsGrow == \A f \in FaultKinds : faults'[f] >= faults[f]

LEMMA FaultsOnlyGrow == TypeOK /\ [Next]_vars => FaultsGrow
  <1> SUFFICES ASSUME TypeOK, [Next]_vars PROVE FaultsGrow
    OBVIOUS
  <1>1. faults \in [FaultKinds -> Nat]
    BY DEF TypeOK, FaultKinds
  <1>2. CASE UNCHANGED faults
    BY <1>1, <1>2 DEF FaultsGrow
  <1>3. ASSUME NEW f, NEW max, Suffer(f, max) PROVE FaultsGrow
    BY <1>1, <1>3 DEF Suffer, FaultsGrow
  <1>4. ASSUME NEW w \in Workers, Worker(w) PROVE FaultsGrow
    <2>1. CASE Defer(w) \/ RateLimited(w) \/ Lost(w) \/ Errs(w) \/ Finish(w) \/ Requeue(w) \/ Release(w)
      BY <1>2, <1>3, <2>1 DEF Defer, RateLimited, Lost, Errs, Finish, Requeue, Release
    <2>2. CASE UNCHANGED faults
      BY <1>2, <2>2
    <2> QED
      BY <1>4, <2>1, <2>2
         DEF Worker, Begin, Acquire, Claim, ReadStatus, CheckAmbiguous, ReadWorking, Send, Answered,
             Rejected, RecordStatus, RecordWorking, Renew
  <1>5. CASE Conversation
    BY <1>2, <1>3, <1>5 DEF Conversation, Archive, Disconnect, Move
  <1>6. CASE Remote
    BY <1>2, <1>6 DEF Remote, Land, LateLand, Vanish
  <1>7. CASE Environment
    BY <1>2, <1>3, <1>7
       DEF Environment, Enqueue, BecomeDue, Age, Stall, MarkStale, Expire, Lapse, Crash
  <1> QED
    BY <1>2, <1>4, <1>5, <1>6, <1>7 DEF Next, vars

\* What the records a worker moves to look like.
LEMMA StepDid ==
    ASSUME TypeOK, NEW w \in Workers, NEW p, Step(w, p)
    PROVE  proc'[w] = p /\ \A v \in Workers \ {w} : proc'[v] = proc[v]
  BY DEF TypeOK, Step

LEMMA GotoDid ==
    ASSUME TypeOK, NEW w \in Workers, NEW pc, Goto(w, pc)
    PROVE  /\ proc'[w].pc = pc /\ proc'[w].landed = proc[w].landed /\ proc'[w].result = proc[w].result
           /\ proc'[w].msg = proc[w].msg /\ Keeps(w)
           /\ \A v \in Workers \ {w} : proc'[v] = proc[v]
  BY DEF TypeOK, Goto, Step, Keeps, Procs

LEMMA EndsDid ==
    ASSUME TypeOK, NEW w \in Workers, NEW result, Ends(w, result)
    PROVE  /\ proc'[w].pc = "finish" /\ proc'[w].result = result
           /\ proc'[w].msg = proc[w].msg /\ Keeps(w)
           /\ \A v \in Workers \ {w} : proc'[v] = proc[v]
  BY DEF TypeOK, Ends, Step, Keeps, Procs

LEMMA CallsDid ==
    ASSUME TypeOK, NEW w \in Workers, NEW op, NEW post, Calls(w, op, post)
    PROVE  /\ proc'[w].pc = "call" /\ proc'[w].op = op /\ proc'[w].post = post
           /\ proc'[w].msg = proc[w].msg
           /\ \A v \in Workers \ {w} : proc'[v] = proc[v]
  BY DEF TypeOK, Calls, Step, Procs

LEMMA RenewDid ==
    ASSUME TypeOK, NEW w \in Workers, NEW result,
           Step(w, [proc[w] EXCEPT !.pc = "renew", !.result = result])
    PROVE  /\ proc'[w].pc = "renew" /\ proc'[w].result = result
           /\ proc'[w].msg = proc[w].msg
           /\ \A v \in Workers \ {w} : proc'[v] = proc[v]
  BY DEF TypeOK, Step, Procs

LEMMA SendDid ==
    ASSUME TypeOK, NEW w \in Workers, Step(w, [proc[w] EXCEPT !.pc = "wait", !.landed = FALSE])
    PROVE  /\ proc'[w].pc = "wait" /\ ~proc'[w].landed /\ Keeps(w)
           /\ \A v \in Workers \ {w} : proc'[v] = proc[v]
  BY DEF TypeOK, Step, Keeps, Procs

LEMMA LandDid ==
    ASSUME TypeOK, NEW w \in Workers, Step(w, [proc[w] EXCEPT !.landed = TRUE])
    PROVE  /\ proc'[w].pc = proc[w].pc /\ proc'[w].landed /\ Keeps(w)
           /\ \A v \in Workers \ {w} : proc'[v] = proc[v]
  BY DEF TypeOK, Step, Keeps, Procs

\* Each action of a worker, the landing of its request and its death are one
\* of the things said above, and leave the other workers alone.
LEMMA WorkerDid ==
    ASSUME TypeOK, TypeOK', NEW w \in Workers, Worker(w) \/ Land(w) \/ Crash(w)
    PROVE  Did(w) /\ \A v \in Workers \ {w} : proc'[v] = proc[v]
  <1> DEFINE Rest == \A v \in Workers \ {w} : proc'[v] = proc[v]
  <1>1. /\ proc[w].pc # "idle" => proc[w].msg \in Msgs
        /\ proc[w].pc \in {"renew", "finish"} => proc[w].result \in Terminal
        /\ row \in [Msgs -> Rows] /\ faults \in [FaultKinds -> Nat]
        /\ binding \in [post : Posts, version : Int, assignment : Nat, full : BOOLEAN]
        /\ Version \in [Msgs -> Nat] /\ faults' \in [FaultKinds -> Nat]
    BY CastAssumption DEF TypeOK, FaultKinds
  <1>2. ASSUME NEW max, Suffer("error", max) PROVE faults'["error"] > 0
    BY <1>1, <1>2 DEF Suffer, FaultKinds
  <1>3. ASSUME NEW m \in Msgs, Begin(w, m) PROVE Did(w) /\ Rest
    <2>1. UNCHANGED <<Posting, reached, incident>> /\ proc[w].pc = "idle"
      BY <1>3 DEF Begin, Ambient, Posting
    <2>2. UNCHANGED proc \/ Step(w, [Idle EXCEPT !.pc = "lock", !.msg = m])
      BY <1>3 DEF Begin
    <2>3. proc'[w].pc \in {"idle", "lock"} /\ Rest
      <3> DEFINE p == [Idle EXCEPT !.pc = "lock", !.msg = m]
      <3>1. p.pc = "lock"
        BY DEF Idle
      <3> HIDE DEF p
      <3>2. ASSUME Step(w, p) PROVE proc'[w].pc = "lock" /\ Rest
        BY <3>1, <3>2, StepDid
      <3> QED
        BY <2>1, <2>2, <3>2 DEF p
    <2> QED
      BY <2>1, <2>3 DEF Did, Waits
  <1>4. CASE Acquire(w)
    <2>1. Goto(w, "claim")
      BY <1>4 DEF Acquire
    <2>2. Enters(w) /\ Rest
      BY <1>4, <2>1, GotoDid DEF Acquire, Enters
    <2> QED
      BY <2>2 DEF Did
  <1>5. CASE Defer(w)
    <2>1. Step(w, Idle)
      BY <1>5 DEF Defer
    <2>2. Waits(w) /\ Rest
      BY <1>5, <2>1, StepDid DEF Defer, Waits, Idle, Ambient, Posting
    <2> QED
      BY <2>2 DEF Did
  <1>6. CASE Claim(w)
    <2>1. Goto(w, "release") \/ Goto(w, "read")
      BY <1>6 DEF Claim
    <2>2. UNCHANGED <<Posting, reached, incident, faults>> /\ proc[w].pc = "claim"
      BY <1>6 DEF Claim, Ambient, Posting
    <2>3. Goto(w, "read") =>
            LET m == proc[w].msg
            IN  /\ row[m].state = "queued" /\ ~incident.archived
                /\ row'[m].state = "sending" /\ row'[m].stale = row[m].stale
      <3> SUFFICES ASSUME Goto(w, "read")
                   PROVE  LET m == proc[w].msg
                          IN  /\ row[m].state = "queued" /\ ~incident.archived
                              /\ row'[m].state = "sending" /\ row'[m].stale = row[m].stale
        OBVIOUS
      <3> DEFINE m == proc[w].msg
      <3>1. proc'[w].pc = "read"
        BY GotoDid
      <3>2. ~Goto(w, "release")
        BY <3>1, GotoDid
      <3>3. /\ row[m].state = "queued" /\ ~incident.archived
            /\ Put(m, "queued", [row[m] EXCEPT !.state = "sending"])
        BY <1>6, <3>2 DEF Claim
      <3>4. m \in Msgs /\ row[m] \in Rows
        BY <1>1, <2>2
      <3> HIDE DEF m
      <3>5. row'[m].state = "sending" /\ row'[m].stale = row[m].stale
        BY <1>1, <3>3, <3>4 DEF Put, Rows
      <3> QED
        BY <3>3, <3>5 DEF m
    <2>4. CASE Goto(w, "release")
      <3>1. Claims(w) /\ Rest
        BY <2>2, <2>4, GotoDid DEF Claims, Keeps
      <3> QED
        BY <3>1 DEF Did
    <2>5. CASE Goto(w, "read")
      <3>1. Claims(w) /\ Rest
        BY <2>2, <2>3, <2>5, GotoDid DEF Claims, Keeps
      <3> QED
        BY <3>1 DEF Did
    <2> QED
      BY <2>1, <2>4, <2>5
  <1>7. CASE ReadStatus(w)
    <2>1. /\ UNCHANGED <<row, Posting, reached, incident, faults>>
          /\ proc[w].pc = "read" /\ Lifecycle(proc[w].msg)
      BY <1>7 DEF ReadStatus, Ambient, Posting, Lifecycle
    <2>2. CASE binding.post = NoMsg
      <3>1. Goto(w, "ambiguous")
        BY <1>7, <2>2 DEF ReadStatus
      <3>2. Judges(w) /\ Rest
        BY <2>1, <2>2, <3>1, GotoDid DEF Judges, Keeps
      <3> QED
        BY <3>2 DEF Did
    <2>3. CASE binding.post # NoMsg /\ binding.version >= Version[proc[w].msg]
      <3>1. Step(w, [proc[w] EXCEPT !.pc = "renew", !.result = "skipped"])
        BY <1>7, <2>3 DEF ReadStatus, Skips
      <3>2. Ceases(w) /\ Rest
        BY <2>1, <3>1, RenewDid DEF Ceases, Keeps
      <3> QED
        BY <3>2 DEF Did
    <2>4. CASE binding.post # NoMsg /\ ~(binding.version >= Version[proc[w].msg])
      <3>1. Calls(w, "update", binding.post)
        BY <1>7, <2>4 DEF ReadStatus
      <3>2. binding.version < Version[proc[w].msg]
        BY <1>1, <2>1, <2>4
      <3>3. Refreshes(w) /\ Rest
        BY <2>1, <2>4, <3>1, <3>2, CallsDid DEF Refreshes
      <3> QED
        BY <3>3 DEF Did
    <2> QED
      BY <2>2, <2>3, <2>4
  <1>8. CASE CheckAmbiguous(w)
    <2>1. UNCHANGED <<row, Posting, reached, incident, faults>> /\ proc[w].pc = "ambiguous"
      BY <1>8 DEF CheckAmbiguous, Ambient, Posting
    <2>2. CASE Ambiguous(proc[w].msg)
      <3>1. Ends(w, "blocked")
        BY <1>8, <2>2 DEF CheckAmbiguous
      <3>2. Ceases(w) /\ Rest
        BY <2>1, <3>1, EndsDid DEF Ceases, Keeps
      <3> QED
        BY <3>2 DEF Did
    <2>3. CASE ~Ambiguous(proc[w].msg)
      <3>1. Calls(w, "post", NoMsg)
        BY <1>8, <2>3 DEF CheckAmbiguous
      <3>2. Creates(w) /\ Rest
        BY <2>1, <2>3, <3>1, CallsDid DEF Creates
      <3> QED
        BY <3>2 DEF Did
    <2> QED
      BY <2>2, <2>3
  <1>9. CASE ReadWorking(w)
    <2> DEFINE kind == Kind(proc[w].msg)
    <2>1. /\ UNCHANGED <<row, Posting, reached, incident, faults>>
          /\ proc[w].pc = "read" /\ kind # "lifecycle"
      BY <1>9 DEF ReadWorking, Ambient, Posting
    <2>2. kind \in Kinds
      BY <1>1, <2>1 DEF Kind, Rows
    <2>3. CASE kind = "own" \/ (working = NoMsg /\ kind # "silent")
      <3>1. Calls(w, "post", NoMsg)
        BY <1>9, <2>3 DEF ReadWorking
      <3>2. Works(w) /\ Rest
        BY <2>1, <2>3, <3>1, CallsDid DEF Works
      <3> QED
        BY <3>2 DEF Did
    <2>4. CASE working = NoMsg /\ kind = "silent"
      <3>1. Step(w, [proc[w] EXCEPT !.pc = "renew", !.result = "skipped"])
        BY <1>9, <2>4 DEF ReadWorking, Skips
      <3>2. Ceases(w) /\ Rest
        BY <2>1, <3>1, RenewDid DEF Ceases, Keeps
      <3> QED
        BY <3>2 DEF Did
    <2>5. CASE working # NoMsg /\ kind = "degrade"
      <3>1. Calls(w, "delete", working)
        BY <1>9, <2>5 DEF ReadWorking
      <3>2. Works(w) /\ Rest
        BY <2>1, <2>5, <3>1, CallsDid DEF Works
      <3> QED
        BY <3>2 DEF Did
    <2>6. CASE working # NoMsg /\ kind \in {"narration", "answer", "silent"}
      <3>1. Calls(w, "update", working)
        BY <1>9, <2>6 DEF ReadWorking
      <3>2. Works(w) /\ Rest
        BY <2>1, <2>6, <3>1, CallsDid DEF Works
      <3> QED
        BY <3>2 DEF Did
    <2> QED
      BY <2>1, <2>2, <2>3, <2>4, <2>5, <2>6 DEF Kinds
  <1>10. CASE Send(w)
    <2>1. Step(w, [proc[w] EXCEPT !.pc = "wait", !.landed = FALSE])
      BY <1>10 DEF Send
    <2>2. Sends(w) /\ Rest
      BY <1>10, <2>1, SendDid DEF Send, Sends, Ambient, Posting
    <2> QED
      BY <2>2 DEF Did
  <1>11. CASE Land(w)
    <2>1. Step(w, [proc[w] EXCEPT !.landed = TRUE])
      BY <1>11 DEF Land
    <2>2. proc'[w].pc = proc[w].pc /\ Keeps(w) /\ proc'[w].landed /\ Rest
      BY <2>1, LandDid
    <2>3. Reaches(w)
      BY <1>11, <2>2 DEF Land, Reaches
    <2> QED
      BY <2>2, <2>3 DEF Did
  <1>12. CASE Answered(w)
    <2>1. Goto(w, "record")
      BY <1>12 DEF Answered
    <2>2. Hears(w) /\ Rest
      BY <1>12, <2>1, GotoDid DEF Answered, Hears, Ambient, Posting
    <2> QED
      BY <2>2 DEF Did
  <1>13. CASE Rejected(w) \/ RateLimited(w)
    <2>1. Ends(w, "rejected") \/ Goto(w, "requeue")
      BY <1>13 DEF Rejected, RateLimited
    <2>2. Ceases(w) /\ Rest
      BY <1>13, <2>1, GotoDid, EndsDid DEF Rejected, RateLimited, Ceases, Keeps, Ambient, Posting
    <2> QED
      BY <2>2 DEF Did
  <1>14. CASE Lost(w) \/ Crash(w)
    <2>1. CASE Lost(w)
      <3>1. Ends(w, "uncertain") /\ Suffer("loss", MaxLosses)
        BY <2>1 DEF Lost
      <3>2. faults'["loss"] > 0
        BY <1>1, <3>1 DEF Suffer, FaultKinds
      <3>3. GivesUp(w) /\ Rest
        BY <2>1, <3>1, <3>2, EndsDid DEF Lost, GivesUp, Keeps
      <3> QED
        BY <3>3 DEF Did
    <2>2. CASE Crash(w)
      <3>1. Step(w, Idle) /\ Suffer("crash", MaxCrashes)
        BY <2>2 DEF Crash
      <3>2. faults'["crash"] > 0
        BY <1>1, <3>1 DEF Suffer, FaultKinds
      <3>3. GivesUp(w) /\ Rest
        BY <2>2, <3>1, <3>2, StepDid DEF Crash, GivesUp, Idle
      <3> QED
        BY <3>3 DEF Did
    <2> QED
      BY <1>14, <2>1, <2>2
  <1>15. CASE RecordStatus(w)
    <2> DEFINE m == proc[w].msg
               post == IF proc[w].op = "post" THEN m ELSE proc[w].post
               wins == /\ row[m].assignment = binding.assignment
                       /\ binding.post = NoMsg \/ binding.version < Version[m]
    <2>1. /\ UNCHANGED <<row, working, lock, shown, flight, reached, incident, faults>>
          /\ proc[w].pc = "record" /\ Lifecycle(m)
      BY <1>15 DEF RecordStatus, Lifecycle
    <2>2. CASE wins
      <3>1. /\ binding' = [binding EXCEPT !.post = post, !.version = Version[m]]
            /\ Step(w, [proc[w] EXCEPT !.pc = "renew", !.result = "accepted"])
        BY <1>15, <2>2 DEF RecordStatus
      <3>2. /\ proc'[w].pc = "renew" /\ Rest /\ proc'[w].msg = m
        BY <3>1, RenewDid DEF Keeps
      <3> HIDE DEF post
      <3>3. /\ binding'.post = post /\ binding'.version = Version[m]
            /\ binding'.assignment = binding.assignment
        BY <1>1, <3>1
      <3>4. Anchors(w)
        BY <2>1, <3>2, <3>3 DEF Anchors, post
      <3> QED
        BY <3>2, <3>4 DEF Did
    <2>3. CASE ~wins
      <3>1. Ends(w, "uncertain") /\ UNCHANGED binding
        BY <1>15, <2>3 DEF RecordStatus
      <3>2. \/ row[m].assignment # binding.assignment
            \/ binding.post # NoMsg /\ binding.version >= Version[m]
        BY <1>1, <2>1, <2>3
      <3>3. Ceases(w) /\ Rest
        BY <2>1, <3>1, <3>2, EndsDid DEF Ceases, Keeps, Posting
      <3> QED
        BY <3>3 DEF Did
    <2> QED
      BY <2>2, <2>3
  <1>16. CASE RecordWorking(w)
    <2>1. /\ UNCHANGED <<row, binding, lock, shown, flight, reached, incident, faults>>
          /\ proc[w].pc = "record" /\ ~Lifecycle(proc[w].msg) /\ working' = NextWorking(w)
      BY <1>16 DEF RecordWorking, Lifecycle, NextWorking
    <2>2. CASE proc[w].op = "delete"
      <3>1. Calls(w, "post", NoMsg)
        BY <1>16, <2>2 DEF RecordWorking, Calls
      <3>2. Notes(w) /\ Rest
        BY <2>1, <2>2, <3>1, CallsDid DEF Notes
      <3> QED
        BY <3>2 DEF Did
    <2>3. CASE proc[w].op # "delete"
      <3>1. Step(w, [proc[w] EXCEPT !.pc = "renew", !.result = "accepted"])
        BY <1>16, <2>3 DEF RecordWorking
      <3>2. Notes(w) /\ Rest
        BY <2>1, <2>3, <3>1, RenewDid DEF Notes, Keeps
      <3> QED
        BY <3>2 DEF Did
    <2> QED
      BY <2>2, <2>3
  <1>17. CASE Errs(w)
    <2>1. Ends(w, "uncertain") /\ Suffer("error", MaxErrors)
      BY <1>17 DEF Errs
    <2>2. Ceases(w) /\ Rest
      BY <1>2, <1>17, <2>1, EndsDid DEF Errs, Ceases, Keeps, Ambient, Posting
    <2> QED
      BY <2>2 DEF Did
  <1>18. CASE Renew(w)
    <2>1. Ends(w, proc[w].result) \/ Ends(w, "uncertain")
      BY <1>18 DEF Renew
    <2>2. Ceases(w) /\ Rest
      BY <1>18, <2>1, EndsDid DEF Renew, Ceases, Keeps, Ambient, Posting
    <2> QED
      BY <2>2 DEF Did
  <1>19. CASE Finish(w) \/ Requeue(w)
    <2>1. Ends(w, "uncertain") \/ Goto(w, "release")
      BY <1>19 DEF Finish, Requeue
    <2>2. Ceases(w) /\ Rest
      BY <1>19, <2>1, GotoDid, EndsDid DEF Finish, Requeue, Ceases, Keeps, Ambient, Posting
    <2> QED
      BY <2>2 DEF Did
  <1>20. CASE Release(w)
    <2>1. Step(w, Idle)
      BY <1>20 DEF Release
    <2>2. Leaves(w) /\ Rest
      BY <1>20, <2>1, StepDid DEF Release, Leaves, Idle
    <2> QED
      BY <2>2 DEF Did
  <1> QED
    BY <1>3, <1>4, <1>5, <1>6, <1>7, <1>8, <1>9, <1>10, <1>11, <1>12, <1>13, <1>14, <1>15,
       <1>16, <1>17, <1>18, <1>19, <1>20 DEF Worker

\* The steps that are no worker's: what they leave alone.
Elsewhere ==
    /\ UNCHANGED <<proc, working, shown, flight, reached>>
    /\ binding'.post = binding.post
    /\ binding' = binding \/ faults'["move"] > 0
    /\ lock' = lock \/ lock = Dead \/ faults'["lapse"] > 0

\* Every step is a worker's, the late landing or the loss of a request adrift,
\* or none of theirs.
LEMMA StepIs ==
    ASSUME TypeOK, TypeOK', [Next]_vars
    PROVE  \/ \E w \in Workers : Worker(w) \/ Land(w) \/ Crash(w)
           \/ \E r \in flight : LateLand(r) \/ Vanish(r)
           \/ Elsewhere
  <1>1. /\ faults \in [FaultKinds -> Nat] /\ faults' \in [FaultKinds -> Nat]
        /\ binding \in [post : Posts, version : Int, assignment : Nat, full : BOOLEAN]
    BY DEF TypeOK, FaultKinds
  <1>2. CASE UNCHANGED vars
    BY <1>2 DEF vars, Elsewhere
  <1>3. CASE Archive \/ Disconnect
    BY <1>3 DEF Archive, Disconnect, Elsewhere
  <1>4. CASE Move
    <2>1. faults'["move"] > 0
      BY <1>1, <1>4 DEF Move, Suffer, FaultKinds
    <2>2. binding'.post = binding.post
      BY <1>1, <1>4 DEF Move
    <2> QED
      BY <1>4, <2>1, <2>2 DEF Move, Elsewhere
  <1>5. CASE Lapse
    <2>1. faults'["lapse"] > 0
      BY <1>1, <1>5 DEF Lapse, Suffer, FaultKinds
    <2> QED
      BY <1>5, <2>1 DEF Lapse, Elsewhere
  <1>6. CASE Expire
    BY <1>6 DEF Expire, Elsewhere
  <1>7. ASSUME NEW m \in Msgs,
               \/ \E n \in 0..MaxWakes : Enqueue(m, n)
               \/ BecomeDue(m) \/ Age(m) \/ Stall(m) \/ MarkStale(m)
        PROVE  Elsewhere
    BY <1>7 DEF Enqueue, BecomeDue, Age, Stall, GrowsOld, MarkStale, Ambient, Elsewhere
  <1> QED
    BY <1>2, <1>3, <1>4, <1>5, <1>6, <1>7 DEF Next, Conversation, Remote, Environment

\* A row becomes accepted only by its attempt's receipt.
LEMMA AcceptedFrom ==
    ASSUME TypeOK, TypeOK', OpsFit, [Next]_vars, NEW m \in Msgs,
           row'[m].state = "accepted", row[m].state # "accepted"
    PROVE  \E w \in Workers : proc[w].pc = "finish" /\ proc[w].result = "accepted" /\ proc[w].msg = m
  <1>1. row \in [Msgs -> Rows] /\ \A w \in Workers : proc[w].pc # "idle" => proc[w].msg \in Msgs
    BY DEF TypeOK
  <1>2. ~Frame /\ ~UNCHANGED row
    BY DEF Frame, Drifts
  <1>3. ASSUME NEW w \in Workers, Claim(w) \/ Requeue(w) PROVE FALSE
    <2>1. proc[w].msg \in Msgs
      BY <1>1, <1>3 DEF Claim, Requeue
    <2> DEFINE k == proc[w].msg
    <2>2. \/ Put(k, "queued", [row[k] EXCEPT !.state = "blocked"])
          \/ Put(k, "queued", [row[k] EXCEPT !.state = "sending"])
          \/ Put(k, "sending", Later(k))
      BY <1>2, <1>3 DEF Claim, Requeue
    <2>3. /\ [row[k] EXCEPT !.state = "blocked"].state = "blocked"
          /\ [row[k] EXCEPT !.state = "sending"].state = "sending" /\ Later(k).state = "queued"
      BY <2>1, SettledRow
    <2>4. \A from, r : Put(k, from, r) => r.state = "accepted"
      BY <1>1, <2>1 DEF Put
    <2> HIDE DEF k
    <2> QED
      BY <2>2, <2>3, <2>4
  <1>4. ASSUME NEW w \in Workers, Finish(w)
        PROVE  proc[w].pc = "finish" /\ proc[w].result = "accepted" /\ proc[w].msg = m
    <2>1. proc[w].msg \in Msgs /\ proc[w].pc = "finish"
      BY <1>1, <1>4 DEF Finish
    <2>2. Put(proc[w].msg, "sending", [row[proc[w].msg] EXCEPT !.state = proc[w].result])
      BY <1>2, <1>4 DEF Finish
    <2>3. [row[proc[w].msg] EXCEPT !.state = proc[w].result].state = proc[w].result
      BY <2>1, SettledRow
    <2> QED
      BY <1>1, <2>1, <2>2, <2>3 DEF Put
  <1>5. ASSUME NEW w \in Workers, Worker(w) PROVE Claim(w) \/ Requeue(w) \/ Finish(w)
    <2>1. ~Lost(w)
      BY <1>2 DEF Lost
    <2> QED
      BY <1>2, <1>5, <2>1, OpeningFrame, ProjectingFrame DEF Worker
  <1>6. ~Remote /\ \A w \in Workers : ~Crash(w)
    BY <1>2 DEF Remote, Land, LateLand, Vanish, Crash
  <1>7. ~UNCHANGED vars
    BY <1>2 DEF vars
  <1>8. ~Conversation /\ ~Environment
    BY <1>2, <1>6, QuietFrame DEF Environment
  <1> QED
    BY <1>3, <1>4, <1>5, <1>6, <1>7, <1>8 DEF Next

-----------------------------------------------------------------------------
(* The lock: whoever is past it holds it, as long as no lease lapses.      *)

Locked ==
    faults["lapse"] = 0 => \A w \in Workers : proc[w].pc \notin {"idle", "lock"} => lock = w

LEMMA NextLocked == TypeOK /\ TypeOK' /\ Locked /\ [Next]_vars => Locked'
  <1> SUFFICES ASSUME TypeOK, TypeOK', Locked, [Next]_vars, faults'["lapse"] = 0
               PROVE  \A w \in Workers : proc'[w].pc \notin {"idle", "lock"} => lock' = w
    BY DEF Locked
  <1>1. \A w \in Workers : proc[w].pc \notin {"idle", "lock"} => lock = w
    <2>1. faults["lapse"] = 0
      BY FaultsOnlyGrow DEF FaultsGrow, FaultKinds, TypeOK
    <2> QED
      BY <2>1 DEF Locked
  <1>2. \A w \in Workers : w # Free /\ w # Dead
    BY NameAssumption
  <1>3. ASSUME NEW w \in Workers, Did(w), \A v \in Workers \ {w} : proc'[v] = proc[v]
        PROVE  \A v \in Workers : proc'[v].pc \notin {"idle", "lock"} => lock' = v
    <2>1. CASE Waits(w)
      BY <1>1, <1>3, <2>1 DEF Waits, Posting
    <2>2. CASE Enters(w)
      BY <1>1, <1>2, <1>3, <2>2 DEF Enters
    <2>3. CASE Leaves(w)
      BY <1>1, <1>3, <2>3 DEF Leaves
    <2>4. CASE Claims(w) \/ Judges(w) \/ Creates(w) \/ Refreshes(w) \/ Works(w) \/ Sends(w)
               \/ Hears(w) \/ Ceases(w)
      BY <1>1, <1>3, <2>4 DEF Claims, Judges, Creates, Refreshes, Works, Sends, Hears, Ceases, Posting
    <2>5. CASE Reaches(w) \/ Anchors(w) \/ Notes(w)
      BY <1>1, <1>3, <2>5 DEF Reaches, Anchors, Notes
    <2>6. CASE GivesUp(w)
      BY <1>1, <1>3, <2>6 DEF GivesUp
    <2> QED
      BY <1>3, <2>1, <2>2, <2>3, <2>4, <2>5, <2>6 DEF Did
  <1>4. ASSUME NEW r, LateLand(r) \/ Vanish(r)
        PROVE  \A w \in Workers : proc'[w].pc \notin {"idle", "lock"} => lock' = w
    BY <1>1, <1>4 DEF LateLand, Vanish
  <1>5. CASE Elsewhere
    BY <1>1, <1>2, <1>5 DEF Elsewhere
  <1> QED
    BY <1>3, <1>4, <1>5, StepIs, WorkerDid

-----------------------------------------------------------------------------
(* The status post is created once.                                        *)

\* What was shown was sent.
Sent == \A m \in Msgs : shown[m] # NoMsg => reached[m] >= 1

\* Who is about to create the status post found none recorded.
Judged ==
    \A w \in Workers : proc[w].pc = "ambiguous" =>
        Lifecycle(proc[w].msg) /\ (faults["lapse"] = 0 => binding.post = NoMsg)

\* Who updates the status post has one to update.
Aimed ==
    \A w \in Workers :
        /\ proc[w].pc \in {"call", "wait", "record"} /\ Lifecycle(proc[w].msg)
        /\ proc[w].op # "post"
        => proc[w].post # NoMsg

\* An accepted lifecycle delivery, or one about to be, left its post recorded.
Recorded ==
    /\ \A m \in Msgs : Lifecycle(m) /\ row[m].state = "accepted" => binding.post # NoMsg
    /\ \A w \in Workers :
         /\ proc[w].pc \in {"renew", "finish"} /\ proc[w].result = "accepted"
         /\ Lifecycle(proc[w].msg)
         => binding.post # NoMsg

\* The post of message m exists, or a request to create it is on its way.
Creator(m) ==
    \/ shown[m] # NoMsg
    \/ \E w \in Workers : proc[w].pc \in {"call", "wait"} /\ proc[w].op = "post" /\ proc[w].msg = m
    \/ \E r \in flight : r.op = "post" /\ r.msg = m

OneCreator ==
    faults["lapse"] = 0 =>
        \A p, q \in Msgs : Lifecycle(p) /\ Lifecycle(q) /\ Creator(p) /\ Creator(q) => p = q

LEMMA LifecycleStays ==
    ASSUME TypeOK, [Next]_vars
    PROVE  /\ \A m \in Msgs : Lifecycle(m)' <=> Lifecycle(m)
           /\ \A w \in Workers : proc[w].pc # "idle" => proc[w].msg \in Msgs
  BY KindsKept DEF KindsStay, Lifecycle, Kind, TypeOK

LEMMA NextAimed == TypeOK /\ TypeOK' /\ Aimed /\ [Next]_vars => Aimed'
  <1> SUFFICES ASSUME TypeOK, TypeOK', Aimed, [Next]_vars PROVE Aimed'
    OBVIOUS
  <1>1. /\ \A m \in Msgs : Lifecycle(m)' <=> Lifecycle(m)
        /\ \A w \in Workers : proc[w].pc # "idle" => proc[w].msg \in Msgs
    BY LifecycleStays
  <1>2. CASE UNCHANGED proc
    BY <1>1, <1>2 DEF Aimed
  <1>3. ASSUME NEW w \in Workers, Did(w), \A v \in Workers \ {w} : proc'[v] = proc[v] PROVE Aimed'
    <2> DEFINE Aims(v) == /\ proc[v].pc \in {"call", "wait", "record"} /\ Lifecycle(proc[v].msg)
                          /\ proc[v].op # "post"
                          => proc[v].post # NoMsg
    <2>1. \A v \in Workers : Aims(v)
      BY DEF Aimed
    <2>2. ASSUME NEW v \in Workers \ {w} PROVE Aims(v)'
      BY <1>1, <1>3, <2>1, <2>2
    <2>3. Aims(w)'
      <3>1. CASE Refreshes(w) \/ Works(w) \/ Creates(w)
        BY <1>1, <3>1 DEF Refreshes, Works, Creates, Posting
      <3>2. CASE Sends(w) \/ Reaches(w) \/ Hears(w)
        BY <1>1, <2>1, <3>2 DEF Sends, Reaches, Hears, Keeps
      <3>3. CASE Notes(w)
        BY <3>3 DEF Notes
      <3>4. CASE Waits(w) \/ Enters(w) \/ Leaves(w) \/ Claims(w) \/ Judges(w) \/ Anchors(w)
                 \/ Ceases(w) \/ GivesUp(w)
        BY <3>4 DEF Waits, Enters, Leaves, Claims, Judges, Anchors, Ceases, GivesUp
      <3> QED
        BY <1>3, <3>1, <3>2, <3>3, <3>4 DEF Did
    <2> QED
      BY <2>2, <2>3 DEF Aimed
  <1> QED
    BY <1>2, <1>3, StepIs, WorkerDid DEF LateLand, Vanish, Elsewhere

\* A recorded status post stays recorded.
LEMMA PostStays ==
    ASSUME TypeOK, TypeOK', Aimed, [Next]_vars
    PROVE  /\ binding.post # NoMsg => binding'.post # NoMsg
           /\ \A w \in Workers : Anchors(w) => binding'.post # NoMsg
  <1>1. \A w \in Workers : Anchors(w) => binding'.post # NoMsg
    BY LifecycleStays, NameAssumption DEF Anchors, Aimed
  <1>2. ASSUME NEW w \in Workers, Did(w), ~Anchors(w) PROVE UNCHANGED binding
    BY <1>2 DEF Did, Waits, Enters, Leaves, Claims, Judges, Creates, Refreshes, Works, Sends, Reaches,
                Hears, Notes, Ceases, GivesUp, Posting
  <1> QED
    BY <1>1, <1>2, StepIs, WorkerDid DEF LateLand, Vanish, Elsewhere

LEMMA NextRecorded ==
    TypeOK /\ TypeOK' /\ OpsFit /\ Aimed /\ Recorded /\ [Next]_vars => Recorded'
  <1> SUFFICES ASSUME TypeOK, TypeOK', OpsFit, Aimed, Recorded, [Next]_vars PROVE Recorded'
    OBVIOUS
  <1>1. /\ \A m \in Msgs : row'[m].kind = row[m].kind
        /\ \A w \in Workers : proc[w].pc # "idle" => proc[w].msg \in Msgs
    BY KindsKept DEF KindsStay, TypeOK
  <1>2. binding.post # NoMsg => binding'.post # NoMsg
    BY PostStays
  <1>3. ASSUME NEW m \in Msgs, row'[m].kind = "lifecycle", row'[m].state = "accepted" PROVE binding'.post # NoMsg
    BY <1>1, <1>2, <1>3, AcceptedFrom DEF Recorded, Lifecycle, Kind
  <1>4. ASSUME NEW v \in Workers, proc'[v].pc \in {"renew", "finish"}, proc'[v].result = "accepted",
               row'[proc'[v].msg].kind = "lifecycle"
        PROVE  binding'.post # NoMsg
    <2>1. CASE proc'[v] = proc[v]
      BY <1>1, <1>2, <1>4, <2>1 DEF Recorded, Lifecycle, Kind
    <2>2. CASE Did(v)
      <3>1. CASE Anchors(v)
        BY <3>1, PostStays
      <3>2. CASE Notes(v)
        BY <1>1, <1>4, <3>2 DEF Notes, Lifecycle, Kind
      <3>3. CASE Ceases(v)
        BY <1>1, <1>2, <1>4, <3>3 DEF Ceases, Recorded, Lifecycle, Kind
      <3>4. CASE \/ Waits(v) \/ Enters(v) \/ Leaves(v) \/ Claims(v) \/ Judges(v) \/ Creates(v)
                 \/ Refreshes(v) \/ Works(v) \/ Sends(v) \/ Reaches(v) \/ Hears(v) \/ GivesUp(v)
        BY <1>4, <3>4 DEF Waits, Enters, Leaves, Claims, Judges, Creates, Refreshes, Works, Sends,
                          Reaches, Hears, GivesUp
      <3> QED
        BY <2>2, <3>1, <3>2, <3>3, <3>4 DEF Did
    <2> QED
      BY <2>1, <2>2, StepIs, WorkerDid DEF LateLand, Vanish, Elsewhere
  <1> QED
    BY <1>3, <1>4 DEF Recorded, Lifecycle, Kind

LEMMA NextJudged ==
    TypeOK /\ TypeOK' /\ Locked /\ Judged /\ [Next]_vars => Judged'
  <1> SUFFICES ASSUME TypeOK, TypeOK', Locked, Judged, [Next]_vars,
                      NEW v \in Workers, proc'[v].pc = "ambiguous"
               PROVE  row'[proc'[v].msg].kind = "lifecycle" /\ (faults'["lapse"] = 0 => binding'.post = NoMsg)
    BY DEF Judged, Lifecycle, Kind
  <1>1. /\ \A m \in Msgs : row'[m].kind = row[m].kind
        /\ \A w \in Workers : proc[w].pc # "idle" => proc[w].msg \in Msgs
    BY KindsKept DEF KindsStay, TypeOK
  <1>2. faults'["lapse"] = 0 => faults["lapse"] = 0
    BY FaultsOnlyGrow DEF FaultsGrow, FaultKinds, TypeOK
  <1>3. ASSUME NEW w \in Workers, Did(w), \A u \in Workers \ {w} : proc'[u] = proc[u]
        PROVE  row'[proc'[v].msg].kind = "lifecycle" /\ (faults'["lapse"] = 0 => binding'.post = NoMsg)
    <2>1. CASE Judges(w)
      BY <1>1, <1>2, <1>3, <2>1 DEF Judges, Judged, Posting, Lifecycle, Kind
    <2>2. CASE Anchors(w)
      BY <1>1, <1>2, <1>3, <2>2 DEF Anchors, Judged, Locked, Lifecycle, Kind
    <2>3. CASE UNCHANGED binding /\ proc'[w].pc # "ambiguous"
      BY <1>1, <1>2, <1>3, <2>3 DEF Judged, Lifecycle, Kind
    <2>4. Judges(w) \/ Anchors(w) \/ (UNCHANGED binding /\ proc'[w].pc # "ambiguous")
      BY <1>3 DEF Did, Waits, Enters, Leaves, Claims, Creates, Refreshes, Works, Sends, Reaches,
                  Hears, Notes, Ceases, GivesUp, Posting
    <2> QED
      BY <2>1, <2>2, <2>3, <2>4
  <1>4. ASSUME UNCHANGED proc, binding'.post = binding.post
        PROVE  row'[proc'[v].msg].kind = "lifecycle" /\ (faults'["lapse"] = 0 => binding'.post = NoMsg)
    BY <1>1, <1>2, <1>4 DEF Judged, Lifecycle, Kind
  <1> QED
    BY <1>3, <1>4, StepIs, WorkerDid DEF LateLand, Vanish, Elsewhere

\* What a request that lands does to the posts shown.
LEMMA LandsShow ==
    ASSUME TypeOK, NEW m \in Msgs, NEW op \in {"post", "update", "delete"}, NEW post, Lands(m, op, post)
    PROVE  /\ \A p \in Msgs : shown'[p] # NoMsg => shown[p] # NoMsg \/ (op = "post" /\ p = m)
           /\ \A p \in Msgs : reached'[p] >= reached[p]
           /\ op = "post" => reached'[m] >= 1
  <1>1. shown \in [Msgs -> Posts] /\ reached \in [Msgs -> Nat]
    BY DEF TypeOK
  <1>2. CASE op = "post"
    BY <1>1, <1>2 DEF Lands
  <1>3. CASE op = "update"
    BY <1>1, <1>3 DEF Lands
  <1>4. CASE op = "delete"
    BY <1>1, <1>4 DEF Lands
  <1> QED
    BY <1>2, <1>3, <1>4

\* Posts appear, and messages reach the conversation, only when a request lands.
LEMMA ShownFrom ==
    ASSUME TypeOK, TypeOK', [Next]_vars
    PROVE  \/ UNCHANGED <<shown, reached>>
           \/ \E w \in Workers : Reaches(w)
           \/ \E r \in flight : LateLand(r)
  <1>1. ASSUME NEW w \in Workers, Did(w), ~Reaches(w) PROVE UNCHANGED <<shown, reached>>
    BY <1>1 DEF Did, Waits, Enters, Leaves, Claims, Judges, Creates, Refreshes, Works, Sends, Hears,
                Anchors, Notes, Ceases, GivesUp, Posting
  <1> QED
    BY <1>1, StepIs, WorkerDid DEF Vanish, Elsewhere

LEMMA NextSent == TypeOK /\ TypeOK' /\ Sent /\ [Next]_vars => Sent'
  <1> SUFFICES ASSUME TypeOK, TypeOK', Sent, [Next]_vars, NEW p \in Msgs, shown'[p] # NoMsg
               PROVE  reached'[p] >= 1
    BY DEF Sent
  <1>1. reached \in [Msgs -> Nat] /\ reached' \in [Msgs -> Nat]
    BY DEF TypeOK
  <1>2. CASE UNCHANGED <<shown, reached>>
    BY <1>2 DEF Sent
  <1>3. ASSUME NEW m \in Msgs, NEW op \in {"post", "update", "delete"}, NEW post, Lands(m, op, post)
        PROVE  reached'[p] >= 1
    BY <1>1, <1>3, LandsShow DEF Sent
  <1>4. ASSUME NEW w \in Workers, Reaches(w) PROVE reached'[p] >= 1
    BY <1>3, <1>4 DEF Reaches, TypeOK, Procs
  <1>5. ASSUME NEW r \in flight, LateLand(r) PROVE reached'[p] >= 1
    BY <1>3, <1>5 DEF LateLand, TypeOK, Requests
  <1> QED
    BY <1>2, <1>4, <1>5, ShownFrom

\* A post comes to be, or to be asked for, only where ambiguity was ruled out.
LEMMA CreatorFrom ==
    ASSUME TypeOK, TypeOK', [Next]_vars, NEW m \in Msgs, Lifecycle(m), Creator(m)', ~Creator(m)
    PROVE  \E w \in Workers : Creates(w) /\ proc[w].msg = m
  <1>1. /\ shown[m] = NoMsg /\ \A r \in flight : ~(r.op = "post" /\ r.msg = m)
        /\ \A w \in Workers : ~(proc[w].pc \in {"call", "wait"} /\ proc[w].op = "post" /\ proc[w].msg = m)
    BY DEF Creator
  <1>2. shown'[m] = NoMsg
    <2>1. ASSUME NEW w \in Workers, Reaches(w) PROVE shown'[m] = NoMsg
      <3>1. /\ proc[w].msg \in Msgs /\ proc[w].op \in {"post", "update", "delete"}
            /\ Lands(proc[w].msg, proc[w].op, proc[w].post)
        BY <2>1 DEF Reaches, TypeOK, Procs
      <3>2. ~(proc[w].op = "post" /\ proc[w].msg = m)
        BY <1>1, <2>1 DEF Reaches
      <3> QED
        BY <1>1, <3>1, <3>2, LandsShow
    <2>2. ASSUME NEW r \in flight, LateLand(r) PROVE shown'[m] = NoMsg
      <3>1. r.msg \in Msgs /\ r.op \in {"post", "update", "delete"} /\ Lands(r.msg, r.op, r.post)
        BY <2>2 DEF LateLand, TypeOK, Requests
      <3> QED
        BY <1>1, <3>1, LandsShow
    <2> QED
      BY <1>1, <2>1, <2>2, ShownFrom
  <1>3. CASE \E r \in flight : LateLand(r) \/ Vanish(r)
    BY <1>1, <1>2, <1>3 DEF Creator, LateLand, Vanish
  <1>4. CASE Elsewhere
    BY <1>1, <1>2, <1>4 DEF Creator, Elsewhere
  <1>5. ASSUME NEW w \in Workers, Did(w), \A v \in Workers \ {w} : proc'[v] = proc[v],
               ~(Creates(w) /\ proc[w].msg = m)
        PROVE  FALSE
    <2>1. CASE GivesUp(w)
      <3>1. \A r \in flight' : r \in flight \/ (proc[w].pc = "wait" /\ r.op = proc[w].op /\ r.msg = proc[w].msg)
        BY <2>1 DEF GivesUp, Abandon
      <3> QED
        BY <1>1, <1>2, <1>5, <2>1, <3>1 DEF Creator, GivesUp
    <2>2. CASE Sends(w)
      BY <1>1, <1>2, <1>5, <2>2 DEF Creator, Sends, Keeps, Posting
    <2>3. CASE Reaches(w)
      BY <1>1, <1>2, <1>5, <2>3 DEF Creator, Reaches, Keeps
    <2>4. CASE Creates(w) \/ Refreshes(w)
      BY <1>1, <1>2, <1>5, <2>4 DEF Creator, Creates, Refreshes, Posting
    <2>5. CASE Works(w) \/ Notes(w)
      BY <1>1, <1>2, <1>5, <2>5 DEF Creator, Works, Notes, Posting, Lifecycle
    <2>6. CASE Waits(w) \/ Enters(w) \/ Leaves(w) \/ Claims(w) \/ Judges(w) \/ Hears(w)
               \/ Anchors(w) \/ Ceases(w)
      BY <1>1, <1>2, <1>5, <2>6
         DEF Creator, Waits, Enters, Leaves, Claims, Judges, Hears, Anchors, Ceases, Posting
    <2> QED
      BY <1>5, <2>1, <2>2, <2>3, <2>4, <2>5, <2>6 DEF Did
  <1> QED
    BY <1>3, <1>4, <1>5, StepIs, WorkerDid

\* An older creation is seen: its row is sending or uncertain, or its post recorded.
LEMMA CreatorSeen ==
    ASSUME TypeOK, ReceiptInv, Sent, Recorded, NEW m \in Msgs, Lifecycle(m), Creator(m)
    PROVE  Open(m) \/ binding.post # NoMsg
  <1>1. ASSUME NEW w \in Workers, proc[w].pc \in {"call", "wait"}, proc[w].msg = m PROVE Open(m)
    BY <1>1 DEF ReceiptInv, Held, Attempting
  <1>2. ASSUME NEW r \in flight, r.msg = m PROVE Open(m)
    BY <1>2 DEF ReceiptInv, Adrift
  <1>3. ASSUME shown[m] # NoMsg PROVE Open(m) \/ binding.post # NoMsg
    <2>1. reached[m] >= 1 /\ row[m].state \in States
      BY <1>3 DEF Sent, TypeOK, Rows
    <2>2. row[m].state \in {"sending", "accepted", "uncertain"}
      BY <2>1 DEF ReceiptInv, ReceiptTruthful, States
    <2> QED
      BY <2>2 DEF Open, Recorded
  <1> QED
    BY <1>1, <1>2, <1>3 DEF Creator

LEMMA NextCreator ==
    TypeOK /\ TypeOK' /\ ReceiptInv /\ Sent /\ Judged /\ Recorded /\ OneCreator /\ [Next]_vars
    => OneCreator'
  <1> SUFFICES ASSUME TypeOK, TypeOK', ReceiptInv, Sent, Judged, Recorded, OneCreator, [Next]_vars,
                      faults'["lapse"] = 0, NEW p \in Msgs, NEW q \in Msgs,
                      Lifecycle(p), Lifecycle(q), Creator(p)', Creator(q)'
               PROVE  p = q
    BY KindsKept DEF OneCreator, Lifecycle, Kind, KindsStay
  <1>1. faults["lapse"] = 0
    BY FaultsOnlyGrow DEF FaultsGrow, FaultKinds, TypeOK
  <1>2. ASSUME NEW w \in Workers, Creates(w), NEW k \in Msgs, Lifecycle(k), Creator(k)
        PROVE  k = proc[w].msg
    <2>1. binding.post = NoMsg /\ ~Ambiguous(proc[w].msg)
      BY <1>1, <1>2 DEF Creates, Judged
    <2>2. Open(k)
      BY <1>2, <2>1, CreatorSeen
    <2> QED
      BY <1>2, <2>1, <2>2 DEF Ambiguous, Open, Lifecycle
  <1>3. CASE Creator(p) /\ Creator(q)
    BY <1>1, <1>3 DEF OneCreator
  <1>4. CASE Creator(p) /\ ~Creator(q)
    BY <1>2, <1>4, CreatorFrom
  <1>5. CASE ~Creator(p) /\ Creator(q)
    BY <1>2, <1>5, CreatorFrom
  <1>6. CASE ~Creator(p) /\ ~Creator(q)
    <2>1. PICK v \in Workers : Creates(v) /\ proc[v].msg = p
      BY <1>6, CreatorFrom
    <2>2. PICK w \in Workers : Creates(w) /\ proc[w].msg = q
      BY <1>6, CreatorFrom
    <2>3. /\ proc'[v].pc = "call" /\ proc'[w].pc = "call"
          /\ proc[v].pc = "ambiguous" /\ proc[w].pc = "ambiguous"
      BY <2>1, <2>2 DEF Creates
    <2> QED
      BY <2>1, <2>2, <2>3, StepIs, WorkerDid DEF LateLand, Vanish, Elsewhere
  <1> QED
    BY <1>3, <1>4, <1>5, <1>6

StatusInv == Locked /\ Sent /\ Aimed /\ Judged /\ Recorded /\ OneCreator

LEMMA InitStatus == Init => StatusInv
  <1> SUFFICES ASSUME Init PROVE StatusInv
    OBVIOUS
  <1>1. /\ \A w \in Workers : proc[w].pc = "idle"
        /\ \A m \in Msgs : row[m].state = "absent" /\ shown[m] = NoMsg
        /\ flight = {}
    BY DEF Init, Idle
  <1> QED
    BY <1>1 DEF StatusInv, Locked, Sent, Aimed, Judged, Recorded, OneCreator, Creator

LEMMA StatusHolds == Spec => [](TypeOK /\ OpsFit /\ ReceiptInv /\ StatusInv)
  <1> DEFINE I == TypeOK /\ OpsFit /\ ReceiptInv /\ StatusInv
  <1>1. Init => I
    BY InitType, InitReceipt, InitStatus
  <1>2. I /\ [Next]_vars => I'
    <2> SUFFICES ASSUME I, [Next]_vars PROVE I'
      OBVIOUS
    <2>1. TypeOK' /\ OpsFit' /\ ReceiptInv'
      BY NextType, NextOpsFit, NextReceipt
    <2>2. Locked' /\ Sent' /\ Aimed' /\ Judged' /\ Recorded' /\ OneCreator'
      BY <2>1, NextLocked, NextSent, NextAimed, NextJudged, NextRecorded, NextCreator DEF StatusInv
    <2> QED
      BY <2>1, <2>2 DEF StatusInv
  <1> QED
    BY <1>1, <1>2, PTL DEF Spec

\* One lifecycle post at most exists in a conversation while the lock holds,
\* whatever crashes, lost answers, failed writes and moves: who creates it has
\* found no post recorded and no older attempt in doubt, and every older
\* creation shows as one or the other (hasAmbiguousLifecyclePostCreation).
THEOREM OneStatus == Spec => []OneStatusPost
  <1>1. StatusInv => OneStatusPost
    BY DEF StatusInv, OneCreator, Creator, OneStatusPost, Lifecycle
  <1> QED
    BY <1>1, StatusHolds, PTL

-----------------------------------------------------------------------------
(* An archived incident stays quiet.                                       *)

\* A row that waits for an attempt was not left behind by one.
NotStale == \A m \in Msgs : row[m].state \in {"absent", "queued"} => ~row[m].stale

AtWork(w) == proc[w].pc \in {"read", "ambiguous", "call", "wait", "record"}

\* Nothing but its own worker ends an attempt.
Peace == incident.connected /\ \A f \in {"lapse", "stall", "move"} : faults[f] = 0

\* An attempt at work keeps its row sending, which is what archiving waits for.
RowsInHand ==
    Peace => \A w \in Workers : AtWork(w) =>
        /\ row[proc[w].msg].state = "sending" /\ ~row[proc[w].msg].stale
        /\ ~incident.archived

LEMMA PutFresh ==
    ASSUME TypeOK, NotStale, NEW m \in Msgs, NEW from, NEW r, Put(m, from, r),
           r.state \in {"absent", "queued"} => ~r.stale
    PROVE  NotStale'
  BY DEF TypeOK, NotStale, Put

LEMMA RowsMade ==
    ASSUME TypeOK, NEW m \in Msgs
    PROVE  /\ \A s : [row[m] EXCEPT !.state = s].state = s
           /\ Later(m).state = "queued" /\ ~Later(m).stale
           /\ [row[m] EXCEPT !.due = "now"].state = row[m].state
           /\ [row[m] EXCEPT !.due = "now"].stale = row[m].stale
           /\ [row[m] EXCEPT !.stale = TRUE].state = row[m].state
  BY DEF TypeOK, Rows, Later

LEMMA NextNotStale == TypeOK /\ NotStale /\ [Next]_vars => NotStale'
  <1> SUFFICES ASSUME TypeOK, NotStale, [Next]_vars PROVE NotStale'
    OBVIOUS
  <1>1. row \in [Msgs -> Rows] /\ \A w \in Workers : proc[w].pc # "idle" => proc[w].msg \in Msgs
    BY DEF TypeOK
  <1>2. CASE UNCHANGED row
    BY <1>2 DEF NotStale
  <1>3. ASSUME NEW m \in Msgs, NEW from, NEW s \in States \ {"absent", "queued"},
               Put(m, from, [row[m] EXCEPT !.state = s])
        PROVE  NotStale'
    <2>1. [row[m] EXCEPT !.state = s].state = s
      BY RowsMade
    <2> QED
      BY <1>3, <2>1, PutFresh
  <1>4. ASSUME NEW m \in Msgs, NEW from, Put(m, from, Later(m)) PROVE NotStale'
    BY <1>4, RowsMade, PutFresh
  <1>5. ASSUME NEW w \in Workers, Worker(w) PROVE NotStale'
    <2>1. ASSUME NEW m \in Msgs, Begin(w, m) PROVE NotStale'
      BY <1>2, <1>3, <2>1 DEF Begin, States
    <2>2. CASE Defer(w) \/ Requeue(w)
      BY <1>1, <1>2, <1>4, <2>2 DEF Defer, Requeue
    <2>3. CASE Claim(w)
      BY <1>1, <1>2, <1>3, <2>3 DEF Claim, States
    <2>4. CASE Finish(w)
      <3>1. proc[w].msg \in Msgs /\ proc[w].result \in States \ {"absent", "queued"}
        BY <1>1, <2>4 DEF Finish, TypeOK, Terminal, States
      <3> QED
        BY <1>2, <1>3, <2>4, <3>1 DEF Finish
    <2>5. CASE UNCHANGED row
      BY <1>2, <2>5
    <2> QED
      BY <1>5, <2>1, <2>2, <2>3, <2>4, <2>5
         DEF Worker, Acquire, ReadStatus, CheckAmbiguous, ReadWorking, Send, Answered, Rejected,
             RateLimited, Lost, RecordStatus, RecordWorking, Errs, Renew, Release
  <1>6. ASSUME NEW s \in {"sending", "uncertain"}, Sweep("blocked", s) PROVE NotStale'
    <2> SUFFICES ASSUME NEW m \in Msgs, row'[m].state \in {"absent", "queued"} PROVE ~row'[m].stale
      BY DEF NotStale
    <2>1. CASE row[m].state \in {"queued", "sending"}
      BY <1>1, <1>6, <2>1 DEF Sweep, Rows
    <2>2. CASE row[m].state \notin {"queued", "sending"}
      BY <1>6, <2>2 DEF Sweep, NotStale
    <2> QED
      BY <2>1, <2>2
  <1>7. CASE Conversation
    BY <1>6, <1>7 DEF Conversation, Archive, Disconnect, Move
  <1>8. CASE Remote
    BY <1>2, <1>8 DEF Remote, Land, LateLand, Vanish
  <1>9. CASE Environment
    <2>1. ASSUME NEW m \in Msgs, NEW n, Enqueue(m, n) PROVE NotStale'
      <3>1. /\ row' = [row EXCEPT ![m] = [row[m] EXCEPT !.state = "queued", !.assignment = binding.assignment]]
            /\ row[m].state = "absent"
        BY <2>1 DEF Enqueue
      <3>2. [row[m] EXCEPT !.state = "queued", !.assignment = binding.assignment].stale = row[m].stale
        BY <1>1 DEF Rows
      <3> QED
        BY <1>1, <3>1, <3>2 DEF NotStale
    <2>2. ASSUME NEW m \in Msgs, BecomeDue(m) PROVE NotStale'
      BY <1>1, <2>2, RowsMade DEF NotStale, BecomeDue
    <2>3. ASSUME NEW m \in Msgs, Age(m) \/ Stall(m) PROVE NotStale'
      BY <1>1, <2>3, RowsMade DEF NotStale, Age, Stall, GrowsOld
    <2>4. ASSUME NEW m \in Msgs, MarkStale(m) PROVE NotStale'
      BY <1>1, <2>4, RowsMade DEF NotStale, MarkStale
    <2>5. CASE Expire \/ Lapse \/ \E w \in Workers : Crash(w)
      BY <1>2, <2>5 DEF Expire, Lapse, Crash
    <2> QED
      BY <1>9, <2>1, <2>2, <2>3, <2>4, <2>5 DEF Environment
  <1> QED
    BY <1>2, <1>5, <1>7, <1>8, <1>9 DEF Next, vars

\* A worker changes a row that is sending only to end its own attempt.
LEMMA SendingKept ==
    ASSUME TypeOK, NEW w \in Workers, Worker(w) \/ Land(w) \/ Crash(w), NEW m \in Msgs,
           row[m].state = "sending", row'[m] # row[m]
    PROVE  proc[w].pc \in {"finish", "requeue"}
  <1>1. row \in [Msgs -> Rows] /\ (proc[w].pc # "idle" => proc[w].msg \in Msgs)
    BY DEF TypeOK
  <1>2. ASSUME NEW k \in Msgs, NEW r, Put(k, "queued", r) PROVE FALSE
    BY <1>1, <1>2 DEF Put
  <1>3. ~UNCHANGED row
    OBVIOUS
  <1>4. \A k \in Msgs : ~Begin(w, k)
    BY <1>2, <1>3 DEF Begin
  <1>5. ~Defer(w) /\ ~Claim(w)
    BY <1>1, <1>2, <1>3 DEF Defer, Claim
  <1>6. Finish(w) \/ Requeue(w)
    BY <1>3, <1>4, <1>5
       DEF Worker, Acquire, ReadStatus, CheckAmbiguous, ReadWorking, Send, Answered, Rejected,
           RateLimited, Lost, RecordStatus, RecordWorking, Errs, Renew, Release, Land, Crash
  <1> QED
    BY <1>6 DEF Finish, Requeue

LEMMA NextInHand ==
    TypeOK /\ TypeOK' /\ Locked /\ NotStale /\ RowsInHand /\ [Next]_vars => RowsInHand'
  <1> SUFFICES ASSUME TypeOK, TypeOK', Locked, NotStale, RowsInHand, [Next]_vars, Peace',
                      NEW w \in Workers, AtWork(w)'
               PROVE  /\ row'[proc'[w].msg].state = "sending" /\ ~row'[proc'[w].msg].stale
                      /\ ~incident'.archived
    BY DEF RowsInHand
  <1> DEFINE Goal == /\ row'[proc'[w].msg].state = "sending" /\ ~row'[proc'[w].msg].stale
                     /\ ~incident'.archived
  <1>1. /\ incident \in [archived : BOOLEAN, connected : BOOLEAN]
        /\ row \in [Msgs -> Rows] /\ faults \in [FaultKinds -> Nat] /\ faults' \in [FaultKinds -> Nat]
        /\ \A v \in Workers : proc[v].pc # "idle" => proc[v].msg \in Msgs
    BY DEF TypeOK, FaultKinds
  <1>2. \A f \in {"lapse", "stall", "move"} : faults[f] = 0 /\ faults'[f] = 0
    BY <1>1, FaultsOnlyGrow DEF FaultsGrow, FaultKinds, Peace
  <1>3. ASSUME incident.connected, NEW v \in Workers, AtWork(v)
        PROVE  /\ row[proc[v].msg].state = "sending" /\ ~row[proc[v].msg].stale
               /\ ~incident.archived /\ lock = v /\ proc[v].msg \in Msgs
    BY <1>1, <1>2, <1>3 DEF RowsInHand, Peace, AtWork, Locked
  <1>4. ASSUME NEW v \in Workers, Worker(v) \/ Land(v) \/ Crash(v) PROVE Goal
    <2>1. Did(v) /\ \A u \in Workers \ {v} : proc'[u] = proc[u]
      BY <1>4, WorkerDid
    <2>2. UNCHANGED incident
      BY <2>1 DEF Did, Waits, Enters, Leaves, Claims, Judges, Creates, Refreshes, Works, Sends,
                  Reaches, Hears, Anchors, Notes, Ceases, GivesUp
    <2>3. CASE v # w
      <3>1. AtWork(w) /\ proc'[w] = proc[w] /\ incident.connected
        BY <2>1, <2>2, <2>3 DEF AtWork, Peace
      <3>2. lock # v /\ proc[v].pc \in {"idle", "lock"}
        BY <1>2, <1>3, <2>3, <3>1 DEF Locked
      <3>3. row'[proc[w].msg] = row[proc[w].msg]
        BY <1>3, <1>4, <3>1, <3>2, SendingKept
      <3> QED
        BY <1>3, <2>2, <3>1, <3>3
    <2>4. CASE v = w /\ AtWork(w)
      <3>1. proc'[w].msg = proc[w].msg
        BY <2>1, <2>4 DEF AtWork, Did, Waits, Enters, Leaves, Claims, Judges, Creates, Refreshes, Works,
                          Sends, Reaches, Hears, Anchors, Notes, Ceases, GivesUp, Keeps
      <3>2. row'[proc[w].msg] = row[proc[w].msg]
        BY <1>3, <1>4, <2>2, <2>4, SendingKept DEF AtWork, Peace
      <3> QED
        BY <1>3, <2>2, <2>4, <3>1, <3>2 DEF Peace
    <2>5. CASE v = w /\ ~AtWork(w)
      <3>1. Claims(w) /\ proc'[w].pc = "read"
        BY <2>1, <2>5 DEF AtWork, Did, Waits, Enters, Leaves, Claims, Judges, Creates, Refreshes, Works,
                          Sends, Reaches, Hears, Anchors, Notes, Ceases, GivesUp
      <3>2. proc[w].msg \in Msgs
        BY <1>1, <3>1 DEF Claims
      <3> QED
        BY <2>2, <3>1, <3>2 DEF Claims, NotStale
    <2> QED
      BY <2>3, <2>4, <2>5
  <1>5. ASSUME UNCHANGED <<proc, incident>>,
               \A m \in Msgs : row[m].state = "sending" /\ ~row[m].stale /\ InHand(m) => row'[m] = row[m]
        PROVE  Goal
    <2>1. AtWork(w) /\ incident.connected
      BY <1>5 DEF AtWork, Peace
    <2>2. InHand(proc[w].msg)
      BY <2>1 DEF InHand, AtWork
    <2> QED
      BY <1>3, <1>5, <2>1, <2>2
  <1>6. CASE Archive
    <2>1. incident.connected /\ UNCHANGED proc
      BY <1>1, <1>6 DEF Archive, Peace
    <2> QED
      BY <1>3, <1>6, <2>1 DEF Archive, AtWork
  <1>7. CASE Disconnect \/ Move
    <2>1. ~Disconnect
      <3> SUFFICES ASSUME Disconnect PROVE FALSE
        OBVIOUS
      <3>1. incident' = [incident EXCEPT !.connected = FALSE]
        BY DEF Disconnect
      <3>2. ~incident'.connected
        BY <1>1, <3>1
      <3> QED
        BY <3>2 DEF Peace
    <2>2. ~Move
      <3> SUFFICES ASSUME Move PROVE FALSE
        OBVIOUS
      <3>1. faults["move"] = 0 /\ faults'["move"] = 0
        BY <1>2
      <3>2. faults' = [faults EXCEPT !["move"] = faults["move"] + 1]
        BY DEF Move, Suffer
      <3>3. faults'["move"] = faults["move"] + 1
        BY <1>1, <3>2 DEF FaultKinds
      <3> QED
        BY <3>1, <3>3
    <2> QED
      BY <1>7, <2>1, <2>2
  <1>8. CASE Remote /\ \A v \in Workers : ~Land(v)
    BY <1>5, <1>8 DEF Remote, LateLand, Vanish
  <1>9. CASE Environment /\ \A v \in Workers : ~Crash(v)
    <2>1. ASSUME NEW m \in Msgs, NEW n, Enqueue(m, n) PROVE Goal
      BY <1>1, <1>5, <2>1 DEF Enqueue, Ambient
    <2>2. ASSUME NEW m \in Msgs, BecomeDue(m) PROVE Goal
      BY <1>1, <1>5, <2>2 DEF BecomeDue, Ambient
    <2>3. ASSUME NEW m \in Msgs, Age(m) PROVE Goal
      BY <1>1, <1>5, <2>3 DEF Age, GrowsOld, Ambient
    <2>4. ASSUME NEW m \in Msgs, Stall(m) PROVE Goal
      BY <1>1, <1>2, <2>4 DEF Stall, Suffer, FaultKinds
    <2>5. ASSUME NEW m \in Msgs, MarkStale(m) PROVE Goal
      BY <1>1, <1>5, <2>5 DEF MarkStale, Ambient
    <2>6. CASE Expire \/ Lapse
      BY <1>5, <2>6 DEF Expire, Lapse
    <2> QED
      BY <1>9, <2>1, <2>2, <2>3, <2>4, <2>5, <2>6 DEF Environment
  <1>10. CASE UNCHANGED vars
    BY <1>5, <1>10 DEF vars
  <1> QED
    BY <1>4, <1>6, <1>7, <1>8, <1>9, <1>10 DEF Next, Conversation, Remote, Environment

\* An attempt that sends a request works on a row that is still sending, and
\* archiving has waited for all of those.
THEOREM QuietOnceArchived == Spec => ArchivedIsQuiet
  <1> DEFINE I == TypeOK /\ Locked /\ NotStale /\ RowsInHand
             Quiet == \A w \in Workers :
                        proc[w].pc = "call" /\ proc'[w].pc = "wait" =>
                            \/ ~incident.archived \/ ~incident.connected
                            \/ \E f \in {"stall", "lapse", "move"} : faults[f] > 0
  <1>1. Init => I
    <2>1. ASSUME Init
          PROVE  (\A w \in Workers : proc[w].pc = "idle") /\ \A m \in Msgs : ~row[m].stale
      BY <2>1 DEF Init, Idle
    <2> QED
      BY <2>1, InitType DEF Locked, NotStale, RowsInHand, AtWork
  <1>2. I /\ [Next]_vars => I'
    BY NextType, NextLocked, NextNotStale, NextInHand
  <1>3. I => Quiet
    BY DEF RowsInHand, AtWork, Peace, TypeOK
  <1>4. I /\ [Next]_vars => [Quiet]_vars
    BY <1>3
  <1> QED
    BY <1>1, <1>2, <1>4, PTL DEF Spec, ArchivedIsQuiet

-----------------------------------------------------------------------------
(* Undisturbed conversations: with the lock, the steps of an attempt on a  *)
(* mutable post, from reading which post it is to recording it, are alone. *)

\* The binding keeps its assignment unless it is moved.
AssignmentsStay == \A m \in Msgs : row'[m].assignment = row[m].assignment

Assigned == faults["move"] = 0 =>
    binding.assignment = 0 /\ \A m \in Msgs : row[m].assignment = 0

LEMMA PutAssignment ==
    ASSUME TypeOK, NEW m \in Msgs, NEW from, NEW r, Put(m, from, r), r.assignment = row[m].assignment
    PROVE  AssignmentsStay
  BY DEF TypeOK, Put, AssignmentsStay

LEMMA AssignmentsKept ==
    ASSUME TypeOK, [Next]_vars, \A m \in Msgs : \A n \in 0..MaxWakes : ~Enqueue(m, n)
    PROVE  AssignmentsStay
  <1>1. row \in [Msgs -> Rows] /\ \A w \in Workers : proc[w].pc # "idle" => proc[w].msg \in Msgs
    BY DEF TypeOK
  <1>2. ASSUME NEW m \in Msgs
        PROVE  /\ Later(m).assignment = row[m].assignment
               /\ \A s : [row[m] EXCEPT !.state = s].assignment = row[m].assignment
               /\ [row[m] EXCEPT !.stale = TRUE].assignment = row[m].assignment
               /\ [row[m] EXCEPT !.due = "now"].assignment = row[m].assignment
    BY <1>1 DEF Rows, Later
  <1>3. CASE UNCHANGED row
    BY <1>3 DEF AssignmentsStay
  <1>4. ASSUME NEW w \in Workers, Worker(w) PROVE AssignmentsStay
    <2>1. ASSUME NEW m \in Msgs, Begin(w, m) PROVE AssignmentsStay
      BY <1>2, <1>3, <2>1, PutAssignment DEF Begin
    <2>2. CASE Defer(w) \/ Requeue(w)
      BY <1>1, <1>2, <1>3, <2>2, PutAssignment DEF Defer, Requeue
    <2>3. CASE Claim(w)
      <3>1. proc[w].msg \in Msgs
        BY <1>1, <2>3 DEF Claim
      <3> QED
        BY <1>2, <1>3, <2>3, <3>1, PutAssignment DEF Claim
    <2>4. CASE Finish(w)
      <3>1. proc[w].msg \in Msgs
        BY <1>1, <2>4 DEF Finish
      <3> QED
        BY <1>2, <1>3, <2>4, <3>1, PutAssignment DEF Finish
    <2>5. CASE UNCHANGED row
      BY <1>3, <2>5
    <2> QED
      BY <1>4, <2>1, <2>2, <2>3, <2>4, <2>5
         DEF Worker, Acquire, ReadStatus, CheckAmbiguous, ReadWorking, Send, Answered, Rejected,
             RateLimited, Lost, RecordStatus, RecordWorking, Errs, Renew, Release
  <1>5. ASSUME NEW q, NEW s, Sweep(q, s) PROVE AssignmentsStay
    <2> SUFFICES ASSUME NEW m \in Msgs PROVE row'[m].assignment = row[m].assignment
      BY DEF AssignmentsStay
    <2>1. CASE row[m].state \in {"queued", "sending"}
      BY <1>1, <1>5, <2>1 DEF Sweep, Rows
    <2>2. CASE row[m].state \notin {"queued", "sending"}
      BY <1>5, <2>2 DEF Sweep
    <2> QED
      BY <2>1, <2>2
  <1>6. CASE Conversation
    BY <1>5, <1>6 DEF Conversation, Archive, Disconnect, Move
  <1>7. CASE Remote
    BY <1>3, <1>7 DEF Remote, Land, LateLand, Vanish
  <1>8. CASE Environment
    <2>1. ASSUME NEW m \in Msgs, BecomeDue(m) \/ Age(m) \/ Stall(m) \/ MarkStale(m) PROVE AssignmentsStay
      <3>1. \/ row' = [row EXCEPT ![m] = [row[m] EXCEPT !.due = "now"]]
            \/ row' = [row EXCEPT ![m] = [row[m] EXCEPT !.stale = TRUE]]
            \/ row' = [row EXCEPT ![m] = [row[m] EXCEPT !.state = "uncertain"]]
        BY <2>1 DEF BecomeDue, Age, Stall, GrowsOld, MarkStale
      <3>2. \E r : r.assignment = row[m].assignment /\ row' = [row EXCEPT ![m] = r]
        BY <1>2, <3>1
      <3> QED
        BY <1>1, <3>2 DEF AssignmentsStay
    <2>2. CASE Expire \/ Lapse \/ \E w \in Workers : Crash(w)
      BY <1>3, <2>2 DEF Expire, Lapse, Crash
    <2> QED
      BY <1>8, <2>1, <2>2 DEF Environment
  <1> QED
    BY <1>3, <1>4, <1>6, <1>7, <1>8 DEF Next, vars

LEMMA NextAssigned == TypeOK /\ TypeOK' /\ Assigned /\ [Next]_vars => Assigned'
  <1> SUFFICES ASSUME TypeOK, TypeOK', Assigned, [Next]_vars, faults'["move"] = 0
               PROVE  binding'.assignment = 0 /\ \A m \in Msgs : row'[m].assignment = 0
    BY DEF Assigned
  <1>1. binding.assignment = 0 /\ \A m \in Msgs : row[m].assignment = 0
    <2>1. faults["move"] = 0
      BY FaultsOnlyGrow DEF FaultsGrow, FaultKinds, TypeOK
    <2> QED
      BY <2>1 DEF Assigned
  <1>2. binding'.assignment = binding.assignment
    <2>1. ASSUME NEW w \in Workers, Did(w) PROVE binding'.assignment = binding.assignment
      BY <2>1 DEF Did, Waits, Enters, Leaves, Claims, Judges, Creates, Refreshes, Works, Sends, Reaches,
                  Hears, Anchors, Notes, Ceases, GivesUp, Posting
    <2> QED
      BY <2>1, StepIs, WorkerDid DEF LateLand, Vanish, Elsewhere
  <1>3. \A m \in Msgs : row'[m].assignment = 0
    <2>1. ASSUME NEW m \in Msgs, NEW n, Enqueue(m, n) PROVE \A k \in Msgs : row'[k].assignment = 0
      <3>1. row' = [row EXCEPT ![m] = [row[m] EXCEPT !.state = "queued", !.assignment = binding.assignment]]
        BY <2>1 DEF Enqueue
      <3>2. [row[m] EXCEPT !.state = "queued", !.assignment = binding.assignment].assignment = binding.assignment
        BY DEF TypeOK, Rows
      <3> QED
        BY <1>1, <3>1, <3>2 DEF TypeOK
    <2> QED
      BY <1>1, <2>1, AssignmentsKept DEF AssignmentsStay
  <1> QED
    BY <1>1, <1>2, <1>3

Mid(w) == proc[w].pc \in {"call", "wait", "record"}

\* Its request has reached the surface and is not yet recorded.
Done(w) == proc[w].pc = "record" \/ (proc[w].pc = "wait" /\ proc[w].landed)

\* What is asked for fits what is recorded: nobody recorded anything since.
Aims(w) ==
    LET m == proc[w].msg
        op == proc[w].op
        post == proc[w].post
    IN  IF Lifecycle(m)
        THEN \/ op = "post" /\ binding.post = NoMsg
             \/ /\ op = "update" /\ post = binding.post /\ binding.post # NoMsg
                /\ binding.version < Version[m]
        ELSE \/ op = "post" /\ (Kind(m) = "own" \/ working = NoMsg)
             \/ /\ working # NoMsg /\ post = working
                /\ \/ op = "update" /\ Kind(m) \in {"narration", "answer", "silent"}
                   \/ op = "delete" /\ Kind(m) = "degrade"

\* What was done shows.
Arrived(w) ==
    /\ proc[w].op = "post" => shown[proc[w].msg] = proc[w].msg
    /\ proc[w].op = "update" => shown[proc[w].post] = proc[w].msg
    /\ proc[w].op = "delete" => shown[proc[w].post] = NoMsg

\* The two mutable posts were created by messages of their kind.
Kinded ==
    /\ binding.post # NoMsg => Lifecycle(binding.post)
    /\ working # NoMsg => ~Lifecycle(working)

\* The working post shows narration, unless a conclusion just replaced it.
WorkingShown ==
    working # NoMsg /\ (\A w \in Workers : Done(w) => Lifecycle(proc[w].msg) \/ proc[w].op = "post")
    => shown[working] # NoMsg /\ Kind(shown[working]) = "narration"

\* The status post shows the version recorded, unless a newer one just landed.
StatusShown ==
    /\ binding.post # NoMsg /\ \A w \in Workers : Done(w) => ~Lifecycle(proc[w].msg)
    /\ shown[binding.post] # NoMsg
    => Lifecycle(shown[binding.post]) /\ Version[shown[binding.post]] <= binding.version

\* Narration shows in the working post, or in one about to be recorded as it.
Narrated ==
    \A p \in Msgs : shown[p] # NoMsg /\ Kind(shown[p]) = "narration" =>
        \/ p = working
        \/ \E w \in Workers : Done(w) /\ proc[w].op = "post" /\ proc[w].msg = p /\ Kind(p) = "narration"

Orderly ==
    /\ flight = {}
    /\ \A w \in Workers : Mid(w) => Aims(w)
    /\ \A w \in Workers : Done(w) => Arrived(w)
    /\ Kinded /\ WorkingShown /\ StatusShown /\ Narrated

OrderlyInv == Undisturbed => Orderly

\* Who is past the lock is alone there.
LEMMA AloneInside ==
    ASSUME Locked, Undisturbed, NEW v \in Workers, NEW w \in Workers,
           proc[v].pc \notin {"idle", "lock"}, proc[w].pc \notin {"idle", "lock"}
    PROVE  v = w
  BY DEF Locked, Undisturbed

LEMMA UndisturbedBefore ==
    ASSUME TypeOK, TypeOK', [Next]_vars, Undisturbed'
    PROVE  Undisturbed
  <1>1. faults \in [FaultKinds -> Nat] /\ faults' \in [FaultKinds -> Nat]
    BY DEF TypeOK, FaultKinds
  <1>2. ASSUME NEW f \in {"crash", "lapse", "stall", "loss", "error", "move"} PROVE faults[f] = 0
    <2>1. f \in FaultKinds /\ faults'[f] = 0 /\ faults'[f] >= faults[f]
      BY FaultsOnlyGrow DEF FaultsGrow, FaultKinds, Undisturbed
    <2> QED
      BY <1>1, <2>1
  <1> QED
    BY <1>2 DEF Undisturbed

\* A step that leaves the posts alone, and what is done but not recorded.
Still ==
    /\ UNCHANGED <<binding, working, shown, flight>>
    /\ \A w \in Workers : /\ (Done(w)' <=> Done(w))
                          /\ Mid(w)' /\ Mid(w) => Keeps(w)
                          /\ Mid(w)' /\ ~Mid(w) => Aims(w)'

LEMMA StillOrderly ==
    ASSUME TypeOK, TypeOK', Orderly, KindsStay, Still
    PROVE  Orderly'
  <1>1. /\ \A m \in Msgs : row'[m].kind = row[m].kind
        /\ binding.post \in Posts /\ working \in Posts /\ \A p \in Msgs : shown[p] \in Posts
        /\ \A w \in Workers : proc[w].pc # "idle" => proc[w].msg \in Msgs
        /\ \A w \in Workers : proc'[w].pc # "idle" => proc'[w].msg \in Msgs
    BY DEF KindsStay, TypeOK
  <1>2. \A w \in Workers : Done(w) => Mid(w) /\ Mid(w)' /\ Keeps(w)
    BY DEF Done, Mid, Still
  <1>3. ASSUME NEW w \in Workers, Mid(w)' PROVE Aims(w)'
    <2>1. CASE Mid(w)
      BY <1>1, <1>3, <2>1 DEF Orderly, Still, Keeps, Aims, Mid, Lifecycle, Kind
    <2> QED
      BY <1>3, <2>1 DEF Still
  <1>4. ASSUME NEW w \in Workers, Done(w)' PROVE Arrived(w)'
    BY <1>2, <1>4 DEF Still, Orderly, Arrived, Keeps
  <1>5. Kinded'
    BY <1>1 DEF Still, Orderly, Kinded, Lifecycle, Kind, Posts
  <1>6. WorkingShown'
    <2> SUFFICES ASSUME working # NoMsg,
                        \A w \in Workers : Done(w)' => row'[proc'[w].msg].kind = "lifecycle" \/ proc'[w].op = "post"
                 PROVE  shown[working] # NoMsg /\ row'[shown[working]].kind = "narration"
      BY DEF Still, WorkingShown, Lifecycle, Kind
    <2>1. \A w \in Workers : Done(w) => Lifecycle(proc[w].msg) \/ proc[w].op = "post"
      BY <1>1, <1>2 DEF Still, Keeps, Mid, Lifecycle, Kind
    <2>2. shown[working] # NoMsg /\ row[shown[working]].kind = "narration" /\ working \in Msgs
      BY <1>1, <2>1 DEF Orderly, WorkingShown, Kind, Posts
    <2> QED
      BY <1>1, <2>2 DEF Posts
  <1>7. StatusShown'
    <2> SUFFICES ASSUME binding.post # NoMsg,
                        \A w \in Workers : Done(w)' => row'[proc'[w].msg].kind # "lifecycle",
                        shown[binding.post] # NoMsg
                 PROVE  /\ row'[shown[binding.post]].kind = "lifecycle"
                        /\ Version[shown[binding.post]] <= binding.version
      BY DEF Still, StatusShown, Lifecycle, Kind
    <2>1. \A w \in Workers : Done(w) => ~Lifecycle(proc[w].msg)
      BY <1>1, <1>2 DEF Still, Keeps, Mid, Lifecycle, Kind
    <2>2. /\ row[shown[binding.post]].kind = "lifecycle" /\ binding.post \in Msgs
          /\ Version[shown[binding.post]] <= binding.version
      BY <1>1, <2>1 DEF Orderly, StatusShown, Lifecycle, Kind, Posts
    <2> QED
      BY <1>1, <2>2 DEF Posts
  <1>8. Narrated'
    <2> SUFFICES ASSUME NEW p \in Msgs, shown[p] # NoMsg, row'[shown[p]].kind = "narration", p # working
                 PROVE  \E w \in Workers : /\ Done(w)' /\ proc'[w].op = "post" /\ proc'[w].msg = p
                                           /\ row'[p].kind = "narration"
      BY DEF Still, Narrated, Kind
    <2>1. row[shown[p]].kind = "narration"
      BY <1>1 DEF Posts
    <2>2. PICK w \in Workers : Done(w) /\ proc[w].op = "post" /\ proc[w].msg = p /\ row[p].kind = "narration"
      BY <2>1 DEF Orderly, Narrated, Kind
    <2> QED
      BY <1>1, <1>2, <2>2 DEF Still, Keeps
  <1> QED
    BY <1>3, <1>4, <1>5, <1>6, <1>7, <1>8 DEF Orderly, Still

\* While a request is on its way nobody else is past the lock, nothing is
\* done and unrecorded, and a new post is really new.
LEMMA BeforeLanding ==
    ASSUME TypeOK, Locked, Undisturbed, Sent, ReceiptInv, Orderly, NEW w \in Workers,
           proc[w].pc = "wait", ~proc[w].landed
    PROVE  /\ proc[w].msg \in Msgs /\ proc[w].op \in {"post", "update", "delete"}
           /\ \A v \in Workers \ {w} : proc[v].pc \in {"idle", "lock"}
           /\ \A v \in Workers : ~Done(v)
           /\ Aims(w)
           /\ proc[w].op = "post" => shown[proc[w].msg] = NoMsg
           /\ working # NoMsg => /\ working \in Msgs /\ ~Lifecycle(working) /\ shown[working] \in Msgs
                                 /\ Kind(shown[working]) = "narration"
           /\ binding.post # NoMsg =>
                /\ binding.post \in Msgs /\ Lifecycle(binding.post)
                /\ shown[binding.post] # NoMsg =>
                     /\ shown[binding.post] \in Msgs /\ Lifecycle(shown[binding.post])
                     /\ Version[shown[binding.post]] <= binding.version
           /\ \A p \in Msgs : shown[p] # NoMsg /\ Kind(shown[p]) = "narration" => p = working
  <1>1. proc[w].msg \in Msgs /\ proc[w].op \in {"post", "update", "delete"}
    BY DEF TypeOK, Procs
  <1>2. \A v \in Workers \ {w} : proc[v].pc \in {"idle", "lock"}
    BY AloneInside
  <1>3. \A v \in Workers : ~Done(v)
    BY <1>2 DEF Done
  <1>4. Aims(w)
    BY DEF Orderly, Mid
  <1>5. proc[w].op = "post" => shown[proc[w].msg] = NoMsg
    <2>1. reached[proc[w].msg] = 0
      BY DEF ReceiptInv, Held, Attempting, Untouched
    <2> QED
      BY <1>1, <2>1 DEF Sent
  <1>6. binding.post \in Posts /\ working \in Posts /\ \A p \in Msgs : shown[p] \in Posts
    BY DEF TypeOK
  <1> QED
    BY <1>1, <1>2, <1>3, <1>4, <1>5, <1>6
       DEF Orderly, Kinded, WorkingShown, StatusShown, Narrated, Posts

LEMMA LandOrderly ==
    ASSUME TypeOK, TypeOK', Locked, Undisturbed, Sent, ReceiptInv, Orderly, KindsStay,
           NEW w \in Workers, Reaches(w), \A v \in Workers \ {w} : proc'[v] = proc[v]
    PROVE  Orderly'
  <1> DEFINE m == proc[w].msg
             op == proc[w].op
             post == proc[w].post
  <1>1. /\ proc[w].pc = "wait" /\ ~proc[w].landed /\ proc'[w].pc = "wait" /\ proc'[w].landed
        /\ proc'[w].msg = m /\ proc'[w].op = op /\ proc'[w].post = post
        /\ Lands(m, op, post) /\ UNCHANGED <<row, binding, working, flight>>
    BY DEF Reaches, Keeps
  <1>2. /\ m \in Msgs /\ op \in {"post", "update", "delete"}
        /\ \A v \in Workers \ {w} : proc[v].pc \in {"idle", "lock"}
        /\ \A v \in Workers : ~Done(v)
        /\ Aims(w)
        /\ op = "post" => shown[m] = NoMsg
        /\ working # NoMsg => /\ working \in Msgs /\ ~Lifecycle(working) /\ shown[working] \in Msgs
                              /\ Kind(shown[working]) = "narration"
        /\ binding.post # NoMsg =>
             /\ binding.post \in Msgs /\ Lifecycle(binding.post)
             /\ shown[binding.post] # NoMsg =>
                  /\ shown[binding.post] \in Msgs /\ Lifecycle(shown[binding.post])
                  /\ Version[shown[binding.post]] <= binding.version
        /\ \A p \in Msgs : shown[p] # NoMsg /\ Kind(shown[p]) = "narration" => p = working
    BY <1>1, BeforeLanding
  <1>3. \A x : (Lifecycle(x)' <=> Lifecycle(x)) /\ Kind(x)' = Kind(x)
    BY <1>1 DEF Lifecycle, Kind
  <1>4. Done(w)' /\ Mid(w)' /\ \A v \in Workers \ {w} : ~Done(v)' /\ ~Mid(v)'
    BY <1>1, <1>2 DEF Done, Mid
  <1>5. shown \in [Msgs -> Posts] /\ NoMsg \notin Msgs
    BY NameAssumption DEF TypeOK
  <1>6. /\ op = "post" => shown' = [shown EXCEPT ![m] = m]
        /\ op = "update" => shown[post] # NoMsg /\ shown' = [shown EXCEPT ![post] = m]
        /\ op = "delete" => shown' = [shown EXCEPT ![post] = NoMsg]
    BY <1>1 DEF Lands
  <1>7. Aims(w)'
    BY <1>1, <1>2 DEF Aims, Lifecycle, Kind
  <1>8. op # "post" => post \in Msgs /\ (Lifecycle(m) => post = binding.post) /\ (~Lifecycle(m) => post = working)
    BY <1>2 DEF Aims
  <1>9. Arrived(w)'
    <2>1. CASE op = "post"
      BY <1>1, <1>2, <1>5, <1>6, <2>1 DEF Arrived
    <2>2. CASE op = "update"
      BY <1>1, <1>2, <1>5, <1>6, <1>8, <2>2 DEF Arrived
    <2>3. CASE op = "delete"
      BY <1>1, <1>2, <1>5, <1>6, <1>8, <2>3 DEF Arrived
    <2> QED
      BY <1>2, <2>1, <2>2, <2>3
  <1>10. Kinded'
    BY <1>1 DEF Orderly, Kinded, Lifecycle, Kind
  <1> HIDE DEF m, op, post
  <1>11. WorkingShown'
    <2> SUFFICES ASSUME working # NoMsg, Lifecycle(m) \/ op = "post"
                 PROVE  shown'[working] # NoMsg /\ row[shown'[working]].kind = "narration"
      BY <1>1, <1>4 DEF WorkingShown, Lifecycle, Kind
    <2>1. CASE op = "post"
      BY <1>2, <1>5, <1>6, <2>1 DEF Kind
    <2>2. CASE op # "post"
      BY <1>2, <1>5, <1>6, <1>8, <2>2 DEF Kind
    <2> QED
      BY <2>1, <2>2
  <1>12. StatusShown'
    <2> SUFFICES ASSUME binding.post # NoMsg, ~Lifecycle(m), shown'[binding.post] # NoMsg
                 PROVE  /\ row[shown'[binding.post]].kind = "lifecycle"
                        /\ Version[shown'[binding.post]] <= binding.version
      BY <1>1, <1>4 DEF StatusShown, Lifecycle, Kind
    <2>1. shown'[binding.post] = shown[binding.post]
      <3>1. CASE op = "post"
        BY <1>2, <1>5, <1>6, <3>1 DEF Kind
      <3>2. CASE op # "post"
        BY <1>2, <1>5, <1>6, <1>8, <3>2
      <3> QED
        BY <3>1, <3>2
    <2> QED
      BY <1>2, <2>1 DEF Lifecycle, Kind
  <1>13. Narrated'
    <2> SUFFICES ASSUME NEW p \in Msgs, shown'[p] # NoMsg, row[shown'[p]].kind = "narration", p # working
                 PROVE  op = "post" /\ m = p /\ row[p].kind = "narration"
      BY <1>1, <1>4 DEF Narrated, Kind
    <2>1. shown'[p] # shown[p]
      BY <1>2 DEF Kind
    <2>2. CASE op = "post"
      BY <1>2, <1>5, <1>6, <2>1, <2>2
    <2>3. CASE op # "post"
      BY <1>2, <1>5, <1>6, <1>8, <2>1, <2>3 DEF Lifecycle, Kind
    <2> QED
      BY <2>2, <2>3
  <1> QED
    BY <1>1, <1>4, <1>7, <1>9, <1>10, <1>11, <1>12, <1>13 DEF Orderly

\* Recording what has landed: the post recorded is the one that shows it.
LEMMA BeforeRecording ==
    ASSUME TypeOK, Locked, Undisturbed, Orderly, NEW w \in Workers, proc[w].pc = "record"
    PROVE  /\ proc[w].msg \in Msgs /\ row[proc[w].msg].kind \in Kinds
           /\ proc[w].op \in {"post", "update", "delete"}
           /\ \A v \in Workers \ {w} : proc[v].pc \in {"idle", "lock"} /\ ~Done(v) /\ ~Mid(v)
           /\ Aims(w) /\ Arrived(w)
  <1>1. proc[w].msg \in Msgs /\ proc[w].op \in {"post", "update", "delete"}
    BY DEF TypeOK, Procs
  <1>2. row[proc[w].msg].kind \in Kinds
    BY <1>1 DEF TypeOK, Rows
  <1>3. \A v \in Workers \ {w} : proc[v].pc \in {"idle", "lock"}
    BY AloneInside
  <1>4. Aims(w) /\ Arrived(w)
    BY DEF Orderly, Mid, Done
  <1> QED
    BY <1>1, <1>2, <1>3, <1>4 DEF Done, Mid

LEMMA AnchorOrderly ==
    ASSUME TypeOK, TypeOK', Locked, Undisturbed, Orderly, KindsStay,
           NEW w \in Workers, Anchors(w), \A v \in Workers \ {w} : proc'[v] = proc[v]
    PROVE  Orderly'
  <1> DEFINE m == proc[w].msg
             p == IF proc[w].op = "post" THEN m ELSE proc[w].post
  <1>1. /\ proc[w].pc = "record" /\ proc'[w].pc = "renew" /\ Lifecycle(m)
        /\ binding'.post = p /\ binding'.version = Version[m]
        /\ UNCHANGED <<row, working, shown, flight>>
    BY DEF Anchors
  <1>2. /\ m \in Msgs /\ Aims(w) /\ Arrived(w)
        /\ \A v \in Workers \ {w} : ~Done(v) /\ ~Mid(v)
    BY <1>1, BeforeRecording
  <1>3. \A v \in Workers : ~Done(v)' /\ ~Mid(v)'
    BY <1>1, <1>2 DEF Done, Mid
  <1>4. shown[p] = m /\ (p = m \/ p = binding.post)
    BY <1>1, <1>2 DEF Aims, Arrived
  <1>5. m # NoMsg /\ Version[m] \in Nat
    BY <1>2, NameAssumption, CastAssumption
  <1>6. Lifecycle(p) /\ Kinded'
    BY <1>1, <1>2, <1>4 DEF Orderly, Kinded, Aims, Lifecycle, Kind
  <1>7. WorkingShown'
    <2> SUFFICES ASSUME working # NoMsg
                 PROVE  shown[working] # NoMsg /\ row[shown[working]].kind = "narration"
      BY <1>1 DEF WorkingShown, Kind
    <2>1. \A v \in Workers : Done(v) => Lifecycle(proc[v].msg)
      BY <1>1, <1>2
    <2> QED
      BY <2>1 DEF Orderly, WorkingShown, Kind
  <1>8. StatusShown'
    BY <1>1, <1>4, <1>5 DEF StatusShown, Lifecycle, Kind
  <1>9. Narrated'
    <2> SUFFICES ASSUME NEW q \in Msgs, shown[q] # NoMsg, row[shown[q]].kind = "narration"
                 PROVE  q = working
      BY <1>1 DEF Narrated, Kind
    <2>1. \A v \in Workers : Done(v) => row[proc[v].msg].kind # "narration"
      BY <1>1, <1>2 DEF Lifecycle, Kind
    <2> QED
      BY <2>1 DEF Orderly, Narrated, Kind
  <1> QED
    BY <1>1, <1>3, <1>6, <1>7, <1>8, <1>9 DEF Orderly

LEMMA NoteOrderly ==
    ASSUME TypeOK, TypeOK', Locked, Undisturbed, Orderly, KindsStay,
           NEW w \in Workers, Notes(w), \A v \in Workers \ {w} : proc'[v] = proc[v]
    PROVE  Orderly'
  <1> DEFINE m == proc[w].msg
             op == proc[w].op
             post == proc[w].post
  <1>1. /\ proc[w].pc = "record" /\ ~Lifecycle(m) /\ working' = NextWorking(w) /\ proc'[w].msg = m
        /\ \/ op = "delete" /\ proc'[w].pc = "call" /\ proc'[w].op = "post"
           \/ op # "delete" /\ proc'[w].pc = "renew"
        /\ UNCHANGED <<row, binding, shown, flight>>
    BY DEF Notes
  <1>2. /\ m \in Msgs /\ Aims(w) /\ Arrived(w) /\ row[m].kind \in Kinds
        /\ \A v \in Workers \ {w} : ~Done(v) /\ ~Mid(v)
        /\ Done(w)
    BY <1>1, BeforeRecording DEF Done
  <1>3. /\ \A v \in Workers : ~Done(v)'
        /\ \A v \in Workers : Mid(v)' => v = w /\ op = "delete"
    BY <1>1, <1>2 DEF Done, Mid
  <1>4. m # NoMsg
    BY <1>2, NameAssumption
  <1>5. \/ op = "post" /\ (row[m].kind = "own" \/ working = NoMsg) /\ shown[m] = m
        \/ /\ working # NoMsg /\ post = working
           /\ \/ op = "update" /\ row[m].kind \in {"narration", "answer", "silent"} /\ shown[working] = m
              \/ op = "delete" /\ row[m].kind = "degrade" /\ shown[working] = NoMsg
    BY <1>1, <1>2 DEF Aims, Arrived, Kind
  <1>6. working' = CASE row[m].kind = "narration" -> IF op = "post" THEN m ELSE working
                     [] row[m].kind # "narration" /\ op # "post" -> NoMsg
                     [] OTHER -> working
    BY <1>1 DEF NextWorking, Kind
  <1>7. \A q \in Msgs : shown[q] # NoMsg /\ row[shown[q]].kind = "narration" =>
                          q = working \/ (op = "post" /\ m = q /\ row[q].kind = "narration")
    BY <1>2 DEF Orderly, Narrated, Kind
  <1>8. op = "post" /\ working # NoMsg => shown[working] # NoMsg /\ row[shown[working]].kind = "narration"
    BY <1>2 DEF Orderly, WorkingShown, Kind
  <1>9. \A v \in Workers : Mid(v)' => Aims(v)'
    BY <1>1, <1>3, <1>5, <1>6 DEF Aims, Mid, Lifecycle, Kind
  <1>10. Kinded'
    BY <1>1, <1>6 DEF Orderly, Kinded, Lifecycle, Kind
  <1>11. StatusShown'
    <2> SUFFICES ASSUME binding.post # NoMsg, shown[binding.post] # NoMsg
                 PROVE  /\ row[shown[binding.post]].kind = "lifecycle"
                        /\ Version[shown[binding.post]] <= binding.version
      BY <1>1, <1>3 DEF StatusShown, Lifecycle, Kind
    <2>1. \A v \in Workers : Done(v) => ~Lifecycle(proc[v].msg)
      BY <1>1, <1>2
    <2> QED
      BY <2>1 DEF Orderly, StatusShown, Lifecycle, Kind
  <1> HIDE DEF m, op, post
  <1>12. WorkingShown'
    <2> SUFFICES ASSUME working' # NoMsg
                 PROVE  shown[working'] # NoMsg /\ row[shown[working']].kind = "narration"
      BY <1>1 DEF WorkingShown, Kind
    <2> QED
      BY <1>4, <1>5, <1>6, <1>8
  <1>13. Narrated'
    <2> SUFFICES ASSUME NEW q \in Msgs, shown[q] # NoMsg, row[shown[q]].kind = "narration"
                 PROVE  q = working'
      BY <1>1 DEF Narrated, Kind
    <2> QED
      BY <1>4, <1>5, <1>6, <1>7, NameAssumption
  <1> QED
    BY <1>1, <1>3, <1>9, <1>10, <1>11, <1>12, <1>13 DEF Orderly

\* The other steps of a worker are still.
LEMMA OtherStill ==
    ASSUME TypeOK, TypeOK', Locked, Undisturbed, Undisturbed', Assigned, Judged, Orderly, KindsStay,
           NEW w \in Workers, Did(w), ~Reaches(w), ~Anchors(w), ~Notes(w),
           \A v \in Workers \ {w} : proc'[v] = proc[v]
    PROVE  Still
  <1>1. \A f \in {"crash", "lapse", "loss", "error"} : faults[f] = 0 /\ faults'[f] = 0
    BY DEF Undisturbed
  <1>2. faults["move"] = 0 /\ faults["lapse"] = 0
    BY DEF Undisturbed
  <1>3. ~GivesUp(w)
    BY <1>1 DEF GivesUp
  <1>4. UNCHANGED <<binding, working, shown, flight>>
    BY <1>3 DEF Did, Waits, Enters, Leaves, Claims, Judges, Creates, Refreshes, Works, Sends, Hears,
                Ceases, Posting
  <1>5. \A v \in Workers \ {w} : (Done(v)' <=> Done(v)) /\ (Mid(v)' <=> Mid(v)) /\ Keeps(v)
    BY DEF Done, Mid, Keeps
  <1>6. /\ (Done(w)' <=> Done(w)) /\ (Mid(w)' /\ Mid(w) => Keeps(w))
        /\ (Mid(w)' /\ ~Mid(w) => Aims(w)')
    <2>1. CASE Waits(w) \/ Enters(w) \/ Leaves(w) \/ Claims(w) \/ Judges(w)
      BY <2>1 DEF Waits, Enters, Leaves, Claims, Judges, Done, Mid
    <2>2. CASE Sends(w) \/ Hears(w)
      BY <2>2 DEF Sends, Hears, Done, Mid
    <2>3. CASE Creates(w)
      BY <1>2, <2>3 DEF Creates, Judged, Done, Mid, Aims, Posting, Lifecycle, Kind
    <2>4. CASE Refreshes(w)
      BY <2>4 DEF Refreshes, Done, Mid, Aims, Posting, Lifecycle, Kind
    <2>5. CASE Works(w)
      BY <2>5 DEF Works, Done, Mid, Aims, Posting, Lifecycle, Kind
    <2>6. CASE Ceases(w)
      <3>1. proc'[w].pc \in {"renew", "finish", "requeue", "release"} /\ faults'["error"] = 0
        BY <1>1, <2>6 DEF Ceases
      <3>2. ASSUME proc[w].pc = "record" PROVE FALSE
        <4>1. /\ Lifecycle(proc[w].msg)
              /\ \/ row[proc[w].msg].assignment # binding.assignment
                 \/ binding.post # NoMsg /\ binding.version >= Version[proc[w].msg]
          BY <2>6, <3>1, <3>2 DEF Ceases
        <4>2. proc[w].msg \in Msgs /\ Aims(w)
          BY <3>2, BeforeRecording
        <4>3. row[proc[w].msg].assignment = binding.assignment
          BY <1>2, <4>2 DEF Assigned
        <4>4. binding.version \in Int /\ Version[proc[w].msg] \in Int
          BY <4>2, CastAssumption DEF TypeOK
        <4> QED
          BY <4>1, <4>2, <4>3, <4>4 DEF Aims
      <3>3. ~Done(w)
        BY <2>6, <3>1, <3>2 DEF Ceases, Done
      <3> QED
        BY <3>1, <3>3 DEF Done, Mid
    <2> QED
      BY <1>3, <2>1, <2>2, <2>3, <2>4, <2>5, <2>6 DEF Did
  <1> QED
    BY <1>4, <1>5, <1>6 DEF Still

LEMMA NextOrderly ==
    /\ TypeOK /\ TypeOK' /\ ReceiptInv /\ Locked /\ Assigned /\ Judged /\ Sent /\ OrderlyInv
    /\ [Next]_vars
    => OrderlyInv'
  <1> SUFFICES ASSUME TypeOK, TypeOK', ReceiptInv, Locked, Assigned, Judged, Sent, OrderlyInv,
                      [Next]_vars, Undisturbed'
               PROVE  Orderly'
    BY DEF OrderlyInv
  <1>1. Undisturbed /\ Orderly /\ KindsStay
    BY UndisturbedBefore, KindsKept DEF OrderlyInv
  <1>2. ASSUME NEW w \in Workers, Worker(w) \/ Land(w) \/ Crash(w) PROVE Orderly'
    <2>1. Did(w) /\ \A v \in Workers \ {w} : proc'[v] = proc[v]
      BY <1>2, WorkerDid
    <2>2. CASE Reaches(w)
      BY <1>1, <2>1, <2>2, LandOrderly
    <2>3. CASE Anchors(w)
      BY <1>1, <2>1, <2>3, AnchorOrderly
    <2>4. CASE Notes(w)
      BY <1>1, <2>1, <2>4, NoteOrderly
    <2>5. CASE ~Reaches(w) /\ ~Anchors(w) /\ ~Notes(w)
      BY <1>1, <2>1, <2>5, OtherStill, StillOrderly
    <2> QED
      BY <2>2, <2>3, <2>4, <2>5
  <1>3. flight = {}
    BY <1>1 DEF Orderly
  <1>4. CASE Elsewhere
    <2>1. Still
      BY <1>4 DEF Elsewhere, Still, Undisturbed, Done, Mid, Keeps
    <2> QED
      BY <1>1, <2>1, StillOrderly
  <1> QED
    BY <1>2, <1>3, <1>4, StepIs

-----------------------------------------------------------------------------
PostsInv == TypeOK /\ OpsFit /\ ReceiptInv /\ StatusInv /\ Assigned /\ OrderlyInv

LEMMA PostsHold == Spec => []PostsInv
  <1>1. Init => PostsInv
    <2>1. ASSUME Init
          PROVE  /\ \A w \in Workers : proc[w].pc = "idle"
                 /\ flight = {} /\ binding.post = NoMsg /\ working = NoMsg /\ binding.assignment = 0
                 /\ \A m \in Msgs : shown[m] = NoMsg /\ row[m].assignment = 0
      BY <2>1 DEF Init, Idle
    <2>2. ASSUME Init PROVE Assigned /\ OrderlyInv
      BY <2>1, <2>2 DEF Assigned, OrderlyInv, Orderly, Mid, Done, Kinded, WorkingShown, StatusShown, Narrated
    <2> QED
      BY <2>2, InitType, InitReceipt, InitStatus DEF PostsInv
  <1>2. PostsInv /\ [Next]_vars => PostsInv'
    <2> SUFFICES ASSUME PostsInv, [Next]_vars PROVE PostsInv'
      OBVIOUS
    <2>1. TypeOK' /\ OpsFit' /\ ReceiptInv'
      BY NextType, NextOpsFit, NextReceipt DEF PostsInv
    <2>2. StatusInv'
      BY <2>1, NextLocked, NextSent, NextAimed, NextJudged, NextRecorded, NextCreator
         DEF PostsInv, StatusInv
    <2>3. Assigned' /\ OrderlyInv'
      BY <2>1, NextAssigned, NextOrderly DEF PostsInv, StatusInv
    <2> QED
      BY <2>1, <2>2, <2>3 DEF PostsInv
  <1> QED
    BY <1>1, <1>2, PTL DEF Spec

\* Two narrations never leave two activity posts behind: what shows narration
\* is the working post recorded, or the one that is recorded next.
THEOREM OneActivityPost == Spec => []OneWorkingPost
  <1>1. PostsInv => OneWorkingPost
    <2> SUFFICES ASSUME PostsInv, Undisturbed, NEW p \in Msgs, NEW q \in Msgs,
                        shown[p] # NoMsg, shown[q] # NoMsg,
                        Kind(shown[p]) = "narration", Kind(shown[q]) = "narration"
                 PROVE  p = q
      BY DEF OneWorkingPost
    <2>1. Orderly /\ Locked /\ p # NoMsg /\ q # NoMsg
      BY NameAssumption DEF PostsInv, OrderlyInv, StatusInv
    <2>2. ASSUME NEW w \in Workers, Done(w), proc[w].op = "post", Kind(proc[w].msg) = "narration"
          PROVE  working = NoMsg /\ proc[w].pc \notin {"idle", "lock"}
      BY <2>1, <2>2 DEF Orderly, Aims, Done, Mid, Lifecycle
    <2>3. ASSUME NEW r \in Msgs, shown[r] # NoMsg, Kind(shown[r]) = "narration"
          PROVE  \/ r = working
                 \/ \E w \in Workers : Done(w) /\ proc[w].op = "post" /\ proc[w].msg = r
                                       /\ Kind(r) = "narration"
      BY <2>1, <2>3 DEF Orderly, Narrated
    <2> QED
      BY <2>1, <2>2, <2>3, AloneInside
  <1> QED
    BY <1>1, PostsHold, PTL

\* What is shown changes only where the request of an undisturbed worker lands.
LEMMA ShownMoves ==
    ASSUME PostsInv, TypeOK', [Next]_vars, Undisturbed', shown' # shown
    PROVE  /\ Undisturbed /\ Orderly
           /\ \E w \in Workers : Reaches(w)
  <1>1. Undisturbed /\ Orderly
    BY UndisturbedBefore DEF PostsInv, OrderlyInv
  <1> QED
    BY <1>1, ShownFrom DEF Orderly, PostsInv

\* A conclusion that was shown is never overwritten: requests change the post
\* recorded as the working post, which shows narration, or the status post.
THEOREM AnswersStay == Spec => AnswerKept
  <1> DEFINE Stays == Undisturbed' => \A p \in Msgs :
                        shown[p] # NoMsg /\ Kind(shown[p]) \in {"answer", "silent", "degrade", "own"}
                        => shown'[p] = shown[p]
  <1>1. PostsInv /\ PostsInv' /\ [Next]_vars => [Stays]_vars
    <2> SUFFICES ASSUME PostsInv, PostsInv', [Next]_vars, Undisturbed', NEW p \in Msgs, shown[p] # NoMsg,
                        Kind(shown[p]) \in {"answer", "silent", "degrade", "own"}, shown'[p] # shown[p]
                 PROVE  FALSE
      OBVIOUS
    <2>1. PICK w \in Workers : Reaches(w)
      BY ShownMoves DEF PostsInv
    <2>2. Undisturbed /\ Orderly /\ TypeOK /\ Locked /\ Sent /\ ReceiptInv
      BY ShownMoves DEF PostsInv, StatusInv
    <2> DEFINE m == proc[w].msg
               op == proc[w].op
               post == proc[w].post
    <2>3. /\ proc[w].pc = "wait" /\ ~proc[w].landed /\ Lands(m, op, post)
      BY <2>1 DEF Reaches
    <2>4. /\ m \in Msgs /\ op \in {"post", "update", "delete"} /\ Aims(w)
          /\ op = "post" => shown[m] = NoMsg
          /\ working # NoMsg => working \in Msgs /\ Kind(shown[working]) = "narration"
          /\ binding.post # NoMsg =>
               binding.post \in Msgs /\ (shown[binding.post] # NoMsg => Lifecycle(shown[binding.post]))
      BY <2>2, <2>3, BeforeLanding
    <2>5. shown \in [Msgs -> Posts]
      BY <2>2 DEF TypeOK
    <2>6. op # "post" => post \in Msgs /\ ((post = binding.post /\ binding.post # NoMsg) \/ (post = working /\ working # NoMsg))
      BY <2>4 DEF Aims
    <2> HIDE DEF m, op, post
    <2>7. CASE op = "post"
      BY <2>3, <2>4, <2>5, <2>7 DEF Lands
    <2>8. CASE op # "post"
      <3>1. p = post
        BY <2>3, <2>4, <2>5, <2>6, <2>8 DEF Lands
      <3> QED
        BY <2>4, <2>6, <2>8, <3>1 DEF Lifecycle
    <2> QED
      BY <2>7, <2>8
  <1> QED
    BY <1>1, PostsHold, PTL DEF Spec, AnswerKept

\* The status post never goes back: whoever updates it has read the version
\* recorded, and nobody records another one while its request is on its way.
THEOREM StatusForward == Spec => StatusNeverRegresses
  <1> DEFINE Forward == Undisturbed' => \A p \in Msgs :
                          /\ shown[p] # NoMsg /\ shown'[p] # NoMsg
                          /\ Kind(shown[p]) = "lifecycle" /\ Kind(shown'[p]) = "lifecycle"
                          => Version[shown'[p]] >= Version[shown[p]]
  <1>1. PostsInv /\ PostsInv' /\ [Next]_vars => [Forward]_vars
    <2> SUFFICES ASSUME PostsInv, PostsInv', [Next]_vars, Undisturbed', NEW p \in Msgs,
                        shown[p] # NoMsg, shown'[p] # NoMsg,
                        Kind(shown[p]) = "lifecycle", Kind(shown'[p]) = "lifecycle"
                 PROVE  Version[shown'[p]] >= Version[shown[p]]
      OBVIOUS
    <2>1. shown \in [Msgs -> Posts] /\ Version \in [Msgs -> Nat] /\ binding.version \in Int
      BY CastAssumption DEF PostsInv, TypeOK
    <2>2. CASE shown'[p] = shown[p]
      BY <2>1, <2>2 DEF Posts
    <2>3. CASE shown'[p] # shown[p]
      <3>1. PICK w \in Workers : Reaches(w)
        BY <2>3, ShownMoves DEF PostsInv
      <3>2. Undisturbed /\ Orderly /\ TypeOK /\ Locked /\ Sent /\ ReceiptInv
        BY <2>3, ShownMoves DEF PostsInv, StatusInv
      <3> DEFINE m == proc[w].msg
                 op == proc[w].op
                 post == proc[w].post
      <3>3. proc[w].pc = "wait" /\ ~proc[w].landed /\ Lands(m, op, post)
        BY <3>1 DEF Reaches
      <3>4. /\ m \in Msgs /\ op \in {"post", "update", "delete"} /\ Aims(w)
            /\ op = "post" => shown[m] = NoMsg
            /\ working # NoMsg => working \in Msgs /\ Kind(shown[working]) = "narration"
            /\ binding.post # NoMsg =>
                 binding.post \in Msgs /\ (shown[binding.post] # NoMsg =>
                    shown[binding.post] \in Msgs /\ Version[shown[binding.post]] <= binding.version)
        BY <3>2, <3>3, BeforeLanding
      <3>5. op # "post" =>
              \/ post = binding.post /\ binding.post # NoMsg /\ op = "update" /\ binding.version < Version[m]
              \/ post = working /\ working # NoMsg
        BY <3>4 DEF Aims
      <3> HIDE DEF m, op, post
      <3>6. op # "post" /\ p = post
        BY <2>1, <2>3, <3>3, <3>4, <3>5 DEF Lands
      <3>7. p = binding.post /\ op = "update" /\ binding.version < Version[m]
        BY <3>4, <3>5, <3>6
      <3>8. shown'[p] = m
        BY <2>1, <3>3, <3>6, <3>7 DEF Lands
      <3>9. shown[p] \in Msgs /\ Version[shown[p]] <= binding.version
        BY <3>4, <3>7, NameAssumption
      <3>10. Version[m] \in Nat /\ Version[shown[p]] \in Nat
        BY <2>1, <3>4, <3>9
      <3>11. Version[m] >= Version[shown[p]]
        BY <2>1, <3>7, <3>9, <3>10
      <3> QED
        BY <3>8, <3>11
    <2> QED
      BY <2>2, <2>3
  <1> QED
    BY <1>1, PostsHold, PTL DEF Spec, StatusNeverRegresses
=============================================================================
