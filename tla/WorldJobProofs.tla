--------------------------- MODULE WorldJobProofs ---------------------------
(***************************************************************************)
(* Theorems about WorldJob, for every set of jobs and workers, any number  *)
(* of faults and every policy.  In three parts: rows, threads and counters *)
(* are well typed; what a job does happens once, settlements are legal and *)
(* erasure is final; the workers implement Formation, a claim means        *)
(* something and withdrawn Evidence causes nothing more.                   *)
(*                                                                         *)
(* The second part: a row changes in one of two ways, by a statement that  *)
(* leaves what a holder relies on alone or starts a claim whose token      *)
(* nobody has (Quiet), or by the thread whose fence holds.  Hence what a   *)
(* thread found under its fence stays true as long as the fence does       *)
(* (Sound).  And a job is marked before it is sent, reserved before it is  *)
(* rewritten, and neither mark is ever taken back (Tickets).               *)
(*                                                                         *)
(* The third part: each step is read job by job.  A quiet step of a row is *)
(* one of Formation's Close, or a stutter; the steps that are not quiet    *)
(* are the model call, the writes of the claim's holder, which Sound       *)
(* places in the life of the job, and erasure.                             *)
(***************************************************************************)
EXTENDS WorldJob, TLAPS, Integers

-----------------------------------------------------------------------------
(* Every row operator keeps the row's type. *)

LEMMA UnclaimedType ==
  ASSUME NEW r \in Row PROVE Unclaimed(r) \in Row
BY DEF Row, Unclaimed

LEMMA DiedType ==
  ASSUME NEW r \in Row, NEW why \in Errors PROVE Died(r, why) \in Row
BY DEF Row, Died, Unclaimed, States, Settled, Terminals

LEMMA InterruptedType ==
  ASSUME NEW r \in Row PROVE Interrupted(r) \in Row
<1>1. Died(r, "dispatch_outcome_unknown") \in Row
  BY DiedType DEF Errors
<1> DEFINE u == Unclaimed(r)
           marked == u.marker /\ r.result # "none"
           spent == IF u.attempts = 0 THEN 0 ELSE u.attempts - 1
<1>2. u \in Row
  BY UnclaimedType
<1>3. spent \in Nat /\ u.gen + 1 \in Nat
  BY <1>2 DEF Row
<1>4. marked \in BOOLEAN
  OBVIOUS
<1> HIDE DEF u, marked, spent
<1>5. [u EXCEPT !.state = "retry", !.due = TRUE, !.attempts = spent,
                !.gen = u.gen + 1, !.marker = marked, !.error = "recovered"] \in Row
  BY <1>2, <1>3, <1>4 DEF Row, States, Open, Errors
<1>6. QED
  BY <1>1, <1>5 DEF Interrupted, u, marked, spent

LEMMA SweptType ==
  ASSUME NEW r \in Row PROVE Swept(r) \in Row
<1>1. ASSUME NEW s \in Row, NEW why \in Errors PROVE Returned(s, why) \in Row
  BY DEF Row, Returned, Unclaimed, States, Open
<1>2. Expired(r) \in Row
  BY <1>1, DiedType DEF Expired, Errors
<1>3. UnsafeDied(Expired(r)) \in Row
  BY <1>2, DiedType DEF UnsafeDied, Errors
<1>4. QED
  BY <1>3, DiedType DEF Swept, ExhaustedDied, Errors

LEMMA ClaimedType ==
  ASSUME NEW r \in Row, NEW w \in Workers PROVE Claimed(r, w) \in Row
<1> DEFINE charged == IF Checkpointed(r) /\ r.attempts >= MaxAttempts
                      THEN r.attempts ELSE r.attempts + 1
           error == IF r.error = "recovered" THEN r.error ELSE "none"
<1>1. charged \in Nat /\ r.gen + 1 \in Nat
  BY DEF Row
<1>2. error \in Errors
  BY DEF Errors
<1> HIDE DEF charged, error
<1>3. [r EXCEPT !.state = "processing", !.attempts = charged, !.due = TRUE,
                !.owner = w, !.token = r.gen + 1, !.lease = "live",
                !.gen = r.gen + 1, !.error = error] \in Row
  BY <1>1, <1>2 DEF Row, States
<1>4. QED
  BY <1>3 DEF Claimed, charged, error

LEMMA SettlementType ==
  ASSUME NEW r \in Row, NEW verdict \in Verdicts \ {"none", "batch"},
         NEW completed \in BOOLEAN, NEW payload \in Results
  PROVE  Settlement(r, verdict, completed, payload) \in Row
<1> DEFINE eff == Effective(r, verdict, completed)
           u == Unclaimed(r)
           stored == CASE ~completed -> u.result
                       [] completed /\ payload = "none" -> "stub"
                       [] OTHER -> payload
           later == eff[1] # "retry"
<1>1. eff[1] \in Verdicts \ {"none", "batch"} /\ eff[2] \in Errors
  BY DEF Effective, Verdicts, Errors
<1>2. TransportState(eff[1]) \in States
  BY <1>1 DEF TransportState, States, Settled, Open, Verdicts
<1>3. TerminalOf(eff[1]) \in Terminals
  BY <1>1 DEF TerminalOf, Terminals, Verdicts
<1>4. u \in Row
  BY UnclaimedType
<1>5. stored \in Results
  BY <1>4 DEF Row, Results
<1>6. later \in BOOLEAN
  OBVIOUS
<1> HIDE DEF eff, u, stored, later
<1>7. [u EXCEPT !.state = TransportState(eff[1]), !.due = later, !.result = stored,
                !.terminal = TerminalOf(eff[1]), !.error = eff[2]] \in Row
  BY <1>1, <1>2, <1>3, <1>4, <1>5, <1>6 DEF Row
<1>8. QED
  BY <1>7 DEF Settlement, eff, u, stored, later

-----------------------------------------------------------------------------
(***************************************************************************)
(* Type correctness.  TypeOK is not inductive by itself: an action reads   *)
(* the row of the thread's job, so a thread that holds a claim must name a *)
(* job, and a settlement is of one of the six verdicts of the code.        *)
(***************************************************************************)
ThreadOK(t) ==
  /\ t.at \in HoldsClaim => t.job \in Jobs
  /\ t.at = "settle" => t.verdict \in Verdicts \ {"none", "batch"}
  /\ t.at = "rewrite_persist" =>
       t.verdict \in Compilations /\ t.payload \in {"rewritten", "rewrite_failed"}

ThreadsOK == \A w \in Workers : ThreadOK(thread[w])

TypeInv == TypeOK /\ ThreadsOK

LEMMA IdleOK ==
  ASSUME NEW place \in Places \ HoldsClaim
  PROVE  Idle(place) \in Thread /\ ThreadOK(Idle(place))
BY DEF Idle, Thread, Places, ThreadOK, HoldsClaim, InProcess, Results, Verdicts

(* A step that moves one thread to a proper local state keeps them all so. *)
LEMMA MoveOK ==
  ASSUME thread \in [Workers -> Thread], ThreadsOK, NEW w \in Workers,
         NEW t \in Thread, ThreadOK(t), thread' = [thread EXCEPT ![w] = t]
  PROVE  thread' \in [Workers -> Thread] /\ ThreadsOK'
BY DEF ThreadsOK, ThreadOK

LEMMA GotoOK ==
  ASSUME thread \in [Workers -> Thread], ThreadsOK, NEW w \in Workers,
         NEW place \in Places, Goto(w, place),
         place \in HoldsClaim => Job(w) \in Jobs,
         place \notin {"settle", "rewrite_persist"}
  PROVE  thread' \in [Workers -> Thread] /\ ThreadsOK'
<1> DEFINE t == [thread[w] EXCEPT !.at = place]
<1>1. t \in Thread /\ ThreadOK(t)
  BY DEF Thread, ThreadOK, Job
<1>2. thread' = [thread EXCEPT ![w] = t]
  BY DEF Goto
<1> HIDE DEF t
<1>3. QED
  BY <1>1, <1>2, MoveOK

LEMMA DropOK ==
  ASSUME thread \in [Workers -> Thread], ThreadsOK, NEW w \in Workers,
         NEW place \in Places \ HoldsClaim, Drop(w, place)
  PROVE  thread' \in [Workers -> Thread] /\ ThreadsOK'
BY IdleOK, MoveOK DEF Drop

LEMMA FinishOK ==
  ASSUME thread \in [Workers -> Thread], ThreadsOK, NEW w \in Workers,
         Job(w) \in Jobs, NEW verdict \in Verdicts \ {"none", "batch"},
         NEW completed \in BOOLEAN, NEW attached \in BOOLEAN, NEW guarded \in BOOLEAN,
         Finish(w, verdict, completed, attached, guarded)
  PROVE  thread' \in [Workers -> Thread] /\ ThreadsOK'
<1> DEFINE t == [thread[w] EXCEPT !.at = "settle", !.verdict = verdict,
                   !.completed = completed, !.attached = attached,
                   !.guarded = guarded]
<1>1. t \in Thread
  BY DEF Thread, Places, HoldsClaim
<1>2. ThreadOK(t)
  BY DEF ThreadOK, Job, Thread
<1>3. thread' = [thread EXCEPT ![w] = t]
  BY DEF Finish
<1> HIDE DEF t
<1>4. QED
  BY <1>1, <1>2, <1>3, MoveOK

LEMMA SettlesOK ==
  ASSUME thread \in [Workers -> Thread], ThreadsOK, NEW w \in Workers,
         Job(w) \in Jobs,
         \/ \E v \in Verdicts \ {"none", "batch"} : Return(w, v) \/ Refuse(w, v)
         \/ RaisePermanent(w)
         \/ RaiseRetryable(w)
  PROVE  thread' \in [Workers -> Thread] /\ ThreadsOK'
<1>1. {"dead", "retry"} \subseteq Verdicts \ {"none", "batch"}
  BY DEF Verdicts
<1>2. thread[w].replay \in BOOLEAN
  BY DEF Thread
<1>3. QED
  BY <1>1, <1>2, FinishOK
     DEF Return, Refuse, Remote, RaisePermanent, RaiseRetryable

LEMMA RewrittenOK ==
  ASSUME thread \in [Workers -> Thread], ThreadsOK, NEW w \in Workers,
         Job(w) \in Jobs, NEW p \in {"rewritten", "rewrite_failed"},
         NEW c \in Compilations, Rewritten(w, p, c)
  PROVE  thread' \in [Workers -> Thread] /\ ThreadsOK'
<1> DEFINE t == [thread[w] EXCEPT !.at = "rewrite_persist", !.payload = p,
                                  !.verdict = c]
<1>1. p \in Results /\ c \in Verdicts /\ "rewrite_persist" \in Places
  BY DEF Results, Checkpoints, Compilations, Verdicts, Places, HoldsClaim, InProcess
<1>2. t \in Thread
  BY <1>1 DEF Thread
<1>3. ThreadOK(t)
  BY DEF ThreadOK, Job, Thread
<1>4. thread' = [thread EXCEPT ![w] = t]
  BY DEF Rewritten
<1> HIDE DEF t
<1>5. QED
  BY <1>2, <1>3, <1>4, MoveOK

(* The rows a transaction may leave are rows, and their terminals outcomes. *)
LEMMA WriteOK ==
  ASSUME row \in [Jobs -> Row], outcome \in [Jobs -> Terminals],
         NEW rows \in [Jobs -> Row], Write(rows)
  PROVE  row' \in [Jobs -> Row] /\ outcome' \in [Jobs -> Terminals]
<1>1. \A j \in Jobs : rows[j].terminal \in Terminals
  BY DEF Row
<1>2. QED
  BY <1>1 DEF Write, Publish

(* So is a row that only gains a checkpoint or the dispatch marker. *)
LEMMA CheckpointOK ==
  ASSUME row \in [Jobs -> Row], NEW j \in Jobs, NEW p \in Results,
         row' = [row EXCEPT ![j].result = p]
  PROVE  row' \in [Jobs -> Row]
<1>1. [row[j] EXCEPT !.result = p] \in Row
  BY DEF Row
<1>2. QED
  BY <1>1

LEMMA MarkerOK ==
  ASSUME row \in [Jobs -> Row], NEW j \in Jobs, row' = [row EXCEPT ![j].marker = TRUE]
  PROVE  row' \in [Jobs -> Row]
<1>1. [row[j] EXCEPT !.marker = TRUE] \in Row
  BY DEF Row
<1>2. QED
  BY <1>1

LEMMA TypeInit == Init => TypeInv
<1> SUFFICES ASSUME Init PROVE TypeInv
  OBVIOUS
<1>1. NewRow \in Row
  BY DEF NewRow, Row, States, Open, Results, Terminals, Errors
<1>2. Idle("asleep") \in Thread /\ ThreadOK(Idle("asleep"))
  BY IdleOK DEF Places, HoldsClaim, InProcess
<1>3. ThreadsOK
  BY <1>2 DEF Init, ThreadsOK
<1>4. TypeOK
  BY <1>1, <1>2 DEF Init, TypeOK, Terminals
<1>5. QED
  BY <1>3, <1>4 DEF TypeInv

LEMMA TypeNext == TypeInv /\ [Next]_vars => TypeInv'
<1> SUFFICES ASSUME TypeInv, [Next]_vars PROVE TypeInv'
  OBVIOUS
<1> USE DEF TypeInv
<1>0. /\ row \in [Jobs -> Row] /\ outcome \in [Jobs -> Terminals]
      /\ thread \in [Workers -> Thread] /\ ThreadsOK
  BY DEF TypeOK
<1>h. ASSUME NEW w \in Workers, thread[w].at \in HoldsClaim
      PROVE  Job(w) \in Jobs /\ Claim(w) \in Row
  BY <1>0, <1>h DEF ThreadsOK, ThreadOK, Job, Claim
<1>s. \A w \in Workers : At(w, "settle") =>
         thread[w].verdict \in Verdicts \ {"none", "batch"}
  BY <1>0 DEF ThreadsOK, ThreadOK, At
<1>i. Interrupted(NewRow) = Interrupted(NewRow) /\ \A r \in Row : Interrupted(r) \in Row
  BY InterruptedType
<1>e. ErasedRow \in Row
  BY DEF ErasedRow, NewRow, Row, States, Open, Results, Terminals, Errors
<1> DEFINE Rest == /\ evidence' \in [Jobs -> {"current", "revoked", "erased"}]
                   /\ stopping' \in [Workers -> {"no", "begun", "done"}]
                   /\ recovered' \in [Workers -> BOOLEAN]
                   /\ lifetime' \in [Workers -> {"unborn", "held", "released"}]
                   /\ faults' \in Nat /\ sends' \in [Jobs -> Nat]
                   /\ rewrites' \in [Jobs -> Nat] /\ writes' \in [Jobs -> Nat]
           Rows == row' \in [Jobs -> Row] /\ outcome' \in [Jobs -> Terminals]
           Threads == thread' \in [Workers -> Thread] /\ ThreadsOK'
<1>q. ASSUME Rest, Rows, Threads PROVE TypeInv'
  BY <1>q DEF TypeOK
<1>u. ASSUME UNCHANGED <<row, outcome>> PROVE Rows
  BY <1>0, <1>u
<1>t. ASSUME UNCHANGED thread PROVE Threads
  BY <1>0, <1>t DEF ThreadsOK
<1>1. ASSUME NEW w \in Workers, Create(w) PROVE TypeInv'
  <2>1. Rest
    BY <1>1 DEF Create, TypeOK, store, calls, worker
  <2>2. Rows
    BY <1>1, <1>u DEF Create, store
  <2>3. Threads
    BY <1>1, <1>t DEF Create
  <2>4. QED
    BY <1>q, <2>1, <2>2, <2>3
<1>2. ASSUME NEW w \in Workers, Kick(w) PROVE TypeInv'
  <2>1. Rest
    BY <1>2 DEF Kick, TypeOK, store, calls, worker
  <2>2. Rows
    BY <1>2, <1>u DEF Kick, store
  <2>3. Threads
    BY <1>0, <1>2, <1>h, GotoOK DEF Kick, At, Places, HoldsClaim, InProcess
  <2>4. QED
    BY <1>q, <2>1, <2>2, <2>3
<1>3. ASSUME NEW w \in Workers, Top(w) PROVE TypeInv'
  <2>1. Rest
    BY <1>3 DEF Top, TypeOK, store, calls, worker
  <2>2. Rows
    BY <1>3, <1>u DEF Top, store
  <2>3. Threads
    BY <1>0, <1>3, <1>h, GotoOK DEF Top, At, Places, HoldsClaim, InProcess
  <2>4. QED
    BY <1>q, <2>1, <2>2, <2>3
<1>4. ASSUME NEW w \in Workers, RecoverAtStart(w) PROVE TypeInv'
  <2>1. Rest
    BY <1>4 DEF RecoverAtStart, TypeOK, store, calls, worker
  <2>2. Rows
    <3> DEFINE rows == [j \in Jobs |->
              IF row[j].state = "processing" /\ row[j].owner \in Workers
                 /\ lifetime[row[j].owner] = "released"
              THEN Interrupted(row[j]) ELSE row[j]]
    <3>1. rows \in [Jobs -> Row]
      BY <1>0, <1>i
    <3>2. Write(rows)
      BY <1>4 DEF RecoverAtStart
    <3>3. QED
      BY <1>0, <3>1, <3>2, WriteOK
  <2>3. Threads
    BY <1>4, <1>t DEF RecoverAtStart
  <2>4. QED
    BY <1>q, <2>1, <2>2, <2>3
<1>5. ASSUME NEW w \in Workers, ClaimOne(w) PROVE TypeInv'
  <2>1. Rest
    BY <1>5 DEF ClaimOne, TypeOK, store, calls, worker
  <2>2. Rows
    <3> DEFINE swept == [j \in Jobs |-> Swept(row[j])]
    <3>1. swept \in [Jobs -> Row]
      BY <1>0, SweptType
    <3>2. \A j \in Jobs : [swept EXCEPT ![j] = Claimed(@, w)] \in [Jobs -> Row]
      BY <3>1, ClaimedType
    <3>3. Write(swept) \/ \E j \in Jobs : Write([swept EXCEPT ![j] = Claimed(@, w)])
      BY <1>5 DEF ClaimOne
    <3>4. QED
      BY <1>0, <3>1, <3>2, <3>3, WriteOK
  <2>3. Threads
    <3>1. CASE Goto(w, "ending")
      BY <1>0, <3>1, GotoOK DEF Places, HoldsClaim, InProcess
    <3>2. CASE \E j \in Jobs : thread' = [thread EXCEPT
                 ![w] = [Idle("validate") EXCEPT !.job = j, !.token = Swept(row[j]).gen + 1]]
      <4> PICK j \in Jobs : thread' = [thread EXCEPT
                 ![w] = [Idle("validate") EXCEPT !.job = j, !.token = Swept(row[j]).gen + 1]]
        BY <3>2
      <4> DEFINE t == [Idle("validate") EXCEPT !.job = j, !.token = Swept(row[j]).gen + 1]
      <4>1. Swept(row[j]).gen + 1 \in Nat
        BY <1>0, SweptType DEF Row
      <4>2. t \in Thread /\ ThreadOK(t)
        BY <4>1 DEF Idle, Thread, ThreadOK, Places, HoldsClaim, InProcess, Results, Verdicts
      <4> HIDE DEF t
      <4>3. QED
        BY <1>0, <4>2, MoveOK DEF t
    <3>3. QED
      BY <1>5, <3>1, <3>2 DEF ClaimOne
  <2>4. QED
    BY <1>q, <2>1, <2>2, <2>3
<1>6. ASSUME NEW w \in Workers, End(w) PROVE TypeInv'
  <2>1. Rest
    BY <1>6 DEF End, TypeOK, store, calls, worker
  <2>2. Rows
    BY <1>6, <1>u DEF End, store
  <2>3. Threads
    BY <1>0, <1>6, <1>h, GotoOK, DropOK DEF End, At, Places, HoldsClaim, InProcess
  <2>4. QED
    BY <1>q, <2>1, <2>2, <2>3
<1>7. ASSUME NEW w \in Workers, Abandon(w) PROVE TypeInv'
  <2>1. Rest
    BY <1>7 DEF Abandon, TypeOK, store, calls, worker, Fault
  <2>2. Rows
    BY <1>7, <1>u DEF Abandon, store
  <2>3. Threads
    BY <1>0, <1>7, <1>h, GotoOK, DropOK DEF Abandon, At, Places, HoldsClaim, InProcess
  <2>4. QED
    BY <1>q, <2>1, <2>2, <2>3
<1>8. ASSUME NEW w \in Workers, Validate(w) PROVE TypeInv'
  <2>1. Rest
    BY <1>8 DEF Validate, TypeOK, store, calls, worker, Fault
  <2>2. Rows
    BY <1>8, <1>u DEF Validate, store
  <2>3. Threads
    BY <1>0, <1>8, <1>h, GotoOK, DropOK, SettlesOK DEF Validate, At, Places, HoldsClaim, InProcess, Verdicts
  <2>4. QED
    BY <1>q, <2>1, <2>2, <2>3
<1>9. ASSUME NEW w \in Workers, Beat(w) PROVE TypeInv'
  <2>1. Rest
    BY <1>9 DEF Beat, TypeOK, store, calls, worker, Fault
  <2>2. Rows
    BY <1>9, <1>u DEF Beat, store
  <2>3. Threads
    BY <1>0, <1>9, <1>h, GotoOK, DropOK, SettlesOK DEF Beat, At, Places, HoldsClaim, InProcess, Verdicts
  <2>4. QED
    BY <1>q, <2>1, <2>2, <2>3
<1>10. ASSUME NEW w \in Workers, Ready(w) PROVE TypeInv'
  <2>1. Rest
    BY <1>10 DEF Ready, TypeOK, store, calls, worker
  <2>2. Rows
    BY <1>10, <1>u DEF Ready, store
  <2>3. Threads
    <3>1. CASE thread' = [thread EXCEPT ![w].at = "load", ![w].replay = TRUE]
      <4> DEFINE t == [thread[w] EXCEPT !.at = "load", !.replay = TRUE]
      <4>1. t \in Thread /\ ThreadOK(t)
        BY <1>0, <1>10, <1>h DEF Ready, At, Thread, ThreadOK, Job, Places, HoldsClaim, InProcess
      <4>2. thread' = [thread EXCEPT ![w] = t]
        BY <3>1
      <4> HIDE DEF t
      <4>3. QED
        BY <1>0, <4>1, <4>2, MoveOK
    <3>2. CASE \E p \in {"load", "mark"} : Goto(w, p)
      BY <1>0, <1>10, <1>h, <3>2, GotoOK DEF Ready, At, Places, HoldsClaim, InProcess
    <3>3. CASE Refuse(w, "dead")
      BY <1>0, <1>10, <1>h, <3>3, SettlesOK DEF Ready, At, Places, HoldsClaim, InProcess, Verdicts
    <3>4. QED
      BY <1>10, <3>1, <3>2, <3>3 DEF Ready
  <2>4. QED
    BY <1>q, <2>1, <2>2, <2>3
<1>11. ASSUME NEW w \in Workers, CapabilityRaises(w) PROVE TypeInv'
  <2>1. Rest
    BY <1>11 DEF CapabilityRaises, TypeOK, store, calls, worker, Fault
  <2>2. Rows
    BY <1>11, <1>u DEF CapabilityRaises, store
  <2>3. Threads
    BY <1>0, <1>11, <1>h, GotoOK, DropOK, SettlesOK DEF CapabilityRaises, At, Places, HoldsClaim, InProcess, Verdicts
  <2>4. QED
    BY <1>q, <2>1, <2>2, <2>3
<1>12. ASSUME NEW w \in Workers, Mark(w) PROVE TypeInv'
  <2>1. Rest
    BY <1>12, <1>h DEF Mark, TypeOK, store, calls, worker, At, HoldsClaim, InProcess
  <2>2. Rows
    <3>1. row' \in [Jobs -> Row]
      BY <1>0, <1>12, <1>h, MarkerOK DEF Mark, At, HoldsClaim
    <3>2. QED
      BY <1>0, <1>12, <3>1 DEF Mark
  <2>3. Threads
    BY <1>0, <1>12, <1>h, GotoOK, DropOK, SettlesOK DEF Mark, At, Places, HoldsClaim, InProcess, Verdicts
  <2>4. QED
    BY <1>q, <2>1, <2>2, <2>3
<1>14. ASSUME NEW w \in Workers, Load(w) PROVE TypeInv'
  <2>1. Rest
    BY <1>14, <1>h DEF Load, TypeOK, store, calls, worker, At, HoldsClaim, InProcess
  <2>2. Rows
    BY <1>14, <1>u DEF Load, store
  <2>3. Threads
    <3>1. CASE thread' = [thread EXCEPT ![w].at = "compile", ![w].payload = Claim(w).result]
      <4> DEFINE t == [thread[w] EXCEPT !.at = "compile", !.payload = Claim(w).result]
      <4>1. t \in Thread /\ ThreadOK(t)
        BY <1>0, <1>14, <1>h DEF Load, At, Thread, ThreadOK, Job, Row, Places, HoldsClaim, InProcess
      <4>2. thread' = [thread EXCEPT ![w] = t]
        BY <3>1
      <4> HIDE DEF t
      <4>3. QED
        BY <1>0, <4>1, <4>2, MoveOK
    <3>2. CASE Goto(w, "dispatch")
      BY <1>0, <1>14, <1>h, <3>2, GotoOK DEF Load, At, Places, HoldsClaim, InProcess
    <3>3. CASE RaisePermanent(w) \/ Return(w, "no_change")
      <4>1. "no_change" \in Verdicts \ {"none", "batch"}
        BY DEF Verdicts
      <4>2. QED
        BY <1>0, <1>14, <1>h, <3>3, <4>1, SettlesOK DEF Load, At, Places, HoldsClaim, InProcess
    <3>4. QED
      BY <1>14, <3>1, <3>2, <3>3 DEF Load
  <2>4. QED
    BY <1>q, <2>1, <2>2, <2>3
<1>15. ASSUME NEW w \in Workers, Dispatch(w) PROVE TypeInv'
  <2>1. Rest
    BY <1>15, <1>h DEF Dispatch, TypeOK, store, calls, worker, At, HoldsClaim, InProcess
  <2>2. Rows
    BY <1>15, <1>u DEF Dispatch, store
  <2>3. Threads
    BY <1>0, <1>15, <1>h, GotoOK, SettlesOK DEF Dispatch, At, Places, HoldsClaim, InProcess, Verdicts
  <2>4. QED
    BY <1>q, <2>1, <2>2, <2>3
<1>16. ASSUME NEW w \in Workers, Answer(w) PROVE TypeInv'
  <2>1. Rest
    BY <1>16, <1>h DEF Answer, TypeOK, store, calls, worker, At, HoldsClaim, InProcess
  <2>2. Rows
    BY <1>16, <1>u DEF Answer, store
  <2>3. Threads
    <3>1. thread' = [thread EXCEPT ![w].at = "persist", ![w].payload = "first"]
      BY <1>16 DEF Answer
    <3>2. QED
      <4> DEFINE t == [thread[w] EXCEPT !.at = "persist", !.payload = "first"]
      <4>1. t \in Thread /\ ThreadOK(t)
        BY <1>0, <1>16, <1>h DEF Answer, At, Thread, ThreadOK, Job, Results, Checkpoints, Places, HoldsClaim, InProcess
      <4>2. thread' = [thread EXCEPT ![w] = t]
        BY <3>1
      <4> HIDE DEF t
      <4>3. QED
        BY <1>0, <4>1, <4>2, MoveOK
  <2>4. QED
    BY <1>q, <2>1, <2>2, <2>3
<1>17. ASSUME NEW w \in Workers, RouteFails(w) PROVE TypeInv'
  <2>1. Rest
    BY <1>17, <1>h DEF RouteFails, TypeOK, store, calls, worker, At, HoldsClaim, InProcess
  <2>2. Rows
    BY <1>17, <1>u DEF RouteFails, store
  <2>3. Threads
    BY <1>0, <1>17, <1>h, GotoOK, SettlesOK DEF RouteFails, At, Places, HoldsClaim, InProcess, Verdicts
  <2>4. QED
    BY <1>q, <2>1, <2>2, <2>3
<1>18. ASSUME NEW w \in Workers, Persist(w) PROVE TypeInv'
  <2>1. Rest
    BY <1>18, <1>h DEF Persist, TypeOK, store, calls, worker, At, HoldsClaim, InProcess
  <2>2. Rows
    <3>1. row' \in [Jobs -> Row]
      BY <1>0, <1>18, <1>h, CheckpointOK
         DEF Persist, Checkpoint, At, HoldsClaim, InProcess, Results, Checkpoints
    <3>2. QED
      BY <1>0, <1>18, <3>1 DEF Persist
  <2>3. Threads
    <3>1. CASE thread' = [thread EXCEPT ![w].at = "compile", ![w].payload = "first"]
      <4> DEFINE t == [thread[w] EXCEPT !.at = "compile", !.payload = "first"]
      <4>1. t \in Thread /\ ThreadOK(t)
        BY <1>0, <1>18, <1>h DEF Persist, At, Thread, ThreadOK, Job, Results, Checkpoints, Places, HoldsClaim, InProcess
      <4>2. thread' = [thread EXCEPT ![w] = t]
        BY <3>1
      <4> HIDE DEF t
      <4>3. QED
        BY <1>0, <4>1, <4>2, MoveOK
    <3>2. CASE RaisePermanent(w)
      BY <1>0, <1>18, <1>h, <3>2, SettlesOK DEF Persist, At, Places, HoldsClaim, InProcess
    <3>3. QED
      BY <1>18, <3>1, <3>2 DEF Persist, Checkpoint
  <2>4. QED
    BY <1>q, <2>1, <2>2, <2>3
<1>19. ASSUME NEW w \in Workers, Reserve(w) PROVE TypeInv'
  <2>1. Rest
    BY <1>19, <1>h DEF Reserve, TypeOK, store, calls, worker, At, HoldsClaim, InProcess
  <2>2. Rows
    <3>1. row' \in [Jobs -> Row]
      BY <1>0, <1>19, <1>h, CheckpointOK
         DEF Reserve, Checkpoint, At, HoldsClaim, InProcess, Results, Checkpoints
    <3>2. QED
      BY <1>0, <1>19, <3>1 DEF Reserve
  <2>3. Threads
    <3>1. CASE thread' = [thread EXCEPT ![w].at = "rewrite", ![w].payload = "reserved"]
      <4> DEFINE t == [thread[w] EXCEPT !.at = "rewrite", !.payload = "reserved"]
      <4>1. t \in Thread /\ ThreadOK(t)
        BY <1>0, <1>19, <1>h DEF Reserve, At, Thread, ThreadOK, Job, Results, Checkpoints, Places, HoldsClaim, InProcess
      <4>2. thread' = [thread EXCEPT ![w] = t]
        BY <3>1
      <4> HIDE DEF t
      <4>3. QED
        BY <1>0, <4>1, <4>2, MoveOK
    <3>2. CASE RaisePermanent(w)
      BY <1>0, <1>19, <1>h, <3>2, SettlesOK DEF Reserve, At, Places, HoldsClaim, InProcess
    <3>3. QED
      BY <1>19, <3>1, <3>2 DEF Reserve, Checkpoint
  <2>4. QED
    BY <1>q, <2>1, <2>2, <2>3
<1>20. ASSUME NEW w \in Workers, Compile(w) PROVE TypeInv'
  <2>1. Rest
    BY <1>20, <1>h DEF Compile, TypeOK, store, calls, worker, At, HoldsClaim, InProcess
  <2>2. Rows
    BY <1>20, <1>u DEF Compile, store
  <2>3. Threads
    <3>1. Compilations \ {"batch"} \subseteq Verdicts \ {"none", "batch"}
      BY DEF Compilations, Verdicts
    <3>2. QED
      BY <1>0, <1>20, <1>h, <3>1, GotoOK, SettlesOK DEF Compile, At, Places, HoldsClaim, InProcess
  <2>4. QED
    BY <1>q, <2>1, <2>2, <2>3
<1>21. ASSUME NEW w \in Workers, Rewrite(w) PROVE TypeInv'
  <2>1. Rest
    BY <1>21, <1>h DEF Rewrite, TypeOK, store, calls, worker, At, HoldsClaim, InProcess
  <2>2. Rows
    BY <1>21, <1>u DEF Rewrite, store
  <2>3. Threads
    <3>1. CASE \E p \in {"rewritten", "rewrite_failed"}, c \in Compilations : Rewritten(w, p, c)
      BY <1>0, <1>21, <1>h, <3>1, RewrittenOK DEF Rewrite, At, HoldsClaim, InProcess
    <3>2. CASE Goto(w, "rewrite_await")
      BY <1>0, <1>21, <1>h, <3>2, GotoOK DEF Rewrite, At, Places, HoldsClaim, InProcess
    <3>3. QED
      BY <1>21, <3>1, <3>2 DEF Rewrite, Compilations
  <2>4. QED
    BY <1>q, <2>1, <2>2, <2>3
<1>22. ASSUME NEW w \in Workers, RewriteAnswer(w) PROVE TypeInv'
  <2>1. Rest
    BY <1>22, <1>h DEF RewriteAnswer, TypeOK, store, calls, worker, At, HoldsClaim, InProcess
  <2>2. Rows
    BY <1>22, <1>u DEF RewriteAnswer, store
  <2>3. Threads
    <3>1. CASE \E p \in {"rewritten", "rewrite_failed"}, c \in Compilations : Rewritten(w, p, c)
      BY <1>0, <1>22, <1>h, <3>1, RewrittenOK DEF RewriteAnswer, At, HoldsClaim, InProcess
    <3>3. QED
      BY <1>22, <3>1 DEF RewriteAnswer, Compilations
  <2>4. QED
    BY <1>q, <2>1, <2>2, <2>3
<1>23. ASSUME NEW w \in Workers, RewritePersist(w) PROVE TypeInv'
  <2>1. Rest
    BY <1>23, <1>h DEF RewritePersist, TypeOK, store, calls, worker, At, HoldsClaim, InProcess
  <2>2. Rows
    <3>1. row' \in [Jobs -> Row]
      BY <1>0, <1>23, <1>h, CheckpointOK DEF RewritePersist, At, HoldsClaim, InProcess, Thread
    <3>2. QED
      BY <1>0, <1>23, <3>1 DEF RewritePersist
  <2>3. Threads
    <3>1. thread[w].verdict \in Compilations
      BY <1>0, <1>23 DEF RewritePersist, ThreadsOK, ThreadOK, At
    <3>2. Compilations \ {"batch"} \subseteq Verdicts \ {"none", "batch"}
      BY DEF Compilations, Verdicts
    <3>3. QED
      BY <1>0, <1>23, <1>h, <3>1, <3>2, GotoOK, SettlesOK DEF RewritePersist, At, Places, HoldsClaim, InProcess
  <2>4. QED
    BY <1>q, <2>1, <2>2, <2>3
<1>24. ASSUME NEW w \in Workers, Apply(w) PROVE TypeInv'
  <2>1. Rest
    BY <1>24, <1>h DEF Apply, TypeOK, store, calls, worker, At, HoldsClaim, InProcess
  <2>2. Rows
    <3>1. CASE UNCHANGED <<row, outcome>>
      BY <1>u, <3>1
    <3>2. CASE \E v \in {"applied", "no_change"} : Update(Job(w), AppliedRow(Claim(w), v))
      <4> PICK v \in {"applied", "no_change"} : Update(Job(w), AppliedRow(Claim(w), v))
        BY <3>2
      <4>1. Unclaimed(Claim(w)) \in Row
        BY <1>24, <1>h, UnclaimedType DEF Apply, At, HoldsClaim, InProcess
      <4>2. AppliedRow(Claim(w), v) \in Row
        BY <4>1 DEF AppliedRow, Row, States, Settled, Terminals, Errors
      <4> DEFINE rows == [row EXCEPT ![Job(w)] = AppliedRow(Claim(w), v)]
      <4>3. rows \in [Jobs -> Row]
        BY <1>0, <4>2
      <4>4. QED
        BY <1>0, <4>3, WriteOK DEF Update
    <3>3. QED
      BY <1>24, <3>1, <3>2 DEF Apply
  <2>3. Threads
    <3>1. {"applied", "no_change", "dead", "clarification_required"} \subseteq Verdicts \ {"none", "batch"}
      BY DEF Verdicts
    <3>2. QED
      BY <1>0, <1>24, <1>h, <3>1, SettlesOK DEF Apply, At, Places, HoldsClaim, InProcess
  <2>4. QED
    BY <1>q, <2>1, <2>2, <2>3
<1>25. ASSUME NEW w \in Workers, ProcessorRaises(w) PROVE TypeInv'
  <2>1. Rest
    BY <1>25, <1>h DEF ProcessorRaises, TypeOK, store, calls, worker, At, HoldsClaim, InProcess, Fault
  <2>2. Rows
    BY <1>25, <1>u DEF ProcessorRaises, store
  <2>3. Threads
    BY <1>0, <1>25, <1>h, GotoOK, SettlesOK DEF ProcessorRaises, At, Places, HoldsClaim, InProcess, Verdicts
  <2>4. QED
    BY <1>q, <2>1, <2>2, <2>3
<1>26. ASSUME NEW w \in Workers, Settle(w) PROVE TypeInv'
  <2>1. Rest
    BY <1>26, <1>h DEF Settle, TypeOK, store, calls, worker, At, HoldsClaim, InProcess
  <2>2. Rows
    <3>1. CASE UNCHANGED <<row, outcome>>
      BY <1>u, <3>1
    <3> DEFINE t == thread[w]
               new == Settlement(Claim(w), t.verdict, t.completed,
                                 IF t.attached THEN t.payload ELSE "none")
    <3>2. CASE Update(t.job, new)
      <4>1. t \in Thread /\ t.verdict \in Verdicts \ {"none", "batch"} /\ Claim(w) \in Row
        BY <1>0, <1>26, <1>h, <1>s DEF Settle, At, HoldsClaim
      <4>2. (IF t.attached THEN t.payload ELSE "none") \in Results /\ t.completed \in BOOLEAN
        BY <4>1 DEF Thread, Results
      <4>3. new \in Row
        BY <4>1, <4>2, SettlementType
      <4> DEFINE rows == [row EXCEPT ![t.job] = new]
      <4> HIDE DEF new, t
      <4>4. rows \in [Jobs -> Row]
        BY <1>0, <4>3
      <4>5. QED
        BY <1>0, <3>2, <4>4, WriteOK DEF Update
    <3>3. QED
      BY <1>26, <3>1, <3>2 DEF Settle
  <2>3. Threads
    BY <1>0, <1>26, <1>h, GotoOK, DropOK, SettlesOK DEF Settle, At, Places, HoldsClaim, InProcess, Verdicts
  <2>4. QED
    BY <1>q, <2>1, <2>2, <2>3
<1>27. ASSUME NEW w \in Workers, SettleRaises(w) PROVE TypeInv'
  <2>1. Rest
    BY <1>27, <1>h DEF SettleRaises, TypeOK, store, calls, worker, At, HoldsClaim, InProcess, Fault
  <2>2. Rows
    BY <1>27, <1>u DEF SettleRaises, store
  <2>3. Threads
    BY <1>0, <1>27, <1>h, GotoOK, SettlesOK DEF SettleRaises, At, Places, HoldsClaim, InProcess, Verdicts
  <2>4. QED
    BY <1>q, <2>1, <2>2, <2>3
<1>28. ASSUME NEW w \in Workers, BeginShutdown(w) PROVE TypeInv'
  <2>1. Rest
    BY <1>28, <1>h DEF BeginShutdown, TypeOK, store, calls, worker, At, HoldsClaim, InProcess
  <2>2. Rows
    BY <1>28, <1>u DEF BeginShutdown, store
  <2>3. Threads
    BY <1>28, <1>t DEF BeginShutdown
  <2>4. QED
    BY <1>q, <2>1, <2>2, <2>3
<1>29. ASSUME NEW w \in Workers, Shutdown(w) PROVE TypeInv'
  <2>1. Rest
    BY <1>29, <1>h DEF Shutdown, TypeOK, store, calls, worker, At, HoldsClaim, InProcess
  <2>2. Rows
    <3> DEFINE rows == [j \in Jobs |-> IF row[j].state = "processing" /\ row[j].owner = w
                           THEN Interrupted(row[j]) ELSE row[j]]
    <3>1. rows \in [Jobs -> Row]
      BY <1>0, <1>i
    <3>2. Write(rows)
      BY <1>29 DEF Shutdown
    <3>3. QED
      BY <1>0, <3>1, <3>2, WriteOK
  <2>3. Threads
    BY <1>29, <1>t DEF Shutdown
  <2>4. QED
    BY <1>q, <2>1, <2>2, <2>3
<1>30. ASSUME NEW w \in Workers, ShutdownBusy(w) PROVE TypeInv'
  <2>1. Rest
    BY <1>30, <1>h DEF ShutdownBusy, TypeOK, store, calls, worker, At, HoldsClaim, InProcess, Fault
  <2>2. Rows
    BY <1>30, <1>u DEF ShutdownBusy, store
  <2>3. Threads
    BY <1>30, <1>t DEF ShutdownBusy
  <2>4. QED
    BY <1>q, <2>1, <2>2, <2>3
<1>31. ASSUME NEW w \in Workers, Crash(w) PROVE TypeInv'
  <2>1. Rest
    BY <1>31, <1>h DEF Crash, TypeOK, store, calls, worker, At, HoldsClaim, InProcess
  <2>2. Rows
    BY <1>31, <1>u DEF Crash, store
  <2>3. Threads
    BY <1>0, <1>31, <1>h, GotoOK, DropOK DEF Crash, At, Places, HoldsClaim, InProcess
  <2>4. QED
    BY <1>q, <2>1, <2>2, <2>3
<1>32. ASSUME NEW j \in Jobs, Lapse(j) PROVE TypeInv'
  <2>1. Rest
    BY <1>32, <1>h DEF Lapse, TypeOK, store, calls, worker, At, HoldsClaim, InProcess
  <2>2. Rows
    <3>1. row' \in [Jobs -> Row]
      BY <1>0, <1>32 DEF Lapse, Row
    <3>2. QED
      BY <1>0, <1>32, <3>1 DEF Lapse
  <2>3. Threads
    BY <1>32, <1>t DEF Lapse, worker
  <2>4. QED
    BY <1>q, <2>1, <2>2, <2>3
<1>33. ASSUME NEW j \in Jobs, BecomeDue(j) PROVE TypeInv'
  <2>1. Rest
    BY <1>33, <1>h DEF BecomeDue, TypeOK, store, calls, worker, At, HoldsClaim, InProcess
  <2>2. Rows
    <3>1. row' \in [Jobs -> Row]
      BY <1>0, <1>33 DEF BecomeDue, Row
    <3>2. QED
      BY <1>0, <1>33, <3>1 DEF BecomeDue
  <2>3. Threads
    BY <1>33, <1>t DEF BecomeDue, worker
  <2>4. QED
    BY <1>q, <2>1, <2>2, <2>3
<1>34. ASSUME NEW j \in Jobs, NEW status \in {"revoked", "current"}, Permit(j, status)
      PROVE  TypeInv'
  BY <1>34, <1>q, <1>u, <1>t DEF Permit, TypeOK, worker, calls
<1>35. ASSUME NEW j \in Jobs, Erase(j) PROVE TypeInv'
  <2>1. Rest
    BY <1>35, <1>h DEF Erase, TypeOK, store, calls, worker, At, HoldsClaim, InProcess
  <2>2. Rows
    BY <1>0, <1>35, <1>e DEF Erase, Terminals
  <2>3. Threads
    BY <1>35, <1>t DEF Erase, worker
  <2>4. QED
    BY <1>q, <2>1, <2>2, <2>3
<1>36. CASE UNCHANGED vars
  BY <1>36, <1>q, <1>u, <1>t DEF vars, store, worker, calls, TypeOK
<1>37. QED
  BY <1>1, <1>2, <1>3, <1>4, <1>5, <1>6, <1>7, <1>8, <1>9, <1>10, <1>11, <1>12, <1>14, <1>15, <1>16, <1>17, <1>18, <1>19, <1>20, <1>21, <1>22, <1>23, <1>24, <1>25, <1>26, <1>27, <1>28, <1>29, <1>30, <1>31, <1>32, <1>33, <1>34, <1>35, <1>36 DEF Next, Drain, Process,
     Faulty, Host, Clock, User

(* Every variable keeps its type, whatever the jobs, workers and bounds.   *)
THEOREM TypeCorrect == Spec => []TypeOK
<1>1. Init => TypeInv
  BY TypeInit
<1>2. TypeInv /\ [Next]_vars => TypeInv'
  BY TypeNext
<1>3. TypeInv => TypeOK
  BY DEF TypeInv
<1>4. QED
  BY <1>1, <1>2, <1>3, PTL DEF Spec

-----------------------------------------------------------------------------
(* What a row, its Evidence, its outcome and its writes have to do with    *)
(* each other.                                                             *)
RowSound(r, e, o, n) ==
  /\ r.attempts <= MaxAttempts
  /\ r.state = "processing" => r.attempts >= 1
  /\ r.state \in Open \cup {"processing"} => r.result # "stub"
  /\ e = "erased" => r = ErasedRow /\ o = "none"
  /\ r.state = "absent" => e = "erased"
  /\ n <= 1
  /\ r.state # "absent" => (n = 1 <=> r.state = "applied")
  /\ n = 1 /\ r.state # "absent" => r.result \in Checkpoints

RowsSound == \A j \in Jobs : RowSound(row[j], evidence[j], outcome[j], writes[j])

(* A job that may not be rewritten any more: over, or past its reservation. *)
Spent(r) ==
  r.state \in Settled \cup {"absent"} \/ r.result \in {"reserved", "rewritten", "rewrite_failed"}

(* A job that may not be marked any more. *)
Sent(r) == r.state = "absent" \/ r.marker

(* The policy under which a model call is never repeated. *)
Once == ~RetryInference /\ Local = {}

(* The fence of a thread t of worker w on the row r. *)
Holds(w, t, r) ==
  r.state = "processing" /\ r.owner = w /\ r.token = t.token /\ r.gen = t.token

(* What a thread relies on while its fence holds ... *)
Held(w, t, r) ==
  /\ t.at \in {"dispatch", "await", "persist"} => r.result = "none"
  /\ t.at \in {"compile", "reserve"} => r.result = t.payload
  /\ t.at \in {"rewrite", "rewrite_await", "rewrite_persist"} => r.result = "reserved"
  /\ t.at = "apply" => r.result \in Checkpoints
  /\ w \notin Local /\ t.at \in InProcess => r.marker
  /\ t.replay => r.marker
  /\ t.at = "settle" => t.verdict # "applied" /\ (t.completed => r.marker)

(* ... and without it. *)
Sound(w, t, r) ==
  t.at \in HoldsClaim =>
    /\ r.state = "absent" \/ t.token <= r.gen
    /\ t.at \notin InProcess \cup {"settle"} => ~t.replay
    /\ t.at = "load" /\ t.replay => r.state = "absent" \/ r.result # "none"
    /\ t.at = "dispatch" => ~t.replay
    /\ t.at \in {"compile", "reserve"} => t.payload # "none"
    /\ t.at = "reserve" => t.payload \in {"first", "stub"}
    /\ t.at = "rewrite" => Spent(r)
    /\ Once /\ t.at \in {"load", "dispatch"} => Sent(r)
    /\ Holds(w, t, r) => Held(w, t, r)

ThreadsSound == \A w \in Workers : Sound(w, thread[w], row[Job(w)])

(* The threads that may still send a job to the model, or to its rewrite.  *)
Sends(t) == t.at \in {"load", "dispatch"} /\ ~t.replay
Rewrites(t) == t.at = "rewrite"

Senders(j) == {w \in Workers : thread[w].job = j /\ Sends(thread[w])}
Rewriters(j) == {w \in Workers : thread[w].job = j /\ Rewrites(thread[w])}

(* At most one thread of S may make the call, and none once it was made,   *)
(* which leaves a trace.                                                   *)
Ticket(S, calls_made, trace) ==
  /\ calls_made <= 1
  /\ calls_made = 1 => trace
  /\ \A w \in S : calls_made = 0 /\ \A v \in S : v = w

Tickets ==
  \A j \in Jobs :
    /\ Once => Ticket(Senders(j), sends[j], Sent(row[j]))
    /\ Ticket(Rewriters(j), rewrites[j], Spent(row[j]))

EffectsInv == RowsSound /\ ThreadsSound /\ Tickets

-----------------------------------------------------------------------------
(* Quiet steps of a row: everything but the writes of the claim's holder   *)
(* and erasure.                                                            *)
Quiet(r, s) ==
  /\ s.result = r.result
  /\ s.gen >= r.gen
  /\ s.attempts <= MaxAttempts
  /\ s.state = "processing" => s.attempts >= 1
  /\ r.state \in Settled \cup {"absent"} => s.state = r.state
  /\ s.state \in {"applied", "absent"} => r.state = s.state
  /\ r = ErasedRow => s = r
  /\ r.marker /\ ~RetryInference => s.marker
  /\ s.state = "processing" =>
       \/ /\ r.state = "processing" /\ r.owner = s.owner
          /\ r.token = s.token /\ r.gen = s.gen /\ r.marker = s.marker
       \/ s.token > r.gen

(* What is true of a row in reach of a step, and all that Quiet needs.     *)
RowFit(r) ==
  /\ r \in Row
  /\ r.attempts <= MaxAttempts
  /\ r.state = "processing" => r.attempts >= 1

LEMMA StatesApart ==
  /\ Open = {"pending", "retry"} /\ Settled = {"applied", "no_change", "dead"}
  /\ ErasedRow.state = "absent"
BY DEF Open, Settled, ErasedRow, NewRow

LEMMA QuietFit ==
  ASSUME NEW r, NEW s \in Row, Quiet(r, s) PROVE RowFit(s)
BY DEF Quiet, RowFit

LEMMA QuietSelf == ASSUME NEW r, RowFit(r) PROVE Quiet(r, r)
BY DEF Quiet, RowFit, Row

LEMMA QuietTrans ==
  ASSUME NEW r \in Row, NEW s \in Row, NEW u \in Row, Quiet(r, s), Quiet(s, u)
  PROVE  Quiet(r, u)
BY DEF Quiet, Row

LEMMA QuietDied ==
  ASSUME NEW r, RowFit(r), r.state \in Open \cup {"processing"}, NEW why \in Errors
  PROVE  Quiet(r, Died(r, why))
<1>1. r # ErasedRow
  BY StatesApart
<1>2. QED
  BY <1>1 DEF Quiet, RowFit, Row, Died, Unclaimed, Open, Settled

LEMMA QuietReturned ==
  ASSUME NEW r, RowFit(r), r.state \in Open \cup {"processing"}, NEW why \in Errors
  PROVE  Quiet(r, Returned(r, why)) /\ Returned(r, why) \in Row
<1>1. r # ErasedRow
  BY StatesApart
<1>2. Returned(r, why) \in Row
  BY DEF RowFit, Row, Returned, Unclaimed, States, Open
<1>3. Quiet(r, Returned(r, why))
  BY <1>1 DEF Quiet, RowFit, Row, Returned, Unclaimed, Open, Settled
<1>4. QED
  BY <1>2, <1>3

LEMMA QuietInterrupted ==
  ASSUME NEW r, RowFit(r), r.state = "processing" PROVE Quiet(r, Interrupted(r))
<1>1. CASE OutcomeUnknown(r) /\ ~RetryInference
  BY <1>1, QuietDied DEF Interrupted, Errors
<1>2. CASE ~(OutcomeUnknown(r) /\ ~RetryInference)
  <2>1. r # ErasedRow
    BY StatesApart
  <2>2. r.marker /\ ~RetryInference => r.result # "none"
    BY <1>2 DEF OutcomeUnknown
  <2> DEFINE spent == IF Unclaimed(r).attempts = 0 THEN 0 ELSE Unclaimed(r).attempts - 1
  <2>3. spent <= MaxAttempts
    BY MaxAttemptsAssumption DEF Unclaimed, RowFit, Row
  <2> HIDE DEF spent
  <2> DEFINE s == [Unclaimed(r) EXCEPT
          !.state = "retry", !.due = TRUE, !.attempts = spent, !.gen = r.gen + 1,
          !.marker = r.marker /\ r.result # "none", !.error = "recovered"]
  <2>4. Quiet(r, s)
    BY <2>1, <2>2, <2>3 DEF Quiet, RowFit, Row, Unclaimed, Settled
  <2>5. Interrupted(r) = s
    BY <1>2 DEF Interrupted, spent, Unclaimed, RowFit, Row
  <2>6. QED
    BY <2>4, <2>5
<1>3. QED
  BY <1>1, <1>2

LEMMA QuietExpired ==
  ASSUME NEW r, RowFit(r) PROVE Quiet(r, Expired(r)) /\ Expired(r) \in Row
<1>1. CASE r.state # "processing" \/ r.lease = "live"
  BY <1>1, QuietSelf DEF Expired, RowFit
<1>2. CASE ~(r.state # "processing" \/ r.lease = "live")
  <2>1. Expired(r) \in {Died(r, "dispatch_outcome_unknown"), Died(r, "max_attempts_exhausted"),
                        Returned(r, "dispatch_result_unsettled"), Returned(r, "lease_expired")}
    BY <1>2 DEF Expired
  <2>2. QED
    BY <1>2, <2>1, QuietDied, QuietReturned, DiedType DEF Errors, RowFit
<1>3. QED
  BY <1>1, <1>2

LEMMA QuietSwept ==
  ASSUME NEW r, RowFit(r) PROVE Quiet(r, Swept(r)) /\ Swept(r) \in Row
<1> DEFINE a == Expired(r)
           b == UnsafeDied(a)
           c == ExhaustedDied(b)
<1>1. Quiet(r, a) /\ a \in Row /\ RowFit(a)
  BY QuietExpired, QuietFit
<1> HIDE DEF a
<1>2. Quiet(a, b) /\ b \in Row
  BY <1>1, QuietDied, QuietSelf, DiedType DEF UnsafeDied, RowFit, Errors
<1>3. RowFit(b)
  BY <1>1, <1>2, QuietFit
<1> HIDE DEF b
<1>4. Quiet(b, c) /\ c \in Row
  BY <1>3, QuietDied, QuietSelf, DiedType DEF ExhaustedDied, RowFit, Errors
<1> HIDE DEF c
<1>5. Quiet(r, c)
  <2>1. r \in Row
    BY DEF RowFit
  <2>2. Quiet(r, b)
    BY <1>1, <1>2, <2>1, QuietTrans
  <2>3. QED
    BY <1>2, <1>4, <2>1, <2>2, QuietTrans
<1>6. QED
  BY <1>4, <1>5 DEF Swept, a, b, c

LEMMA QuietClaimed ==
  ASSUME NEW r, RowFit(r), Claimable(r), NEW w \in Workers
  PROVE  Quiet(r, Claimed(r, w))
<1> DEFINE charged == IF Checkpointed(r) /\ r.attempts >= MaxAttempts
                      THEN r.attempts ELSE r.attempts + 1
           error == IF r.error = "recovered" THEN r.error ELSE "none"
<1>1. charged <= MaxAttempts /\ charged >= 1
  BY MaxAttemptsAssumption DEF Claimable, RowFit, Row
<1>2. r # ErasedRow /\ r.state \notin Settled \cup {"absent", "processing"}
  BY StatesApart DEF Claimable
<1> HIDE DEF charged, error
<1> DEFINE s == [r EXCEPT !.state = "processing", !.attempts = charged, !.due = TRUE,
                !.owner = w, !.token = r.gen + 1, !.lease = "live",
                !.gen = r.gen + 1, !.error = error]
<1>3. Quiet(r, s)
  BY <1>1, <1>2 DEF Quiet, RowFit, Row
<1>4. QED
  BY <1>3 DEF Claimed, charged, error

-----------------------------------------------------------------------------
(* A step that is quiet on every row keeps the rows sound.                 *)
LEMMA RowsFit ==
  ASSUME TypeInv, RowsSound, NEW j \in Jobs PROVE RowFit(row[j])
BY DEF TypeInv, TypeOK, RowsSound, RowSound, RowFit

LEMMA QuietRows ==
  ASSUME TypeInv, RowsSound, \A j \in Jobs : Quiet(row[j], row'[j]),
         \A j \in Jobs : outcome'[j] = outcome[j] \/ row'[j].state \in Settled,
         UNCHANGED <<evidence, writes>>
  PROVE  RowsSound'
<1> SUFFICES ASSUME NEW j \in Jobs
             PROVE  RowSound(row'[j], evidence[j], outcome'[j], writes[j])
  BY DEF RowsSound
<1> DEFINE r == row[j]
           s == row'[j]
<1>1. /\ RowSound(r, evidence[j], outcome[j], writes[j]) /\ Quiet(r, s)
      /\ outcome'[j] = outcome[j] \/ s.state \in Settled
  BY DEF RowsSound
<1> HIDE DEF r, s
<1>2. s.attempts <= MaxAttempts /\ (s.state = "processing" => s.attempts >= 1)
  BY <1>1 DEF Quiet
<1>3. s.state \in Open \cup {"processing"} => s.result # "stub"
  <2>1. s.state \in Open \cup {"processing"} => r.state \notin Settled \cup {"absent"}
    BY <1>1, StatesApart DEF Quiet
  <2>2. s.result = r.result
    BY <1>1 DEF Quiet
  <2>3. r.result = "stub" => r.state \notin Open \cup {"processing"}
    BY <1>1 DEF RowSound
  <2>4. r.state \in States
    BY DEF r, TypeInv, TypeOK, Row
  <2>5. QED
    BY <2>1, <2>2, <2>3, <2>4 DEF States
<1>4. evidence[j] = "erased" => s = ErasedRow /\ outcome'[j] = "none"
  BY <1>1, StatesApart DEF Quiet, RowSound
<1>5. s.state = "absent" => evidence[j] = "erased"
  BY <1>1 DEF Quiet, RowSound
<1>6. /\ writes[j] <= 1
      /\ s.state # "absent" => (writes[j] = 1 <=> s.state = "applied")
      /\ writes[j] = 1 /\ s.state # "absent" => s.result \in Checkpoints
  BY <1>1, StatesApart DEF Quiet, RowSound
<1>7. QED
  BY <1>2, <1>3, <1>4, <1>5, <1>6 DEF RowSound, s

LEMMA PublishOutcome ==
  ASSUME TypeInv, NEW rows, Write(rows), NEW j \in Jobs
  PROVE  row' = rows /\ (outcome'[j] = outcome[j] \/ row'[j].state \in Settled)
BY DEF Write, Publish, TypeInv, TypeOK

-----------------------------------------------------------------------------
(* What a thread relies on survives the steps of everybody else.           *)
Later(r, s) ==
  \/ s.state = "absent"
  \/ /\ r.state # "absent"
     /\ s.gen >= r.gen
     /\ Spent(r) => Spent(s)
     /\ r.result # "none" => s.result # "none"
     /\ ~RetryInference /\ r.marker => s.marker

LEMMA LaterQuiet ==
  ASSUME NEW r \in Row, NEW s \in Row, Quiet(r, s) PROVE Later(r, s)
BY StatesApart DEF Quiet, Later, Spent

LEMMA SoundAside ==
  ASSUME NEW w, NEW t \in Thread, NEW r \in Row, NEW s \in Row, Sound(w, t, r), Later(r, s),
         Holds(w, t, s) => /\ Holds(w, t, r) /\ s.result = r.result
                           /\ r.marker => s.marker
  PROVE  Sound(w, t, s)
<1> SUFFICES ASSUME t.at \in HoldsClaim PROVE Sound(w, t, s)
  BY DEF Sound
<1>1. s.state = "absent" \/ t.token <= s.gen
  BY DEF Sound, Later, Thread, Row
<1>2. Holds(w, t, s) => Held(w, t, s)
  BY DEF Sound, Held
<1>3. t.at = "rewrite" => Spent(s)
  BY DEF Sound, Later, Spent
<1>4. Once /\ t.at \in {"load", "dispatch"} => Sent(s)
  BY DEF Sound, Later, Sent, Once
<1>5. t.at = "load" /\ t.replay => s.state = "absent" \/ s.result # "none"
  BY DEF Sound, Later
<1>6. QED
  BY <1>1, <1>2, <1>3, <1>4, <1>5 DEF Sound

LEMMA SoundQuiet ==
  ASSUME NEW w, NEW t \in Thread, NEW r \in Row, NEW s \in Row, Sound(w, t, r), Quiet(r, s)
  PROVE  Sound(w, t, s)
<1>1. CASE t.at \notin HoldsClaim
  BY <1>1 DEF Sound
<1>2. CASE t.at \in HoldsClaim
  <2>1. r.state = "absent" \/ t.token <= r.gen
    BY <1>2 DEF Sound
  <2>2. Holds(w, t, s) => Holds(w, t, r) /\ (r.marker => s.marker)
    BY <2>1 DEF Holds, Quiet, Thread, Row
  <2>3. s.result = r.result
    BY DEF Quiet
  <2>4. QED
    BY <2>2, <2>3, LaterQuiet, SoundAside
<1>3. QED
  BY <1>1, <1>2

-----------------------------------------------------------------------------
(* The three parts of the invariant in a step.                             *)

(* Threads that stay where they are, rows that only take quiet steps.      *)
LEMMA ThreadStays ==
  ASSUME TypeInv, TypeInv', ThreadsSound, NEW v \in Workers, thread'[v] = thread[v],
         Job(v) \in Jobs => Quiet(row[Job(v)], row'[Job(v)])
  PROVE  Sound(v, thread'[v], row'[thread'[v].job])
<1>1. CASE thread[v].at \notin HoldsClaim
  BY <1>1 DEF Sound
<1>2. CASE thread[v].at \in HoldsClaim
  <2>1. Job(v) \in Jobs /\ thread[v] \in Thread
    BY <1>2 DEF TypeInv, TypeOK, ThreadsOK, ThreadOK, Job
  <2>2. row[Job(v)] \in Row /\ row'[Job(v)] \in Row
    BY <2>1 DEF TypeInv, TypeOK
  <2>3. Sound(v, thread[v], row[Job(v)])
    BY DEF ThreadsSound
  <2>4. Sound(v, thread[v], row'[Job(v)])
    BY <2>1, <2>2, <2>3, SoundQuiet
  <2>5. QED
    BY <2>4 DEF Job
<1>3. QED
  BY <1>1, <1>2

(* Threads that stay while the holder of a claim on j writes its row.      *)
LEMMA ThreadStaysAside ==
  ASSUME TypeInv, TypeInv', ThreadsSound, NEW v \in Workers, thread'[v] = thread[v],
         NEW w, v # w, NEW j \in Jobs,
         row[j].owner = w, Later(row[j], row'[j]),
         row'[j].state = "processing" => row'[j].owner = w,
         \A k \in Jobs \ {j} : row'[k] = row[k]
  PROVE  Sound(v, thread'[v], row'[thread'[v].job])
<1>1. CASE thread[v].at \notin HoldsClaim
  BY <1>1 DEF Sound
<1>2. CASE thread[v].at \in HoldsClaim
  <2>1. Job(v) \in Jobs /\ thread[v] \in Thread
    BY <1>2 DEF TypeInv, TypeOK, ThreadsOK, ThreadOK, Job
  <2>2. row[Job(v)] \in Row /\ row'[Job(v)] \in Row
    BY <2>1 DEF TypeInv, TypeOK
  <2>3. Sound(v, thread[v], row[Job(v)])
    BY DEF ThreadsSound
  <2>4. CASE Job(v) # j
    BY <2>1, <2>3, <2>4 DEF Job
  <2>5. CASE Job(v) = j
    <3>1. ~Holds(v, thread[v], row'[j])
      BY DEF Holds
    <3>2. Sound(v, thread[v], row'[j])
      BY <2>1, <2>2, <2>3, <2>5, <3>1, SoundAside
    <3>3. QED
      BY <2>5, <3>2 DEF Job
  <2>6. QED
    BY <2>4, <2>5
<1>3. QED
  BY <1>1, <1>2

LEMMA ThreadsMoved ==
  ASSUME TypeInv, NEW w \in Workers, NEW t, thread' = [thread EXCEPT ![w] = t],
         Sound(w, t, row'[t.job]),
         \A v \in Workers \ {w} : Sound(v, thread'[v], row'[thread'[v].job])
  PROVE  ThreadsSound'
<1>1. thread'[w] = t
  BY DEF TypeInv, TypeOK
<1>2. QED
  BY <1>1 DEF ThreadsSound, Job

(* Nobody becomes entitled to a call, and no trace of a call is lost.      *)
LEMMA TicketsKept ==
  ASSUME TypeInv, Tickets, UNCHANGED <<sends, rewrites>>,
         \A j \in Jobs : Later(row[j], row'[j]),
         \A j \in Jobs : /\ Once => Senders(j)' \subseteq Senders(j)
                         /\ Rewriters(j)' \subseteq Rewriters(j)
  PROVE  Tickets'
<1> SUFFICES ASSUME NEW j \in Jobs
             PROVE  /\ Once => Ticket(Senders(j)', sends[j], Sent(row'[j]))
                    /\ Ticket(Rewriters(j)', rewrites[j], Spent(row'[j]))
  BY DEF Tickets
<1>1. /\ Once => Ticket(Senders(j), sends[j], Sent(row[j]))
      /\ Ticket(Rewriters(j), rewrites[j], Spent(row[j]))
  BY DEF Tickets
<1>2. Once /\ Sent(row[j]) => Sent(row'[j])
  BY DEF Later, Sent, Once
<1>3. Spent(row[j]) => Spent(row'[j])
  BY DEF Later, Spent
<1>4. (Once => Senders(j)' \subseteq Senders(j)) /\ Rewriters(j)' \subseteq Rewriters(j)
  OBVIOUS
<1>5. QED
  BY <1>1, <1>2, <1>3, <1>4 DEF Ticket

LEMMA NoNewCallers ==
  ASSUME TypeInv, NEW w \in Workers, NEW t, thread' = [thread EXCEPT ![w] = t],
         Once /\ Sends(t) => t.job = Job(w) /\ Sends(thread[w]),
         Rewrites(t) => t.job = Job(w) /\ Rewrites(thread[w])
  PROVE  \A j \in Jobs : /\ Once => Senders(j)' \subseteq Senders(j)
                         /\ Rewriters(j)' \subseteq Rewriters(j)
<1>1. thread'[w] = t /\ \A v \in Workers \ {w} : thread'[v] = thread[v]
  BY DEF TypeInv, TypeOK
<1>2. TAKE j \in Jobs
<1>3. ASSUME Once, NEW v \in Senders(j)' PROVE v \in Senders(j)
  BY <1>1, <1>3 DEF Senders, Job
<1>4. ASSUME NEW v \in Rewriters(j)' PROVE v \in Rewriters(j)
  BY <1>1, <1>4 DEF Rewriters, Job
<1>5. QED
  BY <1>3, <1>4

(* Who may call once a thread has moved on with the same job, and once     *)
(* the row is written by the holder of a claim.                            *)
LEMMA CallersMoved ==
  ASSUME TypeInv, NEW w \in Workers, NEW t, NEW j \in Jobs, Job(w) = j, t.job = j,
         thread' = [thread EXCEPT ![w] = t]
  PROVE  /\ Senders(j)' = (Senders(j) \ {w}) \cup {v \in {w} : Sends(t)}
         /\ Rewriters(j)' = (Rewriters(j) \ {w}) \cup {v \in {w} : Rewrites(t)}
         /\ \A k \in Jobs \ {j} : Senders(k)' = Senders(k) /\ Rewriters(k)' = Rewriters(k)
<1>1. thread'[w] = t /\ \A v \in Workers \ {w} : thread'[v] = thread[v]
  BY DEF TypeInv, TypeOK
<1>2. ASSUME NEW v PROVE v \in Senders(j)' <=> v \in (Senders(j) \ {w}) \cup {x \in {w} : Sends(t)}
  BY <1>1 DEF Senders
<1>3. ASSUME NEW v PROVE v \in Rewriters(j)' <=> v \in (Rewriters(j) \ {w}) \cup {x \in {w} : Rewrites(t)}
  BY <1>1 DEF Rewriters
<1>4. ASSUME NEW k \in Jobs \ {j}, NEW v PROVE v \in Senders(k)' <=> v \in Senders(k)
  BY <1>1 DEF Senders, Job
<1>5. ASSUME NEW k \in Jobs \ {j}, NEW v PROVE v \in Rewriters(k)' <=> v \in Rewriters(k)
  BY <1>1 DEF Rewriters, Job
<1>6. QED
  BY <1>2, <1>3, <1>4, <1>5

LEMMA TicketsOfOne ==
  ASSUME Tickets, NEW j \in Jobs,
         \A k \in Jobs \ {j} : /\ Senders(k)' = Senders(k) /\ Rewriters(k)' = Rewriters(k)
                               /\ row'[k] = row[k]
                               /\ sends'[k] = sends[k] /\ rewrites'[k] = rewrites[k],
         Once => Ticket(Senders(j)', sends'[j], Sent(row'[j])),
         Ticket(Rewriters(j)', rewrites'[j], Spent(row'[j]))
  PROVE  Tickets'
<1> SUFFICES ASSUME NEW k \in Jobs
             PROVE  /\ Once => Ticket(Senders(k)', sends'[k], Sent(row'[k]))
                    /\ Ticket(Rewriters(k)', rewrites'[k], Spent(row'[k]))
  BY DEF Tickets
<1>1. CASE k = j
  BY <1>1
<1>2. CASE k # j
  <2>1. /\ Once => Ticket(Senders(k), sends[k], Sent(row[k]))
        /\ Ticket(Rewriters(k), rewrites[k], Spent(row[k]))
    BY DEF Tickets
  <2>2. /\ Senders(k)' = Senders(k) /\ Rewriters(k)' = Rewriters(k) /\ row'[k] = row[k]
        /\ sends'[k] = sends[k] /\ rewrites'[k] = rewrites[k]
    BY <1>2
  <2>3. QED
    BY <2>1, <2>2
<1>3. QED
  BY <1>1, <1>2

(* The holder of a claim writes its row, and moves.                        *)
LEMMA HolderWrites ==
  ASSUME TypeInv, TypeInv', EffectsInv, NEW w \in Workers, NEW j \in Jobs, j = Job(w),
         row[j].state = "processing", row[j].owner = w,
         NEW s, row' = [row EXCEPT ![j] = s], Later(row[j], s),
         s.state = "processing" => s.owner = w,
         NEW u, thread' = [thread EXCEPT ![w] = u], Sound(w, u, s),
         u.at \in HoldsClaim => u.job = j,
         RowSound(s, evidence[j], outcome'[j], writes'[j]), UNCHANGED evidence,
         \A k \in Jobs \ {j} : outcome'[k] = outcome[k] /\ writes'[k] = writes[k]
  PROVE  /\ RowsSound' /\ ThreadsSound'
         /\ row'[j] = s /\ \A k \in Jobs : Later(row[k], row'[k])
<1>1. row'[j] = s /\ \A k \in Jobs \ {j} : row'[k] = row[k]
  BY DEF TypeInv, TypeOK
<1>2. RowsSound'
  <2> SUFFICES ASSUME NEW k \in Jobs
               PROVE  RowSound(row'[k], evidence[k], outcome'[k], writes'[k])
    BY DEF RowsSound
  <2>1. CASE k = j
    BY <1>1, <2>1
  <2>2. CASE k # j
    <3>1. /\ row'[k] = row[k] /\ outcome'[k] = outcome[k] /\ writes'[k] = writes[k]
          /\ RowSound(row[k], evidence[k], outcome[k], writes[k])
      BY <1>1, <2>2 DEF EffectsInv, RowsSound
    <3>2. QED
      BY <3>1
  <2>3. QED
    BY <2>1, <2>2
<1>3. ThreadsSound'
  <2>1. ASSUME NEW v \in Workers \ {w} PROVE Sound(v, thread'[v], row'[thread'[v].job])
    <3>1. thread'[v] = thread[v]
      BY DEF TypeInv, TypeOK
    <3>2. QED
      BY <1>1, <3>1, ThreadStaysAside DEF EffectsInv
  <2>2. Sound(w, u, row'[u.job])
    <3>1. CASE u.at \in HoldsClaim
      BY <1>1, <3>1
    <3>2. CASE u.at \notin HoldsClaim
      BY <3>2 DEF Sound
    <3>3. QED
      BY <3>1, <3>2
  <2>3. QED
    BY <2>1, <2>2, ThreadsMoved
<1>4. \A k \in Jobs : Later(row[k], row'[k])
  <2>1. ASSUME NEW k \in Jobs \ {j} PROVE Later(row[k], row'[k])
    <3>1. row[k] \in Row /\ RowFit(row[k])
      BY RowsFit DEF EffectsInv, RowFit
    <3>2. QED
      BY <1>1, <3>1, QuietSelf, LaterQuiet
  <2>2. QED
    BY <1>1, <2>1
<1>5. QED
  BY <1>1, <1>2, <1>3, <1>4

(* ... and gains no call by it.                                            *)
LEMMA HolderKeeps ==
  ASSUME TypeInv, TypeInv', EffectsInv, NEW w \in Workers, NEW j \in Jobs, j = Job(w),
         row[j].state = "processing", row[j].owner = w,
         NEW s, row' = [row EXCEPT ![j] = s], Later(row[j], s),
         s.state = "processing" => s.owner = w,
         NEW u, thread' = [thread EXCEPT ![w] = u], Sound(w, u, s),
         u.at \in HoldsClaim => u.job = j,
         u.at \notin {"load", "dispatch", "rewrite"},
         RowSound(s, evidence[j], outcome'[j], writes'[j]),
         UNCHANGED <<evidence, sends, rewrites>>,
         \A k \in Jobs \ {j} : outcome'[k] = outcome[k] /\ writes'[k] = writes[k]
  PROVE  EffectsInv'
<1>1. RowsSound' /\ ThreadsSound' /\ \A k \in Jobs : Later(row[k], row'[k])
  BY HolderWrites
<1>2. ~Sends(u) /\ ~Rewrites(u)
  BY DEF Sends, Rewrites
<1>3. Tickets'
  BY <1>1, <1>2, NoNewCallers, TicketsKept DEF EffectsInv
<1>4. QED
  BY <1>1, <1>3 DEF EffectsInv

(* Steps that are quiet on every row, with no thread moved ...             *)
LEMMA Stay ==
  ASSUME TypeInv, TypeInv', EffectsInv, \A j \in Jobs : Quiet(row[j], row'[j]),
         \A j \in Jobs : outcome'[j] = outcome[j] \/ row'[j].state \in Settled,
         UNCHANGED <<evidence, writes, sends, rewrites, thread>>
  PROVE  EffectsInv'
<1>1. RowsSound'
  BY QuietRows DEF EffectsInv
<1>2. ThreadsSound'
  BY ThreadStays DEF EffectsInv, ThreadsSound, Job
<1>3. \A j \in Jobs : Later(row[j], row'[j])
  BY LaterQuiet DEF TypeInv, TypeOK
<1>4. \A j \in Jobs : Senders(j)' \subseteq Senders(j) /\ Rewriters(j)' \subseteq Rewriters(j)
  BY DEF Senders, Rewriters
<1>5. Tickets'
  BY <1>3, <1>4, TicketsKept DEF EffectsInv
<1>6. QED
  BY <1>1, <1>2, <1>5 DEF EffectsInv

(* ... with one thread moved ...                                           *)
LEMMA Move ==
  ASSUME TypeInv, TypeInv', EffectsInv, \A j \in Jobs : Quiet(row[j], row'[j]),
         \A j \in Jobs : outcome'[j] = outcome[j] \/ row'[j].state \in Settled,
         UNCHANGED <<evidence, writes, sends, rewrites>>,
         NEW w \in Workers, NEW t, thread' = [thread EXCEPT ![w] = t],
         Sound(w, t, row'[t.job]),
         Once /\ Sends(t) => t.job = Job(w) /\ Sends(thread[w]),
         Rewrites(t) => t.job = Job(w) /\ Rewrites(thread[w])
  PROVE  EffectsInv'
<1>1. RowsSound'
  BY QuietRows DEF EffectsInv
<1>2. ThreadsSound'
  <2>1. ASSUME NEW v \in Workers \ {w} PROVE Sound(v, thread'[v], row'[thread'[v].job])
    BY ThreadStays DEF EffectsInv, TypeInv, TypeOK
  <2>2. QED
    BY <2>1, ThreadsMoved
<1>3. \A j \in Jobs : Later(row[j], row'[j])
  BY LaterQuiet DEF TypeInv, TypeOK
<1>4. Tickets'
  BY <1>3, NoNewCallers, TicketsKept DEF EffectsInv
<1>5. QED
  BY <1>1, <1>2, <1>4 DEF EffectsInv

(* ... and with the store left alone.                                      *)
LEMMA MoveOnly ==
  ASSUME TypeInv, TypeInv', EffectsInv, UNCHANGED <<store, calls, writes>>,
         NEW w \in Workers, NEW t, thread' = [thread EXCEPT ![w] = t],
         Sound(w, t, row[t.job]),
         Once /\ Sends(t) => t.job = Job(w) /\ Sends(thread[w]),
         Rewrites(t) => t.job = Job(w) /\ Rewrites(thread[w])
  PROVE  EffectsInv'
<1>1. \A j \in Jobs : Quiet(row[j], row'[j])
  BY RowsFit, QuietSelf DEF store, EffectsInv
<1>2. \A j \in Jobs : outcome'[j] = outcome[j]
  BY DEF store
<1>3. UNCHANGED <<row, evidence, writes, sends, rewrites>>
  BY DEF store, calls
<1>4. QED
  BY <1>1, <1>2, <1>3, Move

LEMMA DropKeeps ==
  ASSUME TypeInv, TypeInv', EffectsInv, UNCHANGED <<store, calls, writes>>,
         NEW w \in Workers, NEW place \in Places \ HoldsClaim, Drop(w, place)
  PROVE  EffectsInv'
<1> DEFINE t == Idle(place)
<1>1. t.at \notin HoldsClaim /\ thread' = [thread EXCEPT ![w] = t]
  BY DEF Drop, Idle
<1>2. ~Sends(t) /\ ~Rewrites(t) /\ Sound(w, t, row[t.job])
  BY <1>1 DEF Sends, Rewrites, Sound, HoldsClaim, InProcess
<1> HIDE DEF t
<1>3. QED
  BY <1>1, <1>2, MoveOnly

LEMMA SoundFinish ==
  ASSUME NEW w, NEW t \in Thread, NEW r, t.at \in HoldsClaim, Sound(w, t, r),
         NEW verdict, NEW completed, NEW attached, NEW guarded,
         verdict # "applied" \/ ~Holds(w, t, r),
         completed => t.replay \/ (w \notin Local /\ t.at \in InProcess)
  PROVE  Sound(w, [t EXCEPT !.at = "settle", !.verdict = verdict, !.completed = completed,
                            !.attached = attached, !.guarded = guarded], r)
<1> DEFINE u == [t EXCEPT !.at = "settle", !.verdict = verdict, !.completed = completed,
                          !.attached = attached, !.guarded = guarded]
<1>1. /\ u.at = "settle" /\ u.token = t.token /\ u.replay = t.replay
      /\ u.verdict = verdict /\ u.completed = completed
  BY DEF Thread
<1> HIDE DEF u
<1>2. Holds(w, u, r) => Held(w, u, r)
  BY <1>1 DEF Sound, Holds, Held, InProcess
<1>3. QED
  BY <1>1, <1>2 DEF Sound, InProcess, u

LEMMA FinishKeeps ==
  ASSUME TypeInv, TypeInv', EffectsInv, UNCHANGED <<store, calls, writes>>,
         NEW w \in Workers, thread[w].at \in HoldsClaim,
         NEW verdict, NEW completed, NEW attached, NEW guarded,
         Finish(w, verdict, completed, attached, guarded), verdict # "applied",
         completed => thread[w].replay \/ (w \notin Local /\ thread[w].at \in InProcess)
  PROVE  EffectsInv'
<1> DEFINE t == [thread[w] EXCEPT !.at = "settle", !.verdict = verdict,
                   !.completed = completed, !.attached = attached, !.guarded = guarded]
<1>1. thread' = [thread EXCEPT ![w] = t]
  BY DEF Finish
<1>2. thread[w] \in Thread /\ Sound(w, thread[w], row[Job(w)])
  BY DEF TypeInv, TypeOK, EffectsInv, ThreadsSound
<1>3. t.at = "settle" /\ t.job = Job(w)
  BY <1>2 DEF Thread, Job
<1>4. Sound(w, t, row[Job(w)])
  BY <1>2, SoundFinish
<1> HIDE DEF t
<1>5. ~Sends(t) /\ ~Rewrites(t)
  BY <1>3 DEF Sends, Rewrites
<1>6. QED
  BY <1>1, <1>3, <1>4, <1>5, MoveOnly

(* The settlements of the code: by _process_claim before the processor     *)
(* runs, by its result, and by what it raises.                             *)
LEMMA RefuseKeeps ==
  ASSUME TypeInv, TypeInv', EffectsInv, UNCHANGED <<store, calls, writes>>,
         NEW w \in Workers, thread[w].at \in HoldsClaim,
         NEW v \in {"dead", "retry"}, Refuse(w, v)
  PROVE  EffectsInv'
BY FinishKeeps DEF Refuse

LEMMA ReturnKeeps ==
  ASSUME TypeInv, TypeInv', EffectsInv, UNCHANGED <<store, calls, writes>>,
         NEW w \in Workers, thread[w].at \in InProcess,
         \/ \E v \in (Compilations \ {"batch"}) \cup {"dead"} : Return(w, v)
         \/ RaisePermanent(w)
         \/ RaiseRetryable(w)
  PROVE  EffectsInv'
<1>1. thread[w].at \in HoldsClaim
  BY DEF HoldsClaim
<1>2. QED
  BY <1>1, FinishKeeps DEF Return, RaisePermanent, RaiseRetryable, Remote, Compilations

LEMMA GotoKeeps ==
  ASSUME TypeInv, TypeInv', EffectsInv, UNCHANGED <<store, calls, writes>>,
         NEW w \in Workers, NEW place, Goto(w, place),
         Sound(w, [thread[w] EXCEPT !.at = place], row[Job(w)]),
         Once /\ place \in {"load", "dispatch"} /\ ~thread[w].replay => Sends(thread[w]),
         place # "rewrite"
  PROVE  EffectsInv'
<1> DEFINE t == [thread[w] EXCEPT !.at = place]
<1>1. thread' = [thread EXCEPT ![w] = t]
  BY DEF Goto
<1>2. thread[w] \in Thread
  BY DEF TypeInv, TypeOK
<1>3. t.at = place /\ t.job = Job(w) /\ t.replay = thread[w].replay
  BY <1>2 DEF Thread, Job
<1>4. Sound(w, t, row[t.job])
  BY <1>3
<1> HIDE DEF t
<1>5. (Once /\ Sends(t) => Sends(thread[w])) /\ ~Rewrites(t)
  BY <1>3 DEF Sends, Rewrites
<1>6. QED
  BY <1>1, <1>3, <1>4, <1>5, MoveOnly

(* Places where a thread relies on nothing yet.                            *)
LEMMA SoundEarly ==
  ASSUME NEW w, NEW t \in Thread, NEW r, Sound(w, t, r),
         t.at \in {"validate", "beat", "ready"}, NEW place \in {"beat", "ready", "mark"}
  PROVE  Sound(w, [t EXCEPT !.at = place], r)
<1> DEFINE u == [t EXCEPT !.at = place]
<1>1. u.at = place /\ u.token = t.token /\ u.replay = t.replay
  BY DEF Thread
<1> HIDE DEF u
<1>2. Sound(w, u, r)
  BY <1>1 DEF Sound, Held, Holds, HoldsClaim, InProcess
<1>3. QED
  BY <1>2 DEF u

(* A thread that holds a claim has a job, a sound row and a sound state.   *)
LEMMA Holding ==
  ASSUME TypeInv, EffectsInv, NEW w \in Workers, thread[w].at \in HoldsClaim
  PROVE  /\ Job(w) \in Jobs /\ thread[w] \in Thread
         /\ row[Job(w)] \in Row /\ RowFit(row[Job(w)])
         /\ RowSound(row[Job(w)], evidence[Job(w)], outcome[Job(w)], writes[Job(w)])
         /\ Sound(w, thread[w], row[Job(w)])
<1>1. Job(w) \in Jobs /\ thread[w] \in Thread
  BY DEF TypeInv, TypeOK, ThreadsOK, ThreadOK, Job
<1>2. row[Job(w)] \in Row
  BY <1>1 DEF TypeInv, TypeOK
<1>3. QED
  BY <1>1, <1>2, RowsFit DEF EffectsInv, RowsSound, ThreadsSound

LEMMA ValidateKeeps ==
  ASSUME TypeInv, TypeInv', EffectsInv, NEW w \in Workers, Validate(w) PROVE EffectsInv'
<1>1. thread[w].at = "validate" /\ thread[w].at \in HoldsClaim
  BY DEF Validate, At, HoldsClaim
<1>2. UNCHANGED <<store, calls, writes>>
  BY DEF Validate
<1>3. CASE Goto(w, "beat")
  BY <1>1, <1>2, <1>3, Holding, SoundEarly, GotoKeeps
<1>4. CASE Refuse(w, "dead")
  BY <1>1, <1>2, <1>4, RefuseKeeps
<1>5. QED
  BY <1>3, <1>4 DEF Validate

LEMMA BeatKeeps ==
  ASSUME TypeInv, TypeInv', EffectsInv, NEW w \in Workers, Beat(w) PROVE EffectsInv'
<1>1. thread[w].at = "beat" /\ thread[w].at \in HoldsClaim
  BY DEF Beat, At, HoldsClaim
<1>2. UNCHANGED <<store, calls, writes>>
  BY DEF Beat
<1>3. CASE Goto(w, "ready")
  BY <1>1, <1>2, <1>3, Holding, SoundEarly, GotoKeeps
<1>4. CASE Drop(w, "top")
  BY <1>2, <1>4, DropKeeps DEF Places, HoldsClaim, InProcess
<1>5. QED
  BY <1>3, <1>4 DEF Beat

LEMMA ReadyKeeps ==
  ASSUME TypeInv, TypeInv', EffectsInv, NEW w \in Workers, Ready(w) PROVE EffectsInv'
<1>1. thread[w].at = "ready" /\ thread[w].at \in HoldsClaim
  BY DEF Ready, At, HoldsClaim
<1>2. UNCHANGED <<store, calls, writes>>
  BY DEF Ready
<1> DEFINE t == thread[w]
           r == row[Job(w)]
<1>3. t \in Thread /\ r \in Row /\ Sound(w, t, r)
  BY <1>1, Holding
<1>4. CASE ~Remote(w) /\ Goto(w, "load")
  <2> DEFINE u == [t EXCEPT !.at = "load"]
  <2>1. u.at = "load" /\ u.token = t.token /\ u.replay = t.replay
    BY <1>3 DEF Thread
  <2> HIDE DEF u
  <2>2. w \in Local /\ ~Once
    BY <1>4 DEF Remote, Once
  <2> HIDE DEF t, r
  <2>3. Sound(w, u, r)
    BY <1>1, <1>3, <2>1, <2>2 DEF Sound, Held, Holds, HoldsClaim, InProcess, t
  <2>4. QED
    BY <1>2, <1>4, <2>2, <2>3, GotoKeeps DEF u, r, t
<1>5. CASE /\ LiveFence(w) /\ Checkpointed(Claim(w))
           /\ thread' = [thread EXCEPT ![w].at = "load", ![w].replay = TRUE]
  <2> DEFINE u == [t EXCEPT !.at = "load", !.replay = TRUE]
  <2>1. u.at = "load" /\ u.token = t.token /\ u.replay /\ u.job = t.job
    BY <1>3 DEF Thread
  <2>2. thread' = [thread EXCEPT ![w] = u]
    BY <1>5
  <2> HIDE DEF u
  <2>3. r.marker /\ r.result # "none"
    BY <1>5 DEF Checkpointed, Claim
  <2>4. Sound(w, u, r)
    BY <1>1, <1>3, <2>1, <2>3 DEF Sound, Held, Holds, HoldsClaim, InProcess, Sent
  <2>5. ~Sends(u) /\ ~Rewrites(u) /\ u.job = Job(w)
    BY <2>1 DEF Sends, Rewrites, Job
  <2>6. QED
    BY <1>2, <2>2, <2>4, <2>5, MoveOnly
<1>6. CASE Goto(w, "mark")
  BY <1>1, <1>2, <1>6, Holding, SoundEarly, GotoKeeps
<1>7. CASE Refuse(w, "dead")
  BY <1>1, <1>2, <1>7, RefuseKeeps
<1>8. QED
  BY <1>4, <1>5, <1>6, <1>7 DEF Ready

(* The marker is written: the first of its kind, by a thread whose claim   *)
(* is live, which alone may send now.                                      *)
LEMMA MarkKeeps ==
  ASSUME TypeInv, TypeInv', EffectsInv, NEW w \in Workers, Mark(w) PROVE EffectsInv'
<1>1. thread[w].at = "mark" /\ thread[w].at \in HoldsClaim
  BY DEF Mark, At, HoldsClaim
<1>2. CASE Refuse(w, "dead") /\ UNCHANGED row
  <2>1. UNCHANGED <<store, calls, writes>>
    BY <1>2 DEF Mark, store
  <2>2. QED
    BY <1>1, <1>2, <2>1, RefuseKeeps
<1>3. CASE Drop(w, "top") /\ UNCHANGED row
  <2>1. UNCHANGED <<store, calls, writes>>
    BY <1>3 DEF Mark, store
  <2>2. QED
    BY <1>3, <2>1, DropKeeps DEF Places, HoldsClaim, InProcess
<1>4. CASE /\ LiveFence(w) /\ ~Claim(w).marker
           /\ row' = [row EXCEPT ![Job(w)].marker = TRUE] /\ Goto(w, "load")
  <2>0. PICK j \in Jobs : j = Job(w)
    BY <1>1, Holding
  <2> DEFINE t == thread[w]
             u == [t EXCEPT !.at = "load"]
             r == row[j]
             s == [r EXCEPT !.marker = TRUE]
  <2>1. /\ j \in Jobs /\ t \in Thread /\ r \in Row /\ Sound(w, t, r)
        /\ RowSound(r, evidence[j], outcome[j], writes[j])
    BY <1>1, <2>0, Holding
  <2>2. /\ u.at = "load" /\ u.token = t.token /\ u.replay = t.replay /\ u.job = j
        /\ t.at = "mark" /\ ~t.replay
    BY <1>1, <2>0, <2>1 DEF Thread, Sound, InProcess, Job
  <2>3. thread' = [thread EXCEPT ![w] = u]
    BY <1>4 DEF Goto
  <2>4. /\ row' = [row EXCEPT ![j] = s] /\ row'[j] = s
        /\ \A k \in Jobs \ {j} : row'[k] = row[k]
    BY <1>4, <2>0, <2>1 DEF TypeInv, TypeOK
  <2>5. r.state = "processing" /\ r.owner = w /\ ~r.marker
    BY <1>4, <2>0 DEF LiveFence, Fence, Claim
  <2>6. /\ s.marker /\ s.state = r.state /\ s.owner = r.owner /\ s.token = r.token
        /\ s.gen = r.gen /\ s.result = r.result /\ s.attempts = r.attempts
    BY <2>1 DEF Row
  <2> HIDE DEF u, s
  <2>7. UNCHANGED <<outcome, evidence, calls, writes>>
    BY DEF Mark
  <2>8. RowSound(s, evidence[j], outcome[j], writes[j])
    BY <2>1, <2>5, <2>6, StatesApart DEF RowSound
  <2>9. RowsSound' /\ ThreadsSound'
    <3>1. Sound(w, u, s)
      BY <2>1, <2>2, <2>6 DEF Sound, Held, Holds, HoldsClaim, InProcess, Sent
    <3>2. Later(r, s)
      BY <2>1, <2>5, <2>6 DEF Later, Row, Spent
    <3>3. QED
      BY <2>0, <2>2, <2>3, <2>4, <2>5, <2>6, <2>7, <2>8, <3>1, <3>2, HolderWrites
  <2>10. Tickets'
    <3>1. /\ Senders(j)' = (Senders(j) \ {w}) \cup {v \in {w} : Sends(u)}
          /\ Rewriters(j)' = (Rewriters(j) \ {w}) \cup {v \in {w} : Rewrites(u)}
          /\ \A k \in Jobs \ {j} : Senders(k)' = Senders(k) /\ Rewriters(k)' = Rewriters(k)
      BY <2>0, <2>2, <2>3, CallersMoved
    <3>2. Rewriters(j)' \subseteq Rewriters(j) /\ Spent(r) = Spent(s)
      BY <2>2, <2>6, <3>1 DEF Rewrites, Spent
    <3>3. /\ Once => Ticket(Senders(j), sends[j], Sent(r)) /\ ~Sent(r)
          /\ sends[j] \in Nat
      BY <2>1, <2>5 DEF EffectsInv, Tickets, Sent, TypeInv, TypeOK
    <3>4. Once => Senders(j) = {}
      <4> SUFFICES ASSUME Once, NEW v \in Senders(j) PROVE FALSE
        OBVIOUS
      <4>1. v \in Workers /\ Sound(v, thread[v], r) /\ thread[v].at \in {"load", "dispatch"}
        BY DEF Senders, Sends, EffectsInv, ThreadsSound, Job
      <4>2. Sent(r)
        BY <4>1 DEF Sound, HoldsClaim, InProcess
      <4>3. QED
        BY <3>3, <4>2
    <3>5. Once => sends[j] = 0 /\ Senders(j)' \subseteq {w}
      BY <3>1, <3>3, <3>4 DEF Ticket
    <3>6. Once => Ticket(Senders(j)', sends[j], Sent(s))
      BY <3>5 DEF Ticket
    <3>7. Ticket(Rewriters(j)', rewrites[j], Spent(s))
      BY <2>1, <3>2 DEF EffectsInv, Tickets, Ticket
    <3>8. sends' = sends /\ rewrites' = rewrites
      BY <2>7 DEF calls
    <3>9. QED
      BY <2>1, <2>4, <3>1, <3>6, <3>7, <3>8, TicketsOfOne DEF EffectsInv
  <2>11. QED
    BY <2>9, <2>10 DEF EffectsInv
<1>5. QED
  BY <1>2, <1>3, <1>4 DEF Mark

LEMMA LoadKeeps ==
  ASSUME TypeInv, TypeInv', EffectsInv, NEW w \in Workers, Load(w) PROVE EffectsInv'
<1>1. thread[w].at = "load" /\ thread[w].at \in InProcess /\ thread[w].at \in HoldsClaim
  BY DEF Load, At, HoldsClaim, InProcess
<1>2. UNCHANGED <<store, calls, writes>>
  BY DEF Load
<1> DEFINE t == thread[w]
           r == row[Job(w)]
<1>3. /\ t \in Thread /\ r \in Row /\ Sound(w, t, r)
      /\ RowSound(r, evidence[Job(w)], outcome[Job(w)], writes[Job(w)])
  BY <1>1, Holding
<1>4. CASE /\ r.result # "none"
           /\ thread' = [thread EXCEPT ![w].at = "compile", ![w].payload = r.result]
  <2> DEFINE u == [t EXCEPT !.at = "compile", !.payload = r.result]
  <2>1. /\ u.at = "compile" /\ u.token = t.token /\ u.replay = t.replay /\ u.job = Job(w)
        /\ u.payload = r.result
    BY <1>3 DEF Thread, Job
  <2>2. thread' = [thread EXCEPT ![w] = u]
    BY <1>4
  <2> HIDE DEF u
  <2>3. Sound(w, u, r)
    BY <1>1, <1>3, <1>4, <2>1 DEF Sound, Held, Holds, HoldsClaim, InProcess
  <2>4. ~Sends(u) /\ ~Rewrites(u)
    BY <2>1 DEF Sends, Rewrites
  <2>5. QED
    BY <1>2, <2>1, <2>2, <2>3, <2>4, MoveOnly
<1>5. CASE r.result = "none" /\ Current(Job(w)) /\ Goto(w, "dispatch")
  <2> DEFINE u == [t EXCEPT !.at = "dispatch"]
  <2>1. u.at = "dispatch" /\ u.token = t.token /\ u.replay = t.replay
    BY <1>3 DEF Thread
  <2> HIDE DEF u
  <2>2. r.state # "absent"
    BY <1>3, <1>5 DEF Current, RowSound
  <2>3. ~t.replay
    BY <1>1, <1>3, <1>5, <2>2 DEF Sound
  <2>4. Sound(w, u, r)
    BY <1>1, <1>3, <1>5, <2>1, <2>3 DEF Sound, Held, Holds, HoldsClaim, InProcess
  <2>5. Sends(t)
    BY <1>1, <2>3 DEF Sends
  <2>6. QED
    BY <1>2, <1>5, <2>4, <2>5, GotoKeeps DEF u
<1>6. CASE RaisePermanent(w) \/ Return(w, "no_change")
  BY <1>1, <1>2, <1>6, ReturnKeeps DEF Compilations
<1>7. QED
  BY <1>4, <1>5, <1>6 DEF Load, Claim

(* The call is made by the one thread that may make it.                    *)
LEMMA DispatchKeeps ==
  ASSUME TypeInv, TypeInv', EffectsInv, NEW w \in Workers, Dispatch(w) PROVE EffectsInv'
<1>1. thread[w].at = "dispatch" /\ thread[w].at \in InProcess /\ thread[w].at \in HoldsClaim
  BY DEF Dispatch, At, HoldsClaim, InProcess
<1>2. CASE RaisePermanent(w) /\ UNCHANGED sends
  <2>1. UNCHANGED <<store, calls, writes>>
    BY <1>2 DEF Dispatch, calls
  <2>2. QED
    BY <1>1, <1>2, <2>1, ReturnKeeps
<1>3. CASE Goto(w, "await") /\ sends' = [sends EXCEPT ![Job(w)] = @ + 1]
  <2>0. PICK j \in Jobs : j = Job(w)
    BY <1>1, Holding
  <2> DEFINE t == thread[w]
             u == [t EXCEPT !.at = "await"]
             r == row[j]
  <2>1. t \in Thread /\ r \in Row /\ Sound(w, t, r)
    BY <1>1, <2>0, Holding
  <2>2. u.at = "await" /\ u.token = t.token /\ u.replay = t.replay /\ u.job = j /\ ~t.replay
    BY <1>1, <2>0, <2>1 DEF Thread, Sound, HoldsClaim, Job
  <2>3. thread' = [thread EXCEPT ![w] = u]
    BY <1>3 DEF Goto
  <2>4. UNCHANGED <<row, outcome, evidence, writes, rewrites>>
    BY <1>3 DEF Dispatch, store
  <2> HIDE DEF u
  <2>5. Sound(w, u, r)
    BY <1>1, <2>1, <2>2 DEF Sound, Held, Holds, HoldsClaim, InProcess
  <2>6. RowsSound'
    BY <2>4 DEF EffectsInv, RowsSound
  <2>7. ThreadsSound'
    <3>1. ASSUME NEW v \in Workers \ {w} PROVE Sound(v, thread'[v], row'[thread'[v].job])
      BY <2>3, <2>4 DEF EffectsInv, ThreadsSound, TypeInv, TypeOK, Job
    <3>2. QED
      BY <2>2, <2>3, <2>4, <2>5, <3>1, ThreadsMoved
  <2>8. Tickets'
    <3>1. /\ Senders(j)' = (Senders(j) \ {w}) \cup {v \in {w} : Sends(u)}
          /\ Rewriters(j)' = (Rewriters(j) \ {w}) \cup {v \in {w} : Rewrites(u)}
          /\ \A k \in Jobs \ {j} : Senders(k)' = Senders(k) /\ Rewriters(k)' = Rewriters(k)
      BY <2>0, <2>2, <2>3, CallersMoved
    <3>2. sends'[j] = sends[j] + 1 /\ \A k \in Jobs \ {j} : sends'[k] = sends[k]
      BY <1>3, <2>0 DEF TypeInv, TypeOK
    <3>3. w \in Senders(j)
      BY <1>1, <2>0, <2>2 DEF Senders, Sends, Job
    <3>4. Once => sends[j] = 0 /\ Senders(j)' = {} /\ Sent(r)
      <4>1. Once => Ticket(Senders(j), sends[j], Sent(r)) /\ Sent(r)
        BY <1>1, <2>1 DEF EffectsInv, Tickets, Sound, HoldsClaim
      <4>2. Once => sends[j] = 0 /\ Senders(j) \subseteq {w}
        BY <3>3, <4>1 DEF Ticket
      <4>3. ~Sends(u)
        BY <2>2 DEF Sends
      <4>4. QED
        BY <3>1, <4>1, <4>2, <4>3
    <3>5. Once => Ticket(Senders(j)', sends'[j], Sent(row'[j]))
      BY <2>4, <3>2, <3>4 DEF Ticket
    <3>6. Ticket(Rewriters(j)', rewrites'[j], Spent(row'[j]))
      <4>1. Ticket(Rewriters(j), rewrites[j], Spent(r))
        BY DEF EffectsInv, Tickets
      <4>2. Rewriters(j)' \subseteq Rewriters(j)
        BY <2>2, <3>1 DEF Rewrites
      <4>3. QED
        BY <2>4, <4>1, <4>2 DEF Ticket
    <3>7. QED
      BY <2>4, <3>1, <3>2, <3>5, <3>6, TicketsOfOne DEF EffectsInv
  <2>9. QED
    BY <2>6, <2>7, <2>8 DEF EffectsInv
<1>4. QED
  BY <1>2, <1>3 DEF Dispatch

LEMMA AnswerKeeps ==
  ASSUME TypeInv, TypeInv', EffectsInv, NEW w \in Workers, Answer(w) PROVE EffectsInv'
<1>1. thread[w].at = "await" /\ thread[w].at \in HoldsClaim
  BY DEF Answer, At, HoldsClaim, InProcess
<1>2. UNCHANGED <<store, calls, writes>>
  BY DEF Answer
<1> DEFINE t == thread[w]
           r == row[Job(w)]
           u == [t EXCEPT !.at = "persist", !.payload = "first"]
<1>3. t \in Thread /\ Sound(w, t, r)
  BY <1>1, Holding
<1>4. u.at = "persist" /\ u.token = t.token /\ u.replay = t.replay /\ u.job = Job(w)
  BY <1>3 DEF Thread, Job
<1>5. thread' = [thread EXCEPT ![w] = u]
  BY DEF Answer
<1> HIDE DEF u
<1>6. Sound(w, u, r)
  BY <1>1, <1>3, <1>4 DEF Sound, Held, Holds, HoldsClaim, InProcess
<1>7. ~Sends(u) /\ ~Rewrites(u)
  BY <1>4 DEF Sends, Rewrites
<1>8. QED
  BY <1>2, <1>4, <1>5, <1>6, <1>7, MoveOnly

LEMMA RaiseKeeps ==
  ASSUME TypeInv, TypeInv', EffectsInv, NEW w \in Workers, RouteFails(w) \/ ProcessorRaises(w)
  PROVE  EffectsInv'
<1>1. thread[w].at \in InProcess
  BY DEF RouteFails, ProcessorRaises, At, InProcess
<1>2. UNCHANGED <<store, calls, writes>>
  BY DEF RouteFails, ProcessorRaises
<1>3. RaisePermanent(w) \/ RaiseRetryable(w)
  BY DEF RouteFails, ProcessorRaises
<1>4. QED
  BY <1>1, <1>2, <1>3, ReturnKeeps

(* The first response is stored over nothing.                              *)
LEMMA PersistKeeps ==
  ASSUME TypeInv, TypeInv', EffectsInv, NEW w \in Workers, Persist(w) PROVE EffectsInv'
<1>1. thread[w].at = "persist" /\ thread[w].at \in InProcess /\ thread[w].at \in HoldsClaim
  BY DEF Persist, At, HoldsClaim, InProcess
<1>2. CASE RaisePermanent(w) /\ UNCHANGED row
  <2>1. UNCHANGED <<store, calls, writes>>
    BY <1>2 DEF Persist, store
  <2>2. QED
    BY <1>1, <1>2, <2>1, ReturnKeeps
<1>3. CASE /\ Fence(w) /\ row' = [row EXCEPT ![Job(w)].result = "first"]
           /\ thread' = [thread EXCEPT ![w].at = "compile", ![w].payload = "first"]
  <2>0. PICK j \in Jobs : j = Job(w)
    BY <1>1, Holding
  <2> DEFINE t == thread[w]
             u == [t EXCEPT !.at = "compile", !.payload = "first"]
             r == row[j]
             s == [r EXCEPT !.result = "first"]
  <2>1. /\ t \in Thread /\ r \in Row /\ Sound(w, t, r)
        /\ RowSound(r, evidence[j], outcome[j], writes[j])
    BY <1>1, <2>0, Holding
  <2>2. /\ u.at = "compile" /\ u.token = t.token /\ u.replay = t.replay /\ u.job = j
        /\ u.payload = "first"
    BY <2>0, <2>1 DEF Thread, Job
  <2>3. thread' = [thread EXCEPT ![w] = u] /\ row' = [row EXCEPT ![j] = s]
    BY <1>3, <2>0
  <2>4. r.state = "processing" /\ r.owner = w /\ Holds(w, t, r)
    BY <1>3, <2>0 DEF Fence, Claim, Holds
  <2>5. /\ s.marker = r.marker /\ s.state = r.state /\ s.owner = r.owner /\ s.token = r.token
        /\ s.gen = r.gen /\ s.result = "first" /\ s.attempts = r.attempts
    BY <2>1 DEF Row
  <2> HIDE DEF u, s
  <2>6. r.result = "none"
    BY <1>1, <2>1, <2>4 DEF Sound, Held
  <2>7. RowSound(s, evidence[j], outcome[j], writes[j])
    BY <2>1, <2>4, <2>5, StatesApart DEF RowSound
  <2>8. Sound(w, u, s)
    BY <1>1, <2>1, <2>2, <2>4, <2>5 DEF Sound, Held, Holds, HoldsClaim, InProcess, Row
  <2>9. Later(r, s)
    BY <2>1, <2>4, <2>5, <2>6, StatesApart DEF Later, Row, Spent
  <2>10. UNCHANGED <<outcome, evidence, sends, rewrites, writes>>
    BY DEF Persist, calls
  <2>11. QED
    BY <2>0, <2>2, <2>3, <2>4, <2>5, <2>7, <2>8, <2>9, <2>10, HolderKeeps
<1>4. QED
  BY <1>2, <1>3 DEF Persist, Checkpoint

LEMMA CompileKeeps ==
  ASSUME TypeInv, TypeInv', EffectsInv, NEW w \in Workers, Compile(w) PROVE EffectsInv'
<1>1. thread[w].at = "compile" /\ thread[w].at \in InProcess /\ thread[w].at \in HoldsClaim
  BY DEF Compile, At, HoldsClaim, InProcess
<1>2. UNCHANGED <<store, calls, writes>>
  BY DEF Compile
<1> DEFINE t == thread[w]
           r == row[Job(w)]
<1>3. t \in Thread /\ r \in Row /\ Sound(w, t, r)
  BY <1>1, Holding
<1>4. CASE t.payload # "stub" /\ Goto(w, "apply")
  <2> DEFINE u == [t EXCEPT !.at = "apply"]
  <2>1. u.at = "apply" /\ u.token = t.token /\ u.replay = t.replay
    BY <1>3 DEF Thread
  <2> HIDE DEF u
  <2>2. Holds(w, t, r) => r.result \in Checkpoints
    BY <1>1, <1>3, <1>4 DEF Sound, Held, Row, Results
  <2>3. Sound(w, u, r)
    BY <1>1, <1>3, <2>1, <2>2 DEF Sound, Held, Holds, HoldsClaim, InProcess
  <2>4. QED
    BY <1>2, <1>4, <2>3, GotoKeeps DEF u
<1>5. CASE \E c \in Compilations \ {"batch"} : Return(w, c)
  BY <1>1, <1>2, <1>5, ReturnKeeps
<1>6. CASE t.payload \in {"first", "stub"} /\ Goto(w, "reserve")
  <2> DEFINE u == [t EXCEPT !.at = "reserve"]
  <2>1. u.at = "reserve" /\ u.token = t.token /\ u.replay = t.replay /\ u.payload = t.payload
    BY <1>3 DEF Thread
  <2> HIDE DEF u
  <2>2. Sound(w, u, r)
    BY <1>1, <1>3, <1>6, <2>1 DEF Sound, Held, Holds, HoldsClaim, InProcess
  <2>3. QED
    BY <1>2, <1>6, <2>2, GotoKeeps DEF u
<1>7. QED
  BY <1>4, <1>5, <1>6 DEF Compile

(* The rewrite is reserved: once, by a thread that alone may send it now.  *)
LEMMA ReserveKeeps ==
  ASSUME TypeInv, TypeInv', EffectsInv, NEW w \in Workers, Reserve(w) PROVE EffectsInv'
<1>1. thread[w].at = "reserve" /\ thread[w].at \in InProcess /\ thread[w].at \in HoldsClaim
  BY DEF Reserve, At, HoldsClaim, InProcess
<1>2. CASE RaisePermanent(w) /\ UNCHANGED row
  <2>1. UNCHANGED <<store, calls, writes>>
    BY <1>2 DEF Reserve, store
  <2>2. QED
    BY <1>1, <1>2, <2>1, ReturnKeeps
<1>3. CASE /\ Fence(w) /\ row' = [row EXCEPT ![Job(w)].result = "reserved"]
           /\ thread' = [thread EXCEPT ![w].at = "rewrite", ![w].payload = "reserved"]
  <2>0. PICK j \in Jobs : j = Job(w)
    BY <1>1, Holding
  <2> DEFINE t == thread[w]
             u == [t EXCEPT !.at = "rewrite", !.payload = "reserved"]
             r == row[j]
             s == [r EXCEPT !.result = "reserved"]
  <2>1. /\ t \in Thread /\ r \in Row /\ Sound(w, t, r)
        /\ RowSound(r, evidence[j], outcome[j], writes[j])
    BY <1>1, <2>0, Holding
  <2>2. u.at = "rewrite" /\ u.token = t.token /\ u.replay = t.replay /\ u.job = j
    BY <2>0, <2>1 DEF Thread, Job
  <2>3. thread' = [thread EXCEPT ![w] = u] /\ row' = [row EXCEPT ![j] = s]
    BY <1>3, <2>0
  <2>4. r.state = "processing" /\ r.owner = w /\ Holds(w, t, r)
    BY <1>3, <2>0 DEF Fence, Claim, Holds
  <2>5. /\ s.marker = r.marker /\ s.state = r.state /\ s.owner = r.owner /\ s.token = r.token
        /\ s.gen = r.gen /\ s.result = "reserved" /\ s.attempts = r.attempts
    BY <2>1 DEF Row
  <2> HIDE DEF u, s
  <2>6. r.result = "first"
    BY <1>1, <2>1, <2>4 DEF Sound, Held, RowSound
  <2>7. RowSound(s, evidence[j], outcome[j], writes[j])
    BY <2>1, <2>4, <2>5, StatesApart DEF RowSound
  <2>8. Sound(w, u, s)
    BY <1>1, <2>1, <2>2, <2>4, <2>5 DEF Sound, Held, Holds, HoldsClaim, InProcess, Row, Spent
  <2>9. Later(r, s)
    BY <2>1, <2>4, <2>5, <2>6, StatesApart DEF Later, Row, Spent
  <2>10. UNCHANGED <<outcome, evidence, sends, rewrites, writes>>
    BY DEF Reserve, calls
  <2>11. RowsSound' /\ ThreadsSound' /\ row'[j] = s
    BY <2>0, <2>2, <2>3, <2>4, <2>5, <2>7, <2>8, <2>9, <2>10, HolderWrites
  <2>12. Tickets'
    <3>1. /\ Senders(j)' = (Senders(j) \ {w}) \cup {v \in {w} : Sends(u)}
          /\ Rewriters(j)' = (Rewriters(j) \ {w}) \cup {v \in {w} : Rewrites(u)}
          /\ \A k \in Jobs \ {j} : Senders(k)' = Senders(k) /\ Rewriters(k)' = Rewriters(k)
      BY <2>0, <2>2, <2>3, CallersMoved
    <3>2. Senders(j)' \subseteq Senders(j) /\ Sent(r) = Sent(s)
      BY <2>2, <2>5, <3>1 DEF Sends, Sent
    <3>3. ~Spent(r) /\ Spent(s) /\ rewrites[j] \in Nat
      BY <2>1, <2>4, <2>5, <2>6, StatesApart DEF Spent, TypeInv, TypeOK
    <3>4. Rewriters(j) = {}
      <4> SUFFICES ASSUME NEW v \in Rewriters(j) PROVE FALSE
        OBVIOUS
      <4>1. v \in Workers /\ Sound(v, thread[v], r) /\ thread[v].at = "rewrite"
        BY DEF Rewriters, Rewrites, EffectsInv, ThreadsSound, Job
      <4>2. Spent(r)
        BY <4>1 DEF Sound, HoldsClaim, InProcess
      <4>3. QED
        BY <3>3, <4>2
    <3>5. Ticket(Rewriters(j), rewrites[j], Spent(r))
      BY DEF EffectsInv, Tickets
    <3>6. Ticket(Rewriters(j)', rewrites[j], Spent(s))
      BY <3>1, <3>3, <3>4, <3>5 DEF Ticket
    <3>7. Once => Ticket(Senders(j)', sends[j], Sent(s))
      BY <3>2 DEF EffectsInv, Tickets, Ticket
    <3>8. \A k \in Jobs \ {j} : row'[k] = row[k]
      BY <2>3 DEF TypeInv, TypeOK
    <3>9. QED
      BY <2>10, <2>11, <3>1, <3>8, <3>6, <3>7, TicketsOfOne DEF EffectsInv
  <2>13. QED
    BY <2>11, <2>12 DEF EffectsInv
<1>4. QED
  BY <1>2, <1>3 DEF Reserve, Checkpoint

(* A rewrite that is not sent, and what becomes of one that is.            *)
LEMMA RewrittenKeeps ==
  ASSUME TypeInv, TypeInv', EffectsInv, UNCHANGED <<store, calls, writes>>,
         NEW w \in Workers, thread[w].at \in {"rewrite", "rewrite_await"},
         NEW payload, NEW c, Rewritten(w, payload, c)
  PROVE  EffectsInv'
<1> DEFINE t == thread[w]
           r == row[Job(w)]
           u == [t EXCEPT !.at = "rewrite_persist", !.payload = payload, !.verdict = c]
<1>1. t \in Thread /\ Sound(w, t, r)
  BY Holding DEF HoldsClaim, InProcess
<1>2. u.at = "rewrite_persist" /\ u.token = t.token /\ u.replay = t.replay /\ u.job = Job(w)
  BY <1>1 DEF Thread, Job
<1>3. thread' = [thread EXCEPT ![w] = u]
  BY DEF Rewritten
<1> HIDE DEF u
<1>4. Sound(w, u, r)
  BY <1>1, <1>2 DEF Sound, Held, Holds, HoldsClaim, InProcess
<1>5. ~Sends(u) /\ ~Rewrites(u)
  BY <1>2 DEF Sends, Rewrites
<1>6. QED
  BY <1>2, <1>3, <1>4, <1>5, MoveOnly

LEMMA RewriteAnswerKeeps ==
  ASSUME TypeInv, TypeInv', EffectsInv, NEW w \in Workers, RewriteAnswer(w) PROVE EffectsInv'
BY RewrittenKeeps DEF RewriteAnswer, At

LEMMA RewriteKeeps ==
  ASSUME TypeInv, TypeInv', EffectsInv, NEW w \in Workers, Rewrite(w) PROVE EffectsInv'
<1>1. thread[w].at = "rewrite" /\ thread[w].at \in InProcess /\ thread[w].at \in HoldsClaim
  BY DEF Rewrite, At, HoldsClaim, InProcess
<1>2. CASE Rewritten(w, "rewrite_failed", "no_change") /\ UNCHANGED rewrites
  <2>1. UNCHANGED <<store, calls, writes>>
    BY <1>2 DEF Rewrite, calls
  <2>2. QED
    BY <1>1, <1>2, <2>1, RewrittenKeeps
<1>3. CASE Goto(w, "rewrite_await") /\ rewrites' = [rewrites EXCEPT ![Job(w)] = @ + 1]
  <2>0. PICK j \in Jobs : j = Job(w)
    BY <1>1, Holding
  <2> DEFINE t == thread[w]
             u == [t EXCEPT !.at = "rewrite_await"]
             r == row[j]
  <2>1. t \in Thread /\ r \in Row /\ Sound(w, t, r)
    BY <1>1, <2>0, Holding
  <2>2. u.at = "rewrite_await" /\ u.token = t.token /\ u.replay = t.replay /\ u.job = j
    BY <2>0, <2>1 DEF Thread, Job
  <2>3. thread' = [thread EXCEPT ![w] = u]
    BY <1>3 DEF Goto
  <2>4. UNCHANGED <<row, outcome, evidence, writes, sends>>
    BY <1>3 DEF Rewrite, store
  <2> HIDE DEF u
  <2>5. Sound(w, u, r)
    BY <1>1, <2>1, <2>2 DEF Sound, Held, Holds, HoldsClaim, InProcess
  <2>6. RowsSound'
    BY <2>4 DEF EffectsInv, RowsSound
  <2>7. ThreadsSound'
    <3>1. ASSUME NEW v \in Workers \ {w} PROVE Sound(v, thread'[v], row'[thread'[v].job])
      BY <2>3, <2>4 DEF EffectsInv, ThreadsSound, TypeInv, TypeOK, Job
    <3>2. QED
      BY <2>2, <2>3, <2>4, <2>5, <3>1, ThreadsMoved
  <2>8. Tickets'
    <3>1. /\ Senders(j)' = (Senders(j) \ {w}) \cup {v \in {w} : Sends(u)}
          /\ Rewriters(j)' = (Rewriters(j) \ {w}) \cup {v \in {w} : Rewrites(u)}
          /\ \A k \in Jobs \ {j} : Senders(k)' = Senders(k) /\ Rewriters(k)' = Rewriters(k)
      BY <2>0, <2>2, <2>3, CallersMoved
    <3>2. rewrites'[j] = rewrites[j] + 1 /\ \A k \in Jobs \ {j} : rewrites'[k] = rewrites[k]
      BY <1>3, <2>0 DEF TypeInv, TypeOK
    <3>3. w \in Rewriters(j)
      BY <1>1, <2>0 DEF Rewriters, Rewrites, Job
    <3>4. rewrites[j] = 0 /\ Rewriters(j)' = {} /\ Spent(r)
      <4>1. Ticket(Rewriters(j), rewrites[j], Spent(r)) /\ Spent(r)
        BY <1>1, <2>1 DEF EffectsInv, Tickets, Sound, HoldsClaim
      <4>2. rewrites[j] = 0 /\ Rewriters(j) \subseteq {w}
        BY <3>3, <4>1 DEF Ticket
      <4>3. ~Rewrites(u)
        BY <2>2 DEF Rewrites
      <4>4. QED
        BY <3>1, <4>1, <4>2, <4>3
    <3>5. Ticket(Rewriters(j)', rewrites'[j], Spent(row'[j]))
      BY <2>4, <3>2, <3>4 DEF Ticket
    <3>6. Once => Ticket(Senders(j)', sends'[j], Sent(row'[j]))
      <4>1. Once => Ticket(Senders(j), sends[j], Sent(r))
        BY DEF EffectsInv, Tickets
      <4>2. Senders(j)' \subseteq Senders(j)
        BY <2>2, <3>1 DEF Sends
      <4>3. QED
        BY <2>4, <4>1, <4>2 DEF Ticket
    <3>7. QED
      BY <2>4, <3>1, <3>2, <3>5, <3>6, TicketsOfOne DEF EffectsInv
  <2>9. QED
    BY <2>6, <2>7, <2>8 DEF EffectsInv
<1>4. QED
  BY <1>2, <1>3 DEF Rewrite

LEMMA RewritePersistKeeps ==
  ASSUME TypeInv, TypeInv', EffectsInv, NEW w \in Workers, RewritePersist(w) PROVE EffectsInv'
<1>1. /\ thread[w].at = "rewrite_persist" /\ thread[w].at \in InProcess
      /\ thread[w].at \in HoldsClaim
  BY DEF RewritePersist, At, HoldsClaim, InProcess
<1>2. CASE RaisePermanent(w) /\ UNCHANGED row
  <2>1. UNCHANGED <<store, calls, writes>>
    BY <1>2 DEF RewritePersist, store
  <2>2. QED
    BY <1>1, <1>2, <2>1, ReturnKeeps
<1>3. CASE Fence(w) /\ row' = [row EXCEPT ![Job(w)].result = thread[w].payload]
  <2>0. PICK j \in Jobs : j = Job(w)
    BY <1>1, Holding
  <2> DEFINE t == thread[w]
             r == row[j]
             s == [r EXCEPT !.result = t.payload]
  <2>1. /\ t \in Thread /\ r \in Row /\ Sound(w, t, r)
        /\ RowSound(r, evidence[j], outcome[j], writes[j])
        /\ t.payload \in {"rewritten", "rewrite_failed"} /\ t.verdict \in Compilations
    BY <1>1, <2>0, Holding DEF TypeInv, ThreadsOK, ThreadOK
  <2>2. row' = [row EXCEPT ![j] = s]
    BY <1>3, <2>0
  <2>3. r.state = "processing" /\ r.owner = w /\ Holds(w, t, r)
    BY <1>3, <2>0 DEF Fence, Claim, Holds
  <2>4. /\ s.marker = r.marker /\ s.state = r.state /\ s.owner = r.owner /\ s.token = r.token
        /\ s.gen = r.gen /\ s.result = t.payload /\ s.attempts = r.attempts
    BY <2>1 DEF Row
  <2> HIDE DEF s
  <2>5. RowSound(s, evidence[j], outcome[j], writes[j])
    BY <2>1, <2>3, <2>4, StatesApart DEF RowSound
  <2>6. Later(r, s)
    BY <2>1, <2>3, <2>4, StatesApart DEF Later, Row, Spent
  <2>7. UNCHANGED <<outcome, evidence, sends, rewrites, writes>>
    BY DEF RewritePersist, calls
  <2>8. CASE Goto(w, "apply")
    <3> DEFINE u == [t EXCEPT !.at = "apply"]
    <3>1. /\ u.at = "apply" /\ u.token = t.token /\ u.replay = t.replay /\ u.job = j
          /\ thread' = [thread EXCEPT ![w] = u]
      BY <2>0, <2>1, <2>8 DEF Thread, Job, Goto
    <3> HIDE DEF u
    <3>2. Sound(w, u, s)
      BY <1>1, <2>1, <2>3, <2>4, <3>1
         DEF Sound, Held, Holds, HoldsClaim, InProcess, Row, Checkpoints
    <3>3. QED
      BY <2>0, <2>2, <2>3, <2>4, <2>5, <2>6, <2>7, <3>1, <3>2, HolderKeeps
  <2>9. CASE t.verdict # "batch" /\ Return(w, t.verdict)
    <3> DEFINE u == [t EXCEPT !.at = "settle", !.verdict = t.verdict, !.completed = Remote(w),
                              !.attached = TRUE, !.guarded = TRUE]
    <3>1. /\ u.at = "settle" /\ u.job = j /\ thread' = [thread EXCEPT ![w] = u]
          /\ u.token = t.token /\ u.replay = t.replay
          /\ u.verdict = t.verdict /\ u.completed = Remote(w)
      BY <2>0, <2>1, <2>9 DEF Thread, Job, Return, Finish
    <3>2. t.verdict # "applied" /\ Held(w, t, r) /\ t.token <= r.gen
      BY <1>1, <2>1, <2>3 DEF Compilations, Sound
    <3> HIDE DEF u
    <3>3. Held(w, u, s)
      BY <1>1, <2>4, <3>1, <3>2 DEF Held, InProcess, Remote
    <3>4. Sound(w, u, s)
      BY <2>4, <3>1, <3>2, <3>3 DEF Sound, InProcess
    <3>5. QED
      BY <2>0, <2>2, <2>3, <2>4, <2>5, <2>6, <2>7, <3>1, <3>4, HolderKeeps
  <2>10. QED
    BY <1>1, <1>3, <2>8, <2>9 DEF RewritePersist
<1>4. QED
  BY <1>2, <1>3 DEF RewritePersist

(* The settlement a thread makes without writing anything.                 *)
LEMMA SettlesKeep ==
  ASSUME TypeInv, NEW w \in Workers, NEW j \in Jobs, j = Job(w), thread[w] \in Thread,
         NEW verdict, NEW completed, NEW attached, NEW guarded,
         Finish(w, verdict, completed, attached, guarded),
         NEW s, s.state # "processing", s.state = "absent" \/ thread[w].token <= s.gen,
         thread[w].at \notin InProcess \cup {"settle"} => ~thread[w].replay
  PROVE  \E u : /\ thread' = [thread EXCEPT ![w] = u]
                /\ u.job = j /\ u.at = "settle" /\ Sound(w, u, s)
<1> DEFINE u == [thread[w] EXCEPT !.at = "settle", !.verdict = verdict,
                   !.completed = completed, !.attached = attached, !.guarded = guarded]
<1>1. u.at = "settle" /\ u.job = j /\ u.token = thread[w].token
  BY DEF Thread, Job
<1>2. thread' = [thread EXCEPT ![w] = u]
  BY DEF Finish
<1> HIDE DEF u
<1>3. Sound(w, u, s)
  BY <1>1 DEF Sound, Holds, InProcess
<1>4. QED
  BY <1>1, <1>2, <1>3

(* The World is written under the live fence, from a durable response, and *)
(* the job ends with it.                                                   *)
LEMMA ApplyKeeps ==
  ASSUME TypeInv, TypeInv', EffectsInv, NEW w \in Workers, Apply(w) PROVE EffectsInv'
<1>1. thread[w].at = "apply" /\ thread[w].at \in InProcess /\ thread[w].at \in HoldsClaim
  BY DEF Apply, At, HoldsClaim, InProcess
<1>2. CASE /\ \E v \in {"dead", "no_change", "clarification_required"} : Return(w, v)
           /\ UNCHANGED <<row, outcome, writes>>
  <2>1. UNCHANGED <<store, calls, writes>>
    BY <1>2 DEF Apply, store
  <2>2. QED
    BY <1>1, <1>2, <2>1, ReturnKeeps DEF Compilations
<1>3. CASE /\ LiveFence(w) /\ Current(Job(w))
           /\ \E v \in {"applied", "no_change"} :
                /\ Update(Job(w), AppliedRow(Claim(w), v))
                /\ writes' = [writes EXCEPT ![Job(w)] = IF v = "applied" THEN @ + 1 ELSE @]
                /\ Return(w, v)
  <2>0. PICK j \in Jobs : j = Job(w)
    BY <1>1, Holding
  <2>v. PICK v \in {"applied", "no_change"} :
                /\ Update(j, AppliedRow(row[j], v))
                /\ writes' = [writes EXCEPT ![j] = IF v = "applied" THEN @ + 1 ELSE @]
                /\ Return(w, v)
    BY <1>3, <2>0 DEF Claim
  <2> DEFINE t == thread[w]
             r == row[j]
             s == AppliedRow(r, v)
  <2>1. /\ t \in Thread /\ r \in Row /\ Sound(w, t, r)
        /\ RowSound(r, evidence[j], outcome[j], writes[j])
    BY <1>1, <2>0, Holding
  <2>2. row' = [row EXCEPT ![j] = s] /\ Publish([row EXCEPT ![j] = s])
    BY <2>v DEF Update, Write
  <2>3. /\ r.state = "processing" /\ r.owner = w /\ Holds(w, t, r)
        /\ evidence[j] = "current"
    BY <1>3, <2>0 DEF LiveFence, Fence, Claim, Holds, Current
  <2>4. /\ s.marker = r.marker /\ s.state = v /\ s.gen = r.gen /\ s.result = r.result
        /\ s.attempts = r.attempts
    BY <2>1 DEF Row, AppliedRow, Unclaimed
  <2> HIDE DEF s
  <2>5. r.result \in Checkpoints
    BY <1>1, <2>1, <2>3 DEF Sound, Held
  <2>6. /\ writes[j] = 0 /\ writes'[j] = (IF v = "applied" THEN 1 ELSE 0)
        /\ \A k \in Jobs \ {j} : writes'[k] = writes[k]
    <3>1. writes \in [Jobs -> Nat]
      BY DEF TypeInv, TypeOK
    <3>2. writes[j] = 0
      BY <2>1, <2>3, <3>1, StatesApart DEF RowSound
    <3>3. QED
      BY <2>v, <3>1, <3>2
  <2>7. RowSound(s, evidence[j], outcome'[j], writes'[j])
    BY <2>1, <2>3, <2>4, <2>5, <2>6, StatesApart DEF RowSound
  <2>8. Later(r, s)
    BY <2>1, <2>3, <2>4, StatesApart DEF Later, Row, Spent
  <2>9. \A k \in Jobs \ {j} : outcome'[k] = outcome[k]
    BY <2>2 DEF Publish, TypeInv, TypeOK
  <2>10. UNCHANGED <<evidence, sends, rewrites>>
    BY DEF Apply, calls
  <2>11. PICK u : /\ thread' = [thread EXCEPT ![w] = u]
                  /\ u.job = j /\ u.at = "settle" /\ Sound(w, u, s)
    <3>1. t.token <= s.gen /\ s.state # "processing"
      BY <2>1, <2>3, <2>4 DEF Holds, Thread, Row
    <3>2. Finish(w, v, Remote(w), TRUE, TRUE)
      BY <2>v DEF Return
    <3>3. QED
      BY <1>1, <2>0, <2>1, <3>1, <3>2, SettlesKeep
  <2>12. s.state # "processing"
    BY <2>4
  <2>13. QED
    BY <2>0, <2>2, <2>3, <2>6, <2>7, <2>8, <2>9, <2>10, <2>11, <2>12, HolderKeeps
<1>4. QED
  BY <1>2, <1>3 DEF Apply

LEMMA SettlementFacts ==
  ASSUME NEW r \in Row, NEW verdict \in Verdicts \ {"none", "batch", "applied"},
         NEW completed \in BOOLEAN, NEW payload \in Results, completed => r.marker
  PROVE  LET s == Settlement(r, verdict, completed, payload)
         IN /\ s.state \in {"no_change", "dead", "retry"}
            /\ s.gen = r.gen /\ s.marker = r.marker /\ s.attempts = r.attempts
            /\ s.state = "retry" => s.result = r.result
            /\ r.result # "none" => s.result # "none"
<1> DEFINE eff == Effective(r, verdict, completed)
<1>1. /\ eff[1] \in Verdicts \ {"none", "batch", "applied"}
      /\ eff[1] = "retry" => ~completed
  BY DEF Effective, Verdicts
<1>2. TransportState(eff[1]) \in {"no_change", "dead", "retry"}
  BY <1>1 DEF TransportState, Verdicts
<1>3. TransportState(eff[1]) = "retry" => ~completed
  BY <1>1 DEF TransportState
<1> HIDE DEF eff
<1> DEFINE u == Unclaimed(r)
           stored == CASE ~completed -> u.result
                       [] completed /\ payload = "none" -> "stub"
                       [] OTHER -> payload
           later == eff[1] # "retry"
           s == [u EXCEPT !.state = TransportState(eff[1]), !.due = later,
                          !.result = stored, !.terminal = TerminalOf(eff[1]),
                          !.error = eff[2]]
<1>4. /\ u \in Row /\ u.gen = r.gen /\ u.marker = r.marker /\ u.attempts = r.attempts
      /\ u.result = r.result
  BY UnclaimedType DEF Unclaimed, Row
<1>5. (~completed => stored = r.result) /\ (completed => stored # "none")
  BY <1>4
<1> HIDE DEF u, stored, later
<1>6. /\ s.state = TransportState(eff[1]) /\ s.gen = u.gen /\ s.marker = u.marker
      /\ s.attempts = u.attempts /\ s.result = stored
  BY <1>4 DEF Row
<1>7. Settlement(r, verdict, completed, payload) = s
  BY DEF Settlement, eff, u, stored, later
<1>8. QED
  BY <1>2, <1>3, <1>4, <1>5, <1>6, <1>7

LEMMA SettleKeeps ==
  ASSUME TypeInv, TypeInv', EffectsInv, NEW w \in Workers, Settle(w) PROVE EffectsInv'
<1>1. thread[w].at = "settle" /\ thread[w].at \in HoldsClaim
  BY DEF Settle, At, HoldsClaim
<1> DEFINE payload == IF thread[w].attached THEN thread[w].payload ELSE "none"
<1>2. CASE Drop(w, "top") /\ UNCHANGED <<row, outcome>>
  <2>1. UNCHANGED <<store, calls, writes>>
    BY <1>2 DEF Settle, store
  <2>2. QED
    BY <1>2, <2>1, DropKeeps DEF Places, HoldsClaim, InProcess
<1>3. CASE LiveFence(w) /\ thread[w].verdict = "applied"
  <2>1. Holds(w, thread[w], row[Job(w)])
    BY <1>3 DEF LiveFence, Fence, Claim, Holds
  <2>2. Sound(w, thread[w], row[Job(w)])
    BY <1>1, Holding
  <2>3. QED
    BY <1>1, <1>3, <2>1, <2>2 DEF Sound, Held
<1>4. CASE /\ LiveFence(w) /\ thread[w].verdict # "applied"
           /\ Update(thread[w].job,
                     Settlement(Claim(w), thread[w].verdict, thread[w].completed, payload))
           /\ Drop(w, "top")
  <2>0. PICK j \in Jobs : j = Job(w)
    BY <1>1, Holding
  <2> DEFINE t == thread[w]
             r == row[j]
             s == Settlement(r, t.verdict, t.completed, payload)
             u == Idle("top")
  <2>1. /\ t \in Thread /\ r \in Row /\ Sound(w, t, r)
        /\ RowSound(r, evidence[j], outcome[j], writes[j])
        /\ t.verdict \in Verdicts \ {"none", "batch", "applied"}
    BY <1>1, <1>4, <2>0, Holding DEF TypeInv, ThreadsOK, ThreadOK
  <2>2. row' = [row EXCEPT ![j] = s] /\ Publish([row EXCEPT ![j] = s])
    BY <1>4, <2>0 DEF Update, Write, Job, Claim
  <2>3. r.state = "processing" /\ r.owner = w /\ Holds(w, t, r)
    BY <1>4, <2>0 DEF LiveFence, Fence, Claim, Holds
  <2>4. t.completed => r.marker
    BY <1>1, <2>1, <2>3 DEF Sound, Held
  <2>5. payload \in Results /\ t.completed \in BOOLEAN
    BY <2>1 DEF Thread, Results
  <2> HIDE DEF payload
  <2>6. /\ s.state \in {"no_change", "dead", "retry"}
        /\ s.gen = r.gen /\ s.marker = r.marker /\ s.attempts = r.attempts
        /\ s.state = "retry" => s.result = r.result
        /\ r.result # "none" => s.result # "none"
    BY <2>1, <2>4, <2>5, SettlementFacts
  <2> HIDE DEF s
  <2>7. RowSound(s, evidence[j], outcome'[j], writes[j])
    BY <2>1, <2>3, <2>6, StatesApart DEF RowSound
  <2>8. Later(r, s)
    BY <2>1, <2>3, <2>6, StatesApart DEF Later, Row, Spent
  <2>9. \A k \in Jobs \ {j} : outcome'[k] = outcome[k]
    BY <2>2 DEF Publish, TypeInv, TypeOK
  <2>10. UNCHANGED <<evidence, sends, rewrites, writes>>
    BY DEF Settle, calls
  <2>11. thread' = [thread EXCEPT ![w] = u] /\ u.at = "top"
    BY <1>4 DEF Drop, Idle
  <2> HIDE DEF u
  <2>12. u.at \notin HoldsClaim /\ Sound(w, u, s)
    BY <2>11 DEF Sound, HoldsClaim, InProcess
  <2>13. s.state # "processing"
    BY <2>6
  <2>14. writes'[j] = writes[j] /\ \A k \in Jobs \ {j} : writes'[k] = writes[k]
    BY <2>10
  <2>15. QED
    BY <2>0, <2>2, <2>3, <2>7, <2>8, <2>9, <2>10, <2>11, <2>12, <2>13, <2>14, HolderKeeps
<1>5. QED
  BY <1>2, <1>3, <1>4 DEF Settle

-----------------------------------------------------------------------------
(* The worker's life, the clock and the user.                              *)
LEMMA GotoFree ==
  ASSUME TypeInv, TypeInv', EffectsInv, UNCHANGED <<store, calls, writes>>,
         NEW w \in Workers, NEW place \in {"top", "locked", "ending"}, Goto(w, place)
  PROVE  EffectsInv'
<1>1. thread[w] \in Thread
  BY DEF TypeInv, TypeOK
<1>2. Sound(w, [thread[w] EXCEPT !.at = place], row[Job(w)])
  BY <1>1 DEF Sound, Thread, HoldsClaim, InProcess
<1>3. QED
  BY <1>2, GotoKeeps

LEMMA StoreStays ==
  ASSUME TypeInv, TypeInv', EffectsInv, UNCHANGED <<store, thread, calls, writes>>
  PROVE  EffectsInv'
<1>1. \A j \in Jobs : Quiet(row[j], row'[j])
  BY RowsFit, QuietSelf DEF store, EffectsInv
<1>2. UNCHANGED <<row, outcome, evidence, thread, writes, sends, rewrites>>
  BY DEF store, calls
<1>3. QED
  BY <1>1, <1>2, Stay

LEMMA LifeKeeps ==
  ASSUME TypeInv, TypeInv', EffectsInv, NEW w \in Workers,
         \/ Create(w) \/ Kick(w) \/ Top(w) \/ End(w) \/ Abandon(w) \/ CapabilityRaises(w)
         \/ SettleRaises(w) \/ BeginShutdown(w) \/ ShutdownBusy(w) \/ Crash(w)
  PROVE  EffectsInv'
<1>1. UNCHANGED <<store, calls, writes>>
  BY DEF Create, Kick, Top, End, Abandon, CapabilityRaises, SettleRaises, BeginShutdown,
         ShutdownBusy, Crash
<1>2. CASE Create(w) \/ BeginShutdown(w) \/ ShutdownBusy(w)
  BY <1>1, <1>2, StoreStays DEF Create, BeginShutdown, ShutdownBusy
<1>3. CASE Kick(w) \/ Top(w)
  BY <1>1, <1>3, GotoFree DEF Kick, Top
<1>4. CASE End(w) \/ Abandon(w) \/ Crash(w)
  BY <1>1, <1>4, DropKeeps DEF End, Abandon, Crash, Places, HoldsClaim, InProcess
<1>5. CASE CapabilityRaises(w)
  BY <1>1, <1>5, RefuseKeeps DEF CapabilityRaises, At, HoldsClaim
<1>6. CASE SettleRaises(w)
  BY <1>1, <1>6, FinishKeeps DEF SettleRaises, RaiseRetryable, At, HoldsClaim
<1>7. QED
  BY <1>2, <1>3, <1>4, <1>5, <1>6

LEMMA RecoveryQuiet ==
  ASSUME TypeInv, EffectsInv, NEW w \in Workers, RecoverAtStart(w) \/ Shutdown(w)
  PROVE  /\ \A j \in Jobs : Quiet(row[j], row'[j])
         /\ \A j \in Jobs : outcome'[j] = outcome[j] \/ row'[j].state \in Settled
<1>1. PICK S \in SUBSET Workers :
        Write([j \in Jobs |-> IF row[j].state = "processing" /\ row[j].owner \in S
                              THEN Interrupted(row[j]) ELSE row[j]])
  <2>1. CASE RecoverAtStart(w)
    <3> DEFINE S == {v \in Workers : lifetime[v] = "released"}
    <3>1. [j \in Jobs |-> IF row[j].state = "processing" /\ row[j].owner \in S
                          THEN Interrupted(row[j]) ELSE row[j]]
          = [j \in Jobs |-> IF row[j].state = "processing" /\ row[j].owner \in Workers
                               /\ lifetime[row[j].owner] = "released"
                            THEN Interrupted(row[j]) ELSE row[j]]
      OBVIOUS
    <3>2. QED
      BY <2>1, <3>1 DEF RecoverAtStart
  <2>2. CASE Shutdown(w)
    <3> DEFINE S == {w}
    <3>1. [j \in Jobs |-> IF row[j].state = "processing" /\ row[j].owner \in S
                          THEN Interrupted(row[j]) ELSE row[j]]
          = [j \in Jobs |-> IF row[j].state = "processing" /\ row[j].owner = w
                            THEN Interrupted(row[j]) ELSE row[j]]
      OBVIOUS
    <3>2. QED
      BY <2>2, <3>1 DEF Shutdown
  <2>3. QED
    BY <2>1, <2>2
<1> DEFINE rows == [j \in Jobs |-> IF row[j].state = "processing" /\ row[j].owner \in S
                                   THEN Interrupted(row[j]) ELSE row[j]]
<1>2. \A j \in Jobs : Quiet(row[j], rows[j])
  BY RowsFit, QuietSelf, QuietInterrupted DEF EffectsInv
<1> HIDE DEF rows
<1>3. row' = rows /\ \A j \in Jobs : outcome'[j] = outcome[j] \/ row'[j].state \in Settled
  BY <1>1, PublishOutcome DEF rows, Write
<1>4. QED
  BY <1>2, <1>3

LEMMA RecoveryKeeps ==
  ASSUME TypeInv, TypeInv', EffectsInv, NEW w \in Workers, RecoverAtStart(w) \/ Shutdown(w)
  PROVE  EffectsInv'
<1>1. UNCHANGED <<evidence, writes, sends, rewrites, thread>>
  BY DEF RecoverAtStart, Shutdown, calls
<1>2. QED
  BY <1>1, RecoveryQuiet, Stay

(* The rows claim_one leaves, whichever job it claims. *)
LEMMA ClaimQuiet ==
  ASSUME TypeInv, EffectsInv, NEW w \in Workers, ClaimOne(w)
  PROVE  /\ \A j \in Jobs : Quiet(row[j], row'[j])
         /\ \A j \in Jobs : outcome'[j] = outcome[j] \/ row'[j].state \in Settled
         /\ \/ Goto(w, "ending")
            \/ \E j \in Jobs : thread' = [thread EXCEPT ![w] =
                  [Idle("validate") EXCEPT !.job = j, !.token = row'[j].gen]]
<1> DEFINE swept == [j \in Jobs |-> Swept(row[j])]
<1>1. \A j \in Jobs : /\ row[j] \in Row /\ swept[j] \in Row /\ RowFit(swept[j])
                      /\ Quiet(row[j], swept[j])
  BY RowsFit, QuietSwept, QuietFit DEF EffectsInv, RowFit
<1>2. \/ Write(swept) /\ Goto(w, "ending")
      \/ \E j \in Jobs : /\ Claimable(swept[j])
                         /\ Write([swept EXCEPT ![j] = Claimed(swept[j], w)])
                         /\ thread' = [thread EXCEPT ![w] =
                              [Idle("validate") EXCEPT !.job = j, !.token = swept[j].gen + 1]]
  BY DEF ClaimOne
<1>3. swept \in [Jobs -> Row]
  BY <1>1
<1> HIDE DEF swept
<1>4. CASE Write(swept) /\ Goto(w, "ending")
  <2>1. row' = swept /\ \A j \in Jobs : outcome'[j] = outcome[j] \/ row'[j].state \in Settled
    BY <1>4, PublishOutcome DEF Write
  <2>2. QED
    BY <1>1, <1>4, <2>1
<1>5. ASSUME NEW j \in Jobs, Claimable(swept[j]),
             Write([swept EXCEPT ![j] = Claimed(swept[j], w)]),
             thread' = [thread EXCEPT ![w] =
                 [Idle("validate") EXCEPT !.job = j, !.token = swept[j].gen + 1]]
      PROVE  /\ \A k \in Jobs : Quiet(row[k], row'[k])
             /\ \A k \in Jobs : outcome'[k] = outcome[k] \/ row'[k].state \in Settled
             /\ row'[j].gen = swept[j].gen + 1
  <2> DEFINE rows == [swept EXCEPT ![j] = Claimed(swept[j], w)]
  <2>1. row' = rows /\ \A k \in Jobs : outcome'[k] = outcome[k] \/ row'[k].state \in Settled
    BY <1>5, PublishOutcome DEF Write
  <2>2. rows[j] = Claimed(swept[j], w) /\ \A k \in Jobs \ {j} : rows[k] = swept[k]
    BY <1>3
  <2>3. Quiet(swept[j], rows[j]) /\ rows[j] \in Row
    BY <1>1, <1>5, <2>2, QuietClaimed, ClaimedType
  <2>4. \A k \in Jobs : Quiet(row[k], rows[k])
    BY <1>1, <2>2, <2>3, QuietTrans
  <2>5. rows[j].gen = swept[j].gen + 1
    <3>1. ASSUME NEW r \in Row PROVE Claimed(r, w).gen = r.gen + 1
      BY DEF Claimed, Row
    <3>2. QED
      BY <1>1, <2>2, <3>1
  <2> HIDE DEF rows
  <2>6. QED
    BY <2>1, <2>4, <2>5
<1>6. QED
  BY <1>2, <1>4, <1>5

LEMMA ClaimOneKeeps ==
  ASSUME TypeInv, TypeInv', EffectsInv, NEW w \in Workers, ClaimOne(w) PROVE EffectsInv'
<1>1. /\ \A j \in Jobs : Quiet(row[j], row'[j])
      /\ \A j \in Jobs : outcome'[j] = outcome[j] \/ row'[j].state \in Settled
  BY ClaimQuiet
<1>2. UNCHANGED <<evidence, writes, sends, rewrites>>
  BY DEF ClaimOne, calls
<1>3. CASE Goto(w, "ending")
  <2> DEFINE t == [thread[w] EXCEPT !.at = "ending"]
  <2>1. t.at = "ending" /\ thread' = [thread EXCEPT ![w] = t]
    BY <1>3 DEF Goto, TypeInv, TypeOK, Thread
  <2> HIDE DEF t
  <2>2. ~Sends(t) /\ ~Rewrites(t) /\ Sound(w, t, row'[t.job])
    BY <2>1 DEF Sends, Rewrites, Sound, HoldsClaim, InProcess
  <2>3. QED
    BY <1>1, <1>2, <2>1, <2>2, Move
<1>4. ASSUME NEW j \in Jobs,
             thread' = [thread EXCEPT ![w] =
                 [Idle("validate") EXCEPT !.job = j, !.token = row'[j].gen]]
      PROVE  EffectsInv'
  <2> DEFINE t == [Idle("validate") EXCEPT !.job = j, !.token = row'[j].gen]
  <2>1. thread' = [thread EXCEPT ![w] = t]
    BY <1>4
  <2>2. t.at = "validate" /\ t.job = j /\ t.token = row'[j].gen /\ ~t.replay
    BY DEF Idle
  <2> HIDE DEF t
  <2>3. Sound(w, t, row'[t.job])
    BY <2>2 DEF Sound, Held, HoldsClaim, InProcess, Row, TypeInv, TypeOK
  <2>4. ~Sends(t) /\ ~Rewrites(t)
    BY <2>2 DEF Sends, Rewrites
  <2>5. QED
    BY <1>1, <1>2, <2>1, <2>3, <2>4, Move
<1>5. QED
  BY <1>3, <1>4, ClaimQuiet

LEMMA ClockQuiet ==
  ASSUME TypeInv, EffectsInv, NEW j \in Jobs, Clock(j)
  PROVE  \A k \in Jobs : Quiet(row[k], row'[k])
<1>2. row[j] \in Row /\ RowFit(row[j])
  BY RowsFit DEF EffectsInv, RowFit
<1>3. \A k \in Jobs \ {j} : row'[k] = row[k]
  BY DEF Clock, Lapse, BecomeDue, TypeInv, TypeOK
<1>4. Quiet(row[j], row'[j])
  <2>1. CASE Lapse(j)
    <3>1. row'[j] = [row[j] EXCEPT !.lease = "expired"] /\ row[j].lease = "live"
      BY <2>1 DEF Lapse, TypeInv, TypeOK
    <3>2. row[j] # ErasedRow
      BY <3>1 DEF ErasedRow, NewRow
    <3>3. QED
      BY <1>2, <3>1, <3>2 DEF Quiet, RowFit, Row
  <2>2. CASE BecomeDue(j)
    <3>1. row'[j] = [row[j] EXCEPT !.due = TRUE] /\ ~row[j].due
      BY <2>2 DEF BecomeDue, TypeInv, TypeOK
    <3>2. row[j] # ErasedRow
      BY <3>1 DEF ErasedRow, NewRow
    <3>3. QED
      BY <1>2, <3>1, <3>2 DEF Quiet, RowFit, Row
  <2>3. QED
    BY <2>1, <2>2 DEF Clock
<1>5. QED
  BY <1>3, <1>4, RowsFit, QuietSelf DEF EffectsInv

LEMMA ClockKeeps ==
  ASSUME TypeInv, TypeInv', EffectsInv, NEW j \in Jobs, Clock(j) PROVE EffectsInv'
<1>1. UNCHANGED <<outcome, evidence, writes, sends, rewrites, thread>>
  BY DEF Clock, Lapse, BecomeDue, worker, calls
<1>2. QED
  BY <1>1, ClockQuiet, Stay

LEMMA PermitKeeps ==
  ASSUME TypeInv, EffectsInv, NEW j \in Jobs, NEW status \in {"revoked", "current"},
         Permit(j, status)
  PROVE  EffectsInv'
<1>1. UNCHANGED <<row, outcome, thread, sends, rewrites, writes>>
  BY DEF Permit, worker, calls
<1>2. \A k \in Jobs : (evidence'[k] # "erased" /\ evidence[k] # "erased") \/ evidence'[k] = evidence[k]
  BY DEF Permit, TypeInv, TypeOK
<1>3. RowsSound'
  BY <1>1, <1>2 DEF EffectsInv, RowsSound, RowSound
<1>4. ThreadsSound' /\ Tickets'
  BY <1>1 DEF EffectsInv, ThreadsSound, Tickets, Job, Senders, Rewriters
<1>5. QED
  BY <1>3, <1>4 DEF EffectsInv

LEMMA EraseKeeps ==
  ASSUME TypeInv, TypeInv', EffectsInv, NEW j \in Jobs, Erase(j) PROVE EffectsInv'
<1>1. UNCHANGED <<thread, sends, rewrites, writes>>
  BY DEF Erase, worker, calls
<1>2. /\ row'[j] = ErasedRow /\ outcome'[j] = "none" /\ evidence'[j] = "erased"
      /\ \A k \in Jobs \ {j} : /\ row'[k] = row[k] /\ outcome'[k] = outcome[k]
                               /\ evidence'[k] = evidence[k]
  BY DEF Erase, TypeInv, TypeOK
<1>3. /\ ErasedRow.state = "absent" /\ ErasedRow.attempts = 0
  BY DEF ErasedRow, NewRow
<1>4. RowsSound'
  <2>1. RowSound(ErasedRow, "erased", "none", writes[j])
    <3>1. writes[j] <= 1
      BY DEF EffectsInv, RowsSound, RowSound
    <3>2. QED
      BY <1>3, <3>1, StatesApart, MaxAttemptsAssumption DEF RowSound
  <2> SUFFICES ASSUME NEW k \in Jobs
               PROVE  RowSound(row'[k], evidence'[k], outcome'[k], writes'[k])
    BY DEF RowsSound
  <2>2. CASE k = j
    BY <1>1, <1>2, <2>1, <2>2
  <2>3. CASE k # j
    <3>1. RowSound(row[k], evidence[k], outcome[k], writes[k])
      BY DEF EffectsInv, RowsSound
    <3>2. /\ row'[k] = row[k] /\ outcome'[k] = outcome[k]
          /\ evidence'[k] = evidence[k] /\ writes'[k] = writes[k]
      BY <1>1, <1>2, <2>3
    <3>3. QED
      BY <3>1, <3>2
  <2>4. QED
    BY <2>2, <2>3
<1>5. \A k \in Jobs : Later(row[k], row'[k])
  <2>1. ASSUME NEW k \in Jobs \ {j} PROVE Later(row[k], row'[k])
    <3>1. row[k] \in Row /\ RowFit(row[k])
      BY RowsFit DEF EffectsInv, RowFit
    <3>2. QED
      BY <1>2, <3>1, QuietSelf, LaterQuiet
  <2>2. Later(row[j], row'[j])
    BY <1>2, <1>3 DEF Later
  <2>3. QED
    BY <2>1, <2>2
<1>6. ThreadsSound'
  <2> SUFFICES ASSUME NEW v \in Workers PROVE Sound(v, thread[v], row'[Job(v)])
    BY <1>1 DEF ThreadsSound, Job
  <2>1. Sound(v, thread[v], row[Job(v)])
    BY DEF EffectsInv, ThreadsSound
  <2>2. CASE thread[v].at \notin HoldsClaim
    BY <2>2 DEF Sound
  <2>3. CASE thread[v].at \in HoldsClaim
    <3>1. Job(v) \in Jobs /\ thread[v] \in Thread /\ row[Job(v)] \in Row /\ row'[Job(v)] \in Row
      BY <2>3, Holding DEF TypeInv, TypeOK
    <3>2. CASE Job(v) = j
      <4>1. ~Holds(v, thread[v], row'[Job(v)])
        BY <1>2, <1>3, <3>2 DEF Holds
      <4>2. QED
        BY <1>5, <2>1, <3>1, <4>1, SoundAside
    <3>3. CASE Job(v) # j
      BY <1>2, <2>1, <3>1, <3>3
    <3>4. QED
      BY <3>2, <3>3
  <2>4. QED
    BY <2>2, <2>3
<1>7. \A k \in Jobs : Senders(k)' \subseteq Senders(k) /\ Rewriters(k)' \subseteq Rewriters(k)
  BY <1>1 DEF Senders, Rewriters
<1>8. Tickets'
  BY <1>1, <1>5, <1>7, TicketsKept DEF EffectsInv
<1>9. QED
  BY <1>4, <1>6, <1>8 DEF EffectsInv

-----------------------------------------------------------------------------
(* The invariant, and the three properties it gives.                       *)
LEMMA EffectsInit == Init => EffectsInv
<1> SUFFICES ASSUME Init PROVE EffectsInv
  OBVIOUS
<1>1. \A j \in Jobs : row[j] = NewRow /\ outcome[j] = "none" /\ evidence[j] = "current"
                      /\ sends[j] = 0 /\ rewrites[j] = 0 /\ writes[j] = 0
  BY DEF Init
<1>2. \A w \in Workers : thread[w].at = "asleep"
  BY DEF Init, Idle
<1>3. RowSound(NewRow, "current", "none", 0)
  BY MaxAttemptsAssumption, StatesApart DEF RowSound, NewRow
<1>4. RowsSound
  BY <1>1, <1>3 DEF RowsSound
<1>5. ThreadsSound
  BY <1>2 DEF ThreadsSound, Sound, HoldsClaim, InProcess
<1>6. \A j \in Jobs : Senders(j) = {} /\ Rewriters(j) = {}
  BY <1>2 DEF Senders, Rewriters, Sends, Rewrites
<1>7. Tickets
  BY <1>1, <1>6 DEF Tickets, Ticket
<1>8. QED
  BY <1>4, <1>5, <1>7 DEF EffectsInv

LEMMA EffectsNext ==
  ASSUME TypeInv, TypeInv', EffectsInv, [Next]_vars PROVE EffectsInv'
<1>1. ASSUME NEW w \in Workers, Drain(w) PROVE EffectsInv'
  <2>1. CASE Top(w) \/ End(w)
    BY <2>1, LifeKeeps
  <2>2. CASE RecoverAtStart(w) \/ ClaimOne(w)
    BY <2>2, RecoveryKeeps, ClaimOneKeeps
  <2>3. CASE Validate(w) \/ Beat(w) \/ Ready(w) \/ Mark(w) \/ Settle(w)
    BY <2>3, ValidateKeeps, BeatKeeps, ReadyKeeps, MarkKeeps, SettleKeeps
  <2>4. CASE Process(w)
    <3>1. CASE Load(w) \/ Dispatch(w) \/ Answer(w) \/ RouteFails(w) \/ Persist(w)
      BY <3>1, LoadKeeps, DispatchKeeps, AnswerKeeps, RaiseKeeps, PersistKeeps
    <3>2. CASE Compile(w) \/ Reserve(w) \/ Rewrite(w) \/ RewriteAnswer(w)
      BY <3>2, CompileKeeps, ReserveKeeps, RewriteKeeps, RewriteAnswerKeeps
    <3>3. CASE RewritePersist(w) \/ Apply(w)
      BY <3>3, RewritePersistKeeps, ApplyKeeps
    <3>4. QED
      BY <2>4, <3>1, <3>2, <3>3 DEF Process
  <2>5. QED
    BY <1>1, <2>1, <2>2, <2>3, <2>4 DEF Drain
<1>2. ASSUME NEW w \in Workers, Faulty(w) PROVE EffectsInv'
  BY <1>2, LifeKeeps, RaiseKeeps DEF Faulty
<1>3. ASSUME NEW w \in Workers, Host(w) PROVE EffectsInv'
  BY <1>3, LifeKeeps, RecoveryKeeps DEF Host
<1>4. ASSUME NEW j \in Jobs, User(j) PROVE EffectsInv'
  BY <1>4, PermitKeeps, EraseKeeps DEF User
<1>5. CASE UNCHANGED vars
  BY <1>5, StoreStays DEF vars, worker
<1>6. QED
  BY <1>1, <1>2, <1>3, <1>4, <1>5, ClockKeeps DEF Next

(* What a thread found under its fence is true as long as the fence holds, *)
(* and a mark or a reservation that a worker left is never taken back.     *)
THEOREM EffectsInvariant == Spec => [](TypeInv /\ EffectsInv)
<1>1. Init => TypeInv /\ EffectsInv
  BY TypeInit, EffectsInit
<1>2. TypeInv /\ EffectsInv /\ [Next]_vars => TypeInv' /\ EffectsInv'
  BY TypeNext, EffectsNext
<1>3. QED
  BY <1>1, <1>2, PTL DEF Spec

(* A job is sent, rewritten and applied at most once, whatever the number  *)
(* of workers, crashes, lapsed leases and stale threads.                   *)
THEOREM EffectsAreOnceHolds == Spec => []EffectsAreOnce
<1>1. TypeInv /\ EffectsInv => EffectsAreOnce
  <2> SUFFICES ASSUME TypeInv, EffectsInv PROVE EffectsAreOnce
    OBVIOUS
  <2>1. OneDispatch
    BY DEF EffectsInv, Tickets, Ticket, OneDispatch, Once
  <2>2. OneRewrite
    BY DEF EffectsInv, Tickets, Ticket, OneRewrite
  <2>3. AppliedOnce
    BY DEF EffectsInv, RowsSound, RowSound, AppliedOnce
  <2>4. QED
    BY <2>1, <2>2, <2>3 DEF EffectsAreOnce
<1>2. QED
  BY <1>1, EffectsInvariant, PTL

(* Settle never meets what it raises for.                                  *)
THEOREM SettlementIsLegalHolds == Spec => []SettlementIsLegal
<1>1. TypeInv /\ EffectsInv => SettlementIsLegal
  <2> SUFFICES ASSUME TypeInv, EffectsInv, NEW w \in Workers, At(w, "settle"), LiveFence(w)
               PROVE  /\ thread[w].verdict # "applied"
                      /\ thread[w].completed => Claim(w).marker
                      /\ Claim(w).attempts \in 1 .. MaxAttempts
    BY DEF SettlementIsLegal
  <2>1. thread[w].at = "settle" /\ thread[w].at \in HoldsClaim
    BY DEF At, HoldsClaim
  <2>2. Holds(w, thread[w], row[Job(w)])
    BY DEF LiveFence, Fence, Claim, Holds
  <2>3. Sound(w, thread[w], row[Job(w)]) /\ RowFit(row[Job(w)])
    BY <2>1, Holding
  <2>4. Held(w, thread[w], row[Job(w)])
    BY <2>1, <2>2, <2>3 DEF Sound
  <2>5. row[Job(w)].attempts \in 1 .. MaxAttempts
    BY <2>2, <2>3, MaxAttemptsAssumption DEF RowFit, Row, Holds
  <2>6. QED
    BY <2>1, <2>4, <2>5 DEF Held, Claim
<1>2. QED
  BY <1>1, EffectsInvariant, PTL

(* Erasure is final: neither row nor outcome comes back.                   *)
THEOREM ErasedLeavesNothingHolds == Spec => []ErasedLeavesNothing
<1>1. EffectsInv => ErasedLeavesNothing
  BY DEF EffectsInv, RowsSound, RowSound, ErasedLeavesNothing
<1>2. QED
  BY <1>1, EffectsInvariant, PTL

-----------------------------------------------------------------------------
(* Withdrawn Evidence.  Every call and every write of the World is behind  *)
(* a test of the Evidence in the same step.                                *)
LEMMA StoppedWithEvidence ==
  ASSUME TypeInv, [Next]_vars, NEW j \in Jobs, evidence[j] # "current"
  PROVE  sends'[j] = sends[j] /\ rewrites'[j] = rewrites[j] /\ writes'[j] = writes[j]
<1> USE DEF TypeInv, TypeOK
<1>1. ASSUME NEW w \in Workers, Process(w)
      PROVE  sends'[j] = sends[j] /\ rewrites'[j] = rewrites[j] /\ writes'[j] = writes[j]
  <2>1. CASE Dispatch(w)
    BY <2>1 DEF Dispatch, Current
  <2>2. CASE Rewrite(w)
    BY <2>2 DEF Rewrite, Current
  <2>3. CASE Apply(w)
    BY <2>3 DEF Apply, Current, calls
  <2>4. CASE \/ Load(w) \/ Answer(w) \/ RouteFails(w) \/ Persist(w) \/ Compile(w)
             \/ Reserve(w) \/ RewriteAnswer(w) \/ RewritePersist(w)
    BY <2>4 DEF Load, Answer, RouteFails, Persist, Compile, Reserve, RewriteAnswer,
                RewritePersist, calls
  <2>5. QED
    BY <1>1, <2>1, <2>2, <2>3, <2>4 DEF Process
<1>2. ASSUME NEW w \in Workers, Drain(w), ~Process(w) PROVE UNCHANGED <<calls, writes>>
  BY <1>2 DEF Drain, Top, RecoverAtStart, ClaimOne, End, Validate, Beat, Ready, Mark, Settle
<1>3. ASSUME NEW w \in Workers, Faulty(w) \/ Host(w) PROVE UNCHANGED <<calls, writes>>
  BY <1>3 DEF Faulty, Abandon, CapabilityRaises, ProcessorRaises, SettleRaises, Host,
              Create, Kick, BeginShutdown, Shutdown, ShutdownBusy, Crash
<1>4. ASSUME NEW k \in Jobs, Clock(k) \/ User(k) PROVE UNCHANGED <<calls, writes>>
  BY <1>4 DEF Clock, Lapse, BecomeDue, User, Permit, Erase
<1>5. CASE UNCHANGED vars
  BY <1>5 DEF vars, calls
<1>6. QED
  BY <1>1, <1>2, <1>3, <1>4, <1>5 DEF Next, calls

(* Revoked or erased Evidence causes no further model call, no rewrite and *)
(* no mutation of the World, however far the job had come.                 *)
THEOREM WithdrawnEvidenceCausesNothing == Spec => NothingFromWithdrawnEvidence
<1>1. TypeInv /\ [Next]_vars =>
        [\A j \in Jobs : evidence[j] # "current" =>
           <<sends[j], rewrites[j], writes[j]>>' = <<sends[j], rewrites[j], writes[j]>>]_vars
  BY StoppedWithEvidence
<1>2. QED
  BY <1>1, EffectsInvariant, PTL DEF Spec, NothingFromWithdrawnEvidence

-----------------------------------------------------------------------------
(* A live claim.                                                           *)
LEMMA LiveRowStays ==
  ASSUME NEW r, r.state = "processing", r.lease = "live" PROVE Swept(r) = r
BY StatesApart DEF Swept, Expired, UnsafeDied, ExhaustedDied

LEMMA TakenByItsOwn ==
  ASSUME TypeInv, [Next]_vars, NEW j \in Jobs,
         row[j].state = "processing", row[j].lease = "live",
         lifetime[row[j].owner] = "held", ~Stopped(row[j].owner),
         row'[j].token # row[j].token
  PROVE  thread'[row[j].owner] # thread[row[j].owner] \/ evidence'[j] = "erased"
<1> DEFINE Goal == thread'[row[j].owner] # thread[row[j].owner] \/ evidence'[j] = "erased"
<1>1. row[j] \in Row
  BY DEF TypeInv, TypeOK
<1>2. row'[j] # row[j]
  OBVIOUS
<1>3. ASSUME NEW w \in Workers, RecoverAtStart(w) PROVE FALSE
  BY <1>2, <1>3 DEF RecoverAtStart, Write
<1>4. ASSUME NEW w \in Workers, Shutdown(w) PROVE FALSE
  BY <1>2, <1>4 DEF Shutdown, Write, Stopped
<1>5. ASSUME NEW w \in Workers, ClaimOne(w) PROVE FALSE
  <2>1. Swept(row[j]) = row[j] /\ ~Claimable(row[j])
    BY LiveRowStays, StatesApart DEF Claimable
  <2>2. \/ row' = [k \in Jobs |-> Swept(row[k])]
        \/ \E k \in Jobs : /\ Claimable(Swept(row[k]))
                           /\ row' = [[i \in Jobs |-> Swept(row[i])] EXCEPT
                                        ![k] = Claimed(@, w)]
    BY <1>5 DEF ClaimOne, Write
  <2>3. QED
    BY <1>2, <2>1, <2>2
<1>6. ASSUME NEW w \in Workers,
             \/ Persist(w) \/ Reserve(w) \/ RewritePersist(w) \/ Mark(w)
      PROVE  FALSE
  <2>1. PICK r : row' = [row EXCEPT ![Job(w)] = r] /\ (Job(w) \in Jobs => r.token = row[Job(w)].token)
    <3>1. ASSUME NEW s \in Row, NEW v
          PROVE  [s EXCEPT !.result = v].token = s.token /\ [s EXCEPT !.marker = v].token = s.token
      BY DEF Row
    <3>2. \A k \in Jobs : row[k] \in Row
      BY DEF TypeInv, TypeOK
    <3>3. \/ \E v : row' = [row EXCEPT ![Job(w)] = [row[Job(w)] EXCEPT !.result = v]]
          \/ row' = [row EXCEPT ![Job(w)] = [row[Job(w)] EXCEPT !.marker = TRUE]]
          \/ UNCHANGED row
      BY <1>6 DEF Persist, Reserve, RewritePersist, Mark, Checkpoint
    <3>4. CASE UNCHANGED row
      BY <1>2, <3>4
    <3>5. ASSUME NEW v, row' = [row EXCEPT ![Job(w)] = [row[Job(w)] EXCEPT !.result = v]]
          PROVE  Job(w) \in Jobs => [row[Job(w)] EXCEPT !.result = v].token = row[Job(w)].token
      BY <3>1, <3>2
    <3>6. Job(w) \in Jobs => [row[Job(w)] EXCEPT !.marker = TRUE].token = row[Job(w)].token
      BY <3>1, <3>2
    <3>7. QED
      BY <3>3, <3>4, <3>5, <3>6
  <2>2. QED
    BY <1>1, <2>1 DEF TypeInv, TypeOK
<1>7. ASSUME NEW w \in Workers, Apply(w) \/ Settle(w) PROVE Goal
  <2>1. LiveFence(w) /\ j = Job(w) /\ thread'[w] # thread[w]
    <3>1. CASE Apply(w)
      <4>1. LiveFence(w) /\ \E s : row' = [row EXCEPT ![Job(w)] = s]
        BY <1>2, <3>1 DEF Apply, Update, Write
      <4>2. j = Job(w)
        BY <1>2, <4>1 DEF TypeInv, TypeOK
      <4>3. thread[w] \in Thread /\ thread[w].at = "apply"
        BY <3>1 DEF Apply, At, TypeInv, TypeOK
      <4>4. thread'[w].at = "settle"
        BY <3>1, <4>3 DEF Apply, Return, Finish, Thread, TypeInv, TypeOK
      <4>5. QED
        BY <4>1, <4>2, <4>3, <4>4
    <3>2. CASE Settle(w)
      <4>1. LiveFence(w) /\ Drop(w, "top") /\ \E s : row' = [row EXCEPT ![Job(w)] = s]
        BY <1>2, <3>2 DEF Settle, Update, Write, Job
      <4>2. j = Job(w)
        BY <1>2, <4>1 DEF TypeInv, TypeOK
      <4>3. thread[w].at = "settle" /\ thread'[w].at = "top"
        BY <3>2, <4>1 DEF Settle, At, Drop, Idle, TypeInv, TypeOK
      <4>4. QED
        BY <4>1, <4>2, <4>3
    <3>3. QED
      BY <1>7, <3>1, <3>2
  <2>2. row[j].owner = w
    BY <2>1 DEF LiveFence, Fence, Claim
  <2>3. QED
    BY <2>1, <2>2
<1>8. ASSUME NEW k \in Jobs, User(k) PROVE Goal
  BY <1>2, <1>8 DEF User, Permit, Erase, TypeInv, TypeOK
<1>9. ASSUME NEW k \in Jobs, Clock(k) PROVE FALSE
  <2>1. ASSUME NEW s \in Row
        PROVE  [s EXCEPT !.lease = "expired"].token = s.token /\ [s EXCEPT !.due = TRUE].token = s.token
    BY DEF Row
  <2>2. CASE row' = [row EXCEPT ![k].lease = "expired"]
    BY <1>1, <1>2, <2>1, <2>2 DEF TypeInv, TypeOK
  <2>3. CASE row' = [row EXCEPT ![k].due = TRUE]
    BY <1>1, <1>2, <2>1, <2>3 DEF TypeInv, TypeOK
  <2>4. QED
    BY <1>9, <2>2, <2>3 DEF Clock, Lapse, BecomeDue
<1>10. ASSUME NEW w \in Workers, Next, \/ Faulty(w) \/ Create(w) \/ Kick(w) \/ BeginShutdown(w)
                \/ ShutdownBusy(w) \/ Crash(w) \/ Top(w) \/ End(w) \/ Validate(w) \/ Beat(w)
                \/ Ready(w) \/ Load(w) \/ Dispatch(w) \/ Answer(w) \/ RouteFails(w)
                \/ Compile(w) \/ Rewrite(w) \/ RewriteAnswer(w)
      PROVE  FALSE
  <2>1. UNCHANGED row
    BY <1>10 DEF Faulty, Abandon, CapabilityRaises, ProcessorRaises, SettleRaises, Create,
                 Kick, BeginShutdown, ShutdownBusy, Crash, Top, End, Validate, Beat, Ready,
                 Load, Dispatch, Answer, RouteFails, Compile, Rewrite, RewriteAnswer, store
  <2>2. QED
    BY <1>2, <2>1
<1>11. CASE UNCHANGED vars
  BY <1>2, <1>11 DEF vars, store
<1>12. CASE Next
  <2>1. ASSUME NEW w \in Workers, Drain(w) PROVE Goal
    BY <1>3, <1>5, <1>6, <1>7, <1>10, <1>12, <2>1 DEF Drain, Process
  <2>2. ASSUME NEW w \in Workers, Host(w) \/ Faulty(w) PROVE Goal
    BY <1>4, <1>10, <1>12, <2>2 DEF Host
  <2>3. QED
    BY <1>8, <1>9, <1>12, <2>1, <2>2 DEF Next
<1>13. QED
  BY <1>11, <1>12

(* Nobody takes a claim from a worker that lives and keeps its lease.      *)
THEOREM LiveHolderKeepsItsClaim == Spec => LiveHolderKeepsClaim
<1>1. TypeInv /\ [Next]_vars =>
        [\A j \in Jobs :
           /\ row[j].state = "processing" /\ row[j].lease = "live"
           /\ lifetime[row[j].owner] = "held" /\ ~Stopped(row[j].owner)
           /\ row'[j].token # row[j].token
           => thread'[row[j].owner] # thread[row[j].owner] \/ evidence'[j] = "erased"]_vars
  BY TakenByItsOwn
<1>2. QED
  BY <1>1, EffectsInvariant, PTL DEF Spec, LiveHolderKeepsClaim

-----------------------------------------------------------------------------
(* Who waits for an answer has asked.                                      *)
AskedInv ==
  \A w \in Workers : thread[w].at \in {"await", "persist"} => sends[Job(w)] > 0

LEMMA Waiting ==
  ASSUME TypeInv, AskedInv, NEW w \in Workers, NEW t, thread' = [thread EXCEPT ![w] = t],
         t.at \in {"await", "persist"} => t.job \in Jobs /\ sends'[t.job] > 0,
         \A j \in Jobs : sends'[j] = sends[j] \/ sends'[j] > 0
  PROVE  AskedInv'
<1> SUFFICES ASSUME NEW v \in Workers, thread'[v].at \in {"await", "persist"}
             PROVE  sends'[thread'[v].job] > 0
  BY DEF AskedInv, Job
<1>1. CASE v = w
  BY <1>1 DEF TypeInv, TypeOK
<1>2. CASE v # w
  <2>1. thread'[v] = thread[v] /\ thread[v].job \in Jobs
    BY <1>2 DEF TypeInv, TypeOK, ThreadsOK, ThreadOK, HoldsClaim, InProcess
  <2>2. sends[thread[v].job] > 0 /\ sends[thread[v].job] \in Nat
    BY <2>1 DEF AskedInv, Job, TypeInv, TypeOK
  <2>3. sends'[thread[v].job] = sends[thread[v].job] \/ sends'[thread[v].job] > 0
    BY <2>1
  <2>4. QED
    BY <2>1, <2>2, <2>3
<1>3. QED
  BY <1>1, <1>2

LEMMA WaitingStays ==
  ASSUME AskedInv, UNCHANGED <<thread, calls>> PROVE AskedInv'
BY DEF AskedInv, Job, calls

LEMMA WaitingElsewhere ==
  ASSUME TypeInv, AskedInv, NEW w \in Workers, NEW t, thread' = [thread EXCEPT ![w] = t],
         t.at \notin {"await", "persist"}, UNCHANGED calls
  PROVE  AskedInv'
<1>1. \A j \in Jobs : sends'[j] = sends[j]
  BY DEF calls
<1>2. QED
  BY <1>1, Waiting

(* Steps of a thread that end neither in await nor in persist.             *)
Elsewhere(w) ==
  \/ \E place \in Places \ {"await", "persist"} : Goto(w, place) \/ Drop(w, place)
  \/ \E v, c, a, g : Finish(w, v, c, a, g)
  \/ \E p, c : Rewritten(w, p, c)
  \/ \E place \in Places \ {"await", "persist"} : \E p :
       thread' = [thread EXCEPT ![w].at = place, ![w].payload = p]
  \/ thread' = [thread EXCEPT ![w].at = "load", ![w].replay = TRUE]
  \/ \E j, n : thread' = [thread EXCEPT ![w] =
                            [Idle("validate") EXCEPT !.job = j, !.token = n]]

LEMMA ElsewhereAsks ==
  ASSUME TypeInv, AskedInv, NEW w \in Workers, Elsewhere(w), UNCHANGED calls
  PROVE  AskedInv'
<1> DEFINE Apart(t) == thread' = [thread EXCEPT ![w] = t] /\ t.at \notin {"await", "persist"}
<1>1. thread[w] \in Thread
  BY DEF TypeInv, TypeOK
<1>2. ASSUME NEW place \in Places \ {"await", "persist"}, Goto(w, place) PROVE \E t : Apart(t)
  <2>1. Apart([thread[w] EXCEPT !.at = place])
    BY <1>1, <1>2 DEF Goto, Thread
  <2>2. QED
    BY <2>1
<1>3. ASSUME NEW place \in Places \ {"await", "persist"}, Drop(w, place) PROVE \E t : Apart(t)
  <2>1. Apart(Idle(place))
    BY <1>3 DEF Drop, Idle
  <2>2. QED
    BY <2>1
<1>4. ASSUME NEW v, NEW c, NEW a, NEW g, Finish(w, v, c, a, g) PROVE \E t : Apart(t)
  <2>1. Apart([thread[w] EXCEPT !.at = "settle", !.verdict = v, !.completed = c,
                                !.attached = a, !.guarded = g])
    BY <1>1, <1>4 DEF Finish, Thread
  <2>2. QED
    BY <2>1
<1>5. ASSUME NEW p, NEW c, Rewritten(w, p, c) PROVE \E t : Apart(t)
  <2>1. Apart([thread[w] EXCEPT !.at = "rewrite_persist", !.payload = p, !.verdict = c])
    BY <1>1, <1>5 DEF Rewritten, Thread
  <2>2. QED
    BY <2>1
<1>6. ASSUME NEW place \in Places \ {"await", "persist"}, NEW p,
             thread' = [thread EXCEPT ![w].at = place, ![w].payload = p]
      PROVE  \E t : Apart(t)
  <2>1. Apart([thread[w] EXCEPT !.at = place, !.payload = p])
    BY <1>1, <1>6 DEF Thread
  <2>2. QED
    BY <2>1
<1>7. ASSUME thread' = [thread EXCEPT ![w].at = "load", ![w].replay = TRUE]
      PROVE  \E t : Apart(t)
  <2>1. Apart([thread[w] EXCEPT !.at = "load", !.replay = TRUE])
    BY <1>1, <1>7 DEF Thread
  <2>2. QED
    BY <2>1
<1>8. ASSUME NEW j, NEW n,
             thread' = [thread EXCEPT ![w] = [Idle("validate") EXCEPT !.job = j, !.token = n]]
      PROVE  \E t : Apart(t)
  <2>1. Apart([Idle("validate") EXCEPT !.job = j, !.token = n])
    BY <1>8 DEF Idle
  <2>2. QED
    BY <2>1
<1>9. PICK t : Apart(t)
  BY <1>2, <1>3, <1>4, <1>5, <1>6, <1>7, <1>8 DEF Elsewhere
<1>10. QED
  BY <1>9, WaitingElsewhere

LEMMA AskedNext ==
  ASSUME TypeInv, AskedInv, [Next]_vars PROVE AskedInv'
<1> USE DEF Places, HoldsClaim, InProcess
<1>1. ASSUME NEW w \in Workers, Process(w) PROVE AskedInv'
  <2>1. CASE /\ Dispatch(w) /\ Goto(w, "await")
             /\ sends' = [sends EXCEPT ![Job(w)] = @ + 1]
    <3> DEFINE t == [thread[w] EXCEPT !.at = "await"]
    <3>1. thread[w] \in Thread /\ thread[w].at = "dispatch" /\ Job(w) \in Jobs
      BY <2>1 DEF Dispatch, At, Job, TypeInv, TypeOK, ThreadsOK, ThreadOK
    <3>2. t.job = Job(w) /\ thread' = [thread EXCEPT ![w] = t]
      BY <2>1, <3>1 DEF Goto, Thread, Job
    <3>3. sends'[t.job] > 0 /\ \A j \in Jobs : sends'[j] = sends[j] \/ sends'[j] > 0
      BY <2>1, <3>1, <3>2 DEF TypeInv, TypeOK
    <3> HIDE DEF t
    <3>4. QED
      BY <3>1, <3>2, <3>3, Waiting
  <2>2. CASE Dispatch(w) /\ RaisePermanent(w) /\ UNCHANGED sends
    BY <2>2, ElsewhereAsks DEF Dispatch, Elsewhere, RaisePermanent, calls
  <2>3. CASE Answer(w)
    <3> DEFINE t == [thread[w] EXCEPT !.at = "persist", !.payload = "first"]
    <3>1. thread[w] \in Thread /\ thread[w].at = "await" /\ Job(w) \in Jobs
      BY <2>3 DEF Answer, At, Job, TypeInv, TypeOK, ThreadsOK, ThreadOK
    <3>2. t.job = Job(w) /\ thread' = [thread EXCEPT ![w] = t]
      BY <2>3, <3>1 DEF Answer, Thread, Job
    <3>3. sends'[t.job] > 0 /\ \A j \in Jobs : sends'[j] = sends[j] \/ sends'[j] > 0
      BY <2>3, <3>1, <3>2 DEF Answer, AskedInv, calls, TypeInv, TypeOK
    <3> HIDE DEF t
    <3>4. QED
      BY <3>1, <3>2, <3>3, Waiting
  <2>4. CASE Load(w) \/ RouteFails(w) \/ Compile(w)
    BY <2>4, ElsewhereAsks DEF Load, RouteFails, Compile, Elsewhere, RaisePermanent,
                               RaiseRetryable, Return
  <2>5. CASE Persist(w) \/ Reserve(w) \/ RewritePersist(w)
    BY <2>5, ElsewhereAsks DEF Persist, Reserve, RewritePersist, Checkpoint, Elsewhere,
                               RaisePermanent, Return
  <2>6. CASE Rewrite(w) /\ Goto(w, "rewrite_await")
    <3> DEFINE t == [thread[w] EXCEPT !.at = "rewrite_await"]
    <3>1. t.at = "rewrite_await" /\ thread' = [thread EXCEPT ![w] = t]
      BY <2>6 DEF Goto, Thread, TypeInv, TypeOK
    <3>2. \A j \in Jobs : sends'[j] = sends[j] \/ sends'[j] > 0
      BY <2>6 DEF Rewrite, TypeInv, TypeOK
    <3> HIDE DEF t
    <3>3. QED
      BY <3>1, <3>2, Waiting
  <2>7. CASE Rewrite(w) /\ Rewritten(w, "rewrite_failed", "no_change") /\ UNCHANGED rewrites
    BY <2>7, ElsewhereAsks DEF Rewrite, Elsewhere, calls
  <2>8. CASE RewriteAnswer(w) \/ Apply(w)
    BY <2>8, ElsewhereAsks DEF RewriteAnswer, Apply, Elsewhere, Return
  <2>9. QED
    BY <1>1, <2>1, <2>2, <2>3, <2>4, <2>5, <2>6, <2>7, <2>8 DEF Process, Dispatch, Rewrite
<1>2. ASSUME NEW w \in Workers, Drain(w), ~Process(w) PROVE AskedInv'
  <2>1. CASE RecoverAtStart(w)
    BY <2>1, WaitingStays DEF RecoverAtStart
  <2>2. CASE ClaimOne(w)
    <3>1. \/ Goto(w, "ending")
          \/ \E j \in Jobs : thread' = [thread EXCEPT ![w] =
               [Idle("validate") EXCEPT !.job = j, !.token = Swept(row[j]).gen + 1]]
      BY <2>2 DEF ClaimOne
    <3>2. Elsewhere(w)
      BY <3>1 DEF Elsewhere
    <3>3. QED
      BY <2>2, <3>2, ElsewhereAsks DEF ClaimOne
  <2>3. CASE Top(w) \/ End(w) \/ Validate(w) \/ Beat(w) \/ Ready(w)
    BY <2>3, ElsewhereAsks DEF Top, End, Validate, Beat, Ready, Elsewhere, Refuse
  <2>4. CASE Mark(w) \/ Settle(w)
    BY <2>4, ElsewhereAsks DEF Mark, Settle, Elsewhere, Refuse, RaisePermanent
  <2>5. QED
    BY <1>2, <2>1, <2>2, <2>3, <2>4 DEF Drain
<1>3. ASSUME NEW w \in Workers, Faulty(w) PROVE AskedInv'
  BY <1>3, ElsewhereAsks DEF Faulty, Abandon, CapabilityRaises, ProcessorRaises,
                             SettleRaises, Elsewhere, Refuse, RaiseRetryable
<1>4. ASSUME NEW w \in Workers, Kick(w) \/ Crash(w) PROVE AskedInv'
  BY <1>4, ElsewhereAsks DEF Kick, Crash, Elsewhere
<1>5. ASSUME NEW w \in Workers, Create(w) \/ BeginShutdown(w) \/ Shutdown(w) \/ ShutdownBusy(w)
      PROVE  AskedInv'
  BY <1>5, WaitingStays DEF Create, BeginShutdown, Shutdown, ShutdownBusy
<1>6. ASSUME NEW j \in Jobs, Clock(j) \/ User(j) PROVE AskedInv'
  BY <1>6, WaitingStays DEF Clock, Lapse, BecomeDue, User, Permit, Erase, worker
<1>7. CASE UNCHANGED vars
  BY <1>7, WaitingStays DEF vars, worker
<1>8. QED
  BY <1>1, <1>2, <1>3, <1>4, <1>5, <1>6, <1>7 DEF Next, Host

-----------------------------------------------------------------------------
(* The step of one job: a step of Formation, or a stutter, and it does not *)
(* take a checkpoint back.                                                 *)
Live(r) == r.state \in Open \cup {"processing"}
Status(r) == IF Live(r) THEN "open" ELSE r.state
Saved(r) == Live(r) /\ r.result # "none"

Advances(r, s) ==
  r.state \notin Settled /\ Live(s) => s.result = r.result \/ Stage(s.result) > Stage(r.result)

Faithful(j) == (F!Step(j) \/ F!Same(j)) /\ Advances(row[j], row'[j])

LEMMA StatusOfLive ==
  ASSUME NEW r, Live(r) PROVE r.state \notin Settled \cup {"absent"}
BY DEF Live, Open, Settled

LEMMA StuttersFaithfully ==
  ASSUME NEW j \in Jobs, Status(row'[j]) = Status(row[j]), Saved(row'[j]) = Saved(row[j]),
         sends'[j] = sends[j], writes'[j] = writes[j]
  PROVE  F!Same(j)
BY DEF F!Same, Status, Saved, Live

LEMMA RowStays ==
  ASSUME NEW j \in Jobs, row'[j] = row[j], sends'[j] = sends[j], writes'[j] = writes[j]
  PROVE  Faithful(j)
<1>1. F!Same(j)
  BY StuttersFaithfully
<1>2. QED
  BY <1>1 DEF Faithful, Advances

LEMMA AsksFaithfully ==
  ASSUME NEW j \in Jobs, row'[j] = row[j], sends'[j] = sends[j] + 1, writes'[j] = writes[j],
         sends[j] = 0 \/ RetryInference \/ Local # {}
  PROVE  Faithful(j)
<1>1. F!Ask(j)
  BY DEF F!Ask
<1>2. QED
  BY <1>1 DEF Faithful, Advances, F!Step

LEMMA SavesFaithfully ==
  ASSUME NEW j \in Jobs, Live(row[j]), row[j].result = "none", sends[j] > 0,
         Live(row'[j]), row'[j].result = "first",
         sends'[j] = sends[j], writes'[j] = writes[j]
  PROVE  Faithful(j)
<1>1. F!Save(j)
  BY DEF F!Save, Live
<1>2. Advances(row[j], row'[j])
  BY DEF Advances, Stage
<1>3. QED
  BY <1>1, <1>2 DEF Faithful, F!Step

LEMMA ClosesFaithfully ==
  ASSUME NEW j \in Jobs, Live(row[j]), row'[j].state \in {"no_change", "dead"},
         sends'[j] = sends[j], writes'[j] = writes[j]
  PROVE  Faithful(j)
<1>1. ~Live(row'[j])
  BY DEF Live, Open
<1>2. F!Close(j)
  BY <1>1 DEF F!Close, Live
<1>3. QED
  BY <1>1, <1>2 DEF Faithful, Advances, F!Step

LEMMA RemembersFaithfully ==
  ASSUME NEW j \in Jobs, Live(row[j]), row[j].result # "none", row'[j].state = "applied",
         sends'[j] = sends[j], writes'[j] = writes[j] + 1
  PROVE  Faithful(j)
<1>1. ~Live(row'[j])
  BY DEF Live, Open
<1>2. F!Remember(j)
  BY <1>1 DEF F!Remember, Live
<1>3. QED
  BY <1>1, <1>2 DEF Faithful, Advances, F!Step

LEMMA ForgetsFaithfully ==
  ASSUME NEW j \in Jobs, row[j].state # "absent", row'[j].state = "absent",
         sends'[j] = sends[j], writes'[j] = writes[j]
  PROVE  Faithful(j)
<1>1. ~Live(row'[j])
  BY DEF Live, Open
<1>2. F!Forget(j)
  BY <1>1 DEF F!Forget, Live
<1>3. QED
  BY <1>1, <1>2 DEF Faithful, Advances, F!Step

(* The two ways a row moves on without any of these.                       *)
LEMMA AdvancesFaithfully ==
  ASSUME NEW j \in Jobs, Live(row[j]), Live(row'[j]), row[j].result # "none",
         row'[j].result # "none",
         row'[j].result = row[j].result \/ Stage(row'[j].result) > Stage(row[j].result),
         sends'[j] = sends[j], writes'[j] = writes[j]
  PROVE  Faithful(j)
<1>1. F!Same(j)
  BY StuttersFaithfully DEF Status, Saved
<1>2. QED
  BY <1>1 DEF Faithful, Advances

LEMMA KeepsFaithfully ==
  ASSUME NEW j \in Jobs, Live(row[j]), Live(row'[j]), row'[j].result = row[j].result,
         sends'[j] = sends[j], writes'[j] = writes[j]
  PROVE  Faithful(j)
<1>1. F!Same(j)
  BY StuttersFaithfully DEF Status, Saved
<1>2. QED
  BY <1>1 DEF Faithful, Advances

LEMMA QuietFaithfully ==
  ASSUME NEW j \in Jobs, row[j] \in Row, row'[j] \in Row, Quiet(row[j], row'[j]),
         sends'[j] = sends[j], writes'[j] = writes[j]
  PROVE  Faithful(j)
<1>1. CASE row[j].state \in Settled \cup {"absent"}
  <2>1. row'[j].state = row[j].state /\ ~Live(row[j])
    BY <1>1, StatusOfLive DEF Quiet
  <2>2. ~Live(row'[j])
    BY <2>1 DEF Live
  <2>3. F!Same(j)
    BY <2>1, <2>2, StuttersFaithfully DEF Status, Saved
  <2>4. QED
    BY <2>2, <2>3 DEF Faithful, Advances
<1>2. CASE Live(row[j]) /\ Live(row'[j])
  BY <1>2, KeepsFaithfully DEF Quiet
<1>3. CASE Live(row[j]) /\ ~Live(row'[j])
  <2>1. row'[j].state \in {"no_change", "dead"}
    <3>1. row'[j].state \in Settled \cup {"absent"}
      BY <1>3 DEF Live, Row, States
    <3>2. row'[j].state \notin {"applied", "absent"}
      BY <1>3, StatusOfLive DEF Quiet, Settled
    <3>3. QED
      BY <3>1, <3>2 DEF Settled
  <2>2. QED
    BY <1>3, <2>1, ClosesFaithfully
<1>4. QED
  BY <1>1, <1>2, <1>3 DEF Live, Row, States

-----------------------------------------------------------------------------
(* Every step is faithful for every job.                                   *)
AllFaithful == \A j \in Jobs : Faithful(j)

LEMMA QuietSteps ==
  ASSUME TypeInv, TypeInv', \A j \in Jobs : Quiet(row[j], row'[j]), UNCHANGED <<sends, writes>>
  PROVE  AllFaithful
BY QuietFaithfully DEF AllFaithful, TypeInv, TypeOK

LEMMA RowsStay ==
  ASSUME UNCHANGED <<row, sends, writes>> PROVE AllFaithful
BY RowStays DEF AllFaithful

(* A step that writes one row. *)
LEMMA OneRow ==
  ASSUME TypeInv, NEW j \in Jobs, NEW s, row' = [row EXCEPT ![j] = s],
         \A k \in Jobs \ {j} : sends'[k] = sends[k] /\ writes'[k] = writes[k],
         row'[j] = s => Faithful(j)
  PROVE  AllFaithful
<1>1. row'[j] = s /\ \A k \in Jobs \ {j} : row'[k] = row[k]
  BY DEF TypeInv, TypeOK
<1>2. \A k \in Jobs \ {j} : Faithful(k)
  BY <1>1, RowStays
<1>3. QED
  BY <1>1, <1>2 DEF AllFaithful

LEMMA MarkFaithful ==
  ASSUME TypeInv, TypeInv', EffectsInv, NEW w \in Workers, Mark(w) PROVE AllFaithful
<1>1. UNCHANGED <<sends, writes>>
  BY DEF Mark, calls
<1>2. CASE UNCHANGED row
  BY <1>1, <1>2, RowsStay
<1>3. CASE LiveFence(w) /\ row' = [row EXCEPT ![Job(w)].marker = TRUE]
  <2>1. PICK j \in Jobs : j = Job(w) /\ row[j] \in Row
    BY Holding DEF Mark, At, HoldsClaim
  <2> DEFINE s == [row[j] EXCEPT !.marker = TRUE]
  <2>2. s.state = row[j].state /\ s.result = row[j].result /\ Live(row[j])
    BY <1>3, <2>1 DEF Row, LiveFence, Fence, Claim, Live
  <2>3. row' = [row EXCEPT ![j] = s]
    BY <1>3, <2>1
  <2> HIDE DEF s
  <2>4. row'[j] = s => Faithful(j)
    BY <1>1, <2>2, KeepsFaithfully DEF Live
  <2>5. QED
    BY <1>1, <2>3, <2>4, OneRow
<1>4. QED
  BY <1>2, <1>3 DEF Mark

LEMMA DispatchFaithful ==
  ASSUME TypeInv, EffectsInv, NEW w \in Workers, Dispatch(w) PROVE AllFaithful
<1>1. UNCHANGED <<row, writes>>
  BY DEF Dispatch, store
<1>2. CASE UNCHANGED sends
  BY <1>1, <1>2, RowsStay
<1>3. CASE sends' = [sends EXCEPT ![Job(w)] = @ + 1]
  <2>1. PICK j \in Jobs : /\ j = Job(w) /\ thread[w].at = "dispatch"
                          /\ Sound(w, thread[w], row[j])
    BY Holding DEF Dispatch, At, HoldsClaim, InProcess
  <2>2. sends'[j] = sends[j] + 1 /\ \A k \in Jobs \ {j} : sends'[k] = sends[k]
    BY <1>3, <2>1 DEF TypeInv, TypeOK
  <2>3. sends[j] = 0 \/ RetryInference \/ Local # {}
    <3> SUFFICES ASSUME Once PROVE sends[j] = 0
      BY DEF Once
    <3>1. w \in Senders(j)
      BY <2>1 DEF Senders, Sends, Sound, HoldsClaim, InProcess, Job
    <3>2. QED
      BY <3>1 DEF EffectsInv, Tickets, Ticket
  <2>4. Faithful(j)
    BY <1>1, <2>2, <2>3, AsksFaithfully
  <2>5. \A k \in Jobs \ {j} : Faithful(k)
    BY <1>1, <2>2, RowStays
  <2>6. QED
    BY <2>4, <2>5 DEF AllFaithful
<1>4. QED
  BY <1>2, <1>3 DEF Dispatch

(* The three checkpoints, each over the one before it.                     *)
LEMMA PersistFaithful ==
  ASSUME TypeInv, EffectsInv, AskedInv, NEW w \in Workers, Persist(w) PROVE AllFaithful
<1>1. UNCHANGED <<sends, writes>>
  BY DEF Persist, calls
<1>2. CASE UNCHANGED row
  BY <1>1, <1>2, RowsStay
<1>3. CASE Fence(w) /\ row' = [row EXCEPT ![Job(w)].result = "first"]
  <2>1. PICK j \in Jobs : /\ j = Job(w) /\ thread[w].at = "persist" /\ row[j] \in Row
                          /\ Sound(w, thread[w], row[j]) /\ sends[j] > 0
    BY Holding DEF Persist, At, HoldsClaim, InProcess, AskedInv
  <2>2. Holds(w, thread[w], row[j])
    BY <1>3, <2>1 DEF Fence, Claim, Holds
  <2>3. row[j].result = "none" /\ Live(row[j])
    BY <2>1, <2>2 DEF Sound, Held, Holds, HoldsClaim, InProcess, Live
  <2> DEFINE s == [row[j] EXCEPT !.result = "first"]
  <2>4. s.state = row[j].state /\ s.result = "first"
    BY <2>1 DEF Row
  <2>5. row' = [row EXCEPT ![j] = s]
    BY <1>3, <2>1
  <2> HIDE DEF s
  <2>6. row'[j] = s => Faithful(j)
    BY <1>1, <2>1, <2>3, <2>4, SavesFaithfully DEF Live
  <2>7. QED
    BY <1>1, <2>5, <2>6, OneRow
<1>4. QED
  BY <1>2, <1>3 DEF Persist, Checkpoint

LEMMA ReserveFaithful ==
  ASSUME TypeInv, EffectsInv, NEW w \in Workers, Reserve(w) PROVE AllFaithful
<1>1. UNCHANGED <<sends, writes>>
  BY DEF Reserve, calls
<1>2. CASE UNCHANGED row
  BY <1>1, <1>2, RowsStay
<1>3. CASE Fence(w) /\ row' = [row EXCEPT ![Job(w)].result = "reserved"]
  <2>1. PICK j \in Jobs : /\ j = Job(w) /\ thread[w].at = "reserve" /\ row[j] \in Row
                          /\ Sound(w, thread[w], row[j])
                          /\ RowSound(row[j], evidence[j], outcome[j], writes[j])
    BY Holding DEF Reserve, At, HoldsClaim, InProcess
  <2>2. Holds(w, thread[w], row[j])
    BY <1>3, <2>1 DEF Fence, Claim, Holds
  <2>3. row[j].result = "first" /\ Live(row[j])
    BY <2>1, <2>2 DEF Sound, Held, Holds, HoldsClaim, InProcess, Live, RowSound
  <2> DEFINE s == [row[j] EXCEPT !.result = "reserved"]
  <2>4. s.state = row[j].state /\ s.result = "reserved"
    BY <2>1 DEF Row
  <2>5. row' = [row EXCEPT ![j] = s]
    BY <1>3, <2>1
  <2> HIDE DEF s
  <2>6. row'[j] = s => Faithful(j)
    BY <1>1, <2>3, <2>4, AdvancesFaithfully DEF Live, Stage
  <2>7. QED
    BY <1>1, <2>5, <2>6, OneRow
<1>4. QED
  BY <1>2, <1>3 DEF Reserve, Checkpoint

LEMMA RewritePersistFaithful ==
  ASSUME TypeInv, EffectsInv, NEW w \in Workers, RewritePersist(w) PROVE AllFaithful
<1>1. UNCHANGED <<sends, writes>>
  BY DEF RewritePersist, calls
<1>2. CASE UNCHANGED row
  BY <1>1, <1>2, RowsStay
<1>3. CASE Fence(w) /\ row' = [row EXCEPT ![Job(w)].result = thread[w].payload]
  <2>1. PICK j \in Jobs : /\ j = Job(w) /\ thread[w].at = "rewrite_persist" /\ row[j] \in Row
                          /\ Sound(w, thread[w], row[j])
                          /\ thread[w].payload \in {"rewritten", "rewrite_failed"}
    BY Holding DEF RewritePersist, At, HoldsClaim, InProcess, TypeInv, ThreadsOK, ThreadOK
  <2>2. Holds(w, thread[w], row[j])
    BY <1>3, <2>1 DEF Fence, Claim, Holds
  <2>3. row[j].result = "reserved" /\ Live(row[j])
    BY <2>1, <2>2 DEF Sound, Held, Holds, HoldsClaim, InProcess, Live
  <2> DEFINE s == [row[j] EXCEPT !.result = thread[w].payload]
  <2>4. s.state = row[j].state /\ s.result = thread[w].payload
    BY <2>1 DEF Row
  <2>5. row' = [row EXCEPT ![j] = s]
    BY <1>3, <2>1
  <2> HIDE DEF s
  <2>6. s.result # "none" /\ Stage(s.result) > Stage(row[j].result)
    BY <2>1, <2>3, <2>4 DEF Stage
  <2>7. row'[j] = s => Faithful(j)
    BY <1>1, <2>3, <2>4, <2>6, AdvancesFaithfully DEF Live
  <2>8. QED
    BY <1>1, <2>5, <2>7, OneRow
<1>4. QED
  BY <1>2, <1>3 DEF RewritePersist

(* The World is written from a response on disk, and the job ends with it. *)
LEMMA ApplyFaithful ==
  ASSUME TypeInv, EffectsInv, NEW w \in Workers, Apply(w) PROVE AllFaithful
<1>1. UNCHANGED sends
  BY DEF Apply, calls
<1>2. CASE UNCHANGED <<row, writes>>
  BY <1>1, <1>2, RowsStay
<1>3. ASSUME NEW v \in {"applied", "no_change"}, LiveFence(w),
             Update(Job(w), AppliedRow(Claim(w), v)),
             writes' = [writes EXCEPT ![Job(w)] = IF v = "applied" THEN @ + 1 ELSE @]
      PROVE  AllFaithful
  <2>1. PICK j \in Jobs : /\ j = Job(w) /\ thread[w].at = "apply" /\ row[j] \in Row
                          /\ Sound(w, thread[w], row[j])
    BY Holding DEF Apply, At, HoldsClaim, InProcess
  <2>2. Holds(w, thread[w], row[j])
    BY <1>3, <2>1 DEF LiveFence, Fence, Claim, Holds
  <2>3. row[j].result # "none" /\ Live(row[j])
    BY <2>1, <2>2 DEF Sound, Held, Holds, HoldsClaim, InProcess, Live, Checkpoints
  <2> DEFINE s == AppliedRow(row[j], v)
  <2>4. s.state = v
    BY <2>1 DEF AppliedRow, Unclaimed, Row
  <2>5. row' = [row EXCEPT ![j] = s]
    BY <1>3, <2>1 DEF Update, Write, Claim
  <2> HIDE DEF s
  <2>6. /\ writes'[j] = IF v = "applied" THEN writes[j] + 1 ELSE writes[j]
        /\ \A k \in Jobs \ {j} : writes'[k] = writes[k]
    BY <1>3, <2>1 DEF TypeInv, TypeOK
  <2>7. row'[j] = s => Faithful(j)
    <3>1. CASE v = "applied"
      BY <1>1, <2>3, <2>4, <2>6, <3>1, RemembersFaithfully
    <3>2. CASE v = "no_change"
      BY <1>1, <2>3, <2>4, <2>6, <3>2, ClosesFaithfully
    <3>3. QED
      BY <3>1, <3>2
  <2>8. QED
    BY <1>1, <2>5, <2>6, <2>7, OneRow
<1>4. QED
  BY <1>2, <1>3 DEF Apply

LEMMA SettleFaithful ==
  ASSUME TypeInv, EffectsInv, NEW w \in Workers, Settle(w) PROVE AllFaithful
<1>1. UNCHANGED <<sends, writes>>
  BY DEF Settle, calls
<1> DEFINE payload == IF thread[w].attached THEN thread[w].payload ELSE "none"
<1>2. CASE UNCHANGED row
  BY <1>1, <1>2, RowsStay
<1>3. CASE /\ LiveFence(w) /\ thread[w].verdict # "applied"
           /\ Update(thread[w].job,
                     Settlement(Claim(w), thread[w].verdict, thread[w].completed, payload))
  <2>1. PICK j \in Jobs : /\ j = Job(w) /\ thread[w].at = "settle" /\ row[j] \in Row
                          /\ Sound(w, thread[w], row[j]) /\ thread[w] \in Thread
                          /\ thread[w].verdict \in Verdicts \ {"none", "batch", "applied"}
    BY <1>3, Holding DEF Settle, At, HoldsClaim, TypeInv, ThreadsOK, ThreadOK
  <2>2. Holds(w, thread[w], row[j])
    BY <1>3, <2>1 DEF LiveFence, Fence, Claim, Holds
  <2>3. thread[w].completed => row[j].marker
    BY <2>1, <2>2 DEF Sound, Held, HoldsClaim
  <2>4. payload \in Results /\ thread[w].completed \in BOOLEAN
    BY <2>1 DEF Thread, Results
  <2> HIDE DEF payload
  <2> DEFINE s == Settlement(row[j], thread[w].verdict, thread[w].completed, payload)
  <2>5. /\ s.state \in {"no_change", "dead", "retry"}
        /\ s.state = "retry" => s.result = row[j].result
    BY <2>1, <2>3, <2>4, SettlementFacts
  <2>6. row' = [row EXCEPT ![j] = s]
    BY <1>3, <2>1 DEF Update, Write, Claim, Job
  <2>7. Live(row[j])
    BY <2>2 DEF Holds, Live
  <2> HIDE DEF s
  <2>8. row'[j] = s => Faithful(j)
    <3>1. CASE s.state = "retry"
      BY <1>1, <2>5, <2>7, <3>1, KeepsFaithfully DEF Live, Open
    <3>2. CASE s.state \in {"no_change", "dead"}
      BY <1>1, <2>7, <3>2, ClosesFaithfully
    <3>3. QED
      BY <2>5, <3>1, <3>2
  <2>9. QED
    BY <1>1, <2>6, <2>8, OneRow
<1>4. QED
  BY <1>2, <1>3 DEF Settle

LEMMA EraseFaithful ==
  ASSUME TypeInv, EffectsInv, NEW j \in Jobs, Erase(j) PROVE AllFaithful
<1>1. UNCHANGED <<sends, writes>>
  BY DEF Erase, calls
<1>2. row' = [row EXCEPT ![j] = ErasedRow] /\ row[j].state # "absent"
  BY DEF Erase, EffectsInv, RowsSound, RowSound
<1>3. row'[j] = ErasedRow => Faithful(j)
  BY <1>1, <1>2, StatesApart, ForgetsFaithfully
<1>4. QED
  BY <1>1, <1>2, <1>3, OneRow

LEMMA StepFaithful ==
  ASSUME TypeInv, TypeInv', EffectsInv, AskedInv, [Next]_vars PROVE AllFaithful
<1>1. ASSUME NEW w \in Workers, Process(w) PROVE AllFaithful
  <2>1. CASE \/ Load(w) \/ Answer(w) \/ RouteFails(w) \/ Compile(w) \/ Rewrite(w)
             \/ RewriteAnswer(w)
    BY <2>1, RowsStay DEF Load, Answer, RouteFails, Compile, Rewrite, RewriteAnswer,
                          store, calls
  <2>2. QED
    BY <1>1, <2>1, DispatchFaithful, PersistFaithful, ReserveFaithful,
       RewritePersistFaithful, ApplyFaithful DEF Process
<1>2. ASSUME NEW w \in Workers, Drain(w), ~Process(w) PROVE AllFaithful
  <2>1. CASE Top(w) \/ End(w) \/ Validate(w) \/ Beat(w) \/ Ready(w)
    BY <2>1, RowsStay DEF Top, End, Validate, Beat, Ready, store, calls
  <2>2. CASE RecoverAtStart(w)
    BY <2>2, RecoveryQuiet, QuietSteps DEF RecoverAtStart, calls
  <2>3. CASE ClaimOne(w)
    BY <2>3, ClaimQuiet, QuietSteps DEF ClaimOne, calls
  <2>4. QED
    BY <1>2, <2>1, <2>2, <2>3, MarkFaithful, SettleFaithful DEF Drain
<1>3. ASSUME NEW w \in Workers, Faulty(w) PROVE AllFaithful
  BY <1>3, RowsStay DEF Faulty, Abandon, CapabilityRaises, ProcessorRaises, SettleRaises,
                        store, calls
<1>4. ASSUME NEW w \in Workers, Host(w) PROVE AllFaithful
  <2>1. CASE Shutdown(w)
    BY <2>1, RecoveryQuiet, QuietSteps DEF Shutdown, calls
  <2>2. CASE Create(w) \/ Kick(w) \/ BeginShutdown(w) \/ ShutdownBusy(w) \/ Crash(w)
    BY <2>2, RowsStay DEF Create, Kick, BeginShutdown, ShutdownBusy, Crash, store, calls
  <2>3. QED
    BY <1>4, <2>1, <2>2 DEF Host
<1>5. ASSUME NEW j \in Jobs, Clock(j) PROVE AllFaithful
  BY <1>5, ClockQuiet, QuietSteps DEF Clock, Lapse, BecomeDue, calls
<1>6. ASSUME NEW j \in Jobs, User(j) PROVE AllFaithful
  BY <1>6, EraseFaithful, RowsStay DEF User, Permit, calls
<1>7. CASE UNCHANGED vars
  BY <1>7, RowsStay DEF vars, store, calls
<1>8. QED
  BY <1>1, <1>2, <1>3, <1>4, <1>5, <1>6, <1>7 DEF Next

-----------------------------------------------------------------------------
(* The same, and a thread that waits for an answer has sent its request.   *)
THEOREM FormationInvariant == Spec => [](TypeInv /\ EffectsInv /\ AskedInv)
<1>1. Init => AskedInv
  BY DEF Init, AskedInv, Idle
<1>2. TypeInv /\ AskedInv /\ [Next]_vars => AskedInv'
  BY AskedNext
<1>3. QED
  BY <1>1, <1>2, EffectsInvariant, PTL DEF Spec

(* The workers implement Formation: a job is open until it gets one        *)
(* terminal, is asked again only under a policy that allows it, and        *)
(* changes the World once or not at all, from a response on disk, together *)
(* with its terminal.                                                      *)
THEOREM WorkersImplementFormation == Spec => ImplementsFormation
<1>1. Init => F!Init
  BY DEF Init, F!Init, NewRow, Open, Settled
<1>2. TypeInv /\ TypeInv' /\ EffectsInv /\ AskedInv /\ [Next]_vars => [F!Next]_F!vars
  BY StepFaithful DEF AllFaithful, Faithful, F!Next
<1>3. QED
  BY <1>1, <1>2, FormationInvariant, PTL DEF Spec, ImplementsFormation, F!Spec

(* The checkpoint of an unsettled job only moves forward.                  *)
THEOREM CheckpointsAdvance == Spec => CheckpointAdvances
<1>1. TypeInv /\ TypeInv' /\ EffectsInv /\ AskedInv /\ [Next]_vars =>
        [\A j \in Jobs :
           row[j].state \notin Settled /\ row'[j].state \in Open \cup {"processing"} =>
             \/ row'[j].result = row[j].result
             \/ Stage(row'[j].result) > Stage(row[j].result)]_vars
  BY StepFaithful DEF AllFaithful, Faithful, Advances, Live
<1>2. QED
  BY <1>1, FormationInvariant, PTL DEF Spec, CheckpointAdvances

(* A claim means something: only its holder, or erasure, ends it, and no   *)
(* write of an earlier holder undoes what a later one has stored.          *)
THEOREM ClaimsHoldTheorem == Spec => ClaimsHold
BY CheckpointsAdvance, LiveHolderKeepsItsClaim, PTL DEF ClaimsHold
=============================================================================
