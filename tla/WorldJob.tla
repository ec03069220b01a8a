------------------------------ MODULE WorldJob ------------------------------
(***************************************************************************)
(* The durable World-job worker: WorldJobStore and WorldJobWorker of       *)
(* integrations/hermes/world_worker.py running the formal processor of     *)
(* integrations/hermes/batch_adapter.py, with the OS lifetimes of          *)
(* worker_lifetime.py.  Several workers, in one process or several, share  *)
(* one SQLite file.  Each BEGIN IMMEDIATE transaction is one step; between *)
(* two of them other workers, shutdown, a crash, the clock and the user    *)
(* (who may revoke or erase the job's Evidence) may intervene.             *)
(***************************************************************************)
EXTENDS JobRow, FiniteSets

CONSTANTS
  Jobs,           \* accepted boundary jobs, each with eligible user Evidence
  Local,          \* workers whose model is local (dispatches_model is false)
  Mortal,         \* workers that may be shut down or whose process may die
  Punctual,       \* a live claim's heartbeats keep its lease from lapsing
  MaxGeneration,  \* bound: no claim beyond this fencing generation
  MaxFaults       \* bound: database and route faults in one behaviour

ASSUME LocalAssumption == Local \subseteq Workers
ASSUME PunctualAssumption == Punctual \in BOOLEAN
ASSUME MortalAssumption == Mortal \subseteq Workers
ASSUME BoundAssumption == MaxGeneration \in Nat /\ MaxFaults \in Nat

NoJob == "nojob"
ASSUME NoJobAssumption == NoJob \notin Jobs

VARIABLES
  row,        \* memory_world_job
  outcome,    \* terminal_outcome rows written with the job's terminal
  evidence,   \* what the formation surface says of the job's Evidence
  thread,     \* local state of each worker's drain thread
  stopping,   \* _stop, and how far shutdown() has come
  recovered,  \* _recovered: this worker has run its start-up recovery
  lifetime,   \* the OS lock file of the worker
  faults,     \* faults so far
  sends,      \* model calls made for a job's first interpretation
  rewrites,   \* model calls made for a job's rewrite
  writes      \* committed World mutations of a job

store == <<row, outcome, evidence>>
worker == <<thread, stopping, recovered, lifetime>>
calls == <<sends, rewrites>>
vars == <<store, worker, faults, calls, writes>>

-----------------------------------------------------------------------------
(***************************************************************************)
(* A drain thread: where it is, its claim (job and token), whether it      *)
(* replays a durable response, the payload it holds, what the compiler     *)
(* said, and the settlement it is about to make.                           *)
(***************************************************************************)
InProcess == {"load", "dispatch", "await", "persist", "compile", "reserve",
              "rewrite", "rewrite_await", "rewrite_persist", "apply"}
HoldsClaim == InProcess \cup {"validate", "beat", "ready", "mark", "settle"}
Places == HoldsClaim \cup {"asleep", "top", "locked", "ending", "gone"}

Verdicts == {"none", "batch", "applied", "no_change", "clarification_required",
             "out_of_scope", "retry", "dead"}
Compilations == {"batch", "no_change", "clarification_required", "out_of_scope"}

Thread == [at: Places, job: Jobs \cup {NoJob}, token: Nat, replay: BOOLEAN,
           payload: Results, verdict: Verdicts, completed: BOOLEAN,
           attached: BOOLEAN, guarded: BOOLEAN]

Idle(place) == [at |-> place, job |-> NoJob, token |-> 0, replay |-> FALSE,
                payload |-> "none", verdict |-> "none", completed |-> FALSE,
                attached |-> FALSE, guarded |-> FALSE]

Goto(w, place) == thread' = [thread EXCEPT ![w].at = place]
Drop(w, place) == thread' = [thread EXCEPT ![w] = Idle(place)]

(***************************************************************************)
(* The settlement the thread makes next.  "attached" says the result       *)
(* carries the payload as model_result; "guarded" that an exception in     *)
(* this settle() is caught by _process_claim's "except Exception".         *)
(***************************************************************************)
Finish(w, verdict, completed, attached, guarded) ==
  thread' = [thread EXCEPT ![w].at = "settle", ![w].verdict = verdict,
                           ![w].completed = completed,
                           ![w].attached = attached, ![w].guarded = guarded]

(* A remote call is marked and completed; a local one may be repeated. *)
Remote(w) == w \notin Local

(* a result returned by the processor, with its model_kwargs *)
Return(w, verdict) == Finish(w, verdict, Remote(w), TRUE, TRUE)
(* PermanentWorldJobError out of process() *)
RaisePermanent(w) == Finish(w, "dead", Remote(w), FALSE, FALSE)
(* RetryableWorldJobError, or any other exception, out of process() *)
RaiseRetryable(w) == Finish(w, "retry", thread[w].replay, FALSE, FALSE)
(* a settlement before process() is entered *)
Refuse(w, verdict) == Finish(w, verdict, FALSE, FALSE, FALSE)

At(w, place) == thread[w].at = place
Job(w) == thread[w].job
Claim(w) == row[Job(w)]

(* Mutant of Fence: any claim on the job will do. *)
AnyClaim(w) == Claim(w).state = "processing"

(* state, claim_owner, claim_token and fencing_generation of the claim *)
Fence(w) ==
  /\ Claim(w).state = "processing"
  /\ Claim(w).owner = w
  /\ Claim(w).token = thread[w].token
  /\ Claim(w).gen = thread[w].token

LiveFence(w) == Fence(w) /\ Claim(w).lease = "live"

(* Mutant of Current: only erasure is looked at, not the permissions. *)
NotErased(j) == evidence[j] # "erased"

Current(j) == evidence[j] = "current"

Stopped(w) == stopping[w] # "no"

Fault == faults < MaxFaults /\ faults' = faults + 1

(* persist_terminal_outcome_in_transaction, for every job a step settles *)
Publish(rows) ==
  outcome' = [j \in Jobs |-> IF rows[j].state \in Settled
                               /\ row[j].state \notin Settled
                             THEN rows[j].terminal ELSE outcome[j]]

Write(rows) == row' = rows /\ Publish(rows)
Update(j, r) == Write([row EXCEPT ![j] = r])

-----------------------------------------------------------------------------
Init ==
  /\ row = [j \in Jobs |-> NewRow]
  /\ outcome = [j \in Jobs |-> "none"]
  /\ evidence = [j \in Jobs |-> "current"]
  /\ thread = [w \in Workers |-> Idle("asleep")]
  /\ stopping = [w \in Workers |-> "no"]
  /\ recovered = [w \in Workers |-> FALSE]
  /\ lifetime = [w \in Workers |-> "unborn"]
  /\ faults = 0
  /\ sends = [j \in Jobs |-> 0]
  /\ rewrites = [j \in Jobs |-> 0]
  /\ writes = [j \in Jobs |-> 0]

-----------------------------------------------------------------------------
(* The worker's life *)

(* __init__: the lifetime lock is taken before anything is claimed. *)
Create(w) ==
  /\ lifetime[w] = "unborn"
  /\ lifetime' = [lifetime EXCEPT ![w] = "held"]
  /\ UNCHANGED <<store, thread, stopping, recovered, faults, calls, writes>>

(* kick and _timer_fired: start a drain thread when none is running. *)
Kick(w) ==
  /\ lifetime[w] = "held"
  /\ At(w, "asleep") /\ ~Stopped(w)
  /\ Goto(w, "top")
  /\ UNCHANGED <<store, stopping, recovered, lifetime, faults, calls, writes>>

(* run_until_quiescent: test _stop, then take the lifecycle lock. *)
Top(w) ==
  /\ At(w, "top")
  /\ Goto(w, IF Stopped(w) THEN "ending" ELSE "locked")
  /\ UNCHANGED <<store, stopping, recovered, lifetime, faults, calls, writes>>

(* recover_interrupted(owner=None), once per worker, under the lock. *)
RecoverAtStart(w) ==
  /\ At(w, "locked") /\ ~recovered[w]
  /\ Write([j \in Jobs |->
              IF row[j].state = "processing" /\ row[j].owner \in Workers
                 /\ lifetime[row[j].owner] = "released"
              THEN Interrupted(row[j]) ELSE row[j]])
  /\ recovered' = [recovered EXCEPT ![w] = TRUE]
  /\ UNCHANGED <<evidence, thread, stopping, lifetime, faults, calls, writes>>

(* claim_one: recover, clean up, claim a due job, in one transaction. *)
ClaimOne(w) ==
  /\ At(w, "locked") /\ recovered[w]
  /\ LET swept == [j \in Jobs |-> Swept(row[j])]
         due == {j \in Jobs : Claimable(swept[j]) /\ swept[j].gen < MaxGeneration}
     IN \/ /\ due = {}
           /\ Write(swept)
           /\ Goto(w, "ending")
        \/ \E j \in due :
             /\ Write([swept EXCEPT ![j] = Claimed(@, w)])
             /\ thread' = [thread EXCEPT
                             ![w] = [Idle("validate") EXCEPT
                                       !.job = j, !.token = swept[j].gen + 1]]
  /\ UNCHANGED <<evidence, stopping, recovered, lifetime, faults, calls, writes>>

(* the end of _run_background *)
End(w) ==
  /\ At(w, "ending")
  /\ Drop(w, "asleep")
  /\ lifetime' = [lifetime EXCEPT ![w] = IF Stopped(w) THEN "released" ELSE @]
  /\ UNCHANGED <<store, stopping, recovered, faults, calls, writes>>

(* A database error outside _process_claim's handlers ends the drain and   *)
(* leaves the claim, if there is one, to its lease.                        *)
Abandon(w) ==
  /\ \/ thread[w].at \in {"locked", "validate", "beat", "ready", "mark"}
     \/ At(w, "settle") /\ ~thread[w].guarded
  /\ Fault
  /\ Drop(w, "ending")
  /\ UNCHANGED <<store, stopping, recovered, lifetime, calls, writes>>

-----------------------------------------------------------------------------
(* _process_claim up to the processor *)

(* validate_formal_target and validate_current_evidence, read only. *)
Validate(w) ==
  /\ At(w, "validate")
  /\ IF Current(Job(w)) THEN Goto(w, "beat") ELSE Refuse(w, "dead")
  /\ UNCHANGED <<store, stopping, recovered, lifetime, faults, calls, writes>>

(* the heartbeat that reasserts the fence after the check *)
Beat(w) ==
  /\ At(w, "beat")
  /\ IF LiveFence(w) THEN Goto(w, "ready") ELSE Drop(w, "top")
  /\ UNCHANGED <<store, stopping, recovered, lifetime, faults, calls, writes>>

(* Mutant of Ready: the dispatch marker is not written. *)
ReadyUnmarked(w) ==
  /\ At(w, "ready")
  /\ Goto(w, "load")
  /\ UNCHANGED <<store, stopping, recovered, lifetime, faults, calls, writes>>

(* dispatches_model, has_durable_model_result and the second currentness   *)
(* check; reading the capability may itself raise.                         *)
Ready(w) ==
  /\ At(w, "ready")
  /\ IF ~Remote(w) THEN Goto(w, "load")
     ELSE IF LiveFence(w) /\ Checkpointed(Claim(w))
     THEN thread' = [thread EXCEPT ![w].at = "load", ![w].replay = TRUE]
     ELSE IF Current(Job(w)) THEN Goto(w, "mark") ELSE Refuse(w, "dead")
  /\ UNCHANGED <<store, stopping, recovered, lifetime, faults, calls, writes>>

CapabilityRaises(w) ==
  /\ At(w, "ready")
  /\ Fault
  /\ Refuse(w, "retry")
  /\ UNCHANGED <<store, stopping, recovered, lifetime, calls, writes>>

(* mark_dispatch_started: currentness and the marker in one transaction. *)
Mark(w) ==
  /\ At(w, "mark")
  /\ \/ /\ ~Current(Job(w))
        /\ Refuse(w, "dead")
        /\ UNCHANGED row
     \/ /\ Current(Job(w))
        /\ LiveFence(w) /\ ~Claim(w).marker
        /\ row' = [row EXCEPT ![Job(w)].marker = TRUE]
        /\ Goto(w, "load")
     \/ /\ Current(Job(w))
        /\ ~(LiveFence(w) /\ ~Claim(w).marker)
        /\ Drop(w, "top")
        /\ UNCHANGED row
  /\ UNCHANGED <<outcome, evidence, stopping, recovered, lifetime, faults,
                 calls, writes>>

-----------------------------------------------------------------------------
(* HermesBatchAdapterProcessor._process *)

(* _load_checkpoint, by job id alone; without one, the Evidence is read    *)
(* and a pure inquiry returns before any dispatch.                         *)
Load(w) ==
  /\ At(w, "load")
  /\ LET stored == Claim(w).result
     IN \/ /\ stored # "none"
           /\ thread' = [thread EXCEPT ![w].at = "compile", ![w].payload = stored]
        \/ /\ stored = "none" /\ ~Current(Job(w))
           /\ RaisePermanent(w)
        \/ /\ stored = "none" /\ Current(Job(w))
           /\ Goto(w, "dispatch") \/ Return(w, "no_change")
  /\ UNCHANGED <<store, stopping, recovered, lifetime, faults, calls, writes>>

(* _dispatch_once reads the Evidence again and calls the model. *)
Dispatch(w) ==
  /\ At(w, "dispatch")
  /\ IF Current(Job(w))
     THEN /\ Goto(w, "await")
          /\ sends' = [sends EXCEPT ![Job(w)] = @ + 1]
     ELSE RaisePermanent(w) /\ UNCHANGED sends
  /\ UNCHANGED <<store, stopping, recovered, lifetime, faults, rewrites, writes>>

Answer(w) ==
  /\ At(w, "await")
  /\ thread' = [thread EXCEPT ![w].at = "persist", ![w].payload = "first"]
  /\ UNCHANGED <<store, stopping, recovered, lifetime, faults, calls, writes>>

RouteFails(w) ==
  /\ At(w, "await")
  /\ RaisePermanent(w) \/ RaiseRetryable(w)
  /\ UNCHANGED <<store, stopping, recovered, lifetime, faults, calls, writes>>

(* Mutant of Checkpoint: the response stays in memory. *)
KeepInMemory(w, payload, next) ==
  /\ thread' = [thread EXCEPT ![w].at = next, ![w].payload = payload]
  /\ UNCHANGED row

(* _persist_checkpoint: fenced by the claim, though not by its lease. *)
Checkpoint(w, payload, next) ==
  IF Fence(w)
  THEN /\ row' = [row EXCEPT ![Job(w)].result = payload]
       /\ thread' = [thread EXCEPT ![w].at = next, ![w].payload = payload]
  ELSE RaisePermanent(w) /\ UNCHANGED row

Persist(w) ==
  /\ At(w, "persist")
  /\ Checkpoint(w, "first", "compile")
  /\ UNCHANGED <<outcome, evidence, stopping, recovered, lifetime, faults,
                 calls, writes>>

(* _compile_checked, and the branches on what it returns.  A stub cannot   *)
(* be compiled to anything but no_change.                                  *)
Compile(w) ==
  /\ At(w, "compile")
  /\ \E c \in Compilations :
       /\ thread[w].payload = "stub" => c = "no_change"
       /\ \/ c = "batch" /\ Goto(w, "apply")
          \/ c # "batch" /\ Return(w, c)
          \/ c = "no_change" /\ thread[w].payload \in {"first", "stub"}
             /\ Goto(w, "reserve")
  /\ UNCHANGED <<store, stopping, recovered, lifetime, faults, calls, writes>>

(* The rewrite is reserved durably before it is sent. *)
Reserve(w) ==
  /\ At(w, "reserve")
  /\ Checkpoint(w, "reserved", "rewrite")
  /\ UNCHANGED <<outcome, evidence, stopping, recovered, lifetime, faults,
                 calls, writes>>

(* The rewrite's own _dispatch_once; whatever it raises, also for Evidence *)
(* revoked meanwhile, is stored as a failed rewrite.                       *)
Rewritten(w, payload, c) ==
  thread' = [thread EXCEPT ![w].at = "rewrite_persist",
                           ![w].payload = payload, ![w].verdict = c]

Rewrite(w) ==
  /\ At(w, "rewrite")
  /\ IF Current(Job(w))
     THEN /\ Goto(w, "rewrite_await")
          /\ rewrites' = [rewrites EXCEPT ![Job(w)] = @ + 1]
     ELSE Rewritten(w, "rewrite_failed", "no_change") /\ UNCHANGED rewrites
  /\ UNCHANGED <<store, stopping, recovered, lifetime, faults, sends, writes>>

RewriteAnswer(w) ==
  /\ At(w, "rewrite_await")
  /\ \/ Rewritten(w, "rewrite_failed", "no_change")
     \/ \E c \in Compilations : Rewritten(w, "rewritten", c)
  /\ UNCHANGED <<store, stopping, recovered, lifetime, faults, calls, writes>>

RewritePersist(w) ==
  /\ At(w, "rewrite_persist")
  /\ IF ~Fence(w)
     THEN RaisePermanent(w) /\ UNCHANGED row
     ELSE /\ row' = [row EXCEPT ![Job(w)].result = thread[w].payload]
          /\ IF thread[w].verdict = "batch"
             THEN Goto(w, "apply") ELSE Return(w, thread[w].verdict)
  /\ UNCHANGED <<outcome, evidence, stopping, recovered, lifetime, faults,
                 calls, writes>>

(* _apply_once: fence, Evidence, World rows, revision, job terminal and    *)
(* terminal outcome in one transaction.  A stale historical target, an     *)
(* ambiguous mention or a changed span writes nothing.                     *)
Apply(w) ==
  /\ At(w, "apply")
  /\ \/ /\ ~LiveFence(w)
        /\ Return(w, "dead")
        /\ UNCHANGED <<row, outcome, writes>>
     \/ /\ LiveFence(w) /\ ~Current(Job(w))
        /\ Return(w, "no_change")
        /\ UNCHANGED <<row, outcome, writes>>
     \/ /\ LiveFence(w) /\ Current(Job(w))
        /\ \E v \in {"no_change", "clarification_required"} : Return(w, v)
        /\ UNCHANGED <<row, outcome, writes>>
     \/ /\ LiveFence(w) /\ Current(Job(w))
        /\ \E v \in {"applied", "no_change"} :
             /\ Update(Job(w), AppliedRow(Claim(w), v))
             /\ writes' = [writes EXCEPT ![Job(w)] =
                             IF v = "applied" THEN @ + 1 ELSE @]
             /\ Return(w, v)
  /\ UNCHANGED <<evidence, stopping, recovered, lifetime, faults, calls>>

(* Any other exception while the processor works: a busy database, a bug. *)
ProcessorRaises(w) ==
  /\ thread[w].at \in {"load", "dispatch", "persist", "compile", "reserve",
                       "rewrite_persist", "apply"}
  /\ Fault
  /\ RaiseRetryable(w)
  /\ UNCHANGED <<store, stopping, recovered, lifetime, calls, writes>>

-----------------------------------------------------------------------------
(* Settlement, clock, shutdown, crash, and the user *)

(* settle, which refuses an "applied" it did not see committed. *)
Settle(w) ==
  /\ At(w, "settle")
  /\ LET t == thread[w]
     IN IF ~LiveFence(w)
        THEN Drop(w, "top") /\ UNCHANGED <<row, outcome>>
        ELSE IF t.verdict = "applied"
        THEN RaisePermanent(w) /\ UNCHANGED <<row, outcome>>
        ELSE /\ Update(t.job, Settlement(Claim(w), t.verdict, t.completed,
                                IF t.attached THEN t.payload ELSE "none"))
             /\ Drop(w, "top")
  /\ UNCHANGED <<evidence, stopping, recovered, lifetime, faults, calls, writes>>

(* settle raises inside the try: _process_claim settles again, as a retry. *)
SettleRaises(w) ==
  /\ At(w, "settle") /\ thread[w].guarded
  /\ Fault
  /\ RaiseRetryable(w)
  /\ UNCHANGED <<store, stopping, recovered, lifetime, calls, writes>>

(* The clock passes lease_expires_at.  heartbeat and _heartbeat_loop move  *)
(* a live lease ahead, which leaves it live: if they are punctual a lease  *)
(* lapses only when nobody works on the claim.                             *)
Lapse(j) ==
  /\ row[j].lease = "live"
  /\ Punctual => \A w \in Workers : ~(thread[w].at \in HoldsClaim
                                      /\ thread[w].job = j
                                      /\ thread[w].token = row[j].token)
  /\ row' = [row EXCEPT ![j].lease = "expired"]
  /\ UNCHANGED <<outcome, evidence, worker, faults, calls, writes>>

(* The clock passes next_attempt_at. *)
BecomeDue(j) ==
  /\ ~row[j].due
  /\ row' = [row EXCEPT ![j].due = TRUE]
  /\ UNCHANGED <<outcome, evidence, worker, faults, calls, writes>>

(* shutdown: _stop is set before the lifecycle lock is taken. *)
BeginShutdown(w) ==
  /\ w \in Mortal /\ lifetime[w] = "held" /\ stopping[w] = "no"
  /\ stopping' = [stopping EXCEPT ![w] = "begun"]
  /\ UNCHANGED <<store, thread, recovered, lifetime, faults, calls, writes>>

(* Under the lock: return this worker's claims and release its lifetime,   *)
(* without waiting for the thread.                                         *)
Shutdown(w) ==
  /\ stopping[w] = "begun" /\ ~At(w, "locked")
  /\ Write([j \in Jobs |-> IF row[j].state = "processing" /\ row[j].owner = w
                           THEN Interrupted(row[j]) ELSE row[j]])
  /\ lifetime' = [lifetime EXCEPT ![w] = "released"]
  /\ stopping' = [stopping EXCEPT ![w] = "done"]
  /\ UNCHANGED <<evidence, thread, recovered, faults, calls, writes>>

(* ... or give up on a busy database and leave the lifetime to the thread. *)
ShutdownBusy(w) ==
  /\ stopping[w] = "begun" /\ ~At(w, "locked")
  /\ Fault
  /\ stopping' = [stopping EXCEPT ![w] = "done"]
  /\ UNCHANGED <<store, thread, recovered, lifetime, calls, writes>>

(* The worker's process dies: the kernel drops its lock. *)
Crash(w) ==
  /\ w \in Mortal /\ lifetime[w] # "unborn" /\ ~At(w, "gone")
  /\ Drop(w, "gone")
  /\ lifetime' = [lifetime EXCEPT ![w] = "released"]
  /\ stopping' = [stopping EXCEPT ![w] = "done"]
  /\ UNCHANGED <<store, recovered, faults, calls, writes>>

(* The user withdraws or grants again the permissions formation needs. *)
Permit(j, status) ==
  /\ evidence[j] \in {"current", "revoked"} \ {status}
  /\ evidence' = [evidence EXCEPT ![j] = status]
  /\ UNCHANGED <<row, outcome, worker, faults, calls, writes>>

(* Mutant of Erase: the terminal outcome is left behind. *)
EraseJobOnly(j) ==
  /\ evidence[j] # "erased"
  /\ evidence' = [evidence EXCEPT ![j] = "erased"]
  /\ row' = [row EXCEPT ![j] = ErasedRow]
  /\ UNCHANGED <<outcome, worker, faults, calls, writes>>

(* True delete of the Evidence takes the job and its outcome with it. *)
Erase(j) ==
  /\ evidence[j] # "erased"
  /\ evidence' = [evidence EXCEPT ![j] = "erased"]
  /\ row' = [row EXCEPT ![j] = ErasedRow]
  /\ outcome' = [outcome EXCEPT ![j] = "none"]
  /\ UNCHANGED <<worker, faults, calls, writes>>

-----------------------------------------------------------------------------
Process(w) ==
  \/ Load(w) \/ Dispatch(w) \/ Answer(w) \/ RouteFails(w) \/ Persist(w)
  \/ Compile(w) \/ Reserve(w) \/ Rewrite(w) \/ RewriteAnswer(w)
  \/ RewritePersist(w) \/ Apply(w)

Drain(w) ==
  \/ Top(w) \/ RecoverAtStart(w) \/ ClaimOne(w) \/ End(w)
  \/ Validate(w) \/ Beat(w) \/ Ready(w) \/ Mark(w) \/ Process(w) \/ Settle(w)

Faulty(w) ==
  Abandon(w) \/ CapabilityRaises(w) \/ ProcessorRaises(w) \/ SettleRaises(w)

Host(w) ==
  Create(w) \/ Kick(w) \/ BeginShutdown(w) \/ Shutdown(w) \/ ShutdownBusy(w)
  \/ Crash(w)

Clock(j) == Lapse(j) \/ BecomeDue(j)

User(j) == Permit(j, "revoked") \/ Permit(j, "current") \/ Erase(j)

Next ==
  \/ \E w \in Workers : Drain(w) \/ Faulty(w) \/ Host(w)
  \/ \E j \in Jobs : Clock(j) \/ User(j)

Spec == Init /\ [][Next]_vars

(***************************************************************************)
(* A thread that runs keeps running, the timer set by next_wakeup_delay    *)
(* kicks a sleeping worker, some immortal worker is created, and the clock *)
(* moves.  Nothing is assumed of faults, shutdown, crashes or the user.    *)
(***************************************************************************)
Fairness ==
  /\ \A w \in Workers : WF_vars(Drain(w)) /\ WF_vars(Kick(w)) /\ WF_vars(Create(w))
  /\ \A j \in Jobs : WF_vars(Clock(j))

FairSpec == Spec /\ Fairness

-----------------------------------------------------------------------------
(* Properties *)

(* Every variable keeps its type. *)
TypeOK ==
  /\ row \in [Jobs -> Row]
  /\ outcome \in [Jobs -> Terminals]
  /\ evidence \in [Jobs -> {"current", "revoked", "erased"}]
  /\ thread \in [Workers -> Thread]
  /\ stopping \in [Workers -> {"no", "begun", "done"}]
  /\ recovered \in [Workers -> BOOLEAN]
  /\ lifetime \in [Workers -> {"unborn", "held", "released"}]
  /\ faults \in Nat
  /\ sends \in [Jobs -> Nat]
  /\ rewrites \in [Jobs -> Nat]
  /\ writes \in [Jobs -> Nat]

(* A remote processor that has not opted into repeating an interrupted     *)
(* inference sends a job to the model at most once, whatever crashes,      *)
(* lapsed leases, shutdowns and stale threads the job goes through (the    *)
(* module docstring of world_worker.py).                                   *)
OneDispatch == ~RetryInference /\ Local = {} => \A j \in Jobs : sends[j] <= 1

(* The one rewrite is never repeated: recovery finds it reserved.          *)
OneRewrite == \A j \in Jobs : rewrites[j] <= 1

(* A job mutates the World at most once, it is "applied" exactly when it   *)
(* has, and what it wrote came from a response that was durable before.    *)
AppliedOnce ==
  \A j \in Jobs :
    /\ writes[j] <= 1
    /\ row[j].state # "absent" =>
         /\ (row[j].state = "applied") <=> (writes[j] = 1)
         /\ writes[j] = 1 => row[j].result \in Checkpoints

(* What a job does to the world outside its row happens once: the model    *)
(* call, the rewrite and the mutation of the World, whatever crashes,      *)
(* lapsed leases, shutdowns and stale threads the job goes through.        *)
EffectsAreOnce == OneDispatch /\ OneRewrite /\ AppliedOnce

(* settle meets none of the cases it raises for: an "applied" verdict      *)
(* under a live claim, a completion without a marker, and a retry delay    *)
(* asked for outside attempts 1 .. max_attempts.                           *)
SettlementIsLegal ==
  \A w \in Workers :
    At(w, "settle") /\ LiveFence(w) =>
      /\ thread[w].verdict # "applied"
      /\ thread[w].completed => Claim(w).marker
      /\ Claim(w).attempts \in 1 .. MaxAttempts

(* Erased Evidence leaves neither a job nor an outcome, and no thread that *)
(* still holds the claim can bring one back.                               *)
ErasedLeavesNothing ==
  \A j \in Jobs : evidence[j] = "erased" => row[j] = ErasedRow /\ outcome[j] = "none"

(* While a job is unsettled its checkpoint only moves forward: a stale     *)
(* thread never puts an older response over a newer one.                   *)
Stage(result) == CASE result = "none" -> 0 [] result = "first" -> 1
                   [] result = "reserved" -> 2 [] OTHER -> 3

CheckpointAdvances ==
  [][\A j \in Jobs :
       row[j].state \notin Settled /\ row'[j].state \in Open \cup {"processing"} =>
         \/ row'[j].result = row[j].result
         \/ Stage(row'[j].result) > Stage(row[j].result)]_vars

(* Nobody takes a claim from a worker that lives, is not being shut down   *)
(* and keeps its lease: only its own steps, or erasure, end it (README,    *)
(* "a live holder retains its renewable lease").                           *)
LiveHolderKeepsClaim ==
  [][\A j \in Jobs :
       /\ row[j].state = "processing" /\ row[j].lease = "live"
       /\ lifetime[row[j].owner] = "held" /\ ~Stopped(row[j].owner)
       /\ row'[j].token # row[j].token
       => thread'[row[j].owner] # thread[row[j].owner] \/ evidence'[j] = "erased"]_vars

(* A claim means something: only its holder, or erasure, ends it, and no   *)
(* write of an earlier holder undoes what a later one has stored.          *)
ClaimsHold == CheckpointAdvances /\ LiveHolderKeepsClaim

(* Revoked or erased Evidence causes no further model call and no World    *)
(* mutation, however far the job had come.                                 *)
NothingFromWithdrawnEvidence ==
  [][\A j \in Jobs : evidence[j] # "current" =>
       <<sends[j], rewrites[j], writes[j]>>' = <<sends[j], rewrites[j], writes[j]>>]_vars

(* Every job is settled or erased in the end, if one worker survives.      *)
EveryJobSettles ==
  \A j \in Jobs : <>(row[j].state \in Settled \cup {"absent"})

(* The workers implement Formation, whose variables are read off the rows. *)
F == INSTANCE Formation WITH
       Repeatable <- RetryInference \/ Local # {},
       status <- [j \in Jobs |-> IF row[j].state \in Open \cup {"processing"}
                                 THEN "open" ELSE row[j].state],
       saved <- [j \in Jobs |-> /\ row[j].state \in Open \cup {"processing"}
                                /\ row[j].result # "none"],
       asked <- sends,
       world <- writes

ImplementsFormation == F!Spec
=============================================================================
