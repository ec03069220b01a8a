------------------------------- MODULE JobRow -------------------------------
(***************************************************************************)
(* One row of memory_world_job and the UPDATE statements WorldJobStore     *)
(* runs on it (py integrations/hermes/world_worker.py).  Every operator    *)
(* maps a row to the row one statement leaves behind; WorldJob runs them   *)
(* inside its transactions.                                                *)
(*                                                                         *)
(* Time is abstracted to what the statements compare it with: "lease" says *)
(* whether lease_expires_at is still ahead of the clock and "due" whether  *)
(* next_attempt_at has been reached.  A claim token (a uuid4, never drawn  *)
(* twice) is named by the fencing generation it was drawn under; NULL is   *)
(* 0, which no claim has because a claim increments the generation.        *)
(***************************************************************************)
EXTENDS Naturals

CONSTANTS
  Workers,        \* claim_owner values: one per WorldJobWorker ever created
  NoWorker,       \* NULL in claim_owner
  MaxAttempts,    \* WorldJobPolicy.max_attempts
  RetryInference  \* retry_interrupted_inference: only the DSH bridge sets it

ASSUME MaxAttemptsAssumption == MaxAttempts \in Nat \ {0}
ASSUME RetryInferenceAssumption == RetryInference \in BOOLEAN
ASSUME NoWorkerAssumption == NoWorker \notin Workers

Open == {"pending", "retry"}
Settled == {"applied", "no_change", "dead"}

(***************************************************************************)
(* "absent" is a row that does not exist any more: true delete removes it. *)
(***************************************************************************)
States == Open \cup Settled \cup {"processing", "absent"}

(***************************************************************************)
(* What model_result_json holds: the first response, the first response    *)
(* with a reserved rewrite, the rewritten response, the first response     *)
(* with the rewrite's failure, or the stub settle writes when the result   *)
(* it settles carries no model_result.                                     *)
(***************************************************************************)
Checkpoints == {"first", "reserved", "rewritten", "rewrite_failed"}
Results == Checkpoints \cup {"none", "stub"}

Terminals == {"none", "applied", "no_change", "clarification_required",
              "out_of_scope", "failed"}

Errors == {"none", "recovered", "lease_expired", "dispatch_result_unsettled",
           "dispatch_outcome_unknown", "max_attempts_exhausted",
           "post_dispatch_retry_forbidden", "declared"}

Row == [state: States, attempts: Nat, due: BOOLEAN,
        owner: Workers \cup {NoWorker}, token: Nat,
        lease: {"none", "live", "expired"}, gen: Nat,
        marker: BOOLEAN, result: Results, terminal: Terminals, error: Errors]

NewRow == [state |-> "pending", attempts |-> 0, due |-> TRUE,
           owner |-> NoWorker, token |-> 0, lease |-> "none", gen |-> 0,
           marker |-> FALSE, result |-> "none", terminal |-> "none",
           error |-> "none"]

ErasedRow == [NewRow EXCEPT !.state = "absent"]

-----------------------------------------------------------------------------
(***************************************************************************)
(* A dispatched job whose response is durable: only Apply is replayed.     *)
(***************************************************************************)
Checkpointed(r) == r.marker /\ r.result # "none"

OutcomeUnknown(r) == r.marker /\ r.result = "none"

Unclaimed(r) == [r EXCEPT !.owner = NoWorker, !.token = 0, !.lease = "none"]

Died(r, why) == [Unclaimed(r) EXCEPT !.state = "dead", !.due = TRUE,
                                     !.terminal = "failed", !.error = why]

(* Mutant of Interrupted: every interrupted inference is asked again. *)
AlwaysReturned(r) ==
  [Unclaimed(r) EXCEPT
     !.state = "retry", !.due = TRUE, !.gen = @ + 1,
     !.attempts = IF @ = 0 THEN 0 ELSE @ - 1,
     !.marker = @ /\ r.result # "none", !.error = "recovered"]

(***************************************************************************)
(* recover_interrupted: the claim of a lifetime that is gone, or of this   *)
(* stopped worker, is returned and the claim it spent is refunded.         *)
(***************************************************************************)
Interrupted(r) ==
  IF OutcomeUnknown(r) /\ ~RetryInference
  THEN Died(r, "dispatch_outcome_unknown")
  ELSE [Unclaimed(r) EXCEPT
          !.state = "retry", !.due = TRUE,
          !.attempts = IF @ = 0 THEN 0 ELSE @ - 1,
          !.gen = @ + 1,
          !.marker = @ /\ r.result # "none",
          !.error = "recovered"]

(***************************************************************************)
(* _recover_expired_in_transaction.                                        *)
(***************************************************************************)
Returned(r, why) == [Unclaimed(r) EXCEPT !.state = "retry", !.due = TRUE,
                                         !.error = why]

Expired(r) ==
  CASE r.state # "processing" \/ r.lease = "live" -> r
    [] OTHER ->
       CASE OutcomeUnknown(r) -> Died(r, "dispatch_outcome_unknown")
         [] Checkpointed(r) -> Returned(r, "dispatch_result_unsettled")
         [] ~r.marker /\ r.attempts >= MaxAttempts ->
              Died(r, "max_attempts_exhausted")
         [] OTHER -> Returned(r, "lease_expired")

(***************************************************************************)
(* The two clean-up statements claim_one runs after the recovery, in the   *)
(* order it runs them.                                                     *)
(***************************************************************************)
UnsafeDied(r) ==
  IF r.state \in Open /\ OutcomeUnknown(r)
  THEN Died(r, "dispatch_outcome_unknown") ELSE r

ExhaustedDied(r) ==
  IF r.state \in Open /\ r.attempts >= MaxAttempts /\ ~Checkpointed(r)
  THEN Died(r, "max_attempts_exhausted") ELSE r

(* Mutant of Swept: claim_one does not recover lapsed claims. *)
NotRecovered(r) == ExhaustedDied(UnsafeDied(r))

Swept(r) == ExhaustedDied(UnsafeDied(Expired(r)))

Claimable(r) ==
  /\ r.state \in Open
  /\ r.due
  /\ r.attempts < MaxAttempts \/ Checkpointed(r)

Claimed(r, w) ==
  [r EXCEPT
     !.state = "processing",
     !.attempts = IF Checkpointed(r) /\ @ >= MaxAttempts THEN @ ELSE @ + 1,
     !.due = TRUE, !.owner = w, !.token = r.gen + 1, !.lease = "live",
     !.gen = @ + 1,
     !.error = IF @ = "recovered" THEN @ ELSE "none"]

-----------------------------------------------------------------------------
(***************************************************************************)
(* settle, for a claim whose fence holds.  Effective is the verdict after  *)
(* the dispatch rules, Settlement the row it leaves: "completed" is the    *)
(* model_completed argument and "payload" the result's model_result        *)
(* ("none" when it has none, and then the stub is stored).                 *)
(***************************************************************************)
Effective(r, verdict, completed) ==
  CASE r.marker /\ ~completed -> <<"dead", "dispatch_outcome_unknown">>
    [] r.marker /\ completed /\ verdict = "retry" ->
         <<"dead", "post_dispatch_retry_forbidden">>
    [] ~r.marker /\ verdict = "retry" /\ r.attempts >= MaxAttempts ->
         <<"dead", "max_attempts_exhausted">>
    [] OTHER ->
         <<verdict, IF verdict \in {"retry", "dead"} THEN "declared" ELSE "none">>

TransportState(verdict) ==
  IF verdict \in {"clarification_required", "out_of_scope"}
  THEN "no_change" ELSE verdict

TerminalOf(verdict) ==
  CASE verdict = "dead" -> "failed"
    [] verdict = "retry" -> "none"
    [] OTHER -> verdict

Settlement(r, verdict, completed, payload) ==
  LET eff == Effective(r, verdict, completed)
  IN [Unclaimed(r) EXCEPT
        !.state = TransportState(eff[1]),
        !.due = eff[1] # "retry",
        !.result = CASE ~completed -> @
                     [] completed /\ payload = "none" -> "stub"
                     [] OTHER -> payload,
        !.terminal = TerminalOf(eff[1]),
        !.error = eff[2]]

(***************************************************************************)
(* The job's part of _apply_once: its terminal, written in the same        *)
(* transaction as the World rows and the revision.                         *)
(***************************************************************************)
AppliedRow(r, verdict) ==
  [Unclaimed(r) EXCEPT !.state = verdict, !.terminal = verdict,
                       !.error = "none"]
=============================================================================
