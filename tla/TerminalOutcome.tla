--------------------------- MODULE TerminalOutcome ---------------------------
(***************************************************************************)
(* The terminal_outcome table as an outbox: TerminalOutcomeStore hands a   *)
(* settled job's outcome to the hosts under a lease and a token, until one *)
(* host acknowledges it or MaxAttempts claims have failed.  Every method   *)
(* is one short BEGIN IMMEDIATE transaction; claim_terminal_outcomes is    *)
(* two, and ack and heartbeat read the clock before they wait for the      *)
(* write lock.  A host is external: it shows what it claimed, then         *)
(* acknowledges it.                                                        *)
(***************************************************************************)
EXTENDS Naturals, FiniteSets

CONSTANTS Outcomes,      \* the outcome_ids that may be persisted
          Hosts,         \* claimants: a provider in a host process
          MaxAttempts,   \* DELIVERY_MAX_ATTEMPTS
          Limit,         \* the "limit" of a claim
          MaxCrashes     \* bound: host processes that die

ASSUME MaxAttemptsAssumption == MaxAttempts \in Nat \ {0}
ASSUME LimitAssumption == Limit \in Nat \ {0}
ASSUME MaxCrashesAssumption == MaxCrashes \in Nat

VARIABLES delivery,   \* the delivery columns of each outcome's row
          host,       \* what each host remembers of each outcome
          calling,    \* the host is between the transactions of a claim
          crashes,
          shownIn     \* history: the attempts in which a host showed it

outcomeVars == <<delivery, host, calling, crashes, shownIn>>

-----------------------------------------------------------------------------
(* A claim_token is a fresh uuid4 per claim; attempts grows with every     *)
(* claim and never shrinks, so the attempt number stands for the token and *)
(* 0 for NULL.  lease_expires_at is "none", or "live" or "expired" against *)
(* the clock; next_attempt_at is "none", "later" or "due".                 *)

Absent == [state |-> "absent", attempts |-> 0, token |-> 0, lease |-> "none",
           next |-> "none", stamped |-> FALSE]

NewOutcome == [Absent EXCEPT !.state = "pending"]

OutcomeRow == [state: {"absent", "erased", "pending", "processing", "delivered", "retry", "dead"},
        attempts: Nat, token: Nat, lease: {"none", "live", "expired"},
        next: {"none", "later", "due"}, stamped: BOOLEAN]

Gone == {"absent", "erased"}
Ended == {"delivered", "dead"}

(* the state a failed claim leaves: Core chooses retry or dead *)
AfterFailure(r) == IF r.attempts >= MaxAttempts THEN "dead" ELSE "retry"

Released(r, state, next) ==
  [r EXCEPT !.state = state, !.token = 0, !.lease = "none", !.next = next]

(* Mutant of Failed: a dead outcome keeps its next attempt. *)
FailedDue(r, next) == Released(r, AfterFailure(r), next)

(* an expired claim is due at once, a refused one after its backoff *)
Failed(r, next) ==
  Released(r, AfterFailure(r), IF AfterFailure(r) = "retry" THEN next ELSE "none")

(* Mutant of Stale: any claim in flight is stale. *)
AnyProcessing(r) == r.state = "processing"
Stale(r) == r.state = "processing" /\ r.lease = "expired"

(* Mutant of Recovered: lapsed claims are not swept. *)
NotRecovered(r) == r

Recovered(r) == IF Stale(r) THEN Failed(r, "due") ELSE r

Ready(r) == r.state \in {"pending", "retry"} /\ r.next # "later"

Claimed(r) == [r EXCEPT !.state = "processing", !.attempts = @ + 1, !.next = "none",
                        !.token = r.attempts + 1, !.lease = "live"]

Delivered(r) == [Released(r, "delivered", "none") EXCEPT !.stamped = TRUE]

-----------------------------------------------------------------------------
(* What a host remembers: the token it was given, how far it got with it,  *)
(* and, while it waits for the write lock, whether the lease was live when *)
(* ack or heartbeat read the clock.                                        *)

Memory == [at: {"none", "claimed", "shown", "acking", "beating"}, token: Nat,
           intime: BOOLEAN]
Nothing == [at |-> "none", token |-> 0, intime |-> FALSE]

OutcomeInit ==
  /\ delivery = [o \in Outcomes |-> Absent]
  /\ host = [h \in Hosts |-> [o \in Outcomes |-> Nothing]]
  /\ calling = [h \in Hosts |-> FALSE]
  /\ crashes = 0
  /\ shownIn = [o \in Outcomes |-> {}]

OutcomeTypeOK ==
  /\ delivery \in [Outcomes -> OutcomeRow]
  /\ host \in [Hosts -> [Outcomes -> Memory]]
  /\ calling \in [Hosts -> BOOLEAN]
  /\ crashes \in Nat
  /\ shownIn \in [Outcomes -> SUBSET Nat]

HostAt(h, o, place) == host[h][o].at = place
Remember(h, o, m) == host' = [host EXCEPT ![h][o] = m]
Update(o, r) == delivery' = [delivery EXCEPT ![o] = r]

(* Mutant of Fenced: any claim in flight is the caller's. *)
AnyClaim(h, o, intime) ==
  delivery[o].state = "processing" /\ (delivery[o].lease = "live" \/ intime)

(* delivery_state, claim_token and lease_expires_at of the UPDATE *)
Fenced(h, o, intime) ==
  /\ delivery[o].state = "processing"
  /\ delivery[o].token = host[h][o].token
  /\ delivery[o].lease = "live" \/ intime

-----------------------------------------------------------------------------
(* persist_terminal_outcome_in_transaction, in the transaction that settles *)
(* the job; true_delete removes the row again.                             *)
Persist(o) ==
  /\ delivery[o].state = "absent"
  /\ Update(o, NewOutcome)
  /\ UNCHANGED <<host, calling, crashes, shownIn>>

(* The row goes, and the job it belonged to with it: never persisted again. *)
EraseOutcome(o) ==
  /\ delivery[o].state \notin Gone
  /\ Update(o, [Absent EXCEPT !.state = "erased"])
  /\ UNCHANGED <<host, calling, crashes, shownIn>>

(* claim_terminal_outcomes, first transaction: recover_stale. *)
Recover(h) ==
  /\ ~calling[h]
  /\ calling' = [calling EXCEPT ![h] = TRUE]
  /\ delivery' = [o \in Outcomes |-> Recovered(delivery[o])]
  /\ UNCHANGED <<host, crashes, shownIn>>

(* claim_terminal_outcomes, second transaction: up to Limit ready outcomes. *)
(* Which ones, the oldest first, is left open.  A host that still remembers *)
(* an older claim of the outcome replaces it by the new one.               *)
Claim(h) ==
  /\ calling[h]
  /\ calling' = [calling EXCEPT ![h] = FALSE]
  /\ LET ready == {o \in Outcomes : Ready(delivery[o])}
     IN  \E S \in SUBSET ready :
           /\ Cardinality(S) <= Limit
           /\ S = ready \/ Cardinality(S) = Limit
           /\ delivery' = [o \in Outcomes |->
                             IF o \in S THEN Claimed(delivery[o]) ELSE delivery[o]]
           /\ host' = [host EXCEPT ![h] =
                         [o \in Outcomes |->
                            IF o \in S
                            THEN [Nothing EXCEPT !.at = "claimed",
                                                 !.token = delivery[o].attempts + 1]
                            ELSE host[h][o]]]
  /\ UNCHANGED <<crashes, shownIn>>

(* The host shows the outcome to the person; it may be late. *)
Show(h, o) ==
  /\ HostAt(h, o, "claimed")
  /\ Remember(h, o, [host[h][o] EXCEPT !.at = "shown"])
  /\ shownIn' = [shownIn EXCEPT ![o] = @ \cup {host[h][o].token}]
  /\ UNCHANGED <<delivery, calling, crashes>>

(* ack_terminal_outcome and heartbeat_terminal_outcome compute "now" and   *)
(* then wait for the write lock.                                           *)
Read(h, o, place) ==
  /\ Remember(h, o, [host[h][o] EXCEPT !.at = place,
                                       !.intime = delivery[o].lease = "live"])
  /\ UNCHANGED <<delivery, calling, crashes, shownIn>>

AckRead(h, o) == HostAt(h, o, "shown") /\ Read(h, o, "acking")
BeatRead(h, o) == HostAt(h, o, "claimed") /\ Read(h, o, "beating")

(* The reply may be lost; the host then asks again. *)
Ack(h, o) ==
  /\ HostAt(h, o, "acking")
  /\ IF Fenced(h, o, host[h][o].intime)
     THEN Update(o, Delivered(delivery[o]))
     ELSE UNCHANGED delivery
  /\ \/ Remember(h, o, Nothing)
     \/ Remember(h, o, [host[h][o] EXCEPT !.at = "shown", !.intime = FALSE])
  /\ UNCHANGED <<calling, crashes, shownIn>>

(* A host whose heartbeat is refused has lost the claim and lets it go. *)
Beat(h, o) ==
  /\ HostAt(h, o, "beating")
  /\ IF Fenced(h, o, host[h][o].intime)
     THEN /\ Update(o, [delivery[o] EXCEPT !.lease = "live"])
          /\ Remember(h, o, [host[h][o] EXCEPT !.at = "claimed", !.intime = FALSE])
     ELSE UNCHANGED delivery /\ Remember(h, o, Nothing)
  /\ UNCHANGED <<calling, crashes, shownIn>>

(* nack_terminal_outcome reads the clock under the lock. *)
Nack(h, o) ==
  /\ HostAt(h, o, "claimed")
  /\ IF Fenced(h, o, FALSE)
     THEN Update(o, Failed(delivery[o], "later"))
     ELSE UNCHANGED delivery
  /\ Remember(h, o, Nothing)
  /\ UNCHANGED <<calling, crashes, shownIn>>

(* The host process dies and is started again, with or without the tokens  *)
(* it had stored; a call in flight is lost.                                *)
Crash(h) ==
  /\ crashes < MaxCrashes
  /\ crashes' = crashes + 1
  /\ calling' = [calling EXCEPT ![h] = FALSE]
  /\ \/ host' = [host EXCEPT ![h] = [o \in Outcomes |-> Nothing]]
     \/ host' = [host EXCEPT ![h] =
                   [o \in Outcomes |->
                      [host[h][o] EXCEPT
                         !.at = CASE @ = "acking" -> "shown" [] @ = "beating" -> "claimed"
                                  [] OTHER -> @,
                         !.intime = FALSE]]]
  /\ UNCHANGED <<delivery, shownIn>>

(* The clock. *)
Lapse(o) ==
  /\ delivery[o].lease = "live"
  /\ Update(o, [delivery[o] EXCEPT !.lease = "expired"])
  /\ UNCHANGED <<host, calling, crashes, shownIn>>

BecomeDue(o) ==
  /\ delivery[o].next = "later"
  /\ Update(o, [delivery[o] EXCEPT !.next = "due"])
  /\ UNCHANGED <<host, calling, crashes, shownIn>>

-----------------------------------------------------------------------------
Deliver(h, o) == Show(h, o) \/ AckRead(h, o) \/ Ack(h, o) \/ Beat(h, o)

OutcomeNext ==
  \/ \E o \in Outcomes : Persist(o) \/ EraseOutcome(o) \/ Lapse(o) \/ BecomeDue(o)
  \/ \E h \in Hosts :
       \/ Recover(h) \/ Claim(h) \/ Crash(h)
       \/ \E o \in Outcomes : Deliver(h, o) \/ BeatRead(h, o) \/ Nack(h, o)

OutcomeSpec == OutcomeInit /\ [][OutcomeNext]_outcomeVars

(* A host polls for outcomes and finishes what it claimed; time passes. A  *)
(* heartbeat may always come first, so showing needs strong fairness.      *)
Fairness ==
  /\ \A o \in Outcomes : WF_outcomeVars(Lapse(o)) /\ WF_outcomeVars(BecomeDue(o))
  /\ \A h \in Hosts :
       /\ WF_outcomeVars(Recover(h)) /\ WF_outcomeVars(Claim(h))
       /\ \A o \in Outcomes : SF_outcomeVars(Show(h, o)) /\ WF_outcomeVars(Deliver(h, o))

FairOutcomeSpec == OutcomeSpec /\ Fairness

-----------------------------------------------------------------------------
(* The CHECK clauses of terminal_outcome: an UPDATE that broke one would   *)
(* raise and roll back, and the outcome would stay where it is for ever.   *)
RowIsLegal ==
  \A o \in Outcomes : LET r == delivery[o] IN
    /\ IF r.state = "processing" THEN r.token > 0 /\ r.lease # "none" /\ r.next = "none"
                                 ELSE r.token = 0 /\ r.lease = "none"
    /\ r.state = "retry" <=> r.next # "none"
    /\ r.stamped <=> r.state = "delivered"

(* Every claim is counted and no outcome is given up early: a pending one  *)
(* has had no claim, a retry has attempts left (so its backoff is in the   *)
(* table of MaxAttempts - 1 entries), a dead one has had MaxAttempts.      *)
AttemptsAreCounted ==
  \A o \in Outcomes : LET r == delivery[o] IN
    /\ r.state = "pending" => r.attempts = 0
    /\ r.state = "retry" => r.attempts \in 1 .. MaxAttempts - 1
    /\ r.state = "processing" => r.attempts \in 1 .. MaxAttempts
    /\ r.state = "dead" => r.attempts = MaxAttempts

(* An outcome is delivered by the claim that is current, and that claim    *)
(* showed it: an acknowledgement of an earlier claim, late or repeated,    *)
(* never retires what a newer claimant has not shown.                      *)
DeliveredWasShown ==
  \A o \in Outcomes : delivery[o].state = "delivered" => delivery[o].attempts \in shownIn[o]

(* The person sees an outcome at most once per claim that was counted. *)
ShownAreCounted ==
  \A o \in Outcomes :
    delivery[o].state \notin Gone => shownIn[o] \subseteq 1 .. delivery[o].attempts

(* What the outbox counts and retires is what a person has seen. *)
DeliveryIsTrue == DeliveredWasShown /\ ShownAreCounted

(* A claim in its lease ends only by its holder's own call, or erasure.    *)
ClaimIsExclusive ==
  [][\A o \in Outcomes :
       /\ delivery[o].state = "processing" /\ delivery[o].lease = "live"
       /\ delivery'[o].token # delivery[o].token
       => \/ delivery'[o].state = "erased"
          \/ \E h \in Hosts : host[h][o].token = delivery[o].token
                              /\ host'[h][o] # host[h][o]]_outcomeVars

(* What was delivered or given up stays so: no late call of an old claim   *)
(* moves it again.                                                         *)
EndIsFinal ==
  [][\A o \in Outcomes :
       delivery[o].state \in Ended =>
         delivery'[o] = delivery[o] \/ delivery'[o].state = "erased"]_outcomeVars

(* Every outcome is delivered, or given up after MaxAttempts, although     *)
(* hosts crash with claims in hand.                                        *)
EveryOutcomeEnds ==
  \A o \in Outcomes :
    delivery[o].state \notin Ended \cup Gone
      ~> delivery[o].state \in Ended \cup Gone
=============================================================================
