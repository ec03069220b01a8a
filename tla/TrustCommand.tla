---------------------------- MODULE TrustCommand ----------------------------
(***************************************************************************)
(* A person changes the World by commands.  A host prepares a request from *)
(* what it shows, bound to the World revision and, for a deletion, to the  *)
(* context a preview would clear, and submits it under an id it chooses.   *)
(* CommandStore.submit stores the command, its effect and its receipt in   *)
(* one transaction, and answers a repeated request from the receipt.  Once *)
(* a deletion has committed, the same call, or a later retry, tries to get *)
(* the deleted bytes out of the database file: checkpoint, VACUUM,         *)
(* checkpoint, and a row that says whether that worked.  Calls are         *)
(* repeated, lose their reply, fail and die between any two steps.         *)
(***************************************************************************)
EXTENDS Naturals, FiniteSets

CONSTANTS CommandIds,    \* command ids
          Items,         \* World items
          Callers,       \* threads and processes that call the service
          Readers,       \* connections that may keep a snapshot open
          MaxRevision,   \* bound: changes of the World
          MaxContext,    \* bound: interactions that copy an item
          MaxRequests,   \* bound: the requests prepared, over all ids
          Removed, NoScope, NoReceipt, NoId

ASSUME BoundAssumption == {MaxRevision, MaxContext, MaxRequests} \subseteq Nat
ASSUME RemovedAssumption == Removed \notin Nat
ASSUME NoScopeAssumption == NoScope \notin Nat
ASSUME NoIdAssumption == NoId \notin CommandIds

VARIABLES item,       \* each World item: the revision that last changed it
          context,    \* its copies in interactions and Evidence; 0: none
          revision,   \* memory_state.revision
          command,    \* trust_command with its trust_command_receipt
          status,     \* trust_delete_storage_status.state
          wal,        \* whether the database has a write-ahead log
          bytes,      \* how far the bytes a deletion removed are gone
          readers,    \* the connections with an open snapshot
          cleanup,    \* the cleanup a host is in
          sent,       \* the requests prepared under an id
          told,       \* history: the receipts answered, with the request
          effects     \* history: how often a command took effect

world == <<item, context, revision>>
storage == <<status, bytes>>
trustVars == <<world, command, storage, wal, readers, cleanup, sent, told, effects>>

Request == [op: {"edit", "delete"}, target: Items, expected: Nat,
            scope: Nat \cup {NoScope}, seen: Nat \cup {Removed}]
Row == [request: Request, before: Nat, after: Nat,
        result: {"applied", "no_change", "rejected", "revision_conflict"}]

ASSUME NoReceiptAssumption == NoReceipt \notin Row

(* The bytes may be in the file or the log (written), on pages the log has *)
(* zeroed in the file, or out of pages that so far only the log replaces.  *)
Traces == {"none", "written", "zeroed", "rewritten", "gone"}

Cleanup == [at: {"idle", "first", "vacuum", "second", "record"}, id: CommandIds \cup {NoId},
            by: {"submit", "retry"}, outcome: {"pending", "complete"}]
Idle == [at |-> "idle", id |-> NoId, by |-> "submit", outcome |-> "pending"]
Cleaning(c, operation) == [Idle EXCEPT !.at = "first", !.id = c, !.by = operation]

TrustInit ==
  /\ item = [i \in Items |-> 0] /\ context = [i \in Items |-> 0] /\ revision = 0
  /\ command = [c \in CommandIds |-> NoReceipt]
  /\ status = [c \in CommandIds |-> "none"] /\ bytes = [c \in CommandIds |-> "none"]
  /\ wal \in BOOLEAN /\ readers = {}
  /\ cleanup = [h \in Callers |-> Idle]
  /\ sent = [c \in CommandIds |-> {}] /\ told = [c \in CommandIds |-> {}]
  /\ effects = [c \in CommandIds |-> 0]

At(h, place) == cleanup[h].at = place
Enter(h, k) == cleanup' = [cleanup EXCEPT ![h] = k]
Goto(h, place) == Enter(h, [cleanup[h] EXCEPT !.at = place])

(* A rollback journal lets nobody write beside a reader. *)
CanWrite == wal \/ readers = {}

(* A receipt is the answer to r. A lost reply leaves the host no wiser, and *)
(* the request as good to repeat as before.                                *)
Tell(c, r, receipt) ==
  told' = [told EXCEPT ![c] = @ \cup {[receipt EXCEPT !.request = r]}]

-----------------------------------------------------------------------------
(* The request.                                                            *)

(* What can be asked, seeing the database as it is: a preview shows the    *)
(* item, the revision and the context in one read transaction.             *)
Offered(i) ==
  LET ask(o, s) == [op |-> o, target |-> i, expected |-> revision, seen |-> item[i],
                    scope |-> s]
  IN {ask("edit", NoScope), ask("delete", NoScope), ask("delete", context[i])}

(* A first request under an id, or another one under a used id. *)
Prepare(c) ==
  /\ \E i \in Items : \E r \in Offered(i) :
       r \notin sent[c] /\ sent' = [sent EXCEPT ![c] = @ \cup {r}]
  /\ Cardinality({p \in CommandIds \X UNION {sent[d] : d \in CommandIds} : p[2] \in sent[p[1]]}) < MaxRequests
  /\ UNCHANGED <<world, command, storage, wal, readers, cleanup, told, effects>>

(* Mutant of InScope: a deletion without a preview has no scope to check. *)
Unpreviewed(r) == r.scope \in {NoScope, context[r.target]}

(* The tentative deletion clears the context the preview was bound to.     *)
InScope(r) == context[r.target] = IF r.scope = NoScope THEN 0 ELSE r.scope

(* What the mutation may come to: validation and formation in progress     *)
(* reject, and the guard of a deletion rejects when its scope has changed. *)
Results(r) ==
  {"rejected"}
    \cup {x \in {"applied", "no_change"} : r.op = "edit" /\ item[r.target] # Removed}
    \cup {x \in {"applied", "no_change"} :
            r.op = "delete" /\ InScope(r) /\ (x = "applied" <=> item[r.target] # Removed)}

Current(r) == r.expected = revision

(* The effect of the command on the World, and the revision it leaves. *)
Effect(c, r, result) ==
  IF result = "applied"
  THEN /\ revision < MaxRevision
       /\ revision' = revision + 1
       /\ item' = [item EXCEPT ![r.target] = IF r.op = "delete" THEN Removed ELSE revision + 1]
       /\ context' = [context EXCEPT ![r.target] = IF r.op = "delete" THEN 0 ELSE @]
       /\ effects' = [effects EXCEPT ![c] = @ + 1]
  ELSE UNCHANGED <<world, effects>>

Deleted(r, result) == r.op = "delete" /\ result = "applied"

(* A deletion leaves its bytes in the log, or on zeroed pages. *)
Leave(c, r, result) ==
  IF Deleted(r, result)
  THEN /\ status' = [status EXCEPT ![c] = "pending"]
       /\ bytes' = [bytes EXCEPT ![c] = IF wal THEN "written" ELSE "zeroed"]
  ELSE UNCHANGED storage

(* Mutant of SameRequest: the id alone tells a repeated request. *)
SameId(c, r) == TRUE

(* The stored request_hash against the hash of this request. *)
SameRequest(c, r) == command[c].request = r

(* submit: one BEGIN IMMEDIATE transaction. *)
Submit(h, c) ==
  /\ At(h, "idle") /\ CanWrite
  /\ \E r \in sent[c] :
       \/ /\ command[c] # NoReceipt
          /\ SameRequest(c, r)
          /\ Tell(c, r, command[c])
          /\ UNCHANGED <<world, command, storage, cleanup, effects>>
       \/ /\ command[c] = NoReceipt
          /\ \E result \in IF Current(r) THEN Results(r) ELSE {"revision_conflict"} :
               /\ Effect(c, r, result)
               /\ Leave(c, r, result)
               /\ LET receipt == [request |-> r, result |-> result,
                                  before |-> revision, after |-> revision']
                  IN command' = [command EXCEPT ![c] = receipt] /\ Tell(c, r, receipt)
               /\ IF Deleted(r, result) THEN Enter(h, Cleaning(c, "submit")) ELSE UNCHANGED cleanup
  /\ UNCHANGED <<wal, readers, sent>>

-----------------------------------------------------------------------------
(* Getting rid of the bytes: each step may also fail, or be the last one   *)
(* before the process dies; the state row then stays as it is.             *)

Stop(h) ==
  /\ ~At(h, "idle")
  /\ Enter(h, Idle)
  /\ UNCHANGED <<world, command, storage, wal, readers, sent, told, effects>>

(* retry_storage_cleanup reads the state and starts the same steps. *)
Retry(h, c) ==
  /\ At(h, "idle")
  /\ status[c] = "pending"
  /\ Enter(h, Cleaning(c, "retry"))
  /\ UNCHANGED <<world, command, storage, wal, readers, sent, told, effects>>

(* wal_checkpoint(TRUNCATE): the log goes into the file and is emptied. *)
Checkpointed ==
  [c \in CommandIds |-> IF bytes[c] = "written" THEN "zeroed"
                        ELSE IF bytes[c] = "rewritten" THEN "gone" ELSE bytes[c]]

(* VACUUM writes every page that is in use anew: into the log, if any. *)
Rewritten ==
  [c \in CommandIds |-> IF bytes[c] \in {"written", "zeroed"}
                        THEN IF wal THEN "rewritten" ELSE "gone"
                        ELSE bytes[c]]

(* busy_timeout is 0: one reader is enough to leave the deletion pending.  *)
Checkpoint(h, next) ==
  IF readers = {}
  THEN bytes' = Checkpointed /\ Enter(h, next)
  ELSE UNCHANGED bytes /\ Goto(h, "record")

First(h) ==
  /\ At(h, "first")
  /\ IF wal THEN Checkpoint(h, [cleanup[h] EXCEPT !.at = "vacuum"])
            ELSE UNCHANGED bytes /\ Goto(h, "vacuum")
  /\ UNCHANGED <<world, command, status, wal, readers, sent, told, effects>>

Succeeded(h) == [cleanup[h] EXCEPT !.at = "record", !.outcome = "complete"]

(* Mutant of Vacuum: rewriting the pages is taken for the end. *)
VacuumIsEnough(h) ==
  /\ At(h, "vacuum") /\ CanWrite
  /\ bytes' = Rewritten
  /\ Enter(h, Succeeded(h))
  /\ UNCHANGED <<world, command, status, wal, readers, sent, told, effects>>

Vacuum(h) ==
  /\ At(h, "vacuum") /\ CanWrite
  /\ bytes' = Rewritten
  /\ IF wal THEN Goto(h, "second") ELSE Enter(h, Succeeded(h))
  /\ UNCHANGED <<world, command, status, wal, readers, sent, told, effects>>

Second(h) ==
  /\ At(h, "second")
  /\ Checkpoint(h, Succeeded(h))
  /\ UNCHANGED <<world, command, status, wal, readers, sent, told, effects>>

(* The UPDATE: a retry only turns a pending state, the submission any. *)
RecordOutcome(h) ==
  /\ At(h, "record") /\ CanWrite
  /\ LET c == cleanup[h].id
         retry == cleanup[h].by = "retry"
     IN /\ status' = IF retry /\ status[c] # "pending" THEN status
                     ELSE [status EXCEPT ![c] = cleanup[h].outcome]
        /\ IF retry THEN Tell(c, command[c].request, command[c]) ELSE UNCHANGED told
  /\ Enter(h, Idle)
  /\ UNCHANGED <<world, command, bytes, wal, readers, sent, effects>>

-----------------------------------------------------------------------------
(* Everybody else.                                                         *)

GetReceipt(c) ==
  /\ command[c] # NoReceipt
  /\ Tell(c, command[c].request, command[c])
  /\ UNCHANGED <<world, command, storage, wal, readers, cleanup, sent, effects>>

(* A formation job changes an item, or something else. *)
Form ==
  /\ revision < MaxRevision /\ CanWrite
  /\ revision' = revision + 1
  /\ item' \in {item} \cup {[item EXCEPT ![i] = revision + 1] : i \in {k \in Items : item[k] # Removed}}
  /\ UNCHANGED <<context, command, storage, wal, readers, cleanup, sent, told, effects>>

(* Accepting a turn copies an item beside new Evidence: no new revision. *)
Copy(i) ==
  /\ item[i] # Removed /\ context[i] < MaxContext /\ CanWrite
  /\ context' = [context EXCEPT ![i] = @ + 1]
  /\ UNCHANGED <<item, revision, command, storage, wal, readers, cleanup, sent, told, effects>>

Hold(d) ==
  /\ readers' = IF d \in readers THEN readers \ {d} ELSE readers \cup {d}
  /\ UNCHANGED <<world, command, storage, wal, cleanup, sent, told, effects>>

TrustNext ==
  \/ \E h \in Callers, c \in CommandIds : Submit(h, c) \/ Retry(h, c)
  \/ \E h \in Callers : First(h) \/ Vacuum(h) \/ Second(h) \/ RecordOutcome(h) \/ Stop(h)
  \/ \E c \in CommandIds : Prepare(c) \/ GetReceipt(c)
  \/ \E d \in Readers : Hold(d)
  \/ \E i \in Items : Copy(i)
  \/ Form

TrustSpec == TrustInit /\ [][TrustNext]_trustVars

-----------------------------------------------------------------------------
(* Properties.                                                             *)

TrustTypeOK ==
  /\ item \in [Items -> Nat \cup {Removed}] /\ context \in [Items -> Nat] /\ revision \in Nat
  /\ command \in [CommandIds -> Row \cup {NoReceipt}]
  /\ status \in [CommandIds -> {"none", "pending", "complete"}]
  /\ bytes \in [CommandIds -> Traces]
  /\ wal \in BOOLEAN /\ readers \subseteq Readers
  /\ cleanup \in [Callers -> Cleanup]
  /\ sent \in [CommandIds -> SUBSET Request] /\ told \in [CommandIds -> SUBSET Row]
  /\ effects \in [CommandIds -> Nat]

(* However often a request is repeated, by whom, and whatever became of    *)
(* its replies: the host gets the one receipt, of its own request, and the *)
(* command has taken effect once if the receipt says applied, else never.  *)
AnswersAreTrue ==
  \A c \in CommandIds : \A t \in told[c] :
    /\ t = command[c]
    /\ effects[c] = IF t.result = "applied" THEN 1 ELSE 0

(* A command changes nothing its owner has not seen: the item is as it was *)
(* shown and, when it is erased, so is the context that goes with it.      *)
NothingUnseen ==
  [][\A c \in CommandIds : effects'[c] # effects[c] =>
       LET r == command'[c].request
       IN /\ r.seen = item[r.target]
          /\ r.op = "delete" => context[r.target] \in {0, r.scope}]_trustVars

(* The receipts of the commands that took effect form one line: each moved *)
(* the World from a revision no other one did, to the next.                *)
CommandsInLine ==
  \A c, d \in {k \in CommandIds : command[k] # NoReceipt} :
    command[c].result = "applied" =>
      /\ command[c].after = command[c].before + 1 /\ command[c].after <= revision
      /\ command[d].result = "applied" /\ command[c].before = command[d].before => c = d

(* Repeated and concurrent requests leave one line of effects, and every   *)
(* answer tells its place in that line.                                    *)
AnswersInLine == AnswersAreTrue /\ CommandsInLine

(* A deletion is called complete only when no byte of it is left, in the   *)
(* file or in its log.                                                     *)
CompleteMeansGone == \A c \in CommandIds : status[c] = "complete" => bytes[c] = "gone"

=============================================================================
