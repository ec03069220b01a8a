# A verification of MemoWeft's core

MemoWeft keeps, beside an agent, a memory of the person it talks to. What the person said is stored as
**Evidence**; background workers interpret it with a model call and form **World** items from it; hosts recall
those items, report what became of a message, ask the person when something is unclear, and let the person review,
correct, forget or erase. This directory holds TLA+ specifications of that core, the TLC configurations that check
them on small instances, and TLAPS proofs about them for all instances.

Paths below are relative to the repository root (`src/` in `PROJECT.json`); `hermes/`, `trust/` and `dsh_bridge/` are
under `py/src/memoweft/integrations/`, `world/`, `portable/` and `store/` under `py/src/memoweft/`.

## 1. The system

All durable state is one SQLite file. Several processes (a Hermes provider, a DSH bridge, an owner's console) open
it; inside a process there are a worker thread, a heartbeat thread, a timer and the host's threads. Everything that
writes does so in a `BEGIN IMMEDIATE` transaction, so the unit of atomicity, and of a step in every module here, is
one transaction; the hard behaviour lies **between** transactions: leases that lapse, processes that die, replies
that are lost, model answers that come late, reviews that wait, bundles that come from an older world, and owners who
erase what somebody else has just read.

| component | state it keeps | operations | talks to | module |
| --- | --- | --- | --- | --- |
| World job worker (`hermes/world_worker.py`, `worker_lifetime.py`) | `memory_world_job` rows: state, attempts, lease, token, generation, dispatch marker, checkpoint | recover, claim, heartbeat, mark, process, settle, shutdown | adapter, outcome table, OS lock file | JobRow, WorldJob, Formation |
| Formal batch adapter (`hermes/batch_adapter.py`, `name_correction.py`) | the checkpoint in the job row; people, facts, relationships, events of the World | load, dispatch, persist, reserve a rewrite, compile, apply; merge, rename, reconcile | model, worker, World | WorldJob (control), WorldBatch (the items of an answer) |
| World items and forgetting (`hermes/state_evolution.py`, `trust/true_delete.py`, `forget_preview.py`) | items, provenance links, `cognition_transitions`, tombstones | form, correct, contradict, retract, soft forget, erase Evidence, erase item with history | adapter, commands | WorldVersions |
| Terminal outcome outbox (`hermes/terminal_outcome.py`) | `terminal_outcome` delivery columns | claim, heartbeat, ack, nack, recover | hosts | TerminalOutcome |
| Clarification (`trust/clarification_service.py`) | `clarification` rows, follow-up jobs | open, answer, answer_latest_for_session, resolve | worker, hosts | Clarification |
| Trust commands (`trust/command_store.py`, `forget_scope.py`, `revision.py`) | `trust_command`, receipts, storage status, the revision | submit, get_receipt, retry_storage_cleanup | hosts, SQLite's log | TrustCommand |
| Observed evidence (`dsh_bridge/observed.py`) | `observed_source` rows | upsert, update permissions, retract | hosts, Evidence | ObservedEvidence |
| Interactions, commitments, DSH bridge (`store/interaction_context.py`, `dsh_bridge/interactions.py`, `__init__.py`, `protocol_v2.py`) | `interaction_context`, commitments, kept answers | accept and deliver, link, erase, ask | hosts, Evidence, World | Interactions |
| Reviewed memory loop (`world/loop.py`, `turn_meaning.py`, `evolution.py`) | `memory_state`, reviews, accepted steps, receipts | stage (nine ways), decide, select claims | owner, adapters | AdapterContract, TurnMeaning, MemoryLoop |
| Identity review (`world/identity_review.py`, `identity_store.py`, `entity_resolution.py`) | the ledger row: reviews, bindings, redirects, tombstones, times; a copy per process | stage and decide a bind, alias, merge, split; resolve | owner, memory loop | EntityReference, IdentityReview |
| Portable bundles (`portable/`, `trust/portable_service.py`) | the whole database, plans, receipts | export, plan, apply | another host of the same owner | PortableSync |
| Interpretation, recall, queries, semantic index, stores, TypeScript core, adapters, applications | see `PROJECT.json` | | | not modelled; reasons in section 8 |

For each modelled component, what is hard and what makes it correct:

* **Worker.** A claim, its currentness check and the marker of the model call are separate transactions. The process
  may die, or be shut down, between any two; its lease may lapse while the model answers. Correct: a model call is
  not repeated unless the route opted in, the World is changed once and together with the job's terminal, nothing is
  formed from withdrawn Evidence, and every job ends.
* **Answers with several items.** Each item is written against what the items before it wrote; people are made on
  first mention, merged and renamed, and what is known of them moves along to identities that may be taken. Correct:
  a fact has its people, words leave with their source, one relationship of a type stands, an applied answer says
  all it says.
* **World versions.** An answer read against one World is applied to a later one; identities are derived from
  content, so a value that returns meets its own past. Correct: provenance is complete after any erasure, histories
  stay lines, what is outdated stays marked, a forget takes what its preview showed.
* **Outbox.** A host shows an outcome and only then acknowledges it, possibly late, twice, or not at all. Correct:
  nothing is retired that was not shown, no live claim is taken, every outcome is delivered or given up.
* **Clarification.** Question, answer, follow-up job and the answer's Evidence are rows of different transactions of
  different actors. Correct: they never drift apart, no question is lost, a receipt tells what was stored.
* **Trust commands.** Replies are lost and requests repeated, under the same id, by other processes; deletion is a
  commit followed by a storage cleanup that readers and crashes interrupt. Correct: one receipt and one effect per
  request, nothing acted on unseen, "complete" only when no byte is left.
* **Observed evidence.** Versions, permission decisions and withdrawals are times of the host's choosing and arrive in
  any order. Correct: only the current version is left, an older decision never widens, what the owner forgot does
  not return.
* **Interactions.** A reply rests on messages, items and other replies, linked at delivery or later; a delivery is
  two transactions; the bridge keeps answers for repeated requests. Correct: erasing reaches all that rests on what
  is erased, at any distance; a model is shown a turn exactly when everything under it may be shown.
* **Memory loop.** Several reviews wait, each staged against a World that the next decision changes; every reader
  validates the whole accepted history again. Correct: only what was shown is written, as a whole or by claims that
  can stand alone, and no legal sequence of decisions makes the history unreadable.
* **Identity review.** Processes work on copies of one row; merges of merges and splits of survivors; contexts kept
  across changes. Correct: the row always loads, no decision is lost, a retired name leads to one who lives.
* **Portable bundles.** A bundle may be older than a deletion; a plan waits while the host moves on; erased and live
  copies arrive in either order. Correct: deletion survives every import, records come with their sources, what is
  applied is what was shown.

## 2. The modules

`MCx.tla` with its `.cfg` files instantiates module `x` for TLC; `xProofs.tla` holds its theorems, and `HostProofs.tla`
those of TerminalOutcome, Clarification, ObservedEvidence and TrustCommand, the modules of what a host calls. No module
declares a RECURSIVE operator: what the code does in loops and recursions is a recursive function, so every module can be proved about.

### JobRow, WorldJob, Formation

`JobRow` is one row of `memory_world_job` and one operator per UPDATE statement of `WorldJobStore`: `Claimed`,
`Interrupted` (recovery), `Swept` (the cleanup in `claim_one`), `Settlement`, `AppliedRow`, `ErasedRow`. `WorldJob`
runs them in the order the threads do. A worker's `thread[w].at` is the statement it is at: `top`, `locked`,
`validate`, `beat`, `ready`, `mark` (`_process_claim`), `load`, `dispatch`, `await`, `persist`, `compile`, `reserve`,
`rewrite`, ..., `apply` (the processor), `settle`. Every transaction is one action, the model call is two (`Dispatch`,
`Answer` or `RouteFails`), and the actions of others (`Clock`, `Crash`, `BeginShutdown` and `Shutdown`, `Permit`, `Erase`) come between.
`Abandon` is a database error no handler catches, `ProcessorRaises` one that `_process_claim` catches and settles.

Time appears as what SQL compares it with: `lease` is live or expired, `due` is reached or not. A claim token is
named by the generation it was drawn in.

`Formation` is the abstract promise: a job is open until it gets one terminal, the model is asked once unless
repeatable, the World changes at most once, from a response already on disk and together with the terminal.
`WorldJob!F` instantiates it with a refinement mapping that reads status, saved, asked and world off the rows.

### WorldVersions

`Items` are named as `state_evolution.py` names them: by content, and by content and source for a recurrence. `Interpret`
is the interpretation of a source against the items on offer, `Apply` the later transaction of `_apply_once` with
`State`, `Supersede`, `Correct`, `Contradict` and `Retract` as the writes; the owner's `OwnerCorrects` and `OwnerRetracts`,
the soft `Forget`, `EraseEvidence`, and `Preview` followed by `Execute`, the confirmed forget. One kind of content, one
target entity, one item per answer: the history of a single fact in depth.

### WorldBatch

The breadth: an answer is a sequence of items, `Interpret(e)` compiles and stores it, `Apply(e)` folds `Step` over it
in one transaction, and any item that raises fails the whole. `Written(w, i, e)` is what one item does: `FormNaming`,
`FormAttribute`, `FormRelationship` (with `SingleNoMore`, which takes back what the owner said of being single),
`FormEvent`, the corrections, `RetractIt`, `Contradict`, `Merge` (an alias item joins two people and moves what is
known of one), `Rename` (`name_correction.py`). `Refused` holds the checks that raise. Entities, rows, transitions and
supports are functions of the record `world`, with rows named by content as the code hashes them.
`Forget` and `Erase` are the Evidence's end.

### TerminalOutcome

`delivery[o]` is the row's delivery columns, `host[h][o]` what a host remembers. `claim_terminal_outcomes` is two
transactions (`Recover`, `Claim`); `ack` and `heartbeat` read the clock first and wait for the lock, so the moment is
split: `AckRead` and `BeatRead` read the clock, `Ack` and `Beat` are the transactions that follow, late or not. The
token is the attempt number. `shownIn` is a history variable.

### Clarification

Jobs are named `<<boundary, n>>`, the n-th follow-up of a boundary, because the code derives the follow-up's event id
from the clarification and the clarification's from its job. `Settle` is the worker's settlement, which resolves and
opens clarifications in its transaction; `Choose` and `Answer` are the two transactions of
`answer_latest_for_session`; `Erase` is `delete_evidence` on either end. A host may lose a reply and call again.

### TrustCommand

`Submit` is the transaction of `submit` with `Results` (what the mutation and the scope guard may come to) and
`Effect`; `First`, `Vacuum`, `Second`, `RecordOutcome` are the steps of the cleanup after the commit, which a crash (`Stop`)
can leave at any point and `Retry` can enter from another process. `bytes[c]` says how far a deletion's bytes are
gone: written in log and file, zeroed, rewritten by VACUUM into the log, gone. `Hold` is a reader that keeps the log
from being truncated. SQLite itself (locks, secure_delete, checkpoint, VACUUM) is external and modelled by what the
code relies on. What a command does to an item is the item's version; `WorldVersions` has the rest.

### ObservedEvidence

Any message may arrive at any time, so lateness, loss, duplication and reordering need no channel: `Upsert(v, x, p)`,
`Permit(v, p)` and `Retract(w)` are the three branches of `ObservedService.execute`, enabled whenever the code does
not raise. `Forget`, `Erase`, `Allow` are the owner's commands on the Evidence. An Evidence id is a pair of version
and payload, which is what the code hashes.

### Interactions

`Accept(k)` is the acceptance transaction of a delivery (Evidence and its jobs) and `Store(k)` the second one, which
writes the turns or finds the stored copy again; `Crash` comes between them. `Link` is a later capture of what a reply
rests on, `DeleteEvidence` and `EraseConversation` what erasing wipes: the least set of rows tainted through the
links (`Tainted`, one step is `TaintedOnce`), with `Redacted` and `CommitmentsLeft`. `Ask` keeps an answer, and
`Counted` and `Quiet` say which requests clear the kept answers. `Walk` is the visit that decides what a model is
shown, with its depth and node limits and its memo, as `interactions.py` makes it: a function of the depth, in which
`Visit` is what happens at one row and `Children` goes through the captures of its replies.

### AdapterContract, TurnMeaning, MemoryLoop

`AdapterContract` says when a signed display is the display of this change of this World: five kinds (correction,
evaluation, statement, entity, object), each contract written out as the code writes it, with the `...IsCurrent` checks
made against today's World. Its assumption says what the records are: a relationship is between entities, and a
cognition is about exactly one entity or relationship (`world/model.py`, `MemoryTarget`; cognitions about the owner, the
World or an event are left out). `TurnMeaning` is `turn_meaning.py`: from what a turn says to a plan and to the change the
adapter signs (`CompileTurn`, `CompileCorrection`). `MemoryLoop` is the store: `StageAddition`, `StageCorrection`,
`StageBundle`, `StageSignedBundle`, `StageSuccessor`, `StageEvolution`, `StageTypedCorrection`, `StageTurn` put a
review into `reviews`; `Reject`, `AcceptWhole` and `AcceptClaims` are the branches of `decide`. `Fits` is the validation
of a delta, `Readable` that of an accepted step, which every reader repeats for the whole history.

### EntityReference, IdentityReview

`EntityReference!Meaning` is the resolver: for each form of words (name, kin word, description, pronoun, possessive)
the rule that decides, and one, several or no entity. `IdentityReview` has the row of the ledger, `world` (the
graph and its generation), and a copy per host: `Stage...`, `Decide`, `Reject` work on the copy and write by
compare-and-swap (`Commit`, `Swap`, `Refresh`); `Accept` is an accepted World change, which rewrites the row (`Sync`);
`Resolve` hands out a context. `Restorable` is what loading a row checks, the dates of decisions included. That no record
names one entity at two places (`Distinct`) is asked of the result of a merge or a split only (`PreviewFits`); an accepted
World change is checked for its shape (`ShapeFits`) and may bring such a record, on which merges and splits then fail.

### PortableSync

Each host is a record `db[h]` of Evidence rows, items, lifecycle, copies of contexts, tombstones and receipts. `Export`
makes a bundle, which stays in the set `bundles` for ever: lateness and repetition need nothing more. `Plan` computes
a plan and shows it, `Apply` plans again and writes when the same plan comes out, in the order of the importer:
rows (`WriteRows`), contexts one after another (`WriteContexts`), tombstones. `Clash`, `Unresolved` and `Suppressed`
are the importer's refusals. Everything a host does on its own (`Observe`, `Form`, `Revise`, `Mute`, `Record`,
`Forget`, `Erase`, `EraseConversation`) comes between.

Two things a host holds are never in a bundle: the assistant's words kept with an Evidence (`lead`, the column
`preceding_ai_context`, which `validate.py:366` refuses) and the promises of a conversation (`owed`, `interaction_commitment`).
An import changes them all the same, because erasing a copy redacts what was made from it (`Redacted`, from
`true_delete.py:480-529`): copies of copies, the words that name them, the promises made in them. None of this is in the
plan the owner is shown. So `ApplyIsThePlan` has a part for the rows, which are exactly the plan's (`RowsAreThePlan`), one for
the copies (`CopiesFollow`) and one for words and promises (`QuotesFollow`), which say of every further change which
erased copy it comes from, and that nothing that rests on such a copy stays.

## 3. The runs

| run | instance | states | properties |
| --- | --- | --- | --- |
| `worldjob_once` | 1 job, 2 mortal workers, remote model, 2 attempts, 3 generations, 1 fault, leases lapse freely | 1.43 M | EffectsAreOnce, SettlementIsLegal, ErasedLeavesNothing, ClaimsHold, NothingFromWithdrawnEvidence |
| `worldjob_settles` | 1 job, a local mortal worker and a remote surviving one that repeats inferences, 5 generations, punctual heartbeats | 167 k | EveryJobSettles under fairness, ImplementsFormation |
| `outcome` | 1 outcome, 2 hosts, all 4 attempts, 2 crashes | 87 k | RowIsLegal, DeliveryIsTrue, ClaimIsExclusive, EveryOutcomeEnds |
| `clarification` | 1 boundary whose jobs ask up to three times, 2 calls, 2 texts, 1 lost reply | 16 k | ChainIsCoherent, KeptUntilErased, ReceiptIsTrue, EveryAnswerResolves |
| `versions` | 3 sources, 2 values | 295 k | HistoryIsALine, ProvenanceHolds, OutdatedStaysMarked, ForgettingIsExact |
| `trust` | 2 command ids, 2 items, 2 hosts, 1 reader, 2 revisions, 1 context version, 2 requests per id | 1.3 M | AnswersInLine, CompleteMeansGone, NothingUnseen |
| `observed` | 4 times, 2 payloads, 2 permission flags | 66 k | OnlyTheCurrentVersion, OwnersWordStands, OlderNeverWidens |
| `loop` | 2 people, 3 relationships (one ended), 3 cognitions to begin with, 2 Evidence, 2 texts, 2 reviews | 450 k | RecordStands, WellFormed, CompilerKeepsContract, AcceptanceIsExact |
| `identity` | the owner and 4 people (2 to begin with), 3 records, 3 mentions, 2 hosts, 2 reviews, 3 times, 1 World change of 2 (one names a person twice) | 110 k | EveryRowLoads, ContextsMean, LedgerGrows |
| `portable` | 2 hosts, one importing, 4 Evidence (one with words before it), 3 items, 4 contexts, 1 conversation with a promise, 3 bundles | 218 k | SourcesStand, DeletionWins, ImportsAreExact |
| `interactions` | 2 Evidence, 1 item, 3 episodes in 2 conversations, depth limit 2, node limit 3, 1 act of another process | 138 k | ErasureHolds, VisibleIffGrounded, TurnsHold |
| `batch` | 4 Evidence, 3 names, answers of one to several items, 2 waiting at a time, 1 loss | 739 k | WorldIsWhole, AnswersHold |

A property may have parts with names of their own: `EffectsAreOnce` is `OneDispatch`, `OneRewrite` and `AppliedOnce`;
`ClaimsHold` is `CheckpointAdvances` and `LiveHolderKeepsClaim`; `DeliveryIsTrue` is `DeliveredWasShown` and
`ShownAreCounted`; `KeptUntilErased` is `EveryQuestionIsKept` and `ErasedLeavesNoRecord`; `ForgettingIsExact` is
`ForgetIsAsPreviewed`, `WholeHistoryGoes` and `ReadersSettleFirst`; `RecordStands` is `AcceptedReadable`,
`HistoryIsALine`, `ReceiptsHold` and `ShownIsStored`; `WellFormed` includes `ClaimsStandTogether`; `DeletionWins` is
`DeletionIsMonotone` and `ErasedCopyWins`; `SourcesStand` is `NothingErasedLives` and `CoreIsRooted` with the types;
`ImportsAreExact` is `ApplyIsThePlan` and `NothingTwice`; `ErasureHolds` is
`ErasureReachesEverything` and `AnswersForget`; `WorldIsWhole` is `FactsHaveTheirPeople`,
`WordsLeaveWithTheirSource` and `OneOfAKind` with the types. Type invariants are part of an invariant of the same run or
are implied by one.

Each property is there because a plausible change of the code breaks it: `PROJECT.json` names one such change per
property, and the operator that makes it stands, commented as a mutant, before the definition it replaces.

Why the bounds are enough. Jobs do not interact in the worker but through the pool of workers, and two workers give
every overlap of an old and a new claimant; three generations let a job be claimed, recovered, and claimed again by
a thread whose predecessor is still alive; the fault budget is one because two independent faults end the same
claim. Four attempts are the code's own constant in `outcome`. Three sources are what A, B, A needs, and what it
takes for a restatement to meet a correction and an erasure. Two requests per id with two ids and hosts give the same
request repeated, another request under a used id, and two commands racing for one revision. Four times let a
message be older than, between, equal to and later than a version and a decision. In `loop` two reviews are a stale
one and the one that made it stale, for each pair of kinds; an ended relationship is in the
initial graph because it takes a review to end one. In `identity` two decisions give a merge of a merge and a
split of a survivor; a person named twice is brought before, between and after them; the successors of a split have
names that the mentions use, because a split needs one that speaks of each. In `portable` the fourth copy was made from
the second, which is erased or comes erased in its turn, and one Evidence keeps words that name two copies, so that an
import redacts copies, words and promises its plan does not name; one importer with three bundles gives the old backup, the erased copy and the
replay; that hosts import from each other is covered by the proof, which has any number of hosts and importers. In
`interactions` three nodes are the least with a diamond whose join lies at the depth limit. In `batch` the answers are
chosen so that each kind of item meets each other kind.

Symmetry is declared where the values are interchangeable in the configuration (the Evidence and names of `batch`, hosts of
`identity`, and so on), in runs without a liveness property. Deadlock is checked in `outcome`, `trust` and `observed`;
elsewhere the system may stop when its bounds are used up (all jobs settled, all reviews decided, no more bundles).

## 4. Fairness

Safety is checked under `Spec` without fairness. Liveness uses:

* `WorldJob!FairSpec`: weak fairness of each worker's drain, kick and creation, and of each job's clock. A
  drain thread that is not interrupted runs on; the timer of `WorldJobWorker` kicks again after every settlement
  that leaves work; a model client has a timeout, so a call is answered or fails. One worker is assumed to survive:
  if every process dies for good, jobs rest in the file. Shutdown, crash, revocation and erasure are never forced.
* `TerminalOutcome!FairOutcomeSpec`: clocks advance, a surviving host keeps polling (`Recover`, `Claim`) and acknowledging,
  and **strong** fairness of showing, since a crash or a lapse can take the claim away again and again: a host that is
  handed an outcome for ever shows it at some point.
* `Clarification!FairClarificationSpec`: weak fairness of `Settle(j)`; that is `EveryJobSettles` of the worker, used as an
  assumption about it.

## 5. Theorems

Everything below is proved for any values of the constants, from the named assumptions in the modules (sets that do
not contain the NULL values, bounds that are natural numbers, finite sets where the code has finite tables).
`PROJECT.json` lists each theorem with the property it states.

* **WorldJob.** `EffectsInv` has three parts. `RowsSound`: what marker, checkpoint, outcome and Evidence of one row say
  of each other. `ThreadsSound`: what a thread knows of its row, with and without its fence; under the fence (`Holds`)
  the row still has the marker and the checkpoint the thread read, and without it the thread may believe anything
  that its statements will then refuse to write. `Tickets`: of all threads at a job at most one may still send it, and
  none once the call was made. The argument turns on one distinction: every step is either a write of the
  claim's holder or `Quiet` for the row (recovery, sweep, claims of others, the clock), and a quiet step never makes a
  fence hold that did not, because a new claim draws a token above every earlier generation. So a lemma per kind
  of quiet step serves all threads, and only the holder's own writes need a case each. From it: `EffectsAreOnceHolds`,
  `SettlementIsLegalHolds`, `ErasedLeavesNothingHolds`, and the action properties `WithdrawnEvidenceCausesNothing`,
  `LiveHolderKeepsItsClaim`, `CheckpointsAdvance` (together `ClaimsHoldTheorem`).
* **Formation is implemented** (`WorkersImplementFormation`). Read job by job: every step is a step of `Formation` for
  the job or leaves its image alone (`Faithful`). Besides `EffectsInv` this needs `AskedInv`: a thread that waits for
  an answer or holds one has been counted as having asked.
* **WorldVersions.** One lemma per kind of write. `Marked` (a replaced item carries the mark itself, not only through
  the transition) is what survives the erasure of the transition and gives `OutdatedStays`; `PlanIsExact` (a preview of
  the present revision lists what would go now) gives `ForgetIsExact` and `HistoryGoesWhole`. `HistoryStaysALine`: that
  there is no circle is stated of sets (no set of items is closed under having a successor in it), so
  that a new edge needs no walk: the new successor has no successor itself, so no set with it is closed.
  Also `ProvenanceStands`, `ReadersSettle`.
* **IdentityReview.** `Sound(graph, ledger)` is all that loading checks and what it needs to stay so: a binding to one who
  does not live was retired (`Kept`), no decision is dated before what it was read in (`DatesFit`), bindings follow heirs (`Followed`), redirects lead to the living and agree with the
  bindings (`Led`), and a pending review of the present revision fits the graph (`Prepared`). Each of bind, alias,
  merge and split keeps it. `Earlier` is about time: a process's copy is an earlier row, and the present one if the
  generations agree, so a write that passes the compare-and-swap extends the row. Theorems: `RowsLoad`,
  `NothingIsLost`, and `ContextsAreTrue`: a context agrees with the copy its process holds, and is dropped
  when that copy changes.
* **PortableSync.** `Rooted` holds of databases and of bundles alike, and that is what carries it across: a bundle is a
  part of a database of some time. `Fenced` says that tombstones keep out what they stand for; `Answered`, that
  after an applied bundle there is nothing left of it to write while the revision stands. What a host does alone is one
  lemma (`OwnKeeps`). Contexts are written one after another, each insertion looking at what the ones before it left, so
  this part is an induction over the copies of the bundle: lemma `Counting` proves induction for a set of
  naturals (the library's theorem takes an operator, which no backend can instantiate; a set comprehension does as
  well), and the function that the fold defines is shown to exist the same way. `ImportsStayExact` needs the same induction
  once more, for what one insertion redacts besides its copy. Theorems: `SourcesAlwaysStand`, `DeletionAlwaysWins`,
  `ImportsStayExact`.
* **MemoryLoop.** First, every staging action puts in a `Shaped` change: its claims are parts of it, and a display says
  of the cognition before what the World it was read in says. Then `IInv`. `FreshBases`: a review prepared for today's
  World was signed in it, which is what the stale check of `decide` relies on. `Linear`, `NothingDangles`,
  `ClaimsStandTogether` and `Receipts` are kept because an acceptance of the whole and one of claims are the same write
  (`Accepts`) and an added or rejected review leaves the history alone (`SameHistory`). The heart is
  `HistoryReadable`, which says of every step ever accepted that each reader's validation still passes in a World that
  has grown since. Two facts carry it. The contracts are monotone in the records (`BundleGrows`, `CorrectionGrows`); and
  what a signed correction was written over stays as it was shown (`CorrectedStays`): it is replaced, a replaced
  cognition takes no Evidence and is not replaced again, so it rests for ever on what the display shows. Theorems:
  `TheRecordStands`, `HistoriesAreLines`, `LoopWellFormed`, `AcceptancesAreExact`; for the last one `Owes` says, kind
  by kind, what a contract makes true of the World that is written. `TheCompilerKeepsItsContract` is about two texts
  written apart, the compiler of `turn_meaning.py` and the contracts of `loop.py`, in any World the history can reach.
  A plan of one claim is of one of two forms: Evidence for a cognition that is stored (`Takes`), or a cognition of
  its own (`NewSaying`) with what has to be introduced to say it. `TakenKept` and `FormedKept` show that what is signed of
  either is accepted, and `EntityKept`, `ObjectKept` and `BondKept` that each kind of claim gives one of them. A
  correction is compiled in the World without its prior (`Withheld`), and what it plans there is either that one new
  cognition or something that gives no change at all (`SuccessorIs`). Of the World only `NothingDangles` is
  needed: a row rests on stored rows.
* **WorldBatch.** `Sound` is what holds after each item, not only after each answer. Of every row (`Good`): it is held
  by Evidence that is not erased, its words are those of its support, the people it is about were introduced, and
  if it can be shown they stand or were left behind by name; no cognition is about somebody who was merged. Of
  everybody merged or renamed (`LedAway`): they do not stand. Being together with one person only needs more, since
  which version of a relationship is current is decided by transitions. `Chain` says that every relationship is
  reached, along transitions, from the plain one of its type and people. Two of a kind therefore lie on one
  line, since transitions are a function, and only the end of it can be offered (`OneEnd`). Erasure takes transitions out
  of the middle, so `Chain` is claimed, as the property is, until something is erased. The proof goes in four
  layers: a write of one row (`PutKeeps`, `SupportKeeps`, `RetireKeeps`, ...), a kind of item (`FormAttributeKeeps`,
  ..., `MergeKeeps`, `RenameKeeps`), an answer (`ItemsFollow` is an induction over its items with the library's fact that
  the naturals have least elements, by way of `Counting`), and the transactions. `MergeKeeps` and `RenameKeeps` are the long ones: a merge moves
  rows onto identities that may be taken, a renaming copies them to new ones. The answers are any set
  of sequences of well-formed items (`AnswersAssumption`). Theorem: `WorldStaysWhole`.
* **Interactions.** `Tainted` is defined by counting steps, one for each row; that it is closed under mentioning
  (`TaintedIs`) is an induction on the number of rows it holds: a step that adds nothing is the last that could, and a
  step that adds something adds a row. `Inv` is `Typed`, `Started` (nothing is stored whose job was not accepted),
  `Marked` (a message that stands is still named by what is left of its turns, so that erasing the conversation reaches
  it), `Linked` (a link sent with the delivery is the one stored), `Single` (two copies come only from a delivery that had
  linked some of its replies), and `ErasureHolds`. Every write is a redaction of a table that one step has filled, so `FilledRows` and
  `ErasesKeeps` serve deliveries, links and erasures alike. The walk is proved from its deepest level up (`WalkIs`,
  `WalkSound`, `WalkComplete`) and along the replies of each level. What it may show is grounded because what it has
  remembered as visible is `Solid`: each such row may be shown itself (`Upheld`), all it leads to is remembered as
  visible too, and there is a rank that falls along the links, so nothing leads to itself (`SolidGrounds`). A path that
  is still open is never remembered, and a row's rank is above those of the rows it was visited after (`SolidGrows`).
  Conversely, within the limits (`Bounded`) every visit stays `Fine`: it fails at no guard, since what was met is under
  the reply and a row on the path cannot be met again (`NoCircle`). Theorems: `ErasureReaches`, `TurnsStay`,
  `WalksAreTrue`.
* **TerminalOutcome.** The invariant ties three places together: the row of a claim carries the token of its
  last attempt, no host holds a token from the future, and what a host is about to acknowledge is in `shownIn`. From
  it follow `RowsAreLegal` (no sequence reaches a row the CHECK clauses reject), `DeliveryTrue`, `AttemptsCounted` and,
  as action properties, `EndedIsFinal` and `ClaimsAreExclusive`.
* **Clarification.** `ChainIsCoherent` is not inductive: `Descended` (a follow-up exists only if its asker asked),
  `Asking`, `Silent` and `Targets` are added. Each transaction is reduced to one of four writes to job and record rows,
  and each write has one lemma. Theorems: `Coherent`, `KeptAndErased`, `ReceiptsAreTrue`, `AnswersStand`.
* **TrustCommand.** `Receipts` (what was answered is what is stored, and says what happened), `Line`, `Shown` (a
  request at the current revision shows the item as it is, since no change leaves the revision alone) and `StorageTrue`
  (where a host is in the cleanup bounds which traces of the bytes can be left). Theorems: `AnswersTellTheLine`,
  `NothingUnseenActs`, `CompleteIsTrue`.
* **ObservedEvidence.** `NeverBack`: what was forgotten is not newer than the row's version, and a source without
  Evidence asks for a version newer than the row's. Theorems: `NothingElseIsLeft`, `ForgottenStays`,
  `NothingOlderWidens`.

## 6. What is only model-checked

Liveness, which TLAPS cannot reach: `EveryJobSettles`, `EveryOutcomeEnds`, `EveryAnswerResolves`.

Safety that is not proved: `AnswersHold` of WorldBatch. It is not true of every answer: it looks for what an item says
at the person a merge or a renaming leads to, and an answer that names somebody and then renames them twice leads further.
`batch` checks it of the answers of its configuration. A theorem would need an assumption about which items may
follow which, and none has been found that is both weaker than the property and justified by the code that validates
answers.

## 7. Where the code and its documents disagree

All runs pass: they check what the code does. What follows was met while modelling, and the models are as the code
has it. The numbers are lines of the file named.

Worker, outcomes and questions:

* An exception after the checkpoint ends a job as `dispatch_outcome_unknown` although its response is on disk and could
  be replayed (`world_worker.py:1546`, against the docstrings 10-13 and 1092-1095).
* With two open questions in a session, a repeated `answer_latest_for_session` answers the second one
  (`clarification_service.py:326`, against 316-317, which promises the first receipt). A question of another host that
  is the newest of the session blocks the older one.
* `settle` writes a stub over the checkpoint when the result it is given carries no response, also on a replay.
* A worker with a local model that claims a job with a remote checkpoint settles it without a marker.

World items:

* A correction to a value whose row is invalid fails on the primary key and is lost (`batch_adapter.py:5288`, against
  `README.md:171-172` and `state_evolution.py:31`).
* A value stated again after it was corrected away supports the invalid row, and nothing current says it
  (`state_evolution.py:76`, against 74-75).
* A stored answer that waits in `retry` does not pause a forget, which asks for `processing` jobs only
  (`true_delete.py:379`); the answer is later refused (`ReadersSettleFirst` speaks of claimed answers).
* One soft-forgotten source hides an item for good (`currentness.py:440`).

Answers with several items (WorldBatch):

* A merge or a renaming moves superseded relationships too (`batch_adapter.py:4009`, `name_correction.py:57`), an
  archived one without its mark, and can make a relationship of a person with themselves, which `_parse_item` would refuse.
* A merge moves `target_entity_id` only, never the perspective (docstring 3862-3869), and no participants of events:
  restating an event about a merged person is refused and fails the whole answer. In a chain of merges the names
  of the first one absorbed are not inherited (3930).
* A renaming leaves attributes told by pronoun and relationships that may not be shown at the old, invalid entity.
  It finds facts by the name in their words (`name_correction.py:87`), and a merge moves a fact and not its words:
  the facts of an absorbed name stay behind when the survivor is renamed later.
* A correction to a relationship whose row is superseded supports a row that is not offered; erasing the Evidence of a
  middle version can leave two offered occurrences, after which every restatement is refused as ambiguous; a
  superseded relationship comes back, with confidence 0, when its replacement is erased.
* What a single status is rewritten to keeps the old Evidence's words with the new Evidence as its only support; if
  the row exists, the INSERT fails and the job is dead.
* Erasing the Evidence of a merge leaves the merged person invalid and the name among the aliases of the other.

Trust, observed evidence:

* `submit` sets the storage status of a deletion without asking what it was, so that a cleanup finished by another
  host meanwhile can read pending again; it never reads complete too early (`CompleteMeansGone`).
* A command rejected because formation is in progress is stored as rejected: repeating it under the same id
  returns the same receipt for ever, and the host must choose a new id.
* A delayed withdrawal lowers the watermark of a later one (`observed.py:191`, against `dsh_bridge/README.md:68`).
* In `observed.py` a new text at the very time of a permission decision is stored with its own permissions, also if
  wider: `_permissions` compares them with the row just inserted. `dsh_bridge/README.md:66` says that at equal time
  tightening wins. `OlderNeverWidens` therefore speaks of older messages, and of equal times only for the same text.
  After a withdrawal, permissions are the message's own whatever was decided before.

Interactions and bridge:

* A delivery repeated after erasure records again the commitments that quote the erased text (`dsh_bridge/__init__.py:700`,
  against `docs/FG2_ERASURE_SCHEMA_AUDIT.md:14`). The text of a message of several sentences stays in
  `interaction_context` after its Evidence is deleted (`true_delete.py:465-475`, against line 13 of that audit). A delivery
  whose second transaction comes after another process erased its Evidence records the turns anyway.
* Kept answers are not cleared by the erasure of a link, an applied import, or a World change of the worker
  (`protocol_v2.py:325`, `541`, `727`, against the comment 583-585); transient error responses are kept too (216-221).
* A delivery repeated with some links makes a second copy, and a later link to it conflicts
  (`interaction_context.py:119`, `319`). Erased text of the assistant can return through `evidence.preceding_ai_context`
  (`correction_source.py:103`).

Memory loop and turns:

* The compiler's claim (`CompilerKeepsContract`) holds for turns of one claim and for corrections only. A turn of two
  claims with a change of Evidence, or with an indirect evaluation, compiles to a candidate the loop's contract refuses.
* Restating a relationship without its handle forms a second current statement, after which every reaffirmation is
  refused as ambiguous (`turn_meaning.py`, near 3112: only attributes and evaluations look for compatible priors).
* The path for a single mention introduces an entity without asking the resolver (`turn_meaning.py:1095-1112`); matching
  uses the turn's `occurred_at` where the loop uses now; 4048 compares times as strings where the resolver compares times.
* A stale review whose bytes no longer validate cannot be rejected (`loop.py:1739`, `1876`;
  `py/tests/test_memory_loop.py:2959`). `view()` reads by separate selects (974).
* The current checks of a typed correction run at staging only. An identity merge or a renaming makes accepted steps
  that compare with `canonical_name` unreadable, and with one the whole loop (1687, 1739); merges and splits rewrite
  `memory_state` without a proposal. A branching chain of events is accepted and then unreadable (`evolution.py:1055`).

Identity:

* A merge drops the absorbed entity's canonical name and aliases, so the old name is unresolved afterwards
  (`identity_review.py:843-880`, `entity_resolution.py:615`).
* A kin alias proposed under a kind hint can be refused by its own preview, which ignores the hint
  (`entity_resolution.py:283-300`).

Portable bundles:

* A copy of a conversation erased as `[]` carries no fingerprint (`true_delete.py:610`), so that under another id an older
  live copy of the same text is restored over it (`interaction_context.py:201-223` and `src/README.md:90` say that an
  erased copy wins in either order). `ErasedCopyWins` speaks of copies that carry one (`marked`).
* A bundle can bring the text of an erased message. `importer.py:838-840` says that an old bundle is refused whole,
  "including a copy whose Evidence has a different id but the same source origin"; but a copy that was forgotten at its
  host has no `originId` any more, and 843-863 compares nothing with a row that has none. It is stored, deleted, with its
  full text and with the events and cognitions formed from it. The same holds at one host: erasing one copy of a message
  leaves another, forgotten earlier, as it is (`true_delete.py:84-95` looks at live copies only). `NothingErasedLives`
  therefore says that the message is *live* under no id, and nothing of forgotten copies.
* The plan's write set leaves out what redaction takes along: an imported erased copy marks copies of the same text
  (`interaction_context.py:209-218`) and all that rests on them, empties `preceding_ai_context` of Evidence rows and deletes
  commitments (`true_delete.py:506-512`, `526-527`). The preview (`portable_service.py:174`) shows none of these.
* World rows and links are not left out when a source is unresolved (`importer.py:286`, `637`): the links dangle, and
  the next export fails its own validation (`validate.py:594`).
* Evidence forgotten at the source collides with the live row at the target (`importer.py:892`), as a cleared
  `correctsEvidenceId` does (1113); a bundle with a hard-deleted marker can never be imported again where the marker is
  (842); a live context refused by an erased copy still counts as a write, so that a second import moves the revision (1128).

## 8. What is not modelled

* Text: prompts, parsing of model answers, validation of quoted spans, ranking and rendering of recall. They are pure
  functions; where they decide control, the models choose among their outcomes.
* In WorldBatch: topic aliases, long-term goals, perspective holders, the fast path without a model, confidences. In
  the memory loop: events and their chains, formation traces, confidences, the layout of signed displays. In
  PortableSync: older bundle versions, subject renaming, promises recorded after their conversation, transitions and targets as kinds of their own. In
  Interactions: the routing of a question to turns, and envelopes, health and initialisation of the bridge.
* The semantic index, whose encoder thread works outside transactions.
* SQLite, the OS file lock, model services: external, modelled by what the code relies on.
* The TypeScript core, except `observed.ts`, whose statements are those of `observed.py`; adapters, applications,
  benches.

`PROJECT.json` lists every component with its reason, and every hazard with the properties that cover it. The one
hazard without a property is the repeated `answer_latest_for_session` of section 7.

## 9. Plan

Done, in this order: JobRow, WorldJob and Formation (the heart of the system); TerminalOutcome; Clarification;
WorldVersions; TrustCommand; ObservedEvidence; MemoryLoop; IdentityReview; PortableSync; Interactions; WorldBatch; the
proofs of section 5.

Next:

1. **SemanticIndex** (`semantic/`): the queue, the vector table and its triggers, the encoder thread that reads,
   encodes outside the transaction and publishes after checking again, expiry, the epoch and the cached matrix. No
   vector of an item that may not be shown; every item that may be shown is indexed or queued.
2. **Update of the profile** in the TypeScript core: what is read before a model call and used after it.
