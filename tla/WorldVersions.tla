----------------------------- MODULE WorldVersions -----------------------------
(***************************************************************************)
(* The versions of one thing the World knows about a person.  A source     *)
(* (one Evidence and its World job) is read against the current items; the *)
(* stored answer is applied in a later transaction, when other answers,    *)
(* corrections and erasures may have changed those items.  The owner       *)
(* corrects, retracts, forgets softly, erases one Evidence, or erases a    *)
(* World item with its whole history as an earlier preview listed it.      *)
(*                                                                         *)
(* One content kind and one target entity; one item per answer; every      *)
(* source may be read by formation until it is forgotten.                  *)
(***************************************************************************)
EXTENDS Naturals, FiniteSets

CONSTANTS Values,     \* what an item may say
          Sources,    \* the Evidence rows, each with its World job
          NoSource, NoItem, NoAnswer, NoPlan

ASSUME NoSourceAssumption == NoSource \notin Sources
ASSUME FiniteAssumption == IsFiniteSet(Values) /\ IsFiniteSet(Sources)

(* An item is named by its content, a recurrence by its content and the    *)
(* source that states it again (its prior is part of the name, but a       *)
(* source is applied once).                                                *)
Items == Values \X (Sources \cup {NoSource})
Content(v) == <<v, NoSource>>
Occurrence(v, s) == <<v, s>>

ASSUME NoItemAssumption == NoItem \notin Items

VARIABLES evidence,   \* the Evidence row of a source
          job,        \* its job; "open" is pending or retry
          answer,     \* the stored interpretation (the checkpoint)
          item,       \* the World row: not there, current, or invalid_at set
          support, against,   \* its provenance: who states it, who contradicts it
          next,       \* cognition_transitions: the item that replaced it
          revision,   \* memory_state.revision
          plan        \* the forget preview the owner is looking at

world == <<item, support, against, next>>
vars == <<evidence, job, answer, world, revision, plan>>

Acts == {"form", "correct", "contradict", "retract"}
Answer == {a \in [act: Acts, value: Values, prior: Items \cup {NoItem}] :
             a.prior = NoItem => a.act = "form"}
Plan == [target: Items, revision: Nat, gone: SUBSET Items, sources: SUBSET Sources]
JobStates == {"none", "open", "processing", "applied", "no_change",
              "clarification_required", "dead", "erased"}

Init ==
  /\ evidence = [s \in Sources |-> "none"]
  /\ job = [s \in Sources |-> "none"]
  /\ answer = [s \in Sources |-> NoAnswer]
  /\ item = [i \in Items |-> "absent"]
  /\ support = [i \in Items |-> {}] /\ against = [i \in Items |-> {}]
  /\ next = [i \in Items |-> NoItem]
  /\ revision = 0
  /\ plan = NoPlan

TypeOK ==
  /\ evidence \in [Sources -> {"none", "live", "soft", "erased"}]
  /\ job \in [Sources -> JobStates]
  /\ answer \in [Sources -> Answer \cup {NoAnswer}]
  /\ item \in [Items -> {"absent", "current", "invalid"}]
  /\ support \in [Items -> SUBSET Sources] /\ against \in [Items -> SUBSET Sources]
  /\ next \in [Items -> Items \cup {NoItem}]
  /\ revision \in Nat
  /\ plan \in Plan \cup {NoPlan}

-----------------------------------------------------------------------------
(* Reading the World.                                                      *)
Absent(i) == item[i] = "absent"
Linked(i) == support[i] \cup against[i]
Superseded(i) == next[i] # NoItem
Visible(i) ==
  /\ item[i] = "current" /\ Linked(i) # {}
  /\ \A s \in Linked(i) : evidence[s] = "live"
Offered(i) == Visible(i) /\ ~Superseded(i)

(* The versions that came after an item. *)
Later(trans, i) ==
  LET after[k \in Items, n \in 0 .. Cardinality(Items)] ==
        IF n = 0 \/ trans[k] = NoItem THEN {} ELSE {trans[k]} \cup after[trans[k], n - 1]
  IN after[i, Cardinality(Items)]

From(i) == {i} \cup Later(next, i)
Ancestors(i) == {k \in Items : i \in Later(next, k)}

(* The whole history of an item: everything transitions connect it to. *)
Chain(i) == {k \in Items : From(k) \cap From(i) # {}}

-----------------------------------------------------------------------------
(* Formation.                                                              *)

(* A job's new state, with the rest of the job untouched. *)
JobTo(s, word) == job' = [job EXCEPT ![s] = word]

(* A boundary is accepted: the Evidence and its job, in one transaction. *)
Accept(s) ==
  /\ evidence[s] = "none"
  /\ evidence' = [evidence EXCEPT ![s] = "live"]
  /\ JobTo(s, "open")
  /\ UNCHANGED <<answer, world, revision, plan>>

Claim(s) ==
  /\ job[s] = "open"
  /\ JobTo(s, "processing")
  /\ UNCHANGED <<evidence, answer, world, revision, plan>>

(* The model reads the source and the current items; its answer is stored. *)
(* An item's id is a digest, which the answer can only copy from the items *)
(* it was shown.                                                           *)
Interpret(s) ==
  /\ job[s] = "processing" /\ answer[s] = NoAnswer /\ evidence[s] = "live"
  /\ \E act \in Acts, v \in Values, p \in {i \in Items : Offered(i)} \cup {NoItem} :
       /\ p = NoItem => act = "form"
       /\ act \in {"contradict", "retract"} => v = p[1]
       /\ answer' = [answer EXCEPT ![s] = [act |-> act, value |-> v, prior |-> p]]
  /\ UNCHANGED <<evidence, job, world, revision, plan>>

(* The claim is lost: its lease expired, or the worker stopped.  A stored  *)
(* answer is kept.  Without one the job may end: the source says nothing   *)
(* to keep, may no longer be read, or its model call is never repeated.    *)
Lapse(s) ==
  /\ job[s] = "processing"
  /\ \/ JobTo(s, "open")
     \/ answer[s] = NoAnswer /\ (JobTo(s, "no_change") \/ JobTo(s, "dead"))
  /\ UNCHANGED <<evidence, answer, world, revision, plan>>

(* The item a formed value names: its content, unless the value returns.   *)
Named(s, v, p) ==
  LET base == Content(v)
      current == {i \in Items : i[1] = v /\ base \in Ancestors(i) /\ Offered(i)}
  IN IF Absent(base) THEN base
     ELSE IF p # NoItem THEN (IF base \in Ancestors(p) THEN Occurrence(v, s) ELSE base)
     ELSE IF Superseded(base) /\ Cardinality(current) = 1
          THEN CHOOSE i \in current : TRUE
          ELSE base

State(i, s) ==
  /\ item' = [item EXCEPT ![i] = IF @ = "absent" THEN "current" ELSE @]
  /\ support' = [support EXCEPT ![i] = @ \cup {s}]
  /\ UNCHANGED <<against, next>>

(* Mutant of Supersede: the old value keeps its standing. *)
SupersedeOnly(p, i, s) ==
  /\ item' = [item EXCEPT ![i] = "current"]
  /\ support' = [support EXCEPT ![i] = @ \cup {s}]
  /\ next' = [next EXCEPT ![p] = i]
  /\ UNCHANGED against

Supersede(p, i, s) ==
  /\ item' = [item EXCEPT ![i] = "current"]
  /\ support' = [support EXCEPT ![i] = @ \cup {s}]
  /\ against' = [against EXCEPT ![p] = @ \cup {s}]
  /\ next' = [next EXCEPT ![p] = i]

Correct(p, i, s) ==
  /\ item' = [item EXCEPT ![p] = "invalid", ![i] = "current"]
  /\ support' = [support EXCEPT ![i] = @ \cup {s}]
  /\ next' = [next EXCEPT ![p] = i]
  /\ UNCHANGED against

Contradict(p, s) ==
  /\ against' = [against EXCEPT ![p] = @ \cup {s}]
  /\ UNCHANGED <<item, support, next>>

Retract(p) ==
  /\ item' = [item EXCEPT ![p] = "invalid"]
  /\ UNCHANGED <<support, against, next>>

(* validate_successor. *)
MaySupersede(p, i) == Offered(p) /\ i # p /\ Absent(i)

(* What _apply_correct requires of its prior. *)
MayCorrect(p, v) == Offered(p) /\ v # p[1]

(* Mutant of Fit: the sources were checked when the job was claimed. *)
AlwaysFit(s) == TRUE

(* Every Evidence of the job is validated again before the first write. *)
Fit(s) == evidence[s] = "live"

(* The answer changes the World. *)
Change(s) ==
  LET a == answer[s]  p == a.prior  i == Named(s, a.value, p)
  IN /\ Fit(s)
     /\ \/ a.act = "form" /\ p = NoItem /\ State(i, s)
        \/ a.act = "form" /\ p # NoItem /\ MaySupersede(p, i) /\ Supersede(p, i, s)
        \/ /\ a.act = "correct" /\ MayCorrect(p, a.value)
           /\ Absent(Content(a.value)) /\ Correct(p, Content(a.value), s)
        \/ a.act = "contradict" /\ Visible(p) /\ Contradict(p, s)
        \/ a.act = "retract" /\ Visible(p) /\ Retract(p)

(* The answer no longer fits the World: _ZeroWriteError. *)
Stale(s) ==
  LET a == answer[s]  p == a.prior
  IN \/ ~Fit(s)
     \/ a.act = "form" /\ p # NoItem /\ ~MaySupersede(p, Named(s, a.value, p))
     \/ a.act = "correct" /\ ~MayCorrect(p, a.value)
     \/ a.act \in {"contradict", "retract"} /\ ~Visible(p)

(* A correction to a value that has a row already: another current item is *)
(* a question for the person; an invalid row fails the INSERT, after which *)
(* the worker gives the job up.                                            *)
Collides(s, state) ==
  LET a == answer[s]
  IN /\ Fit(s) /\ a.act = "correct" /\ MayCorrect(a.prior, a.value)
     /\ item[Content(a.value)] = state

Settled(s) == JobTo(s, "applied") /\ revision' = revision + 1

Apply(s) ==
  /\ job[s] = "processing" /\ answer[s] # NoAnswer
  /\ \/ Change(s) /\ Settled(s)
     \/ /\ \/ Stale(s) /\ JobTo(s, "no_change")
           \/ Collides(s, "current") /\ JobTo(s, "clarification_required")
           \/ Collides(s, "invalid") /\ JobTo(s, "dead")
        /\ UNCHANGED <<world, revision>>
  /\ UNCHANGED <<evidence, answer, plan>>

-----------------------------------------------------------------------------
(* The owner's commands.                                                   *)

(* The correction is Evidence of its own and has no job. *)
OwnerCorrects(s) ==
  /\ evidence[s] = "none"
  /\ \E p \in Items, v \in Values :
       MayCorrect(p, v) /\ Absent(Content(v)) /\ Correct(p, Content(v), s)
  /\ evidence' = [evidence EXCEPT ![s] = "live"]
  /\ revision' = revision + 1
  /\ UNCHANGED <<job, answer, plan>>

OwnerRetracts(p) ==
  /\ Visible(p) /\ Retract(p)
  /\ revision' = revision + 1
  /\ UNCHANGED <<evidence, job, answer, plan>>

(* forget_evidence: a tombstone. *)
Forget(s) ==
  /\ evidence[s] = "live"
  /\ evidence' = [evidence EXCEPT ![s] = "soft"]
  /\ revision' = revision + 1
  /\ UNCHANGED <<job, answer, world, plan>>

(* Everything whose provenance refers to the sources. *)
Derived(S) == {i \in Items : ~Absent(i) /\ Linked(i) \cap S # {}}

(* Mutant of Unlinked: the transitions stay. *)
KeptLinks(gone) == next

(* Transitions from or to an erased item are erased with it. *)
Unlinked(gone) ==
  [i \in Items |-> IF i \in gone \/ next[i] \in gone THEN NoItem ELSE next[i]]

(* delete_evidence of every source in S. *)
Erase(S) ==
  LET gone == Derived(S)
  IN /\ evidence' = [s \in Sources |-> IF s \in S THEN "erased" ELSE evidence[s]]
     /\ job' = [s \in Sources |-> IF s \in S THEN "erased" ELSE job[s]]
     /\ item' = [i \in Items |-> IF i \in gone THEN "absent" ELSE item[i]]
     /\ support' = [i \in Items |-> IF i \in gone THEN {} ELSE support[i]]
     /\ against' = [i \in Items |-> IF i \in gone THEN {} ELSE against[i]]
     /\ next' = Unlinked(gone)
     /\ revision' = revision + 1
     /\ UNCHANGED answer

EraseEvidence(s) ==
  /\ evidence[s] \in {"live", "soft"}
  /\ Erase({s})
  /\ UNCHANGED plan

(* The sources a World item is erased with: those of its whole history. *)
SourcesOf(i) == UNION {Linked(k) : k \in Chain(i)}

(* Another source is being interpreted. *)
InProgress(S) == \E s \in Sources \ S : job[s] = "processing"

MayErase(i) ==
  /\ ~Absent(i)
  /\ \A k \in Chain(i) : Linked(k) # {}
  /\ ~InProgress(SourcesOf(i))
  /\ \A s \in SourcesOf(i) : evidence[s] # "erased"

(* preview_forget: the same erasure on a copy. *)
Preview(i) ==
  /\ plan = NoPlan /\ MayErase(i)
  /\ plan' = [target |-> i, revision |-> revision,
              gone |-> Derived(SourcesOf(i)), sources |-> SourcesOf(i)]
  /\ UNCHANGED <<evidence, job, answer, world, revision>>

(* Mutant of Confirmed: the confirmation is taken whatever happened since. *)
AnyRevision == MayErase(plan.target)

(* The confirmed command names the revision of its preview. *)
Confirmed == plan.revision = revision /\ MayErase(plan.target)

Execute ==
  /\ plan # NoPlan
  /\ plan' = NoPlan
  /\ \/ Confirmed /\ Erase(SourcesOf(plan.target))
     \/ ~Confirmed /\ UNCHANGED <<evidence, job, answer, world, revision>>

Next ==
  \/ \E s \in Sources : \/ Accept(s) \/ Claim(s) \/ Interpret(s) \/ Lapse(s) \/ Apply(s)
                        \/ OwnerCorrects(s) \/ Forget(s) \/ EraseEvidence(s)
  \/ \E i \in Items : OwnerRetracts(i) \/ Preview(i)
  \/ Execute

Spec == Init /\ [][Next]_vars

-----------------------------------------------------------------------------
(* Properties.                                                             *)

(* Every item the World holds can be traced to Evidence that still exists: *)
(* erasing a source leaves nothing that was formed from it, changed by it  *)
(* or contradicted by it.                                                  *)
Provenance ==
  \A i \in Items :
    IF Absent(i) THEN Linked(i) = {}
    ELSE support[i] # {} /\ \A s \in Linked(i) : evidence[s] \in {"live", "soft"}

(* A history is a line: an item is replaced by one item and replaces at    *)
(* most one, both are there, and no items replace each other in a circle,  *)
(* also when a value returns and after parts of the history were erased.   *)
HistoryIsALine ==
  /\ \A i \in Items : next[i] # NoItem =>
       /\ ~Absent(i) /\ ~Absent(next[i])
       /\ \A k \in Items : next[k] = next[i] => k = i
  /\ \A S \in SUBSET {i \in Items : Superseded(i)} :
       S # {} => \E i \in S : next[i] \notin S

(* A source enters the provenance of an item only while formation may read *)
(* it, however long its answer waited to be applied.                       *)
OnlyLiveSources ==
  [][\A s \in Sources, i \in Items :
       s \in Linked(i)' \ Linked(i) => evidence'[s] = "live" /\ evidence[s] # "soft"]_vars

(* From its first source to the erasure of its last an item rests on what  *)
(* may be read when it enters, and is there as long as it stands.          *)
ProvenanceHolds == []Provenance /\ OnlyLiveSources

(* An item that was corrected, retracted, replaced or contradicted never   *)
(* becomes an undisputed current item again, whichever part of its history *)
(* is erased later; only erasing the item itself ends this.                *)
Outdated(i) == item[i] = "invalid" \/ (~Absent(i) /\ (Superseded(i) \/ against[i] # {}))
OutdatedStaysMarked ==
  [][\A i \in Items : Outdated(i) => Outdated(i)' \/ Absent(i)']_vars

(* A confirmed forget erases what its preview listed and nothing else,     *)
(* whatever was formed, corrected or erased while the owner read it.       *)
Erased == {s \in Sources : evidence[s] = "erased"}
Held == {i \in Items : ~Absent(i)}
Executed == plan # NoPlan /\ plan' = NoPlan /\ Erased' # Erased
ForgetIsAsPreviewed ==
  [][Executed => Held \ Held' = plan.gone /\ Erased' \ Erased = plan.sources]_vars

(* Forgetting an item leaves no earlier or later version of it. *)
WholeHistoryGoes ==
  [][Executed => \A i \in Items :
       (i = plan.target \/ i \in Ancestors(plan.target) \/ plan.target \in Ancestors(i))
       => Absent(i)']_vars

(* Forgetting a World item waits for a model that has read it: no claimed  *)
(* answer loses the item it is about.  An answer that is stored and waits  *)
(* in retry does lose it: the gate looks at claimed jobs only.             *)
Pulled(s) == /\ job[s] = "processing" /\ job'[s] = "processing"
             /\ answer[s] # NoAnswer /\ answer[s].prior \in Held \ Held'
ReadersSettleFirst == [][Executed => \A s \in Sources : ~Pulled(s)]_vars

(* Forgetting an item erases what its preview listed, the whole history of *)
(* the item with it, and nothing under the eyes of a model that reads it.  *)
ForgettingIsExact == ForgetIsAsPreviewed /\ WholeHistoryGoes /\ ReadersSettleFirst
=============================================================================
