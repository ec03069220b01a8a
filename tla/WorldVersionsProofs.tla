-------------------------- MODULE WorldVersionsProofs --------------------------
(***************************************************************************)
(* What is proved of WorldVersions for any number of sources and values.   *)
(*                                                                         *)
(* Each kind of write to the World (State, Supersede, Correct, Contradict, *)
(* Retract, Erase) gets one lemma about the invariant; a step of the       *)
(* system is one of these writes or leaves the World alone.  IInv adds to  *)
(* the properties what makes them inductive: a replaced item is marked by  *)
(* the source that replaced it or by being invalid (so that it is still    *)
(* marked when the transition is erased), and a preview of the present     *)
(* revision lists what would be erased now.                                *)
(***************************************************************************)
EXTENDS WorldVersions, FiniteSetTheorems, TLAPS

(* A replaced item carries the mark of its replacement itself. *)
Marked == \A i \in Items : next[i] # NoItem => item[i] = "invalid" \/ against[i] # {}

(* A preview is as old as its revision: while the revision is still the    *)
(* one it was made at, it lists what its execution would erase.            *)
PlanIsExact ==
  \A i \in Items : plan # NoPlan /\ plan.target = i =>
    /\ plan.revision <= revision
    /\ plan.revision = revision =>
         plan.sources = SourcesOf(i) /\ plan.gone = Derived(SourcesOf(i))

IInv == TypeOK /\ Provenance /\ Marked

(* The type of the World and what the store keeps of it. *)
WorldType ==
  /\ item \in [Items -> {"absent", "current", "invalid"}]
  /\ support \in [Items -> SUBSET Sources] /\ against \in [Items -> SUBSET Sources]
  /\ next \in [Items -> Items \cup {NoItem}]
Kept == WorldType /\ Provenance /\ Marked
(* Evidence is not erased. *)
NotErased == \A s \in Sources : evidence[s] \in {"live", "soft"} => evidence'[s] \in {"live", "soft"}
-----------------------------------------------------------------------------
LEMMA ContentIsItem == \A v \in Values : Content(v) \in Items
BY DEF Content, Items

LEMMA OccurrenceIsItem == \A v \in Values, s \in Sources : Occurrence(v, s) \in Items
BY DEF Occurrence, Items

(* The item a formed value names is an item. *)
LEMMA NamedIsItem ==
  ASSUME NEW s \in Sources, NEW v \in Values, NEW p \in Items \cup {NoItem}
  PROVE  Named(s, v, p) \in Items
<1> DEFINE base == Content(v)
           current == {i \in Items : i[1] = v /\ base \in Ancestors(i) /\ Offered(i)}
<1>1. base \in Items /\ Occurrence(v, s) \in Items
  BY ContentIsItem, OccurrenceIsItem
<1>2. ASSUME Cardinality(current) = 1 PROVE (CHOOSE i \in current : TRUE) \in Items
  <2>1. current # {}
    <3>1. SUFFICES ASSUME current = {} PROVE FALSE
      OBVIOUS
    <3>2. Cardinality({}) = 0
      BY FS_EmptySet
    <3> QED BY <1>2, <3>1, <3>2
  <2>2. (CHOOSE i \in current : TRUE) \in current
    BY <2>1
  <2> QED BY <2>2
<1> HIDE DEF current
<1>3. Named(s, v, p) = IF Absent(base) THEN base
                       ELSE IF p # NoItem THEN (IF base \in Ancestors(p) THEN Occurrence(v, s) ELSE base)
                       ELSE IF Superseded(base) /\ Cardinality(current) = 1
                            THEN CHOOSE i \in current : TRUE ELSE base
  BY DEF Named, current
<1> QED BY <1>1, <1>2, <1>3

-----------------------------------------------------------------------------
(* Each write to the World keeps the invariant, as long as it does not     *)
(* erase Evidence and its own source is live.                              *)
LEMMA StateKeeps ==
  ASSUME Kept, NEW s \in Sources, NEW i \in Items,
         State(i, s), NotErased, evidence'[s] = "live"
  PROVE  Kept'
<1> USE DEF Kept
<1>1. WorldType'
  BY DEF WorldType, State
<1>2. Provenance'
  <2> SUFFICES ASSUME NEW k \in Items
               PROVE  IF item'[k] = "absent" THEN support'[k] \cup against'[k] = {}
                      ELSE support'[k] # {} /\ \A r \in support'[k] \cup against'[k] :
                                                  evidence'[r] \in {"live", "soft"}
    BY DEF Provenance, Absent, Linked
  <2>1. CASE k = i
    BY <2>1 DEF State, WorldType, Provenance, Absent, Linked, NotErased
  <2>2. CASE k # i
    BY <2>2 DEF State, WorldType, Provenance, Absent, Linked, NotErased
  <2> QED BY <2>1, <2>2
<1>3. Marked'
  BY DEF Marked, State, WorldType
<1> QED BY <1>1, <1>2, <1>3

LEMMA SupersedeKeeps ==
  ASSUME Kept, NEW s \in Sources, NEW p \in Items, NEW i \in Items,
         MaySupersede(p, i), Supersede(p, i, s), NotErased, evidence'[s] = "live"
  PROVE  Kept'
<1> USE DEF Kept
<1>0. item[p] = "current" /\ item[i] = "absent" /\ p # i
  BY DEF MaySupersede, Offered, Visible, Absent
<1>1. WorldType'
  BY DEF WorldType, Supersede
<1>2. Provenance'
  <2> SUFFICES ASSUME NEW k \in Items
               PROVE  IF item'[k] = "absent" THEN support'[k] \cup against'[k] = {}
                      ELSE support'[k] # {} /\ \A r \in support'[k] \cup against'[k] :
                                                  evidence'[r] \in {"live", "soft"}
    BY DEF Provenance, Absent, Linked
  <2>1. CASE k = i
    BY <1>0, <2>1 DEF Supersede, WorldType, Provenance, Absent, Linked, NotErased
  <2>2. CASE k = p
    BY <1>0, <2>2 DEF Supersede, WorldType, Provenance, Absent, Linked, NotErased
  <2>3. CASE k # i /\ k # p
    BY <2>3 DEF Supersede, WorldType, Provenance, Absent, Linked, NotErased
  <2> QED BY <2>1, <2>2, <2>3
<1>3. Marked'
  <2> SUFFICES ASSUME NEW k \in Items, next'[k] # NoItem
               PROVE  item'[k] = "invalid" \/ against'[k] # {}
    BY DEF Marked
  <2>1. CASE k = p
    BY <2>1 DEF Supersede, WorldType
  <2>2. CASE k # p
    BY <1>0, <2>2 DEF Marked, Supersede, WorldType, Provenance, Absent, Linked
  <2> QED BY <2>1, <2>2
<1> QED BY <1>1, <1>2, <1>3

LEMMA CorrectKeeps ==
  ASSUME Kept, NEW s \in Sources, NEW p \in Items, NEW i \in Items, NEW v,
         MayCorrect(p, v), Absent(i), Correct(p, i, s), NotErased, evidence'[s] = "live"
  PROVE  Kept'
<1> USE DEF Kept
<1>0. item[p] = "current" /\ item[i] = "absent" /\ p # i
  BY DEF MayCorrect, Offered, Visible, Absent
<1>1. WorldType'
  BY DEF WorldType, Correct
<1>2. Provenance'
  <2> SUFFICES ASSUME NEW k \in Items
               PROVE  IF item'[k] = "absent" THEN support'[k] \cup against'[k] = {}
                      ELSE support'[k] # {} /\ \A r \in support'[k] \cup against'[k] :
                                                  evidence'[r] \in {"live", "soft"}
    BY DEF Provenance, Absent, Linked
  <2>1. CASE k = i
    BY <1>0, <2>1 DEF Correct, WorldType, Provenance, Absent, Linked, NotErased
  <2>2. CASE k = p
    BY <1>0, <2>2 DEF Correct, WorldType, Provenance, Absent, Linked, NotErased
  <2>3. CASE k # i /\ k # p
    BY <2>3 DEF Correct, WorldType, Provenance, Absent, Linked, NotErased
  <2> QED BY <2>1, <2>2, <2>3
<1>3. Marked'
  <2> SUFFICES ASSUME NEW k \in Items, next'[k] # NoItem
               PROVE  item'[k] = "invalid" \/ against'[k] # {}
    BY DEF Marked
  <2>1. CASE k = p
    BY <1>0, <2>1 DEF Correct, WorldType
  <2>2. CASE k # p
    BY <1>0, <2>2 DEF Marked, Correct, WorldType, Provenance, Absent, Linked
  <2> QED BY <2>1, <2>2
<1> QED BY <1>1, <1>2, <1>3

LEMMA ContradictKeeps ==
  ASSUME Kept, NEW s \in Sources, NEW p \in Items,
         Visible(p), Contradict(p, s), NotErased, evidence'[s] = "live"
  PROVE  Kept'
<1> USE DEF Kept
<1>1. WorldType'
  BY DEF WorldType, Contradict
<1>2. Provenance'
  <2> SUFFICES ASSUME NEW k \in Items
               PROVE  IF item'[k] = "absent" THEN support'[k] \cup against'[k] = {}
                      ELSE support'[k] # {} /\ \A r \in support'[k] \cup against'[k] :
                                                  evidence'[r] \in {"live", "soft"}
    BY DEF Provenance, Absent, Linked
  <2>1. CASE k = p
    BY <2>1 DEF Contradict, Visible, WorldType, Provenance, Absent, Linked, NotErased
  <2>2. CASE k # p
    BY <2>2 DEF Contradict, WorldType, Provenance, Absent, Linked, NotErased
  <2> QED BY <2>1, <2>2
<1>3. Marked'
  BY DEF Marked, Contradict, WorldType
<1> QED BY <1>1, <1>2, <1>3

LEMMA RetractKeeps ==
  ASSUME Kept, NEW p \in Items, Visible(p), Retract(p), NotErased
  PROVE  Kept'
<1> USE DEF Kept
<1>1. WorldType'
  BY DEF WorldType, Retract
<1>2. Provenance'
  <2> SUFFICES ASSUME NEW k \in Items
               PROVE  IF item'[k] = "absent" THEN support'[k] \cup against'[k] = {}
                      ELSE support'[k] # {} /\ \A r \in support'[k] \cup against'[k] :
                                                  evidence'[r] \in {"live", "soft"}
    BY DEF Provenance, Absent, Linked
  <2>1. item[p] = "current"
    BY DEF Visible
  <2> QED BY <2>1 DEF Retract, WorldType, Provenance, Absent, Linked, NotErased
<1>3. Marked'
  BY DEF Marked, Retract, WorldType
<1> QED BY <1>1, <1>2, <1>3

LEMMA EraseKeeps ==
  ASSUME TypeOK, Kept, NEW S \in SUBSET Sources, Erase(S)
  PROVE  Kept'
<1> USE DEF Kept
<1>1. WorldType'
  BY DEF WorldType, Erase, Unlinked
<1>2. Provenance'
  <2> SUFFICES ASSUME NEW k \in Items
               PROVE  IF item'[k] = "absent" THEN support'[k] \cup against'[k] = {}
                      ELSE support'[k] # {} /\ \A r \in support'[k] \cup against'[k] :
                                                  evidence'[r] \in {"live", "soft"}
    BY DEF Provenance, Absent, Linked
  <2>1. CASE k \in Derived(S)
    BY <2>1 DEF Erase
  <2>2. CASE k \notin Derived(S)
    <3>1. item'[k] = item[k] /\ support'[k] = support[k] /\ against'[k] = against[k]
      BY <2>2 DEF Erase
    <3>2. item[k] = "absent" \/ (support[k] \cup against[k]) \cap S = {}
      BY <2>2 DEF Derived, Absent, Linked
    <3>3. \A r \in Sources \ S : evidence'[r] = evidence[r]
      BY DEF Erase
    <3>4. support[k] \subseteq Sources /\ against[k] \subseteq Sources
      BY DEF WorldType
    <3> QED BY <3>1, <3>2, <3>3, <3>4 DEF Provenance, Absent, Linked
  <2> QED BY <2>1, <2>2
<1>3. Marked'
  <2> SUFFICES ASSUME NEW k \in Items, next'[k] # NoItem
               PROVE  item'[k] = "invalid" \/ against'[k] # {}
    BY DEF Marked
  <2>1. k \notin Derived(S) /\ next[k] # NoItem
    BY DEF Erase, Unlinked
  <2> QED BY <2>1 DEF Marked, Erase
<1> QED BY <1>1, <1>2, <1>3

-----------------------------------------------------------------------------
(* A step that leaves the World alone and erases no Evidence keeps it. *)
LEMMA UntouchedKeeps ==
  ASSUME Kept, UNCHANGED world, NotErased
  PROVE  Kept'
<1> USE DEF Kept, world
<1>1. WorldType' /\ Marked'
  BY DEF WorldType, Marked
<1>2. Provenance'
  <2> SUFFICES ASSUME NEW k \in Items
               PROVE  IF item'[k] = "absent" THEN support'[k] \cup against'[k] = {}
                      ELSE support'[k] # {} /\ \A r \in support'[k] \cup against'[k] :
                                                  evidence'[r] \in {"live", "soft"}
    BY DEF Provenance, Absent, Linked
  <2>1. support[k] \subseteq Sources /\ against[k] \subseteq Sources
    BY DEF WorldType
  <2> QED BY <2>1 DEF Provenance, Absent, Linked, NotErased
<1> QED BY <1>1, <1>2

(* An answer that changes the World is one of the writes. *)
LEMMA ChangeKeeps ==
  ASSUME TypeOK, Kept, NEW s \in Sources, answer[s] # NoAnswer, Change(s),
         UNCHANGED evidence
  PROVE  Kept'
<1> DEFINE a == answer[s]
           p == a.prior
           i == Named(s, a.value, p)
<1>1. a \in Answer
  BY DEF TypeOK
<1>2. a.value \in Values /\ p \in Items \cup {NoItem} /\ (p = NoItem => a.act = "form")
  BY <1>1 DEF Answer
<1>3. i \in Items /\ Content(a.value) \in Items
  BY <1>2, NamedIsItem, ContentIsItem
<1>4. NotErased /\ evidence'[s] = "live"
  BY DEF NotErased, Change, Fit
<1>5. \/ a.act = "form" /\ p = NoItem /\ State(i, s)
      \/ a.act = "form" /\ p # NoItem /\ MaySupersede(p, i) /\ Supersede(p, i, s)
      \/ /\ a.act = "correct" /\ MayCorrect(p, a.value)
         /\ Absent(Content(a.value)) /\ Correct(p, Content(a.value), s)
      \/ a.act = "contradict" /\ Visible(p) /\ Contradict(p, s)
      \/ a.act = "retract" /\ Visible(p) /\ Retract(p)
  BY DEF Change
<1> HIDE DEF i, p, a
<1>6. CASE a.act = "form" /\ p = NoItem /\ State(i, s)
  BY <1>3, <1>4, <1>6, StateKeeps
<1>7. CASE a.act = "form" /\ p # NoItem /\ MaySupersede(p, i) /\ Supersede(p, i, s)
  BY <1>2, <1>3, <1>4, <1>7, SupersedeKeeps
<1>8. CASE /\ a.act = "correct" /\ MayCorrect(p, a.value)
           /\ Absent(Content(a.value)) /\ Correct(p, Content(a.value), s)
  BY <1>2, <1>3, <1>4, <1>8, CorrectKeeps
<1>9. CASE a.act = "contradict" /\ Visible(p) /\ Contradict(p, s)
  BY <1>2, <1>4, <1>9, ContradictKeeps
<1>10. CASE a.act = "retract" /\ Visible(p) /\ Retract(p)
  BY <1>2, <1>4, <1>10, RetractKeeps
<1> QED BY <1>5, <1>6, <1>7, <1>8, <1>9, <1>10

(* The sources and items of a forget are sources and items. *)
LEMMA ScopeType ==
  ASSUME WorldType, NEW i \in Items
  PROVE  SourcesOf(i) \in SUBSET Sources /\ Derived(SourcesOf(i)) \in SUBSET Items
<1>1. \A k \in Chain(i) : k \in Items
  BY DEF Chain
<1>2. \A k \in Items : Linked(k) \subseteq Sources
  BY DEF WorldType, Linked
<1> QED BY <1>1, <1>2 DEF SourcesOf, Derived

(* Every step of the system keeps what the store holds of the World. *)
LEMMA NextKeeps == TypeOK /\ Kept /\ [Next]_vars => Kept'
<1> SUFFICES ASSUME TypeOK, Kept, [Next]_vars PROVE Kept'
  OBVIOUS
<1>1. CASE UNCHANGED vars
  BY <1>1, UntouchedKeeps DEF vars, world, NotErased
<1>2. ASSUME NEW s \in Sources, Accept(s) PROVE Kept'
  <2>1. NotErased
    BY <1>2 DEF Accept, NotErased, TypeOK
  <2> QED BY <1>2, <2>1, UntouchedKeeps DEF Accept
<1>3. ASSUME NEW s \in Sources, Claim(s) \/ Interpret(s) \/ Lapse(s) PROVE Kept'
  BY <1>3, UntouchedKeeps DEF Claim, Interpret, Lapse, NotErased
<1>4. ASSUME NEW s \in Sources, Apply(s) PROVE Kept'
  <2>1. answer[s] # NoAnswer /\ UNCHANGED evidence /\ (Change(s) \/ UNCHANGED world)
    BY <1>4 DEF Apply
  <2> QED BY <2>1, ChangeKeeps, UntouchedKeeps DEF NotErased
<1>5. ASSUME NEW s \in Sources, OwnerCorrects(s) PROVE Kept'
  <2>1. NotErased /\ evidence'[s] = "live"
    BY <1>5 DEF OwnerCorrects, NotErased, TypeOK
  <2>2. PICK p \in Items, v \in Values :
          MayCorrect(p, v) /\ Absent(Content(v)) /\ Correct(p, Content(v), s)
    BY <1>5 DEF OwnerCorrects
  <2>3. Content(v) \in Items
    BY ContentIsItem
  <2> QED BY <2>1, <2>2, <2>3, CorrectKeeps
<1>6. ASSUME NEW s \in Sources, Forget(s) PROVE Kept'
  <2>1. NotErased
    BY <1>6 DEF Forget, NotErased, TypeOK
  <2> QED BY <1>6, <2>1, UntouchedKeeps DEF Forget
<1>7. ASSUME NEW s \in Sources, EraseEvidence(s) PROVE Kept'
  BY <1>7, EraseKeeps DEF EraseEvidence
<1>8. ASSUME NEW i \in Items, OwnerRetracts(i) PROVE Kept'
  BY <1>8, RetractKeeps DEF OwnerRetracts, NotErased
<1>9. ASSUME NEW i \in Items, Preview(i) PROVE Kept'
  BY <1>9, UntouchedKeeps DEF Preview, NotErased
<1>10. CASE Execute
  <2>1. CASE Confirmed /\ Erase(SourcesOf(plan.target))
    <3>1. plan.target \in Items
      BY <1>10 DEF TypeOK, Execute, Plan
    <3> QED BY <2>1, <3>1, ScopeType, EraseKeeps DEF Kept
  <2>2. CASE UNCHANGED <<evidence, job, answer, world, revision>>
    BY <2>2, UntouchedKeeps DEF NotErased
  <2> QED BY <1>10, <2>1, <2>2 DEF Execute
<1> QED BY <1>1, <1>2, <1>3, <1>4, <1>5, <1>6, <1>7, <1>8, <1>9, <1>10 DEF Next

-----------------------------------------------------------------------------
(* Types of the rest of the state. *)
LEMMA RestTyped == TypeOK /\ Kept /\ [Next]_vars /\ WorldType' => TypeOK'
<1> SUFFICES ASSUME TypeOK, Kept, [Next]_vars, WorldType' PROVE TypeOK'
  OBVIOUS
<1> DEFINE Rest == /\ evidence \in [Sources -> {"none", "live", "soft", "erased"}]
                   /\ job \in [Sources -> JobStates]
                   /\ answer \in [Sources -> Answer \cup {NoAnswer}]
                   /\ revision \in Nat
                   /\ plan \in Plan \cup {NoPlan}
<1>0. Rest
  BY DEF TypeOK
<1> SUFFICES Rest'
  BY DEF TypeOK, WorldType
<1>1. CASE UNCHANGED vars
  BY <1>0, <1>1 DEF vars
<1>2. ASSUME NEW s \in Sources, Accept(s) \/ Claim(s) \/ Lapse(s) PROVE Rest'
  BY <1>0, <1>2 DEF Accept, Claim, Lapse, JobTo, JobStates
<1>3. ASSUME NEW s \in Sources, Interpret(s) PROVE Rest'
  <2>1. PICK act \in Acts, v \in Values, q \in {i \in Items : Offered(i)} \cup {NoItem} :
          /\ q = NoItem => act = "form"
          /\ answer' = [answer EXCEPT ![s] = [act |-> act, value |-> v, prior |-> q]]
    BY <1>3 DEF Interpret
  <2>2. [act |-> act, value |-> v, prior |-> q] \in Answer
    BY <2>1 DEF Answer
  <2>3. answer' \in [Sources -> Answer \cup {NoAnswer}]
    BY <1>0, <2>1, <2>2
  <2> QED BY <1>0, <1>3, <2>3 DEF Interpret
<1>4. ASSUME NEW s \in Sources, Apply(s) PROVE Rest'
  BY <1>0, <1>4 DEF Apply, Settled, JobTo, JobStates
<1>5. ASSUME NEW s \in Sources, OwnerCorrects(s) \/ Forget(s) PROVE Rest'
  BY <1>0, <1>5 DEF OwnerCorrects, Forget
<1>6. ASSUME NEW S \in SUBSET Sources, Erase(S), plan' \in {plan, NoPlan} PROVE Rest'
  <2>1. evidence' \in [Sources -> {"none", "live", "soft", "erased"}]
    BY <1>0, <1>6 DEF Erase
  <2>2. job' \in [Sources -> JobStates]
    BY <1>0, <1>6 DEF Erase, JobStates
  <2> QED BY <1>0, <1>6, <2>1, <2>2 DEF Erase
<1>7. ASSUME NEW s \in Sources, EraseEvidence(s) PROVE Rest'
  BY <1>6, <1>7 DEF EraseEvidence
<1>8. ASSUME NEW i \in Items, OwnerRetracts(i) PROVE Rest'
  BY <1>0, <1>8 DEF OwnerRetracts
<1>9. ASSUME NEW i \in Items, Preview(i) PROVE Rest'
  <2>1. plan' \in Plan
    BY <1>0, <1>9, ScopeType DEF Kept, Preview, Plan
  <2> QED BY <1>0, <1>9, <2>1 DEF Preview
<1>10. CASE Execute
  <2>1. CASE Erase(SourcesOf(plan.target))
    <3>1. SourcesOf(plan.target) \in SUBSET Sources
      BY <1>0, <1>10, ScopeType DEF Kept, Execute, Plan
    <3> QED BY <1>6, <1>10, <2>1, <3>1 DEF Execute
  <2>2. CASE UNCHANGED <<evidence, job, answer, world, revision>>
    BY <1>0, <1>10, <2>2 DEF Execute
  <2> QED BY <1>10, <2>1, <2>2 DEF Execute
<1> QED BY <1>1, <1>2, <1>3, <1>4, <1>5, <1>7, <1>8, <1>9, <1>10 DEF Next

LEMMA InitIInv == Init => IInv
BY DEF Init, IInv, TypeOK, Provenance, Marked, JobStates, Absent, Linked

LEMMA StepIInv == IInv /\ [Next]_vars => IInv'
<1> SUFFICES ASSUME IInv, [Next]_vars PROVE IInv'
  OBVIOUS
<1>1. TypeOK /\ Kept
  BY DEF IInv, Kept, TypeOK, WorldType
<1>2. Kept'
  BY <1>1, NextKeeps
<1> QED BY <1>1, <1>2, RestTyped DEF IInv, Kept

LEMMA AlwaysIInv == Spec => []IInv
BY InitIInv, StepIInv, PTL DEF Spec

(* Every variable stays in its type, stored answers and previews included. *)
THEOREM TypeCorrect == Spec => []TypeOK
BY AlwaysIInv, PTL DEF IInv

(* Nothing the World holds outlives a source it was formed from, changed   *)
(* by or contradicted by.                                                  *)
THEOREM EveryItemIsSourced == Spec => []Provenance
BY AlwaysIInv, PTL DEF IInv

-----------------------------------------------------------------------------
(* How a step may change the items: short of an erasure, provenance only   *)
(* grows, by the sources in S, and an item only becomes invalid.           *)
Grows(S) ==
  \A k \in Items :
    /\ Linked(k)' \subseteq Linked(k) \cup S
    /\ ~Absent(k) => item'[k] \in {item[k], "invalid"} /\ against[k] \subseteq against'[k]

LEMMA WriteGrows ==
  ASSUME Kept, NEW s \in Sources, NEW p \in Items, NEW i \in Items, NEW v,
         \/ State(i, s)
         \/ MaySupersede(p, i) /\ Supersede(p, i, s)
         \/ MayCorrect(p, v) /\ Absent(i) /\ Correct(p, i, s)
         \/ Contradict(p, s)
         \/ Retract(p)
  PROVE  Grows({s})
<1> SUFFICES ASSUME NEW k \in Items
             PROVE  /\ support'[k] \cup against'[k] \subseteq (support[k] \cup against[k]) \cup {s}
                    /\ item[k] # "absent" =>
                         item'[k] \in {item[k], "invalid"} /\ against[k] \subseteq against'[k]
  BY DEF Grows, Linked, Absent
<1> USE DEF Kept, WorldType, Absent
<1>1. CASE State(i, s)
  BY <1>1 DEF State
<1>2. CASE MaySupersede(p, i) /\ Supersede(p, i, s)
  BY <1>2 DEF MaySupersede, Supersede
<1>3. CASE MayCorrect(p, v) /\ Absent(i) /\ Correct(p, i, s)
  BY <1>3 DEF MayCorrect, Offered, Visible, Correct
<1>4. CASE Contradict(p, s)
  BY <1>4 DEF Contradict
<1>5. CASE Retract(p)
  BY <1>5 DEF Retract
<1> QED BY <1>1, <1>2, <1>3, <1>4, <1>5

LEMMA UntouchedGrows ==
  ASSUME Kept, UNCHANGED world
  PROVE  Grows({})
BY DEF Grows, Linked, Absent, world, Kept, WorldType

LEMMA ChangeGrows ==
  ASSUME TypeOK, Kept, NEW s \in Sources, answer[s] # NoAnswer, Change(s)
  PROVE  Grows({s})
<1> DEFINE a == answer[s]
           p == a.prior
           i == Named(s, a.value, p)
<1>1. a \in Answer
  BY DEF TypeOK
<1>2. a.value \in Values /\ p \in Items \cup {NoItem} /\ (p = NoItem => a.act = "form")
  BY <1>1 DEF Answer
<1>3. i \in Items /\ Content(a.value) \in Items
  BY <1>2, NamedIsItem, ContentIsItem
<1>5. \/ a.act = "form" /\ p = NoItem /\ State(i, s)
      \/ a.act = "form" /\ p # NoItem /\ MaySupersede(p, i) /\ Supersede(p, i, s)
      \/ /\ a.act = "correct" /\ MayCorrect(p, a.value)
         /\ Absent(Content(a.value)) /\ Correct(p, Content(a.value), s)
      \/ a.act = "contradict" /\ Visible(p) /\ Contradict(p, s)
      \/ a.act = "retract" /\ Visible(p) /\ Retract(p)
  BY DEF Change
<1> HIDE DEF i, p, a
<1>6. CASE a.act = "form" /\ p = NoItem /\ State(i, s)
  BY <1>3, <1>6, WriteGrows
<1>7. CASE a.act = "form" /\ p # NoItem /\ MaySupersede(p, i) /\ Supersede(p, i, s)
  BY <1>2, <1>3, <1>7, WriteGrows
<1>8. CASE /\ a.act = "correct" /\ MayCorrect(p, a.value)
           /\ Absent(Content(a.value)) /\ Correct(p, Content(a.value), s)
  BY <1>2, <1>3, <1>8, WriteGrows
<1>9. CASE a.act = "contradict" /\ Visible(p) /\ Contradict(p, s)
  BY <1>2, <1>9, WriteGrows
<1>10. CASE a.act = "retract" /\ Visible(p) /\ Retract(p)
  BY <1>2, <1>10, WriteGrows
<1> QED BY <1>5, <1>6, <1>7, <1>8, <1>9, <1>10

(* Every step erases, or adds at most one source that is live. *)
LEMMA NextGrows ==
  TypeOK /\ Kept /\ [Next]_vars =>
    \/ \E S \in SUBSET Sources : Erase(S)
    \/ Grows({})
    \/ \E s \in Sources : Grows({s}) /\ evidence'[s] = "live" /\ evidence[s] # "soft"
<1> SUFFICES ASSUME TypeOK, Kept, [Next]_vars,
                    ~ \E S \in SUBSET Sources : Erase(S), ~Grows({})
             PROVE  \E s \in Sources : Grows({s}) /\ evidence'[s] = "live" /\ evidence[s] # "soft"
  OBVIOUS
<1>0. ~UNCHANGED world
  BY UntouchedGrows
<1>1. ~UNCHANGED vars
  BY <1>0 DEF vars
<1>2. ASSUME NEW s \in Sources,
             Accept(s) \/ Claim(s) \/ Interpret(s) \/ Lapse(s) \/ Forget(s) \/ EraseEvidence(s)
      PROVE  FALSE
  BY <1>0, <1>2 DEF Accept, Claim, Interpret, Lapse, Forget, EraseEvidence
<1>3. ASSUME NEW s \in Sources, Apply(s)
      PROVE  Grows({s}) /\ evidence'[s] = "live" /\ evidence[s] # "soft"
  <2>1. answer[s] # NoAnswer /\ UNCHANGED evidence /\ Change(s)
    BY <1>0, <1>3 DEF Apply
  <2>2. evidence[s] = "live"
    BY <2>1 DEF Change, Fit
  <2> QED BY <2>1, <2>2, ChangeGrows
<1>4. ASSUME NEW s \in Sources, OwnerCorrects(s)
      PROVE  Grows({s}) /\ evidence'[s] = "live" /\ evidence[s] # "soft"
  <2>1. PICK p \in Items, v \in Values :
          MayCorrect(p, v) /\ Absent(Content(v)) /\ Correct(p, Content(v), s)
    BY <1>4 DEF OwnerCorrects
  <2>2. Grows({s})
    BY <2>1, ContentIsItem, WriteGrows
  <2> QED BY <1>4, <2>2 DEF OwnerCorrects, TypeOK
<1>5. ASSUME NEW i \in Items, OwnerRetracts(i) PROVE FALSE
  <2>1. Grows({})
    <3> SUFFICES ASSUME NEW k \in Items
                 PROVE  /\ support'[k] \cup against'[k] \subseteq support[k] \cup against[k]
                        /\ item'[k] \in {item[k], "invalid"} /\ against[k] \subseteq against'[k]
      BY DEF Grows, Linked, Absent
    <3> QED BY <1>5 DEF OwnerRetracts, Retract, Kept, WorldType
  <2> QED BY <2>1
<1>6. ASSUME NEW i \in Items, Preview(i) PROVE FALSE
  BY <1>0, <1>6 DEF Preview
<1>7. CASE Execute
  <2>1. Erase(SourcesOf(plan.target)) /\ plan.target \in Items
    BY <1>0, <1>7 DEF Execute, TypeOK, Plan
  <2> QED BY <2>1, ScopeType DEF Kept
<1> QED BY <1>1, <1>2, <1>3, <1>4, <1>5, <1>6, <1>7 DEF Next

(* Only a source that formation may read enters an item's provenance. *)
THEOREM OnlyLiveSourcesEnter == Spec => OnlyLiveSources
<1>1. IInv /\ [Next]_vars =>
        \A s \in Sources, i \in Items :
          s \in Linked(i)' \ Linked(i) => evidence'[s] = "live" /\ evidence[s] # "soft"
  <2> SUFFICES ASSUME IInv, [Next]_vars, NEW s \in Sources, NEW i \in Items,
                      s \in Linked(i)' \ Linked(i)
               PROVE  evidence'[s] = "live" /\ evidence[s] # "soft"
    OBVIOUS
  <2>1. TypeOK /\ Kept
    BY DEF IInv, Kept, TypeOK, WorldType
  <2>2. ASSUME NEW S \in SUBSET Sources, Erase(S) PROVE FALSE
    BY <2>2 DEF Erase, Linked
  <2>3. ~Grows({})
    BY DEF Grows
  <2>4. PICK r \in Sources : Grows({r}) /\ evidence'[r] = "live" /\ evidence[r] # "soft"
    BY <2>1, <2>2, <2>3, NextGrows
  <2>5. s = r
    BY <2>4 DEF Grows
  <2> QED BY <2>4, <2>5
<1> QED BY <1>1, AlwaysIInv, PTL DEF Spec, OnlyLiveSources

(* A value that was corrected, retracted, replaced or contradicted never   *)
(* stands undisputed again, also when the rest of its history is erased.   *)
THEOREM OutdatedStays == Spec => OutdatedStaysMarked
<1>1. IInv /\ [Next]_vars =>
        \A i \in Items : Outdated(i) => Outdated(i)' \/ Absent(i)'
  <2> SUFFICES ASSUME IInv, [Next]_vars, NEW i \in Items, Outdated(i), item'[i] # "absent"
               PROVE  Outdated(i)'
    BY DEF Absent
  <2>1. TypeOK /\ Kept
    BY DEF IInv, Kept, TypeOK, WorldType
  <2>2. item[i] # "absent" /\ (item[i] = "invalid" \/ against[i] # {})
    BY DEF Outdated, IInv, Marked, Absent, Superseded
  <2>3. item'[i] = "invalid" \/ against'[i] # {}
    <3>1. ASSUME NEW S \in SUBSET Sources, Erase(S)
          PROVE  item'[i] = item[i] /\ against'[i] = against[i]
      BY <3>1 DEF Erase
    <3>2. ASSUME NEW S, Grows(S)
          PROVE  item'[i] \in {item[i], "invalid"} /\ against[i] \subseteq against'[i]
      BY <2>2, <3>2 DEF Grows, Absent
    <3> QED BY <2>1, <2>2, <3>1, <3>2, NextGrows
  <2> QED BY <2>3 DEF Outdated, Absent, Superseded
<1> QED BY <1>1, AlwaysIInv, PTL DEF Spec, OutdatedStaysMarked

-----------------------------------------------------------------------------
(* A step with the revision unchanged leaves the World alone, and no step  *)
(* sets the revision back.                                                 *)
LEMMA RevisionTells ==
  TypeOK /\ [Next]_vars =>
    /\ revision' \in {revision, revision + 1}
    /\ revision' = revision => UNCHANGED world
<1> SUFFICES ASSUME TypeOK, [Next]_vars
             PROVE  /\ revision' \in {revision, revision + 1}
                    /\ revision' = revision => UNCHANGED world
  OBVIOUS
<1>0. revision \in Nat /\ revision + 1 # revision
  BY DEF TypeOK
<1>1. CASE UNCHANGED vars
  BY <1>1 DEF vars
<1>2. ASSUME NEW s \in Sources, Accept(s) \/ Claim(s) \/ Interpret(s) \/ Lapse(s)
      PROVE  UNCHANGED <<revision, world>>
  BY <1>2 DEF Accept, Claim, Interpret, Lapse
<1>3. ASSUME NEW s \in Sources, Apply(s)
      PROVE  revision' = revision + 1 \/ UNCHANGED <<revision, world>>
  BY <1>3 DEF Apply, Settled
<1>4. ASSUME NEW s \in Sources, OwnerCorrects(s) \/ Forget(s) \/ EraseEvidence(s)
      PROVE  revision' = revision + 1
  BY <1>4 DEF OwnerCorrects, Forget, EraseEvidence, Erase
<1>5. ASSUME NEW i \in Items, OwnerRetracts(i) PROVE revision' = revision + 1
  BY <1>5 DEF OwnerRetracts
<1>6. ASSUME NEW i \in Items, Preview(i) PROVE UNCHANGED <<revision, world>>
  BY <1>6 DEF Preview
<1>7. CASE Execute
  <2>1. ASSUME NEW S, Erase(S) PROVE revision' = revision + 1
    BY <2>1 DEF Erase
  <2>2. CASE Erase(SourcesOf(plan.target))
    BY <1>0, <2>1, <2>2
  <2>3. CASE UNCHANGED <<evidence, job, answer, world, revision>>
    BY <2>3
  <2> QED BY <1>7, <2>2, <2>3 DEF Execute
<1> QED BY <1>0, <1>1, <1>2, <1>3, <1>4, <1>5, <1>6, <1>7 DEF Next

(* What a forget would erase depends on the World only. *)
LEMMA ScopeIsOfTheWorld ==
  ASSUME UNCHANGED world, NEW i \in Items
  PROVE  /\ SourcesOf(i)' = SourcesOf(i)
         /\ Derived(SourcesOf(i))' = Derived(SourcesOf(i))
<1>1. item' = item /\ support' = support /\ against' = against /\ next' = next
  BY DEF world
<1>2. ASSUME NEW k PROVE From(k)' = From(k) /\ Linked(k)' = Linked(k) /\ Absent(k)' = Absent(k)
  BY <1>1 DEF From, Linked, Absent
<1>3. Chain(i)' = Chain(i)
  BY <1>2 DEF Chain
<1>4. SourcesOf(i)' = SourcesOf(i)
  BY <1>2, <1>3 DEF SourcesOf
<1> QED BY <1>2, <1>4 DEF Derived

LEMMA PlanStep == IInv /\ PlanIsExact /\ [Next]_vars => PlanIsExact'
<1> SUFFICES ASSUME IInv, PlanIsExact, [Next]_vars, plan' # NoPlan,
                    NEW i \in Items, plan'.target = i
             PROVE  /\ plan'.revision <= revision'
                    /\ plan'.revision = revision' =>
                         plan'.sources = SourcesOf(i)' /\ plan'.gone = Derived(SourcesOf(i))'
  BY DEF PlanIsExact
<1>0. TypeOK
  BY DEF IInv
<1>1. CASE plan' = plan
  <2>1. plan.revision \in Nat /\ revision \in Nat
    BY <1>0, <1>1 DEF TypeOK, Plan
  <2>2. plan.revision <= revision /\ revision' \in {revision, revision + 1}
    BY <1>0, <1>1, RevisionTells DEF PlanIsExact
  <2>3. plan'.revision <= revision'
    BY <1>1, <2>1, <2>2
  <2>4. ASSUME plan'.revision = revision'
        PROVE  plan'.sources = SourcesOf(i)' /\ plan'.gone = Derived(SourcesOf(i))'
    <3>1. plan.revision = revision /\ revision' = revision
      BY <1>1, <2>1, <2>2, <2>4
    <3>2. UNCHANGED world
      BY <1>0, <3>1, RevisionTells
    <3>3. SourcesOf(i)' = SourcesOf(i) /\ Derived(SourcesOf(i))' = Derived(SourcesOf(i))
      BY <3>2, ScopeIsOfTheWorld
    <3>4. plan.sources = SourcesOf(i) /\ plan.gone = Derived(SourcesOf(i))
      BY <1>1, <3>1 DEF PlanIsExact
    <3> QED BY <1>1, <3>3, <3>4
  <2> QED BY <2>3, <2>4
<1>2. ASSUME NEW k \in Items, Preview(k)
      PROVE  /\ plan'.revision <= revision'
             /\ plan'.sources = SourcesOf(i)' /\ plan'.gone = Derived(SourcesOf(i))'
  <2>1. UNCHANGED world /\ revision' = revision /\ revision \in Nat
    BY <1>0, <1>2 DEF Preview, TypeOK
  <2>2. /\ plan'.target = k /\ plan'.revision = revision
        /\ plan'.gone = Derived(SourcesOf(k)) /\ plan'.sources = SourcesOf(k)
    BY <1>2 DEF Preview
  <2>3. SourcesOf(i)' = SourcesOf(i) /\ Derived(SourcesOf(i))' = Derived(SourcesOf(i))
    BY <2>1, ScopeIsOfTheWorld
  <2> QED BY <2>1, <2>2, <2>3
<1>3. ~Execute
  BY DEF Execute
<1>4. ASSUME NEW s \in Sources,
             \/ Accept(s) \/ Claim(s) \/ Interpret(s) \/ Lapse(s) \/ Apply(s)
             \/ OwnerCorrects(s) \/ Forget(s) \/ EraseEvidence(s)
      PROVE  plan' = plan
  BY <1>4 DEF Accept, Claim, Interpret, Lapse, Apply, OwnerCorrects, Forget, EraseEvidence
<1>5. ASSUME NEW k \in Items, OwnerRetracts(k) PROVE plan' = plan
  BY <1>5 DEF OwnerRetracts
<1>6. ASSUME UNCHANGED vars PROVE plan' = plan
  BY <1>6 DEF vars
<1> QED BY <1>1, <1>2, <1>3, <1>4, <1>5, <1>6 DEF Next

LEMMA AlwaysPlan == Spec => [](IInv /\ PlanIsExact)
<1>1. Init => IInv /\ PlanIsExact
  BY InitIInv DEF Init, PlanIsExact
<1>2. IInv /\ PlanIsExact /\ [Next]_vars => (IInv /\ PlanIsExact)'
  BY StepIInv, PlanStep
<1> QED BY <1>1, <1>2, PTL DEF Spec

(* Only a confirmed forget is an execution: it erases the sources of its   *)
(* target's history.                                                       *)
LEMMA ExecutionErases ==
  ASSUME IInv, [Next]_vars, Executed
  PROVE  /\ plan.target \in Items /\ Confirmed /\ Erase(SourcesOf(plan.target))
         /\ SourcesOf(plan.target) \in SUBSET Sources
<1>0. TypeOK /\ WorldType
  BY DEF IInv, TypeOK, WorldType
<1>1. plan # NoPlan /\ plan' = NoPlan /\ evidence' # evidence
  BY DEF Executed, Erased
<1>2. plan.target \in Items
  BY <1>0, <1>1 DEF TypeOK, Plan
<1>3. Execute
  <2>1. ASSUME NEW s \in Sources,
               \/ Accept(s) \/ Claim(s) \/ Interpret(s) \/ Lapse(s) \/ Apply(s)
               \/ OwnerCorrects(s) \/ Forget(s) \/ EraseEvidence(s)
        PROVE  plan' = plan
    BY <2>1 DEF Accept, Claim, Interpret, Lapse, Apply, OwnerCorrects, Forget, EraseEvidence
  <2>2. ASSUME NEW i \in Items, OwnerRetracts(i) \/ Preview(i) PROVE plan' = plan \/ plan = NoPlan
    BY <2>2 DEF OwnerRetracts, Preview
  <2>3. ~UNCHANGED vars
    BY <1>1 DEF vars
  <2> QED BY <1>1, <2>1, <2>2, <2>3 DEF Next
<1>4. Confirmed /\ Erase(SourcesOf(plan.target))
  BY <1>1, <1>3 DEF Execute
<1> QED BY <1>0, <1>2, <1>4, ScopeType

(* A confirmed forget erases what its preview listed, no more and no less, *)
(* whatever happened while the owner read the preview.                     *)
THEOREM ForgetIsExact == Spec => ForgetIsAsPreviewed
<1>1. IInv /\ PlanIsExact /\ [Next]_vars =>
        (Executed => Held \ Held' = plan.gone /\ Erased' \ Erased = plan.sources)
  <2> SUFFICES ASSUME IInv, PlanIsExact, [Next]_vars, Executed
               PROVE  Held \ Held' = plan.gone /\ Erased' \ Erased = plan.sources
    OBVIOUS
  <2> DEFINE S == SourcesOf(plan.target)
  <2>1. Erase(S) /\ Confirmed /\ S \in SUBSET Sources
    BY ExecutionErases
  <2>2. plan.sources = S /\ plan.gone = Derived(S)
    BY <2>1, ExecutionErases DEF PlanIsExact, Executed, Confirmed
  <2>3. \A s \in S : evidence[s] # "erased"
    BY <2>1 DEF Confirmed, MayErase
  <2> HIDE DEF S
  <2>4. Held \ Held' = Derived(S)
    <3>1. \A i \in Items : item'[i] = IF i \in Derived(S) THEN "absent" ELSE item[i]
      BY <2>1 DEF Erase
    <3> QED BY <3>1 DEF Held, Absent, Derived
  <2>5. Erased' \ Erased = S
    <3>1. \A s \in Sources : evidence'[s] = IF s \in S THEN "erased" ELSE evidence[s]
      BY <2>1 DEF Erase
    <3> QED BY <2>1, <2>3, <3>1 DEF Erased
  <2> QED BY <2>2, <2>4, <2>5
<1> QED BY <1>1, AlwaysPlan, PTL DEF Spec, ForgetIsAsPreviewed

(* Forgetting an item leaves no earlier or later version of it. *)
THEOREM HistoryGoesWhole == Spec => WholeHistoryGoes
<1>1. IInv /\ [Next]_vars =>
        (Executed => \A i \in Items :
           (i = plan.target \/ i \in Ancestors(plan.target) \/ plan.target \in Ancestors(i))
           => Absent(i)')
  <2> SUFFICES ASSUME IInv, [Next]_vars, Executed, NEW i \in Items,
                      i = plan.target \/ i \in Ancestors(plan.target) \/ plan.target \in Ancestors(i)
               PROVE  item'[i] = "absent"
    BY DEF Absent
  <2> DEFINE S == SourcesOf(plan.target)
  <2>1. Erase(S) /\ plan.target \in Items
    BY ExecutionErases
  <2>2. i \in Chain(plan.target)
    BY <2>1 DEF Chain, From, Ancestors
  <2>3. Linked(i) \subseteq S
    BY <2>2 DEF SourcesOf
  <2>4. Absent(i) \/ Linked(i) # {}
    BY DEF IInv, Provenance, Linked
  <2> HIDE DEF S
  <2>5. item'[i] = IF i \in Derived(S) THEN "absent" ELSE item[i]
    BY <2>1 DEF Erase
  <2> QED BY <2>3, <2>4, <2>5 DEF Derived, Absent
<1> QED BY <1>1, AlwaysIInv, PTL DEF Spec, WholeHistoryGoes

(* No claimed answer loses the item it is about to a World-item forget. *)
THEOREM ReadersSettle == Spec => ReadersSettleFirst
<1>1. IInv /\ [Next]_vars => (Executed => \A s \in Sources : ~Pulled(s))
  <2> SUFFICES ASSUME IInv, [Next]_vars, Executed,
                      NEW s \in Sources, job[s] = "processing", job'[s] = "processing"
               PROVE  FALSE
    BY DEF Pulled
  <2> DEFINE S == SourcesOf(plan.target)
  <2>1. Erase(S) /\ ~InProgress(S)
    BY ExecutionErases DEF Confirmed, MayErase
  <2> HIDE DEF S
  <2>2. s \in S
    BY <2>1 DEF InProgress
  <2>3. job'[s] = "erased"
    BY <2>1, <2>2 DEF Erase
  <2> QED BY <2>3
<1> QED BY <1>1, AlwaysIInv, PTL DEF Spec, ReadersSettleFirst

(* Provenance as a whole: what an item rests on was readable when it was   *)
(* attached, and has not been erased.                                      *)
THEOREM ProvenanceStands == Spec => ProvenanceHolds
BY EveryItemIsSourced, OnlyLiveSourcesEnter, PTL DEF ProvenanceHolds

(* Forgetting an item of the World: what was listed goes, with the whole   *)
(* history, and not while a model reads it.                                *)
THEOREM ForgetsExactly == Spec => ForgettingIsExact
BY ForgetIsExact, HistoryGoesWhole, ReadersSettle, PTL DEF ForgettingIsExact

-----------------------------------------------------------------------------
(* A history is a line.  A replacement goes from an item on offer, which   *)
(* nothing has replaced, to an item that was not there, which replaces     *)
(* nothing and is replaced by nothing; erasure only takes links away, and  *)
(* every link to what it erases.                                           *)
Replaces(p, i) == item'[i] # "absent" /\ next' = [next EXCEPT ![p] = i]

(* What a step may do to items and links. *)
Linking ==
  \/ \E p \in Items, i \in Items :
       /\ Offered(p) /\ p # i /\ Absent(i) /\ Replaces(p, i)
       /\ \A k \in Items : ~Absent(k) => item'[k] # "absent"
  \/ UNCHANGED next /\ \A k \in Items : ~Absent(k) => item'[k] # "absent"
  \/ \E gone \in SUBSET Items :
       /\ next' = Unlinked(gone)
       /\ \A k \in Items \ gone : item'[k] = item[k]

LEMMA LineKept ==
  ASSUME WorldType, HistoryIsALine, Linking PROVE HistoryIsALine'
<1> DEFINE Links == \A i \in Items : next[i] # NoItem =>
                      /\ item[i] # "absent" /\ item[next[i]] # "absent"
                      /\ \A k \in Items : next[k] = next[i] => k = i
           NoCircle == \A S \in SUBSET Items :
                         (\A i \in S : next[i] # NoItem) /\ S # {} => \E i \in S : next[i] \notin S
<1>1. HistoryIsALine <=> Links /\ NoCircle
  BY DEF HistoryIsALine, Absent, Superseded
<1>2. HistoryIsALine' <=> Links' /\ NoCircle'
  BY DEF HistoryIsALine, Absent, Superseded
<1>3. ASSUME NEW p \in Items, NEW i \in Items, Offered(p), p # i, Absent(i), Replaces(p, i),
             \A k \in Items : ~Absent(k) => item'[k] # "absent"
      PROVE  Links' /\ NoCircle'
  <2>1. /\ next[p] = NoItem /\ item[p] # "absent" /\ item[i] = "absent" /\ next[i] = NoItem
        /\ item'[i] # "absent"
    BY <1>1, <1>3 DEF Offered, Visible, Superseded, Absent, Replaces
  <2>2. /\ next'[p] = i /\ \A k \in Items \ {p} : next'[k] = next[k]
        /\ \A k \in Items : item[k] # "absent" => item'[k] # "absent"
    BY <1>3 DEF Replaces, WorldType, Absent
  <2>3. Links'
    <3> SUFFICES ASSUME NEW k \in Items, next'[k] # NoItem
                 PROVE  /\ item'[k] # "absent" /\ item'[next'[k]] # "absent"
                        /\ \A l \in Items : next'[l] = next'[k] => l = k
      OBVIOUS
    <3>1. \A l \in Items : next[l] # i
      BY <1>1, <2>1, NoItemAssumption
    <3>2. CASE k = p
      BY <2>1, <2>2, <3>1, <3>2
    <3>3. CASE k # p
      <4>1. next'[k] = next[k] /\ next[k] # NoItem /\ next[k] \in Items
        BY <2>2, <3>3 DEF WorldType
      <4>2. item'[k] # "absent" /\ item'[next[k]] # "absent"
        BY <1>1, <2>2, <4>1
      <4>3. \A l \in Items : next'[l] = next[k] => l = k
        BY <1>1, <2>2, <3>1, <4>1
      <4> QED BY <4>1, <4>2, <4>3
    <3> QED BY <3>2, <3>3
  <2>4. NoCircle'
    <3> SUFFICES ASSUME NEW S \in SUBSET Items, \A k \in S : next'[k] # NoItem, S # {}
                 PROVE  \E k \in S : next'[k] \notin S
      OBVIOUS
    <3>1. CASE p \in S
      <4>1. i \notin S
        BY <1>3, <2>1, <2>2
      <4> QED BY <2>2, <3>1, <4>1
    <3>2. CASE p \notin S
      <4>1. \A k \in S : next'[k] = next[k]
        BY <2>2, <3>2
      <4> QED BY <1>1, <4>1
    <3> QED BY <3>1, <3>2
  <2> QED BY <2>3, <2>4
<1>4. ASSUME UNCHANGED next, \A k \in Items : ~Absent(k) => item'[k] # "absent"
      PROVE  Links' /\ NoCircle'
  <2>1. \A k \in Items : next[k] # NoItem => next[k] \in Items
    BY DEF WorldType
  <2> QED BY <1>1, <1>4, <2>1 DEF Absent
<1>5. ASSUME NEW gone \in SUBSET Items, next' = Unlinked(gone),
             \A k \in Items \ gone : item'[k] = item[k]
      PROVE  Links' /\ NoCircle'
  <2>1. \A k \in Items : next'[k] # NoItem =>
                           next'[k] = next[k] /\ k \notin gone /\ next[k] \in Items \ gone
    BY <1>5 DEF Unlinked, WorldType
  <2> QED BY <1>1, <1>5, <2>1
<1> QED BY <1>2, <1>3, <1>4, <1>5 DEF Linking

LEMMA ChangeLinks ==
  ASSUME TypeOK, Kept, NEW s \in Sources, answer[s] # NoAnswer, Change(s)
  PROVE  Linking
<1> DEFINE a == answer[s]
           p == a.prior
           i == Named(s, a.value, p)
<1>1. a \in Answer
  BY DEF TypeOK
<1>2. a.value \in Values /\ p \in Items \cup {NoItem} /\ (p = NoItem => a.act = "form")
  BY <1>1 DEF Answer
<1>3. i \in Items /\ Content(a.value) \in Items
  BY <1>2, NamedIsItem, ContentIsItem
<1>4. \/ a.act = "form" /\ p = NoItem /\ State(i, s)
      \/ a.act = "form" /\ p # NoItem /\ MaySupersede(p, i) /\ Supersede(p, i, s)
      \/ /\ a.act = "correct" /\ MayCorrect(p, a.value)
         /\ Absent(Content(a.value)) /\ Correct(p, Content(a.value), s)
      \/ a.act = "contradict" /\ Visible(p) /\ Contradict(p, s)
      \/ a.act = "retract" /\ Visible(p) /\ Retract(p)
  BY DEF Change
<1> HIDE DEF i, p, a
<1> USE DEF Linking, Absent, Kept, WorldType
<1>5. CASE State(i, s)
  BY <1>3, <1>5 DEF State
<1>6. CASE p # NoItem /\ MaySupersede(p, i) /\ Supersede(p, i, s)
  BY <1>2, <1>3, <1>6 DEF Supersede, MaySupersede, Replaces
<1>7. CASE /\ a.act = "correct" /\ MayCorrect(p, a.value)
           /\ Absent(Content(a.value)) /\ Correct(p, Content(a.value), s)
  <2>1. p \in Items /\ p # Content(a.value)
    BY <1>2, <1>7 DEF MayCorrect, Offered, Visible
  <2> QED BY <1>3, <1>7, <2>1 DEF Correct, MayCorrect, Replaces
<1>8. CASE Contradict(p, s) \/ Retract(p)
  BY <1>8 DEF Contradict, Retract
<1> QED BY <1>4, <1>5, <1>6, <1>7, <1>8

LEMMA StepLinks == TypeOK /\ Kept /\ [Next]_vars => Linking
<1> SUFFICES ASSUME TypeOK, Kept, [Next]_vars PROVE Linking
  OBVIOUS
<1>1. ASSUME UNCHANGED world PROVE Linking
  BY <1>1 DEF world, Linking, Absent
<1>2. ASSUME NEW S, Erase(S) PROVE Linking
  BY <1>2 DEF Erase, Derived, Linking
<1>3. ASSUME NEW s \in Sources,
             \/ Accept(s) \/ Claim(s) \/ Interpret(s) \/ Lapse(s) \/ Forget(s)
      PROVE  Linking
  BY <1>1, <1>3 DEF Accept, Claim, Interpret, Lapse, Forget
<1>4. ASSUME NEW s \in Sources, Apply(s) PROVE Linking
  BY <1>1, <1>4, ChangeLinks DEF Apply
<1>5. ASSUME NEW s \in Sources, OwnerCorrects(s) PROVE Linking
  <2>1. PICK p \in Items, v \in Values :
          MayCorrect(p, v) /\ Absent(Content(v)) /\ Correct(p, Content(v), s)
    BY <1>5 DEF OwnerCorrects
  <2>2. Content(v) \in Items /\ p # Content(v)
    BY <2>1, ContentIsItem DEF MayCorrect, Offered, Visible, Absent
  <2> QED BY <2>1, <2>2 DEF Correct, MayCorrect, Replaces, Linking, Absent, Kept, WorldType
<1>6. ASSUME NEW s \in Sources, EraseEvidence(s) PROVE Linking
  BY <1>2, <1>6 DEF EraseEvidence
<1>7. ASSUME NEW i \in Items, OwnerRetracts(i) PROVE Linking
  BY <1>7 DEF OwnerRetracts, Retract, Linking, Absent, Kept, WorldType
<1>8. ASSUME NEW i \in Items, Preview(i) PROVE Linking
  BY <1>1, <1>8 DEF Preview
<1>9. CASE Execute
  BY <1>1, <1>2, <1>9 DEF Execute
<1>10. CASE UNCHANGED vars
  BY <1>1, <1>10 DEF vars
<1> QED BY <1>3, <1>4, <1>5, <1>6, <1>7, <1>8, <1>9, <1>10 DEF Next

(* A history is a line, also when a value returns and after parts of it    *)
(* were erased: every item has at most one successor and one predecessor,  *)
(* both there, and no items replace each other in a circle.                *)
THEOREM HistoryStaysALine == Spec => []HistoryIsALine
<1>1. Init => HistoryIsALine
  BY DEF Init, HistoryIsALine, Superseded
<1>2. IInv /\ HistoryIsALine /\ [Next]_vars => HistoryIsALine'
  BY StepLinks, LineKept DEF IInv, Kept, TypeOK, WorldType
<1> QED BY <1>1, <1>2, AlwaysIInv, PTL DEF Spec
=============================================================================
