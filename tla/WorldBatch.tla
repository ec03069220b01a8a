------------------------------- MODULE WorldBatch -------------------------------
(***************************************************************************)
(* What one answer of the model does to the World.  An answer holds        *)
(* several items; it is compiled, stored, and applied in one transaction,  *)
(* item after item, each against what the items before it have written.    *)
(* Items name people: a person is found by name, made on first mention,    *)
(* merged with another ("b is a"), or renamed ("not a but b"), and what is *)
(* known of a person moves along.  Forming a partner ends what says the    *)
(* owner is single.  Evidence is forgotten or erased in between.           *)
(*                                                                         *)
(* Kinds of entities, topics, lifecycle marks, spans, times and            *)
(* confidences are left out; values of attributes that return are in       *)
(* WorldVersions, the life of a job in WorldJob.                           *)
(***************************************************************************)
EXTENDS Naturals, Sequences, FiniteSets

CONSTANTS Evidence,      \* the Evidence rows, one World job each
          Names, Owner,  \* the people: named ones, and the owner
          NoOne, NoItem, NoAnswer,
          Answers,       \* what the model may answer: sequences of items
          MaxWaiting,    \* bound: answers that wait to be applied
          MaxLost        \* bound: Evidence forgotten or erased

People == Names \cup {Owner}

(* An item of an answer.  "supersede" is a form that names what it         *)
(* supersedes; prior is what an item is about, as its content says it.     *)
Acts == {"form", "supersede", "correct", "retract", "contradict"}
Kinds == {"naming", "attribute", "relationship", "alias", "event"}
Fields == {"act", "kind", "who", "what", "whom", "say", "prior"}

ASSUME PeopleAssumption == Owner \notin Names /\ NoOne \notin Names \cup {Owner}
ASSUME AnswersAssumption ==
  \A b \in Answers :
    /\ Len(b) \in Nat /\ DOMAIN b = 1 .. Len(b)
    /\ \A k \in DOMAIN b : /\ DOMAIN b[k] = Fields /\ b[k].act \in Acts /\ b[k].kind \in Kinds
                            /\ {b[k].who, b[k].whom} \subseteq People \cup {NoOne}

VARIABLES evidence,   \* "none", "live", "soft" or "erased"
          job,        \* the World job of an Evidence
          answer,     \* its stored interpretation (the checkpoint)
          world       \* the rows of the World, see Init

vars == <<evidence, job, answer, world>>

(* The id of a row is a digest of what it says; a returning relationship   *)
(* and a renamed cognition add where they come from.                       *)
Rel(s, t, o) == <<"relationship", s, t, o, <<>>>>
Cog(what, who) == <<"cognition", what, who, <<>>>>
Event(what) == <<"event", what>>
IsRel(id) == id[1] = "relationship"
Same(id, base) == id[1] = base[1] /\ id[2] = base[2] /\ id[3] = base[3] /\ id[4] = base[4]

(* A row: its words (a person named in them, for a cognition), whom it is  *)
(* about, whether it still stands, who states and who contradicts it, and  *)
(* whose words it holds.                                                   *)
Row(says, target, e) ==
  [says |-> says, target |-> target, stands |-> TRUE,
   support |-> {e}, against |-> {}, words |-> {e}]

Init ==
  /\ evidence = [e \in Evidence |-> "none"]
  /\ job = [e \in Evidence |-> "none"]
  /\ answer = [e \in Evidence |-> NoAnswer]
  /\ world = [entity |-> [n \in People |-> "absent"],
              born |-> <<>>,                             \* entities as they were formed
              sources |-> [n \in People |-> {}],         \* entity_formation ledger
              row |-> <<>>,                              \* cognition, relationship, world_event
              next |-> <<>>,                             \* cognition_ and relationship_transitions
              retracted |-> {},                          \* retraction
              led |-> {},                                \* alias merges and name corrections
              pending |-> {}]                            \* transitions of the answer at work

-----------------------------------------------------------------------------
(* Reading the World.                                                      *)
Has(w, id) == id \in DOMAIN w.row
Stands(w, id) == Has(w, id) /\ w.row[id].stands
Linked(r) == r.support \cup r.against
Live(S) == S # {} /\ \A e \in S : evidence[e] = "live"
Visible(w, id) == Stands(w, id) /\ Live(Linked(w.row[id]))
Superseded(w, id) == id \in DOMAIN w.next
Offered(w, id) == Visible(w, id) /\ ~Superseded(w, id)

(* What a row replaced, one step after another. *)
Ancestors(w, id) ==
  LET up[n \in 0 .. Cardinality(DOMAIN w.next)] ==
        IF n = 0 THEN {id}
        ELSE LET S == up[n - 1] IN S \cup {p \in DOMAIN w.next : w.next[p] \in S}
  IN up[Cardinality(DOMAIN w.next)] \ {id}

-----------------------------------------------------------------------------
(* Writing the World.  A batch works on a copy.                            *)
Over(f, g) == [k \in DOMAIN f \cup DOMAIN g |-> IF k \in DOMAIN f THEN f[k] ELSE g[k]]
Put(w, id, r) == [w EXCEPT !.row = Over([k \in {id} |-> r], @)]
Support(w, id, e) == [w EXCEPT !.row[id].support = @ \cup {e}]
Retire(w, id) == [w EXCEPT !.row[id].stands = FALSE]
Link(w, p, id) == [w EXCEPT !.next = Over(@, [k \in {p} |-> id])]     \* INSERT OR IGNORE

(* A fact stated again takes the new Evidence, whether it stands or not. *)
State(w, id, r, e) == IF Has(w, id) THEN Support(w, id, e) ELSE Put(w, id, r)

(* A row comes back under its id, with the Evidence it had. *)
Revive(w, id, r) ==
  Put(w, id, IF Has(w, id) THEN [r EXCEPT !.support = @ \cup w.row[id].support,
                                          !.against = w.row[id].against] ELSE r)

(* _resolve_target_entity and _ensure_owner_entity. *)
Made(w, n) ==
  IF w.entity[n] # "absent" THEN w
  ELSE [w EXCEPT !.entity[n] = "current", !.born = Append(@, n)]
Gone(w, n) == w.entity[n] = "invalid"
Sourced(w, N, e) ==
  [w EXCEPT !.sources = [n \in People |-> IF n \in N THEN @[n] \cup {e} ELSE @[n]]]

-----------------------------------------------------------------------------
(* Naming a person, saying something of oneself or of a person.            *)
Target(i) == IF i.who = Owner THEN NoOne ELSE i.who
Fact(i) == Cog(IF i.kind = "naming" THEN "name" ELSE i.what, i.who)

(* A pronoun says something of a person without the name. *)
Named(i) == IF i.what = "pronoun" THEN NoOne ELSE Target(i)

FormNaming(w, i, e) ==
  State(Sourced(Made(w, i.who), IF w.entity[i.who] = "absent" THEN {i.who} ELSE {}, e),
        Fact(i), Row(i.who, NoOne, e), e)

FormAttribute(w, i, e) ==
  LET made == IF i.who = Owner THEN w ELSE Made(w, i.who)
      named == IF Has(w, Fact(i)) THEN {} ELSE {Named(i)} \cap Names
  IN State(Sourced(made, named, e), Fact(i), Row(Named(i), Target(i), e), e)

RefusedAttribute(w, i) ==
  \/ i.who # Owner /\ Gone(w, i.who)
  \/ Has(w, Fact(i)) /\ i.kind = "attribute" /\ w.row[Fact(i)].target # Target(i)

-----------------------------------------------------------------------------
(* Relationships.                                                          *)
Base(i) == Rel(i.who, i.what, i.whom)
Occurrences(w, i) == {id \in DOMAIN w.row : IsRel(id) /\ Same(id, Base(i)) /\ Offered(w, id)}

(* resolve_state_version: a relationship stated again is the one that      *)
(* stands; one that returns after it was superseded is a new occurrence.   *)
Version(w, i, e) ==
  IF i.act = "supersede"
  THEN IF Has(w, Base(i)) /\ Base(i) \in Ancestors(w, i.prior)
       THEN <<"relationship", i.who, i.what, i.whom, <<i.prior, e>>>> ELSE Base(i)
  ELSE IF Occurrences(w, i) = {} THEN Base(i) ELSE CHOOSE id \in Occurrences(w, i) : TRUE

RefusedRelationship(w, i, e) ==
  \/ i.act = "form" /\ Cardinality(Occurrences(w, i)) > 1
  \/ i.act = "form" /\ Occurrences(w, i) = {} /\ Has(w, Base(i))
  \/ i.act = "supersede" /\ (~Offered(w, i.prior) \/ i.prior[2] # i.who \/ Has(w, Version(w, i, e)))
  \/ Gone(w, i.who) \/ Gone(w, i.whom)

(* Mutant of SingleNoMore: only the plain sentence is looked for. *)
PlainOnly(w, n, e) ==
  IF Stands(w, Cog("single", Owner)) THEN Retire(w, Cog("single", Owner)) ELSE w

(* _reconcile_single_status_cognitions: the plain sentence goes, a mixed   *)
(* one is rewritten with the partner's name.  The new text keeps the rest  *)
(* of the old one and is said to come from the new Evidence alone.         *)
SingleNoMore(w, n, e) ==
  LET plain == IF Stands(w, Cog("single", Owner)) THEN Retire(w, Cog("single", Owner)) ELSE w
      mixed == Cog("mixed", Owner)
      both == [Row(n, NoOne, e) EXCEPT !.words = @ \cup w.row[mixed].words]
  IN IF Stands(w, mixed)
     THEN Link(Put(Retire(plain, mixed), Cog("with", n), both), mixed, Cog("with", n)) ELSE plain

Partner(i) == i.who = Owner /\ i.what = "partner"

(* The INSERT of the rewritten text fails: no item can be refused for it,  *)
(* the job fails.                                                          *)
Rewritten(w, i, e) ==
  /\ i.kind = "relationship" /\ i.act \in {"form", "supersede"} /\ Partner(i)
  /\ ~Has(w, Version(w, i, e)) /\ Stands(w, Cog("mixed", Owner)) /\ Has(w, Cog("with", i.whom))

FormRelationship(w, i, e) ==
  LET id == Version(w, i, e)
      made == Sourced(Made(Made(w, i.who), i.whom), {i.who, i.whom} \ {Owner}, e)
      stated == State(made, id, Row(i.say, NoOne, e), e)
      single == IF Partner(i) /\ ~Has(w, id) THEN SingleNoMore(stated, i.whom, e) ELSE stated
  IN IF i.act = "supersede" THEN Link(Support(single, i.prior, e), i.prior, id) ELSE single

RefusedCorrection(w, i) ==
  LET p == i.prior  n == Base(i)
  IN IF ~Stands(w, p)
     THEN ~Has(w, p) \/ ~Stands(w, n) \/ w.row[n].says # i.say
     ELSE \/ w.row[p].says = i.say \/ Gone(w, i.who) \/ Gone(w, i.whom)
          \/ n # p /\ Stands(w, n) /\ w.row[n].says # i.say

CorrectRelationship(w, i, e) ==
  LET made == Retire(Made(Made(w, i.who), i.whom), i.prior)
  IN IF ~Stands(w, i.prior) THEN w
     ELSE Link(IF Stands(w, Base(i)) THEN Support(made, Base(i), e)
               ELSE Revive(made, Base(i), Row(i.say, NoOne, e)), i.prior, Base(i))

-----------------------------------------------------------------------------
(* Events.  The people in an event are not moved when they are merged.     *)
RefusedEvent(w, i) ==
  LET id == Event(i.what)
  IN CASE i.act = "form" -> Gone(w, i.who) \/ (Has(w, id) /\ w.row[id].target # i.who)
       [] i.act = "correct" /\ Stands(w, i.prior) -> Gone(w, i.who)
       [] OTHER -> ~Has(w, i.prior) \/ ~Stands(w, id)

FormEvent(w, i, e) == State(Made(w, i.who), Event(i.what), Row(NoOne, i.who, e), e)

CorrectEvent(w, i, e) ==
  LET made == Retire(Made(w, i.who), i.prior)  id == Event(i.what)
  IN IF ~Stands(w, i.prior) THEN w
     ELSE IF Stands(w, id) THEN Support(made, id, e) ELSE Revive(made, id, Row(NoOne, i.who, e))

-----------------------------------------------------------------------------
(* Corrections of what is said of a person, retractions, contradictions.   *)

(* A successor that another correction of the same answer has written. *)
Shared(w, i) == \E p \in w.pending : p[2] = Fact(i)
Replayed(w, i) == Superseded(w, i.prior)
RefusedFact(w, i) ==
  IF Replayed(w, i) THEN w.next[i.prior] # Fact(i) \/ ~Has(w, Fact(i))
  ELSE \/ ~Stands(w, i.prior) \/ w.row[i.prior].target # Target(i)
       \/ i.prior = Fact(i) \/ (i.who # Owner /\ Gone(w, i.who))
Asked(w, i) == ~Replayed(w, i) /\ ~Shared(w, i) /\ Stands(w, Fact(i))
Collides(w, i) == ~Replayed(w, i) /\ ~Shared(w, i) /\ Has(w, Fact(i)) /\ ~Stands(w, Fact(i))

CorrectFact(w, i, e) ==
  LET made == Retire(IF i.who = Owner THEN w ELSE Made(w, i.who), i.prior)
      new == IF Shared(w, i) THEN made
             ELSE Put(Sourced(made, {Named(i)} \cap Names, e), Fact(i), Row(Named(i), Target(i), e))
  IN IF Replayed(w, i) THEN w
     ELSE [new EXCEPT !.pending = @ \cup {<<i.prior, Fact(i)>>}]

RefusedRetraction(w, i) == ~Stands(w, i.prior) /\ ~(Has(w, i.prior) /\ i.prior \in w.retracted)
RetractIt(w, i) ==
  IF Stands(w, i.prior) THEN [Retire(w, i.prior) EXCEPT !.retracted = @ \cup {i.prior}] ELSE w

Contradict(w, i, e) == [w EXCEPT !.row[i.prior].against = @ \cup {e}]

-----------------------------------------------------------------------------
(* "b is a": the person formed first keeps the name, everything that       *)
(* stands and refers to the other one moves.                               *)
Earlier(w, i) ==
  IF \E j, k \in DOMAIN w.born : j < k /\ w.born[j] = i.who /\ w.born[k] = i.whom
  THEN <<i.who, i.whom>> ELSE <<i.whom, i.who>>

(* A relationship moves to the id of its new ends; several that meet there *)
(* become one, and must say the same.                                      *)
Moving(w, m) == {id \in DOMAIN w.row : IsRel(id) /\ Stands(w, id) /\ m \in {id[2], id[4]}}
To(id, m, c) == Rel(IF id[2] = m THEN c ELSE id[2], id[3], IF id[4] = m THEN c ELSE id[4])
Meeting(w, m, c, n) == {id \in Moving(w, m) : To(id, m, c) = n}
Said(w, m, c, n) ==
  {w.row[id].says : id \in Meeting(w, m, c, n) \cup (IF Stands(w, n) THEN {n} ELSE {})}

Joined(w, m, c, n) ==
  LET all == Meeting(w, m, c, n) \cup ({n} \cap DOMAIN w.row)
      one == CHOOSE id \in Meeting(w, m, c, n) : TRUE
  IN [w.row[one] EXCEPT !.support = UNION {w.row[id].support : id \in all},
                        !.words = UNION {w.row[id].words : id \in all}]

Reanchored(w, m, c) ==
  LET new == {To(id, m, c) : id \in Moving(w, m)}
  IN [w EXCEPT !.row = [id \in DOMAIN w.row \cup new |->
        IF id \in new THEN Joined(w, m, c, id)
        ELSE IF id \in Moving(w, m) THEN [w.row[id] EXCEPT !.stands = FALSE]
        ELSE w.row[id]]]

(* Mutant of Retargeted: what was said of the merged person stays there. *)
NotRetargeted(w, m, c) == w

Retargeted(w, m, c) ==
  [w EXCEPT !.row = [id \in DOMAIN w.row |->
     IF id[1] = "cognition" /\ w.row[id].target = m THEN [w.row[id] EXCEPT !.target = c]
     ELSE w.row[id]]]

(* An equation that was applied before, either way round. *)
Equated(w, i) == \E l \in w.led : l.kind = "alias" /\ {l.from, l.to} = {i.who, i.whom}

RefusedAlias(w, i) ==
  LET m == Earlier(w, i)[2]  c == Earlier(w, i)[1]
      gone == {n \in {i.who, i.whom} : Gone(w, n)}
  IN \/ "absent" \in {w.entity[i.who], w.entity[i.whom]}
     \/ Cardinality(gone) = 2
     \/ Cardinality(gone) = 1 /\ ~Equated(w, i)
     \/ gone = {} /\ \E id \in Moving(w, m) : Cardinality(Said(w, m, c, To(id, m, c))) > 1

Merge(w, i, e) ==
  LET m == Earlier(w, i)[2]  c == Earlier(w, i)[1]
      moved == Reanchored(Retargeted(w, m, c), m, c)
  IN IF \E n \in {i.who, i.whom} : Gone(w, n) THEN w
     ELSE [moved EXCEPT !.entity[m] = "invalid",
                        !.led = @ \cup {[kind |-> "alias", from |-> m, to |-> c, by |-> e]}]

-----------------------------------------------------------------------------
(* "not a but b": what may be seen of a is written again of b.             *)
Renaming(w, o) == {id \in Moving(w, o) : Visible(w, id)}
Saying(w, o) == {id \in DOMAIN w.row : id[1] = "cognition" /\ w.row[id].says = o /\ Visible(w, id)}
Again(id, n, e) == <<"cognition", id[2], n, <<id, e>>>>

RefusedRename(w, i) ==
  LET o == i.whom  n == i.who
  IN \/ w.entity[o] # "current" \/ (w.sources[o] # {} /\ ~Live(w.sources[o]))
     \/ Gone(w, n)
     \/ \E id \in Renaming(w, o) : Has(w, To(id, o, n)) \/ Cardinality(Meeting(w, o, n, To(id, o, n))) > 1

Rename(w, i, e) ==
  LET o == i.whom  n == i.who
      old == Renaming(w, o) \cup Saying(w, o)
      new(id) == IF IsRel(id) THEN To(id, o, n) ELSE Again(id, n, e)
      copy(id) == [w.row[id] EXCEPT !.support = @ \cup {e}, !.says = IF @ = o THEN n ELSE @,
                                    !.target = IF @ = o THEN n ELSE @]
      from(k) == CHOOSE id \in old : new(id) = k
      made == Sourced(Made(w, n), {n}, e)
  IN [made EXCEPT
        !.row = [k \in DOMAIN w.row \cup {new(id) : id \in old} |->
                   IF k \in old THEN [w.row[k] EXCEPT !.stands = FALSE]
                   ELSE IF k \in DOMAIN w.row THEN w.row[k] ELSE copy(from(k))],
        !.next = Over(@, [id \in old |-> new(id)]),
        !.entity[o] = "invalid",
        !.led = @ \cup {[kind |-> "name", from |-> o, to |-> n, by |-> e]}]

-----------------------------------------------------------------------------
(* One item: refused, a question, a failed INSERT, or written.             *)
Refused(w, i, e) ==
  IF i.act = "retract" THEN RefusedRetraction(w, i)
  ELSE IF i.act = "contradict" THEN ~Stands(w, i.prior)
  ELSE CASE i.kind = "naming" -> RefusedAttribute(w, i)
         [] i.kind = "alias" -> IF i.act = "form" THEN RefusedAlias(w, i) ELSE RefusedRename(w, i)
         [] i.kind = "event" -> RefusedEvent(w, i)
         [] i.kind = "relationship" ->
              IF i.act = "correct" THEN RefusedCorrection(w, i) ELSE RefusedRelationship(w, i, e)
         [] OTHER -> IF i.act = "correct" THEN RefusedFact(w, i) ELSE RefusedAttribute(w, i)

Written(w, i, e) ==
  IF i.act = "retract" THEN RetractIt(w, i)
  ELSE IF i.act = "contradict" THEN Contradict(w, i, e)
  ELSE CASE i.kind = "naming" -> FormNaming(w, i, e)
         [] i.kind = "alias" -> IF i.act = "form" THEN Merge(w, i, e) ELSE Rename(w, i, e)
         [] i.kind = "event" -> IF i.act = "form" THEN FormEvent(w, i, e) ELSE CorrectEvent(w, i, e)
         [] i.kind = "relationship" ->
              IF i.act = "correct" THEN CorrectRelationship(w, i, e) ELSE FormRelationship(w, i, e)
         [] OTHER -> IF i.act = "correct" THEN CorrectFact(w, i, e) ELSE FormAttribute(w, i, e)

Corrects(i) == i.kind = "attribute" /\ i.act = "correct"

(* The items in order, until one stops the batch. *)
Step(r, i, e) ==
  IF r.ends # "applied" THEN r
  ELSE IF Refused(r.world, i, e) THEN [r EXCEPT !.ends = "no_change"]
  ELSE IF Corrects(i) /\ Asked(r.world, i) THEN [r EXCEPT !.ends = "clarification_required"]
  ELSE IF Rewritten(r.world, i, e) \/ (Corrects(i) /\ Collides(r.world, i))
       THEN [r EXCEPT !.ends = "dead"]
  ELSE [r EXCEPT !.world = Written(@, i, e)]

Result(b, e) ==
  LET after[k \in 0 .. Len(b)] ==
        IF k = 0 THEN [world |-> world, ends |-> "applied"] ELSE Step(after[k - 1], b[k], e)
  IN after[Len(b)]

(* The transitions of corrected cognitions are written at the end. *)
Linking(w) ==
  [w EXCEPT !.next = Over(@, [p \in {q[1] : q \in w.pending} |-> (CHOOSE q \in w.pending : q[1] = p)[2]]),
            !.pending = {}]

-----------------------------------------------------------------------------
(* Compiling an answer.                                                    *)
Identity(i) ==
  IF i.act \in {"retract", "contradict"} THEN <<i.act, i.prior>>
  ELSE CASE i.kind = "alias" -> <<"alias", {i.who, i.whom}>>
         [] i.kind = "event" -> Event(i.what)
         [] i.kind = "relationship" -> Base(i)
         [] i.kind = "naming" -> <<"entity", i.who>>
         [] OTHER -> Fact(i)

(* What an item must be to be read at all: _parse_item. *)
NamingItem(i) == i.act = "form" /\ i.who \in Names
AliasItem(i) == i.act \in {"form", "correct"} /\ {i.who, i.whom} \subseteq Names /\ i.who # i.whom
EventItem(i) == i.act \in {"form", "correct", "retract"} /\ (i.act = "retract" \/ i.who \in People)
RelationshipItem(i) ==
  /\ i.act \in {"form", "supersede", "correct", "retract"}
  /\ i.act = "retract" \/ (i.who \in People /\ i.whom \in Names /\ i.who # i.whom)
AttributeItem(i) == i.act # "supersede" /\ i.who \in People
Table(i) ==
  IF i.act # "contradict" /\ i.kind \in {"relationship", "event"} THEN i.kind ELSE "cognition"
Parsed(i) ==
  /\ CASE i.kind = "naming" -> NamingItem(i)
       [] i.kind = "alias" -> AliasItem(i)
       [] i.kind = "event" -> EventItem(i)
       [] i.kind = "relationship" -> RelationshipItem(i)
       [] OTHER -> AttributeItem(i)
  /\ (i.act = "form" \/ i.kind = "alias") <=> i.prior = NoItem
  /\ i.prior # NoItem => i.prior[1] = Table(i)

(* Two corrections of the same words may share what they say instead. *)
Together(i, k) == i.act = "correct" /\ i.kind = "attribute" /\ [i EXCEPT !.prior = k.prior] = k
Mutated == {"correct", "retract"}
Compiled(b) ==
  /\ \A k \in DOMAIN b : Parsed(b[k]) /\ (b[k].act = "correct" => b[k].prior # Identity(b[k]))
  /\ \A j, k \in DOMAIN b : j < k =>
       /\ Identity(b[j]) = Identity(b[k]) => Together(b[j], b[k])
       /\ b[j].prior # NoItem /\ b[j].act \in Mutated /\ b[k].act \in Mutated
          => b[j].prior # b[k].prior

(* Nothing else of the answer is about what one of its items supersedes. *)
Clear(b) ==
  \A j, k \in DOMAIN b : j # k /\ b[j].act = "supersede" => b[j].prior # b[k].prior

(* The items an answer is about may still be read when it is applied. *)
Readable(b) ==
  \A k \in DOMAIN b : LET i == b[k] IN
    /\ i.act \in Mutated \cup {"contradict"} /\ Stands(world, i.prior) => Visible(world, i.prior)
    /\ i.kind = "alias" => \A n \in {i.who, i.whom} :
         world.entity[n] = "current" /\ world.sources[n] # {} => Live(world.sources[n])

-----------------------------------------------------------------------------
(* Actions.                                                                *)

(* The model copies the ids of what an answer is about from what it was    *)
(* shown.                                                                  *)
Chosen(i) ==
  IF i.prior = NoItem THEN {i}
  ELSE {[i EXCEPT !.prior = id] : id \in {k \in DOMAIN world.row :
          /\ IF k[1] = "event" THEN Visible(world, k) ELSE Offered(world, k)
          /\ IF IsRel(k) THEN IsRel(i.prior) /\ Same(k, i.prior) ELSE k = i.prior}}

(* A source is accepted, read against the World, and its answer stored. *)
Interpret(e) ==
  /\ evidence[e] = "none" /\ Cardinality({k \in Evidence : job[k] = "processing"}) < MaxWaiting
  /\ \E b \in Answers : \E c \in {b} :
       /\ \A k \in DOMAIN c : Chosen(c[k]) # {}
       /\ \E d \in {[k \in DOMAIN c |-> CHOOSE i \in Chosen(c[k]) : TRUE]} :
            IF Compiled(d)
            THEN answer' = [answer EXCEPT ![e] = d] /\ job' = [job EXCEPT ![e] = "processing"]
            ELSE job' = [job EXCEPT ![e] = "no_change"] /\ UNCHANGED answer
  /\ evidence' = [evidence EXCEPT ![e] = "live"]
  /\ UNCHANGED world

Ends(e, word) == job' = [job EXCEPT ![e] = word]

(* The transaction: everything the answer says, or nothing. *)
Apply(e) ==
  /\ job[e] = "processing"
  /\ IF evidence[e] = "live" /\ Readable(answer[e]) /\ Clear(answer[e])
     THEN \E r \in {Result(answer[e], e)} :
            IF r.ends = "applied" /\ r.world # world
            THEN world' = Linking(r.world) /\ Ends(e, "applied")
            ELSE /\ Ends(e, IF r.ends = "applied" THEN "no_change" ELSE r.ends)
                 /\ UNCHANGED world
     ELSE Ends(e, "no_change") /\ UNCHANGED world
  /\ UNCHANGED <<evidence, answer>>

MayLose(e) == Cardinality({k \in Evidence \ {e} : evidence[k] \in {"soft", "erased"}}) < MaxLost

Forget(e) ==
  /\ evidence[e] = "live" /\ MayLose(e)
  /\ evidence' = [evidence EXCEPT ![e] = "soft"]
  /\ UNCHANGED <<job, answer, world>>

(* What goes with an Evidence: the people its words introduced, and every  *)
(* row it supports or that is about those people; then the people nobody   *)
(* refers to any more.                                                     *)
People0(w, e) == {n \in Names : e \in w.sources[n]}
About(w, id) == IF IsRel(id) THEN {id[2], id[4]} ELSE IF id[1] = "cognition" THEN {w.row[id].target} ELSE {}
Fallen(w, e) ==
  {id \in DOMAIN w.row : e \in Linked(w.row[id]) \/ About(w, id) \cap People0(w, e) # {}}
Left(w, e) == DOMAIN w.row \ Fallen(w, e)
Orphans(w, e) ==
  (UNION {About(w, id) : id \in Fallen(w, e)} \cap Names) \ UNION {About(w, id) : id \in Left(w, e)}

Erased(w, e) ==
  LET gone == People0(w, e) \cup Orphans(w, e)  left == Left(w, e)
      kept == {p \in DOMAIN w.next : p \in left /\ w.next[p] \in left}
  IN [w EXCEPT
        !.entity = [n \in People |-> IF n \in gone THEN "absent" ELSE @[n]],
        !.born = SelectSeq(@, LAMBDA n : n \notin gone),
        !.sources = [n \in People |-> IF n \in gone THEN {} ELSE @[n]],
        !.row = [id \in left |-> w.row[id]],
        !.next = [p \in kept |-> w.next[p]],
        !.retracted = @ \cap left,
        !.led = {l \in @ : l.by # e /\ {l.from, l.to} \cap gone = {}}]

Erase(e) ==
  /\ evidence[e] \in {"live", "soft"} /\ MayLose(e)
  /\ evidence' = [evidence EXCEPT ![e] = "erased"]
  /\ Ends(e, "erased")
  /\ world' = Erased(world, e)
  /\ UNCHANGED answer

Next == \E e \in Evidence : Interpret(e) \/ Apply(e) \/ Forget(e) \/ Erase(e)

Spec == Init /\ [][Next]_vars

-----------------------------------------------------------------------------
(* Properties.                                                             *)
Ids == DOMAIN world.row
TypeOK ==
  /\ evidence \in [Evidence -> {"none", "live", "soft", "erased"}]
  /\ job \in [Evidence -> {"none", "processing", "applied", "no_change",
                           "clarification_required", "dead", "erased"}]
  /\ world.entity \in [People -> {"absent", "current", "invalid"}]
  /\ world.pending = {}

(* What stands and may be read is about people who are there under that    *)
(* name: no merge, renaming or erasure leaves a fact with somebody who was *)
(* merged, renamed or erased.  A renaming finds facts by the name, so one  *)
(* whose words do not have the name of the person it is about (it was told *)
(* with a pronoun, or of somebody who was merged with that person) stays   *)
(* behind; but nothing stays with a person who was merged.                 *)
LeftBehind(id, n) ==
  /\ id[1] = "cognition" /\ world.row[id].says # n /\ world.entity[n] = "invalid"
  /\ \A l \in world.led : l.kind = "alias" => l.from # n
FactsHaveTheirPeople ==
  \A id \in Ids : Visible(world, id) =>
    \A n \in About(world, id) \cap Names : world.entity[n] = "current" \/ LeftBehind(id, n)

(* Words leave with the Evidence they come from: no row holds the words of *)
(* an erased Evidence, however often the row was moved, joined, renamed or *)
(* written again.  The rewriting of a sentence about being single is the   *)
(* exception: it keeps the rest of the sentence under new Evidence.        *)
WordsLeaveWithTheirSource ==
  \A id \in Ids : id[2] # "with" =>
    \A e \in world.row[id].words : evidence[e] # "erased"

(* Until something is erased one relationship of a type stands between two *)
(* people, in whatever order it was replaced, returned, merged and moved;  *)
(* and whoever was merged or renamed does not come back.                   *)
OneOfAKind ==
  /\ (\A e \in Evidence : evidence[e] # "erased") =>
       \A j, k \in Ids : IsRel(j) /\ IsRel(k) /\ Same(j, k)
                         /\ Offered(world, j) /\ Offered(world, k) => j = k
  /\ \A l \in world.led : world.entity[l.from] = "invalid"

(* What several answers and erasures leave is one World: its facts have    *)
(* their people and their words, and one relationship of a kind stands.    *)
WorldIsWhole == TypeOK /\ FactsHaveTheirPeople /\ WordsLeaveWithTheirSource /\ OneOfAKind

(* An applied answer says what it says when all of it is written: what it  *)
(* forms is there, with its Evidence, unless another item of the same      *)
(* answer takes it back, and is not also replaced by the answer; and who   *)
(* has a new partner is not also single, unless the answer says so too.    *)
Lead(w, n) ==
  IF \E l \in w.led : l.from = n THEN (CHOOSE l \in w.led : l.from = n).to ELSE n
AnswerHolds(e) ==
  \A k \in DOMAIN answer[e] : LET i == answer[e][k] IN
    i.kind = "relationship" /\ i.act \in {"form", "supersede"} =>
      LET there == {id \in Ids' : /\ IsRel(id) /\ id[3] = i.what
                                  /\ id[2] = Lead(world', i.who) /\ id[4] = Lead(world', i.whom)
                                  /\ e \in world'.row[id].support /\ world'.row[id].stands}
          back == \E j \in DOMAIN answer[e] : answer[e][j].act \in Mutated
                                              /\ answer[e][j].prior \in Ids /\ Same(answer[e][j].prior, Base(i))
          old == {id \in Ids : IsRel(id) /\ Same(id, Base(i))}
      IN /\ there # {} \/ back
         /\ there \cap DOMAIN world'.next = {} \/ back
         /\ Partner(i) /\ old = {} =>
              \A what \in {"single", "mixed"} :
                Cog(what, Owner) \in Ids' /\ world'.row[Cog(what, Owner)].stands =>
                  \E j \in DOMAIN answer[e] : answer[e][j].kind = "attribute" /\ answer[e][j].what = what
AnswersHold == [][\A e \in Evidence : job'[e] = "applied" /\ job[e] # "applied" => AnswerHolds(e)]_vars
=============================================================================
