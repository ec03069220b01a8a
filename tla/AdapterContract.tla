---------------------------- MODULE AdapterContract ----------------------------
(***************************************************************************)
(* What an adapter signs of a change.  A turn of the user is interpreted   *)
(* against a World; the adapter compiles it to a change and, separately,   *)
(* to the display by which the owner will know it: what is said, of what,  *)
(* by which words it was named, what the cognition rests on before and     *)
(* after.  The loop accepts the pair only when the display is this change  *)
(* of this World.  There are five kinds of signed change, and the code     *)
(* writes the contract of each out in full.                                *)
(*                                                                         *)
(* A handle is the thing it stands for with the World it was minted in.    *)
(* The positions of words in the text are left out, and so are events.     *)
(* The owner is no member of Ents: every cognition is the owner's view, of *)
(* one entity or relationship; views of the owner or the World itself are  *)
(* left out.                                                               *)
(***************************************************************************)
EXTENDS Naturals, Sequences, FiniteSets

CONSTANTS Cogs, Rels, Ents,   \* cognitions, relationships, entities
          Refers,             \* what a record is about: its target, its ends
          Says,               \* the structured claim of a cognition
          Bond,               \* type and direction of a relationship
          Over,               \* relationships whose own valid_to has passed
          Evs, Texts,         \* Evidence ids, and what may be said in one
          ToldIn,             \* the conversation a text is said in
          NoText

Things == Cogs \cup Rels \cup Ents
Signs == {"support", "contradict"}
Sources == SUBSET (Evs \X Signs)
Worlds == (SUBSET Things) \X [Cogs -> Sources]
Sessions == {ToldIn[x] : x \in Texts}
Plain == [kind |-> "plain", value |-> "none"]
Claims == {Says[c] : c \in Cogs}

ASSUME ThingsAssumption ==
  /\ Refers \in [Things -> SUBSET Things]
  /\ \A e \in Ents : Refers[e] = {}
  /\ \A r \in Rels : Refers[r] \subseteq Ents
  /\ \A c \in Cogs : \E t \in Rels \cup Ents : Refers[c] = {t}
  /\ Cogs \cap (Rels \cup Ents) = {} /\ Rels \cap Ents = {}
ASSUME BondAssumption == Over \subseteq Rels /\ DOMAIN Bond = Rels
ASSUME ClaimAssumption ==
  \A c \in Cogs : Says[c].kind \in {"plain", "attribute", "evaluation", "relationship"}
ASSUME SentinelAssumption == NoText \notin Texts

(* named: the words point at the target by a mention of its people, by an  *)
(* opaque reference, or restate it; before and after are cognitions with   *)
(* what they rest on; preview is the World the owner was shown.            *)
Display == [ev: Evs, text: Texts, session: Sessions, base: Worlds,
            named: {"mention", "reference", "restated"}, says: Claims,
            target: Rels \cup Ents, binds: SUBSET Ents,
            objects: SUBSET (Things \X Worlds), priors: SUBSET (Things \X Worlds),
            relation: {"corrects", "reaffirms", "contradicts", "asserts"},
            before: Cogs \X Sources, after: Cogs \X Sources, preview: Worlds]

(* What a review would write: new records, replacements of cognitions,     *)
(* Evidence added to cognitions, states and successors of relationships,   *)
(* identity bindings; what an adapter signed of it; and the claims by      *)
(* which the owner may accept it in part.                                  *)
Kinds == {"addition", "product_bundle", "correction", "evolution"}
Claim == [new: SUBSET Things, swaps: SUBSET (Cogs \X Cogs)]
Change == [kind: Kinds, ev: Evs, text: Texts, new: SUBSET Things,
           swaps: SUBSET (Cogs \X Cogs), updates: SUBSET (Cogs \X Signs),
           states: SUBSET (Rels \X {"active", "ended"}), reborn: SUBSET (Rels \X Rels),
           binds: SUBSET Ents, shown: SUBSET Display,
           claims: Seq(Claim), needs: SUBSET (Nat \X Nat)]

-----------------------------------------------------------------------------
(* The World a contract is read against: its records, what its cognitions  *)
(* rest on, and, when the change is to be made now, what is current in it. *)

Target(c) == CHOOSE t \in Refers[c] : TRUE
Seen(g) == <<g.things, g.sources>>
Rests(g, c) == <<c, g.sources[c]>>

(* The whole of a change is one thing: one replacement, one Evidence, or   *)
(* one new cognition.                                                      *)
Nothing(d) == d.updates = {} /\ d.swaps = {} /\ d.states = {} /\ d.reborn = {} /\ d.claims = <<>>
OnlySwap(d, w) == d.new = {w[2]} /\ d.swaps = {w} /\ Nothing([d EXCEPT !.swaps = {}])
OnlyUpdate(d, u) == d.new = {} /\ d.updates = {u} /\ Nothing([d EXCEPT !.updates = {}])
OnlyNew(d, c) == d.new = {c} /\ Nothing(d)

(* What the display says of the turn is the Evidence of the change. *)
SameTurn(d, s) == s.ev = d.ev /\ s.text = d.text /\ s.binds = d.binds

Relation(sign) == IF sign = "contradict" THEN "contradicts" ELSE "reaffirms"

(* A reference like "that relationship" may be followed only when one      *)
(* object alone has been spoken of in the conversation.                    *)
SpokenOf(g, session) ==
  {r \in g.current : \E c \in g.things \cap Cogs : Refers[c] = {r} /\
     \E s \in g.sources[c] : g.ledger[s[1]] # NoText /\ ToldIn[g.ledger[s[1]]] = session}

-----------------------------------------------------------------------------
(* A typed correction: one cognition for another of the same target.       *)

CorrectionPlan(d, s) ==
  /\ SameTurn(d, s) /\ s.relation = "corrects"
  /\ \E w \in d.swaps : OnlySwap(d, w) /\ s.before[1] = w[1] /\ s.after[1] = w[2]

CorrectionPrior(s, g) ==
  /\ s.before[1] \in g.things
  /\ \/ Says[s.before[1]].kind = "attribute" /\ Target(s.before[1]) \in Ents
     \/ Says[s.before[1]].kind = "evaluation" /\ Target(s.before[1]) \in Rels

CorrectionSuccessor(d, s) ==
  LET prior == s.before[1]  succ == s.after[1] IN
  /\ succ # prior /\ Refers[succ] = Refers[prior]
  /\ Says[succ].kind = Says[prior].kind /\ Says[succ].value # Says[prior].value
  /\ s.after[2] = {<<d.ev, "support">>}

CorrectionShown(s, g) ==
  /\ s.before = Rests(g, s.before[1])
  /\ s.says = Says[s.after[1]]

CorrectionOfEntity(d, s, g) ==
  LET p == Target(s.before[1]) IN
  /\ p \in g.things /\ s.target = p
  /\ s.named = "mention" /\ s.binds = {p} /\ s.session = ToldIn[d.text]
  /\ s.objects = {<<p, s.base>>} /\ s.priors = {}

CorrectionByReference(s) ==
  LET r == Target(s.before[1]) IN
  /\ s.named = "reference" /\ s.binds = {}
  /\ s.target = r /\ s.objects = {<<r, s.base>>}

CorrectionRestated(s) ==
  /\ s.named = "restated" /\ s.binds = {}
  /\ s.target = Target(s.before[1]) /\ s.objects = {}

CorrectionHolds(d, s, g) ==
  /\ CorrectionPlan(d, s) /\ CorrectionPrior(s, g)
  /\ CorrectionSuccessor(d, s) /\ CorrectionShown(s, g)
  /\ IF Target(s.before[1]) \in Ents THEN CorrectionOfEntity(d, s, g)
     ELSE CorrectionByReference(s) \/ CorrectionRestated(s)

(* Only when it is staged: the prior is current, the World is today's.     *)
CorrectionIsCurrent(s, g) ==
  LET prior == s.before[1] IN
  /\ prior \notin g.old /\ s.after[1] \notin g.things
  /\ Target(prior) \in Ents \cup g.current
  /\ s.named = "reference" => SpokenOf(g, s.session) = {Target(prior)}
  /\ s.base = Seen(g)

-----------------------------------------------------------------------------
(* A new evaluation of a relationship that the turn does not state itself. *)

EvaluationPlan(d, s) ==
  /\ SameTurn(d, s) /\ s.relation = "asserts" /\ s.named = "reference"
  /\ s.binds = {} /\ s.priors = {}
  /\ \E c \in d.new : OnlyNew(d, c) /\ s.after[1] = c

EvaluationTarget(d, s, g) ==
  /\ s.target \in Rels \cap g.things
  /\ Refers[s.after[1]] = {s.target}
  /\ s.objects = {<<s.target, s.base>>}
  /\ s.after[2] = {<<d.ev, "support">>}

EvaluationShown(s) ==
  s.says = Says[s.after[1]] /\ Says[s.after[1]].kind = "evaluation"

EvaluationHolds(d, s, g) == EvaluationPlan(d, s) /\ EvaluationTarget(d, s, g) /\ EvaluationShown(s)

EvaluationIsCurrent(s, g) ==
  /\ s.base = Seen(g) /\ s.target \in g.current
  /\ SpokenOf(g, s.session) = {s.target}
  /\ s.preview = <<g.things \cup {s.after[1]}, [g.sources EXCEPT ![s.after[1]] = s.after[2]]>>

-----------------------------------------------------------------------------
(* Evidence for a cognition that keeps its name: a statement of a          *)
(* relationship, a cognition about an entity, an evaluation pointed at.    *)

(* Mutant of Rested: the display may count the Evidence as it likes. *)
RestedAnyhow(d, s, u) == \A sign \in Signs : <<d.ev, sign>> \notin s.before[2]

Rested(d, s, u) ==
  /\ \A sign \in Signs : <<d.ev, sign>> \notin s.before[2]
  /\ s.after[2] = s.before[2] \cup {<<d.ev, u[2]>>}

SameCognition(s, u) == s.before[1] = u[1] /\ s.after[1] = u[1] /\ Refers[u[1]] = {s.target}
Fresh(s, g) ==
  /\ s.base = Seen(g) /\ s.before = Rests(g, s.before[1]) /\ s.before[1] \notin g.old
  /\ s.preview = <<g.things, [g.sources EXCEPT ![s.before[1]] = s.after[2]]>>

StatementPlan(d, s, u) == SameTurn(d, s) /\ OnlyUpdate(d, u) /\ s.named = "mention" /\ s.binds # {}
(* The people mentioned are the ends of the relationship that is stated. *)
StatementTarget(d, s, g) ==
  /\ s.binds \subseteq g.things /\ s.session = ToldIn[d.text]
  /\ s.objects = {<<p, s.base>> : p \in s.binds}
  /\ s.target \in Rels \cap g.things /\ Refers[s.target] = s.binds
StatementUpdate(d, s, u) ==
  /\ s.relation = Relation(u[2]) /\ SameCognition(s, u)
  /\ Says[u[1]].kind = "relationship" /\ Rested(d, s, u)
StatementShown(s, u) == s.says = Says[u[1]] /\ s.priors = {<<u[1], s.base>>}
StatementIsCurrent(s, g) == s.target \in g.current /\ Fresh(s, g)

EntityPlan(d, s, u) == SameTurn(d, s) /\ OnlyUpdate(d, u) /\ s.named = "mention"
EntityTarget(d, s, g) ==
  /\ s.target \in Ents \cap g.things /\ s.binds = {s.target}
  /\ s.session = ToldIn[d.text]
EntityUpdate(d, s, u) ==
  /\ s.relation = Relation(u[2]) /\ SameCognition(s, u)
  /\ Says[u[1]].kind \in {"attribute", "evaluation"} /\ Rested(d, s, u)
EntityShown(s, u) ==
  /\ s.says = Says[u[1]] /\ s.priors = {<<u[1], s.base>>}
  /\ s.objects = {<<s.target, s.base>>}
EntityIsCurrent(s, g) == s.target \in g.things /\ Fresh(s, g)

ObjectPlan(d, s, u) ==
  SameTurn(d, s) /\ OnlyUpdate(d, u) /\ s.named = "reference" /\ s.binds = {}
ObjectTarget(s, g) == s.target \in Rels \cap g.things
ObjectUpdate(d, s, u) ==
  /\ s.relation = Relation(u[2]) /\ SameCognition(s, u)
  /\ Says[u[1]].kind = "evaluation" /\ Rested(d, s, u)
ObjectShown(s, u) ==
  /\ s.says = Says[u[1]] /\ s.priors = {<<u[1], s.base>>}
  /\ s.objects = {<<s.target, s.base>>}
ObjectIsCurrent(s, g) ==
  s.target \in g.current /\ Fresh(s, g) /\ SpokenOf(g, s.session) = {s.target}

UpdateHolds(d, s, g) ==
  \E u \in d.updates :
    \/ /\ StatementPlan(d, s, u) /\ StatementTarget(d, s, g)
       /\ StatementUpdate(d, s, u) /\ StatementShown(s, u)
    \/ /\ EntityPlan(d, s, u) /\ EntityTarget(d, s, g)
       /\ EntityUpdate(d, s, u) /\ EntityShown(s, u)
    \/ /\ ObjectPlan(d, s, u) /\ ObjectTarget(s, g)
       /\ ObjectUpdate(d, s, u) /\ ObjectShown(s, u)

-----------------------------------------------------------------------------
(* Which contract a signed bundle must keep is read from the change, never *)
(* from its display; some changes need none.                               *)

Updated(d, kinds, targets) ==
  {u[1] : u \in {v \in d.updates : Says[v[1]].kind \in kinds /\ Refers[v[1]] \subseteq targets}}
Indirect(d) ==
  LET stated == UNION {Refers[c] : c \in {n \in d.new \cap Cogs : Says[n].kind = "relationship"}} IN
  {c \in (d.new \cap Cogs) \cup {u[1] : u \in d.updates} :
     Says[c].kind = "evaluation" /\ Refers[c] \subseteq Rels \ stated}
Which(d) ==
  IF Updated(d, {"attribute", "evaluation"}, Ents) # {} THEN "entity"
  ELSE IF Updated(d, {"relationship"}, Rels) # {} THEN "statement"
  ELSE IF Indirect(d) = {} THEN "none"
  ELSE IF d.new = {} THEN "object" ELSE "evaluation"

BundleHolds(d, s, g) ==
  CASE Which(d) \in {"entity", "statement", "object"} -> UpdateHolds(d, s, g)
    [] Which(d) = "evaluation" -> EvaluationHolds(d, s, g)
    [] OTHER -> TRUE
BundleIsCurrent(d, s, g) ==
  s.base = Seen(g) /\
  CASE Which(d) = "entity" -> EntityIsCurrent(s, g)
    [] Which(d) = "statement" -> StatementIsCurrent(s, g)
    [] Which(d) = "object" -> ObjectIsCurrent(s, g)
    [] Which(d) = "evaluation" -> EvaluationIsCurrent(s, g)
    [] OTHER -> TRUE
=============================================================================
