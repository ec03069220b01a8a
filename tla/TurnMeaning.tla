------------------------------ MODULE TurnMeaning ------------------------------
(***************************************************************************)
(* From a turn of the user to a change.  A model proposes what the turn    *)
(* says: spans of its text and opaque handles, never a write.  The program *)
(* decides whom a mention means, which stored object or cognition a handle *)
(* may stand for, and compiles the claims, or asks, or refuses the turn.   *)
(* A plan is a set: one member for every choice of new names, none when    *)
(* the turn is refused or the owner has to be asked.                       *)
(*                                                                         *)
(* Spans, times, events and confidences are left out; so are aliases of    *)
(* the same error.                                                         *)
(***************************************************************************)
EXTENDS AdapterContract

CONSTANTS NoPrior, NoObject
ASSUME NoneAssumption == NoPrior \notin Cogs /\ NoObject \notin Rels

Empty(kind, e, x, new) ==
  [kind |-> kind, ev |-> e, text |-> x, new |-> new, swaps |-> {}, updates |-> {},
   states |-> {}, reborn |-> {}, binds |-> {}, shown |-> {}, claims |-> <<>>, needs |-> {}]

Single(s) == \E t \in s : s = {t}

-----------------------------------------------------------------------------
(* Whom a mention means.                                                   *)

(* found is what the resolver makes of the words, sure when it resolved    *)
(* them; clear when nothing speaks for a stored entity and the words do    *)
(* not point; recent are the entities accepted in this conversation;       *)
(* reported are the handles the model chose.                               *)
EntityHandles(g) == g.things \cap Ents
Mentions(g) ==
  {m \in [mode: {"introduce", "continue"}, found: SUBSET EntityHandles(g), sure: BOOLEAN,
          clear: BOOLEAN, kind: BOOLEAN, recent: SUBSET EntityHandles(g),
          reported: SUBSET EntityHandles(g)] :
     /\ m.sure => Single(m.found)
     /\ m.clear => m.found = {}}

Antecedents(m) == IF m.found # {} THEN m.found ELSE m.recent

Known(m) ==
  \/ m.mode = "introduce" /\ m.reported = {} /\ m.sure
  \/ /\ m.mode = "continue"
     /\ m.sure => m.reported \subseteq m.found
     /\ Single(Antecedents(m))

Introduced(m) == m.mode = "introduce" /\ m.reported = {} /\ m.clear /\ m.kind

Meant(m, g) ==
  IF Known(m) THEN Antecedents(m) ELSE IF Introduced(m) THEN Ents \ g.things ELSE {}

-----------------------------------------------------------------------------
(* What may be selected: current cognitions with a structured claim, and   *)
(* the current relationships the adapter offers.  It offers those this     *)
(* conversation has spoken of, as the contract of a reference demands.     *)

(* Mutant of Catalog: cognitions that have been replaced are offered, too. *)
EverKnown(g) == {c \in g.things \cap Cogs : Says[c] # Plain}

Catalog(g) == {c \in (g.things \cap Cogs) \ g.old : Says[c] # Plain}
Offered(g, x) == SpokenOf(g, ToldIn[x])

(* A claim says something of an entity, of the object a reference points   *)
(* at, of what the claim before it is about, or states a relationship to   *)
(* the owner or between two entities; prior is the cognition it repeats or *)
(* denies.  Fields a claim of its kind does not have are absent.           *)
WellShaped(c) ==
  /\ c.of # "object" <=> c.object = NoObject
  /\ c.of \in {"entity", "bond"} <=> c.who # {}
  /\ c.of = "entity" => Single(c.who) /\ c.says.kind \in {"attribute", "evaluation"}
  /\ c.of \in {"object", "claim"} => c.says.kind = "evaluation"
  /\ c.of = "bond" => Cardinality(c.who) <= 2 /\ c.says.kind = "relationship"
  /\ c.prior = NoPrior => c.affirm

Said == {c \in [of: {"entity", "object", "claim", "bond"}, who: SUBSET Ents,
                bond: {Bond[r] : r \in Rels}, object: Rels \cup {NoObject}, says: Claims,
                affirm: BOOLEAN, prior: Cogs \cup {NoPrior}] : WellShaped(c)}

(* What the claims so far have made of the turn, and what they are about.  *)
Plan == [new: SUBSET Things, updates: SUBSET (Cogs \X Signs), reborn: SUBSET (Rels \X Rels),
         binds: SUBSET Ents, target: SUBSET Things]
NoPlan == [new |-> {}, updates |-> {}, reborn |-> {}, binds |-> {}, target |-> {}]

Bind(p, who, g) == [p EXCEPT !.new = @ \cup (who \ g.things), !.binds = @ \cup who]

-----------------------------------------------------------------------------
(* A proposition about t: Evidence for the one cognition that says it      *)
(* already, or a new cognition.                                            *)

Compatible(t, says, g) == {c \in Catalog(g) : Refers[c] = {t} /\ Says[c] = says}

Reaffirmed(p, c, t, g, e) ==
  IF Compatible(t, c.says, g) = {c.prior} /\ \A s \in Signs : <<e, s>> \notin g.sources[c.prior]
  THEN {[p EXCEPT !.target = {t},
                  !.updates = @ \cup {<<c.prior, IF c.affirm THEN "support" ELSE "contradict">>}]}
  ELSE {}

(* A proposition that is already current may not be formed again, except   *)
(* the statement of a relationship.                                        *)
Repeats(c, t, g) ==
  c.says.kind \in {"attribute", "evaluation"} /\ Compatible(t, c.says, g) # {}

Formed(p, c, t, g) ==
  {[p EXCEPT !.target = {t}, !.new = @ \cup {n}] :
     n \in {k \in Cogs \ (g.things \cup p.new) :
              ~Repeats(c, t, g) /\ Refers[k] = {t} /\ Says[k] = c.says}}

Propose(p, c, t, g, e) ==
  IF c.prior # NoPrior THEN Reaffirmed(p, c, t, g, e) ELSE Formed(p, c, t, g)

-----------------------------------------------------------------------------
(* The relationship a claim states: the current one between the same ends  *)
(* with the same meaning, or a new one, which succeeds the last of those   *)
(* that have ended.                                                        *)

Same(r, c) == Refers[r] = c.who /\ Bond[r] = c.bond
Going(p, c, g) == {r \in g.current \cup (p.new \cap Rels) : Same(r, c)}
Past(c, g) == {r \in (g.things \cap Rels) \ g.current : Same(r, c)}
Ends(c, g) == Past(c, g) \ g.displaced

Edges(p, c, g) ==
  IF Going(p, c, g) # {}
  THEN {[p EXCEPT !.target = {r}] : r \in {q \in Going(p, c, g) : Single(Going(p, c, g))}}
  ELSE {[p EXCEPT !.target = {n}, !.new = @ \cup {n}, !.reborn = @ \cup (Ends(c, g) \X {n})] :
          n \in {r \in Rels \ (g.things \cup Over) :
                   Same(r, c) /\ (Past(c, g) # {} => Single(Ends(c, g)))}}

Step(p, c, g, e, x) ==
  CASE c.of = "entity" -> UNION {Propose(Bind(p, c.who, g), c, t, g, e) : t \in c.who}
    [] c.of = "object" -> IF Offered(g, x) = {c.object} THEN Propose(p, c, c.object, g, e) ELSE {}
    [] c.of = "claim" -> UNION {Propose(p, c, t, g, e) : t \in p.target}
    [] OTHER -> UNION {UNION {Propose(q, c, t, g, e) : t \in q.target} :
                       q \in Edges(Bind(p, c.who, g), c, g)}

(* One claim, or two of which the second may be about the first. *)
Plans(claims, g, e, x) ==
  LET first == Step(NoPlan, claims[1], g, e, x) IN
  IF Len(claims) = 1 THEN first ELSE UNION {Step(p, claims[2], g, e, x) : p \in first}

-----------------------------------------------------------------------------
(* The change of a plan, and the display an adapter makes of it.           *)

Told(p, e, x) ==
  [Empty("product_bundle", e, x, p.new) EXCEPT
     !.updates = p.updates, !.reborn = p.reborn, !.binds = p.binds]

Shows(d, named, t, relation, prior, n, rests, g) ==
  [ev |-> d.ev, text |-> d.text, session |-> ToldIn[d.text], base |-> Seen(g), named |-> named,
   says |-> Says[n], target |-> t, binds |-> d.binds,
   objects |-> {<<o, Seen(g)>> : o \in IF named = "restated" THEN {}
                                       ELSE IF named = "mention" /\ t \in Rels THEN Refers[t] ELSE {t}},
   priors |-> IF relation \in {"reaffirms", "contradicts"} THEN {<<n, Seen(g)>>} ELSE {},
   relation |-> relation, before |-> <<prior, g.sources[prior]>>, after |-> <<n, rests>>,
   preview |-> <<g.things \cup d.new, [g.sources EXCEPT ![n] = rests]>>]

(* A change that needs no contract is shown without one. *)
Sign(d, claim, p, g) ==
  LET named == IF claim.of = "object" THEN "reference" ELSE "mention"
      all == IF Which(d) = "none" THEN {}
             ELSE {Shows(d, named, t, Relation(u[2]), u[1], u[1],
                         g.sources[u[1]] \cup {<<d.ev, u[2]>>}, g) : u \in d.updates, t \in p.target}
                  \cup {Shows(d, named, t, "asserts", n, n, {<<d.ev, "support">>}, g) :
                          n \in d.new \cap Cogs, t \in p.target}
  IN [d EXCEPT !.shown = all]

CompileTurn(claims, g, e, x) ==
  {Sign(Told(p, e, x), claims[1], p, g) : p \in Plans(claims, g, e, x)}

-----------------------------------------------------------------------------
(* A correction: the cognition to be replaced is already chosen; the turn  *)
(* says the new value of the same attribute of a named entity, or of the   *)
(* evaluation of an object that it points at or states again.              *)

Correctable(prior, g) ==
  /\ prior \in Catalog(g)
  /\ \/ Says[prior].kind = "attribute" /\ Target(prior) \in g.things \cap Ents
     \/ Says[prior].kind = "evaluation" /\ Target(prior) \in g.things \cap Rels

CorrectionClaims(prior, claims) ==
  LET c == claims[Len(claims)] IN
  /\ c.prior = NoPrior /\ c.says.kind = Says[prior].kind
  /\ IF c.says.kind = "attribute" THEN Len(claims) = 1 /\ c.of = "entity"
     ELSE \/ Len(claims) = 1 /\ c.of = "object"
          \/ Len(claims) = 2 /\ c.of = "claim" /\ claims[1].of = "bond" /\ claims[1].prior = NoPrior

(* The prior is withheld from the compiler, which must find the stored     *)
(* target and nothing else to change.                                      *)
Successors(prior, claims, g, e, x) ==
  LET withheld == [g EXCEPT !.old = @ \cup {prior}]
      only(p) == /\ p.updates = {} /\ p.new \subseteq Cogs
                 /\ \A n \in p.new : Refers[n] = Refers[prior] /\
                      Says[n].kind \in {Says[prior].kind, "relationship"}
  IN {n \in UNION {p.new : p \in {q \in Plans(claims, withheld, e, x) : only(q)}} :
        /\ Says[n].kind = Says[prior].kind /\ Says[n].value # Says[prior].value}

CompileCorrection(prior, claims, g, e, x) ==
  IF ~(Correctable(prior, g) /\ CorrectionClaims(prior, claims)) THEN {}
  ELSE LET named == CASE claims[1].of = "entity" -> "mention"
                      [] claims[1].of = "object" -> "reference" [] OTHER -> "restated"
           binds == IF named = "mention" THEN claims[1].who ELSE {}
           change(n) == [Empty("evolution", e, x, {n}) EXCEPT !.swaps = {<<prior, n>>}, !.binds = binds]
       IN {[change(n) EXCEPT !.shown = {Shows(change(n), named, Target(prior), "corrects", prior, n,
                                              {<<e, "support">>}, g)}] :
             n \in Successors(prior, claims, g, e, x)}
=============================================================================
