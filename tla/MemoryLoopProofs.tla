---------------------------- MODULE MemoryLoopProofs ----------------------------
(***************************************************************************)
(* Theorems about MemoryLoop: what was decided stays readable and true,    *)
(* histories stay lines, and an acceptance writes what was shown, for any  *)
(* records, Evidence and texts, and any number of reviews.                 *)
(***************************************************************************)
EXTENDS MemoryLoop, Integers, TLAPS

-----------------------------------------------------------------------------
(* The shape of a staged change.                                           *)

(* What a display says of the cognition before. *)
TellsBefore(s) == s.before[2] = s.base[2][s.before[1]]

(* A change by claims brings no Evidence for others, no successor and no   *)
(* display, its claims are parts of it, and the second needs the first; a  *)
(* display comes with a contract and shows what the World it was read in   *)
(* says of the cognition before.                                           *)
Shaped(d) ==
  /\ d \in Change
  /\ d.claims # <<>> => d.updates = {} /\ d.reborn = {} /\ d.shown = {}
  /\ \A k \in DOMAIN d.claims : d.claims[k].new \subseteq d.new
  /\ d.needs \subseteq {<<2, 1>>}
  /\ d.shown # {} => d.kind = "evolution" \/ (d.kind = "product_bundle" /\ Which(d) # "none")
  /\ \A s \in d.shown : TellsBefore(s)

(* A change without claims. *)
Whole(d) == d \in Change /\ d.claims = <<>> /\ d.needs = {}

LEMMA WhichSame ==
  ASSUME NEW c, NEW d, c.updates = d.updates, c.new = d.new PROVE Which(c) = Which(d)
BY DEF Which, Updated, Indirect

LEMMA KindsAre ==
  /\ "addition" \in Kinds /\ "product_bundle" \in Kinds /\ "correction" \in Kinds /\ "evolution" \in Kinds
BY DEF Kinds

LEMMA EmptyIs ==
  ASSUME NEW kind \in Kinds, NEW e \in Evs, NEW x \in Texts, NEW new \in SUBSET Things,
         NEW d, d = Empty(kind, e, x, new)
  PROVE  /\ Whole(d) /\ d.kind = kind /\ d.ev = e /\ d.text = x /\ d.new = new
         /\ d.updates = {} /\ d.reborn = {} /\ d.shown = {} /\ d.binds = {}
<1>1. <<>> \in Seq(Claim) /\ {} \in SUBSET (Nat \X Nat)
  OBVIOUS
<1>2. Empty(kind, e, x, new) \in Change
  BY <1>1 DEF Empty, Change
<1>3. QED
  BY <1>2 DEF Empty, Whole

LEMMA WholeShaped ==
  ASSUME NEW d, Whole(d), d.shown = {} PROVE Shaped(d)
<1>1. DOMAIN d.claims = {}
  BY DEF Whole
<1>2. QED
  BY <1>1 DEF Whole, Shaped

(* A signed change. *)
LEMMA WithShown ==
  ASSUME NEW d, Whole(d), NEW shown \in SUBSET Display,
         shown # {} => d.kind = "evolution" \/ (d.kind = "product_bundle" /\ Which(d) # "none"),
         \A s \in shown : TellsBefore(s)
  PROVE  Shaped([d EXCEPT !.shown = shown])
<1> DEFINE c == [d EXCEPT !.shown = shown]
<1>1. Whole(c) /\ c.shown = shown /\ c.new = d.new /\ c.updates = d.updates /\ c.kind = d.kind
  BY DEF Whole, Change
<1> HIDE DEF c
<1>2. Which(c) = Which(d)
  BY <1>1, WhichSame
<1>3. DOMAIN c.claims = {}
  BY <1>1 DEF Whole
<1>4. Shaped(c)
  BY <1>1, <1>2, <1>3 DEF Whole, Shaped
<1>5. QED
  BY <1>4 DEF c

LEMMA WithSigned ==
  ASSUME NEW d, Whole(d), NEW s \in Display, TellsBefore(s),
         s.binds \in SUBSET Ents,
         d.kind = "evolution" \/ (d.kind = "product_bundle" /\ Which(d) # "none")
  PROVE  Shaped(Signed(d, s))
<1> DEFINE b == s.binds
           m == [d EXCEPT !.binds = b]
           shown == {s}
<1> HIDE DEF b, shown
<1>1. b \in SUBSET Ents /\ shown \in SUBSET Display /\ \A t \in shown : TellsBefore(t)
  BY DEF b, shown
<1>2. Whole(m) /\ m.new = d.new /\ m.updates = d.updates /\ m.kind = d.kind
  BY <1>1 DEF Whole, Change
<1>3. Signed(d, s) = [d EXCEPT !.shown = shown, !.binds = b]
  BY DEF Signed, shown, b
<1>4. [d EXCEPT !.shown = shown, !.binds = b] = [m EXCEPT !.shown = shown]
  BY DEF Whole, Change
<1> HIDE DEF m
<1>5. Which(m) = Which(d)
  BY <1>2, WhichSame
<1>6. Shaped([m EXCEPT !.shown = shown])
  BY <1>1, <1>2, <1>5, WithShown
<1>7. QED
  BY <1>3, <1>4, <1>6 DEF m

(* A bundle that may be taken by two claims. *)
LEMMA ClaimsAre ==
  ASSUME NEW d, Whole(d), d.shown = {}, d.updates = {}, d.reborn = {},
         NEW swaps \in SUBSET (Cogs \X Cogs),
         NEW first \in SUBSET d.new, NEW second \in SUBSET d.new
  PROVE  Shaped([d EXCEPT !.swaps = swaps, !.needs = {<<2, 1>>},
                   !.claims = <<[new |-> first, swaps |-> {}], [new |-> second, swaps |-> swaps]>>])
<1> DEFINE cs == <<[new |-> first, swaps |-> {}], [new |-> second, swaps |-> swaps]>>
           needs == {<<2, 1>>}
           c == [d EXCEPT !.swaps = swaps, !.needs = needs, !.claims = cs]
<1>1. cs \in Seq(Claim) /\ DOMAIN cs = {1, 2} /\ cs[1].new = first /\ cs[2].new = second
  <2>1. d.new \subseteq Things
    BY DEF Whole, Change
  <2>2. [new |-> first, swaps |-> {}] \in Claim /\ [new |-> second, swaps |-> swaps] \in Claim
    BY <2>1 DEF Claim
  <2>3. QED
    BY <2>2
<1>2. needs \in SUBSET (Nat \X Nat) /\ needs \subseteq {<<2, 1>>}
  OBVIOUS
<1> HIDE DEF cs, needs
<1>3. /\ c \in Change /\ c.claims = cs /\ c.needs = needs /\ c.shown = {} /\ c.new = d.new
      /\ c.updates = {} /\ c.reborn = {}
  BY <1>1, <1>2 DEF Whole, Change
<1> HIDE DEF c
<1>4. Shaped(c)
  BY <1>1, <1>2, <1>3 DEF Shaped
<1>5. QED
  BY <1>4 DEF c, cs, needs

-----------------------------------------------------------------------------
(* Displays.                                                               *)
LEMMA ShowsIs ==
  ASSUME TypeOK, NEW d, NEW named \in {"mention", "reference", "restated"}, NEW t \in Rels \cup Ents,
         NEW relation \in {"corrects", "reaffirms", "contradicts", "asserts"},
         NEW prior \in Cogs, NEW n \in Cogs, NEW rests \in Sources,
         d.ev \in Evs, d.text \in Texts, d.binds \in SUBSET Ents, d.new \in SUBSET Things,
         NEW s, s = Shows(d, named, t, relation, prior, n, rests, World)
  PROVE  s \in Display /\ TellsBefore(s) /\ s.binds = d.binds
<1> DEFINE objects == {<<o, Seen(World)>> : o \in IF named = "restated" THEN {}
                        ELSE IF named = "mention" /\ t \in Rels THEN Refers[t] ELSE {t}}
           priors == IF relation \in {"reaffirms", "contradicts"} THEN {<<n, Seen(World)>>} ELSE {}
           preview == <<things \cup d.new, [sources EXCEPT ![n] = rests]>>
<1>1. World.things = things /\ World.sources = sources /\ Seen(World) = <<things, sources>>
  BY DEF World, Seen
<1>2. Seen(World) \in Worlds /\ preview \in Worlds
  BY <1>1 DEF TypeOK, Worlds
<1>3. objects \in SUBSET (Things \X Worlds) /\ priors \in SUBSET (Things \X Worlds)
  BY <1>2, ThingsAssumption DEF Things
<1>4. ToldIn[d.text] \in Sessions /\ Says[n] \in Claims /\ <<prior, sources[prior]>> \in Cogs \X Sources
      /\ <<n, rests>> \in Cogs \X Sources
  BY DEF TypeOK, Sessions, Claims
<1>5. s = [ev |-> d.ev, text |-> d.text, session |-> ToldIn[d.text], base |-> Seen(World), named |-> named,
           says |-> Says[n], target |-> t, binds |-> d.binds, objects |-> objects, priors |-> priors,
           relation |-> relation, before |-> <<prior, sources[prior]>>, after |-> <<n, rests>>,
           preview |-> preview]
  BY <1>1 DEF Shows
<1> HIDE DEF objects, priors, preview
<1>6. s \in Display
  BY <1>2, <1>3, <1>4, <1>5 DEF Display
<1>7. TellsBefore(s) /\ s.binds = d.binds
  BY <1>1, <1>5 DEF TellsBefore
<1>8. QED
  BY <1>6, <1>7

LEMMA CompiledIs ==
  ASSUME TypeOK, NEW d, NEW relation \in {"corrects", "reaffirms", "contradicts", "asserts"},
         NEW c \in Cogs, NEW n \in Cogs, d.ev \in Evs, d.text \in Texts, d.new \in SUBSET Things,
         NEW s \in Compiled(d, relation, c, n)
  PROVE  s \in Display /\ TellsBefore(s) /\ s.binds \in SUBSET Ents
<1>1. PICK session \in Sessions, base \in {graph, NewWorld}, t \in Rels \cup Ents,
           named \in {"mention", "reference", "restated"},
           rests \in UNION {{{<<d.ev, sign>>}, sources[c] \cup {<<d.ev, sign>>}} : sign \in Signs} :
        s = [ev |-> d.ev, text |-> d.text, session |-> session, base |-> base, named |-> named,
             says |-> Says[n], target |-> t,
             binds |-> IF named # "mention" THEN {} ELSE IF t \in Ents THEN {t} ELSE Refers[t],
             objects |-> {<<o, base>> : o \in IF named = "restated" THEN {}
                                              ELSE IF named = "mention" /\ t \in Rels THEN Refers[t] ELSE {t}},
             priors |-> IF relation \in {"reaffirms", "contradicts"} THEN {<<c, base>>} ELSE {},
             relation |-> relation, before |-> <<c, base[2][c]>>, after |-> <<n, rests>>,
             preview |-> <<base[1] \cup d.new, [base[2] EXCEPT ![n] = rests]>>]
  BY DEF Compiled
<1> DEFINE binds == IF named # "mention" THEN {} ELSE IF t \in Ents THEN {t} ELSE Refers[t]
           objects == {<<o, base>> : o \in IF named = "restated" THEN {}
                         ELSE IF named = "mention" /\ t \in Rels THEN Refers[t] ELSE {t}}
           priors == IF relation \in {"reaffirms", "contradicts"} THEN {<<c, base>>} ELSE {}
           preview == <<base[1] \cup d.new, [base[2] EXCEPT ![n] = rests]>>
<1>2. base \in Worlds
  BY InitialAssumption DEF TypeOK, graph, NewWorld, Worlds, Sources
<1>3. rests \in Sources
  BY DEF TypeOK, Sources
<1>4. base[1] \in SUBSET Things /\ base[2] \in [Cogs -> Sources]
  BY <1>2 DEF Worlds
<1>5. preview \in Worlds /\ <<c, base[2][c]>> \in Cogs \X Sources /\ <<n, rests>> \in Cogs \X Sources
  BY <1>3, <1>4 DEF Worlds
<1>6. objects \in SUBSET (Things \X Worlds) /\ priors \in SUBSET (Things \X Worlds) /\ binds \in SUBSET Ents
  BY <1>2, ThingsAssumption DEF Things
<1>7. Says[n] \in Claims
  BY DEF Claims
<1>8. s = [ev |-> d.ev, text |-> d.text, session |-> session, base |-> base, named |-> named,
           says |-> Says[n], target |-> t, binds |-> binds, objects |-> objects, priors |-> priors,
           relation |-> relation, before |-> <<c, base[2][c]>>, after |-> <<n, rests>>,
           preview |-> preview]
  BY <1>1
<1> HIDE DEF binds, objects, priors, preview
<1>9. s \in Display
  BY <1>2, <1>5, <1>6, <1>7, <1>8 DEF Display
<1>10. QED
  BY <1>6, <1>8, <1>9 DEF TellsBefore

-----------------------------------------------------------------------------
(* What a compiled turn is.                                                *)
Planned == [new: SUBSET Things, updates: SUBSET (Cogs \X Signs), reborn: SUBSET (Rels \X Rels),
            binds: SUBSET Ents, target: SUBSET (Rels \cup Ents)]

LEMMA PlannedIs ==
  ASSUME NEW p \in Planned
  PROVE  /\ p.new \in SUBSET Things /\ p.updates \in SUBSET (Cogs \X Signs)
         /\ p.reborn \in SUBSET (Rels \X Rels) /\ p.binds \in SUBSET Ents
         /\ p.target \in SUBSET (Rels \cup Ents)
         /\ p = [new |-> p.new, updates |-> p.updates, reborn |-> p.reborn, binds |-> p.binds,
                 target |-> p.target]
BY DEF Planned

LEMMA ClaimIs ==
  ASSUME NEW c \in Said
  PROVE  /\ c.who \in SUBSET Ents /\ c.object \in Rels \cup {NoObject} /\ c.prior \in Cogs \cup {NoPrior}
         /\ WellShaped(c) /\ c.of \in {"entity", "object", "claim", "bond"}
BY DEF Said

LEMMA BindIs ==
  ASSUME NEW p \in Planned, NEW who \in SUBSET Ents, NEW g PROVE Bind(p, who, g) \in Planned
<1> DEFINE new == p.new \cup (who \ g.things)  binds == p.binds \cup who
<1>1. new \in SUBSET Things /\ binds \in SUBSET Ents
  BY PlannedIs DEF Things
<1>2. Bind(p, who, g) = [p EXCEPT !.new = new, !.binds = binds]
  BY DEF Bind, Planned
<1> HIDE DEF new, binds
<1>3. [p EXCEPT !.new = new, !.binds = binds] \in Planned
  BY <1>1 DEF Planned
<1>4. QED
  BY <1>2, <1>3

LEMMA ProposeIs ==
  ASSUME NEW p \in Planned, NEW c \in Said, NEW t \in Rels \cup Ents, NEW g, NEW e,
         NEW q \in Propose(p, c, t, g, e)
  PROVE  q \in Planned
<1> DEFINE target == {t}
<1>1. target \in SUBSET (Rels \cup Ents)
  OBVIOUS
<1>2. CASE c.prior # NoPrior
  <2> DEFINE updates == p.updates \cup {<<c.prior, IF c.affirm THEN "support" ELSE "contradict">>}
  <2>1. q = [p EXCEPT !.target = target, !.updates = updates]
    BY <1>2 DEF Propose, Reaffirmed, Planned
  <2>2. c.prior \in Cogs
    BY <1>2, ClaimIs
  <2>3. updates \in SUBSET (Cogs \X Signs)
    BY <2>2, PlannedIs DEF Signs
  <2> HIDE DEF updates, target
  <2>4. [p EXCEPT !.target = target, !.updates = updates] \in Planned
    BY <1>1, <2>3 DEF Planned
  <2>5. QED
    BY <2>1, <2>4
<1>3. CASE c.prior = NoPrior
  <2>1. PICK n \in Cogs : q = [p EXCEPT !.target = {t}, !.new = @ \cup {n}]
    BY <1>3 DEF Propose, Formed
  <2> DEFINE new == p.new \cup {n}
  <2>2. new \in SUBSET Things
    BY PlannedIs DEF Things
  <2>3. q = [p EXCEPT !.target = target, !.new = new]
    BY <2>1 DEF Planned
  <2> HIDE DEF new, target
  <2>4. [p EXCEPT !.target = target, !.new = new] \in Planned
    BY <1>1, <2>2 DEF Planned
  <2>5. QED
    BY <2>3, <2>4
<1>4. QED
  BY <1>2, <1>3

LEMMA EdgesAre ==
  ASSUME NEW p \in Planned, NEW c \in Said, NEW g, g.current \subseteq Rels, NEW q \in Edges(p, c, g)
  PROVE  q \in Planned
<1>1. CASE Going(p, c, g) # {}
  <2>1. PICK r \in Going(p, c, g) : q = [p EXCEPT !.target = {r}]
    BY <1>1 DEF Edges
  <2> DEFINE target == {r}
  <2>2. target \in SUBSET (Rels \cup Ents)
    BY DEF Going
  <2> HIDE DEF target
  <2>3. [p EXCEPT !.target = target] \in Planned
    BY <2>2 DEF Planned
  <2>4. QED
    BY <2>1, <2>3 DEF target
<1>2. CASE Going(p, c, g) = {}
  <2>1. PICK n \in Rels :
          q = [p EXCEPT !.target = {n}, !.new = @ \cup {n}, !.reborn = @ \cup (Ends(c, g) \X {n})]
    BY <1>2 DEF Edges
  <2> DEFINE new == p.new \cup {n}  reborn == p.reborn \cup (Ends(c, g) \X {n})  target == {n}
  <2>2. Ends(c, g) \subseteq Rels
    BY DEF Ends, Past
  <2>3. new \in SUBSET Things /\ target \in SUBSET (Rels \cup Ents) /\ reborn \in SUBSET (Rels \X Rels)
    BY <2>2, PlannedIs DEF Things
  <2>4. q = [p EXCEPT !.target = target, !.new = new, !.reborn = reborn]
    BY <2>1 DEF Planned
  <2> HIDE DEF new, reborn, target
  <2>5. [p EXCEPT !.target = target, !.new = new, !.reborn = reborn] \in Planned
    BY <2>3 DEF Planned
  <2>6. QED
    BY <2>4, <2>5
<1>3. QED
  BY <1>1, <1>2

LEMMA StepPlans ==
  ASSUME NEW p \in Planned, NEW c \in Said, NEW g, g.current \subseteq Rels, NEW e, NEW x,
         NEW q \in Step(p, c, g, e, x)
  PROVE  q \in Planned
<1>1. c.who \in SUBSET Ents /\ WellShaped(c) /\ c.of \in {"entity", "object", "claim", "bond"}
  BY ClaimIs
<1>2. Bind(p, c.who, g) \in Planned
  BY <1>1, BindIs
<1>3. CASE c.of = "entity"
  <2>1. PICK t \in c.who : q \in Propose(Bind(p, c.who, g), c, t, g, e)
    BY <1>3 DEF Step
  <2>2. QED
    BY <1>1, <1>2, <2>1, ProposeIs
<1>4. CASE c.of = "object"
  <2>1. c.object \in Rels
    BY <1>1, <1>4, ClaimIs DEF WellShaped
  <2>2. q \in Propose(p, c, c.object, g, e)
    BY <1>4 DEF Step
  <2>3. QED
    BY <2>1, <2>2, ProposeIs
<1>5. CASE c.of = "claim"
  <2>1. PICK t \in p.target : q \in Propose(p, c, t, g, e)
    BY <1>5 DEF Step
  <2>2. QED
    BY <2>1, PlannedIs, ProposeIs
<1>6. CASE c.of = "bond"
  <2>1. PICK b \in Edges(Bind(p, c.who, g), c, g) : q \in UNION {Propose(b, c, t, g, e) : t \in b.target}
    BY <1>6 DEF Step
  <2>2. PICK t \in b.target : q \in Propose(b, c, t, g, e)
    BY <2>1
  <2>3. b \in Planned
    BY <1>2, EdgesAre
  <2>4. t \in Rels \cup Ents
    BY <2>3, PlannedIs
  <2>5. QED
    BY <2>2, <2>3, <2>4, ProposeIs
<1>7. QED
  BY <1>1, <1>3, <1>4, <1>5, <1>6

(* A turn is one claim or two. *)
TwoClaims(claims) == claims[1] \in Said /\ claims[2] \in Said /\ Len(claims) = 2
OneClaim(claims) == claims[1] \in Said /\ Len(claims) = 1

LEMMA PlansAre ==
  ASSUME NEW claims, OneClaim(claims) \/ TwoClaims(claims), NEW g, g.current \subseteq Rels, NEW e, NEW x,
         NEW q \in Plans(claims, g, e, x)
  PROVE  q \in Planned
<1>1. NoPlan \in Planned
  BY DEF NoPlan, Planned
<1>2. ASSUME NEW p \in Step(NoPlan, claims[1], g, e, x) PROVE p \in Planned
  BY <1>1, StepPlans DEF OneClaim, TwoClaims
<1>3. CASE Len(claims) = 1
  BY <1>2, <1>3 DEF Plans
<1>4. CASE TwoClaims(claims)
  <2>1. PICK p \in Step(NoPlan, claims[1], g, e, x) : q \in Step(p, claims[2], g, e, x)
    BY <1>4 DEF Plans, TwoClaims
  <2>2. QED
    BY <1>2, <1>4, <2>1, StepPlans DEF TwoClaims
<1>5. QED
  BY <1>3, <1>4 DEF OneClaim

LEMMA TurnsAre ==
  ASSUME NEW g, NEW t \in Turns(g) PROVE OneClaim(t) \/ TwoClaims(t)
<1> DEFINE persons == UNION {Meant(m, g) : m \in Mentions(g)}
           now == {c \in Sayable : c.prior \in Catalog(g) \cup {NoPrior} /\ c.who \subseteq persons}
           second == {c \in now : c.of = "claim"}
<1>1. now \subseteq Said /\ second \subseteq Said
  BY DEF Sayable
<1>2. t \in {<<c>> : c \in now \ second} \cup {c \in now : c.of \in {"entity", "bond"} /\ c.affirm} \X second
  BY DEF Turns
<1> HIDE DEF now, second
<1>3. CASE t \in {<<c>> : c \in now \ second}
  BY <1>1, <1>3 DEF OneClaim
<1>4. CASE t \in {c \in now : c.of \in {"entity", "bond"} /\ c.affirm} \X second
  <2>1. PICK a \in now, b \in second : t = <<a, b>>
    BY <1>4
  <2>2. QED
    BY <1>1, <2>1 DEF TwoClaims
<1>5. QED
  BY <1>2, <1>3, <1>4

LEMMA CompiledTurnIs ==
  ASSUME TypeOK, NEW claims, OneClaim(claims) \/ TwoClaims(claims), NEW e \in Evs, NEW x \in Texts,
         NEW d \in CompileTurn(claims, World, e, x)
  PROVE  Shaped(d)
<1>1. World.current \subseteq Rels /\ World.sources = sources
  BY DEF World
<1>2. PICK p \in Plans(claims, World, e, x) : d = Sign(Told(p, e, x), claims[1], p, World)
  BY DEF CompileTurn
<1>3. p \in Planned
  BY <1>1, <1>2, PlansAre
<1>4. PICK empty, updates, reborn, binds :
        /\ empty = Empty("product_bundle", e, x, p.new)
        /\ updates = p.updates /\ reborn = p.reborn /\ binds = p.binds
  OBVIOUS
<1>5. PICK told : told = [empty EXCEPT !.updates = updates, !.reborn = reborn, !.binds = binds]
  OBVIOUS
<1>6. told = Told(p, e, x)
  BY <1>4, <1>5 DEF Told
<1>7. /\ Whole(told) /\ told.ev \in Evs /\ told.text \in Texts /\ told.binds \in SUBSET Ents
      /\ told.new \in SUBSET Things /\ told.updates \in SUBSET (Cogs \X Signs) /\ told.kind = "product_bundle"
  <2>1. /\ updates \in SUBSET (Cogs \X Signs) /\ reborn \in SUBSET (Rels \X Rels)
        /\ binds \in SUBSET Ents /\ p.new \in SUBSET Things
    BY <1>3, <1>4, PlannedIs
  <2>2. /\ Whole(empty) /\ empty.kind = "product_bundle" /\ empty.new = p.new
        /\ empty.ev = e /\ empty.text = x
    BY <1>4, <2>1, EmptyIs, KindsAre
  <2>3. QED
    BY <1>5, <2>1, <2>2 DEF Whole, Change
<1>17. PICK named : named = IF claims[1].of = "object" THEN "reference" ELSE "mention"
  OBVIOUS
<1> DEFINE Changed(u, t) == Shows(told, named, t, Relation(u[2]), u[1], u[1],
                                  World.sources[u[1]] \cup {<<told.ev, u[2]>>}, World)
           Asserted(n, t) == Shows(told, named, t, "asserts", n, n, {<<told.ev, "support">>}, World)
           first == {Changed(u, t) : u \in told.updates, t \in p.target}
           second == {Asserted(n, t) : n \in told.new \cap Cogs, t \in p.target}
           all == IF Which(told) = "none" THEN {} ELSE first \cup second
<1>8. d = [told EXCEPT !.shown = all]
  BY <1>2, <1>6, <1>17 DEF Sign
<1>9. named \in {"mention", "reference", "restated"} /\ p.target \in SUBSET (Rels \cup Ents)
  BY <1>3, <1>17, PlannedIs
<1>10. ASSUME NEW u \in told.updates, NEW t \in p.target, NEW s, s = Changed(u, t)
       PROVE  s \in Display /\ TellsBefore(s)
  <2>1. PICK relation, c, rests : /\ relation = Relation(u[2]) /\ c = u[1]
                                  /\ rests = World.sources[u[1]] \cup {<<told.ev, u[2]>>}
    OBVIOUS
  <2>2. c \in Cogs /\ u[2] \in Signs /\ t \in Rels \cup Ents
    BY <1>7, <1>9, <2>1
  <2>3. relation \in {"corrects", "reaffirms", "contradicts", "asserts"}
    BY <2>1 DEF Relation
  <2>4. rests \in Sources
    BY <1>1, <1>7, <2>1, <2>2 DEF TypeOK, Sources
  <2>5. s = Shows(told, named, t, relation, c, c, rests, World)
    BY <1>10, <2>1
  <2>6. QED
    BY <1>7, <1>9, <2>2, <2>3, <2>4, <2>5, ShowsIs
<1>11. ASSUME NEW n \in told.new \cap Cogs, NEW t \in p.target, NEW s, s = Asserted(n, t)
       PROVE  s \in Display /\ TellsBefore(s)
  <2>1. PICK rests : rests = {<<told.ev, "support">>}
    OBVIOUS
  <2>2. rests \in Sources /\ t \in Rels \cup Ents
    BY <1>7, <1>9, <2>1 DEF Sources, Signs
  <2>3. s = Shows(told, named, t, "asserts", n, n, rests, World)
    BY <1>11, <2>1
  <2>4. QED
    BY <1>7, <1>9, <2>2, <2>3, ShowsIs
<1> HIDE DEF Changed, Asserted
<1>18. \A s \in first : s \in Display /\ TellsBefore(s)
  BY <1>10
<1>19. \A s \in second : s \in Display /\ TellsBefore(s)
  BY <1>11
<1> HIDE DEF first, second
<1>12. all \in SUBSET Display /\ (all # {} => Which(told) # "none")
  BY <1>18, <1>19
<1>13. \A s \in all : TellsBefore(s)
  BY <1>18, <1>19
<1> HIDE DEF all
<1>14. QED
  BY <1>7, <1>8, <1>12, <1>13, WithShown

LEMMA CompiledCorrectionIs ==
  ASSUME TypeOK, NEW claims, OneClaim(claims) \/ TwoClaims(claims), NEW e \in Evs, NEW x \in Texts,
         NEW prior, NEW d \in CompileCorrection(prior, claims, World, e, x)
  PROVE  Shaped(d)
<1> DEFINE named == CASE claims[1].of = "entity" -> "mention"
                      [] claims[1].of = "object" -> "reference" [] OTHER -> "restated"
           binds == IF named = "mention" THEN claims[1].who ELSE {}
           change(n) == [Empty("evolution", e, x, {n}) EXCEPT !.swaps = {<<prior, n>>}, !.binds = binds]
<1>1. Correctable(prior, World) /\ CorrectionClaims(prior, claims)
  BY DEF CompileCorrection
<1>2. PICK n \in Successors(prior, claims, World, e, x) :
        d = [change(n) EXCEPT !.shown = {Shows(change(n), named, Target(prior), "corrects", prior, n,
                                               {<<e, "support">>}, World)}]
  BY <1>1 DEF CompileCorrection
<1>3. prior \in Cogs /\ Target(prior) \in Rels \cup Ents
  BY <1>1 DEF Correctable, Catalog
<1>4. n \in Cogs
  BY <1>2 DEF Successors
<1>5. binds \in SUBSET Ents /\ named \in {"mention", "reference", "restated"}
  BY ClaimIs DEF OneClaim, TwoClaims
<1> HIDE DEF named, binds
<1>6. PICK empty, new, swaps, rests, t :
        /\ new = {n} /\ swaps = {<<prior, n>>} /\ rests = {<<e, "support">>} /\ t = Target(prior)
        /\ empty = Empty("evolution", e, x, new)
  OBVIOUS
<1>7. PICK c : c = [empty EXCEPT !.swaps = swaps, !.binds = binds]
  OBVIOUS
<1>8. PICK s : s = Shows(c, named, t, "corrects", prior, n, rests, World)
  OBVIOUS
<1>9. d = [c EXCEPT !.shown = {s}]
  BY <1>2, <1>6, <1>7, <1>8
<1>10. /\ new \in SUBSET Things /\ swaps \in SUBSET (Cogs \X Cogs) /\ rests \in Sources
       /\ t \in Rels \cup Ents
  BY <1>3, <1>4, <1>6 DEF Things, Sources, Signs
<1>11. Whole(empty) /\ empty.kind = "evolution" /\ empty.ev = e /\ empty.text = x /\ empty.new = new
  BY <1>6, <1>10, EmptyIs, KindsAre
<1>12. /\ Whole(c) /\ c.kind = "evolution" /\ c.ev = e /\ c.text = x /\ c.new = new /\ c.binds = binds
  BY <1>5, <1>7, <1>10, <1>11 DEF Whole, Change
<1>13. s \in Display /\ TellsBefore(s)
  BY <1>3, <1>4, <1>5, <1>8, <1>10, <1>12, ShowsIs
<1>14. PICK shown : shown = {s}
  OBVIOUS
<1>15. shown \in SUBSET Display /\ \A r \in shown : TellsBefore(r)
  BY <1>13, <1>14
<1>16. QED
  BY <1>9, <1>12, <1>14, <1>15, WithShown

-----------------------------------------------------------------------------
(* Every staging action stages a well-shaped change.                       *)
Staged == \E d : Insert(d) /\ Shaped(d)

LEMMA NewRecordsAre == ASSUME NEW n, NEW new \in NewRecords(n) PROVE new \in SUBSET Things
BY DEF NewRecords

LEMMA StageAdditionIs ==
  ASSUME NEW e \in Evs, NEW x \in Texts, StageAddition(e, x) PROVE Staged
<1>1. PICK new \in NewRecords(1) : Insert(Empty("addition", e, x, new))
  BY DEF StageAddition
<1>2. PICK d : d = Empty("addition", e, x, new)
  OBVIOUS
<1>3. Whole(d) /\ d.shown = {}
  BY <1>2, NewRecordsAre, KindsAre, EmptyIs
<1>4. QED
  BY <1>1, <1>2, <1>3, WholeShaped DEF Staged

LEMMA StageCorrectionIs ==
  ASSUME NEW e \in Evs, NEW x \in Texts, StageCorrection(e, x) PROVE Staged
<1>1. PICK c \in Cogs, priors \in SUBSET Cogs :
        Insert([Empty("correction", e, x, {c}) EXCEPT !.swaps = priors \X {c}])
  BY DEF StageCorrection
<1>2. PICK new, swaps, empty : /\ new = {c} /\ swaps = priors \X {c}
                               /\ empty = Empty("correction", e, x, new)
  OBVIOUS
<1>3. PICK d : d = [empty EXCEPT !.swaps = swaps]
  OBVIOUS
<1>4. new \in SUBSET Things /\ swaps \in SUBSET (Cogs \X Cogs)
  BY <1>2 DEF Things
<1>5. Whole(empty) /\ empty.shown = {}
  BY <1>2, <1>4, KindsAre, EmptyIs
<1>6. Whole(d) /\ d.shown = {}
  BY <1>3, <1>4, <1>5 DEF Whole, Change
<1>7. QED
  BY <1>1, <1>2, <1>3, <1>6, WholeShaped DEF Staged

LEMMA StageBundleIs ==
  ASSUME NEW e \in Evs, NEW x \in Texts, StageBundle(e, x) PROVE Staged
<1>1. PICK swaps \in SUBSET (Cogs \X Cogs) :
        \/ \E new \in NewRecords(1) :
             Insert([Empty("product_bundle", e, x, new) EXCEPT !.swaps = swaps])
        \/ \E new \in NewRecords(MaxNew) : \E first \in SUBSET (new \ Ents) :
             Insert([Empty("product_bundle", e, x, new) EXCEPT !.swaps = swaps, !.needs = {<<2, 1>>},
                       !.claims = <<[new |-> first, swaps |-> {}],
                                    [new |-> new \ (Ents \cup first), swaps |-> swaps]>>])
  <2>1. PICK swaps \in SUBSET ((Cogs \cap things) \X (Cogs \ things)) :
          /\ Cardinality(swaps) <= 1
          /\ \/ \E new \in NewRecords(1) :
                  Insert([Empty("product_bundle", e, x, new) EXCEPT !.swaps = swaps])
             \/ \E new \in NewRecords(MaxNew) : \E first \in SUBSET (new \ Ents) :
                  first # {} /\ first # new \ Ents /\
                  Insert([Empty("product_bundle", e, x, new) EXCEPT !.swaps = swaps, !.needs = {<<2, 1>>},
                    !.claims = <<[new |-> first, swaps |-> {}],
                                 [new |-> new \ (Ents \cup first), swaps |-> swaps]>>])
    BY DEF StageBundle
  <2>2. swaps \in SUBSET (Cogs \X Cogs)
    OBVIOUS
  <2>3. QED
    BY <2>1, <2>2
<1>2. CASE \E new \in NewRecords(1) :
             Insert([Empty("product_bundle", e, x, new) EXCEPT !.swaps = swaps])
  <2>1. PICK new \in NewRecords(1) : Insert([Empty("product_bundle", e, x, new) EXCEPT !.swaps = swaps])
    BY <1>2
  <2>2. PICK empty : empty = Empty("product_bundle", e, x, new)
    OBVIOUS
  <2>3. PICK d : d = [empty EXCEPT !.swaps = swaps]
    OBVIOUS
  <2>4. Whole(empty) /\ empty.shown = {}
    BY <2>2, NewRecordsAre, KindsAre, EmptyIs
  <2>5. Whole(d) /\ d.shown = {}
    BY <2>3, <2>4 DEF Whole, Change
  <2>6. QED
    BY <2>1, <2>2, <2>3, <2>5, WholeShaped DEF Staged
<1>3. CASE \E new \in NewRecords(MaxNew) : \E first \in SUBSET (new \ Ents) :
             Insert([Empty("product_bundle", e, x, new) EXCEPT !.swaps = swaps, !.needs = {<<2, 1>>},
                       !.claims = <<[new |-> first, swaps |-> {}],
                                    [new |-> new \ (Ents \cup first), swaps |-> swaps]>>])
  <2>1. PICK new \in NewRecords(MaxNew) : \E first \in SUBSET (new \ Ents) :
          Insert([Empty("product_bundle", e, x, new) EXCEPT !.swaps = swaps, !.needs = {<<2, 1>>},
                    !.claims = <<[new |-> first, swaps |-> {}],
                                 [new |-> new \ (Ents \cup first), swaps |-> swaps]>>])
    BY <1>3, Zenon
  <2>7. PICK first \in SUBSET (new \ Ents) :
          Insert([Empty("product_bundle", e, x, new) EXCEPT !.swaps = swaps, !.needs = {<<2, 1>>},
                    !.claims = <<[new |-> first, swaps |-> {}],
                                 [new |-> new \ (Ents \cup first), swaps |-> swaps]>>])
    BY <2>1, Zenon
  <2>2. PICK empty, second : /\ empty = Empty("product_bundle", e, x, new)
                             /\ second = new \ (Ents \cup first)
    OBVIOUS
  <2>3. /\ Whole(empty) /\ empty.shown = {} /\ empty.updates = {} /\ empty.reborn = {} /\ empty.new = new
    BY <2>2, NewRecordsAre, KindsAre, EmptyIs
  <2>4. first \in SUBSET empty.new /\ second \in SUBSET empty.new
    BY <2>2, <2>3
  <2>5. Shaped([empty EXCEPT !.swaps = swaps, !.needs = {<<2, 1>>},
                  !.claims = <<[new |-> first, swaps |-> {}], [new |-> second, swaps |-> swaps]>>])
    BY <2>3, <2>4, ClaimsAre
  <2>6. QED
    BY <2>2, <2>5, <2>7 DEF Staged
<1>4. QED
  BY <1>1, <1>2, <1>3

LEMMA StageSignedBundleIs ==
  ASSUME TypeOK, NEW e \in Evs, NEW x \in Texts, StageSignedBundle(e, x) PROVE Staged
<1>1. \/ \E c \in Cogs : 
           LET d == Empty("product_bundle", e, x, {c}) IN
           Which(d) # "none" /\ \E s \in Compiled(d, "asserts", c, c) : Insert(Signed(d, s))
      \/ \E c \in Cogs, sign \in Signs :
           LET d == [Empty("product_bundle", e, x, {}) EXCEPT !.updates = {<<c, sign>>}] IN
           Which(d) # "none" /\ \E s \in Compiled(d, Relation(sign), c, c) : Insert(Signed(d, s))
  BY DEF StageSignedBundle
<1>2. CASE \E c \in Cogs : 
             LET d == Empty("product_bundle", e, x, {c}) IN
             Which(d) # "none" /\ \E s \in Compiled(d, "asserts", c, c) : Insert(Signed(d, s))
  <2>1. PICK c \in Cogs :
          LET d == Empty("product_bundle", e, x, {c}) IN
          Which(d) # "none" /\ \E s \in Compiled(d, "asserts", c, c) : Insert(Signed(d, s))
    BY <1>2
  <2>2. PICK new, d : new = {c} /\ d = Empty("product_bundle", e, x, new)
    OBVIOUS
  <2>3. Which(d) # "none" /\ \E s \in Compiled(d, "asserts", c, c) : Insert(Signed(d, s))
    BY <2>1, <2>2
  <2>4. PICK s \in Compiled(d, "asserts", c, c) : Insert(Signed(d, s))
    BY <2>3
  <2>5. new \in SUBSET Things
    BY <2>2 DEF Things
  <2>6. Whole(d) /\ d.kind = "product_bundle" /\ d.ev = e /\ d.text = x /\ d.new = new
    BY <2>2, <2>5, KindsAre, EmptyIs
  <2>7. s \in Display /\ TellsBefore(s) /\ s.binds \in SUBSET Ents
    BY <2>5, <2>6, CompiledIs
  <2>8. QED
    BY <2>3, <2>4, <2>6, <2>7, WithSigned DEF Staged
<1>3. CASE \E c \in Cogs, sign \in Signs :
             LET d == [Empty("product_bundle", e, x, {}) EXCEPT !.updates = {<<c, sign>>}] IN
             Which(d) # "none" /\ \E s \in Compiled(d, Relation(sign), c, c) : Insert(Signed(d, s))
  <2>1. PICK c \in Cogs, sign \in Signs :
          LET d == [Empty("product_bundle", e, x, {}) EXCEPT !.updates = {<<c, sign>>}] IN
          Which(d) # "none" /\ \E s \in Compiled(d, Relation(sign), c, c) : Insert(Signed(d, s))
    BY <1>3
  <2>2. PICK empty, updates, relation :
          /\ empty = Empty("product_bundle", e, x, {}) /\ updates = {<<c, sign>>}
          /\ relation = Relation(sign)
    OBVIOUS
  <2>3. PICK d : d = [empty EXCEPT !.updates = updates]
    OBVIOUS
  <2>4. Which(d) # "none" /\ \E s \in Compiled(d, relation, c, c) : Insert(Signed(d, s))
    BY <2>1, <2>2, <2>3
  <2>5. PICK s \in Compiled(d, relation, c, c) : Insert(Signed(d, s))
    BY <2>4
  <2>6. updates \in SUBSET (Cogs \X Signs) /\ relation \in {"corrects", "reaffirms", "contradicts", "asserts"}
    BY <2>2 DEF Relation
  <2>7. Whole(empty) /\ empty.kind = "product_bundle" /\ empty.ev = e /\ empty.text = x /\ empty.new = {}
    BY <2>2, KindsAre, EmptyIs
  <2>8. Whole(d) /\ d.kind = "product_bundle" /\ d.ev = e /\ d.text = x /\ d.new = {}
    BY <2>3, <2>6, <2>7 DEF Whole, Change
  <2>9. s \in Display /\ TellsBefore(s) /\ s.binds \in SUBSET Ents
    BY <2>6, <2>8, CompiledIs
  <2>10. QED
    BY <2>4, <2>5, <2>8, <2>9, WithSigned DEF Staged
<1>4. QED
  BY <1>1, <1>2, <1>3

LEMMA StageSuccessorIs ==
  ASSUME NEW e \in Evs, NEW x \in Texts, StageSuccessor(e, x) PROVE Staged
<1>1. PICK r \in Rels, n \in Rels :
        Insert([Empty("product_bundle", e, x, {n}) EXCEPT !.reborn = {<<r, n>>}])
  BY DEF StageSuccessor
<1>2. PICK new, reborn, empty : /\ new = {n} /\ reborn = {<<r, n>>}
                                /\ empty = Empty("product_bundle", e, x, new)
  OBVIOUS
<1>3. PICK d : d = [empty EXCEPT !.reborn = reborn]
  OBVIOUS
<1>4. new \in SUBSET Things /\ reborn \in SUBSET (Rels \X Rels)
  BY <1>2 DEF Things
<1>5. Whole(empty) /\ empty.shown = {}
  BY <1>2, <1>4, KindsAre, EmptyIs
<1>6. Whole(d) /\ d.shown = {}
  BY <1>3, <1>4, <1>5 DEF Whole, Change
<1>7. QED
  BY <1>1, <1>2, <1>3, <1>6, WholeShaped DEF Staged

LEMMA StageEvolutionIs ==
  ASSUME NEW e \in Evs, NEW x \in Texts, StageEvolution(e, x) PROVE Staged
<1>1. \/ \E c \in Cogs, p \in Cogs, b \in SUBSET Ents :
           Insert([Empty("evolution", e, x, {c} \cup (b \ things)) EXCEPT !.swaps = {<<p, c>>}, !.binds = b])
      \/ \E c \in Cogs, s \in Signs :
           Insert([Empty("evolution", e, x, {}) EXCEPT !.updates = {<<c, s>>}])
      \/ \E r \in Rels, word \in {"active", "ended"}, c \in Cogs, p \in SUBSET Cogs :
           Insert([Empty("evolution", e, x, {c}) EXCEPT !.states = {<<r, word>>}, !.swaps = p \X {c}])
  BY DEF StageEvolution
<1>2. CASE \E c \in Cogs, p \in Cogs, b \in SUBSET Ents :
             Insert([Empty("evolution", e, x, {c} \cup (b \ things)) EXCEPT !.swaps = {<<p, c>>}, !.binds = b])
  <2>1. PICK c \in Cogs, p \in Cogs, b \in SUBSET Ents :
          Insert([Empty("evolution", e, x, {c} \cup (b \ things)) EXCEPT !.swaps = {<<p, c>>}, !.binds = b])
    BY <1>2
  <2>2. PICK new, swaps, empty : /\ new = {c} \cup (b \ things) /\ swaps = {<<p, c>>}
                                 /\ empty = Empty("evolution", e, x, new)
    OBVIOUS
  <2>3. PICK d : d = [empty EXCEPT !.swaps = swaps, !.binds = b]
    OBVIOUS
  <2>4. new \in SUBSET Things /\ swaps \in SUBSET (Cogs \X Cogs)
    BY <2>2 DEF Things
  <2>5. Whole(empty) /\ empty.shown = {}
    BY <2>2, <2>4, KindsAre, EmptyIs
  <2>6. Whole(d) /\ d.shown = {}
    BY <2>3, <2>4, <2>5 DEF Whole, Change
  <2>7. QED
    BY <2>1, <2>2, <2>3, <2>6, WholeShaped DEF Staged
<1>3. CASE \E c \in Cogs, s \in Signs :
             Insert([Empty("evolution", e, x, {}) EXCEPT !.updates = {<<c, s>>}])
  <2>1. PICK c \in Cogs, s \in Signs :
          Insert([Empty("evolution", e, x, {}) EXCEPT !.updates = {<<c, s>>}])
    BY <1>3
  <2>2. PICK updates, empty : updates = {<<c, s>>} /\ empty = Empty("evolution", e, x, {})
    OBVIOUS
  <2>3. PICK d : d = [empty EXCEPT !.updates = updates]
    OBVIOUS
  <2>4. updates \in SUBSET (Cogs \X Signs)
    BY <2>2
  <2>5. Whole(empty) /\ empty.shown = {}
    BY <2>2, KindsAre, EmptyIs
  <2>6. Whole(d) /\ d.shown = {}
    BY <2>3, <2>4, <2>5 DEF Whole, Change
  <2>7. QED
    BY <2>1, <2>2, <2>3, <2>6, WholeShaped DEF Staged
<1>4. CASE \E r \in Rels, word \in {"active", "ended"}, c \in Cogs, p \in SUBSET Cogs :
             Insert([Empty("evolution", e, x, {c}) EXCEPT !.states = {<<r, word>>}, !.swaps = p \X {c}])
  <2>1. PICK r \in Rels, word \in {"active", "ended"}, c \in Cogs, p \in SUBSET Cogs :
          Insert([Empty("evolution", e, x, {c}) EXCEPT !.states = {<<r, word>>}, !.swaps = p \X {c}])
    BY <1>4
  <2>2. PICK new, states, swaps, empty : /\ new = {c} /\ states = {<<r, word>>} /\ swaps = p \X {c}
                                         /\ empty = Empty("evolution", e, x, new)
    OBVIOUS
  <2>3. PICK d : d = [empty EXCEPT !.states = states, !.swaps = swaps]
    OBVIOUS
  <2>4. /\ new \in SUBSET Things /\ swaps \in SUBSET (Cogs \X Cogs)
        /\ states \in SUBSET (Rels \X {"active", "ended"})
    BY <2>2 DEF Things
  <2>5. Whole(empty) /\ empty.shown = {}
    BY <2>2, <2>4, KindsAre, EmptyIs
  <2>6. Whole(d) /\ d.shown = {}
    BY <2>3, <2>4, <2>5 DEF Whole, Change
  <2>7. QED
    BY <2>1, <2>2, <2>3, <2>6, WholeShaped DEF Staged
<1>5. QED
  BY <1>1, <1>2, <1>3, <1>4

LEMMA StageTypedCorrectionIs ==
  ASSUME TypeOK, NEW e \in Evs, NEW x \in Texts, StageTypedCorrection(e, x) PROVE Staged
<1>1. PICK c \in Cogs, p \in Cogs :
        LET d == [Empty("evolution", e, x, {c}) EXCEPT !.swaps = {<<p, c>>}] IN
        \E s \in Compiled(d, "corrects", p, c) : Insert(Signed(d, s))
  BY DEF StageTypedCorrection
<1>2. PICK new, swaps, empty : /\ new = {c} /\ swaps = {<<p, c>>} /\ empty = Empty("evolution", e, x, new)
  OBVIOUS
<1>3. PICK d : d = [empty EXCEPT !.swaps = swaps]
  OBVIOUS
<1>4. \E s \in Compiled(d, "corrects", p, c) : Insert(Signed(d, s))
  BY <1>1, <1>2, <1>3
<1>5. PICK s \in Compiled(d, "corrects", p, c) : Insert(Signed(d, s))
  BY <1>4
<1>6. new \in SUBSET Things /\ swaps \in SUBSET (Cogs \X Cogs)
  BY <1>2 DEF Things
<1>7. Whole(empty) /\ empty.kind = "evolution" /\ empty.ev = e /\ empty.text = x /\ empty.new = new
  BY <1>2, <1>6, KindsAre, EmptyIs
<1>8. Whole(d) /\ d.kind = "evolution" /\ d.ev = e /\ d.text = x /\ d.new = new
  BY <1>3, <1>6, <1>7 DEF Whole, Change
<1>9. s \in Display /\ TellsBefore(s) /\ s.binds \in SUBSET Ents
  BY <1>6, <1>8, CompiledIs
<1>10. QED
  BY <1>5, <1>8, <1>9, WithSigned DEF Staged

LEMMA StageTurnIs == ASSUME TypeOK, StageTurn PROVE Staged
<1>1. PICK e \in Evs, x \in Texts, t \in Turns(World) :
        \/ \E d \in CompileTurn(t, World, e, x) : Insert(d)
        \/ \E p \in Catalog(World) : \E d \in CompileCorrection(p, t, World, e, x) : Insert(d)
  BY DEF StageTurn
<1>2. OneClaim(t) \/ TwoClaims(t)
  BY TurnsAre
<1>3. CASE \E d \in CompileTurn(t, World, e, x) : Insert(d)
  BY <1>2, <1>3, CompiledTurnIs DEF Staged
<1>4. CASE \E p \in Catalog(World) : \E d \in CompileCorrection(p, t, World, e, x) : Insert(d)
  BY <1>2, <1>4, CompiledCorrectionIs DEF Staged
<1>5. QED
  BY <1>1, <1>3, <1>4

(* The steps: a change is staged, or a review decided. *)
LEMMA Steps ==
  ASSUME TypeOK, Next
  PROVE  \/ Staged
         \/ \E i \in 1 .. MaxReviews :
              Reject(i) \/ AcceptWhole(i) \/ \E chosen \in SUBSET {1, 2} : AcceptClaims(i, chosen)
BY StageAdditionIs, StageCorrectionIs, StageBundleIs, StageSignedBundleIs, StageSuccessorIs,
   StageEvolutionIs, StageTypedCorrectionIs, StageTurnIs DEF Next

-----------------------------------------------------------------------------
(* The inductive invariant.                                                *)

Wellmade == \A i \in Reviews : Shaped(proposals[i].change) /\ proposals[i].base <= revision
Dated == \A e \in edges : e.revision <= revision

(* A review prepared for today's World was signed in today's World, and    *)
(* what it only points at is still the one thing spoken of.                *)
SignedToday(d, s) ==
  /\ s.base = graph
  /\ d.kind = "evolution" /\ s.named = "reference" => SpokenOf(World, s.session) = {Target(s.before[1])}
FreshBases ==
  \A i \in With("pending") : proposals[i].base = revision =>
    \A s \in proposals[i].change.shown : SignedToday(proposals[i].change, s)

(* What a signed correction was written over stays as it was shown: it is  *)
(* replaced, and takes no Evidence any more.                               *)
CorrectedStays ==
  \A i \in With("accept") : proposals[i].change.kind = "evolution" =>
    \A s \in proposals[i].change.shown : Superseded(s.before[1])

Linear == CognitionLine /\ RelationshipLine

(* Every decision has its receipt. *)
Receipts ==
  /\ ReceiptsHold
  /\ \A i \in With("accept") \cup With("reject") : proposals[i].receipt.revision \in Nat

IInv == TypeOK /\ Wellmade /\ Dated /\ FreshBases /\ CorrectedStays /\ Linear /\ HistoryReadable
        /\ Receipts /\ ShownIsStored /\ NothingDangles /\ ClaimsStandTogether

-----------------------------------------------------------------------------
(* A contract that holds goes on holding in a World with more records, as  *)
(* long as what was replaced rests on what it rested on.                   *)

LEMMA UpdateGrows ==
  ASSUME NEW d, NEW s, NEW g, NEW h, g.things \subseteq h.things, UpdateHolds(d, s, g)
  PROVE  UpdateHolds(d, s, h)
<1>1. StatementTarget(d, s, g) => StatementTarget(d, s, h)
  BY DEF StatementTarget
<1>2. EntityTarget(d, s, g) => EntityTarget(d, s, h)
  BY DEF EntityTarget
<1>3. ObjectTarget(s, g) => ObjectTarget(s, h)
  BY DEF ObjectTarget
<1>4. QED
  BY <1>1, <1>2, <1>3 DEF UpdateHolds

LEMMA BundleGrows ==
  ASSUME NEW d, NEW s, NEW g, NEW h, g.things \subseteq h.things, BundleHolds(d, s, g)
  PROVE  BundleHolds(d, s, h)
<1>1. UpdateHolds(d, s, g) => UpdateHolds(d, s, h)
  BY UpdateGrows
<1>2. EvaluationHolds(d, s, g) => EvaluationHolds(d, s, h)
  BY DEF EvaluationHolds, EvaluationTarget
<1>3. QED
  BY <1>1, <1>2 DEF BundleHolds

LEMMA CorrectionGrows ==
  ASSUME NEW d, NEW s, NEW g, NEW h, g.things \subseteq h.things,
         g.sources[s.before[1]] = h.sources[s.before[1]], CorrectionHolds(d, s, g)
  PROVE  CorrectionHolds(d, s, h)
<1>1. CorrectionPrior(s, g) => CorrectionPrior(s, h)
  BY DEF CorrectionPrior
<1>2. CorrectionShown(s, g) => CorrectionShown(s, h)
  BY DEF CorrectionShown, Rests
<1>3. CorrectionOfEntity(d, s, g) => CorrectionOfEntity(d, s, h)
  BY DEF CorrectionOfEntity
<1>4. QED
  BY <1>1, <1>2, <1>3 DEF CorrectionHolds

-----------------------------------------------------------------------------
(* What a step that only adds or rejects a review leaves alone.            *)

LEMMA Fields == World.things = things /\ World.sources = sources /\ World.ledger = ledger
BY DEF World

(* The reviews that were accepted and what they did are the same. *)
SameHistory ==
  /\ UNCHANGED <<things, sources, revision, ledger, edges>>
  /\ With("accept")' = With("accept")
  /\ \A i \in With("accept") :
       proposals'[i].change = proposals[i].change /\ proposals'[i].base = proposals[i].base
       /\ proposals'[i].applied = proposals[i].applied

LEMMA HistoryStays ==
  ASSUME SameHistory
  PROVE  /\ Reborn' = Reborn /\ World' = World /\ graph' = graph
         /\ \A c : Superseded(c)' = Superseded(c)
<1>1. Reborn' = Reborn
  BY DEF SameHistory, Reborn
<1>2. \A r : Stated(r)' = Stated(r)
  BY DEF SameHistory, Stated
<1>3. ASSUME NEW r PROVE Ended(r)' = Ended(r)
  <2>1. Stated(r)' = Stated(r)
    BY <1>2
  <2>2. \A i \in Stated(r) : proposals'[i].change = proposals[i].change /\ proposals'[i].base = proposals[i].base
    BY DEF SameHistory, Stated
  <2>3. QED
    BY <2>1, <2>2 DEF Ended
<1>4. \A r : Displaced(r)' = Displaced(r)
  BY <1>1 DEF Displaced
<1>5. \A r : Current(r)' = Current(r)
  BY <1>1, <1>2, <1>3, <1>4 DEF Current, Historical, SameHistory
<1>6. \A c : Superseded(c)' = Superseded(c)
  BY DEF Superseded, SameHistory
<1>7. {r \in Rels : Current(r)}' = {r \in Rels : Current(r)}
  BY <1>5
<1>8. {c \in Cogs : Superseded(c)}' = {c \in Cogs : Superseded(c)}
  BY <1>6
<1>9. {r \in Rels : Displaced(r)}' = {r \in Rels : Displaced(r)}
  BY <1>4
<1>10. World' = World
  BY <1>7, <1>8, <1>9 DEF World, SameHistory
<1>11. QED
  BY <1>1, <1>6, <1>10 DEF graph, SameHistory

(* What was accepted stays in order. *)
Standing == Dated /\ CorrectedStays /\ Linear /\ HistoryReadable /\ ShownIsStored
            /\ NothingDangles /\ ClaimsStandTogether

LEMMA StandingStays == ASSUME SameHistory, Standing PROVE Standing'
<1>1. /\ Reborn' = Reborn /\ World' = World
      /\ \A c : Superseded(c)' = Superseded(c)
  BY HistoryStays
<1>2. Dated'
  BY DEF Standing, Dated, SameHistory
<1>3. CorrectedStays'
  BY <1>1 DEF Standing, CorrectedStays, SameHistory
<1>4. Linear'
  BY <1>1 DEF Standing, Linear, CognitionLine, RelationshipLine, SameHistory
<1>5. HistoryReadable'
  BY <1>1 DEF Standing, HistoryReadable, Readable, SameHistory
<1>6. ShownIsStored'
  BY DEF Standing, ShownIsStored, SameHistory
<1>7. NothingDangles'
  BY DEF Standing, NothingDangles, SameHistory
<1>8. ClaimsStandTogether'
  BY DEF Standing, ClaimsStandTogether, SameHistory
<1>9. QED
  BY <1>2, <1>3, <1>4, <1>5, <1>6, <1>7, <1>8 DEF Standing

-----------------------------------------------------------------------------
(* Staging.                                                                *)

LEMMA SignedIsToday ==
  ASSUME TypeOK, NEW d, Shaped(d), SignedCurrent(d), NEW s \in d.shown
  PROVE  SignedToday(d, s)
<1>1. Seen(World) = graph
  BY DEF Seen, World, graph
<1>2. CASE d.kind = "evolution"
  BY <1>1, <1>2 DEF SignedCurrent, SignedToday, CorrectionIsCurrent
<1>3. CASE d.kind # "evolution"
  BY <1>1, <1>3 DEF SignedCurrent, SignedToday, BundleIsCurrent
<1>4. QED
  BY <1>2, <1>3

LEMMA StagedKeeps == ASSUME IInv, Staged PROVE IInv'
<1> USE DEF IInv
<1>1. PICK d : Insert(d) /\ Shaped(d)
  BY DEF Staged
<1>2. PICK p : p = [base |-> revision, status |-> "pending", change |-> d, applied |-> {}, receipt |-> NoReceipt]
  OBVIOUS
<1>3. p \in Proposal /\ p.base = revision /\ p.status = "pending" /\ p.change = d
  BY <1>1, <1>2 DEF Shaped, Proposal, TypeOK
<1>4. /\ proposals' = Append(proposals, p) /\ SignedCurrent(d)
      /\ UNCHANGED <<things, sources, revision, ledger, edges>>
  BY <1>1, <1>2 DEF Insert
<1>5. /\ proposals \in Seq(Proposal) /\ proposals' \in Seq(Proposal)
      /\ Reviews' = Reviews \cup {Len(proposals) + 1} /\ Len(proposals) + 1 \notin Reviews
      /\ \A i \in Reviews : proposals'[i] = proposals[i]
      /\ proposals'[Len(proposals) + 1] = p
  BY <1>3, <1>4 DEF TypeOK, Reviews
<1>6. /\ With("accept")' = With("accept") /\ With("reject")' = With("reject")
      /\ With("pending")' = With("pending") \cup {Len(proposals) + 1}
  BY <1>3, <1>5 DEF With
<1>7. SameHistory
  BY <1>4, <1>5, <1>6 DEF SameHistory, With
<1>8. World' = World /\ graph' = graph
  BY <1>7, HistoryStays
<1>9. TypeOK'
  BY <1>4, <1>5 DEF TypeOK
<1>10. Wellmade'
  <2>1. Shaped(p.change) /\ p.base <= revision
    BY <1>1, <1>3 DEF TypeOK
  <2>2. QED
    BY <1>4, <1>5, <2>1 DEF Wellmade
<1>11. FreshBases'
  <2>1. ASSUME NEW i \in With("pending")', (proposals[i].base = revision)', NEW s \in proposals'[i].change.shown
        PROVE  SignedToday(proposals'[i].change, s)
    <3>1. CASE i \in With("pending")
      <4>1. proposals'[i] = proposals[i]
        BY <1>5, <3>1 DEF With
      <4>2. QED
        BY <1>4, <2>1, <3>1, <4>1 DEF FreshBases
    <3>2. CASE i = Len(proposals) + 1
      BY <1>1, <1>3, <1>4, <1>5, <2>1, <3>2, SignedIsToday
    <3>3. QED
      BY <1>6, <2>1, <3>1, <3>2
  <2>2. \A c, s : SignedToday(c, s)' <=> SignedToday(c, s)
    BY <1>8 DEF SignedToday
  <2>3. QED
    BY <2>1, <2>2 DEF FreshBases
<1>12. Standing'
  BY <1>7, StandingStays DEF Standing
<1>13. Receipts'
  <2>1. \A i \in With("accept") \cup With("reject") : proposals'[i] = proposals[i]
    BY <1>5 DEF With
  <2>2. QED
    BY <1>4, <1>6, <1>8, <2>1 DEF Receipts, ReceiptsHold
<1>14. QED
  BY <1>9, <1>10, <1>11, <1>12, <1>13 DEF Standing

-----------------------------------------------------------------------------
(* A decision changes one row, and of that row never what was staged.      *)

LEMMA DecidedIs ==
  ASSUME TypeOK, NEW i \in Reviews, NEW status \in {"accept", "reject"}, NEW applied \in SUBSET Nat,
         NEW rev \in Nat, NEW g \in Worlds, Decided(i, status, applied, rev, g)
  PROVE  /\ proposals' \in Seq(Proposal) /\ Reviews' = Reviews
         /\ \A j \in Reviews : /\ proposals'[j].change = proposals[j].change
                               /\ proposals'[j].base = proposals[j].base
                               /\ j # i => proposals'[j] = proposals[j]
         /\ proposals'[i].status = status /\ proposals'[i].applied = applied
         /\ proposals'[i].receipt.revision = rev /\ proposals'[i].receipt.graph = g
<1>1. PICK receipt : receipt = [revision |-> rev, graph |-> g]
  OBVIOUS
<1>2. receipt \in Receipt /\ receipt.revision = rev /\ receipt.graph = g
  BY <1>1 DEF Receipt
<1>3. PICK p : p = proposals[i]
  OBVIOUS
<1>4. PICK q : q = [p EXCEPT !.status = status, !.applied = applied, !.receipt = receipt]
  OBVIOUS
<1>5. p \in Proposal
  BY <1>3 DEF TypeOK, Reviews
<1>6. /\ q \in Proposal /\ q.change = p.change /\ q.base = p.base
      /\ q.status = status /\ q.applied = applied /\ q.receipt = receipt
  BY <1>2, <1>4, <1>5 DEF Proposal
<1>7. proposals' = [proposals EXCEPT ![i] = q]
  BY <1>1, <1>3, <1>4 DEF Decided, TypeOK, Reviews
<1>8. proposals' \in Seq(Proposal) /\ Reviews' = Reviews
  BY <1>6, <1>7 DEF TypeOK, Reviews
<1>9. proposals'[i] = q /\ \A j \in Reviews : j # i => proposals'[j] = proposals[j]
  BY <1>7 DEF TypeOK, Reviews
<1>10. QED
  BY <1>2, <1>3, <1>6, <1>8, <1>9

LEMMA RejectKeeps == ASSUME IInv, NEW i, Reject(i) PROVE IInv'
<1> USE DEF IInv
<1>1. /\ i \in Reviews /\ proposals[i].status = "pending" /\ Decided(i, "reject", {}, revision, graph)
      /\ UNCHANGED <<things, sources, revision, ledger, edges>>
  BY DEF Reject, With
<1>2. {} \in SUBSET Nat /\ revision \in Nat /\ graph \in Worlds
  BY DEF TypeOK, graph, Worlds
<1>4. /\ proposals' \in Seq(Proposal) /\ Reviews' = Reviews
      /\ \A j \in Reviews : /\ proposals'[j].change = proposals[j].change
                            /\ proposals'[j].base = proposals[j].base
                            /\ j # i => proposals'[j] = proposals[j]
      /\ proposals'[i].status = "reject"
      /\ proposals'[i].receipt.revision = revision /\ proposals'[i].receipt.graph = graph
  BY <1>1, <1>2, DecidedIs
<1>5. /\ With("accept")' = With("accept") /\ With("reject")' = With("reject") \cup {i}
      /\ With("pending")' = With("pending") \ {i}
  BY <1>1, <1>4 DEF With
<1>6. SameHistory
  BY <1>1, <1>4, <1>5 DEF SameHistory, With
<1>7. World' = World /\ graph' = graph
  BY <1>6, HistoryStays
<1>8. TypeOK' /\ Wellmade'
  BY <1>1, <1>4 DEF TypeOK, Wellmade
<1>9. FreshBases'
  <2>1. \A c, s : SignedToday(c, s)' <=> SignedToday(c, s)
    BY <1>7 DEF SignedToday
  <2>2. QED
    BY <1>1, <1>4, <1>5, <2>1 DEF FreshBases, With
<1>10. Standing'
  BY <1>6, StandingStays DEF Standing
<1>11. Receipts'
  BY <1>1, <1>2, <1>4, <1>5, <1>7 DEF Receipts, ReceiptsHold, With
<1>12. QED
  BY <1>8, <1>9, <1>10, <1>11 DEF Standing

-----------------------------------------------------------------------------
(* Acceptance: what is written of review i is d, which is the whole of it  *)
(* or the part its owner took; i is the review that was prepared for the   *)
(* World as it is.                                                         *)
Accepts(i, d, applied) ==
  /\ i \in Reviews /\ proposals[i].status = "pending" /\ proposals[i].base = revision
  /\ Readable(proposals[i].change) /\ Write(i, d, applied)
  /\ applied \in SUBSET Nat /\ d \in Change
  /\ d.kind = proposals[i].change.kind /\ d.ev = proposals[i].change.ev
  /\ d.text = proposals[i].change.text /\ d.reborn = proposals[i].change.reborn
  /\ d.new \subseteq proposals[i].change.new
  /\ proposals[i].change.shown # {} => d = proposals[i].change
  /\ \A n \in proposals[i].change.needs :
       n[1] \in applied =>
         n[2] \in applied /\ proposals[i].change.claims[n[2]].new \subseteq d.new

LEMMA WholeAccepts ==
  ASSUME TypeOK, Wellmade, NEW i, AcceptWhole(i) PROVE Accepts(i, proposals[i].change, {})
<1>1. i \in Reviews /\ proposals[i].change \in Change
  BY DEF AcceptWhole, With, Wellmade, Shaped
<1>2. QED
  BY <1>1 DEF AcceptWhole, With, Accepts, Stale

LEMMA PartAccepts ==
  ASSUME TypeOK, Wellmade, NEW i, NEW chosen, AcceptClaims(i, chosen)
  PROVE  \E d, applied : Accepts(i, d, applied)
<1> DEFINE c == proposals[i].change
           applied == Closure(c, chosen)
           new == Always(c) \cup UNION {c.claims[k].new : k \in applied}
           swaps == UNION {c.claims[k].swaps : k \in applied}
<1>1. /\ i \in Reviews /\ proposals[i].status = "pending" /\ proposals[i].base = revision
      /\ c.claims # <<>> /\ chosen \subseteq DOMAIN c.claims /\ Readable(c)
      /\ Write(i, Part(c, applied), applied)
  BY DEF AcceptClaims, With, Stale
<1>2. Shaped(c)
  BY <1>1 DEF Wellmade
<1>3. c \in Change /\ c.claims \in Seq(Claim) /\ 1 \in DOMAIN c.claims /\ c.shown = {} /\ c.reborn = {}
  BY <1>1, <1>2 DEF Shaped, Change
<1>4. applied \subseteq DOMAIN c.claims
  BY <1>1, <1>2, <1>3 DEF Closure, Shaped
<1>5. applied \in SUBSET Nat
  BY <1>3, <1>4
<1>6. new \subseteq c.new
  BY <1>2, <1>4 DEF Always, Shaped
<1>7. swaps \in SUBSET (Cogs \X Cogs)
  <2>1. ASSUME NEW k \in applied PROVE c.claims[k].swaps \in SUBSET (Cogs \X Cogs)
    <3>1. PICK claim : claim = c.claims[k]
      OBVIOUS
    <3>2. claim \in Claim
      BY <1>3, <1>4, <3>1
    <3>3. QED
      BY <3>1, <3>2 DEF Claim
  <2>2. QED
    BY <2>1
<1>8. \A n \in c.needs : n[1] \in applied => n[2] \in applied /\ c.claims[n[2]].new \subseteq new
  <2>1. ASSUME NEW n \in c.needs, n[1] \in applied PROVE n[2] \in applied
    <3>1. n = <<2, 1>> /\ c.needs \subseteq {<<2, 1>>}
      BY <1>2 DEF Shaped
    <3>2. 2 \in chosen
      BY <2>1, <3>1 DEF Closure
    <3>3. 1 \in applied
      BY <2>1, <3>1, <3>2 DEF Closure
    <3>4. QED
      BY <3>1, <3>3
  <2>2. QED
    BY <2>1
<1>9. PICK ns, ss, d : /\ ns = new /\ ss = swaps
                       /\ d = [c EXCEPT !.new = ns, !.swaps = ss, !.claims = <<>>, !.needs = {}]
  OBVIOUS
<1>10. d = Part(c, applied)
  BY <1>9 DEF Part
<1>11. ns \in SUBSET Things /\ ss \in SUBSET (Cogs \X Cogs)
  BY <1>3, <1>6, <1>7, <1>9 DEF Change
<1>12. PICK p : p = c
  OBVIOUS
<1>13. p \in Change /\ d = [p EXCEPT !.new = ns, !.swaps = ss, !.claims = <<>>, !.needs = {}]
  BY <1>3, <1>9, <1>12
<1>14. <<>> \in Seq(Claim) /\ {} \in SUBSET (Nat \X Nat)
  OBVIOUS
<1>15. /\ d \in Change /\ d.kind = p.kind /\ d.ev = p.ev /\ d.text = p.text /\ d.reborn = p.reborn
       /\ d.new = ns
  BY <1>11, <1>13, <1>14 DEF Change
<1> HIDE DEF applied, new, swaps
<1>16. Accepts(i, d, applied)
  BY <1>1, <1>3, <1>5, <1>6, <1>8, <1>9, <1>10, <1>12, <1>15 DEF Accepts
<1>17. QED
  BY <1>16

LEMMA SourcesAfterIs ==
  ASSUME TypeOK, NEW d \in Change
  PROVE  /\ SourcesAfter(d) \in [Cogs -> Sources]
         /\ \A c \in Cogs :
              /\ sources[c] \subseteq SourcesAfter(d)[c]
              /\ c \in d.new => <<d.ev, "support">> \in SourcesAfter(d)[c]
              /\ \A s \in SourcesAfter(d)[c] \ sources[c] :
                   s[1] = d.ev /\ (c \in d.new \/ \E u \in d.updates : u[1] = c)
<1> DEFINE F(c) == sources[c] \cup (IF c \in d.new THEN {<<d.ev, "support">>} ELSE {})
                              \cup {<<d.ev, u[2]>> : u \in {v \in d.updates : v[1] = c}}
<1>1. SourcesAfter(d) = [c \in Cogs |-> F(c)]
  BY DEF SourcesAfter
<1>2. ASSUME NEW c \in Cogs PROVE F(c) \in Sources
  <2>1. d.updates \subseteq Cogs \X Signs /\ d.ev \in Evs
    BY DEF Change
  <2>2. sources[c] \subseteq Evs \X Signs
    BY DEF TypeOK, Sources
  <2>3. QED
    BY <2>1, <2>2 DEF Sources, Signs
<1>3. ASSUME NEW c \in Cogs
      PROVE  /\ sources[c] \subseteq F(c) /\ (c \in d.new => <<d.ev, "support">> \in F(c))
             /\ \A s \in F(c) \ sources[c] :
                  s[1] = d.ev /\ (c \in d.new \/ \E u \in d.updates : u[1] = c)
  OBVIOUS
<1> HIDE DEF F
<1>4. QED
  BY <1>1, <1>2, <1>3

(* What an acceptance leaves: the rows, the World, the histories.          *)
LEMMA AcceptsRows ==
  ASSUME TypeOK, NEW i, NEW d, NEW applied, Accepts(i, d, applied)
  PROVE  /\ proposals' \in Seq(Proposal) /\ Reviews' = Reviews
         /\ \A j \in Reviews : /\ proposals'[j].change = proposals[j].change
                               /\ proposals'[j].base = proposals[j].base
                               /\ j # i => proposals'[j] = proposals[j]
         /\ proposals'[i].applied = applied
         /\ proposals'[i].receipt.revision = revision + 1 /\ proposals'[i].receipt.graph = graph'
         /\ With("accept")' = With("accept") \cup {i} /\ With("reject")' = With("reject")
         /\ With("pending")' = With("pending") \ {i}
<1>1. /\ i \in Reviews /\ applied \in SUBSET Nat /\ d \in Change
      /\ things' = things \cup d.new /\ sources' = SourcesAfter(d)
      /\ proposals[i].status = "pending"
      /\ Decided(i, "accept", applied, revision + 1, <<things', sources'>>)
  BY DEF Accepts, Write
<1>2. things' \subseteq Things /\ sources' \in [Cogs -> Sources]
  BY <1>1, SourcesAfterIs DEF TypeOK, Change
<1>3. PICK g : g = <<things', sources'>>
  OBVIOUS
<1>4. g \in Worlds /\ revision + 1 \in Nat /\ g = graph'
  BY <1>2, <1>3 DEF Worlds, TypeOK, graph
<1>5. /\ proposals' \in Seq(Proposal) /\ Reviews' = Reviews
      /\ \A j \in Reviews : /\ proposals'[j].change = proposals[j].change
                            /\ proposals'[j].base = proposals[j].base
                            /\ j # i => proposals'[j] = proposals[j]
      /\ proposals'[i].status = "accept" /\ proposals'[i].applied = applied
      /\ proposals'[i].receipt.revision = revision + 1 /\ proposals'[i].receipt.graph = g
  BY <1>1, <1>3, <1>4, DecidedIs
<1>6. /\ With("accept")' = With("accept") \cup {i} /\ With("reject")' = With("reject")
      /\ With("pending")' = With("pending") \ {i}
  BY <1>1, <1>5 DEF With
<1>7. QED
  BY <1>4, <1>5, <1>6

LEMMA AcceptsWorld ==
  ASSUME TypeOK, NothingDangles, NEW i, NEW d, NEW applied, Accepts(i, d, applied)
  PROVE  /\ things' = things \cup d.new /\ d.new \cap things = {} /\ d.new \subseteq Things
         /\ sources' = SourcesAfter(d) /\ sources' \in [Cogs -> Sources]
         /\ revision' = revision + 1
         /\ \A c \in Cogs : Superseded(c) => sources'[c] = sources[c]
         /\ \A w \in d.swaps : w[1] \in things /\ ~Superseded(w[1]) /\ w[2] \in d.new
         /\ \A e \in Evs : ledger[e] # NoText => ledger'[e] = ledger[e]
         /\ ledger' \in [Evs -> Texts \cup {NoText}]
         /\ d.ev \in Evs /\ d.text \in Texts /\ ledger'[d.ev] = d.text
<1>1. /\ Fits(d) /\ LedgerFits(d) /\ d \in Change
      /\ things' = things \cup d.new /\ sources' = SourcesAfter(d) /\ revision' = revision + 1
      /\ ledger' = [ledger EXCEPT ![d.ev] = IF @ = NoText THEN d.text ELSE @]
  BY DEF Accepts, Write
<1>2. d.new \subseteq Things /\ d.ev \in Evs /\ d.text \in Texts /\ d.updates \subseteq Cogs \X Signs
  BY <1>1 DEF Change
<1>3. d.new \cap things = {}
  BY <1>1 DEF Fits, DeltaFits
<1>4. sources' \in [Cogs -> Sources]
  BY <1>1, SourcesAfterIs
<1>5. ASSUME NEW c \in Cogs, Superseded(c) PROVE sources'[c] = sources[c]
  <2>1. c \in things
    BY <1>5 DEF Superseded, NothingDangles
  <2>2. c \notin d.new
    BY <1>3, <2>1
  <2>3. \A u \in d.updates : u[1] # c
    BY <1>1, <1>5 DEF Fits, UpdateFits
  <2>4. SourcesAfter(d)[c] = sources[c]
    <3>1. /\ sources[c] \subseteq SourcesAfter(d)[c]
          /\ \A s \in SourcesAfter(d)[c] \ sources[c] : c \in d.new \/ \E u \in d.updates : u[1] = c
      BY <1>1, SourcesAfterIs
    <3>2. SourcesAfter(d)[c] \ sources[c] = {}
      BY <2>2, <2>3, <3>1
    <3>3. QED
      BY <3>1, <3>2
  <2>5. QED
    BY <1>1, <2>4
<1>6. \A w \in d.swaps : w[1] \in things /\ ~Superseded(w[1]) /\ w[2] \in d.new
  BY <1>1 DEF Fits, SwapFits
<1>7. /\ \A e \in Evs : ledger[e] # NoText => ledger'[e] = ledger[e]
      /\ ledger' \in [Evs -> Texts \cup {NoText}] /\ ledger'[d.ev] = d.text
  BY <1>1, <1>2 DEF TypeOK, LedgerFits
<1>8. QED
  BY <1>1, <1>2, <1>3, <1>4, <1>5, <1>6, <1>7

LEMMA AcceptsType ==
  ASSUME TypeOK, NothingDangles, NEW i, NEW d, NEW applied, Accepts(i, d, applied) PROVE TypeOK'
<1>1. things' = things \cup d.new /\ d.new \subseteq Things /\ sources' \in [Cogs -> Sources]
      /\ revision' = revision + 1 /\ ledger' \in [Evs -> Texts \cup {NoText}]
  BY AcceptsWorld
<1>2. proposals' \in Seq(Proposal)
  BY AcceptsRows
<1>3. edges' \subseteq Edge
  <2>1. /\ d \in Change
        /\ edges' = edges \cup {[prior |-> w[1], succ |-> w[2], revision |-> revision + 1] : w \in d.swaps}
    BY DEF Accepts, Write
  <2>2. ASSUME NEW w \in d.swaps
        PROVE  [prior |-> w[1], succ |-> w[2], revision |-> revision + 1] \in Edge
    <3>1. w[1] \in Cogs /\ w[2] \in Cogs /\ revision + 1 \in Nat
      BY <2>1 DEF Change, TypeOK
    <3>2. QED
      BY <3>1 DEF Edge
  <2>3. QED
    BY <2>1, <2>2 DEF TypeOK
<1>4. QED
  BY <1>1, <1>2, <1>3 DEF TypeOK

LEMMA AcceptsEdges ==
  ASSUME NEW i, NEW d, NEW applied, Accepts(i, d, applied), NEW e \in edges'
  PROVE  \/ e \in edges
         \/ \E w \in d.swaps : e.prior = w[1] /\ e.succ = w[2] /\ e.revision = revision + 1
            /\ e = [prior |-> w[1], succ |-> w[2], revision |-> revision + 1]
BY DEF Accepts, Write

LEMMA AcceptsLine ==
  ASSUME TypeOK, NothingDangles, Dated, Linear, NEW i, NEW d, NEW applied, Accepts(i, d, applied)
  PROVE  Dated' /\ Linear'
<1>1. /\ Fits(d) /\ OncePerPrior(d.swaps) /\ OncePerPrior(d.reborn)
      /\ \A n \in d.reborn : ~Displaced(n[1])
  BY DEF Accepts, Write, Fits, RebornFits
<1>2. revision \in Nat /\ \A e \in edges : e.revision \in Nat
  BY DEF TypeOK, Edge
<1>3. Dated'
  BY <1>2, AcceptsEdges, AcceptsWorld DEF Dated
<1>4. CognitionLine'
  <2>1. ASSUME NEW e \in edges', NEW f \in edges', e.prior = f.prior PROVE e = f
    <3>1. CASE e \in edges /\ f \in edges
      BY <2>1, <3>1 DEF Linear, CognitionLine
    <3>2. CASE e \notin edges /\ f \notin edges
      BY <1>1, <2>1, <3>2, AcceptsEdges DEF OncePerPrior
    <3>3. CASE e \in edges /\ f \notin edges
      <4>1. ~Superseded(f.prior)
        BY <3>3, AcceptsEdges, AcceptsWorld
      <4>2. QED
        BY <2>1, <3>3, <4>1 DEF Superseded
    <3>4. CASE e \notin edges /\ f \in edges
      <4>1. ~Superseded(e.prior)
        BY <3>4, AcceptsEdges, AcceptsWorld
      <4>2. QED
        BY <2>1, <3>4, <4>1 DEF Superseded
    <3>5. QED
      BY <3>1, <3>2, <3>3, <3>4
  <2>2. ASSUME NEW e \in edges', NEW f \in edges', e.succ = f.prior PROVE e.revision < f.revision
    <3>1. f.prior \in things
      BY AcceptsEdges, AcceptsWorld DEF NothingDangles
    <3>2. e \in edges
      BY <2>2, <3>1, AcceptsEdges, AcceptsWorld
    <3>3. CASE f \in edges
      BY <2>2, <3>2, <3>3 DEF Linear, CognitionLine
    <3>4. CASE f \notin edges
      <4>1. f.revision = revision + 1 /\ e.revision <= revision
        BY <3>2, <3>4, AcceptsEdges DEF Dated
      <4>2. QED
        BY <1>2, <3>2, <4>1
    <3>5. QED
      BY <3>3, <3>4
  <2>3. QED
    BY <2>1, <2>2 DEF CognitionLine
<1>5. Reborn' = Reborn \cup d.reborn
  <2>1. /\ \A j \in Reviews : proposals'[j].change = proposals[j].change
        /\ With("accept")' = With("accept") \cup {i} /\ i \in Reviews
    BY AcceptsRows DEF Accepts
  <2>2. d.reborn = proposals[i].change.reborn
    BY DEF Accepts
  <2>3. QED
    BY <2>1, <2>2 DEF Reborn, With
<1>6. RelationshipLine'
  BY <1>1, <1>5 DEF RelationshipLine, Linear, OncePerPrior, Displaced
<1>7. QED
  BY <1>3, <1>4, <1>6 DEF Linear

(* What is signed of an accepted evolution is a plan of one replacement,   *)
(* and what its prior rests on is not touched by its own acceptance.       *)
LEMMA AcceptsCorrection ==
  ASSUME TypeOK, NothingDangles, NEW i, NEW d, NEW applied, Accepts(i, d, applied),
         d.kind = "evolution", NEW s \in proposals[i].change.shown
  PROVE  /\ proposals[i].change = d /\ CorrectionHolds(d, s, World)
         /\ (\E w \in d.swaps : s.before[1] = w[1])
         /\ s.before[1] \in things \cap Cogs /\ sources'[s.before[1]] = sources[s.before[1]]
<1>1. proposals[i].change = d /\ CorrectionHolds(d, s, World) /\ d \in Change
  BY DEF Accepts, Readable
<1>2. PICK w \in d.swaps : OnlySwap(d, w) /\ s.before[1] = w[1]
  BY <1>1 DEF CorrectionHolds, CorrectionPlan
<1>3. [d EXCEPT !.swaps = {}].updates = d.updates
  BY <1>1 DEF Change
<1>4. d.updates = {}
  BY <1>2, <1>3 DEF OnlySwap, Nothing
<1>5. w[1] \in Cogs /\ w[1] \in things /\ w[1] \notin d.new
  BY <1>1, AcceptsWorld DEF Change
<1>6. sources'[w[1]] = sources[w[1]]
  <2>1. /\ sources[w[1]] \subseteq SourcesAfter(d)[w[1]]
        /\ \A e \in SourcesAfter(d)[w[1]] \ sources[w[1]] : w[1] \in d.new \/ \E u \in d.updates : u[1] = w[1]
    BY <1>1, <1>5, SourcesAfterIs
  <2>2. SourcesAfter(d)[w[1]] \ sources[w[1]] = {}
    BY <1>4, <1>5, <2>1
  <2>3. SourcesAfter(d)[w[1]] = sources[w[1]]
    BY <2>1, <2>2
  <2>4. QED
    BY <2>3, AcceptsWorld
<1>7. QED
  BY <1>1, <1>2, <1>5, <1>6

LEMMA AcceptsReplaced ==
  ASSUME NEW i, NEW d, NEW applied, Accepts(i, d, applied)
  PROVE  /\ \A c : Superseded(c) => Superseded(c)'
         /\ \A w \in d.swaps : Superseded(w[1])'
<1>1. edges' = edges \cup {[prior |-> w[1], succ |-> w[2], revision |-> revision + 1] : w \in d.swaps}
  BY DEF Accepts, Write
<1>2. \A c : Superseded(c) => Superseded(c)'
  BY <1>1 DEF Superseded
<1>3. ASSUME NEW w \in d.swaps PROVE Superseded(w[1])'
  <2>1. PICK e : e = [prior |-> w[1], succ |-> w[2], revision |-> revision + 1]
    OBVIOUS
  <2>2. e \in edges' /\ e.prior = w[1]
    BY <1>1, <2>1
  <2>3. QED
    BY <2>2 DEF Superseded
<1>4. QED
  BY <1>2, <1>3

LEMMA AcceptsCorrected ==
  ASSUME TypeOK, NothingDangles, CorrectedStays, NEW i, NEW d, NEW applied, Accepts(i, d, applied)
  PROVE  CorrectedStays'
<1>1. ASSUME NEW j \in With("accept")', proposals'[j].change.kind = "evolution",
             NEW s \in proposals'[j].change.shown
      PROVE  Superseded(s.before[1])'
  <2>1. /\ j \in With("accept") \cup {i} /\ proposals'[j].change = proposals[j].change
    BY <1>1, AcceptsRows DEF Accepts, With
  <2>2. CASE j \in With("accept")
    BY <1>1, <2>1, <2>2, AcceptsReplaced DEF CorrectedStays
  <2>3. CASE j = i
    <3>1. d.kind = "evolution"
      BY <1>1, <2>1, <2>3 DEF Accepts
    <3>2. PICK w \in d.swaps : s.before[1] = w[1]
      BY <2>1, <2>3, <3>1, AcceptsCorrection
    <3>3. QED
      BY <3>2, AcceptsReplaced
  <2>4. QED
    BY <2>1, <2>2, <2>3
<1>2. QED
  BY <1>1 DEF CorrectedStays

LEMMA AcceptsReadable ==
  ASSUME TypeOK, NothingDangles, CorrectedStays, HistoryReadable,
         NEW i, NEW d, NEW applied, Accepts(i, d, applied)
  PROVE  HistoryReadable'
<1>1. things \subseteq things' /\ \A c \in Cogs : Superseded(c) => sources'[c] = sources[c]
  BY AcceptsWorld
<1>2. PICK g, h : g = World /\ h = World'
  OBVIOUS
<1>3. g.things = things /\ h.things = things' /\ g.sources = sources /\ h.sources = sources'
  BY <1>2 DEF World
<1>4. ASSUME NEW j \in With("accept")' PROVE Readable(proposals[j].change)'
  <2>1. PICK c : c = proposals[j].change
    OBVIOUS
  <2>2. c = proposals'[j].change /\ j \in With("accept") \cup {i} /\ j \in Reviews
    BY <2>1, AcceptsRows DEF Accepts, With
  <2>3. Readable(c)
    BY <2>1, <2>2 DEF HistoryReadable, Accepts
  <2>4. ASSUME c.kind = "evolution" PROVE c.binds \subseteq things'
    BY <1>1, <2>3, <2>4 DEF Readable
  <2>5. ASSUME c.kind = "evolution", NEW s \in c.shown PROVE CorrectionHolds(c, s, h)
    <3>1. CorrectionHolds(c, s, g)
      BY <1>2, <2>3, <2>5 DEF Readable
    <3>2. s.before[1] \in Cogs
      <4>1. PICK w \in c.swaps : s.before[1] = w[1] /\ w[1] \in Cogs
        <5>1. proposals[j] \in Proposal
          BY <2>2 DEF TypeOK, Reviews
        <5>2. c \in Change
          BY <2>1, <5>1 DEF Proposal
        <5>3. c.swaps \subseteq Cogs \X Cogs
          BY <5>2 DEF Change
        <5>4. QED
          BY <3>1, <5>3 DEF CorrectionHolds, CorrectionPlan
      <4>2. QED
        BY <4>1
    <3>3. sources'[s.before[1]] = sources[s.before[1]]
      <4>1. CASE j = i
        <5>1. d.kind = "evolution"
          BY <2>1, <2>5, <4>1 DEF Accepts
        <5>2. QED
          BY <2>1, <2>5, <4>1, <5>1, AcceptsCorrection
      <4>2. CASE j \in With("accept")
        BY <1>1, <2>1, <2>5, <3>2, <4>2 DEF CorrectedStays
      <4>3. QED
        BY <2>2, <4>1, <4>2
    <3>4. QED
      BY <1>1, <1>3, <3>1, <3>3, CorrectionGrows
  <2>6. ASSUME c.kind = "product_bundle", NEW s \in c.shown PROVE BundleHolds(c, s, h)
    <3>1. BundleHolds(c, s, g)
      BY <1>2, <2>3, <2>6 DEF Readable
    <3>2. QED
      BY <1>1, <1>3, <3>1, BundleGrows
  <2>7. QED
    BY <1>2, <2>2, <2>4, <2>5, <2>6 DEF Readable
<1>5. QED
  BY <1>4 DEF HistoryReadable

LEMMA AcceptsReceipts ==
  ASSUME TypeOK, Receipts, NEW i, NEW d, NEW applied, Accepts(i, d, applied)
  PROVE  Receipts'
<1>1. /\ revision' = revision + 1 /\ revision \in Nat /\ i \in Reviews /\ proposals[i].base = revision
      /\ proposals[i].status = "pending"
  BY DEF Accepts, Write, TypeOK
<1>2. ASSUME NEW j \in (With("accept") \cup With("reject"))'
      PROVE  LET p == proposals'[j] IN
             /\ p.status = "accept" => p.receipt.revision = p.base + 1
             /\ p.receipt.revision <= revision'
             /\ p.receipt.revision = revision' => p.receipt.graph = graph'
             /\ p.receipt.revision \in Nat
  <2>1. CASE j = i
    BY <1>1, <2>1, AcceptsRows
  <2>2. CASE j # i
    <3>1. j \in With("accept") \cup With("reject") /\ proposals'[j] = proposals[j]
      BY <1>2, <2>2, AcceptsRows DEF With
    <3>2. PICK p : p = proposals[j]
      OBVIOUS
    <3>3. /\ p.status = "accept" => p.receipt.revision = p.base + 1
          /\ p.receipt.revision <= revision /\ p.receipt.revision \in Nat
      BY <3>1, <3>2 DEF Receipts, ReceiptsHold
    <3>4. p.receipt.revision <= revision' /\ p.receipt.revision # revision'
      BY <1>1, <3>3
    <3>5. QED
      BY <3>1, <3>2, <3>3, <3>4
  <2>3. QED
    BY <2>1, <2>2
<1>3. QED
  BY <1>2 DEF Receipts, ReceiptsHold

LEMMA AcceptsStored ==
  ASSUME TypeOK, NothingDangles, ShownIsStored, NEW i, NEW d, NEW applied, Accepts(i, d, applied)
  PROVE  ShownIsStored'
<1>1. /\ \A e \in Evs : ledger[e] # NoText => ledger'[e] = ledger[e]
      /\ ledger'[d.ev] = d.text /\ d.ev = proposals[i].change.ev /\ d.text = proposals[i].change.text
  BY AcceptsWorld DEF Accepts
<1>2. ASSUME NEW j \in With("accept")' PROVE ledger'[proposals'[j].change.ev] = proposals'[j].change.text
  <2>1. j \in With("accept") \cup {i} /\ proposals'[j].change = proposals[j].change
    BY AcceptsRows DEF Accepts, With
  <2>2. CASE j \in With("accept")
    <3>1. PICK p : p = proposals[j]
      OBVIOUS
    <3>2. p \in Proposal /\ ledger[p.change.ev] = p.change.text
      BY <2>2, <3>1 DEF With, Reviews, TypeOK, ShownIsStored
    <3>3. p.change.ev \in Evs /\ p.change.text \in Texts
      BY <3>2 DEF Proposal, Change
    <3>4. ledger[p.change.ev] # NoText
      BY <3>2, <3>3, SentinelAssumption
    <3>5. QED
      BY <1>1, <2>1, <3>1, <3>2, <3>3, <3>4
  <2>3. CASE j = i
    BY <1>1, <2>1, <2>3
  <2>4. QED
    BY <2>1, <2>2, <2>3
<1>3. QED
  BY <1>2 DEF ShownIsStored

LEMMA AcceptsWell ==
  ASSUME TypeOK, NothingDangles, NEW i, NEW d, NEW applied, Accepts(i, d, applied)
  PROVE  NothingDangles'
<1>1. /\ things' = things \cup d.new /\ sources' = SourcesAfter(d) /\ Fits(d) /\ d \in Change
      /\ d.ev \in Evs /\ d.text \in Texts /\ ledger'[d.ev] = d.text
      /\ \A e \in Evs : ledger[e] # NoText => ledger'[e] = ledger[e]
  BY AcceptsWorld DEF Accepts, Write
<1>2. \A t \in things' : Refers[t] \subseteq things'
  BY <1>1 DEF Fits, DeltaFits, AboutStored, NothingDangles
<1>3. ASSUME NEW c \in Cogs
      PROVE  /\ c \in things' \ Initial => sources'[c] # {}
             /\ c \notin things' => sources'[c] = {}
             /\ \A s \in sources'[c] : ledger'[s[1]] # NoText
  <2>1. /\ sources[c] \subseteq sources'[c]
        /\ c \in d.new => <<d.ev, "support">> \in sources'[c]
        /\ \A s \in sources'[c] \ sources[c] : s[1] = d.ev /\ (c \in d.new \/ \E u \in d.updates : u[1] = c)
    BY <1>1, SourcesAfterIs
  <2>2. \A u \in d.updates : u[1] \in things
    BY <1>1 DEF Fits, UpdateFits
  <2>3. c \in things' \ Initial => sources'[c] # {}
    BY <1>1, <2>1 DEF NothingDangles
  <2>4. c \notin things' => sources'[c] = {}
    <3>1. SUFFICES ASSUME c \notin things', NEW s \in sources'[c] PROVE FALSE
      OBVIOUS
    <3>2. sources[c] = {} /\ c \notin d.new /\ c \notin things
      BY <1>1, <3>1 DEF NothingDangles
    <3>3. QED
      BY <2>1, <2>2, <3>1, <3>2
  <2>5. ASSUME NEW s \in sources'[c] PROVE ledger'[s[1]] # NoText
    <3>1. CASE s \in sources[c]
      <4>1. s[1] \in Evs /\ ledger[s[1]] # NoText
        BY <3>1 DEF TypeOK, Sources, NothingDangles
      <4>2. QED
        BY <1>1, <4>1
    <3>2. CASE s \notin sources[c]
      BY <1>1, <2>1, <2>5, <3>2, SentinelAssumption
    <3>3. QED
      BY <3>1, <3>2
  <2>6. QED
    BY <2>3, <2>4, <2>5
<1>4. \A e \in edges' : e.prior \in things' /\ e.succ \in things'
  BY AcceptsEdges, AcceptsWorld DEF NothingDangles
<1>5. QED
  BY <1>2, <1>3, <1>4 DEF NothingDangles

LEMMA AcceptsTogether ==
  ASSUME TypeOK, NothingDangles, ClaimsStandTogether, NEW i, NEW d, NEW applied, Accepts(i, d, applied)
  PROVE  ClaimsStandTogether'
<1>1. things' = things \cup d.new
  BY AcceptsWorld
<1>2. ASSUME NEW j \in With("accept")', NEW n \in proposals'[j].change.needs, n[1] \in proposals'[j].applied
      PROVE  n[2] \in proposals'[j].applied /\ proposals'[j].change.claims[n[2]].new \subseteq things'
  <2>0. i \in Reviews
    BY DEF Accepts
  <2>1. /\ j \in With("accept") \cup {i} /\ proposals'[i].applied = applied
        /\ proposals'[j].change = proposals[j].change /\ (j # i => proposals'[j] = proposals[j])
    <3>1. With("accept")' = With("accept") \cup {i} /\ proposals'[i].applied = applied
      BY AcceptsRows
    <3>2. j \in With("accept") \cup {i} /\ j \in Reviews
      BY <2>0, <3>1 DEF With
    <3>3. proposals'[j].change = proposals[j].change /\ (j # i => proposals'[j] = proposals[j])
      BY <3>2, AcceptsRows
    <3>4. QED
      BY <3>1, <3>2, <3>3
  <2>2. CASE j = i
    BY <1>1, <1>2, <2>1, <2>2 DEF Accepts
  <2>3. CASE j # i
    <3>1. j \in With("accept") /\ n \in proposals[j].change.needs /\ n[1] \in proposals[j].applied
      BY <1>2, <2>1, <2>3
    <3>2. n[2] \in proposals[j].applied /\ proposals[j].change.claims[n[2]].new \subseteq things
      BY <3>1 DEF ClaimsStandTogether
    <3>3. QED
      BY <1>1, <2>1, <2>3, <3>2
  <2>4. QED
    BY <2>2, <2>3
<1>3. QED
  BY <1>2 DEF ClaimsStandTogether

LEMMA AcceptsKeeps == ASSUME IInv, NEW i, NEW d, NEW applied, Accepts(i, d, applied) PROVE IInv'
<1> USE DEF IInv
<1>1. revision' = revision + 1 /\ revision \in Nat
  BY AcceptsWorld DEF TypeOK
<1>2. Wellmade'
  <2>1. Reviews' = Reviews /\ \A j \in Reviews : /\ proposals'[j].change = proposals[j].change
                                                 /\ proposals'[j].base = proposals[j].base
    BY AcceptsRows
  <2>2. ASSUME NEW j \in Reviews PROVE proposals[j].base <= revision + 1
    <3>1. proposals[j] \in Proposal /\ proposals[j].base <= revision
      BY DEF Wellmade, TypeOK, Reviews
    <3>2. proposals[j].base \in Nat
      BY <3>1 DEF Proposal
    <3>3. QED
      BY <1>1, <3>1, <3>2
  <2>3. QED
    BY <1>1, <2>1, <2>2 DEF Wellmade
<1>3. FreshBases'
  <2>1. \A j \in With("pending")' : (proposals[j].base # revision)'
    <3>1. TAKE j \in With("pending")'
    <3>2. j \in Reviews /\ proposals'[j].base = proposals[j].base
      BY AcceptsRows DEF With
    <3>3. proposals[j] \in Proposal /\ proposals[j].base <= revision
      BY <3>2 DEF Wellmade, TypeOK, Reviews
    <3>4. proposals[j].base \in Nat
      BY <3>3 DEF Proposal
    <3>5. QED
      BY <1>1, <3>2, <3>3, <3>4
  <2>2. QED
    BY <2>1 DEF FreshBases
<1>4. TypeOK' /\ Dated' /\ Linear' /\ CorrectedStays' /\ HistoryReadable' /\ Receipts'
  BY AcceptsType, AcceptsLine, AcceptsCorrected, AcceptsReadable, AcceptsReceipts
<1>5. ShownIsStored' /\ NothingDangles' /\ ClaimsStandTogether'
  BY AcceptsStored, AcceptsWell, AcceptsTogether
<1>6. QED
  BY <1>2, <1>3, <1>4, <1>5

-----------------------------------------------------------------------------
LEMMA Initially == Init => IInv
<1> SUFFICES ASSUME Init PROVE IInv
  OBVIOUS
<1>1. TypeOK
  BY InitialAssumption DEF Init, TypeOK, Sources
<1>2. Reviews = {} /\ edges = {}
  BY DEF Init, Reviews
<1>3. \A status : With(status) = {}
  BY <1>2 DEF With
<1>4. Reborn = {}
  BY <1>3 DEF Reborn
<1>5. Linear
  BY <1>2, <1>4 DEF Linear, CognitionLine, RelationshipLine
<1>6. NothingDangles
  BY <1>2, InitialAssumption DEF Init, NothingDangles
<1>7. QED
  BY <1>1, <1>2, <1>3, <1>5, <1>6
     DEF IInv, Wellmade, Dated, FreshBases, CorrectedStays, HistoryReadable, Receipts, ReceiptsHold,
         ShownIsStored, ClaimsStandTogether

LEMMA Inductive == IInv /\ [Next]_vars => IInv'
<1> SUFFICES ASSUME IInv, [Next]_vars PROVE IInv'
  OBVIOUS
<1>1. TypeOK /\ Wellmade
  BY DEF IInv
<1>2. CASE Next
  <2>1. CASE Staged
    BY <2>1, StagedKeeps
  <2>2. ASSUME NEW i, Reject(i) PROVE IInv'
    BY <2>2, RejectKeeps
  <2>3. ASSUME NEW i, AcceptWhole(i) PROVE IInv'
    BY <1>1, <2>3, WholeAccepts, AcceptsKeeps
  <2>4. ASSUME NEW i, NEW chosen, AcceptClaims(i, chosen) PROVE IInv'
    BY <1>1, <2>4, PartAccepts, AcceptsKeeps
  <2>5. QED
    BY <1>1, <1>2, <2>1, <2>2, <2>3, <2>4, Steps
<1>3. CASE UNCHANGED vars
  <2>1. UNCHANGED <<things, sources, revision, ledger, edges, proposals>>
    BY <1>3 DEF vars
  <2>2. SameHistory /\ Reviews' = Reviews /\ \A status : With(status)' = With(status)
    BY <2>1 DEF SameHistory, With, Reviews
  <2>3. Standing'
    BY <2>2, StandingStays DEF IInv, Standing
  <2>4. World' = World /\ graph' = graph
    BY <2>2, HistoryStays
  <2>5. TypeOK' /\ Wellmade'
    BY <1>1, <2>1, <2>2 DEF TypeOK, Wellmade
  <2>6. FreshBases'
    <3>1. \A c, s : SignedToday(c, s)' <=> SignedToday(c, s)
      BY <2>4 DEF SignedToday
    <3>2. QED
      BY <2>1, <2>2, <3>1 DEF IInv, FreshBases
  <2>7. Receipts'
    BY <2>1, <2>2, <2>4 DEF IInv, Receipts, ReceiptsHold
  <2>8. QED
    BY <2>3, <2>5, <2>6, <2>7 DEF IInv, Standing
<1>4. QED
  BY <1>2, <1>3

LEMMA AlwaysIInv == Spec => []IInv
BY Initially, Inductive, PTL DEF Spec

(* A replaced relationship is history, so it is not current. *)
LEMMA LineHolds == ASSUME IInv PROVE HistoryIsALine
BY DEF IInv, Linear, HistoryIsALine, Current, Historical, Displaced

(* The record of what was decided stands: every accepted step can be read  *)
(* again (HistoryReadable, which every view of the loop demands), no       *)
(* cognition and no relationship has two successors and no cognition comes *)
(* before itself, every receipt tells a revision of the past and the graph *)
(* of today, and the ledger keeps what the owner saw.                      *)
THEOREM TheRecordStands == Spec => []RecordStands
<1>1. IInv => RecordStands
  BY LineHolds DEF IInv, RecordStands, AcceptedReadable, Receipts
<1>2. QED
  BY <1>1, AlwaysIInv, PTL

(* Histories are lines: _transition_chain never meets a fork or a circle,  *)
(* and nothing that was succeeded is current.                              *)
THEOREM HistoriesAreLines == Spec => []HistoryIsALine
<1>1. IInv => HistoryIsALine
  BY LineHolds
<1>2. QED
  BY <1>1, AlwaysIInv, PTL

(* Rows have their types, records rest on stored records and on stored     *)
(* Evidence, and a claim that was applied is in the World with the claims  *)
(* it depends on.                                                          *)
THEOREM LoopWellFormed == Spec => []WellFormed
<1>1. IInv => WellFormed
  BY DEF IInv, WellFormed
<1>2. QED
  BY <1>1, AlwaysIInv, PTL

-----------------------------------------------------------------------------
(* An acceptance writes what its owner was shown.                          *)

(* The World after it, when one cognition takes one Evidence. *)
LEMMA TakesOne ==
  ASSUME TypeOK, NEW d \in Change, NEW c \in Cogs, NEW sign \in Signs,
         <<d.ev, sign>> \notin sources[c],
         \/ d.new \cap Cogs = {} /\ d.updates = {<<c, sign>>}
         \/ d.new \cap Cogs = {c} /\ d.updates = {} /\ sign = "support"
  PROVE  /\ SourcesAfter(d) = [sources EXCEPT ![c] = sources[c] \cup {<<d.ev, sign>>}]
         /\ {b \in Cogs : SourcesAfter(d)[b] # sources[b]} = {c}
<1> DEFINE F(b) == sources[b] \cup (IF b \in d.new THEN {<<d.ev, "support">>} ELSE {})
                              \cup {<<d.ev, u[2]>> : u \in {v \in d.updates : v[1] = b}}
<1>1. SourcesAfter(d) = [b \in Cogs |-> F(b)]
  BY DEF SourcesAfter
<1>2. F(c) = sources[c] \cup {<<d.ev, sign>>}
  <2>1. CASE d.new \cap Cogs = {} /\ d.updates = {<<c, sign>>}
    <3>1. c \notin d.new /\ {v \in d.updates : v[1] = c} = {<<c, sign>>}
      BY <2>1
    <3>2. {<<d.ev, u[2]>> : u \in {<<c, sign>>}} = {<<d.ev, sign>>}
      OBVIOUS
    <3>3. QED
      BY <3>1, <3>2
  <2>2. CASE d.new \cap Cogs = {c} /\ d.updates = {} /\ sign = "support"
    <3>1. c \in d.new /\ {v \in d.updates : v[1] = c} = {}
      BY <2>2
    <3>2. QED
      BY <2>2, <3>1
  <2>3. QED
    BY <2>1, <2>2
<1>3. \A b \in Cogs \ {c} : F(b) = sources[b]
  OBVIOUS
<1> HIDE DEF F
<1>4. SourcesAfter(d)[c] = sources[c] \cup {<<d.ev, sign>>} /\ SourcesAfter(d)[c] # sources[c]
  BY <1>1, <1>2
<1>5. \A b \in Cogs \ {c} : SourcesAfter(d)[b] = sources[b]
  BY <1>1, <1>3
<1>6. SourcesAfter(d) = [sources EXCEPT ![c] = sources[c] \cup {<<d.ev, sign>>}]
  BY <1>1, <1>4, <1>5 DEF TypeOK
<1>7. QED
  BY <1>4, <1>5, <1>6

LEMMA TargetIs ==
  ASSUME NEW c \in Cogs PROVE Refers[c] = {Target(c)}
<1>1. PICK t \in Rels \cup Ents : Refers[c] = {t}
  BY ThingsAssumption
<1>2. Target(c) = t
  BY <1>1 DEF Target
<1>3. QED
  BY <1>1, <1>2

(* What the acceptance of d owes to a display s of it. *)
Owes(s) ==
  /\ s.base = graph /\ s.relation # "corrects" => s.preview = graph'
  /\ {c \in Cogs : sources'[c] # sources[c]} = {s.after[1]}
  /\ s.before[2] = sources[s.before[1]] /\ s.after[2] = sources'[s.after[1]]
  /\ Refers[s.after[1]] = {s.target}
  /\ s.named = "reference" => SpokenOf(World, s.session) = {s.target}

LEMMA ShownBefore ==
  ASSUME IInv, NEW i, NEW d, NEW applied, Accepts(i, d, applied), NEW s \in proposals[i].change.shown
  PROVE  /\ proposals[i].change = d /\ SignedToday(d, s) /\ Shaped(d)
         /\ s.base = graph /\ s.before[2] = sources[s.before[1]]
<1>1. /\ proposals[i].change = d /\ i \in With("pending") /\ proposals[i].base = revision
  BY DEF Accepts, With
<1>2. Shaped(d) /\ SignedToday(d, s)
  BY <1>1 DEF IInv, Wellmade, FreshBases, With
<1>3. s.base = graph /\ TellsBefore(s)
  BY <1>1, <1>2 DEF SignedToday, Shaped
<1>4. s.before[2] = sources[s.before[1]]
  BY <1>3 DEF TellsBefore, graph
<1>5. QED
  BY <1>1, <1>2, <1>3, <1>4

LEMMA CorrectionOwed ==
  ASSUME IInv, NEW i, NEW d, NEW applied, Accepts(i, d, applied), d.kind = "evolution",
         NEW s \in proposals[i].change.shown
  PROVE  Owes(s)
<1>1. TypeOK /\ NothingDangles
  BY DEF IInv
<1>2. /\ proposals[i].change = d /\ SignedToday(d, s) /\ s.base = graph
      /\ s.before[2] = sources[s.before[1]] /\ d \in Change
  BY ShownBefore DEF Shaped
<1>3. CorrectionHolds(d, s, World)
  BY <1>1, AcceptsCorrection
<1>4. PICK w \in d.swaps : OnlySwap(d, w) /\ s.before[1] = w[1] /\ s.after[1] = w[2]
  BY <1>3 DEF CorrectionHolds, CorrectionPlan
<1>5. [d EXCEPT !.swaps = {}].updates = d.updates
  BY <1>2 DEF Change
<1>6. d.updates = {} /\ d.new = {w[2]} /\ w[1] \in Cogs /\ w[2] \in Cogs
  BY <1>2, <1>4, <1>5 DEF OnlySwap, Nothing, Change
<1>7. w[2] \notin things /\ sources' = SourcesAfter(d)
  BY <1>1, <1>6, AcceptsWorld
<1>8. sources[w[2]] = {}
  BY <1>1, <1>6, <1>7 DEF NothingDangles
<1>9. /\ SourcesAfter(d) = [sources EXCEPT ![w[2]] = sources[w[2]] \cup {<<d.ev, "support">>}]
      /\ {b \in Cogs : SourcesAfter(d)[b] # sources[b]} = {w[2]}
  <2>1. PICK c : c = w[2]
    OBVIOUS
  <2>2. "support" \in Signs
    BY DEF Signs
  <2>3. c \in Cogs /\ d.new \cap Cogs = {c} /\ <<d.ev, "support">> \notin sources[c]
    BY <1>6, <1>8, <2>1
  <2>4. QED
    BY <1>1, <1>2, <1>6, <2>1, <2>2, <2>3, TakesOne
<1>10. sources'[w[2]] = {<<d.ev, "support">>}
  BY <1>1, <1>6, <1>7, <1>8, <1>9 DEF TypeOK
<1>11. s.after[2] = {<<d.ev, "support">>} /\ Refers[w[2]] = Refers[w[1]] /\ s.relation = "corrects"
  BY <1>3, <1>4 DEF CorrectionHolds, CorrectionSuccessor, CorrectionPlan
<1>12. s.target = Target(w[1])
  BY <1>3, <1>4 DEF CorrectionHolds, CorrectionOfEntity, CorrectionByReference, CorrectionRestated
<1>13. Refers[w[2]] = {s.target}
  BY <1>6, <1>11, <1>12, TargetIs
<1>14. {c \in Cogs : sources'[c] # sources[c]} = {s.after[1]}
  BY <1>4, <1>7, <1>9
<1>15. s.named = "reference" => SpokenOf(World, s.session) = {s.target}
  <2>1. ASSUME s.named = "reference" PROVE SpokenOf(World, s.session) = {Target(s.before[1])}
    BY <1>2, <2>1 DEF SignedToday
  <2>2. QED
    BY <1>4, <1>12, <2>1
<1>16. QED
  BY <1>2, <1>4, <1>10, <1>11, <1>13, <1>14, <1>15 DEF Owes

(* Evidence for a cognition that keeps its name. *)
LEMMA ObjectIs ==
  ASSUME NEW d \in Change, NEW s, NEW g, NEW u \in d.updates, ObjectPlan(d, s, u), ObjectTarget(s, g),
         ObjectUpdate(d, s, u)
  PROVE  Which(d) = "object"
<1>1. /\ d.new = {} /\ d.updates = {u} /\ Says[u[1]].kind = "evaluation" /\ u[1] \in Cogs
      /\ s.target \in Rels /\ Refers[u[1]] = {s.target}
  BY DEF ObjectPlan, OnlyUpdate, ObjectUpdate, SameCognition, ObjectTarget, Change
<1>2. s.target \notin Ents
  BY <1>1, ThingsAssumption
<1>3. Updated(d, {"attribute", "evaluation"}, Ents) = {}
  BY <1>1, <1>2 DEF Updated
<1>4. Updated(d, {"relationship"}, Rels) = {}
  BY <1>1 DEF Updated
<1>5. u[1] \in Indirect(d)
  BY <1>1 DEF Indirect
<1>6. QED
  BY <1>1, <1>3, <1>4, <1>5 DEF Which

LEMMA UpdateOwed ==
  ASSUME IInv, NEW i, NEW d, NEW applied, Accepts(i, d, applied), NEW s \in proposals[i].change.shown,
         Which(d) \in {"entity", "statement", "object"}, UpdateHolds(d, s, World),
         BundleIsCurrent(d, s, World)
  PROVE  Owes(s)
<1>1. TypeOK /\ d \in Change /\ s.base = graph /\ s.before[2] = sources[s.before[1]]
  BY ShownBefore DEF IInv, Shaped
<1>2. PICK u \in d.updates :
        /\ OnlyUpdate(d, u) /\ SameCognition(s, u) /\ Rested(d, s, u) /\ s.relation = Relation(u[2])
        /\ (s.named = "reference" => ObjectPlan(d, s, u) /\ ObjectTarget(s, World) /\ ObjectUpdate(d, s, u))
  BY DEF UpdateHolds, StatementPlan, StatementUpdate, EntityPlan, EntityUpdate, ObjectPlan, ObjectUpdate
<1>3. /\ d.new = {} /\ d.updates = {u} /\ u[1] \in Cogs /\ u[2] \in Signs
  BY <1>1, <1>2 DEF OnlyUpdate, Change
<1>4. s.before[1] = u[1] /\ s.after[1] = u[1] /\ Refers[u[1]] = {s.target}
  BY <1>2 DEF SameCognition
<1>5. <<d.ev, u[2]>> \notin sources[u[1]] /\ s.after[2] = sources[u[1]] \cup {<<d.ev, u[2]>>}
  BY <1>1, <1>2, <1>3, <1>4 DEF Rested
<1>6. PICK c, sign : c = u[1] /\ sign = u[2]
  OBVIOUS
<1>7. d.updates = {<<c, sign>>}
  BY <1>1, <1>3, <1>6 DEF Change
<1>8. /\ SourcesAfter(d) = [sources EXCEPT ![c] = sources[c] \cup {<<d.ev, sign>>}]
      /\ {b \in Cogs : SourcesAfter(d)[b] # sources[b]} = {c}
  BY <1>1, <1>3, <1>5, <1>6, <1>7, TakesOne
<1>9. sources' = SourcesAfter(d) /\ things' = things
  BY <1>1, <1>3, AcceptsWorld DEF IInv
<1>10. sources'[c] = sources[c] \cup {<<d.ev, sign>>}
  BY <1>1, <1>3, <1>6, <1>8, <1>9 DEF TypeOK
<1>11. Fresh(s, World)
  BY DEF BundleIsCurrent, EntityIsCurrent, StatementIsCurrent, ObjectIsCurrent
<1>12. s.preview = <<things, [sources EXCEPT ![c] = s.after[2]]>>
  BY <1>4, <1>6, <1>11, Fields DEF Fresh
<1>13. s.preview = graph'
  BY <1>5, <1>6, <1>8, <1>9, <1>12 DEF graph
<1>14. s.named = "reference" => SpokenOf(World, s.session) = {s.target}
  <2>1. SUFFICES ASSUME s.named = "reference" PROVE SpokenOf(World, s.session) = {s.target}
    OBVIOUS
  <2>2. Which(d) = "object"
    BY <1>1, <1>2, <2>1, ObjectIs
  <2>3. QED
    BY <2>2 DEF BundleIsCurrent, ObjectIsCurrent
<1>15. {b \in Cogs : sources'[b] # sources[b]} = {s.after[1]}
  BY <1>4, <1>6, <1>8, <1>9
<1>16. QED
  BY <1>1, <1>4, <1>5, <1>6, <1>10, <1>13, <1>14, <1>15 DEF Owes

LEMMA EvaluationOwed ==
  ASSUME IInv, NEW i, NEW d, NEW applied, Accepts(i, d, applied), NEW s \in proposals[i].change.shown,
         EvaluationHolds(d, s, World), EvaluationIsCurrent(s, World)
  PROVE  Owes(s)
<1>1. /\ TypeOK /\ NothingDangles /\ d \in Change /\ s.base = graph
      /\ s.before[2] = sources[s.before[1]] /\ s \in Display
  BY ShownBefore DEF IInv, Shaped, Change
<1>2. PICK c \in d.new : OnlyNew(d, c) /\ s.after[1] = c
  BY DEF EvaluationHolds, EvaluationPlan
<1>3. d.new = {c} /\ d.updates = {} /\ c \in Cogs
  <2>1. s.after \in Cogs \X Sources
    BY <1>1 DEF Display
  <2>2. QED
    BY <1>2, <2>1 DEF OnlyNew, Nothing
<1>4. s.after[2] = {<<d.ev, "support">>} /\ Refers[c] = {s.target}
  BY <1>2 DEF EvaluationHolds, EvaluationTarget
<1>5. things' = things \cup {c} /\ c \notin things /\ sources' = SourcesAfter(d)
  BY <1>1, <1>3, AcceptsWorld
<1>6. sources[c] = {}
  BY <1>1, <1>3, <1>5 DEF NothingDangles
<1>7. "support" \in Signs /\ d.new \cap Cogs = {c}
  BY <1>3 DEF Signs
<1>8. /\ SourcesAfter(d) = [sources EXCEPT ![c] = sources[c] \cup {<<d.ev, "support">>}]
      /\ {b \in Cogs : SourcesAfter(d)[b] # sources[b]} = {c}
  BY <1>1, <1>3, <1>6, <1>7, TakesOne
<1>9. sources'[c] = {<<d.ev, "support">>}
  BY <1>1, <1>3, <1>5, <1>6, <1>8 DEF TypeOK
<1>10. s.preview = <<things \cup {c}, [sources EXCEPT ![c] = {<<d.ev, "support">>}]>>
  BY <1>2, <1>4, Fields DEF EvaluationIsCurrent
<1>11. s.preview = graph'
  BY <1>5, <1>6, <1>8, <1>10 DEF graph
<1>12. SpokenOf(World, s.session) = {s.target}
  BY DEF EvaluationIsCurrent
<1>13. {b \in Cogs : sources'[b] # sources[b]} = {s.after[1]}
  BY <1>2, <1>5, <1>8
<1>14. QED
  BY <1>1, <1>2, <1>4, <1>9, <1>11, <1>12, <1>13 DEF Owes

LEMMA AcceptsShown ==
  ASSUME IInv, NEW i, NEW d, NEW applied, Accepts(i, d, applied), NEW s \in proposals[i].change.shown
  PROVE  Owes(s)
<1>1. proposals[i].change = d /\ Shaped(d)
  BY ShownBefore
<1>2. CASE d.kind = "evolution"
  BY <1>2, CorrectionOwed
<1>3. CASE d.kind = "product_bundle" /\ Which(d) # "none"
  <2>1. BundleHolds(d, s, World) /\ BundleIsCurrent(d, s, World)
    BY <1>1, <1>3 DEF Accepts, Write, SignedCurrent
  <2>2. Which(d) \in {"entity", "statement", "object", "evaluation"}
    BY <1>3 DEF Which
  <2>3. CASE Which(d) \in {"entity", "statement", "object"}
    <3>1. UpdateHolds(d, s, World)
      BY <2>1, <2>3 DEF BundleHolds
    <3>2. QED
      BY <2>1, <2>3, <3>1, UpdateOwed
  <2>4. CASE Which(d) = "evaluation"
    <3>1. EvaluationHolds(d, s, World) /\ EvaluationIsCurrent(s, World)
      BY <2>1, <2>4 DEF BundleHolds, BundleIsCurrent
    <3>2. QED
      BY <3>1, EvaluationOwed
  <2>5. QED
    BY <2>2, <2>3, <2>4
<1>4. QED
  BY <1>1, <1>2, <1>3 DEF Shaped

-----------------------------------------------------------------------------
(* The bodies of the two action properties. *)
Decides ==
  /\ \A c \in Cogs : Superseded(c) => sources'[c] = sources[c]
  /\ graph' # graph =>
       \E i \in Reviews :
         /\ proposals[i].status = "pending" /\ proposals'[i].status = "accept"
         /\ proposals[i].base = revision
         /\ things' \subseteq things \cup proposals[i].change.new
Shown ==
  \A i \in Reviews : proposals[i].status = "pending" /\ proposals'[i].status = "accept" =>
    \A s \in proposals[i].change.shown : Owes(s)

LEMMA AcceptDecides ==
  ASSUME IInv, NEW i, NEW d, NEW applied, Accepts(i, d, applied) PROVE Decides /\ Shown
<1>1. TypeOK /\ NothingDangles
  BY DEF IInv
<1>2. /\ \A c \in Cogs : Superseded(c) => sources'[c] = sources[c]
      /\ things' = things \cup d.new
  BY <1>1, AcceptsWorld
<1>3. /\ i \in Reviews /\ proposals[i].status = "pending" /\ proposals[i].base = revision
      /\ d.new \subseteq proposals[i].change.new
  BY DEF Accepts
<1>4. With("accept")' = With("accept") \cup {i} /\ \A j \in Reviews : j # i => proposals'[j] = proposals[j]
  BY <1>1, AcceptsRows
<1>5. proposals'[i].status = "accept"
  BY <1>4 DEF With
<1>6. Decides
  BY <1>2, <1>3, <1>5 DEF Decides
<1>7. Shown
  BY <1>4, AcceptsShown DEF Shown
<1>8. QED
  BY <1>6, <1>7

LEMMA StepDecides == IInv /\ [Next]_vars => Decides /\ Shown
<1> SUFFICES ASSUME IInv, [Next]_vars PROVE Decides /\ Shown
  OBVIOUS
<1>1. TypeOK /\ Wellmade
  BY DEF IInv
<1>2. CASE Staged
  <2>1. PICK p : proposals' = Append(proposals, p) /\ UNCHANGED <<things, sources>>
    BY <1>2 DEF Staged, Insert
  <2>2. \A i \in Reviews : proposals'[i] = proposals[i]
    BY <1>1, <2>1 DEF TypeOK, Reviews
  <2>3. QED
    BY <2>1, <2>2 DEF Decides, Shown, graph
<1>3. ASSUME NEW i, Reject(i) PROVE Decides /\ Shown
  <2>1. /\ i \in Reviews /\ Decided(i, "reject", {}, revision, graph) /\ UNCHANGED <<things, sources>>
    BY <1>3 DEF Reject, With
  <2>2. {} \in SUBSET Nat /\ revision \in Nat /\ graph \in Worlds
    BY <1>1 DEF TypeOK, graph, Worlds
  <2>3. /\ \A j \in Reviews : j # i => proposals'[j] = proposals[j]
        /\ proposals'[i].status = "reject"
    BY <1>1, <2>1, <2>2, DecidedIs
  <2>4. QED
    BY <2>1, <2>3 DEF Decides, Shown, graph
<1>4. ASSUME NEW i, AcceptWhole(i) PROVE Decides /\ Shown
  BY <1>1, <1>4, WholeAccepts, AcceptDecides
<1>5. ASSUME NEW i, NEW chosen, AcceptClaims(i, chosen) PROVE Decides /\ Shown
  BY <1>1, <1>5, PartAccepts, AcceptDecides
<1>6. CASE UNCHANGED vars
  BY <1>6 DEF vars, Decides, Shown, graph
<1>7. QED
  BY <1>1, <1>2, <1>3, <1>4, <1>5, <1>6, Steps

(* The World changes only when a pending review is accepted that was       *)
(* prepared for exactly this revision, by no record it did not bring, and  *)
(* a cognition that was replaced never takes Evidence again; and every     *)
(* display the owner accepted was true: of the World it was read in, of    *)
(* the one cognition that changed, of what it rests on before and after,   *)
(* of the World after it, and of the one object that words pointed at.     *)
THEOREM AcceptancesAreExact == Spec => AcceptanceIsExact
<1>1. Spec => [][Decides /\ Shown]_vars
  BY AlwaysIInv, StepDecides, PTL DEF Spec
<1>2. [][Decides /\ Shown]_vars => [][Decides]_vars /\ [][Shown]_vars
  BY PTL
<1>3. [][Decides]_vars => DecisionsAreExact
  BY DEF Decides, DecisionsAreExact
<1>4. [][Shown]_vars => ShownIsWritten
  BY DEF Shown, Owes, ShownIsWritten
<1>5. QED
  BY <1>1, <1>2, <1>3, <1>4 DEF AcceptanceIsExact

-----------------------------------------------------------------------------
(* What the compiler makes of one claim keeps its contract.                *)

(* A bundle compiled of a plan. *)
Bundle(d, p, e, x) ==
  /\ d \in Change /\ d.kind = "product_bundle" /\ d.ev = e /\ d.text = x
  /\ d.new = p.new /\ d.updates = p.updates /\ d.reborn = p.reborn /\ d.binds = p.binds
  /\ d.swaps = {} /\ d.states = {} /\ d.claims = <<>> /\ d.needs = {}

Changes(d, named, u, t) ==
  Shows(d, named, t, Relation(u[2]), u[1], u[1], sources[u[1]] \cup {<<d.ev, u[2]>>}, World)
Asserts(d, named, n, t) ==
  Shows(d, named, t, "asserts", n, n, {<<d.ev, "support">>}, World)
Named(claim) == IF claim.of = "object" THEN "reference" ELSE "mention"

LEMMA TurnIs ==
  ASSUME NEW e \in Evs, NEW x \in Texts, NEW p \in Planned, NEW claim, NEW d,
         d = Sign(Told(p, e, x), claim, p, World), d \in Change
  PROVE  /\ Bundle(d, p, e, x)
         /\ \A s \in d.shown :
              /\ Which(d) # "none"
              /\ \/ \E u \in p.updates, t \in p.target : s = Changes(d, Named(claim), u, t)
                 \/ \E n \in p.new \cap Cogs, t \in p.target : s = Asserts(d, Named(claim), n, t)
<1>1. PICK empty, updates, reborn, binds :
        /\ empty = Empty("product_bundle", e, x, p.new)
        /\ updates = p.updates /\ reborn = p.reborn /\ binds = p.binds
  OBVIOUS
<1>2. PICK told : told = [empty EXCEPT !.updates = updates, !.reborn = reborn, !.binds = binds]
  OBVIOUS
<1>3. told = Told(p, e, x)
  BY <1>1, <1>2 DEF Told
<1>4. /\ told.kind = "product_bundle" /\ told.ev = e /\ told.text = x /\ told.new = p.new
      /\ told.updates = p.updates /\ told.reborn = p.reborn /\ told.binds = p.binds
      /\ told.swaps = {} /\ told.states = {} /\ told.claims = <<>> /\ told.needs = {}
      /\ "shown" \in DOMAIN told
  BY <1>1, <1>2 DEF Empty
<1>5. PICK named : named = Named(claim)
  OBVIOUS
<1> DEFINE first == {Changes(told, named, u, t) : u \in told.updates, t \in p.target}
           second == {Asserts(told, named, n, t) : n \in told.new \cap Cogs, t \in p.target}
           all == IF Which(told) = "none" THEN {} ELSE first \cup second
<1>6. d = [told EXCEPT !.shown = all]
  BY <1>3, <1>5, Fields DEF Sign, Changes, Asserts, Named
<1> HIDE DEF all
<1>7. Bundle(d, p, e, x) /\ d.shown = all
  BY <1>4, <1>6 DEF Bundle
<1>8. Which(d) = Which(told)
  BY <1>4, <1>7, WhichSame DEF Bundle
<1>9. \A u, t : Changes(told, named, u, t) = Changes(d, named, u, t)
  BY <1>4, <1>7 DEF Bundle, Changes, Shows
<1>10. \A n, t : Asserts(told, named, n, t) = Asserts(d, named, n, t)
  BY <1>4, <1>7 DEF Bundle, Asserts, Shows
<1> HIDE DEF first, second
<1>11. ASSUME NEW s \in first PROVE \E u \in p.updates, t \in p.target : s = Changes(d, named, u, t)
  BY <1>4, <1>9 DEF first
<1>12. ASSUME NEW s \in second PROVE \E n \in p.new \cap Cogs, t \in p.target : s = Asserts(d, named, n, t)
  BY <1>4, <1>10 DEF second
<1>13. QED
  BY <1>5, <1>7, <1>8, <1>11, <1>12 DEF all

(* What the fields of a bundle say of the whole. *)
LEMMA BundleIs ==
  ASSUME NEW d, NEW p, NEW e, NEW x, Bundle(d, p, e, x)
  PROVE  /\ p.reborn = {} => \A u : p.new = {} /\ p.updates = {u} => OnlyUpdate(d, u)
         /\ p.reborn = {} /\ p.updates = {} => \A c : p.new = {c} => OnlyNew(d, c)
<1>1. p.reborn = {} => Nothing([d EXCEPT !.updates = {}])
  BY DEF Bundle, Change, Nothing
<1>2. p.reborn = {} /\ p.updates = {} => Nothing(d)
  BY DEF Bundle, Nothing
<1>3. QED
  BY <1>1, <1>2 DEF Bundle, OnlyUpdate, OnlyNew

(* A bundle fits when its records, Evidence and successors do. *)
LEMMA BundleFits ==
  ASSUME NEW d, NEW p, NEW e, NEW x, Bundle(d, p, e, x),
         DeltaFits(d), OncePerPrior(p.updates), \A u \in p.updates : UpdateFits(d, u),
         OncePerPrior(p.reborn), OncePerNew(p.reborn), \A n \in p.reborn : RebornFits(d, n),
         AboutCurrent(d)
  PROVE  Fits(d)
<1>1. OncePerPrior({})
  BY DEF OncePerPrior
<1>2. ClaimsFit(d)
  <2>1. DOMAIN d.claims = {}
    BY DEF Bundle
  <2>2. QED
    BY <2>1 DEF Bundle, ClaimsFit
<1>3. QED
  BY <1>1, <1>2 DEF Bundle, Fits

LEMMA WorldIs ==
  /\ World.things = things /\ World.sources = sources /\ World.ledger = ledger
  /\ \A r : r \in World.current <=> r \in Rels /\ Current(r)
  /\ \A c : c \in World.old <=> c \in Cogs /\ Superseded(c)
  /\ \A r : r \in World.displaced <=> r \in Rels /\ Displaced(r)
  /\ Seen(World) = graph
BY DEF World, Seen, graph

(* The catalog offers stored cognitions that are current. *)
LEMMA CatalogIs ==
  ASSUME NEW c \in Catalog(World)
  PROVE  c \in things /\ c \in Cogs /\ ~Superseded(c) /\ Says[c] # Plain /\ Refers[c] = {Target(c)}
BY WorldIs, TargetIs DEF Catalog

(* Evidence for or against a stored cognition of t. *)
Takes(u, c, t, e) ==
  /\ u[1] = c.prior /\ u[2] \in Signs /\ u[1] \in Catalog(World)
  /\ Refers[u[1]] = {t} /\ Says[u[1]] = c.says
  /\ \A s \in Signs : <<e, s>> \notin sources[u[1]]
TakenBy(p, q, u, t) ==
  q.new = p.new /\ q.binds = p.binds /\ q.reborn = p.reborn /\ q.updates = p.updates \cup {u} /\ q.target = {t}

(* A new cognition of t. *)
NewSaying(n, p, c, t) ==
  n \in Cogs /\ n \notin things /\ n \notin p.new /\ Refers[n] = {t} /\ Says[n] = c.says
FormedBy(p, q, n, t) ==
  q.new = p.new \cup {n} /\ q.binds = p.binds /\ q.reborn = p.reborn /\ q.updates = p.updates /\ q.target = {t}

LEMMA ProposedIs ==
  ASSUME NEW p \in Planned, NEW c, NEW t, NEW e, NEW q \in Propose(p, c, t, World, e)
  PROVE  \/ /\ c.prior # NoPrior
            /\ \E u : Takes(u, c, t, e) /\ TakenBy(p, q, u, t)
         \/ /\ c.prior = NoPrior
            /\ \E n : NewSaying(n, p, c, t) /\ FormedBy(p, q, n, t)
<1>1. CASE c.prior # NoPrior
  <2>1. PICK u : u = <<c.prior, IF c.affirm THEN "support" ELSE "contradict">>
    OBVIOUS
  <2>2. /\ q \in {[p EXCEPT !.target = {t}, !.updates = @ \cup {u}]}
        /\ Compatible(t, c.says, World) = {c.prior}
        /\ \A s \in Signs : <<e, s>> \notin World.sources[c.prior]
    BY <1>1, <2>1 DEF Propose, Reaffirmed
  <2>3. c.prior \in Compatible(t, c.says, World)
    BY <2>2
  <2>4. c.prior \in Catalog(World) /\ Refers[c.prior] = {t} /\ Says[c.prior] = c.says
    BY <2>3 DEF Compatible
  <2>5. u[1] = c.prior /\ u[2] \in Signs
    BY <2>1 DEF Signs
  <2>6. Takes(u, c, t, e)
    BY <2>2, <2>4, <2>5, WorldIs DEF Takes
  <2>7. TakenBy(p, q, u, t)
    BY <2>2 DEF Planned, TakenBy
  <2>8. QED
    BY <1>1, <2>6, <2>7
<1>2. CASE c.prior = NoPrior
  <2>1. PICK n \in Cogs \ (World.things \cup p.new) :
          /\ Refers[n] = {t} /\ Says[n] = c.says
          /\ q = [p EXCEPT !.target = {t}, !.new = @ \cup {n}]
    BY <1>2 DEF Propose, Formed
  <2>2. NewSaying(n, p, c, t)
    BY <2>1, WorldIs DEF NewSaying
  <2>3. FormedBy(p, q, n, t)
    BY <2>1 DEF Planned, FormedBy
  <2>4. QED
    BY <1>2, <2>2, <2>3
<1>3. QED
  BY <1>1, <1>2

(* Evidence for or against what is stored. *)
LEMMA TakesFits ==
  ASSUME NothingDangles, NEW d, NEW p, NEW e, NEW x, NEW c, NEW u, NEW t \in Rels \cup Ents,
         Bundle(d, p, e, x), Takes(u, c, t, e), p.new = {}, p.updates = {u}, p.reborn = {},
         t \in Ents \/ Current(t)
  PROVE  Fits(d) /\ t \in things
<1>1. /\ d.new = {} /\ d.updates = {u} /\ d.ev = e
      /\ u[1] \in things /\ u[1] \in Cogs /\ ~Superseded(u[1]) /\ Refers[u[1]] = {t}
      /\ \A s \in Signs : <<e, s>> \notin sources[u[1]]
  BY CatalogIs DEF Takes, Bundle
<1>2. t \in things
  BY <1>1 DEF NothingDangles
<1>3. DeltaFits(d)
  BY <1>1 DEF DeltaFits
<1>4. OncePerPrior({u}) /\ OncePerPrior({}) /\ OncePerNew({})
  BY DEF OncePerPrior, OncePerNew
<1>5. UpdateFits(d, u)
  BY <1>1 DEF UpdateFits
<1>6. AboutCurrent(d)
  BY <1>1, ThingsAssumption DEF AboutCurrent
<1>7. QED
  BY <1>2, <1>3, <1>4, <1>5, <1>6, BundleFits

LEMMA WhichUpdate ==
  ASSUME NEW d, NEW u, NEW t, d.new = {}, d.updates = {u}, Refers[u[1]] = {t}
  PROVE  /\ t \in Ents /\ Says[u[1]].kind \in {"attribute", "evaluation"} => Which(d) = "entity"
         /\ t \in Rels /\ Says[u[1]].kind = "relationship" => Which(d) = "statement"
         /\ t \in Rels /\ Says[u[1]].kind = "evaluation" => Which(d) = "object"
<1>1. \A kinds, targets : Updated(d, kinds, targets) = {} \/ Updated(d, kinds, targets) = {u[1]}
  BY DEF Updated
<1>2. \A kinds, targets : u[1] \in Updated(d, kinds, targets) <=> Says[u[1]].kind \in kinds /\ t \in targets
  BY DEF Updated
<1>3. Indirect(d) = {} <=> ~(Says[u[1]].kind = "evaluation" /\ t \in Rels)
  BY DEF Indirect
<1>4. Ents \cap Rels = {}
  BY ThingsAssumption
<1>5. QED
  BY <1>1, <1>2, <1>3, <1>4 DEF Which

ChangeShown(d, p, e, x, named, u, t, s) ==
  /\ SameTurn(d, s) /\ s.session = ToldIn[x] /\ s.base = Seen(World) /\ s.named = named
  /\ s.binds = p.binds /\ s.says = Says[u[1]] /\ s.target = t
  /\ s.priors = {<<u[1], s.base>>} /\ s.relation = Relation(u[2])
  /\ s.before = <<u[1], sources[u[1]]>>
  /\ s.after = <<u[1], sources[u[1]] \cup {<<e, u[2]>>}>>
  /\ s.preview = <<things \cup p.new, [sources EXCEPT ![u[1]] = s.after[2]]>>
  /\ named = "mention" /\ t \in Rels => s.objects = {<<o, s.base>> : o \in Refers[t]}
  /\ named = "reference" \/ (named = "mention" /\ t \notin Rels) => s.objects = {<<t, s.base>>}

LEMMA ChangesIs ==
  ASSUME NEW d, NEW p, NEW e, NEW x, Bundle(d, p, e, x), NEW named, NEW u, NEW t,
         NEW s, s = Changes(d, named, u, t), u[2] \in Signs
  PROVE  ChangeShown(d, p, e, x, named, u, t, s)
<1>1. Relation(u[2]) \in {"reaffirms", "contradicts"}
  BY DEF Relation
<1>2. QED
  BY <1>1, WorldIs DEF Changes, Shows, Bundle, SameTurn, ChangeShown

LEMMA UpdateKept ==
  ASSUME NothingDangles, NEW d, NEW p, NEW e, NEW x, NEW c, NEW u, NEW t \in Rels \cup Ents, NEW named,
         Bundle(d, p, e, x), Takes(u, c, t, e), p.new = {}, p.updates = {u}, p.reborn = {},
         \A s \in d.shown : s = Changes(d, named, u, t),
         \/ /\ t \in Ents /\ c.says.kind \in {"attribute", "evaluation"}
            /\ named = "mention" /\ p.binds = {t}
         \/ /\ t \in Rels /\ c.says.kind = "evaluation" /\ named = "reference" /\ p.binds = {}
            /\ SpokenOf(World, ToldIn[x]) = {t}
         \/ /\ t \in Rels /\ Current(t) /\ c.says.kind = "relationship" /\ named = "mention"
            /\ p.binds = Refers[t] /\ p.binds # {}
  PROVE  Fits(d) /\ SignedCurrent(d)
<1>1. SpokenOf(World, ToldIn[x]) = {t} => Current(t)
  BY WorldIs DEF SpokenOf
<1>2. Fits(d) /\ t \in things
  BY <1>1, TakesFits
<1>3. /\ u[1] \in Catalog(World) /\ u[1] \in things /\ u[1] \in Cogs /\ u[1] \notin World.old
      /\ Refers[u[1]] = {t} /\ Says[u[1]] = c.says /\ u[2] \in Signs
      /\ \A s \in Signs : <<e, s>> \notin sources[u[1]]
  BY CatalogIs, WorldIs DEF Takes
<1>4. d.new = {} /\ d.updates = {u} /\ d.ev = e /\ d.text = x /\ d.binds = p.binds /\ d.kind = "product_bundle"
  BY DEF Bundle
<1>5. OnlyUpdate(d, u)
  BY BundleIs
<1>6. ASSUME NEW s \in d.shown PROVE BundleHolds(d, s, World) /\ BundleIsCurrent(d, s, World)
  <2>1. /\ SameTurn(d, s) /\ s.session = ToldIn[x] /\ s.base = Seen(World) /\ s.named = named
        /\ s.binds = p.binds /\ s.says = Says[u[1]] /\ s.target = t
        /\ s.priors = {<<u[1], s.base>>} /\ s.relation = Relation(u[2])
        /\ s.before = <<u[1], sources[u[1]]>>
        /\ s.after = <<u[1], sources[u[1]] \cup {<<e, u[2]>>}>>
        /\ s.preview = <<things \cup p.new, [sources EXCEPT ![u[1]] = s.after[2]]>>
        /\ named = "mention" /\ t \in Rels => s.objects = {<<o, s.base>> : o \in Refers[t]}
        /\ named = "reference" \/ (named = "mention" /\ t \notin Rels) => s.objects = {<<t, s.base>>}
    <3>1. s = Changes(d, named, u, t)
      OBVIOUS
    <3>2. ChangeShown(d, p, e, x, named, u, t, s)
      BY <1>3, <3>1, ChangesIs
    <3>3. QED
      BY <3>2 DEF ChangeShown
  <2>2. Rested(d, s, u) /\ SameCognition(s, u)
    BY <1>3, <1>4, <2>1 DEF Rested, SameCognition
  <2>3. s.preview = <<things, [sources EXCEPT ![u[1]] = s.after[2]]>>
    BY <2>1
  <2>4. Fresh(s, World)
    BY <1>3, <2>1, <2>3, WorldIs DEF Fresh, Rests
  <2>5. CASE /\ t \in Ents /\ c.says.kind \in {"attribute", "evaluation"}
             /\ named = "mention" /\ p.binds = {t}
    <3>1. Which(d) = "entity"
      BY <1>3, <1>4, <2>5, WhichUpdate
    <3>2. t \notin Rels
      BY <2>5, ThingsAssumption
    <3>3. EntityPlan(d, s, u)
      BY <1>5, <2>1, <2>5 DEF EntityPlan
    <3>4. EntityTarget(d, s, World)
      BY <1>2, <1>4, <2>1, <2>5, WorldIs DEF EntityTarget
    <3>5. EntityUpdate(d, s, u)
      BY <1>3, <2>1, <2>2, <2>5 DEF EntityUpdate
    <3>6. EntityShown(s, u)
      BY <2>1, <2>5, <3>2 DEF EntityShown
    <3>7. UpdateHolds(d, s, World)
      BY <1>4, <3>3, <3>4, <3>5, <3>6 DEF UpdateHolds
    <3>8. EntityIsCurrent(s, World)
      BY <1>2, <2>1, <2>4, WorldIs DEF EntityIsCurrent
    <3>9. QED
      BY <2>1, <3>1, <3>7, <3>8 DEF BundleHolds, BundleIsCurrent
  <2>6. CASE /\ t \in Rels /\ c.says.kind = "evaluation" /\ named = "reference" /\ p.binds = {}
             /\ SpokenOf(World, ToldIn[x]) = {t}
    <3>1. Which(d) = "object"
      BY <1>3, <1>4, <2>6, WhichUpdate
    <3>2. ObjectPlan(d, s, u)
      BY <1>5, <2>1, <2>6 DEF ObjectPlan
    <3>3. ObjectTarget(s, World)
      BY <1>2, <2>1, <2>6, WorldIs DEF ObjectTarget
    <3>4. ObjectUpdate(d, s, u)
      BY <1>3, <2>1, <2>2, <2>6 DEF ObjectUpdate
    <3>5. ObjectShown(s, u)
      BY <2>1, <2>6 DEF ObjectShown
    <3>6. UpdateHolds(d, s, World)
      BY <1>4, <3>2, <3>3, <3>4, <3>5 DEF UpdateHolds
    <3>7. t \in World.current
      BY <1>1, <2>6, WorldIs
    <3>8. ObjectIsCurrent(s, World)
      BY <2>1, <2>4, <2>6, <3>7 DEF ObjectIsCurrent
    <3>9. QED
      BY <2>1, <3>1, <3>6, <3>8 DEF BundleHolds, BundleIsCurrent
  <2>7. CASE /\ t \in Rels /\ Current(t) /\ c.says.kind = "relationship" /\ named = "mention"
             /\ p.binds = Refers[t] /\ p.binds # {}
    <3>1. Which(d) = "statement"
      BY <1>3, <1>4, <2>7, WhichUpdate
    <3>2. StatementPlan(d, s, u)
      BY <1>5, <2>1, <2>7 DEF StatementPlan
    <3>3. Refers[t] \subseteq things
      BY <1>2 DEF NothingDangles
    <3>4. StatementTarget(d, s, World)
      BY <1>2, <1>4, <2>1, <2>7, <3>3, WorldIs DEF StatementTarget
    <3>5. StatementUpdate(d, s, u)
      BY <1>3, <2>1, <2>2, <2>7 DEF StatementUpdate
    <3>6. StatementShown(s, u)
      BY <2>1 DEF StatementShown
    <3>7. UpdateHolds(d, s, World)
      BY <1>4, <3>2, <3>4, <3>5, <3>6 DEF UpdateHolds
    <3>8. t \in World.current
      BY <2>7, WorldIs
    <3>9. StatementIsCurrent(s, World)
      BY <2>1, <2>4, <3>8 DEF StatementIsCurrent
    <3>10. QED
      BY <2>1, <3>1, <3>7, <3>9 DEF BundleHolds, BundleIsCurrent
  <2>8. QED
    BY <2>5, <2>6, <2>7
<1>7. QED
  BY <1>2, <1>4, <1>6 DEF SignedCurrent

(* A new cognition n of t, which is stored or comes with it. *)
LEMMA NewFits ==
  ASSUME NothingDangles, NEW d, NEW p, NEW e, NEW x, NEW n \in Cogs, NEW t \in Rels \cup Ents,
         Bundle(d, p, e, x), Refers[n] = {t}, p.updates = {}, p.new \cap things = {}, n \in p.new,
         p.new \subseteq {n, t} \cup Ents, t \in things \cup p.new, Refers[t] \subseteq things \cup p.new,
         t \in Ents \/ t \in p.new \/ Current(t),
         OncePerPrior(p.reborn), OncePerNew(p.reborn), \A m \in p.reborn : RebornFits(d, m)
  PROVE  Fits(d)
<1>1. d.new = p.new /\ d.updates = {}
  BY DEF Bundle
<1>2. \A k \in Ents : Refers[k] = {}
  BY ThingsAssumption
<1>3. DeltaFits(d)
  BY <1>1, <1>2 DEF DeltaFits, AboutStored
<1>4. p.new \cap Cogs = {n}
  BY ThingsAssumption
<1>5. AboutCurrent(d)
  BY <1>1, <1>4, ThingsAssumption DEF AboutCurrent
<1>6. OncePerPrior({})
  BY DEF OncePerPrior
<1>7. QED
  BY <1>3, <1>5, <1>6, BundleFits

LEMMA WhichNew ==
  ASSUME NEW d, NEW n, NEW t, d.new \cap Cogs = {n}, d.updates = {}, Refers[n] = {t}
  PROVE  /\ ~(t \in Rels /\ Says[n].kind = "evaluation") => Which(d) = "none"
         /\ t \in Rels /\ Says[n].kind = "evaluation" => Which(d) = "evaluation"
<1>1. \A kinds, targets : Updated(d, kinds, targets) = {}
  BY DEF Updated
<1>2. Indirect(d) = {} <=> ~(Says[n].kind = "evaluation" /\ t \in Rels)
  <2> DEFINE stated == UNION {Refers[k] : k \in {m \in d.new \cap Cogs : Says[m].kind = "relationship"}}
  <2>1. Says[n].kind = "evaluation" => stated = {}
    OBVIOUS
  <2>2. Indirect(d) = {c \in (d.new \cap Cogs) \cup {u[1] : u \in d.updates} :
                          Says[c].kind = "evaluation" /\ Refers[c] \subseteq Rels \ stated}
    BY DEF Indirect
  <2> HIDE DEF stated
  <2>3. QED
    BY <2>1, <2>2
<1>3. d.new # {}
  OBVIOUS
<1>4. QED
  BY <1>1, <1>2, <1>3 DEF Which

LEMMA NewKept ==
  ASSUME NEW d, NEW p, NEW e, NEW x, NEW n \in Cogs, NEW t \in Rels \cup Ents, NEW named,
         Bundle(d, p, e, x), Fits(d), p.new \cap Cogs = {n}, p.updates = {}, Refers[n] = {t},
         n \notin things, \A s \in d.shown : Which(d) # "none" /\ s = Asserts(d, named, n, t),
         t \in Rels /\ Says[n].kind = "evaluation" =>
           /\ named = "reference" /\ p.binds = {} /\ p.new = {n} /\ p.reborn = {}
           /\ SpokenOf(World, ToldIn[x]) = {t}
  PROVE  SignedCurrent(d)
<1>1. d.new = p.new /\ d.updates = {} /\ d.ev = e /\ d.text = x /\ d.binds = p.binds /\ d.kind = "product_bundle"
  BY DEF Bundle
<1>2. SUFFICES ASSUME NEW s \in d.shown PROVE BundleHolds(d, s, World) /\ BundleIsCurrent(d, s, World)
  BY <1>1 DEF SignedCurrent
<1>3. t \in Rels /\ Says[n].kind = "evaluation" /\ Which(d) = "evaluation"
  BY <1>1, WhichNew
<1>4. /\ named = "reference" /\ p.binds = {} /\ p.new = {n} /\ p.reborn = {}
      /\ SpokenOf(World, ToldIn[x]) = {t}
  BY <1>3
<1>5. t \in World.current /\ t \in things
  BY <1>4, WorldIs DEF SpokenOf, Current
<1>6. s = Asserts(d, named, n, t)
  BY <1>2
<1>7. /\ SameTurn(d, s) /\ s.session = ToldIn[x] /\ s.base = Seen(World) /\ s.named = "reference"
      /\ s.binds = {} /\ s.says = Says[n] /\ s.target = t /\ s.priors = {} /\ s.relation = "asserts"
      /\ s.after[1] = n /\ s.after[2] = {<<e, "support">>} /\ s.objects = {<<t, s.base>>}
      /\ s.preview = <<things \cup {n}, [sources EXCEPT ![n] = s.after[2]]>>
  BY <1>1, <1>4, <1>6, WorldIs DEF Asserts, Shows, SameTurn
<1>8. OnlyNew(d, n)
  BY <1>4, BundleIs
<1>9. EvaluationPlan(d, s)
  BY <1>1, <1>4, <1>7, <1>8 DEF EvaluationPlan
<1>10. EvaluationTarget(d, s, World)
  BY <1>1, <1>3, <1>5, <1>7, WorldIs DEF EvaluationTarget
<1>11. EvaluationShown(s)
  BY <1>3, <1>7 DEF EvaluationShown
<1>12. EvaluationIsCurrent(s, World)
  BY <1>4, <1>5, <1>7, WorldIs DEF EvaluationIsCurrent
<1>13. QED
  BY <1>3, <1>7, <1>9, <1>10, <1>11, <1>12 DEF BundleHolds, BundleIsCurrent, EvaluationHolds

(* What is compiled of a plan. *)
Compiles(d, p, c, e, x) == p \in Planned /\ d \in Change /\ d = Sign(Told(p, e, x), c, p, World)
Keeps(d) == Fits(d) /\ SignedCurrent(d)

LEMMA TakenKept ==
  ASSUME NothingDangles, NEW e \in Evs, NEW x \in Texts, NEW c, NEW p, NEW d, Compiles(d, p, c, e, x),
         NEW t \in Rels \cup Ents, NEW u, Takes(u, c, t, e),
         p.new = {}, p.updates = {u}, p.reborn = {}, p.target = {t},
         \/ /\ t \in Ents /\ c.says.kind \in {"attribute", "evaluation"} /\ c.of # "object"
            /\ p.binds = {t}
         \/ /\ t \in Rels /\ c.says.kind = "evaluation" /\ c.of = "object" /\ p.binds = {}
            /\ SpokenOf(World, ToldIn[x]) = {t}
         \/ /\ t \in Rels /\ Current(t) /\ c.says.kind = "relationship" /\ c.of # "object"
            /\ p.binds = Refers[t] /\ p.binds # {}
  PROVE  Keeps(d)
<1>1. Bundle(d, p, e, x) /\ \A s \in d.shown : s = Changes(d, Named(c), u, t)
  BY TurnIs DEF Compiles
<1>2. Named(c) = IF c.of = "object" THEN "reference" ELSE "mention"
  BY DEF Named
<1>3. QED
  BY <1>1, <1>2, UpdateKept DEF Keeps

LEMMA FormedKept ==
  ASSUME NothingDangles, NEW e \in Evs, NEW x \in Texts, NEW c, NEW p, NEW d, Compiles(d, p, c, e, x),
         NEW n \in Cogs, NEW t \in Rels \cup Ents, Refers[n] = {t}, Says[n] = c.says, n \notin things,
         p.updates = {}, p.target = {t}, p.new \cap things = {}, n \in p.new,
         p.new \subseteq {n, t} \cup Ents, t \in things \cup p.new, Refers[t] \subseteq things \cup p.new,
         t \in Ents \/ t \in p.new \/ Current(t),
         OncePerPrior(p.reborn), OncePerNew(p.reborn),
         \A d2 : Bundle(d2, p, e, x) => \A m \in p.reborn : RebornFits(d2, m),
         t \in Rels /\ c.says.kind = "evaluation" =>
           /\ c.of = "object" /\ p.binds = {} /\ p.new = {n} /\ p.reborn = {}
           /\ SpokenOf(World, ToldIn[x]) = {t}
  PROVE  Keeps(d)
<1>1. p.new \cap Cogs = {n}
  BY ThingsAssumption
<1>2. /\ Bundle(d, p, e, x)
      /\ \A s \in d.shown : Which(d) # "none" /\ s = Asserts(d, Named(c), n, t)
  BY <1>1, TurnIs DEF Compiles
<1>3. c.of = "object" => Named(c) = "reference"
  BY DEF Named
<1>4. Fits(d)
  BY <1>2, NewFits
<1>5. SignedCurrent(d)
  BY <1>1, <1>2, <1>3, <1>4, NewKept
<1>6. QED
  BY <1>4, <1>5 DEF Keeps

LEMMA NoneReborn == OncePerPrior({}) /\ OncePerNew({})
BY DEF OncePerPrior, OncePerNew

LEMMA BoundIs ==
  ASSUME NEW who \in SUBSET Ents, NEW b, b = Bind(NoPlan, who, World)
  PROVE  /\ b \in Planned /\ b.new = who \ things /\ b.binds = who
         /\ b.updates = {} /\ b.reborn = {} /\ b.target = {}
<1>1. NoPlan \in Planned
  BY DEF NoPlan, Planned
<1>2. QED
  BY <1>1, BindIs, WorldIs DEF Bind, NoPlan

(* Of an entity that is named. *)
LEMMA EntityKept ==
  ASSUME NothingDangles, NEW e \in Evs, NEW x \in Texts, NEW c \in Said, c.of = "entity",
         NEW p \in Step(NoPlan, c, World, e, x), NEW d, Compiles(d, p, c, e, x)
  PROVE  Keeps(d)
<1>1. /\ c.who \in SUBSET Ents /\ Single(c.who) /\ c.says.kind \in {"attribute", "evaluation"}
  BY ClaimIs DEF WellShaped
<1>2. PICK b : b = Bind(NoPlan, c.who, World)
  OBVIOUS
<1>3. PICK t \in c.who : c.who = {t}
  BY <1>1 DEF Single
<1>4. p \in Propose(b, c, t, World, e)
  BY <1>2, <1>3 DEF Step
<1>5. /\ b \in Planned /\ b.new = {t} \ things /\ b.binds = {t}
      /\ b.updates = {} /\ b.reborn = {}
  BY <1>1, <1>2, <1>3, BoundIs
<1>6. t \in Ents /\ t \notin Rels /\ Refers[t] = {}
  BY <1>1, <1>3, ThingsAssumption
<1>7. ASSUME NEW u, Takes(u, c, t, e), TakenBy(b, p, u, t) PROVE Keeps(d)
  <2>1. t \in things
    BY <1>7, CatalogIs DEF Takes, NothingDangles
  <2>2. p.new = {} /\ p.updates = {u} /\ p.reborn = {} /\ p.target = {t} /\ p.binds = {t}
    BY <1>5, <1>7, <2>1 DEF TakenBy
  <2>3. QED
    BY <1>1, <1>6, <1>7, <2>2, TakenKept
<1>8. ASSUME NEW n, NewSaying(n, b, c, t), FormedBy(b, p, n, t) PROVE Keeps(d)
  <2>1. n \in Cogs /\ n \notin things /\ Refers[n] = {t} /\ Says[n] = c.says
    BY <1>8 DEF NewSaying
  <2>2. /\ p.new = ({t} \ things) \cup {n} /\ p.updates = {} /\ p.reborn = {} /\ p.target = {t}
    BY <1>5, <1>8 DEF FormedBy
  <2>3. /\ p.new \cap things = {} /\ n \in p.new /\ p.new \subseteq {n, t} \cup Ents
        /\ t \in things \cup p.new /\ Refers[t] \subseteq things \cup p.new
    BY <1>6, <2>1, <2>2
  <2>4. OncePerPrior(p.reborn) /\ OncePerNew(p.reborn)
    BY <2>2, NoneReborn
  <2>5. \A d2 : Bundle(d2, p, e, x) => \A m \in p.reborn : RebornFits(d2, m)
    BY <2>2
  <2>6. QED
    BY <1>6, <2>1, <2>2, <2>3, <2>4, <2>5, FormedKept
<1>9. QED
  BY <1>4, <1>5, <1>7, <1>8, ProposedIs

(* Of an object that is pointed at. *)
LEMMA ObjectKept ==
  ASSUME NothingDangles, NEW e \in Evs, NEW x \in Texts, NEW c \in Said, c.of = "object",
         NEW p \in Step(NoPlan, c, World, e, x), NEW d, Compiles(d, p, c, e, x)
  PROVE  Keeps(d)
<1>1. c.who = {} /\ c.object \in Rels /\ c.says.kind = "evaluation"
  BY ClaimIs DEF WellShaped
<1>2. PICK t : t = c.object
  OBVIOUS
<1>3. Offered(World, x) = {t} /\ p \in Propose(NoPlan, c, t, World, e)
  BY <1>2 DEF Step
<1>4. /\ NoPlan \in Planned /\ NoPlan.new = {} /\ NoPlan.binds = {}
      /\ NoPlan.updates = {} /\ NoPlan.reborn = {}
  BY DEF NoPlan, Planned
<1>5. SpokenOf(World, ToldIn[x]) = {t}
  BY <1>3 DEF Offered
<1>6. t \in Rels /\ t \in things /\ Current(t)
  BY <1>1, <1>2, <1>5, WorldIs DEF SpokenOf, Current
<1>7. ASSUME NEW u, Takes(u, c, t, e), TakenBy(NoPlan, p, u, t) PROVE Keeps(d)
  <2>1. p.new = {} /\ p.updates = {u} /\ p.reborn = {} /\ p.target = {t} /\ p.binds = {}
    BY <1>4, <1>7 DEF TakenBy
  <2>2. QED
    BY <1>1, <1>5, <1>6, <1>7, <2>1, TakenKept
<1>8. ASSUME NEW n, NewSaying(n, NoPlan, c, t), FormedBy(NoPlan, p, n, t) PROVE Keeps(d)
  <2>1. n \in Cogs /\ n \notin things /\ Refers[n] = {t} /\ Says[n] = c.says
    BY <1>8 DEF NewSaying
  <2>2. p.new = {n} /\ p.updates = {} /\ p.reborn = {} /\ p.target = {t} /\ p.binds = {}
    BY <1>4, <1>8 DEF FormedBy
  <2>3. /\ p.new \cap things = {} /\ n \in p.new /\ p.new \subseteq {n, t} \cup Ents
        /\ t \in things \cup p.new /\ Refers[t] \subseteq things \cup p.new
    BY <1>6, <2>1, <2>2 DEF NothingDangles
  <2>4. OncePerPrior(p.reborn) /\ OncePerNew(p.reborn)
    BY <2>2, NoneReborn
  <2>5. \A d2 : Bundle(d2, p, e, x) => \A m \in p.reborn : RebornFits(d2, m)
    BY <2>2
  <2>6. QED
    BY <1>5, <1>6, <2>1, <2>2, <2>3, <2>4, <2>5, FormedKept
<1>9. QED
  BY <1>3, <1>4, <1>7, <1>8, ProposedIs

(* The relationship that is stated: one that holds, or a new one that      *)
(* succeeds at most one that has ended.                                    *)
StatedBy(q, who, bond, r) ==
  /\ q \in Planned /\ r \in Rels /\ Refers[r] = who /\ Bond[r] = bond
  /\ q.binds = who /\ q.updates = {} /\ q.target = {r}
Holding(q, who, r) == Current(r) /\ r \in things /\ q.new = who \ things /\ q.reborn = {}
Beginning(q, c, r) ==
  /\ r \notin things /\ r \notin Over /\ q.new = (c.who \ things) \cup {r}
  /\ q.reborn = Ends(c, World) \X {r} /\ (Ends(c, World) = {} \/ Single(Ends(c, World)))

LEMMA EdgeIs ==
  ASSUME NEW c \in Said, NEW b, b = Bind(NoPlan, c.who, World), NEW q \in Edges(b, c, World)
  PROVE  \E r : StatedBy(q, c.who, c.bond, r) /\ (Holding(q, c.who, r) \/ Beginning(q, c, r))
<1>1. /\ b \in Planned /\ b.new = c.who \ things /\ b.binds = c.who
      /\ b.updates = {} /\ b.reborn = {} /\ c.who \in SUBSET Ents
  BY ClaimIs, BoundIs
<1>2. World.current \subseteq Rels
  BY DEF World
<1>3. q \in Planned
  BY <1>1, <1>2, EdgesAre
<1>4. CASE Going(b, c, World) # {}
  <2>1. PICK r \in Going(b, c, World) : q = [b EXCEPT !.target = {r}]
    BY <1>4 DEF Edges
  <2>2. r \in World.current /\ Same(r, c)
    BY <1>1, <2>1, ThingsAssumption DEF Going
  <2>3. Current(r) /\ r \in Rels /\ r \in things
    BY <2>2, WorldIs DEF Current
  <2>4. StatedBy(q, c.who, c.bond, r)
    BY <1>1, <1>3, <2>1, <2>2, <2>3 DEF StatedBy, Same, Planned
  <2>5. Holding(q, c.who, r)
    BY <1>1, <2>1, <2>3 DEF Holding, Planned
  <2>6. QED
    BY <2>4, <2>5
<1>5. CASE Going(b, c, World) = {}
  <2>1. PICK r \in Rels \ (World.things \cup Over) :
          /\ Same(r, c) /\ (Past(c, World) # {} => Single(Ends(c, World)))
          /\ q = [b EXCEPT !.target = {r}, !.new = @ \cup {r}, !.reborn = @ \cup (Ends(c, World) \X {r})]
    BY <1>5 DEF Edges
  <2>2. Ends(c, World) \subseteq Past(c, World)
    BY DEF Ends
  <2>3. PICK ends : ends = Ends(c, World) \X {r}
    OBVIOUS
  <2>4. q = [b EXCEPT !.target = {r}, !.new = @ \cup {r}, !.reborn = @ \cup ends]
    BY <2>1, <2>3
  <2>5. StatedBy(q, c.who, c.bond, r)
    BY <1>1, <1>3, <2>1, <2>4 DEF StatedBy, Same, Planned
  <2>6. q.new = (c.who \ things) \cup {r} /\ q.reborn = ends
    BY <1>1, <2>4 DEF Planned
  <2>7. Beginning(q, c, r)
    BY <2>1, <2>2, <2>3, <2>6, WorldIs DEF Beginning
  <2>8. QED
    BY <2>5, <2>7
<1>6. QED
  BY <1>4, <1>5

(* A relationship that ended is succeeded by one between the same ends. *)
LEMMA BeginningFits ==
  ASSUME NEW c, NEW q, NEW r, StatedBy(q, c.who, c.bond, r), Beginning(q, c, r)
  PROVE  /\ OncePerPrior(q.reborn) /\ OncePerNew(q.reborn)
         /\ \A d : r \in d.new => \A m \in q.reborn : RebornFits(d, m)
<1>1. q.reborn = Ends(c, World) \X {r} /\ (Ends(c, World) = {} \/ Single(Ends(c, World)))
  BY DEF Beginning
<1>2. OncePerPrior(q.reborn) /\ OncePerNew(q.reborn)
  BY <1>1 DEF Single, OncePerPrior, OncePerNew
<1>3. ASSUME NEW d, r \in d.new, NEW m \in q.reborn PROVE RebornFits(d, m)
  <2>1. m[1] \in Ends(c, World) /\ m[2] = r
    BY <1>1, <1>3
  <2>2. PICK o : o = m[1]
    OBVIOUS
  <2>3. o \in things /\ o \in Rels /\ ~Current(o) /\ Same(o, c) /\ ~Displaced(o)
    BY <2>1, <2>2, WorldIs DEF Ends, Past
  <2>4. Ended(o) \/ o \in Over
    BY <2>3 DEF Current, Historical
  <2>5. Refers[o] = Refers[r] /\ Bond[o] = Bond[r]
    BY <2>3 DEF Same, StatedBy
  <2>6. QED
    BY <1>3, <2>1, <2>2, <2>3, <2>4, <2>5 DEF RebornFits, Beginning
<1>4. QED
  BY <1>2, <1>3

(* Of a relationship that the claim states. *)
LEMMA BondKept ==
  ASSUME NothingDangles, NEW e \in Evs, NEW x \in Texts, NEW c \in Said, c.of = "bond",
         NEW p \in Step(NoPlan, c, World, e, x), NEW d, Compiles(d, p, c, e, x)
  PROVE  Keeps(d)
<1>1. c.who \in SUBSET Ents /\ c.who # {} /\ c.says.kind = "relationship"
  BY ClaimIs DEF WellShaped
<1>2. PICK b : b = Bind(NoPlan, c.who, World)
  OBVIOUS
<1>3. PICK q \in Edges(b, c, World) : p \in UNION {Propose(q, c, t, World, e) : t \in q.target}
  BY <1>2 DEF Step
<1>4. PICK r : StatedBy(q, c.who, c.bond, r) /\ (Holding(q, c.who, r) \/ Beginning(q, c, r))
  BY <1>2, EdgeIs
<1>5. /\ q \in Planned /\ r \in Rels /\ Refers[r] = c.who /\ q.binds = c.who
      /\ q.updates = {} /\ q.target = {r}
  BY <1>4 DEF StatedBy
<1>6. p \in Propose(q, c, r, World, e)
  BY <1>3, <1>5
<1>7. ASSUME NEW u, Takes(u, c, r, e), TakenBy(q, p, u, r) PROVE Keeps(d)
  <2>1. r \in things
    BY <1>7, CatalogIs DEF Takes, NothingDangles
  <2>2. Holding(q, c.who, r)
    BY <1>4, <2>1 DEF Beginning
  <2>3. c.who \subseteq things
    BY <1>5, <2>1 DEF NothingDangles
  <2>4. /\ p.new = {} /\ p.updates = {u} /\ p.reborn = {} /\ p.target = {r} /\ p.binds = Refers[r]
        /\ Current(r)
    BY <1>5, <1>7, <2>2, <2>3 DEF TakenBy, Holding
  <2>5. QED
    BY <1>1, <1>5, <1>7, <2>4, TakenKept
<1>8. ASSUME NEW n, NewSaying(n, q, c, r), FormedBy(q, p, n, r) PROVE Keeps(d)
  <2>1. n \in Cogs /\ n \notin things /\ Refers[n] = {r} /\ Says[n] = c.says
    BY <1>8 DEF NewSaying
  <2>2. p.new = q.new \cup {n} /\ p.updates = {} /\ p.reborn = q.reborn /\ p.target = {r}
    BY <1>5, <1>8 DEF FormedBy
  <2>3. CASE Holding(q, c.who, r)
    <3>1. c.who \subseteq things
      BY <1>5, <2>3 DEF NothingDangles, Holding
    <3>2. p.new = {n} /\ p.reborn = {} /\ Current(r) /\ r \in things
      BY <2>2, <2>3, <3>1 DEF Holding
    <3>3. /\ p.new \cap things = {} /\ n \in p.new /\ p.new \subseteq {n, r} \cup Ents
          /\ r \in things \cup p.new /\ Refers[r] \subseteq things \cup p.new
      BY <1>5, <2>1, <3>1, <3>2
    <3>4. OncePerPrior(p.reborn) /\ OncePerNew(p.reborn)
      BY <3>2, NoneReborn
    <3>5. \A d2 : Bundle(d2, p, e, x) => \A m \in p.reborn : RebornFits(d2, m)
      BY <3>2
    <3>6. /\ r \in Rels \cup Ents
          /\ r \in Ents \/ r \in p.new \/ Current(r)
          /\ c.says.kind # "evaluation"
      BY <1>1, <1>5, <3>2
    <3>7. QED
      BY <2>1, <2>2, <3>3, <3>4, <3>5, <3>6, FormedKept
  <2>4. CASE Beginning(q, c, r)
    <3>1. p.new = (c.who \ things) \cup {r, n} /\ r \notin things
      BY <2>2, <2>4 DEF Beginning
    <3>2. /\ p.new \cap things = {} /\ n \in p.new /\ p.new \subseteq {n, r} \cup Ents
          /\ r \in things \cup p.new /\ Refers[r] \subseteq things \cup p.new /\ r \in p.new
      BY <1>1, <1>5, <2>1, <3>1
    <3>3. OncePerPrior(p.reborn) /\ OncePerNew(p.reborn)
      BY <1>4, <2>2, <2>4, BeginningFits
    <3>4. \A d2 : Bundle(d2, p, e, x) => \A m \in p.reborn : RebornFits(d2, m)
      BY <1>4, <2>2, <2>4, <3>2, BeginningFits DEF Bundle
    <3>5. QED
      BY <1>1, <1>5, <2>1, <2>2, <3>2, <3>3, <3>4, FormedKept
  <2>5. QED
    BY <1>4, <2>3, <2>4
<1>9. QED
  BY <1>5, <1>6, <1>7, <1>8, ProposedIs

(* The World as the compiler of a correction reads it. *)
Withheld(prior) == [World EXCEPT !.old = @ \cup {prior}]

LEMMA WithheldIs ==
  ASSUME NEW prior, NEW g, g = Withheld(prior)
  PROVE  /\ g.things = things /\ g.current = World.current /\ g.sources = World.sources
         /\ g.ledger = World.ledger /\ g.current \subseteq Rels
         /\ \A session : SpokenOf(g, session) = SpokenOf(World, session)
<1>1. /\ g.things = World.things /\ g.current = World.current /\ g.sources = World.sources
      /\ g.ledger = World.ledger
  BY DEF Withheld, World
<1>2. \A session : SpokenOf(g, session) = SpokenOf(World, session)
  BY <1>1 DEF SpokenOf
<1>3. QED
  BY <1>1, <1>2, WorldIs

(* A claim that repeats nothing forms a cognition, in any World. *)
FormsIn(p, q, k, c, t, g) ==
  /\ k \in Cogs /\ k \notin g.things /\ Refers[k] = {t} /\ Says[k] = c.says
  /\ q.new = p.new \cup {k} /\ q.target = {t}

LEMMA FormsOne ==
  ASSUME NEW p \in Planned, NEW c, c.prior = NoPrior, NEW t, NEW g, NEW e, NEW q \in Propose(p, c, t, g, e)
  PROVE  \E k : FormsIn(p, q, k, c, t, g)
<1>1. PICK k \in Cogs \ (g.things \cup p.new) :
        /\ Refers[k] = {t} /\ Says[k] = c.says
        /\ q = [p EXCEPT !.target = {t}, !.new = @ \cup {k}]
  BY DEF Propose, Formed
<1>2. FormsIn(p, q, k, c, t, g)
  BY <1>1 DEF Planned, FormsIn
<1>3. QED
  BY <1>2

(* The cognition that succeeds, and how the turn finds its target. *)
Finds(claims, n, x) ==
  LET c == claims[1] IN
  \/ c.of = "entity" /\ c.who = Refers[n] /\ c.says.kind = "attribute"
  \/ c.of = "object" /\ SpokenOf(World, ToldIn[x]) = Refers[n]
  \/ c.of = "bond" /\ \E r : Refers[n] = {r} /\ Current(r)

LEMMA EntitySucceeds ==
  ASSUME NEW prior, NEW g, g = Withheld(prior), NEW c \in Said, c.of = "entity", c.prior = NoPrior,
         NEW e, NEW x, NEW p \in Step(NoPlan, c, g, e, x), NEW n \in p.new, n \in Cogs
  PROVE  n \notin things /\ Refers[n] = c.who
<1>1. /\ c.who \in SUBSET Ents /\ Single(c.who)
  BY ClaimIs DEF WellShaped
<1>2. PICK b : b = Bind(NoPlan, c.who, g)
  OBVIOUS
<1>3. PICK t \in c.who : c.who = {t} /\ p \in Propose(b, c, t, g, e)
  BY <1>1, <1>2 DEF Single, Step
<1>4. NoPlan \in Planned
  BY DEF NoPlan, Planned
<1>5. b \in Planned /\ b.new \subseteq Ents
  BY <1>1, <1>2, <1>4, BindIs DEF Bind, NoPlan
<1>6. PICK k : FormsIn(b, p, k, c, t, g)
  BY <1>3, <1>5, FormsOne
<1>7. n = k
  BY <1>5, <1>6, ThingsAssumption DEF FormsIn
<1>8. QED
  BY <1>3, <1>6, <1>7, WithheldIs DEF FormsIn

LEMMA ObjectSucceeds ==
  ASSUME NEW prior, NEW g, g = Withheld(prior), NEW c \in Said, c.of = "object", c.prior = NoPrior,
         NEW e, NEW x, NEW p \in Step(NoPlan, c, g, e, x), NEW n \in p.new
  PROVE  n \notin things /\ SpokenOf(World, ToldIn[x]) = Refers[n]
<1>1. Offered(g, x) = {c.object} /\ p \in Propose(NoPlan, c, c.object, g, e)
  BY DEF Step
<1>2. NoPlan \in Planned /\ NoPlan.new = {}
  BY DEF NoPlan, Planned
<1>3. PICK k : FormsIn(NoPlan, p, k, c, c.object, g)
  BY <1>1, <1>2, FormsOne
<1>4. n = k
  BY <1>2, <1>3 DEF FormsIn
<1>5. QED
  BY <1>1, <1>3, <1>4, WithheldIs DEF FormsIn, Offered

LEMMA BondSucceeds ==
  ASSUME NEW prior, NEW g, g = Withheld(prior), NEW c \in Said, c.of = "bond", c.prior = NoPrior,
         NEW f \in Said, f.of = "claim", f.prior = NoPrior,
         NEW e, NEW x, NEW a \in Step(NoPlan, c, g, e, x), NEW p \in Step(a, f, g, e, x),
         p.new \subseteq Cogs, NEW n \in p.new, Says[n].kind # "relationship"
  PROVE  n \notin things /\ \E r : Refers[n] = {r} /\ Current(r)
<1>1. c.who \in SUBSET Ents /\ c.says.kind = "relationship"
  BY ClaimIs DEF WellShaped
<1>2. PICK b : b = Bind(NoPlan, c.who, g)
  OBVIOUS
<1>3. NoPlan \in Planned
  BY DEF NoPlan, Planned
<1>4. b \in Planned /\ b.new \subseteq Ents
  BY <1>1, <1>2, <1>3, BindIs DEF Bind, NoPlan
<1>5. PICK q \in Edges(b, c, g) : a \in UNION {Propose(q, c, t, g, e) : t \in q.target}
  BY <1>2 DEF Step
<1>6. g.things = things /\ g.current = World.current /\ g.current \subseteq Rels
  BY WithheldIs
<1>7. q \in Planned
  BY <1>4, <1>6, EdgesAre
<1>8. PICK r \in Rels : /\ q.target = {r}
                        /\ \/ q.new = b.new /\ r \in g.current
                           \/ q.new = b.new \cup {r}
  <2>1. CASE Going(b, c, g) # {}
    <3>1. PICK r \in Going(b, c, g) : q = [b EXCEPT !.target = {r}]
      BY <2>1 DEF Edges
    <3>2. r \in g.current
      BY <1>4, <3>1, ThingsAssumption DEF Going
    <3>3. q.target = {r} /\ q.new = b.new
      BY <1>4, <3>1 DEF Planned
    <3>4. QED
      BY <1>6, <3>2, <3>3
  <2>2. CASE Going(b, c, g) = {}
    <3>1. PICK r \in Rels : \E ends : q = [b EXCEPT !.target = {r}, !.new = @ \cup {r}, !.reborn = @ \cup ends]
      BY <2>2 DEF Edges
    <3>2. q.target = {r} /\ q.new = b.new \cup {r}
      BY <1>4, <3>1 DEF Planned
    <3>3. QED
      BY <3>2
  <2>3. QED
    BY <2>1, <2>2
<1>9. a \in Propose(q, c, r, g, e)
  BY <1>5, <1>8
<1>10. PICK j : FormsIn(q, a, j, c, r, g)
  BY <1>7, <1>9, FormsOne
<1>11. a \in Planned
  BY <1>7, <1>8, <1>9, ProposeIs
<1>12. p \in Propose(a, f, r, g, e)
  BY <1>10 DEF Step, FormsIn
<1>13. PICK k : FormsIn(a, p, k, f, r, g)
  BY <1>11, <1>12, FormsOne
<1>14. p.new = q.new \cup {j, k} /\ Says[j].kind = "relationship"
  BY <1>1, <1>10, <1>13 DEF FormsIn
<1>15. q.new \subseteq Cogs /\ q.new \subseteq Ents \cup Rels
  BY <1>4, <1>8, <1>14
<1>16. q.new = {}
  BY <1>15, ThingsAssumption
<1>17. r \in g.current /\ n = k
  BY <1>8, <1>14, <1>16
<1>18. Current(r)
  BY <1>6, <1>17, WorldIs
<1>19. QED
  BY <1>6, <1>13, <1>17, <1>18 DEF FormsIn

LEMMA SuccessorIs ==
  ASSUME NEW prior, Correctable(prior, World), NEW claims, OneClaim(claims) \/ TwoClaims(claims),
         CorrectionClaims(prior, claims), NEW e, NEW x, NEW n \in Successors(prior, claims, World, e, x)
  PROVE  /\ n \in Cogs /\ n \notin things /\ Refers[n] = Refers[prior]
         /\ Says[n].kind = Says[prior].kind /\ Says[n].value # Says[prior].value
         /\ Finds(claims, n, x)
<1>1. PICK g : g = Withheld(prior)
  OBVIOUS
<1>2. PICK p \in Plans(claims, g, e, x) :
        /\ n \in p.new /\ p.new \subseteq Cogs /\ Refers[n] = Refers[prior]
        /\ Says[n].kind = Says[prior].kind /\ Says[n].value # Says[prior].value
  BY <1>1 DEF Successors, Withheld
<1>3. Says[prior].kind \in {"attribute", "evaluation"}
  BY DEF Correctable
<1>4. n \notin things /\ Finds(claims, n, x)
  <2>1. CASE Len(claims) = 1
    <3>1. p \in Step(NoPlan, claims[1], g, e, x) /\ claims[1] \in Said
      BY <1>2, <2>1 DEF Plans, OneClaim, TwoClaims
    <3>2. /\ claims[1].prior = NoPrior /\ claims[1].says.kind = Says[prior].kind
          /\ \/ claims[1].of = "entity" /\ claims[1].says.kind = "attribute"
             \/ claims[1].of = "object"
      BY <1>3, <2>1 DEF CorrectionClaims
    <3>3. n \in Cogs
      BY <1>2
    <3>4. CASE claims[1].of = "entity" /\ claims[1].says.kind = "attribute"
      BY <1>1, <1>2, <3>1, <3>2, <3>3, <3>4, EntitySucceeds DEF Finds
    <3>5. CASE claims[1].of = "object"
      BY <1>1, <1>2, <3>1, <3>2, <3>5, ObjectSucceeds DEF Finds
    <3>6. QED
      BY <3>2, <3>4, <3>5
  <2>2. CASE TwoClaims(claims)
    <3>1. claims[1] \in Said /\ claims[2] \in Said /\ Len(claims) = 2
      BY <2>2 DEF TwoClaims
    <3>2. PICK a \in Step(NoPlan, claims[1], g, e, x) : p \in Step(a, claims[2], g, e, x)
      BY <1>2, <3>1 DEF Plans
    <3>3. /\ claims[2].of = "claim" /\ claims[2].prior = NoPrior
          /\ claims[1].of = "bond" /\ claims[1].prior = NoPrior
      BY <3>1 DEF CorrectionClaims
    <3>4. Says[n].kind # "relationship"
      BY <1>2, <1>3
    <3>5. QED
      BY <1>1, <1>2, <3>1, <3>2, <3>3, <3>4, BondSucceeds DEF Finds
  <2>3. QED
    BY <2>1, <2>2 DEF OneClaim
<1>5. QED
  BY <1>2, <1>4

(* What the compiler makes of a correction keeps its contract. *)
LEMMA CorrectionKept ==
  ASSUME TypeOK, NothingDangles, NEW claims, OneClaim(claims) \/ TwoClaims(claims),
         NEW e \in Evs, NEW x \in Texts, NEW prior, NEW d \in CompileCorrection(prior, claims, World, e, x)
  PROVE  Keeps(d)
<1> DEFINE named == CASE claims[1].of = "entity" -> "mention"
                      [] claims[1].of = "object" -> "reference" [] OTHER -> "restated"
           binds == IF named = "mention" THEN claims[1].who ELSE {}
           change(n) == [Empty("evolution", e, x, {n}) EXCEPT !.swaps = {<<prior, n>>}, !.binds = binds]
<1>1. Correctable(prior, World) /\ CorrectionClaims(prior, claims)
  BY DEF CompileCorrection
<1>2. PICK n \in Successors(prior, claims, World, e, x) :
        d = [change(n) EXCEPT !.shown = {Shows(change(n), named, Target(prior), "corrects", prior, n,
                                               {<<e, "support">>}, World)}]
  BY <1>1 DEF CompileCorrection
<1>3. /\ prior \in things /\ prior \in Cogs /\ ~Superseded(prior) /\ prior \notin World.old
      /\ Refers[prior] = {Target(prior)}
  BY <1>1, CatalogIs, WorldIs DEF Correctable
<1>4. /\ n \in Cogs /\ n \notin things /\ Refers[n] = Refers[prior]
      /\ Says[n].kind = Says[prior].kind /\ Says[n].value # Says[prior].value
      /\ Finds(claims, n, x)
  BY <1>1, <1>2, SuccessorIs
<1>5. PICK t, name, bound : t = Target(prior) /\ name = named /\ bound = binds
  OBVIOUS
<1>6. /\ t \in things
      /\ \/ Says[prior].kind = "attribute" /\ t \in Ents
         \/ Says[prior].kind = "evaluation" /\ t \in Rels /\ t \notin Ents
  BY <1>1, <1>5, ThingsAssumption, WorldIs DEF Correctable
<1>7. \/ t \in Ents /\ name = "mention" /\ bound = {t}
      \/ t \notin Ents /\ name = "reference" /\ bound = {} /\ SpokenOf(World, ToldIn[x]) = {t}
      \/ t \notin Ents /\ name = "restated" /\ bound = {} /\ Current(t)
  <2>1. claims[1].of = "entity" => name = "mention" /\ bound = claims[1].who
    BY <1>5
  <2>2. claims[1].of = "object" => name = "reference" /\ bound = {}
    BY <1>5
  <2>3. claims[1].of = "bond" => name = "restated" /\ bound = {}
    BY <1>5
  <2>4. claims[1].of = "entity" <=> Says[prior].kind = "attribute"
    BY <1>1, <1>6 DEF CorrectionClaims
  <2>5. QED
    BY <1>3, <1>4, <1>5, <1>6, <2>1, <2>2, <2>3, <2>4 DEF Finds
<1> HIDE DEF named, binds
<1>8. PICK empty, new, swaps, rests :
        /\ new = {n} /\ swaps = {<<prior, n>>} /\ rests = {<<e, "support">>}
        /\ empty = Empty("evolution", e, x, new)
  OBVIOUS
<1>9. PICK c : c = [empty EXCEPT !.swaps = swaps, !.binds = bound]
  OBVIOUS
<1>10. PICK s : s = Shows(c, name, t, "corrects", prior, n, rests, World)
  OBVIOUS
<1>11. d = [c EXCEPT !.shown = {s}]
  BY <1>2, <1>5, <1>8, <1>9, <1>10
<1>12. /\ c.kind = "evolution" /\ c.ev = e /\ c.text = x /\ c.new = new /\ c.swaps = swaps /\ c.binds = bound
       /\ c.updates = {} /\ c.states = {} /\ c.reborn = {} /\ c.claims = <<>> /\ c.needs = {}
       /\ "shown" \in DOMAIN c /\ "swaps" \in DOMAIN c
  BY <1>8, <1>9 DEF Empty
<1>13. /\ d.kind = "evolution" /\ d.ev = e /\ d.text = x /\ d.new = {n} /\ d.swaps = {<<prior, n>>} /\ d.binds = bound
       /\ d.updates = {} /\ d.states = {} /\ d.reborn = {} /\ d.claims = <<>> /\ d.needs = {}
       /\ d.shown = {s} /\ "swaps" \in DOMAIN d
  BY <1>8, <1>11, <1>12
<1>14. Fits(d)
  <2>1. Refers[n] \subseteq things
    BY <1>3, <1>4 DEF NothingDangles
  <2>2. DeltaFits(d)
    BY <1>4, <1>13, <2>1 DEF DeltaFits, AboutStored
  <2>3. SwapFits(d, <<prior, n>>)
    BY <1>3, <1>4, <1>13 DEF SwapFits
  <2>4. OncePerPrior({<<prior, n>>})
    BY DEF OncePerPrior
  <2>5. ClaimsFit(d)
    <3>1. DOMAIN d.claims = {}
      BY <1>13
    <3>2. QED
      BY <1>13, <3>1 DEF ClaimsFit
  <2>6. QED
    BY <1>13, <2>2, <2>3, <2>4, <2>5, NoneReborn DEF Fits
<1>15. /\ SameTurn(d, s) /\ s.session = ToldIn[x] /\ s.base = Seen(World) /\ s.named = name /\ s.binds = bound
       /\ s.says = Says[n] /\ s.target = t /\ s.priors = {} /\ s.relation = "corrects"
       /\ s.before[1] = prior /\ s.before = <<prior, sources[prior]>>
       /\ s.after[1] = n /\ s.after[2] = {<<e, "support">>}
  BY <1>8, <1>10, <1>12, <1>13, WorldIs DEF Shows, SameTurn
<1>16. /\ name = "restated" => s.objects = {}
       /\ name = "reference" => s.objects = {<<t, s.base>>}
       /\ name = "mention" /\ t \notin Rels => s.objects = {<<t, s.base>>}
  BY <1>10 DEF Shows
<1>17. CorrectionHolds(d, s, World)
  <2>1. Nothing([d EXCEPT !.swaps = {}])
    BY <1>13 DEF Nothing
  <2>2. OnlySwap(d, <<prior, n>>)
    BY <1>13, <2>1 DEF OnlySwap
  <2>3. CorrectionPlan(d, s)
    BY <1>13, <1>15, <2>2 DEF CorrectionPlan
  <2>4. CorrectionPrior(s, World)
    BY <1>3, <1>5, <1>6, <1>15, WorldIs DEF CorrectionPrior
  <2>5. CorrectionSuccessor(d, s)
    BY <1>3, <1>4, <1>13, <1>15 DEF CorrectionSuccessor
  <2>6. CorrectionShown(s, World)
    BY <1>15, WorldIs DEF CorrectionShown, Rests
  <2>7. CASE t \in Ents
    <3>1. t \notin Rels /\ name = "mention" /\ bound = {t}
      BY <1>7, <2>7, ThingsAssumption
    <3>2. CorrectionOfEntity(d, s, World)
      BY <1>5, <1>6, <1>13, <1>15, <1>16, <3>1, WorldIs DEF CorrectionOfEntity
    <3>3. QED
      BY <1>5, <1>15, <2>3, <2>4, <2>5, <2>6, <2>7, <3>2 DEF CorrectionHolds
  <2>8. CASE t \notin Ents
    <3>1. bound = {} /\ name \in {"reference", "restated"}
      BY <1>7, <2>8
    <3>2. CorrectionByReference(s) \/ CorrectionRestated(s)
      BY <1>5, <1>15, <1>16, <3>1 DEF CorrectionByReference, CorrectionRestated
    <3>3. QED
      BY <1>5, <1>15, <2>3, <2>4, <2>5, <2>6, <2>8, <3>2 DEF CorrectionHolds
  <2>9. QED
    BY <2>7, <2>8
<1>18. CorrectionIsCurrent(s, World)
  <2>1. name = "reference" => SpokenOf(World, ToldIn[x]) = {t}
    BY <1>7
  <2>2. t \in Ents \cup World.current
    BY <1>6, <1>7, <2>1, WorldIs DEF SpokenOf
  <2>3. QED
    BY <1>3, <1>4, <1>5, <1>15, <2>1, <2>2, WorldIs DEF CorrectionIsCurrent
<1>19. SignedCurrent(d)
  BY <1>13, <1>17, <1>18 DEF SignedCurrent
<1>20. QED
  BY <1>14, <1>19 DEF Keeps

(* A turn of one claim. *)
LEMMA TurnKept ==
  ASSUME TypeOK, NothingDangles, NEW t \in Turns(World), Len(t) = 1,
         NEW e \in Evs, NEW x \in Texts, NEW d \in CompileTurn(t, World, e, x)
  PROVE  Keeps(d)
<1>1. OneClaim(t) \/ TwoClaims(t)
  BY TurnsAre
<1>2. t[1] \in Said /\ OneClaim(t)
  BY <1>1 DEF OneClaim, TwoClaims
<1>3. PICK p \in Plans(t, World, e, x) : d = Sign(Told(p, e, x), t[1], p, World)
  BY DEF CompileTurn
<1>4. d \in Change
  BY <1>2, CompiledTurnIs DEF Shaped
<1>5. World.current \subseteq Rels
  BY DEF World
<1>6. p \in Planned
  BY <1>2, <1>3, <1>5, PlansAre
<1>7. Compiles(d, p, t[1], e, x)
  BY <1>3, <1>4, <1>6 DEF Compiles
<1>8. p \in Step(NoPlan, t[1], World, e, x)
  BY <1>3 DEF Plans
<1>9. t[1].of # "claim"
  <2> DEFINE persons == UNION {Meant(m, World) : m \in Mentions(World)}
             now == {c \in Sayable : c.prior \in Catalog(World) \cup {NoPrior} /\ c.who \subseteq persons}
             second == {c \in now : c.of = "claim"}
  <2>1. t \in {<<c>> : c \in now \ second} \cup {c \in now : c.of \in {"entity", "bond"} /\ c.affirm} \X second
    BY DEF Turns
  <2> HIDE DEF now
  <2>2. CASE t \in {<<c>> : c \in now \ second}
    BY <2>2
  <2>3. CASE t \in {c \in now : c.of \in {"entity", "bond"} /\ c.affirm} \X second
    BY <2>3
  <2>4. QED
    BY <2>1, <2>2, <2>3
<1>10. t[1].of \in {"entity", "object", "bond"}
  BY <1>2, <1>9, ClaimIs
<1>11. QED
  BY <1>2, <1>7, <1>8, <1>10, EntityKept, ObjectKept, BondKept

(* The compiler of a turn and the contract of a signed change are written  *)
(* apart (turn_meaning.py, loop.py), and agree: what the program compiles  *)
(* of a turn with one claim, or of a correction, is a change that fits the *)
(* World as it is and of which everything that is shown holds of it.       *)
THEOREM TheCompilerKeepsItsContract == Spec => []CompilerKeepsContract
<1>1. ASSUME IInv, NEW e \in Evs, NEW x \in Texts, NEW t \in Turns(World)
      PROVE  /\ Len(t) = 1 => \A d \in CompileTurn(t, World, e, x) : Keeps(d)
             /\ \A p \in Catalog(World) : \A d \in CompileCorrection(p, t, World, e, x) : Keeps(d)
  <2>1. TypeOK /\ NothingDangles /\ (OneClaim(t) \/ TwoClaims(t))
    BY <1>1, TurnsAre DEF IInv
  <2>2. QED
    BY <2>1, TurnKept, CorrectionKept
<1>2. IInv => CompilerKeepsContract
  BY <1>1 DEF CompilerKeepsContract, Keeps
<1>3. QED
  BY <1>2, AlwaysIInv, PTL

=============================================================================
