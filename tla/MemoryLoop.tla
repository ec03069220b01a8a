------------------------------- MODULE MemoryLoop -------------------------------
(***************************************************************************)
(* The reviewed memory loop: the second way into the World.  A change is   *)
(* staged against the graph as it is, shown to the owner with a hash, and  *)
(* written only when the owner accepts exactly what was shown, at the      *)
(* revision it was prepared for.  Several changes wait at once; each       *)
(* decision may come at any time, in any order, from any process.          *)
(*                                                                         *)
(* The hashes of a review are modelled as what they are the hash of: a     *)
(* review is readable when its bytes can be validated again, and a         *)
(* snapshot hash is the graph.  Wording, times, spans, confidences and     *)
(* the layout of what the owner sees are left out.                         *)
(***************************************************************************)
EXTENDS TurnMeaning

CONSTANTS NoReceipt,
          Initial,            \* the graph a new database is given
          MaxReviews,         \* bound: reviews ever staged
          MaxPending,         \* bound: reviews waiting at once
          MaxNew              \* bound: new records in one review

ASSUME InitialAssumption ==
  Initial \subseteq Things /\ \A t \in Initial : Refers[t] \subseteq Initial
ASSUME BoundAssumption == MaxReviews \in Nat /\ MaxPending \in Nat /\ MaxNew \in Nat

VARIABLES things,     \* memory_state: the records of the graph
          sources,    \* memory_state: the Evidence a cognition rests on
          revision,   \* memory_state.revision
          ledger,     \* evidence_ledger
          edges,      \* cognition_transitions
          proposals   \* the reviews with their decision receipts, by rowid

graph == <<things, sources>>
vars == <<things, sources, revision, ledger, edges, proposals>>

Receipt == [revision: Nat, graph: Worlds]
Proposal == [base: Nat, status: {"pending", "accept", "reject"}, change: Change,
             applied: SUBSET Nat, receipt: Receipt \cup {NoReceipt}]
Edge == [prior: Cogs, succ: Cogs, revision: Nat]

(* The Evidence of cognitions that come with a new database stays outside. *)
Init ==
  /\ things = Initial
  /\ sources = [c \in Cogs |-> {}]
  /\ revision = 0
  /\ ledger = [e \in Evs |-> NoText]
  /\ edges = {}
  /\ proposals = <<>>

(* Every row is one the schema and the staging calls can hold. *)
TypeOK ==
  /\ things \subseteq Things
  /\ sources \in [Cogs -> Sources]
  /\ revision \in Nat
  /\ ledger \in [Evs -> Texts \cup {NoText}]
  /\ edges \subseteq Edge
  /\ proposals \in Seq(Proposal)

-----------------------------------------------------------------------------
(* What the stored rows say.                                               *)
Reviews == DOMAIN proposals
With(status) == {i \in Reviews : proposals[i].status = status}
Superseded(c) == \E e \in edges : e.prior = c

(* The steps of the accepted changes, in the order they were accepted. *)
Reborn == UNION {proposals[i].change.reborn : i \in With("accept")}
Stated(r) == {i \in With("accept") : \E s \in proposals[i].change.states : s[1] = r}
Ended(r) ==
  \E i \in Stated(r) :
    /\ <<r, "ended">> \in proposals[i].change.states
    /\ \A k \in Stated(r) : proposals[k].base <= proposals[i].base
Displaced(r) == \E n \in Reborn : n[1] = r
Historical(r) == Displaced(r) \/ Ended(r)
Current(r) ==
  /\ r \in things /\ ~Historical(r)
  /\ r \in Over => Stated(r) # {} \/ \E n \in Reborn : n[2] = r

-----------------------------------------------------------------------------
(* What a change must satisfy against the graph, when it is staged and     *)
(* again when it is accepted.                                              *)

(* WorldDelta: new records with new names, about records that exist. *)
AboutStored(d, t) == Refers[t] \subseteq things \cup d.new
DeltaFits(d) == d.new \cap things = {} /\ \A t \in d.new : AboutStored(d, t)

(* A replaced cognition is stored and still current, the new one comes     *)
(* with the change and has the same target; a bundle replaces a structured *)
(* claim by one of its kind, a correction one in free words.               *)
SwapFits(d, w) ==
  /\ w[1] \in things /\ ~Superseded(w[1])
  /\ w[2] \in d.new
  /\ Refers[w[1]] = Refers[w[2]]
  /\ d.kind = "product_bundle" => Says[w[1]].kind = Says[w[2]].kind /\ Says[w[1]] # Plain
  /\ d.kind = "correction" => Says[w[1]] = Plain /\ Says[w[2]] = Plain

(* Evidence that contradicts or reaffirms keeps the cognition's name; the  *)
(* cognition is current and the Evidence is new to it.                     *)
UpdateFits(d, u) ==
  /\ u[1] \in things /\ ~Superseded(u[1])
  /\ \A s \in Signs : <<d.ev, s>> \notin sources[u[1]]

StateFits(d, s) ==
  /\ s[1] \in things
  /\ \E c \in d.new \cap Cogs : Refers[c] = {s[1]}

RebornFits(d, n) ==
  /\ n[1] \in things /\ (Ended(n[1]) \/ n[1] \in Over) /\ ~Displaced(n[1])
  /\ n[2] \in d.new \ Over
  /\ Refers[n[1]] = Refers[n[2]] /\ Bond[n[1]] = Bond[n[2]]

(* What a bundle says of a relationship, it says of a current one. *)
AboutCurrent(d) ==
  \A c \in (d.new \cap Cogs) \cup {u[1] : u \in d.updates} :
    \A r \in Refers[c] \cap Rels : r \in d.new \/ Current(r)

(* Claims own every new record once (entities may come in any case) and    *)
(* every replacement once; their dependencies have no cycle.               *)
Always(d) == d.new \ UNION {d.claims[k].new : k \in DOMAIN d.claims}
ClaimsFit(d) ==
  /\ d.claims # <<>> => d.updates = {} /\ d.reborn = {} /\ Always(d) \subseteq Ents
  /\ \A k \in DOMAIN d.claims :
       /\ d.claims[k].new \subseteq d.new /\ d.claims[k].swaps \subseteq d.swaps
       /\ \A m \in DOMAIN d.claims \ {k} :
            /\ d.claims[k].new \cap d.claims[m].new = {}
            /\ d.claims[k].swaps \cap d.claims[m].swaps = {}
  /\ d.claims # <<>> => d.swaps = UNION {d.claims[k].swaps : k \in DOMAIN d.claims}
  /\ \A n \in d.needs : n[1] # n[2] /\ <<n[2], n[1]>> \notin d.needs

OncePerPrior(pairs) == \A p, q \in pairs : p[1] = q[1] => p = q
OncePerNew(pairs) == \A p, q \in pairs : p[2] = q[2] => p = q

Fits(d) ==
  /\ DeltaFits(d)
  /\ OncePerPrior(d.swaps) /\ \A w \in d.swaps : SwapFits(d, w)
  /\ OncePerPrior(d.updates) /\ \A u \in d.updates : UpdateFits(d, u)
  /\ OncePerPrior(d.states) /\ \A s \in d.states : StateFits(d, s)
  /\ OncePerPrior(d.reborn) /\ OncePerNew(d.reborn)
  /\ \A n \in d.reborn : RebornFits(d, n)
  /\ d.kind = "product_bundle" => AboutCurrent(d)
  /\ ClaimsFit(d)

(* An Evidence id is never given a second content. *)
LedgerFits(d) == ledger[d.ev] \in {NoText, d.text}

(* The World as a contract reads it. *)
World == [things |-> things, sources |-> sources, ledger |-> ledger,
          current |-> {r \in Rels : Current(r)}, old |-> {c \in Cogs : Superseded(c)},
          displaced |-> {r \in Rels : Displaced(r)}]

(* The stored bytes can be validated again: the contract of a signed       *)
(* review holds in the graph, an evolution binds entities of the graph.    *)
Readable(d) ==
  /\ d.kind = "evolution" =>
       d.binds \subseteq things /\ \A s \in d.shown : CorrectionHolds(d, s, World)
  /\ d.kind = "product_bundle" => \A s \in d.shown : BundleHolds(d, s, World)

(* What is signed holds of the World it is to be written to. *)
SignedCurrent(d) ==
  \A s \in d.shown :
    IF d.kind = "evolution" THEN CorrectionHolds(d, s, World) /\ CorrectionIsCurrent(s, World)
    ELSE BundleHolds(d, s, World) /\ BundleIsCurrent(d, s, World)

(* The accepted steps are validated again by every reader of the history. *)
HistoryReadable == \A i \in With("accept") : Readable(proposals[i].change)

-----------------------------------------------------------------------------
(* Staging.                                                                *)
Insert(d) ==
  /\ Fits(d) /\ LedgerFits(d)
  /\ d.binds \subseteq things \cup d.new /\ SignedCurrent(d)
  /\ proposals' = Append(proposals, [base |-> revision, status |-> "pending", change |-> d,
                                     applied |-> {}, receipt |-> NoReceipt])
  /\ UNCHANGED <<things, sources, revision, ledger, edges>>

CanStage == Len(proposals) < MaxReviews /\ Cardinality(With("pending")) < MaxPending
NewRecords(n) == {new \in SUBSET (Things \ things) : Cardinality(new) \in 1 .. n}

StageAddition(e, x) ==
  CanStage /\ \E new \in NewRecords(1) : Insert(Empty("addition", e, x, new))

(* One replacement for one to four cognitions of the same target. *)
StageCorrection(e, x) ==
  /\ CanStage
  /\ \E c \in Cogs \ things, priors \in (SUBSET (Cogs \cap things)) \ {{}} :
       /\ Cardinality(priors) <= 4
       /\ Insert([Empty("correction", e, x, {c}) EXCEPT !.swaps = priors \X {c}])

(* What an adapter may compile of a change of c to n, all it could get     *)
(* wrong included: the World it read, the words, the target, the Evidence. *)
NewWorld == <<Initial, [c \in Cogs |-> {}]>>
Compiled(d, relation, c, n) ==
  {[ev |-> d.ev, text |-> d.text, session |-> session, base |-> base, named |-> named,
    says |-> Says[n], target |-> t,
    binds |-> IF named # "mention" THEN {} ELSE IF t \in Ents THEN {t} ELSE Refers[t],
    objects |-> {<<o, base>> : o \in IF named = "restated" THEN {}
                                     ELSE IF named = "mention" /\ t \in Rels THEN Refers[t] ELSE {t}},
    priors |-> IF relation \in {"reaffirms", "contradicts"} THEN {<<c, base>>} ELSE {},
    relation |-> relation, before |-> <<c, base[2][c]>>, after |-> <<n, rests>>,
    preview |-> <<base[1] \cup d.new, [base[2] EXCEPT ![n] = rests]>>] :
   session \in Sessions, base \in {graph, NewWorld}, t \in Rels \cup Ents,
   named \in {"mention", "reference", "restated"},
   rests \in UNION {{{<<d.ev, sign>>}, sources[c] \cup {<<d.ev, sign>>}} : sign \in Signs}}

Signed(d, s) == [d EXCEPT !.shown = {s}, !.binds = s.binds]

(* One user turn, with what it replaces; the owner may take it by claims,  *)
(* of which the second depends on the first (two that stand alone are      *)
(* taken one by one like the first of these); the second replaces.        *)
StageBundle(e, x) ==
  /\ CanStage /\ HistoryReadable
  /\ \E swaps \in SUBSET ((Cogs \cap things) \X (Cogs \ things)) :
       /\ Cardinality(swaps) <= 1
       /\ \/ \E new \in NewRecords(1) :
               Insert([Empty("product_bundle", e, x, new) EXCEPT !.swaps = swaps])
          \/ \E new \in NewRecords(MaxNew) : \E first \in SUBSET (new \ Ents) :
               first # {} /\ first # new \ Ents /\
               Insert([Empty("product_bundle", e, x, new) EXCEPT !.swaps = swaps, !.needs = {<<2, 1>>},
                 !.claims = <<[new |-> first, swaps |-> {}],
                              [new |-> new \ (Ents \cup first), swaps |-> swaps]>>])

(* A signed turn: an evaluation of what it points at, or Evidence for or   *)
(* against a cognition.                                                    *)
StageSignedBundle(e, x) ==
  /\ CanStage /\ HistoryReadable
  /\ \/ \E c \in Cogs \ things :
          LET d == Empty("product_bundle", e, x, {c}) IN
          Which(d) # "none" /\ \E s \in Compiled(d, "asserts", c, c) : Insert(Signed(d, s))
     \/ \E c \in Cogs \cap things, sign \in Signs :
          LET d == [Empty("product_bundle", e, x, {}) EXCEPT !.updates = {<<c, sign>>}] IN
          Which(d) # "none" /\ \E s \in Compiled(d, Relation(sign), c, c) : Insert(Signed(d, s))

(* A turn that re-establishes a relationship that ended. *)
StageSuccessor(e, x) ==
  /\ CanStage /\ HistoryReadable
  /\ \E r \in Rels \cap things, n \in Rels \ things :
       Insert([Empty("product_bundle", e, x, {n}) EXCEPT !.reborn = {<<r, n>>}])

(* A plan with one typed step, which may bring an entity and bind mentions *)
(* of entities; a typed natural correction is signed.                      *)
StageEvolution(e, x) ==
  /\ CanStage /\ HistoryReadable
  /\ \/ \E c \in Cogs \ things, p \in Cogs \cap things, b \in {{q} : q \in Ents} :
          Insert([Empty("evolution", e, x, {c} \cup (b \ things)) EXCEPT
                    !.swaps = {<<p, c>>}, !.binds = b])
     \/ \E c \in Cogs \cap things, s \in Signs :
          Insert([Empty("evolution", e, x, {}) EXCEPT !.updates = {<<c, s>>}])
     \/ \E r \in Rels \cap things, word \in {"active", "ended"}, c \in Cogs \ things,
           p \in SUBSET (Cogs \cap things) :
          /\ Cardinality(p) <= 1
          /\ Insert([Empty("evolution", e, x, {c}) EXCEPT
                       !.states = {<<r, word>>}, !.swaps = p \X {c}])
StageTypedCorrection(e, x) ==
  /\ CanStage /\ HistoryReadable
  /\ \E c \in Cogs \ things, p \in Cogs \cap things :
       LET d == [Empty("evolution", e, x, {c}) EXCEPT !.swaps = {<<p, c>>}] IN
       \E s \in Compiled(d, "corrects", p, c) : Insert(Signed(d, s))

(* What a turn may say: one claim, or an evaluation of what its first      *)
(* claim is about.  Its mentions mean whom the program makes of them, a    *)
(* prior says the same (any other is refused), and there is a record that  *)
(* could say it.                                                           *)
Sayable ==
  {c \in Said :
     /\ c.prior # NoPrior => Says[c.prior] = c.says
     /\ IF c.of = "bond" THEN \E r \in Rels : Refers[r] = c.who /\ Bond[r] = c.bond
        ELSE c.bond = CHOOSE b \in {Bond[r] : r \in Rels} : TRUE
     /\ c.of = "entity" => \E k \in Cogs : Refers[k] = c.who /\ Says[k] = c.says}
Turns(g) ==
  LET persons == UNION {Meant(m, g) : m \in Mentions(g)}
      now == {c \in Sayable : c.prior \in Catalog(g) \cup {NoPrior} /\ c.who \subseteq persons}
      second == {c \in now : c.of = "claim"} IN
  {<<c>> : c \in now \ second} \cup {c \in now : c.of \in {"entity", "bond"} /\ c.affirm} \X second

(* A turn the program compiled itself. *)
StageTurn ==
  /\ CanStage /\ HistoryReadable
  /\ LET g == World  turns == Turns(g) IN
     \E e \in Evs, x \in Texts, t \in turns :
       \/ \E d \in CompileTurn(t, g, e, x) : Insert(d)
       \/ \E p \in Catalog(g) : \E d \in CompileCorrection(p, t, g, e, x) : Insert(d)

-----------------------------------------------------------------------------
(* Deciding.                                                               *)

(* Mutant of Closure: only what was ticked. *)
ChosenOnly(d, chosen) == chosen

(* A chosen claim brings the claims it depends on. *)
Closure(d, chosen) ==
  chosen \cup {n[2] : n \in {m \in d.needs : m[1] \in chosen}}

(* The subset of an offered bundle that the applied claims own. *)
Part(d, applied) ==
  [d EXCEPT !.new = Always(d) \cup UNION {d.claims[k].new : k \in applied},
            !.swaps = UNION {d.claims[k].swaps : k \in applied},
            !.claims = <<>>, !.needs = {}]

(* Mutant of Stale: a review is good for any later World. *)
NeverStale(p) == FALSE

Stale(p) == p.base # revision

SourcesAfter(d) ==
  [c \in Cogs |->
     sources[c] \cup (IF c \in d.new THEN {<<d.ev, "support">>} ELSE {})
                \cup {<<d.ev, u[2]>> : u \in {v \in d.updates : v[1] = c}}]

Decided(i, status, applied, rev, g) ==
  proposals' = [proposals EXCEPT
    ![i].status = status, ![i].applied = applied,
    ![i].receipt = [revision |-> rev, graph |-> g]]

(* The write of an accepted change: Evidence, graph, revision, transitions,*)
(* status and receipt, in one transaction.                                 *)
Write(i, d, applied) ==
  /\ Fits(d) /\ LedgerFits(d) /\ d.binds \subseteq things \cup d.new
  /\ d.kind = "product_bundle" => SignedCurrent(d)
  /\ things' = things \cup d.new
  /\ sources' = SourcesAfter(d)
  /\ revision' = revision + 1
  /\ ledger' = [ledger EXCEPT ![d.ev] = IF @ = NoText THEN d.text ELSE @]
  /\ edges' = edges \cup {[prior |-> w[1], succ |-> w[2], revision |-> revision + 1] :
                          w \in d.swaps}
  /\ Decided(i, "accept", applied, revision + 1, <<things', sources'>>)

Reject(i) ==
  /\ i \in With("pending")
  /\ Readable(proposals[i].change)
  /\ Decided(i, "reject", {}, revision, graph)
  /\ UNCHANGED <<things, sources, revision, ledger, edges>>

AcceptWhole(i) ==
  LET p == proposals[i] IN
  /\ i \in With("pending") /\ p.change.claims = <<>>
  /\ Readable(p.change) /\ ~Stale(p)
  /\ p.change.kind \in {"evolution", "product_bundle"} => HistoryReadable
  /\ Write(i, p.change, {})

(* Claims are chosen; choosing none rejects the bundle. *)
AcceptClaims(i, chosen) ==
  LET p == proposals[i]
      applied == Closure(p.change, chosen) IN
  /\ i \in With("pending") /\ p.change.claims # <<>>
  /\ chosen \subseteq DOMAIN p.change.claims /\ chosen # {}
  /\ Readable(p.change) /\ ~Stale(p) /\ HistoryReadable
  /\ Write(i, Part(p.change, applied), applied)

Next ==
  \/ \E e \in Evs, x \in Texts :
       \/ StageAddition(e, x) \/ StageCorrection(e, x) \/ StageBundle(e, x)
       \/ StageSignedBundle(e, x) \/ StageSuccessor(e, x)
       \/ StageEvolution(e, x) \/ StageTypedCorrection(e, x)
  \/ StageTurn
  \/ \E i \in 1 .. MaxReviews :
       \/ Reject(i) \/ AcceptWhole(i)
       \/ \E chosen \in SUBSET {1, 2} : AcceptClaims(i, chosen)

Spec == Init /\ [][Next]_vars

-----------------------------------------------------------------------------
(* Properties.                                                             *)

(* Every accepted step can still be validated against today's World; if    *)
(* one could not, every view, staging call and recall would fail for good  *)
(* (_accepted_evolution_steps raises).                                     *)
AcceptedReadable == HistoryReadable

(* A cognition is replaced once, by one that was written with the          *)
(* replacement: histories are lines without cycles.  A relationship is     *)
(* re-established once: of it and its successors only the last may be      *)
(* current.                                                                *)
CognitionLine ==
  \A e, f \in edges :
    /\ e.prior = f.prior => e = f
    /\ e.succ = f.prior => e.revision < f.revision
RelationshipLine == \A m, n \in Reborn : m[1] = n[1] => m = n
HistoryIsALine == CognitionLine /\ RelationshipLine /\ \A n \in Reborn : ~Current(n[1])

(* What is written was read before it was written: the World changes only  *)
(* by the acceptance of a review prepared for exactly this revision, and a *)
(* cognition that has been replaced never takes Evidence again.            *)
DecisionsAreExact ==
  [][/\ \A c \in Cogs : Superseded(c) => sources'[c] = sources[c]
     /\ graph' # graph =>
          \E i \in Reviews :
            /\ proposals[i].status = "pending" /\ proposals'[i].status = "accept"
            /\ proposals[i].base = revision
            /\ things' \subseteq things \cup proposals[i].change.new]_vars

(* A decision receipt can be read at any later time: an accepted review    *)
(* made the revision after the one it was prepared for, no receipt is      *)
(* ahead of the World, and one of today's revision shows today's graph     *)
(* (decision_receipt raises otherwise).                                    *)
ReceiptsHold ==
  \A i \in With("accept") \cup With("reject") :
    LET p == proposals[i] IN
    /\ p.status = "accept" => p.receipt.revision = p.base + 1
    /\ p.receipt.revision <= revision
    /\ p.receipt.revision = revision => p.receipt.graph = graph

(* What the owner saw as the Evidence of an accepted change is what the    *)
(* ledger keeps, whatever was staged under the same Evidence id.           *)
ShownIsStored ==
  \A i \in With("accept") :
    ledger[proposals[i].change.ev] = proposals[i].change.text

(* The record of what was decided stands: accepted steps can be read,      *)
(* histories are lines, and receipts and the ledger tell what happened.    *)
RecordStands == AcceptedReadable /\ HistoryIsALine /\ ReceiptsHold /\ ShownIsStored

(* Nothing dangles: records are about stored records, rest on stored       *)
(* Evidence, and transitions join stored cognitions; a claim that was      *)
(* applied is in the World with every claim it depends on.                 *)
NothingDangles ==
  /\ \A t \in things : Refers[t] \subseteq things
  /\ \A c \in Cogs :
       /\ c \in things \ Initial => sources[c] # {}
       /\ c \notin things => sources[c] = {}
       /\ \A s \in sources[c] : ledger[s[1]] # NoText
  /\ \A e \in edges : e.prior \in things /\ e.succ \in things

ClaimsStandTogether ==
  \A i \in With("accept") :
    LET d == proposals[i].change IN
    \A n \in d.needs :
      n[1] \in proposals[i].applied =>
        n[2] \in proposals[i].applied /\ d.claims[n[2]].new \subseteq things

(* The graph, the ledger and the transitions are one whole. *)
WellFormed == TypeOK /\ NothingDangles /\ ClaimsStandTogether

(* What the owner was shown of a signed change is what is written: the     *)
(* World the words were read in is the World that changes, the cognition   *)
(* shown changes and no other, from what was shown before to what was      *)
(* shown after, about the object shown; and an object that was only        *)
(* pointed at is the one object this conversation has spoken of.           *)
ShownIsWritten ==
  [][\A i \in Reviews : proposals[i].status = "pending" /\ proposals'[i].status = "accept" =>
       \A s \in proposals[i].change.shown :
         /\ s.base = graph /\ s.relation # "corrects" => s.preview = graph'
         /\ {c \in Cogs : sources'[c] # sources[c]} = {s.after[1]}
         /\ s.before[2] = sources[s.before[1]] /\ s.after[2] = sources'[s.after[1]]
         /\ Refers[s.after[1]] = {s.target}
         /\ s.named = "reference" => SpokenOf(World, s.session) = {s.target}]_vars

(* The compiler and the contract agree, though they are written apart:     *)
(* the change the compiler makes of a turn with one claim, or of a         *)
(* correction, is one the loop takes.                                      *)
CompilerKeepsContract ==
  CanStage =>
    LET g == World  turns == Turns(g) IN
    \A e \in Evs, x \in Texts, t \in turns : ledger[e] \in {NoText, x} =>
      /\ Len(t) = 1 => \A d \in CompileTurn(t, g, e, x) : Fits(d) /\ SignedCurrent(d)
      /\ \A p \in Catalog(g) :
           \A d \in CompileCorrection(p, t, g, e, x) : Fits(d) /\ SignedCurrent(d)

(* The World changes only by an accepted review, and to what was shown. *)
AcceptanceIsExact == DecisionsAreExact /\ ShownIsWritten
=============================================================================
