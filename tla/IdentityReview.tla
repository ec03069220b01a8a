----------------------------- MODULE IdentityReview -----------------------------
(***************************************************************************)
(* Reviewed identity: which mention means which entity, two entities that  *)
(* are one, one entity that is two.  A ledger of reviews, bindings,        *)
(* redirects and tombstones stands beside the graph in one row of the same *)
(* database.  Each process works on a copy of it and writes it back by     *)
(* compare-and-swap; an accepted World change rewrites it too.             *)
(*                                                                         *)
(* A graph hash is modelled as the graph, a sealed review as its change    *)
(* (its preview is a function of change, graph and ledger).  Spans, texts  *)
(* and the encoding of the checkpoint are left out.                        *)
(***************************************************************************)
EXTENDS EntityReference, Sequences, FiniteSetsExt, SequencesExt

CONSTANTS Mentions, When, Near,      \* verified mentions, their times, same conversation
          Told,                      \* the words of a mention that is reviewed
          Asked, Words,              \* the mentions looked up, in any of these words (bound)
          Aliases,                   \* the names a review may give (bound)
          Hosts,                     \* processes with an open authority
          NoContext,
          Born,                      \* the entities of a new database
          Named,                     \* what its records name
          Brought,                   \* the records that World changes bring
          MaxReviews, MaxPending,    \* bounds: reviews, and those waiting at once
          MaxSupport,                \* bound: mentions one review names for an entity
          MaxLag,                    \* bound: writes a process has missed when one is made
          Dates,                     \* bound: when reviews are decided
          MaxTime, MaxWorld          \* bounds: times, revisions before the last Accept

ASSUME EntityAssumption ==
  Owner \in Born /\ Born \subseteq Ents /\ Nobody \notin Ents /\ IsFiniteSet(Ents)
ASSUME NameAssumption == Aliases \subseteq Names /\ Words \subseteq Word
ASSUME TimeAssumption ==
  /\ MaxTime \in Nat /\ When \in [Mentions -> 1 .. MaxTime] /\ Dates \subseteq 1 .. MaxTime
ASSUME NearAssumption == Near \subseteq Mentions \X Mentions

VARIABLES world,    \* memory_state: its revision and graph
          row,      \* identity_state
          held,     \* the copy of the row each process works on
          context   \* the resolution context each process has handed out

vars == <<world, row, held, context>>

(* Relationships, events and cognitions name entities at places; a record  *)
(* that is not stored names nobody.                                        *)
Graph == [ents: SUBSET Ents, refs: [Slots -> Ents \cup {Nobody}],
          labels: [Ents -> SUBSET Names]]
Binding == [atom: Mentions, accepted: Ents, now: Ents \cup {Nobody}, review: Nat]
Redirect == [from: Ents, to: Ents, review: Nat]
Tombstone == [id: Ents, succs: SUBSET Ents, review: Nat]

NewGraph == [ents |-> Born, refs |-> Named, labels |-> [e \in Ents |-> {}]]
NewLedger == [revision |-> 0, reviews |-> <<>>, bindings |-> {}, redirects |-> {}, tombs |-> {}]
NewRow == [gen |-> 1, rev |-> 0, graph |-> NewGraph, led |-> NewLedger]

Init ==
  /\ world = [rev |-> 0, graph |-> NewGraph]
  /\ row = NewRow
  /\ held = [h \in Hosts |-> NewRow]
  /\ context = [h \in Hosts |-> NoContext]

-----------------------------------------------------------------------------
(* The graph and the ledger.                                               *)
Reviews(led) == DOMAIN led.reviews
In(led, status) == {i \in Reviews(led) : led.reviews[i].status = status}
Active(led, e) == {b \in led.bindings : b.now = e}
Retired(led) == {t.id : t \in led.tombs} \cup {r.from : r \in led.redirects}

Locators(g, e) == {s \in Slots : g.refs[s] = e}

(* No record names one entity at two places: no relationship loops, no two *)
(* participants or holders are one.  Only merges and splits are refused    *)
(* for it, whichever record it is; a World change may bring such a record. *)
Distinct(g) ==
  \A o \in Objs, p, q \in Places :
    p # q /\ g.refs[<<o, p>>] # Nobody => g.refs[<<o, p>>] # g.refs[<<o, q>>]
ASSUME BirthAssumption == NewGraph \in Graph /\ ShapeFits(NewGraph)

(* The changes a review may ask for.                                       *)
Bind(e, m) == [op |-> "bind", to |-> e, ms |-> {m}]
Alias(e, n, ms) == [op |-> "alias", to |-> e, ms |-> ms, name |-> n]
Merge(e, from, ms) == [op |-> "merge", to |-> e, from |-> from, ms |-> ms]
Split(e, support, moves, assign) ==
  [op |-> "split", source |-> e, support |-> support, moves |-> moves, assign |-> assign]

(* What the change says of mentions: each becomes a binding.               *)
Additions(d) ==
  IF d.op = "split" THEN UNION {{<<m, e>> : m \in d.support[e]} : e \in DOMAIN d.support}
  ELSE {<<m, d.to>> : m \in d.ms}

(* Where a binding leads after the change. *)
Moved(d, b) ==
  IF d.op = "merge" /\ b.now \in d.from THEN d.to
  ELSE IF d.op = "split" /\ b.now = d.source THEN d.assign[b]
  ELSE b.now

(* A mention never means two entities at once. *)
OneTarget(led, d) ==
  LET targets(m) == ({Moved(d, b) : b \in {x \in led.bindings : x.atom = m}}
                       \cup {a[2] : a \in {x \in Additions(d) : x[1] = m}}) \ {Nobody}
  IN \A m \in Mentions : Cardinality(targets(m)) <= 1

(* Mutant of SplitFits: a merge is undone through the survivor, an id of   *)
(* the past is given again, and references may stay behind.                *)
SplitAnything(g, led, d) ==
  /\ d.source \in g.ents \ {Owner} /\ Cardinality(DOMAIN d.support) >= 2
  /\ \A e \in DOMAIN d.support : e \notin g.ents /\ d.support[e] # {}
  /\ DOMAIN d.moves = Locators(g, d.source) /\ DOMAIN d.assign = Active(led, d.source)

(* A split gives every reference and every binding of its source a new     *)
(* home; its source is no survivor of a merge, its successors are new and  *)
(* named by a mention that speaks of them.                                 *)
SplitFits(g, led, d) ==
  /\ d.source \in g.ents \ {Owner}
  /\ ~\E r \in led.redirects : r.to = d.source
  /\ Cardinality(DOMAIN d.support) >= 2
  /\ \A e \in DOMAIN d.support :
       /\ e \notin g.ents \cup Retired(led) /\ Kind[e] = Kind[d.source]
       /\ \E m \in d.support[e] : Told[m].name = Called[e]
  /\ DOMAIN d.moves = Locators(g, d.source) /\ DOMAIN d.assign = Active(led, d.source)

DeltaFits(g, d) ==
  CASE d.op = "bind" -> d.to \in g.ents
    [] d.op = "alias" ->
         /\ d.to \in g.ents /\ \A e \in g.ents : d.name \notin Labels(g, e)
         /\ \E m \in d.ms : Told[m].name = d.name
    [] d.op = "merge" ->
         /\ d.to \in g.ents /\ d.from # {} /\ d.from \subseteq g.ents \ {Owner, d.to}
         /\ d.ms # {} /\ \A e \in d.from : Kind[e] = Kind[d.to]
    [] d.op = "split" -> TRUE

Fits(g, led, d) ==
  /\ DeltaFits(g, d)
  /\ d.op = "split" => SplitFits(g, led, d)
  /\ OneTarget(led, d)

-----------------------------------------------------------------------------
(* What an accepted change makes of graph and ledger.                      *)
Rewritten(g, d) ==
  [s \in Slots |->
     IF d.op = "merge" /\ g.refs[s] \in d.from THEN d.to
     ELSE IF d.op = "split" /\ s \in DOMAIN d.moves THEN d.moves[s]
     ELSE g.refs[s]]

GraphAfter(g, d) ==
  CASE d.op = "bind" -> g
    [] d.op = "alias" -> [g EXCEPT !.labels[d.to] = @ \cup {d.name}]
    [] d.op = "merge" -> [g EXCEPT !.ents = @ \ d.from, !.refs = Rewritten(g, d)]
    [] d.op = "split" -> [g EXCEPT !.ents = (@ \ {d.source}) \cup DOMAIN d.support,
                                   !.refs = Rewritten(g, d)]
PreviewFits(g, d) ==
  /\ ShapeFits(GraphAfter(g, d))
  /\ d.op \in {"merge", "split"} => Distinct(GraphAfter(g, d))

(* A mention that already leads to the entity is not bound again. *)
BindingsAfter(led, d, i) ==
  LET moved == {[b EXCEPT !.now = Moved(d, b)] : b \in led.bindings}
  IN moved \cup {[atom |-> a[1], accepted |-> a[2], now |-> a[2], review |-> i] :
                 a \in {x \in Additions(d) : ~\E b \in moved : b.atom = x[1] /\ b.now = x[2]}}

RedirectsAfter(led, d, i) ==
  IF d.op # "merge" THEN led.redirects
  ELSE {IF r.to \in d.from THEN [r EXCEPT !.to = d.to] ELSE r : r \in led.redirects}
         \cup {[from |-> e, to |-> d.to, review |-> i] : e \in d.from}

TombsAfter(led, d, i) ==
  led.tombs \cup
    CASE d.op = "merge" -> {[id |-> e, succs |-> {d.to}, review |-> i] : e \in d.from}
      [] d.op = "split" -> {[id |-> d.source, succs |-> DOMAIN d.support, review |-> i]}
      [] OTHER -> {}

LedgerAfter(led, d, i, t) ==
  [revision |-> led.revision + 1,
   reviews |-> [led.reviews EXCEPT ![i].status = "accepted", ![i].at = t,
                                   ![i].made = led.revision + 1],
   bindings |-> BindingsAfter(led, d, i),
   redirects |-> RedirectsAfter(led, d, i),
   tombs |-> TombsAfter(led, d, i)]

Staged(g, led, d) ==
  [led EXCEPT !.reviews = Append(@, [change |-> d, base |-> led.revision, graph |-> g,
                                     status |-> "pending", at |-> 0, made |-> 0])]

FreshBase(g, led, p) == p.base = led.revision /\ p.graph = g

(* A review is decided no earlier than what its change was read in. *)
Done(led) == Reviews(led) \ In(led, "pending")
Read(d, t) == \A a \in Additions(d) : When[a[1]] <= t

(* What must hold of a stored row so that it can be loaded again.          *)
ReviewsFit(led) ==
  /\ led.revision = Cardinality(In(led, "accepted"))
  /\ {led.reviews[i].made : i \in In(led, "accepted")} = 1 .. led.revision
EnvelopesFit(led) ==
  \A i \in Reviews(led) : LET r == led.reviews[i] IN ShapeFits(GraphAfter(r.graph, r.change))
DatesFit(led) == \A i \in Done(led) : Read(led.reviews[i].change, led.reviews[i].at)
BindingsFit(g, led) ==
  /\ \A b \in led.bindings : b.review \in In(led, "accepted") /\ b.now \in g.ents \cup {Nobody}
  /\ \A b, c \in led.bindings : b.atom = c.atom /\ b.now # c.now => Nobody \in {b.now, c.now}
TombsFit(g, led) ==
  \A t \in led.tombs :
    /\ t.id \notin g.ents \cup t.succs /\ t.succs # {}
    /\ \A u \in led.tombs : u.id = t.id => u = t
RedirectsFit(g, led) ==
  \A r \in led.redirects :
    /\ r.from \notin g.ents /\ r.to \in g.ents
    /\ \E t \in led.tombs : t.id = r.from
    /\ \A q \in led.redirects : q.from = r.from => q = r
PendingFit(g, led) ==
  \A i \in In(led, "pending") :
    FreshBase(g, led, led.reviews[i]) => Fits(g, led, led.reviews[i].change)
LedgerType(led) ==
  /\ led.bindings \subseteq Binding /\ led.redirects \subseteq Redirect
  /\ led.tombs \subseteq Tombstone /\ led.revision \in Nat

Restorable(g, led) ==
  /\ LedgerType(led)
  /\ ReviewsFit(led) /\ EnvelopesFit(led) /\ DatesFit(led) /\ BindingsFit(g, led)
  /\ TombsFit(g, led) /\ RedirectsFit(g, led) /\ PendingFit(g, led)

(* The row is of the World as it is: anything else is refused on loading.  *)
Loads == row.rev = world.rev /\ row.graph = world.graph

-----------------------------------------------------------------------------
(* A process: read the row, work on a copy, compare and swap.              *)
(* Mutant of Visible: a binding that a split left without an entity, too. *)
VisibleUnbound(led, m) == {b \in led.bindings : /\ <<b.atom, m>> \in Near /\ When[b.atom] < When[m]
                                                /\ led.reviews[b.review].at < When[m]}

Visible(led, m) == {b \in led.bindings : /\ b.now # Nobody /\ <<b.atom, m>> \in Near
                                         /\ When[b.atom] < When[m]
                                         /\ led.reviews[b.review].at < When[m]}

Changed(a, b) ==
  \/ a.led.revision # b.led.revision
  \/ a.graph # b.graph
  \/ a.led.bindings # b.led.bindings

Retire(h, new) ==
  context' = [context EXCEPT ![h] = IF Changed(held[h], new) THEN NoContext ELSE @]

Refresh(h) ==
  /\ held[h] # row
  /\ Loads
  /\ held' = [held EXCEPT ![h] = row]
  /\ Retire(h, row)
  /\ UNCHANGED <<world, row>>

(* Mutant of Swap: the copy is written over whatever is stored. *)
Overwrite(h) == world.graph = held[h].graph

Swap(h) == row.gen = held[h].gen /\ world.rev = held[h].rev /\ world.graph = held[h].graph

(* The graph is written with its ledger, under one more World revision. *)
Commit(h, g, led) ==
  LET rev == IF g # held[h].graph THEN world.rev + 1 ELSE world.rev
      new == [gen |-> held[h].gen + 1, rev |-> rev, graph |-> g, led |-> led]
  IN /\ Swap(h) /\ \A k \in Hosts \ {h} : row.gen - held[k].gen < MaxLag
     /\ world' = [rev |-> rev, graph |-> g]
     /\ row' = new
     /\ held' = [held EXCEPT ![h] = new]
     /\ Retire(h, new)

Stage(h, d) ==
  LET g == held[h].graph
      led == held[h].led
  IN /\ Len(led.reviews) < MaxReviews /\ Cardinality(In(led, "pending")) < MaxPending
     /\ Fits(g, led, d) /\ PreviewFits(g, d)
     /\ Commit(h, g, Staged(g, led, d))

Supports == {ms \in SUBSET (Mentions \ Asked) : Cardinality(ms) \in 1 .. MaxSupport}

StageBind(h) == \E e \in held[h].graph.ents, m \in Mentions \ Asked : Stage(h, Bind(e, m))

StageAlias(h) ==
  \E e \in held[h].graph.ents, n \in Aliases, ms \in Supports : Stage(h, Alias(e, n, ms))

StageMerge(h) ==
  \E e \in held[h].graph.ents, from \in SUBSET held[h].graph.ents, ms \in Supports :
    Stage(h, Merge(e, from, ms))

StageSplit(h) ==
  LET g == held[h].graph
      led == held[h].led
  IN \E e \in g.ents, succs \in SUBSET (Ents \ g.ents) :
       \E support \in [succs -> Supports],
          moves \in [Locators(g, e) -> succs],
          assign \in [Active(led, e) -> succs \cup {Nobody}] :
         Stage(h, Split(e, support, moves, assign))

(* Nor is it decided before an earlier decision. *)
InTime(led, d, t) == Read(d, t) /\ \A i \in Done(led) : led.reviews[i].at <= t

Decide(h, i, t) ==
  LET g == held[h].graph
      led == held[h].led
      p == led.reviews[i]
  IN /\ i \in In(led, "pending")
     /\ InTime(led, p.change, t)
     /\ FreshBase(g, led, p)
     /\ Fits(g, led, p.change) /\ PreviewFits(g, p.change)
     /\ Commit(h, GraphAfter(g, p.change), LedgerAfter(led, p.change, i, t))

Reject(h, i, t) ==
  LET led == held[h].led IN
  /\ i \in In(led, "pending")
  /\ InTime(led, led.reviews[i].change, t)
  /\ Commit(h, held[h].graph,
            [led EXCEPT !.reviews[i].status = "rejected", !.reviews[i].at = t])

(* The accepted mentions as the resolver is given them. *)
Spoken(seen) == {[entity |-> b.now, at |-> When[b.atom], word |-> Told[b.atom]] : b \in seen}

(* A context for a mention later than every accepted decision. *)
Resolve(h, m) ==
  LET led == held[h].led IN
  /\ \A i \in In(led, "accepted") : led.reviews[i].at < When[m]
  /\ context' = [context EXCEPT ![h] = [mention |-> m, graph |-> held[h].graph,
                                        revision |-> led.revision, seen |-> Visible(led, m)]]
  /\ UNCHANGED <<world, row, held>>

-----------------------------------------------------------------------------
(* MemoryLoop accepts a World change in its own transaction: new entities  *)
(* and records, the ledger put onto the new graph, and the mentions the    *)
(* review named bound to their entities.                                   *)
Grown(g, o, record) ==
  [g EXCEPT !.ents = @ \cup (Ents \cap {record[p] : p \in Places}),
            !.refs = [s \in Slots |-> IF s[1] = o THEN record[s[2]] ELSE @[s]]]

BoundIn(g, led, e, m, t) ==
  LET d == Bind(e, m) IN LedgerAfter(Staged(g, led, d), d, Len(led.reviews) + 1, t)

(* Bindings of an accepted World change are dated after everything else.  *)
Later(led, m, t) == When[m] < t /\ \A i \in Done(led) : led.reviews[i].at < t

Sync(g, led, gen) == row' = [gen |-> gen, rev |-> world.rev + 1, graph |-> g, led |-> led]

Accept ==
  \E o \in Objs, record \in Brought :
      LET g == Grown(world.graph, o, record) IN
      /\ world.rev < MaxWorld
      /\ \A p \in Places : world.graph.refs[<<o, p>>] = Nobody
      /\ ShapeFits(g)
      /\ Loads
      /\ Restorable(g, row.led)
      /\ world' = [rev |-> world.rev + 1, graph |-> g]
      /\ \/ Sync(g, row.led, row.gen + 1)
         \/ \E e \in Ents \cap {record[p] : p \in Places}, m \in Mentions \ Asked :
              \E t \in 1 .. MaxTime :
                /\ Later(row.led, m, t) /\ Len(row.led.reviews) < MaxReviews
                /\ Fits(g, row.led, Bind(e, m))
                /\ Sync(g, BoundIn(g, row.led, e, m, t), row.gen + 2)
      /\ UNCHANGED <<held, context>>

Next ==
  \/ \E h \in Hosts :
       \/ Refresh(h)
       \/ StageBind(h) \/ StageAlias(h) \/ StageMerge(h) \/ StageSplit(h)
       \/ \E i \in 1 .. MaxReviews, t \in Dates : Decide(h, i, t) \/ Reject(h, i, t)
       \/ \E m \in Asked : Resolve(h, m)
  \/ Accept

Spec == Init /\ [][Next]_vars

-----------------------------------------------------------------------------
(* Properties.                                                             *)

TypeOK ==
  /\ world.graph \in Graph /\ row.graph \in Graph
  /\ LedgerType(row.led) /\ \A h \in Hosts : LedgerType(held[h].led)

(* A retired name leads to one living entity: what a merge absorbed is     *)
(* redirected to where its mentions lead now, over merges of merges.       *)
OldNamesLead ==
  \A r \in row.led.redirects :
    /\ r.to \in world.graph.ents
    /\ \A b \in row.led.bindings : b.accepted = r.from /\ b.now # Nobody => b.now = r.to

(* Every stored row can be loaded again: a row that cannot fails every     *)
(* later call of every process and every acceptance of a World change      *)
(* (_decode_row raises).  It is in step with the World, and every name in  *)
(* its graph is of someone in it.                                          *)
EveryRowLoads ==
  /\ TypeOK
  /\ Loads
  /\ ShapeFits(world.graph)
  /\ Restorable(world.graph, row.led)
  /\ OldNamesLead

(* Nothing that was decided or retired is undone or lost, whichever        *)
(* process writes: decisions stay as they are, tombstones and redirects    *)
(* only grow in number, every binding stays, and an acceptance makes of    *)
(* the World exactly what its review showed.                               *)
Grows(a, b) ==
  /\ \A i \in Reviews(a) :
       /\ i \in Reviews(b) /\ b.reviews[i].change = a.reviews[i].change
       /\ a.reviews[i].status # "pending" => b.reviews[i] = a.reviews[i]
       /\ a.reviews[i].status = "pending" /\ b.reviews[i].status = "accepted" =>
            /\ world.graph = a.reviews[i].graph
            /\ world'.graph = GraphAfter(a.reviews[i].graph, a.reviews[i].change)
  /\ a.tombs \subseteq b.tombs
  /\ {r.from : r \in a.redirects} \subseteq {r.from : r \in b.redirects}
  /\ \A x \in a.bindings : \E y \in b.bindings : x = [y EXCEPT !.now = x.now]
  /\ a.revision <= b.revision
LedgerGrows == [][Grows(row.led, row'.led) /\ row.gen <= row'.gen]_vars

(* A context that a process still honours is what its copy says: no        *)
(* binding has moved, none is younger than the mention it is to explain.   *)
ContextsHold ==
  \A h \in Hosts : context[h] # NoContext =>
    LET c == context[h] IN
    /\ c.seen = Visible(held[h].led, c.mention)
    /\ c.graph = held[h].graph /\ c.revision = held[h].led.revision
    /\ \A b \in c.seen : b.now \in c.graph.ents
    /\ \A b \in held[h].led.bindings : held[h].led.reviews[b.review].at < When[c.mention]

(* Who an entity of the past is today, over merges and splits. *)
Heirs(led, e) ==
  {f \in Ents : \A s \in SUBSET Ents :
     e \in s /\ (\A t \in led.tombs : t.id \in s => t.succs \subseteq s) => f \in s}

(* What a context that is honoured says of any words is never refused, and *)
(* it means someone who lives: a pronoun one whom an accepted mention      *)
(* meant, as merges and splits have moved it since, and none that was      *)
(* spoken of later; a name one whom nobody else shares it with.            *)
MeaningFollows ==
  \A h \in Hosts : context[h] # NoContext =>
    LET c == context[h]
        led == held[h].led IN
    \A w \in Words :
      LET r == Meaning(c.graph, Spoken(c.seen), w, When[c.mention]) IN
      /\ r.state # "refused"
      /\ r.state = "resolved" =>
           /\ r.entity \in c.graph.ents \ Retired(led)
           /\ w.form = "pronoun" =>
                \E b \in c.seen :
                  /\ r.entity \in Heirs(led, b.accepted)
                  /\ \A d \in c.seen : When[d.atom] > When[b.atom] => d.now = r.entity
           /\ w.form # "pronoun" =>
                \A e \in c.graph.ents : w.name \in Labels(c.graph, e) => e = r.entity

(* A context that is honoured is true of the ledger, and of any words. *)
ContextsMean == ContextsHold /\ MeaningFollows
=============================================================================
