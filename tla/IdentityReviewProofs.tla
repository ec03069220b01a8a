------------------------ MODULE IdentityReviewProofs ------------------------
(***************************************************************************)
(* Theorems about IdentityReview: whatever processes write to the identity *)
(* row, it loads again, loses nothing, and a context that is honoured is   *)
(* true.  For any entities, mentions and processes, and any bounds.        *)
(*                                                                         *)
(* Everything follows from one fact about a graph and its ledger (Sound),  *)
(* which each change keeps, and from one about time: what a process holds  *)
(* is an earlier row, and the present one if the generations agree         *)
(* (Earlier), so that a write that passes the compare-and-swap changes the *)
(* row and not a copy of its past.                                         *)
(***************************************************************************)
EXTENDS IdentityReview, FiniteSetTheorems, TLAPS

-----------------------------------------------------------------------------
(* What a change, a review and a ledger consist of.                        *)
Partial(S, T) == UNION {[R -> T] : R \in SUBSET S}
Splits == [op: {"split"}, source: Ents, support: Partial(Ents, SUBSET Mentions),
           moves: Partial(Slots, Ents), assign: Partial(Binding, Ents \cup {Nobody})]
Change ==
  [op: {"bind"}, to: Ents, ms: SUBSET Mentions]
    \cup [op: {"alias"}, to: Ents, ms: SUBSET Mentions, name: Names]
    \cup [op: {"merge"}, to: Ents, from: SUBSET Ents, ms: SUBSET Mentions]
    \cup Splits

(* A split moves what it moves to its own successors. *)
Closed(d) ==
  d.op = "split" =>
    /\ \A s \in DOMAIN d.moves : d.moves[s] \in DOMAIN d.support
    /\ \A b \in DOMAIN d.assign : d.assign[b] \in DOMAIN d.support \cup {Nobody}

Review == [change: Change, base: Nat, graph: Graph,
           status: {"pending", "accepted", "rejected"}, at: Int, made: Nat]
Ledger == [revision: Nat, reviews: Seq(Review), bindings: SUBSET Binding,
           redirects: SUBSET Redirect, tombs: SUBSET Tombstone]
Row == [gen: Nat, rev: Nat, graph: Graph, led: Ledger]

(* A pending review that is still fresh fits what it was staged against. *)
Prepared(led) ==
  \A i \in Reviews(led) : LET r == led.reviews[i] IN
    /\ Closed(r.change)
    /\ r.status = "pending" =>
         r.base <= led.revision /\ (r.base = led.revision => Fits(r.graph, led, r.change))

(* What was accepted of an entity that lives is still said of it; one that *)
(* does not live was retired.                                              *)
Kept(g, led) ==
  \A b \in led.bindings :
    /\ b.accepted \in g.ents => b.now = b.accepted
    /\ b.accepted \notin g.ents => b.accepted \in {t.id : t \in led.tombs}

Followed(led) == \A b \in led.bindings : b.now # Nobody => b.now \in Heirs(led, b.accepted)

Led(g, led) ==
  \A r \in led.redirects :
    /\ r.to \in g.ents
    /\ \A b \in led.bindings : b.accepted = r.from /\ b.now # Nobody => b.now = r.to

Sound(g, led) ==
  /\ g \in Graph /\ led \in Ledger /\ ShapeFits(g)
  /\ ReviewsFit(led) /\ EnvelopesFit(led) /\ DatesFit(led) /\ BindingsFit(g, led)
  /\ TombsFit(g, led) /\ RedirectsFit(g, led)
  /\ Prepared(led) /\ Kept(g, led) /\ Followed(led) /\ Led(g, led)

(* What a ledger has decided, a later one has decided. *)
Decided(a, b) ==
  /\ a.revision <= b.revision
  /\ \A i \in Reviews(a) :
       i \in Reviews(b) /\ (a.reviews[i].status # "pending" => b.reviews[i] = a.reviews[i])

Earlier(a, b) ==
  /\ a.gen <= b.gen /\ Decided(a.led, b.led)
  /\ a.gen = b.gen => a = b

RowInv ==
  /\ row \in Row /\ Sound(row.graph, row.led)
  /\ world = [rev |-> row.rev, graph |-> row.graph]
  /\ held \in [Hosts -> Row]
  /\ \A h \in Hosts : Sound(held[h].graph, held[h].led) /\ Earlier(held[h], row)

-----------------------------------------------------------------------------
(* The kinds of changes.                                                   *)
LEMMA Kinds ==
  ASSUME NEW d \in Change
  PROVE  /\ d.op \in {"bind", "alias", "merge", "split"}
         /\ d.op # "split" => d.to \in Ents /\ d.ms \in SUBSET Mentions
         /\ d.op = "alias" => d.name \in Names
         /\ d.op = "merge" => d.from \in SUBSET Ents
         /\ d.op = "split" =>
              /\ d.source \in Ents
              /\ d.support \in [DOMAIN d.support -> SUBSET Mentions] /\ DOMAIN d.support \subseteq Ents
              /\ d.moves \in [DOMAIN d.moves -> Ents] /\ DOMAIN d.moves \subseteq Slots
              /\ d.assign \in [DOMAIN d.assign -> Ents \cup {Nobody}]
              /\ DOMAIN d.assign \subseteq Binding
<1>1. CASE d \in Splits
  <2>1. d.op = "split" /\ d.source \in Ents
    BY <1>1 DEF Splits
  <2>2. /\ d.support \in Partial(Ents, SUBSET Mentions) /\ d.moves \in Partial(Slots, Ents)
        /\ d.assign \in Partial(Binding, Ents \cup {Nobody})
    BY <1>1 DEF Splits
  <2>3. ASSUME NEW S, NEW T, NEW f \in Partial(S, T)
        PROVE  f \in [DOMAIN f -> T] /\ DOMAIN f \subseteq S
    BY <2>3 DEF Partial
  <2>4. QED
    BY <2>1, <2>2, <2>3
<1>2. QED
  BY <1>1 DEF Change

LEMMA AdditionsType ==
  ASSUME NEW d \in Change PROVE Additions(d) \subseteq Mentions \X Ents
<1>1. CASE d.op = "split"
  <2>1. \A e \in DOMAIN d.support : e \in Ents /\ d.support[e] \subseteq Mentions
    BY <1>1, Kinds
  <2>2. QED
    BY <1>1, <2>1 DEF Additions
<1>2. CASE d.op # "split"
  BY <1>2, Kinds DEF Additions
<1>3. QED
  BY <1>1, <1>2

LEMMA AdditionsTo ==
  ASSUME NEW d \in Change, NEW a \in Additions(d)
  PROVE  IF d.op = "split" THEN a[2] \in DOMAIN d.support ELSE a[2] = d.to
BY DEF Additions

(* What a change makes of the graph, kind by kind. *)
LEMMA GraphAfterIs ==
  ASSUME NEW d \in Change, NEW g \in Graph
  PROVE  /\ d.op = "bind" => GraphAfter(g, d) = g
         /\ d.op = "alias" => GraphAfter(g, d) = [g EXCEPT !.labels[d.to] = @ \cup {d.name}]
         /\ d.op = "merge" =>
              GraphAfter(g, d) = [g EXCEPT !.ents = @ \ d.from, !.refs = Rewritten(g, d)]
         /\ d.op = "split" =>
              GraphAfter(g, d) = [g EXCEPT !.ents = (@ \ {d.source}) \cup DOMAIN d.support,
                                           !.refs = Rewritten(g, d)]
BY DEF GraphAfter

LEMMA GraphWith ==
  ASSUME NEW g \in Graph, NEW E \in SUBSET Ents, NEW R \in [Slots -> Ents \cup {Nobody}]
  PROVE  /\ [g EXCEPT !.ents = E, !.refs = R] \in Graph
         /\ [g EXCEPT !.ents = E, !.refs = R].ents = E
BY DEF Graph

LEMMA GraphNamed ==
  ASSUME NEW g \in Graph, NEW e \in Ents, NEW n \in Names
  PROVE  /\ [g EXCEPT !.labels[e] = @ \cup {n}] \in Graph
         /\ [g EXCEPT !.labels[e] = @ \cup {n}].ents = g.ents
<1>1. [g.labels EXCEPT ![e] = @ \cup {n}] \in [Ents -> SUBSET Names]
  BY DEF Graph
<1>2. \A L \in [Ents -> SUBSET Names] :
        [g EXCEPT !.labels = L] \in Graph /\ [g EXCEPT !.labels = L].ents = g.ents
  BY DEF Graph
<1>3. [g EXCEPT !.labels[e] = @ \cup {n}] = [g EXCEPT !.labels = [g.labels EXCEPT ![e] = @ \cup {n}]]
  BY DEF Graph
<1>4. QED
  BY <1>1, <1>2, <1>3

LEMMA RewrittenType ==
  ASSUME NEW d \in Change, NEW g \in Graph PROVE Rewritten(g, d) \in [Slots -> Ents \cup {Nobody}]
<1>1. ASSUME NEW s \in Slots PROVE g.refs[s] \in Ents \cup {Nobody}
  BY DEF Graph
<1>2. ASSUME NEW s \in Slots, d.op = "split", s \in DOMAIN d.moves PROVE d.moves[s] \in Ents
  BY <1>2, Kinds
<1>3. d.op = "merge" => d.to \in Ents
  BY Kinds
<1>4. QED
  BY <1>1, <1>2, <1>3 DEF Rewritten

LEMMA GraphAfterType ==
  ASSUME NEW d \in Change, NEW g \in Graph
  PROVE  /\ GraphAfter(g, d) \in Graph
         /\ GraphAfter(g, d).ents =
              IF d.op = "merge" THEN g.ents \ d.from
              ELSE IF d.op = "split" THEN (g.ents \ {d.source}) \cup DOMAIN d.support
              ELSE g.ents
<1>1. Rewritten(g, d) \in [Slots -> Ents \cup {Nobody}] /\ g.ents \in SUBSET Ents
  BY RewrittenType DEF Graph
<1>2. CASE d.op = "bind"
  BY <1>2, GraphAfterIs
<1>3. CASE d.op = "alias"
  <2> DEFINE h == [g EXCEPT !.labels[d.to] = @ \cup {d.name}]
  <2>1. h \in Graph /\ h.ents = g.ents
    BY <1>3, Kinds, GraphNamed
  <2>2. GraphAfter(g, d) = h
    BY <1>3, GraphAfterIs
  <2> HIDE DEF h
  <2>3. QED
    BY <1>3, <2>1, <2>2
<1>4. CASE d.op = "merge"
  <2> DEFINE E == g.ents \ d.from
             h == [g EXCEPT !.ents = E, !.refs = Rewritten(g, d)]
  <2>1. E \in SUBSET Ents
    BY <1>1
  <2>2. h \in Graph /\ h.ents = E
    BY <1>1, <2>1, GraphWith
  <2>3. GraphAfter(g, d) = h
    BY <1>4, GraphAfterIs
  <2> HIDE DEF h
  <2>4. QED
    BY <1>4, <2>2, <2>3
<1>5. CASE d.op = "split"
  <2> DEFINE E == (g.ents \ {d.source}) \cup DOMAIN d.support
             h == [g EXCEPT !.ents = E, !.refs = Rewritten(g, d)]
  <2>1. E \in SUBSET Ents
    BY <1>1, <1>5, Kinds
  <2>2. h \in Graph /\ h.ents = E
    BY <1>1, <2>1, GraphWith
  <2>3. GraphAfter(g, d) = h
    BY <1>5, GraphAfterIs
  <2> HIDE DEF h
  <2>4. QED
    BY <1>5, <2>2, <2>3
<1>6. QED
  BY <1>2, <1>3, <1>4, <1>5, Kinds

LEMMA TombsAfterIs ==
  ASSUME NEW d \in Change, NEW led, NEW i
  PROVE  TombsAfter(led, d, i) = led.tombs \cup
           (IF d.op = "merge" THEN {[id |-> e, succs |-> {d.to}, review |-> i] : e \in d.from}
            ELSE IF d.op = "split" THEN {[id |-> d.source, succs |-> DOMAIN d.support, review |-> i]}
            ELSE {})
BY Kinds DEF TombsAfter

(* What a change needs of the graph, kind by kind. *)
LEMMA FitsMean ==
  ASSUME NEW d \in Change, NEW g, NEW led, Fits(g, led, d)
  PROVE  /\ d.op # "split" => d.to \in g.ents
         /\ d.op = "merge" => d.from \subseteq g.ents \ {Owner, d.to}
         /\ d.op = "split" => SplitFits(g, led, d)
         /\ OneTarget(led, d)
BY Kinds DEF Fits, DeltaFits

-----------------------------------------------------------------------------
(* A review that is staged or rejected leaves everything decided alone.    *)
LEMMA ReviewType ==
  ASSUME NEW led \in Ledger, NEW i \in Reviews(led)
  PROVE  /\ led.reviews[i] \in Review /\ i \in Nat
         /\ led.reviews[i].change \in Change /\ led.reviews[i].graph \in Graph
         /\ led.reviews[i].base \in Nat /\ led.reviews[i].made \in Nat /\ led.reviews[i].at \in Int
         /\ led.reviews[i].status \in {"pending", "accepted", "rejected"}
<1>1. led.reviews \in Seq(Review)
  BY DEF Ledger
<1>2. led.reviews[i] \in Review /\ i \in Nat
  BY <1>1 DEF Reviews
<1>3. QED
  BY <1>2 DEF Review

LEMMA ReviewsFinite ==
  ASSUME NEW led \in Ledger, NEW status PROVE IsFiniteSet(In(led, status))
<1>1. led.reviews \in Seq(Review)
  BY DEF Ledger
<1>2. DOMAIN led.reviews = 1 .. Len(led.reviews) /\ Len(led.reviews) \in Nat
  BY <1>1
<1>3. IsFiniteSet(1 .. Len(led.reviews))
  BY <1>2, FS_Interval
<1>4. In(led, status) \in SUBSET (1 .. Len(led.reviews))
  BY <1>2 DEF In, Reviews
<1>5. QED
  BY <1>3, <1>4, FS_Subset

LEMMA StagedIs ==
  ASSUME NEW g \in Graph, NEW led \in Ledger, NEW d \in Change
  PROVE  LET new == Staged(g, led, d)
             n == Len(led.reviews) + 1 IN
         /\ new \in Ledger
         /\ new.revision = led.revision /\ new.bindings = led.bindings
         /\ new.redirects = led.redirects /\ new.tombs = led.tombs
         /\ Reviews(new) = Reviews(led) \cup {n} /\ n \notin Reviews(led) /\ n \in Nat
         /\ \A i \in Reviews(led) : new.reviews[i] = led.reviews[i]
         /\ new.reviews[n].change = d /\ new.reviews[n].graph = g
         /\ new.reviews[n].status = "pending" /\ new.reviews[n].base = led.revision
<1> DEFINE n == Len(led.reviews) + 1
           p == [change |-> d, base |-> led.revision, graph |-> g,
                 status |-> "pending", at |-> 0, made |-> 0]
           q == Append(led.reviews, p)
<1>1. led.reviews \in Seq(Review) /\ led.revision \in Nat
  BY DEF Ledger
<1>2. /\ p \in Review /\ p.change = d /\ p.graph = g /\ p.status = "pending"
      /\ p.base = led.revision
  BY <1>1 DEF Review
<1> HIDE DEF p
<1>3. /\ q \in Seq(Review) /\ q[n] = p /\ n \in Nat
      /\ DOMAIN q = DOMAIN led.reviews \cup {n} /\ n \notin DOMAIN led.reviews
      /\ \A i \in DOMAIN led.reviews : q[i] = led.reviews[i]
  BY <1>1, <1>2
<1> HIDE DEF q
<1>4. [led EXCEPT !.reviews = q] \in Ledger
  BY <1>3 DEF Ledger
<1>5. /\ [led EXCEPT !.reviews = q].reviews = q
      /\ [led EXCEPT !.reviews = q].revision = led.revision
      /\ [led EXCEPT !.reviews = q].bindings = led.bindings
      /\ [led EXCEPT !.reviews = q].redirects = led.redirects
      /\ [led EXCEPT !.reviews = q].tombs = led.tombs
  BY DEF Ledger
<1>6. Staged(g, led, d) = [led EXCEPT !.reviews = q]
  BY DEF Staged, q, p
<1> DEFINE s == Staged(g, led, d)
<1>7. s \in Ledger /\ s.reviews = q /\ s.revision = led.revision /\ s.bindings = led.bindings
      /\ s.redirects = led.redirects /\ s.tombs = led.tombs
  BY <1>4, <1>5, <1>6
<1> HIDE DEF s
<1>8. /\ Reviews(s) = Reviews(led) \cup {n} /\ n \notin Reviews(led)
      /\ \A i \in Reviews(led) : s.reviews[i] = led.reviews[i]
      /\ s.reviews[n] = p
  BY <1>3, <1>7 DEF Reviews
<1> HIDE DEF n
<1>9. QED
  BY <1>2, <1>3, <1>7, <1>8 DEF s, n

Rejected(led, i, t) == [led EXCEPT !.reviews[i].status = "rejected", !.reviews[i].at = t]

LEMMA RejectedIs ==
  ASSUME NEW led \in Ledger, NEW i \in Reviews(led), NEW t \in Int
  PROVE  LET new == Rejected(led, i, t) IN
         /\ new \in Ledger
         /\ new.revision = led.revision /\ new.bindings = led.bindings
         /\ new.redirects = led.redirects /\ new.tombs = led.tombs
         /\ Reviews(new) = Reviews(led)
         /\ \A k \in Reviews(led) \ {i} : new.reviews[k] = led.reviews[k]
         /\ new.reviews[i].status = "rejected" /\ new.reviews[i].at = t
         /\ new.reviews[i].change = led.reviews[i].change
         /\ new.reviews[i].graph = led.reviews[i].graph
<1> DEFINE r == led.reviews[i]
           x == [r EXCEPT !.status = "rejected", !.at = t]
           q == [led.reviews EXCEPT ![i] = x]
           new == Rejected(led, i, t)
<1>1. led.reviews \in Seq(Review) /\ i \in DOMAIN led.reviews
  BY DEF Ledger, Reviews
<1>2. r \in Review
  BY ReviewType
<1>3. /\ x \in Review /\ x.status = "rejected" /\ x.at = t
      /\ x.change = r.change /\ x.graph = r.graph
  BY <1>2 DEF Review
<1>4. new = [led EXCEPT !.reviews = q]
  BY <1>1, <1>2 DEF Ledger, Review, Rejected
<1> HIDE DEF x, new
<1>5. /\ q \in Seq(Review) /\ DOMAIN q = DOMAIN led.reviews /\ q[i] = x
      /\ \A k \in DOMAIN led.reviews \ {i} : q[k] = led.reviews[k]
  BY <1>1, <1>3
<1> HIDE DEF q
<1>6. new \in Ledger /\ new.reviews = q /\ new.revision = led.revision /\ new.bindings = led.bindings
      /\ new.redirects = led.redirects /\ new.tombs = led.tombs
  BY <1>4, <1>5 DEF Ledger
<1>7. Reviews(new) = Reviews(led) /\ new.reviews[i] = x
      /\ \A k \in Reviews(led) \ {i} : new.reviews[k] = led.reviews[k]
  BY <1>5, <1>6 DEF Reviews
<1>8. QED
  BY <1>3, <1>6, <1>7 DEF new

(* Two ledgers that have decided the same. *)
Agree(a, b) ==
  /\ b.revision = a.revision /\ b.bindings = a.bindings
  /\ b.redirects = a.redirects /\ b.tombs = a.tombs
  /\ In(b, "accepted") = In(a, "accepted")
  /\ \A i \in In(a, "accepted") : b.reviews[i] = a.reviews[i]

LEMMA AgreeSound ==
  ASSUME NEW g, NEW a \in Ledger, NEW b \in Ledger, Agree(a, b), Sound(g, a),
         EnvelopesFit(b), DatesFit(b), Prepared(b)
  PROVE  Sound(g, b)
<1>1. ReviewsFit(b)
  <2>1. {b.reviews[i].made : i \in In(b, "accepted")} = {a.reviews[i].made : i \in In(a, "accepted")}
    BY DEF Agree
  <2>2. QED
    BY <2>1 DEF Sound, ReviewsFit, Agree
<1>2. BindingsFit(g, b) /\ TombsFit(g, b) /\ RedirectsFit(g, b)
  BY DEF Sound, Agree, BindingsFit, TombsFit, RedirectsFit
<1>3. Kept(g, b) /\ Led(g, b)
  BY DEF Sound, Agree, Kept, Led
<1>4. Followed(b)
  BY DEF Sound, Agree, Followed, Heirs
<1>5. QED
  BY <1>1, <1>2, <1>3, <1>4 DEF Sound

LEMMA StageKeeps ==
  ASSUME NEW g, NEW led, Sound(g, led), NEW d \in Change, Closed(d),
         Fits(g, led, d), PreviewFits(g, d)
  PROVE  Sound(g, Staged(g, led, d)) /\ Agree(led, Staged(g, led, d))
<1> DEFINE new == Staged(g, led, d)
           n == Len(led.reviews) + 1
<1>1. g \in Graph /\ led \in Ledger
  BY DEF Sound
<1>2. /\ new \in Ledger
      /\ new.revision = led.revision /\ new.bindings = led.bindings
      /\ new.redirects = led.redirects /\ new.tombs = led.tombs
      /\ Reviews(new) = Reviews(led) \cup {n} /\ n \notin Reviews(led)
      /\ \A i \in Reviews(led) : new.reviews[i] = led.reviews[i]
      /\ new.reviews[n].change = d /\ new.reviews[n].graph = g
      /\ new.reviews[n].status = "pending" /\ new.reviews[n].base = led.revision
  BY <1>1, StagedIs
<1> HIDE DEF new, n
<1>3. Agree(led, new)
  <2>1. In(new, "accepted") = In(led, "accepted")
    BY <1>2 DEF In
  <2>2. QED
    BY <1>2, <2>1 DEF Agree, In
<1>4. EnvelopesFit(new) /\ DatesFit(new)
  <2>1. EnvelopesFit(new)
    BY <1>2 DEF Sound, EnvelopesFit, PreviewFits
  <2>2. Done(new) = Done(led)
    BY <1>2 DEF Done, In
  <2>3. QED
    BY <1>2, <2>1, <2>2 DEF Sound, DatesFit, Done
<1>5. Prepared(new)
  <2>1. \A r, e : Fits(r, new, e) <=> Fits(r, led, e)
    BY <1>2 DEF Fits, SplitFits, OneTarget, Retired, Active
  <2>2. led.revision \in Nat
    BY <1>1 DEF Ledger
  <2>3. QED
    BY <1>2, <2>1, <2>2 DEF Sound, Prepared
<1>6. QED
  BY <1>1, <1>2, <1>3, <1>4, <1>5, AgreeSound DEF new

LEMMA RejectKeeps ==
  ASSUME NEW g, NEW led, Sound(g, led), NEW i \in In(led, "pending"), NEW t \in Int,
         Read(led.reviews[i].change, t)
  PROVE  Sound(g, Rejected(led, i, t)) /\ Agree(led, Rejected(led, i, t))
<1> DEFINE new == Rejected(led, i, t)
           r == led.reviews[i]
<1>1. led \in Ledger /\ i \in Reviews(led) /\ led.reviews[i].status = "pending"
  BY DEF Sound, In
<1>2. /\ new \in Ledger
      /\ new.revision = led.revision /\ new.bindings = led.bindings
      /\ new.redirects = led.redirects /\ new.tombs = led.tombs
      /\ Reviews(new) = Reviews(led)
      /\ \A k \in Reviews(led) \ {i} : new.reviews[k] = led.reviews[k]
      /\ new.reviews[i].status = "rejected" /\ new.reviews[i].change = r.change
      /\ new.reviews[i].graph = r.graph /\ new.reviews[i].at = t
  BY <1>1, RejectedIs
<1>d. Read(r.change, t)
  OBVIOUS
<1> HIDE DEF new, r
<1>3. Agree(led, new)
  <2>1. In(new, "accepted") = In(led, "accepted") /\ i \notin In(led, "accepted")
    BY <1>1, <1>2 DEF In
  <2>2. QED
    BY <1>2, <2>1 DEF Agree, In
<1>4. EnvelopesFit(new) /\ DatesFit(new)
  <2>1. EnvelopesFit(new)
    BY <1>1, <1>2 DEF Sound, EnvelopesFit, r
  <2>2. \A k \in Done(new) : k = i \/ k \in Done(led)
    BY <1>2 DEF Done, In
  <2>3. QED
    BY <1>2, <1>d, <2>1, <2>2 DEF Sound, DatesFit, Done
<1>5. Prepared(new)
  <2>1. \A h, e : Fits(h, new, e) <=> Fits(h, led, e)
    BY <1>2 DEF Fits, SplitFits, OneTarget, Retired, Active
  <2>2. QED
    BY <1>1, <1>2, <2>1 DEF Sound, Prepared, r
<1>6. QED
  BY <1>1, <1>2, <1>3, <1>4, <1>5, AgreeSound DEF new

-----------------------------------------------------------------------------
(* A decision: what it makes of bindings, redirects and tombstones.        *)
LEMMA AtMostOne ==
  ASSUME NEW S, IsFiniteSet(S), Cardinality(S) <= 1, NEW x \in S, NEW y \in S
  PROVE  x = y
<1>1. Cardinality(S) \in Nat
  BY FS_CardinalityType
<1>2. Cardinality(S) # 0
  BY FS_EmptySet
<1>3. Cardinality(S) = 1
  BY <1>1, <1>2
<1>4. QED
  BY <1>3, FS_Singleton

LEMMA MovedIs ==
  ASSUME NEW d \in Change, Closed(d), NEW g, NEW led \in Ledger, Fits(g, led, d),
         NEW b \in led.bindings
  PROVE  /\ Moved(d, b) \in Ents \cup {Nobody}
         /\ d.op = "merge" => Moved(d, b) = IF b.now \in d.from THEN d.to ELSE b.now
         /\ d.op = "split" /\ b.now # d.source => Moved(d, b) = b.now
         /\ d.op = "split" /\ b.now = d.source => Moved(d, b) \in DOMAIN d.support \cup {Nobody}
         /\ d.op \notin {"merge", "split"} => Moved(d, b) = b.now
<1>1. b.now \in Ents \cup {Nobody}
  BY DEF Ledger, Binding
<1>2. ASSUME d.op = "split", b.now = d.source
      PROVE  Moved(d, b) \in DOMAIN d.support \cup {Nobody}
  BY <1>2, FitsMean DEF Moved, Closed, SplitFits, Active
<1>3. QED
  BY <1>1, <1>2, Kinds DEF Moved

LEMMA BindingsAfterType ==
  ASSUME NEW d \in Change, Closed(d), NEW g, NEW led \in Ledger, Fits(g, led, d), NEW i \in Nat
  PROVE  BindingsAfter(led, d, i) \in SUBSET Binding
<1>1. ASSUME NEW b \in led.bindings PROVE [b EXCEPT !.now = Moved(d, b)] \in Binding
  <2>1. b \in Binding /\ Moved(d, b) \in Ents \cup {Nobody}
    BY MovedIs DEF Ledger
  <2>2. \A n \in Ents \cup {Nobody} : [b EXCEPT !.now = n] \in Binding
    BY <2>1 DEF Binding
  <2>3. QED
    BY <2>1, <2>2
<1>2. ASSUME NEW a \in Additions(d)
      PROVE  [atom |-> a[1], accepted |-> a[2], now |-> a[2], review |-> i] \in Binding
  BY <1>2, AdditionsType DEF Binding
<1>3. QED
  BY <1>1, <1>2 DEF BindingsAfter

LEMMA BindingAfterIs ==
  ASSUME NEW led \in Ledger, NEW d, NEW i, NEW c \in BindingsAfter(led, d, i)
  PROVE  \/ \E b \in led.bindings :
               /\ c.atom = b.atom /\ c.accepted = b.accepted /\ c.review = b.review
               /\ c.now = Moved(d, b)
         \/ \E a \in Additions(d) :
               c.atom = a[1] /\ c.accepted = a[2] /\ c.now = a[2] /\ c.review = i
<1>1. CASE \E b \in led.bindings : c = [b EXCEPT !.now = Moved(d, b)]
  <2>1. PICK b \in led.bindings : c = [b EXCEPT !.now = Moved(d, b)]
    BY <1>1
  <2>2. b \in Binding
    BY DEF Ledger
  <2>3. QED
    BY <2>1, <2>2 DEF Binding
<1>2. CASE \E a \in Additions(d) : c = [atom |-> a[1], accepted |-> a[2], now |-> a[2], review |-> i]
  BY <1>2
<1>3. QED
  BY <1>1, <1>2 DEF BindingsAfter

LEMMA RedirectsAfterType ==
  ASSUME NEW d \in Change, NEW led \in Ledger, NEW i \in Nat
  PROVE  RedirectsAfter(led, d, i) \in SUBSET Redirect
<1>1. CASE d.op = "merge"
  <2>1. ASSUME NEW r \in led.redirects
        PROVE  (IF r.to \in d.from THEN [r EXCEPT !.to = d.to] ELSE r) \in Redirect
    <3>1. r \in Redirect /\ d.to \in Ents
      BY <1>1, Kinds DEF Ledger
    <3>2. [r EXCEPT !.to = d.to] \in Redirect
      BY <3>1 DEF Redirect
    <3>3. QED
      BY <3>1, <3>2
  <2>2. ASSUME NEW e \in d.from PROVE [from |-> e, to |-> d.to, review |-> i] \in Redirect
    BY <1>1, <2>2, Kinds DEF Redirect
  <2>3. QED
    BY <1>1, <2>1, <2>2 DEF RedirectsAfter
<1>2. CASE d.op # "merge"
  BY <1>2 DEF RedirectsAfter, Ledger
<1>3. QED
  BY <1>1, <1>2

LEMMA RedirectAfterIs ==
  ASSUME NEW d, NEW led \in Ledger, NEW i, NEW q \in RedirectsAfter(led, d, i)
  PROVE  \/ d.op # "merge" /\ q \in led.redirects
         \/ d.op = "merge" /\ \E r \in led.redirects :
              q.from = r.from /\ q.review = r.review /\ q.to = IF r.to \in d.from THEN d.to ELSE r.to
         \/ d.op = "merge" /\ q.from \in d.from /\ q.to = d.to /\ q.review = i
<1>1. CASE d.op = "merge" /\ \E r \in led.redirects : q = IF r.to \in d.from THEN [r EXCEPT !.to = d.to] ELSE r
  <2>1. PICK r \in led.redirects : q = IF r.to \in d.from THEN [r EXCEPT !.to = d.to] ELSE r
    BY <1>1
  <2>2. r \in Redirect
    BY DEF Ledger
  <2>3. q.from = r.from /\ q.review = r.review /\ q.to = IF r.to \in d.from THEN d.to ELSE r.to
    BY <2>1, <2>2 DEF Redirect
  <2>4. QED
    BY <1>1, <2>3
<1>2. CASE d.op = "merge" /\ \E e \in d.from : q = [from |-> e, to |-> d.to, review |-> i]
  BY <1>2
<1>3. CASE d.op # "merge" /\ q \in led.redirects
  BY <1>3
<1>4. QED
  BY <1>1, <1>2, <1>3 DEF RedirectsAfter

LEMMA TombsAfterType ==
  ASSUME NEW d \in Change, NEW led \in Ledger, NEW i \in Nat
  PROVE  TombsAfter(led, d, i) \in SUBSET Tombstone
<1>1. led.tombs \in SUBSET Tombstone
  BY DEF Ledger
<1>2. ASSUME d.op = "merge", NEW e \in d.from
      PROVE  [id |-> e, succs |-> {d.to}, review |-> i] \in Tombstone
  BY <1>2, Kinds DEF Tombstone
<1>3. d.op = "split" => [id |-> d.source, succs |-> DOMAIN d.support, review |-> i] \in Tombstone
  BY Kinds DEF Tombstone
<1>4. QED
  BY <1>1, <1>2, <1>3, TombsAfterIs

LEMMA TombAfterIs ==
  ASSUME NEW d \in Change, NEW led, NEW i, NEW t \in TombsAfter(led, d, i)
  PROVE  \/ t \in led.tombs
         \/ d.op = "merge" /\ t.id \in d.from /\ t.succs = {d.to}
              /\ t = [id |-> t.id, succs |-> {d.to}, review |-> i]
         \/ d.op = "split" /\ t.id = d.source /\ t.succs = DOMAIN d.support
              /\ t = [id |-> d.source, succs |-> DOMAIN d.support, review |-> i]
<1>1. CASE d.op = "merge" /\ \E e \in d.from : t = [id |-> e, succs |-> {d.to}, review |-> i]
  BY <1>1
<1>2. CASE d.op = "split" /\ t = [id |-> d.source, succs |-> DOMAIN d.support, review |-> i]
  BY <1>2
<1>3. QED
  BY <1>1, <1>2, TombsAfterIs

LEMMA LedgerAfterIs ==
  ASSUME NEW d \in Change, Closed(d), NEW g, NEW led \in Ledger, Fits(g, led, d),
         NEW i \in Reviews(led), NEW t \in Int
  PROVE  LET new == LedgerAfter(led, d, i, t) IN
         /\ new \in Ledger /\ new.revision = led.revision + 1
         /\ new.bindings = BindingsAfter(led, d, i)
         /\ new.redirects = RedirectsAfter(led, d, i) /\ new.tombs = TombsAfter(led, d, i)
         /\ Reviews(new) = Reviews(led)
         /\ \A k \in Reviews(led) \ {i} : new.reviews[k] = led.reviews[k]
         /\ new.reviews[i].status = "accepted" /\ new.reviews[i].at = t
         /\ new.reviews[i].made = led.revision + 1
         /\ new.reviews[i].change = led.reviews[i].change
         /\ new.reviews[i].graph = led.reviews[i].graph
<1> DEFINE r == led.reviews[i]
           x == [r EXCEPT !.status = "accepted", !.at = t, !.made = led.revision + 1]
           q == [led.reviews EXCEPT ![i] = x]
           new == LedgerAfter(led, d, i, t)
<1>1. led.reviews \in Seq(Review) /\ i \in DOMAIN led.reviews /\ led.revision \in Nat
  BY DEF Ledger, Reviews
<1>2. r \in Review /\ i \in Nat
  BY ReviewType
<1>3. /\ x \in Review /\ x.status = "accepted" /\ x.at = t /\ x.made = led.revision + 1
      /\ x.change = r.change /\ x.graph = r.graph
  <2>1. \A v \in Review, m \in Nat : LET y == [v EXCEPT !.status = "accepted", !.at = t, !.made = m] IN
          /\ y \in Review /\ y.status = "accepted" /\ y.at = t /\ y.made = m
          /\ y.change = v.change /\ y.graph = v.graph
    BY DEF Review
  <2>2. led.revision + 1 \in Nat
    BY <1>1
  <2>3. QED
    BY <1>2, <2>1, <2>2
<1>4. q = [led.reviews EXCEPT ![i].status = "accepted", ![i].at = t, ![i].made = led.revision + 1]
  BY <1>1, <1>2 DEF Review
<1> HIDE DEF x
<1>5. /\ q \in Seq(Review) /\ DOMAIN q = DOMAIN led.reviews /\ q[i] = x
      /\ \A k \in DOMAIN led.reviews \ {i} : q[k] = led.reviews[k]
  BY <1>1, <1>3
<1> HIDE DEF q
<1>6. new = [revision |-> led.revision + 1, reviews |-> q, bindings |-> BindingsAfter(led, d, i),
             redirects |-> RedirectsAfter(led, d, i), tombs |-> TombsAfter(led, d, i)]
  BY <1>4 DEF LedgerAfter
<1> HIDE DEF new
<1>7. BindingsAfter(led, d, i) \in SUBSET Binding /\ RedirectsAfter(led, d, i) \in SUBSET Redirect
      /\ TombsAfter(led, d, i) \in SUBSET Tombstone
  BY <1>2, BindingsAfterType, RedirectsAfterType, TombsAfterType
<1>8. /\ new \in Ledger /\ new.reviews = q /\ new.revision = led.revision + 1
      /\ new.bindings = BindingsAfter(led, d, i)
      /\ new.redirects = RedirectsAfter(led, d, i) /\ new.tombs = TombsAfter(led, d, i)
  BY <1>1, <1>5, <1>6, <1>7 DEF Ledger
<1>9. Reviews(new) = Reviews(led) /\ new.reviews[i] = x
      /\ \A k \in Reviews(led) \ {i} : new.reviews[k] = led.reviews[k]
  BY <1>5, <1>8 DEF Reviews
<1>10. QED
  BY <1>3, <1>8, <1>9 DEF new

(* A change that fits never sends one mention to two entities. *)
LEMMA BindingsStayFit ==
  ASSUME NEW g, NEW led, Sound(g, led), NEW d \in Change, Closed(d), Fits(g, led, d),
         NEW i \in In(led, "pending"), NEW t \in Int
  PROVE  BindingsFit(GraphAfter(g, d), LedgerAfter(led, d, i, t))
<1> DEFINE new == LedgerAfter(led, d, i, t)
           E == GraphAfter(g, d).ents
<1>1. g \in Graph /\ led \in Ledger /\ i \in Reviews(led) /\ BindingsFit(g, led)
  BY DEF Sound, In
<1>2. /\ new.bindings = BindingsAfter(led, d, i) /\ Reviews(new) = Reviews(led)
      /\ \A k \in Reviews(led) \ {i} : new.reviews[k] = led.reviews[k]
      /\ new.reviews[i].status = "accepted"
  BY <1>1, LedgerAfterIs
<1> HIDE DEF new
<1>e. E = IF d.op = "merge" THEN g.ents \ d.from
          ELSE IF d.op = "split" THEN (g.ents \ {d.source}) \cup DOMAIN d.support ELSE g.ents
  BY <1>1, GraphAfterType
<1> HIDE DEF E
<1>f. /\ d.op # "split" => d.to \in g.ents
      /\ d.op = "merge" => d.from \subseteq g.ents \ {Owner, d.to}
  BY FitsMean
<1>3. In(led, "accepted") \cup {i} \subseteq In(new, "accepted")
  BY <1>1, <1>2 DEF In
<1>4. ASSUME NEW b \in led.bindings PROVE Moved(d, b) \in E \cup {Nobody}
  <2>1. b.now \in g.ents \cup {Nobody}
    BY <1>1 DEF BindingsFit
  <2>2. CASE d.op = "merge"
    BY <1>1, <2>1, <2>2, <1>e, <1>f, MovedIs
  <2>3. CASE d.op = "split"
    BY <1>1, <2>1, <2>3, <1>e, MovedIs
  <2>4. CASE d.op \notin {"merge", "split"}
    BY <1>1, <2>1, <2>4, <1>e, MovedIs
  <2>5. QED
    BY <2>2, <2>3, <2>4
<1>5. ASSUME NEW a \in Additions(d) PROVE a[2] \in E
  <2>1. CASE d.op = "split"
    BY <1>1, <2>1, <1>e, AdditionsTo
  <2>2. CASE d.op # "split"
    BY <1>1, <2>2, <1>e, <1>f, AdditionsTo
  <2>3. QED
    BY <2>1, <2>2
<1>6. ASSUME NEW b \in new.bindings
      PROVE  b.review \in In(new, "accepted") /\ b.now \in E \cup {Nobody}
  BY <1>1, <1>2, <1>3, <1>4, <1>5, BindingAfterIs DEF BindingsFit
<1>7. ASSUME NEW b \in new.bindings, NEW c \in new.bindings, b.atom = c.atom,
             Nobody \notin {b.now, c.now}
      PROVE  b.now = c.now
  <2> DEFINE T == ({Moved(d, x) : x \in {y \in led.bindings : y.atom = b.atom}}
                     \cup {a[2] : a \in {y \in Additions(d) : y[1] = b.atom}}) \ {Nobody}
  <2>1. b \in Binding
    BY <1>1, <1>2, BindingsAfterType, ReviewType
  <2>2. Cardinality(T) <= 1
    BY <2>1, FitsMean DEF OneTarget, Binding
  <2>3. T \in SUBSET Ents
    BY <1>1, MovedIs, AdditionsType
  <2>4. IsFiniteSet(T)
    BY <2>3, EntityAssumption, FS_Subset
  <2>5. b.now \in T /\ c.now \in T
    BY <1>1, <1>2, <1>7, BindingAfterIs
  <2> HIDE DEF T
  <2>6. QED
    BY <2>2, <2>4, <2>5, AtMostOne
<1>8. QED
  BY <1>6, <1>7 DEF BindingsFit, new, E

LEMMA TombsStayFit ==
  ASSUME NEW g, NEW led, Sound(g, led), NEW d \in Change, Closed(d), Fits(g, led, d),
         NEW i \in In(led, "pending"), NEW t \in Int
  PROVE  TombsFit(GraphAfter(g, d), LedgerAfter(led, d, i, t))
<1> DEFINE new == LedgerAfter(led, d, i, t)
           E == GraphAfter(g, d).ents
<1>1. g \in Graph /\ led \in Ledger /\ i \in Reviews(led) /\ TombsFit(g, led)
  BY DEF Sound, In
<1>2. new.tombs = TombsAfter(led, d, i)
  BY <1>1, LedgerAfterIs
<1> HIDE DEF new
<1>e. E = IF d.op = "merge" THEN g.ents \ d.from
          ELSE IF d.op = "split" THEN (g.ents \ {d.source}) \cup DOMAIN d.support ELSE g.ents
  BY <1>1, GraphAfterType
<1> HIDE DEF E
<1>f. /\ d.op # "split" => d.to \in g.ents
      /\ d.op = "merge" => d.from \subseteq g.ents \ {Owner, d.to}
  BY FitsMean
<1>3. ASSUME d.op = "split"
      PROVE  /\ d.source \in g.ents /\ DOMAIN d.support # {}
             /\ \A e \in DOMAIN d.support : e \notin g.ents /\ e \notin {x.id : x \in led.tombs}
  <2>1. SplitFits(g, led, d)
    BY <1>3, FitsMean
  <2>2. d.source \in g.ents /\ Cardinality(DOMAIN d.support) >= 2
        /\ \A e \in DOMAIN d.support : e \notin g.ents \cup Retired(led)
    BY <2>1 DEF SplitFits
  <2>3. DOMAIN d.support # {}
    BY <2>2, FS_EmptySet
  <2>4. QED
    BY <2>2, <2>3 DEF Retired
<1>4. ASSUME NEW x \in led.tombs PROVE x.id \notin E /\ x.id \notin g.ents /\ x.id \notin x.succs /\ x.succs # {}
  <2>1. x.id \notin g.ents /\ x.id \notin x.succs /\ x.succs # {}
    BY <1>1 DEF TombsFit
  <2>2. QED
    BY <1>1, <1>3, <2>1, <1>e
<1>5. ASSUME NEW x \in new.tombs, x \notin led.tombs
      PROVE  x.id \in g.ents /\ x.id \notin E /\ x.id \notin x.succs /\ x.succs # {}
  <2>1. CASE d.op = "merge"
    BY <1>1, <1>2, <1>5, <2>1, <1>e, <1>f, TombAfterIs
  <2>2. CASE d.op = "split"
    BY <1>1, <1>2, <1>3, <1>5, <2>2, <1>e, TombAfterIs
  <2>3. QED
    BY <1>2, <1>5, <2>1, <2>2, TombAfterIs
<1>6. ASSUME NEW x \in new.tombs, NEW y \in new.tombs, y.id = x.id PROVE y = x
  <2>1. CASE x \in led.tombs /\ y \in led.tombs
    BY <1>1, <1>6, <2>1 DEF TombsFit
  <2>2. CASE x \notin led.tombs /\ y \notin led.tombs
    BY <1>2, <1>6, <2>2, TombAfterIs
  <2>3. QED
    BY <1>4, <1>5, <1>6, <2>1, <2>2
<1>7. QED
  BY <1>4, <1>5, <1>6 DEF TombsFit, new, E

LEMMA RedirectsStayFit ==
  ASSUME NEW g, NEW led, Sound(g, led), NEW d \in Change, Closed(d), Fits(g, led, d),
         NEW i \in In(led, "pending"), NEW t \in Int
  PROVE  /\ RedirectsFit(GraphAfter(g, d), LedgerAfter(led, d, i, t))
         /\ Led(GraphAfter(g, d), LedgerAfter(led, d, i, t))
<1> DEFINE new == LedgerAfter(led, d, i, t)
           E == GraphAfter(g, d).ents
<1>1. g \in Graph /\ led \in Ledger /\ i \in Reviews(led) /\ RedirectsFit(g, led) /\ Led(g, led)
      /\ Kept(g, led)
  BY DEF Sound, In
<1>2. /\ new.tombs = TombsAfter(led, d, i) /\ new.redirects = RedirectsAfter(led, d, i)
      /\ new.bindings = BindingsAfter(led, d, i)
  BY <1>1, LedgerAfterIs
<1> HIDE DEF new
<1>e. E = IF d.op = "merge" THEN g.ents \ d.from
          ELSE IF d.op = "split" THEN (g.ents \ {d.source}) \cup DOMAIN d.support ELSE g.ents
  BY <1>1, GraphAfterType
<1> HIDE DEF E
<1>f. /\ d.op # "split" => d.to \in g.ents
      /\ d.op = "merge" => d.from \subseteq g.ents \ {Owner, d.to}
  BY FitsMean
<1>3. ASSUME d.op = "split"
      PROVE  /\ ~\E r \in led.redirects : r.to = d.source
             /\ \A e \in DOMAIN d.support : e \notin g.ents /\ e \notin {x.from : x \in led.redirects}
  BY <1>3, FitsMean DEF SplitFits, Retired
<1>4. \A x \in led.tombs : x \in new.tombs
  BY <1>2 DEF TombsAfter
<1>5. ASSUME NEW q \in new.redirects, d.op = "merge", q.from \in d.from, q.to = d.to
      PROVE  /\ q.from \in g.ents /\ q.from \notin E /\ q.to \in E
             /\ \E x \in new.tombs : x.id = q.from
  <2>1. [id |-> q.from, succs |-> {d.to}, review |-> i] \in new.tombs
    BY <1>2, <1>5, TombsAfterIs
  <2>2. \E x \in new.tombs : x.id = q.from
    BY <2>1
  <2>3. QED
    BY <1>5, <1>e, <1>f, <2>2
<1>6. ASSUME NEW r \in led.redirects
      PROVE  /\ r.from \notin g.ents /\ r.from \notin E /\ r.to \in g.ents
             /\ d.op # "merge" => r.to \in E
             /\ \E x \in new.tombs : x.id = r.from
  <2>1. r.from \notin g.ents /\ r.to \in g.ents /\ \E x \in led.tombs : x.id = r.from
    BY <1>1 DEF RedirectsFit
  <2>2. CASE d.op = "split"
    BY <1>3, <1>4, <1>e, <2>1, <2>2
  <2>3. CASE d.op # "split"
    BY <1>4, <1>e, <2>1, <2>3
  <2>4. QED
    BY <2>2, <2>3
<1>7. ASSUME NEW q \in new.redirects
      PROVE  \/ /\ d.op = "merge" /\ q.from \in d.from /\ q.to = d.to /\ q.review = i
                /\ q.from \in g.ents
             \/ \E r \in led.redirects :
                  /\ q.from = r.from /\ q.review = r.review /\ q.from \notin g.ents
                  /\ q.to = IF d.op = "merge" /\ r.to \in d.from THEN d.to ELSE r.to
  BY <1>1, <1>2, <1>5, <1>6, RedirectAfterIs
<1>8. ASSUME NEW q \in new.redirects
      PROVE  q.from \notin E /\ q.to \in E /\ \E x \in new.tombs : x.id = q.from
  <2>1. CASE q.from \in g.ents
    BY <1>5, <1>7, <2>1
  <2>2. CASE q.from \notin g.ents
    <3>1. PICK r \in led.redirects :
            q.from = r.from /\ q.to = IF d.op = "merge" /\ r.to \in d.from THEN d.to ELSE r.to
      BY <1>7, <2>2
    <3>2. q.to \in E
      BY <1>6, <1>e, <1>f, <3>1
    <3>3. QED
      BY <1>6, <3>1, <3>2
  <2>3. QED
    BY <2>1, <2>2
<1>9. ASSUME NEW q \in new.redirects, NEW p \in new.redirects, p.from = q.from PROVE p = q
  <2>1. p \in Redirect /\ q \in Redirect
    BY <1>1, <1>2, RedirectsAfterType, ReviewType
  <2>2. p.to = q.to /\ p.review = q.review
    <3>1. CASE q.from \in g.ents
      BY <1>7, <1>9, <3>1
    <3>2. CASE q.from \notin g.ents
      BY <1>1, <1>7, <1>9, <3>2 DEF RedirectsFit
    <3>3. QED
      BY <3>1, <3>2
  <2>3. QED
    BY <1>9, <2>1, <2>2 DEF Redirect
<1>10. RedirectsFit(GraphAfter(g, d), new)
  BY <1>8, <1>9 DEF RedirectsFit, E
<1>11. ASSUME NEW q \in new.redirects, NEW c \in new.bindings, c.accepted = q.from, c.now # Nobody
       PROVE  c.now = q.to
  <2>1. CASE \E a \in Additions(d) : c.now = a[2] /\ c.accepted = a[2]
    <3>1. PICK a \in Additions(d) : c.accepted = a[2]
      BY <2>1
    <3>2. a[2] \in E
      BY <1>e, <1>f, AdditionsTo, <1>1
    <3>3. QED
      BY <1>8, <1>11, <3>1, <3>2
  <2>2. CASE \E b \in led.bindings : c.accepted = b.accepted /\ c.now = Moved(d, b)
    <3>1. PICK b \in led.bindings : c.accepted = b.accepted /\ c.now = Moved(d, b)
      BY <2>2
    <3>2. CASE q.from \in g.ents
      <4>1. b.now = b.accepted /\ d.op = "merge" /\ q.from \in d.from /\ q.to = d.to
        BY <1>1, <1>7, <1>11, <3>1, <3>2 DEF Kept
      <4>2. QED
        BY <1>1, <1>11, <3>1, <4>1, MovedIs
    <3>3. CASE q.from \notin g.ents
      <4>1. PICK r \in led.redirects :
              q.from = r.from /\ q.to = IF d.op = "merge" /\ r.to \in d.from THEN d.to ELSE r.to
        BY <1>7, <3>3
      <4>2. b.now # Nobody => b.now = r.to
        BY <1>1, <1>11, <3>1, <4>1 DEF Led
      <4>3. CASE d.op = "merge"
        BY <1>1, <1>11, <3>1, <4>1, <4>2, <4>3, MovedIs, Kinds, EntityAssumption
      <4>4. CASE d.op = "split"
        <5>1. b.now # d.source
          BY <1>1, <1>3, <4>2, <4>4, Kinds, EntityAssumption
        <5>2. QED
          BY <1>1, <1>11, <3>1, <4>1, <4>2, <4>4, <5>1, MovedIs
      <4>5. CASE d.op \notin {"merge", "split"}
        BY <1>1, <1>11, <3>1, <4>1, <4>2, <4>5, MovedIs
      <4>6. QED
        BY <4>3, <4>4, <4>5
    <3>4. QED
      BY <3>2, <3>3
  <2>3. QED
    BY <1>1, <1>2, <2>1, <2>2, BindingAfterIs
<1>12. Led(GraphAfter(g, d), new)
  BY <1>8, <1>11 DEF Led, E
<1>13. QED
  BY <1>10, <1>12 DEF new

(* What lives keeps its mentions; what is retired leads to its heirs. *)
LEMMA KeptStays ==
  ASSUME NEW g, NEW led, Sound(g, led), NEW d \in Change, Closed(d), Fits(g, led, d),
         NEW i \in In(led, "pending"), NEW t \in Int
  PROVE  Kept(GraphAfter(g, d), LedgerAfter(led, d, i, t))
<1> DEFINE new == LedgerAfter(led, d, i, t)
           E == GraphAfter(g, d).ents
<1>1. g \in Graph /\ led \in Ledger /\ i \in Reviews(led) /\ Kept(g, led) /\ TombsFit(g, led)
  BY DEF Sound, In
<1>2. new.tombs = TombsAfter(led, d, i) /\ new.bindings = BindingsAfter(led, d, i)
  BY <1>1, LedgerAfterIs
<1> HIDE DEF new
<1>e. E = IF d.op = "merge" THEN g.ents \ d.from
          ELSE IF d.op = "split" THEN (g.ents \ {d.source}) \cup DOMAIN d.support ELSE g.ents
  BY <1>1, GraphAfterType
<1> HIDE DEF E
<1>f. /\ d.op # "split" => d.to \in g.ents
      /\ d.op = "merge" => d.from \subseteq g.ents \ {Owner, d.to}
  BY FitsMean
<1>3. ASSUME d.op = "split"
      PROVE  d.source \in g.ents /\ \A e \in DOMAIN d.support : e \notin g.ents /\ e \notin {x.id : x \in led.tombs}
  BY <1>3, FitsMean DEF SplitFits, Retired
<1>4. ASSUME NEW e \in g.ents, e \notin E PROVE e \in {x.id : x \in new.tombs}
  <2>1. CASE d.op = "merge"
    <3>1. [id |-> e, succs |-> {d.to}, review |-> i] \in new.tombs
      BY <1>2, <1>4, <1>e, <2>1, TombsAfterIs
    <3>2. QED
      BY <3>1
  <2>2. CASE d.op = "split"
    <3>1. [id |-> e, succs |-> DOMAIN d.support, review |-> i] \in new.tombs
      BY <1>2, <1>4, <1>e, <2>2, TombsAfterIs
    <3>2. QED
      BY <3>1
  <2>3. QED
    BY <1>4, <1>e, <2>1, <2>2
<1>5. ASSUME NEW c \in new.bindings, NEW a \in Additions(d), c.accepted = a[2], c.now = a[2]
      PROVE  c.accepted \in E /\ c.now = c.accepted
  BY <1>5, <1>e, <1>f, AdditionsTo
<1>6. ASSUME NEW c \in new.bindings, NEW b \in led.bindings,
             c.accepted = b.accepted, c.now = Moved(d, b)
      PROVE  /\ c.accepted \in E => c.now = c.accepted
             /\ c.accepted \notin E => c.accepted \in {x.id : x \in new.tombs}
  <2>1. CASE b.accepted \in g.ents
    <3>1. b.now = b.accepted
      BY <1>1, <2>1 DEF Kept
    <3>2. b.accepted \in E => Moved(d, b) = b.now
      <4>1. CASE d.op = "merge"
        BY <1>1, <1>e, <3>1, <4>1, MovedIs
      <4>2. CASE d.op = "split"
        BY <1>1, <1>3, <1>e, <3>1, <4>2, MovedIs
      <4>3. CASE d.op \notin {"merge", "split"}
        BY <1>1, <4>3, MovedIs
      <4>4. QED
        BY <4>1, <4>2, <4>3
    <3>3. QED
      BY <1>4, <1>6, <2>1, <3>1, <3>2
  <2>2. CASE b.accepted \notin g.ents
    <3>1. b.accepted \in {x.id : x \in led.tombs}
      BY <1>1, <2>2 DEF Kept
    <3>2. b.accepted \notin E
      BY <1>3, <1>e, <2>2, <3>1
    <3>3. led.tombs \subseteq new.tombs
      BY <1>2 DEF TombsAfter
    <3>4. QED
      BY <1>6, <3>1, <3>2, <3>3
  <2>3. QED
    BY <2>1, <2>2
<1>7. ASSUME NEW c \in new.bindings
      PROVE  /\ c.accepted \in E => c.now = c.accepted
             /\ c.accepted \notin E => c.accepted \in {x.id : x \in new.tombs}
  BY <1>1, <1>2, <1>5, <1>6, BindingAfterIs
<1>8. QED
  BY <1>7 DEF Kept, new, E

LEMMA FollowedStays ==
  ASSUME NEW g, NEW led, Sound(g, led), NEW d \in Change, Closed(d), Fits(g, led, d),
         NEW i \in In(led, "pending"), NEW t \in Int
  PROVE  Followed(LedgerAfter(led, d, i, t))
<1> DEFINE new == LedgerAfter(led, d, i, t)
<1>1. g \in Graph /\ led \in Ledger /\ i \in Reviews(led) /\ Followed(led)
  BY DEF Sound, In
<1>2. /\ new.tombs = TombsAfter(led, d, i) /\ new.bindings = BindingsAfter(led, d, i)
      /\ new \in Ledger
  BY <1>1, LedgerAfterIs
<1> HIDE DEF new
<1>3. led.tombs \subseteq new.tombs
  BY <1>2 DEF TombsAfter
<1>4. /\ d.op = "merge" =>
           \A e \in d.from : [id |-> e, succs |-> {d.to}, review |-> i] \in new.tombs
      /\ d.op = "split" => [id |-> d.source, succs |-> DOMAIN d.support, review |-> i] \in new.tombs
  BY <1>2, TombsAfterIs
<1>5. SUFFICES ASSUME NEW c \in new.bindings, c.now # Nobody, NEW s \in SUBSET Ents, c.accepted \in s,
                      \A x \in new.tombs : x.id \in s => x.succs \subseteq s
               PROVE  c.now \in s
  BY <1>2 DEF Followed, Heirs, new, Ledger, Binding
<1>6. CASE \E a \in Additions(d) : c.accepted = a[2] /\ c.now = a[2]
  BY <1>5, <1>6
<1>7. CASE \E b \in led.bindings : c.accepted = b.accepted /\ c.now = Moved(d, b)
  <2>1. PICK b \in led.bindings : c.accepted = b.accepted /\ c.now = Moved(d, b)
    BY <1>7
  <2>2. b.now # Nobody => b.now \in s
    BY <1>1, <1>3, <1>5, <2>1 DEF Followed, Heirs
  <2>3. CASE d.op = "merge"
    <3>1. ASSUME b.now \in d.from, b.now \in s PROVE d.to \in s
      <4>1. [id |-> b.now, succs |-> {d.to}, review |-> i].succs \subseteq s
        BY <1>4, <1>5, <2>3, <3>1
      <4>2. QED
        BY <4>1
    <3>2. d.from \subseteq Ents /\ Nobody \notin Ents
      BY <2>3, Kinds, EntityAssumption
    <3>3. Moved(d, b) = IF b.now \in d.from THEN d.to ELSE b.now
      BY <1>1, <2>3, MovedIs
    <3>4. QED
      BY <1>5, <2>1, <2>2, <3>1, <3>2, <3>3
  <2>4. CASE d.op = "split"
    <3>1. ASSUME d.source \in s PROVE DOMAIN d.support \subseteq s
      <4>1. [id |-> d.source, succs |-> DOMAIN d.support, review |-> i].succs \subseteq s
        BY <1>4, <1>5, <2>4, <3>1
      <4>2. QED
        BY <4>1
    <3>2. d.source # Nobody
      BY <2>4, Kinds, EntityAssumption
    <3>3. IF b.now = d.source THEN Moved(d, b) \in DOMAIN d.support \cup {Nobody} ELSE Moved(d, b) = b.now
      BY <1>1, <2>4, MovedIs
    <3>4. QED
      BY <1>5, <2>1, <2>2, <3>1, <3>2, <3>3
  <2>5. CASE d.op \notin {"merge", "split"}
    BY <1>1, <1>5, <2>1, <2>2, <2>5, MovedIs
  <2>6. QED
    BY <2>3, <2>4, <2>5
<1>8. QED
  BY <1>1, <1>2, <1>6, <1>7, BindingAfterIs

LEMMA ReviewsStayFit ==
  ASSUME NEW g, NEW led, Sound(g, led), NEW d \in Change, Closed(d), Fits(g, led, d),
         NEW i \in In(led, "pending"), NEW t \in Int, Read(led.reviews[i].change, t)
  PROVE  /\ ReviewsFit(LedgerAfter(led, d, i, t)) /\ EnvelopesFit(LedgerAfter(led, d, i, t))
         /\ DatesFit(LedgerAfter(led, d, i, t)) /\ Prepared(LedgerAfter(led, d, i, t))
<1> DEFINE new == LedgerAfter(led, d, i, t)
           n == led.revision + 1
<1>1. /\ g \in Graph /\ led \in Ledger /\ i \in Reviews(led) /\ led.reviews[i].status = "pending"
      /\ ReviewsFit(led) /\ EnvelopesFit(led) /\ DatesFit(led) /\ Prepared(led) /\ led.revision \in Nat
  BY DEF Sound, In, Ledger
<1>2. /\ new.revision = n /\ Reviews(new) = Reviews(led)
      /\ \A k \in Reviews(led) \ {i} : new.reviews[k] = led.reviews[k]
      /\ new.reviews[i].status = "accepted" /\ new.reviews[i].made = n
      /\ new.reviews[i].change = led.reviews[i].change
      /\ new.reviews[i].graph = led.reviews[i].graph /\ new.reviews[i].at = t
  BY <1>1, LedgerAfterIs
<1> HIDE DEF new
<1>3. In(new, "accepted") = In(led, "accepted") \cup {i} /\ i \notin In(led, "accepted")
  BY <1>1, <1>2 DEF In
<1>4. ReviewsFit(new)
  <2>1. Cardinality(In(new, "accepted")) = Cardinality(In(led, "accepted")) + 1
    BY <1>1, <1>3, ReviewsFinite, FS_AddElement
  <2>2. {new.reviews[k].made : k \in In(new, "accepted")}
          = {led.reviews[k].made : k \in In(led, "accepted")} \cup {n}
    BY <1>2, <1>3 DEF In
  <2>3. (1 .. led.revision) \cup {n} = 1 .. n
    BY <1>1
  <2>4. QED
    BY <1>1, <1>2, <2>1, <2>2, <2>3 DEF ReviewsFit
<1>5. EnvelopesFit(new)
  BY <1>1, <1>2 DEF EnvelopesFit
<1>d. DatesFit(new)
  <2>1. \A k \in Done(new) : k = i \/ k \in Done(led)
    BY <1>2 DEF Done, In
  <2>2. QED
    BY <1>1, <1>2, <2>1 DEF DatesFit, Done
<1>6. Prepared(new)
  <2>1. ASSUME NEW k \in Reviews(new), new.reviews[k].status = "pending"
        PROVE  new.reviews[k].base <= n /\ new.reviews[k].base # n
    <3>1. k # i /\ new.reviews[k] = led.reviews[k] /\ k \in Reviews(led)
      BY <1>2, <2>1
    <3>2. led.reviews[k].base \in Nat /\ led.reviews[k].base <= led.revision
      BY <1>1, <2>1, <3>1, ReviewType DEF Prepared
    <3>3. QED
      BY <1>1, <3>1, <3>2
  <2>2. \A k \in Reviews(new) : Closed(new.reviews[k].change)
    BY <1>1, <1>2 DEF Prepared
  <2>3. QED
    BY <1>2, <2>1, <2>2 DEF Prepared
<1>7. QED
  BY <1>4, <1>5, <1>6, <1>d DEF new

LEMMA DecideKeeps ==
  ASSUME NEW g, NEW led, Sound(g, led), NEW d \in Change, Closed(d), Fits(g, led, d),
         PreviewFits(g, d), NEW i \in In(led, "pending"), NEW t \in Int,
         Read(led.reviews[i].change, t)
  PROVE  Sound(GraphAfter(g, d), LedgerAfter(led, d, i, t))
<1>1. g \in Graph /\ led \in Ledger /\ i \in Reviews(led)
  BY DEF Sound, In
<1>2. GraphAfter(g, d) \in Graph /\ LedgerAfter(led, d, i, t) \in Ledger
  BY <1>1, GraphAfterType, LedgerAfterIs
<1>3. QED
  BY <1>2, BindingsStayFit, TombsStayFit, RedirectsStayFit, KeptStays, FollowedStays, ReviewsStayFit
     DEF Sound, PreviewFits

-----------------------------------------------------------------------------
(* What each write leaves decided.                                         *)
LEMMA StagedDecides ==
  ASSUME NEW g \in Graph, NEW led \in Ledger, NEW d \in Change
  PROVE  Decided(led, Staged(g, led, d))
<1>1. led.revision \in Nat
  BY DEF Ledger
<1>2. QED
  BY <1>1, StagedIs DEF Decided

LEMMA RejectedDecides ==
  ASSUME NEW led \in Ledger, NEW i \in In(led, "pending"), NEW t \in Int
  PROVE  Decided(led, Rejected(led, i, t))
<1>1. led.revision \in Nat /\ i \in Reviews(led) /\ led.reviews[i].status = "pending"
  BY DEF Ledger, In
<1>2. QED
  BY <1>1, RejectedIs DEF Decided

LEMMA AfterDecides ==
  ASSUME NEW led \in Ledger, NEW d \in Change, Closed(d), NEW g, Fits(g, led, d),
         NEW i \in In(led, "pending"), NEW t \in Int
  PROVE  Decided(led, LedgerAfter(led, d, i, t))
<1>1. led.revision \in Nat /\ i \in Reviews(led) /\ led.reviews[i].status = "pending"
  BY DEF Ledger, In
<1>2. QED
  BY <1>1, LedgerAfterIs DEF Decided

(* The mention a World change was about is bound in the ledger at once. *)
LEMMA BindIs ==
  ASSUME NEW e \in Ents, NEW m \in Mentions, NEW g \in Graph
  PROVE  Bind(e, m) \in Change /\ Closed(Bind(e, m)) /\ GraphAfter(g, Bind(e, m)) = g
<1>1. /\ Bind(e, m) \in [op: {"bind"}, to: Ents, ms: SUBSET Mentions]
      /\ Bind(e, m).op = "bind"
  BY DEF Bind
<1>2. Bind(e, m) \in Change
  BY <1>1 DEF Change
<1>3. QED
  BY <1>1, <1>2, GraphAfterIs DEF Closed

LEMMA BoundKeeps ==
  ASSUME NEW g, NEW led, Sound(g, led), NEW e \in Ents, NEW m \in Mentions,
         Fits(g, led, Bind(e, m)), NEW t \in Int, When[m] <= t
  PROVE  Sound(g, BoundIn(g, led, e, m, t)) /\ Decided(led, BoundIn(g, led, e, m, t))
<1> DEFINE d == Bind(e, m)
           new == Staged(g, led, d)
           n == Len(led.reviews) + 1
<1>1. g \in Graph /\ led \in Ledger /\ ShapeFits(g)
  BY DEF Sound
<1>2. d \in Change /\ Closed(d) /\ GraphAfter(g, d) = g
  BY <1>1, BindIs
<1>p. PreviewFits(g, d) /\ Read(d, t)
  <2>1. d.op = "bind" /\ Additions(d) = {<<m, e>>}
    BY DEF Bind, Additions
  <2>2. QED
    BY <1>1, <1>2, <2>1 DEF PreviewFits, Read
<1>3. BoundIn(g, led, e, m, t) = LedgerAfter(new, d, n, t)
  BY DEF BoundIn
<1>4. Fits(g, led, d)
  OBVIOUS
<1> HIDE DEF d
<1>5. Sound(g, new)
  BY <1>1, <1>2, <1>4, <1>p, StageKeeps
<1>6. /\ new \in Ledger /\ n \in In(new, "pending") /\ Fits(g, new, d)
      /\ new.reviews[n].change = d
  <2>1. /\ new \in Ledger /\ new.reviews[n].change = d
        /\ new.revision = led.revision /\ new.bindings = led.bindings
        /\ new.redirects = led.redirects /\ new.tombs = led.tombs
        /\ n \in Reviews(new) /\ new.reviews[n].status = "pending"
    BY <1>1, <1>2, StagedIs
  <2> HIDE DEF new, n
  <2>2. Fits(g, new, d) <=> Fits(g, led, d)
    BY <2>1 DEF Fits, SplitFits, OneTarget, Retired, Active
  <2>3. QED
    BY <1>4, <2>1, <2>2 DEF In
<1>7. Decided(led, new)
  BY <1>1, <1>2, StagedDecides
<1> HIDE DEF new, n
<1>8. Sound(g, LedgerAfter(new, d, n, t))
  BY <1>1, <1>2, <1>5, <1>6, <1>p, DecideKeeps
<1>9. Decided(new, LedgerAfter(new, d, n, t))
  BY <1>2, <1>6, AfterDecides
<1>10. Decided(led, LedgerAfter(new, d, n, t))
  <2> DEFINE b == LedgerAfter(new, d, n, t)
  <2>1. led.revision \in Nat /\ new.revision \in Nat /\ b.revision \in Nat
    BY <1>1, <1>6, <1>8 DEF Sound, Ledger
  <2> HIDE DEF b
  <2>2. ASSUME NEW i \in Reviews(led)
        PROVE  i \in Reviews(b) /\ (led.reviews[i].status # "pending" => b.reviews[i] = led.reviews[i])
    BY <1>7, <1>9 DEF Decided, b
  <2>3. led.revision <= b.revision
    BY <1>7, <1>9, <2>1 DEF Decided, b
  <2>4. QED
    BY <2>2, <2>3 DEF Decided, b
<1>11. QED
  BY <1>3, <1>8, <1>10

(* A graph that has grown is still the one its ledger is about: a new      *)
(* entity is none that was retired.                                        *)
LEMMA GrownIs ==
  ASSUME NEW g \in Graph, NEW o, NEW record, ShapeFits(Grown(g, o, record))
  PROVE  /\ Grown(g, o, record) \in Graph
         /\ g.ents \subseteq Grown(g, o, record).ents
<1> DEFINE E == g.ents \cup (Ents \cap {record[p] : p \in Places})
           R == [s \in Slots |-> IF s[1] = o THEN record[s[2]] ELSE g.refs[s]]
           new == Grown(g, o, record)
<1>1. new = [g EXCEPT !.ents = E, !.refs = R]
  BY DEF Grown
<1> HIDE DEF new
<1>2. E \in SUBSET Ents
  BY DEF Graph
<1>3. new.ents = E /\ new.refs = R
  BY <1>1 DEF Graph
<1>4. \A s \in Slots : R[s] \in E \cup {Nobody}
  BY <1>3 DEF ShapeFits, new
<1>5. R \in [Slots -> Ents \cup {Nobody}]
  BY <1>2, <1>4
<1> HIDE DEF R
<1>6. new \in Graph
  BY <1>1, <1>2, <1>5, GraphWith
<1>7. QED
  BY <1>3, <1>6 DEF new

LEMMA GrowKeeps ==
  ASSUME NEW g, NEW led, Sound(g, led), NEW h \in Graph, g.ents \subseteq h.ents,
         ShapeFits(h), Restorable(h, led)
  PROVE  Sound(h, led)
<1>1. Kept(h, led)
  <2>1. ASSUME NEW b \in led.bindings, b.accepted \in h.ents PROVE b.accepted \in g.ents
    <3>1. SUFFICES ASSUME b.accepted \notin g.ents PROVE FALSE
      OBVIOUS
    <3>2. PICK u \in led.tombs : u.id = b.accepted
      BY <3>1 DEF Sound, Kept
    <3>3. QED
      BY <2>1, <3>2 DEF Restorable, TombsFit
  <2>2. QED
    BY <2>1 DEF Sound, Kept
<1>2. Led(h, led)
  BY DEF Sound, Led
<1>3. QED
  BY <1>1, <1>2 DEF Sound, Restorable

-----------------------------------------------------------------------------
(* The invariant, write by write.                                          *)
LEMMA DecidedOn ==
  ASSUME NEW a \in Ledger, NEW b \in Ledger, NEW c \in Ledger, Decided(a, b), Decided(b, c)
  PROVE  Decided(a, c)
<1>1. a.revision \in Nat /\ b.revision \in Nat /\ c.revision \in Nat
  BY DEF Ledger
<1>2. QED
  BY <1>1 DEF Decided

LEMMA EarlierItself ==
  ASSUME NEW r \in Row PROVE Earlier(r, r)
<1>1. r.gen \in Nat /\ r.led.revision \in Nat
  BY DEF Row, Ledger
<1>2. QED
  BY <1>1 DEF Earlier, Decided

LEMMA EarlierOn ==
  ASSUME NEW a \in Row, NEW b \in Row, NEW c \in Row, Earlier(a, b),
         Decided(b.led, c.led), b.gen < c.gen
  PROVE  Earlier(a, c)
<1>1. a.led \in Ledger /\ b.led \in Ledger /\ c.led \in Ledger
      /\ a.gen \in Nat /\ b.gen \in Nat /\ c.gen \in Nat
  BY DEF Row
<1>2. Decided(a.led, c.led)
  BY <1>1, DecidedOn DEF Earlier
<1>3. a.gen < c.gen
  BY <1>1 DEF Earlier
<1>4. QED
  BY <1>1, <1>2, <1>3 DEF Earlier

(* A write that is let through is one on the present row. *)
LEMMA SwapIsPresent ==
  ASSUME RowInv, NEW h \in Hosts, Swap(h)
  PROVE  held[h] = row
BY DEF RowInv, Swap, Earlier

LEMMA CommitKeeps ==
  ASSUME RowInv, NEW h \in Hosts, NEW g, NEW led, Commit(h, g, led), Sound(g, led),
         Decided(held[h].led, led)
  PROVE  RowInv' /\ held[h] = row /\ row'.led = led /\ world'.graph = g /\ row.gen < row'.gen
<1> DEFINE rev == IF g # held[h].graph THEN world.rev + 1 ELSE world.rev
           new == [gen |-> held[h].gen + 1, rev |-> rev, graph |-> g, led |-> led]
<1>1. row' = new /\ world' = [rev |-> rev, graph |-> g] /\ held' = [held EXCEPT ![h] = new]
  BY DEF Commit
<1>2. held[h] = row
  BY SwapIsPresent DEF Commit
<1>3. row \in Row /\ row.gen \in Nat /\ row.rev \in Nat /\ world.rev = row.rev
      /\ world.graph = row.graph /\ held \in [Hosts -> Row]
  BY DEF RowInv, Row
<1>4. rev \in Nat
  BY <1>3
<1> HIDE DEF rev
<1>5. new \in Row /\ new.gen = row.gen + 1 /\ new.rev = rev /\ new.graph = g /\ new.led = led
  BY <1>2, <1>3, <1>4 DEF Row, Sound
<1> HIDE DEF new
<1>6. held' \in [Hosts -> Row]
  BY <1>1, <1>3, <1>5
<1>7. ASSUME NEW k \in Hosts
      PROVE  Sound(held'[k].graph, held'[k].led) /\ Earlier(held'[k], row')
  <2>1. CASE k = h
    BY <1>1, <1>3, <1>5, <2>1, EarlierItself
  <2>2. CASE k # h
    <3>1. held'[k] = held[k] /\ held[k] \in Row
      BY <1>1, <1>3, <2>2
    <3>2. Earlier(held[k], row) /\ Sound(held[k].graph, held[k].led)
      BY DEF RowInv
    <3>3. Decided(row.led, new.led) /\ row.gen < new.gen
      BY <1>2, <1>3, <1>5
    <3>4. QED
      BY <1>1, <1>3, <1>5, <3>1, <3>2, <3>3, EarlierOn
  <2>3. QED
    BY <2>1, <2>2
<1>8. QED
  BY <1>1, <1>2, <1>3, <1>5, <1>6, <1>7 DEF RowInv

LEMMA HeldIsSound ==
  ASSUME RowInv, NEW h \in Hosts
  PROVE  /\ Sound(held[h].graph, held[h].led)
         /\ held[h].graph \in Graph /\ held[h].led \in Ledger
         /\ held[h].graph.ents \subseteq Ents
BY DEF RowInv, Sound, Graph

(* Every change a process may ask for is a change. *)
LEMMA StagedChange ==
  ASSUME RowInv, NEW h \in Hosts, StageBind(h) \/ StageAlias(h) \/ StageMerge(h) \/ StageSplit(h)
  PROVE  \E d \in Change : Closed(d) /\ Stage(h, d)
<1> DEFINE g == held[h].graph
           led == held[h].led
<1>1. g \in Graph /\ led \in Ledger /\ g.ents \subseteq Ents
  BY HeldIsSound
<1>2. \A ms \in Supports : ms \in SUBSET Mentions
  BY DEF Supports
<1>3. CASE StageBind(h)
  <2>1. PICK e \in Ents, m \in Mentions : Stage(h, Bind(e, m))
    BY <1>1, <1>3 DEF StageBind
  <2>2. QED
    BY <1>1, <2>1, BindIs
<1>4. CASE StageAlias(h)
  <2>1. PICK e \in Ents, n \in Names, ms \in SUBSET Mentions : Stage(h, Alias(e, n, ms))
    BY <1>1, <1>2, <1>4, NameAssumption DEF StageAlias
  <2>2. Alias(e, n, ms) \in Change /\ Alias(e, n, ms).op = "alias"
    BY DEF Alias, Change
  <2>3. QED
    BY <2>1, <2>2 DEF Closed
<1>5. CASE StageMerge(h)
  <2>1. PICK e \in Ents, from \in SUBSET Ents, ms \in SUBSET Mentions : Stage(h, Merge(e, from, ms))
    BY <1>1, <1>2, <1>5 DEF StageMerge
  <2>2. Merge(e, from, ms) \in Change /\ Merge(e, from, ms).op = "merge"
    BY DEF Merge, Change
  <2>3. QED
    BY <2>1, <2>2 DEF Closed
<1>6. CASE StageSplit(h)
  <2>1. PICK e \in Ents, succs \in SUBSET Ents :
          \E support \in [succs -> Supports],
             moves \in [Locators(g, e) -> succs],
             assign \in [Active(led, e) -> succs \cup {Nobody}] :
            Stage(h, Split(e, support, moves, assign))
    BY <1>1, <1>6 DEF StageSplit
  <2>2. PICK support \in [succs -> Supports],
             moves \in [Locators(g, e) -> succs],
             assign \in [Active(led, e) -> succs \cup {Nobody}] :
            Stage(h, Split(e, support, moves, assign))
    BY <2>1
  <2> DEFINE d == Split(e, support, moves, assign)
  <2>3. /\ Locators(g, e) \subseteq Slots /\ Active(led, e) \subseteq Binding
    BY <1>1 DEF Locators, Active, Ledger
  <2>4. support \in Partial(Ents, SUBSET Mentions)
    <3>1. support \in [succs -> SUBSET Mentions]
      BY <1>2
    <3>2. QED
      BY <3>1 DEF Partial
  <2>5. moves \in Partial(Slots, Ents)
    <3>1. moves \in [Locators(g, e) -> Ents]
      BY <2>1
    <3>2. QED
      BY <2>3, <3>1 DEF Partial
  <2>6. assign \in Partial(Binding, Ents \cup {Nobody})
    <3>1. assign \in [Active(led, e) -> Ents \cup {Nobody}]
      BY <2>1
    <3>2. QED
      BY <2>3, <3>1 DEF Partial
  <2>7. d \in Splits /\ d.support = support /\ d.moves = moves /\ d.assign = assign
    BY <2>4, <2>5, <2>6 DEF Split, Splits
  <2>8. Closed(d)
    BY <2>7 DEF Closed
  <2>9. d \in Change
    BY <2>7 DEF Change
  <2>10. QED
    BY <2>2, <2>8, <2>9
<1>7. QED
  BY <1>3, <1>4, <1>5, <1>6

(* What a write does to the row: nothing but what Sound allows, on the     *)
(* present row and under a later generation.                               *)
Advances ==
  /\ Decided(row.led, row'.led) /\ row.gen < row'.gen

LEMMA StageWrites ==
  ASSUME RowInv, NEW h \in Hosts, NEW d \in Change, Closed(d), Stage(h, d)
  PROVE  /\ RowInv' /\ Advances /\ held[h] = row
         /\ row'.led = Staged(row.graph, row.led, d) /\ world'.graph = row.graph
<1> DEFINE g == held[h].graph
           led == held[h].led
<1>1. g \in Graph /\ led \in Ledger /\ Sound(g, led)
  BY HeldIsSound
<1>2. Fits(g, led, d) /\ PreviewFits(g, d) /\ Commit(h, g, Staged(g, led, d))
  BY DEF Stage
<1> HIDE DEF g, led
<1>3. Sound(g, Staged(g, led, d)) /\ Decided(led, Staged(g, led, d))
  BY <1>1, <1>2, StageKeeps, StagedDecides
<1>4. RowInv' /\ held[h] = row /\ row'.led = Staged(g, led, d) /\ world'.graph = g /\ row.gen < row'.gen
  BY <1>2, <1>3, CommitKeeps DEF g, led
<1>5. QED
  BY <1>3, <1>4 DEF Advances, g, led

LEMMA DecideWrites ==
  ASSUME RowInv, NEW h \in Hosts, NEW i, NEW t \in Int, Decide(h, i, t)
  PROVE  LET d == row.led.reviews[i].change IN
         /\ RowInv' /\ Advances /\ held[h] = row
         /\ i \in In(row.led, "pending") /\ d \in Change /\ Closed(d) /\ Fits(row.graph, row.led, d)
         /\ row'.led = LedgerAfter(row.led, d, i, t)
         /\ row.led.reviews[i].graph = row.graph /\ world'.graph = GraphAfter(row.graph, d)
<1> DEFINE g == held[h].graph
           led == held[h].led
           d == led.reviews[i].change
<1>1. g \in Graph /\ led \in Ledger /\ Sound(g, led)
  BY HeldIsSound
<1>2. /\ i \in In(led, "pending") /\ led.reviews[i].graph = g
      /\ Fits(g, led, d) /\ PreviewFits(g, d)
      /\ Commit(h, GraphAfter(g, d), LedgerAfter(led, d, i, t)) /\ Read(d, t)
  BY DEF Decide, FreshBase, InTime
<1>3. d \in Change /\ Closed(d)
  BY <1>1, <1>2, ReviewType DEF In, Sound, Prepared
<1>r. Read(led.reviews[i].change, t)
  BY <1>2
<1> HIDE DEF g, led, d
<1>4. Sound(GraphAfter(g, d), LedgerAfter(led, d, i, t)) /\ Decided(led, LedgerAfter(led, d, i, t))
  BY <1>1, <1>2, <1>3, <1>r, DecideKeeps, AfterDecides
<1>5. /\ RowInv' /\ held[h] = row /\ row'.led = LedgerAfter(led, d, i, t)
      /\ world'.graph = GraphAfter(g, d) /\ row.gen < row'.gen
  BY <1>2, <1>4, CommitKeeps DEF led
<1>6. QED
  BY <1>2, <1>3, <1>4, <1>5 DEF Advances, g, led, d

LEMMA RejectWrites ==
  ASSUME RowInv, NEW h \in Hosts, NEW i, NEW t \in Int, Reject(h, i, t)
  PROVE  /\ RowInv' /\ Advances /\ held[h] = row
         /\ i \in In(row.led, "pending")
         /\ row'.led = Rejected(row.led, i, t) /\ world'.graph = row.graph
<1> DEFINE g == held[h].graph
           led == held[h].led
<1>1. g \in Graph /\ led \in Ledger /\ Sound(g, led)
  BY HeldIsSound
<1>2. /\ i \in In(led, "pending") /\ Commit(h, g, Rejected(led, i, t))
      /\ Read(led.reviews[i].change, t)
  BY DEF Reject, Rejected, InTime
<1> HIDE DEF g, led
<1>3. Sound(g, Rejected(led, i, t)) /\ Decided(led, Rejected(led, i, t))
  BY <1>1, <1>2, RejectKeeps, RejectedDecides
<1>4. RowInv' /\ held[h] = row /\ row'.led = Rejected(led, i, t) /\ world'.graph = g /\ row.gen < row'.gen
  BY <1>2, <1>3, CommitKeeps DEF g, led
<1>5. QED
  BY <1>2, <1>3, <1>4 DEF Advances, g, led

LEMMA SyncKeeps ==
  ASSUME RowInv, NEW g, NEW led, NEW gen \in Nat, gen > row.gen,
         Sound(g, led), Decided(row.led, led), Sync(g, led, gen),
         world' = [rev |-> world.rev + 1, graph |-> g], held' = held
  PROVE  RowInv' /\ Advances
<1> DEFINE new == [gen |-> gen, rev |-> world.rev + 1, graph |-> g, led |-> led]
<1>1. row \in Row /\ row.gen \in Nat /\ row.rev \in Nat /\ world.rev = row.rev
      /\ held \in [Hosts -> Row]
  BY DEF RowInv, Row
<1>2. row' = new
  BY DEF Sync
<1>3. new \in Row /\ new.gen = gen /\ new.rev = world.rev + 1 /\ new.graph = g /\ new.led = led
  BY <1>1 DEF Row, Sound
<1> HIDE DEF new
<1>4. ASSUME NEW k \in Hosts PROVE Sound(held'[k].graph, held'[k].led) /\ Earlier(held'[k], row')
  <2>1. Earlier(held[k], row) /\ Sound(held[k].graph, held[k].led) /\ held[k] \in Row
    BY <1>1 DEF RowInv
  <2>2. QED
    BY <1>1, <1>2, <1>3, <2>1, EarlierOn
<1>5. QED
  BY <1>1, <1>2, <1>3, <1>4 DEF RowInv, Advances

LEMMA AcceptWrites ==
  ASSUME RowInv, Accept
  PROVE  RowInv' /\ Advances /\ held' = held /\ context' = context
<1>1. PICK o \in Objs, record \in Brought :
        LET g == Grown(world.graph, o, record) IN
        /\ ShapeFits(g) /\ Restorable(g, row.led)
        /\ world' = [rev |-> world.rev + 1, graph |-> g]
        /\ \/ Sync(g, row.led, row.gen + 1)
           \/ \E e \in Ents \cap {record[p] : p \in Places}, m \in Mentions \ Asked :
                \E t \in 1 .. MaxTime :
                  /\ Fits(g, row.led, Bind(e, m)) /\ When[m] < t
                  /\ Sync(g, BoundIn(g, row.led, e, m, t), row.gen + 2)
        /\ UNCHANGED <<held, context>>
  BY DEF Accept, Later
<1> DEFINE g == Grown(world.graph, o, record)
<1>2. Sound(world.graph, row.led) /\ world.graph \in Graph /\ row.gen \in Nat /\ row.led \in Ledger
  BY DEF RowInv, Row, Sound
<1>3. Sound(g, row.led)
  BY <1>1, <1>2, GrownIs, GrowKeeps
<1>4. ShapeFits(g) /\ world' = [rev |-> world.rev + 1, graph |-> g] /\ held' = held /\ context' = context
  BY <1>1
<1>5. \/ Sync(g, row.led, row.gen + 1)
      \/ \E e \in Ents, m \in Mentions, t \in 1 .. MaxTime :
           /\ Fits(g, row.led, Bind(e, m)) /\ When[m] < t
           /\ Sync(g, BoundIn(g, row.led, e, m, t), row.gen + 2)
  BY <1>1
<1> HIDE DEF g
<1>6. CASE Sync(g, row.led, row.gen + 1)
  <2>1. Decided(row.led, row.led)
    BY <1>2 DEF Decided, Ledger
  <2>2. QED
    BY <1>2, <1>3, <1>4, <1>6, <2>1, SyncKeeps
<1>7. CASE \E e \in Ents, m \in Mentions, t \in 1 .. MaxTime :
             /\ Fits(g, row.led, Bind(e, m)) /\ When[m] < t
             /\ Sync(g, BoundIn(g, row.led, e, m, t), row.gen + 2)
  <2>1. PICK e \in Ents, m \in Mentions, t \in 1 .. MaxTime :
          /\ Fits(g, row.led, Bind(e, m)) /\ When[m] < t
          /\ Sync(g, BoundIn(g, row.led, e, m, t), row.gen + 2)
    BY <1>7
  <2>2. t \in Int /\ When[m] <= t
    BY <2>1, TimeAssumption
  <2>3. Sound(g, BoundIn(g, row.led, e, m, t)) /\ Decided(row.led, BoundIn(g, row.led, e, m, t))
    BY <1>3, <2>1, <2>2, BoundKeeps
  <2>4. QED
    BY <1>2, <1>4, <2>1, <2>3, SyncKeeps
<1>8. QED
  BY <1>4, <1>5, <1>6, <1>7

LEMMA RefreshKeeps ==
  ASSUME RowInv, NEW h \in Hosts, Refresh(h)
  PROVE  RowInv' /\ row' = row /\ world' = world
<1>1. held' = [held EXCEPT ![h] = row] /\ row' = row /\ world' = world
  BY DEF Refresh
<1>2. row \in Row /\ held \in [Hosts -> Row]
  BY DEF RowInv
<1>3. ASSUME NEW k \in Hosts PROVE Sound(held'[k].graph, held'[k].led) /\ Earlier(held'[k], row)
  BY <1>1, <1>2, EarlierItself DEF RowInv
<1>4. QED
  BY <1>1, <1>2, <1>3 DEF RowInv

LEMMA BornSound == Sound(NewGraph, NewLedger) /\ NewRow \in Row
<1>1. NewLedger \in Ledger /\ Reviews(NewLedger) = {}
  BY DEF NewLedger, Ledger, Reviews
<1>2. /\ NewLedger.bindings = {} /\ NewLedger.redirects = {} /\ NewLedger.tombs = {}
      /\ NewLedger.revision = 0
  BY DEF NewLedger
<1>3. In(NewLedger, "accepted") = {}
  BY <1>1 DEF In
<1>4. ReviewsFit(NewLedger)
  <2>1. Cardinality({}) = 0
    BY FS_EmptySet
  <2>2. 1 .. 0 = {}
    OBVIOUS
  <2>3. {NewLedger.reviews[i].made : i \in {}} = {}
    OBVIOUS
  <2>4. QED
    BY <1>2, <1>3, <2>1, <2>2, <2>3 DEF ReviewsFit
<1>5. EnvelopesFit(NewLedger) /\ DatesFit(NewLedger) /\ Prepared(NewLedger)
  BY <1>1 DEF EnvelopesFit, DatesFit, Done, Prepared
<1>6. /\ BindingsFit(NewGraph, NewLedger) /\ TombsFit(NewGraph, NewLedger)
      /\ RedirectsFit(NewGraph, NewLedger) /\ Kept(NewGraph, NewLedger)
      /\ Followed(NewLedger) /\ Led(NewGraph, NewLedger)
  BY <1>2 DEF BindingsFit, TombsFit, RedirectsFit, Kept, Followed, Led
<1>7. NewRow \in Row
  BY <1>1, BirthAssumption DEF NewRow, Row
<1>8. QED
  BY <1>1, <1>4, <1>5, <1>6, <1>7, BirthAssumption DEF Sound

LEMMA RowInit == Init => RowInv
<1> SUFFICES ASSUME Init PROVE RowInv
  OBVIOUS
<1>1. /\ row = NewRow /\ world = [rev |-> 0, graph |-> NewGraph]
      /\ held = [h \in Hosts |-> NewRow]
  BY DEF Init
<1>2. NewRow.graph = NewGraph /\ NewRow.led = NewLedger /\ NewRow.rev = 0
  BY DEF NewRow
<1>3. QED
  BY <1>1, <1>2, BornSound, EarlierItself DEF RowInv

LEMMA RowStep == RowInv /\ [Next]_vars => RowInv'
<1> SUFFICES ASSUME RowInv, [Next]_vars PROVE RowInv'
  OBVIOUS
<1>1. ASSUME NEW h \in Hosts, Refresh(h) PROVE RowInv'
  BY <1>1, RefreshKeeps
<1>2. ASSUME NEW h \in Hosts, StageBind(h) \/ StageAlias(h) \/ StageMerge(h) \/ StageSplit(h)
      PROVE  RowInv'
  BY <1>2, StagedChange, StageWrites
<1>3. \A t \in Dates : t \in Int
  BY TimeAssumption
<1>4. ASSUME NEW h \in Hosts, NEW i \in 1 .. MaxReviews, NEW t \in Dates, Decide(h, i, t)
      PROVE  RowInv'
  BY <1>3, <1>4, DecideWrites
<1>5. ASSUME NEW h \in Hosts, NEW i \in 1 .. MaxReviews, NEW t \in Dates, Reject(h, i, t)
      PROVE  RowInv'
  BY <1>3, <1>5, RejectWrites
<1>6. ASSUME NEW h \in Hosts, NEW m \in Asked, Resolve(h, m) PROVE RowInv'
  BY <1>6 DEF Resolve, RowInv
<1>7. CASE Accept
  BY <1>7, AcceptWrites
<1>8. CASE UNCHANGED vars
  BY <1>8 DEF vars, RowInv
<1>9. QED
  BY <1>1, <1>2, <1>4, <1>5, <1>6, <1>7, <1>8 DEF Next

(* The row that any process wrote is sound and in step with the World, and *)
(* every copy a process works on is a sound row of an earlier time.        *)
THEOREM RowStaysSound == Spec => []RowInv
BY RowInit, RowStep, PTL DEF Spec

(* The row that any process has written can be loaded by every other: it   *)
(* is in step with the World, everything in it fits, and a retired name    *)
(* leads to one living entity.  A pending review that is fresh fits        *)
(* because nothing that it fits against has changed since it was staged.   *)
THEOREM RowsLoad == Spec => []EveryRowLoads
<1>1. RowInv => EveryRowLoads
  <2> SUFFICES ASSUME RowInv PROVE EveryRowLoads
    OBVIOUS
  <2>1. /\ Sound(row.graph, row.led) /\ world.rev = row.rev /\ world.graph = row.graph
        /\ row.graph \in Graph /\ row.led \in Ledger
    BY DEF RowInv, Sound
  <2>2. \A led \in Ledger : LedgerType(led)
    BY DEF Ledger, LedgerType
  <2>3. TypeOK
    BY <2>1, <2>2, HeldIsSound DEF TypeOK
  <2>4. PendingFit(row.graph, row.led)
    BY <2>1 DEF Sound, Prepared, PendingFit, FreshBase, In
  <2>5. Restorable(row.graph, row.led)
    BY <2>1, <2>2, <2>4 DEF Sound, Restorable
  <2>6. OldNamesLead
    BY <2>1 DEF Sound, Led, OldNamesLead
  <2>7. QED
    BY <2>1, <2>3, <2>5, <2>6 DEF EveryRowLoads, Loads, Sound
<1>2. QED
  BY <1>1, RowStaysSound, PTL

-----------------------------------------------------------------------------
(* Nothing is lost.                                                        *)
Within(a, b) ==
  /\ \A i \in Reviews(a) : i \in Reviews(b) /\ b.reviews[i].change = a.reviews[i].change
  /\ a.tombs \subseteq b.tombs
  /\ {r.from : r \in a.redirects} \subseteq {r.from : r \in b.redirects}
  /\ \A x \in a.bindings : \E y \in b.bindings : x = [y EXCEPT !.now = x.now]

LEMMA SameBinding ==
  ASSUME NEW x \in Binding, NEW y \in Binding
  PROVE  /\ x = [y EXCEPT !.now = x.now]
              <=> x.atom = y.atom /\ x.accepted = y.accepted /\ x.review = y.review
         /\ x = [x EXCEPT !.now = x.now]
BY DEF Binding

LEMMA WithinOn ==
  ASSUME NEW a \in Ledger, NEW b \in Ledger, NEW c \in Ledger, Within(a, b), Within(b, c)
  PROVE  Within(a, c)
<1>1. a.bindings \subseteq Binding /\ b.bindings \subseteq Binding /\ c.bindings \subseteq Binding
  BY DEF Ledger
<1>2. ASSUME NEW x \in a.bindings PROVE \E z \in c.bindings : x = [z EXCEPT !.now = x.now]
  <2>1. PICK y \in b.bindings : x = [y EXCEPT !.now = x.now]
    BY DEF Within
  <2>2. PICK z \in c.bindings : y = [z EXCEPT !.now = y.now]
    BY DEF Within
  <2>3. x.atom = z.atom /\ x.accepted = z.accepted /\ x.review = z.review
    BY <1>1, <2>1, <2>2, SameBinding
  <2>4. x = [z EXCEPT !.now = x.now]
    BY <1>1, <2>3, SameBinding
  <2>5. QED
    BY <2>4
<1>3. QED
  BY <1>2 DEF Within

LEMMA StagedWithin ==
  ASSUME NEW g \in Graph, NEW led \in Ledger, NEW d \in Change
  PROVE  /\ Within(led, Staged(g, led, d))
         /\ \A i \in Reviews(led) : Staged(g, led, d).reviews[i] = led.reviews[i]
<1>1. \A x \in led.bindings : x = [x EXCEPT !.now = x.now]
  BY SameBinding DEF Ledger
<1>2. QED
  BY <1>1, StagedIs DEF Within

LEMMA RejectedWithin ==
  ASSUME NEW led \in Ledger, NEW i \in Reviews(led), NEW t \in Int
  PROVE  /\ Within(led, Rejected(led, i, t))
         /\ Rejected(led, i, t).reviews[i].status = "rejected"
         /\ \A k \in Reviews(led) \ {i} : Rejected(led, i, t).reviews[k] = led.reviews[k]
<1>1. \A x \in led.bindings : x = [x EXCEPT !.now = x.now]
  BY SameBinding DEF Ledger
<1>2. QED
  BY <1>1, RejectedIs DEF Within

LEMMA AfterWithin ==
  ASSUME NEW d \in Change, Closed(d), NEW g, NEW led \in Ledger, Fits(g, led, d),
         NEW i \in Reviews(led), NEW t \in Int
  PROVE  Within(led, LedgerAfter(led, d, i, t))
<1> DEFINE new == LedgerAfter(led, d, i, t)
<1>1. /\ new \in Ledger
      /\ new.bindings = BindingsAfter(led, d, i)
      /\ new.redirects = RedirectsAfter(led, d, i) /\ new.tombs = TombsAfter(led, d, i)
      /\ Reviews(new) = Reviews(led)
      /\ \A k \in Reviews(led) \ {i} : new.reviews[k] = led.reviews[k]
      /\ new.reviews[i].change = led.reviews[i].change
  BY LedgerAfterIs
<1> HIDE DEF new
<1>2. led.tombs \subseteq new.tombs
  BY <1>1, TombsAfterIs
<1>3. ASSUME NEW r \in led.redirects PROVE \E q \in new.redirects : q.from = r.from
  <2>1. CASE d.op = "merge"
    <3> DEFINE q == IF r.to \in d.from THEN [r EXCEPT !.to = d.to] ELSE r
    <3>1. r \in Redirect
      BY DEF Ledger
    <3>2. q.from = r.from
      BY <3>1 DEF Redirect
    <3>3. q \in RedirectsAfter(led, d, i)
      BY <2>1 DEF RedirectsAfter
    <3> HIDE DEF q
    <3>4. QED
      BY <1>1, <3>2, <3>3
  <2>2. CASE d.op # "merge"
    BY <1>1, <2>2 DEF RedirectsAfter
  <2>3. QED
    BY <2>1, <2>2
<1>4. ASSUME NEW x \in led.bindings PROVE \E y \in new.bindings : x = [y EXCEPT !.now = x.now]
  <2> DEFINE y == [x EXCEPT !.now = Moved(d, x)]
  <2>1. x \in Binding
    BY DEF Ledger
  <2>2. y \in new.bindings
    BY <1>1 DEF BindingsAfter
  <2>3. x = [y EXCEPT !.now = x.now]
    BY <2>1 DEF Binding
  <2> HIDE DEF y
  <2>4. QED
    BY <2>2, <2>3
<1>5. \A k \in Reviews(led) : k \in Reviews(new) /\ new.reviews[k].change = led.reviews[k].change
  BY <1>1
<1>6. Within(led, new)
  BY <1>2, <1>3, <1>4, <1>5 DEF Within
<1>7. QED
  BY <1>6 DEF new

LEMMA BoundWithin ==
  ASSUME NEW g, NEW led, Sound(g, led), NEW e \in Ents, NEW m \in Mentions,
         Fits(g, led, Bind(e, m)), NEW t \in Int
  PROVE  /\ Within(led, BoundIn(g, led, e, m, t))
         /\ \A i \in Reviews(led) : BoundIn(g, led, e, m, t).reviews[i] = led.reviews[i]
<1> DEFINE d == Bind(e, m)
           new == Staged(g, led, d)
           n == Len(led.reviews) + 1
           b == LedgerAfter(new, d, n, t)
<1>1. g \in Graph /\ led \in Ledger /\ ShapeFits(g)
  BY DEF Sound
<1>2. d \in Change /\ Closed(d)
  BY <1>1, BindIs
<1>3. BoundIn(g, led, e, m, t) = b
  BY DEF BoundIn
<1>4. Fits(g, led, d)
  OBVIOUS
<1> HIDE DEF d
<1>5. /\ new \in Ledger
      /\ new.revision = led.revision /\ new.bindings = led.bindings
      /\ new.redirects = led.redirects /\ new.tombs = led.tombs
      /\ Reviews(new) = Reviews(led) \cup {n} /\ n \notin Reviews(led)
      /\ \A i \in Reviews(led) : new.reviews[i] = led.reviews[i]
  BY <1>1, <1>2, StagedIs
<1>6. Within(led, new)
  BY <1>1, <1>2, StagedWithin
<1> HIDE DEF new, n
<1>7. Fits(g, new, d)
  BY <1>4, <1>5 DEF Fits, SplitFits, OneTarget, Retired, Active
<1>8. /\ b \in Ledger /\ Within(new, b)
      /\ \A k \in Reviews(new) \ {n} : b.reviews[k] = new.reviews[k]
  BY <1>2, <1>5, <1>7, LedgerAfterIs, AfterWithin
<1> HIDE DEF b
<1>9. Within(led, b)
  BY <1>1, <1>5, <1>6, <1>8, WithinOn
<1>10. \A i \in Reviews(led) : b.reviews[i] = led.reviews[i]
  BY <1>5, <1>8
<1>11. QED
  BY <1>3, <1>9, <1>10

(* Only a decision accepts what was pending, and it makes of the graph     *)
(* what the review showed.                                                 *)
Shown(a, b) ==
  \A i \in Reviews(a) : a.reviews[i].status = "pending" /\ b.reviews[i].status = "accepted" =>
    /\ world.graph = a.reviews[i].graph
    /\ world'.graph = GraphAfter(a.reviews[i].graph, a.reviews[i].change)

LEMMA GrowsIs ==
  ASSUME NEW a \in Ledger, NEW b \in Ledger, Within(a, b), Decided(a, b), Shown(a, b)
  PROVE  Grows(a, b)
BY DEF Within, Decided, Shown, Grows

LEMMA StageGrows ==
  ASSUME RowInv, NEW h \in Hosts, NEW d \in Change, Closed(d), Stage(h, d)
  PROVE  Grows(row.led, row'.led) /\ row.gen < row'.gen
<1>1. row.led \in Ledger /\ row.graph \in Graph /\ RowInv' /\ row'.led \in Ledger
  BY StageWrites DEF RowInv, Sound
<1>2. Advances /\ row'.led = Staged(row.graph, row.led, d)
  BY StageWrites
<1>3. Within(row.led, row'.led) /\ Shown(row.led, row'.led)
  BY <1>1, <1>2, StagedWithin DEF Shown
<1>4. QED
  BY <1>1, <1>2, <1>3, GrowsIs DEF Advances

LEMMA RejectGrows ==
  ASSUME RowInv, NEW h \in Hosts, NEW i, NEW t \in Int, Reject(h, i, t)
  PROVE  Grows(row.led, row'.led) /\ row.gen < row'.gen
<1>1. row.led \in Ledger /\ RowInv' /\ row'.led \in Ledger
  BY RejectWrites DEF RowInv, Sound
<1>2. Advances /\ row'.led = Rejected(row.led, i, t) /\ i \in Reviews(row.led)
  BY RejectWrites DEF In
<1>3. Within(row.led, row'.led) /\ Shown(row.led, row'.led)
  BY <1>1, <1>2, RejectedWithin DEF Shown
<1>4. QED
  BY <1>1, <1>2, <1>3, GrowsIs DEF Advances

LEMMA DecideGrows ==
  ASSUME RowInv, NEW h \in Hosts, NEW i, NEW t \in Int, Decide(h, i, t)
  PROVE  Grows(row.led, row'.led) /\ row.gen < row'.gen
<1> DEFINE d == row.led.reviews[i].change
<1>1. row.led \in Ledger /\ RowInv' /\ row'.led \in Ledger /\ world.graph = row.graph
  BY DecideWrites DEF RowInv, Sound
<1>2. /\ Advances /\ row'.led = LedgerAfter(row.led, d, i, t) /\ i \in Reviews(row.led)
      /\ d \in Change /\ Closed(d) /\ Fits(row.graph, row.led, d)
      /\ row.led.reviews[i].graph = row.graph /\ world'.graph = GraphAfter(row.graph, d)
  BY DecideWrites DEF In
<1>3. Within(row.led, row'.led) /\ \A k \in Reviews(row.led) \ {i} : row'.led.reviews[k] = row.led.reviews[k]
  BY <1>1, <1>2, AfterWithin, LedgerAfterIs
<1>4. Shown(row.led, row'.led)
  BY <1>1, <1>2, <1>3 DEF Shown
<1>5. QED
  BY <1>1, <1>2, <1>3, <1>4, GrowsIs DEF Advances

LEMMA SameGrows ==
  ASSUME NEW led \in Ledger PROVE Grows(led, led)
<1>1. \A x \in led.bindings : x = [x EXCEPT !.now = x.now]
  BY SameBinding DEF Ledger
<1>2. led.revision \in Nat
  BY DEF Ledger
<1>3. QED
  BY <1>1, <1>2 DEF Grows

LEMMA AcceptGrows ==
  ASSUME RowInv, Accept
  PROVE  Grows(row.led, row'.led) /\ row.gen < row'.gen
<1>1. PICK o \in Objs, record \in Brought :
        LET g == Grown(world.graph, o, record) IN
        /\ ShapeFits(g) /\ Restorable(g, row.led)
        /\ \/ Sync(g, row.led, row.gen + 1)
           \/ \E e \in Ents \cap {record[p] : p \in Places}, m \in Mentions \ Asked :
                \E t \in 1 .. MaxTime :
                  /\ Fits(g, row.led, Bind(e, m))
                  /\ Sync(g, BoundIn(g, row.led, e, m, t), row.gen + 2)
  BY DEF Accept
<1> DEFINE g == Grown(world.graph, o, record)
<1>2. Sound(world.graph, row.led) /\ world.graph \in Graph /\ row.led \in Ledger
  BY DEF RowInv, Sound
<1>3. Sound(g, row.led)
  BY <1>1, <1>2, GrownIs, GrowKeeps
<1>4. \/ row'.led = row.led
      \/ \E e \in Ents, m \in Mentions, t \in 1 .. MaxTime :
           Fits(g, row.led, Bind(e, m)) /\ row'.led = BoundIn(g, row.led, e, m, t)
  BY <1>1 DEF Sync
<1> HIDE DEF g
<1>5. Advances /\ RowInv' /\ row'.led \in Ledger
  BY AcceptWrites DEF RowInv, Sound
<1>6. CASE row'.led = row.led
  BY <1>2, <1>5, <1>6, SameGrows DEF Advances
<1>7. CASE \E e \in Ents, m \in Mentions, t \in 1 .. MaxTime :
             Fits(g, row.led, Bind(e, m)) /\ row'.led = BoundIn(g, row.led, e, m, t)
  <2>1. PICK e \in Ents, m \in Mentions, t \in 1 .. MaxTime :
          Fits(g, row.led, Bind(e, m)) /\ row'.led = BoundIn(g, row.led, e, m, t)
    BY <1>7
  <2>2. t \in Int
    BY <2>1, TimeAssumption
  <2>3. Within(row.led, row'.led) /\ \A i \in Reviews(row.led) : row'.led.reviews[i] = row.led.reviews[i]
    BY <1>3, <2>1, <2>2, BoundWithin
  <2>4. Shown(row.led, row'.led)
    BY <2>3 DEF Shown
  <2>5. QED
    BY <1>2, <1>5, <2>3, <2>4, GrowsIs DEF Advances
<1>8. QED
  BY <1>4, <1>6, <1>7

(* Every write is a write on the present row (Earlier), and what it writes *)
(* keeps every decision, tombstone, redirect and binding of it.            *)
THEOREM NothingIsLost == Spec => LedgerGrows
<1>1. ASSUME RowInv, [Next]_vars
      PROVE  [Grows(row.led, row'.led) /\ row.gen <= row'.gen]_vars
  <2>1. row.led \in Ledger /\ row.gen \in Nat
    BY <1>1 DEF RowInv, Row
  <2>2. CASE row' = row
    BY <2>1, <2>2, SameGrows
  <2>3. CASE Grows(row.led, row'.led) /\ row.gen < row'.gen
    <3>1. row'.gen \in Nat
      BY <1>1, RowStep DEF RowInv, Row
    <3>2. QED
      BY <2>1, <2>3, <3>1
  <2>4. ASSUME NEW h \in Hosts, Refresh(h) \/ \E m \in Asked : Resolve(h, m) PROVE row' = row
    BY <2>4 DEF Refresh, Resolve
  <2>5. ASSUME NEW h \in Hosts, StageBind(h) \/ StageAlias(h) \/ StageMerge(h) \/ StageSplit(h)
        PROVE  Grows(row.led, row'.led) /\ row.gen < row'.gen
    BY <1>1, <2>5, StagedChange, StageGrows
  <2>6. \A t \in Dates : t \in Int
    BY TimeAssumption
  <2>7. ASSUME NEW h \in Hosts, NEW i \in 1 .. MaxReviews, NEW t \in Dates,
               Decide(h, i, t) \/ Reject(h, i, t)
        PROVE  Grows(row.led, row'.led) /\ row.gen < row'.gen
    BY <1>1, <2>6, <2>7, DecideGrows, RejectGrows
  <2>8. Accept => Grows(row.led, row'.led) /\ row.gen < row'.gen
    BY <1>1, AcceptGrows
  <2>9. CASE UNCHANGED vars
    BY <2>9
  <2>10. CASE Next
    BY <2>2, <2>3, <2>4, <2>5, <2>7, <2>8, <2>10 DEF Next
  <2>11. QED
    BY <1>1, <2>9, <2>10
<1>2. RowInv /\ [Next]_vars => [Grows(row.led, row'.led) /\ row.gen <= row'.gen]_vars
  BY <1>1
<1>3. QED
  BY <1>2, RowStaysSound, PTL DEF Spec, LedgerGrows

-----------------------------------------------------------------------------
(* What the resolver answers.                                              *)
LEMMA OneOfMeans ==
  ASSUME NEW S, IsFiniteSet(S)
  PROVE  /\ OneOf(S).state \in {"resolved", "unresolved", "ambiguous"}
         /\ OneOf(S).state = "resolved" => S = {OneOf(S).entity} /\ Cardinality(S) = 1
<1>1. CASE Cardinality(S) = 1
  <2>1. PICK x : S = {x}
    BY <1>1, FS_Singleton
  <2>2. Only(S) = x
    BY <2>1 DEF Only
  <2>3. QED
    BY <1>1, <2>1, <2>2 DEF OneOf, Resolved
<1>2. CASE Cardinality(S) # 1
  BY <1>2 DEF OneOf, Unresolved, Ambiguous
<1>3. QED
  BY <1>1, <1>2

LEMMA MeaningIs ==
  ASSUME NEW g, NEW H, NEW t, NEW w \in Word, ShapeFits(g), HistoryFits(g, H, t)
  PROVE  /\ w.form \in {"pronoun", "kin", "role", "words"}
         /\ w.form = "pronoun" => Meaning(g, H, w, t) \in {Unresolved, OneOf(Recent(g, H, w, t))}
         /\ w.form = "kin" => Meaning(g, H, w, t) = KinMeans(g, w, t)
         /\ w.form = "role" => Meaning(g, H, w, t) = Unresolved
         /\ w.form = "words" => Meaning(g, H, w, t) =
              IF Exact(g, w) # {} THEN NameMeans(g, w)
              ELSE IF Possessive(g, w) \/ Embedded(g, w) # {} THEN Unresolved
              ELSE DescriptionMeans(g, w, t)
<1>1. w.form \in {"pronoun", "kin", "role", "words"}
  BY DEF Word
<1>2. ASSUME w.form = "pronoun" PROVE Meaning(g, H, w, t) \in {Unresolved, OneOf(Recent(g, H, w, t))}
  BY <1>2 DEF Meaning
<1>3. ASSUME w.form = "kin" PROVE Meaning(g, H, w, t) = KinMeans(g, w, t)
  BY <1>3 DEF Meaning
<1>4. ASSUME w.form = "role" PROVE Meaning(g, H, w, t) = Unresolved
  BY <1>4 DEF Meaning
<1>5. ASSUME w.form = "words"
      PROVE  Meaning(g, H, w, t) =
              IF Exact(g, w) # {} THEN NameMeans(g, w)
              ELSE IF Possessive(g, w) \/ Embedded(g, w) # {} THEN Unresolved
              ELSE DescriptionMeans(g, w, t)
  BY <1>5 DEF Meaning
<1>6. QED
  BY <1>1, <1>2, <1>3, <1>4, <1>5

(* An answer is one of those it may be, and means who lives: a pronoun who *)
(* was spoken of last, a name the only one that bears it.                  *)
LEMMA MeaningMeans ==
  ASSUME NEW g, IsFiniteSet(g.ents), NEW H, NEW t, NEW w \in Word,
         ShapeFits(g), HistoryFits(g, H, t)
  PROVE  LET r == Meaning(g, H, w, t) IN
         /\ r.state # "refused"
         /\ r.state = "resolved" =>
              /\ r.entity \in g.ents
              /\ w.form = "pronoun" => \E x \in Latest(H) : x.entity = r.entity
              /\ w.form # "pronoun" => \A e \in Exact(g, w) : e = r.entity
<1> DEFINE r == Meaning(g, H, w, t)
<1>0. \A S \in SUBSET g.ents : IsFiniteSet(S)
  BY FS_Subset
<1>1. Unresolved.state = "unresolved" /\ Ambiguous.state = "ambiguous"
  BY DEF Unresolved, Ambiguous
<1>2. CASE w.form = "pronoun"
  <2> DEFINE S == Recent(g, H, w, t)
  <2>1. S \subseteq g.ents /\ \A e \in S : \E x \in Latest(H) : x.entity = e
    BY DEF Recent, Latest, HistoryFits
  <2>2. r \in {Unresolved, OneOf(S)}
    BY <1>2, MeaningIs
  <2> HIDE DEF S, r
  <2>3. /\ OneOf(S).state \in {"resolved", "unresolved", "ambiguous"}
        /\ OneOf(S).state = "resolved" => S = {OneOf(S).entity}
    BY <1>0, <2>1, OneOfMeans
  <2>4. r.state # "refused" /\ (r.state = "resolved" => r.entity \in S)
    BY <1>1, <2>2, <2>3
  <2>5. QED
    BY <1>2, <2>1, <2>4 DEF r
<1>3. CASE w.form = "kin"
  <2> DEFINE K == Kin(g, w.family, w, t)
             X == Exact(g, w)
  <2>1. K \subseteq g.ents /\ X \subseteq g.ents
    BY DEF Kin, Exact
  <2>2. r = IF Cardinality(K) = 1 /\ X \subseteq K THEN Resolved(Only(K))
            ELSE IF Cardinality(K \cup X) > 1 THEN Ambiguous ELSE Unresolved
    BY <1>3, MeaningIs DEF KinMeans
  <2> HIDE DEF K, X, r
  <2>3. CASE Cardinality(K) = 1 /\ X \subseteq K
    <3>1. PICK x : K = {x}
      BY <1>0, <2>1, <2>3, FS_Singleton
    <3>2. r = [state |-> "resolved", entity |-> x]
      BY <2>2, <2>3, <3>1 DEF Only, Resolved
    <3>3. QED
      BY <1>3, <2>1, <2>3, <3>1, <3>2 DEF r, X
  <2>4. CASE ~(Cardinality(K) = 1 /\ X \subseteq K)
    <3>1. r \in {Ambiguous, Unresolved}
      BY <2>2, <2>4
    <3>2. r.state \notin {"refused", "resolved"}
      BY <1>1, <3>1
    <3>3. QED
      BY <3>2 DEF r
  <2>5. QED
    BY <2>3, <2>4
<1>4. CASE w.form = "role"
  <2>1. r = Unresolved
    BY <1>4, MeaningIs
  <2> HIDE DEF r
  <2>2. QED
    BY <1>1, <2>1 DEF r
<1>5. CASE w.form = "words" /\ Exact(g, w) # {}
  <2> DEFINE X == Exact(g, w)
             a == OneOf(X)
  <2>1. X \subseteq g.ents
    BY DEF Exact
  <2>2. r = IF a.state = "resolved" /\ ~Expected(a.entity, w) THEN Unresolved ELSE a
    BY <1>5, MeaningIs DEF NameMeans
  <2>3. a.state \in {"resolved", "unresolved", "ambiguous"} /\ (a.state = "resolved" => X = {a.entity})
    BY <1>0, <2>1, OneOfMeans
  <2> HIDE DEF a, r
  <2>4. r \in {Unresolved, a}
    BY <2>2
  <2>5. r.state # "refused" /\ (r.state = "resolved" => X = {r.entity})
    BY <1>1, <2>3, <2>4
  <2> HIDE DEF X
  <2>6. r.state = "resolved" => r.entity \in g.ents /\ \A e \in X : e = r.entity
    BY <2>1, <2>5
  <2>7. QED
    BY <1>5, <2>5, <2>6 DEF r, X
<1>6. CASE w.form = "words" /\ Exact(g, w) = {}
  <2> DEFINE D == Described(g, w, t)
             E == {e \in D : Satisfies(g, e, w, t)}
  <2>1. E \subseteq g.ents
    BY DEF Described
  <2>2. \/ r = Unresolved
        \/ r = IF Cardinality(E) = 1 THEN Resolved(Only(E))
               ELSE IF Cardinality(D) > 1 THEN Ambiguous ELSE Unresolved
    BY <1>6, MeaningIs DEF DescriptionMeans
  <2> HIDE DEF D, E, r
  <2>3. CASE Cardinality(E) = 1 /\ r = Resolved(Only(E))
    <3>1. PICK x : E = {x}
      BY <1>0, <2>1, <2>3, FS_Singleton
    <3>2. r = [state |-> "resolved", entity |-> x]
      BY <2>3, <3>1 DEF Only, Resolved
    <3>3. QED
      BY <1>6, <2>1, <3>1, <3>2 DEF r
  <2>4. CASE ~(Cardinality(E) = 1 /\ r = Resolved(Only(E)))
    <3>1. r \in {Ambiguous, Unresolved}
      BY <2>2, <2>4
    <3>2. r.state \notin {"refused", "resolved"}
      BY <1>1, <3>1
    <3>3. QED
      BY <3>2 DEF r
  <2>5. QED
    BY <2>3, <2>4
<1>7. QED
  BY <1>2, <1>3, <1>4, <1>5, <1>6, MeaningIs

-----------------------------------------------------------------------------
(* A context that is honoured.                                             *)
ContextInv == DOMAIN context = Hosts /\ ContextsHold

(* Two copies between which no context is retired explain a mention alike: *)
(* the reviews behind their bindings were decided in both.                 *)
LEMMA SameExplanation ==
  ASSUME NEW a, NEW b, NEW g, Sound(g, a), Decided(a, b), b.bindings = a.bindings
  PROVE  /\ \A x \in a.bindings : b.reviews[x.review] = a.reviews[x.review]
         /\ \A m : Visible(b, m) = Visible(a, m)
<1>1. ASSUME NEW x \in a.bindings PROVE b.reviews[x.review] = a.reviews[x.review]
  <2>1. x.review \in Reviews(a) /\ a.reviews[x.review].status = "accepted"
    BY DEF Sound, BindingsFit, In
  <2>2. QED
    BY <2>1 DEF Decided
<1>2. QED
  BY <1>1 DEF Visible

LEMMA RetireKeeps ==
  ASSUME RowInv, ContextInv, NEW h \in Hosts, NEW new \in Row, Decided(held[h].led, new.led),
         held' = [held EXCEPT ![h] = new], Retire(h, new)
  PROVE  ContextInv'
<1>1. held \in [Hosts -> Row] /\ DOMAIN context = Hosts
  BY DEF RowInv, ContextInv
<1>2. DOMAIN context' = Hosts
  BY <1>1 DEF Retire
<1>3. ASSUME NEW k \in Hosts, context'[k] # NoContext
      PROVE  LET c == context'[k] IN
             /\ c.seen = Visible(held'[k].led, c.mention)
             /\ c.graph = held'[k].graph /\ c.revision = held'[k].led.revision
             /\ \A b \in c.seen : b.now \in c.graph.ents
             /\ \A b \in held'[k].led.bindings : held'[k].led.reviews[b.review].at < When[c.mention]
  <2>1. CASE k # h
    <3>1. held'[k] = held[k] /\ context'[k] = context[k]
      BY <1>1, <2>1 DEF Retire
    <3>2. QED
      BY <1>3, <3>1 DEF ContextInv, ContextsHold
  <2>2. CASE k = h
    <3>1. context'[h] = context[h] /\ ~Changed(held[h], new) /\ held'[h] = new
      BY <1>1, <1>3, <2>2 DEF Retire
    <3>2. /\ new.led.revision = held[h].led.revision /\ new.graph = held[h].graph
          /\ new.led.bindings = held[h].led.bindings
      BY <3>1 DEF Changed
    <3>3. Sound(held[h].graph, held[h].led)
      BY DEF RowInv
    <3>4. /\ \A x \in held[h].led.bindings : new.led.reviews[x.review] = held[h].led.reviews[x.review]
          /\ \A m : Visible(new.led, m) = Visible(held[h].led, m)
      BY <3>2, <3>3, SameExplanation
    <3>5. QED
      BY <1>3, <2>2, <3>1, <3>2, <3>4 DEF ContextInv, ContextsHold
  <2>3. QED
    BY <2>1, <2>2
<1>4. ContextsHold'
  BY <1>3 DEF ContextsHold, Visible
<1>5. QED
  BY <1>2, <1>4 DEF ContextInv

LEMMA CommitRetires ==
  ASSUME RowInv, ContextInv, RowInv', Advances, NEW h \in Hosts, held[h] = row,
         NEW g, NEW led, Commit(h, g, led)
  PROVE  ContextInv'
<1>1. held' = [held EXCEPT ![h] = row'] /\ Retire(h, row')
  BY DEF Commit
<1>2. row' \in Row /\ Decided(held[h].led, row'.led)
  BY DEF RowInv, Advances
<1>3. QED
  BY <1>1, <1>2, RetireKeeps

LEMMA ResolveKeeps ==
  ASSUME RowInv, ContextInv, NEW h \in Hosts, NEW m \in Asked, Resolve(h, m)
  PROVE  ContextInv'
<1> DEFINE led == held[h].led
           c == [mention |-> m, graph |-> held[h].graph,
                 revision |-> led.revision, seen |-> Visible(led, m)]
<1>1. context' = [context EXCEPT ![h] = c] /\ held' = held /\ DOMAIN context = Hosts
  BY DEF Resolve, ContextInv
<1>2. \A i \in In(led, "accepted") : led.reviews[i].at < When[m]
  BY DEF Resolve
<1>3. Sound(held[h].graph, led)
  BY DEF RowInv
<1>4. /\ c.seen = Visible(led, c.mention)
      /\ c.graph = held[h].graph /\ c.revision = led.revision
      /\ \A b \in c.seen : b.now \in c.graph.ents
      /\ \A b \in led.bindings : led.reviews[b.review].at < When[c.mention]
  <2>1. c.mention = m /\ c.graph = held[h].graph /\ c.revision = led.revision /\ c.seen = Visible(led, m)
    OBVIOUS
  <2> HIDE DEF c, led
  <2>2. \A b \in Visible(led, m) : b.now \in held[h].graph.ents
    BY <1>3 DEF Visible, Sound, BindingsFit
  <2>3. \A b \in led.bindings : led.reviews[b.review].at < When[m]
    BY <1>2, <1>3 DEF Sound, BindingsFit
  <2>4. QED
    BY <2>1, <2>2, <2>3
<1> HIDE DEF c
<1>5. ASSUME NEW k \in Hosts, context'[k] # NoContext
      PROVE  LET z == context'[k] IN
             /\ z.seen = Visible(held'[k].led, z.mention)
             /\ z.graph = held'[k].graph /\ z.revision = held'[k].led.revision
             /\ \A b \in z.seen : b.now \in z.graph.ents
             /\ \A b \in held'[k].led.bindings : held'[k].led.reviews[b.review].at < When[z.mention]
  <2>1. CASE k = h
    BY <1>1, <1>4, <2>1
  <2>2. CASE k # h
    BY <1>1, <1>5, <2>2 DEF ContextInv, ContextsHold
  <2>3. QED
    BY <2>1, <2>2
<1>6. ContextsHold' /\ DOMAIN context' = Hosts
  BY <1>1, <1>5 DEF ContextsHold, Visible
<1>7. QED
  BY <1>6 DEF ContextInv

LEMMA ContextStep == RowInv /\ ContextInv /\ [Next]_vars => ContextInv'
<1> SUFFICES ASSUME RowInv, ContextInv, [Next]_vars PROVE ContextInv'
  OBVIOUS
<1>1. ASSUME NEW h \in Hosts, Refresh(h) PROVE ContextInv'
  <2>1. held' = [held EXCEPT ![h] = row] /\ Retire(h, row) /\ row \in Row /\ Decided(held[h].led, row.led)
    BY <1>1 DEF Refresh, RowInv, Earlier
  <2>2. QED
    BY <2>1, RetireKeeps
<1>2. ASSUME NEW h \in Hosts, StageBind(h) \/ StageAlias(h) \/ StageMerge(h) \/ StageSplit(h)
      PROVE  ContextInv'
  <2>1. PICK d \in Change : Closed(d) /\ Stage(h, d)
    BY <1>2, StagedChange
  <2>2. \E g, led : Commit(h, g, led)
    BY <2>1 DEF Stage
  <2>3. RowInv' /\ Advances /\ held[h] = row
    BY <2>1, StageWrites
  <2>4. QED
    BY <2>2, <2>3, CommitRetires
<1>3. \A t \in Dates : t \in Int
  BY TimeAssumption
<1>4. ASSUME NEW h \in Hosts, NEW i \in 1 .. MaxReviews, NEW t \in Dates, Decide(h, i, t)
      PROVE  ContextInv'
  <2>1. \E g, led : Commit(h, g, led)
    BY <1>4 DEF Decide
  <2>2. RowInv' /\ Advances /\ held[h] = row
    BY <1>3, <1>4, DecideWrites
  <2>3. QED
    BY <2>1, <2>2, CommitRetires
<1>5. ASSUME NEW h \in Hosts, NEW i \in 1 .. MaxReviews, NEW t \in Dates, Reject(h, i, t)
      PROVE  ContextInv'
  <2>1. \E g, led : Commit(h, g, led)
    BY <1>5 DEF Reject
  <2>2. RowInv' /\ Advances /\ held[h] = row
    BY <1>3, <1>5, RejectWrites
  <2>3. QED
    BY <2>1, <2>2, CommitRetires
<1>6. ASSUME NEW h \in Hosts, NEW m \in Asked, Resolve(h, m) PROVE ContextInv'
  BY <1>6, ResolveKeeps
<1>7. CASE Accept
  BY <1>7, AcceptWrites DEF ContextInv, ContextsHold, Visible
<1>8. CASE UNCHANGED vars
  BY <1>8 DEF vars, ContextInv, ContextsHold, Visible
<1>9. QED
  BY <1>1, <1>2, <1>4, <1>5, <1>6, <1>7, <1>8 DEF Next

(* A mention whose binding is visible means today one of its heirs. *)
LEMMA SpokenIs ==
  ASSUME NEW S, NEW x \in Spoken(S)
  PROVE  \E b \in S : x.entity = b.now /\ x.at = When[b.atom]
BY DEF Spoken

LEMMA MeaningHolds ==
  ASSUME RowInv, ContextInv PROVE MeaningFollows
<1> SUFFICES ASSUME NEW h \in Hosts, context[h] # NoContext, NEW w \in Words
             PROVE  LET c == context[h]
                        led == held[h].led
                        r == Meaning(c.graph, Spoken(c.seen), w, When[c.mention]) IN
                    /\ r.state # "refused"
                    /\ r.state = "resolved" =>
                         /\ r.entity \in c.graph.ents \ Retired(led)
                         /\ w.form = "pronoun" =>
                              \E b \in c.seen :
                                /\ r.entity \in Heirs(led, b.accepted)
                                /\ \A d \in c.seen : When[d.atom] > When[b.atom] => d.now = r.entity
                         /\ w.form # "pronoun" =>
                              \A e \in c.graph.ents : w.name \in Labels(c.graph, e) => e = r.entity
  BY DEF MeaningFollows
<1> DEFINE c == context[h]
           led == held[h].led
           g == c.graph
           H == Spoken(c.seen)
           t == When[c.mention]
           r == Meaning(g, H, w, t)
<1>1. c.graph = held[h].graph /\ c.seen = Visible(led, c.mention) /\ \A b \in c.seen : b.now \in g.ents
  BY DEF ContextInv, ContextsHold
<1>2. Sound(g, led)
  BY <1>1 DEF RowInv
<1>3. IsFiniteSet(g.ents) /\ ShapeFits(g)
  BY <1>2, FS_Subset, EntityAssumption DEF Sound, Graph
<1>4. \A b \in c.seen : b \in led.bindings /\ b.now # Nobody /\ When[b.atom] < t
  BY <1>1 DEF Visible
<1>5. HistoryFits(g, H, t)
  BY <1>1, <1>4, SpokenIs DEF HistoryFits
<1>6. w \in Word
  BY NameAssumption
<1> HIDE DEF g, H, t, c, led
<1>7. /\ r.state # "refused"
      /\ r.state = "resolved" =>
           /\ r.entity \in g.ents
           /\ w.form = "pronoun" => \E x \in Latest(H) : x.entity = r.entity
           /\ w.form # "pronoun" => \A e \in Exact(g, w) : e = r.entity
  BY <1>3, <1>5, <1>6, MeaningMeans
<1> HIDE DEF r
<1>8. g.ents \cap Retired(led) = {}
  BY <1>2 DEF Sound, TombsFit, RedirectsFit, Retired
<1>9. ASSUME r.state = "resolved", w.form = "pronoun"
      PROVE  \E b \in c.seen :
               /\ r.entity \in Heirs(led, b.accepted)
               /\ \A d \in c.seen : When[d.atom] > When[b.atom] => d.now = r.entity
  <2>1. PICK x \in Latest(H) : x.entity = r.entity
    BY <1>7, <1>9
  <2>2. x \in H /\ \A y \in H : y.at <= x.at
    BY <2>1 DEF Latest
  <2>3. PICK b \in c.seen : x.entity = b.now /\ x.at = When[b.atom]
    BY <2>2, SpokenIs DEF H
  <2>4. r.entity \in Heirs(led, b.accepted)
    BY <1>2, <1>4, <2>1, <2>3 DEF Sound, Followed
  <2>5. ASSUME NEW d \in c.seen PROVE When[d.atom] <= When[b.atom]
    <3>1. [entity |-> d.now, at |-> When[d.atom], word |-> Told[d.atom]] \in H
      BY DEF H, Spoken
    <3>2. QED
      BY <2>2, <2>3, <3>1
  <2>6. \A d \in c.seen : When[d.atom] \in Int
    <3>1. \A d \in c.seen : d.atom \in Mentions
      BY <1>2, <1>4 DEF Sound, Ledger, Binding
    <3>2. QED
      BY <3>1, TimeAssumption
  <2>7. QED
    BY <2>4, <2>5, <2>6
<1>10. ASSUME r.state = "resolved", w.form # "pronoun"
       PROVE  \A e \in g.ents : w.name \in Labels(g, e) => e = r.entity
  BY <1>7, <1>10 DEF Exact
<1>11. QED
  BY <1>7, <1>8, <1>9, <1>10 DEF r, g, H, t, c, led

(* A context that is honoured is true: whenever the copy it was read from  *)
(* is replaced by one that binds otherwise, it is retired, and the reviews *)
(* behind its bindings cannot change.  So what it says of any words is     *)
(* never refused and means an entity that lives.                           *)
THEOREM ContextsAreTrue == Spec => []ContextsMean
<1>1. Init => ContextInv
  BY DEF Init, ContextInv, ContextsHold
<1>2. Spec => [](RowInv /\ ContextInv)
  BY <1>1, RowInit, RowStep, ContextStep, PTL DEF Spec
<1>3. RowInv /\ ContextInv => ContextsMean
  BY MeaningHolds DEF ContextInv, ContextsMean
<1>4. QED
  BY <1>2, <1>3, PTL

=============================================================================
