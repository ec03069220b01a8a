--------------------------- MODULE WorldBatchProofs ---------------------------
(***************************************************************************)
(* What an answer does to the World, for any number of people, answers and *)
(* Evidence: the World stays whole (WorldIsWhole).                         *)
(*                                                                         *)
(* The World is sound: every row is good by itself (Good: whom it is about *)
(* and whose words it holds), whoever was merged or renamed is gone        *)
(* (Led), and, until something is erased, every relationship descends from *)
(* the plain one between its two people (Chain).  Each way of writing the  *)
(* World keeps it sound, hence each item of an answer does, hence the      *)
(* answer does.                                                            *)
(***************************************************************************)
EXTENDS WorldBatch, Integers, FiniteSetTheorems, WellFoundedInduction, TLAPS

RowFields == {"says", "target", "stands", "support", "against", "words"}
WorldFields == {"entity", "born", "sources", "row", "next", "retracted", "led", "pending"}

(* Whom of the named people a row is about. *)
Whom(id, r) ==
  (IF IsRel(id) THEN {id[2], id[4]} ELSE IF id[1] = "cognition" THEN {r.target} ELSE {}) \cap Names

LiveIn(ev, S) == S # {} /\ \A e \in S : ev[e] = "live"
Apart(ent, id, r, n) == id[1] = "cognition" /\ r.says # n /\ ent[n] = "invalid"

(* A row by itself. *)
Held(ev, r) ==
  /\ DOMAIN r = RowFields /\ r.stands \in BOOLEAN
  /\ r.support # {}
  /\ \A e \in Linked(r) : e \in Evidence /\ ev[e] \in {"live", "soft"}
Worded(id, r) == r.words \subseteq r.support \/ (id[1] = "cognition" /\ id[2] = "with")
Peopled(ev, ent, id, r) ==
  /\ \A n \in Whom(id, r) : ent[n] # "absent"
  /\ r.stands /\ LiveIn(ev, Linked(r)) =>
       \A n \in Whom(id, r) : ent[n] = "current" \/ Apart(ent, id, r, n)
Unmerged(led, id, r) ==
  id[1] = "cognition" => \A l \in led : l.kind = "alias" => l.from # r.target
Good(ev, ent, led, id, r) ==
  Held(ev, r) /\ Worded(id, r) /\ Peopled(ev, ent, id, r) /\ Unmerged(led, id, r)

Rows(ev, w) == \A id \in DOMAIN w.row : Good(ev, w.entity, w.led, id, w.row[id])
LedAway(ent, led) == \A l \in led : l.from \in Names /\ ent[l.from] = "invalid"
Shape(w) ==
  /\ DOMAIN w = WorldFields
  /\ w.entity \in [People -> {"absent", "current", "invalid"}]
  /\ IsFiniteSet(DOMAIN w.row) /\ IsFiniteSet(DOMAIN w.next) /\ IsFiniteSet(w.pending)
Sound(ev, w) == Shape(w) /\ Rows(ev, w) /\ LedAway(w.entity, w.led)

(* From b, one transition after another, to id. *)
Reaches(next, b, id) ==
  \A S : b \in S /\ (\A p \in DOMAIN next : p \in S => next[p] \in S) => id \in S
Plain(id) == Rel(id[2], id[3], id[4])
Chain(w) == \A id \in DOMAIN w.row : IsRel(id) => Reaches(w.next, Plain(id), id)

(* What was replaced stays replaced; new relationships are plain. *)
Longer(next, more) ==
  DOMAIN next \subseteq DOMAIN more /\ \A p \in DOMAIN next : more[p] = next[p]
Calm(w, x) ==
  /\ Longer(w.next, x.next)
  /\ \A id \in DOMAIN x.row : IsRel(id) => id \in DOMAIN w.row \/ id = Plain(id)
Kept(ev, w, x) == Sound(ev, x) /\ Calm(w, x)

-----------------------------------------------------------------------------
(* Chains.                                                                 *)
LEMMA ReachesSelf == ASSUME NEW next, NEW b PROVE Reaches(next, b, b)
BY DEF Reaches

LEMMA ReachesOn ==
  ASSUME NEW next, NEW b, NEW p \in DOMAIN next, Reaches(next, b, p) PROVE Reaches(next, b, next[p])
BY DEF Reaches

LEMMA ReachesMore ==
  ASSUME NEW next, NEW more, NEW b, NEW id, Longer(next, more), Reaches(next, b, id)
  PROVE  Reaches(more, b, id)
<1> SUFFICES ASSUME NEW S, b \in S, \A p \in DOMAIN more : p \in S => more[p] \in S PROVE id \in S
  BY DEF Reaches
<1>1. \A p \in DOMAIN next : p \in S => next[p] \in S
  BY DEF Longer
<1>2. QED
  BY <1>1 DEF Reaches

LEMMA CalmChain == ASSUME NEW w, NEW x, Chain(w), Calm(w, x) PROVE Chain(x)
<1> SUFFICES ASSUME NEW id \in DOMAIN x.row, IsRel(id) PROVE Reaches(x.next, Plain(id), id)
  BY DEF Chain
<1>1. CASE id \in DOMAIN w.row
  BY <1>1, ReachesMore DEF Chain, Calm
<1>2. CASE id = Plain(id)
  BY <1>2, ReachesSelf
<1>3. QED
  BY <1>1, <1>2 DEF Calm

LEMMA CalmSelf == ASSUME NEW w PROVE Calm(w, w)
BY DEF Calm, Longer

LEMMA CalmBoth == ASSUME NEW w, NEW x, NEW y, Calm(w, x), Calm(x, y) PROVE Calm(w, y)
<1>1. Longer(w.next, y.next)
  BY DEF Calm, Longer
<1>2. QED
  BY <1>1 DEF Calm

LEMMA KeptBoth ==
  ASSUME NEW ev, NEW w, NEW x, NEW y, Kept(ev, w, x), Kept(ev, x, y) PROVE Kept(ev, w, y)
BY CalmBoth DEF Kept

LEMMA KeptSelf == ASSUME NEW ev, NEW w, Sound(ev, w) PROVE Kept(ev, w, w)
BY CalmSelf DEF Kept

(* The end of a chain is one. *)
LEMMA OneEnd ==
  ASSUME NEW next, NEW b, NEW j, NEW k, Reaches(next, b, j), Reaches(next, b, k),
         j \notin DOMAIN next, k \notin DOMAIN next
  PROVE  j = k
<1> DEFINE U == {b, j, k} \cup DOMAIN next \cup {next[p] : p \in DOMAIN next}
           S == {x \in U : Reaches(next, x, j)}
<1>1. b \in S
  OBVIOUS
<1>2. ASSUME NEW p \in DOMAIN next, p \in S PROVE next[p] \in S
  <2>1. next[p] \in U
    OBVIOUS
  <2>2. Reaches(next, p, j)
    BY <1>2
  <2>3. Reaches(next, next[p], j)
    <3> SUFFICES ASSUME NEW T, next[p] \in T, \A q \in DOMAIN next : q \in T => next[q] \in T PROVE j \in T
      BY DEF Reaches
    <3> DEFINE V == T \cup {p}
    <3>1. p \in V /\ \A q \in DOMAIN next : q \in V => next[q] \in V
      OBVIOUS
    <3> HIDE DEF V
    <3>2. j \in V
      BY <2>2, <3>1 DEF Reaches
    <3>3. QED
      BY <3>2 DEF V
  <2>4. QED
    BY <2>1, <2>3
<1> HIDE DEF S
<1>3. k \in S
  BY <1>1, <1>2 DEF Reaches
<1>4. Reaches(next, k, j)
  BY <1>3 DEF S
<1>5. k \in {k} /\ \A p \in DOMAIN next : p \in {k} => next[p] \in {k}
  OBVIOUS
<1>6. j \in {k}
  BY <1>4, <1>5 DEF Reaches
<1>7. QED
  BY <1>6

-----------------------------------------------------------------------------
(* Counting, and what an id replaced.                                      *)
LEMMA Least ==
  ASSUME NEW T \in SUBSET Nat, T # {} PROVE \E x \in T : \A y \in T : x <= y
<1>1. IsWellFoundedOn(OpToRel(<, Nat), Nat)
  BY NatLessThanWellFounded
<1>2. PICK x \in T : \A y \in T : <<y, x>> \notin OpToRel(<, Nat)
  BY <1>1, WFMin
<1>3. \A y \in T : ~(y < x)
  BY <1>2 DEF OpToRel
<1>4. QED
  BY <1>3

LEMMA Counting ==
  ASSUME NEW S, 0 \in S, \A n \in Nat : n \in S => n + 1 \in S PROVE Nat \subseteq S
<1> SUFFICES ASSUME Nat \ S # {} PROVE FALSE
  OBVIOUS
<1>1. PICK x \in Nat \ S : \A y \in Nat \ S : x <= y
  BY Least
<1>2. x # 0 /\ x - 1 \in Nat /\ x - 1 \in S
  BY <1>1
<1>3. QED
  BY <1>1, <1>2

LEMMA AncestorsReach ==
  ASSUME NEW w, NEW id, IsFiniteSet(DOMAIN w.next), NEW b \in Ancestors(w, id)
  PROVE  Reaches(w.next, b, id)
<1> DEFINE N == Cardinality(DOMAIN w.next)
           D == DOMAIN w.next
           More(S) == S \cup {p \in D : w.next[p] \in S}
           Up(n, g) == g = [k \in 0 .. n |-> IF k = 0 THEN {id} ELSE More(g[k - 1])]
           T == {n \in Nat : \E g : Up(n, g)}
           R == CHOOSE g : Up(N, g)
           U == {n \in Nat : n \in 0 .. N => \A x \in R[n] : Reaches(w.next, x, id)}
<1>1. N \in Nat
  BY FS_CardinalityType
<1>2. Ancestors(w, id) = R[N] \ {id}
  BY DEF Ancestors
<1>3. 0 \in T
  <2> DEFINE g == [k \in 0 .. 0 |-> {id}]
  <2>1. Up(0, g)
    OBVIOUS
  <2>2. QED
    BY <2>1
<1>4. ASSUME NEW n \in Nat, n \in T PROVE n + 1 \in T
  <2> HIDE DEF More
  <2>1. PICK g : Up(n, g)
    BY <1>4
  <2> DEFINE f == [k \in 0 .. n + 1 |-> IF k = n + 1 THEN More(g[n]) ELSE g[k]]
  <2>2. \A k \in 0 .. n : g[k] = IF k = 0 THEN {id} ELSE More(g[k - 1])
    BY <2>1
  <2>3. \A k \in 0 .. n + 1 : f[k] = IF k = 0 THEN {id} ELSE More(f[k - 1])
    <3> SUFFICES ASSUME NEW k \in 0 .. n + 1 PROVE f[k] = IF k = 0 THEN {id} ELSE More(f[k - 1])
      OBVIOUS
    <3>1. CASE k = n + 1
      <4>1. f[k] = More(g[n]) /\ f[k - 1] = g[n] /\ k # 0
        BY <3>1
      <4>2. QED
        BY <4>1
    <3>2. CASE k \in 0 .. n
      <4>1. f[k] = g[k] /\ (k # 0 => f[k - 1] = g[k - 1])
        BY <3>2
      <4>2. QED
        BY <2>2, <3>2, <4>1
    <3>3. QED
      BY <3>1, <3>2
  <2>4. f = [k \in 0 .. n + 1 |-> f[k]]
    OBVIOUS
  <2> HIDE DEF f
  <2>5. Up(n + 1, f)
    BY <2>3, <2>4
  <2>6. QED
    BY <2>5
<1> HIDE DEF T
<1>5. N \in T
  BY <1>1, <1>3, <1>4, Counting
<1>6. Up(N, R)
  BY <1>5 DEF T
<1>7. \A k \in 0 .. N : R[k] = IF k = 0 THEN {id} ELSE More(R[k - 1])
  BY <1>6
<1> HIDE DEF R
<1>8. 0 \in U
  BY <1>1, <1>7, ReachesSelf
<1>9. ASSUME NEW n \in Nat, n \in U PROVE n + 1 \in U
  <2> SUFFICES ASSUME n + 1 \in 0 .. N, NEW x \in R[n + 1] PROVE Reaches(w.next, x, id)
    OBVIOUS
  <2>1. n \in 0 .. N /\ R[n + 1] = More(R[n])
    <3>1. n \in 0 .. N /\ n + 1 # 0 /\ (n + 1) - 1 = n
      BY <1>1
    <3> HIDE DEF More
    <3>2. R[n + 1] = IF n + 1 = 0 THEN {id} ELSE More(R[(n + 1) - 1])
      BY <1>7
    <3>3. QED
      BY <3>1, <3>2
  <2>2. \A y \in R[n] : Reaches(w.next, y, id)
    BY <1>9, <2>1
  <2>3. CASE x \in R[n]
    BY <2>2, <2>3
  <2>4. CASE x \in D /\ w.next[x] \in R[n]
    BY <2>2, <2>4 DEF Reaches
  <2>5. QED
    BY <2>1, <2>3, <2>4
<1> HIDE DEF U
<1>10. N \in U
  BY <1>1, <1>8, <1>9, Counting
<1>11. QED
  BY <1>1, <1>2, <1>10 DEF U

-----------------------------------------------------------------------------
(* Rows.                                                                   *)
LEMMA FreshGood ==
  ASSUME NEW ev, NEW ent, NEW led, NEW id, NEW says, NEW target, NEW e \in Evidence,
         ev[e] \in {"live", "soft"}, LedAway(ent, led), NEW r, r = Row(says, target, e),
         \A n \in Whom(id, r) : ent[n] = "current"
  PROVE  Good(ev, ent, led, id, r)
<1>1. Held(ev, r)
  BY DEF Held, Row, RowFields, Linked
<1>2. Worded(id, r)
  BY DEF Worded, Row
<1>3. Peopled(ev, ent, id, r)
  BY DEF Peopled
<1>4. Unmerged(led, id, r)
  BY DEF Unmerged, LedAway, Whom, IsRel
<1>5. QED
  BY <1>1, <1>2, <1>3, <1>4 DEF Good

LEMMA SupportedGood ==
  ASSUME NEW ev, NEW ent, NEW led, NEW id, NEW r, NEW e \in Evidence, ev[e] \in {"live", "soft"},
         Good(ev, ent, led, id, r), NEW q,
         q \in {[r EXCEPT !.support = @ \cup {e}], [r EXCEPT !.against = @ \cup {e}]}
  PROVE  Good(ev, ent, led, id, q)
<1>1. DOMAIN r = RowFields /\ DOMAIN q = RowFields /\ r.stands \in BOOLEAN
  BY DEF Good, Held
<1>2. /\ q.stands = r.stands /\ q.target = r.target /\ q.says = r.says /\ q.words = r.words
      /\ r.support \subseteq q.support /\ Linked(q) = Linked(r) \cup {e}
  BY <1>1 DEF RowFields, Linked
<1>3. Held(ev, q)
  BY <1>1, <1>2 DEF Good, Held
<1>4. Worded(id, q)
  BY <1>2 DEF Good, Worded
<1>5. LiveIn(ev, Linked(q)) => LiveIn(ev, Linked(r))
  BY <1>2 DEF LiveIn, Good, Held, Linked
<1>6. Peopled(ev, ent, id, q)
  BY <1>2, <1>5 DEF Good, Peopled, Whom, Apart
<1>7. Unmerged(led, id, q)
  BY <1>2 DEF Good, Unmerged
<1>8. QED
  BY <1>3, <1>4, <1>6, <1>7 DEF Good

LEMMA RetiredGood ==
  ASSUME NEW ev, NEW ent, NEW led, NEW id, NEW r, Good(ev, ent, led, id, r),
         NEW q, q = [r EXCEPT !.stands = FALSE]
  PROVE  Good(ev, ent, led, id, q)
<1>1. DOMAIN r = RowFields /\ DOMAIN q = RowFields
  BY DEF Good, Held
<1>2. /\ ~q.stands /\ q.stands \in BOOLEAN /\ q.target = r.target /\ q.words = r.words
      /\ q.support = r.support /\ Linked(q) = Linked(r)
  BY <1>1 DEF RowFields, Linked
<1>3. QED
  BY <1>1, <1>2 DEF Good, Held, Worded, Peopled, Unmerged, Whom

(* A row that comes back with the Evidence it had. *)
LEMMA RevivedGood ==
  ASSUME NEW ev, NEW ent, NEW led, NEW id, NEW says, NEW target, NEW e \in Evidence,
         ev[e] \in {"live", "soft"}, LedAway(ent, led), NEW r, r = Row(says, target, e),
         \A n \in Whom(id, r) : ent[n] = "current",
         NEW o, Held(ev, o),
         NEW q, q = [r EXCEPT !.support = @ \cup o.support, !.against = o.against]
  PROVE  Good(ev, ent, led, id, q)
<1>1. DOMAIN r = RowFields /\ DOMAIN q = RowFields
  BY DEF Row, RowFields
<1>2. /\ q.stands = TRUE /\ q.target = r.target /\ q.words = {e}
      /\ q.support = {e} \cup o.support /\ q.against = o.against
  BY <1>1 DEF RowFields, Row
<1>3. Held(ev, q)
  BY <1>1, <1>2 DEF Held, Linked
<1>4. Worded(id, q)
  BY <1>2 DEF Worded
<1>5. Whom(id, q) = Whom(id, r)
  BY <1>2 DEF Whom
<1>6. Peopled(ev, ent, id, q)
  BY <1>5 DEF Peopled
<1>7. Unmerged(led, id, q)
  BY <1>5 DEF Unmerged, LedAway, Whom, IsRel
<1>8. QED
  BY <1>3, <1>4, <1>6, <1>7 DEF Good

-----------------------------------------------------------------------------
(* Writing the World keeps it sound.                                       *)

(* Only rows are written. *)
OnlyRows(w, x) ==
  /\ DOMAIN x = WorldFields /\ x.entity = w.entity /\ x.led = w.led
  /\ x.next = w.next /\ x.pending = w.pending

LEMMA RowsKept ==
  ASSUME NEW ev, NEW w, Sound(ev, w), NEW x, OnlyRows(w, x), IsFiniteSet(DOMAIN x.row),
         \A id \in DOMAIN x.row : Good(ev, w.entity, w.led, id, x.row[id]),
         \A id \in DOMAIN x.row : IsRel(id) => id \in DOMAIN w.row \/ id = Plain(id)
  PROVE  Kept(ev, w, x)
<1>1. Shape(x)
  BY DEF Sound, Shape, OnlyRows
<1>2. Rows(ev, x)
  BY DEF Rows, OnlyRows
<1>3. LedAway(x.entity, x.led)
  BY DEF Sound, OnlyRows
<1>4. Calm(w, x)
  BY DEF Calm, OnlyRows, Longer
<1>5. QED
  BY <1>1, <1>2, <1>3, <1>4 DEF Kept, Sound

LEMMA PutKeeps ==
  ASSUME NEW ev, NEW w, Sound(ev, w), NEW id, NEW r, Good(ev, w.entity, w.led, id, r),
         IsRel(id) => id \in DOMAIN w.row \/ id = Plain(id), NEW x, x = Put(w, id, r)
  PROVE  Kept(ev, w, x) /\ OnlyRows(w, x)
<1>1. OnlyRows(w, x) /\ x.row = Over([k \in {id} |-> r], w.row)
  BY DEF Put, OnlyRows, Sound, Shape, WorldFields
<1>2. DOMAIN x.row = DOMAIN w.row \cup {id}
  BY <1>1 DEF Over
<1>3. IsFiniteSet(DOMAIN x.row)
  BY <1>2, FS_AddElement DEF Sound, Shape
<1>4. \A k \in DOMAIN x.row : Good(ev, w.entity, w.led, k, x.row[k])
  BY <1>1, <1>2 DEF Over, Sound, Rows
<1>5. \A k \in DOMAIN x.row : IsRel(k) => k \in DOMAIN w.row \/ k = Plain(k)
  BY <1>2
<1>6. QED
  BY <1>1, <1>3, <1>4, <1>5, RowsKept

LEMMA SupportKeeps ==
  ASSUME NEW ev, NEW w, Sound(ev, w), NEW id, NEW e \in Evidence, ev[e] \in {"live", "soft"},
         NEW x, x \in {Support(w, id, e), [w EXCEPT !.row[id].against = @ \cup {e}]}
  PROVE  Kept(ev, w, x) /\ OnlyRows(w, x)
<1>1. OnlyRows(w, x) /\ DOMAIN x.row = DOMAIN w.row
  BY DEF Support, OnlyRows, Sound, Shape, WorldFields
<1>2. ASSUME NEW k \in DOMAIN x.row PROVE Good(ev, w.entity, w.led, k, x.row[k])
  <2>1. Good(ev, w.entity, w.led, k, w.row[k])
    BY <1>1 DEF Sound, Rows
  <2>2. \/ x.row[k] = w.row[k]
        \/ x.row[k] \in {[w.row[k] EXCEPT !.support = @ \cup {e}], [w.row[k] EXCEPT !.against = @ \cup {e}]}
    BY <1>1 DEF Support, Sound, Shape, WorldFields
  <2>3. QED
    BY <2>1, <2>2, SupportedGood
<1>3. IsFiniteSet(DOMAIN x.row) /\ \A k \in DOMAIN x.row : IsRel(k) => k \in DOMAIN w.row \/ k = Plain(k)
  BY <1>1 DEF Sound, Shape
<1>4. QED
  BY <1>1, <1>2, <1>3, RowsKept

LEMMA RetireKeeps ==
  ASSUME NEW ev, NEW w, Sound(ev, w), NEW id, NEW x, x = Retire(w, id)
  PROVE  Kept(ev, w, x) /\ OnlyRows(w, x)
<1>1. OnlyRows(w, x) /\ DOMAIN x.row = DOMAIN w.row
  BY DEF Retire, OnlyRows, Sound, Shape, WorldFields
<1>2. ASSUME NEW k \in DOMAIN x.row PROVE Good(ev, w.entity, w.led, k, x.row[k])
  <2>1. Good(ev, w.entity, w.led, k, w.row[k])
    BY <1>1 DEF Sound, Rows
  <2>2. x.row[k] = w.row[k] \/ x.row[k] = [w.row[k] EXCEPT !.stands = FALSE]
    BY <1>1 DEF Retire, Sound, Shape, WorldFields
  <2>3. QED
    BY <2>1, <2>2, RetiredGood
<1>3. IsFiniteSet(DOMAIN x.row) /\ \A k \in DOMAIN x.row : IsRel(k) => k \in DOMAIN w.row \/ k = Plain(k)
  BY <1>1 DEF Sound, Shape
<1>4. QED
  BY <1>1, <1>2, <1>3, RowsKept

LEMMA StateKeeps ==
  ASSUME NEW ev, NEW w, Sound(ev, w), NEW id, NEW r, Good(ev, w.entity, w.led, id, r),
         IsRel(id) => id \in DOMAIN w.row \/ id = Plain(id),
         NEW e \in Evidence, ev[e] \in {"live", "soft"}, NEW x, x = State(w, id, r, e)
  PROVE  Kept(ev, w, x) /\ OnlyRows(w, x)
BY PutKeeps, SupportKeeps DEF State

LEMMA ReviveKeeps ==
  ASSUME NEW ev, NEW w, Sound(ev, w), NEW id, NEW says, NEW target, NEW e \in Evidence,
         ev[e] \in {"live", "soft"}, NEW r, r = Row(says, target, e),
         \A n \in Whom(id, r) : w.entity[n] = "current",
         IsRel(id) => id = Plain(id), NEW x, x = Revive(w, id, r)
  PROVE  Kept(ev, w, x) /\ OnlyRows(w, x)
<1> DEFINE q == IF Has(w, id) THEN [r EXCEPT !.support = @ \cup w.row[id].support,
                                             !.against = w.row[id].against] ELSE r
<1>1. LedAway(w.entity, w.led)
  BY DEF Sound
<1>2. Good(ev, w.entity, w.led, id, r)
  BY <1>1, FreshGood
<1>3. Has(w, id) => Held(ev, w.row[id])
  BY DEF Has, Sound, Rows, Good
<1>4. Good(ev, w.entity, w.led, id, q)
  <2>1. CASE Has(w, id)
    <3> DEFINE o == w.row[id]
    <3>1. Held(ev, o) /\ q = [r EXCEPT !.support = @ \cup o.support, !.against = o.against]
      BY <1>3, <2>1
    <3> HIDE DEF o, q
    <3>2. QED
      BY <1>1, <3>1, RevivedGood
  <2>2. QED
    BY <1>2, <2>1
<1>5. x = Put(w, id, q)
  BY DEF Revive
<1> HIDE DEF q
<1>6. QED
  BY <1>4, <1>5, PutKeeps

(* A person who is there stays as he is. *)
Settled(ent, more) == \A n \in People : ent[n] # "absent" => more[n] = ent[n]

LEMMA SettledGood ==
  ASSUME NEW ev, NEW ent, NEW more, NEW led, NEW id, NEW r, Settled(ent, more),
         Good(ev, ent, led, id, r)
  PROVE  Good(ev, more, led, id, r)
<1>1. \A n \in Whom(id, r) : ent[n] # "absent" /\ more[n] = ent[n]
  BY DEF Good, Peopled, Settled, Whom, People
<1>2. Peopled(ev, more, id, r)
  BY <1>1 DEF Good, Peopled, Apart
<1>3. QED
  BY <1>2 DEF Good

LEMMA MadeKeeps ==
  ASSUME NEW ev, NEW w, Sound(ev, w), NEW n \in People, NEW x, x = Made(w, n)
  PROVE  /\ Kept(ev, w, x) /\ Settled(w.entity, x.entity)
         /\ x.entity[n] # "absent"
         /\ x.row = w.row /\ x.next = w.next /\ x.led = w.led /\ x.pending = w.pending
<1>1. CASE w.entity[n] # "absent"
  <2>1. x = w
    BY <1>1 DEF Made
  <2>2. QED
    BY <1>1, <2>1, KeptSelf DEF Settled
<1>2. CASE w.entity[n] = "absent"
  <2>1. x = [w EXCEPT !.entity[n] = "current", !.born = Append(@, n)]
    BY <1>2 DEF Made
  <2>2. /\ DOMAIN x = WorldFields /\ x.entity = [w.entity EXCEPT ![n] = "current"]
        /\ x.row = w.row /\ x.next = w.next /\ x.led = w.led /\ x.pending = w.pending
    BY <2>1 DEF Sound, Shape, WorldFields
  <2>3. /\ x.entity \in [People -> {"absent", "current", "invalid"}]
        /\ \A p \in People : x.entity[p] = IF p = n THEN "current" ELSE w.entity[p]
    BY <2>2 DEF Sound, Shape
  <2>4. Settled(w.entity, x.entity)
    BY <1>2, <2>3 DEF Settled
  <2>5. Shape(x)
    BY <2>2, <2>3 DEF Sound, Shape
  <2>6. Rows(ev, x)
    BY <2>2, <2>4, SettledGood DEF Sound, Rows
  <2>7. LedAway(x.entity, x.led)
    BY <2>2, <2>4 DEF Sound, LedAway, Settled, People
  <2>8. Calm(w, x)
    BY <2>2 DEF Calm, Longer
  <2>9. QED
    BY <2>2, <2>3, <2>4, <2>5, <2>6, <2>7, <2>8 DEF Kept, Sound
<1>3. QED
  BY <1>1, <1>2

(* Who is not gone is there once he is made. *)
LEMMA MadeCurrent ==
  ASSUME NEW ev, NEW w, Sound(ev, w), NEW n \in People, ~Gone(w, n), NEW x, x = Made(w, n)
  PROVE  x.entity[n] = "current" /\ \A p \in People : ~Gone(w, p) => ~Gone(x, p)
<1>1. /\ DOMAIN w = WorldFields /\ w.entity \in [People -> {"absent", "current", "invalid"}]
  BY DEF Sound, Shape
<1>2. w.entity[n] = "absent" \/ w.entity[n] = "current"
  BY <1>1 DEF Gone
<1>3. QED
  BY <1>1, <1>2 DEF Gone, Made, WorldFields

LEMMA SourcedKeeps ==
  ASSUME NEW ev, NEW w, Sound(ev, w), NEW N, NEW e, NEW x, x = Sourced(w, N, e)
  PROVE  Kept(ev, w, x) /\ OnlyRows(w, x) /\ x.row = w.row
<1>1. OnlyRows(w, x) /\ x.row = w.row
  BY DEF Sourced, OnlyRows, Sound, Shape, WorldFields
<1>2. QED
  BY <1>1, RowsKept DEF Sound, Shape, Rows

(* Transitions are added, never changed. *)
OnlyNext(w, x) ==
  /\ DOMAIN x = WorldFields /\ x.entity = w.entity /\ x.led = w.led /\ x.row = w.row

LEMMA NextKept ==
  ASSUME NEW ev, NEW w, Sound(ev, w), NEW x, OnlyNext(w, x), Longer(w.next, x.next),
         IsFiniteSet(DOMAIN x.next), IsFiniteSet(x.pending)
  PROVE  Kept(ev, w, x)
<1>1. Shape(x)
  BY DEF Sound, Shape, OnlyNext
<1>2. Rows(ev, x) /\ LedAway(x.entity, x.led)
  BY DEF Rows, Sound, OnlyNext
<1>3. Calm(w, x)
  BY DEF Calm, OnlyNext
<1>4. QED
  BY <1>1, <1>2, <1>3 DEF Kept, Sound

LEMMA LinkKeeps ==
  ASSUME NEW ev, NEW w, Sound(ev, w), NEW p, NEW id, NEW x, x = Link(w, p, id)
  PROVE  /\ Kept(ev, w, x) /\ OnlyNext(w, x)
         /\ DOMAIN x.next = DOMAIN w.next \cup {p}
         /\ p \notin DOMAIN w.next => x.next[p] = id
<1>1. OnlyNext(w, x) /\ x.pending = w.pending /\ x.next = Over(w.next, [k \in {p} |-> id])
  BY DEF Link, OnlyNext, Sound, Shape, WorldFields
<1>2. /\ DOMAIN x.next = DOMAIN w.next \cup {p} /\ Longer(w.next, x.next)
      /\ p \notin DOMAIN w.next => x.next[p] = id
  BY <1>1 DEF Over, Longer
<1>3. IsFiniteSet(DOMAIN x.next) /\ IsFiniteSet(x.pending)
  BY <1>1, <1>2, FS_AddElement DEF Sound, Shape
<1>4. QED
  BY <1>1, <1>2, <1>3, NextKept

LEMMA LinkingKeeps ==
  ASSUME NEW ev, NEW w, Sound(ev, w), NEW x, x = Linking(w)
  PROVE  Kept(ev, w, x) /\ x.pending = {}
<1> DEFINE P == {q[1] : q \in w.pending}
           f == [p \in P |-> (CHOOSE q \in w.pending : q[1] = p)[2]]
           g == [q \in w.pending |-> q[1]]
<1>1. IsFiniteSet(P)
  <2>1. g \in Surjection(w.pending, P)
    BY DEF Surjection
  <2>2. QED
    BY <2>1, FS_Surjection DEF Sound, Shape
<1>2. DOMAIN f = P
  OBVIOUS
<1>3. x = [w EXCEPT !.next = Over(@, f), !.pending = {}]
  BY DEF Linking
<1> HIDE DEF f, P
<1>4. OnlyNext(w, x) /\ x.pending = {} /\ x.next = Over(w.next, f)
  BY <1>3 DEF OnlyNext, Sound, Shape, WorldFields
<1>5. DOMAIN x.next = DOMAIN w.next \cup P /\ Longer(w.next, x.next)
  BY <1>2, <1>4 DEF Over, Longer
<1>6. IsFiniteSet(DOMAIN x.next) /\ IsFiniteSet(x.pending)
  <2>1. IsFiniteSet(DOMAIN w.next)
    BY DEF Sound, Shape
  <2>2. IsFiniteSet(DOMAIN w.next \cup P)
    BY <1>1, <2>1, FS_Union
  <2>3. QED
    BY <1>4, <1>5, <2>2, FS_EmptySet
<1>7. QED
  BY <1>4, <1>5, <1>6, NextKept

-----------------------------------------------------------------------------
(* Items about one person.                                                 *)
Ready(ev, e) == e \in Evidence /\ ev[e] \in {"live", "soft"}

LEMMA CogGood ==
  ASSUME NEW ev, NEW w, Sound(ev, w), NEW e, Ready(ev, e), NEW what, NEW who, NEW says, NEW target,
         target \in Names => w.entity[target] = "current", NEW id, id = Cog(what, who),
         NEW r, r = Row(says, target, e)
  PROVE  Good(ev, w.entity, w.led, id, r) /\ ~IsRel(id)
<1>1. ~IsRel(id) /\ Whom(id, r) = {target} \cap Names
  BY DEF IsRel, Whom, Cog, Row
<1>2. e \in Evidence /\ ev[e] \in {"live", "soft"} /\ LedAway(w.entity, w.led)
  BY DEF Ready, Sound
<1>3. Good(ev, w.entity, w.led, id, r)
  BY <1>1, <1>2, FreshGood
<1>4. QED
  BY <1>1, <1>3

LEMMA EventGood ==
  ASSUME NEW ev, NEW w, Sound(ev, w), NEW e, Ready(ev, e), NEW what, NEW says, NEW target,
         NEW id, id = Event(what), NEW r, r = Row(says, target, e)
  PROVE  Good(ev, w.entity, w.led, id, r) /\ ~IsRel(id) /\ Whom(id, r) = {}
<1>1. ~IsRel(id) /\ Whom(id, r) = {}
  BY DEF IsRel, Whom, Event
<1>2. e \in Evidence /\ ev[e] \in {"live", "soft"} /\ LedAway(w.entity, w.led)
  BY DEF Ready, Sound
<1>3. Good(ev, w.entity, w.led, id, r)
  BY <1>1, <1>2, FreshGood
<1>4. QED
  BY <1>1, <1>3

LEMMA FormNamingKeeps ==
  ASSUME NEW ev, NEW w, Sound(ev, w), NEW e, Ready(ev, e), NEW i, NamingItem(i),
         NEW x, x = FormNaming(w, i, e)
  PROVE  Kept(ev, w, x)
<1> DEFINE m == Made(w, i.who)
           s == Sourced(m, IF w.entity[i.who] = "absent" THEN {i.who} ELSE {}, e)
           r == Row(i.who, NoOne, e)
<1>1. i.who \in People
  BY DEF NamingItem, People
<1>2. Kept(ev, w, m)
  BY <1>1, MadeKeeps
<1>3. Kept(ev, m, s)
  BY <1>2, SourcedKeeps DEF Kept
<1>4. Sound(ev, s) /\ Fact(i) = Cog(IF i.kind = "naming" THEN "name" ELSE i.what, i.who) /\ NoOne \notin Names
  BY <1>3, PeopleAssumption DEF Kept, Fact
<1>5. x = State(s, Fact(i), r, e)
  BY DEF FormNaming
<1> HIDE DEF m, s
<1>6. Good(ev, s.entity, s.led, Fact(i), r) /\ ~IsRel(Fact(i))
  BY <1>4, CogGood
<1> HIDE DEF r
<1>7. Kept(ev, s, x)
  BY <1>4, <1>5, <1>6, StateKeeps DEF Ready
<1>8. QED
  BY <1>2, <1>3, <1>7, KeptBoth

(* Whom a fact is about, once that person is made. *)
LEMMA TargetThere ==
  ASSUME NEW ev, NEW w, Sound(ev, w), NEW i, i.who \in People, i.who = Owner \/ ~Gone(w, i.who),
         NEW m, m = IF i.who = Owner THEN w ELSE Made(w, i.who)
  PROVE  Kept(ev, w, m) /\ (Target(i) \in Names => m.entity[Target(i)] = "current")
<1>1. CASE i.who = Owner
  <2>1. Target(i) \notin Names /\ m = w
    BY <1>1, PeopleAssumption DEF Target
  <2>2. QED
    BY <2>1, KeptSelf
<1>2. CASE i.who # Owner
  <2>1. Target(i) = i.who /\ m = Made(w, i.who)
    BY <1>2 DEF Target
  <2>2. QED
    BY <1>2, <2>1, MadeKeeps, MadeCurrent
<1>3. QED
  BY <1>1, <1>2

LEMMA FormAttributeKeeps ==
  ASSUME NEW ev, NEW w, Sound(ev, w), NEW e, Ready(ev, e), NEW i, i.who \in People,
         ~RefusedAttribute(w, i), NEW x, x = FormAttribute(w, i, e)
  PROVE  Kept(ev, w, x)
<1> DEFINE m == IF i.who = Owner THEN w ELSE Made(w, i.who)
           s == Sourced(m, IF Has(w, Fact(i)) THEN {} ELSE {Named(i)} \cap Names, e)
           r == Row(Named(i), Target(i), e)
<1>1. i.who = Owner \/ ~Gone(w, i.who)
  BY DEF RefusedAttribute
<1>2. Kept(ev, w, m) /\ (Target(i) \in Names => m.entity[Target(i)] = "current")
  BY <1>1, TargetThere
<1>3. Kept(ev, m, s) /\ OnlyRows(m, s)
  BY <1>2, SourcedKeeps DEF Kept
<1>4. /\ Sound(ev, s) /\ Fact(i) = Cog(IF i.kind = "naming" THEN "name" ELSE i.what, i.who)
      /\ Target(i) \in Names => s.entity[Target(i)] = "current"
  BY <1>2, <1>3 DEF Kept, Fact, OnlyRows
<1>5. x = State(s, Fact(i), r, e)
  BY DEF FormAttribute
<1> HIDE DEF m, s
<1>6. Good(ev, s.entity, s.led, Fact(i), r) /\ ~IsRel(Fact(i))
  BY <1>4, CogGood
<1> HIDE DEF r
<1>7. Kept(ev, s, x)
  BY <1>4, <1>5, <1>6, StateKeeps DEF Ready
<1>8. QED
  BY <1>2, <1>3, <1>7, KeptBoth

LEMMA CorrectFactKeeps ==
  ASSUME NEW ev, NEW w, Sound(ev, w), NEW e, Ready(ev, e), NEW i, i.who \in People,
         ~RefusedFact(w, i), NEW x, x = CorrectFact(w, i, e)
  PROVE  Kept(ev, w, x)
<1> DEFINE m == IF i.who = Owner THEN w ELSE Made(w, i.who)
           t == Retire(m, i.prior)
           s == Sourced(t, {Named(i)} \cap Names, e)
           r == Row(Named(i), Target(i), e)
           new == IF Shared(w, i) THEN t ELSE Put(s, Fact(i), r)
           q == <<i.prior, Fact(i)>>
<1>1. CASE Replayed(w, i)
  BY <1>1, KeptSelf DEF CorrectFact
<1>2. CASE ~Replayed(w, i)
  <2>1. i.who = Owner \/ ~Gone(w, i.who)
    BY <1>2 DEF RefusedFact
  <2>2. Kept(ev, w, m) /\ (Target(i) \in Names => m.entity[Target(i)] = "current")
    BY <2>1, TargetThere
  <2>3. Kept(ev, m, t) /\ OnlyRows(m, t)
    BY <2>2, RetireKeeps DEF Kept
  <2>4. Kept(ev, t, s) /\ OnlyRows(t, s)
    BY <2>3, SourcedKeeps DEF Kept
  <2>5. /\ Sound(ev, s) /\ Fact(i) = Cog(IF i.kind = "naming" THEN "name" ELSE i.what, i.who)
        /\ Target(i) \in Names => s.entity[Target(i)] = "current"
    BY <2>2, <2>3, <2>4 DEF Kept, Fact, OnlyRows
  <2>6. x = [new EXCEPT !.pending = @ \cup {q}]
    BY <1>2 DEF CorrectFact
  <2>7. new = IF Shared(w, i) THEN t ELSE Put(s, Fact(i), r)
    OBVIOUS
  <2> HIDE DEF m, s, t, new
  <2>8. Good(ev, s.entity, s.led, Fact(i), r) /\ ~IsRel(Fact(i))
    BY <2>5, CogGood
  <2> HIDE DEF r, q
  <2>9. Kept(ev, s, Put(s, Fact(i), r))
    BY <2>5, <2>8, PutKeeps
  <2>10. Kept(ev, w, t) /\ Kept(ev, w, Put(s, Fact(i), r))
    BY <2>2, <2>3, <2>4, <2>9, KeptBoth
  <2>11. Kept(ev, w, new)
    BY <2>7, <2>10
  <2>12. /\ OnlyNext(new, x) /\ x.next = new.next /\ x.pending = new.pending \cup {q}
         /\ IsFiniteSet(new.pending)
    BY <2>6, <2>11 DEF Kept, Sound, Shape, OnlyNext, WorldFields
  <2>13. IsFiniteSet(x.pending) /\ IsFiniteSet(DOMAIN x.next) /\ Longer(new.next, x.next)
    <3>1. IsFiniteSet(DOMAIN new.next)
      BY <2>11 DEF Kept, Sound, Shape
    <3>2. IsFiniteSet(new.pending \cup {q})
      BY <2>12, FS_AddElement
    <3>3. QED
      BY <2>12, <3>1, <3>2 DEF Longer
  <2>14. Kept(ev, new, x)
    BY <2>11, <2>12, <2>13, NextKept DEF Kept
  <2>15. QED
    BY <2>11, <2>14, KeptBoth
<1>3. QED
  BY <1>1, <1>2

LEMMA FormEventKeeps ==
  ASSUME NEW ev, NEW w, Sound(ev, w), NEW e, Ready(ev, e), NEW i, i.who \in People,
         NEW x, x = FormEvent(w, i, e)
  PROVE  Kept(ev, w, x)
<1> DEFINE m == Made(w, i.who)
           r == Row(NoOne, i.who, e)
<1>1. Kept(ev, w, m) /\ Sound(ev, m)
  BY MadeKeeps DEF Kept
<1>2. x = State(m, Event(i.what), r, e)
  BY DEF FormEvent
<1> HIDE DEF m
<1>3. Good(ev, m.entity, m.led, Event(i.what), r) /\ ~IsRel(Event(i.what))
  BY <1>1, EventGood
<1> HIDE DEF r
<1>4. Kept(ev, m, x)
  BY <1>1, <1>2, <1>3, StateKeeps DEF Ready
<1>5. QED
  BY <1>1, <1>4, KeptBoth

LEMMA CorrectEventKeeps ==
  ASSUME NEW ev, NEW w, Sound(ev, w), NEW e, Ready(ev, e), NEW i, i.who \in People,
         NEW x, x = CorrectEvent(w, i, e)
  PROVE  Kept(ev, w, x)
<1> DEFINE m == Made(w, i.who)
           t == Retire(m, i.prior)
           id == Event(i.what)
           r == Row(NoOne, i.who, e)
<1>1. CASE ~Stands(w, i.prior)
  BY <1>1, KeptSelf DEF CorrectEvent
<1>2. CASE Stands(w, i.prior)
  <2>1. Kept(ev, w, m) /\ Sound(ev, m)
    BY MadeKeeps DEF Kept
  <2>2. Kept(ev, m, t) /\ Sound(ev, t)
    BY <2>1, RetireKeeps DEF Kept
  <2>3. x = IF Stands(w, id) THEN Support(t, id, e) ELSE Revive(t, id, r)
    BY <1>2 DEF CorrectEvent
  <2> HIDE DEF m, t
  <2>4. Whom(id, r) = {} /\ ~IsRel(id)
    BY <2>2, EventGood
  <2> HIDE DEF id
  <2>5. Kept(ev, t, Revive(t, id, r))
    BY <2>2, <2>4, ReviveKeeps DEF Ready
  <2>6. Kept(ev, t, Support(t, id, e))
    BY <2>2, SupportKeeps DEF Ready
  <2>7. Kept(ev, t, x)
    BY <2>3, <2>5, <2>6
  <2>8. QED
    BY <2>1, <2>2, <2>7, KeptBoth
<1>3. QED
  BY <1>1, <1>2

LEMMA RetractItKeeps ==
  ASSUME NEW ev, NEW w, Sound(ev, w), NEW i, NEW x, x = RetractIt(w, i)
  PROVE  Kept(ev, w, x)
<1> DEFINE t == Retire(w, i.prior)
<1>1. CASE Stands(w, i.prior)
  <2>1. Kept(ev, w, t) /\ Sound(ev, t)
    BY RetireKeeps DEF Kept
  <2>2. x = [t EXCEPT !.retracted = @ \cup {i.prior}]
    BY <1>1 DEF RetractIt
  <2> HIDE DEF t
  <2>3. OnlyRows(t, x) /\ x.row = t.row
    BY <2>1, <2>2 DEF OnlyRows, Sound, Shape, WorldFields
  <2>4. Kept(ev, t, x)
    BY <2>1, <2>3, RowsKept DEF Sound, Shape, Rows
  <2>5. QED
    BY <2>1, <2>4, KeptBoth
<1>2. QED
  BY <1>1, KeptSelf DEF RetractIt

-----------------------------------------------------------------------------
(* Relationships.                                                          *)
LEMMA WithGood ==
  ASSUME NEW ev, NEW w, Sound(ev, w), NEW e, Ready(ev, e), NEW n, NEW words,
         NEW r, r = [Row(n, NoOne, e) EXCEPT !.words = @ \cup words], NEW id, id = Cog("with", n)
  PROVE  Good(ev, w.entity, w.led, id, r) /\ ~IsRel(id)
<1> DEFINE q == Row(n, NoOne, e)
<1>1. NoOne \notin Names
  BY PeopleAssumption
<1>2. Good(ev, w.entity, w.led, id, q) /\ ~IsRel(id)
  BY <1>1, CogGood
<1>3. DOMAIN q = RowFields /\ r = [q EXCEPT !.words = @ \cup words]
  BY DEF Row, RowFields
<1> HIDE DEF q
<1>4. /\ DOMAIN r = RowFields /\ r.stands = q.stands /\ r.says = q.says /\ r.target = q.target
      /\ r.support = q.support /\ r.against = q.against
  BY <1>3 DEF RowFields
<1>5. Linked(r) = Linked(q) /\ Whom(id, r) = Whom(id, q)
  BY <1>4 DEF Linked, Whom
<1>6. id[1] = "cognition" /\ id[2] = "with"
  BY DEF Cog
<1>7. Held(ev, r)
  BY <1>2, <1>4, <1>5 DEF Good, Held
<1>8. Worded(id, r)
  BY <1>6 DEF Worded
<1>9. Peopled(ev, w.entity, id, r)
  BY <1>2, <1>4, <1>5 DEF Good, Peopled, Apart
<1>10. Unmerged(w.led, id, r)
  BY <1>2, <1>4 DEF Good, Unmerged
<1>11. QED
  BY <1>2, <1>7, <1>8, <1>9, <1>10 DEF Good

LEMMA SingleNoMoreKeeps ==
  ASSUME NEW ev, NEW w, Sound(ev, w), NEW e, Ready(ev, e), NEW n, NEW x, x = SingleNoMore(w, n, e)
  PROVE  Kept(ev, w, x) /\ DOMAIN x.next \subseteq DOMAIN w.next \cup {Cog("mixed", Owner)}
<1> DEFINE single == Cog("single", Owner)
           mixed == Cog("mixed", Owner)
           with == Cog("with", n)
           both == [Row(n, NoOne, e) EXCEPT !.words = @ \cup w.row[mixed].words]
           p == IF Stands(w, single) THEN Retire(w, single) ELSE w
           t == Retire(p, mixed)
           u == Put(t, with, both)
           y == Link(u, mixed, with)
<1>1. x = IF Stands(w, mixed) THEN y ELSE p
  BY DEF SingleNoMore
<1>2. Kept(ev, w, p) /\ Sound(ev, p) /\ p.next = w.next
  <2>1. Kept(ev, w, w)
    BY KeptSelf
  <2>2. Kept(ev, w, Retire(w, single)) /\ OnlyRows(w, Retire(w, single))
    BY RetireKeeps
  <2>3. QED
    BY <2>1, <2>2 DEF Kept, OnlyRows
<1>3. Kept(ev, p, t) /\ Sound(ev, t) /\ t.next = p.next
  <2> HIDE DEF p
  <2>1. QED
    BY <1>2, RetireKeeps DEF Kept, OnlyRows
<1>4. Kept(ev, t, u) /\ Sound(ev, u) /\ u.next = t.next
  <2> HIDE DEF t
  <2>1. Good(ev, t.entity, t.led, with, both) /\ ~IsRel(with)
    BY <1>3, WithGood
  <2> HIDE DEF with, both
  <2>2. QED
    BY <1>3, <2>1, PutKeeps DEF Kept, OnlyRows
<1>5. Kept(ev, u, y) /\ DOMAIN y.next = DOMAIN u.next \cup {mixed}
  <2> HIDE DEF u
  <2>1. QED
    BY <1>4, LinkKeeps
<1> HIDE DEF p, t, u, y, mixed
<1>6. Kept(ev, w, y)
  BY <1>2, <1>3, <1>4, <1>5, KeptBoth
<1>7. Kept(ev, w, x) /\ DOMAIN x.next \subseteq DOMAIN w.next \cup {mixed}
  BY <1>1, <1>2, <1>3, <1>4, <1>5, <1>6
<1>8. QED
  BY <1>7 DEF mixed

(* Putting a relationship that is not plain, before it is linked. *)
LEMMA PutSound ==
  ASSUME NEW ev, NEW w, Sound(ev, w), NEW id, NEW r, Good(ev, w.entity, w.led, id, r),
         NEW x, x = Put(w, id, r)
  PROVE  Sound(ev, x) /\ OnlyRows(w, x) /\ DOMAIN x.row = DOMAIN w.row \cup {id}
<1>1. OnlyRows(w, x) /\ x.row = Over([k \in {id} |-> r], w.row)
  BY DEF Put, OnlyRows, Sound, Shape, WorldFields
<1>2. DOMAIN x.row = DOMAIN w.row \cup {id}
  BY <1>1 DEF Over
<1>3. IsFiniteSet(DOMAIN x.row)
  BY <1>2, FS_AddElement DEF Sound, Shape
<1>4. Rows(ev, x)
  BY <1>1, <1>2 DEF Over, Sound, Rows, OnlyRows
<1>5. Shape(x) /\ LedAway(x.entity, x.led)
  BY <1>1, <1>3 DEF Shape, Sound, OnlyRows
<1>6. QED
  BY <1>1, <1>2, <1>4, <1>5 DEF Sound

(* Which row a relationship goes to. *)
LEMMA VersionIs ==
  ASSUME NEW ev, NEW w, Sound(ev, w), NEW i, NEW e, NEW id, id = Version(w, i, e)
  PROVE  /\ IsRel(id) /\ id[2] = i.who /\ id[4] = i.whom /\ Plain(id) = Base(i)
         /\ \/ id = Plain(id) \/ id \in DOMAIN w.row
            \/ i.act = "supersede" /\ Base(i) \in Ancestors(w, i.prior)
<1> DEFINE again == <<"relationship", i.who, i.what, i.whom, <<i.prior, e>>>>
           O == Occurrences(w, i)
           one == CHOOSE k \in O : TRUE
<1>1. Base(i) = <<"relationship", i.who, i.what, i.whom, <<>>>>
  BY DEF Base, Rel
<1>2. CASE id = Base(i)
  <2>1. id = <<"relationship", i.who, i.what, i.whom, <<>>>>
    BY <1>1, <1>2
  <2>2. IsRel(id) /\ id[2] = i.who /\ id[3] = i.what /\ id[4] = i.whom
    BY <2>1 DEF IsRel
  <2>3. Plain(id) = id
    BY <2>1, <2>2 DEF Plain, Rel
  <2>4. QED
    BY <1>2, <2>2, <2>3
<1>3. CASE id = again /\ i.act = "supersede" /\ Base(i) \in Ancestors(w, i.prior)
  BY <1>1, <1>3 DEF IsRel, Plain, Rel
<1>4. CASE id \in O
  <2>1. id \in DOMAIN w.row /\ IsRel(id) /\ Same(id, Base(i))
    BY <1>4 DEF Occurrences
  <2>2. Base(i)[2] = i.who /\ Base(i)[3] = i.what /\ Base(i)[4] = i.whom
    BY <1>1
  <2>3. id[2] = i.who /\ id[3] = i.what /\ id[4] = i.whom
    BY <2>1, <2>2 DEF Same
  <2>4. Plain(id) = Base(i)
    BY <1>1, <2>3 DEF Plain, Rel
  <2>5. QED
    BY <2>1, <2>3, <2>4
<1>5. O # {} => one \in O
  OBVIOUS
<1> HIDE DEF O
<1>6. id = Base(i) \/ (id = again /\ i.act = "supersede" /\ Base(i) \in Ancestors(w, i.prior)) \/ id \in O
  BY <1>5 DEF Version, O
<1>7. QED
  BY <1>2, <1>3, <1>4, <1>6

(* A relationship between two people who are there. *)
LEMMA RelGood ==
  ASSUME NEW ev, NEW w, Sound(ev, w), NEW e, Ready(ev, e), NEW id, IsRel(id), NEW says,
         \A n \in {id[2], id[4]} \cap Names : w.entity[n] = "current",
         NEW r, r = Row(says, NoOne, e)
  PROVE  Good(ev, w.entity, w.led, id, r) /\ \A n \in Whom(id, r) : w.entity[n] = "current"
<1>1. \A n \in Whom(id, r) : w.entity[n] = "current"
  BY DEF Whom
<1>2. e \in Evidence /\ ev[e] \in {"live", "soft"} /\ LedAway(w.entity, w.led)
  BY DEF Ready, Sound
<1>3. QED
  BY <1>1, <1>2, FreshGood

LEMMA BothMade ==
  ASSUME NEW ev, NEW w, Sound(ev, w), NEW a \in People, NEW b \in People, ~Gone(w, a), ~Gone(w, b),
         NEW x, x = Made(Made(w, a), b)
  PROVE  /\ Kept(ev, w, x) /\ x.entity[a] = "current" /\ x.entity[b] = "current"
         /\ x.next = w.next /\ x.row = w.row
<1> DEFINE m == Made(w, a)
<1>1. Kept(ev, w, m) /\ Sound(ev, m) /\ m.entity[a] = "current" /\ ~Gone(m, b) /\ m.next = w.next /\ m.row = w.row
  BY MadeKeeps, MadeCurrent DEF Kept
<1>2. x = Made(m, b)
  OBVIOUS
<1> HIDE DEF m
<1>3. /\ Kept(ev, m, x) /\ Settled(m.entity, x.entity) /\ x.entity[b] = "current"
      /\ x.next = m.next /\ x.row = m.row
  BY <1>1, <1>2, MadeKeeps, MadeCurrent
<1>4. x.entity[a] = "current"
  BY <1>1, <1>3 DEF Settled
<1>5. QED
  BY <1>1, <1>3, <1>4, KeptBoth

LEMMA CorrectRelationshipKeeps ==
  ASSUME NEW ev, NEW w, Sound(ev, w), NEW e, Ready(ev, e), NEW i, i.who \in People, i.whom \in Names,
         ~RefusedCorrection(w, i), NEW x, x = CorrectRelationship(w, i, e)
  PROVE  Kept(ev, w, x)
<1> DEFINE m == Made(Made(w, i.who), i.whom)
           t == Retire(m, i.prior)
           id == Base(i)
           r == Row(i.say, NoOne, e)
           y == IF Stands(w, id) THEN Support(t, id, e) ELSE Revive(t, id, r)
<1>1. CASE ~Stands(w, i.prior)
  BY <1>1, KeptSelf DEF CorrectRelationship
<1>2. CASE Stands(w, i.prior)
  <2>1. ~Gone(w, i.who) /\ ~Gone(w, i.whom) /\ i.whom \in People
    BY <1>2 DEF RefusedCorrection, People
  <2>2. /\ Kept(ev, w, m) /\ Sound(ev, m)
        /\ m.entity[i.who] = "current" /\ m.entity[i.whom] = "current"
    BY <2>1, BothMade DEF Kept
  <2>3. Kept(ev, m, t) /\ Sound(ev, t) /\ t.entity = m.entity
    <3> HIDE DEF m
    <3>1. QED
      BY <2>2, RetireKeeps DEF Kept, OnlyRows
  <2>4. x = Link(y, i.prior, id)
    BY <1>2 DEF CorrectRelationship
  <2>5. y = IF Stands(w, id) THEN Support(t, id, e) ELSE Revive(t, id, r)
    OBVIOUS
  <2>6. IsRel(id) /\ id[2] = i.who /\ id[4] = i.whom /\ id = Plain(id)
    BY DEF Base, Rel, IsRel, Plain
  <2> HIDE DEF m, t, id, y
  <2>7. \A n \in {id[2], id[4]} \cap Names : t.entity[n] = "current"
    BY <2>2, <2>3, <2>6
  <2>8. \A n \in Whom(id, r) : t.entity[n] = "current"
    BY <2>3, <2>6, <2>7, RelGood
  <2>9. Kept(ev, t, Revive(t, id, r))
    BY <2>3, <2>6, <2>8, ReviveKeeps DEF Ready
  <2>10. Kept(ev, t, Support(t, id, e))
    BY <2>3, SupportKeeps DEF Ready
  <2>11. Kept(ev, t, y) /\ Sound(ev, y)
    BY <2>5, <2>9, <2>10 DEF Kept
  <2>12. Kept(ev, y, x)
    BY <2>4, <2>11, LinkKeeps
  <2>13. QED
    BY <2>2, <2>3, <2>11, <2>12, KeptBoth
<1>3. QED
  BY <1>1, <1>2

(* The World stays sound, and its relationships chained. *)
Well(ev, w, x) == Sound(ev, x) /\ (Chain(w) => Chain(x))

LEMMA KeptWell == ASSUME NEW ev, NEW w, NEW x, Kept(ev, w, x) PROVE Well(ev, w, x)
BY CalmChain DEF Kept, Well

LEMMA FormRelationshipKeeps ==
  ASSUME NEW ev, NEW w, Sound(ev, w), NEW e, Ready(ev, e), NEW i, i.who \in People, i.whom \in Names,
         i.act \in {"form", "supersede"}, i.act = "supersede" => i.prior[1] = "relationship",
         ~RefusedRelationship(w, i, e), NEW x, x = FormRelationship(w, i, e)
  PROVE  Well(ev, w, x)
<1> DEFINE id == Version(w, i, e)
           m == Made(Made(w, i.who), i.whom)
           s == Sourced(m, {i.who, i.whom} \ {Owner}, e)
           r == Row(i.say, NoOne, e)
           t == State(s, id, r, e)
           u == IF Partner(i) /\ ~Has(w, id) THEN SingleNoMore(t, i.whom, e) ELSE t
           y == Support(u, i.prior, e)
<1>1. x = IF i.act = "supersede" THEN Link(y, i.prior, id) ELSE u
  BY DEF FormRelationship
<1>2. ~Gone(w, i.who) /\ ~Gone(w, i.whom) /\ i.whom \in People
  BY DEF RefusedRelationship, People
<1>3. i.act = "supersede" => i.prior \notin DOMAIN w.next
  BY DEF RefusedRelationship, Offered, Superseded
<1>4. /\ IsRel(id) /\ id[2] = i.who /\ id[4] = i.whom /\ Plain(id) = Base(i)
      /\ \/ id = Plain(id) \/ id \in DOMAIN w.row
         \/ i.act = "supersede" /\ Base(i) \in Ancestors(w, i.prior)
  BY VersionIs
<1> HIDE DEF id
<1>5. /\ Kept(ev, w, m) /\ Sound(ev, m) /\ m.next = w.next /\ m.row = w.row
      /\ m.entity[i.who] = "current" /\ m.entity[i.whom] = "current"
  BY <1>2, BothMade DEF Kept
<1>6. Kept(ev, m, s) /\ Sound(ev, s) /\ s.next = m.next /\ s.row = m.row /\ s.entity = m.entity
  <2> HIDE DEF m
  <2>1. QED
    BY <1>5, SourcedKeeps DEF Kept, OnlyRows
<1> HIDE DEF m, s
<1>7. Good(ev, s.entity, s.led, id, r)
  <2>1. \A n \in {id[2], id[4]} \cap Names : s.entity[n] = "current"
    BY <1>4, <1>5, <1>6
  <2>2. QED
    BY <1>4, <1>6, <2>1, RelGood
<1> HIDE DEF r
<1>8. Sound(ev, t) /\ t.next = w.next /\ DOMAIN t.row \subseteq DOMAIN w.row \cup {id}
  <2>1. CASE Has(s, id)
    <3>1. t = Support(s, id, e)
      BY <2>1 DEF State
    <3>2. OnlyRows(s, t) /\ Sound(ev, t)
      BY <1>6, <3>1, SupportKeeps DEF Ready, Kept
    <3>3. DOMAIN t.row = DOMAIN s.row
      BY <1>6, <3>1 DEF Support, Sound, Shape, WorldFields
    <3>4. QED
      BY <1>5, <1>6, <3>2, <3>3 DEF OnlyRows
  <2>2. CASE ~Has(s, id)
    <3>1. t = Put(s, id, r)
      BY <2>2 DEF State
    <3>2. Sound(ev, t) /\ OnlyRows(s, t) /\ DOMAIN t.row = DOMAIN s.row \cup {id}
      BY <1>6, <1>7, <3>1, PutSound
    <3>3. QED
      BY <1>5, <1>6, <3>2 DEF OnlyRows
  <2>3. QED
    BY <2>1, <2>2
<1> HIDE DEF t
<1>9. Kept(ev, t, u) /\ Sound(ev, u) /\ DOMAIN u.next \subseteq DOMAIN w.next \cup {Cog("mixed", Owner)}
  <2>1. Kept(ev, t, t)
    BY <1>8, KeptSelf
  <2>2. /\ Kept(ev, t, SingleNoMore(t, i.whom, e))
        /\ DOMAIN SingleNoMore(t, i.whom, e).next \subseteq DOMAIN t.next \cup {Cog("mixed", Owner)}
    BY <1>8, SingleNoMoreKeeps
  <2>3. QED
    BY <1>8, <2>1, <2>2 DEF Kept
<1> HIDE DEF u
<1>10. Kept(ev, u, y) /\ Sound(ev, y) /\ y.next = u.next
  BY <1>9, SupportKeeps DEF Ready, Kept, OnlyRows
<1> HIDE DEF y
<1>11. i.act = "supersede" => i.prior \notin DOMAIN y.next
  <2>1. Cog("mixed", Owner)[1] = "cognition"
    BY DEF Cog
  <2>2. i.act = "supersede" => i.prior # Cog("mixed", Owner)
    BY <2>1
  <2>3. QED
    BY <1>3, <1>9, <1>10, <2>2
<1>12. /\ Kept(ev, u, x)
       /\ i.act = "supersede" => i.prior \in DOMAIN x.next /\ x.next[i.prior] = id
  <2>1. CASE i.act = "supersede"
    <3>1. x = Link(y, i.prior, id)
      BY <1>1, <2>1
    <3>2. Kept(ev, y, x) /\ i.prior \in DOMAIN x.next /\ x.next[i.prior] = id
      BY <1>10, <1>11, <2>1, <3>1, LinkKeeps
    <3>3. QED
      BY <1>10, <3>2, KeptBoth
  <2>2. CASE i.act # "supersede"
    BY <1>1, <1>9, <2>2, KeptSelf
  <2>3. QED
    BY <2>1, <2>2
<1>13. Kept(ev, t, x)
  BY <1>9, <1>12, KeptBoth
<1>14. ASSUME Chain(w) PROVE Chain(x)
  <2> SUFFICES ASSUME NEW k \in DOMAIN x.row, IsRel(k) PROVE Reaches(x.next, Plain(k), k)
    BY DEF Chain
  <2>1. Longer(w.next, x.next)
    BY <1>8, <1>13 DEF Kept, Calm
  <2>2. k \in DOMAIN w.row \/ k = id \/ k = Plain(k)
    BY <1>8, <1>13 DEF Kept, Calm
  <2>3. CASE k \in DOMAIN w.row
    BY <1>14, <2>1, <2>3, ReachesMore DEF Chain
  <2>4. CASE k = Plain(k)
    BY <2>4, ReachesSelf
  <2>5. CASE k = id /\ i.act = "supersede" /\ Base(i) \in Ancestors(w, i.prior)
    <3>1. IsFiniteSet(DOMAIN w.next)
      BY DEF Sound, Shape
    <3>2. Reaches(w.next, Base(i), i.prior)
      BY <2>5, <3>1, AncestorsReach
    <3>3. Reaches(x.next, Base(i), i.prior)
      BY <2>1, <3>2, ReachesMore
    <3>4. Reaches(x.next, Base(i), x.next[i.prior])
      BY <1>12, <2>5, <3>3, ReachesOn
    <3>5. QED
      BY <1>4, <1>12, <2>5, <3>4
  <2>6. QED
    BY <1>4, <2>2, <2>3, <2>4, <2>5
<1>15. QED
  BY <1>13, <1>14 DEF Well, Kept

-----------------------------------------------------------------------------
(* A person leaves: is merged with another, or renamed.                    *)
Departed(ent, gone, m) == \A n \in Names : gone[n] = IF n = m THEN "invalid" ELSE ent[n]
Stilled(r) == [r EXCEPT !.stands = FALSE]

LEMMA LeavingGood ==
  ASSUME NEW ev, NEW ent, NEW led, NEW id, NEW r, Good(ev, ent, led, id, r),
         NEW m \in Names, NEW gone, Departed(ent, gone, m),
         NEW l, l.kind = "alias" /\ id[1] = "cognition" => r.target # l.from,
         r.stands /\ LiveIn(ev, Linked(r)) /\ m \in Whom(id, r) => Apart(gone, id, r, m)
  PROVE  Good(ev, gone, led \cup {l}, id, r)
<1>1. Held(ev, r) /\ Worded(id, r) /\ Peopled(ev, ent, id, r) /\ Unmerged(led, id, r)
  BY DEF Good
<1>2. \A n \in Whom(id, r) : n \in Names
  BY DEF Whom
<1>3. \A n \in Whom(id, r) : gone[n] # "absent"
  BY <1>1, <1>2 DEF Peopled, Departed
<1>4. ASSUME r.stands, LiveIn(ev, Linked(r)), NEW n \in Whom(id, r)
      PROVE  gone[n] = "current" \/ Apart(gone, id, r, n)
  <2>1. CASE n = m
    BY <1>4, <2>1
  <2>2. CASE n # m
    <3>1. ent[n] = "current" \/ Apart(ent, id, r, n)
      BY <1>1, <1>4 DEF Peopled
    <3>2. gone[n] = ent[n]
      BY <1>2, <2>2 DEF Departed
    <3>3. QED
      BY <3>1, <3>2 DEF Apart
  <2>3. QED
    BY <2>1, <2>2
<1>5. Peopled(ev, gone, id, r)
  BY <1>3, <1>4 DEF Peopled
<1>6. Unmerged(led \cup {l}, id, r)
  BY <1>1 DEF Unmerged
<1>7. QED
  BY <1>1, <1>5, <1>6 DEF Good

LEMMA RetargetedKeeps ==
  ASSUME NEW ev, NEW w, Sound(ev, w), NEW m, NEW c \in Names, w.entity[c] = "current", m # c,
         NEW x, x = Retargeted(w, m, c)
  PROVE  /\ Kept(ev, w, x) /\ OnlyRows(w, x) /\ DOMAIN x.row = DOMAIN w.row
         /\ \A k \in DOMAIN x.row : k[1] = "cognition" => x.row[k].target # m
<1>1. OnlyRows(w, x) /\ DOMAIN x.row = DOMAIN w.row
  BY DEF Retargeted, OnlyRows, Sound, Shape, WorldFields
<1>2. \A k \in DOMAIN x.row :
        x.row[k] = IF k[1] = "cognition" /\ w.row[k].target = m THEN [w.row[k] EXCEPT !.target = c]
                   ELSE w.row[k]
  BY DEF Retargeted, Sound, Shape, WorldFields
<1>3. ASSUME NEW k \in DOMAIN x.row
      PROVE  Good(ev, w.entity, w.led, k, x.row[k]) /\ (k[1] = "cognition" => x.row[k].target # m)
  <2> DEFINE r == w.row[k]
             q == x.row[k]
  <2>1. Good(ev, w.entity, w.led, k, r)
    BY <1>1 DEF Sound, Rows
  <2>2. CASE k[1] = "cognition" /\ r.target = m
    <3>1. q = [r EXCEPT !.target = c]
      BY <1>2, <2>2
    <3>2. DOMAIN r = RowFields
      BY <2>1 DEF Good, Held
    <3> HIDE DEF q, r
    <3>3. /\ DOMAIN q = RowFields /\ q.target = c /\ q.stands = r.stands /\ q.says = r.says
          /\ q.support = r.support /\ q.against = r.against /\ q.words = r.words
      BY <3>1, <3>2 DEF RowFields
    <3>4. Linked(q) = Linked(r)
      BY <3>3 DEF Linked
    <3>5. Held(ev, q) /\ Worded(k, q)
      BY <2>1, <3>3, <3>4 DEF Good, Held, Worded
    <3>6. Whom(k, q) = {c}
      BY <2>2, <3>3 DEF Whom, IsRel
    <3>7. Peopled(ev, w.entity, k, q)
      BY <3>6 DEF Peopled
    <3>8. Unmerged(w.led, k, q)
      BY <3>3 DEF Unmerged, Sound, LedAway
    <3>9. QED
      BY <3>3, <3>5, <3>7, <3>8 DEF Good, q
  <2>3. CASE ~(k[1] = "cognition" /\ r.target = m)
    BY <1>2, <2>1, <2>3
  <2>4. QED
    BY <2>2, <2>3
<1>4. IsFiniteSet(DOMAIN x.row)
  BY <1>1 DEF Sound, Shape
<1>5. QED
  BY <1>1, <1>3, <1>4, RowsKept

(* Relationships that meet, as one. *)
MovedIds(w, m, c) == {To(id, m, c) : id \in Moving(w, m)}

LEMMA ToIs ==
  ASSUME NEW id, NEW m, NEW c, NEW n, n = To(id, m, c)
  PROVE  /\ IsRel(n) /\ n = Plain(n)
         /\ n[2] = (IF id[2] = m THEN c ELSE id[2]) /\ n[4] = (IF id[4] = m THEN c ELSE id[4])
<1> DEFINE a == IF id[2] = m THEN c ELSE id[2]
           b == IF id[4] = m THEN c ELSE id[4]
<1>1. n = <<"relationship", a, id[3], b, <<>>>>
  BY DEF To, Rel
<1> HIDE DEF a, b
<1>2. n[1] = "relationship" /\ n[2] = a /\ n[3] = id[3] /\ n[4] = b
  BY <1>1
<1>3. n = Plain(n)
  BY <1>1, <1>2 DEF Plain, Rel
<1>4. QED
  BY <1>2, <1>3 DEF IsRel, a, b

LEMMA JoinedGood ==
  ASSUME NEW ev, NEW w, Sound(ev, w), NEW m \in Names, NEW c \in Names, m # c, w.entity[c] = "current",
         NEW gone, Departed(w.entity, gone, m), NEW led,
         NEW n \in MovedIds(w, m, c), NEW r, r = Joined(w, m, c, n)
  PROVE  Good(ev, gone, led, n, r)
<1> DEFINE M == Meeting(w, m, c, n)
           all == M \cup ({n} \cap DOMAIN w.row)
           one == CHOOSE id \in M : TRUE
           o == w.row[one]
           S == UNION {w.row[id].support : id \in all}
           W == UNION {w.row[id].words : id \in all}
<1>1. one \in M
  <2>1. PICK id \in Moving(w, m) : n = To(id, m, c)
    BY DEF MovedIds
  <2>2. id \in M
    BY <2>1 DEF Meeting
  <2>3. QED
    BY <2>2
<1>2. r = [o EXCEPT !.support = S, !.words = W]
  BY DEF Joined
<1>3. \A id \in M : id \in DOMAIN w.row /\ IsRel(id) /\ w.row[id].stands /\ n = To(id, m, c)
  BY DEF Meeting, Moving, Stands
<1>4. IsRel(n)
  BY <1>1, <1>3, ToIs
<1>5. \A id \in all : id \in DOMAIN w.row /\ IsRel(id) /\ Good(ev, w.entity, w.led, id, w.row[id])
  BY <1>3, <1>4 DEF Sound, Rows
<1>6. one \in all /\ one \in DOMAIN w.row /\ IsRel(one) /\ o.stands /\ n = To(one, m, c)
  BY <1>1, <1>3
<1>7. Good(ev, w.entity, w.led, one, o)
  BY <1>5, <1>6
<1>8. \A id \in all : w.row[id].support \subseteq S /\ w.row[id].words \subseteq w.row[id].support
  <2>1. \A id \in all : id[1] = "relationship"
    BY <1>5 DEF IsRel
  <2>2. QED
    BY <1>5, <2>1 DEF Good, Worded
<1>9. o.support \subseteq S /\ W \subseteq S
  <2>1. o.support \subseteq S
    BY <1>6, <1>8
  <2>2. ASSUME NEW v \in W PROVE v \in S
    <3>1. PICK id \in all : v \in w.row[id].words
      OBVIOUS
    <3>2. QED
      BY <1>8, <3>1
  <2>3. QED
    BY <2>1, <2>2
<1>10. \A e \in S : e \in Evidence /\ ev[e] \in {"live", "soft"}
  BY <1>5 DEF Good, Held, Linked
<1> HIDE DEF S, W, all, M, o, one
<1>11. DOMAIN r = RowFields /\ r.stands = o.stands /\ r.support = S /\ r.words = W /\ r.against = o.against
  BY <1>2, <1>7 DEF Good, Held, RowFields
<1>12. Linked(r) = S \cup o.against /\ Linked(o) \subseteq Linked(r) /\ Linked(o) # {}
  BY <1>7, <1>9, <1>11 DEF Linked, Good, Held
<1>13. Held(ev, r)
  BY <1>7, <1>9, <1>10, <1>11, <1>12 DEF Good, Held, Linked
<1>14. Worded(n, r)
  BY <1>9, <1>11 DEF Worded
<1>15. /\ Whom(n, r) = {n[2], n[4]} \cap Names /\ Whom(one, o) = {one[2], one[4]} \cap Names
       /\ \A p \in Whom(n, r) : p \in Names /\ (p = c \/ (p # m /\ p \in Whom(one, o)))
  <2>1. Whom(n, r) = {n[2], n[4]} \cap Names /\ Whom(one, o) = {one[2], one[4]} \cap Names
    BY <1>4, <1>6 DEF Whom
  <2>2. n[2] = (IF one[2] = m THEN c ELSE one[2]) /\ n[4] = (IF one[4] = m THEN c ELSE one[4])
    BY <1>6, ToIs
  <2>3. QED
    BY <2>1, <2>2
<1>16. \A p \in Whom(n, r) : gone[p] # "absent"
  BY <1>7, <1>15 DEF Good, Peopled, Departed
<1>17. LiveIn(ev, Linked(r)) => \A p \in Whom(n, r) : gone[p] = "current"
  <2>1. LiveIn(ev, Linked(r)) => LiveIn(ev, Linked(o))
    BY <1>12 DEF LiveIn
  <2>2. LiveIn(ev, Linked(o)) => \A p \in Whom(one, o) : w.entity[p] = "current"
    BY <1>6, <1>7 DEF Good, Peopled, Apart, IsRel
  <2>3. QED
    BY <1>15, <2>1, <2>2 DEF Departed
<1>18. Peopled(ev, gone, n, r)
  BY <1>16, <1>17 DEF Peopled
<1>19. Unmerged(led, n, r)
  BY <1>4 DEF Unmerged, IsRel
<1>20. QED
  BY <1>13, <1>14, <1>18, <1>19 DEF Good

Anchored(w, m, c, x) ==
  /\ DOMAIN x.row = DOMAIN w.row \cup MovedIds(w, m, c)
  /\ \A k \in DOMAIN x.row :
       x.row[k] = IF k \in MovedIds(w, m, c) THEN Joined(w, m, c, k)
                  ELSE IF k \in Moving(w, m) THEN Stilled(w.row[k]) ELSE w.row[k]

LEMMA ReanchoredIs ==
  ASSUME NEW ev, NEW w, Sound(ev, w), NEW m, NEW c, NEW x, x = Reanchored(w, m, c)
  PROVE  OnlyRows(w, x) /\ IsFiniteSet(DOMAIN x.row) /\ Anchored(w, m, c, x)
<1> DEFINE new == {To(id, m, c) : id \in Moving(w, m)}
           R == [k \in DOMAIN w.row \cup new |->
                   IF k \in new THEN Joined(w, m, c, k)
                   ELSE IF k \in Moving(w, m) THEN [w.row[k] EXCEPT !.stands = FALSE] ELSE w.row[k]]
           f == [id \in Moving(w, m) |-> To(id, m, c)]
<1>1. x = [w EXCEPT !.row = R]
  BY DEF Reanchored
<1>2. DOMAIN R = DOMAIN w.row \cup new
  OBVIOUS
<1>3. OnlyRows(w, x) /\ x.row = R
  <2> HIDE DEF R
  <2>1. QED
    BY <1>1 DEF OnlyRows, Sound, Shape, WorldFields
<1>4. IsFiniteSet(new)
  <2>1. IsFiniteSet(Moving(w, m))
    <3>1. Moving(w, m) \subseteq DOMAIN w.row
      BY DEF Moving
    <3>2. QED
      BY <3>1, FS_Subset DEF Sound, Shape
  <2>2. f \in Surjection(Moving(w, m), new)
    BY DEF Surjection
  <2> HIDE DEF f
  <2>3. QED
    BY <2>1, <2>2, FS_Surjection
<1>5. IsFiniteSet(DOMAIN w.row \cup new)
  BY <1>4, FS_Union DEF Sound, Shape
<1>6. QED
  BY <1>2, <1>3, <1>5 DEF Stilled, Anchored, MovedIds

(* Who is merged with whom. *)
LEMMA MergedPair ==
  ASSUME NEW ev, NEW w, Sound(ev, w), NEW i, AliasItem(i), ~RefusedAlias(w, i),
         \A n \in {i.who, i.whom} : ~Gone(w, n),
         NEW m, m = Earlier(w, i)[2], NEW c, c = Earlier(w, i)[1]
  PROVE  m \in Names /\ c \in Names /\ m # c /\ w.entity[c] = "current" /\ w.entity[m] = "current"
<1>1. i.who \in Names /\ i.whom \in Names /\ i.who # i.whom
  BY DEF AliasItem
<1>2. w.entity[i.who] = "current" /\ w.entity[i.whom] = "current"
  BY <1>1 DEF RefusedAlias, Gone, Sound, Shape, People
<1>3. <<c, m>> = <<i.who, i.whom>> \/ <<c, m>> = <<i.whom, i.who>>
  BY DEF Earlier
<1>4. QED
  BY <1>1, <1>2, <1>3

(* The entity of whoever left, and who led away. *)
LEMMA LeavingShape ==
  ASSUME NEW ent \in [People -> {"absent", "current", "invalid"}], NEW led, LedAway(ent, led),
         NEW m \in Names, NEW gone, gone = [ent EXCEPT ![m] = "invalid"], NEW l, l.from = m
  PROVE  /\ gone \in [People -> {"absent", "current", "invalid"}]
         /\ Departed(ent, gone, m) /\ LedAway(gone, led \cup {l})
<1>1. gone \in [People -> {"absent", "current", "invalid"}] /\ Departed(ent, gone, m)
  BY DEF People, Departed
<1>2. QED
  BY <1>1 DEF LedAway, Departed

LEMMA MergeKeeps ==
  ASSUME NEW ev, NEW w, Sound(ev, w), NEW e, NEW i, AliasItem(i), ~RefusedAlias(w, i),
         NEW x, x = Merge(w, i, e)
  PROVE  Kept(ev, w, x)
<1> DEFINE m == Earlier(w, i)[2]
           c == Earlier(w, i)[1]
           r == Retargeted(w, m, c)
           v == Reanchored(r, m, c)
           l == [kind |-> "alias", from |-> m, to |-> c, by |-> e]
           gone == [w.entity EXCEPT ![m] = "invalid"]
           new == MovedIds(r, m, c)
<1>1. CASE \E n \in {i.who, i.whom} : Gone(w, n)
  BY <1>1, KeptSelf DEF Merge
<1>2. CASE \A n \in {i.who, i.whom} : ~Gone(w, n)
  <2>1. x = [v EXCEPT !.entity[m] = "invalid", !.led = @ \cup {l}]
    BY <1>2 DEF Merge
  <2>2. l.kind = "alias" /\ l.from = m
    OBVIOUS
  <2> HIDE DEF l
  <2>3. m \in Names /\ c \in Names /\ m # c /\ w.entity[c] = "current"
    BY <1>2, MergedPair
  <2> HIDE DEF m, c
  <2>4. /\ Kept(ev, w, r) /\ Sound(ev, r) /\ OnlyRows(w, r) /\ DOMAIN r.row = DOMAIN w.row
        /\ \A k \in DOMAIN r.row : k[1] = "cognition" => r.row[k].target # m
    BY <2>3, RetargetedKeeps DEF Kept
  <2> HIDE DEF r
  <2>5. /\ OnlyRows(r, v) /\ DOMAIN v.row = DOMAIN r.row \cup new /\ IsFiniteSet(DOMAIN v.row)
        /\ \A k \in DOMAIN v.row :
              v.row[k] = IF k \in new THEN Joined(r, m, c, k)
                         ELSE IF k \in Moving(r, m) THEN Stilled(r.row[k])
                         ELSE r.row[k]
    <3>1. OnlyRows(r, v) /\ IsFiniteSet(DOMAIN v.row) /\ Anchored(r, m, c, v)
      BY <2>4, ReanchoredIs
    <3> HIDE DEF v
    <3>2. QED
      BY <3>1 DEF Anchored
  <2> HIDE DEF v
  <2>6. /\ DOMAIN x = WorldFields /\ x.entity = gone /\ x.led = w.led \cup {l} /\ x.row = v.row
        /\ x.next = w.next /\ x.pending = w.pending
    BY <2>1, <2>4, <2>5 DEF OnlyRows, WorldFields
  <2>7. /\ gone \in [People -> {"absent", "current", "invalid"}]
        /\ Departed(w.entity, gone, m)
        /\ LedAway(gone, w.led \cup {l})
    <3> DEFINE ent == w.entity
    <3>1. /\ gone = [ent EXCEPT ![m] = "invalid"] /\ LedAway(ent, w.led)
          /\ ent \in [People -> {"absent", "current", "invalid"}]
      BY DEF Sound, Shape
    <3> HIDE DEF gone, ent
    <3>2. /\ gone \in [People -> {"absent", "current", "invalid"}]
          /\ Departed(ent, gone, m) /\ LedAway(gone, w.led \cup {l})
      BY <2>2, <2>3, <3>1, LeavingShape
    <3>3. QED
      BY <3>2 DEF ent
  <2> HIDE DEF gone
  <2>8. Shape(x)
    BY <2>5, <2>6, <2>7 DEF Sound, Shape
  <2>9. ASSUME NEW k \in DOMAIN x.row PROVE Good(ev, gone, w.led \cup {l}, k, x.row[k])
    <3>1. r.entity = w.entity /\ r.led = w.led
      BY <2>4 DEF OnlyRows
    <3>2. CASE k \in new
      <4>1. x.row[k] = Joined(r, m, c, k)
        BY <2>5, <2>6, <3>2
      <4>2. QED
        BY <2>3, <2>4, <2>7, <3>1, <3>2, <4>1, JoinedGood
    <3>3. CASE k \notin new
      <4> DEFINE q == x.row[k]
      <4>1. k \in DOMAIN r.row /\ Good(ev, w.entity, w.led, k, r.row[k])
        BY <2>4, <2>5, <2>6, <3>1, <3>3 DEF Sound, Rows
      <4>2. /\ Good(ev, w.entity, w.led, k, q) /\ q.target = r.row[k].target
            /\ q.stands => r.row[k].stands /\ k \notin Moving(r, m)
        <5>1. CASE k \in Moving(r, m)
          <6>1. q = [r.row[k] EXCEPT !.stands = FALSE]
            BY <2>5, <2>6, <3>3, <5>1 DEF Stilled
          <6>2. DOMAIN r.row[k] = RowFields
            BY <4>1 DEF Good, Held
          <6>3. ~q.stands /\ q.target = r.row[k].target
            BY <6>1, <6>2 DEF RowFields
          <6>4. QED
            BY <4>1, <6>1, <6>3, RetiredGood
        <5>2. CASE k \notin Moving(r, m)
          BY <2>5, <2>6, <3>3, <4>1, <5>2
        <5>3. QED
          BY <5>1, <5>2
      <4> HIDE DEF q
      <4>3. k[1] = "cognition" => q.target # m
        BY <2>4, <4>1, <4>2
      <4>4. q.stands => m \notin Whom(k, q)
        BY <4>1, <4>2, <4>3 DEF Whom, Moving, Stands, Has
      <4>5. Good(ev, gone, w.led \cup {l}, k, q)
        BY <2>2, <2>3, <2>7, <4>2, <4>3, <4>4, LeavingGood
      <4>6. QED
        BY <4>5 DEF q
    <3>4. QED
      BY <3>2, <3>3
  <2>10. Rows(ev, x) /\ LedAway(x.entity, x.led)
    BY <2>6, <2>7, <2>9 DEF Rows
  <2>11. Calm(w, x)
    <3>1. \A k \in new : k = Plain(k)
      BY ToIs DEF MovedIds
    <3>2. QED
      BY <2>4, <2>5, <2>6, <3>1 DEF Calm, Longer
  <2>12. QED
    BY <2>8, <2>10, <2>11 DEF Kept, Sound
<1>3. QED
  BY <1>1, <1>2

(* A renaming: what is copied, where to, and what the copy says. *)
OldIds(w, o) == Renaming(w, o) \cup Saying(w, o)
NewId(id, o, n, e) == IF IsRel(id) THEN To(id, o, n) ELSE Again(id, n, e)
NewIds(w, o, n, e) == {NewId(id, o, n, e) : id \in OldIds(w, o)}
FromId(w, o, n, e, k) == CHOOSE id \in OldIds(w, o) : NewId(id, o, n, e) = k
Copied(r, o, n, e) ==
  [r EXCEPT !.support = @ \cup {e}, !.says = IF @ = o THEN n ELSE @, !.target = IF @ = o THEN n ELSE @]
RowsRenamed(w, o, n, e, x) ==
  /\ DOMAIN x.row = DOMAIN w.row \cup NewIds(w, o, n, e)
  /\ \A k \in DOMAIN x.row :
       x.row[k] = IF k \in OldIds(w, o) THEN Stilled(w.row[k])
                  ELSE IF k \in DOMAIN w.row THEN w.row[k]
                  ELSE Copied(w.row[FromId(w, o, n, e, k)], o, n, e)

LEMMA OldIdsAre ==
  ASSUME NEW w, NEW o, NEW id \in OldIds(w, o)
  PROVE  /\ id \in DOMAIN w.row /\ w.row[id].stands /\ LiveIn(evidence, Linked(w.row[id]))
         /\ IsRel(id) \/ id[1] = "cognition"
BY DEF OldIds, Renaming, Saying, Moving, Visible, Stands, Has, Live, LiveIn

LEMMA FinitelyRenamed ==
  ASSUME NEW w, IsFiniteSet(DOMAIN w.row), NEW o, NEW n, NEW e
  PROVE  IsFiniteSet(OldIds(w, o)) /\ IsFiniteSet(NewIds(w, o, n, e))
<1> DEFINE f == [id \in OldIds(w, o) |-> NewId(id, o, n, e)]
<1>1. OldIds(w, o) \subseteq DOMAIN w.row
  BY OldIdsAre
<1>2. IsFiniteSet(OldIds(w, o))
  BY <1>1, FS_Subset
<1>3. f \in Surjection(OldIds(w, o), NewIds(w, o, n, e))
  BY DEF Surjection, NewIds
<1> HIDE DEF f
<1>4. QED
  BY <1>2, <1>3, FS_Surjection

LEMMA CopiedGood ==
  ASSUME NEW ev, NEW ent, NEW led, NEW id, IsRel(id) \/ id[1] = "cognition",
         NEW r, Good(ev, ent, led, id, r), r.stands, LiveIn(ev, Linked(r)),
         NEW e, Ready(ev, e), NEW o \in Names, NEW n \in Names, n # o,
         NEW gone, Departed(ent, gone, o), gone[n] = "current",
         NEW l, l.kind = "name", LedAway(gone, led \cup {l}),
         NEW k, k = NewId(id, o, n, e), NEW q, q = Copied(r, o, n, e)
  PROVE  Good(ev, gone, led \cup {l}, k, q)
<1>1. Held(ev, r) /\ Worded(id, r) /\ Peopled(ev, ent, id, r) /\ Unmerged(led, id, r)
  BY DEF Good
<1>2. DOMAIN r = RowFields
  BY <1>1 DEF Held
<1>3. /\ DOMAIN q = RowFields /\ q.stands = r.stands /\ q.words = r.words /\ q.against = r.against
      /\ q.support = r.support \cup {e}
      /\ q.says = (IF r.says = o THEN n ELSE r.says) /\ q.target = (IF r.target = o THEN n ELSE r.target)
  BY <1>2 DEF Copied, RowFields
<1>4. Held(ev, q)
  BY <1>1, <1>3 DEF Held, Linked, Ready
<1>5. CASE IsRel(id)
  <2>1. /\ IsRel(k) /\ k[2] = (IF id[2] = o THEN n ELSE id[2]) /\ k[4] = (IF id[4] = o THEN n ELSE id[4])
    BY <1>5, ToIs DEF NewId
  <2>2. Worded(k, q)
    BY <1>1, <1>3, <1>5 DEF Worded, IsRel
  <2>3. \A p \in Whom(k, q) : p \in Names /\ (p = n \/ (p # o /\ p \in Whom(id, r)))
    BY <1>5, <2>1 DEF Whom
  <2>4. \A p \in Whom(id, r) : ent[p] = "current"
    BY <1>1, <1>5 DEF Peopled, Apart, IsRel
  <2>5. \A p \in Whom(k, q) : gone[p] = "current"
    BY <2>3, <2>4 DEF Departed
  <2>6. Peopled(ev, gone, k, q)
    BY <2>5 DEF Peopled
  <2>7. Unmerged(led \cup {l}, k, q)
    BY <2>1 DEF Unmerged, IsRel
  <2>8. QED
    BY <1>4, <2>2, <2>6, <2>7 DEF Good
<1>6. CASE id[1] = "cognition"
  <2>1. ~IsRel(id)
    BY <1>6 DEF IsRel
  <2>2. k = <<"cognition", id[2], n, <<id, e>>>>
    BY <2>1 DEF NewId, Again
  <2>3. k[1] = "cognition" /\ k[2] = id[2] /\ ~IsRel(k)
    BY <2>2 DEF IsRel
  <2>4. Worded(k, q)
    BY <1>1, <1>3, <1>6, <2>3 DEF Worded
  <2>5. Whom(k, q) = {q.target} \cap Names /\ Whom(id, r) = {r.target} \cap Names
    BY <1>6, <2>1, <2>3 DEF Whom
  <2>6. ASSUME NEW p \in Whom(k, q) PROVE gone[p] = "current" \/ Apart(gone, k, q, p)
    <3>1. CASE p = n
      BY <3>1
    <3>2. CASE p # n
      <4>1. p = r.target /\ p # o /\ p \in Whom(id, r) /\ p \in Names
        BY <1>3, <2>5, <3>2
      <4>2. ent[p] = "current" \/ (r.says # p /\ ent[p] = "invalid")
        BY <1>1, <4>1 DEF Peopled, Apart
      <4>3. gone[p] = ent[p]
        BY <4>1 DEF Departed
      <4>4. ent[p] = "invalid" => q.says # p \/ r.says = p
        BY <1>3, <3>2
      <4>5. QED
        BY <2>3, <4>2, <4>3, <4>4 DEF Apart
    <3>3. QED
      BY <3>1, <3>2
  <2>7. \A p \in Whom(k, q) : gone[p] # "absent"
    BY <2>6 DEF Apart
  <2>8. Peopled(ev, gone, k, q)
    BY <2>6, <2>7 DEF Peopled
  <2>9. Unmerged(led \cup {l}, k, q)
    <3>1. CASE q.target = n
      BY <3>1 DEF Unmerged, LedAway
    <3>2. CASE q.target = r.target
      BY <1>1, <1>6, <3>2 DEF Unmerged
    <3>3. QED
      BY <1>3, <3>1, <3>2
  <2>10. QED
    BY <1>4, <2>4, <2>8, <2>9 DEF Good
<1>7. QED
  BY <1>5, <1>6

WorldRenamed(w, o, n, e, made, x) ==
  /\ DOMAIN x = WorldFields /\ RowsRenamed(w, o, n, e, x)
  /\ x.next = Over(made.next, [id \in OldIds(w, o) |-> NewId(id, o, n, e)])
  /\ x.entity = [made.entity EXCEPT ![o] = "invalid"]
  /\ x.led = made.led \cup {[kind |-> "name", from |-> o, to |-> n, by |-> e]}
  /\ x.pending = made.pending

LEMMA RenameIs ==
  ASSUME NEW w, NEW i, NEW e, NEW made, made = Sourced(Made(w, i.who), {i.who}, e),
         DOMAIN made = WorldFields, NEW x, x = Rename(w, i, e)
  PROVE  WorldRenamed(w, i.whom, i.who, e, made, x)
<1> DEFINE o == i.whom
           n == i.who
           R == [k \in DOMAIN w.row \cup NewIds(w, o, n, e) |->
                   IF k \in OldIds(w, o) THEN Stilled(w.row[k])
                   ELSE IF k \in DOMAIN w.row THEN w.row[k]
                   ELSE Copied(w.row[FromId(w, o, n, e, k)], o, n, e)]
           f == [id \in OldIds(w, o) |-> NewId(id, o, n, e)]
           l == [kind |-> "name", from |-> o, to |-> n, by |-> e]
<1>1. x = [made EXCEPT !.row = R, !.next = Over(@, f), !.entity[o] = "invalid", !.led = @ \cup {l}]
  BY DEF Rename, OldIds, NewId, NewIds, FromId, Copied, Stilled
<1>2. /\ DOMAIN R = DOMAIN w.row \cup NewIds(w, o, n, e)
      /\ \A k \in DOMAIN R : R[k] = IF k \in OldIds(w, o) THEN Stilled(w.row[k])
                                    ELSE IF k \in DOMAIN w.row THEN w.row[k]
                                    ELSE Copied(w.row[FromId(w, o, n, e, k)], o, n, e)
  OBVIOUS
<1> HIDE DEF R, f, l
<1>3. /\ DOMAIN x = WorldFields /\ x.row = R /\ x.next = Over(made.next, f)
      /\ x.entity = [made.entity EXCEPT ![o] = "invalid"] /\ x.led = made.led \cup {l}
      /\ x.pending = made.pending
  BY <1>1 DEF WorldFields
<1>4. RowsRenamed(w, o, n, e, x)
  BY <1>2, <1>3 DEF RowsRenamed
<1>5. QED
  BY <1>3, <1>4 DEF f, l, WorldRenamed

LEMMA RenameKeeps ==
  ASSUME NEW w, Sound(evidence, w), NEW e, Ready(evidence, e), NEW i, AliasItem(i),
         ~RefusedRename(w, i), NEW x, x = Rename(w, i, e)
  PROVE  Kept(evidence, w, x)
<1> DEFINE o == i.whom
           n == i.who
           p == Made(w, n)
           made == Sourced(p, {n}, e)
           l == [kind |-> "name", from |-> o, to |-> n, by |-> e]
           gone == [made.entity EXCEPT ![o] = "invalid"]
           f == [id \in OldIds(w, o) |-> NewId(id, o, n, e)]
<1>1. o \in Names /\ n \in Names /\ n # o /\ n \in People /\ ~Gone(w, n)
  BY DEF AliasItem, RefusedRename, People
<1>2. /\ Kept(evidence, w, p) /\ Sound(evidence, p) /\ p.entity[n] = "current"
      /\ p.row = w.row /\ p.next = w.next
  BY <1>1, MadeKeeps, MadeCurrent DEF Kept
<1>3. /\ Kept(evidence, p, made) /\ Sound(evidence, made) /\ made.entity[n] = "current"
      /\ made.row = w.row /\ made.next = w.next
  <2> HIDE DEF p
  <2>1. QED
    BY <1>2, SourcedKeeps DEF Kept, OnlyRows
<1>4. DOMAIN made = WorldFields
  BY <1>3 DEF Sound, Shape
<1>5. /\ DOMAIN x = WorldFields /\ RowsRenamed(w, o, n, e, x) /\ x.next = Over(made.next, f)
      /\ x.entity = gone /\ x.led = made.led \cup {l} /\ x.pending = made.pending
  <2>1. WorldRenamed(w, o, n, e, made, x)
    BY <1>4, RenameIs
  <2> HIDE DEF o, n, made
  <2>2. QED
    BY <2>1 DEF WorldRenamed
<1>6. l.kind = "name" /\ l.from = o
  OBVIOUS
<1>7. DOMAIN f = OldIds(w, o)
  OBVIOUS
<1> HIDE DEF o, n, p, made, l, f
<1>8. /\ gone \in [People -> {"absent", "current", "invalid"}]
      /\ Departed(made.entity, gone, o) /\ LedAway(gone, made.led \cup {l})
  <2> DEFINE ent == made.entity
  <2>1. /\ gone = [ent EXCEPT ![o] = "invalid"] /\ LedAway(ent, made.led)
        /\ ent \in [People -> {"absent", "current", "invalid"}]
    BY <1>3 DEF Sound, Shape
  <2> HIDE DEF gone, ent
  <2>2. /\ gone \in [People -> {"absent", "current", "invalid"}]
        /\ Departed(ent, gone, o) /\ LedAway(gone, made.led \cup {l})
    BY <1>1, <1>6, <2>1, LeavingShape
  <2>3. QED
    BY <2>2 DEF ent
<1> HIDE DEF gone
<1>9. IsFiniteSet(OldIds(w, o)) /\ IsFiniteSet(NewIds(w, o, n, e)) /\ IsFiniteSet(DOMAIN w.row)
  BY <1>2, FinitelyRenamed DEF Sound, Shape
<1>10. DOMAIN x.next = DOMAIN w.next \cup OldIds(w, o) /\ Longer(w.next, x.next)
  BY <1>3, <1>5, <1>7 DEF Over, Longer
<1>11. Shape(x)
  <2>1. IsFiniteSet(DOMAIN w.next) /\ IsFiniteSet(made.pending)
    BY <1>3 DEF Sound, Shape
  <2>2. IsFiniteSet(DOMAIN w.row \cup NewIds(w, o, n, e)) /\ IsFiniteSet(DOMAIN w.next \cup OldIds(w, o))
    BY <1>9, <2>1, FS_Union
  <2>3. QED
    BY <1>5, <1>8, <1>10, <2>1, <2>2 DEF Shape, RowsRenamed
<1>12. gone[n] = "current"
  BY <1>1, <1>3, <1>8 DEF Departed
<1>13. ASSUME NEW k \in DOMAIN x.row PROVE Good(evidence, gone, made.led \cup {l}, k, x.row[k])
  <2>1. ASSUME NEW j \in DOMAIN w.row PROVE Good(evidence, made.entity, made.led, j, w.row[j])
    BY <1>3 DEF Sound, Rows
  <2>2. CASE k \in OldIds(w, o)
    <3> DEFINE q == Stilled(w.row[k])
    <3>1. k \in DOMAIN w.row /\ x.row[k] = q
      BY <1>5, <2>2, OldIdsAre DEF RowsRenamed
    <3>2. Good(evidence, made.entity, made.led, k, q)
      BY <2>1, <3>1, RetiredGood DEF Stilled
    <3>3. ~q.stands
      <4>1. DOMAIN w.row[k] = RowFields
        BY <2>1, <3>1 DEF Good, Held
      <4>2. QED
        BY <4>1 DEF Stilled, RowFields
    <3> HIDE DEF q
    <3>4. Good(evidence, gone, made.led \cup {l}, k, q)
      BY <1>1, <1>6, <1>8, <3>2, <3>3, LeavingGood
    <3>5. QED
      BY <3>1, <3>4
  <2>3. CASE k \notin OldIds(w, o) /\ k \in DOMAIN w.row
    <3> DEFINE q == w.row[k]
    <3>1. x.row[k] = q /\ Good(evidence, made.entity, made.led, k, q)
      BY <1>5, <2>1, <2>3 DEF RowsRenamed
    <3>2. ASSUME q.stands, LiveIn(evidence, Linked(q)), o \in Whom(k, q) PROVE Apart(gone, k, q, o)
      <4>1. Visible(w, k)
        BY <2>3, <3>2 DEF Visible, Stands, Has, Live, LiveIn
      <4>2. k \notin Moving(w, o) /\ (k[1] = "cognition" => q.says # o)
        BY <2>3, <4>1 DEF OldIds, Renaming, Saying
      <4>3. ~IsRel(k) /\ k[1] = "cognition"
        BY <2>3, <3>2, <4>2 DEF Whom, Moving, Stands, Has
      <4>4. gone[o] = "invalid"
        BY <1>1, <1>8 DEF Departed
      <4>5. QED
        BY <4>2, <4>3, <4>4 DEF Apart
    <3> HIDE DEF q
    <3>3. Good(evidence, gone, made.led \cup {l}, k, q)
      BY <1>1, <1>6, <1>8, <3>1, <3>2, LeavingGood
    <3>4. QED
      BY <3>1, <3>3
  <2>4. CASE k \notin OldIds(w, o) /\ k \notin DOMAIN w.row
    <3> DEFINE id == FromId(w, o, n, e, k)
               r == w.row[id]
    <3>1. x.row[k] = Copied(r, o, n, e) /\ k \in NewIds(w, o, n, e)
      BY <1>5, <2>4 DEF RowsRenamed
    <3>2. id \in OldIds(w, o) /\ k = NewId(id, o, n, e)
      <4>1. \E j \in OldIds(w, o) : NewId(j, o, n, e) = k
        BY <3>1 DEF NewIds
      <4>2. QED
        BY <4>1 DEF FromId
    <3> HIDE DEF id
    <3>3. /\ id \in DOMAIN w.row /\ r.stands /\ LiveIn(evidence, Linked(r))
          /\ IsRel(id) \/ id[1] = "cognition"
      BY <3>2, OldIdsAre
    <3>4. Good(evidence, made.entity, made.led, id, r)
      BY <2>1, <3>3
    <3> HIDE DEF r
    <3>5. Good(evidence, gone, made.led \cup {l}, k, Copied(r, o, n, e))
      BY <1>1, <1>6, <1>8, <1>12, <3>2, <3>3, <3>4, CopiedGood
    <3>6. QED
      BY <3>1, <3>5
  <2>5. QED
    BY <2>2, <2>3, <2>4
<1>14. Rows(evidence, x) /\ LedAway(x.entity, x.led)
  BY <1>5, <1>8, <1>13 DEF Rows
<1>15. Calm(w, x)
  <2>1. ASSUME NEW k \in NewIds(w, o, n, e), IsRel(k) PROVE k = Plain(k)
    <3>1. PICK id \in OldIds(w, o) : k = NewId(id, o, n, e)
      BY DEF NewIds
    <3>2. CASE IsRel(id)
      BY <3>1, <3>2, ToIs DEF NewId
    <3>3. CASE ~IsRel(id)
      BY <2>1, <3>1, <3>3 DEF NewId, Again, IsRel
    <3>4. QED
      BY <3>2, <3>3
  <2>2. DOMAIN x.row = DOMAIN w.row \cup NewIds(w, o, n, e)
    BY <1>5 DEF RowsRenamed
  <2>3. QED
    BY <1>10, <2>1, <2>2 DEF Calm
<1>16. QED
  BY <1>11, <1>14, <1>15 DEF Kept, Sound

-----------------------------------------------------------------------------
(* One item, and the items of an answer one after another.                 *)
Item0(i) == i.act \in Acts /\ i.kind \in Kinds /\ Parsed(i)

LEMMA WrittenKeeps ==
  ASSUME NEW w, Sound(evidence, w), NEW e, Ready(evidence, e), NEW i, Item0(i), ~Refused(w, i, e),
         NEW x, x = Written(w, i, e)
  PROVE  Well(evidence, w, x)
<1>1. CASE i.act = "retract"
  <2>1. x = RetractIt(w, i)
    BY <1>1 DEF Written
  <2>2. QED
    BY <2>1, RetractItKeeps, KeptWell
<1>2. CASE i.act = "contradict"
  <2>1. x = [w EXCEPT !.row[i.prior].against = @ \cup {e}]
    BY <1>2 DEF Written, Contradict
  <2>2. QED
    BY <2>1, SupportKeeps, KeptWell DEF Ready
<1>3. CASE i.act \in {"form", "supersede", "correct"}
  <2>1. CASE i.kind = "naming"
    <3>1. x = FormNaming(w, i, e) /\ NamingItem(i)
      BY <1>3, <2>1 DEF Written, Item0, Parsed
    <3>2. QED
      BY <3>1, FormNamingKeeps, KeptWell
  <2>2. CASE i.kind = "alias"
    <3>1. AliasItem(i)
      BY <2>2 DEF Item0, Parsed
    <3>2. CASE i.act = "form"
      <4>1. x = Merge(w, i, e) /\ ~RefusedAlias(w, i)
        BY <2>2, <3>2 DEF Written, Refused
      <4>2. QED
        BY <3>1, <4>1, MergeKeeps, KeptWell
    <3>3. CASE i.act # "form"
      <4>1. x = Rename(w, i, e) /\ ~RefusedRename(w, i)
        BY <1>3, <2>2, <3>3 DEF Written, Refused
      <4>2. QED
        BY <3>1, <4>1, RenameKeeps, KeptWell
    <3>4. QED
      BY <3>2, <3>3
  <2>3. CASE i.kind = "event"
    <3>1. i.who \in People
      BY <1>3, <2>3 DEF Item0, Parsed, EventItem
    <3>2. CASE i.act = "form"
      <4>1. x = FormEvent(w, i, e)
        BY <2>3, <3>2 DEF Written
      <4>2. QED
        BY <3>1, <4>1, FormEventKeeps, KeptWell
    <3>3. CASE i.act # "form"
      <4>1. x = CorrectEvent(w, i, e)
        BY <1>3, <2>3, <3>3 DEF Written
      <4>2. QED
        BY <3>1, <4>1, CorrectEventKeeps, KeptWell
    <3>4. QED
      BY <3>2, <3>3
  <2>4. CASE i.kind = "relationship"
    <3>1. i.who \in People /\ i.whom \in Names
      BY <1>3, <2>4 DEF Item0, Parsed, RelationshipItem
    <3>2. CASE i.act = "correct"
      <4>1. x = CorrectRelationship(w, i, e) /\ ~RefusedCorrection(w, i)
        BY <2>4, <3>2 DEF Written, Refused
      <4>2. QED
        BY <3>1, <4>1, CorrectRelationshipKeeps, KeptWell
    <3>3. CASE i.act # "correct"
      <4>1. x = FormRelationship(w, i, e) /\ ~RefusedRelationship(w, i, e)
        BY <1>3, <2>4, <3>3 DEF Written, Refused
      <4>2. i.act = "supersede" => i.prior[1] = "relationship"
        BY <2>4 DEF Item0, Parsed, Table
      <4>3. QED
        BY <1>3, <3>1, <3>3, <4>1, <4>2, FormRelationshipKeeps
    <3>4. QED
      BY <3>2, <3>3
  <2>5. CASE i.kind = "attribute"
    <3>1. i.who \in People
      BY <1>3, <2>5 DEF Item0, Parsed, AttributeItem
    <3>2. CASE i.act = "correct"
      <4>1. x = CorrectFact(w, i, e) /\ ~RefusedFact(w, i)
        BY <2>5, <3>2 DEF Written, Refused
      <4>2. QED
        BY <3>1, <4>1, CorrectFactKeeps, KeptWell
    <3>3. CASE i.act # "correct"
      <4>1. x = FormAttribute(w, i, e) /\ ~RefusedAttribute(w, i)
        BY <1>3, <2>5, <3>3 DEF Written, Refused
      <4>2. QED
        BY <3>1, <4>1, FormAttributeKeeps, KeptWell
    <3>4. QED
      BY <3>2, <3>3
  <2>6. QED
    BY <2>1, <2>2, <2>3, <2>4, <2>5 DEF Item0, Kinds
<1>4. QED
  BY <1>1, <1>2, <1>3 DEF Item0, Acts

(* The batch at work. *)
Words == {"applied", "no_change", "clarification_required", "dead"}
Going(r) == DOMAIN r = {"world", "ends"} /\ r.ends \in Words /\ Sound(evidence, r.world)
Onward(r, s) == Going(s) /\ (Chain(r.world) => Chain(s.world))

LEMMA StepKeeps ==
  ASSUME NEW r, Going(r), NEW e, Ready(evidence, e), NEW i, Item0(i), NEW s, s = Step(r, i, e)
  PROVE  Onward(r, s)
<1>1. CASE r.ends # "applied"
  BY <1>1 DEF Step, Onward
<1>2. CASE r.ends = "applied" /\ ~Refused(r.world, i, e) /\ s = [r EXCEPT !.world = Written(@, i, e)]
  <2> DEFINE x == Written(r.world, i, e)
  <2>1. Well(evidence, r.world, x)
    BY <1>2, WrittenKeeps DEF Going
  <2>2. s = [r EXCEPT !.world = x]
    BY <1>2
  <2> HIDE DEF x
  <2>3. DOMAIN s = {"world", "ends"} /\ s.ends = r.ends /\ s.world = x
    BY <2>2 DEF Going
  <2>4. QED
    BY <2>1, <2>3 DEF Going, Onward, Well
<1>3. CASE \E word \in Words : s = [r EXCEPT !.ends = word]
  <2>1. PICK word \in Words : s = [r EXCEPT !.ends = word]
    BY <1>3
  <2>2. DOMAIN s = {"world", "ends"} /\ s.ends = word /\ s.world = r.world
    BY <2>1 DEF Going
  <2>3. QED
    BY <2>2 DEF Going, Onward
<1>4. QED
  BY <1>1, <1>2, <1>3 DEF Step, Words

(* What follows one item after another is one function. *)
Following(b, e, start, N) ==
  CHOOSE g : g = [k \in 0 .. N |-> IF k = 0 THEN start ELSE Step(g[k - 1], b[k], e)]

LEMMA ItemsFollow ==
  ASSUME NEW b, NEW e, NEW start, NEW N \in Nat, NEW R, R = Following(b, e, start, N)
  PROVE  R[0] = start /\ \A k \in 1 .. N : R[k] = Step(R[k - 1], b[k], e)
<1> DEFINE Up(n, g) == g = [k \in 0 .. n |-> IF k = 0 THEN start ELSE Step(g[k - 1], b[k], e)]
           T == {n \in Nat : \E g : Up(n, g)}
<1>1. 0 \in T
  <2> DEFINE g == [k \in 0 .. 0 |-> start]
  <2>1. Up(0, g)
    OBVIOUS
  <2>2. QED
    BY <2>1
<1>2. ASSUME NEW n \in Nat, n \in T PROVE n + 1 \in T
  <2>1. PICK g : Up(n, g)
    BY <1>2
  <2> DEFINE f == [k \in 0 .. n + 1 |-> IF k = n + 1 THEN Step(g[n], b[n + 1], e) ELSE g[k]]
  <2>2. \A k \in 0 .. n : g[k] = IF k = 0 THEN start ELSE Step(g[k - 1], b[k], e)
    BY <2>1
  <2>3. \A k \in 0 .. n + 1 : f[k] = IF k = 0 THEN start ELSE Step(f[k - 1], b[k], e)
    <3> SUFFICES ASSUME NEW k \in 0 .. n + 1
                 PROVE  f[k] = IF k = 0 THEN start ELSE Step(f[k - 1], b[k], e)
      OBVIOUS
    <3>1. CASE k = n + 1
      <4>1. f[k] = Step(g[n], b[k], e) /\ f[k - 1] = g[n] /\ k # 0
        BY <3>1
      <4>2. QED
        BY <4>1
    <3>2. CASE k \in 0 .. n
      <4>1. f[k] = g[k] /\ (k # 0 => f[k - 1] = g[k - 1])
        BY <3>2
      <4>2. QED
        BY <2>2, <3>2, <4>1
    <3>3. QED
      BY <3>1, <3>2
  <2>4. f = [k \in 0 .. n + 1 |-> f[k]]
    OBVIOUS
  <2> HIDE DEF f
  <2>5. Up(n + 1, f)
    BY <2>3, <2>4
  <2>6. QED
    BY <2>5
<1> HIDE DEF T
<1>3. N \in T
  BY <1>1, <1>2, Counting
<1>4. Up(N, R)
  BY <1>3 DEF T, Following
<1>5. \A k \in 0 .. N : R[k] = IF k = 0 THEN start ELSE Step(R[k - 1], b[k], e)
  BY <1>4
<1>6. QED
  BY <1>5

Batch(b) == Len(b) \in Nat /\ DOMAIN b = 1 .. Len(b) /\ \A k \in DOMAIN b : Item0(b[k])

LEMMA ResultKeeps ==
  ASSUME Sound(evidence, world), NEW e, Ready(evidence, e), NEW b, Batch(b), NEW r, r = Result(b, e)
  PROVE  Going(r) /\ (Chain(world) => Chain(r.world))
<1> DEFINE N == Len(b)
           start == [world |-> world, ends |-> "applied"]
           R == Following(b, e, start, N)
           U == {n \in Nat : n <= N => Onward(start, R[n])}
<1>1. N \in Nat /\ \A k \in 1 .. N : Item0(b[k])
  BY DEF Batch
<1>2. r = R[N]
  BY DEF Result, Following
<1>3. R[0] = start /\ \A k \in 1 .. N : R[k] = Step(R[k - 1], b[k], e)
  <2> HIDE DEF start, N
  <2>1. QED
    BY <1>1, ItemsFollow
<1> HIDE DEF R
<1>4. Onward(start, start) /\ start.world = world
  BY DEF Onward, Going, Words
<1> HIDE DEF start
<1>5. 0 \in U
  BY <1>3, <1>4
<1>6. ASSUME NEW n \in Nat, n \in U PROVE n + 1 \in U
  <2> SUFFICES ASSUME n + 1 <= N PROVE Onward(start, R[n + 1])
    OBVIOUS
  <2>1. n + 1 \in 1 .. N /\ (n + 1) - 1 = n /\ n <= N
    BY <1>1
  <2>2. Onward(start, R[n])
    BY <1>6, <2>1
  <2>3. R[n + 1] = Step(R[n], b[n + 1], e) /\ Item0(b[n + 1])
    BY <1>1, <1>3, <2>1
  <2>4. Onward(R[n], R[n + 1])
    BY <2>2, <2>3, StepKeeps DEF Onward
  <2>5. QED
    BY <2>2, <2>4 DEF Onward
<1> HIDE DEF U
<1>7. N \in U
  BY <1>1, <1>5, <1>6, Counting
<1>8. Onward(start, R[N])
  BY <1>1, <1>7 DEF U
<1>9. QED
  BY <1>2, <1>4, <1>8 DEF Onward

-----------------------------------------------------------------------------
(* Evidence is accepted, forgotten, erased.                                *)

(* What was live or forgotten is so still, and does not come back. *)
Fades(ev, then, S) ==
  \A a \in S : ev[a] \in {"live", "soft"} =>
                 then[a] \in {"live", "soft"} /\ (then[a] = "live" => ev[a] = "live")

LEMMA FadedGood ==
  ASSUME NEW ev, NEW then, NEW ent, NEW led, NEW id, NEW r, Good(ev, ent, led, id, r),
         Fades(ev, then, Linked(r))
  PROVE  Good(then, ent, led, id, r)
<1>1. Held(then, r)
  BY DEF Good, Held, Fades
<1>2. LiveIn(then, Linked(r)) => LiveIn(ev, Linked(r))
  BY DEF Good, Held, Fades, LiveIn
<1>3. Peopled(then, ent, id, r)
  BY <1>2 DEF Good, Peopled
<1>4. QED
  BY <1>1, <1>3 DEF Good

LEMMA FadedSound ==
  ASSUME NEW ev, NEW then, NEW w, Sound(ev, w), Fades(ev, then, Evidence) PROVE Sound(then, w)
<1> SUFFICES ASSUME NEW id \in DOMAIN w.row PROVE Good(then, w.entity, w.led, id, w.row[id])
  BY DEF Sound, Rows
<1>1. Good(ev, w.entity, w.led, id, w.row[id])
  BY DEF Sound, Rows
<1>2. Linked(w.row[id]) \subseteq Evidence
  BY <1>1 DEF Good, Held
<1>3. QED
  BY <1>1, <1>2, FadedGood DEF Fades

(* Erasure takes what is linked to the Evidence, and the people who go. *)
Purged(w, e, gone, x) ==
  /\ DOMAIN x = WorldFields /\ DOMAIN x.row = Left(w, e)
  /\ \A id \in Left(w, e) : x.row[id] = w.row[id]
  /\ DOMAIN x.next \subseteq DOMAIN w.next /\ x.pending = w.pending
  /\ x.led \subseteq w.led /\ \A l \in x.led : l.from \notin gone
  /\ x.entity = [n \in People |-> IF n \in gone THEN "absent" ELSE w.entity[n]]

LEMMA ErasedIs ==
  ASSUME NEW w, DOMAIN w = WorldFields, NEW e, NEW x, x = Erased(w, e)
  PROVE  Purged(w, e, People0(w, e) \cup Orphans(w, e), x)
BY DEF Erased, WorldFields, Purged

LEMMA ErasedKeeps ==
  ASSUME NEW ev, NEW w, Sound(ev, w), NEW e, NEW x, x = Erased(w, e),
         NEW then, \A a \in Evidence \ {e} : then[a] = ev[a]
  PROVE  Sound(then, x)
<1> DEFINE gone == People0(w, e) \cup Orphans(w, e)
<1>1. DOMAIN w = WorldFields
  BY DEF Sound, Shape
<1>2. /\ DOMAIN x = WorldFields /\ DOMAIN x.row = Left(w, e)
      /\ \A id \in Left(w, e) : x.row[id] = w.row[id]
      /\ DOMAIN x.next \subseteq DOMAIN w.next /\ x.pending = w.pending
      /\ x.led \subseteq w.led /\ \A l \in x.led : l.from \notin gone
      /\ x.entity = [n \in People |-> IF n \in gone THEN "absent" ELSE w.entity[n]]
  BY <1>1, ErasedIs DEF Purged
<1>3. Left(w, e) \subseteq DOMAIN w.row
  BY DEF Left
<1>4. Shape(x)
  <2>1. IsFiniteSet(DOMAIN x.row) /\ IsFiniteSet(DOMAIN x.next)
    BY <1>2, <1>3, FS_Subset DEF Sound, Shape
  <2>2. x.entity \in [People -> {"absent", "current", "invalid"}]
    BY <1>2 DEF Sound, Shape
  <2>3. QED
    BY <1>2, <2>1, <2>2 DEF Sound, Shape
<1>5. LedAway(x.entity, x.led)
  BY <1>2 DEF Sound, LedAway, People
<1>6. ASSUME NEW id \in DOMAIN x.row PROVE Good(then, x.entity, x.led, id, x.row[id])
  <2> DEFINE r == w.row[id]
  <2>1. id \in Left(w, e) /\ x.row[id] = r /\ Good(ev, w.entity, w.led, id, r)
    BY <1>2, <1>3 DEF Sound, Rows
  <2>2. e \notin Linked(r) /\ About(w, id) \cap People0(w, e) = {}
    BY <1>3, <2>1 DEF Left, Fallen
  <2>3. About(w, id) \cap Orphans(w, e) = {}
    BY <2>1 DEF Orphans
  <2>4. Whom(id, r) = About(w, id) \cap Names
    BY DEF Whom, About
  <2>5. \A n \in Whom(id, r) : x.entity[n] = w.entity[n]
    BY <1>2, <2>2, <2>3, <2>4 DEF People
  <2> HIDE DEF r
  <2>6. Linked(r) \subseteq Evidence
    BY <2>1 DEF Good, Held
  <2>7. Fades(ev, then, Linked(r))
    BY <2>2, <2>6 DEF Fades
  <2>8. Good(then, w.entity, w.led, id, r)
    BY <2>1, <2>7, FadedGood
  <2>9. Peopled(then, x.entity, id, r)
    BY <2>5, <2>8 DEF Good, Peopled, Apart
  <2>10. Unmerged(x.led, id, r)
    BY <1>2, <2>8 DEF Good, Unmerged
  <2>11. QED
    BY <2>1, <2>8, <2>9, <2>10 DEF Good
<1>7. QED
  BY <1>4, <1>5, <1>6 DEF Sound, Rows

-----------------------------------------------------------------------------
(* The invariant.                                                          *)
Jobs == {"processing", "applied", "no_change", "clarification_required", "dead", "erased", "none"}
Unerased(ev) == \A e \in Evidence : ev[e] # "erased"
IInv ==
  /\ evidence \in [Evidence -> {"none", "live", "soft", "erased"}]
  /\ job \in [Evidence -> Jobs] /\ DOMAIN answer = Evidence
  /\ \A e \in Evidence : job[e] = "processing" => Batch(answer[e])
  /\ world.pending = {}
  /\ Sound(evidence, world)
  /\ Unerased(evidence) => Chain(world)

LEMMA InitInv == Init => IInv
<1> SUFFICES ASSUME Init PROVE IInv
  OBVIOUS
<1>1. /\ evidence \in [Evidence -> {"none", "live", "soft", "erased"}]
      /\ job \in [Evidence -> Jobs] /\ DOMAIN answer = Evidence
      /\ \A e \in Evidence : job[e] # "processing"
  BY DEF Init, Jobs
<1>2. /\ DOMAIN world = WorldFields /\ world.entity = [n \in People |-> "absent"]
      /\ world.row = <<>> /\ world.next = <<>> /\ world.led = {} /\ world.pending = {}
  BY DEF Init, WorldFields
<1>3. DOMAIN world.row = {} /\ DOMAIN world.next = {}
  BY <1>2
<1>4. Shape(world)
  BY <1>2, <1>3, FS_EmptySet DEF Shape
<1>5. Rows(evidence, world) /\ LedAway(world.entity, world.led) /\ Chain(world)
  BY <1>2, <1>3 DEF Rows, LedAway, Chain
<1>6. QED
  BY <1>1, <1>2, <1>4, <1>5 DEF IInv, Sound

LEMMA ChosenIs ==
  ASSUME NEW i, DOMAIN i = Fields, NEW j \in Chosen(i) PROVE j.act = i.act /\ j.kind = i.kind
BY DEF Chosen, Fields

(* What the model is shown for an answer, and what becomes of it. *)
Shown(c) == [k \in DOMAIN c |-> CHOOSE i \in Chosen(c[k]) : TRUE]
Taken(e, d) ==
  IF Compiled(d)
  THEN answer' = [answer EXCEPT ![e] = d] /\ job' = [job EXCEPT ![e] = "processing"]
  ELSE job' = [job EXCEPT ![e] = "no_change"] /\ UNCHANGED answer

LEMMA InterpretInv == ASSUME IInv, NEW e \in Evidence, Interpret(e) PROVE IInv'
<1>1. evidence[e] = "none" /\ evidence' = [evidence EXCEPT ![e] = "live"] /\ world' = world
  BY DEF Interpret
<1>2. PICK c \in Answers : (\A k \in DOMAIN c : Chosen(c[k]) # {}) /\ Taken(e, Shown(c))
  <2>1. PICK b \in Answers : \E c \in {b} :
          /\ \A k \in DOMAIN c : Chosen(c[k]) # {}
          /\ \E d \in {Shown(c)} : Taken(e, d)
    BY Zenon DEF Interpret, Shown, Taken
  <2>2. (\A k \in DOMAIN b : Chosen(b[k]) # {}) /\ Taken(e, Shown(b))
    BY <2>1
  <2>3. QED
    BY <2>2
<1> DEFINE d == Shown(c)
<1>3. Taken(e, d)
  BY <1>2
<1>4. ASSUME Compiled(d) PROVE Batch(d)
  <2>1. Len(c) \in Nat /\ DOMAIN c = 1 .. Len(c) /\ DOMAIN d = DOMAIN c
    BY AnswersAssumption DEF Shown
  <2>2. Len(d) = Len(c)
    <3> DEFINE X == {d[k] : k \in DOMAIN c}
    <3>1. d \in [1 .. Len(c) -> X]
      BY <2>1 DEF Shown
    <3> HIDE DEF d, X
    <3>2. QED
      BY <2>1, <3>1
  <2>3. ASSUME NEW k \in DOMAIN d PROVE Item0(d[k])
    <3>1. d[k] \in Chosen(c[k])
      BY <1>2, <2>1 DEF Shown
    <3>2. DOMAIN c[k] = Fields /\ c[k].act \in Acts /\ c[k].kind \in Kinds
      BY <2>1, AnswersAssumption
    <3> HIDE DEF d
    <3>3. d[k].act = c[k].act /\ d[k].kind = c[k].kind
      BY <3>1, <3>2, ChosenIs
    <3>4. Parsed(d[k])
      BY <1>4 DEF Compiled
    <3>5. QED
      BY <3>2, <3>3, <3>4 DEF Item0
  <2> HIDE DEF d
  <2>4. QED
    BY <2>1, <2>2, <2>3 DEF Batch
<1> HIDE DEF d
<1>5. /\ evidence' \in [Evidence -> {"none", "live", "soft", "erased"}]
      /\ job' \in [Evidence -> Jobs] /\ DOMAIN answer' = Evidence
  BY <1>1, <1>3 DEF IInv, Jobs, Taken
<1>6. \A k \in Evidence : job'[k] = "processing" => Batch(answer'[k])
  BY <1>3, <1>4 DEF IInv, Taken
<1>7. Sound(evidence', world')
  <2>1. Fades(evidence, evidence', Evidence)
    BY <1>1 DEF Fades, IInv
  <2>2. QED
    BY <1>1, <2>1, FadedSound DEF IInv
<1>8. Unerased(evidence') => Chain(world')
  <2>1. Unerased(evidence') => Unerased(evidence)
    BY <1>1 DEF IInv, Unerased
  <2>2. QED
    BY <1>1, <2>1 DEF IInv
<1>9. QED
  BY <1>1, <1>5, <1>6, <1>7, <1>8 DEF IInv

LEMMA ApplyInv == ASSUME IInv, NEW e \in Evidence, Apply(e) PROVE IInv'
<1>1. job[e] = "processing" /\ evidence' = evidence /\ answer' = answer
  BY DEF Apply
<1>2. \E word \in Jobs \ {"processing"} : Ends(e, word)
  <2>1. CASE evidence[e] = "live" /\ Readable(answer[e]) /\ Clear(answer[e])
    <3>1. PICK r \in {Result(answer[e], e)} :
            \/ Ends(e, "applied") \/ Ends(e, "no_change")
            \/ r.ends # "applied" /\ Ends(e, r.ends)
      BY <2>1 DEF Apply
    <3>2. r.ends \in Words
      BY <1>1, <2>1, <3>1, ResultKeeps DEF IInv, Ready, Going
    <3>3. QED
      BY <3>1, <3>2 DEF Words, Jobs
  <2>2. QED
    BY <2>1 DEF Apply, Jobs
<1>3. /\ job' \in [Evidence -> Jobs]
      /\ \A k \in Evidence : job'[k] = "processing" => Batch(answer'[k])
  BY <1>1, <1>2 DEF Ends, IInv
<1>4. CASE world' = world
  BY <1>1, <1>3, <1>4 DEF IInv
<1>5. CASE evidence[e] = "live" /\ \E r \in {Result(answer[e], e)} : world' = Linking(r.world)
  <2>1. PICK r : r = Result(answer[e], e) /\ world' = Linking(r.world)
    BY <1>5
  <2>2. Going(r) /\ (Chain(world) => Chain(r.world))
    BY <1>1, <1>5, <2>1, ResultKeeps DEF IInv, Ready
  <2>3. Kept(evidence, r.world, world') /\ world'.pending = {}
    BY <2>1, <2>2, LinkingKeeps DEF Going
  <2>4. Sound(evidence', world') /\ (Unerased(evidence') => Chain(world'))
    BY <1>1, <2>2, <2>3, CalmChain DEF Kept, IInv
  <2>5. QED
    BY <1>1, <1>3, <2>3, <2>4 DEF IInv
<1>6. QED
  BY <1>4, <1>5 DEF Apply

LEMMA ForgetInv == ASSUME IInv, NEW e \in Evidence, Forget(e) PROVE IInv'
<1>1. /\ evidence[e] = "live" /\ evidence' = [evidence EXCEPT ![e] = "soft"]
      /\ world' = world /\ job' = job /\ answer' = answer
  BY DEF Forget
<1>2. evidence' \in [Evidence -> {"none", "live", "soft", "erased"}]
  BY <1>1 DEF IInv
<1>3. Fades(evidence, evidence', Evidence)
  BY <1>1 DEF Fades, IInv
<1>4. Sound(evidence', world')
  BY <1>1, <1>3, FadedSound DEF IInv
<1>5. Unerased(evidence') => Unerased(evidence)
  BY <1>1 DEF IInv, Unerased
<1>6. QED
  BY <1>1, <1>2, <1>4, <1>5 DEF IInv

LEMMA EraseInv == ASSUME IInv, NEW e \in Evidence, Erase(e) PROVE IInv'
<1>1. /\ evidence' = [evidence EXCEPT ![e] = "erased"] /\ job' = [job EXCEPT ![e] = "erased"]
      /\ world' = Erased(world, e) /\ answer' = answer
  BY DEF Erase, Ends
<1>2. /\ evidence' \in [Evidence -> {"none", "live", "soft", "erased"}]
      /\ job' \in [Evidence -> Jobs] /\ DOMAIN answer' = Evidence
      /\ \A k \in Evidence : job'[k] = "processing" => Batch(answer'[k])
  BY <1>1 DEF IInv, Jobs
<1>3. Sound(evidence', world')
  <2>1. \A a \in Evidence \ {e} : evidence'[a] = evidence[a]
    BY <1>1 DEF IInv
  <2>2. QED
    BY <1>1, <2>1, ErasedKeeps DEF IInv
<1>4. ~Unerased(evidence')
  BY <1>1 DEF IInv, Unerased
<1>5. world'.pending = {}
  <2>1. DOMAIN world = WorldFields
    BY DEF IInv, Sound, Shape
  <2>2. QED
    BY <1>1, <2>1, ErasedIs DEF IInv, Purged
<1>6. QED
  BY <1>2, <1>3, <1>4, <1>5 DEF IInv

LEMMA IInvHolds == Spec => []IInv
<1>1. IInv /\ [Next]_vars => IInv'
  <2> SUFFICES ASSUME IInv, [Next]_vars PROVE IInv'
    OBVIOUS
  <2>1. CASE Next
    BY <2>1, InterpretInv, ApplyInv, ForgetInv, EraseInv DEF Next
  <2>2. CASE UNCHANGED vars
    BY <2>2 DEF vars, IInv
  <2>3. QED
    BY <2>1, <2>2
<1>2. QED
  BY InitInv, <1>1, PTL DEF Spec

(* The World stays whole, whatever answers are applied and in whatever     *)
(* order, and whatever is forgotten and erased in between: what may be     *)
(* read is about people who are there, words leave with the Evidence they  *)
(* come from, one relationship of a kind stands until something is erased, *)
(* and whoever was merged or renamed does not come back (batch_adapter.py, *)
(* name_correction.py, state_evolution.py).                                *)
THEOREM WorldStaysWhole == Spec => []WorldIsWhole
<1>1. IInv => WorldIsWhole
  <2> SUFFICES ASSUME IInv PROVE WorldIsWhole
    OBVIOUS
  <2>1. TypeOK
    BY DEF IInv, TypeOK, Sound, Shape, Jobs
  <2>2. ASSUME NEW id \in Ids
        PROVE  /\ Good(evidence, world.entity, world.led, id, world.row[id])
               /\ Whom(id, world.row[id]) = About(world, id) \cap Names
    BY DEF IInv, Sound, Rows, Ids, Whom, About
  <2>3. FactsHaveTheirPeople
    <3> SUFFICES ASSUME NEW id \in Ids, Visible(world, id), NEW n \in About(world, id) \cap Names
                 PROVE  world.entity[n] = "current" \/ LeftBehind(id, n)
      BY DEF FactsHaveTheirPeople
    <3> DEFINE r == world.row[id]
    <3>1. r.stands /\ LiveIn(evidence, Linked(r))
      BY DEF Visible, Stands, Live, LiveIn
    <3>2. n \in Whom(id, r) /\ Peopled(evidence, world.entity, id, r) /\ Unmerged(world.led, id, r)
      BY <2>2 DEF Good
    <3>3. world.entity[n] = "current" \/ Apart(world.entity, id, r, n)
      BY <3>1, <3>2 DEF Peopled
    <3>4. id[1] = "cognition" => n = r.target
      BY <3>2 DEF Whom, IsRel
    <3>5. QED
      BY <3>2, <3>3, <3>4 DEF Apart, LeftBehind, Unmerged
  <2>4. WordsLeaveWithTheirSource
    BY <2>2 DEF WordsLeaveWithTheirSource, Good, Held, Worded, Linked
  <2>5. OneOfAKind
    <3>1. \A l \in world.led : world.entity[l.from] = "invalid"
      BY DEF IInv, Sound, LedAway
    <3>2. ASSUME Unerased(evidence), NEW j \in Ids, NEW k \in Ids, IsRel(j), IsRel(k), Same(j, k),
                 Offered(world, j), Offered(world, k)
          PROVE  j = k
      <4>1. Plain(j) = Plain(k)
        BY <3>2 DEF Same, Plain
      <4>2. Reaches(world.next, Plain(j), j) /\ Reaches(world.next, Plain(j), k)
        BY <3>2, <4>1 DEF IInv, Chain, Ids
      <4>3. j \notin DOMAIN world.next /\ k \notin DOMAIN world.next
        BY <3>2 DEF Offered, Superseded
      <4>4. QED
        BY <4>2, <4>3, OneEnd
    <3>3. QED
      BY <3>1, <3>2 DEF OneOfAKind, Unerased
  <2>6. QED
    BY <2>1, <2>3, <2>4, <2>5 DEF WorldIsWhole
<1>2. QED
  BY IInvHolds, <1>1, PTL

=============================================================================
