------------------------- MODULE InteractionsProofs -------------------------
(***************************************************************************)
(* Theorems about Interactions: erasing reaches all that rests on what is  *)
(* erased, a conversation goes whole, links are for good, and a model is   *)
(* shown what stands all the way down.  For any messages, items, episodes  *)
(* and captures, and any bounds.                                           *)
(***************************************************************************)
EXTENDS Interactions, Integers, FiniteSetTheorems, WellFoundedInduction, TLAPS

-----------------------------------------------------------------------------
(* Induction, and sequences defined by it.                                 *)
LEMMA Least ==
  ASSUME NEW T \in SUBSET Nat, T # {} PROVE \E x \in T : \A y \in T : x <= y
<1>1. IsWellFoundedOn(OpToRel(<, Nat), Nat)
  BY NatLessThanWellFounded
<1>2. PICK x \in T : \A y \in T : <<y, x>> \notin OpToRel(<, Nat)
  BY <1>1, WFMin
<1>3. \A y \in T : ~(y < x)
  BY <1>2 DEF OpToRel
<1>4. QED
  BY <1>3

LEMMA Counting ==
  ASSUME NEW S, 0 \in S, \A n \in Nat : n \in S => n + 1 \in S PROVE Nat \subseteq S
<1> SUFFICES ASSUME Nat \ S # {} PROVE FALSE
  OBVIOUS
<1>1. PICK x \in Nat \ S : \A y \in Nat \ S : x <= y
  BY Least
<1>2. x # 0 /\ x - 1 \in Nat /\ x - 1 \in S
  BY <1>1
<1>3. QED
  BY <1>1, <1>2

(* What is applied again and again, from s. *)
Iteration(g, X, s, F, N) ==
  g \in [0 .. N -> X] /\ g[0] = s /\ \A i \in 1 .. N : g[i] = F[<<i, g[i - 1]>>]

LEMMA Iterates ==
  ASSUME NEW X, NEW s \in X, NEW F \in [Nat \X X -> X], NEW N \in Nat
  PROVE  \E g : Iteration(g, X, s, F, N)
<1> DEFINE Fits(g, n) == g[0] = s /\ \A i \in 1 .. n : g[i] = F[<<i, g[i - 1]>>]
           T == {n \in Nat : \E g \in [0 .. n -> X] : Fits(g, n)}
<1>1. 0 \in T
  <2> DEFINE g == [i \in 0 .. 0 |-> s]
  <2>1. g \in [0 .. 0 -> X] /\ Fits(g, 0)
    OBVIOUS
  <2>2. QED
    BY <2>1
<1>2. ASSUME NEW n \in Nat, n \in T PROVE n + 1 \in T
  <2>1. PICK g \in [0 .. n -> X] : Fits(g, n)
    BY <1>2
  <2> DEFINE f == [i \in 0 .. n + 1 |-> IF i = n + 1 THEN F[<<n + 1, g[n]>>] ELSE g[i]]
  <2>2. f \in [0 .. n + 1 -> X] /\ f[n + 1] = F[<<n + 1, g[n]>>] /\ \A i \in 0 .. n : f[i] = g[i]
    OBVIOUS
  <2> HIDE DEF f
  <2>3. f[0] = s
    BY <2>1, <2>2
  <2>4. ASSUME NEW i \in 1 .. n + 1 PROVE f[i] = F[<<i, f[i - 1]>>]
    <3>1. CASE i = n + 1
      <4>1. f[i - 1] = g[n] /\ i - 1 = n
        BY <2>2, <3>1
      <4>2. QED
        BY <2>2, <3>1, <4>1
    <3>2. CASE i \in 1 .. n
      <4>1. f[i] = g[i] /\ f[i - 1] = g[i - 1]
        BY <2>2, <3>2
      <4>2. QED
        BY <2>1, <3>2, <4>1
    <3>3. QED
      BY <3>1, <3>2
  <2>5. QED
    BY <2>2, <2>3, <2>4
<1>3. QED
  <2> HIDE DEF T
  <2>1. N \in T
    BY <1>1, <1>2, Counting
  <2>2. QED
    BY <2>1 DEF T, Iteration

-----------------------------------------------------------------------------
(* What is tainted: closed under mentioning.                               *)
LEMMA RowIsFinite == IsFiniteSet(Row)
<1> DEFINE P(k) == {k} \X (1 .. MaxCopies[k])
           S == {P(k) : k \in Episodes}
           f == [k \in Episodes |-> P(k)]
<1>1. f \in Surjection(Episodes, S)
  BY DEF Surjection
<1>2. IsFiniteSet(S)
  BY <1>1, FS_Surjection, DataAssumption
<1>3. ASSUME NEW k \in Episodes PROVE IsFiniteSet(P(k))
  <2>1. 1 \in Int /\ MaxCopies[k] \in Int
    BY DataAssumption
  <2>2. IsFiniteSet({k}) /\ IsFiniteSet(1 .. MaxCopies[k])
    BY <2>1, FS_Singleton, FS_Interval
  <2>3. QED
    BY <2>2, FS_Product
<1>4. QED
  BY <1>2, <1>3, FS_UNION DEF Row

LEMMA TaintedIs ==
  ASSUME NEW table, NEW ids
  PROVE  /\ ids \subseteq Tainted(table, ids)
         /\ \A r \in Row : Mentions(table, r) \cap Tainted(table, ids) # {} => r \in Tainted(table, ids)
<1> DEFINE N == Cardinality(Row)
           More(s) == s \cup {r \in Row : Mentions(table, r) \cap s # {}}
           X == SUBSET (ids \cup Row)
           F == [p \in Nat \X X |-> More(p[2])]
           R == CHOOSE g : g = [n \in 0 .. N |-> IF n = 0 THEN ids ELSE More(g[n - 1])]
<1>1. N \in Nat
  BY RowIsFinite, FS_CardinalityType
<1>2. Tainted(table, ids) = R[N]
  BY DEF Tainted
<1>3. F \in [Nat \X X -> X] /\ ids \in X /\ \A n \in Nat : \A s \in X : F[<<n, s>>] = More(s)
  OBVIOUS
<1>4. \A s : s \subseteq More(s) /\ (More(s) = s => \A r \in Row : Mentions(table, r) \cap s # {} => r \in s)
  OBVIOUS
<1>5. \A s : Row \subseteq s => More(s) = s
  OBVIOUS
<1>6. \A s \in X : More(s) # s => s \cap Row # More(s) \cap Row
  OBVIOUS
<1> HIDE DEF F, More
<1>7. \E g : g = [n \in 0 .. N |-> IF n = 0 THEN ids ELSE More(g[n - 1])]
  <2>1. PICK g : Iteration(g, X, ids, F, N)
    <3>1. F \in [Nat \X X -> X] /\ ids \in X
      BY <1>3
    <3> HIDE DEF X, N
    <3>2. QED
      BY <1>1, <3>1, Iterates
  <2>2. ASSUME NEW n \in 0 .. N PROVE g[n] = IF n = 0 THEN ids ELSE More(g[n - 1])
    <3>1. CASE n = 0
      BY <2>1, <3>1 DEF Iteration
    <3>2. CASE n # 0
      <4>1. n \in 1 .. N /\ n \in Nat /\ n - 1 \in 0 .. N
        BY <1>1, <3>2
      <4>2. g[n - 1] \in X
        BY <2>1, <4>1 DEF Iteration
      <4>3. QED
        BY <1>3, <2>1, <3>2, <4>1, <4>2 DEF Iteration
    <3>3. QED
      BY <3>1, <3>2
  <2>3. QED
    BY <2>1, <2>2 DEF Iteration
<1>8. R = [n \in 0 .. N |-> IF n = 0 THEN ids ELSE More(R[n - 1])]
  BY <1>7
<1> HIDE DEF R
<1> DEFINE U == {n \in Nat : n <= N => /\ ids \subseteq R[n] /\ R[n] \in X
                                       /\ More(R[n]) = R[n] \/ Cardinality(R[n] \cap Row) >= n}
<1>9. 0 \in U
  <2>1. R[0] = ids
    BY <1>1, <1>8
  <2>2. Cardinality(ids \cap Row) \in Nat
    BY RowIsFinite, FS_Intersection, FS_CardinalityType
  <2>3. Cardinality(R[0] \cap Row) >= 0
    BY <2>1, <2>2
  <2>4. QED
    BY <1>3, <2>1, <2>3
<1>10. ASSUME NEW n \in Nat, n \in U PROVE n + 1 \in U
  <2> SUFFICES ASSUME n + 1 <= N PROVE n + 1 \in U
    OBVIOUS
  <2> DEFINE a == R[n]  b == R[n + 1]
  <2>1. n + 1 \in 0 .. N /\ n + 1 # 0 /\ n <= N /\ (n + 1) - 1 = n
    BY <1>1
  <2>2. b = More(a)
    BY <1>8, <2>1
  <2>3. /\ ids \subseteq a /\ a \in X
        /\ More(a) = a \/ Cardinality(a \cap Row) >= n
    BY <1>10, <2>1
  <2> HIDE DEF a, b
  <2>4. ids \subseteq b /\ b \in X
    BY <1>4, <2>2, <2>3 DEF More
  <2>5. More(b) = b \/ Cardinality(b \cap Row) >= n + 1
    <3>1. CASE More(a) = a
      BY <2>2, <3>1
    <3>2. CASE More(a) # a
      <4>1. a \cap Row # b \cap Row /\ a \cap Row \subseteq b \cap Row
        BY <1>4, <1>6, <2>2, <2>3, <3>2
      <4>2. IsFiniteSet(b \cap Row) /\ Cardinality(b \cap Row) \in Nat /\ Cardinality(a \cap Row) \in Nat
        BY RowIsFinite, FS_Intersection, FS_CardinalityType
      <4>3. /\ Cardinality(a \cap Row) <= Cardinality(b \cap Row)
            /\ Cardinality(a \cap Row) # Cardinality(b \cap Row)
        BY <4>1, <4>2, FS_Subset
      <4>4. QED
        BY <2>3, <3>2, <4>2, <4>3
    <3>3. QED
      BY <3>1, <3>2
  <2>6. QED
    BY <2>4, <2>5 DEF b
<1>11. N \in U
  <2> HIDE DEF U
  <2>1. QED
    BY <1>1, <1>9, <1>10, Counting
<1>12. More(R[N]) = R[N]
  <2>1. CASE Cardinality(R[N] \cap Row) >= N
    <3>1. Cardinality(R[N] \cap Row) <= N /\ Cardinality(R[N] \cap Row) \in Nat
      BY RowIsFinite, FS_Intersection, FS_CardinalityType
    <3>2. R[N] \cap Row = Row
      BY <1>1, <2>1, <3>1, RowIsFinite, FS_Subset
    <3>3. QED
      BY <1>5, <3>2
  <2>2. QED
    BY <1>1, <1>11, <2>1
<1>13. QED
  BY <1>1, <1>2, <1>4, <1>11, <1>12

-----------------------------------------------------------------------------
(* The inductive invariant.                                                *)

(* What a stored row may be: the links are those of its episode's replies, *)
(* and a marker keeps messages of its episode.                             *)
Links(k) == [1 .. Replies[k] -> Offered[k] \cup {Unlinked}]
Forms(r) ==
  {Nothing, Wiped} \cup {Marker(kept) : kept \in SUBSET Said[r[1]]}
                   \cup {Text(links) : links \in Links(r[1])}
Table(f) == f = [r \in Row |-> f[r]] /\ \A r \in Row : f[r] \in Forms(r)

Typed ==
  /\ ev \in [Evid -> {"none", "live", "forgotten", "erased"}]
  /\ open \in [Evid -> SUBSET {"local", "cloud", "infer"}]
  /\ item \in [Items -> {"none", "current", "retired", "deleted"}]
  /\ job \in [Episodes -> {"none", "open", "deleted"}]
  /\ Table(rows) /\ commitments \subseteq Episodes
  /\ sent = [k \in Episodes |-> [links |-> sent[k].links, times |-> sent[k].times]]
  /\ \A k \in Episodes : sent[k].times \in Nat /\ (sent[k].times > 0 => sent[k].links \in Links(k))
  /\ serving \subseteq Episodes /\ held \subseteq Row
  /\ late \in [answers: SUBSET Row, records: SUBSET Row, promises: SUBSET Episodes]

(* What is stored was delivered, and its messages were accepted before. *)
Delivered(k) == job[k] # "none" /\ sent[k].times > 0
Started ==
  /\ \A k \in Episodes : job[k] # "none" => \A e \in Said[k] : ev[e] # "none"
  /\ \A k \in serving : Delivered(k)
  /\ \A r \in Row : rows[r] # Nothing => Delivered(r[1])

(* A message that stands is named by what is left of its turns. *)
Marked ==
  \A r \in Row : \A e \in Said[r[1]] : Live(e) =>
    rows[r] # Wiped /\ (rows[r].form = "marker" => e \in rows[r].kept)

(* A link sent with the delivery is the one stored. *)
Linked ==
  \A r \in Row : HasText(r) =>
    \A j \in 1 .. Replies[r[1]] :
      sent[r[1]].links[j] # Unlinked => rows[r].links[j] = sent[r[1]].links[j]

(* Two copies come only from a delivery that had linked some replies. *)
Mixed(links) == /\ \E j \in DOMAIN links : links[j] = Unlinked
                /\ \E j \in DOMAIN links : links[j] # Unlinked
Single ==
  \A r, q \in Row : HasText(r) /\ HasText(q) /\ r # q /\ r[1] = q[1] => Mixed(sent[r[1]].links)

Inv == Typed /\ Started /\ Marked /\ Linked /\ Single /\ ErasureHolds

-----------------------------------------------------------------------------
(* Rows.                                                                   *)
LEMMA RowIs ==
  ASSUME NEW r \in Row
  PROVE  r[1] \in Episodes /\ r[2] \in Nat /\ r = <<r[1], r[2]>> /\ r[2] \in 1 .. MaxCopies[r[1]]
BY DataAssumption DEF Row

LEMMA FormIs ==
  ASSUME NEW r \in Row, NEW x \in Forms(r)
  PROVE  /\ x.form = "none" \/ x.form = "empty" \/ x.form = "marker" \/ x.form = "text"
         /\ (x.form = "none") <=> (x = Nothing)
         /\ (x.form = "empty") <=> (x = Wiped)
         /\ x.form = "marker" => x = Marker(x.kept) /\ x.kept \in SUBSET Said[r[1]]
         /\ x.form = "text" => x = Text(x.links) /\ x.links \in Links(r[1])
<1>1. CASE x = Nothing
  BY <1>1 DEF Nothing, Wiped
<1>2. CASE x = Wiped
  BY <1>2 DEF Nothing, Wiped
<1>3. ASSUME NEW kept \in SUBSET Said[r[1]], x = Marker(kept) PROVE x.form = "marker" /\ x.kept = kept
  BY <1>3 DEF Marker
<1>4. ASSUME NEW links \in Links(r[1]), x = Text(links) PROVE x.form = "text" /\ x.links = links
  BY <1>4 DEF Text
<1>5. Nothing.form = "none" /\ Wiped.form = "empty"
  BY DEF Nothing, Wiped
<1>6. QED
  BY <1>1, <1>2, <1>3, <1>4, <1>5 DEF Forms

LEMMA LinkIs ==
  ASSUME NEW k \in Episodes, NEW links \in Links(k), NEW j \in DOMAIN links
  PROVE  /\ j \in 1 .. Replies[k]
         /\ links[j] \in Offered[k] \cup {Unlinked}
         /\ links[j].items \subseteq Evid \cup Items
         /\ \A n \in DOMAIN links[j].inters : links[j].inters[n] \in Row
<1>1. j \in 1 .. Replies[k] /\ links[j] \in Offered[k] \cup {Unlinked}
  BY DEF Links
<1>2. CASE links[j] = Unlinked
  BY <1>1, <1>2 DEF Unlinked
<1>3. CASE links[j] \in Offered[k]
  <2>1. links[j] \in [status: Statuses, items: SUBSET (Evid \cup Items), inters: Seq(Row)]
    BY <1>3, CaptureAssumption
  <2> DEFINE d == links[j]
  <2>2. d.items \in SUBSET (Evid \cup Items) /\ d.inters \in Seq(Row)
    BY <2>1
  <2> HIDE DEF d
  <2>3. \A n \in DOMAIN d.inters : d.inters[n] \in Row
    BY <2>2
  <2>4. QED
    BY <1>1, <2>2, <2>3 DEF d
<1>4. QED
  BY <1>1, <1>2, <1>3

(* Redacting turns tainted text into a marker and nothing else. *)
LEMMA RedactedIs ==
  ASSUME NEW table, Table(table), NEW tainted, NEW gone, NEW r \in Row
  PROVE  LET new == Redacted(table, tainted, gone)
             kept == {e \in Said[r[1]] : Live(e)} \ gone IN
         /\ r \in tainted /\ table[r].form = "text" => new[r] = Marker(kept) /\ new[r].form = "marker" /\ new[r].kept = kept
         /\ ~(r \in tainted /\ table[r].form = "text") => new[r] = table[r]
         /\ Table(new)
<1>1. ASSUME NEW q \in Row PROVE Redacted(table, tainted, gone)[q] \in Forms(q)
  BY <1>1 DEF Redacted, Table, Forms
<1>2. QED
  BY <1>1 DEF Redacted, Table, Marker

(* What a stored text rests on, in any table of rows. *)
Gone(v, it, x) == IF x \in Evid THEN v[x] = "erased" ELSE it[x] = "deleted"
Sound(table, v, it, recs, r) ==
  table[r].form = "text" =>
    /\ r \notin recs => \A e \in Said[r[1]] \cap OneClause : v[e] # "erased"
    /\ \A j \in DOMAIN table[r].links :
         /\ \A x \in table[r].links[j].items : ~Gone(v, it, x)
         /\ \A n \in DOMAIN table[r].links[j].inters :
              table[table[r].links[j].inters[n]].form \notin {"empty", "marker"}
         /\ table[r].links[j].status \notin {"complete", "complete_empty"} /\ r \notin recs
              => \A x \in Repeats[r[1]] : ~Gone(v, it, x)

LEMMA ErasureIs ==
  ErasureReachesEverything <=>
    /\ \A r \in Row : Sound(rows, ev, item, late.records, r)
    /\ \A k \in commitments \ late.promises : \A r \in Copies(k) : ~Erased(r)
BY DEF ErasureReachesEverything, Sound, Gone, HasText, Erased

(* Redacting all that is tainted leaves only text that rests on nothing    *)
(* erased, provided the words themselves were looked for.                  *)
LEMMA Cleaned ==
  ASSUME NEW table, NEW new, NEW v, NEW w, NEW it, NEW jt, NEW recs, NEW T, Table(table),
         \A r \in Row : Mentions(table, r) \cap T # {} => r \in T,
         \A r \in Row : new[r].form = "text" => r \notin T /\ new[r] = table[r],
         \A r \in Row : new[r].form \in {"empty", "marker"} => r \in T \/ table[r].form \in {"empty", "marker"},
         \A x \in Evid \cup Items : Gone(w, jt, x) => Gone(v, it, x) \/ x \in T,
         \A r \in Row : new[r].form = "text" =>
            /\ \A e \in Said[r[1]] \cap OneClause : w[e] = "erased" => v[e] = "erased"
            /\ \A j \in DOMAIN table[r].links :
                 table[r].links[j].status \notin {"complete", "complete_empty"} =>
                   \A x \in Repeats[r[1]] : Gone(w, jt, x) => Gone(v, it, x),
         \A r \in Row : r \notin T => Sound(table, v, it, recs, r)
  PROVE  \A r \in Row : Sound(new, w, jt, recs, r)
<1> SUFFICES ASSUME NEW r \in Row, new[r].form = "text" PROVE Sound(new, w, jt, recs, r)
  BY DEF Sound
<1>1. r \notin T /\ new[r] = table[r] /\ table[r].form = "text" /\ Sound(table, v, it, recs, r)
  OBVIOUS
<1> DEFINE k == r[1]  l == table[r].links
<1>2. k \in Episodes /\ l \in Links(k)
  BY <1>1, RowIs, FormIs DEF Table
<1>3. ASSUME NEW j \in DOMAIN l PROVE Seen(l[j]) \cap T = {}
  BY <1>1 DEF Mentions
<1>4. /\ r \notin recs => \A e \in Said[k] \cap OneClause : v[e] # "erased"
      /\ \A j \in DOMAIN l :
         /\ \A x \in l[j].items : ~Gone(v, it, x)
         /\ \A n \in DOMAIN l[j].inters : table[l[j].inters[n]].form \notin {"empty", "marker"}
         /\ l[j].status \notin {"complete", "complete_empty"} /\ r \notin recs
              => \A x \in Repeats[k] : ~Gone(v, it, x)
  BY <1>1 DEF Sound
<1>5. /\ \A e \in Said[k] \cap OneClause : w[e] = "erased" => v[e] = "erased"
      /\ \A j \in DOMAIN l : l[j].status \notin {"complete", "complete_empty"} =>
           \A x \in Repeats[k] : Gone(w, jt, x) => Gone(v, it, x)
  OBVIOUS
<1> HIDE DEF k, l
<1>6. ASSUME NEW j \in DOMAIN l
      PROVE  /\ \A x \in l[j].items : ~Gone(w, jt, x)
             /\ \A n \in DOMAIN l[j].inters : new[l[j].inters[n]].form \notin {"empty", "marker"}
  <2>1. l[j].items \subseteq Evid \cup Items /\ \A n \in DOMAIN l[j].inters : l[j].inters[n] \in Row
    BY <1>2, LinkIs
  <2>2. \A x \in l[j].items : x \notin T
    BY <1>3 DEF Seen
  <2>3. \A n \in DOMAIN l[j].inters : l[j].inters[n] \notin T
    BY <1>3 DEF Seen
  <2>4. QED
    BY <1>4, <2>1, <2>2, <2>3
<1>7. new[r].links = l
  BY <1>1 DEF l
<1>8. QED
  BY <1>4, <1>5, <1>6, <1>7 DEF Sound, k

-----------------------------------------------------------------------------
(* Both erasures are one kind of step: messages erased, rows wiped, and    *)
(* everything tainted redacted.                                            *)
Trace(es, wiped) ==
  Tainted(rows, es \cup FormedFrom(es) \cup {r \in wiped : rows[r] # Wiped}
                   \cup Matching(rows, es, FormedFrom(es)))
Erasing(es, wiped) ==
  /\ ev' = [e \in Evid |-> IF e \in es THEN "erased" ELSE ev[e]]
  /\ open' = [e \in Evid |-> IF e \in es THEN {} ELSE open[e]]
  /\ item' = [i \in Items |-> IF i \in FormedFrom(es) THEN "deleted" ELSE item[i]]
  /\ job' = [k \in Episodes |-> IF k \in JobsOf(es) THEN "deleted" ELSE job[k]]
  /\ rows' = [r \in Row |-> IF r \in wiped THEN Wiped ELSE Redacted(rows, Trace(es, wiped), es)[r]]
  /\ commitments' \subseteq CommitmentsLeft(Trace(es, wiped))

LEMMA AfterIs ==
  ASSUME NEW es, NEW wiped
  PROVE  After(es, {r \in wiped : rows[r] # Wiped}) =
           [ev |-> [e \in Evid |-> IF e \in es THEN "erased" ELSE ev[e]],
            open |-> [e \in Evid |-> IF e \in es THEN {} ELSE open[e]],
            item |-> [i \in Items |-> IF i \in FormedFrom(es) THEN "deleted" ELSE item[i]],
            job |-> [k \in Episodes |-> IF k \in JobsOf(es) THEN "deleted" ELSE job[k]],
            rows |-> Redacted(rows, Trace(es, wiped), es),
            commitments |-> CommitmentsLeft(Trace(es, wiped)) \ JobsOf(es)]
<1> DEFINE R(T) ==
           [ev |-> [e \in Evid |-> IF e \in es THEN "erased" ELSE ev[e]],
            open |-> [e \in Evid |-> IF e \in es THEN {} ELSE open[e]],
            item |-> [i \in Items |-> IF i \in FormedFrom(es) THEN "deleted" ELSE item[i]],
            job |-> [k \in Episodes |-> IF k \in JobsOf(es) THEN "deleted" ELSE job[k]],
            rows |-> Redacted(rows, T, es),
            commitments |-> CommitmentsLeft(T) \ JobsOf(es)]
<1>1. After(es, {r \in wiped : rows[r] # Wiped}) =
        CHOOSE a \in {R(T) : T \in {Trace(es, wiped)}} : TRUE
  BY Zenon DEF After, Trace
<1> HIDE DEF R
<1>2. \A a \in {R(T) : T \in {Trace(es, wiped)}} : a = R(Trace(es, wiped))
  OBVIOUS
<1>3. R(Trace(es, wiped)) \in {R(T) : T \in {Trace(es, wiped)}}
  OBVIOUS
<1>4. After(es, {r \in wiped : rows[r] # Wiped}) = R(Trace(es, wiped))
  BY <1>1, <1>2, <1>3
<1>5. QED
  BY <1>4 DEF R

LEMMA DeletingErases ==
  ASSUME NEW e \in Evid, Table(rows), DeleteEvidence(e) PROVE Erasing({e}, {})
<1> DEFINE es == {e}
           T == Trace(es, {})
           a == After(es, {r \in {} : rows[r] # Wiped})
<1>1. {r \in {} : rows[r] # Wiped} = {}
  OBVIOUS
<1>2. Becomes(a)
  BY <1>1 DEF DeleteEvidence
<1>3. a = [ev |-> [f \in Evid |-> IF f \in es THEN "erased" ELSE ev[f]],
           open |-> [f \in Evid |-> IF f \in es THEN {} ELSE open[f]],
           item |-> [i \in Items |-> IF i \in FormedFrom(es) THEN "deleted" ELSE item[i]],
           job |-> [k \in Episodes |-> IF k \in JobsOf(es) THEN "deleted" ELSE job[k]],
           rows |-> Redacted(rows, T, es),
           commitments |-> CommitmentsLeft(T) \ JobsOf(es)]
  BY AfterIs
<1> HIDE DEF es, T, a
<1>4. /\ ev' = [f \in Evid |-> IF f \in es THEN "erased" ELSE ev[f]]
      /\ open' = [f \in Evid |-> IF f \in es THEN {} ELSE open[f]]
      /\ item' = [i \in Items |-> IF i \in FormedFrom(es) THEN "deleted" ELSE item[i]]
      /\ job' = [k \in Episodes |-> IF k \in JobsOf(es) THEN "deleted" ELSE job[k]]
      /\ rows' = Redacted(rows, T, es)
      /\ commitments' = CommitmentsLeft(T) \ JobsOf(es)
  BY <1>2, <1>3 DEF Becomes
<1>5. rows' = [r \in Row |-> IF r \in {} THEN Wiped ELSE Redacted(rows, T, es)[r]]
  BY <1>4 DEF Redacted
<1>6. QED
  BY <1>4, <1>5 DEF Erasing, T, es

LEMMA ConversationErases ==
  ASSUME NEW c, EraseConversation(c)
  PROVE  /\ Erasing(Reached(c), RowsOf(c))
         /\ \A k \in commitments' : Conv[k] # c
<1> DEFINE es == Reached(c)
           T == Trace(es, RowsOf(c))
           a == After(es, {r \in RowsOf(c) : rows[r] # Wiped})
           b == [a EXCEPT !.commitments = {k \in @ : Conv[k] # c},
                          !.rows = [r \in Row |-> IF r \in RowsOf(c) THEN Wiped ELSE @[r]]]
<1>1. Becomes(b)
  BY DEF EraseConversation, ConversationAfter
<1>2. a = [ev |-> [e \in Evid |-> IF e \in es THEN "erased" ELSE ev[e]],
           open |-> [e \in Evid |-> IF e \in es THEN {} ELSE open[e]],
           item |-> [i \in Items |-> IF i \in FormedFrom(es) THEN "deleted" ELSE item[i]],
           job |-> [k \in Episodes |-> IF k \in JobsOf(es) THEN "deleted" ELSE job[k]],
           rows |-> Redacted(rows, T, es),
           commitments |-> CommitmentsLeft(T) \ JobsOf(es)]
  BY AfterIs
<1> HIDE DEF es, T, a
<1>3. /\ b.ev = a.ev /\ b.open = a.open /\ b.item = a.item /\ b.job = a.job
      /\ b.rows = [r \in Row |-> IF r \in RowsOf(c) THEN Wiped ELSE a.rows[r]]
      /\ b.commitments = {k \in a.commitments : Conv[k] # c}
  BY <1>2
<1> HIDE DEF b
<1>4. /\ ev' = [e \in Evid |-> IF e \in es THEN "erased" ELSE ev[e]]
      /\ open' = [e \in Evid |-> IF e \in es THEN {} ELSE open[e]]
      /\ item' = [i \in Items |-> IF i \in FormedFrom(es) THEN "deleted" ELSE item[i]]
      /\ job' = [k \in Episodes |-> IF k \in JobsOf(es) THEN "deleted" ELSE job[k]]
  BY <1>1, <1>2, <1>3 DEF Becomes
<1>5. rows' = [r \in Row |-> IF r \in RowsOf(c) THEN Wiped ELSE Redacted(rows, T, es)[r]]
  BY <1>1, <1>2, <1>3 DEF Becomes
<1>6. commitments' = {k \in CommitmentsLeft(T) \ JobsOf(es) : Conv[k] # c}
  BY <1>1, <1>2, <1>3 DEF Becomes
<1>7. QED
  BY <1>4, <1>5, <1>6 DEF Erasing, T, es

(* What an erasing step does to a row, and what it keeps true. *)
LEMMA ErasingRows ==
  ASSUME Typed, NEW es, NEW wiped \in SUBSET Row, Erasing(es, wiped)
  PROVE  /\ Table(rows')
         /\ \A r \in Row :
              /\ r \in wiped => rows'[r] = Wiped
              /\ r \notin wiped /\ r \in Trace(es, wiped) /\ HasText(r) =>
                   rows'[r].form = "marker" /\ rows'[r].kept = {e \in Said[r[1]] : Live(e)} \ es
              /\ r \notin wiped /\ ~(r \in Trace(es, wiped) /\ HasText(r)) => rows'[r] = rows[r]
              /\ rows'[r].form = "text" => r \notin wiped /\ r \notin Trace(es, wiped) /\ rows'[r] = rows[r]
<1> DEFINE T == Trace(es, wiped)  new == Redacted(rows, T, es)
<1>1. rows' = [q \in Row |-> IF q \in wiped THEN Wiped ELSE new[q]]
  BY DEF Erasing
<1>2. Table(rows) /\ \A q \in Row : new[q] \in Forms(q)
  BY DEF Typed, Redacted, Table, Forms
<1>3. Table(rows')
  <2>1. \A q \in Row : rows'[q] \in Forms(q)
    BY <1>1, <1>2 DEF Forms
  <2>2. QED
    BY <1>1, <2>1 DEF Table
<1>4. \A r \in Row :
      /\ r \in T /\ HasText(r) => new[r].form = "marker" /\ new[r].kept = {e \in Said[r[1]] : Live(e)} \ es
      /\ ~(r \in T /\ HasText(r)) => new[r] = rows[r]
  BY DEF Redacted, Marker, HasText
<1>5. Wiped.form # "text"
  BY DEF Wiped
<1> HIDE DEF new, T
<1>6. QED
  BY <1>1, <1>3, <1>4, <1>5 DEF HasText, T

(* What storing does to a row: it is the table with the new copy, redacted. *)
LEMMA StoredIs ==
  ASSUME Typed, Started, NEW k \in Episodes, Store(k)
  PROVE  /\ Table(StoredRows(k))
         /\ \A r \in Row : StoredRows(k)[r] = rows[r] \/
              /\ r[1] = k /\ rows[r] = Nothing /\ r \in Fresh(k)
              /\ StoredRows(k)[r] = Text(sent[k].links) /\ StoredRows(k)[r].form = "text"
              /\ Same(k) = {} /\ (\A q \in Copies(k) : ~Erased(q))
              /\ (\A q \in Row : q # r => StoredRows(k)[q] = rows[q])
         /\ sent[k].links \in Links(k)
<1> DEFINE c == NextCopy(k)
<1>1. Delivered(k) /\ Table(rows)
  BY DEF Store, Started, Typed
<1>2. sent[k].links \in Links(k)
  BY <1>1 DEF Delivered, Typed
<1>3. c \in Free(k)
  <2> DEFINE S == {r[2] : r \in Free(k)}
  <2>1. S \in SUBSET Nat /\ S # {}
    BY RowIs DEF Store, Free, Copies
  <2>2. PICK n \in S : \A m \in S : n <= m
    <3> HIDE DEF S
    <3>1. QED
      BY <2>1, Least
  <2>3. \E r \in Free(k) : \A q \in Free(k) : r[2] <= q[2]
    BY <2>2
  <2>4. QED
    BY <2>3 DEF NextCopy
<1>4. c \in Row /\ c[1] = k /\ rows[c] = Nothing
  BY <1>3 DEF Free, Copies
<1> DEFINE new == [rows EXCEPT ![c] = Text(sent[k].links)]
<1>5. \A r \in Row : new[r] = IF r = c THEN Text(sent[k].links) ELSE rows[r]
  BY <1>1, <1>4 DEF Table
<1>6. Table(new)
  BY <1>1, <1>2, <1>4, <1>5 DEF Table, Forms
<1>7. Text(sent[k].links) # Nothing /\ Text(sent[k].links).form = "text"
  BY DEF Text, Nothing
<1> HIDE DEF c
<1>8. CASE StoredRows(k) = rows
  BY <1>1, <1>2, <1>8
<1>9. CASE StoredRows(k) # rows
  <2>1. StoredRows(k) = new /\ Same(k) = {} /\ \A q \in Copies(k) : ~Erased(q)
    BY <1>9 DEF StoredRows, c
  <2>2. c \in Fresh(k)
    BY <1>4, <1>5, <1>7, <2>1 DEF Fresh, Copies
  <2> HIDE DEF new
  <2>3. QED
    BY <1>2, <1>4, <1>5, <1>6, <1>7, <2>1, <2>2
<1>10. QED
  BY <1>8, <1>9

(* What a late link does: one reply of one stored copy is linked. *)
Linking(k, j, d, r, table) ==
  /\ r \in Row /\ r[1] = k /\ HasText(r) /\ j \in 1 .. Replies[k] /\ d \in Offered[k]
  /\ rows[r].links[j] = Unlinked
  /\ table[r] = Text([rows[r].links EXCEPT ![j] = d]) /\ table[r].form = "text"
  /\ \A q \in Row : q # r => table[q] = rows[q]
  /\ rows' = RedactedWith(table, IF Dead(table[r].links) THEN {r} ELSE {})
  /\ commitments' = CommitmentsLeft(Tainted(table, IF Dead(table[r].links) THEN {r} ELSE {}))

LEMMA LinkedIs ==
  ASSUME Typed, NEW k \in Episodes, NEW d \in Offered[k], NEW p \in Copies(k), HasText(p),
         NEW j \in DOMAIN rows[p].links, Link(k, j, rows[p].links, d)
  PROVE  \E r, table : Table(table) /\ Linking(k, j, d, r, table)
<1>1. PICK r \in Linkable(k, j, rows[p].links, d) :
        /\ rows' = RedactedWith([rows EXCEPT ![r].links[j] = d],
                     IF Dead([rows EXCEPT ![r].links[j] = d][r].links) THEN {r} ELSE {})
        /\ commitments' = CommitmentsLeft(Tainted([rows EXCEPT ![r].links[j] = d],
                     IF Dead([rows EXCEPT ![r].links[j] = d][r].links) THEN {r} ELSE {}))
  BY DEF Link
<1>2. r \in Copies(k) /\ HasText(r) /\ rows[r].links = rows[p].links /\ rows[r].links[j] = Unlinked
  BY <1>1 DEF Linkable
<1>3. r \in Row /\ r[1] = k /\ Table(rows)
  BY <1>2 DEF Copies, Typed
<1>4. rows[r] = Text(rows[r].links) /\ rows[r].links \in Links(k) /\ j \in 1 .. Replies[k]
  <2>1. rows[r] \in Forms(r)
    BY <1>3 DEF Table
  <2>2. rows[r].form = "text"
    BY <1>2 DEF HasText
  <2>3. rows[r] = Text(rows[r].links) /\ rows[r].links \in Links(k)
    BY <1>3, <2>1, <2>2, FormIs
  <2>4. j \in 1 .. Replies[k]
    BY <1>2, <2>3 DEF Links
  <2>5. QED
    BY <2>3, <2>4
<1> DEFINE table == [rows EXCEPT ![r].links[j] = d]
           l == rows[r].links
<1>5. table[r] = Text([l EXCEPT ![j] = d]) /\ \A q \in Row : q # r => table[q] = rows[q]
  <2>1. rows = [q \in Row |-> rows[q]]
    BY <1>3 DEF Table
  <2>2. table[r] = [rows[r] EXCEPT !.links[j] = d] /\ \A q \in Row : q # r => table[q] = rows[q]
    BY <1>3, <2>1
  <2>3. [rows[r] EXCEPT !.links[j] = d] = Text([l EXCEPT ![j] = d])
    BY <1>4 DEF Text
  <2>4. QED
    BY <2>2, <2>3
<1>6. table = [q \in Row |-> table[q]]
  BY <1>3 DEF Table
<1>7. [l EXCEPT ![j] = d] \in Links(k)
  BY <1>4 DEF Links
<1> HIDE DEF table
<1>8. Table(table)
  <2>1. \A q \in Row : table[q] \in Forms(q)
    BY <1>3, <1>5, <1>7 DEF Table, Forms
  <2>2. QED
    BY <1>6, <2>1 DEF Table
<1>9. table[r].form = "text"
  BY <1>5 DEF Text
<1>10. Linking(k, j, d, r, table)
  BY <1>1, <1>2, <1>3, <1>4, <1>5, <1>9 DEF Linking, table
<1>11. QED
  BY <1>8, <1>10

(* Redacting after storing or linking. *)
LEMMA FilledRows ==
  ASSUME NEW table, Table(table), NEW rs, rows' = RedactedWith(table, rs), NEW r \in Row
  PROVE  /\ r \in Tainted(table, rs) /\ table[r].form = "text" =>
              rows'[r].form = "marker" /\ rows'[r].kept = {e \in Said[r[1]] : Live(e)}
         /\ ~(r \in Tainted(table, rs) /\ table[r].form = "text") => rows'[r] = table[r]
         /\ rows'[r].form = "text" => r \notin Tainted(table, rs) /\ rows'[r] = table[r]
         /\ Table(rows')
<1> DEFINE T == Tainted(table, rs)
<1>1. rows' = Redacted(table, T, {}) /\ Table(Redacted(table, T, {}))
  BY RedactedIs DEF RedactedWith
<1>2. /\ r \in T /\ table[r].form = "text" => Redacted(table, T, {})[r] = Marker({e \in Said[r[1]] : Live(e)} \ {})
      /\ ~(r \in T /\ table[r].form = "text") => Redacted(table, T, {})[r] = table[r]
  BY DEF Redacted
<1>3. \A kept : Marker(kept).form = "marker" /\ Marker(kept).kept = kept
  BY DEF Marker
<1> HIDE DEF T
<1>4. QED
  BY <1>1, <1>2, <1>3 DEF T

-----------------------------------------------------------------------------
(* Erasing keeps the invariant.                                            *)
Erases(es, wiped) ==
  /\ es \in SUBSET {e \in Evid : ev[e] \in {"live", "forgotten"}} /\ wiped \in SUBSET {r \in Row : rows[r] # Nothing}
  /\ \A r \in wiped : \A e \in Said[r[1]] : Live(e) => e \in es
  /\ Erasing(es, wiped)
  /\ sent' = sent /\ serving' = serving
  /\ \/ held' = {} /\ late' = late
     \/ held' = held /\ late' = [late EXCEPT !.answers = @ \cup Unnoticed]

LEMMA DeletingIs ==
  ASSUME Inv, NEW e \in Evid, DeleteEvidence(e) PROVE Erases({e}, {})
<1>1. Erasing({e}, {})
  BY DeletingErases DEF Inv, Typed
<1>2. QED
  BY <1>1 DEF Erases, DeleteEvidence, Quiet, Elsewhere

LEMMA ErasingConversationIs ==
  ASSUME Inv, NEW c, EraseConversation(c) PROVE Erases(Reached(c), RowsOf(c))
<1>1. Erasing(Reached(c), RowsOf(c))
  BY ConversationErases
<1>2. ASSUME NEW r \in RowsOf(c), NEW e \in Said[r[1]], Live(e) PROVE e \in Reached(c)
  <2>1. r \in Row /\ Conv[r[1]] = c /\ rows[r] # Nothing /\ r[1] \in Episodes /\ rows[r] \in Forms(r)
    BY RowIs DEF RowsOf, Inv, Typed, Table
  <2>2. rows[r] # Wiped /\ (rows[r].form = "marker" => e \in rows[r].kept)
    BY <1>2, <2>1 DEF Inv, Marked
  <2>3. HasText(r) \/ (rows[r].form = "marker" /\ e \in rows[r].kept)
    BY <2>1, <2>2, FormIs DEF HasText
  <2>4. e \in Evid /\ ev[e] \in {"live", "forgotten"} /\ r \in Copies(r[1])
    BY <1>2, <2>1, DataAssumption DEF Live, Copies
  <2>5. QED
    BY <1>2, <2>1, <2>3, <2>4 DEF Reached
<1>3. QED
  BY <1>1, <1>2 DEF Erases, EraseConversation, Reached, RowsOf, Quiet, Elsewhere

LEMMA ErasesKeeps ==
  ASSUME Inv, NEW es, NEW wiped, Erases(es, wiped) PROVE Inv'
<1> DEFINE T == Trace(es, wiped)
<1> USE DEF Inv
<1>1. /\ es \in SUBSET Evid /\ wiped \in SUBSET Row /\ Erasing(es, wiped)
      /\ sent' = sent /\ serving' = serving
      /\ \A e \in es : ev[e] \in {"live", "forgotten"}
  BY DEF Erases
<1>2. /\ ev' = [e \in Evid |-> IF e \in es THEN "erased" ELSE ev[e]]
      /\ open' = [e \in Evid |-> IF e \in es THEN {} ELSE open[e]]
      /\ item' = [i \in Items |-> IF i \in FormedFrom(es) THEN "deleted" ELSE item[i]]
      /\ job' = [k \in Episodes |-> IF k \in JobsOf(es) THEN "deleted" ELSE job[k]]
      /\ commitments' \subseteq CommitmentsLeft(T)
  BY <1>1 DEF Erasing
<1>3. /\ Table(rows')
      /\ \A r \in Row :
           /\ r \in wiped => rows'[r] = Wiped
           /\ r \notin wiped /\ r \in T /\ HasText(r) =>
                rows'[r].form = "marker" /\ rows'[r].kept = {e \in Said[r[1]] : Live(e)} \ es
           /\ r \notin wiped /\ ~(r \in T /\ HasText(r)) => rows'[r] = rows[r]
           /\ rows'[r].form = "text" => r \notin wiped /\ r \notin T /\ rows'[r] = rows[r]
  BY <1>1, ErasingRows
<1>4. /\ late'.records = late.records /\ late'.promises = late.promises
      /\ late' \in [answers: SUBSET Row, records: SUBSET Row, promises: SUBSET Episodes]
  BY DEF Erases, Typed, Unnoticed
<1>5. \A r \in Row : r[1] \in Episodes /\ rows[r] \in Forms(r) /\ rows'[r] \in Forms(r)
  BY <1>3, RowIs DEF Typed, Table
<1> DEFINE base == es \cup FormedFrom(es) \cup {r \in wiped : rows[r] # Wiped}
                      \cup Matching(rows, es, FormedFrom(es))
<1>6. base \subseteq T /\ \A r \in Row : Mentions(rows, r) \cap T # {} => r \in T
  BY TaintedIs DEF Trace
<1>7. es \subseteq T /\ FormedFrom(es) \subseteq T /\ Matching(rows, es, FormedFrom(es)) \subseteq T
  BY <1>6
<1>8. \A r \in wiped : rows[r] # Wiped => r \in T
  BY <1>6
<1> HIDE DEF T, base
<1>9. Typed'
  <2>1. ev' \in [Evid -> {"none", "live", "forgotten", "erased"}]
    BY <1>2 DEF Typed
  <2>2. open' \in [Evid -> SUBSET {"local", "cloud", "infer"}]
    BY <1>2 DEF Typed
  <2>3. item' \in [Items -> {"none", "current", "retired", "deleted"}]
    BY <1>2 DEF Typed
  <2>4. job' \in [Episodes -> {"none", "open", "deleted"}]
    BY <1>2 DEF Typed
  <2>5. commitments' \subseteq Episodes /\ held' \subseteq Row
    BY <1>2 DEF Typed, CommitmentsLeft, Erases
  <2>6. Table(rows)'
    BY <1>3 DEF Table
  <2>7. /\ sent' = [k \in Episodes |-> [links |-> sent'[k].links, times |-> sent'[k].times]]
        /\ \A k \in Episodes : sent'[k].times \in Nat /\ (sent'[k].times > 0 => sent'[k].links \in Links(k))
        /\ serving' \subseteq Episodes
    BY <1>1 DEF Typed
  <2>8. late' \in [answers: SUBSET Row, records: SUBSET Row, promises: SUBSET Episodes]
    BY <1>4
  <2>9. QED
    BY <2>1, <2>2, <2>3, <2>4, <2>5, <2>6, <2>7, <2>8 DEF Typed
<1>10. \A r \in Row : rows'[r] # Nothing => rows[r] # Nothing
  BY <1>1, <1>3 DEF HasText, Nothing, Erases
<1>11. Started'
  <2>1. \A k \in Episodes : job'[k] # "none" => job[k] # "none"
    BY <1>2 DEF JobsOf
  <2>2. \A k \in Episodes : job[k] # "none" => job'[k] # "none"
    BY <1>2
  <2>3. \A e \in Evid : ev[e] # "none" => ev'[e] # "none"
    BY <1>2
  <2>4. QED
    BY <1>1, <1>5, <1>10, <2>1, <2>2, <2>3, DataAssumption DEF Started, Delivered, Typed
<1>12. Marked'
  <2> SUFFICES ASSUME NEW r \in Row, NEW e \in Said[r[1]], ev'[e] = "live"
               PROVE  rows'[r] # Wiped /\ (rows'[r].form = "marker" => e \in rows'[r].kept)
    BY DEF Marked, Live
  <2>1. e \in Evid /\ e \notin es /\ Live(e)
    BY <1>2, <1>5, DataAssumption DEF Live
  <2>2. r \notin wiped
    BY <2>1 DEF Erases
  <2>3. rows[r] # Wiped /\ (rows[r].form = "marker" => e \in rows[r].kept)
    BY <2>1 DEF Marked
  <2>4. CASE r \in T /\ HasText(r)
    BY <1>3, <2>1, <2>2, <2>4 DEF Wiped
  <2>5. CASE ~(r \in T /\ HasText(r))
    BY <1>3, <2>2, <2>3, <2>5
  <2>6. QED
    BY <2>4, <2>5
<1>13. Linked' /\ Single'
  BY <1>1, <1>3 DEF Linked, Single, HasText
<1>14. \A r \in Row : rows'[r].form \in {"empty", "marker"} => r \in T \/ rows[r].form \in {"empty", "marker"}
  BY <1>3, <1>8 DEF HasText, Wiped
<1>15. \A r \in Row : Sound(rows', ev', item', late.records, r)
  <2>1. \A x \in Evid \cup Items : Gone(ev', item', x) => Gone(ev, item, x) \/ x \in T
    BY <1>2, <1>7, DataAssumption DEF Gone
  <2>2. \A r \in Row : Sound(rows, ev, item, late.records, r)
    BY ErasureIs DEF ErasureHolds
  <2>3. ASSUME NEW r \in Row, rows'[r].form = "text"
        PROVE  /\ \A e \in Said[r[1]] \cap OneClause : ev'[e] = "erased" => ev[e] = "erased"
               /\ \A j \in DOMAIN rows[r].links :
                    rows[r].links[j].status \notin {"complete", "complete_empty"} =>
                      \A x \in Repeats[r[1]] : Gone(ev', item', x) => Gone(ev, item, x)
    <3>1. r \notin Matching(rows, es, FormedFrom(es)) /\ rows[r].form = "text"
      BY <1>3, <1>7, <2>3
    <3>2. /\ Said[r[1]] \cap es \cap OneClause = {}
          /\ \A j \in DOMAIN rows[r].links :
               rows[r].links[j].status \notin {"complete", "complete_empty"} =>
                 Repeats[r[1]] \cap (es \cup FormedFrom(es)) = {}
      BY <3>1 DEF Matching
    <3>3. Said[r[1]] \subseteq Evid /\ Repeats[r[1]] \subseteq Evid \cup Items
      BY <1>5, DataAssumption
    <3>4. QED
      BY <1>2, <3>2, <3>3 DEF Gone
  <2>4. \A r \in Row : rows'[r].form = "text" => r \notin T /\ rows'[r] = rows[r]
    BY <1>3
  <2>5. Table(rows)
    BY DEF Typed
  <2>6. QED
    BY <1>6, <1>14, <2>1, <2>2, <2>3, <2>4, <2>5, Cleaned
<1>16. \A k \in commitments' \ late.promises : \A r \in Copies(k) : rows'[r].form \notin {"empty", "marker"}
  <2>1. \A k \in commitments \ late.promises : \A r \in Copies(k) : ~Erased(r)
    BY ErasureIs DEF ErasureHolds
  <2>2. \A k \in commitments' : k \in commitments /\ ~\E r \in T \cap Row : r[1] = k
    BY <1>2 DEF CommitmentsLeft
  <2>3. QED
    BY <1>14, <2>1, <2>2 DEF Copies, Erased
<1>17. ErasureReachesEverything'
  BY <1>4, <1>15, <1>16 DEF ErasureReachesEverything, Sound, Gone, HasText, Erased, Copies
<1>18. AnswersForget'
  BY DEF ErasureHolds, AnswersForget, Erases, Unnoticed, HasText, Typed
<1>19. QED
  BY <1>9, <1>11, <1>12, <1>13, <1>17, <1>18 DEF ErasureHolds

(* Steps that leave rows, jobs, promises and deliveries alone, and make    *)
(* nothing live, erased or deleted.                                        *)
Aside ==
  /\ rows' = rows /\ commitments' = commitments /\ sent' = sent /\ job' = job /\ late' = late
  /\ serving' \subseteq serving
  /\ \A r \in held' : r \in held \/ (r \in Row /\ HasText(r))
  /\ ev' \in [Evid -> {"none", "live", "forgotten", "erased"}]
  /\ open' \in [Evid -> SUBSET {"local", "cloud", "infer"}]
  /\ item' \in [Items -> {"none", "current", "retired", "deleted"}]
  /\ \A e \in Evid : /\ ev'[e] = "live" => ev[e] = "live"
                     /\ ev'[e] = "erased" => ev[e] = "erased"
                     /\ ev'[e] = "none" => ev[e] = "none"
  /\ \A i \in Items : item'[i] = "deleted" => item[i] = "deleted"

LEMMA AsideKeeps == Inv /\ Aside => Inv'
<1> SUFFICES ASSUME Inv, Aside PROVE Inv'
  OBVIOUS
<1> USE DEF Inv
<1>1. /\ rows' = rows /\ commitments' = commitments /\ sent' = sent /\ job' = job /\ late' = late
      /\ serving' \subseteq serving
      /\ \A e \in Evid : /\ ev'[e] = "live" => ev[e] = "live"
                         /\ ev'[e] = "erased" => ev[e] = "erased"
                         /\ ev'[e] = "none" => ev[e] = "none"
      /\ \A i \in Items : item'[i] = "deleted" => item[i] = "deleted"
  BY DEF Aside
<1>2. \A r \in Row : r[1] \in Episodes /\ Said[r[1]] \subseteq Evid /\ Repeats[r[1]] \subseteq Evid \cup Items
  BY RowIs, DataAssumption
<1>3. Typed'
  <2>1. Table(rows)'
    BY <1>1 DEF Typed, Table
  <2>2. held' \subseteq Row
    BY DEF Aside, Typed
  <2>3. QED
    BY <1>1, <2>1, <2>2 DEF Aside, Typed
<1>4. Started' /\ Marked' /\ Linked' /\ Single'
  <2>1. Started'
    BY <1>1, DataAssumption DEF Started, Delivered
  <2>2. Marked'
    BY <1>1, <1>2 DEF Marked, Live
  <2>3. QED
    BY <1>1, <2>1, <2>2 DEF Linked, Single, HasText
<1>5. \A r \in Row : Sound(rows, ev', item', late.records, r)
  <2> SUFFICES ASSUME NEW r \in Row, rows[r].form = "text" PROVE Sound(rows, ev', item', late.records, r)
    BY DEF Sound
  <2>1. Sound(rows, ev, item, late.records, r)
    BY ErasureIs DEF ErasureHolds
  <2>2. \A x \in Evid \cup Items : Gone(ev', item', x) => Gone(ev, item, x)
    BY <1>1 DEF Gone
  <2>3. r[1] \in Episodes /\ rows[r].links \in Links(r[1])
    BY <1>2, FormIs DEF Typed, Table
  <2>4. \A j \in DOMAIN rows[r].links : rows[r].links[j].items \subseteq Evid \cup Items
    BY <2>3, LinkIs
  <2>5. QED
    BY <1>1, <1>2, <2>1, <2>2, <2>4 DEF Sound
<1>6. ErasureReachesEverything'
  <2>1. \A k \in commitments \ late.promises : \A r \in Copies(k) : ~Erased(r)
    BY ErasureIs DEF ErasureHolds
  <2>2. QED
    BY <1>1, <1>5, <2>1 DEF ErasureReachesEverything, Sound, Gone, HasText, Erased, Copies
<1>7. AnswersForget'
  BY <1>1 DEF ErasureHolds, AnswersForget, Aside, HasText
<1>8. QED
  BY <1>3, <1>4, <1>6, <1>7 DEF ErasureHolds

(* A delivery is accepted: messages that are new, the job, what is sent. *)
LEMMA AcceptKeeps ==
  ASSUME Inv, NEW k \in Episodes, Accept(k) PROVE Inv'
<1> USE DEF Inv
<1>1. /\ rows' = rows /\ commitments' = commitments /\ late' = late /\ held' = held
      /\ open' = open /\ item' = item /\ serving' = {k} /\ ~Refused(k)
      /\ ev' = [e \in Evid |-> IF job[k] = "none" /\ e \in Said[k] THEN "live" ELSE ev[e]]
      /\ job' = [job EXCEPT ![k] = "open"]
  BY DEF Accept, Written, Opened
<1>2. PICK links \in Envelopes(k) :
        sent' = [sent EXCEPT ![k] = [links |-> links, times |-> @.times + 1]]
  BY DEF Accept
<1>3. links \in Links(k) /\ (sent[k].times > 0 => links = sent[k].links) /\ sent[k].times \in Nat
  BY DEF Envelopes, Typed, Links
<1>4. /\ sent'[k] = [links |-> links, times |-> sent[k].times + 1]
      /\ \A q \in Episodes : q # k => sent'[q] = sent[q]
      /\ sent' = [q \in Episodes |-> [links |-> sent'[q].links, times |-> sent'[q].times]]
  BY <1>2 DEF Typed
<1>5. \A e \in Evid : /\ ev'[e] = "live" => ev[e] = "live" \/ (ev[e] = "none" /\ job[k] = "none" /\ e \in Said[k])
                      /\ ev'[e] = "erased" => ev[e] = "erased"
                      /\ ev'[e] = "none" => ev[e] = "none" /\ ~(job[k] = "none" /\ e \in Said[k])
  BY <1>1 DEF Refused, Typed
<1>6. \A r \in Row : r[1] \in Episodes /\ Said[r[1]] \subseteq Evid /\ Repeats[r[1]] \subseteq Evid \cup Items
  BY RowIs, DataAssumption
<1>7. Typed'
  <2>1. Table(rows)'
    BY <1>1 DEF Typed, Table
  <2>2. ev' \in [Evid -> {"none", "live", "forgotten", "erased"}] /\ job' \in [Episodes -> {"none", "open", "deleted"}]
    BY <1>1 DEF Typed
  <2>3. \A q \in Episodes : sent'[q].times \in Nat /\ (sent'[q].times > 0 => sent'[q].links \in Links(q))
    BY <1>3, <1>4 DEF Typed
  <2>4. QED
    BY <1>1, <1>4, <2>1, <2>2, <2>3 DEF Typed
<1>8. Started'
  <2>1. \A q \in Episodes : job'[q] # "none" => q = k \/ job[q] # "none"
    BY <1>1 DEF Typed
  <2>2. \A q \in Episodes : Delivered(q) => job'[q] # "none" /\ sent'[q].times > 0
    BY <1>1, <1>3, <1>4 DEF Delivered, Typed
  <2>3. job'[k] # "none" /\ sent'[k].times > 0
    BY <1>1, <1>3, <1>4 DEF Typed
  <2>4. \A e \in Said[k] : ev'[e] # "none"
    BY <1>5, DataAssumption DEF Started
  <2>5. \A q \in Episodes : job[q] # "none" => \A e \in Said[q] : ev'[e] # "none"
    BY <1>5, DataAssumption DEF Started
  <2>6. QED
    BY <1>1, <1>6, <2>1, <2>2, <2>3, <2>4, <2>5 DEF Started, Delivered
<1>9. Marked'
  <2> SUFFICES ASSUME NEW r \in Row, NEW e \in Said[r[1]], ev'[e] = "live"
               PROVE  rows[r] # Wiped /\ (rows[r].form = "marker" => e \in rows[r].kept)
    BY <1>1 DEF Marked, Live
  <2>1. CASE ev[e] = "live"
    BY <2>1 DEF Marked, Live
  <2>2. CASE ev[e] = "none"
    <3>1. rows[r] = Nothing
      BY <1>6, <2>2 DEF Started, Delivered
    <3>2. QED
      BY <3>1 DEF Nothing, Wiped
  <2>3. QED
    BY <1>5, <1>6, <2>1, <2>2
<1>10. Linked' /\ Single'
  <2>1. \A r \in Row : HasText(r) => sent'[r[1]].links = sent[r[1]].links
    <3>1. ASSUME NEW r \in Row, HasText(r) PROVE sent'[r[1]].links = sent[r[1]].links
      <4>1. rows[r] # Nothing
        BY <3>1 DEF HasText, Nothing
      <4>2. Delivered(r[1])
        BY <4>1 DEF Started
      <4>3. QED
        BY <1>3, <1>4, <1>6, <4>2 DEF Delivered
    <3>2. QED
      BY <3>1
  <2>2. QED
    BY <1>1, <2>1 DEF Linked, Single, HasText
<1>11. ErasureReachesEverything'
  <2>1. \A r \in Row : Sound(rows, ev', item', late.records, r)
    <3> SUFFICES ASSUME NEW r \in Row, rows[r].form = "text" PROVE Sound(rows, ev', item', late.records, r)
      BY DEF Sound
    <3>1. Sound(rows, ev, item, late.records, r)
      BY ErasureIs DEF ErasureHolds
    <3>2. \A x \in Evid \cup Items : Gone(ev', item', x) => Gone(ev, item, x)
      BY <1>1, <1>5 DEF Gone
    <3>3. r[1] \in Episodes /\ rows[r].links \in Links(r[1])
      BY <1>6, FormIs DEF Typed, Table
    <3>4. \A j \in DOMAIN rows[r].links : rows[r].links[j].items \subseteq Evid \cup Items
      BY <3>3, LinkIs
    <3>5. QED
      BY <1>5, <1>6, <3>1, <3>2, <3>4 DEF Sound
  <2>2. \A q \in commitments \ late.promises : \A r \in Copies(q) : ~Erased(r)
    BY ErasureIs DEF ErasureHolds
  <2>3. QED
    BY <1>1, <2>1, <2>2 DEF ErasureReachesEverything, Sound, Gone, HasText, Erased, Copies
<1>12. AnswersForget'
  BY <1>1 DEF ErasureHolds, AnswersForget, HasText
<1>13. QED
  BY <1>7, <1>8, <1>9, <1>10, <1>11, <1>12 DEF ErasureHolds

(* What is common to storing and linking: a table that holds what was      *)
(* stored or text, redacted.                                               *)
Filling(table, rs) ==
  /\ Table(table) /\ rows' = RedactedWith(table, rs)
  /\ \A r \in Row : table[r] = rows[r] \/ (table[r].form = "text" /\ Delivered(r[1]))
  /\ ev' = ev /\ open' = open /\ item' = item /\ job' = job /\ sent' = sent /\ held' = held
  /\ serving' \subseteq serving /\ late.records \subseteq late'.records
  /\ late'.answers = late.answers \cup Unnoticed
  /\ late' \in [answers: SUBSET Row, records: SUBSET Row, promises: SUBSET Episodes]
  /\ late.promises \subseteq late'.promises
  /\ commitments' \subseteq Episodes
  /\ \A k \in commitments' \ late'.promises :
       \/ k \in CommitmentsLeft(Tainted(table, rs))
       \/ \A r \in Copies(k) : rows'[r].form \notin {"empty", "marker"}

LEMMA FillingKeeps ==
  ASSUME Inv, NEW table, NEW rs, Filling(table, rs),
         \A r \in Row : r \notin Tainted(table, rs) => Sound(table, ev, item, late'.records, r)
  PROVE  Typed' /\ Started' /\ Marked' /\ ErasureHolds'
<1> DEFINE T == Tainted(table, rs)
<1> USE DEF Inv
<1>1. /\ Table(table) /\ Table(rows')
      /\ \A r \in Row :
           /\ r \in T /\ table[r].form = "text" =>
                rows'[r].form = "marker" /\ rows'[r].kept = {e \in Said[r[1]] : Live(e)}
           /\ ~(r \in T /\ table[r].form = "text") => rows'[r] = table[r]
           /\ rows'[r].form = "text" => r \notin T /\ rows'[r] = table[r]
  <2>1. Table(table) /\ rows' = RedactedWith(table, rs)
    BY DEF Filling
  <2>2. Table(rows')
    <3>1. Table(Redacted(table, T, {}))
      BY <2>1 DEF Redacted, Table, Forms
    <3>2. QED
      BY <2>1, <3>1 DEF RedactedWith
  <2>3. QED
    BY <2>1, <2>2, FilledRows
<1>2. rs \subseteq T /\ \A r \in Row : Mentions(table, r) \cap T # {} => r \in T
  BY TaintedIs
<1> HIDE DEF T
<1>3. \A r \in Row : table[r] = rows[r] \/ (table[r].form = "text" /\ Delivered(r[1]))
  BY DEF Filling
<1>4. /\ ev' = ev /\ open' = open /\ item' = item /\ job' = job /\ sent' = sent /\ held' = held
      /\ serving' \subseteq serving
  BY DEF Filling
<1>5. \A r \in Row : r[1] \in Episodes /\ Said[r[1]] \subseteq Evid /\ Repeats[r[1]] \subseteq Evid \cup Items
  BY RowIs, DataAssumption
<1>6. Typed'
  <2>1. Table(rows)'
    BY <1>1 DEF Table
  <2>2. QED
    BY <1>4, <2>1 DEF Filling, Typed
<1>7. Started'
  <2>1. \A r \in Row : rows'[r] # Nothing => rows[r] # Nothing \/ Delivered(r[1])
    BY <1>1, <1>3 DEF Nothing
  <2>2. \A k \in Episodes : Delivered(k)' <=> Delivered(k)
    BY <1>4 DEF Delivered
  <2>3. QED
    BY <1>4, <1>5, <2>1, <2>2 DEF Started, Typed
<1>8. Marked'
  <2> SUFFICES ASSUME NEW r \in Row, NEW e \in Said[r[1]], Live(e)
               PROVE  rows'[r] # Wiped /\ (rows'[r].form = "marker" => e \in rows'[r].kept)
    BY <1>4 DEF Marked, Live
  <2>1. rows[r] # Wiped /\ (rows[r].form = "marker" => e \in rows[r].kept)
    BY DEF Marked
  <2>2. QED
    BY <1>1, <1>3, <2>1 DEF Wiped
<1>9. \A r \in Row : rows'[r].form \in {"empty", "marker"} => r \in T \/ rows[r].form \in {"empty", "marker"}
  BY <1>1, <1>3
<1>10. \A r \in Row : Sound(rows', ev, item, late'.records, r)
  <2>1. \A r \in Row : rows'[r].form \in {"empty", "marker"} => r \in T \/ table[r].form \in {"empty", "marker"}
    BY <1>1
  <2>2. \A r \in Row : r \notin T => Sound(table, ev, item, late'.records, r)
    BY DEF T
  <2> DEFINE R == late'.records
  <2> HIDE DEF R
  <2>3. \A r \in Row : r \notin T => Sound(table, ev, item, R, r)
    BY <2>2 DEF R
  <2>4. \A r \in Row : Sound(rows', ev, item, R, r)
    BY <1>1, <1>2, <2>1, <2>3, Cleaned
  <2>5. QED
    BY <2>4 DEF R
<1>11. \A k \in commitments' \ late'.promises : \A r \in Copies(k) : rows'[r].form \notin {"empty", "marker"}
  <2>1. \A k \in commitments \ late.promises : \A r \in Copies(k) : ~Erased(r)
    BY ErasureIs DEF ErasureHolds
  <2>2. \A k \in CommitmentsLeft(T) : k \in commitments /\ ~\E r \in T \cap Row : r[1] = k
    BY DEF CommitmentsLeft
  <2>3. ASSUME NEW k \in commitments' \ late'.promises, NEW r \in Copies(k), rows'[r].form \in {"empty", "marker"}
        PROVE  FALSE
    <3>1. k \in CommitmentsLeft(T) /\ k \notin late.promises
      BY <2>3 DEF Filling, T
    <3>2. r \in Row /\ r[1] = k
      BY DEF Copies
    <3>3. QED
      BY <1>9, <2>1, <2>2, <2>3, <3>1, <3>2 DEF Erased
  <2>4. QED
    BY <2>3
<1>12. ErasureReachesEverything'
  BY <1>4, <1>10, <1>11 DEF ErasureReachesEverything, Sound, Gone, HasText, Erased, Copies
<1>13. AnswersForget'
  <2>1. late'.answers = late.answers \cup Unnoticed
    BY DEF Filling
  <2>2. QED
    BY <1>4, <2>1 DEF ErasureHolds, AnswersForget, Unnoticed, HasText, Typed
<1>14. QED
  BY <1>6, <1>7, <1>8, <1>12, <1>13 DEF ErasureHolds

(* Storing the turns of a delivery. *)
LEMMA StoreKeeps ==
  ASSUME Inv, NEW k \in Episodes, Store(k) PROVE Inv'
<1> DEFINE table == StoredRows(k)
           T == Tainted(table, Rechecked(k))
<1> USE DEF Inv
<1>1. /\ Table(table)
      /\ \A r \in Row : table[r] = rows[r] \/
           /\ r[1] = k /\ rows[r] = Nothing /\ r \in Fresh(k)
           /\ table[r] = Text(sent[k].links) /\ table[r].form = "text"
           /\ Same(k) = {} /\ (\A q \in Copies(k) : ~Erased(q))
           /\ (\A q \in Row : q # r => table[q] = rows[q])
      /\ sent[k].links \in Links(k)
  BY StoredIs
<1>2. Delivered(k) /\ serving' = {}
  BY DEF Store, Started
<1>3. \A r \in Row : rows'[r].form = "text" => r \notin T /\ rows'[r] = table[r]
  BY <1>1, FilledRows DEF Store
<1>4. Rechecked(k) \subseteq T
  BY TaintedIs
<1>5. Filling(table, Rechecked(k))
  <2>1. \A r \in Row : table[r] = rows[r] \/ (table[r].form = "text" /\ Delivered(r[1]))
    BY <1>1, <1>2
  <2>2. /\ rows' = RedactedWith(table, Rechecked(k))
        /\ commitments' = CommitmentsLeft(T) \cup Promises(k)
        /\ late' = [answers |-> late.answers \cup Unnoticed,
                    records |-> late.records \cup (IF Belated(k) THEN Fresh(k) ELSE {}),
                    promises |-> late.promises \cup
                      {q \in Promises(k) : \E r \in Copies(k) : rows'[r].form \in {"empty", "marker"}}]
        /\ ev' = ev /\ open' = open /\ item' = item /\ job' = job /\ sent' = sent /\ held' = held
    BY DEF Store
  <2>3. Promises(k) \subseteq {k} /\ CommitmentsLeft(T) \subseteq Episodes /\ Fresh(k) \subseteq Row /\ Unnoticed \subseteq Row
    BY DEF Promises, CommitmentsLeft, Typed, Fresh, Copies, Unnoticed
  <2>4. late' \in [answers: SUBSET Row, records: SUBSET Row, promises: SUBSET Episodes]
    BY <2>2, <2>3 DEF Typed
  <2>5. \A q \in commitments' \ late'.promises :
          q \in CommitmentsLeft(T) \/ \A r \in Copies(q) : rows'[r].form \notin {"empty", "marker"}
    BY <2>2, <2>3
  <2> HIDE DEF table
  <2>6. /\ late'.answers = late.answers \cup Unnoticed
        /\ late.records \subseteq late'.records
        /\ late.promises \subseteq late'.promises
        /\ commitments' \subseteq Episodes
    BY <2>2, <2>3
  <2>7. QED
    BY <1>1, <1>2, <2>1, <2>2, <2>4, <2>5, <2>6 DEF Filling
<1> HIDE DEF table, T
<1>6. ASSUME NEW r \in Row, r \notin T PROVE Sound(table, ev, item, late'.records, r)
  <2>1. \A q \in Row : table[q].form \in {"empty", "marker"} => Erased(q)
    BY <1>1 DEF Erased
  <2>2. CASE table[r] = rows[r]
    <3> SUFFICES ASSUME rows[r].form = "text" PROVE Sound(table, ev, item, late'.records, r)
      BY <2>2 DEF Sound
    <3>1. Sound(rows, ev, item, late.records, r)
      BY ErasureIs DEF ErasureHolds
    <3>2. late.records \subseteq late'.records
      BY <1>5 DEF Filling
    <3>3. r[1] \in Episodes /\ rows[r].links \in Links(r[1])
      BY RowIs, FormIs DEF Typed, Table
    <3>4. \A j \in DOMAIN rows[r].links : \A n \in DOMAIN rows[r].links[j].inters : rows[r].links[j].inters[n] \in Row
      BY <3>3, LinkIs
    <3>5. QED
      BY <2>1, <2>2, <3>1, <3>2, <3>4 DEF Sound, Erased
  <2>3. CASE table[r] # rows[r]
    <3> DEFINE l == sent[k].links
    <3>1. /\ r[1] = k /\ r \in Fresh(k) /\ table[r] = Text(l) /\ table[r].form = "text" /\ l \in Links(k)
          /\ \A q \in Copies(k) : ~Erased(q)
      BY <1>1, <2>3
    <3>2. ~Dead(l)
      BY <1>4, <1>6, <3>1 DEF Rechecked, table, Fresh
    <3>3. table[r].links = l
      BY <3>1 DEF Text
    <3>4. \A j \in DOMAIN l : /\ l[j].items \subseteq Evid \cup Items
                              /\ \A n \in DOMAIN l[j].inters : l[j].inters[n] \in Row
      BY <3>1, LinkIs
    <3>5. \A j \in DOMAIN l : /\ \A x \in l[j].items : ~Gone(ev, item, x)
                              /\ \A n \in DOMAIN l[j].inters : ~Erased(l[j].inters[n])
      BY <3>2 DEF Dead, Gone
    <3>6. r \notin late'.records => ~Belated(k)
      BY <3>1 DEF Store
    <3>7. ~Belated(k) => /\ \A e \in Said[k] : ev[e] # "erased"
                         /\ \A x \in Repeats[k] : ~Gone(ev, item, x)
      BY DataAssumption DEF Belated, Gone
    <3> HIDE DEF l
    <3>8. QED
      BY <2>1, <3>1, <3>3, <3>4, <3>5, <3>6, <3>7 DEF Sound
  <2>4. QED
    BY <2>2, <2>3
<1>7. Typed' /\ Started' /\ Marked' /\ ErasureHolds'
  BY <1>5, <1>6, FillingKeeps DEF T
<1>8. sent' = sent
  BY <1>5 DEF Filling
<1>9. Linked'
  <2> SUFFICES ASSUME NEW r \in Row, rows'[r].form = "text", NEW j \in 1 .. Replies[r[1]], sent[r[1]].links[j] # Unlinked
               PROVE  rows'[r].links[j] = sent[r[1]].links[j]
    BY <1>8 DEF Linked, HasText
  <2>1. rows'[r] = table[r]
    BY <1>3
  <2>2. CASE table[r] = rows[r]
    BY <2>1, <2>2 DEF Linked, HasText
  <2>3. CASE table[r] = Text(sent[k].links) /\ r[1] = k
    BY <2>1, <2>3 DEF Text
  <2>4. QED
    BY <1>1, <2>2, <2>3
<1>10. Single'
  <2>1. ASSUME NEW r \in Row, NEW q \in Row, table[r].form = "text", table[q].form = "text",
               r # q, r[1] = q[1], table[r] # rows[r]
        PROVE  Mixed(sent[r[1]].links)
    <3> DEFINE l == sent[k].links  m == rows[q].links
    <3>1. r[1] = k /\ q[1] = k /\ Same(k) = {} /\ table[q] = rows[q] /\ l \in Links(k)
      BY <1>1, <2>1
    <3>2. HasText(q) /\ q \in Copies(k) /\ m \in Links(k)
      BY <2>1, <3>1, FormIs DEF HasText, Copies, Typed, Table
    <3>3. m # l /\ \E j \in DOMAIN l : l[j] # Unlinked
      BY <3>1, <3>2 DEF Same
    <3>4. \A j \in 1 .. Replies[k] : l[j] # Unlinked => m[j] = l[j]
      BY <3>1, <3>2 DEF Linked
    <3> HIDE DEF l, m
    <3>5. \E j \in DOMAIN l : l[j] = Unlinked
      <4> DEFINE D == 1 .. Replies[k]
      <4>1. l = [j \in D |-> l[j]] /\ m = [j \in D |-> m[j]] /\ DOMAIN l = D
        BY <3>1, <3>2 DEF Links
      <4> HIDE DEF D
      <4>2. PICK j \in D : m[j] # l[j]
        BY <3>3, <4>1
      <4>3. QED
        BY <3>4, <4>1, <4>2 DEF D
    <3>6. QED
      BY <3>1, <3>3, <3>5 DEF Mixed, l
  <2>2. \A r, q \in Row : /\ rows'[r].form = "text" /\ rows'[q].form = "text" /\ r # q /\ r[1] = q[1]
                          => Mixed(sent[r[1]].links)
    <3> SUFFICES ASSUME NEW r \in Row, NEW q \in Row, rows'[r].form = "text", rows'[q].form = "text", r # q, r[1] = q[1]
                 PROVE  Mixed(sent[r[1]].links)
      OBVIOUS
    <3>1. table[r].form = "text" /\ table[q].form = "text"
      BY <1>3
    <3>2. CASE table[r] = rows[r] /\ table[q] = rows[q]
      BY <3>1, <3>2 DEF Single, HasText
    <3>3. QED
      BY <2>1, <3>1, <3>2
  <2>3. QED
    BY <1>8, <2>2 DEF Single, HasText
<1>11. QED
  BY <1>7, <1>9, <1>10

(* Linking a reply of a stored turn later. *)
LEMMA LinkKeeps ==
  ASSUME Inv, NEW k \in Episodes, NEW j, NEW d, NEW r, NEW table, Table(table), Linking(k, j, d, r, table),
         ev' = ev, open' = open, item' = item, job' = job, sent' = sent, held' = held, serving' = serving,
         late' = [late EXCEPT !.answers = @ \cup Unnoticed]
  PROVE  /\ Inv'
         /\ \A q \in Row : HasText(q) /\ rows'[q].form = "text" =>
              \A i \in DOMAIN rows[q].links :
                rows[q].links[i] # Unlinked => rows'[q].links[i] = rows[q].links[i]
<1> DEFINE dead == IF Dead(table[r].links) THEN {r} ELSE {}
           T == Tainted(table, dead)
           l == rows[r].links
           m == [l EXCEPT ![j] = d]
<1> USE DEF Inv
<1>1. /\ r \in Row /\ r[1] = k /\ HasText(r) /\ j \in 1 .. Replies[k] /\ d \in Offered[k]
      /\ l[j] = Unlinked /\ table[r] = Text(m) /\ table[r].form = "text"
      /\ \A q \in Row : q # r => table[q] = rows[q]
      /\ rows' = RedactedWith(table, dead) /\ commitments' = CommitmentsLeft(T)
  BY DEF Linking
<1>2. /\ table[r].links = m /\ l \in Links(k) /\ m \in Links(k) /\ m[j] = d
      /\ \A i \in 1 .. Replies[k] : i # j => m[i] = l[i]
  <2>1. l \in Links(k)
    BY <1>1, FormIs DEF Typed, Table, HasText
  <2> HIDE DEF l
  <2>2. l \in [1 .. Replies[k] -> Offered[k] \cup {Unlinked}]
    BY <2>1 DEF Links
  <2>3. m \in [1 .. Replies[k] -> Offered[k] \cup {Unlinked}] /\ m[j] = d
        /\ \A i \in 1 .. Replies[k] : i # j => m[i] = l[i]
    BY <1>1, <2>2
  <2> HIDE DEF m
  <2>4. table[r].links = m
    BY <1>1 DEF Text
  <2>5. QED
    BY <2>1, <2>3, <2>4 DEF Links
<1>3. dead \subseteq T
  BY TaintedIs
<1>4. \A q \in Row : rows'[q].form = "text" => q \notin T /\ rows'[q] = table[q]
  BY <1>1, FilledRows
<1>5. \A q \in Row : table[q] = rows[q] \/ (table[q].form = "text" /\ Delivered(q[1]))
  <2>1. rows[r] # Nothing
    BY <1>1 DEF HasText, Nothing
  <2>2. Delivered(r[1])
    BY <1>1, <2>1 DEF Started
  <2>3. QED
    BY <1>1, <2>2
<1>6. Filling(table, dead)
  <2>1. Unnoticed \subseteq Row /\ CommitmentsLeft(T) \subseteq Episodes
    BY DEF Unnoticed, CommitmentsLeft, Typed
  <2>2. /\ late'.answers = late.answers \cup Unnoticed /\ late'.records = late.records
        /\ late'.promises = late.promises
        /\ late' \in [answers: SUBSET Row, records: SUBSET Row, promises: SUBSET Episodes]
    BY <2>1 DEF Typed
  <2> HIDE DEF dead
  <2>3. QED
    BY <1>1, <1>5, <2>1, <2>2 DEF Filling
<1>7. late'.records = late.records
  BY DEF Typed
<1> HIDE DEF T, m, l
<1>8. ASSUME NEW q \in Row, q \notin T PROVE Sound(table, ev, item, late.records, q)
  <2> SUFFICES ASSUME table[q].form = "text" PROVE Sound(table, ev, item, late.records, q)
    BY DEF Sound
  <2>1. \A p \in Row : table[p].form \in {"empty", "marker"} => Erased(p)
    BY <1>1 DEF Erased
  <2>2. Sound(rows, ev, item, late.records, q)
    BY ErasureIs DEF ErasureHolds
  <2>3. CASE q # r
    <3>1. table[q] = rows[q] /\ rows[q].form = "text"
      BY <1>1, <2>3
    <3>2. q[1] \in Episodes /\ rows[q].links \in Links(q[1])
      BY <3>1, RowIs, FormIs DEF Typed, Table
    <3>3. \A i \in DOMAIN rows[q].links : \A n \in DOMAIN rows[q].links[i].inters : rows[q].links[i].inters[n] \in Row
      BY <3>2, LinkIs
    <3>4. QED
      BY <2>1, <2>2, <3>1, <3>3 DEF Sound, Erased
  <2>4. CASE q = r
    <3>1. rows[r].form = "text" /\ rows[r].links = l /\ j \in DOMAIN l
      BY <1>1, <1>2 DEF HasText, l, Links
    <3>2. l[j].status \notin {"complete", "complete_empty"}
      BY <1>1 DEF Unlinked
    <3>3. r \notin late.records => /\ \A e \in Said[k] \cap OneClause : ev[e] # "erased"
                                   /\ \A x \in Repeats[k] : ~Gone(ev, item, x)
      BY <1>1, <2>2, <2>4, <3>1, <3>2 DEF Sound
    <3>4. ~Dead(m)
      BY <1>2, <1>3, <1>8, <2>4
    <3>5. \A i \in DOMAIN m : /\ m[i].items \subseteq Evid \cup Items
                              /\ \A n \in DOMAIN m[i].inters : m[i].inters[n] \in Row
      BY <1>2, LinkIs
    <3>6. \A i \in DOMAIN m : /\ \A x \in m[i].items : ~Gone(ev, item, x)
                              /\ \A n \in DOMAIN m[i].inters : ~Erased(m[i].inters[n])
      BY <3>4 DEF Dead, Gone
    <3>7. QED
      BY <1>1, <1>2, <2>1, <2>4, <3>3, <3>5, <3>6 DEF Sound
  <2>5. QED
    BY <2>3, <2>4
<1>9. Typed' /\ Started' /\ Marked' /\ ErasureHolds'
  <2>1. \A q \in Row : q \notin T => Sound(table, ev, item, late'.records, q)
    BY <1>7, <1>8
  <2> HIDE DEF dead
  <2>2. QED
    BY <1>6, <2>1, FillingKeeps DEF T
<1>10. \A q \in Row : HasText(q) /\ rows'[q].form = "text" =>
         \A i \in DOMAIN rows[q].links :
           rows[q].links[i] # Unlinked => rows'[q].links[i] = rows[q].links[i]
  <2> SUFFICES ASSUME NEW q \in Row, HasText(q), rows'[q].form = "text",
                      NEW i \in DOMAIN rows[q].links, rows[q].links[i] # Unlinked
               PROVE  rows'[q].links[i] = rows[q].links[i]
    OBVIOUS
  <2>1. CASE q # r
    BY <1>1, <1>4, <2>1
  <2>2. CASE q = r
    <3>1. i # j /\ i \in 1 .. Replies[k]
      BY <1>1, <1>2, <2>2 DEF l, Links
    <3>2. QED
      BY <1>2, <1>4, <2>2, <3>1 DEF l
  <2>3. QED
    BY <2>1, <2>2
<1>11. Linked'
  <2> SUFFICES ASSUME NEW q \in Row, rows'[q].form = "text", NEW i \in 1 .. Replies[q[1]], sent[q[1]].links[i] # Unlinked
               PROVE  rows'[q].links[i] = sent[q[1]].links[i]
    BY DEF Linked, HasText
  <2>1. HasText(q)
    BY <1>1, <1>4 DEF HasText
  <2>2. rows[q].links[i] = sent[q[1]].links[i]
    BY <2>1 DEF Linked
  <2>3. q[1] \in Episodes /\ rows[q].links \in Links(q[1])
    BY <2>1, RowIs, FormIs DEF Typed, Table, HasText
  <2>4. i \in DOMAIN rows[q].links
    BY <2>3 DEF Links
  <2>5. QED
    BY <1>10, <2>1, <2>2, <2>4
<1>12. Single'
  <2>1. \A q \in Row : rows'[q].form = "text" => HasText(q)
    BY <1>1, <1>4 DEF HasText
  <2>2. QED
    BY <2>1 DEF Single, HasText
<1>13. QED
  BY <1>9, <1>10, <1>11, <1>12

-----------------------------------------------------------------------------
(* The theorems.                                                           *)
LEMMA Starts == Init => Inv
<1> SUFFICES ASSUME Init PROVE Inv
  OBVIOUS
<1> USE DEF Init
<1>1. \A r \in Row : rows[r] = Nothing /\ rows[r].form = "none"
  BY DEF Nothing
<1>2. Typed
  <2>1. Table(rows)
    BY DEF Table, Forms
  <2>2. late \in [answers: SUBSET Row, records: SUBSET Row, promises: SUBSET Episodes]
    OBVIOUS
  <2>3. sent = [k \in Episodes |-> [links |-> sent[k].links, times |-> sent[k].times]]
        /\ \A k \in Episodes : sent[k].times = 0
    OBVIOUS
  <2>4. QED
    BY <2>1, <2>2, <2>3 DEF Typed
<1>3. Started
  BY <1>1 DEF Started
<1>4. Marked /\ Linked /\ Single
  BY <1>1, RowIs, DataAssumption DEF Marked, Linked, Single, HasText, Nothing, Wiped
<1>5. ErasureReachesEverything /\ AnswersForget
  BY <1>1 DEF ErasureReachesEverything, AnswersForget, HasText
<1>6. QED
  BY <1>2, <1>3, <1>4, <1>5 DEF Inv, ErasureHolds

(* The cases of a step. *)
LEMMA StepIs ==
  ASSUME Inv, [Next]_vars
  PROVE  \/ Aside
         \/ \E e \in Evid : DeleteEvidence(e)
         \/ \E c \in {Conv[k] : k \in Episodes} : EraseConversation(c)
         \/ \E k \in Episodes : Accept(k) \/ Store(k)
         \/ \E k \in Episodes : \E d \in Offered[k] : \E p \in Copies(k) : HasText(p) /\
              \E j \in DOMAIN rows[p].links : Link(k, j, rows[p].links, d)
<1> USE DEF Inv
<1>1. ASSUME NEW e \in Evid, Forget(e) PROVE Aside
  BY <1>1 DEF Forget, Aside, Typed, Live
<1>2. ASSUME NEW e \in Evid, Permit(e, {"local", "infer"}) PROVE Aside
  BY <1>2 DEF Permit, Aside, Typed
<1>3. ASSUME NEW i \in Items, Form(i) PROVE Aside
  BY <1>3 DEF Form, Aside, Typed
<1>4. ASSUME NEW i \in Items, Retire(i) PROVE Aside
  BY <1>4 DEF Retire, Aside, Typed
<1>5. ASSUME Crash PROVE Aside
  BY <1>5 DEF Crash, Aside, Typed, erasable
<1>6. ASSUME NEW rs, rs \in SUBSET {r \in Row : HasText(r)}, Ask(rs) PROVE Aside
  BY <1>6 DEF Ask, Aside, Typed, erasable
<1>7. ASSUME UNCHANGED vars PROVE Aside
  BY <1>7 DEF vars, erasable, Aside, Typed
<1>8. ShownInHistory \in SUBSET {r \in Row : HasText(r)} /\ \A t : ShownToModel(t) \in SUBSET {r \in Row : HasText(r)}
  BY DEF ShownInHistory, ShownToModel
<1>9. QED
  BY <1>1, <1>2, <1>3, <1>4, <1>5, <1>6, <1>7, <1>8 DEF Next

LEMMA InvKept == Inv /\ [Next]_vars => Inv'
<1> SUFFICES ASSUME Inv, [Next]_vars PROVE Inv'
  OBVIOUS
<1>1. CASE Aside
  BY <1>1, AsideKeeps
<1>2. ASSUME NEW e \in Evid, DeleteEvidence(e) PROVE Inv'
  BY <1>2, DeletingIs, ErasesKeeps
<1>3. ASSUME NEW c, EraseConversation(c) PROVE Inv'
  BY <1>3, ErasingConversationIs, ErasesKeeps
<1>4. ASSUME NEW k \in Episodes, Accept(k) PROVE Inv'
  BY <1>4, AcceptKeeps
<1>5. ASSUME NEW k \in Episodes, Store(k) PROVE Inv'
  BY <1>5, StoreKeeps
<1>6. ASSUME NEW k \in Episodes, NEW d \in Offered[k], NEW p \in Copies(k), HasText(p),
             NEW j \in DOMAIN rows[p].links, Link(k, j, rows[p].links, d)
      PROVE  Inv'
  <2>1. PICK r, table : Table(table) /\ Linking(k, j, d, r, table)
    BY <1>6, LinkedIs DEF Inv
  <2>2. QED
    BY <1>6, <2>1, LinkKeeps DEF Link
<1>7. QED
  BY <1>1, <1>2, <1>3, <1>4, <1>5, <1>6, StepIs

(* Erasing reaches everything, whatever the order of deliveries, late      *)
(* links, erasures, crashes and writes of another process: no stored turn  *)
(* rests on something erased, at any distance, and no answer that may be   *)
(* repeated shows an erased turn, but for the named exceptions.            *)
THEOREM ErasureReaches == Spec => []ErasureHolds
<1>1. Init => Inv
  BY Starts
<1>2. Inv /\ [Next]_vars => Inv'
  BY InvKept
<1>3. Inv => ErasureHolds
  BY DEF Inv
<1>4. QED
  BY <1>1, <1>2, <1>3, PTL DEF Spec

(* What is stored stays well-formed, and is stored after it was accepted. *)
THEOREM InteractionsTyping == Spec => [](Typed /\ Started)
<1>1. Init => Inv
  BY Starts
<1>2. Inv /\ [Next]_vars => Inv'
  BY InvKept
<1>3. Inv => Typed /\ Started
  BY DEF Inv
<1>4. QED
  BY <1>1, <1>2, <1>3, PTL DEF Spec

LEMMA Two ==
  ASSUME NEW S \in SUBSET Row, Cardinality(S) > 1 PROVE \E r \in S : \E q \in S : r # q
<1> SUFFICES ASSUME \A r \in S : \A q \in S : r = q PROVE FALSE
  OBVIOUS
<1>1. CASE S = {}
  BY <1>1, FS_EmptySet
<1>2. CASE S # {}
  <2>1. PICK r \in S : TRUE
    BY <1>2
  <2>2. S = {r}
    BY <2>1
  <2>3. Cardinality(S) = 1
    BY <2>2, FS_Singleton
  <2>4. QED
    BY <2>3
<1>3. QED
  BY <1>1, <1>2

(* One step leaves nothing of a conversation it erases. *)
ConversationStep ==
  \A c \in {Conv[k] : k \in Episodes} :
    (\A r \in RowsOf(c) : rows'[r] = Wiped) /\ EraseConversation(c) =>
    \A k \in {q \in Episodes : Conv[q] = c} :
      /\ \A r \in Copies(k) : rows'[r] \in {Nothing, Wiped}
      /\ k \notin commitments'
      /\ \A e \in Said[k] : ev'[e] \in {"live", "forgotten"} =>
           job[k] # "open" /\ (ev[e] = "forgotten" \/ (\A r \in Copies(k) : rows[r] = Nothing))

LEMMA ConversationStepHolds == Inv => ConversationStep
<1> SUFFICES ASSUME Inv, NEW c, EraseConversation(c), NEW k \in Episodes, Conv[k] = c
             PROVE  /\ \A r \in Copies(k) : rows'[r] \in {Nothing, Wiped}
                    /\ k \notin commitments'
                    /\ \A e \in Said[k] : ev'[e] \in {"live", "forgotten"} =>
                         job[k] # "open" /\ (ev[e] = "forgotten" \/ (\A r \in Copies(k) : rows[r] = Nothing))
  BY DEF ConversationStep
<1> USE DEF Inv
<1>1. Erasing(Reached(c), RowsOf(c)) /\ \A q \in commitments' : Conv[q] # c
  BY ConversationErases
<1>2. ASSUME NEW r \in Copies(k) PROVE rows'[r] \in {Nothing, Wiped}
  <2>1. r \in Row /\ r[1] = k
    BY DEF Copies
  <2>2. RowsOf(c) \in SUBSET Row
    BY DEF RowsOf
  <2>3. /\ r \in RowsOf(c) => rows'[r] = Wiped
        /\ r \notin RowsOf(c) /\ ~HasText(r) => rows'[r] = rows[r]
    BY <1>1, <2>1, <2>2, ErasingRows
  <2>4. r \notin RowsOf(c) => rows[r] = Nothing /\ ~HasText(r)
    BY <2>1 DEF RowsOf, HasText, Nothing
  <2>5. QED
    BY <2>3, <2>4
<1>3. ASSUME NEW e \in Said[k], ev'[e] \in {"live", "forgotten"}
      PROVE  job[k] # "open" /\ (ev[e] = "forgotten" \/ (\A r \in Copies(k) : rows[r] = Nothing))
  <2>1. e \in Evid
    BY DataAssumption
  <2>2. e \notin Reached(c) /\ ev[e] \in {"live", "forgotten"}
    BY <1>1, <1>3, <2>1 DEF Erasing
  <2>3. job[k] # "open"
    BY <2>1, <2>2 DEF Reached
  <2>4. ASSUME Live(e), NEW r \in Copies(k) PROVE rows[r] = Nothing
    <3>1. r \in Row /\ r[1] = k /\ rows[r] \in Forms(r)
      BY DEF Copies, Typed, Table
    <3>2. rows[r] # Wiped /\ (rows[r].form = "marker" => e \in rows[r].kept)
      BY <2>4, <3>1 DEF Marked
    <3>3. ~HasText(r) /\ ~(rows[r].form = "marker" /\ e \in rows[r].kept)
      BY <2>1, <2>2, <2>4 DEF Reached
    <3>4. QED
      BY <3>1, <3>2, <3>3, FormIs DEF HasText
  <2>5. QED
    BY <2>2, <2>3, <2>4 DEF Live
<1>4. QED
  BY <1>1, <1>2, <1>3

(* A link is for good, and a second copy comes from a mixed delivery. *)
LinksStep ==
  /\ \A r \in Row : HasText(r) /\ rows'[r].form = "text" =>
       \A j \in DOMAIN rows[r].links :
         rows[r].links[j] # Unlinked => rows'[r].links[j] = rows[r].links[j]
  /\ \A k \in Episodes :
       Cardinality({r \in Copies(k) : rows'[r].form = "text"}) > 1 =>
         LET d == sent[k].links IN
         /\ \E j \in DOMAIN d : d[j] = Unlinked
         /\ \E j \in DOMAIN d : d[j] # Unlinked

LEMMA LinksStepHolds == Inv /\ [Next]_vars => LinksStep
<1> SUFFICES ASSUME Inv, [Next]_vars PROVE LinksStep
  OBVIOUS
<1> DEFINE Kept == \A r \in Row : HasText(r) /\ rows'[r].form = "text" =>
                     \A j \in DOMAIN rows[r].links :
                       rows[r].links[j] # Unlinked => rows'[r].links[j] = rows[r].links[j]
<1> USE DEF Inv
<1>1. ASSUME NEW es, NEW wiped, Erases(es, wiped) PROVE Kept /\ sent' = sent
  <2>1. wiped \in SUBSET Row /\ Erasing(es, wiped) /\ sent' = sent
    BY <1>1 DEF Erases
  <2>2. \A r \in Row : rows'[r].form = "text" => rows'[r] = rows[r]
    BY <2>1, ErasingRows
  <2>3. QED
    BY <2>1, <2>2
<1>2. ASSUME NEW k \in Episodes, Accept(k) PROVE rows' = rows
  BY <1>2 DEF Accept
<1>3. ASSUME NEW k \in Episodes, Store(k) PROVE Kept /\ sent' = sent
  <2>1. Table(StoredRows(k)) /\ \A r \in Row : HasText(r) => StoredRows(k)[r] = rows[r]
    BY <1>3, StoredIs DEF HasText, Nothing
  <2>2. rows' = RedactedWith(StoredRows(k), Rechecked(k)) /\ sent' = sent
    BY <1>3 DEF Store
  <2>3. \A r \in Row : rows'[r].form = "text" => rows'[r] = StoredRows(k)[r]
    BY <2>1, <2>2, FilledRows
  <2>4. QED
    BY <2>1, <2>2, <2>3
<1>4. ASSUME NEW k \in Episodes, NEW d \in Offered[k], NEW p \in Copies(k), HasText(p),
             NEW j \in DOMAIN rows[p].links, Link(k, j, rows[p].links, d)
      PROVE  Kept /\ sent' = sent
  <2>1. PICK r, table : Table(table) /\ Linking(k, j, d, r, table)
    BY <1>4, LinkedIs
  <2>2. QED
    BY <1>4, <2>1, LinkKeeps DEF Link
<1>5. \/ rows' = rows
      \/ Kept /\ sent' = sent
  <2>1. Aside => rows' = rows
    BY DEF Aside
  <2>2. ASSUME NEW e \in Evid, DeleteEvidence(e) PROVE Kept /\ sent' = sent
    BY <1>1, <2>2, DeletingIs
  <2>3. ASSUME NEW c, EraseConversation(c) PROVE Kept /\ sent' = sent
    BY <1>1, <2>3, ErasingConversationIs
  <2> HIDE DEF Kept
  <2>4. QED
    BY <1>2, <1>3, <1>4, <2>1, <2>2, <2>3, StepIs
<1>6. ASSUME NEW k \in Episodes, NEW r \in Row, NEW q \in Row, r # q, r[1] = k, q[1] = k,
             rows'[r].form = "text", rows'[q].form = "text"
      PROVE  Mixed(sent[k].links)
  <2>1. Single /\ Single'
    BY InvKept
  <2>2. CASE rows' = rows
    BY <1>6, <2>1, <2>2 DEF Single, HasText
  <2>3. CASE sent' = sent
    BY <1>6, <2>1, <2>3 DEF Single, HasText
  <2>4. QED
    BY <1>5, <2>2, <2>3
<1>7. ASSUME NEW k \in Episodes, Cardinality({r \in Copies(k) : rows'[r].form = "text"}) > 1
      PROVE  Mixed(sent[k].links)
  <2> DEFINE S == {r \in Copies(k) : rows'[r].form = "text"}
  <2>1. S \in SUBSET Row /\ \A r \in S : r[1] = k /\ rows'[r].form = "text"
    BY DEF Copies
  <2>2. Cardinality(S) > 1
    BY <1>7
  <2> HIDE DEF S
  <2>3. PICK r \in S, q \in S : r # q
    BY <2>1, <2>2, Two
  <2>4. QED
    BY <1>6, <2>1, <2>3
<1>8. Kept
  BY <1>5
<1>9. QED
  BY <1>7, <1>8 DEF LinksStep, Mixed

(* A conversation goes whole when it is erased, and until then a stored    *)
(* turn keeps its links and is stored once.                                *)
THEOREM TurnsStay == Spec => TurnsHold
<1>1. Init => Inv
  BY Starts
<1>2. Inv /\ [Next]_vars => Inv'
  BY InvKept
<1>3. Inv /\ [Next]_vars => ConversationStep
  BY ConversationStepHolds
<1>4. Inv /\ [Next]_vars => LinksStep
  BY LinksStepHolds
<1>5. Spec => [][ConversationStep]_vars
  BY <1>1, <1>2, <1>3, PTL DEF Spec
<1>6. Spec => [][LinksStep]_vars
  BY <1>1, <1>2, <1>4, PTL DEF Spec
<1>7. [][ConversationStep]_vars => ConversationGone
  BY DEF ConversationGone, ConversationStep
<1>8. [][LinksStep]_vars => LinksHold
  BY DEF LinksHold, LinksStep
<1>9. QED
  BY <1>5, <1>6, <1>7, <1>8 DEF TurnsHold

-----------------------------------------------------------------------------
(* The walk.  What its recursive definitions are.                          *)

(* The rows a row leads to. *)
Inters(d) == {d.inters[n] : n \in DOMAIN d.inters}
Kids(q) == UNION {Inters(rows[q].links[i]) : i \in DOMAIN rows[q].links}

(* A table of walks: from what was settled, through rows, on a path. *)
Walks == [Calls -> Progress]

(* The capture of one reply, after the captures before it. *)
Capturing(x, d, path, t, deeper) ==
  IF d.status = "complete"
  THEN [deeper[<<x, d.inters, path>>] EXCEPT !.ok = @ /\ \A y \in d.items : SourceVisible(y, t)]
  ELSE [x EXCEPT !.ok = @ /\ d.status = "complete_empty"]

LEMMA ProgressIs ==
  ASSUME NEW s \in Progress
  PROVE  s.ok \in BOOLEAN /\ s.memo \in SUBSET (Row \X BOOLEAN) /\ s.seen \in SUBSET Row
BY DEF Progress

LEMMA OkIs ==
  ASSUME NEW s \in Progress, NEW b \in BOOLEAN, NEW c, c = [s EXCEPT !.ok = b]
  PROVE  c \in Progress /\ c.ok = b /\ c.memo = s.memo /\ c.seen = s.seen
BY DEF Progress

LEMMA LinksAre ==
  ASSUME Typed, NEW r \in Row
  PROVE  /\ LinksOf(r) \in Seq([status: Statuses \cup {"none"}, items: SUBSET (Evid \cup Items), inters: Seq(Row)])
         /\ DOMAIN LinksOf(r) = 1 .. Len(LinksOf(r)) /\ Len(LinksOf(r)) \in Nat
         /\ HasText(r) => LinksOf(r) = rows[r].links /\ rows[r].links \in Links(r[1])
         /\ Len(LinksOf(r)) > 0 => HasText(r)
<1> DEFINE D == [status: Statuses \cup {"none"}, items: SUBSET (Evid \cup Items), inters: Seq(Row)]
<1>1. r[1] \in Episodes /\ Replies[r[1]] \in Nat
  BY RowIs, DataAssumption
<1>2. HasText(r) => rows[r].links \in Links(r[1])
  BY FormIs DEF Typed, Table, HasText
<1>3. Unlinked \in D
  <2>1. <<>> \in Seq(Row) /\ {} \in SUBSET (Evid \cup Items)
    OBVIOUS
  <2>2. QED
    BY <2>1 DEF Unlinked
<1>4. ASSUME NEW d \in Offered[r[1]] PROVE d \in D
  <2>1. d \in [status: Statuses, items: SUBSET (Evid \cup Items), inters: Seq(Row)]
    BY <1>1, CaptureAssumption
  <2>2. QED
    BY <2>1
<1>5. Links(r[1]) \subseteq [1 .. Replies[r[1]] -> D]
  BY <1>3, <1>4 DEF Links
<1> HIDE DEF D
<1>6. ASSUME NEW f \in [1 .. Replies[r[1]] -> D] PROVE f \in Seq(D) /\ Len(f) = Replies[r[1]]
  BY <1>1
<1>7. CASE HasText(r)
  <2>1. rows[r].links \in Seq(D)
    BY <1>2, <1>5, <1>6, <1>7
  <2>2. LinksOf(r) = rows[r].links
    BY <1>7 DEF LinksOf
  <2>3. QED
    BY <1>2, <1>7, <2>1, <2>2 DEF D
<1>8. CASE ~HasText(r)
  <2>1. LinksOf(r) = <<>>
    BY <1>8 DEF LinksOf
  <2>2. QED
    BY <1>8, <2>1 DEF D
<1>9. QED
  BY <1>7, <1>8

LEMMA CaptureIs ==
  ASSUME Typed, NEW r \in Row, NEW j \in 1 .. Len(LinksOf(r)), NEW d, d = LinksOf(r)[j]
  PROVE  /\ d.items \in SUBSET (Evid \cup Items) /\ d.inters \in Seq(Row)
         /\ Inters(d) \subseteq Kids(r) /\ Inters(d) \subseteq Row
         /\ d.status # "complete" => Inters(d) = {}
<1>1. d \in [status: Statuses \cup {"none"}, items: SUBSET (Evid \cup Items), inters: Seq(Row)]
  <2> DEFINE D == [status: Statuses \cup {"none"}, items: SUBSET (Evid \cup Items), inters: Seq(Row)]
             q == LinksOf(r)
  <2>1. q \in Seq(D) /\ j \in 1 .. Len(q) /\ d = q[j]
    BY LinksAre
  <2> HIDE DEF D, q
  <2>2. d \in D
    BY <2>1
  <2>3. QED
    BY <2>2 DEF D
<1>2. d.items \in SUBSET (Evid \cup Items) /\ d.inters \in Seq(Row)
  BY <1>1
<1>3. HasText(r) /\ LinksOf(r) = rows[r].links /\ j \in DOMAIN rows[r].links /\ rows[r].links \in Links(r[1])
  BY LinksAre
<1>4. Inters(d) \subseteq Kids(r)
  BY <1>3 DEF Kids
<1>5. Inters(d) \subseteq Row
  BY <1>2 DEF Inters
<1>6. ASSUME d.status # "complete" PROVE Inters(d) = {}
  <2>1. r[1] \in Episodes /\ d \in Offered[r[1]] \cup {Unlinked}
    BY <1>3, RowIs, LinkIs
  <2>2. d.inters = <<>>
    BY <1>6, <2>1, CaptureAssumption DEF Unlinked
  <2>3. QED
    BY <2>2 DEF Inters
<1>7. QED
  BY <1>2, <1>4, <1>5, <1>6

(* What y is after one capture. *)
CapturedIn(y, x, d, path, t, deeper) ==
  LET z == IF d.status = "complete" THEN deeper[<<x, d.inters, path>>] ELSE x
  IN z \in Progress /\ y.memo = z.memo /\ y.seen = z.seen /\ (y.ok <=> z.ok /\ Captured(d, t))

LEMMA CapturingIs ==
  ASSUME Typed, NEW r \in Row, NEW j \in 1 .. Len(LinksOf(r)), NEW d, d = LinksOf(r)[j],
         NEW x \in Progress, NEW path \in SUBSET Row, NEW t, NEW deeper \in Walks,
         NEW y, y = Capturing(x, d, path, t, deeper)
  PROVE  y \in Progress /\ CapturedIn(y, x, d, path, t, deeper)
<1>1. d.inters \in Seq(Row)
  BY CaptureIs
<1>2. CASE d.status = "complete"
  <2> DEFINE z == deeper[<<x, d.inters, path>>]
             b == z.ok /\ \A v \in d.items : SourceVisible(v, t)
  <2>1. z \in Progress
    BY <1>1 DEF Walks, Calls
  <2>2. y = [z EXCEPT !.ok = b]
    BY <1>2 DEF Capturing
  <2>3. z.ok \in BOOLEAN
    BY <2>1, ProgressIs
  <2>4. b \in BOOLEAN
    OBVIOUS
  <2>5. b <=> z.ok /\ Captured(d, t)
    BY <1>2 DEF Captured
  <2> HIDE DEF z, b
  <2>6. y \in Progress /\ y.ok = b /\ y.memo = z.memo /\ y.seen = z.seen
    BY <2>1, <2>2, <2>4, OkIs
  <2>7. QED
    BY <1>2, <2>1, <2>5, <2>6 DEF CapturedIn, z
<1>3. CASE d.status # "complete"
  <2> DEFINE b == x.ok /\ d.status = "complete_empty"
  <2>1. y = [x EXCEPT !.ok = b]
    BY <1>3 DEF Capturing, Progress
  <2>2. b \in BOOLEAN
    OBVIOUS
  <2>3. b <=> x.ok /\ Captured(d, t)
    BY <1>3 DEF Captured
  <2> HIDE DEF b
  <2>4. y \in Progress /\ y.ok = b /\ y.memo = x.memo /\ y.seen = x.seen
    BY <2>1, <2>2, OkIs
  <2>5. QED
    BY <1>3, <2>3, <2>4 DEF CapturedIn
<1>4. QED
  BY <1>2, <1>3

(* The captures of a row, one after another. *)
Through(c, y, s, r, visiting, t, deeper) ==
  LET N == Len(LinksOf(r)) IN
  /\ c \in [0 .. N -> Progress] /\ y = c[N]
  /\ c[0].memo = s.memo /\ c[0].seen = s.seen /\ (c[0].ok <=> N > 0)
  /\ \A j \in 1 .. N : c[j] = Capturing(c[j - 1], LinksOf(r)[j], visiting \cup {r}, t, deeper)

LEMMA ChildrenAre ==
  ASSUME Typed, NEW s \in Progress, NEW r \in Row, NEW visiting \in SUBSET Row, NEW t, NEW deeper \in Walks,
         NEW y, y = Children(s, r, visiting, t, deeper)
  PROVE  \E c : Through(c, y, s, r, visiting, t, deeper)
<1> DEFINE N == Len(LinksOf(r))
           s0 == [s EXCEPT !.ok = N > 0]
           path == visiting \cup {r}
           L(j) == LinksOf(r)[j]
           After0(x, j) == Capturing(x, L(j), path, t, deeper)
           F == [p \in Nat \X Progress |-> IF p[1] \in 1 .. N THEN After0(p[2], p[1]) ELSE s0]
           Next0(c, j) == IF j = 0 THEN s0
                          ELSE IF L(j).status = "complete"
                               THEN [deeper[<<c[j - 1], L(j).inters, path>>]
                                       EXCEPT !.ok = @ /\ \A x \in L(j).items : SourceVisible(x, t)]
                               ELSE [c[j - 1] EXCEPT !.ok = @ /\ L(j).status = "complete_empty"]
           R == CHOOSE c : c = [j \in 0 .. N |-> Next0(c, j)]
<1>1. N \in Nat /\ path \in SUBSET Row
  BY LinksAre
<1>2. s0 \in Progress /\ s0.memo = s.memo /\ s0.seen = s.seen /\ (s0.ok <=> N > 0)
  <2> DEFINE b == N > 0
  <2>1. b \in BOOLEAN
    OBVIOUS
  <2>2. s0 = [s EXCEPT !.ok = b]
    OBVIOUS
  <2> HIDE DEF s0, b
  <2>3. s0 \in Progress /\ s0.memo = s.memo /\ s0.seen = s.seen /\ s0.ok = b
    BY <2>1, <2>2, OkIs
  <2>4. QED
    BY <2>3 DEF b
<1>3. y = R[N]
  BY DEF Children
<1>4. \A x \in Progress : \A j \in 1 .. N : After0(x, j) \in Progress
  BY <1>1, CapturingIs
<1>5. \A c : \A j : j # 0 => Next0(c, j) = After0(c[j - 1], j)
  BY DEF Capturing
<1>6. \A c : Next0(c, 0) = s0
  OBVIOUS
<1> HIDE DEF s0, path, N, After0, Next0
<1>7. F \in [Nat \X Progress -> Progress] /\ \A j \in 1 .. N : \A x \in Progress : F[<<j, x>>] = After0(x, j)
  BY <1>1, <1>2, <1>4
<1> HIDE DEF F
<1>8. PICK g : Iteration(g, Progress, s0, F, N)
  BY <1>1, <1>2, <1>7, Iterates
<1>9. g \in [0 .. N -> Progress] /\ g[0] = s0 /\ \A j \in 1 .. N : g[j] = After0(g[j - 1], j)
  <2>1. g \in [0 .. N -> Progress] /\ g[0] = s0 /\ \A j \in 1 .. N : g[j] = F[<<j, g[j - 1]>>]
    BY <1>8 DEF Iteration
  <2>2. \A j \in 1 .. N : j - 1 \in 0 .. N
    BY <1>1
  <2>3. \A j \in 1 .. N : g[j - 1] \in Progress
    BY <2>1, <2>2
  <2>4. QED
    BY <1>7, <2>1, <2>3
<1>10. g = [j \in 0 .. N |-> Next0(g, j)]
  <2>1. ASSUME NEW j \in 0 .. N PROVE g[j] = Next0(g, j)
    <3>1. CASE j = 0
      BY <1>6, <1>9, <3>1
    <3>2. CASE j # 0
      <4>1. j \in 1 .. N
        BY <1>1, <3>2
      <4>2. QED
        BY <1>5, <1>9, <3>2, <4>1
    <3>3. QED
      BY <3>1, <3>2
  <2>2. QED
    BY <1>9, <2>1
<1>11. R = [j \in 0 .. N |-> Next0(R, j)]
  BY <1>10
<1> HIDE DEF R
<1>12. /\ R[0] = s0
       /\ \A j \in 1 .. N : R[j] = After0(R[j - 1], j)
  <2>1. R[0] = s0
    BY <1>1, <1>6, <1>11
  <2>2. ASSUME NEW j \in 1 .. N PROVE R[j] = After0(R[j - 1], j)
    <3>1. j \in 0 .. N /\ j # 0
      BY <1>1
    <3>2. QED
      BY <1>5, <1>11, <3>1
  <2>3. QED
    BY <2>1, <2>2
<1>13. \A j \in 0 .. N : R[j] \in Progress
  <2> DEFINE U == {j \in Nat : j <= N => R[j] \in Progress}
  <2>1. 0 \in U
    BY <1>2, <1>12
  <2>2. ASSUME NEW n \in Nat, n \in U PROVE n + 1 \in U
    <3>1. SUFFICES ASSUME n + 1 <= N PROVE R[n + 1] \in Progress
      OBVIOUS
    <3>2. R[n] \in Progress /\ n + 1 \in 1 .. N /\ (n + 1) - 1 = n
      BY <1>1, <2>2, <3>1
    <3>3. QED
      BY <1>4, <1>12, <3>2
  <2>3. Nat \subseteq U
    <3> HIDE DEF U
    <3>1. QED
      BY <2>1, <2>2, Counting
  <2>4. QED
    BY <1>1, <2>3
<1>14. R \in [0 .. N -> Progress]
  BY <1>11, <1>13
<1>15. Through(R, y, s, r, visiting, t, deeper)
  BY <1>2, <1>3, <1>12, <1>14 DEF Through, N, path, After0
<1>16. QED
  BY <1>15

LEMMA VisitIs ==
  ASSUME Typed, NEW s \in Progress, NEW r \in Row, NEW depth \in Nat, NEW visiting \in SUBSET Row, NEW t,
         NEW deeper, deeper \in Walks \/ TooDeep(depth)
  PROVE  /\ Visit(s, r, depth, visiting, t, deeper) \in Progress
         /\ TooDeep(depth) => Visit(s, r, depth, visiting, t, deeper) = Failed(s)
<1> DEFINE met == [s EXCEPT !.seen = @ \cup {r}]
           done == Children(met, r, visiting, t, deeper)
<1>1. met \in Progress
  BY DEF Progress
<1>2. Failed(s) \in Progress /\ Failed(met) \in Progress
  BY <1>1 DEF Failed, Progress
<1>3. [s EXCEPT !.ok = @ /\ <<r, TRUE>> \in s.memo] \in Progress
  BY DEF Progress
<1>4. ASSUME deeper \in Walks
      PROVE  [done EXCEPT !.memo = @ \cup {<<r, done.ok>>}, !.ok = @ /\ s.ok] \in Progress
  <2> HIDE DEF met
  <2>1. done \in Progress
    <3>1. PICK c : Through(c, done, met, r, visiting, t, deeper)
      BY <1>1, <1>4, ChildrenAre
    <3>2. Len(LinksOf(r)) \in 0 .. Len(LinksOf(r))
      BY LinksAre
    <3>3. QED
      BY <3>1, <3>2 DEF Through
  <2> HIDE DEF done
  <2> DEFINE b == done.ok /\ s.ok
             m == done.memo \cup {<<r, done.ok>>}
  <2>2. b \in BOOLEAN
    OBVIOUS
  <2>3. m \in SUBSET (Row \X BOOLEAN)
    BY <2>1, ProgressIs
  <2> HIDE DEF b, m
  <2>4. [done EXCEPT !.memo = m, !.ok = b] \in Progress
    BY <2>1, <2>2, <2>3 DEF Progress
  <2>5. QED
    BY <2>4 DEF b, m
<1> HIDE DEF met, done
<1>5. QED
  BY <1>2, <1>3, <1>4 DEF Visit, met, done

(* One level of the walk: through rows, one after another. *)
Level(depth, deeper, t) ==
  [call \in Calls |->
     LET refs == call[2]
         along[n \in 0 .. Len(refs)] ==
           IF n = 0 THEN call[1]
           ELSE Visit(along[n - 1], refs[n], depth, call[3], t, deeper)
     IN along[Len(refs)]]

(* A visit of each row, from s to a. *)
Along(a, s, refs, depth, visiting, t, deeper) ==
  /\ a \in [0 .. Len(refs) -> Progress] /\ a[0] = s
  /\ \A n \in 1 .. Len(refs) : a[n] = Visit(a[n - 1], refs[n], depth, visiting, t, deeper)

LEMMA AlongIs ==
  ASSUME Typed, NEW s \in Progress, NEW refs \in Seq(Row), NEW depth \in Nat, NEW visiting \in SUBSET Row, NEW t,
         NEW deeper, deeper \in Walks \/ TooDeep(depth)
  PROVE  \E a : /\ Along(a, s, refs, depth, visiting, t, deeper)
                /\ Level(depth, deeper, t)[<<s, refs, visiting>>] = a[Len(refs)]
<1> DEFINE N == Len(refs)
           V(x, n) == Visit(x, refs[n], depth, visiting, t, deeper)
           F == [p \in Nat \X Progress |-> IF p[1] \in 1 .. N THEN V(p[2], p[1]) ELSE s]
           R == CHOOSE a : a = [n \in 0 .. N |-> IF n = 0 THEN s ELSE V(a[n - 1], n)]
<1>1. N \in Nat /\ \A n \in 1 .. N : refs[n] \in Row
  OBVIOUS
<1>2. Level(depth, deeper, t)[<<s, refs, visiting>>] = R[N]
  <2> DEFINE call == <<s, refs, visiting>>
  <2>1. call \in Calls /\ call[1] = s /\ call[2] = refs /\ call[3] = visiting
    BY DEF Calls
  <2> HIDE DEF call
  <2>2. Level(depth, deeper, t)[call] = R[N]
    BY <2>1 DEF Level
  <2>3. QED
    BY <2>2 DEF call
<1>3. \A x \in Progress : \A n \in 1 .. N : V(x, n) \in Progress
  BY <1>1, VisitIs
<1> HIDE DEF N, V
<1>4. F \in [Nat \X Progress -> Progress] /\ \A n \in 1 .. N : \A x \in Progress : F[<<n, x>>] = V(x, n)
  BY <1>1, <1>3
<1> HIDE DEF F
<1>5. PICK g : Iteration(g, Progress, s, F, N)
  BY <1>1, <1>4, Iterates
<1>6. g \in [0 .. N -> Progress] /\ g[0] = s /\ \A n \in 1 .. N : g[n] = V(g[n - 1], n)
  <2>1. g \in [0 .. N -> Progress] /\ g[0] = s /\ \A n \in 1 .. N : g[n] = F[<<n, g[n - 1]>>]
    BY <1>5 DEF Iteration
  <2>2. \A n \in 1 .. N : n - 1 \in 0 .. N
    BY <1>1
  <2>3. \A n \in 1 .. N : g[n - 1] \in Progress
    BY <2>1, <2>2
  <2>4. QED
    BY <1>4, <2>1, <2>3
<1>7. g = [n \in 0 .. N |-> IF n = 0 THEN s ELSE V(g[n - 1], n)]
  <2>1. ASSUME NEW n \in 0 .. N PROVE g[n] = IF n = 0 THEN s ELSE V(g[n - 1], n)
    <3>1. n # 0 => n \in 1 .. N
      BY <1>1
    <3>2. QED
      BY <1>6, <3>1
  <2>2. QED
    BY <1>6, <2>1
<1>8. R = [n \in 0 .. N |-> IF n = 0 THEN s ELSE V(R[n - 1], n)]
  BY <1>7
<1> HIDE DEF R
<1>9. R[0] = s /\ \A n \in 1 .. N : R[n] = V(R[n - 1], n)
  <2>1. R[0] = s
    BY <1>1, <1>8
  <2>2. ASSUME NEW n \in 1 .. N PROVE R[n] = V(R[n - 1], n)
    <3>1. n \in 0 .. N /\ n # 0
      BY <1>1
    <3>2. QED
      BY <1>8, <3>1
  <2>3. QED
    BY <2>1, <2>2
<1>10. \A n \in 0 .. N : R[n] \in Progress
  <2> DEFINE U == {n \in Nat : n <= N => R[n] \in Progress}
  <2>1. 0 \in U
    BY <1>9
  <2>2. ASSUME NEW n \in Nat, n \in U PROVE n + 1 \in U
    <3>1. SUFFICES ASSUME n + 1 <= N PROVE R[n + 1] \in Progress
      OBVIOUS
    <3>2. R[n] \in Progress /\ n + 1 \in 1 .. N /\ (n + 1) - 1 = n
      BY <1>1, <2>2, <3>1
    <3>3. QED
      BY <1>3, <1>9, <3>2
  <2>3. Nat \subseteq U
    <3> HIDE DEF U
    <3>1. QED
      BY <2>1, <2>2, Counting
  <2>4. QED
    BY <1>1, <2>3
<1>11. R \in [0 .. N -> Progress]
  BY <1>8, <1>10
<1>12. Along(R, s, refs, depth, visiting, t, deeper)
  BY <1>9, <1>11 DEF Along, N, V
<1>13. QED
  BY <1>2, <1>12 DEF N

LEMMA LevelIs ==
  ASSUME Typed, NEW depth \in Nat, NEW t, NEW deeper, deeper \in Walks \/ TooDeep(depth)
  PROVE  Level(depth, deeper, t) \in Walks
<1>1. ASSUME NEW s \in Progress, NEW refs \in Seq(Row), NEW visiting \in SUBSET Row
      PROVE  Level(depth, deeper, t)[<<s, refs, visiting>>] \in Progress
  <2>1. deeper \in Walks \/ TooDeep(depth)
    OBVIOUS
  <2>2. PICK a : /\ Along(a, s, refs, depth, visiting, t, deeper)
                 /\ Level(depth, deeper, t)[<<s, refs, visiting>>] = a[Len(refs)]
    BY <1>1, <2>1, AlongIs
  <2>3. a \in [0 .. Len(refs) -> Progress]
    BY <2>2 DEF Along
  <2>4. Len(refs) \in 0 .. Len(refs)
    OBVIOUS
  <2>5. QED
    BY <2>2, <2>3, <2>4
<1>2. \E f : Level(depth, deeper, t) = [call \in Calls |-> f[call]]
  <2>1. Level(depth, deeper, t) = [call \in Calls |-> Level(depth, deeper, t)[call]]
    BY DEF Level
  <2>2. QED
    BY <2>1
<1> DEFINE F == Level(depth, deeper, t)
<1> HIDE DEF F
<1>3. ASSUME NEW call \in Calls PROVE F[call] \in Progress
  <2>1. PICK s \in Progress, refs \in Seq(Row), visiting \in SUBSET Row : call = <<s, refs, visiting>>
    BY DEF Calls
  <2>2. QED
    BY <1>1, <2>1 DEF F
<1>4. F \in Walks
  BY <1>2, <1>3 DEF Walks, F
<1>5. QED
  BY <1>4 DEF F

LEMMA LowestIs ==
  ASSUME Typed, NEW depth \in Nat, TooDeep(depth), NEW t, NEW f, NEW g
  PROVE  Level(depth, f, t) = Level(depth, g, t)
<1> DEFINE F == Level(depth, f, t)
           G == Level(depth, g, t)
<1>1. F = [call \in Calls |-> F[call]] /\ G = [call \in Calls |-> G[call]]
  BY DEF Level
<1> HIDE DEF F, G
<1>2. ASSUME NEW call \in Calls PROVE F[call] = G[call]
  <2>1. PICK s \in Progress, refs \in Seq(Row), visiting \in SUBSET Row : call = <<s, refs, visiting>>
    BY DEF Calls
  <2>2. PICK a : Along(a, s, refs, depth, visiting, t, f) /\ Level(depth, f, t)[<<s, refs, visiting>>] = a[Len(refs)]
    BY AlongIs
  <2>3. PICK b : Along(b, s, refs, depth, visiting, t, g) /\ Level(depth, g, t)[<<s, refs, visiting>>] = b[Len(refs)]
    BY AlongIs
  <2> DEFINE U == {n \in Nat : n <= Len(refs) => a[n] = b[n]}
  <2>4. 0 \in U
    BY <2>2, <2>3 DEF Along
  <2>5. ASSUME NEW n \in Nat, n \in U PROVE n + 1 \in U
    <3>1. SUFFICES ASSUME n + 1 <= Len(refs) PROVE a[n + 1] = b[n + 1]
      OBVIOUS
    <3>2. a[n] = b[n] /\ n \in 0 .. Len(refs) /\ n + 1 \in 1 .. Len(refs) /\ (n + 1) - 1 = n
      BY <2>5, <3>1
    <3>3. a[n] \in Progress /\ refs[n + 1] \in Row
      BY <2>2, <3>2 DEF Along
    <3>4. /\ Visit(a[n], refs[n + 1], depth, visiting, t, f) = Failed(a[n])
          /\ Visit(a[n], refs[n + 1], depth, visiting, t, g) = Failed(a[n])
      BY <3>3, VisitIs
    <3>5. QED
      BY <2>2, <2>3, <3>2, <3>4 DEF Along
  <2>6. Len(refs) \in U
    <3> HIDE DEF U
    <3>1. Len(refs) \in Nat
      OBVIOUS
    <3>2. QED
      BY <2>4, <2>5, <3>1, Counting
  <2>7. a[Len(refs)] = b[Len(refs)]
    BY <2>6
  <2>8. QED
    BY <2>1, <2>2, <2>3, <2>7 DEF F, G
<1>3. F = G
  BY <1>1, <1>2
<1>4. QED
  BY <1>3 DEF F, G

LEMMA WalkIs ==
  ASSUME Typed, NEW t
  PROVE  /\ Walk(t) \in [0 .. MaxDepth -> Walks]
         /\ \A depth \in 0 .. MaxDepth : Walk(t)[depth] = Level(depth, Walk(t)[depth + 1], t)
<1> DEFINE N == MaxDepth
           L(n, f) == Level(N - n, f, t)
           some == CHOOSE f : f \in Walks
           s0 == L(0, some)
           F == [p \in Nat \X Walks |-> IF p[1] \in 1 .. N THEN L(p[1], p[2]) ELSE s0]
           R == CHOOSE w : w = [depth \in 0 .. N |-> Level(depth, w[depth + 1], t)]
<1>1. N \in Nat /\ Walk(t) = R
  BY DataAssumption DEF Walk, Level
<1>2. TooDeep(N)
  BY <1>1 DEF TooDeep
<1>3. s0 \in Walks
  <2>1. N - 0 = N
    BY <1>1
  <2>2. QED
    BY <1>1, <1>2, <2>1, LevelIs
<1>4. \A n \in 0 .. N : \A f \in Walks : L(n, f) \in Walks
  <2>1. \A n \in 0 .. N : N - n \in Nat
    BY <1>1
  <2>2. QED
    BY <2>1, LevelIs
<1>5. \A f : L(0, f) = s0
  <2>1. N - 0 = N
    BY <1>1
  <2>2. QED
    BY <1>1, <1>2, <2>1, LowestIs
<1> HIDE DEF L, s0
<1>6. F \in [Nat \X Walks -> Walks] /\ \A n \in 1 .. N : \A f \in Walks : F[<<n, f>>] = L(n, f)
  <2>1. \A n \in 1 .. N : n \in 0 .. N /\ n \in Nat
    BY <1>1
  <2>2. QED
    BY <1>3, <1>4, <2>1
<1> HIDE DEF F
<1>7. PICK g : Iteration(g, Walks, s0, F, N)
  BY <1>1, <1>3, <1>6, Iterates
<1>8. g \in [0 .. N -> Walks] /\ g[0] = s0 /\ \A n \in 1 .. N : g[n] = L(n, g[n - 1])
  <2>1. g \in [0 .. N -> Walks] /\ g[0] = s0 /\ \A n \in 1 .. N : g[n] = F[<<n, g[n - 1]>>]
    BY <1>7 DEF Iteration
  <2>2. \A n \in 1 .. N : n - 1 \in 0 .. N
    BY <1>1
  <2>3. \A n \in 1 .. N : g[n - 1] \in Walks
    BY <2>1, <2>2
  <2>4. QED
    BY <1>6, <2>1, <2>3
<1> DEFINE w == [depth \in 0 .. N |-> g[N - depth]]
<1>9. w = [depth \in 0 .. N |-> Level(depth, w[depth + 1], t)]
  <2>1. ASSUME NEW depth \in 0 .. N PROVE w[depth] = Level(depth, w[depth + 1], t)
    <3>1. CASE depth = N
      <4>1. w[depth] = g[0]
        BY <1>1, <3>1
      <4>2. Level(depth, w[depth + 1], t) = L(0, w[depth + 1])
        BY <1>1, <3>1 DEF L
      <4> HIDE DEF w
      <4>3. QED
        BY <1>5, <1>8, <4>1, <4>2
    <3>2. CASE depth # N
      <4>1. /\ N - depth \in 1 .. N /\ depth + 1 \in 0 .. N /\ (N - depth) - 1 = N - (depth + 1)
            /\ N - (N - depth) = depth
        BY <1>1, <3>2
      <4>2. w[depth] = g[N - depth] /\ w[depth + 1] = g[(N - depth) - 1]
        BY <4>1
      <4> HIDE DEF w
      <4>3. QED
        BY <1>8, <4>1, <4>2 DEF L
    <3>3. QED
      BY <3>1, <3>2
  <2>2. QED
    BY <2>1
<1> HIDE DEF w
<1>10. R = [depth \in 0 .. N |-> Level(depth, R[depth + 1], t)]
  BY <1>9
<1> HIDE DEF R
<1>11. \A depth \in 0 .. N : R[depth] = Level(depth, R[depth + 1], t)
  BY <1>10
<1>12. \A depth \in 0 .. N : R[depth] \in Walks
  <2> DEFINE U == {n \in Nat : n <= N => R[N - n] \in Walks}
  <2>1. 0 \in U
    <3>1. N \in 0 .. N /\ N - 0 = N
      BY <1>1
    <3>2. R[N] = L(0, R[N + 1])
      BY <1>11, <3>1 DEF L
    <3>3. QED
      BY <1>3, <1>5, <3>1, <3>2
  <2>2. ASSUME NEW n \in Nat, n \in U PROVE n + 1 \in U
    <3>1. SUFFICES ASSUME n + 1 <= N PROVE R[N - (n + 1)] \in Walks
      OBVIOUS
    <3>2. R[N - n] \in Walks /\ N - (n + 1) \in 0 .. N /\ (N - (n + 1)) + 1 = N - n /\ n + 1 \in 0 .. N
      BY <1>1, <2>2, <3>1
    <3>3. R[N - (n + 1)] = L(n + 1, R[N - n])
      BY <1>11, <3>2 DEF L
    <3>4. QED
      BY <1>4, <3>2, <3>3
  <2>3. Nat \subseteq U
    <3> HIDE DEF U
    <3>1. QED
      BY <2>1, <2>2, Counting
  <2>4. ASSUME NEW depth \in 0 .. N PROVE R[depth] \in Walks
    <3>1. N - depth \in Nat /\ N - depth <= N /\ N - (N - depth) = depth
      BY <1>1
    <3>2. QED
      BY <2>3, <3>1
  <2>5. QED
    BY <2>4
<1>13. R \in [0 .. N -> Walks]
  BY <1>10, <1>12
<1>14. QED
  BY <1>1, <1>11, <1>13

-----------------------------------------------------------------------------
(* What is remembered as visible stands on itself: every such row may be   *)
(* shown, what it leads to is remembered too, and nothing leads to itself, *)
(* because a row is remembered after all that it leads to.                 *)
Upheld(q, t) ==
  /\ HasText(q) /\ ModelEligible(q[1], t) /\ DOMAIN rows[q].links # {}
  /\ \A i \in DOMAIN rows[q].links : Captured(rows[q].links[i], t)
Ranked(f, M) == \A q \in M : f[q] < Cardinality(M) /\ \A k \in Kids(q) : k \in M /\ f[k] < f[q]
Solid(M, t) == (\A q \in M : Upheld(q, t)) /\ \E f \in [Row -> Nat] : Ranked(f, M)

Cleared(s) == {q \in Row : <<q, TRUE>> \in s.memo}
Clean(s, path, t) == Solid(Cleared(s), t) /\ Cleared(s) \cap path = {}

(* From s to y, through the rows S. *)
Honest(s, y, S, path, t) ==
  /\ Clean(y, path, t) /\ Cleared(s) \subseteq Cleared(y)
  /\ y.ok => s.ok /\ S \subseteq Cleared(y)
HonestTable(f, t) ==
  \A s \in Progress, refs \in Seq(Row), visiting \in SUBSET Row :
    Clean(s, visiting, t) => Honest(s, f[<<s, refs, visiting>>], {refs[n] : n \in DOMAIN refs}, visiting, t)

LEMMA SolidStarts == ASSUME NEW t PROVE Solid({}, t)
<1>1. [q \in Row |-> 0] \in [Row -> Nat]
  OBVIOUS
<1>2. QED
  BY <1>1 DEF Solid, Ranked

LEMMA SolidGrows ==
  ASSUME NEW t, NEW M \in SUBSET Row, Solid(M, t), NEW r \in Row \ M, Upheld(r, t), Kids(r) \subseteq M
  PROVE  Solid(M \cup {r}, t)
<1>1. PICK f \in [Row -> Nat] : Ranked(f, M)
  BY DEF Solid
<1>2. /\ IsFiniteSet(M) /\ Cardinality(M) \in Nat
      /\ Cardinality(M \cup {r}) = Cardinality(M) + 1
  BY RowIsFinite, FS_Subset, FS_CardinalityType, FS_AddElement
<1> DEFINE n == Cardinality(M)
           m == Cardinality(M \cup {r})
           g == [q \in Row |-> IF q = r THEN n ELSE f[q]]
<1>3. n \in Nat /\ m = n + 1
  BY <1>2
<1>4. g \in [Row -> Nat] /\ g[r] = n /\ \A q \in M : g[q] = f[q] /\ f[q] \in Nat
  BY <1>3
<1>5. \A q \in M : f[q] < n /\ \A k \in Kids(q) : k \in M /\ f[k] < f[q]
  BY <1>1 DEF Ranked
<1> HIDE DEF n, m, g
<1>6. ASSUME NEW q \in M \cup {r} PROVE g[q] < m /\ \A k \in Kids(q) : k \in M \cup {r} /\ g[k] < g[q]
  <2>1. CASE q = r
    <3>1. \A k \in Kids(q) : k \in M /\ g[k] < n
      BY <1>4, <1>5, <2>1
    <3>2. QED
      BY <1>3, <1>4, <2>1, <3>1
  <2>2. CASE q \in M
    <3>1. g[q] = f[q] /\ f[q] \in Nat /\ f[q] < n
      BY <1>4, <1>5, <2>2
    <3>2. ASSUME NEW k \in Kids(q) PROVE k \in M /\ g[k] < g[q]
      BY <1>4, <1>5, <2>2, <3>1
    <3>3. QED
      BY <1>3, <3>1, <3>2
  <2>3. QED
    BY <2>1, <2>2
<1>7. Ranked(g, M \cup {r})
  BY <1>6 DEF Ranked, m
<1>8. \A q \in M \cup {r} : Upheld(q, t)
  BY DEF Solid
<1>9. QED
  BY <1>4, <1>7, <1>8 DEF Solid

LEMMA ClearedIs ==
  ASSUME NEW s, NEW y, s.memo = y.memo PROVE Cleared(s) = Cleared(y)
BY DEF Cleared

LEMMA CapturingSound ==
  ASSUME Typed, NEW r \in Row, NEW j \in 1 .. Len(LinksOf(r)), NEW d, d = LinksOf(r)[j],
         NEW x \in Progress, NEW path \in SUBSET Row, NEW t, NEW deeper \in Walks,
         HonestTable(deeper, t), Clean(x, path, t),
         NEW y, y = Capturing(x, d, path, t, deeper)
  PROVE  Honest(x, y, Inters(d), path, t) /\ (y.ok => Captured(d, t))
<1>1. d.inters \in Seq(Row) /\ (d.status # "complete" => Inters(d) = {})
  BY CaptureIs
<1>2. CapturedIn(y, x, d, path, t, deeper)
  BY CapturingIs
<1>3. CASE d.status = "complete"
  <2> DEFINE z == deeper[<<x, d.inters, path>>]
  <2>1. Honest(x, z, Inters(d), path, t)
    BY <1>1 DEF HonestTable, Inters
  <2>2. y.memo = z.memo /\ (y.ok <=> z.ok /\ Captured(d, t))
    BY <1>2, <1>3 DEF CapturedIn
  <2> HIDE DEF z
  <2>3. Cleared(y) = Cleared(z)
    BY <2>2, ClearedIs
  <2>4. QED
    BY <2>1, <2>2, <2>3 DEF Honest, Clean
<1>4. CASE d.status # "complete"
  <2>1. y.memo = x.memo /\ (y.ok <=> x.ok /\ Captured(d, t))
    BY <1>2, <1>4 DEF CapturedIn
  <2>2. Cleared(y) = Cleared(x)
    BY <2>1, ClearedIs
  <2>3. QED
    BY <1>1, <1>4, <2>1, <2>2 DEF Honest, Clean
<1>5. QED
  BY <1>3, <1>4

LEMMA ChildrenSound ==
  ASSUME Typed, NEW s \in Progress, NEW r \in Row, NEW visiting \in SUBSET Row, NEW t, NEW deeper \in Walks,
         HonestTable(deeper, t), Clean(s, visiting \cup {r}, t),
         NEW y, y = Children(s, r, visiting, t, deeper)
  PROVE  /\ y \in Progress /\ Clean(y, visiting \cup {r}, t) /\ Cleared(s) \subseteq Cleared(y)
         /\ y.ok /\ ModelEligible(r[1], t) => Upheld(r, t) /\ Kids(r) \subseteq Cleared(y)
<1> DEFINE N == Len(LinksOf(r))
           L(j) == LinksOf(r)[j]
           path == visiting \cup {r}
<1>1. N \in Nat /\ path \in SUBSET Row
  BY LinksAre
<1>2. PICK c : Through(c, y, s, r, visiting, t, deeper)
  BY ChildrenAre
<1>3. /\ c \in [0 .. N -> Progress] /\ y = c[N]
      /\ c[0].memo = s.memo /\ c[0].seen = s.seen /\ (c[0].ok <=> N > 0)
      /\ \A j \in 1 .. N : c[j] = Capturing(c[j - 1], L(j), path, t, deeper)
  BY <1>2 DEF Through
<1>4. ASSUME NEW j \in 1 .. N, Clean(c[j - 1], path, t)
      PROVE  Honest(c[j - 1], c[j], Inters(L(j)), path, t) /\ (c[j].ok => Captured(L(j), t))
  <2>1. j - 1 \in 0 .. N
    BY <1>1
  <2>2. c[j - 1] \in Progress
    BY <1>3, <2>1
  <2>3. QED
    BY <1>1, <1>3, <1>4, <2>2, CapturingSound
<1> HIDE DEF N, L, path
<1> DEFINE Good(j) ==
             /\ Clean(c[j], path, t) /\ Cleared(s) \subseteq Cleared(c[j])
             /\ c[j].ok => N > 0 /\ \A i \in 1 .. j : Inters(L(i)) \subseteq Cleared(c[j]) /\ Captured(L(i), t)
           U == {j \in Nat : j <= N => Good(j)}
<1>5. 0 \in U
  <2>1. Cleared(c[0]) = Cleared(s)
    BY <1>3, ClearedIs
  <2>2. Clean(c[0], path, t)
    BY <2>1 DEF Clean, path
  <2>3. QED
    BY <1>3, <2>1, <2>2
<1>6. ASSUME NEW n \in Nat, n \in U PROVE n + 1 \in U
  <2>1. SUFFICES ASSUME n + 1 <= N PROVE Good(n + 1)
    OBVIOUS
  <2>2. Good(n) /\ n + 1 \in 1 .. N /\ (n + 1) - 1 = n
    BY <1>1, <1>6, <2>1
  <2>3. Honest(c[n], c[n + 1], Inters(L(n + 1)), path, t) /\ (c[n + 1].ok => Captured(L(n + 1), t))
    BY <1>4, <2>2
  <2>4. \A i \in 1 .. n + 1 : i = n + 1 \/ i \in 1 .. n
    OBVIOUS
  <2>5. QED
    BY <2>2, <2>3, <2>4 DEF Honest
<1>7. Good(N)
  <2> HIDE DEF U
  <2>1. N \in U
    BY <1>1, <1>5, <1>6, Counting
  <2>2. QED
    BY <1>1, <2>1 DEF U
<1>8. ASSUME y.ok, ModelEligible(r[1], t) PROVE Upheld(r, t) /\ Kids(r) \subseteq Cleared(y)
  <2>1. /\ N > 0
        /\ \A i \in 1 .. N : Inters(L(i)) \subseteq Cleared(y) /\ Captured(L(i), t)
    BY <1>3, <1>7, <1>8
  <2>2. HasText(r) /\ LinksOf(r) = rows[r].links /\ DOMAIN rows[r].links = 1 .. N
    BY <2>1, LinksAre DEF N
  <2>3. \A i \in DOMAIN rows[r].links :
          Inters(rows[r].links[i]) \subseteq Cleared(y) /\ Captured(rows[r].links[i], t)
    BY <2>1, <2>2 DEF L
  <2>4. 1 \in 1 .. N
    BY <1>1, <2>1
  <2>5. QED
    BY <1>8, <2>2, <2>3, <2>4 DEF Upheld, Kids
<1>9. y \in Progress
  <2>1. N \in 0 .. N
    BY <1>1
  <2>2. QED
    BY <1>3, <2>1
<1>10. QED
  BY <1>3, <1>7, <1>8, <1>9 DEF path

(* The outcomes of a visit: it fails, it finds the row settled, or it      *)
(* settles it now.                                                         *)
Settles(y, s, r, visiting, t, deeper) ==
  \E x \in Progress, z \in Progress :
    /\ x.ok = s.ok /\ x.memo = s.memo /\ x.seen = s.seen \cup {r}
    /\ z = Children(x, r, visiting, t, deeper)
    /\ y.memo = z.memo \cup {<<r, z.ok>>} /\ y.seen = z.seen /\ (y.ok <=> z.ok /\ s.ok)
Visited(y, s, r, depth, visiting, t, deeper) ==
  \/ /\ y.ok = FALSE /\ y.memo = s.memo
     /\ \/ r \in visiting \/ rows[r] = Nothing \/ TooDeep(depth) \/ TooMany(s, r)
        \/ ~ModelEligible(r[1], t)
  \/ /\ r \notin visiting /\ Settled(s, r) # {}
     /\ y.memo = s.memo /\ y.seen = s.seen /\ (y.ok <=> s.ok /\ <<r, TRUE>> \in s.memo)
  \/ /\ r \notin visiting /\ Settled(s, r) = {} /\ ~TooDeep(depth) /\ ~TooMany(s, r)
     /\ ModelEligible(r[1], t) /\ Settles(y, s, r, visiting, t, deeper)

LEMMA VisitCases ==
  ASSUME Typed, NEW s \in Progress, NEW r \in Row, NEW depth \in Nat, NEW visiting \in SUBSET Row, NEW t,
         NEW deeper, deeper \in Walks \/ TooDeep(depth),
         NEW y, y = Visit(s, r, depth, visiting, t, deeper)
  PROVE  y \in Progress /\ Visited(y, s, r, depth, visiting, t, deeper)
<1> DEFINE barred == \/ r \in visiting \/ rows[r] = Nothing \/ TooDeep(depth)
                     \/ Settled(s, r) = {} /\ TooMany(s, r)
           x == [s EXCEPT !.seen = @ \cup {r}]
           z == Children(x, r, visiting, t, deeper)
           b == s.ok /\ <<r, TRUE>> \in s.memo
<1>1. y \in Progress
  BY VisitIs
<1>2. x \in Progress /\ x.ok = s.ok /\ x.memo = s.memo /\ x.seen = s.seen \cup {r}
  BY DEF Progress
<1>3. Failed(s).ok = FALSE /\ Failed(s).memo = s.memo
  BY DEF Failed, Progress
<1>4. Failed(x).ok = FALSE /\ Failed(x).memo = s.memo
  <2> HIDE DEF x
  <2>1. QED
    BY <1>2 DEF Failed, Progress
<1>5. CASE barred
  <2>1. y = Failed(s)
    BY <1>5 DEF Visit
  <2>2. QED
    BY <1>1, <1>3, <1>5, <2>1 DEF Visited
<1>6. CASE ~barred /\ Settled(s, r) # {}
  <2>1. y = [s EXCEPT !.ok = b]
    BY <1>6 DEF Visit
  <2>2. b \in BOOLEAN
    OBVIOUS
  <2> HIDE DEF b
  <2>3. y.ok = b /\ y.memo = s.memo /\ y.seen = s.seen
    BY <2>1, <2>2, OkIs
  <2>4. QED
    BY <1>1, <1>6, <2>3 DEF b, Visited
<1>7. CASE ~barred /\ Settled(s, r) = {} /\ ~ModelEligible(r[1], t)
  <2>1. y = Failed(x)
    BY <1>7 DEF Visit
  <2>2. QED
    BY <1>1, <1>4, <1>7, <2>1 DEF Visited
<1>8. CASE ~barred /\ Settled(s, r) = {} /\ ModelEligible(r[1], t)
  <2> DEFINE c == z.ok /\ s.ok
             m == z.memo \cup {<<r, z.ok>>}
  <2>1. y = [z EXCEPT !.memo = m, !.ok = c]
    BY <1>8 DEF Visit
  <2> HIDE DEF x
  <2>2. z \in Progress
    <3>1. PICK f : Through(f, z, x, r, visiting, t, deeper)
      BY <1>2, <1>8, ChildrenAre
    <3>2. Len(LinksOf(r)) \in 0 .. Len(LinksOf(r))
      BY LinksAre
    <3>3. QED
      BY <3>1, <3>2 DEF Through
  <2>3. c \in BOOLEAN /\ (c <=> z.ok /\ s.ok)
    OBVIOUS
  <2>4. \E z0 \in Progress : z0 = Children(x, r, visiting, t, deeper) /\ z0 = z
    BY <2>2
  <2> HIDE DEF z, m, c
  <2>5. y.memo = m /\ y.ok = c /\ y.seen = z.seen
    BY <2>1, <2>2 DEF Progress
  <2>6. Settles(y, s, r, visiting, t, deeper)
    BY <1>2, <2>3, <2>4, <2>5 DEF m, Settles
  <2>7. QED
    BY <1>1, <1>8, <2>6 DEF Visited
<1>9. QED
  BY <1>5, <1>6, <1>7, <1>8

LEMMA VisitSound ==
  ASSUME Typed, NEW s \in Progress, NEW r \in Row, NEW depth \in Nat, NEW visiting \in SUBSET Row, NEW t,
         NEW deeper, (deeper \in Walks /\ HonestTable(deeper, t)) \/ TooDeep(depth), Clean(s, visiting, t),
         NEW y, y = Visit(s, r, depth, visiting, t, deeper)
  PROVE  Honest(s, y, {r}, visiting, t)
<1>1. CASE y.ok = FALSE /\ y.memo = s.memo
  <2>1. Cleared(y) = Cleared(s)
    BY <1>1, ClearedIs
  <2>2. QED
    BY <1>1, <2>1 DEF Honest, Clean
<1>2. CASE y.memo = s.memo /\ (y.ok <=> s.ok /\ <<r, TRUE>> \in s.memo)
  <2>1. Cleared(y) = Cleared(s)
    BY <1>2, ClearedIs
  <2>2. y.ok => s.ok /\ r \in Cleared(s)
    BY <1>2 DEF Cleared
  <2>3. QED
    BY <2>1, <2>2 DEF Honest, Clean
<1>3. ASSUME r \notin visiting, Settled(s, r) = {}, ~TooDeep(depth), ModelEligible(r[1], t),
             NEW x \in Progress, x.ok = s.ok, x.memo = s.memo, x.seen = s.seen \cup {r},
             NEW z \in Progress, z = Children(x, r, visiting, t, deeper),
             y.memo = z.memo \cup {<<r, z.ok>>}, y.ok <=> z.ok /\ s.ok
      PROVE  Honest(s, y, {r}, visiting, t)
  <2>1. Cleared(x) = Cleared(s)
    BY <1>3, ClearedIs
  <2>2. r \notin Cleared(s)
    BY <1>3 DEF Settled, Cleared
  <2>3. Clean(x, visiting \cup {r}, t)
    BY <2>1, <2>2 DEF Clean
  <2>4. /\ Clean(z, visiting \cup {r}, t) /\ Cleared(x) \subseteq Cleared(z)
        /\ z.ok => Upheld(r, t) /\ Kids(r) \subseteq Cleared(z)
    BY <1>3, <2>3, ChildrenSound
  <2>5. CASE z.ok
    <3>1. z.ok = TRUE
      BY <2>5, ProgressIs
    <3>2. Cleared(y) = Cleared(z) \cup {r}
      BY <1>3, <3>1 DEF Cleared
    <3>3. r \notin Cleared(z) /\ Cleared(z) \subseteq Row /\ Cleared(z) \cap visiting = {}
      BY <2>4 DEF Clean, Cleared
    <3>4. Solid(Cleared(z) \cup {r}, t)
      BY <2>4, <2>5, <3>3, SolidGrows DEF Clean
    <3>5. QED
      BY <1>3, <2>1, <2>4, <3>2, <3>3, <3>4 DEF Honest, Clean
  <2>6. CASE ~z.ok
    <3>1. Cleared(y) = Cleared(z)
      BY <1>3, <2>6 DEF Cleared
    <3>2. Cleared(z) \cap visiting = {}
      BY <2>4 DEF Clean
    <3>3. QED
      BY <1>3, <2>1, <2>4, <2>6, <3>1, <3>2 DEF Honest, Clean
  <2>7. QED
    BY <2>5, <2>6
<1>4. deeper \in Walks \/ TooDeep(depth)
  OBVIOUS
<1>5. Visited(y, s, r, depth, visiting, t, deeper)
  BY <1>4, VisitCases
<1>6. ASSUME r \notin visiting, Settled(s, r) = {}, ~TooDeep(depth), ModelEligible(r[1], t),
             Settles(y, s, r, visiting, t, deeper)
      PROVE  Honest(s, y, {r}, visiting, t)
  BY <1>3, <1>6 DEF Settles
<1>7. QED
  BY <1>1, <1>2, <1>5, <1>6 DEF Visited

LEMMA LevelSound ==
  ASSUME Typed, NEW depth \in Nat, NEW t,
         NEW deeper, (deeper \in Walks /\ HonestTable(deeper, t)) \/ TooDeep(depth)
  PROVE  HonestTable(Level(depth, deeper, t), t)
<1> SUFFICES ASSUME NEW s \in Progress, NEW refs \in Seq(Row), NEW visiting \in SUBSET Row, Clean(s, visiting, t)
             PROVE  Honest(s, Level(depth, deeper, t)[<<s, refs, visiting>>],
                          {refs[n] : n \in DOMAIN refs}, visiting, t)
  BY DEF HonestTable
<1>1. deeper \in Walks \/ TooDeep(depth)
  OBVIOUS
<1>2. PICK a : /\ Along(a, s, refs, depth, visiting, t, deeper)
               /\ Level(depth, deeper, t)[<<s, refs, visiting>>] = a[Len(refs)]
  BY <1>1, AlongIs
<1> DEFINE N == Len(refs)
           S(n) == {refs[i] : i \in 1 .. n}
           U == {n \in Nat : n <= N => Honest(s, a[n], S(n), visiting, t)}
<1>3. N \in Nat /\ DOMAIN refs = 1 .. N /\ \A n \in 1 .. N : refs[n] \in Row
  OBVIOUS
<1>4. /\ a \in [0 .. N -> Progress] /\ a[0] = s
      /\ \A n \in 1 .. N : a[n] = Visit(a[n - 1], refs[n], depth, visiting, t, deeper)
  BY <1>2 DEF Along
<1> HIDE DEF N
<1>5. 0 \in U
  <2>1. S(0) = {}
    OBVIOUS
  <2> HIDE DEF S
  <2>2. QED
    BY <1>4, <2>1 DEF Honest
<1>6. ASSUME NEW n \in Nat, n \in U PROVE n + 1 \in U
  <2>1. SUFFICES ASSUME n + 1 <= N PROVE Honest(s, a[n + 1], S(n + 1), visiting, t)
    OBVIOUS
  <2>2. n \in 0 .. N /\ n + 1 \in 1 .. N /\ (n + 1) - 1 = n /\ n <= N
    BY <1>3, <2>1
  <2>3. Honest(s, a[n], S(n), visiting, t) /\ a[n] \in Progress /\ refs[n + 1] \in Row
    BY <1>3, <1>4, <1>6, <2>2
  <2>4. a[n + 1] = Visit(a[n], refs[n + 1], depth, visiting, t, deeper)
    BY <1>4, <2>2
  <2>5. Clean(a[n], visiting, t)
    BY <2>3 DEF Honest
  <2>6. Honest(a[n], a[n + 1], {refs[n + 1]}, visiting, t)
    BY <2>3, <2>4, <2>5, VisitSound
  <2>7. S(n + 1) = S(n) \cup {refs[n + 1]}
    <3>1. \A i : i \in 1 .. n + 1 <=> i \in 1 .. n \/ i = n + 1
      BY <2>2
    <3>2. QED
      BY <3>1
  <2> HIDE DEF S
  <2>8. QED
    BY <2>3, <2>6, <2>7 DEF Honest
<1>7. N \in U
  <2> HIDE DEF U
  <2>1. QED
    BY <1>3, <1>5, <1>6, Counting
<1>8. Honest(s, a[N], S(N), visiting, t)
  BY <1>3, <1>7
<1>9. QED
  BY <1>2, <1>3, <1>8 DEF N

LEMMA WalkSound ==
  ASSUME Typed, NEW t PROVE HonestTable(Walk(t)[0], t)
<1> DEFINE N == MaxDepth
           w == Walk(t)
           U == {n \in Nat : n <= N => HonestTable(w[N - n], t)}
<1>1. N \in Nat /\ w \in [0 .. N -> Walks] /\ \A depth \in 0 .. N : w[depth] = Level(depth, w[depth + 1], t)
  BY WalkIs, DataAssumption
<1>2. TooDeep(N)
  BY <1>1 DEF TooDeep
<1> HIDE DEF w, N
<1>3. 0 \in U
  <2>1. N - 0 = N /\ N \in 0 .. N
    BY <1>1
  <2>2. w[N] = Level(N, w[N + 1], t)
    BY <1>1, <2>1
  <2>3. HonestTable(Level(N, w[N + 1], t), t)
    BY <1>1, <1>2, LevelSound
  <2>4. QED
    BY <2>1, <2>2, <2>3
<1>4. ASSUME NEW n \in Nat, n \in U PROVE n + 1 \in U
  <2>1. SUFFICES ASSUME n + 1 <= N PROVE HonestTable(w[N - (n + 1)], t)
    OBVIOUS
  <2>2. PICK d \in 0 .. N : d = N - (n + 1) /\ d + 1 = N - n /\ d + 1 \in 0 .. N /\ n <= N /\ d \in Nat
    BY <1>1, <2>1
  <2>3. w[d + 1] \in Walks /\ HonestTable(w[d + 1], t)
    BY <1>1, <1>4, <2>2
  <2>4. w[d] = Level(d, w[d + 1], t)
    BY <1>1, <2>2
  <2>5. HonestTable(w[d], t)
    BY <2>2, <2>3, <2>4, LevelSound
  <2>6. QED
    BY <2>2, <2>5
<1>5. N \in U
  <2> HIDE DEF U
  <2>1. QED
    BY <1>1, <1>3, <1>4, Counting
<1>6. N - N = 0
  BY <1>1
<1>7. QED
  BY <1>1, <1>5, <1>6 DEF w

-----------------------------------------------------------------------------
(* What a reply rests on, distance by distance.                            *)
LEMMA KidsAre ==
  ASSUME Typed, NEW q \in Row, HasText(q) PROVE Kids(q) \subseteq Row
<1>1. \A i \in DOMAIN rows[q].links : Inters(rows[q].links[i]) \subseteq Row
  <2>1. q[1] \in Episodes /\ rows[q].links \in Links(q[1])
    BY RowIs, LinksAre
  <2>2. QED
    BY <2>1, LinkIs DEF Inters
<1>2. QED
  BY <1>1 DEF Kids

Distances(a, r, j) ==
  LET N == Cardinality(Row) IN
  /\ a \in [1 .. N + 1 -> SUBSET Row]
  /\ a[1] = Inters(rows[r].links[j])
  /\ \A n \in 1 .. N : a[n + 1] = UNION {Kids(q) : q \in {x \in a[n] : HasText(x)}}

LEMMA AwayIs ==
  ASSUME Typed, NEW r \in Row, HasText(r), NEW j \in DOMAIN rows[r].links
  PROVE  Distances(Away(r, j), r, j)
<1> DEFINE N == Cardinality(Row)
           s0 == Inters(rows[r].links[j])
           Next0(s) == UNION {Kids(q) : q \in {x \in s : HasText(x)}}
           X == SUBSET Row
           F == [p \in Nat \X X |-> Next0(p[2])]
           R == CHOOSE a : a = [n \in 1 .. N + 1 |-> IF n = 1 THEN s0 ELSE Next0(a[n - 1])]
<1>1. N \in Nat
  BY RowIsFinite, FS_CardinalityType
<1>2. Away(r, j) = R
  BY DEF Away, Kids, Inters
<1>3. s0 \in X
  <2>1. Inters(rows[r].links[j]) \subseteq Kids(r)
    BY DEF Kids
  <2>2. QED
    BY <2>1, KidsAre
<1>4. \A s \in X : Next0(s) \in X
  BY KidsAre
<1> HIDE DEF N, s0, Next0
<1>5. F \in [Nat \X X -> X] /\ \A n \in Nat : \A s \in X : F[<<n, s>>] = Next0(s)
  BY <1>4
<1> HIDE DEF F
<1>6. PICK g : Iteration(g, X, s0, F, N)
  <2> HIDE DEF X
  <2>1. QED
    BY <1>1, <1>3, <1>5, Iterates
<1>7. g \in [0 .. N -> X] /\ g[0] = s0 /\ \A n \in 1 .. N : g[n] = Next0(g[n - 1])
  <2>1. g \in [0 .. N -> X] /\ g[0] = s0 /\ \A n \in 1 .. N : g[n] = F[<<n, g[n - 1]>>]
    BY <1>6 DEF Iteration
  <2>2. \A n \in 1 .. N : n - 1 \in 0 .. N /\ n \in Nat
    BY <1>1
  <2>3. \A n \in 1 .. N : g[n - 1] \in X
    BY <2>1, <2>2
  <2>4. QED
    BY <1>5, <2>1, <2>2, <2>3
<1> DEFINE w == [n \in 1 .. N + 1 |-> g[n - 1]]
<1>8. w = [n \in 1 .. N + 1 |-> IF n = 1 THEN s0 ELSE Next0(w[n - 1])]
  <2>1. ASSUME NEW n \in 1 .. N + 1 PROVE w[n] = IF n = 1 THEN s0 ELSE Next0(w[n - 1])
    <3>1. CASE n = 1
      BY <1>1, <1>7, <3>1
    <3>2. CASE n # 1
      <4>1. n - 1 \in 1 .. N /\ n - 1 \in 1 .. N + 1
        BY <1>1, <3>2
      <4>2. w[n] = g[n - 1] /\ w[n - 1] = g[(n - 1) - 1]
        BY <4>1
      <4> HIDE DEF w
      <4>3. QED
        BY <1>7, <3>2, <4>1, <4>2
    <3>3. QED
      BY <3>1, <3>2
  <2>2. QED
    BY <2>1
<1> HIDE DEF w
<1>9. R = [n \in 1 .. N + 1 |-> IF n = 1 THEN s0 ELSE Next0(R[n - 1])]
  BY <1>8
<1> HIDE DEF R
<1>10. R[1] = s0 /\ \A n \in 1 .. N : R[n + 1] = Next0(R[n])
  <2>1. 1 \in 1 .. N + 1
    BY <1>1
  <2>2. ASSUME NEW n \in 1 .. N PROVE R[n + 1] = Next0(R[n])
    <3>1. n + 1 \in 1 .. N + 1 /\ n + 1 # 1 /\ (n + 1) - 1 = n
      BY <1>1
    <3>2. QED
      BY <1>9, <3>1
  <2>3. QED
    BY <1>9, <2>1, <2>2
<1>11. \A n \in 1 .. N + 1 : R[n] \in X
  <2> DEFINE U == {n \in Nat : n <= N => R[n + 1] \in X}
  <2>1. 0 \in U
    BY <1>3, <1>10
  <2>2. ASSUME NEW n \in Nat, n \in U PROVE n + 1 \in U
    <3>1. SUFFICES ASSUME n + 1 <= N PROVE R[(n + 1) + 1] \in X
      OBVIOUS
    <3>2. R[n + 1] \in X /\ n + 1 \in 1 .. N
      BY <1>1, <2>2, <3>1
    <3>3. QED
      BY <1>4, <1>10, <3>2
  <2>3. Nat \subseteq U
    <3> HIDE DEF U
    <3>1. QED
      BY <2>1, <2>2, Counting
  <2>4. ASSUME NEW n \in 1 .. N + 1 PROVE R[n] \in X
    <3>1. n - 1 \in Nat /\ n - 1 <= N /\ (n - 1) + 1 = n
      BY <1>1
    <3>2. QED
      BY <2>3, <3>1
  <2>5. QED
    BY <2>4
<1>12. R \in [1 .. N + 1 -> X]
  BY <1>9, <1>11
<1>13. Distances(R, r, j)
  BY <1>10, <1>12 DEF Distances, N, s0, Next0
<1>14. QED
  BY <1>2, <1>13

(* A reply whose capture leads into a solid set is grounded. *)
LEMMA SolidGrounds ==
  ASSUME Typed, NEW r \in Row, HasText(r), NEW j \in DOMAIN rows[r].links, NEW t,
         NEW M \in SUBSET Row, Solid(M, t), r \notin M,
         Captured(rows[r].links[j], t), Inters(rows[r].links[j]) \subseteq M
  PROVE  Grounded(r, j, t)
<1> DEFINE N == Cardinality(Row)
           a == Away(r, j)
           m == Cardinality(M)
<1>1. N \in Nat /\ m \in Nat /\ m <= N
  BY RowIsFinite, FS_Subset, FS_CardinalityType
<1>2. /\ a \in [1 .. N + 1 -> SUBSET Row] /\ a[1] = Inters(rows[r].links[j])
      /\ \A n \in 1 .. N : a[n + 1] = UNION {Kids(q) : q \in {x \in a[n] : HasText(x)}}
  BY AwayIs DEF Distances
<1>3. PICK f \in [Row -> Nat] : \A q \in M : f[q] < m /\ \A k \in Kids(q) : k \in M /\ f[k] < f[q]
  BY DEF Solid, Ranked
<1> HIDE DEF N, m
<1> DEFINE U == {n \in Nat : n <= N => \A q \in a[n + 1] : q \in M /\ f[q] + n < m}
<1>4. 0 \in U
  <2>1. \A q \in a[1] : q \in M /\ f[q] < m /\ f[q] \in Nat
    BY <1>2, <1>3
  <2>2. QED
    BY <2>1
<1>5. ASSUME NEW n \in Nat, n \in U PROVE n + 1 \in U
  <2>1. SUFFICES ASSUME n + 1 <= N, NEW k \in a[(n + 1) + 1] PROVE k \in M /\ f[k] + (n + 1) < m
    OBVIOUS
  <2>2. n + 1 \in 1 .. N /\ n <= N
    BY <1>1, <2>1
  <2>3. PICK q \in a[n + 1] : k \in Kids(q)
    BY <1>2, <2>1, <2>2
  <2>4. q \in M /\ f[q] + n < m
    BY <1>5, <2>2, <2>3
  <2>5. k \in M /\ f[k] < f[q] /\ f[k] \in Nat /\ f[q] \in Nat
    BY <1>3, <2>3, <2>4
  <2>6. QED
    BY <1>1, <2>4, <2>5
<1>6. ASSUME NEW n \in 1 .. N + 1 PROVE \A q \in a[n] : q \in M /\ f[q] + (n - 1) < m
  <2>1. Nat \subseteq U
    <3> HIDE DEF U
    <3>1. QED
      BY <1>4, <1>5, Counting
  <2>2. n - 1 \in Nat /\ n - 1 <= N /\ (n - 1) + 1 = n
    BY <1>1
  <2>3. QED
    BY <2>1, <2>2
<1>7. a[N + 1] = {}
  <2>1. SUFFICES ASSUME NEW q \in a[N + 1] PROVE FALSE
    OBVIOUS
  <2>2. N + 1 \in 1 .. N + 1 /\ (N + 1) - 1 = N
    BY <1>1
  <2>3. q \in M /\ f[q] + N < m
    BY <1>6, <2>2
  <2>4. f[q] \in Nat
    BY <2>3
  <2>5. QED
    BY <1>1, <2>3, <2>4
<1>8. \A n \in DOMAIN a : r \notin a[n] /\ \A q \in a[n] : Upheld(q, t)
  BY <1>2, <1>6 DEF Solid
<1> HIDE DEF a
<1>9. QED
  BY <1>7, <1>8 DEF Grounded, Upheld, a, N

LEMMA VisibleIsGrounded ==
  ASSUME Typed, NEW r \in Row, HasText(r), NEW j \in DOMAIN rows[r].links, NEW t, ReplyVisible(r, j, t)
  PROVE  Grounded(r, j, t)
<1> DEFINE d == rows[r].links[j]
           s == Start(r)
           w == Walk(t)[0]
           y == w[<<s, d.inters, {r}>>]
<1>1. LinksOf(r) = rows[r].links /\ j \in 1 .. Len(LinksOf(r))
  BY LinksAre
<1>2. d.inters \in Seq(Row) /\ (d.status # "complete" => Inters(d) = {})
  BY <1>1, CaptureIs
<1>3. CASE d.status = "complete_empty"
  <2>1. Captured(d, t) /\ Inters(d) \subseteq {}
    BY <1>2, <1>3 DEF Captured
  <2>2. QED
    BY <2>1, SolidStarts, SolidGrounds
<1>4. CASE d.status # "complete_empty"
  <2>1. d.status = "complete" /\ (\A x \in d.items : SourceVisible(x, t)) /\ y.ok
    BY <1>4 DEF ReplyVisible
  <2>2. s \in Progress /\ Cleared(s) = {}
    BY DEF Start, Progress, Cleared
  <2>3. Clean(s, {r}, t)
    BY <2>2, SolidStarts DEF Clean
  <2>4. Honest(s, y, {d.inters[n] : n \in DOMAIN d.inters}, {r}, t)
    BY <1>2, <2>2, <2>3, WalkSound DEF HonestTable
  <2> HIDE DEF y
  <2>5. Inters(d) \subseteq Cleared(y) /\ Solid(Cleared(y), t) /\ r \notin Cleared(y) /\ Cleared(y) \subseteq Row
    BY <2>1, <2>4 DEF Honest, Clean, Inters, Cleared
  <2>6. Captured(d, t)
    BY <2>1 DEF Captured
  <2>7. QED
    BY <2>5, <2>6, SolidGrounds
<1>5. QED
  BY <1>3, <1>4

-----------------------------------------------------------------------------
(* Within its limits the walk misses nothing: whatever it meets may be     *)
(* shown, is not on the path that led there, and is within both limits.    *)
Bounded(a, r, t) ==
  /\ a \in [1 .. Cardinality(Row) + 1 -> SUBSET Row] /\ a[Cardinality(Row) + 1] = {}
  /\ \A n \in 1 .. Cardinality(Row) : a[n + 1] = UNION {Kids(q) : q \in {x \in a[n] : HasText(x)}}
  /\ \A n \in DOMAIN a : \A q \in a[n] : Upheld(q, t)
  /\ \A n \in DOMAIN a : n > MaxDepth => a[n] = {}
  /\ Cardinality(Under(a) \cup {r}) <= MaxNodes

Fine(s, a, r) == s.ok /\ (\A m \in s.memo : m = <<m[1], TRUE>>) /\ s.seen \subseteq Under(a) \cup {r}

(* The path that led to the rows S. *)
OnPath(visiting, S) ==
  \A v \in visiting : HasText(v) /\ (Kids(v) \cap visiting # {} \/ S \subseteq Kids(v))

CompleteTable(f, depth, a, r) ==
  depth + 1 \in DOMAIN a =>
    \A s \in Progress, refs \in Seq(Row), visiting \in SUBSET Row :
      Fine(s, a, r) /\ {refs[n] : n \in DOMAIN refs} \subseteq a[depth + 1]
        /\ OnPath(visiting, {refs[n] : n \in DOMAIN refs})
      => Fine(f[<<s, refs, visiting>>], a, r)

LEMMA NoCircle ==
  ASSUME NEW a, NEW r, NEW t, Bounded(a, r, t), NEW A,
         \A v \in A : HasText(v) /\ Kids(v) \cap A # {}, NEW m \in DOMAIN a
  PROVE  a[m] \cap A = {}
<1> DEFINE N == Cardinality(Row)
           U == {n \in Nat : m + n <= N + 1 => a[m + n] \cap A # {}}
<1>1. N \in Nat /\ m \in 1 .. N + 1
  BY RowIsFinite, FS_CardinalityType DEF Bounded
<1>2. a[N + 1] = {} /\ \A n \in 1 .. N : a[n + 1] = UNION {Kids(q) : q \in {x \in a[n] : HasText(x)}}
  BY DEF Bounded
<1> HIDE DEF N
<1> SUFFICES ASSUME a[m] \cap A # {} PROVE FALSE
  OBVIOUS
<1>3. 0 \in U
  <2>1. m + 0 = m
    BY <1>1
  <2>2. QED
    BY <2>1
<1>4. ASSUME NEW n \in Nat, n \in U PROVE n + 1 \in U
  <2>1. SUFFICES ASSUME m + (n + 1) <= N + 1 PROVE a[m + (n + 1)] \cap A # {}
    OBVIOUS
  <2>2. m + n \in 1 .. N /\ m + n <= N + 1 /\ (m + n) + 1 = m + (n + 1)
    BY <1>1, <2>1
  <2>3. PICK q \in a[m + n] : q \in A
    BY <1>4, <2>2
  <2>4. PICK k \in Kids(q) : k \in A
    BY <2>3
  <2>5. k \in a[(m + n) + 1]
    BY <1>2, <2>2, <2>3, <2>4
  <2>6. QED
    BY <2>2, <2>4, <2>5
<1>5. (N + 1) - m \in U /\ m + ((N + 1) - m) = N + 1
  <2> HIDE DEF U
  <2>1. (N + 1) - m \in Nat /\ m + ((N + 1) - m) = N + 1
    BY <1>1
  <2>2. QED
    BY <1>3, <1>4, <2>1, Counting
<1>6. QED
  BY <1>1, <1>2, <1>5

LEMMA ChildrenComplete ==
  ASSUME Typed, NEW a, NEW r \in Row, NEW t, Bounded(a, r, t), NEW depth \in Nat, depth + 1 \in DOMAIN a,
         NEW q \in a[depth + 1], NEW visiting \in SUBSET Row, NEW S, q \in S, OnPath(visiting, S),
         NEW deeper \in Walks, CompleteTable(deeper, depth + 1, a, r),
         NEW s \in Progress, Fine(s, a, r),
         NEW y, y = Children(s, q, visiting, t, deeper)
  PROVE  Fine(y, a, r)
<1> DEFINE R == Cardinality(Row)
           N == Len(LinksOf(q))
           L(j) == LinksOf(q)[j]
           path == visiting \cup {q}
<1>1. R \in Nat /\ DOMAIN a = 1 .. R + 1 /\ q \in Row /\ Upheld(q, t) /\ a[R + 1] = {}
  BY RowIsFinite, FS_CardinalityType DEF Bounded
<1>2. depth + 1 \in 1 .. R /\ (depth + 1) + 1 \in DOMAIN a
  BY <1>1
<1>3. Kids(q) \subseteq a[(depth + 1) + 1]
  BY <1>1, <1>2 DEF Bounded, Upheld
<1>4. N \in Nat /\ HasText(q) /\ DOMAIN rows[q].links = 1 .. N /\ N > 0 /\ LinksOf(q) = rows[q].links
  <2>1. HasText(q) /\ DOMAIN rows[q].links # {}
    BY <1>1 DEF Upheld
  <2>2. N \in Nat /\ LinksOf(q) = rows[q].links /\ DOMAIN LinksOf(q) = 1 .. N
    BY <1>1, <2>1, LinksAre
  <2>3. QED
    BY <2>1, <2>2
<1>5. \A j \in 1 .. N : Captured(L(j), t) /\ L(j).inters \in Seq(Row) /\ Inters(L(j)) \subseteq Kids(q)
  BY <1>1, <1>4, CaptureIs DEF Upheld
<1>6. PICK c : Through(c, y, s, q, visiting, t, deeper)
  BY <1>1, ChildrenAre
<1>7. /\ c \in [0 .. N -> Progress] /\ y = c[N]
      /\ c[0].memo = s.memo /\ c[0].seen = s.seen /\ (c[0].ok <=> N > 0)
      /\ \A j \in 1 .. N : c[j] = Capturing(c[j - 1], L(j), path, t, deeper)
  BY <1>6 DEF Through
<1>8. path \in SUBSET Row
  BY <1>1
<1>9. ASSUME NEW j \in 1 .. N, Fine(c[j - 1], a, r) PROVE Fine(c[j], a, r)
  <2> DEFINE d == L(j)
             x == c[j - 1]
  <2>1. j - 1 \in 0 .. N
    BY <1>4
  <2>2. x \in Progress
    BY <1>7, <2>1
  <2>3. CapturedIn(c[j], x, d, path, t, deeper)
    BY <1>1, <1>7, <1>8, <2>2, CapturingIs
  <2>4. Captured(d, t) /\ d.inters \in Seq(Row) /\ Inters(d) \subseteq Kids(q)
    BY <1>5
  <2> HIDE DEF d, x
  <2>5. CASE d.status = "complete"
    <3>1. OnPath(path, Inters(d))
      BY <1>4, <2>4 DEF OnPath
    <3>2. Fine(deeper[<<x, d.inters, path>>], a, r)
      BY <1>2, <1>3, <1>8, <1>9, <2>2, <2>4, <3>1 DEF CompleteTable, Inters, x
    <3>3. QED
      BY <2>3, <2>4, <2>5, <3>2 DEF CapturedIn, Fine
  <2>6. CASE d.status # "complete"
    BY <1>9, <2>3, <2>4, <2>6 DEF CapturedIn, Fine, x
  <2>7. QED
    BY <2>5, <2>6
<1> DEFINE U == {j \in Nat : j <= N => Fine(c[j], a, r)}
<1> HIDE DEF N
<1>10. 0 \in U
  BY <1>4, <1>7 DEF Fine
<1>11. ASSUME NEW n \in Nat, n \in U PROVE n + 1 \in U
  <2>1. SUFFICES ASSUME n + 1 <= N PROVE Fine(c[n + 1], a, r)
    OBVIOUS
  <2>2. n <= N /\ n + 1 \in 1 .. N /\ (n + 1) - 1 = n
    BY <1>4, <2>1
  <2>3. QED
    BY <1>9, <1>11, <2>2
<1>12. N \in U
  <2> HIDE DEF U
  <2>1. QED
    BY <1>4, <1>10, <1>11, Counting
<1>13. QED
  BY <1>4, <1>7, <1>12

LEMMA VisitComplete ==
  ASSUME Typed, NEW a, NEW r \in Row, NEW t, Bounded(a, r, t), NEW depth \in Nat, depth + 1 \in DOMAIN a,
         NEW q \in a[depth + 1], NEW visiting \in SUBSET Row, NEW S, q \in S, OnPath(visiting, S),
         NEW deeper, TooDeep(depth) \/ (deeper \in Walks /\ CompleteTable(deeper, depth + 1, a, r)),
         NEW s \in Progress, Fine(s, a, r),
         NEW y, y = Visit(s, q, depth, visiting, t, deeper)
  PROVE  Fine(y, a, r)
<1>1. q \in Row /\ q \in Under(a) /\ Upheld(q, t) /\ DOMAIN a \subseteq Nat
  BY DEF Bounded, Under
<1>2. ~TooDeep(depth)
  <2>1. ~(depth + 1 > MaxDepth)
    BY DEF Bounded
  <2>2. QED
    BY <2>1 DEF TooDeep
<1>3. q \notin visiting
  <2>1. SUFFICES ASSUME q \in visiting PROVE FALSE
    OBVIOUS
  <2>2. \A v \in visiting : HasText(v) /\ Kids(v) \cap visiting # {}
    BY <2>1 DEF OnPath
  <2>3. QED
    BY <2>1, <2>2, NoCircle
<1>4. ~TooMany(s, q)
  <2>1. SUFFICES ASSUME q \notin s.seen, Cardinality(s.seen) >= MaxNodes PROVE FALSE
    BY DEF TooMany
  <2>2. s.seen \subseteq Row /\ Under(a) \cup {r} \subseteq Row /\ s.seen \cup {q} \subseteq Under(a) \cup {r}
    BY <1>1, ProgressIs DEF Fine, Under, Bounded
  <2>3. IsFiniteSet(s.seen) /\ IsFiniteSet(Under(a) \cup {r})
    BY <2>2, RowIsFinite, FS_Subset
  <2>4. /\ Cardinality(s.seen \cup {q}) = Cardinality(s.seen) + 1
        /\ Cardinality(s.seen \cup {q}) <= Cardinality(Under(a) \cup {r})
        /\ Cardinality(s.seen) \in Nat /\ Cardinality(s.seen \cup {q}) \in Nat
        /\ Cardinality(Under(a) \cup {r}) \in Nat
    BY <2>1, <2>2, <2>3, FS_AddElement, FS_Subset, FS_CardinalityType
  <2>5. Cardinality(Under(a) \cup {r}) <= MaxNodes /\ MaxNodes \in Nat
    BY DataAssumption DEF Bounded
  <2>6. QED
    BY <2>1, <2>4, <2>5
<1>5. rows[q] # Nothing /\ ModelEligible(q[1], t)
  BY <1>1 DEF Upheld, HasText, Nothing
<1>6. Visited(y, s, q, depth, visiting, t, deeper)
  BY <1>1, <1>2, VisitCases
<1>7. CASE Settled(s, q) # {}
  <2>1. PICK m \in s.memo : m[1] = q
    BY <1>7 DEF Settled
  <2>2. m = <<q, TRUE>>
    <3>1. m = <<m[1], TRUE>>
      BY <2>1 DEF Fine
    <3>2. QED
      BY <2>1, <3>1
  <2>3. <<q, TRUE>> \in s.memo
    BY <2>1, <2>2
  <2>4. QED
    BY <1>2, <1>3, <1>4, <1>5, <1>6, <1>7, <2>3 DEF Visited, Fine
<1>8. CASE Settled(s, q) = {}
  <2>1. Settles(y, s, q, visiting, t, deeper)
    BY <1>2, <1>3, <1>4, <1>5, <1>6, <1>8 DEF Visited
  <2>2. PICK x \in Progress, z \in Progress :
          /\ x.ok = s.ok /\ x.memo = s.memo /\ x.seen = s.seen \cup {q}
          /\ z = Children(x, q, visiting, t, deeper)
          /\ y.memo = z.memo \cup {<<q, z.ok>>} /\ y.seen = z.seen /\ (y.ok <=> z.ok /\ s.ok)
    BY <2>1 DEF Settles
  <2>3. Fine(x, a, r)
    BY <1>1, <2>2 DEF Fine
  <2>4. Fine(z, a, r)
    BY <1>2, <2>2, <2>3, ChildrenComplete
  <2>5. z.ok = TRUE
    BY <2>2, <2>4, ProgressIs DEF Fine
  <2>6. y.memo = z.memo \cup {<<q, TRUE>>} /\ y.seen = z.seen /\ y.ok
    BY <2>2, <2>4, <2>5 DEF Fine
  <2>7. ASSUME NEW m \in y.memo
        PROVE  m = <<m[1], TRUE>>
    <3>1. CASE m \in z.memo
      BY <2>4, <3>1 DEF Fine
    <3>2. CASE m = <<q, TRUE>>
      <4>1. m[1] = q
        BY <3>2
      <4>2. QED
        BY <3>2, <4>1
    <3>3. QED
      BY <2>6, <3>1, <3>2
  <2>8. (\A m \in y.memo : m = <<m[1], TRUE>>) /\ y.seen \subseteq Under(a) \cup {r}
    BY <2>4, <2>6, <2>7 DEF Fine
  <2>9. QED
    BY <2>6, <2>8 DEF Fine
<1>9. QED
  BY <1>7, <1>8

LEMMA LevelComplete ==
  ASSUME Typed, NEW a, NEW r \in Row, NEW t, Bounded(a, r, t), NEW depth \in Nat,
         NEW deeper, TooDeep(depth) \/ (deeper \in Walks /\ CompleteTable(deeper, depth + 1, a, r))
  PROVE  CompleteTable(Level(depth, deeper, t), depth, a, r)
<1> SUFFICES ASSUME depth + 1 \in DOMAIN a,
                    NEW s \in Progress, NEW refs \in Seq(Row), NEW visiting \in SUBSET Row, Fine(s, a, r),
                    {refs[n] : n \in DOMAIN refs} \subseteq a[depth + 1],
                    OnPath(visiting, {refs[n] : n \in DOMAIN refs})
             PROVE  Fine(Level(depth, deeper, t)[<<s, refs, visiting>>], a, r)
  BY DEF CompleteTable
<1>1. deeper \in Walks \/ TooDeep(depth)
  OBVIOUS
<1>2. PICK g : /\ Along(g, s, refs, depth, visiting, t, deeper)
               /\ Level(depth, deeper, t)[<<s, refs, visiting>>] = g[Len(refs)]
  BY <1>1, AlongIs
<1> DEFINE N == Len(refs)
           S == {refs[n] : n \in DOMAIN refs}
           U == {n \in Nat : n <= N => Fine(g[n], a, r)}
<1>3. N \in Nat /\ \A n \in 1 .. N : refs[n] \in S
  OBVIOUS
<1>4. /\ g \in [0 .. N -> Progress] /\ g[0] = s
      /\ \A n \in 1 .. N : g[n] = Visit(g[n - 1], refs[n], depth, visiting, t, deeper)
  BY <1>2 DEF Along
<1>5. S \subseteq a[depth + 1] /\ OnPath(visiting, S)
  OBVIOUS
<1> HIDE DEF N, S
<1>6. 0 \in U
  BY <1>4
<1>7. ASSUME NEW n \in Nat, n \in U PROVE n + 1 \in U
  <2>1. SUFFICES ASSUME n + 1 <= N PROVE Fine(g[n + 1], a, r)
    OBVIOUS
  <2>2. n \in 0 .. N /\ n <= N /\ n + 1 \in 1 .. N /\ (n + 1) - 1 = n
    BY <1>3, <2>1
  <2>3. Fine(g[n], a, r) /\ g[n] \in Progress /\ refs[n + 1] \in S /\ refs[n + 1] \in a[depth + 1]
    BY <1>3, <1>4, <1>5, <1>7, <2>2
  <2>4. g[n + 1] = Visit(g[n], refs[n + 1], depth, visiting, t, deeper)
    BY <1>4, <2>2
  <2>5. QED
    BY <1>5, <2>3, <2>4, VisitComplete
<1>8. N \in U
  <2> HIDE DEF U
  <2>1. QED
    BY <1>3, <1>6, <1>7, Counting
<1>9. QED
  BY <1>2, <1>3, <1>8 DEF N

LEMMA WalkComplete ==
  ASSUME Typed, NEW a, NEW r \in Row, NEW t, Bounded(a, r, t)
  PROVE  CompleteTable(Walk(t)[0], 0, a, r)
<1> DEFINE N == MaxDepth
           w == Walk(t)
           U == {n \in Nat : n <= N => CompleteTable(w[N - n], N - n, a, r)}
<1>1. N \in Nat /\ w \in [0 .. N -> Walks] /\ \A depth \in 0 .. N : w[depth] = Level(depth, w[depth + 1], t)
  BY WalkIs, DataAssumption
<1>2. TooDeep(N)
  BY <1>1 DEF TooDeep
<1> HIDE DEF w, N
<1>3. 0 \in U
  <2>1. N - 0 = N /\ N \in 0 .. N
    BY <1>1
  <2>2. w[N] = Level(N, w[N + 1], t)
    BY <1>1, <2>1
  <2>3. CompleteTable(Level(N, w[N + 1], t), N, a, r)
    BY <1>1, <1>2, LevelComplete
  <2>4. QED
    BY <2>1, <2>2, <2>3
<1>4. ASSUME NEW n \in Nat, n \in U PROVE n + 1 \in U
  <2>1. SUFFICES ASSUME n + 1 <= N PROVE CompleteTable(w[N - (n + 1)], N - (n + 1), a, r)
    OBVIOUS
  <2>2. PICK d \in 0 .. N : d = N - (n + 1) /\ d + 1 = N - n /\ d + 1 \in 0 .. N /\ n <= N /\ d \in Nat
    BY <1>1, <2>1
  <2>3. w[d + 1] \in Walks /\ CompleteTable(w[d + 1], d + 1, a, r)
    BY <1>1, <1>4, <2>2
  <2>4. w[d] = Level(d, w[d + 1], t)
    BY <1>1, <2>2
  <2>5. CompleteTable(w[d], d, a, r)
    BY <2>2, <2>3, <2>4, LevelComplete
  <2>6. QED
    BY <2>2, <2>5
<1>5. N \in U
  <2> HIDE DEF U
  <2>1. QED
    BY <1>1, <1>3, <1>4, Counting
<1>6. N - N = 0
  BY <1>1
<1>7. QED
  BY <1>1, <1>5, <1>6 DEF w

LEMMA GroundedIsVisible ==
  ASSUME Typed, NEW r \in Row, HasText(r), NEW j \in DOMAIN rows[r].links, NEW t,
         Grounded(r, j, t), Near(r, j)
  PROVE  ReplyVisible(r, j, t)
<1> DEFINE d == rows[r].links[j]
           a == Away(r, j)
           s == Start(r)
           S == {d.inters[n] : n \in DOMAIN d.inters}
           y == Walk(t)[0][<<s, d.inters, {r}>>]
<1>1. LinksOf(r) = rows[r].links /\ j \in 1 .. Len(LinksOf(r))
  BY LinksAre
<1>2. d.inters \in Seq(Row) /\ S \subseteq Kids(r)
  BY <1>1, CaptureIs DEF Inters
<1>3. Distances(a, r, j)
  BY AwayIs
<1>4. /\ a \in [1 .. Cardinality(Row) + 1 -> SUBSET Row] /\ a[1] = S
      /\ \A n \in 1 .. Cardinality(Row) : a[n + 1] = UNION {Kids(q) : q \in {x \in a[n] : HasText(x)}}
  BY <1>3 DEF Distances, Inters
<1>5. /\ Captured(d, t) /\ a[Cardinality(Row) + 1] = {}
      /\ \A n \in DOMAIN a : \A q \in a[n] : Upheld(q, t)
  BY DEF Grounded, Upheld
<1>6. /\ \A n \in DOMAIN a : n > MaxDepth => a[n] = {}
      /\ Cardinality(Under(a) \cup {r}) <= MaxNodes
  <2>1. Near(r, j)
    OBVIOUS
  <2>2. \A n \in DOMAIN a : n > MaxDepth => a[n] = {}
    BY <2>1 DEF Near
  <2>3. Cardinality(Under(a) \cup {r}) <= MaxNodes
    BY <2>1 DEF Near
  <2>4. QED
    BY <2>2, <2>3
<1> HIDE DEF a
<1>7. Bounded(a, r, t)
  BY <1>4, <1>5, <1>6 DEF Bounded
<1>8. s \in Progress /\ Fine(s, a, r)
  BY DEF Start, Progress, Fine
<1>9. OnPath({r}, S)
  BY <1>2 DEF OnPath
<1>10. 0 + 1 \in DOMAIN a /\ 0 + 1 = 1
  <2>1. Cardinality(Row) \in Nat
    BY RowIsFinite, FS_CardinalityType
  <2>2. QED
    BY <1>4, <2>1
<1>11. CompleteTable(Walk(t)[0], 0, a, r)
  BY <1>7, WalkComplete
<1>12. Fine(y, a, r)
  BY <1>2, <1>4, <1>8, <1>9, <1>10, <1>11 DEF CompleteTable
<1>13. QED
  BY <1>5, <1>12 DEF Captured, Fine, ReplyVisible

(* A model is shown a reply only if all that it rests on, at whatever      *)
(* distance, stands and may be shown to it, although the walk remembers    *)
(* what it met (a row remembered on one path serves another), and every    *)
(* such reply whose links stay within the walk's limits is shown.          *)
THEOREM WalksAreTrue == Spec => []VisibleIffGrounded
<1>1. Typed => VisibleIffGrounded
  BY VisibleIsGrounded, GroundedIsVisible DEF VisibleIffGrounded
<1>2. Inv => VisibleIffGrounded
  BY <1>1 DEF Inv
<1>3. QED
  BY Starts, InvKept, <1>2, PTL DEF Spec
=============================================================================
