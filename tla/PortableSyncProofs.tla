------------------------- MODULE PortableSyncProofs -------------------------
(***************************************************************************)
(* Theorems about PortableSync: what hosts hold stands on its sources,     *)
(* what was deleted stays deleted, and an import writes what was shown,    *)
(* once; for any hosts, records and copies, and any bounds.                *)
(*                                                                         *)
(* A database and a bundle are the same rows at different times (Rooted    *)
(* holds of both), so that a bundle of any age can be read like a          *)
(* database.  An import settles what its bundle has to say (Settled), and  *)
(* nothing a host does without moving its revision unsettles it.  The      *)
(* contexts are written one after another: what holds of all of them is    *)
(* shown by induction over how many have been written.                     *)
(***************************************************************************)
EXTENDS PortableSync, FiniteSetTheorems, NaturalsInduction, WellFoundedInduction, TLAPS

-----------------------------------------------------------------------------
(* Induction over the natural numbers, for a set of them.                  *)
LEMMA Least ==
  ASSUME NEW T \in SUBSET Nat, T # {} PROVE \E x \in T : \A y \in T : x <= y
<1>1. IsWellFoundedOn(OpToRel(<, Nat), Nat)
  BY NatLessThanWellFounded
<1>2. PICK x \in T : \A y \in T : <<y, x>> \notin OpToRel(<, Nat)
  BY <1>1, WFMin
<1>3. \A y \in T : ~(y < x)
  BY <1>2 DEF OpToRel
<1>4. QED
  BY <1>3

LEMMA Counting ==
  ASSUME NEW S, 0 \in S, \A n \in Nat : n \in S => n + 1 \in S PROVE Nat \subseteq S
<1> SUFFICES ASSUME Nat \ S # {} PROVE FALSE
  OBVIOUS
<1>1. PICK x \in Nat \ S : \A y \in Nat \ S : x <= y
  BY Least
<1>2. x # 0 /\ x - 1 \in Nat /\ x - 1 \in S
  BY <1>1
<1>3. QED
  BY <1>1, <1>2

-----------------------------------------------------------------------------
(* What a database, a bundle and a plan consist of.                        *)
Sections == [evidence: SUBSET Evidence, tombstones: SUBSET Evidence, items: SUBSET Item,
             life: SUBSET Item, contexts: SUBSET Context]
Plans == [revision: Nat, valid: BOOLEAN, writes: Sections,
          warned: (SUBSET Evidence) \X (SUBSET Evidence)]
Bundles == [from: Host, revision: Nat, ev: [Evidence -> Row \cup {NoRow}],
            item: [Item -> 0..MaxVersion], life: [Item -> 0..2], ctx: [Context -> Copies]]
Receipts == [bundle: Bundles, plan: Plans, after: Nat]
Db == [ev: [Evidence -> Row \cup {NoRow}], item: [Item -> 0..MaxVersion], life: [Item -> 0..2],
       ctx: [Context -> Copies], lead: SUBSET Evidence, owed: SUBSET Vows,
       gone: SUBSET Range(OriginOf), marks: SUBSET Item, history: SUBSET Evidence,
       revision: Nat, receipts: SUBSET Receipts]

(* A row that is not deleted still has its text and says which message it  *)
(* is, one that is says nothing of a message, and no event or cognition is *)
(* over an erased source.                                                  *)
Rooted(x) ==
  /\ \A e \in Evidence : /\ Live(x, e) => x.ev[e].text = "full"
                         /\ Live(x, e) /\ OriginOf[e] # NoOrigin => x.ev[e].origin
                         /\ Dead(x, e) => ~x.ev[e].origin
  /\ \A i \in Core : x.item[i] # 0 => \A e \in Sources[i] : Has(x, e) /\ ~Erased(x, e)

Fenced(d) ==
  /\ \A i \in Item : d.item[i] # 0 => i \notin d.marks
  /\ \A e \in Evidence : Live(d, e) /\ d.ev[e].origin => OriginOf[e] \notin d.gone

(* A bundle has nothing more to say here, but for its contexts. *)
Settled(d, b) ==
  /\ NewEvidence(d, b) = {} /\ Tombstones(d, b) = {}
  /\ NewCore(d, b) = {} /\ NewWorld(d, b) = {} /\ NewLife(d, b) = {}

Answered(d) ==
  \A r \in d.receipts :
    /\ r.bundle \in bundles /\ r.after <= d.revision
    /\ r.after = d.revision => Settled(d, r.bundle)

Inv ==
  /\ db \in [Host -> Db]
  /\ \A h \in Host : /\ Rooted(db[h]) /\ Fenced(db[h]) /\ Answered(db[h])
                     /\ db[h].revision <= MaxRevision + now
  /\ bundles \subseteq Bundles /\ \A b \in bundles : Rooted(b)
  /\ IsFiniteSet(bundles) /\ Cardinality(bundles) <= MaxBundles
  /\ DOMAIN shown = Host /\ \A h \in Host : shown[h] # NoBundle => shown[h].bundle \in bundles
  /\ now \in 0..MaxTime

(* What a host does on its own takes no deletion back, puts no event or    *)
(* cognition over a deleted source, and unsettles no bundle unless the     *)
(* revision moves.                                                         *)
Monotone(d, n) ==
  /\ \A e \in Evidence : Dead(d, e) =>
       n.ev[e].deleted >= d.ev[e].deleted /\ (Erased(d, e) => n.ev[e] = d.ev[e])
  /\ \A c \in Context : ErasedCopy(d, c) => ErasedCopy(n, c)
Grounded(d, n) ==
  \A i \in Core : d.item[i] = 0 /\ n.item[i] # 0 => \A e \in Sources[i] : ~Dead(d, e)
Quiet(d, n) ==
  /\ n.receipts = d.receipts
  /\ \/ n.revision = d.revision + 1
     \/ n.revision = d.revision /\ \A b \in bundles : Settled(d, b) => Settled(n, b)

Own(d, n) ==
  /\ n \in Db /\ Rooted(n) /\ Fenced(n)
  /\ Monotone(d, n) /\ Grounded(d, n) /\ Quiet(d, n)

-----------------------------------------------------------------------------
(* Fields.                                                                 *)
LEMMA DbFields ==
  ASSUME NEW d \in Db
  PROVE  /\ d.ev \in [Evidence -> Row \cup {NoRow}] /\ d.item \in [Item -> 0..MaxVersion]
         /\ d.life \in [Item -> 0..2] /\ d.ctx \in [Context -> Copies]
         /\ d.lead \in SUBSET Evidence /\ d.owed \in SUBSET Vows
         /\ d.gone \in SUBSET Range(OriginOf) /\ d.marks \in SUBSET Item
         /\ d.history \in SUBSET Evidence /\ d.revision \in Nat /\ d.receipts \in SUBSET Receipts
BY DEF Db

LEMMA RowFields ==
  ASSUME NEW x, x.ev \in [Evidence -> Row \cup {NoRow}], NEW e \in Evidence
  PROVE  /\ Has(x, e) => /\ x.ev[e] \in Row
                         /\ x.ev[e].text \in {"full", "empty"} /\ x.ev[e].origin \in BOOLEAN
                         /\ x.ev[e].corrects \in BOOLEAN /\ x.ev[e].deleted \in 0..MaxTime
         /\ x.ev[e] \in Row => Has(x, e)
BY RowAssumption DEF Has, Row

LEMMA RowForgotten ==
  ASSUME NEW r \in Row, NEW t \in 0..MaxTime
  PROVE  LET q == [r EXCEPT !.deleted = t, !.origin = FALSE] IN
         q \in Row /\ q.deleted = t /\ q.origin = FALSE /\ q.text = r.text
BY DEF Row

LEMMA RowErased ==
  ASSUME NEW r \in Row, NEW t \in 0..MaxTime
  PROVE  LET q == [r EXCEPT !.text = "empty", !.origin = FALSE, !.deleted = t] IN
         q \in Row /\ q.deleted = t /\ q.origin = FALSE /\ q.text = "empty"
BY DEF Row

LEMMA NewRowIs ==
  ASSUME NEW e \in Evidence
  PROVE  /\ NewRow(e) \in Row /\ NewRow(e).deleted = 0 /\ NewRow(e).text = "full"
         /\ NewRow(e).origin = (OriginOf[e] # NoOrigin)
BY ConstantsAssumption DEF NewRow, Row

LEMMA MovedIs ==
  ASSUME NEW d \in Db
  PROVE  /\ Moved(d) \in Db /\ Moved(d).revision = d.revision + 1
         /\ Moved(d).ev = d.ev /\ Moved(d).item = d.item /\ Moved(d).life = d.life
         /\ Moved(d).ctx = d.ctx /\ Moved(d).lead = d.lead /\ Moved(d).owed = d.owed
         /\ Moved(d).gone = d.gone /\ Moved(d).marks = d.marks
         /\ Moved(d).history = d.history /\ Moved(d).receipts = d.receipts
BY DEF Moved, Db

(* What only rows and markers decide. *)
LEMMA SameRows ==
  ASSUME NEW x, NEW y, y.ev = x.ev, y.item = x.item
  PROVE  /\ Rooted(x) => Rooted(y)
         /\ y.life = x.life => \A b : Settled(x, b) => Settled(y, b)
         /\ y.marks = x.marks /\ y.gone = x.gone /\ Fenced(x) => Fenced(y)
BY DEF Rooted, Fenced, Live, Dead, Erased, Has, Settled, NewEvidence, Tombstones, NewCore,
       NewWorld, NewLife, Unresolved, From

(* Two databases that differ in their contexts, and what quotes them, only. *)
Besides(d, n) ==
  /\ n \in Db
  /\ n.ev = d.ev /\ n.item = d.item /\ n.life = d.life /\ n.gone = d.gone /\ n.marks = d.marks
  /\ n.history = d.history /\ n.revision = d.revision /\ n.receipts = d.receipts

LEMMA CtxWith ==
  ASSUME NEW d \in Db, NEW X \in [Context -> Copies]
  PROVE  LET n == [d EXCEPT !.ctx = X] IN
         /\ Besides(d, n) /\ n.ctx = X /\ n.lead = d.lead /\ n.owed = d.owed
BY DEF Db, Besides

LEMMA RedactedIs ==
  ASSUME NEW d \in Db, NEW S
  PROVE  LET n == Redacted(d, S) IN
         /\ Besides(d, n)
         /\ \A c \in Context : n.ctx[c] =
              IF c \in Reached(d, S) /\ d.ctx[c] = "live" THEN "marked" ELSE d.ctx[c]
         /\ n.lead = {e \in d.lead : Before[e] \cap Reached(d, S) = {}}
         /\ n.owed = d.owed \ {TextOf[c] : c \in {c \in Context : c \in Reached(d, S) /\ d.ctx[c] # "none"}}
<1> DEFINE X == [c \in Context |-> IF c \in Reached(d, S) /\ d.ctx[c] = "live" THEN "marked" ELSE d.ctx[c]]
           L == {e \in d.lead : Before[e] \cap Reached(d, S) = {}}
           O == d.owed \ {TextOf[c] : c \in {c \in Context : c \in Reached(d, S) /\ d.ctx[c] # "none"}}
<1>1. X \in [Context -> Copies]
  BY DbFields DEF Copies
<1>2. L \in SUBSET Evidence /\ O \in SUBSET Vows
  BY DbFields
<1>3. Redacted(d, S) = [d EXCEPT !.ctx = X, !.lead = L, !.owed = O]
  BY DEF Redacted
<1>4. \A c \in Context : X[c] = IF c \in Reached(d, S) /\ d.ctx[c] = "live" THEN "marked" ELSE d.ctx[c]
  OBVIOUS
<1> HIDE DEF X
<1>5. L = {e \in d.lead : Before[e] \cap Reached(d, S) = {}}
  OBVIOUS
<1>6. O = d.owed \ {TextOf[c] : c \in {c \in Context : c \in Reached(d, S) /\ d.ctx[c] # "none"}}
  OBVIOUS
<1> HIDE DEF L, O
<1> DEFINE n == [d EXCEPT !.ctx = X, !.lead = L, !.owed = O]
<1>7. Besides(d, n) /\ n.ctx = X /\ n.lead = L /\ n.owed = O
  BY <1>1, <1>2 DEF Besides, Db
<1> HIDE DEF n
<1>8. QED
  BY <1>3, <1>4, <1>5, <1>6, <1>7 DEF n

LEMMA EvWith ==
  ASSUME NEW d \in Db, NEW E \in [Evidence -> Row \cup {NoRow}]
  PROVE  LET n == [d EXCEPT !.ev = E] IN
         /\ n \in Db /\ n.ev = E /\ n.lead = d.lead /\ n.owed = d.owed
         /\ n.ctx = d.ctx /\ n.item = d.item /\ n.life = d.life /\ n.gone = d.gone
         /\ n.marks = d.marks /\ n.history = d.history
         /\ n.revision = d.revision /\ n.receipts = d.receipts
BY DEF Db

LEMMA ItemsWith ==
  ASSUME NEW d \in Db, NEW I \in [Item -> 0..MaxVersion], NEW L \in [Item -> 0..2]
  PROVE  LET n == [d EXCEPT !.item = I, !.life = L] IN
         /\ n \in Db /\ n.item = I /\ n.life = L /\ n.lead = d.lead /\ n.owed = d.owed
         /\ n.ev = d.ev /\ n.ctx = d.ctx /\ n.gone = d.gone
         /\ n.marks = d.marks /\ n.history = d.history
         /\ n.revision = d.revision /\ n.receipts = d.receipts
BY DEF Db

-----------------------------------------------------------------------------
(* What a host does on its own.                                            *)
LEMMA ObserveOwns ==
  ASSUME Inv, NEW h \in Host, NEW e \in Evidence, Observe(h, e)
  PROVE  \E n : db' = [db EXCEPT ![h] = n] /\ Own(db[h], n)
<1> DEFINE d == db[h]
           E == [d.ev EXCEPT ![e] = NewRow(e)]
           L == IF Before[e] = {} THEN d.lead ELSE d.lead \cup {e}
           n == [d EXCEPT !.ev = E, !.lead = L]
<1>1. d \in Db /\ Rooted(d) /\ Fenced(d)
  BY DEF Inv
<1>2. d.ev \in [Evidence -> Row \cup {NoRow}] /\ d.ctx \in [Context -> Copies]
  BY <1>1, DbFields
<1>3. /\ E \in [Evidence -> Row \cup {NoRow}] /\ E[e] = NewRow(e)
      /\ \A f \in Evidence \ {e} : E[f] = d.ev[f]
  BY <1>2, NewRowIs
<1>4. db' = [db EXCEPT ![h] = n]
  BY DEF Observe
<1>5. /\ ~Has(d, e) /\ \A b \in bundles : ~Has(b, e)
      /\ OriginOf[e] # NoOrigin => From(d, OriginOf[e]) = {} /\ OriginOf[e] \notin d.gone
  BY DEF Observe, Unborn
<1>16. L \in SUBSET Evidence
  BY <1>1, DbFields
<1> HIDE DEF E, L
<1>6. /\ n \in Db /\ n.ev = E
      /\ n.ctx = d.ctx /\ n.item = d.item /\ n.life = d.life /\ n.gone = d.gone
      /\ n.marks = d.marks /\ n.history = d.history
      /\ n.revision = d.revision /\ n.receipts = d.receipts
  BY <1>1, <1>3, <1>16 DEF Db
<1> HIDE DEF n, d
<1>7. /\ Live(n, e) /\ n.ev[e].text = "full" /\ n.ev[e].origin = (OriginOf[e] # NoOrigin)
  BY <1>3, <1>6, NewRowIs, RowAssumption DEF Live, Has
<1>8. \A f \in Evidence \ {e} :
        /\ n.ev[f] = d.ev[f]
        /\ Has(n, f) <=> Has(d, f)
        /\ Live(n, f) <=> Live(d, f)
        /\ Dead(n, f) <=> Dead(d, f)
        /\ Erased(n, f) <=> Erased(d, f)
  BY <1>3, <1>6 DEF Live, Has, Dead, Erased
<1>9. Has(n, e) /\ ~Dead(n, e) /\ ~Erased(n, e) /\ ~Dead(d, e) /\ ~Live(d, e) /\ ~Erased(d, e)
  BY <1>5, <1>7 DEF Live, Has, Dead, Erased
<1>10. Rooted(n)
  <2>1. \A f \in Evidence : /\ Live(n, f) => n.ev[f].text = "full"
                            /\ Live(n, f) /\ OriginOf[f] # NoOrigin => n.ev[f].origin
                            /\ Dead(n, f) => ~n.ev[f].origin
    BY <1>1, <1>7, <1>8, <1>9 DEF Rooted
  <2>2. \A i \in Core : Sources[i] \subseteq Evidence
    BY ConstantsAssumption
  <2>3. \A i \in Core : n.item[i] # 0 => \A f \in Sources[i] : Has(n, f) /\ ~Erased(n, f)
    BY <1>1, <1>5, <1>6, <1>8, <1>9, <2>2 DEF Rooted
  <2>4. QED
    BY <2>1, <2>3 DEF Rooted
<1>11. Fenced(n)
  BY <1>1, <1>5, <1>6, <1>7, <1>8 DEF Fenced
<1>12. Monotone(d, n)
  <2>1. \A f \in Evidence : Dead(d, f) => n.ev[f] = d.ev[f] /\ d.ev[f].deleted \in 0..MaxTime
    BY <1>2, <1>8, <1>9, RowFields DEF Dead
  <2>2. QED
    BY <1>6, <2>1 DEF Monotone, ErasedCopy
<1>13. Grounded(d, n)
  BY <1>6 DEF Grounded
<1>14. ASSUME NEW b \in bundles, Settled(d, b) PROVE Settled(n, b)
  <2>1. \A o : From(d, o) \subseteq From(n, o)
    BY <1>8, <1>9 DEF From
  <2>2. Unresolved(d, b) \subseteq Unresolved(n, b)
    BY <1>5, <1>8, <2>1 DEF Unresolved
  <2>3. NewEvidence(n, b) \subseteq NewEvidence(d, b)
    BY <1>5, <1>8, <2>2 DEF NewEvidence
  <2>4. Tombstones(n, b) \subseteq Tombstones(d, b)
    <3>1. ~Dead(b, e)
      BY <1>5 DEF Dead
    <3>2. QED
      BY <1>8, <2>3, <3>1 DEF Tombstones
  <2>5. NewCore(n, b) \subseteq NewCore(d, b) /\ NewWorld(n, b) = NewWorld(d, b) /\ NewLife(n, b) = NewLife(d, b)
    BY <1>6, <2>2 DEF NewCore, NewWorld, NewLife
  <2>6. QED
    BY <1>14, <2>3, <2>4, <2>5 DEF Settled
<1>15. Own(d, n)
  BY <1>6, <1>10, <1>11, <1>12, <1>13, <1>14 DEF Own, Quiet
<1>17. QED
  BY <1>4, <1>15 DEF d, n

LEMMA FormOwns ==
  ASSUME Inv, NEW h \in Host, NEW i \in Item, Form(h, i)
  PROVE  \E n : db' = [db EXCEPT ![h] = n] /\ Own(db[h], n)
<1> DEFINE d == db[h]
           I == [d.item EXCEPT ![i] = 1]
           m == [d EXCEPT !.item = I]
           n == Moved(m)
<1>1. d \in Db /\ Rooted(d) /\ Fenced(d)
  BY DEF Inv
<1>2. d.item \in [Item -> 0..MaxVersion] /\ d.ev \in [Evidence -> Row \cup {NoRow}]
  BY <1>1, DbFields
<1>3. 1 \in 0..MaxVersion
  BY ConstantsAssumption
<1>4. I \in [Item -> 0..MaxVersion] /\ I[i] = 1 /\ \A j \in Item \ {i} : I[j] = d.item[j]
  BY <1>2, <1>3
<1>5. db' = [db EXCEPT ![h] = n]
  BY DEF Form
<1>6. i \notin d.marks /\ \A e \in Sources[i] : Live(d, e)
  BY DEF Form, Unformed
<1> HIDE DEF I
<1>7. /\ m \in Db /\ m.item = I
      /\ m.ev = d.ev /\ m.ctx = d.ctx /\ m.gone = d.gone
      /\ m.marks = d.marks /\ m.revision = d.revision /\ m.receipts = d.receipts
  BY <1>1, <1>4 DEF Db
<1> HIDE DEF m
<1>8. /\ n \in Db /\ n.item = I /\ n.revision = d.revision + 1
      /\ n.ev = d.ev /\ n.ctx = d.ctx /\ n.gone = d.gone
      /\ n.marks = d.marks /\ n.receipts = d.receipts
  BY <1>7, MovedIs
<1> HIDE DEF n, d
<1>9. \A e : /\ Has(n, e) <=> Has(d, e)
             /\ Live(n, e) <=> Live(d, e)
             /\ Dead(n, e) <=> Dead(d, e)
             /\ Erased(n, e) <=> Erased(d, e)
  BY <1>8 DEF Live, Has, Dead, Erased
<1>10. \A e \in Sources[i] : Has(d, e) /\ ~Dead(d, e) /\ ~Erased(d, e)
  BY <1>6 DEF Live, Dead, Erased
<1>11. Rooted(n)
  <2>1. \A j \in Core : n.item[j] # 0 => \A e \in Sources[j] : Has(n, e) /\ ~Erased(n, e)
    BY <1>1, <1>4, <1>8, <1>9, <1>10, ConstantsAssumption DEF Rooted
  <2>2. QED
    BY <1>1, <1>8, <1>9, <2>1 DEF Rooted
<1>12. Fenced(n)
  BY <1>1, <1>4, <1>6, <1>8, <1>9 DEF Fenced
<1>13. Monotone(d, n)
  <2>1. \A f \in Evidence : Dead(d, f) => d.ev[f].deleted \in 0..MaxTime
    BY <1>2, RowFields DEF Dead
  <2>2. QED
    BY <1>8, <2>1 DEF Monotone, ErasedCopy
<1>14. Grounded(d, n)
  BY <1>4, <1>8, <1>10, ConstantsAssumption DEF Grounded
<1>15. Own(d, n)
  BY <1>8, <1>11, <1>12, <1>13, <1>14 DEF Own, Quiet
<1>16. QED
  BY <1>5, <1>15 DEF d, n

(* A step that changes versions and lifecycle only of what is there. *)
LEMMA VersionsOwn ==
  ASSUME Inv, NEW h \in Host, NEW n \in Db, n.ev = db[h].ev, n.ctx = db[h].ctx,
         n.gone = db[h].gone, n.marks = db[h].marks, n.receipts = db[h].receipts,
         n.revision = db[h].revision + 1,
         \A i \in Item : db[h].item[i] = 0 => n.item[i] = 0
  PROVE  Own(db[h], n)
<1> DEFINE d == db[h]
<1>1. d \in Db /\ Rooted(d) /\ Fenced(d) /\ d.ev \in [Evidence -> Row \cup {NoRow}]
  BY DbFields DEF Inv
<1>2. \A e : /\ Has(n, e) <=> Has(d, e)
             /\ Live(n, e) <=> Live(d, e)
             /\ Dead(n, e) <=> Dead(d, e)
             /\ Erased(n, e) <=> Erased(d, e)
  BY DEF Live, Has, Dead, Erased
<1>3. \A i \in Core : i \in Item
  BY ConstantsAssumption
<1>4. Rooted(n) /\ Fenced(n) /\ Grounded(d, n)
  BY <1>1, <1>2, <1>3 DEF Rooted, Fenced, Grounded
<1>5. Monotone(d, n)
  <2>1. \A f \in Evidence : Dead(d, f) => d.ev[f].deleted \in 0..MaxTime
    BY <1>1, RowFields DEF Dead
  <2>2. QED
    BY <2>1 DEF Monotone, ErasedCopy
<1>6. QED
  BY <1>4, <1>5 DEF Own, Quiet

LEMMA ReviseOwns ==
  ASSUME Inv, NEW h \in Host, NEW i \in Item, Revise(h, i)
  PROVE  \E n : db' = [db EXCEPT ![h] = n] /\ Own(db[h], n)
<1> DEFINE d == db[h]
           I == [d.item EXCEPT ![i] = @ + 1]
           m == [d EXCEPT !.item = I]
           n == Moved(m)
<1>1. d \in Db /\ d.item \in [Item -> 0..MaxVersion]
  BY DbFields DEF Inv
<1>2. d.item[i] \in 1..(MaxVersion - 1) /\ MaxVersion \in Nat
  BY ConstantsAssumption DEF Revise
<1>3. I \in [Item -> 0..MaxVersion] /\ \A j \in Item : d.item[j] = 0 => I[j] = 0
  BY <1>1, <1>2
<1>4. db' = [db EXCEPT ![h] = n]
  BY DEF Revise
<1> HIDE DEF I
<1>5. /\ m \in Db /\ m.item = I
      /\ m.ev = d.ev /\ m.ctx = d.ctx /\ m.gone = d.gone
      /\ m.marks = d.marks /\ m.revision = d.revision /\ m.receipts = d.receipts
  BY <1>1, <1>3 DEF Db
<1> HIDE DEF m
<1>6. /\ n \in Db /\ n.item = I /\ n.revision = d.revision + 1
      /\ n.ev = d.ev /\ n.ctx = d.ctx /\ n.gone = d.gone
      /\ n.marks = d.marks /\ n.receipts = d.receipts
  BY <1>5, MovedIs
<1> HIDE DEF n
<1>7. Own(d, n)
  BY <1>3, <1>6, VersionsOwn
<1>8. QED
  BY <1>4, <1>7

LEMMA MuteOwns ==
  ASSUME Inv, NEW h \in Host, NEW i \in Item, Mute(h, i)
  PROVE  \E n : db' = [db EXCEPT ![h] = n] /\ Own(db[h], n)
<1>1. PICK v \in {1, 2} : db' = [db EXCEPT ![h] = Moved([db[h] EXCEPT !.life[i] = v])]
  BY DEF Mute
<1> DEFINE d == db[h]
           L == [d.life EXCEPT ![i] = v]
           m == [d EXCEPT !.life = L]
           n == Moved(m)
<1>2. d \in Db /\ d.life \in [Item -> 0..2]
  BY DbFields DEF Inv
<1>3. L \in [Item -> 0..2]
  BY <1>2
<1>4. db' = [db EXCEPT ![h] = n]
  BY <1>1
<1> HIDE DEF L
<1>5. /\ m \in Db /\ m.item = d.item
      /\ m.ev = d.ev /\ m.ctx = d.ctx /\ m.gone = d.gone
      /\ m.marks = d.marks /\ m.revision = d.revision /\ m.receipts = d.receipts
  BY <1>2, <1>3 DEF Db
<1> HIDE DEF m
<1>6. /\ n \in Db /\ n.item = d.item /\ n.revision = d.revision + 1
      /\ n.ev = d.ev /\ n.ctx = d.ctx /\ n.gone = d.gone
      /\ n.marks = d.marks /\ n.receipts = d.receipts
  BY <1>5, MovedIs
<1> HIDE DEF n
<1>7. Own(d, n)
  BY <1>6, VersionsOwn
<1>8. QED
  BY <1>4, <1>7

LEMMA RecordOwns ==
  ASSUME Inv, NEW h \in Host, NEW c \in Context, Record(h, c)
  PROVE  \E n : db' = [db EXCEPT ![h] = n] /\ Own(db[h], n)
<1> DEFINE d == db[h]
           X == [d.ctx EXCEPT ![c] = "live"]
           O == d.owed \cup ({TextOf[c]} \cap Vows)
           n == [d EXCEPT !.ctx = X, !.owed = O]
<1>1. d \in Db /\ Rooted(d) /\ Fenced(d)
  BY DEF Inv
<1>2. d.ctx \in [Context -> Copies] /\ d.ev \in [Evidence -> Row \cup {NoRow}]
  BY <1>1, DbFields
<1>3. X \in [Context -> Copies] /\ \A k \in Context \ {c} : X[k] = d.ctx[k]
  BY <1>2 DEF Copies
<1>4. db' = [db EXCEPT ![h] = n] /\ d.ctx[c] = "none"
  BY DEF Record
<1>10. O \in SUBSET Vows
  BY <1>1, DbFields
<1> HIDE DEF X, O
<1>5. Besides(d, n) /\ n.ctx = X
  BY <1>1, <1>3, <1>10 DEF Besides, Db
<1> HIDE DEF n, d
<1>6. Rooted(n) /\ Fenced(n) /\ \A b : Settled(d, b) => Settled(n, b)
  BY <1>1, <1>5, SameRows DEF Besides
<1>7. Monotone(d, n)
  <2>1. \A f \in Evidence : Dead(d, f) => d.ev[f].deleted \in 0..MaxTime
    BY <1>2, RowFields DEF Dead
  <2>2. QED
    BY <1>3, <1>4, <1>5, <2>1 DEF Monotone, ErasedCopy, Besides, d
<1>8. Own(d, n)
  BY <1>5, <1>6, <1>7 DEF Own, Quiet, Grounded, Besides
<1>9. QED
  BY <1>4, <1>8 DEF d, n

LEMMA ForgetOwns ==
  ASSUME Inv, NEW h \in Host, NEW e \in Evidence, Forget(h, e)
  PROVE  \E n : db' = [db EXCEPT ![h] = n] /\ Own(db[h], n)
<1> DEFINE d == db[h]
           t == now'
           r == [d.ev[e] EXCEPT !.deleted = t, !.origin = FALSE]
           E == [d.ev EXCEPT ![e] = r]
           H == IF d.ev[e].origin THEN d.history \cup {e} ELSE d.history
           m == [d EXCEPT !.ev = E, !.history = H]
           n == Moved(m)
<1>1. d \in Db /\ Rooted(d) /\ Fenced(d)
  BY DEF Inv
<1>2. /\ d.ev \in [Evidence -> Row \cup {NoRow}] /\ d.history \in SUBSET Evidence
      /\ d.item \in [Item -> 0..MaxVersion]
  BY <1>1, DbFields
<1>3. t \in 1..MaxTime
  BY ConstantsAssumption DEF Forget, Alone, Inv
<1>4. Live(d, e) /\ d.ev[e] \in Row
  BY <1>2, RowFields DEF Forget, Live
<1>0. t \in 0..MaxTime
  BY <1>3
<1>5. /\ r \in Row /\ r.deleted = t /\ r.origin = FALSE /\ r.text = d.ev[e].text
  BY <1>4, <1>0, RowForgotten
<1>6. db' = [db EXCEPT ![h] = n]
  <2>1. db' = [db EXCEPT ![h] = Moved([d EXCEPT
         !.ev[e].deleted = t, !.ev[e].origin = FALSE,
         !.history = IF d.ev[e].origin THEN @ \cup {e} ELSE @])]
    BY DEF Forget
  <2>2. [d EXCEPT !.ev[e].deleted = t, !.ev[e].origin = FALSE,
                  !.history = IF d.ev[e].origin THEN @ \cup {e} ELSE @] = m
    BY <1>1, <1>2, <1>4 DEF Db
  <2>3. QED
    BY <2>1, <2>2
<1> HIDE DEF r, t
<1>7. /\ E \in [Evidence -> Row \cup {NoRow}] /\ E[e] = r
      /\ \A f \in Evidence \ {e} : E[f] = d.ev[f]
  BY <1>2, <1>5
<1> HIDE DEF E
<1>8. /\ m \in Db /\ m.item = d.item
      /\ m.ev = E /\ m.ctx = d.ctx /\ m.gone = d.gone
      /\ m.marks = d.marks /\ m.revision = d.revision /\ m.receipts = d.receipts
  BY <1>1, <1>2, <1>7 DEF Db
<1> HIDE DEF m
<1>9. /\ n \in Db /\ n.item = d.item /\ n.revision = d.revision + 1
      /\ n.ev = E /\ n.ctx = d.ctx /\ n.gone = d.gone
      /\ n.marks = d.marks /\ n.receipts = d.receipts
  BY <1>8, MovedIs
<1> HIDE DEF n, d
<1>10. \A f \in Evidence \ {e} :
        /\ n.ev[f] = d.ev[f]
        /\ Has(n, f) <=> Has(d, f)
        /\ Live(n, f) <=> Live(d, f)
        /\ Dead(n, f) <=> Dead(d, f)
        /\ Erased(n, f) <=> Erased(d, f)
  BY <1>7, <1>9 DEF Live, Has, Dead, Erased
<1>11. d.ev[e].text = "full" /\ ~Dead(d, e)
  BY <1>1, <1>4 DEF Rooted, Live, Dead
<1>12. Has(n, e) /\ ~Live(n, e) /\ ~n.ev[e].origin /\ ~Erased(n, e)
  BY <1>3, <1>5, <1>7, <1>9, <1>11, RowAssumption DEF Live, Has, Dead, Erased
<1>13. Rooted(n)
  <2>1. \A i \in Core : i \in Item /\ Sources[i] \subseteq Evidence
    BY ConstantsAssumption
  <2>2. \A i \in Core : n.item[i] # 0 => \A f \in Sources[i] : Has(n, f) /\ ~Erased(n, f)
    BY <1>1, <1>9, <1>10, <1>12, <2>1 DEF Rooted
  <2>3. QED
    BY <1>1, <1>10, <1>12, <2>2 DEF Rooted
<1>14. Fenced(n)
  BY <1>1, <1>9, <1>10, <1>12 DEF Fenced
<1>15. Monotone(d, n)
  <2>1. \A f \in Evidence : Dead(d, f) => n.ev[f] = d.ev[f] /\ d.ev[f].deleted \in 0..MaxTime
    BY <1>2, <1>10, <1>11, RowFields DEF Dead, d
  <2>2. QED
    BY <1>9, <2>1 DEF Monotone, ErasedCopy
<1>16. Own(d, n)
  BY <1>9, <1>13, <1>14, <1>15 DEF Own, Quiet, Grounded
<1>17. QED
  BY <1>6, <1>16 DEF d, n

(* Erasing Evidence takes the items formed from it, and marks them. *)
Going(d, S) == {i \in Item : d.item[i] # 0 /\ Sources[i] \cap S # {}}
Freed(d, S) == {OriginOf[e] : e \in {e \in S : d.ev[e].origin \/ e \in d.history}}

Wiped(d, S, n) ==
  /\ n.receipts = d.receipts
  /\ \A e \in Evidence \ S : n.ev[e] = d.ev[e]
  /\ \A e \in S : /\ n.ev[e] \in Row /\ n.ev[e].text = "empty" /\ n.ev[e].origin = FALSE
                  /\ n.ev[e].deleted # 0 /\ n.ev[e].deleted >= d.ev[e].deleted
  /\ \A i \in Item : n.item[i] = IF i \in Going(d, S) THEN 0 ELSE d.item[i]
  /\ n.marks = d.marks \cup Going(d, S) /\ n.gone = d.gone \cup Freed(d, S)
  /\ \A c \in Context : ErasedCopy(d, c) => ErasedCopy(n, c)

LEMMA WithoutIs ==
  ASSUME NEW d \in Db, NEW S \in SUBSET Evidence, \A e \in S : Has(d, e), NEW t \in 1..MaxTime
  PROVE  /\ Without(d, S, t) \in Db /\ Wiped(d, S, Without(d, S, t))
         /\ Without(d, S, t).revision = d.revision
<1> DEFINE E == [e \in Evidence |->
                   IF e \in S THEN [d.ev[e] EXCEPT !.text = "empty", !.origin = FALSE,
                                                   !.deleted = IF @ = 0 THEN t ELSE @]
                   ELSE d.ev[e]]
           G == Going(d, S)
           I == [i \in Item |-> IF i \in G THEN 0 ELSE d.item[i]]
           L == [i \in Item |-> IF i \in G THEN 0 ELSE d.life[i]]
           Q == d.lead \ S
           O == d.owed \ {p \in DOMAIN Said : Said[p] \cap S # {}}
           m == [d EXCEPT !.ev = E, !.item = I, !.life = L, !.lead = Q, !.owed = O,
                          !.marks = @ \cup G, !.gone = @ \cup Freed(d, S), !.history = @ \ S]
<1>1. /\ d.ev \in [Evidence -> Row \cup {NoRow}] /\ d.item \in [Item -> 0..MaxVersion]
      /\ d.life \in [Item -> 0..2] /\ d.history \in SUBSET Evidence
      /\ d.gone \in SUBSET Range(OriginOf) /\ d.marks \in SUBSET Item
  BY DbFields
<1>2. ASSUME NEW e \in S
      PROVE  /\ E[e] \in Row /\ E[e].text = "empty" /\ E[e].origin = FALSE
             /\ E[e].deleted # 0 /\ E[e].deleted >= d.ev[e].deleted
  <2>1. d.ev[e] \in Row
    BY <1>1, RowFields
  <2> DEFINE x == IF d.ev[e].deleted = 0 THEN t ELSE d.ev[e].deleted
  <2>2. d.ev[e].deleted \in 0..MaxTime /\ x \in 0..MaxTime /\ x # 0 /\ x >= d.ev[e].deleted
    BY <2>1, ConstantsAssumption DEF Row
  <2> DEFINE q == [d.ev[e] EXCEPT !.text = "empty", !.origin = FALSE, !.deleted = x]
  <2>3. E[e] = q
    BY <2>1 DEF Row
  <2> HIDE DEF E, x
  <2>4. q \in Row /\ q.deleted = x /\ q.origin = FALSE /\ q.text = "empty"
    BY <2>1, <2>2, RowErased
  <2> HIDE DEF q
  <2>5. QED
    BY <2>2, <2>3, <2>4
<1>3. E \in [Evidence -> Row \cup {NoRow}] /\ \A e \in Evidence \ S : E[e] = d.ev[e]
  <2>1. \A e \in Evidence \ S : E[e] = d.ev[e] /\ E[e] \in Row \cup {NoRow}
    BY <1>1
  <2> QED
    BY <1>2, <2>1
<1> HIDE DEF E
<1>4. G \subseteq Item
  BY DEF Going
<1>5. Freed(d, S) \subseteq Range(OriginOf)
  BY ConstantsAssumption DEF Freed
<1> HIDE DEF G
<1>6. /\ I \in [Item -> 0..MaxVersion] /\ L \in [Item -> 0..2]
      /\ \A i \in Item : I[i] = IF i \in G THEN 0 ELSE d.item[i]
  BY <1>1, ConstantsAssumption
<1>13. Q \in SUBSET Evidence /\ O \in SUBSET Vows
  BY DbFields
<1> HIDE DEF I, L, Q, O
<1>7. /\ m \in Db /\ m.ev = E /\ m.item = I /\ m.marks = d.marks \cup G
      /\ m.gone = d.gone \cup Freed(d, S) /\ m.ctx = d.ctx
      /\ m.receipts = d.receipts /\ m.revision = d.revision
  BY <1>1, <1>3, <1>4, <1>5, <1>6, <1>13 DEF Db
<1>8. Without(d, S, t) = Redacted(m, S \cup G)
  BY DEF Without, G, Going, E, I, L, Q, O, Freed
<1> HIDE DEF m
<1> DEFINE n == Redacted(m, S \cup G)
<1>9. Besides(m, n) /\ \A c \in Context : ErasedCopy(m, c) => ErasedCopy(n, c)
  BY <1>7, RedactedIs DEF ErasedCopy
<1> HIDE DEF n
<1>10. \A c \in Context : ErasedCopy(d, c) => ErasedCopy(n, c)
  BY <1>7, <1>9 DEF ErasedCopy
<1>11. Wiped(d, S, n)
  BY <1>2, <1>3, <1>6, <1>7, <1>9, <1>10 DEF Wiped, Besides, G
<1>12. QED
  BY <1>7, <1>8, <1>9, <1>11 DEF Besides, n

LEMMA WipedSame ==
  ASSUME NEW d, NEW S, NEW m, NEW n, Wiped(d, S, m), n.ev = m.ev, n.item = m.item,
         n.marks = m.marks, n.gone = m.gone, n.receipts = m.receipts,
         \A c \in Context : ErasedCopy(m, c) => ErasedCopy(n, c)
  PROVE  Wiped(d, S, n)
BY DEF Wiped

LEMMA WipedOwns ==
  ASSUME NEW d \in Db, Rooted(d), Fenced(d), NEW S \in SUBSET Evidence,
         \A e \in S : Has(d, e) /\ Erasable(d, e) /\ ~Erased(d, e),
         NEW n \in Db, Wiped(d, S, n), n.revision = d.revision + 1
  PROVE  Own(d, n)
<1>1. d.ev \in [Evidence -> Row \cup {NoRow}]
  BY DbFields
<1>2. \A f \in Evidence \ S :
        /\ n.ev[f] = d.ev[f]
        /\ Has(n, f) <=> Has(d, f)
        /\ Live(n, f) <=> Live(d, f)
        /\ Dead(n, f) <=> Dead(d, f)
        /\ Erased(n, f) <=> Erased(d, f)
  BY DEF Wiped, Live, Has, Dead, Erased
<1>3. \A f \in S : Has(n, f) /\ ~Live(n, f) /\ ~n.ev[f].origin
  BY RowAssumption DEF Wiped, Live, Has
<1>4. \A i \in Item : n.item[i] # 0 => n.item[i] = d.item[i] /\ i \notin Going(d, S)
  BY DEF Wiped
<1>5. \A i \in Core : i \in Item /\ Sources[i] \subseteq Evidence
  BY ConstantsAssumption
<1>6. Rooted(n)
  <2>1. \A i \in Core : n.item[i] # 0 => Sources[i] \cap S = {} /\ d.item[i] # 0
    BY <1>4, <1>5 DEF Going
  <2>2. \A i \in Core : n.item[i] # 0 => \A f \in Sources[i] : Has(n, f) /\ ~Erased(n, f)
    BY <1>2, <1>5, <2>1 DEF Rooted
  <2>3. \A f \in Evidence : /\ Live(n, f) => n.ev[f].text = "full"
                            /\ Live(n, f) /\ OriginOf[f] # NoOrigin => n.ev[f].origin
                            /\ Dead(n, f) => ~n.ev[f].origin
    BY <1>2, <1>3 DEF Rooted
  <2>4. QED
    BY <2>2, <2>3 DEF Rooted
<1>7. Fenced(n)
  <2>1. \A i \in Item : n.item[i] # 0 => i \notin n.marks
    BY <1>4 DEF Wiped, Fenced
  <2>2. ASSUME NEW e \in Evidence, Live(n, e), n.ev[e].origin PROVE OriginOf[e] \notin n.gone
    <3>1. e \notin S /\ Live(d, e) /\ d.ev[e].origin
      BY <1>2, <1>3, <2>2
    <3>2. OriginOf[e] \notin d.gone /\ e \in From(d, OriginOf[e])
      BY <3>1 DEF Fenced, From
    <3>3. OriginOf[e] \notin Freed(d, S)
      BY <3>1, <3>2 DEF Freed, Erasable
    <3>4. QED
      BY <3>2, <3>3 DEF Wiped
  <2>3. QED
    BY <2>1, <2>2 DEF Fenced
<1>8. Monotone(d, n)
  <2>1. ASSUME NEW e \in Evidence, Dead(d, e)
        PROVE  n.ev[e].deleted >= d.ev[e].deleted /\ (Erased(d, e) => n.ev[e] = d.ev[e])
    <3>1. CASE e \in S
      BY <3>1 DEF Wiped
    <3>2. CASE e \notin S
      <4>1. n.ev[e] = d.ev[e] /\ d.ev[e].deleted \in 0..MaxTime
        BY <1>1, <1>2, <2>1, <3>2, RowFields DEF Dead
      <4>2. QED
        BY <4>1
    <3>3. QED
      BY <3>1, <3>2
  <2>2. QED
    BY <2>1 DEF Monotone, Wiped
<1>9. Grounded(d, n)
  BY <1>4, <1>5 DEF Grounded
<1>10. QED
  BY <1>6, <1>7, <1>8, <1>9 DEF Own, Quiet, Wiped

LEMMA EraseOwns ==
  ASSUME Inv, NEW h \in Host, NEW e \in Evidence, Erase(h, e)
  PROVE  \E n : db' = [db EXCEPT ![h] = n] /\ Own(db[h], n)
<1> DEFINE d == db[h]
           t == now'
           m == Without(d, {e}, t)
           n == Moved(m)
<1>1. d \in Db /\ Rooted(d) /\ Fenced(d)
  BY DEF Inv
<1>2. t \in 1..MaxTime
  BY ConstantsAssumption DEF Erase, Alone, Inv
<1>3. Has(d, e) /\ Erasable(d, e) /\ ~Erased(d, e) /\ db' = [db EXCEPT ![h] = n]
  BY DEF Erase
<1> HIDE DEF t
<1>4. m \in Db /\ Wiped(d, {e}, m) /\ m.revision = d.revision
  BY <1>1, <1>2, <1>3, WithoutIs
<1> HIDE DEF m
<1>5. /\ n \in Db /\ n.revision = d.revision + 1 /\ n.ev = m.ev /\ n.item = m.item
      /\ n.marks = m.marks /\ n.gone = m.gone /\ n.receipts = m.receipts /\ n.ctx = m.ctx
  BY <1>4, MovedIs
<1> HIDE DEF n, d
<1>6. Wiped(d, {e}, n)
  BY <1>4, <1>5, WipedSame DEF ErasedCopy
<1>7. Own(d, n)
  BY <1>1, <1>3, <1>5, <1>6, WipedOwns
<1>8. QED
  BY <1>3, <1>7 DEF d, n

LEMMA ConversationOwns ==
  ASSUME Inv, NEW h \in Host, NEW p \in DOMAIN Said, EraseConversation(h, p)
  PROVE  \E n : db' = [db EXCEPT ![h] = n] /\ Own(db[h], n)
<1> DEFINE d == db[h]
           t == now'
           S == {e \in Said[p] : Live(d, e)}
           copies == {c \in Context : TextOf[c] = p /\ d.ctx[c] \in {"live", "marked"}}
           m == Without(d, S, t)
           r == Redacted(m, copies)
           X == [c \in Context |-> IF c \in copies THEN "blank" ELSE r.ctx[c]]
           O == r.owed \ {p}
           q == [r EXCEPT !.ctx = X, !.owed = O]
           n == Moved(q)
<1>1. d \in Db /\ Rooted(d) /\ Fenced(d)
  BY DEF Inv
<1>2. t \in 1..MaxTime
  BY ConstantsAssumption DEF EraseConversation, Alone, Inv
<1>3. (\A e \in S : Erasable(d, e)) /\ db' = [db EXCEPT ![h] = n]
  BY DEF EraseConversation
<1>4. S \subseteq Evidence /\ \A e \in S : Has(d, e) /\ ~Erased(d, e)
  BY ConstantsAssumption DEF Live, Erased, Dead
<1> HIDE DEF t, S
<1>5. m \in Db /\ Wiped(d, S, m) /\ m.revision = d.revision
  BY <1>1, <1>2, <1>4, WithoutIs
<1> HIDE DEF m
<1>6. Besides(m, r) /\ \A c \in Context : ErasedCopy(m, c) => ErasedCopy(r, c)
  BY <1>5, RedactedIs DEF ErasedCopy
<1> HIDE DEF r, copies
<1>7. X \in [Context -> Copies]
  <2>1. r.ctx \in [Context -> Copies]
    BY <1>6, DbFields DEF Besides
  <2>2. QED
    BY <2>1 DEF Copies
<1>8. \A c \in Context : X[c] = IF c \in copies THEN "blank" ELSE r.ctx[c]
  OBVIOUS
<1>15. O \in SUBSET Vows
  BY <1>6, DbFields DEF Besides
<1> HIDE DEF X, O
<1>9. Besides(r, q) /\ q.ctx = X
  BY <1>6, <1>7, <1>15 DEF Besides, Db
<1> HIDE DEF q
<1>10. Besides(q, q) /\ \A c \in Context : ErasedCopy(r, c) => ErasedCopy(q, c)
  BY <1>8, <1>9 DEF ErasedCopy, Besides
<1>11. /\ n \in Db /\ n.revision = d.revision + 1 /\ n.ev = m.ev /\ n.item = m.item
       /\ n.marks = m.marks /\ n.gone = m.gone /\ n.receipts = m.receipts /\ n.ctx = q.ctx
  BY <1>5, <1>6, <1>9, MovedIs DEF Besides
<1> HIDE DEF n
<1>12. Wiped(d, S, n)
  <2>1. \A c \in Context : ErasedCopy(d, c) => ErasedCopy(n, c)
    BY <1>5, <1>6, <1>10, <1>11 DEF ErasedCopy, Wiped
  <2>2. QED
    BY <1>5, <1>11, <2>1 DEF Wiped
<1> HIDE DEF d
<1>13. Own(d, n)
  BY <1>1, <1>3, <1>4, <1>11, <1>12, WipedOwns
<1>14. QED
  BY <1>3, <1>13 DEF d, n

-----------------------------------------------------------------------------
(* Contexts, one after another.                                            *)
(* What is redacted is what it starts from, and copies made from what is   *)
(* redacted.                                                               *)
LEMMA ReachedIs ==
  ASSUME NEW d, NEW S
  PROVE  /\ S \subseteq Reached(d, S)
         /\ \A c \in Reached(d, S) \ S :
              c \in Context /\ d.ctx[c] = "live" /\ Mentions[c] \cap Reached(d, S) # {}
<1> DEFINE N == Cardinality(Context)
           Step(x) == x \cup {c \in Context : d.ctx[c] = "live" /\ Mentions[c] \cap x # {}}
           T == {n \in Nat : \E g : g = [i \in 0..n |-> IF i = 0 THEN S ELSE Step(g[i - 1])]}
           R == CHOOSE g : g = [i \in 0..N |-> IF i = 0 THEN S ELSE Step(g[i - 1])]
<1>1. N \in Nat
  BY FS_CardinalityType, ConstantsAssumption
<1>2. Reached(d, S) = R[N]
  BY DEF Reached
<1>3. \A x : /\ x \subseteq Step(x)
             /\ \A c \in Step(x) \ x : c \in Context /\ d.ctx[c] = "live" /\ Mentions[c] \cap x # {}
  OBVIOUS
<1> HIDE DEF Step
<1>4. 0 \in T
  <2> DEFINE g == [i \in 0..0 |-> S]
  <2>1. g = [i \in 0..0 |-> IF i = 0 THEN S ELSE Step(g[i - 1])]
    OBVIOUS
  <2>2. QED
    BY <2>1
<1>5. ASSUME NEW n \in Nat, n \in T PROVE n + 1 \in T
  <2>1. PICK g : g = [i \in 0..n |-> IF i = 0 THEN S ELSE Step(g[i - 1])]
    BY <1>5
  <2> DEFINE f == [i \in 0..n + 1 |-> IF i = n + 1 THEN Step(g[n]) ELSE g[i]]
  <2>2. /\ \A i \in 0..n + 1 : f[i] = IF i = n + 1 THEN Step(g[n]) ELSE g[i]
        /\ f = [i \in 0..n + 1 |-> f[i]]
    OBVIOUS
  <2> HIDE DEF f
  <2>3. ASSUME NEW i \in 0..n + 1 PROVE f[i] = IF i = 0 THEN S ELSE Step(f[i - 1])
    <3>1. CASE i = n + 1
      <4>1. f[n + 1] = Step(g[n]) /\ f[n] = g[n]
        BY <2>2
      <4>2. QED
        BY <3>1, <4>1
    <3>2. CASE i \in 0..n
      <4>1. f[i] = g[i] /\ (i # 0 => f[i - 1] = g[i - 1])
        BY <2>2, <3>2
      <4>2. g[i] = IF i = 0 THEN S ELSE Step(g[i - 1])
        BY <2>1, <3>2
      <4>3. QED
        BY <4>1, <4>2
    <3>3. QED
      BY <3>1, <3>2
  <2>4. f = [i \in 0..n + 1 |-> IF i = 0 THEN S ELSE Step(f[i - 1])]
    BY <2>2, <2>3
  <2>5. QED
    BY <2>4
<1>6. N \in T
  <2> HIDE DEF T
  <2>1. QED
    BY <1>1, <1>4, <1>5, Counting
<1>7. R = [i \in 0..N |-> IF i = 0 THEN S ELSE Step(R[i - 1])]
  BY <1>6
<1> HIDE DEF R
<1> DEFINE Good(x) == /\ S \subseteq x
                      /\ \A c \in x \ S : c \in Context /\ d.ctx[c] = "live" /\ Mentions[c] \cap x # {}
           U == {n \in Nat : n <= N => Good(R[n])}
<1>8. 0 \in U
  BY <1>1, <1>7
<1>12. \A x : Good(x) => Good(Step(x))
  BY <1>3
<1> HIDE DEF Good
<1>9. ASSUME NEW n \in Nat, n \in U PROVE n + 1 \in U
  <2>1. CASE n + 1 <= N
    <3>1. n + 1 \in 0..N /\ n + 1 # 0 /\ n <= N /\ (n + 1) - 1 = n
      BY <1>1, <2>1
    <3>2. R[n + 1] = Step(R[n])
      BY <1>7, <3>1
    <3>3. QED
      BY <1>9, <1>12, <3>1, <3>2
  <2>2. CASE ~(n + 1 <= N)
    BY <2>2
  <2>3. QED
    BY <2>1, <2>2
<1>10. N \in U
  <2> HIDE DEF U
  <2>1. QED
    BY <1>1, <1>8, <1>9, Counting
<1>11. QED
  BY <1>1, <1>2, <1>10 DEF Good

(* Redacting starts from copies and erases no more than copies; what       *)
(* quotes one of them goes, and nothing else.                              *)
LEMMA RedactedQuotes ==
  ASSUME NEW d \in Db, NEW S \in SUBSET Context
  PROVE  LET n == Redacted(d, S)
             far == Reached(d, S) IN
         /\ S \subseteq far
         /\ \A c \in far \ S : d.ctx[c] = "live" /\ n.ctx[c] = "marked"
                               /\ Mentions[c] \cap far # {}
         /\ far \subseteq Context
         /\ \A c \in Context \ far : n.ctx[c] = d.ctx[c]
         /\ n.lead \subseteq d.lead /\ n.owed \subseteq d.owed
         /\ \A e \in d.lead : e \in n.lead <=> Before[e] \cap far = {}
         /\ \A p \in d.owed : p \in n.owed <=> ~\E c \in far : TextOf[c] = p /\ d.ctx[c] # "none"
<1>1. \A c \in Reached(d, S) \ S : c \in Context /\ d.ctx[c] = "live" /\ Mentions[c] \cap Reached(d, S) # {}
  BY ReachedIs
<1>2. S \subseteq Reached(d, S)
  BY ReachedIs
<1>3. Reached(d, S) \subseteq Context
  BY <1>1
<1>4. QED
  BY <1>1, <1>2, <1>3, RedactedIs

(* One copy written. *)
LEMMA InsertErasedIs ==
  ASSUME NEW d \in Db, NEW c \in Context, NEW copy \in {"marked", "blank"}
  PROVE  LET n == InsertErased(d, c, copy) IN
         /\ Besides(d, n)
         /\ n.ctx[c] = copy
         /\ \A k \in Context :
              \/ n.ctx[k] = copy /\ (k = c \/ copy = "marked")
              \/ /\ n.ctx[k] = "live" => d.ctx[k] = "live"
                 /\ d.ctx[k] \in {"marked", "blank"} => n.ctx[k] = d.ctx[k]
                 /\ copy = "marked" /\ Alike(c, k) => n.ctx[k] # "live"
<1> DEFINE M == {k \in Context : /\ d.ctx[k] # "none"
                                 /\ \/ k = c
                                    \/ copy = "marked" /\ Alike(c, k) /\ d.ctx[k] # "blank"} \cup {c}
           r == Redacted(d, M)
           X == [k \in Context |-> IF k \in M THEN copy ELSE r.ctx[k]]
           n == [r EXCEPT !.ctx = X]
<1>1. /\ Besides(d, r)
      /\ \A k \in Context : r.ctx[k] = IF k \in Reached(d, M) /\ d.ctx[k] = "live" THEN "marked" ELSE d.ctx[k]
  BY RedactedIs
<1>2. InsertErased(d, c, copy) = n
  BY DEF InsertErased
<1>3. \A k \in Context : k \in M => k = c \/ copy = "marked"
  OBVIOUS
<1>4. \A k \in Context \ M : copy = "marked" /\ Alike(c, k) => d.ctx[k] \in {"none", "blank"}
  OBVIOUS
<1>5. c \in M
  OBVIOUS
<1> HIDE DEF M, r
<1>6. X \in [Context -> Copies]
  <2>1. r.ctx \in [Context -> Copies]
    BY <1>1, DbFields DEF Besides
  <2>2. QED
    BY <2>1 DEF Copies
<1>7. \A k \in Context : X[k] = IF k \in M THEN copy ELSE r.ctx[k]
  OBVIOUS
<1> HIDE DEF X
<1>8. Besides(r, n) /\ n.ctx = X
  BY <1>1, <1>6, CtxWith DEF Besides
<1> HIDE DEF n
<1>9. Besides(d, n)
  BY <1>1, <1>8 DEF Besides
<1>10. n.ctx[c] = copy
  BY <1>5, <1>7, <1>8
<1>11. ASSUME NEW k \in Context
       PROVE  \/ n.ctx[k] = copy /\ (k = c \/ copy = "marked")
              \/ /\ n.ctx[k] = "live" => d.ctx[k] = "live"
                 /\ d.ctx[k] \in {"marked", "blank"} => n.ctx[k] = d.ctx[k]
                 /\ copy = "marked" /\ Alike(c, k) => n.ctx[k] # "live"
  <2>1. CASE k \in M
    BY <1>3, <1>7, <1>8, <2>1
  <2>2. CASE k \notin M
    BY <1>1, <1>4, <1>7, <1>8, <2>2
  <2>3. QED
    BY <2>1, <2>2
<1>12. QED
  BY <1>2, <1>9, <1>10, <1>11

LEMMA InsertLiveIs ==
  ASSUME NEW d \in Db, NEW c \in Context
  PROVE  LET n == InsertLive(d, c) IN
         /\ Besides(d, n)
         /\ \A k \in Context : ErasedCopy(d, k) => n.ctx[k] = d.ctx[k]
         /\ \A k \in Context \ {c} : n.ctx[k] = "live" => d.ctx[k] = "live"
         /\ n.ctx[c] = "live" => d.ctx[c] = "live" \/ (~Refused(d, c) /\ ~Tainted(d, c))
<1> DEFINE X == [d.ctx EXCEPT ![c] = "live"]
           r == [d EXCEPT !.ctx = X]
           q == Redacted(r, {c})
           n == InsertLive(d, c)
<1>1. d.ctx \in [Context -> Copies]
  BY DbFields
<1>2. X \in [Context -> Copies] /\ X[c] = "live" /\ \A k \in Context \ {c} : X[k] = d.ctx[k]
  BY <1>1 DEF Copies
<1> HIDE DEF X
<1>3. Besides(d, r) /\ r.ctx = X
  BY <1>2, CtxWith DEF Besides
<1>4. n = IF Refused(d, c) THEN d ELSE IF Tainted(r, c) THEN q ELSE r
  BY <1>2 DEF InsertLive, X
<1> HIDE DEF r
<1>5. /\ Besides(r, q)
      /\ \A k \in Context : q.ctx[k] = IF k \in Reached(r, {c}) /\ r.ctx[k] = "live" THEN "marked" ELSE r.ctx[k]
  <2>1. r \in Db
    BY <1>3 DEF Besides
  <2>2. QED
    BY <2>1, RedactedIs
<1>6. c \in Reached(r, {c})
  BY ReachedIs
<1> HIDE DEF q, n
<1>7. CASE Refused(d, c)
  <2>1. n = d /\ Besides(d, d)
    BY <1>4, <1>7 DEF Besides
  <2>2. QED
    BY <2>1 DEF n
<1>8. CASE ~Refused(d, c)
  <2>1. ~ErasedCopy(d, c)
    BY <1>8 DEF Refused
  <2>2. \A k \in Context : ErasedCopy(d, k) => r.ctx[k] = d.ctx[k]
    BY <1>2, <1>3, <2>1
  <2>3. Tainted(d, c) => Tainted(r, c)
    BY <1>3, <2>2 DEF Tainted, ErasedCopy, Dead, Has, Besides
  <2>4. CASE Tainted(r, c)
    <3>1. n = q /\ q.ctx[c] = "marked"
      BY <1>2, <1>3, <1>4, <1>5, <1>6, <1>8, <2>4
    <3>2. \A k \in Context : ErasedCopy(d, k) => q.ctx[k] = d.ctx[k]
      BY <1>5, <2>2 DEF ErasedCopy
    <3>3. \A k \in Context \ {c} : q.ctx[k] = "live" => d.ctx[k] = "live"
      BY <1>2, <1>3, <1>5
    <3>4. Besides(d, q)
      BY <1>3, <1>5 DEF Besides
    <3>5. QED
      BY <3>1, <3>2, <3>3, <3>4 DEF n
  <2>5. CASE ~Tainted(r, c)
    BY <1>2, <1>3, <1>4, <1>8, <2>2, <2>3, <2>5 DEF n
  <2>6. QED
    BY <2>4, <2>5
<1>9. QED
  BY <1>7, <1>8 DEF n

(* What one database keeps of another one's copies: the erased ones, and a *)
(* new live one only where nothing erased speaks against it.               *)
Follows(d, x) ==
  /\ Besides(d, x)
  /\ \A k \in Context : ErasedCopy(d, k) => ErasedCopy(x, k)
  /\ \A k \in Context : d.ctx[k] = "marked" => x.ctx[k] = "marked"
  /\ \A k \in Context : x.ctx[k] = "live" => d.ctx[k] = "live" \/ (~Refused(d, k) /\ ~Tainted(d, k))

LEMMA FollowsSpeaks ==
  ASSUME NEW d \in Db, NEW x, Follows(d, x), NEW c \in Context
  PROVE  /\ Refused(d, c) => Refused(x, c)
         /\ Tainted(d, c) => Tainted(x, c)
<1>1. Refused(d, c) => Refused(x, c)
  <2> SUFFICES ASSUME NEW k \in Context, ErasedCopy(d, k), k = c \/ (d.ctx[k] = "marked" /\ Alike(c, k))
               PROVE  Refused(x, c)
    BY DEF Refused
  <2>1. ErasedCopy(x, k) /\ (k = c \/ (x.ctx[k] = "marked" /\ Alike(c, k)))
    BY DEF Follows
  <2>2. QED
    BY <2>1 DEF Refused
<1>2. \A m : Dead(d, m) => Dead(x, m)
  BY DEF Follows, Besides, Dead, Has
<1>3. x.marks = d.marks
  BY DEF Follows, Besides
<1>4. \A m \in Context : ErasedCopy(d, m) => ErasedCopy(x, m)
  BY DEF Follows
<1>5. QED
  BY <1>1, <1>2, <1>3, <1>4 DEF Tainted

LEMMA FollowsItself ==
  ASSUME NEW d \in Db PROVE Follows(d, d)
BY DEF Follows, Besides

LEMMA InsertFollows ==
  ASSUME NEW d \in Db, NEW x, Follows(d, x), NEW c \in Context, ~ErasedCopy(d, c),
         NEW copy \in {"live", "marked", "blank"}
  PROVE  Follows(d, Insert(x, c, copy))
<1> DEFINE n == Insert(x, c, copy)
<1>1. x \in Db
  BY DEF Follows, Besides
<1>2. CASE copy = "live"
  <2>1. n = InsertLive(x, c)
    BY <1>2 DEF Insert
  <2>2. /\ Besides(x, n)
        /\ \A k \in Context : ErasedCopy(x, k) => n.ctx[k] = x.ctx[k]
        /\ \A k \in Context \ {c} : n.ctx[k] = "live" => x.ctx[k] = "live"
        /\ n.ctx[c] = "live" => x.ctx[c] = "live" \/ (~Refused(x, c) /\ ~Tainted(x, c))
    BY <1>1, <2>1, InsertLiveIs
  <2> HIDE DEF n
  <2>3. Besides(d, n)
    BY <2>2 DEF Follows, Besides
  <2>4. \A k \in Context : /\ ErasedCopy(d, k) => ErasedCopy(n, k)
                           /\ d.ctx[k] = "marked" => n.ctx[k] = "marked"
    BY <2>2 DEF Follows, ErasedCopy
  <2>5. \A k \in Context : n.ctx[k] = "live" => d.ctx[k] = "live" \/ (~Refused(d, k) /\ ~Tainted(d, k))
    <3> SUFFICES ASSUME NEW k \in Context, n.ctx[k] = "live"
                 PROVE  d.ctx[k] = "live" \/ (~Refused(d, k) /\ ~Tainted(d, k))
      OBVIOUS
    <3>1. CASE x.ctx[k] = "live"
      BY <3>1 DEF Follows
    <3>2. CASE x.ctx[k] # "live"
      <4>1. k = c /\ ~Refused(x, k) /\ ~Tainted(x, k)
        BY <2>2, <3>2
      <4>2. QED
        BY <4>1, FollowsSpeaks
    <3>3. QED
      BY <3>1, <3>2
  <2>6. QED
    BY <2>3, <2>4, <2>5 DEF Follows, n
<1>3. CASE copy # "live"
  <2>1. n = InsertErased(x, c, copy) /\ copy \in {"marked", "blank"}
    BY <1>3 DEF Insert
  <2>2. /\ Besides(x, n)
        /\ n.ctx[c] = copy
        /\ \A k \in Context :
              \/ n.ctx[k] = copy /\ (k = c \/ copy = "marked")
              \/ /\ n.ctx[k] = "live" => x.ctx[k] = "live"
                 /\ x.ctx[k] \in {"marked", "blank"} => n.ctx[k] = x.ctx[k]
    BY <1>1, <2>1, InsertErasedIs
  <2> HIDE DEF n
  <2>3. Besides(d, n)
    BY <2>2 DEF Follows, Besides
  <2>4. \A k \in Context : ErasedCopy(d, k) => ErasedCopy(n, k)
    BY <2>1, <2>2 DEF Follows, ErasedCopy
  <2>5. \A k \in Context : d.ctx[k] = "marked" => n.ctx[k] = "marked"
    BY <2>1, <2>2 DEF Follows, ErasedCopy
  <2>6. \A k \in Context : n.ctx[k] = "live" => x.ctx[k] = "live"
    BY <2>1, <2>2
  <2>7. QED
    BY <2>3, <2>4, <2>5, <2>6 DEF Follows, n
<1>4. QED
  BY <1>2, <1>3

(* Where an erased copy stands, none of the same text is live. *)
Stilled(x, k) == x.ctx[k] = "marked" /\ \A c \in Context : Alike(c, k) => x.ctx[c] # "live"

LEMMA InsertStills ==
  ASSUME NEW x \in Db, NEW k \in Context, NEW c \in Context, NEW copy \in {"live", "marked", "blank"},
         (c = k /\ copy = "marked") \/ (Stilled(x, k) /\ c # k)
  PROVE  Stilled(Insert(x, c, copy), k)
<1> DEFINE n == Insert(x, c, copy)
<1>1. CASE copy = "live"
  <2>1. n = InsertLive(x, c) /\ Stilled(x, k)
    BY <1>1 DEF Insert
  <2>2. /\ \A j \in Context : ErasedCopy(x, j) => n.ctx[j] = x.ctx[j]
        /\ \A j \in Context \ {c} : n.ctx[j] = "live" => x.ctx[j] = "live"
        /\ n.ctx[c] = "live" => x.ctx[c] = "live" \/ ~Refused(x, c)
    BY <2>1, InsertLiveIs
  <2> HIDE DEF n
  <2>3. Alike(c, k) => Refused(x, c)
    BY <2>1 DEF Stilled, Refused, ErasedCopy
  <2>4. QED
    BY <2>1, <2>2, <2>3 DEF Stilled, ErasedCopy, n
<1>2. CASE copy # "live"
  <2>1. n = InsertErased(x, c, copy) /\ copy \in {"marked", "blank"}
    BY <1>2 DEF Insert
  <2>2. /\ n.ctx[c] = copy
        /\ \A j \in Context :
              \/ n.ctx[j] = copy /\ (j = c \/ copy = "marked")
              \/ /\ n.ctx[j] = "live" => x.ctx[j] = "live"
                 /\ x.ctx[j] \in {"marked", "blank"} => n.ctx[j] = x.ctx[j]
                 /\ copy = "marked" /\ Alike(c, j) => n.ctx[j] # "live"
    BY <2>1, InsertErasedIs
  <2> HIDE DEF n
  <2>3. n.ctx[k] = "marked"
    BY <2>1, <2>2 DEF Stilled
  <2>4. \A j \in Context : Alike(j, k) => n.ctx[j] # "live"
    BY <2>1, <2>2 DEF Stilled, Alike
  <2>5. QED
    BY <2>3, <2>4 DEF Stilled, n
<1>3. QED
  BY <1>1, <1>2

(* What erasing a set of copies takes along. *)
LEMMA ErasingQuotes ==
  ASSUME NEW d \in Db, NEW S \in SUBSET Context, NEW n,
         n.lead = Redacted(d, S).lead, n.owed = Redacted(d, S).owed,
         \A k \in S : ErasedCopy(n, k),
         \A k \in Context \ S : n.ctx[k] = Redacted(d, S).ctx[k]
  PROVE  /\ QuotesFollow(d, n)
         /\ \A k \in Context \ S : n.ctx[k] # d.ctx[k] =>
              /\ d.ctx[k] = "live" /\ n.ctx[k] = "marked"
              /\ \E m \in Mentions[k] \cap Context : ErasedCopy(n, m)
<1> DEFINE far == Reached(d, S)
           r == Redacted(d, S)
<1>1. /\ S \subseteq far
      /\ \A c \in far \ S : d.ctx[c] = "live" /\ r.ctx[c] = "marked" /\ Mentions[c] \cap far # {}
      /\ far \subseteq Context
      /\ \A c \in Context \ far : r.ctx[c] = d.ctx[c]
      /\ r.lead \subseteq d.lead /\ r.owed \subseteq d.owed
      /\ \A e \in d.lead : e \in r.lead <=> Before[e] \cap far = {}
      /\ \A p \in d.owed : p \in r.owed <=> ~\E c \in far : TextOf[c] = p /\ d.ctx[c] # "none"
  BY RedactedQuotes
<1> HIDE DEF far, r
<1>2. n.lead = r.lead /\ n.owed = r.owed /\ \A k \in Context \ S : n.ctx[k] = r.ctx[k]
  BY DEF r
<1>3. \A c \in far : c \in Context /\ ErasedCopy(n, c)
  BY <1>1, <1>2 DEF ErasedCopy
<1>4. \A c \in Context \ far : n.ctx[c] = d.ctx[c]
  BY <1>1, <1>2
<1>5. \A c \in Context : ErasedCopy(n, c) /\ ~ErasedCopy(d, c) => c \in far
  BY <1>4 DEF ErasedCopy
<1>6. \A e \in d.lead \ n.lead : \E c \in Before[e] \cap Context : ErasedCopy(n, c)
  BY <1>1, <1>2, <1>3
<1>7. \A p \in d.owed \ n.owed : \E c \in Context : TextOf[c] = p /\ ErasedCopy(n, c)
  BY <1>1, <1>2, <1>3
<1>8. ASSUME NEW c \in far
      PROVE  /\ \A e \in n.lead : c \notin Before[e]
             /\ d.ctx[c] = "live" => TextOf[c] \notin n.owed
  BY <1>1, <1>2
<1>9. QuotesFollow(d, n)
  BY <1>1, <1>2, <1>5, <1>6, <1>7, <1>8 DEF QuotesFollow
<1>10. \A k \in Context \ S : n.ctx[k] # d.ctx[k] =>
         /\ d.ctx[k] = "live" /\ n.ctx[k] = "marked"
         /\ \E m \in Mentions[k] \cap Context : ErasedCopy(n, m)
  <2> SUFFICES ASSUME NEW k \in Context \ S, n.ctx[k] # d.ctx[k]
               PROVE  /\ d.ctx[k] = "live" /\ n.ctx[k] = "marked"
                      /\ \E m \in Mentions[k] \cap Context : ErasedCopy(n, m)
    OBVIOUS
  <2>1. k \in far \ S
    BY <1>4
  <2>2. PICK m : m \in Mentions[k] \cap far
    BY <1>1, <2>1
  <2>3. QED
    BY <1>1, <1>2, <1>3, <2>1, <2>2
<1>11. QED
  BY <1>9, <1>10

(* What writing one copy changes of others and of what quotes them. *)
Ripples(d, n, c, copy) ==
  /\ QuotesFollow(d, n)
  /\ \A k \in Context : ErasedCopy(d, k) => ErasedCopy(n, k)
  /\ \A k \in Context : n.ctx[k] = "none" => d.ctx[k] = "none"
  /\ \A k \in Context \ {c} : n.ctx[k] # d.ctx[k] =>
       /\ d.ctx[k] = "live" /\ n.ctx[k] = "marked"
       /\ \/ \E m \in Mentions[k] \cap Context : ErasedCopy(n, m)
          \/ copy = "marked" /\ Alike(k, c)
  /\ n.ctx[c] = "none" => \E k \in Context : Alike(c, k) /\ ErasedCopy(n, k)

LEMMA InsertErasedRipples ==
  ASSUME NEW d \in Db, NEW c \in Context, NEW copy \in {"marked", "blank"}
  PROVE  Ripples(d, InsertErased(d, c, copy), c, copy)
<1> DEFINE M == {k \in Context : /\ d.ctx[k] # "none"
                                 /\ \/ k = c
                                    \/ copy = "marked" /\ Alike(c, k) /\ d.ctx[k] # "blank"} \cup {c}
           r == Redacted(d, M)
           X == [k \in Context |-> IF k \in M THEN copy ELSE r.ctx[k]]
           n == [r EXCEPT !.ctx = X]
<1>1. r \in Db /\ M \in SUBSET Context
  BY RedactedIs DEF Besides
<1>2. InsertErased(d, c, copy) = n
  BY DEF InsertErased
<1>3. \A k \in M \ {c} : copy = "marked" /\ Alike(k, c) /\ d.ctx[k] \in {"live", "marked"}
  BY DbFields DEF Copies, Alike
<1>4. c \in M
  OBVIOUS
<1> HIDE DEF M, r
<1>5. X \in [Context -> Copies]
  <2>1. r.ctx \in [Context -> Copies]
    BY <1>1, DbFields
  <2>2. QED
    BY <2>1 DEF Copies
<1>6. \A k \in Context : X[k] = IF k \in M THEN copy ELSE r.ctx[k]
  OBVIOUS
<1> HIDE DEF X
<1>7. n.ctx = X /\ n.lead = r.lead /\ n.owed = r.owed
  BY <1>1, <1>5, CtxWith
<1> HIDE DEF n
<1>8. \A k \in M : ErasedCopy(n, k) /\ n.ctx[k] = copy
  BY <1>1, <1>6, <1>7 DEF ErasedCopy
<1>9. /\ QuotesFollow(d, n)
      /\ \A k \in Context \ M : n.ctx[k] # d.ctx[k] =>
           /\ d.ctx[k] = "live" /\ n.ctx[k] = "marked"
           /\ \E m \in Mentions[k] \cap Context : ErasedCopy(n, m)
  <2>1. \A k \in Context \ M : n.ctx[k] = Redacted(d, M).ctx[k]
    BY <1>6, <1>7 DEF r
  <2>2. n.lead = Redacted(d, M).lead /\ n.owed = Redacted(d, M).owed
    BY <1>7 DEF r
  <2>3. QED
    BY <1>1, <1>8, <2>1, <2>2, ErasingQuotes
<1>10. \A k \in Context : ErasedCopy(d, k) => ErasedCopy(n, k)
  BY <1>8, <1>9 DEF ErasedCopy
<1>11. \A k \in Context : n.ctx[k] = "none" => d.ctx[k] = "none"
  BY <1>8, <1>9
<1>12. ASSUME NEW k \in Context \ {c}, n.ctx[k] # d.ctx[k]
       PROVE  /\ d.ctx[k] = "live" /\ n.ctx[k] = "marked"
              /\ \/ \E m \in Mentions[k] \cap Context : ErasedCopy(n, m)
                 \/ copy = "marked" /\ Alike(k, c)
  BY <1>3, <1>8, <1>9, <1>12
<1>13. n.ctx[c] # "none"
  BY <1>4, <1>8
<1>14. QED
  BY <1>2, <1>9, <1>10, <1>11, <1>12, <1>13 DEF Ripples

LEMMA InsertLiveRipples ==
  ASSUME NEW d \in Db, NEW c \in Context
  PROVE  Ripples(d, InsertLive(d, c), c, "live")
<1> DEFINE X == [d.ctx EXCEPT ![c] = "live"]
           r == [d EXCEPT !.ctx = X]
           q == Redacted(r, {c})
           n == InsertLive(d, c)
<1>1. d.ctx \in [Context -> Copies]
  BY DbFields
<1>2. X \in [Context -> Copies] /\ X[c] = "live" /\ \A k \in Context \ {c} : X[k] = d.ctx[k]
  BY <1>1 DEF Copies
<1>3. n = IF Refused(d, c) THEN d ELSE IF Tainted(r, c) THEN q ELSE r
  BY DEF InsertLive
<1> HIDE DEF X
<1>4. r \in Db /\ r.ctx = X /\ r.lead = d.lead /\ r.owed = d.owed
  BY <1>2, CtxWith DEF Besides
<1> HIDE DEF r
<1>5. q.ctx[c] = "marked" /\ ErasedCopy(q, c)
  BY <1>2, <1>4, RedactedIs, ReachedIs DEF ErasedCopy
<1>6. /\ QuotesFollow(r, q)
      /\ \A k \in Context \ {c} : q.ctx[k] # r.ctx[k] =>
           /\ r.ctx[k] = "live" /\ q.ctx[k] = "marked"
           /\ \E m \in Mentions[k] \cap Context : ErasedCopy(q, m)
  <2>1. /\ {c} \in SUBSET Context
        /\ q.lead = Redacted(r, {c}).lead /\ q.owed = Redacted(r, {c}).owed
        /\ \A k \in {c} : ErasedCopy(q, k)
        /\ \A k \in Context \ {c} : q.ctx[k] = Redacted(r, {c}).ctx[k]
    BY <1>5
  <2> HIDE DEF q
  <2>2. QED
    BY <1>4, <2>1, ErasingQuotes
<1> HIDE DEF q, n
<1>7. CASE Refused(d, c)
  <2>1. n = d
    BY <1>3, <1>7
  <2>2. QuotesFollow(d, d)
    BY DEF QuotesFollow
  <2>3. d.ctx[c] = "none" => \E k \in Context : Alike(c, k) /\ ErasedCopy(d, k)
    BY <1>7 DEF Refused, ErasedCopy
  <2>4. Ripples(d, d, c, "live")
    BY <2>2, <2>3 DEF Ripples
  <2>5. QED
    BY <2>1, <2>4 DEF n
<1>8. CASE ~Refused(d, c) /\ ~Tainted(r, c)
  <2>1. n = r /\ ~ErasedCopy(d, c)
    BY <1>3, <1>8 DEF Refused
  <2>2. \A k \in Context : ErasedCopy(r, k) <=> ErasedCopy(d, k)
    BY <1>2, <1>4, <2>1 DEF ErasedCopy
  <2>3. QuotesFollow(d, r)
    BY <1>4, <2>2 DEF QuotesFollow
  <2>4. Ripples(d, r, c, "live")
    BY <1>2, <1>4, <2>2, <2>3 DEF Ripples
  <2>5. QED
    BY <2>1, <2>4 DEF n
<1>9. CASE ~Refused(d, c) /\ Tainted(r, c)
  <2>1. n = q /\ ~ErasedCopy(d, c)
    BY <1>3, <1>9 DEF Refused
  <2>2. \A k \in Context : /\ ErasedCopy(r, k) <=> ErasedCopy(d, k)
                           /\ d.ctx[k] = "live" => r.ctx[k] = "live"
    BY <1>2, <1>4, <2>1 DEF ErasedCopy
  <2>3. QuotesFollow(d, q)
    BY <1>4, <1>6, <2>2 DEF QuotesFollow
  <2>4. \A k \in Context \ {c} : r.ctx[k] = d.ctx[k]
    BY <1>2, <1>4
  <2>5. \A k \in Context : ErasedCopy(d, k) => ErasedCopy(q, k)
    BY <1>6, <2>1, <2>4 DEF ErasedCopy
  <2>6. \A k \in Context : q.ctx[k] = "none" => d.ctx[k] = "none"
    BY <1>5, <1>6, <2>4
  <2>7. Ripples(d, q, c, "live")
    BY <1>5, <1>6, <2>3, <2>4, <2>5, <2>6 DEF Ripples
  <2>8. QED
    BY <2>1, <2>7 DEF n
<1>10. QED
  BY <1>7, <1>8, <1>9

LEMMA InsertRipples ==
  ASSUME NEW d \in Db, NEW c \in Context, NEW copy \in {"live", "marked", "blank"}
  PROVE  Ripples(d, Insert(d, c, copy), c, copy)
<1>1. CASE copy = "live"
  BY <1>1, InsertLiveRipples DEF Insert
<1>2. CASE copy # "live"
  BY <1>2, InsertErasedRipples DEF Insert
<1>3. QED
  BY <1>1, <1>2

(* What the copies C of b have changed so far, D of them written. *)
Rippled(d, x, b, C, D) ==
  /\ QuotesFollow(d, x)
  /\ \A k \in Context : ErasedCopy(d, k) => ErasedCopy(x, k)
  /\ \A k \in Context : x.ctx[k] = "none" => d.ctx[k] = "none"
  /\ \A k \in Context \ C : x.ctx[k] # d.ctx[k] =>
       /\ d.ctx[k] = "live" /\ x.ctx[k] = "marked"
       /\ \/ \E m \in Mentions[k] \cap Context : ErasedCopy(x, m)
          \/ \E j \in C : b.ctx[j] = "marked" /\ Alike(k, j)
  /\ \A k \in D : x.ctx[k] = "none" => \E j \in Context : Alike(k, j) /\ ErasedCopy(x, j)

LEMMA SameRipples ==
  ASSUME NEW d, NEW x, NEW e, NEW y, NEW b, NEW C, NEW D, Rippled(d, x, b, C, D),
         e.ctx = d.ctx, e.lead = d.lead, e.owed = d.owed,
         y.ctx = x.ctx, y.lead = x.lead, y.owed = x.owed
  PROVE  Rippled(e, y, b, C, D)
<1>1. \A k : /\ ErasedCopy(e, k) <=> ErasedCopy(d, k)
             /\ ErasedCopy(y, k) <=> ErasedCopy(x, k)
  BY DEF ErasedCopy
<1>2. QuotesFollow(e, y)
  BY <1>1 DEF Rippled, QuotesFollow
<1>3. QED
  BY <1>1, <1>2 DEF Rippled

LEMMA RipplesAdd ==
  ASSUME NEW d \in Db, NEW x \in Db, NEW b, NEW C \in SUBSET Context, NEW D \in SUBSET C,
         NEW c \in C, NEW n \in Db, Rippled(d, x, b, C, D), Ripples(x, n, c, b.ctx[c])
  PROVE  Rippled(d, n, b, C, D \cup {c})
<1>1. d.ctx \in [Context -> Copies] /\ x.ctx \in [Context -> Copies]
  BY DbFields
<1>2. /\ \A k \in Context : ErasedCopy(d, k) => ErasedCopy(x, k)
      /\ \A k \in Context : ErasedCopy(x, k) => ErasedCopy(n, k)
      /\ \A k \in Context : x.ctx[k] = "none" => d.ctx[k] = "none"
      /\ \A k \in Context : n.ctx[k] = "none" => x.ctx[k] = "none"
  BY DEF Rippled, Ripples
<1>3. QuotesFollow(d, x) /\ QuotesFollow(x, n)
  BY DEF Rippled, Ripples
<1>4. QuotesFollow(d, n)
  <2>1. n.lead \subseteq d.lead /\ n.owed \subseteq d.owed /\ n.lead \subseteq x.lead /\ n.owed \subseteq x.owed
    BY <1>3 DEF QuotesFollow
  <2>2. \A e \in d.lead \ n.lead : \E k \in Before[e] \cap Context : ErasedCopy(n, k)
    BY <1>2, <1>3 DEF QuotesFollow
  <2>3. \A p \in d.owed \ n.owed : \E k \in Context : TextOf[k] = p /\ ErasedCopy(n, k)
    BY <1>2, <1>3 DEF QuotesFollow
  <2>4. ASSUME NEW k \in Context, ErasedCopy(n, k), ~ErasedCopy(d, k)
        PROVE  /\ \A e \in n.lead : k \notin Before[e]
               /\ d.ctx[k] = "live" => TextOf[k] \notin n.owed
    <3>1. CASE ErasedCopy(x, k)
      BY <1>3, <2>1, <2>4, <3>1 DEF QuotesFollow
    <3>2. CASE ~ErasedCopy(x, k)
      <4>1. d.ctx[k] = "live" => x.ctx[k] = "live"
        BY <1>1, <1>2, <3>2 DEF ErasedCopy, Copies
      <4>2. QED
        BY <1>3, <2>4, <3>2, <4>1 DEF QuotesFollow
    <3>3. QED
      BY <3>1, <3>2
  <2>5. QED
    BY <2>1, <2>2, <2>3, <2>4 DEF QuotesFollow
<1>5. ASSUME NEW k \in Context \ C, n.ctx[k] # d.ctx[k]
      PROVE  /\ d.ctx[k] = "live" /\ n.ctx[k] = "marked"
             /\ \/ \E m \in Mentions[k] \cap Context : ErasedCopy(n, m)
                \/ \E j \in C : b.ctx[j] = "marked" /\ Alike(k, j)
  <2>1. /\ x.ctx[k] # d.ctx[k] =>
             /\ d.ctx[k] = "live" /\ x.ctx[k] = "marked"
             /\ \/ \E m \in Mentions[k] \cap Context : ErasedCopy(x, m)
                \/ \E j \in C : b.ctx[j] = "marked" /\ Alike(k, j)
        /\ n.ctx[k] # x.ctx[k] =>
             /\ x.ctx[k] = "live" /\ n.ctx[k] = "marked"
             /\ \/ \E m \in Mentions[k] \cap Context : ErasedCopy(n, m)
                \/ b.ctx[c] = "marked" /\ Alike(k, c)
    BY <1>5 DEF Rippled, Ripples
  <2>2. CASE x.ctx[k] = d.ctx[k]
    BY <1>5, <2>1, <2>2
  <2>3. CASE x.ctx[k] # d.ctx[k]
    <3>1. n.ctx[k] = x.ctx[k]
      BY <2>1, <2>3
    <3>2. QED
      BY <1>2, <2>1, <2>3, <3>1
  <2>4. QED
    BY <2>2, <2>3
<1>6. ASSUME NEW k \in D \cup {c}, n.ctx[k] = "none"
      PROVE  \E j \in Context : Alike(k, j) /\ ErasedCopy(n, j)
  BY <1>2, <1>6 DEF Rippled, Ripples
<1>7. QED
  BY <1>2, <1>4, <1>5, <1>6 DEF Rippled

LEMMA WriteContextsIs ==
  ASSUME NEW d \in Db, NEW b \in Bundles, NEW p, p.writes.contexts \subseteq Context,
         \A c \in p.writes.contexts : b.ctx[c] # "none" /\ ~ErasedCopy(d, c)
  PROVE  LET w == WriteContexts(d, b, p) IN
         /\ Follows(d, w)
         /\ \A k \in p.writes.contexts : b.ctx[k] = "marked" => Stilled(w, k)
         /\ Rippled(d, w, b, p.writes.contexts, p.writes.contexts)
         /\ p.writes.contexts = {} => w = d
<1> DEFINE C == p.writes.contexts
           N == Len(Age)
           Step(x, i) == IF Age[i] \in C THEN Insert(x, Age[i], b.ctx[Age[i]]) ELSE x
           T == {n \in Nat : \E g : g = [i \in 0..n |-> IF i = 0 THEN d ELSE Step(g[i - 1], i)]}
           R == CHOOSE g : g = [i \in 0..N |-> IF i = 0 THEN d ELSE Step(g[i - 1], i)]
<1>1. N \in Nat
  BY ConstantsAssumption
<1>2. WriteContexts(d, b, p) = R[N]
  BY DEF WriteContexts
<1>3. \A i \in 1..N : Age[i] \in Context
  BY ConstantsAssumption
<1>4. \A k \in Context : \E i \in 1..N : Age[i] = k
  BY ConstantsAssumption DEF Range
<1>5. \A x : \A i : /\ Age[i] \in C => Step(x, i) = Insert(x, Age[i], b.ctx[Age[i]])
                    /\ Age[i] \notin C => Step(x, i) = x
  OBVIOUS
<1> HIDE DEF Step
<1>6. 0 \in T
  <2> DEFINE g == [i \in 0..0 |-> d]
  <2>1. g = [i \in 0..0 |-> IF i = 0 THEN d ELSE Step(g[i - 1], i)]
    OBVIOUS
  <2>2. QED
    BY <2>1
<1>7. ASSUME NEW n \in Nat, n \in T PROVE n + 1 \in T
  <2>1. PICK g : g = [i \in 0..n |-> IF i = 0 THEN d ELSE Step(g[i - 1], i)]
    BY <1>7
  <2> DEFINE f == [i \in 0..n + 1 |-> IF i = n + 1 THEN Step(g[n], i) ELSE g[i]]
  <2>2. /\ \A i \in 0..n + 1 : f[i] = IF i = n + 1 THEN Step(g[n], i) ELSE g[i]
        /\ f = [i \in 0..n + 1 |-> f[i]]
    OBVIOUS
  <2> HIDE DEF f
  <2>3. ASSUME NEW i \in 0..n + 1 PROVE f[i] = IF i = 0 THEN d ELSE Step(f[i - 1], i)
    <3>1. CASE i = n + 1
      <4>1. f[n + 1] = Step(g[n], n + 1) /\ f[n] = g[n]
        BY <2>2
      <4>2. QED
        BY <3>1, <4>1
    <3>2. CASE i \in 0..n
      <4>1. f[i] = g[i] /\ (i # 0 => f[i - 1] = g[i - 1])
        BY <2>2, <3>2
      <4>2. g[i] = IF i = 0 THEN d ELSE Step(g[i - 1], i)
        BY <2>1, <3>2
      <4>3. QED
        BY <4>1, <4>2
    <3>3. QED
      BY <3>1, <3>2
  <2>4. f = [i \in 0..n + 1 |-> IF i = 0 THEN d ELSE Step(f[i - 1], i)]
    BY <2>2, <2>3
  <2>5. QED
    BY <2>4
<1>8. N \in T
  <2> HIDE DEF T
  <2>1. QED
    BY <1>1, <1>6, <1>7, Counting
<1>9. R = [i \in 0..N |-> IF i = 0 THEN d ELSE Step(R[i - 1], i)]
  BY <1>8
<1> HIDE DEF R, T
<1>10. R[0] = d /\ \A n \in Nat : n + 1 <= N => R[n + 1] = Step(R[n], n + 1)
  <2>1. R[0] = d
    BY <1>1, <1>9
  <2>2. ASSUME NEW n \in Nat, n + 1 <= N PROVE R[n + 1] = Step(R[n], n + 1)
    <3>1. n + 1 \in 0..N /\ n + 1 # 0 /\ (n + 1) - 1 = n
      BY <1>1, <2>2
    <3>2. QED
      BY <1>9, <3>1
  <2>3. QED
    BY <2>1, <2>2
<1>11. b.ctx \in [Context -> Copies]
  BY DEF Bundles
<1>12. ASSUME NEW i \in 1..N, Age[i] \in C PROVE b.ctx[Age[i]] \in {"live", "marked", "blank"}
  BY <1>3, <1>11, <1>12 DEF Copies
<1> DEFINE D(n) == C \cap {Age[i] : i \in 1..n}
           U == {n \in Nat : n <= N =>
                   /\ Follows(d, R[n])
                   /\ Rippled(d, R[n], b, C, D(n))
                   /\ \A i \in 1..n : Age[i] \in C /\ b.ctx[Age[i]] = "marked" => Stilled(R[n], Age[i])
                   /\ C = {} => R[n] = d}
<1>13. 0 \in U
  <2>1. Rippled(d, d, b, C, D(0))
    BY DEF Rippled, QuotesFollow
  <2>2. QED
    BY <1>10, <2>1, FollowsItself
<1>14. ASSUME NEW n \in Nat, n \in U PROVE n + 1 \in U
  <2>1. SUFFICES ASSUME n + 1 <= N
        PROVE  /\ Follows(d, R[n + 1])
               /\ Rippled(d, R[n + 1], b, C, D(n + 1))
               /\ \A i \in 1..n + 1 : Age[i] \in C /\ b.ctx[Age[i]] = "marked" => Stilled(R[n + 1], Age[i])
               /\ C = {} => R[n + 1] = d
    OBVIOUS
  <2>2. /\ Follows(d, R[n])
        /\ Rippled(d, R[n], b, C, D(n))
        /\ \A i \in 1..n : Age[i] \in C /\ b.ctx[Age[i]] = "marked" => Stilled(R[n], Age[i])
        /\ C = {} => R[n] = d
    BY <1>1, <1>14, <2>1
  <2>3. R[n + 1] = Step(R[n], n + 1) /\ n + 1 \in 1..N
    BY <1>1, <1>10, <2>1
  <2>7. /\ Age[n + 1] \notin C => D(n + 1) = D(n)
        /\ Age[n + 1] \in C => D(n + 1) = D(n) \cup {Age[n + 1]}
        /\ D(n) \in SUBSET C
    <3>1. 1..n + 1 = (1..n) \cup {n + 1}
      OBVIOUS
    <3> HIDE DEF C
    <3>2. QED
      BY <3>1
  <2> HIDE DEF U, C, D
  <2>4. CASE Age[n + 1] \notin C
    <3>1. R[n + 1] = R[n]
      BY <1>5, <2>3, <2>4
    <3>2. \A i \in 1..n + 1 : Age[i] \in C => i \in 1..n
      BY <2>4
    <3>3. QED
      BY <2>2, <2>4, <2>7, <3>1, <3>2
  <2>5. CASE Age[n + 1] \in C
    <3> DEFINE c == Age[n + 1]
               copy == b.ctx[c]
    <3>1. R[n + 1] = Insert(R[n], c, copy)
      BY <1>5, <2>3, <2>5
    <3>2. c \in Context /\ copy \in {"live", "marked", "blank"} /\ ~ErasedCopy(d, c) /\ R[n] \in Db
      BY <1>3, <1>12, <2>2, <2>3, <2>5 DEF C, Follows, Besides
    <3>3. Follows(d, R[n + 1])
      BY <2>2, <3>1, <3>2, InsertFollows
    <3>4. ASSUME NEW i \in 1..n + 1, Age[i] \in C, b.ctx[Age[i]] = "marked" PROVE Stilled(R[n + 1], Age[i])
      <4>1. Age[i] \in Context
        BY <1>3, <2>1, <1>1
      <4>2. CASE Age[i] = c
        BY <3>1, <3>2, <3>4, <4>2, InsertStills
      <4>3. CASE Age[i] # c
        <5>1. i \in 1..n
          BY <4>3
        <5>2. Stilled(R[n], Age[i])
          BY <2>2, <3>4, <5>1
        <5>3. QED
          BY <3>1, <3>2, <4>1, <4>3, <5>2, InsertStills
      <4>4. QED
        BY <4>2, <4>3
    <3>5. Rippled(d, R[n + 1], b, C, D(n + 1))
      <4>1. Ripples(R[n], R[n + 1], c, b.ctx[c])
        BY <3>1, <3>2, InsertRipples
      <4>2. R[n + 1] \in Db /\ C \in SUBSET Context
        BY <3>3 DEF Follows, Besides, C
      <4>3. QED
        BY <2>2, <2>5, <2>7, <3>2, <4>1, <4>2, RipplesAdd
    <3>6. QED
      BY <2>5, <3>3, <3>4, <3>5
  <2>6. QED
    BY <2>4, <2>5
<1>15. N \in U
  <2> HIDE DEF U
  <2>1. QED
    BY <1>1, <1>13, <1>14, Counting
<1>16. /\ Follows(d, R[N])
       /\ Rippled(d, R[N], b, C, D(N))
       /\ \A i \in 1..N : Age[i] \in C /\ b.ctx[Age[i]] = "marked" => Stilled(R[N], Age[i])
       /\ C = {} => R[N] = d
  BY <1>1, <1>15
<1>17. \A k \in C : b.ctx[k] = "marked" => Stilled(R[N], k)
  BY <1>4, <1>16
<1>18. D(N) = C
  BY <1>4
<1>19. QED
  BY <1>2, <1>16, <1>17, <1>18

-----------------------------------------------------------------------------
(* Importing.                                                              *)
LEMMA BundleFields ==
  ASSUME NEW b \in Bundles
  PROVE  /\ b.ev \in [Evidence -> Row \cup {NoRow}] /\ b.item \in [Item -> 0..MaxVersion]
         /\ b.life \in [Item -> 0..2] /\ b.ctx \in [Context -> Copies]
BY DEF Bundles

LEMMA WritesIs ==
  ASSUME NEW d, NEW b
  PROVE  /\ Writes(d, b) \in Sections
         /\ Writes(d, b).evidence = NewEvidence(d, b) /\ Writes(d, b).tombstones = Tombstones(d, b)
         /\ Writes(d, b).items = NewCore(d, b) \cup NewWorld(d, b)
         /\ Writes(d, b).life = NewLife(d, b) /\ Writes(d, b).contexts = NewContexts(d, b)
<1> DEFINE A == NewEvidence(d, b)
           B == Tombstones(d, b)
           C == NewCore(d, b) \cup NewWorld(d, b)
           D == NewLife(d, b)
           X == NewContexts(d, b)
<1>1. A \subseteq Evidence
  BY DEF NewEvidence
<1>2. B \subseteq Evidence
  BY DEF Tombstones
<1>3. C \subseteq Item
  BY ConstantsAssumption DEF NewCore, NewWorld
<1>4. D \subseteq Item /\ X \subseteq Context
  BY DEF NewLife, NewContexts
<1>5. Writes(d, b) = [evidence |-> A, tombstones |-> B, items |-> C, life |-> D, contexts |-> X]
  BY DEF Writes
<1> HIDE DEF A, B, C, D, X
<1>6. [evidence |-> A, tombstones |-> B, items |-> C, life |-> D, contexts |-> X] \in Sections
  BY <1>1, <1>2, <1>3, <1>4 DEF Sections
<1>7. QED
  BY <1>5, <1>6 DEF A, B, C, D, X

LEMMA PlanIs ==
  ASSUME NEW d \in Db, NEW b \in Bundles
  PROVE  /\ PlanOf(d, b) \in Plans
         /\ PlanOf(d, b).valid => /\ Valid(b) /\ ~Suppressed(d, b) /\ ~Clash(d, b)
                                  /\ PlanOf(d, b).writes = Writes(d, b)
         /\ ~PlanOf(d, b).valid => PlanOf(d, b).writes = NoWrites
<1> DEFINE ok == Valid(b) /\ ~Suppressed(d, b) /\ ~Clash(d, b)
           W == IF ok THEN Writes(d, b) ELSE NoWrites
           V == IF ok THEN <<Unresolved(d, b), Cleared(d, b)>> ELSE <<{}, {}>>
           p == [revision |-> d.revision, valid |-> ok, writes |-> W, warned |-> V]
<1>1. PlanOf(d, b) = p
  BY DEF PlanOf
<1>2. NoWrites \in Sections
  BY DEF NoWrites, Sections
<1>3. W \in Sections
  BY <1>2, WritesIs
<1>4. V \in (SUBSET Evidence) \X (SUBSET Evidence)
  <2>1. Unresolved(d, b) \in SUBSET Evidence /\ Cleared(d, b) \in SUBSET Evidence
    BY DEF Unresolved, Cleared, NewEvidence
  <2>2. \A A, B \in SUBSET Evidence : <<A, B>> \in (SUBSET Evidence) \X (SUBSET Evidence)
    OBVIOUS
  <2>3. <<Unresolved(d, b), Cleared(d, b)>> \in (SUBSET Evidence) \X (SUBSET Evidence)
    BY <2>1, <2>2
  <2>4. <<{}, {}>> \in (SUBSET Evidence) \X (SUBSET Evidence)
    BY <2>2
  <2> HIDE DEF ok
  <2>5. QED
    BY <2>3, <2>4
<1>5. ok \in BOOLEAN
  BY DEF Valid, Suppressed, Clash, EvidenceClash, CoreClash, WorldClash, NameClash, LifeClash,
         CoreClosed, WorldClosed, HistoryClosed
<1>6. d.revision \in Nat
  BY DbFields
<1>7. (ok => W = Writes(d, b)) /\ (~ok => W = NoWrites)
  OBVIOUS
<1> HIDE DEF W, V, ok
<1>8. p \in Plans /\ p.valid = ok /\ p.writes = W
  BY <1>3, <1>4, <1>5, <1>6 DEF Plans
<1> HIDE DEF p
<1>9. QED
  BY <1>1, <1>7, <1>8 DEF ok

LEMMA RowTaken ==
  ASSUME NEW r \in Row, NEW v \in BOOLEAN
  PROVE  LET q == [r EXCEPT !.deleted = 0, !.corrects = v] IN
         q \in Row /\ q.deleted = 0 /\ q.origin = r.origin /\ q.text = r.text
<1>1. 0 \in 0..MaxTime
  BY ConstantsAssumption
<1>2. CASE v = TRUE
  BY <1>1, <1>2 DEF Row
<1>3. CASE v = FALSE
  BY <1>1, <1>3 DEF Row
<1>4. QED
  BY <1>2, <1>3

LEMMA WriteRowsIs ==
  ASSUME NEW d \in Db, NEW b \in Bundles, NEW p, p.writes = Writes(d, b)
  PROVE  LET w == WriteRows(d, b, p) IN
         /\ w \in Db
         /\ \A e \in NewEvidence(d, b) :
              w.ev[e] \in Row /\ w.ev[e].deleted = 0 /\ w.ev[e].origin = b.ev[e].origin
              /\ w.ev[e].text = b.ev[e].text
         /\ \A e \in Evidence \ NewEvidence(d, b) : w.ev[e] = d.ev[e]
         /\ \A i \in Item : w.item[i] = IF i \in NewCore(d, b) \cup NewWorld(d, b) THEN b.item[i] ELSE d.item[i]
         /\ \A i \in Item : w.life[i] = IF i \in NewLife(d, b) THEN b.life[i] ELSE d.life[i]
         /\ w.ctx = d.ctx /\ w.gone = d.gone /\ w.marks = d.marks /\ w.history = d.history
         /\ w.lead = d.lead /\ w.owed = d.owed
         /\ w.revision = d.revision /\ w.receipts = d.receipts
<1> DEFINE A == NewEvidence(d, b)
           C == NewCore(d, b) \cup NewWorld(d, b)
           D == NewLife(d, b)
           E == [e \in Evidence |-> IF e \in A
                  THEN [b.ev[e] EXCEPT !.deleted = 0, !.corrects = @ /\ e \notin p.warned[2]]
                  ELSE d.ev[e]]
           I == [i \in Item |-> IF i \in C THEN b.item[i] ELSE d.item[i]]
           L == [i \in Item |-> IF i \in D THEN b.life[i] ELSE d.life[i]]
           w == [d EXCEPT !.ev = E, !.item = I, !.life = L]
<1>1. /\ b.ev \in [Evidence -> Row \cup {NoRow}] /\ b.item \in [Item -> 0..MaxVersion]
      /\ b.life \in [Item -> 0..2]
  BY BundleFields
<1>2. WriteRows(d, b, p) = w
  <2>1. p.writes.evidence = A /\ p.writes.items = C /\ p.writes.life = D
    BY WritesIs
  <2>2. QED
    BY <2>1 DEF WriteRows
<1>3. A \subseteq Evidence /\ \A e \in A : Has(b, e)
  BY DEF NewEvidence
<1> HIDE DEF A, C, D
<1>4. ASSUME NEW e \in A
      PROVE  E[e] \in Row /\ E[e].deleted = 0 /\ E[e].origin = b.ev[e].origin /\ E[e].text = b.ev[e].text
  <2> DEFINE v == b.ev[e].corrects /\ e \notin p.warned[2]
             q == [b.ev[e] EXCEPT !.deleted = 0, !.corrects = v]
  <2>1. b.ev[e] \in Row /\ v \in BOOLEAN
    BY <1>1, <1>3, RowFields
  <2>2. E[e] = q
    BY <1>3, <2>1 DEF Row
  <2> HIDE DEF E, v
  <2>3. q \in Row /\ q.deleted = 0 /\ q.origin = b.ev[e].origin /\ q.text = b.ev[e].text
    BY <2>1, RowTaken
  <2> HIDE DEF q
  <2>4. QED
    BY <2>2, <2>3
<1>5. \A e \in Evidence \ A : E[e] = d.ev[e] /\ E[e] \in Row \cup {NoRow}
  BY DbFields
<1>6. E = [e \in Evidence |-> E[e]]
  OBVIOUS
<1> HIDE DEF E
<1>7. E \in [Evidence -> Row \cup {NoRow}]
  <2>1. \A e \in Evidence : E[e] \in Row \cup {NoRow}
    BY <1>4, <1>5
  <2>2. QED
    BY <1>6, <2>1
<1>8. /\ I \in [Item -> 0..MaxVersion] /\ L \in [Item -> 0..2]
      /\ \A i \in Item : I[i] = IF i \in C THEN b.item[i] ELSE d.item[i]
      /\ \A i \in Item : L[i] = IF i \in D THEN b.life[i] ELSE d.life[i]
  BY <1>1, DbFields
<1> HIDE DEF I, L
<1>9. /\ w \in Db /\ w.ev = E /\ w.item = I /\ w.life = L
      /\ w.ctx = d.ctx /\ w.gone = d.gone /\ w.marks = d.marks /\ w.history = d.history
      /\ w.lead = d.lead /\ w.owed = d.owed
      /\ w.revision = d.revision /\ w.receipts = d.receipts
  BY <1>7, <1>8 DEF Db
<1> HIDE DEF w
<1>10. QED
  BY <1>2, <1>4, <1>5, <1>8, <1>9 DEF A, C, D

LEMMA WriteTombstonesIs ==
  ASSUME NEW d \in Db, NEW b \in Bundles, NEW p,
         NEW S \in SUBSET Evidence, p.writes.tombstones = S,
         \A e \in S : Dead(b, e) /\ Has(d, e) /\ d.ev[e].deleted < b.ev[e].deleted
  PROVE  LET w == WriteTombstones(d, b, p) IN
         /\ w \in Db
         /\ \A e \in S : w.ev[e] \in Row /\ w.ev[e].deleted = b.ev[e].deleted
                         /\ w.ev[e].origin = FALSE /\ w.ev[e].text = d.ev[e].text
         /\ \A e \in Evidence \ S : w.ev[e] = d.ev[e]
         /\ w.item = d.item /\ w.life = d.life /\ w.ctx = d.ctx /\ w.gone = d.gone
         /\ w.marks = d.marks /\ w.history = d.history /\ w.lead = d.lead /\ w.owed = d.owed
         /\ w.revision = d.revision /\ w.receipts = d.receipts
<1> DEFINE E == [e \in Evidence |->
                  IF e \in S /\ d.ev[e].deleted < b.ev[e].deleted
                  THEN [d.ev[e] EXCEPT !.deleted = b.ev[e].deleted, !.origin = FALSE] ELSE d.ev[e]]
           w == [d EXCEPT !.ev = E]
<1>1. WriteTombstones(d, b, p) = w
  BY DEF WriteTombstones
<1>2. ASSUME NEW e \in S
      PROVE  E[e] \in Row /\ E[e].deleted = b.ev[e].deleted /\ E[e].origin = FALSE
             /\ E[e].text = d.ev[e].text
  <2> DEFINE t == b.ev[e].deleted
             q == [d.ev[e] EXCEPT !.deleted = t, !.origin = FALSE]
  <2>1. d.ev[e] \in Row /\ t \in 0..MaxTime
    BY BundleFields, DbFields, RowFields DEF Dead
  <2>2. E[e] = q
    OBVIOUS
  <2> HIDE DEF E, t
  <2>3. q \in Row /\ q.deleted = t /\ q.origin = FALSE /\ q.text = d.ev[e].text
    BY <2>1, RowForgotten
  <2> HIDE DEF q
  <2>4. QED
    BY <2>2, <2>3 DEF t
<1>3. \A e \in Evidence \ S : E[e] = d.ev[e] /\ E[e] \in Row \cup {NoRow}
  BY DbFields
<1>4. E = [e \in Evidence |-> E[e]]
  OBVIOUS
<1> HIDE DEF E
<1>5. E \in [Evidence -> Row \cup {NoRow}]
  <2>1. \A e \in Evidence : E[e] \in Row \cup {NoRow}
    BY <1>2, <1>3
  <2>2. QED
    BY <1>4, <2>1
<1>6. /\ w \in Db /\ w.ev = E
      /\ w.item = d.item /\ w.life = d.life /\ w.ctx = d.ctx /\ w.gone = d.gone
      /\ w.marks = d.marks /\ w.history = d.history /\ w.lead = d.lead /\ w.owed = d.owed
      /\ w.revision = d.revision /\ w.receipts = d.receipts
  BY <1>5, EvWith
<1> HIDE DEF w
<1>7. QED
  BY <1>1, <1>2, <1>3, <1>6

(* The rows an import leaves, without the copies. *)
Taken(d, b, w) ==
  /\ \A e \in NewEvidence(d, b) :
       w.ev[e] \in Row /\ w.ev[e].deleted = b.ev[e].deleted /\ w.ev[e].origin = b.ev[e].origin
       /\ w.ev[e].text = b.ev[e].text
  /\ \A e \in Tombstones(d, b) \ NewEvidence(d, b) :
       w.ev[e] \in Row /\ w.ev[e].deleted = b.ev[e].deleted /\ w.ev[e].origin = FALSE
       /\ w.ev[e].text = d.ev[e].text
  /\ \A e \in Evidence \ (NewEvidence(d, b) \cup Tombstones(d, b)) : w.ev[e] = d.ev[e]
  /\ \A i \in Item : w.item[i] = IF i \in NewCore(d, b) \cup NewWorld(d, b) THEN b.item[i] ELSE d.item[i]
  /\ \A i \in Item : w.life[i] = IF i \in NewLife(d, b) THEN b.life[i] ELSE d.life[i]
  /\ w.gone = d.gone /\ w.marks = d.marks /\ w.history = d.history

(* The copies an import leaves, and what is left of what quotes them. *)
Copied(d, b, w) ==
  /\ \A k \in Context : ErasedCopy(d, k) => ErasedCopy(w, k)
  /\ \A c \in Context : w.ctx[c] = "live" /\ d.ctx[c] # "live" => ~Refused(d, c) /\ ~Tainted(d, c)
  /\ \A k \in NewContexts(d, b) : b.ctx[k] = "marked" => Stilled(w, k)
  /\ Rippled(d, w, b, NewContexts(d, b), NewContexts(d, b))

(* What an import leaves, row by row and copy by copy. *)
LEMMA WrittenIs ==
  ASSUME NEW d \in Db, NEW b \in Bundles, Rooted(b), NEW p, p.writes = Writes(d, b)
  PROVE  LET w == Written(d, b, p) IN
         /\ w \in Db /\ Taken(d, b, w) /\ Copied(d, b, w)
         /\ w.revision = d.revision /\ w.receipts = d.receipts
         /\ NewContexts(d, b) = {} => w.ctx = d.ctx /\ w.lead = d.lead /\ w.owed = d.owed
<1> DEFINE x == WriteRows(d, b, p)
           y == WriteContexts(x, b, p)
           w == WriteTombstones(y, b, p)
           A == NewEvidence(d, b)
           S == Tombstones(d, b)
<1>1. Written(d, b, p) = w
  BY DEF Written
<1>2. /\ x \in Db
      /\ \A e \in A :
           x.ev[e] \in Row /\ x.ev[e].deleted = 0 /\ x.ev[e].origin = b.ev[e].origin
           /\ x.ev[e].text = b.ev[e].text
      /\ \A e \in Evidence \ A : x.ev[e] = d.ev[e]
      /\ \A i \in Item : x.item[i] = IF i \in NewCore(d, b) \cup NewWorld(d, b) THEN b.item[i] ELSE d.item[i]
      /\ \A i \in Item : x.life[i] = IF i \in NewLife(d, b) THEN b.life[i] ELSE d.life[i]
      /\ x.ctx = d.ctx /\ x.gone = d.gone /\ x.marks = d.marks /\ x.history = d.history
      /\ x.lead = d.lead /\ x.owed = d.owed
      /\ x.revision = d.revision /\ x.receipts = d.receipts
  BY WriteRowsIs
<1> HIDE DEF x
<1>3. /\ p.writes.contexts = NewContexts(d, b) /\ p.writes.tombstones = S
      /\ NewContexts(d, b) \subseteq Context /\ S \subseteq Evidence /\ A \subseteq Evidence
      /\ \A c \in NewContexts(d, b) : b.ctx[c] # "none" /\ ~ErasedCopy(d, c)
  BY WritesIs DEF NewContexts, ErasedCopy, Tombstones, NewEvidence
<1>4. \A c \in NewContexts(d, b) : b.ctx[c] # "none" /\ ~ErasedCopy(x, c)
  BY <1>2, <1>3 DEF ErasedCopy
<1>5. /\ Follows(x, y)
      /\ \A k \in NewContexts(d, b) : b.ctx[k] = "marked" => Stilled(y, k)
      /\ Rippled(x, y, b, NewContexts(d, b), NewContexts(d, b))
      /\ NewContexts(d, b) = {} => y = x
  BY <1>2, <1>3, <1>4, WriteContextsIs
<1> HIDE DEF y
<1>6. /\ y \in Db
      /\ y.ev = x.ev /\ y.item = x.item /\ y.life = x.life /\ y.gone = x.gone /\ y.marks = x.marks
      /\ y.history = x.history /\ y.revision = x.revision /\ y.receipts = x.receipts
  BY <1>5 DEF Follows, Besides
<1>7. /\ d.ev \in [Evidence -> Row \cup {NoRow}] /\ b.ev \in [Evidence -> Row \cup {NoRow}]
      /\ d.ctx \in [Context -> Copies] /\ y.ctx \in [Context -> Copies]
  BY <1>6, BundleFields, DbFields
<1>8. \A e \in A : Has(b, e) /\ ~Has(d, e)
  BY DEF NewEvidence
<1>9. \A e \in S : Dead(b, e) /\ (e \in A \/ Live(d, e) \/ (Dead(d, e) /\ d.ev[e].deleted < b.ev[e].deleted))
  BY DEF Tombstones
<1>10. ASSUME NEW e \in S PROVE Dead(b, e) /\ Has(y, e) /\ y.ev[e].deleted < b.ev[e].deleted
  <2>1. Dead(b, e) /\ b.ev[e].deleted \in 0..MaxTime /\ b.ev[e].deleted # 0
    BY <1>3, <1>7, <1>9, RowFields DEF Dead
  <2>2. CASE e \in A
    <3>1. y.ev[e] \in Row /\ y.ev[e].deleted = 0
      BY <1>2, <1>6, <2>2
    <3>2. QED
      BY <2>1, <3>1, RowAssumption DEF Has
  <2>3. CASE e \notin A
    <3>1. y.ev[e] = d.ev[e]
      BY <1>2, <1>3, <1>6, <2>3
    <3>2. QED
      BY <1>9, <2>1, <2>3, <3>1 DEF Live, Dead, Has
  <2>4. QED
    BY <2>2, <2>3
<1>11. /\ w \in Db
       /\ \A e \in S : w.ev[e] \in Row /\ w.ev[e].deleted = b.ev[e].deleted
                       /\ w.ev[e].origin = FALSE /\ w.ev[e].text = y.ev[e].text
       /\ \A e \in Evidence \ S : w.ev[e] = y.ev[e]
       /\ w.item = y.item /\ w.life = y.life /\ w.ctx = y.ctx /\ w.gone = y.gone
       /\ w.marks = y.marks /\ w.history = y.history /\ w.lead = y.lead /\ w.owed = y.owed
       /\ w.revision = y.revision /\ w.receipts = y.receipts
  BY <1>3, <1>6, <1>10, WriteTombstonesIs
<1> HIDE DEF w
<1>12. ASSUME NEW e \in A
       PROVE  w.ev[e] \in Row /\ w.ev[e].deleted = b.ev[e].deleted /\ w.ev[e].origin = b.ev[e].origin
              /\ w.ev[e].text = b.ev[e].text
  <2>1. Has(b, e) /\ ~Has(d, e) /\ b.ev[e].origin \in BOOLEAN
    BY <1>3, <1>7, <1>8, RowFields
  <2>2. CASE e \in S
    <3>1. b.ev[e].origin = FALSE
      BY <1>3, <1>9, <2>1, <2>2 DEF Rooted
    <3>2. w.ev[e] \in Row /\ w.ev[e].deleted = b.ev[e].deleted /\ w.ev[e].text = b.ev[e].text
      BY <1>2, <1>6, <1>11, <2>2
    <3>3. w.ev[e].origin = b.ev[e].origin
      BY <1>11, <2>2, <3>1
    <3>4. QED
      BY <3>2, <3>3
  <2>3. CASE e \notin S
    <3>1. b.ev[e].deleted = 0
      BY <1>3, <2>1, <2>3 DEF Tombstones, Dead
    <3>2. QED
      BY <1>2, <1>3, <1>6, <1>11, <2>3, <3>1
  <2>4. QED
    BY <2>2, <2>3
<1>13. \A e \in S \ A : w.ev[e] \in Row /\ w.ev[e].deleted = b.ev[e].deleted
                        /\ w.ev[e].origin = FALSE /\ w.ev[e].text = d.ev[e].text
  BY <1>2, <1>3, <1>6, <1>11
<1>14. \A e \in Evidence \ (A \cup S) : w.ev[e] = d.ev[e]
  BY <1>2, <1>6, <1>11
<1>15. \A k \in Context : ErasedCopy(d, k) => ErasedCopy(w, k)
  BY <1>2, <1>5, <1>11 DEF Follows, ErasedCopy
<1>16. ASSUME NEW c \in Context, w.ctx[c] = "live", d.ctx[c] # "live"
       PROVE  ~Refused(d, c) /\ ~Tainted(d, c)
  <2>1. ~Refused(x, c) /\ ~Tainted(x, c)
    BY <1>2, <1>5, <1>11, <1>16 DEF Follows
  <2>2. Refused(d, c) => Refused(x, c)
    BY <1>2 DEF Refused, ErasedCopy
  <2>3. \A m \in Evidence : Dead(d, m) => Dead(x, m)
    BY <1>2, <1>8 DEF Dead, Has
  <2>4. Tainted(d, c) => Tainted(x, c)
    BY <1>2, <2>3 DEF Tainted, ErasedCopy
  <2>5. QED
    BY <2>1, <2>2, <2>4
<1>17. \A k \in NewContexts(d, b) : b.ctx[k] = "marked" => Stilled(w, k)
  BY <1>5, <1>11 DEF Stilled
<1>18. NewContexts(d, b) = {} => w.ctx = d.ctx /\ w.lead = d.lead /\ w.owed = d.owed
  BY <1>2, <1>5, <1>11
<1>23. Rippled(d, w, b, NewContexts(d, b), NewContexts(d, b))
  BY <1>2, <1>5, <1>11, SameRipples
<1>19. Taken(d, b, w)
  BY <1>2, <1>6, <1>11, <1>12, <1>13, <1>14 DEF Taken
<1>20. Copied(d, b, w)
  BY <1>15, <1>16, <1>17, <1>23 DEF Copied
<1>21. w.revision = d.revision /\ w.receipts = d.receipts
  BY <1>2, <1>6, <1>11
<1>22. QED
  BY <1>1, <1>11, <1>18, <1>19, <1>20, <1>21

(* Which rows it took is told by what they say now. *)
LEMMA TakenRows ==
  ASSUME NEW d \in Db, NEW b \in Bundles, Rooted(d), Rooted(b), ~Suppressed(d, b), ~Clash(d, b),
         NEW w \in Db, Taken(d, b, w), NEW e \in Evidence
  PROVE  /\ Has(w, e) <=> (Has(d, e) \/ e \in NewEvidence(d, b))
         /\ Erased(d, e) => w.ev[e] = d.ev[e]
         /\ Erased(w, e) => Erased(d, e) \/ Erased(b, e)
         /\ Dead(d, e) => w.ev[e].deleted >= d.ev[e].deleted
         /\ Live(d, e) /\ d.ev[e].origin => w.ev[e] = d.ev[e]
         /\ Live(w, e) => \/ w.ev[e] = d.ev[e] /\ Live(d, e)
                          \/ e \in NewEvidence(d, b) /\ Live(b, e) /\ w.ev[e].origin = b.ev[e].origin
         /\ (Live(w, e) => w.ev[e].text = "full") /\ (Dead(w, e) => ~w.ev[e].origin)
         /\ Live(w, e) /\ OriginOf[e] # NoOrigin => w.ev[e].origin
<1> DEFINE A == NewEvidence(d, b)
           S == Tombstones(d, b)
<1>1. /\ d.ev \in [Evidence -> Row \cup {NoRow}] /\ b.ev \in [Evidence -> Row \cup {NoRow}]
      /\ w.ev \in [Evidence -> Row \cup {NoRow}]
  BY BundleFields, DbFields
<1>2. /\ (Live(d, e) => d.ev[e].text = "full") /\ (Dead(d, e) => ~d.ev[e].origin)
      /\ (Live(b, e) => b.ev[e].text = "full") /\ (Dead(b, e) => ~b.ev[e].origin)
      /\ Live(d, e) /\ OriginOf[e] # NoOrigin => d.ev[e].origin
      /\ Live(b, e) /\ OriginOf[e] # NoOrigin => b.ev[e].origin
  BY DEF Rooted
<1>3. Has(b, e) => ~Erased(d, e)
  BY DEF Suppressed
<1>4. /\ Has(d, e) => d.ev[e].deleted \in 0..MaxTime
      /\ Has(b, e) => b.ev[e].deleted \in 0..MaxTime
      /\ Has(d, e) => d.ev[e].text \in {"full", "empty"}
  BY <1>1, RowFields
<1>5. CASE e \in A
  <2>1. Has(b, e) /\ ~Has(d, e) /\ Has(w, e) /\ w.ev[e].deleted = b.ev[e].deleted
        /\ w.ev[e].origin = b.ev[e].origin /\ w.ev[e].text = b.ev[e].text
    BY <1>5, RowAssumption DEF Taken, NewEvidence, Has
  <2>2. QED
    BY <1>2, <1>5, <2>1 DEF Live, Dead, Erased, Has
<1>6. CASE e \in S \ A
  <2>1. /\ Dead(b, e) /\ Has(b, e)
        /\ Live(d, e) \/ (Dead(d, e) /\ d.ev[e].deleted < b.ev[e].deleted)
        /\ Has(w, e) /\ w.ev[e].deleted = b.ev[e].deleted /\ w.ev[e].origin = FALSE
        /\ w.ev[e].text = d.ev[e].text
    BY <1>6, RowAssumption DEF Taken, Tombstones, Has, Dead
  <2>2. Has(d, e) /\ ~Live(b, e)
    BY <2>1 DEF Live, Dead
  <2>3. d.ev[e].text = b.ev[e].text /\ d.ev[e].origin = b.ev[e].origin
    BY <2>1, <2>2 DEF Clash, EvidenceClash
  <2>4. ~(Live(d, e) /\ d.ev[e].origin)
    BY <1>2, <2>1, <2>3
  <2>5. QED
    BY <1>2, <1>3, <1>4, <1>6, <2>1, <2>2, <2>3, <2>4 DEF Live, Dead, Erased, Has
<1>7. CASE e \notin A \cup S
  <2>1. w.ev[e] = d.ev[e]
    BY <1>7 DEF Taken
  <2>2. QED
    BY <1>2, <1>4, <1>7, <2>1 DEF Live, Dead, Erased, Has
<1>8. QED
  BY <1>5, <1>6, <1>7

LEMMA TakenStands ==
  ASSUME NEW d \in Db, NEW b \in Bundles, Rooted(d), Rooted(b), Fenced(d),
         ~Suppressed(d, b), ~Clash(d, b), NEW w \in Db, Taken(d, b, w)
  PROVE  /\ Rooted(w) /\ Fenced(w)
         /\ \A i \in Core : d.item[i] = 0 /\ w.item[i] # 0 =>
              \A e \in Sources[i] : ~Dead(d, e) \/ Dead(b, e)
<1>1. \A e \in Evidence :
        /\ Has(w, e) <=> (Has(d, e) \/ e \in NewEvidence(d, b))
        /\ Erased(w, e) => Erased(d, e) \/ Erased(b, e)
        /\ Live(w, e) => \/ w.ev[e] = d.ev[e] /\ Live(d, e)
                         \/ e \in NewEvidence(d, b) /\ Live(b, e) /\ w.ev[e].origin = b.ev[e].origin
        /\ (Live(w, e) => w.ev[e].text = "full") /\ (Dead(w, e) => ~w.ev[e].origin)
        /\ Live(w, e) /\ OriginOf[e] # NoOrigin => w.ev[e].origin
  BY TakenRows
<1>2. \A i \in Core : i \in Item /\ Sources[i] \subseteq Evidence
  BY ConstantsAssumption
<1>3. \A e \in Evidence : Has(b, e) => ~Erased(d, e) /\ (b.ev[e].origin => OriginOf[e] \notin d.gone)
  BY DEF Suppressed
<1>4. ASSUME NEW i \in Core, i \in NewCore(d, b), NEW e \in Sources[i]
      PROVE  /\ Has(b, e) /\ ~Erased(b, e) /\ ~Erased(d, e)
             /\ Has(d, e) \/ e \in NewEvidence(d, b)
             /\ ~Dead(d, e) \/ Dead(b, e)
  <2>1. e \in Evidence /\ e \notin Unresolved(d, b) /\ b.item[i] # 0
    BY <1>2, <1>4 DEF NewCore
  <2>2. Has(b, e) /\ ~Erased(b, e)
    BY <2>1 DEF Rooted
  <2>3. QED
    BY <1>3, <2>1, <2>2 DEF NewEvidence, Unresolved, Live, Dead
<1>5. \A i \in Core : w.item[i] # 0 => i \in NewCore(d, b) \/ d.item[i] # 0
  BY <1>2 DEF Taken, NewWorld
<1>6. ASSUME NEW i \in Core, w.item[i] # 0, NEW e \in Sources[i] PROVE Has(w, e) /\ ~Erased(w, e)
  <2>1. CASE i \in NewCore(d, b)
    BY <1>1, <1>2, <1>4, <2>1
  <2>2. CASE d.item[i] # 0
    <3>1. Has(d, e) /\ ~Erased(d, e) /\ e \in Evidence
      BY <1>2, <2>2 DEF Rooted
    <3>2. CASE e \in Tombstones(d, b) \ NewEvidence(d, b)
      <4>1. w.ev[e].text = d.ev[e].text /\ Has(w, e)
        BY <1>1, <3>1, <3>2 DEF Taken
      <4>2. d.ev[e].text # "empty"
        BY <3>1 DEF Rooted, Live, Erased, Dead
      <4>3. QED
        BY <4>1, <4>2 DEF Erased
    <3>3. CASE e \notin Tombstones(d, b)
      <4>1. w.ev[e] = d.ev[e]
        BY <3>1, <3>3 DEF Taken, NewEvidence
      <4>2. QED
        BY <3>1, <4>1 DEF Has, Erased, Dead
    <3>4. e \notin NewEvidence(d, b)
      BY <3>1 DEF NewEvidence
    <3>5. QED
      BY <3>2, <3>3, <3>4
  <2>3. QED
    BY <1>5, <1>6, <2>1, <2>2
<1>7. Rooted(w)
  BY <1>1, <1>6 DEF Rooted
<1>8. Fenced(w)
  <2>1. ASSUME NEW i \in Item, w.item[i] # 0 PROVE i \notin w.marks
    <3>1. w.marks = d.marks
      BY DEF Taken
    <3>2. CASE i \in NewCore(d, b) \cup NewWorld(d, b)
      BY <3>1, <3>2 DEF NewCore, NewWorld, Suppressed
    <3>3. CASE i \notin NewCore(d, b) \cup NewWorld(d, b)
      BY <2>1, <3>1, <3>3 DEF Taken, Fenced
    <3>4. QED
      BY <3>2, <3>3
  <2>2. ASSUME NEW e \in Evidence, Live(w, e), w.ev[e].origin PROVE OriginOf[e] \notin w.gone
    <3>1. w.gone = d.gone
      BY DEF Taken
    <3>2. CASE w.ev[e] = d.ev[e] /\ Live(d, e)
      BY <2>2, <3>1, <3>2 DEF Fenced
    <3>3. CASE e \in NewEvidence(d, b) /\ w.ev[e].origin = b.ev[e].origin
      BY <1>3, <2>2, <3>1, <3>3 DEF NewEvidence
    <3>4. QED
      BY <1>1, <2>2, <3>2, <3>3
  <2>3. QED
    BY <2>1, <2>2 DEF Fenced
<1>9. \A i \in Core : d.item[i] = 0 /\ w.item[i] # 0 => \A e \in Sources[i] : ~Dead(d, e) \/ Dead(b, e)
  BY <1>4, <1>5
<1>10. QED
  BY <1>7, <1>8, <1>9

LEMMA TakenSettles ==
  ASSUME NEW d \in Db, NEW b \in Bundles, Rooted(d), Rooted(b),
         ~Suppressed(d, b), ~Clash(d, b), NEW w \in Db, Taken(d, b, w)
  PROVE  Settled(w, b)
<1> DEFINE A == NewEvidence(d, b)
           S == Tombstones(d, b)
<1>1. \A e \in Evidence : /\ Has(w, e) <=> (Has(d, e) \/ e \in A)
                          /\ Live(d, e) /\ d.ev[e].origin => w.ev[e] = d.ev[e]
  BY TakenRows
<1>2. \A o : From(d, o) \subseteq From(w, o)
  BY <1>1 DEF From, Live, Has
<1>3. ASSUME NEW e \in Unresolved(d, b) PROVE e \in Unresolved(w, b) /\ e \in Evidence
  <2>1. e \in Evidence /\ e \notin A /\ Has(b, e)
    BY DEF Unresolved, NewEvidence
  <2>2. CASE Dead(d, e) /\ Live(b, e)
    <3>1. e \notin S
      BY <2>2 DEF Tombstones, Live, Dead
    <3>2. w.ev[e] = d.ev[e]
      BY <2>1, <3>1 DEF Taken
    <3>3. QED
      BY <2>1, <2>2, <3>2 DEF Unresolved, Dead, Has
  <2>3. CASE ~Has(d, e) /\ b.ev[e].origin /\ From(d, OriginOf[e]) # {}
    BY <1>1, <1>2, <2>1, <2>3 DEF Unresolved
  <2>4. QED
    BY <2>2, <2>3 DEF Unresolved
<1>4. NewEvidence(w, b) = {}
  <2>1. \A e \in Evidence : Has(b, e) /\ ~Has(w, e) => e \in Unresolved(d, b)
    BY <1>1 DEF NewEvidence
  <2>2. QED
    BY <1>3, <2>1 DEF NewEvidence
<1>5. Tombstones(w, b) = {}
  <2> SUFFICES ASSUME NEW e \in Evidence, Dead(b, e),
                      Live(w, e) \/ (Dead(w, e) /\ w.ev[e].deleted < b.ev[e].deleted)
               PROVE  FALSE
    BY <1>4 DEF Tombstones
  <2>1. b.ev[e].deleted \in 0..MaxTime /\ b.ev[e].deleted # 0
    BY BundleFields, RowFields DEF Dead
  <2>2. CASE e \in A \cup S
    <3>1. w.ev[e].deleted = b.ev[e].deleted
      BY <2>2 DEF Taken
    <3>2. QED
      BY <2>1, <3>1 DEF Live, Dead
  <2>3. CASE e \notin A \cup S
    <3>1. w.ev[e] = d.ev[e]
      BY <2>3 DEF Taken
    <3>2. QED
      BY <2>3, <3>1 DEF Tombstones, Live, Dead, Has
  <2>4. QED
    BY <2>2, <2>3
<1>6. NewCore(w, b) = {}
  <2> SUFFICES ASSUME NEW i \in Core, b.item[i] # 0, w.item[i] = 0, Sources[i] \cap Unresolved(w, b) = {}
               PROVE  FALSE
    BY DEF NewCore
  <2>1. i \in Item /\ Sources[i] \cap Unresolved(d, b) = {}
    BY <1>3, ConstantsAssumption
  <2>2. i \notin NewCore(d, b) \cup NewWorld(d, b) /\ d.item[i] = 0
    BY <2>1 DEF Taken
  <2>3. QED
    BY <2>1, <2>2 DEF NewCore
<1>7. NewWorld(w, b) = {}
  BY DEF Taken, NewWorld
<1>8. NewLife(w, b) = {}
  BY DEF Taken, NewLife
<1>9. QED
  BY <1>4, <1>5, <1>6, <1>7, <1>8 DEF Settled

(* The rows an import changes are the ones its plan names. *)
LEMMA TakenChanges ==
  ASSUME NEW d \in Db, NEW b \in Bundles, NEW w \in Db, Taken(d, b, w)
  PROVE  /\ {e \in Evidence : w.ev[e] # d.ev[e]} = NewEvidence(d, b) \cup Tombstones(d, b)
         /\ {i \in Item : w.item[i] # d.item[i]} = NewCore(d, b) \cup NewWorld(d, b)
         /\ {i \in Item : w.life[i] # d.life[i]} = NewLife(d, b)
<1>1. ASSUME NEW e \in Evidence, e \in NewEvidence(d, b) \cup Tombstones(d, b) PROVE w.ev[e] # d.ev[e]
  <2>1. CASE e \in NewEvidence(d, b)
    BY <2>1, RowAssumption DEF Taken, NewEvidence, Has
  <2>2. CASE e \in Tombstones(d, b) \ NewEvidence(d, b)
    <3>1. w.ev[e].deleted = b.ev[e].deleted /\ Dead(b, e)
          /\ (Live(d, e) \/ (Dead(d, e) /\ d.ev[e].deleted < b.ev[e].deleted))
      BY <2>2 DEF Taken, Tombstones
    <3>2. b.ev[e].deleted \in 0..MaxTime /\ b.ev[e].deleted # 0
      BY <3>1, BundleFields, RowFields DEF Dead
    <3>3. QED
      BY <3>1, <3>2 DEF Live, Dead
  <2>3. QED
    BY <1>1, <2>1, <2>2
<1>2. NewEvidence(d, b) \cup Tombstones(d, b) \subseteq Evidence
  BY DEF NewEvidence, Tombstones
<1>3. {e \in Evidence : w.ev[e] # d.ev[e]} = NewEvidence(d, b) \cup Tombstones(d, b)
  BY <1>1, <1>2 DEF Taken
<1>4. NewCore(d, b) \cup NewWorld(d, b) \subseteq Item
  BY ConstantsAssumption DEF NewCore, NewWorld
<1>5. \A i \in NewCore(d, b) \cup NewWorld(d, b) : b.item[i] # 0 /\ d.item[i] = 0
  BY DEF NewCore, NewWorld
<1>6. {i \in Item : w.item[i] # d.item[i]} = NewCore(d, b) \cup NewWorld(d, b)
  BY <1>4, <1>5 DEF Taken
<1>7. {i \in Item : w.life[i] # d.life[i]} = NewLife(d, b)
  BY DEF Taken, NewLife
<1>8. QED
  BY <1>3, <1>6, <1>7

LEMMA NothingTaken ==
  ASSUME NEW d \in Db, NEW b \in Bundles, NEW w \in Db, Taken(d, b, w), Writes(d, b) = NoWrites
  PROVE  w.ev = d.ev /\ w.item = d.item /\ w.life = d.life /\ NewContexts(d, b) = {}
<1>1. /\ NewEvidence(d, b) = {} /\ Tombstones(d, b) = {} /\ NewContexts(d, b) = {}
      /\ NewCore(d, b) \cup NewWorld(d, b) = {} /\ NewLife(d, b) = {}
  BY WritesIs DEF NoWrites
<1>2. /\ \A e \in Evidence : w.ev[e] = d.ev[e]
      /\ \A i \in Item : w.item[i] = d.item[i] /\ w.life[i] = d.life[i]
  BY <1>1 DEF Taken
<1>3. /\ w.ev \in [Evidence -> Row \cup {NoRow}] /\ d.ev \in [Evidence -> Row \cup {NoRow}]
      /\ w.item \in [Item -> 0..MaxVersion] /\ d.item \in [Item -> 0..MaxVersion]
      /\ w.life \in [Item -> 0..2] /\ d.life \in [Item -> 0..2]
  BY DbFields
<1>4. QED
  BY <1>1, <1>2, <1>3

LEMMA WithReceipt ==
  ASSUME NEW d \in Db, NEW r \in Receipts
  PROVE  LET n == [d EXCEPT !.receipts = @ \cup {r}] IN
         /\ n \in Db /\ n.receipts = d.receipts \cup {r}
         /\ n.ev = d.ev /\ n.item = d.item /\ n.life = d.life /\ n.ctx = d.ctx /\ n.gone = d.gone
         /\ n.marks = d.marks /\ n.history = d.history /\ n.revision = d.revision
         /\ n.lead = d.lead /\ n.owed = d.owed
BY DEF Db

LEMMA ApplyTakes ==
  ASSUME Inv, NEW h \in Host, Apply(h)
  PROVE  \E n \in Db :
           /\ db' = [db EXCEPT ![h] = n]
           /\ ~Suppressed(db[h], shown[h].bundle) /\ ~Clash(db[h], shown[h].bundle)
           /\ shown[h].plan.writes = Writes(db[h], shown[h].bundle)
           /\ Taken(db[h], shown[h].bundle, n) /\ Copied(db[h], shown[h].bundle, n)
           /\ \A r \in n.receipts : r \in db[h].receipts \/ (r.bundle = shown[h].bundle /\ r.after = n.revision)
           /\ \/ n.revision = db[h].revision + 1 /\ db[h].revision < MaxRevision
              \/ /\ n.revision = db[h].revision /\ n.ev = db[h].ev /\ n.item = db[h].item
                 /\ n.life = db[h].life /\ n.ctx = db[h].ctx /\ n.gone = db[h].gone
                 /\ n.marks = db[h].marks /\ n.history = db[h].history
                 /\ n.lead = db[h].lead /\ n.owed = db[h].owed
<1> DEFINE d == db[h]
           b == shown[h].bundle
           p == PlanOf(d, b)
           w == Written(d, b, p)
           a == IF Advances(p) THEN Moved(w) ELSE w
           r == [bundle |-> b, plan |-> p, after |-> a.revision]
           n == [a EXCEPT !.receipts = @ \cup {r}]
<1>1. d \in Db /\ b \in Bundles /\ Rooted(b)
  BY DEF Apply, Inv
<1>2. p.valid /\ p = shown[h].plan /\ (Advances(p) => d.revision < MaxRevision)
  BY DEF Apply, Stands
<1>3. db' = [db EXCEPT ![h] = n]
  BY DEF Apply
<1>4. p \in Plans /\ ~Suppressed(d, b) /\ ~Clash(d, b) /\ p.writes = Writes(d, b)
  BY <1>1, <1>2, PlanIs
<1>5. shown[h].plan.writes = Writes(d, b)
  BY <1>2, <1>4
<1> HIDE DEF p, d, b
<1>6. /\ w \in Db /\ Taken(d, b, w) /\ Copied(d, b, w)
      /\ w.gone = d.gone /\ w.marks = d.marks /\ w.history = d.history
      /\ w.revision = d.revision /\ w.receipts = d.receipts
      /\ NewContexts(d, b) = {} => w.ctx = d.ctx /\ w.lead = d.lead /\ w.owed = d.owed
  <2>1. /\ w \in Db /\ Taken(d, b, w) /\ Copied(d, b, w)
        /\ w.revision = d.revision /\ w.receipts = d.receipts
        /\ NewContexts(d, b) = {} => w.ctx = d.ctx /\ w.lead = d.lead /\ w.owed = d.owed
    BY <1>1, <1>4, WrittenIs
  <2> HIDE DEF w
  <2>2. QED
    BY <2>1 DEF Taken
<1> HIDE DEF w
<1>7. /\ a \in Db
      /\ a.ev = w.ev /\ a.item = w.item /\ a.life = w.life /\ a.ctx = w.ctx
      /\ a.gone = w.gone /\ a.marks = w.marks /\ a.history = w.history /\ a.receipts = w.receipts
      /\ a.lead = w.lead /\ a.owed = w.owed
      /\ \/ Advances(p) /\ a.revision = w.revision + 1
         \/ ~Advances(p) /\ a.revision = w.revision
  BY <1>6, MovedIs
<1> HIDE DEF a
<1>8. r \in Receipts /\ r.bundle = b /\ r.after = a.revision
  <2>1. a.revision \in Nat
    BY <1>7, DbFields
  <2>2. QED
    BY <1>1, <1>4, <2>1 DEF Receipts
<1> HIDE DEF r
<1>9. /\ n \in Db /\ n.receipts = a.receipts \cup {r}
      /\ n.ev = a.ev /\ n.item = a.item /\ n.life = a.life /\ n.ctx = a.ctx /\ n.gone = a.gone
      /\ n.marks = a.marks /\ n.history = a.history /\ n.revision = a.revision
      /\ n.lead = a.lead /\ n.owed = a.owed
  BY <1>7, <1>8, WithReceipt
<1> HIDE DEF n
<1>10. Taken(d, b, n)
  BY <1>6, <1>7, <1>9 DEF Taken
<1>11. Copied(d, b, n)
  <2>1. Rippled(d, n, b, NewContexts(d, b), NewContexts(d, b))
    BY <1>6, <1>7, <1>9, SameRipples DEF Copied
  <2>2. QED
    BY <1>6, <1>7, <1>9, <2>1 DEF Copied, ErasedCopy, Stilled
<1>12. \A q \in n.receipts : q \in d.receipts \/ (q.bundle = b /\ q.after = n.revision)
  BY <1>6, <1>7, <1>8, <1>9
<1>13. \/ n.revision = d.revision + 1 /\ d.revision < MaxRevision
       \/ /\ n.revision = d.revision /\ n.ev = d.ev /\ n.item = d.item /\ n.life = d.life
          /\ n.ctx = d.ctx /\ n.gone = d.gone /\ n.marks = d.marks /\ n.history = d.history
          /\ n.lead = d.lead /\ n.owed = d.owed
  <2>1. CASE Advances(p)
    BY <1>2, <1>6, <1>7, <1>9, <2>1
  <2>2. CASE ~Advances(p)
    <3>1. Writes(d, b) = NoWrites
      BY <1>4, <2>2 DEF Advances
    <3>2. w.ev = d.ev /\ w.item = d.item /\ w.life = d.life /\ NewContexts(d, b) = {}
      BY <1>1, <1>6, <3>1, NothingTaken
    <3>3. QED
      BY <1>6, <1>7, <1>9, <2>2, <3>2
  <2>3. QED
    BY <2>1, <2>2
<1>14. QED
  BY <1>3, <1>4, <1>5, <1>9, <1>10, <1>11, <1>12, <1>13 DEF d, b

-----------------------------------------------------------------------------
(* Every step.                                                             *)

(* What a step does to the database of the host that takes it. *)
Kept(d, n, sh) ==
  /\ n \in Db /\ Rooted(n) /\ Fenced(n) /\ Monotone(d, n)
  /\ \A i \in Core : d.item[i] = 0 /\ n.item[i] # 0 =>
       \A e \in Sources[i] : ~Dead(d, e) \/ Dead(sh.bundle, e)
  /\ n.receipts # d.receipts =>
       /\ Taken(d, sh.bundle, n) /\ Copied(d, sh.bundle, n)
       /\ sh.plan.writes = Writes(d, sh.bundle) /\ sh.bundle \in Bundles
       /\ n.revision >= d.revision
       /\ n.revision = d.revision =>
            /\ n.ev = d.ev /\ n.item = d.item /\ n.life = d.life /\ n.ctx = d.ctx
            /\ n.gone = d.gone /\ n.marks = d.marks /\ n.history = d.history
            /\ n.lead = d.lead /\ n.owed = d.owed

LEMMA OwnKeeps ==
  ASSUME Inv, NEW h \in Host, NEW n, Own(db[h], n), now' = now + 1
  PROVE  Kept(db[h], n, shown[h]) /\ Answered(n) /\ n.revision <= MaxRevision + now'
<1> DEFINE d == db[h]
<1>1. d \in Db /\ Answered(d) /\ d.revision <= MaxRevision + now /\ now \in Nat
  BY ConstantsAssumption DEF Inv
<1>2. d.revision \in Nat /\ MaxRevision \in Nat
  BY <1>1, DbFields, ConstantsAssumption
<1>3. n.receipts = d.receipts
  BY DEF Own, Quiet
<1>4. Kept(d, n, shown[h])
  BY <1>3 DEF Kept, Own, Grounded
<1>5. n.revision <= MaxRevision + now'
  BY <1>1, <1>2 DEF Own, Quiet
<1>6. ASSUME NEW r \in n.receipts
      PROVE  r.bundle \in bundles /\ r.after <= n.revision /\ (r.after = n.revision => Settled(n, r.bundle))
  <2>1. r \in d.receipts /\ r.bundle \in bundles /\ r.after <= d.revision
        /\ (r.after = d.revision => Settled(d, r.bundle))
    BY <1>1, <1>3 DEF Answered
  <2>2. r.after \in Nat
    BY <1>1, <2>1, DbFields DEF Receipts
  <2>3. CASE n.revision = d.revision + 1
    BY <1>2, <2>1, <2>2, <2>3
  <2>4. CASE n.revision = d.revision /\ \A b \in bundles : Settled(d, b) => Settled(n, b)
    BY <2>1, <2>4
  <2>5. QED
    BY <2>3, <2>4 DEF Own, Quiet
<1>7. QED
  BY <1>4, <1>5, <1>6 DEF Answered

LEMMA ApplyKeeps ==
  ASSUME Inv, NEW h \in Host, Apply(h)
  PROVE  \E n : /\ db' = [db EXCEPT ![h] = n]
                /\ Kept(db[h], n, shown[h]) /\ Answered(n) /\ n.revision <= MaxRevision + now
<1> DEFINE d == db[h]
           b == shown[h].bundle
<1>1. /\ d \in Db /\ Rooted(d) /\ Fenced(d) /\ Answered(d) /\ d.revision <= MaxRevision + now
      /\ now \in Nat /\ b \in bundles /\ b \in Bundles /\ Rooted(b)
  BY ConstantsAssumption DEF Inv, Apply
<1>2. PICK n \in Db :
        /\ db' = [db EXCEPT ![h] = n]
        /\ ~Suppressed(d, b) /\ ~Clash(d, b)
        /\ shown[h].plan.writes = Writes(d, b)
        /\ Taken(d, b, n) /\ Copied(d, b, n)
        /\ \A r \in n.receipts : r \in d.receipts \/ (r.bundle = b /\ r.after = n.revision)
        /\ \/ n.revision = d.revision + 1 /\ d.revision < MaxRevision
           \/ /\ n.revision = d.revision /\ n.ev = d.ev /\ n.item = d.item
              /\ n.life = d.life /\ n.ctx = d.ctx /\ n.gone = d.gone
              /\ n.marks = d.marks /\ n.history = d.history /\ n.lead = d.lead /\ n.owed = d.owed
  BY ApplyTakes
<1> HIDE DEF d, b
<1>3. d.revision \in Nat /\ MaxRevision \in Nat
  BY <1>1, DbFields, ConstantsAssumption
<1>4. /\ Rooted(n) /\ Fenced(n)
      /\ \A i \in Core : d.item[i] = 0 /\ n.item[i] # 0 =>
           \A e \in Sources[i] : ~Dead(d, e) \/ Dead(b, e)
  BY <1>1, <1>2, TakenStands
<1>5. Settled(n, b)
  BY <1>1, <1>2, TakenSettles
<1>6. Monotone(d, n)
  <2>1. \A e \in Evidence : Dead(d, e) =>
          n.ev[e].deleted >= d.ev[e].deleted /\ (Erased(d, e) => n.ev[e] = d.ev[e])
    BY <1>1, <1>2, TakenRows
  <2>2. QED
    BY <1>2, <2>1 DEF Monotone, Copied
<1>7. Kept(d, n, shown[h])
  <2>1. n.revision = d.revision =>
          /\ n.ev = d.ev /\ n.item = d.item /\ n.life = d.life /\ n.ctx = d.ctx
          /\ n.gone = d.gone /\ n.marks = d.marks /\ n.history = d.history
          /\ n.lead = d.lead /\ n.owed = d.owed
    BY <1>2, <1>3
  <2>2. n.revision >= d.revision
    BY <1>2, <1>3
  <2>3. QED
    BY <1>1, <1>2, <1>4, <1>6, <2>1, <2>2 DEF Kept, b
<1>8. n.revision <= MaxRevision + now
  BY <1>1, <1>2, <1>3
<1>9. ASSUME NEW r \in n.receipts
      PROVE  r.bundle \in bundles /\ r.after <= n.revision /\ (r.after = n.revision => Settled(n, r.bundle))
  <2>1. CASE r.bundle = b /\ r.after = n.revision
    BY <1>1, <1>2, <1>5, <2>1, DbFields
  <2>2. CASE r \in d.receipts
    <3>1. r.bundle \in bundles /\ r.after <= d.revision
          /\ (r.after = d.revision => Settled(d, r.bundle))
      BY <1>1, <2>2 DEF Answered
    <3>2. r.after \in Nat
      BY <1>1, <2>2, DbFields DEF Receipts
    <3>3. CASE n.revision = d.revision + 1
      BY <1>3, <3>1, <3>2, <3>3
    <3>4. CASE n.revision = d.revision /\ n.ev = d.ev /\ n.item = d.item /\ n.life = d.life
      <4>1. Settled(d, r.bundle) => Settled(n, r.bundle)
        BY <3>4, SameRows
      <4>2. QED
        BY <3>1, <3>4, <4>1
    <3>5. QED
      BY <1>2, <3>3, <3>4
  <2>3. QED
    BY <1>2, <2>1, <2>2
<1>10. QED
  BY <1>2, <1>7, <1>8, <1>9 DEF Answered, d

(* What the whole system does in a step. *)
Moves == \A h \in Host : db'[h] = db[h] \/ Kept(db[h], db'[h], shown[h])

LEMMA InitInv == Init => Inv
<1> SUFFICES ASSUME Init PROVE Inv
  OBVIOUS
<1>1. /\ db = [h \in Host |-> NewDb(Start[h])] /\ bundles = {} /\ now = 0
      /\ shown = [h \in Host |-> NoBundle]
  BY DEF Init
<1>2. ASSUME NEW S, \A i \in Core \cap S : Sources[i] \subseteq S
      PROVE  /\ NewDb(S) \in Db /\ Rooted(NewDb(S)) /\ Fenced(NewDb(S)) /\ Answered(NewDb(S))
             /\ NewDb(S).revision = 0
  <2> DEFINE E == [e \in Evidence |-> IF e \in S THEN NewRow(e) ELSE NoRow]
             I == [i \in Item |-> IF i \in S THEN 1 ELSE 0]
             L == [i \in Item |-> 0]
             X == [c \in Context |-> IF c \in S THEN "live" ELSE "none"]
             Q == {e \in Evidence \cap S : Before[e] # {}}
             O == {TextOf[c] : c \in Context \cap S} \cap Vows
             d == [ev |-> E, item |-> I, life |-> L, ctx |-> X, lead |-> Q, owed |-> O,
                   gone |-> {}, marks |-> {}, history |-> {}, revision |-> 0, receipts |-> {}]
  <2>1. NewDb(S) = d
    BY DEF NewDb
  <2>2. E \in [Evidence -> Row \cup {NoRow}]
    BY NewRowIs
  <2>3. I \in [Item -> 0..MaxVersion]
    BY ConstantsAssumption
  <2>4. L \in [Item -> 0..2]
    OBVIOUS
  <2>5. X \in [Context -> Copies]
    BY DEF Copies
  <2>6. \A e \in Evidence : E[e] = IF e \in S THEN NewRow(e) ELSE NoRow
    OBVIOUS
  <2>7. \A i \in Item : I[i] # 0 <=> i \in S
    OBVIOUS
  <2>14. Q \in SUBSET Evidence /\ O \in SUBSET Vows
    OBVIOUS
  <2> HIDE DEF E, I, L, X, Q, O
  <2>8. d \in Db
    BY <2>2, <2>3, <2>4, <2>5, <2>14 DEF Db
  <2>9. d.ev = E /\ d.item = I /\ d.marks = {} /\ d.gone = {} /\ d.receipts = {} /\ d.revision = 0
    OBVIOUS
  <2> HIDE DEF d
  <2>10. \A e \in Evidence :
           /\ e \in S => /\ Live(d, e) /\ d.ev[e].text = "full"
                         /\ d.ev[e].origin = (OriginOf[e] # NoOrigin)
           /\ e \notin S => ~Has(d, e)
    BY <2>6, <2>9, NewRowIs, RowAssumption DEF Live, Has
  <2>11. Rooted(d)
    <3>1. \A e \in Evidence : /\ Live(d, e) => d.ev[e].text = "full"
                              /\ Live(d, e) /\ OriginOf[e] # NoOrigin => d.ev[e].origin
      BY <2>10 DEF Live
    <3>2. \A e \in Evidence : ~Dead(d, e) /\ ~Erased(d, e)
      BY <2>10 DEF Live, Dead, Erased, Has
    <3>3. \A i \in Core : i \in Item /\ Sources[i] \subseteq Evidence
      BY ConstantsAssumption
    <3>4. \A i \in Core : d.item[i] # 0 => \A e \in Sources[i] : Has(d, e)
      BY <1>2, <2>7, <2>9, <2>10, <3>3 DEF Live
    <3>5. QED
      BY <3>1, <3>2, <3>3, <3>4 DEF Rooted
  <2>12. Fenced(d) /\ Answered(d)
    BY <2>9 DEF Fenced, Answered
  <2>13. QED
    BY <2>1, <2>8, <2>9, <2>11, <2>12
<1>3. \A h \in Host : /\ db[h] \in Db /\ Rooted(db[h]) /\ Fenced(db[h]) /\ Answered(db[h])
                      /\ db[h].revision = 0
  <2> SUFFICES ASSUME NEW h \in Host
               PROVE  /\ db[h] \in Db /\ Rooted(db[h]) /\ Fenced(db[h]) /\ Answered(db[h])
                      /\ db[h].revision = 0
    OBVIOUS
  <2>1. db[h] = NewDb(Start[h]) /\ \A i \in Core \cap Start[h] : Sources[i] \subseteq Start[h]
    BY <1>1, ConstantsAssumption
  <2>2. QED
    BY <1>2, <2>1
<1>4. db \in [Host -> Db]
  BY <1>1, <1>3
<1>5. IsFiniteSet(bundles) /\ Cardinality(bundles) = 0
  BY <1>1, FS_EmptySet
<1>6. QED
  BY <1>1, <1>3, <1>4, <1>5, ConstantsAssumption DEF Inv

LEMMA HostMoves ==
  ASSUME Inv, NEW h \in Host, NEW n, db' = [db EXCEPT ![h] = n], bundles' = bundles, shown' = shown,
         Kept(db[h], n, shown[h]), Answered(n), now' \in now..MaxTime,
         n.revision <= MaxRevision + now'
  PROVE  Inv' /\ Moves
<1>1. db' \in [Host -> Db] /\ db'[h] = n /\ \A g \in Host \ {h} : db'[g] = db[g]
  BY DEF Inv, Kept
<1>2. Moves
  BY <1>1 DEF Moves
<1>3. now \in 0..MaxTime /\ now' \in 0..MaxTime /\ now <= now'
  BY ConstantsAssumption DEF Inv
<1>4. ASSUME NEW g \in Host
      PROVE  /\ Rooted(db'[g]) /\ Fenced(db'[g]) /\ Answered(db'[g])
             /\ db'[g].revision <= MaxRevision + now'
  <2>1. CASE g = h
    BY <1>1, <2>1 DEF Kept
  <2>2. CASE g # h
    <3>1. /\ db'[g] = db[g] /\ Rooted(db[g]) /\ Fenced(db[g]) /\ Answered(db[g])
          /\ db[g].revision <= MaxRevision + now /\ db[g] \in Db
      BY <1>1, <2>2 DEF Inv
    <3>2. db[g].revision \in Nat /\ MaxRevision \in Nat
      BY <3>1, DbFields, ConstantsAssumption
    <3>3. QED
      BY <1>3, <3>1, <3>2
  <2>3. QED
    BY <2>1, <2>2
<1>5. ASSUME NEW g \in Host PROVE Rooted(db[g])' /\ Fenced(db[g])' /\ Answered(db[g])'
  <2>1. Rooted(db'[g]) = Rooted(db[g])'
    BY DEF Rooted, Live, Dead, Erased, Has
  <2>2. Fenced(db'[g]) = Fenced(db[g])'
    BY DEF Fenced, Live, Has
  <2>3. Answered(db'[g]) = Answered(db[g])'
    BY DEF Answered, Settled, NewEvidence, Tombstones, NewCore, NewWorld,
           NewLife, Unresolved, From, Live, Dead, Erased, Has
  <2>4. QED
    BY <1>4, <2>1, <2>2, <2>3
<1>6. QED
  BY <1>1, <1>2, <1>3, <1>4, <1>5 DEF Inv

LEMMA ExportKeeps ==
  ASSUME Inv, NEW h \in Host, Export(h) PROVE Inv' /\ Moves
<1> DEFINE x == Bundle(h)
<1>1. /\ bundles' = bundles \cup {x} /\ x \notin bundles /\ Cardinality(bundles) < MaxBundles
      /\ db' = db /\ shown' = shown /\ now' = now
  BY DEF Export
<1>2. db[h] \in Db /\ Rooted(db[h])
  BY DEF Inv
<1>3. x \in Bundles /\ x.ev = db[h].ev /\ x.item = db[h].item
  BY <1>2, DbFields DEF Bundle, Bundles
<1>4. Rooted(x)
  BY <1>2, <1>3, SameRows
<1> HIDE DEF x
<1>5. IsFiniteSet(bundles') /\ Cardinality(bundles') = Cardinality(bundles) + 1
  BY <1>1, FS_AddElement DEF Inv
<1>6. Cardinality(bundles) \in Nat
  BY FS_CardinalityType DEF Inv
<1>7. Cardinality(bundles') <= MaxBundles
  BY <1>1, <1>5, <1>6, ConstantsAssumption
<1>8. \A g \in Host : /\ Answered(db[g])' /\ Rooted(db[g])' /\ Fenced(db[g])'
                      /\ db'[g].revision <= MaxRevision + now'
  BY <1>1 DEF Inv, Answered, Rooted, Fenced, Settled, NewEvidence, Tombstones, NewCore, NewWorld,
              NewLife, Unresolved, From, Live, Dead, Erased, Has
<1>9. bundles' \subseteq Bundles /\ \A b \in bundles' : Rooted(b)
  BY <1>1, <1>3, <1>4 DEF Inv
<1>10. Moves
  BY <1>1 DEF Moves
<1>11. QED
  BY <1>1, <1>5, <1>7, <1>8, <1>9, <1>10 DEF Inv

LEMMA PlanKeeps ==
  ASSUME Inv, NEW h \in Host, NEW b \in bundles, Plan(h, b) PROVE Inv' /\ Moves
<1>1. db' = db /\ bundles' = bundles /\ now' = now
  BY DEF Plan
<1>2. DOMAIN shown' = Host /\ \A g \in Host : shown'[g] # NoBundle => shown'[g].bundle \in bundles
  <2> DEFINE v == IF PlanOf(db[h], b).valid THEN [bundle |-> b, plan |-> PlanOf(db[h], b)] ELSE NoBundle
  <2>1. shown' = [shown EXCEPT ![h] = v] /\ (v # NoBundle => v.bundle = b)
    BY DEF Plan
  <2> HIDE DEF v
  <2>2. QED
    BY <2>1 DEF Inv
<1>3. \A g \in Host : /\ Answered(db[g])' /\ Rooted(db[g])' /\ Fenced(db[g])'
  BY <1>1 DEF Inv, Answered, Rooted, Fenced, Settled, NewEvidence, Tombstones, NewCore, NewWorld,
              NewLife, Unresolved, From, Live, Dead, Erased, Has
<1>4. Moves
  BY <1>1 DEF Moves
<1>5. QED
  BY <1>1, <1>2, <1>3, <1>4 DEF Inv

LEMMA OwnMoves ==
  ASSUME Inv, NEW h \in Host, Alone, \E n : db' = [db EXCEPT ![h] = n] /\ Own(db[h], n)
  PROVE  Inv' /\ Moves
<1>1. PICK n : db' = [db EXCEPT ![h] = n] /\ Own(db[h], n)
  OBVIOUS
<1>2. now' = now + 1 /\ now' \in now..MaxTime /\ bundles' = bundles /\ shown' = shown
  BY ConstantsAssumption DEF Alone, Inv
<1>3. Kept(db[h], n, shown[h]) /\ Answered(n) /\ n.revision <= MaxRevision + now'
  BY <1>1, <1>2, OwnKeeps
<1>4. QED
  BY <1>1, <1>2, <1>3, HostMoves

LEMMA NextInv ==
  ASSUME Inv, [Next]_vars PROVE Inv' /\ Moves
<1>1. CASE UNCHANGED vars
  BY <1>1 DEF vars, Moves, Inv, Answered, Rooted, Fenced, Settled, NewEvidence, Tombstones, NewCore,
              NewWorld, NewLife, Unresolved, From, Live, Dead, Erased, Has
<1>2. CASE Next
  <2>1. PICK h \in Host :
          \/ \E e \in Evidence : Observe(h, e) \/ Forget(h, e) \/ Erase(h, e)
          \/ \E i \in Item : Form(h, i) \/ Revise(h, i) \/ Mute(h, i)
          \/ \E c \in Context : Record(h, c)
          \/ \E p \in DOMAIN Said : EraseConversation(h, p)
          \/ Export(h)
          \/ h \in Importer /\ (Apply(h) \/ \E b \in bundles : Plan(h, b))
    BY <1>2 DEF Next
  <2>2. ASSUME NEW e \in Evidence, Observe(h, e) PROVE Inv' /\ Moves
    <3>1. Alone
      BY <2>2 DEF Observe
    <3>2. QED
      BY <2>2, <3>1, ObserveOwns, OwnMoves
  <2>3. ASSUME NEW e \in Evidence, Forget(h, e) PROVE Inv' /\ Moves
    <3>1. Alone
      BY <2>3 DEF Forget
    <3>2. QED
      BY <2>3, <3>1, ForgetOwns, OwnMoves
  <2>4. ASSUME NEW e \in Evidence, Erase(h, e) PROVE Inv' /\ Moves
    <3>1. Alone
      BY <2>4 DEF Erase
    <3>2. QED
      BY <2>4, <3>1, EraseOwns, OwnMoves
  <2>5. ASSUME NEW i \in Item, Form(h, i) PROVE Inv' /\ Moves
    <3>1. Alone
      BY <2>5 DEF Form
    <3>2. QED
      BY <2>5, <3>1, FormOwns, OwnMoves
  <2>6. ASSUME NEW i \in Item, Revise(h, i) PROVE Inv' /\ Moves
    <3>1. Alone
      BY <2>6 DEF Revise
    <3>2. QED
      BY <2>6, <3>1, ReviseOwns, OwnMoves
  <2>7. ASSUME NEW i \in Item, Mute(h, i) PROVE Inv' /\ Moves
    <3>1. Alone
      BY <2>7 DEF Mute
    <3>2. QED
      BY <2>7, <3>1, MuteOwns, OwnMoves
  <2>8. ASSUME NEW c \in Context, Record(h, c) PROVE Inv' /\ Moves
    <3>1. Alone
      BY <2>8 DEF Record
    <3>2. QED
      BY <2>8, <3>1, RecordOwns, OwnMoves
  <2>9. ASSUME NEW p \in DOMAIN Said, EraseConversation(h, p) PROVE Inv' /\ Moves
    <3>1. Alone
      BY <2>9 DEF EraseConversation
    <3>2. QED
      BY <2>9, <3>1, ConversationOwns, OwnMoves
  <2>10. CASE Export(h)
    BY <2>10, ExportKeeps
  <2>11. CASE Apply(h)
    <3>1. UNCHANGED <<bundles, shown, now>> /\ now' \in now..MaxTime
      BY <2>11, ConstantsAssumption DEF Apply, Inv
    <3>2. PICK n : /\ db' = [db EXCEPT ![h] = n]
                   /\ Kept(db[h], n, shown[h]) /\ Answered(n) /\ n.revision <= MaxRevision + now
      BY <2>11, ApplyKeeps
    <3>3. QED
      BY <3>1, <3>2, HostMoves
  <2>12. ASSUME NEW b \in bundles, Plan(h, b) PROVE Inv' /\ Moves
    BY <2>12, PlanKeeps
  <2>13. QED
    BY <2>1, <2>2, <2>3, <2>4, <2>5, <2>6, <2>7, <2>8, <2>9, <2>10, <2>11, <2>12
<1>3. QED
  BY <1>1, <1>2

-----------------------------------------------------------------------------
(* The theorems.                                                           *)
LEMMA SpecInv == Spec => []Inv
<1>1. Inv /\ [Next]_vars => Inv'
  BY NextInv
<1>2. QED
  BY InitInv, <1>1, PTL DEF Spec

LEMMA SpecMoves == Spec => [][Inv /\ Moves]_vars
<1>1. Inv /\ [Next]_vars => [Inv /\ Moves]_vars
  BY NextInv
<1>2. QED
  BY <1>1, SpecInv, PTL DEF Spec

(* Whatever bundles come, of whatever age and in whatever order, no erased *)
(* item comes back to a host, no event or cognition is there without its   *)
(* sources or over erased ones, and an erased message is live under no id  *)
(* (a copy of it that was forgotten may stay, deleted).                    *)
THEOREM SourcesAlwaysStand == Spec => []SourcesStand
<1>1. Inv => SourcesStand
  <2> SUFFICES ASSUME Inv PROVE SourcesStand
    OBVIOUS
  <2>1. TypeOK
    <3>1. ASSUME NEW h \in Host
          PROVE  /\ db[h].ev \in [Evidence -> Row \cup {NoRow}]
                 /\ db[h].item \in [Item -> 0..MaxVersion] /\ db[h].life \in [Item -> 0..2]
                 /\ db[h].ctx \in [Context -> Copies]
                 /\ db[h].lead \subseteq Evidence /\ db[h].owed \subseteq Vows
                 /\ db[h].marks \subseteq Item /\ db[h].history \subseteq Evidence
                 /\ db[h].revision \in 0..(MaxRevision + MaxTime)
      <4>1. db[h] \in Db /\ db[h].revision <= MaxRevision + now /\ now \in 0..MaxTime
        BY DEF Inv
      <4>2. db[h].revision \in 0..(MaxRevision + MaxTime)
        BY <4>1, DbFields, ConstantsAssumption
      <4>3. QED
        BY <4>1, <4>2, DbFields
    <3>2. QED
      BY <3>1 DEF TypeOK, Inv
  <2>2. NothingErasedLives
    BY DEF NothingErasedLives, Inv, Fenced, Rooted
  <2>3. CoreIsRooted
    BY DEF CoreIsRooted, Inv, Rooted
  <2>4. QED
    BY <2>1, <2>2, <2>3 DEF SourcesStand
<1>2. QED
  BY <1>1, SpecInv, PTL

(* No import and nothing a host does on its own takes a deletion back, and *)
(* an erased copy of a conversation wins over live ones in either order.   *)
THEOREM DeletionAlwaysWins == Spec => DeletionWins
<1>1. [Inv /\ Moves]_vars =>
        [\A h \in Host :
           /\ \A e \in Evidence : Dead(db[h], e) =>
                db'[h].ev[e].deleted >= db[h].ev[e].deleted
                /\ (Erased(db[h], e) => db'[h].ev[e] = db[h].ev[e])
           /\ \A i \in Core : db[h].item[i] = 0 /\ db'[h].item[i] # 0 =>
                \A e \in Sources[i] : ~Dead(db[h], e) \/ Dead(shown[h].bundle, e)
           /\ \A c \in Context : ErasedCopy(db[h], c) => ErasedCopy(db'[h], c)]_vars
  <2> SUFFICES ASSUME Inv, Moves, NEW h \in Host
               PROVE  /\ \A e \in Evidence : Dead(db[h], e) =>
                           db'[h].ev[e].deleted >= db[h].ev[e].deleted
                           /\ (Erased(db[h], e) => db'[h].ev[e] = db[h].ev[e])
                      /\ \A i \in Core : db[h].item[i] = 0 /\ db'[h].item[i] # 0 =>
                           \A e \in Sources[i] : ~Dead(db[h], e) \/ Dead(shown[h].bundle, e)
                      /\ \A c \in Context : ErasedCopy(db[h], c) => ErasedCopy(db'[h], c)
    OBVIOUS
  <2>1. CASE Kept(db[h], db'[h], shown[h])
    BY <2>1 DEF Kept, Monotone
  <2>2. CASE db'[h] = db[h]
    <3>1. \A e \in Evidence : Dead(db[h], e) => db[h].ev[e].deleted \in 0..MaxTime
      BY DbFields, RowFields DEF Inv, Dead
    <3>2. QED
      BY <2>2, <3>1
  <2>3. QED
    BY <2>1, <2>2 DEF Moves
<1>2. [Inv /\ Moves]_vars =>
        [\A h \in Host : db'[h].receipts # db[h].receipts =>
           LET before == db[h]  after == db'[h]  b == shown[h].bundle IN
           \A c, k \in Context : Alike(c, k) /\ after.ctx[c] = "live" =>
             /\ before.ctx[k] = "marked" => before.ctx[c] = "live"
             /\ b.ctx[k] = "marked" => ErasedCopy(before, k)
             /\ before.ctx[c] # "live" => ~Tainted(before, c)]_vars
  <2> SUFFICES ASSUME Inv, Moves, NEW h \in Host, db'[h].receipts # db[h].receipts,
                      NEW c \in Context, NEW k \in Context, Alike(c, k), db'[h].ctx[c] = "live"
               PROVE  /\ db[h].ctx[k] = "marked" => db[h].ctx[c] = "live"
                      /\ shown[h].bundle.ctx[k] = "marked" => ErasedCopy(db[h], k)
                      /\ db[h].ctx[c] # "live" => ~Tainted(db[h], c)
    OBVIOUS
  <2>1. Copied(db[h], shown[h].bundle, db'[h])
    BY DEF Moves, Kept
  <2>2. db[h].ctx[k] \in Copies
    BY DbFields DEF Inv
  <2>3. db[h].ctx[c] # "live" => ~Refused(db[h], c) /\ ~Tainted(db[h], c)
    BY <2>1 DEF Copied
  <2>4. db[h].ctx[k] = "marked" => Refused(db[h], c)
    BY DEF Refused, ErasedCopy
  <2>5. shown[h].bundle.ctx[k] = "marked" /\ ~ErasedCopy(db[h], k) => k \in NewContexts(db[h], shown[h].bundle)
    BY <2>2 DEF NewContexts, ErasedCopy, Copies
  <2>6. ~Stilled(db'[h], k)
    BY DEF Stilled
  <2>7. QED
    BY <2>1, <2>3, <2>4, <2>5, <2>6 DEF Copied
<1>3. Spec => DeletionIsMonotone
  BY <1>1, SpecMoves, PTL DEF DeletionIsMonotone
<1>4. Spec => ErasedCopyWins
  BY <1>2, SpecMoves, PTL DEF ErasedCopyWins
<1>5. DeletionIsMonotone /\ ErasedCopyWins => DeletionWins
  BY DEF DeletionWins
<1>6. QED
  BY <1>3, <1>4, <1>5, PTL

(* What an import writes follows from what was shown: it changes the rows  *)
(* of the plan the owner saw and no other row; another copy only to redact *)
(* it with one that was erased, and the words and promises of erased       *)
(* copies, all of them and only those, which the plan does not name.  And  *)
(* while the revision stands, a bundle that was applied has nothing left   *)
(* to write but copies.                                                    *)
THEOREM ImportsStayExact == Spec => ImportsAreExact
<1>1. [Inv /\ Moves]_vars =>
        [\A h \in Host : db'[h].receipts # db[h].receipts =>
           LET before == db[h]  after == db'[h]  w == shown[h].plan.writes IN
           /\ RowsAreThePlan(before, after, w)
           /\ CopiesFollow(before, after, shown[h].bundle, w)
           /\ QuotesFollow(before, after)
           /\ [after EXCEPT !.receipts = {}] # [before EXCEPT !.receipts = {}] =>
                after.revision > before.revision]_vars
  <2> SUFFICES ASSUME Inv, Moves, NEW h \in Host, db'[h].receipts # db[h].receipts
               PROVE  LET before == db[h]  after == db'[h]  w == shown[h].plan.writes IN
                      /\ RowsAreThePlan(before, after, w)
                      /\ CopiesFollow(before, after, shown[h].bundle, w)
                      /\ QuotesFollow(before, after)
                      /\ [after EXCEPT !.receipts = {}] # [before EXCEPT !.receipts = {}] =>
                           after.revision > before.revision
    OBVIOUS
  <2>1. PICK d, n, b : d = db[h] /\ n = db'[h] /\ b = shown[h].bundle
    OBVIOUS
  <2>2. /\ d \in Db /\ n \in Db /\ b \in Bundles /\ Taken(d, b, n) /\ Copied(d, b, n)
        /\ shown[h].plan.writes = Writes(d, b) /\ n.revision >= d.revision
        /\ n.revision = d.revision =>
             /\ n.ev = d.ev /\ n.item = d.item /\ n.life = d.life /\ n.ctx = d.ctx
             /\ n.gone = d.gone /\ n.marks = d.marks /\ n.history = d.history
             /\ n.lead = d.lead /\ n.owed = d.owed
    BY <2>1 DEF Moves, Kept, Inv
  <2>3. RowsAreThePlan(d, n, Writes(d, b))
    <3>1. n.gone = d.gone /\ n.marks = d.marks /\ n.history = d.history
      BY <2>2 DEF Taken
    <3>2. QED
      BY <2>2, <3>1, TakenChanges, WritesIs DEF RowsAreThePlan
  <2>4. CopiesFollow(d, n, b, Writes(d, b)) /\ QuotesFollow(d, n)
    <3>1. Rippled(d, n, b, NewContexts(d, b), NewContexts(d, b))
      BY <2>2 DEF Copied
    <3>2. Writes(d, b).contexts = NewContexts(d, b)
      BY WritesIs
    <3>3. QED
      BY <3>1, <3>2 DEF Rippled, CopiesFollow
  <2>5. [n EXCEPT !.receipts = {}] # [d EXCEPT !.receipts = {}] => n.revision > d.revision
    <3>1. n.revision \in Nat /\ d.revision \in Nat
      BY <2>2, DbFields
    <3>2. CASE n.revision = d.revision
      BY <2>2, <3>2 DEF Db
    <3>3. CASE n.revision # d.revision
      BY <2>2, <3>1, <3>3
    <3>4. QED
      BY <3>2, <3>3
  <2>6. QED
    BY <2>1, <2>2, <2>3, <2>4, <2>5
<1>2. Inv => NothingTwice
  <2> SUFFICES ASSUME Inv, NEW h \in Host, NEW r \in db[h].receipts, r.after = db[h].revision
               PROVE  [PlanOf(db[h], r.bundle).writes EXCEPT !.contexts = {}] = NoWrites
    BY DEF NothingTwice
  <2> DEFINE d == db[h]
             b == r.bundle
             W == PlanOf(d, b).writes
  <2>1. d \in Db /\ b \in Bundles /\ Settled(d, b)
    BY DEF Inv, Answered
  <2>2. W = NoWrites \/ W = Writes(d, b)
    BY <2>1, PlanIs
  <2> HIDE DEF W
  <2>3. ASSUME W = NoWrites PROVE [W EXCEPT !.contexts = {}] = NoWrites
    BY <2>3 DEF NoWrites
  <2>4. ASSUME W = Writes(d, b) PROVE [W EXCEPT !.contexts = {}] = NoWrites
    <3>1. W = [evidence |-> {}, tombstones |-> {}, items |-> {}, life |-> {},
               contexts |-> NewContexts(d, b)]
      BY <2>1, <2>4 DEF Writes, Settled
    <3>2. PICK X : X = NewContexts(d, b)
      OBVIOUS
    <3>3. [[evidence |-> {}, tombstones |-> {}, items |-> {}, life |-> {}, contexts |-> X]
             EXCEPT !.contexts = {}] = NoWrites
      BY DEF NoWrites
    <3>4. QED
      BY <3>1, <3>2, <3>3
  <2>5. QED
    BY <2>2, <2>3, <2>4 DEF W
<1>3. Spec => ApplyIsThePlan
  BY <1>1, SpecMoves, PTL DEF ApplyIsThePlan
<1>4. Spec => []NothingTwice
  BY <1>2, SpecInv, PTL
<1>5. ApplyIsThePlan /\ []NothingTwice => ImportsAreExact
  BY DEF ImportsAreExact
<1>6. QED
  BY <1>3, <1>4, <1>5, PTL

=============================================================================
