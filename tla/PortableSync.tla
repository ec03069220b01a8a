------------------------------ MODULE PortableSync ------------------------------
(***************************************************************************)
(* Portable bundles between hosts: each host exports everything it holds   *)
(* of one owner, plans the import of another's bundle without writing,     *)
(* shows the plan with its hash, and applies it in one transaction if the  *)
(* same plan still comes out.  In between both hosts observe, form,        *)
(* revise, forget and erase, and bundles may be as old as one likes.       *)
(*                                                                         *)
(* The hash of a plan is the plan, the id of a bundle its contents.  A     *)
(* bundle is one build_bundle wrote (version 4), carried unchanged.        *)
(***************************************************************************)
EXTENDS Naturals, FiniteSets, SequencesExt

CONSTANTS Host,
          Importer,   \* the hosts that import
          Evidence, Item, Context,
          NoRow, NoBundle, NoOrigin, NoEvidence,
          OriginOf,   \* the message an Evidence was taken from
          Corrects,   \* the Evidence it was said to correct
          Sources,    \* the Evidence an item rests on
          Core,       \* items of the first store: events and cognitions
          Entity,     \* items with a name that must be unique
          Name,
          TextOf,      \* the conversation, and the text, a context is a copy of
          Mentions,   \* what a context says its reply was made from
          Before,     \* what the assistant's words kept with an Evidence name
          Vows,       \* the conversations with a promise of the assistant in them
          Said,       \* the Evidence of a conversation
          Age,        \* the contexts by creation time, as an export lists them
          Start,      \* what each host begins with
          MaxTime,    \* bound: what the hosts do on their own
          MaxVersion, \* bound: versions of an item
          MaxRevision,\* bound: revisions imports may reach
          MaxBundles  \* bound: bundles ever exported

ASSUME ConstantsAssumption ==
  /\ OriginOf \in [Evidence -> Range(OriginOf)] /\ Corrects \in [Evidence -> Evidence \cup {NoEvidence}]
  /\ Sources \in [Item -> SUBSET Evidence] /\ Core \subseteq Item /\ Entity \subseteq Item
  /\ Mentions \in [Context -> SUBSET (Evidence \cup Item \cup Context)]
  /\ Before \in [Evidence -> SUBSET (Evidence \cup Item \cup Context)]
  /\ \A p \in DOMAIN Said : Said[p] \subseteq Evidence
  /\ Age \in Seq(Context) /\ Range(Age) = Context /\ IsFiniteSet(Context)
  /\ Importer \subseteq Host
  /\ Start \in [Host -> SUBSET (Evidence \cup Item \cup Context)]
  /\ \A h \in Host : \A i \in Core \cap Start[h] : Sources[i] \subseteq Start[h]
  /\ MaxTime \in Nat /\ MaxVersion \in Nat \ {0} /\ MaxRevision \in Nat /\ MaxBundles \in Nat

VARIABLES db,       \* the database of each host
          bundles,  \* every bundle file that exists
          shown,    \* the bundle a host last planned, and the plan it was shown
          now       \* time of the last thing a host did on its own

vars == <<db, bundles, shown, now>>

Row == [text: {"full", "empty"}, origin: BOOLEAN, corrects: BOOLEAN, deleted: 0..MaxTime]
Copies == {"none", "live", "marked", "blank"}
ASSUME RowAssumption == NoRow \notin Row
NewRow(e) == [text |-> "full", origin |-> OriginOf[e] # NoOrigin,
              corrects |-> Corrects[e] # NoEvidence, deleted |-> 0]
(* lead: the Evidence rows that still have the assistant's words before   *)
(* them; owed: the conversations with a promise on record.                 *)
NewDb(S) ==
  [ev |-> [e \in Evidence |-> IF e \in S THEN NewRow(e) ELSE NoRow],
   item |-> [i \in Item |-> IF i \in S THEN 1 ELSE 0], life |-> [i \in Item |-> 0],
   ctx |-> [c \in Context |-> IF c \in S THEN "live" ELSE "none"],
   lead |-> {e \in Evidence \cap S : Before[e] # {}},
   owed |-> {TextOf[c] : c \in Context \cap S} \cap Vows,
   gone |-> {}, marks |-> {}, history |-> {}, revision |-> 0, receipts |-> {}]

Init ==
  /\ db = [h \in Host |-> NewDb(Start[h])]
  /\ bundles = {}
  /\ shown = [h \in Host |-> NoBundle]
  /\ now = 0

-----------------------------------------------------------------------------
(* Reading a database, or the same sections of a bundle.                   *)
Has(d, e) == d.ev[e] # NoRow
Live(d, e) == Has(d, e) /\ d.ev[e].deleted = 0
Dead(d, e) == Has(d, e) /\ d.ev[e].deleted # 0
Erased(d, e) == Dead(d, e) /\ d.ev[e].text = "empty"
From(d, o) == {e \in Evidence : Live(d, e) /\ d.ev[e].origin /\ OriginOf[e] = o}
ErasedCopy(d, c) == d.ctx[c] \in {"marked", "blank"}
Alike(c, k) == TextOf[c] = TextOf[k]

(* A context whose reply used something that is deleted here. *)
Tainted(d, c) ==
  \E m \in Mentions[c] :
    \/ m \in Evidence /\ Dead(d, m)
    \/ m \in Item /\ m \in d.marks
    \/ m \in Context /\ ErasedCopy(d, m)

(* Everything copied, directly or through other copies, from what goes; a  *)
(* copy that was erased says nothing more.  It is redacted, the words kept *)
(* with any Evidence that name it go, and the promises made in it.         *)
Reached(d, S) ==
  LET R[n \in 0..Cardinality(Context)] ==
        IF n = 0 THEN S
        ELSE LET near == R[n - 1] IN
             near \cup {c \in Context : d.ctx[c] = "live" /\ Mentions[c] \cap near # {}}
  IN R[Cardinality(Context)]
Redacted(d, S) ==
  LET far == Reached(d, S) IN
  [d EXCEPT
    !.ctx = [c \in Context |-> IF c \in far /\ d.ctx[c] = "live" THEN "marked" ELSE d.ctx[c]],
    !.lead = {e \in @ : Before[e] \cap far = {}},
    !.owed = @ \ {TextOf[c] : c \in {c \in Context : c \in far /\ d.ctx[c] # "none"}}]

-----------------------------------------------------------------------------
(* What the hosts do on their own; each is a module of its own elsewhere.  *)
Moved(d) == [d EXCEPT !.revision = @ + 1]
Alone == now < MaxTime /\ now' = now + 1 /\ UNCHANGED <<bundles, shown>>

(* Ids are minted once: nobody holds, held or carries the thing. *)
Unborn(h, e) ==
  /\ \A g \in Host : ~Has(db[g], e)
  /\ \A b \in bundles : ~Has(b, e)
Unformed(i) ==
  /\ \A g \in Host : db[g].item[i] = 0 /\ i \notin db[g].marks
  /\ \A b \in bundles : b.item[i] = 0

Observe(h, e) ==
  LET d == db[h] IN
  /\ Alone /\ Unborn(h, e)
  /\ OriginOf[e] # NoOrigin => From(d, OriginOf[e]) = {} /\ OriginOf[e] \notin d.gone
  /\ Corrects[e] # NoEvidence => Live(d, Corrects[e])
  /\ db' = [db EXCEPT ![h] = [d EXCEPT !.ev[e] = NewRow(e),
                                       !.lead = IF Before[e] = {} THEN @ ELSE @ \cup {e}]]

Form(h, i) ==
  LET d == db[h] IN
  /\ Alone /\ Unformed(i)
  /\ \A e \in Sources[i] : Live(d, e)
  /\ i \in Entity => \A j \in Entity : d.item[j] # 0 => Name[j] # Name[i]
  /\ db' = [db EXCEPT ![h] = Moved([d EXCEPT !.item[i] = 1])]

Revise(h, i) ==
  LET d == db[h] IN
  /\ Alone /\ d.item[i] \in 1..(MaxVersion - 1)
  /\ db' = [db EXCEPT ![h] = Moved([d EXCEPT !.item[i] = @ + 1])]

(* Muting and unmuting keep their row in world_item_lifecycle. *)
Mute(h, i) ==
  LET d == db[h] IN
  /\ Alone /\ d.item[i] # 0
  /\ \E v \in {1, 2} \ {d.life[i]} : db' = [db EXCEPT ![h] = Moved([d EXCEPT !.life[i] = v])]

Record(h, c) ==
  LET d == db[h] IN
  /\ Alone /\ \A g \in Host : db[g].ctx[c] = "none"
  /\ \A b \in bundles : b.ctx[c] = "none"
  /\ \A k \in Context : Alike(c, k) => d.ctx[k] = "none"
  /\ \A m \in Mentions[c] : CASE m \in Evidence -> Live(d, m)
                              [] m \in Item -> d.item[m] # 0
                              [] OTHER -> d.ctx[m] = "live"
  /\ db' = [db EXCEPT ![h] = [d EXCEPT !.ctx[c] = "live",
                                       !.owed = @ \cup ({TextOf[c]} \cap Vows)]]

(* forget_evidence: the row stays, its origin is free again. *)
Forget(h, e) ==
  LET d == db[h] IN
  /\ Alone /\ Live(d, e)
  /\ db' = [db EXCEPT ![h] = Moved([d EXCEPT
       !.ev[e].deleted = now', !.ev[e].origin = FALSE,
       !.history = IF d.ev[e].origin THEN @ \cup {e} ELSE @])]

(* delete_evidence: only a content-free row and markers stay. *)
Erasable(d, e) ==
  LET known == d.ev[e].origin \/ e \in d.history IN
  /\ Dead(d, e) => known
  /\ known => From(d, OriginOf[e]) \subseteq {e}
Without(d, S, t) ==
  LET going == {i \in Item : d.item[i] # 0 /\ Sources[i] \cap S # {}} IN
  Redacted([d EXCEPT
    !.ev = [e \in Evidence |->
       IF e \in S THEN [d.ev[e] EXCEPT !.text = "empty", !.origin = FALSE,
                                       !.deleted = IF @ = 0 THEN t ELSE @]
       ELSE d.ev[e]],
    !.item = [i \in Item |-> IF i \in going THEN 0 ELSE d.item[i]],
    !.life = [i \in Item |-> IF i \in going THEN 0 ELSE d.life[i]],
    !.lead = @ \ S,
    !.owed = @ \ {p \in DOMAIN Said : Said[p] \cap S # {}},
    !.marks = @ \cup going,
    !.gone = @ \cup {OriginOf[e] : e \in {e \in S : d.ev[e].origin \/ e \in d.history}},
    !.history = @ \ S], S \cup going)

Erase(h, e) ==
  LET d == db[h] IN
  /\ Alone /\ Has(d, e) /\ ~Erased(d, e) /\ Erasable(d, e)
  /\ db' = [db EXCEPT ![h] = Moved(Without(d, {e}, now'))]

(* erase_conversation_context: its Evidence and its promises go, its       *)
(* copies are blanked.                                                     *)
EraseConversation(h, p) ==
  LET d == db[h]
      S == {e \in Said[p] : Live(d, e)}
      copies == {c \in Context : TextOf[c] = p /\ d.ctx[c] \in {"live", "marked"}} IN
  /\ Alone
  /\ S # {} \/ copies # {} \/ p \in d.owed
  /\ \A e \in S : Erasable(d, e)
  /\ db' = [db EXCEPT ![h] = LET r == Redacted(Without(d, S, now'), copies) IN
       Moved([r EXCEPT !.ctx = [c \in Context |-> IF c \in copies THEN "blank" ELSE r.ctx[c]],
                       !.owed = @ \ {p}])]

-----------------------------------------------------------------------------
(* Exporting; the assistant's words and its promises stay at the host.     *)
Bundle(h) == [from |-> h, revision |-> db[h].revision, ev |-> db[h].ev, item |-> db[h].item,
              life |-> db[h].life, ctx |-> db[h].ctx]
Export(h) ==
  /\ Cardinality(bundles) < MaxBundles /\ Bundle(h) \notin bundles
  /\ bundles' = bundles \cup {Bundle(h)}
  /\ UNCHANGED <<db, shown, now>>

(* validate_bundle: what links point at is in the bundle. *)
CoreClosed(b) == \A i \in Core : b.item[i] # 0 => \A e \in Sources[i] : Has(b, e)
WorldClosed(b) == \A i \in Item \ Core : b.item[i] # 0 => \A e \in Sources[i] : Has(b, e)
HistoryClosed(b) == \A i \in Item : b.life[i] # 0 => b.item[i] # 0
Valid(b) == CoreClosed(b) /\ WorldClosed(b) /\ HistoryClosed(b)

-----------------------------------------------------------------------------
(* Planning.                                                               *)

(* Mutant of Suppressed: a message is known by its Evidence id only. *)
SuppressedById(d, b) ==
  \/ \E e \in Evidence : Has(b, e) /\ Erased(d, e)
  \/ \E i \in Item : b.item[i] # 0 /\ i \in d.marks
(* An erased source or item refuses every bundle that still has it. *)
Suppressed(d, b) ==
  \/ \E e \in Evidence :
       Has(b, e) /\ (Erased(d, e) \/ (b.ev[e].origin /\ OriginOf[e] \in d.gone))
  \/ \E i \in Item : b.item[i] # 0 /\ i \in d.marks

(* The same id with other contents refuses the bundle, except that a row   *)
(* deleted here may be live there.                                         *)
EvidenceClash(d, b) ==
  \E e \in Evidence :
    /\ Has(b, e) /\ Has(d, e)
    /\ ~(Dead(d, e) /\ Live(b, e))
    /\ \/ d.ev[e].text # b.ev[e].text \/ d.ev[e].origin # b.ev[e].origin
       \/ d.ev[e].corrects # b.ev[e].corrects
CoreClash(d, b) == \E i \in Core : b.item[i] # 0 /\ d.item[i] \notin {0, b.item[i]}
WorldClash(d, b) == \E i \in Item \ Core : b.item[i] # 0 /\ d.item[i] \notin {0, b.item[i]}
NameClash(d, b) ==
  \E i, j \in Entity : b.item[i] # 0 /\ d.item[i] = 0 /\ d.item[j] # 0 /\ Name[i] = Name[j]
LifeClash(d, b) == \E i \in Item : b.life[i] # 0 /\ d.life[i] \notin {0, b.life[i]}
Clash(d, b) == EvidenceClash(d, b) \/ CoreClash(d, b) \/ WorldClash(d, b)
               \/ NameClash(d, b) \/ LifeClash(d, b)

(* Evidence the target has deleted, or holds under another id. *)
Unresolved(d, b) ==
  {e \in Evidence : /\ Has(b, e)
                    /\ \/ Dead(d, e) /\ Live(b, e)
                       \/ ~Has(d, e) /\ b.ev[e].origin /\ From(d, OriginOf[e]) # {}}
NewEvidence(d, b) == {e \in Evidence : Has(b, e) /\ ~Has(d, e)} \ Unresolved(d, b)
Tombstones(d, b) ==
  LET new == NewEvidence(d, b) IN
  {e \in Evidence : /\ Dead(b, e)
                    /\ \/ e \in new \/ Live(d, e)
                       \/ Dead(d, e) /\ d.ev[e].deleted < b.ev[e].deleted}
NewCore(d, b) ==
  LET missing == Unresolved(d, b) IN
  {i \in Core : b.item[i] # 0 /\ d.item[i] = 0 /\ Sources[i] \cap missing = {}}
NewWorld(d, b) == {i \in Item \ Core : b.item[i] # 0 /\ d.item[i] = 0}
NewLife(d, b) == {i \in Item : b.life[i] # 0 /\ d.life[i] = 0}
NewContexts(d, b) ==
  {c \in Context : b.ctx[c] # "none"
                   /\ (d.ctx[c] = "none" \/ (ErasedCopy(b, c) /\ d.ctx[c] = "live"))}
(* A correction of what is neither live here nor new loses its pointer. *)
Cleared(d, b) ==
  LET new == NewEvidence(d, b) IN
  {e \in new : b.ev[e].corrects /\ ~Live(d, Corrects[e]) /\ Corrects[e] \notin new}

NoWrites == [evidence |-> {}, tombstones |-> {}, items |-> {}, life |-> {}, contexts |-> {}]
Writes(d, b) ==
  [evidence |-> NewEvidence(d, b), tombstones |-> Tombstones(d, b),
   items |-> NewCore(d, b) \cup NewWorld(d, b), life |-> NewLife(d, b),
   contexts |-> NewContexts(d, b)]
Advances(p) == p.writes # NoWrites
PlanOf(d, b) ==
  LET ok == Valid(b) /\ ~Suppressed(d, b) /\ ~Clash(d, b) IN
  [revision |-> d.revision, valid |-> ok, writes |-> IF ok THEN Writes(d, b) ELSE NoWrites,
   warned |-> IF ok THEN <<Unresolved(d, b), Cleared(d, b)>> ELSE <<{}, {}>>]

Plan(h, b) ==
  /\ LET p == PlanOf(db[h], b) IN
     shown' = [shown EXCEPT ![h] = IF p.valid THEN [bundle |-> b, plan |-> p] ELSE NoBundle]
  /\ UNCHANGED <<db, bundles, now>>

-----------------------------------------------------------------------------
(* Applying.                                                               *)

(* insert: an erased copy wins over a live one in either order. *)
InsertErased(d, c, copy) ==
  LET matched == {k \in Context : /\ d.ctx[k] # "none"
                                  /\ \/ k = c
                                     \/ copy = "marked" /\ Alike(c, k) /\ d.ctx[k] # "blank"}
      r == Redacted(d, matched \cup {c})
  IN [r EXCEPT !.ctx = [k \in Context |-> IF k \in matched \cup {c} THEN copy ELSE r.ctx[k]]]
(* Mutant of Refused: the same text under another id is not recognised. *)
RefusedById(d, c) == ErasedCopy(d, c)
Refused(d, c) ==
  \E k \in Context : ErasedCopy(d, k) /\ (k = c \/ (d.ctx[k] = "marked" /\ Alike(c, k)))
InsertLive(d, c) ==
  LET r == [d EXCEPT !.ctx[c] = "live"] IN
  IF Refused(d, c) THEN d
  ELSE IF Tainted(r, c) THEN Redacted(r, {c}) ELSE r
Insert(d, c, copy) == IF copy = "live" THEN InsertLive(d, c) ELSE InsertErased(d, c, copy)

WriteRows(d, b, p) ==
  [d EXCEPT
    !.ev = [e \in Evidence |->
      IF e \in p.writes.evidence
      THEN [b.ev[e] EXCEPT !.deleted = 0, !.corrects = @ /\ e \notin p.warned[2]]
      ELSE d.ev[e]],
    !.item = [i \in Item |-> IF i \in p.writes.items THEN b.item[i] ELSE d.item[i]],
    !.life = [i \in Item |-> IF i \in p.writes.life THEN b.life[i] ELSE d.life[i]]]
WriteContexts(d, b, p) ==
  LET R[n \in 0..Len(Age)] ==
        IF n = 0 THEN d
        ELSE IF Age[n] \in p.writes.contexts THEN Insert(R[n - 1], Age[n], b.ctx[Age[n]])
        ELSE R[n - 1]
  IN R[Len(Age)]
WriteTombstones(d, b, p) ==
  [d EXCEPT !.ev = [e \in Evidence |->
     IF e \in p.writes.tombstones /\ d.ev[e].deleted < b.ev[e].deleted
     THEN [d.ev[e] EXCEPT !.deleted = b.ev[e].deleted, !.origin = FALSE] ELSE d.ev[e]]]
Written(d, b, p) == WriteTombstones(WriteContexts(WriteRows(d, b, p), b, p), b, p)

(* Mutant of Stands: the hash is not compared. *)
StandsAnyway(h, p) == p.valid
Stands(h, p) == p.valid /\ p = shown[h].plan

(* A plan that was applied is answered from its receipt and writes nothing. *)
Apply(h) ==
  /\ shown[h] # NoBundle
  /\ LET d == db[h]
         b == shown[h].bundle
         p == PlanOf(d, b) IN
     /\ ~\E r \in d.receipts : r.bundle = b /\ r.plan = shown[h].plan
     /\ Stands(h, p)
     /\ Advances(p) => d.revision < MaxRevision
     /\ db' = [db EXCEPT ![h] =
          LET w == Written(d, b, p)
              a == IF Advances(p) THEN Moved(w) ELSE w
          IN [a EXCEPT !.receipts = @ \cup {[bundle |-> b, plan |-> p, after |-> a.revision]}]]
  /\ UNCHANGED <<bundles, shown, now>>

Next ==
  \E h \in Host :
    \/ \E e \in Evidence : Observe(h, e) \/ Forget(h, e) \/ Erase(h, e)
    \/ \E i \in Item : Form(h, i) \/ Revise(h, i) \/ Mute(h, i)
    \/ \E c \in Context : Record(h, c)
    \/ \E p \in DOMAIN Said : EraseConversation(h, p)
    \/ Export(h)
    \/ h \in Importer /\ (Apply(h) \/ \E b \in bundles : Plan(h, b))

Spec == Init /\ [][Next]_vars

-----------------------------------------------------------------------------
(* The databases hold only rows their schema has. *)
TypeOK ==
  /\ \A h \in Host :
       /\ db[h].ev \in [Evidence -> Row \cup {NoRow}]
       /\ db[h].item \in [Item -> 0..MaxVersion] /\ db[h].life \in [Item -> 0..2]
       /\ db[h].ctx \in [Context -> Copies]
       /\ db[h].lead \subseteq Evidence /\ db[h].owed \subseteq Vows
       /\ db[h].marks \subseteq Item /\ db[h].history \subseteq Evidence
       /\ db[h].revision \in 0..(MaxRevision + MaxTime)
  /\ Cardinality(bundles) <= MaxBundles /\ now \in 0..MaxTime

(* What the erasure of a source leaves true at a host, whatever bundles,   *)
(* old or new, come from anyone: an item that was erased never comes back, *)
(* no event or cognition stands on the Evidence that was erased, and the   *)
(* message is live again under no id.  Not promised, because a copy that   *)
(* was forgotten no longer says which message it is: such a copy keeps its *)
(* text where it is, and a bundle can still bring it, deleted, with what   *)
(* was formed from it.                                                     *)
NothingErasedLives ==
  \A h \in Host :
    /\ \A i \in Item : db[h].item[i] # 0 => i \notin db[h].marks
    /\ \A i \in Core : db[h].item[i] # 0 => \A e \in Sources[i] : ~Erased(db[h], e)
    /\ \A e \in Evidence : Live(db[h], e) /\ OriginOf[e] # NoOrigin => OriginOf[e] \notin db[h].gone

(* An event or a cognition is never stored without its sources: when one   *)
(* of them cannot be restored, the whole record stays out.                 *)
CoreIsRooted ==
  \A h \in Host : \A i \in Core : db[h].item[i] # 0 => \A e \in Sources[i] : Has(db[h], e)

(* Records stand on their sources: only with them, and not after them.     *)
SourcesStand == TypeOK /\ NothingErasedLives /\ CoreIsRooted

(* A bundle that was applied writes no row a second time while nothing     *)
(* else moved the host.                                                    *)
NothingTwice ==
  \A h \in Host : \A r \in db[h].receipts :
    r.after = db[h].revision =>
      [PlanOf(db[h], r.bundle).writes EXCEPT !.contexts = {}] = NoWrites

(* Deletion is monotone: a deleted row stays deleted and never gets an     *)
(* earlier date, an erased text stays erased, and an import adds no event  *)
(* or cognition over a source that is deleted here and was live there.     *)
DeletionIsMonotone ==
  [][\A h \in Host :
       /\ \A e \in Evidence : Dead(db[h], e) =>
            db'[h].ev[e].deleted >= db[h].ev[e].deleted
            /\ (Erased(db[h], e) => db'[h].ev[e] = db[h].ev[e])
       /\ \A i \in Core : db[h].item[i] = 0 /\ db'[h].item[i] # 0 =>
            \A e \in Sources[i] : ~Dead(db[h], e) \/ Dead(shown[h].bundle, e)
       /\ \A c \in Context : ErasedCopy(db[h], c) => ErasedCopy(db'[h], c)]_vars

(* An erased copy of a conversation wins over live ones in either order of *)
(* restoring: an import never makes a copy live where one of the same text *)
(* was redacted, and leaves none of the same text live when it brings the  *)
(* redacted one, unless that very copy was erased here before.             *)
ErasedCopyWins ==
  [][\A h \in Host : db'[h].receipts # db[h].receipts =>
       LET before == db[h]  after == db'[h]  b == shown[h].bundle IN
       \A c, k \in Context : Alike(c, k) /\ after.ctx[c] = "live" =>
         /\ before.ctx[k] = "marked" => before.ctx[c] = "live"
         /\ b.ctx[k] = "marked" => ErasedCopy(before, k)
         /\ before.ctx[c] # "live" => ~Tainted(before, c)]_vars

(* What was deleted stays so, whatever bundle comes, in whatever order. *)
DeletionWins == DeletionIsMonotone /\ ErasedCopyWins

(* An import of b with the plan w, from the database d to n.               *)
(* Rows appear or change if and only if the plan names them. *)
RowsAreThePlan(d, n, w) ==
  /\ {e \in Evidence : n.ev[e] # d.ev[e]} = w.evidence \cup w.tombstones
  /\ {i \in Item : n.item[i] # d.item[i]} = w.items
  /\ {i \in Item : n.life[i] # d.life[i]} = w.life
  /\ n.gone = d.gone /\ n.marks = d.marks /\ n.history = d.history

(* A copy the plan does not name is only ever redacted, because it used a  *)
(* copy that is erased now or is one of a text that came redacted; a copy  *)
(* it names is left out only where one of its text is erased.              *)
CopiesFollow(d, n, b, w) ==
  /\ \A c \in Context \ w.contexts : n.ctx[c] # d.ctx[c] =>
       /\ d.ctx[c] = "live" /\ n.ctx[c] = "marked"
       /\ \/ \E k \in Mentions[c] \cap Context : ErasedCopy(n, k)
          \/ \E k \in w.contexts : b.ctx[k] = "marked" /\ Alike(c, k)
  /\ \A c \in w.contexts : n.ctx[c] = "none" =>
       \E k \in Context : Alike(c, k) /\ ErasedCopy(n, k)

(* The plan names neither words kept with Evidence nor promises, and none  *)
(* come: they go with the copies they are from, with all that an import    *)
(* erases and only with erased ones.                                       *)
QuotesFollow(d, n) ==
  /\ n.lead \subseteq d.lead /\ n.owed \subseteq d.owed
  /\ \A e \in d.lead \ n.lead : \E c \in Before[e] \cap Context : ErasedCopy(n, c)
  /\ \A p \in d.owed \ n.owed : \E c \in Context : TextOf[c] = p /\ ErasedCopy(n, c)
  /\ \A c \in Context : ErasedCopy(n, c) /\ ~ErasedCopy(d, c) =>
       /\ \A e \in n.lead : c \notin Before[e]
       /\ d.ctx[c] = "live" => TextOf[c] \notin n.owed

(* What an import changes follows from the plan shown last: the rows are   *)
(* those of the plan, what else changes is what redacting its copies takes *)
(* along (copies of the same text, copies, words and promises made from    *)
(* them), and whoever looks at the revision sees that something did.       *)
ApplyIsThePlan ==
  [][\A h \in Host : db'[h].receipts # db[h].receipts =>
       LET before == db[h]  after == db'[h]  w == shown[h].plan.writes IN
       /\ RowsAreThePlan(before, after, w)
       /\ CopiesFollow(before, after, shown[h].bundle, w)
       /\ QuotesFollow(before, after)
       /\ [after EXCEPT !.receipts = {}] # [before EXCEPT !.receipts = {}] =>
            after.revision > before.revision]_vars

(* An import writes what was shown and what follows from it, once. *)
ImportsAreExact == ApplyIsThePlan /\ []NothingTwice
=============================================================================
