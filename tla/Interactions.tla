------------------------------ MODULE Interactions ------------------------------
(***************************************************************************)
(* Interactions: the turns an agent host delivers, what each reply of the  *)
(* assistant was based on, and what erasing a source takes with it.  A     *)
(* delivery stores Evidence and its job, then the turns; the host links a  *)
(* reply to what it was based on then or later; erasing follows the links. *)
(*                                                                         *)
(* The bridge serves one request at a time and keeps its answers for       *)
(* repeated request ids; another process may write the same database.      *)
(* A context hash is modelled as the links it covers; routing, scoring and *)
(* rendering of what is asked are left out.                                *)
(***************************************************************************)
EXTENDS Naturals, Sequences, FiniteSets

CONSTANTS Evid, OneClause,       \* spoken messages, those of a single sentence
          Items, Basis,          \* derived World items and the Evidence of each
          Episodes, Said, Conv,  \* deliveries, their messages, their conversation
          Replies,               \* number of replies in each
          Repeats,               \* what the replies of an episode repeat word by word
          Offered,               \* captures the host may send for a reply of an episode
          MaxDepth, MaxNodes,    \* limits of the walk through the links
          MaxCopies,             \* bound: stored copies of one episode
          MaxSends, MaxOthers    \* bounds: deliveries of an episode; writes of another
                                 \* process, changes of permission and retirements

ASSUME DataAssumption ==
  /\ IsFiniteSet(Episodes)
  /\ Evid \cap Items = {} /\ OneClause \subseteq Evid
  /\ Basis \in [Items -> (SUBSET Evid) \ {{}}]
  /\ Repeats \in [Episodes -> SUBSET (Evid \cup Items)]
  /\ Said \in [Episodes -> SUBSET Evid] /\ Replies \in [Episodes -> Nat]
  /\ MaxDepth \in Nat /\ MaxNodes \in Nat /\ MaxCopies \in [Episodes -> Nat]

VARIABLES ev, open,     \* Evidence: its state and where it may be read
          item,         \* World items
          job,          \* formation jobs, one per episode
          rows,         \* interaction_context: copies of an episode
          commitments,  \* episodes with recorded promises of the assistant
          sent,         \* what the host sends for each episode, and how often
          serving,      \* the episode the bridge is storing
          held,         \* rows whose text an answer kept by the bridge shows
          late,         \* what was erased or written behind the bridge's back (history)
          others        \* the writes that MaxOthers bounds

erasable == <<ev, open, item, job, rows, commitments>>
vars == <<erasable, sent, serving, held, late, others>>

Row == UNION {{k} \X (1 .. MaxCopies[k]) : k \in Episodes}
Tiers == {"local", "cloud"}
Nothing == [form |-> "none"]
Wiped == [form |-> "empty"]
Marker(kept) == [form |-> "marker", kept |-> kept]
Text(links) == [form |-> "text", links |-> links]

(* What the host captured of one reply: whether it knows, and what it saw. *)
Unlinked == [status |-> "none", items |-> {}, inters |-> <<>>]
Capture(status, items, inters) == [status |-> status, items |-> items, inters |-> inters]
Statuses == {"complete", "complete_empty", "unavailable", "withheld"}
ASSUME CaptureAssumption ==
  \A k \in Episodes : \A d \in Offered[k] :
    /\ d \in [status: Statuses, items: SUBSET (Evid \cup Items), inters: Seq(Row)]
    /\ (d.status = "complete") <=> (d.items # {} \/ d.inters # <<>>)

Seen(d) == d.items \cup {d.inters[n] : n \in DOMAIN d.inters}

HasText(r) == rows[r].form = "text"
Erased(r) == rows[r].form \in {"empty", "marker"}
Copies(k) == {r \in Row : r[1] = k}
Live(e) == ev[e] = "live"
Known(d) ==
  /\ \A x \in d.items : IF x \in Evid THEN ev[x] # "none" ELSE item[x] # "none"
  /\ \A n \in DOMAIN d.inters : rows[d.inters[n]] # Nothing

Init ==
  /\ ev = [e \in Evid |-> "none"] /\ open = [e \in Evid |-> {"local", "cloud", "infer"}]
  /\ item = [i \in Items |-> "none"] /\ job = [k \in Episodes |-> "none"]
  /\ rows = [r \in Row |-> Nothing] /\ commitments = {}
  /\ sent = [k \in Episodes |-> [links |-> <<>>, times |-> 0]]
  /\ serving = {} /\ held = {} /\ others = 0
  /\ late = [answers |-> {}, records |-> {}, promises |-> {}]

-----------------------------------------------------------------------------
(* Erasing.                                                                *)

(* The ids a stored row mentions. *)
Mentions(table, r) ==
  CASE table[r].form = "text" ->
         UNION {Seen(table[r].links[j]) : j \in DOMAIN table[r].links}
    [] table[r].form = "marker" -> table[r].kept
    [] OTHER -> {}

(* Mutant of Tainted: only rows that mention an erased id itself. *)
TaintedOnce(table, ids) == ids \cup {r \in Row : Mentions(table, r) \cap ids # {}}

(* Everything that mentions one of them, or a row that does. *)
Tainted(table, ids) ==
  LET more(s) == s \cup {r \in Row : Mentions(table, r) \cap s # {}}
      step[n \in 0 .. Cardinality(Row)] == IF n = 0 THEN ids ELSE more(step[n - 1])
  IN step[Cardinality(Row)]

(* Rows without a link that hold the words themselves: the message, when   *)
(* it is a single sentence, or a reply without a complete capture that     *)
(* repeats it.                                                             *)
Matching(table, es, items) ==
  {r \in Row : table[r].form = "text" /\
     \/ Said[r[1]] \cap es \cap OneClause # {}
     \/ /\ \E j \in DOMAIN table[r].links :
             table[r].links[j].status \notin {"complete", "complete_empty"}
        /\ Repeats[r[1]] \cap (es \cup items) # {}}

(* Rows that rest on something erased, now rewritten to a marker that      *)
(* keeps which messages still stand.                                       *)
Redacted(table, tainted, gone) ==
  [r \in Row |-> IF r \in tainted /\ table[r].form = "text"
                 THEN Marker({e \in Said[r[1]] : Live(e)} \ gone) ELSE table[r]]
CommitmentsLeft(tainted) == {k \in commitments : ~\E r \in tainted \cap Row : r[1] = k}

(* The database after one or several messages and everything with a trace  *)
(* of them are erased, together with some rows.                            *)
FormedFrom(es) == {i \in Items : item[i] # "none" /\ Basis[i] \cap es # {}}
JobsOf(es) == {k \in Episodes : job[k] = "open" /\ Said[k] \cap es # {}}
After(es, rs) ==
  CHOOSE a \in
    {[ev |-> [e \in Evid |-> IF e \in es THEN "erased" ELSE ev[e]],
      open |-> [e \in Evid |-> IF e \in es THEN {} ELSE open[e]],
      item |-> [i \in Items |-> IF i \in FormedFrom(es) THEN "deleted" ELSE item[i]],
      job |-> [k \in Episodes |-> IF k \in JobsOf(es) THEN "deleted" ELSE job[k]],
      rows |-> Redacted(rows, tainted, es),
      commitments |-> CommitmentsLeft(tainted) \ JobsOf(es)] :
     tainted \in {Tainted(rows, es \cup FormedFrom(es) \cup rs
                                \cup Matching(rows, es, FormedFrom(es)))}} : TRUE

Becomes(a) ==
  /\ ev' = a.ev /\ open' = a.open /\ item' = a.item /\ job' = a.job
  /\ rows' = a.rows /\ commitments' = a.commitments

(* The messages of a conversation that its jobs and rows still lead to.    *)
Reached(c) ==
  {e \in Evid : ev[e] \in {"live", "forgotten"} /\ \E k \in Episodes : Conv[k] = c /\
     \/ job[k] = "open" /\ e \in Said[k]
     \/ Live(e) /\ \E r \in Copies(k) :
          \/ HasText(r) /\ e \in Said[k]
          \/ rows[r].form = "marker" /\ e \in rows[r].kept}
RowsOf(c) == {r \in Row : Conv[r[1]] = c /\ rows[r] # Nothing}

(* Mutant of ConversationAfter: the messages are those of the stored turns. *)
ConversationRowsAfter(c) ==
  LET a == After({e \in Reached(c) : \E r \in RowsOf(c) : e \in Said[r[1]]}, RowsOf(c))
  IN [a EXCEPT !.commitments = {k \in @ : Conv[k] # c},
               !.rows = [r \in Row |-> IF r \in RowsOf(c) THEN Wiped ELSE @[r]]]

ConversationAfter(c) ==
  LET a == After(Reached(c), {r \in RowsOf(c) : rows[r] # Wiped})
  IN [a EXCEPT !.commitments = {k \in @ : Conv[k] # c},
               !.rows = [r \in Row |-> IF r \in RowsOf(c) THEN Wiped ELSE @[r]]]

(* The bridge serves one request at a time; one that changes what is known *)
(* clears the answers it keeps.  Another process writes at any moment.     *)
Quiet == serving = {} /\ held' = {} /\ UNCHANGED others
Counted == others < MaxOthers /\ others' = others + 1
Elsewhere == Counted /\ UNCHANGED held

(* Rows that lose their text while the bridge may still answer with it.    *)
Unnoticed == {r \in Row : HasText(r) /\ rows'[r].form # "text" /\ r \in held}

DeleteEvidence(e) ==
  /\ ev[e] \in {"live", "forgotten"}
  /\ \E a \in {After({e}, {})} : Becomes(a)
  /\ \/ Quiet /\ UNCHANGED late
     \/ Elsewhere /\ late' = [late EXCEPT !.answers = @ \cup Unnoticed]
  /\ UNCHANGED <<sent, serving>>

EraseConversation(c) ==
  /\ UNCHANGED <<sent, serving>>
  /\ RowsOf(c) # {} \/ Reached(c) # {}
  /\ \E a \in {ConversationAfter(c)} : Becomes(a)
  /\ \/ Quiet /\ UNCHANGED late
     \/ Elsewhere /\ late' = [late EXCEPT !.answers = @ \cup Unnoticed]

(* A soft tombstone, or other permissions, by an owner's command.          *)
Forget(e) ==
  /\ Live(e) /\ ev' = [ev EXCEPT ![e] = "forgotten"]
  /\ Counted /\ serving = {} /\ held' = {}
  /\ UNCHANGED <<open, item, job, rows, commitments, sent, serving, late>>
Permit(e, where) ==
  /\ ev[e] \in {"live", "forgotten"} /\ where # open[e]
  /\ open' = [open EXCEPT ![e] = where]
  /\ Counted /\ serving = {} /\ held' = {}
  /\ UNCHANGED <<ev, item, job, rows, commitments, sent, serving, late>>

(* Formation: an item appears from messages that stand, a later one may    *)
(* retire it.                                                              *)
Form(i) ==
  /\ item[i] = "none" /\ item' = [item EXCEPT ![i] = "current"]
  /\ \A e \in Basis[i] : Live(e) /\ "infer" \in open[e]
  /\ \E k \in Episodes : job[k] = "open" /\ Basis[i] \cap Said[k] # {}
  /\ UNCHANGED <<ev, open, job, rows, commitments, sent, serving, held, late, others>>
Retire(i) ==
  /\ item[i] = "current" /\ item' = [item EXCEPT ![i] = "retired"]
  /\ Counted
  /\ UNCHANGED <<ev, open, job, rows, commitments, sent, serving, held, late>>

-----------------------------------------------------------------------------
(* Delivering.                                                             *)

(* Whether something a reply was based on is already deleted.              *)
Dead(links) ==
  \E j \in DOMAIN links :
    \/ \E x \in links[j].items :
          IF x \in Evid THEN ev[x] \in {"forgotten", "erased"} ELSE item[x] = "deleted"
    \/ \E n \in DOMAIN links[j].inters : Erased(links[j].inters[n])

(* A message that was erased is refused for good, one that was forgotten   *)
(* is in the way of a new delivery.                                        *)
Refused(k) ==
  \/ \E e \in Said[k] : ev[e] = "erased"
  \/ job[k] = "none" /\ \E e \in Said[k] : ev[e] = "forgotten"

(* What the host sends: for each reply a capture, or none yet; a repeated  *)
(* delivery is the first one word by word.                                 *)
Envelopes(k) ==
  IF sent[k].times > 0 THEN {sent[k].links}
  ELSE {links \in [1 .. Replies[k] -> Offered[k] \cup {Unlinked}] :
          \A j \in DOMAIN links : Known(links[j])}

(* Evidence that is new, and a job unless the delivery is known. *)
Written(k) == [e \in Evid |-> IF job[k] = "none" /\ e \in Said[k] THEN "live" ELSE ev[e]]

Opened(k) == [job EXCEPT ![k] = "open"]

(* The first transaction of a delivery: Evidence and the job.              *)
Accept(k) ==
  /\ serving = {} /\ serving' = {k}
  /\ sent[k].times < MaxSends[k] /\ ~Refused(k)
  /\ \E links \in Envelopes(k) :
       sent' = [sent EXCEPT ![k] = [links |-> links, times |-> @.times + 1]]
  /\ ev' = Written(k) /\ job' = Opened(k)
  /\ UNCHANGED <<open, item, rows, commitments, held, late, others>>

(* The stored copy a delivery repeats: the same links, or a copy linked    *)
(* since when the delivery carries none.                                   *)
Same(k) ==
  {r \in Copies(k) : HasText(r) /\
     \/ rows[r].links = sent[k].links
     \/ \A j \in DOMAIN sent[k].links : sent[k].links[j] = Unlinked}
Free(k) == {r \in Copies(k) : rows[r] = Nothing}
NextCopy(k) == CHOOSE r \in Free(k) : \A q \in Free(k) : r[2] <= q[2]

(* The promises found in the replies of an episode. *)
Promises(k) == {q \in {k} : Replies[q] > 0}

(* Storing the turns: an erased episode stays erased; a new copy that      *)
(* rests on something deleted is erased in the same transaction.  The      *)
(* promises in the replies are recorded in every case.                     *)
StoredRows(k) ==
  IF (\E r \in Copies(k) : Erased(r)) \/ Same(k) # {} THEN rows
  ELSE [rows EXCEPT ![NextCopy(k)] = Text(sent[k].links)]
Fresh(k) == {r \in Copies(k) : rows[r] # StoredRows(k)[r]}
Rechecked(k) ==
  {r \in Copies(k) : /\ \A q \in Copies(k) : ~Erased(q)
                     /\ StoredRows(k)[r] = Text(sent[k].links) /\ Dead(sent[k].links)}
RedactedWith(table, rs) == Redacted(table, Tainted(table, rs), {})

(* Turns stored after something they quote was erased. *)
Belated(k) ==
  \/ \E e \in Said[k] \cup (Repeats[k] \cap Evid) : ev[e] = "erased"
  \/ \E i \in Repeats[k] \cap Items : item[i] = "deleted"

Store(k) ==
  /\ serving = {k} /\ serving' = {}
  /\ Free(k) # {}
  /\ rows' = RedactedWith(StoredRows(k), Rechecked(k))
  /\ commitments' = CommitmentsLeft(Tainted(StoredRows(k), Rechecked(k))) \cup Promises(k)
  /\ late' = [answers |-> late.answers \cup Unnoticed,
              records |-> late.records \cup (IF Belated(k) THEN Fresh(k) ELSE {}),
              promises |-> late.promises \cup
                {q \in Promises(k) : \E r \in Copies(k) : rows'[r].form \in {"empty", "marker"}}]
  /\ UNCHANGED <<ev, open, item, job, sent, held, others>>

(* The bridge dies between the two transactions of a delivery. *)
Crash ==
  /\ serving # {} /\ serving' = {} /\ held' = {}
  /\ UNCHANGED <<erasable, sent, late, others>>

(* The one copy with the links the caller has read whose reply is not      *)
(* linked yet; a copy linked to the same capture before counts too.        *)
Linkable(k, j, expected, d) ==
  LET exact == {r \in Copies(k) : HasText(r) /\
                  \/ rows[r].links = expected
                  \/ rows[r].links[j] = d /\ [rows[r].links EXCEPT ![j] = Unlinked] = expected}
  IN {r \in exact : Cardinality(exact) = 1 /\ expected[j] = Unlinked /\ rows[r].links = expected}

Link(k, j, expected, d) ==
  /\ serving = {} /\ Known(d)
  /\ \E r \in Linkable(k, j, expected, d) :
       LET linked == [rows EXCEPT ![r].links[j] = d]
           dead == IF Dead(linked[r].links) THEN {r} ELSE {}
       IN /\ rows' = RedactedWith(linked, dead)
          /\ commitments' = CommitmentsLeft(Tainted(linked, dead))
  /\ late' = [late EXCEPT !.answers = @ \cup Unnoticed]
  /\ UNCHANGED <<ev, open, item, job, sent, serving, held, others>>

-----------------------------------------------------------------------------
(* Answering.  A reply is shown to a model only if everything it was based *)
(* on may be shown; the walk through the links is bounded.                 *)

ItemVisible(i, t) ==
  item[i] = "current" /\ \A e \in Basis[i] : Live(e) /\ t \in open[e]
EvidenceCurrent(e, t) ==
  /\ Live(e) /\ t \in open[e]
  /\ \A i \in Items : item[i] \in {"current", "retired"} /\ e \in Basis[i] => ItemVisible(i, t)
SourceVisible(x, t) == IF x \in Evid THEN EvidenceCurrent(x, t) ELSE ItemVisible(x, t)

(* The episode's job leads to its messages; without it nothing is shown.   *)
HistoryReadable(k) ==
  job[k] = "open" /\ Said[k] # {} /\ \A e \in Said[k] : Live(e) /\ "local" \in open[e]
ModelEligible(k, t) ==
  /\ job[k] = "open" /\ Said[k] # {}
  /\ \A e \in Said[k] : Live(e) /\ {t, "infer"} \subseteq open[e]
  /\ \A i \in Items : Basis[i] \cap Said[k] # {} => item[i] # "retired"

(* What the walk has settled, the rows it has met, the result so far.      *)
Progress == [ok: BOOLEAN, memo: SUBSET (Row \X BOOLEAN), seen: SUBSET Row]
Start(r) == [ok |-> TRUE, memo |-> {}, seen |-> {r}]
Failed(s) == [s EXCEPT !.ok = FALSE]
Settled(s, r) == {m \in s.memo : m[1] = r}
TooMany(s, r) == r \notin s.seen /\ Cardinality(s.seen) >= MaxNodes

(* Mutant of TooDeep: one link less than the limit. *)
TooDeepByOne(depth) == depth + 1 >= MaxDepth
TooDeep(depth) == depth + 1 > MaxDepth

(* A row leads to the captures of all its own replies, in order; "deeper"  *)
(* walks on through the rows a capture names.                              *)
LinksOf(r) == IF HasText(r) THEN rows[r].links ELSE <<>>
Children(s, r, visiting, t, deeper) ==
  LET child[j \in 0 .. Len(LinksOf(r))] ==
        IF j = 0 THEN [s EXCEPT !.ok = Len(LinksOf(r)) > 0]
        ELSE LET d == LinksOf(r)[j] IN
             IF d.status = "complete"
             THEN [deeper[<<child[j - 1], d.inters, visiting \cup {r}>>]
                     EXCEPT !.ok = @ /\ \A x \in d.items : SourceVisible(x, t)]
             ELSE [child[j - 1] EXCEPT !.ok = @ /\ d.status = "complete_empty"]
  IN child[Len(LinksOf(r))]

Visit(s, r, depth, visiting, t, deeper) ==
  LET barred == \/ r \in visiting \/ rows[r] = Nothing \/ TooDeep(depth)
                \/ Settled(s, r) = {} /\ TooMany(s, r)
      met == [s EXCEPT !.seen = @ \cup {r}]
      done == Children(met, r, visiting, t, deeper)
  IN IF barred THEN Failed(s)
     ELSE IF Settled(s, r) # {} THEN [s EXCEPT !.ok = @ /\ <<r, TRUE>> \in s.memo]
     ELSE IF ~ModelEligible(r[1], t) THEN Failed(met)
     ELSE [done EXCEPT !.memo = @ \cup {<<r, done.ok>>}, !.ok = @ /\ s.ok]

(* The walk from each depth: with what is settled, through the rows a      *)
(* reply was based on, one after another, on the path that led there.      *)
Calls == Progress \X Seq(Row) \X SUBSET Row
Walk(t) ==
  LET walk[depth \in 0 .. MaxDepth] ==
        [call \in Calls |->
           LET refs == call[2]
               along[n \in 0 .. Len(refs)] ==
                 IF n = 0 THEN call[1]
                 ELSE Visit(along[n - 1], refs[n], depth, call[3], t, walk[depth + 1])
           IN along[Len(refs)]]
  IN walk

ReplyVisible(r, j, t) ==
  LET d == rows[r].links[j]
  IN \/ d.status = "complete_empty"
     \/ /\ d.status = "complete"
        /\ \A x \in d.items : SourceVisible(x, t)
        /\ Walk(t)[0][<<Start(r), d.inters, {r}>>].ok

ShownInHistory == {r \in Row : HasText(r) /\ HistoryReadable(r[1])}
ShownToModel(t) ==
  {r \in Row : HasText(r) /\ ModelEligible(r[1], t)
                /\ \E j \in DOMAIN rows[r].links : ReplyVisible(r, j, t)}

(* An answer is kept for a request that is repeated; "held" is any one of  *)
(* the answers kept, for each is kept and forgotten in the same way.       *)
Ask(rs) ==
  /\ serving = {} /\ held = {} /\ rs # {} /\ held' = rs
  /\ UNCHANGED <<erasable, sent, serving, late, others>>

Next ==
  \/ \E e \in Evid : DeleteEvidence(e) \/ Forget(e) \/ Permit(e, {"local", "infer"})
  \/ \E c \in {Conv[k] : k \in Episodes} : EraseConversation(c)
  \/ \E i \in Items : Form(i) \/ Retire(i)
  \/ \E k \in Episodes : Accept(k) \/ Store(k)
  \/ Crash
  \/ \E k \in Episodes, d \in UNION {Offered[q] : q \in Episodes} :
       d \in Offered[k] /\ \E r \in {q \in Copies(k) : HasText(q)} :
         \E j \in DOMAIN rows[r].links : Link(k, j, rows[r].links, d)
  \/ Ask(ShownInHistory) \/ \E t \in Tiers : Ask(ShownToModel(t))
Spec == Init /\ [][Next]_vars

-----------------------------------------------------------------------------
(* Properties.                                                             *)

(* Erasing reaches everything: no stored turn holds the words of an erased *)
(* single-sentence message, and no reply that stands was based on an       *)
(* erased message, a deleted item or an erased turn, at any distance and   *)
(* in whatever order deliveries, late links and erasures came; a promise   *)
(* goes with its turn.  Excepted by name: turns stored, and promises       *)
(* recorded again, after the erasure.                                      *)
ErasureReachesEverything ==
  /\ \A r \in Row : HasText(r) =>
       /\ r \notin late.records => \A e \in Said[r[1]] \cap OneClause : ev[e] # "erased"
       /\ \A j \in DOMAIN rows[r].links : LET d == rows[r].links[j] IN
            /\ \A x \in d.items : IF x \in Evid THEN ev[x] # "erased" ELSE item[x] # "deleted"
            /\ \A n \in DOMAIN d.inters : ~Erased(d.inters[n])
            /\ d.status \notin {"complete", "complete_empty"} /\ r \notin late.records
                 => \A x \in Repeats[r[1]] : IF x \in Evid THEN ev[x] # "erased" ELSE item[x] # "deleted"
  /\ \A k \in commitments \ late.promises : \A r \in Copies(k) : ~Erased(r)

(* What a reply rests on, link by link: the rows n links away. *)
Away(r, j) ==
  LET of(q) == UNION {{rows[q].links[i].inters[n] : n \in DOMAIN rows[q].links[i].inters}
                        : i \in DOMAIN rows[q].links}
      away[n \in 1 .. Cardinality(Row) + 1] ==
        IF n = 1 THEN {rows[r].links[j].inters[m] : m \in DOMAIN rows[r].links[j].inters}
        ELSE UNION {of(q) : q \in {x \in away[n - 1] : HasText(x)}}
  IN away

Captured(d, t) ==
  \/ d.status = "complete_empty"
  \/ d.status = "complete" /\ \A x \in d.items : SourceVisible(x, t)

(* Everything a reply rests on stands and may be shown, and it does not    *)
(* rest on itself.                                                         *)
Grounded(r, j, t) ==
  LET away == Away(r, j) IN
  /\ Captured(rows[r].links[j], t)
  /\ away[Cardinality(Row) + 1] = {}
  /\ \A n \in DOMAIN away : r \notin away[n] /\ \A q \in away[n] :
       /\ HasText(q) /\ ModelEligible(q[1], t) /\ DOMAIN rows[q].links # {}
       /\ \A i \in DOMAIN rows[q].links : Captured(rows[q].links[i], t)
Under(away) == UNION {away[n] : n \in DOMAIN away}
Near(r, j) ==
  LET away == Away(r, j) IN
  /\ \A n \in DOMAIN away : n > MaxDepth => away[n] = {}
  /\ Cardinality(Under(away) \cup {r}) <= MaxNodes

(* A model is shown a reply only if everything it rests on stands and may  *)
(* be shown to that model, whatever the walk remembered on the way; and it *)
(* is shown every such reply within the limits of the walk.                *)
VisibleIffGrounded ==
  \A r \in {q \in Row : HasText(q)} : \A j \in DOMAIN rows[r].links, t \in Tiers :
    /\ ReplyVisible(r, j, t) => Grounded(r, j, t)
    /\ Grounded(r, j, t) /\ Near(r, j) => ReplyVisible(r, j, t)

(* An answer the bridge may give again shows only turns that are still     *)
(* stored, except those another process, a late link or a repeated         *)
(* delivery has erased since.                                              *)
AnswersForget == \A r \in held : HasText(r) \/ r \in late.answers

(* What is erased is gone from what is stored and from what is answered. *)
ErasureHolds == ErasureReachesEverything /\ AnswersForget

(* After a conversation is erased none of its turns, promises or messages  *)
(* is left, except a message whose turns were never stored and whose job   *)
(* went with another message, or that was forgotten before.                *)
ConversationGone ==
  [][\A c \in {Conv[k] : k \in Episodes} :
       (\A r \in RowsOf(c) : rows'[r] = Wiped) /\ EraseConversation(c) =>
       \A k \in {q \in Episodes : Conv[q] = c} :
         /\ \A r \in Copies(k) : rows'[r] \in {Nothing, Wiped}
         /\ k \notin commitments'
         /\ \A e \in Said[k] : ev'[e] \in {"live", "forgotten"} =>
              job[k] # "open" /\ (ev[e] = "forgotten" \/ (\A r \in Copies(k) : rows[r] = Nothing))]_vars

(* A turn is stored once and a link is for good: the copies of an episode  *)
(* that hold text are one, except when some of its replies were linked at  *)
(* delivery and others since, and a link never changes.                    *)
LinksHold ==
  [][/\ \A r \in Row : HasText(r) /\ rows'[r].form = "text" =>
          \A j \in DOMAIN rows[r].links :
            rows[r].links[j] # Unlinked => rows'[r].links[j] = rows[r].links[j]
     /\ \A k \in Episodes :
          Cardinality({r \in Copies(k) : rows'[r].form = "text"}) > 1 =>
            LET d == sent[k].links IN
            /\ \E j \in DOMAIN d : d[j] = Unlinked
            /\ \E j \in DOMAIN d : d[j] # Unlinked]_vars

(* A conversation goes whole, and until then its turns stay as stored. *)
TurnsHold == ConversationGone /\ LinksHold
=============================================================================
