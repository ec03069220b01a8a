----------------------------- MODULE HostProofs -----------------------------
(***************************************************************************)
(* Theorems about the four tables that hosts write from outside: what      *)
(* became of a message (TerminalOutcome), what the person is asked         *)
(* (Clarification), what was observed elsewhere (ObservedEvidence), what   *)
(* the person commands (TrustCommand).  The four are independent; each is  *)
(* proved for any outcomes, conversations, payloads, items and hosts, any  *)
(* limits and any number of lost replies.                                  *)
(***************************************************************************)
EXTENDS TerminalOutcome, Clarification, ObservedEvidence, TrustCommand, Integers, TLAPS

(***************************************************************************)
(* TerminalOutcome.  The inductive invariant.  To know that the claim that *)
(* delivers an outcome is the one that showed it, the row of a claim must  *)
(* carry the token of the last attempt, a host must never hold a token     *)
(* from the future, and what it is about to acknowledge must have been     *)
(* shown.                                                                  *)
(***************************************************************************)
LegalRow(r) ==
  /\ IF r.state = "processing"
     THEN r.token = r.attempts /\ r.attempts \in 1 .. MaxAttempts /\ r.lease # "none"
                               /\ r.next = "none"
     ELSE r.token = 0 /\ r.lease = "none"
  /\ r.state = "retry" <=> r.next # "none"
  /\ r.stamped <=> r.state = "delivered"
  /\ r.state = "pending" => r.attempts = 0
  /\ r.state = "retry" => r.attempts \in 1 .. MaxAttempts - 1
  /\ r.state = "dead" => r.attempts = MaxAttempts
  /\ r.state = "delivered" => r.attempts > 0

LegalMemory(r, m, shown) ==
  /\ r.state \notin Gone /\ m.at # "none" => m.token \in 1 .. r.attempts
  /\ m.at \in {"shown", "acking"} => m.token \in shown
  /\ r.state = "absent" => m.at = "none"

LegalHistory(r, shown) ==
  /\ r.state = "absent" => shown = {}
  /\ r.state \notin Gone => shown \subseteq 1 .. r.attempts
  /\ r.state = "delivered" => r.attempts \in shown

Legal(o) ==
  /\ LegalRow(delivery[o])
  /\ LegalHistory(delivery[o], shownIn[o])
  /\ \A h \in Hosts : LegalMemory(delivery[o], host[h][o], shownIn[o])

OutcomeInv == OutcomeTypeOK /\ \A o \in Outcomes : Legal(o)

-----------------------------------------------------------------------------
(* A failed claim leaves a legal row that is no longer in flight. *)
LEMMA FailedRow ==
  ASSUME NEW r \in OutcomeRow, LegalRow(r), r.state = "processing",
         NEW next \in {"later", "due"}
  PROVE  LET f == Failed(r, next) IN
         /\ f \in OutcomeRow /\ LegalRow(f)
         /\ f.state \in {"retry", "dead"} /\ f.attempts = r.attempts
<1> DEFINE after == AfterFailure(r)
           n == IF after = "retry" THEN next ELSE "none"
<1>1. \/ after = "dead" /\ r.attempts = MaxAttempts /\ n = "none"
      \/ after = "retry" /\ r.attempts \in 1 .. MaxAttempts - 1 /\ n = next
  BY MaxAttemptsAssumption DEF AfterFailure, LegalRow, OutcomeRow
<1>2. Failed(r, next) = [r EXCEPT !.state = after, !.token = 0, !.lease = "none",
                                  !.next = n]
  BY DEF Failed, Released
<1>3. after \in {"retry", "dead"} /\ n \in {"none", "later", "due"}
  BY DEF AfterFailure
<1> HIDE DEF after, n
<1>4. Failed(r, next) \in OutcomeRow
  <2>1. [r EXCEPT !.state = after, !.token = 0, !.lease = "none", !.next = n] \in OutcomeRow
    BY <1>3 DEF OutcomeRow
  <2>2. QED
    BY <1>2, <2>1
<1>5. /\ Failed(r, next).state = after /\ Failed(r, next).attempts = r.attempts
      /\ Failed(r, next).token = 0 /\ Failed(r, next).lease = "none"
      /\ Failed(r, next).next = n /\ Failed(r, next).stamped = r.stamped
  BY <1>2 DEF OutcomeRow
<1>6. r.stamped = FALSE
  BY DEF LegalRow, OutcomeRow
<1>7. LegalRow(Failed(r, next))
  BY <1>1, <1>5, <1>6 DEF LegalRow
<1>8. QED
  BY <1>3, <1>4, <1>5, <1>7

LEMMA RecoveredRow ==
  ASSUME NEW r \in OutcomeRow, LegalRow(r)
  PROVE  LET f == Recovered(r) IN
         /\ f \in OutcomeRow /\ LegalRow(f) /\ f.attempts = r.attempts
         /\ f.state # r.state => f.state \in {"retry", "dead"} /\ r.state = "processing"
<1>1. CASE Stale(r)
  BY <1>1, FailedRow DEF Recovered, Stale
<1>2. CASE ~Stale(r)
  BY <1>2 DEF Recovered
<1>3. QED
  BY <1>1, <1>2

LEMMA ClaimedRow ==
  ASSUME NEW r \in OutcomeRow, LegalRow(r), Ready(r)
  PROVE  LET f == Claimed(r) IN
         /\ f \in OutcomeRow /\ LegalRow(f)
         /\ f.state = "processing" /\ f.attempts = r.attempts + 1
<1> DEFINE k == r.attempts + 1
<1>1. k \in Nat /\ k \in 1 .. MaxAttempts
  BY MaxAttemptsAssumption DEF Ready, LegalRow, OutcomeRow
<1>2. Claimed(r) = [r EXCEPT !.state = "processing", !.attempts = k, !.next = "none",
                             !.token = k, !.lease = "live"]
  BY DEF Claimed, OutcomeRow
<1> HIDE DEF k
<1>3. Claimed(r) \in OutcomeRow
  BY <1>1, <1>2 DEF OutcomeRow
<1>4. /\ Claimed(r).state = "processing" /\ Claimed(r).attempts = k
      /\ Claimed(r).token = k /\ Claimed(r).lease = "live"
      /\ Claimed(r).next = "none" /\ Claimed(r).stamped = r.stamped
  BY <1>2 DEF OutcomeRow
<1>5. r.stamped = FALSE
  BY DEF LegalRow, OutcomeRow, Ready
<1>6. LegalRow(Claimed(r))
  BY <1>1, <1>4, <1>5 DEF LegalRow
<1>7. QED
  BY <1>3, <1>4, <1>6 DEF k

LEMMA DeliveredRow ==
  ASSUME NEW r \in OutcomeRow, LegalRow(r), r.state = "processing"
  PROVE  LET f == Delivered(r) IN
         f \in OutcomeRow /\ LegalRow(f) /\ f.state = "delivered" /\ f.attempts = r.attempts
<1>1. Delivered(r) \in OutcomeRow
  BY DEF Delivered, Released, OutcomeRow
<1>2. QED
  BY <1>1 DEF Delivered, Released, LegalRow, OutcomeRow

-----------------------------------------------------------------------------
(* A step that moves one row by a call that keeps its attempts. *)
LEMMA RowStep ==
  ASSUME OutcomeInv, NEW o \in Outcomes, NEW r \in OutcomeRow, Update(o, r), LegalRow(r),
         UNCHANGED <<host, shownIn, calling, crashes>>,
         \/ r.state = "erased"
         \/ /\ delivery[o].state = "absent" /\ r.state = "pending"
         \/ /\ r.attempts = delivery[o].attempts
            /\ delivery[o].state \notin Gone /\ r.state \notin Gone \cup {"delivered"}
         \/ /\ r.attempts = delivery[o].attempts
            /\ r.state = delivery[o].state
  PROVE  OutcomeInv'
<1>1. OutcomeTypeOK'
  BY DEF OutcomeInv, OutcomeTypeOK, Update
<1>2. ASSUME NEW p \in Outcomes PROVE Legal(p)'
  <2>1. CASE p # o
    <3>1. delivery'[p] = delivery[p] /\ host' = host /\ shownIn' = shownIn
      BY <2>1 DEF Update, OutcomeInv, OutcomeTypeOK
    <3>2. Legal(p)
      BY DEF OutcomeInv
    <3>3. QED
      BY <3>1, <3>2 DEF Legal
  <2>2. CASE p = o
    <3>1. delivery'[p] = r /\ host' = host /\ shownIn' = shownIn
      BY <2>2 DEF Update, OutcomeInv, OutcomeTypeOK
    <3>2. LegalHistory(delivery[o], shownIn[o]) /\ delivery[o] \in OutcomeRow
      BY DEF OutcomeInv, Legal, OutcomeTypeOK
    <3>3. \A h \in Hosts : LegalMemory(delivery[o], host[h][o], shownIn[o])
      BY DEF OutcomeInv, Legal
    <3>4. LegalHistory(r, shownIn[o])
      BY <3>2 DEF LegalHistory, Gone
    <3>5. ASSUME NEW h \in Hosts PROVE LegalMemory(r, host[h][o], shownIn[o])
      BY <3>3 DEF LegalMemory, Gone
    <3>6. QED
      BY <2>2, <3>1, <3>4, <3>5 DEF Legal
  <2>3. QED
    BY <2>1, <2>2
<1>3. QED
  BY <1>1, <1>2 DEF OutcomeInv

(* A step of one host that moves one row, its memory of it and the history. *)
LEMMA HostStep ==
  ASSUME OutcomeInv, NEW o \in Outcomes, NEW h \in Hosts,
         NEW r \in OutcomeRow, NEW m \in Memory, NEW S \in SUBSET Nat,
         Remember(h, o, m), UNCHANGED <<calling, crashes>>,
         Update(o, r) \/ (UNCHANGED delivery /\ r = delivery[o]),
         shownIn' = [shownIn EXCEPT ![o] = S] \/ (UNCHANGED shownIn /\ S = shownIn[o]),
         LegalRow(r), LegalHistory(r, S), LegalMemory(r, m, S),
         \A g \in Hosts : LegalMemory(r, host[g][o], S)
  PROVE  OutcomeInv'
<1>0. /\ delivery \in [Outcomes -> OutcomeRow] /\ shownIn \in [Outcomes -> SUBSET Nat]
      /\ host \in [Hosts -> [Outcomes -> Memory]]
  BY DEF OutcomeInv, OutcomeTypeOK
<1>1. delivery' = [delivery EXCEPT ![o] = r] /\ shownIn' = [shownIn EXCEPT ![o] = S]
  BY <1>0 DEF Update
<1>2. OutcomeTypeOK'
  BY <1>0, <1>1 DEF OutcomeInv, OutcomeTypeOK, Remember
<1>3. ASSUME NEW p \in Outcomes PROVE Legal(p)'
  <2>1. CASE p # o
    <3>1. /\ delivery'[p] = delivery[p] /\ shownIn'[p] = shownIn[p]
          /\ \A g \in Hosts : host'[g][p] = host[g][p]
      BY <1>0, <1>1, <2>1 DEF Remember
    <3>2. Legal(p)
      BY DEF OutcomeInv
    <3>3. QED
      BY <3>1, <3>2 DEF Legal
  <2>2. CASE p = o
    <3>1. delivery'[o] = r /\ shownIn'[o] = S
      BY <1>0, <1>1
    <3>2. ASSUME NEW g \in Hosts PROVE LegalMemory(r, host'[g][o], S)
      <4>1. host'[g][o] = IF g = h THEN m ELSE host[g][o]
        BY <1>0 DEF Remember
      <4>2. QED
        BY <4>1
    <3>3. QED
      BY <2>2, <3>1, <3>2 DEF Legal
  <2>3. QED
    BY <2>1, <2>2
<1>4. QED
  BY <1>2, <1>3 DEF OutcomeInv

LEMMA InvInit == OutcomeInit => OutcomeInv
<1> SUFFICES ASSUME OutcomeInit PROVE OutcomeInv
  OBVIOUS
<1>1. Absent \in OutcomeRow /\ LegalRow(Absent)
  BY DEF Absent, OutcomeRow, LegalRow
<1>2. Nothing \in Memory /\ Nothing.at = "none"
  BY DEF Nothing, Memory
<1>3. OutcomeTypeOK
  BY <1>1, <1>2 DEF OutcomeInit, OutcomeTypeOK
<1>4. Absent.state = "absent"
  BY DEF Absent
<1>5. ASSUME NEW o \in Outcomes PROVE Legal(o)
  BY <1>1, <1>2, <1>4 DEF OutcomeInit, Legal, LegalHistory, LegalMemory, Gone
<1>6. QED
  BY <1>3, <1>5 DEF OutcomeInv

LEMMA InvNext == OutcomeInv /\ [OutcomeNext]_outcomeVars => OutcomeInv'
<1> SUFFICES ASSUME OutcomeInv, [OutcomeNext]_outcomeVars PROVE OutcomeInv'
  OBVIOUS
<1>0. /\ delivery \in [Outcomes -> OutcomeRow] /\ shownIn \in [Outcomes -> SUBSET Nat]
      /\ host \in [Hosts -> [Outcomes -> Memory]]
      /\ calling \in [Hosts -> BOOLEAN] /\ crashes \in Nat
  BY DEF OutcomeInv, OutcomeTypeOK
<1>r. ASSUME NEW o \in Outcomes
      PROVE  /\ delivery[o] \in OutcomeRow /\ LegalRow(delivery[o])
             /\ LegalHistory(delivery[o], shownIn[o]) /\ shownIn[o] \in SUBSET Nat
             /\ \A h \in Hosts : LegalMemory(delivery[o], host[h][o], shownIn[o])
  BY <1>0 DEF OutcomeInv, Legal
<1>m. ASSUME NEW h \in Hosts, NEW o \in Outcomes
      PROVE  host[h][o] \in Memory /\ LegalMemory(delivery[o], host[h][o], shownIn[o])
  BY <1>0, <1>r
<1>n. /\ Nothing \in Memory
      /\ \A r \in OutcomeRow, S \in SUBSET Nat : LegalMemory(r, Nothing, S)
  BY DEF Nothing, Memory, LegalMemory
<1>1. ASSUME NEW o \in Outcomes, Persist(o) PROVE OutcomeInv'
  <2>1. NewOutcome \in OutcomeRow /\ LegalRow(NewOutcome) /\ NewOutcome.state = "pending"
    BY DEF NewOutcome, Absent, OutcomeRow, LegalRow
  <2>2. QED
    BY <1>1, <2>1, RowStep DEF Persist
<1>2. ASSUME NEW o \in Outcomes, EraseOutcome(o) PROVE OutcomeInv'
  <2> DEFINE r == [Absent EXCEPT !.state = "erased"]
  <2>1. r \in OutcomeRow /\ LegalRow(r) /\ r.state = "erased"
    BY DEF Absent, OutcomeRow, LegalRow
  <2> HIDE DEF r
  <2>2. Update(o, r)
    BY <1>2 DEF EraseOutcome, r
  <2>3. QED
    BY <1>2, <2>1, <2>2, RowStep DEF EraseOutcome
<1>3. ASSUME NEW o \in Outcomes, Lapse(o) PROVE OutcomeInv'
  <2> DEFINE r == [delivery[o] EXCEPT !.lease = "expired"]
  <2>1. /\ r \in OutcomeRow /\ LegalRow(r)
        /\ r.state = delivery[o].state /\ r.attempts = delivery[o].attempts
    BY <1>r, <1>3 DEF Lapse, OutcomeRow, LegalRow
  <2> HIDE DEF r
  <2>2. Update(o, r)
    BY <1>3 DEF Lapse, r
  <2>3. QED
    BY <1>3, <2>1, <2>2, RowStep DEF Lapse
<1>4. ASSUME NEW o \in Outcomes, BecomeDue(o) PROVE OutcomeInv'
  <2> DEFINE r == [delivery[o] EXCEPT !.next = "due"]
  <2>1. /\ r \in OutcomeRow /\ LegalRow(r)
        /\ r.state = delivery[o].state /\ r.attempts = delivery[o].attempts
    BY <1>r, <1>4 DEF BecomeDue, OutcomeRow, LegalRow
  <2> HIDE DEF r
  <2>2. Update(o, r)
    BY <1>4 DEF BecomeDue, r
  <2>3. QED
    BY <1>4, <2>1, <2>2, RowStep DEF BecomeDue
<1>5. ASSUME NEW h \in Hosts, Recover(h) PROVE OutcomeInv'
  <2>1. ASSUME NEW o \in Outcomes
        PROVE  LET f == Recovered(delivery[o]) IN
               /\ f \in OutcomeRow /\ LegalRow(f) /\ f.attempts = delivery[o].attempts
               /\ f.state # delivery[o].state =>
                    f.state \in {"retry", "dead"} /\ delivery[o].state = "processing"
    BY <1>r, RecoveredRow
  <2>2. OutcomeTypeOK'
    BY <1>0, <1>5, <2>1 DEF Recover, OutcomeTypeOK
  <2>3. ASSUME NEW o \in Outcomes PROVE Legal(o)'
    <3> DEFINE f == Recovered(delivery[o])
    <3>1. delivery'[o] = f /\ host' = host /\ shownIn' = shownIn
      BY <1>5 DEF Recover
    <3>2. /\ f \in OutcomeRow /\ LegalRow(f) /\ f.attempts = delivery[o].attempts
          /\ f.state # delivery[o].state =>
               f.state \in {"retry", "dead"} /\ delivery[o].state = "processing"
      BY <2>1
    <3> HIDE DEF f
    <3>3. LegalHistory(f, shownIn[o])
      BY <1>r, <3>2 DEF LegalHistory, Gone
    <3>4. \A g \in Hosts : LegalMemory(f, host[g][o], shownIn[o])
      BY <1>r, <3>2 DEF LegalMemory, Gone
    <3>5. QED
      BY <3>1, <3>2, <3>3, <3>4 DEF Legal
  <2>4. QED
    BY <2>2, <2>3 DEF OutcomeInv
<1>6. ASSUME NEW h \in Hosts, Claim(h) PROVE OutcomeInv'
  <2>1. PICK S \in SUBSET {o \in Outcomes : Ready(delivery[o])} :
          /\ delivery' = [o \in Outcomes |->
                            IF o \in S THEN Claimed(delivery[o]) ELSE delivery[o]]
          /\ host' = [host EXCEPT ![h] =
                        [o \in Outcomes |->
                           IF o \in S
                           THEN [Nothing EXCEPT !.at = "claimed",
                                                !.token = delivery[o].attempts + 1]
                           ELSE host[h][o]]]
    BY <1>6 DEF Claim
  <2> DEFINE given(o) == [Nothing EXCEPT !.at = "claimed",
                                         !.token = delivery[o].attempts + 1]
  <2>2. ASSUME NEW o \in S
        PROVE  LET f == Claimed(delivery[o]) IN
               /\ f \in OutcomeRow /\ LegalRow(f)
               /\ f.state = "processing" /\ f.attempts = delivery[o].attempts + 1
    BY <1>r, ClaimedRow
  <2>3. ASSUME NEW o \in Outcomes
        PROVE  /\ given(o) \in Memory /\ given(o).at = "claimed"
               /\ given(o).token = delivery[o].attempts + 1
    <3>1. delivery[o].attempts + 1 \in Nat
      BY <1>r DEF OutcomeRow
    <3>2. QED
      BY <3>1 DEF Nothing, Memory
  <2>4. /\ \A o \in Outcomes : delivery'[o] = IF o \in S THEN Claimed(delivery[o])
                                                         ELSE delivery[o]
        /\ \A o \in Outcomes, g \in Hosts :
             host'[g][o] = IF g = h /\ o \in S THEN given(o) ELSE host[g][o]
    BY <1>0, <2>1
  <2> HIDE DEF given
  <2>5. delivery' \in [Outcomes -> OutcomeRow] /\ host' \in [Hosts -> [Outcomes -> Memory]]
    <3>1. \A o \in Outcomes : delivery'[o] \in OutcomeRow
      BY <1>0, <2>2, <2>4
    <3>2. host'[h] \in [Outcomes -> Memory]
      BY <1>0, <2>1, <2>3 DEF given
    <3>3. QED
      BY <1>0, <2>1, <3>1, <3>2
  <2>6. OutcomeTypeOK'
    BY <1>0, <1>6, <2>5 DEF Claim, OutcomeTypeOK
  <2>7. ASSUME NEW o \in Outcomes PROVE Legal(o)'
    <3>1. shownIn'[o] = shownIn[o]
      BY <1>6 DEF Claim
    <3>2. CASE o \notin S
      <4>1. delivery'[o] = delivery[o] /\ \A g \in Hosts : host'[g][o] = host[g][o]
        BY <2>4, <3>2
      <4>2. QED
        BY <1>r, <3>1, <4>1 DEF Legal
    <3>3. CASE o \in S
      <4> DEFINE f == Claimed(delivery[o])
      <4>1. /\ delivery'[o] = f /\ f \in OutcomeRow /\ LegalRow(f)
            /\ f.state = "processing" /\ f.attempts = delivery[o].attempts + 1
        BY <2>2, <2>4, <3>3
      <4> HIDE DEF f
      <4>2. delivery[o].state \in {"pending", "retry"} /\ delivery[o].attempts \in Nat
        BY <1>r, <3>3 DEF Ready, OutcomeRow
      <4>3. LegalHistory(f, shownIn[o])
        <5>1. shownIn[o] \subseteq 1 .. delivery[o].attempts
          BY <1>r, <4>2 DEF LegalHistory, Gone
        <5>2. QED
          BY <4>1, <4>2, <5>1 DEF LegalHistory, Gone
      <4>4. ASSUME NEW g \in Hosts PROVE LegalMemory(f, host'[g][o], shownIn[o])
        <5>1. CASE g = h
          BY <2>3, <2>4, <3>3, <4>1, <4>2, <5>1 DEF LegalMemory
        <5>2. CASE g # h
          <6>1. host'[g][o] = host[g][o] /\ host[g][o] \in Memory
            BY <1>0, <2>4, <5>2
          <6>2. LegalMemory(delivery[o], host[g][o], shownIn[o])
            BY <1>r
          <6>3. QED
            BY <4>1, <4>2, <6>1, <6>2 DEF LegalMemory, Gone, Memory
        <5>3. QED
          BY <5>1, <5>2
      <4>5. QED
        BY <3>1, <4>1, <4>3, <4>4 DEF Legal
    <3>4. QED
      BY <3>2, <3>3
  <2>8. QED
    BY <2>6, <2>7 DEF OutcomeInv
<1>7. ASSUME NEW h \in Hosts, NEW o \in Outcomes, Show(h, o) PROVE OutcomeInv'
  <2> DEFINE m == [host[h][o] EXCEPT !.at = "shown"]
             S == shownIn[o] \cup {host[h][o].token}
  <2>1. /\ m \in Memory /\ m.at = "shown" /\ m.token = host[h][o].token
        /\ host[h][o].at = "claimed"
    BY <1>m, <1>7 DEF Show, HostAt, Memory
  <2>2. S \in SUBSET Nat /\ shownIn[o] \subseteq S /\ host[h][o].token \in S
    BY <1>m, <1>r DEF Memory
  <2>3. Remember(h, o, m) /\ shownIn' = [shownIn EXCEPT ![o] = S] /\ UNCHANGED delivery
    BY <1>7 DEF Show
  <2>4. delivery[o].state # "absent"
    BY <1>m, <2>1 DEF LegalMemory
  <2>5. LegalHistory(delivery[o], S)
    <3>1. delivery[o].state \notin Gone => S \subseteq 1 .. delivery[o].attempts
      BY <1>m, <1>r, <2>1 DEF LegalMemory, LegalHistory
    <3>2. QED
      BY <1>r, <2>2, <2>4, <3>1 DEF LegalHistory
  <2>6. \A g \in Hosts : LegalMemory(delivery[o], host[g][o], S)
    BY <1>r, <2>2 DEF LegalMemory
  <2>7. LegalMemory(delivery[o], m, S)
    BY <1>m, <2>1, <2>2, <2>4 DEF LegalMemory
  <2> HIDE DEF m, S
  <2>8. QED
    BY <1>7, <1>r, <2>1, <2>2, <2>3, <2>5, <2>6, <2>7, HostStep DEF Show
<1>8. ASSUME NEW h \in Hosts, NEW o \in Outcomes, NEW m \in Memory, NEW r \in OutcomeRow,
             Remember(h, o, m), UNCHANGED <<calling, crashes, shownIn>>,
             Update(o, r) \/ (UNCHANGED delivery /\ r = delivery[o]),
             LegalRow(r), r.attempts = delivery[o].attempts,
             \/ r.state = delivery[o].state
             \/ delivery[o].state = "processing" /\ r.state \in {"retry", "dead"}
             \/ /\ delivery[o].state = "processing" /\ r.state = "delivered"
                /\ r.attempts \in shownIn[o],
             \/ m = Nothing
             \/ /\ m.token = host[h][o].token /\ host[h][o].at # "none"
                /\ m.at \in {"shown", "acking"} => host[h][o].at \in {"shown", "acking"}
      PROVE  OutcomeInv'
  <2>1. LegalHistory(r, shownIn[o])
    BY <1>8, <1>r DEF LegalHistory, Gone
  <2>2. \A g \in Hosts : LegalMemory(r, host[g][o], shownIn[o])
    BY <1>8, <1>r DEF LegalMemory, Gone
  <2>3. LegalMemory(r, m, shownIn[o])
    <3>1. CASE m = Nothing
      BY <1>n, <1>r, <3>1
    <3>2. CASE m # Nothing
      BY <1>8, <1>m, <2>2, <3>2 DEF LegalMemory
    <3>3. QED
      BY <3>1, <3>2
  <2>4. QED
    BY <1>8, <1>r, <2>1, <2>2, <2>3, HostStep
<1>9. ASSUME NEW h \in Hosts, NEW o \in Outcomes, NEW place \in {"acking", "beating"},
             Read(h, o, place), host[h][o].at # "none",
             place = "acking" => host[h][o].at = "shown"
      PROVE  OutcomeInv'
  <2> DEFINE live == delivery[o].lease = "live"
             m == [host[h][o] EXCEPT !.at = place, !.intime = live]
  <2>1. live \in BOOLEAN
    OBVIOUS
  <2>2. Remember(h, o, m)
    BY <1>9 DEF Read
  <2> HIDE DEF live
  <2>3. m \in Memory /\ m.token = host[h][o].token /\ m.at = place
    BY <1>m, <2>1 DEF Memory
  <2> HIDE DEF m
  <2>4. QED
    BY <1>8, <1>9, <1>r, <2>2, <2>3 DEF Read
<1>10. ASSUME NEW h \in Hosts, NEW o \in Outcomes, Ack(h, o) PROVE OutcomeInv'
  <2> DEFINE again == [host[h][o] EXCEPT !.at = "shown", !.intime = FALSE]
  <2>1. again \in Memory /\ again.token = host[h][o].token /\ again.at = "shown"
    BY <1>m DEF Memory
  <2>2. PICK m \in {Nothing, again} : Remember(h, o, m)
    BY <1>10 DEF Ack
  <2>3. m \in Memory /\ (m = Nothing \/ m.token = host[h][o].token)
    BY <1>n, <2>1
  <2> HIDE DEF again
  <2>4. host[h][o].at = "acking"
    BY <1>10 DEF Ack, HostAt
  <2>5. CASE UNCHANGED delivery
    BY <1>8, <1>10, <1>r, <2>2, <2>3, <2>4, <2>5 DEF Ack
  <2>6. CASE Fenced(h, o, host[h][o].intime) /\ Update(o, Delivered(delivery[o]))
    <3>1. delivery[o].attempts \in shownIn[o] /\ delivery[o].state = "processing"
      BY <1>m, <1>r, <2>4, <2>6 DEF Fenced, LegalMemory, LegalRow
    <3>2. LET f == Delivered(delivery[o]) IN
          f \in OutcomeRow /\ LegalRow(f) /\ f.state = "delivered"
          /\ f.attempts = delivery[o].attempts
      BY <1>r, <3>1, DeliveredRow
    <3>3. QED
      BY <1>8, <1>10, <2>2, <2>3, <2>4, <2>6, <3>1, <3>2 DEF Ack
  <2>7. QED
    BY <1>10, <2>5, <2>6 DEF Ack
<1>11. ASSUME NEW h \in Hosts, NEW o \in Outcomes, Beat(h, o) PROVE OutcomeInv'
  <2> DEFINE r == [delivery[o] EXCEPT !.lease = "live"]
             m == [host[h][o] EXCEPT !.at = "claimed", !.intime = FALSE]
  <2>1. m \in Memory /\ m.token = host[h][o].token /\ m.at = "claimed"
    BY <1>m DEF Memory
  <2>2. host[h][o].at = "beating"
    BY <1>11 DEF Beat, HostAt
  <2>3. CASE UNCHANGED delivery /\ Remember(h, o, Nothing)
    BY <1>8, <1>11, <1>n, <1>r, <2>2, <2>3 DEF Beat
  <2>4. CASE Fenced(h, o, host[h][o].intime) /\ Update(o, r) /\ Remember(h, o, m)
    <3>1. /\ r \in OutcomeRow /\ LegalRow(r)
          /\ r.state = delivery[o].state /\ r.attempts = delivery[o].attempts
      BY <1>r, <2>4 DEF Fenced, OutcomeRow, LegalRow
    <3> HIDE DEF r, m
    <3>2. QED
      BY <1>8, <1>11, <2>1, <2>2, <2>4, <3>1 DEF Beat
  <2>5. QED
    BY <1>11, <2>3, <2>4 DEF Beat
<1>12. ASSUME NEW h \in Hosts, NEW o \in Outcomes, Nack(h, o) PROVE OutcomeInv'
  <2>1. CASE UNCHANGED delivery
    BY <1>8, <1>12, <1>n, <1>r, <2>1 DEF Nack
  <2>2. CASE Fenced(h, o, FALSE) /\ Update(o, Failed(delivery[o], "later"))
    <3> DEFINE f == Failed(delivery[o], "later")
    <3>1. /\ delivery[o].state = "processing"
          /\ f \in OutcomeRow /\ LegalRow(f)
          /\ f.state \in {"retry", "dead"} /\ f.attempts = delivery[o].attempts
      BY <1>r, <2>2, FailedRow DEF Fenced
    <3> HIDE DEF f
    <3>2. Update(o, f)
      BY <2>2 DEF f
    <3>3. QED
      BY <1>8, <1>12, <1>n, <3>1, <3>2 DEF Nack
  <2>3. QED
    BY <1>12, <2>1, <2>2 DEF Nack
<1>13. ASSUME NEW h \in Hosts, Crash(h) PROVE OutcomeInv'
  <2> DEFINE place(o) == CASE host[h][o].at = "acking" -> "shown"
                           [] host[h][o].at = "beating" -> "claimed"
                           [] OTHER -> host[h][o].at
             kept(o) == [host[h][o] EXCEPT !.at = place(o), !.intime = FALSE]
  <2>1. PICK mine \in [Outcomes -> Memory] :
          /\ host' = [host EXCEPT ![h] = mine]
          /\ \A o \in Outcomes : mine[o] = Nothing \/ mine[o] = kept(o)
    <3>1. \A o \in Outcomes : kept(o) \in Memory
      <4>1. ASSUME NEW o \in Outcomes PROVE kept(o) \in Memory
        <5>1. place(o) \in {"none", "claimed", "shown", "acking", "beating"}
          BY <1>m DEF Memory
        <5> HIDE DEF place
        <5>2. QED
          BY <1>m, <5>1 DEF Memory
      <4>2. QED
        BY <4>1
    <3>2. CASE host' = [host EXCEPT ![h] = [o \in Outcomes |-> Nothing]]
      <4>1. [o \in Outcomes |-> Nothing] \in [Outcomes -> Memory]
        BY <1>n
      <4>2. QED
        BY <3>2, <4>1
    <3>3. CASE host' = [host EXCEPT ![h] = [o \in Outcomes |-> kept(o)]]
      <4>1. [o \in Outcomes |-> kept(o)] \in [Outcomes -> Memory]
        BY <3>1
      <4>2. QED
        BY <3>3, <4>1
    <3>4. QED
      BY <1>13, <3>2, <3>3 DEF Crash
  <2>2. OutcomeTypeOK'
    <3> HIDE DEF kept
    <3>1. host' \in [Hosts -> [Outcomes -> Memory]]
      BY <1>0, <2>1
    <3>2. crashes' \in Nat /\ calling' \in [Hosts -> BOOLEAN]
      <4>1. crashes' = crashes + 1 /\ calling' = [calling EXCEPT ![h] = FALSE]
        BY <1>13 DEF Crash
      <4>2. QED
        BY <1>0, <4>1
    <3>3. UNCHANGED <<delivery, shownIn>>
      BY <1>13 DEF Crash
    <3>4. QED
      BY <1>0, <3>1, <3>2, <3>3 DEF OutcomeTypeOK
  <2>3. ASSUME NEW o \in Outcomes PROVE Legal(o)'
    <3>1. delivery'[o] = delivery[o] /\ shownIn'[o] = shownIn[o]
      BY <1>13 DEF Crash
    <3>2. LegalMemory(delivery[o], kept(o), shownIn[o])
      <4>1. /\ kept(o).at = place(o) /\ kept(o).token = host[h][o].token
            /\ place(o) = "none" <=> host[h][o].at = "none"
            /\ place(o) \in {"shown", "acking"} => host[h][o].at \in {"shown", "acking"}
        BY <1>m DEF Memory
      <4> HIDE DEF kept, place
      <4>2. QED
        BY <1>m, <4>1 DEF LegalMemory
    <3> HIDE DEF kept
    <3>3. ASSUME NEW g \in Hosts
          PROVE  LegalMemory(delivery[o], host'[g][o], shownIn[o])
      <4>1. CASE g = h
        BY <1>0, <1>n, <1>r, <2>1, <3>2, <4>1
      <4>2. CASE g # h
        BY <1>0, <1>r, <2>1, <4>2
      <4>3. QED
        BY <4>1, <4>2
    <3>4. QED
      BY <1>r, <3>1, <3>3 DEF Legal
  <2>4. QED
    BY <2>2, <2>3 DEF OutcomeInv
<1>14. CASE UNCHANGED outcomeVars
  BY <1>14 DEF outcomeVars, OutcomeInv, OutcomeTypeOK, Legal
<1>15. ASSUME NEW h \in Hosts, NEW o \in Outcomes, Deliver(h, o) \/ BeatRead(h, o)
       PROVE  OutcomeInv'
  BY <1>7, <1>9, <1>10, <1>11, <1>15 DEF Deliver, AckRead, BeatRead, HostAt
<1>16. QED
  BY <1>1, <1>2, <1>3, <1>4, <1>5, <1>6, <1>12, <1>13, <1>14, <1>15 DEF OutcomeNext

-----------------------------------------------------------------------------
(* The invariant holds of every reachable state. *)
LEMMA OutcomeInvariance == OutcomeSpec => []OutcomeInv
<1>1. OutcomeInit => OutcomeInv
  BY InvInit
<1>2. OutcomeInv /\ [OutcomeNext]_outcomeVars => OutcomeInv'
  BY InvNext
<1>3. QED
  BY <1>1, <1>2, PTL DEF OutcomeSpec

(* Every row the store leaves satisfies the CHECK clauses of its table. *)
THEOREM RowsAreLegal == OutcomeSpec => []RowIsLegal
<1>1. OutcomeInv => RowIsLegal
  BY DEF OutcomeInv, Legal, LegalRow, RowIsLegal
<1>2. QED
  BY <1>1, OutcomeInvariance, PTL

(* No outcome is given up before MaxAttempts claims, or claimed more often. *)
THEOREM AttemptsCounted == OutcomeSpec => []AttemptsAreCounted
<1>1. OutcomeInv => AttemptsAreCounted
  BY DEF OutcomeInv, Legal, LegalRow, AttemptsAreCounted
<1>2. QED
  BY <1>1, OutcomeInvariance, PTL

(* The claim that delivers an outcome is the last one and showed it. *)
THEOREM DeliveryIsShown == OutcomeSpec => []DeliveredWasShown
<1>1. OutcomeInv => DeliveredWasShown
  BY DEF OutcomeInv, Legal, LegalHistory, DeliveredWasShown
<1>2. QED
  BY <1>1, OutcomeInvariance, PTL

(* A person sees an outcome at most once per counted claim. *)
THEOREM ShownCounted == OutcomeSpec => []ShownAreCounted
<1>1. OutcomeInv => ShownAreCounted
  BY DEF OutcomeInv, Legal, LegalHistory, ShownAreCounted
<1>2. QED
  BY <1>1, OutcomeInvariance, PTL

(* The two together: what is counted and retired is what was seen. *)
THEOREM DeliveryTrue == OutcomeSpec => []DeliveryIsTrue
<1>1. DeliveredWasShown /\ ShownAreCounted => DeliveryIsTrue
  BY DEF DeliveryIsTrue
<1>2. QED
  BY <1>1, DeliveryIsShown, ShownCounted, PTL

(* No late call of an old claim moves an outcome that has ended. *)
THEOREM EndedIsFinal == OutcomeSpec => EndIsFinal
<1>1. OutcomeInv /\ [OutcomeNext]_outcomeVars =>
        \A o \in Outcomes : delivery[o].state \in Ended =>
          delivery'[o] = delivery[o] \/ delivery'[o].state = "erased"
  <2> SUFFICES ASSUME OutcomeInv, [OutcomeNext]_outcomeVars,
                      NEW o \in Outcomes, delivery[o].state \in Ended
               PROVE  delivery'[o] = delivery[o] \/ delivery'[o].state = "erased"
    OBVIOUS
  <2>0. /\ delivery \in [Outcomes -> OutcomeRow] /\ delivery[o] \in OutcomeRow
        /\ delivery[o].state # "processing" /\ delivery[o].state \notin Gone
        /\ delivery[o].lease = "none" /\ delivery[o].next = "none"
        /\ delivery[o].state \notin {"pending", "retry"}
    BY DEF OutcomeInv, OutcomeTypeOK, Legal, LegalRow, Ended, Gone
  <2>1. CASE \E p \in Outcomes : Persist(p) \/ EraseOutcome(p) \/ Lapse(p) \/ BecomeDue(p)
    <3>1. PICK p \in Outcomes : Persist(p) \/ EraseOutcome(p) \/ Lapse(p) \/ BecomeDue(p)
      BY <2>1
    <3>2. CASE p # o
      BY <2>0, <3>1, <3>2 DEF Persist, EraseOutcome, Lapse, BecomeDue, Update
    <3>3. CASE p = o
      BY <2>0, <3>1, <3>3 DEF Persist, EraseOutcome, Lapse, BecomeDue, Update, Gone, Absent
    <3>4. QED
      BY <3>2, <3>3
  <2>2. ASSUME NEW h \in Hosts, Recover(h) \/ Claim(h) \/ Crash(h)
        PROVE  delivery'[o] = delivery[o]
    BY <2>0, <2>2 DEF Recover, Claim, Crash, Recovered, Stale, Ready
  <2>3. ASSUME NEW h \in Hosts, NEW p \in Outcomes,
               Deliver(h, p) \/ BeatRead(h, p) \/ Nack(h, p)
        PROVE  delivery'[o] = delivery[o]
    <3>1. CASE p # o
      BY <2>0, <2>3, <3>1
         DEF Deliver, Show, AckRead, BeatRead, Read, Ack, Beat, Nack, Update
    <3>2. CASE p = o
      BY <2>0, <2>3, <3>2
         DEF Deliver, Show, AckRead, BeatRead, Read, Ack, Beat, Nack, Fenced
    <3>3. QED
      BY <3>1, <3>2
  <2>4. CASE UNCHANGED outcomeVars
    BY <2>4 DEF outcomeVars
  <2>5. QED
    BY <2>1, <2>2, <2>3, <2>4 DEF OutcomeNext
<1>2. QED
  BY <1>1, OutcomeInvariance, PTL DEF OutcomeSpec, EndIsFinal

(* A claim in its lease ends only by its holder's own call, or erasure. *)
THEOREM ClaimsAreExclusive == OutcomeSpec => ClaimIsExclusive
<1> DEFINE Exclusive(o) ==
      /\ delivery[o].state = "processing" /\ delivery[o].lease = "live"
      /\ delivery'[o].token # delivery[o].token
      => \/ delivery'[o].state = "erased"
         \/ \E h \in Hosts : host[h][o].token = delivery[o].token
                             /\ host'[h][o] # host[h][o]
<1>1. OutcomeInv /\ [OutcomeNext]_outcomeVars => \A o \in Outcomes : Exclusive(o)
  <2> SUFFICES ASSUME OutcomeInv, [OutcomeNext]_outcomeVars, NEW o \in Outcomes,
                      delivery[o].state = "processing", delivery[o].lease = "live",
                      delivery'[o].token # delivery[o].token
               PROVE  Exclusive(o)
    OBVIOUS
  <2>0. /\ delivery \in [Outcomes -> OutcomeRow] /\ delivery[o] \in OutcomeRow
        /\ host \in [Hosts -> [Outcomes -> Memory]]
    BY DEF OutcomeInv, OutcomeTypeOK
  <2>1. CASE \E p \in Outcomes : Persist(p) \/ EraseOutcome(p) \/ Lapse(p) \/ BecomeDue(p)
    <3>1. PICK p \in Outcomes : Persist(p) \/ EraseOutcome(p) \/ Lapse(p) \/ BecomeDue(p)
      BY <2>1
    <3>2. CASE p # o
      BY <2>0, <3>1, <3>2 DEF Persist, EraseOutcome, Lapse, BecomeDue, Update
    <3>3. CASE p = o /\ ~EraseOutcome(o)
      BY <2>0, <3>1, <3>3 DEF Persist, Lapse, BecomeDue, Update, OutcomeRow
    <3>4. CASE p = o /\ EraseOutcome(o)
      BY <2>0, <3>4 DEF EraseOutcome, Update, Absent
    <3>5. QED
      BY <3>2, <3>3, <3>4
  <2>2. ASSUME NEW h \in Hosts, Recover(h) \/ Claim(h) \/ Crash(h)
        PROVE  delivery'[o] = delivery[o]
    BY <2>0, <2>2 DEF Recover, Claim, Crash, Recovered, Stale, Ready
  <2>3. ASSUME NEW h \in Hosts, NEW p \in Outcomes,
               Deliver(h, p) \/ BeatRead(h, p) \/ Nack(h, p)
        PROVE  Exclusive(o)
    <3>1. p = o
      <4> SUFFICES ASSUME p # o PROVE delivery'[o] = delivery[o]
        OBVIOUS
      <4>1. CASE \E r : Update(p, r)
        BY <2>0, <4>1 DEF Update
      <4>2. CASE UNCHANGED delivery
        BY <4>2
      <4>3. QED
        BY <2>3, <4>1, <4>2
           DEF Deliver, Show, AckRead, BeatRead, Read, Ack, Beat, Nack
    <3>2. Ack(h, o) \/ Nack(h, o)
      BY <2>0, <2>3, <3>1
         DEF Deliver, Show, AckRead, BeatRead, Read, Beat, Update, OutcomeRow
    <3>3. host[h][o].token = delivery[o].token
      BY <2>0, <3>2 DEF Ack, Nack, Fenced
    <3>4. host'[h][o].at # host[h][o].at
      <4> DEFINE again == [host[h][o] EXCEPT !.at = "shown", !.intime = FALSE]
      <4>1. again.at = "shown" /\ Nothing.at = "none"
        BY <2>0 DEF Nothing, Memory
      <4>2. PICK m \in {Nothing, again} : Remember(h, o, m)
        BY <3>2 DEF Ack, Nack
      <4>3. host'[h][o] = m
        BY <2>0, <4>2 DEF Remember
      <4>4. host[h][o].at \in {"acking", "claimed"}
        BY <3>2 DEF Ack, Nack, HostAt
      <4> HIDE DEF again
      <4>5. QED
        BY <4>1, <4>3, <4>4
    <3>5. QED
      BY <3>3, <3>4
  <2>4. CASE UNCHANGED outcomeVars
    BY <2>4 DEF outcomeVars
  <2>5. QED
    BY <2>1, <2>2, <2>3, <2>4 DEF OutcomeNext
<1>2. QED
  BY <1>1, OutcomeInvariance, PTL DEF OutcomeSpec, ClaimIsExclusive

-----------------------------------------------------------------------------
(***************************************************************************)
(* Clarification.  The invariant Chained adds to the properties what makes *)
(* them inductive: follow-up jobs descend from jobs that asked, and a call *)
(* that has a target has one that asked.                                   *)
(***************************************************************************)
(* A follow-up job exists only while its asker has asked or is erased. *)
Descended ==
  \A j \in Jobs : ~Opening(j) /\ job[j] # "absent" =>
    job[Asker(j)] \in {"clarification_required", "erased"}

(* Only a job that can have a follow-up asks. *)
Asking == \A j \in Jobs : job[j] = "clarification_required" => j[2] < MaxChain

(* A record that is not there says nothing. *)
Silent == \A j \in Jobs : record[j].state = "none" => record[j].text = NoText

(* A call's target is a job that asked. *)
Targets ==
  \A c \in Calls : call[c].at \in {"chosen", "receipt", "error"} =>
    call[c].target \in Jobs /\ call[c].target[2] < MaxChain

Rows == /\ job \in [Jobs -> JobStates] /\ record \in [Jobs -> Record]
        /\ Descended /\ Asking /\ Silent
        /\ ChainIsCoherent /\ EveryQuestionIsKept /\ ErasedLeavesNoRecord

Chained == ClarificationTypeOK /\ Rows /\ Targets /\ ReceiptIsTrue

-----------------------------------------------------------------------------
LEMMA Chain ==
  ASSUME NEW j \in Jobs
  PROVE  /\ j[2] < MaxChain => FollowUp(j) \in Jobs /\ ~Opening(FollowUp(j))
         /\ ~Opening(j) => Asker(j) \in Jobs /\ Asker(j)[2] < MaxChain /\ FollowUp(Asker(j)) = j
         /\ Asker(FollowUp(j)) = j
         /\ FollowUp(j) # j
         /\ ~Opening(j) => Asker(j) # j
         /\ \A k \in Jobs : FollowUp(k) = j => ~Opening(j) /\ k = Asker(j)
<1>1. PICK b \in Boundaries, n \in 0 .. MaxChain : j = <<b, n>>
  BY DEF Jobs
<1>2. MaxChain \in Nat BY MaxChainAssumption
<1>3. j[1] = b /\ j[2] = n BY <1>1
<1>4. j[2] < MaxChain => FollowUp(j) \in Jobs /\ ~Opening(FollowUp(j))
  BY <1>2, <1>3 DEF Jobs, FollowUp, Opening
<1>5. ~Opening(j) => Asker(j) \in Jobs /\ Asker(j)[2] < MaxChain /\ FollowUp(Asker(j)) = j
  BY <1>1, <1>2, <1>3 DEF Jobs, FollowUp, Asker, Opening
<1>6. Asker(FollowUp(j)) = j
  BY <1>1, <1>2, <1>3 DEF FollowUp, Asker
<1>7. FollowUp(j) # j
  BY <1>1, <1>2, <1>3 DEF FollowUp
<1>8. ~Opening(j) => Asker(j) # j
  BY <1>1, <1>2, <1>3 DEF Asker
<1>9. ASSUME NEW k \in Jobs, FollowUp(k) = j PROVE ~Opening(j) /\ k = Asker(j)
  <2>1. PICK a \in Boundaries, m \in 0 .. MaxChain : k = <<a, m>>
    BY DEF Jobs
  <2>2. k[1] = a /\ k[2] = m BY <2>1
  <2>3. j = <<a, m + 1>> BY <1>9, <2>2 DEF FollowUp
  <2>4. j[1] = a /\ j[2] = m + 1 BY <2>3
  <2> QED BY <1>2, <2>1, <2>4 DEF Opening, Asker
<1> QED BY <1>4, <1>5, <1>6, <1>7, <1>8, <1>9

(* The four ways a transaction changes jobs and records. *)
LEMMA AcceptRows == ASSUME Rows, NEW j \in Jobs, Accept(j) PROVE Rows'
<1>1. job[j] = "absent" /\ Opening(j) /\ job' = [job EXCEPT ![j] = "open"] /\ record' = record
  BY DEF Accept
<1>2. \A k \in Jobs : job'[k] = IF k = j THEN "open" ELSE job[k]
  BY <1>1 DEF Rows
<1>3. \A k \in Jobs : k[2] < MaxChain => FollowUp(k) \in Jobs /\ FollowUp(k) # j
  BY <1>1, Chain
<1>4. \A k \in Jobs : ~Opening(k) => Asker(k) \in Jobs
  BY Chain
<1>5. record[j].state = "none"
  BY <1>1 DEF Rows, ChainIsCoherent
<1>6. job' \in [Jobs -> JobStates] /\ record' \in [Jobs -> Record]
  BY <1>1 DEF Rows, JobStates
<1>7. Descended'
  BY <1>1, <1>2, <1>4 DEF Rows, Descended, Opening, Asker
<1>8. Asking' BY <1>2 DEF Rows, Asking
<1>9. Silent' BY <1>1 DEF Rows, Silent
<1>10. ChainIsCoherent'
  BY <1>1, <1>2, <1>3, <1>5 DEF Rows, ChainIsCoherent, Asking
<1>11. EveryQuestionIsKept'
  BY <1>1, <1>2, <1>3 DEF Rows, EveryQuestionIsKept, Asking
<1>12. ErasedLeavesNoRecord'
  BY <1>1, <1>2 DEF Rows, ErasedLeavesNoRecord
<1> QED BY <1>6, <1>7, <1>8, <1>9, <1>10, <1>11, <1>12 DEF Rows

(* What the settlement of j does to each record. *)
LEMMA SettledRecords ==
  ASSUME Rows, now \in Nat, NEW j \in Jobs, job[j] = "open",
         NEW t \in {"clarification_required", "settled"}, record' = Synchronized(j, t)
  PROVE  /\ record' \in [Jobs -> Record]
         /\ \A k \in Jobs : record'[k].text = record[k].text
         /\ \A k \in Jobs : record'[k].state =
              IF k = j /\ t = "clarification_required" THEN "open"
              ELSE IF ~Opening(j) /\ k = Asker(j) /\ record[k].state = "answered"
              THEN "resolved" ELSE record[k].state
<1> DEFINE R == Resolved(j)
<1>1. record[j].state = "none"
  BY DEF Rows, ChainIsCoherent
<1>2. record \in [Jobs -> Record] BY DEF Rows
<1>3. ~Opening(j) => Asker(j) \in Jobs /\ Asker(j) # j BY Chain
<1>4. /\ R \in [Jobs -> Record] /\ R[j] = record[j]
      /\ \A k \in Jobs : R[k].text = record[k].text
      /\ \A k \in Jobs : R[k].state =
           IF ~Opening(j) /\ k = Asker(j) /\ record[k].state = "answered"
           THEN "resolved" ELSE record[k].state
  <2>1. CASE Opening(j) \/ record[Asker(j)].state # "answered"
    BY <1>2, <2>1 DEF Resolved
  <2>2. CASE ~Opening(j) /\ record[Asker(j)].state = "answered"
    <3>1. R = [record EXCEPT ![Asker(j)].state = "resolved"] BY <2>2 DEF Resolved
    <3> HIDE DEF R
    <3>2. [record[Asker(j)] EXCEPT !.state = "resolved"] \in Record
      BY <1>2, <1>3, <2>2 DEF Record
    <3> QED BY <1>2, <1>3, <2>2, <3>1, <3>2 DEF Record
  <2> QED BY <2>1, <2>2
<1>5. CASE t = "clarification_required"
  <2>1. record' = [R EXCEPT ![j].state = "open", ![j].opened = now]
    BY <1>1, <1>5 DEF Synchronized
  <2> HIDE DEF R
  <2>2. [R[j] EXCEPT !.state = "open", !.opened = now] \in Record
    BY <1>4 DEF Record
  <2>3. record' = [R EXCEPT ![j] = [R[j] EXCEPT !.state = "open", !.opened = now]]
    BY <1>4, <2>1
  <2>4. R[j] \in Record BY <1>4
  <2>5. record'[j].state = "open" /\ record'[j].text = R[j].text
    BY <1>4, <2>3, <2>4 DEF Record
  <2>6. \A k \in Jobs : k # j => record'[k] = R[k]
    BY <1>4, <2>3
  <2>7. record' \in [Jobs -> Record] BY <1>4, <2>2, <2>3
  <2>8. ASSUME NEW k \in Jobs
        PROVE  record'[k].text = record[k].text
    BY <1>4, <2>5, <2>6
  <2>9. ASSUME NEW k \in Jobs
        PROVE  record'[k].state = IF k = j THEN "open"
              ELSE IF ~Opening(j) /\ k = Asker(j) /\ record[k].state = "answered"
              THEN "resolved" ELSE record[k].state
    BY <1>4, <2>5, <2>6
  <2> QED BY <1>5, <2>7, <2>8, <2>9
<1>6. CASE t = "settled"
  BY <1>4, <1>6 DEF Synchronized
<1> QED BY <1>5, <1>6

LEMMA SettleRows == ASSUME Rows, now \in Nat, NEW j \in Jobs, Settle(j) PROVE Rows'
<1>1. PICK t \in {"clarification_required", "settled"} :
        /\ t = "clarification_required" => j[2] < MaxChain
        /\ job' = [job EXCEPT ![j] = t]
        /\ record' = Synchronized(j, t)
  BY DEF Settle
<1>2. job[j] = "open" BY DEF Settle
<1>3. /\ record' \in [Jobs -> Record]
      /\ \A k \in Jobs : record'[k].text = record[k].text
      /\ \A k \in Jobs : record'[k].state =
              IF k = j /\ t = "clarification_required" THEN "open"
              ELSE IF ~Opening(j) /\ k = Asker(j) /\ record[k].state = "answered"
              THEN "resolved" ELSE record[k].state
  BY <1>1, <1>2, SettledRecords
<1>4. \A k \in Jobs : job'[k] = IF k = j THEN t ELSE job[k]
  BY <1>1 DEF Rows
<1>5. record[j].state = "none"
  BY <1>2 DEF Rows, ChainIsCoherent
<1>6. j[2] < MaxChain => FollowUp(j) \in Jobs /\ job[FollowUp(j)] = "absent"
  BY <1>2, Chain DEF Rows, Descended
<1>7. ~Opening(j) => Asker(j) \in Jobs /\ FollowUp(Asker(j)) = j
                     /\ record[Asker(j)].state \in {"none", "answered"}
  <2>1. ASSUME ~Opening(j) PROVE Asker(j) \in Jobs /\ FollowUp(Asker(j)) = j
    BY <2>1, Chain
  <2>2. ASSUME ~Opening(j)
        PROVE  record[Asker(j)].state \in {"none", "open", "answered", "resolved"}
    BY <2>1, <2>2 DEF Rows, Record
  <2> QED BY <1>2, <2>1, <2>2 DEF Rows, ChainIsCoherent
<1>8. job' \in [Jobs -> JobStates]
  BY <1>1 DEF Rows, JobStates
<1>9. Descended'
  <2> SUFFICES ASSUME NEW k \in Jobs, ~Opening(k), job'[k] # "absent"
               PROVE  job'[Asker(k)] \in {"clarification_required", "erased"}
    BY DEF Descended, Opening, Asker
  <2>1. Asker(k) \in Jobs BY Chain
  <2>2. job[k] # "absent" BY <1>2, <1>4
  <2>3. job[Asker(k)] \in {"clarification_required", "erased"}
    BY <2>2 DEF Rows, Descended
  <2> QED BY <1>2, <1>4, <2>1, <2>3
<1>10. Asking'
  BY <1>1, <1>4 DEF Rows, Asking
<1>11. Silent'
  BY <1>3 DEF Rows, Silent
<1>12. ChainIsCoherent'
  <2> SUFFICES ASSUME NEW k \in Jobs
      PROVE /\ record'[k].state # "none" => job'[k] = "clarification_required"
            /\ record'[k].state = "open" => job'[FollowUp(k)] = "absent" /\ record'[k].text = NoText
            /\ record'[k].state = "answered" => job'[FollowUp(k)] = "open"
            /\ record'[k].state = "resolved" =>
                 job'[FollowUp(k)] \in {"clarification_required", "settled"}
    BY DEF ChainIsCoherent, FollowUp
  <2>1. CASE k = j
    <3>1. record'[j].text = NoText BY <1>3, <1>5 DEF Rows, Silent
    <3>2. CASE t = "clarification_required"
      <4>1. FollowUp(j) # j BY Chain
      <4> QED BY <1>1, <1>3, <1>4, <1>6, <2>1, <3>1, <3>2, <4>1
    <3>3. CASE t = "settled"
      <4>1. ~Opening(j) => Asker(j) # j BY Chain
      <4> QED BY <1>3, <1>5, <2>1, <3>3, <4>1
    <3> QED BY <3>2, <3>3
  <2>2. CASE k # j /\ record[k].state # "none" /\ FollowUp(k) = j
    <3>1. ~Opening(j) /\ k = Asker(j) BY <2>2, Chain
    <3>2. record[k].state = "answered" BY <1>7, <2>2, <3>1
    <3>3. record'[k].state = "resolved" BY <1>3, <2>2, <3>1, <3>2
    <3>4. job'[k] = "clarification_required"
      BY <1>4, <2>2 DEF Rows, ChainIsCoherent
    <3> QED BY <1>4, <2>2, <3>3, <3>4
  <2>3. CASE k # j /\ record[k].state # "none" /\ FollowUp(k) # j
    <3>1. ~(~Opening(j) /\ k = Asker(j)) BY <1>7, <2>3
    <3>2. record'[k].state = record[k].state /\ record'[k].text = record[k].text
      BY <1>3, <2>3, <3>1
    <3>3. job[k] = "clarification_required" BY <2>3 DEF Rows, ChainIsCoherent
    <3>4. FollowUp(k) \in Jobs BY <3>3, Chain DEF Rows, Asking
    <3>5. job'[k] = job[k] /\ job'[FollowUp(k)] = job[FollowUp(k)]
      BY <1>4, <2>3, <3>4
    <3> QED BY <3>2, <3>5 DEF Rows, ChainIsCoherent
  <2>4. CASE k # j /\ record[k].state = "none"
    BY <1>3, <2>4
  <2> QED BY <2>1, <2>2, <2>3, <2>4
<1>13. EveryQuestionIsKept'
  <2> SUFFICES ASSUME NEW k \in Jobs, job'[k] = "clarification_required", record'[k].state = "none"
               PROVE  job'[FollowUp(k)] = "erased"
    BY DEF EveryQuestionIsKept, FollowUp
  <2>1. k # j BY <1>3, <1>4
  <2>2. job[k] = "clarification_required" /\ record[k].state = "none"
    BY <1>3, <1>4, <2>1
  <2>3. job[FollowUp(k)] = "erased" /\ FollowUp(k) \in Jobs
    BY <2>2, Chain DEF Rows, EveryQuestionIsKept, Asking
  <2> QED BY <1>2, <1>4, <2>3
<1>14. ErasedLeavesNoRecord'
  <2> SUFFICES ASSUME NEW k \in Jobs, job'[k] = "erased"
               PROVE  /\ record'[k].state = "none"
                      /\ ~Opening(k) => record'[Asker(k)].state = "none"
    BY DEF ErasedLeavesNoRecord, Opening, Asker
  <2>1. k # j /\ job[k] = "erased" BY <1>4
  <2>2. record[k].state = "none" /\ (~Opening(k) => record[Asker(k)].state = "none")
    BY <2>1 DEF Rows, ErasedLeavesNoRecord
  <2>3. record'[k].state = "none" BY <1>3, <2>1, <2>2
  <2>4. ASSUME ~Opening(k) PROVE record'[Asker(k)].state = "none"
    <3>1. Asker(k) \in Jobs /\ FollowUp(Asker(k)) = k BY <2>4, Chain
    <3>2. Asker(k) # j
      BY <1>6, <2>1, <2>4, <3>1, Chain
    <3> QED BY <1>3, <2>2, <2>4, <3>1, <3>2
  <2> QED BY <2>3, <2>4
<1> QED BY <1>3, <1>8, <1>9, <1>10, <1>11, <1>12, <1>13, <1>14 DEF Rows

LEMMA EraseRows == ASSUME Rows, NEW j \in Jobs, EraseEvidence(j) PROVE Rows'
<1>1. /\ job[j] \notin {"absent", "erased"}
      /\ job' = [job EXCEPT ![j] = "erased"]
      /\ record' = [k \in Jobs |-> IF k = j \/ FollowUp(k) = j THEN NoRecord ELSE record[k]]
  BY DEF EraseEvidence
<1>2. \A k \in Jobs : job'[k] = IF k = j THEN "erased" ELSE job[k]
  BY <1>1 DEF Rows
<1>3. NoRecord \in Record /\ NoRecord.state = "none" /\ NoRecord.text = NoText
  BY DEF NoRecord, Record
<1>4. \A k \in Jobs : record'[k] = IF k = j \/ FollowUp(k) = j THEN NoRecord ELSE record[k]
  BY <1>1
<1>5. job' \in [Jobs -> JobStates] /\ record' \in [Jobs -> Record]
  BY <1>1, <1>3 DEF Rows, JobStates
<1>6. Descended'
  <2> SUFFICES ASSUME NEW k \in Jobs, ~Opening(k), job'[k] # "absent"
               PROVE  job'[Asker(k)] \in {"clarification_required", "erased"}
    BY DEF Descended, Opening, Asker
  <2>1. Asker(k) \in Jobs BY Chain
  <2>2. job[k] # "absent" BY <1>1, <1>2
  <2>3. job[Asker(k)] \in {"clarification_required", "erased"}
    BY <2>2 DEF Rows, Descended
  <2> QED BY <1>2, <2>1, <2>3
<1>7. Asking' BY <1>2 DEF Rows, Asking
<1>8. Silent' BY <1>3, <1>4 DEF Rows, Silent
<1>9. ChainIsCoherent'
  <2>1. ASSUME NEW k \in Jobs, record'[k].state # "none"
        PROVE  /\ record'[k] = record[k]
               /\ job'[k] = job[k]
               /\ job'[FollowUp(k)] = job[FollowUp(k)]
    <3>1. k # j /\ FollowUp(k) # j /\ record'[k] = record[k] BY <1>3, <1>4, <2>1
    <3>2. job[k] = "clarification_required" BY <2>1, <3>1 DEF Rows, ChainIsCoherent
    <3>3. FollowUp(k) \in Jobs BY <3>2, Chain DEF Rows, Asking
    <3> QED BY <1>2, <3>1, <3>3
  <2> SUFFICES ASSUME NEW k \in Jobs
      PROVE /\ record'[k].state # "none" => job'[k] = "clarification_required"
            /\ record'[k].state = "open" => job'[FollowUp(k)] = "absent" /\ record'[k].text = NoText
            /\ record'[k].state = "answered" => job'[FollowUp(k)] = "open"
            /\ record'[k].state = "resolved" =>
                 job'[FollowUp(k)] \in {"clarification_required", "settled"}
    BY DEF ChainIsCoherent, FollowUp
  <2>2. CASE record'[k].state = "none" BY <2>2
  <2>3. CASE record'[k].state # "none"
    BY <2>1, <2>3 DEF Rows, ChainIsCoherent
  <2> QED BY <2>2, <2>3
<1>10. EveryQuestionIsKept'
  <2> SUFFICES ASSUME NEW k \in Jobs, job'[k] = "clarification_required", record'[k].state = "none"
               PROVE  job'[FollowUp(k)] = "erased"
    BY DEF EveryQuestionIsKept, FollowUp
  <2>1. k # j /\ job[k] = "clarification_required" BY <1>2
  <2>2. FollowUp(k) \in Jobs BY <2>1, Chain DEF Rows, Asking
  <2>3. CASE FollowUp(k) = j BY <1>2, <2>2, <2>3
  <2>4. CASE FollowUp(k) # j
    <3>1. record[k].state = "none" BY <1>4, <2>1, <2>4
    <3> QED BY <1>2, <2>1, <2>2, <2>4, <3>1 DEF Rows, EveryQuestionIsKept
  <2> QED BY <2>3, <2>4
<1>11. ErasedLeavesNoRecord'
  <2> SUFFICES ASSUME NEW k \in Jobs, job'[k] = "erased"
               PROVE  /\ record'[k].state = "none"
                      /\ ~Opening(k) => record'[Asker(k)].state = "none"
    BY DEF ErasedLeavesNoRecord, Opening, Asker
  <2>1. ~Opening(k) => Asker(k) \in Jobs /\ FollowUp(Asker(k)) = k BY Chain
  <2>2. CASE k = j BY <1>3, <1>4, <2>1, <2>2
  <2>3. CASE k # j
    <3>1. job[k] = "erased" BY <1>2, <2>3
    <3>2. record[k].state = "none" /\ (~Opening(k) => record[Asker(k)].state = "none")
      BY <3>1 DEF Rows, ErasedLeavesNoRecord
    <3> QED BY <1>3, <1>4, <2>1, <3>2
  <2> QED BY <2>2, <2>3
<1> QED BY <1>5, <1>6, <1>7, <1>8, <1>9, <1>10, <1>11 DEF Rows

(* The transaction that stores the answer t to the question of j. *)
Stored(j, t) ==
  /\ record[j].state = "open" /\ job[FollowUp(j)] = "absent"
  /\ job' = [job EXCEPT ![FollowUp(j)] = "open"]
  /\ record' = [record EXCEPT ![j].state = "answered", ![j].answered = now, ![j].text = t]

LEMMA StoredRecord ==
  ASSUME Rows, now \in Nat, NEW j \in Jobs, NEW t \in Texts \cup {NoText}, Stored(j, t)
  PROVE  /\ record' \in [Jobs -> Record]
         /\ record'[j].state = "answered" /\ record'[j].text = t
         /\ \A k \in Jobs : k # j => record'[k] = record[k]
         /\ j[2] < MaxChain /\ FollowUp(j) \in Jobs
         /\ \A k \in Jobs : job'[k] = IF k = FollowUp(j) THEN "open" ELSE job[k]
<1> DEFINE r == [record[j] EXCEPT !.state = "answered", !.answered = now, !.text = t]
<1>1. record[j] \in Record /\ record \in [Jobs -> Record] BY DEF Rows
<1>2. r \in Record BY <1>1 DEF Record
<1>3. r.state = "answered" /\ r.text = t BY <1>1 DEF Record
<1>4. record' = [record EXCEPT ![j] = r] BY <1>1 DEF Stored
<1> HIDE DEF r
<1>5. j[2] < MaxChain /\ FollowUp(j) \in Jobs
  BY Chain DEF Stored, Rows, ChainIsCoherent, Asking
<1> QED BY <1>1, <1>2, <1>3, <1>4, <1>5 DEF Stored, Rows

LEMMA AnswerRows ==
  ASSUME Rows, now \in Nat, NEW j \in Jobs, NEW t \in Texts \cup {NoText}, Stored(j, t)
  PROVE  Rows'
<1>1. /\ record' \in [Jobs -> Record]
      /\ record'[j].state = "answered" /\ record'[j].text = t
      /\ \A k \in Jobs : k # j => record'[k] = record[k]
      /\ j[2] < MaxChain /\ FollowUp(j) \in Jobs
      /\ \A k \in Jobs : job'[k] = IF k = FollowUp(j) THEN "open" ELSE job[k]
  BY StoredRecord
<1>2. record[j].state = "open" /\ job[j] = "clarification_required" /\ job[FollowUp(j)] = "absent"
  BY DEF Stored, Rows, ChainIsCoherent
<1>3. FollowUp(j) # j /\ Asker(FollowUp(j)) = j /\ ~Opening(FollowUp(j))
  BY <1>1, Chain
<1>4. job' \in [Jobs -> JobStates]
  BY DEF Stored, Rows, JobStates
<1>5. Descended'
  <2> SUFFICES ASSUME NEW k \in Jobs, ~Opening(k), job'[k] # "absent"
               PROVE  job'[Asker(k)] \in {"clarification_required", "erased"}
    BY DEF Descended, Opening, Asker
  <2>1. Asker(k) \in Jobs BY Chain
  <2>2. CASE k = FollowUp(j) BY <1>1, <1>2, <1>3, <2>2
  <2>3. CASE k # FollowUp(j)
    <3>1. job[Asker(k)] \in {"clarification_required", "erased"}
      BY <1>1, <2>3 DEF Rows, Descended
    <3> QED BY <1>1, <1>2, <2>1, <3>1
  <2> QED BY <2>2, <2>3
<1>6. Asking' BY <1>1 DEF Rows, Asking
<1>7. Silent' BY <1>1 DEF Rows, Silent
<1>8. ChainIsCoherent'
  <2> SUFFICES ASSUME NEW k \in Jobs, record'[k].state # "none"
      PROVE /\ job'[k] = "clarification_required"
            /\ record'[k].state = "open" => job'[FollowUp(k)] = "absent" /\ record'[k].text = NoText
            /\ record'[k].state = "answered" => job'[FollowUp(k)] = "open"
            /\ record'[k].state = "resolved" =>
                 job'[FollowUp(k)] \in {"clarification_required", "settled"}
    <3>1. ASSUME NEW k \in Jobs, record'[k].state = "none"
          PROVE  record'[k].state # "open" /\ record'[k].state # "answered"
                 /\ record'[k].state # "resolved"
      BY <3>1
    <3> QED BY <3>1 DEF ChainIsCoherent, FollowUp
  <2>1. CASE k = j BY <1>1, <1>2, <1>3, <2>1
  <2>2. CASE k # j
    <3>1. record'[k] = record[k] BY <1>1, <2>2
    <3>2. job[k] = "clarification_required" BY <3>1 DEF Rows, ChainIsCoherent
    <3>3. k # FollowUp(j) BY <1>2, <3>2
    <3>4. FollowUp(k) \in Jobs BY <3>2, Chain DEF Rows, Asking
    <3>5. FollowUp(k) # FollowUp(j) BY <1>1, <1>3, <2>2, Chain
    <3>6. job'[k] = job[k] /\ job'[FollowUp(k)] = job[FollowUp(k)]
      BY <1>1, <3>3, <3>4, <3>5
    <3> QED BY <3>1, <3>2, <3>6 DEF Rows, ChainIsCoherent
  <2> QED BY <2>1, <2>2
<1>9. EveryQuestionIsKept'
  <2> SUFFICES ASSUME NEW k \in Jobs, job'[k] = "clarification_required", record'[k].state = "none"
               PROVE  job'[FollowUp(k)] = "erased"
    BY DEF EveryQuestionIsKept, FollowUp
  <2>1. k # j BY <1>1
  <2>2. job[k] = "clarification_required" /\ record[k].state = "none"
    BY <1>1, <2>1
  <2>3. job[FollowUp(k)] = "erased" /\ FollowUp(k) \in Jobs
    BY <2>2, Chain DEF Rows, EveryQuestionIsKept, Asking
  <2> QED BY <1>1, <1>2, <2>3
<1>10. ErasedLeavesNoRecord'
  <2> SUFFICES ASSUME NEW k \in Jobs, job'[k] = "erased"
               PROVE  /\ record'[k].state = "none"
                      /\ ~Opening(k) => record'[Asker(k)].state = "none"
    BY DEF ErasedLeavesNoRecord, Opening, Asker
  <2>1. k # FollowUp(j) /\ job[k] = "erased" BY <1>1
  <2>2. record[k].state = "none" /\ (~Opening(k) => record[Asker(k)].state = "none")
    BY <2>1 DEF Rows, ErasedLeavesNoRecord
  <2>3. ~Opening(k) => Asker(k) \in Jobs BY Chain
  <2> QED BY <1>1, <1>2, <2>2, <2>3
<1> QED BY <1>1, <1>4, <1>5, <1>6, <1>7, <1>8, <1>9, <1>10 DEF Rows

-----------------------------------------------------------------------------
(* A call's move keeps the calls well typed, and its own place is known.    *)
LEMMA Moved ==
  ASSUME ClarificationTypeOK, NEW c \in Calls,
         NEW place \in {"ready", "chosen", "receipt", "nothing", "error"},
         NEW target \in Jobs \cup {NoJob}, Move(c, place, target)
  PROVE  /\ call' \in [Calls -> Call]
         /\ call'[c].at = place /\ call'[c].target = target /\ call'[c].text = call[c].text
         /\ \A d \in Calls : d # c => call'[d] = call[d]
<1> DEFINE r == [call[c] EXCEPT !.at = place, !.target = target]
<1>1. call \in [Calls -> Call] /\ call[c] \in Call BY DEF ClarificationTypeOK
<1>2. r \in Call BY <1>1 DEF Call
<1>3. r.at = place /\ r.target = target /\ r.text = call[c].text BY <1>1 DEF Call
<1>4. call' = [call EXCEPT ![c] = r] BY <1>1 DEF Move
<1> HIDE DEF r
<1> QED BY <1>1, <1>2, <1>3, <1>4

(* A stored answer never loses its words: a receipt that was true stays so. *)
Kept(j, t) ==
  \/ record[j].state \in {"answered", "resolved"} /\ record[j].text = t
  \/ "erased" \in {job[j], job[FollowUp(j)]}

LEMMA KeptByRows ==
  ASSUME Rows, now \in Nat, NEW j \in Jobs, j[2] < MaxChain, NEW t \in Texts \cup {NoText},
         Kept(j, t),
         \/ (\E i \in Jobs : Accept(i) \/ Settle(i) \/ EraseEvidence(i))
         \/ (\E i \in Jobs, u \in Texts \cup {NoText} : Stored(i, u))
         \/ (job' = job /\ record' = record)
  PROVE  Kept(j, t)'
<1>1. FollowUp(j) \in Jobs BY Chain
<1>2. ASSUME NEW i \in Jobs, Accept(i) PROVE Kept(j, t)'
  BY <1>1, <1>2 DEF Accept, Kept, Rows, FollowUp
<1>3. ASSUME NEW i \in Jobs, Settle(i) PROVE Kept(j, t)'
  <2>1. PICK w \in {"clarification_required", "settled"} :
          job' = [job EXCEPT ![i] = w] /\ record' = Synchronized(i, w)
    BY <1>3 DEF Settle
  <2>2. job[i] = "open" BY <1>3 DEF Settle
  <2>3. CASE "erased" \in {job[j], job[FollowUp(j)]}
    BY <1>1, <2>1, <2>2, <2>3 DEF Kept, Rows, FollowUp
  <2>4. CASE record[j].state \in {"answered", "resolved"} /\ record[j].text = t
    <3>1. i # j BY <2>2, <2>4 DEF Rows, ChainIsCoherent
    <3>2. record'[j].text = t /\ record'[j].state \in {"answered", "resolved"}
      BY <2>1, <2>2, <2>4, <3>1, SettledRecords
    <3> QED BY <3>2 DEF Kept
  <2> QED BY <2>3, <2>4 DEF Kept
<1>4. ASSUME NEW i \in Jobs, EraseEvidence(i) PROVE Kept(j, t)'
  <2>1. /\ job' = [job EXCEPT ![i] = "erased"]
        /\ record' = [k \in Jobs |-> IF k = i \/ FollowUp(k) = i THEN NoRecord ELSE record[k]]
    BY <1>4 DEF EraseEvidence
  <2>2. job'[j] = (IF j = i THEN "erased" ELSE job[j])
        /\ job'[FollowUp(j)] = (IF FollowUp(j) = i THEN "erased" ELSE job[FollowUp(j)])
    BY <1>1, <2>1 DEF Rows
  <2>3. record'[j] = IF j = i \/ FollowUp(j) = i THEN NoRecord ELSE record[j]
    BY <2>1
  <2> QED BY <2>2, <2>3 DEF Kept, FollowUp
<1>5. ASSUME NEW i \in Jobs, NEW u \in Texts \cup {NoText}, Stored(i, u) PROVE Kept(j, t)'
  <2>1. /\ \A k \in Jobs : k # i => record'[k] = record[k]
        /\ \A k \in Jobs : job'[k] = IF k = FollowUp(i) THEN "open" ELSE job[k]
    BY <1>5, StoredRecord
  <2>2. record[i].state = "open" /\ job[FollowUp(i)] = "absent" BY <1>5 DEF Stored
  <2>3. CASE "erased" \in {job[j], job[FollowUp(j)]}
    BY <1>1, <2>1, <2>2, <2>3 DEF Kept, FollowUp
  <2>4. CASE record[j].state \in {"answered", "resolved"} /\ record[j].text = t
    BY <2>1, <2>2, <2>4 DEF Kept
  <2> QED BY <2>3, <2>4 DEF Kept
<1>6. ASSUME job' = job /\ record' = record PROVE Kept(j, t)'
  BY <1>6 DEF Kept, FollowUp
<1> QED BY <1>2, <1>3, <1>4, <1>5, <1>6

-----------------------------------------------------------------------------
(* What a step of a call does: it stores an answer, or changes no row. *)
LEMMA AnswerCases ==
  ASSUME Chained, NEW c \in Calls, Answer(c)
  PROVE  \E j \in Jobs, place \in {"receipt", "error"} :
           /\ j[2] < MaxChain
           /\ Move(c, place, j) /\ replays' = replays
           /\ \/ Stored(j, call[c].text) /\ now' \in Nat
              \/ /\ UNCHANGED <<job, record, now>>
                 /\ place = "receipt" => record[j].state \in {"answered", "resolved"}
                                         /\ record[j].text = call[c].text
<1> DEFINE j == call[c].target
<1>1. j \in Jobs /\ j[2] < MaxChain BY DEF Chained, Targets, Answer, CallAt
<1> HIDE DEF j
<1>2. CASE record[j].state # "open"
  BY <1>1, <1>2 DEF Answer, IsReplay, j
<1>3. CASE record[j].state = "open" /\ job[FollowUp(j)] # "absent"
  BY <1>1, <1>3 DEF Answer, j
<1>4. CASE record[j].state = "open" /\ job[FollowUp(j)] = "absent"
  <2>1. /\ job' = [job EXCEPT ![FollowUp(j)] = "open"]
        /\ record' = [record EXCEPT ![j].state = "answered", ![j].answered = now,
                                    ![j].text = call[c].text]
        /\ now' \in now .. now + 1 /\ replays' = replays
        /\ Move(c, "receipt", j)
    BY <1>4 DEF Answer, j
  <2>2. Stored(j, call[c].text) BY <1>4, <2>1 DEF Stored
  <2>3. now' \in Nat BY <2>1 DEF Chained, ClarificationTypeOK
  <2> QED BY <1>1, <2>1, <2>2, <2>3
<1> QED BY <1>2, <1>3, <1>4

LEMMA ChooseCases ==
  ASSUME Chained, NEW c \in Calls, Choose(c)
  PROVE  /\ UNCHANGED <<job, record, now, replays>>
         /\ \E j \in Jobs \cup {NoJob}, place \in {"chosen", "receipt", "nothing"} :
              /\ Move(c, place, j)
              /\ place # "nothing" => j \in Jobs /\ j[2] < MaxChain
              /\ place = "receipt" => record[j].state \in {"answered", "resolved"}
                                      /\ record[j].text = call[c].text
<1>1. UNCHANGED <<job, record, now, replays>> BY DEF Choose
<1>2. \A j \in Jobs : record[j].state # "none" => j[2] < MaxChain
  BY DEF Chained, Rows, ChainIsCoherent, Asking
<1>3. \A j \in InState({"open", "answered", "resolved"}) : j \in Jobs /\ j[2] < MaxChain
  BY <1>2 DEF InState
<1>4. CASE \E j \in InState({"open"}) : Move(c, "chosen", j)
  BY <1>1, <1>3, <1>4 DEF InState
<1>5. CASE \E j \in {i \in InState({"answered", "resolved"}) : record[i].text = call[c].text} :
             Move(c, "receipt", j)
  BY <1>1, <1>3, <1>5 DEF InState
<1>6. CASE Move(c, "nothing", NoJob)
  BY <1>1, <1>6
<1> QED BY <1>4, <1>5, <1>6 DEF Choose

(* The invariant of a step by which call c moves and others stand still. *)
LEMMA CallStep ==
  ASSUME Chained, NEW c \in Calls,
         NEW place \in {"ready", "chosen", "receipt", "nothing", "error"},
         NEW target \in Jobs \cup {NoJob}, Move(c, place, target),
         now' \in Nat, replays' \in Nat, Rows',
         place \in {"chosen", "receipt", "error"} => target \in Jobs /\ target[2] < MaxChain,
         place = "receipt" => Kept(target, call[c].text)',
         \A d \in Calls : d # c /\ CallAt(d, "receipt") => Kept(call[d].target, call[d].text)'
  PROVE  Chained'
<1>1. /\ call' \in [Calls -> Call]
      /\ call'[c].at = place /\ call'[c].target = target /\ call'[c].text = call[c].text
  BY Moved DEF Chained
<1>5. \A d \in Calls : d # c => call'[d] = call[d]
  BY Moved DEF Chained
<1>2. ClarificationTypeOK' BY <1>1 DEF ClarificationTypeOK, Rows
<1>3. Targets'
  BY <1>1, <1>5 DEF Chained, Targets
<1>4. ReceiptIsTrue'
  <2> SUFFICES ASSUME NEW d \in Calls, call'[d].at = "receipt"
      PROVE  \/ /\ record'[call'[d].target].state \in {"answered", "resolved"}
                /\ record'[call'[d].target].text = call'[d].text
             \/ "erased" \in {job'[call'[d].target], job'[FollowUp(call'[d].target)]}
    BY DEF ReceiptIsTrue, CallAt, FollowUp
  <2>1. CASE d = c
    BY <1>1, <2>1 DEF Kept, FollowUp
  <2>2. CASE d # c
    BY <1>5, <2>2 DEF Kept, CallAt, FollowUp
  <2> QED BY <2>1, <2>2
<1> QED BY <1>2, <1>3, <1>4 DEF Chained

LEMMA RowsStay == ASSUME Rows, job' = job, record' = record PROVE Rows'
  BY DEF Rows, Descended, Asking, Silent, ChainIsCoherent, EveryQuestionIsKept,
     ErasedLeavesNoRecord, Opening, Asker, FollowUp

(* The invariant of a step that leaves the calls alone. *)
LEMMA JobStep ==
  ASSUME Chained, Rows', call' = call, now' \in Nat, UNCHANGED replays,
         \A d \in Calls : CallAt(d, "receipt") =>
           (Kept(call[d].target, call[d].text) => Kept(call[d].target, call[d].text)')
  PROVE  Chained'
<1>1. ClarificationTypeOK' BY DEF Chained, ClarificationTypeOK, Rows
<1>2. Targets' BY DEF Chained, Targets
<1>3. ReceiptIsTrue'
  <2>1. \A d \in Calls : CallAt(d, "receipt") => Kept(call[d].target, call[d].text)
    BY DEF Chained, ReceiptIsTrue, Kept
  <2> QED BY <2>1 DEF ReceiptIsTrue, Kept, CallAt, FollowUp
<1> QED BY <1>1, <1>2, <1>3 DEF Chained

LEMMA ChainedInit == ClarificationInit => Chained
<1> SUFFICES ASSUME ClarificationInit PROVE Chained OBVIOUS
<1>1. \A j \in Jobs : job[j] = "absent" /\ record[j] = NoRecord BY DEF ClarificationInit
<1>2. NoRecord \in Record /\ NoRecord.state = "none" /\ NoRecord.text = NoText
  BY DEF NoRecord, Record
<1>3. ClarificationTypeOK BY <1>2 DEF ClarificationInit, ClarificationTypeOK, JobStates, Call
<1>4. \A c \in Calls : call[c].at = "idle" BY DEF ClarificationInit
<1>5. Rows
  BY <1>1, <1>2, <1>3 DEF ClarificationTypeOK, Rows, Descended, Asking, Silent, ChainIsCoherent,
     EveryQuestionIsKept, ErasedLeavesNoRecord
<1> QED BY <1>3, <1>4, <1>5 DEF Chained, Targets, ReceiptIsTrue, CallAt

LEMMA ChainedStep == Chained /\ [ClarificationNext]_clarificationVars => Chained'
<1> SUFFICES ASSUME Chained, [ClarificationNext]_clarificationVars PROVE Chained' OBVIOUS
<1>1. Rows /\ now \in Nat /\ replays \in Nat
      /\ \A c \in Calls : call[c] \in Call
  BY DEF Chained, ClarificationTypeOK
<1>2. \A d \in Calls : CallAt(d, "receipt") =>
        /\ call[d].target \in Jobs /\ call[d].target[2] < MaxChain
        /\ call[d].text \in Texts \cup {NoText}
        /\ Kept(call[d].target, call[d].text)
  BY <1>1 DEF Chained, Targets, ReceiptIsTrue, Kept, CallAt, Call
<1>3. ASSUME NEW j \in Jobs, Accept(j) \/ Settle(j) \/ EraseEvidence(j) PROVE Chained'
  <2>1. Rows' BY <1>1, <1>3, AcceptRows, SettleRows, EraseRows
  <2>2. call' = call /\ now' \in Nat /\ UNCHANGED replays
    BY <1>1, <1>3 DEF Accept, Settle, EraseEvidence
  <2>3. ASSUME NEW d \in Calls, CallAt(d, "receipt") PROVE Kept(call[d].target, call[d].text)'
    <3> DEFINE i == call[d].target
               t == call[d].text
    <3>1. i \in Jobs /\ i[2] < MaxChain /\ t \in Texts \cup {NoText} /\ Kept(i, t)
      BY <1>2, <2>3
    <3>2. i' = i /\ t' = t BY <2>2
    <3> HIDE DEF i, t
    <3>3. \A x \in Jobs, y \in Texts \cup {NoText} :
            x[2] < MaxChain /\ Kept(x, y) =>
              \/ record'[x].state \in {"answered", "resolved"} /\ record'[x].text = y
              \/ "erased" \in {job'[x], job'[FollowUp(x)]}
      BY <1>1, <1>3, KeptByRows DEF Kept, FollowUp
    <3> QED BY <3>1, <3>2, <3>3 DEF Kept, FollowUp, i, t
  <2> QED BY <2>1, <2>2, <2>3, JobStep
<1>4. ASSUME NEW c \in Calls, Begin(c) PROVE Chained'
  <2>1. PICK t \in Texts : call' = [call EXCEPT ![c].at = "ready", ![c].text = t]
    BY <1>4 DEF Begin
  <2>2. UNCHANGED <<job, record, now, replays>> BY <1>4 DEF Begin
  <2> DEFINE r == [call[c] EXCEPT !.at = "ready", !.text = t]
  <2>3. r \in Call /\ r.at = "ready" BY <1>1 DEF Call
  <2>4. call' = [call EXCEPT ![c] = r] BY <1>1, <2>1 DEF Chained, ClarificationTypeOK
  <2> HIDE DEF r
  <2>5. /\ call' \in [Calls -> Call] /\ call'[c].at = "ready"
        /\ \A d \in Calls : d # c => call'[d] = call[d]
    BY <2>3, <2>4 DEF Chained, ClarificationTypeOK
  <2>6. ClarificationTypeOK' BY <2>2, <2>5 DEF Chained, ClarificationTypeOK
  <2>7. Rows' BY <1>1, <2>2, RowsStay
  <2>8. Targets' BY <2>5 DEF Chained, Targets
  <2>9. ReceiptIsTrue' BY <2>2, <2>5 DEF Chained, ReceiptIsTrue, CallAt, FollowUp
  <2> QED BY <2>6, <2>7, <2>8, <2>9 DEF Chained
<1>5. ASSUME NEW c \in Calls, Choose(c) PROVE Chained'
  <2>1. UNCHANGED <<job, record, now, replays>> BY <1>5, ChooseCases
  <2>2. PICK j \in Jobs \cup {NoJob}, place \in {"chosen", "receipt", "nothing"} :
           /\ Move(c, place, j)
           /\ place # "nothing" => j \in Jobs /\ j[2] < MaxChain
           /\ place = "receipt" => record[j].state \in {"answered", "resolved"}
                                   /\ record[j].text = call[c].text
    BY <1>5, ChooseCases
  <2>3. /\ call'[c].text = call[c].text
        /\ \A d \in Calls : d # c => call'[d] = call[d]
    BY <2>2, Moved DEF Chained
  <2>4. place = "receipt" => Kept(j, call[c].text)'
    BY <2>1, <2>2, <2>3 DEF Kept, FollowUp
  <2>5. \A d \in Calls : d # c /\ CallAt(d, "receipt") => Kept(call[d].target, call[d].text)'
    BY <1>2, <2>1, <2>3 DEF Kept, FollowUp
  <2>6. Rows' BY <1>1, <2>1, RowsStay
  <2>7. now' \in Nat /\ replays' \in Nat
    BY <1>1, <2>1
  <2>8. place \in {"ready", "chosen", "receipt", "nothing", "error"}
        /\ (place \in {"chosen", "receipt", "error"} => j \in Jobs /\ j[2] < MaxChain)
    BY <2>2
  <2> QED BY <2>2, <2>4, <2>5, <2>6, <2>7, <2>8, CallStep
<1>6. ASSUME NEW c \in Calls, Answer(c) PROVE Chained'
  <2> DEFINE t == call[c].text
  <2>1. PICK j \in Jobs, place \in {"receipt", "error"} :
           /\ j[2] < MaxChain
           /\ Move(c, place, j) /\ replays' = replays
           /\ \/ Stored(j, t) /\ now' \in Nat
              \/ /\ UNCHANGED <<job, record, now>>
                 /\ place = "receipt" => record[j].state \in {"answered", "resolved"}
                                         /\ record[j].text = t
    BY <1>6, AnswerCases
  <2>2. t \in Texts \cup {NoText} BY <1>1 DEF Call
  <2>3. call'[c].text = t /\ \A d \in Calls : d # c => call'[d] = call[d]
    BY <2>1, Moved DEF Chained
  <2> HIDE DEF t
  <2>4. Rows' /\ now' \in Nat /\ replays' \in Nat
    BY <1>1, <2>1, <2>2, AnswerRows, RowsStay
  <2>5. \A x \in Jobs, y \in Texts \cup {NoText} :
          x[2] < MaxChain /\ Kept(x, y) =>
            \/ record'[x].state \in {"answered", "resolved"} /\ record'[x].text = y
            \/ "erased" \in {job'[x], job'[FollowUp(x)]}
    BY <1>1, <2>1, <2>2, KeptByRows DEF Kept, FollowUp
  <2>6. place = "receipt" => record'[j].state \in {"answered", "resolved"} /\ record'[j].text = t
    <3>1. CASE Stored(j, t) BY <1>1, <2>2, <3>1, StoredRecord
    <3>2. CASE ~Stored(j, t) BY <2>1, <3>2
    <3> QED BY <3>1, <3>2
  <2>7. place = "receipt" => Kept(j, call[c].text)'
    BY <2>3, <2>6 DEF Kept, FollowUp
  <2>8. \A d \in Calls : d # c /\ CallAt(d, "receipt") => Kept(call[d].target, call[d].text)'
    BY <1>2, <2>3, <2>5 DEF Kept, FollowUp
  <2>9. place \in {"ready", "chosen", "receipt", "nothing", "error"} /\ j \in Jobs \cup {NoJob}
    BY <2>1
  <2> QED BY <2>1, <2>4, <2>7, <2>8, <2>9, CallStep
<1>7. ASSUME NEW c \in Calls, LoseReply(c) PROVE Chained'
  <2>1. /\ UNCHANGED <<job, record, now>> /\ replays' = replays + 1
        /\ Move(c, "ready", NoJob)
    BY <1>7 DEF LoseReply
  <2>2. \A d \in Calls : d # c => call'[d] = call[d]
    BY <2>1, Moved DEF Chained
  <2>3. \A d \in Calls : d # c /\ CallAt(d, "receipt") => Kept(call[d].target, call[d].text)'
    BY <1>2, <2>1, <2>2 DEF Kept, FollowUp
  <2>4. Rows' BY <1>1, <2>1, RowsStay
  <2>5. now' \in Nat /\ replays' \in Nat
    BY <1>1, <2>1
  <2> QED BY <2>1, <2>3, <2>4, <2>5, CallStep
<1>8. CASE UNCHANGED clarificationVars
  <2>1. UNCHANGED <<job, record, call, now, replays>> BY <1>8 DEF clarificationVars
  <2>2. Rows' BY <1>1, <2>1, RowsStay
  <2>3. \A d \in Calls : CallAt(d, "receipt") => Kept(call[d].target, call[d].text)'
    BY <1>2, <2>1 DEF Kept, FollowUp
  <2> QED BY <1>1, <2>1, <2>2, <2>3, JobStep
<1> QED BY <1>3, <1>4, <1>5, <1>6, <1>7, <1>8 DEF ClarificationNext

(* A question and the answer to it belong to one chain whatever is asked,  *)
(* answered, replayed, erased or interrupted in between.                   *)
THEOREM AlwaysChained == ClarificationSpec => []Chained
<1>1. ClarificationInit => Chained BY ChainedInit
<1>2. Chained /\ [ClarificationNext]_clarificationVars => Chained' BY ChainedStep
<1> QED BY <1>1, <1>2, PTL DEF ClarificationSpec

-----------------------------------------------------------------------------
(* Every variable keeps its type: no transaction writes a row the schema    *)
(* of the clarification table does not have.                                *)
THEOREM ClarificationTyping == ClarificationSpec => []ClarificationTypeOK
<1>1. Chained => ClarificationTypeOK BY DEF Chained
<1> QED BY <1>1, AlwaysChained, PTL

(* The record of a question, the job that asked it and the follow-up job    *)
(* that works on its answer are always in step with each other.             *)
THEOREM Coherent == ClarificationSpec => []ChainIsCoherent
<1>1. Chained => ChainIsCoherent BY DEF Chained, Rows
<1> QED BY <1>1, AlwaysChained, PTL

(* A job that asked the person keeps its question until the Evidence of the *)
(* answer is erased.                                                        *)
THEOREM QuestionsAreKept == ClarificationSpec => []EveryQuestionIsKept
<1>1. Chained => EveryQuestionIsKept BY DEF Chained, Rows
<1> QED BY <1>1, AlwaysChained, PTL

(* true_delete leaves neither the question of the erased Evidence nor the   *)
(* one it answered.                                                         *)
THEOREM ErasureIsComplete == ClarificationSpec => []ErasedLeavesNoRecord
<1>1. Chained => ErasedLeavesNoRecord BY DEF Chained, Rows
<1> QED BY <1>1, AlwaysChained, PTL

(* The two together: a question goes with its Evidence, and only with it.   *)
THEOREM KeptAndErased == ClarificationSpec => []KeptUntilErased
<1>1. EveryQuestionIsKept /\ ErasedLeavesNoRecord => KeptUntilErased BY DEF KeptUntilErased
<1> QED BY <1>1, QuestionsAreKept, ErasureIsComplete, PTL

(* A receipt of ClarificationService.answer stays true: the question it     *)
(* names is answered in the host's own words, or has been erased.           *)
THEOREM ReceiptsAreTrue == ClarificationSpec => []ReceiptIsTrue
<1>1. Chained => ReceiptIsTrue BY DEF Chained
<1> QED BY <1>1, AlwaysChained, PTL

(* No step replaces the words of an answer: of two hosts that answer the    *)
(* same question differently, the second is refused.                        *)
THEOREM AnswersStand == ClarificationSpec => AnswerStands
<1>1. ASSUME Chained, [ClarificationNext]_clarificationVars
      PROVE  [\A j \in Jobs : record[j].state \in {"answered", "resolved"} =>
                record'[j].text = record[j].text \/ record'[j].state = "none"]_clarificationVars
  <2> SUFFICES ASSUME ClarificationNext,
                      NEW j \in Jobs, record[j].state \in {"answered", "resolved"}
               PROVE  record'[j].text = record[j].text \/ record'[j].state = "none"
    BY <1>1
  <2>1. Rows /\ now \in Nat BY <1>1 DEF Chained, ClarificationTypeOK
  <2>2. ASSUME NEW i \in Jobs, Settle(i) PROVE record'[j].text = record[j].text
    BY <2>1, <2>2, SettledRecords DEF Settle
  <2>3. ASSUME NEW i \in Jobs, EraseEvidence(i)
        PROVE  record'[j].text = record[j].text \/ record'[j].state = "none"
    BY <2>3 DEF EraseEvidence, NoRecord
  <2>4. ASSUME NEW c \in Calls, Answer(c) PROVE record'[j].text = record[j].text
    <3>1. call[c].text \in Texts \cup {NoText} BY <1>1 DEF Chained, ClarificationTypeOK, Call
    <3>2. CASE \E i \in Jobs : Stored(i, call[c].text)
      <4>1. PICK i \in Jobs : Stored(i, call[c].text) BY <3>2
      <4>2. i # j BY <4>1 DEF Stored
      <4> QED BY <2>1, <3>1, <4>1, <4>2, StoredRecord
    <3>3. CASE record' = record BY <3>3
    <3> QED BY <1>1, <2>4, <3>2, <3>3, AnswerCases
  <2>5. CASE record' = record BY <2>5
  <2> QED BY <2>2, <2>3, <2>4, <2>5 DEF ClarificationNext, Accept, Begin, Choose, LoseReply
<1>2. Chained /\ [ClarificationNext]_clarificationVars =>
        [\A j \in Jobs : record[j].state \in {"answered", "resolved"} =>
                record'[j].text = record[j].text \/ record'[j].state = "none"]_clarificationVars
  BY <1>1
<1> QED BY <1>2, AlwaysChained, PTL DEF ClarificationSpec, AnswerStands

-----------------------------------------------------------------------------
(***************************************************************************)
(* ObservedEvidence.  The inductive invariant.  What keeps the owner's     *)
(* word is that the row never goes back: what was forgotten is not newer   *)
(* than the version of the row, and a source without Evidence asks for a   *)
(* newer version than the row's, since a withdrawal must cover it.         *)
(***************************************************************************)
NeverBack ==
  /\ forgotten <= row.version
  /\ ~row.known => row = NoRow
  /\ row.known /\ row.evidence = NoEvidence => row.version <= row.withdrawn

ObservedInv == ObservedTypeOK /\ OnlyTheCurrentVersion /\ NeverBack /\ OwnersWordStands

-----------------------------------------------------------------------------
(* An upload, by what it does to the Evidence. *)

(* The text of the source is still this one. *)
Same(x) == row.evidence # NoEvidence /\ x = row.payload

(* What an upload that is not the last decision may say. *)
AllowedBy(v, p) == IF row.evidence # NoEvidence /\ ~Decides(v) THEN Allowed ELSE p

Uploaded(v, x, id) ==
  [row EXCEPT !.known = TRUE, !.evidence = id, !.version = v, !.payload = x,
              !.permission = IF Decides(v) THEN v ELSE @]

LEMMA TypesOf ==
  ASSUME ObservedTypeOK
  PROVE  /\ row.known \in BOOLEAN /\ row.evidence \in Ids \cup {NoEvidence}
         /\ row.version \in 0 .. MaxTime /\ row.permission \in 0 .. MaxTime
         /\ row.withdrawn \in 0 .. MaxTime /\ row.payload \in Payloads \cup {NoPayload}
         /\ row = [known |-> row.known, evidence |-> row.evidence, version |-> row.version,
                   payload |-> row.payload, permission |-> row.permission,
                   withdrawn |-> row.withdrawn]
BY DEF ObservedTypeOK, ObservedRow

LEMMA UploadedRow ==
  ASSUME ObservedTypeOK, NEW v \in Times, NEW x \in Payloads, NEW id \in Ids
  PROVE  /\ Uploaded(v, x, id) \in ObservedRow
         /\ Uploaded(v, x, id).known /\ Uploaded(v, x, id).evidence = id
         /\ Uploaded(v, x, id).version = v /\ Uploaded(v, x, id).payload = x
         /\ Uploaded(v, x, id).permission = IF Decides(v) THEN v ELSE row.permission
<1> DEFINE q == IF Decides(v) THEN v ELSE row.permission
<1>1. q \in 0 .. MaxTime
  BY TypesOf, MaxTimeAssumption DEF Times
<1>2. Uploaded(v, x, id) = [row EXCEPT !.known = TRUE, !.evidence = id, !.version = v,
                                       !.payload = x, !.permission = q]
  BY DEF Uploaded, ObservedTypeOK, ObservedRow
<1> HIDE DEF q
<1>3. v \in 0 .. MaxTime
  BY MaxTimeAssumption DEF Times
<1>4. Uploaded(v, x, id) = [known |-> TRUE, evidence |-> id, version |-> v, payload |-> x,
                            permission |-> q, withdrawn |-> row.withdrawn]
  BY <1>2 DEF ObservedTypeOK, ObservedRow
<1>5. Uploaded(v, x, id) \in ObservedRow
  BY <1>1, <1>3, <1>4, TypesOf DEF ObservedRow
<1> QED
  BY <1>4, <1>5 DEF q

(* The same text: the Evidence stays, with the decision if it is the last. *)
LEMMA Keeps ==
  ASSUME ObservedTypeOK, NEW v \in Times, NEW x \in Payloads, NEW p \in Permissions,
         Upsert(v, x, p), Same(x)
  PROVE  /\ row.evidence \in Ids
         /\ Decides(v) => Live(row.evidence) /\ MayDecide(v, p)
         /\ row' = Uploaded(v, x, row.evidence)
         /\ \A e \in Ids : e # row.evidence => evidence'[e] = evidence[e]
         /\ evidence'[row.evidence].state = evidence[row.evidence].state
         /\ evidence'[row.evidence].allow = AllowedBy(v, p)
         /\ evidence' \in [Ids -> Evidence]
<1> USE DEF Same
<1>1. row.evidence \in Ids
  BY TypesOf
<1>2. /\ Decides(v) => Live(row.evidence) /\ MayDecide(v, p)
      /\ row' = Uploaded(v, x, row.evidence)
      /\ evidence' = [e \in Ids |->
           IF e = row.evidence
           THEN [evidence[e] EXCEPT !.allow = IF Decides(v) THEN p ELSE @]
           ELSE IF e = row.evidence THEN Erased ELSE evidence[e]]
  BY DEF Upsert, Uploaded
<1> DEFINE a == AllowedBy(v, p)
<1>3. a \in Permissions
  BY <1>1 DEF AllowedBy, Allowed, ObservedTypeOK, Evidence
<1>4. /\ evidence[row.evidence] \in Evidence
      /\ [evidence[row.evidence] EXCEPT !.allow = IF Decides(v) THEN p ELSE @]
         = [state |-> evidence[row.evidence].state, allow |-> a]
  BY <1>1 DEF AllowedBy, Allowed, ObservedTypeOK, Evidence
<1> HIDE DEF a
<1>5. evidence'[row.evidence] = [state |-> evidence[row.evidence].state, allow |-> a]
  BY <1>1, <1>2, <1>4
<1>6. \A e \in Ids : e # row.evidence => evidence'[e] = evidence[e]
  BY <1>2
<1>7. evidence'[row.evidence] \in Evidence
  BY <1>3, <1>4, <1>5 DEF Evidence
<1>8. \A e \in Ids : evidence'[e] \in Evidence
  BY <1>6, <1>7 DEF ObservedTypeOK
<1>9. evidence' \in [Ids -> Evidence]
  BY <1>2, <1>8
<1> QED
  BY <1>1, <1>2, <1>5, <1>6, <1>9 DEF a

(* Another text: the old Evidence is erased and a fresh one put in.        *)
LEMMA Replaces ==
  ASSUME ObservedTypeOK, NEW v \in Times, NEW x \in Payloads, NEW p \in Permissions,
         Upsert(v, x, p), ~Same(x)
  PROVE  /\ <<v, x>> \in Ids
         /\ row' = Uploaded(v, x, <<v, x>>)
         /\ evidence'[<<v, x>>] = [state |-> "live", allow |-> AllowedBy(v, p)]
         /\ \A e \in Ids : e # <<v, x>> =>
              evidence'[e] = IF row.evidence # NoEvidence /\ e = row.evidence
                             THEN Erased ELSE evidence[e]
         /\ evidence' \in [Ids -> Evidence]
<1> USE DEF Same
<1> DEFINE id == <<v, x>>
           a == AllowedBy(v, p)
<1>1. id \in Ids
  BY DEF Ids
<1>2. a \in Permissions
  BY TypesOf DEF AllowedBy, Allowed, ObservedTypeOK, Evidence
<1>3. /\ row' = Uploaded(v, x, id)
      /\ evidence' = [e \in Ids |->
           IF e = id THEN [state |-> "live", allow |-> a]
           ELSE IF row.evidence # NoEvidence /\ e = row.evidence THEN Erased ELSE evidence[e]]
  BY DEF Upsert, Uploaded, AllowedBy
<1> HIDE DEF id, a
<1>4. evidence'[id] = [state |-> "live", allow |-> a]
  BY <1>1, <1>3
<1>5. \A e \in Ids : e # id =>
        evidence'[e] = IF row.evidence # NoEvidence /\ e = row.evidence
                       THEN Erased ELSE evidence[e]
  BY <1>3
<1>6. [state |-> "live", allow |-> a] \in Evidence /\ Erased \in Evidence
  BY <1>2 DEF Evidence, Erased, Permissions
<1>7. \A e \in Ids : evidence'[e] \in Evidence
  BY <1>4, <1>5, <1>6 DEF ObservedTypeOK
<1>8. evidence' \in [Ids -> Evidence]
  BY <1>3, <1>7
<1> QED
  BY <1>1, <1>3, <1>4, <1>5, <1>8 DEF id, a

-----------------------------------------------------------------------------
(* The other steps. *)

LEMMA Withdraws ==
  ASSUME ObservedTypeOK, NEW w \in Times, Retract(w)
  PROVE  /\ w >= row.version
         /\ row' \in ObservedRow /\ row'.known /\ row'.evidence = NoEvidence
         /\ row'.withdrawn = w
         /\ row.known => row'.version = row.version
         /\ ~row.known => row'.version = w
         /\ \A e \in Ids : evidence'[e] = IF e = row.evidence THEN Erased ELSE evidence[e]
         /\ evidence' \in [Ids -> Evidence]
         /\ owner' = FALSE /\ forgotten' = forgotten
<1>1. w \in 0 .. MaxTime
  BY MaxTimeAssumption DEF Times
<1>2. /\ w >= row.version /\ row' = Withdrawn(w)
      /\ evidence' = [e \in Ids |-> IF e = row.evidence THEN Erased ELSE evidence[e]]
      /\ owner' = FALSE /\ forgotten' = forgotten
  BY DEF Retract, Host
<1>3. Erased \in Evidence
  BY DEF Erased, Evidence, Permissions
<1>4. \A e \in Ids : evidence'[e] = IF e = row.evidence THEN Erased ELSE evidence[e]
  BY <1>2
<1>5. evidence' \in [Ids -> Evidence]
  BY <1>2, <1>3, <1>4 DEF ObservedTypeOK
<1>7. CASE row.known
  <2>1. row' = [known |-> row.known, evidence |-> NoEvidence, version |-> row.version,
                payload |-> NoPayload, permission |-> row.permission, withdrawn |-> w]
    BY <1>2, <1>7 DEF Withdrawn, ObservedTypeOK, ObservedRow
  <2>2. row' \in ObservedRow
    BY <1>1, <2>1, TypesOf DEF ObservedRow
  <2> QED
    BY <1>2, <1>4, <1>5, <1>7, <2>1, <2>2
<1>8. CASE ~row.known
  <2>1. row' = [known |-> TRUE, evidence |-> NoEvidence, version |-> w,
                payload |-> NoPayload, permission |-> w, withdrawn |-> w]
    BY <1>2, <1>8 DEF Withdrawn, NoRow
  <2>2. row' \in ObservedRow
    BY <1>1, <2>1 DEF ObservedRow
  <2> QED
    BY <1>2, <1>4, <1>5, <1>8, <2>1, <2>2
<1> QED
  BY <1>7, <1>8

(* The owner's commands and the host's permissions change one Evidence and *)
(* bring nothing to life.                                                  *)
Quiet(e) ==
  /\ e \in Ids
  /\ \A d \in Ids : d # e => evidence'[d] = evidence[d]
  /\ evidence[e].state # "none" /\ evidence'[e].state # "none"
  /\ evidence'[e].state = "live" => evidence[e].state = "live"
  /\ evidence'[e].state = "soft" => evidence[e].state \in {"live", "soft"}
  /\ evidence' \in [Ids -> Evidence]

LEMMA Permits ==
  ASSUME ObservedTypeOK, NEW v \in Times, NEW p \in Permissions, Permit(v, p)
  PROVE  /\ Quiet(row.evidence)
         /\ evidence'[row.evidence].allow = p
         /\ Decides(v) /\ MayDecide(v, p)
         /\ row' \in ObservedRow /\ row' = [row EXCEPT !.permission = v]
<1>1. row.evidence \in Ids /\ evidence[row.evidence].state = "live"
  BY TypesOf DEF Permit, Live
<1>2. /\ Decides(v) /\ MayDecide(v, p)
      /\ evidence' = [evidence EXCEPT ![row.evidence].allow = p]
      /\ row' = [row EXCEPT !.permission = v]
  BY DEF Permit
<1>3. evidence'[row.evidence] = [state |-> "live", allow |-> p]
  BY <1>1, <1>2 DEF ObservedTypeOK, Evidence
<1>4. \A d \in Ids : d # row.evidence => evidence'[d] = evidence[d]
  BY <1>2 DEF ObservedTypeOK
<1>5. [state |-> "live", allow |-> p] \in Evidence
  BY DEF Evidence
<1>6. evidence' \in [Ids -> Evidence]
  BY <1>2, <1>3, <1>4, <1>5 DEF ObservedTypeOK
<1>7. v \in 0 .. MaxTime
  BY MaxTimeAssumption DEF Times
<1>8. row' \in ObservedRow
  BY <1>2, <1>7 DEF ObservedTypeOK, ObservedRow
<1> QED
  BY <1>1, <1>2, <1>3, <1>4, <1>6, <1>8 DEF Quiet

LEMMA Commands ==
  ASSUME ObservedTypeOK, NEW e \in Ids, NEW p \in Permissions,
         Forget(e) \/ EraseObserved(e) \/ Allow(e, p)
  PROVE  /\ Quiet(e)
         /\ row' = row /\ owner' = TRUE
         /\ forgotten' \in {forgotten, row.version}
         /\ evidence'[row.evidence].state = "live" /\ e = row.evidence => forgotten' = forgotten
<1>1. evidence[e] \in Evidence /\ Erased \in Evidence
  BY DEF ObservedTypeOK, Erased, Evidence, Permissions
<1>2. CASE Forget(e)
  <2>1. evidence'[e] = [state |-> "soft", allow |-> evidence[e].allow]
    BY <1>2, <1>1 DEF Forget, ObservedTypeOK, Evidence
  <2>2. evidence'[e] \in Evidence
    BY <1>1, <2>1 DEF Evidence
  <2>3. \A d \in Ids : d # e => evidence'[d] = evidence[d]
    BY <1>2 DEF Forget, ObservedTypeOK
  <2>4. evidence' \in [Ids -> Evidence]
    BY <1>2, <2>2, <2>3 DEF Forget, ObservedTypeOK
  <2>5. evidence[e].state = "live"
    BY <1>2 DEF Forget, Live
  <2> QED
    BY <1>2, <2>1, <2>3, <2>4, <2>5 DEF Forget, Forgotten, Quiet
<1>3. CASE EraseObserved(e)
  <2>1. evidence'[e] = Erased
    BY <1>3 DEF EraseObserved, ObservedTypeOK
  <2>2. \A d \in Ids : d # e => evidence'[d] = evidence[d]
    BY <1>3 DEF EraseObserved, ObservedTypeOK
  <2>3. evidence' \in [Ids -> Evidence]
    BY <1>1, <1>3, <2>1, <2>2 DEF EraseObserved, ObservedTypeOK
  <2>4. evidence[e].state # "none"
    BY <1>3 DEF EraseObserved
  <2> QED
    BY <1>3, <2>1, <2>2, <2>3, <2>4 DEF EraseObserved, Forgotten, Quiet, Erased
<1>4. CASE Allow(e, p)
  <2>1. evidence'[e] = [state |-> evidence[e].state, allow |-> p]
    BY <1>1, <1>4 DEF Allow, ObservedTypeOK, Evidence
  <2>2. evidence'[e] \in Evidence
    BY <1>1, <2>1 DEF Evidence
  <2>3. \A d \in Ids : d # e => evidence'[d] = evidence[d]
    BY <1>4 DEF Allow, ObservedTypeOK
  <2>4. evidence' \in [Ids -> Evidence]
    BY <1>4, <2>2, <2>3 DEF Allow, ObservedTypeOK
  <2>5. evidence[e].state # "none" /\ evidence[e].state \in {"none", "live", "soft", "erased"}
    BY <1>1, <1>4 DEF Allow, Evidence
  <2>6. Quiet(e)
    BY <2>1, <2>3, <2>4, <2>5 DEF Quiet
  <2> QED
    BY <1>4, <2>6 DEF Allow
<1> QED
  BY <1>2, <1>3, <1>4

-----------------------------------------------------------------------------
(* The invariant holds. *)

LEMMA Initially == ASSUME ObservedInit PROVE ObservedInv
<1>1. NoRow \in ObservedRow
  BY MaxTimeAssumption DEF NoRow, ObservedRow
<1>2. [state |-> "none", allow |-> {}] \in Evidence
  BY DEF Evidence, Permissions
<1>3. ObservedTypeOK
  <2> DEFINE nothing == [state |-> "none", allow |-> {}]
  <2>1. nothing \in Evidence /\ evidence = [e \in Ids |-> nothing]
    BY <1>2 DEF ObservedInit
  <2> HIDE DEF nothing
  <2>2. evidence \in [Ids -> Evidence]
    BY <2>1
  <2>3. row \in ObservedRow /\ owner \in BOOLEAN
    BY <1>1 DEF ObservedInit
  <2>4. 0 \in 0 .. MaxTime
    BY MaxTimeAssumption
  <2>5. forgotten = 0
    BY DEF ObservedInit
  <2>6. forgotten \in 0 .. MaxTime
    BY <2>4, <2>5
  <2> QED
    BY <2>2, <2>3, <2>6 DEF ObservedTypeOK
<1>4. OnlyTheCurrentVersion /\ OwnersWordStands
  BY DEF ObservedInit, NoRow, OnlyTheCurrentVersion, OwnersWordStands, Live
<1>5. NeverBack
  BY DEF ObservedInit, NoRow, NeverBack
<1> QED
  BY <1>3, <1>4, <1>5 DEF ObservedInv

(* A step that changes one Evidence quietly, and no version or text. *)
LEMMA QuietKeeps ==
  ASSUME ObservedInv, NEW e \in Ids, Quiet(e),
         row'.evidence = row.evidence, row'.payload = row.payload, row'.version = row.version
  PROVE  OnlyTheCurrentVersion'
<1>1. \A d \in Ids : evidence'[d].state \in {"live", "soft"} => evidence[d].state \in {"live", "soft"}
  BY DEF Quiet
<1> QED
  BY <1>1 DEF ObservedInv, OnlyTheCurrentVersion

LEMMA UpsertStep ==
  ASSUME ObservedInv, NEW v \in Times, NEW x \in Payloads, NEW p \in Permissions, Upsert(v, x, p)
  PROVE  ObservedInv'
<1>1. /\ ObservedTypeOK /\ OnlyTheCurrentVersion /\ NeverBack /\ OwnersWordStands
  BY DEF ObservedInv
<1>2. /\ Acceptable(v, x) /\ owner' = FALSE /\ forgotten' = forgotten
  BY DEF Upsert, Host
<1>3. /\ v \in 1 .. MaxTime /\ v \in Int /\ row.version \in Int /\ forgotten \in Int
      /\ row.withdrawn \in Int
  BY <1>1, TypesOf, MaxTimeAssumption DEF Times, ObservedTypeOK
<1>4. row.version <= v
  <2>1. CASE row.known
    BY <1>2, <1>3, <2>1 DEF Acceptable
  <2>2. CASE ~row.known
    BY <1>1, <1>3, <2>2 DEF NeverBack, NoRow
  <2> QED
    BY <2>1, <2>2
<1>5. ~Same(x) => row.version < v
  <2> SUFFICES ASSUME ~Same(x) PROVE row.version < v
    OBVIOUS
  <2>1. CASE ~row.known
    BY <1>1, <1>3, <2>1 DEF NeverBack, NoRow
  <2>2. CASE row.known /\ row.evidence = NoEvidence
    BY <1>1, <1>2, <1>3, <2>2 DEF NeverBack, Acceptable
  <2>3. CASE row.known /\ row.evidence # NoEvidence
    <3>1. x # row.payload
      BY <2>3 DEF Same
    <3> QED
      BY <1>2, <1>3, <1>4, <2>3, <3>1 DEF Acceptable
  <2> QED
    BY <2>1, <2>2, <2>3
<1>6. CASE Same(x)
  <2> DEFINE id == row.evidence
  <2>1. /\ id \in Ids
        /\ Decides(v) => Live(id)
        /\ row' = Uploaded(v, x, id)
        /\ \A e \in Ids : e # id => evidence'[e] = evidence[e]
        /\ evidence'[id].state = evidence[id].state
        /\ evidence' \in [Ids -> Evidence]
    BY <1>1, <1>6, Keeps
  <2>2. /\ row' \in ObservedRow /\ row'.known /\ row'.evidence = id
        /\ row'.version = v /\ row'.payload = x
    BY <1>1, <2>1, UploadedRow
  <2>3. ObservedTypeOK'
    BY <1>1, <1>2, <2>1, <2>2 DEF ObservedTypeOK
  <2>4. OnlyTheCurrentVersion'
    <3>1. \A e \in Ids : evidence'[e].state \in {"live", "soft"} => e = id
      BY <1>1, <2>1 DEF OnlyTheCurrentVersion
    <3>2. id[2] = x /\ id[1] <= row.version
      BY <1>1, <1>6 DEF OnlyTheCurrentVersion, Same
    <3>3. id[1] \in Int
      BY <2>1 DEF Ids, Times
    <3>4. id[1] <= v
      BY <1>3, <1>4, <3>2, <3>3
    <3> QED
      BY <2>2, <3>1, <3>2, <3>4 DEF OnlyTheCurrentVersion
  <2>5. NeverBack'
    BY <1>1, <1>2, <1>3, <1>4, <2>1, <2>2, NoEvidenceAssumption DEF NeverBack
  <2>6. OwnersWordStands'
    <3> SUFFICES ASSUME evidence[id].state = "live" PROVE v > forgotten
      BY <1>2, <2>1, <2>2 DEF OwnersWordStands, Live
    <3>1. row.version > forgotten
      BY <1>1, <1>6 DEF OwnersWordStands, Live, Same
    <3> QED
      BY <1>3, <1>4, <3>1
  <2> QED
    BY <2>3, <2>4, <2>5, <2>6 DEF ObservedInv
<1>7. CASE ~Same(x)
  <2> DEFINE id == <<v, x>>
  <2>1. /\ id \in Ids
        /\ row' = Uploaded(v, x, id)
        /\ \A e \in Ids : e # id =>
             evidence'[e] = IF row.evidence # NoEvidence /\ e = row.evidence
                            THEN Erased ELSE evidence[e]
        /\ evidence' \in [Ids -> Evidence]
    BY <1>1, <1>7, Replaces
  <2>2. /\ row' \in ObservedRow /\ row'.known /\ row'.evidence = id
        /\ row'.version = v /\ row'.payload = x
    BY <1>1, <2>1, UploadedRow
  <2>3. ObservedTypeOK'
    BY <1>1, <1>2, <2>1, <2>2 DEF ObservedTypeOK
  <2>4. OnlyTheCurrentVersion'
    <3>1. id[1] = v /\ id[2] = x
      OBVIOUS
    <3> HIDE DEF id
    <3>2. \A e \in Ids : evidence'[e].state \in {"live", "soft"} => e = id
      <4> SUFFICES ASSUME NEW e \in Ids, e # id PROVE evidence'[e].state \notin {"live", "soft"}
        OBVIOUS
      <4>1. CASE e = row.evidence
        BY <2>1, <4>1, NoEvidenceAssumption DEF Erased
      <4>2. CASE e # row.evidence
        BY <1>1, <2>1, <4>2 DEF OnlyTheCurrentVersion
      <4> QED
        BY <4>1, <4>2
    <3>3. id[1] <= v
      BY <1>3, <3>1
    <3> QED
      BY <2>2, <3>1, <3>2, <3>3 DEF OnlyTheCurrentVersion
  <2> HIDE DEF id
  <2>5. NeverBack'
    BY <1>1, <1>2, <1>3, <1>4, <2>1, <2>2, NoEvidenceAssumption DEF NeverBack
  <2>6. v > forgotten
    BY <1>1, <1>3, <1>5, <1>7 DEF NeverBack
  <2>7. OwnersWordStands'
    BY <1>2, <2>2, <2>6 DEF OwnersWordStands
  <2> QED
    BY <2>3, <2>4, <2>5, <2>7 DEF ObservedInv
<1> QED
  BY <1>6, <1>7

LEMMA PermitStep ==
  ASSUME ObservedInv, NEW v \in Times, NEW p \in Permissions, Permit(v, p)
  PROVE  ObservedInv'
<1>1. /\ ObservedTypeOK /\ OnlyTheCurrentVersion /\ NeverBack /\ OwnersWordStands
  BY DEF ObservedInv
<1>2. Quiet(row.evidence) /\ row' \in ObservedRow /\ row' = [row EXCEPT !.permission = v]
  BY <1>1, Permits
<1>3. owner' = FALSE /\ forgotten' = forgotten
  BY DEF Permit, Host
<1>4. /\ row'.known = row.known /\ row'.evidence = row.evidence /\ row'.version = row.version
      /\ row'.payload = row.payload /\ row'.withdrawn = row.withdrawn
  BY <1>1, <1>2 DEF ObservedTypeOK, ObservedRow
<1>5. ObservedTypeOK'
  BY <1>1, <1>2, <1>3 DEF ObservedTypeOK, Quiet
<1>6. row.evidence \in Ids /\ row.evidence # NoEvidence
  BY <1>2, NoEvidenceAssumption DEF Quiet
<1>7. OnlyTheCurrentVersion'
  BY <1>2, <1>4, <1>6, QuietKeeps
<1>8. row.known
  BY <1>1, <1>6 DEF NeverBack, NoRow
<1>9. NeverBack'
  BY <1>1, <1>3, <1>4, <1>6, <1>8 DEF NeverBack
<1>10. OwnersWordStands'
  BY <1>1, <1>2, <1>3, <1>4, <1>6 DEF OwnersWordStands, Live, Quiet
<1> QED
  BY <1>5, <1>7, <1>9, <1>10 DEF ObservedInv

LEMMA RetractStep ==
  ASSUME ObservedInv, NEW w \in Times, Retract(w)
  PROVE  ObservedInv'
<1>1. /\ ObservedTypeOK /\ OnlyTheCurrentVersion /\ NeverBack
  BY DEF ObservedInv
<1>2. /\ w >= row.version
      /\ row' \in ObservedRow /\ row'.known /\ row'.evidence = NoEvidence /\ row'.withdrawn = w
      /\ row.known => row'.version = row.version
      /\ ~row.known => row'.version = w
      /\ \A e \in Ids : evidence'[e] = IF e = row.evidence THEN Erased ELSE evidence[e]
      /\ evidence' \in [Ids -> Evidence]
      /\ owner' = FALSE /\ forgotten' = forgotten
  BY <1>1, Withdraws
<1>3. w \in Int /\ row.version \in Int /\ forgotten \in Int
  BY <1>1, TypesOf, MaxTimeAssumption DEF Times, ObservedTypeOK
<1>4. ObservedTypeOK'
  BY <1>1, <1>2 DEF ObservedTypeOK
<1>5. OnlyTheCurrentVersion'
  <2>1. \A e \in Ids : evidence'[e].state \notin {"live", "soft"}
    <3> SUFFICES ASSUME NEW e \in Ids PROVE evidence'[e].state \notin {"live", "soft"}
      OBVIOUS
    <3>1. CASE e = row.evidence
      BY <1>2, <3>1 DEF Erased
    <3>2. CASE e # row.evidence
      BY <1>1, <1>2, <3>2 DEF OnlyTheCurrentVersion
    <3> QED
      BY <3>1, <3>2
  <2> QED
    BY <1>2, <2>1 DEF OnlyTheCurrentVersion
<1>6. NeverBack'
  BY <1>1, <1>2, <1>3 DEF NeverBack
<1>7. OwnersWordStands'
  BY <1>2 DEF OwnersWordStands, Live
<1> QED
  BY <1>4, <1>5, <1>6, <1>7 DEF ObservedInv

LEMMA CommandStep ==
  ASSUME ObservedInv, NEW e \in Ids, NEW p \in Permissions,
         Forget(e) \/ EraseObserved(e) \/ Allow(e, p)
  PROVE  ObservedInv'
<1>1. /\ ObservedTypeOK /\ OnlyTheCurrentVersion /\ NeverBack /\ OwnersWordStands
  BY DEF ObservedInv
<1>2. /\ Quiet(e)
      /\ row' = row /\ owner' = TRUE
      /\ forgotten' \in {forgotten, row.version}
      /\ evidence'[row.evidence].state = "live" /\ e = row.evidence => forgotten' = forgotten
  BY <1>1, Commands
<1>3. ObservedTypeOK'
  BY <1>1, <1>2, TypesOf DEF ObservedTypeOK, Quiet
<1>4. OnlyTheCurrentVersion'
  BY <1>2, QuietKeeps
<1>5. row.version \in Int /\ forgotten \in Int
  BY <1>1, TypesOf DEF ObservedTypeOK
<1>6. NeverBack'
  BY <1>1, <1>2, <1>5 DEF NeverBack
<1>7. OwnersWordStands'
  <2>1. e # row.evidence => forgotten' = forgotten
    BY DEF Forget, EraseObserved, Allow, Forgotten
  <2>2. Live(row.evidence)' => Live(row.evidence)
    BY <1>1, <1>2, TypesOf DEF Live, Quiet
  <2>3. Live(row.evidence)' => forgotten' = forgotten
    BY <1>2, <2>1 DEF Live
  <2> QED
    BY <1>1, <1>2, <2>2, <2>3 DEF OwnersWordStands
<1> QED
  BY <1>3, <1>4, <1>6, <1>7 DEF ObservedInv

LEMMA Stutters == ASSUME ObservedInv, UNCHANGED observedVars PROVE ObservedInv'
BY DEF observedVars, ObservedInv, ObservedTypeOK, OnlyTheCurrentVersion, NeverBack,
       OwnersWordStands, Live

LEMMA NextStep == ASSUME ObservedInv, [ObservedNext]_observedVars PROVE ObservedInv'
<1>1. ASSUME NEW e \in Ids, Forget(e) \/ EraseObserved(e) PROVE ObservedInv'
  <2>1. {} \in Permissions
    BY DEF Permissions
  <2> QED
    BY <1>1, <2>1, CommandStep
<1> QED
  BY <1>1, UpsertStep, PermitStep, RetractStep, CommandStep, Stutters DEF ObservedNext

LEMMA ObservedInvariance == ObservedSpec => []ObservedInv
<1>1. ObservedInit => ObservedInv
  BY Initially
<1>2. ObservedInv /\ [ObservedNext]_observedVars => ObservedInv'
  BY NextStep
<1> QED
  BY <1>1, <1>2, PTL DEF ObservedSpec

-----------------------------------------------------------------------------
(* Type correctness: the row, the Evidence and the times are what the      *)
(* schema of observed_source and evidence says.                            *)
THEOREM ObservedTyping == ObservedSpec => []ObservedTypeOK
<1>1. ObservedInv => ObservedTypeOK
  BY DEF ObservedInv
<1> QED
  BY <1>1, ObservedInvariance, PTL

(* Omitted facts disappear: whatever messages arrive in whatever order,    *)
(* nothing is left of a source but the Evidence of its current version     *)
(* (ObservedService.execute replaces and withdraws in one transaction).    *)
THEOREM NothingElseIsLeft == ObservedSpec => []OnlyTheCurrentVersion
<1>1. ObservedInv => OnlyTheCurrentVersion
  BY DEF ObservedInv
<1> QED
  BY <1>1, ObservedInvariance, PTL

(* What the owner forgot or erased by a command is not shown again by any  *)
(* message but one with a newer version.                                   *)
THEOREM ForgottenStays == ObservedSpec => []OwnersWordStands
<1>1. ObservedInv => OwnersWordStands
  BY DEF ObservedInv
<1> QED
  BY <1>1, ObservedInvariance, PTL

(* No message older than the last decision on permissions widens what may  *)
(* be read, and at its time only one that brings another text.             *)
THEOREM NothingOlderWidens == ObservedSpec => OlderNeverWidens
<1> DEFINE Step == row.evidence # NoEvidence /\ row'.evidence # NoEvidence /\ ~owner' =>
                     \/ Allowed' \subseteq Allowed
                     \/ row'.permission > row.permission
                     \/ row'.version = row.permission /\ row'.payload # row.payload
<1>1. ASSUME ObservedInv, [ObservedNext]_observedVars PROVE [Step]_observedVars
  <2> USE <1>1 DEF ObservedInv
  <2>1. ASSUME NEW v \in Times, NEW x \in Payloads, NEW p \in Permissions, Upsert(v, x, p),
               row.evidence # NoEvidence
        PROVE  Step
    <3>0. v \in Int /\ row.permission \in Int
      BY TypesOf DEF Times
    <3>1. CASE ~Decides(v)
      <4>1. AllowedBy(v, p) = Allowed
        BY <2>1, <3>1 DEF AllowedBy
      <4>2. CASE Same(x)
        <5>1. row'.evidence = row.evidence /\ evidence'[row.evidence].allow = Allowed
          BY <2>1, <4>1, <4>2, Keeps, UploadedRow
        <5> QED
          BY <5>1 DEF Allowed
      <4>3. CASE ~Same(x)
        <5>1. /\ <<v, x>> \in Ids /\ row' = Uploaded(v, x, <<v, x>>)
              /\ evidence'[<<v, x>>] = [state |-> "live", allow |-> Allowed]
          BY <2>1, <4>1, <4>3, Replaces
        <5>2. row'.evidence = <<v, x>>
          BY <5>1, UploadedRow
        <5> QED
          BY <5>1, <5>2 DEF Allowed
      <4> QED
        BY <4>2, <4>3
    <3>2. CASE Decides(v) /\ v # row.permission
      <4>1. row'.permission = v
        <5>1. PICK id \in Ids : row' = Uploaded(v, x, id)
          BY <2>1, Keeps, Replaces
        <5> QED
          BY <3>2, <5>1, UploadedRow
      <4> QED
        BY <3>0, <3>2, <4>1 DEF Decides
    <3>3. CASE Decides(v) /\ v = row.permission
      <4>1. CASE Same(x)
        <5>1. /\ row.evidence \in Ids /\ row' = Uploaded(v, x, row.evidence)
              /\ evidence'[row.evidence].allow = p /\ MayDecide(v, p)
          BY <2>1, <3>3, <4>1, Keeps DEF AllowedBy
        <5>2. row'.evidence = row.evidence
          BY <5>1, UploadedRow
        <5> QED
          BY <3>3, <5>1, <5>2 DEF Allowed, MayDecide
      <4>2. CASE ~Same(x)
        <5>1. <<v, x>> \in Ids /\ row' = Uploaded(v, x, <<v, x>>)
          BY <2>1, <4>2, Replaces
        <5>2. row'.version = v /\ row'.payload = x
          BY <5>1, UploadedRow
        <5> QED
          BY <2>1, <3>3, <4>2, <5>2 DEF Same
      <4> QED
        BY <4>1, <4>2
    <3> QED
      BY <3>1, <3>2, <3>3
  <2>2. ASSUME NEW v \in Times, NEW p \in Permissions, Permit(v, p) PROVE Step
    <3>0. v \in Int /\ row.permission \in Int
      BY TypesOf DEF Times
    <3>1. /\ evidence'[row.evidence].allow = p /\ Decides(v) /\ MayDecide(v, p)
          /\ row' = [row EXCEPT !.permission = v]
      BY <2>2, Permits
    <3>2. row'.evidence = row.evidence /\ row'.permission = v
      BY <3>1 DEF ObservedTypeOK, ObservedRow
    <3>3. CASE v = row.permission
      BY <3>1, <3>2, <3>3 DEF Allowed, MayDecide
    <3>4. CASE v # row.permission
      BY <3>0, <3>1, <3>2, <3>4 DEF Decides
    <3> QED
      BY <3>3, <3>4
  <2>3. ASSUME NEW w \in Times, Retract(w) PROVE Step
    BY <2>3, Withdraws
  <2>4. ASSUME NEW e \in Ids, NEW p \in Permissions,
         Forget(e) \/ EraseObserved(e) \/ Allow(e, p)
        PROVE  Step
    BY <2>4 DEF Forget, EraseObserved, Allow
  <2>5. ASSUME NEW e \in Ids, Forget(e) \/ EraseObserved(e) PROVE Step
    BY <2>5 DEF Forget, EraseObserved
  <2>6. ASSUME NEW v \in Times, NEW x \in Payloads, NEW p \in Permissions, Upsert(v, x, p)
        PROVE  Step
    BY <2>1, <2>6
  <2> HIDE DEF Step
  <2>7. CASE ObservedNext
    BY <2>2, <2>3, <2>4, <2>5, <2>6, <2>7 DEF ObservedNext
  <2>8. CASE UNCHANGED observedVars
    BY <2>8
  <2> QED
    BY <1>1, <2>7, <2>8
<1>2. ObservedInv /\ [ObservedNext]_observedVars => [Step]_observedVars
  BY <1>1
<1> QED
  BY <1>2, ObservedInvariance, PTL DEF ObservedSpec, OlderNeverWidens

-----------------------------------------------------------------------------

(***************************************************************************)
(* TrustCommand.  The inductive invariant.                                 *)
(*   Receipts: what was answered is what is stored, and what is stored     *)
(*     says what happened.                                                 *)
(*   Line: a command that took effect left the revision it found behind.   *)
(*   Shown: a request whose revision is still the current one shows the    *)
(*     item as it is, because no change leaves the revision alone.         *)
(*   Traces of the bytes: how far a host has come in the cleanup bounds    *)
(*     what can be left, whatever the other hosts do meanwhile.            *)
(***************************************************************************)
Took(c) == command[c] # NoReceipt /\ command[c].result = "applied"

Receipt(c) ==
  /\ command[c] = NoReceipt => told[c] = {} /\ effects[c] = 0 /\ status[c] = "none" /\ bytes[c] = "none"
  /\ command[c] # NoReceipt => /\ told[c] \subseteq {command[c]}
                               /\ effects[c] = IF command[c].result = "applied" THEN 1 ELSE 0

Receipts == \A c \in CommandIds : Receipt(c)

Line ==
  /\ \A c \in CommandIds : Took(c) => command[c].after = command[c].before + 1 /\ command[c].after <= revision
  /\ \A c, d \in CommandIds : Took(c) /\ Took(d) /\ command[c].before = command[d].before => c = d

Shown ==
  \A c \in CommandIds : \A r \in sent[c] :
    r.expected <= revision /\ (r.expected = revision => r.seen = item[r.target])

Left(at, outcome) ==
  IF at = "first" THEN {"written", "zeroed", "rewritten", "gone"}
  ELSE IF at = "vacuum" THEN {"zeroed", "rewritten", "gone"}
  ELSE IF at = "second" THEN {"rewritten", "gone"}
  ELSE IF outcome = "complete" THEN {"gone"}
  ELSE {"written", "zeroed", "rewritten", "gone"}

Progress(h) ==
  ~At(h, "idle") => /\ cleanup[h].id \in CommandIds
                    /\ bytes[cleanup[h].id] \in Left(cleanup[h].at, cleanup[h].outcome)
                    /\ cleanup[h].outcome = "complete" => At(h, "record")

StorageTrue ==
  /\ \A h \in Callers : Progress(h)
  /\ CompleteMeansGone
  /\ \A c \in CommandIds : status[c] # "none" => bytes[c] # "none"
  /\ ~wal => \A c \in CommandIds : bytes[c] \notin {"written", "rewritten"}

TrustInv == TrustTypeOK /\ Receipts /\ Line /\ Shown /\ StorageTrue

-----------------------------------------------------------------------------
(* The steps, by what they do to the history of receipts.                  *)

(* A stored receipt is answered again, by submit, retry or get_receipt. *)
Repeats(c) == /\ command[c] # NoReceipt
              /\ told' = [told EXCEPT ![c] = @ \cup {command[c]}]
              /\ UNCHANGED <<world, command, effects, sent>>

ReceiptOf(r, result) ==
  [request |-> r, result |-> result, before |-> revision, after |-> revision']

(* A new command is decided, and its receipt stored and answered. *)
Commits(h, c, r, result) ==
  /\ command[c] = NoReceipt /\ r \in sent[c]
  /\ result \in {"applied", "no_change", "rejected", "revision_conflict"}
  /\ result = "applied" => /\ r.expected = revision
                           /\ r.op = "delete" => context[r.target] \in {0, r.scope}
  /\ Effect(c, r, result) /\ Leave(c, r, result)
  /\ command' = [command EXCEPT ![c] = ReceiptOf(r, result)]
  /\ told' = [told EXCEPT ![c] = @ \cup {ReceiptOf(r, result)}]
  /\ IF Deleted(r, result) THEN Enter(h, Cleaning(c, "submit")) ELSE UNCHANGED cleanup
  /\ UNCHANGED <<wal, readers, sent>>

Unheard == UNCHANGED <<command, told, effects>>

LEMMA SameReceipt ==
  ASSUME NEW x \in Row PROVE [x EXCEPT !.request = x.request] = x
BY DEF Row

LEMMA SubmitDecides ==
  ASSUME TrustTypeOK, NEW h \in Callers, NEW c \in CommandIds, Submit(h, c)
  PROVE  \/ Repeats(c) /\ UNCHANGED <<storage, wal, readers, cleanup>>
         \/ \E r \in Request, result \in {"applied", "no_change", "rejected", "revision_conflict"} :
              Commits(h, c, r, result)
<1>1. PICK r \in sent[c] :
       \/ /\ command[c] # NoReceipt
          /\ SameRequest(c, r)
          /\ Tell(c, r, command[c])
          /\ UNCHANGED <<world, command, storage, cleanup, effects>>
       \/ /\ command[c] = NoReceipt
          /\ \E result \in IF Current(r) THEN Results(r) ELSE {"revision_conflict"} :
               /\ Effect(c, r, result)
               /\ Leave(c, r, result)
               /\ LET receipt == [request |-> r, result |-> result,
                                  before |-> revision, after |-> revision']
                  IN command' = [command EXCEPT ![c] = receipt] /\ Tell(c, r, receipt)
               /\ IF Deleted(r, result) THEN Enter(h, Cleaning(c, "submit")) ELSE UNCHANGED cleanup
  BY DEF Submit
<1>2. UNCHANGED <<wal, readers, sent>>
  BY DEF Submit
<1>3. r \in Request
  BY DEF TrustTypeOK
<1>4. CASE command[c] # NoReceipt
  <2>1. command[c] \in Row
    BY <1>4 DEF TrustTypeOK
  <2>2. [command[c] EXCEPT !.request = r] = command[c]
    BY <1>1, <1>4, <2>1, SameReceipt DEF SameRequest
  <2>3. Tell(c, r, command[c]) /\ UNCHANGED <<world, command, storage, cleanup, effects>>
    BY <1>1, <1>4
  <2> QED BY <1>2, <1>4, <2>2, <2>3 DEF Repeats, Tell
<1>5. CASE command[c] = NoReceipt
  <2>1. PICK result \in IF Current(r) THEN Results(r) ELSE {"revision_conflict"} :
               /\ Effect(c, r, result)
               /\ Leave(c, r, result)
               /\ LET receipt == [request |-> r, result |-> result,
                                  before |-> revision, after |-> revision']
                  IN command' = [command EXCEPT ![c] = receipt] /\ Tell(c, r, receipt)
               /\ IF Deleted(r, result) THEN Enter(h, Cleaning(c, "submit")) ELSE UNCHANGED cleanup
    BY <1>1, <1>5
  <2>2. result \in {"applied", "no_change", "rejected", "revision_conflict"}
    BY <2>1 DEF Results
  <2>3. result = "applied" => /\ r.expected = revision
                              /\ r.op = "delete" => context[r.target] \in {0, r.scope}
    BY <2>1, <1>3 DEF Results, Current, InScope, Request
  <2>4. [ReceiptOf(r, result) EXCEPT !.request = r] = ReceiptOf(r, result)
    BY DEF ReceiptOf
  <2>5. command' = [command EXCEPT ![c] = ReceiptOf(r, result)] /\ Tell(c, r, ReceiptOf(r, result))
    BY <2>1 DEF ReceiptOf
  <2>6. told' = [told EXCEPT ![c] = @ \cup {ReceiptOf(r, result)}]
    BY <2>4, <2>5 DEF Tell
  <2>7. Commits(h, c, r, result)
    BY <1>1, <1>2, <1>5, <2>1, <2>2, <2>3, <2>5, <2>6 DEF Commits
  <2> QED BY <1>3, <2>2, <2>7
<1> QED BY <1>4, <1>5

(* Any other step: it repeats a receipt or leaves the receipts alone. *)
LEMMA OtherSteps ==
  ASSUME TrustInv, [TrustNext]_trustVars, ~(\E h \in Callers, c \in CommandIds : Submit(h, c))
  PROVE  \/ \E c \in CommandIds : Repeats(c)
         \/ Unheard
<1>1. ASSUME NEW c \in CommandIds, GetReceipt(c) PROVE Repeats(c)
  <2>1. command[c] \in Row
    BY <1>1 DEF GetReceipt, TrustInv, TrustTypeOK
  <2> QED BY <1>1, <2>1, SameReceipt DEF GetReceipt, Repeats, Tell
<1>2. ASSUME NEW h \in Callers, RecordOutcome(h) PROVE Unheard \/ \E c \in CommandIds : Repeats(c)
  <2>1. cleanup[h].id \in CommandIds /\ bytes[cleanup[h].id] # "none"
    BY <1>2 DEF RecordOutcome, TrustInv, StorageTrue, Progress, At, Left
  <2>2. command[cleanup[h].id] # NoReceipt
    BY <2>1 DEF TrustInv, Receipts, Receipt
  <2>3. command[cleanup[h].id] \in Row
    BY <2>1, <2>2 DEF TrustInv, TrustTypeOK
  <2>4. told' = told \/ Tell(cleanup[h].id, command[cleanup[h].id].request, command[cleanup[h].id])
    BY <1>2 DEF RecordOutcome
  <2>5. UNCHANGED <<world, command, effects, sent>>
    BY <1>2 DEF RecordOutcome
  <2>6. CASE told' = told
    BY <2>5, <2>6 DEF Unheard
  <2>7. CASE Tell(cleanup[h].id, command[cleanup[h].id].request, command[cleanup[h].id])
    BY <2>1, <2>2, <2>3, <2>5, <2>7, SameReceipt DEF Repeats, Tell
  <2> QED BY <2>4, <2>6, <2>7
<1>3. ASSUME NEW h \in Callers, First(h) \/ Vacuum(h) \/ Second(h) \/ Stop(h) PROVE Unheard
  BY <1>3 DEF First, Vacuum, Second, Stop, Unheard
<1>4. ASSUME NEW h \in Callers, NEW c \in CommandIds, Retry(h, c) \/ Prepare(c) PROVE Unheard
  BY <1>4 DEF Retry, Prepare, Unheard
<1>5. ASSUME NEW d \in Readers, Hold(d) PROVE Unheard
  BY <1>5 DEF Hold, Unheard
<1>6. ASSUME NEW i \in Items, Copy(i) PROVE Unheard
  BY <1>6 DEF Copy, Unheard
<1>7. CASE Form
  BY <1>7 DEF Form, Unheard
<1>8. CASE UNCHANGED trustVars
  BY <1>8 DEF trustVars, Unheard
<1>9. ASSUME NEW c \in CommandIds, Prepare(c) PROVE Unheard
  BY <1>9 DEF Prepare, Unheard
<1> QED BY <1>1, <1>2, <1>3, <1>4, <1>5, <1>6, <1>7, <1>8, <1>9 DEF TrustNext

-----------------------------------------------------------------------------
(* What a decision does. *)
LEMMA DecidedWorld ==
  ASSUME TrustTypeOK, NEW h \in Callers, NEW c \in CommandIds, NEW r \in Request,
         NEW result \in {"applied", "no_change", "rejected", "revision_conflict"},
         Commits(h, c, r, result)
  PROVE  /\ revision' \in {revision, revision + 1}
         /\ item' \in [Items -> Nat \cup {Removed}] /\ context' \in [Items -> Nat]
         /\ result = "applied" => revision' = revision + 1
         /\ result # "applied" => UNCHANGED <<world, effects>>
         /\ effects' = IF result = "applied" THEN [effects EXCEPT ![c] = @ + 1] ELSE effects
         /\ ReceiptOf(r, result) \in Row
<1>0. item \in [Items -> Nat \cup {Removed}] /\ context \in [Items -> Nat] /\ revision \in Nat
  BY DEF TrustTypeOK
<1>1. CASE result = "applied"
  <2>1. /\ revision' = revision + 1
        /\ item' = [item EXCEPT ![r.target] = IF r.op = "delete" THEN Removed ELSE revision + 1]
        /\ context' = [context EXCEPT ![r.target] = IF r.op = "delete" THEN 0 ELSE @]
        /\ effects' = [effects EXCEPT ![c] = @ + 1]
    BY <1>1 DEF Commits, Effect
  <2>2. r.target \in Items
    BY DEF Request
  <2>3. item' \in [Items -> Nat \cup {Removed}] /\ context' \in [Items -> Nat]
    BY <1>0, <2>1, <2>2
  <2>4. ReceiptOf(r, result) \in Row
    BY <1>0, <2>1 DEF ReceiptOf, Row
  <2> QED BY <1>1, <2>1, <2>3, <2>4
<1>2. CASE result # "applied"
  <2>1. UNCHANGED <<world, effects>>
    BY <1>2 DEF Commits, Effect
  <2>2. ReceiptOf(r, result) \in Row
    BY <1>0, <2>1 DEF ReceiptOf, Row, world
  <2> QED BY <1>0, <1>2, <2>1, <2>2 DEF world
<1> QED BY <1>1, <1>2

LEMMA DecidedStorage ==
  ASSUME TrustTypeOK, NEW h \in Callers, NEW c \in CommandIds, NEW r \in Request,
         NEW result \in {"applied", "no_change", "rejected", "revision_conflict"},
         Commits(h, c, r, result)
  PROVE  \/ UNCHANGED <<storage, cleanup>>
         \/ /\ status' = [status EXCEPT ![c] = "pending"]
            /\ bytes' = [bytes EXCEPT ![c] = IF wal THEN "written" ELSE "zeroed"]
            /\ cleanup' = [cleanup EXCEPT ![h] = Cleaning(c, "submit")]
BY DEF Commits, Leave, Deleted, Enter

(* A World that changes has a new revision. *)
LEMMA RevisionTells ==
  ASSUME TrustInv, [TrustNext]_trustVars
  PROVE  /\ revision' \in Nat /\ revision <= revision'
         /\ revision' = revision => item' = item
<1>0. revision \in Nat
  BY DEF TrustInv, TrustTypeOK
<1>1. CASE \E h \in Callers, c \in CommandIds : Submit(h, c)
  <2>1. PICK h \in Callers, c \in CommandIds : Submit(h, c)
    BY <1>1
  <2>2. CASE UNCHANGED world
    BY <1>0, <2>2 DEF world
  <2>3. ASSUME NEW r \in Request,
               NEW result \in {"applied", "no_change", "rejected", "revision_conflict"},
               Commits(h, c, r, result)
        PROVE  revision' = revision + 1 \/ UNCHANGED world
    BY <2>3, DecidedWorld DEF TrustInv
  <2>4. revision' = revision + 1 \/ UNCHANGED world
    BY <2>1, <2>3, SubmitDecides DEF TrustInv, Repeats
  <2> QED BY <1>0, <2>2, <2>4
<1>2. CASE Form
  BY <1>0, <1>2 DEF Form
<1>3. ASSUME NEW i \in Items, Copy(i) PROVE UNCHANGED <<item, revision>>
  BY <1>3 DEF Copy
<1>4. ASSUME NEW h \in Callers, NEW c \in CommandIds, Retry(h, c) PROVE UNCHANGED <<item, revision>>
  BY <1>4 DEF Retry, world
<1>5. ASSUME NEW h \in Callers, First(h) \/ Vacuum(h) \/ Second(h) \/ Stop(h) \/ RecordOutcome(h)
      PROVE  UNCHANGED <<item, revision>>
  BY <1>5 DEF First, Vacuum, Second, Stop, RecordOutcome, world
<1>6. ASSUME NEW c \in CommandIds, Prepare(c) \/ GetReceipt(c) PROVE UNCHANGED <<item, revision>>
  BY <1>6 DEF Prepare, GetReceipt, world
<1>7. ASSUME NEW d \in Readers, Hold(d) PROVE UNCHANGED <<item, revision>>
  BY <1>7 DEF Hold, world
<1>8. CASE UNCHANGED trustVars
  BY <1>0, <1>8 DEF trustVars, world
<1>9. UNCHANGED <<item, revision>> => /\ revision' \in Nat /\ revision <= revision'
                                      /\ revision' = revision => item' = item
  BY <1>0
<1> QED BY <1>1, <1>2, <1>3, <1>4, <1>5, <1>6, <1>7, <1>8, <1>9 DEF TrustNext

-----------------------------------------------------------------------------
-----------------------------------------------------------------------------
LEMMA TypeNext ==
  ASSUME TrustInv, [TrustNext]_trustVars PROVE TrustTypeOK'
<1>0. TrustTypeOK
  BY DEF TrustInv
<1>1. /\ status \in [CommandIds -> {"none", "pending", "complete"}] /\ bytes \in [CommandIds -> Traces]
      /\ cleanup \in [Callers -> Cleanup] /\ command \in [CommandIds -> Row \cup {NoReceipt}]
      /\ told \in [CommandIds -> SUBSET Row] /\ sent \in [CommandIds -> SUBSET Request]
      /\ effects \in [CommandIds -> Nat] /\ revision \in Nat
      /\ item \in [Items -> Nat \cup {Removed}] /\ context \in [Items -> Nat]
  BY <1>0 DEF TrustTypeOK
<1>2. ASSUME NEW c \in CommandIds, Repeats(c)
      PROVE  told' \in [CommandIds -> SUBSET Row] /\ UNCHANGED <<world, command, effects, sent>>
  <2>1. command[c] \in Row
    BY <1>1, <1>2 DEF Repeats
  <2> QED BY <1>1, <1>2, <2>1 DEF Repeats
<1>3. ASSUME NEW h \in Callers, NEW c \in CommandIds PROVE Cleaning(c, "submit") \in Cleanup
                                                        /\ Cleaning(c, "retry") \in Cleanup /\ Idle \in Cleanup
  BY DEF Cleaning, Idle, Cleanup
<1>4. ASSUME NEW h \in Callers, NEW c \in CommandIds, Submit(h, c) PROVE TrustTypeOK'
  <2>1. CASE Repeats(c) /\ UNCHANGED <<storage, wal, readers, cleanup>>
    BY <1>0, <1>2, <2>1 DEF TrustTypeOK, world, storage
  <2>2. ASSUME NEW r \in Request,
               NEW result \in {"applied", "no_change", "rejected", "revision_conflict"},
               Commits(h, c, r, result)
        PROVE  TrustTypeOK'
    <3>1. /\ revision' \in Nat
          /\ item' \in [Items -> Nat \cup {Removed}] /\ context' \in [Items -> Nat]
          /\ ReceiptOf(r, result) \in Row
      BY <1>0, <1>1, <2>2, DecidedWorld
    <3>2. effects' \in [CommandIds -> Nat]
      <4>1. effects' = IF result = "applied" THEN [effects EXCEPT ![c] = @ + 1] ELSE effects
        BY <1>0, <2>2, DecidedWorld
      <4> QED BY <1>1, <4>1
    <3>3. command' \in [CommandIds -> Row \cup {NoReceipt}] /\ told' \in [CommandIds -> SUBSET Row]
      BY <1>1, <2>2, <3>1 DEF Commits
    <3>4. status' \in [CommandIds -> {"none", "pending", "complete"}] /\ bytes' \in [CommandIds -> Traces]
          /\ cleanup' \in [Callers -> Cleanup]
      <4>1. CASE UNCHANGED <<storage, cleanup>>
        BY <1>1, <4>1 DEF storage
      <4>2. CASE /\ status' = [status EXCEPT ![c] = "pending"]
                 /\ bytes' = [bytes EXCEPT ![c] = IF wal THEN "written" ELSE "zeroed"]
                 /\ cleanup' = [cleanup EXCEPT ![h] = Cleaning(c, "submit")]
        BY <1>1, <1>3, <4>2 DEF Traces
      <4> QED BY <1>0, <2>2, <4>1, <4>2, DecidedStorage
    <3>5. wal' \in BOOLEAN /\ readers' \subseteq Readers /\ sent' \in [CommandIds -> SUBSET Request]
      BY <1>0, <2>2 DEF Commits, TrustTypeOK
    <3> QED BY <3>1, <3>2, <3>3, <3>4, <3>5 DEF TrustTypeOK
  <2> QED BY <1>0, <1>4, <2>1, <2>2, SubmitDecides
<1>5. ASSUME ~(\E h \in Callers, c \in CommandIds : Submit(h, c))
      PROVE  command' \in [CommandIds -> Row \cup {NoReceipt}] /\ told' \in [CommandIds -> SUBSET Row]
             /\ effects' \in [CommandIds -> Nat]
  BY <1>1, <1>2, <1>5, OtherSteps DEF Unheard
<1>6. Checkpointed \in [CommandIds -> Traces] /\ Rewritten \in [CommandIds -> Traces]
  BY <1>1 DEF Checkpointed, Rewritten, Traces
<1>7. ASSUME NEW h \in Callers, First(h) \/ Vacuum(h) \/ Second(h) \/ Stop(h) \/ RecordOutcome(h)
      PROVE  TrustTypeOK'
  <2>1. cleanup' \in [Callers -> Cleanup]
    <3>1. ASSUME NEW at \in {"idle", "first", "vacuum", "second", "record"}
          PROVE  [cleanup[h] EXCEPT !.at = at] \in Cleanup
      BY <1>1 DEF Cleanup
    <3>2. Succeeded(h) \in Cleanup
      BY <1>1 DEF Succeeded, Cleanup
    <3>3. Idle \in Cleanup
      BY DEF Idle, Cleanup
    <3>4. \/ cleanup' = [cleanup EXCEPT ![h] = Idle]
          \/ cleanup' = [cleanup EXCEPT ![h] = Succeeded(h)]
          \/ \E at \in {"idle", "first", "vacuum", "second", "record"} :
               cleanup' = [cleanup EXCEPT ![h] = [cleanup[h] EXCEPT !.at = at]]
      BY <1>7 DEF First, Vacuum, Second, Stop, RecordOutcome, Checkpoint, Enter, Goto
    <3> QED BY <1>1, <3>1, <3>2, <3>3, <3>4
  <2>2. bytes' \in [CommandIds -> Traces]
    BY <1>1, <1>6, <1>7 DEF First, Vacuum, Second, Stop, RecordOutcome, Checkpoint, storage
  <2>3. status' \in [CommandIds -> {"none", "pending", "complete"}]
    <3>1. CASE RecordOutcome(h)
      <4>1. cleanup[h].outcome \in {"pending", "complete"}
        BY <1>1 DEF Cleanup
      <4> QED BY <1>1, <3>1, <4>1 DEF RecordOutcome
    <3>2. CASE First(h) \/ Vacuum(h) \/ Second(h) \/ Stop(h)
      BY <1>1, <3>2 DEF First, Vacuum, Second, Stop, storage
    <3> QED BY <1>7, <3>1, <3>2
  <2>4. ~(\E k \in Callers, c \in CommandIds : Submit(k, c)) \/ TrustTypeOK'
    BY <1>4
  <2>5. UNCHANGED <<world, wal, readers, sent>>
    BY <1>7 DEF First, Vacuum, Second, Stop, RecordOutcome
  <2> QED BY <1>0, <1>5, <2>1, <2>2, <2>3, <2>4, <2>5 DEF TrustTypeOK, world
<1>8. ASSUME NEW h \in Callers, NEW c \in CommandIds, Retry(h, c) PROVE TrustTypeOK'
  <2>1. cleanup' \in [Callers -> Cleanup]
    BY <1>1, <1>3, <1>8 DEF Retry, Enter
  <2> QED BY <1>0, <1>8, <2>1 DEF Retry, TrustTypeOK, world, storage
<1>9. ASSUME NEW c \in CommandIds, Prepare(c) PROVE TrustTypeOK'
  <2>1. ASSUME NEW i \in Items, NEW r \in Offered(i) PROVE r \in Request
    BY <1>1, <2>1, NoScopeAssumption DEF Offered, Request
  <2>2. PICK i \in Items : \E r \in Offered(i) :
          r \notin sent[c] /\ sent' = [sent EXCEPT ![c] = @ \cup {r}]
    BY <1>9 DEF Prepare
  <2>3. sent' \in [CommandIds -> SUBSET Request]
    BY <1>1, <2>1, <2>2
  <2> QED BY <1>0, <1>9, <2>3 DEF Prepare, TrustTypeOK, world, storage
<1>10. ASSUME NEW c \in CommandIds, GetReceipt(c) PROVE TrustTypeOK'
  <2>1. ~(\E k \in Callers, d \in CommandIds : Submit(k, d)) \/ TrustTypeOK'
    BY <1>4
  <2>2. UNCHANGED <<world, storage, wal, readers, cleanup, sent>>
    BY <1>10 DEF GetReceipt
  <2> QED BY <1>0, <1>5, <2>1, <2>2 DEF TrustTypeOK, world, storage
<1>11. ASSUME NEW d \in Readers, Hold(d) PROVE TrustTypeOK'
  BY <1>0, <1>11 DEF Hold, TrustTypeOK, world, storage
<1>12. ASSUME NEW i \in Items, Copy(i) PROVE TrustTypeOK'
  <2>1. context' \in [Items -> Nat]
    BY <1>1, <1>12 DEF Copy
  <2> QED BY <1>0, <1>12, <2>1 DEF Copy, TrustTypeOK, storage
<1>13. CASE Form
  <2>1. revision' \in Nat /\ item' \in [Items -> Nat \cup {Removed}]
    BY <1>1, <1>13 DEF Form
  <2> QED BY <1>0, <1>13, <2>1 DEF Form, TrustTypeOK, storage
<1>14. CASE UNCHANGED trustVars
  BY <1>0, <1>14 DEF trustVars, TrustTypeOK, world, storage
<1> QED BY <1>4, <1>7, <1>8, <1>9, <1>10, <1>11, <1>12, <1>13, <1>14 DEF TrustNext

-----------------------------------------------------------------------------
(* The parts of the invariant, one by one. *)
LEMMA ReceiptsNext ==
  ASSUME TrustInv, [TrustNext]_trustVars PROVE Receipts'
<1>1. SUFFICES ASSUME NEW k \in CommandIds PROVE Receipt(k)'
  BY DEF Receipts
<1>2. Receipt(k) /\ effects[k] \in Nat /\ TrustTypeOK
  BY DEF TrustInv, Receipts, TrustTypeOK
<1>3. command[k] # NoReceipt =>
        /\ command'[k] = command[k] /\ effects'[k] = effects[k]
        /\ told'[k] \in {told[k], told[k] \cup {command[k]}}
  <2>1. CASE \E h \in Callers, c \in CommandIds : Submit(h, c)
    <3>1. PICK h \in Callers, c \in CommandIds : Submit(h, c)
      BY <2>1
    <3>2. CASE Repeats(c)
      BY <1>2, <3>2 DEF Repeats, TrustTypeOK
    <3>3. ASSUME NEW r \in Request,
                 NEW result \in {"applied", "no_change", "rejected", "revision_conflict"},
                 Commits(h, c, r, result), command[k] # NoReceipt
          PROVE  /\ command'[k] = command[k] /\ effects'[k] = effects[k] /\ told'[k] = told[k]
      <4>1. k # c
        BY <3>3 DEF Commits
      <4>2. effects' = effects \/ effects' = [effects EXCEPT ![c] = @ + 1]
        BY <1>2, <3>3, DecidedWorld
      <4> QED BY <1>2, <3>3, <4>1, <4>2 DEF Commits, TrustTypeOK
    <3> QED BY <1>2, <3>1, <3>2, <3>3, SubmitDecides
  <2>2. CASE ~(\E h \in Callers, c \in CommandIds : Submit(h, c))
    BY <1>2, <2>2, OtherSteps DEF Repeats, Unheard, TrustTypeOK
  <2> QED BY <2>1, <2>2
<1>4. command[k] = NoReceipt =>
        \/ UNCHANGED <<command[k], told[k], effects[k]>>
        \/ \E r \in Request, result \in {"applied", "no_change", "rejected", "revision_conflict"} :
             /\ command'[k] = ReceiptOf(r, result) /\ ReceiptOf(r, result) \in Row
             /\ told'[k] = {ReceiptOf(r, result)}
             /\ effects'[k] = IF result = "applied" THEN 1 ELSE 0
  <2>1. CASE \E h \in Callers, c \in CommandIds : Submit(h, c)
    <3>1. PICK h \in Callers, c \in CommandIds : Submit(h, c)
      BY <2>1
    <3>2. CASE Repeats(c)
      BY <1>2, <3>2 DEF Repeats, TrustTypeOK
    <3>3. ASSUME NEW r \in Request,
                 NEW result \in {"applied", "no_change", "rejected", "revision_conflict"},
                 Commits(h, c, r, result), command[k] = NoReceipt
          PROVE  \/ UNCHANGED <<command[k], told[k], effects[k]>>
                 \/ /\ command'[k] = ReceiptOf(r, result) /\ ReceiptOf(r, result) \in Row
                    /\ told'[k] = {ReceiptOf(r, result)}
                    /\ effects'[k] = IF result = "applied" THEN 1 ELSE 0
      <4>1. /\ effects' = IF result = "applied" THEN [effects EXCEPT ![c] = @ + 1] ELSE effects
            /\ ReceiptOf(r, result) \in Row
        BY <1>2, <3>3, DecidedWorld
      <4>2. /\ command' = [command EXCEPT ![c] = ReceiptOf(r, result)]
            /\ told' = [told EXCEPT ![c] = @ \cup {ReceiptOf(r, result)}]
        BY <3>3 DEF Commits
      <4>3. told[k] = {} /\ effects[k] = 0
        BY <1>2, <3>3 DEF Receipt
      <4>4. command \in [CommandIds -> Row \cup {NoReceipt}] /\ told \in [CommandIds -> SUBSET Row] /\ effects \in [CommandIds -> Nat]
        BY <1>2 DEF TrustTypeOK
      <4>5. CASE k # c
        BY <4>1, <4>2, <4>4, <4>5
      <4>6. CASE k = c
        BY <4>1, <4>2, <4>3, <4>4, <4>6
      <4> QED BY <4>5, <4>6
    <3> QED BY <1>2, <3>1, <3>2, <3>3, SubmitDecides
  <2>2. CASE ~(\E h \in Callers, c \in CommandIds : Submit(h, c))
    BY <1>2, <2>2, OtherSteps DEF Repeats, Unheard, TrustTypeOK
  <2> QED BY <2>1, <2>2
<1>5. command'[k] = NoReceipt => command[k] = NoReceipt
  BY <1>2, <1>3 DEF TrustTypeOK
<1>6. command'[k] = NoReceipt => status'[k] = "none" /\ bytes'[k] = "none"
  <2> SUFFICES ASSUME command'[k] = NoReceipt PROVE status'[k] = "none" /\ bytes'[k] = "none"
    OBVIOUS
  <2>0. command[k] = NoReceipt /\ status[k] = "none" /\ bytes[k] = "none"
    BY <1>2, <1>5 DEF Receipt
  <2>1. ASSUME NEW h \in Callers, NEW c \in CommandIds, Submit(h, c)
        PROVE  status'[k] = "none" /\ bytes'[k] = "none"
    <3>1. CASE UNCHANGED storage
      BY <2>0, <3>1 DEF storage
    <3>2. ASSUME NEW r \in Request,
                 NEW result \in {"applied", "no_change", "rejected", "revision_conflict"},
                 Commits(h, c, r, result)
          PROVE  status'[k] = "none" /\ bytes'[k] = "none"
      <4>1. k # c
        <5>1. ReceiptOf(r, result) \in Row
          BY <1>2, <3>2, DecidedWorld
        <5> QED BY <1>2, <3>2, <5>1, NoReceiptAssumption DEF Commits, TrustTypeOK
      <4>2. CASE UNCHANGED <<storage, cleanup>>
        BY <2>0, <4>2 DEF storage
      <4>3. CASE /\ status' = [status EXCEPT ![c] = "pending"]
                 /\ bytes' = [bytes EXCEPT ![c] = IF wal THEN "written" ELSE "zeroed"]
        BY <1>2, <2>0, <4>1, <4>3 DEF TrustTypeOK
      <4> QED BY <1>2, <3>2, <4>2, <4>3, DecidedStorage
    <3> QED BY <1>2, <2>1, <3>1, <3>2, SubmitDecides
  <2>2. ASSUME NEW h \in Callers, First(h) \/ Vacuum(h) \/ Second(h) \/ Stop(h) \/ RecordOutcome(h)
        PROVE  status'[k] = "none" /\ bytes'[k] = "none"
    <3>1. Checkpointed[k] = "none" /\ Rewritten[k] = "none"
      BY <2>0 DEF Checkpointed, Rewritten
    <3>2. bytes'[k] = "none"
      BY <2>0, <2>2, <3>1 DEF First, Vacuum, Second, Stop, RecordOutcome, Checkpoint, storage
    <3>3. CASE RecordOutcome(h)
      <4>1. cleanup[h].id \in CommandIds /\ bytes[cleanup[h].id] # "none"
        BY <3>3 DEF RecordOutcome, TrustInv, StorageTrue, Progress, At, Left
      <4> QED BY <1>2, <2>0, <3>2, <3>3, <4>1 DEF RecordOutcome, TrustTypeOK
    <3>4. CASE First(h) \/ Vacuum(h) \/ Second(h) \/ Stop(h)
      BY <2>0, <3>2, <3>4 DEF First, Vacuum, Second, Stop, storage
    <3> QED BY <2>2, <3>3, <3>4
  <2>3. ASSUME NEW h \in Callers, NEW c \in CommandIds, Retry(h, c) PROVE UNCHANGED storage
    BY <2>3 DEF Retry
  <2>4. ASSUME NEW c \in CommandIds, Prepare(c) \/ GetReceipt(c) PROVE UNCHANGED storage
    BY <2>4 DEF Prepare, GetReceipt
  <2>5. ASSUME NEW d \in Readers, Hold(d) PROVE UNCHANGED storage
    BY <2>5 DEF Hold
  <2>6. ASSUME NEW i \in Items, Copy(i) PROVE UNCHANGED storage
    BY <2>6 DEF Copy
  <2>7. Form => UNCHANGED storage
    BY DEF Form
  <2>8. UNCHANGED trustVars => UNCHANGED storage
    BY DEF trustVars
  <2>9. UNCHANGED storage => status'[k] = "none" /\ bytes'[k] = "none"
    BY <2>0 DEF storage
  <2> QED BY <2>1, <2>2, <2>3, <2>4, <2>5, <2>6, <2>7, <2>8, <2>9 DEF TrustNext
<1>7. CASE command[k] # NoReceipt
  BY <1>2, <1>3, <1>7 DEF Receipt
<1>8. CASE command[k] = NoReceipt /\ UNCHANGED <<command[k], told[k], effects[k]>>
  BY <1>2, <1>6, <1>8 DEF Receipt
<1>9. ASSUME NEW r \in Request,
             NEW result \in {"applied", "no_change", "rejected", "revision_conflict"},
             /\ command'[k] = ReceiptOf(r, result) /\ ReceiptOf(r, result) \in Row
             /\ told'[k] = {ReceiptOf(r, result)}
             /\ effects'[k] = IF result = "applied" THEN 1 ELSE 0
      PROVE  Receipt(k)'
  BY <1>9, NoReceiptAssumption DEF Receipt, ReceiptOf
<1> QED BY <1>4, <1>7, <1>8, <1>9

(* Only a decision adds to the line of effects, and it goes to the end. *)
LEMMA LineNext ==
  ASSUME TrustInv, [TrustNext]_trustVars PROVE Line'
<1>0. TrustTypeOK /\ Line
  BY DEF TrustInv
<1>1. revision' \in Nat /\ revision <= revision' /\ revision \in Nat
  BY <1>0, RevisionTells DEF TrustTypeOK
<1>2. ASSUME UNCHANGED command PROVE Line'
  BY <1>0, <1>1, <1>2 DEF Line, Took, TrustTypeOK, Row
<1>3. ASSUME NEW h \in Callers, NEW c \in CommandIds, NEW r \in Request,
             NEW result \in {"applied", "no_change", "rejected", "revision_conflict"},
             Commits(h, c, r, result)
      PROVE  Line'
  <2>1. /\ command' = [command EXCEPT ![c] = ReceiptOf(r, result)] /\ command[c] = NoReceipt
        /\ ReceiptOf(r, result) \in Row
    BY <1>0, <1>3, DecidedWorld DEF Commits
  <2>2. /\ command \in [CommandIds -> Row \cup {NoReceipt}] /\ command'[c] = ReceiptOf(r, result)
        /\ \A k \in CommandIds \ {c} : command'[k] = command[k]
    BY <1>0, <2>1 DEF TrustTypeOK
  <2>3. Took(c)' => command'[c].before = revision /\ command'[c].after = revision + 1 /\ revision' = revision + 1
    <3>1. result = "applied" => revision' = revision + 1
      BY <1>0, <1>3, DecidedWorld
    <3> QED BY <2>2, <3>1 DEF Took, ReceiptOf
  <2>4. \A k \in CommandIds \ {c} : Took(k)' => Took(k) /\ command[k].after = command[k].before + 1
                                                /\ command[k].after <= revision /\ command[k].before \in Nat
    BY <1>0, <2>2 DEF Took, Line, Row
  <2>5. \A k \in CommandIds : Took(k)' => command'[k].after = command'[k].before + 1 /\ command'[k].after <= revision'
    BY <1>1, <2>2, <2>3, <2>4
  <2>6. ASSUME NEW k \in CommandIds, NEW d \in CommandIds, Took(k)', Took(d)', command'[k].before = command'[d].before
        PROVE  k = d
    <3>1. CASE k # c /\ d # c
      BY <1>0, <2>2, <2>4, <2>6, <3>1 DEF Line
    <3>2. CASE k = c /\ d # c
      BY <1>1, <2>2, <2>3, <2>4, <2>6, <3>2
    <3>3. CASE k # c /\ d = c
      BY <1>1, <2>2, <2>3, <2>4, <2>6, <3>3
    <3> QED BY <3>1, <3>2, <3>3
  <2> QED BY <2>5, <2>6 DEF Line
<1>4. CASE \E h \in Callers, c \in CommandIds : Submit(h, c)
  <2>1. PICK h \in Callers, c \in CommandIds : Submit(h, c)
    BY <1>4
  <2> QED BY <1>0, <1>2, <1>3, <2>1, SubmitDecides DEF Repeats
<1>5. CASE ~(\E h \in Callers, c \in CommandIds : Submit(h, c))
  BY <1>2, <1>5, OtherSteps DEF Repeats, Unheard
<1> QED BY <1>4, <1>5

LEMMA ShownNext ==
  ASSUME TrustInv, [TrustNext]_trustVars PROVE Shown'
<1>0. TrustTypeOK /\ Shown
  BY DEF TrustInv
<1>1. /\ revision' \in Nat /\ revision <= revision' /\ revision \in Nat
      /\ revision' = revision => item' = item
  BY <1>0, RevisionTells DEF TrustTypeOK
<1>2. SUFFICES ASSUME NEW k \in CommandIds, NEW q \in sent'[k]
               PROVE  q.expected <= revision' /\ (q.expected = revision' => q.seen = item'[q.target])
  BY DEF Shown
<1>3. CASE q \in sent[k]
  <2>1. q \in Request /\ q.expected <= revision /\ (q.expected = revision => q.seen = item[q.target])
    BY <1>0, <1>3 DEF Shown, TrustTypeOK
  <2>2. q.expected \in Nat
    BY <2>1 DEF Request
  <2> QED BY <1>1, <2>1, <2>2
<1>4. ASSUME NEW c \in CommandIds, Prepare(c), q \notin sent[k]
      PROVE  q.expected <= revision' /\ (q.expected = revision' => q.seen = item'[q.target])
  <2>1. UNCHANGED <<item, revision>>
    BY <1>4 DEF Prepare, world
  <2>2. PICK i \in Items : \E r \in Offered(i) : sent' = [sent EXCEPT ![c] = @ \cup {r}]
    BY <1>4 DEF Prepare
  <2>3. q \in Offered(i)
    BY <1>0, <1>2, <1>4, <2>2 DEF TrustTypeOK
  <2>4. q.expected = revision /\ q.seen = item[q.target]
    BY <2>3 DEF Offered
  <2> QED BY <1>1, <2>1, <2>4
<1>5. sent' # sent => \E c \in CommandIds : Prepare(c)
  <2>1. ASSUME NEW h \in Callers, NEW c \in CommandIds, Submit(h, c) \/ Retry(h, c) PROVE UNCHANGED sent
    BY <2>1 DEF Submit, Retry
  <2>2. ASSUME NEW h \in Callers, First(h) \/ Vacuum(h) \/ Second(h) \/ Stop(h) \/ RecordOutcome(h)
        PROVE  UNCHANGED sent
    BY <2>2 DEF First, Vacuum, Second, Stop, RecordOutcome
  <2>3. ASSUME NEW c \in CommandIds, GetReceipt(c) PROVE UNCHANGED sent
    BY <2>3 DEF GetReceipt
  <2>4. ASSUME NEW d \in Readers, Hold(d) PROVE UNCHANGED sent
    BY <2>4 DEF Hold
  <2>5. ASSUME NEW i \in Items, Copy(i) PROVE UNCHANGED sent
    BY <2>5 DEF Copy
  <2>6. Form \/ UNCHANGED trustVars => UNCHANGED sent
    BY DEF Form, trustVars
  <2> QED BY <2>1, <2>2, <2>3, <2>4, <2>5, <2>6 DEF TrustNext
<1> QED BY <1>2, <1>3, <1>4, <1>5

-----------------------------------------------------------------------------
(* Cleaning up: no step of one host sets back what another one relies on.  *)

(* b' is no earlier on the way than b. *)
Further(b, n) ==
  /\ b = "zeroed" => n \in {"zeroed", "rewritten", "gone"}
  /\ b = "rewritten" => n \in {"rewritten", "gone"}
  /\ b = "gone" => n = "gone"
  /\ b # "none" => n \in {"written", "zeroed", "rewritten", "gone"}

LEMMA LeftStays ==
  ASSUME NEW b, NEW n, Further(b, n), NEW at, NEW outcome, b \in Left(at, outcome)
  PROVE  n \in Left(at, outcome)
BY DEF Further, Left

(* A host that starts, or that only hears of others, keeps its place. *)
LEMMA StoredFurther ==
  ASSUME TrustInv, UNCHANGED wal,
         \A c \in CommandIds : Further(bytes[c], bytes'[c]),
         ~wal => \A c \in CommandIds : bytes'[c] \notin {"written", "rewritten"},
         \A c \in CommandIds : \/ status'[c] = status[c] \/ bytes'[c] = "gone"
                               \/ status'[c] = "pending" /\ bytes'[c] # "none",
         \A h \in Callers : cleanup'[h] = cleanup[h] \/ Progress(h)'
  PROVE  StorageTrue'
<1>1. ASSUME NEW h \in Callers, cleanup'[h] = cleanup[h] PROVE Progress(h)'
  <2>1. Progress(h)
    BY DEF TrustInv, StorageTrue
  <2>2. cleanup[h].at # "idle" => cleanup[h].id \in CommandIds /\ bytes'[cleanup[h].id] \in Left(cleanup[h].at, cleanup[h].outcome)
    BY <2>1, LeftStays DEF Progress, At
  <2> QED BY <1>1, <2>1, <2>2 DEF Progress, At
<1>2. ASSUME NEW c \in CommandIds, status'[c] = "complete" PROVE bytes'[c] = "gone"
  <2>1. status[c] = "complete" => bytes[c] = "gone"
    BY DEF TrustInv, StorageTrue, CompleteMeansGone
  <2> QED BY <1>2, <2>1 DEF Further
<1>3. ASSUME NEW c \in CommandIds, status'[c] # "none" PROVE bytes'[c] # "none"
  <2>1. status[c] # "none" => bytes[c] # "none"
    BY DEF TrustInv, StorageTrue
  <2> QED BY <1>3, <2>1 DEF Further
<1> QED BY <1>1, <1>2, <1>3 DEF StorageTrue, CompleteMeansGone

LEMMA Steps ==
  ASSUME TrustInv
  PROVE  /\ \A c \in CommandIds : Further(bytes[c], Checkpointed[c]) /\ Further(bytes[c], Rewritten[c])
                                  /\ Further(bytes[c], bytes[c])
         /\ ~wal => \A c \in CommandIds : /\ Checkpointed[c] \notin {"written", "rewritten"}
                                          /\ Rewritten[c] \notin {"written", "rewritten"}
                                          /\ bytes[c] \notin {"written", "rewritten"}
<1>1. \A c \in CommandIds : bytes[c] \in Traces
  BY DEF TrustInv, TrustTypeOK
<1>2. ~wal => \A c \in CommandIds : bytes[c] \notin {"written", "rewritten"}
  BY DEF TrustInv, StorageTrue
<1>3. ASSUME NEW c \in CommandIds PROVE /\ Further(bytes[c], Checkpointed[c]) /\ Further(bytes[c], Rewritten[c])
                                        /\ Further(bytes[c], bytes[c])
  BY <1>1, <1>3 DEF Checkpointed, Rewritten, Further, Traces
<1>4. ASSUME ~wal, NEW c \in CommandIds PROVE /\ Checkpointed[c] \notin {"written", "rewritten"}
                                              /\ Rewritten[c] \notin {"written", "rewritten"}
  BY <1>2, <1>4 DEF Checkpointed, Rewritten
<1> QED BY <1>2, <1>3, <1>4

LEMMA StoredNext ==
  ASSUME TrustInv, [TrustNext]_trustVars PROVE StorageTrue'
<1>0. TrustTypeOK /\ StorageTrue
  BY DEF TrustInv
<1>1. /\ status \in [CommandIds -> {"none", "pending", "complete"}] /\ bytes \in [CommandIds -> Traces]
      /\ cleanup \in [Callers -> Cleanup] /\ wal \in BOOLEAN
  BY <1>0 DEF TrustTypeOK
<1>2. ASSUME UNCHANGED <<storage, wal, cleanup>> PROVE StorageTrue'
  BY <1>2, StoredFurther, Steps DEF storage
<1>3. ASSUME NEW h \in Callers, NEW c \in CommandIds, Submit(h, c) PROVE StorageTrue'
  <2>1. CASE UNCHANGED <<storage, wal, readers, cleanup>>
    BY <1>2, <2>1
  <2>2. ASSUME NEW r \in Request,
               NEW result \in {"applied", "no_change", "rejected", "revision_conflict"},
               Commits(h, c, r, result)
        PROVE  StorageTrue'
    <3>1. command[c] = NoReceipt /\ UNCHANGED wal
      BY <2>2 DEF Commits
    <3>2. bytes[c] = "none"
      BY <3>1 DEF TrustInv, Receipts, Receipt
    <3>3. CASE UNCHANGED <<storage, cleanup>>
      BY <1>2, <3>1, <3>3
    <3>4. CASE /\ status' = [status EXCEPT ![c] = "pending"]
               /\ bytes' = [bytes EXCEPT ![c] = IF wal THEN "written" ELSE "zeroed"]
               /\ cleanup' = [cleanup EXCEPT ![h] = Cleaning(c, "submit")]
      <4>1. \A d \in CommandIds : /\ Further(bytes[d], bytes'[d])
                                   /\ \/ status'[d] = status[d]
                                      \/ status'[d] = "pending" /\ bytes'[d] # "none"
        BY <1>1, <3>2, <3>4, Steps DEF Further
      <4>2. ~wal => \A d \in CommandIds : bytes'[d] \notin {"written", "rewritten"}
        BY <1>1, <3>4, Steps
      <4>3. \A k \in Callers : cleanup'[k] = cleanup[k] \/ Progress(k)'
        <5>1. cleanup'[h] = Cleaning(c, "submit") /\ bytes'[c] \in {"written", "zeroed"}
          BY <1>1, <3>4
        <5>2. Progress(h)'
          BY <5>1 DEF Progress, At, Left, Cleaning, Idle
        <5> QED BY <1>1, <3>4, <5>2
      <4> QED BY <3>1, <4>1, <4>2, <4>3, StoredFurther
    <3> QED BY <1>0, <2>2, <3>3, <3>4, DecidedStorage
  <2> QED BY <1>0, <1>3, <2>1, <2>2, SubmitDecides
<1>4. ASSUME NEW h \in Callers, NEW c \in CommandIds, Retry(h, c) PROVE StorageTrue'
  <2>1. bytes[c] # "none" /\ UNCHANGED <<storage, wal>>
    BY <1>0, <1>4 DEF Retry, StorageTrue
  <2>2. cleanup' = [cleanup EXCEPT ![h] = Cleaning(c, "retry")]
    BY <1>4 DEF Retry, Enter
  <2>3. cleanup'[h] = Cleaning(c, "retry") /\ bytes'[c] \in {"written", "zeroed", "rewritten", "gone"}
    BY <1>1, <2>1, <2>2 DEF storage, Traces
  <2>4. Progress(h)'
    BY <2>3 DEF Progress, At, Left, Cleaning, Idle
  <2>5. \A k \in Callers : cleanup'[k] = cleanup[k] \/ Progress(k)'
    BY <1>1, <2>2, <2>4
  <2> QED BY <2>1, <2>5, Steps, StoredFurther DEF storage
<1>5. ASSUME NEW h \in Callers, ~At(h, "idle"), UNCHANGED <<status, wal>>,
             bytes' \in {bytes, Checkpointed, Rewritten},
             NEW k, cleanup' = [cleanup EXCEPT ![h] = k],
             \/ k.at = "idle"
             \/ /\ k.id = cleanup[h].id
                /\ bytes'[k.id] \in Left(k.at, k.outcome)
                /\ k.outcome = "complete" => k.at = "record"
      PROVE  StorageTrue'
  <2>1. cleanup'[h] = k /\ \A g \in Callers \ {h} : cleanup'[g] = cleanup[g]
    BY <1>1, <1>5
  <2>2. cleanup[h].id \in CommandIds
    BY <1>0, <1>5 DEF StorageTrue, Progress
  <2>3. Progress(h)'
    BY <1>5, <2>1, <2>2 DEF Progress, At
  <2>4. /\ \A c \in CommandIds : Further(bytes[c], bytes'[c])
        /\ ~wal => \A c \in CommandIds : bytes'[c] \notin {"written", "rewritten"}
    BY <1>5, Steps
  <2> QED BY <1>5, <2>1, <2>3, <2>4, StoredFurther
<1>6. ASSUME NEW h \in Callers, ~At(h, "idle")
      PROVE  /\ cleanup[h].id \in CommandIds /\ cleanup[h].outcome \in {"pending", "complete"}
             /\ bytes[cleanup[h].id] \in Left(cleanup[h].at, cleanup[h].outcome)
             /\ cleanup[h].outcome = "complete" => At(h, "record")
             /\ bytes[cleanup[h].id] \in {"written", "zeroed", "rewritten", "gone"}
  BY <1>0, <1>1, <1>6 DEF StorageTrue, Progress, Left, Cleanup
<1>7. ASSUME NEW h \in Callers, Stop(h) PROVE StorageTrue'
  <2>1. /\ ~At(h, "idle") /\ cleanup' = [cleanup EXCEPT ![h] = Idle]
        /\ UNCHANGED <<status, wal>> /\ bytes' = bytes /\ Idle.at = "idle"
    BY <1>7 DEF Stop, Enter, Idle, storage
  <2> QED BY <1>5, <2>1
<1>8. ASSUME NEW h \in Callers, First(h) \/ Second(h) \/ Vacuum(h) PROVE StorageTrue'
  <2>1. ~At(h, "idle") /\ UNCHANGED <<status, wal>>
    BY <1>8 DEF First, Second, Vacuum, At
  <2>2. cleanup[h] \in Cleanup
    BY <1>1
  <2>3. ASSUME bytes' \in {bytes, Checkpointed, Rewritten}, NEW at,
               cleanup' = [cleanup EXCEPT ![h] = [cleanup[h] EXCEPT !.at = at]],
               at \in {"vacuum", "second", "record"}, ~At(h, "record"),
               bytes'[cleanup[h].id] \in Left(at, "pending")
        PROVE  StorageTrue'
    <3> DEFINE k == [cleanup[h] EXCEPT !.at = at]
    <3>1. k.at = at /\ k.id = cleanup[h].id /\ k.outcome = cleanup[h].outcome
      BY <2>2 DEF Cleanup
    <3>2. cleanup[h].outcome = "pending"
      BY <1>6, <2>1, <2>3
    <3>3. cleanup' = [cleanup EXCEPT ![h] = k]
      BY <2>3
    <3> HIDE DEF k
    <3> QED BY <1>5, <2>1, <2>3, <3>1, <3>2, <3>3
  <2>4. ASSUME bytes' \in {bytes, Checkpointed, Rewritten},
               cleanup' = [cleanup EXCEPT ![h] = Succeeded(h)], bytes'[cleanup[h].id] = "gone"
        PROVE  StorageTrue'
    <3>1. /\ Succeeded(h).at = "record" /\ Succeeded(h).id = cleanup[h].id
          /\ Succeeded(h).outcome = "complete"
      BY <2>2 DEF Succeeded, Cleanup
    <3>2. bytes'[Succeeded(h).id] \in Left(Succeeded(h).at, Succeeded(h).outcome)
      BY <2>4, <3>1 DEF Left
    <3> QED BY <1>5, <2>1, <2>4, <3>1, <3>2
  <2>5. /\ cleanup[h].id \in CommandIds
        /\ Checkpointed[cleanup[h].id] = IF bytes[cleanup[h].id] = "written" THEN "zeroed"
             ELSE IF bytes[cleanup[h].id] = "rewritten" THEN "gone" ELSE bytes[cleanup[h].id]
        /\ Rewritten[cleanup[h].id] = IF bytes[cleanup[h].id] \in {"written", "zeroed"}
             THEN IF wal THEN "rewritten" ELSE "gone" ELSE bytes[cleanup[h].id]
    BY <1>6, <2>1 DEF Checkpointed, Rewritten
  <2>6. CASE First(h)
    <3>1. At(h, "first")
      BY <2>6 DEF First
    <3>2. bytes[cleanup[h].id] \in {"written", "zeroed", "rewritten", "gone"}
      BY <1>6, <2>1
    <3>3. CASE bytes' = Checkpointed /\ Goto(h, "vacuum")
      BY <2>3, <2>5, <3>1, <3>2, <3>3 DEF Left, Goto, Enter, At
    <3>4. CASE bytes' = bytes /\ Goto(h, "record")
      BY <2>3, <3>1, <3>2, <3>4 DEF Left, Goto, Enter, At
    <3>5. CASE ~wal /\ bytes' = bytes /\ Goto(h, "vacuum")
      <4>1. bytes[cleanup[h].id] \in {"zeroed", "gone"}
        BY <1>0, <2>5, <3>2, <3>5 DEF StorageTrue
      <4> QED BY <2>3, <3>1, <3>5, <4>1 DEF Left, Goto, Enter, At
    <3> QED BY <2>6, <3>3, <3>4, <3>5 DEF First, Checkpoint, Goto
  <2>7. CASE Vacuum(h)
    <3>1. At(h, "vacuum") /\ bytes' = Rewritten
      BY <2>7 DEF Vacuum
    <3>2. bytes[cleanup[h].id] \in {"zeroed", "rewritten", "gone"}
      BY <1>6, <2>1, <3>1 DEF Left, At
    <3>3. CASE wal /\ Goto(h, "second")
      BY <2>3, <2>5, <3>1, <3>2, <3>3 DEF Left, Goto, Enter, At
    <3>4. CASE ~wal /\ Enter(h, Succeeded(h))
      <4>1. bytes[cleanup[h].id] # "rewritten"
        BY <1>0, <2>5, <3>4 DEF StorageTrue
      <4> QED BY <2>4, <2>5, <3>1, <3>2, <3>4, <4>1 DEF Enter
    <3> QED BY <2>7, <3>3, <3>4 DEF Vacuum
  <2>8. CASE Second(h)
    <3>1. At(h, "second")
      BY <2>8 DEF Second
    <3>2. bytes[cleanup[h].id] \in {"rewritten", "gone"}
      BY <1>6, <2>1, <3>1 DEF Left, At
    <3>3. CASE bytes' = Checkpointed /\ Enter(h, Succeeded(h))
      BY <2>4, <2>5, <3>2, <3>3 DEF Enter
    <3>4. CASE bytes' = bytes /\ Goto(h, "record")
      BY <2>3, <3>1, <3>2, <3>4 DEF Left, Goto, Enter, At
    <3> QED BY <2>8, <3>3, <3>4 DEF Second, Checkpoint
  <2> QED BY <1>8, <2>6, <2>7, <2>8
<1>9. ASSUME NEW h \in Callers, RecordOutcome(h) PROVE StorageTrue'
  <2>1. ~At(h, "idle") /\ At(h, "record") /\ UNCHANGED <<bytes, wal>>
        /\ cleanup' = [cleanup EXCEPT ![h] = Idle]
    BY <1>9 DEF RecordOutcome, Enter, At
  <2>2. status' = status \/ status' = [status EXCEPT ![cleanup[h].id] = cleanup[h].outcome]
    BY <1>9 DEF RecordOutcome
  <2>3. \A c \in CommandIds : \/ status'[c] = status[c] \/ bytes'[c] = "gone"
                              \/ status'[c] = "pending" /\ bytes'[c] # "none"
    <3>1. cleanup[h].outcome = "complete" => bytes[cleanup[h].id] = "gone"
      BY <1>6, <2>1 DEF Left, At
    <3>2. bytes[cleanup[h].id] # "none"
      BY <1>6, <2>1
    <3> QED BY <1>1, <1>6, <2>1, <2>2, <3>1, <3>2
  <2>4. Progress(h)'
    BY <1>1, <2>1 DEF Progress, At, Idle
  <2>5. \A g \in Callers : cleanup'[g] = cleanup[g] \/ Progress(g)'
    BY <1>1, <2>1, <2>4
  <2> QED BY <2>1, <2>3, <2>5, Steps, StoredFurther
<1>10. ASSUME NEW c \in CommandIds, Prepare(c) \/ GetReceipt(c) PROVE UNCHANGED <<storage, wal, cleanup>>
  BY <1>10 DEF Prepare, GetReceipt
<1>11. ASSUME NEW d \in Readers, Hold(d) PROVE UNCHANGED <<storage, wal, cleanup>>
  BY <1>11 DEF Hold
<1>12. ASSUME NEW i \in Items, Copy(i) PROVE UNCHANGED <<storage, wal, cleanup>>
  BY <1>12 DEF Copy
<1>13. Form \/ UNCHANGED trustVars => UNCHANGED <<storage, wal, cleanup>>
  BY DEF Form, trustVars
<1> QED BY <1>2, <1>3, <1>4, <1>7, <1>8, <1>9, <1>10, <1>11, <1>12, <1>13 DEF TrustNext

-----------------------------------------------------------------------------
LEMMA TrustInvInit == TrustInit => TrustInv
<1> SUFFICES ASSUME TrustInit PROVE TrustInv
  OBVIOUS
<1>1. Idle \in Cleanup /\ Idle.at = "idle"
  BY DEF Idle, Cleanup
<1>2. TrustTypeOK
  BY <1>1 DEF TrustInit, TrustTypeOK, Traces
<1>3. Receipts /\ Line /\ Shown
  BY DEF TrustInit, Receipts, Receipt, Line, Took, Shown
<1>4. StorageTrue
  BY <1>1 DEF TrustInit, StorageTrue, Progress, At, CompleteMeansGone
<1> QED BY <1>2, <1>3, <1>4 DEF TrustInv

LEMMA TrustInvariance == TrustSpec => []TrustInv
<1>1. TrustInv /\ [TrustNext]_trustVars => TrustInv'
  BY TypeNext, ReceiptsNext, LineNext, ShownNext, StoredNext DEF TrustInv
<1> QED BY TrustInvInit, <1>1, PTL DEF TrustSpec

(* The store of commands never holds anything but commands, receipts and   *)
(* states of these kinds.                                                  *)
THEOREM CommandTyping == TrustSpec => []TrustTypeOK
BY TrustInvariance, PTL DEF TrustInv

(* A request that is repeated, by any host and after any failure, has one  *)
(* answer, which is true of what happened: CommandStore.submit looks the   *)
(* id up and stores the receipt in the transaction of the effect.          *)
THEOREM AnswersTrue == TrustSpec => []AnswersAreTrue
<1>1. TrustInv => AnswersAreTrue
  BY DEF TrustInv, Receipts, Receipt, AnswersAreTrue
<1> QED BY TrustInvariance, <1>1, PTL

(* The commands that took effect form a line of revisions. *)
THEOREM InLine == TrustSpec => []CommandsInLine
<1>1. TrustInv => CommandsInLine
  BY DEF TrustInv, Line, Took, CommandsInLine
<1> QED BY TrustInvariance, <1>1, PTL

(* The two together: every answer tells its command's place in the line.   *)
THEOREM AnswersTellTheLine == TrustSpec => []AnswersInLine
<1>1. AnswersAreTrue /\ CommandsInLine => AnswersInLine
  BY DEF AnswersInLine
<1> QED BY AnswersTrue, InLine, <1>1, PTL

(* The state row of a deletion says complete only when no byte is left.    *)
THEOREM CompleteIsTrue == TrustSpec => []CompleteMeansGone
<1>1. TrustInv => CompleteMeansGone
  BY DEF TrustInv, StorageTrue
<1> QED BY TrustInvariance, <1>1, PTL

(* No command acts on an item, or erases a context, that has changed since *)
(* its owner saw it.                                                       *)
THEOREM NothingUnseenActs == TrustSpec => NothingUnseen
<1>1. ASSUME TrustInv, [TrustNext]_trustVars, NEW c \in CommandIds, effects'[c] # effects[c]
      PROVE  LET r == command'[c].request
             IN /\ r.seen = item[r.target]
                /\ r.op = "delete" => context[r.target] \in {0, r.scope}
  <2>0. TrustTypeOK
    BY <1>1 DEF TrustInv
  <2>1. PICK h \in Callers, d \in CommandIds : Submit(h, d)
    BY <1>1, OtherSteps DEF Repeats, Unheard
  <2>2. PICK r \in Request, result \in {"applied", "no_change", "rejected", "revision_conflict"} :
          Commits(h, d, r, result)
    BY <1>1, <2>0, <2>1, SubmitDecides DEF Repeats
  <2>3. effects' = IF result = "applied" THEN [effects EXCEPT ![d] = @ + 1] ELSE effects
    BY <2>0, <2>2, DecidedWorld
  <2>4. c = d /\ result = "applied"
    BY <1>1, <2>0, <2>3 DEF TrustTypeOK
  <2>5. command'[c] = ReceiptOf(r, result)
    BY <2>0, <2>2, <2>4 DEF Commits, TrustTypeOK
  <2>6. command'[c].request = r
    BY <2>5 DEF ReceiptOf
  <2>7. r \in sent[c] /\ r.expected = revision /\ (r.op = "delete" => context[r.target] \in {0, r.scope})
    BY <2>2, <2>4 DEF Commits
  <2>8. r.seen = item[r.target]
    BY <1>1, <2>7 DEF TrustInv, Shown
  <2> QED BY <2>6, <2>7, <2>8
<1>2. TrustInv /\ [TrustNext]_trustVars =>
        [\A c \in CommandIds : effects'[c] # effects[c] =>
           LET r == command'[c].request
           IN /\ r.seen = item[r.target]
              /\ r.op = "delete" => context[r.target] \in {0, r.scope}]_trustVars
  BY <1>1
<1> QED BY TrustInvariance, <1>2, PTL DEF TrustSpec, NothingUnseen
=============================================================================
