-------------------------- MODULE ObservedEvidence --------------------------
(***************************************************************************)
(* A host reports observations of one source: a sleep log, a heart rate.   *)
(* Every report has a version, a time of the host's choosing; the person's *)
(* decisions on permissions and withdrawals are such times too.  Reports   *)
(* arrive late, twice and in any order, so a message is not something that *)
(* is sent once: any message can arrive at any time.  Each is one          *)
(* transaction of ObservedService.execute.  Core keeps one row of hashes   *)
(* and times for the source, and the Evidence of its current version.  The *)
(* owner can also act on the Evidence directly, by commands.               *)
(***************************************************************************)
EXTENDS Naturals

CONSTANTS MaxTime,     \* bound: the times hosts use
          Payloads,    \* contents with their validity
          Flags,       \* allow_local_read, allow_cloud_read, allow_inference
          NoPayload, NoEvidence

ASSUME MaxTimeAssumption == MaxTime \in Nat
ASSUME NoPayloadAssumption == NoPayload \notin Payloads

Times == 1 .. MaxTime
Permissions == SUBSET Flags

(* The id of an Evidence is a hash of the version and the payload. *)
Ids == Times \X Payloads
ASSUME NoEvidenceAssumption == NoEvidence \notin Ids

VARIABLES row,        \* observed_source, "absent" before the first message
          evidence,   \* the Evidence rows, a tombstone once they are erased
          owner,      \* history: the last step was a command of the owner
          forgotten   \* history: the newest version the owner has forgotten

observedVars == <<row, evidence, owner, forgotten>>

ObservedRow == [known: BOOLEAN, evidence: Ids \cup {NoEvidence}, version: 0 .. MaxTime,
        payload: Payloads \cup {NoPayload}, permission: 0 .. MaxTime,
        withdrawn: 0 .. MaxTime]
NoRow == [known |-> FALSE, evidence |-> NoEvidence, version |-> 0,
          payload |-> NoPayload, permission |-> 0, withdrawn |-> 0]

Evidence == [state: {"none", "live", "soft", "erased"}, allow: Permissions]
Erased == [state |-> "erased", allow |-> {}]

ObservedInit ==
  /\ row = NoRow
  /\ evidence = [e \in Ids |-> [state |-> "none", allow |-> {}]]
  /\ owner = FALSE /\ forgotten = 0

Live(e) == e # NoEvidence /\ evidence[e].state = "live"
Allowed == evidence[row.evidence].allow
Host == owner' = FALSE /\ UNCHANGED forgotten

-----------------------------------------------------------------------------
(* The messages of a host. *)

StaleIsAcceptable(v, x) ==  \* mutant
  row.known => v > row.withdrawn /\ (v = row.version => x = row.payload)
SecondTextIsAcceptable(v, x) ==  \* mutant
  row.known => v > row.withdrawn /\ v >= row.version

(* No newer version, no later withdrawal and no other text of this version *)
(* has come before.                                                        *)
Acceptable(v, x) ==
  row.known =>
    /\ v > row.withdrawn
    /\ v >= row.version
    /\ v = row.version => x = row.payload

AlwaysDecides(v) == TRUE  \* mutant

(* The decision on permissions that comes with version v is the latest.    *)
Decides(v) == v >= row.permission

(* At one time tightening wins; a later decision may go either way. *)
MayDecide(v, p) == v = row.permission => p \subseteq Allowed

(* upsert_observed *)
Upsert(v, x, p) ==
  LET had == row.evidence # NoEvidence
      keep == had /\ x = row.payload
      id == IF keep THEN row.evidence ELSE <<v, x>>
      allow == IF had /\ ~Decides(v) THEN Allowed ELSE p
  IN /\ Acceptable(v, x)
     /\ IF keep
        THEN Decides(v) => Live(id) /\ MayDecide(v, p)
        ELSE evidence[id].state = "none"
     /\ evidence' = [e \in Ids |->
          IF e = id
          THEN IF keep THEN [evidence[e] EXCEPT !.allow = IF Decides(v) THEN p ELSE @]
               ELSE [state |-> "live", allow |-> allow]
          ELSE IF had /\ e = row.evidence THEN Erased ELSE evidence[e]]
     /\ row' = [row EXCEPT !.known = TRUE, !.evidence = id, !.version = v, !.payload = x,
                           !.permission = IF Decides(v) THEN v ELSE @]
     /\ Host

(* update_observed_permissions *)
Permit(v, p) ==
  /\ Live(row.evidence)
  /\ Decides(v) /\ MayDecide(v, p)
  /\ evidence' = [evidence EXCEPT ![row.evidence].allow = p]
  /\ row' = [row EXCEPT !.permission = v]
  /\ Host

(* The row of a source that is withdrawn up to w. *)
Withdrawn(w) ==
  IF row.known
  THEN [row EXCEPT !.evidence = NoEvidence, !.payload = NoPayload, !.withdrawn = w]
  ELSE [NoRow EXCEPT !.known = TRUE, !.version = w, !.permission = w, !.withdrawn = w]

(* retract_observed *)
Retract(w) ==
  /\ w >= row.version
  /\ evidence' = [e \in Ids |-> IF e = row.evidence THEN Erased ELSE evidence[e]]
  /\ row' = Withdrawn(w)
  /\ Host

-----------------------------------------------------------------------------
(* The commands of the owner, on the Evidence itself. *)

(* Whatever the command does, it is about the version the row has. *)
Forgotten(e) == forgotten' = IF e = row.evidence THEN row.version ELSE forgotten

(* forget_evidence *)
Forget(e) ==
  /\ Live(e)
  /\ evidence' = [evidence EXCEPT ![e].state = "soft"]
  /\ Forgotten(e) /\ owner' = TRUE
  /\ UNCHANGED row

(* delete_evidence *)
EraseObserved(e) ==
  /\ evidence[e].state \in {"live", "soft"}
  /\ evidence' = [evidence EXCEPT ![e] = Erased]
  /\ Forgotten(e) /\ owner' = TRUE
  /\ UNCHANGED row

(* update_evidence_permissions, which does not ask whether e is forgotten. *)
Allow(e, p) ==
  /\ evidence[e].state # "none"
  /\ evidence' = [evidence EXCEPT ![e].allow = p]
  /\ owner' = TRUE
  /\ UNCHANGED <<row, forgotten>>

ObservedNext ==
  \/ \E v \in Times, p \in Permissions : \/ \E x \in Payloads : Upsert(v, x, p)
                                         \/ Permit(v, p)
  \/ \E w \in Times : Retract(w)
  \/ \E e \in Ids : \/ Forget(e) \/ EraseObserved(e)
                    \/ \E p \in Permissions : Allow(e, p)

ObservedSpec == ObservedInit /\ [][ObservedNext]_observedVars

-----------------------------------------------------------------------------
(* Properties.                                                             *)

ObservedTypeOK ==
  /\ row \in ObservedRow
  /\ evidence \in [Ids -> Evidence]
  /\ owner \in BOOLEAN
  /\ forgotten \in 0 .. MaxTime

(* Omitted facts disappear: in whatever order versions arrive, nothing is  *)
(* left of a source but the Evidence of its row, whose text is the row's   *)
(* and whose version is not newer; after a withdrawal nothing is left.     *)
OnlyTheCurrentVersion ==
  /\ \A e \in Ids : evidence[e].state \in {"live", "soft"} => e = row.evidence
  /\ row.evidence # NoEvidence =>
       row.evidence[2] = row.payload /\ row.evidence[1] <= row.version

(* While a source has Evidence, no message of a host that is older than    *)
(* the last decision widens what may be read, through whatever versions    *)
(* and replacements; at the time of that decision only another text does   *)
(* (the text's permissions are written before they are compared).          *)
OlderNeverWidens ==
  [][row.evidence # NoEvidence /\ row'.evidence # NoEvidence /\ ~owner' =>
       \/ Allowed' \subseteq Allowed
       \/ row'.permission > row.permission
       \/ row'.version = row.permission /\ row'.payload # row.payload]_observedVars

(* What the owner has forgotten does not come back with an old message:    *)
(* only a version newer than the one forgotten is shown again.             *)
OwnersWordStands == Live(row.evidence) => row.version > forgotten
=============================================================================
