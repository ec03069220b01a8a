---------------------------- MODULE Clarification ----------------------------
(***************************************************************************)
(* A World job that cannot decide asks the person.  The transaction that   *)
(* settles it with clarification_required opens a clarification; the       *)
(* person's answer becomes new Evidence with a follow-up job in one        *)
(* transaction of ClarificationService.answer; the transaction that        *)
(* settles the follow-up resolves the clarification, and may open the next *)
(* one.  Hosts look for the question to answer and answer it in two        *)
(* transactions, may lose the reply and then ask again, and the person may *)
(* erase any of the Evidence meanwhile.                                    *)
(***************************************************************************)
EXTENDS Naturals

CONSTANTS Boundaries,   \* the conversation boundaries that start a chain
          MaxChain,     \* bound: follow-ups of follow-ups
          Calls,        \* the calls of answer_clarification hosts make
          Texts,        \* what the person may answer
          NoText, NoJob,
          MaxReplays    \* bound: replies lost, over all calls

ASSUME MaxChainAssumption == MaxChain \in Nat
ASSUME MaxReplaysAssumption == MaxReplays \in Nat
ASSUME NoTextAssumption == NoText \notin Texts

(* The follow-up's boundary event is derived from the clarification, and   *)
(* the clarification from its source job: <<b, n>> is the n-th follow-up.  *)
Jobs == Boundaries \X (0 .. MaxChain)
FollowUp(j) == <<j[1], j[2] + 1>>
Asker(j) == <<j[1], j[2] - 1>>
Opening(j) == j[2] = 0

ASSUME NoJobAssumption == NoJob \notin Jobs

VARIABLES job,         \* the job row: not there, open, or its terminal
          record,      \* the clarification whose source is the job
          call,        \* the host's call
          now,         \* a clock: opened_at and answered_at only order records,
                       \* and two steps may read the same time
          replays

clarificationVars == <<job, record, call, now, replays>>

JobStates == {"absent", "open", "clarification_required", "settled", "erased"}

Record == [state: {"none", "open", "answered", "resolved"},
           text: Texts \cup {NoText}, opened: Nat, answered: Nat]
NoRecord == [state |-> "none", text |-> NoText, opened |-> 0, answered |-> 0]

(* A call has a text, a target once it has chosen one, and in the end a    *)
(* receipt, nothing to answer, or an error.                                *)
Call == [at: {"idle", "ready", "chosen", "receipt", "nothing", "error"},
         text: Texts \cup {NoText}, target: Jobs \cup {NoJob}]

ClarificationInit ==
  /\ job = [j \in Jobs |-> "absent"]
  /\ record = [j \in Jobs |-> NoRecord]
  /\ call = [c \in Calls |-> [at |-> "idle", text |-> NoText, target |-> NoJob]]
  /\ now = 1 /\ replays = 0

ClarificationTypeOK ==
  /\ job \in [Jobs -> JobStates]
  /\ record \in [Jobs -> Record]
  /\ call \in [Calls -> Call]
  /\ now \in Nat /\ replays \in Nat

InState(S) == {j \in Jobs : record[j].state \in S}

-----------------------------------------------------------------------------
(* HermesBoundaryStore.accept of a conversation's batch. *)
Accept(j) ==
  /\ job[j] = "absent" /\ Opening(j)
  /\ job' = [job EXCEPT ![j] = "open"]
  /\ UNCHANGED <<record, call, now, replays>>

(* Mutant of Resolved: an outcome leaves the question it answers alone. *)
NotResolved(j) == record

(* The records the settlement of j leaves: the clarification that asked    *)
(* for j is resolved, and j's own question, if it has one, is opened.      *)
Resolved(j) ==
  IF Opening(j) \/ record[Asker(j)].state # "answered" THEN record
  ELSE [record EXCEPT ![Asker(j)].state = "resolved"]

(* Mutant of Synchronized: only the new question is written. *)
Unresolved(j, terminal) ==
  IF terminal = "clarification_required" /\ record[j].state = "none"
  THEN [record EXCEPT ![j].state = "open", ![j].opened = now]
  ELSE record

Synchronized(j, terminal) ==
  IF terminal = "clarification_required" /\ record[j].state = "none"
  THEN [Resolved(j) EXCEPT ![j].state = "open", ![j].opened = now]
  ELSE Resolved(j)

(* persist_terminal_outcome and synchronize_clarification in the           *)
(* transaction that settles the job.                                       *)
Settle(j) ==
  /\ job[j] = "open"
  /\ \E terminal \in {"clarification_required", "settled"} :
       /\ terminal = "clarification_required" => j[2] < MaxChain
       /\ job' = [job EXCEPT ![j] = terminal]
       /\ record' = Synchronized(j, terminal)
  /\ now' \in now .. now + 1
  /\ UNCHANGED <<call, replays>>

(* Mutant of Erase: the clarification the Evidence had answered stays. *)
EraseSource(j) ==
  /\ job[j] \notin {"absent", "erased"}
  /\ job' = [job EXCEPT ![j] = "erased"]
  /\ record' = [record EXCEPT ![j] = NoRecord]
  /\ UNCHANGED <<call, now, replays>>

(* true_delete of the job's Evidence: the job, the clarification it is the *)
(* source of and the one it is the follow-up of.                           *)
EraseEvidence(j) ==
  /\ job[j] \notin {"absent", "erased"}
  /\ job' = [job EXCEPT ![j] = "erased"]
  /\ record' = [k \in Jobs |-> IF k = j \/ FollowUp(k) = j THEN NoRecord ELSE record[k]]
  /\ UNCHANGED <<call, now, replays>>

-----------------------------------------------------------------------------
CallAt(c, place) == call[c].at = place
Move(c, place, target) ==
  call' = [call EXCEPT ![c].at = place, ![c].target = target]

(* The person answers in the session, or names the question. *)
Begin(c) ==
  /\ CallAt(c, "idle")
  /\ InState({"open", "answered", "resolved"}) # {}
  /\ \E t \in Texts : call' = [call EXCEPT ![c].at = "ready", ![c].text = t]
  /\ UNCHANGED <<job, record, now, replays>>

(* answer_latest_for_session looks before it answers: the newest open      *)
(* question, else the newest one already answered with this text.          *)
Choose(c) ==
  /\ CallAt(c, "ready")
  /\ LET open == InState({"open"})
         same == {j \in InState({"answered", "resolved"}) : record[j].text = call[c].text}
     IN  \/ \E j \in open :
              /\ \A k \in open : record[k].opened <= record[j].opened
              /\ Move(c, "chosen", j)
         \/ /\ open = {}
            /\ \E j \in same :
                 /\ \A k \in same : record[k].answered <= record[j].answered
                 /\ Move(c, "receipt", j)
         \/ open = {} /\ same = {} /\ Move(c, "nothing", NoJob)
  /\ UNCHANGED <<job, record, now, replays>>

(* Mutant of IsReplay: any second answer is taken for a replay. *)
AnyReplay(c, j) == record[j].state \in {"answered", "resolved"}

(* The stored answer has the words of the call. *)
IsReplay(c, j) ==
  record[j].state \in {"answered", "resolved"} /\ record[j].text = call[c].text

(* ClarificationService.answer: one transaction stores the answer as       *)
(* Evidence with its job and marks the record.  A second answer is a       *)
(* replay if it says the same.                                             *)
Answer(c) ==
  /\ CallAt(c, "chosen")
  /\ LET j == call[c].target IN
       \/ /\ record[j].state # "open"
          /\ Move(c, IF IsReplay(c, j) THEN "receipt" ELSE "error", j)
          /\ UNCHANGED <<job, record, now>>
       \/ /\ record[j].state = "open"
          /\ IF job[FollowUp(j)] = "absent"
             THEN /\ job' = [job EXCEPT ![FollowUp(j)] = "open"]
                  /\ record' = [record EXCEPT ![j].state = "answered",
                                              ![j].answered = now,
                                              ![j].text = call[c].text]
                  /\ now' \in now .. now + 1
                  /\ Move(c, "receipt", j)
             ELSE Move(c, "error", j) /\ UNCHANGED <<job, record, now>>
  /\ UNCHANGED replays

(* The reply does not reach the host; restarted, it sends the answer again. *)
LoseReply(c) ==
  /\ replays < MaxReplays
  /\ call[c].at \in {"chosen", "receipt", "nothing", "error"}
  /\ replays' = replays + 1
  /\ Move(c, "ready", NoJob)
  /\ UNCHANGED <<job, record, now>>

-----------------------------------------------------------------------------
ClarificationNext ==
  \/ \E j \in Jobs : Accept(j) \/ Settle(j) \/ EraseEvidence(j)
  \/ \E c \in Calls : Begin(c) \/ Choose(c) \/ Answer(c) \/ LoseReply(c)

ClarificationSpec == ClarificationInit /\ [][ClarificationNext]_clarificationVars

(* The workers settle every open job: WorldJob!EveryJobSettles. *)
FairClarificationSpec == ClarificationSpec /\ \A j \in Jobs : WF_clarificationVars(Settle(j))

-----------------------------------------------------------------------------
(* The record and the two jobs it ties together move in step: a question   *)
(* is open exactly while the job that asked it waits for an answer nobody  *)
(* stored; an answered one has its follow-up job in the workers' hands,    *)
(* and a resolved one a settled follow-up.                                 *)
ChainIsCoherent ==
  \A j \in Jobs : LET r == record[j] IN
    /\ r.state # "none" => job[j] = "clarification_required"
    /\ r.state = "open" => job[FollowUp(j)] = "absent" /\ r.text = NoText
    /\ r.state = "answered" => job[FollowUp(j)] = "open"
    /\ r.state = "resolved" => job[FollowUp(j)] \in {"clarification_required", "settled"}

(* No question is lost: a job that asked has its record, until the person  *)
(* erases the Evidence of the answer.                                      *)
EveryQuestionIsKept ==
  \A j \in Jobs :
    job[j] = "clarification_required" /\ record[j].state = "none" => job[FollowUp(j)] = "erased"

(* Erasing Evidence leaves neither its question nor the one it answered.   *)
ErasedLeavesNoRecord ==
  \A j \in Jobs : job[j] = "erased" =>
    /\ record[j].state = "none"
    /\ ~Opening(j) => record[Asker(j)].state = "none"

(* A question goes with its Evidence, and with nothing else. *)
KeptUntilErased == EveryQuestionIsKept /\ ErasedLeavesNoRecord

(* An answer is never replaced by another: of two hosts with different     *)
(* texts one is refused.                                                   *)
AnswerStands ==
  [][\A j \in Jobs : record[j].state \in {"answered", "resolved"} =>
       record'[j].text = record[j].text \/ record'[j].state = "none"]_clarificationVars

(* A receipt names a question that is answered with the host's own words,  *)
(* unless it has been erased since.                                        *)
ReceiptIsTrue ==
  \A c \in Calls : CallAt(c, "receipt") =>
    LET j == call[c].target IN
    \/ record[j].state \in {"answered", "resolved"} /\ record[j].text = call[c].text
    \/ "erased" \in {job[j], job[FollowUp(j)]}

(* Every answer is worked on: its question is resolved, or erased. *)
EveryAnswerResolves ==
  \A j \in Jobs : record[j].state = "answered" ~> record[j].state \in {"resolved", "none"}
=============================================================================
