----------------------------- MODULE Formation ------------------------------
(***************************************************************************)
(* What the formation of memories promises a host, whatever workers do:    *)
(* an accepted job is open until it gets exactly one terminal; the World   *)
(* is changed by a job once or not at all, only while it is open, only     *)
(* from a response already on disk, and together with its terminal.        *)
(* WorldJob implements this specification.                                 *)
(***************************************************************************)
EXTENDS Naturals

CONSTANTS
  Jobs,
  Repeatable   \* an interrupted inference may be asked again

VARIABLES
  status,  \* what the host sees of a job
  saved,   \* an open job's response is on disk
  asked,   \* model calls for its first interpretation
  world    \* committed World mutations

vars == <<status, saved, asked, world>>

Closed == {"applied", "no_change", "dead", "absent"}

FormationTypeOK ==
  /\ status \in [Jobs -> Closed \cup {"open"}]
  /\ saved \in [Jobs -> BOOLEAN]
  /\ asked \in [Jobs -> Nat]
  /\ world \in [Jobs -> Nat]

Init ==
  /\ status = [j \in Jobs |-> "open"]
  /\ saved = [j \in Jobs |-> FALSE]
  /\ asked = [j \in Jobs |-> 0]
  /\ world = [j \in Jobs |-> 0]

Same(j) == <<status[j], saved[j], asked[j], world[j]>>'
             = <<status[j], saved[j], asked[j], world[j]>>

(* A thread whose claim was taken away may still ask: asking needs no      *)
(* open job, only that it is not a repetition.                             *)
Ask(j) ==
  /\ asked[j] = 0 \/ Repeatable
  /\ asked'[j] = asked[j] + 1
  /\ <<status[j], saved[j], world[j]>>' = <<status[j], saved[j], world[j]>>

Save(j) ==
  /\ status[j] = "open" /\ ~saved[j] /\ asked[j] > 0
  /\ saved'[j]
  /\ <<status[j], asked[j], world[j]>>' = <<status[j], asked[j], world[j]>>

Remember(j) ==
  /\ status[j] = "open" /\ saved[j]
  /\ status'[j] = "applied" /\ world'[j] = world[j] + 1 /\ ~saved'[j]
  /\ asked'[j] = asked[j]

Close(j) ==
  /\ status[j] = "open"
  /\ status'[j] \in {"no_change", "dead"} /\ ~saved'[j]
  /\ <<asked[j], world[j]>>' = <<asked[j], world[j]>>

Forget(j) ==
  /\ status[j] # "absent"
  /\ status'[j] = "absent" /\ ~saved'[j]
  /\ <<asked[j], world[j]>>' = <<asked[j], world[j]>>

Step(j) == Ask(j) \/ Save(j) \/ Remember(j) \/ Close(j) \/ Forget(j)

(* One transaction may settle several jobs. *)
Next == \A j \in Jobs : Step(j) \/ Same(j)

Spec == Init /\ [][Next]_vars
=============================================================================
