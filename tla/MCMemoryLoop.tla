----------------------------- MODULE MCMemoryLoop -----------------------------
EXTENDS MemoryLoop, TLC

CONSTANTS c0, c1, c2, c3, c4, c5, c6, c7, r1, r2, r3, p1, p2, s1

(* c0 and c2 are in free words about p1, c5 and c6 attributes of it; c1    *)
(* and c3 evaluate r1, c4 states r1, c7 states r3.  r3 means what r2 meant *)
(* before it ended.                                                        *)
SomeCogs == {c0, c1, c2, c3, c4, c5, c6, c7}
About == (c0 :> {p1}) @@ (c1 :> {r1}) @@ (c2 :> {p1}) @@ (c3 :> {r1}) @@ (c4 :> {r1}) @@ (c5 :> {p1}) @@ (c6 :> {p1}) @@ (c7 :> {r3})
         @@ (r1 :> {p1}) @@ (r2 :> {p1}) @@ (r3 :> {p1}) @@ (p1 :> {}) @@ (p2 :> {})
Means == (c0 :> Plain) @@ (c2 :> Plain)
         @@ (c1 :> [kind |-> "evaluation", value |-> "v1"])
         @@ (c3 :> [kind |-> "evaluation", value |-> "v2"])
         @@ (c4 :> [kind |-> "relationship", value |-> "none"])
         @@ (c7 :> [kind |-> "relationship", value |-> "none"])
         @@ (c5 :> [kind |-> "attribute", value |-> "v1"])
         @@ (c6 :> [kind |-> "attribute", value |-> "v2"])
Meaning == (r1 :> "knows") @@ (r2 :> "works for") @@ (r3 :> "works for")
Conversation == [x \in Texts |-> s1]
Alike == Permutations(Evs) \cup Permutations(Texts)
=============================================================================
