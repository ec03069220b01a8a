---------------------------- MODULE MCInteractions ----------------------------
EXTENDS Interactions, TLC

CONSTANTS e1, e2, i1, k1, k2, k3, c1, c2

Sources == (i1 :> {e1})
Heard == (k1 :> {e1}) @@ (k2 :> {e2}) @@ (k3 :> {})
Where == (k1 :> c1) @@ (k2 :> c1) @@ (k3 :> c2)
Turns == (k1 :> 1) @@ (k2 :> 2) @@ (k3 :> 1)
Quotes == (k1 :> {}) @@ (k2 :> {}) @@ (k3 :> {e1, i1})
Sends == (k1 :> 1) @@ (k2 :> 2) @@ (k3 :> 1)
Stored == (k1 :> 1) @@ (k2 :> 2) @@ (k3 :> 1)
Captures ==
  (k1 :> {Capture("complete_empty", {}, <<>>), Capture("complete", {}, <<<<k2, 1>>>>)})
  @@ (k2 :> {Capture("complete", {i1}, <<<<k1, 1>>>>)})
  @@ (k3 :> {Capture("complete", {e2}, <<<<k2, 1>>, <<k1, 1>>>>),
             Capture("complete", {}, <<<<k2, 1>>>>)})
=============================================================================
