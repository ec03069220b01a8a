---------------------------- MODULE MCPortableSync ----------------------------
EXTENDS PortableSync, TLC

CONSTANTS h1, h2, e1, e2, e3, e4, c1, n1, n2, k1, k2, k3, k4, m1, p1, p2, p3

Message == (e1 :> m1) @@ (e2 :> m1) @@ (e3 :> NoOrigin) @@ (e4 :> NoOrigin)
Correction == (e1 :> NoEvidence) @@ (e2 :> NoEvidence) @@ (e3 :> e1) @@ (e4 :> NoEvidence)
Basis == (c1 :> {e1, e3}) @@ (n1 :> {e1}) @@ (n2 :> {e2})
Names == (n1 :> p1) @@ (n2 :> p1)
Texts == (k1 :> p1) @@ (k2 :> p1) @@ (k3 :> p2) @@ (k4 :> p3)
Uses == (k1 :> {e1}) @@ (k2 :> {e2}) @@ (k3 :> {e3, k1}) @@ (k4 :> {k2})
Quotes == (e1 :> {}) @@ (e2 :> {}) @@ (e3 :> {}) @@ (e4 :> {k2, k3})
Heard == (p1 :> {e1, e2})
Order == <<k1, k2, k3, k4>>
Held == (h1 :> {e1, e3, c1, n1, k1}) @@ (h2 :> {e2, k2})
=============================================================================
