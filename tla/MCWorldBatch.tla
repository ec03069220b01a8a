------------------------------ MODULE MCWorldBatch ------------------------------
EXTENDS WorldBatch, TLC

CONSTANTS e1, e2, e3, e4, n1, n2, n3, me, t1, t2

Item(act, kind, who, what, whom, say, prior) ==
  [act |-> act, kind |-> kind, who |-> who, what |-> what, whom |-> whom, say |-> say, prior |-> prior]

Name(n) == Item("form", "naming", n, NoOne, NoOne, t1, NoItem)
Say(who, what) == Item("form", "attribute", who, what, NoOne, t1, NoItem)
Is(who, what, whom) == Item("form", "relationship", who, what, whom, t1, NoItem)
Now(who, what, whom, was) == Item("supersede", "relationship", who, what, whom, t1, was)
Not(was, who, what, whom) == Item("correct", "relationship", who, what, whom, t2, was)
Instead(was, who, what) == Item("correct", "attribute", who, what, NoOne, t1, was)
Alias(m, n) == Item("form", "alias", m, NoOne, n, t1, NoItem)
Renamed(m, n) == Item("correct", "alias", n, NoOne, m, t1, NoItem)
Happened(what, who) == Item("form", "event", who, what, NoOne, t1, NoItem)
Rather(was, what, who) == Item("correct", "event", who, what, NoOne, t1, was)
Back(kind, was) == Item("retract", kind, NoOne, NoOne, NoOne, t1, was)
But(was) == Item("contradict", "attribute", me, NoOne, NoOne, t1, was)

A == Rel(me, "friend", n1)
B == Rel(me, "friend", n2)

(* The answers: every kind of item alone, and pairs that meet. *)
MCAnswers ==
  {<<Is(me, "friend", n1)>>,
   <<Now(me, "friend", n2, A)>>, <<Now(me, "friend", n1, B)>>,
   <<Not(A, me, "friend", n2)>>,
   <<Is(me, "friend", n1), Is(me, "friend", n2)>>,
   <<Is(n1, "friend", n2)>>,
   <<Alias(n1, n2)>>, <<Alias(n1, n2), Is(me, "friend", n2)>>, <<Name(n3), Alias(n2, n3)>>,
   <<Name(n1), Name(n2), Alias(n1, n2)>>,
   <<Is(me, "friend", n2), Renamed(n1, n2)>>, <<Renamed(n1, n3)>>,
   <<Say(n1, "attr"), Say(n1, "pronoun"), Say(n2, "attr")>>,
   <<Say(me, "single"), Say(me, "mixed")>>,
   <<Is(me, "partner", n1)>>, <<Say(me, "single"), Is(me, "partner", n1)>>,
   <<Instead(Cog("single", me), me, "other"), Instead(Cog("mixed", me), me, "other")>>,
   <<Instead(Cog("attr", n1), n1, "other")>>, <<Instead(Cog("other", me), me, "single")>>,
   <<Now(me, "friend", n2, A), Back("relationship", A)>>,
   <<Back("relationship", A), Is(me, "friend", n1)>>,
   <<Happened("ev", n1)>>, <<Rather(Event("ev"), "ev2", n2)>>, <<Back("event", Event("ev"))>>,
   <<But(Cog("single", me))>>,
   <<Say(n1, "attr"), Say(n1, "attr")>>}
Symmetry == Permutations({e1, e2, e3, e4})
=============================================================================
