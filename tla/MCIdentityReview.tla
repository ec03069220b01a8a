--------------------------- MODULE MCIdentityReview ---------------------------
(* Two processes and the reviewed memory loop around one identity ledger.  *)
EXTENDS IdentityReview, TLC
CONSTANTS owner, p1, p2, p3, p4, o1, o2, o3, m1, m2, m3, h1, h2

MCKind == [e \in Ents |-> "person"]
MCCalled == (owner :> "me") @@ (p1 :> "Ann") @@ (p2 :> "Bea") @@ (p3 :> "mom") @@ (p4 :> "Ann")
MCWhen == (m1 :> 1) @@ (m2 :> 2) @@ (m3 :> 3)
MCNear == Mentions \X Mentions
(* o1 is a trip of p1, a friend of the owner by o3; o2 is brought, as a     *)
(* child of its mother or of itself.  A split can make p1 the mother p3 and *)
(* another Ann, p4.                                                         *)
MCNamed == [s \in Slots |-> CASE s = <<o1, "target">> -> p1
                              [] s = <<o3, "source">> -> owner
                              [] s = <<o3, "target">> -> p1
                              [] OTHER -> Nobody]
MCBrought == {[p \in Places |-> IF p = "source" THEN owner ELSE p3], [p \in Places |-> p3]}
MCRole == (o1 :> "trip") @@ (o2 :> "child of") @@ (o3 :> "friend")
MCTells == [o \in {o1} |-> {}]
MCLasts == [o \in Objs |-> 1 .. MaxTime]
MCKinNames == [mother |-> {"mom"}, father |-> {"dad"}]

Plain == [form |-> "words", name |-> "none", family |-> "none", kinds |-> {}, hint |-> {},
          within |-> {}, of |-> {}, roles |-> {}, events |-> {}]
She == [Plain EXCEPT !.form = "pronoun", !.family = "mother", !.kinds = {"person", "agent"}]
Mom == [Plain EXCEPT !.form = "kin", !.family = "mother", !.name = "mom"]
Ann == [Plain EXCEPT !.name = "Ann"]
Friend == [Plain EXCEPT !.roles = {"friend"}, !.events = {"trip"}]
MCWords == {She, Mom, Ann, Friend}
MCTold == (m1 :> Mom) @@ (m2 :> Ann) @@ (m3 :> She)
Alike == Permutations(Hosts)
===============================================================================
