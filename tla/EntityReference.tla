---------------------------- MODULE EntityReference ----------------------------
(***************************************************************************)
(* What a mention means.  The resolver is given the graph, the mentions    *)
(* that were accepted before in the same conversation, and the words of    *)
(* the user; it answers with one entity, with several, or with none, and   *)
(* it never guesses: each form of words has its own rule, and the first    *)
(* rule that knows the form decides.                                       *)
(*                                                                         *)
(* Words are abstracted to what the rules look at: their form, the name    *)
(* they are, the names in them, whose they are said to be, the roles and   *)
(* happenings they speak of, and the kind the caller expects.              *)
(***************************************************************************)
EXTENDS Naturals, FiniteSets

CONSTANTS Ents, Owner, Kind,   \* entities and their kinds
          Called, Names,       \* canonical names, all names
          Objs, Places,        \* records, and where they name entities
          Occasions,           \* the records that are events
          Role,                \* a relationship's type, an event's type
          Tells,               \* the relationships an event speaks of
          Lasts,               \* when a relationship holds
          Mutual,              \* bidirectional relationships
          KinNames,            \* the words for mother and for father
          Nobody

Slots == Objs \X Places
Living == {"person", "animal", "agent"}
Families == {"mother", "father"}
HumanRoles == {"friend", "colleague", "classmate", "romantic interest"}
Roles == HumanRoles \cup {"owns"}
Happenings == {"trip", "interpersonal conflict"}
ChildOf == {"child of", "son of", "daughter of"}
ParentOf == [mother |-> {"parent of", "mother of"}, father |-> {"parent of", "father of"}]
Word == [form: {"pronoun", "kin", "role", "words"}, name: Names, family: Families \cup {"none"},
         kinds: SUBSET Living, hint: SUBSET {Kind[e] : e \in Ents},
         within: SUBSET Names, of: SUBSET Names,
         roles: SUBSET {Role[o] : o \in Objs}, events: SUBSET {Role[o] : o \in Occasions}]

ASSUME KinAssumption == KinNames \in [Families -> SUBSET Names]
ASSUME CalledAssumption == Called \in [Ents -> Names]
ASSUME RecordAssumption == Occasions \subseteq Objs /\ Tells \in [Occasions -> SUBSET Objs]

Labels(g, e) == {Called[e]} \cup g.labels[e]
Expected(e, w) == w.hint = {} \/ Kind[e] \in w.hint
Exact(g, w) == {e \in g.ents : w.name \in Labels(g, e)}

-----------------------------------------------------------------------------
(* Kinship: "my mother" is who bears a word for mother and is in a         *)
(* relationship with the owner that says so, at the time of the mention.   *)
Between(g, o, e, f) == g.refs[<<o, "source">>] = e /\ g.refs[<<o, "target">>] = f

OfFamily(g, e, family, t) ==
  \E o \in Objs \ Occasions :
    /\ t \in Lasts[o]
    /\ \/ Between(g, o, Owner, e) /\ Role[o] \in ChildOf
       \/ Between(g, o, e, Owner) /\ Role[o] \in ParentOf[family]

Kin(g, family, w, t) ==
  {e \in g.ents \ {Owner} :
     /\ Kind[e] \in {"person", "agent"} /\ Expected(e, w)
     /\ Labels(g, e) \cap KinNames[family] # {}
     /\ OfFamily(g, e, family, t)}

-----------------------------------------------------------------------------
(* Pronouns: whom the conversation accepted last, unless what is known of  *)
(* the family speaks against it.  Equally late mentions are one group.     *)
AnyKind == [hint |-> {"person"}]
Opposed(g, w, e, references, t) ==
  /\ w.family \in Families
  /\ LET other == CHOOSE f \in Families : f # w.family IN
     (\E r \in references : r.word.family = other /\ r.word.form = "kin")
       \/ e \in Kin(g, other, AnyKind, t)

Latest(history) == {r \in history : \A s \in history : s.at <= r.at}

Recent(g, history, w, t) ==
  LET latest == Latest(history)
      who == {r.entity : r \in latest} IN
  {e \in who : /\ Kind[e] \in w.kinds /\ Expected(e, w)
               /\ ~Opposed(g, w, e, {r \in latest : r.entity = e}, t)}

-----------------------------------------------------------------------------
(* Descriptions: at least two of a role towards the owner, a happening and *)
(* a thing that is named; the one entity of whom all of them are true.     *)
OwnersWith(g, o, e) ==
  \/ Between(g, o, Owner, e)
  \/ Between(g, o, e, Owner) /\ Role[o] \notin {"owns", "romantic interest"} /\ o \in Mutual

Connected(g, e, t) == {o \in Objs \ Occasions : t \in Lasts[o] /\ OwnersWith(g, o, e)}

AtEvent(g, o) == {g.refs[<<o, p>>] : p \in Places} \ {Nobody}
Events(g, e, t) ==
  {o \in Occasions : e \in AtEvent(g, o) \/ Tells[o] \cap Connected(g, e, t) # {}}

Anchors(g, w) == {e \in g.ents : Kind[e] \notin Living /\ Labels(g, e) \cap w.within # {}}
Parts(g, w) == Cardinality({part \in {w.roles \cap Roles, w.events \cap Happenings, Anchors(g, w)} : part # {}})

(* One word of the description is true of the entity. *)
Described(g, w, t) ==
  {e \in g.ents \ ({Owner} \cup Anchors(g, w)) :
     /\ Expected(e, w)
     /\ \/ Labels(g, e) \cap w.within # {}
        \/ \E o \in Connected(g, e, t) : Role[o] \in w.roles
        \/ \E o \in Events(g, e, t) :
             Role[o] \in w.events \/ \E f \in AtEvent(g, o) \ {e, Owner} : Labels(g, f) \cap w.within # {}}

(* All of it is. *)
Satisfies(g, e, w, t) ==
  /\ Parts(g, w) >= 2
  /\ w.roles \cap HumanRoles # {} => Kind[e] \in {"person", "agent"}
  /\ "owns" \in w.roles => Kind[e] = "animal"
  /\ \A r \in w.roles \cap Roles : \E o \in Connected(g, e, t) : Role[o] = r
  /\ Cardinality(w.events \cap Happenings) <= 1
  /\ (w.events \cap Happenings) \cup Anchors(g, w) # {} =>
       \E o \in Events(g, e, t) :
         /\ w.events \cap Happenings \subseteq {Role[o]}
         /\ Anchors(g, w) \subseteq AtEvent(g, o) \ {e, Owner}

(* Someone else's relation, or more than the name of someone living. *)
Possessive(g, w) == \E e \in g.ents : Kind[e] \in Living /\ Labels(g, e) \cap w.of # {}
Embedded(g, w) == {e \in g.ents : Kind[e] \in Living /\ Labels(g, e) \cap w.within # {}}

-----------------------------------------------------------------------------
(* The answer: the entities it may be, of which one when it is resolved.   *)
Resolved(e) == [state |-> "resolved", entity |-> e]
Unresolved == [state |-> "unresolved", entity |-> Nobody]
Ambiguous == [state |-> "ambiguous", entity |-> Nobody]
Refused == [state |-> "refused", entity |-> Nobody]

Only(s) == CHOOSE e \in s : TRUE
OneOf(s) == IF Cardinality(s) = 1 THEN Resolved(Only(s)) ELSE IF s = {} THEN Unresolved ELSE Ambiguous

KinMeans(g, w, t) ==
  LET kin == Kin(g, w.family, w, t)
      exact == Exact(g, w) IN
  IF Cardinality(kin) = 1 /\ exact \subseteq kin THEN Resolved(Only(kin))
  ELSE IF Cardinality(kin \cup exact) > 1 THEN Ambiguous ELSE Unresolved

NameMeans(g, w) ==
  LET answer == OneOf(Exact(g, w)) IN
  IF answer.state = "resolved" /\ ~Expected(answer.entity, w) THEN Unresolved ELSE answer

DescriptionMeans(g, w, t) ==
  LET described == Described(g, w, t)
      eligible == {e \in described : Satisfies(g, e, w, t)} IN
  IF Cardinality(eligible) = 1 THEN Resolved(Only(eligible))
  ELSE IF Cardinality(described) > 1 THEN Ambiguous ELSE Unresolved

(* What the resolver may be given at all: records name stored entities,    *)
(* what was accepted names stored entities and came before.                *)
ShapeFits(g) == Owner \in g.ents /\ \A s \in Slots : g.refs[s] \in g.ents \cup {Nobody}
HistoryFits(g, history, t) == \A r \in history : r.entity \in g.ents /\ r.at < t

Meaning(g, history, w, t) ==
  IF ~ShapeFits(g) \/ ~HistoryFits(g, history, t) THEN Refused
  ELSE CASE w.form = "pronoun" ->
              IF w.hint # {} /\ w.hint \cap w.kinds = {} THEN Unresolved
              ELSE OneOf(Recent(g, history, w, t))
         [] w.form = "kin" -> KinMeans(g, w, t)
         [] w.form = "role" -> Unresolved
         [] w.form = "words" ->
              IF Exact(g, w) # {} THEN NameMeans(g, w)
              ELSE IF Possessive(g, w) \/ Embedded(g, w) # {} THEN Unresolved
              ELSE DescriptionMeans(g, w, t)
=============================================================================
